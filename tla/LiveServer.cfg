SPECIFICATION FairSpec
CONSTANTS
  home = home
  card = card
  Clients = {b1}
  Pages = {home, card}
  Imports = {}
  Entry = home
  MaxSaves = 1
  MaxPushes = 1
  Scripts <- Visits
  MaxDrops = 1
  Ordered = TRUE
  EarlySaves = FALSE
PROPERTIES SavedIsShown PageIsShown OldStreamsEnd
CHECK_DEADLOCK FALSE
