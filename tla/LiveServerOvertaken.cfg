SPECIFICATION FairSpec
CONSTANTS
  home = home
  card = card
  Clients = {b1}
  Pages = {home, card}
  Imports = {}
  Entry = home
  MaxSaves = 1
  MaxPushes = 1
  Scripts <- Visits
  MaxDrops = 0
  Ordered = FALSE
  EarlySaves = FALSE

PROPERTIES SavedIsShown
CHECK_DEADLOCK FALSE
