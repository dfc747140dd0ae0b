SPECIFICATION Spec
CONSTANTS
  home = home
  card = card
  Clients = {b1}
  Pages = {home}
  Imports = {theme}
  Entry = home
  MaxSaves = 1
  MaxPushes = 0
  Scripts <- Looks
  MaxDrops = 0
  Ordered = TRUE
  EarlySaves = FALSE
INVARIANTS ImportsFed
CHECK_DEADLOCK FALSE
