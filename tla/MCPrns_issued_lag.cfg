SPECIFICATION Spec
CONSTANTS
  Tabs = {t1}
  t1 = t1
  Browsers = {b1}
  b1 = b1
  Homes <- AnyHomes
  MaxNotes = 1
  Tonnages = {1}
  Balances = {1}
  Lagging = {"awaiting_acceptance"}
PROPERTY SessionNumberTakesPriority
