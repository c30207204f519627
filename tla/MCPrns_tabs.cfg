SPECIFICATION Spec
CONSTANTS
  Tabs = {t1, t2}
  t1 = t1
  t2 = t2
  Browsers = {b1, b2}
  b1 = b1
  b2 = b2
  Homes <- AnyHomes
  MaxNotes = 2
  Tonnages = {1, 2}
  Balances = {1}
  Lagging = {"awaiting_acceptance"}
SYMMETRY AnyTabOrBrowser
INVARIANT TypeOK
INVARIANT PagesTellTheTruth
INVARIANT NumberIsOwn
PROPERTY JudgedByItsTonnage
PROPERTY ImplementsAnnouncements
