SPECIFICATION JourneySpec
CONSTANTS
  Windows = {w1}
  Tabs = {t1, t2}
  t1 = t1
  t2 = t2
  Kinds <- TwoFigures
  MaxSubmission = 1
  MaxDrafts = 2
  MaxEdits = 3
  MaxChanges = 0
  MaxLost = 1
  FreshVersions = TRUE
  HandEdited = FALSE
  Users <- Everyone
  MaxReferrers = 2
  Regs = {r1, r2}
  Accs = {a1, a2}
  None = None
  r1 = r1
  r2 = r2
  a1 = a1
  a2 = a2
  Organisations <- AnyOrganisation
  MaxPages = 2
  MaxOrgChanges = 1
SYMMETRY AnyTab
INVARIANTS WaysAreOpen RedirectsStop LinksAnswer EveryRegistrationIsListed LedgerIsItsAddress TypeOK WalkedIsComplete LinksHold DraftIsFound
PROPERTIES SignInLeadsIn AdvancedAsReviewed FreeIsChecked
CHECK_DEADLOCK FALSE
