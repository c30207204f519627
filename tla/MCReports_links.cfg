SPECIFICATION FairSpec
CONSTANTS
  Tabs = {t1}
  t1 = t1
  Kinds <- AnyKind
  MaxSubmission = 2
  MaxDrafts = 3
  MaxEdits = 1
  MaxChanges = 1
  MaxLost = 0
  FreshVersions = FALSE
  HandEdited = TRUE
INVARIANT LinksHold
PROPERTIES RedirectsDescend RedirectsEnd
