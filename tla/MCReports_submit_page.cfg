SPECIFICATION Spec
CONSTANTS
  Tabs = {t1, t2}
  t1 = t1
  t2 = t2
  Kinds <- OneFigure
  MaxSubmission = 1
  MaxDrafts = 2
  MaxEdits = 2
  MaxChanges = 0
  MaxLost = 0
  FreshVersions = TRUE
  HandEdited = FALSE
SYMMETRY AnyTab
PROPERTY SubmitPageIsReady
