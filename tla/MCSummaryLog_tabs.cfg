SPECIFICATION FairSpec
CONSTANTS
  Tabs = {1, 2}
  Browsers = {1, 2}
  Homes <- SomeHomes
  MaxLogs = 2
  Lagging = {"submitting"}
INVARIANT TypeOK
INVARIANT PagesTellTheTruth
PROPERTY NoSubmissionIsDropped
PROPERTY SubmissionBridgesLag
PROPERTY PollingEnds
PROPERTY ImplementsAnnouncements
PROPERTY KeptAnswersRunOut
