SPECIFICATION Spec
CONSTANTS
  Requests = {r1, r2}
  Sids = {s1}
  Tokens = {t1, t2}
  Kinds = {"page", "link", "logout", "callback"}
  Answers = {"operator", "none"}
  Stored = {}
  Holds <- HoldsBoth
  MaxFaults = 0
  Expiring = FALSE
  NoToken = NoToken
  NoSession = NoSession
  NoSid = NoSid
SYMMETRY AnyRequest
INVARIANT TypeOK
INVARIANT PermissionsMatchToken
PROPERTY EndedForGood
CHECK_DEADLOCK FALSE
