SPECIFICATION Spec
CONSTANTS
  Requests = {r1, r2}
  Sids = {s1}
  Tokens = {t1, t2}
  Kinds = {"page", "logout", "callback"}
  Answers = {"operator"}
  Stored = {}
  Holds <- HoldsDefra
  MaxFaults = 0
  Expiring = FALSE
  NoToken = NoToken
  NoSession = NoSession
  NoSid = NoSid
SYMMETRY AnyRequest
PROPERTY RefreshRespectsLogout
CHECK_DEADLOCK FALSE
