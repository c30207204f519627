SPECIFICATION Spec
CONSTANTS
  Requests = {r1}
  Sids = {s1}
  Tokens = {t1, t2}
  Kinds = {"page", "callback"}
  Answers = {"operator", "none"}
  Stored = {}
  Holds <- HoldsDefra
  MaxFaults = 0
  Expiring = FALSE
  NoToken = NoToken
  NoSession = NoSession
  NoSid = NoSid
SYMMETRY AnyRequest
INVARIANT NoRoleNoCookie
CHECK_DEADLOCK FALSE
