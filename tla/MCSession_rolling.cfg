SPECIFICATION Spec
CONSTANTS
  Requests = {r1, r2}
  Sids = {s1, s2}
  Tokens = {t1, t2}
  Kinds = {"page", "callback"}
  Answers = {"regulator_standard", "none"}
  Stored = {s2}
  Holds <- HoldsOneWithout
  MaxFaults = 1
  Expiring = TRUE
  NoToken = NoToken
  NoSession = NoSession
  NoSid = NoSid
SYMMETRY Interchangeable
INVARIANT RegulatorsRecognised
PROPERTY ImplementsLifecycle
CHECK_DEADLOCK FALSE
