SPECIFICATION ReachableSpec
CONSTANTS
  Requests = {r1, r2}
  Sids = {s1}
  Tokens = {t1, t2}
  Kinds = {"page", "callback"}
  Answers = {"operator"}
  Stored = {}
  Holds <- HoldsDefra
  MaxFaults = 1
  Expiring = FALSE
  NoToken = NoToken
  NoSession = NoSession
  NoSid = NoSid
INVARIANT MarkMeansRefreshing
INVARIANT NobodyWaitsInVain
PROPERTY EndsDrawNearer
PROPERTY MarkIsCleared
PROPERTY EveryRequestEnds
PROPERTY ExpiredSessionsHeal
CHECK_DEADLOCK FALSE
