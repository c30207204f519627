------------------------- MODULE SessionLifecycle -------------------------
(***************************************************************************)
(* What the service promises about the life of a session id, whatever      *)
(* requests, refreshes, logouts and faults meet in the shared cache.       *)
(*                                                                         *)
(* An id is unused until a sign-in stores a session under it.  A live      *)
(* session may end.  While requests or refreshes that had read it are      *)
(* still running the session is only "ended": one of them may write it     *)
(* back.  When the last of them is over it is "closed", and a closed       *)
(* session never returns; nor does its id go to a second sign-in.          *)
(***************************************************************************)
CONSTANT Sids
VARIABLE phase

Phases == {"unused", "live", "ended", "closed"}

Init == phase \in [Sids -> {"unused", "live"}]

Becomes(s, to) == phase' = [phase EXCEPT ![s] = to]

SignIn(s) == phase[s] = "unused" /\ Becomes(s, "live")
End(s)    == phase[s] = "live"   /\ \E to \in {"ended", "closed"} : Becomes(s, to)
Revive(s) == phase[s] = "ended"  /\ Becomes(s, "live")
Close(s)  == phase[s] = "ended"  /\ Becomes(s, "closed")

Next == \E s \in Sids : SignIn(s) \/ End(s) \/ Revive(s) \/ Close(s)

Spec == Init /\ [][Next]_phase
=============================================================================
