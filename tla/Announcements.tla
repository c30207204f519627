--------------------------- MODULE Announcements ---------------------------
(***************************************************************************)
(* What the pages promise that tell an operator what has become of a note  *)
(* or of a summary log: created, issued, submitted, replaced.              *)
(*                                                                         *)
(* A page is announced to a tab only after what it says is so, by a step   *)
(* of its own; and what was once so stays so, however long the page stays  *)
(* open.  A tab may leave its page while more becomes so: it has sent a    *)
(* form, and is elsewhere when the form is answered.                       *)
(***************************************************************************)
CONSTANTS Tabs, Facts
VARIABLES
  so,      \* the facts that are so
  told     \* told[t]: the fact the page of tab t tells, if it tells one

Init == so = {} /\ told = [t \in Tabs |-> {}]

Grows == so \subseteq so' /\ so' \subseteq Facts

Happen     == Grows /\ UNCHANGED told
Tell(t, f) == f \in so /\ told' = [told EXCEPT ![t] = {f}] /\ UNCHANGED so
Leave(t)   == Grows /\ told' = [told EXCEPT ![t] = {}]

Next == Happen \/ \E t \in Tabs : Leave(t) \/ \E f \in so : Tell(t, f)

Spec == Init /\ [][Next]_<<so, told>>
=============================================================================
