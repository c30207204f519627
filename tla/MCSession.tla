----------------------------- MODULE MCSession -----------------------------
(* Instances of Session for TLC.                                           *)
EXTENDS Session, TLC

(* Every instance holds both providers.                                    *)
HoldsBoth == [r \in Requests |-> Providers]

(* Regulator access is off everywhere.                                     *)
HoldsDefra == [r \in Requests |-> {"defra_id"}]

(* A rolling deployment: one instance still has regulator access off.      *)
HoldsOneWithout ==
  LET old == CHOOSE r \in Requests : TRUE
  IN  [r \in Requests |-> IF r = old THEN {"defra_id"} ELSE Providers]

AnyRequest == Permutations(Requests) \cup Permutations(Tokens)
                \cup Permutations(Sids \ Stored)
Interchangeable == Permutations(Tokens) \cup Permutations(Sids \ Stored)
=============================================================================
