----------------------------- MODULE MCJourney -----------------------------
(* An instance of Journey for TLC.                                         *)
EXTENDS Journey, TLC

CONSTANTS r1, r2, a1, a2

(* The registration whose reports are opened.                              *)
TwoFigures == {[type |-> "exporter", accredited |-> TRUE]}

AnyTab == Permutations(Tabs)

(* An operator, somebody the backend does not know, a regulator, and       *)
(* somebody with an Entra ID account who is none.                          *)
Operator  == [provider |-> "defra-id", role |-> "operator",
              scopes |-> {"organisation.linked.write"}]
Stranger  == [provider |-> "defra-id", role |-> "none", scopes |-> {}]
Regulator == [provider |-> "entra-id", role |-> "regulator_standard",
              scopes |-> {"organisation.search", "waste-balance.ledger.read"}]
Unknown   == [provider |-> "entra-id", role |-> "none", scopes |-> {}]
Everyone  == {Operator, Stranger, Regulator, Unknown}

(* A registration whose accreditation comes, goes and is replaced, beside  *)
(* an exporter's.                                                          *)
First  == [type: Types, status: {"created", "approved"}, acc: {a1, a2, None}]
Second == [type: {"exporter"}, status: {"absent", "approved"}, acc: {None}]

AnyOrganisation ==
  {o \in [reg: {(r1 :> x) @@ (r2 :> y) : x \in First, y \in Second},
          acc: {(a1 :> x) @@ (a2 :> y) :
                  x \in {"created", "approved", "cancelled"}, y \in {"absent", "approved"}}] :
     o.reg[r1].acc = a2 => o.acc[a2] # "absent"}
=============================================================================
