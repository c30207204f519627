----------------------------- MODULE UserScopes -----------------------------
(***************************************************************************)
(* Who uses the service, as the backend's /v1/me describes them, and what  *)
(* the pages ask of a session.                                             *)
(***************************************************************************)
CONSTANT Users  \* who may sign in

Scopes == {"organisation.linked.write", "organisation.search", "waste-balance.ledger.read"}
Roles  == {"operator", "regulator_standard", "none"}

User   == [provider: {"defra-id", "entra-id"}, role: Roles, scopes: SUBSET Scopes]
Nobody == [provider |-> "nobody", role |-> "none", scopes |-> {}]

HasWriteScope(u)      == "organisation.linked.write" \in u.scopes
HasLedgerReadScope(u) == "waste-balance.ledger.read" \in u.scopes

(* A role is not a scope, but the backend gives regulators the search their *)
(* home page needs, operators the right to write, and no scope without a   *)
(* role; either signs in with the provider of their own.                   *)
ScopesFollowRole(u) ==
  /\ u.role = "regulator_standard" <=> "organisation.search" \in u.scopes
  /\ u.role = "operator" <=> HasWriteScope(u)
  /\ HasLedgerReadScope(u) => u.role = "regulator_standard"
  /\ u.role = "regulator_standard" => u.provider = "entra-id"
  /\ u.role = "operator" => u.provider = "defra-id"

ASSUME UsersAssumption == Users \subseteq {u \in User : ScopesFollowRole(u)}
=============================================================================
