-------------------------- MODULE OrganisationData --------------------------
(***************************************************************************)
(* An organisation as the backend's /v1/organisations answers it: its      *)
(* registrations and its accreditations.                                   *)
(***************************************************************************)
EXTENDS Naturals

CONSTANTS
  Regs, Accs,    \* ids of registrations and of accreditations
  None,          \* no id
  Organisations, \* what the backend may hold of the organisation
  MaxPages       \* bound on the pages of a search for organisations

Types          == {"reprocessor", "exporter"}
RegAccStatuses == {"absent", "created", "approved", "suspended", "cancelled", "rejected"}

Organisation ==
  [reg: [Regs -> [type: Types, status: RegAccStatuses, acc: Accs \cup {None}]],
   acc: [Accs -> RegAccStatuses]]

ASSUME PagesAssumption == MaxPages \in Nat
ASSUME IdsAssumption == None \notin Regs \cup Accs

(* A registration that names an accreditation names one there is.          *)
ASSUME OrganisationsAssumption ==
  /\ Organisations \subseteq Organisation
  /\ \A o \in Organisations, r \in Regs :
       o.reg[r].acc # None => o.acc[o.reg[r].acc] # "absent"
=============================================================================
