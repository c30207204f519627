------------------------------ MODULE Journey ------------------------------
(***************************************************************************)
(* One way through the service: a window signs in, reaches an              *)
(* organisation and its registrations, and opens the reports of one of     *)
(* them in several tabs.  The parts are SignInPages, OrganisationPages and *)
(* Reports; what one hands to the next is an address and who is signed in. *)
(* A part that was left is not entered again, and one not reached yet is   *)
(* at rest.                                                                *)
(***************************************************************************)
EXTENDS Reports, UserScopes, OrganisationData

CONSTANTS Windows, MaxReferrers, MaxOrgChanges

VARIABLES
  part,                                                     \* where the journey is
  access, membership, session, referrers, cookie, window,   \* SignInPages
  visitor, org, total, ledgers, orgChanges, view            \* OrganisationPages

Entry == INSTANCE SignInPages
Org   == INSTANCE OrganisationPages WITH Views <- Windows, changes <- orgChanges

entryVars == <<access, membership, session, referrers, cookie, window>>
orgVars   == <<visitor, org, total, ledgers, orgChanges, view>>
jVars     == <<part, entryVars, orgVars, vars>>

OrgAtRest ==
  /\ visitor = Nobody
  /\ org = CHOOSE o \in Organisations : TRUE
  /\ total = 0 /\ ledgers = {} /\ orgChanges = 0
  /\ view = [w \in Windows |-> Org!Closed]

JourneyInit ==
  /\ part = "entry"
  /\ Entry!SiteInit
  /\ OrgAtRest
  /\ Init /\ registration = CHOOSE g \in Kinds : TRUE

(* Signed in and admitted to a page that OrganisationPages answers: of     *)
(* whatever organisation the backend has, or to the list of all of them.   *)
EntryLeft ==
  /\ membership' = "none" /\ referrers' = <<>>
  /\ access' = FALSE /\ cookie' = FALSE /\ session' = Entry!NoSession
  /\ window' = [w \in Windows |-> Entry!BlankWindow]

ReachOrganisation(w) ==
  /\ part = "entry" /\ part' = "organisation"
  /\ window[w].fresh /\ window[w].page \in {"organisation", "regulators/home"}
  /\ visitor' = session.user
  /\ org' \in Organisations /\ ledgers' = Org!LedgersOf(org')
  /\ total' \in (IF Entry!IsRegulator THEN 0..MaxPages ELSE {0})
  /\ view' = [view EXCEPT ![w] = [@ EXCEPT !.fresh = TRUE,
       !.to = IF window[w].page = "organisation" THEN Org!Tab("organisation")
              ELSE Org!SearchPage(1)]]
  /\ EntryLeft
  /\ UNCHANGED <<orgChanges, vars>>

(* An operator opens the reports of a registration.                        *)
ReachReports(w) ==
  /\ part = "organisation" /\ part' = "reports"
  /\ view[w].fresh /\ view[w].at.page = "reports" /\ HasWriteScope(visitor)
  /\ LET r == view[w].at.reg IN
     registration' = [type |-> org.reg[r].type, accredited |-> Org!Accreditation(r) # None]
  /\ registration' \in Kinds
  /\ tab' = [t \in Tabs |-> [Blank EXCEPT !.to = "list"]]
  /\ visitor' = Nobody
  /\ org' = (CHOOSE o \in Organisations : TRUE)
  /\ total' = 0 /\ ledgers' = {} /\ orgChanges' = 0
  /\ view' = [v \in Windows |-> Org!Closed]
  /\ UNCHANGED <<entryVars, backend, context, lost>>

JourneyNext ==
  \/ part = "entry" /\ Entry!SiteNext /\ UNCHANGED <<part, orgVars, vars>>
  \/ \E w \in Windows : ReachOrganisation(w) \/ ReachReports(w)
  \/ part = "organisation" /\ Org!OrgNext /\ UNCHANGED <<part, entryVars, vars>>
  \/ part = "reports" /\ Next /\ UNCHANGED <<part, entryVars, orgVars>>

JourneySpec == JourneyInit /\ [][JourneyNext]_jVars

-----------------------------------------------------------------------------
(* The properties of the parts, on the way through all of them; those of   *)
(* Reports have their own names.                                           *)

(* SignInPages: no link and no redirect of the entry leads to a page that  *)
(* refuses the user.                                                       *)
WaysAreOpen == Entry!WaysAreOpen

(* SignInPages: no address sends a browser round in circles.               *)
RedirectsStop == Entry!RedirectsStop

(* SignInPages: who signs in is shown a page behind the sign-in.           *)
SignInLeadsIn == Entry!SignInLeadsIn

(* OrganisationPages: no link and no redirect leads to an address that is  *)
(* refused; where the entry leads is one of them.                          *)
LinksAnswer == Org!LinksAnswer

(* OrganisationPages: every granted registration can be reached.           *)
EveryRegistrationIsListed == Org!EveryRegistrationIsListed

(* OrganisationPages: the page of a ledger shows what its address names.   *)
LedgerIsItsAddress == Org!LedgerIsItsAddress
=============================================================================
