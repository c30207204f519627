------------------------- MODULE OrganisationPages -------------------------
(***************************************************************************)
(* From the page of an organisation to the pages of a registration: the    *)
(* registrations by type, a registration and what may be done with it, the *)
(* pages of an accreditation, the waste balance ledger, and the list of    *)
(* organisations regulators begin with.  The handlers keep no state; each  *)
(* reads the organisation anew, while the backend changes registrations    *)
(* and accreditations under the pages that are open.                       *)
(***************************************************************************)
EXTENDS UserScopes, OrganisationData

CONSTANTS
  Views,         \* windows a user reads the pages in
  MaxOrgChanges  \* bound on the changes of organisation and search

VARIABLES
  visitor,  \* who is signed in
  org,      \* the organisation in the backend
  total,    \* totalPages of the regulator's search
  ledgers,  \* the ledgers there have been, history
  changes,  \* changes so far
  view      \* view[v]: what window v shows

orgVars == <<visitor, org, total, ledgers, changes, view>>

RegistrationPages  == {"registration", "reports", "upload"}
AccreditationPages == {"notes", "create note"}
Numbers            == 0..(MaxPages + 1)

(* An address of the service; "n" is the page of a search.                 *)
Address ==
  [page: {"organisation", "exporting"}, reg: {None}, acc: {None}, n: {0}]
    \cup [page: RegistrationPages, reg: Regs, acc: {None}, n: {0}]
    \cup [page: AccreditationPages, reg: Regs, acc: Accs, n: {0}]
    \cup [page: {"ledger"}, reg: Regs, acc: Accs \cup {None}, n: {0}]
    \cup [page: {"regulators/home"}, reg: {None}, acc: {None}, n: Numbers]

At(page, r, a)   == [page |-> page, reg |-> r, acc |-> a, n |-> 0]
Tab(page)        == At(page, None, None)
ReadOf(r)        == At("registration", r, None)
SearchPage(n)    == [page |-> "regulators/home", reg |-> None, acc |-> None, n |-> n]
Nowhere          == Tab("nowhere")

(* "fresh": nothing has changed since the page was made; "ledger" is what  *)
(* the page of a ledger shows.                                             *)
View == [at: Address \cup {Nowhere, Tab("error"), Tab("not-found"), Tab("forbidden")},
         links: SUBSET Address, to: Address \cup {Nowhere},
         awaits: Address \cup {Nowhere}, fresh: BOOLEAN,
         ledger: (Regs \cup {None}) \X (Accs \cup {None})]

NoLedger == <<None, None>>
Closed   == [at |-> Nowhere, links |-> {}, to |-> Nowhere, awaits |-> Nowhere,
             fresh |-> FALSE, ledger |-> NoLedger]

OrgTypeOK ==
  /\ visitor \in Users \cup {Nobody} /\ org \in Organisations /\ total \in 0..MaxPages
  /\ ledgers \subseteq (Regs \X (Accs \cup {None}))
  /\ changes \in Nat
  /\ view \in [Views -> View]

(* A ledger is partitioned by accreditation, the registered-only phase     *)
(* included.                                                               *)
LedgersOf(o) == {<<r, o.reg[r].acc>> : r \in {x \in Regs : o.reg[x].status # "absent"}}

OrgInit ==
  /\ visitor \in {u \in Users : u.role # "none"}
  /\ org \in Organisations /\ total \in 0..MaxPages
  /\ ledgers = LedgersOf(org) /\ changes = 0
  /\ view = [v \in Views |-> Closed]

-----------------------------------------------------------------------------
(* What the handlers make of the organisation.                             *)

Known == {r \in Regs : org.reg[r].status # "absent"}

IsAccreditationActive(a) == a # None /\ org.acc[a] \in {"approved", "suspended"}

RawAccreditation(r) == org.reg[r].acc
Accreditation(r) == IF IsAccreditationActive(RawAccreditation(r)) THEN RawAccreditation(r) ELSE None

IsRegistrationExcluded(r) == org.reg[r].status \in {"absent", "created", "rejected"}
ExcludeAccreditation(a)   == a # None /\ ~IsAccreditationActive(a)

(* Slip: the accreditation is joined whatever its status.                  *)
DisplayableRaw ==
  {r \in Known : ~IsRegistrationExcluded(r) /\ ~ExcludeAccreditation(RawAccreditation(r))}

Displayable ==
  {r \in Known : ~IsRegistrationExcluded(r) /\ ~ExcludeAccreditation(Accreditation(r))}

Sites(type) == {r \in Displayable : org.reg[r].type = type}

ShouldRenderTabs == Sites("reprocessor") # {} /\ Sites("exporter") # {}

(* The tab asked for, when there are two; else whatever there is.          *)
ActiveSites(page) ==
  IF ShouldRenderTabs
  THEN Sites(IF page = "exporting" THEN "exporter" ELSE "reprocessor")
  ELSE Sites("reprocessor") \cup Sites("exporter")

OrganisationLinks(page) ==
  {ReadOf(r) : r \in ActiveSites(page)}
    \cup (IF ShouldRenderTabs THEN {Tab("organisation"), Tab("exporting")} ELSE {})

(* The page of a registration: its list, its reports, and what the status  *)
(* of the accreditation and the scopes of the visitor allow.               *)
BackTab(r) == Tab(IF org.reg[r].type = "exporter" THEN "exporting" ELSE "organisation")

NoteLinks(r) ==
  {At("notes", r, RawAccreditation(r))}
    \cup (IF HasWriteScope(visitor) THEN {At("create note", r, RawAccreditation(r))} ELSE {})

(* Slip: the tile of the notes goes by the accreditation, live or not.     *)
RegistrationLinksRaw(r) ==
  {BackTab(r), At("reports", r, None)}
    \cup (IF RawAccreditation(r) # None THEN NoteLinks(r) ELSE {})

RegistrationLinks(r) ==
  {BackTab(r), At("reports", r, None)}
    \cup (IF HasWriteScope(visitor) THEN {At("upload", r, None)} ELSE {})
    \cup (IF Accreditation(r) # None THEN NoteLinks(r) ELSE {})
    \cup (IF HasLedgerReadScope(visitor) THEN {At("ledger", r, RawAccreditation(r))} ELSE {})

(* The pages of an accreditation lead back, and the list of notes to the   *)
(* page that creates one.                                                  *)
AccreditationLinks(page, r, a) ==
  {ReadOf(r)} \cup (IF page = "notes" /\ HasWriteScope(visitor)
                    THEN {At("create note", r, a)} ELSE {})

LastPageOf(pages) == IF pages = 0 THEN 1 ELSE pages

SearchLinks(n) ==
  (IF total > 0 THEN {Tab("organisation")} ELSE {})
    \cup (IF total > 1 /\ n > 1 THEN {SearchPage(n - 1)} ELSE {})
    \cup (IF total > 1 /\ n < total THEN {SearchPage(n + 1)} ELSE {})

Shell == {IF visitor.role = "regulator_standard" THEN SearchPage(1) ELSE Tab("organisation")}

LinksOf(at) == Shell \cup
  CASE at.page \in {"organisation", "exporting"} -> OrganisationLinks(at.page)
    [] at.page = "registration"                  -> RegistrationLinks(at.reg)
    [] at.page \in {"reports", "upload", "ledger"} -> {ReadOf(at.reg)}
    [] at.page \in AccreditationPages            -> AccreditationLinks(at.page, at.reg, at.acc)
    [] at.page = "regulators/home"               -> SearchLinks(at.n)
    [] OTHER                                     -> {}

(* Whom and what the routes and the handlers refuse.                       *)
RequiredScope(page) ==
  CASE page = "regulators/home" -> {"organisation.search"}
    [] page = "ledger"          -> {"waste-balance.ledger.read"}
    [] OTHER                    -> {}

Refuses(at) ==
  CASE at.page \in RegistrationPages -> at.reg \notin Known
    [] at.page \in AccreditationPages ->
         at.reg \notin Known \/ Accreditation(at.reg) # at.acc
    [] at.page = "ledger" -> at.reg \notin Known \/ at.acc \notin {None, RawAccreditation(at.reg)}
    [] OTHER -> FALSE

Answer(at) ==
  IF ~(RequiredScope(at.page) \subseteq visitor.scopes) THEN "forbidden"
  ELSE IF at.page = "regulators/home" /\ at.n = 0       THEN "invalid"
  ELSE IF Refuses(at)                                   THEN "not-found"
  ELSE IF at.page = "regulators/home" /\ at.n > LastPageOf(total) THEN "redirect"
  ELSE "shown"

-----------------------------------------------------------------------------
Show(v, at) ==
  view' = [view EXCEPT ![v] = [Closed EXCEPT !.at = at, !.links = LinksOf(at), !.fresh = TRUE]]

(* A redirect is followed; else any address may be asked for, followed as  *)
(* a link or typed.                                                        *)
Asks(v, at) ==
  /\ view[v].awaits = Nowhere
  /\ view[v].to \in {at, Nowhere}

Get(v, at) ==
  /\ Asks(v, at) /\ at.page # "ledger"
  /\ \/ /\ Answer(at) = "shown" /\ Show(v, at)
     \/ /\ Answer(at) = "redirect"
        /\ view' = [view EXCEPT ![v] =
             [Closed EXCEPT !.to = SearchPage(LastPageOf(total)), !.fresh = TRUE]]
     \/ /\ Answer(at) \in {"forbidden", "not-found"} /\ Show(v, Tab(Answer(at)))
     \/ Show(v, Tab("error"))
  /\ UNCHANGED <<visitor, org, total, ledgers, changes>>

(* The page of a ledger looks at the organisation, then reads the events.  *)
GetLedger(v, at) ==
  /\ Asks(v, at) /\ at.page = "ledger"
  /\ IF Answer(at) = "shown"
     THEN view' = [view EXCEPT ![v] = [Closed EXCEPT !.awaits = at]]
     ELSE Show(v, Tab(Answer(at)))
  /\ UNCHANGED <<visitor, org, total, ledgers, changes>>

(* Slip: the ledger the registration writes to now.                        *)
EventsOfCurrent(at) == <<at.reg, RawAccreditation(at.reg)>>

(* The ledger the address names.                                           *)
EventsOf(at) == <<at.reg, at.acc>>

ShowLedger(v) ==
  /\ view[v].awaits # Nowhere
  /\ \/ view' = [view EXCEPT ![v] =
          [Closed EXCEPT !.at = view[v].awaits, !.links = LinksOf(view[v].awaits),
                         !.fresh = TRUE, !.ledger = EventsOf(view[v].awaits)]]
     \/ Show(v, Tab("error"))
  /\ UNCHANGED <<visitor, org, total, ledgers, changes>>

(* A page outlives what it was made from.                                  *)
Outdate == [v \in Views |-> [view[v] EXCEPT !.links = {}, !.fresh = FALSE]]

(* The backend changes one registration or one accreditation; neither is   *)
(* removed, and a registration keeps its type.                             *)
Differ(o, p) ==
  {<<"reg", r>> : r \in {x \in Regs : o.reg[x] # p.reg[x]}}
    \cup {<<"acc", a>> : a \in {x \in Accs : o.acc[x] # p.acc[x]}}

OrganisationChanges ==
  /\ changes < MaxOrgChanges /\ changes' = changes + 1
  /\ \E o \in Organisations :
       /\ \E x \in Differ(org, o) : Differ(org, o) = {x}
       /\ \A r \in Known : o.reg[r].type = org.reg[r].type /\ o.reg[r].status # "absent"
       /\ \A a \in Accs : org.acc[a] # "absent" => o.acc[a] # "absent"
       /\ org' = o /\ ledgers' = ledgers \cup LedgersOf(o)
  /\ view' = Outdate
  /\ UNCHANGED <<visitor, total>>

(* Other results, by what is searched for or by what the backend holds.    *)
SearchChanges ==
  /\ changes < MaxOrgChanges /\ changes' = changes + 1
  /\ total' \in (0..MaxPages) \ {total}
  /\ view' = Outdate
  /\ UNCHANGED <<visitor, org, ledgers>>

ViewStep(v) == ShowLedger(v) \/ \E at \in Address : Get(v, at) \/ GetLedger(v, at)

OrgNext == (\E v \in Views : ViewStep(v)) \/ OrganisationChanges \/ SearchChanges

OrgSpec == OrgInit /\ [][OrgNext]_orgVars

-----------------------------------------------------------------------------
(* What must hold.                                                         *)

(* No link and no redirect leads to an address that is refused, unless the *)
(* organisation or the search has changed since: what a page offers goes   *)
(* by scopes and by accreditations that are filtered in one place and not  *)
(* in another, what a route admits by checks of its own.                   *)
LinksAnswer ==
  \A v \in Views : view[v].fresh =>
    \A at \in view[v].links \cup ({view[v].to} \ {Nowhere}) :
      Answer(at) \in {"shown", "redirect"}

(* Every registration that has been granted, whatever became of its        *)
(* accreditation, can be reached: the page of the organisation lists it,   *)
(* or offers the tab that does, and the page of the registration leads     *)
(* back to a tab that lists it.                                            *)
Granted == {r \in Known : org.reg[r].status \notin {"created", "rejected"}}

Reached(links) == links \cup UNION {LinksOf(at) : at \in links \cap {Tab("organisation"), Tab("exporting")}}

EveryRegistrationIsListed ==
  \A v \in Views : view[v].fresh =>
    /\ view[v].at.page \in {"organisation", "exporting"} =>
         \A r \in Granted : ReadOf(r) \in Reached(view[v].links)
    /\ view[v].at.page = "registration" /\ view[v].at.reg \in Granted =>
         \E at \in view[v].links :
           at.page \in {"organisation", "exporting"} /\ ReadOf(view[v].at.reg) \in LinksOf(at)

(* The page of a ledger shows the ledger its address names, and never one  *)
(* no registration has written to, though the accreditation may change     *)
(* between the look at the organisation and the read of the events.        *)
LedgerIsItsAddress ==
  \A v \in Views : view[v].at.page = "ledger" =>
    /\ view[v].ledger = <<view[v].at.reg, view[v].at.acc>>
    /\ view[v].at.acc # None => view[v].ledger \in ledgers
=============================================================================
