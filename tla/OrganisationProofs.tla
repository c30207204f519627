------------------------- MODULE OrganisationProofs -------------------------
(***************************************************************************)
(* Theorems about OrganisationPages, for any users, windows, registrations *)
(* and accreditations, and any changes of them.                            *)
(***************************************************************************)
EXTENDS OrganisationPages, TLAPS

Errors == {Tab("error"), Tab("not-found"), Tab("forbidden")}

-----------------------------------------------------------------------------
(* The inductive invariant.                                                *)

(* The scopes of the visitor follow the role, as those of nobody do.       *)
VisitorOK ==
  /\ visitor.role = "regulator_standard" <=> "organisation.search" \in visitor.scopes
  /\ HasLedgerReadScope(visitor) => visitor.role = "regulator_standard"

(* An address that is answered; that of a ledger may have been, before the *)
(* events were read, and its registration is there for good.               *)
Stands(at) == Answer(at) = "shown" \/ (at.page = "ledger" /\ at.reg \in Known)

(* A page nothing has changed under has the links that are made for it     *)
(* now, and was not refused; a redirect nothing has changed under leads    *)
(* where the visitor is not refused.                                       *)
IsFresh(x) ==
  x.fresh =>
    /\ x.awaits = Nowhere
    /\ x.to = Nowhere => /\ x.at \in Address \cup Errors /\ x.links = LinksOf(x.at)
                         /\ x.at \in Address => Stands(x.at)
    /\ x.to # Nowhere => /\ x.links = {} /\ x.at = Nowhere
                         /\ Answer(x.to) \in {"shown", "redirect"}

(* A ledger with an accreditation, shown or asked for, is one there has    *)
(* been.                                                                   *)
IsLedger(x) ==
  /\ x.awaits # Nowhere => /\ x.awaits.page = "ledger" /\ x.awaits.reg \in Known
                           /\ x.awaits.acc # None => <<x.awaits.reg, x.awaits.acc>> \in ledgers
  /\ x.at.page = "ledger" => /\ x.ledger = <<x.at.reg, x.at.acc>>
                             /\ x.at.acc # None => x.ledger \in ledgers

IInv ==
  /\ OrgTypeOK
  /\ VisitorOK
  /\ LedgersOf(org) \subseteq ledgers
  /\ \A v \in Views : IsFresh(view[v]) /\ IsLedger(view[v])

-----------------------------------------------------------------------------
(* Addresses and links.                                                    *)

LEMMA TabFacts ==
  ASSUME NEW page
  PROVE  /\ Tab(page).page = page /\ Tab(page).reg = None /\ Tab(page).acc = None
         /\ Tab(page).n = 0
  BY DEF Tab, At

(* The addresses handlers build are addresses of the service.              *)
LEMMA AddressFacts ==
  /\ Tab("organisation") \in Address /\ Tab("exporting") \in Address
  /\ \A r \in Regs : /\ ReadOf(r) \in Address /\ ReadOf(r).page = "registration"
                     /\ ReadOf(r).reg = r
  /\ \A p \in RegistrationPages, r \in Regs :
       /\ At(p, r, None) \in Address /\ At(p, r, None).page = p /\ At(p, r, None).reg = r
  /\ \A p \in AccreditationPages, r \in Regs, a \in Accs :
       /\ At(p, r, a) \in Address /\ At(p, r, a).page = p
       /\ At(p, r, a).reg = r /\ At(p, r, a).acc = a
  /\ \A r \in Regs, a \in Accs \cup {None} :
       /\ At("ledger", r, a) \in Address /\ At("ledger", r, a).page = "ledger"
       /\ At("ledger", r, a).reg = r /\ At("ledger", r, a).acc = a
  /\ \A n \in Numbers : /\ SearchPage(n) \in Address /\ SearchPage(n).n = n
                        /\ SearchPage(n).page = "regulators/home"
  BY DEF Tab, ReadOf, At, SearchPage, Address, RegistrationPages, AccreditationPages

(* What an organisation is.                                                *)
LEMMA OrgFacts ==
  ASSUME org \in Organisations, NEW r \in Regs
  PROVE  /\ org.reg[r].type \in Types /\ org.reg[r].status \in RegAccStatuses
         /\ RawAccreditation(r) \in Accs \cup {None}
         /\ Accreditation(r) \in Accs \cup {None}
         /\ Accreditation(r) # None => Accreditation(r) = RawAccreditation(r)
  <1>1. org \in Organisation
    BY OrganisationsAssumption
  <1>2. /\ org.reg[r].type \in Types /\ org.reg[r].status \in RegAccStatuses
        /\ org.reg[r].acc \in Accs \cup {None}
    BY <1>1 DEF Organisation
  <1> QED
    BY <1>2 DEF RawAccreditation, Accreditation, IsAccreditationActive

(* Every granted registration is displayed: the accreditation that is      *)
(* joined to it is a live one or none.                                     *)
LEMMA GrantedIsDisplayable == Granted = Displayable
  BY DEF Granted, Displayable, Known, IsRegistrationExcluded, ExcludeAccreditation,
         Accreditation, IsAccreditationActive

(* Which addresses are answered.                                           *)
LEMMA AnswersPlain ==
  ASSUME NEW page \in {"organisation", "exporting"}
  PROVE  Answer(Tab(page)) = "shown"
  BY TabFacts DEF Answer, RequiredScope, Refuses, RegistrationPages, AccreditationPages

(* A page of a registration that is known.                                 *)
LEMMA AnswersRegistration ==
  ASSUME NEW at, at.page \in RegistrationPages, at.reg \in Known
  PROVE  Answer(at) = "shown"
  BY DEF Answer, RequiredScope, Refuses, RegistrationPages, AccreditationPages

(* A page of the live accreditation of a registration.                     *)
LEMMA AnswersAccreditation ==
  ASSUME NEW at, at.page \in AccreditationPages, at.reg \in Known,
         Accreditation(at.reg) = at.acc
  PROVE  Answer(at) = "shown"
  BY DEF Answer, RequiredScope, Refuses, RegistrationPages, AccreditationPages

(* The ledger, for whoever may read it.                                    *)
LEMMA AnswersLedger ==
  ASSUME NEW at, at.page = "ledger", at.reg \in Known, HasLedgerReadScope(visitor),
         at.acc \in {None, RawAccreditation(at.reg)}
  PROVE  Answer(at) = "shown"
  BY DEF Answer, RequiredScope, Refuses, RegistrationPages, AccreditationPages, HasLedgerReadScope

(* The search, for whoever may search.                                     *)
LEMMA AnswersSearch ==
  ASSUME NEW n \in Nat, n # 0, "organisation.search" \in visitor.scopes
  PROVE  Answer(SearchPage(n)) \in {"shown", "redirect"}
  BY DEF Answer, RequiredScope, Refuses, RegistrationPages, AccreditationPages, SearchPage

(* What was answered says of a page: its registration is known, its        *)
(* accreditation is live.                                                  *)
LEMMA ShownFacts ==
  ASSUME NEW at, Answer(at) = "shown"
  PROVE  /\ at.page \in RegistrationPages \cup AccreditationPages \cup {"ledger"} => at.reg \in Known
         /\ at.page \in AccreditationPages => Accreditation(at.reg) = at.acc
         /\ at.page = "regulators/home" => /\ "organisation.search" \in visitor.scopes
                                           /\ at.n # 0
  <1>1. RequiredScope(at.page) \subseteq visitor.scopes /\ ~Refuses(at)
        /\ ~(at.page = "regulators/home" /\ at.n = 0)
    BY DEF Answer
  <1>2. /\ at.page \in RegistrationPages \cup AccreditationPages \cup {"ledger"} => at.reg \in Known
        /\ at.page \in AccreditationPages => Accreditation(at.reg) = at.acc
    BY <1>1 DEF Refuses, RegistrationPages, AccreditationPages
  <1>3. at.page = "regulators/home" => "organisation.search" \in visitor.scopes
    BY <1>1 DEF RequiredScope
  <1> QED
    BY <1>1, <1>2, <1>3
(* What the links of a page lead to, by the kind of the page.              *)
Leads(l) == l \in Address /\ Answer(l) \in {"shown", "redirect"}

(* The link of the shell.                                                  *)
LEMMA ShellLeads ==
  ASSUME VisitorOK, NEW l \in Shell
  PROVE  Leads(l)
  <1>1. CASE visitor.role = "regulator_standard"
    <2>1. l = SearchPage(1) /\ "organisation.search" \in visitor.scopes
      BY <1>1 DEF Shell, VisitorOK
    <2>2. 1 \in Numbers /\ 1 \in Nat /\ 1 # 0
      BY PagesAssumption DEF Numbers
    <2> QED
      BY <2>1, <2>2, AddressFacts, AnswersSearch DEF Leads
  <1>2. CASE visitor.role # "regulator_standard"
    BY <1>2, AddressFacts, AnswersPlain DEF Shell, Leads
  <1> QED
    BY <1>1, <1>2

(* The links of the page of an organisation.                               *)
LEMMA OrganisationLeads ==
  ASSUME NEW page, NEW l \in OrganisationLinks(page)
  PROVE  Leads(l)
  <1>1. CASE l \in {Tab("organisation"), Tab("exporting")}
    BY <1>1, AddressFacts, AnswersPlain DEF Leads
  <1>2. CASE l \in {ReadOf(r) : r \in ActiveSites(page)}
    <2>1. PICK r \in ActiveSites(page) : l = ReadOf(r)
      BY <1>2
    <2>2. r \in Regs /\ r \in Known
      BY <2>1 DEF ActiveSites, Sites, Displayable, Known
    <2>3. ReadOf(r) \in Address /\ ReadOf(r).page = "registration" /\ ReadOf(r).reg = r
      BY <2>2, AddressFacts
    <2> QED
      BY <2>1, <2>2, <2>3, AnswersRegistration DEF Leads, RegistrationPages
  <1> QED
    BY <1>1, <1>2 DEF OrganisationLinks

(* The page of a registration: to its notes only if the accreditation is   *)
(* live, to the ledger only with the scope.                                *)
LEMMA RegistrationLeads ==
  ASSUME org \in Organisations, VisitorOK, NEW r \in Regs, r \in Known,
         NEW l \in RegistrationLinks(r)
  PROVE  Leads(l)
  <1>1. CASE l = BackTab(r)
    BY <1>1, AddressFacts, AnswersPlain DEF BackTab, Leads
  <1>2. CASE l \in {At("reports", r, None), At("upload", r, None)}
    <2>1. PICK p \in RegistrationPages : l = At(p, r, None)
      BY <1>2 DEF RegistrationPages
    <2>2. l \in Address /\ l.page = p /\ l.reg = r
      BY <2>1, AddressFacts
    <2> QED
      BY <2>2, AnswersRegistration DEF Leads
  <1>3. CASE Accreditation(r) # None /\ l \in NoteLinks(r)
    <2>1. RawAccreditation(r) \in Accs /\ Accreditation(r) = RawAccreditation(r)
      BY <1>3, OrgFacts
    <2>2. PICK p \in AccreditationPages : l = At(p, r, RawAccreditation(r))
      BY <1>3 DEF NoteLinks, AccreditationPages
    <2>3. /\ l \in Address /\ l.page = p /\ l.reg = r /\ l.acc = RawAccreditation(r)
      BY <2>1, <2>2, AddressFacts
    <2> QED
      BY <2>1, <2>3, AnswersAccreditation DEF Leads
  <1>4. CASE HasLedgerReadScope(visitor) /\ l = At("ledger", r, RawAccreditation(r))
    <2>1. RawAccreditation(r) \in Accs \cup {None}
      BY OrgFacts
    <2>2. l \in Address /\ l.page = "ledger" /\ l.reg = r /\ l.acc = RawAccreditation(r)
      BY <1>4, <2>1, AddressFacts
    <2> QED
      BY <1>4, <2>2, AnswersLedger DEF Leads
  <1> QED
    BY <1>1, <1>2, <1>3, <1>4 DEF RegistrationLinks

(* The links of the pages of an accreditation.                             *)
LEMMA AccreditationLeads ==
  ASSUME NEW r \in Regs, r \in Known, NEW a \in Accs, Accreditation(r) = a,
         NEW page, NEW l \in AccreditationLinks(page, r, a)
  PROVE  Leads(l)
  <1>1. CASE l = ReadOf(r)
    BY <1>1, AddressFacts, AnswersRegistration DEF Leads, RegistrationPages
  <1>2. CASE l = At("create note", r, a)
    <2>1. "create note" \in AccreditationPages
      BY DEF AccreditationPages
    <2>2. l \in Address /\ l.page = "create note" /\ l.reg = r /\ l.acc = a
      BY <1>2 DEF At, Address, AccreditationPages
    <2>3. Answer(l) = "shown"
      BY <2>1, <2>2, AnswersAccreditation
    <2> QED
      BY <2>2, <2>3 DEF Leads
  <1> QED
    BY <1>1, <1>2 DEF AccreditationLinks

(* The links of a page of the search.                                      *)
LEMMA SearchLeads ==
  ASSUME total \in 0..MaxPages, NEW n \in Numbers, n # 0,
         "organisation.search" \in visitor.scopes, NEW l \in SearchLinks(n)
  PROVE  Leads(l)
  <1>1. CASE l = Tab("organisation")
    BY <1>1, AddressFacts, AnswersPlain DEF Leads
  <1>2. CASE n > 1 /\ l = SearchPage(n - 1)
    <2>1. n - 1 \in Numbers /\ n - 1 \in Nat /\ n - 1 # 0
      BY <1>2, PagesAssumption DEF Numbers
    <2> QED
      BY <1>2, <2>1, AddressFacts, AnswersSearch DEF Leads
  <1>3. CASE n < total /\ l = SearchPage(n + 1)
    <2>1. n + 1 \in Numbers /\ n + 1 \in Nat /\ n + 1 # 0
      BY <1>3, PagesAssumption DEF Numbers
    <2> QED
      BY <1>3, <2>1, AddressFacts, AnswersSearch DEF Leads
  <1> QED
    BY <1>1, <1>2, <1>3 DEF SearchLinks

(* What addresses are made of.                                             *)
LEMMA AddressParts ==
  ASSUME NEW at \in Address
  PROVE  /\ at.page \in RegistrationPages \cup AccreditationPages \cup {"ledger"} => at.reg \in Regs
         /\ at.page \in AccreditationPages => at.acc \in Accs
         /\ at.page = "ledger" => at.acc \in Accs \cup {None}
         /\ at.page = "regulators/home" => at.n \in Numbers
         /\ at.page \in {"organisation", "exporting", "ledger", "regulators/home"}
                         \cup RegistrationPages \cup AccreditationPages
  BY DEF Address, RegistrationPages, AccreditationPages

(* All links of a page that was shown lead somewhere.                      *)
LEMMA LinksLead ==
  ASSUME OrgTypeOK, VisitorOK, NEW at \in Address \cup Errors,
         at \in Address => Stands(at), NEW l \in LinksOf(at)
  PROVE  Leads(l)
  <1>1. org \in Organisations /\ total \in 0..MaxPages
    BY DEF OrgTypeOK
  <1>2. CASE l \in Shell
    BY <1>2, ShellLeads
  <1>3. CASE l \notin Shell /\ at \in Errors
    <2>1. at.page \in {"error", "not-found", "forbidden"}
      BY <1>3, TabFacts DEF Errors
    <2>2. LinksOf(at) = Shell \cup {}
      BY <2>1 DEF LinksOf, RegistrationPages, AccreditationPages
    <2> QED
      BY <1>3, <2>2
  <1>4. CASE l \notin Shell /\ at \in Address
    <2>1. Answer(at) = "shown" \/ (at.page = "ledger" /\ at.reg \in Known)
      BY <1>4 DEF Stands
    <2>2. CASE at.page \in {"organisation", "exporting"}
      <3>1. l \in OrganisationLinks(at.page)
        BY <1>4, <2>2 DEF LinksOf, AccreditationPages
      <3> QED
        BY <3>1, OrganisationLeads
    <2>3. CASE at.page = "registration"
      <3>1. l \in RegistrationLinks(at.reg)
        BY <1>4, <2>3 DEF LinksOf, AccreditationPages
      <3>2. at.reg \in Regs /\ at.reg \in Known
        BY <1>4, <2>1, <2>3, ShownFacts, AddressParts DEF RegistrationPages
      <3> QED
        BY <1>1, <3>1, <3>2, RegistrationLeads
    <2>4. CASE at.page \in {"reports", "upload", "ledger"}
      <3>1. l = ReadOf(at.reg)
        BY <1>4, <2>4 DEF LinksOf, AccreditationPages
      <3>2. at.reg \in Regs /\ at.reg \in Known
        BY <1>4, <2>1, <2>4, ShownFacts, AddressParts DEF RegistrationPages
      <3> QED
        BY <3>1, <3>2, AddressFacts, AnswersRegistration DEF Leads, RegistrationPages
    <2>5. CASE at.page \in AccreditationPages
      <3>1. l \in AccreditationLinks(at.page, at.reg, at.acc)
        BY <1>4, <2>5 DEF LinksOf, AccreditationPages
      <3>2. at.reg \in Regs /\ at.reg \in Known /\ at.acc \in Accs
            /\ Accreditation(at.reg) = at.acc
        BY <1>4, <2>1, <2>5, ShownFacts, AddressParts DEF AccreditationPages
      <3> QED
        BY <3>1, <3>2, AccreditationLeads
    <2>6. CASE at.page = "regulators/home"
      <3>1. l \in SearchLinks(at.n)
        BY <1>4, <2>6 DEF LinksOf, AccreditationPages
      <3>2. at.n \in Numbers /\ at.n # 0 /\ "organisation.search" \in visitor.scopes
        BY <1>4, <2>1, <2>6, ShownFacts, AddressParts
      <3> QED
        BY <1>1, <3>1, <3>2, SearchLeads
    <2> QED
      BY <1>4, <2>2, <2>3, <2>4, <2>5, <2>6, AddressParts DEF RegistrationPages
  <1> QED
    BY <1>2, <1>3, <1>4
-----------------------------------------------------------------------------
(* The properties follow from the invariant.                               *)

LEMMA LinksAnswerHolds == IInv => LinksAnswer
  <1> SUFFICES ASSUME IInv, NEW v \in Views, view[v].fresh,
                      NEW at \in view[v].links \cup ({view[v].to} \ {Nowhere})
               PROVE  Answer(at) \in {"shown", "redirect"}
    BY DEF LinksAnswer
  <1>1. IsFresh(view[v]) /\ OrgTypeOK /\ VisitorOK
    BY DEF IInv
  <1>2. CASE view[v].to = Nowhere
    BY <1>1, <1>2, LinksLead DEF IsFresh, Leads
  <1>3. CASE view[v].to # Nowhere
    BY <1>1, <1>3 DEF IsFresh
  <1> QED
    BY <1>2, <1>3

(* Whichever tab is open, a registration is on it, or the tabs are offered *)
(* and it is on the other.                                                 *)
LEMMA ListedSomewhere ==
  ASSUME org \in Organisations, NEW r \in Displayable, NEW page \in {"organisation", "exporting"}
  PROVE  \/ r \in ActiveSites(page)
         \/ ShouldRenderTabs /\ r \in ActiveSites("organisation") \cup ActiveSites("exporting")
  <1>1. r \in Regs
    BY DEF Displayable, Known
  <1>2. r \in Sites("reprocessor") \/ r \in Sites("exporter")
    BY <1>1, OrgFacts DEF Sites, Types
  <1>3. CASE ShouldRenderTabs
    BY <1>2, <1>3 DEF ActiveSites
  <1>4. CASE ~ShouldRenderTabs
    BY <1>2, <1>4 DEF ActiveSites, ShouldRenderTabs
  <1> QED
    BY <1>3, <1>4

(* The page of a tab links what is on it.                                  *)
LEMMA SitesAreLinked ==
  ASSUME NEW page \in {"organisation", "exporting"}
  PROVE  /\ \A r \in ActiveSites(page) : ReadOf(r) \in LinksOf(Tab(page))
         /\ ShouldRenderTabs => {Tab("organisation"), Tab("exporting")} \subseteq LinksOf(Tab(page))
  <1>1. OrganisationLinks(page) \subseteq LinksOf(Tab(page))
    BY TabFacts DEF LinksOf, AccreditationPages
  <1> QED
    BY <1>1 DEF OrganisationLinks

(* The tab a registration's page leads back to lists it.                   *)
LEMMA BackTabLists ==
  ASSUME org \in Organisations, NEW r \in Displayable
  PROVE  \E page \in {"organisation", "exporting"} :
           BackTab(r) = Tab(page) /\ r \in ActiveSites(page)
  <1>1. r \in Regs
    BY DEF Displayable, Known
  <1>2. CASE org.reg[r].type = "exporter"
    <2>1. r \in Sites("exporter") /\ BackTab(r) = Tab("exporting")
      BY <1>1, <1>2 DEF Sites, BackTab
    <2>2. r \in ActiveSites("exporting")
      BY <2>1 DEF ActiveSites, ShouldRenderTabs
    <2> QED
      BY <2>1, <2>2
  <1>3. CASE org.reg[r].type # "exporter"
    <2>1. r \in Sites("reprocessor") /\ BackTab(r) = Tab("organisation")
      BY <1>1, <1>3, OrgFacts DEF Sites, BackTab, Types
    <2>2. r \in ActiveSites("organisation")
      BY <2>1 DEF ActiveSites, ShouldRenderTabs
    <2> QED
      BY <2>1, <2>2
  <1> QED
    BY <1>2, <1>3

(* The address of a tab is its name.                                       *)
LEMMA TabAddress ==
  ASSUME NEW at \in Address, at.page \in {"organisation", "exporting"}
  PROVE  at = Tab(at.page)
  <1>1. at \in [page: {"organisation", "exporting"}, reg: {None}, acc: {None}, n: {0}]
    BY DEF Address, RegistrationPages, AccreditationPages
  <1> QED
    BY <1>1 DEF Tab, At

(* Every granted registration is reached.                                  *)
LEMMA EveryRegistrationHolds == IInv => EveryRegistrationIsListed
  <1> SUFFICES ASSUME IInv, NEW v \in Views, view[v].fresh
               PROVE  /\ view[v].at.page \in {"organisation", "exporting"} =>
                           \A r \in Granted : ReadOf(r) \in Reached(view[v].links)
                      /\ view[v].at.page = "registration" /\ view[v].at.reg \in Granted =>
                           \E at \in view[v].links :
                             /\ at.page \in {"organisation", "exporting"}
                             /\ ReadOf(view[v].at.reg) \in LinksOf(at)
    BY DEF EveryRegistrationIsListed
  <1> DEFINE at0 == view[v].at
  <1>1. org \in Organisations /\ IsFresh(view[v])
    BY DEF IInv, OrgTypeOK
  <1>2. ASSUME at0.page \in {"organisation", "exporting", "registration"}
        PROVE  at0 \in Address /\ view[v].links = LinksOf(at0)
    <2>1. Nowhere.page = "nowhere"
      BY TabFacts DEF Nowhere
    <2>2. view[v].to = Nowhere
      BY <1>1, <1>2, <2>1 DEF IsFresh
    <2>3. \A e \in Errors : e.page \notin {"organisation", "exporting", "registration"}
      BY TabFacts DEF Errors
    <2> QED
      BY <1>1, <1>2, <2>2, <2>3 DEF IsFresh
  <1>3. ASSUME at0.page \in {"organisation", "exporting"}, NEW r \in Granted
        PROVE  ReadOf(r) \in Reached(view[v].links)
    <2> DEFINE page == at0.page
    <2>1. view[v].links = LinksOf(Tab(page)) /\ r \in Displayable
      BY <1>2, <1>3, TabAddress, GrantedIsDisplayable
    <2>2. CASE r \in ActiveSites(page)
      BY <1>3, <2>1, <2>2, SitesAreLinked DEF Reached
    <2>3. CASE ShouldRenderTabs /\ r \in ActiveSites("organisation") \cup ActiveSites("exporting")
      <3>1. {Tab("organisation"), Tab("exporting")} \subseteq view[v].links
        BY <1>3, <2>1, <2>3, SitesAreLinked
      <3>2. \E p \in {"organisation", "exporting"} : ReadOf(r) \in LinksOf(Tab(p))
        BY <2>3, SitesAreLinked
      <3> QED
        BY <3>1, <3>2 DEF Reached
    <2> QED
      BY <1>1, <1>3, <2>1, <2>2, <2>3, ListedSomewhere
  <1>4. ASSUME at0.page = "registration", at0.reg \in Granted
        PROVE  \E at \in view[v].links : /\ at.page \in {"organisation", "exporting"}
                                         /\ ReadOf(at0.reg) \in LinksOf(at)
    <2>1. view[v].links = LinksOf(at0) /\ at0.reg \in Displayable
      BY <1>2, <1>4, GrantedIsDisplayable
    <2>2. BackTab(at0.reg) \in view[v].links
      BY <1>4, <2>1 DEF LinksOf, AccreditationPages, RegistrationLinks
    <2>3. PICK page \in {"organisation", "exporting"} :
            BackTab(at0.reg) = Tab(page) /\ at0.reg \in ActiveSites(page)
      BY <1>1, <2>1, BackTabLists
    <2>4. ReadOf(at0.reg) \in LinksOf(Tab(page)) /\ Tab(page).page = page
      BY <2>3, SitesAreLinked, TabFacts
    <2> QED
      BY <2>2, <2>3, <2>4
  <1> QED
    BY <1>3, <1>4

(* A ledger is that of its address.                                        *)
LEMMA LedgerHolds == IInv => LedgerIsItsAddress
  BY DEF IInv, IsLedger, LedgerIsItsAddress
-----------------------------------------------------------------------------
(* Steps.                                                                  *)

LEMMA NowhereFacts ==
  /\ Nowhere.page = "nowhere" /\ Nowhere \notin Address
  /\ \A e \in Errors : e \notin Address /\ e.page # "ledger"
  /\ \A at \in Address : at # Nowhere
  <1>1. Nowhere.page = "nowhere" /\ \A e \in Errors : e.page \in {"error", "not-found", "forbidden"}
    BY TabFacts DEF Nowhere, Errors
  <1>2. \A at \in Address : at.page \notin {"nowhere", "error", "not-found", "forbidden"}
    BY AddressParts DEF RegistrationPages, AccreditationPages
  <1> QED
    BY <1>1, <1>2

(* The page before any.                                                    *)
LEMMA ClosedFacts ==
  /\ Closed.at = Nowhere /\ Closed.links = {} /\ Closed.to = Nowhere
  /\ Closed.awaits = Nowhere /\ Closed.fresh = FALSE /\ Closed.ledger = NoLedger
  /\ Closed \in View
  BY DEF Closed, View, NoLedger

(* A window before any page shows nothing wrong.                           *)
LEMMA ClosedHolds == IsFresh(Closed) /\ IsLedger(Closed)
  BY ClosedFacts, NowhereFacts DEF IsFresh, IsLedger

(* The users are as the backend makes them.                                *)
LEMMA VisitorFacts ==
  ASSUME visitor \in Users
  PROVE  VisitorOK
  BY UsersAssumption DEF VisitorOK, ScopesFollowRole

(* The invariant holds at first.                                           *)
LEMMA InitIInv == OrgInit => IInv
  <1> SUFFICES ASSUME OrgInit PROVE IInv
    OBVIOUS
  <1>1. VisitorOK
    BY VisitorFacts DEF OrgInit
  <1>2. LedgersOf(org) \subseteq Regs \X (Accs \cup {None})
    BY OrganisationsAssumption DEF OrgInit, LedgersOf, Organisation
  <1>3. view \in [Views -> View] /\ \A v \in Views : IsFresh(view[v]) /\ IsLedger(view[v])
    BY ClosedFacts, ClosedHolds DEF OrgInit
  <1> QED
    BY <1>1, <1>2, <1>3 DEF OrgInit, OrgTypeOK, IInv

(* What is made of the organisation stays, as long as the visitor, the     *)
(* organisation and the search do.                                         *)
LEMMA SameAnswers ==
  ASSUME UNCHANGED <<visitor, org, total>>
  PROVE  /\ \A at : LinksOf(at)' = LinksOf(at) /\ Answer(at)' = Answer(at)
         /\ Known' = Known
  <1>1. ASSUME NEW r
        PROVE  RawAccreditation(r)' = RawAccreditation(r) /\ Accreditation(r)' = Accreditation(r)
    BY DEF RawAccreditation, Accreditation, IsAccreditationActive
  <1>2. Known' = Known
    BY DEF Known
  <1>3. ASSUME NEW type
        PROVE  Sites(type)' = Sites(type)
    BY DEF Sites, Displayable, Known, IsRegistrationExcluded, ExcludeAccreditation,
           Accreditation, RawAccreditation, IsAccreditationActive
  <1>4. ASSUME NEW page
        PROVE  OrganisationLinks(page)' = OrganisationLinks(page)
    BY <1>3 DEF OrganisationLinks, ActiveSites, ShouldRenderTabs
  <1>5. ASSUME NEW r
        PROVE  RegistrationLinks(r)' = RegistrationLinks(r)
    BY <1>1 DEF RegistrationLinks, NoteLinks, BackTab
  <1>6. ASSUME NEW page, NEW r, NEW a
        PROVE  AccreditationLinks(page, r, a)' = AccreditationLinks(page, r, a)
    BY DEF AccreditationLinks
  <1>7. ASSUME NEW n
        PROVE  SearchLinks(n)' = SearchLinks(n)
    BY DEF SearchLinks
  <1>8. Shell' = Shell
    BY DEF Shell
  <1>9. ASSUME NEW at
        PROVE  LinksOf(at)' = LinksOf(at)
    BY <1>4, <1>5, <1>6, <1>7, <1>8 DEF LinksOf
  <1>10. ASSUME NEW at
         PROVE  Answer(at)' = Answer(at)
    BY <1>1, <1>2 DEF Answer, Refuses
  <1> QED
    BY <1>2, <1>9, <1>10

(* A step of one window: what it shows is well typed, fresh and true.      *)
LEMMA WindowStep ==
  ASSUME IInv, NEW v \in Views, NEW x \in View, view' = [view EXCEPT ![v] = x],
         UNCHANGED <<visitor, org, total, ledgers, changes>>, IsFresh(x), IsLedger(x)
  PROVE  IInv'
  <1>1. OrgTypeOK'
    BY DEF IInv, OrgTypeOK
  <1>2. view \in [Views -> View] /\ \A u \in Views : view'[u] = x \/ view'[u] = view[u]
    BY DEF IInv, OrgTypeOK
  <1>3. ASSUME NEW u \in Views
        PROVE  IsFresh(view'[u]) /\ IsLedger(view'[u])
    BY <1>2 DEF IInv
  <1>4. (\A u \in Views : IsFresh(view[u]) /\ IsLedger(view[u]))'
    BY <1>3, SameAnswers DEF IsFresh, IsLedger, Stands
  <1>5. VisitorOK' /\ (LedgersOf(org) \subseteq ledgers)'
    BY DEF IInv, VisitorOK, LedgersOf
  <1> QED
    BY <1>1, <1>4, <1>5 DEF IInv

(* What Show makes of an address that was answered, or of an error.        *)
LEMMA ShowHolds ==
  ASSUME IInv, NEW v \in Views, NEW at \in Address \cup Errors,
         at \in Address => Answer(at) = "shown" /\ at.page # "ledger",
         Show(v, at), UNCHANGED <<visitor, org, total, ledgers, changes>>
  PROVE  IInv'
  <1> DEFINE x == [Closed EXCEPT !.at = at, !.links = LinksOf(at), !.fresh = TRUE]
  <1>1. LinksOf(at) \subseteq Address
    BY LinksLead DEF IInv, Leads, Stands
  <1>2. /\ x.at = at /\ x.links = LinksOf(at) /\ x.to = Nowhere /\ x.awaits = Nowhere
        /\ x.fresh = TRUE /\ x.ledger = NoLedger
    BY DEF Closed
  <1>3. x \in View
    BY <1>1, ClosedFacts DEF View, Errors, Closed
  <1>4. view' = [view EXCEPT ![v] = x]
    BY DEF Show
  <1> HIDE DEF x
  <1>5. at.page # "ledger"
    BY NowhereFacts
  <1>6. IsFresh(x) /\ IsLedger(x)
    BY <1>2, <1>5 DEF IsFresh, IsLedger, Stands
  <1> QED
    BY <1>3, <1>4, <1>6, WindowStep

(* A page past the last leads to the last.                                 *)
LEMMA RedirectHolds ==
  ASSUME IInv, NEW v \in Views, NEW at \in Address, Answer(at) = "redirect",
         view' = [view EXCEPT ![v] =
           [Closed EXCEPT !.to = SearchPage(LastPageOf(total)), !.fresh = TRUE]],
         UNCHANGED <<visitor, org, total, ledgers, changes>>
  PROVE  IInv'
  <1> DEFINE x == [Closed EXCEPT !.to = SearchPage(LastPageOf(total)), !.fresh = TRUE]
  <1>1. at.page = "regulators/home" /\ RequiredScope(at.page) \subseteq visitor.scopes
    BY DEF Answer
  <1>2. "organisation.search" \in visitor.scopes
    BY <1>1 DEF RequiredScope
  <1>3. LastPageOf(total) \in Numbers
    BY PagesAssumption DEF IInv, OrgTypeOK, LastPageOf, Numbers
  <1>4. SearchPage(LastPageOf(total)) \in Address
    BY <1>3, AddressFacts
  <1>5. /\ x.at = Nowhere /\ x.links = {} /\ x.to = SearchPage(LastPageOf(total))
        /\ x.awaits = Nowhere /\ x.fresh = TRUE
    BY DEF Closed
  <1>6. x \in View
    BY <1>4, ClosedFacts DEF View, Closed
  <1> HIDE DEF x
  <1>7. LastPageOf(total) \in Nat /\ LastPageOf(total) # 0
    BY PagesAssumption DEF IInv, OrgTypeOK, LastPageOf
  <1>8. Answer(SearchPage(LastPageOf(total))) \in {"shown", "redirect"}
    BY <1>2, <1>7, AnswersSearch
  <1>9. IsFresh(x) /\ IsLedger(x)
    BY <1>4, <1>5, <1>8, NowhereFacts DEF IsFresh, IsLedger
  <1> QED
    BY <1>6, <1>9, WindowStep DEF x

(* A page is asked for.                                                    *)
LEMMA GetHolds ==
  ASSUME IInv, NEW v \in Views, NEW at \in Address, Get(v, at)
  PROVE  IInv'
  <1>1. /\ at.page # "ledger"
        /\ UNCHANGED <<visitor, org, total, ledgers, changes>>
    BY DEF Get
  <1>2. \/ Answer(at) = "shown" /\ Show(v, at)
        \/ /\ Answer(at) = "redirect"
           /\ view' = [view EXCEPT ![v] =
                [Closed EXCEPT !.to = SearchPage(LastPageOf(total)), !.fresh = TRUE]]
        \/ \E e \in Errors : Show(v, e)
    BY DEF Get, Errors
  <1>3. CASE Answer(at) = "shown" /\ Show(v, at)
    BY <1>1, <1>3, ShowHolds
  <1>4. CASE \E e \in Errors : Show(v, e)
    BY <1>1, <1>4, NowhereFacts, ShowHolds
  <1> QED
    BY <1>1, <1>2, <1>3, <1>4, RedirectHolds

(* The ledger asked for is one the registration writes to: the look at the *)
(* organisation has seen it.                                               *)
LEMMA GetLedgerHolds ==
  ASSUME IInv, NEW v \in Views, NEW at \in Address, GetLedger(v, at)
  PROVE  IInv'
  <1> DEFINE x == [Closed EXCEPT !.awaits = at]
  <1>1. at.page = "ledger" /\ UNCHANGED <<visitor, org, total, ledgers, changes>>
    BY DEF GetLedger
  <1>2. CASE Answer(at) # "shown"
    <2>1. Show(v, Tab(Answer(at)))
      BY <1>2 DEF GetLedger
    <2>2. Answer(at) \in {"forbidden", "not-found"}
      BY <1>1, <1>2 DEF Answer
    <2>3. Tab(Answer(at)) \in Errors
      BY <2>2 DEF Errors
    <2> QED
      BY <1>1, <2>1, <2>3, NowhereFacts, ShowHolds
  <1>3. CASE Answer(at) = "shown"
    <2>1. view' = [view EXCEPT ![v] = x]
      BY <1>3 DEF GetLedger
    <2>2. ~Refuses(at)
      BY <1>3 DEF Answer
    <2>3. at.reg \in Known /\ at.acc \in {None, RawAccreditation(at.reg)}
      BY <1>1, <2>2 DEF Refuses, RegistrationPages, AccreditationPages
    <2>4. at.acc # None => <<at.reg, at.acc>> \in ledgers
      BY <2>3 DEF IInv, LedgersOf, Known, RawAccreditation
    <2>5. /\ x.at = Nowhere /\ x.awaits = at /\ x.fresh = FALSE
      BY DEF Closed
    <2>6. x \in View
      BY ClosedFacts DEF View, Closed
    <2> HIDE DEF x
    <2>7. IsFresh(x) /\ IsLedger(x)
      BY <1>1, <2>3, <2>4, <2>5, NowhereFacts DEF IsFresh, IsLedger
    <2> QED
      BY <1>1, <2>1, <2>6, <2>7, WindowStep
  <1> QED
    BY <1>2, <1>3

(* The events are shown under the address they were asked for, with links  *)
(* made when they came.                                                    *)
LEMMA ShowLedgerHolds ==
  ASSUME IInv, NEW v \in Views, ShowLedger(v)
  PROVE  IInv'
  <1> DEFINE at == view[v].awaits
             x  == [Closed EXCEPT !.at = at, !.links = LinksOf(at),
                                  !.fresh = TRUE, !.ledger = EventsOf(at)]
  <1>1. at # Nowhere /\ UNCHANGED <<visitor, org, total, ledgers, changes>>
    BY DEF ShowLedger
  <1>2. CASE Show(v, Tab("error"))
    <2>1. Tab("error") \in Errors
      BY DEF Errors
    <2> QED
      BY <1>1, <1>2, <2>1, NowhereFacts, ShowHolds
  <1>3. CASE view' = [view EXCEPT ![v] = x]
    <2>1. /\ at.page = "ledger" /\ at.reg \in Known
          /\ at.acc # None => <<at.reg, at.acc>> \in ledgers
      BY <1>1 DEF IInv, IsLedger
    <2>2. at \in Address
      BY <1>1 DEF IInv, OrgTypeOK, View
    <2>3. EventsOf(at) = <<at.reg, at.acc>>
      BY DEF EventsOf
    <2>4. LinksOf(at) \subseteq Address
      BY <2>1, <2>2, LinksLead DEF IInv, Leads, Stands
    <2>5. /\ x.at = at /\ x.links = LinksOf(at) /\ x.to = Nowhere /\ x.awaits = Nowhere
          /\ x.fresh = TRUE /\ x.ledger = EventsOf(at)
      BY DEF Closed
    <2>6. EventsOf(at) \in (Regs \cup {None}) \X (Accs \cup {None})
      BY <2>1, <2>2, <2>3, AddressParts
    <2>7. x \in View
      BY <2>2, <2>4, <2>6, ClosedFacts DEF View, Closed
    <2> HIDE DEF x, at
    <2>8. IsFresh(x)
      BY <2>1, <2>2, <2>5 DEF IsFresh, Stands
    <2>9. IsLedger(x)
      BY <2>1, <2>3, <2>5 DEF IsLedger
    <2> QED
      BY <1>1, <1>3, <2>7, <2>8, <2>9, WindowStep
  <1> QED
    BY <1>2, <1>3 DEF ShowLedger

(* A change outdates every page; ledgers and registrations only grow.      *)
LEMMA Outdated ==
  ASSUME IInv, view' = Outdate, ledgers \subseteq ledgers', Known \subseteq Known'
  PROVE  (\A v \in Views : IsFresh(view[v]) /\ IsLedger(view[v]))' /\ view' \in [Views -> View]
  <1>1. ASSUME NEW v \in Views
        PROVE  /\ view'[v] \in View /\ view'[v].at = view[v].at
               /\ view'[v].awaits = view[v].awaits /\ view'[v].fresh = FALSE
               /\ view'[v].ledger = view[v].ledger
    <2>1. view[v] \in View /\ view'[v] = [view[v] EXCEPT !.links = {}, !.fresh = FALSE]
      BY DEF IInv, OrgTypeOK, Outdate
    <2> QED
      BY <2>1 DEF View
  <1>2. ASSUME NEW v \in Views
        PROVE  IsFresh(view[v])' /\ IsLedger(view[v])'
    BY <1>1 DEF IInv, IsFresh, IsLedger
  <1>3. view' \in [Views -> View]
    BY <1>1 DEF Outdate
  <1> QED
    BY <1>2, <1>3

(* The backend changes a registration or an accreditation.                 *)
LEMMA OrganisationHolds ==
  ASSUME IInv, OrganisationChanges
  PROVE  IInv'
  <1>1. PICK o \in Organisations :
          /\ \A r \in Known : o.reg[r].status # "absent"
          /\ org' = o /\ ledgers' = ledgers \cup LedgersOf(o)
    BY DEF OrganisationChanges
  <1>2. /\ view' = Outdate /\ UNCHANGED <<visitor, total>> /\ changes' = changes + 1
    BY DEF OrganisationChanges
  <1>3. Known \subseteq Known'
    BY <1>1 DEF Known
  <1>4. LedgersOf(o) \subseteq Regs \X (Accs \cup {None})
    BY OrganisationsAssumption DEF LedgersOf, Organisation
  <1>5. (LedgersOf(org) \subseteq ledgers)'
    BY <1>1 DEF LedgersOf
  <1>6. /\ (\A v \in Views : IsFresh(view[v]) /\ IsLedger(view[v]))'
        /\ view' \in [Views -> View]
    BY <1>1, <1>2, <1>3, Outdated
  <1>7. OrgTypeOK'
    BY <1>1, <1>2, <1>4, <1>6 DEF IInv, OrgTypeOK
  <1>8. VisitorOK'
    BY <1>2 DEF IInv, VisitorOK
  <1> QED
    BY <1>5, <1>6, <1>7, <1>8 DEF IInv

(* The results of the search change.                                       *)
LEMMA SearchHolds ==
  ASSUME IInv, SearchChanges
  PROVE  IInv'
  <1>1. /\ view' = Outdate /\ UNCHANGED <<visitor, org, ledgers>>
        /\ changes' = changes + 1 /\ total' \in 0..MaxPages
    BY DEF SearchChanges
  <1>2. Known' = Known /\ (LedgersOf(org) \subseteq ledgers)'
    BY <1>1 DEF IInv, Known, LedgersOf
  <1>3. /\ (\A v \in Views : IsFresh(view[v]) /\ IsLedger(view[v]))'
        /\ view' \in [Views -> View]
    BY <1>1, <1>2, Outdated
  <1>4. OrgTypeOK' /\ VisitorOK'
    BY <1>1, <1>3 DEF IInv, OrgTypeOK, VisitorOK
  <1> QED
    BY <1>2, <1>3, <1>4 DEF IInv

(* Every step keeps the invariant.                                         *)
LEMMA NextIInv == IInv /\ [OrgNext]_orgVars => IInv'
  <1> SUFFICES ASSUME IInv, [OrgNext]_orgVars PROVE IInv'
    OBVIOUS
  <1>1. ASSUME NEW v \in Views, ViewStep(v)
        PROVE  IInv'
    BY <1>1, ShowLedgerHolds, GetHolds, GetLedgerHolds DEF ViewStep
  <1>2. CASE UNCHANGED orgVars
    <2>1. UNCHANGED <<visitor, org, total, ledgers, changes, view>>
      BY <1>2 DEF orgVars
    <2>2. OrgTypeOK' /\ VisitorOK' /\ (LedgersOf(org) \subseteq ledgers)'
      BY <2>1 DEF IInv, OrgTypeOK, VisitorOK, LedgersOf
    <2>3. (\A v \in Views : IsFresh(view[v]) /\ IsLedger(view[v]))'
      BY <2>1, SameAnswers DEF IInv, IsFresh, IsLedger, Stands
    <2> QED
      BY <2>2, <2>3 DEF IInv
  <1> QED
    BY <1>1, <1>2, OrganisationHolds, SearchHolds DEF OrgNext

(* The invariant holds throughout.                                         *)
LEMMA Invariance == OrgSpec => []IInv
  BY InitIInv, NextIInv, PTL DEF OrgSpec

-----------------------------------------------------------------------------
(* The theorems.                                                           *)

(* Every window shows a page of the service, with links to pages of it.    *)
THEOREM TypeCorrect == OrgSpec => []OrgTypeOK
  <1>1. IInv => OrgTypeOK
    BY DEF IInv
  <1> QED
    BY <1>1, Invariance, PTL

(* What the pages offer is what the routes admit: whatever registrations   *)
(* and accreditations there are, and however they change, a link or a      *)
(* redirect of a page that is up to date is never refused.                 *)
THEOREM LinksAlwaysAnswer == OrgSpec => []LinksAnswer
  BY LinksAnswerHolds, Invariance, PTL

(* No registration that was granted is lost between the two tabs.          *)
THEOREM EveryRegistrationAlwaysListed == OrgSpec => []EveryRegistrationIsListed
  BY EveryRegistrationHolds, Invariance, PTL

(* The page of a ledger shows the ledger of its address, one that has been *)
(* written to, however the accreditation changes while the events are read.*)
THEOREM LedgersAreTheirAddress == OrgSpec => []LedgerIsItsAddress
  BY LedgerHolds, Invariance, PTL
=============================================================================
