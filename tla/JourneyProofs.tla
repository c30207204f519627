--------------------------- MODULE JourneyProofs ---------------------------
(***************************************************************************)
(* Theorems about Journey: what SignInProofs, OrganisationProofs and       *)
(* ReportsProofs prove of each part holds on the way through all, for any  *)
(* users, windows, organisations and tabs.  An invariant of a part holds   *)
(* while the journey is in it; what is left to show is that a part is      *)
(* entered in a state of its invariant and is at rest otherwise.           *)
(***************************************************************************)
EXTENDS Journey, ReportsProofs

EntryP == INSTANCE SignInProofs
OrgP   == INSTANCE OrganisationProofs WITH Views <- Windows, changes <- orgChanges

-----------------------------------------------------------------------------
(* The parts of Journey are those the theorems are about: the same modules,*)
(* instantiated alike.                                                     *)

LEMMA EntrySame ==
  /\ Entry!SiteInit => EntryP!SiteInit
  /\ Entry!SiteNext => EntryP!SiteNext
  /\ EntryP!WaysAreOpen => Entry!WaysAreOpen
  /\ EntryP!RedirectsStop => Entry!RedirectsStop
  <1>1. \A p : Entry!Answer(p) = EntryP!Answer(p) /\ Entry!Redirect(p) = EntryP!Redirect(p)
    BY DEF Entry!Answer, Entry!Regulators, Entry!Protected, Entry!Holds, Entry!IsRegulator, Entry!UserOrganisations, Entry!SignedIn, Entry!MayWrite, Entry!HasWriteScope, Entry!Redirect, Entry!Greeting, Entry!Nobody,
      EntryP!Answer, EntryP!Regulators, EntryP!Protected, EntryP!Holds, EntryP!IsRegulator, EntryP!UserOrganisations, EntryP!SignedIn, EntryP!MayWrite, EntryP!HasWriteScope, EntryP!Redirect, EntryP!Greeting, EntryP!Nobody
  <1>2. \A p : Entry!Then(p) = EntryP!Then(p)
    BY <1>1 DEF Entry!Then, EntryP!Then
  <1>3. EntryP!RedirectsStop => Entry!RedirectsStop
    BY <1>1, <1>2 DEF Entry!RedirectsStop, EntryP!RedirectsStop, Entry!Addresses, EntryP!Addresses
  <1>4. /\ Entry!SiteInit => EntryP!SiteInit
        /\ Entry!SiteNext => EntryP!SiteNext
        /\ EntryP!WaysAreOpen => Entry!WaysAreOpen
    BY DEF
      Entry!Scopes, Entry!Roles, Entry!User, Entry!Nobody,
      Entry!HasWriteScope, Entry!HasLedgerReadScope, Entry!ScopesFollowRole,
      Entry!siteVars, Entry!Memberships, Entry!NoSession, Entry!Addresses,
      Entry!Shows, Entry!Window, Entry!SiteTypeOK, Entry!BlankWindow,
      Entry!SiteInit, Entry!SignedIn, Entry!Holds, Entry!IsRegulator,
      Entry!MayWrite, Entry!UserOrganisations, Entry!Navigation,
      Entry!Shell, Entry!StartNow, Entry!LinksOf, Entry!Regulators,
      Entry!Protected, Entry!Greeting, Entry!Redirect, Entry!Answer,
      Entry!SignInLinks, Entry!Outdate, Entry!Page, Entry!Sent, Entry!Show,
      Entry!SendOn, Entry!Asks, Entry!Followed, Entry!RemoveSession,
      Entry!Visit, Entry!VisitFails, Entry!Begin, Entry!SkipReferrers,
      Entry!Landing, Entry!SessionOf, Entry!Consumed, Entry!SignInDefra,
      Entry!SignInEntra, Entry!SignInFails, Entry!NotSignedIn, Entry!Link,
      Entry!Logout, Entry!PostLogout, Entry!Expire, Entry!Elsewhere,
      Entry!WindowStep, Entry!SiteNext, Entry!WaysAreOpen,
      EntryP!Scopes, EntryP!Roles, EntryP!User, EntryP!Nobody,
      EntryP!HasWriteScope, EntryP!HasLedgerReadScope,
      EntryP!ScopesFollowRole, EntryP!siteVars, EntryP!Memberships,
      EntryP!NoSession, EntryP!Addresses, EntryP!Shows, EntryP!Window,
      EntryP!SiteTypeOK, EntryP!BlankWindow, EntryP!SiteInit,
      EntryP!SignedIn, EntryP!Holds, EntryP!IsRegulator, EntryP!MayWrite,
      EntryP!UserOrganisations, EntryP!Navigation, EntryP!Shell,
      EntryP!StartNow, EntryP!LinksOf, EntryP!Regulators, EntryP!Protected,
      EntryP!Greeting, EntryP!Redirect, EntryP!Answer, EntryP!SignInLinks,
      EntryP!Outdate, EntryP!Page, EntryP!Sent, EntryP!Show, EntryP!SendOn,
      EntryP!Asks, EntryP!Followed, EntryP!RemoveSession, EntryP!Visit,
      EntryP!VisitFails, EntryP!Begin, EntryP!SkipReferrers, EntryP!Landing,
      EntryP!SessionOf, EntryP!Consumed, EntryP!SignInDefra,
      EntryP!SignInEntra, EntryP!SignInFails, EntryP!NotSignedIn,
      EntryP!Link, EntryP!Logout, EntryP!PostLogout, EntryP!Expire,
      EntryP!Elsewhere, EntryP!WindowStep, EntryP!SiteNext, EntryP!WaysAreOpen
  <1> QED
    BY <1>3, <1>4

LEMMA OrgSame ==
  /\ Org!OrgNext => OrgP!OrgNext
  /\ OrgP!LinksAnswer => Org!LinksAnswer
  /\ OrgP!EveryRegistrationIsListed => Org!EveryRegistrationIsListed
  /\ OrgP!LedgerIsItsAddress => Org!LedgerIsItsAddress
  BY DEF
      Org!Scopes, Org!Roles, Org!User, Org!Nobody, Org!HasWriteScope,
      Org!HasLedgerReadScope, Org!ScopesFollowRole, Org!Types,
      Org!RegAccStatuses, Org!Organisation, Org!orgVars,
      Org!RegistrationPages, Org!AccreditationPages, Org!Numbers,
      Org!Address, Org!At, Org!Tab, Org!ReadOf, Org!SearchPage, Org!Nowhere,
      Org!View, Org!NoLedger, Org!Closed, Org!OrgTypeOK, Org!LedgersOf,
      Org!OrgInit, Org!Known, Org!IsAccreditationActive,
      Org!RawAccreditation, Org!Accreditation, Org!IsRegistrationExcluded,
      Org!ExcludeAccreditation, Org!Displayable, Org!Sites,
      Org!ShouldRenderTabs, Org!ActiveSites, Org!OrganisationLinks,
      Org!BackTab, Org!NoteLinks, Org!RegistrationLinks,
      Org!AccreditationLinks, Org!LastPageOf, Org!SearchLinks, Org!Shell,
      Org!LinksOf, Org!RequiredScope, Org!Refuses, Org!Answer, Org!Show,
      Org!Asks, Org!Get, Org!GetLedger, Org!EventsOf, Org!ShowLedger,
      Org!Outdate, Org!Differ, Org!OrganisationChanges, Org!SearchChanges,
      Org!ViewStep, Org!OrgNext, Org!LinksAnswer, Org!Granted, Org!Reached,
      Org!EveryRegistrationIsListed, Org!LedgerIsItsAddress,
      OrgP!Scopes, OrgP!Roles, OrgP!User, OrgP!Nobody, OrgP!HasWriteScope,
      OrgP!HasLedgerReadScope, OrgP!ScopesFollowRole, OrgP!Types,
      OrgP!RegAccStatuses, OrgP!Organisation, OrgP!orgVars,
      OrgP!RegistrationPages, OrgP!AccreditationPages, OrgP!Numbers,
      OrgP!Address, OrgP!At, OrgP!Tab, OrgP!ReadOf, OrgP!SearchPage,
      OrgP!Nowhere, OrgP!View, OrgP!NoLedger, OrgP!Closed, OrgP!OrgTypeOK,
      OrgP!LedgersOf, OrgP!OrgInit, OrgP!Known, OrgP!IsAccreditationActive,
      OrgP!RawAccreditation, OrgP!Accreditation,
      OrgP!IsRegistrationExcluded, OrgP!ExcludeAccreditation,
      OrgP!Displayable, OrgP!Sites, OrgP!ShouldRenderTabs, OrgP!ActiveSites,
      OrgP!OrganisationLinks, OrgP!BackTab, OrgP!NoteLinks,
      OrgP!RegistrationLinks, OrgP!AccreditationLinks, OrgP!LastPageOf,
      OrgP!SearchLinks, OrgP!Shell, OrgP!LinksOf, OrgP!RequiredScope,
      OrgP!Refuses, OrgP!Answer, OrgP!Show, OrgP!Asks, OrgP!Get,
      OrgP!GetLedger, OrgP!EventsOf, OrgP!ShowLedger, OrgP!Outdate,
      OrgP!Differ, OrgP!OrganisationChanges, OrgP!SearchChanges,
      OrgP!ViewStep, OrgP!OrgNext, OrgP!LinksAnswer, OrgP!Granted,
      OrgP!Reached, OrgP!EveryRegistrationIsListed, OrgP!LedgerIsItsAddress

(* What the theorems assume of the constants.                              *)
LEMMA Assumptions ==
  /\ EntryP!UsersAssumption
  /\ OrgP!UsersAssumption /\ OrgP!PagesAssumption /\ OrgP!IdsAssumption
  /\ OrgP!OrganisationsAssumption
  <1>1. EntryP!UsersAssumption
    BY UsersAssumption
       DEF User, ScopesFollowRole, Roles, Scopes, HasWriteScope, HasLedgerReadScope,
           EntryP!User, EntryP!ScopesFollowRole, EntryP!Roles, EntryP!Scopes,
           EntryP!HasWriteScope, EntryP!HasLedgerReadScope
  <1>2. OrgP!UsersAssumption
    BY UsersAssumption
       DEF User, ScopesFollowRole, Roles, Scopes, HasWriteScope, HasLedgerReadScope,
           OrgP!User, OrgP!ScopesFollowRole, OrgP!Roles, OrgP!Scopes,
           OrgP!HasWriteScope, OrgP!HasLedgerReadScope
  <1>3. OrgP!PagesAssumption /\ OrgP!IdsAssumption
    BY PagesAssumption, IdsAssumption
  <1>4. OrgP!OrganisationsAssumption
    BY OrganisationsAssumption
       DEF Organisation, Types, RegAccStatuses,
           OrgP!Organisation, OrgP!Types, OrgP!RegAccStatuses
  <1> QED
    BY <1>1, <1>2, <1>3, <1>4

(* The entry at its beginning, as it is again once it was left.            *)
LEMMA EntryBegins == Entry!SiteInit => EntryP!IInv
  BY EntrySame, Assumptions, EntryP!InitIInv

(* Steps that are none of the entry leave it as it is.                     *)
LEMMA EntryStays ==
  ASSUME EntryP!IInv, UNCHANGED entryVars
  PROVE  EntryP!IInv'
  <1>1. UNCHANGED EntryP!siteVars
    BY DEF entryVars, EntryP!siteVars
  <1> QED
    BY <1>1, Assumptions, EntryP!NextIInv

-----------------------------------------------------------------------------
(* The pages of an organisation are reached: a window is sent to the       *)
(* organisation, or to the first page of a search the visitor may make.    *)
Reached ==
  /\ visitor \in Users \cup {Nobody} /\ org \in Organisations /\ total \in 0..MaxPages
  /\ ledgers = OrgP!LedgersOf(org) /\ orgChanges = 0
  /\ \E w \in Windows, at \in {OrgP!Tab("organisation"), OrgP!SearchPage(1)} :
       /\ view = [v \in Windows |->
            IF v = w THEN [OrgP!Closed EXCEPT !.fresh = TRUE, !.to = at] ELSE OrgP!Closed]
       /\ at = OrgP!SearchPage(1) => "organisation.search" \in visitor.scopes

LEMMA ReachedIInv == Reached => OrgP!IInv
  <1> SUFFICES ASSUME Reached PROVE OrgP!IInv
    OBVIOUS
  <1>1. OrgP!VisitorOK
    <2>1. CASE visitor \in Users
      BY <2>1, Assumptions, OrgP!VisitorFacts
    <2>2. CASE visitor = Nobody
      BY <2>2 DEF Nobody, OrgP!VisitorOK, OrgP!HasLedgerReadScope
    <2> QED
      BY <2>1, <2>2 DEF Reached
  <1>2. PICK w \in Windows, at \in {OrgP!Tab("organisation"), OrgP!SearchPage(1)} :
          /\ view = [v \in Windows |->
               IF v = w THEN [OrgP!Closed EXCEPT !.fresh = TRUE, !.to = at] ELSE OrgP!Closed]
          /\ at = OrgP!SearchPage(1) => "organisation.search" \in visitor.scopes
    BY DEF Reached
  <1> DEFINE x == [OrgP!Closed EXCEPT !.fresh = TRUE, !.to = at]
  <1>3. at \in OrgP!Address /\ at # OrgP!Nowhere
    <2>1. 1 \in OrgP!Numbers
      BY Assumptions DEF OrgP!PagesAssumption, OrgP!Numbers
    <2> QED
      BY <2>1, Assumptions, OrgP!AddressFacts, OrgP!NowhereFacts
  <1>4. OrgP!Answer(at) \in {"shown", "redirect"}
    BY <1>2, Assumptions, OrgP!AnswersPlain, OrgP!AnswersSearch
  <1>5. /\ x.at = OrgP!Nowhere /\ x.links = {} /\ x.to = at /\ x.awaits = OrgP!Nowhere
        /\ x.fresh = TRUE /\ x.ledger = OrgP!NoLedger
    BY DEF OrgP!Closed
  <1>6. x \in OrgP!View
    BY <1>3, Assumptions, OrgP!ClosedFacts DEF OrgP!View, OrgP!Closed
  <1> HIDE DEF x
  <1>7. OrgP!IsFresh(x) /\ OrgP!IsLedger(x)
    BY <1>3, <1>4, <1>5, Assumptions, OrgP!NowhereFacts DEF OrgP!IsFresh, OrgP!IsLedger
  <1>8. \A v \in Windows : view[v] = x \/ view[v] = OrgP!Closed
    BY <1>2 DEF x
  <1>9. /\ view \in [Windows -> OrgP!View]
        /\ \A v \in Windows : OrgP!IsFresh(view[v]) /\ OrgP!IsLedger(view[v])
    BY <1>2, <1>6, <1>7, <1>8, Assumptions, OrgP!ClosedFacts, OrgP!ClosedHolds
  <1>10. OrgP!LedgersOf(org) \subseteq Regs \X (Accs \cup {None})
    BY Assumptions
       DEF Reached, OrgP!LedgersOf, OrgP!OrganisationsAssumption, OrgP!Organisation
  <1>11. visitor \in Users \cup {OrgP!Nobody}
    BY DEF Reached, Nobody, OrgP!Nobody
  <1>12. OrgP!OrgTypeOK
    BY <1>9, <1>10, <1>11 DEF Reached, OrgP!OrgTypeOK
  <1> QED
    BY <1>1, <1>9, <1>12 DEF Reached, OrgP!IInv

-----------------------------------------------------------------------------
(* The invariant of the journey.                                           *)
JInv ==
  /\ EntryP!IInv
  /\ part = "organisation" => OrgP!IInv
  /\ part # "organisation" => view = [w \in Windows |-> OrgP!Closed]
  /\ part = "entry" => orgChanges = 0

LEMMA ClosedSame == Org!Closed = OrgP!Closed
  BY DEF Org!Closed, OrgP!Closed, Org!Nowhere, OrgP!Nowhere, Org!Tab, OrgP!Tab, Org!At,
         OrgP!At, Org!NoLedger, OrgP!NoLedger

LEMMA JourneyBegins == JourneyInit => JInv
  BY EntryBegins, ClosedSame DEF JourneyInit, OrgAtRest, JInv

(* From the entry to an organisation.                                      *)
LEMMA ReachOrganisationStep ==
  ASSUME JInv, NEW w \in Windows, ReachOrganisation(w)
  PROVE  JInv'
  <1>1. Entry!SiteInit'
    BY DEF ReachOrganisation, EntryLeft, Entry!SiteInit, Entry!Memberships
  <1>2. Entry!SiteInit' => EntryP!IInv'
    BY EntryBegins, PTL
  <1>3. /\ part = "entry" /\ part' = "organisation" /\ window[w].fresh
        /\ window[w].page \in {"organisation", "regulators/home"}
        /\ visitor' = session.user /\ org' \in Organisations
        /\ ledgers' = Org!LedgersOf(org') /\ orgChanges' = orgChanges
    BY DEF ReachOrganisation
  <1>4. total' \in 0..MaxPages
    BY PagesAssumption DEF ReachOrganisation
  <1>5. /\ EntryP!WindowOK(window[w]) /\ session.user \in Users \cup {Nobody}
    BY DEF JInv, EntryP!IInv, EntryP!SiteTypeOK, EntryP!Nobody, Nobody
  <1>6. window[w].page = "regulators/home" => "organisation.search" \in visitor'.scopes
    BY <1>3, <1>5 DEF EntryP!WindowOK, EntryP!Holds
  <1> DEFINE at == IF window[w].page = "organisation" THEN OrgP!Tab("organisation")
                   ELSE OrgP!SearchPage(1)
  <1>7. view = [v \in Windows |-> OrgP!Closed]
    BY <1>3 DEF JInv
  <1>8. view' = [view EXCEPT ![w] = [@ EXCEPT !.fresh = TRUE, !.to = at]]
    BY DEF ReachOrganisation, Org!Tab, OrgP!Tab, Org!At, OrgP!At, Org!SearchPage, OrgP!SearchPage
  <1> HIDE DEF at
  <1>9. view' = [v \in Windows |->
           IF v = w THEN [OrgP!Closed EXCEPT !.fresh = TRUE, !.to = at] ELSE OrgP!Closed]
    BY <1>7, <1>8
  <1>10. OrgP!Tab("organisation") # OrgP!SearchPage(1)
    BY DEF OrgP!Tab, OrgP!At, OrgP!SearchPage
  <1>11. /\ at \in {OrgP!Tab("organisation"), OrgP!SearchPage(1)}
         /\ at = OrgP!SearchPage(1) => "organisation.search" \in visitor'.scopes
    BY <1>3, <1>6, <1>10 DEF at
  <1>12. ledgers' = OrgP!LedgersOf(org')
    BY <1>3 DEF Org!LedgersOf, OrgP!LedgersOf
  <1>13. orgChanges' = 0
    BY <1>3 DEF JInv
  <1>14. (\E u \in Windows, p \in {OrgP!Tab("organisation"), OrgP!SearchPage(1)} :
            /\ view = [v \in Windows |->
                 IF v = u THEN [OrgP!Closed EXCEPT !.fresh = TRUE, !.to = p] ELSE OrgP!Closed]
            /\ p = OrgP!SearchPage(1) => "organisation.search" \in visitor.scopes)'
    BY <1>9, <1>11
  <1>15. Reached'
    BY <1>3, <1>4, <1>5, <1>12, <1>13, <1>14 DEF Reached
  <1>16. Reached' => OrgP!IInv'
    BY ReachedIInv, PTL
  <1> QED
    BY <1>1, <1>2, <1>3, <1>15, <1>16 DEF JInv

(* From an organisation to the reports of a registration.                  *)
LEMMA ReachReportsStep ==
  ASSUME JInv, NEW w \in Windows, ReachReports(w)
  PROVE  JInv'
  <1>1. /\ part' = "reports" /\ UNCHANGED entryVars
        /\ view' = [v \in Windows |-> Org!Closed]
    BY DEF ReachReports
  <1>2. EntryP!IInv'
    BY <1>1, EntryStays DEF JInv
  <1> QED
    BY <1>1, <1>2, ClosedSame DEF JInv

LEMMA JourneyKeeps == JInv /\ [JourneyNext]_jVars => JInv'
  <1> SUFFICES ASSUME JInv, [JourneyNext]_jVars PROVE JInv'
    OBVIOUS
  <1>1. CASE part = "entry" /\ Entry!SiteNext /\ UNCHANGED <<part, orgVars, vars>>
    <2>1. EntryP!IInv'
      BY <1>1, EntrySame, Assumptions, EntryP!NextIInv DEF JInv
    <2> QED
      BY <1>1, <2>1 DEF JInv, orgVars
  <1>2. CASE \E w \in Windows : ReachOrganisation(w) \/ ReachReports(w)
    BY <1>2, ReachOrganisationStep, ReachReportsStep
  <1>3. CASE part = "organisation" /\ Org!OrgNext /\ UNCHANGED <<part, entryVars, vars>>
    <2>1. OrgP!IInv'
      BY <1>3, OrgSame, Assumptions, OrgP!NextIInv DEF JInv
    <2>2. EntryP!IInv'
      BY <1>3, EntryStays DEF JInv
    <2> QED
      BY <1>3, <2>1, <2>2 DEF JInv
  <1>4. CASE UNCHANGED <<part, entryVars, orgVars>>
    <2>1. EntryP!IInv'
      BY <1>4, EntryStays DEF JInv
    <2>2. part = "organisation" => OrgP!IInv'
      <3>1. UNCHANGED OrgP!orgVars
        BY <1>4 DEF orgVars, OrgP!orgVars
      <3> QED
        BY <3>1, Assumptions, OrgP!NextIInv DEF JInv
    <2> QED
      BY <1>4, <2>1, <2>2 DEF JInv, orgVars
  <1>5. UNCHANGED jVars => UNCHANGED <<part, entryVars, orgVars>>
    BY DEF jVars
  <1> QED
    BY <1>1, <1>2, <1>3, <1>4, <1>5 DEF JourneyNext

LEMMA JourneyInvariance == JourneySpec => []JInv
  BY JourneyBegins, JourneyKeeps, PTL DEF JourneySpec

-----------------------------------------------------------------------------
(* The theorems.                                                           *)

(* What navigation, start page, callbacks and sign-out offer is admitted   *)
(* by the routes, whoever goes through the service.                        *)
THEOREM WaysAlwaysOpen == JourneySpec => []WaysAreOpen
  <1>1. JInv => WaysAreOpen
    BY EntrySame
       DEF JInv, WaysAreOpen, EntryP!IInv, EntryP!WindowOK, EntryP!Open, EntryP!WaysAreOpen
  <1> QED
    BY <1>1, JourneyInvariance, PTL
(* Three redirects of the entry end at a page, at every moment of the      *)
(* journey.                                                                *)
THEOREM RedirectsAlwaysStop == JourneySpec => []RedirectsStop
  <1>1. RedirectsStop
    BY EntrySame, Assumptions, EntryP!RedirectsHold DEF RedirectsStop
  <1> QED
    BY <1>1, PTL

(* Whoever signs in on the way is next shown a page behind the sign-in.    *)
THEOREM SignInAlwaysLeadsIn == JourneySpec => SignInLeadsIn
  <1>1. ASSUME JInv, [JourneyNext]_jVars, NEW w \in Windows,
               window[w].entered, window'[w] # window[w]
        PROVE  EntryP!ShownInside(window'[w])
    <2>1. CASE part = "entry" /\ Entry!SiteNext
      BY <1>1, <2>1, EntrySame, Assumptions, EntryP!EnteredStep DEF JInv
    <2>2. CASE \E v \in Windows : ReachOrganisation(v)
      <3>1. window'[w].fresh = FALSE
        BY <2>2 DEF ReachOrganisation, EntryLeft, Entry!BlankWindow
      <3> QED
        BY <3>1 DEF EntryP!ShownInside
    <2>3. CASE UNCHANGED entryVars
      BY <1>1, <2>3 DEF entryVars
    <2> QED
      BY <1>1, <2>1, <2>2, <2>3 DEF JourneyNext, ReachReports, jVars
  <1>2. JInv /\ [JourneyNext]_jVars =>
          [\A w \in Windows :
             /\ window[w].entered /\ window'[w] # window[w]
             /\ window'[w].to = "nowhere" /\ window'[w].page # "error" /\ window'[w].fresh
             => window'[w].page \in {"organisation", "regulators/home", "linking",
                                     "email-not-recognised", "start?"}]_(Entry!siteVars)
    BY <1>1 DEF EntryP!ShownInside
  <1> QED
    BY <1>2, JourneyInvariance, PTL DEF JourneySpec, SignInLeadsIn, Entry!SignInLeadsIn

(* What is said of the windows of an organisation holds of closed ones.    *)
LEMMA OrgProperty ==
  ASSUME JInv
  PROVE  LinksAnswer /\ EveryRegistrationIsListed /\ LedgerIsItsAddress
  <1>1. CASE part = "organisation"
    <2>1. OrgP!LinksAnswer /\ OrgP!EveryRegistrationIsListed /\ OrgP!LedgerIsItsAddress
      BY <1>1, Assumptions, OrgP!LinksAnswerHolds, OrgP!EveryRegistrationHolds,
         OrgP!LedgerHolds DEF JInv
    <2> QED
      BY <2>1, OrgSame DEF LinksAnswer, EveryRegistrationIsListed, LedgerIsItsAddress
  <1>2. CASE part # "organisation"
    <2>1. \A w \in Windows : view[w].fresh = FALSE /\ view[w].at.page = "nowhere"
      BY <1>2, Assumptions, OrgP!ClosedFacts, OrgP!NowhereFacts DEF JInv
    <2>2. LinksAnswer
      BY <2>1 DEF LinksAnswer, Org!LinksAnswer
    <2>3. EveryRegistrationIsListed
      BY <2>1 DEF EveryRegistrationIsListed, Org!EveryRegistrationIsListed
    <2>4. LedgerIsItsAddress
      BY <2>1 DEF LedgerIsItsAddress, Org!LedgerIsItsAddress
    <2> QED
      BY <2>2, <2>3, <2>4
  <1> QED
    BY <1>1, <1>2

(* A link or a redirect that is up to date is never refused, from the      *)
(* first page a sign-in leads to on, whatever registrations and            *)
(* accreditations there are and however they change.                       *)
THEOREM LinksAlwaysAnswer == JourneySpec => []LinksAnswer
  BY OrgProperty, JourneyInvariance, PTL

(* No registration that was granted is lost between the two tabs.          *)
THEOREM EveryRegistrationAlwaysListed == JourneySpec => []EveryRegistrationIsListed
  BY OrgProperty, JourneyInvariance, PTL

(* The page of a ledger shows the ledger of its address, one that has been *)
(* written to, however the accreditation changes while the events are read.*)
THEOREM LedgersAreTheirAddress == JourneySpec => []LedgerIsItsAddress
  BY OrgProperty, JourneyInvariance, PTL

-----------------------------------------------------------------------------
(* The reports: at rest until their list is asked for in every tab, and    *)
(* then as ReportsProofs has them.                                         *)

LEMMA ReportsReached ==
  ASSUME IInv, NEW w \in Windows, ReachReports(w)
  PROVE  IInv'
  <1> DEFINE x == [Blank EXCEPT !.to = "list"]
  <1>1. /\ UNCHANGED backend /\ UNCHANGED <<context, lost>>
        /\ registration' \in Registrations /\ tab' = [t \in Tabs |-> x]
    BY KindsAssumption DEF ReachReports
  <1>2. BackKept
    BY <1>1, BackSame
  <1>3. /\ x \in Tab /\ x.n = 1 /\ x.seen = Unseen /\ x.got = Unseen /\ x.walk = 0
        /\ x.page = "blank" /\ x.to = "list" /\ x.awaits = "no"
    <2>1. Unseen \in Snapshots /\ "list" \in Pages /\ 1 \in Submissions
      BY NumbersOK DEF Unseen, Snapshots, Statuses, Pages
    <2> QED
      BY <2>1 DEF Blank, Tab, Awaits
  <1> HIDE DEF x
  <1>4. TypeOK'
    <2>1. tab' \in [Tabs -> Tab]
      BY <1>1, <1>3
    <2> QED
      BY <1>1, <1>2, <2>1, StartTyped DEF BackKept, TypeOK, Tab, Contexts
  <1>5. ASSUME NEW t \in Tabs
        PROVE  TabOK(tab'[t], report'[tab'[t].n], lastVersion', drafts', registration')
    <2>1. SeenFits(Unseen, 1) /\ GotOK(Unseen, report'[1], drafts') /\ drafts' \in Nat
      BY <1>2, NumbersOK, UnseenFits DEF BackKept
    <2>2. tab'[t] = x
      BY <1>1
    <2>3. "blank" \notin DataPages
      BY DEF DataPages, TonnagePages, FreePages
    <2> QED
      BY <1>3, <2>1, <2>2, <2>3 DEF SeenFits, TabOK, WalkOK, PageOK
  <1> QED
    BY <1>2, <1>4, <1>5 DEF IInv, TabsOK, BackKept

(* Every other step of the journey is a step of Reports, or leaves it be.  *)
LEMMA StepOfReports ==
  ASSUME [JourneyNext]_jVars
  PROVE  [Next]_vars \/ \E w \in Windows : ReachReports(w)
  BY DEF JourneyNext, ReachOrganisation, jVars

LEMMA ReportsInvariance == JourneySpec => []IInv
  <1>1. JourneyInit => IInv
    BY InitIInv DEF JourneyInit
  <1>2. IInv /\ [JourneyNext]_jVars => IInv'
    BY StepOfReports, ReportsReached, NextKeeps
  <1> QED
    BY <1>1, <1>2, PTL DEF JourneySpec

LEMMA NoReportStored ==
  ASSUME NEW w \in Windows, ReachReports(w)
  PROVE  report' = report
  BY DEF ReachReports, backend

(* The tabs of the journey are sent to the list, where everything starts.  *)
LEMMA LinksReached ==
  ASSUME NEW w \in Windows, ReachReports(w)
  PROVE  LinksOK'
  <1> DEFINE x == [Blank EXCEPT !.to = "list"]
  <1>1. tab' = [t \in Tabs |-> x]
    BY DEF ReachReports
  <1>2. x.page = "blank" /\ x.to = "list" /\ x.awaits = "no"
    BY DEF Blank
  <1> HIDE DEF x
  <1>3. \A g : LinkOK(x, g)
    BY <1>2 DEF LinkOK, MadeFrom, LedBy, Settled, DataPages, TonnagePages, FreePages
  <1> QED
    BY <1>1, <1>3 DEF LinksOK

LEMMA LinksOnTheWay == JourneySpec => [](IInv /\ LinksOK)
  <1>1. JourneyInit => LinksOK
    BY InitLinks DEF JourneyInit
  <1>2. LinksOK /\ IInv /\ [JourneyNext]_jVars => LinksOK'
    BY StepOfReports, LinksReached, LinksStep
  <1> QED
    BY <1>1, <1>2, ReportsInvariance, PTL DEF JourneySpec

(* Whoever went through the pages of a draft finds every figure, whatever  *)
(* way the reports were reached; and all of their state has its type.      *)
THEOREM CompleteOnTheWay == JourneySpec => [](TypeOK /\ WalkedIsComplete)
  <1>1. IInv => TypeOK /\ WalkedIsComplete
    BY WalkedHolds DEF IInv
  <1> QED
    BY <1>1, ReportsInvariance, PTL

(* However the reports were reached, no page and no redirect of theirs     *)
(* leads to one that is not found, unless the report has changed since.    *)
THEOREM LinksHoldOnTheWay == JourneySpec => []LinksHold
  BY LinksOnTheWay, LinksFollow, PTL

(* Who is sent to a page of a draft finds it on a journey as well.         *)
THEOREM DraftsAreFoundOnTheWay == JourneySpec => []DraftIsFound
  BY LinksOnTheWay, DraftFollows, PTL

(* A report that advances on a journey holds what a page of a tab showed.  *)
THEOREM ReviewedOnTheWay ==
  ASSUME FreshVersions
  PROVE  JourneySpec => AdvancedAsReviewed
  <1>1. IInv /\ [JourneyNext]_jVars => [AsReviewed]_vars
    BY StepOfReports, NoReportStored, ReviewedStep DEF AsReviewed
  <1> QED
    BY <1>1, ReportsInvariance, PTL DEF JourneySpec, AdvancedAsReviewed, AsReviewed

(* Nor is free tonnage above the issued tonnage stored, on a journey, but  *)
(* to a report that was replaced after the check.                          *)
THEOREM CheckedOnTheWay == JourneySpec => FreeIsChecked
  <1>1. IInv /\ [JourneyNext]_jVars => [AsChecked]_vars
    BY StepOfReports, NoReportStored, CheckedStep DEF AsChecked
  <1> QED
    BY <1>1, ReportsInvariance, PTL DEF JourneySpec, FreeIsChecked, AsChecked
=============================================================================
