---------------------------- MODULE SignInProofs ----------------------------
(***************************************************************************)
(* Theorems about SignInPages, for any users, any windows and any sign-ins *)
(* begun and given up.                                                     *)
(***************************************************************************)
EXTENDS SignInPages, SequenceTheorems, TLAPS

-----------------------------------------------------------------------------
(* The inductive invariant.                                                *)

(* An address that exists, admits the user and does not tell one who has   *)
(* an organisation that they have none.                                    *)
Open(p) ==
  /\ Answer(p) \notin {"not-found", "forbidden"}
  /\ ~(p = "linking" /\ UserOrganisations = "linked")

(* Where "login" or "regulators/login" is linked.                          *)
SignInFrom == SkipReferrers \cup {"start?"}

Inside == {"organisation", "regulators/home", "linking", "email-not-recognised", "start?"}

(* Only who may write has an organisation, which they do not lose; a       *)
(* regulator is signed in only where the flag lets them.                   *)
SessionOK ==
  /\ session.linked => MayWrite /\ membership = "linked"
  /\ session.user.provider = "entra-id" => access /\ session.user.role # "none"

(* Nothing links to the regulators' greeting, and who is sent there is     *)
(* signed out; sign-ins begin on the pages a callback does not return to;  *)
(* whoever has just signed in is on the way to a page behind the sign-in;  *)
(* the regulators' home is shown to who may search.                        *)
WindowOK(x) ==
  /\ x.fresh => \A p \in x.links \cup ({x.to} \ {"nowhere"}) : Open(p)
  /\ "regulators/logged-out" \notin x.links
  /\ x.fresh /\ (x.to = "regulators/logged-out" \/ x.page = "signing out") => ~SignedIn
  /\ x.links \cap SignInLinks # {} => x.page \in SignInFrom
  /\ x.page = "at entra-id" => access
  /\ x.entered => x.page = "blank" /\ x.fresh /\ x.to \in Inside
  /\ x.fresh /\ x.page = "regulators/home" => Holds("organisation.search")

IInv ==
  /\ SiteTypeOK
  /\ referrers \in Seq(SignInFrom)
  /\ SessionOK
  /\ \A w \in Windows : WindowOK(window[w])

-----------------------------------------------------------------------------
(* What the routes answer.                                                 *)

(* Who signs in, and as whom.                                              *)
LEMMA UserFacts ==
  ASSUME NEW u \in Users
  PROVE  /\ u # Nobody /\ u.provider \in {"defra-id", "entra-id"} /\ u.scopes \subseteq Scopes
         /\ u.role = "regulator_standard" => /\ u.provider = "entra-id"
                                             /\ "organisation.search" \in u.scopes
         /\ u.provider = "entra-id" /\ u.role # "none" => u.role = "regulator_standard"
         /\ HasWriteScope(u) <=> u.role = "operator"
  <1>1. u \in User /\ ScopesFollowRole(u)
    BY UsersAssumption
  <1>2. u.provider \in {"defra-id", "entra-id"} /\ u.role \in Roles /\ u.scopes \subseteq Scopes
    BY <1>1 DEF User
  <1>3. Nobody.provider = "nobody"
    BY DEF Nobody
  <1> QED
    BY <1>1, <1>2, <1>3 DEF ScopesFollowRole, Roles

(* Nobody has no role, no scopes and no provider.                          *)
LEMMA NobodyFacts ==
  /\ Nobody.role = "none" /\ Nobody.scopes = {} /\ Nobody.provider = "nobody"
  /\ ~HasWriteScope(Nobody)
  BY DEF Nobody, HasWriteScope

(* What a session says of whoever is signed in.                            *)
LEMMA SessionFacts ==
  ASSUME SiteTypeOK, SessionOK
  PROVE  /\ ~SignedIn => /\ ~IsRegulator /\ ~MayWrite /\ ~session.linked
         /\ IsRegulator => access /\ SignedIn /\ Holds("organisation.search")
         /\ session.linked => SignedIn /\ UserOrganisations = "linked"
  <1>1. session.user \in Users \cup {Nobody}
    BY DEF SiteTypeOK
  <1>2. CASE session.user = Nobody
    BY <1>2, NobodyFacts DEF SessionOK, SignedIn, IsRegulator, MayWrite
  <1>3. CASE session.user \in Users
    BY <1>3, UserFacts
       DEF SessionOK, SignedIn, IsRegulator, MayWrite, Holds, UserOrganisations
  <1> QED
    BY <1>1, <1>2, <1>3

(* Which addresses are open to whom.                                       *)
LEMMA OpenFacts ==
  /\ Open("/") /\ Open("start") /\ Open("start?") /\ Open("login") /\ Open("logout")
  /\ Open("email-not-recognised") /\ Open("logged-out")
  /\ access => Open("regulators/login") /\ Open("regulators/logged-out")
  /\ UserOrganisations # "linked" => Open("linking")
  /\ ~SignedIn /\ access => Open("regulators/home")
  /\ ~SignedIn => Open("organisation")
  /\ SignedIn /\ access /\ Holds("organisation.search") => Open("regulators/home")
  /\ SignedIn /\ (IsRegulator \/ UserOrganisations = "linked") => Open("organisation")
  BY DEF Open, Answer, Regulators, Protected

(* The shell leads where its user may go.                                  *)
LEMMA ShellOpen ==
  ASSUME SiteTypeOK, SessionOK, NEW p \in Shell
  PROVE  Open(p) /\ p \in Addresses /\ p \notin SignInLinks /\ p # "regulators/logged-out"
  <1>1. p \in {"logout", "start"} \/ (p = "regulators/home" /\ IsRegulator)
        \/ (p = "organisation" /\ session.linked)
    BY DEF Shell, Navigation
  <1>2. Open(p)
    BY <1>1, SessionFacts, OpenFacts
  <1> QED
    BY <1>1, <1>2 DEF Addresses, SignInLinks

(* A page that is shown, or an error, leads where its user may go.         *)
LEMMA LinksOpen ==
  ASSUME SiteTypeOK, SessionOK, NEW page,
         Answer(page) = "shown" \/ page \in {"error", "not-found", "no-permission"},
         NEW p \in LinksOf(page)
  PROVE  /\ Open(p) /\ p \in Addresses /\ p # "regulators/logged-out"
         /\ p \in SignInLinks => page \in SignInFrom
  <1>1. CASE p \in Shell
    BY <1>1, ShellOpen
  <1>2. CASE page \in {"start", "start?"} /\ p = StartNow
    <2>1. \/ p = "login"
          \/ p = "organisation" /\ SignedIn /\ UserOrganisations = "linked"
          \/ p = "linking" /\ UserOrganisations # "linked"
      BY <1>2, SessionFacts DEF StartNow, UserOrganisations
    <2> QED
      BY <1>2, <2>1, OpenFacts DEF Addresses, SignInFrom, SkipReferrers, SignInLinks
  <1>3. CASE page = "logged-out" /\ p = "login"
    BY <1>3, OpenFacts DEF Addresses, SignInFrom, SkipReferrers
  <1>4. CASE page = "regulators/logged-out" /\ p \in {"regulators/home", "regulators/login"}
    <2>1. access /\ ~SignedIn
      BY <1>4 DEF Answer, Regulators, Redirect, Protected
    <2> QED
      BY <1>4, <2>1, OpenFacts DEF Addresses, SignInFrom, SkipReferrers, SignInLinks
  <1>5. CASE page = "error" /\ p = "/"
    BY <1>5, OpenFacts DEF Addresses, SignInLinks
  <1>6. CASE page \in {"start", "start?"}
    BY <1>1, <1>2, <1>6 DEF LinksOf
  <1>7. CASE page = "logged-out"
    BY <1>1, <1>3, <1>7 DEF LinksOf
  <1>8. CASE page = "regulators/logged-out"
    BY <1>4, <1>8 DEF LinksOf
  <1>9. CASE page = "error"
    BY <1>1, <1>5, <1>9 DEF LinksOf
  <1>10. CASE page \notin {"start", "start?", "logged-out", "regulators/logged-out", "error"}
    <2>1. LinksOf(page) = Shell
      BY <1>10 DEF LinksOf
    <2> QED
      BY <1>1, <2>1
  <1> QED
    BY <1>6, <1>7, <1>8, <1>9, <1>10

(* Where a redirect leads the user may go; to the regulators' home only    *)
(* from their greeting.                                                    *)
LEMMA RedirectOpen ==
  ASSUME SiteTypeOK, SessionOK, NEW p \in Addresses, p # "post-logout",
         Answer(p) = "redirect", ~(p = "regulators/logged-out" /\ SignedIn)
  PROVE  /\ Open(Redirect(p)) /\ Redirect(p) \in Addresses
         /\ Redirect(p) # "regulators/logged-out"
         /\ p \in Inside => Redirect(p) \in Inside
  <1>1. Redirect(p) # "nowhere"
    BY DEF Answer
  <1>2. \/ p = "/" /\ Redirect(p) = "start"
        \/ p = "logged-out" /\ Redirect(p) = "/"
        \/ p = "linking" /\ Redirect(p) = "email-not-recognised"
        \/ p = "logout" /\ Redirect(p) = "logged-out"
    BY <1>1 DEF Redirect, Addresses
  <1> QED
    BY <1>2, OpenFacts DEF Addresses, Inside

(* An address that is open and admits whoever asks is shown or redirects.  *)
LEMMA AnswerCases ==
  ASSUME NEW p
  PROVE  Answer(p) \in {"shown", "redirect", "not-found", "forbidden", "unauthorised"}
  BY DEF Answer

(* The way in after a sign-in.                                             *)
LEMMA LandingFacts ==
  ASSUME referrers \in Seq(SignInFrom), NEW default
  PROVE  Landing(default) \in {default, "start?"}
  <1>1. referrers # <<>> => Head(referrers) \in SignInFrom
    OBVIOUS
  <1> QED
    BY <1>1 DEF Landing, SignInFrom

-----------------------------------------------------------------------------
(* Windows.                                                                *)

LEMMA BlankFacts ==
  /\ BlankWindow.page = "blank" /\ BlankWindow.links = {} /\ BlankWindow.to = "nowhere"
  /\ BlankWindow.fresh = FALSE /\ BlankWindow.entered = FALSE
  /\ BlankWindow \in Window
  BY DEF BlankWindow, Window, Shows

(* A window that is sent on.                                               *)
LEMMA SentFacts ==
  ASSUME NEW p \in Addresses, NEW e \in BOOLEAN
  PROVE  /\ Sent(p, e).page = "blank" /\ Sent(p, e).links = {} /\ Sent(p, e).to = p
         /\ Sent(p, e).fresh = TRUE /\ Sent(p, e).entered = e
         /\ Sent(p, e) \in Window
  BY DEF Sent, BlankWindow, Window, Shows

(* A redirect to an open address.                                          *)
LEMMA SentOK ==
  ASSUME NEW p \in Addresses, Open(p), NEW e \in BOOLEAN, e => p \in Inside,
         p = "regulators/logged-out" => ~SignedIn
  PROVE  WindowOK(Sent(p, e))
  <1> DEFINE x == Sent(p, e)
  <1>1. /\ x.page = "blank" /\ x.links = {} /\ x.to = p /\ x.fresh = TRUE /\ x.entered = e
    BY SentFacts
  <1> HIDE DEF x
  <1>2. \A q \in x.links \cup ({x.to} \ {"nowhere"}) : Open(q)
    BY <1>1
  <1>3. x.links \cap SignInLinks = {} /\ "regulators/logged-out" \notin x.links
    BY <1>1
  <1>4. x.entered => x.page = "blank" /\ x.fresh /\ x.to \in Inside
    BY <1>1
  <1>5. WindowOK(x)
    BY <1>1, <1>2, <1>3, <1>4 DEF WindowOK
  <1> QED
    BY <1>5 DEF x

(* A page that is shown.                                                   *)
LEMMA PageOK ==
  ASSUME SiteTypeOK, SessionOK, NEW p \in Shows,
         Answer(p) = "shown" \/ p \in {"error", "not-found", "no-permission"},
         p \notin {"signing out", "at entra-id"}
  PROVE  WindowOK(Page(p)) /\ Page(p) \in Window
  <1>1. /\ Page(p).page = p /\ Page(p).links = LinksOf(p) /\ Page(p).to = "nowhere"
        /\ Page(p).fresh = TRUE /\ Page(p).entered = FALSE
    BY DEF Page
  <1>2. \A l \in LinksOf(p) : /\ Open(l) /\ l \in Addresses /\ l # "regulators/logged-out"
                              /\ l \in SignInLinks => p \in SignInFrom
    BY LinksOpen
  <1>3. Page(p) \in Window
    BY <1>2 DEF Page, Window
  <1>4. p = "regulators/home" => Holds("organisation.search")
    BY DEF Answer
  <1> QED
    BY <1>1, <1>2, <1>3, <1>4 DEF WindowOK

-----------------------------------------------------------------------------
(* Steps that leave the session and the organisation as they are.          *)

(* What is open goes by session, organisation and flag, not by the cookie. *)
LEMMA SameOpen ==
  ASSUME UNCHANGED <<access, membership, session>>
  PROVE  /\ (\A p : Open(p)' <=> Open(p)) /\ (SignedIn' <=> SignedIn) /\ (SessionOK' <=> SessionOK)
         /\ Holds("organisation.search")' <=> Holds("organisation.search")
  <1>1. /\ SignedIn' <=> SignedIn
        /\ UserOrganisations' = UserOrganisations
        /\ SessionOK' <=> SessionOK
    BY DEF SignedIn, UserOrganisations, MayWrite, SessionOK
  <1>2. ASSUME NEW p
        PROVE  (Redirect(p) # "nowhere")' <=> Redirect(p) # "nowhere"
    <2>1. Greeting # "nowhere" /\ Greeting' # "nowhere"
      BY DEF Greeting
    <2> QED
      BY <1>1, <2>1 DEF Redirect
  <1>3. ASSUME NEW p
        PROVE  (Answer(p) \in {"not-found", "forbidden"})' <=> Answer(p) \in {"not-found", "forbidden"}
    BY <1>1, <1>2 DEF Answer, Holds, IsRegulator
  <1> QED
    BY <1>1, <1>3 DEF Open, Holds

(* One window changes, and perhaps the record of sign-ins and the cookie.  *)
LEMMA WindowOnly ==
  ASSUME IInv, NEW w \in Windows, NEW x \in Window, WindowOK(x),
         window' = [window EXCEPT ![w] = x],
         UNCHANGED <<access, membership, session>>,
         cookie' \in BOOLEAN, referrers' \in Seq(SignInFrom)
  PROVE  IInv'
  <1>1. SignInFrom \subseteq Addresses
    BY DEF SignInFrom, SkipReferrers, Addresses
  <1>2. SiteTypeOK'
    BY <1>1 DEF IInv, SiteTypeOK
  <1>3. \A v \in Windows : window'[v] = x \/ window'[v] = window[v]
    BY DEF IInv, SiteTypeOK
  <1>4. ASSUME NEW v \in Windows
        PROVE  WindowOK(window[v])'
    <2>1. WindowOK(window'[v])
      BY <1>3 DEF IInv
    <2> QED
      BY <2>1, SameOpen DEF WindowOK
  <1> QED
    BY <1>2, <1>4, SameOpen DEF IInv

(* Only the record of sign-ins or the cookie changes.                      *)
LEMMA NoWindow ==
  ASSUME IInv, UNCHANGED <<access, membership, session, window>>,
         cookie' \in BOOLEAN, referrers' \in Seq(SignInFrom)
  PROVE  IInv'
  <1>1. SignInFrom \subseteq Addresses
    BY DEF SignInFrom, SkipReferrers, Addresses
  <1>2. SiteTypeOK'
    BY <1>1 DEF IInv, SiteTypeOK
  <1>3. ASSUME NEW v \in Windows
        PROVE  WindowOK(window[v])'
    BY SameOpen DEF IInv, WindowOK
  <1> QED
    BY <1>2, <1>3, SameOpen DEF IInv

(* A page is shown.                                                        *)
LEMMA ShowStep ==
  ASSUME IInv, NEW w \in Windows, NEW p \in Shows, Show(w, p),
         Answer(p) = "shown" \/ p \in {"error", "not-found", "no-permission"},
         p \notin {"signing out", "at entra-id"},
         UNCHANGED <<access, membership, session, referrers, cookie>>
  PROVE  IInv'
  <1>1. WindowOK(Page(p)) /\ Page(p) \in Window
    BY PageOK DEF IInv
  <1>2. window' = [window EXCEPT ![w] = Page(p)]
    BY DEF Show
  <1>3. cookie' \in BOOLEAN /\ referrers' \in Seq(SignInFrom)
    BY DEF IInv, SiteTypeOK
  <1> QED
    BY <1>1, <1>2, <1>3, WindowOnly

(* The browser is sent on, from a link that was followed or from an        *)
(* address that was typed.                                                 *)
LEMMA SendStep ==
  ASSUME IInv, NEW w \in Windows, NEW q \in Addresses, NEW f \in BOOLEAN, SendOn(w, q, f),
         f => Open(q) /\ (q = "regulators/logged-out" => ~SignedIn),
         window[w].entered => f /\ q \in Inside,
         UNCHANGED <<access, membership, session, referrers>>, cookie' \in BOOLEAN
  PROVE  IInv'
  <1> DEFINE e == window[w].entered
             x == [Sent(q, e) EXCEPT !.fresh = f]
  <1>1. e \in BOOLEAN
    BY DEF IInv, SiteTypeOK, Window
  <1>2. /\ x.page = "blank" /\ x.links = {} /\ x.to = q /\ x.fresh = f /\ x.entered = e
        /\ x \in Window
    BY <1>1 DEF Sent, BlankWindow, Window, Shows
  <1>3. window' = [window EXCEPT ![w] = x]
    BY DEF SendOn
  <1> HIDE DEF x, e
  <1>4. (x.fresh => \A p \in x.links \cup ({x.to} \ {"nowhere"}) : Open(p))
    BY <1>2
  <1>5. x.links \cap SignInLinks = {} /\ "regulators/logged-out" \notin x.links
    BY <1>2
  <1>6. x.entered => x.page = "blank" /\ x.fresh /\ x.to \in Inside
    BY <1>2 DEF e
  <1>7. WindowOK(x)
    BY <1>2, <1>4, <1>5, <1>6 DEF WindowOK
  <1>8. referrers' \in Seq(SignInFrom)
    BY DEF IInv
  <1> QED
    BY <1>2, <1>3, <1>7, <1>8, WindowOnly

-----------------------------------------------------------------------------
(* Steps that change the session or the organisation.                      *)

LEMMA OpenNext ==
  /\ Open("/")' /\ Open("start")' /\ Open("start?")' /\ Open("logged-out")'
  /\ (UserOrganisations # "linked")' => Open("linking")'
  /\ SignedIn' /\ (UserOrganisations = "linked")' => Open("organisation")'
  /\ SignedIn' /\ access' /\ Holds("organisation.search")' => Open("regulators/home")'
  BY DEF Open, Answer, Regulators, Protected

(* What is left of a window when the session changes.                      *)
LEMMA OutdateFacts ==
  ASSUME IInv, NEW w \in Windows
  PROVE  /\ Outdate[w].page = window[w].page /\ Outdate[w].to = window[w].to
         /\ Outdate[w].links = window[w].links \cap SignInLinks
         /\ Outdate[w].fresh = FALSE /\ Outdate[w].entered = FALSE
         /\ Outdate[w] \in Window
  <1>1. window[w] \in Window
    BY DEF IInv, SiteTypeOK
  <1> QED
    BY <1>1 DEF Outdate, Window

(* What is left is as it should be, whatever the session is now.           *)
LEMMA Outdated ==
  ASSUME IInv, access' = access, NEW w \in Windows
  PROVE  WindowOK(Outdate[w]) /\ (window'[w] = Outdate[w] => WindowOK(window[w])')
  <1> DEFINE x == Outdate[w]
  <1>1. /\ x.page = window[w].page /\ x.links = window[w].links \cap SignInLinks
        /\ x.fresh = FALSE /\ x.entered = FALSE
    BY OutdateFacts
  <1>2. WindowOK(window[w])
    BY DEF IInv
  <1> HIDE DEF x
  <1>3. /\ "regulators/logged-out" \notin x.links
        /\ x.links \cap SignInLinks # {} => x.page \in SignInFrom
        /\ x.page = "at entra-id" => access
    BY <1>1, <1>2 DEF WindowOK
  <1>4. WindowOK(x)
    BY <1>1, <1>3 DEF WindowOK
  <1>5. ASSUME window'[w] = x
        PROVE  WindowOK(window[w])'
    BY <1>1, <1>3, <1>5 DEF WindowOK
  <1> QED
    BY <1>4, <1>5 DEF x

(* All windows but one are outdated; that one shows or is sent what is     *)
(* right for the new session.                                              *)
LEMMA SessionStep ==
  ASSUME IInv, access' = access, membership' \in Memberships, cookie' \in BOOLEAN,
         session' \in [user: Users \cup {Nobody}, linked: BOOLEAN], SessionOK',
         referrers' \in Seq(SignInFrom),
         window' \in [Windows -> Window],
         \A v \in Windows : window'[v] = Outdate[v] \/ WindowOK(window[v])'
  PROVE  IInv'
  <1>1. SignInFrom \subseteq Addresses
    BY DEF SignInFrom, SkipReferrers, Addresses
  <1>2. SiteTypeOK'
    BY <1>1 DEF IInv, SiteTypeOK
  <1>3. ASSUME NEW v \in Windows
        PROVE  WindowOK(window[v])'
    BY Outdated
  <1> QED
    BY <1>2, <1>3 DEF IInv

(* One window is sent to an address open after the step.                   *)
LEMMA SentNext ==
  ASSUME IInv, NEW w \in Windows, NEW p \in Addresses, NEW e \in BOOLEAN,
         window' = [Outdate EXCEPT ![w] = Sent(p, e)],
         Open(p)', p # "regulators/logged-out", e => p \in Inside
  PROVE  /\ window' \in [Windows -> Window]
         /\ \A v \in Windows : window'[v] = Outdate[v] \/ WindowOK(window[v])'
  <1> DEFINE x == Sent(p, e)
  <1>1. /\ x.page = "blank" /\ x.links = {} /\ x.to = p /\ x.fresh = TRUE /\ x.entered = e
        /\ x \in Window
    BY SentFacts
  <1> HIDE DEF x
  <1>2. window' = [Outdate EXCEPT ![w] = x]
    BY DEF x
  <1>3. DOMAIN Outdate = Windows /\ \A v \in Windows : Outdate[v] \in Window
    BY OutdateFacts DEF Outdate
  <1>4. window' \in [Windows -> Window]
    BY <1>1, <1>2, <1>3 DEF Outdate
  <1>5. window'[w] = x /\ \A v \in Windows \ {w} : window'[v] = Outdate[v]
    BY <1>2, <1>3
  <1>6. \A q \in x.links \cup ({x.to} \ {"nowhere"}) : Open(q)'
    BY <1>1
  <1>7. WindowOK(window[w])'
    BY <1>1, <1>5, <1>6 DEF WindowOK
  <1> QED
    BY <1>4, <1>5, <1>7

-----------------------------------------------------------------------------
(* The actions.                                                            *)

(* The session is removed, or was not there.                               *)
LEMMA NoSessionFacts ==
  ASSUME session' = NoSession
  PROVE  SessionOK' /\ session' \in [user: Users \cup {Nobody}, linked: BOOLEAN] /\ ~SignedIn'
  <1>1. session'.user = Nobody /\ session'.linked = FALSE
    BY DEF NoSession
  <1> QED
    BY <1>1, NobodyFacts DEF SessionOK, SignedIn, NoSession

(* A flash that was read.                                                  *)
LEMMA EmptyFlash == <<>> \in Seq(SignInFrom)
  OBVIOUS

(* A request the session no longer admits.                                 *)
LEMMA RemoveStep ==
  ASSUME IInv, NEW w \in Windows, RemoveSession(w, "logged-out"),
         UNCHANGED <<access, membership, cookie>>
  PROVE  IInv'
  <1>1. /\ session' = NoSession /\ referrers' = <<>>
        /\ window' = [Outdate EXCEPT ![w] = Sent("logged-out", FALSE)]
    BY DEF RemoveSession
  <1>2. /\ window' \in [Windows -> Window]
        /\ \A v \in Windows : window'[v] = Outdate[v] \/ WindowOK(window[v])'
    <2>1. "logged-out" \in Addresses
      BY DEF Addresses
    <2> QED
      BY <1>1, <2>1, OpenNext, SentNext
  <1>3. membership' \in Memberships /\ cookie' \in BOOLEAN
    BY DEF IInv, SiteTypeOK
  <1> QED
    BY <1>1, <1>2, <1>3, NoSessionFacts, EmptyFlash, SessionStep

(* Following a link, a redirect or a typed address.                        *)
LEMMA VisitStep ==
  ASSUME IInv, NEW w \in Windows, NEW p \in Addresses, Visit(w, p)
  PROVE  IInv'
  <1>1. /\ p \notin {"login", "regulators/login", "logout", "post-logout"} /\ Asks(w, p)
        /\ UNCHANGED <<access, membership, cookie>>
        /\ cookie' \in BOOLEAN
    BY DEF Visit, IInv, SiteTypeOK
  <1>2. CASE Answer(p) = "unauthorised"
    BY <1>1, <1>2, RemoveStep DEF Visit
  <1>3. CASE Answer(p) = "shown"
    <2>1. p # "/"
      BY <1>3 DEF Answer, Redirect, Regulators, Protected
    <2>2. p \in Shows /\ p \notin {"signing out", "at entra-id"}
      BY <1>1, <2>1 DEF Shows, Addresses
    <2>3. Show(w, p) /\ UNCHANGED <<session, referrers>>
      BY <1>3 DEF Visit
    <2> QED
      BY <1>1, <1>3, <2>2, <2>3, ShowStep
  <1>4. CASE Answer(p) = "redirect"
    <2> DEFINE f == Followed(w, p)
    <2>1. SendOn(w, Redirect(p), f) /\ UNCHANGED <<session, referrers>>
      BY <1>4 DEF Visit
    <2>2. WindowOK(window[w]) /\ SiteTypeOK /\ SessionOK
      BY DEF IInv
    <2>3. f \in BOOLEAN /\ (f => ~(p = "regulators/logged-out" /\ SignedIn))
      BY <2>2 DEF Followed, WindowOK
    <2>4. window[w].entered => f /\ p \in Inside
      <3>1. window[w].entered => window[w].fresh /\ window[w].to \in Inside
        BY <2>2 DEF WindowOK
      <3>2. "nowhere" \notin Inside
        BY DEF Inside
      <3> QED
        BY <1>1, <3>1, <3>2 DEF Asks, Followed
    <2>5. Redirect(p) \in Addresses
      <3>1. Redirect(p) # "nowhere"
        BY <1>4 DEF Answer
      <3> QED
        BY <1>1, <3>1 DEF Redirect, Addresses
    <2>6. f => Open(Redirect(p)) /\ Redirect(p) # "regulators/logged-out"
      BY <1>1, <1>4, <2>2, <2>3, RedirectOpen
    <2>7. window[w].entered => Redirect(p) \in Inside
      BY <1>1, <1>4, <2>2, <2>3, <2>4, RedirectOpen
    <2> HIDE DEF f
    <2> QED
      BY <1>1, <2>1, <2>3, <2>4, <2>5, <2>6, <2>7, SendStep
  <1>5. CASE Answer(p) \in {"not-found", "forbidden"}
    <2>1. (Show(w, "not-found") \/ Show(w, "no-permission")) /\ UNCHANGED <<session, referrers>>
      BY <1>5 DEF Visit
    <2>2. "not-found" \in Shows /\ "no-permission" \in Shows
      BY DEF Shows
    <2> QED
      BY <1>1, <2>1, <2>2, ShowStep
  <1> QED
    BY <1>2, <1>3, <1>4, <1>5, AnswerCases

(* A page the backend fails for.                                           *)
LEMMA VisitFailsStep ==
  ASSUME IInv, NEW w \in Windows, NEW p \in Addresses, VisitFails(w, p)
  PROVE  IInv'
  <1>1. Show(w, "error") /\ UNCHANGED <<access, membership, session, referrers, cookie>>
    BY DEF VisitFails
  <1>2. "error" \in Shows
    BY DEF Shows
  <1> QED
    BY <1>1, <1>2, ShowStep

(* What is recorded is a page a sign-in is begun on.                       *)
LEMMA BeginStep ==
  ASSUME IInv, NEW w \in Windows, NEW p \in Addresses, NEW typed \in BOOLEAN, Begin(w, p, typed)
  PROVE  IInv'
  <1> DEFINE at == IF p = "login" THEN "at defra-id" ELSE "at entra-id"
             x  == [BlankWindow EXCEPT !.page = at]
  <1>1. /\ p \in {"login", "regulators/login"} /\ Answer(p) # "not-found"
        /\ typed \/ p \in window[w].links
        /\ referrers' = IF typed THEN referrers ELSE Append(referrers, window[w].page)
        /\ window' = [window EXCEPT ![w] = x]
        /\ UNCHANGED <<access, membership, session, cookie>>
    BY DEF Begin
  <1>2. at = "at entra-id" => access
    BY <1>1 DEF Answer, Regulators
  <1>3. at \in {"at defra-id", "at entra-id"}
    OBVIOUS
  <1> HIDE DEF at
  <1>4. /\ x.page = at /\ x.links = {} /\ x.fresh = FALSE /\ x.entered = FALSE
        /\ x \in Window
    BY <1>3 DEF BlankWindow, Window, Shows
  <1>5. ~typed => window[w].page \in SignInFrom
    BY <1>1 DEF IInv, WindowOK, SignInLinks
  <1>6. referrers' \in Seq(SignInFrom) /\ cookie' \in BOOLEAN
    BY <1>1, <1>5 DEF IInv, SiteTypeOK
  <1> HIDE DEF x
  <1>7. WindowOK(x)
    BY <1>2, <1>4 DEF WindowOK
  <1> QED
    BY <1>1, <1>4, <1>6, <1>7, WindowOnly DEF x

(* The session a callback makes.                                           *)
LEMMA SessionOfFacts ==
  ASSUME IInv, NEW u \in Users, session' = SessionOf(u), UNCHANGED <<access, membership>>,
         u.provider = "entra-id" => access /\ u.role # "none"
  PROVE  /\ session' \in [user: Users \cup {Nobody}, linked: BOOLEAN] /\ SessionOK' /\ SignedIn'
         /\ session'.linked = SessionOf(u).linked
         /\ SessionOf(u).linked <=> (UserOrganisations = "linked")'
         /\ u.provider = "entra-id" => Holds("organisation.search")'
  <1>1. /\ session'.user = u /\ session'.linked = (HasWriteScope(u) /\ membership = "linked")
        /\ SessionOf(u).linked = (HasWriteScope(u) /\ membership = "linked")
    BY DEF SessionOf
  <1>2. session' \in [user: Users \cup {Nobody}, linked: BOOLEAN]
    BY DEF SessionOf
  <1>3. SessionOK' /\ SignedIn'
    BY <1>1, UserFacts DEF SessionOK, SignedIn, MayWrite
  <1>4. SessionOf(u).linked <=> (UserOrganisations = "linked")'
    BY <1>1 DEF UserOrganisations, MayWrite
  <1>5. u.provider = "entra-id" => Holds("organisation.search")'
    BY <1>1, UserFacts DEF Holds
  <1> QED
    BY <1>1, <1>2, <1>3, <1>4, <1>5

(* What a callback leaves in the flash.                                    *)
LEMMA ConsumedFacts ==
  ASSUME IInv, NEW u \in Users
  PROVE  Consumed(u) \in Seq(SignInFrom)
  BY EmptyFlash DEF IInv, Consumed

(* An operator comes back from the provider.                               *)
LEMMA SignInDefraStep ==
  ASSUME IInv, NEW w \in Windows, NEW u \in Users, SignInDefra(w, u)
  PROVE  IInv'
  <1>1. /\ u.provider = "defra-id" /\ session' = SessionOf(u) /\ referrers' = Consumed(u)
        /\ UNCHANGED <<access, membership, cookie>>
    BY DEF SignInDefra
  <1>2. Landing("organisation") \in {"organisation", "start?"}
    BY LandingFacts DEF IInv
  <1>3. PICK p \in {"organisation", "start?", "linking"} :
          /\ window' = [Outdate EXCEPT ![w] = Sent(p, TRUE)]
          /\ p = "organisation" => SessionOf(u).linked
          /\ p = "linking" => ~SessionOf(u).linked
    BY <1>2 DEF SignInDefra
  <1>4. Open(p)'
    BY <1>1, <1>3, SessionOfFacts, OpenNext
  <1>5. p \in Addresses /\ p \in Inside /\ p # "regulators/logged-out"
    BY DEF Addresses, Inside
  <1>6. /\ window' \in [Windows -> Window]
        /\ \A v \in Windows : window'[v] = Outdate[v] \/ WindowOK(window[v])'
    BY <1>3, <1>4, <1>5, SentNext
  <1>7. membership' \in Memberships /\ cookie' \in BOOLEAN
    BY <1>1 DEF IInv, SiteTypeOK
  <1> QED
    BY <1>1, <1>6, <1>7, SessionOfFacts, ConsumedFacts, SessionStep

(* A regulator comes back, or somebody the backend does not know.          *)
LEMMA SignInEntraStep ==
  ASSUME IInv, NEW w \in Windows, NEW u \in Users, SignInEntra(w, u)
  PROVE  IInv'
  <1>1. /\ u.provider = "entra-id" /\ window[w].page = "at entra-id"
        /\ UNCHANGED <<access, membership, cookie>>
    BY DEF SignInEntra
  <1>2. access /\ membership' \in Memberships /\ cookie' \in BOOLEAN
    BY <1>1 DEF IInv, WindowOK, SiteTypeOK
  <1>3. CASE u.role = "none"
    <2> DEFINE x == [BlankWindow EXCEPT !.page = "not-authorised", !.links = {"start"}, !.fresh = TRUE]
    <2>1. window' = [window EXCEPT ![w] = x] /\ UNCHANGED <<session, referrers>>
      BY <1>3 DEF SignInEntra
    <2>2. /\ x.page = "not-authorised" /\ x.links = {"start"} /\ x.to = "nowhere"
          /\ x.fresh = TRUE /\ x.entered = FALSE /\ x \in Window
      BY DEF BlankWindow, Window, Shows, Addresses
    <2> HIDE DEF x
    <2>3. x.links \cap SignInLinks = {}
      BY <2>2 DEF SignInLinks
    <2>4. WindowOK(x)
      BY <2>2, <2>3, OpenFacts DEF WindowOK
    <2>5. referrers' \in Seq(SignInFrom)
      BY <2>1 DEF IInv
    <2> QED
      BY <1>1, <1>2, <2>1, <2>2, <2>4, <2>5, WindowOnly
  <1>4. CASE u.role # "none"
    <2>1. /\ session' = SessionOf(u) /\ referrers' = Consumed(u)
          /\ window' = [Outdate EXCEPT ![w] = Sent(Landing("regulators/home"), TRUE)]
      BY <1>4 DEF SignInEntra
    <2>2. PICK p \in {"regulators/home", "start?"} :
            window' = [Outdate EXCEPT ![w] = Sent(p, TRUE)]
      BY <2>1, LandingFacts DEF IInv
    <2>3. Open(p)'
      BY <1>1, <1>2, <1>4, <2>1, SessionOfFacts, OpenNext
    <2>4. p \in Addresses /\ p \in Inside /\ p # "regulators/logged-out"
      BY DEF Addresses, Inside
    <2>5. /\ window' \in [Windows -> Window]
          /\ \A v \in Windows : window'[v] = Outdate[v] \/ WindowOK(window[v])'
      BY <2>2, <2>3, <2>4, SentNext
    <2> QED
      BY <1>1, <1>2, <1>4, <2>1, <2>5, SessionOfFacts, ConsumedFacts, SessionStep
  <1> QED
    BY <1>3, <1>4

(* The backend fails in a callback.                                        *)
LEMMA SignInFailsStep ==
  ASSUME IInv, NEW w \in Windows, NEW u \in Users, SignInFails(w, u)
  PROVE  IInv'
  <1> DEFINE x == [BlankWindow EXCEPT !.page = "error", !.links = {"start", "/"}, !.fresh = TRUE]
  <1>1. UNCHANGED <<access, membership, referrers, cookie>>
    BY DEF SignInFails
  <1>2. membership' \in Memberships /\ cookie' \in BOOLEAN /\ referrers' \in Seq(SignInFrom)
    BY <1>1 DEF IInv, SiteTypeOK
  <1>3. /\ x.page = "error" /\ x.links = {"start", "/"} /\ x.to = "nowhere"
        /\ x.fresh = TRUE /\ x.entered = FALSE /\ x \in Window
    BY DEF BlankWindow, Window, Shows, Addresses
  <1>4. \/ window' = [window EXCEPT ![w] = x] /\ UNCHANGED session
        \/ /\ u.provider = "defra-id" /\ session' = [user |-> u, linked |-> FALSE]
           /\ window' = [Outdate EXCEPT ![w] = x]
    BY DEF SignInFails
  <1> HIDE DEF x
  <1>5. x.links \cap SignInLinks = {} /\ "regulators/logged-out" \notin x.links
    BY <1>3 DEF SignInLinks
  <1>6. CASE window' = [window EXCEPT ![w] = x] /\ UNCHANGED session
    <2>1. WindowOK(x)
      BY <1>3, <1>5, OpenFacts DEF WindowOK
    <2> QED
      BY <1>1, <1>2, <1>3, <1>6, <2>1, WindowOnly
  <1>7. CASE /\ u.provider = "defra-id" /\ session' = [user |-> u, linked |-> FALSE]
             /\ window' = [Outdate EXCEPT ![w] = x]
    <2>1. session'.user = u /\ session'.linked = FALSE
      BY <1>7
    <2>2. SessionOK'
      BY <1>7, <2>1 DEF SessionOK
    <2>3. session' \in [user: Users \cup {Nobody}, linked: BOOLEAN]
      BY <1>7
    <2>4. DOMAIN Outdate = Windows /\ \A v \in Windows : Outdate[v] \in Window
      BY OutdateFacts DEF Outdate
    <2>5. window' \in [Windows -> Window] /\ window'[w] = x
          /\ \A v \in Windows \ {w} : window'[v] = Outdate[v]
      BY <1>3, <1>7, <2>4 DEF Outdate
    <2>6. WindowOK(window[w])'
      BY <1>3, <1>5, <2>5, OpenNext DEF WindowOK
    <2> QED
      BY <1>1, <1>2, <2>2, <2>3, <2>5, <2>6, SessionStep
  <1> QED
    BY <1>4, <1>6, <1>7

(* The user gives up at the provider.                                      *)
LEMMA NotSignedInStep ==
  ASSUME IInv, NEW w \in Windows, NotSignedIn(w)
  PROVE  IInv'
  <1>1. /\ referrers' = <<>> /\ window' = [window EXCEPT ![w] = Sent(Landing("/"), FALSE)]
        /\ UNCHANGED <<access, membership, session, cookie>>
    BY DEF NotSignedIn
  <1>2. PICK p \in {"/", "start?"} : p = Landing("/")
    BY LandingFacts DEF IInv
  <1>3. p \in Addresses /\ p # "regulators/logged-out"
    BY DEF Addresses
  <1>4. WindowOK(Sent(p, FALSE)) /\ Sent(p, FALSE) \in Window
    BY <1>3, OpenFacts, SentOK, SentFacts
  <1>5. cookie' \in BOOLEAN /\ referrers' \in Seq(SignInFrom)
    BY <1>1, EmptyFlash DEF IInv, SiteTypeOK
  <1> QED
    BY <1>1, <1>2, <1>4, <1>5, WindowOnly

(* The form that links an organisation is sent.                            *)
LEMMA LinkStep ==
  ASSUME IInv, NEW w \in Windows, Link(w)
  PROVE  IInv'
  <1>1. UNCHANGED <<access, cookie>> /\ cookie' \in BOOLEAN
    BY DEF Link, IInv, SiteTypeOK
  <1>2. /\ membership \in Memberships /\ (~SignedIn => ~MayWrite)
    BY SessionFacts DEF IInv, SiteTypeOK
  <1>3. CASE ~SignedIn
    <2>1. RemoveSession(w, "logged-out") /\ UNCHANGED membership
      BY <1>2, <1>3 DEF Link
    <2> QED
      BY <1>1, <2>1, RemoveStep
  <1>4. CASE SignedIn /\ ~(MayWrite /\ membership = "unlinked")
    <2>1. /\ Show(w, "no-permission") \/ Show(w, "error")
          /\ UNCHANGED <<membership, session, referrers>>
      BY <1>2, <1>4 DEF Link
    <2>2. "no-permission" \in Shows /\ "error" \in Shows
      BY DEF Shows
    <2> QED
      BY <1>1, <2>1, <2>2, ShowStep
  <1>5. CASE SignedIn /\ MayWrite /\ membership = "unlinked"
    <2>1. /\ membership' = "linked" /\ session' = [session EXCEPT !.linked = TRUE]
          /\ window' = [Outdate EXCEPT ![w] = Sent("organisation", FALSE)]
          /\ UNCHANGED referrers
      BY <1>5 DEF Link
    <2>2. session \in [user: Users \cup {Nobody}, linked: BOOLEAN]
      BY DEF IInv, SiteTypeOK
    <2>3. session'.user = session.user /\ session'.linked = TRUE
          /\ session' \in [user: Users \cup {Nobody}, linked: BOOLEAN]
      BY <2>1, <2>2
    <2>4. SignedIn' /\ (UserOrganisations = "linked")'
      BY <1>5, <2>1, <2>3 DEF SignedIn, UserOrganisations, MayWrite
    <2>5. SessionOK'
      BY <1>1, <1>5, <2>1, <2>3 DEF IInv, SessionOK, MayWrite
    <2>6. "organisation" \in Addresses
      BY DEF Addresses
    <2>7. /\ window' \in [Windows -> Window]
          /\ \A v \in Windows : window'[v] = Outdate[v] \/ WindowOK(window[v])'
      BY <2>1, <2>4, <2>6, OpenNext, SentNext
    <2>8. membership' \in Memberships /\ referrers' \in Seq(SignInFrom)
      BY <2>1 DEF IInv, Memberships
    <2> QED
      BY <1>1, <2>3, <2>5, <2>7, <2>8, SessionStep
  <1> QED
    BY <1>3, <1>4, <1>5

(* Signing out.                                                            *)
LEMMA LogoutStep ==
  ASSUME IInv, NEW w \in Windows, Logout(w)
  PROVE  IInv'
  <1> DEFINE x == [BlankWindow EXCEPT !.page = "signing out", !.fresh = TRUE]
  <1>1. UNCHANGED <<access, membership>> /\ Asks(w, "logout")
        /\ membership' \in Memberships
    BY DEF Logout, IInv, SiteTypeOK
  <1>2. CASE SignedIn
    <2>1. /\ session' = NoSession /\ referrers' = <<>>
          /\ cookie' = (cookie \/ session.user.provider = "entra-id")
          /\ window' = [Outdate EXCEPT ![w] = x]
      BY <1>2 DEF Logout
    <2>2. /\ x.page = "signing out" /\ x.links = {} /\ x.to = "nowhere"
          /\ x.fresh = TRUE /\ x.entered = FALSE /\ x \in Window
      BY DEF BlankWindow, Window, Shows
    <2> HIDE DEF x
    <2>3. DOMAIN Outdate = Windows /\ \A v \in Windows : Outdate[v] \in Window
      BY OutdateFacts DEF Outdate
    <2>4. window' \in [Windows -> Window] /\ window'[w] = x
          /\ \A v \in Windows \ {w} : window'[v] = Outdate[v]
      BY <2>1, <2>2, <2>3 DEF Outdate
    <2>5. WindowOK(window[w])'
      BY <2>1, <2>2, <2>4, NoSessionFacts DEF WindowOK
    <2>6. cookie' \in BOOLEAN
      BY <2>1 DEF IInv, SiteTypeOK
    <2> QED
      BY <1>1, <2>1, <2>4, <2>5, <2>6, NoSessionFacts, EmptyFlash, SessionStep
  <1>3. CASE ~SignedIn
    <2>1. /\ SendOn(w, Redirect("logout"), Followed(w, "logout"))
          /\ UNCHANGED <<session, referrers, cookie>>
      BY <1>3 DEF Logout
    <2>2. Redirect("logout") = "logged-out" /\ "logged-out" \in Addresses
      BY <1>3 DEF Redirect, Addresses
    <2>3. ~window[w].entered
      BY <1>1 DEF IInv, WindowOK, Asks, Inside
    <2>4. cookie' \in BOOLEAN /\ Followed(w, "logout") \in BOOLEAN
      BY <2>1 DEF IInv, SiteTypeOK, Followed
    <2> QED
      BY <1>1, <2>1, <2>2, <2>3, <2>4, OpenFacts, SendStep
  <1> QED
    BY <1>2, <1>3

(* Back from the provider, a regulator is greeted where the flag and the   *)
(* cookie say, and nobody is signed in yet.                                *)
LEMMA PostLogoutStep ==
  ASSUME IInv, NEW w \in Windows, PostLogout(w)
  PROVE  IInv'
  <1> DEFINE f == window[w].page = "signing out" /\ window[w].fresh
  <1>1. /\ SendOn(w, Redirect("post-logout"), f) /\ cookie' = FALSE
        /\ UNCHANGED <<access, membership, session, referrers>>
        /\ window[w].page = "signing out" \/ window[w].to = "post-logout"
    BY DEF PostLogout
  <1>2. Redirect("post-logout") = Greeting
    BY DEF Redirect
  <1>3. Greeting \in Addresses /\ (Greeting = "regulators/logged-out" => access)
        /\ Greeting \in {"logged-out", "regulators/logged-out"}
    BY DEF Greeting, Addresses
  <1>4. f => ~SignedIn
    BY DEF IInv, WindowOK
  <1>5. ~window[w].entered
    BY <1>1 DEF IInv, WindowOK, Inside
  <1>6. f \in BOOLEAN
    BY DEF IInv, SiteTypeOK, Window
  <1> HIDE DEF f
  <1>7. Open(Greeting)
    BY <1>3, OpenFacts
  <1> QED
    BY <1>1, <1>2, <1>3, <1>4, <1>5, <1>6, <1>7, SendStep

(* A step after which every window is outdated.                            *)
LEMMA AllOutdated ==
  ASSUME IInv, window' = Outdate
  PROVE  /\ window' \in [Windows -> Window]
         /\ \A v \in Windows : window'[v] = Outdate[v] \/ WindowOK(window[v])'
  BY OutdateFacts DEF Outdate

(* Session, cookie and what the backend knows change by themselves.        *)
LEMMA ExpireStep ==
  ASSUME IInv, Expire
  PROVE  IInv'
  <1>1. /\ UNCHANGED <<access, referrers>>
        /\ referrers' \in Seq(SignInFrom)
        /\ cookie \in BOOLEAN /\ membership \in Memberships
        /\ session \in [user: Users \cup {Nobody}, linked: BOOLEAN]
    BY DEF Expire, IInv, SiteTypeOK
  <1>2. CASE session' = NoSession /\ window' = Outdate /\ UNCHANGED <<membership, cookie>>
    BY <1>1, <1>2, AllOutdated, NoSessionFacts, SessionStep
  <1>3. CASE cookie' = FALSE /\ UNCHANGED <<membership, session, window>>
    BY <1>1, <1>3, NoWindow
  <1>4. CASE /\ membership = "none" /\ membership' = "unlinked" /\ window' = Outdate
             /\ UNCHANGED <<session, cookie>>
    <2>1. membership' \in Memberships /\ cookie' \in BOOLEAN
          /\ session' \in [user: Users \cup {Nobody}, linked: BOOLEAN]
      BY <1>1, <1>4 DEF Memberships
    <2>2. SessionOK'
      BY <1>1, <1>4 DEF IInv, SessionOK, MayWrite
    <2> QED
      BY <1>1, <1>4, <2>1, <2>2, AllOutdated, SessionStep
  <1> QED
    BY <1>2, <1>3, <1>4 DEF Expire

(* Other windows.                                                          *)
LEMMA ElsewhereStep ==
  ASSUME IInv, Elsewhere
  PROVE  IInv'
  <1>1. /\ UNCHANGED <<access, membership>>
        /\ cookie \in BOOLEAN /\ membership' \in Memberships /\ referrers \in Seq(SignInFrom)
    BY DEF Elsewhere, IInv, SiteTypeOK
  <1>2. ASSUME NEW u \in Users, u.provider = "entra-id" => access /\ u.role # "none",
               session' = SessionOf(u), referrers' = Consumed(u), window' = Outdate,
               UNCHANGED cookie
        PROVE  IInv'
    BY <1>1, <1>2, AllOutdated, SessionOfFacts, ConsumedFacts, SessionStep
  <1>3. CASE /\ session' = NoSession /\ referrers' = <<>> /\ window' = Outdate
             /\ cookie' = (cookie \/ session.user.provider = "entra-id")
    <2>1. cookie' \in BOOLEAN
      BY <1>1, <1>3
    <2> QED
      BY <1>1, <1>3, <2>1, AllOutdated, NoSessionFacts, EmptyFlash, SessionStep
  <1>4. ASSUME NEW p \in SkipReferrers \cup {"start?"}, referrers' = Append(referrers, p),
               UNCHANGED <<session, cookie, window>>
        PROVE  IInv'
    <2>1. referrers' \in Seq(SignInFrom)
      BY <1>1, <1>4 DEF SignInFrom
    <2> QED
      BY <1>1, <1>4, <2>1, NoWindow
  <1>5. CASE referrers' = <<>> /\ UNCHANGED <<session, cookie, window>>
    BY <1>1, <1>5, EmptyFlash, NoWindow
  <1>6. CASE cookie' = FALSE /\ UNCHANGED <<session, referrers, window>>
    BY <1>1, <1>6, NoWindow
  <1> QED
    BY <1>2, <1>3, <1>4, <1>5, <1>6 DEF Elsewhere

(* The invariant holds at first.                                           *)
LEMMA InitIInv == SiteInit => IInv
  <1> SUFFICES ASSUME SiteInit PROVE IInv
    OBVIOUS
  <1>1. session.user = Nobody /\ session.linked = FALSE
    BY DEF SiteInit, NoSession
  <1>2. SiteTypeOK
    BY BlankFacts DEF SiteInit, SiteTypeOK, NoSession
  <1>3. SessionOK
    BY <1>1, NobodyFacts DEF SessionOK
  <1>4. ASSUME NEW w \in Windows
        PROVE  WindowOK(window[w])
    <2>1. window[w] = BlankWindow
      BY DEF SiteInit
    <2> QED
      BY <2>1, BlankFacts DEF WindowOK
  <1>5. referrers \in Seq(SignInFrom)
    BY EmptyFlash DEF SiteInit
  <1> QED
    BY <1>2, <1>3, <1>4, <1>5 DEF IInv

(* Every step keeps the invariant.                                         *)
LEMMA NextIInv == IInv /\ [SiteNext]_siteVars => IInv'
  <1> SUFFICES ASSUME IInv, [SiteNext]_siteVars PROVE IInv'
    OBVIOUS
  <1>1. ASSUME NEW w \in Windows, WindowStep(w)
        PROVE  IInv'
    BY <1>1, VisitStep, VisitFailsStep, BeginStep, SignInDefraStep, SignInEntraStep,
       SignInFailsStep, NotSignedInStep, LinkStep, LogoutStep, PostLogoutStep DEF WindowStep
  <1>2. CASE UNCHANGED siteVars
    <2>1. UNCHANGED <<access, membership, session, window>>
          /\ cookie' \in BOOLEAN /\ referrers' \in Seq(SignInFrom)
      BY <1>2 DEF siteVars, IInv, SiteTypeOK
    <2> QED
      BY <2>1, NoWindow
  <1> QED
    BY <1>1, <1>2, ExpireStep, ElsewhereStep DEF SiteNext

(* The invariant holds throughout.                                         *)
LEMMA Invariance == SiteSpec => []IInv
  BY InitIInv, NextIInv, PTL DEF SiteSpec

-----------------------------------------------------------------------------
(* Who has just signed in stays on the way until a page is shown.          *)

LEMMA EnteredFacts ==
  ASSUME IInv, NEW w \in Windows, window[w].entered
  PROVE  /\ window[w].page = "blank" /\ window[w].fresh /\ window[w].to \in Inside
         /\ Open(window[w].to)
         /\ \A p : Asks(w, p) => p = window[w].to
  <1>1. WindowOK(window[w])
    BY DEF IInv
  <1>2. window[w].page = "blank" /\ window[w].fresh /\ window[w].to \in Inside
    BY <1>1 DEF WindowOK
  <1>3. window[w].to # "nowhere"
    BY <1>2 DEF Inside
  <1>4. Open(window[w].to)
    BY <1>1, <1>2, <1>3 DEF WindowOK
  <1> QED
    BY <1>2, <1>3, <1>4 DEF Asks

(* What a step may show a window that has just signed in.                  *)
ShownInside(x) ==
  x.to = "nowhere" /\ x.page # "error" /\ x.fresh
    => x.page \in {"organisation", "regulators/home", "linking",
                   "email-not-recognised", "start?"}

(* The visit the redirect of a sign-in leads to.                           *)
LEMMA EnteredVisit ==
  ASSUME IInv, NEW w \in Windows, window[w].entered, NEW p \in Addresses, Visit(w, p)
  PROVE  ShownInside(window'[w])
  <1>1. p \in Inside /\ Open(p)
    BY EnteredFacts DEF Visit
  <1>2. window \in [Windows -> Window]
    BY DEF IInv, SiteTypeOK
  <1>3. CASE Answer(p) = "unauthorised"
    <2>1. window' = [Outdate EXCEPT ![w] = Sent("logged-out", FALSE)]
      BY <1>3 DEF Visit, RemoveSession
    <2>2. window'[w] = Sent("logged-out", FALSE)
      BY <2>1 DEF Outdate
    <2>3. window'[w].to = "logged-out"
      BY <2>2, SentFacts DEF Addresses
    <2> QED
      BY <2>3 DEF ShownInside
  <1>4. CASE Answer(p) = "shown"
    <2>1. window'[w].page = p
      BY <1>2, <1>4 DEF Visit, Show, Page
    <2> QED
      BY <1>1, <2>1 DEF ShownInside, Inside
  <1>5. CASE Answer(p) = "redirect"
    <2>1. Redirect(p) # "nowhere"
      BY <1>5 DEF Answer
    <2>2. window'[w].to = Redirect(p)
      BY <1>2, <1>5 DEF Visit, SendOn, Sent, BlankWindow
    <2> QED
      BY <2>1, <2>2 DEF ShownInside
  <1> QED
    BY <1>1, <1>3, <1>4, <1>5, AnswerCases DEF Open

(* A window outdated or left as it is, by a step of another.               *)
LEMMA OtherWindow ==
  ASSUME IInv, NEW w \in Windows, NEW v \in Windows, v # w, WindowStep(v)
  PROVE  window'[w] = window[w] \/ window'[w] = Outdate[w]
  <1>1. window \in [Windows -> Window]
    BY DEF IInv, SiteTypeOK
  <1> DEFINE One == \/ window'[w] = window[w]
                    \/ window'[w] = Outdate[w]
  <1>2. \A p : Show(v, p) => One
    BY <1>1 DEF Show
  <1>3. \A q, f : SendOn(v, q, f) => One
    BY <1>1 DEF SendOn
  <1>4. \A to : RemoveSession(v, to) => One
    BY DEF RemoveSession, Outdate
  <1>5. ASSUME NEW p \in Addresses, Visit(v, p) \/ VisitFails(v, p)
        PROVE  One
    BY <1>2, <1>3, <1>4, <1>5, AnswerCases DEF Visit, VisitFails
  <1>6. ASSUME NEW p \in Addresses, NEW typed \in BOOLEAN, Begin(v, p, typed)
        PROVE  One
    BY <1>1, <1>6 DEF Begin
  <1>7. ASSUME NEW u \in Users, SignInDefra(v, u) \/ SignInEntra(v, u) \/ SignInFails(v, u)
        PROVE  One
    BY <1>1, <1>7 DEF SignInDefra, SignInEntra, SignInFails, Outdate
  <1>8. NotSignedIn(v) \/ PostLogout(v) \/ Logout(v) => One
    BY <1>1, <1>3 DEF NotSignedIn, PostLogout, Logout, Outdate
  <1>9. Link(v) => One
    <2>1. membership \in Memberships /\ (~SignedIn => ~MayWrite)
      BY SessionFacts DEF IInv, SiteTypeOK
    <2> QED
      BY <1>2, <1>4, <2>1 DEF Link, Outdate
  <1> QED
    BY <1>5, <1>6, <1>7, <1>8, <1>9 DEF WindowStep

(* A step of the window itself.                                            *)
LEMMA EnteredOwn ==
  ASSUME IInv, NEW w \in Windows, window[w].entered, WindowStep(w)
  PROVE  ShownInside(window'[w])
  <1>1. /\ window[w].page = "blank" /\ window[w].to \in Inside
        /\ \A p : Asks(w, p) => p = window[w].to
    BY EnteredFacts
  <1>2. window \in [Windows -> Window]
    BY DEF IInv, SiteTypeOK
  <1>3. ~Logout(w) /\ ~PostLogout(w) /\ ~Link(w) /\ ~NotSignedIn(w)
    BY <1>1 DEF Logout, PostLogout, Link, NotSignedIn, Inside
  <1>4. \A u \in Users : ~SignInDefra(w, u) /\ ~SignInEntra(w, u) /\ ~SignInFails(w, u)
    BY <1>1 DEF SignInDefra, SignInEntra, SignInFails
  <1>5. \A p, typed : ~Begin(w, p, typed)
    BY <1>1 DEF Begin, Inside
  <1>6. ASSUME NEW p \in Addresses, VisitFails(w, p)
        PROVE  ShownInside(window'[w])
    <2>1. window'[w].page = "error"
      BY <1>2, <1>6 DEF VisitFails, Show, Page
    <2> QED
      BY <2>1 DEF ShownInside
  <1> QED
    BY <1>3, <1>4, <1>5, <1>6, EnteredVisit DEF WindowStep

(* Whatever the step, what it shows such a window is inside.               *)
LEMMA EnteredStep ==
  ASSUME IInv, [SiteNext]_siteVars, NEW w \in Windows, window[w].entered, window'[w] # window[w]
  PROVE  ShownInside(window'[w])
  <1>1. CASE window'[w] = Outdate[w]
    BY <1>1, OutdateFacts DEF ShownInside
  <1>2. CASE \E v \in Windows : WindowStep(v)
    BY <1>1, <1>2, EnteredOwn, OtherWindow
  <1>3. CASE Expire \/ Elsewhere
    BY <1>1, <1>3 DEF Expire, Elsewhere
  <1>4. CASE UNCHANGED siteVars
    BY <1>4 DEF siteVars
  <1> QED
    BY <1>2, <1>3, <1>4 DEF SiteNext

(* Where redirects lead, address by address.                               *)
LEMMA RedirectsHold == RedirectsStop
  <1>1. ASSUME NEW p \in Addresses
        PROVE  Answer(Then(Then(Then(p)))) # "redirect"
    <2>1. \A q : q \in {"start", "start?", "organisation", "email-not-recognised",
                        "regulators/home", "login", "regulators/login"}
            => Answer(q) # "redirect" /\ Then(q) = q
      BY DEF Answer, Redirect, Then
    <2>2. Then("/") = "start"
      BY DEF Then, Answer, Redirect, Regulators, Protected
    <2>3. Then("logged-out") = "/" \/ (Then("logged-out") = "logged-out" /\ Answer("logged-out") # "redirect")
      BY DEF Then, Answer, Redirect
    <2>4. \/ Then("regulators/logged-out") = "regulators/home"
          \/ /\ Then("regulators/logged-out") = "regulators/logged-out"
             /\ Answer("regulators/logged-out") # "redirect"
      BY DEF Then, Answer, Redirect
    <2>5. \/ Then("linking") = "email-not-recognised"
          \/ Then("linking") = "linking" /\ Answer("linking") # "redirect"
      BY DEF Then, Answer, Redirect
    <2>6. \/ Then("logout") = "logged-out" /\ ~SignedIn
          \/ Then("logout") = "logout" /\ Answer("logout") # "redirect"
      BY DEF Then, Answer, Redirect, Regulators, Protected
    <2>7. ~SignedIn => Answer("logged-out") # "redirect" /\ Then("logged-out") = "logged-out"
      BY DEF Then, Answer, Redirect
    <2>8. Then("post-logout") \in {"logged-out", "regulators/logged-out"}
      BY DEF Then, Answer, Redirect, Greeting, Regulators, Protected
    <2> QED
      BY <2>1, <2>2, <2>3, <2>4, <2>5, <2>6, <2>7, <2>8 DEF Addresses
  <1> QED
    BY <1>1 DEF RedirectsStop

-----------------------------------------------------------------------------
(* The theorems.                                                           *)

(* Sessions, records and windows are what the handlers take them to be.    *)
THEOREM TypeCorrect == SiteSpec => []SiteTypeOK
  <1>1. IInv => SiteTypeOK
    BY DEF IInv
  <1> QED
    BY <1>1, Invariance, PTL

(* Whoever is signed in, whatever the flag and whatever a cookie says:     *)
(* what the navigation, the start page, the callbacks and the sign-out     *)
(* offer is admitted by the routes.                                        *)
THEOREM WaysAlwaysOpen == SiteSpec => []WaysAreOpen
  <1>1. IInv => WaysAreOpen
    BY DEF IInv, WindowOK, Open, WaysAreOpen
  <1> QED
    BY <1>1, Invariance, PTL

(* A sign-in leads in, whatever sign-ins that were given up have left in   *)
(* the flash.                                                              *)
THEOREM SignInAlwaysLeadsIn == SiteSpec => SignInLeadsIn
  <1>1. IInv /\ [SiteNext]_siteVars =>
          [\A w \in Windows :
             /\ window[w].entered /\ window'[w] # window[w]
             /\ window'[w].to = "nowhere" /\ window'[w].page # "error" /\ window'[w].fresh
             => window'[w].page \in {"organisation", "regulators/home", "linking",
                                     "email-not-recognised", "start?"}]_siteVars
    BY EnteredStep DEF ShownInside
  <1> QED
    BY <1>1, Invariance, PTL DEF SiteSpec, SignInLeadsIn

(* Three redirects end at a page, by whoever is signed in and with         *)
(* whatever cookie.                                                        *)
THEOREM RedirectsAlwaysStop == SiteSpec => []RedirectsStop
  BY RedirectsHold, PTL
=============================================================================
