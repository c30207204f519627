---------------------------- MODULE SignInPages ----------------------------
(***************************************************************************)
(* The way into the service and out of it: the start page, the two ways to *)
(* sign in, their callbacks, account linking, signing out and the pages    *)
(* that greet whoever comes back.  One browser, several windows.  What the *)
(* handlers know is the user session, the pages recorded when a sign-in    *)
(* begins (the flash "referrer") and the cookie signedOutProvider.         *)
(*                                                                         *)
(* A page is the links it was made with, a redirect the address the        *)
(* browser is sent to; both stay as they are when the session changes in   *)
(* another window.  How a session is stored and refreshed is Session.      *)
(***************************************************************************)
EXTENDS Naturals, Sequences, UserScopes

CONSTANTS
  Windows,       \* windows of the browser
  MaxReferrers   \* bound on the sign-ins begun and given up

VARIABLES
  access,      \* featureFlags.regulatorAccess of the deployment
  membership,  \* what the backend knows of the operator's organisation
  session,     \* who is signed in, and whether linkedOrganisationId is set
  referrers,   \* the flash "referrer" of the yar session, oldest first
  cookie,      \* the cookie signedOutProvider names Entra ID
  window       \* window[w]: page, links, redirect and history of a window

siteVars == <<access, membership, session, referrers, cookie, window>>

Memberships == {"none", "unlinked", "linked"}
NoSession   == [user |-> Nobody, linked |-> FALSE]

(* Addresses of the service; "start?" is the start page followed from a    *)
(* link with a query.                                                      *)
Addresses == {"/", "start", "start?", "login", "regulators/login", "linking",
  "email-not-recognised", "organisation", "regulators/home", "logout",
  "post-logout", "logged-out", "regulators/logged-out"}

(* What a window may show besides: the pages of the providers, and what is *)
(* answered without an address of its own.                                 *)
Shows == (Addresses \ {"/", "login", "regulators/login", "logout", "post-logout"})
  \cup {"blank", "at defra-id", "at entra-id", "signing out", "not-authorised",
        "no-permission", "not-found", "error"}

(* "fresh": the links, or the redirect, were made on the way of links from *)
(* what they depend on as it still is; "entered": the window has just      *)
(* signed in and has not been shown a page.                                *)
Window == [page: Shows, links: SUBSET Addresses, to: Addresses \cup {"nowhere"},
           fresh: BOOLEAN, entered: BOOLEAN]

SiteTypeOK ==
  /\ access \in BOOLEAN /\ cookie \in BOOLEAN
  /\ membership \in Memberships
  /\ session \in [user: Users \cup {Nobody}, linked: BOOLEAN]
  /\ referrers \in Seq(Addresses)
  /\ window \in [Windows -> Window]

BlankWindow == [page |-> "blank", links |-> {}, to |-> "nowhere", fresh |-> FALSE,
                entered |-> FALSE]

(* A cookie may be left from before a deployment that turned the flag off. *)
SiteInit ==
  /\ access \in BOOLEAN /\ cookie \in BOOLEAN
  /\ membership \in Memberships
  /\ session = NoSession
  /\ referrers = <<>>
  /\ window = [w \in Windows |-> BlankWindow]

-----------------------------------------------------------------------------
(* What a handler reads of the session.                                    *)

SignedIn     == session.user # Nobody
Holds(scope) == scope \in session.user.scopes
IsRegulator  == session.user.role = "regulator_standard"
MayWrite     == HasWriteScope(session.user)

(* /v1/me/organisations.                                                   *)
UserOrganisations == IF MayWrite THEN membership ELSE "none"

(* The shell every page has: the navigation and the name of the service.   *)
Navigation ==
  (IF SignedIn THEN {"logout"} ELSE {})
    \cup (IF IsRegulator THEN {"regulators/home"} ELSE {})
    \cup (IF session.linked THEN {"organisation"} ELSE {})

Shell == Navigation \cup {IF IsRegulator THEN "regulators/home" ELSE "start"}

StartNow ==
  CASE ~SignedIn                -> "login"
    [] UserOrganisations = "linked" -> "organisation"
    [] OTHER                    -> "linking"

LinksOf(page) ==
  CASE page \in {"start", "start?"}    -> Shell \cup {StartNow}
    [] page = "logged-out"             -> Shell \cup {"login"}
    [] page = "regulators/logged-out"  -> {"regulators/home", "regulators/login"}
    [] page = "error"                  -> Shell \cup {"/"}
    [] OTHER                           -> Shell

-----------------------------------------------------------------------------
(* Whom the routes admit, and where the handlers send the browser on.      *)

Regulators == {"regulators/login", "regulators/home", "regulators/logged-out"}
Protected  == {"linking", "organisation", "regulators/home"}

(* Slips: the cookie is believed without looking at the flag; the root     *)
(* greets whoever signed out.                                              *)
GreetingByCookie == IF cookie THEN "regulators/logged-out" ELSE "logged-out"

Greeting == IF access /\ cookie THEN "regulators/logged-out" ELSE "logged-out"

RedirectGreeting(p) ==
  CASE p = "/" -> "logged-out"
    [] p = "logged-out" /\ SignedIn -> "/"
    [] OTHER -> "nowhere"

Redirect(p) ==
  CASE p = "/"                                        -> "start"
    [] p = "logged-out" /\ SignedIn                   -> "/"
    [] p = "regulators/logged-out" /\ SignedIn        -> "regulators/home"
    [] p = "linking" /\ UserOrganisations # "unlinked"    -> "email-not-recognised"
    [] p = "logout" /\ ~SignedIn                      -> "logged-out"
    [] p = "post-logout"                              -> Greeting
    [] OTHER                                          -> "nowhere"

Answer(p) ==
  IF p \in Regulators /\ ~access                               THEN "not-found"
  ELSE IF p \in Protected /\ ~SignedIn                         THEN "unauthorised"
  ELSE IF p = "regulators/home" /\ ~Holds("organisation.search") THEN "forbidden"
  ELSE IF p = "organisation" /\ ~IsRegulator /\ UserOrganisations # "linked" THEN "forbidden"
  ELSE IF Redirect(p) # "nowhere"                              THEN "redirect"
  ELSE "shown"

(* A window is shown a page, or sent on; a change of what pages are made    *)
(* from outdates the windows.  Of their links those that begin a sign-in    *)
(* are kept: the others can be typed as well, and nothing is said of them. *)
SignInLinks == {"login", "regulators/login"}

Outdate == [w \in Windows |->
  [window[w] EXCEPT !.links = @ \cap SignInLinks, !.fresh = FALSE, !.entered = FALSE]]

Page(p) == [page |-> p, links |-> LinksOf(p), to |-> "nowhere", fresh |-> TRUE,
            entered |-> FALSE]
Sent(p, entered) == [BlankWindow EXCEPT !.to = p, !.fresh = TRUE, !.entered = entered]

Show(w, p)   == window' = [window EXCEPT ![w] = Page(p)]
SendOn(w, p, followed) ==
  window' = [window EXCEPT ![w] = [Sent(p, @.entered) EXCEPT !.fresh = followed]]

(* The operator follows a link or types an address, the browser a redirect.*)
Asks(w, p) ==
  \/ window[w].to = p
  \/ window[w].to = "nowhere" /\ p \in Addresses

Followed(w, p) == window[w].fresh /\ p \in window[w].links \cup {window[w].to}

(* removeUserSession: the session, its cookie and the yar session are gone.*)
RemoveSession(w, to) ==
  /\ session' = NoSession
  /\ referrers' = <<>>
  /\ window' = [Outdate EXCEPT ![w] = Sent(to, FALSE)]

-----------------------------------------------------------------------------
(* GET of a page, as the route and the handler answer it.                  *)
Visit(w, p) ==
  /\ p \notin {"login", "regulators/login", "logout", "post-logout"}
  /\ Asks(w, p)
  /\ \/ /\ Answer(p) = "unauthorised"
        /\ RemoveSession(w, "logged-out")
     \/ /\ Answer(p) # "unauthorised"
        /\ CASE Answer(p) = "shown"     -> Show(w, p)
             [] Answer(p) = "redirect"  -> SendOn(w, Redirect(p), Followed(w, p))
             [] Answer(p) = "not-found" -> Show(w, "not-found")
             [] Answer(p) = "forbidden" -> Show(w, "no-permission")
        /\ UNCHANGED <<session, referrers>>
  /\ UNCHANGED <<access, membership, cookie>>

(* The handlers that ask the backend, when it fails.                       *)
VisitFails(w, p) ==
  /\ p \in Protected \cup {"start", "start?"} /\ SignedIn /\ Answer(p) \in {"shown", "redirect"}
  /\ Asks(w, p)
  /\ Show(w, "error")
  /\ UNCHANGED <<access, membership, session, referrers, cookie>>

(* A sign-in begins, by a link of the page or by a typed address; the page *)
(* it was begun on is recorded, behind the pages recorded before.          *)
Begin(w, p, typed) ==
  /\ p \in {"login", "regulators/login"} /\ Answer(p) # "not-found"
  /\ window[w].to = "nowhere" /\ (typed \/ p \in window[w].links)
  /\ referrers' = IF typed THEN referrers ELSE Append(referrers, window[w].page)
  /\ Len(referrers') <= MaxReferrers
  /\ window' = [window EXCEPT ![w] =
       [BlankWindow EXCEPT !.page = IF p = "login" THEN "at defra-id" ELSE "at entra-id"]]
  /\ UNCHANGED <<access, membership, session, cookie>>

(* A slip: whoever signs in from a greeting is sent back to it.            *)
SkipStart == {"start"}

SkipReferrers == {"start", "logged-out", "regulators/logged-out"}

(* flash empties the entry, whatever it returns.                           *)
Landing(default) ==
  IF referrers # <<>> /\ Head(referrers) \notin SkipReferrers
  THEN Head(referrers) ELSE default

(* What a callback makes of a user: the session, and the flash, which is   *)
(* kept for one without an organisation.                                   *)
SessionOf(u) ==
  [user |-> u,
   linked |-> HasWriteScope(u) /\ membership = "linked"]

Consumed(u) ==
  IF u.provider = "defra-id" /\ ~SessionOf(u).linked THEN referrers ELSE <<>>

(* The callback of a sign-in that succeeded: who it is, the session, then  *)
(* the organisation of an operator.  An unlinked one is sent to the        *)
(* linking page; a regulator the backend does not know gets no session.    *)
SignInDefra(w, u) ==
  /\ window[w].page = "at defra-id" /\ u.provider = "defra-id"
  /\ session' = SessionOf(u)
  /\ referrers' = Consumed(u)
  /\ window' = [Outdate EXCEPT ![w] =
       Sent(IF SessionOf(u).linked THEN Landing("organisation") ELSE "linking", TRUE)]
  /\ UNCHANGED <<access, membership, cookie>>

SignInEntra(w, u) ==
  /\ window[w].page = "at entra-id" /\ u.provider = "entra-id"
  /\ \/ /\ u.role # "none"
        /\ session' = SessionOf(u)
        /\ referrers' = Consumed(u)
        /\ window' = [Outdate EXCEPT ![w] = Sent(Landing("regulators/home"), TRUE)]
     \/ /\ u.role = "none"
        /\ window' = [window EXCEPT ![w] = [BlankWindow EXCEPT
             !.page = "not-authorised", !.links = {"start"}, !.fresh = TRUE]]
        /\ UNCHANGED <<session, referrers>>
  /\ UNCHANGED <<access, membership, cookie>>

(* The backend fails in a callback: before the session is made, or after,  *)
(* when the organisation of an operator is asked for or joined.  The page  *)
(* is made for a request that no session authenticated.                    *)
SignInFails(w, u) ==
  /\ window[w].page = IF u.provider = "defra-id" THEN "at defra-id" ELSE "at entra-id"
  /\ LET failed == [BlankWindow EXCEPT !.page = "error", !.links = {"start", "/"}, !.fresh = TRUE] IN
     \/ window' = [window EXCEPT ![w] = failed] /\ UNCHANGED session
     \/ /\ u.provider = "defra-id"
        /\ session' = [user |-> u, linked |-> FALSE]
        /\ window' = [Outdate EXCEPT ![w] = failed]
  /\ UNCHANGED <<access, membership, referrers, cookie>>

(* The user gives up at the provider, or it reports an error.              *)
NotSignedIn(w) ==
  /\ window[w].page \in {"at defra-id", "at entra-id"}
  /\ referrers' = <<>>
  /\ window' = [window EXCEPT ![w] = Sent(Landing("/"), FALSE)]
  /\ UNCHANGED <<access, membership, session, cookie>>

(* POST /account/linking: the write guard, then the backend, then the      *)
(* session is stored with the organisation.                                *)
Link(w) ==
  /\ window[w].page = "linking"
  /\ CASE ~SignedIn -> RemoveSession(w, "logged-out") /\ UNCHANGED membership
       [] SignedIn /\ ~MayWrite ->
            Show(w, "no-permission") /\ UNCHANGED <<membership, session, referrers>>
       [] MayWrite /\ membership # "unlinked" ->
            Show(w, "error") /\ UNCHANGED <<membership, session, referrers>>
       [] MayWrite /\ membership = "unlinked" ->
            /\ membership' = "linked"
            /\ session' = [session EXCEPT !.linked = TRUE]
            /\ window' = [Outdate EXCEPT ![w] = Sent("organisation", FALSE)]
            /\ UNCHANGED referrers
  /\ UNCHANGED <<access, cookie>>

(* GET /logout: the cookie is set for a regulator only, and the provider   *)
(* signs the user out before it sends them back.                           *)
Logout(w) ==
  /\ Asks(w, "logout")
  /\ IF SignedIn
     THEN /\ session' = NoSession /\ referrers' = <<>>
          /\ cookie' = (cookie \/ session.user.provider = "entra-id")
          /\ window' = [Outdate EXCEPT ![w] = [BlankWindow EXCEPT !.page = "signing out", !.fresh = TRUE]]
     ELSE SendOn(w, Redirect("logout"), Followed(w, "logout")) /\ UNCHANGED <<session, referrers, cookie>>
  /\ UNCHANGED <<access, membership>>

PostLogout(w) ==
  /\ window[w].page = "signing out" \/ window[w].to = "post-logout"
  /\ SendOn(w, Redirect("post-logout"), window[w].page = "signing out" /\ window[w].fresh)
  /\ cookie' = FALSE
  /\ UNCHANGED <<access, membership, session, referrers>>

(* Sessions and cookies expire; the backend learns of an organisation.     *)
Expire ==
  /\ \/ /\ SignedIn /\ session' = NoSession /\ window' = Outdate
        /\ UNCHANGED <<membership, cookie>>
     \/ /\ cookie /\ cookie' = FALSE
        /\ UNCHANGED <<membership, session, window>>
     \/ /\ membership = "none" /\ membership' = "unlinked" /\ window' = Outdate
        /\ UNCHANGED <<session, cookie>>
  /\ UNCHANGED <<access, referrers>>

(* Further windows of the browser sign in and out, begin sign-ins, give    *)
(* them up and come back: what they do to the session, the flash and the   *)
(* cookie all windows share.                                               *)
Elsewhere ==
  /\ \/ \E u \in Users :
          /\ u.provider = "entra-id" => access /\ u.role # "none"
          /\ session' = SessionOf(u) /\ referrers' = Consumed(u)
          /\ window' = Outdate /\ UNCHANGED cookie
     \/ /\ SignedIn /\ session' = NoSession /\ referrers' = <<>>
        /\ cookie' = (cookie \/ session.user.provider = "entra-id")
        /\ window' = Outdate
     \/ \E p \in SkipReferrers \cup {"start?"} :
          /\ p = "regulators/logged-out" => access
          /\ Len(referrers) < MaxReferrers /\ referrers' = Append(referrers, p)
          /\ UNCHANGED <<session, cookie, window>>
     \/ referrers' = <<>> /\ UNCHANGED <<session, cookie, window>>
     \/ cookie' = FALSE /\ UNCHANGED <<session, referrers, window>>
  /\ UNCHANGED <<access, membership>>

WindowStep(w) ==
  \/ \E p \in Addresses : Visit(w, p) \/ VisitFails(w, p)
       \/ \E typed \in BOOLEAN : Begin(w, p, typed)
  \/ \E u \in Users : SignInDefra(w, u) \/ SignInEntra(w, u) \/ SignInFails(w, u)
  \/ NotSignedIn(w) \/ Link(w) \/ Logout(w) \/ PostLogout(w)

SiteNext == (\E w \in Windows : WindowStep(w)) \/ Expire \/ Elsewhere

SiteSpec == SiteInit /\ [][SiteNext]_siteVars

-----------------------------------------------------------------------------
(* What must hold.                                                         *)

(* No link and no redirect leads to an address that does not exist or that *)
(* refuses the user, nor tells a user who has an organisation that their   *)
(* e-mail address is not recognised, unless the session or the             *)
(* organisation has changed since: navigation, start page, callbacks,      *)
(* sign-out and the routes, which decide from role, scopes, flag, cookie   *)
(* and backend each on their own, agree.                                   *)
WaysAreOpen ==
  \A w \in Windows : window[w].fresh =>
    \A p \in window[w].links \cup ({window[w].to} \ {"nowhere"}) :
      /\ Answer(p) \notin {"not-found", "forbidden"}
      /\ ~(p = "linking" /\ UserOrganisations = "linked")

(* Who signs in is shown a page behind the sign-in, whatever pages earlier *)
(* sign-ins that were given up have left in the flash, and not the page    *)
(* they signed in from; only a start page with a query is returned to.     *)
SignInLeadsIn ==
  [][\A w \in Windows :
       /\ window[w].entered /\ window'[w] # window[w]
       /\ window'[w].to = "nowhere" /\ window'[w].page # "error" /\ window'[w].fresh
       => window'[w].page \in {"organisation", "regulators/home", "linking",
                               "email-not-recognised", "start?"}]_siteVars

(* No browser is sent round in circles: from whatever address, by whoever  *)
(* is signed in, with whatever cookie, three redirects suffice to end at   *)
(* an answer that is none.  Root, greetings, sign-out and linking redirect *)
(* to one another from conditions each has written down for itself.        *)
Then(p) == IF Answer(p) = "redirect" THEN Redirect(p) ELSE p

RedirectsStop == \A p \in Addresses : Answer(Then(Then(Then(p)))) # "redirect"
=============================================================================
