------------------------------ MODULE Session ------------------------------
(***************************************************************************)
(* The user session of the service: one entry per session id in the Redis  *)
(* cache every instance shares (server.app.cache), the requests that read  *)
(* it when hapi validates their cookie, and the token refresh a request    *)
(* may start, which goes on after the request has been answered.           *)
(*                                                                         *)
(* Every command on the cache and every call to the identity provider or   *)
(* to the backend is an await: a step of one actor ends there, and the     *)
(* steps of the others may come in between.  What an actor read before an  *)
(* await it keeps in its own record (creds, base) and may use afterwards.  *)
(***************************************************************************)
EXTENDS FiniteSets, Naturals

CONSTANTS
  Requests,     \* requests that may be in flight at the same time
  Sids,         \* session ids randomUUID() may return
  Tokens,       \* token sets the providers may issue: bounds the refreshes
  Kinds,        \* what the requests of this instance do, a subset of AllKinds
  Answers,      \* identities the backend's /v1/me may answer
  Stored,       \* sessions an earlier release stored, without a backend token
  Holds,        \* Holds[r]: providers registered on the instance serving r
  MaxFaults,    \* bound on crashes and failed cache commands
  Expiring,     \* TRUE if the cache's time to live may run out
  NoToken, NoSession, NoSid

AllKinds   == {"page", "link", "logout", "callback"}
Providers  == {"defra_id", "entra_id"}
Identities == {"operator", "regulator_standard", "none"}
Ages       == {"unissued", "fresh", "soon", "closing", "expired"}

ASSUME KindsAssumption  == Kinds \subseteq AllKinds
ASSUME AnswersAssumption == Answers \subseteq Identities
ASSUME StoredAssumption == Stored \subseteq Sids
ASSUME HoldsAssumption  == Holds \in [Requests -> SUBSET Providers]
ASSUME BoundsAssumption == MaxFaults \in Nat /\ Expiring \in BOOLEAN
ASSUME NullsAssumption  == NoToken \notin Tokens /\ NoSid \notin Sids

(***************************************************************************)
(* What the cache holds for a session id.  "token" stands for the id,      *)
(* backend and refresh token of one answer of the provider, which the code *)
(* always stores together; "identity" for the role and the scopes of one   *)
(* answer of the backend's /v1/me ("none" is role null); "linked" for      *)
(* linkedOrganisationId being set.                                         *)
(***************************************************************************)
UserSession == [provider: Providers, token: Tokens \cup {NoToken},
                identity: Identities, linked: BOOLEAN, refreshing: BOOLEAN]

ASSUME NoSessionAssumption == NoSession \notin UserSession

VARIABLES
  cache,    \* cache[s]: the session stored under s, or NoSession
  handed,   \* session ids some browser has received in its cookie
  age,      \* age[t]: how near the expiry of t is
  grant,    \* history: the session t was issued for, the identity it was given
  req,      \* req[r]: the request and the credentials hapi gave it
  job,      \* job[r]: the token refresh request r started
  faults    \* crashes and failed cache commands so far

vars == <<cache, handed, age, grant, req, job, faults>>

NoReq == [pc |-> "idle", kind |-> "page", sid |-> NoSid, creds |-> NoSession]
NoJob == [pc |-> "idle", sid |-> NoSid, provider |-> "defra_id",
          token |-> NoToken, base |-> NoSession]

ReqPcs == {"idle", "read", "waiting", "handler", "linked", "refused", "signed_in"}
JobPcs == {"idle", "marked", "posted", "answered", "identifying", "storing", "failed"}

TypeOK ==
  /\ cache \in [Sids -> UserSession \cup {NoSession}]
  /\ handed \subseteq Sids
  /\ age \in [Tokens -> Ages]
  /\ grant \in [Tokens -> [sid: Sids \cup {NoSid},
                           identity: Identities \cup {"unasked"}]]
  /\ req \in [Requests -> [pc: ReqPcs, kind: AllKinds, sid: Sids \cup {NoSid},
                           creds: UserSession \cup {NoSession}]]
  /\ job \in [Requests -> [pc: JobPcs, sid: Sids \cup {NoSid}, provider: Providers,
                           token: Tokens \cup {NoToken},
                           base: UserSession \cup {NoSession}]]
  /\ faults \in Nat

(* A session stored before the identity fields existed.                    *)
LegacySession == [provider |-> "defra_id", token |-> NoToken, identity |-> "none",
                  linked |-> FALSE, refreshing |-> FALSE]

Init ==
  /\ cache  = [s \in Sids |-> IF s \in Stored THEN LegacySession ELSE NoSession]
  /\ handed = Stored
  /\ age    = [t \in Tokens |-> "unissued"]
  /\ grant  = [t \in Tokens |-> [sid |-> NoSid, identity |-> "unasked"]]
  /\ req    = [r \in Requests |-> NoReq]
  /\ job    = [r \in Requests |-> NoJob]
  /\ faults = 0

Idle(r)   == req[r].pc = "idle" /\ job[r].pc = "idle"
Issued(t) == age[t] # "unissued"
Minted(s) == s \in Stored \/ \E t \in Tokens : Issued(t) /\ grant[t].sid = s

(* A session with the token its backend calls present.                     *)
Usable(x) == x # NoSession /\ x.token # NoToken

(* cache.set and cache.drop                                                *)
Put(s, session) == cache' = [cache EXCEPT ![s] = session]
Drop(s)         == cache' = [cache EXCEPT ![s] = NoSession]

(* A crash, or a cache command that fails.                                 *)
Faulty ==
  /\ faults < MaxFaults
  /\ faults' = faults + 1

Issue(t, s, i) ==
  /\ age[t] = "unissued"
  /\ age'   = [age EXCEPT ![t] = "fresh"]
  /\ grant' = [grant EXCEPT ![t] = [sid |-> s, identity |-> i]]

-----------------------------------------------------------------------------
(* Sign in.                                                                *)

(* Slips the properties below must notice: each is the definition that     *)
(* follows it with one mistake.  SignInBeforeIdentity stores the session   *)
(* before the backend has said who the user is; SignInReusing keeps the    *)
(* session id an older cookie came with.                                   *)
SignInBeforeIdentity(r, s, t, p, i) ==
  /\ "callback" \in Kinds /\ Idle(r)
  /\ p \in Holds[r]
  /\ ~Minted(s)
  /\ Issue(t, s, i)
  /\ LET session == [provider |-> p, token |-> t, identity |-> "unasked",
                     linked |-> FALSE, refreshing |-> FALSE]
     IN  /\ Put(s, session)
         /\ req' = [req EXCEPT ![r] = [pc |-> "signed_in", kind |-> "callback",
                                       sid |-> s, creds |-> session]]
  /\ UNCHANGED <<handed, job, faults>>

SignInReusing(r, s, t, p, i) ==
  /\ "callback" \in Kinds /\ Idle(r)
  /\ p \in Holds[r]
  /\ p = "entra_id" => i # "none"
  /\ Issue(t, s, i)
  /\ LET session == [provider |-> p, token |-> t, identity |-> i,
                     linked |-> FALSE, refreshing |-> FALSE]
     IN  /\ Put(s, session)
         /\ req' = [req EXCEPT ![r] = [pc |-> "signed_in", kind |-> "callback",
                                       sid |-> s, creds |-> session]]
  /\ UNCHANGED <<handed, job, faults>>

(* Both callback controllers up to cookieAuth.set: the provider has        *)
(* authenticated the user, the backend says who they are, and the session  *)
(* is stored under a new id.  Only the Entra ID controller refuses an      *)
(* identity without a role; a refusal, like a failed sign-in, changes      *)
(* nothing here.                                                           *)
SignIn(r, s, t, p, i) ==
  /\ "callback" \in Kinds /\ Idle(r)
  /\ p \in Holds[r]
  /\ p = "entra_id" => i # "none"
  /\ ~Minted(s)
  /\ Issue(t, s, i)
  /\ LET session == [provider |-> p, token |-> t, identity |-> i,
                     linked |-> FALSE, refreshing |-> FALSE]
     IN  /\ Put(s, session)
         /\ req' = [req EXCEPT ![r] = [pc |-> "signed_in", kind |-> "callback",
                                       sid |-> s, creds |-> session]]
  /\ UNCHANGED <<handed, job, faults>>

(* The answer carries the new cookie: the user has no linked organisation, *)
(* came through Entra ID, or the calls that follow failed with something   *)
(* other than a 401.                                                       *)
SignedIn(r) ==
  /\ req[r].pc = "signed_in"
  /\ handed' = handed \cup {req[r].sid}
  /\ req' = [req EXCEPT ![r] = NoReq]
  /\ UNCHANGED <<cache, age, grant, job, faults>>

(* The Defra ID controller found the linked organisation: it stores the    *)
(* whole session a second time before it answers.                          *)
SignedInLinked(r) ==
  /\ req[r].pc = "signed_in"
  /\ req[r].creds.provider = "defra_id"
  /\ Put(req[r].sid, [req[r].creds EXCEPT !.linked = TRUE])
  /\ handed' = handed \cup {req[r].sid}
  /\ req' = [req EXCEPT ![r] = NoReq]
  /\ UNCHANGED <<age, grant, job, faults>>

(* The backend answers the Defra ID controller with a 401: catchAll clears *)
(* the cookie and removes the session the request came with, an older one  *)
(* of this browser if it had one.  The session just stored stays behind.   *)
SignInRefused(r) ==
  /\ req[r].pc = "signed_in"
  /\ req[r].creds.provider = "defra_id"
  /\ \/ req' = [req EXCEPT ![r] = NoReq]
     \/ \E s \in handed :
          req' = [req EXCEPT ![r] = [pc |-> "refused", kind |-> "callback",
                                     sid |-> s, creds |-> NoSession]]
  /\ UNCHANGED <<cache, handed, age, grant, job, faults>>

-----------------------------------------------------------------------------
(* Validation of the session cookie.                                       *)

(* getUserSession: the read of the cache every authenticated request       *)
(* starts with.                                                            *)
Arrive(r, s, k) ==
  /\ Idle(r)
  /\ k \in Kinds \ {"callback"}
  /\ s \in handed
  /\ req' = [req EXCEPT ![r] = [pc |-> "read", kind |-> k, sid |-> s,
                                creds |-> cache[s]]]
  /\ UNCHANGED <<cache, handed, age, grant, job, faults>>

(* The request once validate has answered isValid: false.  The logout      *)
(* route tries authentication only, and redirects; every other route fails *)
(* with a 401.                                                             *)
Unauthenticated(q) ==
  IF q.kind = "logout" THEN NoReq
  ELSE [q EXCEPT !.pc = "refused", !.creds = NoSession]

(* The request goes on to its handler with the given credentials.          *)
Authenticated(q, session) == [q EXCEPT !.pc = "handler", !.creds = session]

Refuse(r) ==
  /\ req[r].pc = "read"
  /\ ~Usable(req[r].creds)
  /\ req' = [req EXCEPT ![r] = Unauthenticated(@)]
  /\ UNCHANGED <<cache, handed, age, grant, job, faults>>

(* The session is far from its expiry, or its entry says that a refresh is *)
(* in progress: the request goes on with the session as it was read.       *)
Admit(r) ==
  /\ req[r].pc = "read"
  /\ Usable(req[r].creds)
  /\ age[req[r].creds.token] = "fresh" \/ req[r].creds.refreshing
  /\ req' = [req EXCEPT ![r] = Authenticated(@, req[r].creds)]
  /\ UNCHANGED <<cache, handed, age, grant, job, faults>>

(* The session is near its expiry and not marked: the request marks it and *)
(* starts a refresh.  With more than ten seconds left the refresh runs in  *)
(* the background and the handler has the old session; otherwise the       *)
(* request waits.  The mark is written before validate returns, so before  *)
(* any command of the handler, and it writes back the session as it was    *)
(* read; if the write fails the refresh goes straight to its catch.        *)
StartRefresh(r) ==
  /\ req[r].pc = "read"
  /\ Usable(req[r].creds)
  /\ job[r].pc = "idle"
  /\ age[req[r].creds.token] \in {"soon", "closing", "expired"}
  /\ ~req[r].creds.refreshing
  /\ \E pc \in {"marked", "failed"} :
       /\ job' = [job EXCEPT ![r] = [NoJob EXCEPT !.pc = pc, !.sid = req[r].sid,
                                                  !.provider = req[r].creds.provider]]
       /\ IF pc = "marked"
          THEN Put(req[r].sid, [req[r].creds EXCEPT !.refreshing = TRUE]) /\ UNCHANGED faults
          ELSE Faulty /\ UNCHANGED cache
  /\ req' = [req EXCEPT ![r] = IF age[@.creds.token] = "soon"
                               THEN Authenticated(@, @.creds)
                               ELSE [@ EXCEPT !.pc = "waiting"]]
  /\ UNCHANGED <<handed, age, grant>>

-----------------------------------------------------------------------------
(* The refresh.                                                            *)

JobGoes(r, pc) == job' = [job EXCEPT ![r].pc = pc]

(* Slip: nothing tells the waiting request that the refresh is over.       *)
EndsUnheard(r) ==
  /\ job' = [job EXCEPT ![r] = NoJob]
  /\ UNCHANGED req

(* The refresh ends with null, or with a session: a request that waited    *)
(* for it is refused, or goes on with that session.                        *)
EndsWithNull(r) ==
  /\ job' = [job EXCEPT ![r] = NoJob]
  /\ req' = [req EXCEPT ![r] = IF @.pc = "waiting" THEN Unauthenticated(@) ELSE @]

EndsWithSession(r, session) ==
  /\ job' = [job EXCEPT ![r] = NoJob]
  /\ req' = [req EXCEPT ![r] = IF @.pc = "waiting" THEN Authenticated(@, session)
                               ELSE @]

(* selectAuthProvider, then refreshIdToken up to its call: it reads the    *)
(* refresh token from the cache again.                                     *)
PostRefresh(r) ==
  /\ job[r].pc = "marked"
  /\ JobGoes(r, IF job[r].provider \in Holds[r] /\ Usable(cache[job[r].sid])
                 THEN "posted" ELSE "failed")
  /\ UNCHANGED <<cache, handed, age, grant, req, faults>>

(* The provider's token endpoint: external.                                *)
ProviderIssues(r, t) ==
  /\ job[r].pc = "posted"
  /\ Issue(t, job[r].sid, "unasked")
  /\ job' = [job EXCEPT ![r].pc = "answered", ![r].token = t]
  /\ UNCHANGED <<cache, handed, req, faults>>

(* Slip: a refresh that is rejected is tried again, and again.              *)
RejectsRetrying(r) ==
  /\ job[r].pc = "posted"
  /\ JobGoes(r, "marked")
  /\ UNCHANGED <<cache, handed, age, grant, req, faults>>

(* An error status, an answer the schema rejects, or no answer.            *)
ProviderRejects(r) ==
  /\ job[r].pc = "posted"
  /\ JobGoes(r, "failed")
  /\ UNCHANGED <<cache, handed, age, grant, req, faults>>

(* The session is read once more; if it is gone the refresh stops here.    *)
ReadLatest(r) ==
  /\ job[r].pc = "answered"
  /\ \/ /\ cache[job[r].sid] = NoSession
        /\ EndsWithNull(r)
     \/ /\ cache[job[r].sid] # NoSession
        /\ job' = [job EXCEPT ![r].pc = "identifying",
                              ![r].base = cache[job[r].sid]]
        /\ UNCHANGED req
  /\ UNCHANGED <<cache, handed, age, grant, faults>>

(* Slip: the refresh goes on without a role.                               *)
IdentifyAnyone(r, i) ==
  /\ job[r].pc = "identifying"
  /\ grant' = [grant EXCEPT ![job[r].token].identity = i]
  /\ JobGoes(r, "storing")
  /\ UNCHANGED <<cache, handed, age, req, faults>>

(* updateUserSession up to its write: the backend says who the identity is *)
(* now.  Without a role the session ends.                                  *)
Identify(r, i) ==
  /\ job[r].pc = "identifying"
  /\ grant' = [grant EXCEPT ![job[r].token].identity = i]
  /\ JobGoes(r, IF i = "none" THEN "failed" ELSE "storing")
  /\ UNCHANGED <<cache, handed, age, req, faults>>

(* The token does not verify, or the backend does not answer.              *)
IdentifyFails(r) ==
  /\ job[r].pc = "identifying"
  /\ JobGoes(r, "failed")
  /\ UNCHANGED <<cache, handed, age, grant, req, faults>>

(* Slips: the new token with the role and scopes of the old one; a session *)
(* that stays marked.                                                      *)
StoreOldIdentity(r) ==
  /\ job[r].pc = "storing"
  /\ LET session == [job[r].base EXCEPT !.token = job[r].token, !.refreshing = FALSE]
     IN  Put(job[r].sid, session) /\ EndsWithSession(r, session)
  /\ UNCHANGED <<handed, age, grant, faults>>

StoreMarked(r) ==
  /\ job[r].pc = "storing"
  /\ LET t       == job[r].token
         session == [job[r].base EXCEPT !.token = t, !.identity = grant[t].identity]
     IN  Put(job[r].sid, session) /\ EndsWithSession(r, session)
  /\ UNCHANGED <<handed, age, grant, faults>>


StoreRefreshed(r) ==
  /\ job[r].pc = "storing"
  /\ LET t       == job[r].token
         session == [job[r].base EXCEPT !.token = t, !.identity = grant[t].identity,
                                        !.refreshing = FALSE]
     IN  Put(job[r].sid, session) /\ EndsWithSession(r, session)
  /\ UNCHANGED <<handed, age, grant, faults>>

(* Slip: the session outlives the failed refresh.                          *)
FailKeepingSession(r) ==
  /\ job[r].pc = "failed"
  /\ EndsWithNull(r)
  /\ UNCHANGED <<cache, handed, age, grant, faults>>

(* removeUserSession after a failure or a withdrawn role.  The cookie of a *)
(* background refresh stays: its answer may have left long ago.            *)
EndSession(r) ==
  /\ job[r].pc = "failed"
  /\ Drop(job[r].sid)
  /\ EndsWithNull(r)
  /\ UNCHANGED <<handed, age, grant, faults>>

-----------------------------------------------------------------------------
(* The handlers.                                                           *)

(* blockUnauthorisedWrites lets a linking request through only with the    *)
(* write scope, which the backend gives to operators.                      *)
MayCallBackend(q) ==
  /\ q.pc = "handler"
  /\ q.kind = "page" \/ (q.kind = "link" /\ q.creds.identity = "operator")

(* The request is answered without a change to the session: the backend    *)
(* served the page, the write guard refused the request, or the call       *)
(* failed with something other than a 401.                                 *)
Answer(r) ==
  /\ req[r].pc = "handler"
  /\ req[r].kind \in {"page", "link"}
  /\ req' = [req EXCEPT ![r] = NoReq]
  /\ UNCHANGED <<cache, handed, age, grant, job, faults>>

(* The backend refuses an expired token with a 401.                        *)
BackendRefuses(r) ==
  /\ MayCallBackend(req[r])
  /\ age[req[r].creds.token] = "expired"
  /\ req' = [req EXCEPT ![r].pc = "refused"]
  /\ UNCHANGED <<cache, handed, age, grant, job, faults>>

(* POST /account/linking: the backend links the organisation ...           *)
LinkOrganisation(r) ==
  /\ MayCallBackend(req[r])
  /\ req[r].kind = "link"
  /\ age[req[r].creds.token] # "expired"
  /\ req' = [req EXCEPT ![r].pc = "linked"]
  /\ UNCHANGED <<cache, handed, age, grant, job, faults>>

(* ... and the credentials of the request, with the organisation added,    *)
(* replace the whole session.                                              *)
StoreLinked(r) ==
  /\ req[r].pc = "linked"
  /\ Put(req[r].sid, [req[r].creds EXCEPT !.linked = TRUE])
  /\ req' = [req EXCEPT ![r] = NoReq]
  /\ UNCHANGED <<handed, age, grant, job, faults>>

(* Slip: only the cookie goes.                                             *)
RemoveCookieOnly(r) ==
  /\ \/ req[r].pc = "handler" /\ req[r].kind = "logout"
     \/ req[r].pc = "refused"
  /\ req' = [req EXCEPT ![r] = NoReq]
  /\ UNCHANGED <<cache, handed, age, grant, job, faults>>

(* removeUserSession by the logout controller, and by catchAll on any 401. *)
RemoveSession(r) ==
  /\ \/ req[r].pc = "handler" /\ req[r].kind = "logout"
     \/ req[r].pc = "refused"
  /\ Drop(req[r].sid)
  /\ req' = [req EXCEPT ![r] = NoReq]
  /\ UNCHANGED <<handed, age, grant, job, faults>>

-----------------------------------------------------------------------------
(* Time and faults.                                                        *)

(* fresh: more than five minutes left; soon: ten seconds to five minutes;  *)
(* closing: less than ten seconds; expired: the backend refuses it.        *)
Older == [fresh |-> "soon", soon |-> "closing", closing |-> "expired"]

Tick(t) ==
  /\ age[t] \in DOMAIN Older
  /\ age' = [age EXCEPT ![t] = Older[@]]
  /\ UNCHANGED <<cache, handed, grant, req, job, faults>>

(* The time to live of the cache entry runs out.                           *)
Evict(s) ==
  /\ Expiring
  /\ cache[s] # NoSession
  /\ Drop(s)
  /\ UNCHANGED <<handed, age, grant, req, job, faults>>

(* The instance dies with the request and its refresh.                     *)
Crash(r) ==
  /\ ~Idle(r)
  /\ Faulty
  /\ req' = [req EXCEPT ![r] = NoReq]
  /\ job' = [job EXCEPT ![r] = NoJob]
  /\ UNCHANGED <<cache, handed, age, grant>>

(* The cache command of a handler or of catchAll fails: the request is     *)
(* answered with an error page and changes nothing.                        *)
RequestFails(r) ==
  /\ req[r].pc \in {"linked", "refused"} \/ (req[r].pc = "handler" /\ req[r].kind = "logout")
  /\ Faulty
  /\ req' = [req EXCEPT ![r] = NoReq]
  /\ UNCHANGED <<cache, handed, age, grant, job>>

(* A cache command of the refresh fails: the catch goes on to remove the   *)
(* session.                                                                *)
RefreshFails(r) ==
  /\ job[r].pc \in {"marked", "answered", "storing"}
  /\ Faulty
  /\ JobGoes(r, "failed")
  /\ UNCHANGED <<cache, handed, age, grant, req>>

(* Removing the session fails too, in the catch itself: the refresh ends   *)
(* with a rejection, and a request that waited for it with an error page.  *)
RemovalFails(r) ==
  /\ job[r].pc = "failed"
  /\ Faulty
  /\ job' = [job EXCEPT ![r] = NoJob]
  /\ req' = [req EXCEPT ![r] = IF @.pc = "waiting" THEN NoReq ELSE @]
  /\ UNCHANGED <<cache, handed, age, grant>>

Fault(r) == Crash(r) \/ RequestFails(r) \/ RefreshFails(r) \/ RemovalFails(r)

-----------------------------------------------------------------------------
RequestStep(r) ==
  \/ SignedIn(r) \/ SignedInLinked(r) \/ SignInRefused(r)
  \/ Refuse(r) \/ Admit(r) \/ StartRefresh(r)
  \/ Answer(r) \/ BackendRefuses(r)
  \/ LinkOrganisation(r) \/ StoreLinked(r) \/ RemoveSession(r)

RefreshStep(r) ==
  \/ PostRefresh(r)
  \/ \E t \in Tokens : ProviderIssues(r, t)
  \/ ProviderRejects(r)
  \/ ReadLatest(r)
  \/ \E i \in Answers : Identify(r, i)
  \/ IdentifyFails(r) \/ StoreRefreshed(r) \/ EndSession(r)

Next ==
  \/ \E r \in Requests, s \in Sids, t \in Tokens, p \in Providers, i \in Answers :
        SignIn(r, s, t, p, i)
  \/ \E r \in Requests, s \in Sids, k \in AllKinds : Arrive(r, s, k)
  \/ \E r \in Requests : RequestStep(r) \/ RefreshStep(r) \/ Fault(r)
  \/ \E t \in Tokens : Tick(t)
  \/ \E s \in Sids : Evict(s)

Spec == Init /\ [][Next]_vars

(* The event loop runs every continuation, and every call to a provider or *)
(* to the backend is answered or fails in the end (the HTTP client gives   *)
(* up after its own time limit).  New requests, time and faults are not    *)
(* fair.                                                                   *)
Fairness == \A r \in Requests : WF_vars(RequestStep(r)) /\ WF_vars(RefreshStep(r))

FairSpec == Spec /\ Fairness

(* The backend can be reached again and again.                             *)
ReachableSpec == FairSpec /\ \A r \in Requests : SF_vars(BackendRefuses(r))

-----------------------------------------------------------------------------
(* Properties.                                                             *)

(* Every session and every copy of one that a request or a refresh holds   *)
(* pairs a token with the identity the backend gave that very token, and   *)
(* the token was issued for that session id: no interleaving of refreshes, *)
(* linking requests and logouts joins the permissions of one answer to the *)
(* token of another (user-session.js builds the session from both).        *)
Consistent(x, s) ==
  Usable(x)
    => Issued(x.token) /\ grant[x.token] = [sid |-> s, identity |-> x.identity]

PermissionsMatchToken ==
  /\ \A s \in Sids : Consistent(cache[s], s)
  /\ \A r \in Requests : /\ Consistent(req[r].creds, req[r].sid)
                         /\ Consistent(job[r].base, job[r].sid)

(* Whoever holds a copy of a live session, or refreshes one, may write it. *)
Touching(s) ==
  \E r \in Requests : \/ req[r].sid = s /\ req[r].creds # NoSession
                      \/ job[r].sid = s

Ended(s)   == Minted(s) /\ cache[s] = NoSession
Settled(s) == Ended(s) /\ ~Touching(s)

(* Once a session has ended and the requests and refreshes that had read   *)
(* it are over, nothing brings it back: later requests with its cookie     *)
(* find no session (removeUserSession, validate).                          *)
EndedForGood == [][\A s \in Sids : Settled(s) => Settled(s)']_vars

(* The session store implements the abstract life of a session.            *)
Lifecycle == INSTANCE SessionLifecycle WITH
  phase <- [s \in Sids |-> CASE ~Minted(s)                      -> "unused"
                             [] Minted(s) /\ cache[s] # NoSession -> "live"
                             [] Ended(s) /\ Touching(s)           -> "ended"
                             [] OTHER                             -> "closed"]

ImplementsLifecycle == Lifecycle!Spec

(* A regulator's session never holds an identity without a role, at        *)
(* sign-in or after any refresh (callback controller, updateUserSession).  *)
RegulatorsRecognised ==
  \A s \in Sids : cache[s] # NoSession /\ cache[s].provider = "entra_id"
                    => cache[s].identity # "none"

(* user-session.js marks a session "to flag that an id token refresh is in *)
(* progress": while the mark stands, some refresh of that session is, if   *)
(* no instance has crashed and no cache command failed.                    *)
MarkMeansRefreshing ==
  \A s \in Sids : faults = 0 /\ cache[s] # NoSession /\ cache[s].refreshing
                    => \E r \in Requests : job[r].sid = s

(* session-cookie.js: a refresh exits "if session was deleted while        *)
(* refresh was in progress".  So the end of a refresh never puts a session *)
(* back that is gone.                                                      *)
RefreshRespectsLogout ==
  [][\A r \in Requests :
       job[r].pc # "idle" /\ job'[r].pc = "idle" /\ cache[job[r].sid] = NoSession
         => cache'[job[r].sid] = NoSession]_vars

(* roles.js: an identity without a role "gets no session cookie".          *)
NoRoleNoCookie ==
  \A s \in handed : cache[s] # NoSession /\ cache[s].token # NoToken
                      => cache[s].identity # "none"

(* A session does not stay on an expired token for ever while requests go  *)
(* to the backend with it: it ends or gets another token, even if its mark *)
(* was left behind and nobody refreshes it (catchAll on the backend's 401). *)
PresentsExpired(s, t) ==
  \E r \in Requests : /\ MayCallBackend(req[r]) /\ req[r].sid = s
                      /\ req[r].creds.token = t /\ age[t] = "expired"

ExpiredSessionsHeal ==
  \A s \in Sids, t \in Tokens :
    []<>PresentsExpired(s, t) => []<>(cache[s] = NoSession \/ cache[s].token # t)

(* The mark of a refresh goes away: the refresh that set it unmarks the    *)
(* session or ends it, unless it is struck by a fault.                     *)
MarkIsCleared ==
  \A s \in Sids :
    (cache[s] # NoSession /\ cache[s].refreshing /\ faults = 0)
      ~> (cache[s] = NoSession \/ ~cache[s].refreshing \/ faults > 0)

(* Every request is answered, those that wait for a refresh included, and  *)
(* every refresh ends.                                                     *)
EveryRequestEnds == \A r \in Requests : (~Idle(r)) ~> Idle(r)

(* A request that is held back has a refresh of its own session under way: *)
(* no way out of the refresh, failures of its cache commands included,     *)
(* leaves the request hanging (createBlockingRefresh).                     *)
NobodyWaitsInVain ==
  \A r \in Requests :
    req[r].pc = "waiting" => job[r].pc # "idle" /\ job[r].sid = req[r].sid

(* The number of steps a request and the refresh it started may still take.*)
RequestSteps == [idle |-> 0, refused |-> 1, linked |-> 1, signed_in |-> 2,
                 handler |-> 2, waiting |-> 3, read |-> 10]
RefreshSteps == [idle |-> 0, failed |-> 1, storing |-> 2, identifying |-> 3,
                 answered |-> 4, posted |-> 5, marked |-> 6]
StepsLeft(r) == RequestSteps[req[r].pc] + RefreshSteps[job[r].pc]

(* Whatever the other requests do to the session meanwhile, a request and  *)
(* its refresh are over after ten steps of their own: nothing is tried     *)
(* again, and no step of another request sets them back (validate,         *)
(* refreshIdTokenAndUpdateSession).                                        *)
EndsDrawNearer ==
  [][\A r \in Requests :
       ~Idle(r) => \/ req'[r] = req[r] /\ job'[r] = job[r]
                   \/ StepsLeft(r)' < StepsLeft(r)]_vars

=============================================================================
