--------------------------- MODULE SessionProofs ---------------------------
(***************************************************************************)
(* Theorems about Session, for any number of requests, session ids, tokens *)
(* and faults.                                                             *)
(***************************************************************************)
EXTENDS Session, TLAPS

Request == [pc: ReqPcs, kind: AllKinds, sid: Sids \cup {NoSid},
            creds: UserSession \cup {NoSession}]
Job == [pc: JobPcs, sid: Sids \cup {NoSid}, provider: Providers,
        token: Tokens \cup {NoToken}, base: UserSession \cup {NoSession}]

(* A free request slot is well typed.                                      *)
LEMMA NoReqType == NoReq \in Request
  BY DEF NoReq, Request, ReqPcs, AllKinds

(* A free refresh slot is well typed.                                      *)
LEMMA NoJobType == NoJob \in Job
  BY DEF NoJob, Job, JobPcs, Providers

(* The state is well typed.                                                *)
LEMMA TypeInit == Init => TypeOK
  <1> SUFFICES ASSUME Init PROVE TypeOK
    OBVIOUS
  <1>1. LegacySession \in UserSession
    BY DEF LegacySession, UserSession, Providers, Identities
  <1>2. cache \in [Sids -> UserSession \cup {NoSession}]
    BY <1>1 DEF Init
  <1>3. handed \subseteq Sids
    BY StoredAssumption DEF Init
  <1>4. age \in [Tokens -> Ages]
    BY DEF Init, Ages
  <1>5. grant \in [Tokens -> [sid: Sids \cup {NoSid},
                              identity: Identities \cup {"unasked"}]]
    BY DEF Init
  <1>6. req \in [Requests -> Request]
    BY NoReqType DEF Init
  <1>7. job \in [Requests -> Job]
    BY NoJobType DEF Init
  <1> QED
    BY <1>2, <1>3, <1>4, <1>5, <1>6, <1>7 DEF TypeOK, Request, Job, Init

(* TypeOK is not inductive alone: a step that stores the credentials of a  *)
(* request, or the session a refresh read, needs to know that there is one. *)
ReqOK(q) ==
  /\ q \in Request
  /\ q.pc # "idle" => q.sid \in Sids
  /\ q.pc \in {"waiting", "handler", "linked", "signed_in"}
       => q.creds \in UserSession /\ q.creds.token \in Tokens

JobOK(j) ==
  /\ j \in Job
  /\ j.pc # "idle" => j.sid \in Sids
  /\ j.pc \in {"answered", "identifying", "storing"} => j.token \in Tokens
  /\ j.pc \in {"identifying", "storing"} => j.base \in UserSession

Grants == [Tokens -> [sid: Sids \cup {NoSid}, identity: Identities \cup {"unasked"}]]

TypeInv ==
  /\ TypeOK
  /\ \A r \in Requests : ReqOK(req[r]) /\ JobOK(job[r])

(* TypeInv from its parts, one per variable.                               *)
LEMMA TypeInvMembers ==
  ASSUME cache \in [Sids -> UserSession \cup {NoSession}],
         handed \subseteq Sids, age \in [Tokens -> Ages], grant \in Grants,
         req \in [Requests -> Request], job \in [Requests -> Job], faults \in Nat,
         \A r \in Requests : ReqOK(req[r]) /\ JobOK(job[r])
  PROVE  TypeInv
  BY DEF TypeInv, TypeOK, Grants, Request, Job

(* Free slots satisfy the strengthened types.                              *)
LEMMA NoReqOK == ReqOK(NoReq) /\ JobOK(NoJob)
  BY NoReqType, NoJobType DEF ReqOK, JobOK, NoReq, NoJob

(* A refused request is well typed (validate answers isValid: false).      *)
LEMMA UnauthenticatedOK ==
  ASSUME NEW q, ReqOK(q), q.pc # "idle"
  PROVE  ReqOK(Unauthenticated(q))
  <1>1. CASE q.kind = "logout"
    BY <1>1, NoReqOK DEF Unauthenticated
  <1>2. CASE q.kind # "logout"
    <2> DEFINE n == [q EXCEPT !.pc = "refused", !.creds = NoSession]
    <2>1. n \in Request /\ n.pc = "refused" /\ n.sid = q.sid
      BY DEF ReqOK, Request, ReqPcs
    <2> QED
      BY <2>1, <1>2 DEF Unauthenticated, ReqOK
  <1> QED
    BY <1>1, <1>2

(* A request that goes on with a session is well typed.                    *)
LEMMA AuthenticatedOK ==
  ASSUME NEW q, ReqOK(q), q.pc # "idle",
         NEW x \in UserSession, x.token \in Tokens
  PROVE  ReqOK(Authenticated(q, x))
  <1> DEFINE n == [q EXCEPT !.pc = "handler", !.creds = x]
  <1>1. n \in Request /\ n.pc = "handler" /\ n.sid = q.sid /\ n.creds = x
    BY DEF ReqOK, Request, ReqPcs
  <1> QED
    BY <1>1 DEF Authenticated, ReqOK

(* A request that only moves to another point of its handling.             *)
LEMMA MovedOK ==
  ASSUME NEW q, ReqOK(q), q.pc \in {"waiting", "handler", "linked", "signed_in"},
         NEW pc \in ReqPcs
  PROVE  ReqOK([q EXCEPT !.pc = pc])
  <1> DEFINE n == [q EXCEPT !.pc = pc]
  <1>1. n \in Request /\ n.pc = pc /\ n.sid = q.sid /\ n.creds = q.creds
    BY DEF ReqOK, Request
  <1> QED
    BY <1>1 DEF ReqOK

(* A usable session has a token the provider issued.                       *)
LEMMA UsableType ==
  ASSUME NEW x \in UserSession \cup {NoSession}, Usable(x)
  PROVE  x \in UserSession /\ x.token \in Tokens
  BY DEF Usable, UserSession

(* A provider that issues a token keeps age and grant well typed.          *)
LEMMA IssueType ==
  ASSUME age \in [Tokens -> Ages], grant \in Grants, NEW t \in Tokens, NEW s \in Sids,
         NEW i \in Identities \cup {"unasked"}, Issue(t, s, i)
  PROVE  age' \in [Tokens -> Ages] /\ grant' \in Grants
  BY DEF Issue, Ages, Grants

(* The callback controllers keep the types.                                *)
LEMMA TypeSignIn ==
  ASSUME TypeInv, NEW r \in Requests, NEW s \in Sids, NEW t \in Tokens,
         NEW p \in Providers, NEW i \in Identities, SignIn(r, s, t, p, i)
  PROVE  TypeInv'
  <1> DEFINE session == [provider |-> p, token |-> t, identity |-> i,
                         linked |-> FALSE, refreshing |-> FALSE]
             new == [pc |-> "signed_in", kind |-> "callback", sid |-> s,
                     creds |-> session]
  <1>1. session \in UserSession /\ session.token \in Tokens
    BY DEF UserSession
  <1>2. ReqOK(new) /\ new \in Request
    BY <1>1 DEF ReqOK, Request, ReqPcs, AllKinds
  <1>3. cache' = [cache EXCEPT ![s] = session] /\ req' = [req EXCEPT ![r] = new]
    BY DEF SignIn, Put
  <1>4. req' \in [Requests -> Request] /\ \A q \in Requests : ReqOK(req'[q])
    BY <1>2, <1>3 DEF TypeInv, TypeOK, Request
  <1>5. cache' \in [Sids -> UserSession \cup {NoSession}]
    BY <1>1, <1>3 DEF TypeInv, TypeOK
  <1>6. age' \in [Tokens -> Ages] /\ grant' \in Grants
    BY IssueType DEF SignIn, TypeInv, TypeOK, Grants
  <1>7. UNCHANGED <<handed, job, faults>>
    BY DEF SignIn
  <1> QED
    BY <1>4, <1>5, <1>6, <1>7 DEF TypeInv, TypeOK, Request, Job, Grants, ReqOK, JobOK

(* The read of the cache for a new request keeps the types.                *)
LEMMA TypeArrive ==
  ASSUME TypeInv, NEW r \in Requests, NEW s \in Sids, NEW k \in AllKinds,
         Arrive(r, s, k)
  PROVE  TypeInv'
  <1> DEFINE new == [pc |-> "read", kind |-> k, sid |-> s, creds |-> cache[s]]
  <1>1. ReqOK(new) /\ new \in Request
    BY DEF Request, ReqPcs, ReqOK, TypeInv, TypeOK
  <1>2. req' = [req EXCEPT ![r] = new]
    BY DEF Arrive
  <1>3. req' \in [Requests -> Request] /\ \A q \in Requests : ReqOK(req'[q])
    BY <1>1, <1>2 DEF TypeInv, TypeOK, Request
  <1> QED
    BY <1>3 DEF TypeInv, TypeOK, Request, Arrive, JobOK, Job

(* Every other step replaces the record of one request, of one refresh, or *)
(* both, by well-typed ones.                                               *)
LEMMA TypeUpdate ==
  ASSUME TypeInv, NEW r \in Requests,
         NEW q, ReqOK(q), req' = [req EXCEPT ![r] = q],
         NEW j, JobOK(j), job' = [job EXCEPT ![r] = j],
         cache' \in [Sids -> UserSession \cup {NoSession}],
         handed' \subseteq Sids, age' \in [Tokens -> Ages], grant' \in Grants,
         faults' \in Nat
  PROVE  TypeInv'
  <1>1. req' \in [Requests -> Request] /\ \A x \in Requests : ReqOK(req'[x])
    BY DEF TypeInv, TypeOK, Request, ReqOK
  <1>2. job' \in [Requests -> Job] /\ \A x \in Requests : JobOK(job'[x])
    BY DEF TypeInv, TypeOK, Job, JobOK
  <1> QED
    BY <1>1, <1>2 DEF TypeInv, TypeOK, Request, Job, Grants, ReqOK, JobOK

(* What TypeInv says of each variable.                                     *)
LEMMA TypeUnpack ==
  ASSUME TypeInv
  PROVE  /\ cache \in [Sids -> UserSession \cup {NoSession}]
         /\ handed \subseteq Sids /\ age \in [Tokens -> Ages] /\ grant \in Grants
         /\ req \in [Requests -> Request] /\ job \in [Requests -> Job]
         /\ faults \in Nat
         /\ \A r \in Requests : ReqOK(req[r]) /\ JobOK(job[r])
  BY DEF TypeInv, TypeOK, Request, Job, Grants

(* A slot that does not move is replaced by itself.                        *)
LEMMA SameReq ==
  ASSUME TypeInv, NEW r \in Requests
  PROVE  req = [req EXCEPT ![r] = req[r]] /\ job = [job EXCEPT ![r] = job[r]]
  BY TypeUnpack

(* A write of a session, or a drop, keeps the cache well typed.            *)
LEMMA PutType ==
  ASSUME TypeInv, NEW s, NEW x \in UserSession \cup {NoSession}, Put(s, x) \/ Drop(s)
  PROVE  cache' \in [Sids -> UserSession \cup {NoSession}]
  BY TypeUnpack DEF Put, Drop

(* Adding the linked organisation keeps a session well typed.              *)
LEMMA WithLinked ==
  ASSUME NEW x \in UserSession
  PROVE  [x EXCEPT !.linked = TRUE] \in UserSession
  BY DEF UserSession

(* Marking a session keeps it well typed.                                  *)
LEMMA WithMark ==
  ASSUME NEW x \in UserSession
  PROVE  [x EXCEPT !.refreshing = TRUE] \in UserSession
  BY DEF UserSession

(* Every step of a request keeps the types.                                *)
LEMMA TypeRequestStep ==
  ASSUME TypeInv, NEW r \in Requests, RequestStep(r)
  PROVE  TypeInv'
  <1> USE TypeUnpack, NoReqOK, SameReq
  <1>1. ReqOK(req[r]) /\ JobOK(job[r])
    OBVIOUS
  <1>2. CASE SignedIn(r)
    <2>1. handed' \subseteq Sids
      BY <1>1, <1>2 DEF SignedIn, ReqOK
    <2> QED
      BY <2>1, <1>1, <1>2, TypeUpdate DEF SignedIn
  <1>3. CASE SignedInLinked(r)
    <2>1. handed' \subseteq Sids
      BY <1>1, <1>3 DEF SignedInLinked, ReqOK
    <2>2. cache' \in [Sids -> UserSession \cup {NoSession}]
      BY <1>1, <1>3, WithLinked, PutType DEF SignedInLinked, ReqOK
    <2> QED
      BY <2>1, <2>2, <1>1, <1>3, TypeUpdate DEF SignedInLinked
  <1>4. CASE SignInRefused(r)
    <2>1. CASE req' = [req EXCEPT ![r] = NoReq]
      BY <2>1, <1>1, <1>4, TypeUpdate DEF SignInRefused
    <2>2. ASSUME NEW s \in handed,
                 req' = [req EXCEPT ![r] = [pc |-> "refused", kind |-> "callback",
                                            sid |-> s, creds |-> NoSession]]
          PROVE  TypeInv'
      <3> DEFINE q == [pc |-> "refused", kind |-> "callback", sid |-> s,
                       creds |-> NoSession]
      <3>1. ReqOK(q)
        BY DEF ReqOK, Request, ReqPcs, AllKinds
      <3> HIDE DEF q
      <3> QED
        BY <3>1, <2>2, <1>1, <1>4, TypeUpdate DEF SignInRefused, q
    <2> QED
      BY <2>1, <2>2, <1>4 DEF SignInRefused
  <1>5. CASE Refuse(r)
    <2>1. ReqOK(Unauthenticated(req[r]))
      BY <1>1, <1>5, UnauthenticatedOK DEF Refuse
    <2> QED
      BY <2>1, <1>1, <1>5, TypeUpdate DEF Refuse
  <1>6. CASE Admit(r)
    <2>1. req[r].creds \in UserSession /\ req[r].creds.token \in Tokens
      BY <1>1, <1>6, UsableType DEF Admit, ReqOK, Request
    <2>2. ReqOK(Authenticated(req[r], req[r].creds))
      BY <2>1, <1>1, <1>6, AuthenticatedOK DEF Admit
    <2> QED
      BY <2>2, <1>1, <1>6, TypeUpdate DEF Admit
  <1>7. CASE StartRefresh(r)
    <2> DEFINE q == IF age[req[r].creds.token] = "soon"
                    THEN Authenticated(req[r], req[r].creds)
                    ELSE [req[r] EXCEPT !.pc = "waiting"]
    <2>0. PICK pc \in {"marked", "failed"} :
            /\ job' = [job EXCEPT ![r] = [NoJob EXCEPT !.pc = pc, !.sid = req[r].sid,
                                                       !.provider = req[r].creds.provider]]
            /\ IF pc = "marked"
               THEN Put(req[r].sid, [req[r].creds EXCEPT !.refreshing = TRUE]) /\ UNCHANGED faults
               ELSE Faulty /\ UNCHANGED cache
      BY <1>7 DEF StartRefresh
    <2> DEFINE j == [NoJob EXCEPT !.pc = pc, !.sid = req[r].sid,
                                  !.provider = req[r].creds.provider]
    <2>1. req[r].creds \in UserSession /\ req[r].creds.token \in Tokens
      BY <1>1, <1>7, UsableType DEF StartRefresh, ReqOK, Request
    <2>2. ReqOK([req[r] EXCEPT !.pc = "waiting"])
      <3> DEFINE n == [req[r] EXCEPT !.pc = "waiting"]
      <3>1. n \in Request /\ n.sid = req[r].sid /\ n.creds = req[r].creds
        BY <1>1 DEF ReqOK, Request, ReqPcs
      <3> QED
        BY <3>1, <2>1, <1>1, <1>7 DEF ReqOK, StartRefresh
    <2>3. ReqOK(q)
      BY <2>1, <2>2, <1>1, <1>7, AuthenticatedOK DEF StartRefresh
    <2>4. JobOK(j)
      BY <2>1, <1>1, <1>7
         DEF StartRefresh, ReqOK, JobOK, Job, JobPcs, NoJob, UserSession, Providers
    <2>5. cache' \in [Sids -> UserSession \cup {NoSession}]
      BY <2>0, <2>1, WithMark, PutType
    <2>6. req' = [req EXCEPT ![r] = q] /\ job' = [job EXCEPT ![r] = j]
      BY <1>7, <2>0 DEF StartRefresh
    <2>7. UNCHANGED <<handed, age, grant>> /\ faults' \in Nat
      BY <1>7, <2>0 DEF StartRefresh, Faulty
    <2> HIDE DEF q, j
    <2> QED
      BY <2>3, <2>4, <2>5, <2>6, <2>7, TypeUpdate
  <1>8. CASE Answer(r)
    BY <1>1, <1>8, TypeUpdate DEF Answer
  <1>9. CASE BackendRefuses(r)
    <2>1. ReqOK([req[r] EXCEPT !.pc = "refused"])
      BY <1>1, <1>9, MovedOK DEF BackendRefuses, MayCallBackend, ReqPcs
    <2>2. req' = [req EXCEPT ![r] = [req[r] EXCEPT !.pc = "refused"]]
      BY <1>9 DEF BackendRefuses
    <2> QED
      BY <2>1, <2>2, <1>1, <1>9, TypeUpdate DEF BackendRefuses
  <1>10. CASE LinkOrganisation(r)
    <2>1. ReqOK([req[r] EXCEPT !.pc = "linked"])
      BY <1>1, <1>10, MovedOK DEF LinkOrganisation, MayCallBackend, ReqPcs
    <2>2. req' = [req EXCEPT ![r] = [req[r] EXCEPT !.pc = "linked"]]
      BY <1>10 DEF LinkOrganisation
    <2> QED
      BY <2>1, <2>2, <1>1, <1>10, TypeUpdate DEF LinkOrganisation
  <1>11. CASE StoreLinked(r)
    <2>1. cache' \in [Sids -> UserSession \cup {NoSession}]
      BY <1>1, <1>11, WithLinked, PutType DEF StoreLinked, ReqOK
    <2> QED
      BY <2>1, <1>1, <1>11, TypeUpdate DEF StoreLinked
  <1>12. CASE RemoveSession(r)
    <2>1. cache' \in [Sids -> UserSession \cup {NoSession}]
      BY <1>12, PutType DEF RemoveSession
    <2> QED
      BY <2>1, <1>1, <1>12, TypeUpdate DEF RemoveSession
  <1> QED
    BY <1>2, <1>3, <1>4, <1>5, <1>6, <1>7, <1>8, <1>9, <1>10, <1>11, <1>12
       DEF RequestStep

(* A refresh that only moves to another point.                             *)
LEMMA JobMovedOK ==
  ASSUME NEW j, JobOK(j), j.pc # "idle", NEW pc \in {"posted", "failed"}
  PROVE  JobOK([j EXCEPT !.pc = pc])
  <1> DEFINE n == [j EXCEPT !.pc = pc]
  <1>1. n \in Job /\ n.pc = pc /\ n.sid = j.sid
    BY DEF JobOK, Job, JobPcs
  <1> QED
    BY <1>1 DEF JobOK

(* JobGoes as the replacement of one record.                               *)
LEMMA JobGoesSplit ==
  ASSUME NEW r, NEW pc, JobGoes(r, pc)
  PROVE  job' = [job EXCEPT ![r] = [job[r] EXCEPT !.pc = pc]]
  BY DEF JobGoes

(* A refresh that ends without a session keeps the types.                  *)
LEMMA TypeEndsWithNull ==
  ASSUME TypeInv, NEW r \in Requests, EndsWithNull(r), NEW s,
         UNCHANGED cache \/ Drop(s), UNCHANGED <<handed, age, grant, faults>>
  PROVE  TypeInv'
  <1> DEFINE q == IF req[r].pc = "waiting" THEN Unauthenticated(req[r]) ELSE req[r]
  <1>1. ReqOK(req[r])
    BY TypeUnpack
  <1>2. ReqOK(q)
    BY <1>1, UnauthenticatedOK
  <1>3. req' = [req EXCEPT ![r] = q] /\ job' = [job EXCEPT ![r] = NoJob]
    BY DEF EndsWithNull
  <1>4. cache' \in [Sids -> UserSession \cup {NoSession}]
    BY TypeUnpack, PutType
  <1> HIDE DEF q
  <1> QED
    BY <1>2, <1>3, <1>4, NoReqOK, TypeUpdate, TypeUnpack

(* Tokens and the refreshes that hold them: each has its own, issued for    *)
(* the session it refreshes, and knows whether the backend was asked who it *)
(* belongs to.                                                             *)
Holding == {"answered", "identifying", "storing"}

HeldOK(j, g, a) ==
  j.pc \in Holding =>
    /\ a[j.token] # "unissued"
    /\ g[j.token].sid = j.sid
    /\ j.pc = "storing" => g[j.token].identity \in Identities \ {"none"}
    /\ j.pc # "storing" => g[j.token].identity = "unasked"

TokensHeld ==
  /\ \A r \in Requests : HeldOK(job[r], grant, age)
  /\ \A r, q \in Requests :
       r # q /\ job[r].pc \in Holding /\ job[q].pc \in Holding
         => job[r].token # job[q].token

(* The session updateUserSession stores, field by field.                   *)
LEMMA RefreshedType ==
  ASSUME TypeInv, TokensHeld, NEW r \in Requests, job[r].pc = "storing",
         NEW session,
         session = [job[r].base EXCEPT !.token = job[r].token,
                                       !.identity = grant[job[r].token].identity,
                                       !.refreshing = FALSE]
  PROVE  /\ session \in UserSession
         /\ session.token = job[r].token /\ session.token \in Tokens
         /\ session.identity = grant[job[r].token].identity
         /\ session.provider = job[r].base.provider
         /\ session.refreshing = FALSE
  <1>1. job[r].base \in UserSession /\ job[r].token \in Tokens
    BY TypeUnpack DEF JobOK
  <1>2. grant[job[r].token].identity \in Identities
    BY DEF TokensHeld, HeldOK, Holding
  <1> QED
    BY <1>1, <1>2 DEF UserSession

(* Every step of a refresh keeps the types.                                *)
LEMMA TypeRefreshStep ==
  ASSUME TypeInv, TokensHeld, NEW r \in Requests, RefreshStep(r)
  PROVE  TypeInv'
  <1> USE TypeUnpack, SameReq
  <1>1. ReqOK(req[r]) /\ JobOK(job[r])
    OBVIOUS
  <1>2. CASE PostRefresh(r)
    <2>1. PICK pc \in {"posted", "failed"} : JobGoes(r, pc)
      BY <1>2 DEF PostRefresh
    <2>2. JobOK([job[r] EXCEPT !.pc = pc])
      BY <1>1, <1>2, JobMovedOK DEF PostRefresh
    <2> QED
      BY <2>1, <2>2, <1>1, <1>2, JobGoesSplit, TypeUpdate DEF PostRefresh
  <1>3. ASSUME NEW t \in Tokens, ProviderIssues(r, t)
        PROVE  TypeInv'
    <2> DEFINE j == [job[r] EXCEPT !.pc = "answered", !.token = t]
    <2>1. JobOK(j)
      BY <1>1, <1>3 DEF ProviderIssues, JobOK, Job, JobPcs
    <2>2. job' = [job EXCEPT ![r] = j]
      BY <1>3 DEF ProviderIssues
    <2>3. age' \in [Tokens -> Ages] /\ grant' \in Grants
      BY <1>1, <1>3, IssueType DEF ProviderIssues, JobOK
    <2>4. UNCHANGED <<cache, handed, req, faults>>
      BY <1>3 DEF ProviderIssues
    <2> HIDE DEF j
    <2> QED
      BY <2>1, <2>2, <2>3, <2>4, <1>1, TypeUpdate
  <1>4. CASE ProviderRejects(r)
    <2>1. JobOK([job[r] EXCEPT !.pc = "failed"])
      BY <1>1, <1>4, JobMovedOK DEF ProviderRejects
    <2> QED
      BY <2>1, <1>1, <1>4, JobGoesSplit, TypeUpdate DEF ProviderRejects
  <1>5. CASE ReadLatest(r)
    <2>1. CASE EndsWithNull(r)
      BY <2>1, <1>5, TypeEndsWithNull DEF ReadLatest
    <2>2. CASE ~EndsWithNull(r)
      <3> DEFINE j == [job[r] EXCEPT !.pc = "identifying", !.base = cache[job[r].sid]]
      <3>1. /\ cache[job[r].sid] # NoSession /\ job' = [job EXCEPT ![r] = j]
            /\ UNCHANGED <<cache, handed, age, grant, faults, req>>
        BY <2>2, <1>5 DEF ReadLatest
      <3>2. JobOK(j)
        BY <3>1, <1>1, <1>5 DEF ReadLatest, JobOK, Job, JobPcs
      <3> HIDE DEF j
      <3> QED
        BY <3>1, <3>2, <1>1, TypeUpdate
    <2> QED
      BY <2>1, <2>2
  <1>6. ASSUME NEW i \in Identities, Identify(r, i)
        PROVE  TypeInv'
    <2> DEFINE pc == IF i = "none" THEN "failed" ELSE "storing"
               j == [job[r] EXCEPT !.pc = pc]
    <2>1. JobOK(j)
      <3>1. j \in Job /\ j.pc = pc /\ j.sid = job[r].sid /\ j.token = job[r].token
            /\ j.base = job[r].base
        BY <1>1 DEF JobOK, Job, JobPcs
      <3> QED
        BY <3>1, <1>1, <1>6 DEF Identify, JobOK
    <2>2. job' = [job EXCEPT ![r] = j]
      BY <1>6 DEF Identify, JobGoes
    <2>3. grant' \in Grants
      <3> DEFINE u == job[r].token
                 g == [grant[u] EXCEPT !.identity = i]
      <3>1. u \in Tokens
        BY <1>1, <1>6 DEF Identify, JobOK
      <3>2. g \in [sid: Sids \cup {NoSid}, identity: Identities \cup {"unasked"}]
        BY <3>1 DEF Grants
      <3>3. grant' = [grant EXCEPT ![u] = g]
        BY <1>6 DEF Identify
      <3> HIDE DEF u, g
      <3> QED
        BY <3>2, <3>3 DEF Grants
    <2>4. UNCHANGED <<cache, handed, age, req, faults>>
      BY <1>6 DEF Identify
    <2> HIDE DEF j
    <2> QED
      BY <2>1, <2>2, <2>3, <2>4, <1>1, TypeUpdate
  <1>7. CASE IdentifyFails(r)
    <2>1. JobOK([job[r] EXCEPT !.pc = "failed"])
      BY <1>1, <1>7, JobMovedOK DEF IdentifyFails
    <2> QED
      BY <2>1, <1>1, <1>7, JobGoesSplit, TypeUpdate DEF IdentifyFails
  <1>8. CASE StoreRefreshed(r)
    <2> DEFINE session == [job[r].base EXCEPT !.token = job[r].token,
                                              !.identity = grant[job[r].token].identity,
                                              !.refreshing = FALSE]
               q == IF req[r].pc = "waiting" THEN Authenticated(req[r], session)
                    ELSE req[r]
    <2>1. session \in UserSession /\ session.token \in Tokens
      BY <1>8, RefreshedType DEF StoreRefreshed
    <2>2. /\ cache' = [cache EXCEPT ![job[r].sid] = session]
          /\ req' = [req EXCEPT ![r] = q] /\ job' = [job EXCEPT ![r] = NoJob]
          /\ UNCHANGED <<handed, age, grant, faults>>
      BY <1>8 DEF StoreRefreshed, Put, EndsWithSession
    <2> HIDE DEF session
    <2>3. ReqOK(q)
      BY <2>1, <1>1, AuthenticatedOK
    <2> HIDE DEF q
    <2> QED
      BY <2>1, <2>2, <2>3, NoReqOK, TypeUpdate
  <1>9. CASE EndSession(r)
    BY <1>9, TypeEndsWithNull DEF EndSession
  <1> QED
    BY <1>2, <1>3, <1>4, <1>5, <1>6, <1>7, <1>8, <1>9, AnswersAssumption
       DEF RefreshStep

(* A crash or a failed cache command keeps the types.                      *)
LEMMA TypeFault ==
  ASSUME TypeInv, NEW r \in Requests, Fault(r)
  PROVE  TypeInv'
  <1> USE TypeUnpack, SameReq, NoReqOK
  <1>1. faults' \in Nat /\ UNCHANGED <<cache, handed, age, grant>>
    BY DEF Fault, Crash, RequestFails, RefreshFails, RemovalFails, Faulty
  <1>2. ReqOK(req[r]) /\ JobOK(job[r])
    OBVIOUS
  <1>3. CASE RefreshFails(r)
    <2>1. JobOK([job[r] EXCEPT !.pc = "failed"])
      BY <1>2, <1>3, JobMovedOK DEF RefreshFails
    <2> QED
      BY <2>1, <1>1, <1>2, <1>3, JobGoesSplit, TypeUpdate DEF RefreshFails
  <1>4. CASE Crash(r) \/ RequestFails(r) \/ RemovalFails(r)
    <2>1. PICK q, j : /\ q \in {req[r], NoReq} /\ j \in {job[r], NoJob}
                      /\ req' = [req EXCEPT ![r] = q] /\ job' = [job EXCEPT ![r] = j]
      BY <1>4 DEF Crash, RequestFails, RemovalFails
    <2> QED
      BY <2>1, <1>1, <1>2, TypeUpdate
  <1> QED
    BY <1>3, <1>4 DEF Fault

(* Time keeps the types.                                                   *)
LEMMA TypeTick ==
  ASSUME TypeInv, NEW t \in Tokens, Tick(t)
  PROVE  TypeInv'
  <1>1. Older[age[t]] \in Ages
    BY DEF Tick, Older, Ages
  <1>2. age' \in [Tokens -> Ages]
    BY <1>1, TypeUnpack DEF Tick
  <1> QED
    BY <1>2 DEF Tick, TypeInv, TypeOK, ReqOK, JobOK, Request, Job

(* The end of a cache entry's time to live keeps the types.                *)
LEMMA TypeEvict ==
  ASSUME TypeInv, NEW s \in Sids, Evict(s)
  PROVE  TypeInv'
  <1>1. cache' \in [Sids -> UserSession \cup {NoSession}]
    BY PutType DEF Evict
  <1> QED
    BY <1>1 DEF Evict, TypeInv, TypeOK, ReqOK, JobOK, Request, Job

(* Every step keeps the types, once the tokens of refreshes are known to   *)
(* have been asked about.                                                  *)
LEMMA TypeNext ==
  ASSUME TypeInv, TokensHeld, [Next]_vars
  PROVE  TypeInv'
  <1>1. CASE UNCHANGED vars
    BY <1>1 DEF vars, TypeInv, TypeOK, ReqOK, JobOK, Request, Job
  <1>2. CASE Next
    BY <1>2, TypeSignIn, TypeArrive, TypeRequestStep, TypeRefreshStep, TypeFault,
       TypeTick, TypeEvict, AnswersAssumption DEF Next
  <1> QED
    BY <1>1, <1>2

-----------------------------------------------------------------------------
(* The inductive invariant behind PermissionsMatchToken and                *)
(* RegulatorsRecognised.  Besides what they say it has to know about the   *)
(* tokens of refreshes that nothing stores yet (TokensHeld), and that a    *)
(* waiting request waits for the refresh of its own session.               *)
Recognised(x) == x # NoSession /\ x.provider = "entra_id" => x.identity # "none"

Fits(x, s, g, a) ==
  /\ Usable(x) => /\ a[x.token] # "unissued"
                  /\ g[x.token] = [sid |-> s, identity |-> x.identity]
  /\ Recognised(x)

ReqFits(q, g, a) == Fits(q.creds, q.sid, g, a)
JobFits(j, g, a) == Fits(j.base, j.sid, g, a)

WaitsForOwn(q, j) == q.pc = "waiting" => j.pc # "idle" /\ j.sid = q.sid

GrantInv ==
  /\ TypeInv
  /\ TokensHeld
  /\ \A s \in Sids : Fits(cache[s], s, grant, age)
  /\ \A r \in Requests : ReqFits(req[r], grant, age) /\ JobFits(job[r], grant, age)
  /\ \A r \in Requests : WaitsForOwn(req[r], job[r])

(* No step forgets that a token was issued, nor what the backend answered  *)
(* for it.                                                                 *)
Remembers ==
  \A u \in Tokens : Issued(u) /\ grant[u].identity # "unasked"
                     => Issued(u)' /\ grant'[u] = grant[u]

(* What fitted the grants before such a step fits them after it.           *)
LEMMA FitsKept ==
  ASSUME Remembers, NEW x \in UserSession \cup {NoSession}, NEW s,
         Fits(x, s, grant, age)
  PROVE  Fits(x, s, grant', age')
  <1>1. CASE ~Usable(x)
    BY <1>1 DEF Fits
  <1>2. CASE Usable(x)
    <2>1. x.token \in Tokens /\ x.identity # "unasked"
      BY <1>2, UsableType DEF UserSession, Identities
    <2>2. age[x.token] # "unissued"
          /\ grant[x.token] = [sid |-> s, identity |-> x.identity]
      BY <1>2 DEF Fits
    <2> QED
      BY <2>1, <2>2 DEF Remembers, Issued, Fits
  <1> QED
    BY <1>1, <1>2

(* Where there is no session there is nothing to fit.                      *)
LEMMA NothingFits == \A s, g, a : Fits(NoSession, s, g, a)
  BY DEF Fits, Usable, Recognised

(* Tokens held by refreshes stay so when one refresh moves and no other    *)
(* refresh's token is touched.                                             *)
LEMMA HeldKept ==
  ASSUME TypeInv, TokensHeld, NEW r \in Requests, NEW j, JobOK(j),
         job' = [job EXCEPT ![r] = j], HeldOK(j, grant', age'),
         \A q \in Requests \ {r} : job[q].pc \in Holding =>
           /\ age'[job[q].token] # "unissued"
           /\ grant'[job[q].token] = grant[job[q].token]
           /\ j.pc \in Holding => j.token # job[q].token
  PROVE  TokensHeld'
  <1>1. job'[r] = j /\ \A q \in Requests \ {r} : job'[q] = job[q]
    BY TypeUnpack
  <1>2. \A q \in Requests : HeldOK(job'[q], grant', age')
    BY <1>1 DEF TokensHeld, HeldOK
  <1>3. ASSUME NEW p \in Requests, NEW q \in Requests, p # q,
               job'[p].pc \in Holding, job'[q].pc \in Holding
        PROVE  job'[p].token # job'[q].token
    BY <1>1, <1>3 DEF TokensHeld
  <1> QED
    BY <1>2, <1>3 DEF TokensHeld

(* One actor moves, and writes at most one entry of the cache: the         *)
(* invariant is kept if what it writes fits.                               *)
LEMMA GrantStep ==
  ASSUME GrantInv, TypeInv', TokensHeld', Remembers, NEW r \in Requests,
         NEW q, req' = [req EXCEPT ![r] = q], ReqFits(q, grant', age'),
         NEW j, job' = [job EXCEPT ![r] = j], JobFits(j, grant', age'),
         WaitsForOwn(q, j),
         NEW s, NEW x, cache' = cache \/ cache' = [cache EXCEPT ![s] = x],
         Fits(x, s, grant', age')
  PROVE  GrantInv'
  <1> USE TypeUnpack DEF GrantInv
  <1>1. \A u \in Sids : Fits(cache'[u], u, grant', age')
    <2> SUFFICES ASSUME NEW u \in Sids PROVE Fits(cache'[u], u, grant', age')
      OBVIOUS
    <2>1. Fits(cache[u], u, grant', age')
      BY FitsKept
    <2>2. cache'[u] = cache[u] \/ (u = s /\ cache'[u] = x)
      OBVIOUS
    <2> QED
      BY <2>1, <2>2
  <1>2. ASSUME NEW p \in Requests
        PROVE  /\ ReqFits(req'[p], grant', age') /\ JobFits(job'[p], grant', age')
               /\ WaitsForOwn(req'[p], job'[p])
    <2>1. CASE p = r
      BY <2>1
    <2>2. CASE p # r
      <3>1. req'[p] = req[p] /\ job'[p] = job[p]
        BY <2>2
      <3>2. req[p].creds \in UserSession \cup {NoSession}
            /\ job[p].base \in UserSession \cup {NoSession}
        BY DEF Request, Job
      <3>3. ReqFits(req[p], grant, age) /\ JobFits(job[p], grant, age)
            /\ WaitsForOwn(req[p], job[p])
        OBVIOUS
      <3> QED
        BY <3>1, <3>2, <3>3, FitsKept DEF ReqFits, JobFits
    <2> QED
      BY <2>1, <2>2
  <1> QED
    BY <1>1, <1>2

(* The same for a step that leaves the grants alone.                       *)
LEMMA QuietStep ==
  ASSUME GrantInv, TypeInv', UNCHANGED <<grant, age>>, NEW r \in Requests,
         NEW q, req' = [req EXCEPT ![r] = q], ReqFits(q, grant, age),
         NEW j, job' = [job EXCEPT ![r] = j], JobFits(j, grant, age),
         JobOK(j), HeldOK(j, grant, age),
         j.pc \in Holding => job[r].pc \in Holding /\ j.token = job[r].token,
         WaitsForOwn(q, j),
         NEW s, NEW x, cache' = cache \/ cache' = [cache EXCEPT ![s] = x],
         Fits(x, s, grant, age)
  PROVE  GrantInv'
  <1>1. Remembers
    BY DEF Remembers, Issued
  <1>2. TokensHeld'
    <2>1. \A p \in Requests \ {r} : job[p].pc \in Holding =>
             /\ age'[job[p].token] # "unissued"
             /\ grant'[job[p].token] = grant[job[p].token]
             /\ j.pc \in Holding => j.token # job[p].token
      BY DEF GrantInv, TokensHeld, HeldOK
    <2> QED
      BY <2>1, HeldKept DEF GrantInv
  <1> QED
    BY <1>1, <1>2, GrantStep

(* What the invariant says of one request.                                 *)
LEMMA GrantUnpack ==
  ASSUME GrantInv, NEW r \in Requests
  PROVE  /\ TypeInv /\ ReqOK(req[r]) /\ JobOK(job[r])
         /\ ReqFits(req[r], grant, age) /\ JobFits(job[r], grant, age)
         /\ HeldOK(job[r], grant, age) /\ WaitsForOwn(req[r], job[r])
         /\ req = [req EXCEPT ![r] = req[r]] /\ job = [job EXCEPT ![r] = job[r]]
  BY TypeUnpack, SameReq DEF GrantInv, TokensHeld

(* A request that is over, or refused, and a refresh that is over, fit.    *)
LEMMA OverFits ==
  /\ \A g, a : ReqFits(NoReq, g, a) /\ JobFits(NoJob, g, a) /\ HeldOK(NoJob, g, a)
  /\ \A j : WaitsForOwn(NoReq, j)
  /\ NoJob.pc \notin Holding
  BY NothingFits DEF ReqFits, JobFits, NoReq, NoJob, HeldOK, Holding, WaitsForOwn

(* A refused request holds no session.                                     *)
LEMMA UnauthenticatedFits ==
  ASSUME NEW q, q \in Request, NEW g, NEW a, NEW j
  PROVE  ReqFits(Unauthenticated(q), g, a) /\ WaitsForOwn(Unauthenticated(q), j)
  <1>1. CASE q.kind = "logout"
    BY <1>1, OverFits DEF Unauthenticated
  <1>2. CASE q.kind # "logout"
    <2> DEFINE n == [q EXCEPT !.pc = "refused", !.creds = NoSession]
    <2>1. n.pc = "refused" /\ n.creds = NoSession
      BY DEF Request
    <2> QED
      BY <2>1, <1>2, NothingFits DEF Unauthenticated, ReqFits, WaitsForOwn
  <1> QED
    BY <1>1, <1>2

(* A request that goes on holds the session it was given.                  *)
LEMMA AuthenticatedFits ==
  ASSUME NEW q \in Request, NEW x, NEW g, NEW a, NEW j, Fits(x, q.sid, g, a)
  PROVE  /\ ReqFits(Authenticated(q, x), g, a)
         /\ WaitsForOwn(Authenticated(q, x), j)
  <1> DEFINE n == [q EXCEPT !.pc = "handler", !.creds = x]
  <1>1. n.pc = "handler" /\ n.sid = q.sid /\ n.creds = x
    BY DEF Request
  <1> QED
    BY <1>1 DEF Authenticated, ReqFits, WaitsForOwn

(* Linking, marking and moving on change neither token nor identity.       *)
LEMMA EditFits ==
  ASSUME NEW x \in UserSession, NEW s, NEW g, NEW a, Fits(x, s, g, a)
  PROVE  /\ Fits([x EXCEPT !.linked = TRUE], s, g, a)
         /\ Fits([x EXCEPT !.refreshing = TRUE], s, g, a)
  <1>1. \A y \in {[x EXCEPT !.linked = TRUE], [x EXCEPT !.refreshing = TRUE]} :
          y \in UserSession /\ y.token = x.token /\ y.identity = x.identity
          /\ y.provider = x.provider
    BY DEF UserSession
  <1>2. x # NoSession
    BY NoSessionAssumption
  <1> QED
    BY <1>1, <1>2 DEF Fits, Usable, Recognised

(* A request that moves on, but not to wait, keeps what it holds.          *)
LEMMA MovedFits ==
  ASSUME NEW q \in Request, NEW pc, pc # "waiting", NEW g, NEW a, NEW j,
         ReqFits(q, g, a)
  PROVE  /\ ReqFits([q EXCEPT !.pc = pc], g, a)
         /\ WaitsForOwn([q EXCEPT !.pc = pc], j)
  <1> DEFINE n == [q EXCEPT !.pc = pc]
  <1>1. n.pc = pc /\ n.sid = q.sid /\ n.creds = q.creds
    BY DEF Request
  <1> QED
    BY <1>1 DEF ReqFits, WaitsForOwn

(* Every step of a request keeps tokens and identities together.           *)
LEMMA GrantRequestStep ==
  ASSUME GrantInv, TypeInv', NEW r \in Requests, RequestStep(r)
  PROVE  GrantInv'
  <1> USE GrantUnpack, OverFits
  <1>1. /\ req[r] \in Request /\ job[r] \in Job
        /\ req[r].creds \in UserSession \cup {NoSession}
    BY DEF ReqOK, JobOK, Request
  <1>2. \A s : Fits(NoSession, s, grant, age)
    BY NothingFits
  <1>3. ASSUME NEW q, req' = [req EXCEPT ![r] = q], ReqFits(q, grant, age),
               UNCHANGED <<job, grant, age>>, WaitsForOwn(q, job[r]),
               NEW s, NEW x, Fits(x, s, grant, age),
               cache' = cache \/ cache' = [cache EXCEPT ![s] = x]
        PROVE  GrantInv'
    BY <1>3, QuietStep
  <1>4. CASE SignedIn(r)
    BY <1>2, <1>3, <1>4 DEF SignedIn
  <1>5. CASE SignedInLinked(r)
    <2>1. Fits([req[r].creds EXCEPT !.linked = TRUE], req[r].sid, grant, age)
      BY <1>5, EditFits DEF SignedInLinked, ReqOK, ReqFits
    <2> QED
      BY <2>1, <1>3, <1>5 DEF SignedInLinked, Put
  <1>6. CASE SignInRefused(r)
    <2>1. CASE req' = [req EXCEPT ![r] = NoReq]
      BY <2>1, <1>2, <1>3, <1>6 DEF SignInRefused
    <2>2. ASSUME NEW s \in handed,
                 req' = [req EXCEPT ![r] = [pc |-> "refused", kind |-> "callback",
                                            sid |-> s, creds |-> NoSession]]
          PROVE  GrantInv'
      <3> DEFINE q == [pc |-> "refused", kind |-> "callback", sid |-> s,
                       creds |-> NoSession]
      <3>1. ReqFits(q, grant, age) /\ WaitsForOwn(q, job[r])
        BY <1>2 DEF ReqFits, WaitsForOwn
      <3> HIDE DEF q
      <3> QED
        BY <3>1, <2>2, <1>2, <1>3, <1>6 DEF SignInRefused, q
    <2> QED
      BY <2>1, <2>2, <1>6 DEF SignInRefused
  <1>7. CASE Refuse(r)
    BY <1>1, <1>2, <1>3, <1>7, UnauthenticatedFits DEF Refuse
  <1>8. CASE Admit(r)
    BY <1>1, <1>2, <1>3, <1>8, AuthenticatedFits DEF Admit, ReqFits
  <1>9. CASE StartRefresh(r)
    <2>0. PICK pc \in {"marked", "failed"} :
            /\ job' = [job EXCEPT ![r] = [NoJob EXCEPT !.pc = pc, !.sid = req[r].sid,
                                                       !.provider = req[r].creds.provider]]
            /\ \/ Put(req[r].sid, [req[r].creds EXCEPT !.refreshing = TRUE])
               \/ UNCHANGED cache
      BY <1>9 DEF StartRefresh
    <2> DEFINE x == [req[r].creds EXCEPT !.refreshing = TRUE]
               q == IF age[req[r].creds.token] = "soon"
                    THEN Authenticated(req[r], req[r].creds)
                    ELSE [req[r] EXCEPT !.pc = "waiting"]
               j == [NoJob EXCEPT !.pc = pc, !.sid = req[r].sid,
                                  !.provider = req[r].creds.provider]
    <2>1. req[r].creds \in UserSession /\ req[r].sid \in Sids
      BY <1>1, <1>9, UsableType DEF StartRefresh, ReqOK
    <2>2. /\ j.pc = pc /\ j.sid = req[r].sid /\ j.base = NoSession
          /\ j \in Job
      BY <2>1 DEF NoJob, Job, JobPcs, Providers, UserSession
    <2>3. /\ JobFits(j, grant, age) /\ JobOK(j) /\ HeldOK(j, grant, age)
          /\ j.pc \notin Holding
      BY <2>1, <2>2, <1>2 DEF JobFits, JobOK, HeldOK, Holding
    <2>4. Fits(x, req[r].sid, grant, age)
      BY <2>1, EditFits DEF ReqFits
    <2>5. ReqFits(q, grant, age) /\ WaitsForOwn(q, j)
      <3>1. CASE age[req[r].creds.token] = "soon"
        BY <3>1, <1>1, AuthenticatedFits DEF ReqFits
      <3>2. CASE age[req[r].creds.token] # "soon"
        <4> DEFINE n == [req[r] EXCEPT !.pc = "waiting"]
        <4>1. n.pc = "waiting" /\ n.sid = req[r].sid /\ n.creds = req[r].creds
          BY <1>1 DEF Request
        <4> QED
          BY <4>1, <3>2, <2>2 DEF ReqFits, WaitsForOwn
      <3> QED
        BY <3>1, <3>2
    <2>6. /\ req' = [req EXCEPT ![r] = q] /\ job' = [job EXCEPT ![r] = j]
          /\ cache' = [cache EXCEPT ![req[r].sid] = x] \/ cache' = cache
          /\ UNCHANGED <<grant, age>>
      BY <1>9, <2>0 DEF StartRefresh, Put
    <2> HIDE DEF q, j, x
    <2> QED
      BY <2>3, <2>4, <2>5, <2>6, QuietStep
  <1>10. CASE Answer(r)
    BY <1>2, <1>3, <1>10 DEF Answer
  <1>11. CASE BackendRefuses(r)
    <2>1. req' = [req EXCEPT ![r] = [req[r] EXCEPT !.pc = "refused"]]
      BY <1>11 DEF BackendRefuses
    <2>2. /\ ReqFits([req[r] EXCEPT !.pc = "refused"], grant, age)
          /\ WaitsForOwn([req[r] EXCEPT !.pc = "refused"], job[r])
      BY <1>1, MovedFits
    <2> QED
      BY <2>1, <2>2, <1>2, <1>3, <1>11 DEF BackendRefuses
  <1>12. CASE LinkOrganisation(r)
    <2>1. req' = [req EXCEPT ![r] = [req[r] EXCEPT !.pc = "linked"]]
      BY <1>12 DEF LinkOrganisation
    <2>2. /\ ReqFits([req[r] EXCEPT !.pc = "linked"], grant, age)
          /\ WaitsForOwn([req[r] EXCEPT !.pc = "linked"], job[r])
      BY <1>1, MovedFits
    <2> QED
      BY <2>1, <2>2, <1>2, <1>3, <1>12 DEF LinkOrganisation
  <1>13. CASE StoreLinked(r)
    <2>1. Fits([req[r].creds EXCEPT !.linked = TRUE], req[r].sid, grant, age)
      BY <1>13, EditFits DEF StoreLinked, ReqOK, ReqFits
    <2> QED
      BY <2>1, <1>3, <1>13 DEF StoreLinked, Put
  <1>14. CASE RemoveSession(r)
    BY <1>2, <1>3, <1>14 DEF RemoveSession, Drop
  <1> QED
    BY <1>4, <1>5, <1>6, <1>7, <1>8, <1>9, <1>10, <1>11, <1>12, <1>13, <1>14
       DEF RequestStep

(* So does a refresh that ends without a session.                          *)
LEMMA EndsWithNullFits ==
  ASSUME GrantInv, TypeInv', NEW r \in Requests, EndsWithNull(r), NEW s,
         cache' = cache \/ Drop(s), UNCHANGED <<grant, age>>
  PROVE  GrantInv'
  <1> USE GrantUnpack, OverFits
  <1> DEFINE q == IF req[r].pc = "waiting" THEN Unauthenticated(req[r]) ELSE req[r]
  <1>1. req[r] \in Request
    BY DEF ReqOK
  <1>2. ReqFits(q, grant, age) /\ WaitsForOwn(q, NoJob)
    <2>1. CASE req[r].pc = "waiting"
      BY <2>1, <1>1, UnauthenticatedFits
    <2>2. CASE req[r].pc # "waiting"
      BY <2>2 DEF WaitsForOwn
    <2> QED
      BY <2>1, <2>2
  <1>3. req' = [req EXCEPT ![r] = q] /\ job' = [job EXCEPT ![r] = NoJob]
    BY DEF EndsWithNull
  <1>4. Fits(NoSession, s, grant, age)
    BY NothingFits
  <1> HIDE DEF q
  <1> QED
    BY <1>2, <1>3, <1>4, NoReqOK, QuietStep DEF Drop

(* A refresh that goes on without a new token.                             *)
LEMMA JobMovesFits ==
  ASSUME GrantInv, TypeInv', NEW r \in Requests, NEW pc \in {"posted", "failed"},
         job[r].pc # "idle", JobGoes(r, pc), UNCHANGED <<cache, grant, age, req>>
  PROVE  GrantInv'
  <1> USE GrantUnpack
  <1> DEFINE j == [job[r] EXCEPT !.pc = pc]
  <1>1. /\ j.pc = pc /\ j.sid = job[r].sid /\ j.base = job[r].base
    BY DEF JobOK, Job
  <1>2. JobOK(j)
    BY JobMovedOK
  <1>3. JobFits(j, grant, age) /\ HeldOK(j, grant, age) /\ WaitsForOwn(req[r], j)
        /\ j.pc \notin Holding
    BY <1>1 DEF JobFits, HeldOK, Holding, WaitsForOwn
  <1>4. job' = [job EXCEPT ![r] = j]
    BY JobGoesSplit
  <1>5. Fits(NoSession, NoSid, grant, age)
    BY NothingFits
  <1> HIDE DEF j
  <1> QED
    BY <1>2, <1>3, <1>4, <1>5, QuietStep

(* A new token is in no session yet, so no session is disturbed.           *)
LEMMA GrantProviderIssues ==
  ASSUME GrantInv, TypeInv', NEW r \in Requests, NEW t \in Tokens,
         ProviderIssues(r, t)
  PROVE  GrantInv'
  <1> USE GrantUnpack
  <1> DEFINE j == [job[r] EXCEPT !.pc = "answered", !.token = t]
             g == [sid |-> job[r].sid, identity |-> "unasked"]
  <1>1. /\ job' = [job EXCEPT ![r] = j] /\ UNCHANGED <<cache, req>>
        /\ age' = [age EXCEPT ![t] = "fresh"] /\ grant' = [grant EXCEPT ![t] = g]
        /\ age[t] = "unissued" /\ job[r].pc = "posted"
    BY DEF ProviderIssues, Issue
  <1>2. /\ j.pc = "answered" /\ j.sid = job[r].sid /\ j.base = job[r].base
        /\ j.token = t
    BY DEF JobOK, Job
  <1>3. JobOK(j)
    BY <1>1, <1>2 DEF JobOK, Job, JobPcs
  <1>4. /\ age'[t] = "fresh" /\ grant'[t] = g
        /\ \A u \in Tokens \ {t} : age'[u] = age[u] /\ grant'[u] = grant[u]
    BY <1>1, TypeUnpack DEF Grants
  <1>5. Remembers
    BY <1>1, <1>4 DEF Remembers, Issued
  <1>6. TokensHeld'
    <2>1. HeldOK(j, grant', age')
      BY <1>2, <1>4 DEF HeldOK
    <2>2. ASSUME NEW q \in Requests \ {r}, job[q].pc \in Holding
          PROVE  /\ age'[job[q].token] # "unissued"
                 /\ grant'[job[q].token] = grant[job[q].token]
                 /\ j.token # job[q].token
      <3>1. age[job[q].token] # "unissued" /\ job[q].token \in Tokens
        BY <2>2, GrantUnpack DEF HeldOK, JobOK, Holding
      <3> QED
        BY <3>1, <1>1, <1>2, <1>4
    <2> HIDE DEF j
    <2> QED
      BY <2>1, <2>2, <1>1, <1>3, HeldKept DEF GrantInv
  <1>7. ReqFits(req[r], grant', age') /\ JobFits(j, grant', age')
    <2>1. req[r].creds \in UserSession \cup {NoSession}
          /\ job[r].base \in UserSession \cup {NoSession}
      BY DEF ReqOK, JobOK, Request, Job
    <2> QED
      BY <2>1, <1>2, <1>5, FitsKept DEF ReqFits, JobFits
  <1>8. WaitsForOwn(req[r], j)
    BY <1>2 DEF WaitsForOwn
  <1>9. Fits(NoSession, NoSid, grant', age')
    BY NothingFits
  <1> HIDE DEF j, g
  <1> QED
    BY <1>1, <1>5, <1>6, <1>7, <1>8, <1>9, GrantStep

(* Nor is one when the backend says who a token just issued belongs to.    *)
LEMMA GrantIdentify ==
  ASSUME GrantInv, TypeInv', NEW r \in Requests, NEW i \in Identities, Identify(r, i)
  PROVE  GrantInv'
  <1> USE GrantUnpack
  <1> DEFINE u == job[r].token
             pc == IF i = "none" THEN "failed" ELSE "storing"
             j == [job[r] EXCEPT !.pc = pc]
             g == [grant[u] EXCEPT !.identity = i]
  <1>1. /\ job' = [job EXCEPT ![r] = j] /\ UNCHANGED <<cache, req, age>>
        /\ grant' = [grant EXCEPT ![u] = g] /\ job[r].pc = "identifying"
    BY DEF Identify, JobGoes
  <1>2. /\ j.pc = pc /\ j.sid = job[r].sid /\ j.base = job[r].base /\ j.token = u
        /\ u \in Tokens /\ j \in Job
    BY <1>1 DEF JobOK, Job, JobPcs
  <1>3. JobOK(j)
    BY <1>1, <1>2 DEF JobOK
  <1>4. /\ grant'[u] = g /\ g.sid = grant[u].sid /\ g.identity = i
        /\ \A w \in Tokens \ {u} : grant'[w] = grant[w]
    BY <1>1, <1>2, TypeUnpack DEF Grants
  <1>5. /\ age[u] # "unissued" /\ grant[u].sid = job[r].sid
        /\ grant[u].identity = "unasked"
    BY <1>1 DEF HeldOK, Holding
  <1>6. Remembers
    BY <1>1, <1>4, <1>5 DEF Remembers, Issued
  <1>7. TokensHeld'
    <2>1. HeldOK(j, grant', age')
      <3>1. j.pc \in Holding => i \in Identities \ {"none"} /\ j.pc = "storing"
        BY <1>2 DEF Holding
      <3> HIDE DEF j, g, u, pc
      <3> QED
        BY <3>1, <1>1, <1>2, <1>4, <1>5 DEF HeldOK
    <2>2. ASSUME NEW q \in Requests \ {r}, job[q].pc \in Holding
          PROVE  /\ age'[job[q].token] # "unissued"
                 /\ grant'[job[q].token] = grant[job[q].token]
                 /\ j.token # job[q].token
      <3>1. age[job[q].token] # "unissued" /\ job[q].token \in Tokens
        BY <2>2, GrantUnpack DEF HeldOK, JobOK, Holding
      <3>2. job[q].token # u
        BY <2>2, <1>1 DEF GrantInv, TokensHeld, Holding
      <3> QED
        BY <3>1, <3>2, <1>1, <1>2, <1>4
    <2> HIDE DEF j, u
    <2> QED
      BY <2>1, <2>2, <1>1, <1>3, HeldKept DEF GrantInv
  <1>8. ReqFits(req[r], grant', age') /\ JobFits(j, grant', age')
    <2>1. req[r].creds \in UserSession \cup {NoSession}
          /\ job[r].base \in UserSession \cup {NoSession}
      BY DEF ReqOK, JobOK, Request, Job
    <2> QED
      BY <2>1, <1>2, <1>6, FitsKept DEF ReqFits, JobFits
  <1>9. WaitsForOwn(req[r], j)
    BY <1>2 DEF WaitsForOwn
  <1>10. Fits(NoSession, NoSid, grant', age')
    BY NothingFits
  <1> HIDE DEF j, g, u
  <1> QED
    BY <1>1, <1>6, <1>7, <1>8, <1>9, <1>10, GrantStep

(* Every step of a refresh keeps tokens and identities together.           *)
LEMMA GrantRefreshStep ==
  ASSUME GrantInv, TypeInv', NEW r \in Requests, RefreshStep(r)
  PROVE  GrantInv'
  <1> USE GrantUnpack
  <1>1. CASE PostRefresh(r)
    <2>1. PICK pc \in {"posted", "failed"} : JobGoes(r, pc)
      BY <1>1 DEF PostRefresh
    <2> QED
      BY <2>1, <1>1, JobMovesFits DEF PostRefresh
  <1>2. ASSUME NEW t \in Tokens, ProviderIssues(r, t)
        PROVE  GrantInv'
    BY <1>2, GrantProviderIssues
  <1>3. CASE ProviderRejects(r)
    BY <1>3, JobMovesFits DEF ProviderRejects
  <1>4. CASE ReadLatest(r)
    <2>1. CASE EndsWithNull(r)
      BY <2>1, <1>4, EndsWithNullFits DEF ReadLatest
    <2>2. CASE ~EndsWithNull(r)
      <3> DEFINE b == cache[job[r].sid]
                 j == [job[r] EXCEPT !.pc = "identifying", !.base = b]
      <3>1. /\ job' = [job EXCEPT ![r] = j] /\ b # NoSession
            /\ UNCHANGED <<cache, handed, age, grant, faults, req>>
            /\ job[r].pc = "answered" /\ job[r].sid \in Sids
        BY <2>2, <1>4 DEF ReadLatest, JobOK
      <3>2. /\ j.pc = "identifying" /\ j.sid = job[r].sid /\ j.base = b
            /\ j.token = job[r].token
        BY DEF JobOK, Job
      <3>3. b \in UserSession /\ Fits(b, job[r].sid, grant, age)
        BY <3>1, TypeUnpack DEF GrantInv
      <3>4. JobOK(j)
        BY <3>1, <3>2, <3>3 DEF JobOK, Job, JobPcs
      <3>5. /\ JobFits(j, grant, age) /\ HeldOK(j, grant, age)
            /\ WaitsForOwn(req[r], j) /\ job[r].pc \in Holding
        BY <3>1, <3>2, <3>3 DEF JobFits, HeldOK, WaitsForOwn, Holding
      <3>6. Fits(NoSession, NoSid, grant, age)
        BY NothingFits
      <3> HIDE DEF j, b
      <3> QED
        BY <3>1, <3>2, <3>4, <3>5, <3>6, QuietStep
    <2> QED
      BY <2>1, <2>2
  <1>5. ASSUME NEW i \in Identities, Identify(r, i)
        PROVE  GrantInv'
    BY <1>5, GrantIdentify
  <1>6. CASE IdentifyFails(r)
    BY <1>6, JobMovesFits DEF IdentifyFails
  <1>7. CASE StoreRefreshed(r)
    <2> DEFINE session == [job[r].base EXCEPT !.token = job[r].token,
                                              !.identity = grant[job[r].token].identity,
                                              !.refreshing = FALSE]
               q == IF req[r].pc = "waiting" THEN Authenticated(req[r], session)
                    ELSE req[r]
    <2>1. /\ job[r].pc = "storing" /\ job[r].sid \in Sids
          /\ cache' = [cache EXCEPT ![job[r].sid] = session]
          /\ req' = [req EXCEPT ![r] = q] /\ job' = [job EXCEPT ![r] = NoJob]
          /\ UNCHANGED <<age, grant>>
      BY <1>7 DEF StoreRefreshed, Put, EndsWithSession, JobOK
    <2>2. /\ session \in UserSession /\ session.token = job[r].token
          /\ session.token \in Tokens
          /\ session.identity = grant[job[r].token].identity
      BY <2>1, RefreshedType DEF GrantInv
    <2> HIDE DEF session
    <2>3. Fits(session, job[r].sid, grant, age)
      <3>1. /\ age[session.token] # "unissued"
            /\ grant[session.token].sid = job[r].sid
            /\ grant[session.token].identity # "none"
        BY <2>1, <2>2 DEF HeldOK, Holding
      <3>2. grant[session.token] \in [sid: Sids \cup {NoSid},
                                      identity: Identities \cup {"unasked"}]
        BY <2>2, TypeUnpack DEF Grants
      <3> QED
        BY <3>1, <3>2, <2>2 DEF Fits, Recognised
    <2>4. ReqFits(q, grant, age) /\ WaitsForOwn(q, NoJob)
      <3>1. CASE req[r].pc = "waiting"
        <4>1. req[r] \in Request /\ Fits(session, req[r].sid, grant, age)
          BY <3>1, <2>3 DEF ReqOK, WaitsForOwn
        <4> QED
          BY <3>1, <4>1, AuthenticatedFits
      <3>2. CASE req[r].pc # "waiting"
        BY <3>2 DEF WaitsForOwn
      <3> QED
        BY <3>1, <3>2
    <2> HIDE DEF q
    <2> QED
      BY <2>1, <2>3, <2>4, OverFits, NoReqOK, QuietStep
  <1>8. CASE EndSession(r)
    BY <1>8, EndsWithNullFits DEF EndSession
  <1> QED
    BY <1>1, <1>2, <1>3, <1>4, <1>5, <1>6, <1>7, <1>8, AnswersAssumption
       DEF RefreshStep

(* A sign-in stores the identity of its own token.                         *)
LEMMA GrantSignIn ==
  ASSUME GrantInv, TypeInv', NEW r \in Requests, NEW s \in Sids, NEW t \in Tokens,
         NEW p \in Providers, NEW i \in Identities, SignIn(r, s, t, p, i)
  PROVE  GrantInv'
  <1> USE GrantUnpack
  <1> DEFINE x == [provider |-> p, token |-> t, identity |-> i,
                   linked |-> FALSE, refreshing |-> FALSE]
             q == [pc |-> "signed_in", kind |-> "callback", sid |-> s, creds |-> x]
             g == [sid |-> s, identity |-> i]
  <1>1. /\ req' = [req EXCEPT ![r] = q] /\ UNCHANGED job
        /\ cache' = [cache EXCEPT ![s] = x]
        /\ age' = [age EXCEPT ![t] = "fresh"] /\ grant' = [grant EXCEPT ![t] = g]
        /\ age[t] = "unissued" /\ (p = "entra_id" => i # "none")
    BY DEF SignIn, Issue, Put
  <1>2. /\ age'[t] = "fresh" /\ grant'[t] = g
        /\ \A u \in Tokens \ {t} : age'[u] = age[u] /\ grant'[u] = grant[u]
    BY <1>1, TypeUnpack DEF Grants
  <1>3. Remembers
    BY <1>1, <1>2 DEF Remembers, Issued
  <1>4. TokensHeld'
    <2>1. ASSUME NEW v \in Requests, job[v].pc \in Holding
          PROVE  /\ age'[job[v].token] = age[job[v].token]
                 /\ grant'[job[v].token] = grant[job[v].token]
      <3>1. age[job[v].token] # "unissued" /\ job[v].token \in Tokens
        BY <2>1, GrantUnpack DEF HeldOK, JobOK, Holding
      <3> QED
        BY <3>1, <1>1, <1>2
    <2> QED
      BY <2>1, <1>1 DEF GrantInv, TokensHeld, HeldOK
  <1>5. Fits(x, s, grant', age')
    BY <1>1, <1>2 DEF Fits, Recognised
  <1>6. ReqFits(q, grant', age') /\ WaitsForOwn(q, job[r])
    BY <1>5 DEF ReqFits, WaitsForOwn
  <1>7. JobFits(job[r], grant', age')
    <2>1. job[r].base \in UserSession \cup {NoSession}
      BY DEF JobOK, Job
    <2> QED
      BY <2>1, <1>3, FitsKept DEF JobFits
  <1>8. job' = [job EXCEPT ![r] = job[r]]
    BY <1>1
  <1> HIDE DEF q, x, g
  <1> QED
    BY <1>1, <1>3, <1>4, <1>5, <1>6, <1>7, <1>8, GrantStep

(* A request reads a session that fits.                                    *)
LEMMA GrantArrive ==
  ASSUME GrantInv, TypeInv', NEW r \in Requests, NEW s \in Sids, NEW k \in AllKinds,
         Arrive(r, s, k)
  PROVE  GrantInv'
  <1> DEFINE q == [pc |-> "read", kind |-> k, sid |-> s, creds |-> cache[s]]
  <1>1. req' = [req EXCEPT ![r] = q] /\ UNCHANGED <<cache, job, age, grant>>
    BY DEF Arrive
  <1>2. ReqFits(q, grant, age) /\ WaitsForOwn(q, job[r])
    BY DEF GrantInv, ReqFits, WaitsForOwn
  <1>3. Fits(NoSession, NoSid, grant, age)
    BY NothingFits
  <1> HIDE DEF q
  <1> QED
    BY <1>1, <1>2, <1>3, GrantUnpack, QuietStep

(* A crash loses copies and joins none.                                    *)
LEMMA GrantFault ==
  ASSUME GrantInv, TypeInv', NEW r \in Requests, Fault(r)
  PROVE  GrantInv'
  <1> USE GrantUnpack, OverFits
  <1>1. UNCHANGED <<cache, grant, age>> /\ Fits(NoSession, NoSid, grant, age)
    BY NothingFits DEF Fault, Crash, RequestFails, RefreshFails, RemovalFails
  <1>2. CASE Crash(r)
    BY <1>1, <1>2, NoReqOK, QuietStep DEF Crash
  <1>3. CASE RequestFails(r)
    BY <1>1, <1>3, QuietStep DEF RequestFails
  <1>4. CASE RefreshFails(r)
    BY <1>1, <1>4, JobMovesFits DEF RefreshFails
  <1>5. CASE RemovalFails(r)
    <2> DEFINE q == IF req[r].pc = "waiting" THEN NoReq ELSE req[r]
    <2>1. ReqFits(q, grant, age) /\ WaitsForOwn(q, NoJob)
      BY DEF WaitsForOwn
    <2>2. req' = [req EXCEPT ![r] = q] /\ job' = [job EXCEPT ![r] = NoJob]
      BY <1>5 DEF RemovalFails
    <2> HIDE DEF q
    <2> QED
      BY <2>1, <2>2, <1>1, NoReqOK, QuietStep
  <1> QED
    BY <1>2, <1>3, <1>4, <1>5 DEF Fault

(* Time changes no grant.                                                  *)
LEMMA GrantTick ==
  ASSUME GrantInv, TypeInv', NEW t \in Tokens, Tick(t)
  PROVE  GrantInv'
  <1>1. /\ UNCHANGED <<cache, handed, grant, req, job>>
        /\ \A u : age[u] # "unissued" => age'[u] # "unissued"
    BY TypeUnpack DEF Tick, Older, GrantInv
  <1>2. Remembers
    BY <1>1 DEF Remembers, Issued
  <1>3. TokensHeld'
    BY <1>1 DEF GrantInv, TokensHeld, HeldOK
  <1>4. \A x, s : Fits(x, s, grant, age) => Fits(x, s, grant', age')
    BY <1>1 DEF Fits
  <1> QED
    BY <1>1, <1>3, <1>4 DEF GrantInv, ReqFits, JobFits

(* An entry that goes leaves the others as they were.                      *)
LEMMA GrantEvict ==
  ASSUME GrantInv, TypeInv', NEW s \in Sids, Evict(s)
  PROVE  GrantInv'
  <1>1. \A u \in Sids : Fits(cache'[u], u, grant, age)
    BY NothingFits, TypeUnpack DEF GrantInv, Evict, Drop
  <1> QED
    BY <1>1 DEF GrantInv, Evict, TokensHeld

(* The invariant holds at first.                                           *)
LEMMA GrantInit == Init => GrantInv
  <1> SUFFICES ASSUME Init PROVE GrantInv
    OBVIOUS
  <1>1. TypeInv
    BY TypeInit, NoReqOK DEF Init, TypeInv
  <1>2. \A r \in Requests : req[r] = NoReq /\ job[r] = NoJob
    BY DEF Init
  <1>3. TokensHeld
    BY <1>2, OverFits DEF TokensHeld
  <1>4. \A s : Fits(LegacySession, s, grant, age)
    BY DEF Fits, Usable, Recognised, LegacySession
  <1>5. \A s \in Sids : cache[s] \in {LegacySession, NoSession}
    BY DEF Init
  <1>6. \A s \in Sids : Fits(cache[s], s, grant, age)
    BY <1>4, <1>5, NothingFits
  <1> QED
    BY <1>1, <1>2, <1>3, <1>6, OverFits DEF GrantInv

(* The invariant is inductive.                                             *)
LEMMA GrantNext ==
  ASSUME GrantInv, [Next]_vars
  PROVE  GrantInv'
  <1>1. TypeInv'
    BY TypeNext DEF GrantInv
  <1>2. CASE UNCHANGED vars
    BY <1>2 DEF vars, GrantInv, TypeInv, TypeOK, ReqOK, JobOK, Request, Job, TokensHeld
  <1>3. CASE Next
    BY <1>1, <1>3, GrantSignIn, GrantArrive, GrantRequestStep, GrantRefreshStep,
       GrantFault, GrantTick, GrantEvict, AnswersAssumption DEF Next
  <1> QED
    BY <1>2, <1>3

(* The invariant always holds.                                             *)
LEMMA GrantAlways == Spec => []GrantInv
  BY GrantInit, GrantNext, PTL DEF Spec

(* The state is well typed, in particular every session that a refresh or  *)
(* a handler writes to the cache is a whole one.                           *)
THEOREM TypeCorrect == Spec => []TypeOK
  <1>1. GrantInv => TypeOK
    BY DEF GrantInv, TypeInv
  <1> QED
    BY <1>1, GrantAlways, PTL

(* No session, and no copy of one, joins the permissions the backend gave  *)
(* for one token to another token (updateUserSession stores both at once). *)
THEOREM PermissionsAlwaysMatch == Spec => []PermissionsMatchToken
  <1>1. GrantInv => PermissionsMatchToken
    BY DEF GrantInv, PermissionsMatchToken, Consistent, Fits, ReqFits, JobFits, Issued
  <1> QED
    BY <1>1, GrantAlways, PTL

(* No stored session of a regulator has an identity without a role, for    *)
(* any assignment of providers to instances (callback controller,          *)
(* updateUserSession).                                                     *)
THEOREM RegulatorsAlwaysRecognised == Spec => []RegulatorsRecognised
  <1>1. GrantInv => RegulatorsRecognised
    BY DEF GrantInv, RegulatorsRecognised, Fits, Recognised
  <1> QED
    BY <1>1, GrantAlways, PTL

-----------------------------------------------------------------------------
(* A session that has ended, with nobody holding a copy of it, stays so.   *)

(* The action keeps what request q and refresh j know of s at nothing.     *)
Away(q, j, s) == (q.sid = s => q.creds = NoSession) /\ j.sid # s

(* Settled, request by request.                                            *)
LEMMA SettledMeans ==
  ASSUME NEW s
  PROVE  Settled(s) <=> /\ Minted(s) /\ cache[s] = NoSession
                        /\ \A r \in Requests : Away(req[r], job[r], s)
  BY DEF Settled, Ended, Touching, Away

(* An id that was minted stays minted.                                     *)
LEMMA MintedKept ==
  ASSUME GrantInv, [Next]_vars, NEW s, Minted(s)
  PROVE  Minted(s)'
  <1> SUFFICES ASSUME NEW t \in Tokens, Issued(t), grant[t].sid = s
               PROVE  Issued(t)' /\ grant'[t].sid = s
    BY DEF Minted
  <1> USE TypeUnpack DEF GrantInv, Issued
  <1>1. CASE UNCHANGED <<age, grant>>
    BY <1>1
  <1>2. ASSUME NEW u \in Tokens, NEW w, NEW i, Issue(u, w, i)
        PROVE  Issued(t)' /\ grant'[t].sid = s
    BY <1>2 DEF Issue
  <1>3. ASSUME NEW r \in Requests, NEW i \in Identities, Identify(r, i)
        PROVE  Issued(t)' /\ grant'[t].sid = s
    BY <1>3 DEF Identify, Grants
  <1>4. ASSUME NEW u \in Tokens, Tick(u)
        PROVE  Issued(t)' /\ grant'[t].sid = s
    BY <1>4 DEF Tick, Older
  <1>5. ASSUME NEW r \in Requests, RequestStep(r)
        PROVE  UNCHANGED <<age, grant>>
    BY <1>5 DEF RequestStep, SignedIn, SignedInLinked, SignInRefused, Refuse, Admit,
       StartRefresh, Answer, BackendRefuses, LinkOrganisation, StoreLinked, RemoveSession
  <1>6. ASSUME NEW r \in Requests, RefreshStep(r)
        PROVE  Issued(t)' /\ grant'[t].sid = s
    <2>1. CASE \E u \in Tokens : ProviderIssues(r, u)
      BY <2>1, <1>2 DEF ProviderIssues
    <2>2. CASE \E i \in Answers : Identify(r, i)
      BY <2>2, <1>3, AnswersAssumption
    <2>3. CASE \/ PostRefresh(r) \/ ProviderRejects(r) \/ ReadLatest(r)
               \/ IdentifyFails(r) \/ StoreRefreshed(r) \/ EndSession(r)
      BY <2>3, <1>1 DEF PostRefresh, ProviderRejects, ReadLatest, IdentifyFails,
         StoreRefreshed, EndSession
    <2> QED
      BY <1>6, <2>1, <2>2, <2>3 DEF RefreshStep
  <1>7. ASSUME NEW r \in Requests, NEW w \in Sids, NEW u \in Tokens,
               NEW p \in Providers, NEW i \in Answers, SignIn(r, w, u, p, i)
        PROVE  Issued(t)' /\ grant'[t].sid = s
    BY <1>7, <1>2 DEF SignIn
  <1>8. CASE \/ \E r \in Requests, w \in Sids, k \in AllKinds : Arrive(r, w, k)
             \/ \E r \in Requests : Fault(r)
             \/ \E w \in Sids : Evict(w)
             \/ UNCHANGED vars
    BY <1>8, <1>1 DEF Arrive, Fault, Crash, RequestFails, RefreshFails, RemovalFails,
       Evict, vars
  <1> QED
    BY <1>1, <1>4, <1>5, <1>6, <1>7, <1>8 DEF Next

(* One actor moves and stays away from s.                                  *)
LEMMA SettledStep ==
  ASSUME GrantInv, NEW s \in Sids, Settled(s), Minted(s)', NEW r \in Requests,
         NEW q, NEW j, req' = [req EXCEPT ![r] = q], job' = [job EXCEPT ![r] = j],
         Away(q, j, s),
         NEW w, NEW x, cache' = cache \/ cache' = [cache EXCEPT ![w] = x],
         w = s => x = NoSession
  PROVE  Settled(s)'
  <1> USE TypeUnpack, SettledMeans DEF GrantInv
  <1>1. cache'[s] = NoSession
    OBVIOUS
  <1>2. \A p \in Requests : Away(req'[p], job'[p], s)
    <2> SUFFICES ASSUME NEW p \in Requests PROVE Away(req'[p], job'[p], s)
      OBVIOUS
    <2>1. CASE p = r
      BY <2>1
    <2>2. CASE p # r
      BY <2>2
    <2> QED
      BY <2>1, <2>2
  <1> QED
    BY <1>1, <1>2 DEF Settled, Ended, Touching, Away

(* A refused request holds no copy of s.                                   *)
LEMMA UnauthenticatedAway ==
  ASSUME NEW q \in Request, NEW j, NEW s \in Sids, j.sid # s
  PROVE  Away(Unauthenticated(q), j, s)
  <1>1. CASE q.kind = "logout"
    BY <1>1, NullsAssumption DEF Unauthenticated, Away, NoReq
  <1>2. CASE q.kind # "logout"
    <2> DEFINE n == [q EXCEPT !.pc = "refused", !.creds = NoSession]
    <2>1. n.creds = NoSession
      BY DEF Request
    <2> QED
      BY <2>1, <1>2 DEF Unauthenticated, Away
  <1> QED
    BY <1>1, <1>2

(* A request that has credentials, or waits for them, holds a copy of the  *)
(* session, so its session is another one.                                 *)
LEMMA HolderElsewhere ==
  ASSUME GrantInv, NEW s \in Sids, Settled(s), NEW r \in Requests
  PROVE  /\ job[r].sid # s
         /\ Away(req[r], job[r], s)
         /\ Away(NoReq, job[r], s) /\ Away(NoReq, NoJob, s) /\ Away(req[r], NoJob, s)
         /\ req[r].pc \in {"waiting", "handler", "linked", "signed_in"} => req[r].sid # s
         /\ Usable(req[r].creds) => req[r].sid # s
  <1>1. Away(req[r], job[r], s)
    BY SettledMeans
  <1>2. NoReq.sid # s /\ NoJob.sid # s
    BY NullsAssumption DEF NoReq, NoJob
  <1>3. req[r].pc \in {"waiting", "handler", "linked", "signed_in"}
          => req[r].creds # NoSession
    BY GrantUnpack, NoSessionAssumption DEF ReqOK
  <1> QED
    BY <1>1, <1>2, <1>3 DEF Away, Usable

(* A step of a request leaves a settled session alone.                     *)
LEMMA SettledRequestStep ==
  ASSUME GrantInv, NEW s \in Sids, Settled(s), Minted(s)', NEW r \in Requests,
         RequestStep(r)
  PROVE  Settled(s)'
  <1> USE GrantUnpack, HolderElsewhere
  <1>1. req[r] \in Request
    BY DEF ReqOK
  <1>2. ASSUME NEW q, req' = [req EXCEPT ![r] = q], UNCHANGED job, Away(q, job[r], s),
               NEW w, NEW x, cache' = cache \/ cache' = [cache EXCEPT ![w] = x],
               w = s => x = NoSession
        PROVE  Settled(s)'
    BY <1>2, SettledStep
  <1>3. ASSUME NEW pc, req[r].sid # s
        PROVE  Away([req[r] EXCEPT !.pc = pc], job[r], s)
    BY <1>1, <1>3 DEF Away, Request
  <1>4. ASSUME NEW x, NEW j, req[r].sid # s, j.sid # s
        PROVE  Away(Authenticated(req[r], x), j, s)
    BY <1>1, <1>4 DEF Away, Request, Authenticated
  <1>5. CASE SignedIn(r)
    BY <1>2, <1>5 DEF SignedIn
  <1>6. CASE SignedInLinked(r)
    BY <1>2, <1>6 DEF SignedInLinked, Put
  <1>7. CASE SignInRefused(r)
    <2>1. CASE req' = [req EXCEPT ![r] = NoReq]
      BY <2>1, <1>2, <1>7 DEF SignInRefused
    <2>2. ASSUME NEW w \in handed,
                 req' = [req EXCEPT ![r] = [pc |-> "refused", kind |-> "callback",
                                            sid |-> w, creds |-> NoSession]]
          PROVE  Settled(s)'
      <3> DEFINE q == [pc |-> "refused", kind |-> "callback", sid |-> w,
                       creds |-> NoSession]
      <3>1. Away(q, job[r], s)
        BY DEF Away
      <3> HIDE DEF q
      <3> QED
        BY <3>1, <2>2, <1>2, <1>7 DEF SignInRefused, q
    <2> QED
      BY <2>1, <2>2, <1>7 DEF SignInRefused
  <1>8. CASE Refuse(r)
    BY <1>1, <1>2, <1>8, UnauthenticatedAway DEF Refuse
  <1>9. CASE Admit(r)
    BY <1>2, <1>4, <1>9 DEF Admit
  <1>10. CASE StartRefresh(r)
    <2>0. PICK pc \in {"marked", "failed"} :
            /\ job' = [job EXCEPT ![r] = [NoJob EXCEPT !.pc = pc, !.sid = req[r].sid,
                                                       !.provider = req[r].creds.provider]]
            /\ \/ Put(req[r].sid, [req[r].creds EXCEPT !.refreshing = TRUE])
               \/ UNCHANGED cache
      BY <1>10 DEF StartRefresh
    <2> DEFINE q == IF age[req[r].creds.token] = "soon"
                    THEN Authenticated(req[r], req[r].creds)
                    ELSE [req[r] EXCEPT !.pc = "waiting"]
               j == [NoJob EXCEPT !.pc = pc, !.sid = req[r].sid,
                                  !.provider = req[r].creds.provider]
    <2>1. req[r].sid # s
      BY <1>10 DEF StartRefresh
    <2>2. j.sid # s
      BY <2>1 DEF NoJob
    <2>3. Away([req[r] EXCEPT !.pc = "waiting"], j, s)
      BY <1>1, <2>1, <2>2 DEF Away, Request
    <2>4. Away(q, j, s)
      BY <1>4, <2>1, <2>2, <2>3
    <2>5. /\ req' = [req EXCEPT ![r] = q] /\ job' = [job EXCEPT ![r] = j]
          /\ \E x : cache' = cache \/ cache' = [cache EXCEPT ![req[r].sid] = x]
      BY <1>10, <2>0 DEF StartRefresh, Put
    <2> HIDE DEF q, j
    <2> QED
      BY <2>1, <2>4, <2>5, SettledStep
  <1>11. CASE Answer(r)
    BY <1>2, <1>11 DEF Answer
  <1>12. CASE BackendRefuses(r)
    <2>1. req' = [req EXCEPT ![r] = [req[r] EXCEPT !.pc = "refused"]]
      BY <1>12 DEF BackendRefuses
    <2> QED
      BY <2>1, <1>2, <1>3, <1>12 DEF BackendRefuses, MayCallBackend
  <1>13. CASE LinkOrganisation(r)
    <2>1. req' = [req EXCEPT ![r] = [req[r] EXCEPT !.pc = "linked"]]
      BY <1>13 DEF LinkOrganisation
    <2> QED
      BY <2>1, <1>2, <1>3, <1>13 DEF LinkOrganisation, MayCallBackend
  <1>14. CASE StoreLinked(r)
    BY <1>2, <1>14 DEF StoreLinked, Put
  <1>15. CASE RemoveSession(r)
    BY <1>2, <1>15 DEF RemoveSession, Drop
  <1> QED
    BY <1>5, <1>6, <1>7, <1>8, <1>9, <1>10, <1>11, <1>12, <1>13, <1>14, <1>15
       DEF RequestStep

(* A step of a refresh leaves a settled session alone.                     *)
LEMMA SettledRefreshStep ==
  ASSUME GrantInv, NEW s \in Sids, Settled(s), Minted(s)', NEW r \in Requests,
         RefreshStep(r)
  PROVE  Settled(s)'
  <1> USE GrantUnpack, HolderElsewhere
  <1>1. req[r] \in Request /\ job[r] \in Job
    BY DEF ReqOK, JobOK
  <1>2. ASSUME NEW pc, JobGoes(r, pc), UNCHANGED <<cache, req>>
        PROVE  Settled(s)'
    <2> DEFINE j == [job[r] EXCEPT !.pc = pc]
    <2>1. j.sid = job[r].sid
      BY <1>1 DEF Job
    <2>2. job' = [job EXCEPT ![r] = j] /\ Away(req[r], j, s)
      BY <1>2, <2>1, JobGoesSplit DEF Away
    <2> HIDE DEF j
    <2> QED
      BY <2>2, <1>2, SettledStep
  <1>3. ASSUME EndsWithNull(r), UNCHANGED cache \/ Drop(job[r].sid)
        PROVE  Settled(s)'
    <2> DEFINE q == IF req[r].pc = "waiting" THEN Unauthenticated(req[r]) ELSE req[r]
    <2>1. Away(q, NoJob, s)
      <3>1. NoJob.sid # s
        BY NullsAssumption DEF NoJob
      <3> QED
        BY <3>1, <1>1, UnauthenticatedAway
    <2>2. req' = [req EXCEPT ![r] = q] /\ job' = [job EXCEPT ![r] = NoJob]
      BY <1>3 DEF EndsWithNull
    <2> HIDE DEF q
    <2> QED
      BY <2>1, <2>2, <1>3, SettledStep DEF Drop
  <1>4. ASSUME NEW t \in Tokens, ProviderIssues(r, t)
        PROVE  Settled(s)'
    <2> DEFINE j == [job[r] EXCEPT !.pc = "answered", !.token = t]
    <2>1. j.sid = job[r].sid
      BY <1>1 DEF Job
    <2>2. /\ job' = [job EXCEPT ![r] = j] /\ Away(req[r], j, s)
          /\ UNCHANGED <<cache, req>>
      BY <1>4, <2>1 DEF Away, ProviderIssues
    <2> HIDE DEF j
    <2> QED
      BY <2>2, SettledStep
  <1>5. CASE ReadLatest(r)
    <2>1. CASE EndsWithNull(r)
      BY <2>1, <1>3, <1>5 DEF ReadLatest
    <2>2. CASE ~EndsWithNull(r)
      <3> DEFINE j == [job[r] EXCEPT !.pc = "identifying", !.base = cache[job[r].sid]]
      <3>1. j.sid = job[r].sid
        BY <1>1 DEF Job
      <3>2. /\ job' = [job EXCEPT ![r] = j] /\ Away(req[r], j, s)
            /\ UNCHANGED <<cache, req>>
        BY <1>5, <2>2, <3>1 DEF Away, ReadLatest
      <3> HIDE DEF j
      <3> QED
        BY <3>2, SettledStep
    <2> QED
      BY <2>1, <2>2
  <1>6. CASE StoreRefreshed(r)
    <2>1. PICK x : Put(job[r].sid, x) /\ EndsWithSession(r, x)
      BY <1>6 DEF StoreRefreshed
    <2> DEFINE q == IF req[r].pc = "waiting" THEN Authenticated(req[r], x) ELSE req[r]
    <2>2. Away(q, NoJob, s)
      <3>1. CASE req[r].pc = "waiting"
        <4>1. req[r].sid # s /\ NoJob.sid # s
          BY <3>1, NullsAssumption DEF NoJob
        <4> QED
          BY <4>1, <3>1, <1>1 DEF Away, Request, Authenticated
      <3>2. CASE req[r].pc # "waiting"
        BY <3>2
      <3> QED
        BY <3>1, <3>2
    <2>3. /\ req' = [req EXCEPT ![r] = q] /\ job' = [job EXCEPT ![r] = NoJob]
          /\ cache' = [cache EXCEPT ![job[r].sid] = x]
      BY <2>1 DEF Put, EndsWithSession
    <2> HIDE DEF q
    <2> QED
      BY <2>2, <2>3, SettledStep
  <1>7. CASE EndSession(r)
    BY <1>7, <1>3 DEF EndSession
  <1> QED
    BY <1>2, <1>4, <1>5, <1>6, <1>7
       DEF RefreshStep, PostRefresh, ProviderRejects, Identify, IdentifyFails

(* A settled session stays settled.                                        *)
LEMMA SettledKept ==
  ASSUME GrantInv, [Next]_vars, NEW s \in Sids, Settled(s)
  PROVE  Settled(s)'
  <1> USE GrantUnpack, HolderElsewhere
  <1>1. Minted(s)' /\ cache[s] = NoSession
    BY MintedKept, SettledMeans
  <1>2. ASSUME NEW r \in Requests, NEW w \in Sids, NEW t \in Tokens,
               NEW p \in Providers, NEW i \in Answers, SignIn(r, w, t, p, i)
        PROVE  Settled(s)'
    <2> DEFINE x == [provider |-> p, token |-> t, identity |-> i,
                     linked |-> FALSE, refreshing |-> FALSE]
               q == [pc |-> "signed_in", kind |-> "callback", sid |-> w, creds |-> x]
    <2>1. w # s
      BY <1>2, SettledMeans DEF SignIn
    <2>2. Away(q, job[r], s)
      BY <2>1 DEF Away
    <2>3. /\ req' = [req EXCEPT ![r] = q] /\ UNCHANGED job
          /\ cache' = [cache EXCEPT ![w] = x]
      BY <1>2 DEF SignIn, Put
    <2> HIDE DEF q, x
    <2> QED
      BY <2>1, <2>2, <2>3, <1>1, SettledStep
  <1>3. ASSUME NEW r \in Requests, NEW w \in Sids, NEW k \in AllKinds, Arrive(r, w, k)
        PROVE  Settled(s)'
    <2> DEFINE q == [pc |-> "read", kind |-> k, sid |-> w, creds |-> cache[w]]
    <2>1. Away(q, job[r], s)
      BY <1>1 DEF Away
    <2>2. req' = [req EXCEPT ![r] = q] /\ UNCHANGED <<cache, job>>
      BY <1>3 DEF Arrive
    <2> HIDE DEF q
    <2> QED
      BY <2>1, <2>2, <1>1, SettledStep
  <1>4. ASSUME NEW r \in Requests, Fault(r)
        PROVE  Settled(s)'
    <2>1. CASE RefreshFails(r)
      <3> DEFINE j == [job[r] EXCEPT !.pc = "failed"]
      <3>1. j.sid = job[r].sid
        BY DEF JobOK, Job
      <3>2. job' = [job EXCEPT ![r] = j] /\ Away(req[r], j, s) /\ UNCHANGED <<cache, req>>
        BY <2>1, <3>1, JobGoesSplit DEF Away, RefreshFails
      <3> HIDE DEF j
      <3> QED
        BY <3>2, <1>1, SettledStep
    <2>2. CASE Crash(r) \/ RequestFails(r) \/ RemovalFails(r)
      <3>1. PICK q, j : /\ q \in {req[r], NoReq} /\ j \in {job[r], NoJob}
                        /\ req' = [req EXCEPT ![r] = q] /\ job' = [job EXCEPT ![r] = j]
        BY <2>2 DEF Crash, RequestFails, RemovalFails
      <3>2. UNCHANGED cache /\ Away(q, j, s)
        BY <2>2, <3>1 DEF Crash, RequestFails, RemovalFails
      <3> QED
        BY <3>1, <3>2, <1>1, SettledStep
    <2> QED
      BY <1>4, <2>1, <2>2 DEF Fault
  <1>5. CASE UNCHANGED <<cache, req, job>>
    BY <1>1, <1>5, SettledMeans DEF Settled, Ended, Touching
  <1>6. ASSUME NEW w \in Sids, Evict(w)
        PROVE  Settled(s)'
    <2>1. cache'[s] = NoSession /\ UNCHANGED <<req, job>>
      BY <1>1, <1>6, TypeUnpack DEF Evict, Drop, GrantInv
    <2> QED
      BY <1>1, <2>1 DEF Settled, Ended, Touching
  <1> QED
    BY <1>1, <1>2, <1>3, <1>4, <1>5, <1>6, SettledRequestStep, SettledRefreshStep
       DEF Next, Tick, vars

(* Once a session has ended and those who had read it are over, no request *)
(* and no refresh brings it back (removeUserSession, validate).            *)
THEOREM EndedStaysEnded == Spec => EndedForGood
  <1>1. GrantInv /\ [Next]_vars => [\A s \in Sids : Settled(s) => Settled(s)']_vars
    BY SettledKept
  <1> QED
    BY <1>1, GrantAlways, PTL DEF Spec, EndedForGood

-----------------------------------------------------------------------------
(* The refinement: a step changes the phase of one session at most, and the *)
(* way the abstract specification allows.                                  *)

(* A request and the refresh it started are about the same session.        *)
OwnSession(q, j) ==
  /\ q.pc = "idle" => q.sid = NoSid
  /\ j.pc = "idle" => j.sid = NoSid
  /\ q.sid = NoSid \/ j.sid \in {NoSid, q.sid}
  /\ q.pc = "signed_in" => j.sid = NoSid

LifeInv ==
  /\ GrantInv
  /\ \A r \in Requests : /\ OwnSession(req[r], job[r])
                         /\ job[r].sid # NoSid => Minted(job[r].sid)

(* A step in which one actor moves, and which concerns session s only.     *)
MovesOn(r, s, q, j, x) ==
  /\ req' = [req EXCEPT ![r] = q] /\ job' = [job EXCEPT ![r] = j]
  /\ cache' = cache \/ cache' = [cache EXCEPT ![s] = x]
  /\ {req[r].sid, job[r].sid, j.sid} \subseteq {s, NoSid}
  /\ q.sid \in {s, NoSid} \/ q.creds = NoSession
  /\ OwnSession(q, j)
  /\ j.sid # NoSid => Minted(j.sid)

Moved(s) == \E r \in Requests : \E q, j, x : MovesOn(r, s, q, j, x)

(* What a request, or a refresh, becomes when it goes on or is over.       *)
KeepsReq(n, q) ==
  n \in {NoReq, q} \/ (n.sid = q.sid /\ n.pc \notin {"idle", "signed_in"})
KeepsJob(n, j) == n \in {NoJob, j} \/ (n.sid = j.sid /\ n.pc # "idle")

(* What the invariant says of one request.                                 *)
LEMMA LifeUnpack ==
  ASSUME LifeInv, NEW r \in Requests
  PROVE  /\ GrantInv /\ OwnSession(req[r], job[r])
         /\ job[r].sid # NoSid => Minted(job[r].sid)
         /\ req[r] \in Request /\ job[r] \in Job
         /\ req[r].pc # "idle" => req[r].sid \in Sids
         /\ job[r].pc # "idle" => job[r].sid \in Sids
         /\ req = [req EXCEPT ![r] = req[r]] /\ job = [job EXCEPT ![r] = job[r]]
  BY GrantUnpack DEF LifeInv, ReqOK, JobOK

(* A request, its refresh or both go on or are over.                       *)
LEMMA KeptMoves ==
  ASSUME LifeInv, NEW r \in Requests, NEW s \in Sids, s \in {req[r].sid, job[r].sid},
         NEW q, KeepsReq(q, req[r]), req' = [req EXCEPT ![r] = q],
         NEW j, KeepsJob(j, job[r]), job' = [job EXCEPT ![r] = j],
         NEW x, cache' = cache \/ cache' = [cache EXCEPT ![s] = x]
  PROVE  Moved(s)
  <1>1. s # NoSid /\ NoReq.sid = NoSid /\ NoReq.pc = "idle"
        /\ NoJob.sid = NoSid /\ NoJob.pc = "idle"
    BY NullsAssumption DEF NoReq, NoJob
  <1>2. /\ OwnSession(req[r], job[r])
        /\ job[r].sid # NoSid => Minted(job[r].sid)
    BY LifeUnpack
  <1>3. q.sid \in {req[r].sid, NoSid} /\ j.sid \in {job[r].sid, NoSid}
    BY <1>1 DEF KeepsReq, KeepsJob
  <1>4. {req[r].sid, job[r].sid} \subseteq {s, NoSid}
    BY <1>1, <1>2 DEF OwnSession
  <1>5. OwnSession(q, j)
    BY <1>1, <1>2, <1>3 DEF OwnSession, KeepsReq, KeepsJob
  <1>6. j.sid # NoSid => Minted(j.sid)
    BY <1>2, <1>3
  <1>7. MovesOn(r, s, q, j, x)
    BY <1>3, <1>4, <1>5, <1>6 DEF MovesOn
  <1> QED
    BY <1>7 DEF Moved

(* A refused request, and one that goes on with a session.                 *)
LEMMA JudgedKeeps ==
  ASSUME NEW q \in Request, NEW x, NEW pc, pc \notin {"idle", "signed_in"}
  PROVE  /\ KeepsReq(Unauthenticated(q), q)
         /\ KeepsReq(Authenticated(q, x), q)
         /\ KeepsReq([q EXCEPT !.pc = pc], q)
         /\ KeepsReq(NoReq, q) /\ KeepsReq(q, q)
  BY DEF KeepsReq, Unauthenticated, Authenticated, Request

(* A refresh that goes on, is over or does not move.                       *)
LEMMA GoingKeeps ==
  ASSUME NEW j \in Job, NEW pc, pc # "idle", NEW t, NEW x
  PROVE  /\ KeepsJob([j EXCEPT !.pc = pc], j)
         /\ KeepsJob([j EXCEPT !.pc = pc, !.token = t], j)
         /\ KeepsJob([j EXCEPT !.pc = pc, !.base = x], j)
         /\ KeepsJob(NoJob, j) /\ KeepsJob(j, j)
  BY DEF KeepsJob, Job

(* Every step of a request concerns the session of its cookie only.        *)
LEMMA RequestMoves ==
  ASSUME LifeInv, NEW r \in Requests, RequestStep(r)
  PROVE  \E s \in Sids : Moved(s)
  <1> DEFINE s == req[r].sid
  <1> USE LifeUnpack
  <1>0. req[r].pc # "idle"
    BY DEF RequestStep, SignedIn, SignedInLinked, SignInRefused, Refuse, Admit,
       StartRefresh, Answer, BackendRefuses, MayCallBackend, LinkOrganisation,
       StoreLinked, RemoveSession
  <1>1. s \in Sids /\ s # NoSid
    BY <1>0, NullsAssumption
  <1>2. ASSUME NEW q, KeepsReq(q, req[r]), req' = [req EXCEPT ![r] = q], UNCHANGED job,
               NEW x, cache' = cache \/ cache' = [cache EXCEPT ![s] = x]
        PROVE  Moved(s)
    <2>1. KeepsJob(job[r], job[r]) /\ job' = [job EXCEPT ![r] = job[r]]
      BY <1>2 DEF KeepsJob
    <2> QED
      BY <2>1, <1>1, <1>2, KeptMoves
  <1>3. ASSUME req' = [req EXCEPT ![r] = NoReq], UNCHANGED job,
               NEW x, cache' = cache \/ cache' = [cache EXCEPT ![s] = x]
        PROVE  Moved(s)
    <2>1. KeepsReq(NoReq, req[r])
      BY DEF KeepsReq
    <2> QED
      BY <2>1, <1>2, <1>3
  <1>4. CASE SignedIn(r)
    BY <1>1, <1>3, <1>4 DEF SignedIn
  <1>5. CASE SignedInLinked(r)
    BY <1>1, <1>3, <1>5 DEF SignedInLinked, Put
  <1>6. CASE SignInRefused(r)
    <2>1. CASE req' = [req EXCEPT ![r] = NoReq]
      BY <2>1, <1>1, <1>3, <1>6 DEF SignInRefused
    <2>2. ASSUME NEW w \in handed,
                 req' = [req EXCEPT ![r] = [pc |-> "refused", kind |-> "callback",
                                            sid |-> w, creds |-> NoSession]]
          PROVE  Moved(s)
      <3> DEFINE q == [pc |-> "refused", kind |-> "callback", sid |-> w,
                       creds |-> NoSession]
      <3>1. job[r].sid = NoSid /\ OwnSession(req[r], job[r])
        BY <1>6 DEF SignInRefused, OwnSession
      <3>2. OwnSession(q, job[r])
        BY <3>1 DEF OwnSession
      <3>3. q.creds = NoSession
        OBVIOUS
      <3> HIDE DEF q
      <3>4. MovesOn(r, s, q, job[r], NoSession)
        BY <3>1, <3>2, <3>3, <2>2, <1>6 DEF MovesOn, SignInRefused, q
      <3> QED
        BY <3>4 DEF Moved
    <2> QED
      BY <2>1, <2>2, <1>1, <1>6 DEF SignInRefused
  <1>7. CASE Refuse(r)
    BY <1>1, <1>2, <1>7, JudgedKeeps DEF Refuse
  <1>8. CASE Admit(r)
    BY <1>1, <1>2, <1>8, JudgedKeeps DEF Admit
  <1>9. CASE StartRefresh(r)
    <2>0. PICK pc \in {"marked", "failed"} :
            /\ job' = [job EXCEPT ![r] = [NoJob EXCEPT !.pc = pc, !.sid = req[r].sid,
                                                       !.provider = req[r].creds.provider]]
            /\ \/ Put(req[r].sid, [req[r].creds EXCEPT !.refreshing = TRUE])
               \/ UNCHANGED cache
      BY <1>9 DEF StartRefresh
    <2> DEFINE q == IF age[req[r].creds.token] = "soon"
                    THEN Authenticated(req[r], req[r].creds)
                    ELSE [req[r] EXCEPT !.pc = "waiting"]
               j == [NoJob EXCEPT !.pc = pc, !.sid = req[r].sid,
                                  !.provider = req[r].creds.provider]
               x == [req[r].creds EXCEPT !.refreshing = TRUE]
    <2>1. q.sid = s /\ q.pc \in {"handler", "waiting"}
      BY DEF Authenticated, Request
    <2>2. j.sid = s /\ j.pc # "idle"
      BY DEF NoJob
    <2>3. Minted(s)
      <3>1. req[r].creds.token \in Tokens
        BY <1>9, UsableType DEF StartRefresh, Request
      <3>2. Issued(req[r].creds.token) /\ grant[req[r].creds.token].sid = s
        <4>1. ReqFits(req[r], grant, age)
          BY GrantUnpack
        <4>2. Usable(req[r].creds)
          BY <1>9 DEF StartRefresh
        <4> QED
          BY <4>1, <4>2 DEF ReqFits, Fits, Issued
      <3> QED
        BY <3>1, <3>2 DEF Minted
    <2>4. /\ req' = [req EXCEPT ![r] = q] /\ job' = [job EXCEPT ![r] = j]
          /\ cache' = cache \/ cache' = [cache EXCEPT ![s] = x]
          /\ job[r].pc = "idle"
      BY <1>9, <2>0 DEF StartRefresh, Put
    <2>5. job[r].sid = NoSid
      BY <2>4 DEF OwnSession
    <2> HIDE DEF q, j, x
    <2>6. OwnSession(q, j)
      BY <2>1, <2>2 DEF OwnSession
    <2>7. MovesOn(r, s, q, j, x)
      BY <2>1, <2>2, <2>3, <2>4, <2>5, <2>6 DEF MovesOn
    <2> QED
      BY <2>7, <1>1 DEF Moved
  <1>10. CASE Answer(r)
    BY <1>1, <1>3, <1>10 DEF Answer
  <1>11. CASE BackendRefuses(r)
    <2>1. req' = [req EXCEPT ![r] = [req[r] EXCEPT !.pc = "refused"]]
      BY <1>11 DEF BackendRefuses
    <2> QED
      BY <2>1, <1>1, <1>2, <1>11, JudgedKeeps DEF BackendRefuses
  <1>12. CASE LinkOrganisation(r)
    <2>1. req' = [req EXCEPT ![r] = [req[r] EXCEPT !.pc = "linked"]]
      BY <1>12 DEF LinkOrganisation
    <2> QED
      BY <2>1, <1>1, <1>2, <1>12, JudgedKeeps DEF LinkOrganisation
  <1>13. CASE StoreLinked(r)
    BY <1>1, <1>3, <1>13 DEF StoreLinked, Put
  <1>14. CASE RemoveSession(r)
    BY <1>1, <1>3, <1>14 DEF RemoveSession, Drop
  <1> QED
    BY <1>4, <1>5, <1>6, <1>7, <1>8, <1>9, <1>10, <1>11, <1>12, <1>13, <1>14
       DEF RequestStep

(* Every step of a refresh concerns the session it refreshes only.         *)
LEMMA RefreshMoves ==
  ASSUME LifeInv, NEW r \in Requests, RefreshStep(r)
  PROVE  \E s \in Sids : Moved(s)
  <1> DEFINE s == job[r].sid
  <1> USE LifeUnpack
  <1>0. job[r].pc # "idle"
    BY DEF RefreshStep, PostRefresh, ProviderIssues, ProviderRejects, ReadLatest,
       Identify, IdentifyFails, StoreRefreshed, EndSession
  <1>1. s \in Sids
    BY <1>0
  <1>2. ASSUME NEW j, KeepsJob(j, job[r]), job' = [job EXCEPT ![r] = j],
               UNCHANGED <<cache, req>>
        PROVE  Moved(s)
    <2>1. KeepsReq(req[r], req[r]) /\ req' = [req EXCEPT ![r] = req[r]]
      BY <1>2 DEF KeepsReq
    <2> QED
      BY <2>1, <1>1, <1>2, KeptMoves
  <1>3. ASSUME NEW pc, pc # "idle", JobGoes(r, pc), UNCHANGED <<cache, req>>
        PROVE  Moved(s)
    <2> DEFINE j == [job[r] EXCEPT !.pc = pc]
    <2>1. KeepsJob(j, job[r])
      BY <1>3 DEF KeepsJob, Job
    <2>2. job' = [job EXCEPT ![r] = j]
      BY <1>3, JobGoesSplit
    <2> HIDE DEF j
    <2> QED
      BY <2>1, <2>2, <1>2, <1>3
  <1>4. ASSUME NEW q, KeepsReq(q, req[r]), req' = [req EXCEPT ![r] = q],
               job' = [job EXCEPT ![r] = NoJob],
               NEW x, cache' = cache \/ cache' = [cache EXCEPT ![s] = x]
        PROVE  Moved(s)
    <2>1. KeepsJob(NoJob, job[r])
      BY DEF KeepsJob
    <2> QED
      BY <2>1, <1>1, <1>4, KeptMoves
  <1>5. ASSUME EndsWithNull(r), UNCHANGED cache \/ Drop(s)
        PROVE  Moved(s)
    <2> DEFINE q == IF req[r].pc = "waiting" THEN Unauthenticated(req[r]) ELSE req[r]
    <2>1. KeepsReq(q, req[r])
      BY DEF KeepsReq, Unauthenticated, Request
    <2>2. req' = [req EXCEPT ![r] = q] /\ job' = [job EXCEPT ![r] = NoJob]
      BY <1>5 DEF EndsWithNull
    <2> HIDE DEF q
    <2> QED
      BY <2>1, <2>2, <1>4, <1>5 DEF Drop
  <1>6. ASSUME NEW t \in Tokens, ProviderIssues(r, t)
        PROVE  Moved(s)
    <2> DEFINE j == [job[r] EXCEPT !.pc = "answered", !.token = t]
    <2>1. KeepsJob(j, job[r])
      BY DEF KeepsJob, Job
    <2>2. job' = [job EXCEPT ![r] = j] /\ UNCHANGED <<cache, req>>
      BY <1>6 DEF ProviderIssues
    <2> HIDE DEF j
    <2> QED
      BY <2>1, <2>2, <1>2
  <1>7. CASE ReadLatest(r)
    <2>1. CASE EndsWithNull(r)
      BY <2>1, <1>5, <1>7 DEF ReadLatest
    <2>2. CASE ~EndsWithNull(r)
      <3> DEFINE j == [job[r] EXCEPT !.pc = "identifying", !.base = cache[job[r].sid]]
      <3>1. KeepsJob(j, job[r])
        BY DEF KeepsJob, Job
      <3>2. job' = [job EXCEPT ![r] = j] /\ UNCHANGED <<cache, req>>
        BY <1>7, <2>2 DEF ReadLatest
      <3> HIDE DEF j
      <3> QED
        BY <3>1, <3>2, <1>1, <1>2
    <2> QED
      BY <2>1, <2>2
  <1>8. CASE StoreRefreshed(r)
    <2>1. PICK x : Put(job[r].sid, x) /\ EndsWithSession(r, x)
      BY <1>8 DEF StoreRefreshed
    <2> DEFINE q == IF req[r].pc = "waiting" THEN Authenticated(req[r], x) ELSE req[r]
    <2>2. KeepsReq(q, req[r])
      BY DEF KeepsReq, Authenticated, Request
    <2>3. /\ req' = [req EXCEPT ![r] = q] /\ job' = [job EXCEPT ![r] = NoJob]
          /\ cache' = [cache EXCEPT ![s] = x]
      BY <2>1 DEF Put, EndsWithSession
    <2> HIDE DEF q
    <2> QED
      BY <2>2, <2>3, <1>1, <1>4
  <1>9. CASE EndSession(r)
    BY <1>5, <1>9 DEF EndSession
  <1>10. CASE PostRefresh(r)
    BY <1>3, <1>10 DEF PostRefresh
  <1>11. CASE ProviderRejects(r) \/ IdentifyFails(r)
    BY <1>3, <1>11 DEF ProviderRejects, IdentifyFails
  <1>12. ASSUME NEW i \in Answers, Identify(r, i)
         PROVE  Moved(s)
    BY <1>3, <1>12 DEF Identify
  <1> QED
    BY <1>1, <1>6, <1>7, <1>8, <1>9, <1>10, <1>11, <1>12 DEF RefreshStep

(* A fault ends the request, its refresh or both, or sends the refresh to  *)
(* its catch.                                                              *)
LEMMA FaultMoves ==
  ASSUME LifeInv, NEW r \in Requests, Fault(r)
  PROVE  \E s \in Sids : Moved(s)
  <1> USE LifeUnpack
  <1>1. req[r].pc # "idle" \/ job[r].pc # "idle"
    BY DEF Fault, Crash, Idle, RequestFails, RefreshFails, RemovalFails
  <1>2. PICK s \in Sids : s \in {req[r].sid, job[r].sid}
    BY <1>1
  <1>3. CASE RefreshFails(r)
    <2> DEFINE j == [job[r] EXCEPT !.pc = "failed"]
    <2>1. KeepsJob(j, job[r]) /\ KeepsReq(req[r], req[r])
      BY DEF KeepsJob, KeepsReq, Job
    <2>2. job' = [job EXCEPT ![r] = j] /\ UNCHANGED <<cache, req>>
      BY <1>3, JobGoesSplit DEF RefreshFails
    <2> HIDE DEF j
    <2> QED
      BY <2>1, <2>2, <1>2, KeptMoves
  <1>4. CASE Crash(r) \/ RequestFails(r) \/ RemovalFails(r)
    <2>1. PICK q, j : /\ q \in {req[r], NoReq} /\ j \in {job[r], NoJob}
                      /\ req' = [req EXCEPT ![r] = q] /\ job' = [job EXCEPT ![r] = j]
      BY <1>4 DEF Crash, RequestFails, RemovalFails
    <2>2. UNCHANGED cache /\ KeepsReq(q, req[r]) /\ KeepsJob(j, job[r])
      BY <2>1, <1>4 DEF Crash, RequestFails, RemovalFails, KeepsReq, KeepsJob
    <2> QED
      BY <2>1, <2>2, <1>2, KeptMoves
  <1> QED
    BY <1>3, <1>4 DEF Fault

(* A sign-in concerns the session it stores only.                          *)
LEMMA SignInMoves ==
  ASSUME LifeInv, NEW r \in Requests, NEW s \in Sids, NEW t \in Tokens,
         NEW p \in Providers, NEW i \in Answers, SignIn(r, s, t, p, i)
  PROVE  Moved(s)
  <1> USE LifeUnpack
  <1> DEFINE x == [provider |-> p, token |-> t, identity |-> i,
                   linked |-> FALSE, refreshing |-> FALSE]
             q == [pc |-> "signed_in", kind |-> "callback", sid |-> s, creds |-> x]
  <1>1. req[r].sid = NoSid /\ job[r].sid = NoSid
    BY DEF SignIn, Idle, OwnSession
  <1>2. OwnSession(q, job[r]) /\ q.sid = s
    BY <1>1 DEF OwnSession
  <1>3. /\ req' = [req EXCEPT ![r] = q] /\ UNCHANGED job
        /\ cache' = [cache EXCEPT ![s] = x]
    BY DEF SignIn, Put
  <1> HIDE DEF q, x
  <1>4. MovesOn(r, s, q, job[r], x)
    BY <1>1, <1>2, <1>3 DEF MovesOn
  <1> QED
    BY <1>4 DEF Moved

(* Every step but time and eviction concerns one session.                  *)
LEMMA NextMoves ==
  ASSUME LifeInv, [Next]_vars
  PROVE  \/ \E s \in Sids : Moved(s)
         \/ UNCHANGED <<cache, req, job>>
         \/ \E s \in Sids : Drop(s) /\ UNCHANGED <<req, job>>
  <1> USE LifeUnpack
  <1>1. ASSUME NEW r \in Requests, NEW s \in Sids, NEW k \in AllKinds, Arrive(r, s, k)
        PROVE  Moved(s)
    <2> DEFINE q == [pc |-> "read", kind |-> k, sid |-> s, creds |-> cache[s]]
    <2>1. req[r].sid = NoSid /\ job[r].sid = NoSid
      BY <1>1 DEF Arrive, Idle, OwnSession
    <2>2. OwnSession(q, job[r]) /\ q.sid = s
      BY <2>1 DEF OwnSession
    <2>3. req' = [req EXCEPT ![r] = q] /\ UNCHANGED <<cache, job>>
      BY <1>1 DEF Arrive
    <2> HIDE DEF q
    <2>4. MovesOn(r, s, q, job[r], NoSession)
      BY <2>1, <2>2, <2>3 DEF MovesOn
    <2> QED
      BY <2>4 DEF Moved
  <1> QED
    BY <1>1, SignInMoves, RequestMoves, RefreshMoves, FaultMoves
       DEF Next, Tick, Evict, vars

(* The invariant of the refinement is inductive.                           *)
LEMMA LifeNext ==
  ASSUME LifeInv, [Next]_vars
  PROVE  LifeInv'
  <1>1. GrantInv' /\ \A s : Minted(s) => Minted(s)'
    BY GrantNext, MintedKept DEF LifeInv
  <1> DEFINE Own(p) == /\ OwnSession(req'[p], job'[p])
                       /\ \A w : job'[p].sid = w /\ w # NoSid => Minted(w)'
  <1>2. SUFFICES ASSUME NEW p \in Requests PROVE Own(p)
    BY <1>1 DEF LifeInv
  <1>3. /\ OwnSession(req[p], job[p])
        /\ \A w : job[p].sid = w /\ w # NoSid => Minted(w)'
    BY <1>1 DEF LifeInv
  <1>4. CASE UNCHANGED <<req, job>>
    BY <1>3, <1>4
  <1>5. ASSUME NEW s \in Sids, NEW r \in Requests, NEW q, NEW j, NEW x,
               MovesOn(r, s, q, j, x)
        PROVE  Own(p)
    <2>1. CASE p = r
      <3>1. req'[p] = q /\ job'[p] = j
        BY <2>1, <1>5, TypeUnpack DEF MovesOn, LifeInv, GrantInv
      <3>2. OwnSession(q, j) /\ \A w : j.sid = w /\ w # NoSid => Minted(w)'
        BY <1>1, <1>5 DEF MovesOn
      <3> QED
        BY <3>1, <3>2
    <2>2. CASE p # r
      <3>1. req'[p] = req[p] /\ job'[p] = job[p]
        BY <2>2, <1>5, TypeUnpack DEF MovesOn, LifeInv, GrantInv
      <3> QED
        BY <3>1, <1>3
    <2> QED
      BY <2>1, <2>2
  <1> QED
    BY <1>4, <1>5, NextMoves DEF Moved

(* The invariant of the refinement always holds.                           *)
LEMMA LifeAlways == Spec => []LifeInv
  <1>1. Init => LifeInv
    <2> SUFFICES ASSUME Init PROVE LifeInv
      OBVIOUS
    <2>1. \A r \in Requests : OwnSession(req[r], job[r]) /\ job[r].sid = NoSid
      BY DEF Init, OwnSession, NoReq, NoJob
    <2> QED
      BY <2>1, GrantInit DEF LifeInv
  <1> QED
    BY <1>1, LifeNext, PTL DEF Spec

(* An id is minted by the sign-in that stores a session under it, and by    *)
(* nothing else.                                                           *)
LEMMA MintedBySignIn ==
  ASSUME LifeInv, [Next]_vars, NEW s \in Sids, ~Minted(s), Minted(s)'
  PROVE  \E r \in Requests, t \in Tokens, p \in Providers, i \in Answers :
           SignIn(r, s, t, p, i)
  <1> USE TypeUnpack, LifeUnpack DEF LifeInv, GrantInv, Issued
  <1>1. PICK t \in Tokens : Issued(t)' /\ grant'[t].sid = s
    BY DEF Minted
  <1>2. ~(Issued(t) /\ grant[t].sid = s)
    BY DEF Minted
  <1>3. CASE UNCHANGED <<age, grant>>
    BY <1>1, <1>2, <1>3
  <1>4. ASSUME NEW u \in Tokens, NEW w, NEW i, Issue(u, w, i)
        PROVE  w = s
    BY <1>1, <1>2, <1>4 DEF Issue, Grants
  <1>5. ASSUME NEW r \in Requests, NEW i \in Identities, Identify(r, i)
        PROVE  FALSE
    BY <1>1, <1>2, <1>5 DEF Identify, Grants
  <1>6. ASSUME NEW u \in Tokens, Tick(u)
        PROVE  FALSE
    BY <1>1, <1>2, <1>6 DEF Tick, Older
  <1>7. ASSUME NEW r \in Requests, NEW u \in Tokens, ProviderIssues(r, u)
        PROVE  FALSE
    <2>1. job[r].sid = s
      BY <1>4, <1>7 DEF ProviderIssues
    <2> QED
      BY <2>1, NullsAssumption
  <1>8. ASSUME NEW r \in Requests, NEW w \in Sids, NEW u \in Tokens,
               NEW p \in Providers, NEW i \in Answers, SignIn(r, w, u, p, i)
        PROVE  w = s
    BY <1>4, <1>8 DEF SignIn
  <1>9. ASSUME NEW r \in Requests, RequestStep(r)
        PROVE  UNCHANGED <<age, grant>>
    BY <1>9 DEF RequestStep, SignedIn, SignedInLinked, SignInRefused, Refuse, Admit,
       StartRefresh, Answer, BackendRefuses, LinkOrganisation, StoreLinked, RemoveSession
  <1>10. ASSUME NEW r \in Requests, RefreshStep(r)
         PROVE  UNCHANGED <<age, grant>>
    <2>1. CASE \/ PostRefresh(r) \/ ProviderRejects(r) \/ ReadLatest(r)
               \/ IdentifyFails(r) \/ StoreRefreshed(r) \/ EndSession(r)
      BY <2>1 DEF PostRefresh, ProviderRejects, ReadLatest, IdentifyFails,
         StoreRefreshed, EndSession
    <2> QED
      BY <2>1, <1>5, <1>7, <1>10, AnswersAssumption DEF RefreshStep
  <1>11. CASE \/ \E r \in Requests, w \in Sids, k \in AllKinds : Arrive(r, w, k)
              \/ \E r \in Requests : Fault(r)
              \/ \E w \in Sids : Evict(w)
              \/ UNCHANGED vars
    BY <1>11, <1>3 DEF Arrive, Fault, Crash, RequestFails, RefreshFails, RemovalFails,
       Evict, vars
  <1> QED
    BY <1>3, <1>6, <1>8, <1>9, <1>10, <1>11 DEF Next

(* The phase the refinement gives a session (Session's Lifecycle).          *)
PhaseOf(s) == CASE ~Minted(s)                        -> "unused"
                [] Minted(s) /\ cache[s] # NoSession -> "live"
                [] Ended(s) /\ Touching(s)           -> "ended"
                [] OTHER                             -> "closed"

(* Which phase that is.                                                   *)
LEMMA PhaseIs ==
  ASSUME NEW s
  PROVE  /\ ~Minted(s) => PhaseOf(s) = "unused"
         /\ Minted(s) /\ cache[s] # NoSession => PhaseOf(s) = "live"
         /\ Ended(s) /\ Touching(s) => PhaseOf(s) = "ended"
         /\ Settled(s) => PhaseOf(s) = "closed"
         /\ ~Minted(s) \/ (Minted(s) /\ cache[s] # NoSession)
            \/ (Ended(s) /\ Touching(s)) \/ Settled(s)
  BY DEF PhaseOf, Ended, Settled

(* Only what a step does to Minted, to the cache entry and to the holders   *)
(* of a session changes its phase.                                         *)
LEMMA PhaseKept ==
  ASSUME NEW s, Minted(s)' <=> Minted(s),
         (cache'[s] = NoSession) <=> (cache[s] = NoSession),
         Touching(s)' <=> Touching(s)
  PROVE  PhaseOf(s)' = PhaseOf(s)
  BY DEF PhaseOf, Ended

(* An actor that moves on s leaves the entry and the holders of every other *)
(* session as they are.                                                    *)
LEMMA OthersKept ==
  ASSUME LifeInv, NEW s \in Sids, Moved(s), NEW u \in Sids, u # s
  PROVE  cache'[u] = cache[u] /\ (Touching(u)' <=> Touching(u))
  <1> USE TypeUnpack DEF LifeInv, GrantInv
  <1> DEFINE Has(q, j) == (q.sid = u /\ q.creds # NoSession) \/ j.sid = u
  <1>0. PICK r \in Requests : \E q, j, x : MovesOn(r, s, q, j, x)
    BY DEF Moved
  <1>1. PICK q, j, x : MovesOn(r, s, q, j, x)
    BY <1>0
  <1>2. cache'[u] = cache[u]
    BY <1>1 DEF MovesOn
  <1>3. /\ req'[r] = q /\ job'[r] = j
        /\ \A p \in Requests \ {r} : req'[p] = req[p] /\ job'[p] = job[p]
    BY <1>1 DEF MovesOn
  <1>4. ~Has(q, j) /\ ~Has(req[r], job[r])
    BY <1>1, NullsAssumption DEF MovesOn
  <1>5. \A p \in Requests : Has(req'[p], job'[p]) <=> Has(req[p], job[p])
    BY <1>3, <1>4
  <1> QED
    BY <1>2, <1>5 DEF Touching

(* A step leaves the phase of every session but one as it is.               *)
LEMMA OnePhase ==
  ASSUME LifeInv, [Next]_vars
  PROVE  \/ \A u \in Sids : PhaseOf(u)' = PhaseOf(u)
         \/ \E s \in Sids : \A u \in Sids \ {s} : PhaseOf(u)' = PhaseOf(u)
  <1>1. \A u : Minted(u) => Minted(u)'
    BY MintedKept DEF LifeInv
  <1>2. ASSUME NEW r \in Requests, NEW s \in Sids, NEW t \in Tokens,
               NEW p \in Providers, NEW i \in Answers, SignIn(r, s, t, p, i),
               NEW u \in Sids, u # s
        PROVE  PhaseOf(u)' = PhaseOf(u)
    <2>1. Moved(s)
      BY <1>2, SignInMoves
    <2>2. cache'[u] = cache[u] /\ (Touching(u)' <=> Touching(u))
      BY <1>2, <2>1, OthersKept
    <2>3. Minted(u)' => Minted(u)
      BY <1>2, TypeUnpack DEF SignIn, Issue, Minted, Issued, LifeInv, GrantInv, Grants
    <2> QED
      BY <1>1, <2>2, <2>3, PhaseKept
  <1>3. ASSUME \A u \in Sids : Minted(u)' => Minted(u)
        PROVE  \/ \A u \in Sids : PhaseOf(u)' = PhaseOf(u)
               \/ \E s \in Sids : \A u \in Sids \ {s} : PhaseOf(u)' = PhaseOf(u)
    <2>1. ASSUME NEW s \in Sids, Moved(s), NEW u \in Sids \ {s}
          PROVE  PhaseOf(u)' = PhaseOf(u)
      BY <1>1, <1>3, <2>1, OthersKept, PhaseKept
    <2>2. ASSUME UNCHANGED <<cache, req, job>>, NEW u \in Sids
          PROVE  PhaseOf(u)' = PhaseOf(u)
      <3>1. Touching(u)' <=> Touching(u)
        BY <2>2 DEF Touching
      <3> QED
        BY <1>1, <1>3, <2>2, <3>1, PhaseKept
    <2>3. ASSUME NEW s \in Sids, Drop(s), UNCHANGED <<req, job>>, NEW u \in Sids \ {s}
          PROVE  PhaseOf(u)' = PhaseOf(u)
      <3>1. Touching(u)' <=> Touching(u)
        BY <2>3 DEF Touching
      <3>2. cache'[u] = cache[u]
        BY <2>3, TypeUnpack DEF Drop, LifeInv, GrantInv
      <3> QED
        BY <1>1, <1>3, <3>1, <3>2, PhaseKept
    <2> QED
      BY <2>1, <2>2, <2>3, NextMoves
  <1> QED
    BY <1>2, <1>3, MintedBySignIn

(* The phase of one session goes the way the abstract specification allows. *)
LEMMA PhaseGoes ==
  ASSUME LifeInv, [Next]_vars, NEW s \in Sids
  PROVE  \/ PhaseOf(s)' = PhaseOf(s)
         \/ PhaseOf(s) = "unused" /\ PhaseOf(s)' = "live"
         \/ PhaseOf(s) = "live" /\ PhaseOf(s)' \in {"ended", "closed"}
         \/ PhaseOf(s) = "ended" /\ PhaseOf(s)' \in {"live", "closed"}
  <1>1. /\ ~Minted(s)' => PhaseOf(s)' = "unused"
        /\ Minted(s)' /\ cache'[s] # NoSession => PhaseOf(s)' = "live"
        /\ Ended(s)' /\ Touching(s)' => PhaseOf(s)' = "ended"
        /\ Settled(s)' => PhaseOf(s)' = "closed"
    BY DEF PhaseOf, Ended, Settled
  <1>2. ~Minted(s)' \/ (Minted(s)' /\ cache'[s] # NoSession)
        \/ (Ended(s)' /\ Touching(s)') \/ Settled(s)'
    BY DEF Ended, Settled
  <1>3. CASE ~Minted(s)
    <2>1. Minted(s)' => cache'[s] # NoSession
      <3> SUFFICES ASSUME Minted(s)' PROVE cache'[s] # NoSession
        OBVIOUS
      <3>1. PICK r \in Requests, t \in Tokens, p \in Providers, i \in Answers :
              SignIn(r, s, t, p, i)
        BY <1>3, MintedBySignIn
      <3> DEFINE x == [provider |-> p, token |-> t, identity |-> i,
                       linked |-> FALSE, refreshing |-> FALSE]
      <3>2. x \in UserSession
        BY AnswersAssumption DEF UserSession
      <3>3. cache' = [cache EXCEPT ![s] = x]
        BY <3>1 DEF SignIn, Put
      <3> HIDE DEF x
      <3> QED
        BY <3>2, <3>3, TypeUnpack, NoSessionAssumption DEF LifeInv, GrantInv
    <2> QED
      BY <2>1, <1>1, <1>3, PhaseIs
  <1>4. CASE Minted(s) /\ ~Settled(s)
    <2>1. Minted(s)'
      BY <1>4, MintedKept DEF LifeInv
    <2>2. PhaseOf(s) \in {"live", "ended"}
      BY <1>4, PhaseIs
    <2> QED
      BY <2>1, <2>2, <1>1, <1>2
  <1>5. CASE Settled(s)
    <2>1. Settled(s)'
      BY <1>5, SettledKept DEF LifeInv
    <2> QED
      BY <2>1, <1>1, <1>5, PhaseIs
  <1> QED
    BY <1>3, <1>4, <1>5

(* The session store implements the abstract life of a session: an id goes  *)
(* to one sign-in, an ended session comes back only through a request or a *)
(* refresh that had read it, and a closed one never (removeUserSession,    *)
(* validate, the refresh that stops when the session is gone).             *)
THEOREM ImplementsTheLifecycle == Spec => ImplementsLifecycle
  <1> DEFINE phase == [s \in Sids |-> PhaseOf(s)]
  <1>1. ASSUME Init
        PROVE  Lifecycle!Init
    <2>1. ASSUME NEW s \in Sids
          PROVE  PhaseOf(s) \in {"unused", "live"}
      <3>1. Minted(s) => s \in Stored
        BY <1>1 DEF Init, Minted, Issued
      <3>2. s \in Stored => cache[s] # NoSession
        <4>1. LegacySession \in UserSession
          BY DEF LegacySession, UserSession, Providers, Identities
        <4> QED
          BY <4>1, <1>1, NoSessionAssumption DEF Init
      <3> QED
        BY <3>1, <3>2, PhaseIs
    <2> QED
      BY <2>1 DEF Lifecycle!Init, PhaseOf
  <1>2. ASSUME LifeInv, [Next]_vars
        PROVE  [Lifecycle!Next]_phase
    <2>1. CASE \A u \in Sids : PhaseOf(u)' = PhaseOf(u)
      <3>1. phase' = phase
        BY <2>1
      <3> QED
        BY <3>1
    <2>2. ASSUME NEW s \in Sids, \A u \in Sids \ {s} : PhaseOf(u)' = PhaseOf(u)
          PROVE  [Lifecycle!Next]_phase
      <3>1. phase' = [phase EXCEPT ![s] = PhaseOf(s)']
        BY <2>2
      <3>2. phase[s] = PhaseOf(s)
        OBVIOUS
      <3>3. PhaseOf(s)' = PhaseOf(s) => phase' = phase
        BY <3>1, <3>2
      <3> QED
        BY <3>1, <3>2, <3>3, <1>2, PhaseGoes
           DEF Lifecycle!Next, Lifecycle!SignIn, Lifecycle!End, Lifecycle!Revive,
               Lifecycle!Close, Lifecycle!Becomes, PhaseOf
    <2> QED
      BY <2>1, <2>2, <1>2, OnePhase
  <1> QED
    BY <1>1, <1>2, LifeAlways, PTL DEF Spec, ImplementsLifecycle, Lifecycle!Spec, PhaseOf

-----------------------------------------------------------------------------
(* Requests and refreshes come to an end.                                  *)

(* A request that is held back waits for a refresh of its own session that *)
(* is under way (createBlockingRefresh): GrantInv says so of every request.*)
THEOREM NobodyEverWaitsInVain == Spec => []NobodyWaitsInVain
  <1>1. GrantInv => NobodyWaitsInVain
    BY DEF GrantInv, WaitsForOwn, NobodyWaitsInVain
  <1> QED
    BY <1>1, GrantAlways, PTL

Left(a, b) == RequestSteps[a] + RefreshSteps[b]

(* What the points of a request and of a refresh are from their ends.      *)
LEMMA StepsOf ==
  /\ RequestSteps["idle"] = 0 /\ RequestSteps["refused"] = 1
  /\ RequestSteps["linked"] = 1 /\ RequestSteps["signed_in"] = 2
  /\ RequestSteps["handler"] = 2 /\ RequestSteps["waiting"] = 3
  /\ RequestSteps["read"] = 10
  /\ RefreshSteps["idle"] = 0 /\ RefreshSteps["failed"] = 1
  /\ RefreshSteps["storing"] = 2 /\ RefreshSteps["identifying"] = 3
  /\ RefreshSteps["answered"] = 4 /\ RefreshSteps["posted"] = 5
  /\ RefreshSteps["marked"] = 6
  BY DEF RequestSteps, RefreshSteps

(* They are natural numbers, so they cannot fall for ever.                 *)
LEMMA StepsType ==
  /\ \A a \in ReqPcs : RequestSteps[a] \in Nat
  /\ \A b \in JobPcs : RefreshSteps[b] \in Nat
  BY StepsOf DEF ReqPcs, JobPcs

(* Only the slot of the request that moves changes, and it comes nearer to *)
(* its end.                                                                *)
Nearer(r) ==
  \E q, j : /\ req' = [req EXCEPT ![r] = q] /\ job' = [job EXCEPT ![r] = j]
            /\ Left(q.pc, j.pc) < Left(req[r].pc, job[r].pc)

(* The request moves, and its refresh does not.                            *)
LEMMA RequestNearer ==
  ASSUME TypeInv, NEW r \in Requests, NEW q, req' = [req EXCEPT ![r] = q],
         UNCHANGED job, q.pc \in ReqPcs,
         RequestSteps[q.pc] < RequestSteps[req[r].pc]
  PROVE  Nearer(r)
  <1>1. req[r].pc \in ReqPcs /\ job[r].pc \in JobPcs
    BY TypeUnpack DEF Request, Job
  <1>2. job' = [job EXCEPT ![r] = job[r]]
    BY SameReq
  <1>3. Left(q.pc, job[r].pc) < Left(req[r].pc, job[r].pc)
    BY <1>1, StepsType DEF Left
  <1> QED
    BY <1>2, <1>3 DEF Nearer

(* The refresh moves, and the request that started it does not.            *)
LEMMA RefreshNearer ==
  ASSUME TypeInv, NEW r \in Requests, NEW j, job' = [job EXCEPT ![r] = j],
         UNCHANGED req, j.pc \in JobPcs,
         RefreshSteps[j.pc] < RefreshSteps[job[r].pc]
  PROVE  Nearer(r)
  <1>1. req[r].pc \in ReqPcs /\ job[r].pc \in JobPcs
    BY TypeUnpack DEF Request, Job
  <1>2. req' = [req EXCEPT ![r] = req[r]]
    BY SameReq
  <1>3. Left(req[r].pc, j.pc) < Left(req[r].pc, job[r].pc)
    BY <1>1, StepsType DEF Left
  <1> QED
    BY <1>2, <1>3 DEF Nearer

(* The refresh is over, and the request is where it was or, if it waited,  *)
(* at a point nearer to its end.                                           *)
LEMMA EndNearer ==
  ASSUME TypeInv, NEW r \in Requests, job[r].pc # "idle",
         job' = [job EXCEPT ![r] = NoJob],
         NEW q, req' = [req EXCEPT ![r] = q],
         q = req[r] \/ (req[r].pc = "waiting" /\ q.pc \in {"handler", "refused", "idle"})
  PROVE  Nearer(r)
  <1>1. req[r].pc \in ReqPcs /\ job[r].pc \in JobPcs \ {"idle"}
    BY TypeUnpack DEF Request, Job
  <1>2. /\ RefreshSteps[NoJob.pc] = 0 /\ RefreshSteps[job[r].pc] \in Nat \ {0}
    BY <1>1, StepsOf DEF NoJob, JobPcs
  <1>3. /\ RequestSteps[q.pc] \in Nat /\ RequestSteps[req[r].pc] \in Nat
        /\ RequestSteps[q.pc] <= RequestSteps[req[r].pc]
    <2>1. CASE q = req[r]
      BY <2>1, <1>1, StepsType
    <2>2. CASE req[r].pc = "waiting" /\ q.pc \in {"handler", "refused", "idle"}
      BY <2>2, StepsOf
    <2> QED
      BY <2>1, <2>2
  <1>4. Left(q.pc, NoJob.pc) < Left(req[r].pc, job[r].pc)
    BY <1>2, <1>3 DEF Left
  <1> QED
    BY <1>4 DEF Nearer

(* Where a request stands after validate.                                  *)
LEMMA AfterValidate ==
  ASSUME NEW q \in Request, NEW x
  PROVE  /\ Unauthenticated(q).pc \in {"idle", "refused"}
         /\ Authenticated(q, x).pc = "handler"
  <1>1. [q EXCEPT !.pc = "refused", !.creds = NoSession].pc = "refused"
    BY DEF Request
  <1>2. [q EXCEPT !.pc = "handler", !.creds = x].pc = "handler"
    BY DEF Request
  <1> QED
    BY <1>1, <1>2 DEF Unauthenticated, Authenticated, NoReq

(* Every step of a request.                                                *)
LEMMA RequestStepNearer ==
  ASSUME TypeInv, NEW r \in Requests, RequestStep(r)
  PROVE  Nearer(r)
  <1> USE StepsOf
  <1>1. req[r] \in Request /\ job[r] \in Job
    BY TypeUnpack DEF ReqOK, JobOK
  <1>2. /\ NoReq.pc = "idle" /\ {"idle", "refused", "linked", "handler"} \subseteq ReqPcs
        /\ \A pc : [req[r] EXCEPT !.pc = pc].pc = pc
    BY <1>1 DEF NoReq, ReqPcs, Request
  <1>3. ASSUME NEW q, req' = [req EXCEPT ![r] = q], UNCHANGED job,
               \/ q.pc = "idle" /\ req[r].pc \in ReqPcs \ {"idle"}
               \/ q.pc = "refused" /\ req[r].pc \in {"read", "handler", "signed_in"}
               \/ q.pc = "linked" /\ req[r].pc = "handler"
               \/ q.pc = "handler" /\ req[r].pc = "read"
        PROVE  Nearer(r)
    <2>1. q.pc \in ReqPcs /\ RequestSteps[q.pc] < RequestSteps[req[r].pc]
      BY <1>2, <1>3 DEF ReqPcs
    <2> QED
      BY <2>1, <1>3, RequestNearer
  <1>4. CASE SignedIn(r) \/ SignedInLinked(r) \/ Answer(r) \/ StoreLinked(r)
               \/ RemoveSession(r)
    <2>1. /\ req' = [req EXCEPT ![r] = NoReq] /\ UNCHANGED job
          /\ req[r].pc \in ReqPcs \ {"idle"}
      BY <1>4 DEF SignedIn, SignedInLinked, Answer, StoreLinked, RemoveSession, ReqPcs
    <2> QED
      BY <2>1, <1>2, <1>3
  <1>5. CASE SignInRefused(r)
    <2>1. PICK q : /\ req' = [req EXCEPT ![r] = q] /\ q.pc \in {"idle", "refused"}
      BY <1>5, <1>2 DEF SignInRefused
    <2> QED
      BY <2>1, <1>3, <1>5 DEF SignInRefused, ReqPcs
  <1>6. CASE Refuse(r)
    <2>1. /\ req' = [req EXCEPT ![r] = Unauthenticated(req[r])] /\ UNCHANGED job
          /\ req[r].pc = "read"
      BY <1>6 DEF Refuse
    <2> QED
      BY <2>1, <1>1, <1>3, AfterValidate DEF ReqPcs
  <1>7. CASE Admit(r)
    <2>1. /\ req' = [req EXCEPT ![r] = Authenticated(req[r], req[r].creds)]
          /\ UNCHANGED job /\ req[r].pc = "read"
      BY <1>7 DEF Admit
    <2> QED
      BY <2>1, <1>1, <1>3, AfterValidate
  <1>8. CASE BackendRefuses(r) \/ LinkOrganisation(r)
    <2>1. PICK pc \in {"refused", "linked"} :
            req' = [req EXCEPT ![r] = [req[r] EXCEPT !.pc = pc]]
      BY <1>8 DEF BackendRefuses, LinkOrganisation
    <2>2. UNCHANGED job /\ req[r].pc = "handler"
      BY <1>8 DEF BackendRefuses, LinkOrganisation, MayCallBackend
    <2> QED
      BY <2>1, <2>2, <1>2, <1>3
  <1>9. CASE StartRefresh(r)
    <2>1. PICK pc \in {"marked", "failed"} :
            job' = [job EXCEPT ![r] = [NoJob EXCEPT !.pc = pc, !.sid = req[r].sid,
                                                    !.provider = req[r].creds.provider]]
      BY <1>9 DEF StartRefresh
    <2> DEFINE j == [NoJob EXCEPT !.pc = pc, !.sid = req[r].sid,
                                  !.provider = req[r].creds.provider]
               q == IF age[req[r].creds.token] = "soon"
                    THEN Authenticated(req[r], req[r].creds)
                    ELSE [req[r] EXCEPT !.pc = "waiting"]
    <2>2. j.pc = pc
      BY DEF NoJob
    <2>3. q.pc \in {"handler", "waiting"}
      BY <1>1, <1>2, AfterValidate
    <2>4. /\ req' = [req EXCEPT ![r] = q] /\ job' = [job EXCEPT ![r] = j]
          /\ req[r].pc = "read" /\ job[r].pc = "idle"
      BY <1>9, <2>1 DEF StartRefresh
    <2> HIDE DEF q, j
    <2>5. Left(q.pc, j.pc) < Left(req[r].pc, job[r].pc)
      BY <2>2, <2>3, <2>4 DEF Left
    <2> QED
      BY <2>4, <2>5 DEF Nearer
  <1> QED
    BY <1>4, <1>5, <1>6, <1>7, <1>8, <1>9 DEF RequestStep

(* A refresh that only moves to another point.                             *)
LEMMA JobNearer ==
  ASSUME TypeInv, NEW r \in Requests, NEW pc \in JobPcs, JobGoes(r, pc),
         UNCHANGED req, RefreshSteps[pc] < RefreshSteps[job[r].pc]
  PROVE  Nearer(r)
  <1>1. job[r] \in Job
    BY TypeUnpack DEF JobOK
  <1>2. [job[r] EXCEPT !.pc = pc].pc = pc
    BY <1>1 DEF Job
  <1>3. job' = [job EXCEPT ![r] = [job[r] EXCEPT !.pc = pc]]
    BY DEF JobGoes
  <1> QED
    BY <1>2, <1>3, RefreshNearer

(* Every step of a refresh.                                                *)
LEMMA RefreshStepNearer ==
  ASSUME TypeInv, NEW r \in Requests, RefreshStep(r)
  PROVE  Nearer(r)
  <1> USE StepsOf DEF JobPcs
  <1>1. req[r] \in Request /\ job[r] \in Job
    BY TypeUnpack DEF ReqOK, JobOK
  <1>2. CASE PostRefresh(r)
    BY <1>2, JobNearer DEF PostRefresh
  <1>3. ASSUME NEW t \in Tokens, ProviderIssues(r, t)
        PROVE  Nearer(r)
    <2> DEFINE j == [job[r] EXCEPT !.pc = "answered", !.token = t]
    <2>1. job' = [job EXCEPT ![r] = j] /\ UNCHANGED req /\ job[r].pc = "posted"
      BY <1>3 DEF ProviderIssues
    <2>2. j.pc = "answered"
      BY <1>1 DEF Job
    <2> HIDE DEF j
    <2>3. j.pc \in JobPcs /\ RefreshSteps[j.pc] < RefreshSteps[job[r].pc]
      BY <2>1, <2>2
    <2> QED
      BY <2>1, <2>3, RefreshNearer
  <1>4. CASE ProviderRejects(r) \/ IdentifyFails(r)
    BY <1>4, JobNearer DEF ProviderRejects, IdentifyFails
  <1>5. ASSUME EndsWithNull(r), job[r].pc # "idle"
        PROVE  Nearer(r)
    <2> DEFINE q == IF req[r].pc = "waiting" THEN Unauthenticated(req[r]) ELSE req[r]
    <2>1. job' = [job EXCEPT ![r] = NoJob] /\ req' = [req EXCEPT ![r] = q]
      BY <1>5 DEF EndsWithNull
    <2>2. q = req[r] \/ (req[r].pc = "waiting" /\ q.pc \in {"handler", "refused", "idle"})
      BY <1>1, AfterValidate
    <2> HIDE DEF q
    <2> QED
      BY <2>1, <2>2, <1>5, EndNearer
  <1>6. CASE ReadLatest(r)
    <2>1. CASE EndsWithNull(r)
      BY <2>1, <1>5, <1>6 DEF ReadLatest
    <2>2. CASE /\ job' = [job EXCEPT ![r].pc = "identifying", ![r].base = cache[job[r].sid]]
               /\ UNCHANGED req
      <3> DEFINE j == [job[r] EXCEPT !.pc = "identifying", !.base = cache[job[r].sid]]
      <3>1. job' = [job EXCEPT ![r] = j] /\ UNCHANGED req /\ job[r].pc = "answered"
        BY <2>2, <1>6 DEF ReadLatest
      <3>2. j.pc = "identifying"
        BY <1>1 DEF Job
      <3> HIDE DEF j
      <3>3. j.pc \in JobPcs /\ RefreshSteps[j.pc] < RefreshSteps[job[r].pc]
        BY <3>1, <3>2
      <3> QED
        BY <3>1, <3>3, RefreshNearer
    <2> QED
      BY <2>1, <2>2, <1>6 DEF ReadLatest
  <1>7. ASSUME NEW i \in Answers, Identify(r, i)
        PROVE  Nearer(r)
    BY <1>7, JobNearer DEF Identify
  <1>8. CASE StoreRefreshed(r)
    <2>1. PICK x : EndsWithSession(r, x)
      BY <1>8 DEF StoreRefreshed
    <2> DEFINE q == IF req[r].pc = "waiting" THEN Authenticated(req[r], x) ELSE req[r]
    <2>2. job' = [job EXCEPT ![r] = NoJob] /\ req' = [req EXCEPT ![r] = q]
      BY <2>1 DEF EndsWithSession
    <2>3. q = req[r] \/ (req[r].pc = "waiting" /\ q.pc \in {"handler", "refused", "idle"})
      BY <1>1, AfterValidate
    <2> HIDE DEF q
    <2> QED
      BY <2>2, <2>3, <1>8, EndNearer DEF StoreRefreshed
  <1>9. CASE EndSession(r)
    BY <1>5, <1>9 DEF EndSession
  <1> QED
    BY <1>2, <1>3, <1>4, <1>6, <1>7, <1>8, <1>9 DEF RefreshStep

(* A crash and a failed cache command bring the end nearer as well.        *)
LEMMA FaultNearer ==
  ASSUME TypeInv, NEW r \in Requests, Fault(r)
  PROVE  Nearer(r)
  <1> USE StepsOf
  <1>1. req[r].pc \in ReqPcs /\ job[r].pc \in JobPcs
    BY TypeUnpack DEF Request, Job
  <1>2. NoReq.pc = "idle" /\ NoJob.pc = "idle"
    BY DEF NoReq, NoJob
  <1>3. CASE Crash(r)
    <2>1. req' = [req EXCEPT ![r] = NoReq] /\ job' = [job EXCEPT ![r] = NoJob]
      BY <1>3 DEF Crash
    <2>2. req[r].pc # "idle" \/ job[r].pc # "idle"
      BY <1>3 DEF Crash, Idle
    <2>3. /\ RequestSteps[req[r].pc] \in Nat /\ RefreshSteps[job[r].pc] \in Nat
          /\ RequestSteps[req[r].pc] # 0 \/ RefreshSteps[job[r].pc] # 0
      BY <2>2, <1>1 DEF ReqPcs, JobPcs
    <2>4. Left(NoReq.pc, NoJob.pc) < Left(req[r].pc, job[r].pc)
      BY <2>3, <1>2 DEF Left
    <2> QED
      BY <2>1, <2>4 DEF Nearer
  <1>4. CASE RequestFails(r)
    <2>1. /\ req' = [req EXCEPT ![r] = NoReq] /\ UNCHANGED job
          /\ req[r].pc \in {"linked", "refused", "handler"}
      BY <1>4 DEF RequestFails
    <2>2. NoReq.pc \in ReqPcs /\ RequestSteps[NoReq.pc] < RequestSteps[req[r].pc]
      BY <2>1, <1>2 DEF ReqPcs
    <2> QED
      BY <2>1, <2>2, RequestNearer
  <1>5. CASE RefreshFails(r)
    BY <1>5, JobNearer DEF RefreshFails, JobPcs
  <1>6. CASE RemovalFails(r)
    <2> DEFINE q == IF req[r].pc = "waiting" THEN NoReq ELSE req[r]
    <2>1. /\ job' = [job EXCEPT ![r] = NoJob] /\ req' = [req EXCEPT ![r] = q]
          /\ job[r].pc = "failed"
      BY <1>6 DEF RemovalFails
    <2>2. q = req[r] \/ (req[r].pc = "waiting" /\ q.pc \in {"handler", "refused", "idle"})
      BY <1>2
    <2> HIDE DEF q
    <2> QED
      BY <2>1, <2>2, EndNearer
  <1> QED
    BY <1>3, <1>4, <1>5, <1>6 DEF Fault

(* A request that has arrived and the refresh it started are over after at *)
(* most ten steps of their own, whatever others do to the session in       *)
(* between (validate, refreshIdTokenAndUpdateSession): no step sets them   *)
(* back, and nothing is tried again.                                       *)
THEOREM EndsAlwaysDrawNearer == Spec => EndsDrawNearer
  <1> DEFINE Moves == \A r \in Requests :
                        ~Idle(r) => \/ req'[r] = req[r] /\ job'[r] = job[r]
                                    \/ StepsLeft(r)' < StepsLeft(r)
  <1>1. ASSUME TypeInv, [Next]_vars
        PROVE  Moves
    <2>1. ASSUME NEW p \in Requests, Nearer(p)
          PROVE  Moves
      <3>1. PICK q, j : /\ req' = [req EXCEPT ![p] = q] /\ job' = [job EXCEPT ![p] = j]
                        /\ Left(q.pc, j.pc) < Left(req[p].pc, job[p].pc)
        BY <2>1 DEF Nearer
      <3>2. req'[p] = q /\ job'[p] = j
        BY <3>1, <1>1, TypeUnpack
      <3>3. \A r \in Requests \ {p} : req'[r] = req[r] /\ job'[r] = job[r]
        BY <3>1, <1>1, TypeUnpack
      <3> QED
        BY <3>1, <3>2, <3>3 DEF StepsLeft, Left
    <2>2. ASSUME NEW p \in Requests, Idle(p), UNCHANGED job,
                 NEW q, req' = [req EXCEPT ![p] = q]
          PROVE  Moves
      BY <2>2, <1>1, TypeUnpack
    <2>3. CASE UNCHANGED <<req, job>>
      BY <2>3
    <2>4. ASSUME NEW r \in Requests, NEW s \in Sids, NEW t \in Tokens,
                 NEW p \in Providers, NEW i \in Answers, SignIn(r, s, t, p, i)
          PROVE  Moves
      <3>1. \E q : req' = [req EXCEPT ![r] = q]
        BY <2>4 DEF SignIn
      <3> QED
        BY <3>1, <2>2, <2>4 DEF SignIn
    <2>5. ASSUME NEW r \in Requests, NEW s \in Sids, NEW k \in AllKinds, Arrive(r, s, k)
          PROVE  Moves
      BY <2>2, <2>5 DEF Arrive
    <2>6. ASSUME NEW r \in Requests, RequestStep(r) \/ RefreshStep(r) \/ Fault(r)
          PROVE  Moves
      BY <2>1, <2>6, <1>1, RequestStepNearer, RefreshStepNearer, FaultNearer
    <2>7. CASE \/ \E t \in Tokens : Tick(t)
               \/ \E s \in Sids : Evict(s)
               \/ UNCHANGED vars
      BY <2>3, <2>7 DEF Tick, Evict, vars
    <2> QED
      BY <2>4, <2>5, <2>6, <2>7, <1>1 DEF Next
  <1>2. GrantInv => TypeInv
    BY DEF GrantInv
  <1> QED
    BY <1>1, <1>2, GrantAlways, PTL DEF Spec, EndsDrawNearer
=============================================================================
