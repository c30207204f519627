------------------------- MODULE SessionMarkProofs -------------------------
(***************************************************************************)
(* The mark of a refresh, for any number of requests, session ids and      *)
(* tokens: without the linking handler it stands only while a refresh of   *)
(* the session runs.  That handler brings back a mark it has read.         *)
(***************************************************************************)
EXTENDS SessionProofs

Marked(s) == cache[s] # NoSession /\ cache[s].refreshing

(* A request that writes its credentials back holds an unmarked copy.      *)
ReqMark(q) ==
  /\ q.kind # "link" /\ q.pc # "linked"
  /\ q.pc = "signed_in" => q.creds.refreshing = FALSE

JobMark(j) == j.pc = "idle" => j.sid = NoSid

MarkInv ==
  /\ TypeInv
  /\ \A r \in Requests : ReqMark(req[r]) /\ JobMark(job[r])
  /\ MarkMeansRefreshing

(* What the invariant says of one request.                                 *)
LEMMA MarkUnpack ==
  ASSUME MarkInv, NEW r \in Requests
  PROVE  /\ ReqMark(req[r]) /\ JobMark(job[r]) /\ ReqOK(req[r]) /\ JobOK(job[r])
         /\ req[r] \in Request /\ job[r] \in Job
         /\ req = [req EXCEPT ![r] = req[r]] /\ job = [job EXCEPT ![r] = job[r]]
  BY TypeUnpack, SameReq DEF MarkInv

(* A free slot.                                                            *)
LEMMA FreeMark == ReqMark(NoReq) /\ JobMark(NoJob)
  BY DEF ReqMark, JobMark, NoReq, NoJob

(* A step of one request and its refresh: a session that is marked after   *)
(* it is the one this refresh is of, or was marked and is of another one.  *)
LEMMA MarkStep ==
  ASSUME MarkInv, TypeInv', NEW r \in Requests, NEW q, NEW j,
         req' = [req EXCEPT ![r] = q], job' = [job EXCEPT ![r] = j],
         ReqMark(q), JobMark(j), faults' = 0 => faults = 0,
         \A s \in Sids : faults' = 0 /\ Marked(s)' =>
           j.sid = s \/ (Marked(s) /\ job[r].sid # s)
  PROVE  MarkInv'
  <1>1. req \in [Requests -> Request] /\ job \in [Requests -> Job]
    BY TypeUnpack DEF MarkInv
  <1>2. \A p \in Requests : ReqMark(req'[p]) /\ JobMark(job'[p])
    BY <1>1 DEF MarkInv
  <1>3. ASSUME NEW s \in Sids, faults' = 0, Marked(s)'
        PROVE  \E p \in Requests : job'[p].sid = s
    <2>1. CASE j.sid = s
      BY <1>1, <2>1
    <2>2. CASE Marked(s) /\ job[r].sid # s
      <3>1. PICK p \in Requests : job[p].sid = s
        BY <1>3, <2>2 DEF MarkInv, MarkMeansRefreshing, Marked
      <3>2. job'[p] = job[p]
        BY <1>1, <2>2, <3>1
      <3> QED
        BY <3>1, <3>2
    <2> QED
      BY <1>3, <2>1, <2>2
  <1>4. MarkMeansRefreshing'
    BY <1>3 DEF MarkMeansRefreshing, Marked
  <1> QED
    BY <1>2, <1>4 DEF MarkInv, ReqMark, JobMark

(* A refresh that has not begun is of no session.                          *)
LEMMA IdleJob ==
  ASSUME MarkInv, NEW r \in Requests, job[r].pc = "idle", NEW s \in Sids
  PROVE  job[r].sid # s
  BY MarkUnpack, NullsAssumption DEF JobMark

(* A write of an unmarked session, or a drop.                              *)
LEMMA PutUnmarked ==
  ASSUME TypeInv, NEW w, NEW x, Put(w, x), x = NoSession \/ x.refreshing = FALSE
  PROVE  \A s \in Sids : Marked(s)' => Marked(s) /\ s # w
  BY TypeUnpack DEF Put, Marked

(* A session that is dropped is not marked.                                *)
LEMMA DropUnmarked ==
  ASSUME TypeInv, NEW w, Drop(w)
  PROVE  \A s \in Sids : Marked(s)' => Marked(s) /\ s # w
  BY TypeUnpack DEF Drop, Marked

(* A request that is refused.                                              *)
LEMMA UnauthenticatedMark ==
  ASSUME NEW q \in Request, ReqMark(q)
  PROVE  ReqMark(Unauthenticated(q))
  <1>1. CASE q.kind = "logout"
    BY <1>1, FreeMark DEF Unauthenticated
  <1>2. CASE q.kind # "logout"
    <2> DEFINE n == [q EXCEPT !.pc = "refused", !.creds = NoSession]
    <2>1. n.pc = "refused" /\ n.kind = q.kind
      BY DEF Request
    <2> QED
      BY <1>2, <2>1 DEF Unauthenticated, ReqMark
  <1> QED
    BY <1>1, <1>2

(* A request that goes on with a session.                                  *)
LEMMA AuthenticatedMark ==
  ASSUME NEW q \in Request, ReqMark(q), NEW x
  PROVE  ReqMark(Authenticated(q, x))
  <1> DEFINE n == [q EXCEPT !.pc = "handler", !.creds = x]
  <1>1. n.pc = "handler" /\ n.kind = q.kind
    BY DEF Request
  <1> QED
    BY <1>1 DEF Authenticated, ReqMark

(* A request that only moves on.                                           *)
LEMMA MovedMark ==
  ASSUME NEW q \in Request, ReqMark(q), NEW pc \in {"refused", "waiting"}
  PROVE  ReqMark([q EXCEPT !.pc = pc])
  <1> DEFINE n == [q EXCEPT !.pc = pc]
  <1>1. n.pc = pc /\ n.kind = q.kind
    BY DEF Request
  <1> HIDE DEF n
  <1>2. ReqMark(n)
    BY <1>1 DEF ReqMark
  <1> QED
    BY <1>2 DEF n

(* Steps of a request that write nothing.                                  *)
LEMMA MarkQuiet ==
  ASSUME MarkInv, TypeInv', NEW r \in Requests, NEW q, ReqMark(q),
         req' = [req EXCEPT ![r] = q], UNCHANGED <<cache, job>>, faults' = 0 => faults = 0
  PROVE  MarkInv'
  <1>1. job' = [job EXCEPT ![r] = job[r]] /\ JobMark(job[r])
    BY MarkUnpack
  <1>2. \A s \in Sids : Marked(s)' <=> Marked(s)
    BY DEF Marked
  <1>3. (\A s \in Sids : Marked(s) /\ faults = 0 => \E p \in Requests : job[p].sid = s)
    BY DEF MarkInv, MarkMeansRefreshing, Marked
  <1>4. \A s \in Sids : faults' = 0 /\ Marked(s)' => job[r].sid = s \/ (Marked(s) /\ job[r].sid # s)
    BY <1>2
  <1> QED
    BY <1>1, <1>4, MarkStep

(* Steps of a request that write an unmarked session, or drop one.         *)
LEMMA MarkWrites ==
  ASSUME MarkInv, TypeInv', NEW r \in Requests, NEW q, ReqMark(q),
         req' = [req EXCEPT ![r] = q], UNCHANGED <<job, faults>>,
         \A s \in Sids : Marked(s)' => Marked(s)
  PROVE  MarkInv'
  <1>1. job' = [job EXCEPT ![r] = job[r]] /\ JobMark(job[r])
    BY MarkUnpack
  <1>2. \A s \in Sids : faults' = 0 /\ Marked(s)' => job[r].sid = s \/ (Marked(s) /\ job[r].sid # s)
    OBVIOUS
  <1> QED
    BY <1>1, <1>2, MarkStep

(* Every step of a request keeps the invariant.                            *)
LEMMA MarkRequestStep ==
  ASSUME MarkInv, TypeInv', NEW r \in Requests, RequestStep(r)
  PROVE  MarkInv'
  <1> USE MarkUnpack
  <1>1. TypeInv
    BY DEF MarkInv
  <1>2. CASE SignedIn(r) \/ Answer(r)
    BY <1>2, FreeMark, MarkQuiet DEF SignedIn, Answer
  <1>3. CASE SignedInLinked(r)
    <2> DEFINE x == [req[r].creds EXCEPT !.linked = TRUE]
    <2>1. /\ Put(req[r].sid, x) /\ req' = [req EXCEPT ![r] = NoReq] /\ UNCHANGED <<job, faults>>
          /\ req[r].pc = "signed_in"
      BY <1>3 DEF SignedInLinked
    <2>2. x.refreshing = FALSE
      BY <2>1 DEF ReqMark, ReqOK, UserSession
    <2> HIDE DEF x
    <2>3. \A s \in Sids : Marked(s)' => Marked(s)
      BY <1>1, <2>1, <2>2, PutUnmarked
    <2> QED
      BY <2>1, <2>3, FreeMark, MarkWrites
  <1>4. CASE SignInRefused(r)
    <2>1. PICK q : /\ req' = [req EXCEPT ![r] = q]
                   /\ q = NoReq \/ (q.pc = "refused" /\ q.kind = "callback")
      BY <1>4 DEF SignInRefused
    <2>2. ReqMark(q)
      BY <2>1, FreeMark DEF ReqMark
    <2> QED
      BY <1>4, <2>1, <2>2, MarkQuiet DEF SignInRefused
  <1>5. CASE Refuse(r)
    BY <1>5, UnauthenticatedMark, MarkQuiet DEF Refuse
  <1>6. CASE Admit(r)
    BY <1>6, AuthenticatedMark, MarkQuiet DEF Admit
  <1>7. CASE StartRefresh(r)
    <2> DEFINE q == IF age[req[r].creds.token] = "soon"
                    THEN Authenticated(req[r], req[r].creds)
                    ELSE [req[r] EXCEPT !.pc = "waiting"]
    <2>1. PICK pc \in {"marked", "failed"} :
            /\ job' = [job EXCEPT ![r] = [NoJob EXCEPT !.pc = pc, !.sid = req[r].sid,
                                                       !.provider = req[r].creds.provider]]
            /\ IF pc = "marked"
               THEN Put(req[r].sid, [req[r].creds EXCEPT !.refreshing = TRUE]) /\ UNCHANGED faults
               ELSE Faulty /\ UNCHANGED cache
      BY <1>7 DEF StartRefresh
    <2> DEFINE j == [NoJob EXCEPT !.pc = pc, !.sid = req[r].sid,
                                  !.provider = req[r].creds.provider]
    <2>2. ReqMark(q) /\ req' = [req EXCEPT ![r] = q]
      BY <1>7, AuthenticatedMark, MovedMark DEF StartRefresh
    <2>3. j.pc = pc /\ j.sid = req[r].sid
      BY DEF NoJob
    <2>4. job' = [job EXCEPT ![r] = j]
      BY <2>1
    <2> HIDE DEF j, q
    <2>5. JobMark(j)
      BY <2>3 DEF JobMark
    <2>6. faults \in Nat /\ cache \in [Sids -> UserSession \cup {NoSession}]
      BY <1>1, TypeUnpack
    <2>7. faults' = 0 => faults = 0
      BY <2>1, <2>6 DEF Faulty
    <2>8. ASSUME NEW s \in Sids, faults' = 0, Marked(s)'
          PROVE  j.sid = s \/ (Marked(s) /\ job[r].sid # s)
      <3>1. pc = "marked"
        BY <2>1, <2>6, <2>8 DEF Faulty
      <3>2. s # req[r].sid => cache'[s] = cache[s]
        BY <2>1, <2>6, <3>1 DEF Put
      <3>3. job[r].sid # s
        BY <1>7, IdleJob DEF StartRefresh
      <3> QED
        BY <2>3, <2>8, <3>2, <3>3 DEF Marked
    <2> QED
      BY <2>2, <2>4, <2>5, <2>7, <2>8, MarkStep
  <1>8. CASE BackendRefuses(r)
    BY <1>8, MovedMark, MarkQuiet DEF BackendRefuses
  <1>9. ~LinkOrganisation(r) /\ ~StoreLinked(r)
    BY DEF LinkOrganisation, StoreLinked, ReqMark
  <1>10. CASE RemoveSession(r)
    <2>1. Drop(req[r].sid) /\ req' = [req EXCEPT ![r] = NoReq] /\ UNCHANGED <<job, faults>>
      BY <1>10 DEF RemoveSession
    <2>2. \A s \in Sids : Marked(s)' => Marked(s)
      BY <1>1, <2>1, DropUnmarked
    <2> QED
      BY <2>1, <2>2, FreeMark, MarkWrites
  <1> QED
    BY <1>2, <1>3, <1>4, <1>5, <1>6, <1>7, <1>8, <1>9, <1>10 DEF RequestStep

(* A refresh moves to another point.                                       *)
LEMMA MarkGoes ==
  ASSUME MarkInv, TypeInv', NEW r \in Requests, NEW j, j.sid = job[r].sid, j.pc # "idle",
         job' = [job EXCEPT ![r] = j], UNCHANGED <<cache, req>>, faults' = 0 => faults = 0
  PROVE  MarkInv'
  <1>1. req' = [req EXCEPT ![r] = req[r]] /\ ReqMark(req[r]) /\ JobMark(j)
    BY MarkUnpack DEF JobMark
  <1>2. \A s \in Sids : faults' = 0 /\ Marked(s)' => j.sid = s \/ (Marked(s) /\ job[r].sid # s)
    BY DEF Marked
  <1> QED
    BY <1>1, <1>2, MarkStep

(* The same, for the steps that change nothing else.                       *)
LEMMA MarkJobGoes ==
  ASSUME MarkInv, TypeInv', NEW r \in Requests, NEW pc, pc # "idle", JobGoes(r, pc),
         UNCHANGED <<cache, req>>, faults' = 0 => faults = 0
  PROVE  MarkInv'
  <1> DEFINE j == [job[r] EXCEPT !.pc = pc]
  <1>1. j.sid = job[r].sid /\ j.pc = pc
    BY MarkUnpack DEF Job
  <1>2. job' = [job EXCEPT ![r] = j]
    BY JobGoesSplit
  <1> HIDE DEF j
  <1> QED
    BY <1>1, <1>2, MarkGoes

(* A refresh ends, and its session is not marked any more.                 *)
LEMMA MarkEnds ==
  ASSUME MarkInv, TypeInv', NEW r \in Requests,
         \/ EndsWithNull(r)
         \/ \E x : EndsWithSession(r, x),
         \A s \in Sids : Marked(s)' => Marked(s) /\ s # job[r].sid,
         UNCHANGED faults
  PROVE  MarkInv'
  <1>1. PICK q : /\ req' = [req EXCEPT ![r] = q] /\ job' = [job EXCEPT ![r] = NoJob]
                 /\ q \in {req[r], Unauthenticated(req[r])} \/ \E x : q = Authenticated(req[r], x)
    BY DEF EndsWithNull, EndsWithSession
  <1>2. ReqMark(q)
    BY <1>1, MarkUnpack, UnauthenticatedMark, AuthenticatedMark
  <1>3. \A s \in Sids : faults' = 0 /\ Marked(s)' => NoJob.sid = s \/ (Marked(s) /\ job[r].sid # s)
    OBVIOUS
  <1> QED
    BY <1>1, <1>2, <1>3, FreeMark, MarkStep

(* Every step of a refresh keeps the invariant.                            *)
LEMMA MarkRefreshStep ==
  ASSUME MarkInv, TypeInv', NEW r \in Requests, RefreshStep(r)
  PROVE  MarkInv'
  <1>1. TypeInv
    BY DEF MarkInv
  <1>2. CASE PostRefresh(r) \/ ProviderRejects(r) \/ IdentifyFails(r)
             \/ \E i \in Answers : Identify(r, i)
    <2>1. PICK pc \in {"posted", "failed", "storing"} : JobGoes(r, pc)
      BY <1>2 DEF PostRefresh, ProviderRejects, IdentifyFails, Identify
    <2>2. UNCHANGED <<cache, req, faults>>
      BY <1>2 DEF PostRefresh, ProviderRejects, IdentifyFails, Identify
    <2> QED
      BY <2>1, <2>2, MarkJobGoes
  <1>3. ASSUME NEW t \in Tokens, ProviderIssues(r, t)
        PROVE  MarkInv'
    <2> DEFINE j == [job[r] EXCEPT !.pc = "answered", !.token = t]
    <2>1. job' = [job EXCEPT ![r] = j] /\ UNCHANGED <<cache, req, faults>>
      BY <1>3, MarkUnpack DEF ProviderIssues
    <2>2. j.sid = job[r].sid /\ j.pc = "answered"
      BY MarkUnpack DEF Job
    <2> HIDE DEF j
    <2> QED
      BY <2>1, <2>2, MarkGoes
  <1>4. CASE ReadLatest(r)
    <2>1. CASE cache[job[r].sid] = NoSession /\ EndsWithNull(r)
      <3>1. UNCHANGED <<cache, faults>>
        BY <1>4 DEF ReadLatest
      <3>2. \A s \in Sids : Marked(s)' => Marked(s) /\ s # job[r].sid
        BY <2>1, <3>1 DEF Marked
      <3> QED
        BY <2>1, <3>1, <3>2, MarkEnds
    <2>2. CASE ~(cache[job[r].sid] = NoSession /\ EndsWithNull(r))
      <3> DEFINE j == [job[r] EXCEPT !.pc = "identifying", !.base = cache[job[r].sid]]
      <3>1. job' = [job EXCEPT ![r] = j] /\ UNCHANGED <<cache, req, faults>>
        BY <1>4, <2>2, MarkUnpack DEF ReadLatest
      <3>2. j.sid = job[r].sid /\ j.pc = "identifying"
        BY MarkUnpack DEF Job
      <3> HIDE DEF j
      <3> QED
        BY <3>1, <3>2, MarkGoes
    <2> QED
      BY <2>1, <2>2
  <1>5. CASE StoreRefreshed(r)
    <2> DEFINE t == job[r].token
               x == [job[r].base EXCEPT !.token = t, !.identity = grant[t].identity,
                                        !.refreshing = FALSE]
    <2>1. Put(job[r].sid, x) /\ EndsWithSession(r, x) /\ UNCHANGED faults
      BY <1>5 DEF StoreRefreshed
    <2>2. x.refreshing = FALSE
      <3>1. job[r].base \in UserSession
        BY <1>5, MarkUnpack DEF StoreRefreshed, JobOK
      <3> QED
        BY <3>1 DEF UserSession
    <2> HIDE DEF x
    <2>3. \A s \in Sids : Marked(s)' => Marked(s) /\ s # job[r].sid
      BY <1>1, <2>1, <2>2, PutUnmarked
    <2> QED
      BY <2>1, <2>3, MarkEnds
  <1>6. CASE EndSession(r)
    <2>1. Drop(job[r].sid) /\ EndsWithNull(r) /\ UNCHANGED faults
      BY <1>6 DEF EndSession
    <2>2. \A s \in Sids : Marked(s)' => Marked(s) /\ s # job[r].sid
      BY <1>1, <2>1, DropUnmarked
    <2> QED
      BY <2>1, <2>2, MarkEnds
  <1> QED
    BY <1>2, <1>3, <1>4, <1>5, <1>6 DEF RefreshStep

(* After a fault nothing is said of marks.                                 *)
LEMMA MarkFault ==
  ASSUME MarkInv, TypeInv', NEW r \in Requests, Fault(r)
  PROVE  MarkInv'
  <1> USE MarkUnpack
  <1>1. faults \in Nat /\ Faulty
    BY TypeUnpack DEF MarkInv, Fault, Crash, RequestFails, RefreshFails, RemovalFails
  <1>2. faults' # 0
    BY <1>1 DEF Faulty
  <1>3. CASE RefreshFails(r)
    BY <1>2, <1>3, MarkJobGoes DEF RefreshFails
  <1>4. CASE Crash(r) \/ RequestFails(r) \/ RemovalFails(r)
    <2>1. PICK q, j : /\ q \in {req[r], NoReq} /\ j \in {job[r], NoJob}
                      /\ req' = [req EXCEPT ![r] = q] /\ job' = [job EXCEPT ![r] = j]
      BY <1>4 DEF Crash, RequestFails, RemovalFails
    <2>2. ReqMark(q) /\ JobMark(j)
      BY <2>1, FreeMark
    <2> QED
      BY <1>2, <2>1, <2>2, MarkStep
  <1> QED
    BY <1>3, <1>4 DEF Fault

(* At first nothing is marked.                                             *)
LEMMA MarkInit == Init => MarkInv
  <1> SUFFICES ASSUME Init PROVE MarkInv
    OBVIOUS
  <1>1. TypeInv
    BY GrantInit DEF GrantInv
  <1>2. \A r \in Requests : ReqMark(req[r]) /\ JobMark(job[r])
    BY FreeMark DEF Init
  <1>3. \A s \in Sids : ~Marked(s)
    BY DEF Init, Marked, LegacySession
  <1> QED
    BY <1>1, <1>2, <1>3 DEF MarkInv, MarkMeansRefreshing, Marked

(* The invariant is inductive without the linking handler.                 *)
LEMMA MarkNext ==
  ASSUME "link" \notin Kinds, MarkInv, TypeInv', [Next]_vars
  PROVE  MarkInv'
  <1> USE MarkUnpack
  <1>0. TypeInv
    BY DEF MarkInv
  <1>1. ASSUME NEW r \in Requests, NEW w \in Sids, NEW t \in Tokens, NEW p \in Providers,
               NEW i \in Answers, SignIn(r, w, t, p, i)
        PROVE  MarkInv'
    <2> DEFINE x == [provider |-> p, token |-> t, identity |-> i,
                     linked |-> FALSE, refreshing |-> FALSE]
               q == [pc |-> "signed_in", kind |-> "callback", sid |-> w, creds |-> x]
    <2>1. x.refreshing = FALSE /\ q.pc = "signed_in" /\ q.kind = "callback" /\ q.creds = x
      OBVIOUS
    <2>2. Put(w, x) /\ req' = [req EXCEPT ![r] = q] /\ UNCHANGED <<job, faults>>
      BY <1>1 DEF SignIn
    <2> HIDE DEF x, q
    <2>3. ReqMark(q)
      BY <2>1 DEF ReqMark
    <2>4. \A s \in Sids : Marked(s)' => Marked(s)
      BY <1>0, <2>1, <2>2, PutUnmarked
    <2> QED
      BY <2>2, <2>3, <2>4, MarkWrites
  <1>2. ASSUME NEW r \in Requests, NEW w \in Sids, NEW k \in AllKinds, Arrive(r, w, k)
        PROVE  MarkInv'
    <2> DEFINE q == [pc |-> "read", kind |-> k, sid |-> w, creds |-> cache[w]]
    <2>1. req' = [req EXCEPT ![r] = q] /\ UNCHANGED <<cache, job, faults>> /\ k # "link"
      BY <1>2 DEF Arrive
    <2>2. ReqMark(q)
      BY <2>1 DEF ReqMark
    <2> HIDE DEF q
    <2> QED
      BY <2>1, <2>2, MarkQuiet
  <1>3. ASSUME UNCHANGED <<req, job, faults>>, \A s \in Sids : Marked(s)' => Marked(s)
        PROVE  MarkInv'
    BY <1>3 DEF MarkInv, MarkMeansRefreshing, Marked, ReqMark, JobMark
  <1>4. CASE (\E t \in Tokens : Tick(t)) \/ UNCHANGED vars
    BY <1>3, <1>4 DEF Tick, vars, Marked
  <1>5. ASSUME NEW w \in Sids, Evict(w)
        PROVE  MarkInv'
    BY <1>0, <1>3, <1>5, DropUnmarked DEF Evict
  <1> QED
    BY <1>1, <1>2, <1>4, <1>5, MarkRequestStep, MarkRefreshStep, MarkFault DEF Next

(* "a flag that an id token refresh is in progress" (user-session.js): as  *)
(* long as nothing has failed, a session is marked only while a refresh of *)
(* it runs, if no linking handler writes an old copy back.                 *)
THEOREM MarkAlwaysMeansRefreshing ==
  ASSUME "link" \notin Kinds
  PROVE  Spec => []MarkMeansRefreshing
  <1>1. GrantInv => TypeInv
    BY DEF GrantInv
  <1>2. MarkInv /\ TypeInv' /\ [Next]_vars => MarkInv'
    BY MarkNext
  <1>3. MarkInv => MarkMeansRefreshing
    BY DEF MarkInv
  <1> QED
    BY <1>1, <1>2, <1>3, MarkInit, GrantAlways, PTL DEF Spec
=============================================================================
