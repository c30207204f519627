--------------------------- MODULE SummaryLogProofs ---------------------------
(***************************************************************************)
(* Theorems about SummaryLog, for any number of tabs, browsers and logs,   *)
(* whatever tabs share a browser and whatever writes lag.                  *)
(***************************************************************************)
EXTENDS SummaryLog, TLAPS

Tab == [page: Pages, id: {0} \cup Logs, form: {0} \cup Logs,
        to: {0} \cup Logs, after: {"nothing", "upload", "submit"},
        does: {"nothing", "show", "submit"}, copy: FreshDataMaps]

-----------------------------------------------------------------------------
(* The inductive invariant.                                                *)

(* What an answer says of a log with status s is the truth.                *)
Says(answer, s) == TellsTheTruth(PageFor(answer), s)

(* So do the answers of a record, of logs with these statuses.             *)
Backed(map, statuses) == \A n \in Logs : map[n] # "none" => Says(map[n], statuses[n])

(* A tab shows the truth, has a copy that will, submits the log whose      *)
(* check page it shows, and has left its page when it is sent elsewhere.   *)
TabTruth(x, statuses) ==
  /\ x.id # 0 => TellsTheTruth(x.page, statuses[x.id])
  /\ Backed(x.copy, statuses)
  /\ x.does = "submit" => x.page = "check" /\ x.id = x.to /\ x.to # 0
  /\ x.after # "nothing" => x.page = "other"

(* PagesTellTheTruth needs to know that all that pages are made from, the  *)
(* replica, the records and their copies, tells the truth.                 *)
Truth ==
  /\ \A n \in Logs : Says(replica[n], status[n])
  /\ \A b \in Browsers : Backed(yar[b], status)
  /\ \A t \in Tabs : TabTruth(tab[t], status)

(* A tab that follows a submission has an answer to show, in its copy of   *)
(* the record if it has asked, else in the record.                         *)
HasAnswer(x, map) ==
  x.after = "submit" => /\ x.to \in Logs
                        /\ (IF x.does = "show" THEN x.copy ELSE map)[x.to] # "none"

Bridged == \A t \in Tabs : Alone(t) => HasAnswer(tab[t], yar[home[t]])

IInv == TypeOK /\ Truth /\ Bridged

-----------------------------------------------------------------------------
(* The backend.                                                            *)

(* How the status of a log changes, whoever changes it.                    *)
Moves(old, new) ==
  \/ <<old, new>> \in {<<"none", "initiated">>, <<"initiated", "processing">>,
                       <<"processing", "superseded">>, <<"validated", "superseded">>,
                       <<"validated", "submitting">>, <<"validated", "submitted">>}
  \/ Works(old, new)

(* What a step of the system does to the backend.                          *)
BackendStep ==
  \/ UNCHANGED backend
  \/ \E n \in Logs, new \in Statuses : Moves(status[n], new) /\ Becomes(n, new)
  \/ /\ UNCHANGED status
     /\ \E n \in Logs : replica' = [replica EXCEPT ![n] = status[n]]

(* What an answer says is the truth when it is new.                        *)
LEMMA NewAnswer ==
  ASSUME NEW s \in Statuses
  PROVE  Says(s, s)
  BY DEF Says, TellsTheTruth, PageFor, WasSubmitted, ReuploadStates, Statuses

(* What a page says of a log stays true when the log moves on.             *)
LEMMA TruthStays ==
  ASSUME NEW page, NEW old, NEW new, Moves(old, new), TellsTheTruth(page, old)
  PROVE  TellsTheTruth(page, new)
  BY DEF Moves, Works, TellsTheTruth, WasSubmitted, ReuploadStates

(* A step of the backend keeps its types, what was true of a log stays     *)
(* true, and so does what the replica answers.                             *)
LEMMA BackendKeeps ==
  ASSUME TypeOK, \A n \in Logs : Says(replica[n], status[n]), BackendStep
  PROVE  /\ status' \in [Logs -> Statuses] /\ replica' \in [Logs -> Statuses]
         /\ \A n \in Logs : \A page : TellsTheTruth(page, status[n])
                                        => TellsTheTruth(page, status'[n])
         /\ \A n \in Logs : Says(replica'[n], status'[n])
  <1>1. status \in [Logs -> Statuses] /\ replica \in [Logs -> Statuses]
    BY DEF TypeOK
  <1>2. CASE UNCHANGED backend
    BY <1>1, <1>2 DEF backend
  <1>3. CASE \E n \in Logs, new \in Statuses : Moves(status[n], new) /\ Becomes(n, new)
    <2>1. PICK n \in Logs, new \in Statuses : Moves(status[n], new) /\ Becomes(n, new)
      BY <1>3
    <2>2. status' = [status EXCEPT ![n] = new]
      BY <2>1 DEF Becomes
    <2>3. \/ replica' = replica
          \/ replica' = [replica EXCEPT ![n] = new]
      BY <2>1 DEF Becomes
    <2>4. status' \in [Logs -> Statuses] /\ replica' \in [Logs -> Statuses]
      BY <1>1, <2>2, <2>3
    <2>5. ASSUME NEW m \in Logs, NEW page, TellsTheTruth(page, status[m])
          PROVE  TellsTheTruth(page, status'[m])
      <3>1. CASE m = n
        BY <1>1, <2>1, <2>2, <2>5, <3>1, TruthStays
      <3>2. CASE m # n
        BY <1>1, <2>2, <2>5, <3>2
      <3> QED
        BY <3>1, <3>2
    <2>6. ASSUME NEW m \in Logs
          PROVE  Says(replica'[m], status'[m])
      <3>1. CASE replica'[m] = replica[m]
        BY <2>5, <3>1 DEF Says
      <3>2. CASE m = n /\ replica'[m] = new
        <4>1. status'[m] = new
          BY <1>1, <2>2, <3>2
        <4> QED
          BY <4>1, <3>2, NewAnswer
      <3> QED
        BY <1>1, <2>3, <3>1, <3>2
    <2> QED
      BY <2>4, <2>5, <2>6
  <1>4. CASE /\ UNCHANGED status
             /\ \E n \in Logs : replica' = [replica EXCEPT ![n] = status[n]]
    <2>1. PICK n \in Logs : replica' = [replica EXCEPT ![n] = status[n]]
      BY <1>4
    <2>2. replica' \in [Logs -> Statuses]
      BY <1>1, <2>1
    <2>3. ASSUME NEW m \in Logs
          PROVE  Says(replica'[m], status'[m])
      <3>1. CASE m = n
        <4>1. replica'[m] = status[m]
          BY <1>1, <2>1, <3>1
        <4>2. Says(status[m], status[m])
          BY <1>1, NewAnswer
        <4> QED
          BY <4>1, <4>2, <1>4
      <3>2. CASE m # n
        BY <1>1, <1>4, <2>1, <3>2
      <3> QED
        BY <3>1, <3>2
    <2> QED
      BY <1>1, <1>4, <2>2, <2>3
  <1> QED
    BY <1>2, <1>3, <1>4 DEF BackendStep

(* Records and tabs that tell the truth do so after a step of the backend. *)
LEMMA TruthKept ==
  ASSUME TypeOK, \A n \in Logs : Says(replica[n], status[n]), BackendStep
  PROVE  /\ \A map : Backed(map, status) => Backed(map, status')
         /\ \A x \in Tab : TabTruth(x, status) => TabTruth(x, status')
  <1>1. \A n \in Logs : \A page : TellsTheTruth(page, status[n])
                                    => TellsTheTruth(page, status'[n])
    BY BackendKeeps
  <1>2. \A map : Backed(map, status) => Backed(map, status')
    BY <1>1 DEF Backed, Says
  <1>3. ASSUME NEW x \in Tab, TabTruth(x, status)
        PROVE  TabTruth(x, status')
    <2>1. x.id # 0 => x.id \in Logs
      BY DEF Tab
    <2>2. x.id # 0 => TellsTheTruth(x.page, status'[x.id])
      BY <1>1, <1>3, <2>1 DEF TabTruth
    <2> QED
      BY <1>2, <1>3, <2>2 DEF TabTruth
  <1> QED
    BY <1>2, <1>3

-----------------------------------------------------------------------------
(* The initial state.                                                      *)

LEMMA EmptyMap == Empty \in FreshDataMaps /\ \A n \in Logs : Empty[n] = "none"
  BY DEF Empty, FreshDataMaps

(* A tab at a page of no log is well typed, and says nothing.              *)
LEMMA AtOther ==
  ASSUME NEW statuses
  PROVE  At("other") \in Tab /\ TabTruth(At("other"), statuses)
  BY EmptyMap DEF At, Tab, Pages, TabTruth, Backed

(* The invariant holds in the initial states.                              *)
LEMMA InitIInv == Init => IInv
  <1> SUFFICES ASSUME Init PROVE IInv
    OBVIOUS
  <1>1. TypeOK
    <2>1. tab \in [Tabs -> Tab]
      BY AtOther DEF Init
    <2>2. status \in [Logs -> Statuses] /\ replica \in [Logs -> Statuses]
      BY DEF Init, Statuses
    <2>3. yar \in [Browsers -> FreshDataMaps] /\ home \in Homes
      BY EmptyMap DEF Init
    <2> QED
      BY <2>1, <2>2, <2>3 DEF TypeOK, Tab
  <1>2. \A n \in Logs : Says(replica[n], status[n])
    BY DEF Init, Says, TellsTheTruth, PageFor, ReuploadStates
  <1>3. \A b \in Browsers : Backed(yar[b], status)
    BY EmptyMap DEF Init, Backed
  <1>4. \A t \in Tabs : TabTruth(tab[t], status)
    BY AtOther DEF Init
  <1>5. Bridged
    BY DEF Init, Bridged, HasAnswer, At
  <1> QED
    BY <1>1, <1>2, <1>3, <1>4, <1>5 DEF IInv, Truth

-----------------------------------------------------------------------------
(* Steps.                                                                  *)

(* A step of the backend alone keeps the invariant.                        *)
LEMMA BackendAlone ==
  ASSUME IInv, BackendStep, UNCHANGED <<home, yar, tab>>
  PROVE  IInv'
  <1>1. TypeOK /\ Truth /\ Bridged
    BY DEF IInv
  <1>2. status' \in [Logs -> Statuses] /\ replica' \in [Logs -> Statuses]
        /\ \A n \in Logs : Says(replica'[n], status'[n])
    BY <1>1, BackendKeeps DEF Truth
  <1>3. TypeOK'
    BY <1>1, <1>2 DEF TypeOK
  <1>4. tab \in [Tabs -> Tab]
    BY <1>1 DEF TypeOK, Tab
  <1>5. \A b \in Browsers : Backed(yar[b], status')
    BY <1>1, TruthKept DEF Truth
  <1>6. \A t \in Tabs : TabTruth(tab[t], status')
    BY <1>1, <1>4, TruthKept DEF Truth
  <1>7. Truth'
    BY <1>2, <1>5, <1>6 DEF Truth
  <1>8. Bridged'
    BY <1>1 DEF Bridged, Alone
  <1> QED
    BY <1>3, <1>7, <1>8 DEF IInv

(* A step of one tab keeps the invariant if what the tab becomes, and what *)
(* the record of its browser becomes, are as they should be.               *)
LEMMA TabStep ==
  ASSUME IInv, BackendStep, home' = home, NEW t \in Tabs, NEW x \in Tab,
         NEW map \in FreshDataMaps,
         tab' = [tab EXCEPT ![t] = x], yar' = [yar EXCEPT ![home[t]] = map],
         TabTruth(x, status'), Backed(map, status'), Alone(t) => HasAnswer(x, map)
  PROVE  IInv'
  <1>1. TypeOK /\ Truth /\ Bridged
    BY DEF IInv
  <1>2. home \in [Tabs -> Browsers] /\ tab \in [Tabs -> Tab]
        /\ yar \in [Browsers -> FreshDataMaps]
    BY <1>1, HomesAssumption DEF TypeOK, Tab
  <1>3. status' \in [Logs -> Statuses] /\ replica' \in [Logs -> Statuses]
        /\ \A n \in Logs : Says(replica'[n], status'[n])
    BY <1>1, BackendKeeps DEF Truth
  <1>4. tab' \in [Tabs -> Tab] /\ yar' \in [Browsers -> FreshDataMaps]
    BY <1>2
  <1>5. TypeOK'
    BY <1>1, <1>3, <1>4 DEF TypeOK, Tab
  <1>6. ASSUME NEW b \in Browsers
        PROVE  Backed(yar'[b], status')
    <2>1. Backed(yar[b], status')
      BY <1>1, TruthKept DEF Truth
    <2>2. yar'[b] = map \/ yar'[b] = yar[b]
      BY <1>2
    <2> QED
      BY <2>1, <2>2
  <1>7. ASSUME NEW u \in Tabs
        PROVE  TabTruth(tab'[u], status')
    <2>1. TabTruth(tab[u], status')
      BY <1>1, <1>2, TruthKept DEF Truth
    <2>2. tab'[u] = x \/ tab'[u] = tab[u]
      BY <1>2
    <2> QED
      BY <2>1, <2>2
  <1>8. Truth'
    BY <1>3, <1>6, <1>7 DEF Truth
  <1>9. ASSUME NEW u \in Tabs, Alone(u)
        PROVE  HasAnswer(tab'[u], yar'[home[u]])
    <2>1. CASE u = t
      BY <1>2, <1>9, <2>1
    <2>2. CASE u # t
      <3>1. home[t] # home[u]
        BY <1>9, <2>2 DEF Alone
      <3>2. tab'[u] = tab[u] /\ yar'[home[u]] = yar[home[u]]
        BY <1>2, <2>2, <3>1
      <3> QED
        BY <1>1, <1>9, <3>2 DEF Bridged
    <2> QED
      BY <2>1, <2>2
  <1>10. Bridged'
    BY <1>9 DEF Bridged, Alone
  <1> QED
    BY <1>5, <1>8, <1>10 DEF IInv

(* The same if the record stays.                                           *)
LEMMA TabStepOnly ==
  ASSUME IInv, BackendStep, UNCHANGED <<home, yar>>, NEW t \in Tabs, NEW x \in Tab,
         tab' = [tab EXCEPT ![t] = x],
         TabTruth(x, status'), Alone(t) => HasAnswer(x, yar[home[t]])
  PROVE  IInv'
  <1>1. home[t] \in Browsers /\ yar \in [Browsers -> FreshDataMaps]
    BY HomesAssumption DEF IInv, TypeOK
  <1>2. yar[home[t]] \in FreshDataMaps /\ yar' = [yar EXCEPT ![home[t]] = yar[home[t]]]
    BY <1>1
  <1>3. Backed(yar[home[t]], status')
    BY <1>1, TruthKept DEF IInv, Truth
  <1> QED
    BY <1>2, <1>3, TabStep

(* What a step of tab t can rely on.                                       *)
LEMMA TabFacts ==
  ASSUME IInv, BackendStep, NEW t \in Tabs
  PROVE  /\ home[t] \in Browsers /\ tab \in [Tabs -> Tab] /\ tab[t] \in Tab
         /\ yar[home[t]] \in FreshDataMaps
         /\ TabTruth(tab[t], status) /\ TabTruth(tab[t], status')
         /\ Backed(yar[home[t]], status')
  <1>1. /\ home[t] \in Browsers /\ tab \in [Tabs -> Tab] /\ tab[t] \in Tab
        /\ yar[home[t]] \in FreshDataMaps
    BY HomesAssumption DEF IInv, TypeOK, Tab
  <1>2. TabTruth(tab[t], status) /\ Backed(yar[home[t]], status)
    BY <1>1 DEF IInv, Truth
  <1> QED
    BY <1>1, <1>2, TruthKept DEF IInv, Truth

(* A tab at a page of no log, perhaps with a form.                         *)
LEMMA FormTab ==
  ASSUME NEW n \in {0} \cup Logs, NEW statuses, NEW map
  PROVE  LET x == [At("other") EXCEPT !.form = n]
         IN  x \in Tab /\ TabTruth(x, statuses) /\ HasAnswer(x, map)
  BY EmptyMap DEF At, Tab, Pages, TabTruth, Backed, HasAnswer

(* The error page.                                                         *)
LEMMA ErrorTab ==
  ASSUME NEW statuses, NEW map
  PROVE  /\ At("other") \in Tab /\ TabTruth(At("other"), statuses)
         /\ HasAnswer(At("other"), map)
  BY EmptyMap DEF At, Tab, Pages, TabTruth, Backed, HasAnswer

(* A tab that is sent to the page of a log.                                *)
LEMMA RedirectTab ==
  ASSUME NEW n \in Logs, NEW after \in {"upload", "submit"}, NEW statuses, NEW map,
         after = "submit" => map[n] # "none"
  PROVE  LET x == [At("other") EXCEPT !.to = n, !.after = after]
         IN  x \in Tab /\ TabTruth(x, statuses) /\ HasAnswer(x, map)
  BY EmptyMap DEF At, Tab, Pages, TabTruth, Backed, HasAnswer

(* A tab that shows a page of a log, perhaps with a form.                  *)
LEMMA PageTab ==
  ASSUME NEW p \in Pages, NEW n \in Logs, NEW m \in {0} \cup Logs, NEW statuses, NEW map,
         TellsTheTruth(p, statuses[n])
  PROVE  LET x == PageWithForm(p, n, m)
         IN  /\ x \in Tab /\ TabTruth(x, statuses) /\ HasAnswer(x, map)
             /\ x.page = p
  <1> DEFINE x == PageWithForm(p, n, m)
  <1>1. At(p) \in Tab /\ At(p).page = p /\ At(p).after = "nothing"
        /\ At(p).does = "nothing" /\ At(p).copy = Empty
    BY EmptyMap DEF At, Tab
  <1>2. /\ x.page = p /\ x.id = n /\ x.after = "nothing" /\ x.does = "nothing"
        /\ x.copy = Empty
    BY <1>1 DEF PageWithForm, Tab
  <1>3. x \in Tab
    BY <1>1 DEF PageWithForm, Tab
  <1>4. TabTruth(x, statuses)
    BY <1>2, EmptyMap DEF TabTruth, Backed
  <1> QED
    BY <1>2, <1>3, <1>4 DEF HasAnswer

(* The page of a status is a page.                                         *)
LEMMA PageForType == \A s : PageFor(s) \in Pages
  BY DEF PageFor, Pages

(* A call that changes no status, or one status as it may.                 *)
LEMMA CallIsBackendStep ==
  /\ UNCHANGED backend => BackendStep
  /\ \A n \in Logs : Initiate(n) => BackendStep
  BY DEF BackendStep, Initiate, Moves, Statuses

(* GET of the upload page.                                                 *)
LEMMA GetUploadIInv ==
  ASSUME IInv, NEW t \in Tabs, GetUpload(t)
  PROVE  IInv'
  <1>1. BackendStep
    BY CallIsBackendStep DEF GetUpload
  <1>2. UNCHANGED <<home, yar>>
    BY DEF GetUpload
  <1>3. \/ \E n \in Logs : tab' = [tab EXCEPT ![t] = [At("other") EXCEPT !.form = n]]
        \/ tab' = [tab EXCEPT ![t] = At("other")]
    BY DEF GetUpload, Shows, Error
  <1>4. CASE \E n \in Logs : tab' = [tab EXCEPT ![t] = [At("other") EXCEPT !.form = n]]
    <2>1. PICK n \in Logs : tab' = [tab EXCEPT ![t] = [At("other") EXCEPT !.form = n]]
      BY <1>4
    <2> DEFINE x == [At("other") EXCEPT !.form = n]
    <2>2. x \in Tab /\ TabTruth(x, status') /\ HasAnswer(x, yar[home[t]])
      BY FormTab
    <2> HIDE DEF x
    <2> QED
      BY <1>1, <1>2, <2>1, <2>2, TabStepOnly DEF x
  <1>5. CASE tab' = [tab EXCEPT ![t] = At("other")]
    BY <1>1, <1>2, <1>5, ErrorTab, TabStepOnly
  <1> QED
    BY <1>3, <1>4, <1>5

(* The upload of a file.                                                   *)
LEMMA UploadIInv ==
  ASSUME IInv, NEW t \in Tabs, NEW n \in Logs, Upload(t, n)
  PROVE  IInv'
  <1>1. BackendStep
    BY DEF Upload, BackendStep, Moves, Statuses
  <1> DEFINE x == [At("other") EXCEPT !.to = n, !.after = "upload"]
  <1>2. x \in Tab /\ TabTruth(x, status') /\ HasAnswer(x, yar[home[t]])
    BY RedirectTab
  <1>3. UNCHANGED <<home, yar>> /\ tab' = [tab EXCEPT ![t] = x]
    BY DEF Upload, RedirectTo, Shows
  <1> HIDE DEF x
  <1> QED
    BY <1>1, <1>2, <1>3, TabStepOnly

(* GET of the page of a log, as it arrives.                                *)
LEMMA GetLogIInv ==
  ASSUME IInv, NEW t \in Tabs, NEW n \in Logs, GetLog(t, n)
  PROVE  IInv'
  <1>1. UNCHANGED <<home, backend, yar>> /\ BackendStep
    BY DEF GetLog, BackendStep
  <1> DEFINE x == [tab[t] EXCEPT !.to = n, !.does = "show", !.copy = yar[home[t]]]
  <1>2. /\ tab \in [Tabs -> Tab] /\ tab[t] \in Tab /\ yar[home[t]] \in FreshDataMaps
        /\ TabTruth(tab[t], status') /\ Backed(yar[home[t]], status')
    BY <1>1, TabFacts
  <1>3. tab' = [tab EXCEPT ![t] = x]
    BY <1>2 DEF GetLog, Waits, Tab
  <1>4. x \in Tab
    BY <1>2 DEF Tab
  <1>5. /\ x.id = tab[t].id /\ x.page = tab[t].page /\ x.after = tab[t].after
        /\ x.does = "show" /\ x.copy = yar[home[t]] /\ x.to = n
    BY <1>2 DEF Tab
  <1>6. TabTruth(x, status')
    BY <1>2, <1>5 DEF TabTruth
  <1>7. ASSUME Alone(t) PROVE HasAnswer(x, yar[home[t]])
    <2>1. HasAnswer(tab[t], yar[home[t]])
      BY <1>7 DEF IInv, Bridged
    <2>2. x.after = "submit" => tab[t].to = n /\ tab[t].does = "nothing"
      BY <1>5, <2>1 DEF GetLog, HasAnswer, Logs
    <2> QED
      BY <1>5, <2>1, <2>2 DEF HasAnswer
  <1>8. UNCHANGED <<home, yar>>
    BY <1>1
  <1> HIDE DEF x
  <1> QED
    BY <1>1, <1>3, <1>4, <1>6, <1>7, <1>8, TabStepOnly

(* The record after the entry of a log was taken from the copy.            *)
LEMMA ConsumesFact ==
  ASSUME IInv, BackendStep, NEW t \in Tabs, NEW n \in Logs, Consumes(t, n)
  PROVE  \E map \in FreshDataMaps : /\ yar' = [yar EXCEPT ![home[t]] = map]
                                    /\ Backed(map, status')
  <1>1. /\ home[t] \in Browsers /\ tab[t] \in Tab /\ yar[home[t]] \in FreshDataMaps
        /\ TabTruth(tab[t], status') /\ Backed(yar[home[t]], status')
    BY TabFacts
  <1>2. tab[t].copy \in FreshDataMaps /\ Backed(tab[t].copy, status')
    BY <1>1 DEF Tab, TabTruth
  <1>3. CASE UNCHANGED yar
    <2>1. yar' = [yar EXCEPT ![home[t]] = yar[home[t]]]
      BY <1>1, <1>3 DEF IInv, TypeOK
    <2> QED
      BY <1>1, <2>1
  <1>4. CASE Stores(t, Remaining(tab[t].copy, n))
    <2>1. Remaining(tab[t].copy, n) \in FreshDataMaps
      BY <1>2 DEF Remaining, FreshDataMaps
    <2>2. Backed(Remaining(tab[t].copy, n), status')
      BY <1>2 DEF Backed, Remaining, FreshDataMaps
    <2> QED
      BY <1>4, <2>1, <2>2 DEF Stores
  <1> QED
    BY <1>3, <1>4 DEF Consumes

(* The page made from the status of a log tells the truth, whether the     *)
(* status is from the copy of the record or from the backend               *)
(* (getStatusData).                                                        *)
LEMMA StatusDataTruth ==
  ASSUME IInv, NEW t \in Tabs, NEW n \in Logs, NEW s \in StatusData(t, n)
  PROVE  TellsTheTruth(PageFor(s), status[n])
  <1>1. TabTruth(tab[t], status) /\ Says(replica[n], status[n])
    BY DEF IInv, Truth
  <1>2. Says(status[n], status[n])
    BY NewAnswer DEF IInv, TypeOK
  <1> QED
    BY <1>1, <1>2 DEF StatusData, Answers, Fresh, TabTruth, Backed, Says

(* The answer to a GET of the page of a log.                               *)
LEMMA ShowLogIInv ==
  ASSUME IInv, NEW t \in Tabs, NEW n \in Logs, ShowLog(t, n)
  PROVE  IInv'
  <1>1. BackendStep
    BY CallIsBackendStep DEF ShowLog
  <1>2. home' = home /\ Consumes(t, n)
    BY DEF ShowLog
  <1>3. PICK map \in FreshDataMaps : /\ yar' = [yar EXCEPT ![home[t]] = map]
                                     /\ Backed(map, status')
    BY <1>1, <1>2, ConsumesFact
  <1>4. PICK s \in StatusData(t, n) :
          \/ tab' = [tab EXCEPT ![t] = At("other")]
          \/ \E m \in {0} \cup Logs :
               tab' = [tab EXCEPT ![t] = PageWithForm(PageFor(s), n, m)]
    BY DEF ShowLog, Shows, Error, Page
  <1>5. CASE tab' = [tab EXCEPT ![t] = At("other")]
    BY <1>1, <1>2, <1>3, <1>5, ErrorTab, TabStep
  <1>6. CASE \E m \in {0} \cup Logs :
               tab' = [tab EXCEPT ![t] = PageWithForm(PageFor(s), n, m)]
    <2>1. PICK m \in {0} \cup Logs :
               tab' = [tab EXCEPT ![t] = PageWithForm(PageFor(s), n, m)]
      BY <1>6
    <2> DEFINE x == PageWithForm(PageFor(s), n, m)
    <2>2. TellsTheTruth(PageFor(s), status'[n])
      BY <1>1, StatusDataTruth, BackendKeeps DEF IInv, Truth
    <2>3. x \in Tab /\ TabTruth(x, status') /\ HasAnswer(x, map)
      BY <2>2, PageForType, PageTab
    <2> HIDE DEF x
    <2> QED
      BY <1>1, <1>2, <1>3, <2>1, <2>3, TabStep DEF x
  <1> QED
    BY <1>4, <1>5, <1>6

(* POST of a submission, as it arrives.                                    *)
LEMMA PostSubmitIInv ==
  ASSUME IInv, NEW t \in Tabs, NEW n \in Logs, PostSubmit(t, n)
  PROVE  IInv'
  <1>1. UNCHANGED <<home, backend, yar>> /\ BackendStep
    BY DEF PostSubmit, BackendStep
  <1>2. /\ tab \in [Tabs -> Tab] /\ tab[t] \in Tab /\ yar[home[t]] \in FreshDataMaps
        /\ TabTruth(tab[t], status') /\ Backed(yar[home[t]], status')
    BY <1>1, TabFacts
  <1>3. CASE Fresh(yar[home[t]], n) # "none"
    <2> DEFINE x == [At("other") EXCEPT !.to = n, !.after = "submit"]
    <2>1. x \in Tab /\ TabTruth(x, status') /\ HasAnswer(x, yar[home[t]])
      BY <1>3, RedirectTab DEF Fresh
    <2>2. tab' = [tab EXCEPT ![t] = x]
      BY <1>3 DEF PostSubmit, RedirectTo, Shows
    <2>3. UNCHANGED <<home, yar>>
      BY <1>1
    <2> HIDE DEF x
    <2> QED
      BY <1>1, <2>1, <2>2, <2>3, TabStepOnly
  <1>4. CASE Fresh(yar[home[t]], n) = "none"
    <2> DEFINE x == [tab[t] EXCEPT !.to = n, !.does = "submit", !.copy = yar[home[t]]]
    <2>1. tab' = [tab EXCEPT ![t] = x]
      BY <1>2, <1>4 DEF PostSubmit, Waits, Tab
    <2>2. x \in Tab
      BY <1>2 DEF Tab
    <2>3. /\ x.id = tab[t].id /\ x.page = tab[t].page /\ x.after = tab[t].after
          /\ x.does = "submit" /\ x.copy = yar[home[t]] /\ x.to = n
      BY <1>2 DEF Tab
    <2>4. tab[t].page = "check" /\ tab[t].id = n /\ n # 0 /\ tab[t].after = "nothing"
      BY <1>2 DEF PostSubmit, Logs, TabTruth
    <2>5. TabTruth(x, status')
      BY <1>2, <2>3, <2>4 DEF TabTruth
    <2>6. HasAnswer(x, yar[home[t]])
      BY <2>3, <2>4 DEF HasAnswer
    <2>7. UNCHANGED <<home, yar>>
      BY <1>1
    <2> HIDE DEF x
    <2> QED
      BY <1>1, <2>1, <2>2, <2>5, <2>6, <2>7, TabStepOnly
  <1> QED
    BY <1>3, <1>4

(* The answer to a submission (submitSummaryLogController).                *)
LEMMA SubmitIInv ==
  ASSUME IInv, NEW t \in Tabs, NEW n \in Logs, Submit(t, n)
  PROVE  IInv'
  <1>1. home' = home
    BY DEF Submit
  <1>2. CASE status[n] = "validated"
    <2>1. PICK answer \in {"submitting", "submitted"} :
            /\ Becomes(n, answer)
            /\ \/ Stores(t, Kept(tab[t].copy, n, answer)) /\ RedirectTo(t, n, "submit")
               \/ Error(t) /\ UNCHANGED yar
      BY <1>2 DEF Submit
    <2>2. BackendStep
      BY <1>2, <2>1 DEF BackendStep, Moves, Statuses
    <2>3. CASE Error(t) /\ UNCHANGED yar
      BY <1>1, <2>2, <2>3, ErrorTab, TabStepOnly DEF Error, Shows
    <2>4. CASE Stores(t, Kept(tab[t].copy, n, answer)) /\ RedirectTo(t, n, "submit")
      <3> DEFINE x   == [At("other") EXCEPT !.to = n, !.after = "submit"]
                 map == Kept(tab[t].copy, n, answer)
      <3>1. tab[t].copy \in FreshDataMaps /\ Backed(tab[t].copy, status')
        BY <2>2, TabFacts DEF Tab, TabTruth
      <3>2. map \in FreshDataMaps /\ map[n] = answer
            /\ \A m \in Logs : m # n => map[m] = tab[t].copy[m]
        BY <3>1 DEF Kept, FreshDataMaps
      <3>3. Says(answer, status'[n])
        BY <2>1, NewAnswer DEF IInv, TypeOK, Becomes, Statuses
      <3>4. Backed(map, status')
        <4>1. ASSUME NEW m \in Logs, map[m] # "none"
              PROVE  Says(map[m], status'[m])
          <5>1. CASE m = n
            BY <3>2, <3>3, <5>1
          <5>2. CASE m # n
            BY <3>1, <3>2, <4>1, <5>2 DEF Backed
          <5> QED
            BY <5>1, <5>2
        <4> QED
          BY <4>1 DEF Backed
      <3>5. x \in Tab /\ TabTruth(x, status') /\ HasAnswer(x, map)
        BY <3>2, RedirectTab
      <3>6. tab' = [tab EXCEPT ![t] = x] /\ yar' = [yar EXCEPT ![home[t]] = map]
        BY <2>4 DEF RedirectTo, Shows, Stores
      <3> HIDE DEF x, map
      <3> QED
        BY <1>1, <2>2, <3>2, <3>4, <3>5, <3>6, TabStep
    <2> QED
      BY <2>1, <2>3, <2>4
  <1>3. CASE status[n] # "validated"
    <2>1. Shows(t, Page("conflict", n)) /\ UNCHANGED <<backend, yar>>
      BY <1>3 DEF Submit
    <2>2. BackendStep /\ status' = status
      BY <2>1 DEF BackendStep, backend
    <2>3. TellsTheTruth("check", status[n])
      BY <2>2, TabFacts DEF Submit, TabTruth
    <2>4. TellsTheTruth("conflict", status'[n])
      BY <1>3, <2>2, <2>3 DEF TellsTheTruth
    <2> DEFINE x == PageWithForm("conflict", n, 0)
    <2>5. x \in Tab /\ TabTruth(x, status') /\ HasAnswer(x, yar[home[t]])
      BY <2>4, PageTab DEF Pages
    <2>6. tab' = [tab EXCEPT ![t] = x] /\ UNCHANGED <<home, yar>>
      BY <1>1, <2>1 DEF Shows, Page
    <2> HIDE DEF x
    <2> QED
      BY <2>2, <2>5, <2>6, TabStepOnly
  <1> QED
    BY <1>2, <1>3

(* A call that fails.                                                      *)
LEMMA FailsIInv ==
  ASSUME IInv, NEW t \in Tabs, NEW n \in Logs, Fails(t, n)
  PROVE  IInv'
  <1>1. BackendStep /\ home' = home /\ tab' = [tab EXCEPT ![t] = At("other")]
    BY DEF Fails, BackendStep, Error, Shows
  <1>2. CASE UNCHANGED yar
    BY <1>1, <1>2, ErrorTab, TabStepOnly
  <1>3. CASE Consumes(t, n)
    <2>1. PICK map \in FreshDataMaps : /\ yar' = [yar EXCEPT ![home[t]] = map]
                                       /\ Backed(map, status')
      BY <1>1, <1>3, ConsumesFact
    <2> QED
      BY <1>1, <2>1, ErrorTab, TabStep
  <1> QED
    BY <1>2, <1>3 DEF Fails

(* Whatever happens, the invariant is kept.                                *)
LEMMA NextIInv ==
  ASSUME IInv, [Next]_vars
  PROVE  IInv'
  <1>1. ASSUME NEW t \in Tabs, GetUpload(t) PROVE IInv'
    BY <1>1, GetUploadIInv
  <1>2. ASSUME NEW t \in Tabs, NEW n \in Logs,
               \/ Upload(t, n) \/ GetLog(t, n) \/ ShowLog(t, n)
               \/ PostSubmit(t, n) \/ Submit(t, n) \/ Fails(t, n)
        PROVE  IInv'
    BY <1>2, UploadIInv, GetLogIInv, ShowLogIInv, PostSubmitIInv, SubmitIInv, FailsIInv
  <1>3. ASSUME NEW n \in Logs, Progress(n) PROVE IInv'
    <2>1. BackendStep
      BY <1>3 DEF Progress, BackendStep, Moves
    <2> QED
      BY <1>3, <2>1, BackendAlone DEF Progress
  <1>4. ASSUME NEW n \in Logs, Supersede(n) PROVE IInv'
    <2>1. BackendStep
      BY <1>4 DEF Supersede, BackendStep, Moves, Statuses
    <2> QED
      BY <1>4, <2>1, BackendAlone DEF Supersede
  <1>5. ASSUME NEW n \in Logs, Replicate(n) PROVE IInv'
    <2>1. BackendStep
      BY <1>5 DEF Replicate, BackendStep
    <2> QED
      BY <1>5, <2>1, BackendAlone DEF Replicate
  <1>6. CASE UNCHANGED vars
    BY <1>6, BackendAlone DEF vars, BackendStep
  <1> QED
    BY <1>1, <1>2, <1>3, <1>4, <1>5, <1>6 DEF Next

(* The invariant, of every behaviour.                                      *)
LEMMA Invariance == Spec => []IInv
  <1>1. IInv /\ [Next]_vars => IInv'
    BY NextIInv
  <1> QED
    BY InitIInv, <1>1, PTL DEF Spec

-----------------------------------------------------------------------------
(* Theorems.                                                               *)

(* The state is well typed: in particular the record holds answers to      *)
(* submissions and nothing else (submitSummaryLogController).              *)
THEOREM TypeCorrect == Spec => []TypeOK
  <1>1. IInv => TypeOK
    BY DEF IInv
  <1> QED
    BY Invariance, <1>1, PTL

(* What the page of a log says of it is so, however many tabs share a      *)
(* browser and whatever the backend's reads lag behind (getStatusData,     *)
(* renderViewForStatus, submitSummaryLogController).                       *)
THEOREM PagesAreTrue == Spec => []PagesTellTheTruth
  <1>1. IInv => PagesTellTheTruth
    BY DEF IInv, Truth, TabTruth, PagesTellTheTruth
  <1> QED
    BY Invariance, <1>1, PTL

(* What a step that sends a tab to a page after a submission is: the       *)
(* record had an answer, or the submission was made.                       *)
LEMMA SentAfterSubmit ==
  ASSUME IInv, [Next]_vars, NEW t \in Tabs,
         tab[t].after # "submit", tab'[t].after = "submit"
  PROVE  \E n \in Logs : \/ PostSubmit(t, n) /\ Fresh(yar[home[t]], n) # "none"
                         \/ Submit(t, n) /\ status'[n] \in {"submitting", "submitted"}
  <1>1. tab \in [Tabs -> Tab] /\ status \in [Logs -> Statuses]
    BY DEF IInv, TypeOK, Tab
  <1>2. ~ UNCHANGED tab
    OBVIOUS
  <1>3. ASSUME NEW u \in Tabs, GetUpload(u) PROVE FALSE
    BY <1>1, <1>3 DEF GetUpload, Shows, Error, At, Tab
  <1>4. ASSUME NEW u \in Tabs, NEW n \in Logs, Upload(u, n) PROVE FALSE
    BY <1>1, <1>4 DEF Upload, RedirectTo, Shows, At, Tab
  <1>5. ASSUME NEW u \in Tabs, NEW n \in Logs, GetLog(u, n) PROVE FALSE
    BY <1>1, <1>5 DEF GetLog, Waits, Tab
  <1>6. ASSUME NEW u \in Tabs, NEW n \in Logs, ShowLog(u, n) PROVE FALSE
    <2>1. \/ tab' = [tab EXCEPT ![u] = At("other")]
          \/ \E p : \E m \in {0} \cup Logs :
               tab' = [tab EXCEPT ![u] = PageWithForm(p, n, m)]
      BY <1>6 DEF ShowLog, Shows, Error, Page
    <2>2. CASE tab' = [tab EXCEPT ![u] = At("other")]
      <3>1. At("other").after = "nothing"
        BY DEF At
      <3> QED
        BY <1>1, <2>2, <3>1
    <2>3. ASSUME NEW p, NEW m \in {0} \cup Logs,
                 tab' = [tab EXCEPT ![u] = PageWithForm(p, n, m)]
          PROVE  FALSE
      <3>1. PageWithForm(p, n, m).after = "nothing"
        BY DEF PageWithForm, At
      <3> QED
        BY <1>1, <2>3, <3>1
    <2> QED
      BY <2>1, <2>2, <2>3
  <1>7. ASSUME NEW u \in Tabs, NEW n \in Logs, Fails(u, n) PROVE FALSE
    BY <1>1, <1>7 DEF Fails, Shows, Error, At, Tab
  <1>8. ASSUME NEW u \in Tabs, NEW n \in Logs, PostSubmit(u, n)
        PROVE  u = t /\ Fresh(yar[home[t]], n) # "none"
    BY <1>1, <1>8 DEF PostSubmit, RedirectTo, Waits, Shows, At, Tab
  <1>9. ASSUME NEW u \in Tabs, NEW n \in Logs, Submit(u, n)
        PROVE  u = t /\ status'[n] \in {"submitting", "submitted"}
    <2>1. u = t
      BY <1>1, <1>9 DEF Submit, RedirectTo, Error, Page, PageWithForm, Shows, At, Tab
    <2>2. CASE status[n] = "validated"
      BY <1>1, <1>9, <2>1, <2>2 DEF Submit, Becomes
    <2>3. CASE status[n] # "validated"
      <3>1. tab' = [tab EXCEPT ![u] = PageWithForm("conflict", n, 0)]
        BY <1>9, <2>3 DEF Submit, Page, Shows
      <3>2. PageWithForm("conflict", n, 0).after = "nothing"
        BY DEF PageWithForm, At
      <3> QED
        BY <1>1, <2>1, <3>1, <3>2
    <2> QED
      BY <2>1, <2>2, <2>3
  <1>10. ASSUME NEW n \in Logs, Progress(n) \/ Supersede(n) \/ Replicate(n) PROVE FALSE
    BY <1>2, <1>10 DEF Progress, Supersede, Replicate
  <1>11. Next
    BY <1>2 DEF vars
  <1> QED
    BY <1>3, <1>4, <1>5, <1>6, <1>7, <1>8, <1>9, <1>10, <1>11 DEF Next

(* A submission that is answered like a success is one, whatever the tabs  *)
(* of the browser do to the record (submitSummaryLogController).           *)
THEOREM NoneDropped == Spec => NoSubmissionIsDropped
  <1>1. ASSUME IInv, [Next]_vars, NEW t \in Tabs,
               tab[t].page = "check", tab'[t].after = "submit"
        PROVE  status'[tab[t].id] \in WasSubmitted
    <2>1. /\ TabTruth(tab[t], status) /\ home[t] \in Browsers
          /\ yar[home[t]] \in FreshDataMaps /\ Backed(yar[home[t]], status)
      BY <1>1, HomesAssumption DEF IInv, TypeOK, Truth
    <2>2. tab[t].after # "submit"
      BY <1>1, <2>1 DEF TabTruth
    <2>3. PICK n \in Logs :
            \/ PostSubmit(t, n) /\ Fresh(yar[home[t]], n) # "none"
            \/ Submit(t, n) /\ status'[n] \in {"submitting", "submitted"}
      BY <1>1, <2>2, SentAfterSubmit
    <2>4. CASE PostSubmit(t, n) /\ Fresh(yar[home[t]], n) # "none"
      <3>1. tab[t].id = n /\ status' = status
        BY <2>4 DEF PostSubmit, backend
      <3>2. yar[home[t]][n] \in {"submitting", "submitted"}
        BY <2>1, <2>4 DEF Fresh, FreshDataMaps
      <3>3. Says(yar[home[t]][n], status[n])
        BY <2>1, <3>2 DEF Backed
      <3>4. PageFor("submitting") = "submitting" /\ PageFor("submitted") = "success"
        BY DEF PageFor, ReuploadStates
      <3>5. status[n] \in WasSubmitted
        BY <3>2, <3>3, <3>4 DEF Says, TellsTheTruth, WasSubmitted
      <3> QED
        BY <3>1, <3>5
    <2>5. CASE Submit(t, n) /\ status'[n] \in {"submitting", "submitted"}
      <3>1. tab[t].id = n
        BY <2>1, <2>5 DEF Submit, TabTruth
      <3> QED
        BY <2>5, <3>1 DEF WasSubmitted
    <2> QED
      BY <2>3, <2>4, <2>5
  <1>2. IInv /\ [Next]_vars =>
          [\A t \in Tabs : tab[t].page = "check" /\ tab'[t].after = "submit"
             => status'[tab[t].id] \in WasSubmitted]_vars
    BY <1>1
  <1> QED
    BY Invariance, <1>2, PTL DEF Spec, NoSubmissionIsDropped

(* What the page that follows a submission may be, in a browser with no    *)
(* other tab.                                                              *)
LEMMA PageAfterSubmit ==
  ASSUME IInv, [Next]_vars, NEW t \in Tabs, Alone(t),
         tab[t].after = "submit", tab'[t].after # "submit"
  PROVE  tab'[t].page # "check"
  <1>1. /\ tab \in [Tabs -> Tab] /\ TabTruth(tab[t], status)
        /\ HasAnswer(tab[t], yar[home[t]])
    BY DEF IInv, TypeOK, Tab, Truth, Bridged
  <1>2. tab[t].to \in Logs /\ tab[t].page = "other" /\ ~ UNCHANGED tab
    BY <1>1 DEF HasAnswer, TabTruth
  <1>3. tab'[t].page = "check" => tab'[t].page # tab[t].page
    BY <1>2
  <1>4. ASSUME NEW u \in Tabs, GetUpload(u) PROVE tab'[t].page # "check"
    BY <1>1, <1>2, <1>4 DEF GetUpload, Shows, Error, At, Tab
  <1>5. ASSUME NEW u \in Tabs, NEW n \in Logs, Upload(u, n) PROVE tab'[t].page # "check"
    BY <1>1, <1>2, <1>5 DEF Upload, RedirectTo, Shows, At, Tab
  <1>6. ASSUME NEW u \in Tabs, NEW n \in Logs, GetLog(u, n) PROVE tab'[t].page # "check"
    BY <1>1, <1>2, <1>6 DEF GetLog, Waits, Tab
  <1>7. ASSUME NEW u \in Tabs, NEW n \in Logs, ShowLog(u, n) PROVE tab'[t].page # "check"
    <2>1. CASE u # t
      BY <1>1, <1>2, <1>7, <2>1 DEF ShowLog, Shows, Error
    <2>2. CASE u = t
      <3>1. tab[t].copy[n] # "none" /\ tab[t].copy \in FreshDataMaps
        BY <1>1, <1>7, <2>2 DEF ShowLog, HasAnswer, Tab
      <3>2. StatusData(t, n) \subseteq {"submitting", "submitted"}
        BY <3>1 DEF StatusData, Fresh, FreshDataMaps
      <3>3. PICK s \in {"submitting", "submitted"} :
              \/ tab' = [tab EXCEPT ![t] = At("other")]
              \/ \E m \in {0} \cup Logs :
                   tab' = [tab EXCEPT ![t] = PageWithForm(PageFor(s), n, m)]
        BY <1>7, <2>2, <3>2 DEF ShowLog, Shows, Error, Page
      <3>4. PageFor(s) \in Pages /\ PageFor(s) # "check"
        BY DEF PageFor, Pages
      <3>5. \A m \in {0} \cup Logs : PageWithForm(PageFor(s), n, m).page = PageFor(s)
        BY DEF PageWithForm, At
      <3>6. At("other").page = "other"
        BY DEF At
      <3> QED
        BY <1>1, <3>3, <3>4, <3>5, <3>6
    <2> QED
      BY <2>1, <2>2
  <1>8. ASSUME NEW u \in Tabs, NEW n \in Logs, PostSubmit(u, n)
        PROVE  tab'[t].page # "check"
    BY <1>1, <1>2, <1>8 DEF PostSubmit, RedirectTo, Waits, Shows, At, Tab
  <1>9. ASSUME NEW u \in Tabs, NEW n \in Logs, Submit(u, n) PROVE tab'[t].page # "check"
    <2>1. \/ tab' = [tab EXCEPT ![u] = At("other")]
          \/ tab' = [tab EXCEPT ![u] = PageWithForm("conflict", n, 0)]
          \/ RedirectTo(u, n, "submit")
      BY <1>9 DEF Submit, Error, Page, Shows
    <2>2. CASE tab' = [tab EXCEPT ![u] = At("other")]
      <3>1. At("other").page = "other"
        BY DEF At
      <3> QED
        BY <1>1, <1>2, <2>2, <3>1
    <2>3. CASE tab' = [tab EXCEPT ![u] = PageWithForm("conflict", n, 0)]
      <3>1. PageWithForm("conflict", n, 0).page = "conflict"
        BY DEF PageWithForm, At
      <3> QED
        BY <1>1, <1>2, <2>3, <3>1
    <2>4. CASE RedirectTo(u, n, "submit")
      BY <1>1, <1>2, <2>4 DEF RedirectTo, Shows, At, Tab
    <2> QED
      BY <2>1, <2>2, <2>3, <2>4
  <1>10. ASSUME NEW u \in Tabs, NEW n \in Logs, Fails(u, n) PROVE tab'[t].page # "check"
    BY <1>1, <1>2, <1>10 DEF Fails, Error, Shows, At, Tab
  <1>11. ASSUME NEW n \in Logs, Progress(n) \/ Supersede(n) \/ Replicate(n) PROVE FALSE
    BY <1>2, <1>11 DEF Progress, Supersede, Replicate
  <1>12. Next
    BY <1>2 DEF vars
  <1> QED
    BY <1>4, <1>5, <1>6, <1>7, <1>8, <1>9, <1>10, <1>11, <1>12 DEF Next

(* The page that follows a submission does not offer the log again, in a   *)
(* browser with no other tab, whatever the backend reads (types.js).       *)
THEOREM LagIsBridged == Spec => SubmissionBridgesLag
  <1>1. IInv /\ [Next]_vars =>
          [\A t \in Tabs : /\ Alone(t)
                           /\ tab[t].after = "submit" /\ tab'[t].after # "submit"
                           => tab'[t].page # "check"]_vars
    BY PageAfterSubmit
  <1> QED
    BY Invariance, <1>1, PTL DEF Spec, SubmissionBridgesLag

-----------------------------------------------------------------------------
(* The refinement of Announcements.                                        *)

So == {f \in Facts : TellsTheTruth(f[2], status[f[1]])}

TellsOf(x) == {f \in Facts : f = <<x.id, x.page>>}
Told       == [t \in Tabs |-> TellsOf(tab[t])]

SilentPages == {"other", "processing"}

(* The pages of logs that tell something, and logs.                        *)
LEMMA FactsAre ==
  /\ \A p, n : <<n, p>> \in Facts <=> n \in Logs /\ p \in Pages \ SilentPages
  /\ \A f \in Facts : f = <<f[1], f[2]>> /\ f[1] \in Logs /\ f[2] \in Pages \ SilentPages
  BY DEF Facts, SilentPages

(* What tells something tells one thing.                                   *)
LEMMA TellsOne ==
  ASSUME NEW x
  PROVE  /\ <<x.id, x.page>> \in Facts => TellsOf(x) = {<<x.id, x.page>>}
         /\ <<x.id, x.page>> \notin Facts => TellsOf(x) = {}
  BY DEF TellsOf

(* No log has become anything before there is one.                         *)
LEMMA NothingYet == Init => So = {} /\ Told = [t \in Tabs |-> {}]
  <1> SUFFICES ASSUME Init PROVE So = {} /\ Told = [t \in Tabs |-> {}]
    OBVIOUS
  <1>1. ASSUME NEW f \in Facts
        PROVE  ~TellsTheTruth(f[2], status[f[1]])
    <2>1. status[f[1]] = "none" /\ f[2] \in Pages \ SilentPages
      BY FactsAre DEF Init
    <2> QED
      BY <2>1 DEF TellsTheTruth, WasSubmitted, ReuploadStates, Pages, SilentPages
  <1>2. ASSUME NEW t \in Tabs
        PROVE  TellsOf(tab[t]) = {}
    <2>1. tab[t].page = "other"
      BY DEF Init, At
    <2> QED
      BY <2>1, FactsAre, TellsOne DEF SilentPages
  <1> QED
    BY <1>1, <1>2 DEF So, Told

(* A step of the backend takes nothing back.                               *)
LEMMA SoGrows ==
  ASSUME IInv, BackendStep
  PROVE  So \subseteq So' /\ So' \subseteq Facts
  <1>1. \A n \in Logs : \A page : TellsTheTruth(page, status[n])
                                    => TellsTheTruth(page, status'[n])
    BY BackendKeeps DEF IInv, Truth
  <1> QED
    BY <1>1, FactsAre DEF So

(* A log that has no file yet is told nothing of, so making one changes    *)
(* nothing that is told.                                                   *)
LEMMA InitiateSilent ==
  ASSUME TypeOK, UNCHANGED backend \/ \E n \in Logs : Initiate(n)
  PROVE  So' = So
  <1>1. CASE UNCHANGED backend
    BY <1>1 DEF So, backend
  <1>2. CASE \E n \in Logs : Initiate(n)
    <2>1. PICK n \in Logs : Initiate(n)
      BY <1>2
    <2>2. /\ status \in [Logs -> Statuses] /\ status[n] = "none"
          /\ status' = [status EXCEPT ![n] = "initiated"]
      BY <2>1 DEF TypeOK, Initiate, Becomes
    <2>3. ASSUME NEW f \in Facts
          PROVE  TellsTheTruth(f[2], status'[f[1]]) <=> TellsTheTruth(f[2], status[f[1]])
      <3>1. CASE f[1] = n
        <4>1. /\ status[f[1]] = "none" /\ status'[f[1]] = "initiated"
              /\ f[2] \in Pages \ SilentPages
          BY <2>2, <3>1, FactsAre
        <4> QED
          BY <4>1 DEF TellsTheTruth, WasSubmitted, ReuploadStates, Pages, SilentPages
      <3>2. CASE f[1] # n
        BY <2>2, <3>2, FactsAre
      <3> QED
        BY <3>1, <3>2
    <2> QED
      BY <2>3 DEF So
  <1> QED
    BY <1>1, <1>2

(* What a step does to announcements: one tab goes to a page, and either   *)
(* that page tells nothing, or no more is so than before.                  *)
Announces(t, x) ==
  /\ tab' = [tab EXCEPT ![t] = x]
  /\ x.page \in SilentPages \/ So' = So

(* Such a step is one of the abstract specification.                       *)
LEMMA AnnouncesStep ==
  ASSUME IInv, IInv', BackendStep, NEW t \in Tabs, NEW x, Announces(t, x)
  PROVE  [Announced!Next]_<<So, Told>>
  <1>1. So \subseteq So' /\ So' \subseteq Facts
    BY SoGrows
  <1>2. tab' = [tab EXCEPT ![t] = x] /\ tab \in [Tabs -> Tab]
    BY DEF Announces, IInv, TypeOK, Tab
  <1>3. tab'[t] = x /\ \A u \in Tabs \ {t} : tab'[u] = tab[u]
    BY <1>2
  <1>4. Told' = [Told EXCEPT ![t] = TellsOf(x)]
    BY <1>3 DEF Told, TellsOf
  <1>5. CASE <<x.id, x.page>> \notin Facts
    <2>1. Told' = [Told EXCEPT ![t] = {}]
      BY <1>4, <1>5, TellsOne
    <2> QED
      BY <2>1, <1>1
      DEF Announced!Next, Announced!Leave, Announced!Grows, So, Told, TellsOf
  <1>6. CASE <<x.id, x.page>> \in Facts
    <2> DEFINE f == <<x.id, x.page>>
    <2>1. x.page \notin SilentPages /\ x.id \in Logs
      BY <1>6, FactsAre
    <2>2. So' = So
      BY <2>1 DEF Announces
    <2>3. TellsTheTruth(x.page, status'[x.id])
      <3>1. TabTruth(tab'[t], status')
        BY DEF IInv, Truth
      <3> QED
        BY <3>1, <2>1, <1>3 DEF TabTruth, Logs
    <2>4. f \in So
      BY <2>2, <2>3, <1>6 DEF So
    <2>5. Told' = [Told EXCEPT ![t] = {f}]
      BY <1>4, <1>6, TellsOne
    <2> QED
      BY <2>2, <2>4, <2>5 DEF Announced!Next, Announced!Tell, So, Told, TellsOf
  <1> QED
    BY <1>5, <1>6

(* Every step of a tab: what makes something so sends the tab elsewhere.   *)
LEMMA TabAnnounces ==
  ASSUME IInv, NEW t \in Tabs,
         \/ GetUpload(t)
         \/ \E n \in Logs : \/ Upload(t, n) \/ GetLog(t, n) \/ ShowLog(t, n)
                            \/ PostSubmit(t, n) \/ Submit(t, n) \/ Fails(t, n)
  PROVE  \E x : Announces(t, x)
  <1>1. tab \in [Tabs -> Tab] /\ tab[t] \in Tab
    BY DEF IInv, TypeOK, Tab
  <1>2. "other" \in SilentPages /\ At("other").page = "other"
    BY DEF SilentPages, At
  <1>3. UNCHANGED backend => So' = So
    BY InitiateSilent DEF IInv
  <1>4. CASE GetUpload(t)
    <2>1. So' = So
      BY <1>4, InitiateSilent DEF GetUpload, IInv
    <2> QED
      BY <1>4, <2>1 DEF GetUpload, Shows, Error, Announces
  <1>5. ASSUME NEW n \in Logs, NEW after, RedirectTo(t, n, after)
        PROVE  \E x : Announces(t, x)
    <2>1. [At("other") EXCEPT !.to = n, !.after = after].page = "other"
      BY DEF At
    <2> QED
      BY <1>2, <1>5, <2>1 DEF RedirectTo, Shows, Announces
  <1>6. CASE Error(t)
    BY <1>2, <1>6 DEF Error, Shows, Announces
  <1>7. ASSUME NEW n \in Logs, Upload(t, n)
        PROVE  \E x : Announces(t, x)
    BY <1>5, <1>7 DEF Upload
  <1>8. ASSUME NEW n \in Logs, NEW does, Waits(t, n, does), UNCHANGED backend
        PROVE  \E x : Announces(t, x)
    <2>1. tab' = [tab EXCEPT ![t] = [tab[t] EXCEPT !.to = n, !.does = does,
                                                   !.copy = yar[home[t]]]]
      BY <1>1, <1>8 DEF Waits
    <2> QED
      BY <1>3, <1>8, <2>1 DEF Announces
  <1>9. ASSUME NEW n \in Logs, GetLog(t, n)
        PROVE  \E x : Announces(t, x)
    BY <1>8, <1>9 DEF GetLog, backend
  <1>10. ASSUME NEW n \in Logs, ShowLog(t, n)
         PROVE  \E x : Announces(t, x)
    <2>1. So' = So
      BY <1>10, InitiateSilent DEF ShowLog, IInv
    <2> QED
      BY <1>10, <2>1 DEF ShowLog, Shows, Error, Announces
  <1>11. ASSUME NEW n \in Logs, PostSubmit(t, n)
         PROVE  \E x : Announces(t, x)
    <2>1. UNCHANGED backend
      BY <1>11 DEF PostSubmit, backend
    <2> QED
      BY <1>5, <1>8, <1>11, <2>1 DEF PostSubmit
  <1>12. ASSUME NEW n \in Logs, Submit(t, n)
         PROVE  \E x : Announces(t, x)
    <2>1. \/ RedirectTo(t, n, "submit") \/ Error(t)
          \/ Shows(t, Page("conflict", n)) /\ UNCHANGED backend
      BY <1>12 DEF Submit, backend
    <2> QED
      BY <1>3, <1>5, <1>6, <2>1 DEF Shows, Announces
  <1>13. ASSUME NEW n \in Logs, Fails(t, n)
         PROVE  \E x : Announces(t, x)
    BY <1>6, <1>13 DEF Fails
  <1> QED
    BY <1>4, <1>7, <1>9, <1>10, <1>11, <1>12, <1>13

(* What a step of a tab does to the backend.                               *)
LEMMA TabBackend ==
  ASSUME NEW t \in Tabs,
         \/ GetUpload(t)
         \/ \E n \in Logs : \/ Upload(t, n) \/ GetLog(t, n) \/ ShowLog(t, n)
                            \/ PostSubmit(t, n) \/ Submit(t, n) \/ Fails(t, n)
  PROVE  BackendStep
  <1>1. CASE GetUpload(t)
    BY <1>1, CallIsBackendStep DEF GetUpload
  <1>2. ASSUME NEW n \in Logs, Upload(t, n)
        PROVE  BackendStep
    BY <1>2 DEF Upload, BackendStep, Moves, Statuses
  <1>3. ASSUME NEW n \in Logs, ShowLog(t, n)
        PROVE  BackendStep
    BY <1>3, CallIsBackendStep DEF ShowLog
  <1>4. ASSUME NEW n \in Logs, GetLog(t, n) \/ PostSubmit(t, n) \/ Fails(t, n)
        PROVE  BackendStep
    <2>1. UNCHANGED backend
      BY <1>4 DEF GetLog, PostSubmit, Fails, backend
    <2> QED
      BY <2>1, CallIsBackendStep
  <1>5. ASSUME NEW n \in Logs, Submit(t, n)
        PROVE  BackendStep
    <2>1. \/ UNCHANGED backend
          \/ \E answer \in {"submitting", "submitted"} :
               status[n] = "validated" /\ Becomes(n, answer)
      BY <1>5 DEF Submit
    <2> QED
      BY <2>1 DEF BackendStep, Moves, Statuses
  <1> QED
    BY <1>1, <1>2, <1>3, <1>4, <1>5

(* The pages implement the announcements: what they tell of a log was so   *)
(* before a step showed it, and the backend takes none of it back          *)
(* (renderViewForStatus, submitSummaryLogController).                      *)
THEOREM ImplementsTheAnnouncements == Spec => ImplementsAnnouncements
  <1>1. Init => Announced!Init
    BY NothingYet DEF Announced!Init, So, Told, TellsOf
  <1>2. ASSUME IInv, [Next]_vars
        PROVE  [Announced!Next]_<<So, Told>>
    <2>1. IInv'
      BY <1>2, NextIInv
    <2>2. ASSUME NEW t \in Tabs,
                 \/ GetUpload(t)
                 \/ \E n \in Logs : \/ Upload(t, n) \/ GetLog(t, n) \/ ShowLog(t, n)
                                    \/ PostSubmit(t, n) \/ Submit(t, n) \/ Fails(t, n)
          PROVE  [Announced!Next]_<<So, Told>>
      BY <1>2, <2>1, <2>2, TabAnnounces, TabBackend, AnnouncesStep
    <2>3. ASSUME BackendStep, UNCHANGED tab
          PROVE  [Announced!Next]_<<So, Told>>
      <3>1. So \subseteq So' /\ So' \subseteq Facts /\ Told' = Told
        BY <1>2, <2>3, SoGrows DEF Told, TellsOf
      <3> QED
        BY <3>1 DEF Announced!Next, Announced!Happen, Announced!Grows, So, Told, TellsOf
    <2>4. ASSUME NEW n \in Logs, Progress(n) \/ Supersede(n) \/ Replicate(n)
          PROVE  [Announced!Next]_<<So, Told>>
      <3>1. BackendStep
        BY <2>4 DEF Progress, Supersede, Replicate, BackendStep, Moves, Statuses
      <3> QED
        BY <2>3, <2>4, <3>1 DEF Progress, Supersede, Replicate
    <2>5. CASE UNCHANGED vars
      BY <2>3, <2>5 DEF vars, BackendStep
    <2> QED
      BY <1>2, <2>2, <2>4, <2>5 DEF Next
  <1> QED
    BY <1>1, <1>2, Invariance, PTL
    DEF Spec, ImplementsAnnouncements, Announced!Spec, So, Told, TellsOf
-----------------------------------------------------------------------------
(* The answers kept run out.                                               *)

(* A tab of browser b has no more chances than it had.                     *)
NoMore == \A b, s : Chances(b, s)' \subseteq Chances(b, s)

(* Nothing is won by a step that leaves the records: a tab that asks had   *)
(* the chance before, for the record was what it has copied.               *)
LEMMA Calm ==
  ASSUME IInv, UNCHANGED <<home, yar>>, NEW t \in Tabs, NEW x,
         tab' = [tab EXCEPT ![t] = x],
         x.does = "show" => x.copy = yar[home[t]]
  PROVE  NoMore
  <1>1. tab \in [Tabs -> Tab]
    BY DEF IInv, TypeOK, Tab
  <1> SUFFICES ASSUME NEW b, NEW s, NEW c \in Chances(b, s)'
               PROVE  c \in Chances(b, s)
    BY DEF NoMore
  <1>2. c \in {u \in Tabs : home[u] = b} \X {"asked", "asks"}
    BY DEF Chances
  <1>3. PICK u \in Tabs, w \in {"asked", "asks"} : c = <<u, w>> /\ home[u] = b
    BY <1>2
  <1>4. CASE Entries(yar[b]) = s
    BY <1>2, <1>4 DEF Chances
  <1>5. CASE /\ w = "asked" /\ tab'[u].does = "show"
             /\ Entries(tab'[u].copy) = s /\ tab'[u].to \in s
    <2>1. CASE u = t
      <3>1. tab'[u] = x
        BY <1>1, <2>1
      <3> QED
        BY <1>2, <1>3, <1>5, <2>1, <3>1 DEF Chances
    <2>2. CASE u # t
      <3>1. tab'[u] = tab[u]
        BY <1>1, <2>2
      <3> QED
        BY <1>2, <1>3, <1>5, <3>1 DEF Chances
    <2> QED
      BY <2>1, <2>2
  <1> QED
    BY <1>3, <1>4, <1>5 DEF Chances

(* Such a step shows nobody a kept answer, if it does not to the tab that  *)
(* acts.                                                                   *)
LEMMA CalmRunsOut ==
  ASSUME IInv, NoMore, UNCHANGED home, NEW t \in Tabs, NEW x,
         tab' = [tab EXCEPT ![t] = x], ~TakesKept(t)
  PROVE  \A b \in Browsers : RunsOut(b)
  <1>1. tab \in [Tabs -> Tab]
    BY DEF IInv, TypeOK, Tab
  <1>2. ASSUME NEW u \in Tabs PROVE ~TakesKept(u)
    <2>1. u # t => tab'[u] = tab[u]
      BY <1>1
    <2> QED
      BY <2>1 DEF TakesKept
  <1> QED
    BY <1>2 DEF NoMore, RunsOut

(* Who is shown an answer stores the record it has copied without it: the  *)
(* tab has lost its chance, and what may be won is a chance of the others  *)
(* with one entry less.                                                    *)
LEMMA TakingRunsOut ==
  ASSUME IInv, UNCHANGED home, NEW t \in Tabs, NEW n \in Logs, NEW x,
         tab[t].does = "show", tab[t].to = n, n \in Entries(tab[t].copy),
         tab' = [tab EXCEPT ![t] = x], x.does = "nothing",
         Stores(t, Remaining(tab[t].copy, n))
  PROVE  \A b \in Browsers : RunsOut(b)
  <1>1. /\ tab \in [Tabs -> Tab] /\ yar \in [Browsers -> FreshDataMaps]
        /\ home \in [Tabs -> Browsers]
    BY HomesAssumption DEF IInv, TypeOK, Tab
  <1>2. tab[t].copy \in FreshDataMaps
    BY <1>1 DEF Tab
  <1>3. PICK held \in SUBSET Logs : held = Entries(tab[t].copy)
    BY DEF Entries
  <1>4. PICK left \in SUBSET Logs : left = held \ {n}
    OBVIOUS
  <1>5. PICK here \in Browsers : here = home[t]
    BY <1>1
  <1>6. Entries(Remaining(tab[t].copy, n)) = left
    BY <1>2, <1>3, <1>4 DEF Entries, Remaining, FreshDataMaps
  <1>7. tab'[t] = x /\ \A u \in Tabs : u # t => tab'[u] = tab[u]
    BY <1>1
  <1>8. /\ yar'[here] = Remaining(tab[t].copy, n)
        /\ \A b \in Browsers : b # here => yar'[b] = yar[b]
    BY <1>1, <1>5 DEF Stores
  <1>9. left \subseteq held /\ left # held /\ n \in held
    BY <1>3, <1>4
  <1>10. ASSUME NEW b \in Browsers, NEW s \in SUBSET Logs, ~(b = here /\ s = left)
        PROVE  Chances(b, s)' \subseteq Chances(b, s)
    <2> SUFFICES ASSUME NEW c \in Chances(b, s)'
                 PROVE  c \in Chances(b, s)
      OBVIOUS
    <2>1. c \in {u \in Tabs : home[u] = b} \X {"asked", "asks"}
      BY DEF Chances
    <2>2. PICK u \in Tabs, w \in {"asked", "asks"} : c = <<u, w>> /\ home[u] = b
      BY <2>1
    <2>3. CASE Entries(yar'[b]) = s
      <3>1. b # here
        BY <1>6, <1>8, <1>10, <2>3
      <3> QED
        BY <1>8, <2>1, <2>3, <3>1 DEF Chances
    <2>4. CASE /\ w = "asked" /\ tab'[u].does = "show"
               /\ Entries(tab'[u].copy) = s /\ tab'[u].to \in s
      <3>1. u # t
        BY <1>7, <2>4
      <3> QED
        BY <1>7, <2>1, <2>2, <2>4, <3>1 DEF Chances
    <2> QED
      BY <2>2, <2>3, <2>4 DEF Chances
  <1>11. Fewer(here, held)
    <2>1. Chances(here, held)' \subseteq Chances(here, held)
      BY <1>9, <1>10
    <2>2. <<t, "asked">> \in Chances(here, held)
      BY <1>9, <1>3, <1>5 DEF Chances
    <2>3. <<t, "asked">> \notin Chances(here, held)'
      <3>1. Entries(yar'[here]) # held
        BY <1>6, <1>8, <1>9
      <3>2. tab'[t].does # "show"
        BY <1>7
      <3> QED
        BY <3>1, <3>2 DEF Chances
    <2> QED
      BY <2>1, <2>2, <2>3 DEF Fewer
  <1> SUFFICES ASSUME NEW b \in Browsers
               PROVE  RunsOut(b)
    OBVIOUS
  <1>12. ASSUME NEW u \in Tabs, home[u] = b, TakesKept(u)
        PROVE  \E s \in SUBSET Logs : Fewer(b, s)
    <2>1. u = t
      BY <1>7, <1>12 DEF TakesKept
    <2> QED
      BY <1>11, <1>12, <1>5, <2>1
  <1>13. ASSUME NEW s \in SUBSET Logs, ~(Chances(b, s)' \subseteq Chances(b, s))
         PROVE  \E q \in SUBSET Logs : s \subseteq q /\ s # q /\ Fewer(b, q)
    <2>1. b = here /\ s = left
      BY <1>10, <1>13
    <2> QED
      BY <1>9, <1>11, <2>1
  <1> QED
    BY <1>12, <1>13 DEF RunsOut

(* The answer to a GET of the page of a log, or its failure.               *)
LEMMA AnswerRunsOut ==
  ASSUME IInv, UNCHANGED home, NEW t \in Tabs, NEW n \in Logs, NEW x,
         tab[t].does = "show", tab[t].to = n,
         tab' = [tab EXCEPT ![t] = x], x.does = "nothing", Consumes(t, n)
  PROVE  \A b \in Browsers : RunsOut(b)
  <1>1. CASE n \in Entries(tab[t].copy)
    BY <1>1, TakingRunsOut DEF Consumes, Fresh, Entries
  <1>2. CASE n \notin Entries(tab[t].copy)
    <2>1. UNCHANGED <<home, yar>>
      BY <1>2 DEF Consumes, Fresh, Entries
    <2>2. NoMore
      BY <2>1, Calm
    <2> QED
      BY <1>2, <2>2, CalmRunsOut DEF TakesKept
  <1> QED
    BY <1>1, <1>2

(* A tab that asked for no page of a log is answered, or asks for one.     *)
LEMMA OtherRunsOut ==
  ASSUME IInv, UNCHANGED <<home, yar>>, NEW t \in Tabs, NEW x, tab[t].does # "show",
         tab' = [tab EXCEPT ![t] = x], x.does = "show" => x.copy = yar[home[t]]
  PROVE  \A b \in Browsers : RunsOut(b)
  BY Calm, CalmRunsOut DEF TakesKept

(* Every page there is does nothing.                                       *)
LEMMA PagesDoNothing ==
  /\ \A p : At(p).does = "nothing"
  /\ \A n : [At("other") EXCEPT !.form = n].does = "nothing"
  /\ \A n, after : [At("other") EXCEPT !.to = n, !.after = after].does = "nothing"
  /\ \A p, n, m : PageWithForm(p, n, m).does = "nothing"
  BY DEF At, PageWithForm

(* What the tabs do.                                                       *)
LEMMA TabsRunOut ==
  ASSUME IInv, NEW t \in Tabs, NEW n \in Logs, \A m \in Logs : ~Submitted(m),
         \/ GetUpload(t) \/ Upload(t, n) \/ GetLog(t, n) \/ ShowLog(t, n)
         \/ PostSubmit(t, n) \/ Submit(t, n) \/ Fails(t, n)
  PROVE  \A b \in Browsers : RunsOut(b)
  <1>1. tab \in [Tabs -> Tab] /\ tab[t] \in Tab /\ status \in [Logs -> Statuses]
    BY DEF IInv, TypeOK, Tab
  <1>2. CASE GetUpload(t)
    <2>1. tab[t].does # "show" /\ UNCHANGED <<home, yar>>
      BY <1>2 DEF GetUpload, Idle
    <2>2. PICK x : tab' = [tab EXCEPT ![t] = x] /\ x.does = "nothing"
      BY <1>2, PagesDoNothing DEF GetUpload, Shows, Error
    <2> QED
      BY <2>1, <2>2, OtherRunsOut
  <1>3. CASE Upload(t, n)
    <2>1. tab[t].does # "show" /\ UNCHANGED <<home, yar>>
      BY <1>3 DEF Upload, Idle
    <2>2. PICK x : tab' = [tab EXCEPT ![t] = x] /\ x.does = "nothing"
      <3> DEFINE x == [At("other") EXCEPT !.to = n, !.after = "upload"]
      <3>1. tab' = [tab EXCEPT ![t] = x] /\ x.does = "nothing"
        BY <1>3, PagesDoNothing DEF Upload, RedirectTo, Shows
      <3> HIDE DEF x
      <3> QED
        BY <3>1
    <2> QED
      BY <2>1, <2>2, OtherRunsOut
  <1>4. CASE GetLog(t, n)
    <2>1. tab[t].does # "show" /\ UNCHANGED <<home, yar>>
      BY <1>4 DEF GetLog
    <2> DEFINE x == [tab[t] EXCEPT !.to = n, !.does = "show", !.copy = yar[home[t]]]
    <2>2. tab' = [tab EXCEPT ![t] = x] /\ x.copy = yar[home[t]]
      BY <1>1, <1>4 DEF GetLog, Waits, Tab
    <2> HIDE DEF x
    <2> QED
      BY <2>1, <2>2, OtherRunsOut
  <1>5. CASE ShowLog(t, n)
    <2>1. tab[t].does = "show" /\ tab[t].to = n /\ UNCHANGED home /\ Consumes(t, n)
      BY <1>5 DEF ShowLog
    <2>2. PICK x : tab' = [tab EXCEPT ![t] = x] /\ x.does = "nothing"
      BY <1>5, PagesDoNothing DEF ShowLog, Shows, Error, Page
    <2> QED
      BY <2>1, <2>2, AnswerRunsOut
  <1>6. CASE PostSubmit(t, n)
    <2>1. tab[t].does # "show" /\ UNCHANGED <<home, yar>>
      BY <1>6 DEF PostSubmit, Idle
    <2>2. PICK x : tab' = [tab EXCEPT ![t] = x] /\ x.does # "show"
      <3>1. CASE RedirectTo(t, n, "submit")
        BY <3>1, PagesDoNothing DEF RedirectTo, Shows
      <3>2. CASE Waits(t, n, "submit")
        <4> DEFINE x == [tab[t] EXCEPT !.to = n, !.does = "submit", !.copy = yar[home[t]]]
        <4>1. tab' = [tab EXCEPT ![t] = x] /\ x.does = "submit"
          BY <1>1, <3>2 DEF Waits, Tab
        <4> HIDE DEF x
        <4> QED
          BY <4>1
      <3> QED
        BY <1>6, <3>1, <3>2 DEF PostSubmit
    <2> QED
      BY <2>1, <2>2, OtherRunsOut
  <1>7. CASE Submit(t, n)
    <2>1. status[n] # "validated"
      <3>1. SUFFICES ASSUME status[n] = "validated" PROVE FALSE
        OBVIOUS
      <3>2. status'[n] \in {"submitting", "submitted"}
        BY <1>1, <1>7, <3>1 DEF Submit, Becomes
      <3> QED
        BY <3>1, <3>2 DEF Submitted, WasSubmitted
    <2>2. tab[t].does # "show" /\ UNCHANGED <<home, yar>>
      BY <1>7, <2>1 DEF Submit
    <2>3. PICK x : tab' = [tab EXCEPT ![t] = x] /\ x.does = "nothing"
      BY <1>7, <2>1, PagesDoNothing DEF Submit, Shows, Page
    <2> QED
      BY <2>2, <2>3, OtherRunsOut
  <1>8. CASE Fails(t, n)
    <2>1. tab[t].to = n /\ UNCHANGED home
      BY <1>8 DEF Fails
    <2>2. PICK x : tab' = [tab EXCEPT ![t] = x] /\ x.does = "nothing"
      BY <1>8, PagesDoNothing DEF Fails, Shows, Error
    <2>3. CASE tab[t].does = "show"
      BY <1>8, <2>1, <2>2, <2>3, AnswerRunsOut DEF Fails
    <2>4. CASE tab[t].does # "show"
      <3>1. UNCHANGED <<home, yar>>
        BY <1>8, <2>4 DEF Fails
      <3> QED
        BY <2>2, <2>4, <3>1, OtherRunsOut
    <2> QED
      BY <2>3, <2>4
  <1> QED
    BY <1>2, <1>3, <1>4, <1>5, <1>6, <1>7, <1>8

(* The answers kept for a browser run out, for any number of tabs and logs *)
(* and however requests that overlap overwrite the record (getStatusData). *)
THEOREM AnswersRunOut == Spec => KeptAnswersRunOut
  <1>1. ASSUME IInv, [Next]_vars, \A n \in Logs : ~Submitted(n)
        PROVE  \A b \in Browsers : RunsOut(b)
    <2>1. ASSUME UNCHANGED <<home, yar, tab>>
          PROVE  \A b \in Browsers : RunsOut(b)
      BY <2>1 DEF RunsOut, Chances, TakesKept
    <2>2. ASSUME NEW n \in Logs, Progress(n) \/ Supersede(n) \/ Replicate(n)
          PROVE  UNCHANGED <<home, yar, tab>>
      BY <2>2 DEF Progress, Supersede, Replicate
    <2>3. 1 \in Logs
      BY LogsAssumption DEF Logs
    <2>4. CASE UNCHANGED vars
      BY <2>1, <2>4 DEF vars
    <2> QED
      BY <1>1, <2>1, <2>2, <2>3, <2>4, TabsRunOut DEF Next
  <1>2. IInv /\ [Next]_vars
          => [(\A n \in Logs : ~Submitted(n)) => \A b \in Browsers : RunsOut(b)]_vars
    BY <1>1
  <1> QED
    BY Invariance, <1>2, PTL DEF Spec, KeptAnswersRunOut
=============================================================================
