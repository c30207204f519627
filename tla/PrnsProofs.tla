----------------------------- MODULE PrnsProofs -----------------------------
(***************************************************************************)
(* Theorems about Prns, for any number of tabs, browsers and notes, any    *)
(* tonnages and balances, whatever tabs share a browser and whatever       *)
(* writes lag.                                                             *)
(***************************************************************************)
EXTENDS Prns, TLAPS

Tab == [page: PlainPages \cup NotePages, id: {0} \cup Notes,
        to: NotePages \cup {"nowhere"}, does: Requests \cup {"nothing"},
        button: BOOLEAN, tonnage: {0} \cup Tonnages, got: Int,
        number: {0} \cup Notes, copy: Records]

-----------------------------------------------------------------------------
(* The inductive invariant.                                                *)

(* A note that once had status s has not lost what it went through.        *)
Implies(s, now) ==
  /\ s \in Raised      => now \in Raised
  /\ s \in Issued      => now \in Issued
  /\ s = "cancelled"   => now = "cancelled"

(* What a record says of the backend's notes: the note it tells was created *)
(* was raised, and the draft has the tonnage the note has.                 *)
RecordTruth(record, statuses, tonnages) ==
  /\ record.prnCreated # 0 => statuses[record.prnCreated] \in Raised
  /\ record.prnDraft.id # 0 =>
       /\ statuses[record.prnDraft.id] # "none"
       /\ tonnages[record.prnDraft.id] = record.prnDraft.tonnage

(* What a page says, and what a request relies on that waits.              *)
PageTruth(x, statuses) ==
  /\ x.page \in NotePages  => x.id # 0
  /\ x.page = "created"    => statuses[x.id] \in Raised
  /\ x.page = "issued"     => statuses[x.id] \in Issued
  /\ x.page = "cancelled"  => statuses[x.id] = "cancelled"
  /\ x.number \in {0, x.id}

CheckTruth(x, statuses, tonnages) ==
  /\ x.page = "check" => statuses[x.id] # "none" /\ x.tonnage = tonnages[x.id]
  /\ x.does = "confirm" => x.page = "check" /\ x.copy.prnDraft.id = x.id

TabTruth(x, statuses, tonnages) ==
  /\ PageTruth(x, statuses)
  /\ CheckTruth(x, statuses, tonnages)
  /\ RecordTruth(x.copy, statuses, tonnages)

(* What pages are made from, the replica, the records and their copies,    *)
(* tells the truth as well.                                                *)
Truth ==
  /\ \A n \in Notes : Implies(replica[n], status[n])
  /\ \A b \in Browsers : RecordTruth(yar[b], status, tonnage)
  /\ \A t \in Tabs : TabTruth(tab[t], status, tonnage)

IInv == TypeOK /\ Truth

-----------------------------------------------------------------------------
(* The backend.                                                            *)

(* How the status of a note that is there changes, whoever changes it.     *)
Moves(old, new) ==
  \/ Follows(old, new)
  \/ old = "awaiting_acceptance" /\ new \in {"accepted", "awaiting_cancellation"}

Written(n, new) ==
  /\ status' = [status EXCEPT ![n] = new]
  /\ replica' = replica \/ replica' = [replica EXCEPT ![n] = new]

(* What a step of the system does to the backend.                          *)
BackendStep ==
  \/ UNCHANGED backend
  \/ \E n \in Notes, new \in Statuses :
       /\ Moves(status[n], new) /\ Written(n, new)
       /\ tonnage' = tonnage /\ available' \in Int
  \/ \E n \in Notes, x \in Tonnages :
       /\ status[n] = "none" /\ Written(n, "draft")
       /\ tonnage' = [tonnage EXCEPT ![n] = x] /\ available' = available
  \/ /\ UNCHANGED <<status, tonnage, available>>
     /\ \E n \in Notes : replica' = [replica EXCEPT ![n] = status[n]]

(* A move keeps what a note went through.                                  *)
LEMMA MoveKeeps ==
  ASSUME NEW old, NEW new, Moves(old, new)
  PROVE  Implies(old, new) /\ old # "none" /\ new # "none"
  BY DEF Moves, Follows, Implies, Raised, Issued

(* So does a chain of them.                                                *)
LEMMA ImpliesChain ==
  ASSUME NEW a, NEW b, NEW c, Implies(a, b), Implies(b, c)
  PROVE  Implies(a, c)
  BY DEF Implies

LEMMA ImpliesSelf == \A s : Implies(s, s)
  BY DEF Implies

(* Writing a status that follows from the old one, to the replica too or   *)
(* not.                                                                    *)
LEMMA WrittenKeeps ==
  ASSUME status \in [Notes -> Statuses], replica \in [Notes -> Statuses],
         \A m \in Notes : Implies(replica[m], status[m]),
         NEW n \in Notes, NEW new \in Statuses, Implies(status[n], new), Written(n, new)
  PROVE  /\ status' \in [Notes -> Statuses] /\ replica' \in [Notes -> Statuses]
         /\ status'[n] = new /\ \A m \in Notes : m # n => status'[m] = status[m]
         /\ \A m \in Notes : Implies(status[m], status'[m])
         /\ \A m \in Notes : Implies(replica'[m], status'[m])
  <1>1. /\ status' = [status EXCEPT ![n] = new]
        /\ replica' = replica \/ replica' = [replica EXCEPT ![n] = new]
    BY DEF Written
  <1>2. /\ status' \in [Notes -> Statuses] /\ replica' \in [Notes -> Statuses]
        /\ status'[n] = new /\ \A m \in Notes : m # n => status'[m] = status[m]
    BY <1>1
  <1>3. ASSUME NEW m \in Notes
        PROVE  Implies(status[m], status'[m])
    <2>1. CASE m = n
      BY <1>2, <2>1
    <2>2. CASE m # n
      BY <1>2, <2>2, ImpliesSelf
    <2> QED
      BY <2>1, <2>2
  <1>4. ASSUME NEW m \in Notes
        PROVE  Implies(replica'[m], status'[m])
    <2>1. CASE replica'[m] = replica[m]
      BY <1>3, <2>1, ImpliesChain
    <2>2. CASE m = n /\ replica'[m] = new
      BY <1>2, <2>2, ImpliesSelf
    <2> QED
      BY <1>1, <2>1, <2>2
  <1> QED
    BY <1>2, <1>3, <1>4

(* What every step of the backend keeps: its types, what notes went        *)
(* through, the tonnage of every note, and that the replica is not ahead.  *)
BackendKept ==
  /\ status' \in [Notes -> Statuses] /\ replica' \in [Notes -> Statuses]
  /\ tonnage' \in [Notes -> {0} \cup Tonnages] /\ available' \in Int
  /\ \A n \in Notes : Implies(status[n], status'[n])
  /\ \A n \in Notes : status[n] # "none" => /\ status'[n] # "none"
                                          /\ tonnage'[n] = tonnage[n]
  /\ \A n \in Notes : Implies(replica'[n], status'[n])

LEMMA BackendKeeps ==
  ASSUME TypeOK, \A n \in Notes : Implies(replica[n], status[n]), BackendStep
  PROVE  BackendKept
  <1>1. /\ status \in [Notes -> Statuses] /\ replica \in [Notes -> Statuses]
        /\ tonnage \in [Notes -> {0} \cup Tonnages] /\ available \in Int
    BY DEF TypeOK
  <1>2. CASE UNCHANGED backend
    BY <1>1, <1>2, ImpliesSelf DEF backend, BackendKept
  <1>3. ASSUME NEW n \in Notes, NEW new \in Statuses,
               Moves(status[n], new), Written(n, new), tonnage' = tonnage, available' \in Int
        PROVE  BackendKept
    <2>1. Implies(status[n], new) /\ new # "none"
      BY <1>3, MoveKeeps
    <2>2. /\ status' \in [Notes -> Statuses] /\ replica' \in [Notes -> Statuses]
          /\ status'[n] = new /\ \A m \in Notes : m # n => status'[m] = status[m]
          /\ \A m \in Notes : Implies(status[m], status'[m])
          /\ \A m \in Notes : Implies(replica'[m], status'[m])
      BY <1>1, <1>3, <2>1, WrittenKeeps
    <2> QED
      BY <1>1, <1>3, <2>1, <2>2 DEF BackendKept
  <1>4. ASSUME NEW n \in Notes, NEW x \in Tonnages,
               status[n] = "none", Written(n, "draft"),
               tonnage' = [tonnage EXCEPT ![n] = x], available' = available
        PROVE  BackendKept
    <2>1. Implies(status[n], "draft") /\ "draft" \in Statuses
      BY <1>4 DEF Implies, Raised, Issued, Statuses
    <2>2. /\ status' \in [Notes -> Statuses] /\ replica' \in [Notes -> Statuses]
          /\ status'[n] = "draft" /\ \A m \in Notes : m # n => status'[m] = status[m]
          /\ \A m \in Notes : Implies(status[m], status'[m])
          /\ \A m \in Notes : Implies(replica'[m], status'[m])
      BY <1>1, <1>4, <2>1, WrittenKeeps
    <2>3. /\ tonnage' \in [Notes -> {0} \cup Tonnages]
          /\ \A m \in Notes : m # n => tonnage'[m] = tonnage[m]
      BY <1>1, <1>4
    <2> QED
      BY <1>1, <1>4, <2>2, <2>3 DEF BackendKept
  <1>5. CASE /\ UNCHANGED <<status, tonnage, available>>
             /\ \E n \in Notes : replica' = [replica EXCEPT ![n] = status[n]]
    <2>1. PICK n \in Notes : replica' = [replica EXCEPT ![n] = status[n]]
      BY <1>5
    <2>2. replica' \in [Notes -> Statuses]
          /\ \A m \in Notes : replica'[m] = replica[m] \/ replica'[m] = status[m]
      BY <1>1, <2>1
    <2> QED
      BY <1>1, <1>5, <2>2, ImpliesSelf DEF BackendKept
  <1> QED
    BY <1>2, <1>3, <1>4, <1>5 DEF BackendStep

(* Records and tabs that tell the truth do so after a step of the backend. *)
LEMMA RecordKept ==
  ASSUME BackendKept, NEW r \in Records, RecordTruth(r, status, tonnage)
  PROVE  RecordTruth(r, status', tonnage')
  <1>1. /\ r.prnCreated # 0 => r.prnCreated \in Notes
        /\ r.prnDraft.id # 0 => r.prnDraft.id \in Notes
    BY DEF Records, NoDraft
  <1>2. r.prnCreated # 0 => status'[r.prnCreated] \in Raised
    BY <1>1 DEF RecordTruth, BackendKept, Implies
  <1>3. r.prnDraft.id # 0 => /\ status'[r.prnDraft.id] # "none"
                             /\ tonnage'[r.prnDraft.id] = r.prnDraft.tonnage
    BY <1>1 DEF RecordTruth, BackendKept
  <1> QED
    BY <1>2, <1>3 DEF RecordTruth

LEMMA TabKept ==
  ASSUME BackendKept, NEW x \in Tab, TabTruth(x, status, tonnage)
  PROVE  TabTruth(x, status', tonnage')
  <1>1. x.copy \in Records /\ (x.id # 0 => x.id \in Notes)
    BY DEF Tab
  <1>2. RecordTruth(x.copy, status', tonnage')
    BY <1>1, RecordKept DEF TabTruth
  <1>3. PageTruth(x, status')
    BY <1>1 DEF TabTruth, PageTruth, BackendKept, Implies, NotePages
  <1>4. CheckTruth(x, status', tonnage')
    BY <1>1 DEF TabTruth, PageTruth, CheckTruth, BackendKept, NotePages
  <1> QED
    BY <1>2, <1>3, <1>4 DEF TabTruth

-----------------------------------------------------------------------------
(* Tabs.                                                                   *)

LEMMA EmptyRecord ==
  /\ Empty \in Records
  /\ \A statuses, tonnages : RecordTruth(Empty, statuses, tonnages)
  BY DEF Empty, Records, NoDraft, RecordTruth

(* A tab that waits for nothing and shows a page of no note.               *)
LEMMA PlainTab ==
  ASSUME NEW p \in PlainPages, NEW statuses, NEW tonnages
  PROVE  At(p) \in Tab /\ TabTruth(At(p), statuses, tonnages)
  <1>1. At(p) \in Tab
    BY EmptyRecord DEF At, Tab
  <1>2. /\ At(p).page = p /\ At(p).number = 0 /\ At(p).does = "nothing"
        /\ At(p).copy = Empty
    BY DEF At
  <1> QED
    BY <1>1, <1>2, EmptyRecord
    DEF TabTruth, PageTruth, CheckTruth, PlainPages, NotePages

(* The invariant holds in the initial states.                              *)
LEMMA InitIInv == Init => IInv
  <1> SUFFICES ASSUME Init PROVE IInv
    OBVIOUS
  <1>1. At("list") \in Tab /\ TabTruth(At("list"), status, tonnage)
    BY PlainTab DEF PlainPages
  <1>2. tab \in [Tabs -> Tab] /\ \A t \in Tabs : TabTruth(tab[t], status, tonnage)
    BY <1>1 DEF Init
  <1>3. yar \in [Browsers -> Records] /\ \A b \in Browsers : RecordTruth(yar[b], status, tonnage)
    BY EmptyRecord DEF Init
  <1>4. /\ status \in [Notes -> Statuses] /\ replica \in [Notes -> Statuses]
        /\ tonnage \in [Notes -> {0} \cup Tonnages] /\ home \in Homes
    BY DEF Init, Statuses
  <1>5. available \in Int
    BY BalancesAssumption DEF Init
  <1>6. \A n \in Notes : Implies(replica[n], status[n])
    BY ImpliesSelf DEF Init
  <1> QED
    BY <1>2, <1>3, <1>4, <1>5, <1>6 DEF IInv, TypeOK, Truth, Tab

-----------------------------------------------------------------------------
(* Steps.                                                                  *)

(* A step of the backend alone keeps the invariant.                        *)
LEMMA BackendAlone ==
  ASSUME IInv, BackendStep, UNCHANGED <<home, yar, tab>>
  PROVE  IInv'
  <1>1. TypeOK /\ Truth /\ tab \in [Tabs -> Tab] /\ yar \in [Browsers -> Records]
    BY DEF IInv, TypeOK, Tab
  <1>2. BackendKept
    BY <1>1, BackendKeeps DEF Truth
  <1>3. TypeOK'
    BY <1>1, <1>2 DEF TypeOK, BackendKept
  <1>4. \A b \in Browsers : RecordTruth(yar[b], status', tonnage')
    BY <1>1, <1>2, RecordKept DEF Truth
  <1>5. \A t \in Tabs : TabTruth(tab[t], status', tonnage')
    BY <1>1, <1>2, TabKept DEF Truth
  <1>6. Truth'
    BY <1>2, <1>4, <1>5 DEF Truth, BackendKept
  <1> QED
    BY <1>3, <1>6 DEF IInv

(* A step of one tab keeps the invariant if what the tab becomes, and what *)
(* the record of its browser becomes, are as they should be.               *)
LEMMA TabStep ==
  ASSUME IInv, BackendStep, home' = home, NEW t \in Tabs, NEW x \in Tab,
         NEW record \in Records,
         tab' = [tab EXCEPT ![t] = x], yar' = [yar EXCEPT ![home[t]] = record],
         TabTruth(x, status', tonnage'), RecordTruth(record, status', tonnage')
  PROVE  IInv'
  <1>1. TypeOK /\ Truth
    BY DEF IInv
  <1>2. home \in [Tabs -> Browsers] /\ tab \in [Tabs -> Tab] /\ yar \in [Browsers -> Records]
    BY <1>1, HomesAssumption DEF TypeOK, Tab
  <1>3. BackendKept
    BY <1>1, BackendKeeps DEF Truth
  <1>4. tab' \in [Tabs -> Tab] /\ yar' \in [Browsers -> Records]
    BY <1>2
  <1>5. TypeOK'
    BY <1>1, <1>3, <1>4 DEF TypeOK, Tab, BackendKept
  <1>6. ASSUME NEW b \in Browsers
        PROVE  RecordTruth(yar'[b], status', tonnage')
    <2>1. RecordTruth(yar[b], status', tonnage')
      BY <1>1, <1>2, <1>3, RecordKept DEF Truth
    <2>2. yar'[b] = record \/ yar'[b] = yar[b]
      BY <1>2
    <2> QED
      BY <2>1, <2>2
  <1>7. ASSUME NEW u \in Tabs
        PROVE  TabTruth(tab'[u], status', tonnage')
    <2>1. TabTruth(tab[u], status', tonnage')
      BY <1>1, <1>2, <1>3, TabKept DEF Truth
    <2>2. tab'[u] = x \/ tab'[u] = tab[u]
      BY <1>2
    <2> QED
      BY <2>1, <2>2
  <1>8. Truth'
    BY <1>3, <1>6, <1>7 DEF Truth, BackendKept
  <1> QED
    BY <1>5, <1>8 DEF IInv

(* What a step of tab t can rely on.                                       *)
LEMMA TabFacts ==
  ASSUME IInv, NEW t \in Tabs
  PROVE  /\ home[t] \in Browsers /\ tab \in [Tabs -> Tab] /\ tab[t] \in Tab
         /\ tab[t].copy \in Records
         /\ yar \in [Browsers -> Records] /\ yar[home[t]] \in Records
         /\ TabTruth(tab[t], status, tonnage)
         /\ RecordTruth(yar[home[t]], status, tonnage)
         /\ status \in [Notes -> Statuses] /\ tonnage \in [Notes -> {0} \cup Tonnages]
         /\ available \in Int
  <1>1. /\ home[t] \in Browsers /\ tab \in [Tabs -> Tab] /\ yar \in [Browsers -> Records]
    BY HomesAssumption DEF IInv, TypeOK, Tab
  <1>2. tab[t] \in Tab /\ tab[t].copy \in Records /\ yar[home[t]] \in Records
    BY <1>1 DEF Tab
  <1> QED
    BY <1>1, <1>2 DEF IInv, TypeOK, Truth

(* The same if the record stays.                                           *)
LEMMA TabStepOnly ==
  ASSUME IInv, BackendStep, UNCHANGED <<home, yar>>, NEW t \in Tabs, NEW x \in Tab,
         tab' = [tab EXCEPT ![t] = x], TabTruth(x, status', tonnage')
  PROVE  IInv'
  <1>1. home[t] \in Browsers /\ yar \in [Browsers -> Records] /\ yar[home[t]] \in Records
        /\ RecordTruth(yar[home[t]], status, tonnage)
    BY TabFacts
  <1>2. yar' = [yar EXCEPT ![home[t]] = yar[home[t]]]
    BY <1>1
  <1>3. RecordTruth(yar[home[t]], status', tonnage')
    BY <1>1, BackendKeeps, RecordKept DEF IInv, Truth
  <1> QED
    BY <1>1, <1>2, <1>3, TabStep

(* A tab that goes to a page of no note.                                   *)
LEMMA PlainStep ==
  ASSUME IInv, BackendStep, UNCHANGED <<home, yar>>, NEW t \in Tabs,
         List(t) \/ CreateForm(t) \/ Error(t)
  PROVE  IInv'
  <1>1. PICK p \in PlainPages : tab' = [tab EXCEPT ![t] = At(p)]
    BY DEF List, CreateForm, Error, Shows, PlainPages
  <1> QED
    BY <1>1, PlainTab, TabStepOnly
-----------------------------------------------------------------------------
(* GET.                                                                    *)

(* A tab that is shown a page of a note, or sent to one.                   *)
LEMMA NoteTab ==
  ASSUME NEW x \in Tab, NEW statuses, NEW tonnages,
         x.does = "nothing", x.copy = Empty, PageTruth(x, statuses), x.page # "check"
  PROVE  TabTruth(x, statuses, tonnages)
  BY EmptyRecord DEF TabTruth, CheckTruth

LEMMA RedirectTab ==
  ASSUME NEW p \in NotePages, NEW n \in Notes, NEW statuses, NEW tonnages
  PROVE  LET x == [At("list") EXCEPT !.id = n, !.to = p]
         IN  x \in Tab /\ TabTruth(x, statuses, tonnages)
  <1> DEFINE x == [At("list") EXCEPT !.id = n, !.to = p]
  <1>1. At("list") \in Tab
    BY PlainTab DEF PlainPages
  <1>2. x \in Tab
    BY <1>1 DEF Tab
  <1>3. x.page = "list" /\ x.number = 0 /\ x.does = "nothing" /\ x.copy = Empty
    BY DEF At
  <1>4. PageTruth(x, statuses)
    BY <1>3 DEF PageTruth, NotePages
  <1> HIDE DEF x
  <1>5. TabTruth(x, statuses, tonnages)
    BY <1>2, <1>3, <1>4, NoteTab
  <1> QED
    BY <1>2, <1>5 DEF x

LEMMA NotePageFacts ==
  ASSUME NEW p \in NotePages, NEW n \in Notes
  PROVE  LET x == NotePage(p, n)
         IN  /\ x \in Tab /\ x.page = p /\ x.id = n /\ x.does = "nothing"
             /\ x.copy = Empty /\ x.number = 0 /\ x.tonnage = 0
  <1>1. At("list") \in Tab
    BY PlainTab DEF PlainPages
  <1>2. NotePage(p, n) \in Tab
    BY <1>1 DEF NotePage, Tab
  <1> QED
    BY <1>2 DEF NotePage, At

(* Notes are not zero.                                                     *)
LEMMA NotesFact == 0 \notin Notes
  BY DEF Notes

(* A page of a note that says no more than the note's status allows.       *)
LEMMA NotePageTab ==
  ASSUME NEW p \in NotePages, NEW n \in Notes, NEW statuses, NEW tonnages,
         p = "created"   => statuses[n] \in Raised,
         p = "issued"    => statuses[n] \in Issued,
         p = "cancelled" => statuses[n] = "cancelled",
         p # "check"
  PROVE  NotePage(p, n) \in Tab /\ TabTruth(NotePage(p, n), statuses, tonnages)
  <1> DEFINE x == NotePage(p, n)
  <1>1. /\ x \in Tab /\ x.page = p /\ x.id = n /\ x.does = "nothing"
        /\ x.copy = Empty /\ x.number = 0
    BY NotePageFacts
  <1> HIDE DEF x
  <1>2. PageTruth(x, statuses)
    BY <1>1, NotesFact DEF PageTruth
  <1>3. TabTruth(x, statuses, tonnages)
    BY <1>1, <1>2, NoteTab
  <1> QED
    BY <1>1, <1>3 DEF x

(* Every page of these, shown by a step that leaves records and backend    *)
(* alone, keeps the invariant.                                             *)
LEMMA NotePageStep ==
  ASSUME IInv, UNCHANGED <<home, backend, yar>>, NEW t \in Tabs,
         NEW p \in NotePages, NEW n \in Notes, Shows(t, NotePage(p, n)),
         p = "created"   => status[n] \in Raised,
         p = "issued"    => status[n] \in Issued,
         p = "cancelled" => status[n] = "cancelled",
         p # "check"
  PROVE  IInv'
  <1>1. BackendStep /\ UNCHANGED <<home, yar>> /\ status' = status
    BY DEF BackendStep, backend
  <1>2. NotePage(p, n) \in Tab /\ TabTruth(NotePage(p, n), status', tonnage')
    BY <1>1, NotePageTab
  <1>3. tab' = [tab EXCEPT ![t] = NotePage(p, n)]
    BY DEF Shows
  <1> QED
    BY <1>1, <1>2, <1>3, TabStepOnly

LEMMA RedirectStep ==
  ASSUME IInv, BackendStep, UNCHANGED <<home, yar>>, NEW t \in Tabs,
         NEW p \in NotePages, NEW n \in Notes, RedirectTo(t, p, n)
  PROVE  IInv'
  <1> DEFINE x == [At("list") EXCEPT !.id = n, !.to = p]
  <1>1. x \in Tab /\ TabTruth(x, status', tonnage')
    BY RedirectTab
  <1>2. tab' = [tab EXCEPT ![t] = x]
    BY DEF RedirectTo, Shows
  <1> HIDE DEF x
  <1> QED
    BY <1>1, <1>2, TabStepOnly

LEMMA Idle ==
  ASSUME UNCHANGED <<home, backend, yar>>
  PROVE  BackendStep /\ UNCHANGED <<home, yar>> /\ status' = status /\ tonnage' = tonnage
  BY DEF BackendStep, backend

(* The check page, or the page of the note.                                *)
LEMMA GetViewIInv ==
  ASSUME IInv, NEW t \in Tabs, NEW n \in Notes, GetView(t, n)
  PROVE  IInv'
  <1>1. UNCHANGED <<home, backend, yar>>
    BY DEF GetView
  <1> DEFINE record == yar[home[t]]
  <1>2. record \in Records /\ RecordTruth(record, status, tonnage)
    BY TabFacts
  <1>3. CASE Matches(record, n)
    <2> DEFINE x == [NotePage("check", n) EXCEPT !.tonnage = record.prnDraft.tonnage]
    <2>1. record.prnDraft.id = n /\ record.prnDraft.tonnage \in {0} \cup Tonnages
          /\ status[n] # "none" /\ tonnage[n] = record.prnDraft.tonnage
      BY <1>2, <1>3, NotesFact DEF Matches, RecordTruth, Records, NoDraft
    <2>2. tab' = [tab EXCEPT ![t] = x]
      BY <1>3 DEF GetView, DraftView, Shows
    <2>3. /\ NotePage("check", n) \in Tab /\ NotePage("check", n).page = "check"
          /\ NotePage("check", n).id = n /\ NotePage("check", n).does = "nothing"
          /\ NotePage("check", n).copy = Empty /\ NotePage("check", n).number = 0
      BY NotePageFacts DEF NotePages
    <2>4. x \in Tab
      BY <2>1, <2>3 DEF Tab
    <2>5. /\ x.page = "check" /\ x.id = n /\ x.does = "nothing"
          /\ x.copy = Empty /\ x.number = 0 /\ x.tonnage = tonnage[n]
      BY <2>1, <2>3 DEF Tab
    <2> HIDE DEF x
    <2>6. TabTruth(x, status, tonnage)
      BY <2>1, <2>5, NotesFact, EmptyRecord DEF TabTruth, PageTruth, CheckTruth
    <2> QED
      BY <1>1, <2>2, <2>4, <2>6, Idle, TabStepOnly
  <1>4. CASE ~Matches(record, n)
    <2>1. Error(t) \/ Shows(t, NotePage("view", n))
      BY <1>4 DEF GetView, ExistingView
    <2> QED
      BY <1>1, <2>1, Idle, PlainStep, NotePageStep DEF NotePages
  <1> QED
    BY <1>3, <1>4

LEMMA GetDiscardIInv ==
  ASSUME IInv, NEW t \in Tabs, NEW n \in Notes, GetDiscard(t, n)
  PROVE  IInv'
  <1>1. UNCHANGED <<home, backend, yar>> /\ (Shows(t, NotePage("discard", n)) \/ CreateForm(t))
    BY DEF GetDiscard
  <1> QED
    BY <1>1, Idle, PlainStep, NotePageStep DEF NotePages

LEMMA GetActionIInv ==
  ASSUME IInv, NEW t \in Tabs, NEW n \in Notes, GetAction(t, n)
  PROVE  IInv'
  <1>1. UNCHANGED <<home, backend, yar>>
    BY DEF GetAction
  <1>2. \/ Error(t)
        \/ \E b \in BOOLEAN : tab' = [tab EXCEPT ![t] = [NotePage("action", n) EXCEPT !.button = b]]
    BY DEF GetAction, Shows
  <1>3. CASE Error(t)
    BY <1>1, <1>3, Idle, PlainStep
  <1>4. ASSUME NEW b \in BOOLEAN,
               tab' = [tab EXCEPT ![t] = [NotePage("action", n) EXCEPT !.button = b]]
        PROVE  IInv'
    <2> DEFINE x == [NotePage("action", n) EXCEPT !.button = b]
    <2>1. /\ NotePage("action", n) \in Tab /\ NotePage("action", n).page = "action"
          /\ NotePage("action", n).id = n /\ NotePage("action", n).does = "nothing"
          /\ NotePage("action", n).copy = Empty /\ NotePage("action", n).number = 0
      BY NotePageFacts DEF NotePages
    <2>2. x \in Tab
      BY <2>1 DEF Tab
    <2>3. /\ x.page = "action" /\ x.id = n /\ x.does = "nothing"
          /\ x.copy = Empty /\ x.number = 0
      BY <2>1 DEF Tab
    <2> HIDE DEF x
    <2>4. PageTruth(x, status')
      BY <2>3, NotesFact DEF PageTruth
    <2>5. TabTruth(x, status', tonnage')
      BY <2>2, <2>3, <2>4, NoteTab
    <2> QED
      BY <1>1, <1>4, <2>2, <2>5, Idle, TabStepOnly DEF x
  <1> QED
    BY <1>2, <1>3, <1>4

(* Pages for one status: that the answer has it is enough for the page to  *)
(* be right.                                                               *)
LEMMA FetchedForIInv ==
  ASSUME IInv, NEW t \in Tabs, NEW n \in Notes, NEW p \in {"delete", "cancel", "cancelled"},
         NEW only, p = "cancelled" => only = "cancelled", FetchedFor(t, p, n, only)
  PROVE  IInv'
  <1>1. UNCHANGED <<home, backend, yar>>
    BY DEF FetchedFor
  <1>2. PICK s \in Answers(n) :
          Error(t) \/ List(t) \/ (s = only /\ Shows(t, NotePage(p, n)))
    BY DEF FetchedFor
  <1>3. Implies(s, status[n])
    BY ImpliesSelf DEF Answers, IInv, Truth
  <1>4. CASE Error(t) \/ List(t)
    BY <1>1, <1>4, Idle, PlainStep
  <1>5. CASE s = only /\ Shows(t, NotePage(p, n))
    <2>1. p = "cancelled" => status[n] = "cancelled"
      BY <1>3, <1>5 DEF Implies
    <2> QED
      BY <1>1, <1>5, <2>1, NotePageStep DEF NotePages
  <1> QED
    BY <1>2, <1>4, <1>5

LEMMA ArrivesIInv ==
  ASSUME IInv, NEW t \in Tabs, NEW n \in Notes, NEW p, NEW request \in {"show-created", "show-issued"},
         Arrives(t, p, n, request)
  PROVE  IInv'
  <1>1. UNCHANGED <<home, backend, yar>>
    BY DEF Arrives
  <1> DEFINE x == [At("list") EXCEPT !.id = n, !.does = request, !.copy = yar[home[t]]]
  <1>2. yar[home[t]] \in Records /\ RecordTruth(yar[home[t]], status, tonnage)
    BY TabFacts
  <1>3. At("list") \in Tab
    BY PlainTab DEF PlainPages
  <1>4. x \in Tab
    BY <1>2, <1>3 DEF Tab, Requests
  <1>5. /\ x.page = "list" /\ x.number = 0 /\ x.does = request /\ x.copy = yar[home[t]]
    BY DEF At
  <1>6. tab' = [tab EXCEPT ![t] = x]
    BY DEF Arrives
  <1> HIDE DEF x
  <1>7. TabTruth(x, status, tonnage)
    BY <1>2, <1>5 DEF TabTruth, PageTruth, CheckTruth, NotePages
  <1> QED
    BY <1>1, <1>4, <1>6, <1>7, Idle, TabStepOnly

(* The record a request stores: its copy, changed in one entry.            *)
LEMMA CopyChanged ==
  ASSUME NEW r \in Records, NEW statuses, NEW tonnages, RecordTruth(r, statuses, tonnages)
  PROVE  /\ LET s == [r EXCEPT !.prnCreated = 0]
            IN  s \in Records /\ RecordTruth(s, statuses, tonnages)
         /\ LET s == [r EXCEPT !.prnDraft = NoDraft]
            IN  s \in Records /\ RecordTruth(s, statuses, tonnages)
         /\ \A n \in {0} \cup Notes : LET s == [r EXCEPT !.prnIssued = n]
            IN  s \in Records /\ RecordTruth(s, statuses, tonnages)
         /\ \A n \in Notes : statuses[n] \in Raised =>
              LET s == [[r EXCEPT !.prnDraft = NoDraft] EXCEPT !.prnCreated = n]
              IN  s \in Records /\ RecordTruth(s, statuses, tonnages)
         /\ \A n \in Notes, x \in Tonnages : statuses[n] # "none" /\ tonnages[n] = x =>
              LET s == [r EXCEPT !.prnDraft = DraftSession(n, x)]
              IN  s \in Records /\ RecordTruth(s, statuses, tonnages)
  BY DEF Records, RecordTruth, NoDraft, DraftSession

LEMMA ShowCreatedIInv ==
  ASSUME IInv, NEW t \in Tabs, NEW n \in Notes, ShowCreated(t, n)
  PROVE  IInv'
  <1>1. UNCHANGED <<home, backend>>
    BY DEF ShowCreated
  <1>2. BackendStep /\ home' = home /\ status' = status /\ tonnage' = tonnage
    BY <1>1 DEF BackendStep, backend
  <1>3. CASE tab[t].copy.prnCreated = n
    <2> DEFINE record == [tab[t].copy EXCEPT !.prnCreated = 0]
    <2>1. tab[t].copy \in Records /\ RecordTruth(tab[t].copy, status, tonnage)
      BY TabFacts DEF TabTruth
    <2>2. record \in Records /\ RecordTruth(record, status, tonnage)
      BY <2>1, CopyChanged
    <2>3. status[n] \in Raised
      BY <1>3, <2>1, NotesFact DEF RecordTruth
    <2>4. NotePage("created", n) \in Tab /\ TabTruth(NotePage("created", n), status, tonnage)
      BY <2>3, NotePageTab DEF NotePages
    <2>5. yar' = [yar EXCEPT ![home[t]] = record] /\ tab' = [tab EXCEPT ![t] = NotePage("created", n)]
      BY <1>3 DEF ShowCreated, Stores, Shows
    <2> HIDE DEF record
    <2> QED
      BY <1>2, <2>2, <2>4, <2>5, TabStep
  <1>4. CASE tab[t].copy.prnCreated # n
    <2>1. RedirectTo(t, "view", n) /\ UNCHANGED <<home, yar>>
      BY <1>2, <1>4 DEF ShowCreated
    <2> QED
      BY <1>2, <2>1, RedirectStep DEF NotePages
  <1> QED
    BY <1>3, <1>4

(* The page of an issued note: it was issued, and the number is its own.   *)
LEMMA ShowIssuedIInv ==
  ASSUME IInv, NEW t \in Tabs, NEW n \in Notes, ShowIssued(t, n)
  PROVE  IInv'
  <1>1. UNCHANGED <<home, backend>>
    BY DEF ShowIssued
  <1>2. BackendStep /\ home' = home /\ status' = status /\ tonnage' = tonnage
    BY <1>1 DEF BackendStep, backend
  <1>3. /\ tab[t].copy \in Records /\ RecordTruth(tab[t].copy, status, tonnage)
        /\ yar \in [Browsers -> Records] /\ home[t] \in Browsers
        /\ yar[home[t]] \in Records /\ RecordTruth(yar[home[t]], status, tonnage)
    BY TabFacts DEF TabTruth
  <1>4. PICK record \in Records : /\ yar' = [yar EXCEPT ![home[t]] = record]
                                  /\ RecordTruth(record, status, tonnage)
    <2>1. CASE tab[t].copy.prnIssued # 0
      <3> DEFINE record == [tab[t].copy EXCEPT !.prnIssued = 0]
      <3>1. yar' = [yar EXCEPT ![home[t]] = record]
        BY <2>1 DEF ShowIssued, Stores
      <3>2. record \in Records /\ RecordTruth(record, status, tonnage)
        BY <1>3, CopyChanged
      <3> HIDE DEF record
      <3> QED
        BY <3>1, <3>2
    <2>2. CASE tab[t].copy.prnIssued = 0
      <3>1. yar' = [yar EXCEPT ![home[t]] = yar[home[t]]]
        BY <1>3, <2>2 DEF ShowIssued
      <3> QED
        BY <1>3, <3>1
    <2> QED
      BY <2>1, <2>2
  <1>5. PICK s \in Answers(n), fetched \in Numbers(n) :
          \/ Error(t) \/ RedirectTo(t, "view", n)
          \/ /\ s = "awaiting_acceptance"
             /\ Shows(t, [NotePage("issued", n) EXCEPT
                            !.number = NumberShown(fetched, tab[t].copy, n)])
    BY DEF ShowIssued, ShowsIssued
  <1>6. CASE Error(t)
    <2>1. At("error") \in Tab /\ TabTruth(At("error"), status', tonnage')
      BY PlainTab DEF PlainPages
    <2>2. tab' = [tab EXCEPT ![t] = At("error")]
      BY <1>6 DEF Error, Shows
    <2> QED
      BY <1>2, <1>4, <2>1, <2>2, TabStep
  <1>7. CASE RedirectTo(t, "view", n)
    <2> DEFINE x == [At("list") EXCEPT !.id = n, !.to = "view"]
    <2>1. x \in Tab /\ TabTruth(x, status', tonnage')
      BY RedirectTab DEF NotePages
    <2>2. tab' = [tab EXCEPT ![t] = x]
      BY <1>7 DEF RedirectTo, Shows
    <2> HIDE DEF x
    <2> QED
      BY <1>2, <1>4, <2>1, <2>2, TabStep
  <1>8. CASE /\ s = "awaiting_acceptance"
             /\ Shows(t, [NotePage("issued", n) EXCEPT
                            !.number = NumberShown(fetched, tab[t].copy, n)])
    <2> DEFINE m == NumberShown(fetched, tab[t].copy, n)
               x == [NotePage("issued", n) EXCEPT !.number = m]
    <2>1. m \in {0, n}
      BY DEF NumberShown, Numbers, Number
    <2>2. Implies(s, status[n])
      BY ImpliesSelf DEF Answers, IInv, Truth
    <2>3. status[n] \in Issued
      BY <1>8, <2>2 DEF Implies, Issued
    <2>4. tab' = [tab EXCEPT ![t] = x]
      BY <1>8 DEF Shows
    <2> HIDE DEF m
    <2>5. /\ NotePage("issued", n) \in Tab /\ NotePage("issued", n).page = "issued"
          /\ NotePage("issued", n).id = n /\ NotePage("issued", n).does = "nothing"
          /\ NotePage("issued", n).copy = Empty
      BY NotePageFacts DEF NotePages
    <2>6. x \in Tab
      BY <2>1, <2>5 DEF Tab
    <2>7. /\ x.page = "issued" /\ x.id = n /\ x.does = "nothing"
          /\ x.copy = Empty /\ x.number = m
      BY <2>5 DEF Tab
    <2> HIDE DEF x
    <2>8. PageTruth(x, status)
      BY <2>1, <2>3, <2>7, NotesFact DEF PageTruth
    <2>9. TabTruth(x, status, tonnage)
      BY <2>6, <2>7, <2>8, NoteTab
    <2> QED
      BY <1>2, <1>4, <2>4, <2>6, <2>9, TabStep
  <1> QED
    BY <1>5, <1>6, <1>7, <1>8
-----------------------------------------------------------------------------
(* POST.                                                                   *)

(* A request that waits: the page stays, and the copy is of the record.    *)
LEMMA WaitsIInv ==
  ASSUME IInv, UNCHANGED <<home, backend, yar>>, NEW t \in Tabs,
         NEW request \in Requests, NEW got \in Int, Waits(t, request, got),
         request = "confirm" =>
           tab[t].page = "check" /\ yar[home[t]].prnDraft.id = tab[t].id
  PROVE  IInv'
  <1> DEFINE x == [tab[t] EXCEPT !.does = request, !.got = got, !.copy = yar[home[t]]]
  <1>1. /\ tab \in [Tabs -> Tab] /\ tab[t] \in Tab /\ yar[home[t]] \in Records
        /\ TabTruth(tab[t], status, tonnage)
        /\ RecordTruth(yar[home[t]], status, tonnage)
    BY TabFacts
  <1>2. tab' = [tab EXCEPT ![t] = x]
    BY <1>1 DEF Waits, Tab
  <1>3. x \in Tab
    BY <1>1 DEF Tab
  <1>4. /\ x.page = tab[t].page /\ x.id = tab[t].id /\ x.number = tab[t].number
        /\ x.tonnage = tab[t].tonnage /\ x.does = request /\ x.copy = yar[home[t]]
    BY <1>1 DEF Tab
  <1> HIDE DEF x
  <1>5. PageTruth(x, status)
    BY <1>1, <1>4 DEF TabTruth, PageTruth
  <1>6. CheckTruth(x, status, tonnage)
    BY <1>1, <1>4 DEF TabTruth, CheckTruth
  <1>7. TabTruth(x, status, tonnage)
    BY <1>1, <1>4, <1>5, <1>6 DEF TabTruth
  <1> QED
    BY <1>2, <1>3, <1>7, Idle, TabStepOnly

LEMMA PostIInv ==
  ASSUME IInv, NEW t \in Tabs, Post(t)
  PROVE  IInv'
  <1>1. CASE PostCreate(t)
    BY <1>1, WaitsIInv DEF PostCreate, Requests
  <1>2. ASSUME NEW n \in Notes, PostConfirm(t, n) PROVE IInv'
    <2>1. UNCHANGED <<home, backend, yar>> /\ tab[t].page = "check" /\ tab[t].id = n
      BY <1>2 DEF PostConfirm, On
    <2>2. CASE Matches(yar[home[t]], n)
      <3>1. Waits(t, "confirm", available) /\ yar[home[t]].prnDraft.id = tab[t].id
        BY <1>2, <2>1, <2>2 DEF PostConfirm, Matches
      <3>2. available \in Int
        BY TabFacts
      <3> QED
        BY <2>1, <3>1, <3>2, WaitsIInv DEF Requests
    <2>3. CASE ~Matches(yar[home[t]], n)
      BY <1>2, <2>1, <2>3, Idle, PlainStep DEF PostConfirm
    <2> QED
      BY <2>2, <2>3
  <1>3. ASSUME NEW n \in Notes, PostDiscard(t, n) PROVE IInv'
    <2>1. UNCHANGED <<home, backend, yar>> /\ (Waits(t, "discard", 0) \/ CreateForm(t))
      BY <1>3 DEF PostDiscard
    <2> QED
      BY <2>1, Idle, PlainStep, WaitsIInv DEF Requests
  <1>4. ASSUME NEW n \in Notes, PostIssue(t, n) PROVE IInv'
    BY <1>4, WaitsIInv DEF PostIssue, Requests
  <1>5. ASSUME NEW n \in Notes, NEW p \in {"delete", "cancel"}, NEW only,
               FetchedForUpdate(t, p, n, only)
        PROVE  IInv'
    <2>1. UNCHANGED <<home, backend, yar>>
      BY <1>5 DEF FetchedForUpdate
    <2>2. List(t) \/ Error(t) \/ tab' = [tab EXCEPT ![t].does = p]
      BY <1>5 DEF FetchedForUpdate
    <2>3. CASE List(t) \/ Error(t)
      BY <2>1, <2>3, Idle, PlainStep
    <2>4. CASE tab' = [tab EXCEPT ![t].does = p]
      <3> DEFINE x == [tab[t] EXCEPT !.does = p]
      <3>1. tab \in [Tabs -> Tab] /\ tab[t] \in Tab /\ TabTruth(tab[t], status, tonnage)
        BY TabFacts
      <3>2. tab' = [tab EXCEPT ![t] = x]
        BY <2>4, <3>1 DEF Tab
      <3>3. x \in Tab
        BY <3>1 DEF Tab, Requests
      <3>4. /\ x.page = tab[t].page /\ x.id = tab[t].id /\ x.number = tab[t].number
            /\ x.tonnage = tab[t].tonnage /\ x.does = p /\ x.copy = tab[t].copy
        BY <3>1 DEF Tab
      <3> HIDE DEF x
      <3>5. TabTruth(x, status, tonnage)
        BY <3>1, <3>4 DEF TabTruth, PageTruth, CheckTruth
      <3> QED
        BY <2>1, <3>2, <3>3, <3>5, Idle, TabStepOnly
    <2> QED
      BY <2>2, <2>3, <2>4
  <1> QED
    BY <1>1, <1>2, <1>3, <1>4, <1>5 DEF Post, PostDelete, PostCancel

-----------------------------------------------------------------------------
(* Answers to calls.                                                       *)

(* A change of status is a step of the backend.                            *)
LEMMA UpdateIsBackendStep ==
  ASSUME IInv, NEW n \in Notes, NEW new \in Statuses, UpdateStatus(n, new)
  PROVE  BackendStep /\ status'[n] = new /\ status' = [status EXCEPT ![n] = new]
  <1>1. /\ status \in [Notes -> Statuses] /\ tonnage \in [Notes -> {0} \cup Tonnages]
        /\ available \in Int /\ {0} \cup Tonnages \subseteq Int
    <2>1. {0} \cup Tonnages \subseteq Int
      BY TonnagesAssumption
    <2> QED
      BY <2>1 DEF IInv, TypeOK
  <1>2. available' \in Int
    BY <1>1 DEF UpdateStatus
  <1>3. Moves(status[n], new) /\ Written(n, new) /\ tonnage' = tonnage
    BY DEF UpdateStatus, Moves, Written
  <1> QED
    BY <1>1, <1>2, <1>3 DEF BackendStep, Written

(* After a call that was made: the copy, changed, is stored, and the tab   *)
(* goes on; or its answer is lost.                                         *)
LEMMA AnswerStep ==
  ASSUME IInv, BackendStep, home' = home, NEW t \in Tabs, NEW x \in Tab,
         NEW record \in Records,
         TabTruth(x, status', tonnage'), RecordTruth(record, status', tonnage'),
         \/ Stores(t, record) /\ Shows(t, x)
         \/ (\/ Error(t) \/ \E n \in Notes : RedirectTo(t, "action", n)) /\ UNCHANGED yar
  PROVE  IInv'
  <1>1. CASE Stores(t, record) /\ Shows(t, x)
    BY <1>1, TabStep DEF Stores, Shows
  <1>2. CASE Error(t) /\ UNCHANGED yar
    BY <1>2, PlainStep
  <1>3. CASE (\E n \in Notes : RedirectTo(t, "action", n)) /\ UNCHANGED yar
    BY <1>3, RedirectStep DEF NotePages
  <1> QED
    BY <1>1, <1>2, <1>3

(* What is true of the copy before a step of the backend is true after it. *)
LEMMA CopyFact ==
  ASSUME IInv, BackendStep, NEW t \in Tabs
  PROVE  tab[t].copy \in Records /\ RecordTruth(tab[t].copy, status', tonnage')
  <1>1. tab[t].copy \in Records /\ RecordTruth(tab[t].copy, status, tonnage)
    BY TabFacts DEF TabTruth
  <1> QED
    BY <1>1, BackendKeeps, RecordKept DEF IInv, Truth

LEMMA CreateDraftIInv ==
  ASSUME IInv, NEW t \in Tabs, NEW n \in Notes, NEW x \in Tonnages, CreateDraft(t, n, x)
  PROVE  IInv'
  <1>1. status \in [Notes -> Statuses] /\ tonnage \in [Notes -> {0} \cup Tonnages]
    BY DEF IInv, TypeOK
  <1>2. BackendStep /\ home' = home
    BY DEF CreateDraft, BackendStep, Written
  <1>3. status'[n] # "none" /\ tonnage'[n] = x
    BY <1>1 DEF CreateDraft
  <1> DEFINE record == [tab[t].copy EXCEPT !.prnDraft = DraftSession(n, x)]
             page == [At("list") EXCEPT !.id = n, !.to = "view"]
  <1>4. record \in Records /\ RecordTruth(record, status', tonnage')
    BY <1>2, <1>3, CopyFact, CopyChanged
  <1>5. page \in Tab /\ TabTruth(page, status', tonnage')
    BY RedirectTab DEF NotePages
  <1>6. \/ Stores(t, record) /\ Shows(t, page)
        \/ Error(t) /\ UNCHANGED yar
    BY DEF CreateDraft, RedirectTo
  <1> HIDE DEF record, page
  <1> QED
    BY <1>2, <1>4, <1>5, <1>6, AnswerStep

LEMMA ConfirmIInv ==
  ASSUME IInv, NEW t \in Tabs, NEW n \in Notes, Confirm(t, n)
  PROVE  IInv'
  <1>1. home' = home
    BY DEF Confirm
  <1>2. CASE Exceeds(t)
    <2>1. UpdateStatus(n, "discarded") /\ "discarded" \in Statuses
      BY <1>2 DEF Confirm, Statuses
    <2>2. BackendStep
      BY <2>1, UpdateIsBackendStep
    <2> DEFINE record == [tab[t].copy EXCEPT !.prnDraft = NoDraft]
    <2>3. record \in Records /\ RecordTruth(record, status', tonnage')
      BY <2>2, CopyFact, CopyChanged
    <2>4. At("create") \in Tab /\ TabTruth(At("create"), status', tonnage')
      BY PlainTab DEF PlainPages
    <2>5. \/ Stores(t, record) /\ Shows(t, At("create"))
          \/ Error(t) /\ UNCHANGED yar
      BY <1>2 DEF Confirm, CreateForm
    <2> HIDE DEF record
    <2> QED
      BY <1>1, <2>2, <2>3, <2>4, <2>5, AnswerStep
  <1>3. CASE ~Exceeds(t)
    <2>1. UpdateStatus(n, "awaiting_authorisation") /\ "awaiting_authorisation" \in Statuses
      BY <1>3 DEF Confirm, Statuses
    <2>2. BackendStep /\ status'[n] \in Raised
      BY <2>1, UpdateIsBackendStep DEF Raised
    <2> DEFINE record == [[tab[t].copy EXCEPT !.prnDraft = NoDraft] EXCEPT !.prnCreated = n]
               page == [At("list") EXCEPT !.id = n, !.to = "created"]
    <2>3. record \in Records /\ RecordTruth(record, status', tonnage')
      BY <2>2, CopyFact, CopyChanged
    <2>4. page \in Tab /\ TabTruth(page, status', tonnage')
      BY RedirectTab DEF NotePages
    <2>5. \/ Stores(t, record) /\ Shows(t, page)
          \/ Error(t) /\ UNCHANGED yar
      BY <1>3 DEF Confirm, RedirectTo
    <2> HIDE DEF record, page
    <2> QED
      BY <1>1, <2>2, <2>3, <2>4, <2>5, AnswerStep
  <1> QED
    BY <1>2, <1>3

LEMMA DiscardIInv ==
  ASSUME IInv, NEW t \in Tabs, NEW n \in Notes, Discard(t, n)
  PROVE  IInv'
  <1>1. UpdateStatus(n, "discarded") /\ "discarded" \in Statuses /\ home' = home
    BY DEF Discard, Statuses
  <1>2. BackendStep
    BY <1>1, UpdateIsBackendStep
  <1> DEFINE record == [tab[t].copy EXCEPT !.prnDraft = NoDraft]
  <1>3. record \in Records /\ RecordTruth(record, status', tonnage')
    BY <1>2, CopyFact, CopyChanged
  <1>4. At("create") \in Tab /\ TabTruth(At("create"), status', tonnage')
    BY PlainTab DEF PlainPages
  <1>5. \/ Stores(t, record) /\ Shows(t, At("create"))
        \/ Error(t) /\ UNCHANGED yar
    BY DEF Discard, CreateForm
  <1> HIDE DEF record
  <1> QED
    BY <1>1, <1>2, <1>3, <1>4, <1>5, AnswerStep

LEMMA IssueIInv ==
  ASSUME IInv, NEW t \in Tabs, NEW n \in Notes, Issue(t, n)
  PROVE  IInv'
  <1>1. home' = home
    BY DEF Issue
  <1>2. CASE UpdateStatus(n, "awaiting_acceptance")
             /\ (\/ Stores(t, [tab[t].copy EXCEPT !.prnIssued = n]) /\ RedirectTo(t, "issued", n)
                 \/ IssueFailed(t, n) /\ UNCHANGED yar)
    <2>1. "awaiting_acceptance" \in Statuses
      BY DEF Statuses
    <2>2. BackendStep
      BY <1>2, <2>1, UpdateIsBackendStep
    <2> DEFINE record == [tab[t].copy EXCEPT !.prnIssued = n]
               page == [At("list") EXCEPT !.id = n, !.to = "issued"]
    <2>3. record \in Records /\ RecordTruth(record, status', tonnage')
      BY <2>2, CopyFact, CopyChanged
    <2>4. page \in Tab /\ TabTruth(page, status', tonnage')
      BY RedirectTab DEF NotePages
    <2>5. \/ Stores(t, record) /\ Shows(t, page)
          \/ RedirectTo(t, "action", n) /\ UNCHANGED yar
      BY <1>2 DEF RedirectTo, IssueFailed
    <2> HIDE DEF record, page
    <2> QED
      BY <1>1, <2>2, <2>3, <2>4, <2>5, AnswerStep
  <1>3. CASE (IssueFailed(t, n) \/ Error(t)) /\ UNCHANGED <<backend, yar>>
    <2>1. UNCHANGED <<home, backend, yar>>
      BY <1>1, <1>3
    <2> QED
      BY <1>3, <2>1, Idle, PlainStep, RedirectStep DEF IssueFailed, NotePages
  <1> QED
    BY <1>2, <1>3 DEF Issue

(* Delete and cancel leave the record alone.                               *)
LEMMA DeleteCancelIInv ==
  ASSUME IInv, NEW t \in Tabs, NEW n \in Notes, Delete(t, n) \/ Cancel(t, n)
  PROVE  IInv'
  <1>1. /\ UNCHANGED <<home, yar>>
        /\ \E new \in Statuses : UpdateStatus(n, new)
    BY DEF Delete, Cancel, Statuses
  <1>2. BackendStep
    BY <1>1, UpdateIsBackendStep
  <1>3. List(t) \/ Error(t) \/ RedirectTo(t, "cancelled", n)
    BY DEF Delete, Cancel
  <1> QED
    BY <1>1, <1>2, <1>3, PlainStep, RedirectStep DEF NotePages

(* Whatever happens, the invariant is kept.                                *)
LEMMA NextIInv ==
  ASSUME IInv, [Next]_vars
  PROVE  IInv'
  <1>1. ASSUME NEW t \in Tabs, Get(t) PROVE IInv'
    <2>1. CASE GetList(t) \/ GetCreate(t)
      BY <2>1, Idle, PlainStep DEF GetList, GetCreate
    <2>2. ASSUME NEW n \in Notes,
                 \/ GetView(t, n) \/ GetDiscard(t, n) \/ GetAction(t, n)
                 \/ GetDelete(t, n) \/ GetCancel(t, n) \/ GetCancelled(t, n)
                 \/ GetCreated(t, n) \/ GetIssued(t, n)
          PROVE  IInv'
      BY <2>2, GetViewIInv, GetDiscardIInv, GetActionIInv, FetchedForIInv, ArrivesIInv
      DEF GetDelete, GetCancel, GetCancelled, GetCreated, GetIssued
    <2> QED
      BY <1>1, <2>1, <2>2 DEF Get
  <1>2. ASSUME NEW t \in Tabs, Post(t) PROVE IInv'
    BY <1>2, PostIInv
  <1>3. ASSUME NEW t \in Tabs, Wake(t) PROVE IInv'
    <2>1. CASE Fails(t)
      BY <2>1, Idle, PlainStep DEF Fails
    <2>2. ASSUME NEW n \in Notes,
                 \/ ShowCreated(t, n) \/ ShowIssued(t, n)
                 \/ \E x \in Tonnages : CreateDraft(t, n, x)
                 \/ Confirm(t, n) \/ Discard(t, n) \/ Issue(t, n)
                 \/ Delete(t, n) \/ Cancel(t, n)
          PROVE  IInv'
      BY <2>2, ShowCreatedIInv, ShowIssuedIInv, CreateDraftIInv, ConfirmIInv,
         DiscardIInv, IssueIInv, DeleteCancelIInv
    <2> QED
      BY <1>3, <2>1, <2>2 DEF Wake
  <1>4. ASSUME NEW n \in Notes, Replicate(n) PROVE IInv'
    <2>1. BackendStep
      BY <1>4 DEF Replicate, BackendStep
    <2> QED
      BY <1>4, <2>1, BackendAlone DEF Replicate
  <1>5. ASSUME NEW n \in Notes, NEW new \in Statuses, Respond(n, new) PROVE IInv'
    <2>1. Moves(status[n], new) /\ Written(n, new) /\ tonnage' = tonnage
      BY <1>5 DEF Respond, Moves, Written
    <2>2. available' \in Int
      BY <1>5 DEF Respond, IInv, TypeOK
    <2>3. BackendStep
      BY <2>1, <2>2 DEF BackendStep
    <2> QED
      BY <1>5, <2>3, BackendAlone DEF Respond
  <1>6. CASE UNCHANGED vars
    BY <1>6, BackendAlone DEF vars, BackendStep
  <1> QED
    BY <1>1, <1>2, <1>3, <1>4, <1>5, <1>6 DEF Next

(* The invariant, of every behaviour.                                      *)
LEMMA Invariance == Spec => []IInv
  <1>1. IInv /\ [Next]_vars => IInv'
    BY NextIInv
  <1> QED
    BY InitIInv, <1>1, PTL DEF Spec

-----------------------------------------------------------------------------
(* Theorems.                                                               *)

(* The state is well typed: in particular the record of a browser holds a  *)
(* draft and ids of notes, whatever requests overlap (yar).                *)
THEOREM TypeCorrect == Spec => []TypeOK
  <1>1. IInv => TypeOK
    BY DEF IInv
  <1> QED
    BY Invariance, <1>1, PTL

(* What the pages after creating, issuing and cancelling say of a note has *)
(* happened to it, however old the record and the backend's answer are     *)
(* they are made from (created-controller.js, issued-controller.js,        *)
(* cancelled-controller.js).                                               *)
THEOREM PagesAreTrue == Spec => []PagesTellTheTruth
  <1>1. IInv => PagesTellTheTruth
    BY DEF IInv, Truth, TabTruth, PageTruth, PagesTellTheTruth, TellingPages, Tells
  <1> QED
    BY Invariance, <1>1, PTL

(* The page of an issued note never shows the number of another note the   *)
(* browser has issued (issued-controller.js).                              *)
THEOREM NumbersAreOwn == Spec => []NumberIsOwn
  <1>1. IInv => NumberIsOwn
    BY DEF IInv, Truth, TabTruth, PageTruth, NumberIsOwn
  <1> QED
    BY Invariance, <1>1, PTL

(* What a step that takes a note out of draft is: a tab has confirmed or   *)
(* discarded it.                                                           *)
LEMMA LeavesDraft ==
  ASSUME IInv, [Next]_vars, NEW n \in Notes, status[n] = "draft", status'[n] # "draft"
  PROVE  \E t \in Tabs : Confirm(t, n) \/ Discard(t, n)
  <1>1. status \in [Notes -> Statuses]
    BY DEF IInv, TypeOK
  <1>2. ~ UNCHANGED status
    OBVIOUS
  <1>3. ASSUME NEW t \in Tabs, Get(t) \/ Post(t) PROVE UNCHANGED status
    BY <1>3 DEF Get, Post, GetList, GetCreate, GetView, GetDiscard, GetAction, GetDelete,
       GetCancel, GetCancelled, FetchedFor, GetCreated, GetIssued, Arrives, PostCreate,
       PostConfirm, PostDiscard, PostIssue, PostDelete, PostCancel, FetchedForUpdate, backend
  <1>4. ASSUME NEW m \in Notes, NEW new, UpdateStatus(m, new),
               new \notin {"awaiting_authorisation", "discarded"}
        PROVE  FALSE
    <2>1. status[m] # "draft" /\ status' = [status EXCEPT ![m] = new]
      BY <1>4 DEF UpdateStatus, Follows
    <2> QED
      BY <1>1, <2>1
  <1>5. ASSUME NEW t \in Tabs, Wake(t)
        PROVE  Confirm(t, n) \/ Discard(t, n)
    <2>1. CASE Fails(t)
      BY <1>2, <2>1 DEF Fails, backend
    <2>2. ASSUME NEW m \in Notes, ShowCreated(t, m) \/ ShowIssued(t, m) PROVE FALSE
      BY <1>2, <2>2 DEF ShowCreated, ShowIssued, backend
    <2>3. ASSUME NEW m \in Notes, NEW x \in Tonnages, CreateDraft(t, m, x) PROVE FALSE
      BY <1>1, <2>3 DEF CreateDraft
    <2>4. ASSUME NEW m \in Notes, Confirm(t, m) \/ Discard(t, m) PROVE m = n
      <3>1. PICK new : UpdateStatus(m, new)
        BY <2>4 DEF Confirm, Discard
      <3> QED
        BY <1>1, <3>1 DEF UpdateStatus
    <2>5. ASSUME NEW m \in Notes, Issue(t, m) \/ Delete(t, m) \/ Cancel(t, m) PROVE FALSE
      BY <1>2, <1>4, <2>5 DEF Issue, Delete, Cancel, backend
    <2> QED
      BY <1>5, <2>1, <2>2, <2>3, <2>4, <2>5 DEF Wake
  <1>6. ASSUME NEW m \in Notes, Replicate(m) PROVE FALSE
    BY <1>2, <1>6 DEF Replicate
  <1>7. ASSUME NEW m \in Notes, NEW new, Respond(m, new) PROVE FALSE
    BY <1>1, <1>7 DEF Respond
  <1>8. Next
    BY <1>2 DEF vars, backend
  <1> QED
    BY <1>2, <1>3, <1>5, <1>6, <1>7, <1>8 DEF Next

(* A draft is raised by a page that showed its tonnage, after that tonnage *)
(* was found within the balance, and discarded by request or because its   *)
(* own tonnage exceeds the balance, whatever drafts the tabs of a browser  *)
(* overwrite in its record (view-controller.js).                           *)
THEOREM DraftsAreJudged == Spec => JudgedByItsTonnage
  <1>1. ASSUME IInv, [Next]_vars, NEW n \in Notes, status[n] = "draft", status'[n] # "draft"
        PROVE  \E t \in Tabs : tab[t].id = n /\
                 IF status'[n] = "awaiting_authorisation"
                 THEN /\ tab[t].does = "confirm" /\ tab[t].tonnage = tonnage[n]
                      /\ tonnage[n] <= tab[t].got
                 ELSE \/ tab[t].does = "discard"
                      \/ tab[t].does = "confirm" /\ tonnage[n] > tab[t].got
    <2>1. PICK t \in Tabs : Confirm(t, n) \/ Discard(t, n)
      BY <1>1, LeavesDraft
    <2>2. /\ status \in [Notes -> Statuses] /\ tonnage \in [Notes -> {0} \cup Tonnages]
          /\ tab[t] \in Tab /\ TabTruth(tab[t], status, tonnage)
      BY <1>1, TabFacts
    <2>3. CASE Confirm(t, n)
      <3>1. tab[t].does = "confirm" /\ tab[t].id = n
        BY <2>3 DEF Confirm
      <3>2. tab[t].page = "check" /\ tab[t].copy.prnDraft.id = n /\ tab[t].tonnage = tonnage[n]
        BY <2>2, <3>1 DEF TabTruth, CheckTruth
      <3>3. tab[t].copy.prnDraft.tonnage = tonnage[n]
        BY <2>2, <3>2, NotesFact DEF TabTruth, RecordTruth
      <3>4. tonnage[n] \in Int /\ tab[t].got \in Int
        <4>1. {0} \cup Tonnages \subseteq Int
          BY TonnagesAssumption
        <4> QED
          BY <2>2, <4>1 DEF Tab
      <3>5. CASE Exceeds(t)
        <4>1. status'[n] = "discarded"
          BY <2>2, <2>3, <3>5 DEF Confirm, UpdateStatus
        <4>2. tonnage[n] > tab[t].got
          BY <3>3, <3>5 DEF Exceeds
        <4> QED
          BY <3>1, <4>1, <4>2
      <3>6. CASE ~Exceeds(t)
        <4>1. status'[n] = "awaiting_authorisation"
          BY <2>2, <2>3, <3>6 DEF Confirm, UpdateStatus
        <4>2. tonnage[n] <= tab[t].got
          BY <3>3, <3>4, <3>6 DEF Exceeds
        <4> QED
          BY <3>1, <3>2, <4>1, <4>2
      <3> QED
        BY <3>5, <3>6
    <2>4. CASE Discard(t, n)
      <3>1. status'[n] = "discarded" /\ tab[t].does = "discard" /\ tab[t].id = n
        BY <2>2, <2>4 DEF Discard, UpdateStatus
      <3> QED
        BY <3>1
    <2> QED
      BY <2>1, <2>3, <2>4
  <1>2. IInv /\ [Next]_vars =>
          [\A n \in Notes : status[n] = "draft" /\ status'[n] # "draft" =>
             \E t \in Tabs : tab[t].id = n /\
               IF status'[n] = "awaiting_authorisation"
               THEN /\ tab[t].does = "confirm" /\ tab[t].tonnage = tonnage[n]
                    /\ tonnage[n] <= tab[t].got
               ELSE \/ tab[t].does = "discard"
                    \/ tab[t].does = "confirm" /\ tonnage[n] > tab[t].got]_vars
    BY <1>1
  <1> QED
    BY Invariance, <1>2, PTL DEF Spec, JudgedByItsTonnage

-----------------------------------------------------------------------------
(* The refinement of Announcements.                                        *)

So == {f \in Facts : Tells(f[2], status[f[1]])}

TellsOf(x) == {f \in Facts : f = <<x.id, x.page>>}
Told       == [t \in Tabs |-> TellsOf(tab[t])]

(* Notes, and the pages that tell what has become of them.                 *)
LEMMA FactsAre ==
  /\ \A p, n : <<n, p>> \in Facts <=> n \in Notes /\ p \in TellingPages
  /\ \A f \in Facts : f = <<f[1], f[2]>> /\ f[1] \in Notes /\ f[2] \in TellingPages
  BY DEF Facts

(* What tells something tells one thing.                                   *)
LEMMA TellsOne ==
  ASSUME NEW x
  PROVE  /\ <<x.id, x.page>> \in Facts => TellsOf(x) = {<<x.id, x.page>>}
         /\ <<x.id, x.page>> \notin Facts => TellsOf(x) = {}
  BY DEF TellsOf

(* Nothing has become of a note before there is one.                       *)
LEMMA NothingYet == Init => So = {} /\ Told = [t \in Tabs |-> {}]
  <1> SUFFICES ASSUME Init PROVE So = {} /\ Told = [t \in Tabs |-> {}]
    OBVIOUS
  <1>1. ASSUME NEW f \in Facts
        PROVE  ~Tells(f[2], status[f[1]])
    <2>1. status[f[1]] = "none" /\ f[2] \in TellingPages
      BY FactsAre DEF Init
    <2> QED
      BY <2>1 DEF Tells, Raised, Issued, TellingPages
  <1>2. ASSUME NEW t \in Tabs
        PROVE  TellsOf(tab[t]) = {}
    <2>1. tab[t].page = "list"
      BY DEF Init, At
    <2> QED
      BY <2>1, FactsAre, TellsOne DEF TellingPages
  <1> QED
    BY <1>1, <1>2 DEF So, Told

(* A step of the backend takes nothing back: what a note went through its  *)
(* later statuses tell as well.                                            *)
LEMMA SoGrows ==
  ASSUME IInv, BackendStep
  PROVE  So \subseteq So' /\ So' \subseteq Facts
  <1>1. \A n \in Notes : Implies(status[n], status'[n])
    BY BackendKeeps DEF IInv, Truth, BackendKept
  <1>2. ASSUME NEW f \in Facts, Tells(f[2], status[f[1]])
        PROVE  Tells(f[2], status'[f[1]])
    <2>1. Implies(status[f[1]], status'[f[1]]) /\ f[2] \in TellingPages
      BY <1>1, FactsAre
    <2> QED
      BY <1>2, <2>1 DEF Implies, Tells, TellingPages
  <1> QED
    BY <1>2 DEF So

(* What a step does to announcements: one tab goes to a page, and either   *)
(* that page tells nothing, or nothing has become of any note.             *)
Announces(t, x) ==
  /\ tab' = [tab EXCEPT ![t] = x]
  /\ x.page \notin TellingPages \/ UNCHANGED status

(* Such a step is one of the abstract specification.                       *)
LEMMA AnnouncesStep ==
  ASSUME IInv, IInv', BackendStep, NEW t \in Tabs, NEW x, Announces(t, x)
  PROVE  [Announced!Next]_<<So, Told>>
  <1>1. So \subseteq So' /\ So' \subseteq Facts
    BY SoGrows
  <1>2. tab' = [tab EXCEPT ![t] = x] /\ tab \in [Tabs -> Tab]
    BY DEF Announces, IInv, TypeOK, Tab
  <1>3. tab'[t] = x /\ \A u \in Tabs \ {t} : tab'[u] = tab[u]
    BY <1>2
  <1>4. Told' = [Told EXCEPT ![t] = TellsOf(x)]
    BY <1>3 DEF Told, TellsOf
  <1>5. CASE <<x.id, x.page>> \notin Facts
    <2>1. Told' = [Told EXCEPT ![t] = {}]
      BY <1>4, <1>5, TellsOne
    <2> QED
      BY <2>1, <1>1
      DEF Announced!Next, Announced!Leave, Announced!Grows, So, Told, TellsOf
  <1>6. CASE <<x.id, x.page>> \in Facts
    <2> DEFINE f == <<x.id, x.page>>
    <2>1. x.page \in TellingPages /\ x.id \in Notes
      BY <1>6, FactsAre
    <2>2. So' = So
      BY <2>1 DEF Announces, So
    <2>3. Tells(x.page, status'[x.id])
      <3>1. PageTruth(tab'[t], status')
        BY DEF IInv, Truth, TabTruth
      <3> QED
        BY <3>1, <2>1, <1>3 DEF PageTruth, Tells, TellingPages
    <2>4. f \in So
      BY <2>2, <2>3, <1>6 DEF So
    <2>5. Told' = [Told EXCEPT ![t] = {f}]
      BY <1>4, <1>6, TellsOne
    <2> QED
      BY <2>2, <2>4, <2>5 DEF Announced!Next, Announced!Tell, So, Told, TellsOf
  <1> QED
    BY <1>5, <1>6

(* A page shown by a request that changes no note, and a tab sent          *)
(* elsewhere by one that does.                                             *)
LEMMA Elsewhere ==
  ASSUME NEW t \in Tabs,
         \/ (\E x : Shows(t, x)) /\ UNCHANGED status
         \/ List(t) \/ CreateForm(t) \/ Error(t)
         \/ \E p, n : RedirectTo(t, p, n)
  PROVE  \E x : Announces(t, x)
  <1>1. CASE (\E x : Shows(t, x)) /\ UNCHANGED status
    BY <1>1 DEF Shows, Announces
  <1>2. CASE List(t) \/ CreateForm(t) \/ Error(t)
    <2>1. PICK p \in {"list", "create", "error"} : Shows(t, At(p))
      BY <1>2 DEF List, CreateForm, Error
    <2>2. At(p).page = p
      BY DEF At
    <2> QED
      BY <2>1, <2>2 DEF Shows, Announces, TellingPages
  <1>3. CASE \E p, n : RedirectTo(t, p, n)
    <2>1. PICK p, n : Shows(t, [At("list") EXCEPT !.id = n, !.to = p])
      BY <1>3 DEF RedirectTo
    <2>2. [At("list") EXCEPT !.id = n, !.to = p].page = "list"
      BY DEF At
    <2> QED
      BY <2>1, <2>2 DEF Shows, Announces, TellingPages
  <1> QED
    BY <1>1, <1>2, <1>3

(* GET: no note changes.                                                   *)
LEMMA GetAnnounces ==
  ASSUME NEW t \in Tabs, Get(t)
  PROVE  UNCHANGED backend /\ \E x : Announces(t, x)
  <1>1. UNCHANGED <<status, tonnage, replica, available>>
    BY DEF Get, GetList, GetCreate, GetView, GetDiscard, GetAction, GetDelete,
       GetCancel, GetCancelled, FetchedFor, GetCreated, GetIssued, Arrives, backend
  <1>2. \E x : Shows(t, x)
    BY DEF Get, GetList, GetCreate, GetView, DraftView, ExistingView, GetDiscard,
       GetAction, GetDelete, GetCancel, GetCancelled, FetchedFor, GetCreated, GetIssued,
       Arrives, List, CreateForm, Error, Shows
  <1> QED
    BY <1>1, <1>2, Elsewhere DEF backend

(* POST: none does before its call is made.                                *)
LEMMA PostAnnounces ==
  ASSUME IInv, NEW t \in Tabs, Post(t)
  PROVE  UNCHANGED backend /\ \E x : Announces(t, x)
  <1>1. UNCHANGED <<status, tonnage, replica, available>>
    BY DEF Post, PostCreate, PostConfirm, PostDiscard, PostIssue, PostDelete, PostCancel,
       FetchedForUpdate, backend
  <1>2. tab \in [Tabs -> Tab]
    BY DEF IInv, TypeOK, Tab
  <1>3. ASSUME NEW request, NEW got, Waits(t, request, got)
        PROVE  \E x : Shows(t, x)
    <2>1. tab' = [tab EXCEPT ![t] = [tab[t] EXCEPT !.does = request, !.got = got,
                                                   !.copy = yar[home[t]]]]
      BY <1>2, <1>3 DEF Waits
    <2> QED
      BY <2>1 DEF Shows
  <1>4. ASSUME NEW p, tab' = [tab EXCEPT ![t].does = p]
        PROVE  \E x : Shows(t, x)
    <2>1. tab' = [tab EXCEPT ![t] = [tab[t] EXCEPT !.does = p]]
      BY <1>2, <1>4
    <2> QED
      BY <2>1 DEF Shows
  <1>5. \/ \E request, got : Waits(t, request, got)
        \/ \E p : tab' = [tab EXCEPT ![t].does = p]
        \/ List(t) \/ CreateForm(t) \/ Error(t)
    BY DEF Post, PostCreate, PostConfirm, PostDiscard, PostIssue, PostDelete, PostCancel,
       FetchedForUpdate
  <1> QED
    BY <1>1, <1>3, <1>4, <1>5, Elsewhere DEF backend

(* The answer of a call that was made: what the note has become is told by *)
(* another page, if at all.                                                *)
LEMMA WakeAnnounces ==
  ASSUME IInv, NEW t \in Tabs, Wake(t)
  PROVE  BackendStep /\ \E x : Announces(t, x)
  <1>1. UNCHANGED backend => BackendStep /\ UNCHANGED status
    BY DEF BackendStep, backend
  <1>2. CASE Fails(t)
    BY <1>1, <1>2, Elsewhere DEF Fails, backend
  <1>3. ASSUME NEW n \in Notes, ShowCreated(t, n) \/ ShowIssued(t, n)
        PROVE  BackendStep /\ \E x : Announces(t, x)
    <2>1. UNCHANGED backend
      BY <1>3 DEF ShowCreated, ShowIssued, backend
    <2>2. \E x : Shows(t, x)
      BY <1>3 DEF ShowCreated, ShowIssued, Error, RedirectTo
    <2> QED
      BY <1>1, <2>1, <2>2, Elsewhere
  <1>4. ASSUME NEW n \in Notes, NEW x \in Tonnages, CreateDraft(t, n, x)
        PROVE  BackendStep /\ \E y : Announces(t, y)
    <2>1. BackendStep
      BY <1>4 DEF CreateDraft, BackendStep, Written
    <2>2. Error(t) \/ RedirectTo(t, "view", n)
      BY <1>4 DEF CreateDraft
    <2> QED
      BY <2>1, <2>2, Elsewhere
  <1>5. ASSUME NEW n \in Notes,
               \/ Confirm(t, n) \/ Discard(t, n) \/ Issue(t, n)
               \/ Delete(t, n) \/ Cancel(t, n)
        PROVE  BackendStep /\ \E x : Announces(t, x)
    <2>1. UNCHANGED backend \/ \E new \in Statuses : UpdateStatus(n, new)
      BY <1>5 DEF Confirm, Discard, Issue, Delete, Cancel, Statuses, backend
    <2>2. BackendStep
      BY <1>1, <2>1, UpdateIsBackendStep
    <2>3. List(t) \/ CreateForm(t) \/ Error(t) \/ \E p : RedirectTo(t, p, n)
      BY <1>5 DEF Confirm, Discard, Issue, IssueFailed, Delete, Cancel
    <2> QED
      BY <2>2, <2>3, Elsewhere
  <1> QED
    BY <1>2, <1>3, <1>4, <1>5 DEF Wake

(* The pages implement the announcements: what they tell of a note was so  *)
(* before a step showed it, and the backend takes none of it back          *)
(* (created-controller.js, issued-controller.js, cancelled-controller.js). *)
THEOREM ImplementsTheAnnouncements == Spec => ImplementsAnnouncements
  <1>1. Init => Announced!Init
    BY NothingYet DEF Announced!Init, So, Told, TellsOf
  <1>2. ASSUME IInv, [Next]_vars
        PROVE  [Announced!Next]_<<So, Told>>
    <2>1. IInv'
      BY <1>2, NextIInv
    <2>2. ASSUME NEW t \in Tabs, Get(t) \/ Post(t) \/ Wake(t)
          PROVE  [Announced!Next]_<<So, Told>>
      <3>1. BackendStep /\ \E x : Announces(t, x)
        BY <1>2, <2>2, GetAnnounces, PostAnnounces, WakeAnnounces DEF BackendStep
      <3> QED
        BY <1>2, <2>1, <3>1, AnnouncesStep
    <2>3. ASSUME BackendStep, UNCHANGED tab
          PROVE  [Announced!Next]_<<So, Told>>
      <3>1. So \subseteq So' /\ So' \subseteq Facts /\ Told' = Told
        BY <1>2, <2>3, SoGrows DEF Told, TellsOf
      <3> QED
        BY <3>1 DEF Announced!Next, Announced!Happen, Announced!Grows, So, Told, TellsOf
    <2>4. ASSUME NEW n \in Notes, Replicate(n)
          PROVE  [Announced!Next]_<<So, Told>>
      BY <2>3, <2>4 DEF Replicate, BackendStep
    <2>5. ASSUME NEW n \in Notes, NEW new \in Statuses, Respond(n, new)
          PROVE  [Announced!Next]_<<So, Told>>
      <3>1. Moves(status[n], new) /\ Written(n, new) /\ tonnage' = tonnage
        BY <2>5 DEF Respond, Moves, Written
      <3>2. available' \in Int
        BY <1>2, <2>5 DEF Respond, IInv, TypeOK
      <3>3. BackendStep
        BY <3>1, <3>2 DEF BackendStep
      <3> QED
        BY <2>3, <2>5, <3>3 DEF Respond
    <2>6. CASE UNCHANGED vars
      BY <2>3, <2>6 DEF vars, BackendStep
    <2> QED
      BY <1>2, <2>2, <2>4, <2>5, <2>6 DEF Next
  <1> QED
    BY <1>1, <1>2, Invariance, PTL
    DEF Spec, ImplementsAnnouncements, Announced!Spec, So, Told, TellsOf
=============================================================================
