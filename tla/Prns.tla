-------------------------------- MODULE Prns --------------------------------
(***************************************************************************)
(* The packaging recycling notes of one accreditation: the backend's notes *)
(* from draft to issued, accepted or cancelled, its available waste        *)
(* balance, and the tabs of the operators' browsers that create, confirm,  *)
(* issue, delete, discard and cancel notes.                                *)
(*                                                                         *)
(* A browser has one session record ("yar"): the draft it is about to      *)
(* create, the note it has just created, the note it has just issued.      *)
(* Every request reads the whole record when it arrives and, if it changed *)
(* an entry, stores the whole record with its answer.  The backend reads   *)
(* from a replica that may be behind its own writes.                       *)
(*                                                                         *)
(* A request that changes the record or the backend is two actions: its    *)
(* arrival with its first call if it makes two, and its last call with the *)
(* answer.  Other requests are one.                                        *)
(***************************************************************************)
EXTENDS Integers, FiniteSets

CONSTANTS
  Tabs,       \* the tabs of all operators
  Browsers,   \* their browsers
  Homes,      \* which tab may be in which browser, a set of functions
  MaxNotes,   \* bound on the notes ever created
  Tonnages,   \* tonnages of notes
  Balances,   \* available waste balances, before anything is deducted
  Lagging     \* statuses whose write need not be replicated at once

ASSUME HomesAssumption == Homes \subseteq [Tabs -> Browsers]
ASSUME NotesAssumption == MaxNotes \in Nat \ {0}
ASSUME TonnagesAssumption == Tonnages \subseteq Nat \ {0}
ASSUME BalancesAssumption == Balances \subseteq Nat

Notes == 1..MaxNotes

(* "none" is a note that is not there yet.                                 *)
Statuses == {"none", "draft", "discarded", "awaiting_authorisation", "deleted",
             "awaiting_acceptance", "accepted", "awaiting_cancellation", "cancelled"}

ASSUME LaggingAssumption == Lagging \subseteq Statuses

(* What a note has gone through, as its status tells.                      *)
Issued == {"awaiting_acceptance", "accepted", "awaiting_cancellation", "cancelled"}
Raised == Issued \cup {"awaiting_authorisation", "deleted"}

(* Pages of no note, and pages of one.                                     *)
PlainPages == {"list", "create", "error"}
NotePages  == {"view", "check", "created", "discard", "action", "delete", "issued",
               "cancel", "cancelled"}

(* What a request that waits for its last call is about to do.             *)
Requests == {"create", "confirm", "discard", "issue", "delete", "cancel",
             "show-created", "show-issued"}

(* The entries of the record; a note issued is known by its number, which  *)
(* is as good as its id.                                                   *)
NoDraft == [id |-> 0, tonnage |-> 0]
Records == [prnDraft: {NoDraft} \cup [id: Notes, tonnage: Tonnages],
            prnCreated: {0} \cup Notes, prnIssued: {0} \cup Notes]
Empty   == [prnDraft |-> NoDraft, prnCreated |-> 0, prnIssued |-> 0]

VARIABLES
  home,       \* home[t]: the browser of tab t, which does not change
  status,     \* status[n]: the status of note n in the backend
  tonnage,    \* tonnage[n]: its tonnage, 0 as long as there is no note
  replica,    \* replica[n]: the status the backend may still answer with
  available,  \* the available waste balance
  yar,        \* yar[b]: the session record of browser b
  tab         \* tab[t]: the page of tab t, where it is sent, what it awaits

backend == <<status, tonnage, replica, available>>
vars    == <<home, backend, yar, tab>>

TypeOK ==
  /\ home \in Homes
  /\ status \in [Notes -> Statuses] /\ replica \in [Notes -> Statuses]
  /\ tonnage \in [Notes -> {0} \cup Tonnages]
  /\ available \in Int
  /\ yar \in [Browsers -> Records]
  /\ tab \in [Tabs -> [page: PlainPages \cup NotePages, id: {0} \cup Notes,
                       to: NotePages \cup {"nowhere"}, does: Requests \cup {"nothing"},
                       button: BOOLEAN, tonnage: {0} \cup Tonnages, got: Int,
                       number: {0} \cup Notes, copy: Records]]

(* A tab at a page of no note: "button" is that its page has the button to *)
(* issue, "tonnage" and "number" what the check page and the issued page   *)
(* show, "got" the balance the request has read, "copy" the record as it   *)
(* was when the request arrived.                                           *)
At(page) == [page |-> page, id |-> 0, to |-> "nowhere", does |-> "nothing",
             button |-> FALSE, tonnage |-> 0, got |-> 0, number |-> 0,
             copy |-> Empty]

Init ==
  /\ home \in Homes
  /\ status = [n \in Notes |-> "none"] /\ replica = status
  /\ tonnage = [n \in Notes |-> 0]
  /\ available \in Balances
  /\ yar = [b \in Browsers |-> Empty]
  /\ tab = [t \in Tabs |-> At("list")]

-----------------------------------------------------------------------------
(* The backend, as the handlers use it.  What a summary log does to the    *)
(* balance, other notes do as well.                                        *)

Follows(old, new) == <<old, new>> \in
  {<<"draft", "awaiting_authorisation">>, <<"draft", "discarded">>,
   <<"awaiting_authorisation", "awaiting_acceptance">>,
   <<"awaiting_authorisation", "deleted">>, <<"awaiting_cancellation", "cancelled">>}

(* What a status gives to the available balance or takes from it.          *)
Deducts(new)  == new = "awaiting_authorisation"
Returns(new)  == new \in {"deleted", "cancelled"}

(* updatePrnStatus, as far as the backend does it.                         *)
UpdateStatus(n, new) ==
  /\ Follows(status[n], new)
  /\ status' = [status EXCEPT ![n] = new]
  /\ available' = CASE Deducts(new) -> available - tonnage[n]
                    [] Returns(new) -> available + tonnage[n]
                    [] OTHER        -> available
  /\ replica' = IF new \in Lagging THEN replica ELSE [replica EXCEPT ![n] = new]
  /\ UNCHANGED tonnage

(* What a fetch of a note may answer for its status and its number, which  *)
(* need not be of the same age.                                            *)
Answers(n) == {status[n], replica[n]}
Number(n, s) == IF s \in Issued THEN n ELSE 0
Numbers(n) == {Number(n, s) : s \in Answers(n)}

Replicate(n) ==
  /\ replica[n] # status[n]
  /\ replica' = [replica EXCEPT ![n] = status[n]]
  /\ UNCHANGED <<home, status, tonnage, available, yar, tab>>

(* The producer accepts a note or asks for its cancellation.               *)
Respond(n, new) ==
  /\ status[n] = "awaiting_acceptance" /\ new \in {"accepted", "awaiting_cancellation"}
  /\ status' = [status EXCEPT ![n] = new]
  /\ replica' = IF new \in Lagging THEN replica ELSE [replica EXCEPT ![n] = new]
  /\ UNCHANGED <<home, tonnage, available, yar, tab>>

-----------------------------------------------------------------------------
(* Answers.  A redirect to the list or to the empty form is taken as       *)
(* followed.                                                               *)

Shows(t, page) == tab' = [tab EXCEPT ![t] = page]
List(t)        == Shows(t, At("list"))
CreateForm(t)  == Shows(t, At("create"))
Error(t)       == Shows(t, At("error"))

NotePage(p, n)      == [At("list") EXCEPT !.page = p, !.id = n]

(* A slip: the form is answered by the page itself.                        *)
RendersAtOnce(t, p, n) == Shows(t, NotePage(p, n))

RedirectTo(t, p, n) == Shows(t, [At("list") EXCEPT !.id = n, !.to = p])

(* The record of the request's copy, changed, is stored with the answer.   *)
Stores(t, record) == yar' = [yar EXCEPT ![home[t]] = record]

(* A request that is not done when it arrives: the page stays until it is  *)
(* answered.                                                               *)
Waits(t, request, got) ==
  tab' = [tab EXCEPT ![t].does = request, ![t].got = got, ![t].copy = yar[home[t]]]

-----------------------------------------------------------------------------
(* GET.                                                                    *)

(* By a redirect, or by a link, the history or a typed path.               *)
Asks(t, p, n) ==
  /\ tab[t].does = "nothing"
  /\ tab[t].to # "nowhere" => tab[t].to = p /\ tab[t].id = n
  /\ tonnage[n] # 0

AsksPlain(t) == tab[t].does = "nothing" /\ tab[t].to = "nowhere"

GetList(t)   == AsksPlain(t) /\ List(t) /\ UNCHANGED <<home, backend, yar>>
GetCreate(t) == AsksPlain(t) /\ CreateForm(t) /\ UNCHANGED <<home, backend, yar>>

(* A slip the properties below must notice: any draft will do.             *)
MatchesAny(record, n) == record.prnDraft.id # 0

(* The record has the draft of this note.                                  *)
Matches(record, n) == record.prnDraft.id = n

(* The page that shows the draft in the record, with the button to create  *)
(* it, or else the page of the note as the backend has it.                 *)
DraftView(t, n, draft) == Shows(t, [NotePage("check", n) EXCEPT !.tonnage = draft.tonnage])
ExistingView(t, n) ==
  \E s \in Answers(n) : IF s = "none" THEN Error(t) ELSE Shows(t, NotePage("view", n))

GetView(t, n) ==
  /\ Asks(t, "view", n)
  /\ LET record == yar[home[t]] IN
     IF Matches(record, n) THEN DraftView(t, n, record.prnDraft) ELSE ExistingView(t, n)
  /\ UNCHANGED <<home, backend, yar>>

GetDiscard(t, n) ==
  /\ Asks(t, "discard", n)
  /\ IF Matches(yar[home[t]], n) THEN Shows(t, NotePage("discard", n)) ELSE CreateForm(t)
  /\ UNCHANGED <<home, backend, yar>>

(* The page with the buttons; an error in its path adds a message.         *)
GetAction(t, n) ==
  /\ Asks(t, "action", n)
  /\ \E s \in Answers(n) :
       IF s = "none" THEN Error(t)
       ELSE Shows(t, [NotePage("action", n) EXCEPT
                        !.button = s = "awaiting_authorisation"])
  /\ UNCHANGED <<home, backend, yar>>

(* Pages shown for one status only.                                        *)
FetchedFor(t, p, n, only) ==
  /\ Asks(t, p, n)
  /\ \E s \in Answers(n) :
       CASE s = "none" -> Error(t)
         [] s = only   -> Shows(t, NotePage(p, n))
         [] OTHER      -> List(t)
  /\ UNCHANGED <<home, backend, yar>>

GetDelete(t, n)    == FetchedFor(t, "delete", n, "awaiting_authorisation")
GetCancel(t, n)    == FetchedFor(t, "cancel", n, "awaiting_cancellation")
GetCancelled(t, n) == FetchedFor(t, "cancelled", n, "cancelled")

(* The pages that consume an entry of the record.  Meanwhile the tab shows *)
(* no page that matters.                                                   *)
Arrives(t, p, n, request) ==
  /\ Asks(t, p, n)
  /\ tab' = [tab EXCEPT ![t] = [At("list") EXCEPT !.id = n, !.does = request,
                                                  !.copy = yar[home[t]]]]
  /\ UNCHANGED <<home, backend, yar>>

GetCreated(t, n) == Arrives(t, "created", n, "show-created")
GetIssued(t, n)  == Arrives(t, "issued", n, "show-issued")

ShowCreated(t, n) ==
  /\ tab[t].does = "show-created" /\ tab[t].id = n
  /\ IF tab[t].copy.prnCreated = n
     THEN /\ Stores(t, [tab[t].copy EXCEPT !.prnCreated = 0])
          /\ Shows(t, NotePage("created", n))
     ELSE RedirectTo(t, "view", n) /\ UNCHANGED yar
  /\ UNCHANGED <<home, backend>>

(* Slips: a note that can be issued will do; the number of the record is   *)
(* shown whatever note it is of.                                           *)
ShowsIssuable(s) == s \in {"awaiting_authorisation", "awaiting_acceptance"}
NumberOfRecord(fetched, record, n) == IF fetched # 0 THEN fetched ELSE record.prnIssued

(* Only for a note that was issued and not answered yet.                   *)
ShowsIssued(s) == s = "awaiting_acceptance"

(* The number the backend answers with, or else the one of the record, if  *)
(* it is for this note.                                                    *)
NumberShown(fetched, record, n) ==
  IF fetched # 0 THEN fetched ELSE IF record.prnIssued = n THEN n ELSE 0

ShowIssued(t, n) ==
  /\ tab[t].does = "show-issued" /\ tab[t].id = n
  /\ IF tab[t].copy.prnIssued # 0
     THEN Stores(t, [tab[t].copy EXCEPT !.prnIssued = 0]) ELSE UNCHANGED yar
  /\ \E s \in Answers(n), fetched \in Numbers(n) :
       CASE s = "none"     -> Error(t)
         [] ShowsIssued(s) -> Shows(t, [NotePage("issued", n) EXCEPT
                                         !.number = NumberShown(fetched, tab[t].copy, n)])
         [] OTHER          -> RedirectTo(t, "view", n)
  /\ UNCHANGED <<home, backend>>

-----------------------------------------------------------------------------
(* POST.  A call may fail without effect, or its answer may be lost: the   *)
(* handler cannot tell, shows an error and leaves the record alone.        *)

On(t, p, n) == tab[t].does = "nothing" /\ tab[t].page = p /\ tab[t].id = n
            /\ tab[t].to = "nowhere"

Fails(t) ==
  /\ tab[t].does \in {"create", "confirm", "discard", "delete", "cancel"}
  /\ Error(t)
  /\ UNCHANGED <<home, backend, yar>>

(* The form, with a tonnage and a recipient that are valid; else it is     *)
(* shown again.                                                            *)
PostCreate(t) ==
  /\ On(t, "create", 0)
  /\ Waits(t, "create", 0)
  /\ UNCHANGED <<home, backend, yar>>

(* A slip: the note as it was before.                                      *)
DraftBefore(n, x) == [id |-> n, tonnage |-> tonnage[n]]

(* buildPrnDraftSession, from the answer of the backend.                   *)
DraftSession(n, x) == [id |-> n, tonnage |-> x]

CreateDraft(t, n, x) ==
  /\ tab[t].does = "create"
  /\ status[n] = "none" /\ \A m \in Notes : m < n => status[m] # "none"
  /\ status' = [status EXCEPT ![n] = "draft"]
  /\ tonnage' = [tonnage EXCEPT ![n] = x]
  /\ replica' = IF "draft" \in Lagging THEN replica ELSE [replica EXCEPT ![n] = "draft"]
  /\ \/ /\ Stores(t, [tab[t].copy EXCEPT !.prnDraft = DraftSession(n, x)])
        /\ RedirectTo(t, "view", n)
     \/ Error(t) /\ UNCHANGED yar
  /\ UNCHANGED <<home, available>>

(* The check page: the draft of the record must be the page's; the balance *)
(* is fetched.                                                             *)
PostConfirm(t, n) ==
  /\ On(t, "check", n)
  /\ IF Matches(yar[home[t]], n) THEN Waits(t, "confirm", available) ELSE CreateForm(t)
  /\ UNCHANGED <<home, backend, yar>>

Exceeds(t) == tab[t].copy.prnDraft.tonnage > tab[t].got

(* A draft that exceeds the balance is discarded, another is raised.       *)
Confirm(t, n) ==
  /\ tab[t].does = "confirm" /\ tab[t].id = n
  /\ LET record == [tab[t].copy EXCEPT !.prnDraft = NoDraft] IN
     IF Exceeds(t)
     THEN /\ UpdateStatus(n, "discarded")
          /\ \/ Stores(t, record) /\ CreateForm(t)
             \/ Error(t) /\ UNCHANGED yar
     ELSE /\ UpdateStatus(n, "awaiting_authorisation")
          /\ \/ Stores(t, [record EXCEPT !.prnCreated = n]) /\ RedirectTo(t, "created", n)
             \/ Error(t) /\ UNCHANGED yar
  /\ UNCHANGED home

PostDiscard(t, n) ==
  /\ On(t, "discard", n)
  /\ IF Matches(yar[home[t]], n) THEN Waits(t, "discard", 0) ELSE CreateForm(t)
  /\ UNCHANGED <<home, backend, yar>>

Discard(t, n) ==
  /\ tab[t].does = "discard" /\ tab[t].id = n
  /\ UpdateStatus(n, "discarded")
  /\ \/ Stores(t, [tab[t].copy EXCEPT !.prnDraft = NoDraft]) /\ CreateForm(t)
     \/ Error(t) /\ UNCHANGED yar
  /\ UNCHANGED home

PostIssue(t, n) ==
  /\ On(t, "action", n) /\ tab[t].button
  /\ Waits(t, "issue", 0)
  /\ UNCHANGED <<home, backend, yar>>

(* Whatever goes wrong, a lost answer included, is told on the page with   *)
(* the buttons; only a conflict (the balance is short) has a page of its   *)
(* own.                                                                    *)
IssueFailed(t, n) == RedirectTo(t, "action", n)

Issue(t, n) ==
  /\ tab[t].does = "issue" /\ tab[t].id = n
  /\ \/ /\ UpdateStatus(n, "awaiting_acceptance")
        /\ \/ Stores(t, [tab[t].copy EXCEPT !.prnIssued = n]) /\ RedirectTo(t, "issued", n)
           \/ IssueFailed(t, n) /\ UNCHANGED yar
     \/ (IssueFailed(t, n) \/ Error(t)) /\ UNCHANGED <<backend, yar>>
  /\ UNCHANGED home

(* Delete and cancel look at the note first, and do not use the record.    *)
FetchedForUpdate(t, p, n, only) ==
  /\ On(t, p, n)
  /\ \E s \in Answers(n) :
       CASE s = "none" -> Error(t)
         [] s = only   -> tab' = [tab EXCEPT ![t].does = p]
         [] OTHER      -> List(t)
  /\ UNCHANGED <<home, backend, yar>>

PostDelete(t, n) == FetchedForUpdate(t, "delete", n, "awaiting_authorisation")
PostCancel(t, n) == FetchedForUpdate(t, "cancel", n, "awaiting_cancellation")

Delete(t, n) ==
  /\ tab[t].does = "delete" /\ tab[t].id = n
  /\ UpdateStatus(n, "deleted")
  /\ List(t) \/ Error(t)
  /\ UNCHANGED <<home, yar>>

Cancel(t, n) ==
  /\ tab[t].does = "cancel" /\ tab[t].id = n
  /\ UpdateStatus(n, "cancelled")
  /\ RedirectTo(t, "cancelled", n) \/ Error(t)
  /\ UNCHANGED <<home, yar>>

-----------------------------------------------------------------------------
Get(t)  == \/ GetList(t) \/ GetCreate(t)
           \/ \E n \in Notes : \/ GetView(t, n) \/ GetDiscard(t, n) \/ GetAction(t, n)
                               \/ GetDelete(t, n) \/ GetCancel(t, n) \/ GetCancelled(t, n)
                               \/ GetCreated(t, n) \/ GetIssued(t, n)
Post(t) == \/ PostCreate(t)
           \/ \E n \in Notes : \/ PostConfirm(t, n) \/ PostDiscard(t, n) \/ PostIssue(t, n)
                               \/ PostDelete(t, n) \/ PostCancel(t, n)
Wake(t) == \/ Fails(t)
           \/ \E n \in Notes : \/ ShowCreated(t, n) \/ ShowIssued(t, n)
                               \/ \E x \in Tonnages : CreateDraft(t, n, x)
                               \/ Confirm(t, n) \/ Discard(t, n) \/ Issue(t, n)
                               \/ Delete(t, n) \/ Cancel(t, n)

Next ==
  \/ \E t \in Tabs : Get(t) \/ Post(t) \/ Wake(t)
  \/ \E n \in Notes : Replicate(n) \/ \E new \in Statuses : Respond(n, new)

Spec == Init /\ [][Next]_vars

-----------------------------------------------------------------------------
(* What must hold.                                                         *)

(* What a page tells of a note with status s.                              *)
TellingPages == {"created", "issued", "cancelled"}

Tells(page, s) ==
  CASE page = "created"   -> s \in Raised
    [] page = "issued"    -> s \in Issued
    [] page = "cancelled" -> s = "cancelled"

(* What a page tells its operator has happened has happened, to the note   *)
(* it names, although the record it is made from was read before other     *)
(* requests wrote it and the backend's answer may be old.                  *)
PagesTellTheTruth ==
  \A t \in Tabs : tab[t].page \in TellingPages
                   => Tells(tab[t].page, status[tab[t].id])

(* The pages implement the announcements an operator may rely on: what     *)
(* they tell of a note was so before they were shown and is never taken    *)
(* back, and no request makes it so and shows it in one step: the pages    *)
(* come by a redirect (created-, issued- and cancelled-controller.js).     *)
Facts == Notes \X TellingPages

Announced == INSTANCE Announcements WITH
  so   <- {f \in Facts : Tells(f[2], status[f[1]])},
  told <- [t \in Tabs |-> {f \in Facts : f = <<tab[t].id, tab[t].page>>}]

ImplementsAnnouncements == Announced!Spec

(* The number on the page of an issued note is that note's, never that of  *)
(* another the browser has issued (issued-controller.js).                  *)
NumberIsOwn == \A t \in Tabs : tab[t].number \in {0, tab[t].id}

(* A note is raised only from a page that showed its tonnage, after that   *)
(* tonnage was found within the balance; a draft is discarded only when    *)
(* the operator asked for it, or after its own tonnage was found to exceed *)
(* the balance (viewPostController).  One tab's draft replaces another's   *)
(* in the record; it must not be judged by the other's tonnage.            *)
JudgedByItsTonnage ==
  [][\A n \in Notes : status[n] = "draft" /\ status'[n] # "draft" =>
       \E t \in Tabs : tab[t].id = n /\
         IF status'[n] = "awaiting_authorisation"
         THEN /\ tab[t].does = "confirm" /\ tab[t].tonnage = tonnage[n]
              /\ tonnage[n] <= tab[t].got
         ELSE \/ tab[t].does = "discard"
              \/ tab[t].does = "confirm" /\ tonnage[n] > tab[t].got]_vars

-----------------------------------------------------------------------------
(* What the repository says and the code does not do.                      *)

(* "The issued page fetches the PRN fresh, but the write may not have      *)
(* replicated yet, so the session value takes priority"                    *)
(* (issue-controller.js): a browser that comes to the page with the number *)
(* of the note in its record is shown that number, as long as the note is  *)
(* what it became when it was issued.                                      *)
SessionNumberTakesPriority ==
  [][\A t \in Tabs : LET n == tab[t].id IN
       /\ tab[t].does = "show-issued" /\ tab'[t].does = "nothing"
       /\ tab[t].copy.prnIssued = n /\ status[n] = "awaiting_acceptance"
       => tab'[t].page = "issued" /\ tab'[t].number = n]_vars
=============================================================================
