------------------------------ MODULE Reports ------------------------------
(***************************************************************************)
(* The reports of one registration for one reporting period: the backend's *)
(* reports, one per submission number, and the tabs of one browser that    *)
(* create, fill in, check, submit, delete and resubmit them.  A tab holds  *)
(* what its page was made from; the backend's reports change under it, by  *)
(* another tab or because waste records change.  The handlers keep no      *)
(* state but one entry in the browser's session (reportStaleErrorContext). *)
(*                                                                         *)
(* A handler that calls the backend once is one action: what it decides,   *)
(* it decides from the answer.  A handler that calls it twice is two.      *)
(***************************************************************************)
EXTENDS FiniteSets, Naturals, ReportPages

CONSTANTS
  Tabs,           \* tabs of the browser
  Kinds,          \* the registrations to consider, a subset of Registrations
  MaxSubmission,  \* bound on the submission numbers of the period
  MaxDrafts,      \* bound on the reports ever created
  MaxEdits,       \* bound on the updates of one report
  MaxChanges,     \* bound on the changes of the waste records
  MaxLost,        \* bound on the answers lost on their way back
  FreshVersions,  \* TRUE if no report gets a version an earlier one had
  HandEdited      \* TRUE if the operator also types the paths of pages

ASSUME KindsAssumption == Kinds \subseteq Registrations
ASSUME SubmissionAssumption == MaxSubmission \in Nat \ {0}
ASSUME BoundsAssumption ==
  /\ {MaxDrafts, MaxEdits, MaxChanges, MaxLost} \subseteq Nat
  /\ {FreshVersions, HandEdited} \subseteq BOOLEAN

Submissions == 1..MaxSubmission

Reasons == {"summary_log_changed", "prn_cancelled"}

(***************************************************************************)
(* A report of the backend.  "id" tells a report from one that replaced it *)
(* after a delete (0 is no report); "edits" counts the updates it took and *)
(* with the id names its content; "filled" is the figures it has; "over"   *)
(* says that its free tonnage exceeds its issued tonnage; "stale" why it   *)
(* no longer matches the records it was made from; "resubmit" that a       *)
(* submitted report requires resubmission.                                 *)
(***************************************************************************)
Report == [id: Nat, version: Nat, edits: Nat, status: Statuses,
           filled: SUBSET Fields, issued: {0, 1}, over: BOOLEAN,
           stale: SUBSET Reasons, resubmit: BOOLEAN]

NoReport == [id |-> 0, version |-> 0, edits |-> 0, status |-> "none",
             filled |-> {}, issued |-> 0, over |-> FALSE, stale |-> {},
             resubmit |-> FALSE]

(* What a page was made from; "can" is canRequestResubmission.             *)
Snapshots == [id: Nat, version: Nat, edits: Nat,
              status: Statuses \cup {"unseen"}, issued: {0, 1}, can: BOOLEAN]
Unseen == [id |-> 0, version |-> 0, edits |-> 0, status |-> "unseen",
           issued |-> 0, can |-> FALSE]

VARIABLES
  registration, \* the registration and its accreditation, which do not change
  report,       \* report[n]: the report with submission number n
  tab,          \* tab[t]: the page of tab t, where it is sent, what it awaits
  context,      \* reportStaleErrorContext in the browser's session
  lastVersion,  \* the highest version any report had
  drafts,       \* reports created so far
  changes,      \* changes of the waste records so far
  lost          \* answers lost so far

backend == <<report, lastVersion, drafts, changes>>
vars    == <<registration, backend, tab, context, lost>>

Awaits    == {"no", "submit", "free", "stale"}
NoContext == [n |-> 0, reasons |-> {}]

TypeOK ==
  /\ registration \in Registrations
  /\ report \in [Submissions -> Report]
  /\ tab \in [Tabs -> [page: Pages \cup {"blank", "not-found", "error"},
                       n: Submissions, seen: Snapshots,
                       to: Pages \cup {"nowhere"}, awaits: Awaits,
                       got: Snapshots, value: {0, 1}, goes: {"continue", "save"},
                       walk: Nat, from: Pages]]
  /\ context \in [n: Submissions, reasons: SUBSET Reasons] \cup {NoContext}
  /\ lastVersion \in Nat
  /\ {drafts, changes, lost} \subseteq Nat

Blank == [page |-> "blank", n |-> 1, seen |-> Unseen, to |-> "nowhere",
          awaits |-> "no", got |-> Unseen, value |-> 0, goes |-> "save", walk |-> 0,
          from |-> "list"]

Init ==
  /\ registration \in Kinds
  /\ report = [n \in Submissions |-> NoReport]
  /\ tab = [t \in Tabs |-> Blank]
  /\ context = NoContext
  /\ lastVersion = 0
  /\ drafts = 0 /\ changes = 0 /\ lost = 0

-----------------------------------------------------------------------------
(* The backend, as the handlers use it.                                    *)

Made(n)  == report[n].status # "none"
Draft(n) == report[n].status \in {"in_progress", "ready_to_submit"}

(* The submission of the period the list shows: the draft, or the next one *)
(* once a submitted report requires resubmission, or the last submitted.   *)
Current ==
  LET done == {n \in Submissions : report[n].status = "submitted"}
      last == CHOOSE n \in done \cup {0} : \A m \in done : m <= n
  IN  IF last = 0 \/ report[last].resubmit THEN last + 1 ELSE last

CanRequestResubmission(n) ==
  /\ n = Current /\ report[n].status = "submitted"
  /\ n + 1 \in Submissions

Snapshot(n) ==
  [id |-> report[n].id, version |-> report[n].version, edits |-> report[n].edits,
   status |-> report[n].status, issued |-> report[n].issued,
   can |-> CanRequestResubmission(n)]

Store(n, r) ==
  /\ report' = [report EXCEPT ![n] = r]
  /\ lastVersion' = IF r.version > lastVersion THEN r.version ELSE lastVersion

Creatable(n) == n = Current /\ ~Made(n) /\ drafts < MaxDrafts

Create(n, issued) ==
  /\ Store(n, [NoReport EXCEPT !.id = drafts + 1, !.status = "in_progress",
                 !.version = IF FreshVersions THEN lastVersion + 1 ELSE 1,
                 !.issued = issued])
  /\ drafts' = drafts + 1

(* PATCH: refused unless the report is in progress and fresh.              *)
Updatable(n) == report[n].status = "in_progress" /\ report[n].stale = {}

Updated(n, fields, over) ==
  [report[n] EXCEPT !.filled = @ \cup fields, !.over = over, !.edits = @ + 1,
                    !.version = IF FreshVersions THEN lastVersion + 1 ELSE @ + 1]

(* POST status: refused unless the report is fresh, has the version the    *)
(* caller names and the status the new one follows.                        *)
Follows(old, new) == <<old, new>> \in
  {<<"in_progress", "ready_to_submit">>, <<"ready_to_submit", "submitted">>}

Advanced(n, status) ==
  [report[n] EXCEPT !.status = status,
                    !.version = IF FreshVersions THEN lastVersion + 1 ELSE @ + 1]

-----------------------------------------------------------------------------
(* Answers.                                                                *)

Leads(t, p, n, seen, walk) ==
  tab' = [tab EXCEPT ![t] = [Blank EXCEPT !.n = n, !.seen = seen, !.to = p, !.walk = walk]]
RedirectTo(t, p, n, seen) == Leads(t, p, n, seen, 0)

Shows(t, p, n, seen, walk) ==
  tab' = [tab EXCEPT ![t] = [Blank EXCEPT !.page = p, !.n = n, !.seen = seen, !.walk = walk]]

NotFound(t) == Shows(t, "not-found", tab[t].n, Unseen, 0)
Error(t)    == Shows(t, "error", tab[t].n, Unseen, 0)

(* onPreResponse of a ReportStaleError.                                    *)
StaleRedirect(t, n) ==
  /\ context' = [n |-> n, reasons |-> report[n].stale]
  /\ RedirectTo(t, "report-stale-error", n, Unseen)

(* The draft whose pages the tab has gone through, by Continue only, from  *)
(* the page where a report is taken up.  History, no handler knows it.     *)
Walk(t, p, n) ==
  CASE p = EntryPage(registration) -> report[n].id
    [] tab[t].to = p /\ tab[t].walk = report[n].id -> tab[t].walk
    [] OTHER -> 0

-----------------------------------------------------------------------------
(* GET.                                                                    *)

(* Pages whose handler reads the report first, and so fails if it is stale.*)
ReadsReport == Pages \ {"list", "delete", "resubmission-explainer", "report-stale-error"}

(* What the handlers answer, from the report as the backend has it.        *)
IfStatus(n, status, otherwise) ==
  IF report[n].status = status THEN "shown" ELSE otherwise

Detail(n)      == IF Made(n) THEN "list" ELSE "shown"
DataPage(p, n) ==
  IF Admits(p, registration) THEN IfStatus(n, "in_progress", "not-found") ELSE "not-found"
CheckYourAnswers(n) == IfStatus(n, "in_progress", "list")
Created(n)     == IfStatus(n, "ready_to_submit", "not-found")
Submit(n) ==
  CASE ~Made(n)                         -> "error"
    [] report[n].status = "submitted"   -> "submitted"
    [] OTHER                            -> Created(n)
Submitted(n)   == IfStatus(n, "submitted", "not-found")
View(n)        == IfStatus(n, "submitted", IfStatus(n, "ready_to_submit", "not-found"))
MakeChanges(n) == IF CanRequestResubmission(n) THEN "shown" ELSE "not-found"
Explainer(n)   == IF n > 1 THEN "shown" ELSE "not-found"

(* Three pages do not look at the report, and one does not look further    *)
(* than whether it is stale.                                               *)
Outcome(p, n) ==
  IF p \in ReadsReport /\ report[n].stale # {} THEN "stale" ELSE
  CASE p \in DataPages              -> DataPage(p, n)
    [] p = "detail"                 -> Detail(n)
    [] p = "check-your-answers"     -> CheckYourAnswers(n)
    [] p = "created"                -> Created(n)
    [] p = "submit"                 -> Submit(n)
    [] p = "submitted"              -> Submitted(n)
    [] p = "view"                   -> View(n)
    [] p = "make-changes"           -> MakeChanges(n)
    [] p = "resubmission-explainer" -> Explainer(n)
    [] OTHER                        -> "shown"

(* The links of the page a tab shows.  A form with an invalid field is     *)
(* answered with its page made again, as if it had been asked for.         *)
Links(t) ==
  LET g == registration
      p == tab[t].page
      n == tab[t].n
      to(pages) == {<<q, n>> : q \in pages}
  IN
  IF tab[t].to # "nowhere" THEN {<<tab[t].to, n>>}
  ELSE IF p \notin Pages THEN {<<"list", n>>}
  ELSE to({IF p = "delete" THEN tab[t].from ELSE BackPage(p, g)} \cup
    (CASE p = "list"                   -> {RowPage(n, tab[t].seen.status, g)}
       [] p = "resubmission-explainer" -> {"detail"}
       [] p \in DataPages \cup {"supporting-information"} -> {"delete", p}
       [] p = "check-your-answers"     -> ChangePages(g) \cup {"delete"}
       [] p = "submit"                 -> {"delete"}
       [] p \in {"created", "submitted"} -> {"view"}
       [] p = "view" /\ tab[t].seen.can  -> {"make-changes"}
       [] OTHER -> {}))

(* The browser follows a redirect; else the operator a link, or types.     *)
Asks(t, p, n) ==
  /\ tab[t].awaits = "no"
  /\ \/ <<p, n>> \in Links(t)
     \/ HandEdited /\ tab[t].to = "nowhere" /\ p \in Pages /\ n \in Submissions

(* The list shows the current submission of the period.                    *)
GetList(t) ==
  /\ \E n \in Submissions : Asks(t, "list", n)
  /\ Shows(t, "list", Current, Snapshot(Current), 0)
  /\ UNCHANGED <<registration, backend, context, lost>>

(* The page that confirms a delete leads back to the page of the period    *)
(* the operator came from, and to the list when a path was typed.          *)
ShowsDelete(t, n) ==
  \E from \in (IF tab[t].n = n /\ tab[t].page \in Pages \ {"delete"}
              THEN {tab[t].page} ELSE {"list"})
             \cup (IF HandEdited THEN {"list"} ELSE {}) :
    tab' = [tab EXCEPT ![t] = [Blank EXCEPT !.page = "delete", !.n = n, !.from = from]]

(* A page made from one answer of the backend.                             *)
GetPage(t, p, n) ==
  /\ p \notin {"list", "submit", "report-stale-error"}
  /\ Asks(t, p, n)
  /\ LET outcome == Outcome(p, n) IN
     /\ outcome = "stale" => StaleRedirect(t, n)
     /\ outcome # "stale" => UNCHANGED context
     /\ outcome = "list" => RedirectTo(t, "list", n, Snapshot(n))
     /\ outcome = "not-found" => NotFound(t)
     /\ outcome = "shown" /\ p # "delete" =>
          Shows(t, p, n, IF p \in ReadsReport THEN Snapshot(n) ELSE Unseen, Walk(t, p, n))
     /\ outcome = "shown" /\ p = "delete" => ShowsDelete(t, n)
  /\ UNCHANGED <<registration, backend, lost>>

(* The submit page decides from one answer and is made from another.       *)
GetSubmit(t, n) ==
  /\ Asks(t, "submit", n)
  /\ LET outcome == Outcome("submit", n) IN
     /\ outcome = "stale" => StaleRedirect(t, n)
     /\ outcome # "stale" => UNCHANGED context
     /\ outcome = "submitted" => RedirectTo(t, "submitted", n, Snapshot(n))
     /\ outcome = "not-found" => NotFound(t)
     /\ outcome = "error" => Error(t)
     /\ outcome = "shown" =>
          tab' = [tab EXCEPT ![t] = [Blank EXCEPT !.n = n, !.awaits = "submit"]]
  /\ UNCHANGED <<registration, backend, lost>>

(* buildViewData, for the page and for a declaration without a valid name: *)
(* it looks at nothing but that there is a report.                         *)
MakeSubmit(t) ==
  LET n == tab[t].n IN
  /\ \/ tab[t].awaits = "submit"
     \/ tab[t].awaits = "no" /\ tab[t].page = "submit"
  /\ IF report[n].stale # {} THEN StaleRedirect(t, n)
     ELSE /\ UNCHANGED context
          /\ IF Made(n) THEN Shows(t, "submit", n, Snapshot(n), 0) ELSE Error(t)
  /\ UNCHANGED <<registration, backend, lost>>

(* A slip: the page of a stale report leads back to where it is taken up.  *)
GetStaleReading(t, n) ==
  /\ Asks(t, "report-stale-error", n)
  /\ RedirectTo(t, IF report[n].stale = {} THEN "list" ELSE EntryPage(registration), n, Unseen)
  /\ UNCHANGED <<registration, backend, context, lost>>

(* The page about a stale report: the entry of the session is read when    *)
(* the request arrives, and the session without it is stored when the      *)
(* registration has been fetched and the page is answered.                 *)
GetStale(t, n) ==
  /\ Asks(t, "report-stale-error", n)
  /\ IF context.n = n
     THEN tab' = [tab EXCEPT ![t] = [Blank EXCEPT !.n = n, !.awaits = "stale"]]
     ELSE RedirectTo(t, "list", n, Unseen)
  /\ UNCHANGED <<registration, backend, context, lost>>

ShowStale(t) ==
  /\ tab[t].awaits = "stale"
  /\ context' = NoContext
  /\ Shows(t, "report-stale-error", tab[t].n, Unseen, 0)
  /\ UNCHANGED <<registration, backend, lost>>

-----------------------------------------------------------------------------
(* POST.                                                                   *)

(* A page with a form, as the operator sends it.                           *)
On(t, p, n) == tab[t].awaits = "no" /\ tab[t].page = p /\ tab[t].n = n

(* The backend has done what it was asked; its answer may be lost, and the *)
(* operator is back at the form.                                           *)
Done(t, p, n, seen, walk) ==
  \/ lost' = lost /\ Leads(t, p, n, seen, walk)
  \/ /\ lost < MaxLost /\ lost' = lost + 1
     /\ tab' = [tab EXCEPT ![t] = [@ EXCEPT !.got = Unseen, !.awaits = "no",
                                            !.value = 0, !.goes = "save"]]

(* The backend refuses: stale reports have their page, the rest is an      *)
(* error page.                                                             *)
Refused(t, n) ==
  /\ IF Draft(n) /\ report[n].stale # {} THEN StaleRedirect(t, n)
     ELSE Error(t) /\ UNCHANGED context
  /\ UNCHANGED <<registration, backend, lost>>

(* A conflict means that there is a report, and the handler goes on to the *)
(* page where it would be taken up.                                        *)
PostCreate(t, n) ==
  /\ On(t, "detail", n)
  /\ \/ /\ Creatable(n)
        /\ \E issued \in IF registration.accredited THEN {0, 1} ELSE {0} :
             Create(n, issued)
        /\ Done(t, EntryPage(registration), n, Snapshot(n)', 0)
        /\ UNCHANGED <<registration, changes, context>>
     \/ /\ Made(n)
        /\ RedirectTo(t, EntryPage(registration), n, Unseen)
        /\ UNCHANGED <<registration, backend, context, lost>>
     \/ /\ ~Made(n) /\ n # Current
        /\ Error(t)
        /\ UNCHANGED <<registration, backend, context, lost>>

(* Save without a value stores nothing.                                    *)
SaveNothing(t, p, n) ==
  /\ p \in DataPages /\ On(t, p, n)
  /\ RedirectTo(t, "list", n, Unseen)
  /\ UNCHANGED <<registration, backend, context, lost>>

(* updateReport, then on to the next page or back to the list.             *)
Update(t, p, n, fields, over, goes) ==
  \/ /\ Updatable(n)
     /\ Store(n, Updated(n, fields, over))
     /\ IF goes = "continue"
        THEN Done(t, NextPage(p, registration), n, Snapshot(n)',
                  IF tab[t].walk = report[n].id THEN tab[t].walk ELSE 0)
        ELSE Done(t, "list", n, Unseen, 0)
     /\ UNCHANGED <<registration, drafts, changes, context>>
  \/ ~Updatable(n) /\ Refused(t, n)

PostData(t, p, n, goes) ==
  /\ p \in (DataPages \ FreePages) \cup {"supporting-information"}
  /\ On(t, p, n) /\ report[n].edits < MaxEdits
  /\ Update(t, p, n, IF p \in DataPages THEN {FieldOf(p)} ELSE {}, report[n].over, goes)

(* Free tonnage is compared with the issued tonnage of the report as one   *)
(* answer has it, and stored by the next call.  The answer for no report   *)
(* need not have an issued tonnage, and the handler fails without one.     *)
PostFree(t, p, n, value, goes) ==
  /\ p \in FreePages /\ On(t, p, n) /\ report[n].edits < MaxEdits
  /\ \/ report[n].stale # {} /\ StaleRedirect(t, n)
     \/ ~Made(n) /\ Error(t) /\ UNCHANGED context
     \/ /\ report[n].stale = {}
        /\ tab' = [tab EXCEPT ![t].awaits = "free", ![t].got = Snapshot(n),
                              ![t].value = value, ![t].goes = goes]
        /\ UNCHANGED context
  /\ UNCHANGED <<registration, backend, lost>>

(* A slip the properties below must notice: one tonne too many passes.     *)
ExceedsByMore(t) == tab[t].value > tab[t].got.issued + 1

Exceeds(t) == tab[t].value > tab[t].got.issued

(* Too much is answered with the page, made again from a third call.       *)
SaveFree(t, n) ==
  /\ tab[t].awaits = "free" /\ tab[t].n = n
  /\ LET p == tab[t].page IN
     IF Exceeds(t)
     THEN /\ LET outcome == Outcome(p, n) IN
             /\ outcome = "stale" => StaleRedirect(t, n)
             /\ outcome # "stale" => UNCHANGED context
             /\ outcome = "not-found" => NotFound(t)
             /\ outcome = "shown" => Shows(t, p, n, Snapshot(n), tab[t].walk)
          /\ UNCHANGED <<registration, backend, lost>>
     ELSE Update(t, p, n, {"freeTonnage"}, tab[t].value > report[n].issued, tab[t].goes)

(* A slip: the version is looked up when the form arrives.                 *)
VersionNow(t, n) == report[n].version

(* The hidden field of the page.                                           *)
Version(t, n) == tab[t].seen.version

(* updateReportStatus with the version of the page, then on.               *)
Advance(t, p, n, status, next) ==
  /\ On(t, p, n)
  /\ \/ /\ Follows(report[n].status, status) /\ report[n].stale = {}
        /\ Version(t, n) = report[n].version
        /\ Store(n, Advanced(n, status))
        /\ Done(t, next, n, Snapshot(n)', 0)
        /\ UNCHANGED <<registration, drafts, changes, context>>
     \/ /\ ~(/\ Follows(report[n].status, status) /\ report[n].stale = {}
            /\ Version(t, n) = report[n].version)
        /\ Refused(t, n)

PostCheck(t, n)  == Advance(t, "check-your-answers", n, "ready_to_submit", "created")
PostSubmit(t, n) == Advance(t, "submit", n, "submitted", "submitted")

(* The confirmation page and the page about a stale report delete whatever *)
(* draft the backend has.                                                  *)
PostDelete(t, p, n) ==
  /\ p \in {"delete", "report-stale-error"} /\ On(t, p, n)
  /\ \/ /\ Draft(n)
        /\ Store(n, NoReport)
        /\ Done(t, "list", n, Unseen, 0)
        /\ UNCHANGED <<registration, drafts, changes, context>>
     \/ /\ ~Draft(n)
        /\ Error(t)
        /\ UNCHANGED <<registration, backend, context, lost>>

(* A conflict leads back to the report, success to the next submission.    *)
PostMakeChanges(t, n) ==
  /\ On(t, "make-changes", n)
  /\ \/ /\ CanRequestResubmission(n)
        /\ Store(n, [report[n] EXCEPT !.resubmit = TRUE])
        /\ Done(t, "detail", n + 1, Unseen, 0)
        /\ UNCHANGED <<registration, drafts, changes, context>>
     \/ /\ ~CanRequestResubmission(n)
        /\ RedirectTo(t, "view", n, Unseen)
        /\ UNCHANGED <<registration, backend, context, lost>>

(* A summary log is submitted or a note cancelled: drafts are stale, and a *)
(* submitted report may require resubmission.                              *)
RecordsChange(reason, restated) ==
  /\ changes < MaxChanges /\ changes' = changes + 1
  /\ reason = "prn_cancelled" => registration.accredited
  /\ report' = [n \in Submissions |->
       IF Draft(n) THEN [report[n] EXCEPT !.stale = @ \cup {reason}]
       ELSE IF restated /\ CanRequestResubmission(n)
            THEN [report[n] EXCEPT !.resubmit = TRUE] ELSE report[n]]
  /\ UNCHANGED <<registration, lastVersion, drafts, tab, context, lost>>

-----------------------------------------------------------------------------
Get(t)  == GetList(t) \/ \E n \in Submissions :
             GetSubmit(t, n) \/ GetStale(t, n) \/ \E p \in Pages : GetPage(t, p, n)
Wake(t) == MakeSubmit(t) \/ ShowStale(t) \/ \E n \in Submissions : SaveFree(t, n)
Post(t) == \E n \in Submissions :
  \/ PostCreate(t, n) \/ PostCheck(t, n) \/ PostSubmit(t, n) \/ PostMakeChanges(t, n)
  \/ \E p \in Pages :
       \/ SaveNothing(t, p, n) \/ PostDelete(t, p, n)
       \/ \E goes \in {"continue", "save"} :
            \/ PostData(t, p, n, goes)
            \/ \E value \in {0, 1} : PostFree(t, p, n, value, goes)

Next ==
  \/ \E t \in Tabs : Get(t) \/ Wake(t) \/ Post(t)
  \/ \E reason \in Reasons, restated \in BOOLEAN : RecordsChange(reason, restated)

Spec == Init /\ [][Next]_vars

(* Redirects are followed by the browser, calls are answered or fail.      *)
FairSpec == Spec /\ \A t \in Tabs :
  /\ WF_vars(tab[t].to # "nowhere" /\ Get(t))
  /\ WF_vars(tab[t].awaits # "no" /\ Wake(t))

-----------------------------------------------------------------------------
(* What must hold.                                                         *)

(* A report becomes ready to submit, and submitted, by a tab whose page    *)
(* showed what it now holds.  The pages carry no more than a version       *)
(* (the hidden field of check-your-answers and submit).                    *)
AdvancedAsReviewed ==
  [][\A n \in Submissions :
       /\ report'[n].status \in {"ready_to_submit", "submitted"}
       /\ report'[n].status # report[n].status
       => \E t \in Tabs :
            /\ tab[t].page \in {"check-your-answers", "submit"} /\ tab[t].n = n
            /\ tab[t].seen.id = report[n].id
            /\ tab[t].seen.edits = report[n].edits]_vars

Shown(x) == [id |-> x.id, status |-> x.status, can |-> x.can]

(* No link and no redirect made from an answer of the backend leads to a   *)
(* page that is not found, unless the report has changed since: the list,  *)
(* the next pages, the back links and the guards, which a dozen modules of *)
(* the code write down separately, agree.  The page for supporting         *)
(* information, which alone does not ask whether there is a report in      *)
(* progress, keeps to this only if there is.                               *)
LinksHold ==
  \A t \in Tabs :
    /\ tab[t].awaits = "no" /\ Shown(tab[t].seen) = Shown(Snapshot(tab[t].n))
    /\ tab[t].page # "supporting-information" \/ tab[t].seen.status = "in_progress"
    => \A link \in Links(t) : Outcome(link[1], link[2]) \notin {"not-found", "error"}

(* A tab that is sent to a page of a draft finds it as long as the report  *)
(* is in progress.  This includes whoever comes second to create a report, *)
(* or again after a lost answer: createController goes on after a conflict *)
(* with no answer that tells what report there is.                         *)
DraftIsFound ==
  \A t \in Tabs :
    LET n == tab[t].n IN
    tab[t].to \in DataPages /\ report[n].status = "in_progress"
      => Outcome(tab[t].to, n) \in {"shown", "stale"}

(* Whoever goes through the pages of a draft by Continue from where it is  *)
(* taken up finds every figure the check page shows filled in, for every   *)
(* kind of registration, whatever other tabs do.                           *)
WalkedIsComplete ==
  \A t \in Tabs :
    LET n == tab[t].n IN
    tab[t].page = "check-your-answers" /\ tab[t].walk # 0 /\ tab[t].walk = report[n].id
      => Figures(registration) \subseteq report[n].filled

(* Free tonnage above the issued tonnage is stored only if the report was  *)
(* replaced between the handler's check and its update.                    *)
FreeIsChecked ==
  [][\A n \in Submissions :
       ~report[n].over /\ report'[n].over
         => \E t \in Tabs : tab[t].awaits = "free" /\ tab[t].n = n
                               /\ tab[t].got.id # report[n].id]_vars

(* Redirects end: the handlers send the browser to one another (submit to  *)
(* submitted, detail and check to the list, any page to the page about a   *)
(* stale report), never in a circle.                                       *)
RedirectsEnd ==
  \A t \in Tabs : tab[t].to # "nowhere" ~> tab[t].to = "nowhere" /\ tab[t].awaits = "no"

(* The answers a tab that was sent to a page has yet to get, at most; and  *)
(* a tab whose handler waits for its next call.                            *)
HopsTo(page) ==
  CASE page = "nowhere"            -> 0
    [] page = "list"               -> 1
    [] page = "report-stale-error" -> 2
    [] page = "submit"             -> 4
    [] OTHER                       -> 3

HopsLeft(x) ==
  CASE x.awaits = "free"   -> 4
    [] x.awaits = "submit" -> 3
    [] x.awaits = "stale"  -> 1
    [] OTHER               -> HopsTo(x.to)

(* Whatever other tabs do to the report meanwhile, every answer brings the *)
(* browser nearer to a page it can show: after four at most it has one.    *)
(* The guards that redirect, each in a controller of its own, never send it*)
(* back to one another.                                                    *)
RedirectsDescend ==
  [][\A t \in Tabs :
       HopsLeft(tab[t]) > 0 /\ tab'[t] # tab[t]
         => HopsLeft(tab'[t]) < HopsLeft(tab[t])]_vars

-----------------------------------------------------------------------------
(* What the repository says and the code does not do.                      *)

(* "a report reaching the render below is ready to submit"                 *)
(* (submit-controller.js).                                                 *)
SubmitPageIsReady ==
  [][\A t \in Tabs : tab[t].awaits = "submit" /\ tab'[t].page = "submit"
       => tab'[t].seen.status = "ready_to_submit"]_vars

(* The report that the page about a stale report deletes is one whose      *)
(* records have changed "since you began creating" it (en.json).           *)
DeletesWhatIsStale ==
  [][\A t \in Tabs : LET n == tab[t].n IN
       tab[t].page = "report-stale-error" /\ tab'[t] # tab[t] /\ Made(n)
         /\ report'[n] = NoReport => report[n].stale # {}]_vars
=============================================================================
