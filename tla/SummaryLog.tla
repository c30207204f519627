------------------------------ MODULE SummaryLog ------------------------------
(***************************************************************************)
(* The summary logs of one or more registrations: the backend's logs from  *)
(* the upload of a file to its submission, and the tabs of the operators'  *)
(* browsers that upload a file, watch it being checked, submit it and      *)
(* watch it being recorded.                                                *)
(*                                                                         *)
(* The backend answers a submission with the log as it has become, and may *)
(* answer reads from a replica that is behind.  So the frontend keeps the  *)
(* answer in the session record of the browser, by log, for the next page  *)
(* of that log, which takes it instead of asking.  A request reads the     *)
(* record when it arrives and, if it changed it, stores it with its        *)
(* answer.  The pages of a log that is being worked on refresh themselves. *)
(*                                                                         *)
(* Statuses the frontend does not tell apart are one: preprocessing and    *)
(* validating are "processing"; invalid, rejected and validation_failed    *)
(* are "refused".                                                          *)
(***************************************************************************)
EXTENDS Naturals

CONSTANTS
  Tabs,      \* the tabs of all operators
  Browsers,  \* their browsers
  Homes,     \* which tab may be in which browser, a set of functions
  MaxLogs,   \* bound on the logs ever created
  Lagging    \* statuses whose write need not be replicated at once

ASSUME HomesAssumption == Homes \subseteq [Tabs -> Browsers]
ASSUME LogsAssumption  == MaxLogs \in Nat \ {0}

Logs == 1..MaxLogs

(* "none" is a log that is not there yet, "initiated" one without a file.  *)
Statuses == {"none", "initiated", "processing", "refused", "validated",
             "submitting", "submitted", "submission_failed", "superseded"}

ASSUME LaggingAssumption == Lagging \subseteq Statuses

(* A log that was submitted, whatever came of it.                          *)
WasSubmitted == {"submitting", "submitted", "submission_failed"}

ReuploadStates == {"refused", "submission_failed"}

(* The pages of a log, and "other": any page of no log.                    *)
Pages == {"other", "processing", "check", "submitting", "success", "superseded",
          "failures", "conflict"}

(* The pages that ask for themselves again.                                *)
PollingPages == {"processing", "submitting"}

(* freshDataMap: the answer kept for a log, or "none".                     *)
FreshDataMaps == [Logs -> {"none", "submitting", "submitted"}]

VARIABLES
  home,     \* home[t]: the browser of tab t, which does not change
  status,   \* status[n]: the status of log n in the backend
  replica,  \* replica[n]: the status the backend may still answer with
  yar,      \* yar[b]: the freshDataMap of browser b
  tab       \* tab[t]: the page of tab t and what it awaits

backend == <<status, replica>>
vars    == <<home, backend, yar, tab>>

TypeOK ==
  /\ home \in Homes
  /\ status \in [Logs -> Statuses] /\ replica \in [Logs -> Statuses]
  /\ yar \in [Browsers -> FreshDataMaps]
  /\ tab \in [Tabs -> [page: Pages, id: {0} \cup Logs, form: {0} \cup Logs,
                       to: {0} \cup Logs, after: {"nothing", "upload", "submit"},
                       does: {"nothing", "show", "submit"}, copy: FreshDataMaps]]

Empty == [n \in Logs |-> "none"]

(* A tab at a page.  "form" is the log its upload form is for,   *)
(* "to" the log it is sent to or asks for, "after" what it is sent for,    *)
(* "copy" the record as it was when its request arrived.                   *)
At(page) == [page |-> page, id |-> 0, form |-> 0, to |-> 0, after |-> "nothing",
             does |-> "nothing", copy |-> Empty]

Init ==
  /\ home \in Homes
  /\ status = [n \in Logs |-> "none"] /\ replica = status
  /\ yar = [b \in Browsers |-> Empty]
  /\ tab = [t \in Tabs |-> At("other")]

-----------------------------------------------------------------------------
(* The backend, as the handlers use it, and the uploader.                  *)

Becomes(n, new) ==
  /\ status' = [status EXCEPT ![n] = new]
  /\ replica' = IF new \in Lagging THEN replica ELSE [replica EXCEPT ![n] = new]

(* initiateSummaryLogUpload: a log that has no file yet.                   *)
Initiate(n) ==
  /\ status[n] = "none" /\ \A m \in Logs : m < n => status[m] # "none"
  /\ Becomes(n, "initiated")

Works(old, new) ==
  <<old, new>> \in {<<"processing", "validated">>, <<"processing", "refused">>,
                    <<"submitting", "submitted">>, <<"submitting", "submission_failed">>}

(* A file is checked, a submission is recorded.                            *)
Progress(n) ==
  /\ \E new \in Statuses : Works(status[n], new) /\ Becomes(n, new)
  /\ UNCHANGED <<home, yar, tab>>

(* A newer log takes the place of one that was not submitted.              *)
Supersede(n) ==
  /\ status[n] \in {"processing", "validated"}
  /\ \E m \in Logs \ {n} : status[m] \notin {"none", "initiated"}
  /\ Becomes(n, "superseded")
  /\ UNCHANGED <<home, yar, tab>>

Replicate(n) ==
  /\ replica[n] # status[n]
  /\ replica' = [replica EXCEPT ![n] = status[n]]
  /\ UNCHANGED <<home, status, yar, tab>>

(* What fetchSummaryLogStatus may answer.                                  *)
Answers(n) == {status[n], replica[n]}

-----------------------------------------------------------------------------
(* The record.                                                             *)

(* Slips the properties below must notice: any entry will do; the entry    *)
(* stays; the log is kept as it was; nothing is kept.                      *)
AnyFresh(map, n)     == IF map[n] = "none" /\ \E m \in Logs : map[m] # "none"
                        THEN "submitting" ELSE map[n]
Stays(map, n)        == map
KeptAsItWas(map, n, answer) == [map EXCEPT ![n] = "validated"]
NotKept(map, n, answer)     == map

Fresh(map, n)        == map[n]
Remaining(map, n)    == [map EXCEPT ![n] = "none"]
Kept(map, n, answer) == [map EXCEPT ![n] = answer]

Stores(t, map) == yar' = [yar EXCEPT ![home[t]] = map]

-----------------------------------------------------------------------------
(* Answers.                                                                *)

Shows(t, page) == tab' = [tab EXCEPT ![t] = page]
Error(t)       == Shows(t, At("other"))

PageWithForm(p, n, m) == [At(p) EXCEPT !.id = n, !.form = m]
Page(p, n)            == PageWithForm(p, n, 0)

(* A slip: the form is answered by the page itself.                        *)
RendersAtOnce(t, n, after) ==
  Shows(t, Page(IF after = "submit" THEN "submitting" ELSE "processing", n))

RedirectTo(t, n, after) == Shows(t, [At("other") EXCEPT !.to = n, !.after = after])

(* A request that waits for a call: its page stays until it is answered.   *)
Waits(t, n, does) ==
  tab' = [tab EXCEPT ![t].to = n, ![t].does = does, ![t].copy = yar[home[t]]]

(* The page for a status.  A log without a file is being preprocessed.     *)
PageFor(s) ==
  CASE s = "submitting"      -> "submitting"
    [] s = "submitted"       -> "success"
    [] s = "superseded"      -> "superseded"
    [] s \in ReuploadStates  -> "failures"
    [] s = "validated"       -> "check"
    [] OTHER                 -> "processing"

-----------------------------------------------------------------------------
(* Upload.                                                                 *)

Idle(t) == tab[t].does = "nothing" /\ tab[t].to = 0

(* The form is for a log of its own, made now; without write scope there   *)
(* is no form.  If the call fails, with or without a log made, the page is *)
(* an error.                                                               *)
GetUpload(t) ==
  /\ Idle(t)
  /\ \/ \E n \in Logs : /\ Initiate(n)
                        /\ Shows(t, [At("other") EXCEPT !.form = n]) \/ Error(t)
     \/ Shows(t, At("other")) /\ UNCHANGED backend
  /\ UNCHANGED <<home, yar>>

(* The form sends the file to the uploader, which sends the browser to the *)
(* page of the log.                                                        *)
Upload(t, n) ==
  /\ Idle(t) /\ tab[t].form = n /\ n # 0
  /\ status[n] = "initiated"
  /\ Becomes(n, "processing")
  /\ RedirectTo(t, n, "upload")
  /\ UNCHANGED <<home, yar>>

-----------------------------------------------------------------------------
(* The page of a log.                                                      *)

(* Sent there, or by a link, the history or the page's own refresh.        *)
GetLog(t, n) ==
  /\ tab[t].does = "nothing" /\ tab[t].to \in {0, n}
  /\ status[n] \notin {"none", "initiated"}
  /\ Waits(t, n, "show")
  /\ UNCHANGED <<home, backend, yar>>

(* An entry that was taken is removed.                                     *)
Consumes(t, n) ==
  IF Fresh(tab[t].copy, n) # "none" THEN Stores(t, Remaining(tab[t].copy, n))
  ELSE UNCHANGED yar

StatusData(t, n) ==
  IF Fresh(tab[t].copy, n) # "none" THEN {Fresh(tab[t].copy, n)} ELSE Answers(n)

(* A log that has to be uploaded again: the page has a form, for another   *)
(* log made now, if the session has write scope.                           *)
ShowLog(t, n) ==
  /\ tab[t].does = "show" /\ tab[t].to = n
  /\ Consumes(t, n)
  /\ \E s \in StatusData(t, n) :
       \/ Shows(t, Page(PageFor(s), n)) /\ UNCHANGED backend
       \/ /\ s \in ReuploadStates
          /\ \E m \in Logs : /\ Initiate(m)
                             /\ Shows(t, PageWithForm(PageFor(s), n, m)) \/ Error(t)
  /\ UNCHANGED home

Poll(t) == \E n \in Logs : tab[t].page \in PollingPages /\ tab[t].id = n /\ GetLog(t, n)

-----------------------------------------------------------------------------
(* Submission, from the check page.                                        *)

(* If the record has an answer for the log, it was submitted: no call.     *)
PostSubmit(t, n) ==
  /\ Idle(t) /\ tab[t].page = "check" /\ tab[t].id = n
  /\ IF Fresh(yar[home[t]], n) # "none" THEN RedirectTo(t, n, "submit")
     ELSE Waits(t, n, "submit")
  /\ UNCHANGED <<home, backend, yar>>

(* Only a log that is validated can be submitted, else there is a          *)
(* conflict; or it is submitted but the answer is lost.                    *)
Submit(t, n) ==
  /\ tab[t].does = "submit" /\ tab[t].to = n
  /\ \/ /\ status[n] = "validated"
        /\ \E answer \in {"submitting", "submitted"} :
             /\ Becomes(n, answer)
             /\ \/ Stores(t, Kept(tab[t].copy, n, answer)) /\ RedirectTo(t, n, "submit")
                \/ Error(t) /\ UNCHANGED yar
     \/ /\ status[n] # "validated"
        /\ Shows(t, Page("conflict", n))
        /\ UNCHANGED <<backend, yar>>
  /\ UNCHANGED home

(* A call fails without effect.  For a page the entry is removed already.  *)
Fails(t, n) ==
  /\ tab[t].does # "nothing" /\ tab[t].to = n
  /\ Error(t)
  /\ IF tab[t].does = "show" THEN Consumes(t, n) ELSE UNCHANGED yar
  /\ UNCHANGED <<home, backend>>

-----------------------------------------------------------------------------
Next ==
  \/ \E t \in Tabs : \/ GetUpload(t)
                     \/ \E n \in Logs : \/ Upload(t, n) \/ GetLog(t, n) \/ ShowLog(t, n)
                                        \/ PostSubmit(t, n) \/ Submit(t, n) \/ Fails(t, n)
  \/ \E n \in Logs : Progress(n) \/ Supersede(n) \/ Replicate(n)

Spec == Init /\ [][Next]_vars

(* A page that polls does it every few seconds and is answered; the        *)
(* backend gets done with what it works on, and replicates it.             *)
Fairness ==
  /\ \A t \in Tabs : WF_vars(Poll(t)) /\ \A n \in Logs : WF_vars(ShowLog(t, n))
  /\ \A n \in Logs : WF_vars(Progress(n)) /\ WF_vars(Replicate(n))

FairSpec == Spec /\ Fairness

-----------------------------------------------------------------------------
(* What must hold.                                                         *)

(* What a page says of its log, or what its log has moved on to since.     *)
TellsTheTruth(page, s) ==
  CASE page = "check"      -> s \in WasSubmitted \cup {"validated", "superseded"}
    [] page = "submitting" -> s \in WasSubmitted
    [] page = "success"    -> s = "submitted"
    [] page = "superseded" -> s = "superseded"
    [] page = "failures"   -> s \in ReuploadStates
    [] page = "conflict"   -> s \in WasSubmitted \cup {"superseded"}
    [] OTHER               -> TRUE

(* What a page says of its log is so, or was so before it moved on: the    *)
(* page may come from an old read of the backend or from an answer kept in *)
(* a record that other requests wrote meanwhile (getStatusData).  Nothing  *)
(* that cannot be undone is told wrongly: submitted, failed, replaced; and *)
(* the page that says the log cannot be submitted is not shown for one     *)
(* that can (submitSummaryLogController).                                  *)
PagesTellTheTruth ==
  \A t \in Tabs : tab[t].id # 0 => TellsTheTruth(tab[t].page, status[tab[t].id])

(* The pages implement the announcements an operator may rely on: what     *)
(* they tell of a log was so before they were shown and is never taken     *)
(* back, and no request makes it so and shows it in one step.              *)
Facts == Logs \X (Pages \ {"other", "processing"})

Announced == INSTANCE Announcements WITH
  so   <- {f \in Facts : TellsTheTruth(f[2], status[f[1]])},
  told <- [t \in Tabs |-> {f \in Facts : f = <<tab[t].id, tab[t].page>>}]

ImplementsAnnouncements == Announced!Spec

(* A submission that is answered like a success is one: the log is         *)
(* submitted, by this request or an earlier one, even where an answer in   *)
(* the record makes submitSummaryLogController skip the call.              *)
NoSubmissionIsDropped ==
  [][\A t \in Tabs : tab[t].page = "check" /\ tab'[t].after = "submit"
       => status'[tab[t].id] \in WasSubmitted]_vars

(* No other tab is in the browser of this one.                             *)
Alone(t) == \A u \in Tabs \ {t} : home[u] # home[t]

(* "bridge backend replication lag" (types.js): the page that follows a    *)
(* submission does not offer the log for submission again, although the    *)
(* backend may still read it as validated.  Another tab of the browser may *)
(* take the answer first, or store the record without it.                  *)
SubmissionBridgesLag ==
  [][\A t \in Tabs :
       /\ Alone(t)
       /\ tab[t].after = "submit" /\ tab'[t].after # "submit"
       => tab'[t].page # "check"]_vars

(* A page that refreshes itself is followed, in the end, by one that does  *)
(* not: an answer kept in the record, which never changes, is not shown    *)
(* over and over, even when overlapping requests bring it back             *)
(* (getStatusData, the pages' meta refresh).                               *)
PollingEnds ==
  \A t \in Tabs : (tab[t].page \in PollingPages) ~> (tab[t].page \notin PollingPages)

(* The logs a record has an answer for.                                    *)
Entries(map) == {n \in Logs : map[n] # "none"}

(* The chances the tabs of browser b have to be shown an answer out of a   *)
(* record with entries s: a tab whose request has read such a record and   *)
(* is for one of its logs has one; while the browser has such a record     *)
(* every tab has that chance, and another by asking later.                 *)
Chances(b, s) ==
  {c \in {t \in Tabs : home[t] = b} \X {"asked", "asks"} :
     \/ Entries(yar[b]) = s
     \/ /\ c[2] = "asked" /\ tab[c[1]].does = "show"
        /\ Entries(tab[c[1]].copy) = s /\ tab[c[1]].to \in s}

Fewer(b, s) == Chances(b, s)' \subseteq Chances(b, s) /\ Chances(b, s)' # Chances(b, s)

Submitted(n) == status[n] = "validated" /\ status'[n] \in WasSubmitted
TakesKept(t) == tab[t].does = "show" /\ tab'[t].does = "nothing"
                  /\ tab[t].to \in Entries(tab[t].copy)

(* Whoever is shown an answer uses up a chance, and chances are won only   *)
(* below one that is lost, with fewer entries.                             *)
RunsOut(b) ==
  /\ \A t \in Tabs : home[t] = b /\ TakesKept(t) => \E s \in SUBSET Logs : Fewer(b, s)
  /\ \A s \in SUBSET Logs :
       ~(Chances(b, s)' \subseteq Chances(b, s))
         => \E q \in SUBSET Logs : s \subseteq q /\ s # q /\ Fewer(b, q)

(* The answers kept for a browser run out unless another log is submitted, *)
(* however its requests overlap and bring back entries that were taken: a  *)
(* page that asks for itself again is not fed from the record for ever     *)
(* (getStatusData).                                                        *)
KeptAnswersRunOut ==
  [][(\A n \in Logs : ~Submitted(n)) => \A b \in Browsers : RunsOut(b)]_vars
=============================================================================
