--------------------------- MODULE ReportsProofs ---------------------------
(***************************************************************************)
(* Theorems about Reports, for any number of tabs, submissions, reports,   *)
(* updates and changes of the records, and every kind of registration.     *)
(***************************************************************************)
EXTENDS Reports, TLAPS

Tab == [page: Pages \cup {"blank", "not-found", "error"},
        n: Submissions, seen: Snapshots,
        to: Pages \cup {"nowhere"}, awaits: Awaits,
        got: Snapshots, value: {0, 1}, goes: {"continue", "save"},
        walk: Nat, from: Pages]

-----------------------------------------------------------------------------
(* The inductive invariant.                                                *)

(* A report of the backend, when "last" is the highest version and "ids"   *)
(* the number of reports so far.                                           *)
ReportOK(n, r, last, ids) ==
  /\ r.version <= last /\ r.id <= ids
  /\ r.version = 0 => r.id = 0 /\ r.edits = 0
  /\ r.id = 0      => r.issued = 0
  /\ r.resubmit    => n + 1 \in Submissions

(* The submitted reports of the period are the first ones, and at most the *)
(* one after them is a draft.                                              *)
Reaches(k, reports) ==
  \A n \in Submissions :
    /\ reports[n].status = "submitted" <=> n <= k
    /\ n > k + 1 => reports[n].status = "none"

(* A page made from report r, perhaps a while ago: where versions are      *)
(* never used twice, that of the page tells whether it shows what r holds. *)
SeenOK(s, r, last, ids) ==
  /\ s.version <= last /\ s.id <= ids
  /\ s.version = 0 => s.id = 0 /\ s.edits = 0
  /\ FreshVersions /\ s.version = r.version => s.id = r.id /\ s.edits = r.edits

(* The answer the free tonnage is compared with: the issued tonnage of a   *)
(* report does not change.                                                 *)
GotOK(s, r, ids) ==
  /\ s.id <= ids
  /\ s.id = 0    => s.issued = 0
  /\ s.id = r.id => s.issued = r.issued

(* The figures asked for before a page is reached by Continue.             *)
Before(page, g) ==
  IF page = "tonnes-not-recycled" THEN {"tonnageRecycled"}
  ELSE IF page = "prn-summary"
       THEN Figures(g) \ {"prnRevenue", "freeTonnage"}
  ELSE IF page \in FreePages THEN Figures(g) \ {"freeTonnage"}
  ELSE IF page \in {"supporting-information", "check-your-answers"} THEN Figures(g)
  ELSE {}

(* Where a tab has come by Continue only, the report has the figures asked *)
(* for on the way.                                                         *)
WalkOK(x, r, ids, g) ==
  /\ x.walk <= ids
  /\ x.walk # 0 /\ x.walk = r.id =>
       Before(x.page, g) \cup Before(x.to, g) \subseteq r.filled

PageOK(x, g) ==
  /\ x.page \in DataPages => Admits(x.page, g)
  /\ x.awaits = "free" => x.page \in FreePages

TabOK(x, r, last, ids, g) ==
  /\ SeenOK(x.seen, r, last, ids) /\ GotOK(x.got, r, ids)
  /\ WalkOK(x, r, ids, g) /\ PageOK(x, g)

ReportsOK ==
  /\ \A n \in Submissions : ReportOK(n, report[n], lastVersion, drafts)
  /\ \E k \in 0..MaxSubmission : Reaches(k, report)

TabsOK ==
  \A t \in Tabs : TabOK(tab[t], report[tab[t].n], lastVersion, drafts, registration)

IInv == TypeOK /\ ReportsOK /\ TabsOK

-----------------------------------------------------------------------------
(* The pages.                                                              *)

LEMMA EntryAsksNothing ==
  ASSUME NEW g \in Registrations
  PROVE  EntryPage(g) \in Pages /\ Before(EntryPage(g), g) = {}
  <1>1. g.type \in {"reprocessor", "exporter"} /\ g.accredited \in BOOLEAN
    BY DEF Registrations
  <1>2. CASE g.type = "reprocessor"
    <2>1. EntryPage(g) = "tonnes-recycled"
      BY <1>2 DEF EntryPage
    <2> QED
      BY <2>1 DEF Pages, DataPages, TonnagePages, FreePages, Before
  <1>3. CASE g.type = "exporter" /\ g.accredited
    <2>1. EntryPage(g) = "prn-summary"
      BY <1>3 DEF EntryPage
    <2>2. Figures(g) = {"prnRevenue", "freeTonnage"}
      BY <1>3 DEF Figures
    <2> QED
      BY <2>1, <2>2 DEF Pages, DataPages, TonnagePages, FreePages, Before
  <1>4. CASE g.type = "exporter" /\ ~g.accredited
    <2>1. EntryPage(g) = "tonnes-not-exported"
      BY <1>4 DEF EntryPage
    <2> QED
      BY <2>1 DEF Pages, DataPages, TonnagePages, FreePages, Before
  <1> QED
    BY <1>1, <1>2, <1>3, <1>4

(* Continue leaves out no figure: what is asked for before the next page   *)
(* is what was before this one, and this one's.                            *)
LEMMA NextAsksOn ==
  ASSUME NEW g \in Registrations, NEW p \in DataPages, Admits(p, g)
  PROVE  /\ NextPage(p, g) \in Pages
         /\ Before(NextPage(p, g), g) \subseteq Before(p, g) \cup {FieldOf(p)}
  <1>1. g.type \in {"reprocessor", "exporter"} /\ g.accredited \in BOOLEAN
    BY DEF Registrations
  <1>2. p \in {"tonnes-recycled", "tonnes-not-recycled", "tonnes-not-exported",
              "prn-summary", "free-prns", "free-perns"}
    BY DEF DataPages, TonnagePages, FreePages
  <1>3. CASE p = "tonnes-recycled"
    BY <1>1, <1>3 DEF NextPage, Before, FieldOf, Pages, DataPages, TonnagePages, FreePages
  <1>4. CASE p = "tonnes-not-recycled"
    BY <1>1, <1>4 DEF NextPage, Before, FieldOf, Pages, DataPages, TonnagePages,
                      FreePages, Admits, Figures
  <1>5. CASE p = "tonnes-not-exported"
    BY <1>1, <1>5 DEF NextPage, Before, FieldOf, Pages, DataPages, TonnagePages,
                      FreePages, Admits, Figures
  <1>6. CASE p = "prn-summary"
    BY <1>1, <1>6 DEF NextPage, Before, FieldOf, Pages, DataPages, TonnagePages,
                      FreePages, Admits, Figures
  <1>7. CASE p \in {"free-prns", "free-perns"}
    BY <1>1, <1>7 DEF NextPage, Before, FieldOf, Pages, DataPages, TonnagePages,
                      FreePages, Admits, Figures
  <1> QED
    BY <1>2, <1>3, <1>4, <1>5, <1>6, <1>7

(* Nor does the page for supporting information; and wherever a form leads *)
(* is a page.                                                              *)
LEMMA NextOfSupporting ==
  ASSUME NEW g
  PROVE  /\ NextPage("supporting-information", g) = "check-your-answers"
         /\ Before("check-your-answers", g) = Before("supporting-information", g)
  BY DEF NextPage, Before, FreePages

LEMMA NextIsPage ==
  ASSUME NEW g \in Registrations, NEW p \in DataPages \cup {"supporting-information"}
  PROVE  NextPage(p, g) \in Pages
  <1>1. p \in {"tonnes-recycled", "tonnes-not-recycled", "tonnes-not-exported",
              "prn-summary", "free-prns", "free-perns", "supporting-information"}
    BY DEF DataPages, TonnagePages, FreePages
  <1>2. g.type \in {"reprocessor", "exporter"} /\ g.accredited \in BOOLEAN
    BY DEF Registrations
  <1> QED
    BY <1>1, <1>2 DEF NextPage, Pages, DataPages, TonnagePages, FreePages

LEMMA FieldIsField ==
  ASSUME NEW p \in DataPages
  PROVE  FieldOf(p) \in Fields
  BY DEF Fields

LEMMA FreeField ==
  ASSUME NEW p \in FreePages
  PROVE  p \in DataPages /\ FieldOf(p) = "freeTonnage" /\ "freeTonnage" \in Fields
  <1>1. p \in DataPages /\ FieldOf(p) = "freeTonnage"
    BY DEF FreePages, DataPages, FieldOf
  <1> QED
    BY <1>1, FieldIsField

-----------------------------------------------------------------------------
(* The backend.                                                            *)

(* What becomes of a report in a step: it is deleted, it is a new one, or  *)
(* it is the same, with no figure less, and with the content it had unless *)
(* its version is new.                                                     *)
Keeps(old, new, last, ids) ==
  \/ new = NoReport
  \/ new.id > ids /\ (FreshVersions => new.version > last)
  \/ /\ new.id = old.id /\ new.issued = old.issued /\ old.filled \subseteq new.filled
     /\ \/ ~FreshVersions \/ new.version > last
        \/ new.version = old.version /\ new.edits = old.edits

BackKept ==
  /\ report' \in [Submissions -> Report]
  /\ lastVersion' \in Nat /\ drafts' \in Nat /\ changes' \in Nat
  /\ ReportsOK'
  /\ lastVersion <= lastVersion' /\ drafts <= drafts'
  /\ \A n \in Submissions : Keeps(report[n], report'[n], lastVersion, drafts)

LEMMA NumbersOK == 1 \in Submissions /\ Submissions \subseteq Nat
  BY SubmissionAssumption DEF Submissions

LEMMA NoReportOK ==
  /\ NoReport \in Report
  /\ \A n \in Submissions, last \in Nat, ids \in Nat : ReportOK(n, NoReport, last, ids)
  BY DEF NoReport, Report, Statuses, ReportOK

(* The submission the list shows is the last submitted one or the next.    *)
LEMMA CurrentIs ==
  ASSUME report \in [Submissions -> Report], ReportsOK,
         NEW k \in 0..MaxSubmission, Reaches(k, report)
  PROVE  /\ Current \in Submissions
         /\ Current = k + 1 \/ (Current = k /\ report[k].status = "submitted")
  <1> DEFINE done == {n \in Submissions : report[n].status = "submitted"}
             last == CHOOSE n \in done \cup {0} : \A m \in done : m <= n
  <1>1. done = 1..k
    <2>1. \A n \in Submissions : report[n].status = "submitted" <=> n <= k
      BY DEF Reaches
    <2> QED
      BY <2>1, SubmissionAssumption DEF Submissions
  <1>2. last = k
    <2>1. \A m \in done : m <= k
      BY <1>1
    <2>2. k \in done \cup {0}
      BY <1>1
    <2>3. last \in done \cup {0} /\ \A m \in done : m <= last
      BY <2>1, <2>2
    <2> QED
      BY <1>1, <2>3
  <1>3. Current = IF last = 0 \/ report[last].resubmit THEN last + 1 ELSE last
    BY DEF Current
  <1> HIDE DEF last
  <1>4. CASE k = 0
    <2>1. Current = k + 1
      BY <1>2, <1>3, <1>4
    <2>2. k + 1 = 1
      BY <1>4
    <2> QED
      BY <2>1, <2>2, NumbersOK
  <1>5. CASE k # 0
    <2>1. k \in Submissions /\ report[k].status = "submitted"
      BY <1>1, <1>5
    <2>2. report[k].resubmit => k + 1 \in Submissions
      BY <2>1 DEF ReportsOK, ReportOK
    <2> QED
      BY <1>2, <1>3, <1>5, <2>1, <2>2
  <1> QED
    BY <1>4, <1>5

(* What a page is made from fits the report it is made from.               *)
BackTyped == /\ report \in [Submissions -> Report] /\ lastVersion \in Nat /\ drafts \in Nat
             /\ ReportsOK

SnapshotsFit ==
  \A n \in Submissions : /\ Snapshot(n) \in Snapshots
                         /\ SeenOK(Snapshot(n), report[n], lastVersion, drafts)
                         /\ GotOK(Snapshot(n), report[n], drafts)

LEMMA SnapshotFits == BackTyped => SnapshotsFit
  <1> SUFFICES ASSUME BackTyped, NEW n \in Submissions
               PROVE  /\ Snapshot(n) \in Snapshots
                      /\ SeenOK(Snapshot(n), report[n], lastVersion, drafts)
                      /\ GotOK(Snapshot(n), report[n], drafts)
    BY DEF SnapshotsFit
  <1> DEFINE r == report[n]
             can == CanRequestResubmission(n)
  <1>1. can \in BOOLEAN
    BY DEF CanRequestResubmission
  <1>2. r \in Report /\ ReportOK(n, r, lastVersion, drafts)
    BY DEF BackTyped, ReportsOK
  <1>3. Snapshot(n) = [id |-> r.id, version |-> r.version, edits |-> r.edits,
                       status |-> r.status, issued |-> r.issued, can |-> can]
    BY DEF Snapshot
  <1> HIDE DEF r, can
  <1> QED
    BY <1>1, <1>2, <1>3 DEF Snapshots, Report, ReportOK, SeenOK, GotOK, r

LEMMA UnseenOK ==
  ASSUME NEW n \in Submissions, NEW last \in Nat, NEW ids \in Nat, NEW r \in Report,
         ReportOK(n, r, last, ids)
  PROVE  Unseen \in Snapshots /\ SeenOK(Unseen, r, last, ids) /\ GotOK(Unseen, r, ids)
  BY DEF Unseen, Snapshots, SeenOK, GotOK, ReportOK, Report

(* A step that leaves the backend alone.                                   *)
LEMMA BackSame ==
  ASSUME IInv, UNCHANGED backend
  PROVE  BackKept
  <1>1. report' = report /\ lastVersion' = lastVersion /\ drafts' = drafts /\ changes' = changes
    BY DEF backend
  <1>2. ReportsOK'
    BY <1>1 DEF IInv, ReportsOK
  <1>3. \A n \in Submissions : Keeps(report[n], report'[n], lastVersion, drafts)
    BY <1>1 DEF Keeps
  <1>4. /\ report \in [Submissions -> Report] /\ lastVersion \in Nat /\ drafts \in Nat
        /\ changes \in Nat
    BY DEF IInv, TypeOK
  <1> QED
    BY <1>1, <1>2, <1>3, <1>4 DEF BackKept

(* A step that stores one report.                                          *)
LEMMA BackStores ==
  ASSUME IInv, NEW n \in Submissions, NEW r \in Report, Store(n, r),
         drafts' \in Nat, drafts <= drafts', changes' \in Nat,
         ReportOK(n, r, lastVersion', drafts'),
         Keeps(report[n], r, lastVersion, drafts),
         \E k \in 0..MaxSubmission : Reaches(k, [report EXCEPT ![n] = r])
  PROVE  BackKept
  <1>1. /\ report \in [Submissions -> Report] /\ lastVersion \in Nat /\ drafts \in Nat
        /\ r.version \in Nat
    BY DEF IInv, TypeOK, Report
  <1>2. /\ report' = [report EXCEPT ![n] = r]
        /\ lastVersion' = IF r.version > lastVersion THEN r.version ELSE lastVersion
    BY DEF Store
  <1>3. lastVersion' \in Nat /\ lastVersion <= lastVersion'
    BY <1>1, <1>2
  <1>4. /\ report' \in [Submissions -> Report] /\ report'[n] = r
        /\ \A m \in Submissions : m # n => report'[m] = report[m]
    BY <1>1, <1>2
  <1>5. ASSUME NEW m \in Submissions
        PROVE  /\ ReportOK(m, report'[m], lastVersion', drafts')
               /\ Keeps(report[m], report'[m], lastVersion, drafts)
    <2>1. CASE m = n
      BY <1>4, <2>1
    <2>2. CASE m # n
      <3>1. report'[m] = report[m]
        BY <1>4, <2>2
      <3>2. ReportOK(m, report[m], lastVersion, drafts) /\ report[m] \in Report
        BY <1>1 DEF IInv, ReportsOK
      <3>3. ReportOK(m, report[m], lastVersion', drafts')
        BY <1>1, <1>3, <3>2 DEF ReportOK, Report
      <3> QED
        BY <3>1, <3>3 DEF Keeps
    <2> QED
      BY <2>1, <2>2
  <1>6. ReportsOK'
    BY <1>2, <1>5 DEF ReportsOK
  <1> QED
    BY <1>3, <1>4, <1>5, <1>6 DEF BackKept

-----------------------------------------------------------------------------
(* The tabs.                                                               *)

Contexts == [n: Submissions, reasons: SUBSET Reasons] \cup {NoContext}

(* What a step leaves as it is, or of its type.                            *)
Framed == registration' = registration /\ context' \in Contexts /\ lost' \in Nat

Fits(x) == TabOK(x, report'[x.n], lastVersion', drafts', registration)

(* A tab that does nothing stays true, whatever becomes of its report.     *)
LEMMA TabCarries ==
  ASSUME IInv, BackKept, NEW x \in Tab,
         TabOK(x, report[x.n], lastVersion, drafts, registration)
  PROVE  Fits(x)
  <1> DEFINE old == report[x.n]
             new == report'[x.n]
             last == lastVersion
             last2 == lastVersion'
             ids == drafts
             ids2 == drafts'
             g == registration
  <1>0. /\ old \in Report /\ last \in Nat /\ ids \in Nat
        /\ new \in Report /\ last2 \in Nat /\ ids2 \in Nat
        /\ last <= last2 /\ ids <= ids2 /\ Keeps(old, new, last, ids)
        /\ TabOK(x, old, last, ids, g)
    <2>1. x.n \in Submissions
      BY DEF Tab
    <2>2. report \in [Submissions -> Report] /\ lastVersion \in Nat /\ drafts \in Nat
      BY DEF IInv, TypeOK
    <2> QED
      BY <2>1, <2>2 DEF BackKept
  <1>8. TabOK(x, new, last2, ids2, g) => Fits(x)
    BY DEF Fits
  <1> HIDE DEF old, new, last, last2, ids, ids2, g
  <1>1. /\ x.seen \in Snapshots /\ x.got \in Snapshots /\ x.walk \in Nat
        /\ x.seen.version \in Nat /\ x.seen.id \in Nat /\ x.seen.edits \in Nat
        /\ x.got.id \in Nat /\ x.got.issued \in {0, 1}
    BY DEF Tab, Snapshots
  <1>2. /\ SeenOK(x.seen, old, last, ids) /\ GotOK(x.got, old, ids)
        /\ WalkOK(x, old, ids, g) /\ PageOK(x, g)
    BY <1>0 DEF TabOK
  <1>3. new = NoReport => new.id = 0 /\ new.version = 0 /\ new.edits = 0 /\ new.issued = 0
    BY DEF NoReport
  <1>4. new.id \in Nat /\ new.version \in Nat /\ old.id \in Nat /\ old.version \in Nat
    BY <1>0 DEF Report
  <1>5. SeenOK(x.seen, new, last2, ids2)
    <2>1. CASE new = NoReport
      BY <1>1, <1>2, <1>3, <1>0, <2>1 DEF SeenOK
    <2>2. CASE new.id > ids /\ (FreshVersions => new.version > last)
      BY <1>1, <1>2, <1>4, <1>0, <2>2 DEF SeenOK
    <2>3. CASE /\ new.id = old.id
               /\ \/ ~FreshVersions \/ new.version > last
                  \/ new.version = old.version /\ new.edits = old.edits
      BY <1>1, <1>2, <1>4, <1>0, <2>3 DEF SeenOK
    <2> QED
      BY <1>0, <2>1, <2>2, <2>3 DEF Keeps
  <1>6. GotOK(x.got, new, ids2)
    BY <1>0, <1>1, <1>2, <1>3, <1>4 DEF GotOK, Keeps
  <1>7. WalkOK(x, new, ids2, g)
    BY <1>0, <1>1, <1>2, <1>3, <1>4 DEF WalkOK, Keeps
  <1> QED
    BY <1>2, <1>5, <1>6, <1>7, <1>8 DEF TabOK

LEMMA TabStays ==
  ASSUME IInv, BackKept, NEW t \in Tabs
  PROVE  tab[t] \in Tab /\ Fits(tab[t])
  <1>1. tab[t] \in Tab
    BY DEF IInv, TypeOK, Tab
  <1>2. TabOK(tab[t], report[tab[t].n], lastVersion, drafts, registration)
    BY DEF IInv, TabsOK
  <1> QED
    BY <1>1, <1>2, TabCarries

(* A step in which one tab changes, to what fits the reports.              *)
LEMMA TabStep ==
  ASSUME IInv, BackKept, Framed, NEW t \in Tabs, NEW x \in Tab, Fits(x),
         tab' = [tab EXCEPT ![t] = x]
  PROVE  IInv'
  <1>1. registration \in Registrations /\ tab \in [Tabs -> Tab]
    BY DEF IInv, TypeOK, Tab
  <1>2. tab' \in [Tabs -> Tab]
    BY <1>1
  <1>3. TypeOK'
    BY <1>1, <1>2 DEF Framed, BackKept, TypeOK, Tab, Contexts
  <1>4. ASSUME NEW u \in Tabs
        PROVE  TabOK(tab'[u], report'[tab'[u].n], lastVersion', drafts', registration')
    <2>1. CASE u = t
      BY <1>1, <2>1 DEF Fits, Framed
    <2>2. CASE u # t
      <3>1. tab'[u] = tab[u]
        BY <1>1, <2>2
      <3> QED
        BY <3>1, TabStays DEF Fits, Framed
    <2> QED
      BY <2>1, <2>2
  <1>5. TabsOK'
    BY <1>4 DEF TabsOK
  <1> QED
    BY <1>3, <1>5 DEF IInv, BackKept

(* What a page may be made from.                                           *)
SeenFits(s, n) == s \in Snapshots /\ SeenOK(s, report'[n], lastVersion', drafts')

LEMMA UnseenFits ==
  ASSUME BackKept, NEW n \in Submissions
  PROVE  SeenFits(Unseen, n) /\ GotOK(Unseen, report'[n], drafts')
  <1>1. /\ report'[n] \in Report /\ lastVersion' \in Nat /\ drafts' \in Nat
        /\ ReportOK(n, report'[n], lastVersion', drafts')
    BY DEF BackKept, ReportsOK
  <1> QED
    BY <1>1, UnseenOK DEF SeenFits

LEMMA NewFits ==
  ASSUME BackKept, NEW n \in Submissions
  PROVE  SeenFits(Snapshot(n)', n)
  <1>1. BackTyped'
    BY DEF BackKept, BackTyped
  <1>2. SnapshotsFit'
    BY <1>1, SnapshotFits, PTL
  <1> QED
    BY <1>2 DEF SnapshotsFit, SeenFits

LEMMA SameFits ==
  ASSUME IInv, UNCHANGED backend, NEW n \in Submissions
  PROVE  SeenFits(Snapshot(n), n) /\ GotOK(Snapshot(n), report'[n], drafts')
  <1>1. report' = report /\ lastVersion' = lastVersion /\ drafts' = drafts
    BY DEF backend
  <1>2. BackTyped
    BY DEF IInv, TypeOK, BackTyped
  <1> QED
    BY <1>1, <1>2, SnapshotFits DEF SnapshotsFit, SeenFits

(* A page, or a redirect, that an answer leads to.                         *)
NewTab(p, n, s, q, w) ==
  [page |-> p, n |-> n, seen |-> s, to |-> q, awaits |-> "no", got |-> Unseen,
   value |-> 0, goes |-> "save", walk |-> w, from |-> "list"]

(* The walk of the tab goes on to page p of a report that has what is      *)
(* asked for before it.                                                    *)
WalkFits(p, n, w) ==
  /\ w \in Nat /\ w <= drafts'
  /\ w # 0 /\ w = report'[n].id => Before(p, registration) \subseteq report'[n].filled

LEMMA NewTabFits ==
  ASSUME BackKept, NEW n \in Submissions, NEW s, SeenFits(s, n), NEW w,
         NEW p \in Pages \cup {"blank", "not-found", "error"},
         NEW q \in Pages \cup {"nowhere"},
         WalkFits(p, n, w), WalkFits(q, n, w), p \in DataPages => Admits(p, registration)
  PROVE  NewTab(p, n, s, q, w) \in Tab /\ Fits(NewTab(p, n, s, q, w))
  <1> DEFINE x == NewTab(p, n, s, q, w)
  <1>1. /\ x.page = p /\ x.n = n /\ x.seen = s /\ x.to = q /\ x.awaits = "no"
        /\ x.got = Unseen /\ x.walk = w
    BY DEF NewTab
  <1>2. x \in Tab
    <2>1. Unseen \in Snapshots /\ s \in Snapshots /\ w \in Nat
      BY UnseenFits DEF SeenFits, WalkFits
    <2>2. "list" \in Pages
      BY DEF Pages
    <2> QED
      BY <2>1, <2>2 DEF NewTab, Tab, Awaits
  <1> HIDE DEF x
  <1>3. SeenOK(x.seen, report'[x.n], lastVersion', drafts')
    BY <1>1 DEF SeenFits
  <1>4. GotOK(x.got, report'[x.n], drafts')
    BY <1>1, UnseenFits
  <1>5. WalkOK(x, report'[x.n], drafts', registration)
    BY <1>1 DEF WalkFits, WalkOK
  <1>6. PageOK(x, registration)
    BY <1>1 DEF PageOK
  <1>7. Fits(x)
    BY <1>3, <1>4, <1>5, <1>6 DEF Fits, TabOK
  <1> QED
    BY <1>2, <1>7 DEF x

(* The tabs that Leads and Shows make.                                     *)
LEMMA LeadsTab ==
  ASSUME NEW t, NEW p, NEW n, NEW s, NEW w, Leads(t, p, n, s, w)
  PROVE  tab' = [tab EXCEPT ![t] = NewTab("blank", n, s, p, w)]
  <1> DEFINE a == [Blank EXCEPT !.n = n, !.seen = s, !.to = p, !.walk = w]
             b == NewTab("blank", n, s, p, w)
             S == [page: {b.page, "blank"}, n: {n, 1}, seen: {s, Unseen},
                   to: {b.to, "nowhere"}, awaits: {"no"}, got: {Unseen}, value: {0},
                   goes: {"save"}, walk: {w, 0}, from: {"list"}]
  <1>1. Blank \in S
    BY DEF Blank
  <1>2. a \in S /\ b \in S
    BY <1>1 DEF NewTab
  <1>3. /\ a.page = b.page /\ a.n = b.n /\ a.seen = b.seen /\ a.to = b.to
        /\ a.awaits = b.awaits /\ a.got = b.got /\ a.value = b.value
        /\ a.goes = b.goes /\ a.walk = b.walk /\ a.from = b.from
    BY <1>1 DEF Blank, NewTab
  <1>4. tab' = [tab EXCEPT ![t] = a]
    BY DEF Leads
  <1> HIDE DEF a, b
  <1>5. a = b
    BY <1>2, <1>3
  <1>6. tab' = [tab EXCEPT ![t] = b]
    BY <1>4, <1>5
  <1> QED
    BY <1>6 DEF b

LEMMA ShowsTab ==
  ASSUME NEW t, NEW p, NEW n, NEW s, NEW w, Shows(t, p, n, s, w)
  PROVE  tab' = [tab EXCEPT ![t] = NewTab(p, n, s, "nowhere", w)]
  <1> DEFINE a == [Blank EXCEPT !.page = p, !.n = n, !.seen = s, !.walk = w]
             b == NewTab(p, n, s, "nowhere", w)
             S == [page: {b.page, "blank"}, n: {n, 1}, seen: {s, Unseen},
                   to: {b.to, "nowhere"}, awaits: {"no"}, got: {Unseen}, value: {0},
                   goes: {"save"}, walk: {w, 0}, from: {"list"}]
  <1>1. Blank \in S
    BY DEF Blank
  <1>2. a \in S /\ b \in S
    BY <1>1 DEF NewTab
  <1>3. /\ a.page = b.page /\ a.n = b.n /\ a.seen = b.seen /\ a.to = b.to
        /\ a.awaits = b.awaits /\ a.got = b.got /\ a.value = b.value
        /\ a.goes = b.goes /\ a.walk = b.walk /\ a.from = b.from
    BY <1>1 DEF Blank, NewTab
  <1>4. tab' = [tab EXCEPT ![t] = a]
    BY DEF Shows
  <1> HIDE DEF a, b
  <1>5. a = b
    BY <1>2, <1>3
  <1>6. tab' = [tab EXCEPT ![t] = b]
    BY <1>4, <1>5
  <1> QED
    BY <1>6 DEF b

(* Where nothing is asked for, any walk fits; and no walk fits anywhere.   *)
LEMMA NoWalk ==
  ASSUME BackKept, NEW n \in Submissions, NEW p
  PROVE  WalkFits(p, n, 0)
  BY DEF WalkFits, BackKept

LEMMA PlainWalk ==
  ASSUME BackKept, NEW n \in Submissions, NEW q, NEW w, WalkFits(q, n, w),
         NEW p \in {"blank", "not-found", "error", "nowhere"}
  PROVE  WalkFits(p, n, w)
  BY DEF WalkFits, Before, FreePages

LEMMA LeadsKeeps ==
  ASSUME IInv, BackKept, Framed, NEW t \in Tabs, NEW n \in Submissions,
         NEW p \in Pages, NEW s, SeenFits(s, n), NEW w, WalkFits(p, n, w),
         Leads(t, p, n, s, w)
  PROVE  IInv'
  <1>1. tab' = [tab EXCEPT ![t] = NewTab("blank", n, s, p, w)]
    BY LeadsTab
  <1>2. WalkFits("blank", n, w) /\ "blank" \notin DataPages
    BY PlainWalk DEF DataPages, TonnagePages, FreePages
  <1>3. NewTab("blank", n, s, p, w) \in Tab /\ Fits(NewTab("blank", n, s, p, w))
    BY <1>2, NewTabFits
  <1> QED
    BY <1>1, <1>3, TabStep

LEMMA RedirectKeeps ==
  ASSUME IInv, BackKept, Framed, NEW t \in Tabs, NEW n \in Submissions,
         NEW p \in Pages, NEW s, SeenFits(s, n), RedirectTo(t, p, n, s)
  PROVE  IInv'
  BY NoWalk, LeadsKeeps DEF RedirectTo

LEMMA ShowsKeeps ==
  ASSUME IInv, BackKept, Framed, NEW t \in Tabs, NEW n \in Submissions,
         NEW p \in Pages \cup {"not-found", "error"}, NEW s, SeenFits(s, n),
         NEW w, WalkFits(p, n, w), p \in DataPages => Admits(p, registration),
         Shows(t, p, n, s, w)
  PROVE  IInv'
  <1>1. tab' = [tab EXCEPT ![t] = NewTab(p, n, s, "nowhere", w)]
    BY ShowsTab
  <1>2. WalkFits("nowhere", n, w)
    BY PlainWalk
  <1>3. NewTab(p, n, s, "nowhere", w) \in Tab /\ Fits(NewTab(p, n, s, "nowhere", w))
    BY <1>2, NewTabFits
  <1> QED
    BY <1>1, <1>3, TabStep

(* The answers without a page of the report.                               *)
LEMMA ErrorKeeps ==
  ASSUME IInv, BackKept, Framed, NEW t \in Tabs, NotFound(t) \/ Error(t)
  PROVE  IInv'
  <1>1. tab[t].n \in Submissions
    BY DEF IInv, TypeOK
  <1>2. {"not-found", "error"} \cap DataPages = {}
    BY DEF DataPages, TonnagePages, FreePages
  <1>3. SeenFits(Unseen, tab[t].n)
    BY <1>1, UnseenFits
  <1>4. CASE NotFound(t)
    BY <1>1, <1>2, <1>3, <1>4, NoWalk, ShowsKeeps DEF NotFound
  <1>5. CASE Error(t)
    BY <1>1, <1>2, <1>3, <1>5, NoWalk, ShowsKeeps DEF Error
  <1> QED
    BY <1>4, <1>5

LEMMA StaleKeeps ==
  ASSUME IInv, BackKept, registration' = registration, lost' = lost,
         NEW t \in Tabs, NEW n \in Submissions, StaleRedirect(t, n)
  PROVE  IInv'
  <1>1. report[n].stale \in SUBSET Reasons /\ lost \in Nat
    BY DEF IInv, TypeOK, Report
  <1>2. Framed
    BY <1>1 DEF Framed, StaleRedirect, Contexts
  <1>3. "report-stale-error" \in Pages
    BY DEF Pages
  <1> QED
    BY <1>2, <1>3, UnseenFits, RedirectKeeps DEF StaleRedirect

(* The backend did what it was asked, whether or not its answer arrives.   *)
LEMMA DoneKeeps ==
  ASSUME IInv, BackKept, registration' = registration, context' = context,
         NEW t \in Tabs, NEW n \in Submissions, NEW p \in Pages,
         NEW s, SeenFits(s, n), NEW w, WalkFits(p, n, w), Done(t, p, n, s, w)
  PROVE  IInv'
  <1>1. lost \in Nat /\ context \in Contexts
    BY DEF IInv, TypeOK, Contexts
  <1>2. lost' \in Nat
    BY <1>1 DEF Done
  <1>3. Framed
    BY <1>1, <1>2 DEF Framed
  <1>4. CASE Leads(t, p, n, s, w)
    BY <1>3, <1>4, LeadsKeeps
  <1> DEFINE x == [tab[t] EXCEPT !.got = Unseen, !.awaits = "no", !.value = 0,
                                 !.goes = "save"]
  <1>5. CASE tab' = [tab EXCEPT ![t] = x]
    <2>1. tab[t] \in Tab /\ Fits(tab[t])
      BY TabStays
    <2>2. tab[t].n \in Submissions
      BY <2>1 DEF Tab
    <2>3. Unseen \in Snapshots /\ GotOK(Unseen, report'[tab[t].n], drafts')
      BY <2>2, UnseenFits DEF SeenFits
    <2>4. /\ x \in Tab /\ x.page = tab[t].page /\ x.n = tab[t].n /\ x.seen = tab[t].seen
          /\ x.to = tab[t].to /\ x.walk = tab[t].walk /\ x.got = Unseen /\ x.awaits = "no"
      BY <2>1, <2>3 DEF Tab, Awaits
    <2>5. Fits(x)
      BY <2>1, <2>3, <2>4 DEF Fits, TabOK, WalkOK, PageOK
    <2> QED
      BY <1>3, <1>5, <2>4, <2>5, TabStep
  <1>6. Leads(t, p, n, s, w) \/ tab' = [tab EXCEPT ![t] = x]
    BY TabStays DEF Done
  <1> QED
    BY <1>4, <1>5, <1>6

(* A tab that shows nothing of a report.                                   *)
LEMMA EmptyFits ==
  ASSUME BackKept, NEW x \in Tab, x.seen = Unseen, x.got = Unseen, x.walk = 0,
         x.page \notin DataPages, x.awaits # "free"
  PROVE  Fits(x)
  <1>1. x.n \in Submissions
    BY DEF Tab
  <1>2. SeenFits(Unseen, x.n) /\ GotOK(Unseen, report'[x.n], drafts')
    BY <1>1, UnseenFits
  <1>3. WalkOK(x, report'[x.n], drafts', registration)
    BY DEF WalkOK, BackKept
  <1> QED
    BY <1>2, <1>3 DEF Fits, TabOK, SeenFits, PageOK

-----------------------------------------------------------------------------
(* GET.                                                                    *)

LEMMA StartTyped ==
  ASSUME IInv
  PROVE  /\ registration \in Registrations /\ context \in Contexts /\ lost \in Nat
         /\ lastVersion \in Nat /\ drafts \in Nat /\ changes \in Nat
         /\ report \in [Submissions -> Report] /\ tab \in [Tabs -> Tab]
         /\ \A t \in Tabs : tab[t] \in Tab /\ tab[t].n \in Submissions
  <1>1. tab \in [Tabs -> Tab]
    BY DEF IInv, TypeOK, Tab
  <1>2. \A t \in Tabs : tab[t] \in Tab /\ tab[t].n \in Submissions
    BY <1>1 DEF Tab
  <1> QED
    BY <1>1, <1>2 DEF IInv, TypeOK, Contexts

(* A page's walk fits it: the tab was sent there, or a report is taken up. *)
LEMMA WalkIsFit ==
  ASSUME IInv, UNCHANGED backend, NEW t \in Tabs, NEW n \in Submissions,
         NEW p \in Pages, Asks(t, p, n)
  PROVE  WalkFits(p, n, Walk(t, p, n))
  <1>1. report' = report /\ drafts' = drafts
    BY DEF backend
  <1>2. /\ report[n] \in Report /\ report[n].id \in Nat /\ report[n].id <= drafts
        /\ drafts \in Nat
    BY DEF IInv, TypeOK, ReportsOK, ReportOK, Report
  <1>3. CASE p = EntryPage(registration)
    <2>1. Before(p, registration) = {}
      BY <1>3, StartTyped, EntryAsksNothing
    <2>2. Walk(t, p, n) = report[n].id
      BY <1>3 DEF Walk
    <2> QED
      BY <1>1, <1>2, <2>1, <2>2 DEF WalkFits
  <1>4. CASE p # EntryPage(registration) /\ tab[t].to = p /\ tab[t].walk = report[n].id
    <2>1. Walk(t, p, n) = report[n].id
      BY <1>4 DEF Walk
    <2>2. tab[t].to # "nowhere"
      BY <1>4 DEF Pages, DataPages, TonnagePages, FreePages
    <2>3. Links(t) = {<<tab[t].to, tab[t].n>>}
      BY <2>2 DEF Links
    <2>4. <<p, n>> \in Links(t)
      BY <2>2 DEF Asks
    <2>5. n = tab[t].n
      BY <2>3, <2>4
    <2>6. WalkOK(tab[t], report[n], drafts, registration)
      BY <2>5 DEF IInv, TabsOK, TabOK
    <2> QED
      BY <1>1, <1>2, <1>4, <2>1, <2>6 DEF WalkFits, WalkOK
  <1>5. CASE p # EntryPage(registration) /\ ~(tab[t].to = p /\ tab[t].walk = report[n].id)
    <2>1. Walk(t, p, n) = 0
      BY <1>5 DEF Walk
    <2> QED
      BY <1>1, <1>2, <2>1 DEF WalkFits
  <1> QED
    BY <1>3, <1>4, <1>5

LEMMA Outcomes ==
  ASSUME NEW n, NEW p \in Pages \ {"submit"}
  PROVE  Outcome(p, n) \in {"stale", "list", "not-found", "shown"}
  <1>1. \A status, otherwise : IfStatus(n, status, otherwise) \in {"shown", otherwise}
    BY DEF IfStatus
  <1>2. Detail(n) \in {"list", "shown"} /\ CheckYourAnswers(n) \in {"list", "shown"}
    BY <1>1 DEF Detail, CheckYourAnswers
  <1>3. /\ DataPage(p, n) \in {"shown", "not-found"} /\ Created(n) \in {"shown", "not-found"}
        /\ Submitted(n) \in {"shown", "not-found"} /\ View(n) \in {"shown", "not-found"}
    BY <1>1 DEF DataPage, Created, Submitted, View
  <1>4. MakeChanges(n) \in {"shown", "not-found"} /\ Explainer(n) \in {"shown", "not-found"}
    BY DEF MakeChanges, Explainer
  <1> QED
    BY <1>2, <1>3, <1>4 DEF Outcome

LEMMA SubmitOutcomes ==
  ASSUME NEW n
  PROVE  Outcome("submit", n) \in {"stale", "submitted", "not-found", "error", "shown"}
  <1>1. Created(n) \in {"shown", "not-found"}
    BY DEF Created, IfStatus
  <1>2. Submit(n) \in {"submitted", "not-found", "error", "shown"}
    BY <1>1 DEF Submit
  <1>3. Outcome("submit", n) \in {"stale", Submit(n)}
    BY DEF Outcome, DataPages, TonnagePages, FreePages
  <1> QED
    BY <1>2, <1>3

(* A page that asks for a figure is shown to whom it admits.               *)
LEMMA ShownAdmits ==
  ASSUME NEW n, NEW p \in DataPages, Outcome(p, n) = "shown"
  PROVE  Admits(p, registration)
  <1>1. Outcome(p, n) \in {"stale", DataPage(p, n)}
    BY DEF Outcome, DataPages, TonnagePages, FreePages
  <1> QED
    BY <1>1 DEF DataPage

LEMMA GetListKeeps ==
  ASSUME IInv, NEW t \in Tabs, GetList(t)
  PROVE  IInv'
  <1>1. UNCHANGED backend /\ Framed
    BY StartTyped DEF GetList, Framed
  <1>2. PICK k \in 0..MaxSubmission : Reaches(k, report)
    BY DEF IInv, ReportsOK
  <1>3. Current \in Submissions
    BY <1>2, CurrentIs, StartTyped DEF IInv
  <1>4. SeenFits(Snapshot(Current), Current)
    BY <1>1, <1>3, SameFits
  <1>5. "list" \in Pages /\ "list" \notin DataPages
    BY DEF Pages, DataPages, TonnagePages, FreePages
  <1>6. Shows(t, "list", Current, Snapshot(Current), 0)
    BY DEF GetList
  <1>7. BackKept
    BY <1>1, BackSame
  <1>8. WalkFits("list", Current, 0)
    BY <1>3, <1>7, NoWalk
  <1> HIDE DEF Current, Snapshot
  <1> QED
    BY <1>1, <1>3, <1>4, <1>5, <1>6, <1>7, <1>8, ShowsKeeps

LEMMA ShowsDeleteKeeps ==
  ASSUME IInv, BackKept, Framed, NEW t \in Tabs, NEW n \in Submissions, ShowsDelete(t, n)
  PROVE  IInv'
  <1>1. PICK from \in (IF tab[t].n = n /\ tab[t].page \in Pages \ {"delete"}
                       THEN {tab[t].page} ELSE {"list"})
                      \cup (IF HandEdited THEN {"list"} ELSE {}) :
           tab' = [tab EXCEPT ![t] = [Blank EXCEPT !.page = "delete", !.n = n, !.from = from]]
    BY DEF ShowsDelete
  <1>2. "delete" \in Pages \ DataPages /\ "list" \in Pages
    BY DEF Pages, DataPages, TonnagePages, FreePages
  <1>3. from \in Pages
    BY <1>1, <1>2
  <1> DEFINE x == [Blank EXCEPT !.page = "delete", !.n = n, !.from = from]
  <1>4. Unseen \in Snapshots
    BY UnseenFits DEF SeenFits
  <1>5. /\ x \in Tab /\ x.seen = Unseen /\ x.got = Unseen /\ x.walk = 0
        /\ x.page = "delete" /\ x.awaits = "no"
    BY <1>2, <1>3, <1>4 DEF Blank, Tab, Awaits
  <1>6. tab' = [tab EXCEPT ![t] = x]
    BY <1>1
  <1> HIDE DEF x
  <1> QED
    BY <1>2, <1>5, <1>6, EmptyFits, TabStep

LEMMA GetPageKeeps ==
  ASSUME IInv, NEW t \in Tabs, NEW n \in Submissions, NEW p \in Pages, GetPage(t, p, n)
  PROVE  IInv'
  <1>1. /\ UNCHANGED backend /\ registration' = registration /\ lost' = lost
        /\ p # "submit" /\ Asks(t, p, n)
    BY DEF GetPage
  <1>2. BackKept
    BY <1>1, BackSame
  <1>3. Outcome(p, n) \in {"stale", "list", "not-found", "shown"}
    BY <1>1, Outcomes
  <1>4. CASE Outcome(p, n) = "stale"
    BY <1>1, <1>2, <1>4, StaleKeeps DEF GetPage
  <1>5. CASE Outcome(p, n) # "stale"
    <2>1. Framed
      BY <1>1, <1>5, StartTyped DEF GetPage, Framed
    <2>2. SeenFits(Snapshot(n), n) /\ SeenFits(Unseen, n)
      BY <1>1, <1>2, SameFits, UnseenFits
    <2>3. CASE Outcome(p, n) = "list"
      <3>1. RedirectTo(t, "list", n, Snapshot(n)) /\ "list" \in Pages
        BY <2>3 DEF GetPage, Pages
      <3> QED
        BY <1>2, <2>1, <2>2, <3>1, RedirectKeeps
    <2>4. CASE Outcome(p, n) = "not-found"
      BY <1>2, <2>1, <2>4, ErrorKeeps DEF GetPage
    <2>5. CASE Outcome(p, n) = "shown" /\ p # "delete"
      <3> DEFINE s == IF p \in ReadsReport THEN Snapshot(n) ELSE Unseen
                 w == Walk(t, p, n)
      <3>1. Shows(t, p, n, s, w)
        BY <2>5 DEF GetPage
      <3>2. SeenFits(s, n)
        BY <2>2
      <3>3. WalkFits(p, n, w)
        BY <1>1, WalkIsFit
      <3>4. p \in DataPages => Admits(p, registration)
        BY <2>5, ShownAdmits
      <3> HIDE DEF s, w
      <3> QED
        BY <1>2, <2>1, <3>1, <3>2, <3>3, <3>4, ShowsKeeps
    <2>6. CASE Outcome(p, n) = "shown" /\ p = "delete"
      BY <1>2, <2>1, <2>6, ShowsDeleteKeeps DEF GetPage
    <2> QED
      BY <1>3, <1>5, <2>3, <2>4, <2>5, <2>6
  <1> QED
    BY <1>4, <1>5

LEMMA GetSubmitKeeps ==
  ASSUME IInv, NEW t \in Tabs, NEW n \in Submissions, GetSubmit(t, n)
  PROVE  IInv'
  <1>1. UNCHANGED backend /\ registration' = registration /\ lost' = lost
    BY DEF GetSubmit
  <1>2. BackKept
    BY <1>1, BackSame
  <1>3. Outcome("submit", n) \in {"stale", "submitted", "not-found", "error", "shown"}
    BY SubmitOutcomes
  <1>4. CASE Outcome("submit", n) = "stale"
    BY <1>1, <1>2, <1>4, StaleKeeps DEF GetSubmit
  <1>5. CASE Outcome("submit", n) # "stale"
    <2>1. Framed
      BY <1>1, <1>5, StartTyped DEF GetSubmit, Framed
    <2>2. CASE Outcome("submit", n) = "submitted"
      <3>1. RedirectTo(t, "submitted", n, Snapshot(n)) /\ "submitted" \in Pages
        BY <2>2 DEF GetSubmit, Pages
      <3>2. SeenFits(Snapshot(n), n)
        BY <1>1, SameFits
      <3> QED
        BY <1>2, <2>1, <3>1, <3>2, RedirectKeeps
    <2>3. CASE Outcome("submit", n) \in {"not-found", "error"}
      BY <1>2, <2>1, <2>3, ErrorKeeps DEF GetSubmit
    <2>4. CASE Outcome("submit", n) = "shown"
      <3> DEFINE x == [Blank EXCEPT !.n = n, !.awaits = "submit"]
      <3>1. tab' = [tab EXCEPT ![t] = x]
        BY <2>4 DEF GetSubmit
      <3>2. Unseen \in Snapshots /\ "list" \in Pages
        BY <1>2, UnseenFits DEF SeenFits, Pages
      <3>3. /\ x \in Tab /\ x.seen = Unseen /\ x.got = Unseen /\ x.walk = 0
            /\ x.page = "blank" /\ x.awaits = "submit"
        BY <3>2 DEF Blank, Tab, Awaits
      <3>4. "blank" \notin DataPages
        BY DEF DataPages, TonnagePages, FreePages
      <3> HIDE DEF x
      <3> QED
        BY <1>2, <2>1, <3>1, <3>3, <3>4, EmptyFits, TabStep
    <2> QED
      BY <1>3, <1>5, <2>2, <2>3, <2>4
  <1> QED
    BY <1>4, <1>5

LEMMA MakeSubmitKeeps ==
  ASSUME IInv, NEW t \in Tabs, MakeSubmit(t)
  PROVE  IInv'
  <1> DEFINE n == tab[t].n
  <1>1. /\ UNCHANGED backend /\ registration' = registration /\ lost' = lost
        /\ n \in Submissions
    BY StartTyped DEF MakeSubmit
  <1>2. BackKept
    BY <1>1, BackSame
  <1>3. CASE report[n].stale # {}
    <2>1. StaleRedirect(t, n)
      BY <1>3 DEF MakeSubmit
    <2> QED
      BY <1>1, <1>2, <2>1, StaleKeeps
  <1>4. CASE report[n].stale = {}
    <2>1. Framed
      BY <1>1, <1>4, StartTyped DEF MakeSubmit, Framed
    <2>2. CASE Made(n)
      <3>1. Shows(t, "submit", n, Snapshot(n), 0)
        BY <1>4, <2>2 DEF MakeSubmit
      <3>2. SeenFits(Snapshot(n), n) /\ WalkFits("submit", n, 0)
        BY <1>1, <1>2, SameFits, NoWalk
      <3>3. "submit" \in Pages \ DataPages
        BY DEF Pages, DataPages, TonnagePages, FreePages
      <3> HIDE DEF n
      <3> QED
        BY <1>1, <1>2, <2>1, <3>1, <3>2, <3>3, ShowsKeeps
    <2>3. CASE ~Made(n)
      BY <1>2, <1>4, <2>1, <2>3, ErrorKeeps DEF MakeSubmit
    <2> QED
      BY <2>2, <2>3
  <1> QED
    BY <1>3, <1>4

LEMMA GetStaleKeeps ==
  ASSUME IInv, NEW t \in Tabs, NEW n \in Submissions, GetStale(t, n)
  PROVE  IInv'
  <1>1. UNCHANGED backend /\ Framed
    BY StartTyped DEF GetStale, Framed
  <1>2. BackKept
    BY <1>1, BackSame
  <1>3. "list" \in Pages
    BY DEF Pages
  <1>4. CASE RedirectTo(t, "list", n, Unseen)
    BY <1>1, <1>2, <1>3, <1>4, UnseenFits, RedirectKeeps
  <1> DEFINE x == [Blank EXCEPT !.n = n, !.awaits = "stale"]
  <1>5. CASE tab' = [tab EXCEPT ![t] = x]
    <2>1. Unseen \in Snapshots
      BY <1>2, UnseenFits DEF SeenFits
    <2>2. /\ x \in Tab /\ x.seen = Unseen /\ x.got = Unseen /\ x.walk = 0
          /\ x.page = "blank" /\ x.awaits = "stale"
      BY <1>3, <2>1 DEF Blank, Tab, Awaits
    <2>3. "blank" \notin DataPages
      BY DEF DataPages, TonnagePages, FreePages
    <2> HIDE DEF x
    <2> QED
      BY <1>1, <1>2, <1>5, <2>2, <2>3, EmptyFits, TabStep
  <1> QED
    BY <1>4, <1>5 DEF GetStale

LEMMA ShowStaleKeeps ==
  ASSUME IInv, NEW t \in Tabs, ShowStale(t)
  PROVE  IInv'
  <1> DEFINE n == tab[t].n
             p == "report-stale-error"
  <1>1. /\ UNCHANGED backend /\ Framed /\ n \in Submissions
        /\ Shows(t, p, n, Unseen, 0)
    BY StartTyped DEF ShowStale, Framed, Contexts
  <1>2. BackKept
    BY <1>1, BackSame
  <1>3. SeenFits(Unseen, n) /\ WalkFits(p, n, 0)
    BY <1>1, <1>2, UnseenFits, NoWalk
  <1>4. p \in Pages \ DataPages
    BY DEF Pages, DataPages, TonnagePages, FreePages
  <1> HIDE DEF n, p
  <1> QED
    BY <1>1, <1>2, <1>3, <1>4, ShowsKeeps

-----------------------------------------------------------------------------
(* POST.                                                                   *)

(* Storing a report that is no more submitted than the one before, and not *)
(* where none may be, leaves the submitted ones the first.                 *)
LEMMA ReachesStill ==
  ASSUME report \in [Submissions -> Report], NEW k \in 0..MaxSubmission, Reaches(k, report),
         NEW n \in Submissions, NEW r \in Report,
         r.status = "submitted" <=> report[n].status = "submitted",
         n > k + 1 => r.status = "none"
  PROVE  Reaches(k, [report EXCEPT ![n] = r])
  BY DEF Reaches

LEMMA RefusedKeeps ==
  ASSUME IInv, NEW t \in Tabs, NEW n \in Submissions, Refused(t, n)
  PROVE  IInv'
  <1>1. UNCHANGED backend /\ registration' = registration /\ lost' = lost
    BY DEF Refused
  <1>2. BackKept
    BY <1>1, BackSame
  <1>3. CASE StaleRedirect(t, n)
    BY <1>1, <1>2, <1>3, StaleKeeps
  <1>4. CASE Error(t) /\ UNCHANGED context
    BY <1>1, <1>2, <1>4, StartTyped, ErrorKeeps DEF Framed
  <1> QED
    BY <1>3, <1>4 DEF Refused

LEMMA CreateKeeps ==
  ASSUME IInv, NEW n \in Submissions, Creatable(n), NEW issued \in {0, 1},
         Create(n, issued), changes' = changes
  PROVE  BackKept
  <1> DEFINE v == IF FreshVersions THEN lastVersion + 1 ELSE 1
             r == [NoReport EXCEPT !.id = drafts + 1, !.status = "in_progress",
                                   !.version = v, !.issued = issued]
  <1>1. Store(n, r) /\ drafts' = drafts + 1
    BY DEF Create
  <1>2. lastVersion \in Nat /\ drafts \in Nat /\ changes \in Nat
    BY StartTyped
  <1>0. v \in Nat \ {0} /\ (FreshVersions => v > lastVersion)
    BY <1>2
  <1> HIDE DEF v
  <1>3. /\ r \in Report /\ r.id = drafts + 1 /\ r.status = "in_progress"
        /\ r.version = v /\ r.resubmit = FALSE
    <2>1. NoReport \in Report /\ drafts + 1 \in Nat /\ "in_progress" \in Statuses
      BY <1>2, NoReportOK DEF Statuses
    <2>2. NoReport.resubmit = FALSE
      BY DEF NoReport
    <2> QED
      BY <1>0, <2>1, <2>2 DEF Report
  <1> HIDE DEF r
  <1>4. lastVersion' \in Nat /\ r.version <= lastVersion' /\ r.version \in Nat
    BY <1>0, <1>1, <1>2, <1>3 DEF Store
  <1>5. ReportOK(n, r, lastVersion', drafts')
    BY <1>0, <1>1, <1>2, <1>3, <1>4 DEF ReportOK
  <1>6. Keeps(report[n], r, lastVersion, drafts)
    BY <1>0, <1>2, <1>3 DEF Keeps
  <1>7. PICK k \in 0..MaxSubmission : Reaches(k, report)
    BY DEF IInv, ReportsOK
  <1>8. n = Current /\ report[n].status = "none"
    BY DEF Creatable, Made
  <1>9. Current = k + 1 \/ (Current = k /\ report[k].status = "submitted")
    BY <1>7, StartTyped, CurrentIs DEF IInv
  <1>10. n = k + 1
    BY <1>8, <1>9
  <1>11. Reaches(k, [report EXCEPT ![n] = r])
    <2>1. report \in [Submissions -> Report]
      BY StartTyped
    <2>2. r.status = "submitted" <=> report[n].status = "submitted"
      BY <1>3, <1>8
    <2>3. ~(n > k + 1)
      BY <1>10
    <2> QED
      BY <1>3, <1>7, <2>1, <2>2, <2>3, ReachesStill
  <1>12. \E j \in 0..MaxSubmission : Reaches(j, [report EXCEPT ![n] = r])
    BY <1>11
  <1> QED
    BY <1>1, <1>2, <1>3, <1>5, <1>6, <1>12, BackStores

LEMMA PostCreateKeeps ==
  ASSUME IInv, NEW t \in Tabs, NEW n \in Submissions, PostCreate(t, n)
  PROVE  IInv'
  <1> DEFINE entry == EntryPage(registration)
  <1>1. entry \in Pages /\ (BackKept => WalkFits(entry, n, 0))
    BY StartTyped, EntryAsksNothing, NoWalk
  <1>2. CASE /\ Creatable(n)
             /\ \E issued \in IF registration.accredited THEN {0, 1} ELSE {0} :
                  Create(n, issued)
             /\ Done(t, entry, n, Snapshot(n)', 0)
             /\ UNCHANGED <<registration, changes, context>>
    <2>1. PICK issued \in {0, 1} : Create(n, issued)
      BY <1>2
    <2>2. BackKept
      BY <1>2, <2>1, CreateKeeps
    <2>3. SeenFits(Snapshot(n)', n)
      BY <2>2, NewFits
    <2> QED
      BY <1>1, <1>2, <2>2, <2>3, DoneKeeps
  <1>3. CASE /\ RedirectTo(t, entry, n, Unseen)
             /\ UNCHANGED <<registration, backend, context, lost>>
    <2>1. BackKept /\ Framed
      BY <1>3, StartTyped, BackSame DEF Framed
    <2> QED
      BY <1>1, <1>3, <2>1, UnseenFits, RedirectKeeps
  <1>4. CASE Error(t) /\ UNCHANGED <<registration, backend, context, lost>>
    <2>1. BackKept /\ Framed
      BY <1>4, StartTyped, BackSame DEF Framed
    <2> QED
      BY <1>4, <2>1, ErrorKeeps
  <1> QED
    BY <1>2, <1>3, <1>4 DEF PostCreate

LEMMA SaveNothingKeeps ==
  ASSUME IInv, NEW t \in Tabs, NEW n \in Submissions, NEW p, SaveNothing(t, p, n)
  PROVE  IInv'
  <1>1. UNCHANGED <<registration, backend, context, lost>> /\ RedirectTo(t, "list", n, Unseen)
    BY DEF SaveNothing
  <1>2. BackKept /\ Framed
    BY <1>1, StartTyped, BackSame DEF Framed
  <1>3. "list" \in Pages
    BY DEF Pages
  <1> QED
    BY <1>1, <1>2, <1>3, UnseenFits, RedirectKeeps

(* An update: the same report, with more figures and a new version.        *)
LEMMA UpdatedKeeps ==
  ASSUME IInv, NEW n \in Submissions, Updatable(n), NEW fields \in SUBSET Fields,
         NEW over \in BOOLEAN, Store(n, Updated(n, fields, over)),
         drafts' = drafts, changes' = changes
  PROVE  /\ BackKept
         /\ report'[n].id = report[n].id
         /\ report'[n].filled = report[n].filled \cup fields
  <1> DEFINE r == Updated(n, fields, over)
             v == IF FreshVersions THEN lastVersion + 1 ELSE report[n].version + 1
  <1>1. /\ lastVersion \in Nat /\ drafts \in Nat /\ changes \in Nat
        /\ report \in [Submissions -> Report] /\ report[n] \in Report
    BY StartTyped
  <1>2. ReportOK(n, report[n], lastVersion, drafts)
    BY DEF IInv, ReportsOK
  <1>3. report[n].status = "in_progress"
    BY DEF Updatable
  <1>5. v \in Nat \ {0} /\ (FreshVersions => v > lastVersion)
    BY <1>1 DEF Report
  <1>4. /\ r \in Report /\ r.id = report[n].id /\ r.version = v
        /\ r.status = report[n].status /\ r.issued = report[n].issued
        /\ r.filled = report[n].filled \cup fields /\ r.resubmit = report[n].resubmit
    <2>1. r = [report[n] EXCEPT !.filled = @ \cup fields, !.over = over, !.edits = @ + 1,
                                !.version = v]
      BY DEF Updated
    <2>2. report[n].edits + 1 \in Nat /\ report[n].filled \cup fields \in SUBSET Fields
      BY <1>1 DEF Report
    <2> HIDE DEF r, v
    <2> QED
      BY <1>1, <1>5, <2>1, <2>2 DEF Report
  <1>6. /\ Store(n, r) /\ report' = [report EXCEPT ![n] = r]
    BY DEF Store
  <1> HIDE DEF r, v
  <1>7. lastVersion' \in Nat /\ lastVersion <= lastVersion' /\ r.version <= lastVersion'
    BY <1>1, <1>4, <1>5, <1>6 DEF Store
  <1>8. ReportOK(n, r, lastVersion', drafts')
    BY <1>2, <1>4, <1>5, <1>7 DEF ReportOK
  <1>9. Keeps(report[n], r, lastVersion, drafts)
    BY <1>4, <1>5 DEF Keeps
  <1>10. PICK k \in 0..MaxSubmission : Reaches(k, report)
    BY DEF IInv, ReportsOK
  <1>11. Reaches(k, [report EXCEPT ![n] = r])
    <2>1. n > k + 1 => report[n].status = "none"
      BY <1>10 DEF Reaches
    <2> QED
      BY <1>1, <1>3, <1>4, <1>10, <2>1, ReachesStill
  <1>12. \E j \in 0..MaxSubmission : Reaches(j, [report EXCEPT ![n] = r])
    BY <1>11
  <1>13. BackKept
    <2>1. Store(n, r) /\ r \in Report
      BY <1>4, <1>6
    <2>2. drafts' \in Nat /\ drafts <= drafts' /\ changes' \in Nat
      BY <1>1
    <2> QED
      BY <1>8, <1>9, <1>12, <2>1, <2>2, BackStores
  <1> QED
    BY <1>1, <1>4, <1>6, <1>13

LEMMA UpdateKeeps ==
  ASSUME IInv, NEW t \in Tabs, NEW n \in Submissions,
         NEW p \in DataPages \cup {"supporting-information"},
         tab[t].page = p, tab[t].n = n, NEW fields \in SUBSET Fields,
         p \in DataPages => FieldOf(p) \in fields,
         NEW over \in BOOLEAN, NEW goes, Update(t, p, n, fields, over, goes)
  PROVE  IInv'
  <1>1. CASE ~Updatable(n) /\ Refused(t, n)
    BY <1>1, RefusedKeeps
  <1>2. CASE Updatable(n) /\ Store(n, Updated(n, fields, over))
             /\ UNCHANGED <<registration, drafts, changes, context>>
    <2> DEFINE next == NextPage(p, registration)
               w == IF tab[t].walk = report[n].id THEN tab[t].walk ELSE 0
    <2>1. /\ BackKept /\ report'[n].id = report[n].id
          /\ report'[n].filled = report[n].filled \cup fields
      BY <1>2, UpdatedKeeps
    <2>2. SeenFits(Snapshot(n)', n) /\ SeenFits(Unseen, n)
      BY <2>1, NewFits, UnseenFits
    <2>3. registration \in Registrations /\ next \in Pages /\ "list" \in Pages
      BY StartTyped, NextIsPage DEF Pages
    <2>4. CASE Done(t, "list", n, Unseen, 0)
      BY <1>2, <2>1, <2>2, <2>3, <2>4, NoWalk, DoneKeeps
    <2>5. CASE Done(t, next, n, Snapshot(n)', w)
      <3>1. /\ WalkOK(tab[t], report[n], drafts, registration)
            /\ PageOK(tab[t], registration) /\ tab[t].walk \in Nat
        BY StartTyped DEF IInv, TabsOK, TabOK, Tab
      <3>2. drafts \in Nat /\ drafts' \in Nat /\ drafts <= drafts'
        BY <2>1, StartTyped DEF BackKept
      <3>3. Before(next, registration) \subseteq Before(p, registration) \cup fields
        <4>1. CASE p \in DataPages
          BY <2>3, <3>1, <4>1, NextAsksOn DEF PageOK
        <4>2. CASE p = "supporting-information"
          BY <4>2, NextOfSupporting
        <4> QED
          BY <4>1, <4>2
      <3>4. WalkFits(next, n, w)
        BY <2>1, <3>1, <3>2, <3>3 DEF WalkFits, WalkOK
      <3> HIDE DEF next, w
      <3> QED
        BY <1>2, <2>1, <2>2, <2>3, <2>5, <3>4, DoneKeeps
    <2> QED
      BY <1>2, <2>4, <2>5 DEF Update, Updatable
  <1> QED
    BY <1>1, <1>2 DEF Update

LEMMA PostDataKeeps ==
  ASSUME IInv, NEW t \in Tabs, NEW n \in Submissions, NEW p \in Pages, NEW goes,
         PostData(t, p, n, goes)
  PROVE  IInv'
  <1> DEFINE fields == IF p \in DataPages THEN {FieldOf(p)} ELSE {}
  <1>1. /\ p \in DataPages \cup {"supporting-information"}
        /\ tab[t].page = p /\ tab[t].n = n
        /\ Update(t, p, n, fields, report[n].over, goes)
    BY DEF PostData, On
  <1>2. fields \in SUBSET Fields /\ (p \in DataPages => FieldOf(p) \in fields)
    BY FieldIsField
  <1>3. report[n].over \in BOOLEAN
    BY StartTyped DEF Report
  <1> HIDE DEF fields
  <1> QED
    BY <1>1, <1>2, <1>3, UpdateKeeps

LEMMA PostFreeKeeps ==
  ASSUME IInv, NEW t \in Tabs, NEW n \in Submissions, NEW p \in Pages,
         NEW value \in {0, 1}, NEW goes \in {"continue", "save"},
         PostFree(t, p, n, value, goes)
  PROVE  IInv'
  <1>1. /\ UNCHANGED backend /\ registration' = registration /\ lost' = lost
        /\ p \in FreePages /\ tab[t].page = p /\ tab[t].n = n
    BY DEF PostFree, On
  <1>2. BackKept
    BY <1>1, BackSame
  <1>3. CASE StaleRedirect(t, n)
    BY <1>1, <1>2, <1>3, StaleKeeps
  <1>4. CASE Error(t) /\ UNCHANGED context
    BY <1>1, <1>2, <1>4, StartTyped, ErrorKeeps DEF Framed
  <1> DEFINE x == [tab[t] EXCEPT !.awaits = "free", !.got = Snapshot(n),
                                 !.value = value, !.goes = goes]
  <1>5. CASE /\ tab' = [tab EXCEPT ![t].awaits = "free", ![t].got = Snapshot(n),
                                   ![t].value = value, ![t].goes = goes]
             /\ UNCHANGED context
    <2>1. tab[t] \in Tab /\ Fits(tab[t]) /\ tab \in [Tabs -> Tab]
      BY <1>2, TabStays, StartTyped
    <2>2. Snapshot(n) \in Snapshots /\ GotOK(Snapshot(n), report'[n], drafts')
      BY <1>1, SameFits DEF SeenFits
    <2>3. Framed
      BY <1>1, <1>5, StartTyped DEF Framed
    <2>4. tab' = [tab EXCEPT ![t] = x]
      BY <1>5, <2>1
    <2> HIDE DEF Snapshot
    <2>5. /\ x \in Tab /\ x.page = p /\ x.n = n /\ x.seen = tab[t].seen
          /\ x.to = tab[t].to /\ x.walk = tab[t].walk /\ x.got = Snapshot(n)
          /\ x.awaits = "free"
      BY <1>1, <2>1, <2>2 DEF Tab, Awaits
    <2> HIDE DEF x
    <2>6. Fits(x)
      BY <1>1, <2>1, <2>2, <2>5 DEF Fits, TabOK, WalkOK, PageOK
    <2> QED
      BY <1>2, <2>3, <2>4, <2>5, <2>6, TabStep
  <1> QED
    BY <1>3, <1>4, <1>5 DEF PostFree

LEMMA SaveFreeKeeps ==
  ASSUME IInv, NEW t \in Tabs, NEW n \in Submissions, SaveFree(t, n)
  PROVE  IInv'
  <1> DEFINE p == tab[t].page
  <1>1. tab[t].awaits = "free" /\ tab[t].n = n
    BY DEF SaveFree
  <1>2. /\ WalkOK(tab[t], report[n], drafts, registration) /\ PageOK(tab[t], registration)
        /\ tab[t].walk \in Nat
    BY <1>1, StartTyped DEF IInv, TabsOK, TabOK, Tab
  <1>3. /\ p \in FreePages /\ p \in DataPages /\ FieldOf(p) = "freeTonnage"
        /\ "freeTonnage" \in Fields /\ Admits(p, registration)
    BY <1>1, <1>2, FreeField DEF PageOK
  <1>4. CASE ~Exceeds(t)
    <2> DEFINE over == tab[t].value > report[n].issued
    <2>1. Update(t, p, n, {"freeTonnage"}, over, tab[t].goes)
      BY <1>4 DEF SaveFree
    <2>2. over \in BOOLEAN
      OBVIOUS
    <2> HIDE DEF over, p
    <2>3. tab[t].page = p /\ {"freeTonnage"} \in SUBSET Fields
      BY <1>3 DEF p
    <2> QED
      BY <1>1, <1>3, <2>1, <2>2, <2>3, UpdateKeeps
  <1>5. CASE Exceeds(t)
    <2>1. UNCHANGED backend /\ registration' = registration /\ lost' = lost
      BY <1>5 DEF SaveFree
    <2>2. BackKept
      BY <2>1, BackSame
    <2>3. Outcome(p, n) \in {"stale", "not-found", "shown"}
      BY <1>3 DEF Outcome, DataPage, IfStatus, DataPages, TonnagePages, FreePages
    <2>4. CASE Outcome(p, n) = "stale"
      BY <1>5, <2>1, <2>2, <2>4, StaleKeeps DEF SaveFree
    <2>5. CASE Outcome(p, n) # "stale"
      <3>1. Framed
        BY <1>5, <2>1, <2>5, StartTyped DEF SaveFree, Framed
      <3>2. CASE Outcome(p, n) = "not-found"
        BY <1>5, <2>2, <3>1, <3>2, ErrorKeeps DEF SaveFree
      <3>3. CASE Outcome(p, n) = "shown"
        <4> DEFINE w == tab[t].walk
        <4>1. Shows(t, p, n, Snapshot(n), w)
          BY <1>5, <3>3 DEF SaveFree
        <4>2. SeenFits(Snapshot(n), n)
          BY <2>1, SameFits
        <4>3. WalkFits(p, n, w)
          BY <1>2, <2>1, StartTyped DEF WalkFits, WalkOK, backend
        <4>4. p \in Pages
          BY <1>3 DEF Pages
        <4> HIDE DEF p, w
        <4> QED
          BY <1>3, <2>2, <3>1, <4>1, <4>2, <4>3, <4>4, ShowsKeeps
      <3> QED
        BY <2>3, <2>5, <3>2, <3>3
    <2> QED
      BY <2>4, <2>5
  <1> QED
    BY <1>4, <1>5

(* A report made ready, or submitted: the same content, a new version; it  *)
(* is the one after those submitted.                                       *)
LEMMA AdvancedKeeps ==
  ASSUME IInv, NEW n \in Submissions, NEW status \in Statuses,
         Follows(report[n].status, status), Store(n, Advanced(n, status)),
         drafts' = drafts, changes' = changes
  PROVE  BackKept
  <1> DEFINE r == Advanced(n, status)
             v == IF FreshVersions THEN lastVersion + 1 ELSE report[n].version + 1
  <1>1. /\ lastVersion \in Nat /\ drafts \in Nat /\ changes \in Nat
        /\ report \in [Submissions -> Report] /\ report[n] \in Report
    BY StartTyped
  <1>2. ReportOK(n, report[n], lastVersion, drafts)
    BY DEF IInv, ReportsOK
  <1>3. /\ report[n].status \in {"in_progress", "ready_to_submit"}
        /\ status \in {"ready_to_submit", "submitted"}
    BY DEF Follows
  <1>4. v \in Nat \ {0} /\ (FreshVersions => v > lastVersion)
    BY <1>1 DEF Report
  <1>5. /\ r \in Report /\ r.id = report[n].id /\ r.version = v
        /\ r.status = status /\ r.issued = report[n].issued
        /\ r.filled = report[n].filled /\ r.resubmit = report[n].resubmit
    <2>1. r = [report[n] EXCEPT !.status = status, !.version = v]
      BY DEF Advanced
    <2> HIDE DEF r, v
    <2> QED
      BY <1>1, <1>4, <2>1 DEF Report
  <1>6. Store(n, r)
    OBVIOUS
  <1> HIDE DEF r, v
  <1>7. lastVersion' \in Nat /\ lastVersion <= lastVersion' /\ r.version <= lastVersion'
    BY <1>1, <1>4, <1>5, <1>6 DEF Store
  <1>8. ReportOK(n, r, lastVersion', drafts')
    BY <1>2, <1>4, <1>5, <1>7 DEF ReportOK
  <1>9. Keeps(report[n], r, lastVersion, drafts)
    BY <1>4, <1>5 DEF Keeps
  <1>10. PICK k \in 0..MaxSubmission : Reaches(k, report)
    BY DEF IInv, ReportsOK
  <1>11. n = k + 1
    <2>1. ~(n <= k) /\ ~(n > k + 1)
      BY <1>3, <1>10 DEF Reaches
    <2> QED
      BY <2>1, NumbersOK
  <1>12. \E j \in 0..MaxSubmission : Reaches(j, [report EXCEPT ![n] = r])
    <2>1. CASE status = "submitted"
      <3>1. k + 1 \in 0..MaxSubmission
        BY <1>11 DEF Submissions
      <3>2. Reaches(k + 1, [report EXCEPT ![n] = r])
        <4>1. ASSUME NEW m \in Submissions
              PROVE  /\ [report EXCEPT ![n] = r][m].status = "submitted" <=> m <= k + 1
                     /\ m > k + 1 + 1 => [report EXCEPT ![n] = r][m].status = "none"
          <5>1. /\ report[m].status = "submitted" <=> m <= k
                /\ m > k + 1 => report[m].status = "none"
            BY <1>10 DEF Reaches
          <5>2. CASE m = n
            BY <1>1, <1>5, <1>11, <2>1, <5>2
          <5>3. CASE m # n
            BY <1>1, <1>11, <5>1, <5>3, NumbersOK
          <5> QED
            BY <5>2, <5>3
        <4> QED
          BY <4>1 DEF Reaches
      <3> QED
        BY <3>1, <3>2
    <2>2. CASE status # "submitted"
      <3>1. r.status = "submitted" <=> report[n].status = "submitted"
        BY <1>3, <1>5, <2>2
      <3>2. ~(n > k + 1)
        BY <1>11
      <3> QED
        BY <1>1, <1>5, <1>10, <3>1, <3>2, ReachesStill
    <2> QED
      BY <2>1, <2>2
  <1> QED
    <2>1. drafts' \in Nat /\ drafts <= drafts' /\ changes' \in Nat
      BY <1>1
    <2> QED
      BY <1>5, <1>6, <1>8, <1>9, <1>12, <2>1, BackStores

LEMMA AdvanceKeeps ==
  ASSUME IInv, NEW t \in Tabs, NEW n \in Submissions, NEW p, NEW status \in Statuses,
         NEW next \in Pages, Advance(t, p, n, status, next)
  PROVE  IInv'
  <1>1. CASE Refused(t, n)
    BY <1>1, RefusedKeeps
  <1>2. CASE /\ Follows(report[n].status, status)
             /\ Store(n, Advanced(n, status))
             /\ Done(t, next, n, Snapshot(n)', 0)
             /\ UNCHANGED <<registration, drafts, changes, context>>
    <2>1. BackKept
      BY <1>2, AdvancedKeeps
    <2>2. SeenFits(Snapshot(n)', n) /\ WalkFits(next, n, 0)
      BY <2>1, NewFits, NoWalk
    <2> QED
      BY <1>2, <2>1, <2>2, DoneKeeps
  <1> QED
    BY <1>1, <1>2 DEF Advance

LEMMA PostCheckKeeps ==
  ASSUME IInv, NEW t \in Tabs, NEW n \in Submissions, PostCheck(t, n) \/ PostSubmit(t, n)
  PROVE  IInv'
  <1>1. {"ready_to_submit", "submitted"} \subseteq Statuses
    BY DEF Statuses
  <1>2. {"created", "submitted"} \subseteq Pages
    BY DEF Pages
  <1> QED
    BY <1>1, <1>2, AdvanceKeeps DEF PostCheck, PostSubmit

LEMMA PostDeleteKeeps ==
  ASSUME IInv, NEW t \in Tabs, NEW n \in Submissions, NEW p, PostDelete(t, p, n)
  PROVE  IInv'
  <1>1. "list" \in Pages
    BY DEF Pages
  <1>2. CASE /\ Draft(n) /\ Store(n, NoReport) /\ Done(t, "list", n, Unseen, 0)
             /\ UNCHANGED <<registration, drafts, changes, context>>
    <2>1. /\ lastVersion \in Nat /\ drafts \in Nat /\ changes \in Nat
          /\ report \in [Submissions -> Report]
      BY StartTyped
    <2>2. lastVersion' \in Nat
      BY <1>2, <2>1 DEF Store, NoReport
    <2>3. NoReport \in Report /\ ReportOK(n, NoReport, lastVersion', drafts')
      BY <1>2, <2>1, <2>2, NoReportOK
    <2>4. Keeps(report[n], NoReport, lastVersion, drafts)
      BY DEF Keeps
    <2>5. PICK k \in 0..MaxSubmission : Reaches(k, report)
      BY DEF IInv, ReportsOK
    <2>6. NoReport.status = "none" /\ report[n].status # "submitted"
      BY <1>2 DEF NoReport, Draft
    <2>7. Reaches(k, [report EXCEPT ![n] = NoReport])
      BY <2>1, <2>3, <2>5, <2>6, ReachesStill
    <2>8. \E j \in 0..MaxSubmission : Reaches(j, [report EXCEPT ![n] = NoReport])
      BY <2>7
    <2>9. drafts' \in Nat /\ drafts <= drafts' /\ changes' \in Nat
      BY <1>2, <2>1
    <2>10. BackKept
      BY <1>2, <2>3, <2>4, <2>8, <2>9, BackStores
    <2> QED
      BY <1>1, <1>2, <2>10, UnseenFits, NoWalk, DoneKeeps
  <1>3. CASE Error(t) /\ UNCHANGED <<registration, backend, context, lost>>
    <2>1. BackKept /\ Framed
      BY <1>3, StartTyped, BackSame DEF Framed
    <2> QED
      BY <1>3, <2>1, ErrorKeeps
  <1> QED
    BY <1>2, <1>3 DEF PostDelete

LEMMA PostMakeChangesKeeps ==
  ASSUME IInv, NEW t \in Tabs, NEW n \in Submissions, PostMakeChanges(t, n)
  PROVE  IInv'
  <1>1. {"detail", "view"} \subseteq Pages
    BY DEF Pages
  <1> DEFINE r == [report[n] EXCEPT !.resubmit = TRUE]
  <1>2. CASE /\ CanRequestResubmission(n) /\ Store(n, r)
             /\ Done(t, "detail", n + 1, Unseen, 0)
             /\ UNCHANGED <<registration, drafts, changes, context>>
    <2>1. /\ lastVersion \in Nat /\ drafts \in Nat /\ changes \in Nat
          /\ report \in [Submissions -> Report] /\ report[n] \in Report
      BY StartTyped
    <2>2. n + 1 \in Submissions
      BY <1>2 DEF CanRequestResubmission
    <2>3. /\ r \in Report /\ r.id = report[n].id /\ r.version = report[n].version
          /\ r.edits = report[n].edits /\ r.status = report[n].status
          /\ r.issued = report[n].issued /\ r.filled = report[n].filled
      BY <2>1 DEF Report
    <2>4. Store(n, r)
      BY <1>2
    <2> HIDE DEF r
    <2>5. ReportOK(n, report[n], lastVersion, drafts)
      BY DEF IInv, ReportsOK
    <2>6. lastVersion' = lastVersion /\ drafts' = drafts
      BY <1>2, <2>1, <2>3, <2>4, <2>5 DEF Store, ReportOK, Report
    <2>7. ReportOK(n, r, lastVersion', drafts')
      BY <2>2, <2>3, <2>5, <2>6 DEF ReportOK
    <2>8. Keeps(report[n], r, lastVersion, drafts)
      BY <2>3 DEF Keeps
    <2>9. PICK k \in 0..MaxSubmission : Reaches(k, report)
      BY DEF IInv, ReportsOK
    <2>10. n > k + 1 => r.status = "none"
      BY <2>3, <2>9 DEF Reaches
    <2>11. Reaches(k, [report EXCEPT ![n] = r])
      BY <2>1, <2>3, <2>9, <2>10, ReachesStill
    <2>12. \E j \in 0..MaxSubmission : Reaches(j, [report EXCEPT ![n] = r])
      BY <2>11
    <2>13. drafts' \in Nat /\ drafts <= drafts' /\ changes' \in Nat
      BY <1>2, <2>1
    <2>14. BackKept
      BY <2>3, <2>4, <2>7, <2>8, <2>12, <2>13, BackStores
    <2>15. SeenFits(Unseen, n + 1) /\ WalkFits("detail", n + 1, 0)
      BY <2>2, <2>14, UnseenFits, NoWalk
    <2> QED
      BY <1>1, <1>2, <2>2, <2>14, <2>15, DoneKeeps
  <1>3. CASE RedirectTo(t, "view", n, Unseen) /\ UNCHANGED <<registration, backend, context, lost>>
    <2>1. BackKept /\ Framed
      BY <1>3, StartTyped, BackSame DEF Framed
    <2> QED
      BY <1>1, <1>3, <2>1, UnseenFits, RedirectKeeps
  <1> QED
    BY <1>2, <1>3 DEF PostMakeChanges

-----------------------------------------------------------------------------
(* The steps of the records, and no step.                                  *)

LEMMA TabsStay ==
  ASSUME IInv, BackKept, Framed, tab' = tab
  PROVE  IInv'
  <1>1. registration \in Registrations /\ tab \in [Tabs -> Tab]
    BY StartTyped
  <1>2. TypeOK'
    BY <1>1 DEF Framed, BackKept, TypeOK, Tab, Contexts
  <1>3. TabsOK'
    BY TabStays DEF TabsOK, Fits, Framed
  <1> QED
    BY <1>2, <1>3 DEF IInv, BackKept

(* What a change of the records leaves of a report.                        *)
LEMMA RecordsKeep ==
  ASSUME IInv, NEW reason \in Reasons, NEW restated, RecordsChange(reason, restated),
         NEW n \in Submissions
  PROVE  /\ report'[n] \in Report
         /\ report'[n].id = report[n].id /\ report'[n].version = report[n].version
         /\ report'[n].edits = report[n].edits /\ report'[n].status = report[n].status
         /\ report'[n].issued = report[n].issued /\ report'[n].filled = report[n].filled
         /\ report'[n].over = report[n].over
         /\ report'[n].resubmit => report[n].resubmit \/ n + 1 \in Submissions
  <1>1. report[n] \in Report
    BY StartTyped
  <1>2. report'[n] = IF Draft(n) THEN [report[n] EXCEPT !.stale = @ \cup {reason}]
                     ELSE IF restated /\ CanRequestResubmission(n)
                          THEN [report[n] EXCEPT !.resubmit = TRUE] ELSE report[n]
    BY DEF RecordsChange
  <1>3. CASE report'[n] = [report[n] EXCEPT !.stale = @ \cup {reason}]
    BY <1>1, <1>3 DEF Report
  <1>4. CASE report'[n] = [report[n] EXCEPT !.resubmit = TRUE] /\ n + 1 \in Submissions
    BY <1>1, <1>4 DEF Report
  <1>5. CASE report'[n] = report[n]
    BY <1>1, <1>5
  <1> QED
    BY <1>2, <1>3, <1>4, <1>5 DEF CanRequestResubmission

LEMMA RecordsChangeKeeps ==
  ASSUME IInv, NEW reason \in Reasons, NEW restated, RecordsChange(reason, restated)
  PROVE  IInv'
  <1>1. /\ UNCHANGED <<registration, lastVersion, drafts, tab, context, lost>>
        /\ changes' = changes + 1
    BY DEF RecordsChange
  <1>2. /\ lastVersion \in Nat /\ drafts \in Nat /\ changes \in Nat /\ lost \in Nat
        /\ context \in Contexts
    BY StartTyped
  <1>3. report' \in [Submissions -> Report]
    <2>1. report' = [n \in Submissions |-> report'[n]]
      BY DEF RecordsChange
    <2> QED
      BY <2>1, RecordsKeep
  <1>4. ASSUME NEW n \in Submissions
        PROVE  ReportOK(n, report'[n], lastVersion', drafts')
    <2>1. ReportOK(n, report[n], lastVersion, drafts)
      BY DEF IInv, ReportsOK
    <2> QED
      BY <1>1, <2>1, RecordsKeep DEF ReportOK
  <1>5. \A n \in Submissions : Keeps(report[n], report'[n], lastVersion, drafts)
    BY RecordsKeep DEF Keeps
  <1>6. PICK k \in 0..MaxSubmission : Reaches(k, report)
    BY DEF IInv, ReportsOK
  <1>7. Reaches(k, report')
    BY <1>6, RecordsKeep DEF Reaches
  <1>8. BackKept
    BY <1>1, <1>2, <1>3, <1>4, <1>5, <1>7 DEF BackKept, ReportsOK
  <1>9. Framed
    BY <1>1, <1>2 DEF Framed
  <1> QED
    BY <1>1, <1>8, <1>9, TabsStay

LEMMA StutterKeeps ==
  ASSUME IInv, UNCHANGED vars
  PROVE  IInv'
  <1>1. UNCHANGED backend /\ UNCHANGED <<registration, tab, context, lost>>
    BY DEF vars
  <1>2. BackKept /\ Framed
    BY <1>1, StartTyped, BackSame DEF Framed
  <1> QED
    BY <1>1, <1>2, TabsStay

-----------------------------------------------------------------------------
(* All steps.                                                              *)

LEMMA InitIInv == Init => IInv
  <1> SUFFICES ASSUME Init PROVE IInv
    OBVIOUS
  <1>1. Unseen \in Snapshots /\ Blank \in Tab
    BY NumbersOK DEF Unseen, Snapshots, Blank, Tab, Pages, Awaits
  <1>2. registration \in Registrations
    BY KindsAssumption DEF Init
  <1>3. report \in [Submissions -> Report]
    BY NoReportOK DEF Init
  <1>4. tab \in [Tabs -> Tab]
    BY <1>1 DEF Init
  <1>5. TypeOK
    BY <1>2, <1>3, <1>4 DEF Init, TypeOK, Tab
  <1>6. ReportsOK
    <2>1. \A n \in Submissions : ReportOK(n, report[n], lastVersion, drafts)
      BY NoReportOK DEF Init
    <2>2. Reaches(0, report)
      BY NumbersOK, SubmissionAssumption DEF Init, Reaches, NoReport, Submissions
    <2> QED
      BY <2>1, <2>2, SubmissionAssumption DEF ReportsOK
  <1>7. ASSUME NEW t \in Tabs
        PROVE  TabOK(tab[t], report[tab[t].n], lastVersion, drafts, registration)
    <2>1. tab[t] = Blank /\ report[tab[t].n] = NoReport /\ lastVersion = 0 /\ drafts = 0
      BY <1>1 DEF Init, Tab
    <2>2. "blank" \notin DataPages
      BY DEF DataPages, TonnagePages, FreePages
    <2>3. SeenOK(Unseen, NoReport, 0, 0) /\ GotOK(Unseen, NoReport, 0)
      BY DEF SeenOK, GotOK, Unseen, NoReport
    <2> QED
      BY <2>1, <2>2, <2>3 DEF Blank, TabOK, WalkOK, PageOK
  <1> QED
    BY <1>5, <1>6, <1>7 DEF IInv, TabsOK

LEMMA NextKeeps == IInv /\ [Next]_vars => IInv'
  <1> SUFFICES ASSUME IInv, [Next]_vars PROVE IInv'
    OBVIOUS
  <1>1. ASSUME NEW t \in Tabs, Get(t)
        PROVE  IInv'
    BY <1>1, GetListKeeps, GetSubmitKeeps, GetStaleKeeps, GetPageKeeps DEF Get
  <1>2. ASSUME NEW t \in Tabs, Wake(t)
        PROVE  IInv'
    BY <1>2, MakeSubmitKeeps, ShowStaleKeeps, SaveFreeKeeps DEF Wake
  <1>3. ASSUME NEW t \in Tabs, Post(t)
        PROVE  IInv'
    BY <1>3, PostCreateKeeps, PostCheckKeeps, PostMakeChangesKeeps, SaveNothingKeeps,
       PostDeleteKeeps, PostDataKeeps, PostFreeKeeps DEF Post
  <1>4. ASSUME NEW reason \in Reasons, NEW restated \in BOOLEAN,
               RecordsChange(reason, restated)
        PROVE  IInv'
    BY <1>4, RecordsChangeKeeps
  <1>5. CASE UNCHANGED vars
    BY <1>5, StutterKeeps
  <1> QED
    BY <1>1, <1>2, <1>3, <1>4, <1>5 DEF Next

LEMMA Invariance == Spec => []IInv
  BY InitIInv, NextKeeps, PTL DEF Spec

-----------------------------------------------------------------------------
(* What each step tells of how a report is advanced, and of its free       *)
(* tonnage.                                                                *)

Reviewed(t, n) ==
  /\ tab[t].page \in {"check-your-answers", "submit"} /\ tab[t].n = n
  /\ tab[t].seen.version = report[n].version

Checked(t, n) ==
  /\ tab[t].awaits = "free" /\ tab[t].n = n
  /\ tab[t].value > report[n].issued /\ ~(tab[t].value > tab[t].got.issued)

Tells(t, n) ==
  /\ report'[n].status \in {report[n].status, "none", "in_progress"} \/ Reviewed(t, n)
  /\ (report'[n].over => report[n].over) \/ Checked(t, n)

LEMMA SameTells ==
  ASSUME NEW t, report' = report
  PROVE  \A n \in Submissions : Tells(t, n)
  BY DEF Tells

LEMMA StoreTells ==
  ASSUME report \in [Submissions -> Report], NEW t, NEW n \in Submissions, NEW r, Store(n, r),
         r.status \in {report[n].status, "none", "in_progress"} \/ Reviewed(t, n),
         (r.over => report[n].over) \/ Checked(t, n)
  PROVE  \A m \in Submissions : Tells(t, m)
  <1> SUFFICES ASSUME NEW m \in Submissions PROVE Tells(t, m)
    OBVIOUS
  <1>1. report' = [report EXCEPT ![n] = r]
    BY DEF Store
  <1>2. CASE m = n
    BY <1>1, <1>2 DEF Tells
  <1>3. CASE m # n
    BY <1>1, <1>3 DEF Tells
  <1> QED
    BY <1>2, <1>3

LEMMA UpdateTells ==
  ASSUME IInv, NEW t \in Tabs, NEW p, NEW n \in Submissions, NEW fields, NEW over, NEW goes,
         Update(t, p, n, fields, over, goes), (over => report[n].over) \/ Checked(t, n)
  PROVE  \A m \in Submissions : Tells(t, m)
  <1>1. CASE Refused(t, n)
    BY <1>1, SameTells DEF Refused, backend
  <1>2. CASE Store(n, Updated(n, fields, over))
    <2> DEFINE r == Updated(n, fields, over)
    <2>1. report \in [Submissions -> Report] /\ report[n] \in Report
      BY StartTyped
    <2>2. r.status = report[n].status /\ r.over = over
      BY <2>1 DEF Updated, Report
    <2> HIDE DEF r
    <2>3. Store(n, r)
      BY <1>2 DEF r
    <2> QED
      BY <2>1, <2>2, <2>3, StoreTells
  <1> QED
    BY <1>1, <1>2 DEF Update

LEMMA AdvanceTells ==
  ASSUME IInv, NEW t \in Tabs, NEW n \in Submissions,
         NEW p \in {"check-your-answers", "submit"}, NEW status, NEW next,
         Advance(t, p, n, status, next)
  PROVE  \A m \in Submissions : Tells(t, m)
  <1>1. CASE Refused(t, n)
    BY <1>1, SameTells DEF Refused, backend
  <1>2. CASE Version(t, n) = report[n].version /\ Store(n, Advanced(n, status))
    <2> DEFINE r == Advanced(n, status)
    <2>1. report \in [Submissions -> Report] /\ report[n] \in Report
      BY StartTyped
    <2>2. r.over = report[n].over
      BY <2>1 DEF Advanced, Report
    <2>3. Reviewed(t, n)
      BY <1>2 DEF Advance, On, Version, Reviewed
    <2> HIDE DEF r
    <2>4. Store(n, r)
      BY <1>2 DEF r
    <2> QED
      BY <2>1, <2>2, <2>3, <2>4, StoreTells
  <1> QED
    BY <1>1, <1>2 DEF Advance

LEMMA PostTells ==
  ASSUME IInv, NEW t \in Tabs, Post(t)
  PROVE  \A m \in Submissions : Tells(t, m)
  <1> DEFINE Goal == \A m \in Submissions : Tells(t, m)
  <1>0. report \in [Submissions -> Report]
    BY StartTyped
  <1>1. ASSUME NEW n \in Submissions, PostCreate(t, n)
        PROVE  Goal
    <2>1. CASE UNCHANGED backend
      BY <2>1, SameTells DEF backend
    <2>2. ASSUME NEW issued, Create(n, issued)
          PROVE  Goal
      <3> DEFINE r == [NoReport EXCEPT !.id = drafts + 1, !.status = "in_progress",
                         !.version = IF FreshVersions THEN lastVersion + 1 ELSE 1,
                         !.issued = issued]
      <3>1. Store(n, r)
        BY <2>2 DEF Create
      <3>2. r.status = "in_progress" /\ r.over = FALSE
        BY DEF NoReport
      <3> HIDE DEF r
      <3> QED
        BY <1>0, <3>1, <3>2, StoreTells
    <2> HIDE DEF Goal
    <2> QED
      BY <1>1, <2>1, <2>2 DEF PostCreate
  <1>2. ASSUME NEW n \in Submissions, PostCheck(t, n) \/ PostSubmit(t, n)
        PROVE  Goal
    BY <1>2, AdvanceTells DEF PostCheck, PostSubmit
  <1>3. ASSUME NEW n \in Submissions, PostMakeChanges(t, n)
        PROVE  Goal
    <2>1. CASE UNCHANGED backend
      BY <2>1, SameTells DEF backend
    <2> DEFINE r == [report[n] EXCEPT !.resubmit = TRUE]
    <2>2. CASE Store(n, r)
      <3>1. r.status = report[n].status /\ r.over = report[n].over
        BY <1>0 DEF Report
      <3> HIDE DEF r
      <3> QED
        BY <1>0, <2>2, <3>1, StoreTells
    <2> QED
      BY <1>3, <2>1, <2>2 DEF PostMakeChanges
  <1>4. ASSUME NEW n \in Submissions, NEW p, SaveNothing(t, p, n)
        PROVE  Goal
    BY <1>4, SameTells DEF SaveNothing, backend
  <1>5. ASSUME NEW n \in Submissions, NEW p, PostDelete(t, p, n)
        PROVE  Goal
    <2>1. CASE UNCHANGED backend
      BY <2>1, SameTells DEF backend
    <2>2. CASE Store(n, NoReport)
      <3>1. NoReport.status = "none" /\ NoReport.over = FALSE
        BY DEF NoReport
      <3> QED
        BY <1>0, <2>2, <3>1, StoreTells
    <2> QED
      BY <1>5, <2>1, <2>2 DEF PostDelete
  <1>6. ASSUME NEW n \in Submissions, NEW p, NEW goes, PostData(t, p, n, goes)
        PROVE  Goal
    BY <1>6, UpdateTells DEF PostData
  <1>7. ASSUME NEW n \in Submissions, NEW p, NEW value, NEW goes, PostFree(t, p, n, value, goes)
        PROVE  Goal
    BY <1>7, SameTells DEF PostFree, backend
  <1> HIDE DEF Goal
  <1>8. Goal
    BY <1>1, <1>2, <1>3, <1>4, <1>5, <1>6, <1>7 DEF Post
  <1> QED
    BY <1>8 DEF Goal

LEMMA OthersTell ==
  ASSUME IInv, NEW t \in Tabs, Get(t) \/ Wake(t)
  PROVE  \A m \in Submissions : Tells(t, m)
  <1>1. CASE UNCHANGED backend
    BY <1>1, SameTells DEF backend
  <1>2. ASSUME NEW n \in Submissions, SaveFree(t, n), ~Exceeds(t)
        PROVE  \A m \in Submissions : Tells(t, m)
    <2> DEFINE over == tab[t].value > report[n].issued
    <2>1. Update(t, tab[t].page, n, {"freeTonnage"}, over, tab[t].goes)
      BY <1>2 DEF SaveFree
    <2>2. (over => report[n].over) \/ Checked(t, n)
      BY <1>2 DEF SaveFree, Checked, Exceeds
    <2> HIDE DEF over
    <2> QED
      BY <2>1, <2>2, UpdateTells
  <1>3. Get(t) => UNCHANGED backend
    BY DEF Get, GetList, GetSubmit, GetStale, GetPage
  <1>4. Wake(t) => UNCHANGED backend \/ \E n \in Submissions : SaveFree(t, n) /\ ~Exceeds(t)
    BY DEF Wake, MakeSubmit, ShowStale, SaveFree
  <1> QED
    BY <1>1, <1>2, <1>3, <1>4

(* So only a tab's step advances a report, or stores too much free tonnage.*)
LEMMA StepTells ==
  ASSUME IInv, [Next]_vars, NEW n \in Submissions,
         \/ report'[n].status \notin {report[n].status, "none", "in_progress"}
         \/ ~report[n].over /\ report'[n].over
  PROVE  \E t \in Tabs : Tells(t, n)
  <1>1. CASE \E t \in Tabs : Get(t) \/ Wake(t) \/ Post(t)
    BY <1>1, PostTells, OthersTell
  <1>2. ASSUME NEW reason \in Reasons, NEW restated \in BOOLEAN,
               RecordsChange(reason, restated)
        PROVE  FALSE
    BY <1>2, RecordsKeep
  <1>3. CASE UNCHANGED vars
    BY <1>3 DEF vars, backend
  <1> QED
    BY <1>1, <1>2, <1>3 DEF Next

(* What the action properties of Reports say of a step.                    *)
AsReviewed ==
  \A n \in Submissions :
    /\ report'[n].status \in {"ready_to_submit", "submitted"}
    /\ report'[n].status # report[n].status
    => \E t \in Tabs :
         /\ tab[t].page \in {"check-your-answers", "submit"} /\ tab[t].n = n
         /\ tab[t].seen.id = report[n].id
         /\ tab[t].seen.edits = report[n].edits

AsChecked ==
  \A n \in Submissions :
    ~report[n].over /\ report'[n].over
      => \E t \in Tabs : tab[t].awaits = "free" /\ tab[t].n = n
                            /\ tab[t].got.id # report[n].id

LEMMA ReviewedStep ==
  ASSUME FreshVersions, IInv, [Next]_vars
  PROVE  AsReviewed
  <1> SUFFICES ASSUME NEW n \in Submissions,
                      report'[n].status \in {"ready_to_submit", "submitted"},
                      report'[n].status # report[n].status
               PROVE  \E t \in Tabs :
                        /\ tab[t].page \in {"check-your-answers", "submit"} /\ tab[t].n = n
                        /\ tab[t].seen.id = report[n].id
                        /\ tab[t].seen.edits = report[n].edits
    BY DEF AsReviewed
  <1>1. PICK t \in Tabs : Tells(t, n)
    BY StepTells
  <1>2. Reviewed(t, n)
    BY <1>1 DEF Tells
  <1>3. SeenOK(tab[t].seen, report[n], lastVersion, drafts)
    BY <1>2 DEF Reviewed, IInv, TabsOK, TabOK
  <1> QED
    BY <1>2, <1>3 DEF Reviewed, SeenOK

LEMMA CheckedStep ==
  ASSUME IInv, [Next]_vars
  PROVE  AsChecked
  <1> SUFFICES ASSUME NEW n \in Submissions, ~report[n].over, report'[n].over
               PROVE  \E t \in Tabs : tab[t].awaits = "free" /\ tab[t].n = n
                                         /\ tab[t].got.id # report[n].id
    BY DEF AsChecked
  <1>1. PICK t \in Tabs : Tells(t, n)
    BY StepTells
  <1>2. Checked(t, n)
    BY <1>1 DEF Tells
  <1>3. GotOK(tab[t].got, report[n], drafts)
    BY <1>2 DEF Checked, IInv, TabsOK, TabOK
  <1>4. tab[t].got.issued # report[n].issued
    BY <1>2 DEF Checked
  <1> QED
    BY <1>2, <1>3, <1>4 DEF Checked, GotOK

LEMMA WalkedHolds == IInv => WalkedIsComplete
  <1> SUFFICES ASSUME IInv, NEW t \in Tabs,
                      tab[t].page = "check-your-answers", tab[t].walk # 0,
                      tab[t].walk = report[tab[t].n].id
               PROVE  Figures(registration) \subseteq report[tab[t].n].filled
    BY DEF WalkedIsComplete
  <1>1. WalkOK(tab[t], report[tab[t].n], drafts, registration)
    BY DEF IInv, TabsOK, TabOK
  <1>2. Before(tab[t].page, registration) = Figures(registration)
    BY DEF Before, FreePages
  <1> QED
    BY <1>1, <1>2 DEF WalkOK

-----------------------------------------------------------------------------
(* Links and redirects.  What a tab shows, and where it is sent, agrees    *)
(* with the answer its page or redirect was made from, whatever becomes of *)
(* the report later; so this part of the invariant is about each tab alone.*)

MadeFrom(p, s) ==
  /\ p \in DataPages \cup {"check-your-answers"} => s.status = "in_progress"
  /\ p = "created"      => s.status = "ready_to_submit"
  /\ p = "submitted"    => s.status = "submitted"
  /\ p = "make-changes" => s.can
  /\ p = "delete"       => s.status = "unseen"

(* Data pages that have a route for the registration, and the two pages    *)
(* after them.                                                             *)
Fills(p, g) ==
  \/ p \in DataPages /\ Admits(p, g)
  \/ p \in {"supporting-information", "check-your-answers"}

LedBy(p, s, g) ==
  \/ p \in {"nowhere", "list"}
  \/ s.status = "unseen" /\ (p \in DataPages => Admits(p, g))
  \/ Fills(p, g) /\ s.status = "in_progress"
  \/ p = "created" /\ s.status = "ready_to_submit"
  \/ p = "submitted" /\ s.status = "submitted"

Settled(x) ==
  /\ x.to # "nowhere" => x.page = "blank"
  /\ x.awaits # "no"  => x.to = "nowhere"
  /\ x.awaits \in {"submit", "stale"} => x.page = "blank"

LinkOK(x, g) == MadeFrom(x.page, x.seen) /\ LedBy(x.to, x.seen, g) /\ Settled(x)

LinksOK == \A t \in Tabs : LinkOK(tab[t], registration)

(* The tables of pages that the controllers hold agree with each other.    *)
LEMMA EntryFills ==
  ASSUME NEW g \in Registrations
  PROVE  EntryPage(g) \in DataPages /\ Admits(EntryPage(g), g)
  <1>1. g.type \in {"reprocessor", "exporter"} /\ g.accredited \in BOOLEAN
    BY DEF Registrations
  <1>2. CASE g.type = "reprocessor"
    <2>1. EntryPage(g) = "tonnes-recycled"
      BY <1>2 DEF EntryPage
    <2> QED
      BY <1>2, <2>1 DEF DataPages, TonnagePages, Admits
  <1>3. CASE g.type = "exporter" /\ g.accredited
    <2>1. EntryPage(g) = "prn-summary"
      BY <1>3 DEF EntryPage
    <2> QED
      BY <1>3, <2>1 DEF DataPages, Admits
  <1>4. CASE g.type = "exporter" /\ ~g.accredited
    <2>1. EntryPage(g) = "tonnes-not-exported"
      BY <1>4 DEF EntryPage
    <2> QED
      BY <1>4, <2>1 DEF DataPages, TonnagePages, Admits
  <1> QED
    BY <1>1, <1>2, <1>3, <1>4

LEMMA NextFills ==
  ASSUME NEW g \in Registrations, NEW p \in DataPages \cup {"supporting-information"},
         p \in DataPages => Admits(p, g)
  PROVE  Fills(NextPage(p, g), g)
  <1>1. g.type \in {"reprocessor", "exporter"} /\ g.accredited \in BOOLEAN
    BY DEF Registrations
  <1>2. p \in {"tonnes-recycled", "tonnes-not-recycled", "tonnes-not-exported",
              "prn-summary", "free-prns", "free-perns", "supporting-information"}
    BY DEF DataPages, TonnagePages, FreePages
  <1>3. CASE p \in {"tonnes-recycled", "tonnes-not-recycled"}
    BY <1>1, <1>3 DEF NextPage, Fills, DataPages, TonnagePages, FreePages, Admits
  <1>4. CASE p = "prn-summary"
    BY <1>1, <1>4 DEF NextPage, Fills, DataPages, TonnagePages, FreePages, Admits
  <1>5. CASE p \in {"tonnes-not-exported", "free-prns", "free-perns", "supporting-information"}
    BY <1>1, <1>5 DEF NextPage, Fills, FreePages
  <1> QED
    BY <1>2, <1>3, <1>4, <1>5

(* A back link of a page of a draft leads to the list or to such a page.   *)
LEMMA BackFills ==
  ASSUME NEW g \in Registrations,
         NEW p \in DataPages \cup {"supporting-information", "check-your-answers"},
         p \in DataPages => Admits(p, g)
  PROVE  BackPage(p, g) = "list" \/ Fills(BackPage(p, g), g)
  <1>1. g.type \in {"reprocessor", "exporter"} /\ g.accredited \in BOOLEAN
    BY DEF Registrations
  <1>2. p \in {"tonnes-recycled", "tonnes-not-recycled", "tonnes-not-exported",
              "prn-summary", "free-prns", "free-perns", "supporting-information",
              "check-your-answers"}
    BY DEF DataPages, TonnagePages, FreePages
  <1>3. CASE p \in {"tonnes-recycled", "tonnes-not-exported"}
    BY <1>3 DEF BackPage, FreePages
  <1>4. CASE p = "tonnes-not-recycled"
    BY <1>1, <1>4 DEF BackPage, Fills, DataPages, TonnagePages, FreePages, Admits
  <1>5. CASE p = "prn-summary"
    BY <1>1, <1>5 DEF BackPage, Fills, DataPages, TonnagePages, FreePages, Admits
  <1>6. CASE p \in {"free-prns", "free-perns"}
    <2>1. BackPage(p, g) = "prn-summary"
      BY <1>6 DEF BackPage, FreePages
    <2>2. Admits(p, g)
      BY <1>6 DEF DataPages, FreePages
    <2>3. g.accredited
      BY <1>6, <2>2 DEF Admits
    <2> QED
      BY <2>1, <2>3 DEF Fills, DataPages, Admits
  <1>7. CASE p = "supporting-information"
    BY <1>1, <1>7 DEF BackPage, Fills, DataPages, TonnagePages, FreePages, Admits
  <1>8. CASE p = "check-your-answers"
    BY <1>8 DEF BackPage, Fills, FreePages
  <1> QED
    BY <1>2, <1>3, <1>4, <1>5, <1>6, <1>7, <1>8

(* Every figure of the check page can be changed where it was asked for.   *)
LEMMA ChangesFill ==
  ASSUME NEW g \in Registrations, NEW p \in ChangePages(g)
  PROVE  Fills(p, g)
  <1>1. g.type \in {"reprocessor", "exporter"} /\ g.accredited \in BOOLEAN
    BY DEF Registrations
  <1>2. CASE p = "supporting-information"
    BY <1>2 DEF Fills
  <1>3. CASE p # "supporting-information"
    <2>1. /\ p \in DataPages /\ FieldOf(p) \in Figures(g)
          /\ p \in FreePages =>
               p = IF g.type = "reprocessor" THEN "free-prns" ELSE "free-perns"
      BY <1>3 DEF ChangePages
    <2>2. p \in {"tonnes-recycled", "tonnes-not-recycled", "tonnes-not-exported",
                "prn-summary", "free-prns", "free-perns"}
      BY <2>1 DEF DataPages, TonnagePages, FreePages
    <2>3. CASE p = "tonnes-recycled"
      BY <1>1, <2>1, <2>3 DEF Figures, FieldOf, FreePages, Admits, Fills
    <2>4. CASE p = "tonnes-not-recycled"
      BY <1>1, <2>1, <2>4 DEF Figures, FieldOf, FreePages, Admits, Fills
    <2>5. CASE p = "tonnes-not-exported"
      BY <1>1, <2>1, <2>5 DEF Figures, FieldOf, FreePages, Admits, Fills
    <2>6. CASE p = "prn-summary"
      BY <1>1, <2>1, <2>6 DEF Figures, FieldOf, FreePages, Admits, Fills
    <2>7. CASE p \in {"free-prns", "free-perns"}
      BY <1>1, <2>1, <2>7 DEF Figures, FieldOf, FreePages, Admits, Fills
    <2> QED
      BY <2>2, <2>3, <2>4, <2>5, <2>6, <2>7
  <1> QED
    BY <1>2, <1>3

(* A step of tab t leaves it with a page, or a redirect, that is as it     *)
(* says, and nearer to the page it was sent to.                            *)
Moves(t) ==
  \E x : /\ tab' = [tab EXCEPT ![t] = x]
         /\ LinkOK(x, registration)
         /\ HopsLeft(tab[t]) > 0 => HopsLeft(x) < HopsLeft(tab[t])

LEMMA HopsAre ==
  ASSUME NEW p
  PROVE  HopsTo(p) \in 0..4 /\ (p = "nowhere" <=> HopsTo(p) = 0)
  BY DEF HopsTo

LEMMA LeadsMoves ==
  ASSUME NEW t, NEW p, NEW n, NEW s, NEW w, Leads(t, p, n, s, w),
         LedBy(p, s, registration),
         HopsLeft(tab[t]) > 0 => HopsTo(p) < HopsLeft(tab[t])
  PROVE  Moves(t)
  <1> DEFINE x == NewTab("blank", n, s, p, w)
  <1>1. tab' = [tab EXCEPT ![t] = x]
    BY LeadsTab
  <1>2. x.page = "blank" /\ x.seen = s /\ x.to = p /\ x.awaits = "no"
    BY DEF NewTab
  <1> HIDE DEF x
  <1>3. LinkOK(x, registration)
    BY <1>2 DEF LinkOK, MadeFrom, Settled, DataPages, TonnagePages, FreePages
  <1>4. HopsLeft(x) = HopsTo(p)
    BY <1>2 DEF HopsLeft
  <1> QED
    BY <1>1, <1>3, <1>4 DEF Moves

LEMMA ShowsMoves ==
  ASSUME NEW t, NEW p, NEW n, NEW s, NEW w, Shows(t, p, n, s, w), MadeFrom(p, s)
  PROVE  Moves(t)
  <1> DEFINE x == NewTab(p, n, s, "nowhere", w)
  <1>1. tab' = [tab EXCEPT ![t] = x]
    BY ShowsTab
  <1>2. x.page = p /\ x.seen = s /\ x.to = "nowhere" /\ x.awaits = "no"
    BY DEF NewTab
  <1> HIDE DEF x
  <1>3. LinkOK(x, registration)
    BY <1>2 DEF LinkOK, LedBy, Settled
  <1>4. HopsLeft(x) = 0
    BY <1>2, HopsAre DEF HopsLeft
  <1> QED
    BY <1>1, <1>3, <1>4 DEF Moves

LEMMA ErrorMoves ==
  ASSUME NEW t, NotFound(t) \/ Error(t)
  PROVE  Moves(t)
  <1>1. \A s : MadeFrom("not-found", s) /\ MadeFrom("error", s)
    BY DEF MadeFrom, DataPages, TonnagePages, FreePages
  <1> QED
    BY <1>1, ShowsMoves DEF NotFound, Error

LEMMA RedirectMoves ==
  ASSUME NEW t, NEW p, NEW n, NEW s, RedirectTo(t, p, n, s),
         LedBy(p, s, registration),
         HopsLeft(tab[t]) > 0 => HopsTo(p) < HopsLeft(tab[t])
  PROVE  Moves(t)
  BY LeadsMoves DEF RedirectTo

(* A redirect made with no answer leads to a page that is no page of a     *)
(* draft, or one the registration has.                                     *)
LEMMA UnseenLeads ==
  ASSUME NEW g
  PROVE  /\ \A p : Admits(p, g) => LedBy(p, Unseen, g)
         /\ LedBy("list", Unseen, g) /\ LedBy("detail", Unseen, g)
         /\ LedBy("view", Unseen, g) /\ LedBy("report-stale-error", Unseen, g)
  BY DEF LedBy, Unseen, DataPages, TonnagePages, FreePages

LEMMA StaleMoves ==
  ASSUME NEW t, NEW n, StaleRedirect(t, n), HopsLeft(tab[t]) > 0 => HopsLeft(tab[t]) > 2
  PROVE  Moves(t)
  <1>1. HopsTo("report-stale-error") = 2
    BY DEF HopsTo
  <1> QED
    BY <1>1, UnseenLeads, RedirectMoves DEF StaleRedirect

(* What a request finds: the browser follows the redirect it has, and a    *)
(* form is sent from a page.                                               *)
LEMMA AskedHops ==
  ASSUME NEW t, NEW p \in Pages, NEW n, Asks(t, p, n)
  PROVE  HopsLeft(tab[t]) \in {0, HopsTo(p)}
  <1>1. tab[t].awaits = "no"
    BY DEF Asks
  <1>2. HopsLeft(tab[t]) = HopsTo(tab[t].to)
    BY <1>1 DEF HopsLeft
  <1>3. CASE tab[t].to = "nowhere"
    BY <1>2, <1>3, HopsAre
  <1>4. CASE tab[t].to # "nowhere"
    <2>1. Links(t) = {<<tab[t].to, tab[t].n>>}
      BY <1>4 DEF Links
    <2>2. <<p, n>> \in Links(t)
      BY <1>4 DEF Asks
    <2>3. p = tab[t].to
      BY <2>1, <2>2
    <2> QED
      BY <1>2, <2>3
  <1> QED
    BY <1>3, <1>4

LEMMA OnHops ==
  ASSUME LinksOK, NEW t \in Tabs, NEW p \in Pages, tab[t].awaits = "no", tab[t].page = p
  PROVE  tab[t].to = "nowhere" /\ HopsLeft(tab[t]) = 0
  <1>1. p # "blank"
    BY DEF Pages, DataPages, TonnagePages, FreePages
  <1>2. tab[t].to = "nowhere"
    BY <1>1 DEF LinksOK, LinkOK, Settled
  <1> QED
    BY <1>2, HopsAre DEF HopsLeft

(* The backend's answer, or the form again.                                *)
LEMMA DoneMoves ==
  ASSUME IInv, LinksOK, NEW t \in Tabs, NEW p, NEW n, NEW s, NEW w, Done(t, p, n, s, w),
         tab[t].to = "nowhere", tab[t].page # "blank", LedBy(p, s, registration),
         HopsLeft(tab[t]) > 0 => HopsTo(p) < HopsLeft(tab[t])
  PROVE  Moves(t)
  <1> DEFINE x == [tab[t] EXCEPT !.got = Unseen, !.awaits = "no", !.value = 0,
                                 !.goes = "save"]
  <1>1. tab[t] \in Tab /\ LinkOK(tab[t], registration)
    BY StartTyped DEF LinksOK
  <1>2. CASE tab' = [tab EXCEPT ![t] = x]
    <2>1. /\ x.page = tab[t].page /\ x.seen = tab[t].seen /\ x.to = tab[t].to
          /\ x.awaits = "no"
      BY <1>1 DEF Tab
    <2> HIDE DEF x
    <2>2. LinkOK(x, registration)
      BY <1>1, <2>1 DEF LinkOK, Settled
    <2>3. HopsLeft(x) = 0
      BY <2>1, HopsAre DEF HopsLeft
    <2> QED
      BY <1>2, <2>2, <2>3 DEF Moves
  <1>3. CASE Leads(t, p, n, s, w)
    BY <1>3, LeadsMoves
  <1>4. tab' = [tab EXCEPT ![t] = x] \/ Leads(t, p, n, s, w)
    BY StartTyped DEF Done
  <1> QED
    BY <1>2, <1>3, <1>4

(* What a page that was shown says of the report it was made from.         *)
LEMMA ShownMadeFrom ==
  ASSUME NEW p \in Pages \ {"delete"}, NEW n, Outcome(p, n) = "shown"
  PROVE  MadeFrom(p, Snapshot(n))
  <1>1. Snapshot(n).status = report[n].status /\ Snapshot(n).can = CanRequestResubmission(n)
    BY DEF Snapshot
  <1>2. \A status, otherwise : otherwise # "shown" /\ IfStatus(n, status, otherwise) = "shown"
                                 => report[n].status = status
    BY DEF IfStatus
  <1>3. CASE p \in DataPages
    <2>1. DataPage(p, n) = "shown"
      BY <1>3 DEF Outcome, DataPages, TonnagePages, FreePages
    <2>2. report[n].status = "in_progress"
      BY <1>2, <2>1 DEF DataPage
    <2> QED
      BY <1>1, <1>3, <2>2 DEF MadeFrom, DataPages, TonnagePages, FreePages
  <1>4. p \notin DataPages =>
          CASE p = "check-your-answers" -> CheckYourAnswers(n) = "shown"
            [] p = "created"            -> Created(n) = "shown"
            [] p = "submitted"          -> Submitted(n) = "shown"
            [] p = "make-changes"       -> MakeChanges(n) = "shown"
            [] OTHER                    -> TRUE
    BY DEF Outcome
  <1>5. CASE p = "check-your-answers"
    BY <1>1, <1>2, <1>4, <1>5 DEF MadeFrom, CheckYourAnswers, DataPages, TonnagePages, FreePages
  <1>6. CASE p = "created"
    BY <1>1, <1>2, <1>4, <1>6 DEF MadeFrom, Created, DataPages, TonnagePages, FreePages
  <1>7. CASE p = "submitted"
    BY <1>1, <1>2, <1>4, <1>7 DEF MadeFrom, Submitted, DataPages, TonnagePages, FreePages
  <1>8. CASE p = "make-changes"
    BY <1>1, <1>4, <1>8 DEF MadeFrom, MakeChanges, DataPages, TonnagePages, FreePages
  <1>9. CASE p \notin DataPages \cup {"check-your-answers", "created", "submitted", "make-changes"}
    BY <1>9 DEF MadeFrom, Pages
  <1> QED
    BY <1>3, <1>5, <1>6, <1>7, <1>8, <1>9

LEMMA PlainMadeFrom ==
  ASSUME NEW p \in Pages \ ReadsReport, NEW s, p # "delete"
  PROVE  MadeFrom(p, s)
  BY DEF MadeFrom, ReadsReport, Pages, DataPages, TonnagePages, FreePages

LEMMA GetMoves ==
  ASSUME NEW t \in Tabs, Get(t)
  PROVE  Moves(t)
  <1>1. CASE GetList(t)
    <2>1. MadeFrom("list", Snapshot(Current))
      BY PlainMadeFrom DEF ReadsReport, Pages
    <2>2. Shows(t, "list", Current, Snapshot(Current), 0)
      BY <1>1 DEF GetList
    <2> HIDE DEF Current, Snapshot
    <2> QED
      BY <2>1, <2>2, ShowsMoves
  <1>2. ASSUME NEW n \in Submissions, NEW p \in Pages, GetPage(t, p, n)
        PROVE  Moves(t)
    <2>1. p \notin {"list", "submit", "report-stale-error"} /\ Asks(t, p, n)
      BY <1>2 DEF GetPage
    <2>2. HopsTo(p) = 3
      BY <2>1 DEF HopsTo, Pages, DataPages, TonnagePages, FreePages
    <2>3. HopsLeft(tab[t]) \in {0, 3}
      BY <2>1, <2>2, AskedHops
    <2>4. Outcome(p, n) \in {"stale", "list", "not-found", "shown"}
      BY <2>1, Outcomes
    <2>5. CASE Outcome(p, n) = "stale"
      BY <1>2, <2>3, <2>5, StaleMoves DEF GetPage
    <2>6. CASE Outcome(p, n) = "list"
      <3>1. RedirectTo(t, "list", n, Snapshot(n))
        BY <1>2, <2>6 DEF GetPage
      <3>2. LedBy("list", Snapshot(n), registration) /\ HopsTo("list") = 1
        BY DEF LedBy, HopsTo
      <3> HIDE DEF Snapshot
      <3> QED
        BY <2>3, <3>1, <3>2, RedirectMoves
    <2>7. CASE Outcome(p, n) = "not-found"
      BY <1>2, <2>7, ErrorMoves DEF GetPage
    <2>8. CASE Outcome(p, n) = "shown" /\ p # "delete"
      <3> DEFINE s == IF p \in ReadsReport THEN Snapshot(n) ELSE Unseen
      <3>1. Shows(t, p, n, s, Walk(t, p, n))
        BY <1>2, <2>8 DEF GetPage
      <3>2. MadeFrom(p, s)
        BY <2>8, ShownMadeFrom, PlainMadeFrom DEF ReadsReport
      <3> HIDE DEF s
      <3> QED
        BY <3>1, <3>2, ShowsMoves
    <2>9. CASE Outcome(p, n) = "shown" /\ p = "delete"
      <3>1. PICK from : tab' = [tab EXCEPT ![t] = [Blank EXCEPT !.page = "delete",
                                                        !.n = n, !.from = from]]
        BY <1>2, <2>9 DEF GetPage, ShowsDelete
      <3> DEFINE x == [Blank EXCEPT !.page = "delete", !.n = n, !.from = from]
      <3>2. x.page = "delete" /\ x.seen = Unseen /\ x.to = "nowhere" /\ x.awaits = "no"
        BY DEF Blank
      <3>3. tab' = [tab EXCEPT ![t] = x]
        BY <3>1
      <3> HIDE DEF x
      <3>4. LinkOK(x, registration)
        BY <3>2 DEF LinkOK, MadeFrom, LedBy, Settled, Unseen, DataPages, TonnagePages, FreePages
      <3>5. HopsLeft(x) = 0
        BY <3>2, HopsAre DEF HopsLeft
      <3> QED
        BY <3>3, <3>4, <3>5 DEF Moves
    <2> QED
      BY <2>4, <2>5, <2>6, <2>7, <2>8, <2>9
  <1>3. ASSUME NEW n \in Submissions, GetSubmit(t, n)
        PROVE  Moves(t)
    <2>1. "submit" \in Pages /\ HopsTo("submit") = 4
      BY DEF Pages, HopsTo
    <2>2. HopsLeft(tab[t]) \in {0, 4}
      BY <1>3, <2>1, AskedHops DEF GetSubmit
    <2>3. Outcome("submit", n) \in {"stale", "submitted", "not-found", "error", "shown"}
      BY SubmitOutcomes
    <2>4. CASE Outcome("submit", n) = "stale"
      BY <1>3, <2>2, <2>4, StaleMoves DEF GetSubmit
    <2>5. CASE Outcome("submit", n) = "submitted"
      <3>1. RedirectTo(t, "submitted", n, Snapshot(n))
        BY <1>3, <2>5 DEF GetSubmit
      <3>2. Outcome("submit", n) \in {"stale", Submit(n)}
        BY DEF Outcome, DataPages, TonnagePages, FreePages
      <3>3. Submit(n) = "submitted"
        BY <2>5, <3>2
      <3>4. report[n].status = "submitted"
        BY <3>3 DEF Submit, Created, IfStatus
      <3>5. LedBy("submitted", Snapshot(n), registration)
        BY <3>4 DEF LedBy, Snapshot
      <3>6. HopsTo("submitted") = 3
        BY DEF HopsTo
      <3> HIDE DEF Snapshot
      <3> QED
        BY <2>2, <3>1, <3>5, <3>6, RedirectMoves
    <2>6. CASE Outcome("submit", n) \in {"not-found", "error"}
      BY <1>3, <2>6, ErrorMoves DEF GetSubmit
    <2>7. CASE Outcome("submit", n) = "shown"
      <3> DEFINE x == [Blank EXCEPT !.n = n, !.awaits = "submit"]
      <3>1. tab' = [tab EXCEPT ![t] = x]
        BY <1>3, <2>7 DEF GetSubmit
      <3>2. x.page = "blank" /\ x.seen = Unseen /\ x.to = "nowhere" /\ x.awaits = "submit"
        BY DEF Blank
      <3> HIDE DEF x
      <3>3. LinkOK(x, registration)
        BY <3>2 DEF LinkOK, MadeFrom, LedBy, Settled, DataPages, TonnagePages, FreePages
      <3>4. HopsLeft(x) = 3
        BY <3>2 DEF HopsLeft
      <3>5. HopsLeft(tab[t]) > 0 => HopsLeft(x) < HopsLeft(tab[t])
        BY <2>2, <3>4
      <3> QED
        BY <3>1, <3>3, <3>5 DEF Moves
    <2> QED
      BY <2>3, <2>4, <2>5, <2>6, <2>7
  <1>4. ASSUME NEW n \in Submissions, GetStale(t, n)
        PROVE  Moves(t)
    <2>1. "report-stale-error" \in Pages /\ HopsTo("report-stale-error") = 2
      BY DEF Pages, HopsTo
    <2>2. HopsLeft(tab[t]) \in {0, 2}
      BY <1>4, <2>1, AskedHops DEF GetStale
    <2>3. CASE RedirectTo(t, "list", n, Unseen)
      <3>1. HopsTo("list") = 1
        BY DEF HopsTo
      <3> QED
        BY <2>2, <2>3, <3>1, UnseenLeads, RedirectMoves
    <2> DEFINE x == [Blank EXCEPT !.n = n, !.awaits = "stale"]
    <2>4. CASE tab' = [tab EXCEPT ![t] = x]
      <3>1. x.page = "blank" /\ x.seen = Unseen /\ x.to = "nowhere" /\ x.awaits = "stale"
        BY DEF Blank
      <3> HIDE DEF x
      <3>2. LinkOK(x, registration)
        BY <3>1 DEF LinkOK, MadeFrom, LedBy, Settled, DataPages, TonnagePages, FreePages
      <3>3. HopsLeft(x) = 1
        BY <3>1 DEF HopsLeft
      <3>4. HopsLeft(tab[t]) > 0 => HopsLeft(x) < HopsLeft(tab[t])
        BY <2>2, <3>3
      <3> QED
        BY <2>4, <3>2, <3>4 DEF Moves
    <2> QED
      BY <1>4, <2>3, <2>4 DEF GetStale
  <1> QED
    BY <1>1, <1>2, <1>3, <1>4 DEF Get

(* An update that is not the last answer leads to a page the draft has.    *)
LEMMA UpdateMoves ==
  ASSUME IInv, LinksOK, NEW t \in Tabs, NEW n \in Submissions,
         NEW p \in DataPages \cup {"supporting-information"},
         tab[t].page = p, tab[t].n = n, NEW fields \in SUBSET Fields,
         NEW over \in BOOLEAN, NEW goes,
         tab[t].to = "nowhere", HopsLeft(tab[t]) \in {0, 4},
         Update(t, p, n, fields, over, goes)
  PROVE  Moves(t)
  <1>1. CASE Refused(t, n)
    BY <1>1, StaleMoves, ErrorMoves DEF Refused
  <1>2. CASE Updatable(n) /\ Store(n, Updated(n, fields, over))
    <2> DEFINE next == NextPage(p, registration)
               w == IF tab[t].walk = report[n].id THEN tab[t].walk ELSE 0
    <2>1. registration \in Registrations /\ p # "blank"
      BY StartTyped DEF DataPages, TonnagePages, FreePages
    <2>2. CASE Done(t, "list", n, Unseen, 0)
      <3>1. HopsTo("list") = 1
        BY DEF HopsTo
      <3> QED
        BY <2>1, <2>2, <3>1, UnseenLeads, DoneMoves
    <2>3. CASE Done(t, next, n, Snapshot(n)', w)
      <3>1. PageOK(tab[t], registration)
        BY DEF IInv, TabsOK, TabOK
      <3>2. Fills(next, registration)
        BY <2>1, <3>1, NextFills DEF PageOK
      <3>3. report'[n].status = "in_progress"
        <4>1. report \in [Submissions -> Report] /\ report[n] \in Report
          BY StartTyped
        <4>2. Updated(n, fields, over).status = report[n].status
          BY <4>1 DEF Updated, Report
        <4>3. report'[n] = Updated(n, fields, over)
          BY <1>2, <4>1 DEF Store
        <4> QED
          BY <1>2, <4>2, <4>3 DEF Updatable
      <3>4. Snapshot(n)'.status = report'[n].status
        BY DEF Snapshot
      <3>5. LedBy(next, Snapshot(n)', registration)
        BY <3>2, <3>3, <3>4 DEF LedBy
      <3>6. HopsTo(next) = 3
        BY <3>2 DEF HopsTo, Fills, DataPages, TonnagePages, FreePages
      <3> HIDE DEF next, w
      <3> QED
        BY <2>1, <2>3, <3>5, <3>6, DoneMoves
    <2> QED
      BY <1>2, <2>2, <2>3 DEF Update, Updatable
  <1> QED
    BY <1>1, <1>2 DEF Update

LEMMA WakeMoves ==
  ASSUME IInv, LinksOK, NEW t \in Tabs, Wake(t)
  PROVE  Moves(t)
  <1>1. CASE MakeSubmit(t)
    <2> DEFINE n == tab[t].n
    <2>1. HopsLeft(tab[t]) \in {0, 3}
      <3>1. CASE tab[t].awaits = "submit"
        BY <3>1 DEF HopsLeft
      <3>2. CASE tab[t].awaits = "no" /\ tab[t].page = "submit"
        <4>1. "submit" \in Pages
          BY DEF Pages
        <4> QED
          BY <3>2, <4>1, OnHops
      <3> QED
        BY <1>1, <3>1, <3>2 DEF MakeSubmit
    <2>2. \A s : MadeFrom("submit", s)
      BY DEF MadeFrom, DataPages, TonnagePages, FreePages
    <2>3. StaleRedirect(t, n) \/ Shows(t, "submit", n, Snapshot(n), 0) \/ Error(t)
      BY <1>1 DEF MakeSubmit
    <2> HIDE DEF n, Snapshot
    <2> QED
      BY <2>1, <2>2, <2>3, StaleMoves, ShowsMoves, ErrorMoves
  <1>2. CASE ShowStale(t)
    <2>1. \A s : MadeFrom("report-stale-error", s)
      BY DEF MadeFrom, DataPages, TonnagePages, FreePages
    <2> QED
      BY <1>2, <2>1, ShowsMoves DEF ShowStale
  <1>3. ASSUME NEW n \in Submissions, SaveFree(t, n)
        PROVE  Moves(t)
    <2> DEFINE p == tab[t].page
    <2>1. tab[t].awaits = "free" /\ tab[t].n = n
      BY <1>3 DEF SaveFree
    <2>2. tab[t].to = "nowhere" /\ HopsLeft(tab[t]) = 4
      BY <2>1 DEF LinksOK, LinkOK, Settled, HopsLeft
    <2>3. PageOK(tab[t], registration)
      BY DEF IInv, TabsOK, TabOK
    <2>4. p \in DataPages /\ p \in Pages /\ {"freeTonnage"} \in SUBSET Fields
      BY <2>1, <2>3, FreeField DEF PageOK, Pages
    <2>5. CASE ~Exceeds(t)
      <3> DEFINE over == tab[t].value > report[n].issued
      <3>1. Update(t, p, n, {"freeTonnage"}, over, tab[t].goes) /\ over \in BOOLEAN
        BY <1>3, <2>5 DEF SaveFree
      <3> HIDE DEF over
      <3> QED
        BY <2>1, <2>2, <2>4, <3>1, UpdateMoves
    <2>6. CASE Exceeds(t)
      <3>1. Outcome(p, n) \in {"stale", "not-found", "shown"}
        BY <2>4 DEF Outcome, DataPage, IfStatus, DataPages, TonnagePages, FreePages
      <3>2. CASE Outcome(p, n) = "stale"
        BY <1>3, <2>2, <2>6, <3>2, StaleMoves DEF SaveFree
      <3>3. CASE Outcome(p, n) = "not-found"
        BY <1>3, <2>6, <3>3, ErrorMoves DEF SaveFree
      <3>4. CASE Outcome(p, n) = "shown"
        <4>1. Shows(t, p, n, Snapshot(n), tab[t].walk)
          BY <1>3, <2>6, <3>4 DEF SaveFree
        <4>2. MadeFrom(p, Snapshot(n))
          BY <2>4, <3>4, ShownMadeFrom DEF DataPages, TonnagePages, FreePages
        <4> HIDE DEF p, Snapshot
        <4> QED
          BY <4>1, <4>2, ShowsMoves
      <3> QED
        BY <3>1, <3>2, <3>3, <3>4
    <2> QED
      BY <2>5, <2>6
  <1> QED
    BY <1>1, <1>2, <1>3 DEF Wake

LEMMA AdvanceMoves ==
  ASSUME IInv, LinksOK, NEW t \in Tabs, NEW n \in Submissions, NEW p \in Pages,
         NEW status, NEW next, <<status, next>> \in
           {<<"ready_to_submit", "created">>, <<"submitted", "submitted">>},
         Advance(t, p, n, status, next)
  PROVE  Moves(t)
  <1>1. HopsLeft(tab[t]) = 0 /\ tab[t].to = "nowhere" /\ tab[t].page # "blank"
    BY OnHops DEF Advance, On, Pages, DataPages, TonnagePages, FreePages
  <1>2. CASE Refused(t, n)
    BY <1>1, <1>2, StaleMoves, ErrorMoves DEF Refused
  <1>3. CASE Store(n, Advanced(n, status)) /\ Done(t, next, n, Snapshot(n)', 0)
    <2>1. report \in [Submissions -> Report] /\ report[n] \in Report
      BY StartTyped
    <2>2. Advanced(n, status).status = status
      BY <2>1 DEF Advanced, Report
    <2>3. report'[n] = Advanced(n, status)
      BY <1>3, <2>1 DEF Store
    <2>4. Snapshot(n)'.status = status
      BY <2>2, <2>3 DEF Snapshot
    <2>5. LedBy(next, Snapshot(n)', registration)
      BY <2>4 DEF LedBy
    <2> QED
      BY <1>1, <1>3, <2>5, DoneMoves
  <1> QED
    BY <1>2, <1>3 DEF Advance

LEMMA PostMoves ==
  ASSUME IInv, LinksOK, NEW t \in Tabs, Post(t)
  PROVE  Moves(t)
  <1>0. ASSUME NEW n, NEW p \in Pages, On(t, p, n)
        PROVE  HopsLeft(tab[t]) = 0 /\ tab[t].to = "nowhere" /\ tab[t].page # "blank"
    BY <1>0, OnHops DEF On, Pages, DataPages, TonnagePages, FreePages
  <1>1. ASSUME NEW n \in Submissions, PostCreate(t, n)
        PROVE  Moves(t)
    <2> DEFINE entry == EntryPage(registration)
    <2>1. HopsLeft(tab[t]) = 0 /\ tab[t].to = "nowhere" /\ tab[t].page # "blank"
      BY <1>0, <1>1 DEF PostCreate, Pages
    <2>2. entry \in DataPages /\ Admits(entry, registration)
      BY StartTyped, EntryFills
    <2>3. ASSUME NEW issued, Create(n, issued), Done(t, entry, n, Snapshot(n)', 0)
          PROVE  Moves(t)
      <3>1. report'[n].status = "in_progress"
        BY <2>3, StartTyped DEF Create, Store, NoReport
      <3>2. Snapshot(n)'.status = report'[n].status
        BY DEF Snapshot
      <3>3. LedBy(entry, Snapshot(n)', registration)
        BY <2>2, <3>1, <3>2 DEF LedBy, Fills
      <3> HIDE DEF entry
      <3> QED
        BY <2>1, <2>3, <3>3, DoneMoves
    <2>4. CASE RedirectTo(t, entry, n, Unseen)
      BY <2>1, <2>2, <2>4, UnseenLeads, RedirectMoves
    <2>5. CASE Error(t)
      BY <2>5, ErrorMoves
    <2> QED
      BY <1>1, <2>3, <2>4, <2>5 DEF PostCreate
  <1>2. ASSUME NEW n \in Submissions, PostCheck(t, n)
        PROVE  Moves(t)
    <2>1. "check-your-answers" \in Pages
      BY DEF Pages
    <2> QED
      BY <1>2, <2>1, AdvanceMoves DEF PostCheck
  <1>3. ASSUME NEW n \in Submissions, PostSubmit(t, n)
        PROVE  Moves(t)
    <2>1. "submit" \in Pages
      BY DEF Pages
    <2> QED
      BY <1>3, <2>1, AdvanceMoves DEF PostSubmit
  <1>4. ASSUME NEW n \in Submissions, PostMakeChanges(t, n)
        PROVE  Moves(t)
    <2>1. HopsLeft(tab[t]) = 0 /\ tab[t].to = "nowhere" /\ tab[t].page # "blank"
      BY <1>0, <1>4 DEF PostMakeChanges, Pages
    <2>2. CASE Done(t, "detail", n + 1, Unseen, 0)
      BY <2>1, <2>2, UnseenLeads, DoneMoves
    <2>3. CASE RedirectTo(t, "view", n, Unseen)
      BY <2>1, <2>3, UnseenLeads, RedirectMoves
    <2> QED
      BY <1>4, <2>2, <2>3 DEF PostMakeChanges
  <1>5. ASSUME NEW n \in Submissions, NEW p \in Pages, SaveNothing(t, p, n)
        PROVE  Moves(t)
    <2>1. HopsLeft(tab[t]) = 0
      BY <1>0, <1>5 DEF SaveNothing
    <2> QED
      BY <1>5, <2>1, UnseenLeads, RedirectMoves DEF SaveNothing
  <1>6. ASSUME NEW n \in Submissions, NEW p \in Pages, PostDelete(t, p, n)
        PROVE  Moves(t)
    <2>1. HopsLeft(tab[t]) = 0 /\ tab[t].to = "nowhere" /\ tab[t].page # "blank"
      BY <1>0, <1>6 DEF PostDelete
    <2>2. CASE Done(t, "list", n, Unseen, 0)
      BY <2>1, <2>2, UnseenLeads, DoneMoves
    <2> QED
      BY <1>6, <2>2, ErrorMoves DEF PostDelete
  <1>7. ASSUME NEW n \in Submissions, NEW p \in Pages, NEW goes, PostData(t, p, n, goes)
        PROVE  Moves(t)
    <2> DEFINE fields == IF p \in DataPages THEN {FieldOf(p)} ELSE {}
    <2>1. /\ p \in DataPages \cup {"supporting-information"}
          /\ tab[t].page = p /\ tab[t].n = n
          /\ Update(t, p, n, fields, report[n].over, goes)
      BY <1>7 DEF PostData, On
    <2>2. HopsLeft(tab[t]) = 0 /\ tab[t].to = "nowhere"
      BY <1>0, <1>7 DEF PostData
    <2>3. fields \in SUBSET Fields /\ report[n].over \in BOOLEAN
      BY FieldIsField, StartTyped DEF Report
    <2> HIDE DEF fields
    <2> QED
      BY <2>1, <2>2, <2>3, UpdateMoves
  <1>8. ASSUME NEW n \in Submissions, NEW p \in Pages, NEW value, NEW goes,
               PostFree(t, p, n, value, goes)
        PROVE  Moves(t)
    <2>1. HopsLeft(tab[t]) = 0 /\ tab[t].to = "nowhere"
      BY <1>0, <1>8 DEF PostFree
    <2>2. CASE StaleRedirect(t, n)
      BY <2>1, <2>2, StaleMoves
    <2>3. CASE Error(t)
      BY <2>3, ErrorMoves
    <2> DEFINE x == [tab[t] EXCEPT !.awaits = "free", !.got = Snapshot(n),
                                   !.value = value, !.goes = goes]
    <2>4. CASE tab' = [tab EXCEPT ![t].awaits = "free", ![t].got = Snapshot(n),
                                  ![t].value = value, ![t].goes = goes]
      <3>1. tab[t] \in Tab /\ tab \in [Tabs -> Tab] /\ LinkOK(tab[t], registration)
        BY StartTyped DEF LinksOK
      <3>2. tab' = [tab EXCEPT ![t] = x]
        BY <2>4, <3>1
      <3> HIDE DEF Snapshot
      <3>3. /\ x.page = tab[t].page /\ x.seen = tab[t].seen /\ x.to = tab[t].to
            /\ x.awaits = "free"
        BY <3>1 DEF Tab
      <3> HIDE DEF x
      <3>4. LinkOK(x, registration)
        BY <2>1, <3>1, <3>3 DEF LinkOK, Settled
      <3>5. ~(HopsLeft(tab[t]) > 0)
        BY <2>1
      <3> QED
        BY <3>2, <3>4, <3>5 DEF Moves
    <2> QED
      BY <1>8, <2>2, <2>3, <2>4 DEF PostFree
  <1> QED
    BY <1>1, <1>2, <1>3, <1>4, <1>5, <1>6, <1>7, <1>8 DEF Post

(* What RedirectsDescend says of a step.                                   *)
Descends ==
  \A t \in Tabs :
    HopsLeft(tab[t]) > 0 /\ tab'[t] # tab[t] => HopsLeft(tab'[t]) < HopsLeft(tab[t])

LEMMA LinksStep ==
  ASSUME IInv, LinksOK, [Next]_vars
  PROVE  LinksOK' /\ Descends
  <1>1. ASSUME NEW t \in Tabs, Get(t) \/ Wake(t) \/ Post(t)
        PROVE  LinksOK' /\ Descends
    <2>1. PICK x : /\ tab' = [tab EXCEPT ![t] = x]
                   /\ LinkOK(x, registration)
                   /\ HopsLeft(tab[t]) > 0 => HopsLeft(x) < HopsLeft(tab[t])
      BY <1>1, GetMoves, WakeMoves, PostMoves DEF Moves
    <2>2. tab \in [Tabs -> Tab]
      BY StartTyped
    <2>3. tab'[t] = x /\ \A u \in Tabs : u # t => tab'[u] = tab[u]
      BY <2>1, <2>2
    <2>4. registration' = registration
      <3>1. Get(t) => registration' = registration
        BY DEF Get, GetList, GetSubmit, GetStale, GetPage
      <3>2. Wake(t) => registration' = registration
        BY DEF Wake, MakeSubmit, ShowStale, SaveFree, Update, Refused
      <3>3. Post(t) => registration' = registration
        BY DEF Post, PostCreate, PostCheck, PostSubmit, Advance, PostMakeChanges, SaveNothing,
               PostDelete, PostData, PostFree, Update, Refused
      <3> QED
        BY <1>1, <3>1, <3>2, <3>3
    <2>5. \A u \in Tabs : LinkOK(tab'[u], registration)
      BY <2>1, <2>3 DEF LinksOK
    <2>6. LinksOK'
      BY <2>4, <2>5 DEF LinksOK
    <2> QED
      BY <2>1, <2>3, <2>6 DEF Descends
  <1>2. CASE UNCHANGED <<registration, tab>>
    BY <1>2 DEF LinksOK, Descends
  <1>3. ASSUME NEW reason, NEW restated, RecordsChange(reason, restated)
        PROVE  UNCHANGED <<registration, tab>>
    BY <1>3 DEF RecordsChange
  <1> QED
    BY <1>1, <1>2, <1>3 DEF Next, vars

LEMMA InitLinks == Init => LinksOK
  <1>1. LinkOK(Blank, registration)
    BY DEF LinkOK, MadeFrom, LedBy, Settled, Blank, DataPages, TonnagePages, FreePages
  <1> QED
    BY <1>1 DEF Init, LinksOK

LEMMA LinksInvariance == Spec => [](IInv /\ LinksOK)
  <1>1. LinksOK /\ IInv /\ [Next]_vars => LinksOK'
    BY LinksStep
  <1> QED
    BY <1>1, InitLinks, Invariance, PTL DEF Spec

(* A page of a draft answers, and so do the pages of a report that is in   *)
(* the state they are about.                                               *)
Answers(p, n) == Outcome(p, n) \notin {"not-found", "error"}

LEMMA FillsAnswers ==
  ASSUME NEW n, NEW p, Fills(p, registration), report[n].status = "in_progress"
  PROVE  Answers(p, n)
  <1>1. CASE p \in DataPages /\ Admits(p, registration)
    BY <1>1 DEF Answers, Outcome, DataPage, IfStatus, DataPages, TonnagePages, FreePages
  <1>2. CASE p \in {"supporting-information", "check-your-answers"}
    BY <1>2 DEF Answers, Outcome, CheckYourAnswers, IfStatus, DataPages, TonnagePages, FreePages
  <1> QED
    BY <1>1, <1>2 DEF Fills

LEMMA OthersAnswer ==
  ASSUME NEW n
  PROVE  /\ Answers("list", n) /\ Answers("delete", n) /\ Answers("detail", n)
         /\ report[n].status = "ready_to_submit" =>
              Answers("created", n) /\ Answers("submit", n) /\ Answers("view", n)
         /\ report[n].status = "submitted" => Answers("submitted", n) /\ Answers("view", n)
         /\ CanRequestResubmission(n) => Answers("make-changes", n)
         /\ n > 1 => Answers("resubmission-explainer", n)
  <1> USE DEF Answers, Outcome, DataPages, TonnagePages, FreePages
  <1>1. Answers("list", n) /\ Answers("delete", n)
    OBVIOUS
  <1>2. Answers("detail", n)
    BY DEF Detail
  <1>3. report[n].status = "ready_to_submit" => Answers("created", n)
    BY DEF Created, IfStatus
  <1>4. report[n].status = "ready_to_submit" => Answers("submit", n)
    BY DEF Submit, Created, IfStatus, Made
  <1>5. report[n].status \in {"ready_to_submit", "submitted"} => Answers("view", n)
    BY DEF View, IfStatus
  <1>6. report[n].status = "submitted" => Answers("submitted", n)
    BY DEF Submitted, IfStatus
  <1>7. CanRequestResubmission(n) => Answers("make-changes", n)
    BY DEF MakeChanges
  <1>8. n > 1 => Answers("resubmission-explainer", n)
    BY DEF Explainer
  <1> HIDE DEF Answers, Outcome, DataPages, TonnagePages, FreePages
  <1> QED
    BY <1>1, <1>2, <1>3, <1>4, <1>5, <1>6, <1>7, <1>8

(* Where the row of a period leads.                                        *)
LEMMA RowAnswers ==
  ASSUME IInv, NEW n \in Submissions
  PROVE  Answers(RowPage(n, report[n].status, registration), n)
  <1>1. report[n].status \in Statuses /\ registration \in Registrations
    BY StartTyped DEF Report
  <1>2. CASE report[n].status = "none"
    <2>1. n = 1 \/ n > 1
      BY DEF Submissions
    <2> QED
      BY <1>2, <2>1, OthersAnswer DEF RowPage
  <1>3. CASE report[n].status = "in_progress"
    BY <1>1, <1>3, EntryFills, FillsAnswers DEF RowPage, Fills
  <1>4. CASE report[n].status = "ready_to_submit"
    BY <1>4, OthersAnswer DEF RowPage
  <1>5. CASE report[n].status = "submitted"
    BY <1>5, OthersAnswer DEF RowPage
  <1> QED
    BY <1>1, <1>2, <1>3, <1>4, <1>5 DEF Statuses

LEMMA LinksFollow == IInv /\ LinksOK => LinksHold
  <1> SUFFICES ASSUME IInv, LinksOK, NEW t \in Tabs,
                      tab[t].awaits = "no", Shown(tab[t].seen) = Shown(Snapshot(tab[t].n)),
                      \/ tab[t].page # "supporting-information"
                      \/ tab[t].seen.status = "in_progress",
                      NEW link \in Links(t)
               PROVE  Answers(link[1], link[2])
    BY DEF LinksHold, Answers
  <1> DEFINE g == registration
             p == tab[t].page
             n == tab[t].n
             s == tab[t].seen
             r == report[n]
             inner == IF p = "delete" THEN tab[t].from ELSE BackPage(p, g)
             others ==
               CASE p = "list"                   -> {RowPage(n, s.status, g)}
                 [] p = "resubmission-explainer" -> {"detail"}
                 [] p \in DataPages \cup {"supporting-information"} -> {"delete", p}
                 [] p = "check-your-answers"     -> ChangePages(g) \cup {"delete"}
                 [] p = "submit"                 -> {"delete"}
                 [] p \in {"created", "submitted"} -> {"view"}
                 [] p = "view" /\ s.can          -> {"make-changes"}
                 [] OTHER -> {}
  <1>1. /\ n \in Submissions /\ r \in Report /\ r.status \in Statuses /\ g \in Registrations
        /\ LinkOK(tab[t], g) /\ PageOK(tab[t], g)
    BY StartTyped DEF LinksOK, Report, IInv, TabsOK, TabOK
  <1>2. s.status = r.status /\ s.can = CanRequestResubmission(n)
    BY DEF Shown, Snapshot
  <1>3. s.status # "unseen"
    BY <1>1, <1>2 DEF Statuses
  <1>4. CASE tab[t].to # "nowhere"
    <2>1. link = <<tab[t].to, n>>
      BY <1>4 DEF Links
    <2>2. LedBy(tab[t].to, s, g)
      BY <1>1 DEF LinkOK
    <2>3. Answers(tab[t].to, n)
      BY <1>2, <1>3, <1>4, <2>2, FillsAnswers, OthersAnswer DEF LedBy
    <2> QED
      BY <2>1, <2>3
  <1>5. CASE tab[t].to = "nowhere" /\ p \notin Pages
    <2>1. link = <<"list", n>>
      BY <1>5 DEF Links
    <2> QED
      BY <2>1, OthersAnswer
  <1>6. CASE tab[t].to = "nowhere" /\ p \in Pages
    <2>1. Links(t) = {<<q, n>> : q \in {inner} \cup others}
      BY <1>6 DEF Links
    <2>2. PICK q \in {inner} \cup others : link = <<q, n>>
      BY <2>1
    <2>3. SUFFICES Answers(q, n)
      BY <2>2
    <2>4. MadeFrom(p, s) /\ (p \in DataPages => Admits(p, g))
      BY <1>1 DEF LinkOK, PageOK
    <2> HIDE DEF inner, others
    <2>5. CASE p \in DataPages \cup {"supporting-information"}
      <3>1. r.status = "in_progress"
        BY <1>2, <2>4, <2>5 DEF MadeFrom
      <3>2. Fills(p, g) /\ (BackPage(p, g) = "list" \/ Fills(BackPage(p, g), g))
        BY <1>1, <2>4, <2>5, BackFills DEF Fills
      <3>3. inner = BackPage(p, g) /\ others = {"delete", p}
        BY <2>5 DEF inner, others, DataPages, TonnagePages, FreePages
      <3> QED
        BY <3>1, <3>2, <3>3, FillsAnswers, OthersAnswer
    <2>6. CASE p = "check-your-answers"
      <3>1. r.status = "in_progress"
        BY <1>2, <2>4, <2>6 DEF MadeFrom
      <3>2. BackPage(p, g) = "list" \/ Fills(BackPage(p, g), g)
        BY <1>1, <2>4, <2>6, BackFills
      <3>3. inner = BackPage(p, g) /\ others = ChangePages(g) \cup {"delete"}
        BY <2>6 DEF inner, others, DataPages, TonnagePages, FreePages
      <3> QED
        BY <1>1, <3>1, <3>2, <3>3, ChangesFill, FillsAnswers, OthersAnswer
    <2>7. CASE p = "list"
      <3>1. inner = "list" /\ others = {RowPage(n, r.status, g)}
        BY <1>2, <2>7 DEF inner, others, BackPage, DataPages, TonnagePages, FreePages
      <3> QED
        BY <1>1, <3>1, RowAnswers, OthersAnswer
    <2>8. CASE p = "resubmission-explainer"
      <3>1. inner = "list" /\ others = {"detail"}
        BY <2>8 DEF inner, others, BackPage, DataPages, TonnagePages, FreePages
      <3> QED
        BY <3>1, OthersAnswer
    <2>9. CASE p = "submit"
      <3>1. inner = "list" /\ others = {"delete"}
        BY <2>9 DEF inner, others, BackPage, DataPages, TonnagePages, FreePages
      <3> QED
        BY <3>1, OthersAnswer
    <2>10. CASE p \in {"created", "submitted"}
      <3>1. inner = "list" /\ others = {"view"}
        BY <2>10 DEF inner, others, BackPage, DataPages, TonnagePages, FreePages
      <3>2. r.status \in {"ready_to_submit", "submitted"}
        BY <1>2, <2>4, <2>10 DEF MadeFrom
      <3> QED
        BY <3>1, <3>2, OthersAnswer
    <2>11. CASE p = "view"
      <3>1. inner = "list" /\ others = IF s.can THEN {"make-changes"} ELSE {}
        BY <2>11 DEF inner, others, BackPage, DataPages, TonnagePages, FreePages
      <3> QED
        BY <1>2, <3>1, OthersAnswer
    <2>12. CASE p = "make-changes"
      <3>1. inner = "view" /\ others = {}
        BY <2>12 DEF inner, others, BackPage, DataPages, TonnagePages, FreePages
      <3>2. CanRequestResubmission(n)
        BY <1>2, <2>4, <2>12 DEF MadeFrom
      <3>3. r.status = "submitted"
        BY <3>2 DEF CanRequestResubmission
      <3> QED
        BY <3>1, <3>3, OthersAnswer
    <2>13. CASE p \in {"detail", "report-stale-error"}
      <3>1. inner = "list" /\ others = {}
        BY <2>13 DEF inner, others, BackPage, DataPages, TonnagePages, FreePages
      <3> QED
        BY <3>1, OthersAnswer
    <2>14. p # "delete"
      BY <1>3, <2>4 DEF MadeFrom
    <2> QED
      BY <1>6, <2>5, <2>6, <2>7, <2>8, <2>9, <2>10, <2>11, <2>12, <2>13, <2>14 DEF Pages
  <1> QED
    BY <1>4, <1>5, <1>6

(* A tab that is sent to a page of a draft is sent to one the registration *)
(* has, whatever answer it goes by, if any.                                *)
LEMMA DraftFollows == IInv /\ LinksOK => DraftIsFound
  <1> SUFFICES ASSUME LinksOK, NEW t \in Tabs, tab[t].to \in DataPages,
                      report[tab[t].n].status = "in_progress"
               PROVE  Outcome(tab[t].to, tab[t].n) \in {"shown", "stale"}
    BY DEF DraftIsFound
  <1>1. LedBy(tab[t].to, tab[t].seen, registration)
    BY DEF LinksOK, LinkOK
  <1>2. Admits(tab[t].to, registration)
    BY <1>1 DEF LedBy, Fills, DataPages, TonnagePages, FreePages
  <1> QED
    BY <1>2 DEF Outcome, DataPage, IfStatus, DataPages, TonnagePages, FreePages

-----------------------------------------------------------------------------
(* The theorems.                                                           *)

(* Every redirect leads to a page of the service, the list shows a         *)
(* submission of the period, and all state has its type.                   *)
THEOREM TypeCorrect == Spec => []TypeOK
  <1>1. IInv => TypeOK
    BY DEF IInv
  <1> QED
    BY <1>1, Invariance, PTL

(* Whoever comes to the check page of a draft by Continue only, from where *)
(* it is taken up, finds every figure it shows filled in.                  *)
THEOREM WalkedAlwaysComplete == Spec => []WalkedIsComplete
  BY WalkedHolds, Invariance, PTL

(* A report becomes ready to submit, and submitted, only by a tab whose    *)
(* page showed what it now holds, if no report gets a version that an      *)
(* earlier one had.                                                        *)
THEOREM AlwaysAdvancedAsReviewed ==
  ASSUME FreshVersions
  PROVE  Spec => AdvancedAsReviewed
  <1>1. IInv /\ [Next]_vars => [AsReviewed]_vars
    BY ReviewedStep
  <1> QED
    BY <1>1, Invariance, PTL DEF Spec, AdvancedAsReviewed, AsReviewed

(* Free tonnage above the issued tonnage is stored only if the report was  *)
(* replaced between the handler's check and its update.                    *)
THEOREM FreeAlwaysChecked == Spec => FreeIsChecked
  <1>1. IInv /\ [Next]_vars => [AsChecked]_vars
    BY CheckedStep
  <1> QED
    BY <1>1, Invariance, PTL DEF Spec, FreeIsChecked, AsChecked

(* Every link and redirect made from an answer of the backend leads to a   *)
(* page that is found, unless the report has changed since, for every kind *)
(* of registration: the pages, the list, the back links and the guards,    *)
(* each written in a controller of its own, agree.                         *)
THEOREM LinksAlwaysHold == Spec => []LinksHold
  BY LinksInvariance, LinksFollow, PTL

(* Whoever is sent to a page of a draft finds it while the report is in    *)
(* progress, the second to create a report included (createController).    *)
THEOREM DraftsAreFound == Spec => []DraftIsFound
  BY LinksInvariance, DraftFollows, PTL

(* Whatever other tabs do, each answer brings the browser nearer to a page *)
(* it can show, and after four at most it has one: redirects never go in a *)
(* circle.                                                                 *)
THEOREM RedirectsAlwaysDescend == Spec => RedirectsDescend
  <1>1. (IInv /\ LinksOK) /\ [Next]_vars => [Descends]_vars
    BY LinksStep
  <1> QED
    BY <1>1, LinksInvariance, PTL DEF Spec, RedirectsDescend, Descends
=============================================================================
