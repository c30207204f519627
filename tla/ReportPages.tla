---------------------------- MODULE ReportPages ----------------------------
(***************************************************************************)
(* The pages of a report and the order a registration goes through them.   *)
(* The order is not written in one place: every controller names its next  *)
(* page, its back link and whom it admits, the list names the page a row   *)
(* leads to, and the check page names the figures it shows.                *)
(***************************************************************************)

(* The registration of the signed-in operator.  An accredited one reports  *)
(* monthly, any other quarterly: the code compares the two before it       *)
(* creates a report, so the cadence follows from the accreditation.        *)
Registrations == [type: {"reprocessor", "exporter"}, accredited: BOOLEAN]

TonnagePages == {"tonnes-recycled", "tonnes-not-recycled", "tonnes-not-exported"}
FreePages    == {"free-prns", "free-perns"}
DataPages    == TonnagePages \cup {"prn-summary"} \cup FreePages

Pages == DataPages \cup
  {"list", "detail", "resubmission-explainer", "supporting-information",
   "check-your-answers", "created", "submit", "submitted", "view",
   "make-changes", "delete", "report-stale-error"}

Statuses == {"none", "in_progress", "ready_to_submit", "submitted"}

(* The figure a data page asks for.                                        *)
FieldOf(page) ==
  CASE page = "tonnes-recycled"     -> "tonnageRecycled"
    [] page = "tonnes-not-recycled" -> "tonnageNotRecycled"
    [] page = "tonnes-not-exported" -> "tonnageNotExported"
    [] page = "prn-summary"         -> "prnRevenue"
    [] page \in FreePages           -> "freeTonnage"

Fields == {FieldOf(page) : page \in DataPages}

(* Whom a data page admits: the guard of its subtree, and the options      *)
(* accreditedOnly and registeredOnly of the page.                          *)
Admits(page, g) ==
  CASE page \in {"tonnes-recycled", "tonnes-not-recycled"} -> g.type = "reprocessor"
    [] page = "tonnes-not-exported" -> g.type = "exporter" /\ ~g.accredited
    [] page = "prn-summary" -> g.accredited
    [] page = "free-prns"   -> g.type = "reprocessor" /\ g.accredited
    [] page = "free-perns"  -> g.type = "exporter" /\ g.accredited

(* A slip: every exporter begins with what was not exported.               *)
EntryByType(g) ==
  IF g.type = "reprocessor" THEN "tonnes-recycled" ELSE "tonnes-not-exported"

(* Where a report in progress is taken up.                                 *)
EntryPage(g) ==
  CASE g.type = "exporter" /\ g.accredited  -> "prn-summary"
    [] g.type = "reprocessor"               -> "tonnes-recycled"
    [] g.type = "exporter" /\ ~g.accredited -> "tonnes-not-exported"

(* Slips the properties of Reports must notice: free tonnage is never      *)
(* asked for; a page that has no route; a back link to a page of the other *)
(* type.                                                                   *)
NextSkippingFree(page, g) ==
  CASE page = "tonnes-recycled" -> "tonnes-not-recycled"
    [] page = "tonnes-not-recycled" ->
         IF g.accredited THEN "prn-summary" ELSE "supporting-information"
    [] page \in {"tonnes-not-exported", "prn-summary"} \cup FreePages
         -> "supporting-information"
    [] page = "supporting-information" -> "check-your-answers"

NextUnrouted(page, g) ==
  CASE page = "prn-summary" -> "supporting-info"
    [] OTHER -> NextSkippingFree(page, g)

BackCrossing(page, g) ==
  CASE page = "tonnes-not-recycled" -> "tonnes-recycled"
    [] page = "prn-summary" -> "tonnes-not-recycled"
    [] page \in FreePages -> "prn-summary"
    [] OTHER -> "list"

(* Where Continue leads.                                                   *)
NextPage(page, g) ==
  CASE page = "tonnes-recycled" -> "tonnes-not-recycled"
    [] page = "tonnes-not-recycled" ->
         IF g.accredited THEN "prn-summary" ELSE "supporting-information"
    [] page = "prn-summary" ->
         IF g.type = "reprocessor" THEN "free-prns" ELSE "free-perns"
    [] page \in {"tonnes-not-exported"} \cup FreePages -> "supporting-information"
    [] page = "supporting-information" -> "check-your-answers"

(* Where the back link leads.                                              *)
BackPage(page, g) ==
  CASE page = "tonnes-not-recycled" -> "tonnes-recycled"
    [] page = "prn-summary" ->
         IF g.type = "reprocessor" THEN "tonnes-not-recycled" ELSE "list"
    [] page \in FreePages -> "prn-summary"
    [] page = "supporting-information" ->
         IF g.type = "reprocessor"
         THEN IF g.accredited THEN "free-prns" ELSE "tonnes-not-recycled"
         ELSE IF g.accredited THEN "free-perns" ELSE "tonnes-not-exported"
    [] page = "check-your-answers" -> "supporting-information"
    [] page = "make-changes" -> "view"
    [] OTHER -> "list"

(* The figures the check page shows, each with a link to change it.        *)
Figures(g) ==
  (IF g.type = "reprocessor" THEN {"tonnageRecycled", "tonnageNotRecycled"} ELSE {})
    \cup (IF g.type = "exporter" /\ ~g.accredited THEN {"tonnageNotExported"} ELSE {})
    \cup (IF g.accredited THEN {"prnRevenue", "freeTonnage"} ELSE {})

ChangePages(g) ==
  {page \in DataPages : FieldOf(page) \in Figures(g) /\
     (page \in FreePages =>
        page = IF g.type = "reprocessor" THEN "free-prns" ELSE "free-perns")}
    \cup {"supporting-information"}

(* Where the row of a period leads, from its submission number and the     *)
(* status of its report; without a report a first submission is due, a     *)
(* later one requires resubmission.                                        *)
RowPage(n, status, g) ==
  CASE status = "none"            -> IF n = 1 THEN "detail" ELSE "resubmission-explainer"
    [] status = "in_progress"     -> EntryPage(g)
    [] status = "ready_to_submit" -> "submit"
    [] status = "submitted"       -> "view"
=============================================================================
