----------------------------- MODULE MCReports -----------------------------
(* Instances of Reports for TLC.                                           *)
EXTENDS Reports, TLC

Kind(type, accredited) == [type |-> type, accredited |-> accredited]

(* One figure: the tabs have the most ways to overlap.                     *)
OneFigure == {Kind("exporter", FALSE)}

(* All figures, free tonnages and pages.                                   *)
AnyKind == Registrations

AnyTab == Permutations(Tabs)
=============================================================================
