---------------------------- MODULE MCSummaryLog ----------------------------
(* Instances of SummaryLog for TLC.                                        *)
EXTENDS SummaryLog

(* All tabs in one browser, or each in one of its own, with numbers for    *)
(* tabs and browsers.                                                      *)
SomeHomes == {[t \in Tabs |-> 1], [t \in Tabs |-> t]}
=============================================================================
