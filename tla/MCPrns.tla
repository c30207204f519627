------------------------------- MODULE MCPrns -------------------------------
(* Instances of Prns for TLC.                                              *)
EXTENDS Prns, TLC

(* The tabs of one browser, or of several.                                 *)
AnyHomes == [Tabs -> Browsers]
OneHome  == {h \in AnyHomes : \A s, t \in Tabs : h[s] = h[t]}

AnyTab == Permutations(Tabs)
AnyTabOrBrowser == Permutations(Tabs) \cup Permutations(Browsers)
=============================================================================
