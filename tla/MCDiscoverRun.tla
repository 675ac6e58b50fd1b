--------------------------- MODULE MCDiscoverRun ---------------------------
(* Small instances of DiscoverRun for TLC. *)
EXTENDS DiscoverRun

\* two establishment files and one complement
ThreeFiles == <<"ESTABLISHMENTS", "ESTABLISHMENTS", "COMPANIES">>
OneRowEach == <<1, 1, 0>>

\* a full run and a second one of the same scope
FullAndPreview == [j \in Jobs |-> IF j = "full" THEN "FULL" ELSE "PREVIEW"]

\* "full" may take more than there is, or reach its limit before its second file
\* is opened; the other is cut at one row
LimitChoices == [j \in Jobs |-> IF j = "full" THEN {1, 3} ELSE {1}]

\* "full" takes more than there is
WideLimits == [j \in Jobs |-> IF j = "full" THEN {3} ELSE {1}]
============================================================================
