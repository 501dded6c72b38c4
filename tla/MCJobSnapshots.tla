--------------------------- MODULE MCJobSnapshots ---------------------------
(* TLC instances of JobSnapshots: three imports of a Project of two books on   *)
(* two days.                                                                   *)
EXTENDS JobSnapshots

CONSTANTS s1, s2, gen, exo

TwoSessions == {s1, s2}
TwoBooks == {gen, exo}
ThreeImports == <<1, 1, 2>>
\* Commands in turn with a death, and with two errors; sessions that overlap.
InTurn == [tool |-> "rtc", turns |-> TRUE, byHand |-> TRUE,
           deaths |-> 1, errors |-> 1, runs |-> 2]
Errors == [tool |-> "nca", turns |-> TRUE, byHand |-> TRUE,
           deaths |-> 0, errors |-> 2, runs |-> 2]
Overlap == [tool |-> "nca", turns |-> FALSE, byHand |-> FALSE,
            deaths |-> 0, errors |-> 0, runs |-> 2]
OverlapRtc == [Overlap EXCEPT !.tool = "rtc", !.runs = 1]
EverySetting == {InTurn, Errors, Overlap, OverlapRtc}
=============================================================================
