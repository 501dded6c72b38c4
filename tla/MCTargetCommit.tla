--------------------------- MODULE MCTargetCommit ---------------------------
(* Instances of TargetCommit for TLC: two tasks rewrite one scope one after  *)
(* the other, a third has a scope of its own, a fourth commits nothing.      *)
EXTENDS TargetCommit

CONSTANTS first, again, other, failing, opening, closing

FourTasks == {first, again, other, failing}
TwoScopes == {opening, closing}
Assigned == [t \in Tasks |-> IF t = other THEN closing ELSE opening]
NoVersePassed == {failing}

\* Commands one after the other, two of them killed; and commands of several
\* sessions that overlap.
InTurn == [tasks |-> FourTasks, concurrent |-> FALSE, crashes |-> 2, reverts |-> 2]
Overlapping == [tasks |-> {first, again, other}, concurrent |-> TRUE, crashes |-> 0, reverts |-> 1]
OverlappingKilled == [Overlapping EXCEPT !.tasks = {first, again}, !.crashes = 1]
EverySetting == {InTurn, Overlapping, OverlappingKilled}
TwoSubmissions == {[tasks |-> {first, other}, concurrent |-> TRUE, crashes |-> 0, reverts |-> 0]}
============================================================================
