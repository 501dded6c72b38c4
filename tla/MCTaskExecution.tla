--------------------------- MODULE MCTaskExecution ---------------------------
(* TLC instances of TaskExecution.                                         *)
EXTENDS TaskExecution

CONSTANTS s1, s2

TwoSessions == {s1, s2}
TwoCodes == {"VALIDATION_ERROR", "LLM_TASK_READ_MISSING"}
\* A Run driven from the menu, under its lock: with kills, with surroundings that
\* change, with other units sealed beside it; and the two kinds of task on which
\* processes do meet, within smaller bounds.
Bounds(kind, driver, execs_, crashes_, changes_, commands_, elsewhere_) ==
    [kind |-> kind, driver |-> driver, execs |-> execs_, crashes |-> crashes_,
     changes |-> changes_, commands |-> commands_, elsewhere |-> elsewhere_]
Killed == Bounds("analysis", "menu", 5, 2, 0, 0, 0)
Disturbed == Bounds("analysis", "menu", 4, 1, 2, 0, 0)
Beside == Bounds("analysis", "menu", 4, 1, 0, 0, 2)
Commands == Bounds("analysis", "commands", 2, 1, 0, 2, 0)
Bic == Bounds("bic", "menu", 2, 1, 0, 0, 0)
EveryCase == {Killed, Disturbed, Beside, Commands, Bic}
NoneOrTwo == {0, 2}
=============================================================================
