-------------------------- MODULE MCWorkspaceLock --------------------------
(* Instances of WorkspaceLock for TLC: which process uses which discipline. *)
EXTENDS WorkspaceLock

CONSTANTS p1, p2, p3, p4, p5

Procs3 == {p1, p2, p3}
Procs5 == {p1, p2, p3, p4, p5}

OneHost == [p \in Proc |-> "here"]
TwoHosts == [p \in Proc |-> IF p = p4 THEN "there" ELSE "here"]

\* The lock of an NCA execution: a restart p1 (nca.py:198), two executions p2
\* and p3 (nca.py:525), and the unguarded owners of tests/numbers/test_replay.py:776,
\* one on another host.
PlainAndNca == [p \in Proc |-> IF p \in {p2, p3} THEN "nca" ELSE "plain"]
RestartAndExecute == [p \in Proc |-> IF p = p1 THEN "restart" ELSE "execute"]
AllStale == [p \in Proc |-> "stale"]
OneOperation == [p \in Proc |-> "continue"]
=============================================================================
