-------------------------- MODULE MCSqsEvaluation --------------------------
(* Instances of SqsEvaluation for TLC: the further capabilities stand for    *)
(* further evaluation packs.                                                 *)
EXTENDS SqsEvaluation

CONSTANTS w1, w2, grammar, rewrite, structure

TwoWorkers == {w1, w2}
ThreeCapabilities == {grammar, rewrite, structure}

\* Two workers meet submissions, their review and a change of the model; the
\* same with workers that are killed; and requests, ordinary and forced.
Submitted ==
    [workers |-> TwoWorkers, runs |-> {<<grammar, 0>>}, fingerprints |-> 2, kills |-> FALSE,
     faults |-> TRUE, withdrawals |-> TRUE, submissions |-> TRUE]
Killed == [Submitted EXCEPT !.kills = TRUE, !.fingerprints = 1]
Forced ==
    [Killed EXCEPT !.runs = {<<grammar, 0>>, <<grammar, 1>>}, !.withdrawals = FALSE,
                   !.submissions = FALSE]

\* One worker and three capabilities, with withdrawals.
Planned ==
    [workers |-> {w1}, runs |-> ThreeCapabilities \X {0}, fingerprints |-> 2, kills |-> FALSE,
     faults |-> TRUE, withdrawals |-> TRUE, submissions |-> FALSE]

EveryScope == {Submitted, Killed, Forced, Planned}
============================================================================
