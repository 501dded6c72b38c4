---------------------------- MODULE MCNcaEvidence ----------------------------
(* TLC instances of NcaEvidence.                                           *)
EXTENDS NcaEvidence

ThreeInputs == 1 .. 3
\* Batches whose executions die, without a submission; nothing to extract; a pair
\* submitted by command or from the menu.
OneBatch == [batches |-> <<{1, 2, 3}>>, retries |-> 0, backoffs |-> 0, execs |-> 2,
             fatals |-> 0, deaths |-> 1, submits |-> 0, menu |-> FALSE]
TwoBatches == [batches |-> <<{1, 2}, {3}>>, retries |-> 1, backoffs |-> 1, execs |-> 2,
               fatals |-> 0, deaths |-> 1, submits |-> 0, menu |-> FALSE]
NoBatch == [batches |-> <<>>, retries |-> 0, backoffs |-> 0, execs |-> 2,
            fatals |-> 0, deaths |-> 1, submits |-> 1, menu |-> FALSE]
Commands == [batches |-> <<{1, 2}>>, retries |-> 0, backoffs |-> 0, execs |-> 2,
             fatals |-> 0, deaths |-> 1, submits |-> 2, menu |-> FALSE]
Menu == [batches |-> <<{1, 2}>>, retries |-> 0, backoffs |-> 0, execs |-> 2,
         fatals |-> 1, deaths |-> 2, submits |-> 0, menu |-> TRUE]
EveryPlan == {OneBatch, TwoBatches, NoBatch, Commands, Menu}
=============================================================================
