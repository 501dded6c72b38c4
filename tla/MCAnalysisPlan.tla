--------------------------- MODULE MCAnalysisPlan ---------------------------
EXTENDS AnalysisPlan

Verses == 1 .. 4

Plan(operation, units, leftOut, structural, drift) ==
    [operation |-> operation, units |-> units, leftOut |-> leftOut,
     structural |-> structural, drift |-> drift]

(* Two units with a chapter left out, with and without structural          *)
(* candidates and drift adjudication; one unit with nothing left out; and  *)
(* the same scopes for STC, also one unit with a chapter left out.         *)
SeveralPlans ==
    {Plan("rtc", <<{1, 2}, {3}>>, {4}, structural, drift) :
        structural \in {{}, {2}, {2, 3}}, drift \in BOOLEAN}
    \cup {Plan("rtc", <<{1, 2}>>, {}, structural, TRUE) : structural \in {{}, {1, 2}}}
    \cup {Plan("stc", units, leftOut, {}, FALSE) :
             units \in {<<{1, 2}>>, <<{1}, {2}, {3}>>}, leftOut \in {{}, {4}}}
=============================================================================
