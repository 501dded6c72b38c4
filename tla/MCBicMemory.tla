----------------------------- MODULE MCBicMemory -----------------------------
(* TLC instances of BicMemory.                                             *)
EXTENDS BicMemory, TLC

CONSTANTS s1, s2, first, again, lexicon

TwoSessions == {s1, s2}
TwoOps == {first, again}
OneImport == {lexicon}
\* The opening and the ending of a chapter share a verse.
ThreeScopes == {"chapter", "opening", "ending"}
ThreeVerses == {"start", "shared", "end"}
Reading == {"chapter"} \X ThreeVerses \cup {"opening"} \X {"start", "shared"}
           \cup {"ending"} \X {"shared", "end"}
Task(scope, ref, newScope, newRef, inTurn, most, kills) ==
    [scopeOf |-> [o \in TwoOps |-> IF o = first THEN scope ELSE newScope],
     refOf |-> [o \in TwoOps |-> IF o = first THEN ref ELSE newRef],
     turn |-> inTurn, commands |-> most, deaths |-> kills]
SessionsAlike == Permutations(TwoSessions)
EverySetting == {Task("chapter", "shared", "chapter", "shared", TRUE, 5, 1),
                 Task("chapter", "shared", "chapter", "shared", FALSE, 3, 0),
                 Task("opening", "start", "ending", "shared", TRUE, 3, 1)}
=============================================================================
