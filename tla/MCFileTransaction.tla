------------------------- MODULE MCFileTransaction -------------------------
(* Instances of FileTransaction for TLC. *)
EXTENDS FileTransaction

CONSTANTS new, old, other

\* Every operation writes "new"; a target holds "old", already "new", or is
\* absent, and an outside edit may also leave "other".
TwoContents == {new, old}
ThreeContents == {new, old, other}
AllNew == [i \in 1 .. N |-> new]
=============================================================================
