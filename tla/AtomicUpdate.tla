---------------------------- MODULE AtomicUpdate ----------------------------
(***************************************************************************)
(* What a file transaction promises (sage/transactions.py:29-36), without  *)
(* journal, backups or processes: several targets are replaced together or *)
(* left as they were.  Files cannot be replaced at one instant, so targets *)
(* move one by one while the outcome is pending; the outcome is decided    *)
(* only when they agree.  Others may edit a target at any time; "raced"    *)
(* are the targets they edited between a look and the act relying on it,   *)
(* "edits" counts the edits, so that no step of SAGE passes for one.       *)
(***************************************************************************)
EXTENDS Naturals

CONSTANTS Target,   \* the files
          Value,    \* what a file may hold, absence included
          Payload   \* the new content of each

VARIABLES file, orig, edited, raced, edits, outcome

avars == <<file, orig, edited, raced, edits, outcome>>

AtomicInit ==
  /\ file \in [Target -> Value]
  /\ orig = file
  /\ edited = {} /\ raced = {} /\ edits = 0
  /\ outcome = "pending"

\* A target is replaced only where it holds what the transaction started from ...
Apply(i) ==
  /\ outcome = "pending"
  /\ file[i] = orig[i] \/ i \in raced
  /\ file' = [file EXCEPT ![i] = Payload[i]]
  /\ UNCHANGED <<orig, edited, raced, edits, outcome>>

\* ... and restored only where it holds the payload.
Revert(i) ==
  /\ outcome = "pending"
  /\ file[i] = Payload[i] \/ i \in raced
  /\ file' = [file EXCEPT ![i] = orig[i]]
  /\ UNCHANGED <<orig, edited, raced, edits, outcome>>

Commit ==
  /\ outcome = "pending"
  /\ \A i \in Target \ edited : file[i] = Payload[i]
  /\ outcome' = "committed"
  /\ UNCHANGED <<file, orig, edited, raced, edits>>

Abort ==
  /\ outcome = "pending"
  /\ \A i \in Target \ edited : file[i] = orig[i]
  /\ outcome' = "rolled back"
  /\ UNCHANGED <<file, orig, edited, raced, edits>>

\* Somebody else edits a target; before the transaction has looked at it the
\* edit is simply what the transaction starts from.
Edit(i) ==
  /\ \E v \in Value : file' = [file EXCEPT ![i] = v]
  /\ \/ edited' = edited \cup {i} /\ UNCHANGED orig
     \/ orig' = [orig EXCEPT ![i] = file'[i]] /\ UNCHANGED edited
  /\ raced' \in {raced, raced \cup {i}}
  /\ edits' = edits + 1
  /\ UNCHANGED outcome

AtomicNext ==
  \/ Commit \/ Abort
  \/ \E i \in Target : Apply(i) \/ Revert(i) \/ Edit(i)

Spec == AtomicInit /\ [][AtomicNext]_avars
=============================================================================
