----------------------- MODULE FileTransactionProofs -----------------------
(***************************************************************************)
(* For any number of operations, any contents, and any number of crashes,  *)
(* I/O errors and outside edits: when recovery runs only after the writer  *)
(* is gone, a file transaction is all or nothing, loses no original, keeps *)
(* outside edits it could notice, and implements AtomicUpdate.             *)
(***************************************************************************)
EXTENDS FileTransaction, TLAPS

Stopped == {"done", "aborted", "failed", "dead"}
Forward == {"copy", "record", "prepare", "commit", "check", "replace", "log", "finish"}

\* Who may be running in which state of the journal.
Turns ==
  /\ rpc # "idle" => WriterGone
  /\ journal.state \in Final => rpc = "idle" /\ wpc \in Stopped
  /\ wpc \in {"new", "mkjournal"} => journal.state = "NONE"

\* How far the writer's statuses have come at each of its control points.
Progress ==
  /\ wpc \in {"new", "mkjournal"} => wi = 1 /\ \A i \in Op : mem.status[i] = "NONE"
  /\ wpc \in {"copy", "record", "prepare"} => mem.state = "OPEN"
  /\ wpc \in {"check", "replace", "log", "finish", "undo", "restore", "undone"} =>
       mem.state = "COMMITTING"
  /\ wpc \in {"copy", "record"} => \A i \in Op : mem.status[i] # "NONE" <=> i < wi
  /\ wpc \in WriterControl \ ({"new", "mkjournal", "copy", "record"} \cup Stopped) =>
       \A i \in Op : mem.status[i] # "NONE"
  /\ wpc \in {"check", "replace"} => \A i \in Op : i < wi => mem.status[i] = "COMMITTED"
  /\ wpc = "log" => \A i \in Op : i <= wi => mem.status[i] = "COMMITTED"
  /\ wpc = "finish" => \A i \in Op : mem.status[i] = "COMMITTED"
  /\ wpc \in {"copy", "record", "prepare", "commit"} =>
       \A i \in Op : mem.status[i] # "COMMITTED"

\* The three copies of the journal list the same operations.
SameOperations ==
  \A i \in Op :
    /\ journal.status[i] = "NONE" <=> mem.status[i] = "NONE"
    /\ rpc # "idle" => (rec.status[i] = "NONE" <=> mem.status[i] = "NONE")

\* What a journal records as the state before is what the target held.
BeforeRecorded(j) ==
  \A i \in Op : j.status[i] # "NONE" =>
    /\ j.before[i] = Absent <=> orig[i] = Absent
    /\ i \notin raced => j.before[i] = orig[i]

Before3 ==
  /\ BeforeRecorded(mem)
  /\ BeforeRecorded(journal)
  /\ rpc # "idle" => BeforeRecorded(rec)

\* Targets and backups, per operation.
TargetState ==
  \A i \in Op :
    /\ Copied(i) => backup[i] \in {orig[i], Absent}
    /\ wpc \in Forward /\ Copied(i) => backup[i] = orig[i]
    /\ ~Copied(i) /\ ~WriterGone => theirs[i] = NoEdit
    /\ ~Copied(i) /\ theirs[i] # NoEdit => i \in raced
    /\ ~Copied(i) /\ theirs[i] = NoEdit => file[i] = orig[i]
    /\ theirs[i] = NoEdit =>
         /\ i \notin raced
         /\ file[i] \in {orig[i], Payload[i]}
         /\ file[i] = orig[i] \/ orig[i] = Absent \/ backup[i] = orig[i]
         /\ wpc \in {"check", "replace", "log", "finish"} /\ mem.status[i] = "COMMITTED"
              => file[i] = Payload[i]

\* At the control points between a look and the act that relies on it.
Looked ==
  /\ wpc = "record" /\ wi \notin raced => file[wi] = orig[wi]
  /\ wpc = "record" => backup[wi] = orig[wi]
  /\ wpc = "record" /\ theirs[wi] # NoEdit => wi \in raced
  /\ wpc = "replace" /\ wi \notin raced => file[wi] = orig[wi]
  /\ wpc = "restore" /\ wi \notin raced => file[wi] = Payload[wi]
  /\ rpc = "restore" => rec.status[ri] # "NONE"
  /\ rpc = "restore" /\ ri \notin raced => file[ri] = Payload[ri]

\* The targets an undo has passed are back.
UndoneSoFar ==
  \A i \in Op : theirs[i] = NoEdit =>
    /\ wpc \in {"undo", "restore"} /\ i > wi => file[i] = orig[i]
    /\ wpc = "undone" => file[i] = orig[i]
    /\ rpc \in {"undo", "restore"} /\ i > ri => file[i] = orig[i]
    /\ rpc = "undone" => file[i] = orig[i]

TxInv == /\ TypeOK /\ Turns /\ Progress /\ SameOperations /\ Before3
         /\ TargetState /\ Looked /\ UndoneSoFar
         /\ AllOrNothing /\ OutsideEditKept

USE NAssumption, ContentAssumption, PayloadAssumption, BoundsAssumption

\* What an update of one operation in a journal leaves alone.
LEMMA StatusUpdate ==
  ASSUME NEW j \in Journal, NEW i \in Op, NEW s \in OpStatus
  PROVE  LET k == [j EXCEPT !.status[i] = s]
         IN  /\ k \in Journal
             /\ k.state = j.state /\ k.before = j.before
             /\ k.status = [j.status EXCEPT ![i] = s]
  <1>1. [j.status EXCEPT ![i] = s] \in [Op -> OpStatus]
    BY DEF Journal
  <1> QED BY <1>1 DEF Journal

LEMMA StagedUpdate ==
  ASSUME NEW j \in Journal, NEW i \in Op, NEW s \in OpStatus, NEW v \in Value
  PROVE  LET k == [j EXCEPT !.status[i] = s, !.before[i] = v]
         IN  /\ k \in Journal
             /\ k.state = j.state
             /\ k.status = [j.status EXCEPT ![i] = s]
             /\ k.before = [j.before EXCEPT ![i] = v]
  <1>1. [j.status EXCEPT ![i] = s] \in [Op -> OpStatus]
    BY DEF Journal
  <1>2. [j.before EXCEPT ![i] = v] \in [Op -> Value]
    BY DEF Journal
  <1> QED BY <1>1, <1>2 DEF Journal
USE DEF Op, Value, Journal, JournalState, OpStatus, Final, WriterControl,
        RecoverControl, Stopped, Forward, WriterGone

LEMMA MakeRootStep ==
  ASSUME TxInv, ~LiveRecovery, MakeRoot
  PROVE  TxInv'
  <1> USE DEF TxInv, MakeRoot, disk, writer, recoverer, counters, history
  <1>1. TypeOK'
    BY DEF TypeOK, Progress, SameOperations
  <1>2. Turns'
    BY DEF Turns, TypeOK
  <1>3. Progress'
    BY DEF Progress, TypeOK
  <1>4. SameOperations'
    BY DEF SameOperations, Progress, TypeOK, Turns
  <1>5. Before3'
    BY DEF Before3, BeforeRecorded, Looked, SameOperations, Progress, TargetState,
       Copied, TypeOK, Turns
  <1>6. TargetState'
    BY DEF TargetState, Copied, Progress, SameOperations, Before3, BeforeRecorded,
       Looked, Turns, TypeOK
  <1>7. Looked'
    BY DEF Looked, TargetState, Before3, BeforeRecorded, Copied, Progress,
       SameOperations, Turns, TypeOK
  <1>8. UndoneSoFar'
    BY DEF UndoneSoFar, TargetState, Copied, Before3, BeforeRecorded,
       SameOperations, Progress, Turns, Looked, TypeOK
  <1>9. AllOrNothing'
    BY DEF AllOrNothing, Turns, TargetState, Copied, Progress, UndoneSoFar, TypeOK
  <1>10. OutsideEditKept'
    BY DEF OutsideEditKept, Looked, TargetState, Copied, TypeOK, Turns
  <1> QED BY <1>1, <1>2, <1>3, <1>4, <1>5, <1>6, <1>7, <1>8, <1>9, <1>10

LEMMA OpenJournalStep ==
  ASSUME TxInv, ~LiveRecovery, OpenJournal
  PROVE  TxInv'
  <1> USE DEF TxInv, OpenJournal, disk, writer, recoverer, counters, history
  <1>m. /\ mem'.state = "OPEN"
        /\ mem'.status = mem.status
        /\ mem'.before = mem.before
    BY DEF TypeOK
  <1>j. mem' \in Journal /\ Op = 1 .. N /\ wi \in Op
    BY <1>m DEF TypeOK
  <1>1. TypeOK'
    BY <1>m, <1>j DEF TypeOK, Progress, SameOperations
  <1>2. Turns'
    BY <1>m, <1>j DEF Turns, TypeOK
  <1>3. Progress'
    BY <1>m, <1>j DEF Progress, TypeOK
  <1>4. SameOperations'
    BY <1>m, <1>j DEF SameOperations, Progress, TypeOK, Turns
  <1>5. Before3'
    BY <1>m, <1>j DEF Before3, BeforeRecorded, Looked, SameOperations, Progress,
       TargetState, Copied, TypeOK, Turns
  <1>6. TargetState'
    BY <1>m, <1>j DEF TargetState, Copied, Progress, SameOperations, Before3,
       BeforeRecorded, Looked, Turns, TypeOK
  <1>7. Looked'
    BY <1>m, <1>j DEF Looked, TargetState, Before3, BeforeRecorded, Copied,
       Progress, SameOperations, Turns, TypeOK
  <1>8. UndoneSoFar'
    BY <1>m, <1>j DEF UndoneSoFar, TargetState, Copied, Before3, BeforeRecorded,
       SameOperations, Progress, Turns, Looked, TypeOK
  <1>9. AllOrNothing'
    BY <1>m, <1>j DEF AllOrNothing, Turns, TargetState, Copied, Progress,
       UndoneSoFar, TypeOK
  <1>10. OutsideEditKept'
    BY <1>m, <1>j DEF OutsideEditKept, Looked, TargetState, Copied, TypeOK, Turns
  <1> QED BY <1>1, <1>2, <1>3, <1>4, <1>5, <1>6, <1>7, <1>8, <1>9, <1>10

LEMMA StageCopyStep ==
  ASSUME TxInv, ~LiveRecovery, StageCopy
  PROVE  TxInv'
  <1> USE DEF TxInv, StageCopy, disk, writer, recoverer, counters, history
  <1>1. TypeOK'
    BY DEF TypeOK, Progress, SameOperations
  <1>2. Turns'
    BY DEF Turns, TypeOK
  <1>3. Progress'
    BY DEF Progress, TypeOK
  <1>4. SameOperations'
    BY DEF SameOperations, Progress, TypeOK, Turns
  <1>5. Before3'
    BY DEF Before3, BeforeRecorded, Looked, SameOperations, Progress, TargetState,
       Copied, TypeOK, Turns
  <1>6. TargetState'
    BY DEF TargetState, Copied, Progress, SameOperations, Before3, BeforeRecorded,
       Looked, Turns, TypeOK
  <1>7. Looked'
    <2>1. /\ wi \in Op /\ ~Copied(wi) /\ rpc = "idle"
          /\ mem.status[wi] = "NONE"
      BY DEF Copied, Progress, Turns, TypeOK
    <2>2. theirs[wi] = NoEdit /\ file[wi] = orig[wi]
      BY <2>1 DEF TargetState
    <2>3. backup'[wi] = orig[wi]
      BY <2>1, <2>2 DEF TypeOK
    <2> QED BY <2>1, <2>2, <2>3 DEF Looked
  <1>8. UndoneSoFar'
    BY DEF UndoneSoFar, TargetState, Copied, Before3, BeforeRecorded,
       SameOperations, Progress, Turns, Looked, TypeOK
  <1>9. AllOrNothing'
    BY DEF AllOrNothing, Turns, TargetState, Copied, Progress, UndoneSoFar, TypeOK
  <1>10. OutsideEditKept'
    BY DEF OutsideEditKept, Looked, TargetState, Copied, TypeOK, Turns
  <1> QED BY <1>1, <1>2, <1>3, <1>4, <1>5, <1>6, <1>7, <1>8, <1>9, <1>10

LEMMA StageRecordStep ==
  ASSUME TxInv, ~LiveRecovery, StageRecord
  PROVE  TxInv'
  <1> USE DEF TxInv, StageRecord, disk, writer, recoverer, counters, history
  <1>m. CASE ~(backup[wi] # Absent /\ file[wi] = Absent)
    <2> USE <1>m
    <2>1. /\ mem'.state = mem.state
          /\ mem'.status = [mem.status EXCEPT ![wi] = "STAGED"]
          /\ mem'.before = [mem.before EXCEPT
                 ![wi] = IF backup[wi] = Absent THEN Absent ELSE file[wi]]
          /\ mem' \in Journal /\ journal' = mem'
      <3> DEFINE v == IF backup[wi] = Absent THEN Absent ELSE file[wi]
      <3>1. v \in Value /\ wi \in Op /\ mem \in Journal /\ "STAGED" \in OpStatus
        BY DEF TypeOK
      <3>2. mem' = [mem EXCEPT !.status[wi] = "STAGED", !.before[wi] = v]
        OBVIOUS
      <3> HIDE DEF v
      <3>3. /\ mem' \in Journal /\ mem'.state = mem.state
            /\ mem'.status = [mem.status EXCEPT ![wi] = "STAGED"]
            /\ mem'.before = [mem.before EXCEPT ![wi] = v]
        BY <3>1, <3>2, StagedUpdate, ZenonT(60)
      <3> QED BY <3>3 DEF v
    <2>2. /\ Op = 1 .. N /\ wi \in Op /\ wi' \in Op
          /\ IF wi = N THEN wpc' = "prepare" /\ wi' = wi ELSE wpc' = "copy" /\ wi' = wi + 1
      BY DEF TypeOK
    <2>3. TypeOK'
      BY <2>1, <2>2 DEF TypeOK, Progress, SameOperations
    <2>4. Turns'
      BY <2>1, <2>2 DEF Turns, Progress, TypeOK
    <2>5. Progress'
      BY <2>1, <2>2, SMTT(60) DEF Progress, TypeOK
    <2>6. SameOperations'
      BY <2>1, <2>2 DEF SameOperations, Progress, TypeOK, Turns
    <2>7. Before3'
      <3>1. rpc' = "idle" /\ orig' = orig /\ raced' = raced
        BY DEF Turns
      <3>2. /\ mem'.before[wi] = Absent <=> orig[wi] = Absent
            /\ wi \notin raced => mem'.before[wi] = orig[wi]
        BY <2>1, <2>2 DEF Looked, TypeOK
      <3>3. \A n \in Op : n # wi => /\ mem'.status[n] = mem.status[n]
                                   /\ mem'.before[n] = mem.before[n]
        BY <2>1, <2>2 DEF TypeOK
      <3>4. BeforeRecorded(mem)'
        BY <3>1, <3>2, <3>3 DEF Before3, BeforeRecorded
      <3> QED BY <2>1, <3>1, <3>4 DEF Before3, BeforeRecorded
    <2>8. TargetState'
      BY <2>1, <2>2 DEF TargetState, Copied, Progress, SameOperations, Before3,
         BeforeRecorded, Looked, Turns, TypeOK
    <2>9. Looked'
      BY <2>1, <2>2 DEF Looked, TargetState, Before3, BeforeRecorded, Copied,
         Progress, SameOperations, Turns, TypeOK
    <2>10. UndoneSoFar'
      BY <2>1, <2>2 DEF UndoneSoFar, TargetState, Copied, Before3, BeforeRecorded,
         SameOperations, Progress, Turns, Looked, TypeOK
    <2>11. AllOrNothing'
      BY <2>1, <2>2 DEF AllOrNothing, Turns, TargetState, Copied, Progress,
         UndoneSoFar, TypeOK
    <2>12. OutsideEditKept'
      BY <2>1, <2>2 DEF OutsideEditKept, Looked, TargetState, Copied, TypeOK, Turns
    <2> QED BY <2>3, <2>4, <2>5, <2>6, <2>7, <2>8, <2>9, <2>10, <2>11, <2>12
  <1>v. CASE backup[wi] # Absent /\ file[wi] = Absent
    BY <1>v DEF TypeOK, Turns, Progress, SameOperations, Before3, BeforeRecorded,
       TargetState, Copied, Looked, UndoneSoFar, AllOrNothing, OutsideEditKept
  <1> QED BY <1>m, <1>v

LEMMA PrepareStep ==
  ASSUME TxInv, ~LiveRecovery, Prepare
  PROVE  TxInv'
  <1> USE DEF TxInv, Prepare, disk, writer, recoverer, counters, history
  <1>m. /\ mem'.state = "PREPARED"
        /\ mem'.status = mem.status
        /\ mem'.before = mem.before
    BY DEF TypeOK
  <1>j. mem' \in Journal /\ Op = 1 .. N /\ wi \in Op
    BY <1>m DEF TypeOK
  <1>1. TypeOK'
    BY <1>m, <1>j DEF TypeOK, Progress, SameOperations
  <1>2. Turns'
    BY <1>m, <1>j DEF Turns, TypeOK
  <1>3. Progress'
    BY <1>m, <1>j DEF Progress, TypeOK
  <1>4. SameOperations'
    BY <1>m, <1>j DEF SameOperations, Progress, TypeOK, Turns
  <1>5. Before3'
    BY <1>m, <1>j DEF Before3, BeforeRecorded, Looked, SameOperations, Progress,
       TargetState, Copied, TypeOK, Turns
  <1>6. TargetState'
    BY <1>m, <1>j DEF TargetState, Copied, Progress, SameOperations, Before3,
       BeforeRecorded, Looked, Turns, TypeOK
  <1>7. Looked'
    BY <1>m, <1>j DEF Looked, TargetState, Before3, BeforeRecorded, Copied,
       Progress, SameOperations, Turns, TypeOK
  <1>8. UndoneSoFar'
    BY <1>m, <1>j DEF UndoneSoFar, TargetState, Copied, Before3, BeforeRecorded,
       SameOperations, Progress, Turns, Looked, TypeOK
  <1>9. AllOrNothing'
    BY <1>m, <1>j DEF AllOrNothing, Turns, TargetState, Copied, Progress,
       UndoneSoFar, TypeOK
  <1>10. OutsideEditKept'
    BY <1>m, <1>j DEF OutsideEditKept, Looked, TargetState, Copied, TypeOK, Turns
  <1> QED BY <1>1, <1>2, <1>3, <1>4, <1>5, <1>6, <1>7, <1>8, <1>9, <1>10

LEMMA BeginCommitStep ==
  ASSUME TxInv, ~LiveRecovery, BeginCommit
  PROVE  TxInv'
  <1> USE DEF TxInv, BeginCommit, disk, writer, recoverer, counters, history
  <1>m. /\ mem'.state = "COMMITTING"
        /\ mem'.status = mem.status
        /\ mem'.before = mem.before
    BY DEF TypeOK
  <1>j. mem' \in Journal /\ Op = 1 .. N /\ wi \in Op
    BY <1>m DEF TypeOK
  <1>1. TypeOK'
    <2>1. \A n \in Op : mem.status[n] # "NONE"
      BY DEF Progress, TypeOK
    <2>2. wi' \in Op /\ wpc' \in WriterControl
      OBVIOUS
    <2>3. journal' \in Journal /\ \A n \in Op : journal'.status[n] # "NONE"
      BY <1>m, <1>j, <2>1
    <2> QED BY <1>j, <2>2, <2>3 DEF TypeOK
  <1>2. Turns'
    BY <1>m, <1>j DEF Turns, TypeOK
  <1>3. Progress'
    BY <1>m, <1>j DEF Progress, TypeOK
  <1>4. SameOperations'
    BY <1>m, <1>j DEF SameOperations, Progress, TypeOK, Turns
  <1>5. Before3'
    BY <1>m, <1>j DEF Before3, BeforeRecorded, Looked, SameOperations, Progress,
       TargetState, Copied, TypeOK, Turns
  <1>6. TargetState'
    BY <1>m, <1>j DEF TargetState, Copied, Progress, SameOperations, Before3,
       BeforeRecorded, Looked, Turns, TypeOK
  <1>7. Looked'
    BY <1>m, <1>j DEF Looked, TargetState, Before3, BeforeRecorded, Copied,
       Progress, SameOperations, Turns, TypeOK
  <1>8. UndoneSoFar'
    BY <1>m, <1>j DEF UndoneSoFar, TargetState, Copied, Before3, BeforeRecorded,
       SameOperations, Progress, Turns, Looked, TypeOK
  <1>9. AllOrNothing'
    BY <1>m, <1>j DEF AllOrNothing, Turns, TargetState, Copied, Progress,
       UndoneSoFar, TypeOK
  <1>10. OutsideEditKept'
    BY <1>m, <1>j DEF OutsideEditKept, Looked, TargetState, Copied, TypeOK, Turns
  <1> QED BY <1>1, <1>2, <1>3, <1>4, <1>5, <1>6, <1>7, <1>8, <1>9, <1>10

LEMMA CheckTargetStep ==
  ASSUME TxInv, ~LiveRecovery, CheckTarget
  PROVE  TxInv'
  <1> USE DEF TxInv, CheckTarget, TargetAsStaged, disk, writer, recoverer, counters, history
  <1>1. TypeOK'
    BY DEF TypeOK, Progress, SameOperations
  <1>2. Turns'
    BY DEF Turns, TypeOK
  <1>3. Progress'
    BY DEF Progress, TypeOK
  <1>4. SameOperations'
    BY DEF SameOperations, Progress, TypeOK, Turns
  <1>5. Before3'
    BY DEF Before3, BeforeRecorded, Looked, SameOperations, Progress, TargetState,
       Copied, TypeOK, Turns
  <1>6. TargetState'
    BY DEF TargetState, Copied, Progress, SameOperations, Before3, BeforeRecorded,
       Looked, Turns, TypeOK
  <1>7. Looked'
    BY DEF Looked, TargetState, Before3, BeforeRecorded, Copied, Progress,
       SameOperations, Turns, TypeOK
  <1>8. UndoneSoFar'
    BY DEF UndoneSoFar, TargetState, Copied, Before3, BeforeRecorded,
       SameOperations, Progress, Turns, Looked, TypeOK
  <1>9. AllOrNothing'
    BY DEF AllOrNothing, Turns, TargetState, Copied, Progress, UndoneSoFar, TypeOK
  <1>10. OutsideEditKept'
    BY DEF OutsideEditKept, Looked, TargetState, Copied, TypeOK, Turns
  <1> QED BY <1>1, <1>2, <1>3, <1>4, <1>5, <1>6, <1>7, <1>8, <1>9, <1>10

LEMMA ReplaceTargetStep ==
  ASSUME TxInv, ~LiveRecovery, ReplaceTarget
  PROVE  TxInv'
  <1> USE DEF TxInv, ReplaceTarget, disk, writer, recoverer, counters, history
  <1>m. /\ mem'.state = mem.state
        /\ mem'.status = [mem.status EXCEPT ![wi] = "COMMITTED"]
        /\ mem'.before = mem.before
    BY DEF TypeOK
  <1>j. mem' \in Journal /\ Op = 1 .. N /\ wi \in Op
    BY <1>m DEF TypeOK
  <1>1. TypeOK'
    BY <1>m, <1>j, ZenonT(60) DEF TypeOK, Progress, SameOperations
  <1>2. Turns'
    BY <1>m, <1>j DEF Turns, TypeOK
  <1>3. Progress'
    BY <1>m, <1>j DEF Progress, TypeOK
  <1>4. SameOperations'
    BY <1>m, <1>j DEF SameOperations, Progress, TypeOK, Turns
  <1>5. Before3'
    BY <1>m, <1>j DEF Before3, BeforeRecorded, Looked, SameOperations, Progress,
       TargetState, Copied, TypeOK, Turns
  <1>6. TargetState'
    <2> SUFFICES ASSUME NEW n \in Op PROVE TargetState!(n)'
      BY DEF TargetState
    <2>1. /\ Copied(n) /\ Copied(n)'
          /\ theirs' = theirs /\ orig' = orig /\ raced' = raced /\ backup' = backup
          /\ backup[n] = orig[n]
      BY <1>m, <1>j DEF Copied, Progress, TypeOK, TargetState
    <2>2. CASE n = wi
      <3>1. file'[n] = Payload[n]
        BY <2>2 DEF TypeOK
      <3>2. ASSUME theirs[n] = NoEdit
            PROVE  n \notin raced /\ file[n] = orig[n]
        BY <2>2, <3>2 DEF TargetState, Looked
      <3> QED BY <2>1, <3>1, <3>2
    <2>3. CASE n # wi
      <3>1. file'[n] = file[n] /\ mem'.status[n] = mem.status[n]
        BY <1>m, <2>3 DEF TypeOK
      <3> QED BY <2>1, <3>1 DEF TargetState
    <2> QED BY <2>2, <2>3
  <1>7. Looked'
    BY <1>m, <1>j DEF Looked, TargetState, Before3, BeforeRecorded, Copied,
       Progress, SameOperations, Turns, TypeOK
  <1>8. UndoneSoFar'
    BY <1>m, <1>j DEF UndoneSoFar, TargetState, Copied, Before3, BeforeRecorded,
       SameOperations, Progress, Turns, Looked, TypeOK
  <1>9. AllOrNothing'
    BY <1>m, <1>j DEF AllOrNothing, Turns, TargetState, Copied, Progress,
       UndoneSoFar, TypeOK
  <1>10. OutsideEditKept'
    BY <1>m, <1>j DEF OutsideEditKept, Looked, TargetState, Copied, TypeOK, Turns
  <1> QED BY <1>1, <1>2, <1>3, <1>4, <1>5, <1>6, <1>7, <1>8, <1>9, <1>10

LEMMA LogTargetStep ==
  ASSUME TxInv, ~LiveRecovery, LogTarget
  PROVE  TxInv'
  <1> USE DEF TxInv, LogTarget, disk, writer, recoverer, counters, history
  <1>1. TypeOK'
    BY DEF TypeOK, Progress, SameOperations
  <1>2. Turns'
    BY DEF Turns, Progress, TypeOK
  <1>3. Progress'
    BY DEF Progress, TypeOK
  <1>4. SameOperations'
    BY DEF SameOperations, Progress, TypeOK, Turns
  <1>5. Before3'
    BY DEF Before3, BeforeRecorded, Looked, SameOperations, Progress, TargetState,
       Copied, TypeOK, Turns
  <1>6. TargetState'
    BY DEF TargetState, Copied, Progress, SameOperations, Before3, BeforeRecorded,
       Looked, Turns, TypeOK
  <1>7. Looked'
    BY DEF Looked, TargetState, Before3, BeforeRecorded, Copied, Progress,
       SameOperations, Turns, TypeOK
  <1>8. UndoneSoFar'
    BY DEF UndoneSoFar, TargetState, Copied, Before3, BeforeRecorded,
       SameOperations, Progress, Turns, Looked, TypeOK
  <1>9. AllOrNothing'
    BY DEF AllOrNothing, Turns, TargetState, Copied, Progress, UndoneSoFar, TypeOK
  <1>10. OutsideEditKept'
    BY DEF OutsideEditKept, Looked, TargetState, Copied, TypeOK, Turns
  <1> QED BY <1>1, <1>2, <1>3, <1>4, <1>5, <1>6, <1>7, <1>8, <1>9, <1>10

LEMMA FinishCommitStep ==
  ASSUME TxInv, ~LiveRecovery, FinishCommit
  PROVE  TxInv'
  <1> USE DEF TxInv, FinishCommit, disk, writer, recoverer, counters, history
  <1>m. /\ mem'.state = "COMMITTED"
        /\ mem'.status = mem.status
        /\ mem'.before = mem.before
    BY DEF TypeOK
  <1>j. mem' \in Journal /\ Op = 1 .. N /\ wi \in Op
    BY <1>m DEF TypeOK
  <1>1. TypeOK'
    BY <1>m, <1>j DEF TypeOK, Progress, SameOperations
  <1>2. Turns'
    BY <1>m, <1>j DEF Turns, TypeOK
  <1>3. Progress'
    BY <1>m, <1>j DEF Progress, TypeOK
  <1>4. SameOperations'
    BY <1>m, <1>j DEF SameOperations, Progress, TypeOK, Turns
  <1>5. Before3'
    BY <1>m, <1>j DEF Before3, BeforeRecorded, Looked, SameOperations, Progress,
       TargetState, Copied, TypeOK, Turns
  <1>6. TargetState'
    BY <1>m, <1>j DEF TargetState, Copied, Progress, SameOperations, Before3,
       BeforeRecorded, Looked, Turns, TypeOK
  <1>7. Looked'
    BY <1>m, <1>j DEF Looked, TargetState, Before3, BeforeRecorded, Copied,
       Progress, SameOperations, Turns, TypeOK
  <1>8. UndoneSoFar'
    BY <1>m, <1>j DEF UndoneSoFar, TargetState, Copied, Before3, BeforeRecorded,
       SameOperations, Progress, Turns, Looked, TypeOK
  <1>9. AllOrNothing'
    BY <1>m, <1>j DEF AllOrNothing, Turns, TargetState, Copied, Progress,
       UndoneSoFar, TypeOK
  <1>10. OutsideEditKept'
    BY <1>m, <1>j DEF OutsideEditKept, Looked, TargetState, Copied, TypeOK, Turns
  <1> QED BY <1>1, <1>2, <1>3, <1>4, <1>5, <1>6, <1>7, <1>8, <1>9, <1>10

LEMMA CommitFaultStep ==
  ASSUME TxInv, ~LiveRecovery, CommitFault
  PROVE  TxInv'
  <1> USE DEF TxInv, CommitFault, disk, writer, recoverer, counters, history
  <1>1. TypeOK'
    BY DEF TypeOK, Progress, SameOperations
  <1>2. Turns'
    BY DEF Turns, TypeOK
  <1>3. Progress'
    BY DEF Progress, TypeOK
  <1>4. SameOperations'
    BY DEF SameOperations, Progress, TypeOK, Turns
  <1>5. Before3'
    BY DEF Before3, BeforeRecorded, Looked, SameOperations, Progress, TargetState,
       Copied, TypeOK, Turns
  <1>6. TargetState'
    BY DEF TargetState, Copied, Progress, SameOperations, Before3, BeforeRecorded,
       Looked, Turns, TypeOK
  <1>7. Looked'
    BY DEF Looked, TargetState, Before3, BeforeRecorded, Copied, Progress,
       SameOperations, Turns, TypeOK
  <1>8. UndoneSoFar'
    BY DEF UndoneSoFar, TargetState, Copied, Before3, BeforeRecorded,
       SameOperations, Progress, Turns, Looked, TypeOK
  <1>9. AllOrNothing'
    BY DEF AllOrNothing, Turns, TargetState, Copied, Progress, UndoneSoFar, TypeOK
  <1>10. OutsideEditKept'
    BY DEF OutsideEditKept, Looked, TargetState, Copied, TypeOK, Turns
  <1> QED BY <1>1, <1>2, <1>3, <1>4, <1>5, <1>6, <1>7, <1>8, <1>9, <1>10

LEMMA RollbackCheckStep ==
  ASSUME TxInv, ~LiveRecovery, RollbackCheck
  PROVE  TxInv'
  <1> USE DEF TxInv, RollbackCheck, UndoVerdict, Onward, Before, disk, writer, recoverer, counters, history
  <1>1. TypeOK'
    BY DEF TypeOK, Progress, SameOperations
  <1>2. Turns'
    BY DEF Turns, TypeOK
  <1>3. Progress'
    BY DEF Progress, TypeOK
  <1>4. SameOperations'
    BY DEF SameOperations, Progress, TypeOK, Turns
  <1>5. Before3'
    BY DEF Before3, BeforeRecorded, Looked, SameOperations, Progress, TargetState,
       Copied, TypeOK, Turns
  <1>6. TargetState'
    BY DEF TargetState, Copied, Progress, SameOperations, Before3, BeforeRecorded,
       Looked, Turns, TypeOK
  <1>7. Looked'
    BY DEF Looked, TargetState, Before3, BeforeRecorded, Copied, Progress,
       SameOperations, Turns, TypeOK
  <1>8. UndoneSoFar'
    BY DEF UndoneSoFar, TargetState, Copied, Before3, BeforeRecorded,
       SameOperations, Progress, Turns, Looked, TypeOK
  <1>9. AllOrNothing'
    BY DEF AllOrNothing, Turns, TargetState, Copied, Progress, UndoneSoFar, TypeOK
  <1>10. OutsideEditKept'
    BY DEF OutsideEditKept, Looked, TargetState, Copied, TypeOK, Turns
  <1> QED BY <1>1, <1>2, <1>3, <1>4, <1>5, <1>6, <1>7, <1>8, <1>9, <1>10

\* Rollback puts back exactly what the target held when it was staged.
LEMMA RollbackRestoresOriginal ==
  ASSUME TxInv, RollbackRestore, CanRestore(mem, wi)
  PROVE  file' = [file EXCEPT ![wi] = orig[wi]]
  <1> USE DEF TxInv, RollbackRestore, CanRestore, Restore
  <1>1. wi \in Op /\ mem.status[wi] # "NONE"
    BY DEF Looked, Progress, TypeOK
  <1>2. /\ mem.before[wi] = Absent <=> orig[wi] = Absent
        /\ backup[wi] \in {orig[wi], Absent}
    BY <1>1 DEF Before3, BeforeRecorded, TargetState, Copied, SameOperations, TypeOK
  <1>3. CASE mem.before[wi] = Absent
    BY <1>1, <1>2, <1>3 DEF TypeOK
  <1>4. CASE mem.before[wi] # Absent
    BY <1>1, <1>2, <1>4 DEF TypeOK
  <1> QED BY <1>3, <1>4

LEMMA RollbackRestoreStep ==
  ASSUME TxInv, ~LiveRecovery, RollbackRestore
  PROVE  TxInv'
  <1> USE DEF TxInv, RollbackRestore, CanRestore, Restore, RolledBack, Onward, Before,
             disk, writer, recoverer, counters, history
  <1>c. CASE CanRestore(mem, wi)
    <2>1. /\ mem'.state = mem.state
          /\ mem'.status = [mem.status EXCEPT ![wi] = "ROLLED_BACK"]
          /\ mem'.before = mem.before
          /\ mem' \in Journal
      <3>1. mem \in Journal /\ wi \in Op /\ "ROLLED_BACK" \in OpStatus
        BY DEF TypeOK
      <3>2. mem' = [mem EXCEPT !.status[wi] = "ROLLED_BACK"]
        BY <1>c
      <3> QED BY <3>1, <3>2, StatusUpdate
    <2>2. /\ Op = 1 .. N /\ wi \in Op /\ wi' \in Op
          /\ wpc' = Onward(wi) /\ wi' = Before(wi)
      BY <1>c DEF TypeOK
    <2>3. mem.status[wi] # "NONE"
      BY DEF Looked, Progress, TypeOK
    <2>4. /\ file' = [file EXCEPT ![wi] = orig[wi]]
          /\ backup' \in [Op -> Value]
          /\ \A n \in Op : n # wi => backup'[n] = backup[n]
          /\ backup'[wi] \in {backup[wi], Absent}
      <3>1. file' = [file EXCEPT ![wi] = orig[wi]]
        BY <1>c, RollbackRestoresOriginal
      <3>2. backup' = backup \/ backup' = [backup EXCEPT ![wi] = Absent]
        BY <1>c
      <3> QED BY <2>2, <3>1, <3>2 DEF TypeOK
    <2>5. TypeOK'
      BY <1>c, <2>1, <2>2, <2>3, <2>4 DEF TypeOK, Progress, SameOperations
    <2>6. Turns'
      BY <1>c, <2>1, <2>2, <2>3, <2>4 DEF Turns, TypeOK
    <2>7. Progress'
      BY <1>c, <2>1, <2>2, <2>3, <2>4 DEF Progress, TypeOK
    <2>8. SameOperations'
      BY <1>c, <2>1, <2>2, <2>3, <2>4 DEF SameOperations, Progress, TypeOK, Turns
    <2>9. Before3'
      BY <1>c, <2>1, <2>2, <2>3, <2>4 DEF Before3, BeforeRecorded, Looked,
         SameOperations, Progress, TargetState, Copied, TypeOK, Turns
    <2>10. TargetState'
      BY <1>c, <2>1, <2>2, <2>3, <2>4 DEF TargetState, Copied, Progress,
         SameOperations, Before3, BeforeRecorded, Looked, Turns, TypeOK
    <2>11. Looked'
      BY <1>c, <2>1, <2>2, <2>3, <2>4 DEF Looked, TargetState, Before3,
         BeforeRecorded, Copied, Progress, SameOperations, Turns, TypeOK
    <2>12. UndoneSoFar'
      BY <1>c, <2>1, <2>2, <2>3, <2>4 DEF UndoneSoFar, TargetState, Copied, Before3,
         BeforeRecorded, SameOperations, Progress, Turns, Looked, TypeOK
    <2>13. AllOrNothing'
      BY <1>c, <2>1, <2>2, <2>3, <2>4 DEF AllOrNothing, Turns, TargetState, Copied,
         Progress, UndoneSoFar, TypeOK
    <2>14. OutsideEditKept'
      BY <1>c, <2>1, <2>2, <2>3, <2>4 DEF OutsideEditKept, Looked, TargetState,
         Copied, TypeOK, Turns
    <2> QED BY <2>5, <2>6, <2>7, <2>8, <2>9, <2>10, <2>11, <2>12, <2>13, <2>14
  <1>v. CASE ~CanRestore(mem, wi)
    BY <1>v DEF TypeOK, Turns, Progress, SameOperations, Before3, BeforeRecorded,
       TargetState, Copied, Looked, UndoneSoFar, AllOrNothing, OutsideEditKept
  <1> QED BY <1>c, <1>v

LEMMA FinishRollbackStep ==
  ASSUME TxInv, ~LiveRecovery, FinishRollback
  PROVE  TxInv'
  <1> USE DEF TxInv, FinishRollback, disk, writer, recoverer, counters, history
  <1>m. /\ mem'.state = "ROLLED_BACK"
        /\ mem'.status = mem.status
        /\ mem'.before = mem.before
    BY DEF TypeOK
  <1>j. mem' \in Journal /\ Op = 1 .. N /\ wi \in Op
    BY <1>m DEF TypeOK
  <1>1. TypeOK'
    BY <1>m, <1>j DEF TypeOK, Progress, SameOperations
  <1>2. Turns'
    BY <1>m, <1>j DEF Turns, TypeOK
  <1>3. Progress'
    BY <1>m, <1>j DEF Progress, TypeOK
  <1>4. SameOperations'
    BY <1>m, <1>j DEF SameOperations, Progress, TypeOK, Turns
  <1>5. Before3'
    BY <1>m, <1>j DEF Before3, BeforeRecorded, Looked, SameOperations, Progress,
       TargetState, Copied, TypeOK, Turns
  <1>6. TargetState'
    BY <1>m, <1>j DEF TargetState, Copied, Progress, SameOperations, Before3,
       BeforeRecorded, Looked, Turns, TypeOK
  <1>7. Looked'
    BY <1>m, <1>j DEF Looked, TargetState, Before3, BeforeRecorded, Copied,
       Progress, SameOperations, Turns, TypeOK
  <1>8. UndoneSoFar'
    BY <1>m, <1>j DEF UndoneSoFar, TargetState, Copied, Before3, BeforeRecorded,
       SameOperations, Progress, Turns, Looked, TypeOK
  <1>9. AllOrNothing'
    BY <1>m, <1>j DEF AllOrNothing, Turns, TargetState, Copied, Progress,
       UndoneSoFar, TypeOK
  <1>10. OutsideEditKept'
    BY <1>m, <1>j DEF OutsideEditKept, Looked, TargetState, Copied, TypeOK, Turns
  <1> QED BY <1>1, <1>2, <1>3, <1>4, <1>5, <1>6, <1>7, <1>8, <1>9, <1>10

LEMMA LoadJournalStep ==
  ASSUME TxInv, ~LiveRecovery, LoadJournal
  PROVE  TxInv'
  <1> USE DEF TxInv, LoadJournal, disk, writer, recoverer, counters, history
  <1>1. TypeOK'
    BY DEF TypeOK, Progress, SameOperations
  <1>2. Turns'
    BY DEF Turns, TypeOK
  <1>3. Progress'
    BY DEF Progress, TypeOK
  <1>4. SameOperations'
    BY DEF SameOperations, Progress, TypeOK, Turns
  <1>5. Before3'
    BY DEF Before3, BeforeRecorded, Looked, SameOperations, Progress, TargetState,
       Copied, TypeOK, Turns
  <1>6. TargetState'
    BY DEF TargetState, Copied, Progress, SameOperations, Before3, BeforeRecorded,
       Looked, Turns, TypeOK
  <1>7. Looked'
    BY DEF Looked, TargetState, Before3, BeforeRecorded, Copied, Progress,
       SameOperations, Turns, TypeOK
  <1>8. UndoneSoFar'
    BY DEF UndoneSoFar, TargetState, Copied, Before3, BeforeRecorded,
       SameOperations, Progress, Turns, Looked, TypeOK
  <1>9. AllOrNothing'
    BY DEF AllOrNothing, Turns, TargetState, Copied, Progress, UndoneSoFar, TypeOK
  <1>10. OutsideEditKept'
    BY DEF OutsideEditKept, Looked, TargetState, Copied, TypeOK, Turns
  <1> QED BY <1>1, <1>2, <1>3, <1>4, <1>5, <1>6, <1>7, <1>8, <1>9, <1>10

LEMMA RecoverCheckStep ==
  ASSUME TxInv, ~LiveRecovery, RecoverCheck
  PROVE  TxInv'
  <1> USE DEF TxInv, RecoverCheck, UndoVerdict, Onward, Before, disk, writer, recoverer, counters, history
  <1>1. TypeOK'
    BY DEF TypeOK, Progress, SameOperations
  <1>2. Turns'
    BY DEF Turns, TypeOK
  <1>3. Progress'
    BY DEF Progress, TypeOK
  <1>4. SameOperations'
    BY DEF SameOperations, Progress, TypeOK, Turns
  <1>5. Before3'
    BY DEF Before3, BeforeRecorded, Looked, SameOperations, Progress, TargetState,
       Copied, TypeOK, Turns
  <1>6. TargetState'
    BY DEF TargetState, Copied, Progress, SameOperations, Before3, BeforeRecorded,
       Looked, Turns, TypeOK
  <1>7. Looked'
    BY DEF Looked, TargetState, Before3, BeforeRecorded, Copied, Progress,
       SameOperations, Turns, TypeOK
  <1>8. UndoneSoFar'
    BY DEF UndoneSoFar, TargetState, Copied, Before3, BeforeRecorded,
       SameOperations, Progress, Turns, Looked, TypeOK
  <1>9. AllOrNothing'
    BY DEF AllOrNothing, Turns, TargetState, Copied, Progress, UndoneSoFar, TypeOK
  <1>10. OutsideEditKept'
    BY DEF OutsideEditKept, Looked, TargetState, Copied, TypeOK, Turns
  <1> QED BY <1>1, <1>2, <1>3, <1>4, <1>5, <1>6, <1>7, <1>8, <1>9, <1>10

\* Recovery puts back exactly what the target held when it was staged.
LEMMA RecoverRestoresOriginal ==
  ASSUME TxInv, RecoverRestore, CanRestore(rec, ri)
  PROVE  file' = [file EXCEPT ![ri] = orig[ri]]
  <1> USE DEF TxInv, RecoverRestore, CanRestore, Restore
  <1>1. ri \in Op /\ rec.status[ri] # "NONE"
    BY DEF Looked, Progress, TypeOK
  <1>2. /\ rec.before[ri] = Absent <=> orig[ri] = Absent
        /\ backup[ri] \in {orig[ri], Absent}
    BY <1>1 DEF Before3, BeforeRecorded, TargetState, Copied, SameOperations, TypeOK
  <1>3. CASE rec.before[ri] = Absent
    BY <1>1, <1>2, <1>3 DEF TypeOK
  <1>4. CASE rec.before[ri] # Absent
    BY <1>1, <1>2, <1>4 DEF TypeOK
  <1> QED BY <1>3, <1>4

LEMMA RecoverRestoreStep ==
  ASSUME TxInv, ~LiveRecovery, RecoverRestore
  PROVE  TxInv'
  <1> USE DEF TxInv, RecoverRestore, CanRestore, Restore, RolledBack, Onward, Before,
             disk, writer, recoverer, counters, history
  <1>c. CASE CanRestore(rec, ri)
    <2>1. /\ rec'.state = rec.state
          /\ rec'.status = [rec.status EXCEPT ![ri] = "ROLLED_BACK"]
          /\ rec'.before = rec.before
          /\ rec' \in Journal
      <3>1. rec \in Journal /\ ri \in Op /\ "ROLLED_BACK" \in OpStatus
        BY DEF TypeOK
      <3>2. rec' = [rec EXCEPT !.status[ri] = "ROLLED_BACK"]
        BY <1>c
      <3> QED BY <3>1, <3>2, StatusUpdate
    <2>2. /\ Op = 1 .. N /\ ri \in Op /\ ri' \in Op
          /\ rpc' = Onward(ri) /\ ri' = Before(ri)
      BY <1>c DEF TypeOK
    <2>3. rec.status[ri] # "NONE"
      BY DEF Looked, Progress, TypeOK
    <2>4. /\ file' = [file EXCEPT ![ri] = orig[ri]]
          /\ backup' \in [Op -> Value]
          /\ \A n \in Op : n # ri => backup'[n] = backup[n]
          /\ backup'[ri] \in {backup[ri], Absent}
      <3>1. file' = [file EXCEPT ![ri] = orig[ri]]
        BY <1>c, RecoverRestoresOriginal
      <3>2. backup' = backup \/ backup' = [backup EXCEPT ![ri] = Absent]
        BY <1>c
      <3> QED BY <2>2, <3>1, <3>2 DEF TypeOK
    <2>5. TypeOK'
      BY <1>c, <2>1, <2>2, <2>3, <2>4 DEF TypeOK, Progress, SameOperations
    <2>6. Turns'
      BY <1>c, <2>1, <2>2, <2>3, <2>4 DEF Turns, TypeOK
    <2>7. Progress'
      BY <1>c, <2>1, <2>2, <2>3, <2>4 DEF Progress, TypeOK
    <2>8. SameOperations'
      BY <1>c, <2>1, <2>2, <2>3, <2>4 DEF SameOperations, Progress, TypeOK, Turns
    <2>9. Before3'
      BY <1>c, <2>1, <2>2, <2>3, <2>4 DEF Before3, BeforeRecorded, Looked,
         SameOperations, Progress, TargetState, Copied, TypeOK, Turns
    <2>10. TargetState'
      BY <1>c, <2>1, <2>2, <2>3, <2>4 DEF TargetState, Copied, Progress,
         SameOperations, Before3, BeforeRecorded, Looked, Turns, TypeOK
    <2>11. Looked'
      BY <1>c, <2>1, <2>2, <2>3, <2>4 DEF Looked, TargetState, Before3,
         BeforeRecorded, Copied, Progress, SameOperations, Turns, TypeOK
    <2>12. UndoneSoFar'
      BY <1>c, <2>1, <2>2, <2>3, <2>4 DEF UndoneSoFar, TargetState, Copied, Before3,
         BeforeRecorded, SameOperations, Progress, Turns, Looked, TypeOK
    <2>13. AllOrNothing'
      BY <1>c, <2>1, <2>2, <2>3, <2>4 DEF AllOrNothing, Turns, TargetState, Copied,
         Progress, UndoneSoFar, TypeOK
    <2>14. OutsideEditKept'
      BY <1>c, <2>1, <2>2, <2>3, <2>4 DEF OutsideEditKept, Looked, TargetState,
         Copied, TypeOK, Turns
    <2> QED BY <2>5, <2>6, <2>7, <2>8, <2>9, <2>10, <2>11, <2>12, <2>13, <2>14
  <1>v. CASE ~CanRestore(rec, ri)
    BY <1>v DEF TypeOK, Turns, Progress, SameOperations, Before3, BeforeRecorded,
       TargetState, Copied, Looked, UndoneSoFar, AllOrNothing, OutsideEditKept
  <1> QED BY <1>c, <1>v

LEMMA FinishRecoveryStep ==
  ASSUME TxInv, ~LiveRecovery, FinishRecovery
  PROVE  TxInv'
  <1> USE DEF TxInv, FinishRecovery, disk, writer, recoverer, counters, history
  <1>m. /\ journal'.state = "ROLLED_BACK"
        /\ journal'.status = rec.status
        /\ journal'.before = rec.before
    BY DEF TypeOK
  <1>j. journal' \in Journal /\ Op = 1 .. N
    BY <1>m DEF TypeOK
  <1>1. TypeOK'
    BY <1>m, <1>j, ZenonT(60) DEF TypeOK, Progress, SameOperations
  <1>2. Turns'
    BY <1>m, <1>j DEF Turns, TypeOK
  <1>3. Progress'
    BY <1>m, <1>j DEF Progress, TypeOK
  <1>4. SameOperations'
    BY <1>m, <1>j DEF SameOperations, Progress, TypeOK, Turns
  <1>5. Before3'
    BY <1>m, <1>j DEF Before3, BeforeRecorded, Looked, SameOperations, Progress,
       TargetState, Copied, TypeOK, Turns
  <1>6. TargetState'
    BY <1>m, <1>j DEF TargetState, Copied, Progress, SameOperations, Before3,
       BeforeRecorded, Looked, Turns, TypeOK
  <1>7. Looked'
    BY <1>m, <1>j DEF Looked, TargetState, Before3, BeforeRecorded, Copied,
       Progress, SameOperations, Turns, TypeOK
  <1>8. UndoneSoFar'
    BY <1>m, <1>j DEF UndoneSoFar, TargetState, Copied, Before3, BeforeRecorded,
       SameOperations, Progress, Turns, Looked, TypeOK
  <1>9. AllOrNothing'
    BY <1>m, <1>j DEF AllOrNothing, Turns, TargetState, Copied, Progress,
       UndoneSoFar, TypeOK
  <1>10. OutsideEditKept'
    BY <1>m, <1>j DEF OutsideEditKept, Looked, TargetState, Copied, TypeOK, Turns
  <1> QED BY <1>1, <1>2, <1>3, <1>4, <1>5, <1>6, <1>7, <1>8, <1>9, <1>10

LEMMA CrashWriterStep ==
  ASSUME TxInv, ~LiveRecovery, CrashWriter
  PROVE  TxInv'
  <1> USE DEF TxInv, CrashWriter, disk, writer, recoverer, counters, history
  <1>1. TypeOK'
    BY DEF TypeOK, Progress, SameOperations
  <1>2. Turns'
    BY DEF Turns, TypeOK
  <1>3. Progress'
    BY DEF Progress, TypeOK
  <1>4. SameOperations'
    BY DEF SameOperations, Progress, TypeOK, Turns
  <1>5. Before3'
    BY DEF Before3, BeforeRecorded, Looked, SameOperations, Progress, TargetState,
       Copied, TypeOK, Turns
  <1>6. TargetState'
    BY DEF TargetState, Copied, Progress, SameOperations, Before3, BeforeRecorded,
       Looked, Turns, TypeOK
  <1>7. Looked'
    BY DEF Looked, TargetState, Before3, BeforeRecorded, Copied, Progress,
       SameOperations, Turns, TypeOK
  <1>8. UndoneSoFar'
    BY DEF UndoneSoFar, TargetState, Copied, Before3, BeforeRecorded,
       SameOperations, Progress, Turns, Looked, TypeOK
  <1>9. AllOrNothing'
    BY DEF AllOrNothing, Turns, TargetState, Copied, Progress, UndoneSoFar, TypeOK
  <1>10. OutsideEditKept'
    BY DEF OutsideEditKept, Looked, TargetState, Copied, TypeOK, Turns
  <1> QED BY <1>1, <1>2, <1>3, <1>4, <1>5, <1>6, <1>7, <1>8, <1>9, <1>10

LEMMA CrashRecovererStep ==
  ASSUME TxInv, ~LiveRecovery, CrashRecoverer
  PROVE  TxInv'
  <1> USE DEF TxInv, CrashRecoverer, disk, writer, recoverer, counters, history
  <1>1. TypeOK'
    BY DEF TypeOK, Progress, SameOperations
  <1>2. Turns'
    BY DEF Turns, TypeOK
  <1>3. Progress'
    BY DEF Progress, TypeOK
  <1>4. SameOperations'
    BY DEF SameOperations, Progress, TypeOK, Turns
  <1>5. Before3'
    BY DEF Before3, BeforeRecorded, Looked, SameOperations, Progress, TargetState,
       Copied, TypeOK, Turns
  <1>6. TargetState'
    BY DEF TargetState, Copied, Progress, SameOperations, Before3, BeforeRecorded,
       Looked, Turns, TypeOK
  <1>7. Looked'
    BY DEF Looked, TargetState, Before3, BeforeRecorded, Copied, Progress,
       SameOperations, Turns, TypeOK
  <1>8. UndoneSoFar'
    BY DEF UndoneSoFar, TargetState, Copied, Before3, BeforeRecorded,
       SameOperations, Progress, Turns, Looked, TypeOK
  <1>9. AllOrNothing'
    BY DEF AllOrNothing, Turns, TargetState, Copied, Progress, UndoneSoFar, TypeOK
  <1>10. OutsideEditKept'
    BY DEF OutsideEditKept, Looked, TargetState, Copied, TypeOK, Turns
  <1> QED BY <1>1, <1>2, <1>3, <1>4, <1>5, <1>6, <1>7, <1>8, <1>9, <1>10

LEMMA ExternalEditStep ==
  ASSUME TxInv, ~LiveRecovery, NEW k \in Op, ExternalEdit(k)
  PROVE  TxInv'
  <1> USE DEF TxInv, ExternalEdit, InWindow, disk, writer, recoverer, counters, history
  <1>1. TypeOK'
    <2>1. PICK v \in Value : file' = [file EXCEPT ![k] = v]
      OBVIOUS
    <2>2. file' \in [Op -> Value] /\ file'[k] \in Value
      BY <2>1 DEF TypeOK
    <2>3. orig' \in [Op -> Value] /\ theirs' \in [Op -> Value \cup {NoEdit}]
      <3>1. CASE Copied(k)
        BY <2>2, <3>1 DEF TypeOK
      <3>2. CASE ~Copied(k)
        BY <2>2, <3>2 DEF TypeOK
      <3> QED BY <3>1, <3>2
    <2> QED BY <2>2, <2>3 DEF TypeOK
  <1>2. Turns'
    BY DEF Turns, TypeOK
  <1>3. Progress'
    BY DEF Progress, TypeOK
  <1>4. SameOperations'
    BY DEF SameOperations, Progress, TypeOK, Turns
  <1>5. Before3'
    BY DEF Before3, BeforeRecorded, Looked, SameOperations, Progress, TargetState,
       Copied, TypeOK, Turns
  <1>6. TargetState'
    BY DEF TargetState, Copied, Progress, SameOperations, Before3, BeforeRecorded,
       Looked, Turns, TypeOK
  <1>7. Looked'
    BY DEF Looked, TargetState, Before3, BeforeRecorded, Copied, Progress,
       SameOperations, Turns, TypeOK
  <1>8. UndoneSoFar'
    BY DEF UndoneSoFar, TargetState, Copied, Before3, BeforeRecorded,
       SameOperations, Progress, Turns, Looked, TypeOK
  <1>9. AllOrNothing'
    <2> SUFFICES ASSUME NEW n \in Op, theirs'[n] = NoEdit, journal.state \in Final
                 PROVE  AllOrNothing!(n)'
      BY DEF AllOrNothing
    <2>1. PICK v \in Value : file' = [file EXCEPT ![k] = v]
      OBVIOUS
    <2>2. v # NoEdit /\ file'[k] = v
      BY <2>1 DEF TypeOK
    <2>3. CASE Copied(k)
      <3>1. n # k /\ theirs[n] = NoEdit /\ orig' = orig /\ file'[n] = file[n]
        BY <2>1, <2>2, <2>3 DEF TypeOK
      <3> QED BY <3>1 DEF AllOrNothing
    <2>4. CASE ~Copied(k)
      <3>1. journal.state # "COMMITTED"
        BY <2>4 DEF Copied, SameOperations, TypeOK
      <3>2. /\ theirs[n] = NoEdit /\ file'[k] = orig'[k]
            /\ n # k => file'[n] = file[n] /\ orig'[n] = orig[n]
        BY <2>1, <2>4 DEF TypeOK
      <3> QED BY <3>1, <3>2 DEF AllOrNothing
    <2> QED BY <2>3, <2>4
  <1>10. OutsideEditKept'
    BY DEF OutsideEditKept, Looked, TargetState, Copied, TypeOK, Turns
  <1> QED BY <1>1, <1>2, <1>3, <1>4, <1>5, <1>6, <1>7, <1>8, <1>9, <1>10

---------------------------------------------------------------------------
LEMMA InitTxInv ==
  ASSUME Init PROVE TxInv
  <1> USE DEF Init, EmptyJournal
  <1>1. TypeOK
    <2>1. EmptyJournal \in Journal
      OBVIOUS
    <2>2. 1 \in Op /\ N \in Op
      OBVIOUS
    <2> QED BY <2>1, <2>2 DEF TypeOK
  <1>2. Turns /\ Progress /\ SameOperations
    BY DEF Turns, Progress, SameOperations
  <1>3. Before3 /\ Looked
    BY DEF Before3, BeforeRecorded, Looked
  <1>4. TargetState /\ UndoneSoFar
    BY DEF TargetState, Copied, UndoneSoFar
  <1>5. AllOrNothing /\ OutsideEditKept
    BY DEF AllOrNothing, OutsideEditKept
  <1> QED BY <1>1, <1>2, <1>3, <1>4, <1>5 DEF TxInv

LEMMA NextTxInv ==
  ASSUME TxInv, ~LiveRecovery, [Next]_vars
  PROVE  TxInv'
  <1>1. CASE UNCHANGED vars
    BY <1>1 DEF vars, disk, writer, recoverer, counters, history, TxInv, TypeOK, Turns,
       Progress, SameOperations, Before3, BeforeRecorded, TargetState, Copied, Looked,
       UndoneSoFar, AllOrNothing, OutsideEditKept
  <1>2. CASE Write
    BY <1>2, MakeRootStep, OpenJournalStep, StageCopyStep, StageRecordStep,
       PrepareStep, BeginCommitStep, CheckTargetStep, ReplaceTargetStep,
       LogTargetStep, FinishCommitStep, CommitFaultStep, RollbackCheckStep,
       RollbackRestoreStep, FinishRollbackStep DEF Write
  <1>3. CASE Recover
    BY <1>3, LoadJournalStep, RecoverCheckStep, RecoverRestoreStep,
       FinishRecoveryStep DEF Recover
  <1>4. CASE Environment
    BY <1>4, CrashWriterStep, CrashRecovererStep, ExternalEditStep DEF Environment
  <1> QED BY <1>1, <1>2, <1>3, <1>4 DEF Next

\* TxInv is an invariant of the transaction.
THEOREM TxInvariant ==
  ASSUME ~LiveRecovery PROVE Spec => []TxInv
  <1>1. Init => TxInv BY InitTxInv
  <1>2. TxInv /\ [Next]_vars => TxInv' BY NextTxInv
  <1> QED BY <1>1, <1>2, PTL DEF Spec

\* Every variable keeps its type, and a journal past OPEN lists every operation.
THEOREM TxTypeCorrect ==
  ASSUME ~LiveRecovery PROVE Spec => []TypeOK
  <1>1. TxInv => TypeOK BY DEF TxInv
  <1> QED BY <1>1, TxInvariant, PTL

\* A final journal speaks the truth about every target nobody else has edited:
\* all replaced, or all restored.
THEOREM TxAllOrNothing ==
  ASSUME ~LiveRecovery PROVE Spec => []AllOrNothing
  <1>1. TxInv => AllOrNothing BY DEF TxInv
  <1> QED BY <1>1, TxInvariant, PTL

\* Crashes, I/O errors and repeated recoveries never lose what a target held.
THEOREM TxOriginalKept ==
  ASSUME ~LiveRecovery PROVE Spec => []OriginalKept
  <1>1. TxInv => OriginalKept
    BY DEF TxInv, TargetState, OriginalKept
  <1> QED BY <1>1, TxInvariant, PTL

\* No outside edit that a digest comparison came after is overwritten.
THEOREM TxOutsideEditKept ==
  ASSUME ~LiveRecovery PROVE Spec => []OutsideEditKept
  <1>1. TxInv => OutsideEditKept BY DEF TxInv
  <1> QED BY <1>1, TxInvariant, PTL

\* Nothing moves once an outcome is in the journal.
LEMMA FinalStep ==
  ASSUME TxInv, ~LiveRecovery, Next, journal.state \in Final
  PROVE  journal' = journal /\ (edits' = edits => file' = file)
  <1>1. rpc = "idle" /\ wpc \in Stopped
    BY DEF TxInv, Turns
  <1>2. ~Write /\ ~Recover
    BY <1>1 DEF Write, MakeRoot, OpenJournal, StageCopy, StageRecord, Prepare,
       BeginCommit, CheckTarget, ReplaceTarget, LogTarget, FinishCommit, CommitFault,
       RollbackCheck, RollbackRestore, FinishRollback,
       Recover, LoadJournal, RecoverCheck, RecoverRestore, FinishRecovery
  <1>3. CASE CrashWriter \/ CrashRecoverer
    BY <1>3 DEF CrashWriter, CrashRecoverer, disk
  <1>4. ASSUME NEW i \in Op, ExternalEdit(i)
        PROVE  journal' = journal /\ edits' # edits
    BY <1>4 DEF ExternalEdit, TxInv, TypeOK
  <1> QED BY <1>2, <1>3, <1>4 DEF Next, Environment

THEOREM TxOutcomeIsFinal ==
  ASSUME ~LiveRecovery PROVE Spec => OutcomeIsFinal
  <1> DEFINE Stays == journal.state \in Final =>
                        journal' = journal /\ (edits' = edits => file' = file)
  <1>1. TxInv /\ [Next]_vars => [Stays]_vars
    BY FinalStep
  <1> QED BY <1>1, TxInvariant, PTL DEF Spec, OutcomeIsFinal

---------------------------------------------------------------------------
(* The transaction implements AtomicUpdate: replacing, restoring, the two   *)
(* journal writes that decide the outcome and outside edits are its steps,  *)
(* everything else is a stutter.                                            *)

LEMMA Pending ==
  ASSUME journal.state \notin Final PROVE Outcome = "pending"
  BY DEF Outcome

LEMMA ReplaceRefines ==
  ASSUME TxInv, ReplaceTarget PROVE AtomicUpdate!Apply(wi)
  <1>1. Outcome = "pending" /\ Outcome' = Outcome
    BY Pending DEF TxInv, Turns, ReplaceTarget, Outcome
  <1>2. file[wi] = orig[wi] \/ wi \in raced
    BY DEF TxInv, Looked, ReplaceTarget
  <1> QED BY <1>1, <1>2
          DEF AtomicUpdate!Apply, ReplaceTarget, Edited, recoverer, counters, history

LEMMA RollbackRefines ==
  ASSUME TxInv, RollbackRestore, CanRestore(mem, wi) PROVE AtomicUpdate!Revert(wi)
  <1>1. Outcome = "pending" /\ Outcome' = Outcome
    BY Pending DEF TxInv, Turns, RollbackRestore, Outcome
  <1>2. file[wi] = Payload[wi] \/ wi \in raced
    BY DEF TxInv, Looked, RollbackRestore
  <1> QED BY <1>1, <1>2, RollbackRestoresOriginal
          DEF AtomicUpdate!Revert, RollbackRestore, Edited, recoverer, counters, history

LEMMA RecoveryRefines ==
  ASSUME TxInv, RecoverRestore, CanRestore(rec, ri) PROVE AtomicUpdate!Revert(ri)
  <1>1. Outcome = "pending" /\ Outcome' = Outcome
    BY Pending DEF TxInv, Turns, RecoverRestore, Outcome
  <1>2. file[ri] = Payload[ri] \/ ri \in raced
    BY DEF TxInv, Looked, RecoverRestore
  <1> QED BY <1>1, <1>2, RecoverRestoresOriginal
          DEF AtomicUpdate!Revert, RecoverRestore, Edited, writer, counters, history

LEMMA FinishCommitRefines ==
  ASSUME TxInv, FinishCommit PROVE AtomicUpdate!Commit
  <1>1. Outcome = "pending"
    BY Pending DEF TxInv, Turns, FinishCommit
  <1>2. journal'.state = "COMMITTED"
    BY DEF FinishCommit, TxInv, TypeOK
  <1>3. Outcome' = "committed"
    BY <1>2 DEF Outcome
  <1>4. \A i \in Op \ Edited : file[i] = Payload[i]
    BY DEF TxInv, TargetState, Progress, FinishCommit, Edited, TypeOK
  <1> QED BY <1>1, <1>3, <1>4
          DEF AtomicUpdate!Commit, FinishCommit, Edited, recoverer, counters, history

LEMMA AbortRefines ==
  ASSUME TxInv, FinishRollback \/ FinishRecovery PROVE AtomicUpdate!Abort
  <1>1. Outcome = "pending"
    BY Pending DEF TxInv, Turns, FinishRollback, FinishRecovery
  <1>2. journal'.state = "ROLLED_BACK"
    BY DEF FinishRollback, FinishRecovery, TxInv, TypeOK
  <1>3. Outcome' = "rolled back"
    BY <1>2 DEF Outcome
  <1>4. \A i \in Op \ Edited : file[i] = orig[i]
    BY DEF TxInv, UndoneSoFar, FinishRollback, FinishRecovery, Edited, TypeOK
  <1> QED BY <1>1, <1>3, <1>4
          DEF AtomicUpdate!Abort, FinishRollback, FinishRecovery, Edited,
              writer, recoverer, counters, history

LEMMA EditRefines ==
  ASSUME TxInv, NEW k \in Op, ExternalEdit(k) PROVE AtomicUpdate!Edit(k)
  <1> USE DEF ExternalEdit, TxInv, TypeOK
  <1>1. PICK v \in Value : file' = [file EXCEPT ![k] = v]
    OBVIOUS
  <1>2. file'[k] = v /\ v # NoEdit
    BY <1>1
  <1>3. Outcome' = Outcome /\ raced' \in {raced, raced \cup {k}}
    BY DEF Outcome
  <1>4. CASE Copied(k)
    <2>1. theirs' = [theirs EXCEPT ![k] = v] /\ orig' = orig
      BY <1>2, <1>4
    <2>2. Edited' = Edited \cup {k}
      BY <2>1, <1>2 DEF Edited
    <2> QED BY <1>1, <1>3, <2>1, <2>2 DEF AtomicUpdate!Edit
  <1>5. CASE ~Copied(k)
    <2>1. orig' = [orig EXCEPT ![k] = file'[k]] /\ theirs' = theirs
      BY <1>5
    <2>2. Edited' = Edited
      BY <2>1 DEF Edited
    <2> QED BY <1>1, <1>3, <2>1, <2>2 DEF AtomicUpdate!Edit
  <1> QED BY <1>4, <1>5

\* The journal moves between states that decide nothing.
LEMMA BookkeepingStutters ==
  ASSUME TxInv,
         \/ MakeRoot \/ OpenJournal \/ StageCopy \/ StageRecord \/ Prepare \/ BeginCommit
         \/ CheckTarget \/ LogTarget \/ CommitFault \/ RollbackCheck
         \/ LoadJournal \/ RecoverCheck \/ CrashWriter \/ CrashRecoverer
  PROVE  UNCHANGED <<file, orig, Edited, raced, edits, Outcome>>
  <1> USE DEF MakeRoot, OpenJournal, StageCopy, StageRecord, Prepare, BeginCommit,
              CheckTarget, LogTarget, CommitFault, RollbackCheck, LoadJournal,
              RecoverCheck, CrashWriter, CrashRecoverer,
              disk, writer, recoverer, counters, history
  <1>1. UNCHANGED <<file, orig, theirs, raced, edits>>
    OBVIOUS
  <1>2. CASE journal' = journal
    BY <1>1, <1>2 DEF Edited, Outcome
  <1>3. CASE journal' # journal
    <2>1. journal.state \notin Final
      BY <1>3 DEF TxInv, Turns
    <2>2. journal'.state \notin Final
      <3>1. CASE OpenJournal \/ Prepare \/ BeginCommit
        BY <3>1 DEF TxInv, TypeOK
      <3>2. CASE LogTarget
        BY <3>2 DEF TxInv, TypeOK, Progress
      <3>3. CASE StageRecord
        <4>1. mem'.state = mem.state /\ journal' = mem' /\ mem.state = "OPEN"
          BY <1>3, <3>3, ZenonT(60) DEF TxInv, TypeOK, Progress
        <4> QED BY <4>1
      <3> QED BY <1>3, <3>1, <3>2, <3>3
    <2>3. Outcome = "pending" /\ Outcome' = "pending"
      BY <2>1, <2>2 DEF Outcome
    <2> QED BY <1>1, <2>3 DEF Edited
  <1> QED BY <1>2, <1>3

LEMMA InitRefines ==
  ASSUME Init PROVE AtomicUpdate!AtomicInit
  <1>1. Outcome = "pending"
    BY Pending DEF Init, EmptyJournal
  <1>2. Edited = {}
    BY DEF Init, Edited
  <1> QED BY <1>1, <1>2 DEF Init, AtomicUpdate!AtomicInit

LEMMA NextRefines ==
  ASSUME TxInv, [Next]_vars
  PROVE  [AtomicUpdate!AtomicNext]_<<file, orig, Edited, raced, edits, Outcome>>
  <1> USE DEF AtomicUpdate!AtomicNext
  <1>w. wi \in Op /\ ri \in Op
    BY DEF TxInv, TypeOK
  <1>1. CASE UNCHANGED vars
    BY <1>1 DEF vars, Edited, Outcome
  <1>2. CASE ReplaceTarget
    BY <1>2, <1>w, ReplaceRefines
  <1>3. CASE FinishCommit
    BY <1>3, FinishCommitRefines
  <1>4. CASE FinishRollback \/ FinishRecovery
    BY <1>4, AbortRefines
  <1>5. CASE RollbackRestore
    <2>1. CASE CanRestore(mem, wi)
      BY <1>5, <1>w, <2>1, RollbackRefines
    <2>2. CASE ~CanRestore(mem, wi)
      BY <1>5, <2>2 DEF RollbackRestore, recoverer, counters, history, Edited, Outcome
    <2> QED BY <2>1, <2>2
  <1>6. CASE RecoverRestore
    <2>1. CASE CanRestore(rec, ri)
      BY <1>6, <1>w, <2>1, RecoveryRefines
    <2>2. CASE ~CanRestore(rec, ri)
      BY <1>6, <2>2 DEF RecoverRestore, writer, counters, history, Edited, Outcome
    <2> QED BY <2>1, <2>2
  <1>7. CASE \E k \in Op : ExternalEdit(k)
    BY <1>7, EditRefines
  <1>8. CASE \/ MakeRoot \/ OpenJournal \/ StageCopy \/ StageRecord \/ Prepare
             \/ BeginCommit \/ CheckTarget \/ LogTarget \/ CommitFault \/ RollbackCheck
             \/ LoadJournal \/ RecoverCheck \/ CrashWriter \/ CrashRecoverer
    BY <1>8, BookkeepingStutters
  <1> QED BY <1>1, <1>2, <1>3, <1>4, <1>5, <1>6, <1>7, <1>8
          DEF Next, Write, Recover, Environment

\* With crashes, faults, outside edits and repeated recoveries, a journaled
\* transaction is an atomic update of its targets.
THEOREM TxImplementsAtomicUpdate ==
  ASSUME ~LiveRecovery PROVE Spec => IsAtomicUpdate
  <1>1. Init => AtomicUpdate!AtomicInit
    BY InitRefines
  <1>2. TxInv /\ [Next]_vars => [AtomicUpdate!AtomicNext]_<<file, orig, Edited, raced, edits, Outcome>>
    BY NextRefines
  <1> QED BY <1>1, <1>2, TxInvariant, PTL
          DEF Spec, IsAtomicUpdate, AtomicUpdate!Spec, AtomicUpdate!avars

=============================================================================
