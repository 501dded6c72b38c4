-------------------------- MODULE FileTransaction --------------------------
(***************************************************************************)
(* One journaled multi-file transaction (sage/transactions.py): the writer *)
(* that stages, commits and rolls back (class FileTransaction), and the    *)
(* recovery another process runs (recover_transaction).                    *)
(*                                                                         *)
(* Every file-system effect is a step: the journal, the backups and the    *)
(* targets survive a death, the writer's and the recoverer's copies of the *)
(* journal do not.  Operation i of the transaction replaces file i.  A     *)
(* digest is compared with a digest in the code; here the contents are     *)
(* compared.  Somebody outside SAGE (the operator's editor) may change a   *)
(* target at any moment.                                                   *)
(***************************************************************************)
EXTENDS Naturals

CONSTANTS
  N,             \* operations of the transaction, staged and committed in order
  Content,       \* what a file may hold
  Absent,        \* the file does not exist
  NoEdit,        \* nobody outside SAGE changed the file
  Payload,       \* what operation i writes
  LiveRecovery,  \* recovery may start while the writer is still running
  MaxCrash, MaxFault, MaxExternal \* bounds: deaths, I/O errors, outside edits

Op == 1 .. N
Value == Content \cup {Absent}

ASSUME NAssumption == N \in Nat \ {0}
ASSUME ContentAssumption == Absent \notin Content /\ NoEdit \notin Value
ASSUME PayloadAssumption == Payload \in [Op -> Content]
ASSUME BoundsAssumption ==
  LiveRecovery \in BOOLEAN /\ MaxCrash \in Nat /\ MaxFault \in Nat /\ MaxExternal \in Nat

VARIABLES
  file,     \* the targets
  backup,   \* backup/000i.old, or Absent
  journal,  \* journal.json; state "NONE" before the first write of it
  mem,      \* the writer's self.state and self.operations
  wpc, wi,  \* what the writer does next, and with which operation
  rec,      \* the recoverer's copy of the journal
  rpc, ri,  \* what the recoverer does next, and with which operation
  crashes, faults, edits, \* how often each has happened
  orig,     \* history: what the target held when its backup was taken
  theirs,   \* history: the last outside edit since then, or NoEdit
  raced     \* history: targets edited between a check and the step relying on it

vars == <<file, backup, journal, mem, wpc, wi, rec, rpc, ri,
          crashes, faults, edits, orig, theirs, raced>>
disk == <<file, backup, journal>>
writer == <<mem, wpc, wi>>
recoverer == <<rec, rpc, ri>>
counters == <<crashes, faults, edits>>
history == <<orig, theirs, raced>>

---------------------------------------------------------------------------
(* A journal lists the operations staged so far. *)

Final == {"COMMITTED", "ROLLED_BACK"}
JournalState == {"NONE", "OPEN", "PREPARED", "COMMITTING"} \cup Final
OpStatus == {"NONE", "STAGED", "COMMITTED", "ROLLED_BACK"}
Journal == [state : JournalState, status : [Op -> OpStatus], before : [Op -> Value]]

EmptyJournal == [state |-> "NONE",
                 status |-> [i \in Op |-> "NONE"], before |-> [i \in Op |-> Absent]]

WriterControl == {"new", "mkjournal", "copy", "record", "prepare", "commit", "check",
                  "replace", "log", "finish", "undo", "restore", "undone",
                  "done", "aborted", "failed", "dead"}
RecoverControl == {"idle", "undo", "restore", "undone"}

\* The writer is gone: it died, or its caller got a TransactionError that left
\* the journal unfinished.
WriterGone == wpc \in {"dead", "failed"}

Init ==
  /\ file \in [Op -> Value]
  /\ backup = [i \in Op |-> Absent]
  /\ journal = EmptyJournal
  /\ mem = EmptyJournal
  /\ wpc = "new" /\ wi = 1
  /\ rec = EmptyJournal /\ rpc = "idle" /\ ri = N
  /\ crashes = 0 /\ faults = 0 /\ edits = 0
  /\ orig = file
  /\ theirs = [i \in Op |-> NoEdit]
  /\ raced = {}

---------------------------------------------------------------------------
(* __init__ and stage_bytes *)

\* root.mkdir(); the journal comes with the next step.
MakeRoot ==
  /\ wpc = "new"
  /\ wpc' = "mkjournal"
  /\ UNCHANGED <<disk, mem, wi, recoverer, counters, history>>

OpenJournal ==
  /\ wpc = "mkjournal"
  /\ wpc' = "copy"
  /\ mem' = [mem EXCEPT !.state = "OPEN"]
  /\ journal' = mem'
  /\ UNCHANGED <<file, backup, wi, recoverer, counters, history>>

\* Does the target exist?  If so its backup is copied now ...
StageCopy ==
  /\ wpc = "copy"
  /\ wpc' = "record"
  /\ backup' = [backup EXCEPT ![wi] = file[wi]]
  /\ UNCHANGED <<file, journal, mem, wi, recoverer, counters, history>>

\* ... and its digest taken by a second read, with which the operation is
\* journaled.  A target that vanished in between is an error.
StageRecord ==
  /\ wpc = "record"
  /\ IF backup[wi] # Absent /\ file[wi] = Absent
     THEN /\ wpc' = "failed"
          /\ UNCHANGED <<mem, journal, wi>>
     ELSE /\ mem' = [mem EXCEPT
                       !.status[wi] = "STAGED",
                       !.before[wi] = IF backup[wi] = Absent THEN Absent ELSE file[wi]]
          /\ journal' = mem'
          /\ IF wi = N THEN wpc' = "prepare" /\ UNCHANGED wi
                       ELSE wpc' = "copy" /\ wi' = wi + 1
  /\ UNCHANGED <<file, backup, recoverer, counters, history>>

Prepare ==
  /\ wpc = "prepare"
  /\ wpc' = "commit"
  /\ mem' = [mem EXCEPT !.state = "PREPARED"]
  /\ journal' = mem'
  /\ UNCHANGED <<file, backup, wi, recoverer, counters, history>>

---------------------------------------------------------------------------
(* commit *)

BeginCommit ==
  /\ wpc = "commit"
  /\ wpc' = "check" /\ wi' = 1
  /\ mem' = [mem EXCEPT !.state = "COMMITTING"]
  /\ journal' = mem'
  /\ UNCHANGED <<file, backup, recoverer, counters, history>>

\* Mutant: the target is not compared with what was staged.
CheckNothing == TRUE
TargetAsStaged == file[wi] = mem.before[wi]

\* A target that changed or appeared since staging fails the commit.
CheckTarget ==
  /\ wpc = "check"
  /\ IF TargetAsStaged
     THEN wpc' = "replace" /\ UNCHANGED wi
     ELSE wpc' = "undo" /\ wi' = N
  /\ UNCHANGED <<disk, mem, recoverer, counters, history>>

ReplaceTarget ==
  /\ wpc = "replace"
  /\ wpc' = "log"
  /\ file' = [file EXCEPT ![wi] = Payload[wi]]
  /\ mem' = [mem EXCEPT !.status[wi] = "COMMITTED"]
  /\ UNCHANGED <<backup, journal, wi, recoverer, counters, history>>

LogTarget ==
  /\ wpc = "log"
  /\ journal' = mem
  /\ IF wi = N THEN wpc' = "finish" /\ UNCHANGED wi
               ELSE wpc' = "check" /\ wi' = wi + 1
  /\ UNCHANGED <<file, backup, mem, recoverer, counters, history>>

FinishCommit ==
  /\ wpc = "finish"
  /\ wpc' = "done"
  /\ mem' = [mem EXCEPT !.state = "COMMITTED"]
  /\ journal' = mem'
  /\ UNCHANGED <<file, backup, wi, recoverer, counters, history>>

\* An I/O error in the replace or in a journal write (before it took effect),
\* or an exception of the failure hook: commit() rolls back.
CommitFault ==
  /\ wpc \in {"replace", "log", "finish"}
  /\ faults < MaxFault
  /\ faults' = faults + 1
  /\ wpc' = "undo" /\ wi' = N
  /\ UNCHANGED <<disk, mem, recoverer, crashes, edits, history>>

---------------------------------------------------------------------------
(* rollback() and recover_transaction() undo the operations in reverse: look *)
(* at target and backup, then act.  j is the journal the process works from. *)

\* Mutant: an outside change is not looked for.
UndoIgnoringChange(j, i) ==
  IF j.status[i] = "COMMITTED" \/ (j.status[i] # "NONE" /\ file[i] = Payload[i])
  THEN "restore" ELSE "keep"

UndoVerdict(j, i) ==
  IF j.status[i] = "NONE" THEN "keep"
  ELSE IF j.status[i] = "COMMITTED" /\ file[i] # Payload[i] THEN "conflict"
  ELSE IF j.status[i] # "COMMITTED" /\ file[i] # Payload[i] THEN "keep"
  ELSE IF j.before[i] # Absent /\ backup[i] = Absent THEN "conflict"
  ELSE "restore"

\* os.replace moves the backup into place; a target that was new is unlinked.
CanRestore(j, i) == j.before[i] # Absent => backup[i] # Absent

Restore(j, i) ==
  IF j.before[i] # Absent
  THEN /\ file' = [file EXCEPT ![i] = backup[i]]
       /\ backup' = [backup EXCEPT ![i] = Absent]
  ELSE /\ file' = [file EXCEPT ![i] = Absent]
       /\ UNCHANGED backup

RolledBack(j, i) == [j EXCEPT !.status[i] = "ROLLED_BACK"]

\* On with the operation before i.
Onward(i) == IF i = 1 THEN "undone" ELSE "undo"
Before(i) == IF i = 1 THEN 1 ELSE i - 1

RollbackCheck ==
  /\ wpc = "undo"
  /\ wpc' = CASE UndoVerdict(mem, wi) = "restore" -> "restore"
              [] UndoVerdict(mem, wi) = "conflict" -> "failed"
              [] UndoVerdict(mem, wi) = "keep" -> Onward(wi)
  /\ wi' = IF UndoVerdict(mem, wi) = "keep" THEN Before(wi) ELSE wi
  /\ UNCHANGED <<disk, mem, recoverer, counters, history>>

RollbackRestore ==
  /\ wpc = "restore"
  /\ IF CanRestore(mem, wi)
     THEN /\ Restore(mem, wi)
          /\ mem' = RolledBack(mem, wi)
          /\ wpc' = Onward(wi) /\ wi' = Before(wi)
     ELSE /\ wpc' = "failed"
          /\ UNCHANGED <<file, backup, mem, wi>>
  /\ UNCHANGED <<journal, recoverer, counters, history>>

FinishRollback ==
  /\ wpc = "undone"
  /\ wpc' = "aborted"
  /\ mem' = [mem EXCEPT !.state = "ROLLED_BACK"]
  /\ journal' = mem'
  /\ UNCHANGED <<file, backup, wi, recoverer, counters, history>>

\* Mutant: only a commit that has begun is recovered.
LoadCommitting ==
  /\ rpc = "idle"
  /\ journal.state = "COMMITTING"
  /\ LiveRecovery \/ WriterGone
  /\ rec' = journal
  /\ rpc' = "undo" /\ ri' = N
  /\ UNCHANGED <<disk, writer, counters, history>>

\* Recovery lists a transaction whose journal is not final and loads it; one
\* without a journal is listed but cannot be loaded, so nothing starts.
LoadJournal ==
  /\ rpc = "idle"
  /\ journal.state \notin Final \cup {"NONE"}
  /\ LiveRecovery \/ WriterGone
  /\ rec' = journal
  /\ rpc' = "undo" /\ ri' = N
  /\ UNCHANGED <<disk, writer, counters, history>>

RecoverCheck ==
  /\ rpc = "undo"
  /\ rpc' = CASE UndoVerdict(rec, ri) = "restore" -> "restore"
              [] UndoVerdict(rec, ri) = "conflict" -> "idle"
              [] UndoVerdict(rec, ri) = "keep" -> Onward(ri)
  /\ ri' = IF UndoVerdict(rec, ri) = "keep" THEN Before(ri) ELSE ri
  /\ UNCHANGED <<disk, writer, rec, counters, history>>

RecoverRestore ==
  /\ rpc = "restore"
  /\ IF CanRestore(rec, ri)
     THEN /\ Restore(rec, ri)
          /\ rec' = RolledBack(rec, ri)
          /\ rpc' = Onward(ri) /\ ri' = Before(ri)
     ELSE /\ rpc' = "idle"
          /\ UNCHANGED <<file, backup, rec, ri>>
  /\ UNCHANGED <<journal, writer, counters, history>>

FinishRecovery ==
  /\ rpc = "undone"
  /\ rpc' = "idle"
  /\ journal' = [rec EXCEPT !.state = "ROLLED_BACK"]
  /\ UNCHANGED <<file, backup, writer, rec, ri, counters, history>>

---------------------------------------------------------------------------
(* The environment *)

CrashWriter ==
  /\ crashes < MaxCrash
  /\ wpc \notin {"new", "done", "aborted", "failed", "dead"}
  /\ crashes' = crashes + 1
  /\ wpc' = "dead"
  /\ UNCHANGED <<disk, mem, wi, recoverer, faults, edits, history>>

CrashRecoverer ==
  /\ crashes < MaxCrash
  /\ rpc # "idle"
  /\ crashes' = crashes + 1
  /\ rpc' = "idle"
  /\ UNCHANGED <<disk, writer, rec, ri, faults, edits, history>>

\* A process has looked at target i and is about to rely on what it saw.
InWindow(i) == \/ wi = i /\ wpc \in {"record", "replace", "restore"}
               \/ ri = i /\ rpc = "restore"

\* Target i has been copied to its backup.
Copied(i) == mem.status[i] # "NONE" \/ (wpc = "record" /\ wi = i)

ExternalEdit(i) ==
  /\ edits < MaxExternal
  /\ edits' = edits + 1
  /\ \E v \in Value \ {file[i]} : file' = [file EXCEPT ![i] = v]
  /\ IF Copied(i)
     THEN theirs' = [theirs EXCEPT ![i] = file'[i]] /\ UNCHANGED orig
     ELSE orig' = [orig EXCEPT ![i] = file'[i]] /\ UNCHANGED theirs
  /\ raced' = IF InWindow(i) THEN raced \cup {i} ELSE raced
  /\ UNCHANGED <<backup, journal, writer, recoverer, crashes, faults>>

Write == MakeRoot \/ OpenJournal \/ StageCopy \/ StageRecord \/ Prepare
          \/ BeginCommit \/ CheckTarget \/ ReplaceTarget \/ LogTarget \/ FinishCommit
          \/ CommitFault
          \/ RollbackCheck \/ RollbackRestore \/ FinishRollback
Recover == LoadJournal \/ RecoverCheck \/ RecoverRestore \/ FinishRecovery
Environment == CrashWriter \/ CrashRecoverer \/ \E i \in Op : ExternalEdit(i)

Next == Write \/ Recover \/ Environment

Spec == Init /\ [][Next]_vars

\* A writer that does not die runs to the end, and the operator runs
\* `sage transactions --recover` as long as something is left to recover.
FairSpec == Spec /\ WF_vars(Write) /\ WF_vars(Recover)

---------------------------------------------------------------------------
(* Properties *)

\* Types of the variables; the journal never lists more than is staged, and a
\* journal past OPEN lists every operation.
TypeOK ==
  /\ file \in [Op -> Value] /\ backup \in [Op -> Value]
  /\ journal \in Journal /\ mem \in Journal /\ rec \in Journal
  /\ wpc \in WriterControl /\ wi \in Op
  /\ rpc \in RecoverControl /\ ri \in Op
  /\ crashes \in 0 .. MaxCrash /\ faults \in 0 .. MaxFault /\ edits \in 0 .. MaxExternal
  /\ orig \in [Op -> Value] /\ theirs \in [Op -> Value \cup {NoEdit}] /\ raced \subseteq Op
  /\ journal.state \in {"PREPARED", "COMMITTING", "COMMITTED"} =>
       \A i \in Op : journal.status[i] # "NONE"

\* A journal that says COMMITTED stands for all targets replaced, one that says
\* ROLLED_BACK for all targets restored (transactions.py:30-36), except where
\* somebody outside SAGE has changed a target since.
AllOrNothing ==
  \A i \in Op : theirs[i] = NoEdit =>
    /\ journal.state = "COMMITTED" => file[i] = Payload[i]
    /\ journal.state = "ROLLED_BACK" => file[i] = orig[i]

\* Until the transaction commits, what a target held before it is never lost:
\* it is in the target or in its backup (transactions.py:77-78, 171-172).
OriginalKept ==
  \A i \in Op :
    journal.state # "COMMITTED" /\ theirs[i] = NoEdit =>
      orig[i] = Absent \/ file[i] = orig[i] \/ backup[i] = orig[i]

\* An outside edit that a later step could still have noticed is there as long
\* as its author leaves it (transactions.py:143-150, 179-182): neither commit
\* nor rollback nor recovery overwrites it.  An edit that leaves exactly what
\* was staged from, or the payload, cannot be told from SAGE's own content.
OutsideEditKept ==
  \A i \in Op \ raced :
    theirs[i] \notin {NoEdit, orig[i], Payload[i]} => file[i] = theirs[i]

\* Once the journal records an outcome no step changes it or moves a target of
\* the transaction again.
OutcomeIsFinal ==
  [][journal.state \in Final =>
       journal' = journal /\ (edits' = edits => file' = file)]_vars

\* An interrupted transaction is rolled back by recovery, and a running one
\* ends by itself ("a durable journal that can deterministically roll back an
\* interrupted commit", transactions.py:34), as far as the code keeps the
\* promise: after one death, of the writer or of the recoverer, or one I/O
\* error, and without outside edits.  A second death, of the recoverer between
\* moving a backup back and its one journal write (lines 240 and 248), leaves a
\* journal that contradicts the targets.
JournalResolvedAfterOneFailure ==
  (journal.state # "NONE") ~>
    (journal.state \in Final \/ crashes + faults > 1 \/ edits > 0)

---------------------------------------------------------------------------
(* Refinement: what the transaction promises of all its targets at once. *)

Outcome == CASE journal.state = "COMMITTED" -> "committed"
             [] journal.state = "ROLLED_BACK" -> "rolled back"
             [] OTHER -> "pending"

Edited == {i \in Op : theirs[i] # NoEdit}

AtomicUpdate == INSTANCE AtomicUpdate WITH Target <- Op, outcome <- Outcome, edited <- Edited

\* The transaction is an atomic update of its targets: while the journal is
\* open a target moves only between its old content and the payload, the
\* outcome is decided only when all untouched targets agree, and is final.
IsAtomicUpdate == AtomicUpdate!Spec
=============================================================================
