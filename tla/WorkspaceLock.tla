--------------------------- MODULE WorkspaceLock ---------------------------
(***************************************************************************)
(* The directory lock every SAGE writer takes (sage/locking.py), and the   *)
(* guarded variant the NCA workflow uses (sage/numbers/replay.py).         *)
(*                                                                         *)
(* A lock is a directory holding an owner receipt.  mkdir is atomic, but   *)
(* mkdir and the receipt are two steps, and so are the two halves of       *)
(* shutil.rmtree: the model keeps each file-system call a step of its own, *)
(* lets any process in Crashable die between any two of them, and keeps    *)
(* the three disciplines of the code apart:                                *)
(*   "plain"  WorkspaceLock(path, op): a lock that is there is an error;   *)
(*   "stale"  WorkspaceLock(path, op, break_stale=True);                   *)
(*   "nca"    NcaWorkspaceLock: break_stale under an OS advisory guard,    *)
(*            with a stricter reading of the receipt.                      *)
(* One path is modelled; the process id stands for the receipt, which      *)
(* names host and operation as well.                                       *)
(***************************************************************************)
EXTENDS FiniteSets

CONSTANTS Proc,       \* processes that may take the lock
          Kind,       \* the discipline each one uses
          Host,       \* the host each one runs on
          Operation,  \* the operation each one takes it for
          Crashable,  \* the processes that may die
          NoProc        \* no receipt, no guard holder, no directory maker

Kinds == {"plain", "stale", "nca"}

ASSUME KindAssumption == Kind \in [Proc -> Kinds]
ASSUME HostAssumption == DOMAIN Host = Proc
ASSUME OperationAssumption == DOMAIN Operation = Proc
ASSUME CrashAssumption == Crashable \subseteq Proc
ASSUME NoProcAssumption == NoProc \notin Proc

VARIABLES
  dir,      \* the lock directory exists
  receipt,  \* the process owner.json names, or NoProc when it is absent
  guard,    \* the process holding the advisory lock on <name>.guard
  pc,       \* what each process does next
  maker     \* history: the process whose mkdir made the directory

lockVars == <<dir, receipt, guard, pc, maker>>

(***************************************************************************)
(* Control states.  Until "held" a process is in acquire(); the two        *)
(* "release" states are the halves of the rmtree in release().             *)
(***************************************************************************)
Control == {"idle", "mkdir", "inspect", "break_unlink", "break_rmdir",
            "remake", "made", "held", "release_unlink", "release_rmdir",
            "dead"}

LockInit ==
  /\ dir = FALSE
  /\ receipt = NoProc
  /\ guard = NoProc
  /\ pc = [p \in Proc |-> "idle"]
  /\ maker = NoProc

GoTo(p, c) == pc' = [pc EXCEPT ![p] = c]

\* Leaving acquire() on an error, or release(): NcaWorkspaceLock closes its
\* guard on both ways out (lines 328-333 and 336-341).
Leave(p) ==
  /\ GoTo(p, "idle")
  /\ guard' = IF guard = p THEN NoProc ELSE guard

---------------------------------------------------------------------------
(* Which receipts acquire() treats as stale. *)

ProvablyDead(p, q) == Host[q] = Host[p] /\ pc[q] = "dead"

BaseStale(p) == receipt = NoProc \/ ProvablyDead(p, receipt)

\* Mutant: a directory without a receipt counts as stale, as in the base class.
NcaStaleAnyReceipt(p) == receipt = NoProc \/ ProvablyDead(p, receipt)
\* Only a dead owner of the same operation is stale (line 285).
NcaStale(p) ==
  /\ receipt # NoProc
  /\ Operation[receipt] = Operation[p]
  /\ ProvablyDead(p, receipt)

\* Mutant: no stale lock is ever broken.
NeverBreaks(p) == FALSE
MayBreak(p) ==
  \/ Kind[p] = "stale" /\ BaseStale(p)
  \/ Kind[p] = "nca" /\ NcaStale(p)

---------------------------------------------------------------------------
(* acquire() *)

\* Mutant: an "nca" process does not take the guard.
StartUnguarded(p) ==
  /\ pc[p] = "idle"
  /\ GoTo(p, "mkdir")
  /\ UNCHANGED <<dir, receipt, guard, maker>>

\* An "nca" process first takes the guard without waiting; held, it is an error.
Start(p) ==
  /\ pc[p] = "idle"
  /\ Kind[p] = "nca" => guard = NoProc
  /\ guard' = IF Kind[p] = "nca" THEN p ELSE guard
  /\ GoTo(p, "mkdir")
  /\ UNCHANGED <<dir, receipt, maker>>

Mkdir(p) ==
  /\ pc[p] = "mkdir"
  /\ IF dir
     THEN GoTo(p, "inspect") /\ UNCHANGED <<dir, maker>>
     ELSE GoTo(p, "made") /\ dir' = TRUE /\ maker' = p
  /\ UNCHANGED <<receipt, guard>>

\* Read the receipt and probe its process; LockError unless it may be broken.
Inspect(p) ==
  /\ pc[p] = "inspect"
  /\ IF MayBreak(p)
     THEN GoTo(p, "break_unlink") /\ UNCHANGED guard
     ELSE Leave(p)
  /\ UNCHANGED <<dir, receipt, maker>>

\* rmtree: unlink the entries, then rmdir.  A missing directory and a
\* directory that filled up again are errors.
BreakUnlink(p) ==
  /\ pc[p] = "break_unlink"
  /\ IF dir
     THEN GoTo(p, "break_rmdir") /\ receipt' = NoProc /\ UNCHANGED guard
     ELSE Leave(p) /\ UNCHANGED receipt
  /\ UNCHANGED <<dir, maker>>

BreakRmdir(p) ==
  /\ pc[p] = "break_rmdir"
  /\ IF dir /\ receipt = NoProc
     THEN GoTo(p, "remake") /\ dir' = FALSE /\ maker' = NoProc /\ UNCHANGED guard
     ELSE Leave(p) /\ UNCHANGED <<dir, maker>>
  /\ UNCHANGED receipt

Remake(p) ==
  /\ pc[p] = "remake"
  /\ IF dir
     THEN Leave(p) /\ UNCHANGED <<dir, maker>>
     ELSE GoTo(p, "made") /\ dir' = TRUE /\ maker' = p /\ UNCHANGED guard
  /\ UNCHANGED receipt

\* atomic_write_json makes missing parents, so it succeeds even when another
\* process has removed the directory meanwhile.
WriteReceipt(p) ==
  /\ pc[p] = "made"
  /\ dir' = TRUE
  /\ maker' = IF dir THEN maker ELSE p
  /\ receipt' = p
  /\ GoTo(p, "held")
  /\ UNCHANGED guard

---------------------------------------------------------------------------
(* release() *)

\* Nothing to do when the path is gone; LockError when another process owns it.
Release(p) ==
  /\ pc[p] = "held"
  /\ IF dir /\ receipt = p
     THEN GoTo(p, "release_unlink") /\ UNCHANGED guard
     ELSE Leave(p)
  /\ UNCHANGED <<dir, receipt, maker>>

ReleaseUnlink(p) ==
  /\ pc[p] = "release_unlink"
  /\ IF dir
     THEN GoTo(p, "release_rmdir") /\ receipt' = NoProc /\ UNCHANGED guard
     ELSE Leave(p) /\ UNCHANGED receipt
  /\ UNCHANGED <<dir, maker>>

ReleaseRmdir(p) ==
  /\ pc[p] = "release_rmdir"
  /\ IF dir /\ receipt = NoProc
     THEN dir' = FALSE /\ maker' = NoProc
     ELSE UNCHANGED <<dir, maker>>
  /\ Leave(p)
  /\ UNCHANGED receipt

---------------------------------------------------------------------------
\* Process death: files stay, the operating system drops the advisory guard.
Crash(p) ==
  /\ p \in Crashable
  /\ pc[p] \notin {"idle", "dead"}
  /\ GoTo(p, "dead")
  /\ guard' = IF guard = p THEN NoProc ELSE guard
  /\ UNCHANGED <<dir, receipt, maker>>

Step(p) ==
  \/ Start(p) \/ Mkdir(p) \/ Inspect(p)
  \/ BreakUnlink(p) \/ BreakRmdir(p) \/ Remake(p) \/ WriteReceipt(p)
  \/ Release(p) \/ ReleaseUnlink(p) \/ ReleaseRmdir(p)

LockNext == \E p \in Proc : Step(p) \/ Crash(p)

LockSpec == LockInit /\ [][LockNext]_lockVars

\* A live process runs on, and its operator tries the operation again after a
\* LockError; nothing obliges a process to die.
FairLockSpec == LockSpec /\ \A p \in Proc : WF_lockVars(Step(p))

---------------------------------------------------------------------------
(* Properties *)

\* Types of the variables; a receipt is a file of the lock directory.
LockTypeOK ==
  /\ dir \in BOOLEAN
  /\ receipt \in Proc \cup {NoProc}
  /\ receipt # NoProc => dir
  /\ guard \in Proc \cup {NoProc}
  /\ pc \in [Proc -> Control]
  /\ maker \in Proc \cup {NoProc}

\* At most one process is between acquire() and release(): what menu.py:4044,
\* the transaction writers and the NCA phase ledger rely on.
MutualExclusion ==
  \A p, q \in Proc : pc[p] = "held" /\ pc[q] = "held" => p = q

\* While a process holds the lock, the directory and its own receipt are there,
\* so its release() neither finds the lock gone nor refuses (locking.py:97-101).
HolderKeepsReceipt ==
  \A p \in Proc : pc[p] = "held" => dir /\ receipt = p

MayRecover(p, q) == Kind[p] = "nca" /\ Host[p] = Host[q] /\ Operation[p] = Operation[q]

\* acquire() recovers "only a provably stale same-host owner" (locking.py:79):
\* the step that empties somebody's lock directory to break it does so only
\* when the process that made that directory is dead and on the same host.
BreaksOnlyDeadOwner ==
  [][\A p \in Proc :
       pc[p] = "break_unlink" /\ pc'[p] = "break_rmdir"
         => maker # NoProc /\ ProvablyDead(p, maker)]_lockVars

\* A lock whose receipt was written before its owner died does not stay: some
\* guarded process of that host and that operation, if one is left alive, takes
\* it over (replay.py:281).  Not covered are a directory whose receipt never came
\* and the receipt of another operation: a restart (nca.py:198) that dies holding
\* the lock of an execution (nca.py:525) leaves it to the operator.
DeadReceiptRecovered ==
  \A q \in Proc :
    (receipt = q /\ pc[q] = "dead")
      ~> (receipt # q \/ \A p \in Proc : MayRecover(p, q) => pc[p] = "dead")
=============================================================================
