---------------------------- MODULE JobSnapshots ----------------------------
(***************************************************************************)
(* The Jobs of one WIP Project and one workflow, one for each date the     *)
(* Project was imported on, their snapshots of its text, and the Runs that *)
(* seal a snapshot as their evidence: JobStore (jobs.py), job_snapshots.py *)
(* and, for NCA, the policy written beside the evidence (policy.py).       *)
(*                                                                         *)
(* A text is the number of the import that brought it, and a snapshot of a *)
(* Job is its text: capture_wip_snapshot hashes what it has copied, so it  *)
(* is whole by itself.  The copy a Run makes of it is not, and is made     *)
(* book by book.                                                           *)
(***************************************************************************)
EXTENDS Naturals, Sequences, FiniteSets

CONSTANTS
    Sessions,   \* menus and commands at work on the Jobs
    Books,      \* books of the Project
    ImportDay,  \* the import date of each text, a sequence of days
    MaxRuns,    \* bound: Runs of one Job
    Settings    \* the tool, whether commands take turns, whether Jobs are made by hand as
                \* well, and the bounds of an instance

Imports == DOMAIN ImportDay
Days == {ImportDay[i] : i \in Imports}

ASSUME JobSnapshotsAssumption ==
    /\ MaxRuns \in Nat
    /\ ImportDay \in Seq(Nat \ {0}) /\ ImportDay # <<>>
    /\ Settings \subseteq [tool : {"rtc", "nca"}, turns : BOOLEAN, byHand : BOOLEAN,
                           deaths : Nat, errors : Nat, runs : Nat]

ASSUME JobNamesAssumption == {"free", "dead"} \cap Sessions = {}

VARIABLES
    setting,         \* which instance this behaviour is of
    wip,             \* the text the Project has
    job,             \* the root of each Job and its job.yml
    snap,            \* the text in the snapshot directory of each Job, 0 without one
    run,             \* the Runs of each Job, by number
    current,         \* active-run.json of each Job, 0 without one
    lock,            \* run-create.lock and snapshot-refresh.lock of each Job
    pc, my,          \* the step each session is at and what it has read
    deaths, errors,  \* sessions killed and I/O errors so far
    torn,            \* history variable: the Jobs on which a refresh was cut off
                     \* between moving the old snapshot away and recording the new one
    removed          \* history variable: the Jobs removed by the session that was making
                     \* them when others could open them already

disk == <<job, snap, run, current>>
bounds == <<setting, deaths, errors, torn, removed>>
vars == <<setting, wip, job, snap, run, current, lock, pc, my, deaths, errors, torn, removed>>

Texts == {0} \cup Imports
Numbers == 1 .. MaxRuns
NoDay == 0

NoJob == [state |-> "none", text |-> 0, replacedBy |-> NoDay]
Bare == [NoJob EXCEPT !.state = "bare"]          \* directories without a job.yml
Active(text) == [state |-> "ACTIVE", text |-> text, replacedBy |-> NoDay]
NoRun == [state |-> "none", files |-> [b \in Books |-> 0], receipt |-> 0, policy |-> 0]
Nothing == [job |-> NoDay, new |-> NoDay, n |-> 0, old |-> 0, todo |-> {},
            receipt |-> 0, staged |-> 0, backup |-> 0]

Steps == {"idle", "lockRun", "begin", "copy", "policy", "publish", "point", "abandon", "repoint",
          "clear", "lockRefresh", "capture", "moveOld", "moveNew", "record", "finish",
          "rbRemove", "rbRestore", "rbRecord",
          "check", "make", "mkdir", "captureNew", "writeNew", "adopt", "archive", "dropOld"}
RunSteps == {"begin", "copy", "policy", "publish", "point"}
RefreshSteps == {"capture", "moveOld", "moveNew", "record", "finish", "rbRemove", "rbRestore",
                 "rbRecord", "check", "archive", "dropOld"}
CreateSteps == {"make", "mkdir", "captureNew", "writeNew", "adopt"}

TypeOK ==
    /\ setting \in Settings
    /\ wip \in Imports
    /\ job \in [Days -> [state : {"none", "bare", "ACTIVE", "ARCHIVED"}, text : Texts,
                         replacedBy : Days \cup {NoDay}]]
    /\ snap \in [Days -> Texts]
    /\ run \in [Days -> [Numbers -> [state : {"none", "making", "open", "done", "abandoned"},
                                     files : [Books -> Texts], receipt : Texts, policy : Texts]]]
    /\ current \in [Days -> {0} \cup Numbers]
    /\ lock \in [Days -> [{"create", "refresh"} -> Sessions \cup {"free", "dead"}]]
    /\ pc \in [Sessions -> Steps]
    /\ my \in [Sessions -> [job : Days \cup {NoDay}, new : Days \cup {NoDay},
                            n : {0} \cup Numbers, old : {0} \cup Numbers, todo : SUBSET Books,
                            receipt : Texts, staged : Texts, backup : Texts]]
    /\ deaths \in Nat /\ errors \in Nat
    /\ {torn, removed} \subseteq SUBSET Days

\* One Job, created from the first import.
Init ==
    /\ setting \in Settings
    /\ wip = 1
    /\ job = [d \in Days |-> IF d = ImportDay[1] THEN Active(1) ELSE NoJob]
    /\ snap = [d \in Days |-> IF d = ImportDay[1] THEN 1 ELSE 0]
    /\ run = [d \in Days |-> [n \in Numbers |-> NoRun]]
    /\ current = [d \in Days |-> 0]
    /\ lock = [d \in Days |-> [k \in {"create", "refresh"} |-> "free"]]
    /\ pc = [s \in Sessions |-> "idle"]
    /\ my = [s \in Sessions |-> Nothing]
    /\ deaths = 0 /\ errors = 0
    /\ torn = {} /\ removed = {}

----------------------------------------------------------------------------
(***************************************************************************)
(* What the store answers.                                                 *)
(***************************************************************************)

Manifest(d) == job[d].state \in {"ACTIVE", "ARCHIVED"}

\* load_job: the snapshot must be the one job.yml names; an archived Job may be without.
Loads(d) ==
    /\ Manifest(d)
    /\ \/ snap[d] # 0 /\ snap[d] = job[d].text
       \/ snap[d] = 0 /\ job[d].state = "ARCHIVED"

Usable(d) == Loads(d) /\ job[d].state = "ACTIVE"

\* A Run is listed once its run.json is there.
Listed(r) == r.state \in {"open", "done", "abandoned"}
Open(d) == {n \in Numbers : run[d][n].state = "open"}

\* active_run: a pointer to a Run that is closed or gone counts as none.
ActiveRun(d) == IF current[d] \in Open(d) THEN current[d] ELSE 0

\* A directory takes a number, be its Run listed or not.
Taken(d) == {n \in Numbers : run[d][n].state # "none"}
NextNumber(d) == CHOOSE n \in 1 .. MaxRuns + 1 :
                    /\ \A m \in Taken(d) : m < n
                    /\ n = 1 \/ n - 1 \in Taken(d)
RunsMade == Cardinality({p \in Days \X Numbers : run[p[1]][p[2]].state # "none"})

----------------------------------------------------------------------------
(***************************************************************************)
(* Sessions and their locks.                                               *)
(***************************************************************************)

Ready(s) ==
    /\ pc[s] = "idle"
    /\ setting.turns => \A t \in Sessions : pc[t] = "idle"

Go(s, step) == pc' = [pc EXCEPT ![s] = step]
Learn(s, what) == my' = [my EXCEPT ![s] = what]
Return(s) == Go(s, "idle") /\ Learn(s, Nothing)

\* A plain WorkspaceLock: taken at once or refused.
TakeLock(s, k, next) ==
    /\ IF lock[my[s].job][k] = "free"
         THEN lock' = [lock EXCEPT ![my[s].job][k] = s] /\ Go(s, next) /\ UNCHANGED my
         ELSE Return(s) /\ UNCHANGED lock
    /\ UNCHANGED <<wip, disk, bounds>>

Release(s, k) == lock' = [lock EXCEPT ![my[s].job][k] = "free"]

\* A refresh holds the refresh lock of the Job it began with; a Job made by hand has none.
ReleaseRefresh(s) == IF my[s].job = NoDay THEN UNCHANGED lock ELSE Release(s, "refresh")

\* The operator removes the lock of a dead command.
ClearLock(d, k) ==
    /\ lock[d][k] = "dead"
    /\ lock' = [lock EXCEPT ![d][k] = "free"]
    /\ UNCHANGED <<wip, disk, pc, my, bounds>>

\* The Project is imported again.
Reimport ==
    /\ wip + 1 \in Imports
    /\ wip' = wip + 1
    /\ UNCHANGED <<disk, lock, pc, my, bounds>>

----------------------------------------------------------------------------
(***************************************************************************)
(* create_run, and the restarts that put a new Run in the place of an open *)
(* one.                                                                    *)
(***************************************************************************)

\* The menu offers a new Run when no Run is active.
StartRun(s, d) ==
    /\ Ready(s) /\ Usable(d) /\ ActiveRun(d) = 0 /\ RunsMade < setting.runs
    /\ Go(s, "lockRun") /\ Learn(s, [Nothing EXCEPT !.job = d])
    /\ UNCHANGED <<wip, disk, lock, bounds>>

\* restart_run and restart_nca_run, of the active Run.
StartRestart(s, d) ==
    /\ Ready(s) /\ Usable(d) /\ ActiveRun(d) # 0 /\ RunsMade < setting.runs
    /\ Go(s, "lockRun") /\ Learn(s, [Nothing EXCEPT !.job = d, !.old = ActiveRun(d)])
    /\ UNCHANGED <<wip, disk, lock, bounds>>

LockRun(s) == pc[s] = "lockRun" /\ TakeLock(s, "create", "begin")

SetRun(s, r) == run' = [run EXCEPT ![my[s].job][my[s].n] = r]
MyRun(s) == run[my[s].job][my[s].n]

\* An error removes the directory of the Run and gives up the lock.
UndoRun(s) ==
    /\ IF my[s].n = 0 THEN UNCHANGED run ELSE SetRun(s, NoRun)
    /\ Release(s, "create") /\ Return(s)
    /\ UNCHANGED <<job, snap, current>>

\* NCA has one active Run, which only its own restart may replace.  The receipt of
\* the Job is read and its snapshot verified.
Begin(s) ==
    /\ pc[s] = "begin"
    /\ LET d == my[s].job
           n == NextNumber(d)
       IN IF snap[d] = 0 \/ (setting.tool = "nca" /\ ActiveRun(d) # my[s].old)
            THEN UndoRun(s)
            ELSE /\ n \in Numbers
                 /\ run' = [run EXCEPT ![d][n] = [NoRun EXCEPT !.state = "making"]]
                 /\ Go(s, "copy")
                 /\ Learn(s, [my[s] EXCEPT !.n = n, !.receipt = snap[d], !.todo = Books])
                 /\ UNCHANGED <<job, snap, current, lock>>
    /\ UNCHANGED <<wip, bounds>>

\* shutil.copytree takes each book from what the path then names.
CopyBook(s) ==
    /\ pc[s] = "copy"
    /\ \E b \in my[s].todo :
          IF snap[my[s].job] = 0
            THEN UndoRun(s)
            ELSE /\ SetRun(s, [MyRun(s) EXCEPT !.files[b] = snap[my[s].job]])
                 /\ Learn(s, [my[s] EXCEPT !.todo = @ \ {b}])
                 /\ UNCHANGED <<pc, job, snap, current, lock>>
    /\ UNCHANGED <<wip, bounds>>

\* Mutant: the copy is not verified against the receipt.
SealUnverified(s) ==
    /\ pc[s] = "copy" /\ my[s].todo = {}
    /\ SetRun(s, [MyRun(s) EXCEPT !.receipt = my[s].receipt])
    /\ Go(s, IF setting.tool = "nca" THEN "policy" ELSE "publish")
    /\ UNCHANGED <<my, job, snap, current, lock, wip, bounds>>

\* The receipt is written into the copy, which is verified against it.
Seal(s) ==
    /\ pc[s] = "copy" /\ my[s].todo = {}
    /\ IF \E b \in Books : MyRun(s).files[b] # my[s].receipt
         THEN UndoRun(s)
         ELSE /\ SetRun(s, [MyRun(s) EXCEPT !.receipt = my[s].receipt])
              /\ Go(s, IF setting.tool = "nca" THEN "policy" ELSE "publish")
              /\ UNCHANGED <<my, job, snap, current, lock>>
    /\ UNCHANGED <<wip, bounds>>

\* write_nca_run_snapshot: the policy names the text the Job has now, and is refused
\* unless that is the text of the evidence.
SealPolicy(s) ==
    /\ pc[s] = "policy"
    /\ IF snap[my[s].job] # MyRun(s).receipt
         THEN UndoRun(s)
         ELSE /\ SetRun(s, [MyRun(s) EXCEPT !.policy = snap[my[s].job]])
              /\ Go(s, "publish")
              /\ UNCHANGED <<my, job, snap, current, lock>>
    /\ UNCHANGED <<wip, bounds>>

\* run.json and status.json.
PublishRun(s) ==
    /\ pc[s] = "publish"
    /\ SetRun(s, [MyRun(s) EXCEPT !.state = "open"])
    /\ Go(s, "point")
    /\ UNCHANGED <<wip, my, job, snap, current, lock, bounds>>

\* active-run.json, the last-run pointer and the end of the lock.
PointRun(s) ==
    /\ pc[s] = "point"
    /\ current' = [current EXCEPT ![my[s].job] = my[s].n]
    /\ Release(s, "create")
    /\ IF my[s].old = 0 THEN Return(s) ELSE Go(s, "abandon") /\ UNCHANGED my
    /\ UNCHANGED <<wip, job, snap, run, bounds>>

\* update_run of the Run that was replaced; it opens the Job first.
AbandonOld(s) ==
    /\ pc[s] = "abandon"
    /\ IF Loads(my[s].job) /\ Listed(run[my[s].job][my[s].old])
         THEN /\ run' = [run EXCEPT ![my[s].job][my[s].old].state = "abandoned"]
              /\ Go(s, "repoint") /\ UNCHANGED my
         ELSE Return(s) /\ UNCHANGED run
    /\ UNCHANGED <<wip, job, snap, current, lock, bounds>>

\* set_active_run refuses a closed Run.
Repoint(s) ==
    /\ pc[s] = "repoint"
    /\ current' = IF MyRun(s).state = "open"
                    THEN [current EXCEPT ![my[s].job] = my[s].n] ELSE current
    /\ Return(s)
    /\ UNCHANGED <<wip, job, snap, run, lock, bounds>>

----------------------------------------------------------------------------
(***************************************************************************)
(* The end of a Run.                                                       *)
(***************************************************************************)

\* update_run drops a pointer to the Run it closes.
CloseRun(s, d, n) ==
    /\ Ready(s) /\ Usable(d) /\ n \in Open(d)
    /\ run' = [run EXCEPT ![d][n].state = "done"]
    /\ current' = IF current[d] = n THEN [current EXCEPT ![d] = 0] ELSE current
    /\ Go(s, "clear") /\ Learn(s, [Nothing EXCEPT !.job = d])
    /\ UNCHANGED <<wip, job, snap, lock, bounds>>

\* The menu then clears the pointer, whichever Run it names.
ClearPointer(s) ==
    /\ pc[s] = "clear"
    /\ current' = [current EXCEPT ![my[s].job] = 0]
    /\ Return(s)
    /\ UNCHANGED <<wip, job, snap, run, lock, bounds>>

----------------------------------------------------------------------------
(***************************************************************************)
(* refresh_job_snapshot.                                                   *)
(***************************************************************************)

\* Mutant: an open Run does not refuse a refresh.
StartRefreshAnyway(s, d) ==
    /\ Ready(s) /\ Usable(d) /\ snap[d] # wip
    /\ Go(s, "lockRefresh")
    /\ Learn(s, [Nothing EXCEPT !.job = d, !.new = ImportDay[wip]])
    /\ UNCHANGED <<wip, disk, lock, bounds>>

\* The checks come before the lock.  The operator refreshes when there is a new text.
StartRefresh(s, d) ==
    /\ Ready(s) /\ Usable(d) /\ snap[d] # wip
    /\ Open(d) = {}
    /\ Go(s, "lockRefresh")
    /\ Learn(s, [Nothing EXCEPT !.job = d, !.new = ImportDay[wip]])
    /\ UNCHANGED <<wip, disk, lock, bounds>>

LockRefresh(s) ==
    /\ pc[s] = "lockRefresh"
    /\ TakeLock(s, "refresh", IF my[s].new = my[s].job THEN "capture" ELSE "check")

Refuse(s) ==
    /\ ReleaseRefresh(s) /\ Return(s)
    /\ UNCHANGED <<job, snap, run, current>>

\* On the same date: the new snapshot is made aside.
Capture(s) ==
    /\ pc[s] = "capture"
    /\ Learn(s, [my[s] EXCEPT !.staged = wip])
    /\ Go(s, "moveOld")
    /\ UNCHANGED <<wip, disk, lock, bounds>>

MoveOld(s) ==
    /\ pc[s] = "moveOld"
    /\ IF snap[my[s].job] = 0
         THEN Refuse(s)
         ELSE /\ Learn(s, [my[s] EXCEPT !.backup = snap[my[s].job]])
              /\ snap' = [snap EXCEPT ![my[s].job] = 0]
              /\ Go(s, "moveNew")
              /\ UNCHANGED <<job, run, current, lock>>
    /\ UNCHANGED <<wip, bounds>>

MoveNew(s) ==
    /\ pc[s] = "moveNew"
    /\ snap' = [snap EXCEPT ![my[s].job] = my[s].staged]
    /\ Go(s, "record")
    /\ UNCHANGED <<wip, my, job, run, current, lock, bounds>>

Record(s) ==
    /\ pc[s] = "record"
    /\ job' = [job EXCEPT ![my[s].job].text = my[s].staged]
    /\ Go(s, "finish")
    /\ UNCHANGED <<wip, my, snap, run, current, lock, bounds>>

\* The Job is opened again, and the old snapshot removed with the temporary directory.
Finish(s) ==
    /\ pc[s] = "finish"
    /\ IF Loads(my[s].job)
         THEN Refuse(s)
         ELSE Go(s, "rbRemove") /\ UNCHANGED <<my, disk, lock>>
    /\ UNCHANGED <<wip, bounds>>

\* The exception handler, when both have been moved.
RollbackRemove(s) ==
    /\ pc[s] = "rbRemove"
    /\ snap' = [snap EXCEPT ![my[s].job] = 0]
    /\ Go(s, "rbRestore")
    /\ UNCHANGED <<wip, my, job, run, current, lock, bounds>>

RollbackRestore(s) ==
    /\ pc[s] = "rbRestore"
    /\ snap' = [snap EXCEPT ![my[s].job] = my[s].backup]
    /\ Go(s, "rbRecord")
    /\ UNCHANGED <<wip, my, job, run, current, lock, bounds>>

\* Mutant: the manifest is not put back.
RollbackForgets(s) ==
    /\ pc[s] = "rbRecord"
    /\ Release(s, "refresh") /\ Return(s)
    /\ UNCHANGED <<wip, disk, bounds>>

RollbackRecord(s) ==
    /\ pc[s] = "rbRecord"
    /\ job' = [job EXCEPT ![my[s].job].text = my[s].backup]
    /\ Release(s, "refresh") /\ Return(s)
    /\ UNCHANGED <<wip, snap, run, current, bounds>>

Refresh(s) ==
    \/ LockRefresh(s) \/ Capture(s) \/ MoveOld(s) \/ MoveNew(s) \/ Record(s) \/ Finish(s)
    \/ RollbackRemove(s) \/ RollbackRestore(s) \/ RollbackRecord(s)

----------------------------------------------------------------------------
(***************************************************************************)
(* create_job, by hand or for a refresh whose text has another date, which *)
(* then archives the Job it began with.                                    *)
(***************************************************************************)

ByHand(s) == my[s].job = NoDay

StartCreate(s) ==
    /\ setting.byHand /\ Ready(s) /\ job[ImportDay[wip]].state # "ACTIVE"
    /\ Go(s, "make") /\ Learn(s, [Nothing EXCEPT !.new = ImportDay[wip]])
    /\ UNCHANGED <<wip, disk, lock, bounds>>

\* JOB_SNAPSHOT_DATE_EXISTS.
CheckDate(s) ==
    /\ pc[s] = "check"
    /\ IF Manifest(my[s].new)
         THEN Refuse(s)
         ELSE Go(s, "make") /\ UNCHANGED <<my, disk, lock>>
    /\ UNCHANGED <<wip, bounds>>

RootExists(d) == job[d].state # "none" \/ snap[d] # 0 \/ Taken(d) # {}

\* An existing root must load, and is then the answer.
Make(s) ==
    /\ pc[s] = "make"
    /\ IF ~RootExists(my[s].new)
         THEN Go(s, "mkdir") /\ UNCHANGED <<my, disk, lock>>
         ELSE IF Loads(my[s].new) /\ ~ByHand(s)
                THEN Go(s, "adopt") /\ UNCHANGED <<my, disk, lock>>
                ELSE Refuse(s)
    /\ UNCHANGED <<wip, bounds>>

MakeDirectories(s) ==
    /\ pc[s] = "mkdir"
    /\ job' = [job EXCEPT ![my[s].new] = IF @.state = "none" THEN Bare ELSE @]
    /\ Go(s, "captureNew")
    /\ UNCHANGED <<wip, my, snap, run, current, lock, bounds>>

\* Mutant: the directories of a Job that was not made stay.
LeaveNew(s) ==
    /\ ReleaseRefresh(s) /\ Return(s)
    /\ UNCHANGED <<disk, removed>>

\* An error removes the root and the controller root, with the locks in it.
RemoveNew(s) ==
    LET d == my[s].new
    IN /\ job' = [job EXCEPT ![d] = NoJob]
       /\ snap' = [snap EXCEPT ![d] = 0]
       /\ run' = [run EXCEPT ![d] = [n \in Numbers |-> NoRun]]
       /\ current' = [current EXCEPT ![d] = 0]
       /\ lock' = [e \in Days |-> IF e = d THEN [k \in {"create", "refresh"} |-> "free"]
                                  ELSE IF e = my[s].job THEN [lock[e] EXCEPT !["refresh"] = "free"]
                                  ELSE lock[e]]
       /\ removed' = IF Manifest(d) THEN removed \cup {d} ELSE removed
       /\ Return(s)

\* The destination must be new.
CaptureNew(s) ==
    /\ pc[s] = "captureNew"
    /\ LET d == my[s].new
       IN IF snap[d] # 0
            THEN RemoveNew(s)
            ELSE /\ job' = [job EXCEPT ![d] = IF @.state = "none" THEN Bare ELSE @]
                 /\ snap' = [snap EXCEPT ![d] = wip]
                 /\ Learn(s, [my[s] EXCEPT !.staged = wip])
                 /\ Go(s, "writeNew")
                 /\ UNCHANGED <<run, current, lock, removed>>
    /\ UNCHANGED <<wip, setting, deaths, errors, torn>>

WriteNew(s) ==
    /\ pc[s] = "writeNew"
    /\ job' = [job EXCEPT ![my[s].new] = Active(my[s].staged)]
    /\ Go(s, "adopt")
    /\ UNCHANGED <<wip, my, snap, run, current, lock, bounds>>

\* The new Job is opened; a refresh writes into its manifest where it comes from.
Adopt(s) ==
    /\ pc[s] = "adopt"
    /\ IF ~Loads(my[s].new)
         THEN RemoveNew(s)
         ELSE /\ IF ByHand(s) THEN Return(s) ELSE Go(s, "archive") /\ UNCHANGED my
              /\ UNCHANGED <<disk, lock, removed>>
    /\ UNCHANGED <<wip, setting, deaths, errors, torn>>

Archive(s) ==
    /\ pc[s] = "archive"
    /\ job' = [job EXCEPT ![my[s].job].state = "ARCHIVED", ![my[s].job].replacedBy = my[s].new]
    /\ Go(s, "dropOld")
    /\ UNCHANGED <<wip, my, snap, run, current, lock, bounds>>

DropOld(s) ==
    /\ pc[s] = "dropOld"
    /\ snap' = [snap EXCEPT ![my[s].job] = 0]
    /\ Release(s, "refresh") /\ Return(s)
    /\ UNCHANGED <<wip, job, run, current, bounds>>

Create(s) ==
    \/ CheckDate(s) \/ Make(s) \/ MakeDirectories(s) \/ CaptureNew(s) \/ WriteNew(s) \/ Adopt(s)
    \/ Archive(s) \/ DropOld(s)

----------------------------------------------------------------------------
(***************************************************************************)
(* Errors and deaths.  An error leaves the file system as it was and runs  *)
(* into the handlers; a death leaves the locks as well.                    *)
(***************************************************************************)

Exposed == {"moveNew", "record", "rbRemove", "rbRestore", "rbRecord"}

\* When only the old snapshot has been moved, the handler does not put it back, and
\* removes it with the temporary directory.
IOError(s) ==
    /\ pc[s] \in RunSteps \cup RefreshSteps \cup CreateSteps \cup {"abandon", "repoint", "clear"}
    /\ errors < setting.errors
    /\ errors' = errors + 1
    /\ torn' = IF pc[s] \in Exposed \ {"record"} THEN torn \cup {my[s].job} ELSE torn
    /\ \/ pc[s] \in CreateSteps \ {"make"} /\ RemoveNew(s)
       \/ /\ UNCHANGED removed
          /\ \/ pc[s] \in RunSteps /\ UndoRun(s)
             \/ /\ pc[s] \in {"record", "finish"}
                /\ Go(s, "rbRemove") /\ UNCHANGED <<my, disk, lock>>
             \/ /\ pc[s] \in (RefreshSteps \cup {"make"}) \ {"record", "finish"}
                /\ Refuse(s)
             \/ /\ pc[s] \in {"abandon", "repoint", "clear"}
                /\ Return(s) /\ UNCHANGED <<disk, lock>>
    /\ UNCHANGED <<setting, wip, deaths>>

Die(s) ==
    /\ pc[s] # "idle" /\ deaths < setting.deaths
    /\ deaths' = deaths + 1
    /\ torn' = IF pc[s] \in Exposed THEN torn \cup {my[s].job} ELSE torn
    /\ lock' = [d \in Days |-> [k \in {"create", "refresh"} |->
                   IF lock[d][k] = s THEN "dead" ELSE lock[d][k]]]
    /\ Return(s)
    /\ UNCHANGED <<setting, wip, disk, errors, removed>>

----------------------------------------------------------------------------

CreateRun(s) ==
    \/ LockRun(s) \/ Begin(s) \/ CopyBook(s) \/ Seal(s) \/ SealPolicy(s) \/ PublishRun(s)
    \/ PointRun(s) \/ AbandonOld(s) \/ Repoint(s)

Step(s) == CreateRun(s) \/ ClearPointer(s) \/ Refresh(s) \/ Create(s)

Start(s) ==
    \/ StartCreate(s)
    \/ \E d \in Days :
          \/ StartRun(s, d) \/ StartRestart(s, d) \/ StartRefresh(s, d)
          \/ \E n \in Numbers : CloseRun(s, d, n)

Next ==
    \/ Reimport
    \/ \E s \in Sessions : Start(s) \/ Step(s) \/ IOError(s) \/ Die(s)
    \/ \E d \in Days, k \in {"create", "refresh"} : ClearLock(d, k)

Spec == Init /\ [][Next]_vars

\* A live command goes on.  The operator finishes the Runs that are open, removes
\* dead locks, and asks again and again for a refresh of every Job that is not current.
FairSpec ==
    /\ Spec
    /\ \A s \in Sessions : WF_vars(Step(s))
    /\ \A d \in Days :
          /\ SF_vars(\E s \in Sessions : StartRefresh(s, d))
          /\ SF_vars(\E s \in Sessions, n \in Numbers : CloseRun(s, d, n))
          /\ WF_vars(\E k \in {"create", "refresh"} : ClearLock(d, k))

----------------------------------------------------------------------------
(***************************************************************************)
(* Properties.                                                             *)
(***************************************************************************)

\* A Run that can be listed rests on every book of one text, the one its receipt
\* names and, for NCA, its policy too, whatever was refreshed while it was made.
\* seal_run_snapshot reads the snapshot of the Job under another lock than the one
\* refresh_job_snapshot replaces it under.  A Job that was removed under its Runs is
\* exempt: run.json brings the directory back, without evidence.
RunEvidenceWhole ==
    \A d \in Days \ removed, n \in Numbers : Listed(run[d][n]) =>
        /\ run[d][n].receipt # 0
        /\ \A b \in Books : run[d][n].files[b] = run[d][n].receipt
        /\ setting.tool = "nca" => run[d][n].policy = run[d][n].receipt

\* Commands in turn never archive a Job for a newer one while a Run of it is open: no
\* task of such a Run could be created any more (act_common.py, "is not ACTIVE").
NoOpenRunLeftBehind ==
    setting.turns => \A d \in Days : job[d].replacedBy # NoDay => Open(d) = {}

\* Between commands that take turns every active Job opens, whatever failed before,
\* unless a refresh was cut off among its moves.
JobStaysUsable ==
    setting.turns /\ (\A s \in Sessions : pc[s] = "idle") =>
        \A d \in Days : job[d].state = "ACTIVE" => Loads(d) \/ d \in torn

\* Commands in turn, without deaths: a text that stays is at last the snapshot of a
\* Job that can be used, whatever errors there were on the way, unless one of them
\* fell among the moves of a refresh.
SnapshotCatchesUp ==
    setting.turns /\ setting.deaths = 0 =>
        \A i \in Imports : wip = i ~>
            wip # i \/ torn # {} \/ \E d \in Days : Usable(d) /\ snap[d] = i
=============================================================================
