# Verification of SAGE

SAGE (Scripture Analysis and Generation Engine) is a workbench for Bible
translation checking: a controller with a command line and a menu drives the
workflows BIC, RTC, STC and NCA over Scripture projects on disk, calls language
models through governed tasks, and writes results only through locks,
journaled transactions and sealed submissions. Beside it runs the SAGE
Qualification Service (SQS), which decides from evaluations which model may be
used for which language and capability. This directory holds TLA+ models of the
parts of both where order, interleaving and failure matter, the TLC
configurations that check them on small instances, and TLAPS proofs of the
results that should hold for every instance.

Paths below are relative to the repository; `sage/` stands for
`app/system/src/sage/`, `sage_sqs/` for `services/sqs/src/sage_sqs/`.

## 1. Inventory

| component | code | state it keeps | operations | status, modules |
|---|---|---|---|---|
| Workspace locks | `sage/locking.py`, `sage/numbers/replay.py` (NcaWorkspaceLock) | a lock directory, `owner.json` in it, the advisory `.guard` file | acquire, break a stale lock, release | modelled: `WorkspaceLock` |
| Journaled file transactions | `sage/transactions.py` | targets, `staged/`, `backup/`, `journal.json` | stage, prepare, commit, rollback, recover | modelled: `FileTransaction`, `AtomicUpdate` |
| BIC SELF-CHECK commit and TARGET history | `sage/act_submit.py`, `sage/bounded_target.py` | the TARGET book, `self-check-commit.lock`, `target-history/`, the trusted control record of a task | submit, revert TARGET scope | partly: `TargetCommit` |
| BIC memory and lexicon | `sage/bic_memory.py`, `sage/stage_reset.py` | proposals, challenges, operations, lexicon, imports, transitions, approved memory, reviews | inspect, transition, import, roll back, review, reset | partly: `BicMemory` |
| Model execution | `sage/llm_tasks.py`, `task_retry.py`, `exception_reports.py`, `act_submit.py` | output files and receipt of a task, `attempts/`, `submission.json`, control record, exception log | execute, submit, archive, retry, seal | partly: `TaskExecution` |
| Run driver | `sage/plan_continuation.py`, `rtc_tasks.py`, `stc_tasks.py`, `act_aggregation.py`, `menu.py` | the stages of a plan, its report, the log of exceptions, the Run's status | create, continue, aggregate, finalize, close | partly: `AnalysisPlan` |
| NCA workflow and phase ledger | `sage/nca.py`, `nca_menu.py`, `sage/numbers/model_tasks.py`, `hybrid.py`, `replay.py` | ledger of phases, staged publication, published pair, submission, Run result | execute, replay, publish, submit, close | ledger modelled, workflow partly: `NcaEvidence` |
| Jobs, Runs and snapshots | `sage/jobs.py`, `job_snapshots.py`, `sage/numbers/policy.py` | Job and Run records, snapshots, sealed evidence of Runs, two locks per Job, active-Run pointer | create Job, refresh, create and restart Run, close | partly: `JobSnapshots` |
| SQS evaluation | `sage_sqs/repository.py`, `worker.py`, `admin.py`, `ingest.py`, `evaluation/`, `providers/catalog.py` | SQLite tables of models, profiles, runs, attempts, qualifications, attention items; `incoming/` | claim, measure, store, replan; request, review, approve, disable, revoke; upload, stage; synchronise the catalogue | partly: `SqsEvaluation` |
| SQS publication and API | `sage_sqs/publisher.py`, `api.py` | bundles in the database and in replica files | publish, serve | partly: `SqsPublication` |
| SQS client cache | `sage/sqs_cache.py`, `sqs_client.py`, `sqs_qualification.py` | current and previous generation, tombstones | fetch, accept, look up | modelled: `SqsPublication` |
| Client submission of qualifications | `sage/sqs_submission_flow.py` | none | upload | partly: `SqsEvaluation` |
| Evidence, findings and reports | `sage/act_evidence.py`, `act_outputs.py`, `act_common.py`, ... | none of its own | accept output, account for coordinates, render | partly: `TaskExecution`, `AnalysisPlan` |
| Command line, menu and TUI | `sage/cli.py`, `menu.py`, `job_menus.py`, `tui.py` | settings | dialogue | partly: the loops and commands that drive the modelled components |
| TARGET generations | `sage/generations.py` | publication directories, `current.json` | publish, verify | not modelled, see section 5 |
| Skill routing | `sage/skill_routing.py`, `sqs_*_coverage.py` | none | choose a route | not modelled |
| Scripture formats and validation | `sage/scripture.py`, `usj.py`, `vrs.py`, `validation.py`, ... | none | parse, check | not modelled |
| Numbers reference and style | `sage/numbers/` | none | extract, compare, report | not modelled |
| Grammar governance | `sage/grammar_governance.py`, `grammar.py` | contracts | promote | not modelled |
| Configuration, projects, resources | `sage/config.py`, `registry.py`, `storage.py`, ... | settings | load, bind | not modelled |

How they interact. Every writer of SAGE takes a workspace lock of its own path
(`cli.py`, `menu.py`, `jobs.py`, `bic_memory.py`, `stage_reset.py`,
`grammar_governance.py`, `nca.py`, `act_submit.py`) and replaces files by
`atomic_write_*` or by a `FileTransaction` inside it. A Job seals a snapshot of a
project, a Run of the Job copies it as its evidence, the Run driver turns the
approved units of the Run into stages of tasks, each task is executed by a
provider and submitted, and the results are aggregated and close the Run. The
BIC submission takes the lock, commits a transaction of one file and then records
what it did. The operator recovers interrupted transactions with another command,
under another lock. The processes of SQS share nothing but the database and a
directory: the worker and the ingest drain are started by systemd timers every
minute (`services/sqs/deploy/systemd`), ADMIN works in a console, the API
synchronises the catalogue when it starts, SAGE hosts upload results by scp and
fetch the published bundle over HTTP or from a replica file.

What is hard. Threads only query provider status or read a subprocess, so the
concurrency that matters is between processes: two sessions of an operator, a
recovery beside a writer, a guarded recoverer beside unguarded owners, a typed
command beside a menu, overlapping timers. Locks are made of several file-system
calls, transactions of many, and any of them may be the last thing a process
does. Two operations on the same documents often hold different locks, and read
before they take them. Somebody edits Scripture in Paratext at the same time.
Provider calls fail, are repeated, and are paid for. In SQS one operation is a
sequence of transactions with the other processes in between.

What makes each component correct: a lock has one holder, who can release it,
and only the lock of a dead owner is broken; a transaction replaces all its
targets or none, loses nothing and overwrites nobody else's edit; a BIC commit
changes its scope and nothing else, and can be taken back; generation is given
exactly the memory the operator has approved, and the audit trail says why; the
output of a model is never written over, what is accepted is one whole
execution, and a task is decided once; a report accounts for the whole scope and
claims nothing a task lost; NCA publishes a pair of files that its evidence
derives again; a Run rests on one text; an evaluation run is executed once, is
decided in the end, and is COMPLETED only with evidence; a revision names one
bundle, and a denial a host has accepted is not forgotten.

## 2. Modules

| module | models | proofs |
|---|---|---|
| `WorkspaceLock` | one lock path, any set of processes, each "plain", "stale" or "nca" | `NcaProofs` |
| `AtomicUpdate` | abstract specification: targets replaced together or not at all | |
| `FileTransaction` | one transaction, its writer, its recoverer, outside edits; refines `AtomicUpdate` | `FileTransactionProofs` |
| `TargetCommit` | BIC submissions and reverts on one book | `TargetCommitProofs` |
| `BicMemory` | the memory documents of one Job and the commands on them | `BicMemoryProofs` |
| `TaskExecution` | one task from the provider call to its terminal result | `TaskExecutionProofs` |
| `AnalysisPlan` | the stages of one RTC or STC Run | `AnalysisPlanProofs` |
| `NcaEvidence` | one NCA task and the closing of its Run | `NcaProofs` |
| `JobSnapshots` | the Jobs of one Project on its import dates and their Runs | `JobSnapshotsProofs` |
| `SqsEvaluation` | the evaluation runs of one model and one profile | `SqsProofs` |
| `SqsPublication` | publishers, replica, and the cache of one host | `SqsProofs` |
| `MC*` | instances for TLC: who is who, and how many | |

How the modules fit together. A component that rests on another one uses what
the other module establishes, and says so in its header: the commit of a file in
`TargetCommit` and `BicMemory` is one step that replaces a file still as staged,
which `FileTransaction` shows of each target; a unit of `AnalysisPlan` is decided
in one step, which `TaskExecution` takes apart; the qualifications a publisher
collects in `SqsPublication` are any that `SqsEvaluation` may have at that moment;
the driver lock of a Run in `TaskExecution` and the lock of an NCA execution are
single steps, which `WorkspaceLock` takes apart. Only `FileTransaction` is joined to
another module by a refinement.

Most modules have a variable that never changes (`setting`, `scope`, `case`,
`plan`, `approved`) whose initial value is any of a set of records. It says which
situation the behaviour is about and carries the bounds of that situation, so one
run asks the same question of several instances, each as large as its own
interesting cases need. A theorem holds for every such set.

Bounds are constants or fields named for what they limit (`deaths`, `errors`,
`MaxCrashes`, `execs`, `commands`, ...) and stand in the guards of the steps they
limit. History variables (`maker`, `orig`, `theirs`, `raced`, `replaced`, `written`,
`failures`, `word`, `torn`, `removed`) are read by properties, never by a guard.

A definition whose comment begins with "Mutant" is not used by the specification.
It is the definition after it with a plausible mistake, kept to show that the
property is sensitive to it: in the other's place it makes TLC find the property
violated. There is one for each property of each passing run.

### WorkspaceLock

`dir` and `receipt` are the lock directory and its `owner.json`, `guard` the
holder of the advisory lock, `pc` where each process is. `mkdir`, the receipt
and the two halves of `shutil.rmtree` are separate actions because a process may
die, and another may run, between any two. The discipline of a process
(`Kind`) is a constant: `MayBreak` is the only place where the disciplines
differ after `Start`. So is its `Operation`, the string in the receipt: the guarded class breaks
the lock of its own operation only (`replay.py:285`). Executions of an NCA Run say
`NCA_TASK_EXECUTION` (`nca.py:525`) and a restart of it says `NCA_RUN_RESTART`
(`nca.py:198`) at the same path, so the lock of a restart that died is left to the
operator. `maker` is a history variable, the process whose `mkdir`
made the directory, by which `BreaksOnlyDeadOwner` tells whose lock is broken
when no receipt is there yet. `Leave` closes the guard on every way out.
Process ids are not reused, and a receipt is written atomically
(`atomic_write_json`); the temporary file beside it is left out.

### AtomicUpdate and FileTransaction

`file`, `backup` and `journal` are on disk and survive a death; `mem` is the
`self.state` and `self.operations` of the writer, `rec` the copy the recoverer
loaded. Each action is one file-system effect of `__init__`, `stage_bytes`,
`prepare`, `commit`, `rollback` or `recover_transaction`; `UndoVerdict` is the
decision both loops take for one operation. What the code compares by digest is
compared by content. `ExternalEdit` is the operator's editor. `orig`, `theirs`
and `raced` are history variables: what the target held when its backup was
taken, the last outside edit since, and the targets edited between a look and
the act that relies on it, for which no file system call could do better.
`AtomicUpdate` says the same of all targets at once without any of that
machinery, and `IsAtomicUpdate` is the refinement.

An I/O error leaves the file system as it was. The staged payload is written
before the target is looked at and is not a variable.

### TargetCommit

A book is a function from scopes to texts, a text is named by the task that
wrote it, and one book is modelled. `Submit` is everything up to the reading of
the book (`act_submit.py:515`), `Lock` the attempt to take the lock, `StageBook`
and `ReplaceBook` the transaction, `Unlock` the end of the `with` statement,
`RecordCommit` the history entry (its manifest, written last, is what makes it
exist) and `CloseTask` the control record. `Revert` takes no lock, as in the code.
`replaced` is the text the present text of a scope replaced.

`LeftOut` are tasks none of whose verses passed: they close with nothing
committed. `setting.concurrent` says whether commands overlap or begin only when no
other runs, which is how one operator works.

### BicMemory

`docs` is the nine documents as a record, `tasks` the INSPECT tasks, `locks` the
locks that are held, `left` the journals of killed commands. `Reads`, `Writes` and
`LockOf` say what a command reads, in which order it commits and which of the five
locks it takes; `New` is what it computes. A session goes through `Start`,
`Read` (a document at a time), `Compute`, `Stage`, `Commit` (a document at a time,
each only if it is still as staged), `Undo` when one is not, and `Close`. A review
reads before it takes its lock (`LockReview`). Records carry their state only: an
operation brings one proposal and one challenge, an import one record. An operation is about a
scope (`ScopeOf`), its challenge about one verse (`RefOf`), inside the scope because an
INSPECT result is refused otherwise (`bic_memory.py:248-275`); `Overlap` says which scope
contains which verse, so that two scopes may share some of their verses. The list of
operations is the place of each in it, counted from the newest, 0 for one that is not
there: the code only ever appends to it and looks for the latest of a scope.

### TaskExecution

The content of a file is the number of the execution that wrote it and a hash is
the content it was taken from, so that a mixture of two executions can be told from
a whole one. `bad` are the executions whose files do not validate. A session is driven by the
menu (`Continue`, under the Run's lock for RTC and STC) or is one typed command; it
looks, launches, writes and hashes file by file, writes its receipt, submits,
verifies, validates, commits, closes the control record, or archives output and
receipt, applies the failure policy and seals the task. `log` counts the rows of the task in
the exception log by effect, because the cap on attempts is read from
these rows and not from a counter; the rows that a salvaged submission writes count as well.
`sealed` counts by code the rows of the whole Run that gave a unit up, which the circuit
breaker reads (`exception_reports.py:160`, `328-333`): `OtherUnitSealed` adds those of other
units. `trouble` is what may be the matter around the task (`Troubles`); `Change` brings it
and takes it away. A failure carries its code (`why`): "content" for output that is rejected,
or one of `Codes` for any other, of which two are named because the steps of the model
produce them. The codes of `RUN_STOP_CODES` and the environment conditions are the
trouble "provider", the stale codes are "settings" and "stale": these stop a session and write no row.

Rows of other units may appear at any moment, which is more than the driver's order of
units allows. A kill ends the session together with the provider process it waits for,
and may leave the temporary file of an atomic write in the output directory, where the next
submission finds it unlisted and the next execution finds the directory not empty ("litter").

### AnalysisPlan

`approved` is the approved plan, `stages` the stages made so far, each with its
units and what became of them. `Create`, `OpenMeaning` and `OpenCases` make a stage,
`RunUnit`, `Submit`, `ReportUnit` and `SealUnit` decide a unit, `Aggregate` closes a
partitioned stage, `Finalize`, `MarkFinalized` and `PublishTask` write the report and mark the plan,
`SeeFinalized` and `CloseRun` close the Run. `Stop` ends a session between any two
of them. `SubmitByHand` and `AggregateByHand` are the commands of an operator
between sessions, and may leave a plan whose units are decided out of order, which
every Continue refuses (`OutOfOrder`). A coordinate is a member of a set; what a
review says of it is left out, except whether it asks for the original text.

### NcaEvidence

A phase key is the set of inputs it asks about. An execution walks its batches
(`Reuse`, `Ask`, `ReplayFailure`), halving a batch that failed or was answered in
part; `Settle` is the recursion of the code as a list of work. At the end it retires an orphaned
publication, stages output, receipt and manifest, publishes the two files and
certifies them. Batches without one admitted phase fail the Run; a plan without batches publishes
a result all the same (`nca.py:1034`). `resume` says that a publication was staged before, so that the execution may
replay and not ask. A submission is `Submit` to `Rename`; `Reconcile` and
`CloseRun` come twice because the command finalizes the Run a second time.
`CloseFromMenu` is what the menu does with a Run that has a submission.

### JobSnapshots

A text is the number of the import that brought it; a Job is named by the date of
its text. A Run is made in steps (`LockRun` to `PointRun`, restart going on with
`AbandonOld` and `Repoint`), its evidence copied book by book (`CopyBook`) from a snapshot that a
refresh may replace meanwhile. A refresh of the same date moves the old snapshot away and the new
one in, records it and reopens the Job, and puts everything back if that fails
(`RollbackRemove` to `RollbackRecord`); a refresh to another date makes a Job, archives
the old one and drops its snapshot. The creation of a Job is a list of steps of its own
because it is undone by removing what it made (`RemoveNew`), also when somebody else has come to use it
(`removed`). An I/O error runs into the handlers of the code; a death leaves the locks as well.

### SqsEvaluation

Each repository method is one SQLite transaction and one action; what `run_once`,
`queue_evaluation` or `review_qualification_submission` do is a sequence of them
with the step remembered in `worker`, `admin` or `drain`. A run is named
`<<capability, n>>`: run 0 is the digest every unforced request denotes, whatever
the model revision, because the payload does not contain it
(`repository.py:208-211`). For a model without predecessor, which is the case
modelled, the planner asks for the same reasoning and scope as the default
request of ADMIN, and `build_planner_snapshot` supplies none of the fields that
would make a candidate anything but TEST. `incoming` maps a run to the identity
in its waiting file. The order of pending runs is left open, as their creation
times have seconds only and candidates are ordered by cost.

The profile and the model are read together in `LoadIdentity` and `RequestRun`,
and ADMIN's read-modify-save of a record is one action. Audit rows, attention
items of other categories and busy errors of SQLite are left out.

### SqsPublication

A bundle is its revision and a verdict per capability; revision 0 is no bundle. A
publisher collects its rows, takes the next revision, stores the bundle (the
primary key lets one of two succeed) and writes the replica file by way of a temporary one
that all publishers share (`WriteTmp`, `ReplaceFile`), so that one may put the bundle of
another in place or find nothing to put. The write itself is whole: a host refuses a file whose
hash is wrong, as it refuses one that is not there. A host fetches
the newest bundle from the API or whatever the replica holds, refuses what is not above
its floor, commits the tombstones, rotates the previous generation and then the
current one. A synchronisation may be killed between any two of these, and a generation of the
host may be lost or unreadable. Nothing obliges a publisher to take its next step, so one that is
killed is one that does not go on. `word` is the latest explicit verdict on each capability
among the bundles the host began to accept.

## 3. Runs

| run | instance | question | result |
|---|---|---|---|
| `LockNca` | a restart, 2 plain owners on two hosts, 2 guarded executions, all may die | safety of the mixed discipline, recovery of dead receipts of one operation | holds, 7,484 states |
| `LockStale` | 3 sessions with `break_stale` | mutual exclusion | violated |
| `TxSafety` | 2 targets, 2 deaths, 1 I/O error, 2 edits | edits are kept, refinement, an outcome after one failure | holds, 915,989 states |
| `TargetSafe` | 4 tasks, 2 scopes, 2 reverts, 2 kills in turn; 3 overlapping tasks; 2 overlapping with a kill | scope, history, revert, closing | holds, 208,656 states |
| `TargetOverlap` | 2 tasks that overlap | out-of-scope text preserved | violated |
| `BicGovernance` | 2 operations, 1 import, 2 sessions: 5 commands in turn with a death; 3 in any order; 3 in turn with a death over scopes that share a verse | view, trail, challenges, protected memory, reviews | holds, 1,773,681 states |
| `TaskUnit` | 2 files, 2 sessions, 2 codes, cap 3, breaker 2: menu with 5 executions and 2 kills; with 4 and a kill, 2 changes around the task; with 4 and a kill, 2 rows of each code from other units; 2 typed commands; a BIC task | output, acceptance, decision | holds, 667,296 states |
| `PlanUnits` | 8 RTC plans and 4 STC plans over 4 verses, 2 stops | report, accounting, closing | holds, 68,933 states |
| `NcaTask` | 3 inputs in one batch; in two, with a retry and a rate limit; none; a pair with 2 typed submissions; a pair from the menu with 2 deaths | publication, replay, accounting, closing | holds, 1,317,588 states |
| `JobRefresh` | 3 imports on 2 days, 2 books, 2 sessions: in turn with a death and an error; in turn with 2 errors; overlapping for NCA (2 Runs) and RTC (1 Run) | evidence, open Runs, usability, catching up | holds, 130,421 states |
| `SqsSafety` | 2 workers with submissions and a model change; with kills; with a forced run; 1 worker and 3 capabilities | runs, evidence, queue, plan | holds, 173,601 states |
| `SqsPublish` | 2 publishers, 1 capability, 3 revisions, 1 kill, 1 lost generation | one bundle per revision, denials, catching up | holds, 1,077,164 states |

All passing runs use `CHECK_DEADLOCK FALSE`, as the systems may stop: every process
finished or dead, a lock left by a dead owner nobody may break, a task decided, a
Run closed, or every bound used up. `BicGovernance` permutes the two sessions, over
which nothing distinguishes, and checks no liveness; no other run uses symmetry.

Why the bounds are enough. Each case the properties are about needs few actors, and
the mutants show that it happens.

- Locks: one holder, one breaker and one newcomer are needed for every known
  failure of the protocol; the fourth process adds the other host, the fifth the other
  operation.
- Transactions: two targets show one replaced and one not, in both orders of undo;
  two deaths allow a recovery to be interrupted and resumed, two edits one before
  and one after a look.
- TARGET: two tasks on one scope and one on another give every pairing of same and
  different scope; two kills and two reverts let each repeat.
- Memory: five commands are the longest story known to matter (inspect, approve, inspect again or
  import, revoke, reset), two operations one before and one after it.
- Tasks: five executions exceed the cap of three by the two that may be killed, two
  files show one written and one not, one session more than the lock admits
  shows what the lock is for. Two changes are one trouble that comes and goes or two that meet;
  two rows from elsewhere are what the breaker counts to.
- Plans: two units show one decided and one not, three a unit between two; each
  stage may be first, last, or absent.
- NCA: three inputs are halved twice, a retry, a rate limit and a second execution
  are one more than the first attempt.
- Jobs: two days give an old and a new Job, a second import on the first day a
  refresh in place; two books show one copied and one not.
- SQS evaluation: the properties speak of one run and of the processes that touch
  it, and `PlanCoversCapabilities` of what one completion leads to, for which three capabilities
  show a first, a middle and a last.
- Publication: three revisions are a floor, a denial and a later bundle that is
  silent; one killed synchronisation and one loss are what the floor and the tombstones each guard against.

For the safety properties named in section 4 the proofs remove the bounds.

Fairness. Only what the code or its operator does by itself:

- `WorkspaceLock`: a live process runs on, and the command is tried again after a
  lock error; nothing makes a process die.
- `FileTransaction`: a writer that does not die runs to the end, and the operator
  repeats `sage transactions --recover` while something is pending.
- `TargetCommit`: a started command goes on, a refused submission is repeated, which
  the task's status permits.
- `TaskExecution`: a session that is not killed goes on, and the operator continues
  the Run. Nothing obliges the surroundings to change, or a trouble to end; there are finitely many
  changes and rows from other units. `AnalysisPlan`: the same, as one condition (the menu loops until the Run
  is closed).
- `NcaEvidence`: an execution or submission that does not die goes on, and an open
  task is executed again. No one is obliged to type a command.
- `JobSnapshots`: a live command goes on; the operator removes dead locks and asks again
  for a refresh of a Job that is not current, and finishes open Runs. The last two are
  strong fairness because other commands in turn take the opportunity away.
- `SqsEvaluation`: weak fairness of the worker's steps stands for the one-minute
  timer and a process that is not killed. ADMIN is obliged to nothing.
- `SqsPublication`: the host goes on synchronising and the API answers again and
  again (strong fairness of `Fetch`, as a synchronisation in progress disables it);
  an acceptance that is not killed runs on. No one is obliged to publish.
- `BicMemory`: none, and no liveness property.

### What the properties say

- `MutualExclusion`, `BreaksOnlyDeadOwner`, `DeadReceiptRecovered`: two holders, a
  lock taken from somebody alive, a receipt of a dead owner that stays while a
  guarded process of that host and that operation is alive. What a dead restart leaves does
  stay, and so does a lock without a receipt; the operator removes them.
- `OutsideEditKept`, `IsAtomicUpdate`, `JournalResolvedAfterOneFailure`: nobody's edit
  is overwritten that could have been noticed; all targets or none; an interrupted
  transaction comes to an outcome after one failure.
- `CommitIsRecoverable`, `OutOfScopePreservedInTurn`, `RevertRestoresPrevious`,
  `SubmissionCloses`: a committed text has a way back in any order of commands; a
  commit and a revert are local and a revert goes back one state, for commands
  in turn; a submission closes.
- `ViewIsCurrent`, `TrailExplains`, `NewestChallengesOpen`, `ProtectedMemoryKept`: what
  generation reads is what is approved, the recorded decisions lead to the state of
  every record, a challenge is open exactly as long as no newer operation covers its verse
  (challenges on other verses of its own operation's scope stay open,
  `app/system/tests/test_bic_challenge_routing.py:46-47`), and no reviewed record is deleted, after every killed command that was recovered. The
  trail explains a state unless two commands were killed: they can bring a record in a
  second time.
  `NewOperationIsPending`: a review is never taken for one of an operation that came
  after it, in any order of commands without kills, or in turn with any.
- `NothingOverwritten`, `AcceptedAsExecuted`, `ResultIsFinal`, `DecidedUnlessStopped`: about a
  task of an RTC or STC Run that is driven from the menu. The other two
  kinds of case show that the model has the interleavings which the Run's lock excludes.
  A task is decided in the end unless one of the reasons of `Stopped` lasts: torn output, settings or reads
  that differ, no provider or a code of `RUN_STOP_CODES`, or a code whose breaker is spent.
  Each of them stops every Continue without a row; nothing in a Run resets the breaker.
- `NothingLostIsClaimed`, `EveryCoordinateAccounted`, `CompleteMeansAssessed`, `RunCloses`:
  what a report may claim, that it covers the requested scope, that a plain COMPLETE
  means that every unit was assessed in full (it says nothing of chapters planning left out
  or of requests nobody could answer), and that a Run is closed however often the session stops.
- `PublishedAsStaged`, `ReplayReproduces`, `EveryInputDisposed`, `DoneIsPublished`,
  `PublicationCompletes`: the final files are one staged pair, which the ledger
  derives again; each input is admitted once or pending with its reason; a Run that
  is DONE has the published result; an interrupted publication is completed.
- `RunEvidenceWhole`, `NoOpenRunLeftBehind`, `JobStaysUsable`, `SnapshotCatchesUp`: a Run
  rests on every book of one text even when a refresh overlaps its making; no Run is
  left open in a replaced Job; a Job opens after a failure; refreshing catches up.
- `CompletedHasAttempt`, `StagedResultIsListed`, `NeverReexecuted`, `QueuedRunIsDecided`,
  `PlanCoversCapabilities`: the life of a run and of what it measures.
- `RevisionNamesOneBundle`, `NeverQualifiedAgainstDenial`, `HostCatchesUp`: bundles of one
  revision are equal wherever they are; a host does not forget a denial; a host that
  goes on synchronising shows the newest bundle.

Each type invariant is part of, or follows from, the inductive invariants of its module
(section 4); the runs leave it out.

### Disagreements between code and text

Two runs show a statement of the repository violated by what its code does.

1. `LockStale`. `menu.py:4044` relies on one session driving a Run. `_is_stale`
   treats a directory without receipt as stale (`locking.py:68-69`), and every
   acquisition passes through that state between line 82 and line 91.
2. `TargetOverlap`. The book is read at `act_submit.py:515` and the lock taken
   at 673; a commit of another scope in between is undone.

Other limits of the code met while modelling. Each is where a property has an
exemption or a restriction to commands in turn, and is reproduced by dropping it.

Transactions and TARGET:

- A recovery that dies after `os.replace(backup, target)` (`transactions.py:240`) and
  before the journal is rewritten (248) leaves a journal that says COMMITTED of a
  target that has its old content; every later recovery refuses
  (`crashes + faults > 1`).
- Recovery locks `transaction-recovery.lock` (`cli.py:4222`), the writers lock other
  paths, and a running transaction is listed as pending: with `LiveRecovery = TRUE`
  `IsAtomicUpdate` fails.
- An edit between the comparison and the replace of a target is overwritten
  (`raced`). A directory whose writer died before the first journal
  (`transactions.py:58`) is never resolved. A write of the COMMITTED journal that
  takes effect and raises nevertheless (158) has its targets rolled back under it.
- A submission killed between its commit and its history entry records, when
  repeated, its own text as the earlier one, so that a revert restores it (`Orderly`).
- A lock directory whose owner died before the receipt, or whose receipt names another operation
  (a restart that died holding the lock of an execution), is never reclaimed by the
  guarded class (`MayRecover`).

Memory of BIC:

- Commands that overlap hold different locks: the view may be stale, a reset may
  delete a record that is being reviewed, and proposals or receipts may be lost
  (`Quiet`, `setting.turn`).
- A recovery that comes after a later command can put a revoked record back into the
  view (`transactions.py:225-239`; `left = {}`).
- An INSPECT submission killed between the memory commit and the closing of its task
  can never be submitted again (`bic_memory.py:916`); a reset killed between the removal of
  memory and of tasks leaves a task open whose operation was removed, and it may be
  submitted again.

Tasks and plans:

- `sage task submit` of a decided task counts as a failed attempt, and the third seals
  it NOT_ASSESSED over its accepted result (`act_submit.py:226`, `cli.py:2376-2412`,
  `exception_reports.py:191-214`, against `EXECUTION-BLOCK-AND-RETRY.md:29-31`;
  `Governed`).
- An execution killed among its files leaves output that nothing in the code decides
  (`Torn`).
- The rows of coordinates that a submission left out count as failed attempts of its task. If it
  is killed before its commit, the task may be given up after fewer than
  `MAX_UNIT_ATTEMPTS` failures (`SealedAfterCap`).
- The breaker counts every unit of the Run and is never reset: once two units were given up
  with a code, each later failure with it stops the Run before it leaves a row (`Systemic`).
- A chapter that planning left out is forgotten when an RTC stage has one unit, because it becomes a
  plain task (`rtc_tasks.py:187-209`, against `effective_scope.py:3-4`); `SeveralPlans` has
  no such plan.
- Units decided by hand out of order leave a plan that every Continue refuses
  (`OutOfOrder`).

NCA:

- A submission that dies between `submission.json` and the control record is marked
  COMPLETE by the menu although nothing was finalized (`nca_menu.py:200`, against
  `nca.py:597-598`; `~plan.menu` in `DoneIsPublished`).
- A publication that was staged with a batch left pending by a rate limit cannot be replayed: a
  later execution stops at that batch every time (`hybrid.py:148`; the exemption in
  `PublicationCompletes`).

Jobs:

- Two sessions that make the same Job each believe that they created the directories
  (`jobs.py:1092-1096`), and the failure of one deletes what the other has finished;
  `run.json` of a Run in a Job removed that way brings the directory back without
  evidence (`removed`). Three sessions can reach the same through a refresh by another
  session of a Job that is being reopened.
- An error or a death between the two `os.replace` calls of a refresh loses the
  snapshot (`torn`). A death in a refresh to another date leaves two active Jobs, or a
  root without manifest that `create_job` refuses for ever (`setting.deaths = 0` in
  `SnapshotCatchesUp`).
- A refresh that overlaps the making of a Run may leave it open in an archived Job
  (`setting.turns`).
- The menu clears the active-Run pointer whichever Run it names, a restart points to
  the new Run before it abandons the old one (the other way round for BIC), and
  `update_run` reads, changes and writes `run.json` without a lock.

SQS:

- "re-approval and re-evaluation required" (`providers/catalog.py:151`), but the run
  id does not name the revision (`repository.py:208-215`), so the finished run answers a request
  after a change of the model. A forced request does measure again (`Undisturbed`).
- A worker killed in mid-run leaves the run RUNNING for good (`scope.kills`); an error of
  replanning marks a run FAILED that has stored its evidence.

## 4. Proofs

Eight modules hold proofs. Each proves that an inductive invariant holds of every behaviour, for every
value of the constants that satisfies the named assumptions of the module, by one
lemma per action (or group of actions), and derives the properties from it.

- `NcaProofs`, the lock, assumes `NoBreakStale`: no process uses `break_stale` without
  the guard, the discipline `LockStale` refutes. `LockInv` adds to type correctness
  what the three properties rest on: at most one process owns the directory or is
  emptying an abandoned one (`OneInside`); an owner made the directory, and its
  receipt is there exactly from its writing to its removal (`OwnerState`); only a
  guarded process breaks, and what it is about to unlink is the receipt of a dead
  process (`BreakerState`); a receipt names the maker of the directory
  (`ReceiptState`); and a guarded process holds the guard from start to end
  (`GuardState`). Mutual exclusion alone is not inductive: the step that writes a
  receipt must know that the directory is still the writer's own, and the step that
  empties a lock that its receipt is still the one it looked at.
- `FileTransactionProofs` assumes `~LiveRecovery`: recovery starts when the writer is
  gone, which the code does not enforce. `TxInv` is type correctness, who may act
  (`Turns`), how far the writer has come (`Progress`), that journal, writer and
  recoverer speak of the same operations (`SameOperations`), what the staged digests
  stand for (`Before3`), where a target can be (`TargetState`), what a process knows
  after a look (`Looked`), what an undo in progress has restored (`UndoneSoFar`), and
  `AllOrNothing` and `OutsideEditKept`, which are inductive only together with these.
  `OriginalKept` and `OutcomeIsFinal` follow; the refinement maps every step to a
  step of `AtomicUpdate` or a stutter.
- `TargetCommitProofs`: `TargetInv` is type correctness and where a text can have its way
  back: every book that is in place, read, staged or about to be restored has one
  (`BooksHaveWayBack`), every earlier book in the history too (`HistoryLeadsBack`), and
  a task stays open until its commit is listed (`OpenUntilListed`).
  `CommitIsRecoverable` follows for overlapping commands; for commands in turn a second
  invariant, that at most one is under way and what it read is still there, gives
  `OutOfScopePreservedInTurn`. `RevertRestoresPrevious` needs to know which text the
  present one replaced: `RevertInv` says that while no command overlaps or is killed the latest entry of
  a scope names that text (`LatestNamesReplaced`), or the submission that replaced it
  still has it in the book it read (`PlacedAsRead`), and that no entry has the text it
  recorded as its own earlier one (`EntriesDiffer`), which is what makes the search of the
  revert stop at the right one.
- `TaskExecutionProofs`: `TaskInv` says of a governed task that one session is at work
  (`Alone`), what each step of an execution or submission has established (`Writing`,
  `Verifying`), and what the disk holds (`Disk`): the decision and its grounds, whose
  output the receipt is, that every file written is in place or archived, and that the
  rows of the log do not exceed the failures. The cap needs the last one with
  `SalvagedIsSound`: rows written for accepted output count as attempts, and as long as they are
  there the output is whole and valid, so that only a failure around the task can follow them (`Spent`).
- `NcaProofs`, the evidence: where an execution is says what it has staged (`Staging`), a
  manifest stands for the pair it commits (`Committed`), and where a submission is
  says what it has reconciled (`Closing`). `EvidenceIsFinal` and `DoneIsPublished`
  follow with `PublishedAsStaged`. `EveryInputDisposed` needs what a traversal has done so
  far (`DisposedInv`): the batches still to visit are apart from one another (`WorkApart`, which
  a split keeps), an input in one of them is admitted by no phase of the document and not
  pending, and every other input is admitted by exactly one or pending. An accepted phase
  admits inputs of its own key only, and two phases of one document never share an input.
  `ReplayReproduces` compares the document with a second traversal, of the ledger and from
  the start. `ReplayInv` therefore speaks of both at once (`DoneButFor`): whatever comes of the
  batches still to visit, if each batch is otherwise derived from the ledger as `Replay`
  does, then a planned batch comes to what the document has of it by now and what the ones
  still to visit come to. So a failure may overwrite an earlier one as long as its batch is
  to be visited, and what is recorded of phases the traversal never reaches does not count.
  That `Replay`, a recursive function, is what its definition says (`ReplayUnfolds`) is
  proved from the well-foundedness of the order of the naturals: a batch is derived
  from smaller ones (`DerivedLooksBelow`), so there is such a function (`ReplayExists`).
- `JobSnapshotsProofs`: who makes a Run of a Job that nobody removed holds its
  run-create.lock and has put together what its step says (`Holding`), and a Job
  somebody has open keeps its manifest (`Opened`). The lock alone does not give
  `RunEvidenceWhole`, because the refresh holds another one: what matters is that the copy
  is verified against the receipt before the Run is published. `NoOpenRunLeftBehind`
  is about commands in turn and needs an invariant of its own (`TurnInv`): one session
  is at work; while it makes a Run, nothing has replaced its Job; and while it refreshes,
  that Job has no open Run, which the code has read before it took any lock.
  `JobStaysUsable` rests on a third (`UsableInv`): an active Job has the snapshot its
  manifest names unless a refresh is among its moves, and who is among them has put
  aside what the next step of the move or of its rollback needs (`Aside`), also in the
  branch where an error comes after the snapshot was swapped and before it was recorded.
- `AnalysisPlanProofs`: `PlanInv` says that stages and units are as the plan makes them
  (`Typed`, `Sound`: a stage that reads covers the whole scope, a unit has lost nothing
  but its own coordinates, and what it lost is in the exception log before its result says
  so), that every open request for the original text is in a case of the last stage or
  still to be placed (`RequestsPlaced`), that where the driver stands says what it has
  found (`Driving`), that a published report keeps its word in whatever becomes of plan and text
  afterwards (`Reported`), and that a Run is closed plainly COMPLETE only with an empty
  log (`ClosedByLog`). The last one alone proves `CompleteMeansAssessed`, but is not inductive without
  `Sound`. `NothingLostIsClaimed` needs `Reported` because a session may stop between
  the report and the marking of the plan, and a text may become available in between.
  `EveryCoordinateAccounted` is proved of plans that do not forget (`Forgets`: an RTC plan of one unit that
  left a chapter out, the divergence of section 3); both other theorems hold of all plans.
- `BicMemoryProofs`: the commands read, compute and commit document by document, so the
  documents are rarely consistent. `TurnInv` says of commands in turn that they are so
  between two of them (`Good`: the view is the view of the records, the list of operations
  has no gaps and its challenges are superseded by newer operations on their verses and no others, the decisions
  account for every state), that a command that reads has read what is there (`Reading`), and that one that writes is
  exactly so many files into its result, the documents before it being what it would
  restore (`Writing`; for one that was killed `Abandoned`). A recovery therefore ends in the documents
  before the command, and a command that goes through in its whole result, each of which is good.
  `TrailExplains` needs an order on the states as well: the moves allowed lead
  on and never back, so a record's decisions form a path with one end.
  `PlacedInv` gives the types, and where a session stands in its lists.
  `NewOperationIsPending` is proved of overlapping commands too: `LockInv` says that two
  commands that hold a lock hold different ones, so one INSPECT is submitted at a time,
  and `UnbornInv` that without kills no document that is there, was read, or may be
  restored knows an operation that is not committed, so a review of the scope that read
  too early can decide on an earlier one only.
- `SqsProofs`, the evaluation: what a worker, ADMIN or the drain knows at each of its steps
  still holds when it takes the next one (`WorkersOn`, `AdminOn`, `DrainOn`), workers are
  at different runs (`WorkersApart`), and run, attempts and items agree
  (`RecordsAgree`).
- `SqsProofs`, the publication: every copy of a bundle is the stored one (`Stored`), a bundle in
  transfer is above both generations (`Ahead`), and the latest word on a capability
  covers what the host has committed to, denials being in the tombstones (`Words`).

Each module assumes of its constants their types, that the names it adds to a set of
processes are not in it, and what the code establishes elsewhere: the batches of an NCA task
are apart (`NcaEvidenceAssumption`; the batching puts every input into one batch), the verse
of a challenge is in the scope of its operation (`ReferencesAreInScope`), and the coordinates of a plan are finitely many (`PlansAssumption`). TLC evaluates these
assumptions in every run. The hypotheses of theorems are `NoBreakStale`,
`~LiveRecovery` and, for one, that no plan `Forgets`; the first two are disciplines the
code does not enforce everywhere, and the third is what the code gets wrong.

Only model-checked: the liveness properties
`DeadReceiptRecovered`, `JournalResolvedAfterOneFailure`, `QueuedRunIsDecided`,
`PlanCoversCapabilities`, `SubmissionCloses`, `HostCatchesUp`, `DecidedUnlessStopped`,
`PublicationCompletes`, `RunCloses` and `SnapshotCatchesUp` (fairness and ENABLED are outside
the prover's reach); and the violations. Every other property of the passing runs is
stated by a theorem. No invariant of the project needs a `RECURSIVE` operator; induction over
batches is done by least counterexample (`AllNaturals`), which needs no induction theorem.

## 5. Not modelled

- TARGET generations. `publish_generated_target` runs under one lock, compares the
  hash of what it copied with the validated one, moves a complete directory into
  place and writes `current.json` last; a publication that died in between is found
  by its fingerprint. Two renames in one order under one lock is all the control there is.
- Skill routing and qualification coverage are functions of a bundle and a policy;
  the lookup they rest on is in `SqsPublication`.
- Scripture formats, validation, numbers reference and style: parsers, grammars and
  comparisons of text without state. A model of them would be the program again, and the tests of the
  repository are the better instrument. They are by far the largest part of the code.
- Grammar governance: promotion of one contract under one lock.
- Configuration, projects and resources: sequential loading.
- Executors, transports, keys and scp: input and output. What they may answer or
  fail to answer is left open in the modules that use them.
- Rendering, reports and dialogue, the text of prompts and packets.
- Of Jobs: revision, archiving by hand, removal, export, the active-Job and last-run
  pointers, the merge in `update_run`. Of the NCA workflow: the creation of a Run and
  its task, `restart_nca_run`. Of BIC: the learning export, the other stages of the reset, the
  validation of a submission and the merge of USFM blocks. Of SQS: discoveries,
  language requests, other attention items, the scoring of an evaluation.

What would be worth doing next: an abstract specification of `BicMemory` (a sequence
of atomic commands; the documents `TurnInv` says a command would restore are the
refinement mapping) and of `JobSnapshots` with their refinements; the abandoned RUNNING run of SQS if the service ever takes such
runs up again.
