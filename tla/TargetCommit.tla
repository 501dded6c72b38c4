---------------------------- MODULE TargetCommit ----------------------------
(***************************************************************************)
(* How a BIC SELF-CHECK submission puts a scope of a TARGET book in place  *)
(* and how the operator reverts it:                                        *)
(*   act_submit.submit_act_task          (act_submit.py),                  *)
(*   record_target_commit, list_target_history, revert_target_scope        *)
(*                                       (bounded_target.py).              *)
(*                                                                         *)
(* A book is a function from its scopes to texts.  A task carries the text *)
(* of one scope; committing it writes the whole book again, composed of    *)
(* that text and of the book as the submission read it BEFORE it took the  *)
(* lock.  The single-file transaction inside the lock is taken from module *)
(* FileTransaction: it replaces the book if it still is what was staged,   *)
(* and otherwise leaves it alone.                                          *)
(***************************************************************************)
EXTENDS Naturals, Sequences

CONSTANTS
    Tasks,        \* self-check tasks, each sealed with the text of its scope
    Scopes,       \* scopes of the book
    ScopeOf,      \* the scope of each task
    LeftOut,      \* tasks none of whose verses passed SELF-CHECK
    MaxCrashes,   \* bound: commands killed
    MaxReverts,   \* bound: revert commands
    Settings      \* what is checked, each setting within its own bounds: the tasks,
                  \* whether commands of several sessions overlap, kills and reverts

SettingRecords == [tasks : SUBSET Tasks, concurrent : BOOLEAN,
                   crashes : 0 .. MaxCrashes, reverts : 0 .. MaxReverts]

ASSUME TargetCommitAssumption ==
    /\ ScopeOf \in [Tasks -> Scopes]
    /\ LeftOut \subseteq Tasks
    /\ MaxCrashes \in Nat /\ MaxReverts \in Nat
    /\ Settings \subseteq SettingRecords

VARIABLES
    setting,    \* the setting this behaviour belongs to
    target,     \* the TARGET book
    lock,       \* owner of self-check-commit.lock
    history,    \* target-history of the Job, oldest first
    control,    \* status in the task's trusted control record
    sub,        \* what each submission is doing
    rev,        \* what the revert command is doing
    reverts,    \* number of revert commands that read the history
    crashes,    \* number of commands killed
    replaced    \* history variable: what the present text of a scope replaced

vars == <<setting, target, lock, history, control, sub, rev, reverts, crashes, replaced>>

\* What the book held before any task: one text per scope, owned by no task.
Original == "original"
Texts == Tasks \cup {Original}
Books == [Scopes -> Texts]
Nobody == "nobody"

ASSUME TargetNamesAssumption == Original \notin Tasks /\ Nobody \notin Tasks /\ Scopes # {}

SubSteps == {"idle", "read", "locked", "staged", "replaced", "committed", "recorded"}
RevSteps == {"idle", "checked", "staged"}

Entries == [task : Tasks, scope : Scopes, before : Texts, after : Texts]

TypeOK ==
    /\ setting \in Settings
    /\ target \in Books
    /\ lock \in Tasks \cup {Nobody}
    /\ history \in Seq(Entries)
    /\ control \in [Tasks -> {"CREATED", "COMMITTED"}]
    /\ sub \in [Tasks -> [pc : SubSteps, before : Books, staged : Books]]
    /\ rev \in [pc : RevSteps, scope : Scopes, restored : Books, staged : Books]
    /\ reverts \in 0 .. MaxReverts
    /\ crashes \in 0 .. MaxCrashes
    /\ replaced \in Books

NoBook == [s \in Scopes |-> Original]
SubIdle == [pc |-> "idle", before |-> NoBook, staged |-> NoBook]
RevIdle == [pc |-> "idle", scope |-> CHOOSE s \in Scopes : TRUE,
            restored |-> NoBook, staged |-> NoBook]

Init ==
    /\ setting \in Settings
    /\ target = NoBook
    /\ lock = Nobody
    /\ history = <<>>
    /\ control = [t \in Tasks |-> "CREATED"]
    /\ sub = [t \in Tasks |-> SubIdle]
    /\ rev = RevIdle
    /\ reverts = 0
    /\ crashes = 0
    /\ replaced = NoBook

Quiet == rev.pc = "idle" /\ \A t \in Tasks : sub[t].pc = "idle"
MayStart == setting.concurrent \/ Quiet

SubGoes(t, pc) == sub' = [sub EXCEPT ![t].pc = pc]
SubEnds(t) == sub' = [sub EXCEPT ![t] = SubIdle]

----------------------------------------------------------------------------
(***************************************************************************)
(* A submission.                                                           *)
(***************************************************************************)

\* verify_sealed_submission lets a task through while its control record says
\* CREATED; the TARGET is not among the inputs whose digests it checks.
\* Then the book is read.
Submit(t) ==
    /\ t \in setting.tasks /\ MayStart /\ sub[t].pc = "idle" /\ control[t] = "CREATED"
    /\ sub' = [sub EXCEPT ![t] = [pc |-> "read", before |-> target, staged |-> NoBook]]
    /\ UNCHANGED <<setting, target, lock, history, control, rev, reverts, crashes, replaced>>

\* Every verse was left out: nothing is committed and nothing recorded.
LeaveEverythingOut(t) ==
    /\ sub[t].pc = "read" /\ t \in LeftOut
    /\ SubGoes(t, "recorded")
    /\ UNCHANGED <<setting, target, lock, history, control, rev, reverts, crashes, replaced>>

\* The lock is taken or the submission raises; it never waits and never breaks it.
Lock(t) ==
    /\ sub[t].pc = "read" /\ t \notin LeftOut
    /\ IF lock = Nobody
         THEN lock' = t /\ SubGoes(t, "locked")
         ELSE UNCHANGED lock /\ SubEnds(t)
    /\ UNCHANGED <<setting, target, history, control, rev, reverts, crashes, replaced>>

\* Mutant: the candidate alone is written.
MergedCandidate(t) == [s \in Scopes |-> IF s = ScopeOf[t] THEN t ELSE Original]

\* merge_bounded_usfm.
Merged(t) == [sub[t].before EXCEPT ![ScopeOf[t]] = t]

\* stage_bytes takes the book's digest now.
StageBook(t) ==
    /\ sub[t].pc = "locked"
    /\ sub' = [sub EXCEPT ![t] = [pc |-> "staged", before |-> sub[t].before, staged |-> target]]
    /\ UNCHANGED <<setting, target, lock, history, control, rev, reverts, crashes, replaced>>

\* History variable: only a different text replaces a text.
Replacing(book) ==
    [s \in Scopes |-> IF book[s] = target[s] THEN replaced[s] ELSE target[s]]

ReplaceBook(t) ==
    /\ sub[t].pc = "staged"
    /\ IF target = sub[t].staged
         THEN /\ target' = Merged(t)
              /\ replaced' = Replacing(Merged(t))
              /\ SubGoes(t, "replaced")
              /\ UNCHANGED lock
         ELSE /\ lock' = Nobody
              /\ SubEnds(t)
              /\ UNCHANGED <<target, replaced>>
    /\ UNCHANGED <<setting, history, control, rev, reverts, crashes>>

\* Mutant: the lock is kept.
UnlockForgotten(t) ==
    /\ sub[t].pc = "replaced"
    /\ SubGoes(t, "committed")
    /\ UNCHANGED <<setting, target, lock, history, control, rev, reverts, crashes, replaced>>

Unlock(t) ==
    /\ sub[t].pc = "replaced"
    /\ lock' = Nobody
    /\ SubGoes(t, "committed")
    /\ UNCHANGED <<setting, target, history, control, rev, reverts, crashes, replaced>>

\* Mutant: the earlier text is taken from the book after the commit.
RecordLate(t) ==
    /\ sub[t].pc = "committed"
    /\ history' = Append(history, [task |-> t, scope |-> ScopeOf[t],
                                   before |-> target[ScopeOf[t]], after |-> t])
    /\ SubGoes(t, "recorded")
    /\ UNCHANGED <<setting, target, lock, control, rev, reverts, crashes, replaced>>

\* record_target_commit writes the entry's manifest last: an entry cut short
\* is not listed.
RecordCommit(t) ==
    /\ sub[t].pc = "committed"
    /\ history' = Append(history, [task |-> t, scope |-> ScopeOf[t],
                                   before |-> sub[t].before[ScopeOf[t]], after |-> t])
    /\ SubGoes(t, "recorded")
    /\ UNCHANGED <<setting, target, lock, control, rev, reverts, crashes, replaced>>

\* Mutant: the task is closed before its commit is recorded.
CloseUnrecorded(t) ==
    /\ sub[t].pc \in {"committed", "recorded"}
    /\ control' = [control EXCEPT ![t] = "COMMITTED"]
    /\ SubEnds(t)
    /\ UNCHANGED <<setting, target, lock, history, rev, reverts, crashes, replaced>>

\* submission.json and, last, the control record.
CloseTask(t) ==
    /\ sub[t].pc = "recorded"
    /\ control' = [control EXCEPT ![t] = "COMMITTED"]
    /\ SubEnds(t)
    /\ UNCHANGED <<setting, target, lock, history, rev, reverts, crashes, replaced>>

\* A killed process leaves the lock it holds.
SubmissionCrash(t) ==
    /\ crashes < setting.crashes /\ sub[t].pc # "idle"
    /\ SubEnds(t)
    /\ crashes' = crashes + 1
    /\ UNCHANGED <<setting, target, lock, history, control, rev, reverts, replaced>>

SubmissionStep(t) ==
    \/ Submit(t) \/ Lock(t) \/ StageBook(t) \/ ReplaceBook(t) \/ Unlock(t)
    \/ RecordCommit(t) \/ LeaveEverythingOut(t) \/ CloseTask(t)

----------------------------------------------------------------------------
(***************************************************************************)
(* Revert TARGET Scope.  It takes no lock.                                 *)
(***************************************************************************)

OfScope(s) == {i \in DOMAIN history : history[i].scope = s}
IsLatest(i, s) == i \in OfScope(s) /\ \A j \in OfScope(s) : j <= i

\* The scope must still hold what the latest entry of its history put there.
AsCommitted(entry) == target[entry.scope] = entry.after

CheckRevert(s) ==
    /\ MayStart /\ rev.pc = "idle" /\ reverts < setting.reverts
    /\ \E i \in DOMAIN history :
         /\ IsLatest(i, s)
         /\ AsCommitted(history[i])
         /\ rev' = [rev EXCEPT !.pc = "checked", !.scope = s,
                               !.restored = [target EXCEPT ![s] = history[i].before]]
    /\ reverts' = reverts + 1
    /\ UNCHANGED <<setting, target, lock, history, control, sub, crashes, replaced>>

StageRevert ==
    /\ rev.pc = "checked"
    /\ rev' = [rev EXCEPT !.pc = "staged", !.staged = target]
    /\ UNCHANGED <<setting, target, lock, history, control, sub, reverts, crashes, replaced>>

\* The receipt that follows is not read by anything.
CommitRevert ==
    /\ rev.pc = "staged"
    /\ IF target = rev.staged
         THEN target' = rev.restored /\ replaced' = Replacing(rev.restored)
         ELSE UNCHANGED <<target, replaced>>
    /\ rev' = RevIdle
    /\ UNCHANGED <<setting, lock, history, control, sub, reverts, crashes>>

RevertCrash ==
    /\ crashes < setting.crashes /\ rev.pc # "idle"
    /\ rev' = RevIdle
    /\ crashes' = crashes + 1
    /\ UNCHANGED <<setting, target, lock, history, control, sub, reverts, replaced>>

Next ==
    \/ \E t \in Tasks : SubmissionStep(t) \/ SubmissionCrash(t)
    \/ \E s \in Scopes : CheckRevert(s)
    \/ StageRevert \/ CommitRevert \/ RevertCrash

Spec == Init /\ [][Next]_vars

\* A started command goes on, and a refused or interrupted submission is repeated.
FairSpec ==
    /\ Spec
    /\ \A t \in Tasks : WF_vars(SubmissionStep(t))
    /\ WF_vars(StageRevert) /\ WF_vars(CommitRevert)

----------------------------------------------------------------------------
(***************************************************************************)
(* Properties.                                                             *)
(***************************************************************************)

Touched == {s \in Scopes : target'[s] # target[s]}

OutOfScopeKept ==
    /\ \A t \in Tasks : sub[t].pc = "staged" /\ sub'[t].pc = "replaced"
                          => Touched \subseteq {ScopeOf[t]}
    /\ rev.pc = "staged" => Touched \subseteq {rev.scope} \/ rev' = rev

\* Stated by the BIC cheat sheet: a submission "journal-commits only the
\* governed scope into the bound TARGET book; all out-of-scope TARGET content
\* [is] preserved", and a revert "restores only the selected scope".
OutOfScopePreserved == [][OutOfScopeKept]_vars

\* The same for commands that follow one another, whatever was killed before.
OutOfScopePreservedInTurn == [][~setting.concurrent => OutOfScopeKept]_vars

\* One session, and no command has been killed: a submission killed before its
\* commit was recorded is submitted again and records its own text as the
\* earlier one.
Orderly == ~setting.concurrent /\ crashes = 0

\* Stated by the BIC cheat sheet: a revert restores the scope "to its
\* immediately preceding committed state", the text the present one replaced.
RevertRestoresPrevious ==
    [][rev.pc = "staged" /\ rev'.pc = "idle" /\ target = rev.staged /\ Orderly'
          => target'[rev.scope] = replaced[rev.scope]]_rev

\* No committed text is without a way back: a scope holds the text of a task
\* only if the task's commit is in the history, is about to be recorded, or the
\* task is still open for the submission that will record it.
CommitIsRecoverable ==
    \A s \in Scopes : target[s] \in Tasks =>
        \/ \E i \in OfScope(s) : history[i].task = target[s]
        \/ control[target[s]] = "CREATED"

\* Every submission is closed in the end, or a command was killed: a holder of
\* the lock always releases it, and a refused submission is repeated.
SubmissionCloses ==
    \A t \in Tasks : t \in setting.tasks /\ control[t] = "CREATED"
                       ~> control[t] = "COMMITTED" \/ crashes > 0
============================================================================
