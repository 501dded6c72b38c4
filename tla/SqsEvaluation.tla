--------------------------- MODULE SqsEvaluation ---------------------------
(***************************************************************************)
(* The evaluation runs of the SAGE Qualification Service                   *)
(* (src/services/sqs/src/sage_sqs): how one provider model is qualified    *)
(* for the capabilities of one language profile.                           *)
(*                                                                         *)
(* Four kinds of process share one SQLite database, and each repository    *)
(* method is one transaction: the timer-driven workers, the ADMIN console, *)
(* the ingest drain that stages results measured on other machines, and    *)
(* the catalog synchronisation of a restarting API.  What one of them does *)
(* is a sequence of such transactions, so the others run between any two.  *)
(*                                                                         *)
(* A run is identified by the digest of its payload, which names the       *)
(* capability but not the model revision: <<c, 0>> is the run every        *)
(* unforced request for c denotes, <<c, n>> the n-th forced one.           *)
(***************************************************************************)
EXTENDS Naturals

CONSTANTS
    Workers,          \* worker processes
    Capabilities,     \* capabilities with a READY evaluation pack
    MaxForced,        \* bound: forced repetitions per capability
    MaxFingerprint,   \* bound: capability fingerprints the provider goes through
    Scopes            \* what is checked, each scope with what may happen in it: the
                      \* workers at work, the runs ADMIN may ask for, the fingerprints
                      \* reached, and whether workers are killed, evaluations raise,
                      \* ADMIN disables, retires or revokes, other machines submit

ScopeRecords == [workers : SUBSET Workers, runs : SUBSET (Capabilities \X (0 .. MaxForced)),
                 fingerprints : 1 .. MaxFingerprint, kills : BOOLEAN, faults : BOOLEAN,
                 withdrawals : BOOLEAN, submissions : BOOLEAN]

ASSUME SqsEvaluationAssumption ==
    /\ MaxForced \in Nat
    /\ MaxFingerprint \in Nat \ {0}
    /\ Scopes \subseteq ScopeRecords

VARIABLES
    scope,       \* the scope this behaviour belongs to
    model,       \* latest model record: capability fingerprint, status, mapping approved
    profile,     \* status of the latest profile record
    run,         \* evaluation_runs: status of every run, "NONE" when not queued
    attempts,    \* evaluation_attempts: who recorded evidence for the run
    qual,        \* qualifications: at most one row per capability
    item,        \* attention item of the run's submission: status and payload
    incoming,    \* incoming/<run>.json: the fingerprint it carries, 0 without a file
    drain,       \* the submission the ingest drain works on
    worker,      \* what each worker is doing
    admin        \* what the ADMIN console is doing

vars == <<scope, model, profile, run, attempts, qual, item, incoming, drain, worker, admin>>

Fingerprints == 1 .. MaxFingerprint
Runs == Capabilities \X (0 .. MaxForced)
PlannedRun(c) == <<c, 0>>
NoRun == <<>>
NoQual == [fp |-> 0, by |-> NoRun]
NoItem == [status |-> "NONE", fp |-> 0]

Terminal == {"COMPLETED", "FAILED"}

\* Steps of run_once, named for what has been done last.
WorkerSteps == {"claimed", "measuring", "measured", "attempted", "stored",
                "completed", "queueing", "failing"}
Idle == [pc |-> "idle", run |-> NoRun, fp |-> 0, next |-> NoRun]
AtRest == [pc |-> "idle", run |-> NoRun, fp |-> 0]

AdminSteps == {"queueing", "approving", "stored", "attempted", "decided"}

TypeOK ==
    /\ scope \in Scopes
    /\ model \in [fp : Fingerprints, mapped : BOOLEAN,
                  status : {"REVIEW_REQUIRED", "APPROVED", "DISABLED"}]
    /\ profile \in {"REVIEW_REQUIRED", "ACTIVE", "RETIRED"}
    /\ run \in [Runs -> {"NONE", "PENDING", "RUNNING"} \cup Terminal]
    /\ attempts \in [Runs -> SUBSET {"worker", "review"}]
    /\ qual \in [Capabilities -> {NoQual} \cup [fp : Fingerprints, by : Runs]]
    /\ item \in [Runs -> {NoItem} \cup [status : {"OPEN", "RESOLVED"}, fp : Fingerprints]]
    /\ incoming \in [Runs -> {0} \cup Fingerprints]
    /\ drain \in [pc : {"idle", "accepted", "staged"}, run : {NoRun} \cup Runs,
                  fp : {0} \cup Fingerprints]
    /\ worker \in [Workers -> [pc : {"idle"} \cup WorkerSteps, run : {NoRun} \cup Runs,
                               fp : {0} \cup Fingerprints, next : {NoRun} \cup Runs]]
    /\ admin \in [pc : {"idle"} \cup AdminSteps, run : {NoRun} \cup Runs,
                  fp : {0} \cup Fingerprints]

\* The catalogues are loaded and ADMIN has reviewed none, some or all of them.
Init ==
    /\ scope \in Scopes
    /\ model \in [fp : {1}, mapped : {TRUE}, status : {"REVIEW_REQUIRED", "APPROVED"}]
                 \cup {[fp |-> 1, mapped |-> FALSE, status |-> "REVIEW_REQUIRED"]}
    /\ profile \in {"REVIEW_REQUIRED", "ACTIVE"}
    /\ run = [r \in Runs |-> "NONE"]
    /\ attempts = [r \in Runs |-> {}]
    /\ qual = [c \in Capabilities |-> NoQual]
    /\ item = [r \in Runs |-> NoItem]
    /\ incoming = [r \in Runs |-> 0]
    /\ drain = AtRest
    /\ worker = [w \in Workers |-> Idle]
    /\ admin = AtRest

\* The capabilities the evaluation packs of this scope are about.
Ready == {r[1] : r \in scope.runs}

Evaluable == profile = "ACTIVE" /\ model.status = "APPROVED"

----------------------------------------------------------------------------
(***************************************************************************)
(* Repository transactions that several processes use.                     *)
(***************************************************************************)

\* complete_evaluation and fail_evaluation update whatever status they find.
SetStatus(r, status) == run' = [run EXCEPT ![r] = status]

RecordAttempt(r, source) == attempts' = [attempts EXCEPT ![r] = @ \cup {source}]

\* save_qualification replaces the capability's row in one transaction.
SaveQualification(r, fp) == qual' = [qual EXCEPT ![r[1]] = [fp |-> fp, by |-> r]]

\* queue_test looks the digest up first: an existing run is returned as it is.
\* The INSERT is a later statement, so the row may have appeared meanwhile and
\* the primary key makes it raise.
MustInsert(r) == run[r] = "NONE"

InsertSucceeds(r) == run[r] = "NONE"

----------------------------------------------------------------------------
(***************************************************************************)
(* A worker: Worker.run_once, repeated until the queue is empty.           *)
(***************************************************************************)

WorkerGoes(w, pc) == worker' = [worker EXCEPT ![w].pc = pc]
WorkerRests(w) == worker' = [worker EXCEPT ![w] = Idle]

\* Mutant: the claim also takes runs that look abandoned.
ClaimableAgain == {r \in Runs : run[r] \in {"PENDING", "RUNNING"}}

\* BEGIN IMMEDIATE: choosing a PENDING run and marking it is one transaction.
\* The order by creation time, in whole seconds, is left open.
Claimable == {r \in Runs : run[r] = "PENDING"}

Claim(w) ==
    /\ w \in scope.workers /\ worker[w].pc = "idle"
    /\ \E r \in Claimable :
          /\ SetStatus(r, "RUNNING")
          /\ worker' = [worker EXCEPT ![w] = [pc |-> "claimed", run |-> r, fp |-> 0, next |-> NoRun]]
    /\ UNCHANGED <<model, profile, attempts, qual, item, incoming, drain, admin>>

\* The profile and the model are read now, whatever they were when it was queued.
LoadIdentity(w) ==
    /\ worker[w].pc = "claimed"
    /\ IF Evaluable
         THEN worker' = [worker EXCEPT ![w] = [pc |-> "measuring", run |-> worker[w].run,
                                                fp |-> model.fp, next |-> NoRun]]
         ELSE WorkerGoes(w, "failing")
    /\ UNCHANGED <<model, profile, run, attempts, qual, item, incoming, drain, admin>>

Measure(w) ==
    /\ worker[w].pc = "measuring"
    /\ \/ WorkerGoes(w, "measured")
       \/ scope.faults /\ WorkerGoes(w, "failing")
    /\ UNCHANGED <<model, profile, run, attempts, qual, item, incoming, drain, admin>>

SaveAttempt(w) ==
    /\ worker[w].pc = "measured"
    /\ RecordAttempt(worker[w].run, "worker")
    /\ WorkerGoes(w, "attempted")
    /\ UNCHANGED <<model, profile, run, qual, item, incoming, drain, admin>>

StoreResult(w) ==
    /\ worker[w].pc = "attempted"
    /\ SaveQualification(worker[w].run, worker[w].fp)
    /\ WorkerGoes(w, "stored")
    /\ UNCHANGED <<model, profile, run, attempts, item, incoming, drain, admin>>

Complete(w) ==
    /\ worker[w].pc = "stored"
    /\ SetStatus(worker[w].run, "COMPLETED")
    /\ WorkerGoes(w, "completed")
    /\ UNCHANGED <<model, profile, attempts, qual, item, incoming, drain, admin>>

\* Mutant: only outdated evidence makes a candidate.
CandidatesOutdated ==
    {c \in Ready : Evaluable /\ qual[c].fp \notin {0, model.fp}}

\* build_planner_snapshot: capabilities without evidence about the current model.
Candidates == {c \in Ready : Evaluable /\ qual[c].fp # model.fp}

\* replan_repository queues the first candidate only; their order by benefit
\* per estimated cost is left open.  A candidate whose run exists is spent on it.
Replan(w) ==
    /\ worker[w].pc = "completed"
    /\ \/ \E c \in Candidates :
            LET r == PlannedRun(c)
            IN IF MustInsert(r)
                 THEN worker' = [worker EXCEPT ![w] = [pc |-> "queueing", run |-> worker[w].run,
                                                        fp |-> worker[w].fp, next |-> r]]
                 ELSE WorkerRests(w)
       \/ Candidates = {} /\ WorkerRests(w)
    /\ UNCHANGED <<model, profile, run, attempts, qual, item, incoming, drain, admin>>

QueueNext(w) ==
    /\ worker[w].pc = "queueing"
    /\ LET r == worker[w].next
       IN IF InsertSucceeds(r)
            THEN SetStatus(r, "PENDING") /\ WorkerRests(w)
            ELSE UNCHANGED run /\ WorkerGoes(w, "failing")
    /\ UNCHANGED <<model, profile, attempts, qual, item, incoming, drain, admin>>

\* Mutant: the failure is reported as an attention item only.
FailSilently(w) ==
    /\ worker[w].pc = "failing"
    /\ WorkerRests(w)
    /\ UNCHANGED <<model, profile, run, attempts, qual, item, incoming, drain, admin>>

\* The except clause covers every step after the claim, the replanning included.
Fail(w) ==
    /\ worker[w].pc = "failing"
    /\ SetStatus(worker[w].run, "FAILED")
    /\ WorkerRests(w)
    /\ UNCHANGED <<model, profile, attempts, qual, item, incoming, drain, admin>>

WorkerStops(w) ==
    /\ scope.kills /\ worker[w].pc # "idle"
    /\ WorkerRests(w)
    /\ UNCHANGED <<model, profile, run, attempts, qual, item, incoming, drain, admin>>

WorkerStep(w) ==
    /\ \/ Claim(w) \/ LoadIdentity(w) \/ Measure(w) \/ SaveAttempt(w) \/ StoreResult(w)
       \/ Complete(w) \/ Replan(w) \/ QueueNext(w) \/ Fail(w)
    /\ UNCHANGED scope

----------------------------------------------------------------------------
(***************************************************************************)
(* Submissions of results measured elsewhere.                              *)
(***************************************************************************)

\* A SAGE host lists the PENDING runs, measures one against the identities in
\* its copy of the bundle, which may be an old one, and uploads the result; an
\* earlier upload for the run that is still waiting is overwritten.
Upload(r) ==
    /\ scope.submissions /\ run[r] = "PENDING"
    /\ \E fp \in 1 .. model.fp : incoming' = [incoming EXCEPT ![r] = fp]
    /\ UNCHANGED <<model, profile, run, attempts, qual, item, drain, worker, admin>>

Accept(r) ==
    /\ drain.pc = "idle" /\ incoming[r] # 0 /\ run[r] = "PENDING"
    /\ drain' = [pc |-> "accepted", run |-> r, fp |-> incoming[r]]
    /\ UNCHANGED <<model, profile, run, attempts, qual, item, incoming, worker, admin>>

\* The run does not wait any more, or the file was read in mid-transfer.
RejectFile(r) ==
    /\ drain.pc = "idle" /\ incoming[r] # 0
    /\ incoming' = [incoming EXCEPT ![r] = 0]
    /\ UNCHANGED <<model, profile, run, attempts, qual, item, drain, worker, admin>>

\* Staging a known result again replaces its payload and keeps its status.
Staged(r, fp) ==
    IF item[r] = NoItem THEN [status |-> "OPEN", fp |-> fp] ELSE [item[r] EXCEPT !.fp = fp]

StageItem ==
    /\ drain.pc = "accepted"
    /\ item' = [item EXCEPT ![drain.run] = Staged(drain.run, drain.fp)]
    /\ drain' = [drain EXCEPT !.pc = "staged"]
    /\ UNCHANGED <<model, profile, run, attempts, qual, incoming, worker, admin>>

\* Whatever file has the name now is moved away, be it a newer upload.
MoveFile ==
    /\ drain.pc = "staged"
    /\ incoming' = [incoming EXCEPT ![drain.run] = 0]
    /\ drain' = AtRest
    /\ UNCHANGED <<model, profile, run, attempts, qual, item, worker, admin>>

\* A drain stopped before it moved the file meets the file again next time.
DrainStops ==
    /\ drain.pc # "idle"
    /\ drain' = AtRest
    /\ UNCHANGED <<model, profile, run, attempts, qual, item, incoming, worker, admin>>

----------------------------------------------------------------------------
(***************************************************************************)
(* The ADMIN console.                                                      *)
(***************************************************************************)

AdminGoes(pc) == admin' = [admin EXCEPT !.pc = pc]

\* queue_evaluation; a forced request gets a digest nobody else uses.
RequestRun(r) ==
    /\ r \in scope.runs /\ admin.pc = "idle" /\ Evaluable /\ MustInsert(r)
    /\ admin' = [admin EXCEPT !.pc = "queueing", !.run = r]
    /\ UNCHANGED <<model, profile, run, attempts, qual, item, incoming, drain, worker>>

InsertRun ==
    /\ admin.pc = "queueing"
    /\ IF InsertSucceeds(admin.run) THEN SetStatus(admin.run, "PENDING") ELSE UNCHANGED run
    /\ admin' = AtRest
    /\ UNCHANGED <<model, profile, attempts, qual, item, incoming, drain, worker>>

\* review_qualification_submission works on the item as listed when it starts,
\* whatever status its run has by now.
Reviewable(r) == item[r].status = "OPEN"

\* Mutant: the item is resolved before the result is stored.
ApproveResolved(r) ==
    /\ admin.pc = "idle" /\ Reviewable(r) /\ item[r].fp = model.fp
    /\ admin' = [pc |-> "approving", run |-> r, fp |-> item[r].fp]
    /\ item' = [item EXCEPT ![r].status = "RESOLVED"]
    /\ UNCHANGED <<model, profile, run, attempts, qual, incoming, drain, worker>>

\* APPROVE: stale identities raise, and the item stays open.
Approve(r) ==
    /\ admin.pc = "idle" /\ Reviewable(r) /\ item[r].fp = model.fp
    /\ admin' = [pc |-> "approving", run |-> r, fp |-> item[r].fp]
    /\ UNCHANGED <<model, profile, run, attempts, qual, item, incoming, drain, worker>>

ApproveStore ==
    /\ admin.pc = "approving"
    /\ SaveQualification(admin.run, admin.fp)
    /\ AdminGoes("stored")
    /\ UNCHANGED <<model, profile, run, attempts, item, incoming, drain, worker>>

ApproveAttempt ==
    /\ admin.pc = "stored"
    /\ RecordAttempt(admin.run, "review")
    /\ AdminGoes("attempted")
    /\ UNCHANGED <<model, profile, run, qual, item, incoming, drain, worker>>

\* Mutant: the run is completed before the attempt is recorded.
ApproveCompleteEarly ==
    /\ admin.pc = "stored"
    /\ SetStatus(admin.run, "COMPLETED")
    /\ AdminGoes("decided")
    /\ UNCHANGED <<model, profile, attempts, qual, item, incoming, drain, worker>>

ApproveComplete ==
    /\ admin.pc = "attempted"
    /\ SetStatus(admin.run, "COMPLETED")
    /\ AdminGoes("decided")
    /\ UNCHANGED <<model, profile, attempts, qual, item, incoming, drain, worker>>

Reject(r) ==
    /\ admin.pc = "idle" /\ Reviewable(r)
    /\ SetStatus(r, "FAILED")
    /\ admin' = [admin EXCEPT !.pc = "decided", !.run = r]
    /\ UNCHANGED <<model, profile, attempts, qual, item, incoming, drain, worker>>

Resolve ==
    /\ admin.pc = "decided"
    /\ item' = [item EXCEPT ![admin.run].status = "RESOLVED"]
    /\ admin' = AtRest
    /\ UNCHANGED <<model, profile, run, attempts, qual, incoming, drain, worker>>

\* The SSH session ends between two statements.
AdminStops ==
    /\ admin.pc # "idle"
    /\ admin' = AtRest
    /\ UNCHANGED <<model, profile, run, attempts, qual, item, incoming, drain, worker>>

ApproveMapping ==
    /\ admin.pc = "idle"
    /\ model' = [model EXCEPT !.mapped = TRUE]
    /\ UNCHANGED <<profile, run, attempts, qual, item, incoming, drain, worker, admin>>

ApproveModel ==
    /\ admin.pc = "idle" /\ model.mapped
    /\ model' = [model EXCEPT !.status = "APPROVED"]
    /\ UNCHANGED <<profile, run, attempts, qual, item, incoming, drain, worker, admin>>

ApproveProfile ==
    /\ admin.pc = "idle" /\ profile # "RETIRED"
    /\ profile' = "ACTIVE"
    /\ UNCHANGED <<model, run, attempts, qual, item, incoming, drain, worker, admin>>

DisableModel ==
    /\ scope.withdrawals /\ admin.pc = "idle"
    /\ model' = [model EXCEPT !.status = "DISABLED"]
    /\ UNCHANGED <<profile, run, attempts, qual, item, incoming, drain, worker, admin>>

RetireProfile ==
    /\ scope.withdrawals /\ admin.pc = "idle"
    /\ profile' = "RETIRED"
    /\ UNCHANGED <<model, run, attempts, qual, item, incoming, drain, worker, admin>>

Revoke(c) ==
    /\ scope.withdrawals /\ admin.pc = "idle"
    /\ qual' = [qual EXCEPT ![c] = NoQual]
    /\ UNCHANGED <<model, profile, run, attempts, item, incoming, drain, worker, admin>>

----------------------------------------------------------------------------
\* sync_provider_catalog when the provider changed the model: a new revision
\* that must be mapped and approved again.
SyncCatalog ==
    /\ model.fp < scope.fingerprints
    /\ model' = [fp |-> model.fp + 1, mapped |-> FALSE, status |-> "REVIEW_REQUIRED"]
    /\ UNCHANGED <<profile, run, attempts, qual, item, incoming, drain, worker, admin>>

Review == ApproveStore \/ ApproveAttempt \/ ApproveComplete \/ Resolve
Governance == ApproveMapping \/ ApproveModel \/ ApproveProfile

Next ==
    /\ \/ \E w \in Workers : WorkerStep(w) \/ WorkerStops(w)
       \/ \E r \in Runs : \/ Upload(r) \/ Accept(r) \/ RejectFile(r)
                          \/ RequestRun(r) \/ Approve(r) \/ Reject(r)
       \/ StageItem \/ MoveFile \/ DrainStops
       \/ InsertRun \/ Review \/ AdminStops \/ Governance
       \/ DisableModel \/ RetireProfile \/ \E c \in Capabilities : Revoke(c)
       \/ SyncCatalog
    /\ UNCHANGED scope

Spec == Init /\ [][Next]_vars

\* The timer restarts the worker every minute, so a drain always goes on.
FairSpec == Spec /\ \A w \in Workers : WF_vars(WorkerStep(w))

----------------------------------------------------------------------------
(***************************************************************************)
(* Properties.                                                             *)
(***************************************************************************)

\* A run reported COMPLETED has an evaluation attempt recorded, whichever of
\* the worker and the review completed it and wherever either was stopped.
CompletedHasAttempt == \A r \in Runs : run[r] = "COMPLETED" => attempts[r] # {}

\* A result staged for a run that still waits is listed for review: it was not
\* hidden by a decision on an earlier result of the run (upsert_attention keeps
\* the status of an item it knows).
StagedResultIsListed ==
    \A r \in Runs : item[r] # NoItem /\ run[r] = "PENDING" => item[r].status = "OPEN"

\* No worker measures a run for which a worker's attempt is recorded
\* (test_worker_does_not_reexecute_completed_test).
NeverReexecuted ==
    [][\A w \in Workers :
         worker[w].pc = "claimed" /\ worker'[w].pc = "measuring"
            => "worker" \notin attempts[worker[w].run]]_worker

\* With the timer running every queued run is decided, by a worker or a review,
\* where no worker is killed: nothing takes up a run that was left RUNNING.
QueuedRunIsDecided ==
    \A r \in Runs : ~scope.kills /\ run[r] = "PENDING" ~> run[r] \in Terminal

\* Nobody executes the run that a killed worker left RUNNING.
Abandoned(r) == run[r] = "RUNNING" /\ \A w \in Workers : worker[w].run # r

\* Nothing is withdrawn, fails, is abandoned or is revoked.
Undisturbed ==
    /\ Evaluable
    /\ \A r \in Runs : run[r] # "FAILED" /\ ~Abandoned(r)
    /\ \A c \in Ready : run[PlannedRun(c)] = "COMPLETED" => qual[c].fp = model.fp

\* Stated by test_successful_worker_replans_remaining_exact_candidate: undisturbed,
\* one evaluation a worker completed pulls the capabilities that lack evidence
\* through the queue one after the other, until none does.
PlanCoversCapabilities ==
    []Undisturbed =>
      ((\E w \in Workers : worker[w].pc = "completed")
         ~> (\A c \in Ready : qual[c].fp = model.fp))
============================================================================
