----------------------------- MODULE SqsProofs -----------------------------
(***************************************************************************)
(* The two halves of the SQS service, which meet only in what a            *)
(* publication reads: the evaluation runs, for any number of workers,      *)
(* capabilities, forced repetitions and fingerprints; and what a bundle is *)
(* and what a host believes, for any number of publishers, capabilities,   *)
(* revisions, crashes and lost generations.                                *)
(***************************************************************************)
EXTENDS SqsEvaluation, SqsPublication, WellFoundedInduction, TLAPS

(***************************************************************************)
(* Evaluation: a run is executed once, is COMPLETED with evidence only,    *)
(* and a result staged for a waiting run is listed.                        *)
(***************************************************************************)
Started == {"RUNNING"} \cup Terminal

WorkersOn ==
    \A w \in Workers :
        /\ worker[w].pc # "idle" =>
              worker[w].run \in Runs /\ run[worker[w].run] \in Started
        /\ worker[w].pc = "claimed" => "worker" \notin attempts[worker[w].run]
        /\ worker[w].pc \in {"measuring", "measured", "attempted"} => worker[w].fp \in Fingerprints
        /\ worker[w].pc \in {"attempted", "stored"} => "worker" \in attempts[worker[w].run]
        /\ worker[w].pc = "queueing" => worker[w].next \in Runs

WorkersApart ==
    \A v, w \in Workers :
        worker[v].pc # "idle" /\ worker[w].pc # "idle" /\ worker[v].run = worker[w].run => v = w

AdminOn ==
    /\ admin.pc # "idle" => admin.run \in Runs
    /\ admin.pc \in {"approving", "stored", "attempted"} => admin.fp \in Fingerprints
    /\ admin.pc \in {"approving", "stored", "attempted", "decided"} => item[admin.run] # NoItem
    /\ admin.pc = "attempted" => attempts[admin.run] # {}
    /\ admin.pc = "decided" => run[admin.run] \in Terminal

DrainOn ==
    drain.pc # "idle" =>
        drain.run \in Runs /\ drain.fp \in Fingerprints /\ run[drain.run] # "NONE"

RecordsAgree ==
    \A r \in Runs :
        /\ "worker" \in attempts[r] => run[r] \in Started
        /\ run[r] = "COMPLETED" => attempts[r] # {}
        /\ item[r] # NoItem => run[r] # "NONE"
        /\ item[r].status = "RESOLVED" => run[r] \in Terminal

SqsInv == TypeOK /\ WorkersOn /\ WorkersApart /\ AdminOn /\ DrainOn /\ RecordsAgree

---------------------------------------------------------------------------
USE SqsEvaluationAssumption

LEMMA IdleTypes ==
  /\ Idle \in [pc : {"idle"} \cup WorkerSteps, run : {NoRun} \cup Runs,
               fp : {0} \cup Fingerprints, next : {NoRun} \cup Runs]
  /\ Idle.pc = "idle" /\ AtRest.pc = "idle"
  /\ AtRest \in [pc : {"idle"} \cup AdminSteps, run : {NoRun} \cup Runs, fp : {0} \cup Fingerprints]
  /\ AtRest \in [pc : {"idle", "accepted", "staged"}, run : {NoRun} \cup Runs,
                 fp : {0} \cup Fingerprints]
  BY DEF Idle, AtRest

LEMMA RunTypes ==
  /\ \A r \in Runs : r[1] \in Capabilities
  /\ \A c \in Capabilities : PlannedRun(c) \in Runs
  BY DEF Runs, PlannedRun

\* Scopes name capabilities only.
LEMMA ReadyTypes == TypeOK => Ready \subseteq Capabilities
  BY DEF Ready, TypeOK, ScopeRecords

LEMMA InitSqsInv == Init => SqsInv
<1> SUFFICES ASSUME Init PROVE SqsInv
  OBVIOUS
<1>1. TypeOK
  <2>1. model \in [fp : Fingerprints, mapped : BOOLEAN,
                   status : {"REVIEW_REQUIRED", "APPROVED", "DISABLED"}]
    <3>1. 1 \in Fingerprints
      BY DEF Fingerprints
    <3>2. CASE model = [fp |-> 1, mapped |-> FALSE, status |-> "REVIEW_REQUIRED"]
      BY <3>1, <3>2
    <3>3. CASE model \in [fp : {1}, mapped : {TRUE}, status : {"REVIEW_REQUIRED", "APPROVED"}]
      BY <3>1, <3>3
    <3>4. QED
      BY <3>2, <3>3 DEF Init
  <2>2. QED
    BY <2>1, IdleTypes DEF Init, TypeOK
<1>2. WorkersOn /\ WorkersApart /\ AdminOn /\ DrainOn
  BY IdleTypes DEF Init, WorkersOn, WorkersApart, AdminOn, DrainOn
<1>3. RecordsAgree
  BY DEF Init, RecordsAgree, NoItem, Terminal
<1>4. QED
  BY <1>1, <1>2, <1>3 DEF SqsInv

---------------------------------------------------------------------------
LEMMA ClaimStep ==
  ASSUME SqsInv, NEW w \in Workers, Claim(w), UNCHANGED scope
  PROVE  SqsInv'
<1> USE IdleTypes, RunTypes DEF SqsInv, TypeOK, Claim, Claimable, SetStatus, Idle
<1>1. TypeOK'
  <2>1. PICK r \in Claimable :
          /\ run' = [run EXCEPT ![r] = "RUNNING"]
          /\ worker' = [worker EXCEPT ![w] = [pc |-> "claimed", run |-> r, fp |-> 0, next |-> NoRun]]
    OBVIOUS
  <2>2. run' \in [Runs -> {"NONE", "PENDING", "RUNNING"} \cup Terminal]
    BY <2>1
  <2>3. worker' \in [Workers -> [pc : {"idle"} \cup WorkerSteps, run : {NoRun} \cup Runs,
                               fp : {0} \cup Fingerprints, next : {NoRun} \cup Runs]]
    BY <2>1 DEF WorkerSteps
  <2>4. QED
    BY <2>2, <2>3
<1>2. WorkersOn' /\ WorkersApart'
  BY SMTT(60) DEF WorkersOn, WorkersApart, RecordsAgree, Started, Terminal
<1>3. AdminOn' /\ DrainOn'
  BY DEF AdminOn, DrainOn, WorkersOn, RecordsAgree, Started, Terminal
<1>4. RecordsAgree'
  BY DEF RecordsAgree, WorkersOn, AdminOn, DrainOn, Started, Terminal
<1>5. QED
  BY <1>1, <1>2, <1>3, <1>4

LEMMA LoadIdentityStep ==
  ASSUME SqsInv, NEW w \in Workers, LoadIdentity(w), UNCHANGED scope
  PROVE  SqsInv'
<1> USE IdleTypes, RunTypes DEF SqsInv, TypeOK, LoadIdentity, WorkerGoes
<1>1. TypeOK'
  BY SMTT(60) DEF WorkerSteps
<1>2. WorkersOn' /\ WorkersApart'
  <2>1. CASE Evaluable
    <3>1. \A v \in Workers : worker'[v] = IF v = w THEN [pc |-> "measuring", run |-> worker[w].run, fp |-> model.fp, next |-> NoRun] ELSE worker[v]
      BY <2>1
    <3>2. UNCHANGED <<run, attempts>>
      BY <2>1
    <3>3. WorkersOn'
      BY <3>1, <3>2 DEF WorkersOn
    <3>4. WorkersApart'
      BY <3>1 DEF WorkersApart
    <3>5. QED
      BY <3>3, <3>4
  <2>2. CASE ~Evaluable
    <3>1. \A v \in Workers : worker'[v] = IF v = w THEN [worker[v] EXCEPT !.pc = "failing"] ELSE worker[v]
      BY <2>2
    <3>2. UNCHANGED <<run, attempts>>
      BY <2>2
    <3>3. WorkersOn'
      BY <3>1, <3>2, SMTT(60) DEF WorkersOn
    <3>4. WorkersApart'
      BY <3>1 DEF WorkersApart
    <3>5. QED
      BY <3>3, <3>4
  <2>3. QED
    BY <2>1, <2>2
<1>3. AdminOn' /\ DrainOn'
  BY DEF AdminOn, DrainOn, WorkersOn, RecordsAgree, Started, Terminal
<1>4. RecordsAgree'
  BY DEF RecordsAgree, WorkersOn, AdminOn, DrainOn, Started, Terminal
<1>5. QED
  BY <1>1, <1>2, <1>3, <1>4

LEMMA MeasureStep ==
  ASSUME SqsInv, NEW w \in Workers, Measure(w), UNCHANGED scope
  PROVE  SqsInv'
<1> USE IdleTypes, RunTypes DEF SqsInv, TypeOK, Measure, WorkerGoes
<1>1. TypeOK'
  BY SMTT(60) DEF WorkerSteps
<1>2. WorkersOn' /\ WorkersApart'
  <2>1. CASE WorkerGoes(w, "measured")
    BY <2>1 DEF WorkersOn, WorkersApart, RecordsAgree, Started, Terminal
  <2>2. CASE WorkerGoes(w, "failing")
    BY <2>2 DEF WorkersOn, WorkersApart, RecordsAgree, Started, Terminal
  <2>3. QED
    BY <2>1, <2>2
<1>3. AdminOn' /\ DrainOn'
  BY DEF AdminOn, DrainOn, WorkersOn, RecordsAgree, Started, Terminal
<1>4. RecordsAgree'
  BY DEF RecordsAgree, WorkersOn, AdminOn, DrainOn, Started, Terminal
<1>5. QED
  BY <1>1, <1>2, <1>3, <1>4

LEMMA SaveAttemptStep ==
  ASSUME SqsInv, NEW w \in Workers, SaveAttempt(w), UNCHANGED scope
  PROVE  SqsInv'
<1> USE IdleTypes, RunTypes DEF SqsInv, TypeOK, SaveAttempt, WorkerGoes, RecordAttempt
<1>1. TypeOK'
  <2>1. worker[w].run \in Runs
    BY DEF WorkersOn
  <2>2. attempts' \in [Runs -> SUBSET {"worker", "review"}]
    BY <2>1
  <2>3. worker' \in [Workers -> [pc : {"idle"} \cup WorkerSteps, run : {NoRun} \cup Runs,
                               fp : {0} \cup Fingerprints, next : {NoRun} \cup Runs]]
    BY SMTT(60) DEF WorkerSteps
  <2>4. QED
    BY <2>2, <2>3
<1>2. WorkersOn' /\ WorkersApart'
  BY DEF WorkersOn, WorkersApart, RecordsAgree, Started, Terminal
<1>3. AdminOn' /\ DrainOn'
  BY DEF AdminOn, DrainOn, WorkersOn, RecordsAgree, Started, Terminal
<1>4. RecordsAgree'
  BY DEF RecordsAgree, WorkersOn, AdminOn, DrainOn, Started, Terminal
<1>5. QED
  BY <1>1, <1>2, <1>3, <1>4

LEMMA StoreResultStep ==
  ASSUME SqsInv, NEW w \in Workers, StoreResult(w), UNCHANGED scope
  PROVE  SqsInv'
<1> USE IdleTypes, RunTypes DEF SqsInv, TypeOK, StoreResult, WorkerGoes, SaveQualification
<1>1. TypeOK'
  BY SMTT(60) DEF WorkersOn, WorkerSteps
<1>2. WorkersOn' /\ WorkersApart'
  BY DEF WorkersOn, WorkersApart, RecordsAgree, Started, Terminal
<1>3. AdminOn' /\ DrainOn'
  BY DEF AdminOn, DrainOn, WorkersOn, RecordsAgree, Started, Terminal
<1>4. RecordsAgree'
  BY DEF RecordsAgree, WorkersOn, AdminOn, DrainOn, Started, Terminal
<1>5. QED
  BY <1>1, <1>2, <1>3, <1>4

LEMMA CompleteStep ==
  ASSUME SqsInv, NEW w \in Workers, Complete(w), UNCHANGED scope
  PROVE  SqsInv'
<1> USE IdleTypes, RunTypes DEF SqsInv, TypeOK, Complete, WorkerGoes, SetStatus
<1>1. TypeOK'
  BY DEF WorkersOn, WorkerSteps, Terminal
<1>2. WorkersOn' /\ WorkersApart'
  BY DEF WorkersOn, WorkersApart, RecordsAgree, Started, Terminal
<1>3. AdminOn' /\ DrainOn'
  BY DEF AdminOn, DrainOn, WorkersOn, RecordsAgree, Started, Terminal
<1>4. RecordsAgree'
  BY DEF RecordsAgree, WorkersOn, AdminOn, DrainOn, Started, Terminal
<1>5. QED
  BY <1>1, <1>2, <1>3, <1>4

LEMMA ReplanStep ==
  ASSUME SqsInv, NEW w \in Workers, Replan(w), UNCHANGED scope
  PROVE  SqsInv'
<1> USE IdleTypes, RunTypes DEF SqsInv, TypeOK, Replan, WorkerRests, Candidates
<1>0. \/ WorkerRests(w)
      \/ \E c \in Capabilities : worker' = [worker EXCEPT ![w] =
            [pc |-> "queueing", run |-> worker[w].run, fp |-> worker[w].fp, next |-> PlannedRun(c)]]
  BY ReadyTypes
<1>1. TypeOK'
  <2>1. CASE WorkerRests(w)
    BY <2>1
  <2>2. ASSUME NEW c \in Capabilities,
               worker' = [worker EXCEPT ![w] = [pc |-> "queueing", run |-> worker[w].run,
                                                fp |-> worker[w].fp, next |-> PlannedRun(c)]]
        PROVE  TypeOK'
    BY <2>2 DEF WorkerSteps
  <2>3. QED
    BY <1>0, <2>1, <2>2
<1>2. WorkersOn' /\ WorkersApart'
  <2>1. CASE WorkerRests(w)
    BY <2>1 DEF WorkersOn, WorkersApart
  <2>2. ASSUME NEW c \in Capabilities,
               worker' = [worker EXCEPT ![w] = [pc |-> "queueing", run |-> worker[w].run,
                                                fp |-> worker[w].fp, next |-> PlannedRun(c)]]
        PROVE  WorkersOn' /\ WorkersApart'
    BY <2>2 DEF WorkersOn, WorkersApart
  <2>3. QED
    BY <1>0, <2>1, <2>2
<1>3. AdminOn' /\ DrainOn'
  BY DEF AdminOn, DrainOn, WorkersOn, RecordsAgree, Started, Terminal
<1>4. RecordsAgree'
  BY DEF RecordsAgree, WorkersOn, AdminOn, DrainOn, Started, Terminal
<1>5. QED
  BY <1>1, <1>2, <1>3, <1>4

LEMMA QueueNextStep ==
  ASSUME SqsInv, NEW w \in Workers, QueueNext(w), UNCHANGED scope
  PROVE  SqsInv'
<1> USE IdleTypes, RunTypes DEF SqsInv, TypeOK, QueueNext, InsertSucceeds, SetStatus, WorkerRests, WorkerGoes
<1>1. TypeOK'
  <2>1. CASE InsertSucceeds(worker[w].next)
    BY <2>1, SMTT(60)
  <2>2. CASE ~InsertSucceeds(worker[w].next)
    BY <2>2, SMTT(60) DEF WorkerSteps
  <2>3. QED
    BY <2>1, <2>2
<1>2. WorkersOn' /\ WorkersApart'
  <2>1. CASE InsertSucceeds(worker[w].next)
    BY <2>1, SMTT(60) DEF WorkersOn, WorkersApart, RecordsAgree, Started, Terminal
  <2>2. CASE ~InsertSucceeds(worker[w].next)
    <3>1. \A v \in Workers : worker'[v] = IF v = w THEN [worker[v] EXCEPT !.pc = "failing"] ELSE worker[v]
      BY <2>2
    <3>2. UNCHANGED <<run, attempts>>
      BY <2>2
    <3>3. WorkersOn'
      BY <3>1, <3>2 DEF WorkersOn
    <3>4. WorkersApart'
      BY <3>1, SMTT(60) DEF WorkersApart
    <3>5. QED
      BY <3>3, <3>4
  <2>3. QED
    BY <2>1, <2>2
<1>3. AdminOn' /\ DrainOn'
  BY DEF AdminOn, DrainOn, WorkersOn, RecordsAgree, Started, Terminal
<1>4. RecordsAgree'
  BY DEF RecordsAgree, WorkersOn, AdminOn, DrainOn, Started, Terminal
<1>5. QED
  BY <1>1, <1>2, <1>3, <1>4

LEMMA FailStep ==
  ASSUME SqsInv, NEW w \in Workers, Fail(w), UNCHANGED scope
  PROVE  SqsInv'
<1> USE IdleTypes, RunTypes DEF SqsInv, TypeOK, Fail, SetStatus, WorkerRests
<1>1. TypeOK'
  BY DEF WorkersOn, WorkerSteps, Terminal
<1>2. WorkersOn' /\ WorkersApart'
  BY DEF WorkersOn, WorkersApart, RecordsAgree, Started, Terminal
<1>3. AdminOn' /\ DrainOn'
  BY DEF AdminOn, DrainOn, WorkersOn, RecordsAgree, Started, Terminal
<1>4. RecordsAgree'
  BY DEF RecordsAgree, WorkersOn, AdminOn, DrainOn, Started, Terminal
<1>5. QED
  BY <1>1, <1>2, <1>3, <1>4

LEMMA WorkerStopsStep ==
  ASSUME SqsInv, NEW w \in Workers, WorkerStops(w), UNCHANGED scope
  PROVE  SqsInv'
<1> USE IdleTypes, RunTypes DEF SqsInv, TypeOK, WorkerStops, WorkerRests
<1>1. TypeOK'
  BY DEF WorkerSteps
<1>2. WorkersOn' /\ WorkersApart'
  BY DEF WorkersOn, WorkersApart, RecordsAgree, Started, Terminal
<1>3. AdminOn' /\ DrainOn'
  BY DEF AdminOn, DrainOn, WorkersOn, RecordsAgree, Started, Terminal
<1>4. RecordsAgree'
  BY DEF RecordsAgree, WorkersOn, AdminOn, DrainOn, Started, Terminal
<1>5. QED
  BY <1>1, <1>2, <1>3, <1>4

LEMMA UploadStep ==
  ASSUME SqsInv, NEW r \in Runs, Upload(r), UNCHANGED scope
  PROVE  SqsInv'
<1> USE IdleTypes, RunTypes DEF SqsInv, TypeOK, Upload, Fingerprints
<1>1. TypeOK'
  BY DEF WorkerSteps
<1>2. WorkersOn' /\ WorkersApart'
  BY DEF WorkersOn, WorkersApart, RecordsAgree, Started, Terminal
<1>3. AdminOn' /\ DrainOn'
  BY DEF AdminOn, DrainOn, WorkersOn, RecordsAgree, Started, Terminal
<1>4. RecordsAgree'
  BY DEF RecordsAgree, WorkersOn, AdminOn, DrainOn, Started, Terminal
<1>5. QED
  BY <1>1, <1>2, <1>3, <1>4

LEMMA AcceptStep ==
  ASSUME SqsInv, NEW r \in Runs, Accept(r), UNCHANGED scope
  PROVE  SqsInv'
<1> USE IdleTypes, RunTypes DEF SqsInv, TypeOK, Accept
<1>1. TypeOK'
  BY DEF WorkerSteps
<1>2. WorkersOn' /\ WorkersApart'
  BY DEF WorkersOn, WorkersApart, RecordsAgree, Started, Terminal
<1>3. AdminOn' /\ DrainOn'
  BY DEF AdminOn, DrainOn, WorkersOn, RecordsAgree, Started, Terminal
<1>4. RecordsAgree'
  BY DEF RecordsAgree, WorkersOn, AdminOn, DrainOn, Started, Terminal
<1>5. QED
  BY <1>1, <1>2, <1>3, <1>4

LEMMA RejectFileStep ==
  ASSUME SqsInv, NEW r \in Runs, RejectFile(r), UNCHANGED scope
  PROVE  SqsInv'
<1> USE IdleTypes, RunTypes DEF SqsInv, TypeOK, RejectFile
<1>1. TypeOK'
  BY DEF WorkerSteps
<1>2. WorkersOn' /\ WorkersApart'
  BY DEF WorkersOn, WorkersApart, RecordsAgree, Started, Terminal
<1>3. AdminOn' /\ DrainOn'
  BY DEF AdminOn, DrainOn, WorkersOn, RecordsAgree, Started, Terminal
<1>4. RecordsAgree'
  BY DEF RecordsAgree, WorkersOn, AdminOn, DrainOn, Started, Terminal
<1>5. QED
  BY <1>1, <1>2, <1>3, <1>4

LEMMA StageItemStep ==
  ASSUME SqsInv, StageItem, UNCHANGED scope
  PROVE  SqsInv'
<1> USE IdleTypes, RunTypes DEF SqsInv, TypeOK, StageItem, Staged, NoItem
<1>1. TypeOK'
  BY DEF DrainOn
<1>2. WorkersOn' /\ WorkersApart'
  BY DEF WorkersOn, WorkersApart, RecordsAgree, Started, Terminal
<1>3. AdminOn' /\ DrainOn'
  BY DEF AdminOn, DrainOn, WorkersOn, RecordsAgree, Started, Terminal
<1>4. RecordsAgree'
  BY DEF RecordsAgree, WorkersOn, AdminOn, DrainOn, Started, Terminal
<1>5. QED
  BY <1>1, <1>2, <1>3, <1>4

LEMMA MoveFileStep ==
  ASSUME SqsInv, MoveFile, UNCHANGED scope
  PROVE  SqsInv'
<1> USE IdleTypes, RunTypes DEF SqsInv, TypeOK, MoveFile
<1>1. TypeOK'
  BY ZenonT(60) DEF WorkerSteps
<1>2. WorkersOn' /\ WorkersApart'
  BY DEF WorkersOn, WorkersApart, RecordsAgree, Started, Terminal
<1>3. AdminOn' /\ DrainOn'
  BY DEF AdminOn, DrainOn, WorkersOn, RecordsAgree, Started, Terminal
<1>4. RecordsAgree'
  BY DEF RecordsAgree, WorkersOn, AdminOn, DrainOn, Started, Terminal
<1>5. QED
  BY <1>1, <1>2, <1>3, <1>4

LEMMA DrainStopsStep ==
  ASSUME SqsInv, DrainStops, UNCHANGED scope
  PROVE  SqsInv'
<1> USE IdleTypes, RunTypes DEF SqsInv, TypeOK, DrainStops
<1>1. TypeOK'
  BY DEF WorkerSteps
<1>2. WorkersOn' /\ WorkersApart'
  BY DEF WorkersOn, WorkersApart, RecordsAgree, Started, Terminal
<1>3. AdminOn' /\ DrainOn'
  BY DEF AdminOn, DrainOn, WorkersOn, RecordsAgree, Started, Terminal
<1>4. RecordsAgree'
  BY DEF RecordsAgree, WorkersOn, AdminOn, DrainOn, Started, Terminal
<1>5. QED
  BY <1>1, <1>2, <1>3, <1>4

LEMMA RequestRunStep ==
  ASSUME SqsInv, NEW r \in Runs, RequestRun(r), UNCHANGED scope
  PROVE  SqsInv'
<1> USE IdleTypes, RunTypes DEF SqsInv, TypeOK, RequestRun
<1>1. TypeOK'
  BY DEF AdminSteps
<1>2. WorkersOn' /\ WorkersApart'
  BY DEF WorkersOn, WorkersApart, RecordsAgree, Started, Terminal
<1>3. AdminOn' /\ DrainOn'
  BY DEF AdminOn, DrainOn, WorkersOn, RecordsAgree, Started, Terminal
<1>4. RecordsAgree'
  BY DEF RecordsAgree, WorkersOn, AdminOn, DrainOn, Started, Terminal
<1>5. QED
  BY <1>1, <1>2, <1>3, <1>4

LEMMA InsertRunStep ==
  ASSUME SqsInv, InsertRun, UNCHANGED scope
  PROVE  SqsInv'
<1> USE IdleTypes, RunTypes DEF SqsInv, TypeOK, InsertRun, InsertSucceeds, SetStatus
<1>1. TypeOK'
  BY DEF AdminSteps
<1>2. WorkersOn' /\ WorkersApart'
  BY DEF WorkersOn, WorkersApart, RecordsAgree, Started, Terminal
<1>3. AdminOn' /\ DrainOn'
  BY DEF AdminOn, DrainOn, WorkersOn, RecordsAgree, Started, Terminal
<1>4. RecordsAgree'
  BY DEF RecordsAgree, WorkersOn, AdminOn, DrainOn, Started, Terminal
<1>5. QED
  BY <1>1, <1>2, <1>3, <1>4

LEMMA ApproveStep ==
  ASSUME SqsInv, NEW r \in Runs, Approve(r), UNCHANGED scope
  PROVE  SqsInv'
<1> USE IdleTypes, RunTypes DEF SqsInv, TypeOK, Approve, Reviewable, NoItem
<1>1. TypeOK'
  BY DEF AdminSteps
<1>2. WorkersOn' /\ WorkersApart'
  BY DEF WorkersOn, WorkersApart, RecordsAgree, Started, Terminal
<1>3. AdminOn' /\ DrainOn'
  BY DEF AdminOn, DrainOn, WorkersOn, RecordsAgree, Started, Terminal
<1>4. RecordsAgree'
  BY DEF RecordsAgree, WorkersOn, AdminOn, DrainOn, Started, Terminal
<1>5. QED
  BY <1>1, <1>2, <1>3, <1>4

LEMMA ApproveStoreStep ==
  ASSUME SqsInv, ApproveStore, UNCHANGED scope
  PROVE  SqsInv'
<1> USE IdleTypes, RunTypes DEF SqsInv, TypeOK, ApproveStore, AdminGoes, SaveQualification
<1>1. TypeOK'
  BY DEF AdminSteps, AdminOn
<1>2. WorkersOn' /\ WorkersApart'
  BY DEF WorkersOn, WorkersApart, RecordsAgree, Started, Terminal
<1>3. AdminOn' /\ DrainOn'
  BY DEF AdminOn, DrainOn, WorkersOn, RecordsAgree, Started, Terminal
<1>4. RecordsAgree'
  BY DEF RecordsAgree, WorkersOn, AdminOn, DrainOn, Started, Terminal
<1>5. QED
  BY <1>1, <1>2, <1>3, <1>4

LEMMA ApproveAttemptStep ==
  ASSUME SqsInv, ApproveAttempt, UNCHANGED scope
  PROVE  SqsInv'
<1> USE IdleTypes, RunTypes DEF SqsInv, TypeOK, ApproveAttempt, AdminGoes, RecordAttempt
<1>1. TypeOK'
  BY DEF AdminSteps
<1>2. WorkersOn' /\ WorkersApart'
  BY DEF WorkersOn, WorkersApart, RecordsAgree, Started, Terminal
<1>3. AdminOn' /\ DrainOn'
  BY DEF AdminOn, DrainOn, WorkersOn, RecordsAgree, Started, Terminal
<1>4. RecordsAgree'
  BY DEF RecordsAgree, WorkersOn, AdminOn, DrainOn, Started, Terminal
<1>5. QED
  BY <1>1, <1>2, <1>3, <1>4

LEMMA ApproveCompleteStep ==
  ASSUME SqsInv, ApproveComplete, UNCHANGED scope
  PROVE  SqsInv'
<1> USE IdleTypes, RunTypes DEF SqsInv, TypeOK, ApproveComplete, AdminGoes, SetStatus
<1>1. TypeOK'
  BY DEF AdminSteps, AdminOn, Terminal
<1>2. WorkersOn' /\ WorkersApart'
  BY DEF WorkersOn, WorkersApart, RecordsAgree, Started, Terminal
<1>3. AdminOn' /\ DrainOn'
  BY DEF AdminOn, DrainOn, WorkersOn, RecordsAgree, Started, Terminal
<1>4. RecordsAgree'
  BY DEF RecordsAgree, WorkersOn, AdminOn, DrainOn, Started, Terminal
<1>5. QED
  BY <1>1, <1>2, <1>3, <1>4

LEMMA RejectStep ==
  ASSUME SqsInv, NEW r \in Runs, Reject(r), UNCHANGED scope
  PROVE  SqsInv'
<1> USE IdleTypes, RunTypes DEF SqsInv, TypeOK, Reject, Reviewable, SetStatus, NoItem
<1>1. TypeOK'
  BY DEF AdminSteps, Terminal
<1>2. WorkersOn' /\ WorkersApart'
  BY DEF WorkersOn, WorkersApart, RecordsAgree, Started, Terminal
<1>3. AdminOn' /\ DrainOn'
  BY DEF AdminOn, DrainOn, WorkersOn, RecordsAgree, Started, Terminal
<1>4. RecordsAgree'
  BY DEF RecordsAgree, WorkersOn, AdminOn, DrainOn, Started, Terminal
<1>5. QED
  BY <1>1, <1>2, <1>3, <1>4

LEMMA ResolveStep ==
  ASSUME SqsInv, Resolve, UNCHANGED scope
  PROVE  SqsInv'
<1> USE IdleTypes, RunTypes DEF SqsInv, TypeOK, Resolve, NoItem
<1>1. TypeOK'
  BY DEF AdminSteps, AdminOn
<1>2. WorkersOn' /\ WorkersApart'
  BY DEF WorkersOn, WorkersApart, RecordsAgree, Started, Terminal
<1>3. AdminOn' /\ DrainOn'
  BY DEF AdminOn, DrainOn, WorkersOn, RecordsAgree, Started, Terminal
<1>4. RecordsAgree'
  BY DEF RecordsAgree, WorkersOn, AdminOn, DrainOn, Started, Terminal
<1>5. QED
  BY <1>1, <1>2, <1>3, <1>4

LEMMA AdminStopsStep ==
  ASSUME SqsInv, AdminStops, UNCHANGED scope
  PROVE  SqsInv'
<1> USE IdleTypes, RunTypes DEF SqsInv, TypeOK, AdminStops
<1>1. TypeOK'
  BY DEF AdminSteps
<1>2. WorkersOn' /\ WorkersApart'
  BY DEF WorkersOn, WorkersApart, RecordsAgree, Started, Terminal
<1>3. AdminOn' /\ DrainOn'
  BY DEF AdminOn, DrainOn, WorkersOn, RecordsAgree, Started, Terminal
<1>4. RecordsAgree'
  BY DEF RecordsAgree, WorkersOn, AdminOn, DrainOn, Started, Terminal
<1>5. QED
  BY <1>1, <1>2, <1>3, <1>4

LEMMA ApproveMappingStep ==
  ASSUME SqsInv, ApproveMapping, UNCHANGED scope
  PROVE  SqsInv'
<1> USE IdleTypes, RunTypes DEF SqsInv, TypeOK, ApproveMapping
<1>1. TypeOK'
  BY DEF WorkerSteps
<1>2. WorkersOn' /\ WorkersApart'
  BY DEF WorkersOn, WorkersApart, RecordsAgree, Started, Terminal
<1>3. AdminOn' /\ DrainOn'
  BY DEF AdminOn, DrainOn, WorkersOn, RecordsAgree, Started, Terminal
<1>4. RecordsAgree'
  BY DEF RecordsAgree, WorkersOn, AdminOn, DrainOn, Started, Terminal
<1>5. QED
  BY <1>1, <1>2, <1>3, <1>4

LEMMA ApproveModelStep ==
  ASSUME SqsInv, ApproveModel, UNCHANGED scope
  PROVE  SqsInv'
<1> USE IdleTypes, RunTypes DEF SqsInv, TypeOK, ApproveModel
<1>1. TypeOK'
  BY DEF WorkerSteps
<1>2. WorkersOn' /\ WorkersApart'
  BY DEF WorkersOn, WorkersApart, RecordsAgree, Started, Terminal
<1>3. AdminOn' /\ DrainOn'
  BY DEF AdminOn, DrainOn, WorkersOn, RecordsAgree, Started, Terminal
<1>4. RecordsAgree'
  BY DEF RecordsAgree, WorkersOn, AdminOn, DrainOn, Started, Terminal
<1>5. QED
  BY <1>1, <1>2, <1>3, <1>4

LEMMA ApproveProfileStep ==
  ASSUME SqsInv, ApproveProfile, UNCHANGED scope
  PROVE  SqsInv'
<1> USE IdleTypes, RunTypes DEF SqsInv, TypeOK, ApproveProfile
<1>1. TypeOK'
  BY DEF WorkerSteps
<1>2. WorkersOn' /\ WorkersApart'
  BY DEF WorkersOn, WorkersApart, RecordsAgree, Started, Terminal
<1>3. AdminOn' /\ DrainOn'
  BY DEF AdminOn, DrainOn, WorkersOn, RecordsAgree, Started, Terminal
<1>4. RecordsAgree'
  BY DEF RecordsAgree, WorkersOn, AdminOn, DrainOn, Started, Terminal
<1>5. QED
  BY <1>1, <1>2, <1>3, <1>4

LEMMA DisableModelStep ==
  ASSUME SqsInv, DisableModel, UNCHANGED scope
  PROVE  SqsInv'
<1> USE IdleTypes, RunTypes DEF SqsInv, TypeOK, DisableModel
<1>1. TypeOK'
  BY DEF WorkerSteps
<1>2. WorkersOn' /\ WorkersApart'
  BY DEF WorkersOn, WorkersApart, RecordsAgree, Started, Terminal
<1>3. AdminOn' /\ DrainOn'
  BY DEF AdminOn, DrainOn, WorkersOn, RecordsAgree, Started, Terminal
<1>4. RecordsAgree'
  BY DEF RecordsAgree, WorkersOn, AdminOn, DrainOn, Started, Terminal
<1>5. QED
  BY <1>1, <1>2, <1>3, <1>4

LEMMA RetireProfileStep ==
  ASSUME SqsInv, RetireProfile, UNCHANGED scope
  PROVE  SqsInv'
<1> USE IdleTypes, RunTypes DEF SqsInv, TypeOK, RetireProfile
<1>1. TypeOK'
  BY DEF WorkerSteps
<1>2. WorkersOn' /\ WorkersApart'
  BY DEF WorkersOn, WorkersApart, RecordsAgree, Started, Terminal
<1>3. AdminOn' /\ DrainOn'
  BY DEF AdminOn, DrainOn, WorkersOn, RecordsAgree, Started, Terminal
<1>4. RecordsAgree'
  BY DEF RecordsAgree, WorkersOn, AdminOn, DrainOn, Started, Terminal
<1>5. QED
  BY <1>1, <1>2, <1>3, <1>4

LEMMA RevokeStep ==
  ASSUME SqsInv, NEW c \in Capabilities, Revoke(c), UNCHANGED scope
  PROVE  SqsInv'
<1> USE IdleTypes, RunTypes DEF SqsInv, TypeOK, Revoke
<1>1. TypeOK'
  BY DEF WorkerSteps
<1>2. WorkersOn' /\ WorkersApart'
  BY DEF WorkersOn, WorkersApart, RecordsAgree, Started, Terminal
<1>3. AdminOn' /\ DrainOn'
  BY DEF AdminOn, DrainOn, WorkersOn, RecordsAgree, Started, Terminal
<1>4. RecordsAgree'
  BY DEF RecordsAgree, WorkersOn, AdminOn, DrainOn, Started, Terminal
<1>5. QED
  BY <1>1, <1>2, <1>3, <1>4

LEMMA SyncCatalogStep ==
  ASSUME SqsInv, SyncCatalog, UNCHANGED scope
  PROVE  SqsInv'
<1> USE IdleTypes, RunTypes DEF SqsInv, TypeOK, SyncCatalog, ScopeRecords, Fingerprints
<1>1. TypeOK'
  BY DEF WorkerSteps
<1>2. WorkersOn' /\ WorkersApart'
  BY DEF WorkersOn, WorkersApart, RecordsAgree, Started, Terminal
<1>3. AdminOn' /\ DrainOn'
  BY DEF AdminOn, DrainOn, WorkersOn, RecordsAgree, Started, Terminal
<1>4. RecordsAgree'
  BY DEF RecordsAgree, WorkersOn, AdminOn, DrainOn, Started, Terminal
<1>5. QED
  BY <1>1, <1>2, <1>3, <1>4

LEMMA SqsStutter ==
  ASSUME SqsInv, UNCHANGED vars
  PROVE  SqsInv'
  BY DEF SqsInv, vars, TypeOK, WorkersOn, WorkersApart, AdminOn, DrainOn, RecordsAgree

LEMMA SqsInvStep == SqsInv /\ [Next]_vars => SqsInv'
<1> SUFFICES ASSUME SqsInv, [Next]_vars PROVE SqsInv'
  OBVIOUS
<1>1. ASSUME NEW w \in Workers, WorkerStep(w) PROVE SqsInv'
  BY <1>1, ClaimStep, LoadIdentityStep, MeasureStep, SaveAttemptStep, StoreResultStep,
     CompleteStep, ReplanStep, QueueNextStep, FailStep DEF WorkerStep
<1>2. ASSUME UNCHANGED scope, NEW w \in Workers, WorkerStops(w) PROVE SqsInv'
  BY <1>2, WorkerStopsStep
<1>3. ASSUME UNCHANGED scope, NEW r \in Runs,
             Upload(r) \/ Accept(r) \/ RejectFile(r) \/ RequestRun(r) \/ Approve(r) \/ Reject(r)
      PROVE  SqsInv'
  BY <1>3, UploadStep, AcceptStep, RejectFileStep, RequestRunStep, ApproveStep, RejectStep
<1>4. ASSUME UNCHANGED scope, StageItem \/ MoveFile \/ DrainStops \/ InsertRun PROVE SqsInv'
  BY <1>4, StageItemStep, MoveFileStep, DrainStopsStep, InsertRunStep
<1>5. ASSUME UNCHANGED scope, Review \/ AdminStops PROVE SqsInv'
  BY <1>5, ApproveStoreStep, ApproveAttemptStep, ApproveCompleteStep, ResolveStep, AdminStopsStep DEF Review
<1>6. ASSUME UNCHANGED scope, Governance \/ DisableModel \/ RetireProfile PROVE SqsInv'
  BY <1>6, ApproveMappingStep, ApproveModelStep, ApproveProfileStep, DisableModelStep,
     RetireProfileStep DEF Governance
<1>7. ASSUME UNCHANGED scope, NEW c \in Capabilities, Revoke(c) PROVE SqsInv'
  BY <1>7, RevokeStep
<1>8. ASSUME UNCHANGED scope, SyncCatalog PROVE SqsInv'
  BY <1>8, SyncCatalogStep
<1>9. QED
  BY <1>1, <1>2, <1>3, <1>4, <1>5, <1>6, <1>7, <1>8, SqsStutter DEF Next

\* The invariant that the theorems below are read off.
THEOREM EvaluationInvariant == Spec => []SqsInv
<1>1. Init => SqsInv
  BY InitSqsInv
<1>2. SqsInv /\ [Next]_vars => SqsInv'
  BY SqsInvStep
<1>3. QED
  BY <1>1, <1>2, PTL DEF Spec

\* Type correctness of the evaluation runs.
THEOREM EvaluationTypeCorrect == Spec => []TypeOK
<1>1. SqsInv => TypeOK
  BY DEF SqsInv
<1>2. QED
  BY <1>1, EvaluationInvariant, PTL

\* Two workers never execute the same run.
THEOREM EvaluationWorkersApart == Spec => []WorkersApart
<1>1. SqsInv => WorkersApart
  BY DEF SqsInv
<1>2. QED
  BY <1>1, EvaluationInvariant, PTL

\* A run reported COMPLETED has an evaluation attempt recorded.
THEOREM EvaluationCompletedHasAttempt == Spec => []CompletedHasAttempt
<1>1. SqsInv => CompletedHasAttempt
  BY DEF SqsInv, RecordsAgree, CompletedHasAttempt
<1>2. QED
  BY <1>1, EvaluationInvariant, PTL

\* A result staged for a run that still waits is listed for review.
THEOREM EvaluationStagedResultIsListed == Spec => []StagedResultIsListed
<1>1. SqsInv => StagedResultIsListed
  <2> SUFFICES ASSUME SqsInv, NEW r \in Runs, item[r] # NoItem, run[r] = "PENDING"
               PROVE  item[r].status = "OPEN"
    BY DEF StagedResultIsListed
  <2>1. item[r].status \in {"OPEN", "RESOLVED"}
    BY DEF SqsInv, TypeOK
  <2>2. item[r].status # "RESOLVED"
    BY DEF SqsInv, RecordsAgree, Terminal
  <2>3. QED
    BY <2>1, <2>2
<1>2. QED
  BY <1>1, EvaluationInvariant, PTL

\* No worker measures a run for which a worker's attempt is recorded.
THEOREM EvaluationNeverReexecuted == Spec => NeverReexecuted
<1>1. SqsInv /\ [Next]_vars =>
        [\A w \in Workers :
            worker[w].pc = "claimed" /\ worker'[w].pc = "measuring"
               => "worker" \notin attempts[worker[w].run]]_worker
  BY DEF SqsInv, WorkersOn
<1>2. QED
  BY <1>1, EvaluationInvariant, PTL DEF Spec, NeverReexecuted

(***************************************************************************)
(* Publication: a revision names one bundle, and a host never believes an  *)
(* approval against the latest word it has.                                *)
(***************************************************************************)
\* A copy of a bundle is the one the database stored under its revision.
IsBundle(b) == b = NoBundle \/ (b.rev \in Published /\ b = bundles[b.rev])

Stored ==
    /\ \A r \in Revisions : bundles[r] # NoBundle => bundles[r].rev = r
    /\ \A p \in Publishers :
          /\ pub[p].pc = "numbered" => pub[p].bundle.rev \in Revisions
          /\ pub[p].pc = "stored" => IsBundle(pub[p].bundle)
    /\ IsBundle(tmp) /\ IsBundle(file) /\ IsBundle(current) /\ IsBundle(previous) /\ IsBundle(sync.bundle)

\* A bundle in transfer is later than both generations of the host.
Ahead ==
    sync.pc # "idle" => current.rev < sync.bundle.rev /\ previous.rev < sync.bundle.rev

Explicit(b, c) == b.rows[c] # "NONE"

\* The latest word on a capability covers every bundle the host committed to, and a
\* denial is in the tombstones.
Words ==
    \A c \in BundleCapabilities :
        /\ tombstones[c] <= word[c].rev
        /\ word[c].verdict = "NONE" => word[c].rev = 0
        /\ word[c].verdict = "NOT_QUALIFIED" => word[c].rev > 0 /\ tombstones[c] = word[c].rev
        /\ Explicit(current, c) => current.rev > 0 /\ current.rev <= word[c].rev
        /\ sync.pc \in {"committed", "rotated"} /\ Explicit(sync.bundle, c)
             => sync.bundle.rev <= word[c].rev

PublicationInv == PublicationTypeOK /\ Stored /\ Ahead /\ Words

---------------------------------------------------------------------------
(* The newest revision: the database's MAX over finitely many revisions.    *)

USE SqsPublicationAssumption

LessThan == {pair \in Nat \X Nat : pair[1] < pair[2]}

LEMMA NatWellFounded == IsWellFoundedOn(LessThan, Nat)
  BY NatLessThanWellFounded DEF OpToRel, LessThan

\* Newest is the greatest published revision.
LEMMA NewestIsPublished ==
  /\ Published = {} => Newest = 0
  /\ Published # {} => Newest \in Published /\ \A q \in Published : q <= Newest
<1>1. Published = {} => Newest = 0
  BY DEF Newest
<1>2. ASSUME Published # {} PROVE Newest \in Published /\ \A q \in Published : q <= Newest
  <2> DEFINE Below == {MaxRevision - r : r \in Published}
  <2>1. Below \subseteq Nat /\ Below # {}
    BY <1>2 DEF Published, Revisions
  <2>2. PICK x \in Below : \A y \in Below : <<y, x>> \notin LessThan
    BY <2>1, NatWellFounded, WFMin
  <2>3. PICK r \in Published : x = MaxRevision - r
    BY <2>2
  <2>4. \A q \in Published : q <= r
    <3> SUFFICES ASSUME NEW q \in Published PROVE q <= r
      OBVIOUS
    <3>1. ~(MaxRevision - q < MaxRevision - r)
      BY <2>1, <2>2, <2>3 DEF LessThan
    <3>2. QED
      BY <3>1 DEF Published, Revisions
  <2>5. QED
    BY <1>2, <2>4 DEF Newest
<1>3. QED
  BY <1>1, <1>2

LEMMA NewestInRange == Newest \in 0 .. MaxRevision
  BY NewestIsPublished DEF Published, Revisions

---------------------------------------------------------------------------
(* PublicationInv is inductive.                                             *)

LEMMA NoBundleIsBundle == NoBundle \in Bundles /\ NoBundle.rev = 0 /\ \A c \in BundleCapabilities : NoBundle.rows[c] = "NONE"
  BY DEF NoBundle, Bundles, Rows, Nothing, Verdicts

LEMMA InitPublicationInv == PublicationInit => PublicationInv
  BY NoBundleIsBundle
  DEF PublicationInit, PublicationInv, PublicationTypeOK, Stored, Ahead, Words, IsBundle, Explicit, PubIdle, SyncIdle,
      PubSteps, SyncSteps, Verdicts, Revisions

\* The server's steps leave the host alone and never change a stored bundle.
LEMMA CollectRowsStep ==
  ASSUME PublicationInv, NEW p \in Publishers, CollectRows(p)
  PROVE  PublicationInv'
<1>1. PublicationTypeOK'
  BY DEF PublicationInv, PublicationTypeOK, CollectRows, host, PubSteps, Bundles
<1>2. Stored' /\ Ahead' /\ Words'
  BY DEF PublicationInv, PublicationTypeOK, CollectRows, host, Stored, Ahead, Words, IsBundle, Published, Explicit
<1>3. QED
  BY <1>1, <1>2 DEF PublicationInv

LEMMA TakeRevisionStep ==
  ASSUME PublicationInv, NEW p \in Publishers, TakeRevision(p)
  PROVE  PublicationInv'
<1>1. Newest + 1 \in Revisions
  BY NewestInRange DEF TakeRevision, Revisions
<1>2. PublicationTypeOK'
  BY <1>1 DEF PublicationInv, PublicationTypeOK, TakeRevision, host, PubSteps, Bundles, Revisions
<1>3. Stored'
  BY <1>1 DEF PublicationInv, PublicationTypeOK, TakeRevision, host, Stored, IsBundle, Published
<1>4. Ahead' /\ Words'
  BY DEF PublicationInv, TakeRevision, host, Ahead, Words, Explicit
<1>5. QED
  BY <1>2, <1>3, <1>4 DEF PublicationInv

LEMMA StoreBundleStep ==
  ASSUME PublicationInv, NEW p \in Publishers, StoreBundle(p)
  PROVE  PublicationInv'
<1> USE DEF PublicationInv, PublicationTypeOK, StoreBundle, host
<1>1. CASE pub[p].bundle.rev \notin Published
  <2> DEFINE r == pub[p].bundle.rev
             b == pub[p].bundle
  <2>1. r \in Revisions /\ bundles[r] = NoBundle
    BY <1>1 DEF Stored, Published
  <2>3. /\ b \in Bundles /\ bundles' = [bundles EXCEPT ![r] = b]
        /\ pub' = [pub EXCEPT ![p].pc = "stored"]
        /\ {tmp, file, current, previous, sync.bundle} \subseteq Bundles
        /\ \A q \in Publishers : pub[q].bundle \in Bundles
        /\ bundles \in [Revisions -> Bundles] /\ pub \in [Publishers -> [pc : PubSteps, bundle : Bundles]]
        /\ UNCHANGED <<tmp, file, current, previous, sync>>
    BY <1>1
  <2> HIDE DEF PublicationInv, PublicationTypeOK, StoreBundle, host
  <2>2. PublicationTypeOK'
    <3>1. bundles' \in [Revisions -> Bundles] /\ pub' \in [Publishers -> [pc : PubSteps, bundle : Bundles]]
      BY <2>1, <2>3 DEF PubSteps
    <3>2. UNCHANGED <<tmp, file, host, crashes, losses>>
      BY DEF StoreBundle
    <3>3. QED
      BY <3>1, <3>2 DEF PublicationInv, PublicationTypeOK, host
  <2>4. \A c \in Bundles : IsBundle(c) => IsBundle(c)'
    BY <2>1, <2>3 DEF IsBundle, Published
  <2>5. Stored'
    <3>1. \A s \in Revisions : bundles'[s] # NoBundle => bundles'[s].rev = s
      BY <2>1, <2>3 DEF PublicationInv, Stored
    <3>2. b = NoBundle \/ (b.rev \in Published' /\ b = bundles'[b.rev])
      BY <2>1, <2>3 DEF Published
    <3>3. \A q \in Publishers : pub'[q].bundle = pub[q].bundle
      BY <2>3
    <3>4. ASSUME NEW q \in Publishers
          PROVE  /\ pub'[q].pc = "numbered" => pub'[q].bundle.rev \in Revisions
                 /\ pub'[q].pc = "stored" => IsBundle(pub[q].bundle)'
      <4>1. CASE q = p
        BY <2>1, <2>3, <3>2, <3>3, <4>1 DEF IsBundle
      <4>2. CASE q # p
        BY <2>3, <2>4, <4>2 DEF PublicationInv, Stored
      <4>3. QED
        BY <4>1, <4>2
    <3>5. IsBundle(tmp)' /\ IsBundle(file)' /\ IsBundle(current)' /\ IsBundle(previous)' /\ IsBundle(sync.bundle)'
      BY <2>3, <2>4 DEF PublicationInv, Stored
    <3>6. QED
      BY <3>1, <3>4, <3>5 DEF Stored
  <2> USE DEF PublicationInv, PublicationTypeOK, StoreBundle, host
  <2>6. Ahead' /\ Words'
    BY DEF Ahead, Words, Explicit
  <2>7. QED
    BY <2>2, <2>5, <2>6
<1>2. CASE pub[p].bundle.rev \in Published
  <2>1. PublicationTypeOK'
    BY <1>2, NoBundleIsBundle DEF PubSteps, PubIdle
  <2>2. Stored' /\ Ahead' /\ Words'
    BY <1>2 DEF Stored, Ahead, Words, Explicit, IsBundle, Published, PubIdle
  <2>3. QED
    BY <2>1, <2>2
<1>3. QED
  BY <1>1, <1>2

LEMMA WriteTmpStep ==
  ASSUME PublicationInv, NEW p \in Publishers, WriteTmp(p)
  PROVE  PublicationInv'
<1>1. PublicationTypeOK'
  BY NoBundleIsBundle DEF PublicationInv, PublicationTypeOK, WriteTmp, host, PubSteps, PubIdle
<1>2. Stored' /\ Ahead' /\ Words'
  BY DEF PublicationInv, PublicationTypeOK, WriteTmp, host, Stored, Ahead, Words, IsBundle, Published, Explicit, PubIdle
<1>3. QED
  BY <1>1, <1>2 DEF PublicationInv

LEMMA ReplaceFileStep ==
  ASSUME PublicationInv, NEW p \in Publishers, ReplaceFile(p)
  PROVE  PublicationInv'
<1>1. PublicationTypeOK'
  BY NoBundleIsBundle DEF PublicationInv, PublicationTypeOK, ReplaceFile, host, PubSteps, PubIdle
<1>2. Stored' /\ Ahead' /\ Words'
  BY DEF PublicationInv, PublicationTypeOK, ReplaceFile, host, Stored, Ahead, Words, IsBundle, Published, Explicit, PubIdle
<1>3. QED
  BY <1>1, <1>2 DEF PublicationInv

\* The host validates a copy of a stored bundle.
LEMMA ValidateStep ==
  ASSUME PublicationInv, NEW b \in Bundles, IsBundle(b), Validate(b)
  PROVE  PublicationInv'
<1> USE DEF PublicationInv, PublicationTypeOK, Validate, server
<1>1. PublicationTypeOK'
  BY DEF SyncSteps
<1>2. Stored'
  BY DEF Stored, IsBundle, Published
<1>3. Ahead'
  BY DEF Ahead, Floor, Bundles
<1>4. Words'
  BY DEF Words, Explicit
<1>5. QED
  BY <1>1, <1>2, <1>3, <1>4

LEMMA FetchStep ==
  ASSUME PublicationInv, Fetch
  PROVE  PublicationInv'
<1>1. Newest \in Published
  BY NewestIsPublished, NewestInRange DEF Fetch
<1>2. bundles[Newest] \in Bundles /\ IsBundle(bundles[Newest])
  BY <1>1 DEF PublicationInv, PublicationTypeOK, Stored, IsBundle, Published
<1>3. QED
  BY <1>2, ValidateStep DEF Fetch

LEMMA FetchReplicaStep ==
  ASSUME PublicationInv, FetchReplica
  PROVE  PublicationInv'
  BY ValidateStep DEF FetchReplica, PublicationInv, PublicationTypeOK, Stored

LEMMA CommitTombstonesStep ==
  ASSUME PublicationInv, CommitTombstones
  PROVE  PublicationInv'
<1> DEFINE b == sync.bundle
<1>1. tombstones' \in [BundleCapabilities -> 0 .. MaxRevision]
  BY DEF PublicationInv, PublicationTypeOK, CommitTombstones, Merged, Bundles
<1>2. word' \in [BundleCapabilities -> [rev : 0 .. MaxRevision, verdict : Verdicts]]
  BY DEF PublicationInv, PublicationTypeOK, CommitTombstones, Bundles, Rows
<1>3. PublicationTypeOK'
  BY <1>1, <1>2 DEF PublicationInv, PublicationTypeOK, CommitTombstones, server, SyncSteps
<1>4. Stored' /\ Ahead'
  BY DEF PublicationInv, PublicationTypeOK, CommitTombstones, server, Stored, Ahead, IsBundle, Published
<1>5. Words'
  <2> SUFFICES ASSUME NEW c \in BundleCapabilities
               PROVE  /\ tombstones'[c] <= word'[c].rev
                      /\ word'[c].verdict = "NONE" => word'[c].rev = 0
                      /\ word'[c].verdict = "NOT_QUALIFIED" => word'[c].rev > 0 /\ tombstones'[c] = word'[c].rev
                      /\ Explicit(current, c)' => current'.rev > 0 /\ current'.rev <= word'[c].rev
                      /\ Explicit(sync.bundle, c)' => sync'.bundle.rev <= word'[c].rev
    BY DEF Words
  <2>1. b.rev \in Nat /\ b.rev > 0 /\ b.rows[c] \in Verdicts
    BY DEF PublicationInv, PublicationTypeOK, CommitTombstones, Ahead, Bundles, Rows
  <2>2. /\ tombstones[c] \in Nat /\ word[c].rev \in Nat /\ word[c].verdict \in Verdicts
        /\ current.rev \in Nat
    BY DEF PublicationInv, PublicationTypeOK, Bundles
  <2>3. /\ tombstones[c] <= word[c].rev
        /\ word[c].verdict = "NONE" => word[c].rev = 0
        /\ word[c].verdict = "NOT_QUALIFIED" => word[c].rev > 0 /\ tombstones[c] = word[c].rev
        /\ Explicit(current, c) => current.rev > 0 /\ current.rev <= word[c].rev
    BY DEF PublicationInv, Words
  <2>4. /\ tombstones'[c] = CASE b.rev <= tombstones[c] -> tombstones[c]
                              [] b.rev > tombstones[c] /\ b.rows[c] = "NOT_QUALIFIED" -> b.rev
                              [] b.rev > tombstones[c] /\ b.rows[c] = "QUALIFIED" -> 0
                              [] OTHER -> tombstones[c]
        /\ word'[c] = IF b.rows[c] # "NONE" /\ b.rev > word[c].rev
                        THEN [rev |-> b.rev, verdict |-> b.rows[c]] ELSE word[c]
        /\ current' = current /\ sync'.bundle = b
    BY DEF PublicationInv, PublicationTypeOK, CommitTombstones, Merged
  <2>5. CASE b.rows[c] = "NONE"
    BY <2>1, <2>2, <2>3, <2>4, <2>5 DEF Explicit
  <2>6. CASE b.rows[c] = "QUALIFIED"
    BY <2>1, <2>2, <2>3, <2>4, <2>6 DEF Explicit
  <2>7. CASE b.rows[c] = "NOT_QUALIFIED"
    BY <2>1, <2>2, <2>3, <2>4, <2>7 DEF Explicit
  <2>8. QED
    BY <2>1, <2>5, <2>6, <2>7 DEF Verdicts
<1>6. QED
  BY <1>3, <1>4, <1>5 DEF PublicationInv

LEMMA RotatePreviousStep ==
  ASSUME PublicationInv, RotatePrevious
  PROVE  PublicationInv'
<1> USE DEF PublicationInv, PublicationTypeOK, RotatePrevious, server
<1>1. PublicationTypeOK'
  BY DEF SyncSteps
<1>2. Stored' /\ Ahead'
  BY DEF Stored, Ahead, IsBundle, Published, Bundles
<1>3. Words'
  BY DEF Words, Explicit
<1>4. QED
  BY <1>1, <1>2, <1>3

LEMMA RotateCurrentStep ==
  ASSUME PublicationInv, RotateCurrent
  PROVE  PublicationInv'
<1> USE DEF PublicationInv, PublicationTypeOK, RotateCurrent, server
<1>1. PublicationTypeOK'
  BY NoBundleIsBundle DEF SyncIdle, SyncSteps
<1>2. Stored'
  BY DEF Stored, IsBundle, Published, SyncIdle
<1>3. Ahead'
  BY DEF Ahead, SyncIdle
<1>4. Words'
  <2>1. sync.bundle.rev \in Nat /\ current.rev \in Nat /\ sync.bundle.rev > 0
    BY DEF Ahead, Bundles
  <2>2. QED
    BY <2>1 DEF Words, Explicit, SyncIdle
<1>5. QED
  BY <1>1, <1>2, <1>3, <1>4

LEMMA SyncStopsStep ==
  ASSUME PublicationInv, SyncStops
  PROVE  PublicationInv'
<1> USE DEF PublicationInv, PublicationTypeOK, SyncStops, server
<1>1. PublicationTypeOK'
  BY NoBundleIsBundle DEF SyncIdle, SyncSteps
<1>2. Stored' /\ Ahead' /\ Words'
  BY DEF Stored, IsBundle, Published, SyncIdle, Ahead, Words, Explicit
<1>3. QED
  BY <1>1, <1>2

LEMMA LoseGenerationStep ==
  ASSUME PublicationInv, LoseGeneration
  PROVE  PublicationInv'
<1> USE DEF PublicationInv, PublicationTypeOK, LoseGeneration, server
<1>1. PublicationTypeOK'
  BY NoBundleIsBundle
<1>2. Stored' /\ Ahead'
  BY DEF Stored, IsBundle, Published, Ahead
<1>3. Words'
  BY NoBundleIsBundle DEF Words, Explicit
<1>4. QED
  BY <1>1, <1>2, <1>3

LEMMA PublicationInvStep == PublicationInv /\ [PublicationNext]_publicationVars => PublicationInv'
<1> SUFFICES ASSUME PublicationInv, [PublicationNext]_publicationVars PROVE PublicationInv'
  OBVIOUS
<1>1. CASE UNCHANGED publicationVars
  BY <1>1 DEF publicationVars, server, host, PublicationInv, PublicationTypeOK, Stored, Ahead, Words, IsBundle, Published, Explicit
<1>2. CASE PublicationNext
  BY <1>2, CollectRowsStep, TakeRevisionStep, StoreBundleStep, WriteTmpStep, ReplaceFileStep,
     FetchStep, FetchReplicaStep, CommitTombstonesStep, RotatePreviousStep, RotateCurrentStep,
     SyncStopsStep, LoseGenerationStep DEF PublicationNext, Publish, AcceptBundle
<1>3. QED
  BY <1>1, <1>2

---------------------------------------------------------------------------
(* The theorems.                                                            *)

\* The inductive invariant holds in every reachable state.
THEOREM PublicationInvariant == PublicationSpec => []PublicationInv
  BY InitPublicationInv, PublicationInvStep, PTL DEF PublicationSpec

\* Type correctness.
THEOREM PublicationTypeCorrect == PublicationSpec => []PublicationTypeOK
<1>1. PublicationInv => PublicationTypeOK
  BY DEF PublicationInv
<1>2. QED
  BY <1>1, PublicationInvariant, PTL

\* A revision names one bundle: in the file, in transfer and on the host.
THEOREM PublicationRevisionNamesOneBundle == PublicationSpec => []RevisionNamesOneBundle
<1>1. PublicationInv => RevisionNamesOneBundle
  BY DEF PublicationInv, Stored, IsBundle, RevisionNamesOneBundle
<1>2. QED
  BY <1>1, PublicationInvariant, PTL

\* No route is shown as qualified against the latest word on it.
THEOREM PublicationNeverQualifiedAgainstDenial == PublicationSpec => []NeverQualifiedAgainstDenial
<1>1. ASSUME PublicationInv PROVE NeverQualifiedAgainstDenial
  <2> SUFFICES ASSUME NEW c \in BundleCapabilities, tombstones[c] = 0, current.rows[c] = "QUALIFIED"
               PROVE  word[c].verdict = "QUALIFIED"
    BY DEF NeverQualifiedAgainstDenial, Lookup
  <2>1. /\ word[c].verdict \in Verdicts /\ word[c].rev \in Nat /\ current.rev \in Nat
    BY <1>1 DEF PublicationInv, PublicationTypeOK, Bundles
  <2>2. current.rev > 0 /\ current.rev <= word[c].rev
    BY <1>1 DEF PublicationInv, Words, Explicit
  <2>3. word[c].verdict # "NONE" /\ word[c].verdict # "NOT_QUALIFIED"
    BY <1>1, <2>1, <2>2 DEF PublicationInv, Words
  <2>4. QED
    BY <2>1, <2>3 DEF Verdicts
<1>2. QED
  BY <1>1, PublicationInvariant, PTL

\* A new current generation is later than both generations it meets.
THEOREM PublicationNoRollback == PublicationSpec => NoRollback
<1>1. ASSUME PublicationInv, [PublicationNext]_publicationVars, current' \notin {current, NoBundle}
      PROVE  current.rev < current'.rev /\ previous.rev < current'.rev
  <2>1. RotateCurrent
    BY <1>1 DEF PublicationNext, publicationVars, Publish, CollectRows, TakeRevision, StoreBundle, WriteTmp, ReplaceFile,
       Fetch, FetchReplica, Validate, AcceptBundle, CommitTombstones, RotatePrevious, SyncStops,
       LoseGeneration, server, host
  <2>2. QED
    BY <1>1, <2>1 DEF RotateCurrent, PublicationInv, Ahead
<1>2. PublicationInv /\ [PublicationNext]_publicationVars
        => [current' \notin {current, NoBundle}
              => current.rev < current'.rev /\ previous.rev < current'.rev]_current
  BY <1>1
<1>3. QED
  BY <1>2, PublicationInvariant, PTL DEF PublicationSpec, NoRollback
=============================================================================
