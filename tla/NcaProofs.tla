------------------------------ MODULE NcaProofs ------------------------------
(***************************************************************************)
(* The NCA workflow: the evidence of a task, and the guarded lock its      *)
(* executions take.                                                        *)
(*                                                                         *)
(* The evidence, for any inputs, batches, retries, deaths and submissions: *)
(* what is published is what was staged, what was paid for is final,       *)
(* commands close no Run whose result is not published, a staged document  *)
(* loses none of its inputs and counts none twice, and the ledger          *)
(* reproduces it.                                                          *)
(*                                                                         *)
(* The lock excludes when no process uses break_stale: the guarded NCA     *)
(* discipline may be mixed with plain locks, for any set of processes,     *)
(* hosts and crashes.  (With break_stale it does not: run LockStale.)      *)
(***************************************************************************)
EXTENDS WorkspaceLock, NcaEvidence, FiniteSetTheorems, WellFoundedInduction, TLAPS

(***************************************************************************)
(* The evidence of a task.                                                 *)
(***************************************************************************)

\* The records have the fields an EXCEPT names, whatever they hold.
Shape ==
    /\ accepted = [p \in Phases |-> accepted[p]]
    /\ ses = [pc |-> ses.pc, resume |-> ses.resume, by |-> ses.by, work |-> ses.work, tries |-> ses.tries,
              limited |-> ses.limited, phases |-> ses.phases, pending |-> ses.pending]
    /\ staged = [output |-> staged.output, receipt |-> staged.receipt, manifest |-> staged.manifest]
    /\ final = [output |-> final.output, receipt |-> final.receipt]
    /\ execs \in Nat

\* How far an execution is says what it has staged.
Staging ==
    /\ ses.pc \in {"idle", "visit", "retire", "output", "receipt", "manifest", "publish", "certify"}
    /\ ses.pc = "visit" => ses.resume = Staged
    /\ ses.pc = "visit" /\ ~Staged => ses.by # 0
    /\ ses.pc \in {"retire", "output", "receipt", "manifest"} => ~Staged /\ ses.by # 0
    /\ ses.pc \in {"receipt", "manifest"} => staged.output = Document
    /\ ses.pc = "manifest" => staged.receipt = ses.by
    /\ ses.pc \in {"publish", "certify"} => Staged
    /\ ses.pc = "certify" => final.output # None

\* The manifest stands for what it commits.
Committed ==
    Staged => /\ staged.output = staged.manifest
              /\ staged.receipt = staged.manifest.by
              /\ staged.manifest.by # 0

EvidenceInv == Shape /\ Staging /\ Committed /\ PublishedAsStaged

\* Where a submission is says what it has reconciled.
Closing ==
    /\ ~plan.menu /\ sub \in {"close", "closeAgain"} => Published /\ runResult = final.output
    /\ DoneIsPublished

RunInv == EvidenceInv /\ Closing

---------------------------------------------------------------------------

LEMMA InitRunInv == Init => RunInv
  BY DEF Init, RunInv, EvidenceInv, Shape, Staging, Committed, PublishedAsStaged, Closing, DoneIsPublished,
     Idle, NothingStaged, None, Staged, Published

\* The visit of a batch changes nothing of the publication.
LEMMA SettleKeepsSession ==
  ASSUME Shape, NEW work, NEW phases, NEW pending, Settle(work, phases, pending)
  PROVE  /\ ses' = [pc |-> ses.pc, resume |-> ses.resume, by |-> ses.by, work |-> ses'.work, tries |-> ses'.tries,
                    limited |-> ses'.limited, phases |-> ses'.phases, pending |-> ses'.pending]
  BY DEF Shape, Settle

Visited ==
    /\ ses' = [pc |-> ses.pc, resume |-> ses.resume, by |-> ses.by, work |-> ses'.work, tries |-> ses'.tries,
               limited |-> ses'.limited, phases |-> ses'.phases, pending |-> ses'.pending]

LEMMA AdmitVisits == ASSUME Shape, NEW members, Admit(members) PROVE Visited
  BY SettleKeepsSession DEF Admit, Visited

LEMMA FailVisits == ASSUME Shape, NEW reason, Fail(reason) PROVE Visited
<1>1. CASE ses.tries < plan.retries
  BY <1>1 DEF Shape, Visited, Fail
<1>2. CASE ~(ses.tries < plan.retries) /\ Cardinality(Batch) > 1
  BY <1>2, SettleKeepsSession DEF Fail, Visited
<1>3. CASE ~(ses.tries < plan.retries) /\ ~(Cardinality(Batch) > 1)
  BY <1>3, SettleKeepsSession DEF Fail, Visited
<1>4. QED
  BY <1>1, <1>2, <1>3

LEMMA LimitVisits == ASSUME Shape, Limit PROVE Visited
<1>1. CASE ses.limited < plan.backoffs
  BY <1>1 DEF Shape, Visited, Limit
<1>2. CASE ~(ses.limited < plan.backoffs)
  BY <1>2, SettleKeepsSession DEF Limit, Visited
<1>3. QED
  BY <1>1, <1>2

\* A step that leaves the files alone and only visits, or stops, keeps the evidence.
LEMMA VisitKeepsInv ==
  ASSUME EvidenceInv, ses.pc = "visit", UNCHANGED files, execs' \in Nat, Shape', Visited \/ Stop
  PROVE  EvidenceInv'
<1>1. Staged' = Staged /\ PublishedAsStaged' /\ Committed'
  BY DEF EvidenceInv, files, Staged, Committed, PublishedAsStaged
<1>2. CASE Visited
  BY <1>1, <1>2 DEF EvidenceInv, Staging, Visited, files, Document
<1>3. CASE Stop
  BY <1>1, <1>3 DEF EvidenceInv, Staging, Stop, Idle
<1>4. QED
  BY <1>1, <1>2, <1>3

---------------------------------------------------------------------------
(* The steps of an execution.                                               *)

\* What is asked in a visit is asked of an unanswered batch, and answered once.
LEMMA AskSteps ==
  ASSUME EvidenceInv, Ask
  PROVE  /\ ~Staged /\ accepted' = [p \in Phases |-> accepted'[p]]
         /\ \A p \in Phases : accepted[p] # {} => accepted'[p] = accepted[p]
         /\ Visited \/ Stop
<1>1. ~Staged
  BY DEF Ask, Visiting, EvidenceInv, Staging
<1>2. CASE \E members \in (SUBSET Batch) \ {{}} :
               accepted' = [accepted EXCEPT ![Batch] = members] /\ Admit(members)
  <2>1. PICK members \in (SUBSET Batch) \ {{}} :
            accepted' = [accepted EXCEPT ![Batch] = members] /\ Admit(members)
    BY <1>2
  <2>2. accepted' = [p \in Phases |-> IF p = Batch THEN members ELSE accepted[p]]
    BY <2>1 DEF EvidenceInv, Shape
  <2>3. Visited
    BY <2>1, AdmitVisits DEF EvidenceInv
  <2>4. accepted[Batch] = {}
    BY DEF Ask
  <2>5. QED
    BY <1>1, <2>2, <2>3, <2>4
<1>3. CASE UNCHANGED accepted /\ \E reason \in {"failed", "empty"} : Fail(reason)
  BY <1>1, <1>3, FailVisits DEF EvidenceInv, Shape
<1>4. CASE UNCHANGED accepted /\ Limit
  BY <1>1, <1>4, LimitVisits DEF EvidenceInv, Shape
<1>5. CASE UNCHANGED accepted /\ Stop
  BY <1>1, <1>5 DEF EvidenceInv, Shape
<1>6. QED
  BY <1>2, <1>3, <1>4, <1>5 DEF Ask

LEMMA VisitInv ==
  ASSUME EvidenceInv, Reuse \/ Ask \/ ReplayFailure
  PROVE  EvidenceInv'
<1>1. ses.pc = "visit" /\ UNCHANGED <<files, execs>>
  BY DEF Reuse, Ask, ReplayFailure, Visiting, bounds
<1>2. accepted' = [p \in Phases |-> accepted'[p]] /\ (Visited \/ Stop)
  <2>1. CASE Reuse
    BY <2>1, AdmitVisits DEF Reuse, EvidenceInv, Shape, ledger
  <2>2. CASE Ask
    BY <2>2, AskSteps
  <2>3. CASE ReplayFailure
    BY <2>3, FailVisits DEF ReplayFailure, EvidenceInv, Shape, ledger
  <2>4. QED
    BY <2>1, <2>2, <2>3
<1>3. Shape' /\ execs' \in Nat
  BY <1>1, <1>2 DEF EvidenceInv, Shape, Visited, Stop, Idle, files
<1>4. QED
  BY <1>1, <1>2, <1>3, VisitKeepsInv

LEMMA LaunchInv == ASSUME EvidenceInv, Launch PROVE EvidenceInv'
<1>1. ses' = [pc |-> "visit", resume |-> Staged, by |-> IF Staged THEN 0 ELSE execs + 1, work |-> plan.batches,
              tries |-> 0, limited |-> 0, phases |-> {}, pending |-> Decided]
  BY DEF Launch, Started, Idle
<1>2. execs' \in Nat /\ execs + 1 # 0 /\ UNCHANGED <<files, ledger>>
  BY DEF Launch, EvidenceInv, Shape
<1>3. Shape'
  BY <1>1, <1>2 DEF EvidenceInv, Shape, files, ledger
<1>4. Staging'
  BY <1>1, <1>2 DEF Staging, Staged, files
<1>5. QED
  BY <1>2, <1>3, <1>4 DEF EvidenceInv, Committed, PublishedAsStaged, Staged, files

\* From the end of the traversal to the commitment, and on to the final files.
LEMMA EvaluatedInv == ASSUME EvidenceInv, Evaluated PROVE EvidenceInv'
<1>1. UNCHANGED <<files, ledger, execs>> /\ ses.pc = "visit"
  BY DEF Evaluated, bounds
<1>2. \/ Stop
      \/ ses.resume /\ Go("publish")
      \/ ~ses.resume /\ Go("retire")
  <2>1. ses.resume \in BOOLEAN
    BY <1>1 DEF EvidenceInv, Staging, Staged
  <2>2. CASE ses.phases = {} /\ plan.batches # <<>>
    BY <2>2 DEF Evaluated
  <2>3. CASE ~(ses.phases = {} /\ plan.batches # <<>>) /\ ses.resume
    BY <2>3 DEF Evaluated
  <2>4. CASE ~(ses.phases = {} /\ plan.batches # <<>>) /\ ~ses.resume
    BY <2>4 DEF Evaluated
  <2>5. QED
    BY <2>1, <2>2, <2>3, <2>4
<1>3. CASE Stop
  BY <1>1, <1>3 DEF EvidenceInv, Shape, Staging, Committed, PublishedAsStaged, Staged, Stop, Idle, files, ledger
<1>4. CASE ses.resume /\ Go("publish")
  BY <1>1, <1>4 DEF EvidenceInv, Shape, Staging, Committed, PublishedAsStaged, Staged, Go, files, ledger
<1>5. CASE ~ses.resume /\ Go("retire")
  BY <1>1, <1>5 DEF EvidenceInv, Shape, Staging, Committed, PublishedAsStaged, Staged, Go, files, ledger
<1>6. QED
  BY <1>2, <1>3, <1>4, <1>5

LEMMA RetireInv == ASSUME EvidenceInv, Retire PROVE EvidenceInv'
  BY DEF Retire, EvidenceInv, Shape, Staging, Committed, PublishedAsStaged, Staged, Go, NothingStaged, ledger, bounds

LEMMA StageOutputInv == ASSUME EvidenceInv, StageOutput PROVE EvidenceInv'
  BY DEF StageOutput, EvidenceInv, Shape, Staging, Committed, PublishedAsStaged, Staged, Go, Document, ledger, bounds

LEMMA StageReceiptInv == ASSUME EvidenceInv, StageReceipt PROVE EvidenceInv'
  BY DEF StageReceipt, EvidenceInv, Shape, Staging, Committed, PublishedAsStaged, Staged, Go, Document, ledger, bounds

LEMMA StageManifestInv == ASSUME EvidenceInv, StageManifest PROVE EvidenceInv'
<1>1. Document # None /\ Document.by # 0
  BY DEF StageManifest, EvidenceInv, Staging, Document, None
<1>2. QED
  BY <1>1 DEF StageManifest, EvidenceInv, Shape, Staging, Committed, PublishedAsStaged, Staged, Go, Document,
     ledger, bounds

LEMMA PublishInv == ASSUME EvidenceInv, Publish PROVE EvidenceInv'
  BY DEF Publish, EvidenceInv, Shape, Staging, Committed, PublishedAsStaged, Staged, Go, ledger, bounds

LEMMA CertifyInv == ASSUME EvidenceInv, Certify PROVE EvidenceInv'
  BY DEF Certify, EvidenceInv, Shape, Staging, Committed, PublishedAsStaged, Staged, Stop, Idle, ledger, bounds

LEMMA ElsewhereInv ==
  ASSUME EvidenceInv, UNCHANGED <<ledger, files, execs>>, UNCHANGED ses \/ Stop
  PROVE  EvidenceInv'
<1>1. CASE UNCHANGED ses
  BY <1>1 DEF EvidenceInv, Shape, Staging, Committed, PublishedAsStaged, Staged, Document, ledger, files
<1>2. CASE Stop
  BY <1>2 DEF EvidenceInv, Shape, Staging, Committed, PublishedAsStaged, Staged, Stop, Idle, ledger, files
<1>3. QED
  BY <1>1, <1>2

LEMMA SubmissionElsewhere ==
  ASSUME Submission
  PROVE  UNCHANGED <<plan, ledger, files, execs, ses>>
  BY DEF Submission, Submit, Record, CloseControl, Rewrite, Rename, Reconcile, CloseRun, Elsewhere, bounds

LEMMA NextEvidenceInv == EvidenceInv /\ [Next]_vars => EvidenceInv'
<1> SUFFICES ASSUME EvidenceInv, [Next]_vars PROVE EvidenceInv'
  OBVIOUS
<1>1. CASE Launch
  BY <1>1, LaunchInv
<1>2. CASE Execution
  BY <1>2, VisitInv, EvaluatedInv, RetireInv, StageOutputInv, StageReceiptInv, StageManifestInv, PublishInv,
     CertifyInv DEF Execution
<1>3. CASE Submission
  BY <1>3, SubmissionElsewhere, ElsewhereInv
<1>4. CASE Command
  BY <1>4, ElsewhereInv DEF Command
<1>5. CASE CloseFromMenu
  BY <1>5, ElsewhereInv DEF CloseFromMenu, Elsewhere, bounds
<1>6. CASE Die
  BY <1>6, ElsewhereInv DEF Die
<1>7. CASE UNCHANGED vars
  BY <1>7, ElsewhereInv DEF vars, bounds
<1>8. QED
  BY <1>1, <1>2, <1>3, <1>4, <1>5, <1>6, <1>7 DEF Next

---------------------------------------------------------------------------
(* The Run.                                                                 *)

\* Published files stay.
LEMMA PublishedStays ==
  ASSUME EvidenceInv, [Next]_vars, Published
  PROVE  Published' /\ final'.output = final.output
<1>1. final.output # None /\ final.receipt # 0
  BY DEF Published
<1>2. UNCHANGED final \/ Publish \/ Certify
  BY SubmissionElsewhere DEF Next, Launch, Execution, Command, CloseFromMenu, Die, Reuse, Ask, ReplayFailure,
     Evaluated, Retire, StageOutput, StageReceipt, StageManifest, Elsewhere, files, vars
<1>3. CASE UNCHANGED final
  BY <1>1, <1>3 DEF Published
<1>4. CASE Publish
  BY <1>1, <1>4 DEF Publish, EvidenceInv, Shape, Published
<1>5. CASE Certify
  BY <1>1, <1>5 DEF Certify, EvidenceInv, Shape, Published
<1>6. QED
  BY <1>2, <1>3, <1>4, <1>5

LEMMA ReconciledIsPublished ==
  ASSUME EvidenceInv, Reconciled
  PROVE  Published /\ taskResult = final.output
  BY DEF Reconciled, EvidenceInv, Committed, PublishedAsStaged, Published

LEMMA NextClosing == RunInv /\ [Next]_vars => Closing'
<1> SUFFICES ASSUME RunInv, [Next]_vars PROVE Closing'
  OBVIOUS
<1>1. EvidenceInv /\ Closing
  BY DEF RunInv
<1>2. Published => Published' /\ final'.output = final.output
  BY <1>1, PublishedStays
<1>3. CASE /\ UNCHANGED <<plan, runResult>>
           /\ sub' \notin {"close", "closeAgain"} \/ sub' = sub
           /\ result' # "DONE" \/ result' = result \/ plan.menu
  BY <1>1, <1>2, <1>3 DEF Closing, DoneIsPublished
<1>4. ASSUME NEW at, NEW next, Reconcile(at, next) PROVE Closing'
  <2>1. CASE Reconciled
    <3>1. Published /\ taskResult = final.output
      BY <1>1, <2>1, ReconciledIsPublished
    <3>2. UNCHANGED <<plan, result>> /\ runResult' = taskResult
      BY <1>4, <2>1 DEF Reconcile, Elsewhere
    <3>3. QED
      BY <1>2, <3>1, <3>2 DEF Closing, DoneIsPublished
  <2>2. CASE ~Reconciled
    BY <1>3, <1>4, <2>2 DEF Reconcile, Elsewhere
  <2>3. QED
    BY <2>1, <2>2
<1>5. ASSUME NEW at \in {"close", "closeAgain"}, NEW next, CloseRun(at, next) PROVE Closing'
  BY <1>1, <1>2, <1>5 DEF CloseRun, Closing, DoneIsPublished, Elsewhere
<1>6. CASE Submission
  <2>1. CASE Submit \/ Record \/ CloseControl \/ Rewrite \/ Rename
    BY <1>3, <2>1 DEF Submit, Record, CloseControl, Rewrite, Rename, Elsewhere
  <2>2. QED
    BY <1>4, <1>5, <1>6, <2>1 DEF Submission
<1>7. CASE Execution
  <2>1. UNCHANGED <<plan, runResult>>
    BY <1>7 DEF Execution, Reuse, Ask, ReplayFailure, Evaluated, Retire, StageOutput, StageReceipt, StageManifest,
       Publish, Certify, records
  <2>2. sub' = sub \/ sub' = "submit"
    BY <1>7 DEF Execution, Reuse, Ask, ReplayFailure, Evaluated, Retire, StageOutput, StageReceipt, StageManifest,
       Publish, Certify
  <2>3. result' = result \/ result' # "DONE"
    <3>1. CASE Evaluated
      <4>1. CASE ses.phases = {} /\ plan.batches # <<>>
        BY <3>1, <4>1 DEF Evaluated
      <4>2. CASE ~(ses.phases = {} /\ plan.batches # <<>>)
        BY <3>1, <4>2 DEF Evaluated
      <4>3. QED
        BY <4>1, <4>2
    <3>2. CASE ~Evaluated
      BY <1>7, <3>2 DEF Execution, Reuse, Ask, ReplayFailure, Retire, StageOutput, StageReceipt, StageManifest,
         Publish, Certify, records
    <3>3. QED
      BY <3>1, <3>2
  <2>4. QED
    BY <1>3, <2>1, <2>2, <2>3
<1>8. CASE Launch \/ Command \/ CloseFromMenu \/ Die \/ UNCHANGED vars
  BY <1>3, <1>8 DEF Launch, Command, CloseFromMenu, Die, Elsewhere, records, vars
<1>9. QED
  BY <1>6, <1>7, <1>8 DEF Next

THEOREM NcaInvariant == Spec => []RunInv
<1>1. RunInv /\ [Next]_vars => RunInv'
  BY NextEvidenceInv, NextClosing DEF RunInv
<1>2. QED
  BY <1>1, InitRunInv, PTL DEF Spec

---------------------------------------------------------------------------
\* The final files are the pair that a manifest has committed.
THEOREM NcaPublishedAsStaged == Spec => []PublishedAsStaged
<1>1. RunInv => PublishedAsStaged
  BY DEF RunInv, EvidenceInv
<1>2. QED
  BY <1>1, NcaInvariant, PTL

\* An accepted phase never changes, and a staged publication ends the asking.
THEOREM NcaEvidenceIsFinal == Spec => EvidenceIsFinal
<1>1. RunInv /\ [Next]_vars =>
        [/\ \A p \in Phases : accepted[p] # {} => accepted'[p] = accepted[p]
         /\ Staged => ledger' = ledger]_vars
  <2> SUFFICES ASSUME EvidenceInv, Next
               PROVE  /\ \A p \in Phases : accepted[p] # {} => accepted'[p] = accepted[p]
                      /\ Staged => ledger' = ledger
    BY DEF RunInv
  <2>1. CASE Ask
    BY <2>1, AskSteps
  <2>2. CASE ~Ask
    <3>1. UNCHANGED ledger
      BY <2>2, SubmissionElsewhere DEF Next, Launch, Execution, Command, CloseFromMenu, Die, Reuse, ReplayFailure,
         Evaluated, Retire, StageOutput, StageReceipt, StageManifest, Publish, Certify, Elsewhere
    <3>2. QED
      BY <3>1 DEF ledger
  <2>3. QED
    BY <2>1, <2>2
<1>2. QED
  BY <1>1, NcaInvariant, PTL DEF Spec, EvidenceIsFinal

\* A Run closed by commands has the published result of its task.
THEOREM NcaDoneIsPublished == Spec => []DoneIsPublished
<1>1. RunInv => DoneIsPublished
  BY DEF RunInv, Closing
<1>2. QED
  BY <1>1, NcaInvariant, PTL

---------------------------------------------------------------------------
(***************************************************************************)
(* The disposition of the inputs: what is still to visit has been neither  *)
(* admitted nor given up, and everything else is one or the other, once.   *)
(***************************************************************************)
Planned == UNION Range(plan.batches)
Rest == UNION Range(ses.work)

\* The phases of a ledger that admitted an input; what that says of it.
AdmittedBy(members, i, phases) == {p \in phases : i \in members[p]}
Open(members, i, phases, pending) == pending[i] = "none" /\ AdmittedBy(members, i, phases) = {}
Closed(members, i, phases, pending) ==
    IF pending[i] = "none" THEN \E p : AdmittedBy(members, i, phases) = {p}
                           ELSE AdmittedBy(members, i, phases) = {}

Answered(members, phases) == \A p \in phases : p \in Phases /\ members[p] # {}

\* The batches to visit are non-empty and apart, also after a split.
WorkApart(work) ==
    /\ work \in Seq(Phases)
    /\ \A m, n \in DOMAIN work : m # n => work[m] \cap work[n] = {}

\* ... in a traversal, in a document that is being staged, in the staged one.
DisposedInv ==
    /\ accepted \in [Phases -> SUBSET Inputs] /\ \A p \in Phases : accepted[p] \subseteq p
    /\ plan \in Plans
    /\ ses.pc # "idle" => Answered(accepted, ses.phases) /\ ses.pending \in [Inputs -> Reasons]
    /\ ses.pc = "visit" =>
          /\ WorkApart(ses.work) /\ Rest \subseteq Planned
          /\ \A i \in Planned : IF i \in Rest THEN Open(accepted, i, ses.phases, ses.pending)
                                             ELSE Closed(accepted, i, ses.phases, ses.pending)
    /\ ses.pc \in {"retire", "output", "receipt", "manifest"} =>
          \A i \in Planned : Closed(accepted, i, ses.phases, ses.pending)
    /\ Staged => /\ Answered(accepted, staged.manifest.phases)
                 /\ \A i \in Planned : Closed(accepted, i, staged.manifest.phases, staged.manifest.pending)

LEMMA InitDisposedInv == Init => DisposedInv
  BY DEF Init, DisposedInv, Phases, Idle, NothingStaged, None, Staged

\* No two members of a finite set of naturals have the same number of members below them.
LEMMA RanksDiffer ==
  ASSUME NEW b \in SUBSET Nat, IsFiniteSet(b), NEW x \in b, NEW y \in b, x < y
  PROVE  Cardinality({j \in b : j < x}) < Cardinality({j \in b : j < y})
<1> DEFINE X == {j \in b : j < x}
           Y == {j \in b : j < y}
<1>1. X \subseteq Y /\ x \in Y /\ x \notin X
  <2>1. \A j \in b : j < x => j < y
    OBVIOUS
  <2>2. ~(x < x)
    OBVIOUS
  <2>3. QED
    BY <2>1, <2>2
<1>2. IsFiniteSet(Y)
  BY FS_Subset, Y \subseteq b
<1>3. Cardinality(X) <= Cardinality(Y) /\ Cardinality(X) # Cardinality(Y)
  BY <1>1, <1>2, FS_Subset
<1>4. Cardinality(X) \in Nat /\ Cardinality(Y) \in Nat
  BY <1>1, <1>2, FS_Subset, FS_CardinalityType
<1>5. QED
  BY <1>3, <1>4

\* The ranks of a finite set do not fit in an interval that is shorter than it.
LEMMA RanksNeedRoom ==
  ASSUME NEW b \in SUBSET Nat, IsFiniteSet(b), NEW low \in Nat, NEW high \in Nat,
         high - low + 1 < Cardinality(b), low <= high,
         \A i \in b : Cardinality({j \in b : j < i}) \in low .. high
  PROVE  FALSE
<1> DEFINE rank == [i \in b |-> Cardinality({j \in b : j < i})]
<1>1. rank \in [b -> low .. high]
  OBVIOUS
<1>2. IsFiniteSet(low .. high) /\ Cardinality(low .. high) = high - low + 1
  BY FS_Interval
<1> DEFINE room == low .. high
<1>3. IsFiniteSet(room) /\ Cardinality(room) < Cardinality(b) /\ rank \in [b -> room]
  BY <1>1, <1>2
<1> HIDE DEF room, rank
<1>4. PICK x, y \in b : x # y /\ rank[x] = rank[y]
  BY <1>3, FS_PigeonHole
<1>5. Cardinality({j \in b : j < x}) = Cardinality({j \in b : j < y})
  BY <1>4 DEF rank
<1>6. x < y \/ y < x
  BY <1>4
<1>7. Cardinality({j \in b : j < x}) \in Nat
  BY FS_Subset, FS_CardinalityType
<1>8. \A m, n \in b : m < n => Cardinality({j \in b : j < m}) < Cardinality({j \in b : j < n})
  BY RanksDiffer
<1>9. QED
  BY <1>5, <1>6, <1>7, <1>8

\* split_batch makes two non-empty batches of one, apart and together the whole.
LEMMA HalvesSplit ==
  ASSUME NEW b \in Phases, Cardinality(b) > 1
  PROVE  /\ Halves(b) \in Seq(Phases) /\ Len(Halves(b)) = 2
         /\ Halves(b)[1] \cup Halves(b)[2] = b /\ Halves(b)[1] \cap Halves(b)[2] = {}
<1> DEFINE half == Cardinality(b) \div 2
           rank(i) == Cardinality({j \in b : j < i})
           first == {i \in b : rank(i) < half}
<1>1. b \in SUBSET Nat /\ IsFiniteSet(b) /\ b \subseteq Inputs
  BY NcaEvidenceAssumption, FS_Subset DEF Phases
<1>2. Cardinality(b) \in Nat
  BY <1>1, FS_CardinalityType
<1>3. half \in Nat /\ half >= 1 /\ half < Cardinality(b)
  BY <1>2
<1>4. \A i \in b : rank(i) \in 0 .. Cardinality(b) - 1
  <2> TAKE i \in b
  <2>1. {j \in b : j < i} \subseteq b \ {i}
    BY <1>1
  <2>2. IsFiniteSet(b \ {i}) /\ Cardinality(b \ {i}) = Cardinality(b) - 1
    BY <1>1, FS_RemoveElement
  <2>3. rank(i) \in Nat /\ rank(i) <= Cardinality(b) - 1
    BY <2>1, <2>2, FS_Subset, FS_CardinalityType
  <2>4. QED
    BY <1>2, <2>3
<1>5. first # {}
  <2> SUFFICES ASSUME \A i \in b : ~(rank(i) < half) PROVE FALSE
    OBVIOUS
  <2> DEFINE top == Cardinality(b) - 1
  <2>1. \A i \in b : rank(i) \in half .. top
    BY <1>2, <1>3, <1>4
  <2>2. top \in Nat /\ half <= top /\ top - half + 1 < Cardinality(b)
    BY <1>2, <1>3
  <2> HIDE DEF half, top
  <2>3. QED
    BY <1>1, <1>3, <2>1, <2>2, RanksNeedRoom
<1>6. b \ first # {}
  <2> SUFFICES ASSUME \A i \in b : rank(i) < half PROVE FALSE
    OBVIOUS
  <2> DEFINE top == half - 1
  <2>1. \A i \in b : rank(i) \in 0 .. top
    BY <1>2, <1>3, <1>4
  <2>2. top \in Nat /\ 0 <= top /\ top - 0 + 1 < Cardinality(b)
    BY <1>2, <1>3
  <2> HIDE DEF half, top
  <2>3. QED
    BY <1>1, <1>3, <2>1, <2>2, RanksNeedRoom
<1>7. Halves(b) = <<first, b \ first>>
  BY DEF Halves
<1> HIDE DEF first
<1> DEFINE second == b \ first
<1>8. first \in Phases /\ second \in Phases /\ first \cup second = b /\ first \cap second = {}
  BY <1>1, <1>5, <1>6 DEF Phases, first
<1>9. Halves(b) = <<first, second>>
  BY <1>7
<1> HIDE DEF second, Phases
<1>10. QED
  BY <1>8, <1>9

---------------------------------------------------------------------------
(* What settling a batch does to the work, the phases and the pending.      *)

\* The traversal of DisposedInv.
Traversing ==
    /\ WorkApart(ses.work) /\ Rest \subseteq Planned
    /\ \A i \in Planned : IF i \in Rest THEN Open(accepted, i, ses.phases, ses.pending)
                                       ELSE Closed(accepted, i, ses.phases, ses.pending)

LEMMA BatchIsWork ==
  ASSUME WorkApart(ses.work), ses.work # <<>>
  PROVE  Batch \in Phases /\ Batch \subseteq Rest
  BY DEF WorkApart, Batch, Rest, Range

\* The head of the work is replaced by batches of some of its inputs.
LEMMA WorkReplaced ==
  ASSUME WorkApart(ses.work), ses.work # <<>>, NEW work, WorkApart(work), UNION Range(work) \subseteq Batch
  PROVE  /\ WorkApart(work \o Tail(ses.work))
         /\ UNION Range(work \o Tail(ses.work)) = (Rest \ Batch) \cup UNION Range(work)
<1> DEFINE old == ses.work
           new == work \o Tail(old)
<1>1. /\ old \in Seq(Phases) /\ work \in Seq(Phases) /\ Len(old) \in Nat \ {0} /\ Len(work) \in Nat
      /\ Tail(old) \in Seq(Phases) /\ Len(Tail(old)) = Len(old) - 1
      /\ \A n \in 1 .. Len(old) - 1 : Tail(old)[n] = old[n + 1]
  BY DEF WorkApart
<1>2. /\ new \in Seq(Phases) /\ Len(new) = Len(work) + Len(old) - 1
      /\ \A n \in 1 .. Len(work) : new[n] = work[n]
      /\ \A n \in 2 .. Len(old) : new[Len(work) + n - 1] = old[n]
      /\ \A n \in DOMAIN new : n \in 1 .. Len(work) \/ \E k \in 2 .. Len(old) : n = Len(work) + k - 1
  <2>1. new \in Seq(Phases) /\ Len(new) = Len(work) + Len(old) - 1
    BY <1>1
  <2>2. \A n \in 1 .. Len(work) : new[n] = work[n]
    BY <1>1
  <2>3. \A n \in 2 .. Len(old) : new[Len(work) + n - 1] = old[n]
    <3> TAKE n \in 2 .. Len(old)
    <3>1. new[Len(work) + n - 1] = Tail(old)[n - 1]
      BY <1>1
    <3>2. QED
      BY <1>1, <3>1
  <2>4. ASSUME NEW n \in DOMAIN new, n \notin 1 .. Len(work)
        PROVE  \E k \in 2 .. Len(old) : n = Len(work) + k - 1
    <3>1. n - Len(work) + 1 \in 2 .. Len(old)
      BY <1>1, <2>1, <2>4
    <3>2. QED
      BY <1>1, <2>1, <2>4, <3>1
  <2>5. QED
    BY <2>1, <2>2, <2>3, <2>4
<1>3. /\ \A n \in 1 .. Len(work) : work[n] \subseteq Batch
      /\ \A n \in 2 .. Len(old) : old[n] \cap Batch = {} /\ old[n] \subseteq Rest
      /\ \A m, n \in 2 .. Len(old) : m # n => old[m] \cap old[n] = {}
      /\ \A m, n \in 1 .. Len(work) : m # n => work[m] \cap work[n] = {}
      /\ Batch = old[1] /\ Rest = UNION {old[n] : n \in 1 .. Len(old)}
  <2>1. \A n \in 1 .. Len(work) : work[n] \subseteq Batch
    BY <1>1 DEF Range
  <2>2. \A m, n \in 1 .. Len(work) : m # n => work[m] \cap work[n] = {}
    BY <1>1 DEF WorkApart
  <2>3. \A m, n \in 1 .. Len(old) : m # n => old[m] \cap old[n] = {}
    BY <1>1 DEF WorkApart
  <2>4. Batch = old[1] /\ Rest = UNION {old[n] : n \in 1 .. Len(old)}
    BY <1>1 DEF Range, Batch, Rest
  <2> HIDE DEF old
  <2>5. \A n \in 2 .. Len(old) : n \in 1 .. Len(old) /\ 1 \in 1 .. Len(old) /\ n # 1
    BY <1>1
  <2>6. QED
    BY <2>1, <2>2, <2>3, <2>4, <2>5
<1> HIDE DEF new, old
<1>4. ASSUME NEW m \in DOMAIN new, NEW n \in DOMAIN new, m # n PROVE new[m] \cap new[n] = {}
  <2>1. CASE m \in 1 .. Len(work) /\ n \in 1 .. Len(work)
    BY <1>2, <1>3, <1>4, <2>1
  <2>2. CASE m \in 1 .. Len(work) /\ n \notin 1 .. Len(work)
    <3>1. PICK k \in 2 .. Len(old) : n = Len(work) + k - 1
      BY <1>2, <2>2
    <3>2. QED
      BY <1>2, <1>3, <2>2, <3>1
  <2>3. CASE m \notin 1 .. Len(work) /\ n \in 1 .. Len(work)
    <3>1. PICK k \in 2 .. Len(old) : m = Len(work) + k - 1
      BY <1>2, <2>3
    <3>2. QED
      BY <1>2, <1>3, <2>3, <3>1
  <2>4. CASE m \notin 1 .. Len(work) /\ n \notin 1 .. Len(work)
    <3>1. PICK k \in 2 .. Len(old) : m = Len(work) + k - 1
      BY <1>2, <2>4
    <3>2. PICK l \in 2 .. Len(old) : n = Len(work) + l - 1
      BY <1>2, <2>4
    <3>3. k # l
      BY <1>4, <3>1, <3>2
    <3>4. QED
      BY <1>2, <1>3, <3>1, <3>2, <3>3, SMTT(60)
  <2>5. QED
    BY <2>1, <2>2, <2>3, <2>4
<1>5. ASSUME NEW i PROVE i \in UNION Range(new) <=> i \in Rest \ Batch \/ i \in UNION Range(work)
  <2>1. ASSUME i \in UNION Range(new) PROVE i \in Rest \ Batch \/ i \in UNION Range(work)
    <3>1. PICK n \in DOMAIN new : i \in new[n]
      BY <2>1 DEF Range
    <3>2. CASE n \in 1 .. Len(work)
      BY <1>1, <1>2, <3>1, <3>2 DEF Range
    <3>3. CASE n \notin 1 .. Len(work)
      <4>1. PICK k \in 2 .. Len(old) : n = Len(work) + k - 1
        BY <1>2, <3>3
      <4>2. i \in old[k]
        BY <1>2, <3>1, <4>1
      <4>3. QED
        BY <1>3, <4>2
    <3>4. QED
      BY <3>2, <3>3
  <2>2. ASSUME i \in UNION Range(work) PROVE i \in UNION Range(new)
    <3>1. PICK n \in 1 .. Len(work) : i \in work[n]
      BY <1>1, <2>2 DEF Range
    <3>2. n \in DOMAIN new /\ i \in new[n]
      BY <1>1, <1>2, <3>1
    <3>3. QED
      BY <3>2 DEF Range
  <2>3. ASSUME i \in Rest \ Batch PROVE i \in UNION Range(new)
    <3>1. PICK k \in 1 .. Len(old) : i \in old[k]
      BY <1>3, <2>3
    <3>2. k \in 2 .. Len(old)
      BY <1>1, <1>3, <2>3, <3>1
    <3>3. Len(work) + k - 1 \in DOMAIN new /\ i \in new[Len(work) + k - 1]
      BY <1>1, <1>2, <3>1, <3>2
    <3>4. QED
      BY <3>3 DEF Range
  <2>4. QED
    BY <2>1, <2>2, <2>3
<1>6. WorkApart(new)
  BY <1>2, <1>4 DEF WorkApart
<1>7. UNION Range(new) = (Rest \ Batch) \cup UNION Range(work)
  BY <1>5
<1>8. QED
  BY <1>6, <1>7 DEF new, old

---------------------------------------------------------------------------
(* A visit keeps the disposition.                                           *)

\* What one visit establishes.
Traversed == Traversing' /\ Answered(accepted', ses'.phases) /\ ses'.pending \in [Inputs -> Reasons]

\* Each input of a settled batch is visited again, admitted once or pending.
SettledAs(members, batch, work, phases, pending) ==
    /\ WorkApart(work) /\ UNION Range(work) \subseteq batch
    /\ pending \in [DOMAIN pending -> Reasons] /\ DOMAIN pending \subseteq batch
    /\ Answered(members, phases) /\ \A p \in phases : members[p] \subseteq batch
    /\ \A i \in batch : IF i \in UNION Range(work) THEN i \notin DOMAIN pending /\ AdmittedBy(members, i, phases) = {}
                        ELSE IF i \in DOMAIN pending THEN pending[i] # "none" /\ AdmittedBy(members, i, phases) = {}
                        ELSE \E p : AdmittedBy(members, i, phases) = {p}

LEMMA SettleTraverses ==
  ASSUME DisposedInv, Shape, ses.pc = "visit", ses.work # <<>>, UNCHANGED plan,
         NEW work, NEW phases, NEW pending, Settle(work, phases, pending),
         SettledAs(accepted', Batch, work, phases, pending),
         \A p \in ses.phases : accepted'[p] = accepted[p]
  PROVE  Traversed
<1>s. /\ WorkApart(work) /\ UNION Range(work) \subseteq Batch
      /\ pending \in [DOMAIN pending -> Reasons] /\ DOMAIN pending \subseteq Batch
      /\ Answered(accepted', phases) /\ \A p \in phases : accepted'[p] \subseteq Batch
      /\ \A i \in Batch :
            IF i \in UNION Range(work) THEN i \notin DOMAIN pending /\ AdmittedBy(accepted', i, phases) = {}
            ELSE IF i \in DOMAIN pending THEN pending[i] # "none" /\ AdmittedBy(accepted', i, phases) = {}
            ELSE \E p : AdmittedBy(accepted', i, phases) = {p}
  BY DEF SettledAs
<1>1. /\ WorkApart(ses.work) /\ Rest \subseteq Planned
      /\ \A i \in Planned : IF i \in Rest THEN Open(accepted, i, ses.phases, ses.pending)
                                         ELSE Closed(accepted, i, ses.phases, ses.pending)
      /\ Answered(accepted, ses.phases) /\ ses.pending \in [Inputs -> Reasons]
  BY DEF DisposedInv
<1>2. Batch \in Phases /\ Batch \subseteq Rest
  BY <1>1, BatchIsWork
<1>3. /\ ses'.work = work \o Tail(ses.work)
      /\ ses'.phases = ses.phases \cup phases
      /\ ses'.pending = [i \in Inputs |-> IF i \in DOMAIN pending THEN pending[i] ELSE ses.pending[i]]
  BY DEF Settle, Shape
<1>4. /\ WorkApart(ses'.work)
      /\ Rest' = (Rest \ Batch) \cup UNION Range(work)
  <2>1. /\ WorkApart(work \o Tail(ses.work))
        /\ UNION Range(work \o Tail(ses.work)) = (Rest \ Batch) \cup UNION Range(work)
    BY <1>s, <1>1, WorkReplaced
  <2>2. Rest' = UNION Range(ses'.work)
    BY DEF Rest
  <2>3. QED
    BY <1>3, <2>1, <2>2
<1>5. /\ ses'.pending \in [Inputs -> Reasons]
      /\ \A i \in Inputs : ses'.pending[i] = IF i \in DOMAIN pending THEN pending[i] ELSE ses.pending[i]
  <2>1. DOMAIN pending \subseteq Inputs
    BY <1>s, <1>2 DEF Phases
  <2>2. ses'.pending = [i \in Inputs |-> IF i \in DOMAIN pending THEN pending[i] ELSE ses.pending[i]]
    BY <1>3
  <2>3. QED
    BY <1>s, <1>1, <2>1, <2>2
<1>6. Answered(accepted', ses'.phases)
  BY <1>s, <1>1, <1>3 DEF Answered
<1>7. Planned' = Planned /\ Planned \subseteq Inputs
  <2>1. plan.batches \in Seq(Phases)
    BY NcaEvidenceAssumption DEF DisposedInv, Phases
  <2>2. QED
    BY <2>1 DEF Planned, Range, Phases
<1>8. ASSUME NEW i \in Planned
      PROVE  IF i \in Rest' THEN Open(accepted', i, ses'.phases, ses'.pending) ELSE Closed(accepted', i, ses'.phases, ses'.pending)
  <2> DEFINE by == AdmittedBy(accepted', i, phases)
  <2>1. AdmittedBy(accepted', i, ses'.phases) = AdmittedBy(accepted, i, ses.phases) \cup by
    BY <1>3 DEF AdmittedBy
  <2>2. ses'.pending[i] = IF i \in DOMAIN pending THEN pending[i] ELSE ses.pending[i]
    BY <1>5, <1>7
  <2>3. CASE i \in Batch
    <3>1. ses.pending[i] = "none" /\ AdmittedBy(accepted, i, ses.phases) = {}
      BY <1>1, <1>2, <2>3 DEF Open
    <3>2. AdmittedBy(accepted', i, ses'.phases) = by
      BY <2>1, <3>1
    <3>3. CASE i \in UNION Range(work)
      <4>1. i \notin DOMAIN pending /\ by = {}
        BY <1>s, <2>3, <3>3
      <4>2. QED
        BY <1>4, <2>2, <3>1, <3>2, <3>3, <4>1 DEF Open
    <3>4. CASE i \notin UNION Range(work)
      <4>1. IF i \in DOMAIN pending THEN pending[i] # "none" /\ by = {} ELSE \E p : by = {p}
        BY <1>s, <2>3, <3>4
      <4>2. i \notin Rest'
        BY <1>4, <2>3, <3>4
      <4>3. QED
        BY <2>2, <3>1, <3>2, <4>1, <4>2 DEF Closed
    <3>5. QED
      BY <3>3, <3>4
  <2>4. CASE i \notin Batch
    <3>1. by = {} /\ i \notin DOMAIN pending /\ i \notin UNION Range(work)
      BY <1>s, <2>4 DEF AdmittedBy
    <3>2. AdmittedBy(accepted', i, ses'.phases) = AdmittedBy(accepted, i, ses.phases) /\ ses'.pending[i] = ses.pending[i]
      BY <2>1, <2>2, <3>1
    <3>3. i \in Rest' <=> i \in Rest
      BY <1>4, <2>4, <3>1
    <3>4. QED
      BY <1>1, <3>2, <3>3 DEF Open, Closed
  <2>5. QED
    BY <2>3, <2>4
<1>9. Rest' \subseteq Planned'
  BY <1>s, <1>1, <1>2, <1>4, <1>7
<1>10. QED
  BY <1>4, <1>5, <1>6, <1>7, <1>8, <1>9 DEF Traversing, Traversed

LEMMA NothingApart == WorkApart(<<>>) /\ UNION Range(<<>>) = {}
  BY DEF WorkApart, Range

LEMMA OneApart == ASSUME NEW b \in Phases PROVE WorkApart(<<b>>) /\ UNION Range(<<b>>) = b
  BY DEF WorkApart, Range

LEMMA HalvesApart ==
  ASSUME NEW b \in Phases, Cardinality(b) > 1
  PROVE  WorkApart(Halves(b)) /\ UNION Range(Halves(b)) = b
<1>1. /\ Halves(b) \in Seq(Phases) /\ DOMAIN Halves(b) = {1, 2}
      /\ Halves(b)[1] \cup Halves(b)[2] = b /\ Halves(b)[1] \cap Halves(b)[2] = {}
  BY HalvesSplit
<1>2. QED
  BY <1>1 DEF WorkApart, Range

LEMMA NonePending == DOMAIN <<>> = {} /\ <<>> \in [DOMAIN <<>> -> Reasons]
  OBVIOUS

\* The response that the ledger holds of the batch is admitted.
LEMMA AdmitTraverses ==
  ASSUME DisposedInv, Shape, ses.pc = "visit", ses.work # <<>>, UNCHANGED plan,
         NEW members \in (SUBSET Batch) \ {{}}, Admit(members), accepted'[Batch] = members,
         \A p \in Phases : accepted[p] # {} => accepted'[p] = accepted[p]
  PROVE  Traversed
<1> DEFINE work == IF members = Batch THEN <<>> ELSE <<Batch \ members>>
<1>1. Batch \in Phases
  BY BatchIsWork DEF DisposedInv
<1>2. WorkApart(work) /\ UNION Range(work) = Batch \ members
  <2>1. CASE members = Batch
    BY <2>1, NothingApart
  <2>2. CASE members # Batch
    <3>1. Batch \ members \in Phases
      BY <1>1, <2>2 DEF Phases
    <3>2. QED
      BY <2>2, <3>1, OneApart
  <2>3. QED
    BY <2>1, <2>2
<1>3. \A p \in ses.phases : accepted'[p] = accepted[p]
  BY DEF DisposedInv, Answered
<1>4. Answered(accepted', {Batch})
  BY <1>1 DEF Answered
<1> DEFINE none == <<>>
           phases == {Batch}
<1>5. Settle(work, phases, none) /\ DOMAIN none = {} /\ none \in [DOMAIN none -> Reasons]
  BY NonePending DEF Admit
<1>6. ASSUME NEW i \in Batch
      PROVE  IF i \in UNION Range(work) THEN AdmittedBy(accepted', i, phases) = {}
             ELSE \E p : AdmittedBy(accepted', i, phases) = {p}
  <2>1. CASE i \in members
    <3>1. AdmittedBy(accepted', i, phases) = {Batch} /\ i \notin UNION Range(work)
      BY <1>2, <2>1 DEF AdmittedBy
    <3>2. QED
      BY <3>1
  <2>2. CASE i \notin members
    <3>1. AdmittedBy(accepted', i, phases) = {} /\ i \in UNION Range(work)
      BY <1>2, <2>2 DEF AdmittedBy
    <3>2. QED
      BY <3>1
  <2>3. QED
    BY <2>1, <2>2
<1>7. SettledAs(accepted', Batch, work, phases, none)
  <2>1. \A p \in phases : accepted'[p] \subseteq Batch
    OBVIOUS
  <2> HIDE DEF none, work, phases
  <2>2. Answered(accepted', phases)
    BY <1>4 DEF phases
  <2>3. QED
    BY <1>2, <1>5, <1>6, <2>1, <2>2 DEF SettledAs
<1> HIDE DEF work, none, phases
<1>8. QED
  BY <1>3, <1>5, <1>7, SettleTraverses

\* Nothing is admitted: the batch is split.
LEMMA SplitTraverses ==
  ASSUME DisposedInv, Shape, ses.pc = "visit", ses.work # <<>>, UNCHANGED <<plan, accepted>>,
         Cardinality(Batch) > 1, Settle(Halves(Batch), {}, <<>>)
  PROVE  Traversed
<1>1. WorkApart(Halves(Batch)) /\ UNION Range(Halves(Batch)) = Batch
  BY BatchIsWork, HalvesApart DEF DisposedInv
<1>2. SettledAs(accepted', Batch, Halves(Batch), {}, <<>>)
  BY <1>1, NonePending DEF SettledAs, Answered, AdmittedBy
<1>3. QED
  BY <1>2, SettleTraverses

\* Nothing is admitted: the batch is given up.
LEMMA GiveUpTraverses ==
  ASSUME DisposedInv, Shape, ses.pc = "visit", ses.work # <<>>, UNCHANGED <<plan, accepted>>,
         NEW reason \in Reasons \ {"none"}, Settle(<<>>, {}, [i \in Batch |-> reason])
  PROVE  Traversed
<1> DEFINE pending == [i \in Batch |-> reason]
<1>1. /\ pending \in [DOMAIN pending -> Reasons] /\ DOMAIN pending = Batch
      /\ \A i \in Batch : pending[i] # "none"
  OBVIOUS
<1>2. Settle(<<>>, {}, pending)
  OBVIOUS
<1> HIDE DEF pending
<1>3. SettledAs(accepted', Batch, <<>>, {}, pending)
  BY <1>1, NothingApart DEF SettledAs, Answered, AdmittedBy
<1>4. QED
  BY <1>2, <1>3, SettleTraverses

\* The batch stays where it is.
LEMMA RetryTraverses ==
  ASSUME DisposedInv, ses.pc = "visit", UNCHANGED <<plan, accepted>>,
         ses'.work = ses.work, ses'.phases = ses.phases, ses'.pending = ses.pending
  PROVE  Traversed
  BY DEF DisposedInv, Traversed, Traversing, Rest, Planned

LEMMA FailTraverses ==
  ASSUME DisposedInv, Shape, ses.pc = "visit", ses.work # <<>>, UNCHANGED <<plan, accepted>>,
         NEW reason \in {"failed", "empty"}, Fail(reason)
  PROVE  Traversed
<1>1. CASE ses.tries < plan.retries
  BY <1>1, RetryTraverses DEF Fail, Shape
<1>2. CASE ~(ses.tries < plan.retries) /\ Cardinality(Batch) > 1
  BY <1>2, SplitTraverses DEF Fail
<1>3. CASE ~(ses.tries < plan.retries) /\ ~(Cardinality(Batch) > 1)
  BY <1>3, GiveUpTraverses DEF Fail, Reasons
<1>4. QED
  BY <1>1, <1>2, <1>3

LEMMA LimitTraverses ==
  ASSUME DisposedInv, Shape, ses.pc = "visit", ses.work # <<>>, UNCHANGED <<plan, accepted>>, Limit
  PROVE  Traversed
<1>1. CASE ses.limited < plan.backoffs
  BY <1>1, RetryTraverses DEF Limit, Shape
<1>2. CASE ~(ses.limited < plan.backoffs)
  BY <1>2, GiveUpTraverses DEF Limit, Reasons
<1>3. QED
  BY <1>1, <1>2

---------------------------------------------------------------------------
(* Every step keeps the disposition.                                        *)

\* The ledger only grows, and what a staged document rests on stays.
LEMMA DisposedVisit ==
  ASSUME DisposedInv, EvidenceInv, Visited, Traversed, ses.pc = "visit", UNCHANGED <<plan, files>>,
         accepted' \in [Phases -> SUBSET Inputs], \A p \in Phases : accepted'[p] \subseteq p,
         Staged => UNCHANGED accepted
  PROVE  DisposedInv'
<1>1. ses'.pc = "visit"
  BY DEF Visited
<1>2. Staged' => /\ Answered(accepted', staged'.manifest.phases)
                 /\ \A i \in Planned' : Closed(accepted', i, staged'.manifest.phases, staged'.manifest.pending)
  BY DEF DisposedInv, Staged, files, Planned
<1>3. QED
  BY <1>1, <1>2 DEF DisposedInv, Traversed, Traversing

\* An execution that ends, or a step elsewhere, leaves the staged document as it is.
LEMMA DisposedElsewhere ==
  ASSUME DisposedInv, UNCHANGED <<plan, accepted>>, staged'.manifest = staged.manifest,
         \/ Stop
         \/ UNCHANGED ses
         \/ ses'.pc \in {"publish", "certify"} /\ ses'.phases = ses.phases /\ ses'.pending = ses.pending
            /\ ses.pc # "idle"
  PROVE  DisposedInv'
<1>1. /\ accepted' \in [Phases -> SUBSET Inputs] /\ \A p \in Phases : accepted'[p] \subseteq p
      /\ plan' \in Plans
  BY DEF DisposedInv
<1>2. Staged' => /\ Answered(accepted', staged'.manifest.phases)
                 /\ \A i \in Planned' : Closed(accepted', i, staged'.manifest.phases, staged'.manifest.pending)
  BY DEF DisposedInv, Staged, Planned
<1>3. CASE Stop
  BY <1>1, <1>2, <1>3 DEF DisposedInv, Stop, Idle
<1>4. CASE UNCHANGED ses
  BY <1>1, <1>2, <1>4 DEF DisposedInv, Rest, Planned
<1>5. CASE /\ ses'.pc \in {"publish", "certify"} /\ ses'.phases = ses.phases /\ ses'.pending = ses.pending
           /\ ses.pc # "idle"
  BY <1>1, <1>2, <1>5 DEF DisposedInv
<1>6. QED
  BY <1>3, <1>4, <1>5

LEMMA NextDisposedInv == EvidenceInv /\ DisposedInv /\ [Next]_vars => DisposedInv'
<1> SUFFICES ASSUME EvidenceInv, DisposedInv, [Next]_vars PROVE DisposedInv'
  OBVIOUS
<1>s. Shape
  BY DEF EvidenceInv
<1>1. CASE Launch
  <2>1. ses' = [pc |-> "visit", resume |-> Staged, by |-> IF Staged THEN 0 ELSE execs + 1, work |-> plan.batches,
                tries |-> 0, limited |-> 0, phases |-> {}, pending |-> Decided]
    BY <1>1 DEF Launch, Started, Idle
  <2>2. UNCHANGED <<plan, accepted, staged>>
    BY <1>1 DEF Launch, ledger, files
  <2>3. WorkApart(plan.batches)
    BY NcaEvidenceAssumption DEF DisposedInv, WorkApart, Phases
  <2>4. Rest' = Planned
    BY <2>1 DEF Rest, Planned
  <2>5. Planned \subseteq Inputs
    BY <2>3 DEF Planned, WorkApart, Phases, Range
  <2>6. \A i \in Planned : Open(accepted', i, ses'.phases, ses'.pending)
    BY <2>1, <2>5 DEF Open, AdmittedBy, Decided
  <2>7. Staged' => /\ Answered(accepted', staged'.manifest.phases)
                   /\ \A i \in Planned' : Closed(accepted', i, staged'.manifest.phases, staged'.manifest.pending)
    BY <2>2 DEF DisposedInv, Staged, Planned
  <2>8. Planned' = Planned /\ Decided \in [Inputs -> Reasons] /\ Answered(accepted', ses'.phases)
    BY <2>1, <2>2 DEF Planned, Decided, Reasons, Answered
  <2>9. QED
    BY <2>1, <2>2, <2>3, <2>4, <2>6, <2>7, <2>8 DEF DisposedInv
<1>2. CASE Reuse
  <2>1. /\ ses.pc = "visit" /\ ses.work # <<>> /\ UNCHANGED <<plan, files, accepted>> /\ Admit(accepted[Batch])
        /\ accepted[Batch] # {}
    BY <1>2 DEF Reuse, Visiting, ledger
  <2>2. accepted[Batch] \in (SUBSET Batch) \ {{}}
    BY <2>1, BatchIsWork DEF DisposedInv
  <2>3. Visited
    BY <1>s, <2>1, AdmitVisits
  <2>4. Traversed
    BY <1>s, <2>1, <2>2, AdmitTraverses
  <2>5. QED
    BY <2>1, <2>3, <2>4, DisposedVisit DEF DisposedInv
<1>3. CASE Ask
  <2>1. /\ ses.pc = "visit" /\ ses.work # <<>> /\ UNCHANGED <<plan, files>> /\ accepted[Batch] = {} /\ ~Staged
        /\ \A p \in Phases : accepted[p] # {} => accepted'[p] = accepted[p]
    BY <1>3, AskSteps DEF Ask, Visiting
  <2>2. Batch \in Phases
    BY <2>1, BatchIsWork DEF DisposedInv
  <2>3. CASE \E members \in (SUBSET Batch) \ {{}} :
                 accepted' = [accepted EXCEPT ![Batch] = members] /\ Admit(members)
    <3>1. PICK members \in (SUBSET Batch) \ {{}} :
              accepted' = [accepted EXCEPT ![Batch] = members] /\ Admit(members)
      BY <2>3
    <3>2. /\ accepted' \in [Phases -> SUBSET Inputs] /\ accepted'[Batch] = members
          /\ \A p \in Phases : accepted'[p] \subseteq p
      BY <2>2, <3>1 DEF DisposedInv, Phases
    <3>3. Visited
      BY <1>s, <3>1, AdmitVisits
    <3>4. Traversed
      BY <1>s, <2>1, <3>1, <3>2, AdmitTraverses
    <3>5. QED
      BY <2>1, <3>2, <3>3, <3>4, DisposedVisit
  <2>4. CASE UNCHANGED accepted /\ \E reason \in {"failed", "empty"} : Fail(reason)
    BY <1>s, <2>1, <2>4, FailVisits, FailTraverses, DisposedVisit DEF DisposedInv
  <2>5. CASE UNCHANGED accepted /\ Limit
    BY <1>s, <2>1, <2>5, LimitVisits, LimitTraverses, DisposedVisit DEF DisposedInv
  <2>6. CASE UNCHANGED accepted /\ Stop
    BY <2>1, <2>6, DisposedElsewhere DEF files
  <2>7. QED
    BY <1>3, <2>3, <2>4, <2>5, <2>6 DEF Ask
<1>4. CASE ReplayFailure
  <2>1. ses.pc = "visit" /\ ses.work # <<>> /\ UNCHANGED <<plan, files, accepted>>
    BY <1>4 DEF ReplayFailure, Visiting, ledger
  <2>2. CASE Stop
    BY <2>1, <2>2, DisposedElsewhere DEF files
  <2>3. CASE failed[Batch] \in {"failed", "empty"} /\ Fail(failed[Batch])
    BY <1>s, <2>1, <2>3, FailVisits, FailTraverses, DisposedVisit DEF DisposedInv
  <2>4. QED
    BY <1>4, <2>2, <2>3 DEF ReplayFailure
<1>5. CASE Evaluated
  <2>1. UNCHANGED <<plan, accepted, staged>> /\ ses.pc = "visit" /\ ses.work = <<>>
    BY <1>5 DEF Evaluated, ledger, files
  <2>2. Stop \/ Go("publish") \/ Go("retire")
    BY <1>5 DEF Evaluated
  <2>3. CASE Stop
    BY <2>1, <2>3, DisposedElsewhere
  <2>4. CASE Go("publish")
    BY <1>s, <2>1, <2>4, DisposedElsewhere DEF Go, Shape
  <2>5. CASE Go("retire")
    <3>1. Rest = {}
      BY <2>1, NothingApart DEF Rest
    <3>2. \A i \in Planned : Closed(accepted, i, ses.phases, ses.pending)
      BY <2>1, <3>1 DEF DisposedInv
    <3>3. ses'.pc = "retire" /\ ses'.phases = ses.phases /\ ses'.pending = ses.pending
      BY <1>s, <2>5 DEF Go, Shape
    <3>4. QED
      BY <2>1, <3>2, <3>3 DEF DisposedInv, Staged, Planned
  <2>6. QED
    BY <2>2, <2>3, <2>4, <2>5
<1>6. CASE Retire \/ StageOutput \/ StageReceipt
  <2>1. /\ UNCHANGED <<plan, accepted>> /\ ses.pc \in {"retire", "output", "receipt"}
        /\ ses'.pc \in {"output", "receipt", "manifest"}
        /\ ses'.phases = ses.phases /\ ses'.pending = ses.pending
    BY <1>s, <1>6 DEF Retire, StageOutput, StageReceipt, Go, Shape, ledger
  <2>2. ~Staged'
    BY <1>6, <1>s DEF Retire, StageOutput, StageReceipt, NothingStaged, EvidenceInv, Staging, Staged, Shape
  <2>3. QED
    BY <2>1, <2>2 DEF DisposedInv, Planned
<1>7. CASE StageManifest
  <2>1. /\ UNCHANGED <<plan, accepted>> /\ ses.pc = "manifest" /\ ses'.pc = "publish"
        /\ ses'.phases = ses.phases /\ ses'.pending = ses.pending
        /\ staged'.manifest.phases = ses.phases /\ staged'.manifest.pending = ses.pending
    BY <1>s, <1>7 DEF StageManifest, Go, Shape, ledger, Document
  <2>2. QED
    BY <2>1 DEF DisposedInv, Planned
<1>8. CASE Publish \/ Certify
  BY <1>s, <1>8, DisposedElsewhere DEF Publish, Certify, Go, Shape, ledger
<1>9. CASE Submission \/ Command \/ CloseFromMenu \/ Die \/ UNCHANGED vars
  BY <1>9, SubmissionElsewhere, DisposedElsewhere DEF Command, CloseFromMenu, Die, Elsewhere, ledger, files, vars
<1>10. QED
  BY <1>1, <1>2, <1>3, <1>4, <1>5, <1>6, <1>7, <1>8, <1>9 DEF Next, Execution

\* Of the planned inputs none is lost and none is counted twice: the staged document
\* admits each by exactly one of its phases, or says why it is pending.
THEOREM NcaEveryInputDisposed == Spec => []EveryInputDisposed
<1>1. Spec => []DisposedInv
  <2>1. RunInv /\ DisposedInv /\ [Next]_vars => DisposedInv'
    BY NextDisposedInv DEF RunInv
  <2>2. QED
    BY <2>1, InitDisposedInv, NcaInvariant, PTL DEF Spec
<1>2. DisposedInv => EveryInputDisposed
  <2> SUFFICES ASSUME DisposedInv, Staged, NEW i \in Planned
               PROVE  Cardinality(AdmittedBy(accepted, i, staged.manifest.phases))
                        = IF staged.manifest.pending[i] = "none" THEN 1 ELSE 0
    BY DEF EveryInputDisposed, AdmittedBy, Planned
  <2>1. Closed(accepted, i, staged.manifest.phases, staged.manifest.pending)
    BY DEF DisposedInv
  <2>2. QED
    BY <2>1, FS_Singleton, FS_EmptySet DEF Closed
<1>3. QED
  BY <1>1, <1>2, PTL

---------------------------------------------------------------------------
(***************************************************************************)
(* The replay: the traversal of the ledger that the document stands for.   *)
(***************************************************************************)
Both(x, y) ==
    [phases |-> x.phases \cup y.phases,
     pending |-> [i \in Inputs |-> IF x.pending[i] # "none" THEN x.pending[i] ELSE y.pending[i]]]
AllOf(b, reason) == [phases |-> {}, pending |-> [i \in Inputs |-> IF i \in b THEN reason ELSE "none"]]
Here(b) == [phases |-> {b}, pending |-> Decided]

\* What a ledger makes of a batch, where R is what it makes of smaller ones.
Derived(members, failures, R, b) ==
    IF members[b] = b THEN Here(b)
    ELSE IF members[b] # {} THEN Both(Here(b), R[b \ members[b]])
    ELSE IF failures[b] = "limited" \/ Cardinality(b) = 1 THEN AllOf(b, failures[b])
    ELSE Both(R[Halves(b)[1]], R[Halves(b)[2]])

Admitted(members) == \A p \in Phases : members[p] \subseteq p

LEMMA PhaseIsFinite ==
  ASSUME NEW b \in Phases
  PROVE  /\ IsFiniteSet(b) /\ Cardinality(b) \in Nat /\ Cardinality(b) > 0
         /\ \A c \in Phases : c \subseteq b /\ c # b => Cardinality(c) < Cardinality(b)
<1>1. IsFiniteSet(b) /\ b # {}
  BY NcaEvidenceAssumption, FS_Subset DEF Phases
<1>2. Cardinality(b) \in Nat /\ Cardinality(b) # 0
  BY <1>1, FS_CardinalityType, FS_EmptySet
<1>3. \A c \in Phases : c \subseteq b /\ c # b => Cardinality(c) < Cardinality(b)
  <2> TAKE c \in Phases
  <2>1. IsFiniteSet(c) /\ Cardinality(c) \in Nat
    BY NcaEvidenceAssumption, FS_Subset, FS_CardinalityType DEF Phases
  <2>2. QED
    BY <1>1, <1>2, <2>1, FS_Subset
<1>4. QED
  BY <1>1, <1>2, <1>3

\* It looks at smaller batches only.
LEMMA DerivedLooksBelow ==
  ASSUME NEW members, Admitted(members), NEW failures, NEW f, NEW g, NEW b \in Phases,
         \A c \in Phases : c \subseteq b /\ c # b => f[c] = g[c]
  PROVE  Derived(members, failures, f, b) = Derived(members, failures, g, b)
<1>1. CASE members[b] = b
  BY <1>1 DEF Derived
<1>2. CASE members[b] # b /\ members[b] # {}
  <2>1. b \ members[b] \in Phases /\ b \ members[b] \subseteq b /\ b \ members[b] # b
    BY <1>2 DEF Admitted, Phases
  <2>2. f[b \ members[b]] = g[b \ members[b]]
    BY <2>1
  <2>3. QED
    BY <1>2, <2>2 DEF Derived
<1>3. CASE members[b] = {} /\ (failures[b] = "limited" \/ Cardinality(b) = 1)
  BY <1>3 DEF Derived, Phases
<1>4. CASE members[b] = {} /\ ~(failures[b] = "limited" \/ Cardinality(b) = 1)
  <2>1. Cardinality(b) > 1
    BY <1>4, PhaseIsFinite
  <2>2. /\ Halves(b)[1] \in Phases /\ Halves(b)[2] \in Phases
        /\ Halves(b)[1] \cup Halves(b)[2] = b /\ Halves(b)[1] \cap Halves(b)[2] = {}
    BY <2>1, HalvesSplit
  <2>3. \A h \in {Halves(b)[1], Halves(b)[2]} : f[h] = g[h]
    BY <2>2 DEF Phases
  <2>4. b # {}
    BY DEF Phases
  <2>5. QED
    BY <1>4, <2>3, <2>4 DEF Derived
<1>5. QED
  BY <1>1, <1>2, <1>3, <1>4

Small(n) == {b \in Phases : Cardinality(b) <= n}
LessThan == {pair \in Nat \X Nat : pair[1] < pair[2]}

LEMMA NatWellFounded == IsWellFoundedOn(LessThan, Nat)
  BY NatLessThanWellFounded DEF OpToRel, LessThan

\* A set of naturals that has each one whose smaller ones it has, has all.
LEMMA AllNaturals ==
  ASSUME NEW S, \A n \in Nat : (\A m \in Nat : m < n => m \in S) => n \in S
  PROVE  Nat \subseteq S
<1> SUFFICES ASSUME Nat \ S # {} PROVE FALSE
  OBVIOUS
<1> DEFINE T == Nat \ S
<1>1. PICK n \in T : \A m \in T : <<m, n>> \notin LessThan
  BY NatWellFounded, WFMin
<1>2. \A m \in Nat : m < n => m \in S
  BY <1>1 DEF LessThan
<1>3. QED
  BY <1>1, <1>2

\* So a replay exists, and Replay is one.
LEMMA ReplayExists ==
  ASSUME NEW members, Admitted(members), NEW failures
  PROVE  \E f : f = [b \in Phases |-> Derived(members, failures, f, b)]
<1> DEFINE Solves(f, n) == f = [b \in Small(n) |-> Derived(members, failures, f, b)]
           S == {n \in Nat : \E f : Solves(f, n)}
<1>1. ASSUME NEW n \in Nat, \A m \in Nat : m < n => m \in S
      PROVE  n \in S
  <2>1. PICK f : \A b \in Phases : Cardinality(b) < n => f[b] = Derived(members, failures, f, b)
    <3>1. CASE n = 0
      BY <3>1, PhaseIsFinite
    <3>2. CASE n # 0
      <4>1. n - 1 \in S
        BY <1>1, <3>2
      <4>2. PICK f : Solves(f, n - 1)
        BY <4>1
      <4>3. \A b \in Phases : Cardinality(b) < n => b \in Small(n - 1)
        BY PhaseIsFinite DEF Small
      <4>4. QED
        BY <4>2, <4>3
    <3>3. QED
      BY <3>1, <3>2
  <2> DEFINE g == [b \in Small(n) |-> Derived(members, failures, f, b)]
  <2>2. ASSUME NEW b \in Small(n) PROVE Derived(members, failures, f, b) = Derived(members, failures, g, b)
    <3>1. b \in Phases /\ Cardinality(b) <= n
      BY DEF Small
    <3>2. ASSUME NEW c \in Phases, c \subseteq b, c # b PROVE f[c] = g[c]
      <4>1. Cardinality(c) < n /\ c \in Small(n)
        BY <3>1, <3>2, PhaseIsFinite DEF Small
      <4>2. QED
        BY <2>1, <4>1
    <3> HIDE DEF g
    <3>3. QED
      BY <3>1, <3>2, DerivedLooksBelow
  <2>3. g = [b \in Small(n) |-> Derived(members, failures, g, b)]
    BY <2>2
  <2>4. QED
    BY <2>3
<1>2. Cardinality(Inputs) \in S
  <2>1. Cardinality(Inputs) \in Nat
    BY NcaEvidenceAssumption, FS_CardinalityType
  <2> HIDE DEF S
  <2>2. QED
    BY <1>1, <2>1, AllNaturals
<1>3. Small(Cardinality(Inputs)) = Phases
  <2>1. \A b \in Phases : Cardinality(b) <= Cardinality(Inputs)
    BY NcaEvidenceAssumption, FS_Subset DEF Phases
  <2>2. QED
    BY <2>1 DEF Small
<1>4. QED
  BY <1>2, <1>3

LEMMA ReplayUnfolds ==
  ASSUME Admitted(accepted)
  PROVE  \A b \in Phases : Replay[b] = Derived(accepted, failed, Replay, b)
<1>1. Replay = CHOOSE f : f = [b \in Phases |-> Derived(accepted, failed, f, b)]
  BY DEF Replay, Derived, Both, AllOf, Here
<1>2. Replay = [b \in Phases |-> Derived(accepted, failed, Replay, b)]
  BY <1>1, ReplayExists
<1>3. QED
  BY <1>2

\* A replay of a batch leaves the other inputs alone.
Local(R) == \A p \in Phases : \A i \in Inputs \ p : R[p].pending[i] = "none"

LEMMA ReplayIsLocal ==
  ASSUME NEW members, Admitted(members), NEW failures,
         NEW R, \A b \in Phases : R[b] = Derived(members, failures, R, b)
  PROVE  Local(R)
<1> DEFINE Fine(b) == \A i \in Inputs \ b : R[b].pending[i] = "none"
           S == {n \in Nat : \A b \in Phases : Cardinality(b) = n => Fine(b)}
<1>1. ASSUME NEW n \in Nat, \A m \in Nat : m < n => m \in S
      PROVE  n \in S
  <2> SUFFICES ASSUME NEW b \in Phases, Cardinality(b) = n, NEW i \in Inputs \ b
               PROVE  R[b].pending[i] = "none"
    OBVIOUS
  <2>1. ASSUME NEW c \in Phases, c \subseteq b, c # b PROVE R[c].pending[i] = "none"
    <3>1. Cardinality(c) \in Nat /\ Cardinality(c) < n
      BY <2>1, PhaseIsFinite
    <3>2. Cardinality(c) \in S
      BY <1>1, <3>1
    <3>3. i \in Inputs \ c
      BY <2>1
    <3>4. QED
      BY <3>2, <3>3
  <2>2. CASE members[b] = b
    <3>1. R[b] = Here(b)
      BY <2>2 DEF Derived
    <3>2. QED
      BY <3>1 DEF Here, Decided
  <2>3. CASE members[b] # b /\ members[b] # {}
    <3>1. b \ members[b] \in Phases /\ b \ members[b] \subseteq b /\ b \ members[b] # b
      BY <2>3 DEF Admitted, Phases
    <3>2. R[b \ members[b]].pending[i] = "none"
      BY <2>1, <3>1
    <3>3. R[b] = Both(Here(b), R[b \ members[b]])
      BY <2>3 DEF Derived
    <3>4. i \in Inputs /\ Here(b).pending[i] = "none"
      BY DEF Here, Decided
    <3> DEFINE x == Here(b)
               y == R[b \ members[b]]
    <3>5. R[b] = Both(x, y) /\ x.pending[i] = "none" /\ y.pending[i] = "none"
      BY <3>2, <3>3, <3>4
    <3> HIDE DEF x, y
    <3>6. QED
      BY <3>4, <3>5 DEF Both
  <2>4. CASE members[b] = {} /\ (failures[b] = "limited" \/ Cardinality(b) = 1)
    <3>1. R[b] = AllOf(b, failures[b])
      BY <2>4 DEF Derived, Phases
    <3>2. QED
      BY <3>1 DEF AllOf
  <2>5. CASE members[b] = {} /\ ~(failures[b] = "limited" \/ Cardinality(b) = 1)
    <3>1. b # {} /\ Cardinality(b) > 1
      BY <2>5, PhaseIsFinite DEF Phases
    <3>2. /\ Halves(b)[1] \in Phases /\ Halves(b)[2] \in Phases
          /\ Halves(b)[1] \cup Halves(b)[2] = b /\ Halves(b)[1] \cap Halves(b)[2] = {}
      BY <3>1, HalvesSplit
    <3>3. \A h \in {Halves(b)[1], Halves(b)[2]} : R[h].pending[i] = "none"
      BY <2>1, <3>2 DEF Phases
    <3>4. R[b] = Both(R[Halves(b)[1]], R[Halves(b)[2]])
      BY <2>5, <3>1 DEF Derived
    <3> DEFINE x == R[Halves(b)[1]]
               y == R[Halves(b)[2]]
    <3>5. R[b] = Both(x, y) /\ x.pending[i] = "none" /\ y.pending[i] = "none" /\ i \in Inputs
      BY <3>3, <3>4
    <3> HIDE DEF x, y
    <3>6. QED
      BY <3>5 DEF Both
  <2>6. QED
    BY <2>2, <2>3, <2>4, <2>5
<1>2. Nat \subseteq S
  <2> HIDE DEF S
  <2>1. QED
    BY <1>1, AllNaturals
<1>3. \A b \in Phases : Fine(b)
  BY <1>2, PhaseIsFinite
<1>4. QED
  BY <1>3 DEF Local

---------------------------------------------------------------------------
(* How much of the replay a traversal has done.                             *)

\* The batches that are still to visit make up the rest: whatever comes of them, the
\* replay of a planned batch is what they come to and what the document has of it.
Ahead(p, work) == \E w \in work : p \subseteq w

Follows(members, failures, R, work) ==
    Local(R) /\ \A p \in Phases : ~ Ahead(p, work) => R[p] = Derived(members, failures, R, p)

Reached(R, b, work, phases, pending) ==
    /\ R[b].phases = (phases \cap SUBSET b) \cup UNION {R[w].phases : w \in {v \in work : v \subseteq b}}
    /\ \A i \in b : /\ \A w \in work : i \in w => R[b].pending[i] = R[w].pending[i]
                    /\ i \notin UNION work => R[b].pending[i] = pending[i]

DoneButFor(members, failures, work, phases, pending) ==
    \A R : Follows(members, failures, R, work) =>
        \A b \in Range(plan.batches) : Reached(R, b, work, phases, pending)

\* The batches to visit are parts of planned ones, and apart.
Within(work) ==
    /\ work \subseteq Phases /\ Range(plan.batches) \subseteq Phases
    /\ \A v, w \in work : v = w \/ v \cap w = {}
    /\ \A b \in Range(plan.batches), w \in work : w \subseteq b \/ w \cap b = {}

\* A batch is settled by smaller ones and by what the document has of it now.
SettledBy(members, failures, batch, new, phases, pending) ==
    /\ new \subseteq Phases /\ \A v \in new : v \subseteq batch /\ v # batch
    /\ phases \subseteq {batch}
    /\ \A R : Local(R) /\ R[batch] = Derived(members, failures, R, batch) =>
          /\ R[batch].phases = phases \cup UNION {R[v].phases : v \in new}
          /\ \A i \in batch : /\ \A v \in new : i \in v => R[batch].pending[i] = R[v].pending[i]
                              /\ i \notin UNION new => R[batch].pending[i] = pending[i]

\* The ledger says something new of one of the batches to visit, which settles it.
Settles(members, failures, members2, failures2, batch, others, new, phases, pending, phases2, pending2) ==
    /\ Within({batch} \cup others) /\ batch \notin others
    /\ DoneButFor(members, failures, {batch} \cup others, phases, pending)
    /\ \A p \in Phases : p # batch => members2[p] = members[p] /\ failures2[p] = failures[p]
    /\ SettledBy(members2, failures2, batch, new, phases2, pending2)
    /\ \A i \in Inputs : i \notin batch => pending2[i] = pending[i]

LEMMA SettlingGoesOn ==
  ASSUME NEW members, NEW failures, NEW members2, NEW failures2, NEW batch, NEW others, NEW new,
         NEW phases, NEW pending, NEW phases2, NEW pending2,
         Settles(members, failures, members2, failures2, batch, others, new, phases, pending, phases2, pending2)
  PROVE  DoneButFor(members2, failures2, new \cup others, phases \cup phases2, pending2)
<1>s. /\ Within({batch} \cup others) /\ batch \notin others
      /\ DoneButFor(members, failures, {batch} \cup others, phases, pending)
      /\ \A p \in Phases : p # batch => members2[p] = members[p] /\ failures2[p] = failures[p]
      /\ SettledBy(members2, failures2, batch, new, phases2, pending2)
      /\ \A i \in Inputs : i \notin batch => pending2[i] = pending[i]
  BY DEF Settles
<1> USE <1>s
<1> DEFINE old == {batch} \cup others
           now == new \cup others
<1> SUFFICES ASSUME NEW R, Follows(members2, failures2, R, now), NEW b \in Range(plan.batches)
             PROVE  Reached(R, b, now, phases \cup phases2, pending2)
  BY DEF DoneButFor
<1>a. /\ b \in Phases /\ batch \in Phases /\ batch # {} /\ others \subseteq Phases
      /\ \A w \in others : w \cap batch = {} /\ w # {}
      /\ \A w \in old : w \subseteq b \/ w \cap b = {}
  BY DEF Within, Phases
<1>b. /\ new \subseteq Phases /\ \A v \in new : v \subseteq batch /\ v # batch /\ v # {}
      /\ phases2 \subseteq {batch}
  BY DEF SettledBy, Phases
<1>1. Follows(members, failures, R, old)
  <2>1. ASSUME NEW p \in Phases, ~ Ahead(p, old) PROVE R[p] = Derived(members, failures, R, p)
    <3>1. p # batch /\ ~ Ahead(p, now)
      BY <2>1, <1>b DEF Ahead
    <3>2. R[p] = Derived(members2, failures2, R, p)
      BY <3>1 DEF Follows
    <3>3. QED
      BY <3>1, <3>2 DEF Derived
  <2>2. QED
    BY <2>1 DEF Follows
<1>2. Reached(R, b, old, phases, pending)
  BY <1>1 DEF DoneButFor
<1>3. R[batch] = Derived(members2, failures2, R, batch) /\ Local(R)
  <2>1. ~ Ahead(batch, now)
    <3>1. \A w \in others : ~ (batch \subseteq w)
      BY <1>a
    <3>2. \A v \in new : ~ (batch \subseteq v)
      BY <1>b
    <3>3. QED
      BY <3>1, <3>2 DEF Ahead
  <2>2. QED
    BY <1>a, <2>1 DEF Follows
<1>4. /\ R[batch].phases = phases2 \cup UNION {R[v].phases : v \in new}
      /\ \A i \in batch : /\ \A v \in new : i \in v => R[batch].pending[i] = R[v].pending[i]
                          /\ i \notin UNION new => R[batch].pending[i] = pending2[i]
  BY <1>3 DEF SettledBy
<1>5. R[b].phases = ((phases \cup phases2) \cap SUBSET b) \cup UNION {R[w].phases : w \in {v \in now : v \subseteq b}}
  <2> DEFINE L(work) == UNION {R[w].phases : w \in {v \in work : v \subseteq b}}
  <2>1. R[b].phases = (phases \cap SUBSET b) \cup L(old)
    BY <1>2 DEF Reached
  <2>2. CASE batch \subseteq b
    <3>1. {v \in old : v \subseteq b} = {batch} \cup {v \in others : v \subseteq b}
      BY <2>2
    <3>2. {v \in now : v \subseteq b} = new \cup {v \in others : v \subseteq b}
      BY <2>2, <1>b
    <3>3. phases2 \cap SUBSET b = phases2
      BY <2>2, <1>b
    <3>4. L(old) = R[batch].phases \cup L(others) /\ L(now) = (UNION {R[v].phases : v \in new}) \cup L(others)
      BY <3>1, <3>2
    <3>5. QED
      BY <2>1, <3>3, <3>4, <1>4
  <2>3. CASE batch \cap b = {}
    <3>1. ~(batch \subseteq b) /\ \A v \in new : ~(v \subseteq b)
      BY <2>3, <1>a, <1>b
    <3>2. /\ {v \in old : v \subseteq b} = {v \in others : v \subseteq b}
          /\ {v \in now : v \subseteq b} = {v \in others : v \subseteq b}
      BY <3>1
    <3>3. phases2 \cap SUBSET b = {}
      BY <2>3, <1>a, <1>b
    <3>4. L(old) = L(others) /\ L(now) = L(others)
      BY <3>2
    <3>5. QED
      BY <2>1, <3>3, <3>4
  <2>4. QED
    BY <2>2, <2>3, <1>a
<1>6. ASSUME NEW i \in b
      PROVE  /\ \A w \in now : i \in w => R[b].pending[i] = R[w].pending[i]
             /\ i \notin UNION now => R[b].pending[i] = pending2[i]
  <2>1. /\ \A w \in old : i \in w => R[b].pending[i] = R[w].pending[i]
        /\ i \notin UNION old => R[b].pending[i] = pending[i]
    BY <1>2 DEF Reached
  <2>2. CASE i \in batch
    BY <2>1, <2>2, <1>a, <1>4
  <2>3. CASE i \notin batch
    <3>1. i \notin UNION new
      BY <2>3, <1>b
    <3>2. i \in Inputs
      BY <1>a DEF Phases
    <3>3. QED
      BY <2>1, <2>3, <3>1, <3>2
  <2>4. QED
    BY <2>2, <2>3
<1>7. QED
  BY <1>5, <1>6 DEF Reached

---------------------------------------------------------------------------
(* The ways to settle a batch.                                              *)

LEMMA AdmittedSettles ==
  ASSUME NEW members, NEW failures, NEW batch \in Phases, members[batch] \in (SUBSET batch) \ {{}},
         NEW pending, \A i \in batch : pending[i] = "none"
  PROVE  SettledBy(members, failures, batch, IF members[batch] = batch THEN {} ELSE {batch \ members[batch]},
                   {batch}, pending)
<1> DEFINE rest == batch \ members[batch]
           new == IF members[batch] = batch THEN {} ELSE {rest}
<1>1. new \subseteq Phases /\ \A v \in new : v \subseteq batch /\ v # batch
  BY DEF Phases
<1>2. ASSUME NEW R, Local(R), R[batch] = Derived(members, failures, R, batch)
      PROVE  /\ R[batch].phases = {batch} \cup UNION {R[v].phases : v \in new}
             /\ \A i \in batch : /\ \A v \in new : i \in v => R[batch].pending[i] = R[v].pending[i]
                                 /\ i \notin UNION new => R[batch].pending[i] = pending[i]
  <2>1. CASE members[batch] = batch
    <3>1. R[batch] = Here(batch)
      BY <1>2, <2>1 DEF Derived
    <3>2. new = {} /\ batch \subseteq Inputs
      BY <2>1 DEF Phases
    <3>3. \A i \in batch : R[batch].pending[i] = "none"
      BY <3>1, <3>2 DEF Here, Decided
    <3>4. R[batch].phases = {batch}
      BY <3>1 DEF Here
    <3>5. QED
      BY <3>2, <3>3, <3>4
  <2>2. CASE members[batch] # batch
    <3> DEFINE x == Here(batch)
               y == R[rest]
    <3>1. R[batch] = Both(x, y)
      BY <1>2, <2>2 DEF Derived
    <3>2. rest \in Phases /\ batch \subseteq Inputs /\ new = {rest}
      BY <2>2 DEF Phases
    <3>3. x.phases = {batch} /\ \A i \in batch : x.pending[i] = "none"
      BY <3>2 DEF Here, Decided
    <3>4. \A i \in batch \ rest : y.pending[i] = "none"
      BY <1>2, <3>2 DEF Local
    <3> HIDE DEF x, y
    <3>5. R[batch].phases = {batch} \cup y.phases /\ \A i \in batch : R[batch].pending[i] = y.pending[i]
      BY <3>1, <3>2, <3>3 DEF Both
    <3>6. UNION {R[v].phases : v \in new} = y.phases
      BY <3>2 DEF y
    <3>7. QED
      BY <3>2, <3>4, <3>5, <3>6 DEF y
  <2>3. QED
    BY <2>1, <2>2
<1>3. QED
  BY <1>1, <1>2 DEF SettledBy

LEMMA HalvesSettle ==
  ASSUME NEW members, NEW failures, NEW batch \in Phases, members[batch] = {},
         failures[batch] # "limited", Cardinality(batch) > 1, NEW pending
  PROVE  SettledBy(members, failures, batch, Range(Halves(batch)), {}, pending)
<1> DEFINE h == Halves(batch)[1]
           k == Halves(batch)[2]
<1>1. /\ h \in Phases /\ k \in Phases /\ h \cup k = batch /\ h \cap k = {} /\ batch # {}
      /\ Range(Halves(batch)) = {h, k}
  <2>1. /\ Halves(batch) \in Seq(Phases) /\ Len(Halves(batch)) = 2
        /\ h \cup k = batch /\ h \cap k = {}
    BY HalvesSplit
  <2>2. DOMAIN Halves(batch) = {1, 2}
    BY <2>1
  <2>3. QED
    BY <2>1, <2>2 DEF Range, Phases
<1>2. ASSUME NEW R, Local(R), R[batch] = Derived(members, failures, R, batch)
      PROVE  /\ R[batch].phases = UNION {R[v].phases : v \in {h, k}}
             /\ \A i \in batch : \A v \in {h, k} : i \in v => R[batch].pending[i] = R[v].pending[i]
  <2> DEFINE x == R[h]
             y == R[k]
  <2>1. R[batch] = Both(x, y)
    <3>1. members[batch] # batch /\ Cardinality(batch) # 1
      BY <1>1, PhaseIsFinite
    <3>2. QED
      BY <1>2, <3>1 DEF Derived
  <2>2. /\ \A i \in h : y.pending[i] = "none"
        /\ \A i \in k : x.pending[i] = "none"
        /\ batch \subseteq Inputs
    BY <1>1, <1>2 DEF Local, Phases
  <2> HIDE DEF x, y
  <2>3. /\ R[batch].phases = x.phases \cup y.phases
        /\ \A i \in h : R[batch].pending[i] = x.pending[i]
        /\ \A i \in k : R[batch].pending[i] = y.pending[i]
    <3>1. R[batch].phases = x.phases \cup y.phases
      BY <2>1 DEF Both
    <3>2. \A i \in Inputs : R[batch].pending[i] = IF x.pending[i] # "none" THEN x.pending[i] ELSE y.pending[i]
      BY <2>1 DEF Both
    <3>3. QED
      BY <1>1, <2>2, <3>1, <3>2
  <2>4. UNION {R[v].phases : v \in {h, k}} = x.phases \cup y.phases
    BY DEF x, y
  <2>5. QED
    BY <2>3, <2>4 DEF x, y
<1> HIDE DEF h, k
<1>3. {h, k} \subseteq Phases /\ \A v \in {h, k} : v \subseteq batch /\ v # batch
  BY <1>1 DEF Phases
<1>4. UNION {h, k} = batch
  BY <1>1
<1>5. SettledBy(members, failures, batch, {h, k}, {}, pending)
  BY <1>2, <1>3, <1>4 DEF SettledBy
<1>6. QED
  BY <1>1, <1>5

LEMMA GivingUpSettles ==
  ASSUME NEW members, NEW failures, NEW batch \in Phases, members[batch] = {},
         failures[batch] = "limited" \/ Cardinality(batch) = 1,
         NEW pending, \A i \in batch : pending[i] = failures[batch]
  PROVE  SettledBy(members, failures, batch, {}, {}, pending)
<1>1. ASSUME NEW R, R[batch] = Derived(members, failures, R, batch)
      PROVE  R[batch].phases = {} /\ \A i \in batch : R[batch].pending[i] = pending[i]
  <2>1. batch # {} /\ batch \subseteq Inputs
    BY DEF Phases
  <2>2. R[batch] = AllOf(batch, failures[batch])
    BY <1>1, <2>1 DEF Derived
  <2>3. QED
    BY <2>1, <2>2 DEF AllOf
<1>2. QED
  BY <1>1 DEF SettledBy

---------------------------------------------------------------------------
(* The invariant.                                                           *)
Nested(work) == \A b \in Range(plan.batches), w \in work : w \subseteq b \/ w \cap b = {}

ReplayInv ==
    /\ failed = [p \in Phases |-> failed[p]]
    /\ ses.pc = "visit" /\ ~Staged =>
          /\ Nested(Range(ses.work))
          /\ DoneButFor(accepted, failed, Range(ses.work), ses.phases, ses.pending)
    /\ ses.pc \in {"retire", "output", "receipt", "manifest"} =>
          DoneButFor(accepted, failed, {}, ses.phases, ses.pending)
    /\ Staged => DoneButFor(accepted, failed, {}, staged.manifest.phases, staged.manifest.pending)

LEMMA InitReplayInv == Init => ReplayInv
  BY DEF Init, ReplayInv, Idle, Staged, NothingStaged

\* What the head of the work and the others are.
LEMMA WorkIsHeadAndTail ==
  ASSUME NEW work, WorkApart(work), work # <<>>
  PROVE  /\ Head(work) \in Phases /\ Range(work) = {Head(work)} \cup Range(Tail(work))
         /\ Head(work) \notin Range(Tail(work)) /\ Tail(work) \in Seq(Phases)
<1>1. /\ work \in Seq(Phases) /\ Len(work) \in Nat \ {0} /\ Head(work) = work[1] /\ Head(work) \in Phases
      /\ Tail(work) \in Seq(Phases) /\ DOMAIN Tail(work) = 1 .. Len(work) - 1
      /\ \A n \in 1 .. Len(work) - 1 : Tail(work)[n] = work[n + 1]
  BY DEF WorkApart
<1>2. ASSUME NEW n \in 1 .. Len(work) - 1 PROVE Tail(work)[n] # Head(work)
  <2>1. n + 1 \in DOMAIN work /\ 1 \in DOMAIN work /\ n + 1 # 1
    BY <1>1
  <2>2. work[n + 1] \cap work[1] = {} /\ work[1] # {}
    BY <1>1, <2>1 DEF WorkApart, Phases
  <2>3. QED
    BY <1>1, <2>2
<1>3. ASSUME NEW v \in Range(work) PROVE v \in {Head(work)} \cup Range(Tail(work))
  <2>1. PICK n \in 1 .. Len(work) : v = work[n]
    BY <1>1 DEF Range
  <2>2. CASE n = 1
    BY <1>1, <2>1, <2>2
  <2>3. CASE n # 1
    <3>1. n - 1 \in 1 .. Len(work) - 1 /\ Tail(work)[n - 1] = v
      BY <1>1, <2>1, <2>3
    <3>2. QED
      BY <1>1, <3>1 DEF Range
  <2>4. QED
    BY <2>2, <2>3
<1>4. ASSUME NEW v \in Range(Tail(work)) PROVE v \in Range(work)
  <2>1. PICK n \in 1 .. Len(work) - 1 : v = Tail(work)[n]
    BY <1>1 DEF Range
  <2>2. n + 1 \in 1 .. Len(work) /\ work[n + 1] = v
    BY <1>1, <2>1
  <2>3. QED
    BY <1>1, <2>2 DEF Range
<1>5. Head(work) \in Range(work)
  BY <1>1 DEF Range
<1>6. QED
  BY <1>1, <1>2, <1>3, <1>4, <1>5 DEF Range

LEMMA RangeOfBoth ==
  ASSUME NEW v \in Seq(Phases), NEW w \in Seq(Phases)
  PROVE  Range(v \o w) = Range(v) \cup Range(w)
<1>1. /\ DOMAIN (v \o w) = 1 .. Len(v) + Len(w) /\ Len(v) \in Nat /\ Len(w) \in Nat
      /\ DOMAIN v = 1 .. Len(v) /\ DOMAIN w = 1 .. Len(w)
      /\ \A n \in 1 .. Len(v) + Len(w) : (v \o w)[n] = IF n <= Len(v) THEN v[n] ELSE w[n - Len(v)]
  OBVIOUS
<1>2. ASSUME NEW x \in Range(v \o w) PROVE x \in Range(v) \cup Range(w)
  <2>1. PICK n \in 1 .. Len(v) + Len(w) : x = (v \o w)[n]
    BY <1>1 DEF Range
  <2>2. CASE n <= Len(v)
    BY <1>1, <2>1, <2>2 DEF Range
  <2>3. CASE n > Len(v)
    <3>1. n - Len(v) \in 1 .. Len(w) /\ x = w[n - Len(v)]
      BY <1>1, <2>1, <2>3
    <3>2. QED
      BY <1>1, <3>1 DEF Range
  <2>4. QED
    BY <1>1, <2>2, <2>3
<1>3. ASSUME NEW x \in Range(v) PROVE x \in Range(v \o w)
  <2>1. PICK n \in 1 .. Len(v) : x = v[n]
    BY <1>1, <1>3 DEF Range
  <2>2. n \in 1 .. Len(v) + Len(w) /\ (v \o w)[n] = x
    BY <1>1, <2>1
  <2>3. QED
    BY <1>1, <2>2 DEF Range
<1>4. ASSUME NEW x \in Range(w) PROVE x \in Range(v \o w)
  <2>1. PICK n \in 1 .. Len(w) : x = w[n]
    BY <1>1, <1>4 DEF Range
  <2>2. Len(v) + n \in 1 .. Len(v) + Len(w) /\ (v \o w)[Len(v) + n] = x
    BY <1>1, <2>1
  <2>3. QED
    BY <1>1, <2>2 DEF Range
<1>5. QED
  BY <1>2, <1>3, <1>4

---------------------------------------------------------------------------
(* A visit keeps the invariant.                                             *)
Replaying ==
    /\ Nested(Range(ses.work))
    /\ DoneButFor(accepted, failed, Range(ses.work), ses.phases, ses.pending)

OnlyBatch == \A p \in Phases : p # Batch => accepted'[p] = accepted[p] /\ failed'[p] = failed[p]

LEMMA VisitsArePlanned ==
  ASSUME DisposedInv, ses.pc = "visit", ses.work # <<>>, Nested(Range(ses.work))
  PROVE  /\ Batch \in Phases /\ Range(ses.work) = {Batch} \cup Range(Tail(ses.work))
         /\ Batch \notin Range(Tail(ses.work)) /\ Tail(ses.work) \in Seq(Phases)
         /\ Within(Range(ses.work))
<1>1. WorkApart(ses.work)
  BY DEF DisposedInv
<1>2. Range(plan.batches) \subseteq Phases
  BY NcaEvidenceAssumption DEF DisposedInv, Phases, Range
<1>3. Range(ses.work) \subseteq Phases /\ \A v, w \in Range(ses.work) : v = w \/ v \cap w = {}
  BY <1>1 DEF WorkApart, Range
<1>4. Within(Range(ses.work))
  BY <1>2, <1>3 DEF Within, Nested
<1>5. QED
  BY <1>1, <1>4, WorkIsHeadAndTail DEF Batch

LEMMA SettleReplays ==
  ASSUME DisposedInv, Shape, Replaying, ses.pc = "visit", ses.work # <<>>, UNCHANGED plan, OnlyBatch,
         NEW work \in Seq(Phases), NEW phases, NEW pending, Settle(work, phases, pending), DOMAIN pending \subseteq Batch,
         SettledBy(accepted', failed', Batch, Range(work), phases, ses'.pending)
  PROVE  Replaying'
<1> DEFINE others == Range(Tail(ses.work))
<1>1. /\ Batch \in Phases /\ Range(ses.work) = {Batch} \cup others /\ Batch \notin others
      /\ Tail(ses.work) \in Seq(Phases) /\ Within({Batch} \cup others)
  BY VisitsArePlanned DEF Replaying
<1>2. /\ ses'.work = work \o Tail(ses.work) /\ ses'.phases = ses.phases \cup phases
      /\ ses'.pending = [i \in Inputs |-> IF i \in DOMAIN pending THEN pending[i] ELSE ses.pending[i]]
  BY DEF Settle, Shape
<1>3. Range(ses'.work) = Range(work) \cup others
  BY <1>1, <1>2, RangeOfBoth
<1>4. \A i \in Inputs : i \notin Batch => ses'.pending[i] = ses.pending[i]
  BY <1>2
<1>5. DoneButFor(accepted, failed, {Batch} \cup others, ses.phases, ses.pending)
  BY <1>1 DEF Replaying
<1>6. \A p \in Phases : p # Batch => accepted'[p] = accepted[p] /\ failed'[p] = failed[p]
  BY DEF OnlyBatch
<1> HIDE DEF others
<1>7. DoneButFor(accepted', failed', Range(work) \cup others, ses.phases \cup phases, ses'.pending)
  <2> DEFINE m == accepted'
             f == failed'
             after == ses'.pending
             new == Range(work)
  <2>1. /\ Within({Batch} \cup others) /\ Batch \notin others
        /\ DoneButFor(accepted, failed, {Batch} \cup others, ses.phases, ses.pending)
        /\ \A p \in Phases : p # Batch => m[p] = accepted[p] /\ f[p] = failed[p]
        /\ SettledBy(m, f, Batch, new, phases, after)
        /\ \A i \in Inputs : i \notin Batch => after[i] = ses.pending[i]
    BY <1>1, <1>4, <1>5, <1>6
  <2> HIDE DEF m, f, after, new
  <2>2. DoneButFor(m, f, new \cup others, ses.phases \cup phases, after)
    <3>1. Settles(accepted, failed, m, f, Batch, others, new, ses.phases, ses.pending, phases, after)
      BY <2>1 DEF Settles
    <3>2. QED
      BY ONLY <3>1, SettlingGoesOn
  <2>3. QED
    BY <2>2 DEF m, f, after, new
<1>8. ASSUME NEW b \in Range(plan.batches), NEW w \in Range(work) \cup others
      PROVE  w \subseteq b \/ w \cap b = {}
  <2>1. CASE w \in others
    BY <1>1, <2>1 DEF Within
  <2>2. CASE w \in Range(work)
    <3>1. w \subseteq Batch
      BY <2>2 DEF SettledBy
    <3>2. Batch \subseteq b \/ Batch \cap b = {}
      BY <1>1 DEF Within
    <3>3. QED
      BY <3>1, <3>2
  <2>3. QED
    BY <2>1, <2>2
<1>9. Nested(Range(ses.work))'
  BY <1>3, <1>8 DEF Nested
<1>10. DoneButFor(accepted, failed, Range(ses.work), ses.phases, ses.pending)'
  BY <1>2, <1>3, <1>7, ZenonT(60) DEF DoneButFor
<1>11. QED
  BY <1>9, <1>10 DEF Replaying

\* What is recorded of a batch that is still to visit says nothing yet.
LEMMA RetryReplays ==
  ASSUME DisposedInv, Replaying, ses.pc = "visit", ses.work # <<>>, UNCHANGED plan, OnlyBatch,
         ses'.work = ses.work, ses'.phases = ses.phases, ses'.pending = ses.pending
  PROVE  Replaying'
<1>1. Batch \in Range(ses.work)
  BY VisitsArePlanned DEF Replaying
<1>2. ASSUME NEW R, Follows(accepted', failed', R, Range(ses.work))
      PROVE  Follows(accepted, failed, R, Range(ses.work))
  <2>1. ASSUME NEW p \in Phases, ~ Ahead(p, Range(ses.work))
        PROVE  R[p] = Derived(accepted, failed, R, p)
    <3>1. p # Batch
      BY <1>1, <2>1 DEF Ahead
    <3>2. accepted'[p] = accepted[p] /\ failed'[p] = failed[p]
      BY <3>1 DEF OnlyBatch
    <3>3. R[p] = Derived(accepted', failed', R, p)
      BY <1>2, <2>1 DEF Follows
    <3>4. QED
      BY <3>2, <3>3 DEF Derived
  <2>2. QED
    BY <1>2, <2>1 DEF Follows
<1>3. DoneButFor(accepted', failed', Range(ses.work), ses.phases, ses.pending)
  BY <1>2 DEF DoneButFor, Replaying
<1>4. QED
  BY <1>3 DEF Replaying, DoneButFor, Nested

LEMMA RangeOfOne == ASSUME NEW x PROVE Range(<<x>>) = {x}
  BY DEF Range

LEMMA AdmitReplays ==
  ASSUME DisposedInv, Shape, Replaying, ses.pc = "visit", ses.work # <<>>, UNCHANGED plan, OnlyBatch,
         NEW members \in (SUBSET Batch) \ {{}}, Admit(members), accepted'[Batch] = members
  PROVE  Replaying'
<1> DEFINE work == IF members = Batch THEN <<>> ELSE <<Batch \ members>>
           none == <<>>
           phases == {Batch}
<1>1. Batch \in Phases /\ Batch \subseteq Rest /\ Batch \in Range(ses.work)
  BY VisitsArePlanned, BatchIsWork DEF DisposedInv, Replaying
<1>2. work \in Seq(Phases) /\ Range(work) = IF members = Batch THEN {} ELSE {Batch \ members}
  <2>1. CASE members = Batch
    BY <2>1 DEF Range
  <2>2. CASE members # Batch
    <3>1. Batch \ members \in Phases
      BY <1>1, <2>2 DEF Phases
    <3>2. Range(<<Batch \ members>>) = {Batch \ members}
      BY RangeOfOne
    <3>3. work = <<Batch \ members>> /\ <<Batch \ members>> \in Seq(Phases)
      BY <2>2, <3>1
    <3> HIDE DEF work
    <3>4. QED
      BY <2>2, <3>2, <3>3
  <2>3. QED
    BY <2>1, <2>2
<1>3. Settle(work, phases, none) /\ DOMAIN none = {}
  BY DEF Admit
<1>4. \A i \in Batch : ses'.pending[i] = "none"
  <2>1. \A i \in Batch : i \in Planned /\ i \in Rest /\ ses.pending[i] = "none" /\ i \in Inputs
    BY <1>1 DEF DisposedInv, Open, Phases
  <2>2. ses'.pending = [i \in Inputs |-> IF i \in DOMAIN none THEN none[i] ELSE ses.pending[i]]
    BY <1>3 DEF Settle, Shape
  <2>3. QED
    BY <1>3, <2>1, <2>2
<1> HIDE DEF work, none, phases
<1>5. SettledBy(accepted', failed', Batch, Range(work), {Batch}, ses'.pending)
  <2> DEFINE m == accepted'
             f == failed'
             after == ses'.pending
             new == IF m[Batch] = Batch THEN {} ELSE {Batch \ m[Batch]}
  <2>1. Range(work) = new /\ m[Batch] \in (SUBSET Batch) \ {{}} /\ \A i \in Batch : after[i] = "none"
    BY <1>2, <1>4
  <2> HIDE DEF m, f, after
  <2>2. SettledBy(m, f, Batch, new, {Batch}, after)
    BY <1>1, <2>1, AdmittedSettles
  <2>3. QED
    BY <2>1, <2>2 DEF m, f, after
<1>6. QED
  BY <1>2, <1>3, <1>5, SettleReplays DEF phases

LEMMA SplitReplays ==
  ASSUME DisposedInv, Shape, Replaying, ses.pc = "visit", ses.work # <<>>, UNCHANGED plan, OnlyBatch,
         accepted'[Batch] = {}, failed'[Batch] # "limited",
         Cardinality(Batch) > 1, Settle(Halves(Batch), {}, <<>>)
  PROVE  Replaying'
<1>1. Batch \in Phases
  BY VisitsArePlanned DEF Replaying
<1>2. Halves(Batch) \in Seq(Phases)
  BY <1>1, HalvesSplit
<1>3. SettledBy(accepted', failed', Batch, Range(Halves(Batch)), {}, ses'.pending)
  BY <1>1, HalvesSettle
<1>4. QED
  BY <1>2, <1>3, NonePending, SettleReplays

LEMMA GiveUpReplays ==
  ASSUME DisposedInv, Shape, Replaying, ses.pc = "visit", ses.work # <<>>, UNCHANGED plan, OnlyBatch,
         accepted'[Batch] = {}, NEW reason, failed'[Batch] = reason, reason = "limited" \/ Cardinality(Batch) = 1,
         Settle(<<>>, {}, [i \in Batch |-> reason])
  PROVE  Replaying'
<1> DEFINE pending == [i \in Batch |-> reason]
           none == <<>>
<1>1. Batch \in Phases
  BY VisitsArePlanned DEF Replaying
<1>2. DOMAIN pending = Batch /\ \A i \in Batch : pending[i] = reason
  OBVIOUS
<1>3. Settle(none, {}, pending) /\ none \in Seq(Phases) /\ Range(none) = {}
  BY DEF Range
<1> HIDE DEF pending, none
<1>4. \A i \in Batch : ses'.pending[i] = reason
  <2>1. ses'.pending = [i \in Inputs |-> IF i \in DOMAIN pending THEN pending[i] ELSE ses.pending[i]]
    BY <1>3 DEF Settle, Shape
  <2>2. QED
    BY <1>1, <1>2, <2>1 DEF Phases
<1>5. SettledBy(accepted', failed', Batch, Range(none), {}, ses'.pending)
  BY <1>1, <1>3, <1>4, GivingUpSettles
<1>6. QED
  BY <1>2, <1>3, <1>5, SettleReplays

LEMMA FailReplays ==
  ASSUME DisposedInv, Shape, Replaying, ses.pc = "visit", ses.work # <<>>, UNCHANGED plan, OnlyBatch,
         accepted'[Batch] = {}, NEW reason \in {"failed", "empty"}, failed'[Batch] = reason, Fail(reason)
  PROVE  Replaying'
<1>1. CASE ses.tries < plan.retries
  BY <1>1, RetryReplays DEF Fail, Shape
<1>2. CASE ~(ses.tries < plan.retries) /\ Cardinality(Batch) > 1
  BY <1>2, SplitReplays DEF Fail
<1>3. CASE ~(ses.tries < plan.retries) /\ ~(Cardinality(Batch) > 1)
  <2>1. Cardinality(Batch) = 1
    BY <1>3, VisitsArePlanned, PhaseIsFinite DEF Replaying
  <2>2. Settle(<<>>, {}, [i \in Batch |-> reason])
    BY <1>3 DEF Fail
  <2>3. QED
    BY <2>1, <2>2, GiveUpReplays
<1>4. QED
  BY <1>1, <1>2, <1>3

LEMMA LimitReplays ==
  ASSUME DisposedInv, Shape, Replaying, ses.pc = "visit", ses.work # <<>>, UNCHANGED plan, OnlyBatch,
         accepted'[Batch] = {}, failed'[Batch] = "limited", Limit
  PROVE  Replaying'
<1>1. CASE ses.limited < plan.backoffs
  BY <1>1, RetryReplays DEF Limit, Shape
<1>2. CASE ~(ses.limited < plan.backoffs)
  BY <1>2, GiveUpReplays DEF Limit
<1>3. QED
  BY <1>1, <1>2

---------------------------------------------------------------------------
(* Every step keeps the invariant.                                          *)

\* While nothing is staged, the invariant is about the visit.
LEMMA ReplayVisit ==
  ASSUME ~Staged, UNCHANGED files, failed' = [p \in Phases |-> failed'[p]], ses'.pc = "visit", Replaying'
  PROVE  ReplayInv'
<1>1. ~Staged'
  BY DEF Staged, files
<1>2. QED
  BY <1>1 DEF ReplayInv, Replaying

\* Once a document is staged, an execution only visits what the ledger holds.
LEMMA ReplayStaged ==
  ASSUME ReplayInv, Staged, UNCHANGED <<plan, ledger, files>>,
         ses'.pc \notin {"retire", "output", "receipt", "manifest"}
  PROVE  ReplayInv'
<1>1. Staged' /\ staged' = staged /\ failed' = failed /\ accepted' = accepted
  BY DEF Staged, files, ledger
<1>2. QED
  BY <1>1 DEF ReplayInv, DoneButFor

\* An execution that ends, or a step elsewhere.
LEMMA ReplayElsewhere ==
  ASSUME ReplayInv, UNCHANGED plan, staged'.manifest = staged.manifest,
         failed' = [p \in Phases |-> failed'[p]], Staged => UNCHANGED ledger,
         \/ Stop
         \/ UNCHANGED <<ses, ledger>>
         \/ ses'.pc \in {"publish", "certify"}
  PROVE  ReplayInv'
<1>1. Staged' = Staged
  BY DEF Staged
<1>2. Staged' => DoneButFor(accepted, failed, {}, staged.manifest.phases, staged.manifest.pending)'
  BY <1>1 DEF ReplayInv, DoneButFor, ledger
<1>3. CASE Stop
  BY <1>2, <1>3 DEF ReplayInv, Stop, Idle
<1>4. CASE UNCHANGED <<ses, ledger>>
  BY <1>1, <1>2, <1>4 DEF ReplayInv, Nested, DoneButFor, ledger
<1>5. CASE ses'.pc \in {"publish", "certify"}
  BY <1>2, <1>5 DEF ReplayInv
<1>6. QED
  BY <1>3, <1>4, <1>5

\* Before anything is visited, all of a planned batch is still to visit.
LEMMA NothingVisited ==
  ASSUME DisposedInv
  PROVE  /\ Nested(Range(plan.batches))
         /\ DoneButFor(accepted, failed, Range(plan.batches), {}, Decided)
<1>1. /\ \A b \in Range(plan.batches) : b # {}
      /\ \A b, w \in Range(plan.batches) : w = b \/ w \cap b = {}
  BY NcaEvidenceAssumption DEF DisposedInv, Range
<1>2. Nested(Range(plan.batches))
  BY <1>1 DEF Nested
<1>3. ASSUME NEW R, NEW b \in Range(plan.batches)
      PROVE  Reached(R, b, Range(plan.batches), {}, Decided)
  <2>1. {v \in Range(plan.batches) : v \subseteq b} = {b}
    BY <1>1
  <2>2. \A i \in b : \A w \in Range(plan.batches) : i \in w => w = b
    BY <1>1
  <2>3. UNION {R[w].phases : w \in {b}} = R[b].phases
    OBVIOUS
  <2>4. \A i \in b : i \in UNION Range(plan.batches)
    OBVIOUS
  <2>5. QED
    BY <2>1, <2>2, <2>3, <2>4 DEF Reached
<1>4. QED
  BY <1>2, <1>3 DEF DoneButFor

LEMMA AskReplays ==
  ASSUME EvidenceInv, DisposedInv, ReplayInv, Ask
  PROVE  ReplayInv'
<1>1. /\ ses.pc = "visit" /\ ses.work # <<>> /\ UNCHANGED <<plan, files>> /\ accepted[Batch] = {} /\ ~Staged
      /\ Shape /\ staged' = staged
  BY AskSteps DEF Ask, Visiting, EvidenceInv, files
<1>2. Replaying /\ failed = [p \in Phases |-> failed[p]]
  BY <1>1 DEF ReplayInv, Replaying
<1>3. Batch \in Phases /\ accepted \in [Phases -> SUBSET Inputs]
  BY <1>1, BatchIsWork DEF DisposedInv
<1>4. CASE /\ \E members \in (SUBSET Batch) \ {{}} :
                 accepted' = [accepted EXCEPT ![Batch] = members] /\ Admit(members)
           /\ UNCHANGED failed
  <2>1. PICK members \in (SUBSET Batch) \ {{}} :
            accepted' = [accepted EXCEPT ![Batch] = members] /\ Admit(members)
    BY <1>4
  <2>2. accepted'[Batch] = members /\ OnlyBatch
    BY <1>3, <1>4, <2>1 DEF OnlyBatch
  <2>3. Replaying'
    BY <1>1, <1>2, <2>1, <2>2, AdmitReplays
  <2>4. ses'.pc = "visit" /\ failed' = [p \in Phases |-> failed'[p]]
    BY <1>1, <1>2, <1>4, <2>1, AdmitVisits DEF Visited
  <2>5. QED
    BY <1>1, <2>3, <2>4, ReplayVisit
<1>5. ASSUME NEW reason, RecordFailure(reason), UNCHANGED accepted
      PROVE  OnlyBatch /\ failed'[Batch] = reason /\ accepted'[Batch] = {} /\ failed' = [p \in Phases |-> failed'[p]]
  <2>1. failed' = [p \in Phases |-> IF p = Batch THEN reason ELSE failed[p]]
    BY <1>2, <1>5 DEF RecordFailure
  <2>2. QED
    BY <1>1, <1>3, <1>5, <2>1 DEF OnlyBatch
<1>6. CASE UNCHANGED accepted /\ \E reason \in {"failed", "empty"} : RecordFailure(reason) /\ Fail(reason)
  <2>1. PICK reason \in {"failed", "empty"} : RecordFailure(reason) /\ Fail(reason)
    BY <1>6
  <2>2. OnlyBatch /\ failed'[Batch] = reason /\ accepted'[Batch] = {} /\ failed' = [p \in Phases |-> failed'[p]]
    BY <1>5, <1>6, <2>1
  <2>3. Replaying'
    BY <1>1, <1>2, <2>1, <2>2, FailReplays
  <2>4. ses'.pc = "visit"
    BY <1>1, <2>1, FailVisits DEF Visited
  <2>5. QED
    BY <1>1, <2>2, <2>3, <2>4, ReplayVisit
<1>7. CASE UNCHANGED accepted /\ RecordFailure("limited") /\ Limit
  <2>1. /\ OnlyBatch /\ failed'[Batch] = "limited" /\ accepted'[Batch] = {}
        /\ failed' = [p \in Phases |-> failed'[p]]
    BY <1>5, <1>7
  <2>2. Replaying'
    BY <1>1, <1>2, <1>7, <2>1, LimitReplays
  <2>3. ses'.pc = "visit"
    BY <1>1, <1>7, LimitVisits DEF Visited
  <2>4. QED
    BY <1>1, <2>1, <2>2, <2>3, ReplayVisit
<1>8. CASE UNCHANGED accepted /\ RecordFailure("fatal") /\ Stop
  BY <1>1, <1>5, <1>8, ReplayElsewhere
<1>9. QED
  BY <1>4, <1>6, <1>7, <1>8 DEF Ask

LEMMA NextReplayInv == EvidenceInv /\ DisposedInv /\ ReplayInv /\ [Next]_vars => ReplayInv'
<1> SUFFICES ASSUME EvidenceInv, DisposedInv, ReplayInv, [Next]_vars PROVE ReplayInv'
  OBVIOUS
<1>s. Shape /\ failed = [p \in Phases |-> failed[p]]
  BY DEF EvidenceInv, ReplayInv
<1>1. CASE Launch
  <2>1. /\ ses'.pc = "visit" /\ ses'.work = plan.batches /\ ses'.phases = {} /\ ses'.pending = Decided
        /\ UNCHANGED <<plan, ledger, files>> /\ accepted' = accepted /\ failed' = failed
    BY <1>1 DEF Launch, Started, Idle, ledger
  <2>2. CASE Staged
    BY <2>1, <2>2, ReplayStaged
  <2>3. CASE ~Staged
    <3>1. Replaying'
      BY <2>1, NothingVisited DEF Replaying, Nested, DoneButFor
    <3>2. QED
      BY <1>s, <2>1, <2>3, <3>1, ReplayVisit
  <2>4. QED
    BY <2>2, <2>3
<1>2. CASE Reuse
  <2>1. /\ ses.pc = "visit" /\ ses.work # <<>> /\ UNCHANGED <<plan, ledger, files>> /\ Admit(accepted[Batch])
        /\ accepted[Batch] # {} /\ accepted' = accepted /\ failed' = failed
    BY <1>2 DEF Reuse, Visiting, ledger
  <2>2. accepted[Batch] \in (SUBSET Batch) \ {{}}
    BY <2>1, BatchIsWork DEF DisposedInv
  <2>3. ses'.pc = "visit"
    BY <1>s, <2>1, AdmitVisits DEF Visited
  <2>4. CASE Staged
    BY <2>1, <2>3, <2>4, ReplayStaged
  <2>5. CASE ~Staged
    <3>1. Replaying /\ OnlyBatch
      BY <2>1, <2>5 DEF ReplayInv, Replaying, OnlyBatch
    <3>2. Replaying'
      BY <1>s, <2>1, <2>2, <3>1, AdmitReplays
    <3>3. QED
      BY <1>s, <2>1, <2>3, <2>5, <3>2, ReplayVisit
  <2>6. QED
    BY <2>4, <2>5
<1>3. CASE Ask
  BY <1>3, AskReplays
<1>4. CASE ReplayFailure
  <2>1. Staged /\ UNCHANGED <<plan, ledger, files>>
    BY <1>4 DEF ReplayFailure, Visiting, EvidenceInv, Staging
  <2>2. ses'.pc \in {"visit", "idle"}
    BY <1>4, <1>s, FailVisits DEF ReplayFailure, Visiting, Visited, Stop, Idle
  <2>3. QED
    BY <2>1, <2>2, ReplayStaged
<1>5. CASE Evaluated
  <2>1. /\ UNCHANGED <<plan, ledger, files>> /\ ses.pc = "visit" /\ ses.work = <<>>
        /\ staged' = staged /\ accepted' = accepted /\ failed' = failed
    BY <1>5 DEF Evaluated, ledger, files
  <2>2. Stop \/ Go("publish") \/ (~Staged /\ Go("retire"))
    BY <1>5 DEF Evaluated, EvidenceInv, Staging
  <2>3. CASE Stop
    BY <1>s, <2>1, <2>3, ReplayElsewhere
  <2>4. CASE Go("publish")
    <3>1. ses'.pc = "publish"
      BY <1>s, <2>4 DEF Go, Shape
    <3>2. QED
      BY <1>s, <2>1, <3>1, ReplayElsewhere
  <2>5. CASE ~Staged /\ Go("retire")
    <3>1. Range(ses.work) = {}
      BY <2>1 DEF Range
    <3>2. DoneButFor(accepted, failed, {}, ses.phases, ses.pending)
      BY <2>1, <2>5, <3>1 DEF ReplayInv
    <3>3. ses'.pc = "retire" /\ ses'.phases = ses.phases /\ ses'.pending = ses.pending /\ ~Staged'
      BY <1>s, <2>1, <2>5 DEF Go, Shape, Staged
    <3>4. QED
      BY <1>s, <2>1, <3>2, <3>3 DEF ReplayInv, DoneButFor
  <2>6. QED
    BY <2>2, <2>3, <2>4, <2>5
<1>6. CASE Retire \/ StageOutput \/ StageReceipt
  <2>1. /\ UNCHANGED <<plan, accepted, failed>> /\ ses.pc \in {"retire", "output", "receipt"}
        /\ ses'.pc \in {"output", "receipt", "manifest"}
        /\ ses'.phases = ses.phases /\ ses'.pending = ses.pending
    BY <1>s, <1>6 DEF Retire, StageOutput, StageReceipt, Go, Shape, ledger
  <2>2. ~Staged'
    BY <1>6, <1>s DEF Retire, StageOutput, StageReceipt, NothingStaged, EvidenceInv, Staging, Staged, Shape
  <2>3. QED
    BY <1>s, <2>1, <2>2 DEF ReplayInv, DoneButFor
<1>7. CASE StageManifest
  <2>1. /\ UNCHANGED <<plan, accepted, failed>> /\ ses.pc = "manifest" /\ ses'.pc = "publish"
        /\ staged'.manifest.phases = ses.phases /\ staged'.manifest.pending = ses.pending
    BY <1>s, <1>7 DEF StageManifest, Go, Shape, ledger, Document
  <2>2. QED
    BY <1>s, <2>1 DEF ReplayInv, DoneButFor
<1>8. CASE Publish \/ Certify
  <2>1. UNCHANGED <<plan, ledger, staged>> /\ failed' = failed /\ (ses'.pc = "certify" \/ Stop)
    BY <1>s, <1>8 DEF Publish, Certify, Go, Shape, ledger
  <2>2. QED
    BY <1>s, <2>1, ReplayElsewhere
<1>9. CASE Submission \/ Command \/ CloseFromMenu \/ Die \/ UNCHANGED vars
  <2>1. UNCHANGED <<plan, ledger, staged>> /\ failed' = failed /\ (UNCHANGED ses \/ Stop)
    BY <1>9, SubmissionElsewhere DEF Command, CloseFromMenu, Die, Elsewhere, ledger, files, vars
  <2>2. QED
    BY <1>s, <2>1, ReplayElsewhere
<1>10. QED
  BY <1>1, <1>2, <1>3, <1>4, <1>5, <1>6, <1>7, <1>8, <1>9 DEF Next, Execution

\* A staged publication can be derived again from the ledger: the traversal that
\* replays it admits the phases of the document and leaves the same inputs pending.
THEOREM NcaReplayReproduces == Spec => []ReplayReproduces
<1>1. Spec => [](DisposedInv /\ ReplayInv)
  <2>1. RunInv /\ DisposedInv /\ ReplayInv /\ [Next]_vars => (DisposedInv /\ ReplayInv)'
    BY NextDisposedInv, NextReplayInv DEF RunInv
  <2>2. QED
    BY <2>1, InitDisposedInv, InitReplayInv, NcaInvariant, PTL DEF Spec
<1>2. DisposedInv /\ ReplayInv => ReplayReproduces
  <2> SUFFICES ASSUME DisposedInv, ReplayInv, Staged, NEW b \in Range(plan.batches)
               PROVE  /\ Replay[b].phases = staged.manifest.phases \cap SUBSET b
                      /\ \A i \in b : Replay[b].pending[i] = staged.manifest.pending[i]
    BY DEF ReplayReproduces
  <2>1. Admitted(accepted)
    BY DEF DisposedInv, Admitted
  <2>2. \A p \in Phases : Replay[p] = Derived(accepted, failed, Replay, p)
    BY <2>1, ReplayUnfolds
  <2>3. Local(Replay)
    BY <2>1, <2>2, ReplayIsLocal
  <2>4. Follows(accepted, failed, Replay, {})
    BY <2>2, <2>3 DEF Follows
  <2>5. Reached(Replay, b, {}, staged.manifest.phases, staged.manifest.pending)
    BY <2>4 DEF ReplayInv, DoneButFor
  <2>6. QED
    BY <2>5 DEF Reached
<1>3. QED
  BY <1>1, <1>2, PTL

---------------------------------------------------------------------------
(***************************************************************************)
(* The types, which a traversal of disposed inputs keeps.                  *)
(***************************************************************************)
Executions ==
    [pc : {"idle", "visit", "retire", "output", "receipt", "manifest", "publish", "certify"},
     resume : BOOLEAN, by : 0 .. plan.execs, work : Seq(Phases), tries : 0 .. plan.retries,
     limited : 0 .. plan.backoffs, phases : SUBSET Phases, pending : [Inputs -> Reasons]]
TypedExecution == ses \in Executions
TypedLedger == accepted \in [Phases -> SUBSET Inputs] /\ failed \in [Phases -> Reasons \cup {"fatal"}]
TypedFiles ==
    /\ staged \in [output : Documents, receipt : 0 .. plan.execs, manifest : Documents]
    /\ final \in [output : Documents, receipt : 0 .. plan.execs]
TypedRecords ==
    /\ sub \in {"idle", "submit", "record", "control", "reconcile", "close", "rewrite", "rename",
                "again", "closeAgain"}
    /\ {taskResult, runResult} \subseteq Documents
    /\ submission \in 0 .. 2 /\ control \in [open : BOOLEAN, names : 0 .. 2]
    /\ result \in {"none", "FAILED", "DONE"}
TypedBounds ==
    /\ execs \in 0 .. plan.execs /\ fatals \in 0 .. plan.fatals /\ deaths \in 0 .. plan.deaths
    /\ submits \in 0 .. plan.submits

LEMMA TypesAre ==
  TypeOK <=> plan \in Plans /\ TypedExecution /\ TypedLedger /\ TypedFiles /\ TypedRecords /\ TypedBounds
  BY DEF TypeOK, TypedExecution, Executions, TypedLedger, TypedFiles, TypedRecords, TypedBounds

LEMMA PlanTyped ==
  ASSUME plan \in Plans
  PROVE  /\ plan.batches \in Seq(Phases) /\ plan.retries \in {0, 1} /\ plan.backoffs \in Nat /\ plan.execs \in Nat
         /\ plan.fatals \in Nat /\ plan.deaths \in Nat /\ plan.submits \in Nat /\ plan.menu \in BOOLEAN
  BY NcaEvidenceAssumption DEF Phases

\* Nobody and nothing.
LEMMA NobodyTyped ==
  ASSUME plan \in Plans
  PROVE  /\ Idle \in Executions /\ None \in Documents /\ Decided \in [Inputs -> Reasons]
         /\ NothingStaged \in [output : Documents, receipt : 0 .. plan.execs, manifest : Documents]
<1>1. Decided \in [Inputs -> Reasons]
  BY DEF Decided, Reasons
<1>2. <<>> \in Seq(Phases) /\ 0 \in 0 .. plan.execs /\ 0 \in 0 .. plan.retries /\ 0 \in 0 .. plan.backoffs
  BY PlanTyped
<1>3. None \in Documents
  BY <1>1, <1>2 DEF None, Documents
<1>4. Idle \in Executions
  BY <1>1, <1>2 DEF Idle, Executions
<1>5. QED
  BY <1>1, <1>2, <1>3, <1>4 DEF NothingStaged

LEMMA InitTypeOK == Init => TypeOK
<1> SUFFICES ASSUME Init PROVE TypeOK
  OBVIOUS
<1>1. plan \in Plans
  BY DEF Init
<1>2. TypedExecution /\ TypedFiles
  BY <1>1, NobodyTyped, PlanTyped DEF Init, TypedExecution, TypedFiles
<1>3. TypedLedger
  BY DEF Init, TypedLedger, Reasons
<1>4. TypedRecords
  BY <1>1, NobodyTyped DEF Init, TypedRecords
<1>5. TypedBounds
  BY <1>1, PlanTyped DEF Init, TypedBounds
<1>6. QED
  BY <1>1, <1>2, <1>3, <1>4, <1>5, TypesAre

LEMMA SettleTyped ==
  ASSUME plan \in Plans, ses \in Executions, ses.work # <<>>,
         NEW work \in Seq(Phases), NEW phases \in SUBSET Phases, NEW pending, pending \in [DOMAIN pending -> Reasons],
         Settle(work, phases, pending)
  PROVE  ses' \in Executions
<1>1. work \o Tail(ses.work) \in Seq(Phases)
  BY DEF Executions
<1>2. [i \in Inputs |-> IF i \in DOMAIN pending THEN pending[i] ELSE ses.pending[i]] \in [Inputs -> Reasons]
  BY DEF Executions
<1>3. 0 \in 0 .. plan.retries /\ 0 \in 0 .. plan.backoffs
  BY PlanTyped
<1>4. ses' = [pc |-> ses.pc, resume |-> ses.resume, by |-> ses.by, work |-> work \o Tail(ses.work), tries |-> 0,
              limited |-> 0, phases |-> ses.phases \cup phases,
              pending |-> [i \in Inputs |-> IF i \in DOMAIN pending THEN pending[i] ELSE ses.pending[i]]]
  BY DEF Settle, Executions
<1>5. QED
  BY <1>1, <1>2, <1>3, <1>4 DEF Executions

LEMMA AdmitTyped ==
  ASSUME plan \in Plans, ses \in Executions, ses.work # <<>>, NEW members \in SUBSET Batch, Admit(members)
  PROVE  ses' \in Executions
<1> DEFINE work == IF members = Batch THEN <<>> ELSE <<Batch \ members>>
           phases == {Batch}
           none == <<>>
<1>1. Batch \in Phases
  BY DEF Executions, Batch
<1>2. work \in Seq(Phases)
  <2>1. CASE members = Batch
    BY <2>1
  <2>2. CASE members # Batch
    <3>1. Batch \ members \in Phases
      BY <1>1, <2>2 DEF Phases
    <3>2. <<Batch \ members>> \in Seq(Phases) /\ work = <<Batch \ members>>
      BY <2>2, <3>1
    <3> HIDE DEF work
    <3>3. QED
      BY <3>2
  <2>3. QED
    BY <2>1, <2>2
<1>3. Settle(work, phases, none) /\ none \in [DOMAIN none -> Reasons] /\ phases \in SUBSET Phases
  BY <1>1 DEF Admit
<1> HIDE DEF work, phases, none
<1>4. QED
  BY <1>2, <1>3, SettleTyped

LEMMA GiveUpTyped ==
  ASSUME plan \in Plans, ses \in Executions, ses.work # <<>>, NEW reason \in Reasons,
         Settle(<<>>, {}, [i \in Batch |-> reason])
  PROVE  ses' \in Executions
<1> DEFINE pending == [i \in Batch |-> reason]
           none == <<>>
<1>1. Settle(none, {}, pending) /\ pending \in [DOMAIN pending -> Reasons] /\ none \in Seq(Phases)
  OBVIOUS
<1> HIDE DEF pending, none
<1>2. QED
  BY <1>1, SettleTyped

LEMMA FailTyped ==
  ASSUME plan \in Plans, ses \in Executions, ses.work # <<>>, NEW reason \in Reasons, Fail(reason)
  PROVE  ses' \in Executions
<1>1. CASE ses.tries < plan.retries
  <2>1. ses' = [ses EXCEPT !.tries = ses.tries + 1, !.limited = 0]
    BY <1>1 DEF Fail
  <2>2. ses.tries + 1 \in 0 .. plan.retries /\ 0 \in 0 .. plan.backoffs
    BY <1>1, PlanTyped DEF Executions
  <2>3. QED
    BY <2>1, <2>2 DEF Executions
<1>2. CASE ~(ses.tries < plan.retries) /\ Cardinality(Batch) > 1
  <2>1. Halves(Batch) \in Seq(Phases)
    BY <1>2, HalvesSplit DEF Executions, Batch
  <2>2. Settle(Halves(Batch), {}, <<>>)
    BY <1>2 DEF Fail
  <2>3. QED
    BY <2>1, <2>2, NonePending, SettleTyped
<1>3. CASE ~(ses.tries < plan.retries) /\ ~(Cardinality(Batch) > 1)
  BY <1>3, GiveUpTyped DEF Fail
<1>4. QED
  BY <1>1, <1>2, <1>3

LEMMA LimitTyped ==
  ASSUME plan \in Plans, ses \in Executions, ses.work # <<>>, Limit
  PROVE  ses' \in Executions
<1>1. CASE ses.limited < plan.backoffs
  <2>1. ses' = [ses EXCEPT !.limited = ses.limited + 1] /\ ses.limited + 1 \in 0 .. plan.backoffs
    BY <1>1, PlanTyped DEF Limit, Executions
  <2>2. QED
    BY <2>1 DEF Executions
<1>2. CASE ~(ses.limited < plan.backoffs)
  BY <1>2, GiveUpTyped DEF Limit, Reasons
<1>3. QED
  BY <1>1, <1>2

\* What an execution leaves behind is a document.
LEMMA DocumentTyped == ASSUME ses \in Executions PROVE Document \in Documents
  BY DEF Executions, Document, Documents

LEMMA GoTyped ==
  ASSUME ses \in Executions,
         NEW at \in {"visit", "retire", "output", "receipt", "manifest", "publish", "certify"}, Go(at)
  PROVE  ses' \in Executions
  BY DEF Go, Executions

LEMMA ExecutionTyped ==
  ASSUME TypeOK, DisposedInv, Execution
  PROVE  /\ plan' = plan /\ ses' \in Executions /\ TypedLedger' /\ TypedBounds'
         /\ staged' \in [output : Documents, receipt : 0 .. plan.execs, manifest : Documents]
         /\ final' \in [output : Documents, receipt : 0 .. plan.execs]
         /\ sub' \in {sub, "submit"} /\ result' \in {result, "FAILED"}
         /\ UNCHANGED <<taskResult, submission, control, runResult>>
<1> USE TypesAre
<1>t. /\ plan \in Plans /\ ses \in Executions /\ TypedLedger /\ TypedBounds
      /\ staged \in [output : Documents, receipt : 0 .. plan.execs, manifest : Documents]
      /\ final \in [output : Documents, receipt : 0 .. plan.execs]
      /\ Idle \in Executions
  BY NobodyTyped DEF TypedExecution, TypedFiles
<1>1. CASE Reuse
  <2>1. accepted[Batch] \in SUBSET Batch /\ ses.work # <<>>
    BY <1>1, <1>t DEF Reuse, Visiting, DisposedInv, Executions, Batch
  <2>2. ses' \in Executions
    BY <1>1, <1>t, <2>1, AdmitTyped DEF Reuse
  <2>3. QED
    BY <1>1, <1>t, <2>2 DEF Reuse, ledger, files, records, bounds, TypedLedger, TypedBounds
<1>2. CASE Ask
  <2>1. Batch \in Phases /\ ses.work # <<>> /\ UNCHANGED <<plan, files, sub, records, execs, deaths, submits>>
    BY <1>2, <1>t DEF Ask, Visiting, Executions, Batch
  <2>2. CASE \E members \in (SUBSET Batch) \ {{}} :
                 accepted' = [accepted EXCEPT ![Batch] = members] /\ Admit(members) /\ UNCHANGED <<failed, fatals>>
    <3>1. PICK members \in (SUBSET Batch) \ {{}} :
              accepted' = [accepted EXCEPT ![Batch] = members] /\ Admit(members) /\ UNCHANGED <<failed, fatals>>
      BY <2>2
    <3>2. members \in SUBSET Inputs
      BY <2>1 DEF Phases
    <3>3. TypedLedger' /\ TypedBounds'
      BY <1>t, <2>1, <3>1, <3>2 DEF TypedLedger, TypedBounds
    <3>4. ses' \in Executions
      BY <1>t, <2>1, <3>1, AdmitTyped
    <3>5. QED
      BY <1>t, <2>1, <3>3, <3>4 DEF files, records
  <2>3. ASSUME NEW reason \in Reasons \cup {"fatal"}, RecordFailure(reason), UNCHANGED accepted PROVE TypedLedger'
    BY <1>t, <2>1, <2>3 DEF TypedLedger, RecordFailure
  <2>4. CASE \E reason \in {"failed", "empty"} : RecordFailure(reason) /\ Fail(reason) /\ UNCHANGED <<accepted, fatals>>
    <3>1. PICK reason \in {"failed", "empty"} : RecordFailure(reason) /\ Fail(reason)
      BY <2>4
    <3>2. TypedLedger' /\ TypedBounds' /\ ses' \in Executions
      BY <1>t, <2>1, <2>3, <2>4, <3>1, FailTyped DEF Reasons, TypedBounds
    <3>3. QED
      BY <1>t, <2>1, <3>2 DEF files, records
  <2>5. CASE RecordFailure("limited") /\ Limit /\ UNCHANGED <<accepted, fatals>>
    <3>1. TypedLedger' /\ TypedBounds' /\ ses' \in Executions
      BY <1>t, <2>1, <2>3, <2>5, LimitTyped DEF Reasons, TypedBounds
    <3>2. QED
      BY <1>t, <2>1, <3>1 DEF files, records
  <2>6. CASE fatals < plan.fatals /\ fatals' = fatals + 1 /\ RecordFailure("fatal") /\ Stop /\ UNCHANGED accepted
    <3>1. TypedLedger' /\ ses' \in Executions
      BY <1>t, <2>3, <2>6 DEF Stop
    <3>2. TypedBounds'
      BY <1>t, <2>1, <2>6, PlanTyped DEF TypedBounds
    <3>3. QED
      BY <1>t, <2>1, <3>1, <3>2 DEF files, records
  <2>7. QED
    BY <1>2, <2>2, <2>4, <2>5, <2>6 DEF Ask
<1>3. CASE ReplayFailure
  <2>1. ses' \in Executions
    BY <1>3, <1>t, FailTyped DEF ReplayFailure, Visiting, Stop, Reasons
  <2>2. QED
    BY <1>3, <1>t, <2>1 DEF ReplayFailure, ledger, files, records, bounds, TypedLedger, TypedBounds
<1>4. CASE Evaluated
  <2>1. ses' \in Executions /\ result' \in {result, "FAILED"}
    BY <1>4, <1>t, GoTyped DEF Evaluated, Stop
  <2>2. QED
    BY <1>4, <1>t, <2>1 DEF Evaluated, ledger, files, bounds, TypedLedger, TypedBounds
<1>5. CASE Retire
  BY <1>5, <1>t, GoTyped, NobodyTyped DEF Retire, ledger, records, bounds, TypedLedger, TypedBounds
<1>6. CASE StageOutput \/ StageReceipt \/ StageManifest
  <2>1. ses' \in Executions
    BY <1>6, <1>t, GoTyped DEF StageOutput, StageReceipt, StageManifest
  <2>2. staged' \in [output : Documents, receipt : 0 .. plan.execs, manifest : Documents]
    <3>1. ses.by \in 0 .. plan.execs /\ Document \in Documents
      BY <1>t, DocumentTyped DEF Executions
    <3>2. QED
      BY <1>6, <1>t, <3>1 DEF StageOutput, StageReceipt, StageManifest
  <2>3. QED
    BY <1>6, <1>t, <2>1, <2>2 DEF StageOutput, StageReceipt, StageManifest, ledger, records, bounds, TypedLedger,
       TypedBounds
<1>7. CASE Publish \/ Certify
  <2>1. ses' \in Executions
    BY <1>7, <1>t, GoTyped DEF Publish, Certify, Stop
  <2>2. QED
    BY <1>7, <1>t, <2>1 DEF Publish, Certify, ledger, records, bounds, TypedLedger, TypedBounds
<1>8. QED
  BY <1>1, <1>2, <1>3, <1>4, <1>5, <1>6, <1>7 DEF Execution

LEMMA NextTypeOK == TypeOK /\ DisposedInv /\ [Next]_vars => TypeOK'
<1> SUFFICES ASSUME TypeOK, DisposedInv, [Next]_vars PROVE TypeOK'
  OBVIOUS
<1>t. plan \in Plans /\ TypedExecution /\ TypedLedger /\ TypedFiles /\ TypedRecords /\ TypedBounds
  BY TypesAre
<1>p. ASSUME plan' = plan, TypedExecution', TypedLedger', TypedFiles', TypedRecords', TypedBounds' PROVE TypeOK'
  BY <1>p, <1>t DEF TypeOK, TypedExecution, Executions, TypedLedger, TypedFiles, TypedRecords, TypedBounds
<1>1. CASE Launch
  <2>1. /\ plan' = plan /\ TypedLedger' /\ TypedFiles' /\ TypedRecords'
        /\ UNCHANGED <<fatals, deaths, submits>>
    BY <1>1, <1>t DEF Launch, ledger, files, records, TypedLedger, TypedFiles, TypedRecords, Documents
  <2>2. execs' \in 0 .. plan.execs /\ (Staged \/ execs + 1 \in 0 .. plan.execs)
    BY <1>1, <1>t, PlanTyped DEF Launch, TypedBounds
  <2>3. ses' = [pc |-> "visit", resume |-> Staged, by |-> IF Staged THEN 0 ELSE execs + 1, work |-> plan.batches,
                tries |-> 0, limited |-> 0, phases |-> {}, pending |-> Decided]
    BY <1>1 DEF Launch, Started, Idle
  <2>4. ses' \in Executions
    <3>1. /\ (IF Staged THEN 0 ELSE execs + 1) \in 0 .. plan.execs /\ 0 \in 0 .. plan.retries
          /\ 0 \in 0 .. plan.backoffs /\ plan.batches \in Seq(Phases) /\ Decided \in [Inputs -> Reasons]
          /\ Staged \in BOOLEAN
      BY <1>t, <2>2, PlanTyped, NobodyTyped DEF Staged
    <3>2. QED
      BY <2>3, <3>1 DEF Executions
  <2>5. TypedExecution' /\ TypedBounds'
    BY <1>t, <2>1, <2>2, <2>4 DEF TypedExecution, TypedBounds, Executions
  <2>6. QED
    BY <1>p, <2>1, <2>5
<1>2. CASE Execution
  <2>1. /\ plan' = plan /\ ses' \in Executions /\ TypedLedger' /\ TypedBounds'
        /\ staged' \in [output : Documents, receipt : 0 .. plan.execs, manifest : Documents]
        /\ final' \in [output : Documents, receipt : 0 .. plan.execs]
        /\ sub' \in {sub, "submit"} /\ result' \in {result, "FAILED"}
        /\ UNCHANGED <<taskResult, submission, control, runResult>>
    BY <1>2, ExecutionTyped
  <2>2. TypedExecution' /\ TypedFiles'
    BY <2>1 DEF TypedExecution, Executions, TypedFiles, Documents
  <2>3. TypedRecords'
    BY <1>t, <2>1 DEF TypedRecords, Documents
  <2>4. QED
    BY <1>p, <2>1, <2>2, <2>3
<1>3. CASE Submission \/ Command \/ CloseFromMenu \/ Die \/ UNCHANGED vars
  <2>1. UNCHANGED <<plan, ledger, files>> /\ (UNCHANGED ses \/ ses' = Idle)
    BY <1>3, SubmissionElsewhere DEF Command, CloseFromMenu, Die, Elsewhere, Stop, vars
  <2>2. TypedExecution'
    BY <1>t, <2>1, NobodyTyped DEF TypedExecution, Executions
  <2>3. TypedLedger' /\ TypedFiles'
    BY <1>t, <2>1 DEF TypedLedger, TypedFiles, ledger, files, Documents
  <2>4. TypedRecords'
    <3>1. CASE Submission
      <4>1. final.output \in Documents /\ Documents' = Documents
        BY <1>t, <2>1 DEF TypedFiles, Documents
      <4>2. CASE Submit
        BY <1>t, <4>1, <4>2 DEF Submit, TypedRecords
      <4>3. CASE Record \/ CloseControl \/ Rewrite \/ Rename
        <5>1. control' \in [open : BOOLEAN, names : 0 .. 2]
          <6>1. control \in [open : BOOLEAN, names : 0 .. 2]
            BY <1>t DEF TypedRecords
          <6>2. \/ control' = control
                \/ control' = [open |-> FALSE, names |-> 1]
                \/ control' = [control EXCEPT !.names = 2]
            BY <4>3 DEF Record, CloseControl, Rewrite, Rename
          <6>3. [open |-> FALSE, names |-> 1] \in [open : BOOLEAN, names : 0 .. 2]
            OBVIOUS
          <6>4. [control EXCEPT !.names = 2] \in [open : BOOLEAN, names : 0 .. 2]
            BY <6>1
          <6>5. QED
            BY <6>1, <6>2, <6>3, <6>4, Zenon
        <5>2. /\ submission' \in 0 .. 2 /\ UNCHANGED <<taskResult, runResult, result>>
              /\ sub' \in {"control", "reconcile", "rename", "again"}
          BY <1>t, <4>3 DEF Record, CloseControl, Rewrite, Rename, TypedRecords
        <5>3. QED
          BY <1>t, <4>1, <5>1, <5>2 DEF TypedRecords
      <4>4. CASE Reconcile("reconcile", "close") \/ CloseRun("close", "rewrite")
        BY <1>t, <4>1, <4>4 DEF Reconcile, CloseRun, TypedRecords
      <4>5. CASE Reconcile("again", "closeAgain") \/ CloseRun("closeAgain", "idle")
        BY <1>t, <4>1, <4>5 DEF Reconcile, CloseRun, TypedRecords
      <4>6. QED
        BY <3>1, <4>2, <4>3, <4>4, <4>5 DEF Submission
    <3>2. CASE Command \/ CloseFromMenu \/ Die \/ UNCHANGED vars
      BY <1>t, <2>1, <3>2 DEF TypedRecords, Command, CloseFromMenu, Die, vars, records, Documents
    <3>3. QED
      BY <1>3, <3>1, <3>2
  <2>5. TypedBounds'
    <3>1. CASE Submission \/ CloseFromMenu \/ UNCHANGED vars
      BY <1>t, <2>1, <3>1 DEF TypedBounds, Submission, Submit, Record, CloseControl, Rewrite, Rename, Reconcile, CloseRun,
         CloseFromMenu, Elsewhere, bounds, vars
    <3>2. CASE Command \/ Die
      BY <1>t, <2>1, <3>2, PlanTyped, SMTT(60) DEF TypedBounds, Command, Die
    <3>3. QED
      BY <1>3, <3>1, <3>2
  <2>6. QED
    BY <1>p, <2>1, <2>2, <2>3, <2>4, <2>5
<1>4. QED
  BY <1>1, <1>2, <1>3 DEF Next

\* The variables keep their types: no file, record or counter is ever anything else.
THEOREM NcaTypeCorrect == Spec => []TypeOK
<1>1. RunInv /\ DisposedInv /\ TypeOK /\ [Next]_vars => (DisposedInv /\ TypeOK)'
  BY NextDisposedInv, NextTypeOK DEF RunInv
<1>2. QED
  BY <1>1, InitDisposedInv, InitTypeOK, NcaInvariant, PTL DEF Spec

---------------------------------------------------------------------------
(***************************************************************************)
(* The lock.                                                               *)
(***************************************************************************)

\* Every writer of the path uses the plain lock or the guarded NCA lock.
NoBreakStale == \A p \in Proc : Kind[p] \in {"plain", "nca"}

Owns(p) == pc[p] \in {"made", "held", "release_unlink", "release_rmdir"}
Breaks(p) == pc[p] \in {"break_unlink", "break_rmdir"}

\* One process at a time owns the directory or is emptying an abandoned one.
OneInside ==
  \A p, q \in Proc : (Owns(p) \/ Breaks(p)) /\ (Owns(q) \/ Breaks(q)) => p = q

OwnerState ==
  \A p \in Proc :
    /\ Owns(p) => dir /\ maker = p
    /\ pc[p] \in {"held", "release_unlink"} => receipt = p
    /\ pc[p] \in {"made", "release_rmdir"} => receipt = NoProc

BreakerState ==
  \A p \in Proc :
    /\ Breaks(p) => dir /\ Kind[p] = "nca"
    /\ pc[p] = "break_unlink" => receipt \in Proc /\ ProvablyDead(p, receipt)
    /\ pc[p] = "break_rmdir" => receipt = NoProc

\* A receipt names the maker of the directory, who holds the lock or died.
ReceiptState ==
  /\ receipt # NoProc =>
       dir /\ maker = receipt /\ pc[receipt] \in {"held", "release_unlink", "dead"}
  /\ dir <=> maker # NoProc

GuardState ==
  \A p \in Proc : Kind[p] = "nca" /\ pc[p] \notin {"idle", "dead"} => guard = p

LockInv ==
  LockTypeOK /\ OneInside /\ OwnerState /\ BreakerState /\ ReceiptState /\ GuardState

---------------------------------------------------------------------------
(* LockInv is inductive.  Each action gets a lemma of its own because the    *)
(* five parts of LockInv are disturbed by nearly all of them.                *)

USE KindAssumption, HostAssumption, CrashAssumption, NoProcAssumption DEF NoBreakStale

LEMMA InitLockInv == LockInit => LockInv
  BY DEF LockInit, LockInv, LockTypeOK, Control, OneInside, OwnerState, BreakerState,
         ReceiptState, GuardState, Owns, Breaks, ProvablyDead

\* Entering acquire(): only the guard and the control state move.
LEMMA StartStep ==
  ASSUME NoBreakStale, LockInv, NEW p \in Proc, Start(p)
  PROVE  LockInv'
  BY DEF Start, GoTo, LockInv, LockTypeOK, Control, OneInside, OwnerState,
         BreakerState, ReceiptState, GuardState, Owns, Breaks, ProvablyDead

LEMMA MkdirStep ==
  ASSUME NoBreakStale, LockInv, NEW p \in Proc, Mkdir(p)
  PROVE  LockInv'
  <1> USE DEF Mkdir, GoTo, LockInv, LockTypeOK, Control
  <1>1. LockTypeOK'
    OBVIOUS
  <1>2. OneInside'
    BY DEF OneInside, OwnerState, BreakerState, ReceiptState, GuardState, Owns, Breaks, ProvablyDead
  <1>3. OwnerState'
    BY DEF OneInside, OwnerState, BreakerState, ReceiptState, Owns, Breaks
  <1>4. BreakerState'
    BY DEF OneInside, OwnerState, BreakerState, ReceiptState, Owns, Breaks, ProvablyDead
  <1>5. ReceiptState'
    BY DEF OwnerState, BreakerState, ReceiptState, Owns, Breaks, ProvablyDead
  <1>6. GuardState'
    BY DEF GuardState
  <1> QED BY <1>1, <1>2, <1>3, <1>4, <1>5, <1>6

\* Only a receipt of a dead process lets a guarded process start breaking.
LEMMA InspectStep ==
  ASSUME NoBreakStale, LockInv, NEW p \in Proc, Inspect(p)
  PROVE  LockInv'
  <1> USE DEF Inspect, MayBreak, NcaStale, GoTo, Leave, LockInv, LockTypeOK, Control
  <1>1. LockTypeOK'
    OBVIOUS
  <1>2. OneInside'
    BY DEF OneInside, OwnerState, BreakerState, ReceiptState, GuardState, Owns, Breaks, ProvablyDead
  <1>3. OwnerState'
    BY DEF OneInside, OwnerState, BreakerState, ReceiptState, Owns, Breaks
  <1>4. BreakerState'
    BY DEF OneInside, OwnerState, BreakerState, ReceiptState, Owns, Breaks, ProvablyDead
  <1>5. ReceiptState'
    BY DEF OwnerState, BreakerState, ReceiptState, Owns, Breaks, ProvablyDead
  <1>6. GuardState'
    BY DEF GuardState
  <1> QED BY <1>1, <1>2, <1>3, <1>4, <1>5, <1>6

LEMMA BreakUnlinkStep ==
  ASSUME NoBreakStale, LockInv, NEW p \in Proc, BreakUnlink(p)
  PROVE  LockInv'
  <1> USE DEF BreakUnlink, GoTo, Leave, LockInv, LockTypeOK, Control
  <1>1. LockTypeOK'
    OBVIOUS
  <1>2. OneInside'
    BY DEF OneInside, OwnerState, BreakerState, ReceiptState, GuardState, Owns, Breaks, ProvablyDead
  <1>3. OwnerState'
    BY DEF OneInside, OwnerState, BreakerState, ReceiptState, Owns, Breaks
  <1>4. BreakerState'
    BY DEF OneInside, OwnerState, BreakerState, ReceiptState, Owns, Breaks, ProvablyDead
  <1>5. ReceiptState'
    BY DEF OwnerState, BreakerState, ReceiptState, Owns, Breaks, ProvablyDead
  <1>6. GuardState'
    BY DEF GuardState
  <1> QED BY <1>1, <1>2, <1>3, <1>4, <1>5, <1>6

LEMMA BreakRmdirStep ==
  ASSUME NoBreakStale, LockInv, NEW p \in Proc, BreakRmdir(p)
  PROVE  LockInv'
  <1> USE DEF BreakRmdir, GoTo, Leave, LockInv, LockTypeOK, Control
  <1>1. LockTypeOK'
    OBVIOUS
  <1>2. OneInside'
    BY DEF OneInside, OwnerState, BreakerState, ReceiptState, GuardState, Owns, Breaks, ProvablyDead
  <1>3. OwnerState'
    BY DEF OneInside, OwnerState, BreakerState, ReceiptState, Owns, Breaks
  <1>4. BreakerState'
    BY DEF OneInside, OwnerState, BreakerState, ReceiptState, Owns, Breaks, ProvablyDead
  <1>5. ReceiptState'
    BY DEF OwnerState, BreakerState, ReceiptState, Owns, Breaks, ProvablyDead
  <1>6. GuardState'
    BY DEF GuardState
  <1> QED BY <1>1, <1>2, <1>3, <1>4, <1>5, <1>6

LEMMA RemakeStep ==
  ASSUME NoBreakStale, LockInv, NEW p \in Proc, Remake(p)
  PROVE  LockInv'
  <1> USE DEF Remake, GoTo, Leave, LockInv, LockTypeOK, Control
  <1>1. LockTypeOK'
    OBVIOUS
  <1>2. OneInside'
    BY DEF OneInside, OwnerState, BreakerState, ReceiptState, GuardState, Owns, Breaks, ProvablyDead
  <1>3. OwnerState'
    BY DEF OneInside, OwnerState, BreakerState, ReceiptState, Owns, Breaks
  <1>4. BreakerState'
    BY DEF OneInside, OwnerState, BreakerState, ReceiptState, Owns, Breaks, ProvablyDead
  <1>5. ReceiptState'
    BY DEF OwnerState, BreakerState, ReceiptState, Owns, Breaks, ProvablyDead
  <1>6. GuardState'
    BY DEF GuardState
  <1> QED BY <1>1, <1>2, <1>3, <1>4, <1>5, <1>6

LEMMA WriteReceiptStep ==
  ASSUME NoBreakStale, LockInv, NEW p \in Proc, WriteReceipt(p)
  PROVE  LockInv'
  <1> USE DEF WriteReceipt, GoTo, LockInv, LockTypeOK, Control
  <1>1. LockTypeOK'
    OBVIOUS
  <1>2. OneInside'
    BY DEF OneInside, OwnerState, BreakerState, ReceiptState, GuardState, Owns, Breaks, ProvablyDead
  <1>3. OwnerState'
    BY DEF OneInside, OwnerState, BreakerState, ReceiptState, Owns, Breaks
  <1>4. BreakerState'
    BY DEF OneInside, OwnerState, BreakerState, ReceiptState, Owns, Breaks, ProvablyDead
  <1>5. ReceiptState'
    BY DEF OwnerState, BreakerState, ReceiptState, Owns, Breaks, ProvablyDead
  <1>6. GuardState'
    BY DEF GuardState
  <1> QED BY <1>1, <1>2, <1>3, <1>4, <1>5, <1>6

LEMMA ReleaseStep ==
  ASSUME NoBreakStale, LockInv, NEW p \in Proc, Release(p)
  PROVE  LockInv'
  <1> USE DEF Release, GoTo, Leave, LockInv, LockTypeOK, Control
  <1>1. LockTypeOK'
    OBVIOUS
  <1>2. OneInside'
    BY DEF OneInside, OwnerState, BreakerState, ReceiptState, GuardState, Owns, Breaks, ProvablyDead
  <1>3. OwnerState'
    BY DEF OneInside, OwnerState, BreakerState, ReceiptState, Owns, Breaks
  <1>4. BreakerState'
    BY DEF OneInside, OwnerState, BreakerState, ReceiptState, Owns, Breaks, ProvablyDead
  <1>5. ReceiptState'
    BY DEF OwnerState, BreakerState, ReceiptState, Owns, Breaks, ProvablyDead
  <1>6. GuardState'
    BY DEF GuardState
  <1> QED BY <1>1, <1>2, <1>3, <1>4, <1>5, <1>6

LEMMA ReleaseUnlinkStep ==
  ASSUME NoBreakStale, LockInv, NEW p \in Proc, ReleaseUnlink(p)
  PROVE  LockInv'
  <1> USE DEF ReleaseUnlink, GoTo, Leave, LockInv, LockTypeOK, Control
  <1>1. LockTypeOK'
    OBVIOUS
  <1>2. OneInside'
    BY DEF OneInside, OwnerState, BreakerState, ReceiptState, GuardState, Owns, Breaks, ProvablyDead
  <1>3. OwnerState'
    BY DEF OneInside, OwnerState, BreakerState, ReceiptState, Owns, Breaks
  <1>4. BreakerState'
    BY DEF OneInside, OwnerState, BreakerState, ReceiptState, Owns, Breaks, ProvablyDead
  <1>5. ReceiptState'
    BY DEF OwnerState, BreakerState, ReceiptState, Owns, Breaks, ProvablyDead
  <1>6. GuardState'
    BY DEF GuardState
  <1> QED BY <1>1, <1>2, <1>3, <1>4, <1>5, <1>6

LEMMA ReleaseRmdirStep ==
  ASSUME NoBreakStale, LockInv, NEW p \in Proc, ReleaseRmdir(p)
  PROVE  LockInv'
  <1> USE DEF ReleaseRmdir, GoTo, Leave, LockInv, LockTypeOK, Control
  <1>1. LockTypeOK'
    OBVIOUS
  <1>2. OneInside'
    BY DEF OneInside, OwnerState, BreakerState, ReceiptState, GuardState, Owns, Breaks, ProvablyDead
  <1>3. OwnerState'
    BY DEF OneInside, OwnerState, BreakerState, ReceiptState, Owns, Breaks
  <1>4. BreakerState'
    BY DEF OneInside, OwnerState, BreakerState, ReceiptState, Owns, Breaks, ProvablyDead
  <1>5. ReceiptState'
    BY DEF OwnerState, BreakerState, ReceiptState, Owns, Breaks, ProvablyDead
  <1>6. GuardState'
    BY DEF GuardState
  <1> QED BY <1>1, <1>2, <1>3, <1>4, <1>5, <1>6

LEMMA CrashStep ==
  ASSUME NoBreakStale, LockInv, NEW p \in Proc, Crash(p)
  PROVE  LockInv'
  <1> USE DEF Crash, GoTo, LockInv, LockTypeOK, Control
  <1>1. LockTypeOK'
    OBVIOUS
  <1>2. OneInside'
    BY DEF OneInside, OwnerState, BreakerState, ReceiptState, GuardState, Owns, Breaks, ProvablyDead
  <1>3. OwnerState'
    BY DEF OneInside, OwnerState, BreakerState, ReceiptState, Owns, Breaks
  <1>4. BreakerState'
    BY DEF OneInside, OwnerState, BreakerState, ReceiptState, Owns, Breaks, ProvablyDead
  <1>5. ReceiptState'
    BY DEF OwnerState, BreakerState, ReceiptState, Owns, Breaks, ProvablyDead
  <1>6. GuardState'
    BY DEF GuardState
  <1> QED BY <1>1, <1>2, <1>3, <1>4, <1>5, <1>6

---------------------------------------------------------------------------
\* Every step of the lock, and every death, preserves the inductive invariant.
LEMMA NextLockInv ==
  ASSUME NoBreakStale, LockInv, [LockNext]_lockVars
  PROVE  LockInv'
  <1>1. CASE UNCHANGED lockVars
    BY <1>1 DEF lockVars, LockInv, LockTypeOK, OneInside, OwnerState, BreakerState,
                ReceiptState, GuardState, Owns, Breaks, ProvablyDead
  <1>2. ASSUME NEW p \in Proc, Step(p) PROVE LockInv'
    BY <1>2, StartStep, MkdirStep, InspectStep, BreakUnlinkStep, BreakRmdirStep,
       RemakeStep, WriteReceiptStep, ReleaseStep, ReleaseUnlinkStep,
       ReleaseRmdirStep DEF Step
  <1>3. ASSUME NEW p \in Proc, Crash(p) PROVE LockInv'
    BY <1>3, CrashStep
  <1> QED BY <1>1, <1>2, <1>3 DEF LockNext

THEOREM LockInvariant ==
  ASSUME NoBreakStale PROVE LockSpec => []LockInv
  <1>1. LockInit => LockInv BY InitLockInv
  <1>2. LockInv /\ [LockNext]_lockVars => LockInv' BY NextLockInv
  <1> QED BY <1>1, <1>2, PTL DEF LockSpec

\* Without break_stale the directory lock excludes, whatever the number of
\* processes, hosts and crashes, and with guarded recoverers among them.
THEOREM LockMutualExclusion ==
  ASSUME NoBreakStale PROVE LockSpec => []MutualExclusion
  <1>1. LockInv => MutualExclusion
    BY DEF LockInv, OneInside, Owns, MutualExclusion
  <1> QED BY <1>1, LockInvariant, PTL

\* ... and a holder still finds its directory and receipt when it releases.
THEOREM LockHolderKeepsReceipt ==
  ASSUME NoBreakStale PROVE LockSpec => []HolderKeepsReceipt
  <1>1. LockInv => HolderKeepsReceipt
    BY DEF LockInv, OwnerState, Owns, HolderKeepsReceipt
  <1> QED BY <1>1, LockInvariant, PTL

\* ... and only the directory of a dead process of the same host is ever broken.
THEOREM LockBreaksOnlyDeadOwner ==
  ASSUME NoBreakStale PROVE LockSpec => BreaksOnlyDeadOwner
  <1> DEFINE Good == \A p \in Proc : pc[p] = "break_unlink" /\ pc'[p] = "break_rmdir"
                        => maker # NoProc /\ ProvablyDead(p, maker)
  <1>1. LockInv => Good
    BY DEF LockInv, BreakerState, ReceiptState
  <1>2. LockInv /\ [LockNext]_lockVars => [Good]_lockVars
    BY <1>1
  <1> QED BY <1>2, LockInvariant, PTL DEF LockSpec, BreaksOnlyDeadOwner

=============================================================================
