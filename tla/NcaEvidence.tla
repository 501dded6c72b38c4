----------------------------- MODULE NcaEvidence -----------------------------
(***************************************************************************)
(* One NCA task from its first model request to its published result:      *)
(*   the traversal of extraction batches (numbers/model_tasks.py), the     *)
(*   phase session that replays or asks (numbers/hybrid.py), the phase     *)
(*   ledger and the staged publication (numbers/replay.py), the execution  *)
(*   and the finalization of a Run (nca.py), the submission                *)
(*   (act_submit.py) and the menu that drives them (nca_menu.py).          *)
(*                                                                         *)
(* The inputs are numbered in their order and a batch, and with it the     *)
(* phase key, is a set of them.  A document is who wrote it, the phases it *)
(* rests on and why each other input is pending; a receipt is who wrote    *)
(* it.  Executions of one task exclude each other (execution.lock, see     *)
(* WorkspaceLock): `ses` is the one that runs, if any.  Any write can be   *)
(* the last one of its process.                                            *)
(***************************************************************************)
EXTENDS Naturals, FiniteSets, SequencesExt

CONSTANTS
    Inputs,   \* the planned inputs, 1 .. n
    Plans     \* what is checked: [batches, retries, backoffs, execs, fatals, deaths,
              \* submits, menu].  execs to submits bound the executions that ask, the
              \* answers that end one, the deaths and the submit commands; menu says
              \* that the task is driven from the menu.

ASSUME NcaEvidenceAssumption ==
    /\ Inputs \subseteq Nat /\ IsFiniteSet(Inputs)
    /\ Plans \subseteq [batches : Seq((SUBSET Inputs) \ {{}}), retries : {0, 1}, backoffs : Nat, execs : Nat,
                        fatals : Nat, deaths : Nat, submits : Nat, menu : BOOLEAN]
    /\ \A p \in Plans : \A m, n \in DOMAIN p.batches :
          m # n => p.batches[m] \cap p.batches[n] = {}      \* BatchPlan

VARIABLES
    plan,        \* the plan, fixed
    accepted,    \* ledger.json: the members each accepted phase admitted, {} without one
    failed,      \* ledger.json: the last failure of each phase
    staged,      \* validation/nca-phases/publication
    final,       \* output/model-evidence.json and its receipt
    ses,         \* the execution
    sub,         \* the submission
    taskResult,  \* validation/numbers-result.json of the task
    submission,  \* version of validation/submission.json, 0 without one
    control,     \* the trusted control record: its status, the submission it names
    runResult,   \* validation/numbers-result.json of the Run
    result,      \* result in run.json
    execs, fatals, deaths, submits

ledger == <<accepted, failed>>
files == <<staged, final>>
records == <<taskResult, submission, control, runResult, result>>
bounds == <<execs, fatals, deaths, submits>>
vars == <<plan, ledger, files, ses, sub, records, bounds>>

Phases == (SUBSET Inputs) \ {{}}
Reasons == {"none", "failed", "empty", "limited"}
Decided == [i \in Inputs |-> "none"]
Documents == [by : 0 .. plan.execs, phases : SUBSET Phases, pending : [Inputs -> Reasons]]
None == [by |-> 0, phases |-> {}, pending |-> Decided]
NothingStaged == [output |-> None, receipt |-> 0, manifest |-> None]
Idle == [pc |-> "idle", resume |-> FALSE, by |-> 0, work |-> <<>>, tries |-> 0, limited |-> 0,
         phases |-> {}, pending |-> Decided]

TypeOK ==
    /\ plan \in Plans
    /\ accepted \in [Phases -> SUBSET Inputs]
    /\ failed \in [Phases -> Reasons \cup {"fatal"}]
    /\ staged \in [output : Documents, receipt : 0 .. plan.execs, manifest : Documents]
    /\ final \in [output : Documents, receipt : 0 .. plan.execs]
    /\ ses \in [pc : {"idle", "visit", "retire", "output", "receipt", "manifest", "publish", "certify"},
                resume : BOOLEAN, by : 0 .. plan.execs, work : Seq(Phases), tries : 0 .. plan.retries,
                limited : 0 .. plan.backoffs, phases : SUBSET Phases, pending : [Inputs -> Reasons]]
    /\ sub \in {"idle", "submit", "record", "control", "reconcile", "close", "rewrite", "rename",
                "again", "closeAgain"}
    /\ {taskResult, runResult} \subseteq Documents
    /\ submission \in 0 .. 2 /\ control \in [open : BOOLEAN, names : 0 .. 2]
    /\ result \in {"none", "FAILED", "DONE"}
    /\ execs \in 0 .. plan.execs /\ fatals \in 0 .. plan.fatals /\ deaths \in 0 .. plan.deaths
    /\ submits \in 0 .. plan.submits

Init ==
    /\ plan \in Plans
    /\ accepted = [p \in Phases |-> {}] /\ failed = [p \in Phases |-> "none"]
    /\ staged = NothingStaged /\ final = [output |-> None, receipt |-> 0]
    /\ ses = Idle /\ sub = "idle"
    /\ taskResult = None /\ submission = 0 /\ control = [open |-> TRUE, names |-> 0]
    /\ runResult = None /\ result = "none"
    /\ execs = 0 /\ fatals = 0 /\ deaths = 0 /\ submits = 0

----------------------------------------------------------------------------
(***************************************************************************)
(* The traversal: a list of batches to visit, the first one being visited. *)
(***************************************************************************)
Batch == Head(ses.work)
Go(pc) == ses' = [ses EXCEPT !.pc = pc]
Stop == ses' = Idle

\* split_batch: the first half of the inputs and the rest.
Halves(b) ==
    LET first == {i \in b : Cardinality({j \in b : j < i}) < Cardinality(b) \div 2}
    IN  <<first, b \ first>>

\* The batch at the head is settled, `work` replaces it.
Settle(work, phases, pending) ==
    ses' = [ses EXCEPT !.work = work \o Tail(@), !.tries = 0, !.limited = 0,
                       !.phases = @ \cup phases,
                       !.pending = [i \in Inputs |-> IF i \in DOMAIN pending THEN pending[i] ELSE @[i]]]

\* Mutant: what the response left out is not asked for again.
AdmitOnly(members) == Settle(<<>>, {Batch}, <<>>)

\* A response admitted `members`: the remaining inputs make a batch of their own.
Admit(members) ==
    Settle(IF members = Batch THEN <<>> ELSE <<Batch \ members>>, {Batch}, <<>>)

\* An attempt failed: once more, then the halves; a single input stays pending.
Fail(reason) ==
    IF ses.tries < plan.retries THEN ses' = [ses EXCEPT !.tries = @ + 1, !.limited = 0]
    ELSE IF Cardinality(Batch) > 1 THEN Settle(Halves(Batch), {}, <<>>)
    ELSE Settle(<<>>, {}, [i \in Batch |-> reason])

\* A rate limit: the same batch after a pause, and in the end all of it is pending.
Limit ==
    IF ses.limited < plan.backoffs THEN ses' = [ses EXCEPT !.limited = @ + 1]
    ELSE Settle(<<>>, {}, [i \in Batch |-> "limited"])

----------------------------------------------------------------------------
(***************************************************************************)
(* PhaseSession.execute.                                                   *)
(***************************************************************************)
Visiting == ses.pc = "visit" /\ ses.work # <<>>

\* Accepted membership is used again, whoever asked for it.
Reuse ==
    /\ Visiting /\ accepted[Batch] # {}
    /\ Admit(accepted[Batch])
    /\ UNCHANGED <<plan, ledger, files, sub, records, bounds>>

\* Mutant: the first failure of a phase stays its failure.
RecordFirst(reason) == failed' = [failed EXCEPT ![Batch] = IF @ = "none" THEN reason ELSE @]

RecordFailure(reason) == failed' = [failed EXCEPT ![Batch] = reason]

\* The provider is asked, and what it says is in the ledger before anything else:
\* some members admitted, none of them ("empty"), an unusable response, a rate
\* limit, or a refusal that ends the execution.
Ask ==
    /\ Visiting /\ accepted[Batch] = {} /\ ~ses.resume
    /\ \/ \E members \in (SUBSET Batch) \ {{}} :
             /\ accepted' = [accepted EXCEPT ![Batch] = members]
             /\ Admit(members)
             /\ UNCHANGED <<failed, fatals>>
       \/ \E reason \in {"failed", "empty"} : RecordFailure(reason) /\ Fail(reason) /\ UNCHANGED <<accepted, fatals>>
       \/ RecordFailure("limited") /\ Limit /\ UNCHANGED <<accepted, fatals>>
       \/ fatals < plan.fatals /\ fatals' = fatals + 1 /\ RecordFailure("fatal") /\ Stop /\ UNCHANGED accepted
    /\ UNCHANGED <<plan, files, sub, records, execs, deaths, submits>>

\* _replay_failure: a publication is staged, nothing is asked any more.  Only a
\* failure the traversal would see again will do.
ReplayFailure ==
    /\ Visiting /\ accepted[Batch] = {} /\ ses.resume
    /\ IF failed[Batch] \in {"failed", "empty"} THEN Fail(failed[Batch]) ELSE Stop
    /\ UNCHANGED <<plan, ledger, files, sub, records, bounds>>

----------------------------------------------------------------------------
(***************************************************************************)
(* execute_nca_task under execution.lock.                                  *)
(***************************************************************************)
Staged == staged.manifest # None
Published == final.output # None /\ final.receipt # 0
Partial == final.output # None \/ final.receipt # 0
Document == [by |-> ses.by, phases |-> ses.phases, pending |-> ses.pending]
Started(resume) ==
    [Idle EXCEPT !.pc = "visit", !.work = plan.batches, !.resume = resume,
                 !.by = IF resume THEN 0 ELSE execs + 1]

\* Mutant: final files are a reason to refuse, whatever is staged.
LaunchRefusing ==
    /\ ses = Idle /\ ~Partial
    /\ IF Staged THEN UNCHANGED execs ELSE execs < plan.execs /\ execs' = execs + 1
    /\ ses' = Started(Staged)
    /\ UNCHANGED <<plan, ledger, files, sub, records, fatals, deaths, submits>>

\* Final files without a manifest have no authority; with one the execution only
\* replays.  The menu's preview lets a task through only as long as a file is missing.
Launch ==
    /\ ses = Idle /\ (Partial => Staged)
    /\ plan.menu => submission = 0 /\ ~Published /\ sub = "idle"
    /\ IF Staged THEN UNCHANGED execs ELSE execs < plan.execs /\ execs' = execs + 1
    /\ ses' = Started(Staged)
    /\ UNCHANGED <<plan, ledger, files, sub, records, fatals, deaths, submits>>

\* Every batch is visited: batches without one admitted phase have failed, and with
\* nothing to extract there is a result to publish; a staged publication must be the
\* one this traversal comes to.
Evaluated ==
    /\ ses.pc = "visit" /\ ses.work = <<>>
    /\ IF ses.phases = {} /\ plan.batches # <<>> THEN result' = "FAILED" /\ Stop
       ELSE /\ UNCHANGED result
            /\ IF ~ses.resume THEN Go("retire")
               ELSE IF [Document EXCEPT !.by = staged.manifest.by] = staged.manifest
                 THEN Go("publish") ELSE Stop
    /\ UNCHANGED <<plan, ledger, files, sub, taskResult, submission, control, runResult, bounds>>

\* _retire_uncommitted_publication: one rename puts an orphan aside.
Retire ==
    /\ ses.pc = "retire" /\ staged' = NothingStaged /\ Go("output")
    /\ UNCHANGED <<plan, ledger, final, sub, records, bounds>>

StageOutput ==
    /\ ses.pc = "output" /\ staged' = [staged EXCEPT !.output = Document] /\ Go("receipt")
    /\ UNCHANGED <<plan, ledger, final, sub, records, bounds>>

StageReceipt ==
    /\ ses.pc = "receipt" /\ staged' = [staged EXCEPT !.receipt = ses.by] /\ Go("manifest")
    /\ UNCHANGED <<plan, ledger, final, sub, records, bounds>>

\* The manifest commits both.
StageManifest ==
    /\ ses.pc = "manifest" /\ staged' = [staged EXCEPT !.manifest = Document] /\ Go("publish")
    /\ UNCHANGED <<plan, ledger, final, sub, records, bounds>>

\* Mutant: an execution publishes what it evaluated itself.
PublishOwn ==
    /\ ses.pc = "publish" /\ Go("certify")
    /\ final' = [final EXCEPT !.output = IF @ = None THEN Document ELSE @]
    /\ UNCHANGED <<plan, ledger, staged, sub, records, bounds>>

\* recover_publication: the staged files become the final ones, where they are
\* missing.
Publish ==
    /\ ses.pc = "publish" /\ Go("certify")
    /\ final' = [final EXCEPT !.output = IF @ = None THEN staged.output ELSE @]
    /\ UNCHANGED <<plan, ledger, staged, sub, records, bounds>>

\* The receipt completes the task; the menu goes on to submit it.
Certify ==
    /\ ses.pc = "certify" /\ Stop
    /\ final' = [final EXCEPT !.receipt = IF @ = 0 THEN staged.receipt ELSE @]
    /\ sub' = IF plan.menu THEN "submit" ELSE sub
    /\ UNCHANGED <<plan, ledger, staged, records, bounds>>

----------------------------------------------------------------------------
(***************************************************************************)
(* submit_act_task and finalize_nca_run.                                   *)
(***************************************************************************)
Elsewhere == <<plan, ledger, files, ses, bounds>>

\* `sage task submit`, typed by the operator.
Command ==
    /\ sub = "idle" /\ submits < plan.submits
    /\ submits' = submits + 1 /\ sub' = "submit"
    /\ UNCHANGED <<plan, ledger, files, ses, records, execs, fatals, deaths>>

\* An open task with its output; a receipt, if there is one, must be the output's.
Submit ==
    /\ sub = "submit"
    /\ IF control.open /\ final.output # None /\ final.receipt \in {0, final.output.by}
         THEN taskResult' = final.output /\ sub' = "record"
         ELSE sub' = "idle" /\ UNCHANGED taskResult
    /\ UNCHANGED <<Elsewhere, submission, control, runResult, result>>

Record ==
    /\ sub = "record" /\ submission' = 1 /\ sub' = "control"
    /\ UNCHANGED <<Elsewhere, taskResult, control, runResult, result>>

CloseControl ==
    /\ sub = "control" /\ control' = [open |-> FALSE, names |-> 1] /\ sub' = "reconcile"
    /\ UNCHANGED <<Elsewhere, taskResult, submission, runResult, result>>

\* _validated_finalized_task
Reconciled ==
    /\ ~control.open /\ control.names = submission
    /\ final.output # None /\ final.receipt = final.output.by /\ taskResult = final.output

\* Mutant: the Run is closed before its result is written.
ReconcileClosing(pc, next) ==
    /\ sub = pc
    /\ IF Reconciled THEN result' = "DONE" /\ sub' = next ELSE sub' = "idle" /\ UNCHANGED result
    /\ UNCHANGED <<Elsewhere, taskResult, submission, control, runResult>>

\* The result and the reports of the Run, from the reconciled task.
Reconcile(pc, next) ==
    /\ sub = pc
    /\ IF Reconciled THEN runResult' = taskResult /\ sub' = next ELSE sub' = "idle" /\ UNCHANGED runResult
    /\ UNCHANGED <<Elsewhere, taskResult, submission, control, result>>

CloseRun(pc, next) ==
    /\ sub = pc /\ result' = "DONE" /\ sub' = next
    /\ UNCHANGED <<Elsewhere, taskResult, submission, control, runResult>>

\* The submission is written again with the paths of the reports.
Rewrite ==
    /\ sub = "rewrite" /\ submission' = 2 /\ sub' = "rename"
    /\ UNCHANGED <<Elsewhere, taskResult, control, runResult, result>>

Rename ==
    /\ sub = "rename" /\ control' = [control EXCEPT !.names = 2] /\ sub' = "again"
    /\ UNCHANGED <<Elsewhere, taskResult, submission, runResult, result>>

\* command_act_submit finalizes the Run itself, a second time.
Submission ==
    \/ Submit \/ Record \/ CloseControl \/ Rewrite \/ Rename
    \/ Reconcile("reconcile", "close") \/ CloseRun("close", "rewrite")
    \/ Reconcile("again", "closeAgain") \/ CloseRun("closeAgain", "idle")

\* continue_run (nca_menu.py) of a Run whose task has a submission.
CloseFromMenu ==
    /\ plan.menu /\ ses = Idle /\ sub = "idle" /\ submission # 0
    /\ result' = IF result = "none" THEN "DONE" ELSE result
    /\ UNCHANGED <<Elsewhere, sub, taskResult, submission, control, runResult>>

\* The menu session is one process with the execution or submission it waits for.
Die ==
    /\ deaths < plan.deaths /\ deaths' = deaths + 1
    /\ \/ ses # Idle /\ Stop /\ UNCHANGED sub
       \/ sub # "idle" /\ sub' = "idle" /\ UNCHANGED ses
    /\ UNCHANGED <<plan, ledger, files, records, execs, fatals, submits>>

Execution ==
    \/ Reuse \/ Ask \/ ReplayFailure \/ Evaluated
    \/ Retire \/ StageOutput \/ StageReceipt \/ StageManifest \/ Publish \/ Certify

Next == Launch \/ Execution \/ Command \/ Submission \/ CloseFromMenu \/ Die

Spec == Init /\ [][Next]_vars

\* A process runs on until it dies, and the operator executes an open task again.
Fairness == WF_vars(Launch) /\ WF_vars(Execution) /\ WF_vars(Submission)
FairSpec == Spec /\ Fairness

----------------------------------------------------------------------------
(***************************************************************************)
(* Properties.                                                             *)
(***************************************************************************)

\* The final files are the pair a manifest has committed, never a mixture of two
\* executions and never without the manifest.
PublishedAsStaged ==
    /\ final.output # None => Staged /\ final.output = staged.manifest
    /\ final.receipt # 0 => final.output # None /\ final.receipt = staged.manifest.by

\* What the traversal of a batch comes to, from the ledger alone.
Replay[b \in Phases] ==
    LET both(x, y) == [phases |-> x.phases \cup y.phases,
                       pending |-> [i \in Inputs |-> IF x.pending[i] # "none" THEN x.pending[i] ELSE y.pending[i]]]
        all(reason) == [phases |-> {}, pending |-> [i \in Inputs |-> IF i \in b THEN reason ELSE "none"]]
        here == [phases |-> {b}, pending |-> Decided]
    IN  IF accepted[b] = b THEN here
        ELSE IF accepted[b] # {} THEN both(here, Replay[b \ accepted[b]])
        ELSE IF failed[b] = "limited" \/ Cardinality(b) = 1 THEN all(failed[b])
        ELSE both(Replay[Halves(b)[1]], Replay[Halves(b)[2]])

\* A staged publication can be derived again from the ledger, although executions
\* that died before had recorded phases and failures of their own.
ReplayReproduces ==
    Staged => \A b \in Range(plan.batches) :
        LET replayed == Replay[b]
        IN  /\ replayed.phases = staged.manifest.phases \cap SUBSET b
            /\ \A i \in b : replayed.pending[i] = staged.manifest.pending[i]

\* Of the inputs none is lost and none is counted twice: each is admitted by exactly
\* one phase of the document, or pending with its reason.
EveryInputDisposed ==
    Staged => \A i \in UNION Range(plan.batches) :
        LET by == {p \in staged.manifest.phases : i \in accepted[p]}
        IN  Cardinality(by) = (IF staged.manifest.pending[i] = "none" THEN 1 ELSE 0)

\* Evidence is paid for once and then final: an accepted phase never changes, and
\* nothing is asked or recorded once a publication is staged.
EvidenceIsFinal ==
    [][/\ \A p \in Phases : accepted[p] # {} => accepted'[p] = accepted[p]
       /\ Staged => ledger' = ledger]_vars

\* "a write failure cannot mark DONE" (nca.py:598), for a task driven by commands.
DoneIsPublished == ~plan.menu /\ result = "DONE" => Published /\ runResult = final.output

\* A publication that was interrupted is completed when the task is executed again,
\* unless a rate limit left one of its inputs pending.
PublicationCompletes ==
    Staged /\ (\A i \in Inputs : staged.manifest.pending[i] # "limited") ~> Published
=============================================================================
