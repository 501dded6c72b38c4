---------------------------- MODULE TaskExecution ----------------------------
(***************************************************************************)
(* One sealed task from its provider call to its terminal result:          *)
(*   execute_task (llm_tasks.py), verify_sealed_submission and             *)
(*   submit_act_task (act_submit.py), the retry archive (task_retry.py),   *)
(*   the work-unit failure policy (exception_reports.py), the menu session *)
(*   that drives them (menu.py) and the commands `sage task execute` and   *)
(*   `sage task submit` (cli.py), which apply the same policy.             *)
(*                                                                         *)
(* A file's content is the number of the execution that wrote it and a     *)
(* hash is the content it was taken from.  FINALIZED stands for the        *)
(* accepting status of the operation.  A session killed in a Run of RTC or *)
(* STC leaves a stale driver lock, which the next session breaks: the lock *)
(* is the set of live sessions (WorkspaceLock models the breaking itself). *)
(* Around the task, files and settings change and the provider comes and   *)
(* goes (trouble), and other units of the Run are sealed (sealed).         *)
(***************************************************************************)
EXTENDS Naturals

CONSTANTS
    Sessions,        \* SAGE processes that may work on the task
    Files,           \* the task's allowed writes are 1 .. Files
    MaxAttempts,     \* MAX_UNIT_ATTEMPTS
    CircuitBreaker,  \* CIRCUIT_BREAKER_UNITS
    Codes,           \* error codes that neither stop a Run nor reject an output
    Cases,           \* what is checked, each case within its own bounds: the kind of task
                     \* ("analysis", "bic"), its driver (the "menu" alone, or "commands"
                     \* as well), how many provider executions, kills, changes of the
                     \* surroundings and typed commands there are, and how many rows of
                     \* one code other units may leave
    Salvages         \* numbers of coordinates a submission may report as left out

CaseRecords == [kind : {"analysis", "bic"}, driver : {"menu", "commands"}, execs : Nat,
                crashes : Nat, changes : Nat, commands : Nat, elsewhere : Nat]

Troubles == {"settings",  \* the settings differ from those the task was created with
             "stale",     \* a file the task reads differs from the one it was created with
             "missing",   \* a file the task reads is gone
             "provider",  \* no login, an outage, or one of RUN_STOP_CODES
             "litter"}    \* a file lies in output/ that is none of the allowed writes
Effects == {"retry", "salvaged", "lost"}

ASSUME TaskExecutionAssumption ==
    /\ {Files, MaxAttempts} \subseteq Nat \ {0}
    /\ Cases \subseteq CaseRecords /\ Salvages \subseteq Nat /\ CircuitBreaker \in Nat
    /\ {"VALIDATION_ERROR", "LLM_TASK_READ_MISSING"} \subseteq Codes /\ "content" \notin Codes

VARIABLES
    case,           \* the case, fixed
    output,         \* the output directory: who wrote each file, 0 without one
    receipt,        \* the hashes of llm-execution-receipt.json, 0 without one
    archived,       \* files kept under attempts/
    submission,     \* status of validation/submission.json
    control,        \* status of the trusted control record
    log,            \* rows of the task in EXCEPTION-REPORTS.jsonl: retries, coordinates left
                    \* out of accepted output, attempts that gave the task up
    sealed,         \* rows of effect NOT_ASSESSED there, of every task of the Run, by code
    trouble,        \* what is the matter around the task
    ses,            \* what each session does
    execs, bad,     \* executions so far, and those whose files do not validate
    crashes, changes, commands,
    written,        \* history variable: every file ever written, with its writer
    failures        \* history variable: failed attempts at the task that left a row

rows == <<log, sealed>>
disk == <<output, receipt, archived, submission, control, rows>>
bounds == <<crashes, changes, commands>>
history == <<written, failures>>
vars == <<case, disk, trouble, ses, execs, bad, bounds, history>>

Names == 1 .. Files
Contents == 0 .. case.execs
NoFiles == [f \in Names |-> 0]
Steps == {"idle", "look", "launch", "asked", "write", "hash", "receipt", "ready", "submit",
          "validate", "commit", "close", "archive", "archiveReceipt", "policy", "seal"}
Idle == [pc |-> "idle", via |-> "menu", exec |-> 0, file |-> 0, hashes |-> NoFiles, why |-> "content"]

TypeOK ==
    /\ case \in Cases
    /\ {output, receipt} \subseteq [Names -> Contents]
    /\ {archived, written} \subseteq SUBSET (Names \X Contents)
    /\ submission \in {"NONE", "FINALIZED", "NOT_ASSESSED"}
    /\ control \in {"CREATED", "FINALIZED"}
    /\ log \in [Effects -> Nat] /\ sealed \in [Codes -> Nat] /\ trouble \subseteq Troubles
    /\ ses \in [Sessions -> [pc : Steps, via : {"menu", "command"}, exec : Contents, file : 0 .. Files,
                             hashes : [Names -> Contents], why : {"content"} \cup Codes]]
    /\ execs \in Contents /\ bad \subseteq 1 .. execs
    /\ crashes \in 0 .. case.crashes /\ changes \in 0 .. case.changes /\ commands \in 0 .. case.commands
    /\ failures \in Nat

Init ==
    /\ case \in Cases
    /\ output = NoFiles /\ receipt = NoFiles /\ archived = {}
    /\ submission = "NONE" /\ control = "CREATED"
    /\ log = [e \in Effects |-> 0] /\ sealed = [c \in Codes |-> 0] /\ trouble = {}
    /\ ses = [s \in Sessions |-> Idle]
    /\ execs = 0 /\ bad = {}
    /\ crashes = 0 /\ changes = 0 /\ commands = 0
    /\ written = {} /\ failures = 0

----------------------------------------------------------------------------
Present == {f \in Names : output[f] # 0}
Complete == Present = Names
Go(s, pc) == ses' = [ses EXCEPT ![s].pc = pc]
Leave(s) == ses' = [ses EXCEPT ![s] = Idle]
\* Only the menu goes on by itself, with nothing in hand: a command ends here.
GoOn(s, pc) ==
    ses' = [ses EXCEPT ![s] = IF ses[s].via = "menu" THEN [Idle EXCEPT !.pc = pc] ELSE Idle]
Fail(s, why) == ses' = [ses EXCEPT ![s] = [@ EXCEPT !.pc = "policy", !.why = why]]
Others == <<case, trouble, execs, bad, bounds, history>>

\* Mutant: the Run is driven without its lock.
ContinueUnlocked(s) ==
    /\ ses[s].pc = "idle" /\ Go(s, "look")
    /\ UNCHANGED <<disk, Others>>

\* continue_run: one session drives a Run of RTC or STC; BIC has no such lock.
Continue(s) ==
    /\ ses[s].pc = "idle"
    /\ case.kind = "analysis" => \A t \in Sessions : ses[t].pc = "idle" \/ ses[t].via = "command"
    /\ Go(s, "look")
    /\ UNCHANGED <<disk, Others>>

\* _task_action on the state of the task; a Run without a route to its provider
\* may stop before (_preflight_saw_route).
Look(s) ==
    /\ ses[s].pc = "look"
    /\ \/ (submission # "NONE" \/ "provider" \in trouble) /\ Leave(s)
       \/ submission = "NONE" /\ Go(s, IF Complete THEN "submit" ELSE "launch")
    /\ UNCHANGED <<disk, Others>>

\* `sage task execute` and `sage task submit`, typed by the operator.
Command(s) ==
    /\ case.driver = "commands" /\ commands < case.commands
    /\ ses[s].pc = "idle"
    /\ \E pc \in {"launch", "submit"} :
          ses' = [ses EXCEPT ![s] = [@ EXCEPT !.pc = pc, !.via = "command"]]
    /\ commands' = commands + 1
    /\ UNCHANGED <<case, disk, trouble, execs, bad, crashes, changes, history>>

----------------------------------------------------------------------------
(***************************************************************************)
(* execute_task.                                                           *)
(***************************************************************************)

\* Mutant: the provider is asked whatever the output directory holds.
LaunchUnguarded(s) ==
    /\ ses[s].pc = "launch" /\ Go(s, "asked")
    /\ UNCHANGED <<disk, Others>>

\* The route and the reads are checked before the output directory.  A read that
\* is gone is a failure like another; LLM_TASK_READ_STALE, a missing route and
\* LLM_TASK_OUTPUT_NOT_EMPTY stop the session.
Launch(s) ==
    /\ ses[s].pc = "launch"
    /\ \/ "missing" \in trouble /\ Fail(s, "LLM_TASK_READ_MISSING")
       \/ trouble \cap {"stale", "provider"} # {} /\ Leave(s)
       \/ /\ trouble \cap {"missing", "stale"} = {}
          /\ IF Present = {} /\ "litter" \notin trouble THEN Go(s, "asked") ELSE Leave(s)
    /\ UNCHANGED <<disk, Others>>

\* The provider answers with files that validate or do not, with something no
\* file can be made of, or fails with a code that says nothing of the content;
\* an environment condition or a code of RUN_STOP_CODES stops the session.
Answer(s) ==
    /\ ses[s].pc = "asked"
    /\ \/ /\ execs < case.execs
          /\ execs' = execs + 1
          /\ \/ /\ bad' \in {bad, bad \cup {execs + 1}}
                /\ ses' = [ses EXCEPT ![s] = [@ EXCEPT !.pc = "write", !.exec = execs + 1, !.file = 1]]
             \/ /\ bad' = bad
                /\ \E why \in {"content"} \cup Codes : Fail(s, why)
       \/ /\ "provider" \in trouble
          /\ Leave(s)
          /\ UNCHANGED <<execs, bad>>
    /\ UNCHANGED <<case, disk, trouble, bounds, history>>

WriteOutput(s) ==
    /\ ses[s].pc = "write"
    /\ output' = [output EXCEPT ![ses[s].file] = ses[s].exec]
    /\ written' = written \cup {<<ses[s].file, ses[s].exec>>}
    /\ Go(s, "hash")
    /\ UNCHANGED <<case, receipt, archived, submission, control, rows, trouble, execs, bad, bounds, failures>>

\* sha256_file reads the file back; without it the execution raises a plain
\* OSError, which no policy sees.
HashOutput(s) ==
    /\ ses[s].pc = "hash"
    /\ LET f == ses[s].file
       IN  IF output[f] = 0 THEN Leave(s)
           ELSE ses' = [ses EXCEPT ![s] =
                   [pc |-> IF f = Files THEN "receipt" ELSE "write",
                    file |-> IF f = Files THEN f ELSE f + 1,
                    hashes |-> [ses[s].hashes EXCEPT ![f] = output[f]],
                    via |-> ses[s].via, exec |-> ses[s].exec, why |-> ses[s].why]]
    /\ UNCHANGED <<disk, Others>>

WriteReceipt(s) ==
    /\ ses[s].pc = "receipt"
    /\ receipt' = ses[s].hashes
    /\ GoOn(s, "ready")
    /\ UNCHANGED <<output, archived, submission, control, rows, Others>>

\* _task_action reads the state again when the execution is over.
Ready(s) ==
    /\ ses[s].pc = "ready"
    /\ IF submission = "NONE" /\ Complete THEN Go(s, "submit") ELSE Leave(s)
    /\ UNCHANGED <<disk, Others>>

----------------------------------------------------------------------------
(***************************************************************************)
(* submit_act_task.  A failure stops the session (an integrity code), is   *)
(* retried as it is, or rejects the output.                                *)
(***************************************************************************)

\* What verify_sealed_submission checks before the receipt: the control record,
\* the settings, the reads, and the files of output/.
Unfit(s) ==
    \/ control # "CREATED" /\ Fail(s, "VALIDATION_ERROR")
    \/ control = "CREATED" /\ trouble \cap {"settings", "stale"} # {} /\ Leave(s)
    \/ /\ control = "CREATED" /\ "settings" \notin trouble
       /\ "missing" \in trouble \/ ("stale" \notin trouble /\ (~Complete \/ "litter" \in trouble))
       /\ Fail(s, "VALIDATION_ERROR")

Fit == control = "CREATED" /\ Complete /\ trouble \subseteq {"provider"}

\* Mutant: a receipt of another execution will do.
VerifyLax(s) ==
    /\ ses[s].pc = "submit"
    /\ \/ Unfit(s)
       \/ Fit /\ receipt = NoFiles /\ case.kind = "analysis" /\ Leave(s)
       \/ Fit /\ (receipt # NoFiles \/ case.kind = "bic") /\ Go(s, "validate")
    /\ UNCHANGED <<disk, Others>>

\* The hashes the receipt holds must be those of the files; without a receipt
\* only BIC output is taken, as UNRECORDED.
Recorded == IF receipt = NoFiles THEN case.kind = "bic" ELSE receipt = output

Verify(s) ==
    /\ ses[s].pc = "submit"
    /\ \/ Unfit(s)
       \/ Fit /\ ~Recorded /\ Leave(s)
       \/ Fit /\ Recorded /\ Go(s, "validate")
    /\ UNCHANGED <<disk, Others>>

Sound == \A f \in Names : output[f] \notin bad

\* The coordinates left out of accepted output are reported, those of a rewrite
\* even before its challenges are judged.
Validate(s) ==
    /\ ses[s].pc = "validate"
    /\ \E n \in IF Sound \/ case.kind = "bic" THEN Salvages ELSE {0} : log' = [log EXCEPT !["salvaged"] = @ + n]
    /\ CASE ~Complete -> Leave(s)
         [] Complete /\ Sound -> Go(s, "commit")
         [] OTHER -> ses' = [ses EXCEPT ![s] = [@ EXCEPT
                            !.why = "content", !.pc = IF ses[s].via = "menu" THEN "archive" ELSE "policy"]]
    /\ UNCHANGED <<output, receipt, archived, submission, control, sealed, Others>>

Commit(s) ==
    /\ ses[s].pc = "commit"
    /\ submission' = "FINALIZED"
    /\ Go(s, "close")
    /\ UNCHANGED <<output, receipt, archived, control, rows, Others>>

CloseControl(s) ==
    /\ ses[s].pc = "close"
    /\ control' = "FINALIZED"
    /\ Leave(s)
    /\ UNCHANGED <<output, receipt, archived, submission, rows, Others>>

----------------------------------------------------------------------------
(***************************************************************************)
(* What follows a failure.                                                 *)
(***************************************************************************)

\* archive_rejected_task_output, which only the menu calls: the directory is
\* renamed as a whole, then the receipt.
ArchiveOutput(s) ==
    /\ ses[s].pc = "archive"
    /\ archived' = archived \cup {<<f, output[f]>> : f \in Present}
    /\ output' = NoFiles
    /\ trouble' = trouble \ {"litter"}
    /\ Go(s, "archiveReceipt")
    /\ UNCHANGED <<case, receipt, submission, control, rows, execs, bad, bounds, history>>

ArchiveReceipt(s) ==
    /\ ses[s].pc = "archiveReceipt"
    /\ receipt' = NoFiles
    /\ Go(s, "policy")
    /\ UNCHANGED <<output, archived, submission, control, rows, Others>>

\* failed_attempts: the rows of the task with effect RETRY or NOT_ASSESSED.
FailedAttempts == log["retry"] + log["salvaged"] + log["lost"]

CapReached == FailedAttempts + 1 >= MaxAttempts

\* The code has cost the Run that many units already, this task among them.
Systemic(why) == why \in Codes /\ sealed[why] >= CircuitBreaker

\* The row is written before the result.
GiveUp(s) ==
    /\ log' = [log EXCEPT !["lost"] = @ + 1]
    /\ sealed' = [c \in Codes |-> IF c = ses[s].why THEN sealed[c] + 1 ELSE sealed[c]]
    /\ failures' = failures + 1
    /\ Go(s, "seal")

Retry(s) ==
    /\ log' = [log EXCEPT !["retry"] = @ + 1]
    /\ failures' = failures + 1
    /\ GoOn(s, "look")
    /\ UNCHANGED sealed

Stop(s) == Leave(s) /\ UNCHANGED <<rows, failures>>

\* Mutant: a failure below the cap stops the session and leaves no row.
PolicyForgetting(s) ==
    /\ ses[s].pc = "policy"
    /\ IF CapReached THEN GiveUp(s) ELSE Stop(s)
    /\ UNCHANGED <<case, output, receipt, archived, submission, control, trouble, execs, bad, bounds, written>>

\* apply_unit_failure; the command line leaves BIC tasks alone.
Policy(s) ==
    /\ ses[s].pc = "policy"
    /\ CASE (ses[s].via = "command" /\ case.kind = "bic") \/ Systemic(ses[s].why) -> Stop(s)
         [] OTHER -> IF CapReached THEN GiveUp(s) ELSE Retry(s)
    /\ UNCHANGED <<case, output, receipt, archived, submission, control, trouble, execs, bad, bounds, written>>

\* write_not_assessed_result; the control record stays CREATED.
Seal(s) ==
    /\ ses[s].pc = "seal"
    /\ submission' = "NOT_ASSESSED"
    /\ Leave(s)
    /\ UNCHANGED <<output, receipt, archived, control, rows, Others>>

\* A write that is killed may leave its temporary file in the output directory.
Crash(s) ==
    /\ ses[s].pc # "idle" /\ crashes < case.crashes
    /\ crashes' = crashes + 1
    /\ Leave(s)
    /\ trouble' \in {trouble} \cup (IF ses[s].pc = "write" THEN {trouble \cup {"litter"}} ELSE {})
    /\ UNCHANGED <<case, disk, execs, bad, changes, commands, history>>

----------------------------------------------------------------------------
(***************************************************************************)
(* The surroundings of the task.                                           *)
(***************************************************************************)

\* Something goes wrong around the task, or is put right.
Change ==
    /\ changes < case.changes
    /\ changes' = changes + 1
    /\ \E x \in Troubles : trouble' = IF x \in trouble THEN trouble \ {x} ELSE trouble \cup {x}
    /\ UNCHANGED <<case, disk, ses, execs, bad, crashes, commands, history>>

\* Another unit of the Run is given up, by the driver before it comes to this one
\* or by a command of the operator.
OtherUnitSealed ==
    /\ \E c \in Codes : sealed[c] < case.elsewhere /\ sealed' = [sealed EXCEPT ![c] = @ + 1]
    /\ UNCHANGED <<output, receipt, archived, submission, control, log, ses, Others>>

Execution(s) == Launch(s) \/ Answer(s) \/ WriteOutput(s) \/ HashOutput(s) \/ WriteReceipt(s) \/ Ready(s)
Submission(s) == Verify(s) \/ Validate(s) \/ Commit(s) \/ CloseControl(s)
Failure(s) == ArchiveOutput(s) \/ ArchiveReceipt(s) \/ Policy(s) \/ Seal(s)
Progress(s) == Look(s) \/ Execution(s) \/ Submission(s) \/ Failure(s)

Next ==
    \/ \E s \in Sessions : Continue(s) \/ Command(s) \/ Progress(s) \/ Crash(s)
    \/ Change \/ OtherUnitSealed

Spec == Init /\ [][Next]_vars

\* A process runs on until it is killed, and the operator comes back to an open Run.
Fairness == \A s \in Sessions : WF_vars(Progress(s)) /\ WF_vars(Continue(s))
FairSpec == Spec /\ Fairness

----------------------------------------------------------------------------
(***************************************************************************)
(* Properties.  A governed task is one of an RTC or STC Run that the       *)
(* operator drives from the menu, by any number of sessions.               *)
(***************************************************************************)
Governed == case.kind = "analysis" /\ case.driver = "menu"

\* No output of a model is written over: it is in the output directory or kept
\* under attempts/, whatever was killed and how often the task was continued.
NothingOverwritten ==
    Governed => \A w \in written : output[w[1]] = w[2] \/ w \in archived

\* What a governed task finalizes is the whole output of one valid execution, and
\* the receipt beside it is the receipt of that execution.
AcceptedAsExecuted ==
    Governed /\ submission = "FINALIZED" =>
        /\ receipt = output
        /\ \E e \in 1 .. execs : e \notin bad /\ output = [f \in Names |-> e]

\* Coordinates are given up only after MaxAttempts failed attempts at them, unless
\* a kill before the commit left the rows of accepted output, which count as
\* attempts: no other row that survives a kill stands for an attempt not made.
SealedAfterCap ==
    Governed /\ submission = "NOT_ASSESSED" => failures >= MaxAttempts \/ log["salvaged"] > 0

\* The terminal result of a governed task does not change.
ResultIsFinal == [][Governed /\ submission # "NONE" => submission' = submission]_vars

\* Output no continuation gets past: an execution was killed between its first file
\* and its receipt, or left a temporary file.
Torn ==
    \/ crashes > 0 /\ Present # {} /\ (~Complete \/ receipt # output)
    \/ "litter" \in trouble /\ ~Complete

\* What stops every continuation without a row for as long as it lasts.
Stopped == Torn \/ trouble \cap {"settings", "stale", "provider"} # {} \/ \E c \in Codes : Systemic(c)

\* Once its surroundings have settled, a governed task that is continued is decided
\* or rests with the operator for one of the reasons of Stopped: nothing else, a
\* failure with any code, a vanished read or an unlisted file, keeps it open.
DecidedUnlessStopped == Governed => <>[](submission # "NONE" \/ Stopped)
=============================================================================
