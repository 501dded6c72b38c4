------------------------- MODULE TaskExecutionProofs -------------------------
(***************************************************************************)
(* The governed task, for any number of sessions, files, executions, kills *)
(* and changes around it: its output is never written over, its result     *)
(* never changes and is the result of one valid execution.                 *)
(***************************************************************************)
EXTENDS TaskExecution, TLAPS

SesRecords == [pc : Steps, via : {"menu", "command"}, exec : Contents, file : 0 .. Files,
               hashes : [Names -> Contents], why : {"content"} \cup Codes]

\* A session that writes or hashes is at one of the files.
Filing == \A s \in Sessions : ses[s].pc \in {"write", "hash"} => ses[s].file \in Names

\* The Run's lock.
Alone ==
    /\ \A s, t \in Sessions : ses[s].pc # "idle" /\ ses[t].pc # "idle" => s = t
    /\ \A s \in Sessions : ses[s].via = "menu"

\* Where a session x is in an execution says what it has written and hashed.
Writing(x) ==
    /\ x.pc \in {"asked", "archiveReceipt"} => output = NoFiles
    /\ x.pc \in {"write", "hash", "receipt"} => x.exec \in 1 .. execs
    /\ x.pc \in {"write", "hash"} =>
          \A f \in Names :
             /\ f < x.file => output[f] = x.exec /\ x.hashes[f] = x.exec
             /\ f > x.file => output[f] = 0
    /\ x.pc = "write" => output[x.file] = 0
    /\ x.pc = "hash" => output[x.file] = x.exec
    /\ x.pc = "receipt" => \A f \in Names : x.hashes[f] = x.exec

\* What accounts for a task that is given up.
Spent == failures >= MaxAttempts \/ log["salvaged"] > 0

\* Where it is in a submission says what it has verified.  The rows of accepted
\* output count as attempts, so that output may not be rejected after them.
Verifying(x) ==
    /\ x.pc \notin {"idle", "look", "close"} => submission = "NONE"
    /\ x.pc = "close" => submission = "FINALIZED"
    /\ x.pc \in {"validate", "commit"} => Complete /\ receipt = output
    /\ x.pc = "commit" => Sound
    /\ x.pc = "seal" => Spent
    /\ log["salvaged"] > 0 =>
          x.pc \in {"idle", "look", "submit", "validate", "commit", "close", "policy", "seal"}

At(x) == Writing(x) /\ Verifying(x)

Decided ==
    /\ submission = "NONE" => control = "CREATED"
    /\ submission = "FINALIZED" => Complete /\ Sound /\ receipt = output
    /\ submission = "NOT_ASSESSED" => Spent

SalvagedIsSound == log["salvaged"] > 0 => Complete /\ Sound /\ receipt = output

ReceiptOfOne == receipt # NoFiles => \E e \in 1 .. execs : \A f \in Names : receipt[f] = e

Kept == \A w \in written : w[2] # 0 /\ (output[w[1]] = w[2] \/ w \in archived)

Counted == log["retry"] + log["lost"] <= failures

Disk == Decided /\ SalvagedIsSound /\ ReceiptOfOne /\ Kept /\ Counted

TaskInv ==
    /\ TypeOK /\ Filing
    /\ Governed => Disk /\ Alone /\ \A s \in Sessions : At(ses[s])

---------------------------------------------------------------------------
USE TaskExecutionAssumption

LEMMA IdleIsTyped ==
  ASSUME TypeOK
  PROVE  /\ 0 \in Contents /\ NoFiles \in [Names -> Contents] /\ 1 \in Names
         /\ Idle \in SesRecords /\ Idle.pc = "idle" /\ Idle.via = "menu"
<1>1. case.execs \in Nat
  BY DEF TypeOK, CaseRecords
<1>2. QED
  BY <1>1 DEF Idle, SesRecords, Steps, Contents, NoFiles, Names

LEMMA InitTaskInv == Init => TaskInv
<1> SUFFICES ASSUME Init PROVE TaskInv
  OBVIOUS
<1>1. case.execs \in Nat /\ case.crashes \in Nat /\ case.changes \in Nat /\ case.commands \in Nat
  BY DEF Init, CaseRecords
<1>2. TypeOK /\ Filing
  BY <1>1 DEF Init, TypeOK, Filing, Contents, NoFiles, Names, Idle, Steps, Effects
<1>3. Disk /\ Alone /\ \A s \in Sessions : At(ses[s])
  BY DEF Init, Disk, Alone, At, Decided, SalvagedIsSound, ReceiptOfOne, Kept, Counted, Writing, Verifying,
     Idle, Effects
<1>4. QED
  BY <1>2, <1>3 DEF TaskInv

---------------------------------------------------------------------------
(* How a step moves the sessions.                                          *)

SessionsKept ==
    /\ ses' \in [Sessions -> SesRecords] /\ Filing'
    /\ Governed => Alone' /\ \A t \in Sessions : At(ses[t])'

LEMMA SessionMove ==
  ASSUME TaskInv, NEW s \in Sessions, NEW x \in SesRecords, ses' = [ses EXCEPT ![s] = x], case' = case,
         x.pc \in {"write", "hash"} => x.file \in Names,
         Governed => \A t \in Sessions : t # s => ses[t].pc = "idle",
         Governed => x.via = "menu" /\ At(x)'
  PROVE  SessionsKept
<1>1. ses \in [Sessions -> SesRecords]
  BY DEF TaskInv, TypeOK, SesRecords
<1>2. \A t \in Sessions : ses'[t] = IF t = s THEN x ELSE ses[t]
  BY <1>1
<1>3. ses' \in [Sessions -> SesRecords]
  BY <1>1
<1>4. Filing'
  BY <1>2 DEF TaskInv, Filing, Names
<1>5. ASSUME Governed PROVE Alone'
  BY <1>2, <1>5 DEF TaskInv, Alone
<1>6. ASSUME Governed, NEW t \in Sessions PROVE At(ses[t])'
  <2>1. CASE t = s
    <3>1. ses'[t] = x /\ At(x)'
      BY <1>2, <1>6, <2>1
    <3>2. QED
      BY <3>1 DEF At, Writing, Verifying
  <2>2. CASE t # s
    <3>1. ses'[t].pc = "idle"
      BY <1>2, <1>6, <2>2
    <3>2. QED
      BY <3>1 DEF At, Writing, Verifying
  <2>3. QED
    BY <2>1, <2>2
<1>7. QED
  BY <1>3, <1>4, <1>5, <1>6 DEF SessionsKept

LEMMA OthersIdle ==
  ASSUME TaskInv, NEW s \in Sessions, ses[s].pc # "idle"
  PROVE  /\ ses[s] \in SesRecords
         /\ Governed => ses[s].via = "menu" /\ At(ses[s]) /\ \A t \in Sessions : t # s => ses[t].pc = "idle"
  BY DEF TaskInv, Alone, TypeOK, SesRecords

LEMMA LeaveMove ==
  ASSUME TaskInv, NEW s \in Sessions, ses[s].pc # "idle", Leave(s), case' = case
  PROVE  SessionsKept
<1>1. Idle \in SesRecords /\ Idle.pc = "idle" /\ Idle.via = "menu"
  BY IdleIsTyped DEF TaskInv
<1>2. At(Idle)'
  BY <1>1 DEF At, Writing, Verifying
<1>3. QED
  BY <1>1, <1>2, SessionMove, OthersIdle DEF Leave

LEMMA GoFields ==
  ASSUME NEW r \in SesRecords, NEW pc \in Steps, NEW x, x = [r EXCEPT !.pc = pc]
  PROVE  /\ x \in SesRecords /\ x.pc = pc /\ x.via = r.via /\ x.exec = r.exec
         /\ x.file = r.file /\ x.hashes = r.hashes
  BY DEF SesRecords

\* x is the session s with its next step.
LEMMA GoMove ==
  ASSUME TaskInv, NEW s \in Sessions, NEW pc \in Steps, ses[s].pc # "idle", Go(s, pc), case' = case,
         pc \in {"write", "hash"} => ses[s].file \in Names,
         NEW x, x = [ses[s] EXCEPT !.pc = pc],
         Governed => At(x)'
  PROVE  SessionsKept
<1>1. ses[s] \in SesRecords /\ ses \in [Sessions -> SesRecords]
  BY DEF TaskInv, TypeOK, SesRecords
<1>2. x \in SesRecords /\ x.pc = pc /\ x.via = ses[s].via /\ x.file = ses[s].file
  BY <1>1, GoFields
<1>3. ses' = [ses EXCEPT ![s] = x]
  BY DEF Go
<1>4. QED
  BY <1>2, <1>3, SessionMove, OthersIdle

\* A session whose attempt has failed.
LEMMA FailMove ==
  ASSUME TaskInv, NEW s \in Sessions, NEW why \in {"content"} \cup Codes, ses[s].pc # "idle", Fail(s, why),
         case' = case, Governed => submission' = "NONE"
  PROVE  SessionsKept
<1>1. ses[s] \in SesRecords
  BY OthersIdle
<1>2. PICK x : x = [ses[s] EXCEPT !.pc = "policy", !.why = why]
  OBVIOUS
<1>3. x \in SesRecords /\ x.pc = "policy" /\ x.via = ses[s].via
  BY <1>1, <1>2 DEF SesRecords, Steps
<1>4. Governed => At(x)'
  BY <1>3 DEF At, Writing, Verifying
<1>5. ses' = [ses EXCEPT ![s] = x]
  BY <1>2 DEF Fail
<1>6. QED
  BY <1>3, <1>4, <1>5, SessionMove, OthersIdle

\* A session that goes on with nothing in hand, or a command that ends.
LEMMA GoOnMove ==
  ASSUME TaskInv, NEW s \in Sessions, NEW pc \in {"look", "ready"}, ses[s].pc # "idle", GoOn(s, pc),
         case' = case,
         Governed /\ pc = "ready" => submission' = "NONE" /\ ~(log'["salvaged"] > 0)
  PROVE  SessionsKept
<1>1. Idle \in SesRecords /\ Idle.pc = "idle" /\ Idle.via = "menu"
  BY IdleIsTyped DEF TaskInv
<1>2. CASE ses[s].via = "menu"
  <2>1. PICK x : x = [Idle EXCEPT !.pc = pc]
    OBVIOUS
  <2>2. x \in SesRecords /\ x.pc = pc /\ x.via = "menu"
    BY <1>1, <2>1, GoFields DEF Steps
  <2>3. Governed => At(x)'
    BY <2>2 DEF At, Writing, Verifying
  <2>4. ses' = [ses EXCEPT ![s] = x]
    BY <1>2, <2>1 DEF GoOn
  <2>5. QED
    BY <2>2, <2>3, <2>4, SessionMove, OthersIdle
<1>3. CASE ses[s].via # "menu"
  BY <1>3, LeaveMove DEF GoOn, Leave
<1>4. QED
  BY <1>2, <1>3

\* A step that writes nothing on the disk.
LEMMA DiskUnchanged ==
  ASSUME TaskInv, SessionsKept, UNCHANGED <<case, disk, execs, bad, history>>, trouble' \subseteq Troubles,
         crashes' \in 0 .. case.crashes, changes' \in 0 .. case.changes, commands' \in 0 .. case.commands
  PROVE  TaskInv'
<1> USE DEF disk, rows, history
<1>1. TypeOK'
  BY DEF TaskInv, TypeOK, SessionsKept, SesRecords, Contents
<1>2. Governed' <=> Governed
  BY DEF Governed
<1>3. ASSUME Governed PROVE Disk'
  BY <1>3 DEF TaskInv, Disk, Decided, SalvagedIsSound, ReceiptOfOne, Kept, Counted, Complete, Present, Sound,
     Spent
<1>4. QED
  BY <1>1, <1>2, <1>3 DEF TaskInv, SessionsKept

LEMMA BoundsUnchanged ==
  ASSUME TaskInv, UNCHANGED <<case, trouble, bounds>>
  PROVE  /\ crashes' \in 0 .. case.crashes /\ changes' \in 0 .. case.changes
         /\ commands' \in 0 .. case.commands /\ trouble' \subseteq Troubles
  BY DEF TaskInv, TypeOK, bounds

---------------------------------------------------------------------------
(* The steps that write nothing.                                           *)

LEMMA LookStep ==
  ASSUME TaskInv, NEW s \in Sessions, Look(s)
  PROVE  TaskInv'
<1>1. CASE Leave(s)
  BY <1>1, LeaveMove, DiskUnchanged, BoundsUnchanged DEF Look, Others
<1>2. CASE submission = "NONE" /\ Complete /\ Go(s, "submit")
  <2> SUFFICES SessionsKept
    BY DiskUnchanged, BoundsUnchanged DEF Look, Others
  <2>1. PICK x : x = [ses[s] EXCEPT !.pc = "submit"]
    OBVIOUS
  <2>2. x.pc = "submit" /\ x.exec = ses[s].exec /\ x.file = ses[s].file /\ x.hashes = ses[s].hashes
    BY <2>1, OthersIdle, GoFields DEF Look, Steps
  <2>3. Governed => At(x)'
    BY <1>2, <2>2, OthersIdle DEF TaskInv, Disk, SalvagedIsSound, Look, At, Writing, Verifying, Complete, Present, Sound, disk, rows, Others, bounds, history
  <2>4. QED
    BY <1>2, <2>1, <2>3, GoMove DEF Look, Others, Steps
<1>3. CASE submission = "NONE" /\ ~Complete /\ Go(s, "launch")
  <2> SUFFICES SessionsKept
    BY DiskUnchanged, BoundsUnchanged DEF Look, Others
  <2>1. PICK x : x = [ses[s] EXCEPT !.pc = "launch"]
    OBVIOUS
  <2>2. x.pc = "launch" /\ x.exec = ses[s].exec /\ x.file = ses[s].file /\ x.hashes = ses[s].hashes
    BY <2>1, OthersIdle, GoFields DEF Look, Steps
  <2>3. Governed => At(x)'
    BY <1>3, <2>2, OthersIdle DEF TaskInv, Disk, SalvagedIsSound, Look, At, Writing, Verifying, Complete, Present, Sound, disk, rows, Others, bounds, history
  <2>4. QED
    BY <1>3, <2>1, <2>3, GoMove DEF Look, Others, Steps
<1>4. QED
  BY <1>1, <1>2, <1>3 DEF Look

LEMMA LaunchStep ==
  ASSUME TaskInv, NEW s \in Sessions, Launch(s)
  PROVE  TaskInv'
<1>1. CASE Present = {} /\ Go(s, "asked")
  <2> SUFFICES SessionsKept
    BY DiskUnchanged, BoundsUnchanged DEF Launch, Others
  <2>1. PICK x : x = [ses[s] EXCEPT !.pc = "asked"]
    OBVIOUS
  <2>2. x.pc = "asked" /\ x.exec = ses[s].exec /\ x.file = ses[s].file /\ x.hashes = ses[s].hashes
    BY <2>1, OthersIdle, GoFields DEF Launch, Steps
  <2>3. Governed => At(x)'
    BY <1>1, <2>2, OthersIdle DEF Launch, At, Writing, Verifying, Complete, Present, Sound, disk, rows, Others, bounds, history, TaskInv, TypeOK, NoFiles
  <2>4. QED
    BY <1>1, <2>1, <2>3, GoMove DEF Launch, Others, Steps
<1>2. CASE Leave(s)
  BY <1>2, LeaveMove, DiskUnchanged, BoundsUnchanged DEF Launch, Others
<1>3. CASE Fail(s, "LLM_TASK_READ_MISSING")
  <2>1. Governed => submission' = "NONE"
    BY OthersIdle DEF Launch, At, Verifying, disk
  <2>2. SessionsKept
    BY <1>3, <2>1, FailMove DEF Launch, Others
  <2>3. QED
    BY <2>2, DiskUnchanged, BoundsUnchanged DEF Launch, Others
<1>4. QED
  BY <1>1, <1>2, <1>3 DEF Launch

LEMMA ReadyStep ==
  ASSUME TaskInv, NEW s \in Sessions, Ready(s)
  PROVE  TaskInv'
<1>1. CASE submission = "NONE" /\ Complete
  <2> SUFFICES SessionsKept
    BY DiskUnchanged, BoundsUnchanged DEF Ready, Others
  <2>1. PICK x : x = [ses[s] EXCEPT !.pc = "submit"]
    OBVIOUS
  <2>2. x.pc = "submit" /\ x.exec = ses[s].exec /\ x.file = ses[s].file /\ x.hashes = ses[s].hashes
    BY <2>1, OthersIdle, GoFields DEF Ready, Steps
  <2>3. Governed => At(x)'
    BY <1>1, <2>2, OthersIdle DEF Ready, At, Writing, Verifying, Complete, Present, Sound, disk, rows, Others, bounds, history
  <2>4. QED
    BY <1>1, <2>1, <2>3, GoMove DEF Ready, Others, Steps
<1>2. CASE ~(submission = "NONE" /\ Complete)
  BY <1>2, LeaveMove, DiskUnchanged, BoundsUnchanged DEF Ready, Others
<1>3. QED
  BY <1>1, <1>2 DEF Ready

LEMMA ContinueStep ==
  ASSUME TaskInv, NEW s \in Sessions, Continue(s)
  PROVE  TaskInv'
<1>1. ses[s] \in SesRecords /\ ses \in [Sessions -> SesRecords]
  BY DEF TaskInv, TypeOK, SesRecords
<1>2. PICK x : x = [ses[s] EXCEPT !.pc = "look"]
  OBVIOUS
<1>3. x \in SesRecords /\ x.pc = "look" /\ x.via = ses[s].via
  BY <1>1, <1>2, GoFields DEF Steps
<1>4. Governed => x.via = "menu" /\ \A t \in Sessions : ses[t].pc = "idle"
  BY <1>3 DEF TaskInv, Alone, Continue, Governed
<1>5. Governed => At(x)'
  BY <1>3 DEF At, Writing, Verifying
<1>6. ses' = [ses EXCEPT ![s] = x] /\ case' = case
  BY <1>2 DEF Continue, Go, Others
<1>7. SessionsKept
  BY <1>3, <1>4, <1>5, <1>6, SessionMove
<1>8. QED
  BY <1>7, DiskUnchanged, BoundsUnchanged DEF Continue, Others

LEMMA CommandStep ==
  ASSUME TaskInv, NEW s \in Sessions, Command(s)
  PROVE  TaskInv'
<1>1. ses \in [Sessions -> SesRecords]
  BY DEF TaskInv, TypeOK, SesRecords
<1>2. ~Governed /\ case' = case
  BY DEF Governed, Command
<1>3. PICK pc \in {"launch", "submit"} :
         ses' = [ses EXCEPT ![s] = [ses[s] EXCEPT !.pc = pc, !.via = "command"]]
  BY <1>1 DEF Command
<1>4. PICK x : x = [ses[s] EXCEPT !.pc = pc, !.via = "command"]
  OBVIOUS
<1>5. x \in SesRecords /\ x.pc = pc
  BY <1>1, <1>4, ZenonT(60) DEF SesRecords, Steps
<1>6. SessionsKept
  BY <1>2, <1>3, <1>4, <1>5, SessionMove
<1>7. /\ crashes' \in 0 .. case.crashes /\ changes' \in 0 .. case.changes
      /\ commands' \in 0 .. case.commands /\ trouble' \subseteq Troubles
  BY DEF Command, TaskInv, TypeOK, CaseRecords
<1>8. QED
  BY <1>6, <1>7, DiskUnchanged DEF Command

LEMMA CrashStep ==
  ASSUME TaskInv, NEW s \in Sessions, Crash(s)
  PROVE  TaskInv'
<1>1. SessionsKept
  BY LeaveMove DEF Crash
<1>2. /\ crashes' \in 0 .. case.crashes /\ changes' \in 0 .. case.changes
      /\ commands' \in 0 .. case.commands /\ trouble' \subseteq Troubles
  BY DEF Crash, TaskInv, TypeOK, CaseRecords, Troubles
<1>3. QED
  BY <1>1, <1>2, DiskUnchanged DEF Crash

\* What happens around the task moves no session.
LEMMA Unmoved ==
  ASSUME TaskInv, UNCHANGED <<case, ses, output, receipt, submission, execs, bad, failures>>, UNCHANGED log
  PROVE  SessionsKept
<1>1. ses' \in [Sessions -> SesRecords] /\ Filing'
  BY DEF TaskInv, TypeOK, SesRecords, Filing
<1>2. ASSUME Governed PROVE Alone' /\ \A t \in Sessions : At(ses[t])'
  BY <1>2 DEF TaskInv, Alone, At, Writing, Verifying, Complete, Present, Sound, Spent
<1>3. QED
  BY <1>1, <1>2 DEF SessionsKept

LEMMA ChangeStep ==
  ASSUME TaskInv, Change
  PROVE  TaskInv'
<1>1. SessionsKept
  BY Unmoved DEF Change, disk, rows, history
<1>2. /\ crashes' \in 0 .. case.crashes /\ changes' \in 0 .. case.changes
      /\ commands' \in 0 .. case.commands
  BY DEF Change, TaskInv, TypeOK, CaseRecords
<1>3. trouble' \subseteq Troubles
  BY DEF Change, TaskInv, TypeOK
<1>4. QED
  BY <1>1, <1>2, <1>3, DiskUnchanged DEF Change

LEMMA OtherUnitSealedStep ==
  ASSUME TaskInv, OtherUnitSealed
  PROVE  TaskInv'
<1> USE DEF Others, bounds, history
<1>1. SessionsKept
  BY Unmoved DEF OtherUnitSealed
<1>2. TypeOK' /\ (Governed' <=> Governed)
  <2>1. sealed' \in [Codes -> Nat]
    BY DEF OtherUnitSealed, TaskInv, TypeOK
  <2>2. QED
    BY <1>1, <2>1 DEF OtherUnitSealed, TaskInv, TypeOK, SessionsKept, SesRecords, Governed, Contents
<1>3. ASSUME Governed PROVE Disk'
  BY <1>3 DEF OtherUnitSealed, TaskInv, Disk, Decided, SalvagedIsSound, ReceiptOfOne, Kept, Counted,
     Complete, Present, Sound, Spent
<1>4. QED
  BY <1>1, <1>2, <1>3 DEF TaskInv, SessionsKept

LEMMA HashOutputStep ==
  ASSUME TaskInv, NEW s \in Sessions, HashOutput(s)
  PROVE  TaskInv'
<1>1. CASE output[ses[s].file] = 0
  BY <1>1, LeaveMove, DiskUnchanged, BoundsUnchanged DEF HashOutput, Others
<1>2. CASE output[ses[s].file] # 0
  <2> SUFFICES SessionsKept
    BY DiskUnchanged, BoundsUnchanged DEF HashOutput, Others
  <2>1. ses[s].file \in Names /\ ses[s] \in SesRecords /\ output \in [Names -> Contents]
    BY OthersIdle DEF HashOutput, TaskInv, Filing, TypeOK
  <2>2. PICK h : h = [ses[s].hashes EXCEPT ![ses[s].file] = output[ses[s].file]]
    OBVIOUS
  <2>3. /\ h \in [Names -> Contents]
        /\ \A f \in Names : h[f] = IF f = ses[s].file THEN output[f] ELSE ses[s].hashes[f]
    BY <2>1, <2>2 DEF SesRecords
  <2>4. PICK x : x = [pc |-> IF ses[s].file = Files THEN "receipt" ELSE "write",
                      file |-> IF ses[s].file = Files THEN ses[s].file ELSE ses[s].file + 1,
                      hashes |-> h, via |-> ses[s].via, exec |-> ses[s].exec, why |-> ses[s].why]
    OBVIOUS
  <2>5. ses' = [ses EXCEPT ![s] = x]
    BY <1>2, <2>2, <2>4 DEF HashOutput
  <2>6. x \in SesRecords /\ (x.pc = "write" => x.file \in Names)
    BY <2>1, <2>3, <2>4 DEF SesRecords, Steps, Names
  <2>7. ASSUME Governed PROVE At(x)'
    <3>1. /\ \A f \in Names :
                /\ f < ses[s].file => output[f] = ses[s].exec /\ ses[s].hashes[f] = ses[s].exec
                /\ f > ses[s].file => output[f] = 0
          /\ output[ses[s].file] = ses[s].exec /\ ses[s].exec \in 1 .. execs
          /\ submission = "NONE" /\ ~(log["salvaged"] > 0)
      BY <2>7, OthersIdle DEF HashOutput, At, Writing, Verifying
    <3>2. Writing(x)'
      <4>1. CASE ses[s].file = Files
        BY <2>1, <2>3, <2>4, <3>1, <4>1 DEF Writing, HashOutput, disk, rows, Others, Names
      <4>2. CASE ses[s].file # Files
        BY <2>1, <2>3, <2>4, <3>1, <4>2, SMTT(60) DEF Writing, HashOutput, disk, rows, Others, Names
      <4>3. QED
        BY <4>1, <4>2
    <3>3. Verifying(x)'
      BY <2>4, <3>1 DEF Verifying, HashOutput, disk, rows
    <3>4. QED
      BY <3>2, <3>3 DEF At
  <2>8. QED
    BY <2>5, <2>6, <2>7, SessionMove, OthersIdle, <2>4 DEF HashOutput, Others
<1>3. QED
  BY <1>1, <1>2

LEMMA VerifyStep ==
  ASSUME TaskInv, NEW s \in Sessions, Verify(s)
  PROVE  TaskInv'
<1> SUFFICES SessionsKept
  BY DiskUnchanged, BoundsUnchanged DEF Verify, Others
<1>1. CASE Leave(s)
  BY <1>1, LeaveMove DEF Verify, Others
<1>2. CASE Fail(s, "VALIDATION_ERROR")
  <2>1. Governed => submission' = "NONE"
    BY OthersIdle DEF Verify, At, Verifying, disk
  <2>2. QED
    BY <1>2, <2>1, FailMove DEF Verify, Others
<1>3. CASE Fit /\ Recorded /\ Go(s, "validate")
  <2>1. PICK x : x = [ses[s] EXCEPT !.pc = "validate"]
    OBVIOUS
  <2>2. x.pc = "validate" /\ x.exec = ses[s].exec /\ x.file = ses[s].file /\ x.hashes = ses[s].hashes
    BY <2>1, OthersIdle, GoFields DEF Verify, Steps
  <2>3. Complete
    BY <1>3 DEF Fit
  <2>4. Governed => receipt = output
    BY <1>3 DEF Recorded, Governed
  <2>5. Governed => At(x)'
    BY <2>2, <2>3, <2>4, OthersIdle DEF Verify, At, Writing, Verifying, Complete, Present, Sound, disk, rows, Others,
       bounds, history
  <2>6. QED
    BY <1>3, <2>1, <2>5, GoMove DEF Verify, Others, Steps
<1>4. QED
  BY <1>1, <1>2, <1>3 DEF Verify, Unfit

---------------------------------------------------------------------------
(* The steps that write.                                                   *)

LEMMA SesTyped == SessionsKept => ses' \in [Sessions -> SesRecords]
  BY DEF SessionsKept

LEMMA AnswerStep ==
  ASSUME TaskInv, NEW s \in Sessions, Answer(s)
  PROVE  TaskInv'
<1> USE DEF disk, rows, history, bounds
<1>1. ses[s] \in SesRecords /\ ses \in [Sessions -> SesRecords]
  BY DEF TaskInv, TypeOK, SesRecords
<1>2. Governed => submission = "NONE" /\ ~(log["salvaged"] > 0) /\ output = NoFiles
  BY OthersIdle DEF Answer, At, Verifying, Writing
<1>3. CASE Leave(s) /\ UNCHANGED <<execs, bad>>
  BY <1>3, LeaveMove, DiskUnchanged, BoundsUnchanged DEF Answer
<1>4. CASE execs < case.execs /\ execs' = execs + 1
  <2>1. execs' \in Contents /\ execs \in Nat /\ Contents' = Contents /\ 1 \in Names /\ 1 \in 0 .. Files
    <3>1. case.execs \in Nat /\ execs \in 0 .. case.execs /\ case' = case
      BY DEF TaskInv, TypeOK, Contents, CaseRecords, Answer
    <3>2. QED
      BY <1>4, <3>1 DEF Contents, Names
  <2>2. SessionsKept /\ bad' \subseteq bad \cup {execs + 1}
    <3>1. CASE bad' = bad /\ \E why \in {"content"} \cup Codes : Fail(s, why)
      <4>1. SessionsKept
        BY <1>2, <3>1, FailMove DEF Answer
      <4>2. QED
        BY <3>1, <4>1
    <3>2. CASE /\ ses' = [ses EXCEPT ![s] = [ses[s] EXCEPT !.pc = "write", !.exec = execs + 1, !.file = 1]]
               /\ bad' \in {bad, bad \cup {execs + 1}}
      <4>1. PICK x : x = [ses[s] EXCEPT !.pc = "write", !.exec = execs + 1, !.file = 1]
        OBVIOUS
      <4>2. x \in SesRecords /\ x.pc = "write" /\ x.via = ses[s].via /\ x.exec = execs + 1 /\ x.file = 1
        <5>1. execs + 1 \in Contents
          BY <1>4, <2>1
        <5>2. QED
          BY <1>1, <2>1, <4>1, <5>1 DEF SesRecords, Steps
      <4>3. Governed => At(x)'
        BY <1>2, <1>4, <2>1, <4>2 DEF At, Verifying, Writing, Answer, NoFiles, Names
      <4>4. SessionsKept
        BY <2>1, <3>2, <4>1, <4>2, <4>3, SessionMove, OthersIdle DEF Answer
      <4>5. QED
        BY <3>2, <4>4
    <3>3. QED
      BY <1>4, <2>1, <3>1, <3>2 DEF Answer
  <2>3. bad' \subseteq 1 .. execs'
    BY <1>4, <2>1, <2>2 DEF TaskInv, TypeOK
  <2>4. TypeOK' /\ (Governed' <=> Governed)
    BY <2>1, <2>2, <2>3 DEF TaskInv, TypeOK, SessionsKept, SesRecords, Answer, Governed
  <2>5. ASSUME Governed PROVE Disk'
    BY <1>2, <1>4, <2>1, <2>5 DEF TaskInv, Disk, Decided, SalvagedIsSound, ReceiptOfOne, Kept, Counted, Answer,
       Spent
  <2>6. QED
    BY <2>2, <2>4, <2>5 DEF TaskInv, SessionsKept
<1>5. QED
  BY <1>3, <1>4 DEF Answer

LEMMA WriteOutputStep ==
  ASSUME TaskInv, NEW s \in Sessions, WriteOutput(s)
  PROVE  TaskInv'
<1> USE DEF rows
<1>1. /\ ses[s].file \in Names /\ ses[s] \in SesRecords /\ output \in [Names -> Contents]
      /\ ses \in [Sessions -> SesRecords]
  BY OthersIdle DEF WriteOutput, TaskInv, Filing, TypeOK, SesRecords
<1>2. /\ output' \in [Names -> Contents]
      /\ \A f \in Names : output'[f] = IF f = ses[s].file THEN ses[s].exec ELSE output[f]
  BY <1>1 DEF WriteOutput, SesRecords
<1>3. PICK x : x = [ses[s] EXCEPT !.pc = "hash"]
  OBVIOUS
<1>4. /\ x \in SesRecords /\ x.pc = "hash" /\ x.exec = ses[s].exec /\ x.file = ses[s].file
      /\ x.hashes = ses[s].hashes
  BY <1>1, <1>3, GoFields DEF Steps
<1>5. ASSUME Governed
      PROVE  /\ submission = "NONE" /\ ~(log["salvaged"] > 0) /\ output[ses[s].file] = 0
             /\ ses[s].exec \in 1 .. execs
             /\ \A f \in Names :
                   /\ f < ses[s].file => output[f] = ses[s].exec /\ ses[s].hashes[f] = ses[s].exec
                   /\ f > ses[s].file => output[f] = 0
  BY <1>5, OthersIdle DEF WriteOutput, At, Verifying, Writing
<1>6. ASSUME Governed PROVE At(x)'
  BY <1>1, <1>2, <1>4, <1>5, <1>6 DEF WriteOutput, At, Verifying, Writing, Names
<1>7. SessionsKept
  BY <1>1, <1>3, <1>6, GoMove DEF WriteOutput, Steps
<1>8. <<ses[s].file, ses[s].exec>> \in Names \X Contents
  BY <1>1 DEF SesRecords
<1>9. TypeOK' /\ (Governed' <=> Governed)
  <2>1. written' \subseteq Names \X Contents
    BY <1>8 DEF WriteOutput, TaskInv, TypeOK
  <2>2. QED
    BY <1>2, <1>7, <2>1 DEF WriteOutput, TaskInv, TypeOK, SessionsKept, SesRecords, bounds, Contents, Governed
<1>10. ASSUME Governed PROVE Kept'
  <2> SUFFICES ASSUME NEW w \in written' PROVE w[2] # 0 /\ (output'[w[1]] = w[2] \/ w \in archived')
    BY DEF Kept
  <2>1. archived' = archived
    BY DEF WriteOutput
  <2>2. CASE w = <<ses[s].file, ses[s].exec>>
    BY <1>1, <1>2, <1>5, <1>10, <2>2
  <2>3. CASE w \in written
    <3>1. w[1] \in Names /\ w[2] \in 0 .. case.execs
      BY <2>3 DEF TaskInv, TypeOK, Contents
    <3>2. output[w[1]] = w[2] \/ w \in archived
      BY <1>10, <2>3 DEF TaskInv, Disk, Kept
    <3>3. w[2] # 0
      BY <2>3, <1>10 DEF TaskInv, Disk, Kept
    <3>4. QED
      BY <1>2, <1>5, <1>10, <2>1, <3>1, <3>2, <3>3
  <2>4. QED
    BY <2>2, <2>3 DEF WriteOutput
<1>11. ASSUME Governed PROVE Decided' /\ SalvagedIsSound' /\ ReceiptOfOne' /\ Counted'
  BY <1>5, <1>11 DEF TaskInv, Disk, Decided, SalvagedIsSound, ReceiptOfOne, Counted, WriteOutput, Spent
<1>12. QED
  BY <1>7, <1>9, <1>10, <1>11 DEF TaskInv, Disk, SessionsKept

LEMMA WriteReceiptStep ==
  ASSUME TaskInv, NEW s \in Sessions, WriteReceipt(s)
  PROVE  TaskInv'
<1> USE DEF Others, rows, bounds, history
<1>1. ses[s] \in SesRecords /\ receipt' \in [Names -> Contents] /\ Contents' = Contents
  BY OthersIdle DEF WriteReceipt, SesRecords, Contents
<1>2. ASSUME Governed
      PROVE  /\ submission = "NONE" /\ ~(log["salvaged"] > 0)
             /\ ses[s].exec \in 1 .. execs /\ \A f \in Names : ses[s].hashes[f] = ses[s].exec
  BY <1>2, OthersIdle DEF WriteReceipt, At, Verifying, Writing
<1>3. SessionsKept
  BY <1>2, GoOnMove DEF WriteReceipt
<1>4. TypeOK' /\ (Governed' <=> Governed)
  BY <1>1, <1>3 DEF WriteReceipt, TaskInv, TypeOK, SessionsKept, SesRecords, Governed
<1>5. ASSUME Governed PROVE Disk'
  BY <1>2, <1>5 DEF WriteReceipt, TaskInv, Disk, Decided, SalvagedIsSound, ReceiptOfOne, Kept, Counted, Spent
<1>6. QED
  BY <1>3, <1>4, <1>5 DEF TaskInv, SessionsKept

LEMMA ValidateStep ==
  ASSUME TaskInv, NEW s \in Sessions, Validate(s)
  PROVE  TaskInv'
<1> USE DEF Others, rows, bounds, history
<1>1. ses[s] \in SesRecords /\ ses \in [Sessions -> SesRecords]
  BY DEF TaskInv, TypeOK, SesRecords
<1>2. PICK n \in Nat :
         /\ log' = [log EXCEPT !["salvaged"] = @ + n]
         /\ ~(Sound \/ case.kind = "bic") => n = 0
  BY DEF Validate
<1>3. /\ log' \in [Effects -> Nat]
      /\ log'["salvaged"] = log["salvaged"] + n
      /\ log'["retry"] = log["retry"] /\ log'["lost"] = log["lost"]
  BY <1>2 DEF TaskInv, TypeOK, Effects
<1>4. ASSUME Governed
      PROVE  /\ submission = "NONE" /\ Complete /\ receipt = output
             /\ log'["salvaged"] > 0 => Sound
  <2>1. case.kind # "bic"
    BY <1>4 DEF Governed
  <2>2. log["salvaged"] \in Nat
    BY DEF TaskInv, TypeOK, Effects
  <2>3. QED
    BY <1>2, <1>3, <1>4, <2>1, <2>2, OthersIdle DEF Validate, At, Verifying, TaskInv, Disk, SalvagedIsSound
<1>5. SessionsKept
  <2>1. CASE ~Complete
    BY <2>1, LeaveMove DEF Validate
  <2>2. CASE Complete /\ Sound
    <3>1. PICK x : x = [ses[s] EXCEPT !.pc = "commit"]
      OBVIOUS
    <3>2. x.pc = "commit"
      BY <1>1, <3>1, GoFields DEF Steps
    <3>3. Governed => At(x)'
      BY <1>4, <2>2, <3>2 DEF Validate, At, Verifying, Writing, Complete, Present, Sound
    <3>4. QED
      BY <2>2, <3>1, <3>3, GoMove DEF Validate, Steps
  <2>3. CASE Complete /\ ~Sound
    <3>1. PICK x : x = [ses[s] EXCEPT !.why = "content", !.pc = IF ses[s].via = "menu" THEN "archive" ELSE "policy"]
      OBVIOUS
    <3>2. /\ x \in SesRecords /\ x.via = ses[s].via
          /\ x.pc = IF ses[s].via = "menu" THEN "archive" ELSE "policy"
      BY <1>1, <3>1 DEF SesRecords, Steps
    <3>3. Governed => At(x)'
      BY <1>3, <1>4, <2>3, <3>2 DEF Validate, At, Verifying, Writing
    <3>4. ses' = [ses EXCEPT ![s] = x]
      BY <2>3, <3>1 DEF Validate
    <3>5. QED
      BY <3>2, <3>3, <3>4, SessionMove, OthersIdle DEF Validate
  <2>4. QED
    BY <2>1, <2>2, <2>3
<1>6. TypeOK' /\ (Governed' <=> Governed)
  BY <1>3, <1>5 DEF Validate, TaskInv, TypeOK, SessionsKept, SesRecords, Governed, Contents
<1>7. ASSUME Governed PROVE Disk'
  BY <1>3, <1>4, <1>7 DEF Validate, TaskInv, Disk, Decided, SalvagedIsSound, ReceiptOfOne, Kept, Counted,
     Complete, Present, Sound
<1>8. QED
  BY <1>5, <1>6, <1>7 DEF TaskInv, SessionsKept

LEMMA CommitStep ==
  ASSUME TaskInv, NEW s \in Sessions, Commit(s)
  PROVE  TaskInv'
<1> USE DEF Others, rows, bounds, history
<1>1. PICK x : x = [ses[s] EXCEPT !.pc = "close"]
  OBVIOUS
<1>2. x.pc = "close"
  BY <1>1, OthersIdle, GoFields DEF Commit, Steps
<1>3. Governed => At(x)'
  BY <1>2 DEF Commit, At, Verifying, Writing
<1>4. SessionsKept
  BY <1>1, <1>3, GoMove DEF Commit, Steps
<1>5. TypeOK' /\ (Governed' <=> Governed)
  BY <1>4 DEF Commit, TaskInv, TypeOK, SessionsKept, SesRecords, Governed, Contents
<1>6. ASSUME Governed PROVE Disk'
  <2>1. Complete /\ Sound /\ receipt = output
    BY <1>6, OthersIdle DEF Commit, At, Verifying
  <2>2. QED
    BY <1>6, <2>1 DEF Commit, TaskInv, Disk, Decided, SalvagedIsSound, ReceiptOfOne, Kept, Counted,
       Complete, Present, Sound
<1>7. QED
  BY <1>4, <1>5, <1>6 DEF TaskInv, SessionsKept

LEMMA CloseControlStep ==
  ASSUME TaskInv, NEW s \in Sessions, CloseControl(s)
  PROVE  TaskInv'
<1> USE DEF Others, rows, bounds, history
<1>1. SessionsKept
  BY LeaveMove DEF CloseControl
<1>2. TypeOK' /\ (Governed' <=> Governed)
  BY <1>1 DEF CloseControl, TaskInv, TypeOK, SessionsKept, SesRecords, Governed, Contents
<1>3. ASSUME Governed PROVE Disk'
  <2>1. submission = "FINALIZED"
    BY <1>3, OthersIdle DEF CloseControl, At, Verifying
  <2>2. QED
    BY <1>3, <2>1 DEF CloseControl, TaskInv, Disk, Decided, SalvagedIsSound, ReceiptOfOne, Kept, Counted,
       Complete, Present, Sound
<1>4. QED
  BY <1>1, <1>2, <1>3 DEF TaskInv, SessionsKept

LEMMA ArchiveOutputStep ==
  ASSUME TaskInv, NEW s \in Sessions, ArchiveOutput(s)
  PROVE  TaskInv'
<1> USE DEF Others, rows, bounds, history
<1>1. PICK x : x = [ses[s] EXCEPT !.pc = "archiveReceipt"]
  OBVIOUS
<1>2. x.pc = "archiveReceipt"
  BY <1>1, OthersIdle, GoFields DEF ArchiveOutput, Steps
<1>3. ASSUME Governed PROVE submission = "NONE" /\ ~(log["salvaged"] > 0)
  BY <1>3, OthersIdle DEF ArchiveOutput, At, Verifying
<1>4. Governed => At(x)'
  BY <1>2, <1>3 DEF ArchiveOutput, At, Verifying, Writing, NoFiles, Names
<1>5. SessionsKept
  BY <1>1, <1>4, GoMove DEF ArchiveOutput, Steps
<1>6. TypeOK' /\ (Governed' <=> Governed)
  <2>1. archived' \subseteq Names \X Contents
    BY DEF ArchiveOutput, TaskInv, TypeOK, Present
  <2>2. output' \in [Names -> Contents]
    BY IdleIsTyped DEF ArchiveOutput, TaskInv
  <2>3. QED
    BY <1>5, <2>1, <2>2 DEF ArchiveOutput, TaskInv, TypeOK, SessionsKept, SesRecords, Governed, Contents
<1>7. ASSUME Governed PROVE Disk'
  <2>1. Kept'
    <3> SUFFICES ASSUME NEW w \in written PROVE w[2] # 0 /\ w \in archived'
      BY DEF Kept, ArchiveOutput
    <3>1. w \in Names \X Contents /\ w[2] # 0 /\ (output[w[1]] = w[2] \/ w \in archived)
      BY <1>7 DEF TaskInv, TypeOK, Disk, Kept
    <3>2. CASE output[w[1]] = w[2]
      <4>1. w[1] \in Present /\ w = <<w[1], output[w[1]]>>
        BY <3>1, <3>2 DEF Present
      <4>2. QED
        BY <3>1, <4>1 DEF ArchiveOutput
    <3>3. CASE w \in archived
      BY <3>1, <3>3 DEF ArchiveOutput
    <3>4. QED
      BY <3>1, <3>2, <3>3
  <2>2. QED
    BY <1>3, <1>7, <2>1 DEF ArchiveOutput, TaskInv, Disk, Decided, SalvagedIsSound, ReceiptOfOne, Counted
<1>8. QED
  BY <1>5, <1>6, <1>7 DEF TaskInv, SessionsKept

LEMMA ArchiveReceiptStep ==
  ASSUME TaskInv, NEW s \in Sessions, ArchiveReceipt(s)
  PROVE  TaskInv'
<1> USE DEF Others, rows, bounds, history
<1>1. PICK x : x = [ses[s] EXCEPT !.pc = "policy"]
  OBVIOUS
<1>2. x.pc = "policy"
  BY <1>1, OthersIdle, GoFields DEF ArchiveReceipt, Steps
<1>3. ASSUME Governed PROVE submission = "NONE" /\ ~(log["salvaged"] > 0)
  BY <1>3, OthersIdle DEF ArchiveReceipt, At, Verifying
<1>4. Governed => At(x)'
  BY <1>2, <1>3 DEF ArchiveReceipt, At, Verifying, Writing
<1>5. SessionsKept
  BY <1>1, <1>4, GoMove DEF ArchiveReceipt, Steps
<1>6. TypeOK' /\ (Governed' <=> Governed)
  <2>1. receipt' \in [Names -> Contents]
    BY IdleIsTyped DEF ArchiveReceipt, TaskInv
  <2>2. QED
    BY <1>5, <2>1 DEF ArchiveReceipt, TaskInv, TypeOK, SessionsKept, SesRecords, Governed, Contents
<1>7. ASSUME Governed PROVE Disk'
  BY <1>3, <1>7 DEF ArchiveReceipt, TaskInv, Disk, Decided, SalvagedIsSound, ReceiptOfOne, Kept, Counted
<1>8. QED
  BY <1>5, <1>6, <1>7 DEF TaskInv, SessionsKept

LEMMA PolicyStep ==
  ASSUME TaskInv, NEW s \in Sessions, Policy(s)
  PROVE  TaskInv'
<1> USE DEF bounds, rows
<1>1. /\ ses[s] \in SesRecords /\ failures \in Nat /\ log \in [Effects -> Nat] /\ sealed \in [Codes -> Nat]
      /\ UNCHANGED <<case, submission>>
  BY OthersIdle DEF Policy, TaskInv, TypeOK
<1>2. ASSUME Governed PROVE submission = "NONE" /\ log["retry"] + log["lost"] <= failures
  BY <1>2, OthersIdle DEF Policy, At, Verifying, TaskInv, Disk, Counted
<1> DEFINE Accounted ==
      /\ log' \in [Effects -> Nat] /\ sealed' \in [Codes -> Nat] /\ failures' \in Nat
      /\ log'["salvaged"] = log["salvaged"]
      /\ Governed => Counted'
<1>3. SessionsKept /\ Accounted
  <2>1. CASE Stop(s)
    BY <1>1, <1>2, <2>1, LeaveMove DEF Policy, Stop, Counted
  <2>2. CASE CapReached /\ GiveUp(s)
    <3>1. PICK x : x = [ses[s] EXCEPT !.pc = "seal"]
      OBVIOUS
    <3>2. x.pc = "seal"
      BY <1>1, <2>2, <3>1, GoFields DEF Steps, Policy
    <3>3. /\ log' \in [Effects -> Nat] /\ log'["salvaged"] = log["salvaged"]
          /\ log'["retry"] = log["retry"] /\ log'["lost"] = log["lost"] + 1
      BY <1>1, <2>2 DEF GiveUp, Effects
    <3>4. sealed' \in [Codes -> Nat] /\ failures' = failures + 1
      BY <1>1, <2>2 DEF GiveUp
    <3>5. log["retry"] \in Nat /\ log["lost"] \in Nat /\ log["salvaged"] \in Nat
      BY <1>1 DEF Effects
    <3>6. Governed => Spent'
      BY <1>1, <1>2, <2>2, <3>3, <3>4, <3>5 DEF CapReached, FailedAttempts, Spent
    <3>7. Governed => At(x)'
      BY <1>1, <1>2, <3>2, <3>6 DEF At, Verifying, Writing, Spent
    <3>8. SessionsKept
      BY <1>1, <2>2, <3>1, <3>7, GoMove DEF GiveUp, Steps, Policy
    <3>9. QED
      BY <1>1, <1>2, <3>3, <3>4, <3>5, <3>8 DEF Counted
  <2>3. CASE Retry(s)
    <3>1. /\ log' \in [Effects -> Nat] /\ log'["salvaged"] = log["salvaged"]
          /\ log'["retry"] = log["retry"] + 1 /\ log'["lost"] = log["lost"]
      BY <1>1, <2>3 DEF Retry, Effects
    <3>2. SessionsKept
      BY <1>1, <2>3, GoOnMove DEF Retry, Policy
    <3>3. log["retry"] \in Nat /\ log["lost"] \in Nat
      BY <1>1 DEF Effects
    <3>4. QED
      BY <1>1, <1>2, <2>3, <3>1, <3>2, <3>3 DEF Retry, Counted
  <2>4. QED
    BY <2>1, <2>2, <2>3 DEF Policy
<1>4. TypeOK' /\ (Governed' <=> Governed)
  BY <1>1, <1>3 DEF Policy, TaskInv, TypeOK, SessionsKept, SesRecords, Governed, Contents
<1>5. ASSUME Governed PROVE Disk'
  BY <1>2, <1>3, <1>5 DEF Policy, TaskInv, Disk, Decided, SalvagedIsSound, ReceiptOfOne, Kept, Complete, Present,
     Sound
<1>6. QED
  BY <1>3, <1>4, <1>5 DEF TaskInv, SessionsKept

LEMMA SealStep ==
  ASSUME TaskInv, NEW s \in Sessions, Seal(s)
  PROVE  TaskInv'
<1> USE DEF Others, rows, bounds, history
<1>1. SessionsKept
  BY LeaveMove DEF Seal
<1>2. TypeOK' /\ (Governed' <=> Governed)
  BY <1>1 DEF Seal, TaskInv, TypeOK, SessionsKept, SesRecords, Governed, Contents
<1>3. ASSUME Governed PROVE Disk'
  <2>1. Spent
    BY <1>3, OthersIdle DEF Seal, At, Verifying
  <2>2. QED
    BY <1>3, <2>1 DEF Seal, TaskInv, Disk, Decided, SalvagedIsSound, ReceiptOfOne, Kept, Counted, Complete, Present,
       Sound, Spent
<1>4. QED
  BY <1>1, <1>2, <1>3 DEF TaskInv, SessionsKept

---------------------------------------------------------------------------
LEMMA TaskInvStep == TaskInv /\ [Next]_vars => TaskInv'
<1> SUFFICES ASSUME TaskInv, [Next]_vars PROVE TaskInv'
  OBVIOUS
<1>1. ASSUME NEW s \in Sessions, Progress(s) PROVE TaskInv'
  BY <1>1, LookStep, LaunchStep, AnswerStep, WriteOutputStep, HashOutputStep, WriteReceiptStep, ReadyStep,
     VerifyStep, ValidateStep, CommitStep, CloseControlStep, ArchiveOutputStep, ArchiveReceiptStep, PolicyStep,
     SealStep DEF Progress, Execution, Submission, Failure
<1>2. CASE UNCHANGED vars
  <2> USE <1>2 DEF vars, disk, rows, bounds, history
  <2>1. TypeOK' /\ Filing' /\ (Governed' <=> Governed)
    BY DEF TaskInv, TypeOK, Filing, Governed, Contents
  <2>2. ASSUME Governed PROVE Disk' /\ Alone' /\ \A s \in Sessions : At(ses[s])'
    BY <2>2 DEF TaskInv, Disk, Alone, Decided, SalvagedIsSound, ReceiptOfOne, Kept, Counted, At, Verifying,
       Writing, Complete, Present, Sound, Spent
  <2>3. QED
    BY <2>1, <2>2 DEF TaskInv
<1>3. QED
  BY <1>1, <1>2, ContinueStep, CommandStep, CrashStep, ChangeStep, OtherUnitSealedStep DEF Next

\* The invariant that the theorems below are read off.
THEOREM TaskInvariant == Spec => []TaskInv
<1>1. Init => TaskInv
  BY InitTaskInv
<1>2. TaskInv /\ [Next]_vars => TaskInv'
  BY TaskInvStep
<1>3. QED
  BY <1>1, <1>2, PTL DEF Spec

\* Type correctness of the execution of a task.
THEOREM TaskTypeCorrect == Spec => []TypeOK
<1>1. TaskInv => TypeOK
  BY DEF TaskInv
<1>2. QED
  BY <1>1, TaskInvariant, PTL

\* No output of a model for a governed task is written over: it is in the output
\* directory or in the archive of attempts.
THEOREM TaskNothingOverwritten == Spec => []NothingOverwritten
<1>1. TaskInv => NothingOverwritten
  BY DEF TaskInv, Disk, Kept, NothingOverwritten
<1>2. QED
  BY <1>1, TaskInvariant, PTL

\* What a governed task finalizes is the whole output of one valid execution.
THEOREM TaskAcceptedAsExecuted == Spec => []AcceptedAsExecuted
<1>1. TaskInv => AcceptedAsExecuted
  <2> SUFFICES ASSUME TaskInv, Governed, submission = "FINALIZED"
               PROVE  /\ receipt = output
                      /\ \E e \in 1 .. execs : e \notin bad /\ output = [f \in Names |-> e]
    BY DEF AcceptedAsExecuted
  <2>1. 1 \in Names /\ Complete /\ Sound /\ receipt = output /\ output \in [Names -> Contents]
    BY IdleIsTyped DEF TaskInv, TypeOK, Disk, Decided
  <2>2. output[1] # 0
    BY <2>1 DEF Complete, Present
  <2>3. receipt # NoFiles
    BY <2>1, <2>2 DEF NoFiles
  <2>4. PICK e \in 1 .. execs : \A f \in Names : receipt[f] = e
    BY <2>3 DEF TaskInv, Disk, ReceiptOfOne
  <2>5. e \notin bad
    BY <2>1, <2>4 DEF Sound
  <2>6. output = [f \in Names |-> e]
    BY <2>1, <2>4
  <2>7. QED
    BY <2>1, <2>5, <2>6
<1>2. QED
  BY <1>1, TaskInvariant, PTL

\* A governed task is given up only after MaxAttempts failed attempts at it, or with
\* rows of accepted output that a kill kept from its commit.
THEOREM TaskSealedAfterCap == Spec => []SealedAfterCap
<1>1. TaskInv => SealedAfterCap
  BY DEF TaskInv, Disk, Decided, SealedAfterCap, Spent
<1>2. QED
  BY <1>1, TaskInvariant, PTL

\* The terminal result of a governed task does not change.
THEOREM TaskResultIsFinal == Spec => ResultIsFinal
<1>1. TaskInv /\ [Next]_vars => [Governed /\ submission # "NONE" => submission' = submission]_vars
  <2> SUFFICES ASSUME TaskInv, Next, Governed, submission # "NONE" PROVE submission' = submission
    OBVIOUS
  <2>1. CASE Change \/ OtherUnitSealed
    BY <2>1 DEF Change, OtherUnitSealed, disk
  <2>2. CASE \E s \in Sessions : Continue(s) \/ Command(s) \/ Progress(s) \/ Crash(s)
    <3>1. PICK s \in Sessions : Continue(s) \/ Command(s) \/ Progress(s) \/ Crash(s)
      BY <2>2
    <3>2. ses[s].pc \in {"idle", "look", "close"}
      BY DEF TaskInv, At, Verifying
    <3>3. QED
      BY <3>1, <3>2 DEF Continue, Command, Crash, Progress, Look, Execution, Launch, Answer, WriteOutput,
         HashOutput, WriteReceipt, Ready, Submission, Verify, Validate, Commit, CloseControl, Failure,
         ArchiveOutput, ArchiveReceipt, Policy, Seal, disk, Others
  <2>3. QED
    BY <2>1, <2>2 DEF Next
<1>2. QED
  BY <1>1, TaskInvariant, PTL DEF Spec, ResultIsFinal
=============================================================================
