------------------------- MODULE JobSnapshotsProofs -------------------------
(***************************************************************************)
(* Jobs, for any sessions, books, imports and dates, whatever is killed or *)
(* fails.                                                                  *)
(***************************************************************************)
EXTENDS JobSnapshots, TLAPS

JobRecords == [state : {"none", "bare", "ACTIVE", "ARCHIVED"}, text : Texts,
               replacedBy : Days \cup {NoDay}]
RunRecords == [state : {"none", "making", "open", "done", "abandoned"},
               files : [Books -> Texts], receipt : Texts, policy : Texts]
MyRecords == [job : Days \cup {NoDay}, new : Days \cup {NoDay}, n : {0} \cup Numbers,
              old : {0} \cup Numbers, todo : SUBSET Books, receipt : Texts, staged : Texts,
              backup : Texts]
LockStates == Sessions \cup {"free", "dead"}

\* A session at work is at work on a Job, except when it makes one by hand.
PlacedAt(step, m) ==
    /\ step \notin CreateSteps \cup {"idle"} => m.job \in Days
    /\ step \in CreateSteps \cup {"lockRefresh", "check", "archive", "dropOld"} => m.new \in Days
    /\ step \in {"copy", "policy", "publish", "point", "abandon", "repoint"} => m.n \in Numbers
    /\ step = "abandon" => m.old \in Numbers

Typed == TypeOK /\ \A s \in Sessions : PlacedAt(pc[s], my[s])

\* What the maker of a Run has put together so far.
Made(step, m, r) ==
    /\ step \in {"copy", "policy", "publish"} => r.state = "making"
    /\ step = "copy" => m.receipt # 0
    /\ step \in {"policy", "publish"} =>
          r.receipt # 0 /\ \A b \in Books : r.files[b] = r.receipt
    /\ step = "publish" /\ setting.tool = "nca" => r.policy = r.receipt

\* Who makes a Run of a Job that nobody removed holds its run-create.lock.
Holding ==
    \A s \in Sessions : pc[s] \in RunSteps /\ my[s].job \notin removed =>
        /\ lock[my[s].job]["create"] = s
        /\ Made(pc[s], my[s], MyRun(s))

\* Nobody has a Job open that has lost its manifest otherwise: who removes one says so.
Opened ==
    \A s \in Sessions : pc[s] \in RunSteps \cup {"lockRun"} /\ my[s].job \notin removed =>
        Manifest(my[s].job)

JobInv == Typed /\ Holding /\ Opened /\ RunEvidenceWhole

---------------------------------------------------------------------------
USE JobSnapshotsAssumption, JobNamesAssumption

LEMMA Records ==
  TypeOK <=>
    /\ setting \in Settings
    /\ wip \in Imports
    /\ job \in [Days -> JobRecords]
    /\ snap \in [Days -> Texts]
    /\ run \in [Days -> [Numbers -> RunRecords]]
    /\ current \in [Days -> {0} \cup Numbers]
    /\ lock \in [Days -> [{"create", "refresh"} -> LockStates]]
    /\ pc \in [Sessions -> Steps]
    /\ my \in [Sessions -> MyRecords]
    /\ deaths \in Nat /\ errors \in Nat
    /\ torn \in SUBSET Days /\ removed \in SUBSET Days
  BY Zenon DEF TypeOK, JobRecords, RunRecords, MyRecords, LockStates

LEMMA Constant ==
  /\ Imports = 1 .. Len(ImportDay) /\ Len(ImportDay) \in Nat /\ 1 \in Imports
  /\ 0 \in Texts /\ Imports \subseteq Texts /\ 0 \notin Imports /\ Texts \subseteq Nat
  /\ NoDay \notin Days /\ \A i \in Imports : ImportDay[i] \in Days
<1>1. Imports = 1 .. Len(ImportDay) /\ Len(ImportDay) \in Nat /\ Len(ImportDay) # 0
  BY DEF Imports
<1>2. \A i \in Imports : ImportDay[i] \in Nat \ {0}
  BY <1>1
<1>3. 1 \in Imports /\ 0 \notin Imports
  BY <1>1
<1>4. NoDay \notin Days /\ \A i \in Imports : ImportDay[i] \in Days
  BY <1>2 DEF Days, NoDay
<1>5. 0 \in Texts /\ Imports \subseteq Texts /\ Texts \subseteq Nat
  BY <1>1 DEF Texts
<1> QED BY <1>1, <1>3, <1>4, <1>5

LEMMA ConstantRecords ==
  /\ NoJob \in JobRecords /\ Bare \in JobRecords /\ \A x \in Texts : Active(x) \in JobRecords
  /\ NoRun \in RunRecords /\ Nothing \in MyRecords
<1>1. NoJob \in JobRecords /\ \A x \in Texts : Active(x) \in JobRecords
  BY Constant DEF NoJob, JobRecords, Active
<1>2. Bare \in JobRecords
  BY Constant DEF Bare, NoJob, JobRecords
<1>3. NoRun \in RunRecords
  BY Constant DEF NoRun, RunRecords
<1>4. Nothing \in MyRecords
  BY Constant DEF Nothing, MyRecords
<1> QED BY <1>1, <1>2, <1>3, <1>4

(***************************************************************************)
(* The fields of changed records.                                          *)
(***************************************************************************)

LEMMA TextFields ==
  ASSUME NEW r \in JobRecords, NEW t \in Texts, NEW x, x = [r EXCEPT !.text = t]
  PROVE  x \in JobRecords /\ x.state = r.state
  BY DEF JobRecords

LEMMA StateFields ==
  ASSUME NEW r \in RunRecords, NEW st \in {"none", "making", "open", "done", "abandoned"},
         NEW x, x = [r EXCEPT !.state = st]
  PROVE  /\ x \in RunRecords /\ x.state = st
         /\ x.files = r.files /\ x.receipt = r.receipt /\ x.policy = r.policy
  BY DEF RunRecords

LEMMA ReceiptFields ==
  ASSUME NEW r \in RunRecords, NEW t \in Texts, NEW x, x = [r EXCEPT !.receipt = t]
  PROVE  x \in RunRecords /\ x.state = r.state /\ x.files = r.files /\ x.receipt = t
  BY DEF RunRecords

LEMMA PolicyFields ==
  ASSUME NEW r \in RunRecords, NEW t \in Texts, NEW x, x = [r EXCEPT !.policy = t]
  PROVE  /\ x \in RunRecords /\ x.state = r.state /\ x.files = r.files
         /\ x.receipt = r.receipt /\ x.policy = t
  BY DEF RunRecords

LEMMA CopyFields ==
  ASSUME NEW r \in RunRecords, NEW t \in Texts, NEW b \in Books, NEW w,
         w = [r EXCEPT !.files[b] = t]
  PROVE  w \in RunRecords /\ w.state = r.state
<1>1. r.files \in [Books -> Texts]
  BY DEF RunRecords
<1>2. [r.files EXCEPT ![b] = t] \in [Books -> Texts]
  BY <1>1
<1>3. w = [r EXCEPT !.files = [r.files EXCEPT ![b] = t]]
  OBVIOUS
<1> QED BY <1>2, <1>3 DEF RunRecords

LEMMA AsideFields ==
  ASSUME NEW r \in MyRecords, NEW t \in Texts
  PROVE  /\ [r EXCEPT !.staged = t] \in MyRecords /\ [r EXCEPT !.backup = t] \in MyRecords
         /\ [r EXCEPT !.staged = t].job = r.job /\ [r EXCEPT !.staged = t].new = r.new
         /\ [r EXCEPT !.backup = t].job = r.job /\ [r EXCEPT !.backup = t].new = r.new
  BY DEF MyRecords

LEMMA TodoFields ==
  ASSUME NEW r \in MyRecords, NEW u \in SUBSET Books, NEW x, x = [r EXCEPT !.todo = u]
  PROVE  x \in MyRecords /\ x.job = r.job /\ x.n = r.n /\ x.receipt = r.receipt
  BY DEF MyRecords

\* A session that begins.
LEMMA StartFields ==
  ASSUME NEW d \in Days, NEW e \in Days, NEW n \in {0} \cup Numbers
  PROVE  /\ {[Nothing EXCEPT !.job = d], [Nothing EXCEPT !.job = d, !.old = n],
             [Nothing EXCEPT !.job = d, !.new = e], [Nothing EXCEPT !.new = e]}
              \subseteq MyRecords
         /\ [Nothing EXCEPT !.job = d].job = d
         /\ [Nothing EXCEPT !.job = d, !.old = n].job = d
         /\ [Nothing EXCEPT !.job = d, !.new = e].job = d
         /\ [Nothing EXCEPT !.job = d, !.new = e].new = e
         /\ [Nothing EXCEPT !.new = e].job = NoDay
         /\ [Nothing EXCEPT !.new = e].new = e
<1>1. PICK r \in MyRecords : r = Nothing
  BY ConstantRecords
<1>2. r.job = NoDay
  BY <1>1 DEF Nothing
<1>3. /\ {[r EXCEPT !.job = d], [r EXCEPT !.job = d, !.old = n],
          [r EXCEPT !.job = d, !.new = e], [r EXCEPT !.new = e]} \subseteq MyRecords
      /\ [r EXCEPT !.job = d].job = d
      /\ [r EXCEPT !.job = d, !.old = n].job = d
      /\ [r EXCEPT !.job = d, !.new = e].job = d
      /\ [r EXCEPT !.job = d, !.new = e].new = e
      /\ [r EXCEPT !.new = e].job = NoDay
      /\ [r EXCEPT !.new = e].new = e
  BY <1>2, ZenonT(60) DEF MyRecords
<1> QED BY <1>1, <1>3, Zenon

(***************************************************************************)
(* Types.                                                                  *)
(***************************************************************************)

\* A session goes to a step with what it then has to know.
LEMMA TypedBy ==
  ASSUME Typed, NEW s \in Sessions, NEW step \in Steps, NEW m \in MyRecords,
         Go(s, step), Learn(s, m), PlacedAt(step, m), setting' = setting,
         wip' \in Imports, job' \in [Days -> JobRecords], snap' \in [Days -> Texts],
         run' \in [Days -> [Numbers -> RunRecords]], current' \in [Days -> {0} \cup Numbers],
         lock' \in [Days -> [{"create", "refresh"} -> LockStates]],
         deaths' \in Nat, errors' \in Nat, torn' \in SUBSET Days, removed' \in SUBSET Days
  PROVE  /\ Typed'
         /\ pc'[s] = step /\ my'[s] = m
         /\ \A t \in Sessions \ {s} : pc'[t] = pc[t] /\ my'[t] = my[t]
<1>1. pc \in [Sessions -> Steps] /\ my \in [Sessions -> MyRecords] /\ setting \in Settings
  BY Records DEF Typed
<1>2. pc' \in [Sessions -> Steps] /\ my' \in [Sessions -> MyRecords]
  BY <1>1 DEF Go, Learn
<1>3. pc'[s] = step /\ my'[s] = m
  BY <1>1 DEF Go, Learn
<1>4. \A t \in Sessions \ {s} : pc'[t] = pc[t] /\ my'[t] = my[t]
  BY <1>1 DEF Go, Learn
<1>5. ASSUME NEW t \in Sessions
      PROVE  PlacedAt(pc'[t], my'[t])
  <2>1. CASE t = s
    BY <2>1, <1>3
  <2>2. CASE t # s
    BY <2>2, <1>4 DEF Typed
  <2> QED BY <2>1, <2>2
<1>6. TypeOK'
  <2>1. setting' \in Settings
    BY <1>1
  <2> QED BY <1>2, <2>1, Zenon DEF TypeOK, JobRecords, RunRecords, MyRecords, LockStates
<1> QED BY <1>3, <1>4, <1>5, <1>6 DEF Typed, PlacedAt

\* What the variables are, to be cited without the definitions of the records.
LEMMA Have ==
  ASSUME Typed
  PROVE  /\ setting \in Settings /\ wip \in Imports /\ wip \in Texts
         /\ job \in [Days -> JobRecords] /\ snap \in [Days -> Texts]
         /\ run \in [Days -> [Numbers -> RunRecords]] /\ current \in [Days -> {0} \cup Numbers]
         /\ lock \in [Days -> [{"create", "refresh"} -> LockStates]]
         /\ pc \in [Sessions -> Steps] /\ my \in [Sessions -> MyRecords]
         /\ deaths \in Nat /\ errors \in Nat /\ torn \in SUBSET Days /\ removed \in SUBSET Days
  BY Records, Constant DEF Typed

LEMMA Mine ==
  ASSUME NEW m \in MyRecords
  PROVE  /\ m.job \in Days \cup {NoDay} /\ m.new \in Days \cup {NoDay}
         /\ m.n \in {0} \cup Numbers /\ m.old \in {0} \cup Numbers /\ m.todo \in SUBSET Books
         /\ m.receipt \in Texts /\ m.staged \in Texts /\ m.backup \in Texts
  BY DEF MyRecords

LEMMA Released ==
  ASSUME Typed, NEW s \in Sessions, my[s].job \in Days, NEW k \in {"create", "refresh"},
         Release(s, k)
  PROVE  /\ lock' \in [Days -> [{"create", "refresh"} -> LockStates]]
         /\ \A d \in Days \ {my[s].job} : lock'[d] = lock[d]
         /\ k = "refresh" => lock'[my[s].job]["create"] = lock[my[s].job]["create"]
  BY Have DEF Release, LockStates

(***************************************************************************)
(* Evidence.                                                               *)
(***************************************************************************)

AtWork == RunSteps \cup {"lockRun"}

\* A step that makes no Run and opens no Job: no session gets further with a Run, every
\* lock of a maker and every manifest stays, and so does every Run.
LEMMA Quiet ==
  ASSUME JobInv, setting' = setting, run' = run, removed' = removed,
         \A t \in Sessions : pc'[t] \in AtWork => pc'[t] = pc[t] /\ my'[t] = my[t],
         \A t \in Sessions, d \in Days :
             pc'[t] \in RunSteps /\ lock[d]["create"] = t => lock'[d]["create"] = t,
         \A d \in Days : Manifest(d) => Manifest(d)'
  PROVE  Holding' /\ Opened' /\ RunEvidenceWhole'
<1>1. \A t \in Sessions : pc[t] \in RunSteps => my[t].job \in Days
  BY DEF JobInv, Typed, PlacedAt, RunSteps, CreateSteps
<1>2. Holding'
  <2> SUFFICES ASSUME NEW t \in Sessions, pc'[t] \in RunSteps, my'[t].job \notin removed'
               PROVE  /\ lock'[my'[t].job]["create"] = t
                      /\ Made(pc[t], my[t], MyRun(t))'
    BY DEF Holding
  <2>1. pc'[t] = pc[t] /\ my'[t] = my[t]
    BY DEF AtWork
  <2>2. lock[my[t].job]["create"] = t /\ Made(pc[t], my[t], MyRun(t))
    BY <2>1 DEF JobInv, Holding
  <2>3. Made(pc[t], my[t], MyRun(t))'
    BY <2>1, <2>2 DEF Made, MyRun
  <2> QED BY <1>1, <2>1, <2>2, <2>3
<1>3. Opened'
  <2> SUFFICES ASSUME NEW t \in Sessions, pc'[t] \in AtWork, my'[t].job \notin removed'
               PROVE  job'[my'[t].job].state \in {"ACTIVE", "ARCHIVED"}
    BY DEF Opened, Manifest, AtWork
  <2>1. pc'[t] = pc[t] /\ my'[t] = my[t]
    OBVIOUS
  <2>2. Manifest(my[t].job) /\ my[t].job \in Days
    BY <2>1 DEF JobInv, Opened, AtWork, Typed, PlacedAt, RunSteps, CreateSteps
  <2>3. job'[my[t].job].state \in {"ACTIVE", "ARCHIVED"}
    BY <2>2 DEF Manifest
  <2> QED BY <2>1, <2>3
<1>4. RunEvidenceWhole'
  BY DEF JobInv, RunEvidenceWhole
<1> QED BY <1>2, <1>3, <1>4

\* A step of the session that makes a Run of d.
LEMMA RunTurn ==
  ASSUME JobInv, NEW s \in Sessions, NEW d \in Days, d = my[s].job, pc[s] \in RunSteps,
         setting' = setting, removed' = removed, job' = job,
         \A t \in Sessions \ {s} : pc'[t] = pc[t] /\ my'[t] = my[t],
         \A e \in Days \ {d} : run'[e] = run[e] /\ lock'[e] = lock[e],
         pc'[s] \in AtWork => my'[s].job = d,
         d \notin removed /\ pc'[s] \in RunSteps =>
             lock'[d]["create"] = s /\ Made(pc[s], my[s], MyRun(s))',
         d \notin removed => \A n \in Numbers : Listed(run[d][n])' =>
             /\ run'[d][n].receipt # 0
             /\ \A b \in Books : run'[d][n].files[b] = run'[d][n].receipt
             /\ setting.tool = "nca" => run'[d][n].policy = run'[d][n].receipt
  PROVE  Holding' /\ Opened' /\ RunEvidenceWhole'
<1>1. \A t \in Sessions : pc[t] \in AtWork => my[t].job \in Days
  BY DEF JobInv, Typed, PlacedAt, RunSteps, CreateSteps, AtWork
<1>2. \A t \in Sessions \ {s} : pc[t] \in RunSteps /\ my[t].job \notin removed => my[t].job # d
  BY DEF JobInv, Holding
<1>3. Holding'
  <2> SUFFICES ASSUME NEW t \in Sessions, pc'[t] \in RunSteps, my'[t].job \notin removed'
               PROVE  /\ lock'[my'[t].job]["create"] = t
                      /\ Made(pc[t], my[t], MyRun(t))'
    BY DEF Holding
  <2>1. CASE t = s
    BY <2>1 DEF AtWork
  <2>2. CASE t # s
    <3>1. pc'[t] = pc[t] /\ my'[t] = my[t] /\ my[t].job # d /\ my[t].job \in Days
      BY <1>1, <1>2, <2>2 DEF AtWork
    <3>2. run'[my[t].job] = run[my[t].job] /\ lock'[my[t].job] = lock[my[t].job]
      BY <3>1
    <3>3. lock[my[t].job]["create"] = t /\ Made(pc[t], my[t], MyRun(t))
      BY <3>1 DEF JobInv, Holding
    <3>4. MyRun(t)' = MyRun(t) /\ pc'[t] = pc[t] /\ my'[t] = my[t]
      BY <3>1, <3>2 DEF MyRun
    <3>5. Made(pc[t], my[t], MyRun(t))'
      BY <3>3, <3>4 DEF Made
    <3> QED BY <3>1, <3>2, <3>3, <3>5
  <2> QED BY <2>1, <2>2
<1>4. Opened'
  <2> SUFFICES ASSUME NEW t \in Sessions, pc'[t] \in AtWork, my'[t].job \notin removed'
               PROVE  job'[my'[t].job].state \in {"ACTIVE", "ARCHIVED"}
    BY DEF Opened, Manifest, AtWork
  <2>1. \A u \in Sessions : pc[u] \in AtWork /\ my[u].job \notin removed => Manifest(my[u].job)
    BY DEF JobInv, Opened, AtWork
  <2>2. my'[t].job \notin removed => Manifest(my'[t].job)
    <3>1. CASE t = s
      BY <2>1, <3>1 DEF AtWork
    <3>2. CASE t # s
      BY <2>1, <3>2
    <3> QED BY <3>1, <3>2
  <2> QED BY <2>2 DEF Manifest
<1>5. RunEvidenceWhole'
  <2> SUFFICES ASSUME NEW e \in Days, e \notin removed, NEW n \in Numbers, Listed(run[e][n])'
               PROVE  /\ run'[e][n].receipt # 0
                      /\ \A b \in Books : run'[e][n].files[b] = run'[e][n].receipt
                      /\ setting.tool = "nca" => run'[e][n].policy = run'[e][n].receipt
    BY DEF RunEvidenceWhole
  <2>1. CASE e = d
    BY <2>1
  <2>2. CASE e # d
    BY <2>2 DEF JobInv, RunEvidenceWhole, Listed
  <2> QED BY <2>1, <2>2
<1> QED BY <1>3, <1>4, <1>5

(***************************************************************************)
(* Steps that share their shape.                                           *)
(***************************************************************************)

LEMMA Stay ==
  ASSUME Typed, NEW s \in Sessions, my' = my
  PROVE  Learn(s, my[s]) /\ my[s] \in MyRecords /\ PlacedAt(pc[s], my[s])
  BY Have DEF Learn, Typed

LEMMA Returned ==
  ASSUME NEW s \in Sessions, Return(s)
  PROVE  /\ Go(s, "idle") /\ Learn(s, Nothing) /\ Nothing \in MyRecords
         /\ PlacedAt("idle", Nothing) /\ "idle" \in Steps \ AtWork
  BY ConstantRecords DEF Return, PlacedAt, CreateSteps, Steps, AtWork, RunSteps

\* A step that makes no Run and opens no Job.
LEMMA QuietTurn ==
  ASSUME JobInv, NEW s \in Sessions, NEW step \in Steps \ AtWork, NEW m \in MyRecords,
         Go(s, step), Learn(s, m), PlacedAt(step, m),
         setting' = setting, wip' = wip, run' = run, removed' = removed,
         job' \in [Days -> JobRecords], \A d \in Days : Manifest(d) => Manifest(d)',
         snap' \in [Days -> Texts], current' \in [Days -> {0} \cup Numbers],
         lock' \in [Days -> [{"create", "refresh"} -> LockStates]],
         \A d \in Days : lock'[d]["create"] = lock[d]["create"],
         deaths' \in Nat, errors' \in Nat, torn' \in SUBSET Days
  PROVE  JobInv'
<1>1. Typed
  BY DEF JobInv
<1>2. /\ Typed' /\ pc'[s] = step
      /\ \A t \in Sessions \ {s} : pc'[t] = pc[t] /\ my'[t] = my[t]
  BY <1>1, Have, TypedBy
<1>3. \A t \in Sessions : pc'[t] \in AtWork => pc'[t] = pc[t] /\ my'[t] = my[t]
  BY <1>2
<1>4. Holding' /\ Opened' /\ RunEvidenceWhole'
  BY <1>3, Quiet
<1> QED BY <1>2, <1>4 DEF JobInv

\* The step gives up the refresh lock.
LEMMA RefuseTurn ==
  ASSUME JobInv, NEW s \in Sessions, Refuse(s), setting' = setting, wip' = wip,
         removed' = removed, deaths' \in Nat, errors' \in Nat, torn' \in SUBSET Days
  PROVE  JobInv'
<1>1. Typed
  BY DEF JobInv
<1>2. my[s].job \in Days \cup {NoDay}
  BY <1>1, Have, Mine
<1>3. /\ lock' \in [Days -> [{"create", "refresh"} -> LockStates]]
      /\ \A d \in Days : lock'[d]["create"] = lock[d]["create"]
  <2>1. CASE my[s].job = NoDay
    BY <1>1, <2>1, Have DEF Refuse, ReleaseRefresh
  <2>2. CASE my[s].job # NoDay
    <3>1. Release(s, "refresh") /\ my[s].job \in Days
      BY <1>2, <2>2 DEF Refuse, ReleaseRefresh
    <3> QED BY <1>1, <3>1, Released
  <2> QED BY <2>1, <2>2
<1>4. job' = job /\ snap' = snap /\ run' = run /\ current' = current /\ Return(s)
  BY DEF Refuse
<1>5. \A d \in Days : Manifest(d) => Manifest(d)'
  BY <1>4 DEF Manifest
<1> QED BY <1>1, <1>3, <1>4, <1>5, Have, Returned, QuietTurn

\* The maker of a Run gives it up.
LEMMA UndoTurn ==
  ASSUME JobInv, NEW s \in Sessions, pc[s] \in RunSteps, UndoRun(s), setting' = setting,
         wip' = wip, removed' = removed, deaths' \in Nat, errors' \in Nat, torn' \in SUBSET Days
  PROVE  JobInv'
<1>1. Typed
  BY DEF JobInv
<1>2. PICK d \in Days : d = my[s].job
  BY <1>1 DEF Typed, PlacedAt, RunSteps, CreateSteps
<1>3. /\ lock' \in [Days -> [{"create", "refresh"} -> LockStates]]
      /\ \A e \in Days \ {d} : lock'[e] = lock[e]
  BY <1>1, <1>2, Released DEF UndoRun
<1>4. my[s].n \in {0} \cup Numbers
  BY <1>1, Have, Mine
<1>5. /\ run' \in [Days -> [Numbers -> RunRecords]]
      /\ \A e \in Days \ {d} : run'[e] = run[e]
      /\ \A n \in Numbers : run'[d][n] = run[d][n] \/ run'[d][n] = NoRun
  <2>1. CASE my[s].n = 0
    BY <1>1, <2>1, Have DEF UndoRun
  <2>2. CASE my[s].n # 0
    <3>1. PICK n \in Numbers : n = my[s].n
      BY <1>4, <2>2
    <3>2. run' = [run EXCEPT ![d][n] = NoRun]
      BY <1>2, <2>2, <3>1 DEF UndoRun, SetRun
    <3> QED BY <1>1, <3>2, Have, ConstantRecords
  <2> QED BY <2>1, <2>2
<1>6. job' = job /\ snap' = snap /\ current' = current /\ Return(s)
  BY DEF UndoRun
<1>7. /\ Typed' /\ pc'[s] = "idle"
      /\ \A t \in Sessions \ {s} : pc'[t] = pc[t] /\ my'[t] = my[t]
  BY <1>1, <1>3, <1>5, <1>6, Have, Returned, TypedBy
<1>8. ASSUME d \notin removed, NEW n \in Numbers, Listed(run[d][n])'
      PROVE  /\ run'[d][n].receipt # 0
             /\ \A b \in Books : run'[d][n].files[b] = run'[d][n].receipt
             /\ setting.tool = "nca" => run'[d][n].policy = run'[d][n].receipt
  <2>1. run'[d][n] # NoRun
    BY <1>8 DEF Listed, NoRun
  <2>2. run'[d][n] = run[d][n] /\ Listed(run[d][n])
    BY <1>5, <1>8, <2>1 DEF Listed
  <2> QED BY <1>8, <2>2 DEF JobInv, RunEvidenceWhole
<1>9. pc'[s] \notin AtWork /\ pc'[s] \notin RunSteps
  BY <1>7 DEF AtWork, RunSteps
<1>10. Holding' /\ Opened' /\ RunEvidenceWhole'
  BY <1>2, <1>3, <1>5, <1>6, <1>7, <1>8, <1>9, RunTurn, SMTT(60)
<1> QED BY <1>7, <1>10 DEF JobInv

\* The maker of a Run goes on with it.
LEMMA MakeTurn ==
  ASSUME JobInv, NEW s \in Sessions, NEW d \in Days, d = my[s].job, NEW n \in Numbers,
         pc[s] \in RunSteps, NEW step \in RunSteps, NEW m \in MyRecords, NEW r \in RunRecords,
         Go(s, step), Learn(s, m), m.job = d, m.n = n,
         run' = [run EXCEPT ![d][n] = r],
         d \notin removed => Made(step, m, r),
         d \notin removed /\ Listed(r) =>
             /\ r.receipt # 0 /\ \A b \in Books : r.files[b] = r.receipt
             /\ setting.tool = "nca" => r.policy = r.receipt,
         UNCHANGED <<wip, job, snap, current, lock, bounds>>
  PROVE  JobInv'
<1>1. Typed
  BY DEF JobInv
<1>2. /\ wip' = wip /\ job' = job /\ snap' = snap /\ current' = current /\ lock' = lock
      /\ setting' = setting /\ deaths' = deaths /\ errors' = errors /\ torn' = torn
      /\ removed' = removed
  BY DEF bounds
<1>3. PlacedAt(step, m) /\ step \in Steps
  BY DEF PlacedAt, RunSteps, CreateSteps, Steps
<1>4. /\ run' \in [Days -> [Numbers -> RunRecords]]
      /\ \A e \in Days \ {d} : run'[e] = run[e]
      /\ run'[d][n] = r /\ \A k \in Numbers \ {n} : run'[d][k] = run[d][k]
  BY <1>1, Have
<1>5. /\ Typed' /\ pc'[s] = step /\ my'[s] = m
      /\ \A t \in Sessions \ {s} : pc'[t] = pc[t] /\ my'[t] = my[t]
  <2>1. PICK g \in Steps : g = step
    BY <1>3
  <2>2. PlacedAt(g, m) /\ Go(s, g)
    BY <1>3, <2>1
  <2>3. /\ setting' = setting /\ wip' \in Imports
        /\ job' \in [Days -> JobRecords] /\ snap' \in [Days -> Texts]
        /\ run' \in [Days -> [Numbers -> RunRecords]] /\ current' \in [Days -> {0} \cup Numbers]
        /\ lock' \in [Days -> [{"create", "refresh"} -> LockStates]]
        /\ deaths' \in Nat /\ errors' \in Nat /\ torn' \in SUBSET Days
        /\ removed' \in SUBSET Days
    BY <1>1, <1>2, <1>4, Have
  <2> QED BY <1>1, <2>1, <2>2, <2>3, TypedBy
<1>6. d \notin removed => lock'[d]["create"] = s /\ Made(pc[s], my[s], MyRun(s))'
  <2>1. d \notin removed => lock[d]["create"] = s
    BY DEF JobInv, Holding
  <2>2. MyRun(s)' = r
    BY <1>4, <1>5 DEF MyRun
  <2>3. Made(step, m, r) => Made(pc[s], my[s], MyRun(s))'
    BY <1>2, <1>5, <2>2 DEF Made
  <2> QED BY <1>2, <2>1, <2>3
<1>7. ASSUME d \notin removed, NEW k \in Numbers, Listed(run[d][k])'
      PROVE  /\ run'[d][k].receipt # 0
             /\ \A b \in Books : run'[d][k].files[b] = run'[d][k].receipt
             /\ setting.tool = "nca" => run'[d][k].policy = run'[d][k].receipt
  <2>1. CASE k = n
    BY <1>4, <1>7, <2>1 DEF Listed
  <2>2. CASE k # n
    <3>1. run'[d][k] = run[d][k] /\ Listed(run[d][k])
      BY <1>4, <1>7, <2>2 DEF Listed
    <3>2. RunEvidenceWhole
      BY DEF JobInv
    <3>3. /\ run[d][k].receipt # 0
          /\ \A b \in Books : run[d][k].files[b] = run[d][k].receipt
          /\ setting.tool = "nca" => run[d][k].policy = run[d][k].receipt
      BY <1>7, <3>1, <3>2 DEF RunEvidenceWhole
    <3> QED BY <3>1, <3>3
  <2> QED BY <2>1, <2>2
<1>8. Holding' /\ Opened' /\ RunEvidenceWhole'
  BY <1>2, <1>4, <1>5, <1>6, <1>7, RunTurn
<1> QED BY <1>5, <1>8 DEF JobInv

\* A Run that is listed is closed.
LEMMA ClosingTurn ==
  ASSUME JobInv, NEW s \in Sessions, NEW d \in Days, NEW n \in Numbers, Listed(run[d][n]),
         NEW r \in RunRecords, run' = [run EXCEPT ![d][n] = r],
         r.state \in {"done", "abandoned"}, r.files = run[d][n].files,
         r.receipt = run[d][n].receipt, r.policy = run[d][n].policy,
         NEW step \in Steps \ AtWork, NEW m \in MyRecords, Go(s, step), Learn(s, m),
         PlacedAt(step, m), current' \in [Days -> {0} \cup Numbers],
         UNCHANGED <<wip, job, snap, lock, bounds>>
  PROVE  JobInv'
<1>1. Typed
  BY DEF JobInv
<1>2. /\ wip' = wip /\ job' = job /\ snap' = snap /\ lock' = lock
      /\ setting' = setting /\ deaths' = deaths /\ errors' = errors /\ torn' = torn
      /\ removed' = removed
  BY DEF bounds
<1>7. /\ run' \in [Days -> [Numbers -> RunRecords]]
      /\ run'[d][n] = r
      /\ \A e \in Days, k \in Numbers : e # d \/ k # n => run'[e][k] = run[e][k]
  BY <1>1, Have
<1>8. /\ Typed' /\ pc'[s] = step /\ my'[s] = m
      /\ \A t \in Sessions \ {s} : pc'[t] = pc[t] /\ my'[t] = my[t]
  <2>1. /\ setting' = setting /\ wip' \in Imports
        /\ job' \in [Days -> JobRecords] /\ snap' \in [Days -> Texts]
        /\ lock' \in [Days -> [{"create", "refresh"} -> LockStates]]
        /\ deaths' \in Nat /\ errors' \in Nat /\ torn' \in SUBSET Days
        /\ removed' \in SUBSET Days
    BY <1>1, <1>2, Have
  <2>2. step \in Steps /\ run' \in [Days -> [Numbers -> RunRecords]]
    BY <1>7
  <2> QED BY <1>1, <2>1, <2>2, TypedBy, SMTT(60)
<1>9. Holding'
  <2> SUFFICES ASSUME NEW t \in Sessions, pc'[t] \in RunSteps, my'[t].job \notin removed'
               PROVE  /\ lock'[my'[t].job]["create"] = t
                      /\ Made(pc[t], my[t], MyRun(t))'
    BY DEF Holding
  <2>1. pc'[t] = pc[t] /\ my'[t] = my[t]
    BY <1>8 DEF AtWork
  <2>2. /\ lock[my[t].job]["create"] = t /\ Made(pc[t], my[t], MyRun(t))
        /\ my[t].job \in Days
    BY <1>2, <2>1 DEF JobInv, Holding, Typed, PlacedAt, RunSteps, CreateSteps
  <2>3. Made(pc[t], my[t], MyRun(t))'
    <3>1. CASE pc[t] \in {"copy", "policy", "publish"}
      <4>1. my[t].n \in Numbers /\ MyRun(t).state = "making"
        BY <1>1, <2>2, <3>1 DEF Typed, PlacedAt, Made
      <4>2. my[t].job # d \/ my[t].n # n
        BY <4>1 DEF MyRun, Listed
      <4>3. MyRun(t)' = MyRun(t)
        BY <1>7, <2>1, <2>2, <4>1, <4>2 DEF MyRun
      <4> QED BY <1>2, <2>1, <2>2, <4>3 DEF Made
    <3>2. CASE pc[t] \notin {"copy", "policy", "publish"}
      BY <2>1, <3>2 DEF Made
    <3> QED BY <3>1, <3>2
  <2> QED BY <1>2, <2>1, <2>2, <2>3
<1>10. Opened'
  <2> SUFFICES ASSUME NEW t \in Sessions, pc'[t] \in AtWork, my'[t].job \notin removed'
               PROVE  job'[my'[t].job].state \in {"ACTIVE", "ARCHIVED"}
    BY DEF Opened, Manifest, AtWork
  <2>1. pc'[t] = pc[t] /\ my'[t] = my[t]
    BY <1>8
  <2> QED BY <1>2, <2>1 DEF JobInv, Opened, Manifest, AtWork
<1>11. RunEvidenceWhole'
  <2> SUFFICES ASSUME NEW e \in Days, e \notin removed, NEW k \in Numbers, Listed(run[e][k])'
               PROVE  /\ run'[e][k].receipt # 0
                      /\ \A b \in Books : run'[e][k].files[b] = run'[e][k].receipt
                      /\ setting.tool = "nca" => run'[e][k].policy = run'[e][k].receipt
    BY <1>2 DEF RunEvidenceWhole
  <2>1. Listed(run[e][k])
    <3>1. CASE e = d /\ k = n
      BY <3>1
    <3>2. CASE e # d \/ k # n
      BY <1>7, <3>2 DEF Listed
    <3> QED BY <3>1, <3>2
  <2>2. /\ run[e][k].receipt # 0
        /\ \A b \in Books : run[e][k].files[b] = run[e][k].receipt
        /\ setting.tool = "nca" => run[e][k].policy = run[e][k].receipt
    BY <2>1 DEF JobInv, RunEvidenceWhole
  <2>3. /\ run'[e][k].files = run[e][k].files /\ run'[e][k].receipt = run[e][k].receipt
        /\ run'[e][k].policy = run[e][k].policy
    BY <1>7
  <2> QED BY <2>2, <2>3
<1> QED BY <1>8, <1>9, <1>10, <1>11 DEF JobInv

\* A Job that is being made is removed, with whatever has come into it.
LEMMA RemoveTurn ==
  ASSUME JobInv, NEW s \in Sessions, pc[s] \in CreateSteps, RemoveNew(s), setting' = setting,
         wip' = wip, deaths' \in Nat, errors' \in Nat, torn' \in SUBSET Days
  PROVE  JobInv'
<1>1. Typed
  BY DEF JobInv
<1>2. PICK d \in Days : d = my[s].new
  BY <1>1 DEF Typed, PlacedAt, RunSteps, CreateSteps
<1>3. /\ job' = [job EXCEPT ![d] = NoJob] /\ snap' = [snap EXCEPT ![d] = 0]
      /\ run' = [run EXCEPT ![d] = [n \in Numbers |-> NoRun]]
      /\ current' = [current EXCEPT ![d] = 0]
      /\ removed' = IF Manifest(d) THEN removed \cup {d} ELSE removed
      /\ Return(s)
  BY <1>2 DEF RemoveNew
<1>4. /\ lock' \in [Days -> [{"create", "refresh"} -> LockStates]]
      /\ \A e \in Days \ {d} : lock'[e]["create"] = lock[e]["create"]
  <2>1. lock' = [e \in Days |-> IF e = d THEN [k \in {"create", "refresh"} |-> "free"]
                                ELSE IF e = my[s].job THEN [lock[e] EXCEPT !["refresh"] = "free"]
                                ELSE lock[e]]
    BY <1>2 DEF RemoveNew
  <2>2. \A e \in Days : lock[e] \in [{"create", "refresh"} -> LockStates]
    BY <1>1, Have
  <2> QED BY <2>1, <2>2 DEF LockStates
<1>5. job' \in [Days -> JobRecords] /\ snap' \in [Days -> Texts]
  BY <1>1, <1>3, Have, Constant, ConstantRecords
<1>6. /\ run' \in [Days -> [Numbers -> RunRecords]]
      /\ \A e \in Days \ {d} : run'[e] = run[e] /\ job'[e] = job[e]
      /\ \A n \in Numbers : run'[d][n] = NoRun
  BY <1>1, <1>3, Have, ConstantRecords
<1>7. current' \in [Days -> {0} \cup Numbers] /\ removed' \in SUBSET Days
  BY <1>1, <1>3, Have
<1>8. /\ Typed' /\ pc'[s] = "idle"
      /\ \A t \in Sessions \ {s} : pc'[t] = pc[t] /\ my'[t] = my[t]
  <2>1. Go(s, "idle") /\ Learn(s, Nothing)
    BY <1>3 DEF Return
  <2>2. wip' \in Imports
    BY <1>1, Have
  <2> QED BY <1>1, <1>3, <1>4, <1>5, <1>6, <1>7, <2>1, <2>2, Returned, TypedBy
<1>9. \A t \in Sessions : pc'[t] \in AtWork =>
          pc'[t] = pc[t] /\ my'[t] = my[t] /\ my[t].job \in Days
  BY <1>1, <1>8 DEF AtWork, RunSteps, CreateSteps, Typed, PlacedAt
<1>10. \A t \in Sessions : pc'[t] \in AtWork /\ my[t].job \notin removed' => my[t].job # d
  BY <1>2, <1>3, <1>9 DEF JobInv, Opened, AtWork
<1>11. removed \subseteq removed'
  BY <1>3
<1>12. Holding'
  <2> SUFFICES ASSUME NEW t \in Sessions, pc'[t] \in RunSteps, my'[t].job \notin removed'
               PROVE  /\ lock'[my'[t].job]["create"] = t
                      /\ Made(pc[t], my[t], MyRun(t))'
    BY DEF Holding
  <2>1. pc'[t] = pc[t] /\ my'[t] = my[t] /\ my[t].job \in Days /\ my[t].job # d
    BY <1>9, <1>10 DEF AtWork
  <2>2. lock[my[t].job]["create"] = t /\ Made(pc[t], my[t], MyRun(t))
    BY <1>11, <2>1 DEF JobInv, Holding
  <2>3. MyRun(t)' = MyRun(t)
    BY <1>6, <2>1 DEF MyRun
  <2>4. Made(pc[t], my[t], MyRun(t))'
    BY <2>1, <2>2, <2>3 DEF Made
  <2> QED BY <1>4, <2>1, <2>2, <2>4
<1>13. Opened'
  <2> SUFFICES ASSUME NEW t \in Sessions, pc'[t] \in AtWork, my'[t].job \notin removed'
               PROVE  job'[my'[t].job].state \in {"ACTIVE", "ARCHIVED"}
    BY DEF Opened, Manifest, AtWork
  <2>1. pc'[t] = pc[t] /\ my'[t] = my[t] /\ my[t].job \in Days /\ my[t].job # d
    BY <1>9, <1>10
  <2> QED BY <1>6, <1>11, <2>1 DEF JobInv, Opened, Manifest, AtWork
<1>14. RunEvidenceWhole'
  <2> SUFFICES ASSUME NEW e \in Days, e \notin removed', NEW k \in Numbers, Listed(run[e][k])'
               PROVE  /\ run'[e][k].receipt # 0
                      /\ \A b \in Books : run'[e][k].files[b] = run'[e][k].receipt
                      /\ setting.tool = "nca" => run'[e][k].policy = run'[e][k].receipt
    BY DEF RunEvidenceWhole
  <2>1. CASE e = d
    BY <1>6, <2>1 DEF Listed, NoRun
  <2>2. CASE e # d
    BY <1>6, <1>11, <2>2 DEF JobInv, RunEvidenceWhole, Listed
  <2> QED BY <2>1, <2>2
<1> QED BY <1>8, <1>12, <1>13, <1>14 DEF JobInv

\* A Job is opened for a new Run.
LEMMA OpenTurn ==
  ASSUME JobInv, NEW s \in Sessions, NEW d \in Days, Manifest(d), NEW m \in MyRecords,
         m.job = d, Go(s, "lockRun"), Learn(s, m), UNCHANGED <<wip, disk, lock, bounds>>
  PROVE  JobInv'
<1>1. Typed
  BY DEF JobInv
<1>2. /\ wip' = wip /\ job' = job /\ snap' = snap /\ run' = run /\ current' = current
      /\ lock' = lock /\ setting' = setting /\ deaths' = deaths /\ errors' = errors
      /\ torn' = torn /\ removed' = removed
  BY DEF bounds, disk
<1>3. PlacedAt("lockRun", m) /\ "lockRun" \in Steps
  BY DEF PlacedAt, CreateSteps, Steps
<1>4. /\ Typed' /\ pc'[s] = "lockRun" /\ my'[s] = m
      /\ \A t \in Sessions \ {s} : pc'[t] = pc[t] /\ my'[t] = my[t]
  BY <1>1, <1>2, <1>3, Have, TypedBy
<1>5. Holding'
  <2> SUFFICES ASSUME NEW t \in Sessions, pc'[t] \in RunSteps, my'[t].job \notin removed'
               PROVE  /\ lock'[my'[t].job]["create"] = t
                      /\ Made(pc[t], my[t], MyRun(t))'
    BY DEF Holding
  <2>1. pc'[t] = pc[t] /\ my'[t] = my[t]
    BY <1>4 DEF RunSteps
  <2>2. lock[my[t].job]["create"] = t /\ Made(pc[t], my[t], MyRun(t))
    BY <1>2, <2>1 DEF JobInv, Holding
  <2>3. Made(pc[t], my[t], MyRun(t))'
    BY <1>2, <2>1, <2>2 DEF Made, MyRun
  <2> QED BY <1>2, <2>1, <2>2, <2>3
<1>6. Opened'
  <2> SUFFICES ASSUME NEW t \in Sessions, pc'[t] \in AtWork, my'[t].job \notin removed'
               PROVE  job'[my'[t].job].state \in {"ACTIVE", "ARCHIVED"}
    BY DEF Opened, Manifest, AtWork
  <2>1. CASE t = s
    BY <1>2, <1>4, <2>1 DEF Manifest
  <2>2. CASE t # s
    BY <1>2, <1>4, <2>2 DEF JobInv, Opened, Manifest, AtWork
  <2> QED BY <2>1, <2>2
<1>7. RunEvidenceWhole'
  BY <1>2 DEF JobInv, RunEvidenceWhole
<1> QED BY <1>4, <1>5, <1>6, <1>7 DEF JobInv

(***************************************************************************)
(* create_run.                                                             *)
(***************************************************************************)

LEMMA StartRunStep ==
  ASSUME JobInv, NEW s \in Sessions, NEW d \in Days, StartRun(s, d) \/ StartRestart(s, d)
  PROVE  JobInv'
<1>1. Manifest(d) /\ UNCHANGED <<wip, disk, lock, bounds>> /\ Go(s, "lockRun")
  BY DEF StartRun, StartRestart, Usable, Loads
<1>2. PICK m \in MyRecords : m.job = d /\ Learn(s, m)
  <2>1. CASE StartRun(s, d)
    BY <2>1, StartFields DEF StartRun
  <2>2. CASE StartRestart(s, d)
    <3>1. current[d] \in {0} \cup Numbers
      BY Have DEF JobInv
    <3>2. ActiveRun(d) \in {0} \cup Numbers
      BY <3>1 DEF ActiveRun
    <3> QED BY <2>2, <3>2, StartFields DEF StartRestart
  <2> QED BY <2>1, <2>2
<1> QED BY <1>1, <1>2, OpenTurn

LEMMA LockRunStep ==
  ASSUME JobInv, NEW s \in Sessions, LockRun(s)
  PROVE  JobInv'
<1>1. Typed /\ pc[s] = "lockRun"
  BY DEF JobInv, LockRun
<1>2. PICK d \in Days : d = my[s].job
  BY <1>1 DEF Typed, PlacedAt, CreateSteps
<1>3. /\ wip' = wip /\ job' = job /\ snap' = snap /\ run' = run /\ current' = current
      /\ setting' = setting /\ deaths' = deaths /\ errors' = errors
      /\ torn' = torn /\ removed' = removed
  BY DEF LockRun, TakeLock, bounds, disk
<1>4. CASE lock[d]["create"] # "free"
  <2>1. Return(s) /\ lock' = lock
    BY <1>2, <1>4 DEF LockRun, TakeLock
  <2>2. \A e \in Days : Manifest(e) => Manifest(e)'
    BY <1>3 DEF Manifest
  <2> QED BY <1>1, <1>3, <2>1, <2>2, Have, Returned, QuietTurn
<1>5. CASE lock[d]["create"] = "free"
  <2>1. lock' = [lock EXCEPT ![d]["create"] = s] /\ Go(s, "begin") /\ my' = my
    BY <1>2, <1>5 DEF LockRun, TakeLock
  <2>2. /\ lock' \in [Days -> [{"create", "refresh"} -> LockStates]]
        /\ lock'[d]["create"] = s /\ \A e \in Days \ {d} : lock'[e] = lock[e]
    BY <1>1, <2>1, Have DEF LockStates
  <2>3. Learn(s, my[s]) /\ my[s] \in MyRecords
    BY <1>1, <2>1, Stay
  <2>4. PlacedAt("begin", my[s]) /\ "begin" \in Steps
    BY <1>2 DEF PlacedAt, CreateSteps, Steps
  <2>5. /\ Typed' /\ pc'[s] = "begin" /\ my'[s] = my[s]
        /\ \A t \in Sessions \ {s} : pc'[t] = pc[t] /\ my'[t] = my[t]
    BY <1>1, <1>3, <2>1, <2>2, <2>3, <2>4, Have, TypedBy
  <2>6. Holding'
    <3> SUFFICES ASSUME NEW t \in Sessions, pc'[t] \in RunSteps, my'[t].job \notin removed'
                 PROVE  /\ lock'[my'[t].job]["create"] = t
                        /\ Made(pc[t], my[t], MyRun(t))'
      BY DEF Holding
    <3>1. CASE t = s
      BY <1>2, <2>2, <2>5, <3>1 DEF Made
    <3>2. CASE t # s
      <4>1. pc'[t] = pc[t] /\ my'[t] = my[t]
        BY <2>5, <3>2
      <4>2. /\ lock[my[t].job]["create"] = t /\ Made(pc[t], my[t], MyRun(t))
            /\ my[t].job \in Days
        BY <1>3, <4>1 DEF JobInv, Holding, Typed, PlacedAt, RunSteps, CreateSteps
      <4>3. my[t].job # d
        BY <1>5, <4>2
      <4>4. Made(pc[t], my[t], MyRun(t))'
        BY <1>3, <4>1, <4>2 DEF Made, MyRun
      <4> QED BY <2>2, <4>1, <4>2, <4>3, <4>4
    <3> QED BY <3>1, <3>2
  <2>7. Opened'
    <3> SUFFICES ASSUME NEW t \in Sessions, pc'[t] \in AtWork, my'[t].job \notin removed'
                 PROVE  job'[my'[t].job].state \in {"ACTIVE", "ARCHIVED"}
      BY DEF Opened, Manifest, AtWork
    <3>1. pc[t] \in AtWork /\ my'[t] = my[t]
      BY <1>1, <2>5 DEF AtWork
    <3> QED BY <1>3, <3>1 DEF JobInv, Opened, Manifest, AtWork
  <2>8. RunEvidenceWhole'
    BY <1>3 DEF JobInv, RunEvidenceWhole
  <2> QED BY <2>5, <2>6, <2>7, <2>8 DEF JobInv
<1> QED BY <1>4, <1>5

LEMMA BeginStep ==
  ASSUME JobInv, NEW s \in Sessions, Begin(s)
  PROVE  JobInv'
<1>1. Typed /\ pc[s] \in RunSteps /\ UNCHANGED <<wip, bounds>>
  BY DEF JobInv, Begin, RunSteps
<1>2. CASE UndoRun(s)
  BY <1>1, <1>2, Have, UndoTurn DEF bounds
<1>3. CASE ~UndoRun(s)
  <2>1. PICK d \in Days : d = my[s].job
    BY <1>1 DEF Typed, PlacedAt, RunSteps, CreateSteps
  <2>2. PICK n \in Numbers :
            /\ run' = [run EXCEPT ![d][n] = [NoRun EXCEPT !.state = "making"]]
            /\ Go(s, "copy") /\ snap[d] # 0
            /\ Learn(s, [my[s] EXCEPT !.n = n, !.receipt = snap[d], !.todo = Books])
            /\ UNCHANGED <<job, snap, current, lock>>
    BY <1>3, <2>1 DEF Begin
  <2>3. PICK r : r = [NoRun EXCEPT !.state = "making"]
    OBVIOUS
  <2>4. r \in RunRecords /\ r.state = "making"
    <3>1. PICK q \in RunRecords : q = NoRun
      BY ConstantRecords
    <3>2. r = [q EXCEPT !.state = "making"]
      BY <2>3, <3>1
    <3> QED BY <3>2, StateFields
  <2>5. PICK m : m = [my[s] EXCEPT !.n = n, !.receipt = snap[d], !.todo = Books]
    OBVIOUS
  <2>6. m \in MyRecords /\ m.job = d /\ m.n = n /\ m.receipt # 0
    <3>1. snap[d] \in Texts /\ my[s] \in MyRecords
      BY <1>1, Have
    <3>2. m \in MyRecords /\ m.job = my[s].job /\ m.n = n /\ m.receipt = snap[d]
      <4>1. PICK q \in MyRecords, t \in Texts : q = my[s] /\ t = snap[d]
        BY <3>1
      <4>2. m = [q EXCEPT !.n = n, !.receipt = t, !.todo = Books]
        BY <2>5, <4>1
      <4>3. m \in MyRecords /\ m.job = q.job /\ m.n = n /\ m.receipt = t
        BY <4>2 DEF MyRecords
      <4> QED BY <4>1, <4>3
    <3> QED BY <2>1, <2>2, <3>2
  <2>7. run' = [run EXCEPT ![d][n] = r] /\ Learn(s, m) /\ Go(s, "copy")
    BY <2>2, <2>3, <2>5
  <2>8. Made("copy", m, r) /\ ~Listed(r)
    BY <2>4, <2>6 DEF Made, Listed
  <2>9. UNCHANGED <<wip, job, snap, current, lock, bounds>> /\ "copy" \in RunSteps
    BY <1>1, <2>2 DEF RunSteps
  <2> QED BY <1>1, <2>1, <2>4, <2>6, <2>7, <2>8, <2>9, MakeTurn
<1> QED BY <1>2, <1>3

LEMMA CopyBookStep ==
  ASSUME JobInv, NEW s \in Sessions, CopyBook(s)
  PROVE  JobInv'
<1>1. Typed /\ pc[s] = "copy" /\ pc[s] \in RunSteps /\ UNCHANGED <<wip, bounds>>
  BY DEF JobInv, CopyBook, RunSteps
<1>2. CASE UndoRun(s)
  BY <1>1, <1>2, Have, UndoTurn DEF bounds
<1>3. CASE ~UndoRun(s)
  <2>1. PICK d \in Days, n \in Numbers : d = my[s].job /\ n = my[s].n
    BY <1>1 DEF Typed, PlacedAt, RunSteps, CreateSteps
  <2>2. PICK b \in my[s].todo :
            /\ SetRun(s, [MyRun(s) EXCEPT !.files[b] = snap[my[s].job]])
            /\ Learn(s, [my[s] EXCEPT !.todo = @ \ {b}])
            /\ UNCHANGED <<pc, job, snap, current, lock>>
    BY <1>3 DEF CopyBook
  <2>3. PICK r : r = [run[d][n] EXCEPT !.files[b] = snap[d]]
    OBVIOUS
  <2>4. PICK m : m = [my[s] EXCEPT !.todo = my[s].todo \ {b}]
    OBVIOUS
  <2>5. /\ snap[d] \in Texts /\ run[d][n] \in RunRecords /\ my[s] \in MyRecords
        /\ my[s].todo \in SUBSET Books
    BY <1>1, Have, Mine
  <2>6. r \in RunRecords /\ r.state = run[d][n].state
    <3>1. PICK q \in RunRecords, t \in Texts : q = run[d][n] /\ t = snap[d]
      BY <2>5
    <3>2. r = [q EXCEPT !.files[b] = t] /\ b \in Books
      BY <2>3, <2>5, <3>1
    <3>3. r \in RunRecords /\ r.state = q.state
      BY <3>2, CopyFields
    <3> QED BY <3>1, <3>3
  <2>7. m \in MyRecords /\ m.job = d /\ m.n = n /\ m.receipt = my[s].receipt
    <3>1. PICK q \in MyRecords, u \in SUBSET Books : q = my[s] /\ u = my[s].todo \ {b}
      BY <2>5
    <3>2. m = [q EXCEPT !.todo = u]
      BY <2>4, <3>1
    <3>3. m \in MyRecords /\ m.job = q.job /\ m.n = q.n /\ m.receipt = q.receipt
      BY <3>2, TodoFields
    <3> QED BY <2>1, <3>1, <3>3
  <2>8. run' = [run EXCEPT ![d][n] = r]
    BY <2>1, <2>2, <2>3 DEF SetRun, MyRun
  <2>9. Learn(s, m)
    BY <2>2, <2>4
  <2>10. d \notin removed => Made("copy", my[s], run[d][n])
    BY <1>1, <2>1 DEF JobInv, Holding, MyRun
  <2>11. d \notin removed => Made("copy", m, r) /\ ~Listed(r)
    BY <2>6, <2>7, <2>10 DEF Made, Listed
  <2>12. UNCHANGED <<wip, job, snap, current, lock, bounds>> /\ "copy" \in RunSteps
    BY <1>1, <2>2 DEF RunSteps
  <2>13. Go(s, "copy")
    BY <1>1, <2>2, Have DEF Go
  <2> QED BY <1>1, <2>1, <2>6, <2>7, <2>8, <2>9, <2>11, <2>12, <2>13, MakeTurn
<1> QED BY <1>2, <1>3

LEMMA SealStep ==
  ASSUME JobInv, NEW s \in Sessions, Seal(s)
  PROVE  JobInv'
<1>1. Typed /\ pc[s] = "copy" /\ pc[s] \in RunSteps /\ UNCHANGED <<wip, bounds>>
  BY DEF JobInv, Seal, RunSteps
<1>2. CASE UndoRun(s)
  BY <1>1, <1>2, Have, UndoTurn DEF bounds
<1>3. CASE ~UndoRun(s)
  <2>1. PICK d \in Days, n \in Numbers : d = my[s].job /\ n = my[s].n
    BY <1>1 DEF Typed, PlacedAt, RunSteps, CreateSteps
  <2>2. /\ \A b \in Books : run[d][n].files[b] = my[s].receipt
        /\ run' = [run EXCEPT ![d][n] = [run[d][n] EXCEPT !.receipt = my[s].receipt]]
        /\ UNCHANGED <<wip, job, snap, current, lock, bounds>> /\ my' = my
    BY <1>1, <1>3, <2>1 DEF Seal, MyRun, SetRun
  <2>3. PICK step \in {"policy", "publish"} :
            Go(s, step) /\ (setting.tool = "nca" => step = "policy")
    BY <1>3 DEF Seal
  <2>4. PICK r : r = [run[d][n] EXCEPT !.receipt = my[s].receipt]
    OBVIOUS
  <2>5. run[d][n] \in RunRecords /\ my[s] \in MyRecords /\ my[s].receipt \in Texts
    BY <1>1, Have, Mine
  <2>6. /\ r \in RunRecords /\ r.state = run[d][n].state /\ r.files = run[d][n].files
        /\ r.receipt = my[s].receipt
    <3>1. PICK q \in RunRecords, t \in Texts : q = run[d][n] /\ t = my[s].receipt
      BY <2>5
    <3>2. r = [q EXCEPT !.receipt = t]
      BY <2>4, <3>1
    <3>3. r \in RunRecords /\ r.state = q.state /\ r.files = q.files /\ r.receipt = t
      BY <3>2, ReceiptFields
    <3> QED BY <3>1, <3>3
  <2>7. run' = [run EXCEPT ![d][n] = r]
    BY <2>2, <2>4
  <2>8. d \notin removed => Made("copy", my[s], run[d][n])
    BY <1>1, <2>1 DEF JobInv, Holding, MyRun
  <2>9. d \notin removed => Made(step, my[s], r) /\ ~Listed(r)
    <3>1. \A b \in Books : run[d][n].files[b] = my[s].receipt
      BY <2>2
    <3> QED BY <2>3, <2>6, <2>8, <3>1 DEF Made, Listed
  <2>10. Learn(s, my[s])
    BY <1>1, <2>2, Stay
  <2>11. step \in RunSteps /\ my[s].job = d /\ my[s].n = n
    BY <2>1 DEF RunSteps
  <2>12. UNCHANGED <<wip, job, snap, current, lock, bounds>>
    BY <2>2
  <2> QED BY <1>1, <2>3, <2>5, <2>6, <2>7, <2>9, <2>10, <2>11, <2>12, MakeTurn
<1> QED BY <1>2, <1>3

LEMMA SealPolicyStep ==
  ASSUME JobInv, NEW s \in Sessions, SealPolicy(s)
  PROVE  JobInv'
<1>1. Typed /\ pc[s] = "policy" /\ pc[s] \in RunSteps /\ UNCHANGED <<wip, bounds>>
  BY DEF JobInv, SealPolicy, RunSteps
<1>2. CASE UndoRun(s)
  BY <1>1, <1>2, Have, UndoTurn DEF bounds
<1>3. CASE ~UndoRun(s)
  <2>1. PICK d \in Days, n \in Numbers : d = my[s].job /\ n = my[s].n
    BY <1>1 DEF Typed, PlacedAt, RunSteps, CreateSteps
  <2>2. /\ run' = [run EXCEPT ![d][n] = [run[d][n] EXCEPT !.policy = snap[d]]]
        /\ snap[d] = run[d][n].receipt /\ Go(s, "publish")
        /\ UNCHANGED <<wip, job, snap, current, lock, bounds>> /\ my' = my
    BY <1>1, <1>3, <2>1 DEF SealPolicy, MyRun, SetRun
  <2>3. PICK r : r = [run[d][n] EXCEPT !.policy = snap[d]]
    OBVIOUS
  <2>4. run[d][n] \in RunRecords /\ my[s] \in MyRecords /\ snap[d] \in Texts
    BY <1>1, Have
  <2>5. /\ r \in RunRecords /\ r.state = run[d][n].state /\ r.files = run[d][n].files
        /\ r.receipt = run[d][n].receipt /\ r.policy = snap[d]
    <3>1. PICK q \in RunRecords, t \in Texts : q = run[d][n] /\ t = snap[d]
      BY <2>4
    <3>2. r = [q EXCEPT !.policy = t]
      BY <2>3, <3>1
    <3>3. /\ r \in RunRecords /\ r.state = q.state /\ r.files = q.files
          /\ r.receipt = q.receipt /\ r.policy = t
      BY <3>2, PolicyFields
    <3> QED BY <3>1, <3>3
  <2>6. run' = [run EXCEPT ![d][n] = r]
    BY <2>2, <2>3
  <2>7. d \notin removed => Made("policy", my[s], run[d][n])
    BY <1>1, <2>1 DEF JobInv, Holding, MyRun
  <2>8. d \notin removed => Made("publish", my[s], r) /\ ~Listed(r)
    <3>1. snap[d] = run[d][n].receipt
      BY <2>2
    <3> QED BY <2>5, <2>7, <3>1 DEF Made, Listed
  <2>9. Learn(s, my[s]) /\ Go(s, "publish")
    BY <1>1, <2>2, Stay
  <2>10. "publish" \in RunSteps /\ my[s].job = d /\ my[s].n = n
    BY <2>1 DEF RunSteps
  <2>11. UNCHANGED <<wip, job, snap, current, lock, bounds>>
    BY <2>2
  <2> QED BY <1>1, <2>4, <2>5, <2>6, <2>8, <2>9, <2>10, <2>11, MakeTurn
<1> QED BY <1>2, <1>3

LEMMA PublishRunStep ==
  ASSUME JobInv, NEW s \in Sessions, PublishRun(s)
  PROVE  JobInv'
<1>1. Typed /\ pc[s] = "publish" /\ pc[s] \in RunSteps
  BY DEF JobInv, PublishRun, RunSteps
<1>2. PICK d \in Days, n \in Numbers : d = my[s].job /\ n = my[s].n
  BY <1>1 DEF Typed, PlacedAt, RunSteps, CreateSteps
<1>3. /\ run' = [run EXCEPT ![d][n] = [run[d][n] EXCEPT !.state = "open"]]
      /\ Go(s, "point") /\ my' = my
      /\ UNCHANGED <<wip, job, snap, current, lock, bounds>>
  BY <1>2 DEF PublishRun, MyRun, SetRun
<1>4. PICK r : r = [run[d][n] EXCEPT !.state = "open"]
  OBVIOUS
<1>5. run[d][n] \in RunRecords /\ my[s] \in MyRecords
  BY <1>1, Have
<1>6. /\ r \in RunRecords /\ r.state = "open" /\ r.files = run[d][n].files
      /\ r.receipt = run[d][n].receipt /\ r.policy = run[d][n].policy
  <2>1. PICK q \in RunRecords : q = run[d][n]
    BY <1>5
  <2>2. r = [q EXCEPT !.state = "open"]
    BY <1>4, <2>1
  <2>3. /\ r \in RunRecords /\ r.state = "open" /\ r.files = q.files
        /\ r.receipt = q.receipt /\ r.policy = q.policy
    BY <2>2, StateFields
  <2> QED BY <2>1, <2>3
<1>7. run' = [run EXCEPT ![d][n] = r]
  BY <1>3, <1>4
<1>8. d \notin removed => Made("publish", my[s], run[d][n])
  BY <1>1, <1>2 DEF JobInv, Holding, MyRun
<1>9. d \notin removed => /\ Made("point", my[s], r)
                          /\ r.receipt # 0 /\ \A b \in Books : r.files[b] = r.receipt
                          /\ setting.tool = "nca" => r.policy = r.receipt
  BY <1>6, <1>8 DEF Made
<1>10. Learn(s, my[s]) /\ Go(s, "point")
  BY <1>1, <1>3, Stay
<1>11. "point" \in RunSteps /\ my[s].job = d /\ my[s].n = n
  BY <1>2 DEF RunSteps
<1>12. UNCHANGED <<wip, job, snap, current, lock, bounds>>
  BY <1>3
<1> QED BY <1>1, <1>5, <1>6, <1>7, <1>9, <1>10, <1>11, <1>12, MakeTurn

LEMMA PointRunStep ==
  ASSUME JobInv, NEW s \in Sessions, PointRun(s)
  PROVE  JobInv'
<1>1. Typed /\ pc[s] = "point" /\ pc[s] \in RunSteps
  BY DEF JobInv, PointRun, RunSteps
<1>2. PICK d \in Days, n \in Numbers : d = my[s].job /\ n = my[s].n
  BY <1>1 DEF Typed, PlacedAt, RunSteps, CreateSteps
<1>3. /\ current' = [current EXCEPT ![d] = n] /\ Release(s, "create")
      /\ wip' = wip /\ job' = job /\ snap' = snap /\ run' = run
      /\ setting' = setting /\ deaths' = deaths /\ errors' = errors
      /\ torn' = torn /\ removed' = removed
  BY <1>2 DEF PointRun, bounds
<1>4. PICK step \in {"idle", "abandon"}, m \in MyRecords :
          Go(s, step) /\ Learn(s, m) /\ PlacedAt(step, m)
  <2>1. CASE my[s].old = 0
    <3>1. Return(s)
      BY <2>1 DEF PointRun
    <3> QED BY <3>1, Returned
  <2>2. CASE my[s].old # 0
    <3>1. Go(s, "abandon") /\ my' = my
      BY <2>2 DEF PointRun
    <3>2. Learn(s, my[s]) /\ my[s] \in MyRecords
      BY <1>1, <3>1, Stay
    <3>3. PlacedAt("abandon", my[s])
      BY <1>2, <2>2, <3>2, Mine DEF PlacedAt, CreateSteps
    <3> QED BY <3>1, <3>2, <3>3
  <2> QED BY <2>1, <2>2
<1>5. /\ lock' \in [Days -> [{"create", "refresh"} -> LockStates]]
      /\ \A e \in Days \ {d} : lock'[e] = lock[e]
  BY <1>1, <1>2, <1>3, Released
<1>6. current' \in [Days -> {0} \cup Numbers]
  BY <1>1, <1>3, Have
<1>7. /\ Typed' /\ pc'[s] = step
      /\ \A t \in Sessions \ {s} : pc'[t] = pc[t] /\ my'[t] = my[t]
  <2>1. /\ setting' = setting /\ wip' \in Imports
        /\ job' \in [Days -> JobRecords] /\ snap' \in [Days -> Texts]
        /\ run' \in [Days -> [Numbers -> RunRecords]]
        /\ deaths' \in Nat /\ errors' \in Nat /\ torn' \in SUBSET Days
        /\ removed' \in SUBSET Days
    BY <1>1, <1>3, Have
  <2>2. step \in Steps
    BY DEF Steps
  <2> QED BY <1>1, <1>4, <1>5, <1>6, <2>1, <2>2, TypedBy
<1>8. pc'[s] \notin AtWork /\ pc'[s] \notin RunSteps
  BY <1>7 DEF AtWork, RunSteps
<1>9. ASSUME d \notin removed, NEW k \in Numbers, Listed(run[d][k])'
      PROVE  /\ run'[d][k].receipt # 0
             /\ \A b \in Books : run'[d][k].files[b] = run'[d][k].receipt
             /\ setting.tool = "nca" => run'[d][k].policy = run'[d][k].receipt
  BY <1>3, <1>9 DEF JobInv, RunEvidenceWhole, Listed
<1>10. Holding' /\ Opened' /\ RunEvidenceWhole'
  BY <1>1, <1>2, <1>3, <1>5, <1>7, <1>8, <1>9, RunTurn
<1> QED BY <1>7, <1>10 DEF JobInv

LEMMA AbandonOldStep ==
  ASSUME JobInv, NEW s \in Sessions, AbandonOld(s)
  PROVE  JobInv'
<1>1. Typed /\ pc[s] = "abandon"
  BY DEF JobInv, AbandonOld
<1>2. PICK d \in Days, n \in Numbers : d = my[s].job /\ n = my[s].old
  BY <1>1 DEF Typed, PlacedAt, CreateSteps
<1>3. /\ wip' = wip /\ job' = job /\ snap' = snap /\ current' = current /\ lock' = lock
      /\ setting' = setting /\ deaths' = deaths /\ errors' = errors
      /\ torn' = torn /\ removed' = removed
  BY DEF AbandonOld, bounds
<1>4. CASE Loads(d) /\ Listed(run[d][n])
  <2>1. /\ run' = [run EXCEPT ![d][n] = [run[d][n] EXCEPT !.state = "abandoned"]]
        /\ Go(s, "repoint") /\ my' = my
    BY <1>2, <1>4 DEF AbandonOld
  <2>2. PICK r : r = [run[d][n] EXCEPT !.state = "abandoned"]
    OBVIOUS
  <2>3. /\ r \in RunRecords /\ r.state \in {"done", "abandoned"} /\ r.files = run[d][n].files
        /\ r.receipt = run[d][n].receipt /\ r.policy = run[d][n].policy
    <3>1. PICK q \in RunRecords : q = run[d][n]
      BY <1>1, Have
    <3>2. r = [q EXCEPT !.state = "abandoned"]
      BY <2>2, <3>1
    <3>3. /\ r \in RunRecords /\ r.state = "abandoned" /\ r.files = q.files
          /\ r.receipt = q.receipt /\ r.policy = q.policy
      BY <3>2, StateFields
    <3> QED BY <3>1, <3>3
  <2>4. run' = [run EXCEPT ![d][n] = r]
    BY <2>1, <2>2
  <2>5. Learn(s, my[s]) /\ my[s] \in MyRecords /\ PlacedAt("abandon", my[s])
    BY <1>1, <2>1, Stay
  <2>6. PlacedAt("repoint", my[s]) /\ "repoint" \in Steps \ AtWork
    BY <2>5 DEF PlacedAt, CreateSteps, Steps, AtWork, RunSteps
  <2>7. Go(s, "repoint") /\ current' \in [Days -> {0} \cup Numbers]
    BY <1>1, <1>3, <2>1, Have
  <2>8. UNCHANGED <<wip, job, snap, lock, bounds>>
    BY <1>3 DEF bounds
  <2> QED BY <1>4, <2>3, <2>4, <2>5, <2>6, <2>7, <2>8, ClosingTurn
<1>5. CASE ~(Loads(d) /\ Listed(run[d][n]))
  <2>1. Return(s) /\ run' = run
    BY <1>2, <1>5 DEF AbandonOld
  <2>2. \A e \in Days : Manifest(e) => Manifest(e)'
    BY <1>3 DEF Manifest
  <2> QED BY <1>1, <1>3, <2>1, <2>2, Have, Returned, QuietTurn
<1> QED BY <1>4, <1>5

LEMMA RepointStep ==
  ASSUME JobInv, NEW s \in Sessions, Repoint(s) \/ ClearPointer(s)
  PROVE  JobInv'
<1>1. Typed
  BY DEF JobInv
<1>2. /\ wip' = wip /\ job' = job /\ snap' = snap /\ run' = run /\ lock' = lock
      /\ setting' = setting /\ deaths' = deaths /\ errors' = errors
      /\ torn' = torn /\ removed' = removed /\ Return(s)
  BY DEF Repoint, ClearPointer, bounds
<1>3. current' \in [Days -> {0} \cup Numbers]
  <2>1. CASE Repoint(s)
    <3>1. my[s].n \in Numbers
      BY <1>1, <2>1 DEF Repoint, Typed, PlacedAt
    <3> QED BY <1>1, <2>1, <3>1, Have DEF Repoint
  <2>2. CASE ClearPointer(s)
    BY <1>1, <2>2, Have DEF ClearPointer
  <2> QED BY <2>1, <2>2
<1>4. \A e \in Days : Manifest(e) => Manifest(e)'
  BY <1>2 DEF Manifest
<1> QED BY <1>1, <1>2, <1>3, <1>4, Have, Returned, QuietTurn

LEMMA CloseRunStep ==
  ASSUME JobInv, NEW s \in Sessions, NEW d \in Days, NEW n \in Numbers, CloseRun(s, d, n)
  PROVE  JobInv'
<1>1. Typed
  BY DEF JobInv
<1>2. /\ wip' = wip /\ job' = job /\ snap' = snap /\ lock' = lock
      /\ setting' = setting /\ deaths' = deaths /\ errors' = errors
      /\ torn' = torn /\ removed' = removed
  BY DEF CloseRun, bounds
<1>3. /\ run' = [run EXCEPT ![d][n] = [run[d][n] EXCEPT !.state = "done"]]
      /\ Go(s, "clear") /\ Learn(s, [Nothing EXCEPT !.job = d])
      /\ current' = (IF current[d] = n THEN [current EXCEPT ![d] = 0] ELSE current)
      /\ Listed(run[d][n])
  BY DEF CloseRun, Open, Listed
<1>4. PICK r : r = [run[d][n] EXCEPT !.state = "done"]
  OBVIOUS
<1>5. /\ r \in RunRecords /\ r.state \in {"done", "abandoned"} /\ r.files = run[d][n].files
      /\ r.receipt = run[d][n].receipt /\ r.policy = run[d][n].policy
  <2>1. PICK q \in RunRecords : q = run[d][n]
    BY <1>1, Have
  <2>2. r = [q EXCEPT !.state = "done"]
    BY <1>4, <2>1
  <2>3. /\ r \in RunRecords /\ r.state = "done" /\ r.files = q.files
        /\ r.receipt = q.receipt /\ r.policy = q.policy
    BY <2>2, StateFields
  <2> QED BY <2>1, <2>3
<1>6. run' = [run EXCEPT ![d][n] = r]
  BY <1>3, <1>4
<1>7. PICK m \in MyRecords : m.job = d /\ Learn(s, m)
  BY <1>3, StartFields
<1>8. PlacedAt("clear", m) /\ "clear" \in Steps \ AtWork
  BY <1>7 DEF PlacedAt, CreateSteps, Steps, AtWork, RunSteps
<1>9. current' \in [Days -> {0} \cup Numbers]
  BY <1>1, <1>3, Have
<1>10. UNCHANGED <<wip, job, snap, lock, bounds>> /\ Listed(run[d][n]) /\ Go(s, "clear")
  BY <1>2, <1>3 DEF bounds
<1> QED BY <1>5, <1>6, <1>7, <1>8, <1>9, <1>10, ClosingTurn

(***************************************************************************)
(* refresh_job_snapshot.                                                   *)
(***************************************************************************)

LEMMA StartRefreshStep ==
  ASSUME JobInv, NEW s \in Sessions, NEW d \in Days, StartRefresh(s, d)
  PROVE  JobInv'
<1>1. Typed
  BY DEF JobInv
<1>2. ImportDay[wip] \in Days
  BY <1>1, Have, Constant
<1>3. PICK m \in MyRecords : m.job = d /\ m.new = ImportDay[wip] /\ Learn(s, m)
  BY <1>2, StartFields, ZenonT(60) DEF StartRefresh
<1>4. /\ Go(s, "lockRefresh") /\ wip' = wip /\ job' = job /\ snap' = snap /\ run' = run
      /\ current' = current /\ lock' = lock /\ setting' = setting /\ deaths' = deaths
      /\ errors' = errors /\ torn' = torn /\ removed' = removed
  BY DEF StartRefresh, disk, bounds
<1>5. PlacedAt("lockRefresh", m) /\ "lockRefresh" \in Steps \ AtWork
  BY <1>2, <1>3 DEF PlacedAt, CreateSteps, Steps, AtWork, RunSteps
<1>6. \A e \in Days : Manifest(e) => Manifest(e)'
  BY <1>4 DEF Manifest
<1> QED BY <1>1, <1>3, <1>4, <1>5, <1>6, Have, QuietTurn

\* One field or record of one job.yml is written.
LEMMA JobWritten ==
  ASSUME Typed, NEW d \in Days, NEW r \in JobRecords, job' = [job EXCEPT ![d] = r],
         Manifest(d) => r.state \in {"ACTIVE", "ARCHIVED"}
  PROVE  job' \in [Days -> JobRecords] /\ \A e \in Days : Manifest(e) => Manifest(e)'
<1>1. job \in [Days -> JobRecords]
  BY Have
<1>2. job' \in [Days -> JobRecords] /\ job'[d] = r /\ \A e \in Days \ {d} : job'[e] = job[e]
  BY <1>1
<1> QED BY <1>2 DEF Manifest

LEMMA LockRefreshStep ==
  ASSUME JobInv, NEW s \in Sessions, LockRefresh(s)
  PROVE  JobInv'
<1>1. Typed /\ pc[s] = "lockRefresh"
  BY DEF JobInv, LockRefresh
<1>2. PICK d \in Days : d = my[s].job
  BY <1>1 DEF Typed, PlacedAt, CreateSteps
<1>3. /\ wip' = wip /\ job' = job /\ snap' = snap /\ run' = run /\ current' = current
      /\ setting' = setting /\ deaths' = deaths /\ errors' = errors
      /\ torn' = torn /\ removed' = removed
  BY DEF LockRefresh, TakeLock, bounds, disk
<1>4. \A e \in Days : Manifest(e) => Manifest(e)'
  BY <1>3 DEF Manifest
<1>5. CASE lock[d]["refresh"] # "free"
  <2>1. Return(s) /\ lock' = lock
    BY <1>2, <1>5 DEF LockRefresh, TakeLock
  <2> QED BY <1>1, <1>3, <1>4, <2>1, Have, Returned, QuietTurn
<1>6. CASE lock[d]["refresh"] = "free"
  <2>1. PICK step \in {"capture", "check"} : Go(s, step)
    BY <1>2, <1>6 DEF LockRefresh, TakeLock
  <2>2. lock' = [lock EXCEPT ![d]["refresh"] = s] /\ my' = my
    BY <1>2, <1>6 DEF LockRefresh, TakeLock
  <2>3. /\ lock' \in [Days -> [{"create", "refresh"} -> LockStates]]
        /\ \A e \in Days : lock'[e]["create"] = lock[e]["create"]
    BY <1>1, <2>2, Have DEF LockStates
  <2>4. Learn(s, my[s]) /\ my[s] \in MyRecords /\ PlacedAt("lockRefresh", my[s])
    BY <1>1, <2>2, Stay
  <2>5. PlacedAt(step, my[s]) /\ step \in Steps \ AtWork
    BY <2>4 DEF PlacedAt, CreateSteps, Steps, AtWork, RunSteps
  <2> QED BY <1>1, <1>3, <1>4, <2>1, <2>3, <2>4, <2>5, Have, QuietTurn
<1> QED BY <1>5, <1>6

LEMMA CaptureStep ==
  ASSUME JobInv, NEW s \in Sessions, Capture(s)
  PROVE  JobInv'
<1>1. Typed /\ pc[s] = "capture"
  BY DEF JobInv, Capture
<1>2. /\ Learn(s, [my[s] EXCEPT !.staged = wip]) /\ Go(s, "moveOld")
      /\ wip' = wip /\ job' = job /\ snap' = snap /\ run' = run /\ current' = current
      /\ lock' = lock /\ setting' = setting /\ deaths' = deaths /\ errors' = errors
      /\ torn' = torn /\ removed' = removed
  BY DEF Capture, disk, bounds
<1>3. PICK m \in MyRecords : m.job = my[s].job /\ Learn(s, m)
  BY <1>1, <1>2, Have, AsideFields
<1>4. PlacedAt("moveOld", m) /\ "moveOld" \in Steps \ AtWork
  BY <1>1, <1>3 DEF Typed, PlacedAt, CreateSteps, Steps, AtWork, RunSteps
<1>5. \A e \in Days : Manifest(e) => Manifest(e)'
  BY <1>2 DEF Manifest
<1> QED BY <1>1, <1>2, <1>3, <1>4, <1>5, Have, QuietTurn

LEMMA MoveOldStep ==
  ASSUME JobInv, NEW s \in Sessions, MoveOld(s)
  PROVE  JobInv'
<1>1. Typed /\ pc[s] = "moveOld"
  BY DEF JobInv, MoveOld
<1>2. PICK d \in Days : d = my[s].job
  BY <1>1 DEF Typed, PlacedAt, CreateSteps
<1>3. /\ wip' = wip /\ setting' = setting /\ deaths' = deaths /\ errors' = errors
      /\ torn' = torn /\ removed' = removed
  BY DEF MoveOld, bounds
<1>4. CASE snap[d] = 0
  <2>1. Refuse(s)
    BY <1>2, <1>4 DEF MoveOld
  <2> QED BY <1>1, <1>3, <2>1, Have, RefuseTurn
<1>5. CASE snap[d] # 0
  <2>1. /\ Learn(s, [my[s] EXCEPT !.backup = snap[d]]) /\ Go(s, "moveNew")
        /\ snap' = [snap EXCEPT ![d] = 0]
        /\ job' = job /\ run' = run /\ current' = current /\ lock' = lock
    BY <1>2, <1>5 DEF MoveOld
  <2>2. PICK m \in MyRecords : m.job = d /\ Learn(s, m)
    <3>1. snap[d] \in Texts /\ my[s] \in MyRecords
      BY <1>1, Have
    <3> QED BY <1>2, <2>1, <3>1, AsideFields
  <2>3. PlacedAt("moveNew", m) /\ "moveNew" \in Steps \ AtWork
    BY <2>2 DEF PlacedAt, CreateSteps, Steps, AtWork, RunSteps
  <2>4. \A e \in Days : Manifest(e) => Manifest(e)'
    BY <2>1 DEF Manifest
  <2>5. snap' \in [Days -> Texts]
    BY <1>1, <2>1, Have, Constant
  <2> QED BY <1>1, <1>3, <2>1, <2>2, <2>3, <2>4, <2>5, Have, QuietTurn
<1> QED BY <1>4, <1>5

\* The moves that write the snapshot only.
LEMMA MoveStep ==
  ASSUME JobInv, NEW s \in Sessions, MoveNew(s) \/ RollbackRemove(s) \/ RollbackRestore(s)
  PROVE  JobInv'
<1>1. Typed /\ pc[s] \in {"moveNew", "rbRemove", "rbRestore"}
  BY DEF JobInv, MoveNew, RollbackRemove, RollbackRestore
<1>2. PICK d \in Days : d = my[s].job
  BY <1>1 DEF Typed, PlacedAt, CreateSteps
<1>3. /\ wip' = wip /\ job' = job /\ run' = run /\ current' = current /\ lock' = lock
      /\ setting' = setting /\ deaths' = deaths /\ errors' = errors
      /\ torn' = torn /\ removed' = removed /\ my' = my
  BY DEF MoveNew, RollbackRemove, RollbackRestore, bounds
<1>4. PICK step \in {"record", "rbRestore", "rbRecord"} : Go(s, step)
  BY DEF MoveNew, RollbackRemove, RollbackRestore
<1>5. snap' \in [Days -> Texts]
  <2>1. my[s].staged \in Texts /\ my[s].backup \in Texts /\ 0 \in Texts
    BY <1>1, Have, Mine, Constant
  <2>2. PICK t \in Texts : snap' = [snap EXCEPT ![d] = t]
    BY <1>2, <2>1 DEF MoveNew, RollbackRemove, RollbackRestore
  <2> QED BY <1>1, <2>2, Have
<1>6. Learn(s, my[s]) /\ my[s] \in MyRecords
  BY <1>1, <1>3, Stay
<1>7. PlacedAt(step, my[s]) /\ step \in Steps \ AtWork
  BY <1>2 DEF PlacedAt, CreateSteps, Steps, AtWork, RunSteps
<1>8. \A e \in Days : Manifest(e) => Manifest(e)'
  BY <1>3 DEF Manifest
<1> QED BY <1>1, <1>3, <1>4, <1>5, <1>6, <1>7, <1>8, Have, QuietTurn

LEMMA RecordStep ==
  ASSUME JobInv, NEW s \in Sessions, Record(s)
  PROVE  JobInv'
<1>1. Typed /\ pc[s] = "record"
  BY DEF JobInv, Record
<1>2. PICK d \in Days, t \in Texts : d = my[s].job /\ t = my[s].staged
  BY <1>1, Have, Mine DEF Typed, PlacedAt, CreateSteps
<1>3. /\ job' = [job EXCEPT ![d] = [job[d] EXCEPT !.text = t]] /\ Go(s, "finish")
      /\ wip' = wip /\ snap' = snap /\ run' = run /\ current' = current /\ lock' = lock
      /\ setting' = setting /\ deaths' = deaths /\ errors' = errors
      /\ torn' = torn /\ removed' = removed /\ my' = my
  BY <1>2 DEF Record, bounds
<1>4. job' \in [Days -> JobRecords] /\ \A e \in Days : Manifest(e) => Manifest(e)'
  <2>1. PICK r : r = [job[d] EXCEPT !.text = t]
    OBVIOUS
  <2>2. r \in JobRecords /\ r.state = job[d].state
    <3>1. PICK q \in JobRecords : q = job[d]
      BY <1>1, Have
    <3>2. r = [q EXCEPT !.text = t]
      BY <2>1, <3>1
    <3>3. r \in JobRecords /\ r.state = q.state
      BY <3>2, TextFields
    <3> QED BY <3>1, <3>3
  <2>3. job' = [job EXCEPT ![d] = r]
    BY <1>3, <2>1
  <2>4. Manifest(d) => r.state \in {"ACTIVE", "ARCHIVED"}
    BY <2>2 DEF Manifest
  <2> QED BY <1>1, <2>2, <2>3, <2>4, JobWritten
<1>5. Learn(s, my[s]) /\ my[s] \in MyRecords
  BY <1>1, <1>3, Stay
<1>6. PlacedAt("finish", my[s]) /\ "finish" \in Steps \ AtWork
  BY <1>2 DEF PlacedAt, CreateSteps, Steps, AtWork, RunSteps
<1>7. /\ Go(s, "finish") /\ wip' = wip /\ snap' = snap /\ run' = run /\ current' = current
      /\ lock' = lock /\ setting' = setting /\ deaths' = deaths /\ errors' = errors
      /\ torn' = torn /\ removed' = removed
  BY <1>3
<1> QED BY <1>1, <1>4, <1>5, <1>6, <1>7, Have, QuietTurn

LEMMA FinishStep ==
  ASSUME JobInv, NEW s \in Sessions, Finish(s)
  PROVE  JobInv'
<1>1. Typed /\ pc[s] = "finish"
  BY DEF JobInv, Finish
<1>2. /\ wip' = wip /\ setting' = setting /\ deaths' = deaths /\ errors' = errors
      /\ torn' = torn /\ removed' = removed
  BY DEF Finish, bounds
<1>3. CASE Loads(my[s].job)
  <2>1. Refuse(s)
    BY <1>3 DEF Finish
  <2> QED BY <1>1, <1>2, <2>1, Have, RefuseTurn
<1>4. CASE ~Loads(my[s].job)
  <2>1. /\ Go(s, "rbRemove") /\ my' = my /\ job' = job /\ snap' = snap /\ run' = run
        /\ current' = current /\ lock' = lock
    BY <1>4 DEF Finish, disk
  <2>2. Learn(s, my[s]) /\ my[s] \in MyRecords /\ PlacedAt("finish", my[s])
    BY <1>1, <2>1, Stay
  <2>3. PlacedAt("rbRemove", my[s]) /\ "rbRemove" \in Steps \ AtWork
    BY <2>2 DEF PlacedAt, CreateSteps, Steps, AtWork, RunSteps
  <2>4. \A e \in Days : Manifest(e) => Manifest(e)'
    BY <2>1 DEF Manifest
  <2> QED BY <1>1, <1>2, <2>1, <2>2, <2>3, <2>4, Have, QuietTurn
<1> QED BY <1>3, <1>4

LEMMA RollbackRecordStep ==
  ASSUME JobInv, NEW s \in Sessions, RollbackRecord(s)
  PROVE  JobInv'
<1>1. Typed /\ pc[s] = "rbRecord"
  BY DEF JobInv, RollbackRecord
<1>2. PICK d \in Days, t \in Texts : d = my[s].job /\ t = my[s].backup
  BY <1>1, Have, Mine DEF Typed, PlacedAt, CreateSteps
<1>3. /\ job' = [job EXCEPT ![d] = [job[d] EXCEPT !.text = t]] /\ Return(s)
      /\ wip' = wip /\ snap' = snap /\ run' = run /\ current' = current
      /\ setting' = setting /\ deaths' = deaths /\ errors' = errors
      /\ torn' = torn /\ removed' = removed /\ Release(s, "refresh")
  BY <1>2 DEF RollbackRecord, bounds
<1>4. job' \in [Days -> JobRecords] /\ \A e \in Days : Manifest(e) => Manifest(e)'
  <2>1. PICK r : r = [job[d] EXCEPT !.text = t]
    OBVIOUS
  <2>2. r \in JobRecords /\ r.state = job[d].state
    <3>1. PICK q \in JobRecords : q = job[d]
      BY <1>1, Have
    <3>2. r = [q EXCEPT !.text = t]
      BY <2>1, <3>1
    <3>3. r \in JobRecords /\ r.state = q.state
      BY <3>2, TextFields
    <3> QED BY <3>1, <3>3
  <2>3. job' = [job EXCEPT ![d] = r]
    BY <1>3, <2>1
  <2>4. Manifest(d) => r.state \in {"ACTIVE", "ARCHIVED"}
    BY <2>2 DEF Manifest
  <2> QED BY <1>1, <2>2, <2>3, <2>4, JobWritten
<1>5. /\ lock' \in [Days -> [{"create", "refresh"} -> LockStates]]
      /\ \A e \in Days : lock'[e]["create"] = lock[e]["create"]
  BY <1>1, <1>2, <1>3, Released
<1>6. /\ Return(s) /\ wip' = wip /\ snap' = snap /\ run' = run /\ current' = current
      /\ setting' = setting /\ deaths' = deaths /\ errors' = errors
      /\ torn' = torn /\ removed' = removed
  BY <1>3
<1> QED BY <1>1, <1>4, <1>5, <1>6, Have, Returned, QuietTurn

(***************************************************************************)
(* create_job and the replacement of a Job.                                *)
(***************************************************************************)

LEMMA StartCreateStep ==
  ASSUME JobInv, NEW s \in Sessions, StartCreate(s)
  PROVE  JobInv'
<1>1. Typed
  BY DEF JobInv
<1>2. ImportDay[wip] \in Days
  BY <1>1, Have, Constant
<1>3. PICK m \in MyRecords : m.new = ImportDay[wip] /\ Learn(s, m)
  BY <1>2, StartFields DEF StartCreate
<1>4. /\ Go(s, "make") /\ wip' = wip /\ job' = job /\ snap' = snap /\ run' = run
      /\ current' = current /\ lock' = lock /\ setting' = setting /\ deaths' = deaths
      /\ errors' = errors /\ torn' = torn /\ removed' = removed
  BY DEF StartCreate, disk, bounds
<1>5. PlacedAt("make", m) /\ "make" \in Steps \ AtWork
  BY <1>2, <1>3 DEF PlacedAt, CreateSteps, Steps, AtWork, RunSteps
<1>6. \A e \in Days : Manifest(e) => Manifest(e)'
  BY <1>4 DEF Manifest
<1> QED BY <1>1, <1>3, <1>4, <1>5, <1>6, Have, QuietTurn

\* The steps of create_job that only look.
LEMMA LookStep ==
  ASSUME JobInv, NEW s \in Sessions, CheckDate(s) \/ Make(s)
  PROVE  JobInv'
<1>1. Typed /\ pc[s] \in {"check", "make"}
  BY DEF JobInv, CheckDate, Make
<1>2. /\ wip' = wip /\ setting' = setting /\ deaths' = deaths /\ errors' = errors
      /\ torn' = torn /\ removed' = removed
  BY DEF CheckDate, Make, bounds
<1>3. CASE Refuse(s)
  BY <1>1, <1>2, <1>3, Have, RefuseTurn
<1>4. CASE ~Refuse(s)
  <2>1. PICK step \in {"make", "mkdir", "adopt"} : Go(s, step)
    BY <1>4 DEF CheckDate, Make
  <2>2. /\ my' = my /\ job' = job /\ snap' = snap /\ run' = run
        /\ current' = current /\ lock' = lock
    BY <1>4 DEF CheckDate, Make, disk
  <2>3. Learn(s, my[s]) /\ my[s] \in MyRecords /\ PlacedAt(pc[s], my[s])
    BY <1>1, <2>2, Stay
  <2>4. PlacedAt(step, my[s]) /\ step \in Steps \ AtWork
    BY <1>1, <2>3 DEF PlacedAt, CreateSteps, Steps, AtWork, RunSteps
  <2>5. \A e \in Days : Manifest(e) => Manifest(e)'
    BY <2>2 DEF Manifest
  <2> QED BY <1>1, <1>2, <2>1, <2>2, <2>3, <2>4, <2>5, Have, QuietTurn
<1> QED BY <1>3, <1>4

\* The directories of a Job are there, with a job.yml or without.
LEMMA RootMade ==
  ASSUME Typed, NEW d \in Days,
         job' = [job EXCEPT ![d] = IF @.state = "none" THEN Bare ELSE @]
  PROVE  job' \in [Days -> JobRecords] /\ \A e \in Days : Manifest(e) => Manifest(e)'
<1>1. job \in [Days -> JobRecords]
  BY Have
<1>2. PICK r \in JobRecords : r = IF job[d].state = "none" THEN Bare ELSE job[d]
  BY <1>1, ConstantRecords
<1>3. job' = [job EXCEPT ![d] = r]
  BY <1>2
<1>4. Manifest(d) => r.state \in {"ACTIVE", "ARCHIVED"}
  BY <1>2 DEF Manifest
<1> QED BY <1>3, <1>4, JobWritten

LEMMA MakeDirectoriesStep ==
  ASSUME JobInv, NEW s \in Sessions, MakeDirectories(s)
  PROVE  JobInv'
<1>1. Typed /\ pc[s] = "mkdir"
  BY DEF JobInv, MakeDirectories
<1>2. PICK d \in Days : d = my[s].new
  BY <1>1 DEF Typed, PlacedAt, CreateSteps
<1>3. /\ job' = [job EXCEPT ![d] = IF @.state = "none" THEN Bare ELSE @]
      /\ Go(s, "captureNew") /\ my' = my
      /\ wip' = wip /\ snap' = snap /\ run' = run /\ current' = current /\ lock' = lock
      /\ setting' = setting /\ deaths' = deaths /\ errors' = errors
      /\ torn' = torn /\ removed' = removed
  BY <1>2 DEF MakeDirectories, bounds
<1>4. job' \in [Days -> JobRecords] /\ \A e \in Days : Manifest(e) => Manifest(e)'
  BY <1>1, <1>3, RootMade
<1>5. Learn(s, my[s]) /\ my[s] \in MyRecords
  BY <1>1, <1>3, Stay
<1>6. PlacedAt("captureNew", my[s]) /\ "captureNew" \in Steps \ AtWork
  BY <1>2 DEF PlacedAt, CreateSteps, Steps, AtWork, RunSteps
<1>7. /\ Go(s, "captureNew") /\ wip' = wip /\ snap' = snap /\ run' = run
      /\ current' = current /\ lock' = lock /\ setting' = setting /\ deaths' = deaths
      /\ errors' = errors /\ torn' = torn /\ removed' = removed
  BY <1>3
<1> QED BY <1>1, <1>4, <1>5, <1>6, <1>7, Have, QuietTurn

LEMMA CaptureNewStep ==
  ASSUME JobInv, NEW s \in Sessions, CaptureNew(s)
  PROVE  JobInv'
<1>1. Typed /\ pc[s] = "captureNew" /\ pc[s] \in CreateSteps
  BY DEF JobInv, CaptureNew, CreateSteps
<1>2. PICK d \in Days : d = my[s].new
  BY <1>1 DEF Typed, PlacedAt, CreateSteps
<1>3. /\ wip' = wip /\ setting' = setting /\ deaths' = deaths /\ errors' = errors
      /\ torn' = torn
  BY DEF CaptureNew
<1>4. CASE snap[d] # 0
  <2>1. RemoveNew(s)
    BY <1>2, <1>4 DEF CaptureNew
  <2> QED BY <1>1, <1>3, <2>1, Have, RemoveTurn
<1>5. CASE snap[d] = 0
  <2>1. /\ job' = [job EXCEPT ![d] = IF @.state = "none" THEN Bare ELSE @]
        /\ snap' = [snap EXCEPT ![d] = wip]
        /\ Learn(s, [my[s] EXCEPT !.staged = wip]) /\ Go(s, "writeNew")
        /\ run' = run /\ current' = current /\ lock' = lock /\ removed' = removed
    BY <1>2, <1>5 DEF CaptureNew
  <2>2. job' \in [Days -> JobRecords] /\ \A e \in Days : Manifest(e) => Manifest(e)'
    BY <1>1, <2>1, RootMade
  <2>3. snap' \in [Days -> Texts]
    BY <1>1, <2>1, Have
  <2>4. PICK m \in MyRecords : m.new = d /\ Learn(s, m)
    BY <1>1, <1>2, <2>1, Have, AsideFields
  <2>5. PlacedAt("writeNew", m) /\ "writeNew" \in Steps \ AtWork
    BY <2>4 DEF PlacedAt, CreateSteps, Steps, AtWork, RunSteps
  <2>6. /\ Go(s, "writeNew") /\ run' = run /\ current' = current /\ lock' = lock
        /\ removed' = removed
    BY <2>1
  <2> QED BY <1>1, <1>3, <2>2, <2>3, <2>4, <2>5, <2>6, Have, QuietTurn
<1> QED BY <1>4, <1>5

LEMMA WriteNewStep ==
  ASSUME JobInv, NEW s \in Sessions, WriteNew(s)
  PROVE  JobInv'
<1>1. Typed /\ pc[s] = "writeNew"
  BY DEF JobInv, WriteNew
<1>2. PICK d \in Days, t \in Texts : d = my[s].new /\ t = my[s].staged
  BY <1>1, Have, Mine DEF Typed, PlacedAt, CreateSteps
<1>3. /\ job' = [job EXCEPT ![d] = Active(t)] /\ Go(s, "adopt") /\ my' = my
      /\ wip' = wip /\ snap' = snap /\ run' = run /\ current' = current /\ lock' = lock
      /\ setting' = setting /\ deaths' = deaths /\ errors' = errors
      /\ torn' = torn /\ removed' = removed
  BY <1>2 DEF WriteNew, bounds
<1>4. job' \in [Days -> JobRecords] /\ \A e \in Days : Manifest(e) => Manifest(e)'
  <2>1. Active(t) \in JobRecords /\ Active(t).state = "ACTIVE"
    BY ConstantRecords DEF Active
  <2> QED BY <1>1, <1>3, <2>1, JobWritten
<1>5. Learn(s, my[s]) /\ my[s] \in MyRecords /\ PlacedAt("writeNew", my[s])
  BY <1>1, <1>3, Stay
<1>6. PlacedAt("adopt", my[s]) /\ "adopt" \in Steps \ AtWork
  BY <1>2 DEF PlacedAt, CreateSteps, Steps, AtWork, RunSteps
<1>7. /\ Go(s, "adopt") /\ wip' = wip /\ snap' = snap /\ run' = run
      /\ current' = current /\ lock' = lock /\ setting' = setting /\ deaths' = deaths
      /\ errors' = errors /\ torn' = torn /\ removed' = removed
  BY <1>3
<1> QED BY <1>1, <1>4, <1>5, <1>6, <1>7, Have, QuietTurn

LEMMA AdoptStep ==
  ASSUME JobInv, NEW s \in Sessions, Adopt(s)
  PROVE  JobInv'
<1>1. Typed /\ pc[s] = "adopt" /\ pc[s] \in CreateSteps
  BY DEF JobInv, Adopt, CreateSteps
<1>2. /\ wip' = wip /\ setting' = setting /\ deaths' = deaths /\ errors' = errors
      /\ torn' = torn
  BY DEF Adopt
<1>3. CASE RemoveNew(s)
  BY <1>1, <1>2, <1>3, Have, RemoveTurn
<1>4. CASE ~RemoveNew(s)
  <2>1. /\ job' = job /\ snap' = snap /\ run' = run /\ current' = current /\ lock' = lock
        /\ removed' = removed
    BY <1>4 DEF Adopt, disk
  <2>2. \A e \in Days : Manifest(e) => Manifest(e)'
    BY <2>1 DEF Manifest
  <2>3. CASE ByHand(s)
    <3>1. Return(s)
      BY <1>4, <2>3 DEF Adopt
    <3> QED BY <1>1, <1>2, <2>1, <2>2, <3>1, Have, Returned, QuietTurn
  <2>4. CASE ~ByHand(s)
    <3>1. Go(s, "archive") /\ my' = my
      BY <1>4, <2>4 DEF Adopt
    <3>2. Learn(s, my[s]) /\ my[s] \in MyRecords /\ PlacedAt("adopt", my[s])
      BY <1>1, <3>1, Stay
    <3>3. my[s].job \in Days
      BY <2>4, <3>2, Mine DEF ByHand
    <3>4. PlacedAt("archive", my[s]) /\ "archive" \in Steps \ AtWork
      BY <3>2, <3>3 DEF PlacedAt, CreateSteps, Steps, AtWork, RunSteps
    <3> QED BY <1>1, <1>2, <2>1, <2>2, <3>1, <3>2, <3>4, Have, QuietTurn
  <2> QED BY <2>3, <2>4
<1> QED BY <1>3, <1>4

LEMMA ArchiveStep ==
  ASSUME JobInv, NEW s \in Sessions, Archive(s)
  PROVE  JobInv'
<1>1. Typed /\ pc[s] = "archive"
  BY DEF JobInv, Archive
<1>2. PICK d \in Days, e \in Days : d = my[s].job /\ e = my[s].new
  BY <1>1 DEF Typed, PlacedAt, CreateSteps
<1>3. /\ job' = [job EXCEPT ![d] = [job[d] EXCEPT !.state = "ARCHIVED", !.replacedBy = e]]
      /\ Go(s, "dropOld") /\ my' = my
      /\ wip' = wip /\ snap' = snap /\ run' = run /\ current' = current /\ lock' = lock
      /\ setting' = setting /\ deaths' = deaths /\ errors' = errors
      /\ torn' = torn /\ removed' = removed
  BY <1>2 DEF Archive, bounds
<1>4. job' \in [Days -> JobRecords] /\ \A g \in Days : Manifest(g) => Manifest(g)'
  <2>1. PICK r : r = [job[d] EXCEPT !.state = "ARCHIVED", !.replacedBy = e]
    OBVIOUS
  <2>2. r \in JobRecords /\ r.state = "ARCHIVED"
    <3>1. PICK q \in JobRecords : q = job[d]
      BY <1>1, Have
    <3>2. r = [q EXCEPT !.state = "ARCHIVED", !.replacedBy = e]
      BY <2>1, <3>1
    <3> QED BY <3>2 DEF JobRecords
  <2>3. job' = [job EXCEPT ![d] = r]
    BY <1>3, <2>1
  <2> QED BY <1>1, <2>2, <2>3, JobWritten
<1>5. Learn(s, my[s]) /\ my[s] \in MyRecords /\ PlacedAt("archive", my[s])
  BY <1>1, <1>3, Stay
<1>6. PlacedAt("dropOld", my[s]) /\ "dropOld" \in Steps \ AtWork
  BY <1>2 DEF PlacedAt, CreateSteps, Steps, AtWork, RunSteps
<1>7. /\ Go(s, "dropOld") /\ wip' = wip /\ snap' = snap /\ run' = run
      /\ current' = current /\ lock' = lock /\ setting' = setting /\ deaths' = deaths
      /\ errors' = errors /\ torn' = torn /\ removed' = removed
  BY <1>3
<1> QED BY <1>1, <1>4, <1>5, <1>6, <1>7, Have, QuietTurn

LEMMA DropOldStep ==
  ASSUME JobInv, NEW s \in Sessions, DropOld(s)
  PROVE  JobInv'
<1>1. Typed /\ pc[s] = "dropOld"
  BY DEF JobInv, DropOld
<1>2. PICK d \in Days : d = my[s].job
  BY <1>1 DEF Typed, PlacedAt, CreateSteps
<1>3. /\ snap' = [snap EXCEPT ![d] = 0] /\ Release(s, "refresh") /\ Return(s)
      /\ wip' = wip /\ job' = job /\ run' = run /\ current' = current
      /\ setting' = setting /\ deaths' = deaths /\ errors' = errors
      /\ torn' = torn /\ removed' = removed
  BY <1>2 DEF DropOld, bounds
<1>4. snap' \in [Days -> Texts]
  BY <1>1, <1>3, Have, Constant
<1>5. /\ lock' \in [Days -> [{"create", "refresh"} -> LockStates]]
      /\ \A e \in Days : lock'[e]["create"] = lock[e]["create"]
  BY <1>1, <1>2, <1>3, Released
<1>6. \A e \in Days : Manifest(e) => Manifest(e)'
  BY <1>3 DEF Manifest
<1>7. /\ Return(s) /\ wip' = wip /\ job' = job /\ run' = run /\ current' = current
      /\ setting' = setting /\ deaths' = deaths /\ errors' = errors
      /\ torn' = torn /\ removed' = removed
  BY <1>3
<1> QED BY <1>1, <1>4, <1>5, <1>6, <1>7, Have, Returned, QuietTurn

(***************************************************************************)
(* Errors, deaths and the operator.                                        *)
(***************************************************************************)

LEMMA IOErrorStep ==
  ASSUME JobInv, NEW s \in Sessions, IOError(s)
  PROVE  JobInv'
<1>1. Typed /\ PlacedAt(pc[s], my[s])
  BY DEF JobInv, Typed
<1>2. /\ wip' = wip /\ setting' = setting /\ deaths' = deaths /\ errors' = errors + 1
      /\ deaths' \in Nat /\ errors' \in Nat
  BY <1>1, Have DEF IOError
<1>3. torn' \in SUBSET Days
  <2>1. my[s].job \in Days \/ pc[s] \notin Exposed
    BY <1>1 DEF PlacedAt, CreateSteps, Exposed
  <2> QED BY <1>1, <2>1, Have DEF IOError
<1>4. CASE pc[s] \in CreateSteps \ {"make"} /\ RemoveNew(s)
  BY <1>2, <1>3, <1>4, RemoveTurn
<1>5. CASE removed' = removed
  <2>1. CASE pc[s] \in RunSteps /\ UndoRun(s)
    BY <1>2, <1>3, <1>5, <2>1, UndoTurn
  <2>2. CASE pc[s] \in {"record", "finish"} /\ Go(s, "rbRemove") /\ UNCHANGED <<my, disk, lock>>
    <3>1. /\ my' = my /\ job' = job /\ snap' = snap /\ run' = run /\ current' = current
          /\ lock' = lock
      BY <2>2 DEF disk
    <3>2. Learn(s, my[s]) /\ my[s] \in MyRecords
      BY <1>1, <3>1, Stay
    <3>3. PlacedAt("rbRemove", my[s]) /\ "rbRemove" \in Steps \ AtWork
      BY <1>1, <2>2 DEF PlacedAt, CreateSteps, Steps, AtWork, RunSteps
    <3>4. \A e \in Days : Manifest(e) => Manifest(e)'
      BY <3>1 DEF Manifest
    <3>5. Go(s, "rbRemove")
      BY <2>2
    <3> QED BY <1>1, <1>2, <1>3, <1>5, <3>1, <3>2, <3>3, <3>4, <3>5, Have, QuietTurn
  <2>3. CASE Refuse(s)
    BY <1>2, <1>3, <1>5, <2>3, RefuseTurn
  <2>4. CASE Return(s) /\ UNCHANGED <<disk, lock>>
    <3>1. /\ job' = job /\ snap' = snap /\ run' = run /\ current' = current
          /\ lock' = lock
      BY <2>4 DEF disk
    <3>2. \A e \in Days : Manifest(e) => Manifest(e)'
      BY <3>1 DEF Manifest
    <3> QED BY <1>1, <1>2, <1>3, <1>5, <2>4, <3>1, <3>2, Have, Returned, QuietTurn
  <2> QED BY <1>5, <2>1, <2>2, <2>3, <2>4, <1>4 DEF IOError
<1> QED BY <1>4, <1>5 DEF IOError

LEMMA DieStep ==
  ASSUME JobInv, NEW s \in Sessions, Die(s)
  PROVE  JobInv'
<1>1. Typed /\ PlacedAt(pc[s], my[s])
  BY DEF JobInv, Typed
<1>2. /\ wip' = wip /\ setting' = setting /\ errors' = errors /\ removed' = removed
      /\ job' = job /\ snap' = snap /\ run' = run /\ current' = current /\ Return(s)
      /\ deaths' \in Nat
  BY <1>1, Have DEF Die, disk
<1>3. torn' \in SUBSET Days
  <2>1. my[s].job \in Days \/ pc[s] \notin Exposed
    BY <1>1 DEF PlacedAt, CreateSteps, Exposed
  <2> QED BY <1>1, <2>1, Have DEF Die
<1>4. /\ lock' \in [Days -> [{"create", "refresh"} -> LockStates]]
      /\ \A d \in Days : lock[d]["create"] # s => lock'[d]["create"] = lock[d]["create"]
  <2>1. lock' = [d \in Days |-> [k \in {"create", "refresh"} |->
                    IF lock[d][k] = s THEN "dead" ELSE lock[d][k]]]
    BY DEF Die
  <2>2. \A d \in Days, k \in {"create", "refresh"} : lock[d][k] \in LockStates
    BY <1>1, Have
  <2> QED BY <2>1, <2>2 DEF LockStates
<1>5. /\ Typed' /\ pc'[s] = "idle"
      /\ \A t \in Sessions \ {s} : pc'[t] = pc[t] /\ my'[t] = my[t]
  BY <1>1, <1>2, <1>3, <1>4, Have, Returned, TypedBy
<1>6. \A t \in Sessions : pc'[t] \in AtWork => pc'[t] = pc[t] /\ my'[t] = my[t]
  BY <1>5 DEF AtWork, RunSteps
<1>7. \A t \in Sessions, d \in Days :
          pc'[t] \in RunSteps /\ lock[d]["create"] = t => lock'[d]["create"] = t
  BY <1>4, <1>5 DEF RunSteps
<1>8. \A d \in Days : Manifest(d) => Manifest(d)'
  BY <1>2 DEF Manifest
<1>9. Holding' /\ Opened' /\ RunEvidenceWhole'
  BY <1>2, <1>6, <1>7, <1>8, Quiet
<1> QED BY <1>5, <1>9 DEF JobInv

\* The operator removes a dead lock; the Project is imported again; nothing happens.
LEMMA OtherStep ==
  ASSUME JobInv,
         \/ \E d \in Days, k \in {"create", "refresh"} : ClearLock(d, k)
         \/ Reimport
         \/ UNCHANGED vars
  PROVE  JobInv'
<1>1. Typed
  BY DEF JobInv
<1>2. /\ job' = job /\ snap' = snap /\ run' = run /\ current' = current /\ pc' = pc /\ my' = my
      /\ setting' = setting /\ deaths' = deaths /\ errors' = errors
      /\ torn' = torn /\ removed' = removed
  BY DEF ClearLock, Reimport, vars, disk, bounds
<1>3. wip' \in Imports
  BY <1>1, Have DEF ClearLock, Reimport, vars
<1>4. /\ lock' \in [Days -> [{"create", "refresh"} -> LockStates]]
      /\ \A d \in Days : lock[d]["create"] # "dead" => lock'[d]["create"] = lock[d]["create"]
  <2>1. CASE \E d \in Days, k \in {"create", "refresh"} : ClearLock(d, k)
    <3>1. PICK d \in Days, k \in {"create", "refresh"} :
              lock[d][k] = "dead" /\ lock' = [lock EXCEPT ![d][k] = "free"]
      BY <2>1 DEF ClearLock
    <3> QED BY <1>1, <3>1, Have DEF LockStates
  <2>2. CASE Reimport \/ UNCHANGED vars
    BY <1>1, <2>2, Have DEF Reimport, vars
  <2> QED BY <2>1, <2>2
<1>5. Typed'
  <2>1. TypeOK'
    BY <1>1, <1>2, <1>3, <1>4, Have, Zenon
        DEF TypeOK, JobRecords, RunRecords, MyRecords, LockStates
  <2>2. \A t \in Sessions : PlacedAt(pc[t], my[t])'
    BY <1>1, <1>2 DEF Typed, PlacedAt
  <2> QED BY <2>1, <2>2 DEF Typed
<1>6. \A t \in Sessions, d \in Days :
          pc'[t] \in RunSteps /\ lock[d]["create"] = t => lock'[d]["create"] = t
  BY <1>4
<1>7. \A d \in Days : Manifest(d) => Manifest(d)'
  BY <1>2 DEF Manifest
<1>8. Holding' /\ Opened' /\ RunEvidenceWhole'
  BY <1>2, <1>6, <1>7, Quiet
<1> QED BY <1>5, <1>8 DEF JobInv

(***************************************************************************)
(* The theorems.                                                           *)
(***************************************************************************)

LEMMA JobInvInit == Init => JobInv
<1> SUFFICES ASSUME Init PROVE JobInv
  OBVIOUS
<1>1. ImportDay[1] \in Days
  BY Constant
<1>2. TypeOK
  <2>1. job \in [Days -> JobRecords]
    BY Constant, ConstantRecords DEF Init
  <2>2. snap \in [Days -> Texts] /\ wip \in Imports
    BY Constant DEF Init
  <2>3. run \in [Days -> [Numbers -> RunRecords]]
    BY ConstantRecords DEF Init
  <2>4. current \in [Days -> {0} \cup Numbers]
    BY DEF Init
  <2>5. lock \in [Days -> [{"create", "refresh"} -> LockStates]]
    BY DEF Init, LockStates
  <2>6. pc \in [Sessions -> Steps] /\ my \in [Sessions -> MyRecords]
    BY ConstantRecords DEF Init, Steps
  <2>7. deaths \in Nat /\ errors \in Nat /\ torn \in SUBSET Days /\ removed \in SUBSET Days
    BY DEF Init
  <2>8. setting \in Settings
    BY DEF Init
  <2> QED BY <2>1, <2>2, <2>3, <2>4, <2>5, <2>6, <2>7, <2>8, Records
<1>3. \A s \in Sessions : pc[s] = "idle"
  BY DEF Init
<1>4. Typed
  BY <1>2, <1>3 DEF Typed, PlacedAt, CreateSteps
<1>5. Holding /\ Opened
  BY <1>3 DEF Holding, Opened, RunSteps
<1>6. RunEvidenceWhole
  BY DEF RunEvidenceWhole, Listed, Init, NoRun
<1> QED BY <1>4, <1>5, <1>6 DEF JobInv

LEMMA JobInvNext == JobInv /\ [Next]_vars => JobInv'
<1> SUFFICES ASSUME JobInv, [Next]_vars PROVE JobInv'
  OBVIOUS
<1>1. ASSUME NEW s \in Sessions, Start(s) PROVE JobInv'
  BY <1>1, StartCreateStep, StartRunStep, StartRefreshStep, CloseRunStep DEF Start
<1>2. ASSUME NEW s \in Sessions, CreateRun(s) PROVE JobInv'
  BY <1>2, LockRunStep, BeginStep, CopyBookStep, SealStep, SealPolicyStep, PublishRunStep,
     PointRunStep, AbandonOldStep, RepointStep DEF CreateRun
<1>3. ASSUME NEW s \in Sessions, Refresh(s) PROVE JobInv'
  BY <1>3, LockRefreshStep, CaptureStep, MoveOldStep, MoveStep, RecordStep, FinishStep,
     RollbackRecordStep DEF Refresh
<1>4. ASSUME NEW s \in Sessions, Create(s) PROVE JobInv'
  BY <1>4, LookStep, MakeDirectoriesStep, CaptureNewStep, WriteNewStep, AdoptStep,
     ArchiveStep, DropOldStep DEF Create
<1>5. ASSUME NEW s \in Sessions, Step(s) PROVE JobInv'
  BY <1>2, <1>3, <1>4, <1>5, RepointStep DEF Step
<1>6. CASE \E s \in Sessions : Start(s) \/ Step(s) \/ IOError(s) \/ Die(s)
  BY <1>1, <1>5, <1>6, IOErrorStep, DieStep
<1>7. CASE ~\E s \in Sessions : Start(s) \/ Step(s) \/ IOError(s) \/ Die(s)
  BY <1>7, OtherStep DEF Next
<1> QED BY <1>6, <1>7

\* The invariant holds of every behaviour, whatever the sessions do at the same time.
THEOREM JobInvariant == Spec => []JobInv
<1>1. Init => JobInv
  BY JobInvInit
<1>2. JobInv /\ [Next]_vars => JobInv'
  BY JobInvNext
<1> QED BY <1>1, <1>2, PTL DEF Spec

\* Types (jobs.py, job_snapshots.py): every variable keeps its type.
THEOREM JobTypeCorrect == Spec => []TypeOK
<1>1. JobInv => TypeOK
  BY DEF JobInv, Typed
<1> QED BY <1>1, JobInvariant, PTL

\* A Run that can be listed rests on every book of one text, the one its receipt names
\* and, for NCA, its policy too (seal_run_snapshot against refresh_job_snapshot), for
\* any number of sessions that overlap, of books and of imports, whatever fails or dies.
THEOREM JobRunEvidenceWhole == Spec => []RunEvidenceWhole
<1>1. JobInv => RunEvidenceWhole
  BY DEF JobInv
<1> QED BY <1>1, JobInvariant, PTL

(***************************************************************************)
(* Commands in turn: one session is at work, and what it has asked of its  *)
(* Job when it began still holds.                                          *)
(***************************************************************************)

Making == {"lockRun", "begin", "copy", "policy", "publish"}
Replacing == {"lockRefresh", "check", "make", "mkdir", "captureNew", "writeNew", "adopt",
              "archive"}

Unreplaced(d) == job[d].replacedBy = NoDay

Going(step, m) ==
    /\ step \in Making => Unreplaced(m.job)
    /\ step \in Replacing /\ m.job # NoDay => Open(m.job) = {}

OneAtWork == \A s, t \in Sessions : pc[s] # "idle" /\ pc[t] # "idle" => s = t

TurnInv ==
    setting.turns =>
        /\ OneAtWork
        /\ \A s \in Sessions : Going(pc[s], my[s])
        /\ \A d \in Days : job[d].state # "ARCHIVED" => Unreplaced(d)
        /\ \A d \in Days : ~Unreplaced(d) => Open(d) = {}

\* The step of one session, when it leaves the disk as it should be.
LEMMA TurnBy ==
  ASSUME Typed, TurnInv, NEW s \in Sessions, NEW step, NEW m,
         pc[s] # "idle" \/ Ready(s), setting' = setting, Go(s, step), Learn(s, m),
         setting.turns => Going(step, m)',
         setting.turns => \A d \in Days : job'[d].state # "ARCHIVED" => Unreplaced(d)',
         setting.turns => \A d \in Days : ~Unreplaced(d)' => Open(d)' = {}
  PROVE  TurnInv'
<1> SUFFICES ASSUME setting.turns
             PROVE  OneAtWork' /\ \A t \in Sessions : Going(pc[t], my[t])'
  BY DEF TurnInv
<1>1. \A t \in Sessions \ {s} : pc[t] = "idle"
  BY DEF TurnInv, OneAtWork, Ready
<1>2. /\ pc'[s] = step /\ my'[s] = m
      /\ \A t \in Sessions \ {s} : pc'[t] = "idle"
  BY <1>1, Have DEF Go, Learn
<1>3. OneAtWork'
  BY <1>2 DEF OneAtWork
<1>4. ASSUME NEW t \in Sessions PROVE Going(pc[t], my[t])'
  <2>1. CASE t = s
    BY <1>2, <2>1 DEF Going, Unreplaced, Open
  <2>2. CASE t # s
    BY <1>2, <2>2 DEF Going, Making, Replacing
  <2> QED BY <2>1, <2>2
<1> QED BY <1>3, <1>4

\* A step that replaces no Job and opens no Run.
LEMMA TurnKept ==
  ASSUME Typed, TurnInv, NEW s \in Sessions, NEW step, NEW m,
         pc[s] # "idle" \/ Ready(s), setting' = setting, Go(s, step), Learn(s, m),
         \A d \in Days : \/ job'[d].replacedBy = NoDay
                         \/ job'[d].state = job[d].state /\ job'[d].replacedBy = job[d].replacedBy,
         \A d \in Days : Open(d)' \subseteq Open(d),
         step \in Making \cup Replacing => m.job \in Days \cup {NoDay},
         step \in Making => m.job \in Days,
         setting.turns => Going(step, m)
  PROVE  TurnInv'
<1> SUFFICES ASSUME setting.turns PROVE TurnInv'
  BY DEF TurnInv
<1>1. \A d \in Days : Unreplaced(d) => Unreplaced(d)'
  BY DEF Unreplaced
<1>2. \A d \in Days : job'[d].state # "ARCHIVED" => Unreplaced(d)'
  BY <1>1 DEF TurnInv, Unreplaced
<1>3. \A d \in Days : ~Unreplaced(d)' => Open(d)' = {}
  BY <1>1 DEF TurnInv
<1>4. step \in Making => Unreplaced(m.job)'
  BY <1>1 DEF Going
<1>5. step \in Replacing /\ m.job # NoDay => Open(m.job)' = {}
  <2> SUFFICES ASSUME step \in Replacing, m.job # NoDay PROVE Open(m.job)' = {}
    OBVIOUS
  <2>1. m.job \in Days /\ Open(m.job) = {}
    BY DEF Going
  <2>2. PICK d \in Days : d = m.job
    BY <2>1
  <2>3. Open(d)' = {}
    BY <2>1, <2>2
  <2> QED BY <2>2, <2>3 DEF Open
<1>6. Going(step, m)'
  BY <1>4, <1>5 DEF Going, Unreplaced, Open
<1> QED BY <1>2, <1>3, <1>6, TurnBy

\* The disk of Jobs and Runs stays as it is.
LEMMA TurnStill ==
  ASSUME Typed, TurnInv, NEW s \in Sessions, NEW step, NEW m,
         pc[s] # "idle" \/ Ready(s), setting' = setting, Go(s, step), Learn(s, m),
         job' = job, run' = run,
         step \in Making \cup Replacing => m.job \in Days \cup {NoDay},
         step \in Making => m.job \in Days,
         setting.turns => Going(step, m)
  PROVE  TurnInv'
<1>1. \A d \in Days : Open(d)' \subseteq Open(d)
  BY DEF Open
<1> QED BY <1>1, TurnKept

\* A session that ends is obliged to nothing.
LEMMA TurnReturn ==
  ASSUME Typed, TurnInv, NEW s \in Sessions, pc[s] # "idle", setting' = setting, Return(s),
         \A d \in Days : \/ job'[d].replacedBy = NoDay
                         \/ job'[d].state = job[d].state /\ job'[d].replacedBy = job[d].replacedBy,
         \A d \in Days : Open(d)' \subseteq Open(d)
  PROVE  TurnInv'
<1>1. "idle" \notin Making \cup Replacing
  BY DEF Making, Replacing
<1>2. Going("idle", Nothing)
  BY <1>1 DEF Going
<1> QED BY <1>1, <1>2, TurnKept DEF Return

\* A Run is written that is not open, or was open before.
LEMMA RunWritten ==
  ASSUME Typed, NEW d \in Days, NEW n \in Numbers, NEW r,
         run' = [run EXCEPT ![d][n] = r], r.state = "open" => run[d][n].state = "open"
  PROVE  \A e \in Days : Open(e)' \subseteq Open(e)
<1>1. \A e \in Days, k \in Numbers : run'[e][k] = IF e = d /\ k = n THEN r ELSE run[e][k]
  BY Have
<1> QED BY <1>1 DEF Open

\* The maker of a Run gives it up.
LEMMA TurnUndo ==
  ASSUME Typed, TurnInv, NEW s \in Sessions, pc[s] \in RunSteps, UndoRun(s), setting' = setting
  PROVE  TurnInv'
<1>1. my[s].job \in Days /\ my[s].n \in {0} \cup Numbers
  BY Have, Mine DEF Typed, PlacedAt, RunSteps, CreateSteps
<1>2. \A d \in Days : Open(d)' \subseteq Open(d)
  <2>1. CASE my[s].n = 0
    BY <2>1 DEF UndoRun, Open
  <2>2. CASE my[s].n # 0
    <3>1. run' = [run EXCEPT ![my[s].job][my[s].n] = NoRun]
      BY <2>2 DEF UndoRun, SetRun
    <3> QED BY <1>1, <2>2, <3>1, RunWritten DEF NoRun
  <2> QED BY <2>1, <2>2
<1>3. job' = job /\ Return(s) /\ pc[s] # "idle"
  BY DEF UndoRun, RunSteps
<1> QED BY <1>2, <1>3, TurnReturn

\* What a maker of a Run knows in turn, and what it does to the Run.
LEMMA TurnMake ==
  ASSUME Typed, TurnInv, NEW s \in Sessions, pc[s] \in Making, setting' = setting, job' = job,
         \A d \in Days : Open(d)' \subseteq Open(d),
         NEW step, NEW m, Go(s, step), Learn(s, m), m.job = my[s].job, step \notin Replacing
  PROVE  TurnInv'
<1>1. my[s].job \in Days /\ pc[s] # "idle"
  BY DEF Typed, PlacedAt, Making, CreateSteps
<1>2. setting.turns => Going(step, m)
  BY DEF TurnInv, Going, Unreplaced
<1> QED BY <1>1, <1>2, TurnKept

LEMMA TurnCreateRun ==
  ASSUME Typed, TurnInv, NEW s \in Sessions, CreateRun(s)
  PROVE  TurnInv'
<1> DEFINE d == my[s].job
           n == my[s].n
<1>1. setting' = setting
  BY DEF CreateRun, LockRun, TakeLock, Begin, CopyBook, Seal, SealPolicy, PublishRun, PointRun,
     AbandonOld, Repoint, bounds
<1>2. /\ pc[s] # "idle" /\ d \in Days
      /\ pc[s] \in {"copy", "policy", "publish", "point", "repoint"} => n \in Numbers
      /\ pc[s] = "abandon" => my[s].old \in Numbers
  BY DEF Typed, PlacedAt, CreateSteps, CreateRun, LockRun, Begin, CopyBook, Seal, SealPolicy,
     PublishRun, PointRun, AbandonOld, Repoint
<1>3. my' = my => Learn(s, my[s])
  BY Have DEF Learn
<1>4. CASE LockRun(s)
  <2>1. job' = job /\ run' = run /\ pc[s] \in Making
    BY <1>4 DEF LockRun, TakeLock, disk, Making
  <2>2. \A e \in Days : Open(e)' \subseteq Open(e)
    BY <2>1 DEF Open
  <2>3. Return(s) \/ (Go(s, "begin") /\ UNCHANGED my)
    BY <1>4 DEF LockRun, TakeLock
  <2>4. CASE Return(s)
    BY <1>1, <1>2, <2>1, <2>2, <2>4, TurnReturn
  <2>5. CASE Go(s, "begin") /\ UNCHANGED my
    BY <1>1, <1>3, <2>1, <2>2, <2>5, TurnMake DEF Replacing
  <2> QED BY <2>3, <2>4, <2>5
<1>5. CASE Begin(s)
  <2>1. CASE UndoRun(s)
    BY <1>1, <1>5, <2>1, TurnUndo DEF Begin, RunSteps
  <2>2. CASE ~UndoRun(s)
    <3>1. PICK k \in Numbers :
             /\ run' = [run EXCEPT ![d][k] = [NoRun EXCEPT !.state = "making"]]
             /\ Go(s, "copy")
             /\ Learn(s, [my[s] EXCEPT !.n = k, !.receipt = snap[d], !.todo = Books])
             /\ job' = job
      BY <1>5, <2>2 DEF Begin
    <3>2. [my[s] EXCEPT !.n = k, !.receipt = snap[d], !.todo = Books].job = d
      BY Have DEF MyRecords
    <3>3. \A e \in Days : Open(e)' \subseteq Open(e)
      <4>1. [NoRun EXCEPT !.state = "making"].state # "open"
        BY DEF NoRun
      <4> QED BY <1>2, <3>1, <4>1, RunWritten
    <3> QED BY <1>1, <1>5, <3>1, <3>2, <3>3, TurnMake DEF Begin, Making, Replacing
  <2> QED BY <2>1, <2>2
<1>6. CASE CopyBook(s)
  <2>1. CASE UndoRun(s)
    BY <1>1, <1>6, <2>1, TurnUndo DEF CopyBook, RunSteps
  <2>2. CASE ~UndoRun(s)
    <3>1. PICK b \in my[s].todo :
             /\ SetRun(s, [MyRun(s) EXCEPT !.files[b] = snap[d]])
             /\ Learn(s, [my[s] EXCEPT !.todo = @ \ {b}])
             /\ pc' = pc /\ job' = job
      BY <1>6, <2>2 DEF CopyBook
    <3>2. [my[s] EXCEPT !.todo = @ \ {b}].job = d
      BY Have DEF MyRecords
    <3>3. \A e \in Days : Open(e)' \subseteq Open(e)
      <4>1. MyRun(s) \in RunRecords /\ n \in Numbers
        BY <1>2, <1>6, Have DEF MyRun, CopyBook
      <4>2. [MyRun(s) EXCEPT !.files[b] = snap[d]].state = MyRun(s).state
        BY <4>1 DEF RunRecords
      <4> QED BY <1>2, <3>1, <4>1, <4>2, RunWritten DEF SetRun, MyRun
    <3>4. Go(s, pc[s])
      BY <3>1, Have DEF Go
    <3>5. pc[s] \in Making \ Replacing
      BY <1>6 DEF CopyBook, Making, Replacing
    <3> QED BY <1>1, <3>1, <3>2, <3>3, <3>4, <3>5, TurnMake
  <2> QED BY <2>1, <2>2
<1>7. CASE Seal(s) \/ SealPolicy(s)
  <2>1. CASE UndoRun(s)
    BY <1>1, <1>7, <2>1, TurnUndo DEF Seal, SealPolicy, RunSteps
  <2>2. CASE ~UndoRun(s)
    <3>1. /\ pc[s] \in {"copy", "policy"}
          /\ \/ SetRun(s, [MyRun(s) EXCEPT !.receipt = my[s].receipt])
             \/ SetRun(s, [MyRun(s) EXCEPT !.policy = snap[d]])
          /\ Go(s, "policy") \/ Go(s, "publish")
          /\ my' = my /\ job' = job
      BY <1>7, <2>2 DEF Seal, SealPolicy
    <3>2. \A e \in Days : Open(e)' \subseteq Open(e)
      <4>1. MyRun(s) \in RunRecords /\ n \in Numbers
        BY <1>2, <3>1, Have DEF MyRun
      <4>2. /\ [MyRun(s) EXCEPT !.receipt = my[s].receipt].state = MyRun(s).state
            /\ [MyRun(s) EXCEPT !.policy = snap[d]].state = MyRun(s).state
        BY <4>1 DEF RunRecords
      <4>3. CASE SetRun(s, [MyRun(s) EXCEPT !.receipt = my[s].receipt])
        BY <1>2, <4>1, <4>2, <4>3, RunWritten DEF SetRun, MyRun
      <4>4. CASE SetRun(s, [MyRun(s) EXCEPT !.policy = snap[d]])
        BY <1>2, <4>1, <4>2, <4>4, RunWritten DEF SetRun, MyRun
      <4> QED BY <3>1, <4>3, <4>4
    <3>3. pc[s] \in Making /\ "policy" \notin Replacing /\ "publish" \notin Replacing
      BY <3>1 DEF Making, Replacing
    <3> QED BY <1>1, <1>3, <3>1, <3>2, <3>3, TurnMake
  <2> QED BY <2>1, <2>2
<1>8. CASE PublishRun(s)
  <2>1. /\ run' = [run EXCEPT ![d][n] = [MyRun(s) EXCEPT !.state = "open"]]
        /\ Go(s, "point") /\ job' = job /\ my' = my /\ n \in Numbers
    BY <1>2, <1>8 DEF PublishRun, SetRun
  <2>2. \A e \in Days \ {d} : Open(e)' = Open(e)
    BY <1>2, <2>1, Have DEF Open
  <2>3. setting.turns => Unreplaced(d)
    BY <1>8 DEF TurnInv, Going, Making, PublishRun
  <2>4. setting.turns => \A e \in Days : ~Unreplaced(e)' => Open(e)' = {}
    BY <2>1, <2>2, <2>3 DEF TurnInv, Unreplaced
  <2>5. Going("point", my[s])'
    BY DEF Going, Making, Replacing
  <2>6. setting.turns => \A e \in Days : job'[e].state # "ARCHIVED" => Unreplaced(e)'
    BY <2>1 DEF TurnInv, Unreplaced
  <2>7. Learn(s, my[s]) /\ my'[s] = my[s]
    BY <1>3, <2>1
  <2> QED BY <1>1, <1>2, <2>1, <2>4, <2>5, <2>6, <2>7, TurnBy
<1>9. CASE PointRun(s) \/ AbandonOld(s) \/ Repoint(s)
  <2>1. \A e \in Days : Open(e)' \subseteq Open(e)
    <3>1. CASE run' = run
      BY <3>1 DEF Open
    <3>2. CASE run' # run
      <4>1. /\ run' = [run EXCEPT ![d][my[s].old].state = "abandoned"] /\ my[s].old \in Numbers
        BY <1>2, <1>9, <3>2 DEF PointRun, AbandonOld, Repoint
      <4>2. run' = [run EXCEPT ![d][my[s].old] = [run[d][my[s].old] EXCEPT !.state = "abandoned"]]
        BY <1>2, <4>1, Have
      <4>3. [run[d][my[s].old] EXCEPT !.state = "abandoned"].state # "open"
        BY <1>2, <4>1, Have DEF RunRecords
      <4> QED BY <1>2, <4>1, <4>2, <4>3, RunWritten
    <3> QED BY <3>1, <3>2
  <2>2. job' = job
    BY <1>9 DEF PointRun, AbandonOld, Repoint
  <2>3. CASE Return(s)
    BY <1>1, <1>2, <2>1, <2>2, <2>3, TurnReturn
  <2>4. CASE ~Return(s)
    <3>1. /\ Go(s, "abandon") \/ Go(s, "repoint")
          /\ my' = my
      BY <1>9, <2>4 DEF PointRun, AbandonOld, Repoint
    <3>2. {"abandon", "repoint"} \cap (Making \cup Replacing) = {}
      BY DEF Making, Replacing
    <3>3. Going("abandon", my[s]) /\ Going("repoint", my[s])
      BY <3>2 DEF Going
    <3> QED BY <1>1, <1>2, <1>3, <2>1, <2>2, <3>1, <3>2, <3>3, TurnKept
  <2> QED BY <2>3, <2>4
<1> QED BY <1>4, <1>5, <1>6, <1>7, <1>8, <1>9 DEF CreateRun

\* A Job that is not at the end of a refresh is written.
LEMMA OneJobWritten ==
  ASSUME Typed, NEW d \in Days, NEW r, job' = [job EXCEPT ![d] = r],
         \/ r.replacedBy = NoDay
         \/ r.state = job[d].state /\ r.replacedBy = job[d].replacedBy
  PROVE  \A e \in Days : \/ job'[e].replacedBy = NoDay
                         \/ job'[e].state = job[e].state /\ job'[e].replacedBy = job[e].replacedBy
<1>1. \A e \in Days : job'[e] = IF e = d THEN r ELSE job[e]
  BY Have
<1> QED BY <1>1

\* A refresh, or who makes a Job, goes on with the same Job.
LEMMA TurnOn ==
  ASSUME Typed, TurnInv, NEW s \in Sessions, pc[s] # "idle", setting' = setting, run' = run,
         \A d \in Days : \/ job'[d].replacedBy = NoDay
                         \/ job'[d].state = job[d].state /\ job'[d].replacedBy = job[d].replacedBy,
         NEW step, NEW m, Go(s, step), Learn(s, m), m.job = my[s].job, step \notin Making,
         step \in Replacing => pc[s] \in Replacing
  PROVE  TurnInv'
<1>1. \A d \in Days : Open(d)' \subseteq Open(d)
  BY DEF Open
<1>2. setting.turns => Going(step, m)
  BY DEF TurnInv, Going, Open
<1>3. m.job \in Days \cup {NoDay}
  BY Have DEF MyRecords
<1> QED BY <1>1, <1>2, <1>3, TurnKept

LEMMA TurnRefuse ==
  ASSUME Typed, TurnInv, NEW s \in Sessions, pc[s] # "idle", setting' = setting, Return(s),
         run' = run, job' = job
  PROVE  TurnInv'
<1>1. \A d \in Days : Open(d)' \subseteq Open(d)
  BY DEF Open
<1> QED BY <1>1, TurnReturn

LEMMA TurnRefresh ==
  ASSUME Typed, TurnInv, NEW s \in Sessions, Refresh(s)
  PROVE  TurnInv'
<1>1. /\ setting' = setting /\ run' = run /\ pc[s] # "idle"
      /\ my[s].job \in Days
  BY DEF Refresh, LockRefresh, TakeLock, Capture, MoveOld, MoveNew, Record, Finish, Refuse,
     RollbackRemove, RollbackRestore, RollbackRecord, bounds, disk, Typed, PlacedAt, CreateSteps
<1>2. my' = my => Learn(s, my[s])
  BY Have DEF Learn
<1>3. \A d \in Days : \/ job'[d].replacedBy = NoDay
                      \/ job'[d].state = job[d].state /\ job'[d].replacedBy = job[d].replacedBy
  <2>1. CASE job' = job
    BY <2>1
  <2>2. CASE job' # job
    <3>1. PICK t : job' = [job EXCEPT ![my[s].job].text = t]
      BY <2>2 DEF Refresh, LockRefresh, TakeLock, Capture, MoveOld, MoveNew, Record, Finish,
         Refuse, RollbackRemove, RollbackRestore, RollbackRecord, bounds, disk
    <3>2. job' = [job EXCEPT ![my[s].job] = [job[my[s].job] EXCEPT !.text = t]]
      BY <1>1, <3>1, Have
    <3>3. /\ [job[my[s].job] EXCEPT !.text = t].state = job[my[s].job].state
          /\ [job[my[s].job] EXCEPT !.text = t].replacedBy = job[my[s].job].replacedBy
      BY <1>1, Have DEF JobRecords
    <3> QED BY <1>1, <3>2, <3>3, OneJobWritten
  <2> QED BY <2>1, <2>2
<1>4. \A d \in Days : Open(d)' \subseteq Open(d)
  BY <1>1 DEF Open
<1>5. CASE Return(s)
  BY <1>1, <1>3, <1>4, <1>5, TurnReturn
<1>6. CASE LockRefresh(s) /\ ~Return(s)
  <2>1. PICK step \in {"capture", "check"} : Go(s, step) /\ my' = my
    BY <1>6 DEF LockRefresh, TakeLock
  <2>2. pc[s] \in Replacing /\ step \notin Making
    BY <1>6 DEF LockRefresh, Replacing, Making
  <2> QED BY <1>1, <1>2, <1>3, <2>1, <2>2, TurnOn
<1>7. CASE ~LockRefresh(s) /\ ~Return(s)
  <2>1. PICK step \in {"moveOld", "moveNew", "record", "finish", "rbRemove", "rbRestore",
                       "rbRecord"} :
           /\ Go(s, step)
           /\ \/ my' = my
              \/ Learn(s, [my[s] EXCEPT !.staged = wip])
              \/ Learn(s, [my[s] EXCEPT !.backup = snap[my[s].job]])
    BY <1>7 DEF Refresh, Capture, MoveOld, MoveNew, Record, Finish, Refuse, RollbackRemove,
       RollbackRestore, RollbackRecord
  <2>2. /\ [my[s] EXCEPT !.staged = wip].job = my[s].job
        /\ [my[s] EXCEPT !.backup = snap[my[s].job]].job = my[s].job
    BY Have DEF MyRecords
  <2>3. step \notin Making \cup Replacing
    BY DEF Making, Replacing
  <2>4. PICK m : Learn(s, m) /\ m.job = my[s].job
    BY <1>2, <2>1, <2>2
  <2> QED BY <1>1, <1>3, <2>1, <2>3, <2>4, TurnOn
<1> QED BY <1>5, <1>6, <1>7

LEMMA TurnRemove ==
  ASSUME Typed, TurnInv, NEW s \in Sessions, pc[s] \in CreateSteps, RemoveNew(s),
         setting' = setting
  PROVE  TurnInv'
<1>1. my[s].new \in Days /\ pc[s] # "idle"
  BY DEF Typed, PlacedAt, CreateSteps
<1>2. /\ job' = [job EXCEPT ![my[s].new] = NoJob] /\ Return(s)
      /\ run' = [run EXCEPT ![my[s].new] = [n \in Numbers |-> NoRun]]
  BY DEF RemoveNew
<1>3. NoJob.replacedBy = NoDay
  BY DEF NoJob
<1>4. \A d \in Days : \/ job'[d].replacedBy = NoDay
                      \/ job'[d].state = job[d].state /\ job'[d].replacedBy = job[d].replacedBy
  BY <1>1, <1>2, <1>3, OneJobWritten
<1>5. \A d \in Days, k \in Numbers :
         run'[d][k] = IF d = my[s].new THEN NoRun ELSE run[d][k]
  BY <1>1, <1>2, Have
<1>6. \A d \in Days : Open(d)' \subseteq Open(d)
  BY <1>5 DEF Open, NoRun
<1> QED BY <1>1, <1>2, <1>4, <1>6, TurnReturn

\* The Job that is archived has had no open Run since the refresh began.
LEMMA TurnArchive ==
  ASSUME Typed, TurnInv, NEW s \in Sessions, Archive(s)
  PROVE  TurnInv'
<1> DEFINE d == my[s].job
           r == [job[d] EXCEPT !.state = "ARCHIVED", !.replacedBy = my[s].new]
<1>1. d \in Days /\ pc[s] = "archive" /\ pc[s] # "idle"
  BY DEF Archive, Typed, PlacedAt, CreateSteps
<1>2. /\ Go(s, "dropOld") /\ Learn(s, my[s]) /\ my'[s] = my[s] /\ run' = run
      /\ setting' = setting
  BY Have DEF Archive, Learn, bounds
<1>3. \A e \in Days : job'[e] = IF e = d THEN r ELSE job[e]
  BY <1>1, Have DEF Archive
<1>4. r.state = "ARCHIVED"
  BY <1>1, Have DEF JobRecords
<1>5. setting.turns => Open(d) = {}
  <2>1. "archive" \in Replacing /\ d # NoDay
    BY <1>1, Constant DEF Replacing
  <2> QED BY <1>1, <2>1 DEF TurnInv, Going
<1>6. setting.turns => \A e \in Days : ~Unreplaced(e)' => Open(e)' = {}
  BY <1>2, <1>3, <1>5 DEF TurnInv, Unreplaced, Open
<1>7. setting.turns => \A e \in Days : job'[e].state # "ARCHIVED" => Unreplaced(e)'
  BY <1>3, <1>4 DEF TurnInv, Unreplaced
<1>8. Going("dropOld", my[s])'
  BY DEF Going, Making, Replacing
<1> QED BY <1>1, <1>2, <1>6, <1>7, <1>8, TurnBy

LEMMA TurnCreate ==
  ASSUME Typed, TurnInv, NEW s \in Sessions, Create(s)
  PROVE  TurnInv'
<1>1. setting' = setting /\ pc[s] # "idle"
  BY DEF Create, CheckDate, Make, MakeDirectories, CaptureNew, WriteNew, Adopt, Archive, DropOld,
     bounds
<1>2. my' = my => Learn(s, my[s])
  BY Have DEF Learn
<1>3. CASE CheckDate(s) \/ Make(s) \/ DropOld(s)
  <2>1. /\ run' = run /\ job' = job
        /\ \/ Return(s)
           \/ my' = my /\ pc[s] \in Replacing
              /\ (Go(s, "make") \/ Go(s, "mkdir") \/ Go(s, "adopt"))
    BY <1>3 DEF CheckDate, Make, DropOld, Refuse, disk, Replacing
  <2>2. CASE Return(s)
    BY <1>1, <2>1, <2>2, TurnRefuse
  <2>3. CASE ~Return(s)
    <3>1. PICK step \in {"make", "mkdir", "adopt"} : Go(s, step)
      BY <2>1, <2>3
    <3>2. step \notin Making
      BY DEF Making
    <3> QED BY <1>1, <1>2, <2>1, <2>3, <3>1, <3>2, TurnOn
  <2> QED BY <2>2, <2>3
<1>4. CASE (CaptureNew(s) \/ Adopt(s)) /\ RemoveNew(s)
  BY <1>1, <1>4, TurnRemove DEF CaptureNew, Adopt, CreateSteps
<1>5. CASE MakeDirectories(s) \/ WriteNew(s) \/ (CaptureNew(s) /\ ~RemoveNew(s))
  <2>1. my[s].new \in Days /\ pc[s] \in Replacing
    BY <1>5 DEF MakeDirectories, WriteNew, CaptureNew, Typed, PlacedAt, CreateSteps, Replacing
  <2>2. PICK r : /\ job' = [job EXCEPT ![my[s].new] = r]
                 /\ r.replacedBy = NoDay \/ r = job[my[s].new]
    <3>1. Bare.replacedBy = NoDay /\ Active(my[s].staged).replacedBy = NoDay
      BY DEF Bare, NoJob, Active
    <3>2. \/ job' = [job EXCEPT ![my[s].new] = Active(my[s].staged)]
          \/ job' = [job EXCEPT ![my[s].new] = IF @.state = "none" THEN Bare ELSE @]
      BY <1>5 DEF MakeDirectories, WriteNew, CaptureNew
    <3>3. CASE job' = [job EXCEPT ![my[s].new] = Active(my[s].staged)]
      BY <3>1, <3>3
    <3>4. CASE job' = [job EXCEPT ![my[s].new] = IF @.state = "none" THEN Bare ELSE @]
      BY <3>1, <3>4
    <3> QED BY <3>2, <3>3, <3>4
  <2>3. \A d \in Days : \/ job'[d].replacedBy = NoDay
                        \/ job'[d].state = job[d].state /\ job'[d].replacedBy = job[d].replacedBy
    BY <2>1, <2>2, OneJobWritten
  <2>4. PICK step \in {"captureNew", "writeNew", "adopt"} :
           /\ Go(s, step) /\ run' = run
           /\ my' = my \/ Learn(s, [my[s] EXCEPT !.staged = wip])
    BY <1>5 DEF MakeDirectories, WriteNew, CaptureNew
  <2>5. [my[s] EXCEPT !.staged = wip].job = my[s].job
    BY Have DEF MyRecords
  <2>6. PICK m : Learn(s, m) /\ m.job = my[s].job
    BY <1>2, <2>4, <2>5
  <2>7. step \notin Making
    BY DEF Making
  <2> QED BY <1>1, <2>1, <2>3, <2>4, <2>6, <2>7, TurnOn
<1>6. CASE Adopt(s) /\ ~RemoveNew(s)
  <2>1. /\ job' = job /\ run' = run /\ pc[s] \in Replacing
        /\ Return(s) \/ (Go(s, "archive") /\ my' = my)
    BY <1>6 DEF Adopt, disk, Replacing
  <2>2. "archive" \notin Making
    BY DEF Making
  <2> QED BY <1>1, <1>2, <2>1, <2>2, TurnRefuse, TurnOn
<1>7. CASE Archive(s)
  BY <1>7, TurnArchive
<1> QED BY <1>3, <1>4, <1>5, <1>6, <1>7 DEF Create

\* A command begins: the Job it names is in use, and a refresh finds no Run open.
LEMMA TurnStart ==
  ASSUME Typed, TurnInv, NEW s \in Sessions, Start(s)
  PROVE  TurnInv'
<1>1. setting' = setting /\ Ready(s) /\ job' = job
  BY DEF Start, StartCreate, StartRun, StartRestart, StartRefresh, CloseRun, bounds, disk
<1>2. Nothing.job = NoDay /\ \A d \in Days : setting.turns /\ Usable(d) => Unreplaced(d)
  BY DEF Usable, TurnInv, Nothing
<1>3. CASE StartCreate(s)
  <2>1. /\ Go(s, "make") /\ run' = run
        /\ Learn(s, [Nothing EXCEPT !.new = ImportDay[wip]])
    BY <1>3 DEF StartCreate, disk
  <2>2. [Nothing EXCEPT !.new = ImportDay[wip]].job = NoDay
    BY <1>2 DEF Nothing
  <2>3. "make" \notin Making
    BY DEF Making
  <2>4. Going("make", [Nothing EXCEPT !.new = ImportDay[wip]])
    BY <2>2, <2>3 DEF Going
  <2> QED BY <1>1, <2>1, <2>2, <2>3, <2>4, TurnStill
<1>4. ASSUME NEW d \in Days, StartRun(s, d) \/ StartRestart(s, d) PROVE TurnInv'
  <2>1. PICK m : Go(s, "lockRun") /\ Learn(s, m) /\ m.job = d /\ run' = run /\ Usable(d)
    BY <1>4 DEF StartRun, StartRestart, Nothing, disk
  <2>2. "lockRun" \notin Replacing
    BY DEF Replacing
  <2>3. setting.turns => Going("lockRun", m)
    BY <1>2, <2>1, <2>2 DEF Going
  <2> QED BY <1>1, <2>1, <2>3, TurnStill
<1>5. ASSUME NEW d \in Days, StartRefresh(s, d) PROVE TurnInv'
  <2>1. PICK m : Go(s, "lockRefresh") /\ Learn(s, m) /\ m.job = d /\ run' = run /\ Open(d) = {}
    BY <1>5 DEF StartRefresh, Nothing, disk
  <2>2. "lockRefresh" \notin Making
    BY DEF Making
  <2>3. Going("lockRefresh", m)
    BY <2>1, <2>2 DEF Going
  <2> QED BY <1>1, <2>1, <2>2, <2>3, TurnStill
<1>6. ASSUME NEW d \in Days, NEW n \in Numbers, CloseRun(s, d, n) PROVE TurnInv'
  <2>1. PICK m : Go(s, "clear") /\ Learn(s, m)
    BY <1>6 DEF CloseRun
  <2>2. run' = [run EXCEPT ![d][n] = [run[d][n] EXCEPT !.state = "done"]]
    BY <1>6, Have DEF CloseRun
  <2>3. [run[d][n] EXCEPT !.state = "done"].state # "open"
    BY Have DEF RunRecords
  <2>4. \A e \in Days : Open(e)' \subseteq Open(e)
    BY <2>2, <2>3, RunWritten
  <2>5. "clear" \notin Making \cup Replacing
    BY DEF Making, Replacing
  <2>6. Going("clear", m)
    BY <2>5 DEF Going
  <2> QED BY <1>1, <2>1, <2>4, <2>5, <2>6, TurnKept
<1> QED BY <1>3, <1>4, <1>5, <1>6 DEF Start

LEMMA TurnIOError ==
  ASSUME Typed, TurnInv, NEW s \in Sessions, IOError(s)
  PROVE  TurnInv'
<1>1. setting' = setting /\ pc[s] # "idle"
  BY DEF IOError, RunSteps, RefreshSteps, CreateSteps
<1>2. \/ pc[s] \in CreateSteps /\ RemoveNew(s)
      \/ pc[s] \in RunSteps /\ UndoRun(s)
      \/ Go(s, "rbRemove") /\ my' = my /\ job' = job /\ run' = run
      \/ Return(s) /\ job' = job /\ run' = run
  BY DEF IOError, Refuse, disk
<1>3. CASE Go(s, "rbRemove") /\ my' = my /\ job' = job /\ run' = run
  <2>1. Learn(s, my[s]) /\ "rbRemove" \notin Making \cup Replacing
    BY <1>3, Have DEF Learn, Making, Replacing
  <2> QED BY <1>1, <1>3, <2>1, TurnOn
<1> QED BY <1>1, <1>2, <1>3, TurnRemove, TurnUndo, TurnRefuse

LEMMA TurnStep ==
  ASSUME Typed, TurnInv, NEW s \in Sessions,
         Start(s) \/ Step(s) \/ IOError(s) \/ Die(s)
  PROVE  TurnInv'
<1>1. CASE ClearPointer(s)
  BY <1>1, TurnRefuse DEF ClearPointer, bounds
<1>2. CASE Die(s)
  BY <1>2, TurnRefuse DEF Die, disk
<1> QED BY <1>1, <1>2, TurnStart, TurnCreateRun, TurnRefresh, TurnCreate, TurnIOError DEF Step

LEMMA TurnInvInit == Init => TurnInv
<1> SUFFICES ASSUME Init PROVE TurnInv
  OBVIOUS
<1>1. \A s \in Sessions : pc[s] = "idle"
  BY DEF Init
<1>2. \A d \in Days : Unreplaced(d)
  BY DEF Init, Unreplaced, NoJob, Active
<1>3. "idle" \notin Making \cup Replacing
  BY DEF Making, Replacing
<1> QED BY <1>1, <1>2, <1>3 DEF TurnInv, OneAtWork, Going

LEMMA TurnInvNext == Typed /\ TurnInv /\ [Next]_vars => TurnInv'
<1> SUFFICES ASSUME Typed, TurnInv, [Next]_vars PROVE TurnInv'
  OBVIOUS
<1>1. CASE UNCHANGED <<setting, pc, my, job, run>>
  BY <1>1 DEF TurnInv, OneAtWork, Going, Unreplaced, Open
<1>2. CASE \E s \in Sessions : Start(s) \/ Step(s) \/ IOError(s) \/ Die(s)
  BY <1>2, TurnStep
<1> QED BY <1>1, <1>2 DEF Next, Reimport, ClearLock, vars, disk, bounds

\* The invariant of commands in turn.
THEOREM JobTurnInvariant == Spec => []TurnInv
<1>1. JobInv => Typed
  BY DEF JobInv
<1> QED BY <1>1, JobInvariant, TurnInvInit, TurnInvNext, PTL DEF Spec

\* Commands in turn (refresh_job_snapshot, create_run, restart_run) never archive a Job
\* for a newer one while a Run of it is open, for any number of sessions, of Runs and of
\* imports, whatever fails or dies: what a refresh saw before it took its lock holds
\* until the Job is archived, and a Run is published only in a Job nothing has replaced.
THEOREM JobNoOpenRunLeftBehind == Spec => []NoOpenRunLeftBehind
<1>1. TurnInv => NoOpenRunLeftBehind
  BY DEF TurnInv, NoOpenRunLeftBehind, Unreplaced
<1> QED BY <1>1, JobTurnInvariant, PTL

(***************************************************************************)
(* Commands in turn: an active Job opens, except while a refresh moves its *)
(* snapshots; who moves them has put aside what brings the old one back.   *)
(***************************************************************************)

Moving == {"moveNew", "record", "rbRemove", "rbRestore", "rbRecord"}
Whole(d) == job[d].state = "ACTIVE" => (snap[d] # 0 /\ snap[d] = job[d].text) \/ d \in torn

Aside(step, m) ==
    /\ step \in {"moveOld", "moveNew", "record"} => m.staged # 0
    /\ step \in Moving \cup {"finish"} => m.backup # 0
    /\ step = "record" => snap[m.job] = m.staged
    /\ step = "rbRecord" => snap[m.job] = m.backup
    /\ step \in {"mkdir", "captureNew", "writeNew"} => job[m.new].state # "ACTIVE"
    /\ step = "writeNew" => m.staged # 0 /\ snap[m.new] = m.staged
    /\ step = "dropOld" => job[m.job].state # "ACTIVE"

\* The steps that find something put aside.
Bound == Moving \cup {"moveOld", "finish", "mkdir", "captureNew", "writeNew", "dropOld"}

UsableInv ==
    setting.turns =>
        /\ \A d \in Days : Whole(d) \/ \E s \in Sessions : pc[s] \in Moving /\ my[s].job = d
        /\ \A s \in Sessions : Aside(pc[s], my[s])

LEMMA NotBound ==
  ASSUME NEW step, step \notin Bound, NEW m
  PROVE  Aside(step, m) /\ Aside(step, m)'
  BY DEF Aside, Bound, Moving

\* While a session is at work the others find nothing.
LEMMA UsableAlone ==
  ASSUME OneAtWork, UsableInv, setting.turns, NEW s \in Sessions, pc[s] # "idle" \/ Ready(s)
  PROVE  /\ \A t \in Sessions \ {s} : pc[t] = "idle"
         /\ \A d \in Days : Whole(d) \/ (pc[s] \in Moving /\ my[s].job = d)
         /\ Aside(pc[s], my[s])
<1>1. \A t \in Sessions \ {s} : pc[t] = "idle"
  BY DEF OneAtWork, Ready
<1>2. "idle" \notin Moving
  BY DEF Moving
<1> QED BY <1>1, <1>2 DEF UsableInv

\* The step of one session.
LEMMA UsableBy ==
  ASSUME Typed, TurnInv, UsableInv, NEW s \in Sessions, NEW step, NEW m,
         pc[s] # "idle" \/ Ready(s), setting' = setting, Go(s, step), Learn(s, m),
         setting.turns => Aside(step, m)',
         setting.turns => \A d \in Days : Whole(d)' \/ (step \in Moving /\ m.job = d)
  PROVE  UsableInv'
<1> SUFFICES ASSUME setting.turns
             PROVE  /\ \A d \in Days : Whole(d)' \/ \E t \in Sessions : pc'[t] \in Moving /\ my'[t].job = d
                    /\ \A t \in Sessions : Aside(pc[t], my[t])'
  BY DEF UsableInv
<1>1. \A t \in Sessions \ {s} : pc[t] = "idle"
  BY DEF TurnInv, OneAtWork, Ready
<1>2. /\ pc'[s] = step /\ my'[s] = m
      /\ \A t \in Sessions \ {s} : pc'[t] = "idle"
  BY <1>1, Have DEF Go, Learn
<1>3. ASSUME NEW t \in Sessions PROVE Aside(pc[t], my[t])'
  <2>1. CASE t = s
    BY <1>2, <2>1 DEF Aside
  <2>2. CASE t # s
    BY <1>2, <2>2 DEF Aside, Moving
  <2> QED BY <2>1, <2>2
<1> QED BY <1>2, <1>3

\* Jobs and snapshots stay as they are; a refresh that leaves its moves says so.
LEMMA UsableStill ==
  ASSUME Typed, TurnInv, UsableInv, NEW s \in Sessions, NEW step, NEW m,
         pc[s] # "idle" \/ Ready(s), setting' = setting, Go(s, step), Learn(s, m),
         job' = job, snap' = snap, torn \subseteq torn',
         pc[s] \in Moving => my[s].job \in torn' \/ (step \in Moving /\ m.job = my[s].job),
         setting.turns => Aside(step, m)
  PROVE  UsableInv'
<1> SUFFICES ASSUME setting.turns PROVE UsableInv'
  BY DEF UsableInv
<1>1. \A d \in Days : Whole(d) => Whole(d)'
  BY DEF Whole
<1>2. \A d \in Days : d \in torn' => Whole(d)'
  BY DEF Whole
<1>3. OneAtWork
  BY DEF TurnInv
<1>4. \A d \in Days : Whole(d) \/ (pc[s] \in Moving /\ my[s].job = d)
  BY <1>3, UsableAlone
<1>5. \A d \in Days : Whole(d)' \/ (step \in Moving /\ m.job = d)
  BY <1>1, <1>2, <1>4
<1>6. Aside(step, m)'
  BY DEF Aside
<1> QED BY <1>5, <1>6, UsableBy

\* One Job and its snapshot are written by who does not move snapshots.
LEMMA UsableWritten ==
  ASSUME Typed, TurnInv, UsableInv, NEW s \in Sessions, NEW step, NEW m,
         pc[s] # "idle", setting' = setting, Go(s, step), Learn(s, m), torn' = torn, NEW e \in Days,
         \A d \in Days \ {e} : job'[d] = job[d] /\ snap'[d] = snap[d],
         setting.turns /\ pc[s] \in Moving => my[s].job = e,
         setting.turns => Whole(e)' \/ (step \in Moving /\ m.job = e),
         setting.turns => Aside(step, m)'
  PROVE  UsableInv'
<1> SUFFICES ASSUME setting.turns PROVE UsableInv'
  BY DEF UsableInv
<1>1. OneAtWork
  BY DEF TurnInv
<1>2. \A d \in Days : Whole(d) \/ (pc[s] \in Moving /\ my[s].job = d)
  BY <1>1, UsableAlone
<1>3. \A d \in Days \ {e} : Whole(d) => Whole(d)'
  BY DEF Whole
<1>4. \A d \in Days : Whole(d)' \/ (step \in Moving /\ m.job = d)
  BY <1>2, <1>3
<1> QED BY <1>4, UsableBy

LEMMA UsableCreateRun ==
  ASSUME Typed, TurnInv, UsableInv, NEW s \in Sessions, CreateRun(s)
  PROVE  UsableInv'
<1>1. /\ setting' = setting /\ torn' = torn /\ job' = job /\ snap' = snap
      /\ pc[s] \in RunSteps \cup {"lockRun", "abandon", "repoint"}
  BY DEF CreateRun, LockRun, TakeLock, Begin, CopyBook, Seal, SealPolicy, PublishRun, PointRun,
     AbandonOld, Repoint, UndoRun, bounds, disk, RunSteps
<1>2. my' = my => Learn(s, my[s])
  BY Have DEF Learn
<1>3. pc' = pc => Go(s, pc[s])
  BY Have DEF Go
<1>4. PICK step \in RunSteps \cup {"idle", "lockRun", "abandon", "repoint"} : Go(s, step)
  BY <1>1, <1>3 DEF CreateRun, LockRun, TakeLock, Begin, CopyBook, Seal, SealPolicy, PublishRun, PointRun,
     AbandonOld, Repoint, UndoRun, Return, RunSteps
<1>5. PICK m : Learn(s, m)
  BY <1>2 DEF CreateRun, LockRun, TakeLock, Begin, CopyBook, Seal, SealPolicy, PublishRun, PointRun,
     AbandonOld, Repoint, UndoRun, Return
<1>6. step \notin Bound /\ pc[s] \notin Moving /\ pc[s] # "idle"
  BY <1>1, <1>4 DEF Bound, Moving, RunSteps
<1>7. Aside(step, m)
  BY <1>6, NotBound
<1> QED BY <1>1, <1>4, <1>5, <1>6, <1>7, UsableStill

LEMMA UsableStart ==
  ASSUME Typed, TurnInv, UsableInv, NEW s \in Sessions, Start(s)
  PROVE  UsableInv'
<1>1. setting' = setting /\ torn' = torn /\ job' = job /\ snap' = snap /\ Ready(s)
  BY DEF Start, StartCreate, StartRun, StartRestart, StartRefresh, CloseRun, bounds, disk
<1>2. PICK step \in {"make", "lockRun", "lockRefresh", "clear"} : Go(s, step)
  BY DEF Start, StartCreate, StartRun, StartRestart, StartRefresh, CloseRun
<1>3. PICK m : Learn(s, m)
  BY DEF Start, StartCreate, StartRun, StartRestart, StartRefresh, CloseRun
<1>4. step \notin Bound /\ pc[s] \notin Moving
  BY <1>1, <1>2 DEF Bound, Moving, Ready
<1>5. Aside(step, m)
  BY <1>4, NotBound
<1> QED BY <1>1, <1>2, <1>3, <1>4, <1>5, UsableStill

\* A command that ends, or is refused, among no moves.
LEMMA UsableReturn ==
  ASSUME Typed, TurnInv, UsableInv, NEW s \in Sessions, pc[s] # "idle", setting' = setting, Return(s),
         job' = job, snap' = snap, torn \subseteq torn', pc[s] \in Moving => my[s].job \in torn'
  PROVE  UsableInv'
<1>1. "idle" \notin Bound
  BY DEF Bound, Moving
<1>2. Aside("idle", Nothing)
  BY <1>1, NotBound
<1> QED BY <1>2, UsableStill DEF Return

\* The moves of a refresh.
LEMMA UsableRefresh ==
  ASSUME Typed, TurnInv, UsableInv, NEW s \in Sessions, Refresh(s), NEW m, m = my[s], NEW d, d = m.job
  PROVE  UsableInv'
<1>1. /\ setting' = setting /\ torn' = torn /\ pc[s] # "idle" /\ d \in Days
  BY DEF Refresh, LockRefresh, TakeLock, Capture, MoveOld, MoveNew, Record, Finish, Refuse,
     RollbackRemove, RollbackRestore, RollbackRecord, bounds, disk, Typed, PlacedAt, CreateSteps
<1>2. my' = my => Learn(s, m)
  BY Have DEF Learn
<1>3. setting.turns => Aside(pc[s], m)
  BY <1>1, UsableAlone DEF TurnInv
<1>4. /\ snap[d] \in Texts /\ job[d] \in JobRecords /\ m \in MyRecords /\ wip # 0
      /\ \A t : [job[d] EXCEPT !.text = t].text = t /\ [job[d] EXCEPT !.text = t].state = job[d].state
  BY <1>1, Have, Constant DEF JobRecords
<1>5. CASE LockRefresh(s)
  <2>1. job' = job /\ snap' = snap /\ pc[s] \notin Moving
    BY <1>5 DEF LockRefresh, TakeLock, disk, Moving
  <2>2. CASE Return(s)
    BY <1>1, <2>1, <2>2, UsableReturn
  <2>3. CASE ~ Return(s)
    <3>1. PICK step \in {"capture", "check"} : Go(s, step) /\ my' = my
      BY <1>5, <2>3 DEF LockRefresh, TakeLock
    <3>2. Aside(step, m)
      BY NotBound DEF Bound, Moving
    <3> QED BY <1>1, <1>2, <2>1, <3>1, <3>2, UsableStill
  <2> QED BY <2>2, <2>3
<1>6. CASE Capture(s)
  <2>0. PICK new : new = [m EXCEPT !.staged = wip]
    OBVIOUS
  <2>1. job' = job /\ snap' = snap /\ pc[s] \notin Moving /\ Go(s, "moveOld") /\ Learn(s, new)
    BY <1>6, <2>0 DEF Capture, disk, Moving
  <2>2. new.staged = wip
    BY <1>4, <2>0 DEF MyRecords
  <2>3. Aside("moveOld", new)
    BY <1>4, <2>2 DEF Aside, Moving
  <2> QED BY <1>1, <2>1, <2>3, UsableStill
<1>7. CASE MoveOld(s) /\ Return(s)
  <2>1. job' = job /\ snap' = snap /\ pc[s] \notin Moving
    BY <1>1, <1>7, Have DEF MoveOld, Refuse, Go, Return, Moving
  <2> QED BY <1>1, <1>7, <2>1, UsableReturn
<1>8. CASE MoveOld(s) /\ ~ Return(s)
  <2>0. PICK new : new = [m EXCEPT !.backup = snap[d]]
    OBVIOUS
  <2>1. /\ snap[d] # 0 /\ job' = job /\ snap' = [snap EXCEPT ![d] = 0] /\ Go(s, "moveNew") /\ Learn(s, new)
        /\ pc[s] = "moveOld"
    BY <1>8, <2>0 DEF MoveOld, Refuse
  <2>2. new.backup = snap[d] /\ new.staged = m.staged /\ new.job = d
    BY <1>4, <2>0 DEF MyRecords
  <2>3. setting.turns => Aside("moveNew", new)'
    BY <1>3, <2>1, <2>2 DEF Aside, Moving
  <2>4. \A e \in Days \ {d} : job'[e] = job[e] /\ snap'[e] = snap[e]
    BY <2>1, Have
  <2>5. "moveNew" \in Moving
    BY DEF Moving
  <2> QED BY <1>1, <2>1, <2>2, <2>3, <2>4, <2>5, UsableWritten
<1>9. CASE MoveNew(s)
  <2>1. /\ job' = job /\ snap' = [snap EXCEPT ![d] = m.staged] /\ Go(s, "record") /\ my' = my /\ pc[s] = "moveNew"
    BY <1>9 DEF MoveNew
  <2>2. snap'[d] = m.staged /\ \A e \in Days \ {d} : job'[e] = job[e] /\ snap'[e] = snap[e]
    BY <1>1, <2>1, Have
  <2>3. setting.turns => Aside("record", m)'
    BY <1>3, <2>1, <2>2 DEF Aside, Moving
  <2>4. "record" \in Moving
    BY DEF Moving
  <2> QED BY <1>1, <1>2, <2>1, <2>2, <2>3, <2>4, UsableWritten
<1>10. CASE Record(s)
  <2>1. /\ snap' = snap /\ job' = [job EXCEPT ![d].text = m.staged] /\ Go(s, "finish") /\ my' = my /\ pc[s] = "record"
    BY <1>10 DEF Record
  <2>2. job'[d] = [job[d] EXCEPT !.text = m.staged] /\ \A e \in Days \ {d} : job'[e] = job[e] /\ snap'[e] = snap[e]
    BY <1>1, <2>1, Have
  <2>w. job'[d].text = m.staged
    BY <1>4, <2>2
  <2>3. setting.turns => Whole(d)'
    <3>1. setting.turns => snap'[d] # 0 /\ snap'[d] = job'[d].text
      BY <1>3, <2>1, <2>w DEF Aside
    <3> QED BY <3>1 DEF Whole
  <2>4. setting.turns => Aside("finish", m)'
    BY <1>3, <2>1 DEF Aside, Moving
  <2> QED BY <1>1, <1>2, <2>1, <2>2, <2>3, <2>4, UsableWritten
<1>11. CASE Finish(s)
  <2>1. job' = job /\ snap' = snap /\ pc[s] = "finish" /\ pc[s] \notin Moving
    BY <1>11 DEF Finish, Refuse, disk, Moving
  <2>2. CASE Return(s)
    BY <1>1, <2>1, <2>2, UsableReturn
  <2>3. CASE ~ Return(s)
    <3>1. Go(s, "rbRemove") /\ my' = my
      BY <1>11, <2>3 DEF Finish, Refuse
    <3>2. setting.turns => Aside("rbRemove", m)
      BY <1>3, <2>1 DEF Aside, Moving
    <3> QED BY <1>1, <1>2, <2>1, <3>1, <3>2, UsableStill
  <2> QED BY <2>2, <2>3
<1>12. CASE RollbackRemove(s)
  <2>1. /\ job' = job /\ snap' = [snap EXCEPT ![d] = 0] /\ Go(s, "rbRestore") /\ my' = my /\ pc[s] = "rbRemove"
    BY <1>12 DEF RollbackRemove
  <2>2. \A e \in Days \ {d} : job'[e] = job[e] /\ snap'[e] = snap[e]
    BY <2>1, Have
  <2>3. setting.turns => Aside("rbRestore", m)'
    BY <1>3, <2>1 DEF Aside, Moving
  <2>4. "rbRestore" \in Moving
    BY DEF Moving
  <2> QED BY <1>1, <1>2, <2>1, <2>2, <2>3, <2>4, UsableWritten
<1>13. CASE RollbackRestore(s)
  <2>1. /\ job' = job /\ snap' = [snap EXCEPT ![d] = m.backup] /\ Go(s, "rbRecord") /\ my' = my /\ pc[s] = "rbRestore"
    BY <1>13 DEF RollbackRestore
  <2>2. snap'[d] = m.backup /\ \A e \in Days \ {d} : job'[e] = job[e] /\ snap'[e] = snap[e]
    BY <1>1, <2>1, Have
  <2>3. setting.turns => Aside("rbRecord", m)'
    BY <1>3, <2>1, <2>2 DEF Aside, Moving
  <2>4. "rbRecord" \in Moving
    BY DEF Moving
  <2> QED BY <1>1, <1>2, <2>1, <2>2, <2>3, <2>4, UsableWritten
<1>14. CASE RollbackRecord(s)
  <2>1. /\ snap' = snap /\ job' = [job EXCEPT ![d].text = m.backup] /\ Return(s) /\ pc[s] = "rbRecord"
    BY <1>14 DEF RollbackRecord
  <2>2. job'[d] = [job[d] EXCEPT !.text = m.backup] /\ \A e \in Days \ {d} : job'[e] = job[e] /\ snap'[e] = snap[e]
    BY <1>1, <2>1, Have
  <2>w. job'[d].text = m.backup
    BY <1>4, <2>2
  <2>3. setting.turns => Whole(d)'
    <3>1. setting.turns => snap'[d] # 0 /\ snap'[d] = job'[d].text
      BY <1>3, <2>1, <2>w DEF Aside, Moving
    <3> QED BY <3>1 DEF Whole
  <2>4. "idle" \notin Bound
    BY DEF Bound, Moving
  <2>5. Aside("idle", Nothing)'
    BY <2>4, NotBound
  <2> QED BY <1>1, <2>1, <2>2, <2>3, <2>5, UsableWritten DEF Return
<1> QED BY <1>5, <1>6, <1>7, <1>8, <1>9, <1>10, <1>11, <1>12, <1>13, <1>14 DEF Refresh

LEMMA UsableRemove ==
  ASSUME Typed, TurnInv, UsableInv, NEW s \in Sessions, pc[s] \in CreateSteps, RemoveNew(s),
         setting' = setting, torn' = torn
  PROVE  UsableInv'
<1>0. PICK d : d = my[s].new
  OBVIOUS
<1>1. d \in Days /\ pc[s] # "idle" /\ pc[s] \notin Moving
  BY <1>0 DEF Typed, PlacedAt, CreateSteps, Moving
<1>2. /\ job' = [job EXCEPT ![d] = NoJob] /\ snap' = [snap EXCEPT ![d] = 0] /\ Return(s)
  BY <1>0 DEF RemoveNew
<1>3. Whole(d)'
  BY <1>1, <1>2, Have DEF Whole, NoJob
<1>4. \A e \in Days \ {d} : job'[e] = job[e] /\ snap'[e] = snap[e]
  BY <1>2, Have
<1>5. "idle" \notin Bound
  BY DEF Bound, Moving
<1>6. Aside("idle", Nothing)'
  BY <1>5, NotBound
<1> QED BY <1>1, <1>2, <1>3, <1>4, <1>6, UsableWritten DEF Return

LEMMA UsableCreate ==
  ASSUME Typed, TurnInv, UsableInv, NEW s \in Sessions, Create(s), NEW m, m = my[s], NEW d, d = m.new
  PROVE  UsableInv'
<1>1. /\ setting' = setting /\ torn' = torn /\ pc[s] # "idle" /\ d \in Days /\ pc[s] \notin Moving
      /\ pc[s] \in {"archive", "dropOld"} => m.job \in Days
  BY DEF Create, CheckDate, Make, MakeDirectories, CaptureNew, WriteNew, Adopt, Archive, DropOld,
     bounds, Typed, PlacedAt, CreateSteps, Moving
<1>2. my' = my => Learn(s, m)
  BY Have DEF Learn
<1>3. setting.turns => Aside(pc[s], m)
  BY <1>1, UsableAlone DEF TurnInv
<1>4. /\ snap[d] \in Texts /\ job[d] \in JobRecords /\ m \in MyRecords /\ wip # 0
      /\ Bare.state = "bare"
  BY <1>1, Have, Constant DEF Bare, NoJob
<1>5. CASE CheckDate(s) \/ Make(s) \/ (Adopt(s) /\ ~ RemoveNew(s))
  <2>1. job' = job /\ snap' = snap
    BY <1>5 DEF CheckDate, Make, Adopt, Refuse, disk
  <2>2. CASE Return(s)
    BY <1>1, <2>1, <2>2, UsableReturn
  <2>3. CASE ~ Return(s)
    <3>1. /\ my' = my
          /\ \/ Go(s, "make") \/ Go(s, "adopt") \/ Go(s, "archive")
             \/ Go(s, "mkdir") /\ job[d].state = "none"
      BY <1>5, <2>3 DEF CheckDate, Make, Adopt, Refuse, RootExists
    <3>2. PICK step : Go(s, step) /\ Aside(step, m)
      <4>1. {"make", "adopt", "archive"} \cap Bound = {}
        BY DEF Bound, Moving
      <4>2. job[d].state = "none" => Aside("mkdir", m)
        BY DEF Aside, Moving
      <4>3. Aside("make", m) /\ Aside("adopt", m) /\ Aside("archive", m)
        BY <4>1, NotBound
      <4> QED BY <3>1, <4>2, <4>3
    <3> QED BY <1>1, <1>2, <2>1, <3>1, <3>2, UsableStill
  <2> QED BY <2>2, <2>3
<1>6. CASE (CaptureNew(s) \/ Adopt(s)) /\ RemoveNew(s)
  BY <1>1, <1>6, UsableRemove DEF CaptureNew, Adopt, CreateSteps
<1>7. CASE MakeDirectories(s)
  <2>1. /\ job' = [job EXCEPT ![d] = IF @.state = "none" THEN Bare ELSE @] /\ snap' = snap
        /\ Go(s, "captureNew") /\ my' = my /\ pc[s] = "mkdir"
    BY <1>7 DEF MakeDirectories
  <2>2. job'[d] = (IF job[d].state = "none" THEN Bare ELSE job[d])
        /\ \A e \in Days \ {d} : job'[e] = job[e] /\ snap'[e] = snap[e]
    BY <1>1, <2>1, Have
  <2>3. setting.turns => job'[d].state # "ACTIVE"
    BY <1>3, <1>4, <2>1, <2>2 DEF Aside
  <2>4. setting.turns => Whole(d)' /\ Aside("captureNew", m)'
    BY <2>3 DEF Whole, Aside, Moving
  <2> QED BY <1>1, <1>2, <2>1, <2>2, <2>4, UsableWritten
<1>8. CASE CaptureNew(s) /\ ~ RemoveNew(s)
  <2>0. PICK new : new = [m EXCEPT !.staged = wip]
    OBVIOUS
  <2>1. /\ job' = [job EXCEPT ![d] = IF @.state = "none" THEN Bare ELSE @] /\ snap' = [snap EXCEPT ![d] = wip]
        /\ Go(s, "writeNew") /\ Learn(s, new) /\ pc[s] = "captureNew"
    BY <1>8, <2>0 DEF CaptureNew
  <2>2. job'[d] = (IF job[d].state = "none" THEN Bare ELSE job[d]) /\ snap'[d] = wip
        /\ \A e \in Days \ {d} : job'[e] = job[e] /\ snap'[e] = snap[e]
    BY <1>1, <2>1, Have
  <2>3. setting.turns => job'[d].state # "ACTIVE"
    BY <1>3, <1>4, <2>1, <2>2 DEF Aside
  <2>4. new.staged = wip /\ new.new = d
    BY <1>4, <2>0 DEF MyRecords
  <2>5. setting.turns => Whole(d)' /\ Aside("writeNew", new)'
    BY <1>4, <2>2, <2>3, <2>4 DEF Whole, Aside, Moving
  <2> QED BY <1>1, <2>1, <2>2, <2>5, UsableWritten, ZenonT(60)
<1>9. CASE WriteNew(s)
  <2>1. /\ job' = [job EXCEPT ![d] = Active(m.staged)] /\ snap' = snap /\ Go(s, "adopt") /\ my' = my /\ pc[s] = "writeNew"
    BY <1>9 DEF WriteNew
  <2>2. job'[d] = Active(m.staged) /\ \A e \in Days \ {d} : job'[e] = job[e] /\ snap'[e] = snap[e]
    BY <1>1, <2>1, Have
  <2>3. setting.turns => Whole(d)'
    BY <1>3, <2>1, <2>2 DEF Whole, Aside, Active
  <2>4. "adopt" \notin Bound
    BY DEF Bound, Moving
  <2>5. Aside("adopt", m)'
    BY <2>4, NotBound
  <2> QED BY <1>1, <1>2, <2>1, <2>2, <2>3, <2>5, UsableWritten
<1>10. CASE Archive(s)
  <2>0. PICK e : e = m.job
    OBVIOUS
  <2> DEFINE r == [job[e] EXCEPT !.state = "ARCHIVED", !.replacedBy = d]
  <2>1. /\ snap' = snap /\ Go(s, "dropOld") /\ my' = my /\ pc[s] = "archive" /\ e \in Days
    BY <1>1, <1>10, <2>0 DEF Archive
  <2>2. job'[e] = r /\ \A x \in Days \ {e} : job'[x] = job[x] /\ snap'[x] = snap[x]
    BY <1>10, <2>0, <2>1, Have DEF Archive
  <2>3. r.state = "ARCHIVED"
    BY <2>1, Have DEF JobRecords
  <2>4. Whole(e)' /\ Aside("dropOld", m)'
    BY <2>0, <2>2, <2>3 DEF Whole, Aside, Moving
  <2> QED BY <1>1, <1>2, <2>1, <2>2, <2>4, UsableWritten
<1>11. CASE DropOld(s)
  <2>0. PICK e : e = m.job
    OBVIOUS
  <2>1. /\ job' = job /\ snap' = [snap EXCEPT ![e] = 0] /\ Return(s) /\ pc[s] = "dropOld" /\ e \in Days
    BY <1>1, <1>11, <2>0 DEF DropOld
  <2>2. \A x \in Days \ {e} : job'[x] = job[x] /\ snap'[x] = snap[x]
    BY <2>1, Have
  <2>3. setting.turns => Whole(e)'
    BY <1>3, <2>0, <2>1 DEF Whole, Aside
  <2>4. "idle" \notin Bound
    BY DEF Bound, Moving
  <2>5. Aside("idle", Nothing)'
    BY <2>4, NotBound
  <2> QED BY <1>1, <2>1, <2>2, <2>3, <2>5, UsableWritten DEF Return
<1> QED BY <1>5, <1>6, <1>7, <1>8, <1>9, <1>10, <1>11 DEF Create

\* An error among the moves is put right by the handlers, or leaves the Job torn.
LEMMA UsableIOError ==
  ASSUME Typed, TurnInv, UsableInv, NEW s \in Sessions, IOError(s)
  PROVE  UsableInv'
<1>1. /\ setting' = setting /\ pc[s] # "idle" /\ torn \subseteq torn'
      /\ torn' = IF pc[s] \in Exposed \ {"record"} THEN torn \cup {my[s].job} ELSE torn
  BY DEF IOError, RunSteps, RefreshSteps, CreateSteps
<1>2. \/ pc[s] \in CreateSteps /\ RemoveNew(s)
      \/ pc[s] \in {"record", "finish"} /\ Go(s, "rbRemove") /\ my' = my /\ job' = job /\ snap' = snap
      \/ pc[s] # "record" /\ Return(s) /\ job' = job /\ snap' = snap
  BY DEF IOError, Refuse, UndoRun, disk, RunSteps, RefreshSteps
<1>3. CASE pc[s] \in CreateSteps /\ RemoveNew(s)
  BY <1>1, <1>3, UsableRemove DEF CreateSteps, Exposed
<1>4. CASE pc[s] \in {"record", "finish"} /\ Go(s, "rbRemove") /\ my' = my /\ job' = job /\ snap' = snap
  <2>1. Learn(s, my[s]) /\ "rbRemove" \in Moving
    BY <1>4, Have DEF Learn, Moving
  <2>2. setting.turns => Aside(pc[s], my[s])
    BY <1>1, UsableAlone DEF TurnInv
  <2>3. setting.turns => Aside("rbRemove", my[s])
    BY <1>4, <2>2 DEF Aside, Moving
  <2> QED BY <1>1, <1>4, <2>1, <2>3, UsableStill
<1>5. CASE pc[s] # "record" /\ Return(s) /\ job' = job /\ snap' = snap
  <2>1. pc[s] \in Moving => my[s].job \in torn'
    BY <1>1, <1>5 DEF Moving, Exposed
  <2> QED BY <1>1, <1>5, <2>1, UsableReturn
<1> QED BY <1>2, <1>3, <1>4, <1>5

LEMMA UsableStep ==
  ASSUME Typed, TurnInv, UsableInv, NEW s \in Sessions,
         Start(s) \/ Step(s) \/ IOError(s) \/ Die(s)
  PROVE  UsableInv'
<1>1. CASE ClearPointer(s)
  BY <1>1, UsableReturn DEF ClearPointer, bounds, Moving
<1>2. CASE Die(s)
  BY <1>2, UsableReturn DEF Die, disk, Moving, Exposed
<1> QED BY <1>1, <1>2, UsableStart, UsableCreateRun, UsableRefresh, UsableCreate, UsableIOError DEF Step

LEMMA UsableInvInit == Init => UsableInv
<1> SUFFICES ASSUME Init PROVE UsableInv
  OBVIOUS
<1>1. \A d \in Days : Whole(d)
  BY DEF Init, Whole, Active, NoJob
<1>2. \A s \in Sessions : pc[s] = "idle" /\ "idle" \notin Bound
  BY DEF Init, Bound, Moving
<1>3. \A s \in Sessions : Aside(pc[s], my[s])
  BY <1>2, NotBound
<1> QED BY <1>1, <1>3 DEF UsableInv

LEMMA UsableInvNext == Typed /\ TurnInv /\ UsableInv /\ [Next]_vars => UsableInv'
<1> SUFFICES ASSUME Typed, TurnInv, UsableInv, [Next]_vars PROVE UsableInv'
  OBVIOUS
<1>1. CASE UNCHANGED <<setting, pc, my, job, snap, torn>>
  BY <1>1 DEF UsableInv, Aside, Whole
<1>2. CASE \E s \in Sessions : Start(s) \/ Step(s) \/ IOError(s) \/ Die(s)
  BY <1>2, UsableStep
<1> QED BY <1>1, <1>2 DEF Next, Reimport, ClearLock, vars, disk, bounds

\* Between commands that take turns every active Job opens, whatever failed or died, unless a
\* refresh was cut off among its moves (refresh_job_snapshot and its exception handler).
THEOREM JobJobStaysUsable == Spec => []JobStaysUsable
<1>1. JobInv => Typed
  BY DEF JobInv
<1>2. UsableInv => JobStaysUsable
  <2> SUFFICES ASSUME UsableInv, setting.turns, \A s \in Sessions : pc[s] = "idle",
                      NEW d \in Days, job[d].state = "ACTIVE"
               PROVE  Loads(d) \/ d \in torn
    BY DEF JobStaysUsable
  <2>1. Whole(d)
    BY DEF UsableInv, Moving
  <2> QED BY <2>1 DEF Whole, Loads, Manifest
<1> QED BY <1>1, <1>2, JobInvariant, JobTurnInvariant, UsableInvInit, UsableInvNext, PTL DEF Spec
=============================================================================
