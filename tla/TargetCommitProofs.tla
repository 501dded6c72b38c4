------------------------- MODULE TargetCommitProofs -------------------------
(***************************************************************************)
(* The ways back: whatever overlaps and whatever is killed, for any tasks, *)
(* scopes and texts; for commands that follow one another, that a command  *)
(* changes its own scope only; and, while none is killed either, that a    *)
(* revert restores the text which the present one replaced.                *)
(***************************************************************************)
EXTENDS TargetCommit, TLAPS

Listed(t) == \E i \in DOMAIN history : history[i].task = t

\* A text that is, or may be put, at scope s of the book.
HasWayBack(x, s) ==
    x \in Tasks => /\ ScopeOf[x] = s /\ x \notin LeftOut
                   /\ control[x] = "CREATED" \/ Listed(x)

BookHasWayBack(book) == \A s \in Scopes : HasWayBack(book[s], s)

BooksHaveWayBack ==
    /\ BookHasWayBack(target) /\ BookHasWayBack(rev.restored)
    /\ \A t \in Tasks : BookHasWayBack(sub[t].before)

HistoryLeadsBack ==
    \A i \in DOMAIN history :
        /\ history[i].scope = ScopeOf[history[i].task]
        /\ HasWayBack(history[i].before, history[i].scope)

OpenUntilListed ==
    \A t \in Tasks :
        /\ sub[t].pc # "idle" => control[t] = "CREATED"
        /\ sub[t].pc \notin {"idle", "read", "recorded"} => t \notin LeftOut
        /\ sub[t].pc = "recorded" /\ t \notin LeftOut => Listed(t)

TargetInv == TypeOK /\ BooksHaveWayBack /\ HistoryLeadsBack /\ OpenUntilListed

---------------------------------------------------------------------------
USE TargetCommitAssumption, TargetNamesAssumption

LEMMA IdleRecords ==
  /\ NoBook \in Books
  /\ SubIdle \in [pc : SubSteps, before : Books, staged : Books]
  /\ RevIdle \in [pc : RevSteps, scope : Scopes, restored : Books, staged : Books]
  /\ SubIdle.pc = "idle" /\ SubIdle.before = NoBook /\ RevIdle.pc = "idle" /\ RevIdle.restored = NoBook
<1>1. (CHOOSE s \in Scopes : TRUE) \in Scopes
  OBVIOUS
<1>2. NoBook \in Books
  BY DEF NoBook, Books, Texts
<1>3. QED
  BY <1>1, <1>2 DEF SubIdle, RevIdle, SubSteps, RevSteps

LEMMA NoBookHasWayBack == BookHasWayBack(NoBook) /\ BookHasWayBack(NoBook)'
  BY DEF BookHasWayBack, HasWayBack, NoBook

LEMMA InitTargetInv == Init => TargetInv
<1> SUFFICES ASSUME Init PROVE TargetInv
  OBVIOUS
<1>1. TypeOK
  BY IdleRecords DEF Init, TypeOK, SettingRecords
<1>2. BooksHaveWayBack /\ HistoryLeadsBack /\ OpenUntilListed
  BY NoBookHasWayBack, IdleRecords
  DEF Init, BooksHaveWayBack, HistoryLeadsBack, OpenUntilListed
<1>3. QED
  BY <1>1, <1>2 DEF TargetInv


---------------------------------------------------------------------------
(* A step that closes only listed tasks keeps every way back.               *)

WaysStay == \A t \in Tasks :
    t \notin LeftOut /\ (control[t] = "CREATED" \/ Listed(t)) => control'[t] = "CREATED" \/ Listed(t)'

LEMMA WayBackStays ==
  ASSUME WaysStay
  PROVE  /\ \A x, s : HasWayBack(x, s) => HasWayBack(x, s)'
         /\ \A book : BookHasWayBack(book) => BookHasWayBack(book)'
<1>1. \A x, s : HasWayBack(x, s) => HasWayBack(x, s)'
  BY DEF WaysStay, HasWayBack
<1>2. QED
  BY <1>1 DEF BookHasWayBack

LEMMA SameRecords ==
  ASSUME UNCHANGED <<history, control>>
  PROVE  /\ WaysStay
         /\ \A t : Listed(t)' <=> Listed(t)
         /\ HistoryLeadsBack => HistoryLeadsBack'
<1>1. \A t : Listed(t)' <=> Listed(t)
  BY DEF Listed
<1>2. WaysStay
  BY <1>1 DEF WaysStay
<1>3. QED
  BY <1>1, <1>2, WayBackStays DEF HistoryLeadsBack

\* Of the submission steps most move only what one submission has read and where it is.
LEMMA SubmitStep ==
  ASSUME TargetInv, NEW t \in Tasks, Submit(t)
  PROVE  TargetInv'
<1> USE DEF TargetInv, TypeOK, Submit
<1>1. TypeOK'
  BY IdleRecords DEF SubSteps
<1>2. HistoryLeadsBack' /\ WaysStay /\ \A u : Listed(u)' <=> Listed(u)
  BY SameRecords
<1>3. BooksHaveWayBack'
  BY <1>2, WayBackStays DEF BooksHaveWayBack
<1>4. OpenUntilListed'
  BY <1>2 DEF OpenUntilListed
<1>5. QED
  BY <1>1, <1>2, <1>3, <1>4

LEMMA LeaveEverythingOutStep ==
  ASSUME TargetInv, NEW t \in Tasks, LeaveEverythingOut(t)
  PROVE  TargetInv'
<1> USE DEF TargetInv, TypeOK, LeaveEverythingOut, SubGoes
<1>1. TypeOK'
  BY DEF SubSteps
<1>2. HistoryLeadsBack' /\ WaysStay /\ \A u : Listed(u)' <=> Listed(u)
  BY SameRecords
<1>3. BooksHaveWayBack'
  BY <1>2, WayBackStays DEF BooksHaveWayBack
<1>4. OpenUntilListed'
  BY <1>2 DEF OpenUntilListed
<1>5. QED
  BY <1>1, <1>2, <1>3, <1>4

LEMMA LockStep ==
  ASSUME TargetInv, NEW t \in Tasks, Lock(t)
  PROVE  TargetInv'
<1> USE DEF TargetInv, TypeOK, Lock, SubGoes, SubEnds
<1>1. TypeOK'
  <2>1. sub' \in [Tasks -> [pc : SubSteps, before : Books, staged : Books]]
    <3>1. CASE lock = Nobody
      BY <3>1 DEF SubSteps
    <3>2. CASE lock # Nobody
      BY <3>2, IdleRecords
    <3>3. QED
      BY <3>1, <3>2
  <2>2. QED
    BY <2>1
<1>2. HistoryLeadsBack' /\ WaysStay /\ \A u : Listed(u)' <=> Listed(u)
  BY SameRecords
<1>3. BooksHaveWayBack'
  BY <1>2, WayBackStays, IdleRecords, NoBookHasWayBack, SMTT(60) DEF BooksHaveWayBack
<1>4. OpenUntilListed'
  BY <1>2, IdleRecords DEF OpenUntilListed
<1>5. QED
  BY <1>1, <1>2, <1>3, <1>4

LEMMA StageBookStep ==
  ASSUME TargetInv, NEW t \in Tasks, StageBook(t)
  PROVE  TargetInv'
<1> USE DEF TargetInv, TypeOK, StageBook
<1>1. TypeOK'
  BY DEF SubSteps
<1>2. HistoryLeadsBack' /\ WaysStay /\ \A u : Listed(u)' <=> Listed(u)
  BY SameRecords
<1>3. BooksHaveWayBack'
  BY <1>2, WayBackStays DEF BooksHaveWayBack
<1>4. OpenUntilListed'
  BY <1>2 DEF OpenUntilListed
<1>5. QED
  BY <1>1, <1>2, <1>3, <1>4

\* The text a submission puts in place is the one its open task will record.
LEMMA MergedHasWayBack ==
  ASSUME TargetInv, NEW t \in Tasks, sub[t].pc = "staged"
  PROVE  Merged(t) \in Books /\ BookHasWayBack(Merged(t))
<1>1. Merged(t) \in Books
  BY DEF Merged, TargetInv, TypeOK, Books, Texts
<1>2. control[t] = "CREATED" /\ t \notin LeftOut
  BY DEF TargetInv, OpenUntilListed
<1>3. HasWayBack(t, ScopeOf[t])
  BY <1>2 DEF HasWayBack
<1>4. BookHasWayBack(sub[t].before)
  BY DEF TargetInv, BooksHaveWayBack
<1>5. \A s \in Scopes : Merged(t)[s] = IF s = ScopeOf[t] THEN t ELSE sub[t].before[s]
  BY DEF Merged, TargetInv, TypeOK, Books
<1>6. QED
  BY <1>1, <1>3, <1>4, <1>5 DEF BookHasWayBack

LEMMA ReplacingType ==
  ASSUME TypeOK, NEW book \in Books PROVE Replacing(book) \in Books
  BY DEF Replacing, TypeOK, Books

LEMMA ReplaceBookStep ==
  ASSUME TargetInv, NEW t \in Tasks, ReplaceBook(t)
  PROVE  TargetInv'
<1>1. Merged(t) \in Books /\ BookHasWayBack(Merged(t)) /\ Replacing(Merged(t)) \in Books
  BY MergedHasWayBack, ReplacingType DEF ReplaceBook, TargetInv
<1> USE DEF TargetInv, TypeOK, ReplaceBook, SubGoes, SubEnds
<1>2. TypeOK'
  <2>1. sub' \in [Tasks -> [pc : SubSteps, before : Books, staged : Books]]
    <3>1. CASE target = sub[t].staged
      BY <3>1 DEF SubSteps
    <3>2. CASE target # sub[t].staged
      BY <3>2, IdleRecords
    <3>3. QED
      BY <3>1, <3>2
  <2>2. QED
    BY <1>1, <2>1
<1>3. HistoryLeadsBack' /\ WaysStay /\ \A u : Listed(u)' <=> Listed(u)
  BY SameRecords
<1>4. BooksHaveWayBack'
  BY <1>1, <1>3, WayBackStays, IdleRecords, NoBookHasWayBack DEF BooksHaveWayBack
<1>5. OpenUntilListed'
  BY <1>3, IdleRecords DEF OpenUntilListed
<1>6. QED
  BY <1>2, <1>3, <1>4, <1>5

LEMMA UnlockStep ==
  ASSUME TargetInv, NEW t \in Tasks, Unlock(t)
  PROVE  TargetInv'
<1> USE DEF TargetInv, TypeOK, Unlock, SubGoes
<1>1. TypeOK'
  BY DEF SubSteps
<1>2. HistoryLeadsBack' /\ WaysStay /\ \A u : Listed(u)' <=> Listed(u)
  BY SameRecords
<1>3. BooksHaveWayBack'
  BY <1>2, WayBackStays DEF BooksHaveWayBack
<1>4. OpenUntilListed'
  BY <1>2 DEF OpenUntilListed
<1>5. QED
  BY <1>1, <1>2, <1>3, <1>4

LEMMA RecordCommitStep ==
  ASSUME TargetInv, NEW t \in Tasks, RecordCommit(t)
  PROVE  TargetInv'
<1> DEFINE e == [task |-> t, scope |-> ScopeOf[t], before |-> sub[t].before[ScopeOf[t]], after |-> t]
<1> USE DEF TargetInv
<1>1. ScopeOf[t] \in Scopes /\ e \in Entries
  BY DEF TypeOK, Entries, Books, Texts
<1>2. /\ history' = Append(history, e) /\ history \in Seq(Entries)
      /\ UNCHANGED <<setting, target, lock, control, rev, reverts, crashes, replaced>>
      /\ sub' = [sub EXCEPT ![t].pc = "recorded"]
  BY DEF RecordCommit, SubGoes, TypeOK
<1>3. /\ DOMAIN history' = 1 .. Len(history) + 1 /\ DOMAIN history = 1 .. Len(history)
      /\ Len(history) \in Nat
      /\ \A i \in 1 .. Len(history) : history'[i] = history[i]
      /\ history'[Len(history) + 1] = e
  BY <1>1, <1>2
<1>4. TypeOK'
  BY <1>1, <1>2 DEF TypeOK, SubSteps
<1>5. \A u : Listed(u)' <=> Listed(u) \/ u = t
  BY <1>3 DEF Listed
<1>6. WaysStay
  BY <1>2, <1>5 DEF WaysStay
<1>7. HistoryLeadsBack'
  <2> SUFFICES ASSUME NEW i \in 1 .. Len(history) + 1
               PROVE  /\ history'[i].scope = ScopeOf[history'[i].task]
                      /\ HasWayBack(history[i].before, history[i].scope)'
    BY <1>3 DEF HistoryLeadsBack
  <2>1. CASE i \in 1 .. Len(history)
    <3>1. history[i].scope = ScopeOf[history[i].task] /\ HasWayBack(history[i].before, history[i].scope)
      BY <1>3, <2>1 DEF HistoryLeadsBack
    <3>2. \A x, s : HasWayBack(x, s) => HasWayBack(x, s)'
      BY <1>6, WayBackStays
    <3>3. QED
      BY <1>3, <2>1, <3>1, <3>2
  <2>2. CASE i = Len(history) + 1
    <3>1. HasWayBack(sub[t].before[ScopeOf[t]], ScopeOf[t])
      BY <1>1 DEF BooksHaveWayBack, BookHasWayBack
    <3>2. \A x, s : HasWayBack(x, s) => HasWayBack(x, s)'
      BY <1>6, WayBackStays
    <3>3. QED
      BY <1>3, <2>2, <3>1, <3>2
  <2>3. QED
    BY <1>3, <2>1, <2>2
<1>8. BooksHaveWayBack'
  BY <1>2, <1>6, WayBackStays DEF BooksHaveWayBack, TypeOK
<1>9. OpenUntilListed'
  BY <1>2, <1>5 DEF OpenUntilListed, RecordCommit, TypeOK
<1>10. QED
  BY <1>4, <1>7, <1>8, <1>9

LEMMA CloseTaskStep ==
  ASSUME TargetInv, NEW t \in Tasks, CloseTask(t)
  PROVE  TargetInv'
<1> USE DEF TargetInv, TypeOK, CloseTask, SubEnds
<1>1. TypeOK'
  BY IdleRecords DEF SubSteps
<1>2. \A u : Listed(u)' <=> Listed(u)
  BY DEF Listed
<1>3. WaysStay
  BY <1>2 DEF WaysStay, OpenUntilListed
<1>4. HistoryLeadsBack'
  BY <1>3, WayBackStays DEF HistoryLeadsBack
<1>5. BooksHaveWayBack'
  BY <1>3, WayBackStays, IdleRecords, NoBookHasWayBack DEF BooksHaveWayBack
<1>6. OpenUntilListed'
  BY <1>2, IdleRecords DEF OpenUntilListed
<1>7. QED
  BY <1>1, <1>4, <1>5, <1>6

LEMMA SubmissionCrashStep ==
  ASSUME TargetInv, NEW t \in Tasks, SubmissionCrash(t)
  PROVE  TargetInv'
<1> USE DEF TargetInv, TypeOK, SubmissionCrash, SubEnds
<1>1. TypeOK'
  BY IdleRecords DEF SubSteps, SettingRecords
<1>2. HistoryLeadsBack' /\ WaysStay /\ \A u : Listed(u)' <=> Listed(u)
  BY SameRecords
<1>3. BooksHaveWayBack'
  BY <1>2, WayBackStays, IdleRecords, NoBookHasWayBack DEF BooksHaveWayBack
<1>4. OpenUntilListed'
  BY <1>2, IdleRecords DEF OpenUntilListed
<1>5. QED
  BY <1>1, <1>2, <1>3, <1>4

\* A revert puts back what the history leads back to.
LEMMA CheckRevertStep ==
  ASSUME TargetInv, NEW s \in Scopes, CheckRevert(s)
  PROVE  TargetInv'
<1>1. PICK i \in DOMAIN history :
        /\ IsLatest(i, s)
        /\ rev' = [rev EXCEPT !.pc = "checked", !.scope = s,
                              !.restored = [target EXCEPT ![s] = history[i].before]]
  BY DEF CheckRevert
<1>2. history[i].scope = s /\ history[i].before \in Texts
  <2>1. history[i] \in Entries
    BY <1>1 DEF TargetInv, TypeOK
  <2>2. QED
    BY <1>1, <2>1 DEF IsLatest, OfScope, Entries
<1>3. HasWayBack(history[i].before, s)
  BY <1>2 DEF TargetInv, HistoryLeadsBack
<1> DEFINE book == [target EXCEPT ![s] = history[i].before]
<1>4. book \in Books /\ \A u \in Scopes : book[u] = IF u = s THEN history[i].before ELSE target[u]
  BY <1>2 DEF TargetInv, TypeOK, Books
<1>5. BookHasWayBack(book)
  BY <1>3, <1>4 DEF TargetInv, BooksHaveWayBack, BookHasWayBack
<1>6. rev'.restored = book /\ rev' \in [pc : RevSteps, scope : Scopes, restored : Books, staged : Books]
  <2> HIDE DEF book
  <2>1. rev' = [rev EXCEPT !.pc = "checked", !.scope = s, !.restored = book]
    BY <1>1 DEF book
  <2>2. QED
    BY <2>1, <1>4 DEF TargetInv, TypeOK, RevSteps
<1> HIDE DEF book
<1>7. TypeOK'
  BY <1>6 DEF CheckRevert, TargetInv, TypeOK, SettingRecords
<1>8. HistoryLeadsBack' /\ WaysStay /\ \A u : Listed(u)' <=> Listed(u)
  BY SameRecords DEF CheckRevert, TargetInv
<1>9. BooksHaveWayBack'
  BY <1>5, <1>6, <1>8, WayBackStays DEF BooksHaveWayBack, CheckRevert, TargetInv
<1>10. OpenUntilListed'
  BY <1>8 DEF OpenUntilListed, CheckRevert, TargetInv
<1>11. QED
  BY <1>7, <1>8, <1>9, <1>10 DEF TargetInv

LEMMA StageRevertStep ==
  ASSUME TargetInv, StageRevert
  PROVE  TargetInv'
<1> USE DEF TargetInv, TypeOK, StageRevert
<1>1. TypeOK'
  BY DEF RevSteps
<1>2. HistoryLeadsBack' /\ WaysStay /\ \A u : Listed(u)' <=> Listed(u)
  BY SameRecords
<1>3. BooksHaveWayBack'
  BY <1>2, WayBackStays DEF BooksHaveWayBack
<1>4. OpenUntilListed'
  BY <1>2 DEF OpenUntilListed
<1>5. QED
  BY <1>1, <1>2, <1>3, <1>4

LEMMA CommitRevertStep ==
  ASSUME TargetInv, CommitRevert
  PROVE  TargetInv'
<1>1. Replacing(rev.restored) \in Books
  BY ReplacingType DEF TargetInv, TypeOK
<1> USE DEF TargetInv, TypeOK, CommitRevert
<1>2. TypeOK'
  BY <1>1, IdleRecords
<1>3. HistoryLeadsBack' /\ WaysStay /\ \A u : Listed(u)' <=> Listed(u)
  BY SameRecords
<1>4. BooksHaveWayBack'
  BY <1>3, WayBackStays, IdleRecords, NoBookHasWayBack DEF BooksHaveWayBack
<1>5. OpenUntilListed'
  BY <1>3 DEF OpenUntilListed
<1>6. QED
  BY <1>2, <1>3, <1>4, <1>5

LEMMA RevertCrashStep ==
  ASSUME TargetInv, RevertCrash
  PROVE  TargetInv'
<1> USE DEF TargetInv, TypeOK, RevertCrash
<1>1. TypeOK'
  BY IdleRecords DEF SettingRecords
<1>2. HistoryLeadsBack' /\ WaysStay /\ \A u : Listed(u)' <=> Listed(u)
  BY SameRecords
<1>3. BooksHaveWayBack'
  BY <1>2, WayBackStays, IdleRecords, NoBookHasWayBack DEF BooksHaveWayBack
<1>4. OpenUntilListed'
  BY <1>2 DEF OpenUntilListed
<1>5. QED
  BY <1>1, <1>2, <1>3, <1>4

LEMMA StutterTarget ==
  ASSUME TargetInv, UNCHANGED vars
  PROVE  TargetInv'
<1> USE DEF TargetInv, TypeOK, vars
<1>1. HistoryLeadsBack' /\ WaysStay /\ \A u : Listed(u)' <=> Listed(u)
  BY SameRecords
<1>2. BooksHaveWayBack'
  BY <1>1, WayBackStays DEF BooksHaveWayBack
<1>3. OpenUntilListed'
  BY <1>1 DEF OpenUntilListed
<1>4. QED
  BY <1>1, <1>2, <1>3

LEMMA TargetInvStep == TargetInv /\ [Next]_vars => TargetInv'
<1> SUFFICES ASSUME TargetInv, [Next]_vars PROVE TargetInv'
  OBVIOUS
<1>1. ASSUME NEW t \in Tasks, SubmissionStep(t) PROVE TargetInv'
  BY <1>1, SubmitStep, LockStep, StageBookStep, ReplaceBookStep, UnlockStep,
     RecordCommitStep, LeaveEverythingOutStep, CloseTaskStep DEF SubmissionStep
<1>2. ASSUME NEW t \in Tasks, SubmissionCrash(t) PROVE TargetInv'
  BY <1>2, SubmissionCrashStep
<1>3. ASSUME NEW s \in Scopes, CheckRevert(s) PROVE TargetInv'
  BY <1>3, CheckRevertStep
<1>4. QED
  BY <1>1, <1>2, <1>3, StageRevertStep, CommitRevertStep, RevertCrashStep, StutterTarget DEF Next

THEOREM TargetInvariant == Spec => []TargetInv
<1>1. Init => TargetInv
  BY InitTargetInv
<1>2. TargetInv /\ [Next]_vars => TargetInv'
  BY TargetInvStep
<1>3. QED
  BY <1>1, <1>2, PTL DEF Spec

\* Type correctness of the TARGET commits.
THEOREM TargetTypeCorrect == Spec => []TypeOK
<1>1. TargetInv => TypeOK
  BY DEF TargetInv
<1>2. QED
  BY <1>1, TargetInvariant, PTL

\* Whatever overlaps and whatever is killed: a scope holds the text of a task
\* only if the task's commit is in the history of that scope or the task is open.
THEOREM TargetCommitIsRecoverable == Spec => []CommitIsRecoverable
<1>1. TargetInv => CommitIsRecoverable
  <2> SUFFICES ASSUME TargetInv, NEW s \in Scopes, target[s] \in Tasks, control[target[s]] # "CREATED"
               PROVE  \E i \in OfScope(s) : history[i].task = target[s]
    BY DEF CommitIsRecoverable
  <2>1. HasWayBack(target[s], s)
    BY DEF TargetInv, BooksHaveWayBack, BookHasWayBack
  <2>2. PICK i \in DOMAIN history : history[i].task = target[s]
    BY <2>1 DEF HasWayBack, Listed
  <2>3. history[i].scope = s
    BY <2>1, <2>2 DEF HasWayBack, TargetInv, HistoryLeadsBack
  <2>4. QED
    BY <2>2, <2>3 DEF OfScope
<1>2. QED
  BY <1>1, TargetInvariant, PTL

---------------------------------------------------------------------------
(* Commands that follow one another: at most one is under way, and what it  *)
(* read is still what the book holds.                                       *)

OneUnderWay ==
    /\ \A t, u \in Tasks : sub[t].pc # "idle" /\ sub[u].pc # "idle" => t = u
    /\ \A t \in Tasks : sub[t].pc # "idle" => rev.pc = "idle"

AsRead ==
    /\ \A t \in Tasks : sub[t].pc \in {"read", "locked", "staged"} => sub[t].before = target
    /\ rev.pc \in {"checked", "staged"} =>
          \A s \in Scopes : s # rev.scope => rev.restored[s] = target[s]

InTurn == ~setting.concurrent => OneUnderWay /\ AsRead

LEMMA InitInTurn == Init => InTurn
  BY IdleRecords DEF Init, InTurn, OneUnderWay, AsRead

LEMMA SubmissionInTurn ==
  ASSUME TypeOK, InTurn, ~setting.concurrent, NEW t \in Tasks, SubmissionStep(t)
  PROVE  InTurn'
<1> USE DEF TypeOK, InTurn, OneUnderWay, AsRead, SubGoes, SubEnds, MayStart, Quiet
<1>1. CASE Submit(t)
  BY <1>1 DEF Submit
<1>2. CASE Lock(t)
  <2>1. CASE lock = Nobody
    BY <1>2, <2>1, SMTT(60) DEF Lock
  <2>2. CASE lock # Nobody
    <3>1. /\ UNCHANGED <<setting, target, rev>>
          /\ sub' = [sub EXCEPT ![t] = SubIdle]
      BY <1>2, <2>2 DEF Lock
    <3>2. \A u \in Tasks : sub'[u] = IF u = t THEN SubIdle ELSE sub[u]
      BY <3>1
    <3>3. QED
      BY <3>1, <3>2, IdleRecords
  <2>3. QED
    BY <2>1, <2>2
<1>3. CASE StageBook(t)
  BY <1>3 DEF StageBook
<1>4. CASE ReplaceBook(t)
  BY <1>4, IdleRecords, SMTT(60) DEF ReplaceBook
<1>5. CASE Unlock(t)
  BY <1>5 DEF Unlock
<1>6. CASE RecordCommit(t)
  BY <1>6 DEF RecordCommit
<1>7. CASE LeaveEverythingOut(t)
  BY <1>7 DEF LeaveEverythingOut
<1>8. CASE CloseTask(t)
  BY <1>8, IdleRecords DEF CloseTask
<1>9. QED
  BY <1>1, <1>2, <1>3, <1>4, <1>5, <1>6, <1>7, <1>8 DEF SubmissionStep

LEMMA InTurnStep == TypeOK /\ InTurn /\ [Next]_vars => InTurn'
<1> SUFFICES ASSUME TypeOK, InTurn, [Next]_vars PROVE InTurn'
  OBVIOUS
<1>0. setting' = setting
  BY DEF Next, vars, SubmissionStep, Submit, Lock, StageBook, ReplaceBook, Unlock, RecordCommit,
         LeaveEverythingOut, CloseTask, SubmissionCrash, CheckRevert, StageRevert, CommitRevert, RevertCrash
<1> SUFFICES ASSUME ~setting.concurrent PROVE InTurn'
  BY <1>0 DEF InTurn
<1> USE DEF TypeOK, InTurn, OneUnderWay, AsRead, SubGoes, SubEnds, MayStart, Quiet
<1>1. ASSUME NEW t \in Tasks, SubmissionStep(t) PROVE InTurn'
  BY <1>1, SubmissionInTurn
<1>2. ASSUME NEW t \in Tasks, SubmissionCrash(t) PROVE InTurn'
  BY <1>2, IdleRecords DEF SubmissionCrash
<1>3. ASSUME NEW s \in Scopes, CheckRevert(s) PROVE InTurn'
  BY <1>3 DEF CheckRevert, Books
<1>4. CASE StageRevert
  BY <1>4 DEF StageRevert
<1>5. CASE CommitRevert
  BY <1>5, IdleRecords DEF CommitRevert
<1>6. CASE RevertCrash
  BY <1>6, IdleRecords DEF RevertCrash
<1>7. CASE UNCHANGED vars
  BY <1>7 DEF vars
<1>8. QED
  BY <1>1, <1>2, <1>3, <1>4, <1>5, <1>6, <1>7 DEF Next

LEMMA InTurnKeepsOutOfScope ==
  TypeOK /\ InTurn /\ [Next]_vars => (~setting.concurrent => OutOfScopeKept)
<1> SUFFICES ASSUME TypeOK, InTurn, [Next]_vars, ~setting.concurrent PROVE OutOfScopeKept
  OBVIOUS
<1>1. ASSUME NEW t \in Tasks, sub[t].pc = "staged", sub'[t].pc = "replaced"
      PROVE  Touched \subseteq {ScopeOf[t]}
  <2>1. ReplaceBook(t) /\ target' = Merged(t)
    BY <1>1, IdleRecords, ZenonT(60)
    DEF TypeOK, Next, vars, SubmissionStep, Submit, Lock, StageBook, ReplaceBook, Unlock, RecordCommit,
        LeaveEverythingOut, CloseTask, SubmissionCrash, CheckRevert, StageRevert, CommitRevert, RevertCrash,
        SubGoes, SubEnds
  <2>2. sub[t].before = target
    BY <1>1 DEF InTurn, AsRead
  <2>3. QED
    BY <2>1, <2>2 DEF Merged, Touched, TypeOK, Books
<1>2. ASSUME rev.pc = "staged", rev' # rev
      PROVE  Touched \subseteq {rev.scope}
  <2>1. CommitRevert \/ RevertCrash
    BY <1>2
    DEF TypeOK, Next, vars, SubmissionStep, Submit, Lock, StageBook, ReplaceBook, Unlock, RecordCommit,
        LeaveEverythingOut, CloseTask, SubmissionCrash, CheckRevert, StageRevert
  <2>2. \A s \in Scopes : s # rev.scope => rev.restored[s] = target[s]
    BY <1>2 DEF InTurn, AsRead
  <2>3. QED
    BY <2>1, <2>2 DEF CommitRevert, RevertCrash, Touched
<1>3. QED
  BY <1>1, <1>2 DEF OutOfScopeKept

\* Commands that follow one another change their own scope only, whatever was
\* killed before.
THEOREM TargetOutOfScopePreserved == Spec => OutOfScopePreservedInTurn
<1>1. Init => InTurn
  BY InitInTurn
<1>2. TypeOK /\ InTurn /\ [Next]_vars => InTurn'
  BY InTurnStep
<1>3. TypeOK /\ InTurn /\ [Next]_vars => [~setting.concurrent => OutOfScopeKept]_vars
  BY InTurnKeepsOutOfScope
<1>4. QED
  BY <1>1, <1>2, <1>3, TargetTypeCorrect, PTL DEF Spec, OutOfScopePreservedInTurn

---------------------------------------------------------------------------
(* The way a revert goes back.  While one session works and nothing is      *)
(* killed, the latest entry of a scope names the very text the present one   *)
(* replaced, because no text enters the book a second time but by a revert.  *)

Absent(t) ==
    /\ \A s \in Scopes : target[s] # t /\ replaced[s] # t /\ rev.restored[s] # t
    /\ \A i \in DOMAIN history : history[i].before # t

Unrecorded(t) == sub[t].pc \in {"replaced", "committed"}

\* The text of a task that has not replaced anything is nowhere.
NotYetPlaced ==
    \A t \in Tasks : control[t] = "CREATED" /\ ~Unrecorded(t) /\ sub[t].pc # "recorded" => Absent(t)

PlacedAsRead ==
    \A t \in Tasks : Unrecorded(t) =>
        /\ target[ScopeOf[t]] = t
        /\ sub[t].before[ScopeOf[t]] = replaced[ScopeOf[t]] /\ replaced[ScopeOf[t]] # t

EntriesDiffer ==
    \A i \in DOMAIN history : history[i].after = history[i].task /\ history[i].before # history[i].after

LatestNamesReplaced ==
    \A s \in Scopes, i \in DOMAIN history :
        IsLatest(i, s) /\ AsCommitted(history[i]) /\ (\A t \in Tasks : ScopeOf[t] = s => ~Unrecorded(t))
            => history[i].before = replaced[s]

RestoresReplaced ==
    rev.pc # "idle" =>
        /\ rev.restored[rev.scope] = replaced[rev.scope]
        /\ \A i \in OfScope(rev.scope) : IsLatest(i, rev.scope) => history[i].before = rev.restored[rev.scope]

RevertsLeadBack ==
    NotYetPlaced /\ PlacedAsRead /\ EntriesDiffer /\ LatestNamesReplaced /\ RestoresReplaced

RevertInv == Orderly => RevertsLeadBack

\* What a step of a submission leaves alone that moves nothing but itself.
LEMMA OnlyItself ==
  ASSUME TargetInv, RevertsLeadBack, NEW t \in Tasks,
         UNCHANGED <<target, history, control, rev, replaced>>,
         \A u \in Tasks : u # t => sub'[u] = sub[u],
         Unrecorded(t)' => Unrecorded(t) /\ sub'[t].before = sub[t].before,
         Unrecorded(t) => Unrecorded(t)',
         sub[t].pc = "recorded" => sub'[t].pc = "recorded"
  PROVE  RevertsLeadBack'
<1>1. \A u \in Tasks : Unrecorded(u)' <=> Unrecorded(u)
  BY DEF Unrecorded
<1>2. \A u : Absent(u)' <=> Absent(u)
  BY DEF Absent
<1>3. NotYetPlaced'
  BY <1>1, <1>2 DEF NotYetPlaced, RevertsLeadBack
<1>4. PlacedAsRead'
  BY <1>1 DEF PlacedAsRead, RevertsLeadBack
<1>5. EntriesDiffer'
  BY DEF EntriesDiffer, RevertsLeadBack
<1>6. LatestNamesReplaced'
  BY <1>1 DEF LatestNamesReplaced, RevertsLeadBack, IsLatest, OfScope, AsCommitted
<1>7. RestoresReplaced'
  BY DEF RestoresReplaced, RevertsLeadBack, IsLatest, OfScope
<1>8. QED
  BY <1>3, <1>4, <1>5, <1>6, <1>7 DEF RevertsLeadBack

LEMMA MovesOnlyItself ==
  ASSUME TargetInv, RevertsLeadBack, NEW t \in Tasks,
         Submit(t) \/ LeaveEverythingOut(t) \/ Lock(t) \/ StageBook(t) \/ Unlock(t)
  PROVE  RevertsLeadBack'
<1> USE DEF SubGoes, SubEnds, Unrecorded
<1>0. sub \in [Tasks -> [pc : SubSteps, before : Books, staged : Books]]
  BY DEF TargetInv, TypeOK
<1>1. CASE Submit(t)
  BY <1>0, <1>1, OnlyItself DEF Submit
<1>2. CASE LeaveEverythingOut(t)
  BY <1>0, <1>2, OnlyItself DEF LeaveEverythingOut
<1>3. CASE Lock(t)
  <2>1. CASE lock = Nobody
    BY <1>0, <1>3, <2>1, OnlyItself DEF Lock
  <2>2. CASE lock # Nobody
    <3>1. \A u \in Tasks : sub'[u] = IF u = t THEN SubIdle ELSE sub[u]
      BY <1>0, <1>3, <2>2 DEF Lock
    <3>2. UNCHANGED <<target, history, control, rev, replaced>> /\ sub[t].pc = "read"
      BY <1>3 DEF Lock
    <3>3. QED
      BY <3>1, <3>2, IdleRecords, OnlyItself
  <2>3. QED
    BY <2>1, <2>2
<1>4. CASE StageBook(t)
  BY <1>0, <1>4, OnlyItself DEF StageBook
<1>5. CASE Unlock(t)
  BY <1>0, <1>5, OnlyItself DEF Unlock
<1>6. QED
  BY <1>1, <1>2, <1>3, <1>4, <1>5

\* The text that a new text replaces is the one the submission has read.
LEMMA ReplaceBookLeadsBack ==
  ASSUME TargetInv, InTurn, Orderly, RevertsLeadBack, NEW t \in Tasks, ReplaceBook(t)
  PROVE  RevertsLeadBack'
<1>0. /\ sub \in [Tasks -> [pc : SubSteps, before : Books, staged : Books]]
      /\ target \in Books /\ replaced \in Books /\ ScopeOf[t] \in Scopes /\ sub[t].pc = "staged"
      /\ UNCHANGED <<history, control, rev>>
  BY DEF TargetInv, TypeOK, ReplaceBook
<1>1. CASE target # sub[t].staged
  <2>1. \A u \in Tasks : sub'[u] = IF u = t THEN SubIdle ELSE sub[u]
    BY <1>0, <1>1 DEF ReplaceBook, SubEnds
  <2>2. UNCHANGED <<target, replaced>>
    BY <1>1 DEF ReplaceBook
  <2>3. QED
    BY <1>0, <2>1, <2>2, IdleRecords, OnlyItself DEF Unrecorded
<1>2. CASE target = sub[t].staged
  <2>1. sub[t].before = target
    BY <1>0 DEF InTurn, Orderly, AsRead
  <2>2. /\ target' = [target EXCEPT ![ScopeOf[t]] = t]
        /\ replaced' = Replacing(Merged(t))
        /\ sub' = [sub EXCEPT ![t].pc = "replaced"]
    BY <1>2, <2>1 DEF ReplaceBook, Merged, SubGoes
  <2>3. Absent(t)
    BY <1>0 DEF NotYetPlaced, RevertsLeadBack, Unrecorded, TargetInv, OpenUntilListed
  <2>4. \A s \in Scopes : target'[s] = IF s = ScopeOf[t] THEN t ELSE target[s]
    BY <1>0, <2>2 DEF Books
  <2>5. \A s \in Scopes : replaced'[s] = IF s = ScopeOf[t] THEN target[s] ELSE replaced[s]
    BY <1>0, <2>1, <2>2, <2>3 DEF Replacing, Merged, Absent, Books
  <2>6. /\ \A u \in Tasks : Unrecorded(u)' <=> Unrecorded(u) \/ u = t
        /\ \A u \in Tasks : sub'[u].before = sub[u].before /\ (u # t => sub'[u] = sub[u])
        /\ \A u \in Tasks : u # t => ~Unrecorded(u)
    BY <1>0, <2>2 DEF Unrecorded, InTurn, Orderly, OneUnderWay
  <2>7. NotYetPlaced'
    <3> SUFFICES ASSUME NEW u \in Tasks, control'[u] = "CREATED", ~Unrecorded(u)', sub'[u].pc # "recorded"
                 PROVE  Absent(u)'
      BY DEF NotYetPlaced
    <3>1. u # t /\ Absent(u)
      BY <1>0, <2>6 DEF NotYetPlaced, RevertsLeadBack
    <3>2. QED
      BY <1>0, <2>4, <2>5, <3>1 DEF Absent
  <2>8. PlacedAsRead'
    <3> SUFFICES ASSUME NEW u \in Tasks, Unrecorded(u)'
                 PROVE  (/\ target[ScopeOf[u]] = u
                         /\ sub[u].before[ScopeOf[u]] = replaced[ScopeOf[u]] /\ replaced[ScopeOf[u]] # u)'
      BY DEF PlacedAsRead
    <3>1. u = t
      BY <2>6
    <3>2. QED
      BY <1>0, <2>1, <2>3, <2>4, <2>5, <2>6, <3>1 DEF Absent
  <2>9. EntriesDiffer' /\ RestoresReplaced'
    <3>1. rev.pc = "idle"
      BY <1>0 DEF InTurn, Orderly, OneUnderWay
    <3>2. QED
      BY <1>0, <3>1 DEF EntriesDiffer, RestoresReplaced, RevertsLeadBack
  <2>10. LatestNamesReplaced'
    <3> SUFFICES ASSUME NEW s \in Scopes, NEW i \in DOMAIN history, IsLatest(i, s)', AsCommitted(history[i])',
                        \A u \in Tasks : ScopeOf[u] = s => ~Unrecorded(u)'
                 PROVE  history[i].before = replaced'[s]
      BY <1>0 DEF LatestNamesReplaced
    <3>1. s # ScopeOf[t]
      BY <2>6
    <3>2. IsLatest(i, s) /\ history[i].scope = s
      BY <1>0 DEF IsLatest, OfScope
    <3>3. AsCommitted(history[i])
      BY <1>0, <2>4, <3>1, <3>2 DEF AsCommitted
    <3>4. \A u \in Tasks : ScopeOf[u] = s => ~Unrecorded(u)
      BY <2>6
    <3>5. QED
      BY <2>5, <3>1, <3>2, <3>3, <3>4 DEF LatestNamesReplaced, RevertsLeadBack
  <2>11. QED
    BY <2>7, <2>8, <2>9, <2>10 DEF RevertsLeadBack
<1>3. QED
  BY <1>1, <1>2

\* The entry of a commit names the text that is replaced now.
LEMMA RecordCommitLeadsBack ==
  ASSUME TargetInv, InTurn, Orderly, RevertsLeadBack, NEW t \in Tasks, RecordCommit(t)
  PROVE  RevertsLeadBack'
<1> DEFINE e == [task |-> t, scope |-> ScopeOf[t], before |-> sub[t].before[ScopeOf[t]], after |-> t]
<1>0. /\ sub \in [Tasks -> [pc : SubSteps, before : Books, staged : Books]]
      /\ sub[t].pc = "committed" /\ sub' = [sub EXCEPT ![t].pc = "recorded"]
      /\ UNCHANGED <<target, control, rev, replaced>> /\ ScopeOf[t] \in Scopes
  BY DEF TargetInv, TypeOK, RecordCommit, SubGoes
<1>1. e \in Entries /\ history \in Seq(Entries) /\ history' = Append(history, e)
  BY <1>0 DEF TargetInv, TypeOK, Entries, Books, Texts, RecordCommit
<1>2. e.task = t /\ e.scope = ScopeOf[t] /\ e.after = t /\ e.before = sub[t].before[ScopeOf[t]]
  OBVIOUS
<1> HIDE DEF e
<1>3. /\ DOMAIN history' = 1 .. Len(history) + 1 /\ DOMAIN history = 1 .. Len(history)
      /\ Len(history) \in Nat
      /\ \A i \in 1 .. Len(history) : history'[i] = history[i]
      /\ history'[Len(history) + 1] = e
  BY <1>1
<1>4. e.before = replaced[ScopeOf[t]] /\ e.before # t
  BY <1>0, <1>2 DEF PlacedAsRead, RevertsLeadBack, Unrecorded
<1>5. \A u \in Tasks : u # t => sub'[u] = sub[u] /\ sub[u].pc = "idle"
  BY <1>0 DEF InTurn, Orderly, OneUnderWay
<1>6. \A u \in Tasks : ~Unrecorded(u)'
  BY <1>0, <1>5 DEF Unrecorded
<1>7. NotYetPlaced'
  <2> SUFFICES ASSUME NEW u \in Tasks, control'[u] = "CREATED", sub'[u].pc # "recorded"
               PROVE  Absent(u)'
    BY DEF NotYetPlaced
  <2>1. u # t
    BY <1>0
  <2>2. Absent(u)
    BY <1>0, <1>5, <2>1 DEF NotYetPlaced, RevertsLeadBack, Unrecorded
  <2>3. e.before # u
    BY <1>0, <1>4, <2>2 DEF Absent
  <2>4. QED
    BY <1>0, <1>3, <2>2, <2>3 DEF Absent
<1>8. PlacedAsRead' /\ RestoresReplaced'
  <2>1. rev.pc = "idle"
    BY <1>0 DEF InTurn, Orderly, OneUnderWay
  <2>2. QED
    BY <1>0, <1>6, <2>1 DEF PlacedAsRead, RestoresReplaced
<1>9. EntriesDiffer'
  BY <1>2, <1>3, <1>4 DEF EntriesDiffer, RevertsLeadBack
<1>10. LatestNamesReplaced'
  <2> SUFFICES ASSUME NEW s \in Scopes, NEW i \in 1 .. Len(history) + 1, IsLatest(i, s)', AsCommitted(history[i])'
               PROVE  history'[i].before = replaced[s]
    BY <1>0, <1>3 DEF LatestNamesReplaced
  <2>1. CASE i = Len(history) + 1
    BY <1>2, <1>3, <1>4, <2>1 DEF IsLatest, OfScope
  <2>2. CASE i \in 1 .. Len(history)
    <3>1. history[i].scope = s /\ \A j \in 1 .. Len(history) : history[j].scope = s => j <= i
      BY <1>3, <2>2 DEF IsLatest, OfScope
    <3>2. ScopeOf[t] # s
      BY <1>2, <1>3, <2>2 DEF IsLatest, OfScope
    <3>3. IsLatest(i, s) /\ AsCommitted(history[i])
      BY <1>0, <1>3, <2>2, <3>1 DEF IsLatest, OfScope, AsCommitted
    <3>4. \A u \in Tasks : ScopeOf[u] = s => ~Unrecorded(u)
      BY <1>5, <3>2 DEF Unrecorded
    <3>5. QED
      BY <1>3, <2>2, <3>3, <3>4 DEF LatestNamesReplaced, RevertsLeadBack
  <2>3. QED
    BY <1>3, <2>1, <2>2
<1>11. QED
  BY <1>7, <1>8, <1>9, <1>10 DEF RevertsLeadBack

LEMMA CloseTaskLeadsBack ==
  ASSUME TargetInv, RevertsLeadBack, NEW t \in Tasks, CloseTask(t)
  PROVE  RevertsLeadBack'
<1>1. /\ UNCHANGED <<target, history, rev, replaced>>
      /\ \A u \in Tasks : sub'[u] = IF u = t THEN SubIdle ELSE sub[u]
      /\ \A u \in Tasks : control'[u] = IF u = t THEN "COMMITTED" ELSE control[u]
      /\ sub[t].pc = "recorded"
  BY DEF CloseTask, SubEnds, TargetInv, TypeOK
<1>2. \A u \in Tasks : Unrecorded(u)' <=> Unrecorded(u)
  BY <1>1, IdleRecords DEF Unrecorded
<1>3. \A u : Absent(u)' <=> Absent(u)
  BY <1>1 DEF Absent
<1>4. NotYetPlaced'
  BY <1>1, <1>2, <1>3 DEF NotYetPlaced, RevertsLeadBack
<1>5. PlacedAsRead'
  BY <1>1, <1>2, IdleRecords DEF PlacedAsRead, RevertsLeadBack, Unrecorded
<1>6. EntriesDiffer' /\ RestoresReplaced'
  BY <1>1 DEF EntriesDiffer, RestoresReplaced, RevertsLeadBack, IsLatest, OfScope
<1>7. LatestNamesReplaced'
  BY <1>1, <1>2 DEF LatestNamesReplaced, RevertsLeadBack, IsLatest, OfScope, AsCommitted
<1>8. QED
  BY <1>4, <1>5, <1>6, <1>7 DEF RevertsLeadBack

\* A revert starts from the latest entry, and no submission is under way.
LEMMA CheckRevertLeadsBack ==
  ASSUME TargetInv, InTurn, Orderly, RevertsLeadBack, NEW s \in Scopes, CheckRevert(s)
  PROVE  RevertsLeadBack'
<1>1. PICK i \in DOMAIN history :
        /\ IsLatest(i, s) /\ AsCommitted(history[i])
        /\ rev' = [rev EXCEPT !.pc = "checked", !.scope = s,
                              !.restored = [target EXCEPT ![s] = history[i].before]]
  BY DEF CheckRevert
<1>2. UNCHANGED <<target, history, control, sub, replaced>> /\ \A t \in Tasks : sub[t].pc = "idle"
  BY DEF CheckRevert, MayStart, Quiet, Orderly
<1>3. /\ rev'.scope = s
      /\ \A u \in Scopes : rev'.restored[u] = IF u = s THEN history[i].before ELSE target[u]
  <2> DEFINE book == [target EXCEPT ![s] = history[i].before]
  <2>1. \A u \in Scopes : book[u] = IF u = s THEN history[i].before ELSE target[u]
    BY DEF TargetInv, TypeOK, Books
  <2>2. rev' = [rev EXCEPT !.pc = "checked", !.scope = s, !.restored = book]
    BY <1>1
  <2> HIDE DEF book
  <2>3. rev'.scope = s /\ rev'.restored = book
    BY <2>2 DEF TargetInv, TypeOK
  <2>4. QED
    BY <2>1, <2>3
<1>4. \A u \in Tasks : Unrecorded(u)' <=> Unrecorded(u)
  BY <1>2 DEF Unrecorded
<1>5. NotYetPlaced'
  <2> SUFFICES ASSUME NEW u \in Tasks, control'[u] = "CREATED", ~Unrecorded(u)', sub'[u].pc # "recorded"
               PROVE  Absent(u)'
    BY DEF NotYetPlaced
  <2>1. Absent(u)
    BY <1>2, <1>4 DEF NotYetPlaced, RevertsLeadBack
  <2>2. QED
    BY <1>1, <1>2, <1>3, <2>1 DEF Absent
<1>6. PlacedAsRead' /\ EntriesDiffer'
  BY <1>2, <1>4 DEF PlacedAsRead, EntriesDiffer, RevertsLeadBack
<1>7. LatestNamesReplaced'
  BY <1>2, <1>4 DEF LatestNamesReplaced, RevertsLeadBack, IsLatest, OfScope, AsCommitted
<1>8. RestoresReplaced'
  <2>1. history[i].before = replaced[s]
    BY <1>1, <1>2 DEF LatestNamesReplaced, RevertsLeadBack, Unrecorded
  <2>2. \A j \in OfScope(s) : IsLatest(j, s) => j = i
    BY <1>1 DEF IsLatest, OfScope, TargetInv, TypeOK
  <2>3. QED
    BY <1>2, <1>3, <2>1, <2>2 DEF RestoresReplaced, IsLatest, OfScope
<1>9. QED
  BY <1>5, <1>6, <1>7, <1>8 DEF RevertsLeadBack

\* After a revert the scope no longer holds what its latest entry put there.
LEMMA CommitRevertLeadsBack ==
  ASSUME TargetInv, InTurn, Orderly, RevertsLeadBack, CommitRevert
  PROVE  RevertsLeadBack'
<1>0. /\ target \in Books /\ replaced \in Books /\ rev.scope \in Scopes /\ rev.pc = "staged"
      /\ UNCHANGED <<history, control, sub>> /\ rev' = RevIdle
      /\ \A t \in Tasks : sub[t].pc = "idle"
  BY DEF TargetInv, TypeOK, CommitRevert, InTurn, Orderly, OneUnderWay
<1>1. \A u \in Tasks : ~Unrecorded(u) /\ ~Unrecorded(u)'
  BY <1>0 DEF Unrecorded
<1>2. \A s \in Scopes : s # rev.scope => rev.restored[s] = target[s]
  BY <1>0 DEF InTurn, Orderly, AsRead
<1>3. /\ \A s \in Scopes : target'[s] \in {target[s], rev.restored[s]}
      /\ \A s \in Scopes : replaced'[s] \in {target[s], replaced[s]}
      /\ \A s \in Scopes : s # rev.scope => target'[s] = target[s] /\ replaced'[s] = replaced[s]
  BY <1>2 DEF CommitRevert, Replacing
<1>4. \/ UNCHANGED <<target, replaced>>
      \/ target' = rev.restored
  BY DEF CommitRevert
<1>5. NotYetPlaced'
  <2> SUFFICES ASSUME NEW u \in Tasks, control'[u] = "CREATED", sub'[u].pc # "recorded"
               PROVE  Absent(u)'
    BY DEF NotYetPlaced
  <2>1. Absent(u)
    BY <1>0, <1>1 DEF NotYetPlaced, RevertsLeadBack
  <2>2. \A s \in Scopes : rev'.restored[s] # u
    BY <1>0, IdleRecords DEF NoBook
  <2>3. QED
    BY <1>0, <1>3, <2>1, <2>2 DEF Absent
<1>6. PlacedAsRead' /\ EntriesDiffer' /\ RestoresReplaced'
  BY <1>0, <1>1, IdleRecords DEF PlacedAsRead, EntriesDiffer, RestoresReplaced, RevertsLeadBack
<1>7. LatestNamesReplaced'
  <2> SUFFICES ASSUME NEW s \in Scopes, NEW i \in DOMAIN history, IsLatest(i, s)', AsCommitted(history[i])'
               PROVE  history[i].before = replaced'[s]
    BY <1>0 DEF LatestNamesReplaced
  <2>1. IsLatest(i, s) /\ history[i].scope = s /\ target'[s] = history[i].after
    BY <1>0 DEF IsLatest, OfScope, AsCommitted
  <2>2. CASE target'[s] = target[s] /\ replaced'[s] = replaced[s]
    BY <1>1, <2>1, <2>2 DEF AsCommitted, LatestNamesReplaced, RevertsLeadBack
  <2>3. CASE s = rev.scope /\ target' = rev.restored
    <3>1. history[i].before = rev.restored[s]
      BY <1>0, <2>1, <2>3 DEF RestoresReplaced, RevertsLeadBack, IsLatest, OfScope
    <3>2. QED
      BY <2>1, <2>3, <3>1 DEF EntriesDiffer, RevertsLeadBack
  <2>4. QED
    BY <1>3, <1>4, <2>2, <2>3
<1>8. QED
  BY <1>5, <1>6, <1>7 DEF RevertsLeadBack

LEMMA StageRevertLeadsBack ==
  ASSUME TargetInv, RevertsLeadBack, StageRevert
  PROVE  RevertsLeadBack'
<1>1. /\ UNCHANGED <<target, history, control, sub, replaced>> /\ rev.pc # "idle"
      /\ rev'.scope = rev.scope /\ rev'.restored = rev.restored
  BY DEF StageRevert, TargetInv, TypeOK
<1>2. \A u \in Tasks : Unrecorded(u)' <=> Unrecorded(u)
  BY <1>1 DEF Unrecorded
<1>3. \A u : Absent(u)' <=> Absent(u)
  BY <1>1 DEF Absent
<1>4. NotYetPlaced' /\ PlacedAsRead' /\ EntriesDiffer'
  BY <1>1, <1>2, <1>3 DEF NotYetPlaced, PlacedAsRead, EntriesDiffer, RevertsLeadBack
<1>5. LatestNamesReplaced' /\ RestoresReplaced'
  BY <1>1, <1>2 DEF LatestNamesReplaced, RestoresReplaced, RevertsLeadBack, IsLatest, OfScope, AsCommitted
<1>6. QED
  BY <1>4, <1>5 DEF RevertsLeadBack

LEMMA StutterLeadsBack ==
  ASSUME RevertsLeadBack, UNCHANGED vars
  PROVE  RevertsLeadBack'
  BY DEF vars, RevertsLeadBack, NotYetPlaced, PlacedAsRead, EntriesDiffer, LatestNamesReplaced,
         RestoresReplaced, Absent, Unrecorded, IsLatest, OfScope, AsCommitted

LEMMA InitRevertInv == Init => RevertInv
  BY IdleRecords DEF Init, RevertInv, RevertsLeadBack, NotYetPlaced, PlacedAsRead, EntriesDiffer,
     LatestNamesReplaced, RestoresReplaced, Absent, Unrecorded, NoBook

\* Orderly is lost for good: nothing takes a kill back.
LEMMA OrderlyBefore ==
  TypeOK /\ [Next]_vars /\ Orderly' => Orderly /\ \A t \in Tasks : ~SubmissionCrash(t)
<1> SUFFICES ASSUME TypeOK, [Next]_vars, Orderly'
             PROVE  Orderly /\ \A t \in Tasks : ~SubmissionCrash(t)
  OBVIOUS
<1>1. setting' = setting /\ (crashes' = crashes \/ crashes' = crashes + 1)
  BY DEF Next, vars, SubmissionStep, Submit, Lock, StageBook, ReplaceBook, Unlock, RecordCommit,
         LeaveEverythingOut, CloseTask, SubmissionCrash, CheckRevert, StageRevert, CommitRevert, RevertCrash
<1>2. crashes \in Nat
  BY DEF TypeOK
<1>3. QED
  BY <1>1, <1>2 DEF Orderly, SubmissionCrash

LEMMA RevertInvStep == TargetInv /\ InTurn /\ RevertInv /\ [Next]_vars => RevertInv'
<1> SUFFICES ASSUME TargetInv, InTurn, RevertInv, [Next]_vars, Orderly' PROVE RevertsLeadBack'
  BY DEF RevertInv
<1>1. Orderly /\ RevertsLeadBack /\ \A t \in Tasks : ~SubmissionCrash(t)
  BY OrderlyBefore DEF RevertInv, TargetInv
<1>2. ASSUME NEW t \in Tasks, SubmissionStep(t) PROVE RevertsLeadBack'
  BY <1>1, <1>2, MovesOnlyItself, ReplaceBookLeadsBack, RecordCommitLeadsBack, CloseTaskLeadsBack
  DEF SubmissionStep
<1>3. ASSUME NEW s \in Scopes, CheckRevert(s) PROVE RevertsLeadBack'
  BY <1>1, <1>3, CheckRevertLeadsBack
<1>4. CASE RevertCrash
  <2>1. crashes' = crashes + 1 /\ crashes \in Nat
    BY <1>4 DEF RevertCrash, TargetInv, TypeOK
  <2>2. QED
    BY <2>1 DEF Orderly
<1>5. QED
  BY <1>1, <1>2, <1>3, <1>4, CommitRevertLeadsBack, StageRevertLeadsBack, StutterLeadsBack DEF Next

LEMMA RevertPutsBackReplaced ==
  TargetInv /\ RevertInv /\ [Next]_vars =>
      (rev.pc = "staged" /\ rev'.pc = "idle" /\ target = rev.staged /\ Orderly'
          => target'[rev.scope] = replaced[rev.scope])
<1> SUFFICES ASSUME TargetInv, RevertInv, [Next]_vars, Orderly',
                    rev.pc = "staged", rev'.pc = "idle", target = rev.staged
             PROVE  target'[rev.scope] = replaced[rev.scope]
  OBVIOUS
<1>1. Orderly
  BY OrderlyBefore DEF TargetInv
<1>2. CommitRevert \/ RevertCrash
  BY DEF Next, vars, SubmissionStep, Submit, Lock, StageBook, ReplaceBook, Unlock, RecordCommit,
         LeaveEverythingOut, CloseTask, SubmissionCrash, CheckRevert, StageRevert
<1>3. ~RevertCrash
  <2>1. crashes \in Nat
    BY DEF TargetInv, TypeOK
  <2>2. QED
    BY <2>1 DEF Orderly, RevertCrash
<1>4. QED
  BY <1>1, <1>2, <1>3 DEF CommitRevert, RevertInv, RevertsLeadBack, RestoresReplaced

\* For one session of which no command has been killed: a revert
\* (revert_target_scope) puts back the text that the present one of the scope
\* replaced, however many commits and reverts came before.
THEOREM TargetRevertRestoresPrevious == Spec => RevertRestoresPrevious
<1>1. Init => InTurn /\ RevertInv
  BY InitInTurn, InitRevertInv
<1>2. TargetInv /\ InTurn /\ RevertInv /\ [Next]_vars => InTurn' /\ RevertInv'
  BY InTurnStep, RevertInvStep DEF TargetInv
<1>3. TargetInv /\ RevertInv /\ [Next]_vars =>
        [rev.pc = "staged" /\ rev'.pc = "idle" /\ target = rev.staged /\ Orderly'
            => target'[rev.scope] = replaced[rev.scope]]_rev
  BY RevertPutsBackReplaced
<1>4. QED
  BY <1>1, <1>2, <1>3, TargetInvariant, PTL DEF Spec, RevertRestoresPrevious
=============================================================================
