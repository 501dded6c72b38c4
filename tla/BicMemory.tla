------------------------------ MODULE BicMemory ------------------------------
(***************************************************************************)
(* The governed memory of BIC (bic_memory.py): proposals and challenges of *)
(* INSPECT, imported lexicon records, the decisions on them, the view of   *)
(* approved memory that generation reads, the reviews, and the reset of    *)
(* the INSPECT stage (stage_reset.py).                                     *)
(*                                                                         *)
(* A command reads documents, computes new ones and writes them in one     *)
(* journaled transaction.  Every operation has a lock of its own, while    *)
(* the documents overlap: only the comparison at the commit stands between *)
(* two commands, and it compares with what was there when the file was     *)
(* staged.  FileTransaction has the steps of one transaction; here the     *)
(* commit of a file is one step, and so is an undo.                        *)
(*                                                                         *)
(* An INSPECT operation, named like its task, brings one proposal and one  *)
(* challenge, an import one record.  All belong to one Job.                *)
(***************************************************************************)
EXTENDS Naturals, Sequences

CONSTANTS
    Sessions,   \* processes that run a command
    Ops,        \* INSPECT tasks, and the proposal and the challenge of each
    Imports,    \* lexicon imports, and the record of each
    Scopes,     \* what INSPECT is asked to read
    References, \* the verses a challenge is about (its scripture_reference)
    Overlap,    \* reference_overlaps_scope: which scopes share a verse with which references
    Settings    \* what is checked: the scopes of the tasks and the references of their
                \* challenges; commands one at a time or in any order, how many, and how
                \* many of them are killed

ASSUME BicMemoryAssumption ==
    /\ Overlap \subseteq Scopes \X References
    /\ Settings \subseteq [scopeOf : [Ops -> Scopes], refOf : [Ops -> References],
                           turn : BOOLEAN, commands : Nat, deaths : Nat]
    /\ Ops \cap Imports = {}

\* INSPECT_REFERENCE_OUTSIDE_SCOPE
ASSUME ReferencesAreInScope ==
    \A t \in Settings, o \in Ops : <<t.scopeOf[o], t.refOf[o]>> \in Overlap

VARIABLES
    setting,   \* the setting, fixed
    docs,      \* the documents under the memory root
    tasks,     \* the control records of the INSPECT tasks
    ses,       \* what each session does
    locks,     \* the lock directories that exist
    left,      \* journals of transactions that did not end
    commands, deaths

vars == <<setting, docs, tasks, ses, locks, left, commands, deaths>>

Protected == {"REVIEWED", "APPROVED_FOR_USE", "REJECTED", "SUPERSEDED"}
States == Protected \cup {"none", "PROPOSED", "INACTIVE"}
Records == Ops \cup Imports
Decisions == {"APPROVED_FOR_REWRITE", "REJECTED"}

\* ALLOWED_TRANSITIONS
Allowed ==
    {"PROPOSED"} \X {"REVIEWED", "REJECTED", "INACTIVE"}
    \cup {"REVIEWED"} \X {"APPROVED_FOR_USE", "REJECTED", "INACTIVE"}
    \cup {"APPROVED_FOR_USE"} \X {"SUPERSEDED", "INACTIVE"}
    \cup {"REJECTED", "SUPERSEDED"} \X {"INACTIVE"}

Documents ==
    [proposals : [Ops -> States],
     challenges : [Ops -> {"none", "OPEN", "SUPERSEDED"}],
     operations : [Ops -> Nat],                   \* the committed ones: 1 the newest; 0 the others
     lexicon : [Imports -> States],
     imports : [Imports -> {"none", "COMMITTED", "ROLLED_BACK"}],
     rollbacks : SUBSET Imports,
     transitions : SUBSET (Records \X Allowed),   \* the audit trail
     approved : SUBSET Records,                   \* approved-memory.json
     reviews : [Ops -> Decisions \cup {"PENDING"}]]
Files == {"proposals", "challenges", "operations", "lexicon", "imports", "rollbacks",
          "transitions", "approved", "reviews"}

Of(kind, on, move) == [kind |-> kind, on |-> on, move |-> move]
Commands ==
    {Of("inspect", o, "none") : o \in Ops}
    \cup {Of("transition", r, m) : r \in Records, m \in Allowed}
    \cup {Of(kind, i, "none") : kind \in {"import", "rollback"}, i \in Imports}
    \cup {Of("review", s, d) : s \in Scopes, d \in Decisions}
    \cup {Of("reset", "all", "none")}

Idle == [pc |-> "idle", cmd |-> Of("none", "none", "none"), ids |-> {}, todo |-> <<>>,
         seen |-> <<>>, new |-> <<>>, before |-> <<>>, done |-> 0]

TypeOK ==
    /\ setting \in Settings
    /\ docs \in Documents
    /\ tasks \in [Ops -> {"none", "CREATED", "COMMITTED", "removed"}]
    /\ \A s \in Sessions :
          /\ ses[s].pc \in {"idle", "read", "lock", "stage", "commit", "undo", "close"}
          /\ ses[s].cmd \in Commands \cup {Idle.cmd} /\ ses[s].ids \subseteq Ops
          /\ \A part \in {ses[s].seen, ses[s].new, ses[s].before} : DOMAIN part \subseteq Files
    /\ locks \subseteq {"inspect", "transition", "lexicon", "review", "reset"}
    /\ \A j \in left : DOMAIN j.before \subseteq DOMAIN j.new
    /\ commands \in 0 .. setting.commands /\ deaths \in 0 .. setting.deaths

Init ==
    /\ setting \in Settings
    /\ docs = [proposals |-> [o \in Ops |-> "none"], challenges |-> [o \in Ops |-> "none"],
               operations |-> [o \in Ops |-> 0], lexicon |-> [i \in Imports |-> "none"],
               imports |-> [i \in Imports |-> "none"], rollbacks |-> {}, transitions |-> {},
               approved |-> {}, reviews |-> [o \in Ops |-> "PENDING"]]
    /\ tasks = [o \in Ops |-> "none"]
    /\ ses = [s \in Sessions |-> Idle]
    /\ locks = {} /\ left = {} /\ commands = 0 /\ deaths = 0

----------------------------------------------------------------------------
(***************************************************************************)
(* What a command reads, writes and computes; d is what it has read.       *)
(***************************************************************************)
Reads(c) ==
    CASE c.kind = "inspect"    -> <<"proposals", "challenges", "operations">>
      [] c.kind = "transition" -> <<"proposals", "lexicon", "transitions">>
      [] c.kind = "import"     -> <<"proposals", "lexicon", "imports">>
      [] c.kind = "rollback"   -> <<"lexicon", "imports", "rollbacks", "proposals">>
      [] c.kind = "review"     -> <<"operations", "reviews">>
      [] c.kind = "reset"      -> <<"proposals", "challenges", "operations", "reviews">>

Source(r) == IF r \in Ops THEN "proposals" ELSE "lexicon"

Writes(c) ==
    CASE c.kind = "inspect"    -> <<"proposals", "challenges", "operations">>
      [] c.kind = "transition" -> <<Source(c.on), "transitions", "approved">>
      [] c.kind = "import"     -> <<"lexicon", "imports", "approved">>
      [] c.kind = "rollback"   -> <<"lexicon", "imports", "rollbacks", "approved">>
      [] c.kind = "review"     -> <<"reviews">>
      [] c.kind = "reset"      -> <<"proposals", "challenges", "operations", "reviews", "approved">>

LockOf(c) == IF c.kind \in {"import", "rollback"} THEN "lexicon" ELSE c.kind

\* _materialized_approved_memory_from_documents: of INSPECT only.
View(proposals) == {o \in Ops : proposals[o] = "APPROVED_FOR_USE"}

\* The list of operations: a new one comes last, so that all others are older by one.
ScopeOf(o) == setting.scopeOf[o]
RefOf(o) == setting.refOf[o]
Committed(operations) == {o \in Ops : operations[o] > 0}
Appended(operations, new) ==
    [o \in Ops |-> IF o = new THEN 1 ELSE IF o \in Committed(operations) THEN operations[o] + 1 ELSE 0]
OfScope(operations, s) == {o \in Committed(operations) : ScopeOf(o) = s}
Latest(operations, s) ==
    CHOOSE o \in OfScope(operations, s) : \A p \in OfScope(operations, s) : operations[o] <= operations[p]

\* Mutant: the challenges of every operation of an overlapping scope are superseded.
InspectedByScope(c, d) ==
    [proposals |-> [d.proposals EXCEPT ![c.on] = "PROPOSED"],
     challenges |-> [o \in Ops |->
        IF o = c.on THEN "OPEN"
        ELSE IF d.challenges[o] = "OPEN"
                /\ \E r \in References : {<<ScopeOf(c.on), r>>, <<ScopeOf(o), r>>} \subseteq Overlap
             THEN "SUPERSEDED" ELSE d.challenges[o]],
     operations |-> Appended(d.operations, c.on)]

\* submit_inspect_transactionally
Inspected(c, d) ==
    [proposals |-> [d.proposals EXCEPT ![c.on] = "PROPOSED"],
     challenges |-> [o \in Ops |->
        IF o = c.on THEN "OPEN"
        ELSE IF d.challenges[o] = "OPEN" /\ <<ScopeOf(c.on), RefOf(o)>> \in Overlap
             THEN "SUPERSEDED" ELSE d.challenges[o]],
     operations |-> Appended(d.operations, c.on)]

\* Mutant: the view is made of the proposals as they were read.
MovedOldView(c, d) ==
    [f \in {Source(c.on), "transitions", "approved"} |->
        CASE f = Source(c.on) -> [d[f] EXCEPT ![c.on] = c.move[2]]
          [] f = "transitions" -> d.transitions \cup {<<c.on, c.move>>}
          [] f = "approved" -> View(d.proposals)]

\* transition_memory_record_transactionally
Moved(c, d) ==
    LET source == [d[Source(c.on)] EXCEPT ![c.on] = c.move[2]]
    IN  [f \in {Source(c.on), "transitions", "approved"} |->
            CASE f = Source(c.on) -> source
              [] f = "transitions" -> d.transitions \cup {<<c.on, c.move>>}
              [] f = "approved" -> View(IF c.on \in Ops THEN source ELSE d.proposals)]

\* import_lexicon_transactionally
Imported(c, d) ==
    [lexicon |-> [d.lexicon EXCEPT ![c.on] = "PROPOSED"],
     imports |-> [d.imports EXCEPT ![c.on] = "COMMITTED"],
     approved |-> View(d.proposals)]

\* rollback_lexicon_import_transactionally
RolledBack(c, d) ==
    [lexicon |-> [d.lexicon EXCEPT ![c.on] = "INACTIVE"],
     imports |-> [d.imports EXCEPT ![c.on] = "ROLLED_BACK"],
     rollbacks |-> d.rollbacks \cup {c.on},
     approved |-> View(d.proposals)]

\* Mutant: a review is about all operations of its scope, the coming ones included.
ReviewedScope(c, d) ==
    [reviews |-> [o \in Ops |-> IF ScopeOf(o) = c.on THEN c.move ELSE d.reviews[o]]]

\* record_human_memory_review
Reviewed(c, d) == [reviews |-> [d.reviews EXCEPT ![Latest(d.operations, c.on)] = c.move]]

\* _reset_inspect_memory of the tasks `ids`
Reset(ids, d) ==
    LET proposals == [o \in Ops |-> IF o \in ids THEN "none" ELSE d.proposals[o]]
    IN  [proposals |-> proposals,
         challenges |-> [o \in Ops |-> IF o \in ids THEN "none" ELSE d.challenges[o]],
         operations |-> [o \in Ops |-> IF o \in ids THEN 0 ELSE d.operations[o]],
         reviews |-> [o \in Ops |-> IF o \in ids THEN "PENDING" ELSE d.reviews[o]],
         approved |-> View(proposals)]

New(c, ids, d) ==
    CASE c.kind = "inspect"    -> Inspected(c, d)
      [] c.kind = "transition" -> Moved(c, d)
      [] c.kind = "import"     -> Imported(c, d)
      [] c.kind = "rollback"   -> RolledBack(c, d)
      [] c.kind = "review"     -> Reviewed(c, d)
      [] c.kind = "reset"      -> Reset(ids, d)

Known(c, d) == c.on \in Committed(d.operations) \/ d.proposals[c.on] # "none"

\* Mutant: a reset protects approved records only.
HoldsApproved(ids, d) == \E o \in ids : d.proposals[o] = "APPROVED_FOR_USE"

HoldsProtected(ids, d) == \E o \in ids : d.proposals[o] \in Protected

\* Every check that stands before a transaction.
Refused(c, ids, d) ==
    CASE c.kind = "inspect"    -> Known(c, d)
      [] c.kind = "transition" -> \/ d[Source(c.on)][c.on] # c.move[1]
                                  \/ c.move[2] = "APPROVED_FOR_USE" /\ c.on \notin Ops
      [] c.kind = "import"     -> d.imports[c.on] # "none" \/ d.lexicon[c.on] # "none"
      [] c.kind = "rollback"   -> d.imports[c.on] # "COMMITTED" \/ d.lexicon[c.on] = "none" \/ c.on \in d.rollbacks
      [] c.kind = "review"     -> OfScope(d.operations, c.on) = {}
      [] c.kind = "reset"      -> ids = {} \/ HoldsProtected(ids, d)

----------------------------------------------------------------------------
(***************************************************************************)
(* A command.                                                              *)
(***************************************************************************)
\* In turn: one command at a time, and what a killed one left is recovered before the
\* next.
InTurn == setting.turn => \A s \in Sessions : ses[s].pc = "idle"
Leave(s) == ses' = [ses EXCEPT ![s] = Idle] /\ locks' = locks \ {LockOf(ses[s].cmd)}
With(part, f, value) == [g \in DOMAIN part \cup {f} |-> IF g = f THEN value ELSE part[g]]
Go(s, pc) == ses' = [ses EXCEPT ![s].pc = pc, ![s].done = 0]

\* incomplete_transactions: one in progress is incomplete as well.
Pending == left # {} \/ \E s \in Sessions : ses[s].pc \in {"stage", "commit", "undo"}

\* A review takes its lock only when it has read.
Start(s) ==
    /\ ses[s].pc = "idle" /\ InTurn /\ (setting.turn => left = {}) /\ commands < setting.commands
    /\ \E c \in Commands :
          /\ c.kind = "inspect" => tasks[c.on] = "CREATED"
          /\ c.kind = "reset" => ~Pending
          /\ IF c.kind = "review" THEN UNCHANGED locks
             ELSE LockOf(c) \notin locks /\ locks' = locks \cup {LockOf(c)}
          /\ ses' = [ses EXCEPT ![s] = [Idle EXCEPT !.pc = "read", !.cmd = c, !.todo = Reads(c),
                        !.ids = {o \in Ops : c.kind = "reset" /\ tasks[o] \in {"CREATED", "COMMITTED"}}]]
    /\ commands' = commands + 1
    /\ UNCHANGED <<setting, docs, tasks, left, deaths>>

Read(s) ==
    /\ ses[s].pc = "read" /\ ses[s].todo # <<>>
    /\ LET f == Head(ses[s].todo)
       IN  ses' = [ses EXCEPT ![s].seen = With(@, f, docs[f]), ![s].todo = Tail(@)]
    /\ UNCHANGED <<setting, docs, tasks, locks, left, commands, deaths>>

Compute(s) ==
    LET c == ses[s].cmd
    IN  /\ ses[s].pc = "read" /\ ses[s].todo = <<>>
        /\ IF Refused(c, ses[s].ids, ses[s].seen)
             THEN IF c.kind = "review" THEN ses' = [ses EXCEPT ![s] = Idle] /\ UNCHANGED locks ELSE Leave(s)
             ELSE /\ ses' = [ses EXCEPT ![s].pc = IF c.kind = "review" THEN "lock" ELSE "stage",
                                        ![s].new = New(c, ses[s].ids, ses[s].seen), ![s].seen = <<>>]
                  /\ UNCHANGED locks
        /\ UNCHANGED <<setting, docs, tasks, left, commands, deaths>>

LockReview(s) ==
    /\ ses[s].pc = "lock"
    /\ IF "review" \in locks THEN ses' = [ses EXCEPT ![s] = Idle] /\ UNCHANGED locks
       ELSE Go(s, "stage") /\ locks' = locks \cup {"review"}
    /\ UNCHANGED <<setting, docs, tasks, left, commands, deaths>>

Target(s) == Writes(ses[s].cmd)[ses[s].done + 1]
LastTarget(s) == ses[s].done + 1 = Len(Writes(ses[s].cmd))

Stage(s) ==
    /\ ses[s].pc = "stage"
    /\ ses' = [ses EXCEPT ![s].before = With(@, Target(s), docs[Target(s)]),
                          ![s].done = IF LastTarget(s) THEN 0 ELSE @ + 1,
                          ![s].pc = IF LastTarget(s) THEN "commit" ELSE "stage"]
    /\ UNCHANGED <<setting, docs, tasks, locks, left, commands, deaths>>

Commit(s) ==
    /\ ses[s].pc = "commit"
    /\ IF docs[Target(s)] # ses[s].before[Target(s)]
         THEN ses' = [ses EXCEPT ![s].pc = "undo"] /\ UNCHANGED docs
         ELSE /\ docs' = [docs EXCEPT ![Target(s)] = ses[s].new[Target(s)]]
              /\ ses' = [ses EXCEPT ![s].done = @ + 1, ![s].pc = IF LastTarget(s) THEN "close" ELSE "commit"]
    /\ UNCHANGED <<setting, tasks, locks, left, commands, deaths>>

\* The transaction is over: the INSPECT task is closed, reset tasks are removed.
Close(s) ==
    /\ ses[s].pc = "close"
    /\ Leave(s)
    /\ tasks' = [o \in Ops |-> IF ses[s].cmd = Of("inspect", o, "none") THEN "COMMITTED"
                               ELSE IF o \in ses[s].ids THEN "removed" ELSE tasks[o]]
    /\ UNCHANGED <<setting, docs, left, commands, deaths>>

----------------------------------------------------------------------------
(***************************************************************************)
(* The undo of a transaction from its journal: from the last file to the   *)
(* first, as far as no committed file has been changed since.  A file that *)
(* was not replaced is restored as well if it is what the transaction      *)
(* would have written: only the view can be, all other rows carry the      *)
(* decision and the time of their command.                                 *)
(***************************************************************************)
JournalOf(s) ==
    [writes |-> Writes(ses[s].cmd), new |-> ses[s].new, before |-> ses[s].before,
     done |-> IF ses[s].pc = "stage" THEN 0 ELSE ses[s].done]

Changed(j, i) == i <= j.done /\ docs[j.writes[i]] # j.new[j.writes[i]]
Undoable(j) == \A i \in DOMAIN j.writes : ~Changed(j, i)

\* Mutant: the undo stops after the last file that was written.
UndoneLast(j) ==
    IF j.done = 0 \/ Changed(j, j.done) THEN docs
    ELSE [docs EXCEPT ![j.writes[j.done]] = j.before[j.writes[j.done]]]

Undone(j) ==
    LET restored == {j.writes[i] : i \in {k \in DOMAIN j.writes :
                        /\ j.writes[k] \in DOMAIN j.before
                        /\ k <= j.done \/ (j.writes[k] = "approved" /\ docs.approved = j.new.approved)
                        /\ \A h \in k .. Len(j.writes) : ~Changed(j, h)}}
    IN  [f \in Files |-> IF f \in restored THEN j.before[f] ELSE docs[f]]

Undo(s) ==
    /\ ses[s].pc = "undo" /\ Leave(s)
    /\ docs' = Undone(JournalOf(s))
    /\ left' = IF Undoable(JournalOf(s)) THEN left ELSE left \cup {JournalOf(s)}
    /\ UNCHANGED <<setting, tasks, commands, deaths>>

\* A killed command leaves its lock, and its journal if the transaction had begun.
Die(s) ==
    /\ ses[s].pc # "idle" /\ deaths < setting.deaths
    /\ deaths' = deaths + 1
    /\ ses' = [ses EXCEPT ![s] = Idle]
    /\ left' = IF ses[s].pc \in {"stage", "commit", "undo"} THEN left \cup {JournalOf(s)} ELSE left
    /\ UNCHANGED <<setting, docs, tasks, locks, commands>>

\* The operator removes the lock that a killed command left.
RemoveLock ==
    /\ InTurn
    /\ \E l \in locks :
          /\ \A s \in Sessions : ses[s].pc # "idle" => LockOf(ses[s].cmd) # l
          /\ locks' = locks \ {l}
    /\ UNCHANGED <<setting, docs, tasks, ses, left, commands, deaths>>

\* `sage transactions --recover`
Recover ==
    /\ InTurn
    /\ \E j \in left :
          /\ docs' = Undone(j)
          /\ left' = IF Undoable(j) THEN left \ {j} ELSE left
    /\ UNCHANGED <<setting, tasks, ses, locks, commands, deaths>>

\* No INSPECT task is created over an incomplete transaction.
CreateTask ==
    /\ InTurn /\ ~Pending
    /\ \E o \in Ops : tasks[o] = "none" /\ tasks' = [tasks EXCEPT ![o] = "CREATED"]
    /\ UNCHANGED <<setting, docs, ses, locks, left, commands, deaths>>

Command(s) ==
    \/ Start(s) \/ Read(s) \/ Compute(s) \/ LockReview(s) \/ Stage(s) \/ Commit(s) \/ Undo(s) \/ Close(s)

Next == CreateTask \/ RemoveLock \/ Recover \/ \E s \in Sessions : Command(s) \/ Die(s)

Spec == Init /\ [][Next]_vars

----------------------------------------------------------------------------
(***************************************************************************)
(* Properties.  Most are about commands that take turns; Quiet is a moment *)
(* between them, with every killed transaction recovered.                  *)
(***************************************************************************)
Quiet == setting.turn /\ left = {} /\ \A s \in Sessions : ses[s].pc = "idle"

\* Generation is given exactly the INSPECT records the operator has approved, and
\* none whose approval was withdrawn; imported records never.
ViewIsCurrent == Quiet => docs.approved = View(docs.proposals)

\* Where the recorded decisions on a record lead.
Decided(r) ==
    LET moves == {t[2] : t \in {u \in docs.transitions : u[1] = r}}
    IN  IF moves = {} THEN {"PROPOSED"} ELSE {m[2] : m \in moves} \ {m[1] : m \in moves}

\* The audit trail accounts for the state of every record: it is where the recorded
\* decisions lead, or the record went with its import.  A record that two killed
\* commands bring in a second time finds the decisions on the first one.
TrailExplains ==
    Quiet /\ deaths < 2 =>
      /\ \A o \in Ops : docs.proposals[o] # "none" => Decided(o) = {docs.proposals[o]}
      /\ \A i \in Imports :
            CASE docs.imports[i] = "none" -> docs.lexicon[i] = "none"
              [] docs.imports[i] = "COMMITTED" -> Decided(i) = {docs.lexicon[i]}
              [] docs.imports[i] = "ROLLED_BACK" -> docs.lexicon[i] = "INACTIVE" /\ i \in docs.rollbacks

\* A challenge is open until a newer operation has read its verse, and is kept as
\* history then; a newer operation on other verses of its scope leaves it open.
NewestChallengesOpen ==
    Quiet => \A o \in Committed(docs.operations) :
        LET newer == {p \in Committed(docs.operations) :
                        docs.operations[p] < docs.operations[o] /\ <<ScopeOf(p), RefOf(o)>> \in Overlap}
        IN  docs.challenges[o] = IF newer = {} THEN "OPEN" ELSE "SUPERSEDED"

\* "INSPECT stage reset cannot delete reviewed or approved memory records."
ProtectedMemoryKept ==
    [][setting.turn => \A o \in Ops : docs.proposals[o] \in Protected => docs'.proposals[o] # "none"]_vars

\* inspect_completion_and_review_status
Status(s) ==
    IF OfScope(docs.operations, s) = {} THEN "none" ELSE docs.reviews[Latest(docs.operations, s)]

\* A review is about one operation: in any order of commands, or whatever was killed
\* among commands in turn, an operation is pending when it arrives, whatever was decided
\* on earlier ones of its scope.
NewOperationIsPending ==
    [][setting.turn \/ deaths = 0 => \A s \in Sessions :
          LET o == ses[s].cmd.on
          IN  /\ ses[s].cmd.kind = "inspect" /\ ses[s].pc = "commit"
              /\ o \notin Committed(docs.operations) /\ o \in Committed(docs'.operations)
              => Status(ScopeOf(o))' = "PENDING"]_vars
=============================================================================
