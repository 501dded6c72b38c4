-------------------------- MODULE BicMemoryProofs --------------------------
(***************************************************************************)
(* The governed memory, for any sessions, tasks, imports, scopes and kills *)
(* of commands in turn, and for commands in any order: the view is what    *)
(* the operator approved, the trail explains it, the newest challenges are *)
(* open, protected records stay, and a new operation is pending.           *)
(***************************************************************************)
EXTENDS BicMemory, WellFoundedInduction, TLAPS

(***************************************************************************)
(* The operators of the memory.                                            *)
(***************************************************************************)
Put(d, part) == [f \in Files |-> IF f \in DOMAIN part THEN part[f] ELSE d[f]]

\* What a command leaves when it ends.
Result(c, ids, d) == Put(d, New(c, ids, d))

Written(c) == {Writes(c)[i] : i \in DOMAIN Writes(c)}
Needed(c) == {Reads(c)[i] : i \in DOMAIN Reads(c)}

USE BicMemoryAssumption

LEMMA DocumentsAreFunctions ==
  ASSUME NEW d \in Documents
  PROVE  /\ d = [f \in Files |-> d[f]]
         /\ d.proposals \in [Ops -> States] /\ d.challenges \in [Ops -> {"none", "OPEN", "SUPERSEDED"}]
         /\ d.operations \in [Ops -> Nat] /\ d.lexicon \in [Imports -> States]
         /\ d.imports \in [Imports -> {"none", "COMMITTED", "ROLLED_BACK"}]
         /\ d.rollbacks \in SUBSET Imports /\ d.transitions \in SUBSET (Records \X Allowed)
         /\ d.approved \in SUBSET Records /\ d.reviews \in [Ops -> Decisions \cup {"PENDING"}]
  BY DEF Documents, Files

LEMMA FunctionsAreDocuments ==
  ASSUME NEW d, d = [f \in Files |-> d[f]],
         d.proposals \in [Ops -> States], d.challenges \in [Ops -> {"none", "OPEN", "SUPERSEDED"}],
         d.operations \in [Ops -> Nat], d.lexicon \in [Imports -> States],
         d.imports \in [Imports -> {"none", "COMMITTED", "ROLLED_BACK"}],
         d.rollbacks \in SUBSET Imports, d.transitions \in SUBSET (Records \X Allowed),
         d.approved \in SUBSET Records, d.reviews \in [Ops -> Decisions \cup {"PENDING"}]
  PROVE  d \in Documents
  BY DEF Documents, Files

\* Of two documents any files may be exchanged.
LEMMA PutIsDocuments ==
  ASSUME NEW d \in Documents, NEW e \in Documents, NEW p,
         \A f \in Files : f \in DOMAIN p => p[f] = e[f]
  PROVE  Put(d, p) \in Documents
<1> DEFINE m == Put(d, p)
<1>1. m = [f \in Files |-> m[f]] /\ \A f \in Files : m[f] = e[f] \/ m[f] = d[f]
  BY DEF Put
<1> HIDE DEF m
<1>2. \A f \in {"proposals", "challenges", "operations", "lexicon", "imports", "rollbacks",
                "transitions", "approved", "reviews"} : m[f] = e[f] \/ m[f] = d[f]
  BY <1>1 DEF Files
<1>3. m \in Documents
  <2>1. m.proposals \in [Ops -> States] /\ m.challenges \in [Ops -> {"none", "OPEN", "SUPERSEDED"}]
    BY <1>2, DocumentsAreFunctions
  <2>2. m.operations \in [Ops -> Nat] /\ m.lexicon \in [Imports -> States]
    BY <1>2, DocumentsAreFunctions
  <2>3. /\ m.imports \in [Imports -> {"none", "COMMITTED", "ROLLED_BACK"}]
        /\ m.rollbacks \in SUBSET Imports
    BY <1>2, DocumentsAreFunctions
  <2>4. m.transitions \in SUBSET (Records \X Allowed) /\ m.approved \in SUBSET Records
    BY <1>2, DocumentsAreFunctions
  <2>5. m.reviews \in [Ops -> Decisions \cup {"PENDING"}]
    BY <1>2, DocumentsAreFunctions
  <2>6. QED
    BY <1>1, <2>1, <2>2, <2>3, <2>4, <2>5, FunctionsAreDocuments
<1>4. QED
  BY <1>3 DEF m

LEMMA CommandKinds ==
  ASSUME NEW c \in Commands
  PROVE  \/ c.kind = "inspect" /\ c.on \in Ops
         \/ c.kind = "transition" /\ c.on \in Records /\ c.move \in Allowed
         \/ c.kind \in {"import", "rollback"} /\ c.on \in Imports
         \/ c.kind = "review" /\ c.on \in Scopes /\ c.move \in Decisions
         \/ c.kind = "reset"
  BY DEF Commands, Of

LEMMA NoCommand == Idle.cmd \notin Commands /\ Idle.cmd.kind = "none"
  BY CommandKinds DEF Idle, Of

\* How far a record has come.
Rank == [s \in {"PROPOSED", "REVIEWED", "APPROVED_FOR_USE", "REJECTED", "SUPERSEDED", "INACTIVE"} |->
            CASE s = "PROPOSED" -> 0 [] s = "REVIEWED" -> 1 [] s = "APPROVED_FOR_USE" -> 2
              [] s = "REJECTED" -> 3 [] s = "SUPERSEDED" -> 3 [] s = "INACTIVE" -> 4]

LEMMA AllowedMovesOn ==
  ASSUME NEW m \in Allowed
  PROVE  /\ m = <<m[1], m[2]>> /\ m[1] \in States \ {"none", "INACTIVE"} /\ m[2] \in States \ {"none", "PROPOSED"}
         /\ m[1] \in DOMAIN Rank /\ m[2] \in DOMAIN Rank /\ Rank[m[1]] < Rank[m[2]]
         /\ Rank[m[1]] \in Nat /\ Rank[m[2]] \in Nat
  BY DEF Allowed, States, Protected, Rank

LEMMA WritesOf ==
  ASSUME NEW c \in Commands
  PROVE  /\ c.kind = "inspect" => Writes(c) = <<"proposals", "challenges", "operations">>
         /\ c.kind = "transition" => Writes(c) = <<Source(c.on), "transitions", "approved">>
         /\ c.kind = "import" => Writes(c) = <<"lexicon", "imports", "approved">>
         /\ c.kind = "rollback" => Writes(c) = <<"lexicon", "imports", "rollbacks", "approved">>
         /\ c.kind = "review" => Writes(c) = <<"reviews">>
         /\ c.kind = "reset" => Writes(c) = <<"proposals", "challenges", "operations", "reviews", "approved">>
  BY DEF Writes

InOrder(w, S) ==
    /\ w \in Seq(Files) /\ Len(w) \in 1 .. 5 /\ DOMAIN w = 1 .. Len(w)
    /\ \A i, j \in DOMAIN w : w[i] = w[j] => i = j
    /\ {w[i] : i \in DOMAIN w} = S

LEMMA FilesInOrder ==
  /\ \A f \in {"proposals", "lexicon"} :
        InOrder(<<f, "transitions", "approved">>, {f, "transitions", "approved"})
  /\ InOrder(<<"proposals", "challenges", "operations">>, {"proposals", "challenges", "operations"})
  /\ InOrder(<<"lexicon", "imports", "approved">>, {"lexicon", "imports", "approved"})
  /\ InOrder(<<"lexicon", "imports", "rollbacks", "approved">>, {"lexicon", "imports", "rollbacks", "approved"})
  /\ InOrder(<<"reviews">>, {"reviews"})
  /\ InOrder(<<"proposals", "challenges", "operations", "reviews", "approved">>,
             {"proposals", "challenges", "operations", "reviews", "approved"})
<1>1. \A f \in {"proposals", "lexicon"} :
        InOrder(<<f, "transitions", "approved">>, {f, "transitions", "approved"})
  BY DEF InOrder, Files
<1>2. InOrder(<<"proposals", "challenges", "operations">>, {"proposals", "challenges", "operations"})
  BY DEF InOrder, Files
<1>3. InOrder(<<"lexicon", "imports", "approved">>, {"lexicon", "imports", "approved"})
  BY DEF InOrder, Files
<1>4. InOrder(<<"lexicon", "imports", "rollbacks", "approved">>, {"lexicon", "imports", "rollbacks", "approved"})
  BY DEF InOrder, Files
<1>5. InOrder(<<"reviews">>, {"reviews"})
  BY DEF InOrder, Files
<1>6. InOrder(<<"proposals", "challenges", "operations", "reviews", "approved">>,
              {"proposals", "challenges", "operations", "reviews", "approved"})
  BY DEF InOrder, Files
<1>7. QED
  BY <1>1, <1>2, <1>3, <1>4, <1>5, <1>6

LEMMA WritesInOrder ==
  ASSUME NEW c \in Commands
  PROVE  /\ InOrder(Writes(c), Written(c))
         /\ c.kind = "inspect" => Written(c) = {"proposals", "challenges", "operations"}
         /\ c.kind = "transition" => Written(c) = {Source(c.on), "transitions", "approved"}
         /\ c.kind = "import" => Written(c) = {"lexicon", "imports", "approved"}
         /\ c.kind = "rollback" => Written(c) = {"lexicon", "imports", "rollbacks", "approved"}
         /\ c.kind = "review" => Written(c) = {"reviews"}
         /\ c.kind = "reset" => Written(c) = {"proposals", "challenges", "operations", "reviews", "approved"}
<1>0. Source(c.on) \in {"proposals", "lexicon"}
  BY DEF Source
<1>1. PICK S : /\ InOrder(Writes(c), S)
               /\ c.kind = "inspect" => S = {"proposals", "challenges", "operations"}
               /\ c.kind = "transition" => S = {Source(c.on), "transitions", "approved"}
               /\ c.kind = "import" => S = {"lexicon", "imports", "approved"}
               /\ c.kind = "rollback" => S = {"lexicon", "imports", "rollbacks", "approved"}
               /\ c.kind = "review" => S = {"reviews"}
               /\ c.kind = "reset" => S = {"proposals", "challenges", "operations", "reviews", "approved"}
  <2>1. CASE c.kind = "inspect"
    BY <2>1, WritesOf, FilesInOrder
  <2>2. CASE c.kind = "transition"
    BY <1>0, <2>2, WritesOf, FilesInOrder
  <2>3. CASE c.kind = "import"
    BY <2>3, WritesOf, FilesInOrder
  <2>4. CASE c.kind = "rollback"
    BY <2>4, WritesOf, FilesInOrder
  <2>5. CASE c.kind = "review"
    BY <2>5, WritesOf, FilesInOrder
  <2>6. CASE c.kind = "reset"
    BY <2>6, WritesOf, FilesInOrder
  <2>7. QED
    BY <2>1, <2>2, <2>3, <2>4, <2>5, <2>6, CommandKinds
<1>2. S = Written(c)
  BY <1>1 DEF InOrder, Written
<1>3. QED
  BY <1>1, <1>2

LEMMA NewOf ==
  ASSUME NEW c \in Commands, NEW ids, NEW d
  PROVE  /\ c.kind = "inspect" => New(c, ids, d) = Inspected(c, d)
         /\ c.kind = "transition" => New(c, ids, d) = Moved(c, d)
         /\ c.kind = "import" => New(c, ids, d) = Imported(c, d)
         /\ c.kind = "rollback" => New(c, ids, d) = RolledBack(c, d)
         /\ c.kind = "review" => New(c, ids, d) = Reviewed(c, d)
         /\ c.kind = "reset" => New(c, ids, d) = Reset(ids, d)
  BY DEF New

IsOf(p, S) == DOMAIN p = S /\ p = [f \in S |-> p[f]]

LEMMA WrittenIsNew ==
  ASSUME NEW c \in Commands, NEW ids, NEW d
  PROVE  IsOf(New(c, ids, d), Written(c))
<1>1. CASE c.kind = "inspect"
  <2>1. IsOf(Inspected(c, d), {"proposals", "challenges", "operations"})
    BY DEF Inspected, IsOf
  <2>2. QED
    BY <1>1, <2>1, WritesInOrder, NewOf
<1>2. CASE c.kind = "transition"
  <2>1. IsOf(Moved(c, d), {Source(c.on), "transitions", "approved"})
    BY DEF Moved, IsOf
  <2>2. QED
    BY <1>2, <2>1, WritesInOrder, NewOf
<1>3. CASE c.kind = "import"
  <2>1. IsOf(Imported(c, d), {"lexicon", "imports", "approved"})
    BY DEF Imported, IsOf
  <2>2. QED
    BY <1>3, <2>1, WritesInOrder, NewOf
<1>4. CASE c.kind = "rollback"
  <2>1. IsOf(RolledBack(c, d), {"lexicon", "imports", "rollbacks", "approved"})
    BY DEF RolledBack, IsOf
  <2>2. QED
    BY <1>4, <2>1, WritesInOrder, NewOf
<1>5. CASE c.kind = "review"
  <2>1. IsOf(Reviewed(c, d), {"reviews"})
    BY DEF Reviewed, IsOf
  <2>2. QED
    BY <1>5, <2>1, WritesInOrder, NewOf
<1>6. CASE c.kind = "reset"
  <2>1. IsOf(Reset(ids, d), {"proposals", "challenges", "operations", "reviews", "approved"})
    BY DEF Reset, IsOf
  <2>2. QED
    BY <1>6, <2>1, WritesInOrder, NewOf
<1>7. QED
  BY <1>1, <1>2, <1>3, <1>4, <1>5, <1>6, CommandKinds

\* A command computes from what it reads.
LEMMA ReadsSuffice ==
  ASSUME NEW c \in Commands, NEW ids, NEW d, NEW e, \A f \in Needed(c) : d[f] = e[f]
  PROVE  New(c, ids, d) = New(c, ids, e) /\ Refused(c, ids, d) = Refused(c, ids, e)
<1>1. CASE c.kind = "inspect"
  <2>1. d.proposals = e.proposals /\ d.challenges = e.challenges /\ d.operations = e.operations
    BY <1>1 DEF Needed, Reads
  <2>2. QED
    BY <1>1, <2>1 DEF New, Refused, Inspected, Known
<1>2. CASE c.kind = "transition"
  <2>1. d.proposals = e.proposals /\ d.lexicon = e.lexicon /\ d.transitions = e.transitions
    BY <1>2 DEF Needed, Reads
  <2>2. d[Source(c.on)] = e[Source(c.on)]
    BY <2>1 DEF Source
  <2>3. QED
    BY <1>2, <2>1, <2>2 DEF New, Refused, Moved
<1>3. CASE c.kind = "import"
  <2>1. d.proposals = e.proposals /\ d.lexicon = e.lexicon /\ d.imports = e.imports
    BY <1>3 DEF Needed, Reads
  <2>2. QED
    BY <1>3, <2>1 DEF New, Refused, Imported
<1>4. CASE c.kind = "rollback"
  <2>1. d.proposals = e.proposals /\ d.lexicon = e.lexicon /\ d.imports = e.imports /\ d.rollbacks = e.rollbacks
    BY <1>4 DEF Needed, Reads
  <2>2. QED
    BY <1>4, <2>1 DEF New, Refused, RolledBack
<1>5. CASE c.kind = "review"
  <2>1. d.operations = e.operations /\ d.reviews = e.reviews
    BY <1>5 DEF Needed, Reads
  <2>2. QED
    BY <1>5, <2>1 DEF New, Refused, Reviewed
<1>6. CASE c.kind = "reset"
  <2>1. d.proposals = e.proposals /\ d.challenges = e.challenges /\ d.operations = e.operations /\ d.reviews = e.reviews
    BY <1>6 DEF Needed, Reads
  <2>2. QED
    BY <1>6, <2>1 DEF New, Refused, Reset, HoldsProtected
<1>7. QED
  BY <1>1, <1>2, <1>3, <1>4, <1>5, <1>6, CommandKinds

(***************************************************************************)
(* The inductive invariant.                                                *)
(***************************************************************************)
Moves(d, r) == {t[2] : t \in {u \in d.transitions : u[1] = r}}

\* The decisions on a record, each taken where the one before has led, end at `state`.
Leads(moves, state) ==
    /\ state = "PROPOSED" <=> moves = {}
    /\ moves # {} => {m[2] : m \in moves} \ {m[1] : m \in moves} = {state}
    /\ \A m \in moves : Rank[m[1]] < Rank[state]

\* A task is open over what its operation brought only when a command was killed.
Accounted(d) ==
    /\ \A o \in Ops :
          /\ d.proposals[o] # "none" /\ deaths < 2 => Leads(Moves(d, o), d.proposals[o])
          /\ d.proposals[o] # "none" /\ tasks[o] = "CREATED" => deaths > 0
          /\ d.proposals[o] = "none" /\ tasks[o] = "CREATED" /\ Moves(d, o) # {} => deaths > 1
          /\ tasks[o] = "none" => d.proposals[o] = "none" /\ Moves(d, o) = {}
    /\ \A i \in Imports :
          /\ d.imports[i] = "none" => d.lexicon[i] = "none" /\ Moves(d, i) = {}
          /\ d.imports[i] = "COMMITTED" => d.lexicon[i] # "none" /\ Leads(Moves(d, i), d.lexicon[i])
          /\ d.imports[i] = "ROLLED_BACK" => d.lexicon[i] = "INACTIVE" /\ i \in d.rollbacks

Newer(d, o) == {p \in Committed(d.operations) :
                   d.operations[p] < d.operations[o] /\ <<ScopeOf(p), RefOf(o)>> \in Overlap}

Listed(d) ==
    \A o \in Ops :
        /\ o \in Committed(d.operations) =>
              /\ tasks[o] \in {"CREATED", "COMMITTED"}
              /\ d.challenges[o] = IF Newer(d, o) = {} THEN "OPEN" ELSE "SUPERSEDED"
        /\ o \notin Committed(d.operations) => d.reviews[o] = "PENDING"

\* The documents at a moment between two commands.
Good(d) == d \in Documents /\ d.approved = View(d.proposals) /\ Listed(d) /\ Accounted(d)

\* A part of the documents, as it was at some time.
PartOf(p) ==
    /\ DOMAIN p \subseteq Files
    /\ \E d \in Documents : \A f \in DOMAIN p : p[f] = d[f]

\* The operation that an INSPECT brings is the newest of its list.
Foremost(operations, o) ==
    operations[o] = 1 /\ \A p \in Ops : p # o => operations[p] \in Nat /\ operations[p] # 1

\* The files a session has still to read, and the first n that a command writes.
Rest(todo) == {todo[i] : i \in DOMAIN todo}
First(c, n) == {Writes(c)[i] : i \in 1 .. n}

\* How far a session is, in any order of commands.
SessionFields == {"pc", "cmd", "ids", "todo", "seen", "new", "before", "done"}

Placed(x) ==
    LET w == Writes(x.cmd)
    IN  /\ x = [f \in SessionFields |-> x[f]]
        /\ x.pc \in {"idle", "read", "lock", "stage", "commit", "undo", "close"}
        /\ x.pc = "idle" => x = Idle
        /\ x.pc # "idle" => x.cmd \in Commands
        /\ x.ids \subseteq Ops
        /\ PartOf(x.seen) /\ PartOf(x.new) /\ PartOf(x.before)
        /\ x.pc = "lock" => x.cmd.kind = "review"
        /\ x.pc = "read" => /\ x.todo \in Seq(Files)
                            /\ Needed(x.cmd) \subseteq DOMAIN x.seen \cup Rest(x.todo)
        /\ x.pc \in {"read", "lock"} => x.before = <<>> /\ x.done = 0
        /\ x.pc \in {"stage", "commit", "undo"} => x.done \in 0 .. Len(w) - 1
        /\ x.pc \notin {"idle", "read"} =>
              /\ IsOf(x.new, Written(x.cmd))
              /\ x.cmd.kind = "inspect" => Foremost(x.new.operations, x.cmd.on)
        /\ x.pc = "stage" => DOMAIN x.before = First(x.cmd, x.done)
        /\ x.pc \in {"commit", "undo", "close"} => DOMAIN x.before = Written(x.cmd)

Kept(j) ==
    \E c \in Commands :
        /\ j.writes = Writes(c) /\ DOMAIN j.new = Written(c) /\ j.done \in 0 .. Len(Writes(c)) - 1
        /\ DOMAIN j.before \subseteq Written(c) /\ PartOf(j.before)

Bounded ==
    /\ setting \in Settings
    /\ tasks \in [Ops -> {"none", "CREATED", "COMMITTED", "removed"}]
    /\ locks \subseteq {"inspect", "transition", "lexicon", "review", "reset"}
    /\ commands \in 0 .. setting.commands /\ deaths \in 0 .. setting.deaths

PlacedInv ==
    /\ Bounded /\ docs \in Documents
    /\ ses = [s \in Sessions |-> ses[s]]
    /\ \A s \in Sessions : Placed(ses[s])
    /\ \A j \in left : Kept(j)

\* The documents when the first n files of a command are written.
FirstOf(writes, n) == {writes[i] : i \in 1 .. n}
Halfway(base, new, writes, n) == Put(base, [f \in FirstOf(writes, n) |-> new[f]])

\* A command in turn computes from documents that nothing changes but the command.
Chosen(c, ids) ==
    /\ ids = {o \in Ops : c.kind = "reset" /\ tasks[o] \in {"CREATED", "COMMITTED"}}
    /\ c.kind = "inspect" => tasks[c.on] = "CREATED"

Commits(x) ==
    IF x.pc = "commit" THEN x.done ELSE IF x.pc = "close" THEN Len(Writes(x.cmd)) ELSE 0

Reading(d, x) == Good(d) /\ \A f \in DOMAIN x.seen : x.seen[f] = d[f]

Writing(d, x, base) ==
    /\ base = Put(d, x.before)
    /\ Good(base) /\ ~ Refused(x.cmd, x.ids, base) /\ x.new = New(x.cmd, x.ids, base)
    /\ d = Halfway(base, x.new, Writes(x.cmd), Commits(x))

Underway(d, x) ==
    /\ x.pc # "undo" /\ Chosen(x.cmd, x.ids)
    /\ IF x.pc = "read" THEN Reading(d, x) ELSE Writing(d, x, Put(d, x.before))

\* A transaction of a killed command: the documents were good before it.
Abandoned(d, j, base) ==
    /\ base = Put(d, j.before)
    /\ Good(base)
    /\ \E c \in Commands, ids \in SUBSET Ops :
          /\ ~ Refused(c, ids, base) /\ j.new = New(c, ids, base) /\ j.writes = Writes(c)
          /\ DOMAIN j.before \subseteq Written(c)
    /\ d = Halfway(base, j.new, j.writes, j.done)

AllIdle == \A s \in Sessions : ses[s].pc = "idle"

TurnInv ==
    setting.turn =>
        /\ \A s, t \in Sessions : ses[s].pc # "idle" /\ ses[t].pc # "idle" => s = t
        /\ \A s \in Sessions : ses[s].pc # "idle" => left = {} /\ Underway(docs, ses[s])
        /\ AllIdle /\ left = {} => Good(docs)
        /\ \A j, k \in left : j = k
        /\ \A j \in left : Abandoned(docs, j, Put(docs, j.before))

\* A command other than a review holds a lock that no other command holds, a review
\* only from when it has read; so one INSPECT is submitted at a time.
Locking(x) == x.pc # "idle" /\ x.cmd.kind # "review"

LockInv ==
    /\ \A s \in Sessions : Locking(ses[s]) => LockOf(ses[s].cmd) \in locks
    /\ \A s, t \in Sessions :
          Locking(ses[s]) /\ Locking(ses[t]) /\ LockOf(ses[s].cmd) = LockOf(ses[t].cmd) => s = t

\* No document that is there, was read or may be restored knows an operation that is
\* not yet committed.
Unknown(p, o) ==
    /\ "operations" \in DOMAIN p => p.operations[o] = 0
    /\ "reviews" \in DOMAIN p => p.reviews[o] = "PENDING"

Submits(x, o) == x.pc # "idle" /\ x.cmd.kind = "inspect" /\ x.cmd.on = o

Unborn(o) ==
    /\ Unknown(docs, o)
    /\ \A s \in Sessions :
          /\ Unknown(ses[s].seen, o) /\ Unknown(ses[s].before, o)
          /\ ~ Submits(ses[s], o) => Unknown(ses[s].new, o)
    /\ \A j \in left : Unknown(j.before, o)

UnbornInv ==
    deaths = 0 => \A o \in Ops :
        \/ Unborn(o)
        \/ \E s \in Sessions : Submits(ses[s], o) /\ ses[s].pc = "close"
        \/ tasks[o] \notin {"none", "CREATED"} /\ \A s \in Sessions : ~ Submits(ses[s], o)

---------------------------------------------------------------------------
(* What the decisions say.                                                  *)

LEMMA LeadsOn ==
  ASSUME NEW moves, NEW state, NEW m \in Allowed, moves \subseteq Allowed, Leads(moves, state), m[1] = state
  PROVE  Leads(moves \cup {m}, m[2])
<1>1. /\ m[2] # "PROPOSED" /\ m[2] # state /\ Rank[m[1]] < Rank[m[2]]
      /\ Rank[m[1]] \in Nat /\ Rank[m[2]] \in Nat
  BY AllowedMovesOn
<1>2. \A x \in moves : Rank[x[1]] \in Nat /\ Rank[x[1]] < Rank[m[1]]
  BY AllowedMovesOn DEF Leads
<1>3. \A x \in moves : Rank[x[1]] < Rank[m[2]] /\ x[1] # m[2]
  BY <1>1, <1>2
<1>4. {x[2] : x \in moves \cup {m}} \ {x[1] : x \in moves \cup {m}} = {m[2]}
  <2>1. CASE moves = {}
    BY <1>1, <2>1
  <2>2. CASE moves # {}
    <3>1. {x[2] : x \in moves} \ {x[1] : x \in moves} = {state}
      BY <2>2 DEF Leads
    <3>2. \A y : y \in {x[2] : x \in moves \cup {m}} \ {x[1] : x \in moves \cup {m}} <=> y = m[2]
      <4>1. ASSUME NEW y \in {x[2] : x \in moves \cup {m}} \ {x[1] : x \in moves \cup {m}}
            PROVE  y = m[2]
        <5>1. PICK x \in moves \cup {m} : y = x[2]
          BY <4>1
        <5>2. ASSUME x \in moves PROVE FALSE
          <6>1. y \in {z[2] : z \in moves} /\ y \notin {z[1] : z \in moves} /\ y # m[1]
            BY <4>1, <5>1, <5>2
          <6>2. QED
            BY <3>1, <6>1
        <5>3. QED
          BY <5>1, <5>2
      <4>2. m[2] \in {x[2] : x \in moves \cup {m}} /\ m[2] \notin {x[1] : x \in moves \cup {m}}
        BY <1>1, <1>3
      <4>3. QED
        BY <4>1, <4>2
    <3>3. QED
      BY <3>2
  <2>3. QED
    BY <2>1, <2>2
<1>5. QED
  BY <1>1, <1>2, <1>3, <1>4 DEF Leads

LEMMA NoMoves == Leads({}, "PROPOSED")
  BY DEF Leads

LEMMA MovesAreAllowed ==
  ASSUME NEW d \in Documents, NEW r PROVE Moves(d, r) \subseteq Allowed
<1>1. d.transitions \subseteq Records \X Allowed
  BY DocumentsAreFunctions
<1>2. QED
  BY <1>1 DEF Moves

LEMMA MovesSame ==
  ASSUME NEW d, NEW e, d.transitions = e.transitions, NEW r PROVE Moves(d, r) = Moves(e, r)
  BY DEF Moves

LessThan == {pair \in Nat \X Nat : pair[1] < pair[2]}

LEMMA NatWellFounded == IsWellFoundedOn(LessThan, Nat)
  BY NatLessThanWellFounded DEF OpToRel, LessThan

LEMMA LatestIsListed ==
  ASSUME NEW operations \in [Ops -> Nat], NEW s, OfScope(operations, s) # {}
  PROVE  /\ Latest(operations, s) \in OfScope(operations, s)
         /\ \A p \in OfScope(operations, s) : operations[Latest(operations, s)] <= operations[p]
<1> DEFINE S == OfScope(operations, s)
           T == {operations[o] : o \in S}
<1>1. S \subseteq Ops
  BY DEF OfScope, Committed
<1>2. T \subseteq Nat /\ T # {}
  BY <1>1
<1>3. PICK x \in T : \A y \in T : <<y, x>> \notin LessThan
  BY <1>2, NatWellFounded, WFMin
<1>4. PICK o \in S : x = operations[o]
  BY <1>3
<1>5. \A p \in S : operations[o] <= operations[p]
  <2> SUFFICES ASSUME NEW p \in S, ~ (operations[o] <= operations[p]) PROVE FALSE
    OBVIOUS
  <2>1. operations[p] \in T /\ operations[p] \in Nat /\ operations[o] \in Nat
    BY <1>1
  <2>2. <<operations[p], x>> \in LessThan
    BY <1>4, <2>1 DEF LessThan
  <2>3. QED
    BY <1>3, <2>1, <2>2
<1>6. QED
  BY <1>4, <1>5 DEF Latest

---------------------------------------------------------------------------
(* What each command leaves.                                                *)

InspectLeaves(c, d, r) ==
    /\ r.proposals = [d.proposals EXCEPT ![c.on] = "PROPOSED"]
    /\ r.challenges = [o \in Ops |->
          IF o = c.on THEN "OPEN"
          ELSE IF d.challenges[o] = "OPEN" /\ <<ScopeOf(c.on), RefOf(o)>> \in Overlap
               THEN "SUPERSEDED" ELSE d.challenges[o]]
    /\ r.operations = Appended(d.operations, c.on)
    /\ r.lexicon = d.lexicon /\ r.imports = d.imports /\ r.rollbacks = d.rollbacks
    /\ r.transitions = d.transitions /\ r.approved = d.approved /\ r.reviews = d.reviews

TransitionLeaves(c, d, r) ==
    /\ r.proposals = IF c.on \in Ops THEN [d.proposals EXCEPT ![c.on] = c.move[2]] ELSE d.proposals
    /\ r.lexicon = IF c.on \in Ops THEN d.lexicon ELSE [d.lexicon EXCEPT ![c.on] = c.move[2]]
    /\ r.transitions = d.transitions \cup {<<c.on, c.move>>}
    /\ r.approved = View(r.proposals)
    /\ r.challenges = d.challenges /\ r.operations = d.operations /\ r.imports = d.imports
    /\ r.rollbacks = d.rollbacks /\ r.reviews = d.reviews

ImportLeaves(c, d, r) ==
    /\ r.lexicon = [d.lexicon EXCEPT ![c.on] = "PROPOSED"]
    /\ r.imports = [d.imports EXCEPT ![c.on] = "COMMITTED"]
    /\ r.approved = View(d.proposals)
    /\ r.proposals = d.proposals /\ r.challenges = d.challenges /\ r.operations = d.operations
    /\ r.rollbacks = d.rollbacks /\ r.transitions = d.transitions /\ r.reviews = d.reviews

RollbackLeaves(c, d, r) ==
    /\ r.lexicon = [d.lexicon EXCEPT ![c.on] = "INACTIVE"]
    /\ r.imports = [d.imports EXCEPT ![c.on] = "ROLLED_BACK"]
    /\ r.rollbacks = d.rollbacks \cup {c.on}
    /\ r.approved = View(d.proposals)
    /\ r.proposals = d.proposals /\ r.challenges = d.challenges /\ r.operations = d.operations
    /\ r.transitions = d.transitions /\ r.reviews = d.reviews

ReviewLeaves(c, d, r) ==
    /\ r.reviews = [d.reviews EXCEPT ![Latest(d.operations, c.on)] = c.move]
    /\ r.proposals = d.proposals /\ r.challenges = d.challenges /\ r.operations = d.operations
    /\ r.lexicon = d.lexicon /\ r.imports = d.imports /\ r.rollbacks = d.rollbacks
    /\ r.transitions = d.transitions /\ r.approved = d.approved

ResetLeaves(ids, d, r) ==
    /\ r.proposals = [o \in Ops |-> IF o \in ids THEN "none" ELSE d.proposals[o]]
    /\ r.challenges = [o \in Ops |-> IF o \in ids THEN "none" ELSE d.challenges[o]]
    /\ r.operations = [o \in Ops |-> IF o \in ids THEN 0 ELSE d.operations[o]]
    /\ r.reviews = [o \in Ops |-> IF o \in ids THEN "PENDING" ELSE d.reviews[o]]
    /\ r.approved = View(r.proposals)
    /\ r.lexicon = d.lexicon /\ r.imports = d.imports /\ r.rollbacks = d.rollbacks
    /\ r.transitions = d.transitions

LEMMA ResultFiles ==
  ASSUME NEW c \in Commands, NEW ids, NEW d \in Documents, NEW r, r = Result(c, ids, d)
  PROVE  /\ r = [f \in Files |-> r[f]]
         /\ \A f \in Files : r[f] = IF f \in Written(c) THEN New(c, ids, d)[f] ELSE d[f]
  BY WrittenIsNew DEF Result, Put, IsOf

LEMMA InspectResult ==
  ASSUME NEW c \in Commands, NEW ids, NEW d \in Documents, NEW r, r = Result(c, ids, d), c.kind = "inspect"
  PROVE  InspectLeaves(c, d, r)
<1>1. Written(c) = {"proposals", "challenges", "operations"} /\ New(c, ids, d) = Inspected(c, d)
  BY WritesInOrder, NewOf
<1>2. \A f \in Files : r[f] = IF f \in Written(c) THEN New(c, ids, d)[f] ELSE d[f]
  BY ResultFiles
<1>3. QED
  BY <1>1, <1>2 DEF InspectLeaves, Files, Inspected

LEMMA TransitionResult ==
  ASSUME NEW c \in Commands, NEW ids, NEW d \in Documents, NEW r, r = Result(c, ids, d), c.kind = "transition"
  PROVE  TransitionLeaves(c, d, r)
<1>1. Written(c) = {Source(c.on), "transitions", "approved"} /\ New(c, ids, d) = Moved(c, d)
  BY WritesInOrder, NewOf
<1>2. \A f \in Files : r[f] = IF f \in Written(c) THEN New(c, ids, d)[f] ELSE d[f]
  BY ResultFiles
<1>3. CASE c.on \in Ops
  BY <1>1, <1>2, <1>3 DEF TransitionLeaves, Files, Moved, Source
<1>4. CASE c.on \notin Ops
  BY <1>1, <1>2, <1>4 DEF TransitionLeaves, Files, Moved, Source
<1>5. QED
  BY <1>3, <1>4

LEMMA ImportResult ==
  ASSUME NEW c \in Commands, NEW ids, NEW d \in Documents, NEW r, r = Result(c, ids, d), c.kind = "import"
  PROVE  ImportLeaves(c, d, r)
<1>1. Written(c) = {"lexicon", "imports", "approved"} /\ New(c, ids, d) = Imported(c, d)
  BY WritesInOrder, NewOf
<1>2. \A f \in Files : r[f] = IF f \in Written(c) THEN New(c, ids, d)[f] ELSE d[f]
  BY ResultFiles
<1>3. QED
  BY <1>1, <1>2 DEF ImportLeaves, Files, Imported

LEMMA RollbackResult ==
  ASSUME NEW c \in Commands, NEW ids, NEW d \in Documents, NEW r, r = Result(c, ids, d), c.kind = "rollback"
  PROVE  RollbackLeaves(c, d, r)
<1>1. Written(c) = {"lexicon", "imports", "rollbacks", "approved"} /\ New(c, ids, d) = RolledBack(c, d)
  BY WritesInOrder, NewOf
<1>2. \A f \in Files : r[f] = IF f \in Written(c) THEN New(c, ids, d)[f] ELSE d[f]
  BY ResultFiles
<1>3. QED
  BY <1>1, <1>2 DEF RollbackLeaves, Files, RolledBack

LEMMA ReviewResult ==
  ASSUME NEW c \in Commands, NEW ids, NEW d \in Documents, NEW r, r = Result(c, ids, d), c.kind = "review"
  PROVE  ReviewLeaves(c, d, r)
<1>1. Written(c) = {"reviews"} /\ New(c, ids, d) = Reviewed(c, d)
  BY WritesInOrder, NewOf
<1>2. \A f \in Files : r[f] = IF f \in Written(c) THEN New(c, ids, d)[f] ELSE d[f]
  BY ResultFiles
<1>3. QED
  BY <1>1, <1>2 DEF ReviewLeaves, Files, Reviewed

LEMMA ResetResult ==
  ASSUME NEW c \in Commands, NEW ids, NEW d \in Documents, NEW r, r = Result(c, ids, d), c.kind = "reset"
  PROVE  ResetLeaves(ids, d, r)
<1>1. /\ Written(c) = {"proposals", "challenges", "operations", "reviews", "approved"}
      /\ New(c, ids, d) = Reset(ids, d)
  BY WritesInOrder, NewOf
<1>2. \A f \in Files : r[f] = IF f \in Written(c) THEN New(c, ids, d)[f] ELSE d[f]
  BY ResultFiles
<1>3. QED
  BY <1>1, <1>2 DEF ResetLeaves, Files, Reset

LEMMA StatesAre ==
  /\ {"none", "PROPOSED", "INACTIVE"} \subseteq States /\ Protected \subseteq States
  /\ "PENDING" \notin Decisions
  BY DEF States, Protected, Decisions

LEMMA ExceptIn ==
  ASSUME NEW S, NEW T, NEW f \in [S -> T], NEW x, NEW y \in T
  PROVE  [f EXCEPT ![x] = y] \in [S -> T]
  OBVIOUS

\* What a command leaves are documents again.
LEMMA ResultTyped ==
  ASSUME NEW c \in Commands, NEW ids, NEW d \in Documents, ~ Refused(c, ids, d)
  PROVE  Result(c, ids, d) \in Documents
<1>0. PICK r : r = Result(c, ids, d)
  OBVIOUS
<1>d. /\ d.proposals \in [Ops -> States] /\ d.challenges \in [Ops -> {"none", "OPEN", "SUPERSEDED"}]
      /\ d.operations \in [Ops -> Nat] /\ d.lexicon \in [Imports -> States]
      /\ d.imports \in [Imports -> {"none", "COMMITTED", "ROLLED_BACK"}]
      /\ d.rollbacks \in SUBSET Imports /\ d.transitions \in SUBSET (Records \X Allowed)
      /\ d.approved \in SUBSET Records /\ d.reviews \in [Ops -> Decisions \cup {"PENDING"}]
  BY DocumentsAreFunctions
<1>f. r = [f \in Files |-> r[f]]
  BY <1>0, ResultFiles
<1>v. \A proposals : View(proposals) \in SUBSET Records
  BY DEF View, Records
<1>s. "PROPOSED" \in States /\ "INACTIVE" \in States /\ "none" \in States
  BY DEF States
<1>k. /\ c.kind = "inspect" => c.on \in Ops
      /\ c.kind = "transition" => c.on \in Records /\ c.move \in Allowed
      /\ c.kind \in {"import", "rollback"} => c.on \in Imports
      /\ c.kind = "review" => c.move \in Decisions
  BY CommandKinds
<1>1. CASE c.kind = "inspect"
  <2>0. InspectLeaves(c, d, r)
    BY <1>0, <1>1, InspectResult
  <2>1. r.operations \in [Ops -> Nat]
    BY <1>d, <2>0 DEF Appended, InspectLeaves
  <2>2. r.proposals \in [Ops -> States]
    BY <1>d, <1>s, <2>0, ExceptIn DEF InspectLeaves
  <2>3. r.challenges \in [Ops -> {"none", "OPEN", "SUPERSEDED"}]
    BY <1>d, <2>0 DEF InspectLeaves
  <2>4. r \in Documents
    BY <1>d, <1>f, <2>0, <2>1, <2>2, <2>3, FunctionsAreDocuments DEF InspectLeaves
  <2>5. QED
    BY <1>0, <2>4
<1>2. CASE c.kind = "transition"
  <2>0. TransitionLeaves(c, d, r)
    BY <1>0, <1>2, TransitionResult
  <2>1. c.move[2] \in States /\ <<c.on, c.move>> \in Records \X Allowed
    BY <1>2, <1>k, AllowedMovesOn
  <2>2. r.proposals \in [Ops -> States]
    BY <1>d, <2>0, <2>1 DEF TransitionLeaves
  <2>3. r.lexicon \in [Imports -> States]
    BY <1>d, <2>0, <2>1, ExceptIn DEF TransitionLeaves
  <2>4. r.transitions \in SUBSET (Records \X Allowed)
    BY <1>d, <2>0, <2>1 DEF TransitionLeaves
  <2>5. r \in Documents
    BY <1>d, <1>f, <1>v, <2>0, <2>2, <2>3, <2>4, FunctionsAreDocuments DEF TransitionLeaves
  <2>6. QED
    BY <1>0, <2>5
<1>3. CASE c.kind = "import"
  <2>0. ImportLeaves(c, d, r)
    BY <1>0, <1>3, ImportResult
  <2>1. r.lexicon \in [Imports -> States]
    BY <1>d, <1>s, <2>0, ExceptIn DEF ImportLeaves
  <2>2. r.imports \in [Imports -> {"none", "COMMITTED", "ROLLED_BACK"}]
    <3>1. [d.imports EXCEPT ![c.on] = "COMMITTED"] \in [Imports -> {"none", "COMMITTED", "ROLLED_BACK"}]
      BY <1>d
    <3>2. QED
      BY <2>0, <3>1 DEF ImportLeaves
  <2>3. r \in Documents
    BY <1>d, <1>f, <1>v, <2>0, <2>1, <2>2, FunctionsAreDocuments DEF ImportLeaves
  <2>4. QED
    BY <1>0, <2>3
<1>4. CASE c.kind = "rollback"
  <2>0. RollbackLeaves(c, d, r)
    BY <1>0, <1>4, RollbackResult
  <2>1. r.lexicon \in [Imports -> States]
    BY <1>d, <1>s, <2>0, ExceptIn DEF RollbackLeaves
  <2>2. r.imports \in [Imports -> {"none", "COMMITTED", "ROLLED_BACK"}]
    <3>1. [d.imports EXCEPT ![c.on] = "ROLLED_BACK"] \in [Imports -> {"none", "COMMITTED", "ROLLED_BACK"}]
      BY <1>d
    <3>2. QED
      BY <2>0, <3>1 DEF RollbackLeaves
  <2>3. r.rollbacks \in SUBSET Imports
    BY <1>d, <1>k, <1>4, <2>0 DEF RollbackLeaves
  <2>4. r \in Documents
    BY <1>d, <1>f, <1>v, <2>0, <2>1, <2>2, <2>3, FunctionsAreDocuments DEF RollbackLeaves
  <2>5. QED
    BY <1>0, <2>4
<1>5. CASE c.kind = "review"
  <2>0. ReviewLeaves(c, d, r)
    BY <1>0, <1>5, ReviewResult
  <2>1. r.reviews \in [Ops -> Decisions \cup {"PENDING"}]
    BY <1>d, <1>k, <1>5, <2>0 DEF ReviewLeaves
  <2>2. r \in Documents
    BY <1>d, <1>f, <2>0, <2>1, FunctionsAreDocuments DEF ReviewLeaves
  <2>3. QED
    BY <1>0, <2>2
<1>6. CASE c.kind = "reset"
  <2>0. ResetLeaves(ids, d, r)
    BY <1>0, <1>6, ResetResult
  <2>1. r.proposals \in [Ops -> States]
    BY <1>d, <1>s, <2>0, ExceptIn DEF ResetLeaves
  <2>2. r.challenges \in [Ops -> {"none", "OPEN", "SUPERSEDED"}]
    BY <1>d, <2>0 DEF ResetLeaves
  <2>3. r.operations \in [Ops -> Nat]
    BY <1>d, <2>0 DEF ResetLeaves
  <2>4. r.reviews \in [Ops -> Decisions \cup {"PENDING"}]
    BY <1>d, <2>0 DEF ResetLeaves
  <2>5. r \in Documents
    BY <1>d, <1>f, <1>v, <2>0, <2>1, <2>2, <2>3, <2>4, FunctionsAreDocuments DEF ResetLeaves
  <2>6. QED
    BY <1>0, <2>5
<1>7. QED
  BY <1>0, <1>1, <1>2, <1>3, <1>4, <1>5, <1>6, CommandKinds

---------------------------------------------------------------------------
(* A command that runs to its end, or is killed with all files written,     *)
(* leads from good documents to good ones.                                  *)

\* The task records of a command that ends, and of one that is killed.
Ends(c, ids) ==
    \/ /\ deaths' = deaths
       /\ tasks' = [o \in Ops |-> IF c = Of("inspect", o, "none") THEN "COMMITTED"
                                  ELSE IF o \in ids THEN "removed" ELSE tasks[o]]
    \/ deaths' = deaths + 1 /\ tasks' = tasks

\* The types that the arithmetic of the kills needs.
Typed == tasks \in [Ops -> {"none", "CREATED", "COMMITTED", "removed"}] /\ deaths \in Nat

LEMMA InspectsOne ==
  ASSUME NEW c \in Commands, NEW o \in Ops
  PROVE  c = Of("inspect", o, "none") <=> c.kind = "inspect" /\ c.on = o
  BY DEF Commands, Of

LEMMA TasksAfter ==
  ASSUME NEW c \in Commands, NEW ids, Typed, Chosen(c, ids), Ends(c, ids)
  PROVE  /\ deaths' \in Nat /\ deaths' >= deaths
         /\ \A o \in Ops :
               \/ c.kind # "inspect" /\ c.kind # "reset" /\ tasks'[o] = tasks[o]
               \/ c.kind = "inspect" /\ c.on # o /\ tasks'[o] = tasks[o]
               \/ c.kind = "inspect" /\ c.on = o /\ tasks[o] = "CREATED" /\ deaths' = deaths /\ tasks'[o] = "COMMITTED"
               \/ c.kind = "inspect" /\ c.on = o /\ tasks[o] = "CREATED" /\ deaths' = deaths + 1 /\ tasks'[o] = "CREATED"
               \/ c.kind = "reset" /\ o \notin ids /\ tasks'[o] = tasks[o] /\ tasks[o] \in {"none", "removed"}
               \/ c.kind = "reset" /\ o \in ids /\ deaths' = deaths /\ tasks'[o] = "removed"
               \/ c.kind = "reset" /\ o \in ids /\ deaths' = deaths + 1 /\ tasks'[o] = tasks[o]
                     /\ tasks[o] \in {"CREATED", "COMMITTED"}
<1>1. deaths' \in Nat /\ deaths' >= deaths
  BY DEF Ends, Typed
<1>2. ASSUME NEW o \in Ops
      PROVE  \/ c.kind # "inspect" /\ c.kind # "reset" /\ tasks'[o] = tasks[o]
             \/ c.kind = "inspect" /\ c.on # o /\ tasks'[o] = tasks[o]
             \/ c.kind = "inspect" /\ c.on = o /\ tasks[o] = "CREATED" /\ deaths' = deaths /\ tasks'[o] = "COMMITTED"
             \/ c.kind = "inspect" /\ c.on = o /\ tasks[o] = "CREATED" /\ deaths' = deaths + 1 /\ tasks'[o] = "CREATED"
             \/ c.kind = "reset" /\ o \notin ids /\ tasks'[o] = tasks[o] /\ tasks[o] \in {"none", "removed"}
             \/ c.kind = "reset" /\ o \in ids /\ deaths' = deaths /\ tasks'[o] = "removed"
             \/ c.kind = "reset" /\ o \in ids /\ deaths' = deaths + 1 /\ tasks'[o] = tasks[o]
                     /\ tasks[o] \in {"CREATED", "COMMITTED"}
  <2>1. o \in ids <=> c.kind = "reset" /\ tasks[o] \in {"CREATED", "COMMITTED"}
    BY DEF Chosen
  <2>2. c.kind = "inspect" /\ c.on = o => tasks[o] = "CREATED"
    BY DEF Chosen
  <2>3. tasks[o] \in {"none", "CREATED", "COMMITTED", "removed"}
    BY DEF Typed
  <2>4. CASE /\ deaths' = deaths
             /\ tasks' = [x \in Ops |-> IF c = Of("inspect", x, "none") THEN "COMMITTED"
                                  ELSE IF x \in ids THEN "removed" ELSE tasks[x]]
    <3>1. tasks'[o] = IF c.kind = "inspect" /\ c.on = o THEN "COMMITTED"
                      ELSE IF o \in ids THEN "removed" ELSE tasks[o]
      BY <2>4, InspectsOne
    <3>2. QED
      BY <2>1, <2>2, <2>3, <2>4, <3>1
  <2>5. CASE deaths' = deaths + 1 /\ tasks' = tasks
    BY <2>1, <2>2, <2>3, <2>5
  <2>6. QED
    BY <2>4, <2>5 DEF Ends
<1>3. QED
  BY <1>1, <1>2

LEMMA ViewResult ==
  ASSUME NEW c \in Commands, NEW ids, NEW d \in Documents, d.approved = View(d.proposals), ~ Refused(c, ids, d),
         NEW r, r = Result(c, ids, d)
  PROVE  r.approved = View(r.proposals)
<1>1. CASE c.kind = "inspect"
  <2>1. d.proposals \in [Ops -> States] /\ d.proposals[c.on] = "none"
    BY <1>1, DocumentsAreFunctions DEF Refused, Known
  <2>2. View([d.proposals EXCEPT ![c.on] = "PROPOSED"]) = View(d.proposals)
    BY <2>1 DEF View
  <2>p. InspectLeaves(c, d, r)
    BY <1>1, InspectResult
  <2>3. r.proposals = [d.proposals EXCEPT ![c.on] = "PROPOSED"] /\ r.approved = d.approved
    BY <2>p DEF InspectLeaves
  <2>4. QED
    BY <2>2, <2>3
<1>2. CASE c.kind = "transition"
  <2>1. TransitionLeaves(c, d, r)
    BY <1>2, TransitionResult
  <2>2. QED
    BY <2>1 DEF TransitionLeaves
<1>3. CASE c.kind = "import"
  <2>1. ImportLeaves(c, d, r)
    BY <1>3, ImportResult
  <2>2. QED
    BY <2>1 DEF ImportLeaves
<1>4. CASE c.kind = "rollback"
  <2>1. RollbackLeaves(c, d, r)
    BY <1>4, RollbackResult
  <2>2. QED
    BY <2>1 DEF RollbackLeaves
<1>5. CASE c.kind = "review"
  <2>1. ReviewLeaves(c, d, r)
    BY <1>5, ReviewResult
  <2>2. QED
    BY <2>1 DEF ReviewLeaves
<1>6. CASE c.kind = "reset"
  <2>1. ResetLeaves(ids, d, r)
    BY <1>6, ResetResult
  <2>2. QED
    BY <2>1 DEF ResetLeaves
<1>7. QED
  BY <1>1, <1>2, <1>3, <1>4, <1>5, <1>6, CommandKinds

LEMMA NewerSame ==
  ASSUME NEW d, NEW r, NEW o, r.operations = d.operations, setting' = setting
  PROVE  Newer(r, o)' = Newer(d, o) /\ Newer(d, o)' = Newer(d, o)
  BY DEF Newer, ScopeOf, RefOf, Committed

LEMMA ListedInspect ==
  ASSUME NEW c \in Commands, NEW ids, NEW d \in Documents, Typed, Chosen(c, ids), Ends(c, ids), setting' = setting,
         ~ Refused(c, ids, d), Listed(d), NEW r, r = Result(c, ids, d), c.kind = "inspect"
  PROVE  Listed(r)'
<1>0. /\ d.operations \in [Ops -> Nat] /\ d.challenges \in [Ops -> {"none", "OPEN", "SUPERSEDED"}]
      /\ c.on \in Ops /\ d.operations[c.on] = 0
  <2>1. c.on \in Ops /\ c.on \notin Committed(d.operations)
    BY CommandKinds DEF Refused, Known
  <2>2. QED
    BY <2>1, DocumentsAreFunctions DEF Committed
<1>p. InspectLeaves(c, d, r)
  BY InspectResult
<1>1. /\ r.operations = Appended(d.operations, c.on) /\ r.reviews = d.reviews
      /\ r.challenges = [o \in Ops |->
               IF o = c.on THEN "OPEN"
               ELSE IF d.challenges[o] = "OPEN" /\ <<ScopeOf(c.on), RefOf(o)>> \in Overlap
                    THEN "SUPERSEDED" ELSE d.challenges[o]]
  BY <1>p DEF InspectLeaves
<1>2. \A o \in Ops : /\ r.operations[o] = IF o = c.on THEN 1 ELSE IF d.operations[o] > 0 THEN d.operations[o] + 1 ELSE 0
                     /\ d.operations[o] \in Nat
  BY <1>0, <1>1 DEF Appended, Committed
<1>3. \A o : ScopeOf(o)' = ScopeOf(o) /\ RefOf(o)' = RefOf(o)
  BY DEF ScopeOf, RefOf
<1>4. \A o \in Ops : o \in Committed(r.operations) <=> o = c.on \/ o \in Committed(d.operations)
  BY <1>2 DEF Committed
<1>5. \A o \in Ops : \A p : p \in Newer(r, o)' <=>
           /\ p \in Ops /\ r.operations[p] > 0 /\ r.operations[p] < r.operations[o]
           /\ <<ScopeOf(p), RefOf(o)>> \in Overlap
  BY <1>3 DEF Newer, Committed
<1>6. \A o \in Ops : \A p : p \in Newer(d, o) <=>
           /\ p \in Ops /\ d.operations[p] > 0 /\ d.operations[p] < d.operations[o]
           /\ <<ScopeOf(p), RefOf(o)>> \in Overlap
  BY DEF Newer, Committed
<1>7. Newer(r, c.on)' = {}
  <2>1. r.operations[c.on] = 1
    BY <1>0, <1>2
  <2>2. \A p \in Ops : r.operations[p] \in Nat
    BY <1>2
  <2>3. \A p \in Ops : ~ (r.operations[p] > 0 /\ r.operations[p] < 1)
    BY <2>2
  <2>4. \A p : p \in Newer(r, c.on)' => p \in Ops /\ r.operations[p] > 0 /\ r.operations[p] < r.operations[c.on]
    BY <1>0, <1>5
  <2>5. QED
    BY <2>1, <2>3, <2>4
<1>8. ASSUME NEW o \in Ops, o # c.on, d.operations[o] > 0
      PROVE  Newer(r, o)' = {} <=> Newer(d, o) = {} /\ <<ScopeOf(c.on), RefOf(o)>> \notin Overlap
  <2>1. \A p : p \in Newer(r, o)' <=> p \in Newer(d, o) \/ (p = c.on /\ <<ScopeOf(c.on), RefOf(o)>> \in Overlap)
    <3>0. r.operations[o] = d.operations[o] + 1 /\ d.operations[o] \in Nat
      BY <1>2, <1>8
    <3>1. ASSUME NEW p, p = c.on
          PROVE  p \in Newer(r, o)' <=> p \in Newer(d, o) \/ (p = c.on /\ <<ScopeOf(c.on), RefOf(o)>> \in Overlap)
      <4>1. r.operations[p] = 1 /\ d.operations[p] = 0 /\ p \in Ops
        BY <1>0, <1>2, <3>1
      <4>2. QED
        BY <1>5, <1>6, <1>8, <3>0, <3>1, <4>1
    <3>2. ASSUME NEW p, p # c.on, p \in Ops
          PROVE  p \in Newer(r, o)' <=> p \in Newer(d, o) \/ (p = c.on /\ <<ScopeOf(c.on), RefOf(o)>> \in Overlap)
      <4>1. /\ r.operations[p] = IF d.operations[p] > 0 THEN d.operations[p] + 1 ELSE 0
            /\ d.operations[p] \in Nat
        BY <1>2, <3>2
      <4>2. r.operations[p] > 0 /\ r.operations[p] < r.operations[o] <=> d.operations[p] > 0 /\ d.operations[p] < d.operations[o]
        BY <3>0, <4>1
      <4>3. QED
        BY <1>5, <1>6, <3>2, <4>2
    <3>3. ASSUME NEW p, p \notin Ops
          PROVE  p \in Newer(r, o)' <=> p \in Newer(d, o) \/ (p = c.on /\ <<ScopeOf(c.on), RefOf(o)>> \in Overlap)
      BY <1>0, <1>5, <1>6, <3>3
    <3>4. QED
      BY <3>1, <3>2, <3>3
  <2>2. QED
    BY <2>1
<1>9. ASSUME NEW o \in Ops
      PROVE  /\ o \in Committed(r.operations) =>
                    /\ tasks'[o] \in {"CREATED", "COMMITTED"}
                    /\ r.challenges[o] = IF Newer(r, o)' = {} THEN "OPEN" ELSE "SUPERSEDED"
             /\ o \notin Committed(r.operations) => r.reviews[o] = "PENDING"
  <2>1. CASE o = c.on
    <3>1. tasks'[o] \in {"CREATED", "COMMITTED"}
      BY <2>1, TasksAfter
    <3>2. r.challenges[o] = "OPEN" /\ o \in Committed(r.operations)
      BY <1>1, <1>4, <2>1
    <3>3. QED
      BY <1>7, <2>1, <3>1, <3>2
  <2>2. CASE o # c.on
    <3>1. tasks'[o] = tasks[o]
      BY <2>2, TasksAfter
    <3>2. r.challenges[o] = IF d.challenges[o] = "OPEN" /\ <<ScopeOf(c.on), RefOf(o)>> \in Overlap
                            THEN "SUPERSEDED" ELSE d.challenges[o]
      BY <1>1, <2>2
    <3>3. /\ o \in Committed(d.operations) =>
                /\ tasks[o] \in {"CREATED", "COMMITTED"}
                /\ d.challenges[o] = IF Newer(d, o) = {} THEN "OPEN" ELSE "SUPERSEDED"
          /\ o \notin Committed(d.operations) => d.reviews[o] = "PENDING"
      BY DEF Listed
    <3>4. CASE o \in Committed(d.operations)
      <4>1. Newer(r, o)' = {} <=> Newer(d, o) = {} /\ <<ScopeOf(c.on), RefOf(o)>> \notin Overlap
        BY <1>8, <2>2, <3>4 DEF Committed
      <4>2. QED
        BY <1>4, <3>1, <3>2, <3>3, <3>4, <4>1
    <3>5. CASE o \notin Committed(d.operations)
      BY <1>1, <1>4, <2>2, <3>3, <3>5
    <3>6. QED
      BY <3>4, <3>5
  <2>3. QED
    BY <2>1, <2>2
<1>10. QED
  BY <1>9 DEF Listed, Committed

LEMMA ListedResult ==
  ASSUME NEW c \in Commands, NEW ids, NEW d \in Documents, Typed, Chosen(c, ids), Ends(c, ids), setting' = setting,
         ~ Refused(c, ids, d), Listed(d), NEW r, r = Result(c, ids, d)
  PROVE  Listed(r)'
<1>0. \A o \in Ops :
        /\ o \in Committed(d.operations) =>
              /\ tasks[o] \in {"CREATED", "COMMITTED"}
              /\ d.challenges[o] = IF Newer(d, o) = {} THEN "OPEN" ELSE "SUPERSEDED"
        /\ o \notin Committed(d.operations) => d.reviews[o] = "PENDING"
  BY DEF Listed
<1>1. CASE c.kind = "inspect"
  BY <1>1, ListedInspect
<1>2. CASE c.kind \in {"transition", "import", "rollback"}
  <2>1. r.operations = d.operations /\ r.challenges = d.challenges /\ r.reviews = d.reviews
    <3>1. CASE c.kind = "transition"
      <4>1. TransitionLeaves(c, d, r)
        BY <3>1, TransitionResult
      <4>2. QED
        BY <4>1 DEF TransitionLeaves
    <3>2. CASE c.kind = "import"
      <4>1. ImportLeaves(c, d, r)
        BY <3>2, ImportResult
      <4>2. QED
        BY <4>1 DEF ImportLeaves
    <3>3. CASE c.kind = "rollback"
      <4>1. RollbackLeaves(c, d, r)
        BY <3>3, RollbackResult
      <4>2. QED
        BY <4>1 DEF RollbackLeaves
    <3>4. QED
      BY <1>2, <3>1, <3>2, <3>3
  <2>2. \A o \in Ops : tasks'[o] = tasks[o]
    BY <1>2, TasksAfter
  <2>3. \A o \in Ops : Newer(r, o)' = Newer(d, o)
    BY <2>1, NewerSame
  <2>4. QED
    BY <1>0, <2>1, <2>2, <2>3 DEF Listed, Committed
<1>3. CASE c.kind = "review"
  <2>1. /\ r.operations = d.operations /\ r.challenges = d.challenges
        /\ r.reviews = [d.reviews EXCEPT ![Latest(d.operations, c.on)] = c.move]
        /\ d.reviews \in [Ops -> Decisions \cup {"PENDING"}] /\ d.operations \in [Ops -> Nat]
    <3>1. ReviewLeaves(c, d, r)
      BY <1>3, ReviewResult
    <3>2. QED
      BY <3>1, DocumentsAreFunctions DEF ReviewLeaves
  <2>2. \A o \in Ops : tasks'[o] = tasks[o]
    BY <1>3, TasksAfter
  <2>3. \A o \in Ops : Newer(r, o)' = Newer(d, o)
    BY <2>1, NewerSame
  <2>4. Latest(d.operations, c.on) \in Committed(d.operations)
    <3>1. OfScope(d.operations, c.on) # {}
      BY <1>3 DEF Refused
    <3>2. Latest(d.operations, c.on) \in OfScope(d.operations, c.on)
      BY <2>1, <3>1, LatestIsListed
    <3>3. QED
      BY <3>2 DEF OfScope
  <2>5. \A o \in Ops : o \notin Committed(d.operations) => r.reviews[o] = d.reviews[o]
    BY <2>1, <2>4
  <2>6. QED
    BY <1>0, <2>1, <2>2, <2>3, <2>5 DEF Listed, Committed
<1>4. CASE c.kind = "reset"
  <2>1. /\ r.operations = [o \in Ops |-> IF o \in ids THEN 0 ELSE d.operations[o]]
        /\ r.reviews = [o \in Ops |-> IF o \in ids THEN "PENDING" ELSE d.reviews[o]]
    <3>1. ResetLeaves(ids, d, r)
      BY <1>4, ResetResult
    <3>2. QED
      BY <3>1 DEF ResetLeaves
  <2>2. ids = {o \in Ops : tasks[o] \in {"CREATED", "COMMITTED"}}
    BY <1>4 DEF Chosen
  <2>3. \A o \in Ops : o \notin Committed(r.operations) /\ r.reviews[o] = "PENDING"
    BY <1>0, <2>1, <2>2 DEF Committed
  <2>4. QED
    BY <2>3 DEF Listed, Committed
<1>5. QED
  BY <1>1, <1>2, <1>3, <1>4, CommandKinds

\* The two halves of what the decisions account for.
TaskAccounted(d, o) ==
    /\ d.proposals[o] # "none" /\ deaths < 2 => Leads(Moves(d, o), d.proposals[o])
    /\ d.proposals[o] # "none" /\ tasks[o] = "CREATED" => deaths > 0
    /\ d.proposals[o] = "none" /\ tasks[o] = "CREATED" /\ Moves(d, o) # {} => deaths > 1
    /\ tasks[o] = "none" => d.proposals[o] = "none" /\ Moves(d, o) = {}

ImportAccounted(d, i) ==
    /\ d.imports[i] = "none" => d.lexicon[i] = "none" /\ Moves(d, i) = {}
    /\ d.imports[i] = "COMMITTED" => d.lexicon[i] # "none" /\ Leads(Moves(d, i), d.lexicon[i])
    /\ d.imports[i] = "ROLLED_BACK" => d.lexicon[i] = "INACTIVE" /\ i \in d.rollbacks

LEMMA AccountedHalves ==
  ASSUME NEW d
  PROVE  Accounted(d) <=> (\A o \in Ops : TaskAccounted(d, o)) /\ \A i \in Imports : ImportAccounted(d, i)
  BY DEF Accounted, TaskAccounted, ImportAccounted

LEMMA AccountedHalvesNext ==
  ASSUME NEW d, \A o \in Ops : TaskAccounted(d, o)', \A i \in Imports : ImportAccounted(d, i)'
  PROVE  Accounted(d)'
  BY DEF Accounted, TaskAccounted, ImportAccounted

LEMMA TaskAccountedNext ==
  ASSUME NEW r, NEW o
  PROVE  TaskAccounted(r, o)' <=>
           /\ r.proposals[o] # "none" /\ deaths' < 2 => Leads(Moves(r, o), r.proposals[o])
           /\ r.proposals[o] # "none" /\ tasks'[o] = "CREATED" => deaths' > 0
           /\ r.proposals[o] = "none" /\ tasks'[o] = "CREATED" /\ Moves(r, o) # {} => deaths' > 1
           /\ tasks'[o] = "none" => r.proposals[o] = "none" /\ Moves(r, o) = {}
  BY DEF TaskAccounted, Moves, Leads

LEMMA TaskUnchanged ==
  ASSUME NEW d, NEW r, NEW o, TaskAccounted(d, o), Moves(r, o) = Moves(d, o), r.proposals[o] = d.proposals[o],
         tasks'[o] = tasks[o], deaths \in Nat, deaths' \in Nat, deaths' >= deaths
  PROVE  TaskAccounted(r, o)'
<1>1. deaths' < 2 => deaths < 2
  OBVIOUS
<1>2. (deaths > 0 => deaths' > 0) /\ (deaths > 1 => deaths' > 1)
  OBVIOUS
<1>3. QED
  BY <1>1, <1>2, TaskAccountedNext DEF TaskAccounted

LEMMA ImportUnchanged ==
  ASSUME NEW d, NEW r, NEW i, ImportAccounted(d, i), Moves(r, i) = Moves(d, i), r.imports[i] = d.imports[i],
         r.lexicon[i] = d.lexicon[i], r.rollbacks = d.rollbacks
  PROVE  ImportAccounted(r, i)
  BY DEF ImportAccounted

LEMMA ImportIsConstant ==
  ASSUME NEW d, NEW i PROVE ImportAccounted(d, i)' <=> ImportAccounted(d, i)
  BY DEF ImportAccounted, Moves, Leads

LEMMA AccountedInspect ==
  ASSUME NEW c \in Commands, NEW ids, NEW d \in Documents, Typed, Chosen(c, ids), Ends(c, ids),
         ~ Refused(c, ids, d), Accounted(d), NEW r, r = Result(c, ids, d), c.kind = "inspect"
  PROVE  Accounted(r)'
<1>p. InspectLeaves(c, d, r)
  BY InspectResult
<1>0. /\ d.proposals \in [Ops -> States] /\ c.on \in Ops /\ d.proposals[c.on] = "none"
      /\ r.proposals = [d.proposals EXCEPT ![c.on] = "PROPOSED"]
      /\ r.lexicon = d.lexicon /\ r.imports = d.imports /\ r.rollbacks = d.rollbacks
      /\ deaths \in Nat /\ deaths' \in Nat /\ deaths' >= deaths
  BY <1>p, DocumentsAreFunctions, CommandKinds, TasksAfter DEF InspectLeaves, Refused, Known, Typed
<1>1. \A q : Moves(r, q) = Moves(d, q)
  BY <1>p, MovesSame DEF InspectLeaves
<1>2. ASSUME NEW o \in Ops PROVE TaskAccounted(r, o)'
  <2>0. TaskAccounted(d, o)
    BY AccountedHalves
  <2>1. CASE o = c.on
    <3>1. /\ tasks[o] = "CREATED"
          /\ \/ deaths' = deaths /\ tasks'[o] = "COMMITTED"
             \/ deaths' = deaths + 1 /\ tasks'[o] = "CREATED"
      BY <2>1, TasksAfter
    <3>2. r.proposals[o] = "PROPOSED"
      BY <1>0, <2>1
    <3>3. deaths' < 2 => Moves(d, o) = {}
      <4>1. deaths' < 2 => ~ (deaths > 1)
        BY <1>0
      <4>2. Moves(d, o) # {} => deaths > 1
        BY <1>0, <2>0, <2>1, <3>1 DEF TaskAccounted
      <4>3. QED
        BY <4>1, <4>2
    <3>4. deaths' < 2 => Leads(Moves(r, o), r.proposals[o])
      BY <1>1, <3>2, <3>3, NoMoves
    <3>5. tasks'[o] = "CREATED" => deaths' > 0
      BY <1>0, <3>1
    <3>6. QED
      BY <3>1, <3>2, <3>4, <3>5, TaskAccountedNext
  <2>2. CASE o # c.on
    <3>1. tasks'[o] = tasks[o]
      BY <2>2, TasksAfter
    <3>2. r.proposals[o] = d.proposals[o]
      BY <1>0, <2>2
    <3>3. QED
      BY <1>0, <1>1, <2>0, <3>1, <3>2, TaskUnchanged
  <2>3. QED
    BY <2>1, <2>2
<1>3. ASSUME NEW i \in Imports PROVE ImportAccounted(r, i)'
  <2>1. ImportAccounted(d, i)
    BY AccountedHalves
  <2>2. ImportAccounted(r, i)
    BY <1>0, <1>1, <2>1, ImportUnchanged
  <2>3. QED
    BY <2>2, ImportIsConstant
<1>4. QED
  BY <1>2, <1>3, AccountedHalvesNext

LEMMA MovesAdded ==
  ASSUME NEW c, NEW d, NEW e, NEW q, TransitionLeaves(c, d, e)
  PROVE  Moves(e, q) = IF q = c.on THEN Moves(d, q) \cup {c.move} ELSE Moves(d, q)
<1> DEFINE r == c.on
           m == c.move
<1>0. e.transitions = d.transitions \cup {<<r, m>>}
  BY DEF TransitionLeaves
<1> HIDE DEF r, m
<1>1. \A t : t \in {u \in e.transitions : u[1] = q} <=> t \in {u \in d.transitions : u[1] = q} \/ (q = r /\ t = <<r, m>>)
  BY <1>0
<1>2. <<r, m>>[2] = m
  OBVIOUS
<1>3. \A x : x \in Moves(e, q) <=> x \in Moves(d, q) \/ (q = r /\ x = m)
  BY <1>1, <1>2 DEF Moves
<1>4. CASE q = r
  <2>1. \A x : x \in Moves(e, q) <=> x \in Moves(d, q) \cup {m}
    BY <1>3, <1>4
  <2>2. Moves(e, q) = Moves(d, q) \cup {m}
    BY <2>1
  <2>3. QED
    BY <1>4, <2>2 DEF r, m
<1>5. CASE q # r
  <2>1. \A x : x \in Moves(e, q) <=> x \in Moves(d, q)
    BY <1>3, <1>5
  <2>2. Moves(e, q) = Moves(d, q)
    <3>1. Moves(e, q) \subseteq Moves(d, q) /\ Moves(d, q) \subseteq Moves(e, q)
      BY <2>1
    <3>2. QED
      BY <3>1
  <2>3. QED
    BY <1>5, <2>2 DEF r
<1>6. QED
  BY <1>4, <1>5

LEMMA AccountedTransition ==
  ASSUME NEW c \in Commands, NEW ids, NEW d \in Documents, Typed, Chosen(c, ids), Ends(c, ids),
         ~ Refused(c, ids, d), Accounted(d), NEW r, r = Result(c, ids, d), c.kind = "transition"
  PROVE  Accounted(r)'
<1>p. TransitionLeaves(c, d, r)
  BY TransitionResult
<1>0. /\ d.proposals \in [Ops -> States] /\ d.lexicon \in [Imports -> States]
      /\ c.on \in Records /\ c.move \in Allowed
      /\ d[Source(c.on)][c.on] = c.move[1]
      /\ deaths \in Nat /\ deaths' \in Nat /\ deaths' >= deaths
  <2>1. d.proposals \in [Ops -> States] /\ d.lexicon \in [Imports -> States]
    BY DocumentsAreFunctions
  <2>2. c.on \in Records /\ c.move \in Allowed
    BY CommandKinds
  <2>3. d[Source(c.on)][c.on] = c.move[1]
    BY DEF Refused
  <2>4. deaths \in Nat /\ deaths' \in Nat /\ deaths' >= deaths
    BY TasksAfter DEF Typed
  <2>5. QED
    BY <2>1, <2>2, <2>3, <2>4
<1>1. \A q : Moves(r, q) = IF q = c.on THEN Moves(d, q) \cup {c.move} ELSE Moves(d, q)
  BY <1>p, MovesAdded
<1>m. /\ c.move[1] # "none" /\ c.move[2] # "none" /\ c.move[1] # "INACTIVE"
      /\ \A q : Moves(d, q) \subseteq Allowed
  BY <1>0, AllowedMovesOn, MovesAreAllowed
<1>2. ASSUME NEW o \in Ops PROVE TaskAccounted(r, o)'
  <2>0. TaskAccounted(d, o) /\ tasks'[o] = tasks[o]
    BY AccountedHalves, TasksAfter
  <2>1. CASE o = c.on
    <3>1. r.proposals[o] = c.move[2] /\ d.proposals[o] = c.move[1]
      BY <1>p, <1>0, <2>1 DEF TransitionLeaves, Source
    <3>2. deaths' < 2 => deaths < 2
      BY <1>0
    <3>3. deaths' < 2 => Leads(Moves(d, o), c.move[1])
      BY <1>m, <2>0, <3>1, <3>2 DEF TaskAccounted
    <3>4. deaths' < 2 => Leads(Moves(r, o), r.proposals[o])
      <4>1. deaths' < 2 => Leads(Moves(d, o) \cup {c.move}, c.move[2])
        BY <1>0, <1>m, <3>3, LeadsOn
      <4>2. QED
        BY <1>1, <2>1, <3>1, <4>1
    <3>5. tasks[o] = "CREATED" => deaths > 0
      BY <1>m, <2>0, <3>1 DEF TaskAccounted
    <3>6. tasks[o] # "none"
      BY <1>m, <2>0, <3>1 DEF TaskAccounted
    <3>7. tasks'[o] = "CREATED" => deaths' > 0
      BY <1>0, <2>0, <3>5
    <3>8. QED
      BY <1>m, <2>0, <3>1, <3>4, <3>6, <3>7, TaskAccountedNext
  <2>2. CASE o # c.on
    <3>1. r.proposals[o] = d.proposals[o]
      BY <1>p, <1>0, <2>2 DEF TransitionLeaves
    <3>2. QED
      BY <1>0, <1>1, <2>0, <2>2, <3>1, TaskUnchanged
  <2>3. QED
    BY <2>1, <2>2
<1>3. ASSUME NEW i \in Imports PROVE ImportAccounted(r, i)'
  <2>1. ImportAccounted(d, i) /\ r.imports[i] = d.imports[i] /\ r.rollbacks = d.rollbacks
    BY <1>p, AccountedHalves DEF TransitionLeaves
  <2>i. d.imports[i] \in {"none", "COMMITTED", "ROLLED_BACK"}
    BY DocumentsAreFunctions
  <2>2. CASE i = c.on
    <3>1. i \notin Ops
      OBVIOUS
    <3>2. r.lexicon[i] = c.move[2] /\ d.lexicon[i] = c.move[1]
      BY <1>p, <1>0, <2>2, <3>1 DEF TransitionLeaves, Source
    <3>3. d.imports[i] = "COMMITTED"
      BY <1>m, <2>1, <2>i, <3>2 DEF ImportAccounted
    <3>4. Leads(Moves(d, i), c.move[1])
      BY <2>1, <3>2, <3>3 DEF ImportAccounted
    <3>5. Leads(Moves(r, i), r.lexicon[i])
      <4>1. Leads(Moves(d, i) \cup {c.move}, c.move[2])
        BY <1>0, <1>m, <3>4, LeadsOn
      <4>2. QED
        BY <1>1, <2>2, <3>2, <4>1
    <3>6. ImportAccounted(r, i)
      BY <1>m, <2>1, <3>2, <3>3, <3>5 DEF ImportAccounted
    <3>7. QED
      BY <3>6, ImportIsConstant
  <2>3. CASE i # c.on
    <3>1. r.lexicon[i] = d.lexicon[i] /\ Moves(r, i) = Moves(d, i)
      BY <1>p, <1>0, <1>1, <2>3 DEF TransitionLeaves
    <3>2. ImportAccounted(r, i)
      BY <2>1, <3>1, ImportUnchanged
    <3>3. QED
      BY <3>2, ImportIsConstant
  <2>4. QED
    BY <2>2, <2>3
<1>4. QED
  BY <1>2, <1>3, AccountedHalvesNext

LEMMA AccountedImport ==
  ASSUME NEW c \in Commands, NEW ids, NEW d \in Documents, Typed, Chosen(c, ids), Ends(c, ids),
         ~ Refused(c, ids, d), Accounted(d), NEW r, r = Result(c, ids, d), c.kind = "import"
  PROVE  Accounted(r)'
<1>p. ImportLeaves(c, d, r)
  BY ImportResult
<1>0. /\ d.lexicon \in [Imports -> States] /\ d.imports \in [Imports -> {"none", "COMMITTED", "ROLLED_BACK"}]
      /\ c.on \in Imports /\ d.imports[c.on] = "none"
      /\ deaths \in Nat /\ deaths' \in Nat /\ deaths' >= deaths
  BY DocumentsAreFunctions, CommandKinds, TasksAfter DEF Refused, Typed
<1>1. \A q : Moves(r, q) = Moves(d, q)
  BY <1>p, MovesSame DEF ImportLeaves
<1>2. ASSUME NEW o \in Ops PROVE TaskAccounted(r, o)'
  <2>1. TaskAccounted(d, o) /\ tasks'[o] = tasks[o] /\ r.proposals[o] = d.proposals[o]
    BY <1>p, AccountedHalves, TasksAfter DEF ImportLeaves
  <2>2. QED
    BY <1>0, <1>1, <2>1, TaskUnchanged
<1>3. ASSUME NEW i \in Imports PROVE ImportAccounted(r, i)'
  <2>1. ImportAccounted(d, i)
    BY AccountedHalves
  <2>2. CASE i = c.on
    <3>1. r.imports[i] = "COMMITTED" /\ r.lexicon[i] = "PROPOSED"
      BY <1>p, <1>0, <2>2 DEF ImportLeaves
    <3>2. Moves(r, i) = {}
      BY <1>0, <1>1, <2>1, <2>2 DEF ImportAccounted
    <3>3. ImportAccounted(r, i)
      BY <3>1, <3>2, NoMoves DEF ImportAccounted
    <3>4. QED
      BY <3>3, ImportIsConstant
  <2>3. CASE i # c.on
    <3>1. r.imports[i] = d.imports[i] /\ r.lexicon[i] = d.lexicon[i] /\ r.rollbacks = d.rollbacks
      BY <1>p, <1>0, <2>3 DEF ImportLeaves
    <3>2. ImportAccounted(r, i)
      BY <1>1, <2>1, <3>1, ImportUnchanged
    <3>3. QED
      BY <3>2, ImportIsConstant
  <2>4. QED
    BY <2>2, <2>3
<1>4. QED
  BY <1>2, <1>3, AccountedHalvesNext

LEMMA AccountedRollback ==
  ASSUME NEW c \in Commands, NEW ids, NEW d \in Documents, Typed, Chosen(c, ids), Ends(c, ids),
         ~ Refused(c, ids, d), Accounted(d), NEW r, r = Result(c, ids, d), c.kind = "rollback"
  PROVE  Accounted(r)'
<1>p. RollbackLeaves(c, d, r)
  BY RollbackResult
<1>0. /\ d.lexicon \in [Imports -> States] /\ d.imports \in [Imports -> {"none", "COMMITTED", "ROLLED_BACK"}]
      /\ c.on \in Imports
      /\ deaths \in Nat /\ deaths' \in Nat /\ deaths' >= deaths
  BY DocumentsAreFunctions, CommandKinds, TasksAfter DEF Typed
<1>1. \A q : Moves(r, q) = Moves(d, q)
  BY <1>p, MovesSame DEF RollbackLeaves
<1>2. ASSUME NEW o \in Ops PROVE TaskAccounted(r, o)'
  <2>1. TaskAccounted(d, o) /\ tasks'[o] = tasks[o] /\ r.proposals[o] = d.proposals[o]
    BY <1>p, AccountedHalves, TasksAfter DEF RollbackLeaves
  <2>2. QED
    BY <1>0, <1>1, <2>1, TaskUnchanged
<1>3. ASSUME NEW i \in Imports PROVE ImportAccounted(r, i)'
  <2>1. ImportAccounted(d, i)
    BY AccountedHalves
  <2>2. CASE i = c.on
    <3>1. r.imports[i] = "ROLLED_BACK" /\ r.lexicon[i] = "INACTIVE" /\ i \in r.rollbacks
      BY <1>p, <1>0, <2>2 DEF RollbackLeaves
    <3>2. ImportAccounted(r, i)
      BY <3>1 DEF ImportAccounted
    <3>3. QED
      BY <3>2, ImportIsConstant
  <2>3. CASE i # c.on
    <3>1. /\ r.imports[i] = d.imports[i] /\ r.lexicon[i] = d.lexicon[i]
          /\ i \in r.rollbacks <=> i \in d.rollbacks
      BY <1>p, <1>0, <2>3 DEF RollbackLeaves
    <3>2. ImportAccounted(r, i)
      BY <1>1, <2>1, <3>1 DEF ImportAccounted
    <3>3. QED
      BY <3>2, ImportIsConstant
  <2>4. QED
    BY <2>2, <2>3
<1>4. QED
  BY <1>2, <1>3, AccountedHalvesNext

LEMMA AccountedReview ==
  ASSUME NEW c \in Commands, NEW ids, NEW d \in Documents, Typed, Chosen(c, ids), Ends(c, ids),
         ~ Refused(c, ids, d), Accounted(d), NEW r, r = Result(c, ids, d), c.kind = "review"
  PROVE  Accounted(r)'
<1>p. ReviewLeaves(c, d, r)
  BY ReviewResult
<1>0. deaths \in Nat /\ deaths' \in Nat /\ deaths' >= deaths
  BY TasksAfter DEF Typed
<1>1. \A q : Moves(r, q) = Moves(d, q)
  BY <1>p, MovesSame DEF ReviewLeaves
<1>2. ASSUME NEW o \in Ops PROVE TaskAccounted(r, o)'
  <2>1. TaskAccounted(d, o) /\ tasks'[o] = tasks[o] /\ r.proposals[o] = d.proposals[o]
    BY <1>p, AccountedHalves, TasksAfter DEF ReviewLeaves
  <2>2. QED
    BY <1>0, <1>1, <2>1, TaskUnchanged
<1>3. ASSUME NEW i \in Imports PROVE ImportAccounted(r, i)'
  <2>1. ImportAccounted(d, i)
    BY AccountedHalves
  <2>2. ImportAccounted(r, i)
    BY <1>p, <1>1, <2>1, ImportUnchanged DEF ReviewLeaves
  <2>3. QED
    BY <2>2, ImportIsConstant
<1>4. QED
  BY <1>2, <1>3, AccountedHalvesNext

LEMMA AccountedReset ==
  ASSUME NEW c \in Commands, NEW ids, NEW d \in Documents, Typed, Chosen(c, ids), Ends(c, ids),
         ~ Refused(c, ids, d), Accounted(d), NEW r, r = Result(c, ids, d), c.kind = "reset"
  PROVE  Accounted(r)'
<1>p. ResetLeaves(ids, d, r)
  BY ResetResult
<1>0. deaths \in Nat /\ deaths' \in Nat /\ deaths' >= deaths
  BY TasksAfter DEF Typed
<1>1. \A q : Moves(r, q) = Moves(d, q)
  BY <1>p, MovesSame DEF ResetLeaves
<1>2. ASSUME NEW o \in Ops PROVE TaskAccounted(r, o)'
  <2>0. TaskAccounted(d, o)
    BY AccountedHalves
  <2>1. CASE o \in ids
    <3>1. r.proposals[o] = "none"
      BY <1>p, <2>1 DEF ResetLeaves
    <3>2. \/ tasks'[o] = "removed"
          \/ deaths' = deaths + 1 /\ tasks'[o] = tasks[o] /\ tasks[o] \in {"CREATED", "COMMITTED"}
      BY <2>1, TasksAfter
    <3>3. ASSUME tasks'[o] = "CREATED", Moves(r, o) # {} PROVE deaths' > 1
      <4>1. deaths' = deaths + 1 /\ tasks[o] = "CREATED" /\ Moves(d, o) # {}
        BY <1>1, <3>2, <3>3
      <4>2. deaths > 0
        <5>1. CASE d.proposals[o] = "none"
          BY <1>0, <2>0, <4>1, <5>1 DEF TaskAccounted
        <5>2. CASE d.proposals[o] # "none"
          BY <2>0, <4>1, <5>2 DEF TaskAccounted
        <5>3. QED
          BY <5>1, <5>2
      <4>3. QED
        BY <1>0, <4>1, <4>2
    <3>4. tasks'[o] # "none"
      BY <3>2
    <3>5. QED
      BY <3>1, <3>3, <3>4, TaskAccountedNext
  <2>2. CASE o \notin ids
    <3>1. tasks'[o] = tasks[o]
      BY <2>2, TasksAfter
    <3>2. r.proposals[o] = d.proposals[o]
      BY <1>p, <2>2 DEF ResetLeaves
    <3>3. QED
      BY <1>0, <1>1, <2>0, <3>1, <3>2, TaskUnchanged
  <2>3. QED
    BY <2>1, <2>2
<1>3. ASSUME NEW i \in Imports PROVE ImportAccounted(r, i)'
  <2>1. ImportAccounted(d, i)
    BY AccountedHalves
  <2>2. ImportAccounted(r, i)
    BY <1>p, <1>1, <2>1, ImportUnchanged DEF ResetLeaves
  <2>3. QED
    BY <2>2, ImportIsConstant
<1>4. QED
  BY <1>2, <1>3, AccountedHalvesNext

LEMMA GoodResult ==
  ASSUME NEW c \in Commands, NEW ids, NEW d, Good(d), Typed, Chosen(c, ids), Ends(c, ids), setting' = setting,
         ~ Refused(c, ids, d), NEW r, r = Result(c, ids, d)
  PROVE  Good(r)'
<1>1. d \in Documents /\ d.approved = View(d.proposals) /\ Listed(d) /\ Accounted(d)
  BY DEF Good
<1>2. r \in Documents
  BY <1>1, ResultTyped
<1>3. r.approved = View(r.proposals)
  BY <1>1, ViewResult
<1>4. Listed(r)'
  BY <1>1, ListedResult
<1>5. Accounted(r)'
  <2>1. CASE c.kind = "inspect"
    BY <1>1, <2>1, AccountedInspect
  <2>2. CASE c.kind = "transition"
    BY <1>1, <2>2, AccountedTransition
  <2>3. CASE c.kind = "import"
    BY <1>1, <2>3, AccountedImport
  <2>4. CASE c.kind = "rollback"
    BY <1>1, <2>4, AccountedRollback
  <2>5. CASE c.kind = "review"
    BY <1>1, <2>5, AccountedReview
  <2>6. CASE c.kind = "reset"
    BY <1>1, <2>6, AccountedReset
  <2>7. QED
    BY <2>1, <2>2, <2>3, <2>4, <2>5, <2>6, CommandKinds
<1>6. QED
  <2>1. Good(r)' <=> r \in Documents /\ r.approved = View(r.proposals) /\ Listed(r)' /\ Accounted(r)'
    BY DEF Good
  <2>2. QED
    BY <1>2, <1>3, <1>4, <1>5, <2>1

\* What a command computes does not depend on anything but the setting.
LEMMA ComputedSame ==
  ASSUME NEW c \in Commands, NEW ids, NEW d, setting' = setting
  PROVE  New(c, ids, d)' = New(c, ids, d) /\ Refused(c, ids, d)' = Refused(c, ids, d)
<1>1. \A s, operations : OfScope(operations, s)' = OfScope(operations, s)
  BY DEF OfScope, Committed, ScopeOf
<1>2. \A s, operations : Latest(operations, s)' = Latest(operations, s)
  BY <1>1 DEF Latest
<1>3. CASE c.kind = "inspect"
  <2>1. Inspected(c, d)' = Inspected(c, d)
    BY DEF Inspected, Appended, Committed, ScopeOf, RefOf
  <2>2. QED
    BY <1>3, <2>1 DEF New, Refused, Known, Committed
<1>4. CASE c.kind = "transition"
  BY <1>4 DEF New, Refused, Moved, Source, View
<1>5. CASE c.kind = "import"
  BY <1>5 DEF New, Refused, Imported, View
<1>6. CASE c.kind = "rollback"
  BY <1>6 DEF New, Refused, RolledBack, View
<1>7. CASE c.kind = "review"
  <2>1. Reviewed(c, d)' = Reviewed(c, d)
    BY <1>2 DEF Reviewed
  <2>2. QED
    BY <1>1, <1>7, <2>1 DEF New, Refused
<1>8. CASE c.kind = "reset"
  BY <1>8 DEF New, Refused, Reset, View, HoldsProtected
<1>9. QED
  BY <1>3, <1>4, <1>5, <1>6, <1>7, <1>8, CommandKinds

\* Nothing but the tasks and the kills stands between good documents and good ones.
Aged ==
    /\ setting' = setting /\ deaths \in Nat /\ deaths' \in Nat /\ deaths' >= deaths
    /\ \A o \in Ops : tasks'[o] = tasks[o] \/ (tasks[o] = "none" /\ tasks'[o] = "CREATED")

LEMMA GoodStays ==
  ASSUME NEW d, Good(d), Aged
  PROVE  Good(d)'
<1>0. /\ setting' = setting /\ deaths \in Nat /\ deaths' \in Nat /\ deaths' >= deaths
      /\ \A o \in Ops : tasks'[o] = tasks[o] \/ (tasks[o] = "none" /\ tasks'[o] = "CREATED")
  BY DEF Aged
<1>1. d \in Documents /\ d.approved = View(d.proposals) /\ Listed(d) /\ Accounted(d)
  BY DEF Good
<1>2. Listed(d)'
  <2>1. \A o \in Ops : Newer(d, o)' = Newer(d, o)
    BY <1>0, NewerSame
  <2>2. QED
    BY <1>0, <1>1, <2>1 DEF Listed, Committed
<1>3. Accounted(d)'
  <2>1. ASSUME NEW o \in Ops PROVE TaskAccounted(d, o)'
    <3>1. TaskAccounted(d, o)
      BY <1>1, AccountedHalves
    <3>2. CASE tasks'[o] = tasks[o]
      BY <1>0, <3>1, <3>2, TaskUnchanged
    <3>3. CASE tasks[o] = "none" /\ tasks'[o] = "CREATED"
      <4>1. d.proposals[o] = "none" /\ Moves(d, o) = {}
        BY <3>1, <3>3 DEF TaskAccounted
      <4>2. QED
        BY <1>0, <3>3, <4>1, TaskAccountedNext
    <3>4. QED
      BY <1>0, <3>2, <3>3
  <2>2. ASSUME NEW i \in Imports PROVE ImportAccounted(d, i)'
    BY <1>0, <1>1, AccountedHalves, ImportIsConstant
  <2>3. QED
    BY <1>0, <2>1, <2>2, AccountedHalvesNext
<1>4. QED
  <2>1. Good(d)' <=> d \in Documents /\ d.approved = View(d.proposals) /\ Listed(d)' /\ Accounted(d)'
    BY DEF Good
  <2>2. QED
    BY <1>1, <1>2, <1>3, <2>1

---------------------------------------------------------------------------
(* The sessions, in any order of commands.                                  *)

LEMMA EmptyPart ==
  ASSUME NEW d \in Documents PROVE PartOf(<<>>) /\ DOMAIN <<>> = {}
<1>1. DOMAIN <<>> = {}
  OBVIOUS
<1>2. QED
  BY <1>1 DEF PartOf

LEMMA PutPart ==
  ASSUME NEW d \in Documents, NEW p, PartOf(p) PROVE Put(d, p) \in Documents
<1>1. PICK e \in Documents : \A f \in DOMAIN p : p[f] = e[f]
  BY DEF PartOf
<1>2. QED
  BY <1>1, PutIsDocuments

LEMMA PartWith ==
  ASSUME NEW p, PartOf(p), NEW d \in Documents, NEW f \in Files
  PROVE  PartOf(With(p, f, d[f])) /\ DOMAIN With(p, f, d[f]) = DOMAIN p \cup {f}
<1>1. PICK e \in Documents : \A g \in DOMAIN p : p[g] = e[g]
  BY DEF PartOf
<1> DEFINE q == [g \in {f} |-> d[f]]
           m == Put(e, q)
<1>2. m \in Documents
  <2>1. \A g \in Files : g \in DOMAIN q => q[g] = d[g]
    OBVIOUS
  <2>2. QED
    BY <2>1, PutIsDocuments
<1>3. \A g \in Files : m[g] = IF g = f THEN d[f] ELSE e[g]
  BY DEF Put
<1>4. DOMAIN p \subseteq Files
  BY DEF PartOf
<1> HIDE DEF m
<1>5. QED
  BY <1>1, <1>2, <1>3, <1>4 DEF PartOf, With

\* What a command computes from the documents it has read is a part of documents.
LEMMA NewIsPart ==
  ASSUME NEW c \in Commands, NEW ids, NEW d \in Documents, NEW seen, PartOf(seen), Needed(c) \subseteq DOMAIN seen,
         ~ Refused(c, ids, seen)
  PROVE  /\ PartOf(New(c, ids, seen))
         /\ IsOf(New(c, ids, seen), Written(c))
         /\ c.kind = "inspect" => Foremost(New(c, ids, seen).operations, c.on)
<1> DEFINE e == Put(d, seen)
<1>1. e \in Documents
  BY PutPart
<1>2. \A f \in Needed(c) : seen[f] = e[f]
  BY DEF Put, PartOf
<1> HIDE DEF e
<1>3. New(c, ids, seen) = New(c, ids, e) /\ ~ Refused(c, ids, e)
  BY <1>2, ReadsSuffice
<1>4. PICK r : r = Result(c, ids, e)
  OBVIOUS
<1>5. r \in Documents
  BY <1>1, <1>3, <1>4, ResultTyped
<1>6. IsOf(New(c, ids, e), Written(c))
  BY WrittenIsNew
<1>7. Written(c) \subseteq Files
  BY WritesInOrder DEF InOrder, Written
<1>8. \A f \in Written(c) : New(c, ids, e)[f] = r[f]
  BY <1>1, <1>4, <1>7, ResultFiles
<1>9. PartOf(New(c, ids, e))
  BY <1>5, <1>6, <1>7, <1>8 DEF PartOf, IsOf
<1>10. ASSUME c.kind = "inspect" PROVE Foremost(New(c, ids, e).operations, c.on)
  <2>1. New(c, ids, e).operations = Appended(e.operations, c.on)
    BY <1>10, NewOf DEF Inspected
  <2>2. c.on \in Ops /\ e.operations \in [Ops -> Nat]
    BY <1>1, <1>10, CommandKinds, DocumentsAreFunctions
  <2>3. Foremost(Appended(e.operations, c.on), c.on)
    BY <2>2 DEF Foremost, Appended, Committed
  <2>4. QED
    BY <2>1, <2>3
<1>11. QED
  BY <1>3, <1>6, <1>9, <1>10

\* Only the session s takes a step.
Others(s) ==
    ses' = [t \in Sessions |-> ses'[t]] /\ \A t \in Sessions : t # s => ses'[t] = ses[t]

IsSession(x, pc, cmd, ids, todo, seen, new, before, done) ==
    /\ x = [f \in SessionFields |-> x[f]]
    /\ x.pc = pc /\ x.cmd = cmd /\ x.ids = ids /\ x.todo = todo /\ x.seen = seen /\ x.new = new
    /\ x.before = before /\ x.done = done

LEMMA IdleIs == IsSession(Idle, "idle", Of("none", "none", "none"), {}, <<>>, <<>>, <<>>, <<>>, 0)
  BY DEF Idle, IsSession, SessionFields

LEMMA LeavesIdle ==
  ASSUME NEW s \in Sessions, NEW x, x = ses[s], x = [f \in SessionFields |-> x[f]],
         ses = [t \in Sessions |-> ses[t]], NEW y, y = ses'[s], ses' = [ses EXCEPT ![s] = Idle]
  PROVE  Others(s) /\ y = Idle
  BY DEF Others

LEMMA StartStep ==
  ASSUME NEW s \in Sessions, NEW x, x = ses[s], x = [f \in SessionFields |-> x[f]],
         ses = [t \in Sessions |-> ses[t]], NEW y, y = ses'[s], Start(s)
  PROVE  \E c \in Commands, ids \in SUBSET Ops :
           /\ x.pc = "idle" /\ InTurn /\ (setting.turn => left = {})
           /\ Others(s) /\ IsSession(y, "read", c, ids, Reads(c), <<>>, <<>>, <<>>, 0) /\ Chosen(c, ids)
           /\ c.kind = "review" => UNCHANGED locks
           /\ c.kind # "review" => LockOf(c) \notin locks /\ locks' = locks \cup {LockOf(c)}
<1>1. PICK c \in Commands :
        /\ c.kind = "inspect" => tasks[c.on] = "CREATED"
        /\ IF c.kind = "review" THEN UNCHANGED locks
           ELSE LockOf(c) \notin locks /\ locks' = locks \cup {LockOf(c)}
        /\ ses' = [ses EXCEPT ![s] = [Idle EXCEPT !.pc = "read", !.cmd = c, !.todo = Reads(c),
                        !.ids = {o \in Ops : c.kind = "reset" /\ tasks[o] \in {"CREATED", "COMMITTED"}}]]
  BY DEF Start
<1> DEFINE ids == {o \in Ops : c.kind = "reset" /\ tasks[o] \in {"CREATED", "COMMITTED"}}
<1>2. Others(s) /\ y = [Idle EXCEPT !.pc = "read", !.cmd = c, !.todo = Reads(c), !.ids = ids]
  BY <1>1 DEF Others
<1>4. Chosen(c, ids)
  BY <1>1 DEF Chosen
<1>5. ids \in SUBSET Ops
  OBVIOUS
<1> HIDE DEF ids
<1>3. IsSession(y, "read", c, ids, Reads(c), <<>>, <<>>, <<>>, 0)
  BY <1>2, IdleIs DEF IsSession, SessionFields
<1>6. x.pc = "idle" /\ InTurn /\ (setting.turn => left = {})
  BY DEF Start
<1>7. QED
  BY <1>1, <1>2, <1>3, <1>4, <1>5, <1>6

LEMMA ReadStep ==
  ASSUME NEW s \in Sessions, NEW x, x = ses[s], x = [f \in SessionFields |-> x[f]],
         ses = [t \in Sessions |-> ses[t]], NEW y, y = ses'[s], Read(s)
  PROVE  /\ x.pc = "read" /\ x.todo # <<>> /\ Others(s)
         /\ IsSession(y, "read", x.cmd, x.ids, Tail(x.todo), With(x.seen, Head(x.todo), docs[Head(x.todo)]),
                      x.new, x.before, x.done)
<1>1. /\ x.pc = "read" /\ x.todo # <<>>
      /\ ses' = [ses EXCEPT ![s].seen = With(@, Head(x.todo), docs[Head(x.todo)]), ![s].todo = Tail(@)]
  BY DEF Read
<1> DEFINE seen == With(x.seen, Head(x.todo), docs[Head(x.todo)])
           todo == Tail(x.todo)
<1>2. Others(s) /\ y = [x EXCEPT !.seen = seen, !.todo = todo]
  BY <1>1 DEF Others
<1> HIDE DEF seen, todo
<1>3. IsSession(y, "read", x.cmd, x.ids, todo, seen, x.new, x.before, x.done)
  BY <1>1, <1>2 DEF IsSession, SessionFields
<1>4. QED
  BY <1>1, <1>2, <1>3 DEF seen, todo

LEMMA ComputeStep ==
  ASSUME NEW s \in Sessions, NEW x, x = ses[s], x = [f \in SessionFields |-> x[f]],
         ses = [t \in Sessions |-> ses[t]], NEW y, y = ses'[s], Compute(s)
  PROVE  /\ x.pc = "read" /\ x.todo = <<>> /\ Others(s)
         /\ \/ /\ Refused(x.cmd, x.ids, x.seen) /\ y = Idle
               /\ x.cmd.kind = "review" => UNCHANGED locks
               /\ x.cmd.kind # "review" => locks' = locks \ {LockOf(x.cmd)}
            \/ /\ ~ Refused(x.cmd, x.ids, x.seen)
               /\ IsSession(y, IF x.cmd.kind = "review" THEN "lock" ELSE "stage", x.cmd, x.ids, x.todo, <<>>,
                            New(x.cmd, x.ids, x.seen), x.before, x.done)
               /\ UNCHANGED locks
<1>1. x.pc = "read" /\ x.todo = <<>>
  BY DEF Compute
<1>2. CASE Refused(x.cmd, x.ids, x.seen)
  <2>1. /\ ses' = [ses EXCEPT ![s] = Idle]
        /\ x.cmd.kind = "review" => UNCHANGED locks
        /\ x.cmd.kind # "review" => locks' = locks \ {LockOf(x.cmd)}
    BY <1>2 DEF Compute, Leave
  <2>2. QED
    BY <1>1, <1>2, <2>1, LeavesIdle
<1>3. CASE ~ Refused(x.cmd, x.ids, x.seen)
  <2> DEFINE pc == IF x.cmd.kind = "review" THEN "lock" ELSE "stage"
             new == New(x.cmd, x.ids, x.seen)
  <2>1. ses' = [ses EXCEPT ![s].pc = pc, ![s].new = new, ![s].seen = <<>>] /\ UNCHANGED locks
    BY <1>3 DEF Compute
  <2> HIDE DEF pc, new
  <2>2. Others(s) /\ y = [x EXCEPT !.pc = pc, !.new = new, !.seen = <<>>]
    BY <2>1 DEF Others
  <2>3. IsSession(y, pc, x.cmd, x.ids, x.todo, <<>>, new, x.before, x.done)
    BY <2>2 DEF IsSession, SessionFields
  <2>4. QED
    BY <1>1, <1>3, <2>1, <2>2, <2>3 DEF pc, new
<1>4. QED
  BY <1>2, <1>3

LEMMA LockReviewStep ==
  ASSUME NEW s \in Sessions, NEW x, x = ses[s], x = [f \in SessionFields |-> x[f]],
         ses = [t \in Sessions |-> ses[t]], NEW y, y = ses'[s], LockReview(s)
  PROVE  /\ x.pc = "lock" /\ Others(s)
         /\ \/ y = Idle /\ UNCHANGED locks
            \/ /\ IsSession(y, "stage", x.cmd, x.ids, x.todo, x.seen, x.new, x.before, 0)
               /\ locks' = locks \cup {"review"}
<1>1. x.pc = "lock"
  BY DEF LockReview
<1>2. CASE "review" \in locks
  BY <1>1, <1>2, LeavesIdle DEF LockReview
<1>3. CASE "review" \notin locks
  <2>1. ses' = [ses EXCEPT ![s].pc = "stage", ![s].done = 0] /\ locks' = locks \cup {"review"}
    BY <1>3 DEF LockReview, Go
  <2>2. Others(s) /\ y = [x EXCEPT !.pc = "stage", !.done = 0]
    BY <2>1 DEF Others
  <2>3. IsSession(y, "stage", x.cmd, x.ids, x.todo, x.seen, x.new, x.before, 0)
    BY <2>2 DEF IsSession, SessionFields
  <2>4. QED
    BY <1>1, <2>1, <2>2, <2>3
<1>4. QED
  BY <1>2, <1>3

LEMMA StageStep ==
  ASSUME NEW s \in Sessions, NEW x, x = ses[s], x = [f \in SessionFields |-> x[f]],
         ses = [t \in Sessions |-> ses[t]], NEW y, y = ses'[s], Stage(s)
  PROVE  /\ x.pc = "stage" /\ Others(s)
         /\ LET f == Writes(x.cmd)[x.done + 1]
            IN  \/ /\ x.done + 1 = Len(Writes(x.cmd))
                   /\ IsSession(y, "commit", x.cmd, x.ids, x.todo, x.seen, x.new, With(x.before, f, docs[f]), 0)
                \/ /\ x.done + 1 # Len(Writes(x.cmd))
                   /\ IsSession(y, "stage", x.cmd, x.ids, x.todo, x.seen, x.new, With(x.before, f, docs[f]), x.done + 1)
<1> DEFINE f == Writes(x.cmd)[x.done + 1]
           last == x.done + 1 = Len(Writes(x.cmd))
           before == With(x.before, f, docs[f])
<1>1. /\ x.pc = "stage"
      /\ ses' = [ses EXCEPT ![s].before = With(@, f, docs[f]), ![s].done = IF last THEN 0 ELSE @ + 1,
                            ![s].pc = IF last THEN "commit" ELSE "stage"]
  BY DEF Stage, Target, LastTarget
<1> HIDE DEF f, last
<1>2. Others(s) /\ y = [x EXCEPT !.before = before, !.done = IF last THEN 0 ELSE @ + 1,
                                 !.pc = IF last THEN "commit" ELSE "stage"]
  BY <1>1 DEF Others
<1> HIDE DEF before
<1>3. CASE last
  <2>1. IsSession(y, "commit", x.cmd, x.ids, x.todo, x.seen, x.new, before, 0)
    BY <1>2, <1>3 DEF IsSession, SessionFields
  <2>2. QED
    BY <1>1, <1>2, <1>3, <2>1 DEF f, last, before
<1>4. CASE ~ last
  <2>1. IsSession(y, "stage", x.cmd, x.ids, x.todo, x.seen, x.new, before, x.done + 1)
    BY <1>2, <1>4 DEF IsSession, SessionFields
  <2>2. QED
    BY <1>1, <1>2, <1>4, <2>1 DEF f, last, before
<1>5. QED
  BY <1>3, <1>4

LEMMA CommitStep ==
  ASSUME NEW s \in Sessions, NEW x, x = ses[s], x = [f \in SessionFields |-> x[f]],
         ses = [t \in Sessions |-> ses[t]], NEW y, y = ses'[s], Commit(s)
  PROVE  /\ x.pc = "commit" /\ Others(s)
         /\ LET f == Writes(x.cmd)[x.done + 1]
            IN  \/ /\ docs[f] # x.before[f] /\ UNCHANGED docs
                   /\ IsSession(y, "undo", x.cmd, x.ids, x.todo, x.seen, x.new, x.before, x.done)
                \/ /\ docs[f] = x.before[f] /\ docs' = [docs EXCEPT ![f] = x.new[f]]
                   /\ IsSession(y, IF x.done + 1 = Len(Writes(x.cmd)) THEN "close" ELSE "commit",
                                x.cmd, x.ids, x.todo, x.seen, x.new, x.before, x.done + 1)
<1> DEFINE f == Writes(x.cmd)[x.done + 1]
           pc == IF x.done + 1 = Len(Writes(x.cmd)) THEN "close" ELSE "commit"
<1>1. /\ x.pc = "commit"
      /\ IF docs[f] # x.before[f]
         THEN ses' = [ses EXCEPT ![s].pc = "undo"] /\ UNCHANGED docs
         ELSE /\ docs' = [docs EXCEPT ![f] = x.new[f]]
              /\ ses' = [ses EXCEPT ![s].done = @ + 1, ![s].pc = pc]
  BY DEF Commit, Target, LastTarget
<1> HIDE DEF f, pc
<1>2. CASE docs[f] # x.before[f]
  <2>1. Others(s) /\ y = [x EXCEPT !.pc = "undo"]
    BY <1>1, <1>2 DEF Others
  <2>2. IsSession(y, "undo", x.cmd, x.ids, x.todo, x.seen, x.new, x.before, x.done)
    BY <2>1 DEF IsSession, SessionFields
  <2>3. QED
    BY <1>1, <1>2, <2>1, <2>2 DEF f
<1>3. CASE ~ (docs[f] # x.before[f])
  <2>1. Others(s) /\ y = [x EXCEPT !.done = @ + 1, !.pc = pc]
    BY <1>1, <1>3 DEF Others
  <2>2. IsSession(y, pc, x.cmd, x.ids, x.todo, x.seen, x.new, x.before, x.done + 1)
    BY <2>1 DEF IsSession, SessionFields
  <2>3. QED
    BY <1>1, <1>3, <2>1, <2>2 DEF f, pc
<1>4. QED
  BY <1>2, <1>3

LEMMA FirstIndex == ASSUME NEW n \in 1 .. 5 PROVE 0 \in 0 .. n - 1
  OBVIOUS

LEMMA IdlePlaced == ASSUME NEW d \in Documents PROVE Placed(Idle)
<1>1. PartOf(<<>>)
  BY EmptyPart
<1>2. IsSession(Idle, "idle", Of("none", "none", "none"), {}, <<>>, <<>>, <<>>, <<>>, 0)
  BY IdleIs
<1>3. QED
  BY <1>1, <1>2 DEF Placed, IsSession

\* The commands read files.
Named(w) == w \in Seq(Files)

LEMMA FilesNamed ==
  /\ Named(<<"proposals", "challenges", "operations">>) /\ Named(<<"proposals", "lexicon", "transitions">>)
  /\ Named(<<"proposals", "lexicon", "imports">>) /\ Named(<<"lexicon", "imports", "rollbacks", "proposals">>)
  /\ Named(<<"operations", "reviews">>) /\ Named(<<"proposals", "challenges", "operations", "reviews">>)
  BY DEF Named, Files

LEMMA ReadsAreFiles == ASSUME NEW c \in Commands PROVE Reads(c) \in Seq(Files)
<1>1. /\ c.kind = "inspect" => Reads(c) = <<"proposals", "challenges", "operations">>
      /\ c.kind = "transition" => Reads(c) = <<"proposals", "lexicon", "transitions">>
      /\ c.kind = "import" => Reads(c) = <<"proposals", "lexicon", "imports">>
      /\ c.kind = "rollback" => Reads(c) = <<"lexicon", "imports", "rollbacks", "proposals">>
      /\ c.kind = "review" => Reads(c) = <<"operations", "reviews">>
      /\ c.kind = "reset" => Reads(c) = <<"proposals", "challenges", "operations", "reviews">>
  BY DEF Reads
<1>2. Named(Reads(c))
  <2>1. CASE c.kind = "inspect"
    BY <1>1, <2>1, FilesNamed
  <2>2. CASE c.kind = "transition"
    BY <1>1, <2>2, FilesNamed
  <2>3. CASE c.kind = "import"
    BY <1>1, <2>3, FilesNamed
  <2>4. CASE c.kind = "rollback"
    BY <1>1, <2>4, FilesNamed
  <2>5. CASE c.kind = "review"
    BY <1>1, <2>5, FilesNamed
  <2>6. CASE c.kind = "reset"
    BY <1>1, <2>6, FilesNamed
  <2>7. QED
    BY <2>1, <2>2, <2>3, <2>4, <2>5, <2>6, CommandKinds
<1>3. QED
  BY <1>2 DEF Named

LEMMA PlacedStart ==
  ASSUME NEW d \in Documents, NEW c \in Commands, NEW ids \in SUBSET Ops, NEW y,
         IsSession(y, "read", c, ids, Reads(c), <<>>, <<>>, <<>>, 0)
  PROVE  Placed(y)
<1>1. PartOf(<<>>)
  BY EmptyPart
<1>2. Reads(c) \in Seq(Files)
  BY ReadsAreFiles
<1>3. QED
  <2>1. DOMAIN <<>> = {} /\ Rest(Reads(c)) = Needed(c)
    BY EmptyPart DEF Rest, Needed
  <2>2. QED
    BY <1>1, <1>2, <2>1 DEF Placed, IsSession

LEMMA PlacedRead ==
  ASSUME NEW d \in Documents, NEW x, Placed(x), x.pc = "read", x.todo # <<>>, NEW y,
         IsSession(y, "read", x.cmd, x.ids, Tail(x.todo), With(x.seen, Head(x.todo), d[Head(x.todo)]),
                   x.new, x.before, x.done)
  PROVE  Placed(y)
<1>0. /\ x.todo \in Seq(Files) /\ Needed(x.cmd) \subseteq DOMAIN x.seen \cup Rest(x.todo)
      /\ PartOf(x.seen) /\ PartOf(x.new) /\ PartOf(x.before) /\ x.ids \subseteq Ops /\ x.cmd \in Commands
      /\ x.before = <<>> /\ x.done = 0
  BY DEF Placed
<1>1. PICK todo : todo = x.todo
  OBVIOUS
<1>2. Head(todo) \in Files /\ Tail(todo) \in Seq(Files)
  BY <1>0, <1>1
<1>3. \A i \in DOMAIN todo : todo[i] = Head(todo) \/ \E k \in DOMAIN Tail(todo) : todo[i] = Tail(todo)[k]
  <2> SUFFICES ASSUME NEW i \in DOMAIN todo, i # 1 PROVE \E k \in DOMAIN Tail(todo) : todo[i] = Tail(todo)[k]
    BY <1>0, <1>1
  <2>1. todo \in Seq(Files) /\ todo # <<>>
    BY <1>0, <1>1
  <2>2. i \in 2 .. Len(todo)
    BY <2>1
  <2>3. i - 1 \in DOMAIN Tail(todo) /\ Tail(todo)[i - 1] = todo[i]
    BY <2>1, <2>2
  <2>4. QED
    BY <2>3
<1> DEFINE seen == With(x.seen, Head(todo), d[Head(todo)])
<1>4. PartOf(seen) /\ DOMAIN seen = DOMAIN x.seen \cup {Head(todo)}
  BY <1>0, <1>2, PartWith
<1> HIDE DEF seen
<1>5. Needed(x.cmd) \subseteq DOMAIN seen \cup Rest(Tail(todo))
  BY <1>0, <1>1, <1>3, <1>4 DEF Rest
<1>6. IsSession(y, "read", x.cmd, x.ids, Tail(todo), seen, x.new, x.before, x.done)
  BY <1>1 DEF seen
<1>7. /\ y = [f \in SessionFields |-> y[f]] /\ y.pc = "read" /\ y.cmd = x.cmd /\ y.ids = x.ids /\ y.todo = Tail(todo)
      /\ y.seen = seen /\ y.new = x.new /\ y.before = x.before /\ y.done = x.done
  BY <1>6 DEF IsSession
<1>8. Needed(y.cmd) \subseteq DOMAIN y.seen \cup Rest(y.todo) /\ y.todo \in Seq(Files)
  BY <1>2, <1>5, <1>7
<1>9. QED
  BY <1>0, <1>4, <1>7, <1>8 DEF Placed

LEMMA PlacedCompute ==
  ASSUME NEW d \in Documents, NEW x, Placed(x), x.pc = "read", x.todo = <<>>, NEW y, ~ Refused(x.cmd, x.ids, x.seen),
         IsSession(y, IF x.cmd.kind = "review" THEN "lock" ELSE "stage", x.cmd, x.ids, x.todo, <<>>,
                   New(x.cmd, x.ids, x.seen), x.before, x.done)
  PROVE  Placed(y) /\ Needed(x.cmd) \subseteq DOMAIN x.seen
<1>0. /\ Needed(x.cmd) \subseteq DOMAIN x.seen
      /\ PartOf(x.seen) /\ PartOf(x.before) /\ x.ids \subseteq Ops /\ x.cmd \in Commands
      /\ x.before = <<>> /\ x.done = 0 /\ DOMAIN <<>> = {}
  BY EmptyPart DEF Placed, Rest
<1>1. PICK new : new = New(x.cmd, x.ids, x.seen)
  OBVIOUS
<1>2. PartOf(new) /\ IsOf(new, Written(x.cmd)) /\ (x.cmd.kind = "inspect" => Foremost(new.operations, x.cmd.on))
  BY <1>0, <1>1, NewIsPart
<1>3. Len(Writes(x.cmd)) \in 1 .. 5
  BY <1>0, WritesInOrder DEF InOrder
<1>4. First(x.cmd, 0) = {}
  BY DEF First
<1>5. PartOf(<<>>)
  BY EmptyPart
<1>6. CASE x.cmd.kind = "review"
  <2>1. IsSession(y, "lock", x.cmd, x.ids, x.todo, <<>>, new, x.before, x.done)
    BY <1>1, <1>6
  <2>2. QED
    BY <1>0, <1>2, <1>5, <1>6, <2>1 DEF Placed, IsSession
<1>7. CASE x.cmd.kind # "review"
  <2>1. IsSession(y, "stage", x.cmd, x.ids, x.todo, <<>>, new, x.before, x.done)
    BY <1>1, <1>7
  <2>2. /\ y = [f \in SessionFields |-> y[f]] /\ y.pc = "stage" /\ y.cmd = x.cmd /\ y.ids = x.ids
        /\ y.seen = <<>> /\ y.new = new /\ y.before = <<>> /\ y.done = 0
    BY <1>0, <2>1 DEF IsSession
  <2>3. DOMAIN y.before = First(y.cmd, y.done)
    BY <1>0, <1>4, <2>2
  <2>4. y.done \in 0 .. Len(Writes(y.cmd)) - 1
    BY <1>3, <2>2, FirstIndex
  <2>5. QED
    BY <1>0, <1>2, <1>5, <2>2, <2>3, <2>4 DEF Placed
<1>8. QED
  BY <1>6, <1>7

LEMMA PlacedLock ==
  ASSUME NEW x, Placed(x), x.pc = "lock", NEW y,
         IsSession(y, "stage", x.cmd, x.ids, x.todo, x.seen, x.new, x.before, 0)
  PROVE  Placed(y)
<1>0. x.before = <<>> /\ DOMAIN <<>> = {} /\ x.cmd \in Commands /\ PartOf(x.seen) /\ PartOf(x.new) /\ PartOf(x.before)
  BY DEF Placed
<1>1. Len(Writes(x.cmd)) \in 1 .. 5
  BY <1>0, WritesInOrder DEF InOrder
<1>2. First(x.cmd, 0) = {}
  BY DEF First
<1>3. /\ IsOf(x.new, Written(x.cmd)) /\ (x.cmd.kind = "inspect" => Foremost(x.new.operations, x.cmd.on))
      /\ x.ids \subseteq Ops
  BY DEF Placed
<1>4. /\ y = [f \in SessionFields |-> y[f]] /\ y.pc = "stage" /\ y.cmd = x.cmd /\ y.ids = x.ids
      /\ y.seen = x.seen /\ y.new = x.new /\ y.before = <<>> /\ y.done = 0
  BY <1>0 DEF IsSession
<1>5. DOMAIN y.before = First(y.cmd, y.done)
  BY <1>0, <1>2, <1>4
<1>6. y.done \in 0 .. Len(Writes(y.cmd)) - 1
  BY <1>1, <1>4, FirstIndex
<1>7. QED
  BY <1>0, <1>3, <1>4, <1>5, <1>6 DEF Placed

LEMMA PlacedStage ==
  ASSUME NEW d \in Documents, NEW x, Placed(x), x.pc = "stage", NEW y, NEW f, f = Writes(x.cmd)[x.done + 1],
         \/ /\ x.done + 1 = Len(Writes(x.cmd))
            /\ IsSession(y, "commit", x.cmd, x.ids, x.todo, x.seen, x.new, With(x.before, f, d[f]), 0)
         \/ /\ x.done + 1 # Len(Writes(x.cmd))
            /\ IsSession(y, "stage", x.cmd, x.ids, x.todo, x.seen, x.new, With(x.before, f, d[f]), x.done + 1)
  PROVE  Placed(y) /\ f \in Files
<1>0. /\ x.cmd \in Commands /\ PartOf(x.seen) /\ PartOf(x.new) /\ PartOf(x.before) /\ x.ids \subseteq Ops
      /\ IsOf(x.new, Written(x.cmd)) /\ (x.cmd.kind = "inspect" => Foremost(x.new.operations, x.cmd.on))
      /\ x.done \in 0 .. Len(Writes(x.cmd)) - 1
      /\ DOMAIN x.before = First(x.cmd, x.done)
  BY DEF Placed
<1>1. PICK w : w = Writes(x.cmd)
  OBVIOUS
<1>2. /\ w \in Seq(Files) /\ Len(w) \in 1 .. 5 /\ DOMAIN w = 1 .. Len(w) /\ {w[i] : i \in DOMAIN w} = Written(x.cmd)
  BY <1>0, <1>1, WritesInOrder DEF InOrder
<1>3. x.done + 1 \in 1 .. Len(w) /\ f = w[x.done + 1] /\ f \in Files
  BY <1>0, <1>1, <1>2
<1> DEFINE before == With(x.before, f, d[f])
<1>4. PartOf(before) /\ DOMAIN before = DOMAIN x.before \cup {f}
  BY <1>0, <1>3, PartWith
<1> HIDE DEF before
<1>5. DOMAIN before = First(x.cmd, x.done + 1)
  <2>1. 1 .. x.done + 1 = 1 .. x.done \cup {x.done + 1}
    BY <1>0, <1>2
  <2>2. QED
    BY <1>0, <1>1, <1>3, <1>4, <2>1 DEF First
<1>6. CASE x.done + 1 = Len(w)
  <2>1. IsSession(y, "commit", x.cmd, x.ids, x.todo, x.seen, x.new, before, 0)
    BY <1>1, <1>6 DEF before
  <2>2. DOMAIN before = Written(x.cmd)
    BY <1>1, <1>2, <1>5, <1>6 DEF First
  <2>3. /\ y = [g \in SessionFields |-> y[g]] /\ y.pc = "commit" /\ y.cmd = x.cmd /\ y.ids = x.ids
        /\ y.seen = x.seen /\ y.new = x.new /\ y.before = before /\ y.done = 0
    BY <2>1 DEF IsSession
  <2>4. y.done \in 0 .. Len(Writes(y.cmd)) - 1
    BY <1>1, <1>2, <2>3, FirstIndex
  <2>5. Placed(y)
    BY <1>0, <1>4, <2>2, <2>3, <2>4 DEF Placed
  <2>6. QED
    BY <1>3, <2>5
<1>7. CASE x.done + 1 # Len(w)
  <2>1. IsSession(y, "stage", x.cmd, x.ids, x.todo, x.seen, x.new, before, x.done + 1)
    BY <1>1, <1>7 DEF before
  <2>2. x.done + 1 \in 0 .. Len(w) - 1
    BY <1>0, <1>1, <1>2, <1>7
  <2>3. /\ y = [g \in SessionFields |-> y[g]] /\ y.pc = "stage" /\ y.cmd = x.cmd /\ y.ids = x.ids
        /\ y.seen = x.seen /\ y.new = x.new /\ y.before = before /\ y.done = x.done + 1
    BY <2>1 DEF IsSession
  <2>4. y.done \in 0 .. Len(Writes(y.cmd)) - 1
    BY <1>1, <2>2, <2>3
  <2>5. DOMAIN y.before = First(y.cmd, y.done)
    BY <1>1, <1>5, <2>3
  <2>6. Placed(y)
    BY <1>0, <1>4, <2>3, <2>4, <2>5 DEF Placed
  <2>7. QED
    BY <1>3, <2>6
<1>8. QED
  BY <1>6, <1>7

LEMMA PlacedCommit ==
  ASSUME NEW x, Placed(x), x.pc = "commit", NEW y,
         \/ IsSession(y, "undo", x.cmd, x.ids, x.todo, x.seen, x.new, x.before, x.done)
         \/ IsSession(y, IF x.done + 1 = Len(Writes(x.cmd)) THEN "close" ELSE "commit",
                      x.cmd, x.ids, x.todo, x.seen, x.new, x.before, x.done + 1)
  PROVE  Placed(y)
<1>0. /\ x.cmd \in Commands /\ PartOf(x.seen) /\ PartOf(x.new) /\ PartOf(x.before) /\ x.ids \subseteq Ops
      /\ IsOf(x.new, Written(x.cmd)) /\ (x.cmd.kind = "inspect" => Foremost(x.new.operations, x.cmd.on))
      /\ x.done \in 0 .. Len(Writes(x.cmd)) - 1
      /\ DOMAIN x.before = Written(x.cmd)
  BY DEF Placed
<1>1. Len(Writes(x.cmd)) \in 1 .. 5
  BY <1>0, WritesInOrder DEF InOrder
<1>2. CASE IsSession(y, "undo", x.cmd, x.ids, x.todo, x.seen, x.new, x.before, x.done)
  BY <1>0, <1>2 DEF Placed, IsSession
<1>3. CASE IsSession(y, IF x.done + 1 = Len(Writes(x.cmd)) THEN "close" ELSE "commit",
                      x.cmd, x.ids, x.todo, x.seen, x.new, x.before, x.done + 1)
  <2>1. CASE x.done + 1 = Len(Writes(x.cmd))
    <3>1. IsSession(y, "close", x.cmd, x.ids, x.todo, x.seen, x.new, x.before, x.done + 1)
      BY <1>3, <2>1
    <3>2. QED
      BY <1>0, <3>1 DEF Placed, IsSession
  <2>2. CASE x.done + 1 # Len(Writes(x.cmd))
    <3>1. IsSession(y, "commit", x.cmd, x.ids, x.todo, x.seen, x.new, x.before, x.done + 1)
      BY <1>3, <2>2
    <3>2. x.done + 1 \in 0 .. Len(Writes(x.cmd)) - 1
      BY <1>0, <1>1, <2>2
    <3>3. QED
      BY <1>0, <3>1, <3>2 DEF Placed, IsSession
  <2>3. QED
    BY <2>1, <2>2
<1>4. QED
  BY <1>2, <1>3

\* An undo restores parts of the documents.
LEMMA UndoneIs ==
  ASSUME NEW j
  PROVE  \E restored : /\ restored \subseteq DOMAIN j.before
                       /\ Undone(j) = [f \in Files |-> IF f \in restored THEN j.before[f] ELSE docs[f]]
<1> DEFINE restored == {j.writes[i] : i \in {k \in DOMAIN j.writes :
                        /\ j.writes[k] \in DOMAIN j.before
                        /\ k <= j.done \/ (j.writes[k] = "approved" /\ docs.approved = j.new.approved)
                        /\ \A h \in k .. Len(j.writes) : ~Changed(j, h)}}
<1>1. restored \subseteq DOMAIN j.before
  OBVIOUS
<1>2. Undone(j) = [f \in Files |-> IF f \in restored THEN j.before[f] ELSE docs[f]]
  BY DEF Undone
<1> HIDE DEF restored
<1>3. QED
  BY <1>1, <1>2

LEMMA UndoneIsDocuments ==
  ASSUME docs \in Documents, NEW j, PartOf(j.before)
  PROVE  Undone(j) \in Documents
<1>1. PICK restored : /\ restored \subseteq DOMAIN j.before
                      /\ Undone(j) = [f \in Files |-> IF f \in restored THEN j.before[f] ELSE docs[f]]
  BY UndoneIs
<1>2. PICK e \in Documents : \A f \in DOMAIN j.before : j.before[f] = e[f]
  BY DEF PartOf
<1> DEFINE p == [f \in restored |-> j.before[f]]
<1>3. \A f \in Files : f \in DOMAIN p => p[f] = e[f]
  BY <1>1, <1>2
<1>4. Put(docs, p) \in Documents
  BY <1>2, <1>3, PutIsDocuments
<1>5. Put(docs, p) = Undone(j)
  BY <1>1 DEF Put
<1>6. QED
  BY <1>4, <1>5

LEMMA CommittedIsDocuments ==
  ASSUME NEW d \in Documents, NEW new, PartOf(new), NEW f \in DOMAIN new
  PROVE  [d EXCEPT ![f] = new[f]] \in Documents /\ f \in Files
<1>1. PICK e \in Documents : \A g \in DOMAIN new : new[g] = e[g]
  BY DEF PartOf
<1>2. f \in Files
  BY DEF PartOf
<1> DEFINE p == [g \in {f} |-> new[f]]
<1>3. \A g \in Files : g \in DOMAIN p => p[g] = e[g]
  BY <1>1
<1>4. Put(d, p) \in Documents
  BY <1>1, <1>3, PutIsDocuments
<1>5. d = [g \in Files |-> d[g]]
  BY DocumentsAreFunctions
<1>6. Put(d, p) = [d EXCEPT ![f] = new[f]]
  BY <1>2, <1>5 DEF Put
<1>7. QED
  BY <1>2, <1>4, <1>6

LEMMA JournalKept ==
  ASSUME NEW s \in Sessions, NEW x, x = ses[s], Placed(x), x.pc \in {"stage", "commit", "undo"}
  PROVE  Kept(JournalOf(s)) /\ PartOf(JournalOf(s).before)
<1>0. /\ x.cmd \in Commands /\ PartOf(x.before) /\ IsOf(x.new, Written(x.cmd))
      /\ x.done \in 0 .. Len(Writes(x.cmd)) - 1
  BY DEF Placed
<1>1. PICK j : j = JournalOf(s)
  OBVIOUS
<1>2. /\ j.writes = Writes(x.cmd) /\ j.new = x.new /\ j.before = x.before
      /\ j.done = IF x.pc = "stage" THEN 0 ELSE x.done
  BY <1>1 DEF JournalOf
<1>3. Len(Writes(x.cmd)) \in 1 .. 5 /\ DOMAIN Writes(x.cmd) = 1 .. Len(Writes(x.cmd))
  BY <1>0, WritesInOrder DEF InOrder
<1>4. j.done \in 0 .. Len(Writes(x.cmd)) - 1
  BY <1>0, <1>2, <1>3, FirstIndex
<1>5. DOMAIN x.before \subseteq Written(x.cmd)
  <2>1. CASE x.pc = "stage"
    <3>1. DOMAIN x.before = First(x.cmd, x.done)
      BY <2>1 DEF Placed
    <3>2. 1 .. x.done \subseteq DOMAIN Writes(x.cmd)
      BY <1>0, <1>3
    <3>3. QED
      BY <3>1, <3>2 DEF First, Written
  <2>2. CASE x.pc # "stage"
    BY <2>2 DEF Placed
  <2>3. QED
    BY <2>1, <2>2
<1>6. DOMAIN x.new = Written(x.cmd)
  BY <1>0 DEF IsOf
<1>7. QED
  BY <1>0, <1>1, <1>2, <1>4, <1>5, <1>6 DEF Kept

LEMMA PlacedSessions ==
  ASSUME PlacedInv, NEW s \in Sessions, NEW y, y = ses'[s], Others(s), Placed(y)
  PROVE  ses' = [t \in Sessions |-> ses'[t]] /\ \A t \in Sessions : Placed(ses'[t])
  BY DEF PlacedInv, Others

LEMMA LockNames == ASSUME NEW c \in Commands PROVE LockOf(c) \in {"inspect", "transition", "lexicon", "review", "reset"}
  BY CommandKinds DEF LockOf

LEMMA PlacedInit == Init => PlacedInv
<1> SUFFICES ASSUME Init PROVE PlacedInv
  OBVIOUS
<1>1. setting \in Settings /\ setting.commands \in Nat /\ setting.deaths \in Nat
  BY DEF Init
<1>2. Bounded
  BY <1>1 DEF Init, Bounded
<1>3. docs \in Documents
  <2>1. docs = [f \in Files |-> docs[f]]
    BY DEF Init, Files
  <2>2. /\ docs.proposals \in [Ops -> States] /\ docs.challenges \in [Ops -> {"none", "OPEN", "SUPERSEDED"}]
        /\ docs.operations \in [Ops -> Nat]
    BY DEF Init, States
  <2>3. /\ docs.lexicon \in [Imports -> States]
        /\ docs.imports \in [Imports -> {"none", "COMMITTED", "ROLLED_BACK"}]
        /\ docs.rollbacks \in SUBSET Imports
    BY DEF Init, States
  <2>4. /\ docs.transitions \in SUBSET (Records \X Allowed)
        /\ docs.approved \in SUBSET Records /\ docs.reviews \in [Ops -> Decisions \cup {"PENDING"}]
    BY DEF Init
  <2>5. QED
    BY <2>1, <2>2, <2>3, <2>4, FunctionsAreDocuments
<1>4. \A s \in Sessions : Placed(ses[s])
  BY <1>3, IdlePlaced DEF Init
<1>5. QED
  BY <1>2, <1>3, <1>4 DEF Init, PlacedInv

LEMMA PlacedNext == PlacedInv /\ [Next]_vars => PlacedInv'
<1> SUFFICES ASSUME PlacedInv, [Next]_vars PROVE PlacedInv'
  OBVIOUS
<1>0. /\ Bounded /\ docs \in Documents /\ ses = [s \in Sessions |-> ses[s]]
      /\ (\A s \in Sessions : Placed(ses[s])) /\ \A j \in left : Kept(j)
  BY DEF PlacedInv
<1>b. /\ setting.commands \in Nat /\ setting.deaths \in Nat
      /\ commands \in 0 .. setting.commands /\ deaths \in 0 .. setting.deaths
  BY <1>0 DEF Bounded
<1>l. \A s \in Sessions : ses[s].pc # "idle" => ses[s].cmd \in Commands
  BY <1>0 DEF Placed
<1>p. \A j \in left : PartOf(j.before)
  BY <1>0 DEF Kept
<1>1. ASSUME NEW s \in Sessions, Start(s) PROVE PlacedInv'
  <2>1. PICK x, y : x = ses[s] /\ y = ses'[s]
    OBVIOUS
  <2>x. x = [f \in SessionFields |-> x[f]]
    BY <1>0, <2>1 DEF Placed
  <2>2. PICK c \in Commands, ids \in SUBSET Ops :
           /\ Others(s) /\ IsSession(y, "read", c, ids, Reads(c), <<>>, <<>>, <<>>, 0)
           /\ c.kind = "review" => UNCHANGED locks
           /\ c.kind # "review" => locks' = locks \cup {LockOf(c)}
    BY <1>0, <1>1, <2>1, <2>x, StartStep
  <2>3. Placed(y)
    BY <1>0, <2>2, PlacedStart
  <2>4. commands' \in 0 .. setting.commands
    BY <1>b, <1>1 DEF Start
  <2>5. locks' \subseteq {"inspect", "transition", "lexicon", "review", "reset"}
    BY <1>0, <2>2, LockNames DEF Bounded
  <2>6. UNCHANGED <<setting, docs, tasks, left, deaths>>
    BY <1>1 DEF Start
  <2>7. ses' = [t \in Sessions |-> ses'[t]] /\ \A t \in Sessions : Placed(ses'[t])
    BY <2>1, <2>2, <2>3, PlacedSessions
  <2>8. Bounded'
    BY <1>0, <2>4, <2>5, <2>6 DEF Bounded
  <2>9. QED
    BY <1>0, <2>6, <2>7, <2>8 DEF PlacedInv
<1>2. ASSUME NEW s \in Sessions, Read(s) \/ Compute(s) \/ LockReview(s) \/ Stage(s) PROVE PlacedInv'
  <2>1. PICK x, y : x = ses[s] /\ y = ses'[s]
    OBVIOUS
  <2>x. x = [f \in SessionFields |-> x[f]] /\ Placed(x)
    BY <1>0, <2>1 DEF Placed
  <2>p. PICK d \in Documents : d = docs
    BY <1>0
  <2>2. CASE Read(s)
    <3>1. /\ x.pc = "read" /\ x.todo # <<>> /\ Others(s)
          /\ IsSession(y, "read", x.cmd, x.ids, Tail(x.todo), With(x.seen, Head(x.todo), d[Head(x.todo)]),
                       x.new, x.before, x.done)
      BY <1>0, <2>1, <2>x, <2>p, <2>2, ReadStep
    <3>2. Placed(y)
      BY <2>x, <3>1, PlacedRead
    <3>3. UNCHANGED <<setting, docs, tasks, locks, left, commands, deaths>>
      BY <2>2 DEF Read
    <3>4. ses' = [t \in Sessions |-> ses'[t]] /\ \A t \in Sessions : Placed(ses'[t])
      BY <2>1, <3>1, <3>2, PlacedSessions
    <3>5. QED
      BY <1>0, <3>3, <3>4 DEF PlacedInv, Bounded
  <2>3. CASE Compute(s)
    <3>1. /\ x.pc = "read" /\ x.todo = <<>> /\ Others(s) /\ locks' \subseteq locks
          /\ \/ y = Idle
             \/ /\ ~ Refused(x.cmd, x.ids, x.seen)
                /\ IsSession(y, IF x.cmd.kind = "review" THEN "lock" ELSE "stage", x.cmd, x.ids, x.todo, <<>>,
                             New(x.cmd, x.ids, x.seen), x.before, x.done)
      BY <1>0, <2>1, <2>x, <2>3, ComputeStep
    <3>2. Placed(y)
      BY <2>x, <3>1, <2>p, IdlePlaced, PlacedCompute
    <3>3. UNCHANGED <<setting, docs, tasks, left, commands, deaths>>
      BY <2>3 DEF Compute
    <3>4. ses' = [t \in Sessions |-> ses'[t]] /\ \A t \in Sessions : Placed(ses'[t])
      BY <2>1, <3>1, <3>2, PlacedSessions
    <3>5. QED
      BY <1>0, <3>1, <3>3, <3>4 DEF PlacedInv, Bounded
  <2>4. CASE LockReview(s)
    <3>1. /\ x.pc = "lock" /\ Others(s) /\ locks' \subseteq locks \cup {"review"}
          /\ \/ y = Idle
             \/ IsSession(y, "stage", x.cmd, x.ids, x.todo, x.seen, x.new, x.before, 0)
      BY <1>0, <2>1, <2>x, <2>4, LockReviewStep
    <3>2. Placed(y)
      BY <2>x, <3>1, <2>p, IdlePlaced, PlacedLock
    <3>3. UNCHANGED <<setting, docs, tasks, left, commands, deaths>>
      BY <2>4 DEF LockReview
    <3>4. ses' = [t \in Sessions |-> ses'[t]] /\ \A t \in Sessions : Placed(ses'[t])
      BY <2>1, <3>1, <3>2, PlacedSessions
    <3>5. locks' \subseteq {"inspect", "transition", "lexicon", "review", "reset"}
      BY <1>0, <3>1 DEF Bounded
    <3>6. QED
      BY <1>0, <3>3, <3>4, <3>5 DEF PlacedInv, Bounded
  <2>5. CASE Stage(s)
    <3>0. PICK f : f = Writes(x.cmd)[x.done + 1]
      OBVIOUS
    <3>1. /\ x.pc = "stage" /\ Others(s)
          /\ \/ /\ x.done + 1 = Len(Writes(x.cmd))
                /\ IsSession(y, "commit", x.cmd, x.ids, x.todo, x.seen, x.new, With(x.before, f, d[f]), 0)
             \/ /\ x.done + 1 # Len(Writes(x.cmd))
                /\ IsSession(y, "stage", x.cmd, x.ids, x.todo, x.seen, x.new, With(x.before, f, d[f]), x.done + 1)
      BY <1>0, <2>1, <2>x, <2>p, <2>5, <3>0, StageStep
    <3>2. Placed(y)
      BY <2>x, <3>0, <3>1, PlacedStage
    <3>3. UNCHANGED <<setting, docs, tasks, locks, left, commands, deaths>>
      BY <2>5 DEF Stage
    <3>4. ses' = [t \in Sessions |-> ses'[t]] /\ \A t \in Sessions : Placed(ses'[t])
      BY <2>1, <3>1, <3>2, PlacedSessions
    <3>5. QED
      BY <1>0, <3>3, <3>4 DEF PlacedInv, Bounded
  <2>6. QED
    BY <1>2, <2>2, <2>3, <2>4, <2>5
<1>3. ASSUME NEW s \in Sessions, Commit(s) PROVE PlacedInv'
  <2>1. PICK x, y : x = ses[s] /\ y = ses'[s]
    OBVIOUS
  <2>x. x = [f \in SessionFields |-> x[f]] /\ Placed(x)
    BY <1>0, <2>1 DEF Placed
  <2>0. PICK f : f = Writes(x.cmd)[x.done + 1]
    OBVIOUS
  <2>2. /\ x.pc = "commit" /\ Others(s)
        /\ UNCHANGED docs \/ docs' = [docs EXCEPT ![f] = x.new[f]]
        /\ \/ IsSession(y, "undo", x.cmd, x.ids, x.todo, x.seen, x.new, x.before, x.done)
           \/ IsSession(y, IF x.done + 1 = Len(Writes(x.cmd)) THEN "close" ELSE "commit",
                        x.cmd, x.ids, x.todo, x.seen, x.new, x.before, x.done + 1)
    BY <1>0, <1>3, <2>1, <2>x, <2>0, CommitStep
  <2>3. Placed(y)
    BY <2>x, <2>2, PlacedCommit
  <2>4. ses' = [t \in Sessions |-> ses'[t]] /\ \A t \in Sessions : Placed(ses'[t])
    BY <2>1, <2>2, <2>3, PlacedSessions
  <2>5. docs' \in Documents
    <3>1. /\ x.cmd \in Commands /\ PartOf(x.new) /\ DOMAIN x.new = Written(x.cmd)
          /\ x.done \in 0 .. Len(Writes(x.cmd)) - 1
      BY <2>x, <2>2 DEF Placed, IsOf
    <3>2. f \in Written(x.cmd)
      <4>1. Len(Writes(x.cmd)) \in 1 .. 5 /\ DOMAIN Writes(x.cmd) = 1 .. Len(Writes(x.cmd))
        BY <3>1, WritesInOrder DEF InOrder
      <4>2. x.done + 1 \in DOMAIN Writes(x.cmd)
        BY <3>1, <4>1
      <4>3. QED
        BY <2>0, <4>2 DEF Written
    <3>3. PICK d \in Documents : d = docs
      BY <1>0
    <3>4. [d EXCEPT ![f] = x.new[f]] \in Documents
      BY <3>1, <3>2, CommittedIsDocuments
    <3>5. QED
      BY <1>0, <2>2, <3>3, <3>4
  <2>6. UNCHANGED <<setting, tasks, locks, left, commands, deaths>>
    BY <1>3 DEF Commit
  <2>7. QED
    BY <1>0, <2>4, <2>5, <2>6 DEF PlacedInv, Bounded
<1>4. ASSUME NEW s \in Sessions, Undo(s) \/ Close(s) \/ Die(s) PROVE PlacedInv'
  <2>1. ses' = [ses EXCEPT ![s] = Idle] /\ locks' \subseteq locks /\ UNCHANGED <<setting, commands>>
    BY <1>4 DEF Undo, Close, Die, Leave
  <2>2. ses' = [t \in Sessions |-> ses'[t]] /\ \A t \in Sessions : Placed(ses'[t])
    BY <1>0, <2>1, IdlePlaced
  <2>3. tasks' \in [Ops -> {"none", "CREATED", "COMMITTED", "removed"}]
    BY <1>0, <1>4 DEF Undo, Close, Die, Bounded
  <2>4. deaths' \in 0 .. setting.deaths
    BY <1>b, <1>4 DEF Undo, Close, Die
  <2>5. ses[s].pc \in {"stage", "commit", "undo"} => Kept(JournalOf(s)) /\ PartOf(JournalOf(s).before)
    <3>1. PICK x : x = ses[s]
      OBVIOUS
    <3>2. QED
      BY <1>0, <3>1, JournalKept
  <2>6. docs' \in Documents
    <3>1. CASE Undo(s)
      <4>1. PICK j : j = JournalOf(s)
        OBVIOUS
      <4>2. Undone(j) \in Documents
        BY <1>0, <2>5, <3>1, <4>1, UndoneIsDocuments DEF Undo
      <4>3. QED
        BY <3>1, <4>1, <4>2 DEF Undo
    <3>2. CASE Close(s) \/ Die(s)
      BY <1>0, <3>2 DEF Close, Die
    <3>3. QED
      BY <1>4, <3>1, <3>2
  <2>7. \A j \in left' : j \in left \/ (ses[s].pc \in {"stage", "commit", "undo"} /\ j = JournalOf(s))
    BY <1>4 DEF Undo, Close, Die
  <2>8. \A j \in left' : Kept(j)
    BY <1>0, <2>5, <2>7
  <2>9. QED
    BY <1>0, <2>1, <2>2, <2>3, <2>4, <2>6, <2>8 DEF PlacedInv, Bounded
<1>5. ASSUME RemoveLock \/ Recover \/ CreateTask PROVE PlacedInv'
  <2>1. UNCHANGED <<setting, ses, commands, deaths>> /\ left' \subseteq left /\ locks' \subseteq locks
    BY <1>5 DEF RemoveLock, Recover, CreateTask
  <2>2. tasks' \in [Ops -> {"none", "CREATED", "COMMITTED", "removed"}]
    BY <1>0, <1>5 DEF RemoveLock, Recover, CreateTask, Bounded
  <2>3. docs' \in Documents
    <3>1. CASE Recover
      <4>1. PICK j \in left : docs' = Undone(j)
        BY <3>1 DEF Recover
      <4>2. QED
        BY <1>0, <1>p, <4>1, UndoneIsDocuments
    <3>2. CASE RemoveLock \/ CreateTask
      BY <1>0, <3>2 DEF RemoveLock, CreateTask
    <3>3. QED
      BY <1>5, <3>1, <3>2
  <2>4. QED
    BY <1>0, <2>1, <2>2, <2>3 DEF PlacedInv, Bounded
<1>6. CASE UNCHANGED vars
  BY <1>0, <1>6 DEF PlacedInv, Bounded, vars
<1>7. QED
  BY <1>1, <1>2, <1>3, <1>4, <1>5, <1>6 DEF Next, Command

LEMMA PlacedAlways == Spec => []PlacedInv
  BY PlacedInit, PlacedNext, PTL DEF Spec

---------------------------------------------------------------------------
(* The steps of a command in turn.                                          *)

LEMMA PutAgreeing ==
  ASSUME NEW d \in Documents, NEW p, \A f \in Files : f \in DOMAIN p => p[f] = d[f]
  PROVE  Put(d, p) = d
<1>1. d = [f \in Files |-> d[f]]
  BY DocumentsAreFunctions
<1>2. QED
  BY <1>1 DEF Put

LEMMA PutFiles ==
  ASSUME NEW d, NEW p PROVE Put(d, p) = [f \in Files |-> Put(d, p)[f]]
<1>1. PICK m : m = Put(d, p)
  OBVIOUS
<1>2. m = [f \in Files |-> m[f]]
  BY <1>1 DEF Put
<1>3. QED
  BY <1>1, <1>2

LEMMA HalfwayFiles ==
  ASSUME NEW b, NEW new, NEW w, NEW n
  PROVE  \A g \in Files : Halfway(b, new, w, n)[g] = IF g \in FirstOf(w, n) THEN new[g] ELSE b[g]
  BY DEF Halfway, Put

LEMMA HalfwayNone ==
  ASSUME NEW d \in Documents, NEW new, NEW w PROVE Halfway(d, new, w, 0) = d
<1>1. FirstOf(w, 0) = {}
  BY DEF FirstOf
<1>2. Put(d, [f \in {} |-> new[f]]) = d
  BY PutAgreeing
<1>3. QED
  BY <1>1, <1>2 DEF Halfway

LEMMA ComputeWriting ==
  ASSUME NEW d, NEW x, Placed(x), x.pc = "read", Reading(d, x), Needed(x.cmd) \subseteq DOMAIN x.seen,
         ~ Refused(x.cmd, x.ids, x.seen), NEW y, y.cmd = x.cmd, y.ids = x.ids, y.before = x.before,
         y.new = New(x.cmd, x.ids, x.seen), y.pc \in {"lock", "stage"}
  PROVE  Writing(d, y, Put(d, y.before))
<1>1. x.cmd \in Commands /\ x.before = <<>> /\ d \in Documents /\ Good(d)
  BY DEF Placed, Reading, Good
<1>2. Put(d, y.before) = d
  <2>1. DOMAIN x.before = {}
    BY <1>1, EmptyPart
  <2>2. QED
    BY <1>1, <2>1, PutAgreeing
<1>3. \A f \in Needed(x.cmd) : x.seen[f] = d[f]
  BY DEF Reading
<1>4. New(x.cmd, x.ids, x.seen) = New(x.cmd, x.ids, d) /\ ~ Refused(x.cmd, x.ids, d)
  BY <1>1, <1>3, ReadsSuffice
<1>5. Commits(y) = 0
  BY DEF Commits
<1>6. d = Halfway(d, y.new, Writes(y.cmd), 0)
  BY <1>1, HalfwayNone
<1>7. QED
  BY <1>1, <1>2, <1>4, <1>5, <1>6 DEF Writing

LEMMA LockWriting ==
  ASSUME NEW d, NEW x, x.pc = "lock", Writing(d, x, Put(d, x.before)), NEW y, y.cmd = x.cmd, y.ids = x.ids,
         y.before = x.before, y.new = x.new, y.pc = "stage"
  PROVE  Writing(d, y, Put(d, y.before)) /\ Good(d)
<1>1. Commits(y) = 0 /\ Commits(x) = 0
  BY DEF Commits
<1>2. Good(Put(d, x.before)) /\ d = Halfway(Put(d, x.before), x.new, Writes(x.cmd), 0)
  BY <1>1 DEF Writing
<1>3. d = Put(d, x.before)
  BY <1>2, HalfwayNone DEF Good
<1>4. QED
  BY <1>1, <1>2, <1>3 DEF Writing

LEMMA NothingWritten ==
  ASSUME NEW d, NEW x, x.pc \in {"lock", "stage"}, Writing(d, x, Put(d, x.before))
  PROVE  d = Put(d, x.before) /\ Good(d)
<1>1. Commits(x) = 0
  BY DEF Commits
<1>2. Good(Put(d, x.before)) /\ d = Halfway(Put(d, x.before), x.new, Writes(x.cmd), 0)
  BY <1>1 DEF Writing
<1>3. d = Put(d, x.before)
  BY <1>2, HalfwayNone DEF Good
<1>4. QED
  BY <1>2, <1>3

LEMMA StageWriting ==
  ASSUME NEW d, NEW x, x.pc = "stage", Writing(d, x, Put(d, x.before)), NEW f,
         NEW y, y.cmd = x.cmd, y.ids = x.ids, y.new = x.new, y.before = With(x.before, f, d[f]),
         y.pc = "stage" \/ (y.pc = "commit" /\ y.done = 0)
  PROVE  Writing(d, y, Put(d, y.before))
<1>1. d = Put(d, x.before) /\ Good(d) /\ d \in Documents
  BY NothingWritten DEF Good
<1>2. \A g \in Files : g \in DOMAIN y.before => y.before[g] = d[g]
  <2>1. \A g \in Files : g \in DOMAIN x.before => x.before[g] = d[g]
    BY <1>1 DEF Put
  <2>2. QED
    BY <2>1 DEF With
<1>3. Put(d, y.before) = d
  BY <1>1, <1>2, PutAgreeing
<1>4. Commits(y) = 0 /\ Commits(x) = 0
  BY DEF Commits
<1>5. Halfway(d, y.new, Writes(y.cmd), 0) = d
  BY <1>1, HalfwayNone
<1>6. ~ Refused(x.cmd, x.ids, d) /\ x.new = New(x.cmd, x.ids, d)
  <2>1. PICK b : b = Put(d, x.before)
    OBVIOUS
  <2>2. ~ Refused(x.cmd, x.ids, b) /\ x.new = New(x.cmd, x.ids, b)
    BY <2>1 DEF Writing
  <2>3. QED
    BY <1>1, <2>1, <2>2
<1>7. QED
  BY <1>1, <1>3, <1>4, <1>5, <1>6 DEF Writing

NextFile(x) == Writes(x.cmd)[x.done + 1]
Replaced(d, x) == [d EXCEPT ![NextFile(x)] = x.new[NextFile(x)]]

\* What stands at a commit, for the files that are written and for all others.
Agrees(d, x, b) ==
    LET w == Writes(x.cmd)
    IN  /\ NextFile(x) \in Written(x.cmd) /\ NextFile(x) \in Files
        /\ d[NextFile(x)] = x.before[NextFile(x)] /\ d[NextFile(x)] = b[NextFile(x)]
        /\ FirstOf(w, x.done + 1) = FirstOf(w, x.done) \cup {NextFile(x)}
        /\ \A g \in Files : /\ b[g] = IF g \in Written(x.cmd) THEN x.before[g] ELSE d[g]
                            /\ d[g] = IF g \in FirstOf(w, x.done) THEN x.new[g] ELSE b[g]

\* In turn nothing else changes a file, so the comparison at the commit succeeds.
LEMMA CommitAgrees ==
  ASSUME NEW d \in Documents, NEW x, Placed(x), x.pc = "commit", NEW b, Writing(d, x, b)
  PROVE  Agrees(d, x, b)
<1>0. /\ x.cmd \in Commands /\ x.done \in 0 .. Len(Writes(x.cmd)) - 1 /\ DOMAIN x.before = Written(x.cmd)
  BY DEF Placed
<1>1. PICK w, f : w = Writes(x.cmd) /\ f = NextFile(x)
  OBVIOUS
<1>2. /\ Len(w) \in 1 .. 5 /\ DOMAIN w = 1 .. Len(w) /\ w \in Seq(Files)
      /\ (\A i, k \in DOMAIN w : w[i] = w[k] => i = k) /\ {w[i] : i \in DOMAIN w} = Written(x.cmd)
  BY <1>0, <1>1, WritesInOrder DEF InOrder
<1>3. x.done \in Nat /\ x.done + 1 \in DOMAIN w /\ f = w[x.done + 1] /\ f \in Written(x.cmd) /\ f \in Files
  BY <1>0, <1>1, <1>2 DEF NextFile
<1>4. b = Put(d, x.before) /\ d = Halfway(b, x.new, w, x.done)
  BY <1>1 DEF Writing, Commits
<1>5. \A g \in Files : b[g] = IF g \in Written(x.cmd) THEN x.before[g] ELSE d[g]
  BY <1>0, <1>4 DEF Put
<1>6. \A g \in Files : d[g] = IF g \in FirstOf(w, x.done) THEN x.new[g] ELSE b[g]
  BY <1>4, HalfwayFiles
<1>7. f \notin FirstOf(w, x.done)
  BY <1>0, <1>1, <1>2, <1>3, SMTT(60) DEF FirstOf
<1>8. d[f] = b[f] /\ d[f] = x.before[f]
  BY <1>3, <1>5, <1>6, <1>7
<1>9. FirstOf(w, x.done + 1) = FirstOf(w, x.done) \cup {f}
  <2>1. 1 .. x.done + 1 = 1 .. x.done \cup {x.done + 1}
    BY <1>3
  <2>2. QED
    BY <1>3, <2>1 DEF FirstOf
<1>10. QED
  BY <1>1, <1>3, <1>5, <1>6, <1>8, <1>9 DEF Agrees

\* The session after the commit of a file.
Advances(x, y) ==
    /\ y.cmd = x.cmd /\ y.ids = x.ids /\ y.new = x.new /\ y.before = x.before /\ y.done = x.done + 1
    /\ y.pc = IF x.done + 1 = Len(Writes(x.cmd)) THEN "close" ELSE "commit"

LEMMA CommitWriting ==
  ASSUME NEW d \in Documents, NEW x, Placed(x), x.pc = "commit", NEW b, Writing(d, x, b),
         NEW y, Advances(x, y)
  PROVE  Writing(Replaced(d, x), y, b)
<1>1. Agrees(d, x, b)
  BY CommitAgrees
<1>2. PICK w, f, e : w = Writes(x.cmd) /\ f = NextFile(x) /\ e = Replaced(d, x)
  OBVIOUS
<1>3. d = [g \in Files |-> d[g]] /\ DOMAIN x.before = Written(x.cmd) /\ f \in Files
  BY <1>1, <1>2, DocumentsAreFunctions DEF Placed, Agrees
<1>4. e = [d EXCEPT ![f] = x.new[f]]
  BY <1>2 DEF Replaced
<1>5. \A g \in Files : e[g] = IF g = f THEN x.new[f] ELSE d[g]
  BY <1>3, <1>4
<1>6. e = [g \in Files |-> e[g]]
  BY <1>3, <1>4
<1>7. Good(b) /\ ~ Refused(x.cmd, x.ids, b) /\ x.new = New(x.cmd, x.ids, b) /\ b = Put(d, x.before)
  BY DEF Writing
<1>8. b = [g \in Files |-> b[g]]
  BY <1>7, PutFiles
<1>9. Put(e, x.before) = b
  <2>1. PICK m : m = Put(e, x.before)
    OBVIOUS
  <2>2. \A g \in Files : m[g] = IF g \in Written(x.cmd) THEN x.before[g] ELSE e[g]
    BY <1>3, <2>1 DEF Put
  <2>3. \A g \in Files : m[g] = b[g]
    BY <1>1, <1>2, <1>5, <2>2 DEF Agrees
  <2>4. m = [g \in Files |-> m[g]]
    BY <2>1, PutFiles
  <2>5. QED
    BY <1>8, <2>1, <2>3, <2>4
<1>10. e = Halfway(b, x.new, w, x.done + 1)
  <2>1. PICK h : h = Halfway(b, x.new, w, x.done + 1)
    OBVIOUS
  <2>2. \A g \in Files : h[g] = IF g \in FirstOf(w, x.done + 1) THEN x.new[g] ELSE b[g]
    BY <2>1, HalfwayFiles
  <2>3. \A g \in Files : h[g] = e[g]
    BY <1>1, <1>2, <1>5, <2>2 DEF Agrees
  <2>4. h = [g \in Files |-> h[g]]
    BY <2>1, PutFiles DEF Halfway
  <2>5. QED
    BY <1>6, <2>1, <2>3, <2>4
<1>11. Commits(y) = x.done + 1
  BY DEF Commits, Advances
<1>12. QED
  BY <1>2, <1>7, <1>9, <1>10, <1>11 DEF Writing, Advances

LEMMA AllWritten ==
  ASSUME NEW d, NEW x, Placed(x), x.pc = "close", NEW b, Writing(d, x, b)
  PROVE  d = Result(x.cmd, x.ids, b)
<1>0. x.cmd \in Commands
  BY DEF Placed
<1>1. PICK w, new : w = Writes(x.cmd) /\ new = New(x.cmd, x.ids, b)
  OBVIOUS
<1>2. DOMAIN w = 1 .. Len(w) /\ {w[i] : i \in DOMAIN w} = Written(x.cmd)
  BY <1>0, <1>1, WritesInOrder DEF InOrder
<1>3. d = Halfway(b, new, w, Len(w))
  BY <1>1 DEF Writing, Commits
<1>4. FirstOf(w, Len(w)) = Written(x.cmd)
  BY <1>2 DEF FirstOf
<1>5. d = Put(b, [f \in Written(x.cmd) |-> new[f]])
  BY <1>3, <1>4 DEF Halfway
<1>6. new = [f \in Written(x.cmd) |-> new[f]]
  BY <1>0, <1>1, WrittenIsNew DEF IsOf
<1>7. QED
  BY <1>1, <1>5, <1>6 DEF Result

\* A recovery takes back all that a killed command has written.
LEMMA AbandonedUndone ==
  ASSUME docs \in Documents, NEW j, Kept(j), NEW b, Abandoned(docs, j, b)
  PROVE  Undone(j) = b /\ Undoable(j)
<1>1. PICK c \in Commands : /\ j.writes = Writes(c) /\ j.done \in 0 .. Len(Writes(c)) - 1
                            /\ DOMAIN j.before \subseteq Written(c)
  BY DEF Kept
<1>2. PICK w, d : w = j.writes /\ d = docs
  OBVIOUS
<1>3. Len(w) \in 1 .. 5 /\ DOMAIN w = 1 .. Len(w) /\ {w[i] : i \in DOMAIN w} = Written(c) /\ j.done \in Nat
  BY <1>1, <1>2, WritesInOrder DEF InOrder
<1>4. b = Put(d, j.before) /\ d = Halfway(b, j.new, w, j.done)
  BY <1>2 DEF Abandoned
<1>5. \A g \in Files : d[g] = IF g \in FirstOf(w, j.done) THEN j.new[g] ELSE b[g]
  BY <1>4, HalfwayFiles
<1>6. \A g \in Files : b[g] = IF g \in DOMAIN j.before THEN j.before[g] ELSE d[g]
  BY <1>4 DEF Put
<1>7. Written(c) \subseteq Files
  BY WritesInOrder DEF InOrder, Written
<1>8. ASSUME NEW i \in 1 .. Len(w) PROVE ~ Changed(j, i)
  <2>1. w[i] \in Files
    BY <1>3, <1>7
  <2>2. i <= j.done => w[i] \in FirstOf(w, j.done)
    BY <1>3 DEF FirstOf
  <2>3. QED
    BY <1>2, <1>5, <2>1, <2>2 DEF Changed
<1>9. Undoable(j)
  BY <1>2, <1>3, <1>8 DEF Undoable
<1>10. ASSUME NEW f \in Files PROVE Undone(j)[f] = b[f]
  <2> DEFINE restored == {j.writes[i] : i \in {k \in DOMAIN j.writes :
                        /\ j.writes[k] \in DOMAIN j.before
                        /\ k <= j.done \/ (j.writes[k] = "approved" /\ docs.approved = j.new.approved)
                        /\ \A h \in k .. Len(j.writes) : ~Changed(j, h)}}
  <2>1. Undone(j)[f] = IF f \in restored THEN j.before[f] ELSE docs[f]
    BY DEF Undone
  <2>2. restored \subseteq DOMAIN j.before
    OBVIOUS
  <2>3. ASSUME f \in DOMAIN j.before, f \in FirstOf(w, j.done) PROVE f \in restored
    <3>1. PICK k \in 1 .. j.done : f = w[k]
      BY <2>3 DEF FirstOf
    <3>2. k \in DOMAIN w /\ k <= j.done
      BY <1>1, <1>2, <1>3
    <3>3. \A h \in k .. Len(w) : ~ Changed(j, h)
      BY <1>3, <1>8
    <3>4. QED
      BY <1>2, <2>3, <3>1, <3>2, <3>3
  <2> HIDE DEF restored
  <2>4. QED
    BY <1>2, <1>5, <1>6, <2>1, <2>2, <2>3
<1>11. b = [f \in Files |-> b[f]]
  BY <1>4, PutFiles
<1>12. PICK m : m = Undone(j)
  OBVIOUS
<1>13. m = [f \in Files |-> m[f]]
  BY <1>12 DEF Undone
<1>14. QED
  BY <1>9, <1>10, <1>11, <1>12, <1>13

---------------------------------------------------------------------------
(* Commands in turn.                                                        *)

\* What a step leaves as it was, as far as the documents are concerned.
Steady == setting' = setting /\ tasks' = tasks /\ deaths' = deaths

LEMMA GoodSteady ==
  ASSUME NEW d, Good(d), Typed, Steady PROVE Good(d)'
<1>1. Aged
  BY DEF Typed, Steady, Aged
<1>2. QED
  BY <1>1, GoodStays

LEMMA WritingSteady ==
  ASSUME NEW d, NEW x, x.cmd \in Commands, NEW b, Writing(d, x, b), Typed, Steady
  PROVE  Writing(d, x, b)'
<1>1. Good(b)'
  BY GoodSteady DEF Writing
<1>2. New(x.cmd, x.ids, b)' = New(x.cmd, x.ids, b) /\ Refused(x.cmd, x.ids, b)' = Refused(x.cmd, x.ids, b)
  BY ComputedSame DEF Steady
<1>3. QED
  BY <1>1, <1>2 DEF Writing

LEMMA UnderwaySteady ==
  ASSUME NEW d, NEW x, x.cmd \in Commands, Underway(d, x), Typed, Steady
  PROVE  Underway(d, x)'
<1>1. Chosen(x.cmd, x.ids)'
  BY DEF Chosen, Underway, Steady
<1>2. CASE x.pc = "read"
  <2>1. Good(d)'
    BY <1>2, GoodSteady DEF Underway, Reading
  <2>2. Reading(d, x)'
    BY <1>2, <2>1 DEF Underway, Reading
  <2>3. QED
    BY <1>1, <1>2, <2>2 DEF Underway
<1>3. CASE x.pc # "read"
  <2>1. PICK b : b = Put(d, x.before)
    OBVIOUS
  <2>2. Writing(d, x, b)'
    BY <1>3, <2>1, WritingSteady DEF Underway
  <2>3. QED
    BY <1>1, <1>3, <2>1, <2>2 DEF Underway
<1>4. QED
  BY <1>2, <1>3

LEMMA AbandonedSteady ==
  ASSUME NEW d, NEW j, NEW b, Abandoned(d, j, b), Typed, Steady
  PROVE  Abandoned(d, j, b)'
<1>1. Good(b)'
  BY GoodSteady DEF Abandoned
<1>2. PICK c \in Commands, ids \in SUBSET Ops :
         /\ ~ Refused(c, ids, b) /\ j.new = New(c, ids, b) /\ j.writes = Writes(c)
         /\ DOMAIN j.before \subseteq Written(c)
  BY DEF Abandoned
<1>3. New(c, ids, b)' = New(c, ids, b) /\ Refused(c, ids, b)' = Refused(c, ids, b)
  BY ComputedSame DEF Steady
<1>4. b = Put(d, j.before) /\ d = Halfway(b, j.new, j.writes, j.done)
  BY DEF Abandoned
<1>5. QED
  BY <1>1, <1>2, <1>3, <1>4 DEF Abandoned

LEMMA PlacedTyped == PlacedInv => Typed
  BY DEF PlacedInv, Bounded, Typed

\* The step of a command that is under way, when every other session is idle.
LEMMA TurnStep ==
  ASSUME PlacedInv, NEW s \in Sessions, NEW y, y = ses'[s], Others(s),
         \A t \in Sessions : t # s => ses[t].pc = "idle", left = {}, left' = {}, Steady,
         NEW e, e = docs', y.pc # "idle" => y.cmd \in Commands /\ Underway(e, y), y.pc = "idle" => Good(e)
  PROVE  TurnInv'
<1>1. \A t \in Sessions : t # s => ses'[t].pc = "idle"
  BY DEF Others
<1>2. y.pc # "idle" => Underway(e, y)'
  BY UnderwaySteady, PlacedTyped
<1>3. y.pc = "idle" => Good(e)'
  BY GoodSteady, PlacedTyped
<1>4. \A t \in Sessions : ses'[t].pc # "idle" => t = s /\ Underway(docs, ses[t])'
  <2>1. ASSUME NEW t \in Sessions, ses'[t].pc # "idle" PROVE Underway(docs, ses[t])'
    <3>1. t = s
      BY <1>1, <2>1
    <3>2. Underway(e, y)'
      BY <1>2, <2>1, <3>1
    <3>3. QED
      BY <3>1, <3>2
  <2>2. QED
    BY <1>1, <2>1
<1>5. (AllIdle /\ left = {})' => Good(docs)'
  <2>1. AllIdle' => y.pc = "idle"
    BY DEF AllIdle
  <2>2. QED
    BY <1>3, <2>1
<1>6. QED
  BY <1>4, <1>5 DEF TurnInv

\* A step after which no session works.
LEMMA TurnRest ==
  ASSUME \A t \in Sessions : ses'[t].pc = "idle",
         \/ left' = {} /\ Good(docs)'
         \/ \E j : left' = {j} /\ Abandoned(docs, j, Put(docs, j.before))'
  PROVE  TurnInv'
<1>1. CASE left' = {} /\ Good(docs)'
  BY <1>1 DEF TurnInv
<1>2. ASSUME NEW j, left' = {j}, Abandoned(docs, j, Put(docs, j.before))' PROVE TurnInv'
  BY <1>2 DEF TurnInv
<1>3. QED
  BY <1>1, <1>2

\* A command in turn is alone, and no killed transaction is left.
Alone(s, d, x) ==
    /\ left = {} /\ Underway(d, x) /\ Placed(x) /\ x.cmd \in Commands /\ d \in Documents
    /\ x = [f \in SessionFields |-> x[f]]
    /\ \A t \in Sessions : t # s => ses[t].pc = "idle"

LEMMA TurnAlone ==
  ASSUME PlacedInv, TurnInv, setting.turn, NEW s \in Sessions, NEW x, x = ses[s], x.pc # "idle",
         NEW d, d = docs
  PROVE  Alone(s, d, x)
<1>1. /\ left = {} /\ Underway(docs, ses[s])
      /\ \A t \in Sessions : t # s => ses[t].pc = "idle"
  BY DEF TurnInv
<1>2. Placed(x) /\ d \in Documents
  BY DEF PlacedInv
<1>3. x.cmd \in Commands /\ x = [f \in SessionFields |-> x[f]]
  BY <1>2 DEF Placed
<1>4. QED
  BY <1>1, <1>2, <1>3 DEF Alone

LEMMA TurnStart ==
  ASSUME PlacedInv, TurnInv, setting.turn, NEW s \in Sessions, Start(s) PROVE TurnInv'
<1>1. PICK x, y, d : x = ses[s] /\ y = ses'[s] /\ d = docs
  OBVIOUS
<1>2. x = [f \in SessionFields |-> x[f]] /\ ses = [t \in Sessions |-> ses[t]] /\ d \in Documents
  BY <1>1 DEF PlacedInv, Placed
<1>3. PICK c \in Commands, ids \in SUBSET Ops :
         /\ x.pc = "idle" /\ InTurn /\ (setting.turn => left = {})
         /\ Others(s) /\ IsSession(y, "read", c, ids, Reads(c), <<>>, <<>>, <<>>, 0) /\ Chosen(c, ids)
  BY <1>1, <1>2, StartStep
<1>4. left = {} /\ \A t \in Sessions : ses[t].pc = "idle"
  BY <1>3 DEF InTurn
<1>5. Good(d)
  BY <1>1, <1>4 DEF TurnInv, AllIdle
<1>6. y.pc = "read" /\ y.cmd = c /\ y.ids = ids /\ y.seen = <<>>
  BY <1>3 DEF IsSession
<1>7. Reading(d, y)
  BY <1>2, <1>5, <1>6, EmptyPart DEF Reading
<1>8. Underway(d, y)
  BY <1>3, <1>6, <1>7 DEF Underway
<1>9. Steady /\ left' = left /\ docs' = docs
  BY DEF Start, Steady
<1>10. QED
  BY <1>1, <1>3, <1>4, <1>6, <1>8, <1>9, TurnStep

LEMMA TurnRead ==
  ASSUME PlacedInv, TurnInv, setting.turn, NEW s \in Sessions, Read(s) PROVE TurnInv'
<1>1. PICK x, y, d : x = ses[s] /\ y = ses'[s] /\ d = docs
  OBVIOUS
<1>2. x.pc = "read" /\ ses = [t \in Sessions |-> ses[t]]
  BY <1>1 DEF PlacedInv, Read
<1>3. Alone(s, d, x)
  BY <1>1, <1>2, TurnAlone
<1>4. PICK f : f = Head(x.todo)
  OBVIOUS
<1>5. /\ Others(s)
      /\ IsSession(y, "read", x.cmd, x.ids, Tail(x.todo), With(x.seen, f, d[f]), x.new, x.before, x.done)
  BY <1>1, <1>2, <1>3, <1>4, ReadStep DEF Alone
<1>6. y.pc = "read" /\ y.cmd = x.cmd /\ y.ids = x.ids /\ y.seen = With(x.seen, f, d[f])
  BY <1>5 DEF IsSession
<1>7. Reading(d, x) /\ Chosen(x.cmd, x.ids)
  BY <1>2, <1>3 DEF Alone, Underway
<1>8. Reading(d, y)
  BY <1>6, <1>7 DEF Reading, With
<1>9. Underway(d, y)
  BY <1>6, <1>7, <1>8 DEF Underway
<1>10. Steady /\ left' = left /\ docs' = docs
  BY DEF Read, Steady
<1>11. QED
  BY <1>1, <1>3, <1>5, <1>6, <1>9, <1>10, TurnStep DEF Alone

LEMMA TurnCompute ==
  ASSUME PlacedInv, TurnInv, setting.turn, NEW s \in Sessions, Compute(s) PROVE TurnInv'
<1>1. PICK x, y, d : x = ses[s] /\ y = ses'[s] /\ d = docs
  OBVIOUS
<1>2. x.pc = "read" /\ ses = [t \in Sessions |-> ses[t]]
  BY <1>1 DEF PlacedInv, Compute
<1>3. Alone(s, d, x)
  BY <1>1, <1>2, TurnAlone
<1>4. /\ x.todo = <<>> /\ Others(s)
      /\ \/ y = Idle
         \/ /\ ~ Refused(x.cmd, x.ids, x.seen)
            /\ IsSession(y, IF x.cmd.kind = "review" THEN "lock" ELSE "stage", x.cmd, x.ids, x.todo, <<>>,
                         New(x.cmd, x.ids, x.seen), x.before, x.done)
  BY <1>1, <1>2, <1>3, ComputeStep DEF Alone
<1>5. Reading(d, x) /\ Chosen(x.cmd, x.ids) /\ Good(d)
  BY <1>2, <1>3 DEF Alone, Underway, Reading
<1>6. Steady /\ left' = left /\ docs' = docs
  BY DEF Compute, Steady
<1>7. CASE y = Idle
  <2>1. y.pc = "idle"
    BY <1>7 DEF Idle
  <2>2. QED
    BY <1>1, <1>3, <1>4, <1>5, <1>6, <2>1, TurnStep DEF Alone
<1>8. CASE y # Idle
  <2>1. /\ ~ Refused(x.cmd, x.ids, x.seen) /\ y.cmd = x.cmd /\ y.ids = x.ids /\ y.before = x.before
        /\ y.new = New(x.cmd, x.ids, x.seen) /\ y.pc \in {"lock", "stage"}
    BY <1>4, <1>8 DEF IsSession
  <2>2. Rest(x.todo) = {}
    BY <1>4 DEF Rest
  <2>3. Placed(x) /\ Needed(x.cmd) \subseteq DOMAIN x.seen
    BY <1>2, <1>3, <2>2 DEF Alone, Placed
  <2>4. Writing(d, y, Put(d, y.before))
    BY <1>2, <1>5, <2>1, <2>2, <2>3, ComputeWriting
  <2>5. Underway(d, y)
    BY <1>5, <2>1, <2>4 DEF Underway
  <2>6. QED
    BY <1>1, <1>3, <1>4, <1>6, <2>1, <2>5, TurnStep DEF Alone
<1>9. QED
  BY <1>7, <1>8

LEMMA TurnLock ==
  ASSUME PlacedInv, TurnInv, setting.turn, NEW s \in Sessions, LockReview(s) PROVE TurnInv'
<1>1. PICK x, y, d : x = ses[s] /\ y = ses'[s] /\ d = docs
  OBVIOUS
<1>2. x.pc = "lock" /\ ses = [t \in Sessions |-> ses[t]]
  BY <1>1 DEF PlacedInv, LockReview
<1>3. Alone(s, d, x)
  BY <1>1, <1>2, TurnAlone
<1>4. /\ Others(s)
      /\ \/ y = Idle
         \/ IsSession(y, "stage", x.cmd, x.ids, x.todo, x.seen, x.new, x.before, 0)
  BY <1>1, <1>2, <1>3, LockReviewStep DEF Alone
<1>5. Writing(d, x, Put(d, x.before)) /\ Chosen(x.cmd, x.ids)
  BY <1>2, <1>3 DEF Alone, Underway
<1>6. Steady /\ left' = left /\ docs' = docs
  BY DEF LockReview, Steady
<1>7. CASE y = Idle
  <2>1. y.pc = "idle"
    BY <1>7 DEF Idle
  <2>2. Good(d)
    BY <1>2, <1>5, NothingWritten
  <2>3. QED
    BY <1>1, <1>3, <1>4, <1>6, <2>1, <2>2, TurnStep DEF Alone
<1>8. CASE y # Idle
  <2>1. /\ y.cmd = x.cmd /\ y.ids = x.ids /\ y.before = x.before
        /\ y.new = x.new /\ y.pc = "stage"
    BY <1>4, <1>8 DEF IsSession
  <2>2. Writing(d, y, Put(d, y.before))
    BY <1>2, <1>5, <2>1, LockWriting
  <2>3. Underway(d, y)
    BY <1>5, <2>1, <2>2 DEF Underway
  <2>4. QED
    BY <1>1, <1>3, <1>4, <1>6, <2>1, <2>3, TurnStep DEF Alone
<1>9. QED
  BY <1>7, <1>8

LEMMA TurnStage ==
  ASSUME PlacedInv, TurnInv, setting.turn, NEW s \in Sessions, Stage(s) PROVE TurnInv'
<1>1. PICK x, y, d : x = ses[s] /\ y = ses'[s] /\ d = docs
  OBVIOUS
<1>2. x.pc = "stage" /\ ses = [t \in Sessions |-> ses[t]]
  BY <1>1 DEF PlacedInv, Stage
<1>3. Alone(s, d, x)
  BY <1>1, <1>2, TurnAlone
<1>4. PICK f : f = Writes(x.cmd)[x.done + 1]
  OBVIOUS
<1>5. /\ Others(s)
      /\ \/ IsSession(y, "commit", x.cmd, x.ids, x.todo, x.seen, x.new, With(x.before, f, d[f]), 0)
         \/ IsSession(y, "stage", x.cmd, x.ids, x.todo, x.seen, x.new, With(x.before, f, d[f]), x.done + 1)
  BY <1>1, <1>2, <1>3, <1>4, StageStep DEF Alone
<1>6. Writing(d, x, Put(d, x.before)) /\ Chosen(x.cmd, x.ids)
  BY <1>2, <1>3 DEF Alone, Underway
<1>7. Steady /\ left' = left /\ docs' = docs
  BY DEF Stage, Steady
<1>8. /\ y.cmd = x.cmd /\ y.ids = x.ids /\ y.before = With(x.before, f, d[f]) /\ y.new = x.new
      /\ y.pc = "stage" \/ (y.pc = "commit" /\ y.done = 0)
  BY <1>5 DEF IsSession
<1>9. Writing(d, y, Put(d, y.before))
  BY <1>2, <1>6, <1>8, StageWriting
<1>10. Underway(d, y)
  BY <1>6, <1>8, <1>9 DEF Underway
<1>11. QED
  BY <1>1, <1>3, <1>5, <1>7, <1>8, <1>10, TurnStep DEF Alone

LEMMA TurnCommit ==
  ASSUME PlacedInv, TurnInv, setting.turn, NEW s \in Sessions, Commit(s) PROVE TurnInv'
<1>1. PICK x, y, d : x = ses[s] /\ y = ses'[s] /\ d = docs
  OBVIOUS
<1>2. x.pc = "commit" /\ ses = [t \in Sessions |-> ses[t]]
  BY <1>1 DEF PlacedInv, Commit
<1>3. Alone(s, d, x)
  BY <1>1, <1>2, TurnAlone
<1>4. PICK e : e = Replaced(d, x)
  OBVIOUS
<1>5. /\ Others(s)
      /\ \/ /\ d[NextFile(x)] # x.before[NextFile(x)]
            /\ IsSession(y, "undo", x.cmd, x.ids, x.todo, x.seen, x.new, x.before, x.done)
         \/ /\ d[NextFile(x)] = x.before[NextFile(x)] /\ docs' = e
            /\ IsSession(y, IF x.done + 1 = Len(Writes(x.cmd)) THEN "close" ELSE "commit",
                         x.cmd, x.ids, x.todo, x.seen, x.new, x.before, x.done + 1)
  <2>1. x = [f \in SessionFields |-> x[f]]
    BY <1>3 DEF Alone
  <2> DEFINE f == Writes(x.cmd)[x.done + 1]
  <2>2. /\ Others(s)
        /\ \/ /\ d[f] # x.before[f]
              /\ IsSession(y, "undo", x.cmd, x.ids, x.todo, x.seen, x.new, x.before, x.done)
           \/ /\ d[f] = x.before[f] /\ docs' = [d EXCEPT ![f] = x.new[f]]
              /\ IsSession(y, IF x.done + 1 = Len(Writes(x.cmd)) THEN "close" ELSE "commit",
                           x.cmd, x.ids, x.todo, x.seen, x.new, x.before, x.done + 1)
    BY <1>1, <1>2, <2>1, CommitStep
  <2>3. NextFile(x) = f /\ e = [d EXCEPT ![f] = x.new[f]]
    BY <1>4 DEF NextFile, Replaced
  <2> HIDE DEF f
  <2>4. QED
    BY <2>2, <2>3
<1>6. PICK b : b = Put(d, x.before)
  OBVIOUS
<1>7. Writing(d, x, b) /\ Chosen(x.cmd, x.ids) /\ Placed(x) /\ d \in Documents
  BY <1>2, <1>3, <1>6 DEF Alone, Underway
<1>8. Agrees(d, x, b)
  BY <1>2, <1>7, CommitAgrees
<1>9. docs' = e /\ Advances(x, y)
  BY <1>5, <1>8 DEF IsSession, Agrees, Advances
<1>10. Writing(e, y, b)
  BY <1>2, <1>4, <1>7, <1>9, CommitWriting
<1>11. b = Put(e, y.before)
  BY <1>10 DEF Writing
<1>12. y.pc \in {"close", "commit"} /\ y.cmd = x.cmd /\ y.ids = x.ids
  BY <1>9 DEF Advances
<1>13. Underway(e, y)
  BY <1>7, <1>10, <1>11, <1>12 DEF Underway
<1>14. Steady /\ left' = left
  BY DEF Commit, Steady
<1>15. QED
  BY <1>1, <1>3, <1>5, <1>9, <1>12, <1>13, <1>14, TurnStep DEF Alone

\* The comparison never fails, so no command in turn takes anything back.
LEMMA TurnUndo ==
  ASSUME PlacedInv, TurnInv, setting.turn, NEW s \in Sessions, Undo(s) PROVE TurnInv'
<1>1. PICK x, d : x = ses[s] /\ d = docs
  OBVIOUS
<1>2. x.pc = "undo"
  BY <1>1 DEF Undo
<1>3. Alone(s, d, x)
  BY <1>1, <1>2, TurnAlone
<1>4. QED
  BY <1>2, <1>3 DEF Alone, Underway

\* A command that ends with all its files written leaves good documents, whether it
\* is killed before it closes its tasks or not.
LEMMA WrittenIsGood ==
  ASSUME NEW d, NEW x, Placed(x), x.pc = "close", Underway(d, x), Typed,
         Ends(x.cmd, x.ids), setting' = setting
  PROVE  Good(d)'
<1>1. PICK b : b = Put(d, x.before)
  OBVIOUS
<1>2. Writing(d, x, b) /\ Chosen(x.cmd, x.ids) /\ x.cmd \in Commands
  BY <1>1 DEF Underway, Placed
<1>3. Good(b) /\ ~ Refused(x.cmd, x.ids, b)
  BY <1>2 DEF Writing
<1>4. d = Result(x.cmd, x.ids, b)
  BY <1>2, AllWritten
<1>5. QED
  BY <1>2, <1>3, <1>4, GoodResult

LEMMA TurnClose ==
  ASSUME PlacedInv, TurnInv, setting.turn, NEW s \in Sessions, Close(s) PROVE TurnInv'
<1>1. PICK x, d : x = ses[s] /\ d = docs
  OBVIOUS
<1>2. x.pc = "close"
  BY <1>1 DEF Close
<1>3. Alone(s, d, x)
  BY <1>1, <1>2, TurnAlone
<1>4. /\ Ends(x.cmd, x.ids) /\ setting' = setting /\ left' = left /\ docs' = docs
      /\ ses' = [ses EXCEPT ![s] = Idle]
  BY <1>1 DEF Close, Leave, Ends
<1>5. Good(d)'
  BY <1>2, <1>3, <1>4, PlacedTyped, WrittenIsGood DEF Alone
<1>6. \A t \in Sessions : ses'[t].pc = "idle"
  BY <1>3, <1>4 DEF Alone, Idle, PlacedInv
<1>7. left' = {} /\ Good(docs)'
  BY <1>1, <1>3, <1>4, <1>5 DEF Alone
<1>8. QED
  BY <1>6, <1>7, TurnRest

\* What a command leaves that is killed after the first step of its transaction.
LEMMA KilledIsAbandoned ==
  ASSUME NEW s \in Sessions, NEW x, x = ses[s], Placed(x), x.pc \in {"stage", "commit"},
         NEW d, NEW b, Writing(d, x, b), NEW j, j = JournalOf(s)
  PROVE  Abandoned(d, j, b)
<1>1. /\ j.writes = Writes(x.cmd) /\ j.new = x.new /\ j.before = x.before
      /\ j.done = IF x.pc = "stage" THEN 0 ELSE x.done
  BY DEF JournalOf
<1>2. Commits(x) = j.done
  BY <1>1 DEF Commits
<1>3. Kept(j)
  BY JournalKept
<1>4. x.cmd \in Commands /\ x.ids \in SUBSET Ops
  BY DEF Placed
<1>5. DOMAIN j.before \subseteq Written(x.cmd)
  BY <1>1, <1>3 DEF Kept, Written
<1>6. /\ Good(b) /\ ~ Refused(x.cmd, x.ids, b) /\ x.new = New(x.cmd, x.ids, b)
      /\ d = Halfway(b, x.new, Writes(x.cmd), Commits(x)) /\ b = Put(d, x.before)
  BY DEF Writing
<1>7. QED
  BY <1>1, <1>2, <1>4, <1>5, <1>6 DEF Abandoned

LEMMA AbandonedAged ==
  ASSUME NEW d, NEW j, NEW b, Abandoned(d, j, b), Aged
  PROVE  Abandoned(d, j, b)'
<1>1. Good(b)'
  BY GoodStays DEF Abandoned
<1>2. PICK c \in Commands, ids \in SUBSET Ops :
         /\ ~ Refused(c, ids, b) /\ j.new = New(c, ids, b) /\ j.writes = Writes(c)
         /\ DOMAIN j.before \subseteq Written(c)
  BY DEF Abandoned
<1>3. New(c, ids, b)' = New(c, ids, b) /\ Refused(c, ids, b)' = Refused(c, ids, b)
  BY ComputedSame DEF Aged
<1>4. b = Put(d, j.before) /\ d = Halfway(b, j.new, j.writes, j.done)
  BY DEF Abandoned
<1>5. QED
  BY <1>1, <1>2, <1>3, <1>4 DEF Abandoned

LEMMA TurnDie ==
  ASSUME PlacedInv, TurnInv, setting.turn, NEW s \in Sessions, Die(s) PROVE TurnInv'
<1>1. PICK x, d : x = ses[s] /\ d = docs
  OBVIOUS
<1>2. x.pc # "idle" /\ ses' = [ses EXCEPT ![s] = Idle] /\ docs' = docs
  BY <1>1 DEF Die
<1>3. Alone(s, d, x)
  BY <1>1, <1>2, TurnAlone
<1>4. \A t \in Sessions : ses'[t].pc = "idle"
  BY <1>2, <1>3 DEF Alone, Idle, PlacedInv
<1>5. Aged
  BY PlacedTyped DEF Typed, Die, Aged
<1>6. CASE x.pc \in {"stage", "commit"}
  <2>1. PICK b, j : b = Put(d, x.before) /\ j = JournalOf(s)
    OBVIOUS
  <2>2. Writing(d, x, b)
    BY <1>3, <1>6, <2>1 DEF Alone, Underway
  <2>p. Placed(x)
    BY <1>3 DEF Alone
  <2>a. Abandoned(d, j, b)
    BY <1>1, <1>6, <2>p, <2>1, <2>2, KilledIsAbandoned
  <2>3. b = Put(d, j.before)
    BY <2>a DEF Abandoned
  <2>4. Abandoned(d, j, b)'
    BY <1>5, <2>a, AbandonedAged
  <2>5. left' = {j}
    BY <1>1, <1>3, <1>6, <2>1 DEF Die, Alone
  <2>6. Abandoned(docs, j, Put(docs, j.before))'
    BY <1>1, <1>2, <2>3, <2>4
  <2>7. QED
    BY <1>4, <2>5, <2>6, TurnRest
<1>7. CASE x.pc \in {"read", "lock", "close"}
  <2>1. Good(d)'
    <3>1. CASE x.pc = "read"
      BY <1>3, <1>5, <3>1, GoodStays DEF Alone, Underway, Reading
    <3>2. CASE x.pc = "lock"
      <4>1. Writing(d, x, Put(d, x.before))
        BY <1>3, <3>2 DEF Alone, Underway
      <4>2. Good(d)
        BY <3>2, <4>1, NothingWritten
      <4>3. QED
        BY <1>5, <4>2, GoodStays
    <3>3. CASE x.pc = "close"
      <4>1. Ends(x.cmd, x.ids) /\ setting' = setting
        BY DEF Die, Ends
      <4>2. QED
        BY <1>3, <3>3, <4>1, PlacedTyped, WrittenIsGood DEF Alone
    <3>4. QED
      BY <1>7, <3>1, <3>2, <3>3
  <2>2. left' = {} /\ Good(docs)'
    BY <1>1, <1>2, <1>3, <1>7, <2>1 DEF Die, Alone
  <2>3. QED
    BY <1>4, <2>2, TurnRest
<1>8. QED
  BY <1>2, <1>3, <1>6, <1>7 DEF Alone, Underway, Placed

LEMMA TurnRecover ==
  ASSUME PlacedInv, TurnInv, setting.turn, Recover PROVE TurnInv'
<1>1. PICK j \in left : docs' = Undone(j) /\ left' = IF Undoable(j) THEN left \ {j} ELSE left
  BY DEF Recover
<1>2. PICK d, b : d = docs /\ b = Put(d, j.before)
  OBVIOUS
<1>3. Abandoned(docs, j, b) /\ \A k \in left : k = j
  BY <1>1, <1>2 DEF TurnInv
<1>4. Kept(j) /\ docs \in Documents
  BY DEF PlacedInv
<1>5. docs' = b /\ left' = {}
  BY <1>1, <1>3, <1>4, AbandonedUndone
<1>6. Good(b)'
  <2>1. Good(b)
    BY <1>3 DEF Abandoned
  <2>2. Steady
    BY DEF Recover, Steady
  <2>3. QED
    BY <2>1, <2>2, PlacedTyped, GoodSteady
<1>7. \A t \in Sessions : ses'[t].pc = "idle"
  BY DEF Recover, InTurn
<1>8. left' = {} /\ Good(docs)'
  BY <1>5, <1>6
<1>9. QED
  BY <1>7, <1>8, TurnRest

LEMMA TurnCreate ==
  ASSUME PlacedInv, TurnInv, setting.turn, CreateTask PROVE TurnInv'
<1>1. \A t \in Sessions : ses'[t].pc = "idle" /\ ses[t].pc = "idle"
  BY DEF CreateTask, InTurn
<1>2. left = {} /\ left' = left /\ docs' = docs
  BY DEF CreateTask, Pending
<1>3. PICK d : d = docs
  OBVIOUS
<1>4. Good(d)
  BY <1>1, <1>2, <1>3 DEF TurnInv, AllIdle
<1>5. Aged
  <2>1. PICK o \in Ops : tasks[o] = "none" /\ tasks' = [tasks EXCEPT ![o] = "CREATED"]
    BY DEF CreateTask
  <2>2. \A p \in Ops : tasks'[p] = tasks[p] \/ (tasks[p] = "none" /\ tasks'[p] = "CREATED")
    BY <2>1, PlacedTyped DEF Typed
  <2>3. QED
    BY <2>2, PlacedTyped DEF Typed, CreateTask, Aged
<1>6. Good(d)'
  BY <1>4, <1>5, GoodStays
<1>7. left' = {} /\ Good(docs)'
  BY <1>2, <1>3, <1>6
<1>8. QED
  BY <1>1, <1>7, TurnRest

LEMMA TurnSteady ==
  ASSUME PlacedInv, TurnInv, setting.turn, Steady, docs' = docs, ses' = ses, left' = left
  PROVE  TurnInv'
<1>1. PICK d : d = docs
  OBVIOUS
<1>2. ASSUME NEW t \in Sessions, ses[t].pc # "idle" PROVE left' = {} /\ Underway(docs, ses[t])'
  <2>1. PICK x : x = ses[t]
    OBVIOUS
  <2>2. Alone(t, d, x)
    BY <1>1, <1>2, <2>1, TurnAlone
  <2>3. Underway(d, x)'
    BY <2>2, PlacedTyped, UnderwaySteady DEF Alone
  <2>4. QED
    BY <1>1, <2>1, <2>2, <2>3 DEF Alone
<1>3. ASSUME AllIdle, left = {} PROVE Good(docs)'
  <2>1. Good(d)
    BY <1>1, <1>3 DEF TurnInv
  <2>2. Good(d)'
    BY <2>1, PlacedTyped, GoodSteady
  <2>3. QED
    BY <1>1, <2>2
<1>4. ASSUME NEW j \in left PROVE Abandoned(docs, j, Put(docs, j.before))'
  <2>1. PICK b : b = Put(d, j.before)
    OBVIOUS
  <2>2. Abandoned(d, j, b)
    BY <1>1, <2>1 DEF TurnInv
  <2>3. Abandoned(d, j, b)'
    BY <2>2, PlacedTyped, AbandonedSteady
  <2>4. QED
    BY <1>1, <2>1, <2>3
<1>5. AllIdle' => AllIdle
  BY DEF AllIdle
<1>6. \A s, t \in Sessions : ses'[s].pc # "idle" /\ ses'[t].pc # "idle" => s = t
  BY DEF TurnInv
<1>7. \A j, k \in left' : j = k
  BY DEF TurnInv
<1>8. QED
  BY <1>2, <1>3, <1>4, <1>5, <1>6, <1>7 DEF TurnInv

LEMMA TurnInit == Init => TurnInv
<1> SUFFICES ASSUME Init PROVE TurnInv
  OBVIOUS
<1>1. PICK d : d = docs
  OBVIOUS
<1>2. /\ d \in Documents /\ \A o \in Ops : tasks[o] = "none"
  BY <1>1, PlacedInit DEF PlacedInv, Init
<1>3. /\ d.proposals = [o \in Ops |-> "none"] /\ d.operations = [o \in Ops |-> 0]
      /\ d.imports = [i \in Imports |-> "none"] /\ d.lexicon = [i \in Imports |-> "none"]
      /\ d.transitions = {} /\ d.approved = {} /\ d.reviews = [o \in Ops |-> "PENDING"]
  BY <1>1 DEF Init
<1>4. d.approved = View(d.proposals)
  BY <1>3 DEF View
<1>5. Listed(d)
  BY <1>3 DEF Listed, Committed
<1>6. \A r : Moves(d, r) = {}
  BY <1>3 DEF Moves
<1>7. Accounted(d)
  BY <1>2, <1>3, <1>6 DEF Accounted
<1>8. Good(d)
  BY <1>2, <1>4, <1>5, <1>7 DEF Good
<1>9. ses = [s \in Sessions |-> Idle] /\ left = {}
  BY DEF Init
<1>10. \A s \in Sessions : ses[s].pc = "idle"
  BY <1>9 DEF Idle
<1>11. QED
  BY <1>1, <1>8, <1>9, <1>10 DEF TurnInv

LEMMA TurnNext == PlacedInv /\ TurnInv /\ [Next]_vars => TurnInv'
<1> SUFFICES ASSUME PlacedInv, TurnInv, [Next]_vars PROVE TurnInv'
  OBVIOUS
<1>1. setting' = setting
  BY DEF Next, Command, Start, Read, Compute, LockReview, Stage, Commit, Undo, Close, Die, RemoveLock, Recover,
         CreateTask, vars
<1>2. CASE ~ setting.turn
  BY <1>1, <1>2 DEF TurnInv
<1>3. ASSUME setting.turn, NEW s \in Sessions, Command(s) \/ Die(s) PROVE TurnInv'
  BY <1>3, TurnStart, TurnRead, TurnCompute, TurnLock, TurnStage, TurnCommit, TurnUndo, TurnClose, TurnDie DEF Command
<1>4. ASSUME setting.turn, RemoveLock \/ UNCHANGED vars PROVE TurnInv'
  <2>1. Steady /\ docs' = docs /\ ses' = ses /\ left' = left
    BY <1>4 DEF RemoveLock, vars, Steady
  <2>2. QED
    BY <1>4, <2>1, TurnSteady
<1>5. QED
  BY <1>2, <1>3, <1>4, TurnRecover, TurnCreate DEF Next

LEMMA TurnAlways == Spec => []TurnInv
  BY PlacedAlways, TurnInit, TurnNext, PTL DEF Spec

---------------------------------------------------------------------------
(* What the invariants say.                                                 *)

\* Whatever the documents, the sessions and the journals, they have their types.
THEOREM MemoryTypeCorrect == Spec => []TypeOK
<1>1. PlacedInv => TypeOK
  <2> SUFFICES ASSUME PlacedInv PROVE TypeOK
    OBVIOUS
  <2>1. ASSUME NEW s \in Sessions
        PROVE  /\ ses[s].pc \in {"idle", "read", "lock", "stage", "commit", "undo", "close"}
               /\ ses[s].cmd \in Commands \cup {Idle.cmd} /\ ses[s].ids \subseteq Ops
               /\ \A part \in {ses[s].seen, ses[s].new, ses[s].before} : DOMAIN part \subseteq Files
    <3>1. PICK x : x = ses[s]
      OBVIOUS
    <3>2. Placed(x)
      BY <3>1 DEF PlacedInv
    <3>3. /\ x.pc \in {"idle", "read", "lock", "stage", "commit", "undo", "close"}
          /\ (x.pc = "idle" => x = Idle) /\ (x.pc # "idle" => x.cmd \in Commands) /\ x.ids \subseteq Ops
      BY <3>2 DEF Placed
    <3>4. DOMAIN x.seen \subseteq Files /\ DOMAIN x.new \subseteq Files /\ DOMAIN x.before \subseteq Files
      BY <3>2 DEF Placed, PartOf
    <3>5. QED
      BY <3>1, <3>3, <3>4
  <2>2. \A j \in left : DOMAIN j.before \subseteq DOMAIN j.new
    BY DEF PlacedInv, Kept
  <2>3. QED
    BY <2>1, <2>2 DEF TypeOK, PlacedInv, Bounded
<1>2. QED
  BY <1>1, PlacedAlways, PTL

LEMMA QuietIsGood == TurnInv /\ Quiet => Good(docs)
  BY DEF TurnInv, Quiet, AllIdle

\* Between commands in turn, and with every killed one recovered, generation is given
\* exactly the INSPECT records that the operator has approved.
THEOREM MemoryViewIsCurrent == Spec => []ViewIsCurrent
<1>1. TurnInv => ViewIsCurrent
  BY QuietIsGood DEF Good, ViewIsCurrent
<1>2. QED
  BY <1>1, TurnAlways, PTL

LEMMA LeadsIsDecided ==
  ASSUME NEW r, NEW state, Leads(Moves(docs, r), state) PROVE Decided(r) = {state}
  BY DEF Leads, Moves, Decided

\* The audit trail accounts for the state of every record, unless two commands were
\* killed.
THEOREM MemoryTrailExplains == Spec => []TrailExplains
<1>1. TurnInv => TrailExplains
  <2> SUFFICES ASSUME TurnInv, Quiet, deaths < 2
               PROVE  /\ \A o \in Ops : docs.proposals[o] # "none" => Decided(o) = {docs.proposals[o]}
                      /\ \A i \in Imports :
                            CASE docs.imports[i] = "none" -> docs.lexicon[i] = "none"
                              [] docs.imports[i] = "COMMITTED" -> Decided(i) = {docs.lexicon[i]}
                              [] docs.imports[i] = "ROLLED_BACK" -> docs.lexicon[i] = "INACTIVE" /\ i \in docs.rollbacks
    BY DEF TrailExplains
  <2>1. Accounted(docs) /\ docs \in Documents
    BY QuietIsGood DEF Good
  <2>2. ASSUME NEW o \in Ops, docs.proposals[o] # "none" PROVE Decided(o) = {docs.proposals[o]}
    BY <2>1, <2>2, LeadsIsDecided DEF Accounted
  <2>3. ASSUME NEW i \in Imports
        PROVE  CASE docs.imports[i] = "none" -> docs.lexicon[i] = "none"
                 [] docs.imports[i] = "COMMITTED" -> Decided(i) = {docs.lexicon[i]}
                 [] docs.imports[i] = "ROLLED_BACK" -> docs.lexicon[i] = "INACTIVE" /\ i \in docs.rollbacks
    <3>1. docs.imports[i] \in {"none", "COMMITTED", "ROLLED_BACK"}
      BY <2>1, DocumentsAreFunctions
    <3>2. /\ docs.imports[i] = "none" => docs.lexicon[i] = "none"
          /\ docs.imports[i] = "COMMITTED" => Leads(Moves(docs, i), docs.lexicon[i])
          /\ docs.imports[i] = "ROLLED_BACK" => docs.lexicon[i] = "INACTIVE" /\ i \in docs.rollbacks
      BY <2>1 DEF Accounted
    <3>3. docs.imports[i] = "COMMITTED" => Decided(i) = {docs.lexicon[i]}
      BY <3>2, LeadsIsDecided
    <3>4. QED
      BY <3>1, <3>2, <3>3
  <2>4. QED
    BY <2>2, <2>3
<1>2. QED
  BY <1>1, TurnAlways, PTL

\* Of overlapping operations only the newest has open challenges.
THEOREM MemoryNewestChallengesOpen == Spec => []NewestChallengesOpen
<1>1. TurnInv => NewestChallengesOpen
  <2> SUFFICES ASSUME TurnInv, Quiet, NEW o \in Committed(docs.operations)
               PROVE  docs.challenges[o] = IF Newer(docs, o) = {} THEN "OPEN" ELSE "SUPERSEDED"
    BY DEF NewestChallengesOpen, Newer
  <2>1. Listed(docs)
    BY QuietIsGood DEF Good
  <2>2. o \in Ops
    BY DEF Committed
  <2>3. QED
    BY <2>1, <2>2 DEF Listed
<1>2. QED
  BY <1>1, TurnAlways, PTL

\* No command removes a protected record, and none brings one in.
LEMMA ProtectedStays ==
  ASSUME NEW c \in Commands, NEW ids, NEW b \in Documents, ~ Refused(c, ids, b), "proposals" \in Written(c),
         NEW new, new = New(c, ids, b), NEW o \in Ops
  PROVE  /\ b.proposals[o] \in Protected => new.proposals[o] # "none"
         /\ new.proposals[o] \in Protected => b.proposals[o] # "none"
<1>0. b.proposals \in [Ops -> States]
  BY DocumentsAreFunctions
<1>1. CASE c.kind = "inspect"
  <2>1. new.proposals = [b.proposals EXCEPT ![c.on] = "PROPOSED"]
    BY <1>1, NewOf DEF Inspected
  <2>2. QED
    BY <1>0, <2>1 DEF Protected
<1>2. CASE c.kind = "transition"
  <2>1. Source(c.on) = "proposals"
    BY <1>2, WritesInOrder DEF Source
  <2>2. new.proposals = [b.proposals EXCEPT ![c.on] = c.move[2]]
    <3>1. new = Moved(c, b)
      BY <1>2, NewOf
    <3>2. QED
      BY <2>1, <3>1 DEF Moved
  <2>3. b.proposals[c.on] = c.move[1]
    BY <1>2, <2>1 DEF Refused
  <2>4. c.move[1] # "none" /\ c.move[2] # "none"
    BY <1>2, CommandKinds, AllowedMovesOn
  <2>5. QED
    BY <1>0, <2>2, <2>3, <2>4 DEF Protected
<1>3. CASE c.kind = "reset"
  <2>1. new.proposals = [p \in Ops |-> IF p \in ids THEN "none" ELSE b.proposals[p]]
    BY <1>3, NewOf DEF Reset
  <2>2. o \in ids => b.proposals[o] \notin Protected
    BY <1>3 DEF Refused, HoldsProtected
  <2>3. QED
    BY <2>1, <2>2 DEF Protected
<1>4. CASE c.kind \in {"import", "rollback", "review"}
  BY <1>4, WritesInOrder
<1>5. QED
  BY <1>1, <1>2, <1>3, <1>4, CommandKinds

\* Commands in turn: no INSPECT record that the operator has reviewed, approved,
\* rejected or superseded disappears, be it by a reset, by a transaction of a killed
\* command or by its recovery.
THEOREM MemoryProtectedMemoryKept == Spec => ProtectedMemoryKept
<1>1. ASSUME PlacedInv, TurnInv, [Next]_vars
      PROVE  [setting.turn => \A o \in Ops : docs.proposals[o] \in Protected => docs'.proposals[o] # "none"]_vars
  <2> SUFFICES ASSUME setting.turn, NEW o \in Ops, docs.proposals[o] \in Protected, Next
               PROVE  docs'.proposals[o] # "none"
    BY <1>1
  <2>0. docs.proposals[o] # "none"
    BY DEF Protected
  <2>1. ASSUME NEW s \in Sessions, Commit(s) PROVE docs'.proposals[o] # "none"
    <3>1. PICK x, d, b : x = ses[s] /\ d = docs /\ b = Put(d, x.before)
      OBVIOUS
    <3>2. x.pc = "commit" /\ ses = [t \in Sessions |-> ses[t]]
      BY <1>1, <2>1, <3>1 DEF PlacedInv, Commit
    <3>3. Alone(s, d, x)
      BY <1>1, <3>1, <3>2, TurnAlone
    <3>4. Writing(d, x, b) /\ Placed(x) /\ d \in Documents /\ x.cmd \in Commands
      BY <3>1, <3>2, <3>3 DEF Alone, Underway
    <3>5. Agrees(d, x, b)
      BY <3>2, <3>4, CommitAgrees
    <3>6. docs' = docs \/ docs' = [d EXCEPT ![NextFile(x)] = x.new[NextFile(x)]]
      BY <2>1, <3>1 DEF Commit, Target, NextFile
    <3>7. d = [g \in Files |-> d[g]] /\ "proposals" \in Files
      BY <3>4, DocumentsAreFunctions DEF Files
    <3>8. CASE NextFile(x) = "proposals" /\ docs' # docs
      <4>1. docs'.proposals = x.new.proposals
        BY <3>6, <3>7, <3>8
      <4>2. b.proposals[o] \in Protected /\ "proposals" \in Written(x.cmd)
        BY <3>1, <3>5, <3>8 DEF Agrees
      <4>3. b \in Documents /\ ~ Refused(x.cmd, x.ids, b) /\ x.new = New(x.cmd, x.ids, b)
        BY <3>4 DEF Writing, Good
      <4>4. QED
        BY <3>4, <4>1, <4>2, <4>3, ProtectedStays
    <3>9. CASE NextFile(x) # "proposals" \/ docs' = docs
      BY <2>0, <3>1, <3>6, <3>7, <3>9
    <3>10. QED
      BY <3>8, <3>9
  <2>2. ASSUME NEW s \in Sessions, Undo(s) PROVE FALSE
    <3>1. PICK x, d : x = ses[s] /\ d = docs
      OBVIOUS
    <3>2. x.pc = "undo"
      BY <2>2, <3>1 DEF Undo
    <3>3. Alone(s, d, x)
      BY <1>1, <3>1, <3>2, TurnAlone
    <3>4. QED
      BY <3>2, <3>3 DEF Alone, Underway
  <2>3. ASSUME Recover PROVE docs'.proposals[o] # "none"
    <3>1. PICK j \in left : docs' = Undone(j)
      BY <2>3 DEF Recover
    <3>2. PICK d, b : d = docs /\ b = Put(d, j.before)
      OBVIOUS
    <3>3. Abandoned(docs, j, b) /\ Kept(j) /\ docs \in Documents
      BY <1>1, <3>1, <3>2 DEF TurnInv, PlacedInv
    <3>4. docs' = b
      BY <3>1, <3>3, AbandonedUndone
    <3>5. PICK c \in Commands, ids \in SUBSET Ops :
            ~ Refused(c, ids, b) /\ j.new = New(c, ids, b) /\ j.writes = Writes(c)
      BY <3>3 DEF Abandoned
    <3>6. b \in Documents /\ d = Halfway(b, j.new, j.writes, j.done)
      BY <3>2, <3>3 DEF Abandoned, Good
    <3>7. d.proposals = IF "proposals" \in FirstOf(j.writes, j.done) THEN j.new.proposals ELSE b.proposals
      BY <3>6, HalfwayFiles DEF Files
    <3>8. "proposals" \in FirstOf(j.writes, j.done) => "proposals" \in Written(c)
      <4>1. DOMAIN j.writes = 1 .. Len(j.writes) /\ Len(j.writes) \in 1 .. 5
        BY <3>5, WritesInOrder DEF InOrder
      <4>2. j.done \in 0 .. Len(j.writes) - 1
        BY <3>3 DEF Kept
      <4>3. 1 .. j.done \subseteq DOMAIN j.writes
        BY <4>1, <4>2
      <4>4. QED
        BY <3>5, <4>3 DEF FirstOf, Written
    <3>9. CASE "proposals" \in FirstOf(j.writes, j.done)
      <4>1. "proposals" \in Written(c) /\ j.new.proposals[o] \in Protected
        BY <3>2, <3>7, <3>8, <3>9
      <4>2. b.proposals[o] # "none"
        BY <3>5, <3>6, <4>1, ProtectedStays
      <4>3. QED
        BY <3>4, <4>2
    <3>10. CASE "proposals" \notin FirstOf(j.writes, j.done)
      BY <2>0, <3>2, <3>4, <3>7, <3>10
    <3>11. QED
      BY <3>9, <3>10
  <2>4. docs' = docs \/ Recover \/ \E s \in Sessions : Commit(s) \/ Undo(s)
    BY DEF Next, Command, Start, Read, Compute, LockReview, Stage, Close, Die, RemoveLock, CreateTask
  <2>5. QED
    BY <2>0, <2>1, <2>2, <2>3, <2>4
<1>2. QED
  BY <1>1, PlacedAlways, TurnAlways, PTL DEF Spec, ProtectedMemoryKept

---------------------------------------------------------------------------
(* Commands in any order: the locks.                                        *)

\* A command that has begun stays the same until its session is idle again.
Works(s) == Read(s) \/ Compute(s) \/ LockReview(s) \/ Stage(s) \/ Commit(s)
Goes(s, x, y) == Others(s) /\ x.pc # "idle" /\ (y = Idle \/ (y.pc # "idle" /\ y.cmd = x.cmd))

LEMMA CommandKept ==
  ASSUME NEW s \in Sessions, NEW x, x = ses[s], x = [f \in SessionFields |-> x[f]],
         ses = [t \in Sessions |-> ses[t]], NEW y, y = ses'[s], Works(s)
  PROVE  Goes(s, x, y)
<1> USE DEF Goes
<1>1. CASE Read(s)
  <2>1. /\ x.pc = "read"
        /\ ses' = [ses EXCEPT ![s].seen = With(@, Head(x.todo), docs[Head(x.todo)]), ![s].todo = Tail(@)]
    BY <1>1 DEF Read
  <2>2. Others(s) /\ y.pc = x.pc /\ y.cmd = x.cmd
    BY <2>1 DEF Others, SessionFields
  <2>3. QED
    BY <2>1, <2>2
<1>2. CASE Compute(s)
  <2>1. x.pc = "read"
    BY <1>2 DEF Compute
  <2>2. /\ Others(s)
        /\ \/ y = Idle
           \/ IsSession(y, IF x.cmd.kind = "review" THEN "lock" ELSE "stage", x.cmd, x.ids, x.todo, <<>>,
                        New(x.cmd, x.ids, x.seen), x.before, x.done)
    BY <1>2, ComputeStep
  <2>3. QED
    BY <2>1, <2>2 DEF IsSession
<1>3. CASE LockReview(s)
  <2>1. /\ x.pc = "lock" /\ Others(s)
        /\ \/ y = Idle
           \/ IsSession(y, "stage", x.cmd, x.ids, x.todo, x.seen, x.new, x.before, 0)
    BY <1>3, LockReviewStep
  <2>2. QED
    BY <2>1 DEF IsSession
<1>4. CASE Stage(s)
  <2>1. /\ x.pc = "stage"
        /\ ses' = [ses EXCEPT ![s].before = With(@, Target(s), docs[Target(s)]),
                              ![s].done = IF LastTarget(s) THEN 0 ELSE @ + 1,
                              ![s].pc = IF LastTarget(s) THEN "commit" ELSE "stage"]
    BY <1>4 DEF Stage
  <2>2. Others(s) /\ y.pc \in {"stage", "commit"} /\ y.cmd = x.cmd
    BY <2>1 DEF Others, SessionFields
  <2>3. QED
    BY <2>1, <2>2
<1>5. CASE Commit(s)
  <2>1. /\ x.pc = "commit"
        /\ \/ ses' = [ses EXCEPT ![s].pc = "undo"]
           \/ ses' = [ses EXCEPT ![s].done = @ + 1, ![s].pc = IF LastTarget(s) THEN "close" ELSE "commit"]
    BY <1>5 DEF Commit
  <2>2. Others(s) /\ y.pc \in {"undo", "close", "commit"} /\ y.cmd = x.cmd
    BY <2>1 DEF Others, SessionFields
  <2>3. QED
    BY <2>1, <2>2
<1>6. QED
  BY <1>1, <1>2, <1>3, <1>4, <1>5 DEF Works

LEMMA SameLock ==
  ASSUME LockInv, NEW s \in Sessions, NEW x, x = ses[s], NEW y, y = ses'[s], Others(s), locks \subseteq locks',
         Locking(y) => Locking(x) /\ LockOf(y.cmd) = LockOf(x.cmd)
  PROVE  LockInv'
  BY DEF LockInv, Others

LEMMA LockLeft ==
  ASSUME LockInv, NEW s \in Sessions, NEW x, x = ses[s], NEW y, y = ses'[s], Others(s), x.pc # "idle",
         locks \ {LockOf(x.cmd)} \subseteq locks', ~ Locking(y)
  PROVE  LockInv'
<1>1. ASSUME NEW t \in Sessions, t # s, Locking(ses[t]) PROVE LockOf(ses[t].cmd) # LockOf(x.cmd)
  <2>1. CASE Locking(x)
    BY <1>1, <2>1 DEF LockInv
  <2>2. CASE ~ Locking(x)
    BY <1>1, <2>2 DEF Locking, LockOf
  <2>3. QED
    BY <2>1, <2>2
<1>2. QED
  BY <1>1 DEF LockInv, Others

LEMMA LockTaken ==
  ASSUME LockInv, NEW s \in Sessions, NEW y, y = ses'[s], Others(s),
         LockOf(y.cmd) \notin locks, locks' = locks \cup {LockOf(y.cmd)}
  PROVE  LockInv'
  BY DEF LockInv, Others

LEMMA LockNext == PlacedInv /\ LockInv /\ [Next]_vars => LockInv'
<1> SUFFICES ASSUME PlacedInv, LockInv, [Next]_vars PROVE LockInv'
  OBVIOUS
<1>1. ASSUME NEW s \in Sessions, Command(s) \/ Die(s) PROVE LockInv'
  <2>1. PICK x, y : x = ses[s] /\ y = ses'[s]
    OBVIOUS
  <2>2. x = [f \in SessionFields |-> x[f]] /\ ses = [t \in Sessions |-> ses[t]]
    BY <2>1 DEF PlacedInv, Placed
  <2>3. CASE Start(s)
    <3>1. PICK c \in Commands, ids \in SUBSET Ops :
            /\ x.pc = "idle" /\ Others(s)
            /\ IsSession(y, "read", c, ids, Reads(c), <<>>, <<>>, <<>>, 0)
            /\ c.kind = "review" => UNCHANGED locks
            /\ c.kind # "review" => LockOf(c) \notin locks /\ locks' = locks \cup {LockOf(c)}
      BY <2>1, <2>2, <2>3, StartStep
    <3>2. y.cmd = c
      BY <3>1 DEF IsSession
    <3>3. CASE c.kind = "review"
      BY <2>1, <3>1, <3>2, <3>3, SameLock DEF Locking
    <3>4. CASE c.kind # "review"
      BY <2>1, <3>1, <3>2, <3>4, LockTaken
    <3>5. QED
      BY <3>3, <3>4
  <2>4. CASE Read(s) \/ Stage(s) \/ Commit(s)
    <3>w. Works(s)
      BY <2>4 DEF Works
    <3>g. Goes(s, x, y)
      BY <2>1, <2>2, <3>w, CommandKept
    <3>1. /\ x.pc # "idle" /\ Others(s) /\ (y = Idle \/ y.cmd = x.cmd)
      BY <3>g DEF Goes
    <3>2. locks' = locks
      BY <2>4 DEF Read, Stage, Commit
    <3>3. Locking(y) => Locking(x) /\ LockOf(y.cmd) = LockOf(x.cmd)
      BY <3>1 DEF Locking, Idle
    <3>4. QED
      BY <2>1, <3>1, <3>2, <3>3, SameLock
  <2>5. CASE Compute(s)
    <3>w. Works(s)
      BY <2>5 DEF Works
    <3>g. Goes(s, x, y)
      BY <2>1, <2>2, <3>w, CommandKept
    <3>1. /\ x.pc # "idle" /\ Others(s) /\ (y = Idle \/ y.cmd = x.cmd)
      BY <3>g DEF Goes
    <3>a. /\ locks \ {LockOf(x.cmd)} \subseteq locks'
          /\ y # Idle => locks' = locks
      <4>1. CASE Refused(x.cmd, x.ids, x.seen)
        BY <2>1, <2>2, <2>5, <4>1 DEF Compute, Leave
      <4>2. CASE ~ Refused(x.cmd, x.ids, x.seen)
        BY <2>1, <2>5, <4>2 DEF Compute
      <4>3. QED
        BY <4>1, <4>2
    <3>2. ~ Locking(Idle)
      BY DEF Locking, Idle
    <3>3. CASE y = Idle
      BY <2>1, <3>1, <3>a, <3>2, <3>3, LockLeft
    <3>4. CASE y # Idle
      <4>1. Locking(y) => Locking(x) /\ LockOf(y.cmd) = LockOf(x.cmd)
        BY <3>1, <3>4 DEF Locking
      <4>2. QED
        BY <2>1, <3>1, <3>a, <3>4, <4>1, SameLock
    <3>5. QED
      BY <3>3, <3>4
  <2>6. CASE LockReview(s)
    <3>w. Works(s)
      BY <2>6 DEF Works
    <3>g. Goes(s, x, y)
      BY <2>1, <2>2, <3>w, CommandKept
    <3>1. /\ x.pc # "idle" /\ Others(s) /\ (y = Idle \/ y.cmd = x.cmd) /\ locks \subseteq locks'
      BY <2>6, <3>g DEF Goes, LockReview
    <3>2. Locking(y) => Locking(x) /\ LockOf(y.cmd) = LockOf(x.cmd)
      BY <3>1 DEF Locking, Idle
    <3>3. QED
      BY <2>1, <3>1, <3>2, SameLock
  <2>7. CASE Undo(s) \/ Close(s) \/ Die(s)
    <3>1. ses' = [ses EXCEPT ![s] = Idle] /\ locks \ {LockOf(x.cmd)} \subseteq locks' /\ x.pc # "idle"
      BY <2>1, <2>7 DEF Undo, Close, Die, Leave
    <3>2. Others(s) /\ y = Idle
      BY <2>1, <2>2, <3>1, LeavesIdle
    <3>3. ~ Locking(y)
      BY <3>2 DEF Locking, Idle
    <3>4. QED
      BY <2>1, <3>1, <3>2, <3>3, LockLeft
  <2>8. QED
    BY <1>1, <2>3, <2>4, <2>5, <2>6, <2>7 DEF Command
<1>2. CASE RemoveLock
  BY <1>2 DEF RemoveLock, LockInv, Locking
<1>3. CASE Recover \/ CreateTask \/ UNCHANGED vars
  BY <1>3 DEF Recover, CreateTask, vars, LockInv
<1>4. QED
  BY <1>1, <1>2, <1>3 DEF Next

LEMMA LockAlways == Spec => []LockInv
<1>1. Init => LockInv
  BY DEF Init, LockInv, Locking, Idle
<1>2. QED
  BY <1>1, PlacedAlways, LockNext, PTL DEF Spec

\* One INSPECT is submitted at a time.
LEMMA OneInspect ==
  ASSUME LockInv, NEW s \in Sessions, NEW t \in Sessions, ses[s].pc # "idle", ses[t].pc # "idle",
         ses[s].cmd.kind = "inspect", ses[t].cmd.kind = "inspect"
  PROVE  s = t
  BY DEF LockInv, Locking, LockOf

---------------------------------------------------------------------------
(* Commands in any order, none of them killed: an operation that is not yet *)
(* committed is unknown.                                                    *)

LEMMA UnknownNew ==
  ASSUME NEW c \in Commands, NEW ids, NEW e \in Documents, NEW p, \A f \in Needed(c) : p[f] = e[f],
         Needed(c) \subseteq DOMAIN p, NEW o \in Ops, Unknown(p, o), ~ (c.kind = "inspect" /\ c.on = o),
         ~ Refused(c, ids, p)
  PROVE  Unknown(New(c, ids, p), o)
<1>1. New(c, ids, p) = New(c, ids, e) /\ ~ Refused(c, ids, e)
  BY ReadsSuffice
<1>2. e.operations \in [Ops -> Nat] /\ e.reviews \in [Ops -> Decisions \cup {"PENDING"}]
  BY DocumentsAreFunctions
<1>3. PICK n : n = New(c, ids, e)
  OBVIOUS
<1>4. IsOf(n, Written(c))
  BY <1>3, WrittenIsNew
<1>5. CASE c.kind = "inspect"
  <2>1. n.operations = Appended(e.operations, c.on)
    BY <1>3, <1>5, NewOf DEF Inspected
  <2>2. e.operations[o] = 0
    BY <1>5 DEF Needed, Reads, Unknown
  <2>3. n.operations[o] = 0
    BY <1>5, <2>1, <2>2 DEF Appended, Committed
  <2>4. "reviews" \notin DOMAIN n
    BY <1>4, <1>5, WritesInOrder DEF IsOf
  <2>5. QED
    BY <1>1, <1>3, <2>3, <2>4 DEF Unknown
<1>6. CASE c.kind \in {"transition", "import", "rollback"}
  <2>1. "reviews" \notin DOMAIN n /\ "operations" \notin DOMAIN n
    BY <1>4, <1>6, WritesInOrder DEF IsOf, Source
  <2>2. QED
    BY <1>1, <1>3, <2>1 DEF Unknown
<1>7. CASE c.kind = "review"
  <2>1. n.reviews = [e.reviews EXCEPT ![Latest(e.operations, c.on)] = c.move]
    BY <1>3, <1>7, NewOf DEF Reviewed
  <2>2. e.operations[o] = 0 /\ e.reviews[o] = "PENDING"
    BY <1>7 DEF Needed, Reads, Unknown
  <2>3. Latest(e.operations, c.on) \in OfScope(e.operations, c.on)
    BY <1>1, <1>2, <1>7, LatestIsListed DEF Refused
  <2>4. Latest(e.operations, c.on) # o
    BY <2>2, <2>3 DEF OfScope, Committed
  <2>5. n.reviews[o] = "PENDING"
    BY <1>2, <2>1, <2>2, <2>4
  <2>6. "operations" \notin DOMAIN n
    BY <1>4, <1>7, WritesInOrder DEF IsOf
  <2>7. QED
    BY <1>1, <1>3, <2>5, <2>6 DEF Unknown
<1>8. CASE c.kind = "reset"
  <2>1. /\ n.operations = [q \in Ops |-> IF q \in ids THEN 0 ELSE e.operations[q]]
        /\ n.reviews = [q \in Ops |-> IF q \in ids THEN "PENDING" ELSE e.reviews[q]]
    <3>1. n = Reset(ids, e)
      BY <1>3, <1>8, NewOf
    <3>2. QED
      BY <3>1 DEF Reset
  <2>2. e.operations[o] = 0 /\ e.reviews[o] = "PENDING"
    BY <1>8 DEF Needed, Reads, Unknown
  <2>3. n.operations[o] = 0 /\ n.reviews[o] = "PENDING"
    BY <2>1, <2>2
  <2>4. QED
    BY <1>1, <1>3, <2>3 DEF Unknown
<1>9. QED
  BY <1>5, <1>6, <1>7, <1>8, CommandKinds

LEMMA UnknownWith ==
  ASSUME NEW p, NEW o, NEW d \in Documents, NEW f, Unknown(p, o), Unknown(d, o)
  PROVE  Unknown(With(p, f, d[f]), o)
<1>1. d.operations[o] = 0 /\ d.reviews[o] = "PENDING"
  BY DocumentsAreFunctions DEF Unknown, Files
<1>2. PICK m : m = With(p, f, d[f])
  OBVIOUS
<1>3. \A g \in DOMAIN p \cup {f} : m[g] = IF g = f THEN d[f] ELSE p[g]
  BY <1>2 DEF With
<1>4. DOMAIN m = DOMAIN p \cup {f}
  BY <1>2 DEF With
<1>5. QED
  BY <1>1, <1>2, <1>3, <1>4 DEF Unknown

LEMMA UnknownReplaced ==
  ASSUME NEW d \in Documents, NEW x, NEW o, Unknown(d, o), NEW f \in DOMAIN x.new, Unknown(x.new, o)
  PROVE  Unknown([d EXCEPT ![f] = x.new[f]], o)
<1>1. PICK e : e = [d EXCEPT ![f] = x.new[f]]
  OBVIOUS
<1>2. d = [g \in Files |-> d[g]]
  BY DocumentsAreFunctions
<1>3. DOMAIN e = Files /\ \A g \in Files : e[g] = IF g = f THEN x.new[f] ELSE d[g]
  BY <1>1, <1>2
<1>4. QED
  BY <1>1, <1>2, <1>3 DEF Unknown

LEMMA UnknownUndone ==
  ASSUME docs \in Documents, NEW j, NEW o, Unknown(docs, o), Unknown(j.before, o)
  PROVE  Unknown(Undone(j), o)
<1>1. PICK restored : /\ restored \subseteq DOMAIN j.before
                      /\ Undone(j) = [f \in Files |-> IF f \in restored THEN j.before[f] ELSE docs[f]]
  BY UndoneIs
<1>2. PICK e, d : e = Undone(j) /\ d = docs
  OBVIOUS
<1>3. DOMAIN d = Files
  BY <1>2, DocumentsAreFunctions
<1>4. \A f \in Files : e[f] = IF f \in restored THEN j.before[f] ELSE d[f]
  BY <1>1, <1>2
<1>5. DOMAIN e = Files
  BY <1>1, <1>2
<1>6. QED
  BY <1>1, <1>2, <1>3, <1>4, <1>5 DEF Unknown

\* What a session has of an operation that is not committed.
Unaware(x, o) ==
    /\ Unknown(x.seen, o) /\ Unknown(x.before, o)
    /\ ~ Submits(x, o) => Unknown(x.new, o)

LEMMA IdleUnaware == ASSUME NEW o PROVE Unaware(Idle, o)
<1>1. DOMAIN <<>> = {}
  OBVIOUS
<1>2. QED
  BY <1>1 DEF Unaware, Unknown, Idle

LEMMA UnbornIs ==
  ASSUME NEW o
  PROVE  Unborn(o) <=> Unknown(docs, o) /\ (\A s \in Sessions : Unaware(ses[s], o))
                                        /\ \A j \in left : Unknown(j.before, o)
  BY DEF Unborn, Unaware

LEMMA UnbornIsNext ==
  ASSUME NEW o
  PROVE  Unborn(o)' <=> Unknown(docs', o) /\ (\A s \in Sessions : Unaware(ses'[s], o))
                                          /\ \A j \in left' : Unknown(j.before, o)
  BY DEF Unborn, Unaware, Unknown, Submits

\* A session that works on anything else stays unaware.
LEMMA StaysUnaware ==
  ASSUME PlacedInv, NEW o \in Ops, Unborn(o), NEW s \in Sessions, Works(s), NEW y, y = ses'[s]
  PROVE  Others(s) /\ Unaware(y, o)
<1>1. PICK x, d : x = ses[s] /\ d = docs
  OBVIOUS
<1>2. Unknown(d, o) /\ Unaware(x, o) /\ d \in Documents /\ Placed(x)
  BY <1>1, UnbornIs DEF PlacedInv
<1>3. x = [f \in SessionFields |-> x[f]] /\ ses = [t \in Sessions |-> ses[t]]
  BY <1>1 DEF PlacedInv, Placed
<1>4. Goes(s, x, y)
  BY <1>1, <1>3, CommandKept
<1>5. CASE y = Idle
  BY <1>4, <1>5, IdleUnaware DEF Goes
<1>6. CASE y # Idle
  <2>1. Submits(x, o) => Submits(y, o)
    BY <1>4, <1>6 DEF Goes, Submits
  <2>2. CASE Read(s)
    <3>1. PICK f : f = Head(x.todo)
      OBVIOUS
    <3>2. IsSession(y, "read", x.cmd, x.ids, Tail(x.todo), With(x.seen, f, d[f]), x.new, x.before, x.done)
      BY <1>1, <1>3, <2>2, <3>1, ReadStep
    <3>3. y.seen = With(x.seen, f, d[f]) /\ y.new = x.new /\ y.before = x.before
      BY <3>2 DEF IsSession
    <3>4. Unknown(y.seen, o)
      BY <1>2, <3>3, UnknownWith DEF Unaware
    <3>5. QED
      BY <1>2, <1>4, <2>1, <3>3, <3>4 DEF Unaware, Goes
  <2>3. CASE Compute(s)
    <3>1. /\ x.pc = "read" /\ x.todo = <<>> /\ ~ Refused(x.cmd, x.ids, x.seen)
          /\ IsSession(y, IF x.cmd.kind = "review" THEN "lock" ELSE "stage", x.cmd, x.ids, x.todo, <<>>,
                       New(x.cmd, x.ids, x.seen), x.before, x.done)
      BY <1>1, <1>3, <1>6, <2>3, ComputeStep
    <3>2. y.seen = <<>> /\ y.new = New(x.cmd, x.ids, x.seen) /\ y.before = x.before
      BY <3>1 DEF IsSession
    <3>3. Rest(x.todo) = {}
      BY <3>1 DEF Rest
    <3>4. Needed(x.cmd) \subseteq DOMAIN x.seen /\ x.cmd \in Commands /\ PartOf(x.seen)
      BY <1>2, <3>1, <3>3 DEF Placed
    <3>5. PICK e \in Documents : \A f \in DOMAIN x.seen : x.seen[f] = e[f]
      BY <3>4 DEF PartOf
    <3>6. \A f \in Needed(x.cmd) : x.seen[f] = e[f]
      BY <3>4, <3>5
    <3>7. Unknown(x.seen, o)
      BY <1>2 DEF Unaware
    <3>8. ~ Submits(y, o) => ~ (x.cmd.kind = "inspect" /\ x.cmd.on = o)
      BY <2>1, <3>1 DEF Submits
    <3>9. ~ Submits(y, o) => Unknown(y.new, o)
      BY <3>1, <3>2, <3>4, <3>6, <3>7, <3>8, UnknownNew
    <3>10. Unknown(y.seen, o)
      BY <3>2 DEF Unknown
    <3>11. QED
      BY <1>2, <1>4, <3>2, <3>9, <3>10 DEF Unaware, Goes
  <2>4. CASE LockReview(s)
    <3>1. IsSession(y, "stage", x.cmd, x.ids, x.todo, x.seen, x.new, x.before, 0)
      BY <1>1, <1>3, <1>6, <2>4, LockReviewStep
    <3>2. y.seen = x.seen /\ y.new = x.new /\ y.before = x.before
      BY <3>1 DEF IsSession
    <3>3. QED
      BY <1>2, <1>4, <2>1, <3>2 DEF Unaware, Goes
  <2>5. CASE Stage(s)
    <3>1. PICK f : f = Writes(x.cmd)[x.done + 1]
      OBVIOUS
    <3>2. \/ IsSession(y, "commit", x.cmd, x.ids, x.todo, x.seen, x.new, With(x.before, f, d[f]), 0)
          \/ IsSession(y, "stage", x.cmd, x.ids, x.todo, x.seen, x.new, With(x.before, f, d[f]), x.done + 1)
      BY <1>1, <1>3, <2>5, <3>1, StageStep
    <3>3. y.seen = x.seen /\ y.new = x.new /\ y.before = With(x.before, f, d[f])
      BY <3>2 DEF IsSession
    <3>4. Unknown(y.before, o)
      BY <1>2, <3>3, UnknownWith DEF Unaware
    <3>5. QED
      BY <1>2, <1>4, <2>1, <3>3, <3>4 DEF Unaware, Goes
  <2>6. CASE Commit(s)
    <3>1. PICK z, n : \/ IsSession(y, "undo", x.cmd, x.ids, x.todo, x.seen, x.new, x.before, x.done)
                      \/ IsSession(y, z, x.cmd, x.ids, x.todo, x.seen, x.new, x.before, n)
      BY <1>1, <1>3, <2>6, CommitStep
    <3>2. y.seen = x.seen /\ y.new = x.new /\ y.before = x.before
      BY <3>1 DEF IsSession
    <3>3. QED
      BY <1>2, <1>4, <2>1, <3>2 DEF Unaware, Goes
  <2>7. QED
    BY <2>2, <2>3, <2>4, <2>5, <2>6 DEF Works
<1>7. QED
  BY <1>5, <1>6

\* An operation whose INSPECT has written all its files, and one whose task is over.
Brought(o) == \E s \in Sessions : Submits(ses[s], o) /\ ses[s].pc = "close"
Over(o) == tasks[o] \notin {"none", "CREATED"} /\ \A s \in Sessions : ~ Submits(ses[s], o)

LEMMA UnbornInvIs == UnbornInv <=> (deaths = 0 => \A o \in Ops : Unborn(o) \/ Brought(o) \/ Over(o))
  BY DEF UnbornInv, Brought, Over

\* What a session submits it has submitted before, unless it starts now.
LEMMA SubmitsStays ==
  ASSUME PlacedInv, NEW s \in Sessions, Works(s), NEW t \in Sessions, NEW o, Submits(ses'[t], o)
  PROVE  Submits(ses[t], o)
<1>1. PICK x, y : x = ses[s] /\ y = ses'[s]
  OBVIOUS
<1>2. x = [f \in SessionFields |-> x[f]] /\ ses = [u \in Sessions |-> ses[u]]
  BY <1>1 DEF PlacedInv, Placed
<1>3. Goes(s, x, y)
  BY <1>1, <1>2, CommandKept
<1>4. QED
  BY <1>1, <1>3 DEF Goes, Others, Submits, Idle

LEMMA OverNext ==
  ASSUME PlacedInv, NEW o \in Ops, Over(o), Next PROVE Over(o)'
<1>0. tasks \in [Ops -> {"none", "CREATED", "COMMITTED", "removed"}] /\ ses = [t \in Sessions |-> ses[t]]
  BY DEF PlacedInv, Bounded
<1>1. ASSUME NEW s \in Sessions, Start(s) PROVE Over(o)'
  <2>1. PICK x, y : x = ses[s] /\ y = ses'[s]
    OBVIOUS
  <2>2. x = [f \in SessionFields |-> x[f]]
    BY <2>1 DEF PlacedInv, Placed
  <2>3. PICK c \in Commands, ids \in SUBSET Ops :
           Others(s) /\ IsSession(y, "read", c, ids, Reads(c), <<>>, <<>>, <<>>, 0) /\ Chosen(c, ids)
    BY <1>0, <1>1, <2>1, <2>2, StartStep
  <2>4. ~ Submits(y, o)
    BY <2>3 DEF IsSession, Submits, Chosen, Over
  <2>5. tasks' = tasks
    BY <1>1 DEF Start
  <2>6. QED
    BY <2>1, <2>3, <2>4, <2>5 DEF Over, Others, Submits
<1>2. ASSUME NEW s \in Sessions, Works(s) PROVE Over(o)'
  <2>1. \A t \in Sessions : ~ Submits(ses'[t], o)
    BY <1>2, SubmitsStays DEF Over
  <2>2. tasks' = tasks
    BY <1>2 DEF Works, Read, Compute, LockReview, Stage, Commit
  <2>3. QED
    BY <2>1, <2>2 DEF Over, Submits
<1>3. ASSUME NEW s \in Sessions, Undo(s) \/ Close(s) \/ Die(s) PROVE Over(o)'
  <2>1. ses' = [ses EXCEPT ![s] = Idle]
    BY <1>3 DEF Undo, Close, Die, Leave
  <2>2. \A t \in Sessions : ~ Submits(ses'[t], o)
    BY <1>0, <2>1 DEF Over, Submits, Idle
  <2>3. tasks'[o] \notin {"none", "CREATED"}
    BY <1>3 DEF Undo, Close, Die, Over
  <2>4. QED
    BY <2>2, <2>3 DEF Over, Submits
<1>4. CASE CreateTask
  BY <1>0, <1>4 DEF CreateTask, Over, Submits
<1>5. CASE RemoveLock \/ Recover
  BY <1>5 DEF RemoveLock, Recover, Over, Submits
<1>6. QED
  BY <1>1, <1>2, <1>3, <1>4, <1>5 DEF Next, Command, Works

\* The session that has written all files of an INSPECT closes its task.
LEMMA BroughtNext ==
  ASSUME PlacedInv, LockInv, NEW o \in Ops, Brought(o), Next, deaths' = deaths
  PROVE  Brought(o)' \/ Over(o)'
<1>0. tasks \in [Ops -> {"none", "CREATED", "COMMITTED", "removed"}] /\ ses = [t \in Sessions |-> ses[t]] /\ deaths \in Nat
  BY DEF PlacedInv, Bounded
<1>1. PICK s \in Sessions : Submits(ses[s], o) /\ ses[s].pc = "close"
  BY DEF Brought
<1>2. CASE Close(s)
  <2>1. PICK x : x = ses[s]
    OBVIOUS
  <2>2. x.cmd \in Commands /\ x.cmd.kind = "inspect" /\ x.cmd.on = o
    BY <1>1, <2>1 DEF Submits, PlacedInv, Placed
  <2>3. x.cmd = Of("inspect", o, "none")
    BY <2>2, InspectsOne
  <2>4. tasks'[o] = "COMMITTED" /\ ses' = [ses EXCEPT ![s] = Idle]
    BY <1>2, <2>1, <2>3 DEF Close, Leave
  <2>5. \A t \in Sessions : t # s => ~ Submits(ses[t], o)
    BY <1>1, OneInspect DEF Submits
  <2>6. \A t \in Sessions : ~ Submits(ses'[t], o)
    BY <1>0, <2>4, <2>5 DEF Submits, Idle
  <2>7. QED
    BY <2>4, <2>6 DEF Over, Submits
<1>3. CASE ses'[s] = ses[s]
  BY <1>1, <1>3 DEF Brought, Submits
<1>4. ASSUME NEW t \in Sessions, Command(t) \/ Die(t), ~ Close(s) PROVE ses'[s] = ses[s]
  <2>1. ~ Die(t)
    BY <1>0 DEF Die
  <2>2. t # s
    BY <1>1, <1>4, <2>1 DEF Command, Start, Read, Compute, LockReview, Stage, Commit, Undo
  <2>3. CASE Works(t)
    <3>1. PICK x, y : x = ses[t] /\ y = ses'[t]
      OBVIOUS
    <3>2. x = [f \in SessionFields |-> x[f]]
      BY <3>1 DEF PlacedInv, Placed
    <3>3. Goes(t, x, y)
      BY <1>0, <2>3, <3>1, <3>2, CommandKept
    <3>4. QED
      BY <2>2, <3>3 DEF Goes, Others
  <2>4. CASE Start(t)
    <3>1. PICK v : ses' = [ses EXCEPT ![t] = v]
      BY <2>4 DEF Start
    <3>2. QED
      BY <1>0, <2>2, <3>1
  <2>5. CASE Undo(t) \/ Close(t)
    BY <1>0, <2>2, <2>5 DEF Undo, Close, Leave
  <2>6. QED
    BY <1>4, <2>1, <2>3, <2>4, <2>5 DEF Command, Works
<1>5. CASE CreateTask \/ RemoveLock \/ Recover
  BY <1>3, <1>5 DEF CreateTask, RemoveLock, Recover
<1>6. QED
  BY <1>2, <1>3, <1>4, <1>5 DEF Next

\* The list of operations is the last file that an INSPECT writes.
LEMMA ListIsLast ==
  ASSUME NEW x, Placed(x), x.pc = "commit", x.cmd.kind = "inspect", NextFile(x) = "operations"
  PROVE  x.done + 1 = Len(Writes(x.cmd))
<1>1. Writes(x.cmd) = <<"proposals", "challenges", "operations">> /\ x.done \in 0 .. Len(Writes(x.cmd)) - 1
  BY WritesOf DEF Placed
<1>2. x.done \in {0, 1, 2} /\ Len(Writes(x.cmd)) = 3
  BY <1>1
<1>3. QED
  BY <1>1, <1>2 DEF NextFile

LEMMA NextFileWritten ==
  ASSUME NEW x, Placed(x), x.pc = "commit"
  PROVE  /\ NextFile(x) \in DOMAIN x.new /\ NextFile(x) \in Written(x.cmd) /\ DOMAIN x.new = Written(x.cmd)
         /\ PartOf(x.new) /\ x.cmd \in Commands
<1>1. x.cmd \in Commands /\ x.done \in 0 .. Len(Writes(x.cmd)) - 1 /\ IsOf(x.new, Written(x.cmd)) /\ PartOf(x.new)
  BY DEF Placed
<1>2. Len(Writes(x.cmd)) \in 1 .. 5 /\ DOMAIN Writes(x.cmd) = 1 .. Len(Writes(x.cmd))
  BY <1>1, WritesInOrder DEF InOrder
<1>3. x.done + 1 \in DOMAIN Writes(x.cmd)
  BY <1>1, <1>2
<1>4. QED
  BY <1>1, <1>3 DEF NextFile, Written, IsOf

LEMMA UnbornNext ==
  ASSUME PlacedInv, NEW o \in Ops, Unborn(o), Next, deaths' = deaths
  PROVE  Unborn(o)' \/ Brought(o)'
<1>0. docs \in Documents /\ ses = [t \in Sessions |-> ses[t]] /\ deaths \in Nat
  BY DEF PlacedInv, Bounded
<1>1. Unknown(docs, o) /\ (\A t \in Sessions : Unaware(ses[t], o)) /\ \A j \in left : Unknown(j.before, o)
  BY UnbornIs
<1>2. ASSUME NEW s \in Sessions, Start(s) PROVE Unborn(o)'
  <2>1. PICK x, y : x = ses[s] /\ y = ses'[s]
    OBVIOUS
  <2>2. x = [f \in SessionFields |-> x[f]]
    BY <2>1 DEF PlacedInv, Placed
  <2>3. PICK c \in Commands, ids \in SUBSET Ops :
           Others(s) /\ IsSession(y, "read", c, ids, Reads(c), <<>>, <<>>, <<>>, 0)
    BY <1>0, <1>2, <2>1, <2>2, StartStep
  <2>4. Unaware(y, o)
    BY <2>3 DEF IsSession, Unaware, Unknown
  <2>5. docs' = docs /\ left' = left
    BY <1>2 DEF Start
  <2>6. QED
    BY <1>1, <2>1, <2>3, <2>4, <2>5, UnbornIsNext DEF Others
<1>3. ASSUME NEW s \in Sessions, Works(s) PROVE Unborn(o)' \/ Brought(o)'
  <2>1. PICK x, y, d : x = ses[s] /\ y = ses'[s] /\ d = docs
    OBVIOUS
  <2>2. Others(s) /\ Unaware(y, o)
    BY <1>3, <2>1, StaysUnaware
  <2>3. left' = left
    BY <1>3 DEF Works, Read, Compute, LockReview, Stage, Commit
  <2>4. Unknown(docs', o) => Unborn(o)'
    BY <1>1, <2>1, <2>2, <2>3, UnbornIsNext DEF Others
  <2>5. CASE docs' = docs
    BY <1>1, <2>4, <2>5
  <2>6. CASE docs' # docs
    <3>1. Commit(s)
      BY <1>3, <2>6 DEF Works, Read, Compute, LockReview, Stage
    <3>2. Placed(x) /\ x.pc = "commit" /\ x = [f \in SessionFields |-> x[f]] /\ d \in Documents
      BY <2>1, <3>1 DEF PlacedInv, Placed, Commit
    <3>3. docs' = [d EXCEPT ![NextFile(x)] = x.new[NextFile(x)]]
      BY <2>1, <2>6, <3>1 DEF Commit, Target, NextFile
    <3>4. NextFile(x) \in DOMAIN x.new /\ NextFile(x) \in Written(x.cmd) /\ DOMAIN x.new = Written(x.cmd) /\ x.cmd \in Commands
      BY <3>2, NextFileWritten
    <3>5. Unknown(d, o) /\ Unaware(x, o)
      BY <1>1, <2>1
    <3>6. CASE ~ Submits(x, o)
      BY <2>4, <3>2, <3>3, <3>4, <3>5, <3>6, UnknownReplaced DEF Unaware
    <3>7. CASE Submits(x, o) /\ NextFile(x) # "operations"
      <4>1. NextFile(x) # "reviews"
        BY <3>4, <3>7, WritesInOrder DEF Submits
      <4>2. d = [f \in Files |-> d[f]] /\ {"operations", "reviews"} \subseteq Files
        BY <3>2, DocumentsAreFunctions DEF Files
      <4>3. docs'.operations = d.operations /\ docs'.reviews = d.reviews /\ DOMAIN docs' = DOMAIN d
        BY <3>3, <3>7, <4>1, <4>2
      <4>4. QED
        BY <2>4, <3>5, <4>3 DEF Unknown
    <3>8. CASE Submits(x, o) /\ NextFile(x) = "operations"
      <4>1. x.done + 1 = Len(Writes(x.cmd))
        BY <3>2, <3>8, ListIsLast DEF Submits
      <4>2. \/ docs' = docs
            \/ IsSession(y, IF x.done + 1 = Len(Writes(x.cmd)) THEN "close" ELSE "commit",
                         x.cmd, x.ids, x.todo, x.seen, x.new, x.before, x.done + 1)
        BY <1>0, <2>1, <3>1, <3>2, CommitStep
      <4>3. y.pc = "close" /\ y.cmd = x.cmd
        BY <2>6, <4>1, <4>2 DEF IsSession
      <4>4. QED
        BY <2>1, <3>8, <4>3 DEF Brought, Submits
    <3>9. QED
      BY <3>6, <3>7, <3>8
  <2>7. QED
    BY <2>5, <2>6
<1>4. ASSUME NEW s \in Sessions, Undo(s) \/ Close(s) PROVE Unborn(o)'
  <2>1. ses' = [ses EXCEPT ![s] = Idle]
    BY <1>4 DEF Undo, Close, Leave
  <2>2. \A t \in Sessions : Unaware(ses'[t], o)
    BY <1>0, <1>1, <2>1, IdleUnaware
  <2>3. PICK j : j = JournalOf(s)
    OBVIOUS
  <2>4. Unknown(j.before, o)
    BY <1>1, <2>3 DEF JournalOf, Unaware
  <2>5. Unknown(Undone(j), o)
    BY <1>0, <1>1, <2>4, UnknownUndone
  <2>6. /\ docs' = docs \/ docs' = Undone(j)
        /\ left' \subseteq left \cup {j}
    BY <1>4, <2>3 DEF Undo, Close
  <2>7. Unknown(docs', o) /\ \A k \in left' : Unknown(k.before, o)
    BY <1>1, <2>4, <2>5, <2>6
  <2>8. QED
    BY <2>2, <2>7, UnbornIsNext
<1>5. CASE Recover
  <2>1. PICK j \in left : docs' = Undone(j) /\ left' \subseteq left /\ ses' = ses
    BY <1>5 DEF Recover
  <2>2. Unknown(Undone(j), o)
    BY <1>0, <1>1, <2>1, UnknownUndone
  <2>3. QED
    BY <1>1, <2>1, <2>2, UnbornIsNext
<1>6. CASE CreateTask \/ RemoveLock
  <2>1. docs' = docs /\ left' = left /\ ses' = ses
    BY <1>6 DEF CreateTask, RemoveLock
  <2>2. QED
    BY <1>1, <2>1, UnbornIsNext
<1>7. \A s \in Sessions : ~ Die(s)
  BY <1>0 DEF Die
<1>8. QED
  BY <1>2, <1>3, <1>4, <1>5, <1>6, <1>7 DEF Next, Command, Works

LEMMA UnbornInit == Init => UnbornInv
<1> SUFFICES ASSUME Init, NEW o \in Ops PROVE Unborn(o)
  BY UnbornInvIs
<1>1. Unknown(docs, o)
  BY DEF Init, Unknown
<1>2. \A s \in Sessions : Unaware(ses[s], o)
  BY IdleUnaware DEF Init
<1>3. left = {}
  BY DEF Init
<1>4. QED
  BY <1>1, <1>2, <1>3, UnbornIs

LEMMA UnbornInvNext == PlacedInv /\ LockInv /\ UnbornInv /\ [Next]_vars => UnbornInv'
<1> SUFFICES ASSUME PlacedInv, LockInv, UnbornInv, [Next]_vars, deaths' = 0, NEW o \in Ops
             PROVE  Unborn(o)' \/ Brought(o)' \/ Over(o)'
  <2>1. UnbornInv' <=> (deaths' = 0 => \A o \in Ops : Unborn(o)' \/ Brought(o)' \/ Over(o)')
    BY DEF UnbornInv, Brought, Over
  <2>2. QED
    BY <2>1
<1>1. deaths \in Nat
  BY DEF PlacedInv, Bounded
<1>2. CASE Next
  <2>1. deaths' = deaths \/ deaths' = deaths + 1
    BY <1>2 DEF Next, Command, Start, Read, Compute, LockReview, Stage, Commit, Undo, Close, Die, RemoveLock, Recover,
                CreateTask
  <2>2. deaths' = deaths /\ deaths = 0
    BY <1>1, <2>1
  <2>3. Unborn(o) \/ Brought(o) \/ Over(o)
    BY <2>2, UnbornInvIs
  <2>4. QED
    BY <1>2, <2>2, <2>3, UnbornNext, BroughtNext, OverNext
<1>3. CASE UNCHANGED vars
  <2>1. Unborn(o) \/ Brought(o) \/ Over(o)
    BY <1>3, UnbornInvIs DEF vars
  <2>2. QED
    BY <1>3, <2>1 DEF Unborn, Unknown, Submits, Brought, Over, vars
<1>4. QED
  BY <1>2, <1>3

LEMMA UnbornAlways == Spec => []UnbornInv
  BY PlacedAlways, LockAlways, UnbornInit, UnbornInvNext, PTL DEF Spec

---------------------------------------------------------------------------
(* What arrives is pending.                                                 *)

LEMMA ForemostIsLatest ==
  ASSUME NEW operations \in [Ops -> Nat], NEW o \in Ops, Foremost(operations, o)
  PROVE  Latest(operations, ScopeOf(o)) = o /\ OfScope(operations, ScopeOf(o)) # {}
<1>1. o \in OfScope(operations, ScopeOf(o))
  BY DEF OfScope, Committed, Foremost
<1>2. PICK l : l = Latest(operations, ScopeOf(o))
  OBVIOUS
<1>3. l \in OfScope(operations, ScopeOf(o)) /\ operations[l] <= operations[o]
  BY <1>1, <1>2, LatestIsListed
<1>4. l \in Ops /\ operations[l] > 0 /\ operations[l] \in Nat
  BY <1>3 DEF OfScope, Committed
<1>5. l = o
  BY <1>3, <1>4 DEF Foremost
<1>6. QED
  BY <1>1, <1>2, <1>5

LEMMA PendingIs ==
  ASSUME NEW e \in Documents, e = docs', setting' = setting, NEW o \in Ops, Foremost(e.operations, o),
         e.reviews[o] = "PENDING"
  PROVE  Status(ScopeOf(o))' = "PENDING"
<1>1. e.operations \in [Ops -> Nat]
  BY DocumentsAreFunctions
<1>2. Latest(e.operations, ScopeOf(o)) = o /\ OfScope(e.operations, ScopeOf(o)) # {}
  BY <1>1, ForemostIsLatest
<1>3. \A s : OfScope(e.operations, s)' = OfScope(e.operations, s)
  BY DEF OfScope, Committed, ScopeOf
<1>4. \A s : Latest(e.operations, s)' = Latest(e.operations, s)
  BY <1>3 DEF Latest
<1>5. ScopeOf(o)' = ScopeOf(o)
  BY DEF ScopeOf
<1>6. QED
  BY <1>2, <1>3, <1>4, <1>5 DEF Status

\* Only the commit of its list brings an operation in, and no decision waits for it.
Brings(s, d, x, o) ==
    /\ Commit(s) /\ x.cmd.kind = "inspect" /\ x.cmd.on = o
    /\ d.reviews[o] = "PENDING"

LEMMA DocumentsChange ==
  ASSUME Next, docs' # docs PROVE Recover \/ \E s \in Sessions : Commit(s) \/ Undo(s)
  BY DEF Next, Command, Start, Read, Compute, LockReview, Stage, Close, Die, RemoveLock, CreateTask

LEMMA BringsInTurn ==
  ASSUME PlacedInv, TurnInv, setting.turn, Next, NEW s \in Sessions, NEW x, x = ses[s], NEW d, d = docs,
         x.cmd.kind = "inspect", x.pc = "commit", NEW o, o = x.cmd.on, o \notin Committed(d.operations),
         o \in Committed(docs'.operations)
  PROVE  Brings(s, d, x, o)
<1>1. Alone(s, d, x)
  BY TurnAlone
<1>2. docs' # docs
  OBVIOUS
<1>3. Commit(s)
  <2>1. \A t \in Sessions : t # s => ~ Commit(t) /\ ~ Undo(t)
    BY <1>1 DEF Alone, Commit, Undo
  <2>2. ~ Undo(s)
    BY DEF Undo
  <2>3. ~ Recover
    BY DEF Recover, InTurn
  <2>4. QED
    BY <1>2, <2>1, <2>2, <2>3, DocumentsChange
<1>4. PICK b : b = Put(d, x.before)
  OBVIOUS
<1>5. Writing(d, x, b) /\ Placed(x) /\ d \in Documents
  BY <1>1, <1>4 DEF Alone, Underway
<1>6. Agrees(d, x, b)
  BY <1>5, CommitAgrees
<1>7. docs' = [d EXCEPT ![NextFile(x)] = x.new[NextFile(x)]]
  BY <1>2, <1>3 DEF Commit, Target, NextFile
<1>8. NextFile(x) = "operations"
  <2>1. d = [f \in Files |-> d[f]] /\ "operations" \in Files
    BY <1>5, DocumentsAreFunctions DEF Files
  <2>2. NextFile(x) # "operations" => docs'.operations = d.operations
    BY <1>7, <2>1
  <2>3. QED
    BY <2>2
<1>9. d.operations = b.operations
  BY <1>6, <1>8 DEF Agrees
<1>10. d.reviews = b.reviews
  <2>1. "reviews" \notin Written(x.cmd) /\ "reviews" \in Files
    BY <1>1, WritesInOrder DEF Alone, Files
  <2>2. QED
    BY <1>6, <2>1 DEF Agrees
<1>11. Listed(b) /\ o \in Ops
  BY <1>1, <1>5, CommandKinds DEF Writing, Good, Alone
<1>12. QED
  BY <1>3, <1>9, <1>10, <1>11 DEF Brings, Listed

LEMMA BringsInAnyOrder ==
  ASSUME PlacedInv, LockInv, UnbornInv, deaths = 0, Next, NEW s \in Sessions, NEW x, x = ses[s], NEW d, d = docs,
         x.cmd.kind = "inspect", x.pc = "commit", NEW o \in Ops, o = x.cmd.on, o \notin Committed(d.operations),
         o \in Committed(docs'.operations)
  PROVE  Brings(s, d, x, o)
<1>1. Submits(ses[s], o) /\ d \in Documents
  BY DEF Submits, PlacedInv
<1>2. \A t \in Sessions : Submits(ses[t], o) => t = s
  BY <1>1, OneInspect DEF Submits
<1>3. Unborn(o)
  BY <1>1, <1>2, UnbornInvIs DEF Brought, Over
<1>4. d.reviews[o] = "PENDING"
  <2>1. d = [f \in Files |-> d[f]] /\ "reviews" \in Files
    BY <1>1, DocumentsAreFunctions DEF Files
  <2>2. QED
    BY <1>3, <2>1 DEF Unborn, Unknown
<1>5. docs' # docs
  OBVIOUS
<1>6. deaths' = deaths
  BY <1>5, DocumentsChange DEF Recover, Commit, Undo
<1>7. ~ Unborn(o)'
  <2>1. PICK e : e = docs'
    OBVIOUS
  <2>2. e \in Documents
    BY <2>1, PlacedNext DEF PlacedInv
  <2>3. e = [f \in Files |-> e[f]] /\ "operations" \in Files
    BY <2>2, DocumentsAreFunctions DEF Files
  <2>4. Unborn(o)' => Unknown(e, o)
    BY <2>1, UnbornIsNext
  <2>5. QED
    BY <2>1, <2>3, <2>4 DEF Unknown, Committed
<1>8. PICK t \in Sessions : Submits(ses'[t], o) /\ ses'[t].pc = "close"
  BY <1>3, <1>6, <1>7, UnbornNext DEF Brought, Submits
<1>9. ASSUME NEW u \in Sessions, Commit(u) PROVE u = s
  <2>1. t = s
    BY <1>2, <1>8, <1>9, SubmitsStays DEF Works
  <2>2. PICK z, y : z = ses[u] /\ y = ses'[u]
    OBVIOUS
  <2>3. z = [f \in SessionFields |-> z[f]] /\ ses = [v \in Sessions |-> ses[v]]
    BY <2>2 DEF PlacedInv, Placed
  <2>4. Goes(u, z, y)
    BY <1>9, <2>2, <2>3, CommandKept DEF Works
  <2>5. QED
    BY <1>8, <2>1, <2>4 DEF Goes, Others
<1>10. ASSUME NEW u \in Sessions, Undo(u) PROVE FALSE
  <2>1. ses' = [ses EXCEPT ![u] = Idle] /\ ses = [v \in Sessions |-> ses[v]]
    BY <1>10 DEF Undo, Leave, PlacedInv
  <2>2. ses'[t] = ses[t]
    BY <1>8, <2>1 DEF Idle
  <2>3. QED
    BY <1>2, <1>8, <2>2
<1>11. ASSUME Recover PROVE FALSE
  BY <1>2, <1>8, <1>11 DEF Recover
<1>12. QED
  BY <1>4, <1>5, <1>9, <1>10, <1>11, DocumentsChange DEF Brings

LEMMA BringsPending ==
  ASSUME PlacedInv, Next, NEW s \in Sessions, NEW x, x = ses[s], NEW d, d = docs, NEW o \in Ops, Brings(s, d, x, o),
         o \notin Committed(d.operations), o \in Committed(docs'.operations)
  PROVE  ses'[s].cmd.on = o /\ Status(ScopeOf(o))' = "PENDING"
<1>1. Placed(x) /\ x.pc = "commit" /\ x.cmd.kind = "inspect" /\ x.cmd.on = o /\ d.reviews[o] = "PENDING"
      /\ d \in Documents /\ x = [f \in SessionFields |-> x[f]] /\ ses = [v \in Sessions |-> ses[v]]
  BY DEF PlacedInv, Placed, Brings, Commit
<1>2. PICK e : e = docs'
  OBVIOUS
<1>3. e \in Documents
  BY <1>2, PlacedNext DEF PlacedInv
<1>4. e = [d EXCEPT ![NextFile(x)] = x.new[NextFile(x)]]
  BY <1>2 DEF Brings, Commit, Target, NextFile
<1>5. d = [f \in Files |-> d[f]] /\ {"operations", "reviews"} \subseteq Files
  BY <1>1, DocumentsAreFunctions DEF Files
<1>6. NextFile(x) = "operations"
  <2>1. NextFile(x) # "operations" => e.operations = d.operations
    BY <1>4, <1>5
  <2>2. QED
    BY <1>2, <2>1
<1>7. e.operations = x.new.operations /\ e.reviews = d.reviews
  BY <1>4, <1>5, <1>6
<1>8. Foremost(e.operations, o)
  BY <1>1, <1>7 DEF Placed
<1>9. setting' = setting
  BY DEF Brings, Commit
<1>10. Status(ScopeOf(o))' = "PENDING"
  BY <1>1, <1>2, <1>3, <1>7, <1>8, <1>9, PendingIs
<1>11. ses'[s].cmd.on = o
  <2>1. PICK y : y = ses'[s]
    OBVIOUS
  <2>2. \/ IsSession(y, "undo", x.cmd, x.ids, x.todo, x.seen, x.new, x.before, x.done)
        \/ IsSession(y, IF x.done + 1 = Len(Writes(x.cmd)) THEN "close" ELSE "commit",
                     x.cmd, x.ids, x.todo, x.seen, x.new, x.before, x.done + 1)
    BY <1>1, <2>1, CommitStep DEF Brings
  <2>3. y.cmd = x.cmd
    BY <2>2 DEF IsSession
  <2>4. QED
    BY <1>1, <2>1, <2>3
<1>12. QED
  BY <1>10, <1>11

\* In any order of commands, or whatever was killed among commands in turn: an
\* operation is pending when it arrives, so no decision on an earlier operation of its
\* scope, and none that was on its way, is taken for a decision on it.
THEOREM MemoryNewOperationIsPending == Spec => NewOperationIsPending
<1>1. ASSUME PlacedInv, TurnInv, LockInv, UnbornInv, [Next]_vars
      PROVE  [setting.turn \/ deaths = 0 => \A s \in Sessions :
                LET o == ses[s].cmd.on
                IN  /\ ses[s].cmd.kind = "inspect" /\ ses[s].pc = "commit"
                    /\ o \notin Committed(docs.operations) /\ o \in Committed(docs'.operations)
                    => Status(ScopeOf(o))' = "PENDING"]_vars
  <2> SUFFICES ASSUME Next, setting.turn \/ deaths = 0, NEW s \in Sessions,
                      ses[s].cmd.kind = "inspect", ses[s].pc = "commit",
                      ses[s].cmd.on \notin Committed(docs.operations), ses[s].cmd.on \in Committed(docs'.operations)
               PROVE  Status(ScopeOf(ses[s].cmd.on))' = "PENDING"
    BY <1>1
  <2>1. PICK x, d, o : x = ses[s] /\ d = docs /\ o = x.cmd.on
    OBVIOUS
  <2>2. o \in Ops
    BY <2>1 DEF Committed
  <2>3. Brings(s, d, x, o)
    <3>1. CASE setting.turn
      BY <1>1, <2>1, <3>1, BringsInTurn
    <3>2. CASE deaths = 0
      BY <1>1, <2>1, <2>2, <3>2, BringsInAnyOrder
    <3>3. QED
      BY <3>1, <3>2
  <2>4. ses'[s].cmd.on = o /\ Status(ScopeOf(o))' = "PENDING"
    BY <1>1, <2>1, <2>2, <2>3, BringsPending
  <2>5. QED
    BY <2>4
<1>2. QED
  BY <1>1, PlacedAlways, TurnAlways, LockAlways, UnbornAlways, PTL DEF Spec, NewOperationIsPending
=============================================================================
