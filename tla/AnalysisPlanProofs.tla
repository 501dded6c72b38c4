------------------------- MODULE AnalysisPlanProofs -------------------------
(***************************************************************************)
(* The plan of a Run, for any approved plan, any way its units come to be  *)
(* decided, and any number of stops: what a published report claims was    *)
(* assessed, no stage has lost; it accounts for every coordinate of the    *)
(* scope; and a Run closed plainly COMPLETE has lost nothing.              *)
(***************************************************************************)
EXTENDS AnalysisPlan, FiniteSetTheorems, SequenceTheorems, TLAPS

(***************************************************************************)
(* The inductive invariant.                                                *)
(***************************************************************************)
Scope == UNION Range(approved.units)
StageType == [stage : {"STRUCTURAL", "MEANING", "OL", "STC"}, kind : {"TASK", "PARTITIONED_PLAN"},
              units : Seq(UnitType), leftOut : SUBSET Coordinates, aggregated : BOOLEAN]

\* The stages of an RTC plan come in their order, an STC plan has one.
Ordered(list, plan) ==
    \A i \in DOMAIN list :
        /\ list[i].stage = "STC" <=> plan.operation = "stc"
        /\ list[i].stage = "STC" => i = 1 /\ Len(list) = 1
        /\ list[i].stage = "STRUCTURAL" => i = 1
        /\ list[i].stage = "MEANING" => i = 1 \/ (i = 2 /\ list[1].stage = "STRUCTURAL")
        /\ list[i].stage = "OL" => i > 1 /\ i = Len(list) /\ list[i - 1].stage = "MEANING"

\* A task is one unit.
Kinds(s) == s.kind = "TASK" => Len(s.units) = 1 /\ ~ s.aggregated

Typed ==
    /\ approved \in Plans
    /\ stages \in Seq(StageType) /\ \A i \in DOMAIN stages : Kinds(stages[i])
    /\ report \in [reviewed : SUBSET Coordinates, notAssessed : SUBSET Coordinates]
    /\ unavailable \subseteq Scope /\ log \subseteq Coordinates
    /\ published \in BOOLEAN
    /\ run \in {"CREATED", OpenRun} \cup ClosedRun
    /\ driver \in {"idle", "unit", "seal", "aggregate", "report", "close"}
    /\ stops \in 0 .. MaxStops

\* What a unit lost is in the log of exceptions before its result says so.
UnitSound(u, scope, rows) ==
    /\ u.atoms \subseteq scope /\ u.lost \subseteq u.atoms /\ u.requests \subseteq u.atoms
    /\ u.status = "CREATED" => u.lost = {} /\ u.requests = {}
    /\ UnitLost(u) \subseteq rows

Atoms(s) == UNION {u.atoms : u \in Range(s.units)}

\* A stage that reads takes in the whole scope, and a partition of one carries what
\* planning left out.
StageSound(s, plan) ==
    /\ s.stage \in {"MEANING", "STC"} => Atoms(s) = UNION Range(plan.units)
    /\ s.leftOut \subseteq plan.leftOut
    /\ s.kind = "PARTITIONED_PLAN" /\ s.stage \in {"MEANING", "STC"} => s.leftOut = plan.leftOut
    /\ s.kind = "TASK" /\ s.stage = "MEANING" => Len(plan.units) = 1
    /\ s.kind = "TASK" /\ s.stage = "STC" => plan.leftOut = {}
    /\ s.aggregated => AllDecided(s)

Sound(list, plan, rows) ==
    /\ Ordered(list, plan)
    /\ \A i \in DOMAIN list :
          /\ StageSound(list[i], plan)
          /\ \A j \in DOMAIN list[i].units : UnitSound(list[i].units[j], UNION Range(plan.units), rows)

\* Every request has its case or is recorded as unservable.
RequestsPlaced ==
    stages # <<>> /\ Current.stage = "OL" =>
        approved.drift /\ Requests \subseteq unavailable \cup Atoms(Current)

\* Where the session is.
Driving ==
    /\ run = "CREATED" <=> stages = <<>>
    /\ driver # "idle" => run = OpenRun
    /\ driver \in {"unit", "seal"} => ~ AllDecided(Current) /\ ~ published
    /\ driver = "seal" => Current.units[NextUnit(Current)].atoms \subseteq log
    /\ driver = "aggregate" => AllDecided(Current) /\ Current.kind = "PARTITIONED_PLAN" /\ ~ published
    /\ published => run # "CREATED"

\* A chapter that planning left out of a plan of one unit is forgotten by RTC
\* (rtc_tasks.py:187-209).
Forgets(plan) == plan.operation = "rtc" /\ Len(plan.units) = 1 /\ plan.leftOut # {}

\* What a report says of the stages it is made of.
Honest(r, list) ==
    \A i \in DOMAIN list : \A j \in DOMAIN list[i].units : UnitLost(list[i].units[j]) \cap r.reviewed = {}

Answered(r, list) ==
    \E i \in DOMAIN list : list[i].stage = "OL" /\ \E j \in DOMAIN list[i].units :
        r \in list[i].units[j].atoms /\ list[i].units[j].status = "FINALIZED"

Complete(r, plan) ==
    /\ ~ Forgets(plan) => r.reviewed \cup r.notAssessed = (UNION Range(plan.units)) \cup plan.leftOut
    /\ r.reviewed \cap r.notAssessed = {}

Reported ==
    published \/ driver = "report" =>
        /\ Honest(report, stages)
        /\ approved.drift => \A r \in Requests \cap report.reviewed : Answered(r, stages)
        /\ Complete(report, approved)

\* The status of the Run was read from the log, which nothing changes any more.
ClosedByLog == run = "COMPLETE" => log = {}

PlanInv ==
    Typed /\ Sound(stages, approved, log) /\ RequestsPlaced /\ Driving /\ Reported /\ ClosedByLog

LEMMA InitPlanInv == Init => PlanInv
<1> SUFFICES ASSUME Init PROVE PlanInv
  OBVIOUS
<1>1. Typed
  <2>1. <<>> \in Seq(StageType) /\ DOMAIN <<>> = {}
    OBVIOUS
  <2>2. NoReport \in [reviewed : SUBSET Coordinates, notAssessed : SUBSET Coordinates]
    BY DEF NoReport
  <2>3. approved \in Plans /\ stages \in Seq(StageType) /\ \A i \in DOMAIN stages : Kinds(stages[i])
    BY <2>1 DEF Init
  <2>4. stops \in 0 .. MaxStops
    BY StopsAssumption DEF Init
  <2>5. QED
    BY <2>2, <2>3, <2>4 DEF Init, Typed, OpenRun, ClosedRun
<1>2. Sound(stages, approved, log)
  BY DEF Init, Sound, Ordered
<1>3. RequestsPlaced /\ Driving /\ Reported /\ ClosedByLog
  BY DEF Init, RequestsPlaced, Driving, Reported, ClosedByLog
<1>4. QED
  BY <1>1, <1>2, <1>3 DEF PlanInv

---------------------------------------------------------------------------
(* The operators of the plan.                                               *)

LessThan == {pair \in Nat \X Nat : pair[1] < pair[2]}

LEMMA NatWellFounded == IsWellFoundedOn(LessThan, Nat)
  BY NatLessThanWellFounded DEF OpToRel, LessThan

\* A stage that is not decided has a next unit, which is not.
LEMMA NextUnitIsUndecided ==
  ASSUME NEW s, NEW S, s.units \in Seq(S), ~ AllDecided(s)
  PROVE  NextUnit(s) \in DOMAIN s.units /\ ~ Decided(s.units[NextUnit(s)])
<1> DEFINE open == {i \in DOMAIN s.units : ~ Decided(s.units[i])}
<1>1. open \subseteq Nat /\ open # {}
  BY DEF AllDecided
<1>2. PICK i \in open : \A j \in open : <<j, i>> \notin LessThan
  BY <1>1, NatWellFounded, WFMin
<1>3. i \in DOMAIN s.units /\ ~ Decided(s.units[i]) /\ \A j \in 1 .. i - 1 : Decided(s.units[j])
  <2>1. ASSUME NEW j \in 1 .. i - 1, ~ Decided(s.units[j]) PROVE FALSE
    <3>1. j \in open /\ j < i
      BY <1>1, <1>2, <2>1
    <3>2. QED
      BY <1>1, <1>2, <3>1 DEF LessThan
  <2>2. QED
    BY <1>2, <2>1
<1>4. QED
  BY <1>3 DEF NextUnit

\* A sequence of all members of a finite set, each once.
LEMMA SequenceOfSet ==
  ASSUME NEW S, IsFiniteSet(S)
  PROVE  SetToSeq(S) \in Seq(S) /\ Range(SetToSeq(S)) = S
<1> DEFINE n == Cardinality(S)
           f == SetToSeq(S)
<1>1. n \in Nat /\ ExistsBijection(1 .. n, S)
  BY FS_CardinalityType
<1>2. \E g \in [1 .. n -> S] : IsInjective(g)
  BY <1>1 DEF ExistsBijection, Bijection, Injection
<1>3. f \in [1 .. n -> S] /\ IsInjective(f)
  BY <1>2 DEF SetToSeq
<1>4. IsFiniteSet(1 .. n) /\ Cardinality(1 .. n) = n
  BY <1>1, FS_Interval
<1> HIDE DEF f
<1>5. f \in Injection(1 .. n, S)
  BY <1>3 DEF Injection
<1>6. f \in Surjection(1 .. n, S)
  <2> DEFINE places == 1 .. n
  <2>1. f \in Injection(places, S) /\ Cardinality(places) = Cardinality(S)
    BY <1>4, <1>5
  <2> HIDE DEF places
  <2>2. f \in Surjection(places, S)
    BY <2>1, FS_Injection
  <2>3. QED
    BY <2>2 DEF places
<1>7. f \in Seq(S) /\ Range(f) = S
  BY <1>1, <1>3, <1>6 DEF Surjection, Range
<1>8. QED
  BY <1>7 DEF f

---------------------------------------------------------------------------
(* New stages.                                                              *)

Parts == (SUBSET Coordinates) \ {{}}

\* A stage is made of units that wait to be decided.
Fresh(s) ==
    /\ s \in StageType /\ Kinds(s) /\ ~ s.aggregated
    /\ \A j \in DOMAIN s.units : s.units[j].status = "CREATED" /\ s.units[j].lost = {} /\ s.units[j].requests = {}

LEMMA StageIsFresh ==
  ASSUME NEW name \in {"STRUCTURAL", "MEANING", "OL", "STC"}, NEW kind \in {"TASK", "PARTITIONED_PLAN"},
         NEW units \in Seq(Parts), NEW leftOut \in SUBSET Coordinates, kind = "TASK" => Len(units) = 1
  PROVE  LET s == Stage(name, kind, units, leftOut)
         IN  /\ Fresh(s) /\ s.stage = name /\ s.kind = kind /\ s.leftOut = leftOut
             /\ Atoms(s) = UNION Range(units)
             /\ DOMAIN s.units = DOMAIN units /\ \A j \in DOMAIN units : s.units[j].atoms = units[j]
<1> DEFINE s == Stage(name, kind, units, leftOut)
           list == [i \in DOMAIN units |-> Unit(units[i])]
<1>1. s = [stage |-> name, kind |-> kind, units |-> list, leftOut |-> leftOut, aggregated |-> FALSE]
  BY DEF Stage
<1>2. \A i \in DOMAIN units : units[i] \in Parts
  OBVIOUS
<1>3. /\ DOMAIN list = DOMAIN units /\ DOMAIN list = 1 .. Len(units) /\ Len(units) \in Nat
      /\ \A i \in DOMAIN units : /\ list[i] \in UnitType /\ list[i].atoms = units[i]
                                 /\ list[i].status = "CREATED" /\ list[i].lost = {} /\ list[i].requests = {}
  BY <1>2 DEF Unit, UnitType, Parts
<1>k. list \in [1 .. Len(units) -> UnitType]
  BY <1>3
<1>f. s.stage = name /\ s.kind = kind /\ s.units = list /\ s.leftOut = leftOut /\ s.aggregated = FALSE
  BY <1>1
<1> HIDE DEF list
<1>4. list \in Seq(UnitType) /\ Len(list) = Len(units)
  BY <1>3, <1>k
<1>5. Atoms(s) = UNION Range(units)
  BY <1>1, <1>3 DEF Atoms, Range
<1>6. Fresh(s)
  BY <1>1, <1>3, <1>4, <1>f DEF Fresh, StageType, Kinds
<1> HIDE DEF s
<1>7. QED
  BY <1>3, <1>5, <1>6, <1>f DEF s

\* The parts of a plan in order, each non-empty.
LEMMA PlanParts ==
  ASSUME approved \in Plans
  PROVE  /\ approved.units \in Seq(Parts) /\ approved.units # <<>> /\ Scope \subseteq Coordinates
         /\ approved.leftOut \subseteq Coordinates /\ approved.structural \subseteq Scope
         /\ approved.operation \in {"rtc", "stc"}
<1>1. /\ approved.units \in Seq(Parts) /\ approved.units # <<>>
      /\ approved.leftOut \subseteq Coordinates /\ approved.structural \subseteq Scope
      /\ approved.operation \in {"rtc", "stc"}
  BY PlansAssumption DEF Parts, Scope
<1>2. Scope \subseteq Coordinates
  BY <1>1 DEF Scope, Range, Parts
<1>3. QED
  BY <1>1, <1>2

\* The k-th owner exists.
LEMMA Ranked ==
  ASSUME NEW S \in SUBSET Nat, IsFiniteSet(S), NEW k \in 1 .. Cardinality(S)
  PROVE  \E i \in S : Cardinality({j \in S : j < i}) = k - 1
<1> DEFINE rank == [i \in S |-> Cardinality({j \in S : j < i})]
           room == 0 .. Cardinality(S) - 1
<1>1. Cardinality(S) \in Nat
  BY FS_CardinalityType
<1>2. IsFiniteSet(room) /\ Cardinality(room) = Cardinality(S)
  <2>1. 0 \in Int /\ Cardinality(S) - 1 \in Int
    BY <1>1
  <2>2. IsFiniteSet(0 .. Cardinality(S) - 1)
        /\ Cardinality(0 .. Cardinality(S) - 1)
             = IF 0 > Cardinality(S) - 1 THEN 0 ELSE Cardinality(S) - 1 - 0 + 1
    BY <2>1, FS_Interval
  <2>3. QED
    BY <1>1, <2>2
<1>3. ASSUME NEW i \in S
      PROVE  Cardinality({j \in S : j < i}) \in 0 .. Cardinality(S) - 1
  <2>1. {j \in S : j < i} \subseteq S \ {i}
    OBVIOUS
  <2>2. IsFiniteSet(S \ {i}) /\ Cardinality(S \ {i}) = Cardinality(S) - 1
    BY FS_RemoveElement
  <2>3. Cardinality({j \in S : j < i}) \in Nat /\ Cardinality({j \in S : j < i}) <= Cardinality(S) - 1
    BY <2>1, <2>2, FS_Subset, FS_CardinalityType
  <2>4. QED
    BY <1>1, <2>3
<1>4. ASSUME NEW x \in S, NEW y \in S, x < y
      PROVE  Cardinality({j \in S : j < x}) # Cardinality({j \in S : j < y})
  <2> DEFINE X == {j \in S : j < x}
             Y == {j \in S : j < y}
  <2>1. \A j \in S : j < x => j < y
    BY <1>4
  <2>s. ~ (x < x)
    OBVIOUS
  <2>2. X \subseteq Y /\ x \in Y /\ x \notin X
    BY <1>4, <2>s, <2>1
  <2>3. IsFiniteSet(Y)
    BY FS_Subset, Y \subseteq S
  <2>4. QED
    BY <2>2, <2>3, FS_Subset
<1>5. rank \in [S -> room] /\ \A x, y \in S : x # y => rank[x] # rank[y]
  <2>1. rank \in [S -> room]
    BY <1>3
  <2>2. ASSUME NEW x \in S, NEW y \in S, x # y PROVE rank[x] # rank[y]
    <3>1. x < y \/ y < x
      BY <2>2
    <3>2. QED
      BY <1>4, <3>1
  <2>3. QED
    BY <2>1, <2>2
<1> HIDE DEF rank, room
<1>6. rank \in Injection(S, room)
  BY <1>5 DEF Injection, IsInjective
<1>7. rank \in Surjection(S, room)
  BY <1>2, <1>6, FS_Injection
<1>8. k - 1 \in room
  BY <1>1 DEF room
<1>9. PICK i \in S : rank[i] = k - 1
  BY <1>7, <1>8 DEF Surjection
<1>10. QED
  BY <1>9 DEF rank

LEMMA OwnedPartsAreParts ==
  ASSUME approved \in Plans, NEW references
  PROVE  /\ OwnedParts(references) \in Seq(Parts)
         /\ UNION Range(OwnedParts(references)) \subseteq Scope
<1> DEFINE owners == {i \in DOMAIN approved.units : approved.units[i] \cap references # {}}
           owner(k) == CHOOSE i \in owners : Cardinality({j \in owners : j < i}) = k - 1
           n == Cardinality(owners)
<1>1. /\ approved.units \in Seq(Parts) /\ DOMAIN approved.units = 1 .. Len(approved.units)
      /\ Len(approved.units) \in Nat
  BY PlanParts
<1>2. owners \subseteq Nat /\ IsFiniteSet(owners) /\ n \in Nat
  <2>1. owners \subseteq 1 .. Len(approved.units) /\ owners \subseteq Nat
    BY <1>1
  <2>2. IsFiniteSet(1 .. Len(approved.units))
    BY <1>1, FS_Interval
  <2>3. IsFiniteSet(owners)
    BY <2>1, <2>2, FS_Subset
  <2>4. QED
    BY <2>1, <2>3, FS_CardinalityType
<1>3. ASSUME NEW k \in 1 .. n PROVE owner(k) \in owners
  <2>1. \E i \in owners : Cardinality({j \in owners : j < i}) = k - 1
    BY <1>2, Ranked
  <2>2. QED
    BY <2>1
<1>4. OwnedParts(references) = [k \in 1 .. n |-> approved.units[owner(k)] \cap references]
  BY DEF OwnedParts
<1>5. ASSUME NEW k \in 1 .. n
      PROVE  /\ approved.units[owner(k)] \cap references \in Parts
             /\ approved.units[owner(k)] \cap references \subseteq Scope
  <2> DEFINE o == owner(k)
  <2>1. o \in DOMAIN approved.units /\ approved.units[o] \cap references # {}
    BY <1>3
  <2> HIDE DEF o
  <2>2. approved.units[o] \in Parts /\ approved.units[o] \subseteq Scope
    BY <1>1, <2>1 DEF Scope, Range
  <2>3. approved.units[o] \cap references \in Parts /\ approved.units[o] \cap references \subseteq Scope
    BY <2>1, <2>2 DEF Parts
  <2>4. QED
    BY <2>3 DEF o
<1> DEFINE list == [k \in 1 .. n |-> approved.units[owner(k)] \cap references]
<1>6. list \in [1 .. n -> Parts] /\ \A k \in 1 .. n : list[k] \subseteq Scope
  BY <1>5
<1>7. OwnedParts(references) = list
  BY <1>4
<1> HIDE DEF list, n
<1>8. QED
  BY <1>2, <1>6, <1>7 DEF Range

\* Each stage as it is created.
Created(s) ==
    /\ Fresh(s) /\ StageSound(s, approved)
    /\ \A j \in DOMAIN s.units : s.units[j].atoms \subseteq Scope

LEMMA ApprovedStageCreated ==
  ASSUME approved \in Plans, NEW references,
         NEW name, references = {} => name = "MEANING", references # {} => name = "STRUCTURAL"
  PROVE  Created(ApprovedStage(name, references)) /\ ApprovedStage(name, references).stage = name
<1> DEFINE owned == IF references = {} THEN approved.units ELSE OwnedParts(references)
           s == ApprovedStage(name, references)
<1>1. owned \in Seq(Parts) /\ UNION Range(owned) \subseteq Scope /\ (references = {} => owned = approved.units)
  BY PlanParts, OwnedPartsAreParts DEF Scope
<1>2. \A j \in DOMAIN owned : owned[j] \subseteq Scope
  BY <1>1 DEF Range
<1>3. s = IF Len(owned) = 1 THEN Stage(name, "TASK", owned, {})
          ELSE Stage(name, "PARTITIONED_PLAN", owned, IF references = {} THEN approved.leftOut ELSE {})
  BY DEF ApprovedStage
<1>4. approved.leftOut \subseteq Coordinates
  BY PlanParts
<1> HIDE DEF owned, s
<1>5. CASE Len(owned) = 1
  <2>1. /\ Fresh(s) /\ s.stage = name /\ s.kind = "TASK" /\ s.leftOut = {}
        /\ Atoms(s) = UNION Range(owned)
        /\ DOMAIN s.units = DOMAIN owned /\ \A j \in DOMAIN owned : s.units[j].atoms = owned[j]
    BY <1>1, <1>3, <1>5, StageIsFresh
  <2>2. StageSound(s, approved)
    BY <1>1, <1>5, <2>1 DEF StageSound, Fresh, Scope
  <2>3. QED
    BY <1>2, <2>1, <2>2 DEF Created, s
<1>6. CASE Len(owned) # 1
  <2> DEFINE out == IF references = {} THEN approved.leftOut ELSE {}
  <2>1. /\ Fresh(s) /\ s.stage = name /\ s.kind = "PARTITIONED_PLAN" /\ s.leftOut = out
        /\ Atoms(s) = UNION Range(owned)
        /\ DOMAIN s.units = DOMAIN owned /\ \A j \in DOMAIN owned : s.units[j].atoms = owned[j]
    BY <1>1, <1>3, <1>4, <1>6, StageIsFresh
  <2>2. StageSound(s, approved)
    BY <1>1, <2>1 DEF StageSound, Fresh, Scope
  <2>3. QED
    BY <1>2, <2>1, <2>2 DEF Created, s
<1>7. QED
  BY <1>5, <1>6

LEMMA StcStageCreated ==
  ASSUME approved \in Plans
  PROVE  Created(StcStage) /\ StcStage.stage = "STC"
<1>1. /\ approved.units \in Seq(Parts) /\ approved.units # <<>> /\ approved.leftOut \subseteq Coordinates
      /\ Scope = UNION Range(approved.units)
  BY PlanParts DEF Scope
<1>2. \A j \in DOMAIN approved.units : approved.units[j] \subseteq Scope
  BY <1>1 DEF Range
<1>3. CASE Len(approved.units) > 1 \/ approved.leftOut # {}
  <2> DEFINE s == Stage("STC", "PARTITIONED_PLAN", approved.units, approved.leftOut)
  <2>1. StcStage = s
    BY <1>3 DEF StcStage
  <2>2. /\ Fresh(s) /\ s.stage = "STC" /\ s.kind = "PARTITIONED_PLAN" /\ s.leftOut = approved.leftOut
        /\ Atoms(s) = UNION Range(approved.units)
        /\ DOMAIN s.units = DOMAIN approved.units
        /\ \A j \in DOMAIN approved.units : s.units[j].atoms = approved.units[j]
    BY <1>1, StageIsFresh
  <2> HIDE DEF s
  <2>3. QED
    BY <1>1, <1>2, <2>1, <2>2 DEF Created, StageSound, Fresh
<1>4. CASE ~ (Len(approved.units) > 1 \/ approved.leftOut # {})
  <2> DEFINE s == Stage("STC", "TASK", approved.units, {})
  <2>1. StcStage = s
    BY <1>4 DEF StcStage
  <2>l. Len(approved.units) = 1
    <3> DEFINE n == Len(approved.units)
    <3>1. n \in Nat /\ n # 0 /\ ~ (n > 1)
      BY <1>1, <1>4, EmptySeq
    <3> HIDE DEF n
    <3>2. n = 1
      BY <3>1
    <3>3. QED
      BY <3>2 DEF n
  <2>2. /\ Fresh(s) /\ s.stage = "STC" /\ s.kind = "TASK" /\ s.leftOut = {}
        /\ Atoms(s) = UNION Range(approved.units)
        /\ DOMAIN s.units = DOMAIN approved.units
        /\ \A j \in DOMAIN approved.units : s.units[j].atoms = approved.units[j]
    BY <1>1, <2>l, StageIsFresh
  <2> HIDE DEF s
  <2>3. QED
    BY <1>1, <1>2, <1>4, <2>1, <2>2 DEF Created, StageSound, Fresh
<1>5. QED
  BY <1>3, <1>4

\* The stage of single cases has one for each request it is given.
LEMMA CaseStageCreated ==
  ASSUME approved \in Plans, NEW requests, requests \subseteq Scope
  PROVE  Created(CaseStage(requests)) /\ CaseStage(requests).stage = "OL" /\ Atoms(CaseStage(requests)) = requests
<1> DEFINE cases == {{r} : r \in requests}
           list == SetToSeq(cases)
<1>1. requests \subseteq Coordinates /\ IsFiniteSet(requests)
  BY PlanParts, PlansAssumption, FS_Subset
<1>2. IsFiniteSet(cases)
  <2> DEFINE f == [r \in requests |-> {r}]
  <2>1. f \in Surjection(requests, cases)
    BY DEF Surjection
  <2> HIDE DEF f, cases
  <2>2. QED
    BY <1>1, <2>1, FS_Surjection
<1>3. cases \subseteq Parts /\ UNION cases = requests /\ \A c \in cases : c \subseteq Scope
  BY <1>1 DEF Parts
<1>4. list \in Seq(cases) /\ Range(list) = cases
  BY <1>2, SequenceOfSet
<1>5. CaseStage(requests) = Stage("OL", IF Len(list) = 1 THEN "TASK" ELSE "PARTITIONED_PLAN", list, {})
  BY DEF CaseStage
<1> HIDE DEF cases, list
<1>6. list \in Seq(Parts) /\ UNION Range(list) = requests /\ \A j \in DOMAIN list : list[j] \subseteq Scope
  BY <1>3, <1>4
<1> DEFINE s == CaseStage(requests)
<1>7. {} \in SUBSET Coordinates /\ "OL" \in {"STRUCTURAL", "MEANING", "OL", "STC"}
  OBVIOUS
<1>8. s = IF Len(list) = 1 THEN Stage("OL", "TASK", list, {}) ELSE Stage("OL", "PARTITIONED_PLAN", list, {})
  BY <1>5
<1> HIDE DEF s
<1>9. /\ Fresh(s) /\ s.stage = "OL" /\ s.leftOut = {} /\ Atoms(s) = requests
      /\ DOMAIN s.units = DOMAIN list /\ \A j \in DOMAIN list : s.units[j].atoms = list[j]
  <2>1. CASE Len(list) = 1
    <3>1. s = Stage("OL", "TASK", list, {})
      BY <1>8, <2>1
    <3>2. Fresh(s) /\ s.stage = "OL" /\ s.leftOut = {} /\ Atoms(s) = UNION Range(list)
      BY <1>6, <1>7, <2>1, <3>1, StageIsFresh
    <3>3. DOMAIN s.units = DOMAIN list /\ \A j \in DOMAIN list : s.units[j].atoms = list[j]
      BY <1>6, <1>7, <2>1, <3>1, StageIsFresh
    <3>4. QED
      BY <1>6, <3>2, <3>3
  <2>2. CASE Len(list) # 1
    <3>1. s = Stage("OL", "PARTITIONED_PLAN", list, {})
      BY <1>8, <2>2
    <3>2. Fresh(s) /\ s.stage = "OL" /\ s.leftOut = {} /\ Atoms(s) = UNION Range(list)
      BY <1>6, <1>7, <3>1, StageIsFresh
    <3>3. DOMAIN s.units = DOMAIN list /\ \A j \in DOMAIN list : s.units[j].atoms = list[j]
      BY <1>6, <1>7, <3>1, StageIsFresh
    <3>4. QED
      BY <1>6, <3>2, <3>3
  <2>3. QED
    BY <2>1, <2>2
<1>10. QED
  BY <1>6, <1>9 DEF Created, StageSound, Fresh, s

---------------------------------------------------------------------------
(* What a report is made of.                                                *)

LEMMA RequestsInScope ==
  ASSUME Sound(stages, approved, log)
  PROVE  Requests \subseteq Scope
  BY DEF Sound, UnitSound, Requests, Scope, Range

\* What a stage and its units lost is of the scope, or was left out of it.
LEMMA StageLostInScope ==
  ASSUME NEW s \in StageType, StageSound(s, approved), Requests \subseteq Scope,
         \A j \in DOMAIN s.units : UnitSound(s.units[j], Scope, log)
  PROVE  /\ StageLost(s) \subseteq Scope \cup approved.leftOut /\ s.leftOut \subseteq StageLost(s)
         /\ \A j \in DOMAIN s.units : UnitLost(s.units[j]) \subseteq StageLost(s)
<1>1. \A j \in DOMAIN s.units : UnitLost(s.units[j]) \subseteq Scope
  BY DEF UnitSound, UnitLost
<1>2. s.leftOut \subseteq approved.leftOut
  BY DEF StageSound
<1>3. \A u \in Range(s.units) : UnitLost(u) \subseteq Scope
  BY <1>1 DEF Range
<1>4. StageLost(s) \subseteq Scope \cup approved.leftOut
  BY <1>2, <1>3 DEF StageLost
<1>5. \A j \in DOMAIN s.units : s.units[j] \in Range(s.units)
  BY DEF Range
<1>6. QED
  BY <1>4, <1>5 DEF StageLost

\* Coverage is honest and complete as soon as a stage has read the scope.
LEMMA CoverageOfStages ==
  ASSUME Typed, NEW list \in Seq(StageType), Sound(list, approved, log), Requests \subseteq Scope,
         NEW unserved, unserved \subseteq Scope,
         NEW m \in DOMAIN list, list[m].stage \in {"MEANING", "STC"}
  PROVE  LET c == Coverage(list, unserved)
         IN  /\ c \in [reviewed : SUBSET Coordinates, notAssessed : SUBSET Coordinates]
             /\ Honest(c, list) /\ Complete(c, approved) /\ c.reviewed \cap unserved = {}
             /\ \A i \in DOMAIN list : StageLost(list[i]) \cap c.reviewed = {}
<1> DEFINE lost == (UNION {StageLost(s) : s \in Range(list)}) \cup unserved
           read == UNION {UNION {u.atoms : u \in Range(s.units)} :
                             s \in {t \in Range(list) : t.stage \in {"MEANING", "STC"}}}
           c == Coverage(list, unserved)
<1>1. c = [reviewed |-> read \ lost, notAssessed |-> lost]
  BY DEF Coverage
<1>2. ASSUME NEW i \in DOMAIN list
      PROVE  /\ list[i] \in StageType /\ StageSound(list[i], approved)
             /\ \A j \in DOMAIN list[i].units : UnitSound(list[i].units[j], Scope, log)
             /\ list[i] \in Range(list)
  <2>1. list[i] \in StageType
    OBVIOUS
  <2>2. list[i] \in Range(list)
    BY DEF Range
  <2>3. StageSound(list[i], approved) /\ \A j \in DOMAIN list[i].units : UnitSound(list[i].units[j], Scope, log)
    BY DEF Sound, Scope
  <2>4. QED
    BY <2>1, <2>2, <2>3
<1>3. \A i \in DOMAIN list :
          /\ StageLost(list[i]) \subseteq Scope \cup approved.leftOut /\ list[i].leftOut \subseteq StageLost(list[i])
          /\ \A j \in DOMAIN list[i].units : UnitLost(list[i].units[j]) \subseteq StageLost(list[i])
  BY <1>2, StageLostInScope
<1>4. lost \subseteq Scope \cup approved.leftOut /\ unserved \subseteq lost
  BY <1>3 DEF Range
<1>5. \A i \in DOMAIN list : StageLost(list[i]) \subseteq lost
  BY <1>2
<1>6. read = Scope
  <2>1. ASSUME NEW s \in Range(list), s.stage \in {"MEANING", "STC"}
        PROVE  UNION {u.atoms : u \in Range(s.units)} = Scope
    <3>1. PICK k \in DOMAIN list : s = list[k]
      BY DEF Range
    <3>2. StageSound(s, approved)
      BY <1>2, <3>1
    <3>3. QED
      BY <2>1, <3>2 DEF StageSound, Atoms, Scope
  <2>2. list[m] \in Range(list)
    BY <1>2
  <2>3. QED
    BY <2>1, <2>2
<1>7. ~ Forgets(approved) => approved.leftOut \subseteq lost
  <2> SUFFICES ASSUME ~ Forgets(approved), approved.leftOut # {} PROVE approved.leftOut \subseteq lost
    OBVIOUS
  <2>1. approved.operation \in {"rtc", "stc"}
    BY PlanParts DEF Typed
  <2>2. list[m].stage = "STC" <=> approved.operation = "stc"
    BY DEF Sound, Ordered
  <2>3. list[m].kind \in {"TASK", "PARTITIONED_PLAN"}
    BY <1>2 DEF StageType
  <2>4. list[m].kind # "TASK"
    BY <1>2, <2>1, <2>2 DEF StageSound, Forgets
  <2>5. list[m].leftOut = approved.leftOut
    BY <1>2, <2>3, <2>4 DEF StageSound
  <2>6. QED
    BY <1>3, <1>5, <2>5
<1>8. Scope \subseteq Coordinates /\ approved.leftOut \subseteq Coordinates
  BY PlanParts DEF Typed
<1> HIDE DEF lost, read
<1>9. c.reviewed = Scope \ lost /\ c.notAssessed = lost
  BY <1>1, <1>6
<1>10. c \in [reviewed : SUBSET Coordinates, notAssessed : SUBSET Coordinates]
  BY <1>1, <1>4, <1>6, <1>8
<1>11. Complete(c, approved)
  BY <1>4, <1>7, <1>9 DEF Complete, Scope
<1> HIDE DEF c
<1>12. Honest(c, list) /\ \A i \in DOMAIN list : StageLost(list[i]) \cap c.reviewed = {}
  BY <1>3, <1>5, <1>9 DEF Honest
<1>13. c.reviewed \cap unserved = {}
  BY <1>4, <1>9
<1>14. QED
  BY <1>10, <1>11, <1>12, <1>13 DEF c

---------------------------------------------------------------------------
(* How the stages change.                                                   *)

LEMMA SoundMore ==
  ASSUME NEW u, NEW scope, NEW rows, NEW more, UnitSound(u, scope, rows), rows \subseteq more
  PROVE  UnitSound(u, scope, more)
  BY DEF UnitSound

\* A stage is appended.
LEMMA AppendKeeps ==
  ASSUME Typed, Sound(stages, approved, log), NEW s, Created(s), stages' = Append(stages, s),
         UNCHANGED <<approved, log>>, Ordered(stages', approved)
  PROVE  /\ stages' \in Seq(StageType) /\ \A i \in DOMAIN stages' : Kinds(stages'[i])
         /\ Sound(stages', approved', log') /\ Current' = s /\ Requests' = Requests /\ stages' # <<>>
<1> DEFINE n == Len(stages)
<1>1. /\ n \in Nat /\ DOMAIN stages = 1 .. n /\ stages' \in Seq(StageType) /\ Len(stages') = n + 1
      /\ DOMAIN stages' = 1 .. n + 1 /\ stages'[n + 1] = s
      /\ \A i \in 1 .. n : stages'[i] = stages[i]
  BY DEF Typed, Created, Fresh
<1>2. \A j \in DOMAIN s.units : UnitSound(s.units[j], Scope, log)
  BY DEF Created, Fresh, UnitSound, UnitLost
<1>3. \A i \in DOMAIN stages' : i \in 1 .. n \/ i = n + 1
  BY <1>1
<1>4. \A i \in DOMAIN stages' :
          /\ StageSound(stages'[i], approved) /\ Kinds(stages'[i])
          /\ \A j \in DOMAIN stages'[i].units : UnitSound(stages'[i].units[j], Scope, log)
  <2> TAKE i \in DOMAIN stages'
  <2>1. CASE i \in 1 .. n
    BY <1>1, <2>1 DEF Typed, Sound, Scope
  <2>2. CASE i = n + 1
    BY <1>1, <1>2, <2>2 DEF Created, Fresh
  <2>3. QED
    BY <1>3, <2>1, <2>2
<1>5. Requests' = Requests
  <2>1. \A j \in DOMAIN s.units : s.units[j].requests = {}
    BY DEF Created, Fresh
  <2>2. UNION {u.requests : u \in Range(s.units)} = {}
    BY <2>1 DEF Range
  <2>3. Range(stages') = Range(stages) \cup {s}
    <3>1. \A i \in DOMAIN stages' : stages'[i] \in Range(stages) \cup {s}
      BY <1>1, <1>3 DEF Range
    <3>2. \A i \in DOMAIN stages : stages[i] = stages'[i] /\ i \in DOMAIN stages'
      BY <1>1
    <3>3. n + 1 \in DOMAIN stages'
      BY <1>1
    <3>4. QED
      BY <1>1, <3>1, <3>2, <3>3 DEF Range
  <2>4. QED
    BY <2>2, <2>3 DEF Requests
<1>6. Current' = s /\ stages' # <<>>
  BY <1>1 DEF Current
<1>7. QED
  BY <1>1, <1>4, <1>5, <1>6 DEF Sound, Scope

\* The order of the stages is a matter of their names.
LEMMA SameOrder ==
  ASSUME NEW list, NEW changed, NEW plan, NEW n \in Nat, DOMAIN list = 1 .. n, DOMAIN changed = 1 .. n,
         Len(changed) = Len(list), \A k \in 1 .. n : changed[k].stage = list[k].stage, Ordered(list, plan)
  PROVE  Ordered(changed, plan)
<1> SUFFICES ASSUME NEW i \in 1 .. n
             PROVE  /\ changed[i].stage = "STC" <=> plan.operation = "stc"
                    /\ changed[i].stage = "STC" => i = 1 /\ Len(changed) = 1
                    /\ changed[i].stage = "STRUCTURAL" => i = 1
                    /\ changed[i].stage = "MEANING" => i = 1 \/ (i = 2 /\ changed[1].stage = "STRUCTURAL")
                    /\ changed[i].stage = "OL" => i > 1 /\ i = Len(changed) /\ changed[i - 1].stage = "MEANING"
  BY DEF Ordered
<1>1. 1 \in 1 .. n /\ (i > 1 => i - 1 \in 1 .. n)
  OBVIOUS
<1>2. changed[1].stage = list[1].stage /\ changed[i].stage = list[i].stage
      /\ (i > 1 => changed[i - 1].stage = list[i - 1].stage)
  BY <1>1
<1>3. /\ list[i].stage = "STC" <=> plan.operation = "stc"
      /\ list[i].stage = "STC" => i = 1 /\ Len(list) = 1
      /\ list[i].stage = "STRUCTURAL" => i = 1
      /\ list[i].stage = "MEANING" => i = 1 \/ (i = 2 /\ list[1].stage = "STRUCTURAL")
      /\ list[i].stage = "OL" => i > 1 /\ i = Len(list) /\ list[i - 1].stage = "MEANING"
  BY DEF Ordered
<1>4. QED
  BY <1>2, <1>3

\* A unit of the last stage gets its result.
LEMMA SetUnitKeeps ==
  ASSUME Typed, Sound(stages, approved, log), stages # <<>>, NEW i \in DOMAIN Current.units,
         NEW result \in UnitType, result.atoms = Current.units[i].atoms, Decided(result),
         SetUnit(i, result), UNCHANGED approved, log \subseteq log', UnitSound(result, Scope, log')
  PROVE  /\ stages' \in Seq(StageType) /\ \A k \in DOMAIN stages' : Kinds(stages'[k])
         /\ Sound(stages', approved', log') /\ stages' # <<>>
         /\ Current'.stage = Current.stage /\ Atoms(Current') = Atoms(Current)
         /\ Current.stage # "MEANING" => Requests' = Requests
<1> DEFINE n == Len(stages)
           new == stages'[n]
<1>1. /\ n \in Nat \ {0} /\ DOMAIN stages = 1 .. n /\ Current = stages[n] /\ n \in DOMAIN stages
      /\ Current \in StageType
  BY EmptySeq DEF Typed, Current
<1>2. stages' = [stages EXCEPT ![n].units[i] = result]
  BY DEF SetUnit
<1>3. /\ DOMAIN stages' = 1 .. n /\ \A k \in 1 .. n : k # n => stages'[k] = stages[k]
      /\ new = [Current EXCEPT !.units = [Current.units EXCEPT ![i] = result]]
  BY <1>1, <1>2 DEF Typed
<1> HIDE DEF new
<1> DEFINE units == [Current.units EXCEPT ![i] = result]
<1>u. units \in Seq(UnitType) /\ Len(units) = Len(Current.units) /\ DOMAIN units = DOMAIN Current.units
  BY <1>1 DEF StageType
<1> HIDE DEF units
<1>f. new = [Current EXCEPT !.units = units]
  BY <1>3 DEF units
<1>4. /\ new \in StageType /\ new.stage = Current.stage /\ new.kind = Current.kind
      /\ new.leftOut = Current.leftOut /\ new.aggregated = Current.aggregated
      /\ new.units = units /\ Len(new.units) = Len(Current.units)
      /\ DOMAIN new.units = DOMAIN Current.units
  BY <1>1, <1>u, <1>f DEF StageType
<1>5. \A j \in DOMAIN new.units : new.units[j] = IF j = i THEN result ELSE Current.units[j]
  BY <1>1, <1>4 DEF StageType, units
<1>6. stages' \in Seq(StageType) /\ Len(stages') = n
  <2>1. \A k \in 1 .. n : stages'[k] \in StageType
    BY <1>1, <1>3, <1>4 DEF Typed, new
  <2>2. stages' = [k \in 1 .. n |-> stages'[k]]
    BY <1>1, <1>2
  <2>3. stages' \in [1 .. n -> StageType]
    BY <2>1, <2>2
  <2>4. QED
    BY <1>1, <2>3
<1>7. Current' = new
  BY <1>6 DEF Current, new
<1>8. Atoms(new) = Atoms(Current)
  BY <1>4, <1>5 DEF Atoms, Range
<1>9. AllDecided(Current) => AllDecided(new)
  BY <1>4, <1>5 DEF AllDecided
<1>10. StageSound(new, approved) /\ Kinds(new)
  <2>1. StageSound(Current, approved) /\ Kinds(Current)
    BY <1>1 DEF Typed, Sound
  <2>2. QED
    BY <1>4, <1>8, <1>9, <2>1 DEF StageSound, Kinds
<1>11. \A k \in DOMAIN stages : \A j \in DOMAIN stages[k].units : UnitSound(stages[k].units[j], Scope, log')
  BY SoundMore DEF Sound, Scope
<1>12. \A j \in DOMAIN new.units : UnitSound(new.units[j], Scope, log')
  BY <1>1, <1>4, <1>5, <1>11
<1>13. \A k \in DOMAIN stages' :
          /\ StageSound(stages'[k], approved) /\ Kinds(stages'[k])
          /\ \A j \in DOMAIN stages'[k].units : UnitSound(stages'[k].units[j], Scope, log')
          /\ stages'[k].stage = stages[k].stage
  <2> TAKE k \in DOMAIN stages'
  <2>1. CASE k = n
    BY <1>1, <1>4, <1>10, <1>12, <2>1 DEF new
  <2>2. CASE k # n
    BY <1>1, <1>3, <1>11, <2>2 DEF Typed, Sound
  <2>3. QED
    BY <2>1, <2>2
<1>14. Ordered(stages', approved)
  <2>1. \A k \in DOMAIN stages' : stages'[k].stage = stages[k].stage
    BY <1>13
  <2>2. DOMAIN stages' = DOMAIN stages /\ Len(stages') = Len(stages) /\ DOMAIN stages = 1 .. n
    BY <1>1, <1>3, <1>6
  <2>3. Ordered(stages, approved)
    BY DEF Sound
  <2>4. QED
    BY <1>1, <2>1, <2>2, <2>3, SameOrder
<1>15. ASSUME Current.stage # "MEANING" PROVE Requests' = Requests
  <2>1. {s \in Range(stages') : s.stage = "MEANING"} = {s \in Range(stages) : s.stage = "MEANING"}
    <3>1. \A k \in 1 .. n : k = n => stages'[k].stage # "MEANING" /\ stages[k].stage # "MEANING"
      BY <1>1, <1>4, <1>15 DEF new
    <3>2. QED
      BY <1>1, <1>3, <3>1 DEF Range
  <2>2. QED
    BY <2>1 DEF Requests
<1>16. Sound(stages', approved', log')
  BY <1>13, <1>14 DEF Sound, Scope
<1>17. stages' # <<>>
  BY <1>1, <1>3
<1>18. QED
  BY <1>4, <1>6, <1>7, <1>8, <1>13, <1>15, <1>16, <1>17

---------------------------------------------------------------------------
(* The steps.                                                               *)

\* What a stage that is current can be, and where the stage that read is.
LEMMA CurrentStage ==
  ASSUME Typed, Sound(stages, approved, log), stages # <<>>
  PROVE  /\ Len(stages) \in DOMAIN stages /\ Len(stages) \in Nat \ {0} /\ Current = stages[Len(stages)]
         /\ Current \in StageType /\ Kinds(Current) /\ StageSound(Current, approved)
         /\ \A j \in DOMAIN Current.units : UnitSound(Current.units[j], Scope, log) /\ Current.units[j] \in UnitType
         /\ Requests \subseteq Scope
         /\ Settled(Current) => AllDecided(Current)
<1>1. /\ Len(stages) \in Nat \ {0} /\ Len(stages) \in DOMAIN stages /\ Current = stages[Len(stages)]
      /\ Current \in StageType /\ Kinds(Current)
  BY EmptySeq DEF Typed, Current
<1>2. StageSound(Current, approved) /\ \A j \in DOMAIN Current.units : UnitSound(Current.units[j], Scope, log)
  BY <1>1 DEF Sound, Scope
<1>3. \A j \in DOMAIN Current.units : Current.units[j] \in UnitType
  BY <1>1 DEF StageType
<1>4. Settled(Current) => AllDecided(Current)
  BY <1>2 DEF Settled, StageSound
<1>5. QED
  BY <1>1, <1>2, <1>3, <1>4, RequestsInScope

\* Stages and their log are kept, or the log grows.
LEMMA SameStages ==
  ASSUME Typed, Sound(stages, approved, log), RequestsPlaced,
         UNCHANGED <<approved, stages, unavailable>>, log \subseteq log'
  PROVE  /\ stages' \in Seq(StageType) /\ (\A k \in DOMAIN stages' : Kinds(stages'[k])) /\ unavailable' \subseteq Scope'
         /\ Sound(stages', approved', log') /\ RequestsPlaced' /\ approved' \in Plans
         /\ Current' = Current /\ Requests' = Requests
<1>1. Current' = Current /\ Requests' = Requests /\ Scope' = Scope
  BY DEF Current, Requests, Scope
<1>2. \A k \in DOMAIN stages : \A j \in DOMAIN stages[k].units : UnitSound(stages[k].units[j], Scope, log')
  BY SoundMore DEF Sound, Scope
<1>3. Sound(stages', approved', log')
  BY <1>2 DEF Sound, Scope
<1>4. RequestsPlaced'
  BY <1>1 DEF RequestsPlaced, Atoms
<1>5. QED
  BY <1>1, <1>3, <1>4 DEF Typed

\* A unit is decided while no report is made.
LEMMA UnitResultKeeps ==
  ASSUME PlanInv, stages # <<>>, run = OpenRun, ~ published, driver' = "idle",
         NEW i \in DOMAIN Current.units, NEW result \in UnitType, result.atoms = Current.units[i].atoms,
         Decided(result), SetUnit(i, result), log \subseteq log', log' \subseteq Coordinates,
         UnitSound(result, Scope, log'), UNCHANGED <<approved, unavailable, report, published, run, stops>>
  PROVE  PlanInv'
<1>0. Typed /\ Sound(stages, approved, log) /\ RequestsPlaced
  BY DEF PlanInv
<1>1. /\ stages' \in Seq(StageType) /\ \A k \in DOMAIN stages' : Kinds(stages'[k])
      /\ Sound(stages', approved', log') /\ stages' # <<>>
      /\ Current'.stage = Current.stage /\ Atoms(Current') = Atoms(Current)
      /\ Current.stage # "MEANING" => Requests' = Requests
  BY <1>0, SetUnitKeeps
<1>2. Typed'
  <2>1. Scope' = Scope
    BY DEF Scope
  <2>2. QED
    BY <1>0, <1>1, <2>1 DEF Typed
<1>3. RequestsPlaced'
  BY <1>0, <1>1 DEF RequestsPlaced
<1>4. Driving' /\ Reported' /\ ClosedByLog'
  BY <1>1 DEF Driving, Reported, ClosedByLog, OpenRun
<1>5. QED
  BY <1>1, <1>2, <1>3, <1>4 DEF PlanInv

LEMMA AcceptKeeps ==
  ASSUME PlanInv, stages # <<>>, run = OpenRun, ~ published, driver' = "idle",
         NEW i \in DOMAIN Current.units, ~ Decided(Current.units[i]), Accept(i),
         UNCHANGED <<approved, unavailable, report, published, run, stops>>
  PROVE  PlanInv'
<1> DEFINE u == Current.units[i]
           partial == IF Current.stage = "STC" THEN {{}} ELSE (SUBSET u.atoms) \ {u.atoms}
           asked(lost) == IF Current.stage = "MEANING" THEN SUBSET (u.atoms \ lost) ELSE {{}}
<1>0. Typed /\ Sound(stages, approved, log)
  BY DEF PlanInv
<1>1. u \in UnitType /\ UnitSound(u, Scope, log)
  BY <1>0, CurrentStage
<1>2. PICK lost \in partial : \E requests \in asked(lost) :
           /\ SetUnit(i, [u EXCEPT !.status = "FINALIZED", !.lost = lost, !.requests = requests])
           /\ log' = log \cup lost
  BY DEF Accept
<1>3. PICK requests \in asked(lost) :
           /\ SetUnit(i, [u EXCEPT !.status = "FINALIZED", !.lost = lost, !.requests = requests])
           /\ log' = log \cup lost
  BY <1>2
<1> DEFINE result == [u EXCEPT !.status = "FINALIZED", !.lost = lost, !.requests = requests]
<1>4. lost \subseteq u.atoms /\ requests \subseteq u.atoms
  BY <1>2, <1>3
<1> HIDE DEF u
<1>5. u.atoms \subseteq Coordinates /\ u.atoms \subseteq Scope
  BY <1>1 DEF UnitType, UnitSound
<1>6. /\ result \in UnitType /\ result.atoms = u.atoms /\ result.status = "FINALIZED"
      /\ result.lost = lost /\ result.requests = requests
  BY <1>1, <1>4, <1>5 DEF UnitType
<1>7. log \subseteq log' /\ log' \subseteq Coordinates /\ lost \subseteq log'
  BY <1>0, <1>3, <1>4, <1>5 DEF Typed
<1>8. SetUnit(i, result)
  BY <1>3
<1> HIDE DEF result
<1>9. Decided(result) /\ UnitSound(result, Scope, log')
  BY <1>4, <1>5, <1>6, <1>7 DEF Decided, UnitSound, UnitLost
<1>10. result.atoms = Current.units[i].atoms
  BY <1>6 DEF u
<1>11. QED
  BY <1>6, <1>7, <1>8, <1>9, <1>10, UnitResultKeeps

LEMMA SubmitPlanInv ==
  ASSUME PlanInv, Submit
  PROVE  PlanInv'
<1>1. stages # <<>> /\ run = OpenRun /\ ~ published /\ ~ AllDecided(Current)
  BY DEF Submit, PlanInv, Driving, OpenRun
<1>2. Current.units \in Seq(UnitType)
  BY <1>1, CurrentStage DEF PlanInv, StageType
<1>3. NextUnit(Current) \in DOMAIN Current.units /\ ~ Decided(Current.units[NextUnit(Current)])
  BY <1>1, <1>2, NextUnitIsUndecided
<1>4. QED
  BY <1>1, <1>3, AcceptKeeps DEF Submit

LEMMA SubmitByHandPlanInv ==
  ASSUME PlanInv, SubmitByHand
  PROVE  PlanInv'
<1>1. stages # <<>> /\ run = OpenRun /\ ~ published /\ driver' = "idle"
  BY DEF SubmitByHand, Continuing, PlanInv, Driving, OpenRun
<1>2. PICK i \in DOMAIN Current.units : ~ Decided(Current.units[i]) /\ Accept(i)
  BY DEF SubmitByHand
<1>3. UNCHANGED <<approved, unavailable, report, published, run, stops>>
  BY DEF SubmitByHand
<1>4. QED
  BY <1>1, <1>2, <1>3, AcceptKeeps

LEMMA ReportUnitPlanInv ==
  ASSUME PlanInv, ReportUnit
  PROVE  PlanInv'
<1>0. Typed /\ Sound(stages, approved, log) /\ RequestsPlaced
  BY DEF PlanInv
<1>1. stages # <<>> /\ run = OpenRun /\ ~ published /\ ~ AllDecided(Current)
  BY DEF ReportUnit, PlanInv, Driving, OpenRun
<1>2. Current.units \in Seq(UnitType)
  BY <1>0, <1>1, CurrentStage DEF StageType
<1> DEFINE k == NextUnit(Current)
<1>3. k \in DOMAIN Current.units
  BY <1>1, <1>2, NextUnitIsUndecided
<1>4. Current.units[k].atoms \subseteq Coordinates
  <2>1. Current.units[k] \in UnitType
    BY <1>0, <1>1, <1>3, CurrentStage
  <2> HIDE DEF k
  <2>2. QED
    BY <2>1 DEF UnitType
<1>5. log' = log \cup Current.units[k].atoms /\ driver' = "seal"
      /\ UNCHANGED <<approved, stages, unavailable, report, published, run, stops>>
  BY DEF ReportUnit
<1> HIDE DEF k
<1>6. /\ stages' \in Seq(StageType) /\ (\A j \in DOMAIN stages' : Kinds(stages'[j])) /\ unavailable' \subseteq Scope'
      /\ Sound(stages', approved', log') /\ RequestsPlaced' /\ approved' \in Plans
      /\ Current' = Current /\ Requests' = Requests
  BY <1>0, <1>5, SameStages
<1>7. Typed'
  BY <1>0, <1>4, <1>5, <1>6 DEF Typed
<1>8. Driving'
  <2>1. NextUnit(Current') = NextUnit(Current)
    BY <1>6
  <2>2. Current'.units[NextUnit(Current')].atoms \subseteq log'
    BY <1>5, <1>6, <2>1 DEF k
  <2>3. stages' # <<>> /\ run' = OpenRun /\ ~ AllDecided(Current') /\ ~ published'
    BY <1>1, <1>5, <1>6
  <2>4. QED
    BY <1>5, <2>2, <2>3 DEF Driving, OpenRun
<1>9. Reported' /\ ClosedByLog'
  BY <1>1, <1>5 DEF Reported, ClosedByLog, OpenRun
<1>10. QED
  BY <1>6, <1>7, <1>8, <1>9 DEF PlanInv

LEMMA SealUnitPlanInv ==
  ASSUME PlanInv, SealUnit
  PROVE  PlanInv'
<1>0. Typed /\ Sound(stages, approved, log) /\ RequestsPlaced
  BY DEF PlanInv
<1>1. stages # <<>> /\ run = OpenRun /\ ~ published /\ ~ AllDecided(Current)
      /\ Current.units[NextUnit(Current)].atoms \subseteq log
  BY DEF SealUnit, PlanInv, Driving, OpenRun
<1>2. Current.units \in Seq(UnitType)
  BY <1>0, <1>1, CurrentStage DEF StageType
<1> DEFINE k == NextUnit(Current)
           u == Current.units[k]
           result == [u EXCEPT !.status = "NOT_ASSESSED"]
<1>3. k \in DOMAIN Current.units /\ ~ Decided(u)
  BY <1>1, <1>2, NextUnitIsUndecided
<1>4. u \in UnitType /\ UnitSound(u, Scope, log)
  BY <1>0, <1>1, <1>3, CurrentStage
<1>5. SetUnit(k, result) /\ driver' = "idle"
      /\ UNCHANGED <<approved, unavailable, report, published, log, run, stops>>
  BY DEF SealUnit
<1>6. u.atoms \subseteq log /\ u = Current.units[k]
  BY <1>1
<1> HIDE DEF k, u
<1>7. /\ result \in UnitType /\ result.atoms = u.atoms /\ result.status = "NOT_ASSESSED"
      /\ result.lost = u.lost /\ result.requests = u.requests
  BY <1>4 DEF UnitType
<1> HIDE DEF result
<1>8. Decided(result) /\ UnitSound(result, Scope, log')
  BY <1>4, <1>5, <1>6, <1>7 DEF Decided, UnitSound, UnitLost
<1>9. log \subseteq log' /\ log' \subseteq Coordinates
  BY <1>0, <1>5 DEF Typed
<1>10. result.atoms = Current.units[k].atoms
  BY <1>6, <1>7
<1>11. QED
  BY <1>1, <1>3, <1>5, <1>7, <1>8, <1>9, <1>10, UnitResultKeeps

\* A step that leaves the stages and the log alone.
LEMMA StagesUntouched ==
  ASSUME PlanInv, UNCHANGED <<approved, stages, unavailable, log>>, Driving', Reported', ClosedByLog',
         report' \in [reviewed : SUBSET Coordinates, notAssessed : SUBSET Coordinates], published' \in BOOLEAN,
         run' \in {"CREATED", OpenRun} \cup ClosedRun, stops' \in 0 .. MaxStops,
         driver' \in {"idle", "unit", "seal", "aggregate", "report", "close"}
  PROVE  PlanInv'
<1>0. Typed /\ Sound(stages, approved, log) /\ RequestsPlaced
  BY DEF PlanInv
<1>1. /\ stages' \in Seq(StageType) /\ (\A j \in DOMAIN stages' : Kinds(stages'[j])) /\ unavailable' \subseteq Scope'
      /\ Sound(stages', approved', log') /\ RequestsPlaced' /\ approved' \in Plans
  BY <1>0, SameStages
<1>2. Typed'
  BY <1>0, <1>1 DEF Typed
<1>3. QED
  BY <1>1, <1>2 DEF PlanInv

\* What the driver does between the units.
LEMMA DriverPlanInv ==
  ASSUME PlanInv, RunUnit \/ ReadyToAggregate \/ MarkFinalized \/ SeeFinalized \/ CloseRun \/ Stop
  PROVE  PlanInv'
<1>0. Typed /\ Driving /\ Reported /\ ClosedByLog /\ Sound(stages, approved, log)
  BY DEF PlanInv
<1>1. UNCHANGED <<approved, stages, unavailable, log>> /\ report' = report
  BY DEF RunUnit, ReadyToAggregate, MarkFinalized, SeeFinalized, CloseRun, Stop
<1>2. Current' = Current /\ Requests' = Requests
  BY <1>1 DEF Current, Requests
<1>3. /\ report' \in [reviewed : SUBSET Coordinates, notAssessed : SUBSET Coordinates] /\ published' \in BOOLEAN
      /\ run' \in {"CREATED", OpenRun} \cup ClosedRun
      /\ driver' \in {"idle", "unit", "seal", "aggregate", "report", "close"}
  BY <1>0, <1>1 DEF RunUnit, ReadyToAggregate, MarkFinalized, SeeFinalized, CloseRun, Stop, Typed, ClosedRun
<1>4. stops' \in 0 .. MaxStops
  <2>1. stops' = stops \/ (stops < MaxStops /\ stops' = stops + 1)
    BY DEF RunUnit, ReadyToAggregate, MarkFinalized, SeeFinalized, CloseRun, Stop
  <2>2. QED
    BY <1>0, <2>1, StopsAssumption DEF Typed
<1>5. Reported'
  <2>1. published' \/ driver' = "report" => published \/ driver = "report"
    BY DEF RunUnit, ReadyToAggregate, MarkFinalized, SeeFinalized, CloseRun, Stop
  <2>2. published \/ driver = "report" =>
            /\ Honest(report', stages')
            /\ approved'.drift => \A r \in Requests' \cap report'.reviewed : Answered(r, stages')
            /\ Complete(report', approved')
    BY <1>0, <1>1, <1>2 DEF Reported
  <2>3. QED
    BY <2>1, <2>2 DEF Reported
<1>6. Driving' /\ ClosedByLog'
  <2>1. CASE RunUnit
    BY <1>0, <1>1, <1>2, <2>1 DEF RunUnit, Continuing, Driving, ClosedByLog, OpenRun
  <2>2. CASE ReadyToAggregate
    <3>1. stages # <<>>
      BY <1>0, <2>2 DEF ReadyToAggregate, Continuing, Driving, OpenRun
    <3>2. Current.kind = "PARTITIONED_PLAN"
      <4>1. Current \in StageType
        BY <1>0, <3>1, CurrentStage
      <4>2. Current.kind # "TASK"
        BY <2>2 DEF ReadyToAggregate, Settled
      <4>3. QED
        BY <4>1, <4>2 DEF StageType
    <3>3. QED
      BY <1>0, <1>1, <1>2, <2>2, <3>2 DEF ReadyToAggregate, Continuing, Driving, ClosedByLog, OpenRun
  <2>3. CASE MarkFinalized
    BY <1>0, <1>1, <1>2, <2>3 DEF MarkFinalized, Driving, ClosedByLog, OpenRun
  <2>4. CASE SeeFinalized
    BY <1>0, <1>1, <1>2, <2>4 DEF SeeFinalized, Driving, ClosedByLog, OpenRun
  <2>5. CASE CloseRun
    BY <1>0, <1>1, <1>2, <2>5 DEF CloseRun, Driving, ClosedByLog, OpenRun
  <2>6. CASE Stop
    BY <1>0, <1>1, <1>2, <2>6 DEF Stop, Driving, ClosedByLog
  <2>7. QED
    BY <2>1, <2>2, <2>3, <2>4, <2>5, <2>6
<1>7. QED
  BY <1>1, <1>3, <1>4, <1>5, <1>6, StagesUntouched

\* A stage is opened while no report is made.
LEMMA OpenedKeeps ==
  ASSUME PlanInv, NEW s, Created(s), stages' = Append(stages, s), UNCHANGED <<approved, report, published, log, driver, stops>>,
         ~ published, driver = "idle", run' = OpenRun, unavailable' \subseteq Scope, Ordered(stages', approved),
         s.stage = "OL" => approved.drift /\ Requests \subseteq unavailable' \cup Atoms(s)
  PROVE  PlanInv'
<1>0. Typed /\ Sound(stages, approved, log)
  BY DEF PlanInv
<1>1. /\ stages' \in Seq(StageType) /\ \A i \in DOMAIN stages' : Kinds(stages'[i])
      /\ Sound(stages', approved', log') /\ Current' = s /\ Requests' = Requests /\ stages' # <<>>
  BY <1>0, AppendKeeps
<1>2. Typed'
  <2>1. Scope' = Scope
    BY DEF Scope
  <2>2. QED
    BY <1>0, <1>1, <2>1 DEF Typed
<1>3. RequestsPlaced'
  BY <1>1 DEF RequestsPlaced
<1>4. Driving' /\ Reported' /\ ClosedByLog'
  BY <1>1 DEF Driving, Reported, ClosedByLog, OpenRun
<1>5. QED
  BY <1>1, <1>2, <1>3, <1>4 DEF PlanInv

LEMMA CreatePlanInv ==
  ASSUME PlanInv, Create
  PROVE  PlanInv'
<1>1. stages = <<>> /\ ~ published /\ driver = "idle" /\ approved \in Plans /\ unavailable \subseteq Scope
  BY DEF PlanInv, Driving, Typed, Create, OpenRun
<1>2. PICK s : /\ stages' = <<s>> /\ Created(s)
               /\ s.stage \in {"STC", "STRUCTURAL", "MEANING"} /\ (s.stage = "STC" <=> approved.operation = "stc")
  <2>1. CASE approved.operation = "stc"
    <3>1. stages' = <<StcStage>>
      BY <2>1 DEF Create
    <3>2. Created(StcStage) /\ StcStage.stage = "STC"
      BY <1>1, StcStageCreated
    <3>3. QED
      BY <2>1, <3>1, <3>2
  <2>2. CASE approved.operation # "stc" /\ approved.structural # {}
    <3>1. stages' = <<ApprovedStage("STRUCTURAL", approved.structural)>>
      BY <2>2 DEF Create
    <3>2. Created(ApprovedStage("STRUCTURAL", approved.structural))
          /\ ApprovedStage("STRUCTURAL", approved.structural).stage = "STRUCTURAL"
      BY <1>1, <2>2, ApprovedStageCreated
    <3>3. QED
      BY <2>2, <3>1, <3>2
  <2>3. CASE approved.operation # "stc" /\ approved.structural = {}
    <3>1. stages' = <<ApprovedStage("MEANING", {})>>
      BY <2>3 DEF Create
    <3>2. Created(ApprovedStage("MEANING", {})) /\ ApprovedStage("MEANING", {}).stage = "MEANING"
      BY <1>1, ApprovedStageCreated
    <3>3. QED
      BY <2>3, <3>1, <3>2
  <2>4. QED
    BY <2>1, <2>2, <2>3
<1>3. stages' = Append(stages, s)
  BY <1>1, <1>2
<1>4. Ordered(stages', approved)
  <2>1. DOMAIN stages' = {1} /\ Len(stages') = 1 /\ stages'[1] = s
    BY <1>2
  <2>2. QED
    BY <1>2, <2>1 DEF Ordered
<1>5. QED
  BY <1>1, <1>2, <1>3, <1>4, OpenedKeeps DEF Create

LEMMA OrderedMore ==
  ASSUME Typed, Sound(stages, approved, log), stages # <<>>, NEW s, stages' = Append(stages, s),
         approved.operation = "rtc",
         \/ Current.stage = "STRUCTURAL" /\ s.stage = "MEANING"
         \/ Current.stage = "MEANING" /\ s.stage = "OL"
  PROVE  Ordered(stages', approved)
<1> DEFINE n == Len(stages)
<1>1. n \in Nat \ {0} /\ Current = stages[n] /\ DOMAIN stages = 1 .. n /\ n \in 1 .. n /\ 1 \in 1 .. n
  BY CurrentStage DEF Typed
<1>2. /\ DOMAIN stages' = 1 .. n + 1 /\ Len(stages') = n + 1 /\ stages'[n + 1] = s
      /\ \A i \in 1 .. n : stages'[i] = stages[i]
  BY DEF Typed
<1> HIDE DEF n
<1>3. \A i \in 1 .. n :
         /\ stages[i].stage # "STC" /\ stages[i].stage # "OL"
         /\ stages[i].stage = "STRUCTURAL" => i = 1
         /\ stages[i].stage = "MEANING" => i = 1 \/ (i = 2 /\ stages[1].stage = "STRUCTURAL")
  <2>1. \A i \in 1 .. n :
         /\ stages[i].stage # "STC"
         /\ stages[i].stage = "STRUCTURAL" => i = 1
         /\ stages[i].stage = "MEANING" => i = 1 \/ (i = 2 /\ stages[1].stage = "STRUCTURAL")
         /\ stages[i].stage = "OL" => i = n
    BY <1>1 DEF Sound, Ordered, n
  <2>2. stages[n].stage # "OL"
    BY <1>1
  <2>3. QED
    BY <2>1, <2>2
<1>4. ASSUME NEW i \in 1 .. n
      PROVE  /\ stages'[i].stage = stages[i].stage /\ stages'[1] = stages[1]
             /\ i # n + 1
  BY <1>1, <1>2
<1>5. ASSUME NEW i \in 1 .. n
      PROVE  /\ stages'[i].stage # "STC" /\ stages'[i].stage # "OL"
             /\ stages'[i].stage = "STRUCTURAL" => i = 1
             /\ stages'[i].stage = "MEANING" => i = 1 \/ (i = 2 /\ stages'[1].stage = "STRUCTURAL")
  BY <1>3, <1>4
<1>6. CASE Current.stage = "STRUCTURAL" /\ s.stage = "MEANING"
  <2>1. n = 1 /\ stages'[1].stage = "STRUCTURAL" /\ stages'[n + 1].stage = "MEANING"
    BY <1>1, <1>2, <1>3, <1>6
  <2>2. QED
    BY <1>1, <1>2, <1>5, <2>1 DEF Ordered
<1>7. CASE Current.stage = "MEANING" /\ s.stage = "OL"
  <2>1. stages'[n].stage = "MEANING" /\ stages'[n + 1].stage = "OL" /\ n + 1 > 1 /\ (n + 1) - 1 = n
    BY <1>1, <1>2, <1>7
  <2>2. QED
    BY <1>1, <1>2, <1>5, <2>1 DEF Ordered
<1>8. QED
  BY <1>6, <1>7

LEMMA OpenMeaningPlanInv ==
  ASSUME PlanInv, OpenMeaning
  PROVE  PlanInv'
<1> DEFINE s == ApprovedStage("MEANING", {})
<1>0. Typed /\ Sound(stages, approved, log) /\ approved \in Plans
  BY DEF PlanInv, Typed
<1>1. /\ stages # <<>> /\ ~ published /\ driver = "idle" /\ run = OpenRun /\ unavailable' \subseteq Scope
      /\ UNCHANGED <<approved, report, published, log, run, driver, stops>>
      /\ approved.operation = "rtc" /\ Current.stage = "STRUCTURAL" /\ stages' = Append(stages, s)
  BY DEF PlanInv, Driving, Typed, OpenMeaning, OpenStage, RtcSettled, Continuing, OpenRun
<1>2. Created(s) /\ s.stage = "MEANING"
  BY <1>0, ApprovedStageCreated
<1> HIDE DEF s
<1>3. Ordered(stages', approved)
  BY <1>0, <1>1, <1>2, OrderedMore
<1>4. QED
  BY <1>1, <1>2, <1>3, OpenedKeeps

LEMMA OpenCasesPlanInv ==
  ASSUME PlanInv, OpenCases
  PROVE  PlanInv'
<1>0. Typed /\ Sound(stages, approved, log) /\ approved \in Plans
  BY DEF PlanInv, Typed
<1>1. PICK servable \in (SUBSET Requests) \ {{}} : OpenStage(CaseStage(servable), Requests \ servable)
  BY DEF OpenCases
<1> DEFINE s == CaseStage(servable)
<1>2. /\ stages # <<>> /\ ~ published /\ driver = "idle" /\ run = OpenRun
      /\ UNCHANGED <<approved, report, published, log, run, driver, stops>>
      /\ approved.operation = "rtc" /\ Current.stage = "MEANING" /\ stages' = Append(stages, s)
      /\ approved.drift /\ unavailable' = Requests \ servable
  BY <1>1 DEF PlanInv, Driving, Typed, OpenCases, OpenStage, RtcSettled, Continuing, OpenRun
<1>3. Requests \subseteq Scope /\ servable \subseteq Requests
  BY <1>0, <1>1, RequestsInScope
<1>4. Created(s) /\ s.stage = "OL" /\ Atoms(s) = servable
  BY <1>0, <1>3, CaseStageCreated
<1> HIDE DEF s
<1>5. Ordered(stages', approved)
  BY <1>0, <1>2, <1>4, OrderedMore
<1>6. unavailable' \subseteq Scope /\ Requests \subseteq unavailable' \cup Atoms(s)
  BY <1>2, <1>3, <1>4
<1>7. QED
  BY <1>2, <1>4, <1>5, <1>6, OpenedKeeps

\* The report of an RTC plan.
LEMMA WriteReportKeeps ==
  ASSUME PlanInv, stages # <<>>, run = OpenRun, approved.operation = "rtc",
         NEW unserved, unserved \subseteq Scope, WriteReport(unserved),
         NEW m \in DOMAIN stages, stages[m].stage = "MEANING",
         NEW c, c = Coverage(stages, unserved),
         c.reviewed \cap unserved = {} /\ Honest(c, stages) =>
             (approved.drift => \A r \in Requests \cap c.reviewed : Answered(r, stages))
  PROVE  PlanInv'
<1>0. Typed /\ Sound(stages, approved, log) /\ Driving /\ ClosedByLog /\ stages \in Seq(StageType)
  BY DEF PlanInv, Typed
<1>1. /\ report' = c /\ driver' = "report"
      /\ UNCHANGED <<approved, stages, unavailable, published, log, run, stops>>
  BY DEF WriteReport
<1>2. /\ c \in [reviewed : SUBSET Coordinates, notAssessed : SUBSET Coordinates]
      /\ Honest(c, stages) /\ Complete(c, approved) /\ c.reviewed \cap unserved = {}
  <2>1. Requests \subseteq Scope
    BY <1>0, RequestsInScope
  <2>2. QED
    BY <1>0, <2>1, CoverageOfStages
<1>3. Requests' = Requests
  BY <1>1 DEF Requests
<1>4. Reported'
  BY <1>1, <1>2, <1>3 DEF Reported
<1>5. Driving' /\ ClosedByLog'
  BY <1>0, <1>1 DEF Driving, ClosedByLog, OpenRun
<1>6. QED
  BY <1>0, <1>1, <1>2, <1>4, <1>5, StagesUntouched DEF Typed

LEMMA FinalizePlanInv ==
  ASSUME PlanInv, Finalize
  PROVE  PlanInv'
<1> DEFINE n == Len(stages)
<1>0. Typed /\ Sound(stages, approved, log) /\ RequestsPlaced
  BY DEF PlanInv
<1>1. stages # <<>> /\ run = OpenRun /\ approved.operation = "rtc" /\ Settled(Current)
  BY DEF PlanInv, Driving, Finalize, RtcSettled, Continuing, OpenRun
<1>2. /\ n \in DOMAIN stages /\ n \in Nat \ {0} /\ Current = stages[n] /\ Requests \subseteq Scope
      /\ AllDecided(Current)
  BY <1>0, <1>1, CurrentStage
<1>3. CASE Current.stage = "OL" /\ WriteReport(unavailable)
  <2>1. n - 1 \in DOMAIN stages /\ stages[n - 1].stage = "MEANING"
    <3>1. n > 1 /\ stages[n - 1].stage = "MEANING"
      BY <1>0, <1>2, <1>3 DEF Sound, Ordered
    <3>2. n - 1 \in DOMAIN stages
      BY <1>0, <1>2, <3>1 DEF Typed
    <3>3. QED
      BY <3>1, <3>2
  <2> DEFINE c == Coverage(stages, unavailable)
  <2> HIDE DEF c
  <2>2. ASSUME c.reviewed \cap unavailable = {}, Honest(c, stages), NEW r \in Requests \cap c.reviewed
        PROVE  Answered(r, stages)
    <3>1. r \in Atoms(Current)
      BY <1>0, <1>1, <1>3, <2>2 DEF RequestsPlaced
    <3>2. PICK j \in DOMAIN Current.units : r \in Current.units[j].atoms
      BY <3>1 DEF Atoms, Range
    <3>3. Current.units[j].status # "NOT_ASSESSED"
      <4>1. UnitLost(Current.units[j]) \cap c.reviewed = {}
        BY <1>2, <2>2 DEF Honest
      <4>2. QED
        BY <2>2, <3>2, <4>1 DEF UnitLost
    <3>4. Current.units[j].status = "FINALIZED"
      BY <1>2, <3>3 DEF AllDecided, Decided
    <3>5. QED
      BY <1>2, <1>3, <3>2, <3>4 DEF Answered
  <2>3. unavailable \subseteq Scope
    BY <1>0 DEF Typed
  <2>4. QED
    BY <1>1, <1>3, <2>1, <2>2, <2>3, WriteReportKeeps DEF c
<1>4. CASE Current.stage = "MEANING" /\ (Requests = {} \/ ~ approved.drift) /\ WriteReport({})
  BY <1>1, <1>2, <1>4, WriteReportKeeps
<1>5. CASE Current.stage = "MEANING" /\ Requests # {} /\ approved.drift /\ WriteReport(Requests)
  <2> DEFINE c == Coverage(stages, Requests)
  <2> HIDE DEF c
  <2>1. c.reviewed \cap Requests = {} => \A r \in Requests \cap c.reviewed : Answered(r, stages)
    OBVIOUS
  <2>2. QED
    BY <1>1, <1>2, <1>5, <2>1, WriteReportKeeps DEF c
<1>6. QED
  BY <1>3, <1>4, <1>5 DEF Finalize

\* The last stage is aggregated; nothing its units say changes.
LEMMA AggregatedKeeps ==
  ASSUME PlanInv, stages # <<>>, AllDecided(Current), Current.kind = "PARTITIONED_PLAN",
         NEW done, done = [stages EXCEPT ![Len(stages)].aggregated = TRUE]
  PROVE  /\ done \in Seq(StageType) /\ (\A k \in DOMAIN done : Kinds(done[k])) /\ Len(done) = Len(stages)
         /\ Sound(done, approved, log) /\ done # <<>> /\ DOMAIN done = DOMAIN stages
         /\ \A k \in DOMAIN stages : /\ done[k].units = stages[k].units /\ done[k].stage = stages[k].stage
<1> DEFINE n == Len(stages)
           new == [Current EXCEPT !.aggregated = TRUE]
<1>0. Typed /\ Sound(stages, approved, log)
  BY DEF PlanInv
<1>1. /\ n \in DOMAIN stages /\ n \in Nat \ {0} /\ Current = stages[n] /\ Current \in StageType
      /\ StageSound(Current, approved) /\ DOMAIN stages = 1 .. n /\ stages \in Seq(StageType)
  BY <1>0, CurrentStage DEF Typed
<1>2. /\ new \in StageType /\ new.stage = Current.stage /\ new.kind = Current.kind /\ new.units = Current.units
      /\ new.leftOut = Current.leftOut
  BY <1>1 DEF StageType
<1>3. done = [stages EXCEPT ![n] = new]
  BY <1>1
<1> HIDE DEF new, n
<1>4. /\ DOMAIN done = 1 .. n /\ done[n] = new /\ \A k \in 1 .. n : k # n => done[k] = stages[k]
  BY <1>1, <1>3
<1>5. done \in Seq(StageType) /\ Len(done) = n /\ done # <<>>
  <2>0. \A k \in 1 .. n : done[k] \in StageType
    <3>1. \A k \in 1 .. n : stages[k] \in StageType
      BY <1>1
    <3>2. QED
      BY <1>2, <1>4, <3>1
  <2>1. done \in [1 .. n -> StageType]
    BY <1>1, <1>3, <2>0
  <2>2. done \in Seq(StageType) /\ Len(done) = n
    BY <1>1, <2>1
  <2>3. QED
    BY <1>1, <1>4, <2>2
<1>6. StageSound(new, approved) /\ Kinds(new)
  BY <1>1, <1>2 DEF StageSound, Kinds, AllDecided, Atoms
<1>7. ASSUME NEW k \in 1 .. n
      PROVE  /\ done[k].units = stages[k].units /\ done[k].stage = stages[k].stage
             /\ StageSound(done[k], approved) /\ Kinds(done[k])
             /\ \A j \in DOMAIN done[k].units : UnitSound(done[k].units[j], Scope, log)
  <2>1. /\ StageSound(stages[k], approved) /\ Kinds(stages[k])
        /\ \A j \in DOMAIN stages[k].units : UnitSound(stages[k].units[j], Scope, log)
    BY <1>0, <1>1 DEF Sound, Typed, Scope
  <2>2. CASE k = n
    BY <1>1, <1>2, <1>4, <1>6, <2>1, <2>2, ZenonT(60)
  <2>3. CASE k # n
    BY <1>4, <2>1, <2>3
  <2>4. QED
    BY <2>2, <2>3
<1>8. Ordered(done, approved)
  <2>1. Ordered(stages, approved)
    BY <1>0 DEF Sound
  <2>2. Len(done) = Len(stages)
    BY <1>5 DEF n
  <2>3. \A k \in 1 .. n : done[k].stage = stages[k].stage
    BY <1>7
  <2>4. QED
    BY <1>1, <1>4, <2>1, <2>2, <2>3, SameOrder
<1>9. Sound(done, approved, log)
  BY <1>4, <1>7, <1>8 DEF Sound, Scope
<1>10. Len(done) = Len(stages)
  BY <1>5 DEF n
<1>11. QED
  BY <1>1, <1>4, <1>5, <1>7, <1>9, <1>10

\* An STC plan never asks for the original text, and its one stage has read the scope.
LEMMA StcStageReads ==
  ASSUME NEW list, NEW plan, NEW rows, Sound(list, plan, rows), list # <<>>, NEW S, list \in Seq(S), plan.operation = "stc"
  PROVE  1 \in DOMAIN list /\ list[1].stage = "STC" /\ \A i \in DOMAIN list : list[i].stage # "MEANING"
<1> DEFINE n == Len(list)
<1>1. n \in Nat \ {0} /\ DOMAIN list = 1 .. n
  BY EmptySeq
<1> HIDE DEF n
<1>2. 1 \in DOMAIN list
  BY <1>1
<1>3. QED
  BY <1>2 DEF Sound, Ordered

LEMMA NoRequests ==
  ASSUME \A i \in DOMAIN stages : stages[i].stage # "MEANING"
  PROVE  Requests = {}
  BY DEF Requests, Range

LEMMA AggregateCurrentKeeps ==
  ASSUME PlanInv, stages # <<>>, AllDecided(Current), Current.kind = "PARTITIONED_PLAN", ~ published, run = OpenRun,
         AggregateCurrent, driver' \in {"idle", "close"}, UNCHANGED <<approved, unavailable, log, run, stops>>
  PROVE  PlanInv'
<1> DEFINE done == [stages EXCEPT ![Len(stages)].aggregated = TRUE]
<1>0. Typed /\ Sound(stages, approved, log) /\ RequestsPlaced
  BY DEF PlanInv
<1>1. /\ stages' = done /\ published' = (approved.operation = "stc")
      /\ report' = IF approved.operation = "stc" THEN Coverage(done, {}) ELSE report
  BY DEF AggregateCurrent
<1>2. /\ done \in Seq(StageType) /\ (\A k \in DOMAIN done : Kinds(done[k])) /\ Len(done) = Len(stages)
      /\ Sound(done, approved, log) /\ done # <<>> /\ DOMAIN done = DOMAIN stages
      /\ \A k \in DOMAIN stages : done[k].units = stages[k].units /\ done[k].stage = stages[k].stage
  BY AggregatedKeeps
<1> HIDE DEF done
<1>3. Requests' = Requests
  <2> DEFINE asked(list) == UNION {UNION {u.requests : u \in Range(list[i].units)} :
                                     i \in {k \in DOMAIN list : list[k].stage = "MEANING"}}
  <2>1. Requests = asked(stages) /\ Requests' = asked(stages')
    BY DEF Requests, Range
  <2>2. asked(done) = asked(stages)
    BY <1>2
  <2>3. QED
    BY <1>1, <2>1, <2>2
<1>4. RequestsPlaced'
  <2>1. Len(stages) \in DOMAIN stages /\ Current = stages[Len(stages)]
    BY <1>0, CurrentStage
  <2>2. Current' = done[Len(stages)]
    BY <1>1, <1>2 DEF Current
  <2>3. Current'.stage = Current.stage /\ Current'.units = Current.units
    BY <1>2, <2>1, <2>2
  <2>4. Atoms(Current') = Atoms(Current)
    BY <2>3 DEF Atoms
  <2>5. QED
    BY <1>0, <1>3, <2>3, <2>4 DEF RequestsPlaced
<1>5. /\ report' \in [reviewed : SUBSET Coordinates, notAssessed : SUBSET Coordinates]
      /\ Reported'
  <2>1. CASE approved.operation = "stc"
    <3> DEFINE c == Coverage(done, {})
    <3>1. Requests = {} /\ Requests' = {}
      BY <1>0, <1>3, <2>1, StcStageReads, NoRequests DEF Typed
    <3>2. 1 \in DOMAIN done /\ done[1].stage = "STC"
      BY <1>2, <2>1, StcStageReads
    <3>3. /\ c \in [reviewed : SUBSET Coordinates, notAssessed : SUBSET Coordinates]
          /\ Honest(c, done) /\ Complete(c, approved)
      BY <1>0, <1>2, <3>1, <3>2, CoverageOfStages
    <3>4. report' = c
      BY <1>1, <2>1
    <3> HIDE DEF c
    <3>5. QED
      BY <1>1, <3>1, <3>3, <3>4 DEF Reported
  <2>2. CASE approved.operation # "stc"
    BY <1>0, <1>1, <2>2 DEF Reported, Typed
  <2>3. QED
    BY <2>1, <2>2
<1>6. Driving' /\ ClosedByLog'
  BY <1>1, <1>2 DEF Driving, ClosedByLog, OpenRun
<1>7. Typed'
  <2>1. Scope' = Scope
    BY DEF Scope
  <2>2. driver' \in {"idle", "unit", "seal", "aggregate", "report", "close"} /\ published' \in BOOLEAN
    BY <1>1
  <2>3. QED
    BY <1>0, <1>1, <1>2, <1>5, <2>1, <2>2 DEF Typed
<1>8. QED
  BY <1>1, <1>2, <1>4, <1>5, <1>6, <1>7 DEF PlanInv

LEMMA AggregatePlanInv ==
  ASSUME PlanInv, Aggregate \/ AggregateByHand
  PROVE  PlanInv'
<1>1. CASE Aggregate
  <2>1. stages # <<>> /\ AllDecided(Current) /\ Current.kind = "PARTITIONED_PLAN" /\ ~ published /\ run = OpenRun
    BY <1>1 DEF PlanInv, Driving, Aggregate, OpenRun
  <2>2. QED
    BY <1>1, <2>1, AggregateCurrentKeeps DEF Aggregate
<1>2. CASE AggregateByHand
  <2>1. stages # <<>> /\ AllDecided(Current) /\ Current.kind = "PARTITIONED_PLAN" /\ ~ published /\ run = OpenRun
    BY <1>2 DEF PlanInv, Driving, AggregateByHand, Continuing, OpenRun
  <2>2. driver' \in {"idle", "close"}
    BY <1>2 DEF AggregateByHand, Continuing
  <2>3. QED
    BY <1>2, <2>1, <2>2, AggregateCurrentKeeps DEF AggregateByHand
<1>3. QED
  BY <1>1, <1>2

LEMMA PublishTaskPlanInv ==
  ASSUME PlanInv, PublishTask
  PROVE  PlanInv'
<1> DEFINE c == Coverage(stages, {})
<1>0. Typed /\ Sound(stages, approved, log) /\ stages \in Seq(StageType)
  BY DEF PlanInv, Typed
<1>1. /\ stages # <<>> /\ run = OpenRun /\ approved.operation = "stc" /\ report' = c /\ published' /\ published' \in BOOLEAN
      /\ driver' = "close" /\ UNCHANGED <<approved, stages, unavailable, log, run, stops>>
  BY DEF PlanInv, Driving, PublishTask, Continuing, OpenRun
<1>2. 1 \in DOMAIN stages /\ stages[1].stage = "STC" /\ Requests = {}
  BY <1>0, <1>1, StcStageReads, NoRequests
<1>3. /\ c \in [reviewed : SUBSET Coordinates, notAssessed : SUBSET Coordinates]
      /\ Honest(c, stages) /\ Complete(c, approved)
  BY <1>0, <1>2, CoverageOfStages
<1> HIDE DEF c
<1>4. Requests' = {}
  BY <1>1, <1>2 DEF Requests
<1>5. Reported'
  BY <1>1, <1>3, <1>4 DEF Reported
<1>6. Driving' /\ ClosedByLog'
  BY <1>1 DEF Driving, ClosedByLog, OpenRun
<1>7. QED
  BY <1>0, <1>1, <1>3, <1>5, <1>6, StagesUntouched DEF Typed

LEMMA PlanStep ==
  ASSUME PlanInv, [Next]_vars
  PROVE  PlanInv'
<1>1. CASE Session
  <2>1. CASE Create
    BY <2>1, CreatePlanInv
  <2>2. CASE OpenMeaning \/ OpenCases
    BY <2>2, OpenMeaningPlanInv, OpenCasesPlanInv
  <2>3. CASE Submit \/ ReportUnit \/ SealUnit
    BY <2>3, SubmitPlanInv, ReportUnitPlanInv, SealUnitPlanInv
  <2>4. CASE Finalize
    BY <2>4, FinalizePlanInv
  <2>5. CASE Aggregate
    BY <2>5, AggregatePlanInv
  <2>6. CASE PublishTask
    BY <2>6, PublishTaskPlanInv
  <2>7. CASE RunUnit \/ ReadyToAggregate \/ MarkFinalized \/ SeeFinalized \/ CloseRun
    BY <2>7, DriverPlanInv
  <2>8. QED
    BY <1>1, <2>1, <2>2, <2>3, <2>4, <2>5, <2>6, <2>7 DEF Session
<1>2. CASE Stop
  BY <1>2, DriverPlanInv
<1>3. CASE SubmitByHand
  BY <1>3, SubmitByHandPlanInv
<1>4. CASE AggregateByHand
  BY <1>4, AggregatePlanInv
<1>5. CASE UNCHANGED vars
  <2>1. Current' = Current /\ Requests' = Requests /\ stages' = stages /\ log' = log
    BY <1>5 DEF vars, Current, Requests
  <2>2. Driving' /\ Reported' /\ ClosedByLog'
    BY <1>5, <2>1 DEF vars, PlanInv, Driving, Reported, ClosedByLog
  <2>3. QED
    BY <1>5, <2>2, StagesUntouched DEF vars, PlanInv, Typed
<1>6. QED
  BY <1>1, <1>2, <1>3, <1>4, <1>5 DEF Next

---------------------------------------------------------------------------
(* What a Run promises.                                                     *)

\* The state of the plan is always of the stages, the log and the driver's place that the
\* steps of the code leave (rtc_tasks.py _continue_rtc_composite, menu.py Continue).
THEOREM PlanInvariant == Spec => []PlanInv
<1>1. PlanInv /\ [Next]_vars => PlanInv'
  BY PlanStep
<1>2. QED
  BY InitPlanInv, <1>1, PTL DEF Spec

\* The stages of a plan are one of the lists the code can make of them.
LEMMA OrderedLists ==
  ASSUME NEW list \in Seq(StageType), NEW plan, Ordered(list, plan)
  PROVE  [i \in DOMAIN list |-> list[i].stage] \in
            {<<>>, <<"STC">>, <<"STRUCTURAL">>, <<"STRUCTURAL", "MEANING">>, <<"MEANING">>,
             <<"MEANING", "OL">>, <<"STRUCTURAL", "MEANING", "OL">>}
<1> DEFINE names == [i \in DOMAIN list |-> list[i].stage]
<1>1. /\ Len(list) \in Nat /\ DOMAIN list = 1 .. Len(list)
      /\ \A i \in 1 .. Len(list) : list[i].stage \in {"STRUCTURAL", "MEANING", "OL", "STC"}
  <2>1. \A s \in StageType : s.stage \in {"STRUCTURAL", "MEANING", "OL", "STC"}
    BY DEF StageType
  <2>2. Len(list) \in Nat /\ DOMAIN list = 1 .. Len(list) /\ \A i \in 1 .. Len(list) : list[i] \in StageType
    OBVIOUS
  <2>3. QED
    BY <2>1, <2>2
<1>2. \A i \in 1 .. Len(list) :
        /\ list[i].stage = "STC" => i = 1 /\ Len(list) = 1
        /\ list[i].stage = "STRUCTURAL" => i = 1
        /\ list[i].stage = "MEANING" => i = 1 \/ (i = 2 /\ list[1].stage = "STRUCTURAL")
        /\ list[i].stage = "OL" => i > 1 /\ i = Len(list) /\ list[i - 1].stage = "MEANING"
  BY <1>1 DEF Ordered
<1>3. Len(list) <= 3
  <2> SUFFICES ASSUME Len(list) > 3 PROVE FALSE
    BY <1>1
  <2>1. 3 \in 1 .. Len(list) /\ 3 # Len(list) /\ 3 # 1 /\ 3 # 2
    BY <1>1
  <2>2. list[3].stage \notin {"STRUCTURAL", "MEANING", "OL", "STC"}
    BY <1>2, <2>1
  <2>3. QED
    BY <1>1, <2>1, <2>2
<1>4. CASE Len(list) = 0
  <2>1. names = [i \in {} |-> list[i].stage] /\ <<>> = [i \in {} |-> list[i].stage]
    BY <1>1, <1>4
  <2>2. QED
    BY <2>1
<1>5. CASE Len(list) = 1
  <2>1. names = <<list[1].stage>>
    BY <1>1, <1>5
  <2>2. list[1].stage \in {"STC", "STRUCTURAL", "MEANING"}
    BY <1>1, <1>2, <1>5
  <2>3. QED
    BY <2>1, <2>2
<1>6. CASE Len(list) = 2
  <2>1. names = <<list[1].stage, list[2].stage>>
    BY <1>1, <1>6
  <2>2. 1 \in 1 .. Len(list) /\ 2 \in 1 .. Len(list) /\ 2 - 1 = 1
    BY <1>6
  <2>3. \/ list[1].stage = "STRUCTURAL" /\ list[2].stage = "MEANING"
        \/ list[1].stage = "MEANING" /\ list[2].stage = "OL"
    BY <1>1, <1>2, <1>6, <2>2
  <2>4. QED
    BY <2>1, <2>3
<1>7. CASE Len(list) = 3
  <2>1. names = <<list[1].stage, list[2].stage, list[3].stage>>
    BY <1>1, <1>7
  <2>2. 1 \in 1 .. Len(list) /\ 2 \in 1 .. Len(list) /\ 3 \in 1 .. Len(list) /\ 3 - 1 = 2
    BY <1>7
  <2>3. list[1].stage = "STRUCTURAL" /\ list[2].stage = "MEANING" /\ list[3].stage = "OL"
    BY <1>1, <1>2, <1>7, <2>2
  <2>4. QED
    BY <2>1, <2>3
<1>8. Len(list) \in {0, 1, 2, 3}
  BY <1>1, <1>3
<1>9. QED
  BY <1>4, <1>5, <1>6, <1>7, <1>8, Zenon

\* The variables keep their types, and the stages come in one of the orders of the code.
THEOREM PlanTypeCorrect == Spec => []TypeOK
<1>1. PlanInv => TypeOK
  <2> SUFFICES ASSUME PlanInv PROVE TypeOK
    OBVIOUS
  <2>1. Typed /\ Ordered(stages, approved)
    BY DEF PlanInv, Sound
  <2>2. ASSUME NEW s \in Range(stages)
        PROVE  /\ s.kind \in {"TASK", "PARTITIONED_PLAN"}
               /\ s.kind = "TASK" => Len(s.units) = 1 /\ ~ s.aggregated
               /\ Range(s.units) \subseteq UnitType
               /\ s.leftOut \subseteq Coordinates
    <3>1. PICK i \in DOMAIN stages : s = stages[i]
      BY DEF Range
    <3>2. s \in StageType /\ Kinds(s)
      BY <2>1, <3>1 DEF Typed
    <3>3. Range(s.units) \subseteq UnitType
      BY <3>2 DEF StageType, Range
    <3>4. QED
      BY <3>2, <3>3 DEF StageType, Kinds
  <2>3. Scope \subseteq Coordinates
    BY <2>1, PlansAssumption DEF Typed, Scope, Range
  <2>4. QED
    BY <2>1, <2>2, <2>3, OrderedLists DEF Typed, TypeOK
<1>2. QED
  BY PlanInvariant, <1>1, PTL

\* A published report never counts a coordinate as reviewed that some unit lost, nor one
\* whose review against the original text was asked for and not given (_finalize_composite_rtc).
THEOREM PlanNothingLostIsClaimed == Spec => []NothingLostIsClaimed
<1>1. PlanInv => NothingLostIsClaimed
  <2> SUFFICES ASSUME PlanInv, published PROVE NothingLostIsClaimed
    BY DEF NothingLostIsClaimed
  <2>1. Honest(report, stages) /\ (approved.drift => \A r \in Requests \cap report.reviewed : Answered(r, stages))
    BY DEF PlanInv, Reported
  <2>2. \A s \in Range(stages) : \A u \in Range(s.units) : UnitLost(u) \cap report.reviewed = {}
    BY <2>1 DEF Honest, Range
  <2>3. ASSUME NEW r, Answered(r, stages)
        PROVE  \E s \in Range(stages) : \E u \in Range(s.units) :
                  s.stage = "OL" /\ r \in u.atoms /\ u.status = "FINALIZED"
    BY <2>3 DEF Answered, Range
  <2>4. QED
    BY <2>1, <2>2, <2>3 DEF NothingLostIsClaimed
<1>2. QED
  BY PlanInvariant, <1>1, PTL

\* A published report accounts for every coordinate of the scope once, unless RTC forgets what
\* planning left out of a plan of one unit (rtc_tasks.py:187-209).
THEOREM PlanEveryCoordinateAccounted ==
  ASSUME \A p \in Plans : ~ Forgets(p)
  PROVE  Spec => []EveryCoordinateAccounted
<1>1. PlanInv => EveryCoordinateAccounted
  <2> SUFFICES ASSUME PlanInv, published PROVE EveryCoordinateAccounted
    BY DEF EveryCoordinateAccounted
  <2>1. Complete(report, approved) /\ ~ Forgets(approved)
    BY DEF PlanInv, Reported, Typed
  <2>2. QED
    BY <2>1 DEF EveryCoordinateAccounted, Complete
<1>2. QED
  BY PlanInvariant, <1>1, PTL

\* A Run closed plainly COMPLETE had every unit assessed in full (_saw_completion_status).
THEOREM PlanCompleteMeansAssessed == Spec => []CompleteMeansAssessed
<1>1. PlanInv => CompleteMeansAssessed
  <2> SUFFICES ASSUME PlanInv, run = "COMPLETE" PROVE CompleteMeansAssessed
    BY DEF CompleteMeansAssessed
  <2>1. log = {}
    BY DEF PlanInv, ClosedByLog
  <2>2. \A i \in DOMAIN stages : \A j \in DOMAIN stages[i].units : UnitLost(stages[i].units[j]) \subseteq {}
    BY <2>1 DEF PlanInv, Sound, UnitSound
  <2>3. \A s \in Range(stages) : \A u \in Range(s.units) : UnitLost(u) = {}
    BY <2>2 DEF Range
  <2>4. QED
    BY <2>3 DEF CompleteMeansAssessed
<1>2. QED
  BY PlanInvariant, <1>1, PTL
=============================================================================
