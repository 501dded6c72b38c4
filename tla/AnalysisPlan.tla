---------------------------- MODULE AnalysisPlan ----------------------------
(***************************************************************************)
(* The plan of one RTC or STC Run, from the approved work units to the     *)
(* closed Run.  An RTC plan is composite: a list of stages (structural     *)
(* adjudication, comparison with the reference text, adjudication of       *)
(* single cases against the original language), each one task or one       *)
(* partition of tasks that is aggregated when all are decided; the next    *)
(* stage is created from the result of the last one.  An STC Run has one   *)
(* stage.  At the end the report says which coordinates were reviewed and  *)
(* which were not assessed, and the Run is closed with a status read from  *)
(* its log of exceptions.                                                  *)
(*                                                                         *)
(* One menu session drives the Run (it holds the Run's driver lock); it    *)
(* may stop between any two writes.  Between sessions an operator may      *)
(* submit a unit or aggregate a plan by hand.  How one unit comes to be    *)
(* decided is module TaskExecution; here a unit is reviewed, reviewed in   *)
(* part (RTC only), or reported and then sealed NOT_ASSESSED.              *)
(***************************************************************************)
EXTENDS Naturals, Sequences, FiniteSets, SequencesExt

CONSTANTS
    Coordinates,    \* the verses of the requested scope
    Plans,          \* the approved work plans an instance considers
    MaxStops        \* bound: how often the session stops before the Run closes

(***************************************************************************)
(* An approved plan: its units in order, what planning left out of them    *)
(* (chapters with a compile defect, spans no unit can hold), the           *)
(* coordinates of structural candidates the code could not decide, and     *)
(* whether source-text drift adjudication is ENABLED.                      *)
(***************************************************************************)
ASSUME PlansAssumption ==
    /\ IsFiniteSet(Coordinates)
    /\ Plans \subseteq [operation : {"rtc", "stc"},
                        units : Seq((SUBSET Coordinates) \ {{}}) \ {<<>>},
                        leftOut : SUBSET Coordinates,
                        structural : SUBSET Coordinates,
                        drift : BOOLEAN]
    /\ \A p \in Plans : p.structural \subseteq UNION Range(p.units)
ASSUME StopsAssumption == MaxStops \in Nat

VARIABLES
    approved,       \* the approved work plan
    stages,         \* the stages of the plan file, with the results of their units
    unavailable,    \* requests the plan records as unservable by the original text
    report,         \* the coverage of the last report written
    published,      \* the plan is FINALIZED
    log,            \* coordinates of the NOT_ASSESSED rows of the exception log
    run,            \* status of the Run
    driver,         \* where the session is
    stops

vars == <<approved, stages, unavailable, report, published, log, run, driver, stops>>

OpenRun == "IN_PROGRESS"
ClosedRun == {"COMPLETE", "COMPLETE_WITH_EXCEPTIONS"}

(***************************************************************************)
(* Stages                                                                  *)
(***************************************************************************)
Unit(atoms) == [atoms |-> atoms, status |-> "CREATED", lost |-> {}, requests |-> {}]

Stage(name, kind, units, leftOut) ==
    [stage |-> name, kind |-> kind, units |-> [i \in DOMAIN units |-> Unit(units[i])],
     leftOut |-> leftOut, aggregated |-> FALSE]

(* Mutant: what planning left out is dropped from every stage. *)
ApprovedStageForgetful(name, references) ==
    Stage(name, IF Len(approved.units) = 1 THEN "TASK" ELSE "PARTITIONED_PLAN", approved.units, {})

(***************************************************************************)
(* What the approved units own of the references, unit by unit in their    *)
(* order, without the units that own nothing.                              *)
(***************************************************************************)
OwnedParts(references) ==
    LET owners == {i \in DOMAIN approved.units : approved.units[i] \cap references # {}}
        owner(k) == CHOOSE i \in owners : Cardinality({j \in owners : j < i}) = k - 1
    IN  [k \in 1 .. Cardinality(owners) |-> approved.units[owner(k)] \cap references]

(***************************************************************************)
(* The stage of an RTC plan over the approved units; `references' narrows  *)
(* it to the units that own a structural candidate.  A stage of one unit   *)
(* is a plain task and carries nothing of what planning left out.          *)
(***************************************************************************)
ApprovedStage(name, references) ==
    LET owned == IF references = {} THEN approved.units ELSE OwnedParts(references)
    IN  IF Len(owned) = 1
        THEN Stage(name, "TASK", owned, {})
        ELSE Stage(name, "PARTITIONED_PLAN", owned, IF references = {} THEN approved.leftOut ELSE {})

(* The stage of an STC plan. *)
StcStage ==
    IF Len(approved.units) > 1 \/ approved.leftOut # {}
    THEN Stage("STC", "PARTITIONED_PLAN", approved.units, approved.leftOut)
    ELSE Stage("STC", "TASK", approved.units, {})

(* One isolated case for each request; a request is known by its target.   *)
CaseStage(requests) ==
    LET cases == SetToSeq({{r} : r \in requests})
    IN  Stage("OL", IF Len(cases) = 1 THEN "TASK" ELSE "PARTITIONED_PLAN", cases, {})

Current == stages[Len(stages)]

(* Mutant: a sealed unit keeps the plan waiting. *)
DecidedIfFinalized(u) == u.status = "FINALIZED"

Decided(u) == u.status \in {"FINALIZED", "NOT_ASSESSED"}
AllDecided(s) == \A i \in DOMAIN s.units : Decided(s.units[i])

(* A later unit was decided by hand before an earlier one: an error.       *)
OutOfOrder(s) ==
    /\ s.kind = "PARTITIONED_PLAN"
    /\ \E i, j \in DOMAIN s.units : i < j /\ ~ Decided(s.units[i]) /\ Decided(s.units[j])

Settled(s) == IF s.kind = "TASK" THEN AllDecided(s) ELSE s.aggregated

NextUnit(s) == CHOOSE i \in DOMAIN s.units :
                   /\ ~ Decided(s.units[i])
                   /\ \A j \in 1 .. i - 1 : Decided(s.units[j])

(***************************************************************************)
(* Coverage                                                                *)
(***************************************************************************)
UnitLost(u) == IF u.status = "NOT_ASSESSED" THEN u.atoms ELSE u.lost

Requests == UNION {UNION {u.requests : u \in Range(s.units)} :
                      s \in {t \in Range(stages) : t.stage = "MEANING"}}

(* A lost task of the last stage takes every request with it; a lost case  *)
(* of a partition only its own.                                            *)
StageLost(s) ==
    (UNION {UnitLost(u) : u \in Range(s.units)})
        \cup s.leftOut
        \cup (IF s.stage = "OL" /\ s.kind = "TASK" /\ s.units[1].status = "NOT_ASSESSED"
              THEN Requests ELSE {})

(* Mutant: only the stage that read a coordinate is asked about it. *)
CoverageOfReading(list, unserved) ==
    LET reading == {s \in Range(list) : s.stage \in {"MEANING", "STC"}}
        lost == (UNION {StageLost(s) : s \in reading}) \cup unserved
    IN  [reviewed |-> (UNION {UNION {u.atoms : u \in Range(s.units)} : s \in reading}) \ lost,
         notAssessed |-> lost]

(***************************************************************************)
(* What the last report says: a coordinate some stage could not assess is  *)
(* not assessed, even when the stage that compares the meaning reviewed it.*)
(***************************************************************************)
Coverage(list, unserved) ==
    LET lost == (UNION {StageLost(s) : s \in Range(list)}) \cup unserved
        read == UNION {UNION {u.atoms : u \in Range(s.units)} :
                          s \in {t \in Range(list) : t.stage \in {"MEANING", "STC"}}}
    IN  [reviewed |-> read \ lost, notAssessed |-> lost]

NoReport == [reviewed |-> {}, notAssessed |-> {}]

Init ==
    /\ approved \in Plans
    /\ stages = <<>>
    /\ unavailable = {}
    /\ report = NoReport
    /\ published = FALSE
    /\ log = {}
    /\ run = "CREATED"
    /\ driver = "idle"
    /\ stops = 0

(***************************************************************************)
(* The session creates the plan with its first stage.  A death before the  *)
(* Run names the plan leaves tasks nobody refers to, and creates it anew.  *)
(***************************************************************************)
Create ==
    /\ run = "CREATED"
    /\ stages' = << CASE approved.operation = "stc" -> StcStage
                      [] approved.operation # "stc" /\ approved.structural # {}
                           -> ApprovedStage("STRUCTURAL", approved.structural)
                      [] OTHER -> ApprovedStage("MEANING", {}) >>
    /\ run' = OpenRun
    /\ UNCHANGED <<approved, unavailable, report, published, log, driver, stops>>

(***************************************************************************)
(* Continue: look at the last stage and take the one next step.            *)
(***************************************************************************)
Continuing == driver = "idle" /\ run = OpenRun /\ ~ published
RtcSettled == Continuing /\ approved.operation = "rtc" /\ Settled(Current)

RunUnit ==
    /\ Continuing
    /\ ~ AllDecided(Current)
    /\ ~ OutOfOrder(Current)
    /\ driver' = "unit"
    /\ UNCHANGED <<approved, stages, unavailable, report, published, log, run, stops>>

ReadyToAggregate ==
    /\ Continuing
    /\ AllDecided(Current)
    /\ ~ Settled(Current)
    /\ driver' = "aggregate"
    /\ UNCHANGED <<approved, stages, unavailable, report, published, log, run, stops>>

OpenStage(new, unserved) ==
    /\ stages' = Append(stages, new)
    /\ unavailable' = unserved
    /\ UNCHANGED <<approved, report, published, log, run, driver, stops>>

OpenMeaning ==
    /\ RtcSettled
    /\ Current.stage = "STRUCTURAL"
    /\ OpenStage(ApprovedStage("MEANING", {}), unavailable)

(* The original text serves some requests now; the others are recorded.    *)
OpenCases ==
    /\ RtcSettled
    /\ Current.stage = "MEANING"
    /\ approved.drift
    /\ \E servable \in (SUBSET Requests) \ {{}} :
          OpenStage(CaseStage(servable), Requests \ servable)

(* The report is written, and only then the plan is marked FINALIZED.      *)
WriteReport(unserved) ==
    /\ report' = Coverage(stages, unserved)
    /\ driver' = "report"
    /\ UNCHANGED <<approved, stages, unavailable, published, log, run, stops>>

Finalize ==
    /\ RtcSettled
    /\ \/ Current.stage = "OL" /\ WriteReport(unavailable)
       \/ Current.stage = "MEANING" /\ (Requests = {} \/ ~ approved.drift) /\ WriteReport({})
       \/ Current.stage = "MEANING" /\ Requests # {} /\ approved.drift /\ WriteReport(Requests)

MarkFinalized ==
    /\ driver = "report"
    /\ published' = TRUE
    /\ driver' = "close"
    /\ UNCHANGED <<approved, stages, unavailable, report, log, run, stops>>

(***************************************************************************)
(* The unit the session runs                                               *)
(***************************************************************************)
SetUnit(i, result) == stages' = [stages EXCEPT ![Len(stages)].units[i] = result]

(* Mutant: what an accepted unit left out is not logged. *)
AcceptSilently(i) ==
    LET u == Current.units[i]
        partial == IF Current.stage = "STC" THEN {{}} ELSE (SUBSET u.atoms) \ {u.atoms}
    IN  \E lost \in partial :
           /\ SetUnit(i, [u EXCEPT !.status = "FINALIZED", !.lost = lost])
           /\ log' = log

(* An accepted result: an RTC unit may leave coordinates without evidence, *)
(* logged before it is finalized, and a comparison may ask for a review    *)
(* against the original language of some it did review.                    *)
Accept(i) ==
    LET u == Current.units[i]
        partial == IF Current.stage = "STC" THEN {{}} ELSE (SUBSET u.atoms) \ {u.atoms}
        asked(lost) == IF Current.stage = "MEANING" THEN SUBSET (u.atoms \ lost) ELSE {{}}
    IN  \E lost \in partial : \E requests \in asked(lost) :
           /\ SetUnit(i, [u EXCEPT !.status = "FINALIZED", !.lost = lost, !.requests = requests])
           /\ log' = log \cup lost

Submit ==
    /\ driver = "unit"
    /\ Accept(NextUnit(Current))
    /\ driver' = "idle"
    /\ UNCHANGED <<approved, unavailable, report, published, run, stops>>

(* After the last attempt: the row first, the sealed result second.        *)
ReportUnit ==
    /\ driver = "unit"
    /\ log' = log \cup Current.units[NextUnit(Current)].atoms
    /\ driver' = "seal"
    /\ UNCHANGED <<approved, stages, unavailable, report, published, run, stops>>

SealUnit ==
    /\ driver = "seal"
    /\ SetUnit(NextUnit(Current), [Current.units[NextUnit(Current)] EXCEPT !.status = "NOT_ASSESSED"])
    /\ driver' = "idle"
    /\ UNCHANGED <<approved, unavailable, report, published, log, run, stops>>

(***************************************************************************)
(* Aggregation of a partition; for STC it also publishes the reports.      *)
(***************************************************************************)
AggregateCurrent ==
    LET done == [stages EXCEPT ![Len(stages)].aggregated = TRUE]
    IN  /\ stages' = done
        /\ published' = (approved.operation = "stc")
        /\ report' = IF approved.operation = "stc" THEN Coverage(done, {}) ELSE report

Aggregate ==
    /\ driver = "aggregate"
    /\ AggregateCurrent
    /\ driver' = IF approved.operation = "stc" THEN "close" ELSE "idle"
    /\ UNCHANGED <<approved, unavailable, log, run, stops>>

(* The STC Run of one task has no plan: its reports are made when it closes. *)
PublishTask ==
    /\ Continuing
    /\ approved.operation = "stc"
    /\ Settled(Current)
    /\ report' = Coverage(stages, {})
    /\ published' = TRUE
    /\ driver' = "close"
    /\ UNCHANGED <<approved, stages, unavailable, log, run, stops>>

(* A session that finds the plan FINALIZED has only to close the Run.      *)
SeeFinalized ==
    /\ driver = "idle"
    /\ run = OpenRun
    /\ published
    /\ driver' = "close"
    /\ UNCHANGED <<approved, stages, unavailable, report, published, log, run, stops>>

CloseRun ==
    /\ driver = "close"
    /\ run' = IF log # {} THEN "COMPLETE_WITH_EXCEPTIONS" ELSE "COMPLETE"
    /\ driver' = "idle"
    /\ UNCHANGED <<approved, stages, unavailable, report, published, log, stops>>

(***************************************************************************)
(* Stops, and commands of an operator between sessions                     *)
(***************************************************************************)
Stop ==
    /\ driver # "idle"
    /\ stops < MaxStops
    /\ driver' = "idle"
    /\ stops' = stops + 1
    /\ UNCHANGED <<approved, stages, unavailable, report, published, log, run>>

SubmitByHand ==
    /\ Continuing
    /\ \E i \in DOMAIN Current.units : ~ Decided(Current.units[i]) /\ Accept(i)
    /\ UNCHANGED <<approved, unavailable, report, published, run, driver, stops>>

AggregateByHand ==
    /\ Continuing
    /\ Current.kind = "PARTITIONED_PLAN"
    /\ AllDecided(Current)
    /\ ~ Settled(Current)
    /\ AggregateCurrent
    /\ UNCHANGED <<approved, unavailable, log, run, driver, stops>>

Session ==
    \/ Create \/ RunUnit \/ ReadyToAggregate \/ OpenMeaning \/ OpenCases \/ Finalize
    \/ MarkFinalized \/ Submit \/ ReportUnit \/ SealUnit \/ Aggregate \/ PublishTask
    \/ SeeFinalized \/ CloseRun

Next == Session \/ Stop \/ SubmitByHand \/ AggregateByHand

Spec == Init /\ [][Next]_vars

(* The menu loops until the Run is closed, and its operator continues a    *)
(* stopped Run: some step of the session is always taken.                  *)
FairSpec == Spec /\ WF_vars(Session)
(***************************************************************************)
(* Properties                                                              *)
(***************************************************************************)
UnitType ==
    [atoms : (SUBSET Coordinates) \ {{}}, status : {"CREATED", "FINALIZED", "NOT_ASSESSED"},
     lost : SUBSET Coordinates, requests : SUBSET Coordinates]

(* The type of the state; the stages of a plan come in their one order,    *)
(* each once (_continue_rtc_composite).                                    *)
TypeOK ==
    /\ approved \in Plans
    /\ [i \in DOMAIN stages |-> stages[i].stage] \in
          {<<>>, <<"STC">>, <<"STRUCTURAL">>, <<"STRUCTURAL", "MEANING">>, <<"MEANING">>,
           <<"MEANING", "OL">>, <<"STRUCTURAL", "MEANING", "OL">>}
    /\ \A s \in Range(stages) :
          /\ s.kind \in {"TASK", "PARTITIONED_PLAN"}
          /\ s.kind = "TASK" => Len(s.units) = 1 /\ ~ s.aggregated
          /\ Range(s.units) \subseteq UnitType
          /\ s.leftOut \subseteq Coordinates
    /\ report \in [reviewed : SUBSET Coordinates, notAssessed : SUBSET Coordinates]
    /\ unavailable \subseteq Coordinates /\ log \subseteq Coordinates
    /\ published \in BOOLEAN
    /\ run \in {"CREATED", OpenRun} \cup ClosedRun
    /\ driver \in {"idle", "unit", "seal", "aggregate", "report", "close"}
    /\ stops \in 0 .. MaxStops

(* A published report never counts a coordinate as reviewed when a unit of *)
(* any stage lost it, nor when a review against the original language was  *)
(* asked for it and no finalized case answered -- through sessions that    *)
(* stop between the report and the plan, and text that becomes available   *)
(* in between (_finalize_composite_rtc).                                   *)
NothingLostIsClaimed ==
    published =>
        /\ \A s \in Range(stages) : \A u \in Range(s.units) :
              UnitLost(u) \cap report.reviewed = {}
        /\ approved.drift =>
              \A r \in Requests \cap report.reviewed :
                 \E s \in Range(stages) : \E u \in Range(s.units) :
                    s.stage = "OL" /\ r \in u.atoms /\ u.status = "FINALIZED"

(* A published report accounts for every coordinate of the requested scope,*)
(* also those planning left out, as reviewed or as not assessed and never  *)
(* as both (effective_scope.py, aggregate_act_plan, _aggregate_stc_plan).  *)
EveryCoordinateAccounted ==
    published =>
        /\ report.reviewed \cup report.notAssessed =
              (UNION Range(approved.units)) \cup approved.leftOut
        /\ report.reviewed \cap report.notAssessed = {}

(* A Run closed plainly COMPLETE had every unit of every stage assessed in *)
(* full (_saw_completion_status: units reported NOT_ASSESSED must not close*)
(* as a plain COMPLETE Run).                                               *)
CompleteMeansAssessed ==
    run = "COMPLETE" => \A s \in Range(stages) : \A u \in Range(s.units) : UnitLost(u) = {}

(* A continued Run is closed in the end, whatever its units come to and    *)
(* however often the session stops, unless units were decided by hand out  *)
(* of order, which every Continue refuses.                                 *)
RunCloses == <>(run \in ClosedRun \/ (stages # <<>> /\ OutOfOrder(Current)))
=============================================================================
