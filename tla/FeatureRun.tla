----------------------------- MODULE FeatureRun -----------------------------
(***************************************************************************)
(* The Execute phase: Executor.executeFeatures, FeatureExecutor.doFeature   *)
(* and FeatureExecutor.doFeatureStep (core/src/phases/Executor.ts), with    *)
(* the hooks of the steppers that keep state across steps: the variable     *)
(* scopes of VariablesStepper, the after-every steps of Haibun, the         *)
(* instructions of DebuggerStepper and a resource that lives from           *)
(* startFeature to endFeature (WebServerStepper).                           *)
(*                                                                         *)
(* The phase is one asynchronous call chain, so there is one program        *)
(* counter; a step of the model is the code from one await of a hook or an  *)
(* action to the next.  A top-level step is of one of the kinds below, and  *)
(* tolerates failures when its statements or its after-every steps hold an  *)
(* `until`, whose polls may fail before it passes, or an `ensure` below a   *)
(* statement that is tried.  What the action of a "plain" step does is      *)
(* chosen: its result, whether it exhausted the run, the variable it sets   *)
(* and the record a nested statement left behind.                          *)
(***************************************************************************)
EXTENDS Integers, Sequences, FiniteSets

CONSTANTS
  Plans,        \* the resolved runs: sequences of features, each a sequence of steps
  Options,      \* records [continueAfterError, stay, debugging]
  MaxReruns     \* bound: times the debugger reruns one step

Kind == {"feature", "scenario", "plain"}      \* FEATURE_START, SCENARIO_START, any other
Step == [kind : Kind, tolerates : BOOLEAN]
Stay == {"no", "failure", "always"}

ASSUME FeatureRunAssumption ==
  /\ Plans \subseteq Seq(Seq(Step))
  /\ Options \subseteq [continueAfterError : BOOLEAN, stay : Stay, debugging : BOOLEAN]
  /\ MaxReruns \in Nat

VARIABLES
  plan,             \* resolved features
  options,          \* world.options
  pc,               \* where the call chain waits
  featureNum,       \* the loop of executeFeatures
  stepNum,          \* the loop of doFeature
  currentScenario,  \* doFeature's counter, 0 outside scenarios
  reruns,           \* reruns of the current step (bounded by MaxReruns)
  actionOk,         \* actionResult.ok
  stepOk,           \* doFeatureStep's ok
  featureOk,        \* doFeature's ok
  okSoFar,          \* executeFeatures' ok
  exhausted,        \* world.runtime.exhaustionError is set
  records,          \* world.runtime.stepResults of the current feature
  results,          \* featureResults
  failure,          \* TExecutorResult.failure: the blamed record, or None
  shared,           \* variables of world.shared, each named by the step that set it
  scoped, base,     \* scopedVars and baseVars
  held,             \* features whose startFeature resource is still open
  hooks             \* hooks[h] = hooks of kind h started and not ended

run  == <<plan, options>>
ctl  == <<featureNum, stepNum, currentScenario>>
step == <<reruns, actionOk, stepOk>>
vars == <<run, pc, ctl, step, featureOk, okSoFar, exhausted, records, results,
          failure, shared, scoped, base, held, hooks>>

L == INSTANCE Lifecycle WITH open <- hooks

None == [feature |-> 0, step |-> 0, ok |-> FALSE, speculative |-> FALSE]

Record(ok, speculative) ==
  [feature |-> featureNum, step |-> stepNum, ok |-> ok, speculative |-> speculative]

Steps == plan[featureNum]
KindOf == Steps[stepNum].kind
Tolerates == Steps[stepNum].tolerates
IsLast == featureNum = Len(plan)

Started(h) == hooks' = [hooks EXCEPT ![h] = @ + 1]
Ended(h)   == hooks' = [hooks EXCEPT ![h] = @ - 1]

-----------------------------------------------------------------------------
(* Verdicts *)

\* Variant: any failure counts as the last feature.
ShouldCloseAnyFailureLast(ok, isLast) ==
  \/ ~(isLast \/ ~ok)
  \/ options.stay # "always" /\ (ok \/ options.stay # "failure")

\* calculateShouldClose: only the feature that is effectively the last may
\* keep its resources, if the options ask for it.
ShouldClose(ok, isLast) ==
  LET effectivelyLast == isLast \/ (~ok /\ ~options.continueAfterError)
  IN  \/ ~effectivelyLast
      \/ /\ options.stay # "always"
         /\ ok \/ options.stay # "failure"

\* Variant: speculative records are blamed too.
BlamesSpeculative(r) == ~r.ok

\* A record createExecutionFailure may blame.
Blamed(r) == ~r.ok /\ ~r.speculative

\* The first record to blame, or None.
FirstBlamed(recs) ==
  LET hits == {i \in DOMAIN recs : Blamed(recs[i])}
  IN  IF hits = {} THEN None
      ELSE recs[CHOOSE i \in hits : \A j \in hits : i <= j]

\* Executor.createExecutionFailure: of the first failed feature, the first
\* failed record that is not speculative.
ExecutionFailure(featureResults) ==
  LET failed == {f \in DOMAIN featureResults : ~featureResults[f].ok}
      first  == CHOOSE f \in failed : \A g \in failed : f <= g
  IN  IF failed = {} THEN None ELSE FirstBlamed(featureResults[first].records)

-----------------------------------------------------------------------------
Init ==
  /\ plan \in Plans
  /\ options \in Options
  /\ pc = "start"
  /\ featureNum = 0 /\ stepNum = 1 /\ currentScenario = 0
  /\ reruns = 0 /\ actionOk = TRUE /\ stepOk = TRUE
  /\ featureOk = TRUE /\ okSoFar = TRUE /\ exhausted = FALSE
  /\ records = <<>> /\ results = <<>> /\ failure = None
  /\ shared = {} /\ scoped = {} /\ base = {}
  /\ held = {}
  /\ hooks = [h \in L!Hook |-> 0]

(* executeFeatures *)

StartExecution ==
  /\ pc = "start" /\ pc' = "feature"
  /\ Started("execution")
  /\ UNCHANGED <<run, ctl, step, featureOk, okSoFar, exhausted, records, results,
                 failure, shared, scoped, base, held>>

\* world.runtime.exhaustionError as a feature finds it.
ExhaustedAtStart == FALSE

StartFeature ==
  /\ pc = "feature" /\ featureNum < Len(plan)
  /\ pc' = "step"
  /\ featureNum' = featureNum + 1 /\ stepNum' = 1 /\ currentScenario' = 0
  /\ exhausted' = ExhaustedAtStart
  /\ featureOk' = TRUE
  /\ records' = <<>>
  /\ shared' = {} /\ scoped' = {} /\ base' = {}
  /\ held' = held \union {featureNum'}
  /\ Started("feature")
  /\ UNCHANGED <<run, step, okSoFar, results, failure>>

\* onFailure runs before the verdict is booked.
OnFailure ==
  /\ pc = "ended" /\ ~featureOk
  /\ pc' = "reported"
  /\ UNCHANGED <<run, ctl, step, featureOk, okSoFar, exhausted, records, results,
                 failure, shared, scoped, base, held, hooks>>

EndFeature ==
  /\ pc = IF featureOk THEN "ended" ELSE "reported"
  /\ okSoFar' = (okSoFar /\ featureOk)
  /\ results' = Append(results, [ok |-> featureOk, records |-> records, last |-> stepNum,
                                 exhausted |-> exhausted])
  /\ held' = IF ShouldClose(featureOk, IsLast) THEN {} ELSE held
  /\ Ended("feature")
  /\ pc' = IF ~okSoFar' /\ ~options.continueAfterError /\ ~IsLast THEN "finish" ELSE "feature"
  /\ UNCHANGED <<run, ctl, step, featureOk, exhausted, records, failure, shared, scoped, base>>

EndExecution ==
  /\ \/ pc = "finish"
     \/ pc = "feature" /\ featureNum = Len(plan)
  /\ pc' = "done"
  /\ failure' = IF okSoFar THEN None ELSE ExecutionFailure(results)
  /\ Ended("execution")
  /\ UNCHANGED <<run, ctl, step, featureOk, okSoFar, exhausted, records, results,
                 shared, scoped, base, held>>

-----------------------------------------------------------------------------
(* doFeature *)

\* Variant: a failed feature leaves its scenario open.
EndsScenarioOfPassed == featureOk /\ currentScenario > 0

\* Variant: a Feature: line keeps the variables of the scenario it ends.
KeepsScenarioVars == shared

\* Variant: endScenario is called whether or not a scenario is open.
EndsAlways == TRUE

\* if (currentScenario) await endScenario
ScenarioToEnd == currentScenario > 0

\* What a Feature: line inside a scenario restores.
RestoredVars == base

\* A Feature: or Scenario: line inside an open scenario ends that scenario.
\* Only a Feature: line restores the variables of the background.
EndOpenScenario ==
  /\ pc = "step" /\ stepNum <= Len(Steps)
  /\ KindOf \in {"feature", "scenario"} /\ ScenarioToEnd
  /\ pc' = "opening"
  /\ Ended("scenario")
  /\ IF KindOf = "feature"
     THEN shared' = RestoredVars /\ scoped' = RestoredVars /\ currentScenario' = 0
     ELSE shared' = shared /\ scoped' = shared /\ currentScenario' = currentScenario
  /\ UNCHANGED <<run, featureNum, stepNum, step, featureOk, okSoFar, exhausted, records,
                 results, failure, base, held>>

AtOpening(kinds) ==
  /\ pc \in {"step", "opening"} /\ stepNum <= Len(Steps) /\ KindOf \in kinds
  /\ pc = "opening" \/ KindOf = "plain" \/ ~ScenarioToEnd

StartScenario ==
  /\ AtOpening({"scenario"})
  /\ pc' = "args"
  /\ currentScenario' = currentScenario + 1
  /\ shared' = scoped
  /\ Started("scenario")
  /\ UNCHANGED <<run, featureNum, stepNum, step, featureOk, okSoFar, exhausted, records,
                 results, failure, scoped, base, held>>

EnterStep ==
  /\ AtOpening({"feature", "plain"})
  /\ pc' = "args"
  /\ UNCHANGED <<run, ctl, step, featureOk, okSoFar, exhausted, records, results,
                 failure, shared, scoped, base, held, hooks>>

\* The step returned: stop at the first that is not ok; outside scenarios the
\* variables set so far become the background of the scenarios to come.
StepReturned ==
  /\ pc = "stepped"
  /\ featureOk' = stepOk
  /\ IF stepOk
     THEN /\ stepNum' = stepNum + 1
          /\ pc' = "step"
          /\ IF currentScenario = 0 THEN scoped' = shared /\ base' = shared
                                    ELSE UNCHANGED <<scoped, base>>
     ELSE pc' = "unwind" /\ UNCHANGED <<stepNum, scoped, base>>
  /\ UNCHANGED <<run, featureNum, currentScenario, step, okSoFar, exhausted, records,
                 results, failure, shared, held, hooks>>

\* Variant: the loop is left after the last step only.
LeftAfterLastStep == pc = "step" /\ stepNum > Len(Steps)

\* The loop over the steps is left.
LoopLeft == pc = "unwind" \/ (pc = "step" /\ stepNum > Len(Steps))

\* After the last step, or the failed one: end the scenario still open.
LeaveSteps ==
  /\ LoopLeft
  /\ pc' = "ended"
  /\ IF ScenarioToEnd THEN Ended("scenario") ELSE UNCHANGED hooks
  /\ UNCHANGED <<run, ctl, step, featureOk, okSoFar, exhausted, records, results,
                 failure, shared, scoped, base, held>>

-----------------------------------------------------------------------------
(* doFeatureStep *)

\* Variant: exhaustion is looked at in the step that failed only.
HaltsFailed == exhausted /\ ~stepOk

\* if (world.runtime.exhaustionError) return
Halted == exhausted

\* An exhausted run fails every further step without running or recording it.
HaltExhausted ==
  /\ pc = "args" /\ Halted
  /\ pc' = "stepped"
  /\ stepOk' = FALSE
  /\ UNCHANGED <<run, ctl, reruns, actionOk, featureOk, okSoFar, exhausted, records,
                 results, failure, shared, scoped, base, held, hooks>>

\* beforeStep; on a rerun the arguments are not populated and exhaustion is
\* not looked at again, and ok keeps what an earlier afterStep made of it.
BeforeStep ==
  /\ \/ /\ pc = "args" /\ ~Halted
        /\ stepOk' = TRUE /\ reruns' = 0
     \/ /\ pc = "again"
        /\ UNCHANGED <<stepOk, reruns>>
  /\ pc' = "action"
  /\ Started("step")
  /\ UNCHANGED <<run, ctl, actionOk, featureOk, okSoFar, exhausted, records, results,
                 failure, shared, scoped, base, held>>

\* The records the statements nested in a plain step may leave: none, a failed
\* speculative one (anyOf, some, a proof), or a failed authoritative one under
\* a step that fails with it or tolerates it.
NestedRecords(ok) ==
  {<<>>, <<Record(FALSE, TRUE)>>}
    \union (IF ok /\ ~Tolerates THEN {} ELSE {<<Record(FALSE, FALSE)>>})

\* The records the after-every steps may leave: that of the one that failed, or
\* one they tolerate.
AfterEveryRecords(ok) ==
  (IF ok THEN {<<>>} ELSE {}) \union (IF ok /\ ~Tolerates THEN {} ELSE {<<Record(FALSE, FALSE)>>})

Action ==
  /\ pc = "action" /\ pc' = "after"
  /\ IF KindOf = "plain"
     THEN \E ok, exhausts \in BOOLEAN, sets \in SUBSET {stepNum} :
            \E nested \in NestedRecords(ok) :
              /\ actionOk' = ok
              /\ exhausted' = (exhausted \/ exhausts)
              /\ shared' = shared \union sets
              /\ records' = records \o Append(nested, Record(stepOk /\ ok, FALSE))
     ELSE /\ actionOk' = TRUE
          /\ records' = Append(records, Record(stepOk, FALSE))
          /\ UNCHANGED <<exhausted, shared>>
  /\ UNCHANGED <<run, ctl, reruns, stepOk, featureOk, okSoFar, results, failure,
                 scoped, base, held, hooks>>

\* What the afterStep hooks answer.  The debugger is asked about a failed
\* action only, and answers nothing when nobody debugs.
Instructions ==
  {i \in [rerun : BOOLEAN, next : BOOLEAN, fail : BOOLEAN] :
     /\ Cardinality({f \in DOMAIN i : i[f]}) <= 1
     /\ i.rerun \/ i.next \/ i.fail => options.debugging /\ ~actionOk
     /\ i.rerun => reruns < MaxReruns}

\* instructions.some(i => i?.failed)
Failed(debugger, afterEveryOk) == debugger.fail \/ ~afterEveryOk

\* afterStep: Haibun runs the after-every steps (one of them may fail, which
\* leaves a record), the debugger instructs; all answers are merged.
AfterStep ==
  /\ pc = "after"
  /\ \E afterEveryOk \in BOOLEAN : \E left \in AfterEveryRecords(afterEveryOk), debugger \in Instructions :
       LET failed == Failed(debugger, afterEveryOk)
           ok     == stepOk /\ ~failed
           result == actionOk \/ (~failed /\ debugger.next)
       IN  /\ records' = records \o left
           /\ actionOk' = result
           /\ IF debugger.rerun
              THEN pc' = "again" /\ reruns' = reruns + 1 /\ stepOk' = ok
              ELSE pc' = "stepped" /\ reruns' = reruns /\ stepOk' = (ok /\ result)
  /\ Ended("step")
  /\ UNCHANGED <<run, ctl, featureOk, okSoFar, exhausted, results, failure,
                 shared, scoped, base, held>>

-----------------------------------------------------------------------------
\* populateActionArgs on an undefined variable, or a hook, throws: the
\* exception leaves executeFeatures and PhaseRunner.tryPhase makes a failed
\* result without features of it.  No further hook runs.
Awaiting == {"start", "feature", "step", "opening", "args", "again", "after", "unwind",
             "ended", "reported", "finish"}

Bail ==
  /\ pc \in Awaiting
  /\ pc = "args" => ~exhausted
  /\ pc' = "bailed"
  /\ okSoFar' = FALSE /\ results' = <<>> /\ failure' = None
  /\ UNCHANGED <<run, ctl, step, featureOk, exhausted, records, shared, scoped, base,
                 held, hooks>>

Advance ==
  \/ StartExecution \/ StartFeature \/ OnFailure \/ EndFeature \/ EndExecution
  \/ EndOpenScenario \/ StartScenario \/ EnterStep \/ StepReturned \/ LeaveSteps
  \/ HaltExhausted \/ BeforeStep \/ Action \/ AfterStep

Next == Advance \/ Bail

\* The event loop runs the call chain as long as it can go on; a throw is
\* never owed.
Spec == Init /\ [][Next]_vars /\ WF_vars(Advance)
-----------------------------------------------------------------------------
(* Properties *)

RecordType == [feature : Nat, step : Nat, ok : BOOLEAN, speculative : BOOLEAN]
ResultType == [ok : BOOLEAN, records : Seq(RecordType), last : Nat, exhausted : BOOLEAN]
Where == Awaiting \union {"action", "stepped", "done", "bailed"}
Running == {"step", "opening", "args", "action", "after", "again", "stepped", "unwind",
            "ended", "reported"}

CtlOK ==
  /\ plan \in Seq(Seq(Step))
  /\ options \in [continueAfterError : BOOLEAN, stay : Stay, debugging : BOOLEAN]
  /\ pc \in Where
  /\ featureNum \in 0..Len(plan)
  /\ pc \in Running => featureNum \in DOMAIN plan
  /\ stepNum \in Nat \ {0} /\ currentScenario \in Nat /\ reruns \in Nat
  /\ pc \in {"opening", "args", "action", "after", "again", "stepped"} =>
       stepNum \in DOMAIN Steps

FlagsOK == /\ actionOk \in BOOLEAN /\ stepOk \in BOOLEAN
           /\ featureOk \in BOOLEAN /\ okSoFar \in BOOLEAN /\ exhausted \in BOOLEAN

DataOK ==
  /\ records \in Seq(RecordType) /\ results \in Seq(ResultType) /\ failure \in RecordType
  /\ shared \in SUBSET Nat /\ scoped \in SUBSET Nat /\ base \in SUBSET Nat
  /\ held \in SUBSET Nat

\* Every variable has the values its field in the code can have, the loops
\* stay inside the features and steps they run over, and no hook is started
\* twice or ended without a start.
TypeOK == CtlOK /\ FlagsOK /\ DataOK /\ hooks \in [L!Hook -> 0..1]

\* The hooks are nested as docs/architecture.md draws them, over every way a
\* scenario or feature may end (next Scenario: line, Feature: line, failed
\* step, last step, rerun step): the execution implements Lifecycle.
HooksAreNested == L!Spec

\* step i of the current feature lies in a scenario: a Scenario: line at or
\* before it with no Feature: line in between.
InScenario(i) == \E j \in 1..i : /\ Steps[j].kind = "scenario"
                                 /\ \A k \in j..i : Steps[k].kind # "feature"

\* Variables set inside a scenario never reach the background: outside
\* scenarios, and in what a Feature: line will restore, there are only
\* variables set outside scenarios (VariablesStepper and doFeature share this
\* over four copies of the scope).
ScenarioVarsConfined ==
  pc \in Running => /\ \A i \in base : ~InScenario(i)
                    /\ currentScenario = 0 => \A i \in shared \union scoped : ~InScenario(i)

\* What calculateShouldClose takes for the last feature is the last: when the
\* loop goes on, nothing of an earlier feature is still open ("always close to
\* start fresh for next feature").
NextFeatureStartsFresh == pc = "feature" /\ featureNum < Len(plan) => held = {}

\* When no debugger overrides results, the step a failed run is blamed on is
\* the step its first failed feature stopped at, although the records of
\* passed steps may hold failed speculative statements.  Only a step that
\* tolerates failures, an `until` say, may take the blame of a later one: its
\* failed polls are authoritative, and createExecutionFailure finds them first.
FailureBlamesFailedStep ==
  pc = "done" /\ ~options.debugging /\ failure # None =>
    LET failed == {f \in DOMAIN results : ~results[f].ok}
    IN  \E f \in failed : /\ \A g \in failed : f <= g
                          /\ failure.feature = f
                          /\ failure.step = results[f].last \/ plan[f][failure.step].tolerates

\* The verdict agrees with what was run: a run is ok exactly when every
\* feature ran and passed, features are left out after a failure only, and
\* with no debugger a passed feature recorded no failed authoritative step
\* other than those that are tolerated.
VerdictAgrees ==
  pc = "done" =>
    /\ okSoFar = (Len(results) = Len(plan) /\ \A f \in DOMAIN results : results[f].ok)
    /\ Len(results) < Len(plan) => ~options.continueAfterError /\ ~results[Len(results)].ok
    /\ ~options.debugging => \A f \in DOMAIN results : results[f].ok =>
         \A r \in DOMAIN results[f].records :
           LET record == results[f].records[r]
           IN  Blamed(record) => plan[f][record.step].tolerates

\* A failed feature left evidence of its own: a failed authoritative record,
\* or an exhaustion that a step it recorded brought about.
FailureLeavesEvidence ==
  \A f \in DOMAIN results :
    LET recs == results[f].records
    IN  ~results[f].ok => \/ \E r \in DOMAIN recs : Blamed(recs[r])
                          \/ results[f].exhausted /\ recs # <<>>

\* What a run tells of its failure is what happened in it: the verdict agrees
\* with what was run, a failure has a cause that was recorded, and what is named
\* as the cause is it or a failure that was tolerated before it.
FailureIsTold == FailureBlamesFailedStep /\ VerdictAgrees /\ FailureLeavesEvidence

\* Once a step has exhausted the run, only that step (rerun by the debugger,
\* or its after-every steps) is recorded again: no other step of the feature runs.
ExhaustionHalts ==
  [][exhausted /\ exhausted' /\ records' # records => records[Len(records)].step = stepNum]_vars

\* A feature that started is ended, whatever its steps return, unless an
\* exception left the Executor.
StartedFeatureEnds == hooks["feature"] = 1 ~> (hooks["feature"] = 0 \/ pc = "bailed")
=============================================================================
