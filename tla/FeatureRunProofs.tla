-------------------------- MODULE FeatureRunProofs --------------------------
(***************************************************************************)
(* Theorems about FeatureRun, for every set of plans and options and every  *)
(* bound on reruns: its type invariant, the nesting of the hooks (FeatureRun *)
(* implements Lifecycle), the closing of resources between features, the    *)
(* scopes of variables, the halt of an exhausted run and what a run tells   *)
(* of its failure. And about LanguageServer, for every set of documents and  *)
(* texts and every number of retries: what it knows of backgrounds and shows *)
(* of documents is of the present texts.                                    *)
(***************************************************************************)
EXTENDS FeatureRun, LanguageServer, TLAPS, WellFoundedInduction, SequenceTheorems, FiniteSetTheorems

\* The least element that FirstBlamed and ExecutionFailure choose exists.
LEMMA LeastExists ==
  ASSUME NEW T \in SUBSET Nat, T # {}
  PROVE  \E x \in T : \A y \in T : x <= y
<1>1. PICK x \in T : \A y \in T : ~(<<y, x>> \in OpToRel(<, Nat))
  BY NatLessThanWellFounded, WFMin
<1>2. \A y \in T : ~(y < x)
  BY <1>1 DEF OpToRel
<1>3. QED
  BY <1>2

\* FirstBlamed finds an element of the sequence or None.
LEMMA BlamedType ==
  ASSUME NEW seq \in Seq(RecordType)
  PROVE  FirstBlamed(seq) \in RecordType
<1> DEFINE hits == {i \in DOMAIN seq : Blamed(seq[i])}
           least == CHOOSE i \in hits : \A j \in hits : i <= j
<1>1. None \in RecordType
  BY DEF None, RecordType
<1>2. CASE hits = {}
  BY <1>1, <1>2 DEF FirstBlamed
<1>3. CASE hits # {}
  <2>1. hits \in SUBSET Nat
    OBVIOUS
  <2>2. least \in hits
    BY <1>3, <2>1, LeastExists
  <2>3. seq[least] \in RecordType
    BY <2>2
  <2>4. QED
    BY <1>3, <2>3 DEF FirstBlamed
<1>4. QED
  BY <1>2, <1>3

\* The failure report names a record, or None.
LEMMA FailureType ==
  ASSUME NEW res \in Seq(ResultType)
  PROVE  ExecutionFailure(res) \in RecordType
<1> DEFINE failed == {f \in DOMAIN res : ~res[f].ok}
           first  == CHOOSE f \in failed : \A g \in failed : f <= g
<1>1. CASE failed = {}
  BY <1>1 DEF ExecutionFailure, None, RecordType
<1>2. CASE failed # {}
  <2>1. failed \in SUBSET Nat
    OBVIOUS
  <2>2. first \in failed
    BY <1>2, <2>1, LeastExists
  <2>3. res[first].records \in Seq(RecordType)
    <3> HIDE DEF first
    <3>1. first \in DOMAIN res
      BY <2>2
    <3>2. res[first] \in ResultType
      BY <3>1
    <3>3. QED
      BY <3>2 DEF ResultType
  <2>4. FirstBlamed(res[first].records) \in RecordType
    BY <2>3, BlamedType
  <2>5. QED
    BY <1>2, <2>4 DEF ExecutionFailure
<1>3. QED
  BY <1>1, <1>2

-----------------------------------------------------------------------------
(* The hooks that are open are a function of where the call chain waits.    *)

WithinFeature == {"step", "args", "action", "after", "again", "stepped", "unwind"}

HooksInv ==
  /\ hooks \in [L!Hook -> 0..1]
  /\ pc = "opening" => KindOf = "scenario" \/ currentScenario = 0
  /\ pc # "bailed" =>
       /\ hooks["execution"] = IF pc \in {"start", "done"} THEN 0 ELSE 1
       /\ hooks["feature"]   = IF pc \in Running THEN 1 ELSE 0
       /\ hooks["scenario"]  = IF currentScenario > 0 /\ pc \in WithinFeature THEN 1 ELSE 0
       /\ hooks["step"]      = IF pc \in {"action", "after"} THEN 1 ELSE 0

IInv == TypeOK /\ HooksInv

LEMMA InitIInv == Init => IInv
<1> SUFFICES ASSUME Init PROVE IInv
  OBVIOUS
<1>1. plan \in Seq(Seq(Step)) /\ options \in [continueAfterError : BOOLEAN, stay : Stay, debugging : BOOLEAN]
  BY FeatureRunAssumption DEF Init
<1>2. failure \in RecordType
  BY DEF Init, None, RecordType
<1>3. HooksInv
  BY DEF Init, HooksInv, Running, L!Hook
<1>4. TypeOK
  <2>1. pc \in Where /\ ~(pc \in Running)
    BY DEF Init, Where, Awaiting, Running
  <2>2. featureNum \in 0..Len(plan)
    BY <1>1 DEF Init
  <2>3. records \in Seq(RecordType) /\ results \in Seq(ResultType)
    BY DEF Init
  <2>4. /\ stepNum \in Nat \ {0} /\ currentScenario \in Nat /\ reruns \in Nat
        /\ pc \in {"opening", "args", "action", "after", "again", "stepped"} => stepNum \in DOMAIN Steps
    BY DEF Init
  <2>5. /\ actionOk \in BOOLEAN /\ stepOk \in BOOLEAN
        /\ featureOk \in BOOLEAN /\ okSoFar \in BOOLEAN /\ exhausted \in BOOLEAN
    BY DEF Init
  <2>6. /\ shared \in SUBSET Nat /\ scoped \in SUBSET Nat /\ base \in SUBSET Nat
        /\ held \in SUBSET Nat
    BY DEF Init
  <2>7. hooks \in [L!Hook -> 0..1]
    BY <1>3 DEF HooksInv
  <2>9. QED
    BY <1>1, <1>2, <2>1, <2>2, <2>3, <2>4, <2>5, <2>6, <2>7 DEF TypeOK, CtlOK, FlagsOK, DataOK
<1>5. QED
  BY <1>3, <1>4 DEF IInv

\* Every step moves the hooks as it moves the program counter.
LEMMA HooksStep == IInv /\ [Next]_vars => HooksInv'
<1> SUFFICES ASSUME IInv, [Next]_vars PROVE HooksInv'
  OBVIOUS
<1> USE DEF IInv
<1>1. CASE StartExecution
  BY <1>1 DEF StartExecution, HooksInv, TypeOK, CtlOK, Started, Ended, ctl, run, KindOf, Steps, Running, WithinFeature, L!Hook
<1>2. CASE StartFeature
  BY <1>2 DEF StartFeature, HooksInv, TypeOK, CtlOK, Started, Ended, ctl, run, KindOf, Steps, Running, WithinFeature, L!Hook
<1>3. CASE OnFailure
  BY <1>3 DEF OnFailure, HooksInv, TypeOK, CtlOK, Started, Ended, ctl, run, KindOf, Steps, Running, WithinFeature, L!Hook
<1>4. CASE EndFeature
  BY <1>4 DEF EndFeature, HooksInv, TypeOK, CtlOK, Started, Ended, ctl, run, KindOf, Steps, Running, WithinFeature, L!Hook
<1>5. CASE EndExecution
  BY <1>5 DEF EndExecution, HooksInv, TypeOK, CtlOK, Started, Ended, ctl, run, KindOf, Steps, Running, WithinFeature, L!Hook
<1>6. CASE EndOpenScenario
  BY <1>6 DEF EndOpenScenario, HooksInv, TypeOK, CtlOK, Started, Ended, ctl, run, KindOf, Steps, Running, WithinFeature, L!Hook, ScenarioToEnd
<1>7. CASE StartScenario
  BY <1>7 DEF StartScenario, HooksInv, TypeOK, CtlOK, Started, Ended, ctl, run, KindOf, Steps, Running, WithinFeature, L!Hook, AtOpening, ScenarioToEnd
<1>8. CASE EnterStep
  BY <1>8 DEF EnterStep, HooksInv, TypeOK, CtlOK, Started, Ended, ctl, run, KindOf, Steps, Running, WithinFeature, L!Hook, AtOpening, ScenarioToEnd
<1>9. CASE StepReturned
  BY <1>9 DEF StepReturned, HooksInv, TypeOK, CtlOK, Started, Ended, ctl, run, KindOf, Steps, Running, WithinFeature, L!Hook
<1>10. CASE LeaveSteps
  BY <1>10 DEF LeaveSteps, HooksInv, TypeOK, CtlOK, Started, Ended, ctl, run, KindOf, Steps, Running, WithinFeature, L!Hook, ScenarioToEnd, LoopLeft
<1>11. CASE HaltExhausted
  BY <1>11 DEF HaltExhausted, HooksInv, TypeOK, CtlOK, Started, Ended, ctl, run, KindOf, Steps, Running, WithinFeature, L!Hook
<1>12. CASE BeforeStep
  BY <1>12 DEF BeforeStep, HooksInv, TypeOK, CtlOK, Started, Ended, ctl, run, KindOf, Steps, Running, WithinFeature, L!Hook
<1>13. CASE Action
  BY <1>13 DEF Action, HooksInv, TypeOK, CtlOK, Started, Ended, ctl, run, KindOf, Steps, Running, WithinFeature, L!Hook
<1>14. CASE AfterStep
  BY <1>14 DEF AfterStep, HooksInv, TypeOK, CtlOK, Started, Ended, ctl, run, KindOf, Steps, Running, WithinFeature, L!Hook
<1>15. CASE Bail
  BY <1>15 DEF Bail, HooksInv, TypeOK, CtlOK, Started, Ended, ctl, run, KindOf, Steps, Running, WithinFeature, L!Hook, Awaiting
<1>16. CASE UNCHANGED vars
  BY <1>16 DEF vars, run, ctl, HooksInv, KindOf, Steps, WithinFeature, Running
<1>17. QED
  BY <1>1, <1>2, <1>3, <1>4, <1>5, <1>6, <1>7, <1>8, <1>9, <1>10, <1>11, <1>12, <1>13, <1>14, <1>15, <1>16 DEF Next, Advance

\* Every step keeps the types: of the control variables, the flags and the data.
LEMMA CtlStep == IInv /\ [Next]_vars => CtlOK'
<1> SUFFICES ASSUME IInv, [Next]_vars PROVE CtlOK'
  OBVIOUS
<1> USE DEF IInv, TypeOK, CtlOK
<1>1. CASE StartExecution
  BY <1>1 DEF StartExecution, run, ctl, step, Steps, KindOf, Where, Awaiting, Running
<1>2. CASE StartFeature
  BY <1>2 DEF StartFeature, run, ctl, step, Steps, KindOf, Where, Awaiting, Running
<1>3. CASE OnFailure
  BY <1>3 DEF OnFailure, run, ctl, step, Steps, KindOf, Where, Awaiting, Running
<1>4. CASE EndFeature
  BY <1>4 DEF EndFeature, run, ctl, step, Steps, KindOf, Where, Awaiting, Running
<1>5. CASE EndExecution
  BY <1>5 DEF EndExecution, run, ctl, step, Steps, KindOf, Where, Awaiting, Running
<1>6. CASE EndOpenScenario
  BY <1>6 DEF EndOpenScenario, run, ctl, step, Steps, KindOf, Where, Awaiting, Running
<1>7. CASE StartScenario
  BY <1>7 DEF StartScenario, run, ctl, step, Steps, KindOf, Where, Awaiting, Running, AtOpening
<1>8. CASE EnterStep
  BY <1>8 DEF EnterStep, run, ctl, step, Steps, KindOf, Where, Awaiting, Running, AtOpening
<1>9. CASE StepReturned
  BY <1>9 DEF StepReturned, run, ctl, step, Steps, KindOf, Where, Awaiting, Running
<1>10. CASE LeaveSteps
  BY <1>10 DEF LeaveSteps, run, ctl, step, Steps, KindOf, Where, Awaiting, Running, LoopLeft
<1>11. CASE HaltExhausted
  BY <1>11 DEF HaltExhausted, run, ctl, step, Steps, KindOf, Where, Awaiting, Running
<1>12. CASE BeforeStep
  BY <1>12 DEF BeforeStep, run, ctl, step, Steps, KindOf, Where, Awaiting, Running
<1>13. CASE Action
  BY <1>13 DEF Action, run, ctl, step, Steps, KindOf, Where, Awaiting, Running
<1>14. CASE AfterStep
  BY <1>14 DEF AfterStep, run, ctl, step, Steps, KindOf, Where, Awaiting, Running
<1>15. CASE Bail
  BY <1>15 DEF Bail, run, ctl, step, Steps, KindOf, Where, Awaiting, Running
<1>16. CASE UNCHANGED vars
  BY <1>16 DEF vars, run, ctl, step, Steps, KindOf, Where, Awaiting, Running
<1>17. QED
  BY <1>1, <1>2, <1>3, <1>4, <1>5, <1>6, <1>7, <1>8, <1>9, <1>10, <1>11, <1>12, <1>13, <1>14, <1>15, <1>16 DEF Next, Advance

LEMMA FlagsStep == IInv /\ [Next]_vars => FlagsOK'
<1> SUFFICES ASSUME IInv, [Next]_vars PROVE FlagsOK'
  OBVIOUS
<1> USE DEF IInv, TypeOK, FlagsOK
<1>1. CASE StartExecution
  BY <1>1 DEF StartExecution, step
<1>2. CASE StartFeature
  BY <1>2 DEF StartFeature, step, ExhaustedAtStart
<1>3. CASE OnFailure
  BY <1>3 DEF OnFailure, step
<1>4. CASE EndFeature
  BY <1>4 DEF EndFeature, step
<1>5. CASE EndExecution
  BY <1>5 DEF EndExecution, step
<1>6. CASE EndOpenScenario
  BY <1>6 DEF EndOpenScenario, step
<1>7. CASE StartScenario
  BY <1>7 DEF StartScenario, step
<1>8. CASE EnterStep
  BY <1>8 DEF EnterStep, step
<1>9. CASE StepReturned
  BY <1>9 DEF StepReturned, step
<1>10. CASE LeaveSteps
  BY <1>10 DEF LeaveSteps, step
<1>11. CASE HaltExhausted
  BY <1>11 DEF HaltExhausted, step
<1>12. CASE BeforeStep
  BY <1>12 DEF BeforeStep, step
<1>13. CASE Action
  BY <1>13 DEF Action, step
<1>14. CASE AfterStep
  BY <1>14 DEF AfterStep, step, Failed
<1>15. CASE Bail
  BY <1>15 DEF Bail, step
<1>16. CASE UNCHANGED vars
  BY <1>16 DEF vars, step
<1>17. QED
  BY <1>1, <1>2, <1>3, <1>4, <1>5, <1>6, <1>7, <1>8, <1>9, <1>10, <1>11, <1>12, <1>13, <1>14, <1>15, <1>16 DEF Next, Advance

LEMMA RecordIsTyped ==
  ASSUME IInv
  PROVE  \A ok, speculative \in BOOLEAN : Record(ok, speculative) \in RecordType
  BY DEF IInv, TypeOK, CtlOK, Record, RecordType

\* After-every steps append at most one record: always one when they failed,
\* and none when they passed unless the step tolerates failures.
LEMMA AfterEveryAppends ==
  ASSUME IInv, AfterStep
  PROVE  \E afterEveryOk \in BOOLEAN, debugger \in Instructions :
           /\ \/ records' = records /\ afterEveryOk
              \/ records' = Append(records, Record(FALSE, FALSE)) /\ (Tolerates \/ ~afterEveryOk)
           /\ IF debugger.rerun
              THEN pc' = "again" /\ stepOk' = (stepOk /\ ~(debugger.fail \/ ~afterEveryOk))
              ELSE pc' = "stepped" /\ stepOk' = ((stepOk /\ ~(debugger.fail \/ ~afterEveryOk))
                     /\ (actionOk \/ (~(debugger.fail \/ ~afterEveryOk) /\ debugger.next)))
<1>1. records \in Seq(RecordType) /\ Record(FALSE, FALSE) \in RecordType
  BY RecordIsTyped DEF IInv, TypeOK, DataOK
<1>0. PICK afterEveryOk \in BOOLEAN : \E left \in AfterEveryRecords(afterEveryOk), debugger \in Instructions :
        /\ records' = records \o left
        /\ IF debugger.rerun
           THEN pc' = "again" /\ stepOk' = (stepOk /\ ~(debugger.fail \/ ~afterEveryOk))
           ELSE pc' = "stepped" /\ stepOk' = ((stepOk /\ ~(debugger.fail \/ ~afterEveryOk))
                  /\ (actionOk \/ (~(debugger.fail \/ ~afterEveryOk) /\ debugger.next)))
  BY DEF AfterStep, Failed
<1>2. PICK left \in AfterEveryRecords(afterEveryOk), debugger \in Instructions :
        /\ records' = records \o left
        /\ IF debugger.rerun
           THEN pc' = "again" /\ stepOk' = (stepOk /\ ~(debugger.fail \/ ~afterEveryOk))
           ELSE pc' = "stepped" /\ stepOk' = ((stepOk /\ ~(debugger.fail \/ ~afterEveryOk))
                  /\ (actionOk \/ (~(debugger.fail \/ ~afterEveryOk) /\ debugger.next)))
  BY <1>0
<1>3. \/ left = <<>> /\ afterEveryOk
      \/ left = <<Record(FALSE, FALSE)>> /\ (Tolerates \/ ~afterEveryOk)
  BY DEF AfterEveryRecords
<1>4. /\ records \o <<>> = records
      /\ records \o <<Record(FALSE, FALSE)>> = Append(records, Record(FALSE, FALSE))
  BY <1>1, ConcatEmptySeq, AppendIsConcat
<1>5. \/ records' = records /\ afterEveryOk
      \/ records' = Append(records, Record(FALSE, FALSE)) /\ (Tolerates \/ ~afterEveryOk)
  BY <1>2, <1>3, <1>4
<1>6. QED
  BY <1>2, <1>5

LEMMA DataStep == IInv /\ [Next]_vars => DataOK'
<1> SUFFICES ASSUME IInv, [Next]_vars PROVE DataOK'
  OBVIOUS
<1> USE DEF IInv, TypeOK, DataOK
<1>1. CASE StartExecution
  BY <1>1 DEF StartExecution, run
<1>2. CASE StartFeature
  BY <1>2 DEF StartFeature, run, CtlOK
<1>3. CASE OnFailure
  BY <1>3 DEF OnFailure, run
<1>4. CASE EndFeature
  <2> DEFINE res == [ok |-> featureOk, records |-> records, last |-> stepNum, exhausted |-> exhausted]
  <2>1. res \in ResultType
    BY DEF ResultType, CtlOK, FlagsOK
  <2>2. Append(results, res) \in Seq(ResultType)
    BY <2>1, AppendProperties
  <2>3. held' \in SUBSET Nat
    BY <1>4 DEF EndFeature
  <2>4. QED
    BY <1>4, <2>2, <2>3 DEF EndFeature
<1>5. CASE EndExecution
  <2>1. failure' \in RecordType
    BY <1>5, FailureType DEF EndExecution, None, RecordType
  <2>2. QED
    BY <1>5, <2>1 DEF EndExecution, run
<1>6. CASE EndOpenScenario
  BY <1>6 DEF EndOpenScenario, run, RestoredVars
<1>7. CASE StartScenario
  BY <1>7 DEF StartScenario, run
<1>8. CASE EnterStep
  BY <1>8 DEF EnterStep, run
<1>9. CASE StepReturned
  BY <1>9 DEF StepReturned, run
<1>10. CASE LeaveSteps
  BY <1>10 DEF LeaveSteps, run
<1>11. CASE HaltExhausted
  BY <1>11 DEF HaltExhausted, run
<1>12. CASE BeforeStep
  BY <1>12 DEF BeforeStep, run
<1>13. CASE Action
  <2>1. \A ok, speculative \in BOOLEAN : Record(ok, speculative) \in RecordType
    BY RecordIsTyped
  <2>2. records' \in Seq(RecordType)
    <3>1. CASE KindOf = "plain"
      <4>0. PICK ok \in BOOLEAN : \E n \in NestedRecords(ok) :
               records' = records \o Append(n, Record(stepOk /\ ok, FALSE))
        BY <1>13, <3>1 DEF Action
      <4>1. PICK nested \in NestedRecords(ok) :
               records' = records \o Append(nested, Record(stepOk /\ ok, FALSE))
        BY <4>0
      <4>2. nested \in Seq(RecordType)
        <5>1. \A r \in RecordType : <<r>> \in Seq(RecordType)
          OBVIOUS
        <5>2. <<Record(FALSE, TRUE)>> \in Seq(RecordType) /\ <<Record(FALSE, FALSE)>> \in Seq(RecordType)
          BY <2>1, <5>1
        <5>3. <<>> \in Seq(RecordType)
          OBVIOUS
        <5>4. QED
          BY <5>2, <5>3 DEF NestedRecords
      <4>3. Record(stepOk /\ ok, FALSE) \in RecordType
        BY <2>1 DEF FlagsOK
      <4>4. Append(nested, Record(stepOk /\ ok, FALSE)) \in Seq(RecordType)
        BY <4>2, <4>3, AppendProperties
      <4>5. QED
        BY <4>1, <4>4, ConcatProperties
    <3>2. CASE KindOf # "plain"
      <4>1. records' = Append(records, Record(stepOk, FALSE))
        BY <1>13, <3>2 DEF Action
      <4>2. Record(stepOk, FALSE) \in RecordType
        BY <2>1 DEF FlagsOK
      <4>3. QED
        BY <4>1, <4>2, AppendProperties
    <3>3. QED
      BY <3>1, <3>2
  <2>3. shared' \in SUBSET Nat
    BY <1>13 DEF Action, CtlOK
  <2>4. QED
    BY <1>13, <2>2, <2>3 DEF Action
<1>14. CASE AfterStep
  <2>1. Record(FALSE, FALSE) \in RecordType
    BY RecordIsTyped
  <2>2. records' = records \/ records' = Append(records, Record(FALSE, FALSE))
    BY <1>14, AfterEveryAppends
  <2>3. records' \in Seq(RecordType)
    <3>1. Append(records, Record(FALSE, FALSE)) \in Seq(RecordType)
      BY <2>1, AppendProperties
    <3>2. QED
      BY <2>2, <3>1
  <2>4. QED
    BY <1>14, <2>3 DEF AfterStep
<1>15. CASE Bail
  BY <1>15 DEF Bail, run, None, RecordType
<1>16. CASE UNCHANGED vars
  BY <1>16 DEF vars, run
<1>17. QED
  BY <1>1, <1>2, <1>3, <1>4, <1>5, <1>6, <1>7, <1>8, <1>9, <1>10, <1>11, <1>12, <1>13, <1>14, <1>15, <1>16 DEF Next, Advance

LEMMA TypeStep == IInv /\ [Next]_vars => TypeOK'
  BY CtlStep, FlagsStep, DataStep, HooksStep DEF TypeOK, HooksInv

LEMMA IInvStep == IInv /\ [Next]_vars => IInv'
  BY HooksStep, TypeStep DEF IInv

LEMMA IInvAlways == Spec => []IInv
  BY InitIInv, IInvStep, PTL DEF Spec

\* Type correctness of the execution.
THEOREM TypeCorrect == Spec => []TypeOK
<1>1. IInv => TypeOK
  BY DEF IInv
<1>2. QED
  BY IInvAlways, <1>1, PTL

-----------------------------------------------------------------------------
(* Each hook maps to the step of Lifecycle that starts or ends its kind;     *)
(* every other step leaves the hooks alone.                                 *)

LEMMA NestingTable ==
  /\ L!Around("execution") = {}
  /\ L!Around("feature") = {"execution"}
  /\ L!Around("scenario") = {"execution", "feature"}
  /\ L!Around("step") = {"execution", "feature"}
  /\ L!Inside("execution") = {"feature", "scenario", "step"}
  /\ L!Inside("feature") = {"scenario", "step"}
  /\ L!Inside("scenario") = {"step"}
  /\ L!Inside("step") = {}
  BY DEF L!Around, L!Inside

LEMMA LifecycleStep == IInv /\ [Next]_vars => [L!Next]_hooks
<1> SUFFICES ASSUME IInv, [Next]_vars PROVE L!Next \/ UNCHANGED hooks
  OBVIOUS
<1> USE DEF IInv
<1>1. CASE StartExecution
  <2>1. hooks["feature"] = 0 /\ hooks["scenario"] = 0 /\ hooks["step"] = 0 /\ hooks["execution"] = 0
    BY <1>1 DEF StartExecution, HooksInv, TypeOK, CtlOK, Started, Ended, run, ctl, Running, WithinFeature, KindOf, Steps, L!Hook
  <2>2. hooks' = [hooks EXCEPT !["execution"] = 1]
    BY <1>1, <2>1 DEF StartExecution, Started
  <2>3. L!Start("execution")
    BY <2>1, <2>2, NestingTable DEF L!Start
  <2>4. QED
    BY <2>3 DEF L!Next, L!Hook
<1>2. CASE StartFeature
  <2>1. hooks["execution"] = 1 /\ hooks["scenario"] = 0 /\ hooks["step"] = 0 /\ hooks["feature"] = 0
    BY <1>2 DEF StartFeature, HooksInv, TypeOK, CtlOK, Started, Ended, run, ctl, Running, WithinFeature, KindOf, Steps, L!Hook
  <2>2. hooks' = [hooks EXCEPT !["feature"] = 1]
    BY <1>2, <2>1 DEF StartFeature, Started
  <2>3. L!Start("feature")
    BY <2>1, <2>2, NestingTable DEF L!Start
  <2>4. QED
    BY <2>3 DEF L!Next, L!Hook
<1>3. CASE EndFeature
  <2>1. hooks["feature"] = 1 /\ hooks["scenario"] = 0 /\ hooks["step"] = 0
    BY <1>3 DEF EndFeature, HooksInv, TypeOK, CtlOK, Started, Ended, run, ctl, Running, WithinFeature, KindOf, Steps, L!Hook
  <2>2. hooks' = [hooks EXCEPT !["feature"] = 0]
    BY <1>3, <2>1 DEF EndFeature, Ended
  <2>3. L!End("feature")
    BY <2>1, <2>2, NestingTable DEF L!End
  <2>4. QED
    BY <2>3 DEF L!Next, L!Hook
<1>4. CASE EndExecution
  <2>1. hooks["execution"] = 1 /\ hooks["feature"] = 0 /\ hooks["scenario"] = 0 /\ hooks["step"] = 0
    BY <1>4 DEF EndExecution, HooksInv, TypeOK, CtlOK, Started, Ended, run, ctl, Running, WithinFeature, KindOf, Steps, L!Hook
  <2>2. hooks' = [hooks EXCEPT !["execution"] = 0]
    BY <1>4, <2>1 DEF EndExecution, Ended
  <2>3. L!End("execution")
    BY <2>1, <2>2, NestingTable DEF L!End
  <2>4. QED
    BY <2>3 DEF L!Next, L!Hook
<1>5. CASE EndOpenScenario
  <2>1. hooks["scenario"] = 1 /\ hooks["step"] = 0
    BY <1>5 DEF EndOpenScenario, HooksInv, TypeOK, CtlOK, Started, Ended, run, ctl, Running, WithinFeature, KindOf, Steps, L!Hook, ScenarioToEnd
  <2>2. hooks' = [hooks EXCEPT !["scenario"] = 0]
    BY <1>5, <2>1 DEF EndOpenScenario, Ended
  <2>3. L!End("scenario")
    BY <2>1, <2>2, NestingTable DEF L!End
  <2>4. QED
    BY <2>3 DEF L!Next, L!Hook
<1>6. CASE StartScenario
  <2>1. hooks["execution"] = 1 /\ hooks["feature"] = 1 /\ hooks["step"] = 0 /\ hooks["scenario"] = 0
    BY <1>6 DEF StartScenario, HooksInv, TypeOK, CtlOK, Started, Ended, run, ctl, Running, WithinFeature, KindOf, Steps, L!Hook, AtOpening, ScenarioToEnd
  <2>2. hooks' = [hooks EXCEPT !["scenario"] = 1]
    BY <1>6, <2>1 DEF StartScenario, Started
  <2>3. L!Start("scenario")
    BY <2>1, <2>2, NestingTable DEF L!Start
  <2>4. QED
    BY <2>3 DEF L!Next, L!Hook
<1>7. CASE BeforeStep
  <2>1. hooks["execution"] = 1 /\ hooks["feature"] = 1 /\ hooks["step"] = 0
    BY <1>7 DEF BeforeStep, HooksInv, TypeOK, CtlOK, Started, Ended, run, ctl, Running, WithinFeature, KindOf, Steps, L!Hook
  <2>2. hooks' = [hooks EXCEPT !["step"] = 1]
    BY <1>7, <2>1 DEF BeforeStep, Started
  <2>3. L!Start("step")
    BY <2>1, <2>2, NestingTable DEF L!Start
  <2>4. QED
    BY <2>3 DEF L!Next, L!Hook
<1>8. CASE AfterStep
  <2>1. hooks["step"] = 1
    BY <1>8 DEF AfterStep, HooksInv, TypeOK, CtlOK, Started, Ended, run, ctl, Running, WithinFeature, KindOf, Steps, L!Hook
  <2>2. hooks' = [hooks EXCEPT !["step"] = 0]
    BY <1>8, <2>1 DEF AfterStep, Ended
  <2>3. L!End("step")
    BY <2>1, <2>2, NestingTable DEF L!End
  <2>4. QED
    BY <2>3 DEF L!Next, L!Hook
<1>9. CASE LeaveSteps
  <2>1. CASE ScenarioToEnd
    <3>1. L!End("scenario")
      BY <1>9, <2>1, NestingTable DEF LeaveSteps, LoopLeft, ScenarioToEnd, HooksInv, TypeOK, CtlOK, Started, Ended, run, ctl, Running, WithinFeature, KindOf, Steps, L!End, L!Hook
    <3>2. QED
      BY <3>1 DEF L!Next, L!Hook
  <2>2. CASE ~ScenarioToEnd
    BY <1>9, <2>2 DEF LeaveSteps
  <2>3. QED
    BY <2>1, <2>2
<1>10. CASE OnFailure \/ EnterStep \/ StepReturned \/ HaltExhausted \/ Action \/ Bail
  BY <1>10 DEF OnFailure, EnterStep, StepReturned, HaltExhausted, Action, Bail
<1>11. CASE UNCHANGED vars
  BY <1>11 DEF vars
<1>12. QED
  BY <1>1, <1>2, <1>3, <1>4, <1>5, <1>6, <1>7, <1>8, <1>9, <1>10, <1>11 DEF Next, Advance

\* The execution implements the lifecycle promised to the steppers: hooks are
\* nested execution, feature, scenario, step, each ended before its outer one
\* ends and before another of its kind starts.
THEOREM HooksNest == Spec => HooksAreNested
<1>1. Init => L!Init
  BY DEF Init, L!Init, L!Closed
<1>2. QED
  BY <1>1, IInvAlways, LifecycleStep, PTL DEF Spec, HooksAreNested, L!Spec

-----------------------------------------------------------------------------
(* Nothing is held open whenever a feature may start.                       *)

HeldInv == /\ pc = "start" => held = {}
           /\ NextFeatureStartsFresh

LEMMA HeldStep == IInv /\ HeldInv /\ [Next]_vars => HeldInv'
<1> SUFFICES ASSUME IInv, HeldInv, [Next]_vars PROVE HeldInv'
  OBVIOUS
<1> USE DEF HeldInv, NextFeatureStartsFresh
<1>1. CASE StartExecution
  BY <1>1 DEF StartExecution
<1>2. CASE EndFeature
  <2>1. SUFFICES ASSUME pc' = "feature", featureNum' < Len(plan')
                 PROVE  held' = {}
    BY <1>2 DEF EndFeature
  <2>2. ~IsLast
    BY <1>2, <2>1 DEF EndFeature, IsLast, run, ctl, IInv, TypeOK, CtlOK
  <2>3. featureOk \/ options.continueAfterError
    BY <1>2, <2>1, <2>2 DEF EndFeature, IInv, TypeOK, FlagsOK
  <2>4. ShouldClose(featureOk, IsLast)
    BY <2>2, <2>3 DEF ShouldClose
  <2>5. QED
    BY <1>2, <2>4 DEF EndFeature
<1>3. CASE UNCHANGED vars
  BY <1>3 DEF vars, run, ctl
<1>4. CASE \/ StartFeature \/ OnFailure \/ EndExecution \/ EndOpenScenario \/ StartScenario
           \/ EnterStep \/ StepReturned \/ LeaveSteps \/ HaltExhausted \/ BeforeStep
           \/ Action \/ AfterStep \/ Bail
  <2>1. pc' \notin {"start", "feature"}
    BY <1>4 DEF StartFeature, OnFailure, EndExecution, EndOpenScenario, StartScenario,
       EnterStep, StepReturned, LeaveSteps, HaltExhausted, BeforeStep, Action, AfterStep, Bail
  <2>2. QED
    BY <2>1
<1>5. QED
  BY <1>1, <1>2, <1>3, <1>4 DEF Next, Advance

\* What calculateShouldClose takes for the last feature is the last one run:
\* a feature that starts finds nothing of an earlier one open.
THEOREM StartsFresh == Spec => []NextFeatureStartsFresh
<1>1. Init => HeldInv
  BY DEF Init, HeldInv, NextFeatureStartsFresh
<1>2. HeldInv => NextFeatureStartsFresh
  BY DEF HeldInv
<1>3. QED
  BY <1>1, <1>2, HeldStep, IInvAlways, PTL DEF Spec

-----------------------------------------------------------------------------
(* The variables of a scenario stay in it: what the background holds was set *)
(* outside scenarios, which takes that currentScenario is 0 exactly where no *)
(* scenario is open.                                                        *)

\* InScenario, of the steps s of a feature.
Within(s, i) == \E j \in 1..i : s[j].kind = "scenario" /\ \A k \in j..i : s[k].kind # "feature"

ScopeInv ==
  pc \in Running =>
    /\ \A i \in base : ~Within(plan[featureNum], i)
    /\ currentScenario = 0 =>
         /\ \A i \in shared \union scoped : ~Within(plan[featureNum], i)
         /\ pc = "step" => ~Within(plan[featureNum], stepNum - 1)
         /\ pc \in {"opening", "args", "action", "after", "again", "stepped"} =>
              ~Within(plan[featureNum], stepNum)

LEMMA WithinFacts ==
  ASSUME NEW s, NEW n \in Nat \ {0}
  PROVE  /\ ~Within(s, 0)
         /\ s[n].kind = "feature" => ~Within(s, n)
         /\ s[n].kind = "plain" /\ Within(s, n) => Within(s, n - 1)
<1>1. ~Within(s, 0)
  BY DEF Within
<1>2. s[n].kind = "feature" => ~Within(s, n)
  BY DEF Within
<1>3. ASSUME s[n].kind = "plain", Within(s, n) PROVE Within(s, n - 1)
  <2>1. PICK j \in 1..n : s[j].kind = "scenario" /\ \A k \in j..n : s[k].kind # "feature"
    BY <1>3 DEF Within
  <2>2. j \in 1..n - 1
    BY <1>3, <2>1
  <2>3. \A k \in j..n - 1 : s[k].kind # "feature"
    BY <2>1
  <2>4. QED
    BY <2>1, <2>2, <2>3 DEF Within
<1>4. QED
  BY <1>1, <1>2, <1>3

LEMMA ScopeStep == IInv /\ ScopeInv /\ [Next]_vars => ScopeInv'
<1> SUFFICES ASSUME IInv, ScopeInv, [Next]_vars PROVE ScopeInv'
  OBVIOUS
<1>1. /\ plan \in Seq(Seq(Step)) /\ stepNum \in Nat \ {0} /\ currentScenario \in Nat
      /\ pc \in Running => featureNum \in DOMAIN plan
      /\ pc \in {"opening", "args", "action", "after", "again", "stepped"} =>
           stepNum \in DOMAIN plan[featureNum]
  BY DEF IInv, TypeOK, CtlOK, Steps
<1>2. CASE StartFeature
  <2>1. pc' = "step" /\ base' = {} /\ shared' = {} /\ scoped' = {} /\ stepNum' = 1 /\ stepNum' - 1 = 0
    BY <1>2 DEF StartFeature
  <2>2. \A s : ~Within(s, 0)
    BY DEF Within
  <2>3. QED
    BY <2>1, <2>2 DEF ScopeInv
<1>3. CASE EndOpenScenario
  <2>1. /\ pc = "step" /\ pc' = "opening" /\ pc \in Running /\ plan' = plan /\ featureNum' = featureNum
        /\ stepNum' = stepNum /\ base' = base /\ currentScenario > 0
    BY <1>3 DEF EndOpenScenario, run, Running, ScenarioToEnd
  <2>2. CASE KindOf = "feature"
    <3>1. shared' = base /\ scoped' = base /\ currentScenario' = 0
      BY <1>3, <2>2 DEF EndOpenScenario, RestoredVars
    <3>2. ~Within(plan[featureNum], stepNum)
      BY <2>2, <1>1, WithinFacts DEF KindOf, Steps
    <3>3. QED
      BY <2>1, <3>1, <3>2 DEF ScopeInv
  <2>3. CASE KindOf # "feature"
    <3>1. currentScenario' = currentScenario
      BY <1>3, <2>3 DEF EndOpenScenario
    <3>2. QED
      BY <2>1, <3>1 DEF ScopeInv
  <2>4. QED
    BY <2>2, <2>3
<1>4. CASE StartScenario
  <2>1. /\ pc \in Running /\ plan' = plan /\ featureNum' = featureNum /\ base' = base
        /\ currentScenario' = currentScenario + 1
    BY <1>4 DEF StartScenario, AtOpening, run, Running
  <2>2. currentScenario' # 0
    BY <2>1, <1>1
  <2>3. QED
    BY <2>1, <2>2 DEF ScopeInv
<1>5. CASE EnterStep
  <2>1. /\ pc \in {"step", "opening"} /\ pc \in Running /\ pc' = "args"
        /\ plan' = plan /\ featureNum' = featureNum /\ stepNum' = stepNum
        /\ currentScenario' = currentScenario /\ base' = base /\ shared' = shared /\ scoped' = scoped
        /\ KindOf \in {"feature", "plain"}
    BY <1>5 DEF EnterStep, AtOpening, run, ctl, Running
  <2>2. ASSUME currentScenario = 0 PROVE ~Within(plan[featureNum], stepNum)
    <3>1. CASE KindOf = "feature"
      BY <3>1, <1>1, WithinFacts DEF KindOf, Steps
    <3>2. CASE KindOf = "plain"
      <4>1. CASE pc = "step"
        BY <4>1, <3>2, <2>1, <2>2, <1>1, WithinFacts DEF ScopeInv, KindOf, Steps
      <4>2. CASE pc = "opening"
        BY <4>2, <2>1, <2>2 DEF ScopeInv
      <4>3. QED
        BY <4>1, <4>2, <2>1
    <3>3. QED
      BY <3>1, <3>2, <2>1
  <2>3. QED
    BY <2>1, <2>2 DEF ScopeInv
<1>6. CASE StepReturned
  <2>1. /\ pc = "stepped" /\ pc \in Running /\ plan' = plan /\ featureNum' = featureNum
        /\ currentScenario' = currentScenario /\ shared' = shared
    BY <1>6 DEF StepReturned, run, Running
  <2>2. CASE stepOk
    <3>1. /\ stepNum' = stepNum + 1 /\ stepNum' - 1 = stepNum /\ pc' = "step"
          /\ IF currentScenario = 0 THEN scoped' = shared /\ base' = shared
                                    ELSE scoped' = scoped /\ base' = base
      BY <1>6, <2>2, <1>1 DEF StepReturned
    <3>2. QED
      BY <2>1, <3>1 DEF ScopeInv
  <2>3. CASE ~stepOk
    <3>1. pc' = "unwind" /\ scoped' = scoped /\ base' = base
      BY <1>6, <2>3 DEF StepReturned
    <3>2. QED
      BY <2>1, <3>1 DEF ScopeInv
  <2>4. QED
    BY <2>2, <2>3
<1>7. CASE Action
  <2>1. /\ pc = "action" /\ pc \in Running /\ pc' = "after" /\ plan' = plan /\ featureNum' = featureNum
        /\ stepNum' = stepNum /\ currentScenario' = currentScenario /\ base' = base /\ scoped' = scoped
        /\ shared' \subseteq shared \union {stepNum}
    BY <1>7 DEF Action, run, ctl, Running
  <2>2. QED
    BY <2>1 DEF ScopeInv
<1>8. CASE LeaveSteps
  BY <1>8 DEF LeaveSteps, LoopLeft, ScopeInv, run, ctl, Running
<1>9. CASE OnFailure \/ HaltExhausted \/ BeforeStep
  BY <1>9 DEF OnFailure, HaltExhausted, BeforeStep, ScopeInv, run, ctl, Running
<1>10. CASE AfterStep
  <2>1. /\ pc = "after" /\ pc' \in {"again", "stepped"} /\ plan' = plan /\ featureNum' = featureNum
        /\ stepNum' = stepNum /\ currentScenario' = currentScenario
        /\ base' = base /\ scoped' = scoped /\ shared' = shared
    BY <1>10 DEF AfterStep, run, ctl
  <2>2. QED
    BY <2>1 DEF ScopeInv, Running
<1>11. CASE StartExecution \/ EndFeature \/ EndExecution \/ Bail
  <2>1. pc' \notin Running
    BY <1>11 DEF StartExecution, EndFeature, EndExecution, Bail, Running
  <2>2. QED
    BY <2>1 DEF ScopeInv
<1>12. CASE UNCHANGED vars
  BY <1>12 DEF vars, run, ctl, ScopeInv
<1>13. QED
  BY <1>2, <1>3, <1>4, <1>5, <1>6, <1>7, <1>8, <1>9, <1>10, <1>11, <1>12 DEF Next, Advance

\* A variable that is set inside a scenario reaches neither what a Feature:
\* line restores nor what the steps outside scenarios see.
THEOREM ScopesConfined == Spec => []ScenarioVarsConfined
<1>1. Init => ScopeInv
  BY DEF Init, ScopeInv, Running
<1>2. ScopeInv => ScenarioVarsConfined
  BY DEF ScopeInv, ScenarioVarsConfined, InScenario, Within, Steps
<1>3. QED
  BY <1>1, <1>2, ScopeStep, IInvAlways, PTL DEF Spec

-----------------------------------------------------------------------------
(* What a run records.  The records of a feature only grow, each new one is  *)
(* of the step that runs, and a step that fails leaves a record to blame.   *)

\* new is old and then at least one record of step s of feature f; the new
\* ones hold one to blame when ok is FALSE, and otherwise only when the step
\* tolerates failures.
GrowsBy(old, new, f, s, ok) ==
  /\ Len(old) < Len(new)
  /\ \A i \in 1..Len(old) : new[i] = old[i]
  /\ \A i \in Len(old) + 1..Len(new) :
       new[i].feature = f /\ new[i].step = s /\ (Blamed(new[i]) => ~ok \/ plan[f][s].tolerates)
  /\ ~ok => Blamed(new[Len(new)])

LEMMA GrowsByOne ==
  ASSUME NEW old \in Seq(RecordType), NEW f \in Nat, NEW s \in Nat, NEW ok \in BOOLEAN,
         NEW rec \in RecordType, rec = [feature |-> f, step |-> s, ok |-> ok, speculative |-> FALSE]
  PROVE  GrowsBy(old, Append(old, rec), f, s, ok)
<1> DEFINE new == Append(old, rec)
<1>1. /\ Len(new) = Len(old) + 1 /\ Len(old) \in Nat
      /\ \A i \in 1..Len(old) : new[i] = old[i]
      /\ new[Len(old) + 1] = rec
  BY AppendProperties
<1>2. rec.feature = f /\ rec.step = s /\ (Blamed(rec) <=> ~ok)
  BY DEF Blamed
<1> HIDE DEF new
<1>3. \A i \in Len(old) + 1..Len(new) : new[i] = rec
  BY <1>1
<1>4. Len(old) < Len(new) /\ new[Len(new)] = rec
  BY <1>1
<1>5. GrowsBy(old, new, f, s, ok)
  BY <1>1, <1>2, <1>3, <1>4 DEF GrowsBy
<1>6. QED
  BY <1>5 DEF new

\* An action records what its nested statements leave and then itself.
LEMMA ActionRecords ==
  ASSUME IInv, Action
  PROVE  /\ records \in Seq(RecordType) /\ records' \in Seq(RecordType)
         /\ actionOk' \in BOOLEAN
         /\ GrowsBy(records, records', featureNum, stepNum, stepOk /\ actionOk')
<1>1. /\ records \in Seq(RecordType) /\ featureNum \in Nat /\ stepNum \in Nat /\ stepOk \in BOOLEAN
  BY DEF IInv, TypeOK, CtlOK, FlagsOK, DataOK
<1>2. /\ records' \in Seq(RecordType) /\ actionOk' \in BOOLEAN
  BY DataStep, FlagsStep DEF DataOK, FlagsOK, Next, Advance
<1>3. \A ok, speculative \in BOOLEAN :
        /\ Record(ok, speculative) \in RecordType
        /\ Record(ok, speculative) = [feature |-> featureNum, step |-> stepNum, ok |-> ok, speculative |-> speculative]
  BY RecordIsTyped DEF Record
<1>4. \A recs \in Seq(RecordType), ok \in BOOLEAN :
        GrowsBy(recs, Append(recs, Record(ok, FALSE)), featureNum, stepNum, ok)
  BY <1>1, <1>3, GrowsByOne
<1>5. CASE KindOf # "plain"
  <2>1. actionOk' = TRUE /\ records' = Append(records, Record(stepOk, FALSE))
    BY <1>5 DEF Action
  <2>2. GrowsBy(records, records', featureNum, stepNum, stepOk)
    BY <2>1, <1>1, <1>4
  <2>3. stepOk = (stepOk /\ actionOk')
    BY <2>1, <1>1
  <2>4. QED
    BY <1>1, <1>2, <2>2, <2>3
<1>6. CASE KindOf = "plain"
  <2>0. PICK okay \in BOOLEAN :
          /\ actionOk' = okay
          /\ \E n \in NestedRecords(okay) : records' = records \o Append(n, Record(stepOk /\ okay, FALSE))
    BY <1>6 DEF Action
  <2>1. PICK nested \in NestedRecords(actionOk') :
          records' = records \o Append(nested, Record(stepOk /\ actionOk', FALSE))
    BY <2>0
  <2> DEFINE ok == stepOk /\ actionOk'
             last == Record(ok, FALSE)
  <2>2. ok \in BOOLEAN /\ last \in RecordType
    BY <1>1, <1>2, <1>3
  <2>3. CASE nested = <<>>
    <3>1. records' = Append(records, last)
      <4>1. Append(<<>>, last) = <<last>>
        OBVIOUS
      <4>2. records \o <<last>> = Append(records, last)
        BY <1>1, <2>2, AppendIsConcat
      <4>3. QED
        BY <2>1, <2>3, <4>1, <4>2
    <3>2. QED
      BY <1>1, <1>2, <1>4, <2>2, <3>1
  <2>4. CASE nested # <<>>
    <3> DEFINE polled == plan[featureNum][stepNum].tolerates
    <3>0. \/ nested = <<Record(FALSE, TRUE)>>
          \/ (~actionOk' \/ polled) /\ nested = <<Record(FALSE, FALSE)>>
      BY <2>4 DEF NestedRecords, Tolerates, Steps
    <3>1. PICK rec \in {Record(FALSE, TRUE), Record(FALSE, FALSE)} :
            nested = <<rec>> /\ (rec = Record(FALSE, TRUE) \/ ~actionOk' \/ polled)
      BY <3>0
    <3> DEFINE mid == Append(records, rec)
    <3>2. rec \in RecordType /\ mid \in Seq(RecordType)
      BY <1>1, <1>3, <3>1, AppendProperties
    <3>3. records' = Append(mid, last)
      <4>0. <<rec>> \in Seq(RecordType)
        BY <3>2
      <4>1. Append(<<rec>>, last) = <<rec>> \o <<last>>
        BY <2>2, <4>0, AppendIsConcat
      <4>2. records \o (<<rec>> \o <<last>>) = (records \o <<rec>>) \o <<last>>
        BY <1>1, <2>2, <3>2, ConcatAssociative
      <4>3. records \o <<rec>> = mid
        BY <1>1, <3>2, AppendIsConcat
      <4>4. mid \o <<last>> = Append(mid, last)
        BY <2>2, <3>2, AppendIsConcat
      <4>5. QED
        BY <2>1, <3>1, <4>1, <4>2, <4>3, <4>4
    <3>4. GrowsBy(mid, records', featureNum, stepNum, ok)
      BY <1>4, <2>2, <3>2, <3>3
    <3>5. /\ Len(mid) = Len(records) + 1 /\ Len(records) \in Nat
          /\ \A i \in 1..Len(records) : mid[i] = records[i]
          /\ mid[Len(records) + 1] = rec
      BY <1>1, <3>2, AppendProperties
    <3>6. rec.feature = featureNum /\ rec.step = stepNum /\ (Blamed(rec) => ~ok \/ polled)
      <4>1. /\ Record(FALSE, TRUE).feature = featureNum /\ Record(FALSE, TRUE).step = stepNum
            /\ Record(FALSE, TRUE).speculative
            /\ Record(FALSE, FALSE).feature = featureNum /\ Record(FALSE, FALSE).step = stepNum
        BY DEF Record
      <4>2. CASE rec = Record(FALSE, TRUE)
        BY <4>1, <4>2 DEF Blamed
      <4>3. CASE rec = Record(FALSE, FALSE) /\ (~actionOk' \/ polled)
        BY <4>1, <4>3
      <4>4. QED
        BY <3>1, <4>2, <4>3
    <3> HIDE DEF mid, ok, last
    <3>7. /\ Len(records') \in Nat /\ Len(mid) < Len(records')
          /\ \A i \in 1..Len(mid) : records'[i] = mid[i]
          /\ \A i \in Len(mid) + 1..Len(records') :
               /\ records'[i].feature = featureNum /\ records'[i].step = stepNum
               /\ Blamed(records'[i]) => ~ok \/ polled
          /\ ~ok => Blamed(records'[Len(records')])
      BY <1>2, <3>4 DEF GrowsBy
    <3>8. \A i \in 1..Len(records) : records'[i] = records[i]
      BY <3>5, <3>7
    <3>9. records'[Len(records) + 1] = rec
      BY <3>5, <3>7
    <3>10. \A i \in Len(records) + 1..Len(records') : i = Len(records) + 1 \/ i \in Len(mid) + 1..Len(records')
      BY <3>5, <3>7
    <3>11. GrowsBy(records, records', featureNum, stepNum, ok)
      BY <3>5, <3>6, <3>7, <3>8, <3>9, <3>10 DEF GrowsBy
    <3>12. QED
      BY <1>1, <1>2, <3>11 DEF ok
  <2>5. QED
    BY <2>3, <2>4
<1>7. QED
  BY <1>5, <1>6

\* The after-every steps record a failure of theirs and nothing else.
LEMMA AfterStepRecords ==
  ASSUME IInv, AfterStep
  PROVE  /\ records \in Seq(RecordType) /\ records' \in Seq(RecordType)
         /\ records' = records \/ GrowsBy(records, records', featureNum, stepNum, FALSE)
<1>1. /\ records \in Seq(RecordType) /\ featureNum \in Nat /\ stepNum \in Nat
  BY DEF IInv, TypeOK, CtlOK, DataOK
<1>2. /\ records' \in Seq(RecordType)
  BY DataStep DEF DataOK, Next, Advance
<1>3. /\ Record(FALSE, FALSE) \in RecordType
      /\ Record(FALSE, FALSE) = [feature |-> featureNum, step |-> stepNum, ok |-> FALSE, speculative |-> FALSE]
  BY RecordIsTyped DEF Record
<1>4. records' = records \/ records' = Append(records, Record(FALSE, FALSE))
  BY AfterEveryAppends
<1>5. GrowsBy(records, Append(records, Record(FALSE, FALSE)), featureNum, stepNum, FALSE)
  BY <1>1, <1>3, GrowsByOne
<1>6. QED
  BY <1>1, <1>2, <1>4, <1>5

-----------------------------------------------------------------------------
(* A failure leaves evidence.  EvidenceInv follows it from the action or the *)
(* after-every step that fails, through the flags, to the feature's verdict. *)

SomeBlamed(recs) == \E r \in DOMAIN recs : Blamed(recs[r])

\* A failed authoritative record, or an exhaustion that a recorded step caused.
EvidenceIn(recs, ex) == SomeBlamed(recs) \/ (ex /\ recs # <<>>)

\* A failed authoritative record that is not tolerated; p is the plan.
SomeCharged(p, recs) ==
  \E r \in DOMAIN recs : Blamed(recs[r]) /\ ~p[recs[r].feature][recs[r].step].tolerates

InStep == {"action", "after", "again"}

EvidenceInv ==
  pc \in Running =>
    /\ exhausted => records # <<>>
    /\ pc \in InStep /\ exhausted => records[Len(records)].step = stepNum
    /\ pc \in InStep /\ ~stepOk => SomeBlamed(records)
    /\ pc = "after" /\ ~actionOk => SomeBlamed(records)
    /\ pc = "stepped" /\ ~stepOk => EvidenceIn(records, exhausted)
    /\ ~featureOk => EvidenceIn(records, exhausted)

\* Records that grow keep what there is to blame, add it when the step is not
\* ok, and end with a record of the step.
LEMMA GrownEvidence ==
  ASSUME NEW old \in Seq(RecordType), NEW new \in Seq(RecordType), NEW f, NEW s, NEW ok \in BOOLEAN,
         GrowsBy(old, new, f, s, ok)
  PROVE  /\ new # <<>> /\ new[Len(new)].step = s
         /\ SomeBlamed(old) \/ ~ok => SomeBlamed(new)
         /\ SomeCharged(plan, new) => SomeCharged(plan, old) \/ ~ok
<1>1. /\ Len(old) \in Nat /\ Len(new) \in Nat /\ Len(old) < Len(new)
      /\ DOMAIN old = 1..Len(old) /\ DOMAIN new = 1..Len(new)
  BY DEF GrowsBy
<1>2. Len(new) \in Len(old) + 1..Len(new) /\ Len(new) \in DOMAIN new
  BY <1>1
<1>3. new # <<>>
  BY <1>1
<1>4. new[Len(new)].step = s
  BY <1>2 DEF GrowsBy
<1>5. ASSUME SomeBlamed(old) PROVE SomeBlamed(new)
  <2>1. PICK r \in DOMAIN old : Blamed(old[r])
    BY <1>5 DEF SomeBlamed
  <2>2. new[r] = old[r] /\ r \in DOMAIN new
    BY <1>1, <2>1 DEF GrowsBy
  <2>3. QED
    BY <2>1, <2>2 DEF SomeBlamed
<1>6. ASSUME ~ok PROVE SomeBlamed(new)
  BY <1>2, <1>6 DEF GrowsBy, SomeBlamed
<1>7. ASSUME SomeCharged(plan, new), ok PROVE SomeCharged(plan, old)
  <2>1. PICK r \in DOMAIN new : Blamed(new[r]) /\ ~plan[new[r].feature][new[r].step].tolerates
    BY <1>7 DEF SomeCharged
  <2>2. r \notin Len(old) + 1..Len(new)
    BY <1>7, <2>1 DEF GrowsBy
  <2>3. r \in DOMAIN old /\ new[r] = old[r]
    BY <1>1, <2>1, <2>2 DEF GrowsBy
  <2>4. QED
    BY <2>1, <2>3 DEF SomeCharged
<1>8. QED
  BY <1>3, <1>4, <1>5, <1>6, <1>7

\* How afterStep answers: it reruns a step only when its action failed and
\* somebody debugs; a step that it does not pass on as ok has failed, in its
\* action or in an after-every step that left a record.
LEMMA AfterStepAnswers ==
  ASSUME IInv, AfterStep
  PROVE  /\ pc = "after" /\ pc' \in {"again", "stepped"}
         /\ ~stepOk' => ~stepOk \/ ~actionOk \/ SomeBlamed(records')
         /\ ~options.debugging =>
              /\ pc' = "stepped"
              /\ stepOk' => stepOk /\ actionOk /\ (records' = records \/ Tolerates)
<1>1. /\ options \in [continueAfterError : BOOLEAN, stay : Stay, debugging : BOOLEAN]
      /\ actionOk \in BOOLEAN /\ stepOk \in BOOLEAN
  BY DEF IInv, TypeOK, CtlOK, FlagsOK
<1>2. PICK afterEveryOk \in BOOLEAN, debugger \in Instructions :
        /\ \/ records' = records /\ afterEveryOk
           \/ records' = Append(records, Record(FALSE, FALSE)) /\ (Tolerates \/ ~afterEveryOk)
        /\ IF debugger.rerun
           THEN pc' = "again" /\ stepOk' = (stepOk /\ ~(debugger.fail \/ ~afterEveryOk))
           ELSE pc' = "stepped" /\ stepOk' = ((stepOk /\ ~(debugger.fail \/ ~afterEveryOk))
                  /\ (actionOk \/ (~(debugger.fail \/ ~afterEveryOk) /\ debugger.next)))
  BY AfterEveryAppends
<1>3. /\ debugger.rerun \in BOOLEAN /\ debugger.next \in BOOLEAN /\ debugger.fail \in BOOLEAN
      /\ debugger.rerun \/ debugger.next \/ debugger.fail => options.debugging /\ ~actionOk
  BY DEF Instructions
<1>4. pc = "after" /\ pc' \in {"again", "stepped"}
  BY <1>2 DEF AfterStep
<1>5. ASSUME ~afterEveryOk PROVE SomeBlamed(records')
  <2>1. /\ records \in Seq(RecordType) /\ Record(FALSE, FALSE) \in RecordType
    BY RecordIsTyped DEF IInv, TypeOK, DataOK
  <2>2. records' = Append(records, Record(FALSE, FALSE))
    BY <1>2, <1>5
  <2>3. GrowsBy(records, records', featureNum, stepNum, FALSE)
    <3>1. Len(records') = Len(records) + 1
      BY <2>1, <2>2, AppendProperties
    <3>2. records' # records
      BY <2>1, <3>1
    <3>3. QED
      BY <3>2, AfterStepRecords
  <2>4. QED
    BY <2>3, AfterStepRecords, GrownEvidence
<1>6. ~stepOk' => ~stepOk \/ ~actionOk \/ ~afterEveryOk
  BY <1>1, <1>2, <1>3
<1>7. ASSUME ~options.debugging
      PROVE  /\ pc' = "stepped"
             /\ stepOk' => stepOk /\ actionOk /\ afterEveryOk
  BY <1>1, <1>2, <1>3, <1>7
<1>8. QED
  BY <1>2, <1>4, <1>5, <1>6, <1>7

LEMMA EvidenceStep == IInv /\ EvidenceInv /\ [Next]_vars => EvidenceInv'
<1> SUFFICES ASSUME IInv, EvidenceInv, [Next]_vars PROVE EvidenceInv'
  OBVIOUS
<1>0. /\ actionOk \in BOOLEAN /\ stepOk \in BOOLEAN /\ featureOk \in BOOLEAN /\ exhausted \in BOOLEAN
  BY DEF IInv, TypeOK, FlagsOK
<1>1. CASE StartFeature
  BY <1>1 DEF StartFeature, ExhaustedAtStart, EvidenceInv, Running, InStep
<1>2. CASE StartExecution \/ EndFeature \/ EndExecution \/ Bail
  <2>1. pc' \notin Running
    BY <1>2 DEF StartExecution, EndFeature, EndExecution, Bail, Running
  <2>2. QED
    BY <2>1 DEF EvidenceInv
<1>3. CASE OnFailure \/ EndOpenScenario \/ StartScenario \/ EnterStep \/ LeaveSteps
  <2>1. /\ pc \in Running /\ pc' \notin InStep \union {"stepped"}
        /\ exhausted' = exhausted /\ records' = records /\ featureOk' = featureOk
    BY <1>3 DEF OnFailure, EndOpenScenario, StartScenario, EnterStep, LeaveSteps, LoopLeft, AtOpening,
       Running, InStep
  <2>2. QED
    BY <2>1 DEF EvidenceInv, InStep
<1>4. CASE StepReturned
  <2>1. /\ pc = "stepped" /\ pc \in Running /\ pc' \in {"step", "unwind"}
        /\ exhausted' = exhausted /\ records' = records /\ featureOk' = stepOk
    BY <1>4 DEF StepReturned, Running
  <2>2. QED
    BY <2>1 DEF EvidenceInv, InStep
<1>5. CASE HaltExhausted
  <2>1. /\ pc = "args" /\ pc \in Running /\ pc' = "stepped" /\ exhausted
        /\ exhausted' = exhausted /\ records' = records /\ featureOk' = featureOk
    BY <1>5 DEF HaltExhausted, Halted, Running
  <2>2. EvidenceIn(records, exhausted)
    BY <2>1 DEF EvidenceInv, EvidenceIn
  <2>3. QED
    BY <2>1, <2>2 DEF EvidenceInv, InStep
<1>6. CASE BeforeStep
  <2>1. /\ pc \in Running /\ pc' = "action"
        /\ pc = "again" \/ (pc = "args" /\ ~exhausted)
        /\ pc = "again" => stepOk' = stepOk
        /\ pc = "args" => stepOk'
        /\ exhausted' = exhausted /\ records' = records /\ featureOk' = featureOk /\ stepNum' = stepNum
    BY <1>6 DEF BeforeStep, Halted, Running, ctl
  <2>2. CASE pc = "again"
    BY <2>1, <2>2 DEF EvidenceInv, InStep
  <2>3. CASE pc = "args"
    BY <2>1, <2>3, <1>0 DEF EvidenceInv, InStep
  <2>4. QED
    BY <2>1, <2>2, <2>3
<1>7. CASE Action
  <2>1. /\ pc = "action" /\ pc \in Running /\ pc' = "after"
        /\ exhausted => exhausted'
        /\ featureOk' = featureOk /\ stepOk' = stepOk /\ stepNum' = stepNum
    BY <1>7, <1>0 DEF Action, ctl, Running
  <2>2. /\ records \in Seq(RecordType) /\ records' \in Seq(RecordType) /\ actionOk' \in BOOLEAN
        /\ GrowsBy(records, records', featureNum, stepNum, stepOk /\ actionOk')
    BY <1>7, ActionRecords
  <2>3. (stepOk /\ actionOk') \in BOOLEAN
    BY <1>0, <2>2
  <2>4. /\ records' # <<>> /\ records'[Len(records')].step = stepNum
        /\ SomeBlamed(records) \/ ~(stepOk /\ actionOk') => SomeBlamed(records')
    BY <2>2, <2>3, GrownEvidence
  <2>5. ~featureOk => EvidenceIn(records', exhausted')
    BY <2>1, <2>4 DEF EvidenceInv, EvidenceIn
  <2>6. QED
    BY <2>1, <2>4, <2>5 DEF EvidenceInv, InStep
<1>8. CASE AfterStep
  <2>1. /\ pc = "after" /\ pc \in Running /\ exhausted' = exhausted
        /\ featureOk' = featureOk /\ stepNum' = stepNum
    BY <1>8 DEF AfterStep, ctl, Running
  <2>2. /\ pc' \in {"again", "stepped"}
        /\ ~stepOk' => ~stepOk \/ ~actionOk \/ SomeBlamed(records')
    BY <1>8, AfterStepAnswers
  <2>3. /\ exhausted => records' # <<>> /\ records'[Len(records')].step = stepNum
        /\ SomeBlamed(records) => SomeBlamed(records')
    <3>1. CASE records' = records
      BY <2>1, <3>1 DEF EvidenceInv, InStep
    <3>2. CASE records' # records
      BY <1>8, <3>2, AfterStepRecords, GrownEvidence
    <3>3. QED
      BY <3>1, <3>2
  <2>4. ~stepOk' => SomeBlamed(records')
    BY <2>1, <2>2, <2>3 DEF EvidenceInv, InStep
  <2>5. ~featureOk => EvidenceIn(records', exhausted')
    BY <2>1, <2>3 DEF EvidenceInv, EvidenceIn
  <2>6. QED
    BY <2>1, <2>2, <2>3, <2>4, <2>5 DEF EvidenceInv, EvidenceIn
<1>9. CASE UNCHANGED vars
  BY <1>9 DEF vars, run, ctl, step, EvidenceInv
<1>10. QED
  BY <1>1, <1>2, <1>3, <1>4, <1>5, <1>6, <1>7, <1>8, <1>9 DEF Next, Advance

LEMMA EvidenceAlways == Spec => []EvidenceInv
<1>1. Init => EvidenceInv
  BY DEF Init, EvidenceInv, Running
<1>2. QED
  BY <1>1, EvidenceStep, IInvAlways, PTL DEF Spec

\* Once a step has exhausted the run, no other step of the feature records.
THEOREM ExhaustedRunHalts == Spec => ExhaustionHalts
<1>1. ASSUME IInv, EvidenceInv, [Next]_vars, exhausted, exhausted', records' # records
      PROVE  records[Len(records)].step = stepNum
  <2>1. Action \/ AfterStep
    BY <1>1 DEF Next, Advance, StartExecution, StartFeature, ExhaustedAtStart, OnFailure, EndFeature,
       EndExecution, EndOpenScenario, StartScenario, EnterStep, StepReturned, LeaveSteps, HaltExhausted,
       BeforeStep, Bail, vars
  <2>2. pc \in InStep /\ pc \in Running
    BY <2>1 DEF Action, AfterStep, InStep, Running
  <2>3. QED
    BY <1>1, <2>2 DEF EvidenceInv
<1>2. IInv /\ EvidenceInv /\ [Next]_vars
        => [exhausted /\ exhausted' /\ records' # records => records[Len(records)].step = stepNum]_vars
  BY <1>1
<1>3. QED
  BY <1>2, IInvAlways, EvidenceAlways, PTL DEF Spec, ExhaustionHalts

-----------------------------------------------------------------------------
(* Without a debugger, what there is to blame is of the step the feature     *)
(* stops at, or tolerated: any other record to blame makes its step fail,   *)
(* and no step follows it.                                                  *)

Unwinding == {"unwind", "ended", "reported"}

\* Every record of recs is of feature f, and one to blame is of step s or
\* tolerated; p is the plan.
BlamesOnly(p, recs, f, s) ==
  \A r \in DOMAIN recs :
    /\ recs[r].feature = f
    /\ Blamed(recs[r]) => recs[r].step = s \/ p[f][recs[r].step].tolerates

BlameInv ==
  pc \in Running /\ ~options.debugging =>
    /\ pc # "again"
    /\ pc \in {"action", "after"} => stepOk
    /\ BlamesOnly(plan, records, featureNum, stepNum)
    /\ SomeCharged(plan, records) =>
         \/ pc = "after" /\ ~actionOk
         \/ pc = "stepped" /\ ~stepOk
         \/ pc \in Unwinding /\ ~featureOk

LEMMA GrownBlame ==
  ASSUME NEW old \in Seq(RecordType), NEW new \in Seq(RecordType), NEW f, NEW s, NEW ok \in BOOLEAN,
         GrowsBy(old, new, f, s, ok), BlamesOnly(plan, old, f, s)
  PROVE  BlamesOnly(plan, new, f, s)
<1>1. /\ Len(old) \in Nat /\ Len(new) \in Nat
      /\ DOMAIN old = 1..Len(old) /\ DOMAIN new = 1..Len(new)
  OBVIOUS
<1>2. ASSUME NEW r \in DOMAIN new
      PROVE  /\ new[r].feature = f
             /\ Blamed(new[r]) => new[r].step = s \/ plan[f][new[r].step].tolerates
  <2>1. CASE r \in Len(old) + 1..Len(new)
    BY <2>1 DEF GrowsBy
  <2>2. CASE r \in DOMAIN old
    <3>1. new[r] = old[r]
      BY <1>1, <2>2 DEF GrowsBy
    <3>2. QED
      BY <2>2, <3>1 DEF BlamesOnly
  <2>3. QED
    BY <1>1, <2>1, <2>2
<1>3. QED
  BY <1>2 DEF BlamesOnly

\* With nothing charged the next step may be any.
LEMMA NothingCharged ==
  ASSUME NEW p, NEW recs, NEW f, NEW s, BlamesOnly(p, recs, f, s), ~SomeCharged(p, recs)
  PROVE  \A t : BlamesOnly(p, recs, f, t)
  BY DEF SomeCharged, BlamesOnly

LEMMA BlameStep == IInv /\ BlameInv /\ [Next]_vars => BlameInv'
<1> SUFFICES ASSUME IInv, BlameInv, [Next]_vars, pc' \in Running, ~options'.debugging
             PROVE  BlameInv'
  BY DEF BlameInv
<1>0. /\ actionOk \in BOOLEAN /\ stepOk \in BOOLEAN /\ featureOk \in BOOLEAN
  BY DEF IInv, TypeOK, FlagsOK
<1>1. CASE StartFeature
  <2>1. pc' = "step" /\ records' = <<>>
    BY <1>1 DEF StartFeature
  <2>2. ~SomeCharged(plan', records') /\ BlamesOnly(plan', records', featureNum', stepNum')
    BY <2>1 DEF SomeCharged, BlamesOnly
  <2>3. QED
    BY <2>1, <2>2 DEF BlameInv
<1>2. CASE StartExecution \/ EndFeature \/ EndExecution \/ Bail
  BY <1>2 DEF StartExecution, EndFeature, EndExecution, Bail, Running
<1>3. CASE OnFailure \/ EndOpenScenario \/ StartScenario \/ EnterStep \/ HaltExhausted \/ BeforeStep
  <2>1. /\ pc \in Running /\ options' = options /\ plan' = plan /\ records' = records
        /\ featureNum' = featureNum /\ stepNum' = stepNum /\ featureOk' = featureOk
        /\ \/ pc = "ended" /\ pc' = "reported"
           \/ pc \in {"step", "opening", "args", "again"} /\ pc' \in {"opening", "args", "stepped"}
           \/ pc = "args" /\ pc' = "action" /\ stepOk'
           \/ pc = "again"
    BY <1>3 DEF OnFailure, EndOpenScenario, StartScenario, EnterStep, HaltExhausted, BeforeStep, AtOpening,
       Running, run, ctl
  <2>2. BlamesOnly(plan', records', featureNum', stepNum')
    BY <2>1 DEF BlameInv
  <2>3. pc # "again"
    BY <2>1 DEF BlameInv
  <2>4. CASE pc = "ended"
    BY <2>1, <2>2, <2>4 DEF BlameInv, Unwinding
  <2>5. CASE pc # "ended"
    <3>1. ~SomeCharged(plan, records')
      BY <2>1, <2>3, <2>5 DEF BlameInv, Unwinding
    <3>2. QED
      BY <2>1, <2>2, <2>3, <2>5, <3>1 DEF BlameInv
  <2>6. QED
    BY <2>4, <2>5
<1>4. CASE StepReturned
  <2>1. /\ pc = "stepped" /\ pc \in Running /\ options' = options /\ plan' = plan /\ records' = records
        /\ featureNum' = featureNum /\ featureOk' = stepOk
        /\ IF stepOk THEN pc' = "step" ELSE pc' = "unwind" /\ stepNum' = stepNum
    BY <1>4 DEF StepReturned, Running, run
  <2>2. CASE stepOk
    <3>1. ~SomeCharged(plan, records) /\ BlamesOnly(plan, records, featureNum, stepNum)
      BY <2>1, <2>2 DEF BlameInv, Unwinding
    <3>2. BlamesOnly(plan, records, featureNum, stepNum')
      BY <3>1, NothingCharged
    <3>3. QED
      BY <2>1, <2>2, <3>1, <3>2 DEF BlameInv
  <2>3. CASE ~stepOk
    BY <2>1, <2>3 DEF BlameInv, Unwinding
  <2>4. QED
    BY <2>2, <2>3
<1>5. CASE LeaveSteps
  <2>1. /\ pc \in {"unwind", "step"} /\ pc \in Running /\ pc' = "ended" /\ options' = options /\ plan' = plan
        /\ records' = records /\ featureNum' = featureNum /\ stepNum' = stepNum /\ featureOk' = featureOk
    BY <1>5 DEF LeaveSteps, LoopLeft, Running, run, ctl
  <2>2. QED
    BY <2>1 DEF BlameInv, Unwinding
<1>6. CASE Action
  <2>1. /\ pc = "action" /\ pc \in Running /\ pc' = "after" /\ options' = options /\ plan' = plan
        /\ featureNum' = featureNum /\ stepNum' = stepNum /\ stepOk' = stepOk
    BY <1>6 DEF Action, Running, run, ctl
  <2>2. /\ records \in Seq(RecordType) /\ records' \in Seq(RecordType) /\ actionOk' \in BOOLEAN
        /\ GrowsBy(records, records', featureNum, stepNum, stepOk /\ actionOk')
    BY <1>6, ActionRecords
  <2>3. stepOk /\ ~SomeCharged(plan, records) /\ BlamesOnly(plan, records, featureNum, stepNum)
    BY <2>1 DEF BlameInv, Unwinding
  <2>4. (stepOk /\ actionOk') \in BOOLEAN
    BY <1>0, <2>2
  <2>5. BlamesOnly(plan, records', featureNum, stepNum)
    BY <2>2, <2>3, <2>4, GrownBlame
  <2>6. SomeCharged(plan, records') => ~actionOk'
    BY <2>2, <2>3, <2>4, GrownEvidence
  <2>7. QED
    BY <2>1, <2>3, <2>5, <2>6 DEF BlameInv
<1>7. CASE AfterStep
  <2>1. /\ pc = "after" /\ pc \in Running /\ options' = options /\ plan' = plan
        /\ featureNum' = featureNum /\ stepNum' = stepNum
    BY <1>7 DEF AfterStep, Running, run, ctl
  <2>2. /\ pc' = "stepped"
        /\ stepOk' => stepOk /\ actionOk /\ (records' = records \/ Tolerates)
    BY <1>7, <2>1, AfterStepAnswers
  <2>3. BlamesOnly(plan, records', featureNum, stepNum)
    <3>1. BlamesOnly(plan, records, featureNum, stepNum)
      BY <2>1 DEF BlameInv
    <3>2. QED
      BY <1>7, <3>1, AfterStepRecords, GrownBlame
  <2>4. SomeCharged(plan, records') => ~stepOk'
    <3> SUFFICES ASSUME stepOk' PROVE ~SomeCharged(plan, records')
      OBVIOUS
    <3>1. ~SomeCharged(plan, records)
      BY <2>1, <2>2 DEF BlameInv, Unwinding
    <3>2. CASE records' = records
      BY <3>1, <3>2
    <3>3. CASE records' # records
      <4>1. /\ records \in Seq(RecordType) /\ records' \in Seq(RecordType)
            /\ GrowsBy(records, records', featureNum, stepNum, FALSE)
        BY <1>7, <3>3, AfterStepRecords
      <4>2. plan[featureNum][stepNum].tolerates
        BY <2>2, <3>3 DEF Tolerates, Steps
      <4>3. GrowsBy(records, records', featureNum, stepNum, FALSE)
              => \A i \in Len(records) + 1..Len(records') :
                   records'[i].feature = featureNum /\ records'[i].step = stepNum
        BY DEF GrowsBy
      <4>4. ASSUME NEW r \in DOMAIN records', Blamed(records'[r]),
                   ~plan[records'[r].feature][records'[r].step].tolerates
            PROVE  FALSE
        <5>1. r \notin Len(records) + 1..Len(records')
          BY <4>1, <4>2, <4>3, <4>4
        <5>2. r \in DOMAIN records /\ records'[r] = records[r]
          BY <4>1, <5>1 DEF GrowsBy
        <5>3. QED
          BY <3>1, <4>4, <5>2 DEF SomeCharged
      <4>5. QED
        BY <4>4 DEF SomeCharged
    <3>4. QED
      BY <3>2, <3>3
  <2>5. QED
    BY <2>1, <2>2, <2>3, <2>4 DEF BlameInv
<1>8. CASE UNCHANGED vars
  BY <1>8 DEF vars, run, ctl, step, BlameInv
<1>9. QED
  BY <1>1, <1>2, <1>3, <1>4, <1>5, <1>6, <1>7, <1>8 DEF Next, Advance

-----------------------------------------------------------------------------
(* What a feature left is kept in its result, and the verdict counts them.   *)

\* The result of feature f is what EvidenceInv and BlameInv say of its records.
ResultOK(f, res) ==
  /\ ~res.ok => EvidenceIn(res.records, res.exhausted)
  /\ ~options.debugging => /\ BlamesOnly(plan, res.records, f, res.last)
                           /\ SomeCharged(plan, res.records) => ~res.ok

ResultsInv == \A f \in DOMAIN results : ResultOK(f, results[f])

AllPassed(res) == \A f \in DOMAIN res : res[f].ok

VerdictInv ==
  pc # "bailed" =>
    /\ Len(results) = IF pc \in Running THEN featureNum - 1 ELSE featureNum
    /\ okSoFar <=> AllPassed(results)
    /\ pc = "start" \/ pc \in Running \/ (pc = "feature" /\ featureNum < Len(plan)) =>
         okSoFar \/ options.continueAfterError
    /\ pc = "finish" \/ (pc = "done" /\ featureNum < Len(plan)) =>
         ~okSoFar /\ ~options.continueAfterError /\ featureNum > 0 /\ ~results[featureNum].ok
    /\ pc = "done" => failure = IF okSoFar THEN None ELSE ExecutionFailure(results)

LEMMA EndFeatureBooks ==
  ASSUME IInv, EvidenceInv, BlameInv, VerdictInv, EndFeature
  PROVE  /\ Len(results') = featureNum /\ Len(results) = featureNum - 1
         /\ \A f \in 1..Len(results) : results'[f] = results[f]
         /\ ResultOK(featureNum, results'[featureNum])
         /\ results'[featureNum].ok = featureOk
<1> DEFINE res == [ok |-> featureOk, records |-> records, last |-> stepNum, exhausted |-> exhausted]
<1>1. /\ pc \in {"ended", "reported"} /\ pc \in Running /\ results' = Append(results, res)
      /\ featureNum \in Nat \ {0} /\ results \in Seq(ResultType)
  BY DEF EndFeature, IInv, TypeOK, CtlOK, FlagsOK, DataOK, Running
<1>2. res \in ResultType
  BY DEF IInv, TypeOK, CtlOK, FlagsOK, DataOK, ResultType
<1>3. /\ Len(results') = Len(results) + 1 /\ results'[Len(results) + 1] = res
      /\ \A f \in 1..Len(results) : results'[f] = results[f]
  BY <1>1, <1>2, AppendProperties
<1>4. /\ res.ok = featureOk /\ res.records = records /\ res.last = stepNum /\ res.exhausted = exhausted
  OBVIOUS
<1> HIDE DEF res
<1>5. Len(results) = featureNum - 1
  BY <1>1 DEF VerdictInv, Running
<1>6. Len(results') = featureNum /\ results'[featureNum] = res
  BY <1>1, <1>3, <1>5
<1>7. ResultOK(featureNum, res)
  <2>1. ~featureOk => EvidenceIn(records, exhausted)
    BY <1>1 DEF EvidenceInv
  <2>2. ~options.debugging => /\ BlamesOnly(plan, records, featureNum, stepNum)
                              /\ SomeCharged(plan, records) => ~featureOk
    BY <1>1 DEF BlameInv, Unwinding
  <2>3. QED
    BY <1>4, <2>1, <2>2 DEF ResultOK
<1>8. QED
  BY <1>3, <1>4, <1>5, <1>6, <1>7

LEMMA ResultsStep ==
  IInv /\ EvidenceInv /\ BlameInv /\ VerdictInv /\ ResultsInv /\ [Next]_vars => ResultsInv'
<1> SUFFICES ASSUME IInv, EvidenceInv, BlameInv, VerdictInv, ResultsInv, [Next]_vars PROVE ResultsInv'
  OBVIOUS
<1>1. CASE EndFeature
  <2>1. /\ Len(results') = featureNum /\ Len(results) = featureNum - 1
        /\ \A f \in 1..Len(results) : results'[f] = results[f]
        /\ ResultOK(featureNum, results'[featureNum])
    BY <1>1, EndFeatureBooks
  <2>2. /\ results \in Seq(ResultType) /\ results' \in Seq(ResultType) /\ featureNum \in Nat
        /\ options' = options /\ plan' = plan
    BY <1>1, DataStep DEF IInv, TypeOK, CtlOK, DataOK, EndFeature, run
  <2>3. ASSUME NEW f \in DOMAIN results' PROVE ResultOK(f, results'[f])
    <3>1. CASE f = featureNum
      BY <2>1, <3>1
    <3>2. CASE f # featureNum
      <4>1. f \in DOMAIN results /\ results'[f] = results[f]
        BY <2>1, <2>2, <3>2
      <4>2. QED
        BY <4>1 DEF ResultsInv
    <3>3. QED
      BY <3>1, <3>2
  <2>4. QED
    BY <2>2, <2>3 DEF ResultsInv, ResultOK
<1>2. CASE Bail
  BY <1>2 DEF Bail, ResultsInv
<1>3. CASE ~EndFeature /\ ~Bail
  <2>1. results' = results /\ options' = options /\ plan' = plan
    BY <1>3 DEF Next, Advance, StartExecution, StartFeature, OnFailure, EndExecution, EndOpenScenario,
       StartScenario, EnterStep, StepReturned, LeaveSteps, HaltExhausted, BeforeStep, Action, AfterStep,
       vars, run
  <2>2. QED
    BY <2>1 DEF ResultsInv, ResultOK
<1>4. QED
  BY <1>1, <1>2, <1>3

LEMMA VerdictStep ==
  IInv /\ EvidenceInv /\ BlameInv /\ VerdictInv /\ [Next]_vars => VerdictInv'
<1> SUFFICES ASSUME IInv, EvidenceInv, BlameInv, VerdictInv, [Next]_vars PROVE VerdictInv'
  OBVIOUS
<1>0. /\ featureNum \in 0..Len(plan) /\ Len(plan) \in Nat /\ okSoFar \in BOOLEAN /\ featureOk \in BOOLEAN
      /\ pc \in Running => featureNum \in Nat \ {0}
  BY DEF IInv, TypeOK, CtlOK, FlagsOK
<1>1. CASE StartExecution
  <2>1. /\ pc = "start" /\ pc' = "feature" /\ plan' = plan /\ options' = options /\ results' = results
        /\ featureNum' = featureNum /\ okSoFar' = okSoFar
    BY <1>1 DEF StartExecution, run, ctl
  <2>2. QED
    BY <2>1 DEF VerdictInv, Running
<1>2. CASE StartFeature
  <2>1. /\ pc = "feature" /\ pc' = "step" /\ featureNum < Len(plan) /\ featureNum' = featureNum + 1
        /\ options' = options /\ results' = results /\ okSoFar' = okSoFar
    BY <1>2 DEF StartFeature, run
  <2>2. featureNum' - 1 = featureNum
    BY <1>0, <2>1
  <2>3. QED
    BY <2>1, <2>2 DEF VerdictInv, Running
<1>3. CASE EndFeature
  <2>1. /\ Len(results') = featureNum /\ Len(results) = featureNum - 1
        /\ \A f \in 1..Len(results) : results'[f] = results[f]
        /\ results'[featureNum].ok = featureOk
    BY <1>3, EndFeatureBooks
  <2>2. /\ pc \in Running /\ pc # "bailed" /\ okSoFar' = (okSoFar /\ featureOk)
        /\ plan' = plan /\ options' = options /\ featureNum' = featureNum
        /\ pc' = IF ~okSoFar' /\ ~options.continueAfterError /\ featureNum # Len(plan)
                 THEN "finish" ELSE "feature"
    BY <1>3 DEF EndFeature, IsLast, Running, run, ctl
  <2>3. DOMAIN results = 1..featureNum - 1 /\ DOMAIN results' = 1..featureNum
    BY <1>3, <2>1, DataStep DEF IInv, TypeOK, DataOK, Next, Advance
  <2>4. AllPassed(results') <=> AllPassed(results) /\ featureOk
    <3>1. featureNum \in Nat \ {0}
      BY <1>0, <2>2
    <3>2. \A f \in 1..featureNum : f \in 1..featureNum - 1 \/ f = featureNum
      BY <3>1
    <3>3. featureNum \in 1..featureNum /\ \A f \in 1..featureNum - 1 : f \in 1..featureNum
      BY <3>1
    <3>4. QED
      BY <2>1, <2>3, <3>2, <3>3 DEF AllPassed
  <2>5. okSoFar' <=> AllPassed(results')
    BY <1>0, <2>2, <2>4 DEF VerdictInv
  <2>6. pc' = "feature" /\ featureNum < Len(plan) => okSoFar' \/ options.continueAfterError
    BY <1>0, <2>2
  <2>7. pc' = "finish" => ~featureOk
    <3>1. okSoFar \/ options.continueAfterError
      BY <2>2 DEF VerdictInv
    <3>2. QED
      BY <1>0, <2>2, <3>1
  <2>8. featureNum > 0
    BY <1>0, <2>2
  <2>9. pc' \in {"feature", "finish"} /\ pc' \notin Running
    BY <2>2 DEF Running
  <2>10. pc' = "finish" => ~okSoFar' /\ ~options.continueAfterError
    BY <2>2
  <2>11. QED
    BY <2>1, <2>2, <2>5, <2>6, <2>7, <2>8, <2>9, <2>10 DEF VerdictInv
<1>4. CASE EndExecution
  <2>1. /\ pc = "finish" \/ (pc = "feature" /\ featureNum = Len(plan))
        /\ pc' = "done" /\ failure' = IF okSoFar THEN None ELSE ExecutionFailure(results)
        /\ plan' = plan /\ options' = options /\ featureNum' = featureNum /\ okSoFar' = okSoFar
        /\ results' = results
    BY <1>4 DEF EndExecution, run, ctl
  <2>2. featureNum < Len(plan) => pc = "finish"
    BY <1>0, <2>1
  <2>3. QED
    BY <2>1, <2>2 DEF VerdictInv, Running
<1>5. CASE \/ OnFailure \/ EndOpenScenario \/ StartScenario \/ EnterStep \/ StepReturned \/ LeaveSteps
           \/ HaltExhausted \/ BeforeStep \/ Action \/ AfterStep
  <2>1. /\ pc \in Running /\ pc' \in Running /\ pc # "bailed" /\ options' = options
        /\ featureNum' = featureNum /\ okSoFar' = okSoFar /\ results' = results
    BY <1>5 DEF OnFailure, EndOpenScenario, StartScenario, EnterStep, StepReturned, LeaveSteps, LoopLeft,
       HaltExhausted, BeforeStep, Action, AfterStep, AtOpening, Running, run, ctl
  <2>2. pc' \notin {"start", "feature", "finish", "done"}
    BY <2>1 DEF Running
  <2>3. QED
    BY <2>1, <2>2 DEF VerdictInv
<1>6. CASE Bail
  BY <1>6 DEF Bail, VerdictInv
<1>7. CASE UNCHANGED vars
  BY <1>7 DEF vars, run, ctl, VerdictInv
<1>8. QED
  BY <1>1, <1>2, <1>3, <1>4, <1>5, <1>6, <1>7 DEF Next, Advance

\* The report names the first record to blame of the first failed feature.
LEMMA ReportNames ==
  ASSUME NEW res \in Seq(ResultType), ExecutionFailure(res) # None
  PROVE  \E f \in DOMAIN res :
           /\ ~res[f].ok /\ \A g \in DOMAIN res : ~res[g].ok => f <= g
           /\ \E r \in DOMAIN res[f].records : /\ Blamed(res[f].records[r])
                                               /\ ExecutionFailure(res) = res[f].records[r]
<1> DEFINE failed == {f \in DOMAIN res : ~res[f].ok}
           first  == CHOOSE f \in failed : \A g \in failed : f <= g
<1>1. failed # {} /\ ExecutionFailure(res) = FirstBlamed(res[first].records)
  BY DEF ExecutionFailure
<1>2. failed \in SUBSET Nat
  OBVIOUS
<1>3. first \in failed /\ \A g \in failed : first <= g
  BY <1>1, <1>2, LeastExists
<1>4. first \in DOMAIN res /\ ~res[first].ok /\ \A g \in DOMAIN res : ~res[g].ok => first <= g
  BY <1>3
<1> HIDE DEF first
<1> DEFINE recs  == res[first].records
           hits  == {i \in DOMAIN recs : Blamed(recs[i])}
           least == CHOOSE i \in hits : \A j \in hits : i <= j
<1>5. recs \in Seq(RecordType)
  <2>1. res[first] \in ResultType
    BY <1>4
  <2>2. QED
    BY <2>1 DEF ResultType
<1>6. hits # {} /\ FirstBlamed(recs) = recs[least]
  BY <1>1 DEF FirstBlamed
<1>7. hits \in SUBSET Nat
  BY <1>5
<1>8. least \in hits
  BY <1>6, <1>7, LeastExists
<1>9. least \in DOMAIN recs /\ Blamed(recs[least])
  BY <1>8
<1>10. QED
  BY <1>1, <1>4, <1>6, <1>9

\* What a run tells of its failure is what happened in it: the verdict agrees
\* with the features that ran, every failed feature left evidence, and the
\* step a failure is blamed on, where nobody debugs, is the one its first failed
\* feature stopped at, or an earlier one that tolerates failures.
THEOREM FailuresAreTold == Spec => []FailureIsTold
<1>1. Init => BlameInv /\ VerdictInv /\ ResultsInv
  <2>1. ASSUME Init
        PROVE  pc = "start" /\ featureNum = 0 /\ results = <<>> /\ okSoFar
    BY <2>1 DEF Init
  <2>2. QED
    BY <2>1 DEF BlameInv, VerdictInv, ResultsInv, AllPassed, Running
<1>2. Spec => [](EvidenceInv /\ BlameInv /\ VerdictInv /\ ResultsInv)
  BY <1>1, BlameStep, VerdictStep, ResultsStep, IInvAlways, EvidenceAlways, PTL DEF Spec
<1>3. IInv /\ VerdictInv /\ ResultsInv => FailureIsTold
  <2> SUFFICES ASSUME IInv, VerdictInv, ResultsInv PROVE FailureIsTold
    OBVIOUS
  <2>1. /\ results \in Seq(ResultType) /\ DOMAIN results = 1..Len(results)
        /\ featureNum \in 0..Len(plan) /\ Len(plan) \in Nat /\ okSoFar \in BOOLEAN
    BY DEF IInv, TypeOK, CtlOK, FlagsOK, DataOK
  <2>2. FailureBlamesFailedStep
    <3> SUFFICES ASSUME pc = "done", ~options.debugging, failure # None
                 PROVE  \E f \in DOMAIN results :
                          /\ ~results[f].ok /\ \A g \in DOMAIN results : ~results[g].ok => f <= g
                          /\ failure.feature = f
                          /\ failure.step = results[f].last \/ plan[f][failure.step].tolerates
      BY DEF FailureBlamesFailedStep
    <3>1. failure = ExecutionFailure(results)
      BY DEF VerdictInv
    <3>2. PICK f \in DOMAIN results :
            /\ ~results[f].ok /\ \A g \in DOMAIN results : ~results[g].ok => f <= g
            /\ \E r \in DOMAIN results[f].records : /\ Blamed(results[f].records[r])
                                                    /\ failure = results[f].records[r]
      BY <2>1, <3>1, ReportNames
    <3>3. BlamesOnly(plan, results[f].records, f, results[f].last)
      BY DEF ResultsInv, ResultOK
    <3>4. failure.feature = f /\ (failure.step = results[f].last \/ plan[f][failure.step].tolerates)
      BY <3>2, <3>3 DEF BlamesOnly
    <3>5. QED
      BY <3>2, <3>4
  <2>3. VerdictAgrees
    <3> SUFFICES ASSUME pc = "done"
                 PROVE  /\ okSoFar = (Len(results) = Len(plan) /\ \A f \in DOMAIN results : results[f].ok)
                        /\ Len(results) < Len(plan) => ~options.continueAfterError /\ ~results[Len(results)].ok
                        /\ ~options.debugging => \A f \in DOMAIN results : results[f].ok =>
                             \A r \in DOMAIN results[f].records :
                               LET record == results[f].records[r]
                               IN  Blamed(record) => plan[f][record.step].tolerates
      BY DEF VerdictAgrees
    <3>1. Len(results) = featureNum /\ (okSoFar <=> AllPassed(results))
      BY DEF VerdictInv, Running
    <3>2. featureNum < Len(plan) => ~okSoFar /\ ~options.continueAfterError /\ ~results[featureNum].ok
      BY DEF VerdictInv
    <3>3. featureNum < Len(plan) \/ featureNum = Len(plan)
      BY <2>1
    <3>4. okSoFar <=> (Len(results) = Len(plan) /\ AllPassed(results))
      BY <2>1, <3>1, <3>2, <3>3
    <3>5. okSoFar = (Len(results) = Len(plan) /\ \A f \in DOMAIN results : results[f].ok)
      BY <2>1, <3>4 DEF AllPassed
    <3>6. ~options.debugging => \A f \in DOMAIN results :
            /\ SomeCharged(plan, results[f].records) => ~results[f].ok
            /\ BlamesOnly(plan, results[f].records, f, results[f].last)
      BY DEF ResultsInv, ResultOK
    <3>7. ASSUME ~options.debugging, NEW f \in DOMAIN results, results[f].ok,
                 NEW r \in DOMAIN results[f].records, Blamed(results[f].records[r])
          PROVE  plan[f][results[f].records[r].step].tolerates
      BY <3>6, <3>7 DEF SomeCharged, BlamesOnly
    <3>8. QED
      BY <3>1, <3>2, <3>5, <3>7
  <2>4. FailureLeavesEvidence
    BY DEF ResultsInv, ResultOK, EvidenceIn, SomeBlamed, FailureLeavesEvidence
  <2>5. QED
    BY <2>2, <2>3, <2>4 DEF FailureIsTold
<1>4. QED
  BY <1>2, <1>3, IInvAlways, PTL

-----------------------------------------------------------------------------
(* LanguageServer. First what recursive definitions over sequences need.     *)

\* Induction up to n, of a set.
LEMMA UpTo ==
  ASSUME NEW n \in Nat, NEW T, 0 \in T, \A i \in 1..n : i - 1 \in T => i \in T
  PROVE  \A i \in 0..n : i \in T
<1> DEFINE Bad == {i \in 0..n : i \notin T}
<1> SUFFICES ASSUME Bad # {} PROVE FALSE
  OBVIOUS
<1>1. PICK x \in Bad : \A y \in Bad : x <= y
  <2>1. Bad \in SUBSET Nat
    OBVIOUS
  <2> HIDE DEF Bad
  <2>2. QED
    BY <2>1, LeastExists
<1>2. x \in 1..n /\ x - 1 \notin Bad
  BY <1>1
<1>3. x - 1 \in T
  BY <1>2
<1>4. QED
  BY <1>1, <1>2, <1>3

\* The functions of 0..n that begin with a and are made of the values before.
Turns(n, S) == [1..n -> [S -> S]]
MadeBy(n, S, a, g) == {f \in [0..n -> S] : f[0] = a /\ \A i \in 1..n : f[i] = g[i][f[i - 1]]}

\* There is one.
LEMMA Recursion ==
  ASSUME NEW n \in Nat, NEW S, NEW a \in S, NEW g \in Turns(n, S)
  PROVE  \E f : f \in MadeBy(n, S, a, g)
<1> USE DEF Turns
<1> DEFINE Made(m, f) == f[0] = a /\ \A i \in 1..m : f[i] = g[i][f[i - 1]]
           T == {m \in 0..n : \E f \in [0..m -> S] : Made(m, f)}
<1>1. 0 \in T
  <2> DEFINE f == [i \in 0..0 |-> a]
  <2>1. f \in [0..0 -> S] /\ f[0] = a
    OBVIOUS
  <2> HIDE DEF f
  <2>2. Made(0, f) /\ 0 \in 0..n
    BY <2>1
  <2>3. \E e \in [0..0 -> S] : Made(0, e)
    BY <2>1, <2>2
  <2>4. QED
    BY <2>2, <2>3
<1>2. ASSUME NEW m \in 1..n, m - 1 \in T PROVE m \in T
  <2>1. PICK f \in [0..m - 1 -> S] : Made(m - 1, f)
    BY <1>2
  <2> DEFINE h == [i \in 0..m |-> IF i = m THEN g[m][f[m - 1]] ELSE f[i]]
  <2>2. m - 1 \in 0..m - 1 /\ f[m - 1] \in S /\ g[m] \in [S -> S]
    BY <2>1
  <2>3. g[m][f[m - 1]] \in S
    BY <2>2
  <2>4. h \in [0..m -> S]
    BY <2>1, <2>3
  <2>5. \A i \in 0..m - 1 : i \in 0..m /\ h[i] = f[i]
    OBVIOUS
  <2>6. h[m] = g[m][h[m - 1]]
    <3>1. h[m] = g[m][f[m - 1]]
      OBVIOUS
    <3>2. h[m - 1] = f[m - 1]
      BY <2>2, <2>5
    <3>3. QED
      BY <3>1, <3>2
  <2>7. \A i \in 1..m - 1 : i \in 0..m - 1 /\ i - 1 \in 0..m - 1
    OBVIOUS
  <2> HIDE DEF h
  <2>8. \A i \in 1..m - 1 : h[i] = g[i][h[i - 1]]
    BY <2>1, <2>5, <2>7
  <2>9. h[0] = a
    BY <2>1, <2>5
  <2>10. \A i \in 1..m : i \in 1..m - 1 \/ i = m
    OBVIOUS
  <2>11. Made(m, h)
    BY <2>6, <2>8, <2>9, <2>10
  <2> HIDE DEF Made
  <2>12. \E e \in [0..m -> S] : Made(m, e)
    BY <2>4, <2>11
  <2>13. QED
    BY <2>12
<1>3. n \in 0..n
  OBVIOUS
<1> HIDE DEF T
<1>4. n \in T
  BY <1>1, <1>2, <1>3, UpTo
<1>5. QED
  BY <1>4 DEF T, MadeBy

-----------------------------------------------------------------------------
(* The registers of ActivitiesStepper: every step in them is of a place of a *)
(* set W, where its outcome was read.                                       *)

Sources == [path : Docs, line : Nat]
Site(o, p) == [name |-> o, path |-> p.path, line |-> p.line]
PlacesOf(W, o) == {p \in Sources : Site(o, p) \in W}
StepMaps(W) ==
  {f \in UNION {[A -> Sources] : A \in SUBSET STRING} : \A o \in DOMAIN f : f[o] \in PlacesOf(W, o)}
Regs(W) ==
  {r \in [steps : StepMaps(W), backgroundSteps : StepMaps(W), backgroundOutcomePatterns : SUBSET STRING,
          featureOutcomePatterns : SUBSET STRING, featureSteps : [Docs -> StepMaps(W)],
          lastResolutionPath : Docs \cup {""}, inActivityBlock : BOOLEAN] :
     DOMAIN r.backgroundSteps \subseteq DOMAIN r.steps}
Readings(W) == [reg : Regs(W), threw : BOOLEAN, errors : SUBSET [number : Nat, name : STRING]]

\* Lines that are read, and those whose outcome was read at no second place.
LineRecs == [line : Lines, from : Docs, number : Nat]
OneSite(W, o) == \A p, q \in W : p.name = o /\ q.name = o => p = q
SingleLine(W, x) == x.line.kind = "waypoint" => OneSite(W, x.line.name)

LEMMA StepMapIs ==
  ASSUME NEW W, NEW A \in SUBSET STRING, NEW f, f = [o \in A |-> f[o]], \A o \in A : f[o] \in PlacesOf(W, o)
  PROVE  f \in StepMaps(W) /\ DOMAIN f = A
<1>1. f \in [A -> Sources]
  BY DEF PlacesOf
<1> QED
  BY <1>1 DEF StepMaps

LEMMA StepMapHas ==
  ASSUME NEW W, NEW f \in StepMaps(W)
  PROVE  DOMAIN f \in SUBSET STRING /\ \A o \in DOMAIN f : f[o] \in PlacesOf(W, o)
BY DEF StepMaps

LEMMA EmptyIs == Empty = [x \in {} |-> Empty[x]] /\ DOMAIN Empty = {}
BY DEF Empty

LEMMA EmptySteps ==
  ASSUME NEW W
  PROVE  Empty \in StepMaps(W)
<1>1. \A o \in {} : Empty[o] \in PlacesOf(W, o)
  OBVIOUS
<1> QED
  BY <1>1, EmptyIs, StepMapIs

LEMMA OverSteps ==
  ASSUME NEW W, NEW f \in StepMaps(W), NEW g \in StepMaps(W)
  PROVE  Over(f, g) \in StepMaps(W) /\ DOMAIN Over(f, g) = DOMAIN f \cup DOMAIN g
<1> DEFINE h == Over(f, g)
<1>1. h = [x \in DOMAIN f \cup DOMAIN g |-> h[x]] /\ \A x \in DOMAIN f \cup DOMAIN g : h[x] = IF x \in DOMAIN g THEN g[x] ELSE f[x]
  BY DEF Over
<1> HIDE DEF h
<1>2. \A x \in DOMAIN f \cup DOMAIN g : h[x] \in PlacesOf(W, x)
  BY <1>1, StepMapHas
<1>3. DOMAIN f \cup DOMAIN g \in SUBSET STRING
  BY StepMapHas
<1>4. h \in StepMaps(W) /\ DOMAIN h = DOMAIN f \cup DOMAIN g
  BY <1>1, <1>2, <1>3, StepMapIs
<1> QED
  BY <1>4 DEF h

LEMMA WithoutSteps ==
  ASSUME NEW W, NEW f \in StepMaps(W), NEW S
  PROVE  Without(f, S) \in StepMaps(W)
<1> DEFINE h == Without(f, S)
<1>1. h = [x \in DOMAIN f \ S |-> h[x]] /\ \A x \in DOMAIN f \ S : h[x] = f[x]
  BY DEF Without
<1> HIDE DEF h
<1>2. \A x \in DOMAIN f \ S : h[x] \in PlacesOf(W, x)
  BY <1>1, StepMapHas
<1>3. DOMAIN f \ S \in SUBSET STRING
  BY StepMapHas
<1>4. h \in StepMaps(W)
  BY <1>1, <1>2, <1>3, StepMapIs
<1> QED
  BY <1>4 DEF h

LEMMA OneStep ==
  ASSUME NEW W, NEW o \in STRING, NEW s \in PlacesOf(W, o)
  PROVE  [x \in {o} |-> s] \in StepMaps(W) /\ DOMAIN [x \in {o} |-> s] = {o}
<1> DEFINE h == [x \in {o} |-> s]
<1>1. h = [x \in {o} |-> h[x]] /\ \A x \in {o} : h[x] \in PlacesOf(W, x)
  OBVIOUS
<1> HIDE DEF h
<1>2. h \in StepMaps(W) /\ DOMAIN h = {o}
  BY <1>1, StepMapIs
<1> QED
  BY <1>2 DEF h

LEMMA FreshType ==
  ASSUME NEW W
  PROVE  Fresh \in Regs(W)
<1>1. Empty \in StepMaps(W) /\ DOMAIN Empty = {} /\ [d \in Docs |-> Empty] \in [Docs -> StepMaps(W)]
  BY EmptySteps, EmptyIs
<1> QED
  BY <1>1 DEF Fresh, Regs

\* What is of the places read before is of those read since.
LEMMA RegsGrow ==
  ASSUME NEW W, NEW V, W \subseteq V
  PROVE  Regs(W) \subseteq Regs(V)
<1>1. \A o : PlacesOf(W, o) \subseteq PlacesOf(V, o)
  BY DEF PlacesOf
<1>2. ASSUME NEW f \in StepMaps(W) PROVE f \in StepMaps(V)
  BY <1>1 DEF StepMaps
<1> SUFFICES ASSUME NEW r \in Regs(W) PROVE r \in Regs(V)
  OBVIOUS
<1>3. r.featureSteps \in [Docs -> StepMaps(V)]
  BY <1>2 DEF Regs
<1> QED
  BY <1>2, <1>3 DEF Regs

LEMMA StartType ==
  ASSUME NEW W, NEW r \in Regs(W), NEW d \in Docs
  PROVE  startFeatureResolution(r, d) \in Regs(W)
<1> DEFINE last == r.lastResolutionPath
           gone == IF last \in Docs \ {d} THEN DOMAIN r.featureSteps[last] ELSE {}
           steps == Over(Over(Without(r.steps, gone), r.featureSteps[d]), r.backgroundSteps)
<1>1. r.steps \in StepMaps(W) /\ r.featureSteps[d] \in StepMaps(W) /\ r.backgroundSteps \in StepMaps(W)
  BY DEF Regs
<1>2. Without(r.steps, gone) \in StepMaps(W)
  BY <1>1, WithoutSteps
<1>3. Over(Without(r.steps, gone), r.featureSteps[d]) \in StepMaps(W)
  BY <1>1, <1>2, OverSteps
<1>4. steps \in StepMaps(W) /\ DOMAIN r.backgroundSteps \subseteq DOMAIN steps
  <2> DEFINE f == Over(Without(r.steps, gone), r.featureSteps[d])
             g == r.backgroundSteps
  <2>1. f \in StepMaps(W) /\ g \in StepMaps(W)
    BY <1>1, <1>3
  <2> HIDE DEF f, g
  <2>2. Over(f, g) \in StepMaps(W) /\ DOMAIN Over(f, g) = DOMAIN f \cup DOMAIN g
    BY <2>1, OverSteps
  <2> QED
    BY <2>2 DEF f, g
<1>5. startFeatureResolution(r, d) = [r EXCEPT !.steps = steps, !.lastResolutionPath = d]
  BY DEF startFeatureResolution
<1> HIDE DEF steps
<1> QED
  BY <1>4, <1>5 DEF Regs

LEMMA ClearType ==
  ASSUME NEW W, NEW r \in Regs(W)
  PROVE  clearAllBackgroundSteps(r) \in Regs(W)
BY EmptySteps, EmptyIs DEF clearAllBackgroundSteps, Regs

LEMMA RegisterType ==
  ASSUME NEW W, NEW r \in Regs(W), NEW o \in STRING, NEW d \in Docs, NEW s \in PlacesOf(W, o)
  PROVE  registerOutcome(r, o, d, s) \in Regs(W)
<1> DEFINE added == [x \in {o} |-> s]
           r1 == [r EXCEPT !.steps = Over(@, added)]
           known == o \in r.backgroundOutcomePatterns \cup r.featureOutcomePatterns \cup DOMAIN r.steps
<1>1. added \in StepMaps(W) /\ DOMAIN added = {o}
  BY OneStep
<1>2. registerOutcome(r, o, d, s) =
        IF known THEN r
        ELSE IF d \in Backgrounds
             THEN [r1 EXCEPT !.backgroundOutcomePatterns = @ \cup {o}, !.backgroundSteps = Over(@, added)]
             ELSE [r1 EXCEPT !.featureOutcomePatterns = @ \cup {o}, !.featureSteps[d] = Over(@, added)]
  BY DEF registerOutcome
<1> HIDE DEF added, known
<1>3. r.steps \in StepMaps(W) /\ r.featureSteps[d] \in StepMaps(W) /\ r.backgroundSteps \in StepMaps(W)
  BY DEF Regs
<1>4. /\ Over(r.steps, added) \in StepMaps(W) /\ DOMAIN Over(r.steps, added) = DOMAIN r.steps \cup {o}
      /\ Over(r.backgroundSteps, added) \in StepMaps(W)
      /\ DOMAIN Over(r.backgroundSteps, added) = DOMAIN r.backgroundSteps \cup {o}
      /\ Over(r.featureSteps[d], added) \in StepMaps(W)
  <2>1. ASSUME NEW f \in StepMaps(W) PROVE Over(f, added) \in StepMaps(W) /\ DOMAIN Over(f, added) = DOMAIN f \cup {o}
    <3>1. Over(f, added) \in StepMaps(W) /\ DOMAIN Over(f, added) = DOMAIN f \cup DOMAIN added
      BY <1>1, <2>1, OverSteps, Zenon
    <3> QED
      BY <1>1, <3>1
  <2> QED
    BY <1>3, <2>1
<1>5. /\ r1 \in Regs(W) /\ r1.steps = Over(r.steps, added) /\ r1.backgroundSteps = r.backgroundSteps
      /\ r1.featureSteps = r.featureSteps
  <2> DEFINE steps == Over(r.steps, added)
  <2>1. r1 = [r EXCEPT !.steps = steps]
    OBVIOUS
  <2>2. steps \in StepMaps(W) /\ DOMAIN r.backgroundSteps \subseteq DOMAIN steps
    BY <1>4 DEF Regs
  <2> HIDE DEF steps, r1
  <2>3. r1 \in Regs(W) /\ r1.steps = steps /\ r1.backgroundSteps = r.backgroundSteps /\ r1.featureSteps = r.featureSteps
    BY <2>1, <2>2 DEF Regs
  <2> QED
    BY <2>3 DEF steps
<1> HIDE DEF r1
<1>6. [r1 EXCEPT !.backgroundOutcomePatterns = @ \cup {o}, !.backgroundSteps = Over(@, added)] \in Regs(W)
  BY <1>3, <1>4, <1>5 DEF Regs
<1>7. [r1 EXCEPT !.featureOutcomePatterns = @ \cup {o}, !.featureSteps[d] = Over(@, added)] \in Regs(W)
  BY <1>3, <1>4, <1>5 DEF Regs
<1> QED
  BY <1>2, <1>6, <1>7

-----------------------------------------------------------------------------
(* A reading stays in these registers; it throws at no line whose outcome    *)
(* stands in one place.                                                     *)

LEMMA ReadLineType ==
  ASSUME NEW W, NEW at \in Readings(W), NEW lines \in Seq(LineRecs), WaypointsIn(lines) \subseteq W,
         NEW i \in 1..Len(lines), NEW d \in Docs
  PROVE  /\ ReadLine(at, i, lines, d) \in Readings(W)
         /\ SingleLine(W, lines[i]) /\ ~at.threw => ~ReadLine(at, i, lines, d).threw
<1> DEFINE x == lines[i].line
           r == [at.reg EXCEPT !.lastResolutionPath = d]
           source == [path |-> lines[i].from, line |-> i]
           known == x.kind # "step" \/ x.name \in Builtin \cup DOMAIN r.steps
           error == [number |-> lines[i].number, name |-> x.name]
           more == MoreWaypoints(lines, i)
           entered == [r EXCEPT !.inActivityBlock = TRUE]
           left == [r EXCEPT !.inActivityBlock = FALSE]
           errors == IF known THEN at.errors ELSE at.errors \cup {error}
           registered == [registerOutcome(r, x.name, d, source) EXCEPT !.inActivityBlock = more]
<1>1. lines[i] \in LineRecs /\ i \in DOMAIN lines /\ i \in Nat
  OBVIOUS
<1>2. x \in Lines /\ lines[i].number \in Nat /\ x.name \in STRING /\ (x.kind = "waypoint" => source \in PlacesOf(W, x.name))
  <2>1. x \in Lines /\ lines[i].number \in Nat /\ x.name \in STRING /\ source \in Sources
    BY <1>1 DEF LineRecs, Lines, Sources
  <2>2. x.kind = "waypoint" => [name |-> x.name, path |-> lines[i].from, line |-> i] \in WaypointsIn(lines)
    BY <1>1 DEF WaypointsIn
  <2>3. Site(x.name, source) = [name |-> x.name, path |-> lines[i].from, line |-> i]
    BY DEF Site
  <2> HIDE DEF x, source
  <2> QED
    BY <2>1, <2>2, <2>3 DEF PlacesOf
<1>3. at.reg \in Regs(W) /\ at.threw \in BOOLEAN /\ at.errors \in SUBSET [number : Nat, name : STRING]
  BY DEF Readings
<1>4. r \in Regs(W) /\ r.steps = at.reg.steps
  BY <1>3 DEF Regs
<1>5. more \in BOOLEAN
  BY DEF MoreWaypoints
<1>6. ReadLine(at, i, lines, d) =
        IF at.threw THEN at
        ELSE IF x.kind = "activity" THEN [at EXCEPT !.reg = entered]
        ELSE IF ~r.inActivityBlock \/ x.kind = "header" THEN [at EXCEPT !.reg = left, !.errors = errors]
        ELSE IF x.kind # "waypoint" THEN [at EXCEPT !.reg = r]
        ELSE IF Clashes(r, x.name, source) THEN [at EXCEPT !.reg = r, !.threw = TRUE]
        ELSE [at EXCEPT !.reg = registered]
  BY DEF ReadLine
<1>7. errors \in SUBSET [number : Nat, name : STRING]
  BY <1>2, <1>3
<1> HIDE DEF r, x, source, known, error, more
<1>8. entered \in Regs(W) /\ left \in Regs(W)
  BY <1>4 DEF Regs
<1>9. x.kind = "waypoint" => registered \in Regs(W)
  <2>1. x.kind = "waypoint" => registerOutcome(r, x.name, d, source) \in Regs(W)
    BY <1>2, <1>4, RegisterType
  <2> QED
    BY <1>5, <2>1 DEF Regs
<1> HIDE DEF entered, left, errors, registered
<1>10. ReadLine(at, i, lines, d) \in Readings(W)
  BY <1>3, <1>4, <1>6, <1>7, <1>8, <1>9 DEF Readings
<1>11. ASSUME SingleLine(W, lines[i]), x.kind = "waypoint" PROVE ~Clashes(r, x.name, source)
  <2>1. \A p, q \in PlacesOf(W, x.name) : p = q
    <3>1. OneSite(W, x.name)
      BY <1>11 DEF SingleLine, x
    <3>2. ASSUME NEW p \in PlacesOf(W, x.name), NEW q \in PlacesOf(W, x.name) PROVE p = q
      <4>1. Site(x.name, p) \in W /\ Site(x.name, q) \in W /\ p \in Sources /\ q \in Sources
        BY DEF PlacesOf
      <4>2. Site(x.name, p) = Site(x.name, q)
        BY <3>1, <4>1 DEF OneSite, Site
      <4>3. p.path = q.path /\ p.line = q.line
        BY <4>2 DEF Site
      <4> QED
        BY <4>1, <4>3 DEF Sources
    <3> QED
      BY <3>2
  <2>2. x.name \in DOMAIN r.steps => r.steps[x.name] \in PlacesOf(W, x.name)
    BY <1>4, StepMapHas DEF Regs
  <2> QED
    BY <1>2, <1>11, <2>1, <2>2 DEF Clashes
<1>12. ASSUME SingleLine(W, lines[i]), ~at.threw PROVE ~ReadLine(at, i, lines, d).threw
  BY <1>6, <1>11, <1>12 DEF Readings
<1> QED
  BY <1>10, <1>12

\* A set that every line keeps holds what comes of reading them all.
LEMMA ReadingAll ==
  ASSUME NEW S, NEW r, Reading(r) \in S, NEW P, NEW lines \in Seq(P), NEW d,
         \A i \in 1..Len(lines), at \in S : ReadLine(at, i, lines, d) \in S
  PROVE  findFeatureStepsTolerant(r, lines, d) \in S
<1> DEFINE n == Len(lines)
           g == [k \in 1..n |-> [s \in S |-> ReadLine(s, k, lines, d)]]
           read[k \in 0..n] == IF k = 0 THEN Reading(r) ELSE ReadLine(read[k - 1], k, lines, d)
<1>1. n \in Nat
  OBVIOUS
<1>2. \A k \in 1..n, s \in S : ReadLine(s, k, lines, d) \in S
  OBVIOUS
<1>3. g \in Turns(n, S)
  BY <1>2 DEF Turns
<1>4. \A s \in S, k \in 1..n : g[k][s] = ReadLine(s, k, lines, d)
  OBVIOUS
<1>5. findFeatureStepsTolerant(r, lines, d) = read[n]
  BY DEF findFeatureStepsTolerant
<1> HIDE DEF g, n
<1>7. PICK f : f \in MadeBy(n, S, Reading(r), g)
  BY <1>1, <1>3, Recursion
<1>8. f \in [0..n -> S] /\ f[0] = Reading(r) /\ \A k \in 1..n : f[k] = g[k][f[k - 1]]
  BY <1>7 DEF MadeBy
<1>9. ASSUME NEW k \in 1..n PROVE f[k] = ReadLine(f[k - 1], k, lines, d)
  <2>1. f[k - 1] \in S
    BY <1>1, <1>8
  <2> QED
    BY <1>4, <1>8, <2>1
<1>10. f = [k \in 0..n |-> IF k = 0 THEN Reading(r) ELSE ReadLine(f[k - 1], k, lines, d)]
  BY <1>8, <1>9
<1>11. read = [k \in 0..n |-> IF k = 0 THEN Reading(r) ELSE ReadLine(read[k - 1], k, lines, d)]
  BY <1>10
<1> HIDE DEF read
<1>12. \A k \in 1..n : k \in 0..n /\ k - 1 \in 0..n /\ k # 0
  BY <1>1
<1>13. read[0] = Reading(r) /\ \A k \in 1..n : read[k] = ReadLine(read[k - 1], k, lines, d)
  <2>1. 0 \in 0..n
    BY <1>1
  <2> QED
    BY <1>11, <1>12, <2>1
<1> DEFINE T == {k \in 0..n : read[k] \in S}
<1>14. 0 \in T /\ \A k \in 1..n : k - 1 \in T => k \in T
  <2>1. 0 \in T
    BY <1>1, <1>13
  <2>2. \A k \in 1..n : k - 1 \in T => k \in T
    BY <1>2, <1>12, <1>13
  <2> QED
    BY <2>1, <2>2
<1> HIDE DEF T
<1>15. \A k \in 0..n : k \in T
  BY <1>1, <1>14, UpTo
<1>16. n \in T
  BY <1>1, <1>15
<1> QED
  BY <1>5, <1>16, Zenon DEF T

LEMMA ReadingType ==
  ASSUME NEW W, NEW r \in Regs(W), NEW lines \in Seq(LineRecs), WaypointsIn(lines) \subseteq W, NEW d \in Docs
  PROVE  /\ findFeatureStepsTolerant(r, lines, d) \in Readings(W)
         /\ (\A i \in 1..Len(lines) : SingleLine(W, lines[i])) => ~findFeatureStepsTolerant(r, lines, d).threw
<1>1. Reading(r) \in Readings(W) /\ ~Reading(r).threw
  BY DEF Reading, Readings
<1>2. \A i \in 1..Len(lines), at \in Readings(W) : ReadLine(at, i, lines, d) \in Readings(W)
  BY ReadLineType
<1>3. findFeatureStepsTolerant(r, lines, d) \in Readings(W)
  BY <1>1, <1>2, ReadingAll
<1>4. ASSUME \A i \in 1..Len(lines) : SingleLine(W, lines[i])
      PROVE  ~findFeatureStepsTolerant(r, lines, d).threw
  <2> DEFINE S == {at \in Readings(W) : ~at.threw}
  <2>1. Reading(r) \in S
    BY <1>1
  <2>2. \A i \in 1..Len(lines), at \in S : ReadLine(at, i, lines, d) \in S
    BY <1>4, ReadLineType
  <2> HIDE DEF S
  <2>3. findFeatureStepsTolerant(r, lines, d) \in S
    BY <2>1, <2>2, ReadingAll
  <2> QED
    BY <2>3 DEF S
<1> QED
  BY <1>3, <1>4

-----------------------------------------------------------------------------
(* Texts, backgrounds, and the reading of a list of them.                   *)

IsText(t, d) == t \in Drafts[d] \/ (d \in DOMAIN OnDisk /\ t = OnDisk[d])
Entries == {b \in [path : Backgrounds, content : Seq(Lines), based : BOOLEAN] : IsText(b.content, b.path)}

\* No outcome of a text was read at a second place.
Single(W, t) == \A o \in Outcomes(t) : OneSite(W, o)

LEMMA TextIs ==
  ASSUME NEW d \in Docs, NEW t, IsText(t, d)
  PROVE  t \in Seq(Lines)
BY LanguageServerAssumption DEF IsText

LEMMA EntryIs ==
  ASSUME NEW b \in Entries
  PROVE  b.path \in Backgrounds /\ b.path \in Docs /\ IsText(b.content, b.path) /\ b.content \in Seq(Lines)
BY DEF Entries, Docs

LEMMA IsOneText ==
  ASSUME NEW d, NEW t
  PROVE  IsText(t, d) <=> t \in Texts(d)
<1>1. t \in {OnDisk[b] : b \in {d} \cap DOMAIN OnDisk} <=> (d \in DOMAIN OnDisk /\ t = OnDisk[d])
  OBVIOUS
<1> QED
  BY <1>1 DEF IsText, Texts

LEMMA NumberedType ==
  ASSUME NEW W, NEW d \in Docs, NEW t \in Seq(Lines)
  PROVE  /\ Numbered(t, d) \in Seq(LineRecs) /\ Len(Numbered(t, d)) = Len(t)
         /\ Single(W, t) => \A i \in 1..Len(t) : SingleLine(W, Numbered(t, d)[i])
<1>1. Len(t) \in Nat /\ DOMAIN t = 1..Len(t) /\ \A i \in 1..Len(t) : t[i] \in Lines
  OBVIOUS
<1> DEFINE x(i) == [line |-> t[i], from |-> d, number |-> i]
<1>2. ASSUME NEW i \in 1..Len(t) PROVE x(i) \in LineRecs
  BY <1>1 DEF LineRecs
<1>3. Numbered(t, d) = [i \in 1..Len(t) |-> x(i)]
  BY <1>1 DEF Numbered
<1>4. \A i \in 1..Len(t) : x(i).line = t[i]
  OBVIOUS
<1> HIDE DEF x
<1>5. Numbered(t, d) \in Seq(LineRecs) /\ Len(Numbered(t, d)) = Len(t)
  BY <1>1, <1>2, <1>3
<1>6. ASSUME Single(W, t), NEW i \in 1..Len(t) PROVE SingleLine(W, Numbered(t, d)[i])
  <2>1. Numbered(t, d)[i].line = t[i]
    BY <1>3, <1>4
  <2>2. t[i].kind = "waypoint" => t[i].name \in Outcomes(t)
    BY <1>1 DEF Outcomes
  <2> QED
    BY <1>6, <2>1, <2>2 DEF Single, SingleLine
<1> QED
  BY <1>5, <1>6

\* What the Resolver does with one of its backgrounds.
ReadBackground(at, b) ==
  IF at.threw THEN at
  ELSE [findFeatureStepsTolerant(at.reg, Numbered(b.content, b.path), b.path) EXCEPT !.errors = {}]

LEMMA ReadBackgroundType ==
  ASSUME NEW W, NEW at \in Readings(W), NEW b \in Entries, WaypointsIn(Numbered(b.content, b.path)) \subseteq W
  PROVE  /\ ReadBackground(at, b) \in Readings(W)
         /\ Single(W, b.content) /\ ~at.threw => ~ReadBackground(at, b).threw
<1> DEFINE lines == Numbered(b.content, b.path)
           read == findFeatureStepsTolerant(at.reg, lines, b.path)
<1>1. b.path \in Docs /\ b.content \in Seq(Lines) /\ at.reg \in Regs(W)
  BY EntryIs DEF Readings
<1>2. /\ lines \in Seq(LineRecs) /\ WaypointsIn(lines) \subseteq W
      /\ Single(W, b.content) => \A i \in 1..Len(lines) : SingleLine(W, lines[i])
  BY <1>1, NumberedType
<1>3. ReadBackground(at, b) = IF at.threw THEN at ELSE [read EXCEPT !.errors = {}]
  BY DEF ReadBackground
<1> HIDE DEF lines
<1>4. read \in Readings(W) /\ ((\A i \in 1..Len(lines) : SingleLine(W, lines[i])) => ~read.threw)
  BY <1>1, <1>2, ReadingType
<1> HIDE DEF read
<1> QED
  BY <1>2, <1>3, <1>4 DEF Readings

LEMMA ResolvingAll ==
  ASSUME NEW S, NEW r, Reading(r) \in S, NEW list \in Seq(Entries),
         \A i \in 1..Len(list), at \in S : ReadBackground(at, list[i]) \in S
  PROVE  Resolver(r, list) \in S
<1> DEFINE n == Len(list)
           g == [k \in 1..n |-> [s \in S |-> ReadBackground(s, list[k])]]
           read[k \in 0..n] == IF k = 0 THEN Reading(r) ELSE ReadBackground(read[k - 1], list[k])
<1>1. n \in Nat
  OBVIOUS
<1>2. \A k \in 1..n, s \in S : ReadBackground(s, list[k]) \in S
  OBVIOUS
<1>3. g \in Turns(n, S)
  BY <1>2 DEF Turns
<1>4. \A s \in S, k \in 1..n : g[k][s] = ReadBackground(s, list[k])
  OBVIOUS
<1>5. Resolver(r, list) = read[n]
  BY DEF Resolver, ReadBackground
<1> HIDE DEF g, n
<1>7. PICK f : f \in MadeBy(n, S, Reading(r), g)
  BY <1>1, <1>3, Recursion
<1>8. f \in [0..n -> S] /\ f[0] = Reading(r) /\ \A k \in 1..n : f[k] = g[k][f[k - 1]]
  BY <1>7 DEF MadeBy
<1>9. ASSUME NEW k \in 1..n PROVE f[k] = ReadBackground(f[k - 1], list[k])
  <2>1. f[k - 1] \in S
    BY <1>1, <1>8
  <2> QED
    BY <1>4, <1>8, <2>1
<1>10. f = [k \in 0..n |-> IF k = 0 THEN Reading(r) ELSE ReadBackground(f[k - 1], list[k])]
  BY <1>8, <1>9
<1>11. read = [k \in 0..n |-> IF k = 0 THEN Reading(r) ELSE ReadBackground(read[k - 1], list[k])]
  BY <1>10
<1> HIDE DEF read
<1>12. \A k \in 1..n : k \in 0..n /\ k - 1 \in 0..n /\ k # 0
  BY <1>1
<1>13. read[0] = Reading(r) /\ \A k \in 1..n : read[k] = ReadBackground(read[k - 1], list[k])
  <2>1. 0 \in 0..n
    BY <1>1
  <2> QED
    BY <1>11, <1>12, <2>1
<1> DEFINE T == {k \in 0..n : read[k] \in S}
<1>14. 0 \in T /\ \A k \in 1..n : k - 1 \in T => k \in T
  <2>1. 0 \in T
    BY <1>1, <1>13
  <2>2. \A k \in 1..n : k - 1 \in T => k \in T
    BY <1>2, <1>12, <1>13
  <2> QED
    BY <2>1, <2>2
<1> HIDE DEF T
<1>15. \A k \in 0..n : k \in T
  BY <1>1, <1>14, UpTo
<1>16. n \in T
  BY <1>1, <1>15
<1> QED
  BY <1>5, <1>16, Zenon DEF T

LEMMA ResolverType ==
  ASSUME NEW W, NEW r \in Regs(W), NEW list \in Seq(Entries), PlacesIn(list) \subseteq W
  PROVE  /\ Resolver(r, list) \in Readings(W)
         /\ (\A i \in 1..Len(list) : Single(W, list[i].content)) => ~Resolver(r, list).threw
<1>1. Reading(r) \in Readings(W) /\ ~Reading(r).threw
  BY DEF Reading, Readings
<1>2. \A i \in 1..Len(list) : list[i] \in Entries /\ WaypointsIn(Numbered(list[i].content, list[i].path)) \subseteq W
  BY DEF PlacesIn, Range
<1>3. Resolver(r, list) \in Readings(W)
  BY <1>1, <1>2, ReadBackgroundType, ResolvingAll
<1>4. ASSUME \A i \in 1..Len(list) : Single(W, list[i].content) PROVE ~Resolver(r, list).threw
  <2> DEFINE S == {at \in Readings(W) : ~at.threw}
  <2>1. Reading(r) \in S
    BY <1>1
  <2>2. \A i \in 1..Len(list), at \in S : ReadBackground(at, list[i]) \in S
    BY <1>2, <1>4, ReadBackgroundType
  <2> HIDE DEF S
  <2>3. Resolver(r, list) \in S
    BY <2>1, <2>2, ResolvingAll
  <2> QED
    BY <2>3 DEF S
<1> QED
  BY <1>3, <1>4

LEMMA FlattenedType ==
  ASSUME NEW P, NEW ss \in Seq(Seq(P))
  PROVE  FlattenSeq(ss) \in Seq(P)
<1> DEFINE n == Len(ss)
           S == Seq(P)
           g == [k \in 1..n |-> [x \in S |-> x \o ss[k]]]
           flatten[k \in 1..n] == IF k = 1 THEN ss[k] ELSE flatten[k - 1] \o ss[k]
<1>1. n \in Nat /\ \A k \in 1..n : ss[k] \in S
  OBVIOUS
<1>2. \A k \in 1..n, x \in S : x \o ss[k] \in S
  BY <1>1
<1>3. g \in Turns(n, S)
  BY <1>2 DEF Turns
<1>4. \A x \in S, k \in 1..n : g[k][x] = x \o ss[k]
  OBVIOUS
<1>5. <<>> \in S /\ \A x \in S : <<>> \o x = x
  OBVIOUS
<1>6. n # 0 => FlattenSeq(ss) = flatten[n]
  BY DEF FlattenSeq
<1>7. n = 0 => FlattenSeq(ss) = <<>>
  BY DEF FlattenSeq
<1> HIDE DEF g, n, S
<1>8. PICK f : f \in MadeBy(n, S, <<>>, g)
  BY <1>1, <1>3, <1>5, Recursion
<1>9. f \in [0..n -> S] /\ f[0] = <<>> /\ \A k \in 1..n : f[k] = g[k][f[k - 1]]
  BY <1>8 DEF MadeBy
<1>10. \A k \in 1..n : k \in 0..n /\ k - 1 \in 0..n /\ (k # 1 => k - 1 \in 1..n)
  BY <1>1
<1>11. ASSUME NEW k \in 1..n PROVE f[k] = f[k - 1] \o ss[k]
  BY <1>4, <1>9, <1>10
<1> DEFINE h == [k \in 1..n |-> f[k]]
<1>12. h = [k \in 1..n |-> IF k = 1 THEN ss[k] ELSE h[k - 1] \o ss[k]]
  <2>1. ASSUME NEW k \in 1..n PROVE h[k] = IF k = 1 THEN ss[k] ELSE h[k - 1] \o ss[k]
    <3>1. CASE k = 1
      <4>1. k - 1 = 0
        BY <3>1
      <4>2. f[k] = <<>> \o ss[k]
        BY <1>9, <1>11, <4>1
      <4> QED
        BY <1>1, <1>5, <3>1, <4>2
    <3>2. CASE k # 1
      BY <1>10, <1>11, <3>2, Zenon
    <3> QED
      BY <3>1, <3>2
  <2> QED
    BY <2>1
<1>13. flatten = [k \in 1..n |-> IF k = 1 THEN ss[k] ELSE flatten[k - 1] \o ss[k]]
  BY <1>12, Zenon
<1> HIDE DEF flatten, h
<1> DEFINE T == {k \in 0..n : k = 0 \/ flatten[k] \in S}
<1>14. 0 \in T /\ \A k \in 1..n : k - 1 \in T => k \in T
  <2>1. 0 \in T
    BY <1>1
  <2>2. ASSUME NEW k \in 1..n, k - 1 \in T PROVE k \in T
    <3>1. flatten[k] = IF k = 1 THEN ss[k] ELSE flatten[k - 1] \o ss[k]
      BY <1>13
    <3>2. k # 1 => flatten[k - 1] \in S
      BY <1>1, <2>2
    <3>3. flatten[k] \in S
      BY <1>1, <1>2, <3>1, <3>2
    <3> QED
      BY <1>10, <3>3
  <2> QED
    BY <2>1, <2>2
<1> HIDE DEF T
<1>15. \A k \in 0..n : k \in T
  BY <1>1, <1>14, UpTo
<1>16. n # 0 => flatten[n] \in S
  BY <1>1, <1>15 DEF T
<1> QED
  BY <1>5, <1>6, <1>7, <1>16 DEF S

\* What a text whose includes can all be had becomes is of its lines and those of the backgrounds.
LEMMA ExpandType ==
  ASSUME NEW d \in Docs, NEW t \in Seq(Lines), NEW list \in Seq(Entries), Includable(t, list), NEW P,
         Numbered(t, d) \in Seq(P),
         \A i \in 1..Len(list) : \A p \in {d, list[i].path} : Numbered(list[i].content, p) \in Seq(P)
  PROVE  expand(t, d, Named(list)) \in Seq(P)
<1> DEFINE named == Named(list)
           e(i) == named[t[i].name]
           taken(i) == IF t[i].kind # "include" THEN <<Numbered(t, d)[i]>>
                       ELSE Numbered(e(i).content, IF e(i).based THEN e(i).path ELSE d)
<1>1. Len(t) \in Nat /\ DOMAIN t = 1..Len(t) /\ DOMAIN Numbered(t, d) = 1..Len(t)
  BY DEF Numbered
<1>2. ASSUME NEW i \in 1..Len(t), t[i].kind = "include" PROVE \E k \in 1..Len(list) : e(i) = list[k]
  <2> DEFINE J == {j \in DOMAIN list : list[j].path = t[i].name}
  <2>1. Cardinality(J) = 1
    <3>1. t[i].name \in Includes(t)
      BY <1>1, <1>2 DEF Includes
    <3> QED
      BY <3>1 DEF Includable
  <2> HIDE DEF J
  <2>2. J # {}
    <3>1. Cardinality({}) = 0
      BY FS_EmptySet
    <3>2. 1 # 0
      OBVIOUS
    <3> QED
      BY <2>1, <3>1, <3>2, Zenon
  <2>3. PICK j \in DOMAIN list : list[j].path = t[i].name
    BY <2>2 DEF J
  <2>4. list[j] \in Range(list) /\ list[j].path = t[i].name
    BY <2>3 DEF Range
  <2>5. e(i) = CHOOSE x \in Range(list) : x.path = t[i].name
    BY <2>4 DEF Named
  <2>6. e(i) \in Range(list)
    BY <2>4, <2>5
  <2> HIDE DEF e
  <2>7. PICK k \in DOMAIN list : e(i) = list[k]
    BY <2>6 DEF Range
  <2> QED
    BY <2>7
<1>3. ASSUME NEW i \in 1..Len(t) PROVE taken(i) \in Seq(P)
  <2>1. Numbered(t, d)[i] \in P
    BY <1>1
  <2>2. <<Numbered(t, d)[i]>> \in Seq(P)
    BY <2>1
  <2>3. ASSUME t[i].kind = "include" PROVE taken(i) \in Seq(P)
    <3>1. PICK k \in 1..Len(list) : e(i) = list[k]
      BY <1>2, <2>3
    <3> HIDE DEF e
    <3>2. taken(i) = Numbered(list[k].content, IF list[k].based THEN list[k].path ELSE d)
      BY <2>3, <3>1
    <3> QED
      BY <3>2
  <2> QED
    BY <2>2, <2>3
<1>4. expand(t, d, Named(list)) = FlattenSeq([i \in DOMAIN t |-> taken(i)])
  BY DEF expand
<1> HIDE DEF taken
<1>5. [i \in DOMAIN t |-> taken(i)] \in Seq(Seq(P))
  BY <1>1, <1>3
<1> QED
  BY <1>4, <1>5, FlattenedType

\* The entries of a list that are of other paths, in a list that names a path once.
Distinct(l) == \A i, k \in DOMAIN l : l[i].path = l[k].path => i = k

LEMMA OthersAre ==
  ASSUME NEW E, NEW list \in Seq(E), NEW p
  PROVE  /\ Others(list, p) \in Seq(E)
         /\ \A a \in DOMAIN Others(list, p) : \E i \in DOMAIN list : Others(list, p)[a] = list[i] /\ list[i].path # p
         /\ \A i \in DOMAIN list : list[i].path # p => \E a \in DOMAIN Others(list, p) : Others(list, p)[a] = list[i]
         /\ Distinct(list) => Distinct(Others(list, p))
<1> DEFINE n == Len(list)
           S == Seq(E)
           keep(k, s) == IF list[k].path = p THEN s ELSE Append(s, list[k])
           g == [k \in 1..n |-> [s \in S |-> keep(k, s)]]
           kept[k \in 0..n] == IF k = 0 THEN <<>> ELSE IF list[k].path = p THEN kept[k - 1]
                               ELSE Append(kept[k - 1], list[k])
<1>1. n \in Nat /\ DOMAIN list = 1..n /\ \A k \in 1..n : list[k] \in E
  OBVIOUS
<1>2. \A k \in 1..n, s \in S : keep(k, s) \in S
  BY <1>1
<1>3. g \in Turns(n, S)
  BY <1>2 DEF Turns
<1>4. \A s \in S, k \in 1..n : g[k][s] = keep(k, s)
  OBVIOUS
<1>5. Others(list, p) = kept[n]
  BY DEF Others
<1>6. <<>> \in S
  OBVIOUS
<1> HIDE DEF g, n, S
<1>7. PICK f : f \in MadeBy(n, S, <<>>, g)
  BY <1>1, <1>3, <1>6, Recursion
<1>8. f \in [0..n -> S] /\ f[0] = <<>> /\ \A k \in 1..n : f[k] = g[k][f[k - 1]]
  BY <1>7 DEF MadeBy
<1>9. ASSUME NEW k \in 1..n PROVE f[k] = keep(k, f[k - 1])
  <2>1. f[k - 1] \in S
    BY <1>1, <1>8
  <2> QED
    BY <1>4, <1>8, <2>1
<1>10. f = [k \in 0..n |-> IF k = 0 THEN <<>> ELSE IF list[k].path = p THEN f[k - 1] ELSE Append(f[k - 1], list[k])]
  <2>1. ASSUME NEW k \in 0..n
        PROVE  f[k] = IF k = 0 THEN <<>> ELSE IF list[k].path = p THEN f[k - 1] ELSE Append(f[k - 1], list[k])
    <3>1. k = 0 \/ k \in 1..n
      BY <1>1
    <3>2. k \in 1..n => k # 0
      BY <1>1
    <3> QED
      BY <1>8, <1>9, <3>1, <3>2, Zenon
  <2> QED
    BY <1>8, <2>1
<1>11. kept = [k \in 0..n |-> IF k = 0 THEN <<>> ELSE IF list[k].path = p THEN kept[k - 1]
                               ELSE Append(kept[k - 1], list[k])]
  BY <1>10, Zenon
<1> HIDE DEF kept
<1>12. \A k \in 1..n : k \in 0..n /\ k - 1 \in 0..n /\ k # 0 /\ k \in Nat
  BY <1>1
<1>13. kept[0] = <<>> /\ \A k \in 1..n : kept[k] = keep(k, kept[k - 1])
  <2>1. 0 \in 0..n
    BY <1>1
  <2> QED
    BY <1>11, <1>12, <2>1
<1> DEFINE From(s, k) == \A a \in 1..Len(s) : \E i \in 1..k : s[a] = list[i] /\ list[i].path # p
           Whole(s, k) == \A i \in 1..k : list[i].path # p => \E a \in 1..Len(s) : s[a] = list[i]
           Once(s) == \A a, c \in 1..Len(s) : s[a].path = s[c].path => a = c
           T == {k \in 0..n : kept[k] \in S /\ From(kept[k], k) /\ Whole(kept[k], k) /\ (Distinct(list) => Once(kept[k]))}
<1>14. 0 \in T
  BY <1>1, <1>6, <1>13
<1>15. ASSUME NEW k \in 1..n, k - 1 \in T PROVE k \in T
  <2> DEFINE s == kept[k - 1]
  <2>1. s \in Seq(E) /\ From(s, k - 1) /\ Whole(s, k - 1) /\ (Distinct(list) => Once(s))
    BY <1>15 DEF S
  <2>2. kept[k] = keep(k, s)
    BY <1>13
  <2>3. \A i \in 1..k - 1 : i \in 1..k /\ i \in 1..n /\ i # k
    BY <1>1, <1>12
  <2>4. \A i \in 1..k : i \in 1..k - 1 \/ i = k
    BY <1>12
  <2>5. k \in 1..k
    BY <1>12
  <2> HIDE DEF s
  <2>6. CASE list[k].path = p
    <3>1. kept[k] = s
      BY <2>2, <2>6
    <3>2. From(s, k)
      BY <2>1, <2>3
    <3>3. Whole(s, k)
      BY <2>1, <2>4, <2>6
    <3> QED
      BY <1>12, <2>1, <3>1, <3>2, <3>3, ZenonT(30) DEF S
  <2>7. CASE list[k].path # p
    <3> DEFINE u == Append(s, list[k])
               m == Len(s)
    <3>1. kept[k] = u
      BY <2>2, <2>7
    <3>2. u \in Seq(E) /\ Len(u) = m + 1 /\ u[m + 1] = list[k] /\ m \in Nat /\ \A a \in 1..m : u[a] = s[a]
      BY <1>1, <2>1
    <3>3. \A a \in 1..m + 1 : a \in 1..m \/ a = m + 1
      BY <3>2
    <3>4. \A a \in 1..m : a \in 1..m + 1
      BY <3>2
    <3>5. m + 1 \in 1..m + 1
      BY <3>2
    <3> HIDE DEF u
    <3>6. From(u, k)
      <4> SUFFICES ASSUME NEW a \in 1..m + 1 PROVE \E i \in 1..k : u[a] = list[i] /\ list[i].path # p
        BY <3>2
      <4>1. CASE a \in 1..m
        BY <2>1, <2>3, <3>2, <4>1
      <4>2. CASE a = m + 1
        BY <2>5, <2>7, <3>2, <4>2
      <4> QED
        BY <3>3, <4>1, <4>2
    <3>7. Whole(u, k)
      <4> SUFFICES ASSUME NEW i \in 1..k, list[i].path # p PROVE \E a \in 1..m + 1 : u[a] = list[i]
        BY <3>2
      <4>1. CASE i \in 1..k - 1
        BY <2>1, <3>2, <3>4, <4>1
      <4>2. CASE i = k
        BY <3>2, <3>5, <4>2
      <4> QED
        BY <2>4, <4>1, <4>2
    <3>8. ASSUME Distinct(list) PROVE Once(u)
      <4>1. ASSUME NEW a \in 1..m PROVE u[a].path # list[k].path
        <5>1. PICK i \in 1..k - 1 : s[a] = list[i]
          BY <2>1, <4>1
        <5>2. i \in DOMAIN list /\ k \in DOMAIN list /\ i # k
          BY <1>1, <2>3
        <5> QED
          BY <3>2, <3>8, <5>1, <5>2 DEF Distinct
      <4> SUFFICES ASSUME NEW a \in 1..m + 1, NEW c \in 1..m + 1, u[a].path = u[c].path PROVE a = c
        BY <3>2
      <4>2. CASE a \in 1..m /\ c \in 1..m
        BY <2>1, <3>2, <3>8, <4>2
      <4> QED
        BY <3>2, <3>3, <4>1, <4>2
    <3> HIDE DEF From, Whole, Once, m
    <3> QED
      BY <1>12, <3>1, <3>2, <3>6, <3>7, <3>8 DEF S
  <2> QED
    BY <2>6, <2>7
<1> HIDE DEF T
<1>16. \A k \in 0..n : k \in T
  BY <1>1, <1>14, <1>15, UpTo
<1>17. n \in T
  BY <1>1, <1>16
<1>18. kept[n] \in Seq(E) /\ From(kept[n], n) /\ Whole(kept[n], n) /\ (Distinct(list) => Once(kept[n]))
  BY <1>17 DEF T, S
<1>19. DOMAIN kept[n] = 1..Len(kept[n])
  BY <1>18
<1> DEFINE others == kept[n]
<1> HIDE DEF others
<1>20. /\ others \in Seq(E) /\ DOMAIN others = 1..Len(others)
       /\ \A a \in 1..Len(others) : \E i \in 1..n : others[a] = list[i] /\ list[i].path # p
       /\ \A i \in 1..n : list[i].path # p => \E a \in 1..Len(others) : others[a] = list[i]
       /\ Distinct(list) => \A a, c \in 1..Len(others) : others[a].path = others[c].path => a = c
  BY <1>18, <1>19 DEF others
<1>21. Distinct(list) => Distinct(others)
  BY <1>20 DEF Distinct
<1>22. Others(list, p) = others
  BY <1>5 DEF others
<1>23. /\ \A a \in DOMAIN others : \E i \in DOMAIN list : others[a] = list[i] /\ list[i].path # p
       /\ \A i \in DOMAIN list : list[i].path # p => \E a \in DOMAIN others : others[a] = list[i]
  BY <1>1, <1>20
<1> HIDE DEF n
<1> QED
  BY <1>20, <1>21, <1>22, <1>23, Zenon

LEMMA ListingOf ==
  ASSUME NEW S, IsFiniteSet(S)
  PROVE  SetToSeq(S) \in Seq(S)
<1>1. Cardinality(S) \in Nat /\ ExistsBijection(1..Cardinality(S), S)
  BY FS_CardinalityType
<1>2. \E f \in [1..Cardinality(S) -> S] : IsInjective(f)
  BY <1>1 DEF ExistsBijection, Bijection, Injection
<1>3. SetToSeq(S) \in [1..Cardinality(S) -> S]
  BY <1>2 DEF SetToSeq
<1> QED
  BY <1>1, <1>3

\* What is on disk.
DiskOK == DOMAIN disk = DOMAIN OnDisk /\ \A b \in DOMAIN disk : IsText(disk[b], b)

LEMMA LoadedType ==
  ASSUME DiskOK
  PROVE  loadBackgroundsFromPath \in Seq(Entries)
<1> DEFINE files == SetToSeq(DOMAIN disk)
<1>1. IsFiniteSet(DOMAIN disk) /\ DOMAIN disk \subseteq Backgrounds
  BY LanguageServerAssumption, FS_Subset DEF DiskOK
<1>2. files \in Seq(DOMAIN disk)
  BY <1>1, ListingOf
<1> HIDE DEF files
<1>3. ASSUME NEW i \in DOMAIN files PROVE [path |-> files[i], content |-> disk[files[i]], based |-> TRUE] \in Entries
  <2>1. files[i] \in DOMAIN disk
    BY <1>2
  <2>2. files[i] \in Backgrounds /\ files[i] \in Docs /\ IsText(disk[files[i]], files[i])
    BY <1>1, <2>1 DEF DiskOK, Docs
  <2>3. disk[files[i]] \in Seq(Lines)
    BY <2>2, TextIs
  <2> QED
    BY <2>2, <2>3 DEF Entries
<1>4. loadBackgroundsFromPath = [i \in DOMAIN files |-> [path |-> files[i], content |-> disk[files[i]], based |-> TRUE]]
  BY DEF loadBackgroundsFromPath, files
<1> QED
  BY <1>2, <1>3, <1>4

-----------------------------------------------------------------------------
(* The invariant. A processing is of a document that is served and has its   *)
(* present text; what waits for one (a document behind a background, one     *)
(* whose entry or answer is of an older text) has one under way or to come.  *)

Stages == {"start", "reparse", "resolve", "publish"}
JobSet == [doc : Docs, at : Stages, text : Seq(Lines), list : Seq(Entries), next : Nat \ {0},
           answer : SUBSET [number : Nat, name : STRING]]

ServerTypes ==
  /\ Open \subseteq Docs /\ \A d \in Open : text[d] \in Drafts[d]
  /\ DiskOK /\ unsent \subseteq Docs /\ timers \subseteq Backgrounds /\ behind \subseteq Open /\ unread \subseteq Features
  /\ backgrounds \in Seq(Entries)
  /\ workspace = <<>> \/ \E l \in Seq(Entries) : workspace = <<l>>
  /\ reg \in Regs(places) /\ jobs \in SUBSET JobSet
  /\ DOMAIN cache \subseteq Docs /\ DOMAIN shown \subseteq Docs
  /\ client \in {"running", "waiting", "error"} /\ retryCount \in 0..MAX_RETRIES + 1
  /\ client # "error" => retryCount <= MAX_RETRIES

JobsInv ==
  /\ jobs # {} => client = "running"
  /\ \A j, k \in jobs : j.doc = k.doc => j = k
  /\ \A j \in jobs :
       /\ j.doc \in Served /\ j.text = text[j.doc]
       /\ j.at = "reparse" => j.doc \in Backgrounds
       /\ j.at = "resolve" => \A i \in DOMAIN j.list : j.list[i].content \in AppliedTexts(j.doc)

Waits(d) ==
  \/ d \in unsent
  \/ \E j \in jobs : j.doc = d /\ j.at # "publish"
  \/ \E b \in timers : b # d
  \/ \E j \in jobs : j.at = "reparse" /\ j.doc # d
BehindInv == \A d \in behind : Waits(d)

Starting(b) == \E j \in jobs : j.doc = b /\ j.at = "start"
Listed(b) == \E i \in DOMAIN backgrounds : backgrounds[i] = [path |-> b, content |-> text[b], based |-> FALSE]
ListInv ==
  /\ Distinct(backgrounds)
  /\ client = "running" => \A b \in Served \cap Backgrounds : Starting(b) \/ Listed(b)

UnderWay(d) == \E j \in jobs : j.doc = d
AnswerInv ==
  client = "running" => \A d \in Served : Settled(d) => Answered(d) \/ UnderWay(d)

ServerInv == ServerTypes /\ JobsInv /\ BehindInv /\ ListInv /\ AnswerInv

LEMMA ServerInvInit == ServerInit => ServerInv
<1> SUFFICES ASSUME ServerInit PROVE ServerInv
  OBVIOUS
<1> USE DEF ServerInit
<1>1. Open = {} /\ DOMAIN cache = {} /\ DOMAIN shown = {}
  BY EmptyIs DEF Open
<1>2. DiskOK
  BY DEF DiskOK, IsText
<1>3. reg \in Regs(places)
  BY FreshType
<1>4. retryCount \in 0..MAX_RETRIES + 1 /\ retryCount <= MAX_RETRIES
  BY LanguageServerAssumption
<1>5. backgrounds \in Seq(Entries)
  OBVIOUS
<1>6. ServerTypes
  BY <1>1, <1>2, <1>3, <1>4, <1>5 DEF ServerTypes
<1>7. JobsInv /\ BehindInv
  BY DEF JobsInv, BehindInv
<1>8. ListInv
  BY <1>1 DEF ListInv, Distinct, Served
<1>9. AnswerInv
  BY <1>1 DEF AnswerInv, Served
<1> QED
  BY <1>6, <1>7, <1>8, <1>9 DEF ServerInv

\* A map that is given one more value.
LEMMA OverIs ==
  ASSUME NEW f, NEW d, NEW t
  PROVE  /\ DOMAIN Over(f, [x \in {d} |-> t]) = DOMAIN f \cup {d}
         /\ Over(f, [x \in {d} |-> t])[d] = t
         /\ \A x \in DOMAIN f \ {d} : Over(f, [y \in {d} |-> t])[x] = f[x]
BY DEF Over

LEMMA StartJob ==
  ASSUME NEW d \in Docs, NEW t \in Drafts[d]
  PROVE  Start(d, t) \in JobSet /\ Start(d, t).doc = d /\ Start(d, t).at = "start" /\ Start(d, t).text = t
<1>1. t \in Seq(Lines) /\ <<>> \in Seq(Entries)
  BY LanguageServerAssumption
<1>2. {} \in SUBSET [number : Nat, name : STRING] /\ "start" \in Stages /\ 1 \in Nat \ {0}
  BY DEF Stages
<1> QED
  BY <1>1, <1>2 DEF Start, JobSet

\* What a processing is of.
LEMMA JobIs ==
  ASSUME ServerInv, NEW j \in jobs
  PROVE  /\ j \in JobSet /\ j.doc \in Docs /\ j.doc \in Open /\ j.doc \in Served /\ j.text = text[j.doc]
         /\ j.text \in Drafts[j.doc] /\ IsText(j.text, j.doc) /\ j.list \in Seq(Entries) /\ client = "running"
<1>1. j \in JobSet /\ j.doc \in Served /\ j.text = text[j.doc] /\ client = "running"
  BY DEF ServerInv, ServerTypes, JobsInv
<1>2. j.doc \in Open /\ j.doc \in Docs /\ j.text \in Drafts[j.doc]
  BY <1>1 DEF Served, ServerInv, ServerTypes
<1>3. j.list \in Seq(Entries)
  BY <1>1 DEF JobSet
<1> QED
  BY <1>1, <1>2, <1>3 DEF IsText

LEMMA MovedJob ==
  ASSUME NEW j \in JobSet, NEW at \in Stages, NEW list \in Seq(Entries)
  PROVE  LET k == [j EXCEPT !.at = at, !.list = list]
         IN  k \in JobSet /\ k.doc = j.doc /\ k.at = at /\ k.text = j.text /\ k.list = list
BY DEF JobSet

LEMMA NextJob ==
  ASSUME NEW j \in JobSet
  PROVE  LET k == [j EXCEPT !.next = @ + 1]
         IN  k \in JobSet /\ k.doc = j.doc /\ k.at = j.at /\ k.text = j.text /\ k.list = j.list
BY DEF JobSet

LEMMA AnsweredJob ==
  ASSUME NEW j \in JobSet, NEW answer \in SUBSET [number : Nat, name : STRING]
  PROVE  LET k == [j EXCEPT !.at = "publish", !.answer = answer]
         IN  k \in JobSet /\ k.doc = j.doc /\ k.at = "publish" /\ k.text = j.text
BY DEF JobSet, Stages

LEMMA AppliedKept ==
  ASSUME UNCHANGED <<backgrounds, workspace, unread>>
  PROVE  \A d : AppliedTexts(d)' = AppliedTexts(d)
BY DEF AppliedTexts

\* A document whose outcomes were read at one place each is resolved to its end.
LEMMA Resolving ==
  ASSUME ServerInv, NEW j \in jobs, Resolve(j)
  PROVE  \E read \in Readings(places') :
            /\ reg' = read.reg
            /\ IF read.threw THEN Done(j) ELSE To(j, [j EXCEPT !.at = "publish", !.answer = read.errors])
            /\ Settled(j.doc)' => ~read.threw
<1> DEFINE inner == Resolver(startFeatureResolution(reg, j.doc), j.list)
           lines == expand(j.text, j.doc, Named(j.list))
           read == IF inner.threw THEN inner ELSE findFeatureStepsTolerant(inner.reg, lines, j.doc)
           W == places'
           calm == \A t \in {j.text} \cup AppliedTexts(j.doc) : Single(W, t)
           P == {x \in LineRecs : calm => SingleLine(W, x)}
<1>1. /\ j \in JobSet /\ j.doc \in Docs /\ j.text = text[j.doc] /\ j.text \in Seq(Lines) /\ j.list \in Seq(Entries)
      /\ reg \in Regs(places) /\ Includable(j.text, j.list)
      /\ \A i \in DOMAIN j.list : j.list[i].content \in AppliedTexts(j.doc)
  BY JobIs, TextIs DEF ServerInv, ServerTypes, JobsInv, Resolve
<1>2. /\ W = places \cup PlacesIn(j.list) \cup WaypointsIn(lines)
      /\ UNCHANGED <<text, backgrounds, workspace, unread>>
  BY DEF Resolve, Rest
<1>3. Settled(j.doc)' => calm
  <2>1. text'[j.doc] = j.text /\ AppliedTexts(j.doc)' = AppliedTexts(j.doc)
    BY <1>1, <1>2, AppliedKept
  <2>2. Settled(j.doc)' => \A t \in {j.text} \cup AppliedTexts(j.doc) :
                              \A p, q \in W : p.name = q.name /\ p.name \in Outcomes(t) => p = q
    BY <2>1 DEF Settled
  <2>3. ASSUME NEW t, \A p, q \in W : p.name = q.name /\ p.name \in Outcomes(t) => p = q PROVE Single(W, t)
    BY <2>3 DEF Single, OneSite
  <2> HIDE DEF W
  <2> QED
    BY <2>2, <2>3
<1>4. /\ \A i \in 1..Len(j.list) : j.list[i] \in Entries /\ (calm => Single(W, j.list[i].content))
      /\ calm => Single(W, j.text)
  <2> HIDE DEF W
  <2> QED
    BY <1>1
<1> HIDE DEF W, calm
<1>5. startFeatureResolution(reg, j.doc) \in Regs(W)
  <2>1. reg \in Regs(W)
    BY <1>1, <1>2, RegsGrow
  <2> QED
    BY <1>1, <2>1, StartType
<1>6. inner \in Readings(W) /\ (calm => ~inner.threw)
  <2>1. PlacesIn(j.list) \subseteq W
    BY <1>2
  <2> QED
    BY <1>1, <1>4, <1>5, <2>1, ResolverType
<1>7. ASSUME NEW d \in Docs, NEW t \in Seq(Lines), calm => Single(W, t) PROVE Numbered(t, d) \in Seq(P)
  <2>1. /\ Numbered(t, d) \in Seq(LineRecs) /\ Len(Numbered(t, d)) = Len(t)
        /\ calm => \A i \in 1..Len(t) : SingleLine(W, Numbered(t, d)[i])
    BY <1>7, NumberedType
  <2> QED
    BY <2>1
<1>8. lines \in Seq(P)
  <2>1. Numbered(j.text, j.doc) \in Seq(P)
    BY <1>1, <1>4, <1>7
  <2>2. \A i \in 1..Len(j.list) : \A p \in {j.doc, j.list[i].path} : Numbered(j.list[i].content, p) \in Seq(P)
    <3> SUFFICES ASSUME NEW i \in 1..Len(j.list), NEW p \in {j.doc, j.list[i].path}
                 PROVE  Numbered(j.list[i].content, p) \in Seq(P)
      OBVIOUS
    <3>1. p \in Docs /\ j.list[i].content \in Seq(Lines)
      BY <1>1, <1>4, EntryIs
    <3> HIDE DEF P
    <3> QED
      BY <1>4, <1>7, <3>1
  <2> HIDE DEF P
  <2> QED
    BY <1>1, <2>1, <2>2, ExpandType
<1> HIDE DEF inner, lines
<1>9. lines \in Seq(LineRecs) /\ (calm => \A i \in 1..Len(lines) : SingleLine(W, lines[i])) /\ WaypointsIn(lines) \subseteq W
  <2>1. \A i \in 1..Len(lines) : lines[i] \in P
    BY <1>8
  <2>2. lines \in Seq(LineRecs)
    BY <1>8
  <2>3. WaypointsIn(lines) \subseteq W
    BY <1>2
  <2> QED
    BY <2>1, <2>2, <2>3
<1>10. inner.reg \in Regs(W)
  BY <1>6 DEF Readings
<1>11. /\ findFeatureStepsTolerant(inner.reg, lines, j.doc) \in Readings(W)
       /\ calm => ~findFeatureStepsTolerant(inner.reg, lines, j.doc).threw
  BY <1>1, <1>9, <1>10, ReadingType
<1>12. read \in Readings(W) /\ (calm => ~read.threw)
  BY <1>6, <1>11
<1>13. reg' = read.reg /\ IF read.threw THEN Done(j) ELSE To(j, [j EXCEPT !.at = "publish", !.answer = read.errors])
  BY DEF Resolve, inner, lines
<1> HIDE DEF read
<1> QED
  BY <1>3, <1>12, <1>13 DEF W

-----------------------------------------------------------------------------
(* A step of a processing j: the documents stay as they are, and so do the   *)
(* other processings.                                                       *)

Steady(j) ==
  /\ UNCHANGED Rest /\ jobs \ {j} \subseteq jobs' /\ places \subseteq places'
  /\ \A d \in Docs \ {j.doc} : AppliedTexts(d) \subseteq AppliedTexts(d)'

LEMMA SteadyKept ==
  ASSUME NEW j, UNCHANGED Rest, jobs \ {j} \subseteq jobs', places \subseteq places',
         UNCHANGED <<backgrounds, workspace, unread>>
  PROVE  Steady(j)
BY AppliedKept DEF Steady

LEMMA JobsMove ==
  ASSUME ServerInv, NEW j \in jobs, Steady(j), NEW k \in JobSet, jobs' = (jobs \ {j}) \cup {k},
         k.doc = j.doc, k.text = j.text, k.at = "reparse" => k.doc \in Backgrounds,
         k.at = "resolve" => \A i \in DOMAIN k.list : k.list[i].content \in AppliedTexts(k.doc)'
  PROVE  jobs' \in SUBSET JobSet /\ JobsInv'
<1>1. /\ jobs \in SUBSET JobSet /\ client = "running" /\ j.doc \in Served /\ j.text = text[j.doc]
      /\ UNCHANGED <<text, unsent, client>>
  BY JobIs DEF ServerInv, ServerTypes, Steady, Rest
<1>2. Served' = Served
  BY <1>1 DEF Served, Open
<1>3. ASSUME NEW x \in jobs, x # j
      PROVE  /\ x.doc \in Served /\ x.text = text[x.doc] /\ (x.at = "reparse" => x.doc \in Backgrounds)
             /\ x.at = "resolve" => \A i \in DOMAIN x.list : x.list[i].content \in AppliedTexts(x.doc)'
             /\ x.doc # j.doc
  <2>1. /\ x.doc \in Served /\ x.text = text[x.doc] /\ (x.at = "reparse" => x.doc \in Backgrounds) /\ x.doc # j.doc
        /\ x.at = "resolve" => \A i \in DOMAIN x.list : x.list[i].content \in AppliedTexts(x.doc)
    BY <1>3 DEF ServerInv, JobsInv
  <2>2. AppliedTexts(x.doc) \subseteq AppliedTexts(x.doc)'
    BY <2>1, JobIs DEF Steady
  <2> QED
    BY <2>1, <2>2
<1>4. \A x, y \in jobs : x.doc = y.doc => x = y
  BY DEF ServerInv, JobsInv
<1>5. \A x, y \in jobs' : x.doc = y.doc => x = y
  BY <1>1, <1>3, <1>4
<1> QED
  BY <1>1, <1>2, <1>3, <1>5 DEF JobsInv

LEMMA JobsDone ==
  ASSUME ServerInv, NEW j \in jobs, Steady(j), Done(j)
  PROVE  jobs' \in SUBSET JobSet /\ JobsInv'
<1>1. /\ jobs \in SUBSET JobSet /\ client = "running" /\ UNCHANGED <<text, unsent, client>> /\ jobs' = jobs \ {j}
  BY JobIs DEF ServerInv, ServerTypes, Steady, Rest, Done
<1>2. Served' = Served
  BY <1>1 DEF Served, Open
<1>3. ASSUME NEW x \in jobs, x # j
      PROVE  /\ x.doc \in Served /\ x.text = text[x.doc] /\ (x.at = "reparse" => x.doc \in Backgrounds)
             /\ x.at = "resolve" => \A i \in DOMAIN x.list : x.list[i].content \in AppliedTexts(x.doc)'
             /\ x.doc # j.doc
  <2>1. /\ x.doc \in Served /\ x.text = text[x.doc] /\ (x.at = "reparse" => x.doc \in Backgrounds) /\ x.doc # j.doc
        /\ x.at = "resolve" => \A i \in DOMAIN x.list : x.list[i].content \in AppliedTexts(x.doc)
    BY <1>3 DEF ServerInv, JobsInv
  <2>2. AppliedTexts(x.doc) \subseteq AppliedTexts(x.doc)'
    BY <2>1, JobIs DEF Steady
  <2> QED
    BY <2>1, <2>2
<1>4. \A x, y \in jobs : x.doc = y.doc => x = y
  BY DEF ServerInv, JobsInv
<1>5. \A x, y \in jobs' : x.doc = y.doc => x = y
  BY <1>1, <1>3, <1>4
<1> QED
  BY <1>1, <1>2, <1>3, <1>5 DEF JobsInv

LEMMA BehindMove ==
  ASSUME ServerInv, NEW j \in jobs, Steady(j), timers \subseteq timers',
         \A d \in behind' : \/ d \in behind /\ ~(j.doc = d /\ j.at # "publish") /\ ~(j.at = "reparse" /\ j.doc # d)
                            \/ Waits(d)'
  PROVE  BehindInv'
<1> SUFFICES ASSUME NEW d \in behind', d \in behind, ~(j.doc = d /\ j.at # "publish"), ~(j.at = "reparse" /\ j.doc # d)
             PROVE  Waits(d)'
  BY DEF BehindInv
<1>1. Waits(d)
  BY DEF ServerInv, BehindInv
<1>2. unsent' = unsent
  BY DEF Steady, Rest
<1>3. CASE d \in unsent
  BY <1>2, <1>3 DEF Waits
<1>4. CASE \E b \in timers : b # d
  BY <1>4 DEF Waits
<1>5. ASSUME NEW x \in jobs, (x.doc = d /\ x.at # "publish") \/ (x.at = "reparse" /\ x.doc # d) PROVE Waits(d)'
  <2>1. x # j
    BY <1>5
  <2>2. x \in jobs'
    BY <2>1 DEF Steady
  <2> QED
    BY <1>5, <2>2 DEF Waits
<1> QED
  BY <1>1, <1>3, <1>4, <1>5 DEF Waits

LEMMA ListMove ==
  ASSUME ServerInv, NEW j \in jobs, Steady(j), backgrounds' = backgrounds, ~(j.at = "start" /\ j.doc \in Backgrounds)
  PROVE  ListInv'
<1>1. UNCHANGED <<text, unsent, client>>
  BY DEF Steady, Rest
<1>2. Served' = Served
  BY <1>1 DEF Served, Open
<1>3. Distinct(backgrounds) /\ (client = "running" => \A b \in Served \cap Backgrounds : Starting(b) \/ Listed(b))
  BY DEF ServerInv, ListInv
<1>4. ASSUME NEW b \in Backgrounds, Starting(b) PROVE Starting(b)'
  <2>1. PICK x \in jobs : x.doc = b /\ x.at = "start"
    BY <1>4 DEF Starting
  <2>2. x \in jobs'
    BY <2>1 DEF Steady
  <2> QED
    BY <2>1, <2>2 DEF Starting
<1>5. ASSUME NEW b, Listed(b) PROVE Listed(b)'
  BY <1>1, <1>5 DEF Listed
<1>6. Distinct(backgrounds)'
  BY <1>3
<1> QED
  BY <1>1, <1>2, <1>3, <1>4, <1>5, <1>6 DEF ListInv

\* What is settled when more has been read was settled before.
LEMMA SettledBefore ==
  ASSUME NEW d, text'[d] = text[d], AppliedTexts(d) \subseteq AppliedTexts(d)', places \subseteq places', Settled(d)'
  PROVE  Settled(d)
<1>1. \A t \in {text'[d]} \cup AppliedTexts(d)' : \A p, q \in places' : p.name = q.name /\ p.name \in Outcomes(t) => p = q
  BY DEF Settled
<1> QED
  BY <1>1 DEF Settled

LEMMA AnswerMove ==
  ASSUME ServerInv, NEW j \in jobs, Steady(j), Settled(j.doc)' => UnderWay(j.doc)' \/ Answered(j.doc)',
         \A d \in Docs \ {j.doc} : /\ d \in DOMAIN shown => d \in DOMAIN shown' /\ shown'[d] = shown[d]
                                   /\ d \in DOMAIN cache => d \in DOMAIN cache' /\ cache'[d] = cache[d]
  PROVE  AnswerInv'
<1>1. UNCHANGED <<text, unsent, client>>
  BY DEF Steady, Rest
<1>2. Served' = Served /\ Served \subseteq Docs
  BY <1>1 DEF Served, Open, ServerInv, ServerTypes
<1> SUFFICES ASSUME client = "running", NEW d \in Served, Settled(d)', d # j.doc
             PROVE  Answered(d)' \/ UnderWay(d)'
  BY <1>1, <1>2 DEF AnswerInv
<1>3. Settled(d)
  <2>1. AppliedTexts(d) \subseteq AppliedTexts(d)' /\ places \subseteq places'
    BY <1>2 DEF Steady
  <2> QED
    BY <1>1, <2>1, SettledBefore
<1>4. Answered(d) \/ UnderWay(d)
  BY <1>3 DEF ServerInv, AnswerInv
<1>5. CASE UnderWay(d)
  BY <1>5 DEF UnderWay, Steady
<1>6. CASE Answered(d)
  BY <1>1, <1>2, <1>6 DEF Answered
<1> QED
  BY <1>4, <1>5, <1>6

\* What stays in a step of a processing, apart from what it sets.
LEMMA TypesMove ==
  ASSUME ServerInv, NEW j \in jobs, Steady(j), jobs' \in SUBSET JobSet, reg' \in Regs(places'),
         backgrounds' \in Seq(Entries), timers' \subseteq Backgrounds, behind' \subseteq Open, unread' \subseteq Features,
         workspace' = <<>> \/ \E l \in Seq(Entries) : workspace' = <<l>>,
         DOMAIN cache' \subseteq Docs, DOMAIN shown' \subseteq Docs
  PROVE  ServerTypes'
<1>1. UNCHANGED <<text, disk, unsent, client, retryCount>> /\ ServerTypes
  BY DEF Steady, Rest, ServerInv
<1>2. DiskOK'
  BY <1>1 DEF ServerTypes, DiskOK
<1>3. Open' = Open
  BY <1>1 DEF Open
<1> QED
  BY <1>1, <1>2, <1>3 DEF ServerTypes

-----------------------------------------------------------------------------
(* The steps of a processing.                                               *)

LEMMA KirejiStep ==
  ASSUME ServerInv, NEW j \in jobs, ProcessTypeScript(j)
  PROVE  ServerInv'
<1>1. /\ j \in JobSet /\ j.doc \in Docs /\ j.text = text[j.doc] /\ j.doc \in Kireji /\ ServerTypes /\ reg \in Regs(places)
      /\ client = "running"
  BY JobIs DEF ProcessTypeScript, ServerInv, ServerTypes
<1>2. /\ Done(j) /\ UNCHANGED Rest /\ UNCHANGED <<backgrounds, workspace, timers, places, unread>> /\ behind' = behind \ {j.doc}
      /\ reg' = startFeatureResolution(reg, j.doc) /\ j.at = "start"
      /\ cache' = Over(cache, [d \in {j.doc} |-> j.text])
      /\ \E errors : shown' = Over(shown, [d \in {j.doc} |-> [text |-> j.text, parsed |-> TRUE, errors |-> errors]])
  BY DEF ProcessTypeScript
<1>3. PICK errors : shown' = Over(shown, [d \in {j.doc} |-> [text |-> j.text, parsed |-> TRUE, errors |-> errors]])
  BY <1>2
<1>4. Steady(j)
  BY <1>2, SteadyKept DEF Done
<1>5. jobs' \in SUBSET JobSet /\ JobsInv'
  BY <1>2, <1>4, JobsDone
<1>6. /\ DOMAIN cache' = DOMAIN cache \cup {j.doc} /\ cache'[j.doc] = j.text
      /\ \A d \in DOMAIN cache \ {j.doc} : cache'[d] = cache[d]
  BY <1>2 DEF Over
<1>7. /\ DOMAIN shown' = DOMAIN shown \cup {j.doc} /\ shown'[j.doc].text = j.text
      /\ \A d \in DOMAIN shown \ {j.doc} : shown'[d] = shown[d]
  BY <1>3 DEF Over
<1>8. reg' \in Regs(places')
  BY <1>1, <1>2, StartType
<1>9. ServerTypes'
  BY <1>1, <1>2, <1>4, <1>5, <1>6, <1>7, <1>8, TypesMove DEF ServerTypes
<1>10. BehindInv'
  BY <1>2, <1>4, BehindMove
<1>11. ~(j.doc \in Backgrounds)
  BY <1>1, LanguageServerAssumption
<1>12. ListInv'
  BY <1>2, <1>4, <1>11, ListMove
<1>13. Answered(j.doc)'
  BY <1>1, <1>2, <1>6, <1>7 DEF Answered, Rest
<1>14. AnswerInv'
  BY <1>4, <1>6, <1>7, <1>13, AnswerMove
<1> QED
  BY <1>5, <1>9, <1>10, <1>12, <1>14 DEF ServerInv

LEMMA UpdateStep ==
  ASSUME ServerInv, NEW j \in jobs, UpdateBackgrounds(j)
  PROVE  ServerInv'
<1> DEFINE others == Others(backgrounds, j.doc)
           entry == [path |-> j.doc, content |-> j.text, based |-> FALSE]
           list == backgrounds'
           k == [j EXCEPT !.at = "reparse", !.list = list]
           m == Len(others)
<1>1. /\ j \in JobSet /\ j.doc \in Docs /\ j.text = text[j.doc] /\ IsText(j.text, j.doc) /\ j.doc \in Backgrounds
      /\ ServerTypes /\ reg \in Regs(places) /\ backgrounds \in Seq(Entries) /\ Distinct(backgrounds) /\ client = "running"
  BY JobIs DEF UpdateBackgrounds, ServerInv, ServerTypes, ListInv
<1>2. /\ backgrounds' = Append(others, entry) /\ reg' = clearAllBackgroundSteps(reg) /\ j.at = "start"
      /\ behind' = IF backgrounds' = backgrounds THEN behind ELSE behind \cup (Open \ {j.doc})
      /\ jobs' = (jobs \ {j}) \cup {k} /\ UNCHANGED Rest /\ UNCHANGED <<workspace, timers, cache, shown, places, unread>>
  BY DEF UpdateBackgrounds, To
<1>3. /\ others \in Seq(Entries) /\ Distinct(others)
      /\ \A a \in DOMAIN others : \E i \in DOMAIN backgrounds : others[a] = backgrounds[i] /\ backgrounds[i].path # j.doc
      /\ \A i \in DOMAIN backgrounds : backgrounds[i].path # j.doc => \E a \in DOMAIN others : others[a] = backgrounds[i]
  <2>1. backgrounds \in Seq(Entries) /\ Distinct(backgrounds)
    BY <1>1
  <2>2. Others(backgrounds, j.doc) \in Seq(Entries)
    BY <2>1, OthersAre
  <2>3. Distinct(backgrounds) => Distinct(Others(backgrounds, j.doc))
    BY <2>1, OthersAre
  <2>4. \A a \in DOMAIN Others(backgrounds, j.doc) : \E i \in DOMAIN backgrounds :
           Others(backgrounds, j.doc)[a] = backgrounds[i] /\ backgrounds[i].path # j.doc
    BY <2>1, OthersAre
  <2>5. \A i \in DOMAIN backgrounds : backgrounds[i].path # j.doc =>
           \E a \in DOMAIN Others(backgrounds, j.doc) : Others(backgrounds, j.doc)[a] = backgrounds[i]
    BY <2>1, OthersAre
  <2> QED
    BY <2>1, <2>2, <2>3, <2>4, <2>5
<1>4. entry \in Entries
  BY <1>1, TextIs DEF Entries
<1> HIDE DEF others
<1>5. /\ backgrounds' \in Seq(Entries) /\ DOMAIN backgrounds' = 1..m + 1 /\ DOMAIN others = 1..m /\ m \in Nat
      /\ backgrounds'[m + 1] = entry /\ \A a \in 1..m : backgrounds'[a] = others[a]
  BY <1>2, <1>3, <1>4
<1>6. k \in JobSet /\ k.doc = j.doc /\ k.at = "reparse" /\ k.text = j.text
  <2>1. list \in Seq(Entries) /\ "reparse" \in Stages
    BY <1>5 DEF Stages
  <2> HIDE DEF list
  <2>2. k \in JobSet /\ k.doc = j.doc /\ k.at = "reparse" /\ k.text = j.text /\ k.list = list
    BY <1>1, <2>1, MovedJob DEF Stages
  <2> QED
    BY <2>2
<1> HIDE DEF k, list
<1>7. Steady(j)
  <2>1. ASSUME NEW d \in Docs PROVE AppliedTexts(d) \subseteq AppliedTexts(d)'
    <3>1. CASE d \in Alone \cup unread
      <4>1. AppliedTexts(d) = UNION {Texts(e.path) : e \in Range(backgrounds)}
        BY <3>1 DEF AppliedTexts
      <4>2. AppliedTexts(d)' = UNION {Texts(e.path) : e \in Range(backgrounds')}
        BY <1>2, <3>1 DEF AppliedTexts
      <4>3. ASSUME NEW e \in Range(backgrounds) PROVE \E f \in Range(backgrounds') : f.path = e.path
        <5>1. PICK i \in DOMAIN backgrounds : e = backgrounds[i]
          BY <4>3 DEF Range
        <5>2. CASE e.path = j.doc
          <6>1. m + 1 \in DOMAIN backgrounds' /\ backgrounds'[m + 1].path = e.path
            BY <1>5, <5>2
          <6> QED
            BY <6>1 DEF Range
        <5>3. CASE e.path # j.doc
          <6>1. PICK a \in DOMAIN others : others[a] = backgrounds[i]
            BY <1>3, <5>1, <5>3
          <6>2. a \in DOMAIN backgrounds' /\ backgrounds'[a] = e
            BY <1>5, <5>1, <6>1
          <6> QED
            BY <6>2 DEF Range
        <5> QED
          BY <5>2, <5>3
      <4> QED
        BY <4>1, <4>2, <4>3
    <3>2. CASE d \notin Alone \cup unread
      BY <1>2, <3>2 DEF AppliedTexts
    <3> QED
      BY <3>1, <3>2
  <2> QED
    BY <1>2, <2>1 DEF Steady
<1>8. jobs' \in SUBSET JobSet /\ JobsInv'
  BY <1>1, <1>2, <1>6, <1>7, JobsMove
<1>9. reg' \in Regs(places')
  BY <1>1, <1>2, ClearType
<1>10. behind' \subseteq Open
  BY <1>1, <1>2 DEF ServerTypes
<1>11. ServerTypes'
  BY <1>1, <1>2, <1>5, <1>7, <1>8, <1>9, <1>10, TypesMove DEF ServerTypes
<1>12. ASSUME NEW d \in behind' PROVE Waits(d)'
  BY <1>2, <1>6 DEF Waits
<1>13. BehindInv'
  BY <1>12 DEF BehindInv
<1>14. Distinct(backgrounds)'
  <2>1. ASSUME NEW a \in 1..m PROVE others[a].path # j.doc
    BY <1>3, <1>5
  <2> SUFFICES ASSUME NEW a \in 1..m + 1, NEW c \in 1..m + 1, backgrounds'[a].path = backgrounds'[c].path PROVE a = c
    BY <1>5 DEF Distinct
  <2>2. \A i \in 1..m + 1 : i \in 1..m \/ i = m + 1
    BY <1>5
  <2>3. CASE a \in 1..m /\ c \in 1..m
    <3>1. a \in DOMAIN others /\ c \in DOMAIN others /\ others[a].path = others[c].path
      BY <1>5, <2>3
    <3> QED
      BY <1>3, <3>1 DEF Distinct
  <2> QED
    BY <1>5, <2>1, <2>2, <2>3
<1>15. ASSUME NEW b \in Served \cap Backgrounds PROVE Starting(b)' \/ Listed(b)'
  <2>0. text' = text
    BY <1>2 DEF Rest
  <2>1. CASE b = j.doc
    <3>1. m + 1 \in DOMAIN backgrounds' /\ backgrounds'[m + 1] = [path |-> b, content |-> text'[b], based |-> FALSE]
      BY <1>1, <1>5, <2>0, <2>1
    <3> QED
      BY <3>1 DEF Listed
  <2>2. CASE b # j.doc
    <3>1. Starting(b) \/ Listed(b)
      BY <1>1 DEF ServerInv, ListInv
    <3>2. CASE Starting(b)
      <4>1. PICK x \in jobs : x.doc = b /\ x.at = "start"
        BY <3>2 DEF Starting
      <4>2. x \in jobs'
        BY <1>2, <2>2, <4>1
      <4> QED
        BY <4>1, <4>2 DEF Starting
    <3>3. CASE Listed(b)
      <4>1. PICK i \in DOMAIN backgrounds : backgrounds[i] = [path |-> b, content |-> text[b], based |-> FALSE]
        BY <3>3 DEF Listed
      <4>2. backgrounds[i].path # j.doc
        BY <2>2, <4>1
      <4>3. PICK a \in DOMAIN others : others[a] = backgrounds[i]
        BY <1>3, <4>2
      <4>4. a \in DOMAIN backgrounds' /\ backgrounds'[a] = [path |-> b, content |-> text'[b], based |-> FALSE]
        <5>1. a \in 1..m /\ a \in 1..m + 1
          BY <1>5, <4>3
        <5>2. backgrounds'[a] = others[a]
          BY <1>5, <5>1
        <5> QED
          BY <1>5, <2>0, <4>1, <4>3, <5>1, <5>2, Zenon
      <4> QED
        BY <4>4 DEF Listed
    <3> QED
      BY <3>1, <3>2, <3>3
  <2> QED
    BY <2>1, <2>2
<1>16. ListInv'
  <2>1. Served' = Served
    BY <1>2 DEF Served, Open, Rest
  <2> QED
    BY <1>14, <1>15, <2>1 DEF ListInv
<1>17. UnderWay(j.doc)'
  BY <1>2, <1>6 DEF UnderWay
<1>18. AnswerInv'
  BY <1>2, <1>7, <1>17, AnswerMove
<1> QED
  BY <1>8, <1>11, <1>13, <1>16, <1>18 DEF ServerInv

LEMMA ReparseStep ==
  ASSUME ServerInv, NEW j \in jobs, Reparse(j)
  PROVE  ServerInv'
<1> DEFINE k == [j EXCEPT !.next = @ + 1]
           b == j.list[j.next]
<1>1. /\ j \in JobSet /\ j.doc \in Docs /\ j.list \in Seq(Entries) /\ j.at = "reparse" /\ j.doc \in Backgrounds
      /\ j.next \in 1..Len(j.list) /\ ServerTypes /\ reg \in Regs(places)
  <2>1. j.next \in Nat \ {0} /\ j.next <= Len(j.list)
    BY JobIs DEF JobSet, Reparse
  <2> QED
    BY <2>1, JobIs DEF Reparse, ServerInv, ServerTypes, JobsInv
<1>2. /\ reg' = IF Includable(b.content, <<>>)
                THEN findFeatureStepsTolerant(reg, Numbered(b.content, b.path), b.path).reg ELSE reg
      /\ places' = IF Includable(b.content, <<>>)
                   THEN places \cup WaypointsIn(Numbered(b.content, b.path)) ELSE places
      /\ jobs' = (jobs \ {j}) \cup {k} /\ UNCHANGED Rest
      /\ UNCHANGED <<backgrounds, workspace, timers, cache, shown, behind, unread>>
  BY DEF Reparse, To
<1>3. b \in Entries
  BY <1>1
<1> HIDE DEF b
<1>4. b.path \in Docs /\ b.content \in Seq(Lines)
  BY <1>3, EntryIs
<1>5. reg \in Regs(places')
  BY <1>1, <1>2, RegsGrow
<1>6. reg' \in Regs(places')
  <2>1. CASE Includable(b.content, <<>>)
    <3>1. Numbered(b.content, b.path) \in Seq(LineRecs) /\ WaypointsIn(Numbered(b.content, b.path)) \subseteq places'
      BY <1>2, <1>4, <2>1, NumberedType
    <3>2. findFeatureStepsTolerant(reg, Numbered(b.content, b.path), b.path) \in Readings(places')
      BY <1>4, <1>5, <3>1, ReadingType
    <3> QED
      BY <1>2, <2>1, <3>2 DEF Readings
  <2>2. CASE ~Includable(b.content, <<>>)
    BY <1>2, <1>5, <2>2
  <2> QED
    BY <2>1, <2>2
<1>7. k \in JobSet /\ k.doc = j.doc /\ k.at = j.at /\ k.text = j.text /\ k.list = j.list
  BY <1>1, NextJob
<1> HIDE DEF k
<1>8. Steady(j)
  BY <1>2, SteadyKept
<1>9. k.at # "resolve" /\ k.doc \in Backgrounds
  BY <1>1, <1>7
<1>10. jobs' \in SUBSET JobSet /\ JobsInv'
  BY <1>2, <1>7, <1>8, <1>9, JobsMove
<1>11. ServerTypes'
  BY <1>1, <1>2, <1>6, <1>8, <1>10, TypesMove DEF ServerTypes
<1>12. ASSUME NEW d \in behind' PROVE Waits(d)'
  BY <1>1, <1>2, <1>7 DEF Waits
<1>13. BehindInv'
  BY <1>12 DEF BehindInv
<1>14. ListInv'
  BY <1>1, <1>2, <1>8, ListMove
<1>15. UnderWay(j.doc)'
  BY <1>2, <1>7 DEF UnderWay
<1>16. AnswerInv'
  BY <1>2, <1>8, <1>15, AnswerMove
<1> QED
  BY <1>10, <1>11, <1>13, <1>14, <1>16 DEF ServerInv

LEMMA ReparsedStep ==
  ASSUME ServerInv, NEW j \in jobs, Reparsed(j)
  PROVE  ServerInv'
<1> DEFINE list == <<>>
           k == [j EXCEPT !.at = "resolve", !.list = list]
<1>1. j \in JobSet /\ j.at = "reparse" /\ j.doc \in Backgrounds /\ ServerTypes
  BY JobIs DEF Reparsed, ServerInv, JobsInv
<1>2. /\ timers' = timers \cup {j.doc} /\ jobs' = (jobs \ {j}) \cup {k} /\ UNCHANGED Rest
      /\ UNCHANGED <<backgrounds, workspace, reg, cache, shown, behind, places, unread>>
  BY DEF Reparsed, To
<1>3. k \in JobSet /\ k.doc = j.doc /\ k.at = "resolve" /\ k.text = j.text /\ k.list = <<>>
  <2>1. list \in Seq(Entries) /\ "resolve" \in Stages
    BY DEF Stages
  <2> HIDE DEF list
  <2>2. k \in JobSet /\ k.doc = j.doc /\ k.at = "resolve" /\ k.text = j.text /\ k.list = list
    BY <1>1, <2>1, MovedJob DEF Stages
  <2> QED
    BY <2>2 DEF list
<1> HIDE DEF k
<1>4. Steady(j)
  BY <1>2, SteadyKept
<1>5. jobs' \in SUBSET JobSet /\ JobsInv'
  BY <1>1, <1>2, <1>3, <1>4, JobsMove
<1>6. ServerTypes'
  BY <1>1, <1>2, <1>4, <1>5, TypesMove DEF ServerTypes
<1>7. ASSUME NEW d \in behind' PROVE Waits(d)'
  BY <1>2, <1>3 DEF Waits
<1>8. BehindInv'
  BY <1>7 DEF BehindInv
<1>9. ListInv'
  BY <1>1, <1>2, <1>4, ListMove
<1>10. UnderWay(j.doc)'
  BY <1>2, <1>3 DEF UnderWay
<1>11. AnswerInv'
  BY <1>2, <1>4, <1>10, AnswerMove
<1> QED
  BY <1>5, <1>6, <1>8, <1>9, <1>11 DEF ServerInv

LEMMA WorkspaceStep ==
  ASSUME ServerInv, NEW j \in jobs, GetWorkspaceBackgrounds(j)
  PROVE  ServerInv'
<1>1. j \in JobSet /\ j.at = "start" /\ j.doc \in Features /\ j.doc \in Docs /\ ServerTypes /\ DiskOK
  BY JobIs DEF GetWorkspaceBackgrounds, ServerInv, ServerTypes
<1>2. UNCHANGED Rest /\ UNCHANGED <<backgrounds, reg, timers, cache, shown, behind, places>>
  BY DEF GetWorkspaceBackgrounds
<1>3. PICK list \in Seq(Entries) :
         /\ jobs' = (jobs \ {j}) \cup {[j EXCEPT !.at = "resolve", !.list = list]}
         /\ workspace' = workspace \/ workspace = <<>>
         /\ workspace' = <<>> \/ \E l \in Seq(Entries) : workspace' = <<l>>
         /\ unread' \subseteq Features /\ unread' \ {j.doc} = unread \ {j.doc}
         /\ IF j.doc \in Alone \cup unread' THEN list = backgrounds ELSE workspace' = <<list>>
  <2>1. /\ loadBackgroundsFromPath \in Seq(Entries) /\ backgrounds \in Seq(Entries) /\ unread \subseteq Features
        /\ workspace = <<>> \/ \E l \in Seq(Entries) : workspace = <<l>>
    BY <1>1, LoadedType DEF ServerTypes
  <2>2. CASE /\ j.doc \in Alone
             /\ To(j, [j EXCEPT !.at = "resolve", !.list = backgrounds])
             /\ UNCHANGED <<workspace, unread>>
    BY <2>1, <2>2 DEF To
  <2>3. CASE /\ j.doc \notin Alone
             /\ workspace' = IF workspace = <<>> THEN <<loadBackgroundsFromPath>> ELSE workspace
             /\ unread' = unread \ {j.doc}
             /\ To(j, [j EXCEPT !.at = "resolve", !.list = workspace'[1]])
    <3>1. PICK l \in Seq(Entries) : workspace' = <<l>>
      BY <2>1, <2>3
    <3>2. workspace'[1] = l
      BY <3>1
    <3> QED
      BY <2>1, <2>3, <3>1, <3>2 DEF To
  <2>4. CASE /\ j.doc \notin Alone /\ workspace = <<>>
             /\ workspace' \in {<<>>, <<loadBackgroundsFromPath>>}
             /\ unread' = unread \cup {j.doc}
             /\ To(j, [j EXCEPT !.at = "resolve", !.list = backgrounds])
    BY <1>1, <2>1, <2>4 DEF To
  <2> QED
    BY <2>2, <2>3, <2>4 DEF GetWorkspaceBackgrounds
<1> DEFINE k == [j EXCEPT !.at = "resolve", !.list = list]
<1>4. k \in JobSet /\ k.doc = j.doc /\ k.at = "resolve" /\ k.text = j.text /\ k.list = list
  BY <1>1, MovedJob DEF Stages
<1>5. jobs' = (jobs \ {j}) \cup {k}
  BY <1>3
<1> HIDE DEF k
<1>6. Steady(j)
  <2>1. ASSUME NEW d \in Docs \ {j.doc} PROVE AppliedTexts(d) \subseteq AppliedTexts(d)'
    <3>1. d \in Alone \cup unread <=> d \in Alone \cup unread'
      BY <1>3
    <3>2. Range(workspace) \subseteq Range(workspace')
      BY <1>3 DEF Range
    <3> QED
      BY <1>2, <3>1, <3>2 DEF AppliedTexts
  <2> QED
    BY <1>2, <1>5, <2>1 DEF Steady
<1>15. \A i \in DOMAIN k.list : k.list[i].content \in AppliedTexts(k.doc)'
  <2> SUFFICES ASSUME NEW i \in DOMAIN list PROVE list[i].content \in AppliedTexts(j.doc)'
    BY <1>4
  <2>1. list[i] \in Range(list) /\ list[i] \in Entries
    BY DEF Range
  <2>2. CASE j.doc \in Alone \cup unread'
    <3>1. list[i] \in Range(backgrounds') /\ list[i].content \in Texts(list[i].path)
      BY <1>2, <1>3, <2>1, <2>2, EntryIs, IsOneText
    <3> QED
      BY <2>2, <3>1 DEF AppliedTexts
  <2>3. CASE j.doc \notin Alone \cup unread'
    <3>1. list \in Range(workspace')
      BY <1>3, <2>3 DEF Range
    <3>2. AppliedTexts(j.doc)' = UNION {{e.content : e \in Range(l)} : l \in Range(workspace')}
      BY <2>3 DEF AppliedTexts
    <3> QED
      BY <2>1, <3>1, <3>2
  <2> QED
    BY <2>2, <2>3
<1>7. jobs' \in SUBSET JobSet /\ JobsInv'
  BY <1>4, <1>5, <1>6, <1>15, JobsMove
<1>8. ServerTypes'
  BY <1>1, <1>2, <1>3, <1>6, <1>7, TypesMove DEF ServerTypes
<1>9. ASSUME NEW d \in behind', j.doc = d PROVE Waits(d)'
  BY <1>4, <1>5, <1>9 DEF Waits
<1>10. BehindInv'
  BY <1>1, <1>2, <1>6, <1>9, BehindMove
<1>11. ~(j.doc \in Backgrounds)
  BY <1>1, LanguageServerAssumption
<1>12. ListInv'
  BY <1>2, <1>6, <1>11, ListMove
<1>13. UnderWay(j.doc)'
  BY <1>4, <1>5 DEF UnderWay
<1>14. AnswerInv'
  BY <1>2, <1>6, <1>13, AnswerMove
<1> QED
  BY <1>7, <1>8, <1>10, <1>12, <1>14 DEF ServerInv

LEMMA FailStep ==
  ASSUME ServerInv, NEW j \in jobs, FailToParse(j)
  PROVE  ServerInv'
<1>1. j \in JobSet /\ j.at = "resolve" /\ j.doc \in Docs /\ j.text = text[j.doc] /\ ServerTypes
  BY JobIs DEF FailToParse, ServerInv
<1>2. /\ cache' = Without(cache, {j.doc}) /\ behind' = behind \ {j.doc} /\ Done(j) /\ UNCHANGED Rest
      /\ shown' = Over(shown, [d \in {j.doc} |-> [text |-> j.text, parsed |-> FALSE, errors |-> {}]])
      /\ UNCHANGED <<backgrounds, workspace, reg, timers, places, unread>>
  BY DEF FailToParse
<1>3. Steady(j)
  BY <1>2, SteadyKept DEF Done
<1>4. jobs' \in SUBSET JobSet /\ JobsInv'
  BY <1>2, <1>3, JobsDone
<1>5. DOMAIN cache' = DOMAIN cache \ {j.doc} /\ \A d \in DOMAIN cache \ {j.doc} : cache'[d] = cache[d]
  BY <1>2 DEF Without
<1>6. /\ DOMAIN shown' = DOMAIN shown \cup {j.doc}
      /\ shown'[j.doc] = [text |-> j.text, parsed |-> FALSE, errors |-> {}]
      /\ \A d \in DOMAIN shown \ {j.doc} : shown'[d] = shown[d]
  BY <1>2 DEF Over
<1>7. ServerTypes'
  BY <1>1, <1>2, <1>3, <1>4, <1>5, <1>6, TypesMove DEF ServerTypes
<1>8. BehindInv'
  BY <1>1, <1>2, <1>3, BehindMove
<1>9. ListInv'
  BY <1>1, <1>2, <1>3, ListMove
<1>10. Answered(j.doc)'
  <2>1. shown'[j.doc].text = j.text /\ ~shown'[j.doc].parsed /\ text' = text
    BY <1>2, <1>6 DEF Rest
  <2> QED
    BY <1>1, <1>6, <2>1 DEF Answered
<1>11. AnswerInv'
  BY <1>3, <1>5, <1>6, <1>10, AnswerMove
<1> QED
  BY <1>4, <1>7, <1>8, <1>9, <1>11 DEF ServerInv

LEMMA ResolveStep ==
  ASSUME ServerInv, NEW j \in jobs, Resolve(j)
  PROVE  ServerInv'
<1>1. j \in JobSet /\ j.at = "resolve" /\ j.doc \in Docs /\ ServerTypes
  BY JobIs DEF Resolve, ServerInv
<1>2. behind' = behind \ {j.doc} /\ UNCHANGED Rest /\ UNCHANGED <<backgrounds, workspace, timers, cache, shown, unread>>
      /\ places \subseteq places'
  BY DEF Resolve
<1>3. PICK read \in Readings(places') :
         /\ reg' = read.reg
         /\ IF read.threw THEN Done(j) ELSE To(j, [j EXCEPT !.at = "publish", !.answer = read.errors])
         /\ Settled(j.doc)' => ~read.threw
  BY Resolving
<1> DEFINE k == [j EXCEPT !.at = "publish", !.answer = read.errors]
<1>4. reg' \in Regs(places') /\ read.errors \in SUBSET [number : Nat, name : STRING]
  BY <1>3 DEF Readings
<1>5. k \in JobSet /\ k.doc = j.doc /\ k.at = "publish" /\ k.text = j.text
  BY <1>1, <1>4, AnsweredJob
<1>6. IF read.threw THEN Done(j) ELSE jobs' = (jobs \ {j}) \cup {k}
  BY <1>3 DEF To
<1> HIDE DEF k
<1>7. Steady(j)
  BY <1>2, <1>6, SteadyKept DEF Done
<1>8. jobs' \in SUBSET JobSet /\ JobsInv'
  <2>1. CASE read.threw
    BY <1>6, <1>7, <2>1, JobsDone
  <2>2. CASE ~read.threw
    BY <1>5, <1>6, <1>7, <2>2, JobsMove
  <2> QED
    BY <2>1, <2>2
<1>9. ServerTypes'
  BY <1>1, <1>2, <1>4, <1>7, <1>8, TypesMove DEF ServerTypes
<1>10. BehindInv'
  BY <1>1, <1>2, <1>7, BehindMove
<1>11. ListInv'
  BY <1>1, <1>2, <1>7, ListMove
<1>12. Settled(j.doc)' => UnderWay(j.doc)'
  BY <1>3, <1>5, <1>6 DEF UnderWay
<1>13. AnswerInv'
  BY <1>2, <1>7, <1>12, AnswerMove
<1> QED
  BY <1>8, <1>9, <1>10, <1>11, <1>13 DEF ServerInv

LEMMA PublishStep ==
  ASSUME ServerInv, NEW j \in jobs, Publish(j)
  PROVE  ServerInv'
<1>1. j \in JobSet /\ j.at = "publish" /\ j.doc \in Docs /\ j.text = text[j.doc] /\ client = "running" /\ ServerTypes
  BY JobIs DEF Publish, ServerInv
<1>2. /\ cache' = Over(cache, [d \in {j.doc} |-> j.text]) /\ Done(j) /\ UNCHANGED Rest
      /\ shown' = Over(shown, [d \in {j.doc} |-> [text |-> j.text, parsed |-> TRUE, errors |-> j.answer]])
      /\ UNCHANGED <<backgrounds, workspace, reg, timers, behind, places, unread>>
  BY DEF Publish
<1>3. Steady(j)
  BY <1>2, SteadyKept DEF Done
<1>4. jobs' \in SUBSET JobSet /\ JobsInv'
  BY <1>2, <1>3, JobsDone
<1>5. /\ DOMAIN cache' = DOMAIN cache \cup {j.doc} /\ cache'[j.doc] = j.text
      /\ \A d \in DOMAIN cache \ {j.doc} : cache'[d] = cache[d]
  BY <1>2 DEF Over
<1>6. /\ DOMAIN shown' = DOMAIN shown \cup {j.doc} /\ shown'[j.doc].text = j.text
      /\ \A d \in DOMAIN shown \ {j.doc} : shown'[d] = shown[d]
  BY <1>2 DEF Over
<1>7. ServerTypes'
  BY <1>1, <1>2, <1>3, <1>4, <1>5, <1>6, TypesMove DEF ServerTypes
<1>8. BehindInv'
  BY <1>1, <1>2, <1>3, BehindMove
<1>9. ListInv'
  BY <1>1, <1>2, <1>3, ListMove
<1>10. Answered(j.doc)'
  BY <1>1, <1>2, <1>5, <1>6 DEF Answered, Rest
<1>11. AnswerInv'
  BY <1>3, <1>5, <1>6, <1>10, AnswerMove
<1> QED
  BY <1>4, <1>7, <1>8, <1>9, <1>11 DEF ServerInv

-----------------------------------------------------------------------------
(* The steps of the editor, of the timers and of the extension.             *)

\* What holds between two processings.
LEMMA Between ==
  ASSUME ServerInv, Idle
  PROVE  /\ ServerTypes /\ client = "running" /\ jobs = {} /\ Distinct(backgrounds)
         /\ \A d \in behind : d \in unsent \/ \E b \in timers : b # d
         /\ \A b \in Served \cap Backgrounds : Listed(b)
         /\ \A d \in Served : Settled(d) => Answered(d)
         /\ Served \subseteq Docs
BY DEF ServerInv, Idle, BehindInv, Waits, ListInv, Starting, AnswerInv, UnderWay, Served, ServerTypes

LEMMA ChangeStep ==
  ASSUME ServerInv, NEW d \in Docs, NEW t \in Drafts[d], Change(d, t)
  PROVE  ServerInv'
<1> DEFINE k == Start(d, t)
<1>1. /\ ServerTypes /\ client = "running" /\ jobs = {} /\ Distinct(backgrounds) /\ unsent = {} /\ Served = Open
      /\ \A e \in behind : \E b \in timers : b # e
      /\ \A b \in Served \cap Backgrounds : Listed(b)
      /\ \A e \in Served : Settled(e) => Answered(e)
  BY Between DEF Change, Served
<1>2. /\ text' = Over(text, [x \in {d} |-> t]) /\ jobs' = {k}
      /\ UNCHANGED <<disk, unsent, backgrounds, workspace, reg, timers, cache, shown, client, retryCount, behind, places, unread>>
  BY DEF Change
<1>3. Open' = Open \cup {d} /\ text'[d] = t /\ \A x \in Open \ {d} : text'[x] = text[x]
  BY <1>2 DEF Over, Open
<1>4. k \in JobSet /\ k.doc = d /\ k.at = "start" /\ k.text = t
  BY StartJob
<1> HIDE DEF k
<1>5. DiskOK'
  BY <1>1, <1>2 DEF ServerTypes, DiskOK
<1>6. \A e \in Open' : text'[e] \in Drafts[e]
  BY <1>1, <1>3 DEF ServerTypes
<1>7. ServerTypes'
  BY <1>1, <1>2, <1>3, <1>4, <1>5, <1>6 DEF ServerTypes
<1>8. Served' = Open'
  BY <1>1, <1>2 DEF Served
<1>9. JobsInv'
  BY <1>1, <1>2, <1>3, <1>4, <1>8 DEF JobsInv
<1>10. BehindInv'
  BY <1>1, <1>2 DEF BehindInv, Waits
<1>11. ListInv'
  <2>1. Distinct(backgrounds)'
    BY <1>1, <1>2
  <2>2. Starting(d)'
    BY <1>2, <1>4 DEF Starting
  <2>3. ASSUME NEW b \in Open \cap Backgrounds, b # d PROVE Listed(b)'
    BY <1>1, <1>2, <1>3, <2>3 DEF Listed
  <2> QED
    BY <1>3, <1>8, <2>1, <2>2, <2>3 DEF ListInv
<1>12. AnswerInv'
  <2>1. UnderWay(d)'
    BY <1>2, <1>4 DEF UnderWay
  <2>2. ASSUME NEW e \in Open, e # d, Settled(e)' PROVE Answered(e)'
    <3>1. text'[e] = text[e]
      BY <1>3, <2>2
    <3>2. Settled(e)
      BY <1>2, <2>2, <3>1, AppliedKept, SettledBefore
    <3>3. Answered(e)
      BY <1>1, <3>2
    <3> QED
      BY <1>2, <3>1, <3>3 DEF Answered
  <2> QED
    BY <1>3, <1>8, <2>1, <2>2 DEF AnswerInv
<1> QED
  BY <1>7, <1>9, <1>10, <1>11, <1>12 DEF ServerInv

LEMMA UnservedStep ==
  ASSUME ServerInv, NEW d \in Docs, NEW t \in Drafts[d], ChangeUnserved(d, t)
  PROVE  ServerInv'
<1>1. /\ client # "running" /\ d \in Open /\ text' = [text EXCEPT ![d] = t] /\ UNCHANGED server
      /\ UNCHANGED <<disk, unsent, shown, client, retryCount, behind>>
  BY DEF ChangeUnserved
<1>2. jobs = {} /\ ServerTypes /\ Distinct(backgrounds)
  BY <1>1 DEF ServerInv, JobsInv, ListInv
<1>3. Open' = Open /\ \A e \in Open : text'[e] = IF e = d THEN t ELSE text[e]
  BY <1>1 DEF Open
<1>4. DiskOK'
  BY <1>1, <1>2 DEF ServerTypes, DiskOK
<1>5. UNCHANGED <<backgrounds, workspace, reg, jobs, timers, cache, places, unread>>
  BY <1>1 DEF server
<1>6. ServerTypes'
  BY <1>1, <1>2, <1>3, <1>4, <1>5 DEF ServerTypes
<1>7. JobsInv' /\ ListInv' /\ AnswerInv'
  BY <1>1, <1>2, <1>5 DEF JobsInv, ListInv, AnswerInv
<1>8. BehindInv'
  BY <1>1, <1>5 DEF ServerInv, BehindInv, Waits
<1> QED
  BY <1>6, <1>7, <1>8 DEF ServerInv

LEMMA CloseStep ==
  ASSUME ServerInv, NEW d \in Docs, Close(d)
  PROVE  ServerInv'
<1>1. /\ ServerTypes /\ client = "running" /\ jobs = {} /\ Distinct(backgrounds) /\ unsent = {} /\ Served = Open
      /\ \A e \in behind : \E b \in timers : b # e
      /\ \A b \in Served \cap Backgrounds : Listed(b)
      /\ \A e \in Served : Settled(e) => Answered(e)
  BY Between DEF Close, Served
<1>2. /\ text' = Without(text, {d}) /\ behind' = behind \ {d} /\ UNCHANGED <<disk, unsent, shown, client, retryCount>>
      /\ UNCHANGED <<backgrounds, workspace, reg, jobs, timers, cache, places, unread>>
  BY DEF Close, server
<1>3. Open' = Open \ {d} /\ \A e \in Open \ {d} : text'[e] = text[e]
  BY <1>2 DEF Without, Open
<1>4. DiskOK'
  BY <1>1, <1>2 DEF ServerTypes, DiskOK
<1>5. ServerTypes'
  BY <1>1, <1>2, <1>3, <1>4 DEF ServerTypes
<1>6. Served' = Open'
  BY <1>1, <1>2 DEF Served
<1>7. JobsInv'
  BY <1>1, <1>2 DEF JobsInv
<1>8. BehindInv'
  BY <1>1, <1>2 DEF BehindInv, Waits
<1>9. ListInv'
  <2>1. ASSUME NEW b \in (Open \ {d}) \cap Backgrounds PROVE Listed(b)'
    BY <1>1, <1>2, <1>3 DEF Listed
  <2> QED
    BY <1>1, <1>2, <1>3, <1>6, <2>1 DEF ListInv
<1>10. AnswerInv'
  <2>1. ASSUME NEW e \in Open \ {d}, Settled(e)' PROVE Answered(e)'
    <3>1. text'[e] = text[e]
      BY <1>3
    <3>2. Settled(e)
      BY <1>2, <2>1, <3>1, AppliedKept, SettledBefore
    <3>3. Answered(e)
      BY <1>1, <3>2
    <3> QED
      BY <1>2, <3>1, <3>3 DEF Answered
  <2> QED
    BY <1>3, <1>6, <2>1 DEF AnswerInv
<1> QED
  BY <1>5, <1>7, <1>8, <1>9, <1>10 DEF ServerInv

\* Nothing that is said of the documents, the list or the answers has changed.
LEMMA KeptInvs ==
  ASSUME ServerInv, UNCHANGED <<text, unsent, backgrounds, workspace, jobs, timers, cache, shown, client, behind, unread>>,
         places \subseteq places'
  PROVE  JobsInv' /\ BehindInv' /\ ListInv' /\ AnswerInv'
<1>1. Served' = Served /\ \A d : (Starting(d)' <=> Starting(d)) /\ (Listed(d)' <=> Listed(d)) /\ (UnderWay(d)' <=> UnderWay(d))
  BY DEF Served, Open, Starting, Listed, UnderWay
<1>2. \A d : (Settled(d)' => Settled(d)) /\ (Answered(d)' <=> Answered(d)) /\ (Waits(d)' <=> Waits(d))
  BY AppliedKept, SettledBefore DEF Answered, Waits
<1>3. JobsInv'
  BY <1>1, AppliedKept DEF ServerInv, JobsInv
<1>4. Distinct(backgrounds)'
  BY DEF ServerInv, ListInv
<1> QED
  BY <1>1, <1>2, <1>3, <1>4 DEF ServerInv, BehindInv, ListInv, AnswerInv

LEMMA SaveStep ==
  ASSUME ServerInv, NEW b \in Backgrounds, Save(b)
  PROVE  ServerInv'
<1>1. /\ b \in Open \cap DOMAIN disk /\ disk' = [disk EXCEPT ![b] = text[b]]
      /\ UNCHANGED <<text, unsent, shown, client, retryCount, behind>>
      /\ UNCHANGED <<backgrounds, workspace, reg, jobs, timers, cache, places, unread>> /\ ServerTypes
  BY DEF Save, server, ServerInv
<1>2. IsText(text[b], b)
  BY <1>1 DEF ServerTypes, IsText
<1>3. DiskOK'
  BY <1>1, <1>2 DEF ServerTypes, DiskOK
<1>4. Open' = Open
  BY <1>1 DEF Open
<1>5. ServerTypes'
  BY <1>1, <1>3, <1>4 DEF ServerTypes
<1> QED
  BY <1>1, <1>5, KeptInvs DEF ServerInv

LEMMA TokensStep ==
  ASSUME ServerInv, NEW d \in Docs, SemanticTokens(d)
  PROVE  ServerInv'
<1>1. /\ reg' = Resolver(startFeatureResolution(reg, d), backgrounds).reg /\ places' = places \cup PlacesIn(backgrounds)
      /\ UNCHANGED <<text, disk, unsent, backgrounds, workspace, jobs, timers, cache, shown, client, retryCount, behind,
                     unread>>
      /\ ServerTypes /\ reg \in Regs(places) /\ backgrounds \in Seq(Entries)
  BY DEF SemanticTokens, ServerInv, ServerTypes
<1>2. startFeatureResolution(reg, d) \in Regs(places')
  BY <1>1, RegsGrow, StartType
<1>3. Resolver(startFeatureResolution(reg, d), backgrounds) \in Readings(places')
  BY <1>1, <1>2, ResolverType
<1>4. reg' \in Regs(places')
  BY <1>1, <1>3 DEF Readings
<1>5. DiskOK' /\ Open' = Open
  BY <1>1 DEF ServerTypes, DiskOK, Open
<1>6. ServerTypes'
  BY <1>1, <1>4, <1>5 DEF ServerTypes
<1> QED
  BY <1>1, <1>6, KeptInvs DEF ServerInv

LEMMA ReopenStep ==
  ASSUME ServerInv, NEW d \in Docs, Reopen(d)
  PROVE  ServerInv'
<1> DEFINE k == Start(d, text[d])
<1>1. /\ ServerTypes /\ client = "running" /\ jobs = {} /\ Distinct(backgrounds) /\ d \in unsent
      /\ \A e \in behind : e \in unsent \/ \E b \in timers : b # e
      /\ \A b \in Served \cap Backgrounds : Listed(b)
      /\ \A e \in Served : Settled(e) => Answered(e)
  BY Between DEF Reopen
<1>2. /\ unsent' = unsent \ {d} /\ jobs' = IF d \in Open THEN {k} ELSE {}
      /\ UNCHANGED <<text, disk, backgrounds, workspace, reg, timers, cache, shown, client, retryCount, behind, places, unread>>
  BY DEF Reopen
<1>3. d \in Open => text[d] \in Drafts[d]
  BY <1>1 DEF ServerTypes
<1>4. d \in Open => k \in JobSet /\ k.doc = d /\ k.at = "start" /\ k.text = text[d]
  BY <1>3, StartJob
<1> HIDE DEF k
<1>5. DiskOK' /\ Open' = Open
  BY <1>1, <1>2 DEF ServerTypes, DiskOK, Open
<1>6. ServerTypes'
  BY <1>1, <1>2, <1>4, <1>5 DEF ServerTypes
<1>7. Served' = Served \cup ({d} \cap Open)
  BY <1>1, <1>2, <1>5 DEF Served
<1>8. JobsInv'
  BY <1>1, <1>2, <1>4, <1>7 DEF JobsInv
<1>9. d \in Open => Starting(d)' /\ UnderWay(d)' /\ Waits(d)'
  BY <1>2, <1>4 DEF Starting, UnderWay, Waits
<1>10. BehindInv'
  BY <1>1, <1>2, <1>9 DEF BehindInv, Waits, ServerTypes
<1>11. ListInv'
  <2>1. ASSUME NEW b \in Served \cap Backgrounds PROVE Listed(b)'
    BY <1>1, <1>2 DEF Listed
  <2>2. Distinct(backgrounds)'
    BY <1>1, <1>2
  <2> QED
    BY <1>7, <1>9, <2>1, <2>2 DEF ListInv
<1>12. AnswerInv'
  <2>1. ASSUME NEW e \in Served, Settled(e)' PROVE Answered(e)'
    <3>1. Settled(e)
      BY <1>2, <2>1, AppliedKept, SettledBefore
    <3> QED
      BY <1>1, <1>2, <3>1 DEF Answered
  <2> QED
    BY <1>7, <1>9, <2>1 DEF AnswerInv
<1> QED
  BY <1>6, <1>8, <1>10, <1>11, <1>12 DEF ServerInv

LEMMA RevalidateStep ==
  ASSUME ServerInv, NEW b \in Backgrounds, Revalidate(b)
  PROVE  ServerInv'
<1> DEFINE others == (Open \ unsent) \ {b}
<1>1. /\ ServerTypes /\ client = "running" /\ jobs = {} /\ Distinct(backgrounds) /\ b \in timers
      /\ \A e \in behind : e \in unsent \/ \E c \in timers : c # e
      /\ \A c \in Served \cap Backgrounds : Listed(c)
      /\ \A e \in Served : Settled(e) => Answered(e)
  BY Between DEF Revalidate
<1>2. /\ timers' = timers \ {b} /\ jobs' = {Start(d, text[d]) : d \in others}
      /\ UNCHANGED <<text, disk, unsent, backgrounds, workspace, reg, cache, shown, client, retryCount, behind, places, unread>>
  BY DEF Revalidate
<1>3. ASSUME NEW d \in others
      PROVE  /\ Start(d, text[d]) \in JobSet /\ Start(d, text[d]).doc = d /\ Start(d, text[d]).at = "start"
             /\ Start(d, text[d]).text = text[d] /\ d \in Served
  <2>1. d \in Docs /\ text[d] \in Drafts[d] /\ d \in Served
    BY <1>1 DEF ServerTypes, Served
  <2> QED
    BY <2>1, StartJob
<1>4. DiskOK' /\ Open' = Open /\ Served' = Served
  BY <1>1, <1>2 DEF ServerTypes, DiskOK, Open, Served
<1>5. jobs' \in SUBSET JobSet
  BY <1>2, <1>3
<1>6. ServerTypes'
  BY <1>1, <1>2, <1>4, <1>5 DEF ServerTypes
<1>7. JobsInv'
  BY <1>1, <1>2, <1>3, <1>4 DEF JobsInv
<1>8. BehindInv'
  <2> SUFFICES ASSUME NEW d \in behind PROVE Waits(d)'
    BY <1>2 DEF BehindInv
  <2>1. CASE d \in unsent
    BY <1>2, <2>1 DEF Waits
  <2>2. CASE d \notin unsent /\ d = b
    <3>1. PICK c \in timers : c # d
      BY <1>1, <2>2
    <3>2. c \in timers'
      BY <1>2, <2>2, <3>1
    <3> QED
      BY <3>1, <3>2 DEF Waits
  <2>3. CASE d \notin unsent /\ d # b
    <3>1. d \in others
      BY <1>1, <2>3 DEF ServerTypes
    <3>2. Start(d, text[d]) \in jobs'
      BY <1>2, <3>1
    <3> QED
      BY <1>3, <3>1, <3>2 DEF Waits
  <2> QED
    BY <2>1, <2>2, <2>3
<1>9. ListInv'
  <2>1. ASSUME NEW c \in Served \cap Backgrounds PROVE Listed(c)'
    BY <1>1, <1>2 DEF Listed
  <2>2. Distinct(backgrounds)'
    BY <1>1, <1>2
  <2> QED
    BY <1>4, <2>1, <2>2 DEF ListInv
<1>10. AnswerInv'
  <2>1. ASSUME NEW e \in Served, Settled(e)' PROVE Answered(e)'
    <3>1. Settled(e)
      BY <1>2, <2>1, AppliedKept, SettledBefore
    <3> QED
      BY <1>1, <1>2, <3>1 DEF Answered
  <2> QED
    BY <1>4, <2>1 DEF AnswerInv
<1> QED
  BY <1>6, <1>7, <1>8, <1>9, <1>10 DEF ServerInv

LEMMA StopStep ==
  ASSUME ServerInv, ServerStops
  PROVE  ServerInv'
<1>1. /\ client = "running" /\ retryCount' = retryCount + 1
      /\ client' = IF retryCount' <= MAX_RETRIES THEN "waiting" ELSE "error"
      /\ backgrounds' = <<>> /\ workspace' = <<>> /\ reg' = Fresh /\ jobs' = {} /\ timers' = {} /\ cache' = Empty
      /\ behind' = {} /\ places' = {} /\ unread' = {} /\ unsent' = {} /\ UNCHANGED <<text, disk, shown>> /\ ServerTypes
  BY DEF ServerStops, ServerInv
<1>2. retryCount' \in 0..MAX_RETRIES + 1
  BY <1>1, LanguageServerAssumption DEF ServerTypes
<1>3. DiskOK' /\ Open' = Open
  BY <1>1 DEF ServerTypes, DiskOK, Open
<1>4. reg' \in Regs(places') /\ DOMAIN cache' = {}
  BY <1>1, FreshType, EmptyIs
<1>5. backgrounds' \in Seq(Entries)
  BY <1>1
<1>6. ServerTypes'
  BY <1>1, <1>2, <1>3, <1>4, <1>5 DEF ServerTypes
<1>7. Distinct(backgrounds)'
  BY <1>1 DEF Distinct
<1>8. JobsInv' /\ BehindInv' /\ ListInv' /\ AnswerInv'
  BY <1>1, <1>7 DEF JobsInv, BehindInv, ListInv, AnswerInv
<1> QED
  BY <1>6, <1>8 DEF ServerInv

LEMMA RetryStep ==
  ASSUME ServerInv, Retry
  PROVE  ServerInv'
<1>1. /\ client = "waiting" /\ client' = "running" /\ unsent' = Open /\ UNCHANGED <<text, disk, shown, retryCount, behind>>
      /\ UNCHANGED <<backgrounds, workspace, reg, jobs, timers, cache, places, unread>> /\ ServerTypes /\ Distinct(backgrounds)
  BY DEF Retry, server, ServerInv, ListInv
<1>2. jobs = {}
  BY <1>1 DEF ServerInv, JobsInv
<1>3. DiskOK' /\ Open' = Open
  BY <1>1 DEF ServerTypes, DiskOK, Open
<1>4. ServerTypes'
  BY <1>1, <1>3 DEF ServerTypes
<1>5. Served' = {}
  BY <1>1, <1>3 DEF Served
<1>6. JobsInv'
  BY <1>1, <1>2 DEF JobsInv
<1>7. BehindInv'
  BY <1>1 DEF BehindInv, Waits, ServerTypes
<1>8. Distinct(backgrounds)'
  BY <1>1
<1>9. ListInv' /\ AnswerInv'
  BY <1>5, <1>8 DEF ListInv, AnswerInv
<1> QED
  BY <1>4, <1>6, <1>7, <1>9 DEF ServerInv

LEMMA ServerInvStep == ServerInv /\ [ServerNext]_serverVars => ServerInv'
<1> SUFFICES ASSUME ServerInv, [ServerNext]_serverVars PROVE ServerInv'
  OBVIOUS
<1>1. ASSUME NEW d \in Docs, NEW t \in Drafts[d], Change(d, t) \/ ChangeUnserved(d, t) PROVE ServerInv'
  BY <1>1, ChangeStep, UnservedStep
<1>2. ASSUME NEW d \in Docs, Close(d) \/ Reopen(d) \/ SemanticTokens(d) PROVE ServerInv'
  BY <1>2, CloseStep, ReopenStep, TokensStep
<1>3. ASSUME NEW b \in Backgrounds, Revalidate(b) \/ Save(b) PROVE ServerInv'
  BY <1>3, RevalidateStep, SaveStep
<1>4. ASSUME NEW j \in jobs,
             \/ ProcessTypeScript(j) \/ UpdateBackgrounds(j) \/ Reparse(j) \/ Reparsed(j)
             \/ GetWorkspaceBackgrounds(j) \/ FailToParse(j) \/ Resolve(j) \/ Publish(j)
      PROVE  ServerInv'
  BY <1>4, KirejiStep, UpdateStep, ReparseStep, ReparsedStep, WorkspaceStep, FailStep, ResolveStep, PublishStep
<1>5. CASE ServerStops \/ Retry
  BY <1>5, StopStep, RetryStep
<1>6. CASE UNCHANGED serverVars
  <2>1. UNCHANGED <<text, disk, unsent, backgrounds, workspace, reg, jobs, timers, cache, shown, client, retryCount, behind,
                     places, unread>>
    BY <1>6 DEF serverVars
  <2>2. DiskOK' /\ Open' = Open
    BY <2>1 DEF DiskOK, Open, ServerInv, ServerTypes
  <2>3. ServerTypes'
    BY <2>1, <2>2 DEF ServerInv, ServerTypes
  <2> QED
    BY <2>1, <2>3, KeptInvs DEF ServerInv
<1> QED
  BY <1>1, <1>2, <1>3, <1>4, <1>5, <1>6 DEF ServerNext, Process

LEMMA ServerInvAlways == ServerSpec => []ServerInv
<1>1. ServerInit /\ [][ServerNext]_serverVars => []ServerInv
  BY ServerInvInit, ServerInvStep, PTL
<1> QED
  BY <1>1, PTL DEF ServerSpec

LEMMA ServerInvImplies == ServerInv => ServerIsCurrent
<1> SUFFICES ASSUME ServerInv PROVE ServerIsCurrent
  OBVIOUS
<1>1. ServerTypeOK
  <2>1. /\ Open \subseteq Docs /\ (\A d \in Open : text[d] \in Drafts[d]) /\ unsent \subseteq Docs
        /\ timers \subseteq Backgrounds /\ behind \subseteq Open /\ unread \subseteq Features /\ DOMAIN cache \subseteq Docs /\ DOMAIN shown \subseteq Docs
        /\ client \in {"running", "waiting", "error"} /\ retryCount \in 0..MAX_RETRIES + 1
    BY DEF ServerInv, ServerTypes
  <2>2. \A i \in DOMAIN backgrounds : backgrounds[i].path \in Backgrounds
    BY DEF ServerInv, ServerTypes, Entries
  <2>3. \A j \in jobs : j.doc \in Docs /\ j.at \in {"start", "reparse", "resolve", "publish"}
    BY DEF ServerInv, ServerTypes, JobSet, Stages
  <2>4. DOMAIN reg.backgroundSteps \subseteq DOMAIN reg.steps
    BY DEF ServerInv, ServerTypes, Regs
  <2> QED
    BY <2>1, <2>2, <2>3, <2>4 DEF ServerTypeOK
<1>2. BackgroundsAreCurrent
  <2> SUFFICES ASSUME NEW b \in (Served \cap Backgrounds) \ {j.doc : j \in {x \in jobs : x.at = "start"}}, client = "running"
               PROVE  \E i \in DOMAIN backgrounds :
                         /\ backgrounds[i] = [path |-> b, content |-> text[b], based |-> FALSE]
                         /\ \A k \in DOMAIN backgrounds : backgrounds[k].path = b => k = i
    BY DEF BackgroundsAreCurrent
  <2>1. ~Starting(b)
    BY DEF Starting
  <2>2. Listed(b) /\ Distinct(backgrounds)
    BY <2>1 DEF ServerInv, ListInv
  <2>3. PICK i \in DOMAIN backgrounds : backgrounds[i] = [path |-> b, content |-> text[b], based |-> FALSE]
    BY <2>2 DEF Listed
  <2>4. backgrounds[i].path = b
    BY <2>3
  <2> QED
    BY <2>2, <2>3, <2>4 DEF Distinct
<1>3. AnswersArePresent
  BY Between DEF AnswersArePresent
<1>4. ResolvedAgain
  BY Between DEF ResolvedAgain, Quiet
<1> QED
  BY <1>1, <1>2, <1>3, <1>4 DEF ServerIsCurrent

\* What the language server knows of backgrounds is of the present texts, and so
\* is, when it rests, what it shows of a document whose outcomes it has read at
\* one place each, for all documents, texts and numbers of retries.
THEOREM ServerAlwaysCurrent == ServerSpec => []ServerIsCurrent
<1>1. ServerSpec => []ServerInv
  BY ServerInvAlways
<1>2. ServerInv => ServerIsCurrent
  BY ServerInvImplies
<1> QED
  BY <1>1, <1>2, PTL
=============================================================================
