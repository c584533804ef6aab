---------------------------- MODULE SteppersProofs ----------------------------
(***************************************************************************)
(* Theorems about the steppers of core that keep state of their own, each   *)
(* for itself: Activities and Variables.                                    *)
(*                                                                         *)
(* Activities, for every project: what a statement was resolved to is its   *)
(* feature's own or a background's, and is still there when the feature is  *)
(* executed.                                                                *)
(*                                                                         *)
(* Variables, for every vocabulary: variables keep to their domains,        *)
(* secrecy and read-only are not lost, a scenario begins with the variables *)
(* set before it and with a store that agrees with them.  Each statement    *)
(* has one of four effects on values, store and domains; the invariant is   *)
(* shown to survive the effects, and then the copies.                       *)
(***************************************************************************)
EXTENDS Activities, Variables, TLAPS

(* Activities *)

Steps == [Outcome -> Path \union {NoPath}]

Types ==
  /\ DOMAIN content = Path /\ \A p \in Path : content[p] \in LinesOf(p)
  /\ phase \in {"resolve", "failed", "execute", "executing", "done"}
  /\ current \in 1..Len(Files) + 1 /\ position \in Nat \ {0}
  /\ phase \in {"resolve", "executing"} => current \in DOMAIN Files
  /\ phase \in {"execute", "executing"} => IsFeature(current)
  /\ steps \in Steps /\ backgroundSteps \in Steps /\ featureSteps \in [Path -> Steps]
  /\ outcomePatterns \subseteq Outcome
  /\ lastResolutionPath \in Path \union {NoPath} /\ lastFeaturePath \in Path \union {NoPath}
  /\ resolved \subseteq [file : DOMAIN Files, statement : Statement, outcome : Outcome, from : Path]

\* An outcome is registered at most once, by the backgrounds or by one feature,
\* with a file of theirs, and then it is remembered.
RegisteredOnce ==
  \A o \in Outcome :
    /\ steps[o] # NoPath => o \in outcomePatterns
    /\ backgroundSteps[o] # NoPath => o \in outcomePatterns /\ IsBackground(backgroundSteps[o])
    /\ \A p \in Path : featureSteps[p][o] # NoPath =>
         /\ o \in outcomePatterns
         /\ backgroundSteps[o] = NoPath /\ ~IsBackground(p)
         /\ featureSteps[p][o] = p \/ IsBackground(featureSteps[p][o])
         /\ \A q \in Path : featureSteps[q][o] # NoPath => q = p

\* While a file is resolved the steps are those of the backgrounds and its own.
StepsInResolution ==
  phase = "resolve" =>
    /\ IsFeature(current) => lastResolutionPath = Files[current]
    /\ ~IsFeature(current) => \A p \in Path : featureSteps[p] = NoSteps
    /\ \A o \in Outcome : steps[o] # NoPath =>
         \/ steps[o] = backgroundSteps[o]
         \/ IsFeature(current) /\ steps[o] = featureSteps[Files[current]][o]

\* While a feature is executed its own are among them.
StepsInExecution ==
  phase = "executing" =>
    \A o \in Outcome : featureSteps[Files[current]][o] # NoPath => steps[o] = featureSteps[Files[current]][o]

\* What was resolved is kept, by the backgrounds or by the feature.
ResolvedIsKept ==
  \A r \in resolved :
    \/ r.from = backgroundSteps[r.outcome]
    \/ r.from = featureSteps[Files[r.file]][r.outcome]

Registered == Types /\ RegisteredOnce /\ BackgroundsStay /\ StepsInResolution /\ StepsInExecution /\ ResolvedIsKept
-----------------------------------------------------------------------------
\* The files, by their number: first the backgrounds, then at least one feature.
LEMMA FilesByNumber ==
  /\ Files \in Seq(Path) /\ Len(Files) \in Nat /\ DOMAIN Files = 1..Len(Files)
  /\ Len(Backgrounds) \in Nat /\ Len(Backgrounds) < Len(Files)
  /\ \A n \in DOMAIN Files : Files[n] \in Path /\ Files[n] # NoPath /\ (IsFeature(n) <=> ~IsBackground(Files[n]))
<1>1. /\ Backgrounds \in Seq(Path) /\ Features \in Seq(Path) /\ Features # <<>> /\ NoPath \notin Path
  BY ActivitiesAssumption
<1>2. /\ Files \in Seq(Path) /\ Len(Files) = Len(Backgrounds) + Len(Features)
      /\ Len(Backgrounds) \in Nat /\ Len(Features) \in Nat \ {0}
      /\ DOMAIN Files = 1..Len(Files) /\ DOMAIN Backgrounds = 1..Len(Backgrounds)
      /\ \A n \in 1..Len(Backgrounds) : Files[n] = Backgrounds[n]
  BY <1>1 DEF Files
<1>3. ASSUME NEW n \in DOMAIN Files
      PROVE  IsFeature(n) <=> ~IsBackground(Files[n])
  <2>1. \A m \in DOMAIN Files : Files[m] = Files[n] => m = n
    BY ActivitiesAssumption
  <2>2. QED
    BY <1>2, <2>1 DEF IsFeature, IsBackground
<1>4. QED
  BY <1>1, <1>2, <1>3 DEF Path

\* A line that is read, by its kind.
LEMMA LineRead ==
  ASSUME Types, Reading
  PROVE  /\ position \in DOMAIN Lines(current)
         /\ AtLine.kind = "ensure" => AtLine.text \in Statement
         /\ AtLine.kind = "waypoint" =>
              /\ AtLine.text \in Outcome /\ AtLine.from \in Path
              /\ AtLine.from = Files[current] \/ IsBackground(AtLine.from)
<1>1. current \in DOMAIN Files /\ Files[current] \in Path
  BY FilesByNumber DEF Types, Reading
<1> DEFINE S == [kind : {"waypoint"}, text : Outcome, from : {Files[current]} \union {q \in Path : IsBackground(q)}]
                \union [kind : {"ensure"}, text : Statement, from : Path]
                \union [kind : {"activity", "header", "step"}, text : {NoPath}, from : Path]
<1>2. Lines(current) \in Seq(S)
  BY <1>1 DEF Lines, Types, LinesOf
<1>3. position \in DOMAIN Lines(current)
  <2>1. position \in Nat \ {0} /\ position <= Len(Lines(current))
    BY DEF Reading, Types
  <2> HIDE DEF S
  <2>2. QED
    BY <1>2, <2>1
<1>4. AtLine \in S
  <2> HIDE DEF S
  <2>1. QED
    BY <1>2, <1>3 DEF AtLine
<1>5. QED
  BY <1>1, <1>3, <1>4

\* A further line of the same file is read and changes no step.
LEMMA PassesLine ==
  ASSUME Registered, Reading, PassLine, UNCHANGED <<steps, backgroundSteps, featureSteps, outcomePatterns>>
  PROVE  /\ RegisteredOnce' /\ BackgroundsStay' /\ StepsInResolution' /\ StepsInExecution'
         /\ resolved' \subseteq [file : DOMAIN Files, statement : Statement, outcome : Outcome, from : Path] => Types'
<1>1. current \in DOMAIN Files /\ Files[current] \in Path /\ position \in Nat \ {0}
  BY FilesByNumber DEF Registered, Types, Reading
<1>2. IsFeature(current) => lastResolutionPath = Files[current]
  BY DEF Registered, StepsInResolution, Reading
<1>3. UNCHANGED <<content, phase, current, lastFeaturePath, steps, backgroundSteps, featureSteps, outcomePatterns>>
      /\ lastResolutionPath' = Files[current] /\ position' = position + 1
  BY DEF PassLine
<1>4. RegisteredOnce' /\ BackgroundsStay' /\ StepsInExecution'
  BY <1>3 DEF Registered, RegisteredOnce, BackgroundsStay, StepsInExecution
<1>5. StepsInResolution'
  BY <1>1, <1>2, <1>3 DEF Registered, StepsInResolution
<1>6. resolved' \subseteq [file : DOMAIN Files, statement : Statement, outcome : Outcome, from : Path] => Types'
  BY <1>1, <1>3 DEF Registered, Types
<1>7. QED
  BY <1>4, <1>5, <1>6

\* RegisterOutcome adds an outcome that no file has registered.
LEMMA WaypointRegisters ==
  ASSUME Registered, Waypoint
  PROVE  Registered'
<1> DEFINE o == AtLine.text
           from == AtLine.from
           path == Files[current]
<1>1. /\ phase = "resolve" /\ Reading /\ PassLine /\ UNCHANGED resolved
      /\ RegisterOutcome(o, path, from)
  BY DEF Waypoint, Reading, AtLine
<1>2. /\ o \in Outcome /\ from \in Path /\ from # NoPath
      /\ from = path \/ IsBackground(from)
  BY <1>1, LineRead, ActivitiesAssumption DEF Waypoint, Registered
<1>3. CASE o \in outcomePatterns
  <2>1. UNCHANGED <<steps, backgroundSteps, featureSteps, outcomePatterns>>
    BY <1>1, <1>3 DEF RegisterOutcome
  <2>2. Types
    BY DEF Registered
  <2>3. QED
    BY <1>1, <2>1, <2>2, PassesLine DEF Registered, Types, ResolvedIsKept
<1>4. CASE o \notin outcomePatterns
  <2> HIDE DEF o, from, path
  <2>1. /\ current \in DOMAIN Files /\ path \in Path /\ path = Files[current] /\ path # NoPath
        /\ IsFeature(current) <=> ~IsBackground(path)
    BY <1>1, FilesByNumber DEF Registered, Types, path
  <2>2. /\ outcomePatterns' = outcomePatterns \union {o}
        /\ steps' = [steps EXCEPT ![o] = from]
    BY <1>1, <1>4 DEF RegisterOutcome
  <2>3. /\ steps[o] = NoPath /\ backgroundSteps[o] = NoPath
        /\ \A p \in Path : featureSteps[p][o] = NoPath
    BY <1>2, <1>4 DEF Registered, RegisteredOnce
  <2>4. /\ steps \in Steps /\ backgroundSteps \in Steps /\ featureSteps \in [Path -> Steps]
        /\ outcomePatterns \subseteq Outcome
    BY DEF Registered, Types
  <2>5. /\ UNCHANGED <<content, phase, current, lastFeaturePath, resolved>>
        /\ position' = position + 1 /\ lastResolutionPath' = path
    BY <1>1, <2>1 DEF PassLine
  <2>6. CASE IsBackground(path)
    <3>1. backgroundSteps' = [backgroundSteps EXCEPT ![o] = from] /\ featureSteps' = featureSteps
      BY <1>1, <1>4, <2>6 DEF RegisterOutcome
    <3>2. IsBackground(from)
      BY <1>2, <2>6
    <3>3. Types'
      BY <1>2, <2>1, <2>2, <2>4, <2>5, <3>1 DEF Registered, Types, Steps
    <3>4. RegisteredOnce'
      BY <1>2, <2>2, <2>3, <2>4, <3>1, <3>2 DEF Registered, RegisteredOnce, Steps
    <3>5. BackgroundsStay'
      BY <1>2, <2>2, <2>4, <3>1 DEF Registered, BackgroundsStay, Steps
    <3>6. StepsInResolution'
      BY <1>2, <2>1, <2>2, <2>4, <2>5, <2>6, <3>1 DEF Registered, StepsInResolution, Steps
    <3>7. StepsInExecution'
      BY <1>1, <2>5 DEF StepsInExecution
    <3>8. ResolvedIsKept'
      <4>1. \A r \in resolved : r.outcome \in Outcome /\ r.file \in DOMAIN Files /\ r.from \in Path /\ r.from # NoPath
        BY ActivitiesAssumption DEF Registered, Types
      <4>2. \A r \in resolved : Files[r.file] \in Path
        BY <4>1, FilesByNumber
      <4>3. QED
        BY <2>3, <2>4, <2>5, <3>1, <4>1, <4>2 DEF Registered, ResolvedIsKept, Steps
    <3>9. QED
      BY <3>3, <3>4, <3>5, <3>6, <3>7, <3>8 DEF Registered
  <2>7. CASE ~IsBackground(path)
    <3>1. featureSteps' = [featureSteps EXCEPT ![path][o] = from] /\ backgroundSteps' = backgroundSteps
      BY <1>1, <1>4, <2>7 DEF RegisterOutcome
    <3>2. \A p \in Path, x \in Outcome : featureSteps'[p][x] = IF p = path /\ x = o THEN from ELSE featureSteps[p][x]
      BY <1>2, <2>1, <2>4, <3>1 DEF Steps
    <3>3. Types'
      BY <1>2, <2>1, <2>2, <2>4, <2>5, <3>1 DEF Registered, Types, Steps
    <3>4. RegisteredOnce'
      BY <1>2, <2>1, <2>2, <2>3, <2>4, <2>7, <3>1, <3>2 DEF Registered, RegisteredOnce, Steps
    <3>5. BackgroundsStay'
      BY <1>2, <2>2, <2>3, <2>4, <3>1 DEF Registered, BackgroundsStay, Steps
    <3>6. StepsInResolution'
      BY <1>1, <1>2, <2>1, <2>2, <2>4, <2>5, <2>7, <3>1, <3>2 DEF Registered, StepsInResolution, Steps
    <3>7. StepsInExecution'
      BY <1>1, <2>5 DEF StepsInExecution
    <3>8. ResolvedIsKept'
      <4>1. \A r \in resolved : r.outcome \in Outcome /\ r.file \in DOMAIN Files /\ r.from \in Path /\ r.from # NoPath
        BY ActivitiesAssumption DEF Registered, Types
      <4>2. \A r \in resolved : Files[r.file] \in Path
        BY <4>1, FilesByNumber
      <4>3. QED
        BY <2>3, <2>5, <3>1, <3>2, <4>1, <4>2 DEF Registered, ResolvedIsKept
    <3>9. QED
      BY <3>3, <3>4, <3>5, <3>6, <3>7, <3>8 DEF Registered
  <2>8. QED
    BY <2>6, <2>7
<1>5. QED
  BY <1>3, <1>4

\* A statement that is resolved has its outcome from the steps there are.
LEMMA StatementResolves ==
  ASSUME Registered, ResolveStatement
  PROVE  Registered'
<1>1. /\ phase = "resolve" /\ Reading /\ PassLine /\ AtLine.kind = "ensure"
      /\ UNCHANGED <<steps, backgroundSteps, featureSteps, outcomePatterns>>
  BY DEF ResolveStatement, Reading, stepper
<1>2. /\ current \in DOMAIN Files /\ AtLine.text \in Statement
  BY <1>1, LineRead DEF Registered, Types
<1>3. RegisteredOnce' /\ BackgroundsStay' /\ StepsInResolution' /\ StepsInExecution'
  BY <1>1, PassesLine
<1>4. CASE UNCHANGED resolved
  BY <1>1, <1>3, <1>4, PassesLine DEF Registered, Types, ResolvedIsKept
<1>5. ASSUME NEW o \in Candidates(AtLine.text),
             resolved' = resolved \union
               {[file |-> current, statement |-> AtLine.text, outcome |-> o, from |-> steps[o]]}
      PROVE  Registered'
  <2>1. o \in Outcome /\ steps[o] # NoPath
    BY <1>2, ActivitiesAssumption DEF Candidates
  <2>2. steps[o] \in Path
    BY <2>1 DEF Registered, Types, Steps
  <2>3. \/ steps[o] = backgroundSteps[o]
        \/ steps[o] = featureSteps[Files[current]][o]
    BY <1>1, <2>1 DEF Registered, StepsInResolution
  <2>4. resolved' \subseteq [file : DOMAIN Files, statement : Statement, outcome : Outcome, from : Path]
    BY <1>2, <1>5, <2>1, <2>2 DEF Registered, Types
  <2>5. ResolvedIsKept'
    BY <1>1, <1>5, <2>3 DEF Registered, ResolvedIsKept
  <2>6. QED
    BY <1>1, <1>3, <2>4, <2>5, PassesLine DEF Registered
<1>6. QED
  BY <1>4, <1>5 DEF ResolveStatement

\* The steps that a file is given are the backgrounds' and its own, where
\* nothing but these and the steps of the file before were there.
LEMMA StepsGiven ==
  ASSUME Registered, NEW last \in Path \union {NoPath}, NEW path \in Path
  PROVE  /\ StepsFor(last, path) \in Steps
         /\ \A o \in Outcome :
              /\ backgroundSteps[o] # NoPath => StepsFor(last, path)[o] = backgroundSteps[o]
              /\ featureSteps[path][o] # NoPath => StepsFor(last, path)[o] = featureSteps[path][o]
              /\ StepsFor(last, path)[o] # NoPath =>
                   \/ StepsFor(last, path)[o] = backgroundSteps[o]
                   \/ StepsFor(last, path)[o] = featureSteps[path][o]
                   \/ StepsFor(last, path)[o] = steps[o]
                      /\ (last # path /\ last # NoPath => featureSteps[last][o] = NoPath)
<1> DEFINE under == IF last = path THEN steps ELSE Without(steps, last)
<1>1. steps \in Steps /\ backgroundSteps \in Steps /\ featureSteps \in [Path -> Steps]
  BY DEF Registered, Types
<1>2. /\ under \in Steps
      /\ \A o \in Outcome : under[o] # NoPath =>
           under[o] = steps[o] /\ (last # path /\ last # NoPath => featureSteps[last][o] = NoPath)
  BY <1>1 DEF Without, Steps
<1>3. featureSteps[path] \in Steps
  BY <1>1
<1>4. \A o \in Outcome : featureSteps[path][o] # NoPath => backgroundSteps[o] = NoPath
  BY DEF Registered, RegisteredOnce
<1>5. StepsFor(last, path) = Over(Over(under, featureSteps[path]), backgroundSteps)
  BY DEF StepsFor
<1> HIDE DEF under
<1>6. StepsFor(last, path) = [o \in Outcome |-> IF backgroundSteps[o] # NoPath THEN backgroundSteps[o]
                                ELSE IF featureSteps[path][o] # NoPath THEN featureSteps[path][o] ELSE under[o]]
  BY <1>5 DEF Over
<1>7. QED
  BY <1>1, <1>2, <1>3, <1>4, <1>6 DEF Steps

\* A feature that is about to be resolved finds none but the backgrounds'
\* steps and, when it was resolved before, its own.
LEMMA NextFileIsGiven ==
  ASSUME Registered, NextFile
  PROVE  Registered'
<1>1. /\ phase = "resolve" /\ current \in DOMAIN Files /\ current + 1 \in DOMAIN Files /\ current' = current + 1
      /\ phase' = "resolve" /\ position' = 1
      /\ UNCHANGED <<content, backgroundSteps, featureSteps, outcomePatterns, lastFeaturePath, resolved>>
  BY FilesByNumber DEF NextFile, Registered, Types
<1>2. /\ Files[current] \in Path /\ Files[current + 1] \in Path /\ Files[current] # NoPath
      /\ IsFeature(current) => IsFeature(current + 1)
  BY <1>1, FilesByNumber DEF IsFeature
<1>3. ResolvedIsKept' /\ StepsInExecution'
  BY <1>1 DEF Registered, ResolvedIsKept, StepsInExecution
<1>4. CASE ~IsFeature(current + 1)
  <2>1. UNCHANGED <<steps, lastResolutionPath>>
    BY <1>4 DEF NextFile
  <2>2. QED
    BY <1>1, <1>2, <1>3, <1>4, <2>1
       DEF Registered, Types, RegisteredOnce, BackgroundsStay, StepsInResolution, IsFeature
<1>5. CASE IsFeature(current + 1)
  <2> DEFINE path == Files[current + 1]
             given == StepsFor(lastResolutionPath, path)
  <2>1. steps' = given /\ lastResolutionPath' = path
    BY <1>5 DEF NextFile
  <2>2. lastResolutionPath \in Path \union {NoPath} /\ path \in Path
    BY <1>2 DEF Registered, Types
  <2> HIDE DEF path
  <2>3. /\ given \in Steps
        /\ \A o \in Outcome :
              /\ backgroundSteps[o] # NoPath => given[o] = backgroundSteps[o]
              /\ given[o] # NoPath =>
                   \/ given[o] = backgroundSteps[o]
                   \/ given[o] = featureSteps[path][o]
                   \/ given[o] = steps[o]
                      /\ (lastResolutionPath # path /\ lastResolutionPath # NoPath
                            => featureSteps[lastResolutionPath][o] = NoPath)
    BY <2>2, StepsGiven
  <2>4. \A o \in Outcome : given[o] # NoPath => given[o] = backgroundSteps[o] \/ given[o] = featureSteps[path][o]
    <3>1. CASE IsFeature(current)
      <4>1. lastResolutionPath = Files[current] /\ Files[current] # path
        BY <1>1, <3>1, ActivitiesAssumption DEF Registered, StepsInResolution, path, Types
      <4>2. \A o \in Outcome : steps[o] # NoPath => steps[o] = backgroundSteps[o] \/ steps[o] = featureSteps[lastResolutionPath][o]
        BY <1>1, <4>1 DEF Registered, StepsInResolution
      <4>3. QED
        BY <1>2, <2>3, <4>1, <4>2
    <3>2. CASE ~IsFeature(current)
      BY <1>1, <2>3, <3>2 DEF Registered, StepsInResolution
    <3>3. QED
      BY <3>1, <3>2
  <2>5. \A o \in Outcome : given[o] # NoPath => o \in outcomePatterns
    BY <2>2, <2>4 DEF Registered, RegisteredOnce
  <2> HIDE DEF given
  <2>6. Types'
    BY <1>1, <2>1, <2>2, <2>3, FilesByNumber DEF Registered, Types
  <2>7. RegisteredOnce' /\ BackgroundsStay'
    BY <1>1, <2>1, <2>3, <2>5 DEF Registered, RegisteredOnce, BackgroundsStay
  <2>8. StepsInResolution'
    BY <1>1, <1>5, <2>1, <2>4 DEF Registered, StepsInResolution, path
  <2>9. QED
    BY <1>3, <2>6, <2>7, <2>8 DEF Registered
<1>6. QED
  BY <1>4, <1>5

\* The startFeature hook gives a feature its own steps and the backgrounds'.
LEMMA FeatureStarts ==
  ASSUME Registered, StartFeature
  PROVE  Registered'
<1> DEFINE path == Files[current]
           given == StepsFor(lastFeaturePath, path)
<1>1. /\ phase = "execute" /\ phase' = "executing" /\ steps' = given
      /\ UNCHANGED <<content, current, position, backgroundSteps, featureSteps, outcomePatterns, lastResolutionPath, lastFeaturePath, resolved>>
  BY DEF StartFeature, StepsExecuting
<1>2. current \in DOMAIN Files /\ IsFeature(current) /\ path \in Path
  BY FilesByNumber DEF Registered, Types, StartFeature
<1>3. lastFeaturePath \in Path \union {NoPath}
  BY DEF Registered, Types
<1> HIDE DEF path
<1>4. /\ given \in Steps
      /\ \A o \in Outcome :
            /\ backgroundSteps[o] # NoPath => given[o] = backgroundSteps[o]
            /\ featureSteps[path][o] # NoPath => given[o] = featureSteps[path][o]
            /\ given[o] # NoPath =>
                 given[o] = backgroundSteps[o] \/ given[o] = featureSteps[path][o] \/ given[o] = steps[o]
  BY <1>2, <1>3, StepsGiven
<1>5. \A o \in Outcome : given[o] # NoPath => o \in outcomePatterns
  BY <1>2, <1>4 DEF Registered, RegisteredOnce
<1> HIDE DEF given
<1>6. Types'
  BY <1>1, <1>2, <1>4 DEF Registered, Types
<1>7. RegisteredOnce' /\ BackgroundsStay'
  BY <1>1, <1>4, <1>5 DEF Registered, RegisteredOnce, BackgroundsStay
<1>8. StepsInResolution' /\ ResolvedIsKept'
  BY <1>1 DEF Registered, StepsInResolution, ResolvedIsKept
<1>9. StepsInExecution'
  BY <1>1, <1>4 DEF StepsInExecution, path
<1>10. QED
  BY <1>6, <1>7, <1>8, <1>9 DEF Registered

\* Nothing is registered at first.
LEMMA RegisteredInit ==
  ActivitiesInit => Registered
<1> SUFFICES ASSUME ActivitiesInit PROVE Registered
  OBVIOUS
<1>1. /\ steps = NoSteps /\ backgroundSteps = NoSteps /\ featureSteps = [p \in Path |-> NoSteps]
      /\ phase = "resolve" /\ current = 1 /\ resolved = {} /\ NoSteps \in Steps
  BY DEF ActivitiesInit, NoSteps, Steps
<1>2. 1 \in DOMAIN Files /\ Files[1] \in Path
  BY FilesByNumber
<1>3. DOMAIN content = Path /\ \A p \in Path : content[p] \in LinesOf(p)
  BY ActivitiesAssumption DEF ActivitiesInit
<1>4. Types
  BY <1>1, <1>2, <1>3, FilesByNumber DEF ActivitiesInit, Types
<1>5. RegisteredOnce /\ BackgroundsStay /\ StepsInExecution /\ ResolvedIsKept
  BY <1>1 DEF RegisteredOnce, BackgroundsStay, StepsInExecution, ResolvedIsKept, NoSteps
<1>6. StepsInResolution
  BY <1>1, <1>2 DEF ActivitiesInit, StepsInResolution, NoSteps
<1>7. QED
  BY <1>4, <1>5, <1>6 DEF Registered

\* Every line read and every hook keeps the inductive invariant.
LEMMA RegisteredStep ==
  Registered /\ [ActivitiesNext]_activitiesVars => Registered'
<1> SUFFICES ASSUME Registered, [ActivitiesNext]_activitiesVars PROVE Registered'
  OBVIOUS
<1>1. CASE BeginActivity \/ EndActivity \/ Swallow \/ ResolveOther
  <2>1. /\ Reading /\ PassLine /\ UNCHANGED resolved
        /\ UNCHANGED <<steps, backgroundSteps, featureSteps, outcomePatterns>>
    BY <1>1 DEF BeginActivity, EndActivity, Swallow, ResolveOther, stepper
  <2>2. QED
    BY <2>1, PassesLine DEF Registered, Types, ResolvedIsKept
<1>2. CASE ResolutionFails \/ AllResolved
  <2>1. /\ phase' \in {"failed", "execute"}
        /\ phase' = "execute" => IsFeature(current')
        /\ current' \in 1..Len(Files) + 1
        /\ UNCHANGED <<content, position, steps, backgroundSteps, featureSteps, outcomePatterns, lastResolutionPath, lastFeaturePath, resolved>>
    <3>1. CASE ResolutionFails
      BY <3>1 DEF ResolutionFails, stepper, Registered, Types
    <3>2. CASE AllResolved
      <4>1. Len(Backgrounds) + 1 \in 1..Len(Files) + 1 /\ IsFeature(Len(Backgrounds) + 1)
        BY FilesByNumber DEF IsFeature
      <4>2. QED
        BY <3>2, <4>1 DEF AllResolved, stepper
    <3>3. QED
      BY <1>2, <3>1, <3>2
  <2>2. QED
    BY <2>1 DEF Registered, Types, RegisteredOnce, BackgroundsStay, StepsInResolution, StepsInExecution, ResolvedIsKept
<1>3. CASE EndFeature
  <2>1. /\ phase' \in {"execute", "done"}
        /\ IsFeature(current') /\ current' \in 1..Len(Files) + 1
        /\ lastFeaturePath' \in Path
        /\ UNCHANGED <<content, position, steps, backgroundSteps, featureSteps, outcomePatterns, lastResolutionPath, resolved>>
    BY <1>3, FilesByNumber DEF EndFeature, stepper, IsFeature, Registered, Types
  <2>2. QED
    BY <2>1 DEF Registered, Types, RegisteredOnce, BackgroundsStay, StepsInResolution, StepsInExecution, ResolvedIsKept
<1>4. CASE UNCHANGED activitiesVars
  BY <1>4 DEF activitiesVars, stepper, Registered, Types, RegisteredOnce, BackgroundsStay, StepsInResolution,
              StepsInExecution, ResolvedIsKept
<1>5. QED
  BY <1>1, <1>2, <1>3, <1>4, WaypointRegisters, StatementResolves, NextFileIsGiven, FeatureStarts DEF ActivitiesNext

\* The inductive invariant.
LEMMA RegisteredInvariant ==
  ActivitiesSpec => []Registered
<1>1. QED
  BY RegisteredInit, RegisteredStep, PTL DEF ActivitiesSpec
-----------------------------------------------------------------------------
\* A statement is resolved to an outcome of its own file or of a background
\* (startFeatureResolution takes the others' away).
THEOREM NoLeakInResolution ==
  ActivitiesSpec => []ResolvedWithOwn
<1>1. Registered => ResolvedWithOwn
  <2> SUFFICES ASSUME Registered, NEW r \in resolved, r.from # Files[r.file]
               PROVE  IsBackground(r.from)
    BY DEF ResolvedWithOwn
  <2>1. r.outcome \in Outcome /\ r.file \in DOMAIN Files /\ r.from \in Path /\ r.from # NoPath
    BY ActivitiesAssumption DEF Registered, Types
  <2>2. Files[r.file] \in Path
    BY <2>1, FilesByNumber
  <2>3. QED
    BY <2>1, <2>2 DEF Registered, ResolvedIsKept, RegisteredOnce
<1>2. QED
  BY <1>1, RegisteredInvariant, PTL

\* What a feature's statements were resolved to is there when it is executed,
\* whatever was resolved or executed in between (the startFeature hook).
THEOREM ResolvedIsThere ==
  ActivitiesSpec => []ExecutesWhatWasResolved
<1>1. Registered => ExecutesWhatWasResolved
  <2> SUFFICES ASSUME Registered, phase = "executing", NEW r \in resolved, r.file = current
               PROVE  steps[r.outcome] = r.from
    BY DEF ExecutesWhatWasResolved
  <2>1. r.outcome \in Outcome /\ r.from # NoPath
    BY ActivitiesAssumption DEF Registered, Types
  <2>2. QED
    BY <2>1 DEF Registered, ResolvedIsKept, BackgroundsStay, StepsInExecution
<1>2. QED
  BY <1>1, RegisteredInvariant, PTL

\* The outcomes of the backgrounds are there in every feature.
THEOREM BackgroundsAreThere ==
  ActivitiesSpec => []BackgroundsStay
<1>1. Registered => BackgroundsStay
  BY DEF Registered
<1>2. QED
  BY <1>1, RegisteredInvariant, PTL

\* The types of Activities.
THEOREM ActivitiesTypes ==
  ActivitiesSpec => []ActivitiesTypeOK
<1> DEFINE Flags == inActivityBlock \in BOOLEAN /\ errors \in BOOLEAN
<1>1. ActivitiesInit => Flags
  BY DEF ActivitiesInit
<1>2. Flags /\ [ActivitiesNext]_activitiesVars => Flags'
  <2> SUFFICES ASSUME Flags, [ActivitiesNext]_activitiesVars PROVE Flags'
    OBVIOUS
  <2>1. inActivityBlock' \in BOOLEAN
    BY DEF ActivitiesNext, activitiesVars, stepper, BeginActivity, EndActivity, Waypoint, Swallow, ResolveStatement, ResolveOther,
           ResolutionFails, NextFile, AllResolved, StartFeature, EndFeature, HasMoreWaypoints
  <2>2. errors' \in BOOLEAN
    <3>1. errors' = errors \/ errors' = TRUE
      BY DEF ActivitiesNext, activitiesVars, stepper, BeginActivity, EndActivity, Waypoint, Swallow, ResolveStatement, ResolveOther,
             ResolutionFails, NextFile, AllResolved, StartFeature, EndFeature
    <3>2. QED
      BY <3>1
  <2>3. QED
    BY <2>1, <2>2
<1>3. Registered /\ Flags => ActivitiesTypeOK
  BY DEF Registered, Types, RegisteredOnce, ActivitiesTypeOK, Steps
<1>4. QED
  BY <1>1, <1>2, <1>3, RegisteredInvariant, PTL DEF ActivitiesSpec
-----------------------------------------------------------------------------
(* Variables *)

\* What domains may be.
DomainsIn(D) ==
  /\ CoreDomain \subseteq DOMAIN D /\ DOMAIN D \subseteq CoreDomain \union Declarable
  /\ \A d \in DOMAIN D :
       /\ D[d].accepts \subseteq Value /\ D[d].members \subseteq D[d].accepts
       /\ D[d].order \in Seq(D[d].members) /\ Distinct(D[d].order)

\* What may be stored for a name: the domain accepts it, what was made of a secret
\* is marked so, and what steppers set for themselves is never read-only.
MayHold(D, n, sv) ==
  /\ sv.domain \in DOMAIN D /\ sv.value \in D[sv.domain].accepts
  /\ sv.fromSecret => sv.secret = "yes"
  /\ n \in Dotted => sv.readonly = FALSE

\* The values of variables, in world.shared or in one of the Executor's copies.
GoodIn(F, D) ==
  /\ F \in [Name -> Stored \union {Unset}]
  /\ \A n \in Name : F[n] # Unset => MayHold(D, n, F[n])

Agree(F, G) == \A n \in Name \ Dotted : F[n] = G[n]

StoreIn(F, S) ==
  /\ DOMAIN S = Name
  /\ \A n \in Name : F[n] # Unset => S[n] # Unset /\ S[n].predicate = F[n].domain /\ S[n].object = F[n].value

LoopIn(l) == l \in [what : Name \union {Unset}, left : SUBSET Value] /\ (l # NoLoop => l.what \in Name)

\* What is to be copied for the next scenario is what steps have set.
CopiesAgree ==
  /\ scenario = "starting" => Agree(scoped, values)
  /\ scenario = "none" /\ loop = NoLoop => Agree(scoped, values)

Phases ==
  /\ scenario \in {"none", "starting", "running"}
  /\ taken \in 0..MaxSteps
  /\ LoopIn(loop) /\ (scenario = "starting" => loop = NoLoop)

Kept ==
  /\ DomainsIn(domains)
  /\ GoodIn(values, domains) /\ GoodIn(scoped, domains) /\ GoodIn(base, domains)
  /\ StoreIn(values, store)
  /\ Phases /\ CopiesAgree
-----------------------------------------------------------------------------
(* The effects of statements *)

Nothing == UNCHANGED <<values, store, domains>>

Stores(n, sv, g) ==
  /\ Put(n, sv, g) /\ UNCHANGED domains
  /\ sv.fromSecret => sv.secret = "yes"
  /\ n \in Dotted => sv.readonly = FALSE

\* A name of a stepper's is written by it, no other if it is read-only.
Writes ==
  \E n \in Name, sv \in Stored, g \in {"variables", "observation"} :
    Stores(n, sv, g) /\ (n \in Dotted \/ ~Refused(n, "any"))

\* A file overwrites any name.
Overwrites(n) == \E sv \in Stored : Stores(n, sv, "variables")

Unsets == \E n \in Name : values' = [values EXCEPT ![n] = Unset] /\ UNCHANGED <<store, domains>>

Declares == UNCHANGED <<values, store>> /\ DomainsIn(domains') /\ \A d \in DOMAIN domains : d \in DOMAIN domains' /\ domains'[d] = domains[d]

Permitted == Nothing \/ Writes \/ Unsets \/ Declares
Effect == Permitted \/ \E n \in Name : Overwrites(n)

\* What a statement of the vocabulary may contain.
LEMMA Statements ==
  ASSUME NEW s \in Vocabulary
  PROVE  /\ s.op \in {"set of", "ordered set of", "set of as"} => s.domain \in Declarable
         /\ s.op \in {"set of", "ordered set of"} => s.values \in Seq(Value)
         /\ s.op \in {"set", "setAs", "setRandom", "compose", "increment", "unset", "save", "read file", "every", "some"} => s.what \in Name
         /\ s.op \in {"set", "setAs"} => s.via \in SUBSET Name
         /\ s.op \in {"set", "setAs", "compose"} => s.source \in Source
         /\ s.op \in {"setAs", "compose", "every", "some"} => s.domain \in Declarable \union CoreDomain
         /\ s.op = "setAs" => s.readonly \in BOOLEAN
  <1>1. s \in Declaration \union Assignment
    BY VariablesAssumption
  <1>2. CASE s \in Declaration
    BY <1>2 DEF Declaration
  <1>3. CASE s \in Assignment
    BY <1>3 DEF Assignment
  <1>4. QED
    BY <1>1, <1>2, <1>3

\* What a source resolves to is a text.
LEMMA ResolvesToValue ==
  ASSUME Kept, NEW source \in Source, Resolvable(source)
  PROVE  Resolved(source) \in Value
  <1>1. CASE source \in [text : Value]
    <2>1. DOMAIN source = {"text"} /\ source.text \in Value
      BY <1>1
    <2>2. QED
      BY <2>1 DEF Resolved
  <1>2. CASE source \in [name : Name]
    <2>1. DOMAIN source = {"name"} /\ source.name \in Name
      BY <1>2
    <2>2. source.name \in DOMAIN Env => Env[source.name] \in Value
      BY VariablesAssumption
    <2>3. source.name \notin DOMAIN Env => values[source.name] \in Stored
      BY <2>1, Resolvable(source) DEF Resolvable, Kept, GoodIn
    <2>4. QED
      BY <2>1, <2>2, <2>3 DEF Resolved, Stored
  <1>3. QED
    BY <1>1, <1>2 DEF Source

\* A new domain leaves the others as they are.
LEMMA DefineDeclares ==
  ASSUME Kept, NEW d \in Declarable, NEW members \in SUBSET Value, NEW accepted \in SUBSET Value,
         members \subseteq accepted, NEW order \in Seq(members), Distinct(order),
         Define(d, [accepts |-> accepted, members |-> members, order |-> order]), UNCHANGED <<values, store>>
  PROVE  Declares
  <1> DEFINE definition == [accepts |-> accepted, members |-> members, order |-> order]
  <1>1. DOMAIN domains' = DOMAIN domains \union {d} /\ d \notin DOMAIN domains
    BY DEF Define
  <1>2. \A e \in DOMAIN domains : domains'[e] = domains[e]
    BY DEF Define
  <1>3. domains'[d] = definition
    BY DEF Define
  <1>4. \A e \in DOMAIN domains' :
          /\ domains'[e].accepts \subseteq Value /\ domains'[e].members \subseteq domains'[e].accepts
          /\ domains'[e].order \in Seq(domains'[e].members) /\ Distinct(domains'[e].order)
    <2> TAKE e \in DOMAIN domains'
    <2>1. CASE e = d
      BY <1>3, <2>1
    <2>2. CASE e # d
      BY <1>1, <1>2, <2>2 DEF Kept, DomainsIn
    <2>3. QED
      BY <2>1, <2>2
  <1>5. CoreDomain \subseteq DOMAIN domains' /\ DOMAIN domains' \subseteq CoreDomain \union Declarable
    BY <1>1 DEF Kept, DomainsIn
  <1>6. QED
    BY <1>1, <1>2, <1>4, <1>5 DEF Declares, DomainsIn

LEMMA DeclareHasEffect ==
  ASSUME Kept, NEW s \in Vocabulary, Declare(s)
  PROVE  Declares /\ AfterStep
  <1>1. CASE DefineValues(s)
    <2>0. s.domain \in Declarable /\ s.values \in Seq(Value)
      BY <1>1, Statements DEF DefineValues
    <2>1. ValuesOf(s.values) \subseteq Value
      BY <2>0 DEF ValuesOf
    <2>2. s.values \in Seq(ValuesOf(s.values)) /\ <<>> \in Seq(ValuesOf(s.values)) /\ Distinct(<<>>)
      BY <2>0 DEF ValuesOf, Distinct
    <2>3. PICK order \in Seq(ValuesOf(s.values)) : Distinct(order) /\ Define(s.domain, Enum(ValuesOf(s.values), order))
      BY <1>1, <2>2 DEF DefineValues
    <2>4. QED
      BY <1>1, <2>0, <2>1, <2>3, DefineDeclares DEF Enum, DefineValues
  <1>2. CASE DefineOpenSet(s)
    <2> DEFINE members == UNION {domains[d].members : d \in s.supers}
               accepted == UNION {domains[d].accepts : d \in s.supers}
    <2>1. s.domain \in Declarable /\ s.supers \subseteq DOMAIN domains
      BY <1>2, Statements DEF DefineOpenSet
    <2>2. accepted \in SUBSET Value /\ members \in SUBSET Value
      BY <2>1 DEF Kept, DomainsIn
    <2>3. <<>> \in Seq(members) /\ <<>> \in Seq({}) /\ Distinct(<<>>)
      BY DEF Distinct
    <2>4. \/ Define(s.domain, [accepts |-> members, members |-> members, order |-> <<>>])
          \/ Define(s.domain, [accepts |-> accepted, members |-> {}, order |-> <<>>])
      BY <1>2 DEF DefineOpenSet, Enum
    <2>5. UNCHANGED <<values, store>> /\ AfterStep
      BY <1>2 DEF DefineOpenSet
    <2> HIDE DEF members, accepted
    <2>6. QED
      BY <2>1, <2>2, <2>3, <2>4, <2>5, DefineDeclares
  <1>3. QED
    BY <1>1, <1>2 DEF Declare

LEMMA AssignHasEffect ==
  ASSUME Kept, NEW s \in Vocabulary, s.op \in {"set", "setAs"}, NEW n \in Name,
         NEW domain \in Declarable \union CoreDomain, NEW readonly \in BOOLEAN, Assign(s, n, domain, readonly)
  PROVE  (Nothing \/ Writes) /\ AfterStep
  <1> DEFINE sv == Assigned(s, domain, readonly)
  <1>1. s.source \in Source /\ Resolved(s.source) \in Value
    BY Statements, ResolvesToValue DEF Assign
  <1>2. sv \in Stored
    BY <1>1 DEF Assigned, Stored, EitherSecret, SecretOf, SecretVia, SecretSource
  <1>3. sv.fromSecret => sv.secret = "yes"
    <2>1. SecretSource(s.source) => SecretOf(s.source) = "yes"
      <3>1. CASE s.source \in [text : Value]
        <4>1. DOMAIN s.source = {"text"}
          BY <3>1
        <4>2. QED
          BY <4>1 DEF SecretSource
      <3>2. CASE s.source \in [name : Name]
        <4>1. DOMAIN s.source = {"name"}
          BY <3>2
        <4>2. QED
          BY <4>1 DEF SecretSource, SecretOf
      <3>3. QED
        BY <1>1, <3>1, <3>2 DEF Source
    <2>2. sv.fromSecret = (SecretVia(s) \/ SecretSource(s.source)) /\ sv.secret = EitherSecret(s)
      BY DEF Assigned
    <2>3. QED
      BY <2>1, <2>2 DEF EitherSecret
  <1>4. AfterStep /\ UNCHANGED domains
    BY DEF Assign
  <1>5. CASE Skipped(s, n)
    BY <1>4, <1>5 DEF Assign, Nothing
  <1>6. CASE ~Skipped(s, n)
    <2>1. ~Refused(n, "any") /\ Put(n, sv, "variables")
      BY <1>6 DEF Assign, Refused
    <2>2. n \notin Dotted
      BY <2>1 DEF Refused
    <2> HIDE DEF sv
    <2>3. QED
      BY <1>2, <1>3, <1>4, <2>1, <2>2 DEF Writes, Stores
  <1>7. QED
    BY <1>5, <1>6

LEMMA TextOverwrites ==
  ASSUME NEW n \in Name, TextIn(n), UNCHANGED domains
  PROVE  Overwrites(n)
  <1>1. PICK v \in Value : Put(n, [value |-> v, domain |-> "string", readonly |-> FALSE,
                                   secret |-> "unknown", fromSecret |-> FALSE], "variables")
    BY DEF TextIn
  <1>2. [value |-> v, domain |-> "string", readonly |-> FALSE, secret |-> "unknown", fromSecret |-> FALSE] \in Stored
    BY DEF Stored, CoreDomain
  <1>3. QED
    BY <1>1, <1>2 DEF Overwrites, Stores

LEMMA AssigningHasEffect ==
  ASSUME Kept, NEW s \in Vocabulary, Assigning(s)
  PROVE  /\ Permitted \/ (ReadFileInto(s) /\ s.what \in Name /\ Overwrites(s.what))
         /\ AfterStep
  <1>1. CASE Set(s)
    <2>1. s.op = "set" /\ s.what \in Name /\ s.via \in SUBSET Name
      BY <1>1, Statements DEF Set
    <2>2. PICK n \in Names(s) : Assign(s, n, IF values[n] = Unset THEN "string" ELSE values[n].domain, FALSE)
      BY <1>1 DEF Set
    <2>3. n \in Name
      BY <2>1 DEF Names
    <2>4. (IF values[n] = Unset THEN "string" ELSE values[n].domain) \in Declarable \union CoreDomain
      BY <2>3 DEF Kept, GoodIn, Stored, CoreDomain
    <2>5. QED
      BY <2>1, <2>2, <2>3, <2>4, AssignHasEffect DEF Permitted
  <1>2. CASE SetAs(s)
    <2>1. s.op = "setAs" /\ s.what \in Name /\ s.domain \in Declarable \union CoreDomain /\ s.readonly \in BOOLEAN
      BY <1>2, Statements DEF SetAs
    <2>2. PICK n \in Names(s) : Assign(s, n, s.domain, s.readonly)
      BY <1>2 DEF SetAs
    <2>3. n \in Name
      BY <2>1 DEF Names
    <2>4. QED
      BY <2>1, <2>2, <2>3, AssignHasEffect DEF Permitted
  <1>3. CASE SetRandom(s)
    <2>1. s.what \in Name /\ AfterStep /\ UNCHANGED domains
      BY <1>3, Statements DEF SetRandom
    <2>2. CASE Skipped(s, s.what)
      BY <1>3, <2>1, <2>2 DEF SetRandom, Permitted, Nothing
    <2>3. CASE ~Skipped(s, s.what)
      <3>1. ~Refused(s.what, "any") /\ Overwrites(s.what)
        BY <1>3, <2>1, <2>3, TextOverwrites DEF SetRandom, Refused
      <3>2. QED
        BY <2>1, <3>1 DEF Permitted, Writes, Overwrites
    <2>4. QED
      BY <2>2, <2>3
  <1>4. CASE Compose(s)
    <2> DEFINE sv == [value |-> Resolved(s.source), domain |-> s.domain, readonly |-> FALSE,
                      secret |-> IF SecretSource(s.source) THEN "yes" ELSE "no",
                      fromSecret |-> SecretSource(s.source)]
    <2>1. s.what \in Name /\ s.domain \in Declarable \union CoreDomain /\ s.source \in Source
      BY <1>4, Statements DEF Compose
    <2>2. Resolved(s.source) \in Value
      BY <1>4, <2>1, ResolvesToValue DEF Compose
    <2>3. sv \in Stored
      BY <2>1, <2>2 DEF Stored, SecretSource
    <2>4. ~Refused(s.what, "any") /\ Put(s.what, sv, "variables") /\ UNCHANGED domains /\ AfterStep
      BY <1>4 DEF Compose, Refused
    <2>5. (sv.fromSecret => sv.secret = "yes") /\ sv.readonly = FALSE
      OBVIOUS
    <2> HIDE DEF sv
    <2>6. QED
      BY <2>1, <2>3, <2>4, <2>5 DEF Permitted, Writes, Stores
  <1>5. CASE Increment(s)
    <2> DEFINE sv == values[s.what]
               order == domains[sv.domain].order
               list == IF order # <<>> THEN order ELSE Numerals
               next == NextIn(list, sv.value)
               new == [value |-> next, domain |-> sv.domain, readonly |-> FALSE,
                       secret |-> "unknown", fromSecret |-> FALSE]
    <2>1. s.what \in Name /\ AfterStep /\ UNCHANGED domains
      BY <1>5, Statements DEF Increment
    <2>2. sv \in Stored /\ sv.domain \in DOMAIN domains
      BY <1>5, <2>1 DEF Increment, Kept, GoodIn, MayHold
    <2>3. sv.value \in ValuesOf(list)
      BY <1>5 DEF Increment
    <2>4. list \in Seq(Value)
      BY <2>2, VariablesAssumption DEF Kept, DomainsIn
    <2>5. next \in Value
      <3> HIDE DEF sv, list
      <3>1. Place(list, sv.value) \in DOMAIN list
        BY <2>3 DEF Place, ValuesOf
      <3>2. QED
        BY <2>4, <3>1 DEF NextIn
    <2>6. new \in Stored
      BY <2>2, <2>5 DEF Stored
    <2>7. CASE next = sv.value
      BY <1>5, <2>1, <2>7 DEF Increment, Permitted, Nothing
    <2>8. CASE next # sv.value
      <3>1. ~Refused(s.what, "any") /\ Put(s.what, new, "variables")
        BY <1>5, <2>8 DEF Increment, Refused
      <3>2. new.fromSecret = FALSE /\ new.readonly = FALSE
        OBVIOUS
      <3> HIDE DEF new
      <3>3. QED
        BY <2>1, <2>6, <3>1, <3>2 DEF Permitted, Writes, Stores
    <2>9. QED
      BY <2>7, <2>8
  <1>6. CASE UnsetStep(s)
    BY <1>6, Statements DEF UnsetStep, Permitted, Unsets
  <1>7. CASE Save(s)
    <2>1. s.what \in Name /\ AfterStep /\ ~Refused(s.what, "any") /\ Overwrites(s.what)
      BY <1>7, Statements, TextOverwrites DEF Save, Refused
    <2>2. QED
      BY <2>1 DEF Permitted, Writes, Overwrites
  <1>8. CASE ReadFileInto(s)
    BY <1>8, Statements, TextOverwrites DEF ReadFileInto
  <1>9. QED
    BY <1>1, <1>2, <1>3, <1>4, <1>5, <1>6, <1>7, <1>8 DEF Assigning

\* A quantifier sets its variable, a stepper one of its own.
LEMMA NextValueHasEffect ==
  ASSUME Kept, NextValue
  PROVE  Writes /\ LoopIn(loop') /\ loop' # NoLoop /\ UNCHANGED scopes /\ scenario # "starting"
  <1>1. loop.what \in Name /\ loop \in [what : Name \union {Unset}, left : SUBSET Value]
    BY DEF NextValue, Kept, Phases, LoopIn
  <1>2. PICK v \in loop.left :
          /\ Put(loop.what, [value |-> v, domain |-> "string", readonly |-> FALSE,
                             secret |-> "unknown", fromSecret |-> FALSE], "variables")
          /\ loop' = [loop EXCEPT !.left = @ \ {v}]
    BY DEF NextValue
  <1>3. [value |-> v, domain |-> "string", readonly |-> FALSE, secret |-> "unknown", fromSecret |-> FALSE] \in Stored
    BY <1>1 DEF Stored, CoreDomain
  <1>4. ~Refused(loop.what, "any") /\ UNCHANGED domains /\ UNCHANGED scopes /\ scenario # "starting"
    BY DEF NextValue, Refused, CanStep
  <1>5. Writes
    BY <1>1, <1>2, <1>3, <1>4 DEF Writes, Stores
  <1>6. LoopIn(loop') /\ loop' # NoLoop
    <2>1. loop'.what = loop.what /\ loop' \in [what : Name \union {Unset}, left : SUBSET Value]
      BY <1>1, <1>2
    <2>2. loop' # NoLoop
      BY <1>1, <2>1, VariablesAssumption DEF NoLoop
    <2>3. QED
      BY <1>1, <2>1, <2>2 DEF LoopIn
  <1>7. QED
    BY <1>4, <1>5, <1>6

LEMMA SetForStepperHasEffect ==
  ASSUME SetForStepper
  PROVE  /\ Writes /\ UNCHANGED <<scopes, loop>>
         /\ \A n \in Name \ Dotted : values'[n] = values[n]
  <1>1. PICK n \in Dotted, v \in Value :
          Put(n, [value |-> v, domain |-> "string", readonly |-> FALSE,
                  secret |-> "unknown", fromSecret |-> FALSE], "observation")
    BY DEF SetForStepper
  <1>2. n \in Name
    BY VariablesAssumption
  <1>3. [value |-> v, domain |-> "string", readonly |-> FALSE, secret |-> "unknown", fromSecret |-> FALSE] \in Stored
    BY DEF Stored, CoreDomain
  <1>4. UNCHANGED domains /\ UNCHANGED <<scopes, loop>>
    BY DEF SetForStepper
  <1>5. Writes
    BY <1>1, <1>2, <1>3, <1>4 DEF Writes, Stores
  <1>6. \A m \in Name \ Dotted : values'[m] = values[m]
    <2>1. PICK sv : values' = [values EXCEPT ![n] = sv]
      BY <1>1 DEF Put
    <2>2. QED
      BY <2>1
  <1>7. QED
    BY <1>4, <1>5, <1>6
-----------------------------------------------------------------------------
(* What effects preserve *)

\* Variables that are not written stay good when domains are added.
LEMMA GoodStays ==
  ASSUME NEW F, NEW D, NEW E, GoodIn(F, D), \A d \in DOMAIN D : d \in DOMAIN E /\ E[d] = D[d]
  PROVE  GoodIn(F, E)
  BY DEF GoodIn, MayHold

\* What was read-only stays or is unset.
Respected == \A n \in Name : values[n] # Unset /\ values[n].readonly => values'[n] \in {values[n], Unset}

LEMMA EffectIsGood ==
  ASSUME Kept, Effect
  PROVE  /\ DomainsIn(domains')
         /\ GoodIn(values', domains') /\ GoodIn(scoped, domains') /\ GoodIn(base, domains')
         /\ StoreIn(values', store')
  <1>1. CASE Nothing
    BY <1>1 DEF Nothing, Kept
  <1>2. ASSUME NEW n \in Name, NEW sv \in Stored, NEW g \in {"variables", "observation"}, Stores(n, sv, g)
        PROVE  /\ GoodIn(values', domains) /\ StoreIn(values', store') /\ UNCHANGED domains
    <2>1. /\ Put(n, sv, g) /\ UNCHANGED domains
          /\ sv.fromSecret => sv.secret = "yes"
          /\ n \in Dotted => sv.readonly = FALSE
      BY <1>2 DEF Stores
    <2>2. /\ values' = [values EXCEPT ![n] = sv] /\ store' = [store EXCEPT ![n] = Quad(sv, g)]
          /\ values \in [Name -> Stored \union {Unset}] /\ DOMAIN store = Name
      BY <2>1 DEF Put, Kept, GoodIn, StoreIn
    <2>3. MayHold(domains, n, sv)
      BY <2>1 DEF Put, Valid, Accepts, MayHold
    <2>4. values' \in [Name -> Stored \union {Unset}]
      BY <2>2
    <2>5. values'[n] = sv /\ \A m \in Name \ {n} : values'[m] = values[m]
      BY <2>2
    <2>6. GoodIn(values', domains)
      BY <2>3, <2>4, <2>5 DEF GoodIn, Kept
    <2>7. StoreIn(values', store')
      <3>1. DOMAIN store' = Name /\ store'[n] = Quad(sv, g) /\ \A m \in Name \ {n} : store'[m] = store[m]
        BY <2>2
      <3>2. Quad(sv, g) # Unset
        BY VariablesAssumption DEF Quad, Quads, Stored
      <3>3. Quad(sv, g).predicate = sv.domain /\ Quad(sv, g).object = sv.value
        BY DEF Quad
      <3>4. QED
        BY <2>5, <3>1, <3>2, <3>3 DEF StoreIn, Kept
    <2>8. QED
      BY <2>1, <2>6, <2>7
  <1>3. CASE Unsets
    <2>1. PICK n \in Name : values' = [values EXCEPT ![n] = Unset] /\ UNCHANGED <<store, domains>>
      BY <1>3 DEF Unsets
    <2>2. values \in [Name -> Stored \union {Unset}]
      BY DEF Kept, GoodIn
    <2>3. values' \in [Name -> Stored \union {Unset}]
      BY <2>1, <2>2
    <2>4. values'[n] = Unset /\ \A m \in Name \ {n} : values'[m] = values[m]
      BY <2>1, <2>2
    <2>5. GoodIn(values', domains)
      BY <2>3, <2>4 DEF GoodIn, Kept
    <2>6. StoreIn(values', store)
      BY <2>4 DEF StoreIn, Kept
    <2>7. QED
      BY <2>1, <2>5, <2>6 DEF Kept
  <1>4. CASE Declares
    BY <1>4, GoodStays DEF Declares, Kept
  <1>5. CASE Writes \/ \E n \in Name : Overwrites(n)
    BY <1>2, <1>5 DEF Writes, Overwrites, Kept
  <1>6. QED
    BY <1>1, <1>3, <1>4, <1>5 DEF Effect, Permitted

LEMMA PermittedRespects ==
  ASSUME Kept, Permitted
  PROVE  Respected
  <1>1. CASE Nothing \/ Unsets \/ Declares
    BY <1>1 DEF Nothing, Unsets, Declares, Respected, Kept, GoodIn
  <1>2. CASE Writes
    <2> SUFFICES ASSUME NEW m \in Name, values[m] # Unset, values[m].readonly
                 PROVE  values'[m] \in {values[m], Unset}
      BY DEF Respected
    <2>1. PICK n \in Name, sv \in Stored : values' = [values EXCEPT ![n] = sv] /\ (n \in Dotted \/ ~Refused(n, "any"))
      BY <1>2 DEF Writes, Stores, Put
    <2>2. m # n
      BY <2>1 DEF Refused, Kept, GoodIn, MayHold
    <2>3. QED
      BY <2>1, <2>2
  <1>3. QED
    BY <1>1, <1>2 DEF Permitted

\* A file overwrites no other variable.
LEMMA FileOverwritesOne ==
  ASSUME NEW n \in Name, Overwrites(n), NEW m \in Name \ {n}
  PROVE  values'[m] = values[m]
  <1>1. PICK sv : values' = [values EXCEPT ![n] = sv]
    BY DEF Overwrites, Stores, Put
  <1>2. QED
    BY <1>1
-----------------------------------------------------------------------------
(* The invariant *)

LEMMA KeptAtFirst ==
  Init => Kept
  <1> SUFFICES ASSUME Init PROVE Kept
    OBVIOUS
  <1>1. DomainsIn(domains)
    <2>1. Number \subseteq Value
      BY VariablesAssumption DEF Number
    <2>2. <<>> \in Seq({}) /\ Distinct(<<>>)
      BY DEF Distinct
    <2>3. QED
      BY <2>1, <2>2 DEF Init, CoreDomains, CoreDomain, DomainsIn
  <1>2. /\ GoodIn(values, domains) /\ GoodIn(scoped, domains) /\ GoodIn(base, domains)
        /\ StoreIn(values, store)
    BY DEF Init, NoVariables, GoodIn, StoreIn
  <1>3. Phases
    BY VariablesAssumption DEF Init, Phases, LoopIn, NoLoop
  <1>4. CopiesAgree
    BY DEF Init, CopiesAgree, Agree
  <1>5. QED
    BY <1>1, <1>2, <1>3, <1>4 DEF Kept

\* A copy is good and its store agrees with it.
LEMMA CopyIsGood ==
  ASSUME NEW F, NEW D, GoodIn(F, D)
  PROVE  StoreIn(F, StoreOf(F))
  <1> SUFFICES ASSUME NEW n \in Name, F[n] # Unset
               PROVE  /\ StoreOf(F)[n] # Unset
                      /\ StoreOf(F)[n].predicate = F[n].domain /\ StoreOf(F)[n].object = F[n].value
    BY DEF StoreIn, StoreOf
  <1>1. F[n] \in Stored /\ StoreOf(F)[n] = Quad(F[n], "variables")
    BY DEF GoodIn, StoreOf
  <1>2. Quad(F[n], "variables") \in Quads
    BY <1>1 DEF Quad, Quads, Stored
  <1>3. QED
    BY <1>1, <1>2, VariablesAssumption DEF Quad

\* Steps, whatever their effect.
LEMMA StepKeeps ==
  ASSUME Kept, Effect, AfterStep, CanStep, taken' \in 0..MaxSteps
  PROVE  Kept'
  <1>1. /\ DomainsIn(domains')
        /\ GoodIn(values', domains') /\ GoodIn(scoped, domains') /\ GoodIn(base, domains')
        /\ StoreIn(values', store')
    BY EffectIsGood
  <1>2. GoodIn(scoped', domains') /\ GoodIn(base', domains') /\ UNCHANGED <<scenario, loop>>
    BY <1>1 DEF AfterStep
  <1>3. Phases'
    BY <1>2 DEF Phases, Kept
  <1>4. CopiesAgree'
    BY <1>2 DEF CopiesAgree, AfterStep, CanStep, Agree
  <1>5. QED
    BY <1>1, <1>2, <1>3, <1>4 DEF Kept

\* Quantifiers, scenarios and features.
LEMMA ControlKeeps ==
  ASSUME Kept, UNCHANGED taken,
         EndQuantifier \/ NewFeature \/ FeatureLine \/ ScenarioLine \/ StartScenario
  PROVE  Kept'
  <1> USE DEF Kept
  <1>0. NoVariables \in [Name -> Stored \union {Unset}] /\ LoopIn(NoLoop)
    BY DEF NoVariables, LoopIn, NoLoop
  <1>1. CASE EndQuantifier
    <2>1. GoodIn(scoped', domains') /\ GoodIn(base', domains') /\ UNCHANGED <<domains, values, store, scenario>> /\ loop' = NoLoop
      BY <1>1 DEF EndQuantifier
    <2>2. Phases'
      BY <1>0, <2>1 DEF Phases
    <2>3. CopiesAgree'
      BY <1>1, <2>1 DEF EndQuantifier, CopiesAgree, Agree, CanStep
    <2>4. QED
      BY <2>1, <2>2, <2>3
  <1>2. CASE NewFeature
    <2>1. GoodIn(NoVariables, domains)
      BY <1>0 DEF NoVariables, GoodIn
    <2>2. StoreIn(values', store')
      BY <1>2 DEF NewFeature, NoVariables, StoreIn
    <2>3. Phases'
      BY <1>0, <1>2 DEF Phases, NewFeature
    <2>4. CopiesAgree'
      BY <1>2 DEF NewFeature, CopiesAgree, Agree
    <2>5. QED
      BY <1>2, <2>1, <2>2, <2>3, <2>4 DEF NewFeature
  <1>3. CASE FeatureLine
    <2>1. StoreIn(base, StoreOf(base))
      BY CopyIsGood
    <2>2. Phases'
      BY <1>3 DEF Phases, FeatureLine
    <2>3. CopiesAgree'
      BY <1>3 DEF FeatureLine, CopiesAgree, Agree
    <2>4. QED
      BY <1>3, <2>1, <2>2, <2>3 DEF FeatureLine
  <1>4. CASE ScenarioLine
    <2>1. GoodIn(scoped', domains')
      BY <1>4 DEF ScenarioLine, ScopedAtEnd
    <2>2. Phases'
      BY <1>4 DEF Phases, ScenarioLine
    <2>3. CopiesAgree'
      BY <1>4 DEF ScenarioLine, ScopedAtEnd, CopiesAgree, Agree
    <2>4. QED
      BY <1>4, <2>1, <2>2, <2>3 DEF ScenarioLine
  <1>5. CASE StartScenario
    <2>1. StoreIn(scoped, StoreOf(scoped))
      BY CopyIsGood
    <2>2. Phases'
      BY <1>5 DEF Phases, StartScenario
    <2>3. CopiesAgree'
      BY <1>5 DEF StartScenario, CopiesAgree
    <2>4. QED
      BY <1>5, <2>1, <2>2, <2>3 DEF StartScenario, CopiedStore
  <1>6. QED
    BY <1>1, <1>2, <1>3, <1>4, <1>5

\* Effects outside of steps of a feature: of a quantifier and of a stepper.
LEMMA EventKeeps ==
  ASSUME Kept, NextValue \/ SetForStepper, taken' \in 0..MaxSteps
  PROVE  Kept'
  <1>1. CASE NextValue
    <2>1. Effect /\ LoopIn(loop') /\ loop' # NoLoop /\ UNCHANGED scopes /\ scenario # "starting"
      BY <1>1, NextValueHasEffect DEF Effect, Permitted
    <2>2. /\ DomainsIn(domains')
          /\ GoodIn(values', domains') /\ GoodIn(scoped, domains') /\ GoodIn(base, domains')
          /\ StoreIn(values', store')
      BY <2>1, EffectIsGood
    <2>3. QED
      BY <2>1, <2>2 DEF Kept, Phases, CopiesAgree, scopes
  <1>2. CASE SetForStepper
    <2>1. Effect /\ UNCHANGED <<scopes, loop>> /\ \A n \in Name \ Dotted : values'[n] = values[n]
      BY <1>2, SetForStepperHasEffect DEF Effect, Permitted
    <2>2. /\ DomainsIn(domains')
          /\ GoodIn(values', domains') /\ GoodIn(scoped, domains') /\ GoodIn(base, domains')
          /\ StoreIn(values', store')
      BY <2>1, EffectIsGood
    <2>3. Agree(scoped, values) => Agree(scoped, values')
      BY <2>1 DEF Agree
    <2>4. QED
      BY <2>1, <2>2, <2>3 DEF Kept, Phases, CopiesAgree, scopes
  <1>3. QED
    BY <1>1, <1>2

LEMMA NextKeeps ==
  Kept /\ [Next]_vars => Kept'
  <1> SUFFICES ASSUME Kept, [Next]_vars PROVE Kept'
    OBVIOUS
  <1>1. taken \in 0..MaxSteps /\ MaxSteps \in Nat
    BY VariablesAssumption DEF Kept, Phases
  <1>2. Count => taken' \in 0..MaxSteps
    BY <1>1 DEF Count
  <1>3. ASSUME NEW s \in Vocabulary, Count, Declare(s) PROVE Kept'
    <2>1. CanStep
      BY <1>3 DEF Declare, DefineValues, DefineOpenSet
    <2>2. QED
      BY <1>2, <1>3, <2>1, DeclareHasEffect, StepKeeps DEF Effect, Permitted
  <1>4. ASSUME NEW s \in Vocabulary, Count, Assigning(s) PROVE Kept'
    <2>1. CanStep
      BY <1>4 DEF Assigning, Set, SetAs, SetRandom, Compose, Increment, UnsetStep, Save, ReadFileInto
    <2>2. QED
      BY <1>2, <1>4, <2>1, AssigningHasEffect, StepKeeps DEF Effect
  <1>5. ASSUME NEW s \in Vocabulary, Count, BeginQuantifier(s) PROVE Kept'
    <2>1. s.what \in Name /\ s.domain \in DOMAIN domains
      BY <1>5, Statements DEF BeginQuantifier
    <2>2. DomainValues(s.domain) \subseteq Value
      <3>1. domains[s.domain].members \subseteq Value
        BY <2>1 DEF Kept, DomainsIn
      <3>2. \A n \in Name : values[n] # Unset => values[n].value \in Value
        BY DEF Kept, GoodIn, Stored
      <3>3. QED
        BY <3>1, <3>2 DEF DomainValues
    <2>3. loop' = [what |-> s.what, left |-> DomainValues(s.domain)] /\ loop' # NoLoop
      BY <1>5, <2>1, VariablesAssumption DEF BeginQuantifier, NoLoop
    <2>4. LoopIn(loop')
      BY <2>1, <2>2, <2>3 DEF LoopIn
    <2>5. UNCHANGED <<domains, values, store, scopes>> /\ CanStep
      BY <1>5 DEF BeginQuantifier
    <2>6. QED
      BY <1>2, <1>5, <2>3, <2>4, <2>5 DEF Kept, Phases, CopiesAgree, scopes, CanStep
  <1>6. ASSUME Count, SetForStepper PROVE Kept'
    BY <1>2, <1>6, EventKeeps
  <1>7. ASSUME UNCHANGED taken, NextValue PROVE Kept'
    BY <1>1, <1>7, EventKeeps
  <1>8. ASSUME UNCHANGED taken, OtherStep PROVE Kept'
    BY <1>1, <1>8, StepKeeps DEF OtherStep, Effect, Permitted, Nothing
  <1>9. ASSUME UNCHANGED taken, EndQuantifier \/ NewFeature \/ FeatureLine \/ ScenarioLine \/ StartScenario
        PROVE  Kept'
    BY <1>9, ControlKeeps
  <1>10. ASSUME UNCHANGED vars PROVE Kept'
    BY <1>10 DEF vars, Kept, Phases, CopiesAgree
  <1>11. QED
    BY <1>3, <1>4, <1>5, <1>6, <1>7, <1>8, <1>9, <1>10 DEF Next

LEMMA KeptInvariant ==
  Spec => []Kept
  BY KeptAtFirst, NextKeeps, PTL DEF Spec
-----------------------------------------------------------------------------
\* The types of Variables.
THEOREM VariablesTypes ==
  Spec => []TypeOK
<1>1. Kept => TypeOK
  BY DEF Kept, TypeOK, DomainsIn, GoodIn, Phases, LoopIn
<1>2. QED
  BY <1>1, KeptInvariant, PTL

\* A variable's value is one of its domain's, whatever set it and whatever copy
\* it came back from (FeatureVariables._set, doFeature's scopes).
THEOREM StaysInDomain ==
  Spec => []InDomain
<1>1. Kept => InDomain
  BY DEF Kept, InDomain, GoodIn, MayHold, Accepts
<1>2. QED
  BY <1>1, KeptInvariant, PTL

\* What was set or composed from a secret value is secret (interpolateTemplate,
\* set, compose), also after it was copied to another scope.
THEOREM SecretsKept ==
  Spec => []SecretsStaySecret
<1>1. Kept => SecretsStaySecret
  BY DEF Kept, SecretsStaySecret, GoodIn, MayHold, IsSecret
<1>2. QED
  BY <1>1, KeptInvariant, PTL

\* The store agrees with the values (storeAsQuad, the constructor's copy).
THEOREM StoreKeepsUp ==
  Spec => []StoreAgrees
<1>1. Kept => StoreAgrees
  BY DEF Kept, StoreAgrees, StoreIn
<1>2. QED
  BY <1>1, KeptInvariant, PTL

\* No statement writes a read-only variable (FeatureVariables.set).
THEOREM ReadOnlyKept ==
  Spec => ReadOnlyStays
<1> DEFINE Read(n) == \E s \in Vocabulary : ReadFileInto(s) /\ s.what = n
           Stays == \A n \in Name : values[n] # Unset /\ values[n].readonly /\ scenario' = scenario
                                     => values'[n] \in {values[n], Unset} \/ Read(n)
<1>1. Kept /\ [Next]_vars => [Stays]_vars
  <2> SUFFICES ASSUME Kept, Next, scenario' = scenario
               PROVE  \A n \in Name : values[n] # Unset /\ values[n].readonly
                                       => values'[n] \in {values[n], Unset} \/ Read(n)
    OBVIOUS
  <2>1. ASSUME Permitted PROVE Respected
    BY <2>1, PermittedRespects
  <2>2. ASSUME UNCHANGED values PROVE Respected
    BY <2>2 DEF Respected
  <2>3. ASSUME NEW s \in Vocabulary, Declare(s) PROVE Respected
    BY <2>1, <2>3, DeclareHasEffect DEF Permitted
  <2>4. ASSUME NEW s \in Vocabulary, Assigning(s)
        PROVE  Respected \/ \A n \in Name : values'[n] = values[n] \/ Read(n)
    <3>1. CASE Permitted
      BY <2>1, <3>1
    <3>2. CASE ReadFileInto(s) /\ s.what \in Name /\ Overwrites(s.what)
      <4>1. \A n \in Name : n # s.what => values'[n] = values[n]
        BY <3>2, FileOverwritesOne
      <4>2. Read(s.what)
        BY <3>2
      <4>3. QED
        BY <4>1, <4>2
    <3>3. QED
      BY <2>4, <3>1, <3>2, AssigningHasEffect
  <2>5. ASSUME NextValue \/ SetForStepper PROVE Respected
    BY <2>1, <2>5, NextValueHasEffect, SetForStepperHasEffect DEF Permitted
  <2>6. ASSUME NewFeature PROVE Respected
    BY <2>6 DEF NewFeature, NoVariables, Respected
  <2>7. ~FeatureLine /\ ~ScenarioLine /\ ~StartScenario
    BY DEF FeatureLine, ScenarioLine, StartScenario
  <2>8. (\E s \in Vocabulary : BeginQuantifier(s)) \/ EndQuantifier \/ OtherStep => UNCHANGED values
    BY DEF BeginQuantifier, EndQuantifier, OtherStep
  <2>9. Respected \/ \A n \in Name : values'[n] = values[n] \/ Read(n)
    BY <2>2, <2>3, <2>4, <2>5, <2>6, <2>7, <2>8 DEF Next
  <2>10. QED
    BY <2>9 DEF Respected
<1>2. ReadOnlyStays <=> [][Stays]_vars
  BY DEF ReadOnlyStays
<1>3. QED
  BY <1>1, <1>2, KeptInvariant, PTL DEF Spec

\* A scenario begins with what steps set before it (doFeature, startScenario).
THEOREM ScenariosKeep ==
  Spec => ScenariosKeepVariables
<1>1. Kept /\ [Next]_vars => [StartScenario => \A n \in Name \ Dotted : values'[n] = values[n]]_vars
  BY DEF Kept, CopiesAgree, Agree, StartScenario
<1>2. QED
  BY <1>1, KeptInvariant, PTL DEF Spec, ScenariosKeepVariables

\* In a list without duplicates a text has one place.
LEMMA OnePlace ==
  ASSUME NEW list, Distinct(list), NEW k \in DOMAIN list
  PROVE  Place(list, list[k]) = k
  BY DEF Place, Distinct

\* An increment takes the next value of an ordered domain, passing over none, and stays at its last
\* (the increment step).
THEOREM TakesTheNext ==
  Spec => IncrementTakesNext
<1> DEFINE Order(s) == domains[values[s.what].domain].order
           Here(s) == Place(Order(s), values[s.what].value)
           There(s) == Place(Order(s), values'[s.what].value)
           Takes(s) == Order(s) # <<>> =>
             /\ IF Here(s) = Len(Order(s)) THEN There(s) = Here(s) ELSE Here(s) < There(s)
             /\ \A w \in ValuesOf(Order(s)) : Here(s) < Place(Order(s), w) => There(s) <= Place(Order(s), w)
<1>1. ASSUME Kept, NEW s \in Vocabulary, Increment(s) PROVE Takes(s)
  <2> DEFINE sv == values[s.what]
             order == Order(s)
             k == Place(order, sv.value)
  <2>1. s.what \in Name /\ sv # Unset
    BY <1>1, Statements DEF Increment
  <2>2. sv.domain \in DOMAIN domains /\ DOMAIN values = Name
    BY <1>1, <2>1 DEF Kept, GoodIn, MayHold
  <2>3. order \in Seq(Value) /\ Distinct(order)
    BY <1>1, <2>2 DEF Kept, DomainsIn
  <2> SUFFICES ASSUME order # <<>>
               PROVE  LET there == Place(order, values'[s.what].value)
                      IN  /\ IF k = Len(order) THEN there = k ELSE k < there
                          /\ \A w \in ValuesOf(order) : k < Place(order, w) => there <= Place(order, w)
    OBVIOUS
  <2>5. sv.value \in ValuesOf(order)
    BY <1>1 DEF Increment
  <2>6. values'[s.what].value = NextIn(order, sv.value)
    <3>1. CASE NextIn(order, sv.value) = sv.value
      BY <1>1, <3>1 DEF Increment
    <3>2. CASE NextIn(order, sv.value) # sv.value
      BY <1>1, <2>1, <2>2, <3>2 DEF Increment, Put
    <3>3. QED
      BY <3>1, <3>2
  <2> HIDE DEF sv, order
  <2>7. k \in DOMAIN order
    BY <2>5 DEF Place, ValuesOf
  <2>8. \A w \in ValuesOf(order) : Place(order, w) \in DOMAIN order
    BY DEF Place, ValuesOf
  <2>9. IF k = Len(order) THEN Place(order, NextIn(order, sv.value)) = k
                          ELSE Place(order, NextIn(order, sv.value)) = k + 1
    <3>1. CASE k = Len(order)
      BY <2>3, <2>7, <3>1, OnePlace DEF NextIn
    <3>2. CASE k # Len(order)
      <4>1. k + 1 \in DOMAIN order /\ NextIn(order, sv.value) = order[k + 1]
        BY <2>3, <2>7, <3>2 DEF NextIn
      <4> QED
        BY <2>3, <3>2, <4>1, OnePlace
    <3>3. QED
      BY <3>1, <3>2
  <2>10. QED
    BY <2>3, <2>6, <2>7, <2>8, <2>9
<1>2. Kept /\ [Next]_vars => [\A s \in Vocabulary : Increment(s) => Takes(s)]_vars
  BY <1>1
<1>3. IncrementTakesNext <=> [][\A s \in Vocabulary : Increment(s) => Takes(s)]_vars
  BY DEF IncrementTakesNext
<1>4. QED
  BY <1>2, <1>3, KeptInvariant, PTL DEF Spec

\* The two of them that speak of the values of one state, as the runs check them.
THEOREM ValuesSafe ==
  Spec => []ValuesAreSafe
<1>1. InDomain /\ SecretsStaySecret => ValuesAreSafe
  BY DEF ValuesAreSafe
<1>2. QED
  BY <1>1, StaysInDomain, SecretsKept, PTL

\* The three that speak of what a step may do to a value: read-only ones stay,
\* a scenario begins with what was set, an increment takes the next value.
THEOREM StepsRespect ==
  Spec => StepsRespectValues
<1>1. ReadOnlyStays /\ ScenariosKeepVariables /\ IncrementTakesNext => StepsRespectValues
  BY DEF StepsRespectValues
<1>2. QED
  BY <1>1, ReadOnlyKept, ScenariosKeep, TakesTheNext
===============================================================================
