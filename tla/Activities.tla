------------------------------ MODULE Activities ------------------------------
(***************************************************************************)
(* Which outcomes a statement can mean.  ActivitiesStepper adds a step for  *)
(* every waypoint of an activity that the resolver meets, first in all the  *)
(* backgrounds, then in each feature; what a feature defined is taken away  *)
(* before the next one is resolved, and again, by the hooks, when the       *)
(* features are executed one after the other.                               *)
(*                                                                         *)
(* A statement within a line (of ensure, not, ...) is resolved twice: to    *)
(* check the line, and again when the line is executed.                     *)
(***************************************************************************)
EXTENDS Integers, Sequences

CONSTANTS
  Outcome,      \* the texts after "waypoint"
  Statement,    \* the statements within lines
  Matches,      \* per statement, the outcomes whose pattern it matches
  Backgrounds,  \* the paths of the backgrounds, in the order they are read
  Features,     \* the paths of the features, in the order they run
  Projects,     \* the contents the files may have: per path its expanded lines
  NoPath        \* no such step

Files == Backgrounds \o Features
Path == {Files[n] : n \in DOMAIN Files}

\* path.includes('backgrounds/')
IsBackground(path) == \E n \in DOMAIN Backgrounds : Backgrounds[n] = path
IsFeature(n) == n > Len(Backgrounds)

\* A line comes from the file itself or from a background that it includes.
LinesOf(path) ==
  Seq([kind : {"waypoint"}, text : Outcome, from : {path} \union {q \in Path : IsBackground(q)}]
      \union [kind : {"ensure"}, text : Statement, from : Path]
      \union [kind : {"activity", "header", "step"}, text : {NoPath}, from : Path])

ASSUME ActivitiesAssumption ==
  /\ Matches \in [Statement -> SUBSET Outcome]
  /\ Backgrounds \in Seq(Path) /\ Features \in Seq(Path) /\ Features # <<>>
  /\ \A m, n \in DOMAIN Files : Files[m] = Files[n] => m = n
  /\ NoPath \notin Path
  /\ \A project \in Projects : DOMAIN project = Path /\ \A p \in Path : project[p] \in LinesOf(p)

VARIABLES
  content,             \* the lines of each file
  phase,               \* "resolve", "failed", "execute", "executing" or "done"
  current,             \* the file that is resolved or executed
  position,            \* the next of its lines
  steps,               \* this.steps: per outcome the file of its waypoint, or NoPath
  backgroundSteps,
  featureSteps,        \* per path, steps
  outcomePatterns,     \* backgroundOutcomePatterns and featureOutcomePatterns
  inActivityBlock,
  lastResolutionPath,
  lastFeaturePath,
  errors,              \* a line of the present feature was not resolved
  resolved             \* history variable: [file, statement, outcome, from]

stepper == <<steps, backgroundSteps, featureSteps, outcomePatterns, inActivityBlock>>
activitiesVars == <<content, phase, current, position, stepper, lastResolutionPath, lastFeaturePath, errors, resolved>>

NoSteps == [o \in Outcome |-> NoPath]

ActivitiesInit ==
  /\ content \in Projects
  /\ phase = "resolve" /\ current = 1 /\ position = 1
  /\ steps = NoSteps /\ backgroundSteps = NoSteps
  /\ featureSteps = [p \in Path |-> NoSteps]
  /\ outcomePatterns = {} /\ inActivityBlock = FALSE
  /\ lastResolutionPath = (IF IsFeature(1) THEN Files[1] ELSE NoPath) /\ lastFeaturePath = NoPath
  /\ errors = FALSE /\ resolved = {}

Lines(n) == content[Files[n]]

\* The steps with those of others, where there are any, put over them.
Over(under, others) == [o \in Outcome |-> IF others[o] # NoPath THEN others[o] ELSE under[o]]

\* delete this.steps[outcome] for what a feature defined
Without(all, path) ==
  [o \in Outcome |-> IF path # NoPath /\ featureSteps[path][o] # NoPath THEN NoPath ELSE all[o]]

\* Variant: the steps of the file before stay.
KeepsPrevious(last, path) == Over(Over(steps, featureSteps[path]), backgroundSteps)

\* Variant: only the feature's own steps are left.
DropsBackgrounds(last, path) == Over(NoSteps, featureSteps[path])

\* What startFeatureResolution and the startFeature hook make of the steps.
StepsFor(last, path) ==
  Over(Over(IF last = path THEN steps ELSE Without(steps, last), featureSteps[path]), backgroundSteps)

\* The outcomes that a statement can be resolved to.
Candidates(statement) == {o \in Matches[statement] : steps[o] # NoPath}
-----------------------------------------------------------------------------
\* Resolver: the backgrounds, then the features, line by line.

Reading == phase = "resolve" /\ position <= Len(Lines(current))
AtLine == Lines(current)[position]

\* Each line is passed to resolveFeatureLine, whatever it is.
PassLine ==
  /\ position' = position + 1
  /\ lastResolutionPath' = Files[current]
  /\ UNCHANGED <<content, phase, current, lastFeaturePath>>

BeginActivity ==
  /\ Reading /\ AtLine.kind = "activity"
  /\ inActivityBlock' = TRUE
  /\ PassLine
  /\ UNCHANGED <<steps, backgroundSteps, featureSteps, outcomePatterns, errors, resolved>>

\* Feature:, Scenario: and Background:, steps themselves, end an activity.
EndActivity ==
  /\ Reading /\ AtLine.kind = "header"
  /\ inActivityBlock' = FALSE
  /\ PassLine
  /\ UNCHANGED <<steps, backgroundSteps, featureSteps, outcomePatterns, errors, resolved>>

\* A further waypoint before the next header.
HasMoreWaypoints(lines, at) ==
  \E w \in at + 1..Len(lines) :
    /\ lines[w].kind = "waypoint"
    /\ \A i \in at + 1..w : lines[i].kind \notin {"activity", "header"}

\* Variant: the outcome is not remembered.
DoesNotRemember(outcome, path, from) ==
  IF outcome \in outcomePatterns THEN UNCHANGED <<steps, backgroundSteps, featureSteps, outcomePatterns>>
  ELSE /\ steps' = [steps EXCEPT ![outcome] = from]
       /\ featureSteps' = [featureSteps EXCEPT ![path][outcome] = from]
       /\ UNCHANGED <<backgroundSteps, outcomePatterns>>

\* resolveWaypointCommon and registerOutcome.  An outcome that was met before,
\* in whatever file, is passed over, so that registerOutcome never finds the
\* step of another definition, which it would refuse.
RegisterOutcome(outcome, path, from) ==
  IF outcome \in outcomePatterns THEN UNCHANGED <<steps, backgroundSteps, featureSteps, outcomePatterns>>
  ELSE /\ outcomePatterns' = outcomePatterns \union {outcome}
       /\ steps' = [steps EXCEPT ![outcome] = from]
       /\ IF IsBackground(path)
          THEN backgroundSteps' = [backgroundSteps EXCEPT ![outcome] = from] /\ UNCHANGED featureSteps
          ELSE featureSteps' = [featureSteps EXCEPT ![path][outcome] = from] /\ UNCHANGED backgroundSteps

Waypoint ==
  /\ Reading /\ AtLine.kind = "waypoint" /\ inActivityBlock
  /\ RegisterOutcome(AtLine.text, Files[current], Lines(current)[position].from)
  /\ inActivityBlock' = HasMoreWaypoints(Lines(current), position)
  /\ PassLine
  /\ UNCHANGED <<errors, resolved>>

\* Any other line of an activity is skipped: it is no step of the feature.
Swallow ==
  /\ Reading /\ AtLine.kind \in {"ensure", "step"} /\ inActivityBlock
  /\ PassLine
  /\ UNCHANGED <<stepper, errors, resolved>>

\* A line with a statement, which must have one meaning.  In a background a
\* line without one is a warning.
ResolveStatement ==
  /\ Reading /\ AtLine.kind = "ensure" /\ ~inActivityBlock
  /\ \/ \E o \in Candidates(AtLine.text) :
          /\ Candidates(AtLine.text) = {o}
          /\ resolved' = resolved \union
               {[file |-> current, statement |-> AtLine.text, outcome |-> o, from |-> steps[o]]}
          /\ UNCHANGED errors
     \/ /\ \A o \in Candidates(AtLine.text) : Candidates(AtLine.text) # {o}
        /\ IF IsFeature(current) THEN errors' = TRUE ELSE UNCHANGED errors
        /\ UNCHANGED resolved
  /\ PassLine
  /\ UNCHANGED stepper

\* Any other line is a step of some other stepper; so is a waypoint that is in
\* no activity.
ResolveOther ==
  /\ Reading /\ AtLine.kind \in {"step", "waypoint"} /\ ~inActivityBlock
  /\ PassLine
  /\ UNCHANGED <<stepper, errors, resolved>>

\* A feature with a line that was not resolved ends the run.
ResolutionFails ==
  /\ phase = "resolve" /\ position > Len(Lines(current)) /\ errors
  /\ phase' = "failed"
  /\ UNCHANGED <<content, current, position, stepper, lastResolutionPath, lastFeaturePath, errors, resolved>>

\* startFeatureResolution precedes the lines of a feature, not of a background.
NextFile ==
  /\ phase = "resolve" /\ position > Len(Lines(current)) /\ ~errors
  /\ current < Len(Files)
  /\ current' = current + 1 /\ position' = 1
  /\ IF IsFeature(current + 1)
     THEN /\ steps' = StepsFor(lastResolutionPath, Files[current + 1])
          /\ lastResolutionPath' = Files[current + 1]
     ELSE UNCHANGED <<steps, lastResolutionPath>>
  /\ UNCHANGED <<content, phase, backgroundSteps, featureSteps, outcomePatterns, inActivityBlock, lastFeaturePath, errors, resolved>>

AllResolved ==
  /\ phase = "resolve" /\ position > Len(Lines(current)) /\ ~errors
  /\ current = Len(Files)
  /\ phase' = "execute" /\ current' = Len(Backgrounds) + 1
  /\ UNCHANGED <<content, position, stepper, lastResolutionPath, lastFeaturePath, errors, resolved>>
-----------------------------------------------------------------------------
\* Executor: the hooks of the features.

\* Variant: the hook does not put the steps of the feature back.
DoesNotReload == Over(Without(steps, lastFeaturePath), backgroundSteps)

\* What the hook makes of the steps.  Before the first feature lastFeaturePath
\* is empty: what the last feature resolved defined is still there.
StepsExecuting == StepsFor(lastFeaturePath, Files[current])

StartFeature ==
  /\ phase = "execute" /\ current <= Len(Files)
  /\ phase' = "executing"
  /\ steps' = StepsExecuting
  /\ inActivityBlock' = FALSE
  /\ UNCHANGED <<content, current, position, backgroundSteps, featureSteps, outcomePatterns, lastResolutionPath, lastFeaturePath, errors, resolved>>

\* The run goes on, or ends with a feature that failed.
EndFeature ==
  /\ phase = "executing"
  /\ lastFeaturePath' = Files[current]
  /\ \/ phase' = "execute" /\ current' = current + 1
     \/ phase' = "done" /\ UNCHANGED current
  /\ UNCHANGED <<content, position, stepper, lastResolutionPath, errors, resolved>>

ActivitiesNext ==
  \/ BeginActivity \/ EndActivity \/ Waypoint \/ Swallow \/ ResolveStatement \/ ResolveOther
  \/ ResolutionFails \/ NextFile \/ AllResolved
  \/ StartFeature \/ EndFeature

ActivitiesSpec == ActivitiesInit /\ [][ActivitiesNext]_activitiesVars
-----------------------------------------------------------------------------
\* Every step that is there was registered by a waypoint of a file that was read.
ActivitiesTypeOK ==
  /\ DOMAIN content = Path /\ \A p \in Path : content[p] \in LinesOf(p)
  /\ phase \in {"resolve", "failed", "execute", "executing", "done"}
  /\ current \in 1..Len(Files) + 1 /\ position \in Nat \ {0}
  /\ {steps, backgroundSteps} \union {featureSteps[p] : p \in Path} \subseteq [Outcome -> Path \union {NoPath}]
  /\ outcomePatterns \subseteq Outcome /\ inActivityBlock \in BOOLEAN /\ errors \in BOOLEAN
  /\ {lastResolutionPath, lastFeaturePath} \subseteq Path \union {NoPath}
  /\ \A o \in Outcome : steps[o] # NoPath => o \in outcomePatterns

\* "Notify steppers to clear feature-scoped steps before resolving each feature"
\* (Resolver.ts:55): a statement of a feature was resolved to an outcome that
\* the feature itself defines or a background does, never to another feature's.
ResolvedWithOwn ==
  \A r \in resolved : r.from # Files[r.file] => IsBackground(r.from)

\* What a statement was resolved to is there when its feature is executed: a
\* later feature, or a feature that was executed before, does not take it away.
ExecutesWhatWasResolved ==
  phase = "executing" => \A r \in resolved : r.file = current => steps[r.outcome] = r.from

\* The outcomes of a background that was read are there in every feature.
BackgroundsStay ==
  \A o \in Outcome : backgroundSteps[o] # NoPath => steps[o] = backgroundSteps[o]
=============================================================================
