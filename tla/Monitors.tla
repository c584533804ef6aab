------------------------------ MODULE Monitors ------------------------------
(***************************************************************************)
(* The events of a run and the steppers that listen to them.               *)
(*                                                                         *)
(* EventLogger.emit is synchronous and calls one callback.  The Executor's  *)
(* callback hands the event to the onEvent of every stepper in the order of *)
(* the list; monitor-otel replaces it by its own in setWorld, which runs    *)
(* again before every feature.  Hooks are awaited one stepper after the     *)
(* other, so that what a hook sees depends on the steppers before it:       *)
(* finalizers run their statements in endFeature, the browser monitor saves *)
(* its report there and otel ends the span of the feature.  Requests of     *)
(* open pages emit events at any time.                                     *)
(***************************************************************************)
EXTENDS Integers, Sequences, FiniteSets, SequencesExt

CONSTANTS
  Setups,         \* [list, remote, features, steps, lines]: the steppers in their order,
                  \* whether the browser monitor finds another one to piggyback on; bounds:
                  \* the features of the run, its steps and substeps, and the Feature: lines
                  \* of each feature
  MaxTraffic,     \* bound: events of requests in the background
  MaxWarnings     \* bound: posts to the other monitor that fail

Finalizer == "finalizer"   Otel == "otel"   Browser == "browser"   Tui == "tui"
Video == "playwright"      \* WebPlaywright, recording video

FinalizerPath == 998       \* where another step's path has the number of its feature

ASSUME MonitorsAssumption ==
  /\ \A s \in Setups :
       /\ s.list \in Seq({Finalizer, Otel, Browser, Tui, Video}) /\ IsInjective(s.list)
       /\ s.remote \in BOOLEAN /\ s.features \in 1..FinalizerPath - 1 /\ s.steps \in Nat /\ s.lines \in Nat
  /\ MaxTraffic \in Nat /\ MaxWarnings \in Nat

VARIABLES
  setup,
  phase,      \* the hook that runs, or body, between a feature's hooks
  at,         \* the place in the list of the stepper whose hook is next
  feature,
  callback,   \* EventLogger.stepperCallback
  emitted,    \* history variable: every event
  open,       \* ids of the steps started and not done, innermost last
  steps,      \* steps started
  failed,     \* this feature failed
  currentFeature,                  \* runtime.currentFeaturePath, 0 if undefined
  finalizers, \* FinalizerStepper: active, byFeature, index of the one that runs; of each
              \* one registered, the feature it is of and, a history variable, if its
              \* Feature: line came before
  ran,        \* history variable: finalizers that ran, with the feature then active
  buffer,     \* MonitorBrowserStepper.events, as indexes in emitted
  saving,     \* it awaits the storage
  reports,    \* history variable: the report of each feature, serialized
  savedAt,    \* history variable: events emitted while a report was saved
  prompters,  \* its prompters, subscribed in this order: do prompts of it reach a page
  transport,  \* none, local or remote
  wire,       \* posts to the other monitor that have not been answered
  hostUp,     \* the other monitor runs
  warnings,
  otel,       \* MonitorOtelStepper: tracer, feature, steps, spans
  running     \* TuiMonitorStepper.running

run == <<setup, phase, at, feature>>
exec == <<open, steps, failed, currentFeature>>
fin == <<finalizers, ran>>
page == <<saving, reports, prompters, transport, hostUp, warnings>>
monitorsVars == <<run, callback, emitted, exec, fin, buffer, savedAt, page, wire, otel, running>>

list == setup.list
Features == setup.features
Has(s) == s \in ToSet(list)
Before(s, t) == \E i, j \in DOMAIN list : i < j /\ list[i] = s /\ list[j] = t

Event(kind, id) == [kind |-> kind, id |-> id, ok |-> TRUE]
Log == Event("log", <<>>)
Trace == Event("artifact", <<0>>)   \* a request, an event of no step

-----------------------------------------------------------------------------
(* monitor-otel: spans are numbered as they are started.                    *)

Span(what, parent) == [what |-> what, parent |-> parent, open |-> TRUE]

Started(o, what, parent) == [o EXCEPT !.spans = Append(@, Span(what, parent))]

WithFeature(o, what) ==
  LET s == Started(o, what, 0) IN [s EXCEPT !.feature = Len(s.spans)]

\* getParentSpanForId: the nearest step whose id is a prefix, else the feature.
ParentSpan(o, id) ==
  LET prefixes == {n \in 1..Len(id) : SubSeq(id, 1, n) \in DOMAIN o.steps}
  IN  IF prefixes = {} THEN o.feature
      ELSE o.steps[SubSeq(id, 1, CHOOSE n \in prefixes : \A m \in prefixes : m <= n)]

With(f, x, v) == [y \in DOMAIN f \cup {x} |-> IF y = x THEN v ELSE f[y]]
Without(f, x) == [y \in DOMAIN f \ {x} |-> f[y]]

Ended(o, id) ==
  IF id \in DOMAIN o.steps
  THEN [o EXCEPT !.spans[o.steps[id]].open = FALSE, !.steps = Without(@, id)]
  ELSE o

\* Variant: the span of a step that fails is not ended.
EndsWhenOk(o, e) == IF e.ok THEN Ended(o, e.id) ELSE o

StepEnded(o, e) == Ended(o, e.id)

\* processEvent
Processed(o, e) ==
  IF ~o.tracer THEN o
  ELSE CASE e.kind = "feature" -> WithFeature(o, "feature")
         [] e.kind = "start" ->
              LET f == IF o.feature = 0 THEN WithFeature(o, "auto") ELSE o
                  s == Started(f, "step", f.feature)
              IN  [s EXCEPT !.steps = With(@, e.id, Len(s.spans))]
         [] e.kind = "end" -> StepEnded(o, e)
         [] e.kind = "artifact" ->
              LET s == Started(o, "artifact", ParentSpan(o, e.id)) IN [s EXCEPT !.spans[Len(s.spans)].open = FALSE]
         [] OTHER -> o

-----------------------------------------------------------------------------
(* EventLogger.emit, for a sequence of events with nothing between them.    *)

\* doStepperCycleSync(steppers, 'onEvent'), or the callback of monitor-otel.
Hears(s) == IF callback = "fanout" THEN Has(s) ELSE s = Otel

Indexes(es) == [i \in DOMAIN es |-> Len(emitted) + i]

\* TuiMonitorStepper.onEvent: its panel of running steps.
Panel(r, e) ==
  CASE e.kind = "start" -> r \cup {e.id}
    [] e.kind = "end" -> r \ {e.id}
    [] OTHER -> r

OtelHears(o, es) ==
  LET heard[n \in 0..Len(es)] == IF n = 0 THEN o ELSE Processed(heard[n - 1], es[n])
  IN  IF Hears(Otel) THEN heard[Len(es)] ELSE o

TuiHears(es) ==
  LET shown[n \in 0..Len(es)] == IF n = 0 THEN running ELSE Panel(shown[n - 1], es[n])
  IN  IF Hears(Tui) THEN shown[Len(es)] ELSE running

Broadcast(es) ==
  /\ emitted' = emitted \o es
  /\ running' = TuiHears(es)
  /\ wire' = IF Hears(Browser) /\ transport = "remote" THEN wire \cup ToSet(Indexes(es)) ELSE wire
  /\ savedAt' = IF saving # <<>> THEN savedAt \cup ToSet(Indexes(es)) ELSE savedAt

Buffered(es) == buffer' = IF Hears(Browser) THEN buffer \o Indexes(es) ELSE buffer

EmitFrom(o, es) == Broadcast(es) /\ Buffered(es) /\ otel' = OtelHears(o, es)

Emit(es) == EmitFrom(otel, es)

Silent == UNCHANGED <<emitted, running, wire, savedAt, buffer, otel>>

-----------------------------------------------------------------------------
\* Executor.executeFeatures up to startExecution: the steppers have had their
\* world once, the callback is set, the artifact of the features is emitted.
MonitorsInit ==
  /\ setup \in Setups
  /\ phase = "startExecution" /\ at = 1 /\ feature = 0
  /\ callback = "fanout"
  /\ emitted = <<Event("artifact", <<>>)>>
  /\ open = <<>> /\ steps = 0 /\ failed = FALSE /\ currentFeature = 0
  /\ finalizers = [active |-> 0, byFeature |-> [f \in 1..Features |-> <<>>], index |-> 1]
  /\ ran = <<>>
  /\ buffer = IF Has(Browser) THEN <<1>> ELSE <<>>
  /\ saving = <<>> /\ reports = <<>> /\ savedAt = {}
  /\ prompters = IF Has(Browser) THEN <<FALSE>> ELSE <<>>
  /\ transport = "none" /\ wire = {} /\ hostUp = TRUE /\ warnings = 0
  /\ otel = [tracer |-> FALSE, feature |-> 0, steps |-> <<>>, spans |-> <<>>]
  /\ running = {}

\* doStepperCycle awaits the hook of one stepper before that of the next.
Hook(p, s) == phase = p /\ at \in DOMAIN list /\ list[at] = s

Passes == at' = at + 1 /\ UNCHANGED <<setup, phase, feature>>

Stays == UNCHANGED run

Throws == phase' = "failed" /\ UNCHANGED <<setup, at, feature>>

Hooks == [startExecution |-> {Otel}, setWorld |-> {Otel, Browser}, startFeature |-> {Finalizer, Browser},
          endFeature |-> {Finalizer, Otel, Browser, Video}, endExecution |-> {Finalizer, Otel}]

NoHook ==
  /\ phase \in DOMAIN Hooks /\ at \in DOMAIN list /\ list[at] \notin Hooks[phase]
  /\ Passes /\ Silent /\ UNCHANGED <<callback, exec, fin, page>>

HooksDone(p) == phase = p /\ at = Len(list) + 1

Begins(p, f) == phase' = p /\ at' = 1 /\ feature' = f /\ UNCHANGED setup

ToFirstFeature ==
  /\ HooksDone("startExecution")
  /\ Begins("setWorld", 1) /\ Silent /\ UNCHANGED <<callback, exec, fin, page>>

ToStartFeature ==
  /\ HooksDone("setWorld")
  /\ Begins("startFeature", feature) /\ Silent /\ UNCHANGED <<callback, exec, fin, page>>

ToBody ==
  /\ HooksDone("startFeature")
  /\ Begins("body", feature)
  /\ open' = <<>> /\ failed' = FALSE
  /\ Emit(<<Log>>)
  /\ UNCHANGED <<callback, steps, currentFeature, fin, page>>

MoreFeatures == feature < Features

\* Another feature, unless this is the last or a failure ends the run.
ToNextFeature ==
  /\ HooksDone("endFeature") /\ MoreFeatures
  /\ Begins("setWorld", feature + 1) /\ Silent /\ UNCHANGED <<callback, exec, fin, page>>

ToEndExecution ==
  /\ HooksDone("endFeature") /\ (feature = Features \/ failed)
  /\ Begins("endExecution", feature)
  /\ Emit(<<Event("execution", <<>>)>>)
  /\ UNCHANGED <<callback, exec, fin, page>>

ToDone ==
  /\ HooksDone("endExecution")
  /\ Begins("done", feature) /\ Silent /\ UNCHANGED <<callback, exec, fin, page>>

-----------------------------------------------------------------------------
(* Hooks before the steps.                                                  *)

\* initializeOtel logs when it has its tracer.
OtelInitializes ==
  /\ Hook("startExecution", Otel)
  /\ EmitFrom([otel EXCEPT !.tracer = TRUE], <<Log>>)
  /\ Passes /\ UNCHANGED <<callback, exec, fin, page>>

OtelSetsWorld ==
  /\ Hook("setWorld", Otel)
  /\ callback' = "otel"
  /\ Passes /\ Silent /\ UNCHANGED <<exec, fin, page>>

\* setWorld subscribes a new prompter, with a transport that does nothing.
BrowserSetsWorld ==
  /\ Hook("setWorld", Browser)
  /\ prompters' = Append(prompters, FALSE)
  /\ Passes /\ Silent /\ UNCHANGED <<callback, exec, fin, saving, reports, transport, hostUp, warnings>>

FinalizerStartsFeature ==
  /\ Hook("startFeature", Finalizer)
  /\ finalizers' = [finalizers EXCEPT !.active = feature]
  /\ Passes /\ Silent /\ UNCHANGED <<callback, exec, ran, page>>

NoTransportYet == transport = "none"

\* setupTransport: an existing monitor, or a server of its own, and the init.
\* RemoteTransport posts events and the init, not prompts, and hears no answer.
BrowserConnects ==
  /\ Hook("startFeature", Browser) /\ NoTransportYet
  /\ transport' = IF setup.remote THEN "remote" ELSE "local"
  /\ prompters' = [prompters EXCEPT ![Len(prompters)] = ~setup.remote]
  /\ emitted' = Append(emitted, Log)
  /\ Buffered(<<Log>>)
  /\ wire' = IF setup.remote THEN {0} ELSE {}     \* init is the post 0
  /\ Passes /\ UNCHANGED <<callback, exec, fin, saving, reports, hostUp, warnings, savedAt, otel, running>>

BrowserConnected ==
  /\ Hook("startFeature", Browser) /\ ~NoTransportYet
  /\ Passes /\ Silent /\ UNCHANGED <<callback, exec, fin, page>>

\* The port is in use: listen rejects.
BrowserCannotListen ==
  /\ Hook("startFeature", Browser) /\ NoTransportYet /\ ~setup.remote
  /\ Throws /\ Silent /\ UNCHANGED <<callback, exec, fin, page>>

-----------------------------------------------------------------------------
(* The steps of a feature.  It need not have a Feature: line, and may have   *)
(* one after some of its steps, or another.                                 *)

NewPath == feature

FeatureLines(f) == {i \in DOMAIN emitted : emitted[i].kind = "feature" /\ emitted[i].id = <<f>>}

FeatureLine ==
  /\ phase = "body" /\ open = <<>> /\ ~failed
  /\ Cardinality(FeatureLines(feature)) < setup.lines
  /\ currentFeature' = NewPath
  /\ Emit(<<Event("feature", <<feature>>)>>)
  /\ Stays /\ UNCHANGED <<callback, open, steps, failed, fin, page>>

\* A step, or a statement that the innermost step runs.
StepStarts ==
  /\ phase = "body" /\ ~failed /\ steps < setup.steps /\ Len(open) < 2
  /\ LET id == (IF open = <<>> THEN <<feature>> ELSE Last(open)) \o <<steps + 1>>
     IN  open' = Append(open, id) /\ Emit(<<Event("start", id)>>)
  /\ steps' = steps + 1
  /\ Stays /\ UNCHANGED <<callback, failed, currentFeature, fin, page>>

StepEnd(ok) == [Event("end", Last(open)) EXCEPT !.ok = ok]

Returns == open # <<>> /\ phase = "body" /\ open' = Front(open)

StepEnds(ok) ==
  /\ Returns
  /\ failed' = (Len(open) = 1 /\ ~ok)
  /\ Emit(<<StepEnd(ok)>>)
  /\ Stays /\ UNCHANGED <<callback, steps, currentFeature, fin, page>>

\* afterStep asks for the step again: it ends once more without a start.
StepReruns ==
  /\ phase = "body" /\ open # <<>>
  /\ \A i \in DOMAIN emitted : emitted[i] # StepEnd(FALSE)
  /\ Emit(<<StepEnd(FALSE)>>)
  /\ Stays /\ UNCHANGED <<callback, exec, fin, page>>

\* A step's artifact has the id of the step as a prefix.
StepShows ==
  /\ phase = "body" /\ open # <<>> /\ emitted[Len(emitted)].kind = "start"
  /\ Emit(<<Event("artifact", Append(Last(open), 0))>>)
  /\ Stays /\ UNCHANGED <<callback, exec, fin, page>>

\* registerFinalizer: the path is the last one a Feature: line has set.
RegisterFinalizer ==
  /\ Has(Finalizer) /\ Returns
  /\ LET path == IF currentFeature # 0 THEN currentFeature ELSE feature
         one == [of |-> feature, lined |-> currentFeature = feature]
     IN  /\ \A f \in 1..Features : \A i \in DOMAIN finalizers.byFeature[f] : finalizers.byFeature[f][i].of # feature
         /\ finalizers' = [finalizers EXCEPT !.byFeature[path] = Append(@, one)]
  /\ Emit(<<StepEnd(TRUE)>>)
  /\ Stays /\ UNCHANGED <<callback, steps, failed, currentFeature, ran, page>>

Custom == <<999>>

StartOtelSpan ==
  /\ Has(Otel) /\ Returns /\ otel.feature # 0
  /\ \A i \in DOMAIN otel.spans : otel.spans[i].what # "custom"
  /\ LET s == Started(otel, "custom", otel.feature)
     IN  EmitFrom([s EXCEPT !.steps = With(@, Custom, Len(s.spans))], <<StepEnd(TRUE)>>)
  /\ Stays /\ UNCHANGED <<callback, steps, failed, currentFeature, fin, page>>

EndOtelSpan ==
  /\ Has(Otel) /\ Returns /\ Custom \in DOMAIN otel.steps
  /\ EmitFrom(Ended(otel, Custom), <<StepEnd(TRUE)>>)
  /\ Stays /\ UNCHANGED <<callback, steps, failed, currentFeature, fin, page>>

\* populateActionArgs or a hook of the step throws.
StepThrows ==
  /\ phase = "body" /\ open # <<>>
  /\ Throws /\ Silent /\ UNCHANGED <<callback, exec, fin, page>>

\* The onFailure hook of WebPlaywright takes a screenshot.
ToEndFeature ==
  /\ phase = "body" /\ open = <<>>
  /\ Begins("endFeature", feature)
  /\ Emit(IF failed /\ Has(Video) THEN <<Event("artifact", <<>>)>> ELSE <<>>)
  /\ UNCHANGED <<callback, exec, fin, page>>

\* PlaywrightEvents: a request of a page of this feature.
Traffic ==
  /\ phase \in {"body", "endFeature"} /\ Has(Video)
  /\ Cardinality({i \in DOMAIN emitted : emitted[i] = Trace}) < MaxTraffic
  /\ Emit(<<Trace>>)
  /\ Stays /\ UNCHANGED <<callback, exec, fin, page>>

-----------------------------------------------------------------------------
(* Hooks after the steps.                                                   *)

Left == {f \in 1..Features : finalizers.byFeature[f] # <<>>}

\* The feature whose finalizers run, in endExecution the first that has some left.
Key ==
  IF phase = "endFeature" THEN finalizers.active
  ELSE IF Left = {} THEN 0 ELSE CHOOSE f \in Left : \A g \in Left : f <= g

FinalizerHook == Hook("endFeature", Finalizer) \/ Hook("endExecution", Finalizer)

Registered == IF Key = 0 THEN <<>> ELSE finalizers.byFeature[Key]

FinalizerRuns(ok) ==
  /\ FinalizerHook /\ finalizers.index \in DOMAIN Registered
  /\ LET id == <<FinalizerPath, finalizers.index>>
         start == Event("start", id)
         end == [Event("end", id) EXCEPT !.ok = ok]
     IN  Emit(IF ok THEN <<start, end>> ELSE <<start, end, Log>>)
  /\ LET one == Registered[finalizers.index]
     IN  ran' = Append(ran, [of |-> one.of, lined |-> one.lined, phase |-> phase, feature |-> feature,
                             event |-> Len(emitted) + 1])
  /\ finalizers' = [finalizers EXCEPT !.index = @ + 1]
  /\ Stays /\ UNCHANGED <<callback, exec, page>>

FinalizerThrows ==
  /\ FinalizerHook /\ finalizers.index \in DOMAIN Registered
  /\ Throws /\ Silent /\ UNCHANGED <<callback, exec, fin, page>>

\* Variant: what has run stays registered.
KeptStatements == finalizers.byFeature

Unregistered == IF Key = 0 THEN finalizers.byFeature ELSE [finalizers.byFeature EXCEPT ![Key] = <<>>]

FinalizersDone ==
  /\ FinalizerHook /\ finalizers.index \notin DOMAIN Registered
  /\ finalizers' = [active |-> 0, byFeature |-> Unregistered, index |-> 1]
  /\ IF phase = "endExecution" /\ Left # {} THEN Stays ELSE Passes
  /\ Silent /\ UNCHANGED <<callback, exec, ran, page>>

NoFeature == 0

OtelEndsFeature ==
  /\ Hook("endFeature", Otel)
  /\ otel' = [otel EXCEPT !.feature = NoFeature, !.steps = <<>>,
                          !.spans = [i \in DOMAIN @ |-> IF i = otel.feature THEN [@[i] EXCEPT !.open = FALSE] ELSE @[i]]]
  /\ Passes /\ UNCHANGED <<callback, exec, fin, page, emitted, running, wire, savedAt, buffer>>

\* closeAfterFeature: the artifact of the video.
VideoEnds ==
  /\ Hook("endFeature", Video)
  /\ Emit(<<Event("artifact", <<>>)>>)
  /\ Passes /\ UNCHANGED <<callback, exec, fin, page>>

Snapshot == buffer

\* The events are serialized, then the storage is awaited.
BrowserSaves ==
  /\ Hook("endFeature", Browser) /\ saving = <<>>
  /\ saving' = <<Snapshot>>
  /\ Stays /\ Silent /\ UNCHANGED <<callback, exec, fin, reports, prompters, transport, hostUp, warnings>>

\* The build of the client is missing, or a secret is in the report.
BrowserCannotSave ==
  /\ Hook("endFeature", Browser) /\ saving = <<>>
  /\ Throws /\ Emit(<<Log>>) /\ UNCHANGED <<callback, exec, fin, page>>

NoEvents == <<>>

BrowserSaved ==
  /\ Hook("endFeature", Browser) /\ saving # <<>>
  /\ reports' = Append(reports, Head(saving)) /\ saving' = <<>>
  /\ Broadcast(<<Log>>) /\ otel' = OtelHears(otel, <<Log>>)
  /\ buffer' = NoEvents
  /\ Passes /\ UNCHANGED <<callback, exec, fin, prompters, transport, hostUp, warnings>>

OtelShutsDown ==
  /\ Hook("endExecution", Otel)
  /\ Emit(<<Log>>)
  /\ Passes /\ UNCHANGED <<callback, exec, fin, page>>

-----------------------------------------------------------------------------
(* RemoteTransport: posts are not awaited, and are answered in any order.   *)

PostAnswered ==
  /\ hostUp /\ \E m \in wire : wire' = wire \ {m}
  /\ UNCHANGED <<run, callback, emitted, exec, fin, buffer, savedAt, page, otel, running>>

HostEnds ==
  /\ setup.remote /\ hostUp
  /\ hostUp' = FALSE
  /\ Silent /\ UNCHANGED <<run, callback, exec, fin, saving, reports, prompters, transport, warnings>>

\* Variant: a post that fails is tried again, and warned of.
TriesAgain(m) == wire

Posted(m) == wire \ {m}

\* The warning is an event, which is posted in its turn.
PostFails ==
  /\ ~hostUp /\ warnings < MaxWarnings
  /\ \E m \in wire :
       wire' = Posted(m) \cup (IF Hears(Browser) THEN {Len(emitted) + 1} ELSE {})
  /\ emitted' = Append(emitted, Log)
  /\ Buffered(<<Log>>)
  /\ savedAt' = IF saving # <<>> THEN savedAt \cup {Len(emitted) + 1} ELSE savedAt
  /\ warnings' = warnings + 1
  /\ UNCHANGED <<run, callback, exec, fin, saving, reports, prompters, transport, hostUp, otel, running>>

MonitorsNext ==
  \/ NoHook \/ ToFirstFeature \/ ToStartFeature \/ ToBody \/ ToEndFeature \/ ToNextFeature \/ ToEndExecution \/ ToDone
  \/ OtelInitializes \/ OtelSetsWorld \/ BrowserSetsWorld \/ FinalizerStartsFeature
  \/ BrowserConnects \/ BrowserConnected \/ BrowserCannotListen
  \/ FeatureLine \/ StepStarts \/ StepReruns \/ StepShows \/ StepThrows \/ Traffic
  \/ \E ok \in BOOLEAN : StepEnds(ok) \/ FinalizerRuns(ok)
  \/ RegisterFinalizer \/ StartOtelSpan \/ EndOtelSpan
  \/ FinalizerThrows \/ FinalizersDone \/ OtelEndsFeature \/ VideoEnds
  \/ BrowserSaves \/ BrowserCannotSave \/ BrowserSaved \/ OtelShutsDown
  \/ PostAnswered \/ HostEnds \/ PostFails

MonitorsSpec == MonitorsInit /\ [][MonitorsNext]_monitorsVars

-----------------------------------------------------------------------------
(* JITSerializer: a line for each new set of keys, then a line of values.   *)

\* The keys of an event; their values are told apart by event and key.
Keys(e) ==
  {"id", "kind"} \cup
  CASE e.kind = "log" -> {"level", "message"}
    [] e.kind = "start" -> {"stage", "in"}
    [] e.kind = "end" -> {"stage", "in"} \cup IF e.ok THEN {"topics"} ELSE {"error"}
    [] e.kind = "artifact" -> {"path"}
    [] OTHER -> {"stage"}

Fields(i) == [k \in Keys(emitted[i]) |-> <<i, k>>]

\* getSchemaId: the signature is the sorted keys.
SameKeys(schema, i) == ToSet(schema.fields) = Keys(emitted[i])

\* What is read and written so far: the schemas, and the lines or events.
Serialized(events) ==
  LET Line(acc, i) ==
        LET known == {n \in DOMAIN acc.schemas : SameKeys(acc.schemas[n], i)}
            new == [kind |-> emitted[i].kind, fields |-> SetToSeq(Keys(emitted[i]))]
            schemas == IF known = {} THEN Append(acc.schemas, new) ELSE acc.schemas
            n == IF known = {} THEN Len(schemas) ELSE CHOOSE m \in known : \A l \in known : m <= l
            keys == schemas[n].fields
            data == [k \in DOMAIN keys |-> IF keys[k] \in Keys(emitted[i]) THEN Fields(i)[keys[k]] ELSE <<>>]
        IN  [schemas |-> schemas,
             lines |-> acc.lines \o (IF known = {} THEN <<[schema |-> n, values |-> keys]>> ELSE <<>>)
                                 \o <<[schema |-> -n, values |-> data]>>]
      written[k \in 0..Len(events)] ==
        IF k = 0 THEN [schemas |-> <<>>, lines |-> <<>>] ELSE Line(written[k - 1], events[k])
  IN  written[Len(events)].lines

\* A line of values, with the negated number of its schema, is read by the
\* schema's line before it.
Deserialized(lines) ==
  LET Read(acc, line) ==
        IF line.schema > 0 THEN [acc EXCEPT !.schemas = Append(@, line.values)]
        ELSE LET keys == acc.schemas[-line.schema]
             IN  [acc EXCEPT !.events = Append(@, [k \in ToSet(keys) |->
                    line.values[CHOOSE n \in DOMAIN keys : keys[n] = k]])]
      read[k \in 0..Len(lines)] ==
        IF k = 0 THEN [schemas |-> <<>>, events |-> <<>>] ELSE Read(read[k - 1], lines[k])
  IN  read[Len(lines)].events

-----------------------------------------------------------------------------
(* Properties.                                                              *)

MonitorsTypeOK ==
  /\ setup \in Setups
  /\ phase \in DOMAIN Hooks \cup {"body", "done", "failed"} /\ at \in 1..Len(list) + 1
  /\ feature \in 0..Features /\ currentFeature \in 0..feature
  /\ callback \in {"fanout", "otel"} /\ (callback = "otel" => Has(Otel))
  /\ steps \in 0..setup.steps /\ Len(open) <= 2
  /\ finalizers.active \in 0..feature
  /\ ToSet(buffer) \subseteq DOMAIN emitted /\ savedAt \subseteq DOMAIN emitted
  /\ wire \subseteq {0} \cup DOMAIN emitted /\ (wire # {} => transport = "remote")
  /\ otel.feature \in 0..Len(otel.spans)
  /\ \A id \in DOMAIN otel.steps : otel.steps[id] \in DOMAIN otel.spans

\* The reports, and what is kept for the next one.
Reported == Append(reports, buffer)

\* They hold the events in the order they were emitted, each once; without
\* monitor-otel in the list, all of them but those that came while a report was
\* being written.
ReportsHoldTheRun ==
  /\ \A f, g \in DOMAIN Reported : \A i \in DOMAIN Reported[f], j \in DOMAIN Reported[g] :
       f < g \/ (f = g /\ i < j) => Reported[f][i] < Reported[g][j]
  /\ Has(Browser) /\ ~Has(Otel) =>
       DOMAIN emitted \ savedAt \subseteq UNION {ToSet(Reported[f]) : f \in DOMAIN Reported}

\* A report, when it is written, reads back as the events it was made of.
ReportReadsBack ==
  \A r \in ToSet(saving) : Deserialized(Serialized(r)) = [k \in DOMAIN r |-> Fields(r[k])]

\* A registered statement runs once: none is left when the run is done, and
\* none has run twice, also if it was registered with a feature that is over.
FinalizersRunOnce ==
  /\ \A k, l \in DOMAIN ran : ran[k].of = ran[l].of => k = l
  /\ phase = "done" => \A f \in 1..Features : finalizers.byFeature[f] = <<>>

\* A finalizer registered after the Feature: line of its feature runs in the hook
\* of that feature.
FinalizersRunInFeature ==
  \A k \in DOMAIN ran : ran[k].lined => ran[k].phase = "endFeature" /\ ran[k].feature = ran[k].of

\* The finalizers' steps among some events.
FinalizersIn(events) == {i \in ToSet(events) : emitted[i].kind = "start" /\ emitted[i].id[1] = FinalizerPath}

RanAtEnd(f) == {ran[k].event : k \in {l \in DOMAIN ran : ran[l].feature = f /\ ran[l].phase = "endFeature"}}

\* With FinalizerStepper before the browser monitor and no monitor-otel, the
\* report of a feature holds the steps of the finalizers that ran at its end.
FinalizersAreReported ==
  Before(Finalizer, Browser) /\ ~Has(Otel) => \A f \in DOMAIN reports : FinalizersIn(reports[f]) = RanAtEnd(f)

\* A Feature: line after steps, or a second one, starts another span for the
\* feature, and the one there was is forgotten without an end.
Forgotten(o, i) ==
  /\ o.spans[i].what \in {"feature", "auto"}
  /\ \E j \in DOMAIN o.spans : i < j /\ o.spans[j].what = "feature"

\* When monitor-otel has ended a feature, every span of a step has ended: true
\* if finalizers run before it, and for all but spans a feature starts itself and
\* spans of features that another Feature: line has replaced.
SpansEnd ==
  ~Before(Otel, Finalizer) /\ otel.feature = 0 =>
    \A i \in DOMAIN otel.spans :
      otel.spans[i].open => otel.spans[i].what = "custom" \/ Forgotten(otel, i)

\* A span is started under a span that is open.
ParentsAreOpen ==
  \A i \in DOMAIN otel'.spans \ DOMAIN otel.spans :
    LET p == otel'.spans[i].parent IN p # 0 /\ p \in DOMAIN otel.spans => otel.spans[p].open

\* Spans end with what they measure, with these exceptions, and are started inside
\* one that is open.
SpansAreNested == [][SpansEnd' /\ ParentsAreOpen]_monitorsVars

\* Without monitor-otel, the terminal shows as running the steps that have
\* started and not ended, one that is run again excepted.
PanelShowsRunning ==
  Has(Tui) /\ ~Has(Otel) =>
    running = {id \in ToSet(open) : \A i \in DOMAIN emitted : emitted[i].kind = "end" => emitted[i].id # id}

\* Of all the prompters the browser monitor subscribes, one reaches the page, and
\* none when it piggybacks on another monitor.
OneLivePrompter ==
  Cardinality({i \in DOMAIN prompters : prompters[i]}) = IF transport = "local" THEN 1 ELSE 0

\* What is kept and shown of a run is the run: its reports, the finalizers of its
\* features, the steps a terminal shows and the prompts that reach a page of its own.
RunIsTold == /\ MonitorsTypeOK
             /\ ReportsHoldTheRun /\ ReportReadsBack
             /\ FinalizersRunOnce /\ FinalizersRunInFeature /\ FinalizersAreReported
             /\ PanelShowsRunning /\ OneLivePrompter

\* Each post that fails leads to no more than one post, of its own warning.
FailuresDoNotMultiply ==
  [][warnings' # warnings => Cardinality(wire') <= Cardinality(wire)]_monitorsVars
=============================================================================
