# haibun in TLA+

haibun runs features written in prose: each line of a feature file is resolved to a step of a
*stepper*, and the steps are executed under lifecycle hooks, with monitors that show the run and
prompts that interrupt it. This directory models that runtime in TLA+, model-checks the models
with TLC and proves theorems about them with TLAPS. Paths are relative to `modules/`, but for those
of `vscode-extension/`.

- [The system](#the-system): its parts, their state and what is hard about them
- [The modules](#the-modules): which part each models, and how
- [What the runs check](#what-the-runs-check), with bounds and fairness
- [What is proved](#what-is-proved), and how
- [Where code and documents differ](#where-code-and-documents-differ), and other observations
- [What is not modelled](#what-is-not-modelled) and [the plan](#the-plan)

## The system

Everything runs in one Node process on one event loop: nothing is preempted, but every `await` is a
place where another callback (a server's request, a browser's event, a client's message) can run.

```
 files ─► collect ─► expand ─► resolve ─► execute ──hooks──► steppers (state of their own)
          collector   features   Resolver   Executor              │            │
                                    ▲          │ doFeatureStep    │ statements │ events
                                    │          ▼                  ▼            ▼
                                    └────── FlowRunner ◄──── Logic, Activities, …   EventLogger ─► monitors
                                             variables: world.shared                prompter ◄───► people
```

| part | state it keeps | operations | what is hard |
|------|----------------|------------|--------------|
| Runner, PhaseRunner (`core/src/runner.ts`, `core/src/lib/PhaseRunner.ts`) | none | the four phases in order | an exception in any of them becomes a failed result without features |
| collector, Expand (`core/src/phases/collector.ts`, `core/src/lib/features.ts`) | none | read files; put the lines of backgrounds where a feature includes them | a line keeps the file it came from |
| Resolver, namedVars (`core/src/phases/Resolver.ts`, `core/src/lib/namedVars.ts`) | none; calls `resolveFeatureLine` of steppers, which keep some | a line to exactly one step and its values; nested statements checked | what can be matched changes while lines are resolved |
| Executor (`core/src/phases/Executor.ts`) | feature and scenario counters, step results, the verdict, three copies of the variables | executeFeatures, doFeature, doFeatureStep | nesting of hooks on every exit, reruns, stay options, which failure is reported |
| FlowRunner (`core/src/lib/core/flow-runner.ts`) | none of its own; numbers steps after `stepResults` | runStatement(s), runSteps | nesting of statements tried and statements insisted on |
| LogicStepper (`core/src/steps/logic-stepper.ts`) | none | not, maybe, where, any of, whenever, some, every, quantifiers | meaning of nested statements that fail, throw or hold of nothing |
| ActivitiesStepper (`core/src/steps/activities-stepper.ts`) | outcomes per background and feature, attempts per ensure | activity, waypoint, ensure, remember | outcomes of one feature must not be seen by another; ensure is recursive |
| VariablesStepper, FeatureVariables, QuadStore, domains (`core/src/steps/variables-stepper.ts`, `core/src/lib/feature-variables.ts`, `quad-store.ts`, `domain-types.ts`) | variables, quads about them, domains | define, set, compose, increment, unset; copies between scopes | two representations and three copies of the same variables; secrecy; read-only |
| Haibun, Debugger, Finalizer, Narrator (`core/src/steps/`) | after-every steps; debugging mode; statements for the end | until, backgrounds, after every; step, retry, next, fail | instructions of a person change the course of the Executor |
| Prompter and subscribers (`core/src/lib/prompter.ts`, `base-prompt-manager.ts`, `readline-prompter.ts`, `monitor-tui`, `web-server-hono/src/http-prompter.ts`, `monitor-browser/src/prompter.ts`) | outstanding prompts, one promise per subscriber | prompt, subscribe, answer, cancel | many may answer, late, twice, or never |
| SSETransport (`web-server-hono/src/sse-transport.ts`) | history of messages, connected clients | send, replay to a client, reconnect, start of a new run | messages sent while a replay awaits its writes |
| the browser monitor's page (`monitor-browser/src/client`) | events and those that wait for a timer, current time, filters, rows, selection, contexts of the graph | receive, play, move, filter, open blocks and artifacts | the views show one moment of a list that grows, and each makes its own of it |
| EventLogger, finalizers and monitors (`core/src/lib/EventLogger.ts`, `core/src/steps/finalizer-stepper.ts`, `monitor-otel`, `monitor-browser`, `monitor-tui`) | one callback; registered statements; open spans, buffers, reports | emit, onEvent, hooks, saving, piggybacking | what a hook sees depends on the steppers before it; events while a report is saved |
| web server and MCP (`web-server-hono`) | a server per feature, ports, routes, mounts; sessions and their focus | listen, mount, close, tool calls | clients run statements while a feature runs, and servers outlive features |
| browser steps (`web-playwright`, `recorder`, `web-accessibility-axe`) | browsers, contexts, pages and tabs; the twin page | pages on demand, popups, close after a feature | events of pages and awaits of steps interleave |
| language server (`lsp/src/lsp-stepper.ts`) | the list of backgrounds, the outcomes of ActivitiesStepper, a cache of documents, timers | process a document, revalidate the others, restart | processings that interleave share one list and one set of outcomes |
| VS Code extension (`vscode-extension/src`) | clients of the server, the state a panel shows, the tree of features | start, stop, retry, health check, run a tool | every step awaits, and the next may have begun |
| run policy, cli, kireji, storage | configuration, files | validate, convert, read and write | pure, or I/O |

What makes each part correct, in a sentence: the **Executor** nests hooks and reports what happened;
a **statement** means what it says wherever it is nested, and the run ends; an **outcome** is seen
by the features that can see it when it is resolved and is still there when it is executed;
a **variable** keeps to its domain, its secrecy and its protection in every copy; a **prompt** is
answered by somebody it was shown to and then waited for by nobody; a **page** is sent a beginning of one
run with nothing missing and shows one moment of it in all its views; **monitors** hold the run, each
event once and each span closed; a **feature's resources** (pages, headers, files, ports) are its own and
gone when it is over; a **client** of MCP neither sees another nor, unless it exhausts the run, touches the verdict; the **editor**
comes to show its documents and its server as they are. The **hazards** in `PROJECT.json` list, line by line, where each could go
wrong.

## The modules

| module | models | proofs | instance for TLC |
|--------|--------|--------|------------------|
| `Lifecycle` | the abstract specification: which hooks may be open when one starts or ends | – | – |
| `FeatureRun` | Executor, and the hooks that keep state across steps | `FeatureRunProofs` | `MCFeatureRun` |
| `Statements` | FlowRunner, LogicStepper, until and backgrounds of Haibun, waypoints and ensure | `StatementsProofs` | `MCStatements` |
| `Prompting` | Prompter with four kinds of subscribers and the browser's client | `ClientsProofs` | itself |
| `SseTransport` | the transport's history, replays and the pages | `SseTransportProofs` | itself |
| `Activities` | registration of outcomes while files are resolved, and the hooks that swap them | `SteppersProofs` | `MCActivities`, with `Features` |
| `Features` | expansion of included backgrounds, as operators | – | – |
| `Variables` | variables, quads, domains, their steps and the Executor's copies | `SteppersProofs` | `MCVariables` |
| `Monitors` | events and what monitors, finalizers and the Executor's hooks make of them, with the report's serializer | `ClientsProofs` | `MCMonitors` |
| `BrowserPool` | WebPlaywright's factory, pages, tabs, popups, containers, headers, downloads and twin page | `BrowserPoolProofs` | `MCBrowserPool` |
| `WebServer` | the web server of each feature and the MCP server on it | `WebServerProofs` | `MCWebServer` |
| `Timeline` | the browser monitor's page: its events, time and log view | `ViewsProofs` | – |
| `Views` | the page's document, graph of quads and sequence diagram; EXTENDS Timeline and composes them | `ViewsProofs` | `MCViews` |
| `LanguageServer` | LspStepper and its restarts | `FeatureRunProofs` | `MCLanguageServer` |
| `Extension` | the extension's clients, panel and tree | `ClientsProofs` | `MCExtension` |

How the state of each corresponds to the code (every definition's lines are in `PROJECT.json`, "map"):

**FeatureRun.** One call chain, so one program counter `pc`; a step of the model is the code between
two awaits of a hook or an action. `featureNum`, `stepNum`, `currentScenario`, `okSoFar`,
`featureOk` are the locals of executeFeatures and doFeature; `records` is `runtime.stepResults`;
`shared`, `scoped`, `base` say which scenario set the variable one is looking at in
`world.shared`, `scopedVars` and `baseVars`; `held` is what startFeature opened and endFeature
closes when told to. What an action does is chosen freely: its result, whether it exhausts the
run, and whether a statement below left a failed record. `Bail` is an exception that leaves
doFeatureStep or a hook; the hooks open then stay open. `hooks` counts starts without ends and is
the refinement mapping to `Lifecycle`.

**Statements.** The call stack of doFeatureStep → action → FlowRunner.runStatements → doFeatureStep.
A program is a graph of statements; a frame runs its *parts* one after the other (a condition, a
body; a proof, an activity, the proof again), and `Goes` says for each kind of step which part is
next given how the last ended, or that the step is done. `mode` and the direction in which sequence
paths count come from the part being run. `signal` is an exception on its way to a call that
catches it. `facts` is the world: checks read it, acts and `Arrive` change it.

**Prompting.** A prompt's `call` is the promise that `Prompter.prompt` returned; `held[s]` are the
prompts for which subscriber s has an unsettled promise, `current` the single slot of the terminal
and the terminal UI, `settled` the promises whose callbacks have yet to run (microtasks: nothing
else happens while there are any). `web`, `stream` and `posted` are the
browser: the prompt it shows, the messages on their way to it and its responses on their way back.

**SseTransport.** `runs` are the arrays that `this.history` has been: `send` extends the last one in
place, an init replaces it, and a replay keeps iterating over the one it began with. A page goes
`away → replaying → live`; what is sent before it is live reaches it only through the array.

**Activities.** `steps` is `this.steps` (which file's outcome a text stands for), `featureSteps` and
`backgroundSteps` the two registries, `outcomePatterns` the texts taken. Files are resolved line by
line, features executed in order; `resolved` remembers what each nested statement was resolved to.

**Variables.** `values` and `store` are `world.shared` (its map and its latest quads), `scoped` and
`base` the Executor's copies, `domains` the world's. One action per statement; statements that fail
are steps not taken. `scenario = "starting"` is the await of the startScenario hooks, between which
a stepper's own event may set its variables.

**Monitors.** `phase` and `at` are the hook that runs and the stepper whose turn it is: hooks are
awaited one after the other in the order of the list, which is chosen at the start. `callback` is the
logger's one callback, the fan-out or otel's. `emitted` is every event; `buffer` and `reports`
are indexes in it, so that what is lost, doubled or out of order can be said. A report is made of the
buffer, kept while the storage is awaited (`saving`) and forgotten afterwards. `finalizers` is
FinalizerStepper's map, with the feature each is of and whether its Feature: line came before; a Feature: line may come
after steps, and twice. `otel.spans` are the spans, by number, with parent and whether they are open;
`running` is the terminal's panel; `wire` what a piggybacking process has posted.

**BrowserPool.** `factory`, `pages` and `contexts` are BrowserFactory's; `opened` numbers every page
ever opened, so that a property can speak of one that nobody can reach. `step` is the statement that runs and the
await it is at; popups, downloads and copies to the twin page come between its steps. `calls` are the getPage that have no page
yet, each at the launch of a browser, at a context or at its page: a statement waits for its own, but `expect a download`
(`web-playwright/src/interactionSteps.ts:383`) waits for none, so that the next statement's call, or the end of the feature, overlaps
with it. `running` is the static browser, which a second launch overwrites. `tab`,
`container`, `auth`, `agent` and `downloaded` are fields of WebPlaywright, which outlives features.

**WebServer.** `servers` has one ServerHono per feature; `sockets` is what the system listens for,
`listening` the static registry that ought to say the same. `scopes` are the sessions of McpStepper,
`running` its handlers that await a statement, each with the world it began in, `lists` the results
of each feature, where those handlers push theirs. `exhausted` is the runtime's, which clients and features share:
once it is set, statements of both are refused and leave no record, until the Executor clears it for the
next feature. A statement of the feature begins and ends in two steps (`stepping`), so that a client's may exhaust the run between them.

**Timeline, Views.** `feed` is what the server will send, a run and the next, of which a connection
brings a beginning (SseTransport says why it may be taken for that); `pending` and `timer` the buffer of
100 ms. `mergedEvents` and `visibleEvents` are the pipeline that makes rows and hidden blocks, as
operators; React's effects are part of the step whose render they follow (`Effect`, `GraphFollows`,
`DocumentFollows`). Views adds what the document, the graph and the diagram keep of their own.

**LanguageServer.** A processing is a record in `jobs`; a step of the model is the code between two
awaits. Nothing a processing awaits is I/O, so a message is handled when none is under way,
but those a timer starts are under way together. `reg` are the registers of ActivitiesStepper, `shown` the diagnostics
in the editor with the text they are of, `behind`, `places` and `unread` what properties need to know of the past.
A feature of no workspace, or of one without `backgrounds/` (`Alone`), and one for which the folder cannot be read or
its features be counted, is resolved with the server's own list. A waypoint's place is its index in what is read: behind a Backgrounds:
line that is not the first a background's waypoint is at another line than in its file, and its registering throws.

**Extension.** `servers` are the clients made, by number, with their state; `client` the one the
module-level variable holds. `status` is what the panel shows; `tree` what was last discovered, of which
everything displayed is computed: by `refresh`, which a watcher makes due only for files below the workspace (`Inside`). `checks` are the health checks whose answer is to come.

The modules overlap where the code does: FeatureRun treats a statement's inside as a choice that
Statements spells out; Statements treats a check as a fact where Variables has values; Prompting
answers what FeatureRun takes as the debugger's instruction. WebServer and Monitors take the
order of hooks from FeatureRun and statements as single steps; LanguageServer has the registration of
Activities as operators; Timeline takes from SseTransport that a page gets a beginning of a run. They are
composed by these interfaces, not as one state space.

## What the runs check

One run per component. A property that joins several is a conjunction of named parts, which its module
states and comments one by one.

| run | what it asks | bounds |
|-----|--------------|--------|
| `feature_run` | Do hooks nest (`HooksAreNested`: FeatureRun implements Lifecycle)? Do variables set in a scenario stay in it? Is nothing of an earlier feature open when the next starts? `FailureIsTold`: does the reported failure belong to the step that failed, or to an earlier one that tolerates failures, does the verdict agree with what ran, does a failed run show a failed step? Does nothing run after exhaustion, and is a started feature ended unless an exception left it? | six plans of at most two features of at most four steps (background step, two scenarios, a second Feature: line, an `until` before a step that may fail, an empty feature); every stay option, continue-after-error, and the debugger with `MaxReruns` = 1 |
| `statements` | Does a feature of checks and logic steps pass exactly if its formula is true? `RecordsAreSound`: is each sequence path given once, in the direction of its mode, and a failed authoritative record under the failing step? `EnsureProves`: does a passed ensure leave its proof true, and act only when the proof has failed? Does every feature end, and nothing run once exhausted? | all 3·7³ nestings of three of seven kinds of step around two leaves, all 126 ensures around them, and twelve programs for the rest (recursion, polls, a waypoint that is polled while what it checks arrives, empty parts, undefined arguments, exhaustion under `not`); `MaxAttempts` = 2, `MaxLoops` = 1, `MaxPolls` = 2, `MaxDepth` = 7 |
| `prompting` | `AnswersAreTrue`: is a returned answer one that was given to that prompt, and is an answered prompt shown nowhere, so that no late answer can reach it? Does every prompt return if somebody can answer? | `MaxPrompts` = 2, asked one after the other or both at once, every set of four kinds of subscribers, `MaxReconnects` = 1 |
| `sse_transport` | `PageTellsRun`: does a page show a beginning of one run without a gap or a double, and a live page that no init overtook everything, shown or on its way? Does a page that stays connected catch up? | two clients with two connections each, two runs, `MaxEvents` = 2 |
| `activities` | Is no statement resolved with another feature's outcome? Is what it was resolved to there when the feature is executed? Are the outcomes of backgrounds always there? | one background, two features, all 13³ combinations of thirteen contents |
| `variables` | `ValuesAreSafe`: is every value one of its domain, and what came from a secret secret? Do values and quads agree? `StepsRespectValues`: is a read-only variable only ever unset, does a scenario begin with all the variables there were, does an increment go to the next value and stay at the last? | twenty-six statements over four names, two declared domains and five texts; `MaxSteps` = 4 statements and events, with any Feature: and Scenario: lines between |
| `monitors` | `RunIsTold`: do reports hold every event once and in order, and read back? Do finalizers run once, in their feature if its line came first, and are they in its report? Does the panel show what runs, and one prompter reach the page, none of a piggybacking monitor? `SpansAreNested`: do spans start in open ones and end with their feature, but those another Feature: line replaced? Does a post that fails lead to one more at most? | nine lists of at most three steppers, at most four features, two steps in all, one or two Feature: lines per feature, `MaxTraffic` = 1 event from outside, `MaxWarnings` = 2 |
| `browser_pool` | `PagesAreSound`: does a statement get an open page of its own feature, and can every open page that was got alone (asked of the present factory, opened before calls overlapped) be reached? `NothingLeftBehind`: when a feature has closed, is no such page left but a finalizer's, no file, no header, no container? Is a copy the twin page knew of in its file? | fifteen setups of one or two features of two to four steps and at most four pages, each with one or two concerns (popups, `in`, headers, downloads, twin, persistent profile, late finalizers); `MaxTab` = 4 |
| `web_server` | `ServersAreSound`: does the registry name the ports in use, does the next feature never find its port taken, is what is mounted served, but for what a folder indexed at `/` hides? `ClientsAreApart`: does a client see its own focus, are a feature's results those of its own statements, and its verdict, but for refusals of an exhausted run, does a client's statement begin in the world of the present feature? | five setups of one or two features of at most four statements, up to three calls by up to two clients, one port or two, three nested paths |
| `language_server` | `ServerIsCurrent`: does the list hold each open background once with its present text, is a resting document shown as it is, is none left behind a background? `DocumentsCatchUp`: is each changed document answered, by another server if need be, each document behind a background resolved again, and nothing left marked unknown that a background defines? | two features, two backgrounds and a TypeScript document of one to three texts, `MaxEdits` = 3, `MaxCrashes` = 2, MAX_RETRIES = 1 |
| `monitor_page` | `PageIsWhole`: are the events of one run, none stranded, all shown until the user moves, and a prompt answerable? Does every row tell the moment the page is at? `ViewsAreSound`: is every artifact in the document once, and what is dimmed the same in all views? `ClicksAreObeyed`: does opening a block hide nothing, is a choice of contexts kept, does a clicked row become the present? Does playing end? | two live feeds of two runs and four saved reports of at most six events, `MaxClicks` = 3, `MaxDrops` = 1, two speeds, three levels, two depths |
| `extension` | `PanelIsSound`: is there one server until restarts overlap, is a tool shown as running called, is every feature reachable in the tree, while no two bases have the same last part? `PanelCatchesUp`: does the panel come to tell the MCP endpoint's state and the files there are below those bases that lie in the workspace, and no tool stay running? | `MaxServers` = 3, three settings, three bases of which one lies outside the workspace, five feature files of which one in the workspace and one outside come and go, `MaxDisturbances` = 1 crash, change or call, MAX_RETRIES = 1 |

*Why these bounds are enough to be worth checking.* Each is the smallest at which the interesting
case is there and one beyond: two features so that one follows a failed one; two scenarios so that
one ends by the start of another; a limit of two ensures so that the third is refused, from inside
a recursion too; one repetition of a loop, after which the next is the same state; paths of seven,
deep enough for the refusal to come to a statement that is itself tried; two prompts, because the
single slots (`current`, `web`) can only be confused with a second; two messages, because a replay
can be overtaken between them; four statements: a declaration, an assignment, a copy through another
name and a change; each pair of steppers in both orders, since a hook sees only what stands before
it; two calls of getPage before one popup; a getPage that overlaps with that of a download expected, of the same tab or of another, and with the end of the feature; a feature that includes a background on its first and on its second line; a background that gains and loses a waypoint while
another document uses it; three clicks: a filter, a move and what they may contradict; three
servers: one that stops, one that starts, and one asked for meanwhile. The proofs below have no
bounds.

*Bounds in the models* (each named where it is declared): `MaxReruns`, `MaxPolls` (the records
of later polls are dropped, the polls go on), `MaxPrompts`, `MaxOpen`, `MaxReconnects`, `MaxEvents`,
`MaxRuns`, `MaxConnections`, `MaxSteps`, `MaxTraffic`, `MaxWarnings`, `MaxTab`, the numbers in `Setups`,
`MaxEdits`, `MaxCrashes`, `MaxClicks`, `MaxDrops`, `MaxServers`, `MaxDisturbances`. `MaxAttempts`, `MaxLoops`,
`MaxDepth` and MAX_RETRIES are limits of the code itself with smaller values. Runs with
`CHECK_DEADLOCK FALSE` are of systems that stop: a run ends, a page is idle, or a bound is used up.

*Each property has a variant* of a definition of its module, a plausible mistake in the code it models, under
which it fails (`PROJECT.json`, "mutants"; the definitions are marked `Variant`).

*Fairness.* An event loop runs every callback that is queued, so each internal step is weakly fair:
`Advance` of FeatureRun (not its exceptions), `Evaluate` of Statements, settled promises, messages
on a connection and writes of a replay; the page's timers, messages and frames; the extension's
starts, stops, timers and answers, which end in one way or another. In LanguageServer the
processings under way go on (`Process`, its weak fairness written out), and a timer that is set again and again runs
at some time (strong fairness: between two of them there may be a change). Three assumptions are about the outside:
`Arrive` (what the world is going to do, it does: without it `until` may poll for ever), the people of
Prompting, each of whom answers at some time what he is shown, and the editor, which opens its
documents in a server that stays up. A browser is not assumed to lose its connection, only, having
lost it, to reconnect.

## What is proved

The theorems hold for all values of the constants that satisfy the named assumptions. TLC evaluates each
assumption in every run of its module. All but the last say only which values a
constant may have; `TimelineAssumption` says of a feed what the runtime that sends it keeps to. It leaves out what a piggybacking
process posts out of order (the hazard without a property), and reports of features that a client's statement of MCP outlives:

| assumption | of what | why the code justifies it |
|------------|---------|---------------------------|
| `FeatureRunAssumption`, `ActivitiesAssumption`, `VariablesAssumption`, `SseAssumption`, `PromptingAssumption`, `BrowserPoolAssumption`, `ExtensionAssumption` | bounds are natural numbers; plans, contents and domains have their shapes | – |
| `BrowserPoolAssumption`, its last part | a setup has not both a twin page and downloads expected | a limit of the model: the withPage of an expected download patches the twin page while another statement does, which is left out |
| `StatementsAssumption` | a program is a graph of statements of the kinds there are, which begins with the feature; each has the parts its pattern takes: a condition and a body, a proof and an activity, one list, or as many alternatives, none of them empty, as there are | the patterns of LogicStepper (`core/src/steps/logic-stepper.ts:113`), and what Resolver and registerOutcome (`core/src/steps/activities-stepper.ts:390`) build |
| `LanguageServerAssumption` | features, backgrounds and TypeScript documents are apart, and backgrounds, whose paths are strings, finite in number; a text is a sequence of lines | a path below `backgrounds/` is a background's (`lsp/src/lsp-stepper.ts:323`), a path that ends in `.ts` a TypeScript document's, tested first (490), and a folder has finitely many |
| `MonitorsAssumption` | no stepper is twice in a list; there are fewer features than the number 998 that finalizers' paths begin with; bounds are natural numbers | every name of a configuration becomes an object of its own (`core/src/lib/util/index.ts:99`), so a stepper listed twice would be two, of one map each, and each of its lines would match twice; 998 is the code's (`core/src/steps/finalizer-stepper.ts:20`), and with more features two steps could have one path |
| `WebServerAssumption` | ports are positive; no session has one of the names the code reserves | `web-server-hono/src/server-hono.ts:31` refuses other ports; sessions are random UUIDs |
| `TimelineAssumption` | `FeedOK`, `ReportOK`: what is sent between two inits, and what a report holds, is told of one run and in turn (`TellsRun`): the first event with a step's id is its start, and what it logs and its end follow. Its level and depth are those there are; it is not later than `Now` | an init begins the history anew (`web-server-hono/src/sse-transport.ts:73`); `doFeatureStep` tells the start of a step before it acts, and its end after (`core/src/phases/Executor.ts:300`, 309), under its id (`core/src/lib/EventLogger.ts:126`, 148); a lifecycle event has a stage (`core/src/schema/protocol.ts:433`) |

For each component there is one inductive invariant, a conjunction of named parts, shown to hold initially and to be kept
by every action; each theorem follows from it. None of the properties is inductive as it is stated. What the
invariant has to add is the interesting part:

**FeatureRunProofs** — `TypeCorrect`, `HooksNest`, `StartsFresh`, `ScopesConfined`, `ExhaustedRunHalts`,
`FailuresAreTold`.
- *Hooks.* `HooksInv`: as long as no exception was thrown, how often each hook is open is a function of `pc` and
  `currentScenario`. Type correctness alone does not say that `endScenario` finds a scenario open;
  this does, and each action either leaves the hooks alone or takes one step of Lifecycle
  (`HooksNest` proves L!Init and [L!Next] under the mapping). `HeldInv` says that nothing is held before the
  start; only `EndFeature` closes or keeps, by the same `ShouldClose` that decides whether there is a next feature.
- *Scopes.* `ScopeInv`: what the background's copy holds was set outside scenarios, and where `currentScenario` is 0
  no scenario's variable is in any copy; which takes that `currentScenario` is 0 exactly where no scenario is open.
- *Failure.* `EvidenceInv` follows the evidence of a failure (an authoritative failed record, or the exhaustion that a
  recorded step caused) through `actionOk`, `stepOk` and `featureOk` to the verdict. `BlameInv` says the converse: without a
  debugger nothing follows a step with a record to blame, unless the step tolerates failures. `ResultsInv` and `VerdictInv` carry both over to the results of
  features that have ended. What `FirstBlamed` and `ExecutionFailure` choose is a least element, which exists since
  `<` is well founded on Nat (`LeastExists`).

**FeatureRunProofs**, of LanguageServer — `ServerAlwaysCurrent`, for any documents, texts and folder, any number of edits, ends of the
server and retries. The property speaks of a server that rests, so the invariant has to say who still owes what:
- *Behind.* `BehindInv`: a document that is behind a background waits (`Waits`) to be opened, for a processing of its own, for
  another background's timer, or for a processing of one that reads the list and will set its timer. A timer of its own would not do.
- *List.* `ListInv`: no background is in the list twice, and each that is open is there with its present text or has a processing that will
  put it there. With `JobsInv`, that what is under way is of the editor's present texts, this holds in every interleaving.
- *Answers.* `AnswerInv`: a document each of whose outcomes the server has read at one place (`Settled`) is shown as it is or has a processing under
  way. So a processing must not throw, and that takes what the registers hold: each step is of a place where its outcome was read (`Regs(places)`). If there
  is one such place only, no registering clashes, however many backgrounds are read before (`Resolving`). What is applied to other documents and what was
  read only grows in a step of a processing (`Steady`), so what is settled after it was settled before.
- Readings of files, lists and backgrounds are recursive functions, which are what their definitions say since there is a function that is (`Turns`, `MadeBy`,
  `Recursion`); `UpTo` carries a property along their prefixes.

**StatementsProofs** — `RecordsAlwaysSound`, `EnsureAlwaysProves`, `ExhaustedRunsNothing`, `FormulaAlwaysTold`,
`VerdictAlwaysTrue`, for every program; the first four also for one that calls itself. A step of the evaluator has one of five shapes (`Stays`, `Records`, `Pushes`, `Turns`, `Returns`; lemma
`Shapes`), and each part of the invariant is shown to be kept by each shape.
- *Paths.* `ChainInv`: the path of a frame extends its caller's by one number; `PathsInv`: no record and no other frame
  has it. IncSeqPath counts up or down from 1 to the first number that no record took; that it finds one is
  the pigeonhole principle (`OneIsFree`).
- *Blame.* `ModeInv`: the mode of a call is that of the part that makes it; `NumbersInv`: the statements of the feature
  are numbered without a gap; `BlameInv` follows. As in the property, for programs without until, ensure and waypoints
  (see the observations on Statements below).
- *Ensure.* `CallInv`: what runs is the head of its caller's list; `TodoInv`: that list is the rest of a part; `ProofInv`: of the
  proof that runs, what has run holds, and when the second check begins it is still to be shown.
- `ActsOnlyIfUnproven` had been stated too strongly, which the attempt to prove it showed: an activity can start although
  its proof has come to hold, when what the proof checks arrives on its own after it failed. The property now allows
  that, and the program `PolledWaypoint` of the run does it.
- *Truth.* `TruthInv`: let T be any reading of the program, that is, an assignment of truth values to its statements that agrees with
  what each kind of statement means (`Solves`). Of every running frame, what has run of its list holds in T, the
  alternatives before were false, the conditions before true; and what a call has returned is T of the statement called. So the
  verdict is T of the feature (`FormulaAlwaysTold`). A program in which no statement is inside
  itself (`Grounded`: its statements have ranks) has a reading: one built up rank by rank, where the lowest rank that cannot be
  reached would be a contradiction (`SomeUpTo`), and any two agree as far as both go (`UpToAgree`). So
  the recursive `Truth` is one (`TruthSolves`), and `VerdictIsTruth` follows. A background that includes itself may have no
  reading; `VerdictAlwaysTrue` says nothing of it.

**ClientsProofs**, of Prompting — `AnswersTrue`. `HeldInv` says who can hold a prompt; `SettledInv`, that each promise is settled once,
with an answer that was given to that prompt; `CountInv`, that `responded` is at most one more than the
subscribers that are done with the prompt without an answer (`Spent`): otherwise a prompt could return undefined and
one of the answers at once; `AnswerInv`, that an answered prompt is held nowhere but by the terminal that no longer shows it.

**ClientsProofs**, of Extension — `PanelAlwaysSound`, for any settings, files, tools and number of servers. That one
server runs at a time is not inductive: which one it is has to be said. Until restarts overlap a server that is alive is the
extension's client or the one whose stop is awaited, and while one is there is no client (`AliveInv`); `stopping` is true of
the states (`StoppingInv`), and without a CLI there is no server (`CliInv`). That the panel stops calling a server
running when it ends takes that the client got its handler by then (`HandledInv`), which is where overlapping restarts
go wrong: a start gives its handler to whatever client there is. What the handlers of a client make of the status, however
many it has, is a function of the one before each (`AfterStopType`). For the tree, the last of some bases is one of them
(`LastOfIs`), so what the caches have for a name has that name.

**ClientsProofs**, of Monitors — `RunsAreTold`, `SpansNest`, `WarningsDoNotMultiply`, for any setups: lists of the steppers in any
order, any number of features, steps, events from outside and posts. `RunInv` has sixteen parts.
- *Order.* Which hooks are over is a matter of the list: `Ahead(s)` and `Behind(s)` say whether a stepper's turn in this round is
  still to come. With them `ActiveInv` says when a feature's path is active, `ReportCountInv` how many reports there are, `RegisteredInv`
  that nothing is left once FinalizerStepper had its turn at the end.
- *Finalizers.* What is registered is registered once and under one path (`RegisteredInv`), what has
  run is no longer registered or is before the one that runs (`RanInv`), and what a feature registers after its line is under its own
  path until its hook (`LineInv`): what is registered without a line runs under another feature's.
- *Reports.* While a report is written, it is what was kept up to then, and what is kept since is known to have come meanwhile
  (`SavingInv`): so what the buffer loses when it is emptied is what `savedAt` names. `ReportedInv` follows the finalizers' steps through
  buffer, `saving` and report.
- *Spans.* `OtelInv`: the spans of the feature and of its steps are open and are those of the steps that are (`SpansOK`), and no other is but a
  user's and those another Feature: line has replaced (`NoneLeft`, `Forgotten`). One lemma per kind of event says what it makes of that (`StartsFeature`, `StartsStep`, `EndsStep`, `ShowsArtifact`), one per kind of
  step what monitor-otel hears of it (`GoesStart`, `GoesEnd`, …).
- *Serializer.* `EventsRead`: for any events, what `Serialized` writes, `Deserialized` reads. An event is one line, or two if its keys
  are new (`WritesEvent`); what is read of the lines so far are the schemas' keys and the events so far (`ReadOf`), and the lines of one more event are
  read as one more (`EventIsRead`). Both loops are recursive functions, which are what their definitions say since there is a function
  that is (`Recursion`).

**SseTransportProofs** — `PageTellsRunAlways`, for any number of pages, runs, connections and events. What a page shows says
nothing of what is on its way. The invariant follows each message from the array it was taken from to the
page: a socket is a row of blocks, each a beginning of its run (`Blocks`); what comes before the first init goes on
where the page stopped (`Joins`); its end is where the server stopped writing (`BlocksEnd`, `JoinsEnd`), which is the
replay's place in the array it began with, or the end of the present one.

**SteppersProofs**, of Activities — `ActivitiesTypes`, `NoLeakInResolution`, `ResolvedIsThere`,
`BackgroundsAreThere`. The invariant `Registered` says that each text was registered at most once,
by a background or under one path (`RegisteredOnce`); that while a file is
resolved the steps are the backgrounds' and its own (`StepsInResolution`); what they are while a
feature is executed, the first being the exception, which still has those of the last one resolved
(`StepsInExecution`); and that what was resolved is still registered (`ResolvedIsKept`). Without the first, the
steps of a feature could hide a background's when they are put over one another.

**SteppersProofs**, of Variables — `VariablesTypes`, `ValuesSafe` (from `StaysInDomain` and `SecretsKept`),
`StoreKeepsUp`, `StepsRespect` (from `ReadOnlyKept`, `ScenariosKeep` and `TakesTheNext`). A value
reaches `values` from the copies
`scoped` and `base`, and domains change under existing values, so the invariant `Kept` states for all
three copies that values are in their domains and what came from a secret is secret, for the
domains that their members and orders are accepted by them, for the store that it agrees with the
values, and what the copies are in each phase of a scenario. The statements are reduced to
five effects (`Nothing`, `Writes`, `Unsets`, `Declares`, `Overwrites`): one lemma per kind of statement says
which effect it has, one per effect that it keeps the invariant.

**WebServerProofs** — `ServersAlwaysSound`, `ClientsAlwaysApart`. `PhaseInv` says how many servers, lists and verdicts there are at
each point of a feature; `PortsInv`, that the registry names the sockets, one server each, and a server's handle is one of
them; `OnePortInv`, that with one port nobody listens between features; `MountsInv`, that the first route
at a mounted path is the one mounted; `SessionsInv`, whose focus a session has; `RunningInv`, that a client's statement
runs in the world of a feature that was started; `ResultsInv`, that a feature's list without the
clients' results is what its own statements left, and its verdict theirs unless one was refused.

**ViewsProofs** — `PageAlwaysWhole`, `RowsAlwaysTell`, `ViewsAlwaysSound`, `ClicksAlwaysObeyed` (with `ExpandsWithoutHiding`
for its first part), for any feed, report, number of lost connections and clicks.
- *What a page has.* `StreamInv`: the events shown and those that wait are, together, what came since an init of
  the present connection, or what was there before it reconnected, and are told in turn. It is what an
  init has to clear in both the page and its buffer. `TimeInv`: a page nobody touched is at its end, and one without a start
  has no events. `IInv` is these and the types.
- *Rows.* The rows are a recursive function over the events, and so is the document: lemma `Recursion` says that such a function is
  what its definition says, `UpTo` carries a property along its prefixes. `MergedInv`: after each event
  there are no more rows than events, the first row of a step's id is one of its reports, and each event has a row or a later report of its step. `TellsStep`: of a
  step that ran once, the rows not dimmed are its last report until now; here it matters that events are told in turn. The blocks
  are a third such function, of which `VisibleIs` says that it only groups the rows: flattened it gives them again.
- *Document.* `DocumentOK`, along the loop: what is in a row has been claimed, what was claimed is in a row, and no two
  rows share an artifact; `Written`: after an event, its artifact has been claimed. `StartInv`: the timeline starts at the least timestamp, or at a report's first
  event: without it the document, which counts from the first event, and the others, which
  count from the start, would not agree.
- *Graph.* `GraphInv`: a graph that is open and has not chosen has nothing chosen, and no contexts it could choose; so its effect
  has nothing to undo when the user ticks a first box.

**BrowserPoolProofs** — `PagesAlwaysSound`, `NothingStaysBehind`, `SettledCopiesKept`, for any number of features, steps, pages and tabs
and any setup. The properties speak of the moments between steps; between two awaits of a step they do not hold. `StepInv`,
`PagesInv` and `HeadersInv` say what is due to the step that awaits: the page it was given is open and of its feature, the context
has the header it is about to assign and not yet the field.
- *Reach.* `ReachInv`: as long as nobody went back to an earlier tab, no page of the feature is beyond the current tab, and the tab a page
  is created for has none yet; so a page that is registered never takes the place of one that is open. That a page is
  created for a tab that a popup may have left meanwhile is why the call remembers its tab. `CallsInv` and `ApartInv`: no two calls are of
  one statement, and while none have overlapped the one there may be leads to the context and the browser that will be closed; from the
  first overlap on nothing is said of new pages (`alone`), only that a statement still works on an open page of its feature.
- *Behind.* `LeftInv`: what is open and was got alone is of the feature that runs, until it has closed; `FilesInv`: what is on disk is among what was
  downloaded and not yet removed.
- *Twin.* `TwinInv`: a copy is due only while the page is read for its file, and then no step of the feature runs that could touch it.

*Only model-checked:*

- The liveness properties (`StartedFeatureEnds`, `FeatureEnds`, `PromptReturns`, `CatchesUp`, `DocumentsCatchUp`, `PlaybackEnds`,
  `PanelCatchesUp`), which are beyond the proof system.
- `Features`, whose operators are recursive; it serves only the instance.
- `MarkedIsUnknown` of LanguageServer, the part of `DocumentsCatchUp` about marks, which holds for the texts of the instance and not for all: where a text leaves a block open, the
  next lines that are read are taken as of that block (the observation on Activities below), so a reading for tokens can register an
  outcome that a document still shows as unknown. TLC finds that with three one-line texts. Every invariant of the runs is a theorem.

## Where code and documents differ

Sentences of the repository that the code does not keep. The properties are stated so that they hold
beside these; for each, the module allows what the code does.

| the sentence | what the code does | in the model |
|--------------|--------------------|--------------|
| `docs/architecture.md` 158–167: every started feature and execution is ended | an undefined argument (`core/src/lib/populateActionArgs.ts:20`), or a hook, throws past endScenario, endFeature and endExecution | `Bail` of FeatureRun; `StartedFeatureEnds` allows for it |
| `core/src/lib/defs.ts:51`: execution was aborted due to exhaustion | the refusal of a step is a failure like another, which `not` makes a success: the feature passes | `TriedTooOften` of MCStatements |
| `core/src/lib/prompter.test.ts:31`: returns undefined if all subscribers do | the count starts at 1 (`core/src/lib/prompter.ts:41`), and with one subscriber skips its end: a failing step without a terminal waits for ever | `EnoughUndefined` of Prompting; `PromptReturns` is of prompts somebody can answer |
| `web-server-hono/src/sse-transport.ts:72`: cleared to prevent stale data across runs | a page in the middle of its replay never gets the init of the new run, and shows the old one | `overtaken` of SseTransport |
| `core/src/phases/Resolver.ts:67`: feature-scoped steps do not leak between features | the first feature is executed with the outcomes of the last one resolved (`core/src/steps/activities-stepper.ts:47`), so that a statement that had one meaning can have two | `StepsExecuting` of Activities |
| `core/src/steps/variables-stepper.test.ts:79`: cannot overwrite a read-only variable | reading a file into it does (`domain-storage/src/AStorage.ts:211`) | `ReadFileInto` of Variables |
| `lsp/src/lsp-stepper.ts:502`: a timer avoids infinite loops | the timers of two open backgrounds process one another's document, which sets the next timer: they never end, and with three they multiply | `Revalidate` of LanguageServer |
| `monitor-browser/src/client/App.tsx:200`: events may not be sorted | a saved report whose first event is not its earliest shows only an error page (`serialize.ts:20`) | `timelineError` of Timeline |

Other things seen while modelling:

- *Executor.* The failure given to onFailure, and that of the junit report, can be the record of a tried statement
  of a step that passed. The id of a lifecycle event can be given twice after a second Feature:
  line; a rerun pushes a second record with the same path.
- *Statements.* `whenever` tries its condition once more than MAX_LOOPS. An `until` whose statement
  exhausts the run polls for ever. Failed polls, and an ensure below a maybe, leave authoritative
  failed records in a feature that passes; and when a later step fails, the first of them is reported as the failure
  (`createExecutionFailure`, `core/src/phases/Executor.ts:39`). `FailureIsTold` of FeatureRun has the steps that may leave them,
  `Tolerates`, as its exception.
- *Activities.* A waypoint whose outcome an earlier feature defined is passed over without an error:
  `featureOutcomePatterns` is never cleared (`core/src/steps/activities-stepper.ts:497`). Hence registering it twice cannot happen and the
  refusal to do so is unreachable. An Activity that is open when its file ends swallows the first lines of
  the next file. The registry is keyed by the path without its base.
- *Prompting.* With two subscribers one undefined answer is enough to end a prompt. The browser ignores
  cancellations; the terminal UI has one slot, and a second prompt takes it from the first for
  ever. Nothing calls Prompter.resolve or cancel, or constructs HttpPrompter.
- *SseTransport.* A client that leaves during its replay leaves its handler on the hub.
- *Variables.* Domains are not reset between features, so that the second feature to declare a set fails.
  Unset leaves the quads. `compose`, `set ... to random` and quantifiers give the variable the
  domain string; the variable of a quantifier keeps its last value and does not inherit secrecy. What a stepper's
  event sets between a scenario's copy and the end of its hooks is lost.
- *Monitors.* With monitor-otel in the list the other monitors hear nothing after the first feature has started.
  A finalizer registered before a Feature: line goes to the feature before, whose hook is over, and waits for the
  end of the execution. A Feature: line after steps, or a second one, leaves the span that was there for the feature open
  for ever. A monitor that piggybacks shows no prompt.
- *BrowserPool.* `expect a download` before there is a page: the next statement's getPage overlaps with its own, and each makes a page for
  the tab, a context for the feature and maybe a browser (`web-playwright/src/BrowserFactory.ts:53`, 115, 137). The last to answer takes
  the place of the others, which are in no tab, may wait for the download where the click will not start it, and of which
  no context or browser is closed with the feature. The same call may outlive its feature, and its page then comes in a factory that was
  dropped. `PagesAreReachable`, `NothingLeftOpen` and `HeadersAgree` except what is opened from the first overlap on; without these
  exceptions the run finds each violated. Such a rejection is only logged, and sets the exit code (`cli/src/cli.ts:8`).
  A page of a persistent profile that a finalizer opens after the close is never closed.
  The container stays set when a nested statement throws, into the next feature. A download name that
  was used twice makes endFeature throw. `wroteElement` of the twin page stays set after endFeature has written it.
- *WebServer.* With different ports for web and MCP, a feature that listens on both leaves the first taken, and the next
  startFeature throws. Clients without a session never see the stepper they turned to in their list. Results
  of clients can land in a later feature's list. `serve mcp tools at {path}` does nothing; the branch for
  a server that listens already (`web-server-hono/src/mcp-stepper.ts:246`) is dead. The check that a path is mounted is not symmetric.
  A folder that is indexed answers every request below `/` that no earlier route does, with 404 if need be
  (`web-server-hono/src/server-hono.ts:104`): what is mounted after it is said to be mounted and never served.
  A client's `ensure` that has had its attempts exhausts the run for the feature too: its next statement is
  refused and the feature fails, with no failed result of its own (`core/src/phases/Executor.ts:280`). `VerdictIsOfFeature` says so.
- *LanguageServer.* A waypoint is registered at its index in the text that is read, after expansion
  (`core/src/phases/Resolver.ts:112`, `core/src/steps/activities-stepper.ts:535`). So a background's waypoint that moves, and one that a feature
  includes with a Backgrounds: line that is not its first, is registered at two places, which throws where nothing
  catches it, also in "Retry without backgrounds": the old diagnostics stay. `AnswersArePresent` and `EventuallyAnswered` except
  such a document (`Settled`); the run reaches it. Waypoints deleted from a background are
  still offered. Tokens and edits of backgrounds set `lastResolutionPath`, so that another feature's waypoints are seen. The
  backgrounds of the folder are read once. Errors of included lines are shown at the background's line numbers.
- *Timeline.* Losing the connection at time 0 jumps to the end; so does a new event, wherever the user is. An init leaves
  `maxTime`, the prompt, the selection and playing as they are. A prompt that was answered is shown again by a replay.
  A retried step leaves a row that runs for ever. Opening a block with a deep event of a higher level raises the log
  level, hides rows that were shown, and can be done in circles.
- *Views.* The document ignores a change of the log level until the next event, and shows an artifact below the level inside a step
  that is shown. Clicking a row of a step that was retried goes to the first of its id. Unticking the last context shows the
  default ones again; a run of observations alone can never be shown. An early return before a hook
  (`QuadGraphDiagram.tsx:446`) makes React give the page up when the first quad comes while the graph is open (`blank`).
- *Extension.* Two overlapping restarts can leave two servers; what a start registers after its await goes to whatever client there is
  by then. A stop that was asked for runs the handler that retries. After a retry that succeeds the status stays
  "starting" and the count is not reset. Of two bases of the same last name only the last is shown. A tool
  called twice is shown as done when the first call ends. Bases outside the workspace are not watched: their
  features in the tree are those of the last refresh, as when a document is edited or the settings are changed by a command.

## What is not modelled

Each part is in `PROJECT.json`, "components", with its reason. In short:

- *Text.* The matching of a line with patterns (namedVars), the formatting of events, reports and pages: a line is a
  statement, an event a record. Which step a line means is modelled as far as it changes during a run.
- *Provenance* and the queries of the quad store.
- *Outside libraries* (Playwright, OpenTelemetry, Hono, axe, vscode-languageclient, React): where a module needs one it is an
  action of its own, marked external in the map, as the download that arrives in BrowserPool.
- *Time.* Delays are steps; a poll is not told from the next but by what has arrived. Only Timeline has a clock,
  the page's own.
- *Pure functions and I/O*: collector, kireji, the run policy, the report for JUnit, storage, narration, the command line.
- *The recorder* of interactions, the dialogs of pages, the completion items and tokens of the language server, labels and
  icons of the panel.

## The plan

*Done:* FeatureRun with Lifecycle, Statements, Prompting, SseTransport, Activities with Features, Variables; then
Monitors, BrowserPool, WebServer, Timeline with Views, LanguageServer, Extension.

*Proofs, done:* the invariants of FeatureRun, Statements, Prompting, SseTransport, Activities, Variables, WebServer,
Timeline and Views, BrowserPool, Extension, Monitors and LanguageServer, and the action properties of all of them that have one.

*Proofs, next:* `MarkedIsUnknown` for texts that close their blocks, which takes that reading the same list again registers nothing
new.

*Models, after that:* the choice of one step among several that match (unique, by precludes, fallback); the loop of
DebuggerStepper composed with Prompting; the recorder on BrowserPool.
