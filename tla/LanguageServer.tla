---------------------------- MODULE LanguageServer ----------------------------
(***************************************************************************)
(* The language server (LspStepper) an editor runs on the documents its     *)
(* user has open. A change of a document starts a processing of it: a       *)
(* background is put in the server's list, the background steps are cleared  *)
(* and every background of the list is read again, and a timer makes every   *)
(* other open document be processed again; then the document is resolved     *)
(* against the steps that ActivitiesStepper holds and its diagnostics sent.  *)
(*                                                                         *)
(* One thread runs it. Nothing a processing awaits is input or output, so    *)
(* the next message or timer is handled when no processing is under way;     *)
(* those that one timer starts are under way together, and share the steps.  *)
(* The process can die: the extension starts it again, at most MAX_RETRIES   *)
(* times, and the editor opens its documents in it once more.                *)
(*                                                                         *)
(* A text is a sequence of lines [kind, name]: "activity" opens a block,     *)
(* "waypoint" names an outcome, "step" uses one (or a step of Builtin),      *)
(* "header" is a scenario line and "include" a Backgrounds: line.            *)
(***************************************************************************)
EXTENDS Naturals, Sequences, FiniteSets, Functions, SequencesExt

CONSTANTS
  Features,     \* documents that are features
  Alone,        \* those of no workspace, or of one without a backgrounds/ folder
  Backgrounds,  \* documents below a backgrounds/ folder
  Kireji,       \* documents written in TypeScript
  Builtin,      \* the steps every stepper but ActivitiesStepper gives
  Drafts,       \* per document, the texts its user may give it
  OnDisk,       \* per background of the folder, its first text there
  MAX_RETRIES,
  MaxEdits, MaxCrashes     \* bounds of the model

Docs == Features \cup Backgrounds \cup Kireji
Lines == [kind : {"activity", "waypoint", "step", "header", "include"}, name : STRING]

ASSUME LanguageServerAssumption ==
  /\ Alone \subseteq Features
  /\ Features \cap Backgrounds = {} /\ Kireji \cap (Features \cup Backgrounds) = {}
  /\ IsFiniteSet(Backgrounds) /\ Backgrounds \subseteq STRING
  /\ DOMAIN Drafts = Docs /\ \A d \in Docs : \A t \in Drafts[d] : t \in Seq(Lines)
  /\ DOMAIN OnDisk \subseteq Backgrounds /\ \A b \in DOMAIN OnDisk : OnDisk[b] \in Seq(Lines)
  /\ MAX_RETRIES \in Nat /\ MaxEdits \in Nat /\ MaxCrashes \in Nat

VARIABLES
  text,         \* per document the user has open, the text in the editor
  disk,         \* per background of the folder, its text there
  unsent,       \* documents the editor has still to open in the server
  backgrounds,  \* the server's list: [path, content, based], in order
  workspace,    \* workspaceBackgrounds: <<the list read from disk>>, or <<>> until it is
  reg,          \* the registers of ActivitiesStepper
  jobs,         \* the processings under way
  timers,       \* per pending setTimeout, the background that set it
  cache,        \* documentCache: per document, the text it was resolved from
  shown,        \* per document, the diagnostics the editor shows, and their text
  client,       \* the extension's connection: running, waiting (for a retry) or error
  retryCount,
  behind,       \* documents not resolved since the list last changed (a history)
  places,       \* where the server has read which outcomes (a history)
  unread,       \* features the folder could not be read for when last processed (a history)
  edits, crashes

serverVars == <<text, disk, unsent, backgrounds, workspace, reg, jobs, timers, cache, shown, client, retryCount,
          behind, places, unread, edits, crashes>>
server == <<backgrounds, workspace, reg, jobs, timers, cache, places, unread>>

Open == DOMAIN text
Empty == [x \in {} |-> x]

-----------------------------------------------------------------------------
\* ActivitiesStepper, as the server uses it.

Fresh == [steps |-> Empty, backgroundSteps |-> Empty, backgroundOutcomePatterns |-> {},
          featureOutcomePatterns |-> {}, featureSteps |-> [d \in Docs |-> Empty],
          lastResolutionPath |-> "", inActivityBlock |-> FALSE]

Over(f, g) == [x \in DOMAIN f \cup DOMAIN g |-> IF x \in DOMAIN g THEN g[x] ELSE f[x]]
Without(f, S) == [x \in DOMAIN f \ S |-> f[x]]

\* The steps of the feature resolved before go, those of this one and the
\* backgrounds' come.
startFeatureResolution(r, path) ==
  LET last == r.lastResolutionPath
      gone == IF last \in Docs \ {path} THEN DOMAIN r.featureSteps[last] ELSE {}
  IN  [r EXCEPT !.steps = Over(Over(Without(@, gone), r.featureSteps[path]), r.backgroundSteps),
                !.lastResolutionPath = path]

\* The steps themselves stay.
clearAllBackgroundSteps(r) ==
  [r EXCEPT !.backgroundSteps = Empty, !.backgroundOutcomePatterns = {}]

Clashes(r, outcome, source) ==
  /\ outcome \notin r.backgroundOutcomePatterns \cup r.featureOutcomePatterns
  /\ outcome \in DOMAIN r.steps /\ r.steps[outcome] # source

\* An outcome that is known by name is not registered again.
registerOutcome(r, outcome, path, source) ==
  IF outcome \in r.backgroundOutcomePatterns \cup r.featureOutcomePatterns \cup DOMAIN r.steps THEN r
  ELSE LET added == [o \in {outcome} |-> source]
           r1    == [r EXCEPT !.steps = Over(@, added)]
       IN  IF path \in Backgrounds
           THEN [r1 EXCEPT !.backgroundOutcomePatterns = @ \cup {outcome},
                           !.backgroundSteps = Over(@, added)]
           ELSE [r1 EXCEPT !.featureOutcomePatterns = @ \cup {outcome},
                           !.featureSteps[path] = Over(@, added)]

\* A reading of lines: the registers, whether one threw, the lines not resolved.
Reading(r) == [reg |-> r, threw |-> FALSE, errors |-> {}]

MoreWaypoints(lines, i) ==
  \E j \in i + 1..Len(lines) :
     /\ lines[j].line.kind = "waypoint"
     /\ \A k \in i + 1..j : lines[k].line.kind \notin {"header", "activity"}

\* resolveFeatureLine, and the step that a line not taken by it must match.
\* The place of a waypoint is its index in what is read, whatever it is in the
\* file that the line is from.
ReadLine(at, i, lines, path) ==
  LET x == lines[i].line
      r == [at.reg EXCEPT !.lastResolutionPath = path]
      source == [path |-> lines[i].from, line |-> i]
      known == x.kind # "step" \/ x.name \in Builtin \cup DOMAIN r.steps
  IN  IF at.threw THEN at
      ELSE IF x.kind = "activity" THEN [at EXCEPT !.reg = [r EXCEPT !.inActivityBlock = TRUE]]
      ELSE IF ~r.inActivityBlock \/ x.kind = "header" THEN
        [at EXCEPT !.reg = [r EXCEPT !.inActivityBlock = FALSE],
                   !.errors = IF known THEN @ ELSE @ \cup {[number |-> lines[i].number, name |-> x.name]}]
      ELSE IF x.kind # "waypoint" THEN [at EXCEPT !.reg = r]
      ELSE IF Clashes(r, x.name, source) THEN [at EXCEPT !.reg = r, !.threw = TRUE]
      ELSE [at EXCEPT !.reg = [registerOutcome(r, x.name, path, source)
                                 EXCEPT !.inActivityBlock = MoreWaypoints(lines, i)]]

findFeatureStepsTolerant(r, lines, path) ==
  LET read[n \in 0..Len(lines)] == IF n = 0 THEN Reading(r) ELSE ReadLine(read[n - 1], n, lines, path)
  IN  read[Len(lines)]

\* The lines of a text, each with a file and the number it has in its own.
Numbered(content, path) ==
  [i \in DOMAIN content |-> [line |-> content[i], from |-> path, number |-> i]]

Includes(content) == {content[i].name : i \in {n \in DOMAIN content : content[n].kind = "include"}}

\* expand: an include stands for the lines of the one background of its name.
\* Those of a background without a base are taken for the document's own.
Includable(content, list) ==
  \A b \in Includes(content) : Cardinality({j \in DOMAIN list : list[j].path = b}) = 1

Named(list) ==
  [b \in {e.path : e \in Range(list)} |-> CHOOSE e \in Range(list) : e.path = b]

expand(content, path, named) ==
  LET Taken(i) == IF content[i].kind # "include" THEN <<Numbered(content, path)[i]>>
                  ELSE LET e == named[content[i].name]
                       IN  Numbered(e.content, IF e.based THEN e.path ELSE path)
  IN  FlattenSeq([i \in DOMAIN content |-> Taken(i)])

\* new Resolver(steppers, backgrounds): each background is read, and what it
\* does not resolve is only a warning.
Resolver(r, list) ==
  LET Read(at, b) ==
        IF at.threw THEN at
        ELSE [findFeatureStepsTolerant(at.reg, Numbered(b.content, b.path), b.path) EXCEPT !.errors = {}]
      read[n \in 0..Len(list)] == IF n = 0 THEN Reading(r) ELSE Read(read[n - 1], list[n])
  IN  read[Len(list)]

\* The places where a reading meets an outcome.
WaypointsIn(lines) ==
  {[name |-> lines[i].line.name, path |-> lines[i].from, line |-> i] :
     i \in {n \in DOMAIN lines : lines[n].line.kind = "waypoint"}}
PlacesIn(list) == UNION {WaypointsIn(Numbered(b.content, b.path)) : b \in Range(list)}

ServerInit ==
  /\ text = Empty /\ disk = OnDisk /\ unsent = {} /\ backgrounds = <<>> /\ workspace = <<>> /\ reg = Fresh
  /\ jobs = {} /\ timers = {} /\ cache = Empty /\ shown = Empty
  /\ client = "running" /\ retryCount = 0 /\ behind = {} /\ places = {} /\ unread = {} /\ edits = 0 /\ crashes = 0

-----------------------------------------------------------------------------
\* The editor and the timers: each waits for the processings under way.

Idle == client = "running" /\ jobs = {}
Start(d, t) == [doc |-> d, at |-> "start", text |-> t, list |-> <<>>, next |-> 1, answer |-> {}]

\* onDidChangeContent: a document is opened or changed.
Change(d, t) ==
  /\ Idle /\ unsent = {} /\ edits < MaxEdits
  /\ d \in Open => text[d] # t
  /\ text' = Over(text, [x \in {d} |-> t])
  /\ jobs' = {Start(d, t)}
  /\ edits' = edits + 1
  /\ UNCHANGED <<disk, unsent, backgrounds, workspace, reg, timers, cache, shown, client, retryCount, behind,
                 places, unread, crashes>>

\* A closed document leaves documents.all() and nothing else.
Close(d) ==
  /\ Idle /\ unsent = {} /\ d \in Open /\ edits < MaxEdits
  /\ text' = Without(text, {d})
  /\ behind' = behind \ {d}
  /\ edits' = edits + 1
  /\ UNCHANGED <<disk, unsent, server, shown, client, retryCount, crashes>>

\* Saving a background: the server is not told, and keeps the list it read.
Save(b) ==
  /\ Idle /\ b \in Open \cap DOMAIN disk /\ disk[b] # text[b]
  /\ disk' = [disk EXCEPT ![b] = text[b]]
  /\ UNCHANGED <<text, unsent, server, shown, client, retryCount, behind, edits, crashes>>

\* After a restart the editor opens its documents again.
Reopen(d) ==
  /\ Idle /\ d \in unsent
  /\ unsent' = unsent \ {d}
  /\ jobs' = IF d \in Open THEN {Start(d, text[d])} ELSE {}
  /\ UNCHANGED <<text, disk, backgrounds, workspace, reg, timers, cache, shown, client, retryCount, behind,
                 places, unread, edits, crashes>>

\* Variant: the documents of the cache are processed, and not those that are open.
RevalidatesCached(b) ==
  /\ Idle /\ b \in timers
  /\ timers' = timers \ {b}
  /\ jobs' = {Start(d, text[d]) : d \in ((Open \ unsent) \cap DOMAIN cache) \ {b}}
  /\ UNCHANGED <<text, disk, unsent, backgrounds, workspace, reg, cache, shown, client, retryCount, behind,
                 places, unread, edits, crashes>>

\* The timer of a background: every other open document is processed.
Revalidate(b) ==
  /\ Idle /\ b \in timers
  /\ timers' = timers \ {b}
  /\ jobs' = {Start(d, text[d]) : d \in (Open \ unsent) \ {b}}
  /\ UNCHANGED <<text, disk, unsent, backgrounds, workspace, reg, cache, shown, client, retryCount, behind,
                 places, unread, edits, crashes>>

\* A request for semantic tokens resolves the context of its document, and
\* what goes wrong is only logged.
SemanticTokens(d) ==
  /\ Idle /\ d \in Open \ unsent
  /\ reg' = Resolver(startFeatureResolution(reg, d), backgrounds).reg
  /\ places' = places \cup PlacesIn(backgrounds)
  /\ UNCHANGED <<text, disk, unsent, backgrounds, workspace, jobs, timers, cache, shown, client, retryCount,
                 behind, unread, edits, crashes>>

-----------------------------------------------------------------------------
\* A processing: what it does from one await to the next.

To(j, j1) == jobs' = (jobs \ {j}) \cup {j1}
Done(j) == jobs' = jobs \ {j}
Rest == <<text, disk, unsent, client, retryCount, edits, crashes>>

\* processTypeScriptDocument: each string of the document is matched by itself.
ProcessTypeScript(j) ==
  /\ j.at = "start" /\ j.doc \in Kireji
  /\ LET r == startFeatureResolution(reg, j.doc)
         errors == {[number |-> i, name |-> j.text[i].name] :
                      i \in {n \in DOMAIN j.text : j.text[n].kind = "step"
                                                   /\ j.text[n].name \notin Builtin \cup DOMAIN r.steps}}
     IN  /\ reg' = r
         /\ cache' = Over(cache, [d \in {j.doc} |-> j.text])
         /\ shown' = Over(shown, [d \in {j.doc} |-> [text |-> j.text, parsed |-> TRUE, errors |-> errors]])
  /\ behind' = behind \ {j.doc}
  /\ Done(j)
  /\ UNCHANGED <<Rest, backgrounds, workspace, timers, places, unread>>

\* The entries of a list that are not of a path.
Others(list, path) ==
  LET kept[n \in 0..Len(list)] == IF n = 0 THEN <<>>
                                  ELSE IF list[n].path = path THEN kept[n - 1]
                                  ELSE Append(kept[n - 1], list[n])
  IN  kept[Len(list)]

\* updateBackgrounds: this background's entry is put last, and the steps of
\* all of them are cleared.
UpdateBackgrounds(j) ==
  /\ j.at = "start" /\ j.doc \in Backgrounds
  /\ backgrounds' = Append(Others(backgrounds, j.doc), [path |-> j.doc, content |-> j.text, based |-> FALSE])
  /\ reg' = clearAllBackgroundSteps(reg)
  /\ behind' = IF backgrounds' = backgrounds THEN behind ELSE behind \cup (Open \ {j.doc})
  /\ To(j, [j EXCEPT !.at = "reparse", !.list = backgrounds'])
  /\ UNCHANGED <<Rest, workspace, timers, cache, shown, places, unread>>

\* The next of the list is read. That one throws is only logged.
Reparse(j) ==
  /\ j.at = "reparse" /\ j.next <= Len(j.list)
  /\ LET b == j.list[j.next]
         lines == Numbered(b.content, b.path)
     IN  IF Includable(b.content, <<>>)
         THEN /\ reg' = findFeatureStepsTolerant(reg, lines, b.path).reg
              /\ places' = places \cup WaypointsIn(lines)
         ELSE UNCHANGED <<reg, places>>
  /\ To(j, [j EXCEPT !.next = @ + 1])
  /\ UNCHANGED <<Rest, backgrounds, workspace, timers, cache, shown, behind, unread>>

\* Variant: no timer is set.
ReparsedOnly(j) ==
  /\ j.at = "reparse" /\ j.next > Len(j.list)
  /\ To(j, [j EXCEPT !.at = "resolve", !.list = <<>>])
  /\ UNCHANGED <<Rest, backgrounds, workspace, reg, timers, cache, shown, behind, places, unread>>

Reparsed(j) ==
  /\ j.at = "reparse" /\ j.next > Len(j.list)
  /\ timers' = timers \cup {j.doc}
  /\ To(j, [j EXCEPT !.at = "resolve", !.list = <<>>])
  /\ UNCHANGED <<Rest, backgrounds, workspace, reg, cache, shown, behind, places, unread>>

\* getWorkspaceBackgrounds: the folder is read once. A feature that has none,
\* or for which it cannot be read or its features be counted, has the server's list.
loadBackgroundsFromPath ==
  LET files == SetToSeq(DOMAIN disk)
  IN  [i \in DOMAIN files |-> [path |-> files[i], content |-> disk[files[i]], based |-> TRUE]]

GetWorkspaceBackgrounds(j) ==
  /\ j.at = "start" /\ j.doc \in Features
  /\ \/ /\ j.doc \in Alone
        /\ To(j, [j EXCEPT !.at = "resolve", !.list = backgrounds])
        /\ UNCHANGED <<workspace, unread>>
     \/ /\ j.doc \notin Alone
        /\ workspace' = IF workspace = <<>> THEN <<loadBackgroundsFromPath>> ELSE workspace
        /\ unread' = unread \ {j.doc}
        /\ To(j, [j EXCEPT !.at = "resolve", !.list = workspace'[1]])
     \/ /\ j.doc \notin Alone /\ workspace = <<>>
        /\ workspace' \in {<<>>, <<loadBackgroundsFromPath>>}
        /\ unread' = unread \cup {j.doc}
        /\ To(j, [j EXCEPT !.at = "resolve", !.list = backgrounds])
  /\ UNCHANGED <<Rest, backgrounds, reg, timers, cache, shown, behind, places>>

\* A document that includes what is not there fails to parse, in the second
\* attempt, without backgrounds, as in the first.
FailToParse(j) ==
  /\ j.at = "resolve" /\ ~Includable(j.text, j.list)
  /\ cache' = Without(cache, {j.doc})
  /\ shown' = Over(shown, [d \in {j.doc} |-> [text |-> j.text, parsed |-> FALSE, errors |-> {}]])
  /\ behind' = behind \ {j.doc}
  /\ Done(j)
  /\ UNCHANGED <<Rest, backgrounds, workspace, reg, timers, places, unread>>

\* With no await from its context to the last of its lines, the document is
\* resolved; where a waypoint is registered at another place, the processing
\* ends there, and nothing is shown.
Resolve(j) ==
  /\ j.at = "resolve" /\ Includable(j.text, j.list)
  /\ LET inner == Resolver(startFeatureResolution(reg, j.doc), j.list)
         lines == expand(j.text, j.doc, Named(j.list))
         read == IF inner.threw THEN inner ELSE findFeatureStepsTolerant(inner.reg, lines, j.doc)
     IN  /\ reg' = read.reg
         /\ places' = places \cup PlacesIn(j.list) \cup WaypointsIn(lines)
         /\ IF read.threw THEN Done(j) ELSE To(j, [j EXCEPT !.at = "publish", !.answer = read.errors])
  /\ behind' = behind \ {j.doc}
  /\ UNCHANGED <<Rest, backgrounds, workspace, timers, cache, shown, unread>>

Publish(j) ==
  /\ j.at = "publish"
  /\ cache' = Over(cache, [d \in {j.doc} |-> j.text])
  /\ shown' = Over(shown, [d \in {j.doc} |-> [text |-> j.text, parsed |-> TRUE, errors |-> j.answer]])
  /\ Done(j)
  /\ UNCHANGED <<Rest, backgrounds, workspace, reg, timers, behind, places, unread>>

-----------------------------------------------------------------------------
\* The server's process ends, and the extension's onDidChangeState is told.
ServerStops ==
  /\ client = "running" /\ crashes < MaxCrashes
  /\ crashes' = crashes + 1
  /\ retryCount' = retryCount + 1
  /\ client' = IF retryCount' <= MAX_RETRIES THEN "waiting" ELSE "error"
  /\ backgrounds' = <<>> /\ workspace' = <<>> /\ reg' = Fresh
  /\ jobs' = {} /\ timers' = {} /\ cache' = Empty /\ behind' = {} /\ places' = {} /\ unread' = {} /\ unsent' = {}
  /\ UNCHANGED <<text, disk, shown, edits>>

\* client.start(): the documents are those the editor has open by then.
Retry ==
  /\ client = "waiting"
  /\ client' = "running"
  /\ unsent' = Open
  /\ UNCHANGED <<text, disk, server, shown, retryCount, behind, edits, crashes>>

\* What the user writes while no server runs.
ChangeUnserved(d, t) ==
  /\ client # "running" /\ edits < MaxEdits
  /\ d \in Open /\ text[d] # t
  /\ text' = [text EXCEPT ![d] = t]
  /\ edits' = edits + 1
  /\ UNCHANGED <<disk, unsent, server, shown, client, retryCount, behind, crashes>>

Process ==
  \E j \in jobs :
     \/ ProcessTypeScript(j) \/ UpdateBackgrounds(j) \/ Reparse(j) \/ Reparsed(j)
     \/ GetWorkspaceBackgrounds(j) \/ FailToParse(j) \/ Resolve(j) \/ Publish(j)

ServerNext ==
  \/ \E d \in Docs : \E t \in Drafts[d] : Change(d, t) \/ ChangeUnserved(d, t)
  \/ \E d \in Docs : Close(d) \/ Reopen(d) \/ SemanticTokens(d)
  \/ \E b \in Backgrounds : Revalidate(b) \/ Save(b)
  \/ Process
  \/ ServerStops \/ Retry

\* What a processing awaits is only computed: weak fairness of Process, with
\* jobs # {} for its being enabled. The event loop comes to every message and timer.
Fairness ==
  /\ []<>(jobs = {}) \/ []<><<Process>>_serverVars
  /\ WF_serverVars(Retry)
  /\ SF_serverVars(\E d \in Docs : Reopen(d))
  /\ \A b \in Backgrounds : SF_serverVars(Revalidate(b))

ServerSpec == ServerInit /\ [][ServerNext]_serverVars /\ Fairness

-----------------------------------------------------------------------------
Served == Open \ unsent
Quiet == Idle /\ timers = {} /\ unsent = {}

\* The outcomes a document is resolved with, if the server has read each of them
\* at one place, whatever texts it was given.
Texts(d) == Drafts[d] \cup {OnDisk[b] : b \in {d} \cap DOMAIN OnDisk}
Outcomes(t) == {t[n].name : n \in {m \in DOMAIN t : t[m].kind = "waypoint"}}
AppliedTexts(d) ==
  IF d \in Alone \cup unread THEN UNION {Texts(e.path) : e \in Range(backgrounds)}
  ELSE UNION {{e.content : e \in Range(l)} : l \in Range(workspace)}
Settled(d) ==
  \A t \in {text[d]} \cup AppliedTexts(d) : \A p, q \in places : p.name = q.name /\ p.name \in Outcomes(t) => p = q

Answered(d) ==
  /\ d \in DOMAIN shown /\ shown[d].text = text[d]
  /\ client = "running" /\ shown[d].parsed => d \in DOMAIN cache /\ cache[d] = text[d]

ServerTypeOK ==
  /\ Open \subseteq Docs /\ \A d \in Open : text[d] \in Drafts[d]
  /\ unsent \subseteq Docs /\ timers \subseteq Backgrounds /\ behind \subseteq Open /\ unread \subseteq Features
  /\ \A i \in DOMAIN backgrounds : backgrounds[i].path \in Backgrounds
  /\ \A j \in jobs : j.doc \in Docs /\ j.at \in {"start", "reparse", "resolve", "publish"}
  /\ DOMAIN cache \subseteq Docs /\ DOMAIN shown \subseteq Docs
  /\ client \in {"running", "waiting", "error"} /\ retryCount \in 0..MAX_RETRIES + 1
  /\ DOMAIN reg.backgroundSteps \subseteq DOMAIN reg.steps

\* Every background that is open has one entry in the server's list, with the
\* text in the editor, however processings interleave and in whatever order the
\* documents came back after a restart.
BackgroundsAreCurrent ==
  \A b \in (Served \cap Backgrounds) \ {j.doc : j \in {x \in jobs : x.at = "start"}} :
     client = "running" =>
       \E i \in DOMAIN backgrounds :
          /\ backgrounds[i] = [path |-> b, content |-> text[b], based |-> FALSE]
          /\ \A k \in DOMAIN backgrounds : backgrounds[k].path = b => k = i

\* When the server rests, what the editor shows of a document, and what it
\* hovers over, is of the text in the editor, if the server has met each outcome
\* of it and of the backgrounds it is resolved with at one place. Where it has met
\* one at two, in two texts, or in its file and behind a Backgrounds: line that is
\* not the first, a processing may end with nothing shown.
AnswersArePresent == Idle => \A d \in Served : Settled(d) => Answered(d)

\* When nothing is left to do, every document has been resolved since a
\* background last changed.
ResolvedAgain == Quiet => behind = {}

\* What the server knows of backgrounds and shows of settled documents is of the
\* present texts.
ServerIsCurrent ==
  ServerTypeOK /\ BackgroundsAreCurrent /\ AnswersArePresent /\ ResolvedAgain

\* When nothing is left to do, no line of a feature that was resolved with the
\* folder is marked as unknown for which a background registered a step. A text that leaves a block open can
\* break it: the next lines read for tokens are then taken as of that block, an
\* outcome is registered late, and no timer is set for that.
MarkedIsUnknown ==
  Quiet => \A d \in (Features \cap Open) \ (Alone \cup unread) : Settled(d) =>
             \A e \in shown[d].errors : e.name \notin DOMAIN reg.backgroundSteps

\* After the last change every open document comes to be shown as it is, if
\* need be by another server, or the extension has given up.
EventuallyAnswered ==
  <>[](client = "error" \/ \A d \in Open : Settled(d) => Answered(d))

\* A document that is behind a background is resolved again, is closed, or its
\* server ends.
BehindIsResolved == \A d \in Docs : d \in behind ~> d \notin behind

\* No document stays behind, whatever changes while the server works or ends,
\* and none is left with marks that backgrounds have made wrong.
DocumentsCatchUp == EventuallyAnswered /\ BehindIsResolved /\ []MarkedIsUnknown
=============================================================================
