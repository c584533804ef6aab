------------------------------- MODULE Timeline -------------------------------
(***************************************************************************)
(* The page of the browser monitor (App.tsx): it collects the events of a   *)
(* run, live over the event stream or from a saved report, and shows them   *)
(* around a current time that follows the run, plays, or is moved by hand.  *)
(* The log view makes its rows of the events: the reports of a step become  *)
(* one row unless the current time lies between them, and events below the  *)
(* log level or beyond the depth are gathered in blocks that can be opened. *)
(*                                                                         *)
(* An event is a record [id, kind, stage, ts, level, depth, run]; apart has *)
(* the events the bounds leave out (control events, the transport's own).   *)
(* A React effect is part of the step whose render it follows.              *)
(***************************************************************************)
EXTENDS Integers, Sequences, FiniteSets, SequencesExt

CONSTANTS
  Events,       \* what a run can tell: records of the fields above, and those Views needs
  Runs, Prompts,
  Feeds,        \* what a server may send: sequences of messages
  Reports,      \* the events of saved reports, in the order they were emitted
  Levels,       \* indices of HAIBUN_LOG_LEVELS
  InitialLevel, InitialDepth,
  Depths,       \* what the depth input is set to
  Speeds,       \* how far a frame advances the time
  NearEnd,      \* play starts over when less than this is left (100 ms)
  Now,          \* Date.now(), later than every event
  MaxClicks,    \* bound: what the user does
  MaxDrops      \* bound: connections lost

NoTime == -1
None == [id |-> "none"]
Anchor == [id |-> "synthetic-view-anchor"]

MessageType == [type : {"init", "finalize"}, run : Runs]
               \union [type : {"event"}, run : Runs, event : Events]
               \union [type : {"prompt"}, run : Runs, prompt : Prompts]

\* The events told are those of one run, and in turn: what is told of a step comes
\* after it is first told of, and its start before its end.
OfStep(e, id) == e.kind = "lifecycle" /\ e.id = id

TellsRun(told) ==
  /\ \A i, j \in DOMAIN told : told[i].run = told[j].run
  /\ \A i, j \in DOMAIN told : i < j /\ OfStep(told[j], told[i].id) =>
       /\ \E k \in DOMAIN told : k <= i /\ OfStep(told[k], told[i].id)
       /\ OfStep(told[i], told[i].id) /\ told[i].stage = "end" /\ told[j].stage = "start" =>
            \E k \in DOMAIN told : k < i /\ OfStep(told[k], told[i].id) /\ told[k].stage = "start"

\* The events of a feed between two of its messages.
EventsOf(f, from, to) == [i \in {i \in from..to : f[i].type = "event"} |-> f[i].event]

\* What the server sends after an init is of its run.
FeedOK(f) ==
  /\ f \in Seq(MessageType)
  /\ \A i \in DOMAIN f, j \in DOMAIN f :
       f[i].type = "init" /\ (\A k \in i + 1..j : f[k].type # "init") => TellsRun(EventsOf(f, i + 1, j))

\* A report is saved when a run has begun.
ReportOK(r) == r \in Seq(Events) \ {<<>>} /\ TellsRun(r)

ASSUME TimelineAssumption ==
  /\ InitialLevel \in Levels /\ Levels \subseteq Nat /\ InitialDepth \in Nat /\ Depths \subseteq Nat
  /\ Speeds \subseteq Nat \ {0} /\ NearEnd \in Nat /\ Now \in Nat
  /\ MaxClicks \in Nat /\ MaxDrops \in Nat
  /\ None \notin Events
  /\ \A e \in Events : /\ e.ts \in 0..Now /\ e.level \in Levels /\ e.depth \in Nat /\ e.apart \in BOOLEAN
                       /\ e.kind = "lifecycle" => e.stage \in {"start", "end"}
  /\ (\A f \in Feeds : FeedOK(f)) /\ \A r \in Reports : ReportOK(r)

VARIABLES
  feed, at, run,        \* the stream: all of it, what this connection has brought, where its replay begins
  connected, pending, timer, events,
  serialized,           \* the page is a saved report
  startTime, currentTime, maxTime, isPlaying, timelineError,
  minLogLevel, maxDepth, viewMode, selectedEvent, viewOrder, activePrompt,
  clicks, drops

stream == <<feed, at, run, drops>>
buffer == <<connected, pending, timer, events, serialized>>
time == <<startTime, currentTime, maxTime, timelineError>>
filter == <<minLogLevel, maxDepth>>
panel == <<viewMode, selectedEvent, viewOrder, activePrompt>>
vars == <<stream, buffer, time, isPlaying, filter, panel, clicks>>

----------------------------------------------------------------------------
(* The bounds of the timeline and the effect that applies them. *)

Bounding(es) == {es[i].ts : i \in {j \in DOMAIN es : ~es[j].apart}}

Least(ts) == CHOOSE t \in ts : \A u \in ts : t <= u
Greatest(ts) == CHOOSE t \in ts : \A u \in ts : u <= t

MaxTimestamp(es) == Greatest(Bounding(es))
MinTimestamp(es) == Least(Bounding(es))

\* The effect, run with new events, connection, start and current time.
\* (A report has no such step: its events are there from the beginning.)
Effect(es, live, start, current) ==
  IF Bounding(es) = {}
  THEN startTime' = start /\ currentTime' = current /\ UNCHANGED <<maxTime, timelineError>>
  ELSE LET duration == MaxTimestamp(es) - MinTimestamp(es)
       IN  /\ startTime' = MinTimestamp(es) /\ maxTime' = duration /\ timelineError' = FALSE
           /\ currentTime' = IF live \/ current = 0 THEN duration ELSE current

Init ==
  /\ \/ serialized = FALSE /\ feed \in Feeds /\ events = <<>>
     \/ serialized = TRUE /\ feed = <<>> /\ events \in Reports
  /\ at = 0 /\ run = 1 /\ drops = 0 /\ clicks = 0
  /\ connected = FALSE /\ pending = <<>> /\ timer = FALSE
  /\ LET start == IF serialized THEN events[1].ts ELSE NoTime
         wrong == serialized /\ Bounding(events) # {} /\ start # MinTimestamp(events)
         length == IF wrong \/ Bounding(events) = {} THEN 0
                   ELSE MaxTimestamp(events) - MinTimestamp(events)
     IN  /\ startTime = start /\ timelineError = wrong
         /\ currentTime = length /\ maxTime = length
  /\ isPlaying = FALSE
  /\ minLogLevel = InitialLevel /\ maxDepth = InitialDepth
  /\ viewMode = "log" /\ selectedEvent = None /\ viewOrder = {} /\ activePrompt = "none"

----------------------------------------------------------------------------
(* The rows of the log view. *)

\* isFuture and isEventInFuture: a page without a start time counts from 0.
Future(e) == e.ts - (IF startTime = NoTime THEN 0 ELSE startTime) > currentTime

\* Variant: the reports of a step are merged wherever the current time is.
MergesAll(existing, e) ==
  (existing.stage = "start" /\ e.stage = "end") \/ existing.stage = e.stage

\* A later report replaces the row of an earlier one on the same side of the current time.
Replaces(existing, e) ==
  /\ Future(existing) <=> Future(e)
  /\ (existing.stage = "start" /\ e.stage = "end") \/ existing.stage = e.stage

Merge(rows, e) ==
  LET same == {i \in DOMAIN rows : rows[i].id = e.id}
  IN  IF e.kind = "lifecycle" /\ same # {} /\ Replaces(rows[Least(same)], e)
      THEN [rows EXCEPT ![Least(same)] = e]
      ELSE Append(rows, e)

\* reduce: a function of the events so far, each value made once.
mergedEvents ==
  LET merged[i \in 0..Len(events)] ==
        IF i = 0 THEN <<>> ELSE LET before == merged[i - 1] IN Merge(before, events[i])
  IN  merged[Len(events)]

HideReason(e) ==
  IF e.level < minLogLevel THEN "level" ELSE IF e.depth > maxDepth THEN "depth" ELSE "shown"

\* A row is a sequence of events: a shown one by itself, or the block of those hidden.
Flush(st) == IF st.hidden = <<>> THEN st ELSE [rows |-> Append(st.rows, st.hidden), hidden |-> <<>>]

Place(st, e) ==
  IF HideReason(e) = "shown"
  THEN [rows |-> Append(Flush(st).rows, <<e>>), hidden |-> <<>>]
  ELSE [st EXCEPT !.hidden = Append(@, e)]

Placed ==
  LET merged == mergedEvents
      placed[i \in 0..Len(merged)] ==
        IF i = 0 THEN [rows |-> <<>>, hidden |-> <<>>]
        ELSE LET before == placed[i - 1] IN Place(before, merged[i])
  IN  placed[Len(merged)]

visibleEvents == Flush(Placed).rows

IsBlock(row) == HideReason(row[1]) # "shown"
Blocks == {row \in Range(visibleEvents) : IsBlock(row)}
Shown == {row[1] : row \in Range(visibleEvents) \ Blocks}

CountOf(block, reason) == Cardinality({i \in DOMAIN block : HideReason(block[i]) = reason})
BlockLevel(block) == Greatest({e.level : e \in Range(block)})

----------------------------------------------------------------------------
(* The event stream. *)

Streaming == <<serialized, feed, clicks, filter>>

Inits == {i \in DOMAIN feed : feed[i].type = "init"}

\* es.onopen.  The server replays its history, which begins with an init.
Connect ==
  /\ ~serialized /\ ~connected
  /\ connected' = TRUE
  /\ \E i \in Inits : i >= run /\ run' = i /\ at' = i - 1
  /\ Effect(events, TRUE, startTime, currentTime)
  /\ UNCHANGED <<Streaming, drops, pending, timer, events, isPlaying, panel>>

\* es.onerror; connect is called again in 3 s.
Lose ==
  /\ connected /\ drops < MaxDrops
  /\ connected' = FALSE /\ drops' = drops + 1
  /\ Effect(events, FALSE, startTime, currentTime)
  /\ UNCHANGED <<Streaming, at, run, pending, timer, events, isPlaying, panel>>

Message(type) ==
  /\ connected /\ at < Len(feed) /\ feed[at + 1].type = type
  /\ at' = at + 1
  /\ UNCHANGED <<Streaming, drops, connected>>

\* An event waits for the flush timer, set when there is none.
ReceiveEvent ==
  /\ Message("event")
  /\ pending' = Append(pending, feed[at + 1].event) /\ timer' = TRUE
  /\ UNCHANGED <<run, events, time, isPlaying, panel>>

ReceivePrompt ==
  /\ Message("prompt")
  /\ activePrompt' = feed[at + 1].prompt /\ isPlaying' = FALSE
  /\ UNCHANGED <<run, pending, timer, events, time, viewMode, selectedEvent, viewOrder>>

\* Variant: what waits for the timer is kept.
KeepsPending == pending

ClearedPending == <<>>

ReceiveInit ==
  /\ Message("init")
  /\ run' = at + 1
  /\ pending' = ClearedPending /\ events' = <<>>
  /\ startTime' = NoTime /\ currentTime' = 0 /\ timelineError' = FALSE
  /\ UNCHANGED <<timer, maxTime, isPlaying, panel>>

ReceiveFinalize ==
  /\ Message("finalize")
  /\ isPlaying' = FALSE
  /\ UNCHANGED <<run, pending, timer, events, time, panel>>

\* The timer: the handler was made with the first render, whose startTime is null.
FlushPending ==
  /\ timer
  /\ timer' = FALSE /\ pending' = <<>> /\ events' = events \o pending
  /\ LET start == IF events = <<>> /\ pending # <<>> THEN Now ELSE startTime
     IN  IF pending = <<>> THEN UNCHANGED time
         ELSE Effect(events', connected, start, currentTime)
  /\ UNCHANGED <<Streaming, at, run, drops, connected, isPlaying, panel>>

----------------------------------------------------------------------------
(* Playing and the user.  The page of a report with an error shows nothing else. *)

Clicks == /\ ~timelineError /\ clicks < MaxClicks /\ clicks' = clicks + 1
          /\ UNCHANGED <<stream, buffer, startTime, maxTime, timelineError>>

\* Variant: play starts over when it reaches the end.
WrapsAround(next) == [time |-> IF next >= maxTime THEN 0 ELSE next, playing |-> TRUE]

\* currentTime and isPlaying after a frame that brings the time to next.
Advanced(next) == [time |-> IF next >= maxTime THEN maxTime ELSE next, playing |-> next < maxTime]

Tick ==
  /\ isPlaying /\ maxTime > 0
  /\ \E delta \in Speeds : LET frame == Advanced(currentTime + delta)
                           IN  currentTime' = frame.time /\ isPlaying' = frame.playing
  /\ UNCHANGED <<stream, buffer, startTime, maxTime, timelineError, filter, panel, clicks>>

togglePlay ==
  /\ Clicks
  /\ isPlaying' = ~isPlaying
  /\ currentTime' = IF ~isPlaying /\ maxTime > 0 /\ currentTime >= maxTime - NearEnd THEN 0 ELSE currentTime
  /\ UNCHANGED <<filter, panel>>

\* The slider, whose maximum is 1 when there is none, restart and end.
handleTimeChange ==
  /\ Clicks
  /\ currentTime' \in 0..(IF maxTime = 0 THEN 1 ELSE maxTime) /\ isPlaying' = FALSE
  /\ UNCHANGED <<filter, panel>>

MoveTo(e) ==
  /\ isPlaying' = FALSE
  /\ currentTime' = IF startTime = NoTime THEN currentTime
                    ELSE IF e.ts > startTime THEN e.ts - startTime ELSE 0

\* A row of the log view, or an artifact in it.
SelectRow ==
  /\ Clicks /\ viewMode = "log"
  /\ \E e \in Shown : MoveTo(e) /\ selectedEvent' = e
  /\ UNCHANGED <<filter, viewMode, viewOrder, activePrompt>>

\* The log level and the depth that open a block.
Opened(block) ==
  IF CountOf(block, "depth") > 0 /\ CountOf(block, "depth") >= CountOf(block, "level")
  THEN [level |-> minLogLevel, depth |-> maxDepth + 2]
  ELSE [level |-> BlockLevel(block), depth |-> maxDepth]

Expand(block) ==
  /\ Clicks /\ viewMode = "log"
  /\ minLogLevel' = Opened(block).level /\ maxDepth' = Opened(block).depth
  /\ UNCHANGED <<currentTime, isPlaying, panel>>

SetFilter ==
  /\ Clicks
  /\ \/ minLogLevel' \in Levels /\ UNCHANGED maxDepth
     \/ maxDepth' \in Depths /\ UNCHANGED minLogLevel
  /\ UNCHANGED <<currentTime, isPlaying, panel>>

SetViewMode ==
  /\ Clicks
  /\ viewMode' \in {"log", "document", "raw"} /\ selectedEvent' = None
  /\ UNCHANGED <<currentTime, isPlaying, filter, viewOrder, activePrompt>>

\* The buttons of the diagrams are there when the run has what they show.
ToggleView ==
  /\ Clicks
  /\ \E v \in {"http-trace", "quad"} \cap {e.kind : e \in Range(events)} :
       viewOrder' = IF v \in viewOrder THEN viewOrder \ {v} ELSE viewOrder \union {v}
  /\ UNCHANGED <<currentTime, isPlaying, filter, viewMode, selectedEvent, activePrompt>>

\* What the details panel is open with: the event selected, or an anchor for a
\* diagram or for the debugger.
enrichedSelectedEvent ==
  IF selectedEvent # None THEN selectedEvent
  ELSE IF viewOrder # {} \/ (connected /\ activePrompt # "none") THEN Anchor ELSE None

ClosePanel ==
  /\ Clicks /\ enrichedSelectedEvent # None
  /\ selectedEvent' = None /\ viewOrder' = {}
  /\ UNCHANGED <<currentTime, isPlaying, filter, viewMode, activePrompt>>

\* The debug button of the header selects an event when none is.
SelectAnchor ==
  /\ Clicks /\ activePrompt # "none" /\ selectedEvent = None /\ events # <<>>
  /\ LET steps == SelectSeq(events, LAMBDA e : e.kind = "lifecycle")
     IN  selectedEvent' = IF steps # <<>> THEN steps[1] ELSE events[1]
  /\ UNCHANGED <<currentTime, isPlaying, filter, viewMode, viewOrder, activePrompt>>

\* An answer given in the debugger, which the details panel holds.
handleDebugAction ==
  /\ Clicks /\ enrichedSelectedEvent # None
  /\ connected /\ activePrompt # "none"
  /\ activePrompt' = "none" /\ isPlaying' = TRUE
  /\ UNCHANGED <<currentTime, filter, viewMode, selectedEvent, viewOrder>>

----------------------------------------------------------------------------
Receive == ReceiveEvent \/ ReceivePrompt \/ ReceiveInit \/ ReceiveFinalize

User ==
  \/ togglePlay \/ handleTimeChange \/ SelectRow \/ SetFilter
  \/ (\E block \in Blocks : Expand(block))
  \/ SetViewMode \/ ToggleView \/ ClosePanel \/ SelectAnchor \/ handleDebugAction

Next == Connect \/ Lose \/ Receive \/ FlushPending \/ Tick \/ User

----------------------------------------------------------------------------
TypeOK ==
  /\ at \in 0..Len(feed) /\ run \in Nat /\ drops \in 0..MaxDrops /\ clicks \in 0..MaxClicks
  /\ {connected, timer, isPlaying, timelineError, serialized} \subseteq BOOLEAN
  /\ startTime \in Nat \union {NoTime} /\ currentTime \in Nat /\ maxTime \in Nat
  /\ minLogLevel \in Levels /\ maxDepth \in Nat
  /\ viewMode \in {"log", "document", "raw"} /\ viewOrder \subseteq {"http-trace", "quad"}
  /\ activePrompt \in Prompts \union {"none"}

\* The events shown and those that wait are of one run: an init reaches what the
\* timer has not flushed yet, and what an earlier connection brought.
ShowsOneRun == LET kept == Range(events) \union Range(pending)
               IN  \A e, f \in kept : e.run = f.run

\* What waits is flushed by a timer that is set.
NothingStranded == pending # <<>> => timer

\* While the user has touched nothing, a live page and a report show the whole
\* run as past, in whatever order its timestamps come.
UntouchedShowsAll ==
  clicks = 0 /\ ~timelineError /\ (serialized \/ connected)
    => \A e \in Range(events) : ~e.apart => ~Future(e)

\* A prompt of a connected page is in an open panel: it cannot be closed away.
PromptIsOpen == connected /\ activePrompt # "none" => enrichedSelectedEvent # None

\* The page as a whole: its types, one run, nothing stranded, all of it past
\* until the user moves (UntouchedShowsAll: of a connected page, or a report
\* whose first event is its earliest), and a prompt that can be answered.
PageIsWhole == TypeOK /\ ShowsOneRun /\ NothingStranded /\ UntouchedShowsAll /\ PromptIsOpen

Reported(id, stage) == {i \in DOMAIN events : events[i].id = id /\ events[i].kind = "lifecycle"
                                                /\ events[i].stage = stage}
RunOnce(id) == Cardinality(Reported(id, "start")) <= 1 /\ Cardinality(Reported(id, "end")) <= 1

\* Every row not dimmed is the run as it was at the current time: of a step that
\* ran once, its last report until then and no other; and every event is in one
\* row or one block, but for reports a later one of its step replaced.
RowsTellTheMoment ==
  LET rows == FlattenSeq(visibleEvents)
      Past(id) == {i \in DOMAIN events : events[i].id = id /\ events[i].kind = "lifecycle" /\ ~Future(events[i])}
      Replaced(i) == \E j \in DOMAIN events : j > i /\ events[j].id = events[i].id
  IN  /\ \A e \in Range(events) : e.kind = "lifecycle" /\ RunOnce(e.id) =>
           {r \in Range(rows) : r.id = e.id /\ r.kind = "lifecycle" /\ ~Future(r)}
             = IF Past(e.id) = {} THEN {} ELSE {events[Greatest(Past(e.id))]}
      /\ \A i \in DOMAIN events : (events[i].kind = "lifecycle" /\ Replaced(i)) \/ events[i] \in Range(rows)
      /\ Len(rows) <= Len(events)

\* Opening a block hides nothing that is shown, unless its depth count lies
\* between zero and its level count.
ExpandNeverHides ==
  [][\A block \in Blocks :
       Expand(block) /\ (CountOf(block, "depth") = 0 \/ CountOf(block, "depth") >= CountOf(block, "level"))
         => \A e \in Shown : e.level >= minLogLevel' /\ e.depth <= maxDepth']_vars
=============================================================================
