--------------------------------- MODULE Views ---------------------------------
(***************************************************************************)
(* What the browser monitor shows of its events besides the log view: the   *)
(* document (DocumentView), the sequence diagram of http traces and the      *)
(* graph of quads. Each has its own idea of the moment the page is at.       *)
(*                                                                         *)
(* An artifact has the step it belongs to (parent). A lifecycle event has a   *)
(* type: "step", for a header the key it is shown once by, or "other" for one *)
(* the document has no row for. A quad has its graph (a context) and the      *)
(* nodes its edge joins, none for a label.                                   *)
(***************************************************************************)
EXTENDS Timeline

CONSTANTS
  Family,    \* per context with a slash, the part before it
  Apart      \* contexts not chosen by themselves: observations and meta

VARIABLES
  docLevel,     \* the log level the document was last made with
  chosen,       \* selectedContexts of the graph
  initialized,  \* hasInitialized
  touched,      \* the user has changed the selection (a history)
  blank         \* React has given the page up

views == <<docLevel, chosen, initialized, touched, blank>>
page == <<vars, views>>

----------------------------------------------------------------------------
(* The document. *)

Artifacts == {"http-trace", "quad", "image", "video"}

\* artifactsByStep.get(id), without the videos.
artifactsOf(id) == {e \in Range(events) : e.kind \in Artifacts \ {"video"} /\ e.parent = id}

\* Variant: a step takes artifacts that are somewhere already.
ClaimsTaken(doc, id) == {e.id : e \in artifactsOf(id)}

claimArtifacts(doc, id) == {e.id : e \in artifactsOf(id)} \ doc.claimed

Row(e, artifacts) == [id |-> e.id, kind |-> e.kind, ts |-> e.ts, artifacts |-> artifacts]

IsHeader(e) == e.kind = "lifecycle" /\ e.type # "step"

AddRow(doc, e, artifacts) ==
  [rows |-> Append(doc.rows, Row(e, artifacts)), claimed |-> doc.claimed \union artifacts,
   headers |-> IF IsHeader(e) THEN doc.headers \union {e.type} ELSE doc.headers]

\* One event of the document's loop.
Write(doc, e) ==
  IF e.level < docLevel \/ e.kind = "quad" THEN doc
  ELSE IF e.kind \in Artifacts
       THEN IF e.id \in doc.claimed THEN doc ELSE AddRow(doc, e, {e.id})
  ELSE IF e.kind = "log" THEN AddRow(doc, e, {})
  ELSE IF e.kind # "lifecycle" \/ e.stage # "start" \/ e.type \in doc.headers \union {"other"} THEN doc
  ELSE AddRow(doc, e, claimArtifacts(doc, e.id))

content ==
  LET written[i \in 0..Len(events)] ==
        IF i = 0 THEN [rows |-> <<>>, claimed |-> {}, headers |-> {}]
        ELSE LET before == written[i - 1] IN Write(before, events[i])
  IN  written[Len(events)]

NowAt(t) == t + (IF startTime = NoTime THEN 0 ELSE startTime)

\* Rows count from the first event, not from the start of the timeline.
rawTime(row) == row.ts - events[1].ts
RowIsFuture(row, t) == row.kind \notin Artifacts /\ rawTime(row) > t

\* The last event to come that is past and a row: headers never are active.
CanBeActive(e) == e.kind = "log" \/ (e.kind = "lifecycle" /\ e.stage = "start" /\ ~IsHeader(e))

ActiveAt(t) ==
  LET ids  == {row.id : row \in Range(content.rows)}
      past == {i \in DOMAIN events : CanBeActive(events[i]) /\ events[i].ts <= NowAt(t) /\ events[i].id \in ids}
  IN  IF past = {} THEN None ELSE events[Greatest(past)]

----------------------------------------------------------------------------
(* The diagrams. *)

\* Quads and traces are given by their indices in the events es of the page.
Quads(es) == {i \in DOMAIN es : es[i].kind = "quad"}
traces == {i \in DOMAIN events : events[i].kind = "http-trace"}

ContextsOf(es) == {es[i].graph : i \in Quads(es)}
initialContexts(es) == ContextsOf(es) \ Apart

ParentOf(ctx) == IF ctx \in DOMAIN Family THEN Family[ctx] ELSE ctx

\* The keys of contextTree, and what is below one.
Parents == {ParentOf(ctx) : ctx \in ContextsOf(events)}
Children(parent) == {ctx \in ContextsOf(events) : ctx \in DOMAIN Family /\ Family[ctx] = parent}

matchesSelection(ctx, selected) == ctx \in selected \/ ParentOf(ctx) \in selected

\* With nothing chosen, what would be chosen by itself is shown.
universeQuads(es, selected) ==
  IF "all" \in selected THEN Quads(es)
  ELSE IF selected = {} THEN {i \in Quads(es) : es[i].graph \notin Apart}
  ELSE {i \in Quads(es) : matchesSelection(es[i].graph, selected)}

\* The last of these events that is past: what comes after it is dimmed, in the
\* graph and in the sequence diagram.
lastActiveIndex(indices) ==
  LET past == {i \in indices : events[i].ts <= NowAt(currentTime)}
  IN  IF past = {} THEN 0 ELSE Greatest(past)

Edges(qs) == {i \in qs : events[i].nodes # {}}
FutureEdges(qs) == LET last == lastActiveIndex(qs) IN {i \in Edges(qs) : i > last}

\* A node is dimmed when all of its edges are.
FutureNodes(qs) ==
  (UNION {events[i].nodes : i \in Edges(qs)}) \ (UNION {events[i].nodes : i \in Edges(qs) \ FutureEdges(qs)})

\* The graph is there when it is asked for and there are quads; with nothing to
\* draw it returns before its last hook, and has no boxes to tick.
GraphIsOpen == "quad" \in viewOrder /\ Quads(events) # {}
HasToolbar == GraphIsOpen /\ universeQuads(events, chosen) # {}

----------------------------------------------------------------------------
PageInit ==
  /\ Init
  /\ docLevel = InitialLevel /\ chosen = {} /\ initialized = FALSE /\ touched = FALSE /\ blank = FALSE

\* The document is made again with its events, or when it is opened; a log
\* level that changes does not make it again.
DocumentFollows ==
  docLevel' = IF viewMode' = "document" /\ viewMode = "document" /\ events' = events
              THEN docLevel ELSE minLogLevel'

\* Variant: the selection is set by the quads whenever there are new ones.
AlwaysInitializes(es) == initialContexts(es) # {}

Initializes(es) == ~initialized /\ initialContexts(es) # {}

\* The graph opens with nothing chosen and chooses once; new quads alone do not
\* change what is chosen. React gives up when one render has more hooks than
\* the one before.
GraphFollows ==
  LET opens == ~GraphIsOpen /\ GraphIsOpen'
      stays == GraphIsOpen /\ GraphIsOpen'
  IN  /\ chosen' = IF ~GraphIsOpen' THEN {}
                   ELSE IF opens \/ (events' # events /\ Initializes(events')) THEN initialContexts(events')
                   ELSE chosen
      /\ initialized' = (GraphIsOpen' /\ ((stays /\ initialized) \/ initialContexts(events') # {}))
      /\ touched' = (stays /\ touched)
      /\ blank' = (stays /\ HasToolbar # (universeQuads(events', chosen) # {}))

Follow == DocumentFollows /\ GraphFollows

First(id) == events[Least({i \in DOMAIN events : events[i].id = id})]

\* A click in the document: the time is set by the row, then by the first event
\* that has its id.
SelectDocumentRow(row) ==
  /\ Clicks /\ viewMode = "document"
  /\ isPlaying' = FALSE
  /\ currentTime' = IF startTime # NoTime
                    THEN IF First(row.id).ts > startTime THEN First(row.id).ts - startTime ELSE 0
                    ELSE IF row.kind \in Artifacts THEN currentTime ELSE rawTime(row)
  /\ UNCHANGED <<filter, panel>>

Ticks == Clicks /\ HasToolbar /\ UNCHANGED <<currentTime, isPlaying, filter, panel, docLevel, initialized, blank>>

Deselected(parent) == chosen \ ({parent} \union Children(parent))

toggleContext(parent) ==
  /\ Ticks /\ "all" \notin chosen
  /\ chosen' = IF parent \in chosen THEN Deselected(parent)
               ELSE chosen \union {parent} \union Children(parent)
  /\ touched' = TRUE

ToggleAll ==
  /\ Ticks
  /\ chosen' = IF "all" \in chosen THEN {} ELSE {"all"} \union ContextsOf(events)
  /\ touched' = TRUE

PageNext ==
  /\ ~blank
  /\ \/ Connect /\ Follow
     \/ Lose /\ Follow
     \/ Receive /\ Follow
     \/ FlushPending /\ Follow
     \/ Tick /\ Follow
     \/ User /\ Follow
     \/ \E row \in Range(content.rows) : SelectDocumentRow(row) /\ Follow
     \/ \E parent \in Parents : toggleContext(parent)
     \/ ToggleAll

\* The page connects again, reads its stream, and its timers and frames fire.
Fairness ==
  /\ WF_page(~blank /\ Connect /\ Follow)
  /\ WF_page(~blank /\ Receive /\ Follow)
  /\ WF_page(~blank /\ FlushPending /\ Follow)
  /\ WF_page(~blank /\ Tick /\ Follow)

PageSpec == PageInit /\ [][PageNext]_page /\ Fairness

----------------------------------------------------------------------------
\* Events that came in the order of their timestamps, the first of which
\* bounds the timeline.
InOrder == /\ events # <<>> /\ ~events[1].apart
           /\ \A i, j \in DOMAIN events : i < j => events[i].ts <= events[j].ts

Alone(id) == Cardinality({i \in DOMAIN events : events[i].id = id}) = 1

\* Every artifact of the level, but quads, is in the document once, in a step,
\* below a header or by itself; one below the level may be there, once.
ArtifactsOnce ==
  LET rows == content.rows
      Places(id) == {r \in DOMAIN rows : id \in rows[r].artifacts}
  IN  \A e \in Range(events) : e.kind \in Artifacts /\ Alone(e.id) =>
        /\ \A r, s \in Places(e.id) : r = s
        /\ e.kind # "quad" /\ e.level >= docLevel => Places(e.id) # {}

\* In a run in order the document, the graph and the sequence diagram are at
\* the same moment as the timeline: each dims exactly what is yet to come, and
\* the row that is active is the last of those that are not dimmed.
ViewsAgreeOnNow ==
  InOrder =>
    LET now == NowAt(currentTime)
        qs == universeQuads(events, chosen)
        active == ActiveAt(currentTime)
    IN  /\ \A i \in traces : i > lastActiveIndex(traces) <=> events[i].ts > now
        /\ \A i \in Edges(qs) : i \in FutureEdges(qs) <=> events[i].ts > now
        /\ \A i \in Edges(qs) : events[i].nodes \intersect FutureNodes(qs) # {} => events[i].ts > now
        /\ \A row \in Range(content.rows) : row.kind \notin Artifacts =>
             (RowIsFuture(row, currentTime) <=> row.ts > now)
        /\ active # None => active.ts <= now
        /\ \A e \in Range(events) :
             CanBeActive(e) /\ e.level >= docLevel /\ e.ts <= now => active # None /\ e.ts <= active.ts

\* The selection that is asked for by no one is one that was never made by the
\* user: the graph's first choice cannot come after one of the user's, for until
\* it is made there are no boxes to tick.
ViewsAreSound == ArtifactsOnce /\ ViewsAgreeOnNow /\ (touched => initialized)

\* Opening a block of the log view hides nothing (ExpandNeverHides says which
\* blocks). While the graph stays, only the user changes what is chosen once the user
\* has; unticking a parent with others left hides its whole family; and a click
\* on a row of a run in order, the first of its id, shows the row as past and,
\* of a step or a log, makes it active or another of its time.
ClicksAreObeyed ==
  /\ ExpandNeverHides
  /\ [][/\ GraphIsOpen /\ GraphIsOpen' /\ touched /\ clicks' = clicks => chosen' = chosen
        /\ \A parent \in Parents :
             toggleContext(parent) /\ parent \in chosen /\ chosen' # {} =>
               \A i \in universeQuads(events, chosen') : ParentOf(events[i].graph) # parent
        /\ \A row \in Range(content.rows) :
             SelectDocumentRow(row) /\ InOrder /\ First(row.id).ts = row.ts =>
               /\ ~RowIsFuture(row, currentTime')
               /\ CanBeActive(First(row.id)) => ActiveAt(currentTime').ts = row.ts]_page

\* A page that plays comes to rest, at the end or where it is told to, though
\* events that come move the end; or a new run leaves it nothing to play, which
\* does not stop it; or the page is lost.
PlaybackEnds == (isPlaying /\ maxTime > 0 /\ ~blank) ~> (~isPlaying \/ maxTime = 0 \/ blank)
=============================================================================
