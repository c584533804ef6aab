----------------------------- MODULE SseTransport -----------------------------
(***************************************************************************)
(* What the browser monitor sees of a run: SSETransport keeps a history of  *)
(* the messages sent, replays it to a client that connects, and then sends  *)
(* it what comes.  An init message starts a new run: the first one is sent  *)
(* when the transport is set up, a further one when another haibun process  *)
(* begins to use this monitor (POST /api/ingest).                           *)
(*                                                                         *)
(* The replay awaits each write, so that messages are sent while it goes    *)
(* on; it iterates over the array that was the history when it began, which *)
(* send extends in place but init replaces.                                 *)
(***************************************************************************)
EXTENDS Integers, Sequences, FiniteSets

CONSTANTS
  Client,
  MaxEvents,      \* bound: events sent
  MaxRuns,        \* bound: init messages, the first included
  MaxConnections  \* bound: connections of each client

ASSUME SseAssumption == MaxEvents \in Nat /\ MaxRuns \in Nat \ {0} /\ MaxConnections \in Nat

Init_ == 0   \* the init message; events are numbered as they are sent

VARIABLES
  runs,       \* the arrays that were this.history, the present one last
  sent,       \* events sent
  replay,     \* per client: [run, next] of its replay, of the last one once live
  phase,      \* away, replaying or live (its handler is on the hub)
  socket,     \* written to the stream and not yet received
  seen,       \* the messages the page shows: what it received from an init on
  seenRun,    \* history variable: the run of the last init received
  overtaken,  \* history variable: the run it replayed when an init was sent, 0 if none
  connections

vars == <<runs, sent, replay, phase, socket, seen, seenRun, overtaken, connections>>

History == runs[Len(runs)]

Init ==
  /\ runs = <<<<Init_>>>>
  /\ sent = 0
  /\ replay = [c \in Client |-> [run |-> 1, next |-> 1]]
  /\ phase = [c \in Client |-> "away"]
  /\ socket = [c \in Client |-> <<>>]
  /\ seen = [c \in Client |-> <<>>]
  /\ seenRun = [c \in Client |-> 0]
  /\ overtaken = [c \in Client |-> 0]
  /\ connections = [c \in Client |-> 0]

\* A message on the stream, with the run it is of.
Msg(m, run) == [msg |-> m, run |-> run]

\* this.hub.emit: the handlers write in the order of the messages.
Emit(m, run) ==
  socket' = [c \in Client |-> IF phase[c] = "live" THEN Append(socket[c], Msg(m, run)) ELSE socket[c]]

\* Variant: the message is not kept.
KeepsNothing(m) == runs

\* this.history.push
Pushed(m) == [runs EXCEPT ![Len(runs)] = Append(@, m)]

SendEvent ==
  /\ sent < MaxEvents
  /\ sent' = sent + 1
  /\ runs' = Pushed(sent + 1)
  /\ Emit(sent + 1, Len(runs))
  /\ UNCHANGED <<replay, phase, seen, seenRun, overtaken, connections>>

\* send of an init: a new array, the init its first message.
SendInit ==
  /\ Len(runs) < MaxRuns
  /\ runs' = Append(runs, <<Init_>>)
  /\ Emit(Init_, Len(runs) + 1)
  /\ overtaken' = [c \in Client |-> IF phase[c] = "replaying" THEN replay[c].run ELSE overtaken[c]]
  /\ UNCHANGED <<sent, replay, phase, seen, seenRun, connections>>

\* GET /sse, of a page loaded or of its event source connecting again.
Connect(c) ==
  /\ phase[c] = "away" /\ connections[c] < MaxConnections
  /\ connections' = [connections EXCEPT ![c] = @ + 1]
  /\ phase' = [phase EXCEPT ![c] = "replaying"]
  /\ replay' = [replay EXCEPT ![c] = [run |-> Len(runs), next |-> 1]]
  /\ UNCHANGED <<runs, sent, socket, seen, seenRun, overtaken>>

Array(c) == runs[replay[c].run]

\* One turn of the loop over the history; the next begins when it is written.
Replay(c) ==
  /\ phase[c] = "replaying" /\ replay[c].next <= Len(Array(c))
  /\ socket' = [socket EXCEPT ![c] = Append(@, Msg(Array(c)[replay[c].next], replay[c].run))]
  /\ replay' = [replay EXCEPT ![c].next = @ + 1]
  /\ UNCHANGED <<runs, sent, phase, seen, seenRun, overtaken, connections>>

\* Variant: the handler is added when the history as it was is sent.
EarlyEnd(c) == replay[c].next > 1

\* The iterator is at the end of the array, which may have grown meanwhile.
ReplayEnded(c) == replay[c].next > Len(Array(c))

GoLive(c) ==
  /\ phase[c] = "replaying" /\ ReplayEnded(c)
  /\ phase' = [phase EXCEPT ![c] = "live"]
  /\ UNCHANGED <<runs, sent, replay, socket, seen, seenRun, overtaken, connections>>

\* es.onmessage of App.tsx: an init resets what is shown.
Shown(c, m) == IF m = Init_ THEN <<m>> ELSE Append(seen[c], m)

Receive(c) ==
  /\ socket[c] # <<>>
  /\ socket' = [socket EXCEPT ![c] = Tail(@)]
  /\ LET head == Head(socket[c])
     IN  /\ seen' = [seen EXCEPT ![c] = Shown(c, head.msg)]
         /\ seenRun' = IF head.msg = Init_ THEN [seenRun EXCEPT ![c] = head.run] ELSE seenRun
         /\ overtaken' = IF head.msg = Init_ /\ head.run # overtaken[c]
                         THEN [overtaken EXCEPT ![c] = 0] ELSE overtaken
  /\ UNCHANGED <<runs, sent, replay, phase, connections>>

\* What is left in the socket of a connection that ends is lost.
LosesSocket(c) == [socket EXCEPT ![c] = <<>>]

\* The connection ends.  The page keeps what it shows, unless it is loaded again.
Disconnect(c) ==
  /\ phase[c] # "away"
  /\ phase' = [phase EXCEPT ![c] = "away"]
  /\ socket' = LosesSocket(c)
  /\ \/ UNCHANGED <<seen, seenRun>>
     \/ seen' = [seen EXCEPT ![c] = <<>>] /\ seenRun' = [seenRun EXCEPT ![c] = 0]
  /\ UNCHANGED <<runs, sent, replay, overtaken, connections>>

Next ==
  \/ SendEvent \/ SendInit
  \/ \E c \in Client : Connect(c) \/ Replay(c) \/ GoLive(c) \/ Receive(c) \/ Disconnect(c)

\* The server writes and the network delivers; the event source reconnects.
Fairness ==
  \A c \in Client : WF_vars(Connect(c)) /\ WF_vars(Replay(c)) /\ WF_vars(GoLive(c)) /\ WF_vars(Receive(c))

Spec == Init /\ [][Next]_vars /\ Fairness
-----------------------------------------------------------------------------
\* A connection replays a position of a run there is, and a page without a
\* connection has nothing to receive.
TypeOK ==
  /\ runs \in Seq(Seq(0..sent)) /\ sent \in 0..MaxEvents
  /\ \A c \in Client :
       /\ phase[c] \in {"away", "replaying", "live"}
       /\ replay[c].run \in 1..Len(runs) /\ replay[c].next \in 1..Len(Array(c)) + 1
       /\ overtaken[c] \in 0..Len(runs) /\ seen[c] \in Seq(0..sent) /\ seenRun[c] \in 0..Len(runs)
       /\ phase[c] = "away" => socket[c] = <<>>

Msgs(s) == [k \in DOMAIN s |-> s[k].msg]
Prefix(s, t) == Len(s) <= Len(t) /\ s = SubSeq(t, 1, Len(s))

\* What a page shows is a beginning of one run: nothing is missing, doubled or
\* out of order, whatever is sent while it replays, and however often it
\* reconnects (unless an init overtook its replay).
ShowsBeginningOfRun ==
  \A c \in Client : overtaken[c] = 0 /\ seenRun[c] # 0 => Prefix(seen[c], runs[seenRun[c]])

\* A live page misses nothing: once its socket is empty it shows the whole of
\* the present run.
LiveShowsAll ==
  \A c \in Client : phase[c] = "live" /\ overtaken[c] = 0 =>
    \/ seen[c] \o Msgs(socket[c]) = History
    \/ \E k \in DOMAIN socket[c] :
         socket[c][k].msg = Init_ /\ Msgs(SubSeq(socket[c], k, Len(socket[c]))) = History

\* A page shows one run as it was sent and, once it is live, all of the present.
PageTellsRun == TypeOK /\ ShowsBeginningOfRun /\ LiveShowsAll

\* A page that stays connected comes to show everything that was sent.
CatchesUp ==
  \A c \in Client : []<>(\/ phase[c] = "away" /\ connections[c] = MaxConnections
                         \/ overtaken[c] # 0
                         \/ seen[c] = History)
=============================================================================
