----------------------------- MODULE WebServer -----------------------------
(***************************************************************************)
(* A web server for each feature, and the MCP server on it, whose clients    *)
(* run statements between the statements of the feature, on the same world. *)
(* The web server stepper is listed before McpStepper, whose hooks need it.  *)
(***************************************************************************)
EXTENDS Integers, Sequences, FiniteSets, SequencesExt

CONSTANTS
  Setups,    \* [features, steps, calls, web, mcp, clients, paths]: bounds of the run, of the statements
             \* of a feature and of the calls of clients; the PORT of each of the two steppers; the
             \* clients and the paths used
  Client,    \* clients that send X-Session-ID
  Anonymous, \* clients that do not
  Stepper, Path, Folder,
  Beneath    \* <<p, q>>: the path q starts with p and a slash

\* listen refuses a port that is not positive; a session is not called what the code calls the
\* connection of a client without one, and no client what marks the feature's own results.
ASSUME WebServerAssumption ==
  /\ Client \cap Anonymous = {}
  /\ "default-connection" \notin Client /\ "feature" \notin Client \cup Anonymous
  /\ Beneath \subseteq Path \X Path
  /\ \A s \in Setups : /\ s.features \in Nat \ {0} /\ s.steps \in Nat /\ s.calls \in Nat
                       /\ s.web \in Nat \ {0} /\ s.mcp \in Nat \ {0}
                       /\ s.clients \subseteq Client \cup Anonymous /\ s.paths \subseteq Path

VARIABLES
  setup, feature,
  phase,      \* world, web, mcp (hooks of startFeature), body, closing, closingMcp, ended, over or failed
  steps,      \* history variable: the statements of this feature that have ended
  ok,         \* doFeature's ok
  servers,    \* ServerHono, one per feature: [port it would close (0: none), routes, mounted]
  sockets,    \* <<port, server>> the system listens for
  listening,  \* ServerHono.listeningPorts
  mcp,        \* McpStepper: [server, route (the ServerHono its routes are on)]
  world,      \* the feature of McpStepper's world
  scopes,     \* sessionScopes
  focus,      \* history variable: the stepper each client has last turned to
  calls,      \* calls begun
  running,    \* handlers of tools that run, one per client: [feature, world]
  lists,      \* runtime.stepResults, a list per feature: the last one is the present one
  verdicts,   \* featureResults: ok of each feature that is over
  exhausted,  \* runtime.exhaustionError, which all that run on the world share
  stepping,   \* a statement of the feature has begun
  halted      \* history variable: the features a statement of which was refused

ports == <<servers, sockets, listening>>
sessions == <<scopes, focus>>
halting == <<exhausted, stepping, halted>>
vars == <<setup, feature, phase, steps, ok, ports, mcp, world, sessions, calls, running, lists, verdicts, halting>>

Everyone == Client \cup Anonymous

Idle == [feature |-> 0, world |-> 0]

Init ==
  /\ setup \in Setups /\ feature = 1 /\ phase = "world" /\ steps = <<>> /\ ok = TRUE
  /\ servers = <<>> /\ sockets = {} /\ listening = {}
  /\ mcp = [server |-> FALSE, route |-> 0] /\ world = 0
  /\ scopes = <<>> /\ focus = [c \in Everyone |-> "index"]
  /\ calls = 0 /\ running = [c \in Everyone |-> Idle] /\ lists = <<>> /\ verdicts = <<>>
  /\ exhausted = FALSE /\ stepping = FALSE /\ halted = {}

-----------------------------------------------------------------------------
(* ServerHono.                                                              *)

\* The record or Map f with its key set to value.
With(f, key, value) == [k \in DOMAIN f \cup {key} |-> IF k = key THEN value ELSE f[k]]

Has(s, port) == [s EXCEPT !.port = port]

WithPort(port) == listening \cup {port}

\* listen: the ServerHono has the handle of what it has listened on last.
Listened(n, port) ==
  /\ sockets' = sockets \cup {<<port, n>>}
  /\ listening' = WithPort(port)
  /\ servers' = [servers EXCEPT ![n] = Has(@, port)]

\* Variant: the port stays in listeningPorts.
KeepsPort(port) == listening

WithoutPort(port) == listening \ {port}

\* close: only what it has the handle of.
Closed(n) ==
  IF servers[n].port = 0 THEN UNCHANGED ports
  ELSE LET port == servers[n].port
       IN  /\ sockets' = sockets \ {<<port, n>>}
           /\ listening' = WithoutPort(port)
           /\ servers' = [servers EXCEPT ![n].port = 0, ![n].mounted = <<>>]

\* ensureNotMounted
AlreadyMounted(n, p) == \E q \in DOMAIN servers[n].mounted : p = q \/ <<p, q>> \in Beneath

\* A static folder passes on a request for a file it lacks; a folder that is indexed, at "/" always,
\* answers every request, with notFound if need be.
Answers(route, p) == route.at = p \/ route.index

\* The route that answers for the index of p: they are tried in the order they were added.
Serves(n, p) ==
  LET answering == {i \in DOMAIN servers[n].routes : Answers(servers[n].routes[i], p)}
  IN  servers[n].routes[CHOOSE i \in answering : \A j \in answering : i <= j]

-----------------------------------------------------------------------------
(* Hooks around a feature.                                                  *)

\* The Executor clears exhaustionError, then setWorld; the world's runtime is the one of all features.
SetWorld ==
  /\ phase = "world" /\ world' = feature /\ phase' = "web" /\ exhausted' = FALSE
  /\ UNCHANGED <<setup, feature, steps, ok, ports, mcp, sessions, calls, running, lists, verdicts, stepping, halted>>

\* WebServerStepper.startFeature
WebStartsFeature ==
  /\ phase = "web" /\ phase' = "mcp"
  /\ servers' = Append(servers, [port |-> 0, routes |-> <<>>, mounted |-> <<>>])
  /\ UNCHANGED <<setup, feature, steps, ok, sockets, listening, mcp, world, sessions, calls, running, lists, verdicts, halting>>

\* doFeature begins.
Begins == phase' = "body" /\ ok' = TRUE /\ lists' = Append(lists, <<>>)

\* setupMcp on the feature's server; a port that is taken ends the run.
McpStartsFeature ==
  /\ phase = "mcp"
  /\ mcp' = [server |-> TRUE, route |-> feature]
  /\ IF setup.mcp \in listening
       THEN phase' = "failed" /\ UNCHANGED <<ports, ok, lists>>
       ELSE Listened(feature, setup.mcp) /\ Begins
  /\ UNCHANGED <<setup, feature, steps, world, sessions, calls, running, verdicts, halting>>

\* WebServerStepper.endFeature; only the last feature may be left as it is.
WebEndsFeature(shouldClose) ==
  /\ phase = "closing"
  /\ feature < setup.features => shouldClose
  /\ IF shouldClose THEN Closed(feature) ELSE UNCHANGED ports
  /\ phase' = IF shouldClose THEN "closingMcp" ELSE "leavingMcp"
  /\ UNCHANGED <<setup, feature, steps, ok, mcp, world, sessions, calls, running, lists, verdicts, halting>>

\* McpStepper.endFeature closes in any case.
McpEndsFeature ==
  /\ phase \in {"closingMcp", "leavingMcp"}
  /\ mcp' = [mcp EXCEPT !.server = FALSE]
  /\ phase' = IF phase = "closingMcp" THEN "ended" ELSE "left"
  /\ UNCHANGED <<setup, feature, steps, ok, ports, world, sessions, calls, running, lists, verdicts, halting>>

NextFeature ==
  /\ phase = "ended" /\ feature < setup.features
  /\ feature' = feature + 1 /\ phase' = "world" /\ steps' = <<>>
  /\ UNCHANGED <<setup, ok, ports, mcp, world, sessions, calls, running, lists, verdicts, halting>>

-----------------------------------------------------------------------------
(* Statements of the feature.                                               *)

Pushed(r) == Append(Last(lists), r)

\* runtime.stepResults.push
Push(r) == lists' = Append(Front(lists), Pushed(r))

\* An ensure that has had its attempts exhausts the run, also where a statement around it is ok.
Exhausts(e) == exhausted' = (exhausted \/ e)

InBody == phase = "body" /\ Len(steps) < setup.steps

StepOk(r) == ok /\ r.ok

\* The last statement of the feature that runs is not ok.
Fails == phase' = "closing" /\ verdicts' = Append(verdicts, FALSE)

\* doFeatureStep goes on unless the run is exhausted;
StatementBegins ==
  /\ InBody /\ ~stepping /\ ~exhausted
  /\ stepping' = TRUE
  /\ UNCHANGED <<setup, feature, phase, steps, ok, ports, mcp, world, sessions, calls, running, lists, verdicts, exhausted, halted>>

\* if it is, it returns a result that is not ok and records none.
StatementRefused ==
  /\ InBody /\ ~stepping /\ exhausted
  /\ ok' = FALSE /\ Fails /\ halted' = halted \cup {feature}
  /\ UNCHANGED <<setup, feature, steps, ports, mcp, world, sessions, calls, running, lists, exhausted, stepping>>

\* A statement ends; the first that is not ok ends the feature.
StatementEnds(good, exhausts) ==
  LET r == [by |-> "feature", ok |-> good]
  IN  /\ InBody /\ stepping /\ stepping' = FALSE
      /\ Push(r) /\ steps' = Append(steps, r)
      /\ ok' = StepOk(r)
      /\ IF ok' THEN UNCHANGED <<phase, verdicts>> ELSE Fails
      /\ Exhausts(exhausts) /\ UNCHANGED halted

Statement(good, exhausts) ==
  /\ StatementEnds(good, exhausts)
  /\ UNCHANGED <<setup, feature, ports, mcp, world, sessions, calls, running>>

\* webserver is listening for {why}: nothing, when the port is taken by whatever it is.
IsListening ==
  /\ StatementEnds(TRUE, FALSE)
  /\ IF setup.web \in listening THEN UNCHANGED ports ELSE Listened(feature, setup.web)
  /\ UNCHANGED <<setup, feature, mcp, world, sessions, calls, running>>

\* serve files at {where} from {loc}, serve files from, index files from.
Mount(p, folder, index) ==
  /\ InBody /\ ~AlreadyMounted(feature, p)
  /\ index => p = "/"
  /\ StatementEnds(TRUE, FALSE)
  /\ servers' = [servers EXCEPT ![feature].routes = Append(@, [at |-> p, folder |-> folder, index |-> index]),
                                ![feature].mounted = With(@, p, folder)]
  /\ UNCHANGED <<setup, feature, sockets, listening, mcp, world, sessions, calls, running>>

MountFails(p) ==
  /\ InBody /\ AlreadyMounted(feature, p)
  /\ StatementEnds(FALSE, FALSE)
  /\ UNCHANGED <<setup, feature, ports, mcp, world, sessions, calls, running>>

\* serve mcp tools at {path}: it is set up, so nothing changes.
ServeMcpTools ==
  /\ mcp.server /\ StatementEnds(TRUE, FALSE)
  /\ UNCHANGED <<setup, feature, ports, mcp, world, sessions, calls, running>>

FeatureEnds ==
  /\ phase = "body" /\ ~stepping /\ phase' = "closing" /\ verdicts' = Append(verdicts, ok)
  /\ UNCHANGED <<setup, feature, steps, ok, ports, mcp, world, sessions, calls, running, lists, halting>>

-----------------------------------------------------------------------------
(* Requests of MCP clients.                                                 *)

\* A socket leads to an app with the routes, and the transport is there.
Reachable == mcp.server /\ \E s \in sockets : s[2] = mcp.route

\* Variant: one session for all.
OneSession(c, request) == "default-session"

\* getSessionId: without the header, a call is given a connection and a list is not.
SessionId(c, request) ==
  IF c \in Client THEN c ELSE IF request = "call" THEN "default-connection" ELSE "default-session"

UpdateSessionFocus(c, s) ==
  /\ scopes' = IF s = "index" THEN [k \in DOMAIN scopes \ {SessionId(c, "call")} |-> scopes[k]]
               ELSE With(scopes, SessionId(c, "call"), s)
  /\ focus' = [focus EXCEPT ![c] = s]

CanAsk(c) == c \in setup.clients /\ Reachable /\ running[c] = Idle /\ calls < setup.calls

\* access_stepper_..., return_to_index
Access(c, s) ==
  /\ CanAsk(c) /\ calls' = calls + 1
  /\ UpdateSessionFocus(c, s)
  /\ UNCHANGED <<setup, feature, phase, steps, ok, ports, mcp, world, running, lists, verdicts, halting>>

CallWorld == world

\* A tool by its name turns to its stepper; call_step does not. doFeatureStep begins, or refuses.
CallTool(c, s) ==
  /\ CanAsk(c) /\ calls' = calls + 1
  /\ running' = IF exhausted THEN running ELSE [running EXCEPT ![c] = [feature |-> feature, world |-> CallWorld]]
  /\ \/ UpdateSessionFocus(c, s)
     \/ UNCHANGED sessions
  /\ UNCHANGED <<setup, feature, phase, steps, ok, ports, mcp, world, lists, verdicts, halting>>

\* doFeatureStep ends, in whatever feature it is by now.
CallEnds(c, good, exhausts) ==
  /\ running[c] # Idle
  /\ running' = [running EXCEPT ![c] = Idle]
  /\ Push([by |-> c, ok |-> good]) /\ Exhausts(exhausts)
  /\ UNCHANGED <<setup, feature, phase, steps, ok, ports, mcp, world, sessions, calls, verdicts, stepping, halted>>

\* One whose argument is not defined throws, which the handler of the tool tells the client.
CallThrows(c) ==
  /\ running[c] # Idle
  /\ running' = [running EXCEPT ![c] = Idle]
  /\ UNCHANGED <<setup, feature, phase, steps, ok, ports, mcp, world, sessions, calls, lists, verdicts, halting>>

\* listTools
ListFor(c) == IF SessionId(c, "list") \in DOMAIN scopes THEN scopes[SessionId(c, "list")] ELSE "index"

-----------------------------------------------------------------------------
Over ==
  /\ phase \in {"failed", "left"} \/ (phase = "ended" /\ feature = setup.features)
  /\ \A c \in Everyone : running[c] = Idle
  /\ UNCHANGED vars

Hooks ==
  \/ SetWorld \/ WebStartsFeature \/ McpStartsFeature
  \/ \E close \in BOOLEAN : WebEndsFeature(close)
  \/ McpEndsFeature \/ NextFeature

Body ==
  \/ StatementBegins \/ StatementRefused
  \/ \E good, exhausts \in BOOLEAN : Statement(good, exhausts)
  \/ IsListening \/ ServeMcpTools \/ FeatureEnds
  \/ \E p \in setup.paths : MountFails(p) \/ \E f \in Folder, index \in BOOLEAN : Mount(p, f, index)

Requests ==
  \E c \in Everyone :
    \/ \E s \in Stepper \cup {"index"} : Access(c, s)
    \/ \E s \in Stepper : CallTool(c, s)
    \/ \E good, exhausts \in BOOLEAN : CallEnds(c, good, exhausts)
    \/ CallThrows(c)

Next == Hooks \/ Body \/ Requests \/ Over

Spec == Init /\ [][Next]_vars
-----------------------------------------------------------------------------
(* Properties.                                                              *)

\* own holds what a list holds of the feature's own statements, all of it and in order.
IsOwnOf(own, list) ==
  \E at \in [DOMAIN own -> DOMAIN list] :
    /\ \A i, j \in DOMAIN own : i < j => at[i] < at[j]
    /\ \A i \in DOMAIN own : list[at[i]] = own[i]
    /\ \A k \in DOMAIN list : list[k].by = "feature" <=> \E i \in DOMAIN own : at[i] = k

TypeOK ==
  /\ feature \in 1..setup.features
  /\ phase \in {"world", "web", "mcp", "body", "closing", "closingMcp", "leavingMcp", "ended", "left", "failed"}
  /\ Len(servers) \in {feature - 1, feature} /\ Len(lists) \in {feature - 1, feature}
  /\ sockets \subseteq {setup.web, setup.mcp} \X DOMAIN servers /\ listening \subseteq {setup.web, setup.mcp}
  /\ \A n \in DOMAIN servers : servers[n].port \in {0, setup.web, setup.mcp}
  /\ DOMAIN scopes \subseteq Client \cup {"default-connection"}
  /\ \A c \in Everyone : running[c] = Idle \/ running[c].feature \in 1..feature
  /\ Len(verdicts) <= feature /\ halted \subseteq 1..Len(verdicts)

\* The static registry of ports names the ports the process listens on, whichever ServerHono has them.
RegistryIsTrue == listening = {s[1] : s \in sockets}

\* Where the two steppers share a port, the MCP server never finds it taken by a feature before; with
\* two ports it does, since a ServerHono that has listened twice closes the second.
NeverFindsPortTaken == setup.web = setup.mcp => phase # "failed"

\* What is said to be mounted at a path is what is served there, unless a folder that is indexed at
\* "/" was mounted before and answers in its place.
MountedIsServed ==
  \A n \in DOMAIN servers : \A p \in DOMAIN servers[n].mounted :
    LET route == Serves(n, p)
    IN  \/ route.at = p /\ route.folder = servers[n].mounted[p]
        \/ route.index /\ p # "/"

\* What the servers say of themselves is true, and each feature can have its own.
ServersAreSound == TypeOK /\ RegistryIsTrue /\ NeverFindsPortTaken /\ MountedIsServed

\* A client with a session is shown the tools of the stepper it has turned to itself, whatever
\* other clients do and through the features of the run.
SessionsAreApart == \A c \in Client : ListFor(c) = focus[c]

\* Whatever clients run and whenever it ends, in its feature or in a later one, the results of a
\* feature hold those of its own statements that have run, all and in order.
OwnResults == phase \in {"body", "closing"} => IsOwnOf(steps, Last(lists))

\* A feature fails if and only if one of its own statements has, or was refused because some
\* statement, of its own or of a client, had exhausted the run.
VerdictIsOfFeature ==
  \A f \in DOMAIN verdicts :
    verdicts[f] = (f \notin halted /\ \A k \in DOMAIN lists[f] : lists[f][k].by = "feature" => lists[f][k].ok)

\* A statement of a client that begins while a feature runs begins in the world of that feature.
WorldIsPresent == \A c \in Everyone : running[c].world = running[c].feature

\* Clients neither see each other's focus nor, but for exhausting the run, touch the verdict of the
\* feature they run in.
ClientsAreApart == SessionsAreApart /\ OwnResults /\ VerdictIsOfFeature /\ WorldIsPresent
=============================================================================
