------------------------------- MODULE Extension -------------------------------
(***************************************************************************)
(* The editor's extension: it starts a language server for the settings of   *)
(* a workspace, starts another when they change, starts it again when it      *)
(* stops, and shows in a tree the state of the server and of its MCP          *)
(* endpoint, the features below the base directories, and the tools it runs.  *)
(*                                                                         *)
(* One thread runs it; a step ends where the code awaits. A server is the    *)
(* LanguageClient's: "again" is one the client library or a timer starts     *)
(* once more. The tree is a snapshot of the settings and the files, from     *)
(* which every node of it follows.                                           *)
(***************************************************************************)
EXTENDS Naturals, Sequences, FiniteSets, SequencesExt

CONSTANTS
  Settings,    \* what the user may set: [bases, mcpEnabled, token]
  NoToken,
  BaseName,    \* per base directory, its last part
  Inside,      \* the base directories below the workspace
  Place,       \* per feature file, [base, in]: in features, backgrounds or the directory itself
  Changing,    \* files the user may make or delete
  Tools,
  MAX_RETRIES,
  MaxServers, MaxDisturbances   \* bounds of the model

Files == DOMAIN Place

ExtensionAssumption ==
  /\ MAX_RETRIES \in Nat /\ MaxServers \in Nat \ {0} /\ MaxDisturbances \in Nat
  /\ \A s \in Settings : s.mcpEnabled \in BOOLEAN /\ s.bases \in Seq(DOMAIN BaseName)
  /\ Changing \subseteq Files /\ Inside \subseteq DOMAIN BaseName
ASSUME ExtensionAssumption

VARIABLES
  settings, files, cli,   \* the workspace: its settings and features, and whether a CLI is found
  tree,                   \* what was last discovered
  refreshDue,             \* a watcher or a command has still to refresh the tree
  servers,                \* per LanguageClient made: [state, mcp, token, handlers]
  client,                 \* the index of the extension's, or 0
  stopping,               \* clients whose stop is awaited, with a start to follow
  status,                 \* [lsp, mcp, error, retryCount, timers]: what the panel shows, and the retries
  checks,                 \* tokens of the health checks under way
  output, calls,          \* per tool, what is shown of it, and its requests under way
  asking,                 \* tools whose parameters the user is asked for
  overlapped,             \* a restart began while a start or a stop was under way (a history)
  disturbances            \* crashes, changes of files and calls of tools so far

workspace == <<settings, files, cli>>
lifecycle == <<servers, client, stopping, overlapped>>
tools == <<output, calls, asking>>
extensionVars == <<workspace, tree, refreshDue, lifecycle, status, checks, tools, disturbances>>

----------------------------------------------------------------------------
(* The tree. *)

_discoverFiles == [bases |-> settings.bases, files |-> files]
Trees == [bases : {s.bases : s \in Settings} \union {<<>>},
          files : {Files \ gone : gone \in SUBSET Changing} \union {{}}]

FilesIn(found, base, where) == {f \in found.files : Place[f].base = base /\ Place[f].in \in where}

\* The features of a base are those of its features/ folder and of itself.
SectionFiles(found, base, kind) ==
  FilesIn(found, base, IF kind = "features" THEN {"features", "root"} ELSE {"backgrounds"})

\* A folder counts when it has a feature.
Sections(found, base) == {k \in {"features", "backgrounds"} : SectionFiles(found, base, k) # {}}
Entries(found) == {base \in Range(found.bases) : Sections(found, base) # {}}

\* The caches are by name: the last of two bases of one name is in them.
LastOf(found, bases) == CHOOSE b \in bases :
  \E i \in DOMAIN found.bases : found.bases[i] = b /\ \A j \in DOMAIN found.bases :
    found.bases[j] \in bases => j <= i

SectionOf(found, name, kind) ==
  LastOf(found, {b \in Entries(found) : BaseName[b] = name /\ kind \in Sections(found, b)})

BaseOf(found, name) == LastOf(found, {b \in Entries(found) : BaseName[b] = name})

\* What can be reached below Specifications: with one base its sections, with
\* more the bases', each by what the caches have for its name.
getChildren(found) ==
  LET shown == {BaseOf(found, BaseName[b]) : b \in Entries(found)}
  IN  UNION {UNION {SectionFiles(found, SectionOf(found, BaseName[b], k), k) : k \in Sections(found, b)} : b \in shown}

Discovered(found) == UNION {UNION {SectionFiles(found, b, k) : k \in Sections(found, b)} : b \in Range(found.bases)}

----------------------------------------------------------------------------
(* What the panel shows of the servers. *)

Stopped(st) == [st EXCEPT !.lsp = "stopped", !.mcp = "stopped"]

\* setError, with the state that goes with it.
Failed(st, mcpEnabled) ==
  [st EXCEPT !.lsp = "error", !.mcp = IF mcpEnabled THEN "error" ELSE @, !.error = TRUE]

\* A handler of onDidChangeState, for one that has stopped.
OnStopped(st, mcpEnabled) ==
  LET counted == [Stopped(st) EXCEPT !.retryCount = @ + 1]
  IN  IF counted.retryCount <= MAX_RETRIES
      THEN [counted EXCEPT !.lsp = "starting", !.timers = @ + 1]
      ELSE Failed(counted, mcpEnabled)

\* Every handler a client has; one may have those of another start.
AfterStop(st, i) ==
  LET handlers == servers[i].handlers
      told[n \in 0..Len(handlers)] == IF n = 0 THEN st ELSE OnStopped(told[n - 1], handlers[n])
  IN  told[Len(handlers)]

\* startClient until it awaits the client's start.
startClient(all, st) ==
  IF ~cli
  THEN /\ status' = [st EXCEPT !.lsp = "error", !.error = TRUE]
       /\ servers' = all /\ UNCHANGED client
  ELSE /\ status' = [st EXCEPT !.lsp = "starting",
                        !.mcp = IF ~settings'.mcpEnabled THEN "disabled"
                                ELSE IF settings'.token # NoToken THEN "starting" ELSE "error"]
       /\ servers' = Append(all, [state |-> "starting", mcp |-> settings'.mcpEnabled,
                                  token |-> settings'.token, handlers |-> <<>>])
       /\ client' = Len(all) + 1

\* setSteppers refreshes the tree, when startClient gets there.
TreeFollows == IF cli THEN tree' = _discoverFiles' ELSE UNCHANGED tree

ExtensionInit ==
  /\ settings \in Settings /\ files = Files /\ cli \in BOOLEAN
  /\ tree = IF cli THEN _discoverFiles ELSE [bases |-> <<>>, files |-> {}]
  /\ refreshDue = FALSE
  /\ servers = IF cli THEN <<[state |-> "starting", mcp |-> settings.mcpEnabled,
                              token |-> settings.token, handlers |-> <<>>]>> ELSE <<>>
  /\ client = Len(servers) /\ stopping = {} /\ overlapped = FALSE
  /\ status = [lsp |-> IF cli THEN "starting" ELSE "error", error |-> ~cli, retryCount |-> 0, timers |-> 0,
               mcp |-> IF ~cli \/ ~settings.mcpEnabled THEN "disabled"
                       ELSE IF settings.token # NoToken THEN "starting" ELSE "error"]
  /\ checks = {}
  /\ output = [t \in Tools |-> "none"] /\ calls = [t \in Tools |-> 0] /\ asking = {}
  /\ disturbances = 0

----------------------------------------------------------------------------
(* Starting and stopping. *)

Disturbs == disturbances < MaxDisturbances /\ disturbances' = disturbances + 1

Began(i) == i # 0 /\ servers[i].state \in {"starting", "again"}

\* Variant: a start does not wait for the stop.
AwaitsNothing(i) == FALSE

\* stop throws, and is not awaited, unless the client runs.
AwaitsStop(i) == servers[i].state = "running"

\* The settings change or a restart is asked for: stopClient, then startClient.
Restart ==
  /\ Len(servers) + Cardinality(stopping) < MaxServers
  /\ overlapped' = (overlapped \/ stopping # {} \/ Began(client))
  /\ LET st == [status EXCEPT !.retryCount = 0]
     IN  IF client # 0 /\ AwaitsStop(client)
         THEN /\ status' = st
              /\ servers' = [servers EXCEPT ![client].state = "stopping"]
              /\ stopping' = stopping \union {client} /\ client' = 0
              /\ UNCHANGED tree
         ELSE startClient(servers, st) /\ TreeFollows /\ UNCHANGED stopping

\* haibun.restart.
RestartCommand == UNCHANGED <<workspace, refreshDue, checks, tools, disturbances>> /\ Restart

\* A command of the panel refreshes the tree after its update; the settings'
\* own editor does not.
ChangeSettings ==
  /\ settings' \in Settings \ {settings} /\ UNCHANGED <<files, cli>>
  /\ Restart
  /\ refreshDue' \in {refreshDue, TRUE}
  /\ UNCHANGED <<checks, tools, disturbances>>

\* The stop is done: the client's handlers run, then what awaited it.
StopDone(i) ==
  /\ i \in stopping
  /\ UNCHANGED <<workspace, refreshDue, overlapped, checks, tools, disturbances>>
  /\ stopping' = stopping \ {i}
  /\ startClient([servers EXCEPT ![i].state = "stopped"], Stopped(AfterStop(status, i)))
  /\ TreeFollows

\* client.start has resolved: the handlers go to the client there is by now,
\* and without one what follows throws.
StartDone(i) ==
  /\ servers[i].state = "starting"
  /\ LET m == servers[i].mcp
         ready == [status EXCEPT !.lsp = "running", !.mcp = IF m THEN "running" ELSE @,
                                 !.retryCount = 0, !.error = FALSE]
         run == [servers EXCEPT ![i].state = "running"]
     IN  IF client = 0 THEN status' = Failed(ready, m) /\ servers' = run
         ELSE status' = ready /\ servers' = [run EXCEPT ![client].handlers = Append(@, m)]
  /\ UNCHANGED <<workspace, tree, refreshDue, client, stopping, overlapped, checks, tools, disturbances>>

StartFails(i) ==
  /\ servers[i].state = "starting"
  /\ servers' = [servers EXCEPT ![i].state = "failed"]
  /\ status' = Failed(AfterStop(status, i), servers[i].mcp)
  /\ UNCHANGED <<workspace, tree, refreshDue, client, stopping, overlapped, checks, tools, disturbances>>

\* A server dies, and the client library may start it again.
Crash(i) ==
  /\ servers[i].state = "running" /\ Disturbs
  /\ \E state \in {"stopped", "again"} : servers' = [servers EXCEPT ![i].state = state]
  /\ status' = AfterStop(status, i)
  /\ UNCHANGED <<workspace, tree, refreshDue, client, stopping, overlapped, checks, tools>>

StartedAgain(i) ==
  /\ servers[i].state = "again"
  /\ \E state \in {"running", "failed"} :
       /\ servers' = [servers EXCEPT ![i].state = state]
       /\ status' = IF state = "failed" THEN AfterStop(status, i) ELSE status
  /\ UNCHANGED <<workspace, tree, refreshDue, client, stopping, overlapped, checks, tools, disturbances>>

\* The timer of a retry starts the client there is by then.
RetryTimer ==
  /\ status.timers > 0
  /\ status' = [status EXCEPT !.timers = @ - 1]
  /\ servers' = IF client # 0 /\ servers[client].state = "stopped"
                THEN [servers EXCEPT ![client].state = "again"] ELSE servers
  /\ UNCHANGED <<workspace, tree, refreshDue, client, stopping, overlapped, checks, tools, disturbances>>

----------------------------------------------------------------------------
(* The panel. *)

\* haibun/workspaceInfo, of a server that has the handler for it.
updateWorkspaceInfo(i) ==
  /\ servers[i].state = "running" /\ servers[i].handlers # <<>>
  /\ status' = [status EXCEPT !.error = FALSE]
  /\ tree' = _discoverFiles
  /\ UNCHANGED <<workspace, refreshDue, lifecycle, checks, tools, disturbances>>

\* A watcher sees files that come or go below the workspace, where its pattern
\* is looked for; a base may be elsewhere, by an absolute path or by "..".
ChangeFiles ==
  /\ Disturbs
  /\ \E f \in Changing :
       /\ files' = IF f \in files THEN files \ {f} ELSE files \union {f}
       /\ refreshDue' = (refreshDue \/ Place[f].base \in Inside)
  /\ UNCHANGED <<settings, cli, tree, lifecycle, status, checks, tools>>

\* The tree is made anew: when a watcher or a command asks for it, and whenever
\* the user edits or saves a document.
refresh ==
  /\ refreshDue' = FALSE /\ tree' = _discoverFiles
  /\ UNCHANGED <<workspace, lifecycle, status, checks, tools, disturbances>>

\* checkMcpHealth, every 5 s, until it awaits the answer.
checkMcpHealth ==
  /\ status.mcp # "disabled" /\ settings.mcpEnabled
  /\ IF settings.token = NoToken
     THEN status' = [status EXCEPT !.mcp = "error"] /\ UNCHANGED checks
     ELSE checks' = checks \union {settings.token} /\ UNCHANGED status
  /\ UNCHANGED <<workspace, tree, refreshDue, lifecycle, tools, disturbances>>

Endpoints == {i \in DOMAIN servers : /\ servers[i].state = "running" /\ servers[i].mcp
                                     /\ servers[i].token # NoToken}

\* Variant: a connection that is refused changes nothing.
IgnoresRefusal(token) ==
  IF \E i \in Endpoints : servers[i].token = token THEN "running"
  ELSE IF Endpoints # {} /\ status.mcp # "starting" THEN "error"
  ELSE status.mcp

\* What an answer shows: one with the token, one that refuses it, or none.
Health(token) ==
  IF \E i \in Endpoints : servers[i].token = token THEN "running"
  ELSE IF Endpoints # {} THEN IF status.mcp = "starting" THEN "starting" ELSE "error"
  ELSE IF status.mcp = "running" THEN "error" ELSE status.mcp

HealthAnswered(token) ==
  /\ token \in checks
  /\ checks' = checks \ {token}
  /\ status' = [status EXCEPT !.mcp = Health(token)]
  /\ UNCHANGED <<workspace, tree, refreshDue, lifecycle, tools, disturbances>>

Calls(t) ==
  IF client = 0 THEN output' = [output EXCEPT ![t] = "error"] /\ UNCHANGED calls
  ELSE output' = [output EXCEPT ![t] = "running"] /\ calls' = [calls EXCEPT ![t] = @ + 1]

\* haibun.executeMcpTool: its parameters are known, or asked for.
executeMcpTool(t) ==
  /\ client # 0 /\ Disturbs
  /\ \/ Calls(t) /\ UNCHANGED asking
     \/ asking' = asking \union {t} /\ UNCHANGED <<output, calls>>
  /\ UNCHANGED <<workspace, tree, refreshDue, lifecycle, status, checks>>

\* The user has given them, or not: without a client by now the request throws.
ParametersGiven(t) ==
  /\ t \in asking /\ asking' = asking \ {t}
  /\ Calls(t) \/ UNCHANGED <<output, calls>>
  /\ UNCHANGED <<workspace, tree, refreshDue, lifecycle, status, checks, disturbances>>

setToolOutput(t) ==
  /\ calls[t] > 0
  /\ calls' = [calls EXCEPT ![t] = @ - 1]
  /\ \E shown \in {"output", "error"} : output' = [output EXCEPT ![t] = shown]
  /\ UNCHANGED <<workspace, tree, refreshDue, lifecycle, status, checks, asking, disturbances>>

----------------------------------------------------------------------------
Progress == (\E i \in DOMAIN servers : StopDone(i) \/ StartDone(i) \/ StartFails(i) \/ StartedAgain(i))

ExtensionNext ==
  \/ RestartCommand \/ ChangeSettings \/ Progress \/ RetryTimer
  \/ \E i \in DOMAIN servers : Crash(i) \/ updateWorkspaceInfo(i)
  \/ ChangeFiles \/ refresh
  \/ checkMcpHealth \/ \E token \in checks : HealthAnswered(token)
  \/ \E t \in Tools : executeMcpTool(t) \/ ParametersGiven(t) \/ setToolOutput(t)

\* Servers start, fail or stop, timers and watchers fire, requests are answered,
\* and the check of the endpoint comes round and is answered.
ExtensionFairness ==
  /\ \A i \in 1..MaxServers : WF_extensionVars(i \in DOMAIN servers /\ (StopDone(i) \/ StartDone(i) \/ StartFails(i)
                                                                 \/ StartedAgain(i)))
  /\ WF_extensionVars(RetryTimer) /\ WF_extensionVars(refreshDue /\ refresh) /\ WF_extensionVars(checkMcpHealth)
  /\ WF_extensionVars(\E token \in checks : HealthAnswered(token))
  /\ \A t \in Tools : WF_extensionVars(setToolOutput(t))

ExtensionSpec == ExtensionInit /\ [][ExtensionNext]_extensionVars /\ ExtensionFairness

----------------------------------------------------------------------------
ExtensionTypeOK ==
  /\ settings \in Settings /\ files \subseteq Files /\ cli \in BOOLEAN
  /\ tree \in Trees /\ {refreshDue, overlapped} \subseteq BOOLEAN
  /\ \A i \in DOMAIN servers :
       servers[i].state \in {"starting", "running", "again", "stopping", "stopped", "failed"}
  /\ client \in {0} \union DOMAIN servers /\ stopping \subseteq DOMAIN servers
  /\ status.lsp \in {"starting", "running", "stopped", "error"}
  /\ status.mcp \in {"disabled", "starting", "running", "stopped", "error"}
  /\ status.retryCount \in Nat /\ status.timers \in Nat

Alive == {i \in DOMAIN servers : servers[i].state \in {"starting", "running", "again", "stopping"}}

\* Until restarts overlap, there is one server at a time, and the panel calls it
\* running only from its start until its stop is done.
OneServer ==
  ~overlapped => /\ Cardinality(Alive) <= 1
                 /\ status.lsp = "running" => \E i \in Alive : servers[i].state \in {"running", "stopping"}

\* A tool that is shown as running has a request under way.
RunningIsCalled == \A t \in Tools : output[t] = "running" => calls[t] > 0

\* Whatever is found, every file of it can be reached in the tree, and no other,
\* while no two bases have the same last part.
FilesAreReachable ==
  \A found \in Trees :
    /\ getChildren(found) \subseteq Discovered(found)
    /\ (\A b, c \in Range(found.bases) : BaseName[b] = BaseName[c] => b = c)
         => getChildren(found) = Discovered(found)

PanelIsSound == ExtensionTypeOK /\ OneServer /\ RunningIsCalled /\ FilesAreReachable

McpAgrees ==
  cli /\ settings.mcpEnabled =>
    IF settings.token = NoToken THEN status.mcp = "error"
    ELSE status.mcp = "running" <=> \E i \in Endpoints : servers[i].token = settings.token

\* The tree is of the bases that are set, and of those below the workspace it has
\* the files there are.
TreeAgrees ==
  /\ tree.bases = settings.bases
  /\ \A f \in Files : Place[f].base \in Inside => (f \in tree.files <=> f \in files)

\* Whatever overlaps and whichever answer comes late, the panel comes to tell the
\* state of the MCP endpoint and, with a CLI, to show the features there are below
\* those bases that are set and lie in the workspace (nothing watches the others,
\* whose features are those of the last refresh); and no tool is shown as running
\* for ever.
PanelCatchesUp ==
  /\ <>[]McpAgrees
  /\ <>[](cli => TreeAgrees)
  /\ \A t \in Tools : output[t] = "running" ~> output[t] # "running"
=============================================================================
