--------------------------- MODULE WebServerProofs ---------------------------
(***************************************************************************)
(* Theorems about WebServer, for any features, statements, calls, clients   *)
(* and paths: what the servers say of themselves is true, and clients of    *)
(* the MCP server neither see each other nor touch a feature's verdict.     *)
(***************************************************************************)
EXTENDS WebServer, TLAPS, SequenceTheorems, WellFoundedInduction

Rec == [by : {"feature"} \cup Everyone, ok : BOOLEAN]

(* The lists of results.                                                    *)

LEMMA Beginning ==
  ASSUME NEW list \in Seq(Seq(Rec)), NEW m \in 0..Len(list)
  PROVE  /\ SubSeq(list, 1, m) \in Seq(Seq(Rec)) /\ Len(SubSeq(list, 1, m)) = m
         /\ \A f \in 1..m : SubSeq(list, 1, m)[f] = list[f]
<1> DEFINE Results == Seq(Rec)
<1> HIDE DEF Results
<1>1. list \in Seq(Results) => /\ SubSeq(list, 1, m) \in Seq(Results) /\ Len(SubSeq(list, 1, m)) = m
                               /\ \A f \in 1..m : SubSeq(list, 1, m)[f] = list[f]
  OBVIOUS
<1>2. QED
  BY <1>1 DEF Results

LEMMA PushFacts ==
  ASSUME lists \in Seq(Seq(Rec)), lists # <<>>, NEW r \in Rec, Push(r)
  PROVE  /\ lists' \in Seq(Seq(Rec)) /\ Len(lists') = Len(lists)
         /\ Len(lists) \in Nat \ {0} /\ lists[Len(lists)] \in Seq(Rec)
         /\ lists'[Len(lists)] = Append(lists[Len(lists)], r)
         /\ \A f \in 1..Len(lists) - 1 : lists'[f] = lists[f]
<1> DEFINE n == Len(lists)
           front == Front(lists)
           last == Append(lists[n], r)
<1>1. n \in Nat \ {0} /\ lists[n] \in Seq(Rec)
  OBVIOUS
<1>2. /\ front \in Seq(Seq(Rec)) /\ Len(front) = n - 1
      /\ \A f \in 1..n - 1 : front[f] = lists[f]
  <2>1. front = SubSeq(lists, 1, n - 1)
    BY DEF Front
  <2>2. n - 1 \in 0..Len(lists)
    BY <1>1
  <2> HIDE DEF front, n
  <2>3. QED
    BY <2>1, <2>2, Beginning
<1>3. last \in Seq(Rec)
  BY <1>1, AppendProperties
<1>4. lists' = Append(front, last)
  BY DEF Push, Pushed, Last
<1> HIDE DEF n, front, last
<1>5. /\ lists' \in Seq(Seq(Rec)) /\ Len(lists') = Len(front) + 1
      /\ lists'[Len(front) + 1] = last
      /\ \A f \in 1..Len(front) : lists'[f] = front[f]
  BY <1>2, <1>3, <1>4, AppendProperties
<1>6. Len(front) + 1 = n
  BY <1>1, <1>2
<1>7. QED
  BY <1>1, <1>2, <1>5, <1>6 DEF n, last

\* What others record leaves the feature's own results as they are.
LEMMA OthersRecord ==
  ASSUME NEW own \in Seq(Rec), NEW list \in Seq(Rec), NEW r \in Rec, r.by # "feature",
         IsOwnOf(own, list)
  PROVE  IsOwnOf(own, Append(list, r))
<1> DEFINE new == Append(list, r)
<1>1. /\ Len(list) \in Nat /\ DOMAIN list = 1..Len(list)
      /\ new \in Seq(Rec) /\ DOMAIN new = 1..Len(list) + 1
      /\ \A k \in 1..Len(list) : new[k] = list[k]
      /\ new[Len(list) + 1] = r
  BY AppendProperties
<1> HIDE DEF new
<1>2. PICK at \in [DOMAIN own -> DOMAIN list] :
        /\ \A i, j \in DOMAIN own : i < j => at[i] < at[j]
        /\ \A i \in DOMAIN own : list[at[i]] = own[i]
        /\ \A k \in DOMAIN list : list[k].by = "feature" <=> \E i \in DOMAIN own : at[i] = k
  BY DEF IsOwnOf
<1>3. at \in [DOMAIN own -> DOMAIN new]
  BY <1>1
<1>4. \A i \in DOMAIN own : new[at[i]] = own[i]
  BY <1>1, <1>2
<1>5. ASSUME NEW k \in DOMAIN new
      PROVE  new[k].by = "feature" <=> \E i \in DOMAIN own : at[i] = k
  <2>1. CASE k \in DOMAIN list
    BY <1>1, <1>2, <2>1
  <2>2. CASE k = Len(list) + 1
    <3>1. \A i \in DOMAIN own : at[i] # k
      BY <1>1, <2>2
    <3>2. QED
      BY <1>1, <2>2, <3>1
  <2>3. QED
    BY <1>1, <2>1, <2>2
<1>6. IsOwnOf(own, new)
  BY <1>2, <1>3, <1>4, <1>5 DEF IsOwnOf
<1>7. QED
  BY <1>6 DEF new

\* A statement of the feature enters both at the end.
LEMMA OwnRecord ==
  ASSUME NEW own \in Seq(Rec), NEW list \in Seq(Rec), NEW r \in Rec, r.by = "feature",
         IsOwnOf(own, list)
  PROVE  IsOwnOf(Append(own, r), Append(list, r))
<1> DEFINE new == Append(list, r)
           mine == Append(own, r)
<1>1. /\ Len(list) \in Nat /\ DOMAIN list = 1..Len(list)
      /\ new \in Seq(Rec) /\ DOMAIN new = 1..Len(list) + 1
      /\ \A k \in 1..Len(list) : new[k] = list[k]
      /\ new[Len(list) + 1] = r
  BY AppendProperties
<1>2. /\ Len(own) \in Nat /\ DOMAIN own = 1..Len(own)
      /\ mine \in Seq(Rec) /\ DOMAIN mine = 1..Len(own) + 1
      /\ \A k \in 1..Len(own) : mine[k] = own[k]
      /\ mine[Len(own) + 1] = r
  BY AppendProperties
<1> HIDE DEF new, mine
<1>3. PICK at \in [DOMAIN own -> DOMAIN list] :
        /\ \A i, j \in DOMAIN own : i < j => at[i] < at[j]
        /\ \A i \in DOMAIN own : list[at[i]] = own[i]
        /\ \A k \in DOMAIN list : list[k].by = "feature" <=> \E i \in DOMAIN own : at[i] = k
  BY DEF IsOwnOf
<1> DEFINE to == [i \in DOMAIN mine |-> IF i = Len(own) + 1 THEN Len(list) + 1 ELSE at[i]]
<1>4. \A i \in DOMAIN mine : i = Len(own) + 1 \/ (i \in DOMAIN own /\ i # Len(own) + 1)
  BY <1>2
<1>5. \A i \in DOMAIN own : at[i] \in DOMAIN list /\ at[i] \in 1..Len(list) /\ i \in DOMAIN mine /\ i # Len(own) + 1
  BY <1>1, <1>2
<1>6. Len(own) + 1 \in DOMAIN mine /\ Len(list) + 1 \in DOMAIN new /\ \A k \in DOMAIN list : k \in DOMAIN new
  BY <1>1, <1>2
<1>7. /\ to[Len(own) + 1] = Len(list) + 1
      /\ \A i \in DOMAIN own : to[i] = at[i]
  BY <1>5, <1>6
<1>8. to \in [DOMAIN mine -> DOMAIN new]
  BY <1>4, <1>5, <1>6
<1> HIDE DEF to
<1>9. ASSUME NEW i \in DOMAIN mine, NEW j \in DOMAIN mine, i < j PROVE to[i] < to[j]
  <2>1. i \in DOMAIN own
    BY <1>2, <1>9
  <2>2. CASE j \in DOMAIN own
    BY <1>3, <1>7, <1>9, <2>1, <2>2
  <2>3. CASE j = Len(own) + 1
    <3>1. at[i] < Len(list) + 1
      BY <1>1, <1>5, <2>1
    <3>2. QED
      BY <1>7, <2>1, <2>3, <3>1
  <2>4. QED
    BY <1>4, <2>2, <2>3
<1>10. ASSUME NEW i \in DOMAIN mine PROVE new[to[i]] = mine[i]
  <2>1. CASE i \in DOMAIN own
    BY <1>1, <1>2, <1>3, <1>5, <1>7, <2>1
  <2>2. CASE i = Len(own) + 1
    BY <1>1, <1>2, <1>7, <2>2
  <2>3. QED
    BY <1>4, <2>1, <2>2
<1>11. ASSUME NEW k \in DOMAIN new
       PROVE  new[k].by = "feature" <=> \E i \in DOMAIN mine : to[i] = k
  <2>1. CASE k \in DOMAIN list
    <3>1. new[k] = list[k] /\ k # Len(list) + 1
      BY <1>1, <2>1
    <3>2. (\E i \in DOMAIN mine : to[i] = k) <=> \E i \in DOMAIN own : at[i] = k
      BY <1>4, <1>5, <1>7, <3>1
    <3>3. QED
      BY <1>3, <2>1, <3>1, <3>2
  <2>2. CASE k = Len(list) + 1
    BY <1>1, <1>6, <1>7, <2>2
  <2>3. QED
    BY <1>1, <2>1, <2>2
<1>12. IsOwnOf(mine, new)
  BY <1>8, <1>9, <1>10, <1>11 DEF IsOwnOf
<1>13. QED
  BY <1>12 DEF mine, new

-----------------------------------------------------------------------------
(* The state, and the ServerHono of a feature.                              *)

Mounts == UNION {[P -> Folder] : P \in SUBSET Path}

Route == {r \in [at : Path, folder : Folder, index : BOOLEAN] : r.index => r.at = "/"}

ServerType == [port : Nat, routes : Seq(Route), mounted : Mounts]

Types ==
  /\ setup \in Setups /\ feature \in 1..setup.features
  /\ steps \in Seq(Rec) /\ ok \in BOOLEAN
  /\ servers \in Seq(ServerType)
  /\ mcp \in [server : BOOLEAN, route : Nat] /\ world \in Nat
  /\ focus \in [Everyone -> Stepper \cup {"index"}]
  /\ running \in [Everyone -> [feature : Nat, world : Nat]]
  /\ lists \in Seq(Seq(Rec)) /\ verdicts \in Seq(BOOLEAN)

LEMMA SetupFacts ==
  Types => /\ setup.features \in Nat \ {0} /\ feature \in Nat \ {0}
           /\ setup.web \in Nat \ {0} /\ setup.mcp \in Nat \ {0}
           /\ setup.paths \subseteq Path
  BY WebServerAssumption DEF Types

LEMMA NothingMounted == <<>> \in Mounts /\ DOMAIN <<>> = {}
<1>1. <<>> \in [{} -> Folder] /\ DOMAIN <<>> = {}
  OBVIOUS
<1>2. QED
  BY <1>1 DEF Mounts

LEMMA ReplacedServer ==
  ASSUME servers \in Seq(ServerType), NEW n \in 1..Len(servers), NEW v \in ServerType,
         servers' = [servers EXCEPT ![n] = v]
  PROVE  /\ servers' \in Seq(ServerType) /\ Len(servers') = Len(servers)
         /\ servers'[n] = v
         /\ \A k \in 1..Len(servers) : k # n => servers'[k] = servers[k]
  OBVIOUS

\* A ServerHono that listens has the handle of it, and its routes as before.
LEMMA ServerListens ==
  ASSUME servers \in Seq(ServerType), NEW n \in 1..Len(servers), NEW port \in Nat, Listened(n, port)
  PROVE  /\ servers' \in Seq(ServerType) /\ Len(servers') = Len(servers)
         /\ servers'[n].port = port
         /\ servers'[n].routes = servers[n].routes /\ servers'[n].mounted = servers[n].mounted
         /\ \A k \in 1..Len(servers) : k # n => servers'[k] = servers[k]
<1> DEFINE v == [servers[n] EXCEPT !.port = port]
<1>1. servers[n] \in ServerType
  OBVIOUS
<1>2. v \in ServerType /\ v.port = port /\ v.routes = servers[n].routes /\ v.mounted = servers[n].mounted
  BY <1>1 DEF ServerType
<1>3. servers' = [servers EXCEPT ![n] = v]
  BY DEF Listened, Has
<1> HIDE DEF v
<1>4. QED
  BY <1>2, <1>3, ReplacedServer

\* One that closes what it has the handle of has none then, and nothing mounted.
LEMMA ServerCloses ==
  ASSUME servers \in Seq(ServerType), NEW n \in 1..Len(servers), Closed(n), servers[n].port # 0
  PROVE  /\ servers' \in Seq(ServerType) /\ Len(servers') = Len(servers)
         /\ servers'[n].port = 0
         /\ servers'[n].routes = servers[n].routes /\ DOMAIN servers'[n].mounted = {}
         /\ \A k \in 1..Len(servers) : k # n => servers'[k] = servers[k]
<1> DEFINE v == [servers[n] EXCEPT !.port = 0, !.mounted = <<>>]
<1>1. servers[n] \in ServerType
  OBVIOUS
<1>2. v \in ServerType /\ v.port = 0 /\ v.routes = servers[n].routes /\ DOMAIN v.mounted = {}
  BY <1>1, NothingMounted DEF ServerType
<1>3. servers' = [servers EXCEPT ![n] = v]
  BY <1>1 DEF Closed
<1> HIDE DEF v
<1>4. QED
  BY <1>2, <1>3, ReplacedServer

\* One that mounts a folder has its route last.
FolderAdded(n, p, f, r) ==
  /\ servers' \in Seq(ServerType) /\ Len(servers') = Len(servers)
  /\ servers'[n].port = servers[n].port
  /\ servers'[n].routes = Append(servers[n].routes, r)
  /\ DOMAIN servers'[n].mounted = DOMAIN servers[n].mounted \cup {p}
  /\ servers'[n].mounted[p] = f
  /\ \A q \in DOMAIN servers[n].mounted : q # p => servers'[n].mounted[q] = servers[n].mounted[q]
  /\ \A k \in 1..Len(servers) : k # n => servers'[k] = servers[k]

LEMMA ServerMounts ==
  ASSUME servers \in Seq(ServerType), NEW n \in 1..Len(servers), NEW r \in Route, NEW p \in Path, NEW f \in Folder,
         servers' = [servers EXCEPT ![n].routes = Append(@, r), ![n].mounted = With(@, p, f)]
  PROVE  FolderAdded(n, p, f, r)
<1> DEFINE old == servers[n].mounted
           new == With(old, p, f)
           routes == Append(servers[n].routes, r)
           v == [servers[n] EXCEPT !.routes = routes, !.mounted = new]
<1>1. servers[n] \in ServerType
  OBVIOUS
<1>2. servers[n].routes \in Seq(Route) /\ old \in Mounts /\ servers[n].port \in Nat
  BY <1>1 DEF ServerType
<1>3. routes \in Seq(Route)
  BY <1>2, AppendProperties
<1>4. PICK P \in SUBSET Path : old \in [P -> Folder]
  BY <1>2 DEF Mounts
<1>5. new = [q \in P \cup {p} |-> IF q = p THEN f ELSE old[q]]
  BY <1>4 DEF With
<1>6. servers' = [servers EXCEPT ![n] = v]
  BY <1>1
<1> HIDE DEF old, new, routes
<1>7. new \in [P \cup {p} -> Folder] /\ P \cup {p} \in SUBSET Path
  BY <1>4, <1>5
<1>8. new \in Mounts
  BY <1>7 DEF Mounts
<1>9. v \in ServerType /\ v.port = servers[n].port /\ v.routes = routes /\ v.mounted = new
  BY <1>1, <1>3, <1>8 DEF ServerType
<1>10. DOMAIN new = DOMAIN old \cup {p} /\ new[p] = f /\ \A q \in DOMAIN old : q # p => new[q] = old[q]
  BY <1>4, <1>5
<1> HIDE DEF v
<1>11. /\ servers' \in Seq(ServerType) /\ Len(servers') = Len(servers)
       /\ servers'[n] = v
       /\ \A k \in 1..Len(servers) : k # n => servers'[k] = servers[k]
  BY <1>6, <1>9, ReplacedServer
<1>12. QED
  BY <1>9, <1>10, <1>11 DEF FolderAdded, old, routes

-----------------------------------------------------------------------------
(* The inductive invariant.                                                 *)

Before == {"world", "web", "mcp", "failed"}

\* Where the run is in a feature, and what it has of it by then.
PhaseInv ==
  /\ phase \in {"world", "web", "mcp", "body", "closing", "closingMcp", "leavingMcp", "ended", "left", "failed"}
  /\ Len(servers) = IF phase \in {"world", "web"} THEN feature - 1 ELSE feature
  /\ Len(lists) = IF phase \in Before THEN feature - 1 ELSE feature
  /\ Len(verdicts) = IF phase \in Before \cup {"body"} THEN feature - 1 ELSE feature
  /\ halted \subseteq DOMAIN verdicts
  /\ phase # "world" => world = feature
  /\ phase \in {"world", "web", "mcp", "ended", "left"} => ~mcp.server
  /\ phase \in {"world", "web", "mcp"} => steps = <<>>

\* Who listens on which port. With one port for both steppers, the server of a feature has the
\* handle of it from the first statement to the last.
PortsInv ==
  /\ listening = {s[1] : s \in sockets}
  /\ sockets \subseteq {setup.web, setup.mcp} \X DOMAIN servers
  /\ \A s, t \in sockets : s[1] = t[1] => s = t
  /\ \A n \in DOMAIN servers : servers[n].port # 0 => <<servers[n].port, n>> \in sockets
  /\ sockets # {} => lists # <<>>

OnePortInv ==
  setup.web = setup.mcp =>
    /\ phase \in {"world", "web", "mcp", "closingMcp", "ended"} => sockets = {}
    /\ phase \in {"body", "closing"} => servers[feature].port = setup.mcp
    /\ phase # "failed"

\* The first route of a mounted path is the one that was mounted.
MountsOK(v) ==
  \A p \in DOMAIN v.mounted :
    \E i \in DOMAIN v.routes : /\ v.routes[i].at = p /\ v.routes[i].folder = v.mounted[p]
                               /\ \A j \in 1..i - 1 : v.routes[j].at # p

RoutesAreMounted(v) == \A i \in DOMAIN v.routes : v.routes[i].at \in DOMAIN v.mounted

MountsInv ==
  /\ \A n \in DOMAIN servers : MountsOK(servers[n])
  /\ phase = "mcp" => servers[feature].routes = <<>>
  /\ phase = "body" => RoutesAreMounted(servers[feature])

SessionsInv ==
  /\ DOMAIN scopes \subseteq Client \cup {"default-connection"}
  /\ \A c \in Client : focus[c] = IF c \in DOMAIN scopes THEN scopes[c] ELSE "index"

OwnOk(list) == \A k \in DOMAIN list : list[k].by = "feature" => list[k].ok

RunningInv ==
  \A c \in Everyone : running[c] # Idle =>
    lists # <<>> /\ running[c].feature \in 1..feature /\ running[c].world = running[c].feature

ResultsInv ==
  /\ phase = "body" => (ok <=> OwnOk(lists[feature]))
  /\ phase \in {"body", "closing"} => IsOwnOf(steps, lists[feature])
  /\ \A f \in DOMAIN verdicts : verdicts[f] <=> f \notin halted /\ OwnOk(lists[f])

IInv == Types /\ PhaseInv /\ PortsInv /\ OnePortInv /\ MountsInv /\ SessionsInv /\ RunningInv /\ ResultsInv

-----------------------------------------------------------------------------
(* What the actions do, taken together.                                     *)

OwnRec(good) == [by |-> "feature", ok |-> good]

LEMMA StatementFacts ==
  ASSUME Types, PhaseInv, NEW good \in BOOLEAN, NEW exhausts \in BOOLEAN, StatementEnds(good, exhausts)
  PROVE  /\ phase = "body" /\ feature \in 1..Len(lists) /\ feature = Len(lists) /\ Len(lists) \in Nat
         /\ lists[feature] \in Seq(Rec) /\ OwnRec(good) \in Rec
         /\ lists' \in Seq(Seq(Rec)) /\ Len(lists') = Len(lists)
         /\ lists'[feature] = Append(lists[feature], OwnRec(good))
         /\ \A f \in 1..feature - 1 : lists'[f] = lists[f]
         /\ steps' \in Seq(Rec) /\ steps' = Append(steps, OwnRec(good))
         /\ ok' \in BOOLEAN /\ (ok' <=> ok /\ good)
         /\ verdicts' \in Seq(BOOLEAN) /\ halted' = halted
         /\ ok' => phase' = "body" /\ verdicts' = verdicts
         /\ ~ok' => phase' = "closing" /\ verdicts' = Append(verdicts, FALSE)
<1> DEFINE r == OwnRec(good)
<1>1. r \in Rec
  BY DEF Rec, OwnRec
<1>2. /\ phase = "body" /\ Push(r) /\ steps' = Append(steps, r)
      /\ ok' = StepOk(r)
      /\ halted' = halted
      /\ phase' = (IF ok' THEN phase ELSE "closing")
      /\ verdicts' = (IF ok' THEN verdicts ELSE Append(verdicts, FALSE))
  BY DEF StatementEnds, Fails, InBody, OwnRec
<1>3. ok' \in BOOLEAN /\ (ok' <=> ok /\ good)
  BY <1>2 DEF StepOk, OwnRec, Types
<1> HIDE DEF r
<1>4. feature \in Nat \ {0} /\ Len(lists) = feature /\ lists \in Seq(Seq(Rec)) /\ lists # <<>>
  BY <1>2, SetupFacts DEF Types, PhaseInv, Before
<1>5. /\ lists' \in Seq(Seq(Rec)) /\ Len(lists') = Len(lists)
      /\ lists[Len(lists)] \in Seq(Rec)
      /\ lists'[Len(lists)] = Append(lists[Len(lists)], r)
      /\ \A f \in 1..Len(lists) - 1 : lists'[f] = lists[f]
  BY <1>1, <1>2, <1>4, PushFacts
<1>6. steps' \in Seq(Rec)
  BY <1>1, <1>2, AppendProperties DEF Types
<1>7. Append(verdicts, FALSE) \in Seq(BOOLEAN)
  BY AppendProperties DEF Types
<1>8. verdicts' \in Seq(BOOLEAN)
  BY <1>2, <1>7 DEF Types
<1>9. feature \in 1..Len(lists)
  BY <1>4
<1>10. QED
  BY <1>1, <1>2, <1>3, <1>4, <1>5, <1>6, <1>8, <1>9 DEF r

\* A statement of a client is recorded with the present feature, if there is one.
LEMMA CallFacts ==
  ASSUME Types, RunningInv, NEW c \in Everyone, NEW good \in BOOLEAN, NEW exhausts \in BOOLEAN, CallEnds(c, good, exhausts)
  PROVE  /\ lists' \in Seq(Seq(Rec)) /\ Len(lists') = Len(lists) /\ Len(lists) \in Nat \ {0}
         /\ lists[Len(lists)] \in Seq(Rec)
         /\ [by |-> c, ok |-> good] \in Rec /\ c # "feature"
         /\ lists'[Len(lists)] = Append(lists[Len(lists)], [by |-> c, ok |-> good])
         /\ \A f \in 1..Len(lists) - 1 : lists'[f] = lists[f]
<1> DEFINE r == [by |-> c, ok |-> good]
<1>1. r \in Rec
  BY DEF Rec
<1>2. c # "feature"
  BY WebServerAssumption DEF Everyone
<1>3. Push(r)
  BY DEF CallEnds
<1> HIDE DEF r
<1>4. lists \in Seq(Seq(Rec)) /\ lists # <<>>
  BY DEF Types, RunningInv, CallEnds
<1>5. QED
  BY <1>1, <1>2, <1>3, <1>4, PushFacts DEF r

\* The statements of the feature, but for what they do to its server.
StatementStep ==
  \E good, exhausts \in BOOLEAN : StatementEnds(good, exhausts) /\ UNCHANGED <<setup, feature, mcp, world, sessions, calls, running>>

LEMMA BodyIs == Body => StatementStep \/ FeatureEnds \/ StatementBegins \/ StatementRefused
<1>1. ASSUME NEW good \in BOOLEAN, NEW exhausts \in BOOLEAN, Statement(good, exhausts) PROVE StatementStep
  BY <1>1 DEF Statement, StatementStep
<1>2. ASSUME IsListening PROVE StatementStep
  BY <1>2 DEF IsListening, StatementStep
<1>3. ASSUME ServeMcpTools PROVE StatementStep
  BY <1>3 DEF ServeMcpTools, StatementStep
<1>4. ASSUME NEW p \in setup.paths, MountFails(p) PROVE StatementStep
  BY <1>4 DEF MountFails, StatementStep
<1>5. ASSUME NEW p \in setup.paths, NEW f \in Folder, NEW index \in BOOLEAN, Mount(p, f, index) PROVE StatementStep
  BY <1>5 DEF Mount, StatementStep
<1>6. QED
  BY <1>1, <1>2, <1>3, <1>4, <1>5 DEF Body

\* A statement that is refused fails the feature it is of.
LEMMA RefusalFacts ==
  ASSUME Types, StatementRefused
  PROVE  /\ phase = "body" /\ phase' = "closing" /\ ok' = FALSE
         /\ verdicts' \in Seq(BOOLEAN) /\ DOMAIN verdicts' = 1..Len(verdicts) + 1 /\ Len(verdicts') = Len(verdicts) + 1
         /\ \A f \in 1..Len(verdicts) : verdicts'[f] = verdicts[f]
         /\ ~verdicts'[Len(verdicts) + 1]
<1> DEFINE no == FALSE
<1>1. no \in BOOLEAN /\ verdicts \in Seq(BOOLEAN) /\ verdicts' = Append(verdicts, no)
  BY DEF StatementRefused, Fails, Types
<1>2. no = FALSE
  OBVIOUS
<1> HIDE DEF no
<1>3. /\ verdicts' \in Seq(BOOLEAN) /\ DOMAIN verdicts' = 1..Len(verdicts) + 1 /\ Len(verdicts') = Len(verdicts) + 1
      /\ \A f \in 1..Len(verdicts) : verdicts'[f] = verdicts[f]
      /\ verdicts'[Len(verdicts) + 1] = no
  BY <1>1, AppendProperties
<1>4. QED
  BY <1>2, <1>3 DEF StatementRefused, Fails, InBody

-----------------------------------------------------------------------------
(* Every action keeps each part of the invariant.                           *)

LEMMA InitHolds == Init => IInv
<1> SUFFICES ASSUME Init PROVE IInv
  OBVIOUS
<1>1. setup.features \in Nat \ {0} /\ setup \in Setups
  BY WebServerAssumption DEF Init
<1>2. Types
  <2>1. [c \in Everyone |-> Idle] \in [Everyone -> [feature : Nat, world : Nat]]
    BY DEF Idle
  <2>2. [server |-> FALSE, route |-> 0] \in [server : BOOLEAN, route : Nat]
    OBVIOUS
  <2>3. QED
    BY <1>1, <2>1, <2>2 DEF Init, Types
<1>3. PhaseInv
  BY <1>1 DEF Init, PhaseInv, Before
<1>4. PortsInv /\ OnePortInv /\ MountsInv
  BY DEF Init, PortsInv, OnePortInv, MountsInv
<1>5. SessionsInv
  BY DEF Init, SessionsInv, Everyone
<1>6. RunningInv
  BY DEF Init, RunningInv
<1>7. ResultsInv
  BY DEF Init, ResultsInv
<1>8. QED
  BY <1>2, <1>3, <1>4, <1>5, <1>6, <1>7 DEF IInv

\* The servers, whatever a step does to them.
LEMMA ServersTyped ==
  IInv /\ Next => /\ servers' \in Seq(ServerType)
                  /\ WebStartsFeature => Len(servers') = Len(servers) + 1
                  /\ WebStartsFeature \/ Len(servers') = Len(servers)
<1> SUFFICES ASSUME IInv, Next
             PROVE  /\ servers' \in Seq(ServerType)
                    /\ WebStartsFeature => Len(servers') = Len(servers) + 1
                    /\ WebStartsFeature \/ Len(servers') = Len(servers)
  OBVIOUS
<1> DEFINE Kept == servers' \in Seq(ServerType) /\ Len(servers') = Len(servers)
<1>1. /\ servers \in Seq(ServerType) /\ feature \in Nat \ {0}
      /\ setup.web \in Nat \ {0} /\ setup.mcp \in Nat \ {0} /\ setup.paths \subseteq Path
      /\ Len(servers) \in Nat
  BY SetupFacts DEF IInv, Types
<1>2. phase \in {"mcp", "body", "closing"} => feature \in 1..Len(servers)
  BY <1>1 DEF IInv, PhaseInv
<1>3. ASSUME UNCHANGED servers PROVE Kept
  BY <1>1, <1>3
<1>4. ASSUME WebStartsFeature
      PROVE  servers' \in Seq(ServerType) /\ Len(servers') = Len(servers) + 1
  <2> DEFINE v == [port |-> 0, routes |-> <<>>, mounted |-> <<>>]
  <2>1. v \in ServerType
    BY NothingMounted DEF ServerType
  <2>2. servers' = Append(servers, v)
    BY <1>4 DEF WebStartsFeature
  <2> HIDE DEF v
  <2>3. QED
    BY <1>1, <1>4, <2>1, <2>2, AppendProperties
<1>5. ASSUME Hooks, ~WebStartsFeature PROVE Kept
  <2>1. CASE McpStartsFeature
    <3>1. CASE Listened(feature, setup.mcp)
      BY <1>1, <1>2, <2>1, <3>1, ServerListens DEF McpStartsFeature
    <3>2. CASE UNCHANGED ports
      BY <1>3, <3>2 DEF ports
    <3>3. QED
      BY <2>1, <3>1, <3>2 DEF McpStartsFeature
  <2>2. ASSUME NEW shouldClose \in BOOLEAN, WebEndsFeature(shouldClose)
        PROVE Kept
    <3>1. CASE Closed(feature) /\ servers[feature].port # 0
      BY <1>1, <1>2, <2>2, <3>1, ServerCloses DEF WebEndsFeature
    <3>2. CASE UNCHANGED ports
      BY <1>3, <3>2 DEF ports
    <3>3. QED
      BY <2>2, <3>1, <3>2 DEF WebEndsFeature, Closed
  <2>3. CASE SetWorld \/ McpEndsFeature \/ NextFeature
    BY <1>3, <2>3 DEF SetWorld, McpEndsFeature, NextFeature, ports
  <2>5. QED
    BY <1>5, <2>1, <2>2, <2>3 DEF Hooks
<1>6. ASSUME Body PROVE Kept
  <2>1. CASE IsListening
    <3>1. CASE Listened(feature, setup.web)
      BY <1>1, <1>2, <2>1, <3>1, ServerListens DEF IsListening, StatementEnds, InBody
    <3>2. CASE UNCHANGED ports
      BY <1>3, <3>2 DEF ports
    <3>3. QED
      BY <2>1, <3>1, <3>2 DEF IsListening
  <2>2. ASSUME NEW p \in setup.paths, NEW f \in Folder, NEW index \in BOOLEAN, Mount(p, f, index)
        PROVE Kept
    <3> DEFINE r == [at |-> p, folder |-> f, index |-> index]
    <3>1. r \in Route /\ p \in Path /\ feature \in 1..Len(servers)
      BY <1>1, <1>2, <2>2 DEF Mount, InBody, Route
    <3>2. servers' = [servers EXCEPT ![feature].routes = Append(@, r), ![feature].mounted = With(@, p, f)]
      BY <2>2 DEF Mount
    <3> HIDE DEF r
    <3>3. FolderAdded(feature, p, f, r)
      BY <1>1, <3>1, <3>2, ServerMounts
    <3>4. QED
      BY <3>3 DEF FolderAdded
  <2>3. ASSUME NEW p \in setup.paths, MountFails(p) PROVE UNCHANGED servers
    BY <2>3 DEF MountFails, ports
  <2>4. ASSUME NEW good \in BOOLEAN, NEW exhausts \in BOOLEAN, Statement(good, exhausts) PROVE UNCHANGED servers
    BY <2>4 DEF Statement, ports
  <2>5. CASE ServeMcpTools \/ FeatureEnds \/ StatementBegins \/ StatementRefused
    BY <1>3, <2>5 DEF ServeMcpTools, FeatureEnds, StatementBegins, StatementRefused, ports
  <2>6. QED
    BY <1>3, <1>6, <2>1, <2>2, <2>3, <2>4, <2>5 DEF Body
<1>7. ASSUME Requests \/ Over PROVE Kept
  BY <1>3, <1>7 DEF Requests, Access, CallTool, CallEnds, CallThrows, Over, vars, ports
<1>8. QED
  BY <1>4, <1>5, <1>6, <1>7 DEF Next

LEMMA StepTypes == IInv /\ [Next]_vars => Types'
<1> SUFFICES ASSUME IInv, [Next]_vars PROVE Types'
  OBVIOUS
<1>0. Types /\ PhaseInv /\ RunningInv /\ setup.features \in Nat \ {0}
  BY SetupFacts DEF IInv
<1>1. CASE UNCHANGED vars
  BY <1>0, <1>1 DEF Types, vars, ports, sessions
<1>2. ASSUME Next PROVE servers' \in Seq(ServerType)
  BY <1>2, ServersTyped
<1>3. CASE Hooks
  <2>1. servers' \in Seq(ServerType)
    BY <1>2, <1>3 DEF Next
  <2>2. CASE SetWorld
    BY <1>0, <2>1, <2>2 DEF SetWorld, Types, ports, sessions
  <2>3. CASE WebStartsFeature
    BY <1>0, <2>1, <2>3 DEF WebStartsFeature, Types, ports, sessions
  <2>4. CASE McpStartsFeature
    <3>1. mcp' \in [server : BOOLEAN, route : Nat]
      BY <1>0, <2>4 DEF McpStartsFeature, Types
    <3>2. <<>> \in Seq(Rec) /\ Append(lists, <<>>) \in Seq(Seq(Rec))
      BY <1>0, AppendProperties DEF Types
    <3>3. lists' \in Seq(Seq(Rec)) /\ ok' \in BOOLEAN
      BY <1>0, <2>4, <3>2 DEF McpStartsFeature, Begins, Types
    <3>4. QED
      BY <1>0, <2>1, <2>4, <3>1, <3>3 DEF McpStartsFeature, Types, sessions
  <2>5. ASSUME NEW shouldClose \in BOOLEAN, WebEndsFeature(shouldClose) PROVE Types'
    BY <1>0, <2>1, <2>5 DEF WebEndsFeature, Types, sessions
  <2>6. CASE McpEndsFeature
    BY <1>0, <2>1, <2>6 DEF McpEndsFeature, Types, ports, sessions
  <2>7. CASE NextFeature
    BY <1>0, <2>1, <2>7 DEF NextFeature, Types, ports, sessions
  <2>8. QED
    BY <1>3, <2>2, <2>3, <2>4, <2>5, <2>6, <2>7 DEF Hooks
<1>4. CASE Body
  <2>1. servers' \in Seq(ServerType)
    BY <1>2, <1>4 DEF Next
  <2>2. CASE StatementStep
    <3>1. PICK good \in BOOLEAN, exhausts \in BOOLEAN :
            StatementEnds(good, exhausts) /\ UNCHANGED <<setup, feature, mcp, world, sessions, calls, running>>
      BY <2>2 DEF StatementStep
    <3>2. lists' \in Seq(Seq(Rec)) /\ steps' \in Seq(Rec) /\ ok' \in BOOLEAN /\ verdicts' \in Seq(BOOLEAN)
      BY <1>0, <3>1, StatementFacts
    <3>3. QED
      BY <1>0, <2>1, <3>1, <3>2 DEF Types, sessions
  <2>3. CASE FeatureEnds
    <3>1. verdicts' \in Seq(BOOLEAN)
      BY <1>0, <2>3, AppendProperties DEF FeatureEnds, Types
    <3>2. QED
      BY <1>0, <2>1, <2>3, <3>1 DEF FeatureEnds, Types, ports, sessions
  <2>4. CASE StatementBegins
    BY <1>0, <2>1, <2>4 DEF StatementBegins, Types, ports, sessions
  <2>5. CASE StatementRefused
    <3>1. verdicts' \in Seq(BOOLEAN) /\ ok' \in BOOLEAN
      BY <1>0, <2>5, RefusalFacts DEF Types
    <3>2. QED
      BY <1>0, <2>1, <2>5, <3>1 DEF StatementRefused, Types, ports, sessions
  <2>6. QED
    BY <1>4, <2>2, <2>3, <2>4, <2>5, BodyIs
<1>5. CASE Requests
  <2>1. servers' \in Seq(ServerType)
    BY <1>2, <1>5 DEF Next
  <2>2. ASSUME NEW c \in Everyone, NEW s \in Stepper \cup {"index"}, UpdateSessionFocus(c, s)
        PROVE focus' \in [Everyone -> Stepper \cup {"index"}]
    BY <1>0, <2>2 DEF UpdateSessionFocus, Types
  <2>3. ASSUME NEW c \in Everyone, NEW s \in Stepper \cup {"index"}, Access(c, s) PROVE Types'
    BY <1>0, <2>1, <2>2, <2>3 DEF Access, Types, ports
  <2>4. ASSUME NEW c \in Everyone, NEW s \in Stepper, CallTool(c, s) PROVE Types'
    <3>1. running' \in [Everyone -> [feature : Nat, world : Nat]]
      BY <1>0, <2>4 DEF CallTool, CallWorld, Types
    <3>2. focus' \in [Everyone -> Stepper \cup {"index"}]
      BY <1>0, <2>2, <2>4 DEF CallTool, Types, sessions
    <3>3. QED
      BY <1>0, <2>1, <2>4, <3>1, <3>2 DEF CallTool, Types, ports
  <2>5. ASSUME NEW c \in Everyone, NEW good \in BOOLEAN, NEW exhausts \in BOOLEAN, CallEnds(c, good, exhausts) PROVE Types'
    <3>1. lists' \in Seq(Seq(Rec))
      BY <1>0, <2>5, CallFacts
    <3>2. Idle \in [feature : Nat, world : Nat]
      BY DEF Idle
    <3>3. running' \in [Everyone -> [feature : Nat, world : Nat]]
      BY <1>0, <2>5, <3>2 DEF CallEnds, Types
    <3>4. QED
      BY <1>0, <2>1, <2>5, <3>1, <3>3 DEF CallEnds, Types, ports, sessions
  <2>6. ASSUME NEW c \in Everyone, CallThrows(c) PROVE Types'
    <3>1. Idle \in [feature : Nat, world : Nat]
      BY DEF Idle
    <3>2. running' \in [Everyone -> [feature : Nat, world : Nat]]
      BY <1>0, <2>6, <3>1 DEF CallThrows, Types
    <3>3. QED
      BY <1>0, <2>1, <2>6, <3>2 DEF CallThrows, Types, ports, sessions
  <2>7. QED
    BY <1>5, <2>3, <2>4, <2>5, <2>6 DEF Requests
<1>6. QED
  BY <1>1, <1>3, <1>4, <1>5 DEF Next, Over

LEMMA StepPhase == IInv /\ [Next]_vars => PhaseInv'
<1> SUFFICES ASSUME IInv, [Next]_vars PROVE PhaseInv'
  OBVIOUS
<1>0. /\ Types /\ PhaseInv /\ RunningInv /\ feature \in Nat \ {0}
      /\ Len(servers) \in Nat /\ Len(lists) \in Nat /\ Len(verdicts) \in Nat
      /\ lists \in Seq(Seq(Rec)) /\ verdicts \in Seq(BOOLEAN)
  BY SetupFacts DEF IInv, Types
<1>1. CASE UNCHANGED vars
  BY <1>0, <1>1 DEF PhaseInv, vars, ports, sessions, halting
<1>2. ASSUME Next
      PROVE  /\ WebStartsFeature => Len(servers') = Len(servers) + 1
             /\ WebStartsFeature \/ Len(servers') = Len(servers)
  BY <1>2, ServersTyped
<1>3. CASE Hooks
  <2>1. /\ WebStartsFeature => Len(servers') = Len(servers) + 1
        /\ WebStartsFeature \/ Len(servers') = Len(servers)
    BY <1>2, <1>3 DEF Next
  <2>2. CASE SetWorld
    BY <1>0, <2>2 DEF SetWorld, PhaseInv, Before, ports
  <2>3. CASE WebStartsFeature
    BY <1>0, <2>1, <2>3 DEF WebStartsFeature, PhaseInv, Before, halting
  <2>4. CASE McpStartsFeature
    <3>1. Len(servers') = Len(servers) /\ phase = "mcp"
      BY <2>1, <2>4 DEF McpStartsFeature, WebStartsFeature
    <3>2. <<>> \in Seq(Rec)
      OBVIOUS
    <3>3. Len(Append(lists, <<>>)) = Len(lists) + 1
      BY <1>0, <3>2, AppendProperties
    <3>4. CASE Begins
      BY <1>0, <2>4, <3>1, <3>3, <3>4 DEF McpStartsFeature, Begins, PhaseInv, Before, halting
    <3>5. CASE phase' = "failed" /\ UNCHANGED <<ports, ok, lists>>
      BY <1>0, <2>4, <3>1, <3>5 DEF McpStartsFeature, PhaseInv, Before, halting
    <3>6. QED
      BY <2>4, <3>4, <3>5 DEF McpStartsFeature
  <2>5. ASSUME NEW shouldClose \in BOOLEAN, WebEndsFeature(shouldClose) PROVE PhaseInv'
    <3>1. Len(servers') = Len(servers)
      BY <2>1, <2>5 DEF WebEndsFeature, WebStartsFeature
    <3>2. QED
      BY <1>0, <2>5, <3>1 DEF WebEndsFeature, PhaseInv, Before, halting
  <2>6. CASE McpEndsFeature
    BY <1>0, <2>6 DEF McpEndsFeature, PhaseInv, Before, ports, Types, halting
  <2>7. CASE NextFeature
    BY <1>0, <2>7 DEF NextFeature, PhaseInv, Before, ports, halting
  <2>8. QED
    BY <1>3, <2>2, <2>3, <2>4, <2>5, <2>6, <2>7 DEF Hooks
<1>4. CASE Body
  <2>1. CASE StatementStep
    <3>1. PICK good \in BOOLEAN, exhausts \in BOOLEAN :
            StatementEnds(good, exhausts) /\ UNCHANGED <<setup, feature, mcp, world, sessions, calls, running>>
      BY <2>1 DEF StatementStep
    <3>2. Len(servers') = Len(servers)
      BY <1>2, <1>4, <3>1 DEF Next, WebStartsFeature, StatementEnds, InBody
    <3>3. /\ phase = "body" /\ Len(lists') = Len(lists)
          /\ ok' \in BOOLEAN /\ halted' = halted
          /\ ok' => phase' = "body" /\ verdicts' = verdicts
          /\ ~ok' => phase' = "closing" /\ verdicts' = Append(verdicts, FALSE)
      BY <1>0, <3>1, StatementFacts
    <3>4. Len(Append(verdicts, FALSE)) = Len(verdicts) + 1 /\ DOMAIN verdicts \subseteq DOMAIN Append(verdicts, FALSE)
      BY <1>0, AppendProperties
    <3>5. CASE ok'
      BY <1>0, <3>1, <3>2, <3>3, <3>5 DEF PhaseInv, Before
    <3>6. CASE ~ok'
      BY <1>0, <3>1, <3>2, <3>3, <3>4, <3>6 DEF PhaseInv, Before
    <3>7. QED
      BY <3>5, <3>6
  <2>2. CASE FeatureEnds
    <3>1. Len(Append(verdicts, ok)) = Len(verdicts) + 1 /\ DOMAIN verdicts \subseteq DOMAIN Append(verdicts, ok)
      BY <1>0, AppendProperties DEF Types
    <3>2. QED
      BY <1>0, <2>2, <3>1 DEF FeatureEnds, PhaseInv, Before, ports, halting
  <2>3. CASE StatementBegins
    BY <1>0, <2>3 DEF StatementBegins, InBody, PhaseInv, Before, ports
  <2>4. CASE StatementRefused
    <3>1. phase = "body" /\ Len(verdicts) = feature - 1
      BY <1>0, <2>4 DEF StatementRefused, InBody, PhaseInv, Before
    <3>2. phase' = "closing" /\ DOMAIN verdicts' = 1..feature /\ Len(verdicts') = feature
      <4>1. /\ phase' = "closing" /\ DOMAIN verdicts' = 1..Len(verdicts) + 1
            /\ Len(verdicts') = Len(verdicts) + 1
        BY <1>0, <2>4, RefusalFacts
      <4>2. QED
        BY <1>0, <3>1, <4>1
    <3>3. halted' \subseteq DOMAIN verdicts'
      BY <1>0, <2>4, <3>1, <3>2 DEF StatementRefused, PhaseInv
    <3>4. QED
      BY <1>0, <2>4, <3>1, <3>2, <3>3 DEF StatementRefused, PhaseInv, Before, ports
  <2>5. QED
    BY <1>4, <2>1, <2>2, <2>3, <2>4, BodyIs
<1>5. CASE Requests
  <2>1. ASSUME NEW c \in Everyone, NEW s \in Stepper \cup {"index"}, Access(c, s) PROVE PhaseInv'
    BY <1>0, <2>1 DEF Access, PhaseInv, ports, halting
  <2>2. ASSUME NEW c \in Everyone, NEW s \in Stepper, CallTool(c, s) PROVE PhaseInv'
    BY <1>0, <2>2 DEF CallTool, PhaseInv, ports, halting
  <2>3. ASSUME NEW c \in Everyone, NEW good \in BOOLEAN, NEW exhausts \in BOOLEAN, CallEnds(c, good, exhausts) PROVE PhaseInv'
    <3>1. Len(lists') = Len(lists)
      BY <1>0, <2>3, CallFacts
    <3>2. QED
      BY <1>0, <2>3, <3>1 DEF CallEnds, PhaseInv, ports
  <2>4. ASSUME NEW c \in Everyone, CallThrows(c) PROVE PhaseInv'
    BY <1>0, <2>4 DEF CallThrows, PhaseInv, ports, halting
  <2>5. QED
    BY <1>5, <2>1, <2>2, <2>3, <2>4 DEF Requests
<1>6. QED
  BY <1>1, <1>3, <1>4, <1>5 DEF Next, Over

\* A port that is free is taken by one server alone.
LEMMA ListeningKeepsPorts ==
  ASSUME servers \in Seq(ServerType), PortsInv, UNCHANGED setup, lists' # <<>>,
         NEW n \in 1..Len(servers), NEW port \in {setup.web, setup.mcp}, port \in Nat, port \notin listening,
         Listened(n, port)
  PROVE  PortsInv'
<1>1. /\ Len(servers') = Len(servers) /\ servers' \in Seq(ServerType)
      /\ servers'[n].port = port
      /\ \A k \in 1..Len(servers) : k # n => servers'[k] = servers[k]
  BY ServerListens
<1>2. DOMAIN servers' = 1..Len(servers) /\ DOMAIN servers = 1..Len(servers)
  BY <1>1
<1>3. sockets' = sockets \cup {<<port, n>>} /\ listening' = listening \cup {port}
  BY DEF Listened, WithPort
<1>4. listening' = {s[1] : s \in sockets'}
  <2> DEFINE new == <<port, n>>
  <2>1. new[1] = port /\ sockets' = sockets \cup {new}
    BY <1>3
  <2> HIDE DEF new
  <2>2. ASSUME NEW x \in listening' PROVE \E s \in sockets' : x = s[1]
    BY <1>3, <2>1, <2>2 DEF PortsInv
  <2>3. ASSUME NEW s \in sockets' PROVE s[1] \in listening'
    BY <1>3, <2>1, <2>3 DEF PortsInv
  <2>4. QED
    BY <2>2, <2>3
<1>5. sockets' \subseteq {setup'.web, setup'.mcp} \X DOMAIN servers'
  BY <1>2, <1>3 DEF PortsInv
<1>6. ASSUME NEW s \in sockets', NEW t \in sockets', s[1] = t[1] PROVE s = t
  <2>1. \A u \in sockets : u[1] # port
    BY DEF PortsInv
  <2>2. QED
    BY <1>3, <1>6, <2>1 DEF PortsInv
<1>7. ASSUME NEW k \in DOMAIN servers', servers'[k].port # 0 PROVE <<servers'[k].port, k>> \in sockets'
  BY <1>1, <1>2, <1>3, <1>7 DEF PortsInv
<1>8. QED
  BY <1>4, <1>5, <1>6, <1>7 DEF PortsInv

\* A port that is closed is one that its server has, and no other.
LEMMA ClosingKeepsPorts ==
  ASSUME servers \in Seq(ServerType), PortsInv, UNCHANGED <<setup, lists>>,
         NEW n \in 1..Len(servers), servers[n].port # 0, Closed(n)
  PROVE  /\ PortsInv'
         /\ sockets' = sockets \ {<<servers[n].port, n>>}
         /\ <<servers[n].port, n>> \in sockets
<1> DEFINE port == servers[n].port
           closed == <<port, n>>
<1>1. /\ Len(servers') = Len(servers) /\ servers' \in Seq(ServerType)
      /\ servers'[n].port = 0
      /\ \A k \in 1..Len(servers) : k # n => servers'[k] = servers[k]
  BY ServerCloses
<1>2. DOMAIN servers' = 1..Len(servers) /\ DOMAIN servers = 1..Len(servers)
  BY <1>1
<1>3. sockets' = sockets \ {closed} /\ listening' = listening \ {port} /\ closed \in sockets
  BY <1>2 DEF Closed, WithoutPort, PortsInv
<1>4. closed[1] = port
  OBVIOUS
<1> HIDE DEF closed, port
<1>5. \A s \in sockets : s[1] = port <=> s = closed
  BY <1>3, <1>4 DEF PortsInv
<1>6. listening' = {s[1] : s \in sockets'}
  BY <1>3, <1>5 DEF PortsInv
<1>7. sockets' \subseteq {setup'.web, setup'.mcp} \X DOMAIN servers'
  BY <1>2, <1>3 DEF PortsInv
<1>8. \A s, t \in sockets' : s[1] = t[1] => s = t
  BY <1>3 DEF PortsInv
<1>9. ASSUME NEW k \in DOMAIN servers', servers'[k].port # 0 PROVE <<servers'[k].port, k>> \in sockets'
  <2>1. k # n /\ servers'[k] = servers[k] /\ k \in DOMAIN servers
    BY <1>1, <1>2, <1>9
  <2>2. <<servers[k].port, k>> \in sockets
    BY <1>9, <2>1 DEF PortsInv
  <2>3. <<servers[k].port, k>> # closed
    BY <2>1 DEF closed
  <2>4. QED
    BY <1>3, <2>1, <2>2, <2>3
<1>10. sockets' # {} => lists' # <<>>
  BY <1>3 DEF PortsInv
<1>11. QED
  BY <1>3, <1>6, <1>7, <1>8, <1>9, <1>10 DEF PortsInv, closed, port

LEMMA StepPorts == IInv /\ [Next]_vars => PortsInv'
<1> SUFFICES ASSUME IInv, [Next]_vars PROVE PortsInv'
  OBVIOUS
<1>0. /\ Types /\ PhaseInv /\ RunningInv /\ PortsInv /\ feature \in Nat \ {0}
      /\ servers \in Seq(ServerType) /\ Len(servers) \in Nat /\ Len(lists) \in Nat
      /\ lists \in Seq(Seq(Rec)) /\ setup.web \in Nat \ {0} /\ setup.mcp \in Nat \ {0}
  BY SetupFacts DEF IInv, Types
<1>1. phase \in {"mcp", "body", "closing"} => feature \in 1..Len(servers)
  BY <1>0 DEF PhaseInv
<1>2. ASSUME UNCHANGED <<setup, ports>>, lists # <<>> => lists' # <<>> PROVE PortsInv'
  BY <1>0, <1>2 DEF PortsInv, ports
<1>3. ASSUME NEW good \in BOOLEAN, NEW exhausts \in BOOLEAN, StatementEnds(good, exhausts) PROVE lists' # <<>>
  <2>1. Len(lists') = Len(lists) /\ feature = Len(lists) /\ lists' \in Seq(Seq(Rec))
    BY <1>0, <1>3, StatementFacts
  <2>2. QED
    BY <1>0, <2>1
<1>4. CASE UNCHANGED vars
  BY <1>2, <1>4 DEF vars
<1>5. CASE Hooks
  <2>1. CASE SetWorld \/ McpEndsFeature \/ NextFeature
    BY <1>2, <2>1 DEF SetWorld, McpEndsFeature, NextFeature
  <2>2. CASE WebStartsFeature
    <3> DEFINE v == [port |-> 0, routes |-> <<>>, mounted |-> <<>>]
    <3>1. v \in ServerType /\ v.port = 0
      BY NothingMounted DEF ServerType
    <3>2. servers' = Append(servers, v) /\ UNCHANGED <<setup, sockets, listening, lists>>
      BY <2>2 DEF WebStartsFeature
    <3> HIDE DEF v
    <3>3. /\ DOMAIN servers' = 1..Len(servers) + 1 /\ DOMAIN servers = 1..Len(servers)
          /\ \A k \in 1..Len(servers) : servers'[k] = servers[k]
          /\ servers'[Len(servers) + 1] = v
      BY <1>0, <3>1, <3>2, AppendProperties
    <3>4. ASSUME NEW k \in DOMAIN servers', servers'[k].port # 0 PROVE <<servers'[k].port, k>> \in sockets'
      BY <1>0, <3>1, <3>2, <3>3, <3>4 DEF PortsInv
    <3>5. sockets' \subseteq {setup'.web, setup'.mcp} \X DOMAIN servers'
      <4>1. DOMAIN servers \subseteq DOMAIN servers'
        BY <1>0, <3>3
      <4>2. QED
        BY <1>0, <3>2, <4>1 DEF PortsInv
    <3>6. QED
      BY <1>0, <3>2, <3>4, <3>5 DEF PortsInv
  <2>3. CASE McpStartsFeature
    <3>1. CASE setup.mcp \in listening
      BY <1>2, <2>3, <3>1 DEF McpStartsFeature
    <3>2. CASE setup.mcp \notin listening
      <4>1. lists' # <<>>
        <5>1. <<>> \in Seq(Rec)
          OBVIOUS
        <5>2. QED
          BY <1>0, <2>3, <3>2, <5>1, AppendProperties DEF McpStartsFeature, Begins
      <4>2. UNCHANGED setup /\ Listened(feature, setup.mcp) /\ feature \in 1..Len(servers)
        BY <1>1, <2>3, <3>2 DEF McpStartsFeature
      <4>3. QED
        BY <1>0, <3>2, <4>1, <4>2, ListeningKeepsPorts
    <3>3. QED
      BY <3>1, <3>2
  <2>4. ASSUME NEW shouldClose \in BOOLEAN, WebEndsFeature(shouldClose) PROVE PortsInv'
    <3>1. CASE Closed(feature) /\ servers[feature].port # 0
      BY <1>0, <1>1, <2>4, <3>1, ClosingKeepsPorts DEF WebEndsFeature
    <3>2. CASE UNCHANGED ports
      BY <1>2, <2>4, <3>2 DEF WebEndsFeature
    <3>3. QED
      BY <2>4, <3>1, <3>2 DEF WebEndsFeature, Closed
  <2>5. QED
    BY <1>5, <2>1, <2>2, <2>3, <2>4 DEF Hooks
<1>6. CASE Body
  <2>1. CASE IsListening
    <3>1. lists' # <<>> /\ UNCHANGED setup /\ feature \in 1..Len(servers)
      BY <1>1, <1>3, <2>1 DEF IsListening, StatementEnds, InBody
    <3>2. CASE setup.web \in listening
      BY <1>2, <2>1, <3>1, <3>2 DEF IsListening
    <3>3. CASE setup.web \notin listening
      BY <1>0, <2>1, <3>1, <3>3, ListeningKeepsPorts DEF IsListening
    <3>4. QED
      BY <3>2, <3>3
  <2>2. ASSUME NEW p \in setup.paths, NEW f \in Folder, NEW index \in BOOLEAN, Mount(p, f, index) PROVE PortsInv'
    <3> DEFINE r == [at |-> p, folder |-> f, index |-> index]
    <3>1. lists' # <<>> /\ UNCHANGED <<setup, sockets, listening>> /\ feature \in 1..Len(servers)
      BY <1>1, <1>3, <2>2 DEF Mount, StatementEnds, InBody
    <3>2. p \in Path /\ r \in Route
      BY <1>0, <2>2, SetupFacts DEF Mount, Route
    <3>0. servers' = [servers EXCEPT ![feature].routes = Append(@, r), ![feature].mounted = With(@, p, f)]
      BY <2>2 DEF Mount
    <3> HIDE DEF r
    <3>3. /\ servers' \in Seq(ServerType) /\ Len(servers') = Len(servers)
          /\ servers'[feature].port = servers[feature].port
          /\ \A k \in 1..Len(servers) : k # feature => servers'[k] = servers[k]
      BY <1>0, <3>0, <3>1, <3>2, ServerMounts DEF FolderAdded
    <3>4. DOMAIN servers' = DOMAIN servers /\ \A k \in DOMAIN servers : servers'[k].port = servers[k].port
      BY <1>0, <3>1, <3>3
    <3>5. QED
      BY <1>0, <3>1, <3>4 DEF PortsInv
  <2>3. ASSUME NEW p \in setup.paths, MountFails(p) PROVE PortsInv'
    BY <1>2, <1>3, <2>3 DEF MountFails
  <2>4. ASSUME NEW good \in BOOLEAN, NEW exhausts \in BOOLEAN, Statement(good, exhausts) PROVE PortsInv'
    BY <1>2, <1>3, <2>4 DEF Statement
  <2>5. CASE ServeMcpTools \/ FeatureEnds \/ StatementBegins \/ StatementRefused
    BY <1>2, <1>3, <2>5 DEF ServeMcpTools, FeatureEnds, StatementBegins, StatementRefused
  <2>6. QED
    BY <1>6, <2>1, <2>2, <2>3, <2>4, <2>5 DEF Body
<1>7. CASE Requests
  <2>1. ASSUME NEW c \in Everyone, NEW s \in Stepper \cup {"index"}, Access(c, s) PROVE PortsInv'
    BY <1>2, <2>1 DEF Access
  <2>2. ASSUME NEW c \in Everyone, NEW s \in Stepper, CallTool(c, s) PROVE PortsInv'
    BY <1>2, <2>2 DEF CallTool
  <2>3. ASSUME NEW c \in Everyone, NEW good \in BOOLEAN, NEW exhausts \in BOOLEAN, CallEnds(c, good, exhausts) PROVE PortsInv'
    <3>1. Len(lists') = Len(lists) /\ lists' \in Seq(Seq(Rec)) /\ Len(lists) \in Nat \ {0}
      BY <1>0, <2>3, CallFacts
    <3>2. lists' # <<>>
      BY <3>1
    <3>3. QED
      BY <1>2, <2>3, <3>2 DEF CallEnds
  <2>4. ASSUME NEW c \in Everyone, CallThrows(c) PROVE PortsInv'
    BY <1>2, <2>4 DEF CallThrows
  <2>5. QED
    BY <1>7, <2>1, <2>2, <2>3, <2>4 DEF Requests
<1>8. QED
  BY <1>4, <1>5, <1>6, <1>7 DEF Next, Over

LEMMA StepOnePort == IInv /\ [Next]_vars => OnePortInv'
<1> SUFFICES ASSUME IInv, [Next]_vars, setup'.web = setup'.mcp
             PROVE  /\ phase' \in {"world", "web", "mcp", "closingMcp", "ended"} => sockets' = {}
                    /\ phase' \in {"body", "closing"} => servers'[feature'].port = setup'.mcp
                    /\ phase' # "failed"
  BY DEF OnePortInv
<1>0. /\ Types /\ PhaseInv /\ PortsInv /\ OnePortInv /\ feature \in Nat \ {0}
      /\ servers \in Seq(ServerType) /\ Len(servers) \in Nat
      /\ setup.web \in Nat \ {0} /\ setup.mcp \in Nat \ {0}
  BY SetupFacts DEF IInv, Types
<1>1. phase \in {"mcp", "body", "closing"} => feature \in 1..Len(servers)
  BY <1>0 DEF PhaseInv
<1>2. setup' = setup /\ setup.web = setup.mcp
  BY DEF Next, Hooks, SetWorld, WebStartsFeature, McpStartsFeature, WebEndsFeature, McpEndsFeature, NextFeature,
         Body, Statement, IsListening, ServeMcpTools, FeatureEnds, MountFails, Mount, StatementBegins, StatementRefused,
         Requests, Access, CallTool, CallEnds, CallThrows, Over, vars
<1>3. CASE UNCHANGED <<phase, feature, ports>>
  BY <1>0, <1>2, <1>3 DEF OnePortInv, ports
<1>4. phase \in {"body", "closing"} => <<setup.mcp, feature>> \in sockets /\ servers[feature].port = setup.mcp
  BY <1>0, <1>1, <1>2 DEF OnePortInv, PortsInv
<1>5. CASE Hooks
  <2>1. CASE SetWorld \/ McpEndsFeature \/ NextFeature
    BY <1>0, <1>2, <2>1 DEF SetWorld, McpEndsFeature, NextFeature, OnePortInv, ports
  <2>2. CASE WebStartsFeature
    BY <1>0, <1>2, <2>2 DEF WebStartsFeature, OnePortInv
  <2>3. CASE McpStartsFeature
    <3>1. setup.mcp \notin listening
      BY <1>0, <1>2, <2>3 DEF McpStartsFeature, OnePortInv, PortsInv
    <3>2. Listened(feature, setup.mcp) /\ phase' = "body" /\ feature' = feature /\ feature \in 1..Len(servers)
      BY <1>1, <2>3, <3>1 DEF McpStartsFeature, Begins
    <3>3. servers'[feature].port = setup.mcp
      BY <1>0, <3>2, ServerListens
    <3>4. QED
      BY <1>2, <3>2, <3>3
  <2>4. ASSUME NEW shouldClose \in BOOLEAN, WebEndsFeature(shouldClose)
        PROVE  phase' \in {"closingMcp", "leavingMcp"} /\ (phase' = "closingMcp" => sockets' = {})
    <3>1. CASE shouldClose
      <4>1. Closed(feature) /\ phase = "closing" /\ phase' = "closingMcp" /\ feature \in 1..Len(servers) /\ UNCHANGED <<setup, lists>>
        BY <1>1, <2>4, <3>1 DEF WebEndsFeature
      <4>2. servers[feature].port = setup.mcp /\ servers[feature].port # 0
        BY <1>0, <1>4, <4>1
      <4>3. sockets' = sockets \ {<<setup.mcp, feature>>} /\ <<setup.mcp, feature>> \in sockets
        BY <1>0, <4>1, <4>2, ClosingKeepsPorts
      <4> DEFINE own == <<setup.mcp, feature>>
      <4>4. own[1] = setup.mcp /\ own \in sockets
        BY <4>3
      <4> HIDE DEF own
      <4>5. \A s \in sockets : s = own
        BY <1>0, <1>2, <4>4 DEF PortsInv
      <4>6. sockets' = {}
        BY <4>3, <4>5 DEF own
      <4>7. QED
        BY <4>1, <4>6
    <3>2. CASE ~shouldClose
      BY <2>4, <3>2 DEF WebEndsFeature
    <3>3. QED
      BY <3>1, <3>2
  <2>5. QED
    BY <1>5, <2>1, <2>2, <2>3, <2>4 DEF Hooks
<1>6. CASE StatementStep /\ Body
  <2>1. phase = "body" /\ phase' \in {"body", "closing"} /\ feature' = feature
    BY <1>6 DEF StatementStep, StatementEnds, InBody, Fails
  <2>2. ASSUME UNCHANGED ports PROVE servers'[feature].port = servers[feature].port
    BY <2>2 DEF ports
  <2>3. ASSUME IsListening PROVE UNCHANGED ports
    <3>1. <<setup.mcp, feature>>[1] = setup.mcp
      OBVIOUS
    <3>2. setup.web \in listening
      BY <1>0, <1>2, <1>4, <2>1, <3>1 DEF PortsInv
    <3>3. QED
      BY <2>3, <3>2 DEF IsListening
  <2>4. ASSUME NEW p \in setup.paths, NEW f \in Folder, NEW index \in BOOLEAN, Mount(p, f, index)
        PROVE  servers'[feature].port = servers[feature].port
    <3> DEFINE r == [at |-> p, folder |-> f, index |-> index]
    <3>1. p \in Path /\ r \in Route
      BY <1>0, <2>4, SetupFacts DEF Mount, Route
    <3>2. servers' = [servers EXCEPT ![feature].routes = Append(@, r), ![feature].mounted = With(@, p, f)]
      BY <2>4 DEF Mount
    <3> HIDE DEF r
    <3>3. QED
      BY <1>0, <1>1, <2>1, <3>1, <3>2, ServerMounts DEF FolderAdded
  <2>5. servers'[feature].port = servers[feature].port
    BY <1>6, <2>2, <2>3, <2>4 DEF Body, Statement, ServeMcpTools, FeatureEnds, MountFails, StatementBegins, StatementRefused
  <2>6. QED
    BY <1>2, <1>4, <2>1, <2>5
<1>7. CASE FeatureEnds \/ StatementBegins \/ StatementRefused
  BY <1>0, <1>2, <1>4, <1>7 DEF FeatureEnds, StatementBegins, StatementRefused, InBody, Fails, ports
<1>8. CASE Requests \/ Over \/ UNCHANGED vars
  BY <1>3, <1>8 DEF Requests, Access, CallTool, CallEnds, CallThrows, Over, vars
<1>9. QED
  BY <1>5, <1>6, <1>7, <1>8, BodyIs DEF Next

\* A path that is mounted nowhere has no route either, so its route is the first for it.
LEMMA MountingKeepsFirst ==
  ASSUME NEW v \in ServerType, NEW w \in ServerType, MountsOK(v), RoutesAreMounted(v),
         NEW p \in Path, NEW f \in Folder, p \notin DOMAIN v.mounted,
         NEW r \in Route, r.at = p, r.folder = f, w.routes = Append(v.routes, r),
         DOMAIN w.mounted = DOMAIN v.mounted \cup {p}, w.mounted[p] = f,
         \A q \in DOMAIN v.mounted : q # p => w.mounted[q] = v.mounted[q]
  PROVE  MountsOK(w) /\ RoutesAreMounted(w)
<1> DEFINE n == Len(v.routes)
<1>1. v.routes \in Seq(Route) /\ n \in Nat /\ DOMAIN v.routes = 1..n
  BY DEF ServerType
<1>2. /\ DOMAIN w.routes = 1..n + 1
      /\ \A i \in 1..n : w.routes[i] = v.routes[i]
      /\ w.routes[n + 1] = r
  BY <1>1, AppendProperties
<1>3. \A i \in 1..n : v.routes[i].at # p /\ v.routes[i].at \in DOMAIN v.mounted
  BY <1>1 DEF RoutesAreMounted
<1>4. RoutesAreMounted(w)
  BY <1>1, <1>2, <1>3 DEF RoutesAreMounted
<1>5. ASSUME NEW q \in DOMAIN w.mounted
      PROVE  \E i \in DOMAIN w.routes : /\ w.routes[i].at = q /\ w.routes[i].folder = w.mounted[q]
                                        /\ \A j \in 1..i - 1 : w.routes[j].at # q
  <2>1. CASE q = p
    <3>1. n + 1 \in DOMAIN w.routes /\ w.routes[n + 1].at = q /\ w.routes[n + 1].folder = w.mounted[q]
      BY <1>1, <1>2, <2>1
    <3>2. \A j \in 1..(n + 1) - 1 : w.routes[j].at # q
      BY <1>1, <1>2, <1>3, <2>1
    <3>3. QED
      BY <3>1, <3>2
  <2>2. CASE q # p
    <3>1. q \in DOMAIN v.mounted /\ w.mounted[q] = v.mounted[q]
      BY <2>2
    <3>2. PICK i \in DOMAIN v.routes : /\ v.routes[i].at = q /\ v.routes[i].folder = v.mounted[q]
                                       /\ \A j \in 1..i - 1 : v.routes[j].at # q
      BY <3>1 DEF MountsOK
    <3>3. i \in DOMAIN w.routes /\ w.routes[i].at = q /\ w.routes[i].folder = w.mounted[q]
      BY <1>1, <1>2, <3>1, <3>2
    <3>4. \A j \in 1..i - 1 : w.routes[j].at # q
      BY <1>1, <1>2, <3>2
    <3>5. QED
      BY <3>3, <3>4
  <2>3. QED
    BY <2>1, <2>2
<1>6. QED
  BY <1>4, <1>5 DEF MountsOK

LEMMA MountedIsFirst ==
  ASSUME servers \in Seq(ServerType), NEW n \in 1..Len(servers), NEW p \in Path, NEW f \in Folder,
         NEW r \in Route, r.at = p, r.folder = f,
         servers' = [servers EXCEPT ![n].routes = Append(@, r), ![n].mounted = With(@, p, f)],
         p \notin DOMAIN servers[n].mounted, MountsOK(servers[n]), RoutesAreMounted(servers[n])
  PROVE  /\ servers' \in Seq(ServerType) /\ Len(servers') = Len(servers)
         /\ MountsOK(servers'[n]) /\ RoutesAreMounted(servers'[n])
         /\ \A k \in 1..Len(servers) : k # n => servers'[k] = servers[k]
<1>1. FolderAdded(n, p, f, r)
  BY ServerMounts
<1>2. servers' \in Seq(ServerType) /\ Len(servers') = Len(servers)
  BY <1>1 DEF FolderAdded
<1>3. servers[n] \in ServerType /\ servers'[n] \in ServerType
  BY <1>2
<1>4. MountsOK(servers'[n]) /\ RoutesAreMounted(servers'[n])
  BY <1>1, <1>3, MountingKeepsFirst DEF FolderAdded
<1>5. QED
  BY <1>1, <1>4 DEF FolderAdded

LEMMA SameMounts ==
  ASSUME NEW v, NEW w, w.routes = v.routes, w.mounted = v.mounted, MountsOK(v)
  PROVE  MountsOK(w)
  BY DEF MountsOK

LEMMA StepMounts == IInv /\ [Next]_vars => MountsInv'
<1> SUFFICES ASSUME IInv, [Next]_vars PROVE MountsInv'
  OBVIOUS
<1>0. /\ Types /\ PhaseInv /\ MountsInv /\ feature \in Nat \ {0}
      /\ servers \in Seq(ServerType) /\ Len(servers) \in Nat /\ DOMAIN servers = 1..Len(servers)
      /\ setup.web \in Nat \ {0} /\ setup.mcp \in Nat \ {0} /\ setup.paths \subseteq Path
  BY SetupFacts DEF IInv, Types
<1>1. phase \in {"mcp", "body", "closing"} => feature \in 1..Len(servers)
  BY <1>0 DEF PhaseInv
<1>2. ASSUME UNCHANGED <<servers, feature>>, phase' # "mcp" \/ phase = "mcp", phase' # "body" \/ phase = "body"
      PROVE  MountsInv'
  BY <1>0, <1>2 DEF MountsInv
<1>3. ASSUME NEW n \in 1..Len(servers), NEW port \in Nat, Listened(n, port)
      PROVE  /\ servers' \in Seq(ServerType) /\ DOMAIN servers' = 1..Len(servers)
             /\ \A k \in 1..Len(servers) : MountsOK(servers'[k])
             /\ RoutesAreMounted(servers[n]) => RoutesAreMounted(servers'[n])
             /\ servers'[n].routes = servers[n].routes
  <2>1. /\ servers' \in Seq(ServerType) /\ Len(servers') = Len(servers)
        /\ servers'[n].routes = servers[n].routes /\ servers'[n].mounted = servers[n].mounted
        /\ \A k \in 1..Len(servers) : k # n => servers'[k] = servers[k]
    BY <1>0, <1>3, ServerListens
  <2>2. MountsOK(servers'[n])
    <3>1. MountsOK(servers[n])
      BY <1>0 DEF MountsInv
    <3>2. QED
      BY <2>1, <3>1, SameMounts, Zenon
  <2>3. \A k \in 1..Len(servers) : MountsOK(servers'[k])
    BY <1>0, <2>1, <2>2 DEF MountsInv
  <2>4. QED
    BY <1>0, <2>1, <2>3 DEF RoutesAreMounted
<1>4. CASE Hooks
  <2>1. CASE SetWorld \/ McpEndsFeature
    BY <1>2, <2>1 DEF SetWorld, McpEndsFeature, ports
  <2>2. CASE NextFeature
    BY <1>0, <2>2 DEF NextFeature, MountsInv, ports
  <2>3. CASE WebStartsFeature
    <3> DEFINE v == [port |-> 0, routes |-> <<>>, mounted |-> <<>>]
    <3>1. v \in ServerType /\ v.routes = <<>> /\ DOMAIN v.mounted = {}
      BY NothingMounted DEF ServerType
    <3>2. servers' = Append(servers, v) /\ feature' = feature /\ phase' = "mcp" /\ feature = Len(servers) + 1
      BY <1>0, <2>3 DEF WebStartsFeature, PhaseInv
    <3> HIDE DEF v
    <3>3. /\ DOMAIN servers' = 1..Len(servers) + 1
          /\ \A k \in 1..Len(servers) : servers'[k] = servers[k]
          /\ servers'[Len(servers) + 1] = v
      BY <1>0, <3>1, <3>2, AppendProperties
    <3>4. MountsOK(v)
      BY <3>1 DEF MountsOK
    <3>5. \A n \in DOMAIN servers' : MountsOK(servers'[n])
      BY <1>0, <3>3, <3>4 DEF MountsInv
    <3>6. QED
      BY <3>1, <3>2, <3>3, <3>5 DEF MountsInv
  <2>4. CASE McpStartsFeature
    <3>1. CASE Listened(feature, setup.mcp) /\ Begins
      <4>1. feature' = feature /\ phase' = "body" /\ servers[feature].routes = <<>> /\ feature \in 1..Len(servers)
        BY <1>0, <1>1, <2>4, <3>1 DEF McpStartsFeature, Begins, MountsInv
      <4>2. DOMAIN servers[feature].routes = {}
        BY <4>1
      <4>3. RoutesAreMounted(servers[feature])
        BY <4>2 DEF RoutesAreMounted
      <4>4. QED
        BY <1>0, <1>3, <3>1, <4>1, <4>3 DEF MountsInv
    <3>2. CASE phase' = "failed" /\ UNCHANGED <<ports, ok, lists>>
      BY <1>2, <2>4, <3>2 DEF McpStartsFeature, ports
    <3>3. QED
      BY <2>4, <3>1, <3>2 DEF McpStartsFeature
  <2>5. ASSUME NEW shouldClose \in BOOLEAN, WebEndsFeature(shouldClose) PROVE MountsInv'
    <3>1. phase' \in {"closingMcp", "leavingMcp"} /\ feature' = feature /\ feature \in 1..Len(servers)
      BY <1>1, <2>5 DEF WebEndsFeature
    <3>2. CASE Closed(feature) /\ servers[feature].port # 0
      <4>1. /\ servers' \in Seq(ServerType) /\ Len(servers') = Len(servers)
            /\ DOMAIN servers'[feature].mounted = {}
            /\ \A k \in 1..Len(servers) : k # feature => servers'[k] = servers[k]
        BY <1>0, <3>1, <3>2, ServerCloses
      <4>2. MountsOK(servers'[feature])
        BY <4>1 DEF MountsOK
      <4>3. QED
        BY <1>0, <3>1, <4>1, <4>2 DEF MountsInv
    <3>3. CASE UNCHANGED ports
      BY <1>2, <3>1, <3>3 DEF ports
    <3>4. QED
      BY <2>5, <3>2, <3>3 DEF WebEndsFeature, Closed
  <2>6. QED
    BY <1>4, <2>1, <2>2, <2>3, <2>4, <2>5 DEF Hooks
<1>5. CASE Body
  <2>1. phase = "body" /\ phase' \in {"body", "closing"} /\ feature' = feature /\ feature \in 1..Len(servers)
    BY <1>1, <1>5, BodyIs DEF StatementStep, StatementEnds, InBody, FeatureEnds, StatementBegins, StatementRefused, Fails
  <2>2. CASE IsListening
    <3>1. CASE Listened(feature, setup.web)
      BY <1>0, <1>3, <2>1, <3>1 DEF MountsInv
    <3>2. CASE UNCHANGED ports
      BY <1>2, <2>1, <3>2 DEF ports
    <3>3. QED
      BY <2>2, <3>1, <3>2 DEF IsListening
  <2>3. ASSUME NEW p \in setup.paths, NEW f \in Folder, NEW index \in BOOLEAN, Mount(p, f, index) PROVE MountsInv'
    <3> DEFINE r == [at |-> p, folder |-> f, index |-> index]
    <3>1. p \in Path /\ p \notin DOMAIN servers[feature].mounted
      BY <1>0, <2>3 DEF Mount, AlreadyMounted
    <3>2. servers' = [servers EXCEPT ![feature].routes = Append(@, r), ![feature].mounted = With(@, p, f)]
      BY <2>3 DEF Mount
    <3>3. /\ servers \in Seq(ServerType) /\ feature \in 1..Len(servers) /\ p \in Path /\ f \in Folder
          /\ r \in Route /\ r.at = p /\ r.folder = f
      BY <1>0, <2>1, <2>3, <3>1 DEF Mount, Route
    <3> HIDE DEF r
    <3>4. MountsOK(servers[feature]) /\ RoutesAreMounted(servers[feature])
      BY <1>0, <2>1 DEF MountsInv
    <3>5. /\ servers' \in Seq(ServerType) /\ Len(servers') = Len(servers)
          /\ MountsOK(servers'[feature]) /\ RoutesAreMounted(servers'[feature])
          /\ \A k \in 1..Len(servers) : k # feature => servers'[k] = servers[k]
      BY <3>1, <3>2, <3>3, <3>4, MountedIsFirst
    <3>6. \A n \in 1..Len(servers) : MountsOK(servers'[n])
      BY <1>0, <3>5 DEF MountsInv
    <3>7. DOMAIN servers' = 1..Len(servers)
      BY <1>0, <3>5
    <3>8. QED
      BY <2>1, <3>5, <3>6, <3>7 DEF MountsInv
  <2>4. CASE UNCHANGED servers
    BY <1>2, <2>1, <2>4
  <2>5. QED
    BY <1>5, <2>2, <2>3, <2>4 DEF Body, Statement, ServeMcpTools, FeatureEnds, MountFails, StatementBegins, StatementRefused, ports
<1>6. CASE Requests \/ Over \/ UNCHANGED vars
  BY <1>2, <1>6 DEF Requests, Access, CallTool, CallEnds, CallThrows, Over, vars, ports
<1>7. QED
  BY <1>4, <1>5, <1>6 DEF Next

LEMMA StepSessions == IInv /\ [Next]_vars => SessionsInv'
<1> SUFFICES ASSUME IInv, [Next]_vars PROVE SessionsInv'
  OBVIOUS
<1>0. Types /\ SessionsInv
  BY DEF IInv
<1>1. ASSUME UNCHANGED sessions PROVE SessionsInv'
  BY <1>0, <1>1 DEF SessionsInv, sessions
<1>2. ASSUME NEW c \in Everyone, NEW s \in Stepper \cup {"index"}, UpdateSessionFocus(c, s) PROVE SessionsInv'
  <2> DEFINE id == SessionId(c, "call")
  <2>1. /\ id = IF c \in Client THEN c ELSE "default-connection"
        /\ "default-connection" \notin Client
    BY WebServerAssumption DEF SessionId
  <2>2. focus' = [focus EXCEPT ![c] = s] /\ focus \in [Everyone -> Stepper \cup {"index"}]
    BY <1>0, <1>2 DEF UpdateSessionFocus, Types
  <2>3. scopes' = IF s = "index" THEN [k \in DOMAIN scopes \ {id} |-> scopes[k]] ELSE With(scopes, id, s)
    BY <1>2 DEF UpdateSessionFocus
  <2> HIDE DEF id
  <2>4. CASE s = "index"
    BY <1>0, <2>1, <2>2, <2>3, <2>4 DEF SessionsInv, Everyone
  <2>5. CASE s # "index"
    BY <1>0, <2>1, <2>2, <2>3, <2>5 DEF SessionsInv, Everyone, With
  <2>6. QED
    BY <2>4, <2>5
<1>3. CASE Hooks
  BY <1>1, <1>3 DEF Hooks, SetWorld, WebStartsFeature, McpStartsFeature, WebEndsFeature, McpEndsFeature, NextFeature
<1>4. CASE Body
  BY <1>1, <1>4, BodyIs DEF StatementStep, FeatureEnds, StatementBegins, StatementRefused
<1>5. CASE Requests
  BY <1>1, <1>2, <1>5 DEF Requests, Access, CallTool, CallEnds, CallThrows
<1>6. CASE Over \/ UNCHANGED vars
  BY <1>1, <1>6 DEF Over, vars
<1>7. QED
  BY <1>3, <1>4, <1>5, <1>6 DEF Next

LEMMA StepRunning == IInv /\ [Next]_vars => RunningInv'
<1> SUFFICES ASSUME IInv, [Next]_vars PROVE RunningInv'
  OBVIOUS
<1>0. /\ Types /\ PhaseInv /\ PortsInv /\ RunningInv /\ feature \in Nat \ {0} /\ lists \in Seq(Seq(Rec))
      /\ Len(lists) \in Nat
  BY SetupFacts DEF IInv, Types
<1>1. ASSUME UNCHANGED running, feature' \in {feature, feature + 1}, lists # <<>> => lists' # <<>> PROVE RunningInv'
  <2>1. ASSUME NEW c \in Everyone, running'[c] # Idle
        PROVE  lists' # <<>> /\ running'[c].feature \in 1..feature' /\ running'[c].world = running'[c].feature
    <3>1. lists # <<>> /\ running[c].feature \in 1..feature /\ running[c].world = running[c].feature
      BY <1>0, <1>1, <2>1 DEF RunningInv
    <3>2. QED
      BY <1>0, <1>1, <3>1
  <2>2. QED
    BY <2>1 DEF RunningInv
<1>2. CASE Hooks
  <2>1. CASE McpStartsFeature
    <3>1. <<>> \in Seq(Rec)
      OBVIOUS
    <3>2. /\ Len(Append(lists, <<>>)) = Len(lists) + 1
          /\ Append(lists, <<>>) \in Seq(Seq(Rec))
      BY <1>0, <3>1, AppendProperties
    <3>3. Append(lists, <<>>) # <<>>
      BY <1>0, <3>2
    <3>4. QED
      BY <1>1, <2>1, <3>3 DEF McpStartsFeature, Begins
  <2>2. CASE ~McpStartsFeature
    BY <1>1, <1>2, <2>2 DEF Hooks, SetWorld, WebStartsFeature, WebEndsFeature, McpEndsFeature, NextFeature
  <2>3. QED
    BY <2>1, <2>2
<1>3. CASE Body
  <2>1. CASE StatementStep
    <3>1. PICK good \in BOOLEAN, exhausts \in BOOLEAN :
            StatementEnds(good, exhausts) /\ UNCHANGED <<setup, feature, mcp, world, sessions, calls, running>>
      BY <2>1 DEF StatementStep
    <3>2. Len(lists') = Len(lists) /\ feature = Len(lists)
      BY <1>0, <3>1, StatementFacts
    <3>3. lists' # <<>>
      BY <1>0, <3>2
    <3>4. QED
      BY <1>1, <3>1, <3>3
  <2>2. CASE FeatureEnds \/ StatementBegins \/ StatementRefused
    BY <1>1, <2>2 DEF FeatureEnds, StatementBegins, StatementRefused
  <2>3. QED
    BY <1>3, <2>1, <2>2, BodyIs
<1>4. CASE Requests
  <2>1. ASSUME NEW c \in Everyone, NEW s \in Stepper \cup {"index"}, Access(c, s) PROVE RunningInv'
    BY <1>1, <2>1 DEF Access
  <2>2. ASSUME NEW c \in Everyone, NEW s \in Stepper, CallTool(c, s) PROVE RunningInv'
    <3>1. lists # <<>> /\ world = feature
      BY <1>0, <2>2 DEF CallTool, CanAsk, Reachable, PortsInv, PhaseInv
    <3>2. /\ \/ running' = running
             \/ running' = [running EXCEPT ![c] = [feature |-> feature, world |-> world]]
          /\ UNCHANGED <<feature, lists>> /\ running \in [Everyone -> [feature : Nat, world : Nat]]
      BY <1>0, <2>2 DEF CallTool, CallWorld, Types
    <3>3. CASE running' = running
      BY <1>0, <3>2, <3>3 DEF RunningInv
    <3>4. CASE running' = [running EXCEPT ![c] = [feature |-> feature, world |-> world]]
      BY <1>0, <3>1, <3>2, <3>4 DEF RunningInv
    <3>5. QED
      BY <3>2, <3>3, <3>4
  <2>3. ASSUME NEW c \in Everyone, NEW good \in BOOLEAN, NEW exhausts \in BOOLEAN, CallEnds(c, good, exhausts) PROVE RunningInv'
    <3>1. Len(lists') = Len(lists) /\ Len(lists) \in Nat \ {0} /\ lists' \in Seq(Seq(Rec))
      BY <1>0, <2>3, CallFacts
    <3>2. lists # <<>> /\ lists' # <<>>
      BY <3>1
    <3>3. /\ running' = [running EXCEPT ![c] = Idle] /\ feature' = feature
          /\ running \in [Everyone -> [feature : Nat, world : Nat]]
      BY <1>0, <2>3 DEF CallEnds, Types
    <3>4. QED
      BY <1>0, <3>2, <3>3 DEF RunningInv
  <2>4. ASSUME NEW c \in Everyone, CallThrows(c) PROVE RunningInv'
    <3>1. /\ running' = [running EXCEPT ![c] = Idle] /\ UNCHANGED <<feature, lists>>
          /\ running \in [Everyone -> [feature : Nat, world : Nat]]
      BY <1>0, <2>4 DEF CallThrows, Types
    <3>2. QED
      BY <1>0, <3>1 DEF RunningInv
  <2>5. QED
    BY <1>4, <2>1, <2>2, <2>3, <2>4 DEF Requests
<1>5. CASE Over \/ UNCHANGED vars
  BY <1>1, <1>5 DEF Over, vars
<1>6. QED
  BY <1>2, <1>3, <1>4, <1>5 DEF Next

LEMMA OwnOkGrows ==
  ASSUME NEW list \in Seq(Rec), NEW r \in Rec
  PROVE  OwnOk(Append(list, r)) <=> OwnOk(list) /\ (r.by = "feature" => r.ok)
<1> DEFINE new == Append(list, r)
<1>1. /\ Len(list) \in Nat /\ DOMAIN list = 1..Len(list) /\ DOMAIN new = 1..Len(list) + 1
      /\ \A k \in 1..Len(list) : new[k] = list[k]
      /\ new[Len(list) + 1] = r
  BY AppendProperties
<1> HIDE DEF new
<1>2. OwnOk(new) <=> OwnOk(list) /\ (r.by = "feature" => r.ok)
  BY <1>1 DEF OwnOk
<1>3. QED
  BY <1>2 DEF new

LEMMA NothingIsOwn == IsOwnOf(<<>>, <<>>) /\ OwnOk(<<>>)
<1>1. DOMAIN <<>> = {} /\ <<>> \in [{} -> {}]
  OBVIOUS
<1>2. QED
  BY <1>1 DEF IsOwnOf, OwnOk

LEMMA StepResults == IInv /\ [Next]_vars => ResultsInv'
<1> SUFFICES ASSUME IInv, [Next]_vars PROVE ResultsInv'
  OBVIOUS
<1>0. /\ Types /\ PhaseInv /\ RunningInv /\ ResultsInv /\ feature \in Nat \ {0}
      /\ Len(lists) \in Nat /\ Len(verdicts) \in Nat /\ DOMAIN verdicts = 1..Len(verdicts)
      /\ lists \in Seq(Seq(Rec)) /\ verdicts \in Seq(BOOLEAN) /\ ok \in BOOLEAN /\ steps \in Seq(Rec)
  BY SetupFacts DEF IInv, Types
<1>1. /\ Len(lists) = IF phase \in Before THEN feature - 1 ELSE feature
      /\ Len(verdicts) = IF phase \in Before \cup {"body"} THEN feature - 1 ELSE feature
  BY <1>0 DEF PhaseInv
<1>2. ASSUME UNCHANGED <<lists, verdicts, halted>>, phase' \notin {"body", "closing"} \/ UNCHANGED <<phase, feature, ok, steps>>
      PROVE  ResultsInv'
  BY <1>0, <1>2 DEF ResultsInv
<1>3. CASE Hooks
  <2>1. CASE McpStartsFeature
    <3>1. CASE Begins
      <4>1. /\ phase = "mcp" /\ phase' = "body" /\ ok' = TRUE /\ lists' = Append(lists, <<>>)
            /\ UNCHANGED <<feature, steps, verdicts, halted>>
        BY <2>1, <3>1 DEF McpStartsFeature, Begins, halting
      <4>2. <<>> \in Seq(Rec)
        OBVIOUS
      <4>3. /\ \A f \in 1..Len(lists) : lists'[f] = lists[f]
            /\ lists'[Len(lists) + 1] = <<>>
        BY <1>0, <4>1, <4>2, AppendProperties
      <4>4. Len(lists) + 1 = feature /\ \A f \in DOMAIN verdicts : f \in 1..Len(lists)
        BY <1>0, <1>1, <4>1 DEF Before
      <4>5. lists'[feature'] = <<>> /\ steps' = <<>>
        BY <1>0, <4>1, <4>3, <4>4 DEF PhaseInv
      <4>6. (ok' <=> OwnOk(lists'[feature'])) /\ IsOwnOf(steps', lists'[feature'])
        BY <4>1, <4>5, NothingIsOwn
      <4>7. \A f \in DOMAIN verdicts' : verdicts'[f] <=> f \notin halted' /\ OwnOk(lists'[f])
        BY <1>0, <4>1, <4>3, <4>4 DEF ResultsInv
      <4>8. QED
        BY <4>6, <4>7 DEF ResultsInv
    <3>2. CASE phase' = "failed" /\ UNCHANGED <<ports, ok, lists>>
      BY <1>2, <2>1, <3>2 DEF McpStartsFeature, halting
    <3>3. QED
      BY <2>1, <3>1, <3>2 DEF McpStartsFeature
  <2>2. CASE ~McpStartsFeature
    BY <1>2, <1>3, <2>2 DEF Hooks, SetWorld, WebStartsFeature, WebEndsFeature, McpEndsFeature, NextFeature, halting
  <2>3. QED
    BY <2>1, <2>2
<1>4. CASE StatementStep
  <2>1. PICK good \in BOOLEAN, exhausts \in BOOLEAN :
          StatementEnds(good, exhausts) /\ UNCHANGED <<setup, feature, mcp, world, sessions, calls, running>>
    BY <1>4 DEF StatementStep
  <2> DEFINE r == OwnRec(good)
  <2>2. /\ phase = "body" /\ feature \in 1..Len(lists) /\ feature = Len(lists)
        /\ lists[feature] \in Seq(Rec) /\ r \in Rec
        /\ lists'[feature] = Append(lists[feature], r)
        /\ \A f \in 1..feature - 1 : lists'[f] = lists[f]
        /\ steps' = Append(steps, r)
        /\ ok' \in BOOLEAN /\ (ok' <=> ok /\ good) /\ halted' = halted
        /\ ok' => phase' = "body" /\ verdicts' = verdicts
        /\ ~ok' => phase' = "closing" /\ verdicts' = Append(verdicts, FALSE)
    BY <1>0, <2>1, StatementFacts
  <2>3. r.by = "feature" /\ (r.ok <=> good)
    BY DEF OwnRec
  <2> HIDE DEF r
  <2>4. IsOwnOf(steps', lists'[feature])
    BY <1>0, <2>2, <2>3, OwnRecord DEF ResultsInv
  <2>5. OwnOk(lists'[feature]) <=> ok /\ good
    <3>1. OwnOk(Append(lists[feature], r)) <=> OwnOk(lists[feature]) /\ (r.by = "feature" => r.ok)
      BY <2>2, OwnOkGrows
    <3>2. ok <=> OwnOk(lists[feature])
      BY <1>0, <2>2 DEF ResultsInv
    <3>3. QED
      BY <2>2, <2>3, <3>1, <3>2
  <2>6. feature' = feature /\ Len(verdicts) = feature - 1 /\ feature \notin halted
    BY <1>0, <1>1, <2>1, <2>2 DEF PhaseInv
  <2>7. \A f \in DOMAIN verdicts : lists'[f] = lists[f]
    BY <1>0, <2>2, <2>6
  <2>8. CASE ok'
    BY <1>0, <2>2, <2>4, <2>5, <2>6, <2>7, <2>8 DEF ResultsInv
  <2>9. CASE ~ok'
    <3>1. /\ DOMAIN verdicts' = 1..feature
          /\ \A f \in DOMAIN verdicts : verdicts'[f] = verdicts[f]
          /\ verdicts'[feature] = FALSE
      <4> DEFINE no == FALSE
      <4>1. no \in BOOLEAN /\ verdicts' = Append(verdicts, no)
        BY <2>2, <2>9
      <4> HIDE DEF no
      <4>2. /\ DOMAIN verdicts' = 1..feature
            /\ \A f \in DOMAIN verdicts : verdicts'[f] = verdicts[f]
            /\ verdicts'[feature] = no
        BY <1>0, <2>6, <4>1, AppendProperties
      <4>3. QED
        BY <4>2 DEF no
    <3>2. ASSUME NEW f \in DOMAIN verdicts' PROVE verdicts'[f] <=> f \notin halted' /\ OwnOk(lists'[f])
      <4>1. CASE f \in DOMAIN verdicts
        BY <1>0, <2>2, <2>7, <3>1, <4>1 DEF ResultsInv
      <4>2. CASE f = feature
        BY <2>2, <2>5, <2>6, <2>9, <3>1, <4>2
      <4>3. QED
        BY <1>0, <2>6, <3>1, <4>1, <4>2
    <3>3. QED
      BY <2>2, <2>4, <2>6, <2>9, <3>2 DEF ResultsInv
  <2>10. QED
    BY <2>8, <2>9
<1>5. CASE FeatureEnds
  <2>1. phase = "body" /\ phase' = "closing" /\ verdicts' = Append(verdicts, ok) /\ UNCHANGED <<feature, steps, ok, lists, halted>>
    BY <1>5 DEF FeatureEnds, halting
  <2>2. Len(verdicts) = feature - 1 /\ feature \notin halted
    BY <1>0, <1>1, <2>1 DEF PhaseInv
  <2>3. /\ DOMAIN verdicts' = 1..feature
        /\ \A f \in DOMAIN verdicts : verdicts'[f] = verdicts[f]
        /\ verdicts'[feature] = ok
    BY <1>0, <2>1, <2>2, AppendProperties
  <2>4. ASSUME NEW f \in DOMAIN verdicts' PROVE verdicts'[f] <=> f \notin halted' /\ OwnOk(lists'[f])
    <3>1. CASE f \in DOMAIN verdicts
      BY <1>0, <2>1, <2>3, <3>1 DEF ResultsInv
    <3>2. CASE f = feature
      BY <1>0, <2>1, <2>2, <2>3, <3>2 DEF ResultsInv
    <3>3. QED
      BY <1>0, <2>2, <2>3, <3>1, <3>2
  <2>5. QED
    BY <1>0, <2>1, <2>4 DEF ResultsInv
<1>6. CASE Requests
  <2>1. ASSUME NEW c \in Everyone, NEW s \in Stepper \cup {"index"}, Access(c, s) PROVE ResultsInv'
    BY <1>2, <2>1 DEF Access, halting
  <2>2. ASSUME NEW c \in Everyone, NEW s \in Stepper, CallTool(c, s) PROVE ResultsInv'
    BY <1>2, <2>2 DEF CallTool, halting
  <2>3. ASSUME NEW c \in Everyone, NEW good \in BOOLEAN, NEW exhausts \in BOOLEAN, CallEnds(c, good, exhausts) PROVE ResultsInv'
    <3> DEFINE r == [by |-> c, ok |-> good]
               n == Len(lists)
    <3>1. /\ n \in Nat \ {0} /\ lists[n] \in Seq(Rec)
          /\ r \in Rec /\ c # "feature"
          /\ lists'[n] = Append(lists[n], r)
          /\ \A f \in 1..n - 1 : lists'[f] = lists[f]
      BY <1>0, <2>3, CallFacts
    <3>2. r.by # "feature"
      BY <3>1
    <3>3. UNCHANGED <<feature, phase, steps, ok, verdicts, halted>>
      BY <2>3 DEF CallEnds
    <3>4. Len(verdicts) <= n /\ (phase \in {"body", "closing"} => feature = n)
      BY <1>0, <1>1 DEF Before
    <3> HIDE DEF r, n
    <3>5. OwnOk(lists'[n]) <=> OwnOk(lists[n])
      BY <3>1, <3>2, OwnOkGrows
    <3>6. ASSUME NEW f \in 1..n PROVE OwnOk(lists'[f]) <=> OwnOk(lists[f])
      <4>1. CASE f = n
        BY <3>5, <4>1
      <4>2. CASE f # n
        BY <3>1, <4>2
      <4>3. QED
        BY <4>1, <4>2
    <3>7. \A f \in DOMAIN verdicts : f \in 1..n
      BY <1>0, <3>1, <3>4
    <3>8. IsOwnOf(steps, lists[n]) => IsOwnOf(steps, lists'[n])
      BY <1>0, <3>1, <3>2, OthersRecord
    <3>9. phase \in {"body", "closing"} => feature \in 1..n
      BY <3>1, <3>4
    <3>10. QED
      BY <1>0, <3>3, <3>4, <3>6, <3>7, <3>8, <3>9 DEF ResultsInv
  <2>4. ASSUME NEW c \in Everyone, CallThrows(c) PROVE ResultsInv'
    BY <1>2, <2>4 DEF CallThrows, halting
  <2>5. QED
    BY <1>6, <2>1, <2>2, <2>3, <2>4 DEF Requests
<1>7. CASE Over \/ UNCHANGED vars
  BY <1>2, <1>7 DEF Over, vars, halting
<1>8. CASE StatementBegins
  BY <1>2, <1>8 DEF StatementBegins
<1>9. CASE StatementRefused
  <2>1. /\ phase = "body" /\ Len(verdicts) = feature - 1 /\ feature - 1 \in Nat
        /\ UNCHANGED <<feature, steps, lists>> /\ halted' = halted \cup {feature}
    BY <1>0, <1>1, <1>9 DEF StatementRefused, InBody, Before
  <2>2. /\ phase' = "closing" /\ DOMAIN verdicts' = 1..feature /\ ~verdicts'[feature]
        /\ \A f \in DOMAIN verdicts : verdicts'[f] = verdicts[f]
    <3>1. /\ phase' = "closing" /\ DOMAIN verdicts' = 1..Len(verdicts) + 1
          /\ \A f \in 1..Len(verdicts) : verdicts'[f] = verdicts[f]
          /\ ~verdicts'[Len(verdicts) + 1]
      BY <1>0, <1>9, RefusalFacts
    <3>2. Len(verdicts) + 1 = feature
      BY <1>0, <2>1
    <3>3. QED
      BY <1>0, <3>1, <3>2
  <2>3. ASSUME NEW f \in DOMAIN verdicts' PROVE verdicts'[f] <=> f \notin halted' /\ OwnOk(lists'[f])
    <3>1. CASE f \in DOMAIN verdicts
      BY <1>0, <2>1, <2>2, <3>1 DEF ResultsInv
    <3>2. CASE f = feature
      BY <2>1, <2>2, <3>2
    <3>3. QED
      BY <1>0, <2>1, <2>2, <3>1, <3>2
  <2>4. IsOwnOf(steps', lists'[feature'])
    BY <1>0, <2>1 DEF ResultsInv
  <2>5. QED
    BY <2>1, <2>2, <2>3, <2>4 DEF ResultsInv
<1>10. QED
  BY <1>3, <1>4, <1>5, <1>6, <1>7, <1>8, <1>9, BodyIs DEF Next

-----------------------------------------------------------------------------
(* Theorems.                                                                *)

THEOREM Invariant == Spec => []IInv
<1>1. IInv /\ [Next]_vars => IInv'
  BY StepTypes, StepPhase, StepPorts, StepOnePort, StepMounts, StepSessions, StepRunning, StepResults DEF IInv
<1>2. QED
  BY <1>1, InitHolds, PTL DEF Spec

\* The first of the routes that answer for a mounted path is the one that was mounted there, unless
\* it is that of a folder indexed at "/".
LEMMA FirstIsServed ==
  ASSUME NEW n \in DOMAIN servers, servers[n] \in ServerType, MountsOK(servers[n]),
         NEW p \in DOMAIN servers[n].mounted
  PROVE  LET route == Serves(n, p)
         IN  \/ route.at = p /\ route.folder = servers[n].mounted[p]
             \/ route.index /\ p # "/"
<1> DEFINE routes == servers[n].routes
           answering == {i \in DOMAIN routes : Answers(routes[i], p)}
<1>1. routes \in Seq(Route) /\ DOMAIN routes = 1..Len(routes) /\ Len(routes) \in Nat
  BY DEF ServerType
<1>2. PICK i \in DOMAIN routes : /\ routes[i].at = p /\ routes[i].folder = servers[n].mounted[p]
                                 /\ \A j \in 1..i - 1 : routes[j].at # p
  BY DEF MountsOK
<1>3. answering \subseteq Nat /\ i \in answering
  BY <1>1, <1>2 DEF Answers
<1> DEFINE first == CHOOSE k \in answering : \A j \in answering : k <= j
<1>4. first \in answering /\ \A j \in answering : first <= j
  <2> HIDE DEF answering
  <2>1. \E k \in answering : \A j \in answering : <<j, k>> \notin OpToRel(<, Nat)
    BY <1>3, NatLessThanWellFounded, WFMin
  <2>2. PICK k \in answering : \A j \in answering : <<j, k>> \notin OpToRel(<, Nat)
    BY <2>1
  <2>3. ASSUME NEW j \in answering PROVE k <= j
    <3>1. j < k => <<j, k>> \in OpToRel(<, Nat)
      BY <1>3 DEF OpToRel
    <3>2. ~(j < k)
      BY <2>2, <3>1, Zenon
    <3>3. j \in Nat /\ k \in Nat
      BY <1>3
    <3>4. QED
      BY <3>2, <3>3
  <2>4. QED
    BY <2>3
<1>5. Serves(n, p) = routes[first]
  BY DEF Serves
<1> HIDE DEF first
<1>6. routes[first] \in Route /\ Answers(routes[first], p) /\ first <= i /\ first \in 1..Len(routes)
  BY <1>1, <1>3, <1>4
<1>7. CASE first = i
  BY <1>2, <1>5, <1>7
<1>8. CASE first # i
  <2>1. routes[first].at # p
    BY <1>1, <1>2, <1>6, <1>8
  <2>2. QED
    BY <1>5, <1>6, <2>1 DEF Answers, Route
<1>9. QED
  BY <1>7, <1>8

\* What the servers say of themselves is true, and with one port each feature can have its own,
\* whatever statements and clients do: the registry names the ports that are open, and what is said
\* to be mounted is what is served, where no folder indexed at "/" was mounted before it.
THEOREM ServersAlwaysSound == Spec => []ServersAreSound
<1>1. IInv => ServersAreSound
  <2> SUFFICES ASSUME IInv PROVE ServersAreSound
    OBVIOUS
  <2>0. /\ Types /\ PhaseInv /\ PortsInv /\ OnePortInv /\ MountsInv /\ SessionsInv /\ RunningInv
        /\ feature \in Nat \ {0} /\ servers \in Seq(ServerType)
    BY SetupFacts DEF IInv, Types
  <2>1. TypeOK
    <3>1. Len(servers) \in {feature - 1, feature} /\ Len(lists) \in {feature - 1, feature} /\ Len(verdicts) <= feature
      BY <2>0 DEF PhaseInv
    <3>2. \A n \in DOMAIN servers : servers[n].port \in {0, setup.web, setup.mcp}
      BY <2>0 DEF PortsInv
    <3>3. listening \subseteq {setup.web, setup.mcp}
      BY <2>0 DEF PortsInv
    <3>4. \A c \in Everyone : running[c] = Idle \/ running[c].feature \in 1..feature
      BY <2>0 DEF RunningInv
    <3>6. halted \subseteq 1..Len(verdicts)
      <4>1. DOMAIN verdicts = 1..Len(verdicts)
        BY <2>0 DEF Types
      <4>2. QED
        BY <2>0, <4>1 DEF PhaseInv
    <3>5. QED
      BY <2>0, <3>1, <3>2, <3>3, <3>4, <3>6 DEF TypeOK, Types, PhaseInv, PortsInv, SessionsInv
  <2>2. RegistryIsTrue /\ NeverFindsPortTaken
    BY <2>0 DEF RegistryIsTrue, NeverFindsPortTaken, PortsInv, OnePortInv
  <2>3. MountedIsServed
    BY <2>0, FirstIsServed DEF MountedIsServed, MountsInv
  <2>4. QED
    BY <2>1, <2>2, <2>3 DEF ServersAreSound
<1>2. QED
  BY <1>1, Invariant, PTL

\* Clients of the MCP server neither see each other's focus nor touch what a feature's own statements
\* have come to, whenever their own begin and end; only a statement that exhausts the run has those
\* of the feature refused that follow.
THEOREM ClientsAlwaysApart == Spec => []ClientsAreApart
<1>1. IInv => ClientsAreApart
  <2> SUFFICES ASSUME IInv PROVE ClientsAreApart
    OBVIOUS
  <2>0. /\ Types /\ PhaseInv /\ SessionsInv /\ RunningInv /\ ResultsInv
        /\ feature \in Nat \ {0} /\ lists \in Seq(Seq(Rec)) /\ verdicts \in Seq(BOOLEAN)
    BY SetupFacts DEF IInv, Types
  <2>1. SessionsAreApart
    BY <2>0 DEF SessionsAreApart, SessionsInv, ListFor, SessionId
  <2>2. OwnResults
    <3>1. phase \in {"body", "closing"} => Len(lists) = feature
      BY <2>0 DEF PhaseInv, Before
    <3>2. QED
      BY <2>0, <3>1 DEF OwnResults, Last, ResultsInv
  <2>3. VerdictIsOfFeature
    <3>1. \A f \in DOMAIN verdicts : verdicts[f] \in BOOLEAN /\ (verdicts[f] <=> f \notin halted /\ OwnOk(lists[f]))
      BY <2>0 DEF ResultsInv
    <3>2. \A f \in DOMAIN verdicts : verdicts[f] = (f \notin halted /\ OwnOk(lists[f]))
      BY <3>1 DEF OwnOk
    <3>3. QED
      BY <3>2 DEF VerdictIsOfFeature, OwnOk
  <2>4. WorldIsPresent
    <3>1. Idle.world = Idle.feature
      BY DEF Idle
    <3>2. QED
      BY <2>0, <3>1 DEF WorldIsPresent, RunningInv
  <2>5. QED
    BY <2>1, <2>2, <2>3, <2>4 DEF ClientsAreApart
<1>2. QED
  BY <1>1, Invariant, PTL
=============================================================================
