-------------------------- MODULE StatementsProofs --------------------------
(***************************************************************************)
(* Theorems about Statements, for every program and every limit: each       *)
(* record has a sequence path of its own, inner steps are recorded before   *)
(* outer ones, and nothing but the step that failed a feature is blamed; an *)
(* ensure that succeeds leaves its proof true; and a feature of checks and  *)
(* logic steps passes exactly when the formula it spells holds.             *)
(***************************************************************************)
EXTENDS Statements, TLAPS, SequenceTheorems, FiniteSetTheorems, WellFoundedInduction

FrameType == [node : Statement, mode : Mode, ensured : BOOLEAN, seq : Seq(Int), part : Nat \ {0},
              todo : Seq(Statement), loops : Nat \ {0}, mark : Nat]

RecType == [node : Statement, mode : Mode, seq : Seq(Int), ok : BOOLEAN]

Types ==
  /\ program \in Programs /\ facts \subseteq Fact
  /\ stack \in Seq(FrameType) /\ records \in Seq(RecType)
  /\ signal \in {"none", "ok", "fail", "throw"}
  /\ attempts \in [Statement -> Nat]
  /\ exhausted \in BOOLEAN /\ outcome \in {"running", "passed", "failed"}

-----------------------------------------------------------------------------
(* Programs.                                                                *)

LEMMA ProgramFacts ==
  ASSUME Types
  PROVE  /\ 1 \in Statement /\ Op(1) = "feature"
         /\ \A n \in Statement : /\ Op(n) \in Ops /\ FactOf(n) \in Fact
                                 /\ Parts(n) \in Seq(Seq(Statement))
                                 /\ Op(n) = "waypoint" => Len(Parts(n)) = 2
                                 /\ Op(n) = "ensure" => Len(Parts(n)) = 1 /\ Len(Parts(n)[1]) = 1
<1>1. WellFormed(program)
  BY StatementsAssumption DEF Types
<1>2. Arity("waypoint") = 2 /\ Arity("ensure") = 1
  BY DEF Arity, Leaf
<1>3. QED
  BY <1>1, <1>2 DEF WellFormed, Statement, Op, FactOf, Parts

LEMMA PartFacts ==
  ASSUME Types, NEW n \in Statement
  PROVE  /\ FirstPart(n) \in {1, 2}
         /\ \A k \in Int : PartStatements(n, k) \in Seq(Statement)
<1>1. Parts(n) \in Seq(Seq(Statement)) /\ (Op(n) = "waypoint" => Len(Parts(n)) = 2)
  BY ProgramFacts
<1>2. \A k \in DOMAIN Parts(n) : Parts(n)[k] \in Seq(Statement)
  BY <1>1
<1>3. Op(n) = "waypoint" => 1 \in DOMAIN Parts(n)
  BY <1>1
<1>4. <<>> \in Seq(Statement)
  OBVIOUS
<1>5. QED
  BY <1>2, <1>3, <1>4 DEF PartStatements, FirstPart

LEMMA EnsureFacts ==
  ASSUME Types, NEW n \in Statement, Op(n) = "ensure"
  PROVE  EnsureKey(n) \in Statement /\ Parts(n)[1] \in Seq(Statement) /\ Len(Parts(n)[1]) = 1
<1>1. Parts(n) \in Seq(Seq(Statement)) /\ Len(Parts(n)) = 1 /\ Len(Parts(n)[1]) = 1
  BY ProgramFacts
<1>2. Parts(n)[1] \in Seq(Statement)
  BY <1>1
<1>3. QED
  BY <1>1, <1>2 DEF EnsureKey

LEMMA ModeFacts ==
  ASSUME NEW f, f.mode \in Mode
  PROVE  PartMode(f) \in Mode /\ PartDir(f) \in {1, -1}
  BY DEF PartMode, PartDir, Mode

-----------------------------------------------------------------------------
(* The stack.                                                               *)

LEMMA TopFacts ==
  ASSUME Types, Running
  PROVE  /\ Len(stack) \in Nat \ {0} /\ Len(stack) \in DOMAIN stack /\ DOMAIN stack = 1..Len(stack)
         /\ Top = stack[Len(stack)] /\ Top \in FrameType
  BY DEF Types, Running, Top

LEMMA TopTypes ==
  ASSUME Types, Running
  PROVE  /\ Top.node \in Statement /\ Top.mode \in Mode /\ Top.ensured \in BOOLEAN /\ Top.seq \in Seq(Int)
         /\ Top.part \in Nat \ {0} /\ Top.todo \in Seq(Statement) /\ Top.loops \in Nat \ {0} /\ Top.mark \in Nat
  BY TopFacts DEF FrameType

LEMMA BelowFacts ==
  ASSUME Types, Running
  PROVE  /\ Below \in Seq(FrameType) /\ Len(Below) = Len(stack) - 1
         /\ \A f \in 1..Len(stack) - 1 : Below[f] = stack[f]
<1> DEFINE n == Len(stack) - 1
<1>1. stack \in Seq(FrameType) /\ n \in 0..Len(stack)
  BY TopFacts DEF Types
<1> HIDE DEF n
<1>2. /\ SubSeq(stack, 1, n) \in Seq(FrameType) /\ Len(SubSeq(stack, 1, n)) = n
      /\ \A f \in 1..n : SubSeq(stack, 1, n)[f] = stack[f]
  BY <1>1
<1>3. QED
  BY <1>2 DEF Below, n

LEMMA CalleeFacts ==
  ASSUME Types, Calling
  PROVE  Running /\ Callee \in Statement /\ CalleeMode \in Mode
<1>1. Running /\ Top.todo # <<>>
  BY DEF Calling
<1>2. Top.todo \in Seq(Statement) /\ Top.mode \in Mode
  BY <1>1, TopTypes
<1>3. Head(Top.todo) \in Statement
  BY <1>1, <1>2
<1>4. QED
  BY <1>1, <1>2, <1>3, ModeFacts DEF Callee, CalleeMode

-----------------------------------------------------------------------------
(* Sequence paths.                                                          *)

LEMMA Least ==
  ASSUME NEW T \in SUBSET Nat, T # {}
  PROVE  \E x \in T : \A y \in T : x <= y
<1>1. PICK x \in T : \A y \in T : ~ (<<y, x>> \in OpToRel(<, Nat))
  BY WFMin, NatLessThanWellFounded, Zenon
<1>2. ASSUME NEW y \in T PROVE x <= y
  <2>1. y < x => <<y, x>> \in OpToRel(<, Nat)
    BY DEF OpToRel
  <2>2. ~(y < x)
    BY <1>1, <2>1, Zenon
  <2>3. QED
    BY <2>2
<1>3. QED
  BY <1>2

\* Of one more number than there are records, one is free.
LEMMA OneIsFree ==
  ASSUME NEW recs \in Seq(RecType), NEW used,
         NEW last \in Nat, \A u \in used : \E r \in DOMAIN recs : u = recs[r].seq[last],
         NEW start \in Int, NEW dir \in {1, -1}
  PROVE  \E i \in 0..Len(recs) : /\ start + dir * i \notin used
                                 /\ \A j \in 0..i - 1 : start + dir * j \in used
<1> DEFINE n == Len(recs)
           at(i) == start + dir * i
<1>1. n \in Nat /\ DOMAIN recs = 1..n
  OBVIOUS
<1>2. \A i, j \in Int : at(i) = at(j) => i = j
  OBVIOUS
<1>3. (\E i \in 0..n : at(i) \notin used /\ \A j \in 0..i - 1 : at(j) \in used) =>
        \E i \in 0..Len(recs) : start + dir * i \notin used /\ \A j \in 0..i - 1 : start + dir * j \in used
  OBVIOUS
<1> HIDE DEF at, n
<1>4. ASSUME \A i \in 0..n : at(i) \in used PROVE FALSE
  <2> DEFINE f == [i \in 0..n |-> CHOOSE r \in 1..n : at(i) = recs[r].seq[last]]
  <2>1. \A i \in 0..n : f[i] \in 1..n /\ at(i) = recs[f[i]].seq[last]
    BY <1>1, <1>4
  <2>2. f \in [0..n -> 1..n]
    BY <2>1
  <2>3. /\ IsFiniteSet(0..n) /\ Cardinality(0..n) = n + 1
        /\ IsFiniteSet(1..n) /\ Cardinality(1..n) = n
    BY <1>1, FS_Interval
  <2> HIDE DEF f
  <2>4. PICK i, j \in 0..n : i # j /\ f[i] = f[j]
    <3>1. Cardinality(1..n) < Cardinality(0..n)
      BY <1>1, <2>3
    <3>2. \E i, j \in 0..n : i # j /\ f[i] = f[j]
      <4> DEFINE D == 0..n
                 R == 1..n
      <4>1. IsFiniteSet(D) /\ IsFiniteSet(R) /\ Cardinality(R) < Cardinality(D) /\ f \in [D -> R]
        BY <2>2, <2>3, <3>1
      <4> HIDE DEF D, R
      <4>2. \E i, j \in D : i # j /\ f[i] = f[j]
        BY <4>1, FS_PigeonHole
      <4>3. QED
        BY <4>2 DEF D
    <3>3. QED
      BY <3>2
  <2>5. at(i) = at(j)
    BY <2>1, <2>4
  <2>6. QED
    BY <1>1, <1>2, <2>4, <2>5
<1> DEFINE T == {i \in 0..n : at(i) \notin used}
<1>5. T \in SUBSET Nat /\ T # {}
  BY <1>1, <1>4
<1>6. PICK i \in T : \A j \in T : i <= j
  BY <1>5, Least
<1>7. i \in 0..n /\ at(i) \notin used /\ \A j \in 0..i - 1 : at(j) \in used
  BY <1>1, <1>6
<1>8. QED
  BY <1>7, <1>3

\* A path from incSeqPath is given to nothing yet, is a sibling of the one it starts from, and
\* counting upwards everything before it is taken.
Taken(recs, path) ==
  {recs[r].seq[Len(path)] : r \in {r \in DOMAIN recs :
     Len(recs[r].seq) = Len(path) /\ SubSeq(recs[r].seq, 1, Len(path) - 1) = SubSeq(path, 1, Len(path) - 1)}}

IsFree(recs, path, dir, new) ==
  /\ new \in Seq(Int) /\ Len(new) = Len(path)
  /\ \A i \in 1..Len(path) - 1 : new[i] = path[i]
  /\ \A r \in DOMAIN recs : recs[r].seq # new
  /\ dir = 1 => /\ new[Len(path)] >= path[Len(path)] /\ new[Len(path)] \notin Taken(recs, path)
                /\ \A v \in path[Len(path)]..new[Len(path)] - 1 : v \in Taken(recs, path)

LEMMA IncSeqPathFacts ==
  ASSUME NEW recs \in Seq(RecType), NEW path \in Seq(Int), Len(path) > 0, NEW dir \in {1, -1},
         NEW new, new = IncSeqPath(recs, path, dir)
  PROVE  IsFree(recs, path, dir, new)
<1> DEFINE last == Len(path)
           start == IF dir = 1 THEN path[last] ELSE -1
           used == Taken(recs, path)
           First(i) == /\ start + dir * i \notin used
                       /\ \A j \in 0..i - 1 : start + dir * j \in used
           first == CHOOSE i \in 0..Len(recs) : First(i)
           number == start + dir * first
<1>1. last \in Nat \ {0} /\ last \in DOMAIN path /\ DOMAIN path = 1..last /\ start \in Int
  OBVIOUS
<1>2. \A u \in used : \E r \in DOMAIN recs : u = recs[r].seq[last]
  BY DEF Taken
<1>3. \E i \in 0..Len(recs) : First(i)
  <2> HIDE DEF used, start, last
  <2>1. QED
    BY <1>1, <1>2, OneIsFree
<1>4. first \in 0..Len(recs) /\ First(first)
  BY <1>3
<1>5. new = [path EXCEPT ![last] = number]
  BY DEF IncSeqPath, Taken
<1>6. number \in Int /\ number \notin used
  BY <1>1, <1>4
<1>7. dir = 1 => number >= path[last] /\ \A v \in path[last]..number - 1 : v \in used
  <2> SUFFICES ASSUME dir = 1 PROVE number >= path[last] /\ \A v \in path[last]..number - 1 : v \in used
    OBVIOUS
  <2>1. start = path[last] /\ start \in Int
    BY <1>1
  <2>2. first \in Nat /\ \A j \in 0..first - 1 : start + dir * j \in used
    BY <1>4
  <2>3. number = start + first /\ \A j \in 0..first - 1 : start + j \in used
    <3> HIDE DEF first, start, used
    <3>1. QED
      BY <2>1, <2>2
  <2> HIDE DEF number, first, start, used
  <2>4. ASSUME NEW v \in path[last]..number - 1 PROVE v \in used
    <3>1. v - start \in 0..first - 1 /\ start + (v - start) = v
      BY <2>1, <2>2, <2>3
    <3>2. QED
      BY <2>3, <3>1
  <2>5. QED
    BY <2>1, <2>2, <2>3, <2>4
<1> HIDE DEF number, first
<1>8. /\ new \in Seq(Int) /\ Len(new) = last /\ new[last] = number
      /\ \A i \in 1..last - 1 : new[i] = path[i]
  <2>1. path \in Seq(Int) /\ last \in 1..Len(path) /\ number \in Int /\ last = Len(path) /\ last \in Nat
    BY <1>1, <1>6
  <2>2. /\ new \in Seq(Int) /\ Len(new) = Len(path)
        /\ \A j \in 1..Len(path) : new[j] = IF j = last THEN number ELSE path[j]
    BY <1>5, <2>1, ExceptSeq
  <2> HIDE DEF last
  <2>3. new[last] = number /\ Len(new) = last
    BY <2>1, <2>2
  <2>4. \A i \in 1..last - 1 : i \in 1..Len(path) /\ i # last
    BY <2>1
  <2>5. QED
    BY <2>2, <2>3, <2>4
<1>9. SubSeq(new, 1, last - 1) = SubSeq(path, 1, last - 1)
  <2>1. /\ SubSeq(new, 1, last - 1) \in Seq(Int) /\ Len(SubSeq(new, 1, last - 1)) = last - 1
        /\ \A i \in 1..last - 1 : SubSeq(new, 1, last - 1)[i] = new[i]
    BY <1>1, <1>8
  <2>2. /\ SubSeq(path, 1, last - 1) \in Seq(Int) /\ Len(SubSeq(path, 1, last - 1)) = last - 1
        /\ \A i \in 1..last - 1 : SubSeq(path, 1, last - 1)[i] = path[i]
    BY <1>1
  <2>3. QED
    BY <1>8, <2>1, <2>2, SeqEqual
<1>10. ASSUME NEW r \in DOMAIN recs, recs[r].seq = new PROVE FALSE
  <2>1. new[last] \in used
    BY <1>8, <1>9, <1>10 DEF Taken
  <2>2. QED
    BY <1>6, <1>8, <2>1
<1>11. QED
  BY <1>6, <1>7, <1>8, <1>10 DEF IsFree

-----------------------------------------------------------------------------
(* The steps, by what they do to the stack and the records.                 *)

\* A leaf, or an ensure that is refused, is recorded.
Records(ok) ==
  /\ Accepted /\ ok \in BOOLEAN
  /\ \/ Op(Callee) = "check" /\ (ok <=> FactOf(Callee) \in facts) /\ facts' = facts
     \/ Op(Callee) = "act"
     \/ Op(Callee) = "ensure" /\ ~ok /\ facts' = facts
  /\ records' = Append(records, Record(Callee, CalleeMode, CalleeSeq, ok))
  /\ signal' = IF ok THEN "ok" ELSE "fail"
  /\ UNCHANGED <<program, stack, outcome>>

\* The top frame goes on with the same or another part.
PartOK(g) == g.part \in 1..3 \union DOMAIN Parts(g.node)
LoopsOK(g) == Op(g.node) = "whenever" => g.loops <= MaxLoops + 1
Insists == signal = "fail" /\ PartMode(Top) = "authoritative" /\ Op(Top.node) \notin {"until", "ensure", "proven"}

\* The part the top frame is in has ended ok or not.
Ended(ok) ==
  \/ signal = "ok" /\ ok /\ Len(Top.todo) = 1
  \/ signal \in {"fail", "throw"} /\ ~ok
  \/ signal = "none" /\ Top.todo = <<>> /\ (ok <=> Op(Top.node) # "anyOf")

NextTodo(g) ==
  \/ signal = "ok" /\ Len(Top.todo) > 1 /\ g.part = Top.part /\ g.todo = Tail(Top.todo)
  \/ /\ \E ok \in BOOLEAN : Ended(ok) /\ Goes(Top, ok, g.part)
     /\ g.todo = PartStatements(g.node, g.part)

Turns(g) ==
  /\ Running /\ g \in FrameType
  /\ g.node = Top.node /\ g.mode = Top.mode /\ g.seq = Top.seq /\ g.ensured = Top.ensured
  /\ NextTodo(g)
  /\ PartOK(g) \/ g.part = Top.part
  /\ LoopsOK(g) \/ g.loops = Top.loops
  /\ stack' = Append(Below, g)
  /\ \/ records' = records /\ g.mark \in {Top.mark, Len(records)}
     \/ records' = SubSeq(records, 1, Top.mark) /\ Op(Top.node) = "until" /\ g.mark = Len(records')
  /\ ~Insists
  /\ signal' = "none"
  /\ UNCHANGED <<program, facts, attempts, exhausted, outcome>>

\* The top frame returns.
Returns(ok) ==
  /\ Running /\ ok \in BOOLEAN /\ Finish(ok)
  /\ ok => \E v \in BOOLEAN : Ended(v) /\ Goes(Top, v, Pass)
  /\ ~ok => signal = "throw" \/ \E v \in BOOLEAN : Ended(v) /\ Goes(Top, v, Fail)
  /\ Insists => ~ok
  /\ UNCHANGED <<program, facts, exhausted>>

Pushes ==
  /\ Accepted /\ Op(Callee) \notin Leaf
  /\ Op(Callee) = "ensure" => Ensurable(EnsureKey(Callee))
  /\ stack' = Append(stack, Frame(Callee, CalleeMode, Op(Top.node) = "ensure", CalleeSeq))
  /\ UNCHANGED <<program, facts, signal, records, exhausted, outcome>>

\* Neither changes: the call is refused, or throws, or something arrives.
Stays ==
  /\ UNCHANGED <<program, stack, records, attempts, outcome>>
  /\ \/ Calling /\ signal' = "fail" /\ exhausted' = TRUE /\ facts' = facts
     \/ Calling /\ signal' = "throw" /\ Op(Callee) = "undefined" /\ UNCHANGED <<facts, exhausted>>
     \/ /\ UNCHANGED <<signal, exhausted>> /\ \E p \in Arriving : facts' = facts \union {p}
        /\ \E f \in DOMAIN stack : Op(stack[f].node) = "until"

LEMMA GoesFacts ==
  ASSUME Types, Running, NEW ok \in BOOLEAN, NEW k \in Int, Goes(Top, ok, k)
  PROVE  /\ k > 0 => k \in 1..3 \union DOMAIN Parts(Top.node)
         /\ k = 1 /\ Op(Top.node) = "whenever" => Top.loops <= MaxLoops
         /\ ~ok /\ PartMode(Top) = "authoritative" /\ Op(Top.node) \notin {"until", "ensure", "proven"} => k = Fail
<1>1. Top.part \in Nat \ {0} /\ Top.loops \in Nat \ {0} /\ Top.mode \in Mode
  BY TopTypes
<1>2. Parts(Top.node) \in Seq(Seq(Statement)) /\ MaxLoops \in Nat
  BY TopTypes, ProgramFacts, StatementsAssumption
<1>3. Pass = 0 /\ Fail = -1 /\ Verdict(ok) \in {Pass, Fail}
  BY DEF Pass, Fail, Verdict
<1>4. k > 0 => k \in 1..3 \union DOMAIN Parts(Top.node)
  BY <1>1, <1>2, <1>3 DEF Goes, NextLoop, AfterPoll, AfterActivity, AfterAlternative, Verdict, Pass, Fail
<1>5. k = 1 /\ Op(Top.node) = "whenever" => Top.loops <= MaxLoops
  BY <1>1, <1>2, <1>3 DEF Goes, NextLoop, Verdict, Pass, Fail
<1>6. ~ok /\ PartMode(Top) = "authoritative" /\ Op(Top.node) \notin {"until", "ensure", "proven"} => k = Fail
  BY <1>1, <1>3 DEF Goes, AfterActivity, NextLoop, Verdict, Pass, Fail, PartMode
<1>7. QED
  BY <1>4, <1>5, <1>6

LEMMA FirstFrame ==
  ASSUME Types, NEW n \in Statement, NEW mode \in Mode, NEW ensured \in BOOLEAN, NEW seq \in Seq(Int)
  PROVE  /\ Frame(n, mode, ensured, seq) \in FrameType /\ PartOK(Frame(n, mode, ensured, seq))
         /\ LoopsOK(Frame(n, mode, ensured, seq))
<1>1. FirstPart(n) \in {1, 2} /\ PartStatements(n, FirstPart(n)) \in Seq(Statement)
  BY PartFacts
<1>2. Len(records) \in Nat /\ MaxLoops \in Nat
  BY StatementsAssumption DEF Types
<1>3. QED
  BY <1>1, <1>2 DEF Frame, FrameType, PartOK, LoopsOK

LEMMA CalleePath ==
  ASSUME Types, Calling
  PROVE  /\ CalleeSeq \in Seq(Int) /\ Len(CalleeSeq) = Len(Top.seq) + 1
         /\ \A i \in 1..Len(Top.seq) : CalleeSeq[i] = Top.seq[i]
         /\ \A r \in DOMAIN records : records[r].seq # CalleeSeq
         /\ PartDir(Top) = 1 =>
              LET p == Append(Top.seq, 1)
              IN  /\ CalleeSeq[Len(p)] >= 1 /\ CalleeSeq[Len(p)] \notin Taken(records, p)
                  /\ \A v \in 1..CalleeSeq[Len(p)] - 1 : v \in Taken(records, p)
<1> DEFINE p == Append(Top.seq, 1)
<1>1. Top.seq \in Seq(Int) /\ PartDir(Top) \in {1, -1} /\ records \in Seq(RecType)
  BY TopTypes, ModeFacts DEF Calling, Types
<1>2. /\ p \in Seq(Int) /\ Len(p) = Len(Top.seq) + 1 /\ p[Len(p)] = 1
      /\ \A i \in 1..Len(Top.seq) : p[i] = Top.seq[i]
  BY <1>1
<1>3. CalleeSeq = IncSeqPath(records, p, PartDir(Top))
  BY DEF CalleeSeq
<1>4. Len(p) > 0 /\ Len(p) - 1 = Len(Top.seq)
  BY <1>1, <1>2
<1> HIDE DEF p
<1> DEFINE dir == PartDir(Top)
           new == IncSeqPath(records, p, dir)
<1>8. dir \in {1, -1}
  BY <1>1
<1>9. new = IncSeqPath(records, p, dir)
  OBVIOUS
<1> HIDE DEF new, dir
<1>5. /\ new \in Seq(Int) /\ Len(new) = Len(p)
      /\ \A i \in 1..Len(p) - 1 : new[i] = p[i]
      /\ \A r \in DOMAIN records : records[r].seq # new
      /\ dir = 1 => /\ new[Len(p)] >= p[Len(p)] /\ new[Len(p)] \notin Taken(records, p)
                    /\ \A v \in p[Len(p)]..new[Len(p)] - 1 : v \in Taken(records, p)
  <2>1. records \in Seq(RecType) /\ p \in Seq(Int) /\ Len(p) > 0
    BY <1>1, <1>2, <1>4
  <2>2. IsFree(records, p, dir, new)
    BY <1>8, <1>9, <2>1, IncSeqPathFacts
  <2>3. QED
    BY <2>2 DEF IsFree
<1>6. CalleeSeq = new
  BY <1>3 DEF new, dir
<1>10. dir = 1 => /\ new[Len(p)] >= 1 /\ new[Len(p)] \notin Taken(records, p)
                  /\ \A v \in 1..new[Len(p)] - 1 : v \in Taken(records, p)
  BY <1>2, <1>5
<1>7. QED
  BY <1>2, <1>4, <1>5, <1>6, <1>10 DEF p, dir

\* Marks are within the records and grow with the stack.
MarkInv ==
  /\ \A f \in DOMAIN stack : stack[f].mark <= Len(records)
  /\ \A f \in DOMAIN stack : \A g \in 1..f : stack[g].mark <= stack[f].mark

LEMMA PrefixFacts ==
  ASSUME NEW s \in Seq(RecType), NEW m \in 0..Len(s)
  PROVE  /\ SubSeq(s, 1, m) \in Seq(RecType) /\ Len(SubSeq(s, 1, m)) = m
         /\ \A i \in 1..m : SubSeq(s, 1, m)[i] = s[i]
  OBVIOUS

LEMMA KeptFacts ==
  ASSUME Types, MarkInv, Running
  PROVE  /\ Kept \in Seq(RecType) /\ Len(Kept) \in Nat
         /\ Kept = records \/ (Kept = SubSeq(records, 1, Top.mark) /\ Op(Top.node) = "until")
         /\ Rounds \in Nat \ {0} /\ (Op(Top.node) # "until" => Rounds = Top.loops + 1)
<1>1. Top.mark \in 0..Len(records) /\ records \in Seq(RecType)
  BY TopFacts, TopTypes DEF MarkInv, Types
<1>2. SubSeq(records, 1, Top.mark) \in Seq(RecType)
  BY <1>1, PrefixFacts
<1>3. Top.loops \in Nat \ {0}
  BY TopTypes
<1>4. Kept \in Seq(RecType)
  BY <1>1, <1>2 DEF Kept
<1>5. Len(Kept) \in Nat
  BY <1>4
<1>6. Kept = records \/ (Kept = SubSeq(records, 1, Top.mark) /\ Op(Top.node) = "until")
  BY DEF Kept, ManyPolls
<1>7. QED
  BY <1>3, <1>4, <1>5, <1>6 DEF ManyPolls, Rounds

LEMMA PartEndsFacts ==
  ASSUME Types, MarkInv, Running, NEW ok \in BOOLEAN, PartEnds(ok), Ended(ok), UNCHANGED <<program, facts, exhausted>>,
         Insists => ~ok
  PROVE  (\E g \in FrameType : Turns(g)) \/ \E v \in BOOLEAN : Returns(v)
<1>1. PICK k \in -1..Len(Top.todo) + Len(Parts(Top.node)) + 1 :
        /\ Goes(Top, ok, k)
        /\ IF k > 0
           THEN /\ records' = Kept
                /\ stack' = Append(Below, [Top EXCEPT !.part = k, !.todo = PartStatements(Top.node, k),
                                                      !.loops = IF k = 1 THEN Rounds ELSE @,
                                                      !.mark = Len(Kept)])
                /\ signal' = "none"
                /\ UNCHANGED <<attempts, outcome>>
           ELSE Finish(k = Pass)
  BY Zenon DEF PartEnds
<1>2. k \in Int
  OBVIOUS
<1>3. /\ k > 0 => k \in 1..3 \union DOMAIN Parts(Top.node)
      /\ k = 1 /\ Op(Top.node) = "whenever" => Top.loops <= MaxLoops
      /\ Insists => k = Fail
  BY <1>1, <1>2, GoesFacts DEF Insists
<1>4. CASE k > 0
  <2> DEFINE g == [Top EXCEPT !.part = k, !.todo = PartStatements(Top.node, k),
                              !.loops = IF k = 1 THEN Rounds ELSE @, !.mark = Len(Kept)]
  <2>1. Top \in FrameType /\ Top.node \in Statement /\ Top.loops \in Nat \ {0} /\ MaxLoops \in Nat
    BY TopFacts, TopTypes, StatementsAssumption
  <2>2. PartStatements(Top.node, k) \in Seq(Statement)
    BY <1>2, <2>1, PartFacts
  <2>11. k \in Nat \ {0} /\ Len(Kept) \in Nat /\ Rounds \in Nat \ {0}
    BY <1>2, <1>4, KeptFacts
  <2>3. g \in FrameType
    BY <2>1, <2>2, <2>11 DEF FrameType
  <2>4. /\ g.node = Top.node /\ g.mode = Top.mode /\ g.seq = Top.seq /\ g.part = k /\ g.mark = Len(Kept)
        /\ g.loops = IF k = 1 THEN Rounds ELSE Top.loops
        /\ g.ensured = Top.ensured /\ g.todo = PartStatements(g.node, k)
    BY <2>1 DEF FrameType
  <2>12. NextTodo(g)
    BY <1>1, <2>4 DEF NextTodo
  <2>5. PartOK(g)
    BY <1>3, <1>4, <2>4 DEF PartOK
  <2>6. LoopsOK(g) \/ g.loops = Top.loops
    BY <1>3, <2>1, <2>4, KeptFacts DEF LoopsOK
  <2>7. ~Insists
    BY <1>3, <1>4 DEF Fail
  <2>8. stack' = Append(Below, g) /\ records' = Kept /\ signal' = "none" /\ UNCHANGED <<attempts, outcome>>
    BY <1>1, <1>4
  <2> HIDE DEF g
  <2>9. Turns(g)
    BY <2>3, <2>4, <2>5, <2>6, <2>7, <2>8, <2>12, KeptFacts DEF Turns
  <2>10. QED
    BY <2>3, <2>9
<1>5. CASE ~(k > 0)
  <2>1. Finish(k = Pass)
    BY <1>1, <1>5
  <2>2. Insists => ~(k = Pass)
    BY <1>3 DEF Fail, Pass
  <2>5. k = Pass => \E v \in BOOLEAN : Ended(v) /\ Goes(Top, v, Pass)
    BY <1>1
  <2>6. k # Pass => \E v \in BOOLEAN : Ended(v) /\ Goes(Top, v, Fail)
    <3>1. k # Pass => k = Fail
      BY <1>5 DEF Pass, Fail
    <3>2. QED
      BY <1>1, <3>1
  <2>3. Returns(k = Pass)
    BY <2>1, <2>2, <2>5, <2>6 DEF Returns
  <2>4. QED
    BY <2>3
<1>6. QED
  BY <1>4, <1>5

\* Every step is of one of these shapes.
LEMMA Shapes ==
  ASSUME Types, MarkInv, Next
  PROVE  \/ Stays \/ Pushes
         \/ \E ok \in BOOLEAN : Records(ok)
         \/ \E g \in FrameType : Turns(g)
         \/ \E ok \in BOOLEAN : Returns(ok)
<1>1. CASE Refuse \/ Throw
  BY <1>1 DEF Refuse, Throw, Accepted, Stays
<1>2. CASE Arrive
  BY <1>2 DEF Arrive, Stays
<1>3. CASE Check
  <2>1. RunLeaf(FactOf(Callee) \in facts) /\ Accepted /\ (FactOf(Callee) \in facts) \in BOOLEAN
        /\ Op(Callee) = "check" /\ facts' = facts
    BY <1>3 DEF Check
  <2>2. PICK ok \in BOOLEAN : RunLeaf(ok) /\ (ok <=> FactOf(Callee) \in facts)
    BY <2>1
  <2>3. Records(ok)
    BY <2>1, <2>2 DEF RunLeaf, Records
  <2>4. QED
    BY <2>3
<1>4. CASE Act
  <2>1. PICK ok \in BOOLEAN : RunLeaf(ok)
    BY <1>4 DEF Act
  <2>2. Records(ok)
    BY <1>4, <2>1 DEF Act, RunLeaf, Records
  <2>3. QED
    BY <2>2
<1>5. CASE RefuseEnsure
  <2>1. Records(FALSE)
    BY <1>5 DEF RefuseEnsure, Records
  <2>2. QED
    BY <2>1
<1>6. CASE Call
  BY <1>6 DEF Call, Pushes
<1>7. CASE Proceed
  <2> DEFINE g == [Top EXCEPT !.todo = Tail(@)]
  <2>1. Running /\ signal = "ok" /\ Len(Top.todo) > 1 /\ stack' = Append(Below, g) /\ signal' = "none"
        /\ UNCHANGED <<program, facts, exhausted, records, attempts, outcome>>
    BY <1>7 DEF Proceed, Quiet
  <2>2. Top \in FrameType /\ Top.todo \in Seq(Statement)
    BY <2>1, TopFacts, TopTypes
  <2>3. Tail(Top.todo) \in Seq(Statement)
    BY <2>1, <2>2
  <2>4. /\ g \in FrameType /\ g.node = Top.node /\ g.mode = Top.mode /\ g.seq = Top.seq /\ g.part = Top.part
        /\ g.loops = Top.loops /\ g.mark = Top.mark /\ g.ensured = Top.ensured /\ g.todo = Tail(Top.todo)
    BY <2>2, <2>3 DEF FrameType
  <2> HIDE DEF g
  <2>5. Turns(g)
    BY <2>1, <2>4 DEF Turns, Insists, NextTodo
  <2>6. QED
    BY <2>4, <2>5
<1>8. CASE EndPart
  <2>1. PICK ok \in BOOLEAN : PartEnds(ok) /\ Ended(ok) /\ (Insists => ~ok)
    <3>1. (Op(Top.node) # "anyOf") \in BOOLEAN
      OBVIOUS
    <3>2. QED
      BY <1>8, <3>1 DEF EndPart, Insists, Ended
  <2>2. Running /\ UNCHANGED <<program, facts, exhausted>>
    BY <1>8 DEF EndPart, Quiet
  <2>3. QED
    BY <2>1, <2>2, PartEndsFacts
<1>9. CASE Caught
  <2>1. Returns(FALSE)
    BY <1>9 DEF Caught, Returns, Quiet
  <2>2. QED
    BY <2>1
<1>10. QED
  BY <1>1, <1>2, <1>3, <1>4, <1>5, <1>6, <1>7, <1>8, <1>9 DEF Next, Evaluate

\* What each does to the stack, frame by frame.
LEMMA PushFacts ==
  ASSUME Types, Pushes
  PROVE  LET n == Len(stack)
             g == Frame(Callee, CalleeMode, Op(Top.node) = "ensure", CalleeSeq)
         IN  /\ Calling /\ g \in FrameType /\ PartOK(g) /\ LoopsOK(g)
             /\ stack' \in Seq(FrameType) /\ Len(stack') = n + 1
             /\ \A f \in 1..n : stack'[f] = stack[f]
             /\ stack'[n + 1] = g
<1> DEFINE g == Frame(Callee, CalleeMode, Op(Top.node) = "ensure", CalleeSeq)
<1>1. Calling /\ stack' = Append(stack, g)
  BY DEF Pushes, Accepted
<1>2. Callee \in Statement /\ CalleeMode \in Mode /\ CalleeSeq \in Seq(Int)
  BY <1>1, CalleeFacts, CalleePath
<1>3. g \in FrameType /\ PartOK(g) /\ LoopsOK(g)
  BY <1>2, FirstFrame
<1>4. stack \in Seq(FrameType)
  BY DEF Types
<1> HIDE DEF g
<1>5. QED
  BY <1>1, <1>3, <1>4 DEF g

LEMMA TurnFacts ==
  ASSUME Types, NEW g \in FrameType, Turns(g)
  PROVE  LET n == Len(stack)
         IN  /\ Running /\ stack' \in Seq(FrameType) /\ Len(stack') = n
             /\ \A f \in 1..n - 1 : stack'[f] = stack[f]
             /\ stack'[n] = g
<1>1. Running /\ stack' = Append(Below, g)
  BY DEF Turns
<1>2. /\ Below \in Seq(FrameType) /\ Len(Below) = Len(stack) - 1 /\ Len(stack) \in Nat \ {0}
      /\ \A f \in 1..Len(stack) - 1 : Below[f] = stack[f]
  BY <1>1, BelowFacts, TopFacts
<1>3. QED
  BY <1>1, <1>2

LEMMA ReturnFacts ==
  ASSUME Types, NEW ok \in BOOLEAN, Returns(ok)
  PROVE  LET n == Len(stack)
         IN  /\ Running /\ stack' \in Seq(FrameType) /\ Len(stack') = n - 1
             /\ \A f \in 1..n - 1 : stack'[f] = stack[f]
  BY BelowFacts DEF Returns, Finish

-----------------------------------------------------------------------------
(* Types and limits.                                                        *)

\* The attempt too many exhausts the run, and an exhausted run makes none.
AttemptsInv ==
  \A n \in Statement : attempts[n] <= MaxAttempts + 1 /\ (attempts[n] = MaxAttempts + 1 => exhausted)

LEMMA AttemptsStep ==
  ASSUME Types, MarkInv, AttemptsInv, Next
  PROVE  attempts' \in [Statement -> Nat] /\ AttemptsInv' /\ program' = program /\ exhausted' \in BOOLEAN
<1>1. attempts \in [Statement -> Nat] /\ MaxAttempts \in Nat /\ exhausted \in BOOLEAN
  BY StatementsAssumption DEF Types
<1>2. CASE UNCHANGED <<program, attempts>> /\ exhausted' \in {exhausted, TRUE}
  BY <1>1, <1>2 DEF AttemptsInv, Statement
<1>3. CASE RefuseEnsure
  <2> DEFINE key == EnsureKey(Callee)
  <2>1. key \in Statement /\ ~exhausted
    BY <1>3, CalleeFacts, EnsureFacts DEF RefuseEnsure, Accepted, Halted
  <2>2. /\ attempts' = [attempts EXCEPT ![key] = @ + 1] /\ program' = program
        /\ exhausted' = (attempts[key] >= MaxAttempts)
    BY <1>3 DEF RefuseEnsure, Counted
  <2> HIDE DEF key
  <2>3. attempts' \in [Statement -> Nat]
    BY <1>1, <2>1, <2>2
  <2>4. \A n \in Statement : attempts[n] <= MaxAttempts
    BY <1>1, <2>1 DEF AttemptsInv
  <2>5. \A n \in Statement : attempts'[n] = IF n = key THEN attempts[n] + 1 ELSE attempts[n]
    BY <1>1, <2>1, <2>2
  <2>6. exhausted' \in BOOLEAN
    BY <2>2
  <2>9. attempts[key] >= MaxAttempts => exhausted'
    BY <2>2
  <2>7. \A n \in Statement : attempts'[n] <= MaxAttempts + 1 /\ (attempts'[n] = MaxAttempts + 1 => exhausted')
    <3> SUFFICES ASSUME NEW n \in Statement
                 PROVE  attempts'[n] <= MaxAttempts + 1 /\ (attempts'[n] = MaxAttempts + 1 => attempts[key] >= MaxAttempts)
      BY <2>9
    <3>1. attempts[n] \in Nat /\ attempts[key] \in Nat /\ attempts[n] <= MaxAttempts
      BY <1>1, <2>1, <2>4
    <3>2. QED
      BY <1>1, <2>5, <3>1
  <2>8. QED
    BY <2>2, <2>3, <2>6, <2>7 DEF AttemptsInv, Statement
<1>4. CASE Call
  <2>1. CASE Op(Callee) = "ensure"
    <3> DEFINE key == EnsureKey(Callee)
    <3>1. key \in Statement
      BY <1>4, <2>1, CalleeFacts, EnsureFacts DEF Call, Accepted
    <3>2. /\ attempts' = [attempts EXCEPT ![key] = @ + 1] /\ program' = program /\ exhausted' = exhausted
          /\ attempts[key] < MaxAttempts
      BY <1>4, <2>1 DEF Call, Counted
    <3> HIDE DEF key
    <3>3. attempts' \in [Statement -> Nat]
      BY <1>1, <3>1, <3>2
    <3>4. \A n \in Statement : attempts'[n] = IF n = key THEN attempts[n] + 1 ELSE attempts[n]
      BY <1>1, <3>1, <3>2
    <3>5. \A n \in Statement : attempts'[n] <= MaxAttempts + 1 /\ (attempts'[n] = MaxAttempts + 1 => exhausted')
      BY <1>1, <3>1, <3>2, <3>4 DEF AttemptsInv
    <3>6. QED
      BY <1>1, <3>2, <3>3, <3>5 DEF AttemptsInv, Statement
  <2>2. CASE Op(Callee) # "ensure"
    BY <1>2, <1>4, <2>2 DEF Call
  <2>3. QED
    BY <2>1, <2>2
<1>5. CASE \E ok \in BOOLEAN : Returns(ok)
  <2>1. PICK ok \in BOOLEAN : Returns(ok)
    BY <1>5
  <2>2. /\ attempts' = IF ok /\ Op(Top.node) = "ensure"
                       THEN [attempts EXCEPT ![EnsureKey(Top.node)] = 0] ELSE attempts
        /\ program' = program /\ exhausted' = exhausted /\ Running
    BY <2>1 DEF Returns, Finish
  <2>3. CASE ok /\ Op(Top.node) = "ensure"
    <3> DEFINE key == EnsureKey(Top.node)
    <3>1. key \in Statement /\ attempts' = [attempts EXCEPT ![key] = 0]
      BY <2>2, <2>3, TopTypes, EnsureFacts
    <3> HIDE DEF key
    <3>2. attempts' \in [Statement -> Nat]
      BY <1>1, <3>1
    <3>3. \A n \in Statement : attempts'[n] = IF n = key THEN 0 ELSE attempts[n]
      BY <1>1, <3>1
    <3>4. \A n \in Statement : attempts'[n] <= MaxAttempts + 1 /\ (attempts'[n] = MaxAttempts + 1 => exhausted')
      BY <1>1, <2>2, <3>3 DEF AttemptsInv
    <3>5. QED
      BY <1>1, <2>2, <3>2, <3>4 DEF AttemptsInv, Statement
  <2>4. CASE ~(ok /\ Op(Top.node) = "ensure")
    BY <1>2, <2>2, <2>4
  <2>5. QED
    BY <2>3, <2>4
<1>6. CASE \/ Refuse \/ Throw \/ Check \/ Act \/ Arrive \/ Proceed
  BY <1>2, <1>6 DEF Refuse, Throw, Check, Act, RunLeaf, Arrive, Proceed, Quiet
<1>7. CASE Caught
  <2>1. Returns(FALSE)
    BY <1>7 DEF Caught, Returns, Quiet, Insists
  <2>2. QED
    BY <1>5, <2>1
<1>8. CASE EndPart
  <2>1. Running /\ UNCHANGED <<program, facts, exhausted>>
    BY <1>8 DEF EndPart, Quiet
  <2>2. PICK ok \in BOOLEAN : PartEnds(ok) /\ Ended(ok) /\ (Insists => ~ok)
    <3>1. (Op(Top.node) # "anyOf") \in BOOLEAN
      OBVIOUS
    <3>2. QED
      BY <1>8, <3>1 DEF EndPart, Insists, Ended
  <2>3. (\E g \in FrameType : Turns(g)) \/ \E v \in BOOLEAN : Returns(v)
    BY <2>1, <2>2, PartEndsFacts
  <2>4. QED
    BY <1>2, <1>5, <2>3 DEF Turns
<1>9. QED
  BY <1>3, <1>4, <1>5, <1>6, <1>7, <1>8 DEF Next, Evaluate

LEMMA TypesStep ==
  ASSUME Types, MarkInv, AttemptsInv, Next
  PROVE  Types'
<1>1. /\ attempts' \in [Statement -> Nat] /\ program' = program /\ exhausted' \in BOOLEAN
      /\ Statement' = Statement
  BY AttemptsStep DEF Statement
<1>2. FrameType' = FrameType /\ RecType' = RecType
  BY <1>1 DEF FrameType, RecType
<1>3. facts' \subseteq Fact
  <2>1. \A n \in Statement : FactOf(n) \in Fact
    BY ProgramFacts
  <2>2. Calling => Callee \in Statement
    BY CalleeFacts
  <2>3. facts' = facts \/ (\E p \in Fact : facts' \in {facts \union {p}, facts \ {p}})
    BY <2>1, <2>2, StatementsAssumption
    DEF Next, Evaluate, Refuse, Throw, Check, Act, RefuseEnsure, Call, Proceed, EndPart, Caught, Arrive, Quiet, Accepted
  <2>4. QED
    BY <2>3 DEF Types
<1>4. stack' \in Seq(FrameType) /\ records' \in Seq(RecType)
      /\ signal' \in {"none", "ok", "fail", "throw"} /\ outcome' \in {"running", "passed", "failed"}
  <2>1. CASE Stays
    BY <2>1 DEF Stays, Types
  <2>2. CASE Pushes
    BY <2>2, PushFacts DEF Pushes, Types
  <2>3. CASE \E ok \in BOOLEAN : Records(ok)
    <3>1. PICK ok \in BOOLEAN : Records(ok)
      BY <2>3
    <3>2. Callee \in Statement /\ CalleeMode \in Mode /\ CalleeSeq \in Seq(Int)
      BY <3>1, CalleeFacts, CalleePath DEF Records, Accepted
    <3>3. Record(Callee, CalleeMode, CalleeSeq, ok) \in RecType
      BY <3>2 DEF Record, RecType
    <3>4. QED
      BY <3>1, <3>3 DEF Records, Types
  <2>4. CASE \E g \in FrameType : Turns(g)
    <3>1. PICK g \in FrameType : Turns(g)
      BY <2>4
    <3>2. Top.mark \in 0..Len(records) /\ records \in Seq(RecType)
      BY <3>1, TopFacts, TopTypes DEF Turns, MarkInv, Types
    <3>3. records' \in Seq(RecType)
      BY <3>1, <3>2, PrefixFacts DEF Turns
    <3>4. QED
      BY <3>1, <3>3, TurnFacts DEF Turns, Types
  <2>5. CASE \E ok \in BOOLEAN : Returns(ok)
    <3>1. PICK ok \in BOOLEAN : Returns(ok)
      BY <2>5
    <3>2. Record(Top.node, Top.mode, Top.seq, ok) \in RecType
      BY <3>1, TopTypes DEF Returns, Record, RecType
    <3>5. records' \in {records, Append(records, Record(Top.node, Top.mode, Top.seq, ok))}
      BY <3>1 DEF Returns, Finish
    <3>6. records \in Seq(RecType)
      BY DEF Types
    <3>3. records' \in Seq(RecType)
      BY <3>2, <3>5, <3>6
    <3>4. QED
      BY <3>1, <3>3, ReturnFacts DEF Returns, Finish, Types
  <2>6. QED
    BY <2>1, <2>2, <2>3, <2>4, <2>5, Shapes
<1>5. QED
  BY <1>1, <1>2, <1>3, <1>4 DEF Types

\* The sequence paths of the frames are the prefixes of the last, from 1 on.
ChainInv ==
  \A f \in DOMAIN stack : /\ Len(stack[f].seq) = f /\ stack[f].seq[1] = 1
                          /\ \A g \in 1..f : \A i \in 1..g : stack[f].seq[i] = stack[g].seq[i]

\* Each frame keeps to what bounds it.
FramesInv ==
  /\ \A f \in DOMAIN stack : PartOK(stack[f]) /\ LoopsOK(stack[f])
  /\ Len(stack) <= MaxDepth
  /\ (outcome = "running") <=> Running

LEMMA FramesStep ==
  ASSUME Types, MarkInv, FramesInv, ChainInv, Next, program' = program, stack' \in Seq(FrameType)
  PROVE  FramesInv'
<1> DEFINE n == Len(stack)
           OK(g) == PartOK(g) /\ LoopsOK(g)
<1>1. /\ n \in Nat /\ stack \in Seq(FrameType) /\ DOMAIN stack = 1..n
      /\ DOMAIN stack' = 1..Len(stack') /\ MaxDepth \in Nat
      /\ \A f \in 1..n : OK(stack[f])
      /\ n <= MaxDepth /\ ((outcome = "running") <=> n > 0) /\ (Running <=> n > 0)
      /\ Running' <=> Len(stack') > 0
  BY StatementsAssumption DEF Types, FramesInv, Running
<1>2. (\A g : OK(g) <=> OK(g)')
  BY DEF PartOK, LoopsOK, Parts, Op
<1>3. SUFFICES /\ \A f \in 1..Len(stack') : OK(stack'[f])
               /\ Len(stack') <= MaxDepth /\ ((outcome' = "running") <=> Len(stack') > 0)
  BY <1>1, <1>2 DEF FramesInv
<1> HIDE DEF OK
<1>4. CASE Stays
  BY <1>1, <1>4 DEF Stays
<1>5. CASE \E ok \in BOOLEAN : Records(ok)
  BY <1>1, <1>5 DEF Records
<1>6. CASE Pushes
  <2> DEFINE g == Frame(Callee, CalleeMode, Op(Top.node) = "ensure", CalleeSeq)
  <2>1. /\ Calling /\ OK(g) /\ Len(stack') = n + 1 /\ stack'[n + 1] = g
        /\ \A f \in 1..n : stack'[f] = stack[f]
    BY <1>6, PushFacts DEF OK
  <2>2. Len(Top.seq) = n /\ Running /\ ~TooDeep /\ outcome' = outcome
    BY <1>6, <2>1, TopFacts DEF ChainInv, Pushes, Accepted, Calling
  <2> HIDE DEF g, n
  <2>3. n + 1 <= MaxDepth
    BY <1>1, <2>2 DEF TooDeep
  <2>4. \A f \in 1..n + 1 : f \in 1..n \/ f = n + 1
    BY <1>1
  <2>5. \A f \in 1..Len(stack') : OK(stack'[f])
    BY <1>1, <2>1, <2>4
  <2>6. QED
    BY <1>1, <2>1, <2>2, <2>3, <2>5
<1>7. CASE \E g \in FrameType : Turns(g)
  <2>1. PICK g \in FrameType : Turns(g)
    BY <1>7
  <2>2. /\ Running /\ Len(stack') = n /\ stack'[n] = g /\ outcome' = outcome
        /\ \A f \in 1..n - 1 : stack'[f] = stack[f]
    BY <2>1, TurnFacts DEF Turns
  <2>3. OK(Top)
    BY <1>1, <2>2 DEF Top
  <2>4. OK(g)
    BY <2>1, <2>3 DEF OK, Turns, PartOK, LoopsOK
  <2> HIDE DEF n
  <2>5. \A f \in 1..n : f \in 1..n - 1 \/ f = n
    BY <1>1
  <2>6. \A f \in 1..Len(stack') : OK(stack'[f])
    BY <1>1, <2>2, <2>4, <2>5
  <2>7. QED
    BY <1>1, <2>2, <2>6
<1>8. CASE \E ok \in BOOLEAN : Returns(ok)
  <2>1. PICK ok \in BOOLEAN : Returns(ok)
    BY <1>8
  <2>2. /\ Running /\ Len(stack') = n - 1
        /\ \A f \in 1..n - 1 : stack'[f] = stack[f]
    BY <2>1, ReturnFacts
  <2>3. IF n = 1 THEN outcome' # "running" ELSE outcome' = outcome
    BY <2>1 DEF Returns, Finish
  <2> HIDE DEF n
  <2>4. QED
    BY <1>1, <2>2, <2>3
<1>9. QED
  BY <1>4, <1>5, <1>6, <1>7, <1>8, Shapes

-----------------------------------------------------------------------------
(* The order of the stack.                                                  *)

\* A called statement runs in the mode of the part that calls it.
ModeInv ==
  /\ \A f \in DOMAIN stack : f > 1 => stack[f].mode = PartMode(stack[f - 1])
  /\ Running => stack[1].node = 1 /\ stack[1].mode = "authoritative"

LEMMA OrderStep ==
  ASSUME Types, MarkInv, ChainInv, ModeInv, Next, program' = program, stack' \in Seq(FrameType),
         records' \in Seq(RecType)
  PROVE  MarkInv' /\ ChainInv' /\ ModeInv'
<1> DEFINE n == Len(stack)
           m == Len(records)
           At(f) == Len(stack[f].seq) = f /\ stack[f].seq[1] = 1
           Extends(f, g) == \A i \in 1..g : stack[f].seq[i] = stack[g].seq[i]
<1>1. /\ n \in Nat /\ stack \in Seq(FrameType) /\ DOMAIN stack = 1..n /\ DOMAIN stack' = 1..Len(stack')
      /\ m \in Nat /\ records \in Seq(RecType)
      /\ \A f \in 1..n : stack[f] \in FrameType /\ stack[f].mark \in Nat
      /\ (Running <=> n > 0) /\ (Running' <=> Len(stack') > 0)
  <2>1. n \in Nat /\ stack \in Seq(FrameType) /\ DOMAIN stack = 1..n /\ m \in Nat /\ records \in Seq(RecType)
    BY DEF Types
  <2>2. DOMAIN stack' = 1..Len(stack') /\ (Running' <=> Len(stack') > 0)
    BY DEF Running
  <2>3. \A f \in 1..n : stack[f] \in FrameType
    BY <2>1
  <2>4. \A f \in 1..n : stack[f].mark \in Nat
    BY <2>3 DEF FrameType
  <2>5. Running <=> n > 0
    BY <2>1 DEF Running
  <2>6. QED
    BY <2>1, <2>2, <2>3, <2>4, <2>5
<1>2. /\ \A f \in 1..n : stack[f].mark <= m
      /\ \A f \in 1..n : \A g \in 1..f : stack[g].mark <= stack[f].mark
  BY <1>1 DEF MarkInv
<1>3. \A f \in 1..n : At(f) /\ \A g \in 1..f : Extends(f, g)
  BY <1>1 DEF ChainInv
<1>4. /\ \A f \in 1..n : f > 1 => stack[f].mode = PartMode(stack[f - 1])
      /\ n > 0 => stack[1].node = 1 /\ stack[1].mode = "authoritative"
  BY <1>1 DEF ModeInv
<1>6. CASE stack' = stack /\ Len(records') >= m
  <2>1. MarkInv'
    BY <1>1, <1>2, <1>6 DEF MarkInv
  <2>2. ChainInv'
    BY <1>6 DEF ChainInv
  <2>3. ModeInv'
    BY <1>6 DEF ModeInv, PartMode, Op, Running
  <2>4. QED
    BY <2>1, <2>2, <2>3
<1>7. CASE Pushes
  <2> DEFINE p == CalleeSeq
             q == CalleeMode
  <2>1. /\ Calling /\ Len(stack') = n + 1 /\ stack'[n + 1].seq = p /\ stack'[n + 1].mark = m
        /\ stack'[n + 1].mode = q /\ q = PartMode(Top) /\ Top = stack[n] /\ n > 0
        /\ \A f \in 1..n : stack'[f] = stack[f]
        /\ records' = records
    BY <1>7, PushFacts, TopFacts DEF Frame, CalleeMode, Calling, Pushes
  <2>2. Len(Top.seq) = n /\ Top.seq[1] = 1 /\ (\A g \in 1..n : \A i \in 1..g : Top.seq[i] = stack[g].seq[i])
    BY <1>1, <1>3, <2>1
  <2>3. Len(p) = n + 1 /\ \A i \in 1..n : p[i] = Top.seq[i]
    BY <2>1, <2>2, CalleePath
  <2>4. p[1] = 1 /\ \A g \in 1..n : \A i \in 1..g : p[i] = stack[g].seq[i]
    BY <1>1, <2>1, <2>2, <2>3
  <2> HIDE DEF n, m, p, q
  <2>5. \A f \in 1..n + 1 : f \in 1..n \/ f = n + 1
    BY <1>1
  <2>6. MarkInv'
    <3>1. \A f \in 1..n + 1 : stack'[f].mark <= m /\ stack'[f].mark \in Nat
      BY <1>1, <1>2, <2>1, <2>5
    <3>2. \A f \in 1..n + 1 : \A g \in 1..f : stack'[g].mark <= stack'[f].mark
      <4> SUFFICES ASSUME NEW f \in 1..n + 1, NEW g \in 1..f PROVE stack'[g].mark <= stack'[f].mark
        OBVIOUS
      <4>1. g \in 1..n + 1 /\ (f \in 1..n => g \in 1..n)
        BY <1>1
      <4>2. CASE f = n + 1
        BY <2>1, <3>1, <4>1, <4>2
      <4>3. CASE f \in 1..n
        BY <1>2, <2>1, <4>1, <4>3
      <4>4. QED
        BY <2>5, <4>2, <4>3
    <3>3. Len(records') = m
      BY <2>1 DEF m
    <3>4. QED
      BY <1>1, <2>1, <3>1, <3>2, <3>3 DEF MarkInv
  <2>7. ChainInv'
    <3> SUFFICES ASSUME NEW f \in 1..n + 1
                 PROVE  /\ Len(stack'[f].seq) = f /\ stack'[f].seq[1] = 1
                        /\ \A g \in 1..f : \A i \in 1..g : stack'[f].seq[i] = stack'[g].seq[i]
      BY <1>1, <2>1 DEF ChainInv
    <3>1. CASE f \in 1..n
      <4>1. \A g \in 1..f : g \in 1..n
        BY <1>1, <3>1
      <4>2. QED
        BY <1>3, <2>1, <3>1, <4>1
    <3>2. CASE f = n + 1
      <4>1. Len(stack'[f].seq) = f /\ stack'[f].seq[1] = 1
        BY <1>1, <2>1, <2>3, <2>4, <3>2
      <4>2. ASSUME NEW g \in 1..f, NEW i \in 1..g PROVE stack'[f].seq[i] = stack'[g].seq[i]
        <5>1. CASE g = n + 1
          BY <3>2, <5>1
        <5>2. CASE g \in 1..n
          <6>1. i \in 1..n
            BY <1>1, <5>2
          <6>2. stack'[g] = stack[g]
            BY <2>1, <5>2
          <6>3. QED
            BY <2>1, <2>3, <2>4, <3>2, <5>2, <6>1, <6>2
        <5>3. QED
          BY <2>5, <3>2, <5>1, <5>2
      <4>3. QED
        BY <4>1, <4>2
    <3>3. QED
      BY <2>5, <3>1, <3>2
  <2>8. ModeInv'
    <3>1. ASSUME NEW f \in 1..n + 1, f > 1 PROVE (stack[f].mode = PartMode(stack[f - 1]))'
      <4>1. f - 1 \in 1..n /\ (f \in 1..n \/ f = n + 1)
        BY <1>1, <3>1
      <4>2. stack'[f].mode = PartMode(stack[f - 1])
        BY <1>1, <1>4, <2>1, <3>1, <4>1
      <4>3. stack'[f - 1] = stack[f - 1]
        BY <2>1, <4>1
      <4>4. QED
        BY <4>2, <4>3 DEF PartMode, Op
    <3>2. stack'[1].node = 1 /\ stack'[1].mode = "authoritative"
      BY <1>1, <1>4, <2>1
    <3>3. QED
      BY <1>1, <2>1, <3>1, <3>2 DEF ModeInv
  <2>9. QED
    BY <2>6, <2>7, <2>8
<1>8. CASE \E g \in FrameType : Turns(g)
  <2>1. PICK g \in FrameType : Turns(g)
    BY <1>8
  <2>2. /\ Running /\ Len(stack') = n /\ stack'[n] = g /\ Top = stack[n] /\ n > 0
        /\ \A f \in 1..n - 1 : stack'[f] = stack[f]
        /\ g.node = Top.node /\ g.mode = Top.mode /\ g.seq = Top.seq
    <3>1. Running /\ g.node = Top.node /\ g.mode = Top.mode /\ g.seq = Top.seq
      BY <2>1 DEF Turns
    <3>2. n > 0 /\ Top = stack[n]
      BY <3>1, TopFacts
    <3>3. Len(stack') = n /\ stack'[n] = g /\ \A f \in 1..n - 1 : stack'[f] = stack[f]
      BY <2>1, TurnFacts
    <3>4. QED
      BY <3>1, <3>2, <3>3
  <2>3. \A f \in 1..n : /\ stack'[f].seq = stack[f].seq /\ stack'[f].mode = stack[f].mode
                        /\ stack'[f].node = stack[f].node
    BY <1>1, <2>2
  <2>4. Top.mark \in Nat /\ Top.mark <= m /\ Len(SubSeq(records, 1, Top.mark)) = Top.mark
    BY <1>1, <1>2, <2>2, PrefixFacts
  <2>5. g.mark \in Nat /\ Top.mark <= g.mark /\ g.mark <= Len(records')
    BY <1>1, <2>1, <2>4 DEF Turns
  <2> HIDE DEF n, m
  <2>6. MarkInv'
    <3>1. \A f \in 1..n : f \in 1..n - 1 \/ f = n
      BY <1>1
    <3>2. \A f \in 1..n - 1 : stack[f].mark <= Top.mark /\ f \in 1..n
      BY <1>1, <1>2, <2>2
    <3>3. \A f \in 1..n : stack'[f].mark <= g.mark /\ stack'[f].mark \in Nat
      BY <1>1, <2>2, <2>4, <2>5, <3>1, <3>2
    <3>4. \A f \in 1..n : stack'[f].mark <= Len(records')
      BY <1>1, <2>5, <3>3
    <3>5. \A f \in 1..n : \A h \in 1..f : stack'[h].mark <= stack'[f].mark
      <4> SUFFICES ASSUME NEW f \in 1..n, NEW h \in 1..f PROVE stack'[h].mark <= stack'[f].mark
        OBVIOUS
      <4>1. h \in 1..n
        BY <1>1
      <4>2. CASE f = n
        BY <2>2, <3>3, <4>1, <4>2
      <4>3. CASE f # n
        <5>1. f \in 1..n - 1 /\ h \in 1..n - 1
          BY <1>1, <4>3
        <5>2. stack[h].mark <= stack[f].mark
          BY <1>2, <4>1
        <5>3. QED
          BY <2>2, <5>1, <5>2
      <4>4. QED
        BY <4>2, <4>3
    <3>6. QED
      BY <1>1, <2>2, <3>4, <3>5 DEF MarkInv
  <2>7. ChainInv'
    <3> SUFFICES ASSUME NEW f \in 1..n
                 PROVE  /\ Len(stack'[f].seq) = f /\ stack'[f].seq[1] = 1
                        /\ \A h \in 1..f : \A i \in 1..h : stack'[f].seq[i] = stack'[h].seq[i]
      BY <1>1, <2>2 DEF ChainInv
    <3>1. \A h \in 1..f : h \in 1..n
      BY <1>1
    <3>2. QED
      BY <1>3, <2>3, <3>1
  <2>8. ModeInv'
    <3>1. ASSUME NEW f \in 1..n, f > 1 PROVE (stack[f].mode = PartMode(stack[f - 1]))'
      <4>1. f - 1 \in 1..n - 1
        BY <1>1, <3>1
      <4>2. stack'[f].mode = PartMode(stack[f - 1])
        BY <1>4, <2>3, <3>1
      <4>4. CASE f - 1 \in 1..n - 1
        <5>1. stack'[f - 1] = stack[f - 1]
          BY <2>2, <4>4
        <5>2. QED
          BY <4>2, <5>1 DEF PartMode, Op
      <4>5. QED
        BY <4>1, <4>4
    <3>2. stack'[1].node = 1 /\ stack'[1].mode = "authoritative"
      BY <1>1, <1>4, <2>2, <2>3
    <3>3. QED
      BY <1>1, <2>2, <3>1, <3>2 DEF ModeInv
  <2>9. QED
    BY <2>6, <2>7, <2>8
<1>9. CASE \E ok \in BOOLEAN : Returns(ok)
  <2>1. PICK ok \in BOOLEAN : Returns(ok)
    BY <1>9
  <2>2. /\ Running /\ Len(stack') = n - 1 /\ n > 0
        /\ \A f \in 1..n - 1 : stack'[f] = stack[f]
    BY <1>1, <2>1, ReturnFacts
  <2>3. records' \in {records, Append(records, Record(Top.node, Top.mode, Top.seq, ok))}
    BY <2>1 DEF Returns, Finish
  <2>4. Len(records') >= m
    <3>1. records' = records \/ \E r : records' = Append(records, r)
      BY <2>3
    <3>2. QED
      BY <1>1, <3>1
  <2> HIDE DEF n, m
  <2>5. \A f \in 1..n - 1 : f \in 1..n
    BY <1>1
  <2>6. MarkInv'
    <3>1. ASSUME NEW f \in 1..n - 1 PROVE stack'[f].mark <= Len(records')
      <4>1. stack'[f] = stack[f] /\ stack[f].mark <= m /\ stack[f].mark \in Nat
        BY <1>1, <1>2, <2>2, <2>5
      <4>2. m \in Nat /\ Len(records') \in Nat
        BY <1>1
      <4>3. QED
        BY <2>4, <4>1, <4>2
    <3>2. \A f \in 1..n - 1 : stack'[f].mark \in Nat
      BY <1>1, <2>2, <2>5
    <3>3. ASSUME NEW f \in 1..n - 1, NEW g \in 1..f PROVE stack'[g].mark <= stack'[f].mark
      <4>1. g \in 1..n - 1 /\ f \in 1..n
        BY <1>1
      <4>2. stack'[g] = stack[g] /\ stack'[f] = stack[f]
        BY <2>2, <4>1
      <4>3. QED
        BY <1>2, <4>1, <4>2
    <3>4. QED
      BY <2>2, <3>1, <3>2, <3>3 DEF MarkInv
  <2>7. ChainInv'
    <3>1. \A f \in 1..n - 1 : \A g \in 1..f : g \in 1..n - 1
      BY <1>1
    <3>2. QED
      BY <1>1, <1>3, <2>2, <2>5, <3>1 DEF ChainInv
  <2>8. ModeInv'
    <3>1. ASSUME NEW f \in 1..n - 1, f > 1 PROVE (stack[f].mode = PartMode(stack[f - 1]))'
      <4>1. f - 1 \in 1..n - 1
        BY <1>1, <3>1
      <4>2. stack'[f].mode = PartMode(stack[f - 1]) /\ stack'[f - 1] = stack[f - 1]
        BY <1>4, <2>2, <2>5, <3>1, <4>1
      <4>3. QED
        BY <4>2 DEF PartMode, Op
    <3>2. n - 1 > 0 => stack'[1].node = 1 /\ stack'[1].mode = "authoritative"
      BY <1>1, <1>4, <2>2
    <3>3. QED
      BY <1>1, <2>2, <3>1, <3>2 DEF ModeInv
  <2>9. QED
    BY <2>6, <2>7, <2>8
<1>10. CASE Stays
  BY <1>1, <1>6, <1>10 DEF Stays
<1>11. CASE \E ok \in BOOLEAN : Records(ok)
  <2>1. stack' = stack /\ \E r : records' = Append(records, r)
    BY <1>11 DEF Records
  <2>2. Len(records') >= m
    BY <1>1, <2>1
  <2>3. QED
    BY <1>6, <2>1, <2>2
<1>12. QED
  BY <1>7, <1>8, <1>9, <1>10, <1>11, Shapes

-----------------------------------------------------------------------------
(* Every step is recorded under a path of its own, inner steps first.       *)

PathsInv ==
  /\ \A i \in DOMAIN records : Len(records[i].seq) >= 2 /\ records[i].seq[1] = 1
  /\ SeqPathsNameSteps

\* What would lie between a path and the stack is a frame, and no record has its path.
LEMMA NoneAbove ==
  ASSUME Types, ChainInv, PathsInv, NEW s \in Seq(Int), Len(s) <= Len(stack) + 1,
         \A f \in 1..Len(stack) : f < Len(s) => \A i \in 1..f : s[i] = stack[f].seq[i],
         NEW j \in DOMAIN records
  PROVE  ~IsUnder(s, records[j].seq)
<1> DEFINE t == records[j].seq
           m == Len(t)
<1>1. records[j] \in RecType /\ DOMAIN stack = 1..Len(stack) /\ Len(stack) \in Nat
  BY DEF Types
<1>2. t \in Seq(Int) /\ m >= 2 /\ m \in Nat
  BY <1>1 DEF RecType, PathsInv
<1>3. SUFFICES ASSUME Len(s) > m, SubSeq(s, 1, m) = t PROVE FALSE
  BY DEF IsUnder
<1>4. m \in 0..Len(s) /\ m \in 1..Len(stack) /\ m < Len(s)
  BY <1>1, <1>2, <1>3
<1>12. stack[m] \in FrameType
  BY <1>1, <1>4 DEF Types
<1>13. Len(stack[m].seq) = m
  BY <1>1, <1>4 DEF ChainInv
<1>5. stack[m] \in FrameType /\ stack[m].seq \in Seq(Int) /\ Len(stack[m].seq) = m
  BY <1>12, <1>13 DEF FrameType
<1>6. t # stack[m].seq
  BY <1>1, <1>4 DEF PathsInv, SeqPathsNameSteps
<1> HIDE DEF m, t
<1>7. \A i \in 1..m : SubSeq(s, 1, m)[i] = s[i]
  BY <1>4
<1>8. \A i \in 1..m : t[i] = stack[m].seq[i]
  BY <1>3, <1>4, <1>7
<1>9. Len(t) = m
  BY DEF m
<1>10. t = stack[m].seq
  BY <1>2, <1>5, <1>8, <1>9, SeqEqual
<1>11. QED
  BY <1>6, <1>10

LEMMA AppendPaths ==
  ASSUME Types, PathsInv, NEW r \in RecType, records' = Append(records, r),
         Len(r.seq) >= 2, r.seq[1] = 1,
         \A i \in DOMAIN records : records[i].seq # r.seq /\ ~IsUnder(r.seq, records[i].seq),
         \A f \in DOMAIN stack' : stack'[f].seq # r.seq,
         \A i \in DOMAIN records : \A f \in DOMAIN stack' : records[i].seq # stack'[f].seq
  PROVE  PathsInv'
<1> DEFINE m == Len(records)
<1>1. records \in Seq(RecType) /\ m \in Nat /\ DOMAIN records = 1..m
  BY DEF Types
<1>2. Len(records') = m + 1 /\ DOMAIN records' = 1..m + 1 /\ records'[m + 1] = r
      /\ \A i \in 1..m : records'[i] = records[i]
  BY <1>1
<1>3. \A i \in 1..m + 1 : i \in 1..m \/ i = m + 1
  BY <1>1
<1>4. /\ \A i \in 1..m : Len(records[i].seq) >= 2 /\ records[i].seq[1] = 1
      /\ \A i, j \in 1..m : records[i].seq = records[j].seq => i = j
      /\ \A i, j \in 1..m : IsUnder(records[i].seq, records[j].seq) => i < j
  BY <1>1 DEF PathsInv, SeqPathsNameSteps
<1>5. ~IsUnder(r.seq, r.seq)
  <2>1. Len(r.seq) \in Nat
    BY DEF RecType
  <2>2. QED
    BY <2>1 DEF IsUnder
<1> HIDE DEF m
<1>6. \A i \in 1..m + 1 : Len(records'[i].seq) >= 2 /\ records'[i].seq[1] = 1
  BY <1>2, <1>3, <1>4
<1>7. \A i, j \in 1..m + 1 : records'[i].seq = records'[j].seq => i = j
  BY <1>1, <1>2, <1>3, <1>4
<1>8. \A i \in 1..m + 1 : \A f \in DOMAIN stack' : records'[i].seq # stack'[f].seq
  BY <1>1, <1>2, <1>3
<1>9. \A i, j \in 1..m + 1 : IsUnder(records'[i].seq, records'[j].seq) => i < j
  <2> SUFFICES ASSUME NEW i \in 1..m + 1, NEW j \in 1..m + 1, IsUnder(records'[i].seq, records'[j].seq)
               PROVE  i < j
    OBVIOUS
  <2>1. CASE i = m + 1
    BY <1>1, <1>2, <1>3, <1>5, <2>1
  <2>2. CASE i \in 1..m
    BY <1>1, <1>2, <1>3, <1>4, <2>2
  <2>3. QED
    BY <1>3, <2>1, <2>2
<1>10. QED
  BY <1>2, <1>6, <1>7, <1>8, <1>9 DEF PathsInv, SeqPathsNameSteps

LEMMA PathsStep ==
  ASSUME Types, MarkInv, ChainInv, PathsInv, Next
  PROVE  PathsInv'
<1> DEFINE n == Len(stack)
           m == Len(records)
<1>1. /\ n \in Nat /\ stack \in Seq(FrameType) /\ DOMAIN stack = 1..n
      /\ m \in Nat /\ records \in Seq(RecType) /\ DOMAIN records = 1..m
  BY DEF Types
<1>2. \A i \in 1..m : \A f \in 1..n : records[i].seq # stack[f].seq
  BY <1>1 DEF PathsInv, SeqPathsNameSteps
<1>3. \A f \in 1..n : Len(stack[f].seq) = f /\ stack[f].seq[1] = 1
                      /\ \A g \in 1..f : \A i \in 1..g : stack[f].seq[i] = stack[g].seq[i]
  BY <1>1 DEF ChainInv
\* The path of what is called.
<1>4. ASSUME Calling
      PROVE  /\ CalleeSeq \in Seq(Int) /\ Len(CalleeSeq) = n + 1 /\ CalleeSeq[1] = 1 /\ n > 0
             /\ \A f \in 1..n : \A i \in 1..f : CalleeSeq[i] = stack[f].seq[i]
             /\ \A i \in 1..m : records[i].seq # CalleeSeq
  <2>1. n > 0 /\ Top = stack[n]
    BY <1>4, TopFacts DEF Calling
  <2>2. Len(Top.seq) = n /\ Top.seq[1] = 1 /\ \A g \in 1..n : \A i \in 1..g : Top.seq[i] = stack[g].seq[i]
    BY <1>1, <1>3, <2>1
  <2>3. /\ CalleeSeq \in Seq(Int) /\ Len(CalleeSeq) = n + 1
        /\ \A i \in 1..n : CalleeSeq[i] = Top.seq[i]
        /\ \A i \in 1..m : records[i].seq # CalleeSeq
    BY <1>1, <1>4, <2>2, CalleePath
  <2>4. QED
    BY <1>1, <2>1, <2>2, <2>3
<1>5. CASE \E ok \in BOOLEAN : Records(ok)
  <2>1. PICK ok \in BOOLEAN : Records(ok)
    BY <1>5
  <2> DEFINE r == Record(Callee, CalleeMode, CalleeSeq, ok)
  <2>2. Calling /\ records' = Append(records, r) /\ stack' = stack
    BY <2>1 DEF Records, Accepted
  <2>3. r \in RecType /\ r.seq = CalleeSeq
    BY <1>4, <2>2, CalleeFacts DEF Record, RecType
  <2>4. \A f \in 1..n : stack[f].seq # CalleeSeq
    BY <1>1, <1>3, <1>4, <2>2
  <2>5. \A i \in DOMAIN records : ~IsUnder(CalleeSeq, records[i].seq)
    BY <1>4, <2>2, NoneAbove
  <2> HIDE DEF r
  <2>6. QED
    BY <1>1, <1>2, <1>4, <2>2, <2>3, <2>4, <2>5, AppendPaths
<1>6. CASE Pushes
  <2>1. /\ Calling /\ Len(stack') = n + 1 /\ stack'[n + 1].seq = CalleeSeq
        /\ \A f \in 1..n : stack'[f] = stack[f]
        /\ records' = records /\ DOMAIN stack' = 1..n + 1
    BY <1>6, PushFacts DEF Frame, Pushes
  <2>2. \A i \in 1..m : \A f \in 1..n + 1 : records[i].seq # stack'[f].seq
    <3> SUFFICES ASSUME NEW i \in 1..m, NEW f \in 1..n + 1 PROVE records[i].seq # stack'[f].seq
      OBVIOUS
    <3>1. CASE f \in 1..n
      <4>1. stack'[f] = stack[f]
        BY <2>1, <3>1
      <4>2. QED
        BY <1>2, <3>1, <4>1
    <3>2. CASE f = n + 1
      BY <1>4, <2>1, <3>2
    <3>3. QED
      BY <1>1, <3>1, <3>2
  <2>3. QED
    BY <1>1, <2>1, <2>2 DEF PathsInv, SeqPathsNameSteps
<1>7. CASE \E g \in FrameType : Turns(g)
  <2>1. PICK g \in FrameType : Turns(g)
    BY <1>7
  <2>2. Running /\ Len(stack') = n /\ DOMAIN stack' = 1..n /\ \A f \in 1..n : stack'[f].seq = stack[f].seq
    <3>1. Running /\ g.seq = Top.seq
      BY <2>1 DEF Turns
    <3>2. n > 0 /\ Top = stack[n]
      BY <3>1, TopFacts
    <3>3. /\ Len(stack') = n /\ stack'[n] = g /\ (\A f \in 1..n - 1 : stack'[f] = stack[f])
          /\ stack' \in Seq(FrameType)
      BY <2>1, TurnFacts
    <3> HIDE DEF n
    <3>4. \A f \in 1..n : f \in 1..n - 1 \/ f = n
      BY <1>1
    <3>5. QED
      BY <3>1, <3>2, <3>3, <3>4
  <2>3. PICK k \in 0..m : DOMAIN records' = 1..k /\ \A i \in 1..k : records'[i] = records[i] /\ i \in 1..m
    <3>1. Top.mark \in 0..m
      BY <1>1, <2>2, TopFacts, TopTypes DEF MarkInv
    <3>2. \/ records' = records
          \/ records' = SubSeq(records, 1, Top.mark)
      BY <2>1 DEF Turns
    <3> DEFINE q == Top.mark
    <3>3. q \in 0..m
      BY <3>1
    <3> HIDE DEF q
    <3>4. /\ DOMAIN SubSeq(records, 1, q) = 1..q
          /\ \A i \in 1..q : SubSeq(records, 1, q)[i] = records[i] /\ i \in 1..m
      BY <1>1, <3>3
    <3>5. CASE records' = records
      <4>1. m \in 0..m /\ DOMAIN records' = 1..m /\ \A i \in 1..m : records'[i] = records[i] /\ i \in 1..m
        BY <1>1, <3>5
      <4> HIDE DEF m
      <4>2. QED
        BY <4>1
    <3>6. CASE records' = SubSeq(records, 1, Top.mark)
      BY <3>3, <3>4, <3>6 DEF q
    <3>7. QED
      BY <3>2, <3>5, <3>6
  <2>4. QED
    BY <1>1, <2>2, <2>3 DEF PathsInv, SeqPathsNameSteps
<1>8. CASE \E ok \in BOOLEAN : Returns(ok)
  <2>1. PICK ok \in BOOLEAN : Returns(ok)
    BY <1>8
  <2> DEFINE r == Record(Top.node, Top.mode, Top.seq, ok)
  <2>2. /\ Running /\ Len(stack') = n - 1 /\ n > 0 /\ Top = stack[n] /\ DOMAIN stack' = 1..n - 1
        /\ \A f \in 1..n - 1 : stack'[f] = stack[f]
    <3>1. Running /\ Len(stack') = n - 1 /\ stack' \in Seq(FrameType) /\ \A f \in 1..n - 1 : stack'[f] = stack[f]
      BY <2>1, ReturnFacts
    <3>2. QED
      BY <3>1, TopFacts
  <2>3. /\ r \in RecType /\ r.seq = Top.seq /\ Top.seq \in Seq(Int) /\ Len(Top.seq) = n /\ Top.seq[1] = 1
        /\ \A f \in 1..n : \A i \in 1..f : Top.seq[i] = stack[f].seq[i]
    BY <1>1, <1>3, <2>1, <2>2, TopTypes DEF Record, RecType
  <2>4. records' = IF n = 1 THEN records ELSE Append(records, r)
    BY <2>1 DEF Returns, Finish
  <2>5. CASE n = 1
    BY <1>1, <2>2, <2>4, <2>5 DEF PathsInv, SeqPathsNameSteps
  <2>6. CASE n # 1
    <3>5. /\ Top.seq \in Seq(Int) /\ Len(Top.seq) <= Len(stack) + 1
          /\ \A f \in 1..Len(stack) : f < Len(Top.seq) => \A i \in 1..f : Top.seq[i] = stack[f].seq[i]
      BY <1>1, <2>3
    <3>1. \A i \in DOMAIN records : ~IsUnder(Top.seq, records[i].seq)
      BY <3>5, NoneAbove
    <3>2. \A i \in 1..m : records[i].seq # Top.seq
      BY <1>1, <1>2, <2>2
    <3>3. \A f \in 1..n - 1 : f \in 1..n /\ Len(stack'[f].seq) # n
      BY <1>1, <1>3, <2>2
    <3> HIDE DEF r, n
    <3>4. QED
      BY <1>1, <1>2, <2>2, <2>3, <2>4, <2>6, <3>1, <3>2, <3>3, AppendPaths
  <2>7. QED
    BY <2>5, <2>6
<1>9. CASE Stays
  BY <1>9 DEF Stays, PathsInv, SeqPathsNameSteps
<1>10. QED
  BY <1>5, <1>6, <1>7, <1>8, <1>9, Shapes

-----------------------------------------------------------------------------
(* The steps of a feature without until and ensure are numbered from 1 on,   *)
(* and the last of them is the one that failed.                              *)

Told == Used \intersect {"until", "ensure", "proven"} = {}

Numbers == {records[i].seq[2] : i \in {i \in DOMAIN records : Len(records[i].seq) = 2}}

NumbersInv ==
  /\ \A v \in Numbers : v >= 1 /\ \A w \in 1..v : w \in Numbers
  /\ Len(stack) <= 1 => \A i \in DOMAIN records : records[i].seq[2] \in Numbers
  /\ Len(stack) > 1 => /\ stack[2].seq[2] >= 1
                       /\ \A v \in 1..stack[2].seq[2] - 1 : v \in Numbers
                       /\ \A i \in DOMAIN records : records[i].seq[2] \in Numbers \union {stack[2].seq[2]}

Failed(i) == ~records[i].ok /\ records[i].mode = "authoritative"

BlameInv ==
  \A i \in DOMAIN records : Failed(i) =>
    /\ outcome = "failed" \/ (Running /\ signal = "fail" /\ PartMode(Top) = "authoritative")
    /\ \A j \in DOMAIN records : records[j].seq[2] <= records[i].seq[2]
    /\ Len(stack) > 1 => stack[2].seq[2] <= records[i].seq[2]

LEMMA ToldFacts ==
  ASSUME Told
  PROVE  \A n \in Statement : Op(n) \notin {"until", "ensure", "proven"}
  BY DEF Told, Used

LEMMA SeqFacts ==
  ASSUME Types, PathsInv
  PROVE  \A i \in DOMAIN records : /\ records[i].seq \in Seq(Int) /\ records[i].seq[2] \in Int
                                   /\ Len(records[i].seq) >= 2 /\ records[i].seq[1] = 1
<1> SUFFICES ASSUME NEW i \in DOMAIN records
             PROVE  /\ records[i].seq \in Seq(Int) /\ records[i].seq[2] \in Int
                    /\ Len(records[i].seq) >= 2 /\ records[i].seq[1] = 1
  OBVIOUS
<1>1. records[i] \in RecType
  BY DEF Types
<1>2. records[i].seq \in Seq(Int)
  BY <1>1 DEF RecType
<1>3. Len(records[i].seq) >= 2 /\ records[i].seq[1] = 1
  BY DEF PathsInv
<1>4. QED
  BY <1>2, <1>3

\* The feature itself counts its statements from 1 on.
LEMMA FirstNumber ==
  ASSUME Types, ChainInv, ModeInv, PathsInv, Calling, Len(stack) = 1
  PROVE  /\ CalleeSeq[2] \in Int /\ CalleeSeq[2] >= 1 /\ CalleeSeq[2] \notin Numbers
         /\ \A v \in 1..CalleeSeq[2] - 1 : v \in Numbers
<1> DEFINE p == Append(Top.seq, 1)
<1>1. Top = stack[1] /\ Len(Top.seq) = 1 /\ Top.seq[1] = 1 /\ Top.seq \in Seq(Int)
  BY TopFacts, TopTypes DEF ChainInv, Calling
<1>2. PartDir(Top) = 1
  <2>1. Top.node = 1 /\ Op(1) = "feature"
    BY <1>1, ProgramFacts DEF ModeInv, Calling
  <2>2. QED
    BY <2>1 DEF PartDir
<1> DEFINE t == Top.seq
<1>7. t \in Seq(Int) /\ Len(t) = 1 /\ t[1] = 1
  BY <1>1
<1> HIDE DEF t
<1>3. Len(p) = 2 /\ p \in Seq(Int) /\ p[1] = 1
  <2>1. p = Append(t, 1)
    BY DEF t
  <2> HIDE DEF p
  <2>2. p \in Seq(Int)
    BY <1>7, <2>1
  <2>7. ASSUME NEW q \in Seq(Int) PROVE Len(Append(q, 1)) = Len(q) + 1
    OBVIOUS
  <2>6. Len(p) = Len(t) + 1
    BY <1>7, <2>1, <2>7
  <2>3. Len(p) = 2
    BY <1>7, <2>6
  <2>4. p[1] = t[1]
    BY <1>7, <2>1
  <2>5. QED
    BY <1>7, <2>2, <2>3, <2>4
<1>4. /\ CalleeSeq \in Seq(Int) /\ Len(CalleeSeq) = 2 /\ CalleeSeq[2] >= 1 /\ CalleeSeq[2] \notin Taken(records, p)
      /\ \A v \in 1..CalleeSeq[2] - 1 : v \in Taken(records, p)
  BY <1>1, <1>2, <1>3, CalleePath
<1> HIDE DEF p
<1>5. Taken(records, p) = Numbers
  <2>1. ASSUME NEW s \in Seq(Int), Len(s) >= 2, s[1] = 1
        PROVE  SubSeq(s, 1, 1) = SubSeq(p, 1, 1)
    <3>1. ASSUME NEW q \in Seq(Int), Len(q) >= 2, q[1] = 1
          PROVE  SubSeq(q, 1, 1) \in Seq(Int) /\ Len(SubSeq(q, 1, 1)) = 1 /\ SubSeq(q, 1, 1)[1] = 1
      <4>1. 1 \in 0..Len(q) /\ 1 \in 1..1
        BY <3>1
      <4>2. QED
        BY <3>1, <4>1
    <3>2. \A i \in 1..1 : i = 1
      OBVIOUS
    <3>3. /\ SubSeq(s, 1, 1) \in Seq(Int) /\ Len(SubSeq(s, 1, 1)) = 1 /\ SubSeq(s, 1, 1)[1] = 1
          /\ SubSeq(p, 1, 1) \in Seq(Int) /\ Len(SubSeq(p, 1, 1)) = 1 /\ SubSeq(p, 1, 1)[1] = 1
      BY <1>3, <2>1, <3>1
    <3>4. QED
      BY <3>2, <3>3, SeqEqual
  <2>2. \A i \in DOMAIN records : SubSeq(records[i].seq, 1, 1) = SubSeq(p, 1, 1)
    BY <2>1, SeqFacts
  <2>3. QED
    BY <1>3, <2>2 DEF Taken, Numbers
<1>6. QED
  BY <1>4, <1>5

\* While a step of the feature runs, its number is the largest.
LEMMA Latest ==
  ASSUME Types, ChainInv, PathsInv, NumbersInv, Len(stack) > 1
  PROVE  /\ stack[2].seq[2] \in Int /\ stack[2].seq[2] \notin Numbers
         /\ \A i \in DOMAIN records : records[i].seq[2] <= stack[2].seq[2]
<1> DEFINE s == stack[2].seq
<1>1. 2 \in DOMAIN stack /\ stack[2] \in FrameType
  BY DEF Types
<1>2. s \in Seq(Int) /\ Len(s) = 2 /\ s[1] = 1
  <2>1. s \in Seq(Int)
    BY <1>1 DEF FrameType
  <2>2. Len(s) = 2 /\ s[1] = 1
    BY <1>1 DEF ChainInv
  <2>3. QED
    BY <2>1, <2>2
<1>3. s[2] \in Int
  BY <1>2
<1>4. \A i \in DOMAIN records : records[i].seq # s
  BY <1>1 DEF PathsInv, SeqPathsNameSteps
<1>5. s[2] >= 1 /\ \A i \in DOMAIN records : records[i].seq[2] \in Numbers \union {s[2]}
  BY DEF NumbersInv
<1> HIDE DEF s
<1>6. s[2] \notin Numbers
  <2> SUFFICES ASSUME NEW i \in DOMAIN records, Len(records[i].seq) = 2, records[i].seq[2] = s[2]
               PROVE  FALSE
    BY DEF Numbers
  <2>1. records[i].seq \in Seq(Int) /\ records[i].seq[1] = 1
    BY SeqFacts
  <2>2. \A k \in 1..2 : records[i].seq[k] = s[k]
    <3>1. \A k \in 1..2 : k = 1 \/ k = 2
      OBVIOUS
    <3>2. QED
      BY <1>2, <2>1, <3>1
  <2>3. records[i].seq = s
    BY <1>2, <2>1, <2>2, SeqEqual
  <2>4. QED
    BY <1>4, <2>3
<1>7. \A v \in Numbers : v <= s[2]
  <2> SUFFICES ASSUME NEW v \in Numbers, v > s[2] PROVE FALSE
    <3>1. \A v \in Numbers : v \in Int
      BY SeqFacts DEF Numbers
    <3>2. QED
      BY <1>3, <3>1
  <2>1. v \in Int
    BY SeqFacts DEF Numbers
  <2>2. s[2] \in 1..v
    BY <1>3, <1>5, <2>1
  <2>3. QED
    BY <1>6, <2>2 DEF NumbersInv
<1>8. QED
  BY <1>3, <1>5, <1>6, <1>7 DEF s

LEMMA NumbersAppend ==
  ASSUME Types, NEW r \in RecType, records' = Append(records, r)
  PROVE  Numbers' = Numbers \union (IF Len(r.seq) = 2 THEN {r.seq[2]} ELSE {})
<1> DEFINE m == Len(records)
<1>1. records \in Seq(RecType) /\ m \in Nat /\ DOMAIN records = 1..m
  BY DEF Types
<1>2. Len(records') = m + 1 /\ DOMAIN records' = 1..m + 1 /\ records'[m + 1] = r
      /\ \A i \in 1..m : records'[i] = records[i]
  BY <1>1
<1>3. 1..m + 1 = (1..m) \union {m + 1}
  BY <1>1
<1> HIDE DEF m
<1>4. \A v : v \in Numbers' <=> \E i \in (1..m) \union {m + 1} : Len(records'[i].seq) = 2 /\ v = records'[i].seq[2]
  BY <1>2, <1>3 DEF Numbers
<1>5. \A v : v \in Numbers <=> \E i \in 1..m : Len(records[i].seq) = 2 /\ v = records[i].seq[2]
  BY <1>1 DEF Numbers
<1>6. \A v : v \in Numbers' <=> v \in Numbers \/ (Len(r.seq) = 2 /\ v = r.seq[2])
  <2> SUFFICES ASSUME NEW v PROVE v \in Numbers' <=> v \in Numbers \/ (Len(r.seq) = 2 /\ v = r.seq[2])
    OBVIOUS
  <2>1. (\E i \in (1..m) \union {m + 1} : Len(records'[i].seq) = 2 /\ v = records'[i].seq[2])
          <=> \/ \E i \in 1..m : Len(records[i].seq) = 2 /\ v = records[i].seq[2]
              \/ Len(r.seq) = 2 /\ v = r.seq[2]
    BY <1>2
  <2>2. QED
    BY <1>4, <1>5, <2>1
<1>7. QED
  BY <1>6

\* What a step under one of the feature's is recorded under, and what the call of one is.
LEMMA CalleeNumber ==
  ASSUME Types, ChainInv, ModeInv, PathsInv, NumbersInv, Calling
  PROVE  /\ CalleeSeq \in Seq(Int) /\ Len(CalleeSeq) = Len(stack) + 1 /\ Len(stack) > 0
         /\ CalleeSeq[2] \in Int
         /\ Len(stack) > 1 => CalleeSeq[2] = stack[2].seq[2]
         /\ \A i \in DOMAIN records : records[i].seq[2] <= CalleeSeq[2]
<1>1. Len(stack) \in Nat \ {0} /\ Top = stack[Len(stack)] /\ Top \in FrameType /\ DOMAIN stack = 1..Len(stack)
  BY TopFacts DEF Calling
<1>2. Len(Top.seq) = Len(stack) /\ (Len(stack) > 1 => Top.seq[2] = stack[2].seq[2])
  BY <1>1 DEF ChainInv
<1>3. /\ CalleeSeq \in Seq(Int) /\ Len(CalleeSeq) = Len(stack) + 1
      /\ Len(stack) > 1 => CalleeSeq[2] = Top.seq[2]
  BY <1>1, <1>2, CalleePath
<1>4. CalleeSeq[2] \in Int
  BY <1>1, <1>3
<1>5. CASE Len(stack) > 1
  BY <1>1, <1>2, <1>3, <1>4, <1>5, Latest
<1>6. CASE Len(stack) = 1
  <2>1. /\ CalleeSeq[2] >= 1 /\ CalleeSeq[2] \notin Numbers
    BY <1>6, FirstNumber
  <2>2. \A i \in DOMAIN records : records[i].seq[2] \in Numbers /\ records[i].seq[2] \in Int
    BY <1>6, SeqFacts DEF NumbersInv
  <2>3. ASSUME NEW i \in DOMAIN records, records[i].seq[2] > CalleeSeq[2] PROVE FALSE
    <3>1. CalleeSeq[2] \in 1..records[i].seq[2]
      BY <1>4, <2>1, <2>2, <2>3
    <3>2. QED
      BY <2>1, <2>2, <3>1 DEF NumbersInv
  <2>4. \A i \in DOMAIN records : records[i].seq[2] <= CalleeSeq[2]
    BY <1>4, <2>2, <2>3
  <2>5. QED
    BY <1>1, <1>3, <1>4, <1>6, <2>4
<1>7. QED
  BY <1>1, <1>5, <1>6

LEMMA NumbersStep ==
  ASSUME Types, MarkInv, ChainInv, ModeInv, PathsInv, NumbersInv, Told, Next
  PROVE  NumbersInv'
<1> DEFINE n == Len(stack)
           m == Len(records)
           s == stack[2].seq[2]
           N == Numbers
           K == Numbers'
           q == CalleeSeq[2]
           All(S) == \A i \in 1..m : records[i].seq[2] \in S
           Full(S) == \A v \in S : v >= 1 /\ \A w \in 1..v : w \in S
           UpTo(v, S) == v >= 1 /\ \A w \in 1..v - 1 : w \in S
<1>1. /\ n \in Nat /\ stack \in Seq(FrameType) /\ DOMAIN stack = 1..n
      /\ m \in Nat /\ records \in Seq(RecType) /\ DOMAIN records = 1..m
  BY DEF Types
<1>2. Full(N) /\ (n <= 1 => All(N)) /\ (n > 1 => UpTo(s, N) /\ All(N \union {s}))
  BY <1>1 DEF NumbersInv
<1>3. ASSUME records' = records PROVE K = N /\ DOMAIN records' = 1..m
  <2>1. Numbers' = Numbers
    BY <1>3 DEF Numbers
  <2>2. DOMAIN records' = 1..m
    BY <1>1, <1>3
  <2>3. QED
    BY <2>1, <2>2
<1>4. CASE stack' = stack /\ records' = records
  <2>1. K = N /\ DOMAIN records' = 1..m
    BY <1>3, <1>4
  <2> HIDE DEF K, N
  <2>2. QED
    BY <1>1, <1>2, <1>4, <2>1 DEF NumbersInv, K
<1>5. CASE \E ok \in BOOLEAN : Records(ok)
  <2>1. PICK ok \in BOOLEAN : Records(ok)
    BY <1>5
  <2> DEFINE r == Record(Callee, CalleeMode, CalleeSeq, ok)
  <2>2. Calling /\ records' = Append(records, r) /\ stack' = stack
    BY <2>1 DEF Records, Accepted
  <2>3. r \in RecType /\ r.seq = CalleeSeq
    BY <2>2, CalleeFacts, CalleePath DEF Record, RecType
  <2>4. Len(CalleeSeq) = n + 1 /\ n > 0 /\ q \in Int /\ (n > 1 => q = s)
    BY <2>2, CalleeNumber
  <2>5. K = N \union (IF Len(CalleeSeq) = 2 THEN {q} ELSE {})
    BY <2>2, <2>3, NumbersAppend
  <2>6. DOMAIN records' = 1..m + 1 /\ records'[m + 1].seq[2] = q /\ \A i \in 1..m : records'[i] = records[i]
    BY <1>1, <2>2, <2>3
  <2>7. \A i \in 1..m + 1 : i \in 1..m \/ i = m + 1
    BY <1>1
  <2>8. CASE n = 1
    <3>1. K = N \union {q}
      BY <2>4, <2>5, <2>8
    <3>2. q >= 1 /\ \A v \in 1..q - 1 : v \in N
      BY <2>2, <2>8, FirstNumber
    <3> HIDE DEF n, m, s, N, K, q, r
    <3>3. \A w \in 1..q : w \in 1..q - 1 \/ w = q
      BY <2>4
    <3>4. Full(K)
      BY <1>2, <3>1, <3>2, <3>3
    <3>5. \A i \in DOMAIN records' : records'[i].seq[2] \in K
      BY <1>2, <2>6, <2>7, <2>8, <3>1
    <3>6. Len(stack') = 1
      BY <2>2, <2>8 DEF n
    <3>7. QED
      BY <3>4, <3>5, <3>6 DEF NumbersInv, K
  <2>9. CASE n > 1
    <3>1. K = N
      BY <1>1, <2>4, <2>5, <2>9
    <3> HIDE DEF m, N, K, q, r
    <3>2. \A i \in DOMAIN records' : records'[i].seq[2] \in K \union {s}
      BY <1>2, <2>4, <2>6, <2>7, <2>9, <3>1
    <3> HIDE DEF s
    <3>3. QED
      BY <1>2, <2>2, <2>9, <3>1, <3>2 DEF NumbersInv, K, s
  <2>10. QED
    BY <1>1, <2>4, <2>8, <2>9
<1>6. CASE Pushes
  <2>1. /\ Calling /\ Len(stack') = n + 1 /\ stack'[n + 1].seq = CalleeSeq
        /\ \A f \in 1..n : stack'[f] = stack[f]
        /\ records' = records
    BY <1>6, PushFacts DEF Frame, Pushes
  <2>2. K = N /\ DOMAIN records' = 1..m
    BY <1>3, <2>1
  <2>3. n > 0
    BY <2>1, CalleeNumber
  <2>4. CASE n = 1
    <3>1. q >= 1 /\ (\A v \in 1..q - 1 : v \in N) /\ stack'[2].seq[2] = q
      BY <2>1, <2>4, FirstNumber
    <3>2. All(N)
      BY <1>2, <2>4
    <3> HIDE DEF N, K
    <3>3. QED
      BY <1>2, <2>1, <2>2, <2>4, <3>1, <3>2 DEF NumbersInv, K
  <2>5. CASE n > 1
    <3>1. stack'[2] = stack[2]
      BY <1>1, <2>1, <2>5
    <3> HIDE DEF N, K
    <3>2. QED
      BY <1>1, <1>2, <2>1, <2>2, <2>5, <3>1 DEF NumbersInv, K
  <2>6. QED
    BY <1>1, <2>3, <2>4, <2>5
<1>7. CASE \E g \in FrameType : Turns(g)
  <2>1. PICK g \in FrameType : Turns(g)
    BY <1>7
  <2>2. records' = records /\ Running /\ g.seq = Top.seq
    BY <2>1, ToldFacts, TopTypes DEF Turns
  <2>3. Len(stack') = n /\ stack'[n] = g /\ (\A f \in 1..n - 1 : stack'[f] = stack[f]) /\ Top = stack[n]
    BY <2>1, <2>2, TurnFacts, TopFacts
  <2>4. n > 1 => stack'[2].seq = stack[2].seq
    BY <1>1, <2>2, <2>3
  <2>5. K = N /\ DOMAIN records' = 1..m
    BY <1>3, <2>2
  <2> HIDE DEF N, K
  <2>6. QED
    BY <1>1, <1>2, <2>2, <2>3, <2>4, <2>5 DEF NumbersInv, K
<1>8. CASE \E ok \in BOOLEAN : Returns(ok)
  <2>1. PICK ok \in BOOLEAN : Returns(ok)
    BY <1>8
  <2> DEFINE r == Record(Top.node, Top.mode, Top.seq, ok)
  <2>2. /\ Running /\ Len(stack') = n - 1 /\ n > 0 /\ Top = stack[n]
        /\ \A f \in 1..n - 1 : stack'[f] = stack[f]
    BY <2>1, ReturnFacts, TopFacts
  <2>3. /\ r \in RecType /\ r.seq = Top.seq /\ Len(Top.seq) = n /\ (n > 1 => Top.seq[2] = s)
    <3>1. r \in RecType /\ r.seq = Top.seq
      BY <2>1, <2>2, TopTypes DEF Record, RecType
    <3>2. Len(Top.seq) = n /\ (n > 1 => Top.seq[2] = s)
      BY <1>1, <2>2 DEF ChainInv
    <3>3. QED
      BY <3>1, <3>2
  <2>4. records' = IF n = 1 THEN records ELSE Append(records, r)
    BY <2>1 DEF Returns, Finish
  <2>5. CASE n = 1
    <3>1. K = N /\ DOMAIN records' = 1..m /\ Len(stack') = 0 /\ records' = records
      BY <1>3, <2>2, <2>4, <2>5
    <3>2. All(N)
      BY <1>2, <2>5
    <3> HIDE DEF N, K
    <3>3. QED
      BY <1>2, <3>1, <3>2 DEF NumbersInv, K
  <2>6. CASE n > 1
    <3>1. records' = Append(records, r)
      BY <1>1, <2>4, <2>6
    <3>2. K = N \union (IF n = 2 THEN {s} ELSE {})
      BY <2>3, <2>6, <3>1, NumbersAppend
    <3>3. DOMAIN records' = 1..m + 1 /\ records'[m + 1].seq[2] = s /\ \A i \in 1..m : records'[i] = records[i]
      BY <1>1, <2>3, <2>6, <3>1
    <3>4. s \in Int
      BY <2>6, Latest
    <3> HIDE DEF m, N, K, r
    <3>5. \A i \in 1..m + 1 : i \in 1..m \/ i = m + 1
      BY <1>1
    <3>6. \A i \in DOMAIN records' : records'[i].seq[2] \in N \union {s}
      BY <1>2, <2>6, <3>3, <3>5
    <3>7. CASE n = 2
      <4>1. K = N \union {s} /\ Len(stack') = 1
        BY <2>2, <3>2, <3>7
      <4> HIDE DEF s, n
      <4>2. \A w \in 1..s : w \in 1..s - 1 \/ w = s
        BY <3>4
      <4>3. Full(K)
        BY <1>2, <2>6, <4>1, <4>2
      <4>4. QED
        BY <3>6, <4>1, <4>3 DEF NumbersInv, K
    <3>8. CASE n > 2
      <4>1. K = N /\ Len(stack') > 1 /\ stack'[2] = stack[2]
        BY <1>1, <2>2, <3>2, <3>8
      <4>2. QED
        BY <1>2, <2>6, <3>6, <4>1 DEF NumbersInv, K
    <3>9. QED
      BY <1>1, <2>6, <3>7, <3>8
  <2>7. QED
    BY <1>1, <2>2, <2>5, <2>6
<1>9. CASE Stays
  BY <1>4, <1>9 DEF Stays
<1>10. QED
  BY <1>5, <1>6, <1>7, <1>8, <1>9, Shapes

\* Only while a failed step ends what insisted on it is there one to blame.
LEMMA NoneFailed ==
  ASSUME FramesInv, BlameInv, Running, ~(signal = "fail" /\ PartMode(Top) = "authoritative")
  PROVE  \A i \in DOMAIN records : ~Failed(i)
<1>1. outcome # "failed"
  BY DEF FramesInv
<1>2. QED
  BY <1>1 DEF BlameInv

LEMMA BlameStep ==
  ASSUME Types, MarkInv, FramesInv, ChainInv, ModeInv, PathsInv, NumbersInv, BlameInv, Told, Next,
         program' = program
  PROVE  BlameInv'
<1> DEFINE n == Len(stack)
           m == Len(records)
           s == stack[2].seq[2]
           Num(i) == records[i].seq[2]
           Blame(r) == ~r.ok /\ r.mode = "authoritative"
<1>1. /\ n \in Nat /\ stack \in Seq(FrameType) /\ DOMAIN stack = 1..n
      /\ m \in Nat /\ records \in Seq(RecType) /\ DOMAIN records = 1..m
  BY DEF Types
<1>2. ASSUME Running, ~(signal = "fail" /\ PartMode(Top) = "authoritative") PROVE \A i \in 1..m : ~Blame(records[i])
  BY <1>1, <1>2, NoneFailed DEF Failed
<1>3. ASSUME \A i \in 1..m : ~Blame(records[i]), records' = records PROVE BlameInv'
  BY <1>1, <1>3 DEF BlameInv, Failed
<1>4. CASE \E ok \in BOOLEAN : Records(ok)
  <2>1. PICK ok \in BOOLEAN : Records(ok)
    BY <1>4
  <2> DEFINE r == Record(Callee, CalleeMode, CalleeSeq, ok)
             q == CalleeSeq[2]
  <2>2. /\ Calling /\ Running /\ signal = "none" /\ records' = Append(records, r) /\ stack' = stack
        /\ signal' = (IF ok THEN "ok" ELSE "fail")
    BY <2>1 DEF Records, Accepted, Calling
  <2>3. \A i \in 1..m : ~Blame(records[i])
    BY <1>2, <2>2
  <2>4. DOMAIN records' = 1..m + 1 /\ records'[m + 1] = r /\ \A i \in 1..m : records'[i] = records[i]
    BY <1>1, <2>2
  <2>5. \A i \in 1..m + 1 : i \in 1..m \/ i = m + 1
    BY <1>1
  <2>6. r.seq[2] = q /\ r.mode = PartMode(Top) /\ r.ok = ok
    BY DEF Record, CalleeMode
  <2>7. q \in Int /\ (n > 1 => s = q) /\ \A i \in 1..m : Num(i) <= q
    BY <1>1, <2>2, CalleeNumber
  <2>8. (PartMode(Top) = PartMode(Top)') /\ (Running <=> Running')
    BY <2>2 DEF PartMode, Op, Top, Running
  <2>9. Len(stack') = n /\ stack'[2].seq[2] = s
    BY <2>2
  <2>10. \A j \in 1..m + 1 : records'[j].seq[2] <= q
    BY <2>4, <2>5, <2>6, <2>7
  <2>11. ASSUME NEW i \in 1..m + 1, Failed(i)'
         PROVE  /\ i = m + 1 /\ Running' /\ signal' = "fail" /\ PartMode(Top)' = "authoritative"
                /\ records'[i].seq[2] = q
    <3>1. i = m + 1
      BY <2>3, <2>4, <2>5, <2>11 DEF Failed
    <3>2. ~ok /\ PartMode(Top) = "authoritative"
      BY <2>4, <2>6, <2>11, <3>1 DEF Failed
    <3>3. QED
      BY <2>2, <2>4, <2>6, <2>8, <3>1, <3>2
  <2> HIDE DEF n, m, s, q, r
  <2>12. QED
    BY <2>4, <2>7, <2>9, <2>10, <2>11 DEF BlameInv
<1>5. CASE Pushes
  <2>1. Running /\ signal = "none" /\ records' = records
    BY <1>5 DEF Pushes, Accepted, Calling
  <2>2. QED
    BY <1>2, <1>3, <2>1
<1>6. CASE \E g \in FrameType : Turns(g)
  <2>1. PICK g \in FrameType : Turns(g)
    BY <1>6
  <2>2. records' = records /\ Running
    BY <2>1, ToldFacts, TopTypes DEF Turns
  <2>3. ~(signal = "fail" /\ PartMode(Top) = "authoritative")
    BY <2>1, <2>2, ToldFacts, TopTypes DEF Turns, Insists
  <2>4. QED
    BY <1>2, <1>3, <2>2, <2>3
<1>7. CASE \E ok \in BOOLEAN : Returns(ok)
  <2>1. PICK ok \in BOOLEAN : Returns(ok)
    BY <1>7
  <2> DEFINE r == Record(Top.node, Top.mode, Top.seq, ok)
             A == PartMode(Top) = "authoritative"
  <2>2. /\ Running /\ Len(stack') = n - 1 /\ n > 0 /\ Top = stack[n] /\ n \in DOMAIN stack
        /\ \A f \in 1..n - 1 : stack'[f] = stack[f]
    <3>1. Running /\ Len(stack') = n - 1 /\ \A f \in 1..n - 1 : stack'[f] = stack[f]
      BY <2>1, ReturnFacts
    <3>2. n > 0 /\ Top = stack[n] /\ n \in DOMAIN stack
      BY <3>1, TopFacts
    <3>3. QED
      BY <3>1, <3>2
  <2>3. /\ records' = IF n = 1 THEN records ELSE Append(records, r)
        /\ signal' = IF n = 1 THEN signal ELSE IF ok THEN "ok" ELSE "fail"
        /\ outcome' = IF n # 1 THEN outcome ELSE IF ok THEN "passed" ELSE "failed"
    BY <2>1 DEF Returns, Finish
  <2>4. ASSUME NEW i \in 1..m, Blame(records[i])
        PROVE  ~ok /\ Top.mode = "authoritative"
    <3>1. signal = "fail" /\ A
      BY <1>2, <2>2, <2>4
    <3>2. Op(Top.node) \notin {"until", "ensure", "proven"}
      BY <2>2, ToldFacts, TopTypes
    <3>3. ~ok
      BY <2>1, <3>1, <3>2 DEF Returns, Insists
    <3>4. Top.mode = "authoritative"
      BY <3>1, <3>2 DEF PartMode
    <3>5. QED
      BY <3>3, <3>4
  <2>5. CASE n = 1
    <3>1. records' = records /\ Len(stack') = 0 /\ outcome' = (IF ok THEN "passed" ELSE "failed")
      BY <2>2, <2>3, <2>5
    <3>2. \A i \in 1..m : Blame(records[i]) => outcome' = "failed" /\ \A j \in 1..m : Num(j) <= Num(i)
      BY <1>1, <2>4, <3>1 DEF BlameInv, Failed
    <3>3. QED
      BY <1>1, <3>1, <3>2 DEF BlameInv, Failed
  <2>6. CASE n > 1
    <3>1. /\ records' = Append(records, r) /\ signal' = (IF ok THEN "ok" ELSE "fail") /\ Len(stack') = n - 1
      BY <1>1, <2>2, <2>3, <2>6
    <3>2. DOMAIN records' = 1..m + 1 /\ records'[m + 1] = r /\ \A i \in 1..m : records'[i] = records[i]
      BY <1>1, <3>1
    <3>3. \A i \in 1..m + 1 : i \in 1..m \/ i = m + 1
      BY <1>1
    <3>4. s \in Int /\ \A i \in 1..m : Num(i) <= s
      BY <1>1, <2>6, Latest
    <3>5. r.seq[2] = s /\ r.mode = Top.mode /\ r.ok = ok
      BY <1>1, <2>2, <2>6 DEF Record, ChainInv
    <3>6. Running' /\ Top' = stack[n - 1]
      <4>1. stack' # <<>>
        BY <2>6, <3>1, <1>1
      <4>2. n - 1 \in 1..n - 1
        BY <1>1, <2>6
      <4>3. QED
        BY <2>2, <3>1, <4>1, <4>2 DEF Running, Top
    <3>7. PartMode(Top)' = Top.mode
      <4>1. Top.mode = PartMode(stack[n - 1])
        BY <1>1, <2>2, <2>6 DEF ModeInv
      <4>2. QED
        BY <3>6, <4>1 DEF PartMode, Op
    <3>8. n - 1 > 1 => stack'[2].seq[2] = s
      BY <1>1, <2>2
    <3>9. ASSUME NEW i \in 1..m + 1, Failed(i)'
          PROVE  /\ Running' /\ signal' = "fail" /\ PartMode(Top)' = "authoritative"
                 /\ records'[i].seq[2] \in Int /\ s <= records'[i].seq[2]
                 /\ \A j \in 1..m : Num(j) <= records'[i].seq[2]
      <4>1. CASE i \in 1..m
        <5>1. Blame(records[i])
          BY <3>2, <3>9, <4>1 DEF Failed
        <5>2. ~ok /\ Top.mode = "authoritative"
          BY <2>4, <4>1, <5>1
        <5>3. s <= Num(i) /\ \A j \in 1..m : Num(j) <= Num(i)
          BY <1>1, <2>6, <4>1, <5>1 DEF BlameInv, Failed
        <5>4. Num(i) \in Int
          BY <1>1, <4>1, SeqFacts
        <5>5. QED
          BY <3>1, <3>2, <3>6, <3>7, <4>1, <5>2, <5>3, <5>4
      <4>2. CASE i = m + 1
        <5>1. ~ok /\ Top.mode = "authoritative"
          BY <3>2, <3>5, <3>9, <4>2 DEF Failed
        <5>2. QED
          BY <3>1, <3>2, <3>4, <3>5, <3>6, <3>7, <4>2, <5>1
      <4>3. QED
        BY <3>3, <4>1, <4>2
    <3> HIDE DEF n, m, s, r
    <3>10. \A j \in 1..m + 1 : (j \in 1..m /\ records'[j].seq[2] = Num(j)) \/ records'[j].seq[2] = s
      BY <3>2, <3>3, <3>5
    <3>11. \A i \in 1..m + 1 : Failed(i)' => \A j \in 1..m + 1 : records'[j].seq[2] <= records'[i].seq[2]
      BY <3>9, <3>10
    <3>12. QED
      BY <3>1, <3>2, <3>8, <3>9, <3>11 DEF BlameInv
  <2>7. QED
    BY <1>1, <2>2, <2>5, <2>6
<1>8. CASE Stays
  <2>1. CASE UNCHANGED <<signal, exhausted>>
    BY <1>8, <2>1 DEF Stays, BlameInv, Failed, PartMode, Op, Top, Running
  <2>2. CASE Calling
    BY <1>2, <1>3, <1>8, <2>2 DEF Stays, Calling
  <2>3. QED
    BY <1>8, <2>1, <2>2 DEF Stays
<1>9. QED
  BY <1>4, <1>5, <1>6, <1>7, <1>8, Shapes

-----------------------------------------------------------------------------
(* The theorem.                                                             *)

IInv ==
  /\ Types /\ AttemptsInv /\ MarkInv /\ ChainInv /\ ModeInv /\ FramesInv /\ PathsInv
  /\ Told => NumbersInv /\ BlameInv

LEMMA InitIInv ==
  ASSUME Init
  PROVE  IInv
<1> DEFINE g == Frame(1, "authoritative", FALSE, <<1>>)
<1>1. WellFormed(program) /\ 1 \in Statement /\ Op(1) = "feature"
  BY StatementsAssumption DEF Init, WellFormed, Statement, Op
<1>2. \A n \in Statement : Parts(n) \in Seq(Seq(Statement))
  BY <1>1 DEF WellFormed, Statement, Parts
<1>3. FirstPart(1) = 1 /\ PartStatements(1, 1) \in Seq(Statement)
  <2>1. Parts(1) \in Seq(Seq(Statement))
    BY <1>1, <1>2
  <2>2. \A k \in DOMAIN Parts(1) : Parts(1)[k] \in Seq(Statement)
    BY <2>1
  <2>3. <<>> \in Seq(Statement)
    OBVIOUS
  <2>4. QED
    BY <1>1, <2>2, <2>3 DEF FirstPart, PartStatements
<1>4. records = <<>> /\ Len(records) = 0 /\ records \in Seq(RecType)
  BY DEF Init
<1>5. <<1>> \in Seq(Int) /\ Len(<<1>>) = 1 /\ <<1>>[1] = 1
  OBVIOUS
<1>6. /\ g \in FrameType /\ g.node = 1 /\ g.mode = "authoritative" /\ g.seq = <<1>> /\ g.part = 1 /\ g.mark = 0
      /\ g.loops = 1
  BY <1>1, <1>3, <1>4, <1>5 DEF Frame, FrameType, Mode
<1>7. stack = <<g>>
  BY DEF Init
<1> HIDE DEF g
<1>8. stack \in Seq(FrameType) /\ Len(stack) = 1 /\ DOMAIN stack = {1} /\ stack[1] = g /\ stack # <<>>
  BY <1>6, <1>7
<1>9. Types
  BY <1>4, <1>8 DEF Types, Init
<1>10. AttemptsInv /\ FramesInv
  <2>1. attempts = [n \in Statement |-> 0] /\ outcome = "running" /\ MaxAttempts \in Nat /\ MaxLoops \in Nat
    BY StatementsAssumption DEF Init
  <2>2. AttemptsInv
    BY <2>1 DEF AttemptsInv
  <2>3. PartOK(g) /\ LoopsOK(g)
    BY <1>6, <2>1 DEF PartOK, LoopsOK
  <2>4. 1 <= MaxDepth
    BY StatementsAssumption
  <2>5. FramesInv
    BY <1>8, <2>1, <2>3, <2>4 DEF FramesInv, Running
  <2>6. QED
    BY <2>2, <2>5
<1>11. MarkInv /\ ChainInv /\ ModeInv
  <2>1. \A i \in 1..1 : i = 1
    OBVIOUS
  <2>2. QED
    BY <1>4, <1>5, <1>6, <1>8, <2>1 DEF MarkInv, ChainInv, ModeInv
<1>12. PathsInv
  BY <1>4 DEF PathsInv, SeqPathsNameSteps
<1>13. NumbersInv /\ BlameInv
  BY <1>4, <1>8 DEF NumbersInv, Numbers, BlameInv
<1>14. QED
  BY <1>9, <1>10, <1>11, <1>12, <1>13 DEF IInv

LEMMA StepIInv ==
  ASSUME IInv, [Next]_vars
  PROVE  IInv'
<1>1. CASE UNCHANGED vars
  <2>1. UNCHANGED <<program, facts, stack, signal, records, attempts, exhausted, outcome>>
    BY <1>1 DEF vars
  <2>2. Types' <=> Types
    BY <2>1 DEF Types, FrameType, RecType, Statement
  <2>3. AttemptsInv' <=> AttemptsInv
    BY <2>1 DEF AttemptsInv, Statement
  <2>4. (MarkInv' <=> MarkInv) /\ (ChainInv' <=> ChainInv)
    BY <2>1 DEF MarkInv, ChainInv
  <2>5. ModeInv' <=> ModeInv
    BY <2>1 DEF ModeInv, PartMode, Op, Running
  <2>6. FramesInv' <=> FramesInv
    BY <2>1 DEF FramesInv, PartOK, LoopsOK, Parts, Op, Running
  <2>7. PathsInv' <=> PathsInv
    BY <2>1 DEF PathsInv, SeqPathsNameSteps
  <2>8. NumbersInv' <=> NumbersInv
    <3>1. Numbers' = Numbers
      BY <2>1 DEF Numbers
    <3>2. QED
      BY <2>1, <3>1 DEF NumbersInv
  <2>9. BlameInv' <=> BlameInv
    BY <2>1 DEF BlameInv, Failed, PartMode, Top, Op, Running
  <2>10. Told' <=> Told
    BY <2>1 DEF Told, Used, Statement, Op
  <2>11. QED
    BY <2>2, <2>3, <2>4, <2>5, <2>6, <2>7, <2>8, <2>9, <2>10 DEF IInv
<1>2. CASE Next
  <2>1. Types /\ AttemptsInv /\ MarkInv /\ ChainInv /\ ModeInv /\ FramesInv /\ PathsInv
    BY DEF IInv
  <2>2. AttemptsInv' /\ program' = program
    BY <1>2, <2>1, AttemptsStep
  <2>3. Types'
    BY <1>2, <2>1, TypesStep
  <2>4. stack' \in Seq(FrameType) /\ records' \in Seq(RecType)
    <3>1. FrameType' = FrameType /\ RecType' = RecType
      BY <2>2 DEF FrameType, RecType, Statement
    <3>2. QED
      BY <2>3, <3>1 DEF Types
  <2>5. FramesInv' /\ MarkInv' /\ ChainInv' /\ ModeInv' /\ PathsInv'
    BY <1>2, <2>1, <2>2, <2>4, FramesStep, OrderStep, PathsStep
  <2>6. Told' => NumbersInv' /\ BlameInv'
    <3>1. Told' <=> Told
      BY <2>2 DEF Told, Used, Statement, Op
    <3>2. Told => NumbersInv /\ BlameInv
      BY DEF IInv
    <3>3. QED
      BY <1>2, <2>1, <2>2, <3>1, <3>2, NumbersStep, BlameStep
  <2>7. QED
    BY <2>2, <2>3, <2>5, <2>6 DEF IInv
<1>3. QED
  BY <1>1, <1>2

LEMMA IInvSound ==
  ASSUME IInv
  PROVE  RecordsAreSound
<1>1. Types /\ AttemptsInv /\ ChainInv /\ FramesInv /\ PathsInv
  BY DEF IInv
<1>2. /\ stack \in Seq(FrameType) /\ records \in Seq(RecType) /\ DOMAIN stack = 1..Len(stack) /\ Len(stack) \in Nat
      /\ MaxDepth \in Nat /\ MaxAttempts \in Nat
  BY <1>1, StatementsAssumption DEF Types
<1>3. attempts \in [Statement -> 0..MaxAttempts + 1]
  <2>1. attempts \in [Statement -> Nat] /\ \A n \in Statement : attempts[n] <= MaxAttempts + 1
    BY <1>1 DEF Types, AttemptsInv
  <2>2. \A n \in Statement : attempts[n] \in 0..MaxAttempts + 1
    BY <1>2, <2>1
  <2>3. QED
    BY <2>1, <2>2
<1>4. ASSUME NEW i \in DOMAIN stack
      PROVE  /\ stack[i].node \in Statement /\ stack[i].mode \in Mode
             /\ stack[i].part \in 1..3 \union DOMAIN Parts(stack[i].node)
             /\ Len(stack[i].seq) <= MaxDepth
             /\ Op(stack[i].node) = "whenever" => stack[i].loops <= MaxLoops + 1
  <2>1. stack[i] \in FrameType
    BY <1>2
  <2>2. PartOK(stack[i]) /\ LoopsOK(stack[i]) /\ Len(stack) <= MaxDepth
    BY <1>1 DEF FramesInv
  <2>3. Len(stack[i].seq) = i
    BY <1>1 DEF ChainInv
  <2>4. stack[i].node \in Statement /\ stack[i].mode \in Mode
    BY <2>1 DEF FrameType
  <2>5. Len(stack[i].seq) <= MaxDepth
    BY <1>2, <2>2, <2>3
  <2>6. QED
    BY <2>2, <2>4, <2>5 DEF PartOK, LoopsOK
<1>5. \A i \in DOMAIN records : records[i].node \in Statement /\ records[i].mode \in Mode
  <2> SUFFICES ASSUME NEW i \in DOMAIN records PROVE records[i].node \in Statement /\ records[i].mode \in Mode
    OBVIOUS
  <2>1. records[i] \in RecType
    BY <1>2
  <2>2. QED
    BY <2>1 DEF RecType
<1>6. (outcome = "running") = Running
  BY <1>1 DEF FramesInv, Running
<1>7. TypeOK
  BY <1>1, <1>3, <1>4, <1>5, <1>6 DEF TypeOK, Types
<1>8. SeqPathsNameSteps
  BY <1>1 DEF PathsInv
<1>9. BlameIsCausal
  <2> SUFFICES ASSUME outcome = "failed", Told,
                      NEW i \in DOMAIN records, ~records[i].ok /\ records[i].mode = "authoritative",
                      NEW j \in DOMAIN records
               PROVE  records[j].seq[2] <= records[i].seq[2]
    BY DEF BlameIsCausal, Told
  <2>1. QED
    BY DEF IInv, BlameInv, Failed
<1>10. QED
  BY <1>7, <1>8, <1>9 DEF RecordsAreSound

\* Whatever the statements are and however they call each other, fail, throw or are cut off: each
\* step is recorded under a sequence path of its own, after the steps under it, while attempts,
\* loops and depth keep to their limits; and the steps that insisted and failed in a failed
\* feature without until and ensure lie under the last step of the feature, the one that failed it.
THEOREM RecordsAlwaysSound == Spec => []RecordsAreSound
<1>1. Init => IInv
  BY InitIInv
<1>2. IInv /\ [Next]_vars => IInv'
  BY StepIInv
<1>3. IInv => RecordsAreSound
  BY IInvSound
<1>4. QED
  BY <1>1, <1>2, <1>3, PTL DEF Spec

-----------------------------------------------------------------------------
(* P \/ (~P /\ [A]P): what an ensure has proven.                            *)

\* What runs is what its caller is at.
CallInv ==
  \A f \in DOMAIN stack : f > 1 =>
    /\ stack[f - 1].todo # <<>> /\ stack[f].node = Head(stack[f - 1].todo)
    /\ stack[f].ensured <=> Op(stack[f - 1].node) = "ensure"
    /\ Op(stack[f].node) \notin Leaf

IsSuffix(s, t) == Len(s) <= Len(t) /\ \A i \in 1..Len(s) : s[i] = t[Len(t) - Len(s) + i]

\* What an ensure and a waypoint have left to do.
FrameOK(g) ==
  /\ Op(g.node) = "ensure" => g.part = 1 /\ g.todo = Parts(g.node)[1] /\ Ensurable(EnsureKey(g.node))
  /\ Op(g.node) = "waypoint" =>
       /\ g.part \in 1..3
       /\ IsSuffix(g.todo, IF g.part = 2 THEN Parts(g.node)[2] ELSE Parts(g.node)[1])

TodoInv == \A f \in DOMAIN stack : FrameOK(stack[f])

\* A waypoint is at its proof, and how far.
Proving(g) == Op(g.node) = "waypoint" /\ Checks(g.node) /\ g.part # 2
Done(g) == Len(Parts(g.node)[1]) - Len(g.todo)

ProofOK(g, s, F, x) ==
  /\ s # "none" => g.todo # <<>>
  /\ Proving(g) =>
       /\ s # "throw"
       /\ \A i \in 1..Done(g) : FactOf(Parts(g.node)[1][i]) \in F
       /\ s = "ok" => FactOf(Head(g.todo)) \in F
       /\ s = "fail" /\ ~x => FactOf(Head(g.todo)) \notin F \/ FactOf(Head(g.todo)) \in Arriving
  /\ s = "ok" /\ Op(g.node) = "ensure" /\ Checks(EnsureKey(g.node)) =>
       \A i \in DOMAIN Parts(EnsureKey(g.node))[1] : FactOf(Parts(EnsureKey(g.node))[1][i]) \in F

\* The part of a proof that has run holds, and what failed of it does not.
ProofInv == Running => ProofOK(Top, signal, facts, exhausted)

LEMMA SuffixFacts ==
  ASSUME NEW S, NEW s \in Seq(S), NEW t \in Seq(S), IsSuffix(s, t)
  PROVE  /\ Len(t) - Len(s) \in 0..Len(t)
         /\ s # <<>> => /\ Len(t) - Len(s) + 1 \in 1..Len(t) /\ Head(s) = t[Len(t) - Len(s) + 1]
                        /\ IsSuffix(Tail(s), t) /\ Len(Tail(s)) = Len(s) - 1
         /\ s = <<>> => Len(t) - Len(s) = Len(t)
<1>1. Len(s) \in Nat /\ Len(t) \in Nat /\ Len(s) <= Len(t)
  BY DEF IsSuffix
<1>2. \A i \in 1..Len(s) : s[i] = t[Len(t) - Len(s) + i]
  BY DEF IsSuffix
<1>3. ASSUME s # <<>>
      PROVE  /\ Len(t) - Len(s) + 1 \in 1..Len(t) /\ Head(s) = t[Len(t) - Len(s) + 1]
             /\ IsSuffix(Tail(s), t) /\ Len(Tail(s)) = Len(s) - 1
  <2>1. Len(s) >= 1 /\ Head(s) = s[1] /\ Len(Tail(s)) = Len(s) - 1
        /\ \A i \in 1..Len(s) - 1 : Tail(s)[i] = s[i + 1]
    BY <1>3
  <2> DEFINE n == Len(s)
             m == Len(t)
  <2>2. n \in Nat /\ m \in Nat /\ n >= 1 /\ n <= m
    BY <1>1, <2>1
  <2>3. \A i \in 1..n - 1 : Tail(s)[i] = t[m - (n - 1) + i]
    <3> SUFFICES ASSUME NEW i \in 1..n - 1 PROVE Tail(s)[i] = t[m - (n - 1) + i]
      OBVIOUS
    <3>1. Tail(s)[i] = s[i + 1]
      BY <2>1
    <3>2. i + 1 \in 1..n /\ m - n + (i + 1) = m - (n - 1) + i
      BY <2>2
    <3>3. s[i + 1] = t[m - n + (i + 1)]
      BY <1>2, <3>2
    <3>4. QED
      BY <3>1, <3>2, <3>3
  <2>4. IsSuffix(Tail(s), t)
    <3> DEFINE u == Tail(s)
    <3>1. Len(u) = n - 1 /\ \A i \in 1..n - 1 : u[i] = t[m - (n - 1) + i]
      BY <2>1, <2>3
    <3> HIDE DEF u
    <3>2. Len(u) <= Len(t) /\ \A i \in 1..Len(u) : u[i] = t[Len(t) - Len(u) + i]
      BY <2>2, <3>1
    <3>3. IsSuffix(u, t)
      BY <3>2 DEF IsSuffix
    <3>4. QED
      BY <3>3 DEF u
  <2>5. 1 \in 1..n /\ m - n + 1 \in 1..m
    BY <2>2
  <2>6. QED
    BY <1>2, <2>1, <2>4, <2>5
<1>4. QED
  BY <1>1, <1>3

\* The whole of a list is a suffix of it.
LEMMA WholeIsSuffix ==
  ASSUME NEW S, NEW t \in Seq(S)
  PROVE  IsSuffix(t, t)
  BY DEF IsSuffix

\* A called statement of a proof made of checks is a check.
LEMMA ProofCallee ==
  ASSUME Types, NEW g \in FrameType, FrameOK(g), Proving(g), g.todo # <<>>
  PROVE  /\ Op(Head(g.todo)) = "check"
         /\ Done(g) \in Nat /\ Done(g) + 1 \in 1..Len(Parts(g.node)[1]) /\ Head(g.todo) = Parts(g.node)[1][Done(g) + 1]
<1> DEFINE w == g.node
           proof == Parts(w)[1]
<1>1. w \in Statement /\ g.todo \in Seq(Statement) /\ Op(w) = "waypoint" /\ g.part # 2
  BY DEF FrameType, Proving
<1>2. proof \in Seq(Statement)
  BY <1>1, ProgramFacts
<1>3. IsSuffix(g.todo, proof)
  BY <1>1 DEF FrameOK
<1>4. \A i \in DOMAIN proof : Op(proof[i]) = "check"
  BY DEF Proving, Checks
<1>5. DOMAIN proof = 1..Len(proof)
  BY <1>2
<1> DEFINE d == Done(g)
           todo == g.todo
<1>6. d = Len(proof) - Len(todo)
  BY DEF Done
<1>7. todo \in Seq(Statement) /\ todo # <<>> /\ IsSuffix(todo, proof)
  BY <1>1, <1>3
<1>8. SUFFICES Op(Head(todo)) = "check" /\ d \in Nat /\ d + 1 \in 1..Len(proof) /\ Head(todo) = proof[d + 1]
  OBVIOUS
<1> HIDE DEF proof, todo, d
<1>9. /\ Len(proof) - Len(todo) \in 0..Len(proof)
      /\ Len(proof) - Len(todo) + 1 \in 1..Len(proof) /\ Head(todo) = proof[Len(proof) - Len(todo) + 1]
  BY <1>2, <1>7, SuffixFacts
<1>10. d \in Nat /\ d + 1 \in 1..Len(proof) /\ Head(todo) = proof[d + 1]
  BY <1>6, <1>9
<1>11. QED
  BY <1>4, <1>5, <1>10

LEMMA CallStep ==
  ASSUME Types, CallInv, Next, MarkInv, program' = program
  PROVE  CallInv'
<1> DEFINE n == Len(stack)
           Calls(a, b) == /\ a.todo # <<>> /\ b.node = Head(a.todo)
                          /\ b.ensured <=> Op(a.node) = "ensure"
                          /\ Op(b.node) \notin Leaf
<1>1. n \in Nat /\ stack \in Seq(FrameType) /\ DOMAIN stack = 1..n
  BY DEF Types
<1>2. \A f \in 1..n : f > 1 => Calls(stack[f - 1], stack[f])
  BY <1>1 DEF CallInv
<1>3. ASSUME NEW k \in Nat, Len(stack') = k, stack' \in Seq(FrameType),
             \A f \in 1..k : f > 1 => Calls(stack'[f - 1], stack'[f])
      PROVE  CallInv'
  BY <1>3 DEF CallInv, Op
<1>4. CASE UNCHANGED stack
  BY <1>1, <1>2, <1>3, <1>4
<1>5. CASE Pushes
  <2> DEFINE g == Frame(Callee, CalleeMode, Op(Top.node) = "ensure", CalleeSeq)
  <2>1. /\ Calling /\ stack' \in Seq(FrameType) /\ Len(stack') = n + 1
        /\ \A f \in 1..n : stack'[f] = stack[f]
        /\ stack'[n + 1] = g
    BY <1>5, PushFacts
  <2>2. Top = stack[n] /\ n > 0 /\ Top.todo # <<>> /\ Callee = Head(Top.todo) /\ Op(Callee) \notin Leaf
    BY <1>5, <2>1, TopFacts DEF Calling, Callee, Pushes
  <2>3. Calls(stack[n], g)
    BY <2>2 DEF Frame
  <2> HIDE DEF g, Calls, n
  <2>4. \A f \in 1..n + 1 : f > 1 => Calls(stack'[f - 1], stack'[f])
    <3> SUFFICES ASSUME NEW f \in 1..n + 1, f > 1 PROVE Calls(stack'[f - 1], stack'[f])
      OBVIOUS
    <3>1. f - 1 \in 1..n /\ (f \in 1..n \/ f = n + 1)
      BY <1>1
    <3>2. CASE f \in 1..n
      BY <1>2, <2>1, <3>1, <3>2
    <3>3. CASE f = n + 1
      BY <1>1, <2>1, <2>3, <3>1, <3>3
    <3>4. QED
      BY <3>1, <3>2, <3>3
  <2>5. QED
    BY <1>1, <1>3, <2>1, <2>4
<1>6. CASE \E g \in FrameType : Turns(g)
  <2>1. PICK g \in FrameType : Turns(g)
    BY <1>6
  <2>2. /\ Running /\ Len(stack') = n /\ stack'[n] = g /\ stack' \in Seq(FrameType)
        /\ \A f \in 1..n - 1 : stack'[f] = stack[f]
    BY <2>1, TurnFacts
  <2>3. Top = stack[n] /\ n > 0 /\ g.node = Top.node /\ g.ensured = Top.ensured
    BY <2>1, <2>2, TopFacts DEF Turns
  <2>4. n > 1 => Calls(stack[n - 1], g)
    <3> SUFFICES ASSUME n > 1 PROVE Calls(stack[n - 1], g)
      OBVIOUS
    <3>1. Calls(stack[n - 1], Top)
      BY <1>1, <1>2, <2>3
    <3>2. QED
      BY <2>3, <3>1
  <2> HIDE DEF Calls, n
  <2>5. \A f \in 1..n : f > 1 => Calls(stack'[f - 1], stack'[f])
    <3> SUFFICES ASSUME NEW f \in 1..n, f > 1 PROVE Calls(stack'[f - 1], stack'[f])
      OBVIOUS
    <3>1. f - 1 \in 1..n - 1 /\ (f \in 1..n - 1 \/ f = n)
      BY <1>1
    <3>2. QED
      BY <1>2, <2>2, <2>4, <3>1
  <2>6. QED
    BY <1>1, <1>3, <2>2, <2>5
<1>7. CASE \E ok \in BOOLEAN : Returns(ok)
  <2>1. PICK ok \in BOOLEAN : Returns(ok)
    BY <1>7
  <2>2. /\ Running /\ Len(stack') = n - 1 /\ stack' \in Seq(FrameType)
        /\ \A f \in 1..n - 1 : stack'[f] = stack[f]
    BY <2>1, ReturnFacts
  <2>3. n > 0
    BY <2>2, TopFacts
  <2> HIDE DEF Calls, n
  <2>4. \A f \in 1..n - 1 : f > 1 => Calls(stack'[f - 1], stack'[f])
    <3> SUFFICES ASSUME NEW f \in 1..n - 1, f > 1 PROVE Calls(stack'[f - 1], stack'[f])
      OBVIOUS
    <3>1. f - 1 \in 1..n - 1 /\ f \in 1..n
      BY <1>1
    <3>2. QED
      BY <1>2, <2>2, <3>1
  <2>5. n - 1 \in Nat
    BY <1>1, <2>3
  <2>6. QED
    BY <1>3, <2>2, <2>4, <2>5
<1>8. CASE Stays
  BY <1>4, <1>8 DEF Stays
<1>9. CASE \E ok \in BOOLEAN : Records(ok)
  BY <1>4, <1>9 DEF Records
<1>10. QED
  BY <1>5, <1>6, <1>7, <1>8, <1>9, Shapes

LEMMA WaypointParts ==
  ASSUME Types, NEW w \in Statement, Op(w) = "waypoint"
  PROVE  /\ Parts(w)[1] \in Seq(Statement) /\ Parts(w)[2] \in Seq(Statement)
         /\ PartStatements(w, 1) = Parts(w)[1] /\ PartStatements(w, 2) = Parts(w)[2]
         /\ PartStatements(w, 3) = Parts(w)[1]
<1>6. Parts(w) \in Seq(Seq(Statement))
  BY ProgramFacts
<1>1. Parts(w) \in Seq(Seq(Statement)) /\ Len(Parts(w)) = 2
  BY ProgramFacts
<1>2. DOMAIN Parts(w) = 1..2 /\ 1 \in 1..2 /\ 2 \in 1..2 /\ 3 \notin 1..2
  BY <1>1
<1>5. \A k \in DOMAIN Parts(w) : Parts(w)[k] \in Seq(Statement)
  BY <1>6
<1>3. Parts(w)[1] \in Seq(Statement) /\ Parts(w)[2] \in Seq(Statement)
  BY <1>2, <1>5
<1>4. QED
  BY <1>2, <1>3 DEF PartStatements

LEMMA TurnedFrameOK ==
  ASSUME Types, Running, NEW g \in FrameType, Turns(g), FrameOK(Top)
  PROVE  FrameOK(g)
<1> DEFINE w == Top.node
           whole == IF Top.part = 2 THEN Parts(w)[2] ELSE Parts(w)[1]
<1>1. g.node = w /\ NextTodo(g) /\ w \in Statement /\ Top.todo \in Seq(Statement) /\ g.part \in Nat \ {0}
  BY TopTypes DEF Turns, FrameType
<1>2. CASE Op(w) = "ensure"
  <2>1. Top.todo = Parts(w)[1] /\ Len(Top.todo) = 1
    BY <1>1, <1>2, EnsureFacts DEF FrameOK
  <2>2. \A ok \in BOOLEAN : Goes(Top, ok, g.part) => g.part \in {Pass, Fail}
    BY <1>2 DEF Goes, Verdict
  <2>3. QED
    BY <1>1, <2>1, <2>2 DEF NextTodo, Pass, Fail
<1>3. CASE Op(w) = "waypoint"
  <2>1. Top.part \in 1..3 /\ IsSuffix(Top.todo, whole)
    BY <1>3 DEF FrameOK
  <2>2. whole \in Seq(Statement) /\ Parts(w)[1] \in Seq(Statement) /\ Parts(w)[2] \in Seq(Statement)
    BY <1>1, <1>3, WaypointParts
  <2>3. CASE Len(Top.todo) > 1 /\ g.part = Top.part /\ g.todo = Tail(Top.todo)
    <3>1. Top.todo # <<>>
      BY <2>3
    <3> HIDE DEF whole
    <3>2. IsSuffix(Tail(Top.todo), whole)
      BY <1>1, <2>1, <2>2, <3>1, SuffixFacts
    <3>3. QED
      BY <1>1, <1>3, <2>1, <2>3, <3>2 DEF FrameOK, whole
  <2>4. CASE \E ok \in BOOLEAN : Goes(Top, ok, g.part) /\ g.todo = PartStatements(w, g.part)
    <3>1. g.part \in {2, 3}
      BY <1>1, <1>3, <2>1, <2>4 DEF Goes, AfterActivity, Verdict, Pass, Fail
    <3>2. g.todo = IF g.part = 2 THEN Parts(w)[2] ELSE Parts(w)[1]
      BY <1>1, <1>3, <2>4, <3>1, WaypointParts
    <3>3. IsSuffix(Parts(w)[1], Parts(w)[1]) /\ IsSuffix(Parts(w)[2], Parts(w)[2])
      BY <2>2, WholeIsSuffix
    <3>4. QED
      BY <1>1, <1>3, <3>1, <3>2, <3>3 DEF FrameOK
  <2>5. QED
    BY <1>1, <2>3, <2>4 DEF NextTodo
<1>4. QED
  BY <1>1, <1>2, <1>3 DEF FrameOK

LEMMA TodoStep ==
  ASSUME Types, TodoInv, Next, MarkInv, program' = program
  PROVE  TodoInv'
<1> DEFINE n == Len(stack)
<1>1. n \in Nat /\ stack \in Seq(FrameType) /\ DOMAIN stack = 1..n /\ \A f \in 1..n : FrameOK(stack[f])
  BY DEF Types, TodoInv
<1>2. ASSUME NEW k \in Nat, Len(stack') = k, stack' \in Seq(FrameType), \A f \in 1..k : FrameOK(stack'[f])
      PROVE  TodoInv'
  <2>1. DOMAIN stack' = 1..k
    BY <1>2
  <2>2. QED
    BY <1>2, <2>1 DEF TodoInv, FrameOK, Op, Parts, Ensurable, EnsureKey
<1>3. CASE UNCHANGED stack
  BY <1>1, <1>2, <1>3
<1>4. CASE Pushes
  <2> DEFINE g == Frame(Callee, CalleeMode, Op(Top.node) = "ensure", CalleeSeq)
  <2>1. /\ Calling /\ stack' \in Seq(FrameType) /\ Len(stack') = n + 1
        /\ \A f \in 1..n : stack'[f] = stack[f]
        /\ stack'[n + 1] = g
    BY <1>4, PushFacts
  <2>2. Callee \in Statement /\ (Op(Callee) = "ensure" => Ensurable(EnsureKey(Callee)))
    BY <1>4, <2>1, CalleeFacts DEF Pushes
  <2>3. g.node = Callee /\ g.part = FirstPart(Callee) /\ g.todo = PartStatements(Callee, FirstPart(Callee))
    BY DEF Frame
  <2> HIDE DEF g, n
  <2>4. Op(Callee) = "ensure" => g.part = 1 /\ g.todo = Parts(Callee)[1]
    <3> SUFFICES ASSUME Op(Callee) = "ensure" PROVE g.part = 1 /\ g.todo = Parts(Callee)[1]
      OBVIOUS
    <3>1. Parts(Callee) \in Seq(Seq(Statement)) /\ Len(Parts(Callee)) = 1
      BY <2>2, ProgramFacts
    <3>2. 1 \in DOMAIN Parts(Callee)
      BY <3>1
    <3>3. QED
      BY <2>3, <3>2 DEF FirstPart, PartStatements
  <2>5. Op(Callee) = "waypoint" => /\ g.part \in 1..3
                                   /\ IsSuffix(g.todo, IF g.part = 2 THEN Parts(Callee)[2] ELSE Parts(Callee)[1])
    <3> SUFFICES ASSUME Op(Callee) = "waypoint"
                 PROVE  /\ g.part \in 1..3
                        /\ IsSuffix(g.todo, IF g.part = 2 THEN Parts(Callee)[2] ELSE Parts(Callee)[1])
      OBVIOUS
    <3>1. g.part \in {1, 2}
      BY <2>2, <2>3, PartFacts
    <3>2. g.todo = IF g.part = 2 THEN Parts(Callee)[2] ELSE Parts(Callee)[1]
      BY <2>2, <2>3, <3>1, WaypointParts
    <3>3. IsSuffix(Parts(Callee)[1], Parts(Callee)[1]) /\ IsSuffix(Parts(Callee)[2], Parts(Callee)[2])
      BY <2>2, WaypointParts, WholeIsSuffix
    <3>4. QED
      BY <3>1, <3>2, <3>3
  <2>6. FrameOK(g)
    BY <2>2, <2>3, <2>4, <2>5 DEF FrameOK
  <2>7. \A f \in 1..n + 1 : f \in 1..n \/ f = n + 1
    BY <1>1
  <2>8. QED
    BY <1>1, <1>2, <2>1, <2>6, <2>7
<1>5. CASE \E g \in FrameType : Turns(g)
  <2>1. PICK g \in FrameType : Turns(g)
    BY <1>5
  <2>2. /\ Running /\ Len(stack') = n /\ stack'[n] = g /\ stack' \in Seq(FrameType)
        /\ \A f \in 1..n - 1 : stack'[f] = stack[f]
    BY <2>1, TurnFacts
  <2>3. Top = stack[n] /\ n \in 1..n
    BY <2>2, TopFacts
  <2>4. FrameOK(g)
    BY <1>1, <2>1, <2>2, <2>3, TurnedFrameOK
  <2> HIDE DEF n
  <2>5. \A f \in 1..n : f \in 1..n - 1 \/ f = n
    BY <1>1
  <2>6. QED
    BY <1>1, <1>2, <2>2, <2>4, <2>5
<1>6. CASE \E ok \in BOOLEAN : Returns(ok)
  <2>1. PICK ok \in BOOLEAN : Returns(ok)
    BY <1>6
  <2>2. /\ Running /\ Len(stack') = n - 1 /\ stack' \in Seq(FrameType)
        /\ \A f \in 1..n - 1 : stack'[f] = stack[f]
    BY <2>1, ReturnFacts
  <2>3. n > 0
    BY <2>2, TopFacts
  <2> HIDE DEF n
  <2>4. n - 1 \in Nat /\ \A f \in 1..n - 1 : f \in 1..n
    BY <1>1, <2>3
  <2>5. QED
    BY <1>1, <1>2, <2>2, <2>4
<1>7. CASE Stays
  BY <1>3, <1>7 DEF Stays
<1>8. CASE \E ok \in BOOLEAN : Records(ok)
  BY <1>3, <1>8 DEF Records
<1>9. QED
  BY <1>4, <1>5, <1>6, <1>7, <1>8, Shapes

\* A waypoint called by ensure that ends well has just seen its proof hold.
LEMMA ProvenFacts ==
  ASSUME Types, Running, TodoInv, ProofInv, Op(Top.node) = "waypoint", Top.ensured,
         Parts(Top.node)[1] # <<>>, Checks(Top.node),
         NEW ok \in BOOLEAN, Ended(ok), Goes(Top, ok, Pass)
  PROVE  ProofHolds(Top.node)
<1> DEFINE w == Top.node
           proof == Parts(w)[1]
           todo == Top.todo
           d == Len(proof) - Len(todo)
<1>1. FrameOK(Top) /\ w \in Statement /\ todo \in Seq(Statement)
  BY TopFacts, TopTypes DEF TodoInv
<1>2. proof \in Seq(Statement)
  BY <1>1, WaypointParts
<1>3. ok /\ Top.part # 2
  BY DEF Goes, AfterActivity, Verdict, Pass, Fail
<1>4. Proving(Top) /\ Done(Top) = d
  BY <1>3 DEF Proving, Done
<1>5. IsSuffix(todo, proof)
  BY <1>1, <1>3 DEF FrameOK
<1>6. \A i \in 1..d : FactOf(proof[i]) \in facts
  BY <1>4 DEF ProofInv, ProofOK
<1>7. SUFFICES \A i \in 1..Len(proof) : FactOf(proof[i]) \in facts
  BY <1>2 DEF ProofHolds
<1>8. CASE todo = <<>>
  <2> HIDE DEF proof, todo
  <2>1. d = Len(proof)
    BY <1>1, <1>2, <1>5, <1>8, SuffixFacts
  <2>2. QED
    BY <1>6, <2>1
<1>9. CASE todo # <<>>
  <2>1. signal = "ok" /\ Len(todo) = 1
    BY <1>3, <1>9 DEF Ended
  <2>2. FactOf(Head(todo)) \in facts
    BY <1>4, <2>1 DEF ProofInv, ProofOK
  <2> HIDE DEF proof, todo
  <2>3. d + 1 \in 1..Len(proof) /\ Head(todo) = proof[d + 1]
    BY <1>1, <1>2, <1>5, <1>9, SuffixFacts
  <2>4. d + 1 = Len(proof) /\ Len(proof) \in Nat
    BY <1>2, <2>1
  <2>5. \A i \in 1..Len(proof) : i \in 1..d \/ i = d + 1
    BY <2>4
  <2>6. QED
    BY <1>6, <2>2, <2>3, <2>5
<1>10. QED
  BY <1>8, <1>9

\* What is run by a proof, or by an ensure.
LEMMA CalledFacts ==
  ASSUME Types, TodoInv, Running, Top.todo # <<>>
  PROVE  /\ Proving(Top) => Op(Head(Top.todo)) = "check"
         /\ Op(Top.node) = "ensure" => /\ Head(Top.todo) = EnsureKey(Top.node) /\ Op(Head(Top.todo)) = "waypoint"
                                       /\ Parts(Head(Top.todo))[1] # <<>>
<1>1. FrameOK(Top) /\ Top \in FrameType
  BY TopFacts DEF TodoInv
<1>2. QED
  BY <1>1, ProofCallee DEF FrameOK, Ensurable, EnsureKey

LEMMA ProofStep ==
  ASSUME Types, MarkInv, CallInv, TodoInv, ProofInv, Next, program' = program
  PROVE  ProofInv'
<1> DEFINE n == Len(stack)
<1>1. SUFFICES ASSUME Running' PROVE ProofOK(Top', signal', facts', exhausted')
  BY DEF ProofInv, ProofOK, Proving, Done, Checks, EnsureKey, FactOf, Parts, Op
<1>2. Running => ProofOK(Top, signal, facts, exhausted)
  BY DEF ProofInv
<1>3. ASSUME Running, Top.todo # <<>>
      PROVE  /\ Proving(Top) => Op(Head(Top.todo)) = "check"
             /\ Op(Top.node) = "ensure" => Op(Head(Top.todo)) = "waypoint"
  BY <1>3, CalledFacts
<1>4. CASE Stays
  <2>1. Top' = Top /\ Running
    BY <1>1, <1>4 DEF Stays, Top, Running
  <2>2. CASE Calling /\ signal' = "fail" /\ exhausted' = TRUE /\ facts' = facts
    <3>1. Top.todo # <<>> /\ (Proving(Top) => \A i \in 1..Done(Top) : FactOf(Parts(Top.node)[1][i]) \in facts)
      BY <1>2, <2>1, <2>2 DEF Calling, ProofOK
    <3>2. QED
      BY <2>1, <2>2, <3>1 DEF ProofOK
  <2>3. CASE Calling /\ signal' = "throw" /\ Op(Callee) = "undefined" /\ facts' = facts
    <3>1. Top.todo # <<>> /\ ~Proving(Top)
      BY <1>3, <2>1, <2>3 DEF Calling, Callee
    <3>2. QED
      BY <2>1, <2>3, <3>1 DEF ProofOK
  <2>4. CASE UNCHANGED <<signal, exhausted>> /\ \E p \in Arriving : facts' = facts \union {p}
    <3>1. PICK p \in Arriving : facts' = facts \union {p}
      BY <2>4
    <3>2. ProofOK(Top, signal, facts, exhausted)
      BY <1>2, <2>1
    <3>3. QED
      BY <2>1, <2>4, <3>1, <3>2 DEF ProofOK
  <2>5. QED
    BY <1>4, <2>2, <2>3, <2>4 DEF Stays
<1>5. CASE \E ok \in BOOLEAN : Records(ok)
  <2>1. PICK ok \in BOOLEAN : Records(ok)
    BY <1>5
  <2>2. /\ Calling /\ Running /\ Top.todo # <<>> /\ Callee = Head(Top.todo) /\ Top' = Top
        /\ signal' = (IF ok THEN "ok" ELSE "fail")
    BY <2>1 DEF Records, Accepted, Calling, Callee, Top
  <2>3. /\ Proving(Top) => Op(Callee) = "check"
        /\ Op(Top.node) = "ensure" => Op(Callee) = "waypoint"
    BY <1>3, <2>2
  <2>4. Op(Top.node) # "ensure"
    BY <2>1, <2>3 DEF Records
  <2>5. Proving(Top) => /\ (ok <=> FactOf(Callee) \in facts) /\ facts' = facts
                        /\ \A i \in 1..Done(Top) : FactOf(Parts(Top.node)[1][i]) \in facts
    BY <1>2, <2>1, <2>2, <2>3 DEF Records, ProofOK
  <2>6. QED
    BY <2>2, <2>4, <2>5 DEF ProofOK
<1>6. CASE Pushes
  <2> DEFINE g == Frame(Callee, CalleeMode, Op(Top.node) = "ensure", CalleeSeq)
  <2>1. /\ Calling /\ stack' \in Seq(FrameType) /\ Len(stack') = n + 1 /\ stack'[n + 1] = g
    BY <1>6, PushFacts
  <2>2. Top' = g /\ signal' = "none" /\ Callee \in Statement
    BY <1>6, <2>1, CalleeFacts DEF Top, Pushes, Calling
  <2>3. g.node = Callee /\ g.part = FirstPart(Callee) /\ g.todo = PartStatements(Callee, FirstPart(Callee))
    BY DEF Frame
  <2> HIDE DEF g
  <2>4. Proving(g) => Done(g) = 0
    <3> SUFFICES ASSUME Proving(g) PROVE Done(g) = 0
      OBVIOUS
    <3>1. Op(Callee) = "waypoint" /\ g.part = 1
      BY <2>2, <2>3, PartFacts DEF Proving
    <3>2. g.todo = Parts(Callee)[1] /\ Parts(Callee)[1] \in Seq(Statement)
      BY <2>2, <2>3, <3>1, WaypointParts
    <3>3. Len(g.todo) \in Nat /\ Len(Parts(g.node)[1]) = Len(g.todo)
      BY <2>3, <3>2
    <3>4. QED
      BY <3>3 DEF Done
  <2>5. QED
    BY <2>2, <2>4 DEF ProofOK
<1>7. CASE \E g \in FrameType : Turns(g)
  <2>1. PICK g \in FrameType : Turns(g)
    BY <1>7
  <2>2. /\ Running /\ Len(stack') = n /\ stack'[n] = g /\ g.node = Top.node /\ signal' = "none" /\ facts' = facts
        /\ NextTodo(g) /\ n \in DOMAIN stack /\ Top = stack[n]
    BY <2>1, TurnFacts, TopFacts DEF Turns
  <2>3. Top' = g
    BY <2>2 DEF Top
  <2>4. FrameOK(Top) /\ FrameOK(g)
    BY <2>1, <2>2, TurnedFrameOK DEF TodoInv
  <2>5. Proving(g) => \A i \in 1..Done(g) : FactOf(Parts(g.node)[1][i]) \in facts
    <3> SUFFICES ASSUME Proving(g) PROVE \A i \in 1..Done(g) : FactOf(Parts(g.node)[1][i]) \in facts
      OBVIOUS
    <3> DEFINE w == Top.node
               proof == Parts(w)[1]
    <3>1. Op(w) = "waypoint" /\ w \in Statement /\ proof \in Seq(Statement) /\ Top.todo \in Seq(Statement)
      BY <2>2, TopTypes, WaypointParts DEF Proving
    <3>2. CASE signal = "ok" /\ Len(Top.todo) > 1 /\ g.part = Top.part /\ g.todo = Tail(Top.todo)
      <4>1. Proving(Top)
        BY <2>2, <3>2 DEF Proving
      <4>2. /\ \A i \in 1..Done(Top) : FactOf(proof[i]) \in facts
            /\ FactOf(Head(Top.todo)) \in facts
        BY <1>2, <2>2, <3>2, <4>1 DEF ProofOK
      <4>3. Done(Top) \in Nat /\ Head(Top.todo) = proof[Done(Top) + 1]
        BY <2>2, <2>4, <3>2, <4>1, TopFacts, ProofCallee
      <4>4. Done(g) = Done(Top) + 1
        <5>1. Len(g.todo) = Len(Top.todo) - 1 /\ Len(Top.todo) \in Nat /\ Len(proof) \in Nat
          BY <3>1, <3>2
        <5>2. QED
          BY <2>2, <5>1 DEF Done
      <4>5. \A i \in 1..Done(g) : i \in 1..Done(Top) \/ i = Done(Top) + 1
        BY <4>3, <4>4
      <4>6. QED
        BY <2>2, <4>2, <4>3, <4>5
    <3>3. CASE g.todo = PartStatements(g.node, g.part)
      <4>1. g.part \in {1, 3}
        BY <2>2, <2>4, <3>1 DEF FrameOK, Proving
      <4>2. g.todo = proof
        BY <2>2, <3>1, <3>3, <4>1, WaypointParts
      <4>3. Done(g) = 0
        BY <2>2, <3>1, <4>2 DEF Done
      <4>4. QED
        BY <4>3
    <3>4. QED
      BY <2>2, <3>2, <3>3 DEF NextTodo
  <2>6. QED
    BY <2>2, <2>3, <2>5 DEF ProofOK
<1>8. CASE \E ok \in BOOLEAN : Returns(ok)
  <2>1. PICK ok \in BOOLEAN : Returns(ok)
    BY <1>8
  <2>2. /\ Running /\ Len(stack') = n - 1 /\ stack' \in Seq(FrameType) /\ facts' = facts /\ Top = stack[n]
        /\ \A f \in 1..n - 1 : stack'[f] = stack[f]
    BY <2>1, ReturnFacts, TopFacts DEF Returns
  <2>3. n \in Nat /\ n > 1
    BY <1>1, <2>2, TopFacts DEF Running
  <2> DEFINE g == stack[n - 1]
  <2>4. Top' = g /\ signal' = (IF ok THEN "ok" ELSE "fail")
    <3>1. n - 1 \in 1..n - 1
      BY <2>3
    <3>2. QED
      BY <2>1, <2>2, <2>3, <3>1 DEF Top, Returns, Finish
  <2>5. /\ g.todo # <<>> /\ Top.node = Head(g.todo) /\ (Top.ensured <=> Op(g.node) = "ensure")
        /\ Op(Top.node) \notin Leaf
    BY <2>2, <2>3, TopFacts DEF CallInv
  <2>6. g \in FrameType /\ FrameOK(g)
    BY <2>3, TopFacts DEF TodoInv, Types
  <2> HIDE DEF g
  <2>7. ~Proving(g)
    BY <2>5, <2>6, ProofCallee DEF Leaf
  <2>8. ASSUME ok, Op(g.node) = "ensure", Checks(EnsureKey(g.node))
        PROVE  \A i \in DOMAIN Parts(EnsureKey(g.node))[1] : FactOf(Parts(EnsureKey(g.node))[1][i]) \in facts
    <3>1. Top.node = EnsureKey(g.node) /\ Op(Top.node) = "waypoint" /\ Parts(Top.node)[1] # <<>> /\ Top.ensured
      BY <2>5, <2>6, <2>8 DEF FrameOK, EnsureKey, Ensurable
    <3>2. PICK v \in BOOLEAN : Ended(v) /\ Goes(Top, v, Pass)
      BY <2>1, <2>8 DEF Returns
    <3>3. ProofHolds(Top.node)
      BY <2>2, <2>8, <3>1, <3>2, ProvenFacts
    <3>4. QED
      BY <3>1, <3>3 DEF ProofHolds
  <2>9. QED
    BY <2>2, <2>4, <2>5, <2>7, <2>8 DEF ProofOK
<1>9. QED
  BY <1>4, <1>5, <1>6, <1>7, <1>8, Shapes

LEMMA LeavesStep ==
  ASSUME Types, MarkInv, TodoInv, ProofInv, EnsureLeavesProofTrue, Next, program' = program
  PROVE  EnsureLeavesProofTrue'
<1> DEFINE n == Len(stack)
           last == records'[Len(records')]
           key == EnsureKey(last.node)
<1>1. SUFFICES ASSUME signal' = "ok", records' # <<>>, Op(last.node) = "ensure", Checks(key)
               PROVE  \A i \in DOMAIN Parts(key)[1] : FactOf(Parts(key)[1][i]) \in facts'
  BY DEF EnsureLeavesProofTrue, Checks, ProofHolds, EnsureKey, FactOf, Parts, Op
<1>2. ASSUME records' = records, signal' = signal, \A p \in facts : p \in facts'
      PROVE  \A i \in DOMAIN Parts(key)[1] : FactOf(Parts(key)[1][i]) \in facts'
  BY <1>1, <1>2 DEF EnsureLeavesProofTrue, ProofHolds
<1>3. CASE Stays
  BY <1>1, <1>2, <1>3 DEF Stays
<1>4. CASE \E ok \in BOOLEAN : Records(ok)
  <2>1. PICK ok \in BOOLEAN : Records(ok)
    BY <1>4
  <2>2. Op(Callee) # "ensure" /\ records' = Append(records, Record(Callee, CalleeMode, CalleeSeq, ok))
    BY <1>1, <2>1 DEF Records
  <2>3. last = Record(Callee, CalleeMode, CalleeSeq, ok)
    BY <2>2 DEF Types
  <2>4. QED
    BY <1>1, <2>2, <2>3 DEF Record
<1>5. CASE Pushes
  BY <1>1, <1>5 DEF Pushes, Accepted, Calling
<1>6. CASE \E g \in FrameType : Turns(g)
  BY <1>1, <1>6 DEF Turns
<1>7. CASE \E ok \in BOOLEAN : Returns(ok)
  <2>1. PICK ok \in BOOLEAN : Returns(ok)
    BY <1>7
  <2>2. Running /\ Finish(ok) /\ facts' = facts
    BY <2>1 DEF Returns
  <2>3. CASE Len(stack) = 1
    BY <1>2, <2>2, <2>3 DEF Finish
  <2>4. CASE Len(stack) # 1
    <3>1. ok /\ records' = Append(records, Record(Top.node, Top.mode, Top.seq, ok))
      BY <1>1, <2>2, <2>4 DEF Finish
    <3>2. last.node = Top.node
      <4>3. \A r : Append(records, r)[Len(Append(records, r))] = r
        BY DEF Types
      <4>1. last = Record(Top.node, Top.mode, Top.seq, ok)
        BY <3>1, <4>3
      <4>2. QED
        BY <4>1 DEF Record
    <3>3. PICK v \in BOOLEAN : Ended(v) /\ Goes(Top, v, Pass)
      BY <2>1, <3>1 DEF Returns
    <3>4. v
      BY <1>1, <3>2, <3>3 DEF Goes, Verdict, Pass, Fail
    <3>5. Top.todo # <<>>
      <4>1. FrameOK(Top)
        BY <2>2, TopFacts DEF TodoInv
      <4>2. Top.node \in Statement
        BY <2>2, TopTypes
      <4>3. Len(Parts(Top.node)[1]) = 1
        BY <1>1, <3>2, <4>2, EnsureFacts
      <4>4. Top.todo = Parts(Top.node)[1] /\ Top.todo \in Seq(Statement)
        BY <1>1, <2>2, <3>2, <4>1, TopTypes DEF FrameOK
      <4>5. Len(Top.todo) = 1
        BY <4>3, <4>4
      <4>6. Len(<<>>) = 0
        OBVIOUS
      <4>7. QED
        BY <4>5, <4>6
    <3>6. signal = "ok"
      BY <3>3, <3>4, <3>5 DEF Ended
    <3>7. QED
      BY <1>1, <2>2, <3>2, <3>6 DEF ProofInv, ProofOK
  <2>5. QED
    BY <2>3, <2>4
<1>8. QED
  BY <1>3, <1>4, <1>5, <1>6, <1>7, Shapes

\* An activity starts only after its proof has failed.
LEMMA ActsStep ==
  ASSUME Types, MarkInv, TodoInv, ProofInv, Next
  PROVE  ActsOnlyIfUnproven
<1> DEFINE g == stack'[Len(stack')]
           w == g.node
           proof == Parts(w)[1]
<1>1. SUFFICES ASSUME ActivityStarts, ~exhausted
               PROVE  \E i \in DOMAIN proof : FactOf(proof[i]) \notin facts \/ FactOf(proof[i]) \in Arriving
  BY DEF ActsOnlyIfUnproven
<1>2. /\ stack' # <<>> /\ stack' # stack /\ signal' = "none"
      /\ Op(w) = "waypoint" /\ g.part = 2 /\ g.todo = Parts(w)[2] /\ g.todo # <<>>
      /\ proof # <<>> /\ Checks(w)
  BY <1>1 DEF ActivityStarts
<1>3. CASE Stays \/ \E ok \in BOOLEAN : Records(ok)
  BY <1>2, <1>3 DEF Stays, Records
<1>4. CASE Pushes
  <2>1. g = Frame(Callee, CalleeMode, Op(Top.node) = "ensure", CalleeSeq)
    BY <1>4, PushFacts
  <2>2. g.part = FirstPart(g.node)
    BY <2>1 DEF Frame
  <2>3. QED
    BY <1>2, <2>2 DEF FirstPart
<1>5. CASE \E h \in FrameType : Turns(h)
  <2>1. PICK h \in FrameType : Turns(h)
    BY <1>5
  <2>2. Running /\ g = h /\ w = Top.node /\ NextTodo(g)
    BY <2>1, TurnFacts DEF Turns
  <2>3. FrameOK(Top) /\ Top \in FrameType /\ w \in Statement /\ Top.todo \in Seq(Statement)
    BY <2>2, TopFacts, TopTypes DEF TodoInv
  <2>4. Parts(w)[1] \in Seq(Statement) /\ Parts(w)[2] \in Seq(Statement)
    BY <1>2, <2>3, WaypointParts
  <2>5. ~(Len(Top.todo) > 1 /\ g.part = Top.part /\ g.todo = Tail(Top.todo))
    <3> SUFFICES ASSUME Len(Top.todo) > 1, Top.part = 2, g.todo = Tail(Top.todo) PROVE FALSE
      BY <1>2
    <3>1. Len(Top.todo) <= Len(Parts(w)[2])
      BY <1>2, <2>2, <2>3 DEF FrameOK, IsSuffix
    <3>2. Len(g.todo) = Len(Top.todo) - 1
      BY <2>3
    <3>3. QED
      BY <1>2, <2>3, <2>4, <3>1, <3>2
  <2>6. PICK ok \in BOOLEAN : Ended(ok) /\ Goes(Top, ok, g.part)
    BY <2>2, <2>5 DEF NextTodo
  <2>7. Top.part = 1 /\ ~ok
    <3>1. Top.part \in 1..3
      BY <1>2, <2>2, <2>3 DEF FrameOK
    <3>2. QED
      BY <1>2, <2>2, <2>6, <3>1 DEF Goes, AfterActivity, Verdict, Pass, Fail
  <2>8. Proving(Top) /\ signal \in {"fail", "throw"}
    BY <1>2, <2>2, <2>6, <2>7 DEF Proving, Ended
  <2>9. signal = "fail" /\ Top.todo # <<>>
        /\ (FactOf(Head(Top.todo)) \notin facts \/ FactOf(Head(Top.todo)) \in Arriving)
    BY <1>1, <2>2, <2>8 DEF ProofInv, ProofOK
  <2>10. Head(Top.todo) = proof[Done(Top) + 1] /\ Done(Top) + 1 \in 1..Len(proof)
    BY <2>2, <2>3, <2>8, <2>9, ProofCallee
  <2>11. Done(Top) + 1 \in DOMAIN proof
    BY <2>4, <2>10
  <2>12. QED
    BY <2>9, <2>10, <2>11
<1>6. CASE \E ok \in BOOLEAN : Returns(ok)
  <2>1. PICK ok \in BOOLEAN : Returns(ok)
    BY <1>6
  <2>2. Running /\ Finish(ok) /\ Len(stack') = Len(stack) - 1 /\ stack' \in Seq(FrameType)
    BY <2>1, ReturnFacts DEF Returns
  <2>3. Len(stack) # 1
    <3> SUFFICES ASSUME Len(stack) = 1 PROVE FALSE
      OBVIOUS
    <3>1. Len(stack') = 0
      BY <2>2
    <3>2. stack' = <<>>
      BY <2>2, <3>1
    <3>3. QED
      BY <1>2, <3>2
  <2>4. QED
    BY <1>2, <2>2, <2>3 DEF Finish
<1>7. QED
  BY <1>3, <1>4, <1>5, <1>6, Shapes

EInv == CallInv /\ TodoInv /\ ProofInv /\ EnsureLeavesProofTrue

LEMMA InitEInv ==
  ASSUME Init
  PROVE  EInv
<1> DEFINE g == Frame(1, "authoritative", FALSE, <<1>>)
<1>1. stack = <<g>> /\ signal = "none" /\ records = <<>>
  BY DEF Init
<1>2. Op(1) = "feature"
  BY StatementsAssumption DEF Init, WellFormed, Op
<1>3. g.node = 1
  BY DEF Frame
<1> HIDE DEF g
<1>4. DOMAIN stack = {1} /\ stack[1] = g /\ Len(stack) = 1
  BY <1>1
<1>5. CallInv
  BY <1>4 DEF CallInv
<1>6. TodoInv
  BY <1>2, <1>3, <1>4 DEF TodoInv, FrameOK
<1>7. ProofInv
  BY <1>1, <1>2, <1>3, <1>4 DEF ProofInv, ProofOK, Proving, Top
<1>8. EnsureLeavesProofTrue
  BY <1>1 DEF EnsureLeavesProofTrue
<1>9. QED
  BY <1>5, <1>6, <1>7, <1>8 DEF EInv

LEMMA StepEInv ==
  ASSUME IInv, EInv, Next
  PROVE  EInv' /\ ActsOnlyIfUnproven
<1>1. Types /\ MarkInv /\ AttemptsInv /\ CallInv /\ TodoInv /\ ProofInv /\ EnsureLeavesProofTrue
  BY DEF IInv, EInv
<1>2. program' = program
  BY <1>1, AttemptsStep
<1>3. CallInv' /\ TodoInv' /\ ProofInv' /\ EnsureLeavesProofTrue' /\ ActsOnlyIfUnproven
  BY <1>1, <1>2, CallStep, TodoStep, ProofStep, LeavesStep, ActsStep
<1>4. QED
  BY <1>3 DEF EInv

LEMMA StutterEInv ==
  ASSUME EInv, UNCHANGED vars
  PROVE  EInv'
<1>1. UNCHANGED <<program, facts, stack, signal, records, attempts, exhausted, outcome>>
  BY DEF vars
<1>2. CallInv' <=> CallInv
  BY <1>1 DEF CallInv, Op
<1>3. TodoInv' <=> TodoInv
  BY <1>1 DEF TodoInv, FrameOK, Op, Parts, Ensurable, EnsureKey
<1>4. ProofInv' <=> ProofInv
  BY <1>1 DEF ProofInv, ProofOK, Proving, Done, Checks, EnsureKey, FactOf, Parts, Op, Top, Running
<1>5. EnsureLeavesProofTrue' <=> EnsureLeavesProofTrue
  BY <1>1 DEF EnsureLeavesProofTrue, Checks, ProofHolds, EnsureKey, FactOf, Parts, Op
<1>6. QED
  BY <1>2, <1>3, <1>4, <1>5 DEF EInv

\* When an ensure is recorded as successful its waypoint's proof, if it is made of checks, holds;
\* and the activity of a waypoint starts only after a check of its proof has failed and nothing
\* but what arrives by itself can have made it true since.
THEOREM EnsureAlwaysProves == Spec => EnsureProves
<1>1. Init => IInv /\ EInv
  BY InitIInv, InitEInv
<1>2. IInv /\ EInv /\ [Next]_vars => (IInv /\ EInv)'
  BY StepIInv, StepEInv, StutterEInv
<1>3. IInv /\ EInv /\ [Next]_vars => [EnsureLeavesProofTrue' /\ ActsOnlyIfUnproven]_vars
  BY StepEInv DEF EInv
<1>4. QED
  BY <1>1, <1>2, <1>3, PTL DEF Spec, EnsureProves

\* An exhausted run starts nothing: what is still recorded are the statements it was in.
THEOREM ExhaustedRunsNothing == Spec => ExhaustionRunsNothing
<1>1. Init => IInv
  BY InitIInv
<1>2. IInv /\ [Next]_vars => IInv'
  BY StepIInv
<1>3. IInv /\ Next /\ exhausted /\ Len(records') > Len(records) =>
        \E f \in DOMAIN stack : stack[f].seq = records'[Len(records')].seq
  <2> SUFFICES ASSUME IInv, Next, exhausted, Len(records') > Len(records)
               PROVE  \E f \in DOMAIN stack : stack[f].seq = records'[Len(records')].seq
    OBVIOUS
  <2>1. Types /\ MarkInv /\ records \in Seq(RecType)
    BY DEF IInv, Types
  <2>2. ~(records' = records) /\ Len(records) \in Nat
    BY <2>1
  <2>3. ASSUME NEW g \in FrameType, Turns(g) PROVE FALSE
    <3>1. Running /\ records' = SubSeq(records, 1, Top.mark)
      BY <2>2, <2>3 DEF Turns
    <3>2. Top.mark \in 0..Len(records)
      BY <2>1, <3>1, TopFacts, TopTypes DEF MarkInv
    <3>3. Len(records') = Top.mark
      BY <2>1, <3>1, <3>2, PrefixFacts
    <3>4. QED
      BY <2>2, <3>2, <3>3
  <2>4. PICK ok \in BOOLEAN : Returns(ok)
    BY <2>1, <2>2, <2>3, Shapes DEF Stays, Pushes, Records, Accepted, Halted
  <2>5. Running /\ records' = Append(records, Record(Top.node, Top.mode, Top.seq, ok))
    BY <2>2, <2>4 DEF Returns, Finish
  <2>6. \A r : Append(records, r)[Len(Append(records, r))] = r
    BY <2>1
  <2>7. records'[Len(records')].seq = Top.seq
    BY <2>5, <2>6 DEF Record
  <2>8. QED
    BY <2>1, <2>5, <2>7, TopFacts
<1>4. IInv /\ [Next]_vars =>
        [exhausted /\ Len(records') > Len(records) =>
           \E f \in DOMAIN stack : stack[f].seq = records'[Len(records')].seq]_vars
  BY <1>3
<1>5. QED
  BY <1>1, <1>2, <1>4, PTL DEF Spec, ExhaustionRunsNothing

-----------------------------------------------------------------------------
(* The verdict and the formula.                                             *)

\* What the statements of a program can mean, all together.
Solves(T) == T \in [Statement -> BOOLEAN] /\ \A n \in Statement : T[n] = Meaning(n, T)

\* The list of statements a frame is at, and how many of them it has run.
ListOf(g) == PartStatements(g.node, g.part)
Ran(g) == Len(ListOf(g)) - Len(g.todo)

PlaceOK(g) ==
  /\ IsSuffix(g.todo, ListOf(g))
  /\ g.todo = <<>> => ListOf(g) = <<>>
  /\ Op(g.node) \notin {"where", "anyOf", "every"} => g.part = 1
  /\ Op(g.node) = "where" => g.part \in {1, 2}
  /\ Op(g.node) \in {"anyOf", "every"} => g.part = 1 \/ g.part \in DOMAIN Parts(g.node)

\* What has run of the list holds; and the lists before were what made the frame go on.
FrameTrue(g, T) ==
  /\ \A i \in 1..Ran(g) : T[ListOf(g)[i]]
  /\ Op(g.node) = "where" /\ g.part = 2 => AllTrue(Parts(g.node)[1], T)
  /\ Op(g.node) = "anyOf" => \A k \in 1..g.part - 1 : ~AllTrue(Parts(g.node)[k], T)
  /\ Op(g.node) = "every" => \A k \in 1..g.part - 1 : AllTrue(Parts(g.node)[k], T)

\* What a call returned is what the statement means.
SignalTrue(T) ==
  Running => /\ signal # "throw"
             /\ signal # "none" => Top.todo # <<>> /\ (signal = "ok" <=> T[Head(Top.todo)])

TruthOf(T) ==
  /\ \A f \in DOMAIN stack : PlaceOK(stack[f]) /\ FrameTrue(stack[f], T)
  /\ SignalTrue(T)
  /\ ~Running => (outcome = "passed" <=> T[1])

TruthInv == Pure /\ ~exhausted => \A T : Solves(T) => TruthOf(T)

LEMMA PureFacts ==
  ASSUME Types, Pure, NEW n \in Statement
  PROVE  /\ Op(n) \in {"feature", "check", "not", "maybe", "where", "anyOf", "every", "sequence"}
         /\ Parts(n) \in Seq(Seq(Statement))
         /\ Op(n) \in {"feature", "not", "maybe", "sequence"} => Len(Parts(n)) = 1
         /\ Op(n) = "where" => Len(Parts(n)) = 2
         /\ Op(n) = "anyOf" => \A k \in DOMAIN Parts(n) : Parts(n)[k] # <<>>
         /\ FirstPart(n) = 1
         /\ \A k \in Int : PartStatements(n, k) = IF k \in DOMAIN Parts(n) THEN Parts(n)[k] ELSE <<>>
<1>1. WellFormed(program)
  BY StatementsAssumption DEF Types
<1>2. Op(n) \in Used
  BY DEF Used
<1>3. Op(n) \in Ops /\ Parts(n) \in Seq(Seq(Statement))
  BY ProgramFacts
<1>4. Op(n) \in {"feature", "check", "not", "maybe", "where", "anyOf", "every", "sequence"}
  BY <1>2, <1>3 DEF Pure, Ops
<1>5. /\ Op(n) \notin {"anyOf", "every"} => Len(Parts(n)) = Arity(Op(n))
      /\ Op(n) = "anyOf" => \A k \in DOMAIN Parts(n) : Parts(n)[k] # <<>>
  BY <1>1 DEF WellFormed, Statement, Op, Parts
<1>6. /\ Arity("feature") = 1 /\ Arity("not") = 1 /\ Arity("maybe") = 1 /\ Arity("sequence") = 1
      /\ Arity("where") = 2
  BY DEF Arity, Leaf
<1>7. Op(n) # "waypoint"
  BY <1>4
<1>8. FirstPart(n) = 1 /\ \A k \in Int : PartStatements(n, k) = IF k \in DOMAIN Parts(n) THEN Parts(n)[k] ELSE <<>>
  BY <1>7 DEF FirstPart, PartStatements
<1>9. Op(n) \in {"feature", "not", "maybe", "sequence"} => Len(Parts(n)) = 1
  BY <1>5, <1>6
<1>10. Op(n) = "where" => Len(Parts(n)) = 2
  BY <1>5, <1>6
<1>11. QED
  BY <1>3, <1>4, <1>5, <1>8, <1>9, <1>10

\* What a statement means, kind by kind.
LEMMA MeaningIs ==
  ASSUME Types, Pure, NEW n \in Statement, NEW T
  PROVE  /\ Op(n) = "check" => Meaning(n, T) = (FactOf(n) \in facts)
         /\ Op(n) = "not" => Meaning(n, T) = ~AllTrue(Parts(n)[1], T)
         /\ Op(n) = "maybe" => Meaning(n, T) = TRUE
         /\ Op(n) = "where" => Meaning(n, T) = (AllTrue(Parts(n)[1], T) => AllTrue(Parts(n)[2], T))
         /\ Op(n) = "anyOf" => Meaning(n, T) = \E k \in DOMAIN Parts(n) : AllTrue(Parts(n)[k], T)
         /\ Op(n) = "every" => Meaning(n, T) = \A k \in DOMAIN Parts(n) : AllTrue(Parts(n)[k], T)
         /\ Op(n) \in {"feature", "sequence"} => Meaning(n, T) = AllTrue(Parts(n)[1], T)
<1>1. Op(n) \in {"feature", "sequence"} => DOMAIN Parts(n) = {1}
  BY PureFacts
<1>2. Op(n) \in {"feature", "sequence"} => Meaning(n, T) = \A k \in DOMAIN Parts(n) : AllTrue(Parts(n)[k], T)
  BY DEF Meaning
<1>3. Op(n) \in {"feature", "sequence"} => Meaning(n, T) = AllTrue(Parts(n)[1], T)
  <2> SUFFICES ASSUME Op(n) \in {"feature", "sequence"} PROVE Meaning(n, T) = AllTrue(Parts(n)[1], T)
    OBVIOUS
  <2>1. (\A k \in {1} : AllTrue(Parts(n)[k], T)) = AllTrue(Parts(n)[1], T)
    BY DEF AllTrue
  <2>2. QED
    BY <1>1, <1>2, <2>1
<1>4. QED
  BY <1>3 DEF Meaning

\* The list of statements that has ended came out as it means.
LEMMA PartValue ==
  ASSUME Types, Pure, Running, NEW T, Solves(T), PlaceOK(Top), FrameTrue(Top, T), SignalTrue(T),
         NEW ok \in BOOLEAN, Ended(ok)
  PROVE  IF Op(Top.node) = "anyOf" /\ Top.part \notin DOMAIN Parts(Top.node)
         THEN ~ok
         ELSE AllTrue(ListOf(Top), T) <=> ok
<1> DEFINE L == ListOf(Top)
           todo == Top.todo
           d == Len(L) - Len(todo)
<1>1. Top.node \in Statement /\ Top.part \in Nat \ {0} /\ todo \in Seq(Statement)
  BY TopTypes
<1>2. L = IF Top.part \in DOMAIN Parts(Top.node) THEN Parts(Top.node)[Top.part] ELSE <<>>
  BY <1>1, PureFacts DEF ListOf
<1>3. L \in Seq(Statement)
  BY <1>1, PartFacts DEF ListOf
<1>4. \A i \in 1..d : T[L[i]]
  BY DEF FrameTrue, Ran
<1>5. IsSuffix(todo, L) /\ (todo = <<>> => L = <<>>)
  BY DEF PlaceOK
<1>6. signal # "throw" /\ (signal # "none" => todo # <<>> /\ (signal = "ok" <=> T[Head(todo)]))
  BY DEF SignalTrue
<1>7. \/ signal = "ok" /\ ok /\ Len(todo) = 1
      \/ signal = "fail" /\ ~ok
      \/ signal = "none" /\ todo = <<>> /\ (ok <=> Op(Top.node) # "anyOf")
  BY <1>6 DEF Ended
<1>8. T \in [Statement -> BOOLEAN]
  BY DEF Solves
<1>9. Op(Top.node) = "anyOf" => \A k \in DOMAIN Parts(Top.node) : Parts(Top.node)[k] # <<>>
  BY <1>1, PureFacts
<1>10. SUFFICES IF Op(Top.node) = "anyOf" /\ Top.part \notin DOMAIN Parts(Top.node)
                THEN ~ok ELSE AllTrue(L, T) <=> ok
  OBVIOUS
<1> HIDE DEF L, todo
<1>11. AllTrue(L, T) <=> \A i \in 1..Len(L) : T[L[i]]
  BY <1>3 DEF AllTrue
<1>12. CASE signal = "none"
  <2>1. L = <<>> /\ Len(L) = 0 /\ (ok <=> Op(Top.node) # "anyOf")
    BY <1>5, <1>7, <1>12
  <2>2. AllTrue(L, T)
    BY <1>11, <2>1
  <2>3. Op(Top.node) = "anyOf" => Top.part \notin DOMAIN Parts(Top.node)
    BY <1>2, <1>9, <2>1
  <2>4. QED
    BY <2>1, <2>2, <2>3
<1>13. CASE signal # "none"
  <2>1. todo # <<>>
    BY <1>6, <1>13
  <2>2. d \in 0..Len(L) /\ d + 1 \in 1..Len(L) /\ Head(todo) = L[d + 1]
    BY <1>1, <1>3, <1>5, <2>1, SuffixFacts
  <2>3. L # <<>> /\ Top.part \in DOMAIN Parts(Top.node)
    BY <1>2, <1>3, <2>2
  <2>4. CASE ok
    <3>1. Len(todo) = 1 /\ T[Head(todo)]
      BY <1>6, <1>7, <1>13, <2>4
    <3>2. \A i \in 1..Len(L) : i \in 1..d \/ i = d + 1
      BY <1>3, <3>1
    <3>3. \A i \in 1..Len(L) : T[L[i]]
      BY <1>4, <2>2, <3>1, <3>2
    <3>4. QED
      BY <1>11, <2>3, <2>4, <3>3
  <2>5. CASE ~ok
    <3>1. ~T[Head(todo)]
      BY <1>6, <1>7, <1>13, <2>5
    <3>2. QED
      BY <1>11, <2>2, <2>3, <2>5, <3>1
  <2>6. QED
    BY <2>4, <2>5
<1>14. QED
  BY <1>12, <1>13

\* A list that ends leaves a frame that is true to the formula, or gives what it means.
LEMMA EndsTrue ==
  ASSUME Types, Pure, Running, NEW T, Solves(T), PlaceOK(Top), FrameTrue(Top, T), SignalTrue(T),
         NEW ok \in BOOLEAN, Ended(ok), NEW k \in Int, Goes(Top, ok, k)
  PROVE  /\ k = Pass => T[Top.node]
         /\ k = Fail => ~T[Top.node]
         /\ k > 0 => \A g \in FrameType :
              g.node = Top.node /\ g.part = k /\ g.todo = PartStatements(g.node, k) => PlaceOK(g) /\ FrameTrue(g, T)
<1> DEFINE w == Top.node
           p == Top.part
           P == Parts(w)
           Holds(i) == AllTrue(P[i], T)
           Next_ == k > 0 => /\ Op(w) = "where" => k = 2 /\ Holds(1)
                             /\ Op(w) = "anyOf" => k \in DOMAIN P /\ \A i \in 1..k - 1 : ~Holds(i)
                             /\ Op(w) = "every" => k \in DOMAIN P /\ \A i \in 1..k - 1 : Holds(i)
                             /\ Op(w) \in {"where", "anyOf", "every"}
<1>1. w \in Statement /\ p \in Nat \ {0} /\ Pass = 0 /\ Fail = -1
  BY TopTypes DEF Pass, Fail
<1>2. /\ Op(w) \in {"feature", "check", "not", "maybe", "where", "anyOf", "every", "sequence"}
      /\ P \in Seq(Seq(Statement)) /\ DOMAIN P = 1..Len(P) /\ Len(P) \in Nat
      /\ Op(w) \in {"feature", "not", "maybe", "sequence"} => Len(P) = 1
      /\ Op(w) = "where" => Len(P) = 2
  BY <1>1, PureFacts
<1>3. ListOf(Top) = IF p \in DOMAIN P THEN P[p] ELSE <<>>
  BY <1>1, PureFacts DEF ListOf
<1>4. IF Op(w) = "anyOf" /\ p \notin DOMAIN P THEN ~ok ELSE (p \in DOMAIN P => (Holds(p) <=> ok)) /\ (p \notin DOMAIN P => ok)
  <2>1. AllTrue(<<>>, T)
    BY DEF AllTrue
  <2>2. QED
    BY <1>3, <2>1, PartValue
<1>5. T[w] = Meaning(w, T)
  BY <1>1 DEF Solves
<1>6. Verdict(ok) = IF ok THEN 0 ELSE -1
  BY <1>1 DEF Verdict
<1>8. /\ Op(w) \notin {"where", "anyOf", "every"} => p = 1
      /\ Op(w) = "where" => p \in {1, 2} /\ (p = 2 => Holds(1))
      /\ Op(w) \in {"anyOf", "every"} => p = 1 \/ p \in DOMAIN P
      /\ Op(w) = "anyOf" => \A i \in 1..p - 1 : ~Holds(i)
      /\ Op(w) = "every" => \A i \in 1..p - 1 : Holds(i)
  BY DEF PlaceOK, FrameTrue
<1>12. /\ Op(w) \in {"feature", "not", "maybe", "sequence"} => 1 \in DOMAIN P
       /\ Op(w) = "where" => 1 \in DOMAIN P /\ 2 \in DOMAIN P
  <2> HIDE DEF P, w
  <2>1. QED
    BY <1>2
<1>9. (k = 0 => T[w]) /\ (k = -1 => ~T[w]) /\ Next_
  <2>1. CASE Op(w) = "check"
    BY <2>1 DEF Goes
  <2>2. CASE Op(w) \in {"feature", "sequence"}
    <3>1. k = Verdict(ok) /\ p = 1 /\ 1 \in DOMAIN P
      <4>1. k = Verdict(ok)
        BY <2>2 DEF Goes
      <4>2. QED
        BY <1>8, <1>12, <2>2, <4>1
    <3>2. T[w] = Holds(1)
      BY <1>1, <1>5, <2>2, MeaningIs
    <3>3. QED
      BY <1>4, <1>6, <2>2, <3>1, <3>2
  <2>3. CASE Op(w) = "not"
    <3>1. k = (IF ok THEN -1 ELSE 0) /\ p = 1 /\ 1 \in DOMAIN P
      <4>1. k = IF ok THEN -1 ELSE 0
        BY <2>3 DEF Goes, Verdict, Pass, Fail
      <4>2. QED
        BY <1>8, <1>12, <2>3, <4>1
    <3>2. T[w] <=> ~Holds(1)
      BY <1>1, <1>5, <2>3, MeaningIs
    <3>3. Holds(1) <=> ok
      BY <1>4, <2>3, <3>1
    <3> HIDE DEF Holds, P, p, w
    <3>4. QED
      BY <2>3, <3>1, <3>2, <3>3
  <2>4. CASE Op(w) = "maybe"
    <3>1. k = 0
      BY <1>1, <2>4 DEF Goes
    <3>2. T[w] = TRUE
      BY <1>1, <1>5, <2>4, MeaningIs
    <3>3. QED
      BY <3>1, <3>2
  <2>5. CASE Op(w) = "where"
    <3>1. /\ \/ p = 1 /\ k = IF ok THEN 2 ELSE 0
             \/ p = 2 /\ k = IF ok THEN 0 ELSE -1
          /\ 1 \in DOMAIN P /\ 2 \in DOMAIN P
      <4>1. \/ p = 1 /\ k = IF ok THEN 2 ELSE 0
            \/ p = 2 /\ k = IF ok THEN 0 ELSE -1
        BY <2>5 DEF Goes, Verdict, Pass, Fail
      <4>2. QED
        BY <1>12, <2>5, <4>1
    <3>2. T[w] <=> (Holds(1) => Holds(2))
      BY <1>1, <1>5, <2>5, MeaningIs
    <3>3. Holds(p) <=> ok
      BY <1>4, <2>5, <3>1
    <3>4. p = 2 => Holds(1)
      BY <1>8, <2>5
    <3> HIDE DEF Holds, P, p, w
    <3>5. CASE p = 1
      BY <2>5, <3>1, <3>2, <3>3, <3>5
    <3>6. CASE p = 2
      BY <2>5, <3>1, <3>2, <3>3, <3>4, <3>6
    <3>7. QED
      BY <3>1, <3>5, <3>6
  <2>6. CASE Op(w) = "anyOf"
    <3>1. k = IF ok THEN 0 ELSE IF p < Len(P) THEN p + 1 ELSE -1
      BY <1>1, <2>6 DEF Goes, AfterAlternative
    <3>2. T[w] = \E i \in DOMAIN P : Holds(i)
      BY <1>1, <1>5, <2>6, MeaningIs
    <3>3. (p \notin DOMAIN P => ~ok) /\ (p \in DOMAIN P => (Holds(p) <=> ok))
      BY <1>4, <2>6
    <3>4. (p = 1 \/ p \in DOMAIN P) /\ \A i \in 1..p - 1 : ~Holds(i)
      BY <1>8, <2>6
    <3> HIDE DEF Holds, P, p, w
    <3>5. CASE ok
      BY <2>6, <3>1, <3>2, <3>3, <3>5
    <3>6. CASE ~ok
      <4>1. \A i \in 1..p : i \in DOMAIN P => ~Holds(i)
        BY <1>1, <3>3, <3>4, <3>6
      <4>2. CASE p < Len(P)
        <5>1. p + 1 \in DOMAIN P /\ \A i \in 1..p : i \in DOMAIN P
          BY <1>1, <1>2, <4>2
        <5>2. k = p + 1 /\ (p + 1) - 1 = p
          BY <1>1, <3>1, <3>6, <4>2
        <5>3. \A i \in 1..k - 1 : ~Holds(i)
          BY <4>1, <5>1, <5>2
        <5>4. QED
          BY <1>1, <2>6, <5>1, <5>2, <5>3
      <4>3. CASE ~(p < Len(P))
        <5>1. \A i \in DOMAIN P : i \in 1..p
          BY <1>1, <1>2, <4>3
        <5>2. k = -1 /\ ~T[w]
          BY <3>1, <3>2, <3>6, <4>1, <4>3, <5>1
        <5>3. QED
          BY <5>2
      <4>4. QED
        BY <4>2, <4>3
    <3>7. QED
      BY <3>5, <3>6
  <2>7. CASE Op(w) = "every"
    <3>1. k = IF ok /\ p < Len(P) THEN p + 1 ELSE IF ok THEN 0 ELSE -1
      BY <1>6, <2>7 DEF Goes
    <3>2. T[w] = \A i \in DOMAIN P : Holds(i)
      BY <1>1, <1>5, <2>7, MeaningIs
    <3>3. (p \notin DOMAIN P => ok) /\ (p \in DOMAIN P => (Holds(p) <=> ok))
      BY <1>4, <2>7
    <3>4. (p = 1 \/ p \in DOMAIN P) /\ \A i \in 1..p - 1 : Holds(i)
      BY <1>8, <2>7
    <3> HIDE DEF Holds, P, p, w
    <3>5. CASE ~ok
      BY <2>7, <3>1, <3>2, <3>3, <3>5
    <3>6. CASE ok
      <4>1. \A i \in 1..p : i \in DOMAIN P => Holds(i)
        BY <1>1, <3>3, <3>4, <3>6
      <4>2. CASE p < Len(P)
        <5>1. p + 1 \in DOMAIN P /\ \A i \in 1..p : i \in DOMAIN P
          BY <1>1, <1>2, <4>2
        <5>2. k = p + 1 /\ (p + 1) - 1 = p
          BY <1>1, <3>1, <3>6, <4>2
        <5>3. \A i \in 1..k - 1 : Holds(i)
          BY <4>1, <5>1, <5>2
        <5>4. QED
          BY <1>1, <2>7, <5>1, <5>2, <5>3
      <4>3. CASE ~(p < Len(P))
        <5>1. \A i \in DOMAIN P : i \in 1..p
          BY <1>1, <1>2, <4>3
        <5>2. k = 0 /\ T[w]
          BY <3>1, <3>2, <3>6, <4>1, <4>3, <5>1
        <5>3. QED
          BY <5>2
      <4>4. QED
        BY <4>2, <4>3
    <3>7. QED
      BY <3>5, <3>6
  <2>8. QED
    BY <1>2, <2>1, <2>2, <2>3, <2>4, <2>5, <2>6, <2>7
<1>10. ASSUME k > 0, NEW g \in FrameType, g.node = w, g.part = k, g.todo = PartStatements(g.node, k)
       PROVE  PlaceOK(g) /\ FrameTrue(g, T)
  <2>1. ListOf(g) = g.todo /\ ListOf(g) \in Seq(Statement)
    BY <1>1, <1>10, PartFacts DEF ListOf
  <2>2. IsSuffix(g.todo, ListOf(g)) /\ Ran(g) = 0
    BY <2>1, WholeIsSuffix DEF Ran
  <2>3. \A i \in 1..Ran(g) : FALSE
    BY <2>2
  <2>4. /\ Op(w) = "where" => k = 2 /\ Holds(1)
        /\ Op(w) = "anyOf" => k \in DOMAIN P /\ \A i \in 1..k - 1 : ~Holds(i)
        /\ Op(w) = "every" => k \in DOMAIN P /\ \A i \in 1..k - 1 : Holds(i)
        /\ Op(w) \in {"where", "anyOf", "every"}
    BY <1>9, <1>10
  <2>5. PlaceOK(g)
    BY <1>10, <2>1, <2>2, <2>4 DEF PlaceOK
  <2>6. FrameTrue(g, T)
    BY <1>10, <2>3, <2>4 DEF FrameTrue
  <2>7. QED
    BY <2>5, <2>6
<1>11. QED
  BY <1>1, <1>9, <1>10

\* A frame that has begun has nothing to be untrue.
LEMMA BegunTrue ==
  ASSUME Types, Pure, NEW n \in Statement, NEW T, NEW g,
         g.node = n, g.part = FirstPart(n), g.todo = PartStatements(n, FirstPart(n))
  PROVE  PlaceOK(g) /\ FrameTrue(g, T)
<1>1. g.part = 1 /\ ListOf(g) = g.todo /\ ListOf(g) \in Seq(Statement)
  BY PureFacts, PartFacts DEF ListOf
<1>2. IsSuffix(g.todo, ListOf(g)) /\ Ran(g) = 0
  <2> DEFINE t == g.todo
  <2>1. t \in Seq(Statement) /\ ListOf(g) = t /\ Ran(g) = Len(ListOf(g)) - Len(t)
    BY <1>1 DEF Ran
  <2> SUFFICES IsSuffix(t, ListOf(g)) /\ Ran(g) = 0
    OBVIOUS
  <2> HIDE DEF t
  <2>2. IsSuffix(t, t)
    BY <2>1, WholeIsSuffix
  <2>3. QED
    BY <2>1, <2>2
<1>3. \A i \in 1..Ran(g) : FALSE
  BY <1>2
<1>4. \A i \in 1..g.part - 1 : FALSE
  BY <1>1
<1>5. PlaceOK(g)
  BY <1>1, <1>2 DEF PlaceOK
<1>6. FrameTrue(g, T)
  BY <1>1, <1>3, <1>4 DEF FrameTrue
<1>7. QED
  BY <1>5, <1>6

\* A frame whose statement was ok and that goes on with the next.
LEMMA GoneOnTrue ==
  ASSUME Types, Pure, Running, NEW T, PlaceOK(Top), FrameTrue(Top, T), SignalTrue(T),
         signal = "ok", Len(Top.todo) > 1,
         NEW g \in FrameType, g.node = Top.node, g.part = Top.part, g.todo = Tail(Top.todo)
  PROVE  PlaceOK(g) /\ FrameTrue(g, T)
<1> DEFINE L == ListOf(Top)
           todo == Top.todo
           d == Len(L) - Len(todo)
           rest == Tail(todo)
<1>1. Top.node \in Statement /\ Top.part \in Nat \ {0} /\ todo \in Seq(Statement)
  BY TopTypes
<1>2. L \in Seq(Statement) /\ ListOf(g) = L
  <2>1. L \in Seq(Statement)
    <3>1. \A k \in Int : PartStatements(Top.node, k) \in Seq(Statement)
      BY <1>1, PartFacts
    <3>2. Top.part \in Int
      BY <1>1
    <3>3. QED
      BY <3>1, <3>2 DEF ListOf
  <2>2. ListOf(g) = L
    BY DEF ListOf
  <2>3. QED
    BY <2>1, <2>2
<1>3. IsSuffix(todo, L)
  BY DEF PlaceOK
<1>4. \A i \in 1..d : T[L[i]]
  BY DEF FrameTrue, Ran
<1>5. T[Head(todo)]
  BY DEF SignalTrue
<1>6. Len(todo) > 1
  OBVIOUS
<1>7. Ran(g) = Len(L) - Len(rest)
  BY <1>2 DEF Ran
<1> HIDE DEF L, todo
<1>8. /\ d \in 0..Len(L) /\ d + 1 \in 1..Len(L) /\ Head(todo) = L[d + 1]
      /\ IsSuffix(rest, L) /\ Len(rest) = Len(todo) - 1 /\ Len(todo) \in Nat /\ Len(L) \in Nat
  BY <1>1, <1>2, <1>3, <1>6, SuffixFacts
<1> HIDE DEF rest
<1>9. Ran(g) = d + 1
  BY <1>7, <1>8
<1>10. \A i \in 1..Ran(g) : T[L[i]]
  <2>1. d \in Nat /\ T[L[d + 1]]
    BY <1>5, <1>8
  <2> HIDE DEF d
  <2>2. \A i \in 1..d + 1 : i \in 1..d \/ i = d + 1
    BY <2>1
  <2>3. QED
    BY <1>4, <1>9, <2>1, <2>2
<1>11. rest # <<>>
  BY <1>6, <1>8
<1>12. PlaceOK(g)
  BY <1>2, <1>8, <1>11 DEF PlaceOK, todo, rest
<1>13. FrameTrue(g, T)
  BY <1>2, <1>10 DEF FrameTrue
<1>14. QED
  BY <1>12, <1>13

LEMMA InitTruth ==
  ASSUME Init
  PROVE  TruthInv
<1> DEFINE g == Frame(1, "authoritative", FALSE, <<1>>)
<1>1. Types /\ 1 \in Statement
  BY InitIInv, ProgramFacts DEF IInv
<1>2. stack = <<g>> /\ signal = "none"
  BY DEF Init
<1>3. g.node = 1 /\ g.part = FirstPart(1) /\ g.todo = PartStatements(1, FirstPart(1))
  BY DEF Frame
<1> HIDE DEF g
<1>4. DOMAIN stack = {1} /\ stack[1] = g /\ Running
  BY <1>2 DEF Running
<1> SUFFICES ASSUME Pure, NEW T PROVE TruthOf(T)
  BY DEF TruthInv
<1>5. PlaceOK(g) /\ FrameTrue(g, T)
  BY <1>1, <1>3, BegunTrue
<1>6. QED
  BY <1>2, <1>4, <1>5 DEF TruthOf, SignalTrue

\* The facts stay as they are, so that a formula means what it meant.
LEMMA TruthSame ==
  ASSUME program' = program, facts' = facts, NEW T
  PROVE  /\ Solves(T)' <=> Solves(T)
         /\ (Pure)' <=> Pure
BY DEF Solves, Meaning, AllTrue, Pure, Used, Statement, Op, Parts, FactOf

LEMMA TruthStep ==
  ASSUME IInv, CallInv, TruthInv, Next
  PROVE  TruthInv'
<1>1. Types /\ MarkInv /\ AttemptsInv /\ ModeInv
  BY DEF IInv
<1>2. program' = program
  BY <1>1, AttemptsStep
<1> SUFFICES ASSUME Pure', ~exhausted', NEW T, Solves(T)' PROVE TruthOf(T)'
  BY DEF TruthInv
<1>3. Pure
  BY <1>2 DEF Pure, Used, Statement, Op
<1>4. ASSUME facts' = facts, ~exhausted PROVE Solves(T) /\ TruthOf(T)
  <2>1. Solves(T)
    BY <1>2, <1>4, TruthSame
  <2>2. QED
    BY <1>3, <1>4, <2>1 DEF TruthInv
<1> DEFINE n == Len(stack)
           OK(g) == PlaceOK(g) /\ FrameTrue(g, T)
<1>5. n \in Nat /\ DOMAIN stack = 1..n /\ stack \in Seq(FrameType)
  BY <1>1 DEF Types
<1>6. ASSUME NEW k \in Nat, Len(stack') = k, stack' \in Seq(FrameType), \A f \in 1..k : OK(stack'[f]),
             SignalTrue(T)', ~Running' => (outcome' = "passed" <=> T[1])
      PROVE  TruthOf(T)'
  <2>1. DOMAIN stack' = 1..k
    BY <1>6
  <2>2. ASSUME NEW f \in 1..k PROVE PlaceOK(stack[f])' /\ FrameTrue(stack[f], T)'
    <3>1. PlaceOK(stack'[f]) /\ FrameTrue(stack'[f], T)
      BY <1>6
    <3>2. \A m, i : PartStatements(m, i)' = PartStatements(m, i)
      BY <1>2 DEF PartStatements, Op, Parts
    <3>3. PlaceOK(stack[f])'
      BY <1>2, <3>1 DEF PlaceOK, ListOf, PartStatements, Op, Parts
    <3>4. FrameTrue(stack[f], T)'
      BY <1>2, <3>1 DEF FrameTrue, Ran, ListOf, PartStatements, AllTrue, Op, Parts
    <3>5. QED
      BY <3>3, <3>4
  <2>3. (\A f \in DOMAIN stack : PlaceOK(stack[f]) /\ FrameTrue(stack[f], T))'
    BY <2>1, <2>2
  <2>4. QED
    BY <1>6, <2>3 DEF TruthOf
<1>7. CASE Stays
  <2>1. ASSUME Calling, Op(Callee) = "undefined" PROVE FALSE
    BY <1>1, <1>3, <2>1, CalleeFacts, PureFacts
  <2>2. ASSUME NEW f \in DOMAIN stack, Op(stack[f].node) = "until" PROVE FALSE
    <3>1. stack[f] \in FrameType
      BY <1>5
    <3>2. stack[f].node \in Statement
      BY <3>1 DEF FrameType
    <3>3. QED
      BY <1>1, <1>3, <2>2, <3>2, PureFacts
  <2>3. QED
    BY <1>7, <2>1, <2>2 DEF Stays
<1>8. CASE \E ok \in BOOLEAN : Records(ok)
  <2>1. PICK ok \in BOOLEAN : Records(ok)
    BY <1>8
  <2>2. Calling /\ ~exhausted /\ Callee \in Statement
    BY <1>1, <2>1, CalleeFacts DEF Records, Accepted, Halted
  <2>3. Op(Callee) = "check"
    BY <1>1, <1>3, <2>1, <2>2, PureFacts DEF Records
  <2>4. facts' = facts /\ (ok <=> FactOf(Callee) \in facts) /\ stack' = stack /\ outcome' = outcome
        /\ signal' = IF ok THEN "ok" ELSE "fail"
    BY <2>1, <2>3 DEF Records
  <2>5. Solves(T) /\ TruthOf(T)
    BY <1>4, <2>2, <2>4
  <2>6. T[Callee] <=> ok
    <3>1. T[Callee] = Meaning(Callee, T) /\ Meaning(Callee, T) = (FactOf(Callee) \in facts)
      BY <1>1, <1>3, <2>2, <2>3, <2>5, MeaningIs DEF Solves
    <3>2. QED
      BY <2>4, <3>1
  <2>7. SignalTrue(T)'
    BY <2>2, <2>4, <2>6 DEF SignalTrue, Calling, Callee, Top
  <2>8. Running'
    BY <2>2, <2>4 DEF Calling, Running
  <2>9. QED
    BY <1>5, <1>6, <2>4, <2>5, <2>7, <2>8 DEF TruthOf
<1>9. CASE Pushes
  <2> DEFINE g == Frame(Callee, CalleeMode, Op(Top.node) = "ensure", CalleeSeq)
  <2>1. /\ Calling /\ stack' \in Seq(FrameType) /\ Len(stack') = n + 1
        /\ \A f \in 1..n : stack'[f] = stack[f]
        /\ stack'[n + 1] = g
    BY <1>1, <1>9, PushFacts
  <2>2. facts' = facts /\ ~exhausted /\ signal' = "none"
    BY <1>9, <2>1 DEF Pushes, Accepted, Halted, Calling
  <2>3. TruthOf(T) /\ Callee \in Statement
    BY <1>1, <1>4, <2>1, <2>2, CalleeFacts
  <2>4. g.node = Callee /\ g.part = FirstPart(Callee) /\ g.todo = PartStatements(Callee, FirstPart(Callee))
    BY DEF Frame
  <2> HIDE DEF g, n
  <2>5. OK(g)
    BY <1>1, <1>3, <2>3, <2>4, BegunTrue
  <2>6. \A f \in 1..n + 1 : f \in 1..n \/ f = n + 1
    BY <1>5
  <2>7. \A f \in 1..n + 1 : OK(stack'[f])
    BY <1>5, <2>1, <2>3, <2>5, <2>6 DEF TruthOf
  <2>8. SignalTrue(T)'
    BY <2>2 DEF SignalTrue
  <2>9. Running'
    BY <1>5, <2>1 DEF Running
  <2>10. QED
    BY <1>5, <1>6, <2>1, <2>7, <2>8, <2>9
<1>10. CASE \E g \in FrameType : Turns(g)
  <2>1. PICK g \in FrameType : Turns(g)
    BY <1>10
  <2>2. /\ Running /\ Len(stack') = n /\ stack'[n] = g /\ stack' \in Seq(FrameType)
        /\ \A f \in 1..n - 1 : stack'[f] = stack[f]
    BY <1>1, <2>1, TurnFacts
  <2>3. facts' = facts /\ ~exhausted /\ signal' = "none" /\ g.node = Top.node /\ NextTodo(g)
    BY <2>1 DEF Turns
  <2>4. Solves(T) /\ TruthOf(T)
    BY <1>4, <2>3
  <2>5. Top = stack[n] /\ n \in 1..n
    BY <1>1, <2>2, TopFacts
  <2>6. OK(Top) /\ SignalTrue(T)
    BY <1>5, <2>4, <2>5 DEF TruthOf
  <2>7. OK(g)
    <3>1. CASE signal = "ok" /\ Len(Top.todo) > 1 /\ g.part = Top.part /\ g.todo = Tail(Top.todo)
      BY <1>1, <1>3, <2>2, <2>3, <2>6, <3>1, GoneOnTrue
    <3>2. CASE /\ \E ok \in BOOLEAN : Ended(ok) /\ Goes(Top, ok, g.part)
               /\ g.todo = PartStatements(g.node, g.part)
      <4>1. PICK ok \in BOOLEAN : Ended(ok) /\ Goes(Top, ok, g.part)
        BY <3>2
      <4>2. g.part \in Int /\ g.part > 0
        BY DEF FrameType
      <4>3. QED
        BY <1>1, <1>3, <2>2, <2>3, <2>4, <2>6, <3>2, <4>1, <4>2, EndsTrue
    <3>3. QED
      BY <2>3, <3>1, <3>2 DEF NextTodo
  <2> HIDE DEF n
  <2>8. \A f \in 1..n : f \in 1..n - 1 \/ f = n
    BY <1>5
  <2>9. \A f \in 1..n : OK(stack'[f])
    BY <1>5, <2>2, <2>4, <2>7, <2>8 DEF TruthOf
  <2>10. SignalTrue(T)'
    BY <2>3 DEF SignalTrue
  <2>11. Running'
    BY <1>5, <2>2, <2>5 DEF Running
  <2>12. QED
    BY <1>5, <1>6, <2>2, <2>9, <2>10, <2>11
<1>11. CASE \E ok \in BOOLEAN : Returns(ok)
  <2>1. PICK ok \in BOOLEAN : Returns(ok)
    BY <1>11
  <2>2. /\ Running /\ Len(stack') = n - 1 /\ stack' \in Seq(FrameType)
        /\ \A f \in 1..n - 1 : stack'[f] = stack[f]
    BY <1>1, <2>1, ReturnFacts
  <2>3. facts' = facts /\ ~exhausted /\ Finish(ok)
    BY <2>1 DEF Returns
  <2>4. Solves(T) /\ TruthOf(T)
    BY <1>4, <2>3
  <2>5. Top = stack[n] /\ n \in Nat \ {0} /\ n \in DOMAIN stack
    BY <1>1, <2>2, TopFacts
  <2>6. PlaceOK(Top) /\ FrameTrue(Top, T) /\ SignalTrue(T)
    BY <2>4, <2>5 DEF TruthOf
  <2>7. T[Top.node] <=> ok
    <3>1. CASE ok
      <4>1. PICK v \in BOOLEAN : Ended(v) /\ Goes(Top, v, Pass)
        BY <2>1, <3>1 DEF Returns
      <4>2. Pass \in Int
        BY DEF Pass
      <4>3. T[Top.node]
        BY <1>1, <1>3, <2>2, <2>4, <2>6, <4>1, <4>2, EndsTrue
      <4>4. QED
        BY <3>1, <4>3
    <3>2. CASE ~ok
      <4>1. signal # "throw"
        BY <2>2, <2>6 DEF SignalTrue
      <4>2. PICK v \in BOOLEAN : Ended(v) /\ Goes(Top, v, Fail)
        BY <2>1, <3>2, <4>1 DEF Returns
      <4>3. Fail \in Int
        BY DEF Fail
      <4>4. ~T[Top.node]
        BY <1>1, <1>3, <2>2, <2>4, <2>6, <4>2, <4>3, EndsTrue
      <4>5. QED
        BY <3>2, <4>4
    <3>3. QED
      BY <3>1, <3>2
  <2>8. \A f \in 1..n - 1 : OK(stack'[f])
    <3>1. \A f \in 1..n - 1 : f \in DOMAIN stack
      BY <1>5
    <3>2. QED
      BY <2>2, <2>4, <3>1 DEF TruthOf
  <2>9. CASE n = 1
    <3>1. Top.node = 1 /\ (outcome' = IF ok THEN "passed" ELSE "failed")
      BY <1>1, <2>2, <2>3, <2>5, <2>9 DEF ModeInv, Finish
    <3>2. ~Running'
      BY <2>2, <2>9 DEF Running
    <3>3. SignalTrue(T)'
      BY <3>2 DEF SignalTrue
    <3>4. outcome' = "passed" <=> T[1]
      BY <2>7, <3>1
    <3>5. QED
      BY <1>6, <2>2, <2>5, <2>8, <3>3, <3>4
  <2>10. CASE n # 1
    <3>1. signal' = IF ok THEN "ok" ELSE "fail"
      BY <2>3, <2>10 DEF Finish
    <3>2. n \in DOMAIN stack /\ n > 1
      BY <2>5, <2>10
    <3>3. stack[n - 1].todo # <<>> /\ Top.node = Head(stack[n - 1].todo)
      BY <2>5, <3>2 DEF CallInv
    <3>4. Top' = stack[n - 1] /\ Running'
      <4>1. n - 1 \in 1..n - 1 /\ Len(stack') # 0
        BY <2>2, <2>5, <3>2
      <4>2. stack'[n - 1] = stack[n - 1]
        BY <2>2, <4>1
      <4>3. QED
        BY <2>2, <4>1, <4>2 DEF Top, Running
    <3>5. SignalTrue(T)'
      BY <2>7, <3>1, <3>3, <3>4 DEF SignalTrue
    <3>6. QED
      BY <1>6, <2>2, <2>5, <2>8, <3>4, <3>5
  <2>11. QED
    BY <2>9, <2>10
<1>12. QED
  BY <1>1, <1>7, <1>8, <1>9, <1>10, <1>11, Shapes

LEMMA StutterTruth ==
  ASSUME TruthInv, UNCHANGED vars
  PROVE  TruthInv'
<1>1. UNCHANGED <<program, facts, stack, signal, outcome, exhausted>>
  BY DEF vars
<1> SUFFICES ASSUME Pure', ~exhausted', NEW T, Solves(T)' PROVE TruthOf(T)'
  BY DEF TruthInv
<1>2. Pure /\ Solves(T)
  BY <1>1, TruthSame
<1>3. TruthOf(T)
  BY <1>1, <1>2 DEF TruthInv
<1>4. (\A f \in DOMAIN stack : PlaceOK(stack[f]) /\ FrameTrue(stack[f], T))'
  <2> SUFFICES ASSUME NEW f \in DOMAIN stack' PROVE PlaceOK(stack[f])' /\ FrameTrue(stack[f], T)'
    OBVIOUS
  <2>1. PlaceOK(stack'[f]) /\ FrameTrue(stack'[f], T)
    BY <1>1, <1>3 DEF TruthOf
  <2>2. PlaceOK(stack[f])'
    BY <1>1, <2>1 DEF PlaceOK, ListOf, PartStatements, Op, Parts
  <2>3. FrameTrue(stack[f], T)'
    BY <1>1, <2>1 DEF FrameTrue, Ran, ListOf, PartStatements, AllTrue, Op, Parts
  <2>4. QED
    BY <2>2, <2>3
<1>5. SignalTrue(T)'
  BY <1>1, <1>3 DEF TruthOf, SignalTrue, Running, Top
<1>6. (~Running => (outcome = "passed" <=> T[1]))'
  BY <1>1, <1>3 DEF TruthOf, Running
<1>7. QED
  BY <1>4, <1>5, <1>6 DEF TruthOf

\* The verdict is that of every consistent reading of the program.
FormulaTold ==
  outcome # "running" /\ Pure /\ ~exhausted => \A T : Solves(T) => (outcome = "passed" <=> T[1])

\* Whatever the statements of a feature of checks and logic steps mean together, the feature
\* passes if what it spells is true and fails if it is false.
THEOREM FormulaAlwaysTold == Spec => []FormulaTold
<1>1. Init => IInv /\ EInv /\ TruthInv
  BY InitIInv, InitEInv, InitTruth
<1>2. IInv /\ EInv /\ TruthInv /\ [Next]_vars => (IInv /\ EInv /\ TruthInv)'
  BY StepIInv, StepEInv, StutterEInv, TruthStep, StutterTruth DEF EInv
<1>3. IInv /\ TruthInv => FormulaTold
  BY DEF IInv, FramesInv, TruthInv, TruthOf, FormulaTold
<1>4. QED
  BY <1>1, <1>2, <1>3, PTL DEF Spec

-----------------------------------------------------------------------------
(* A program in which no statement is inside itself has a reading.          *)

Inside(n) == {m \in Statement : \E k \in DOMAIN Parts(n) : \E i \in DOMAIN Parts(n)[k] : Parts(n)[k][i] = m}
Ranked(rank) == rank \in [Statement -> Nat] /\ \A n \in Statement : \A m \in Inside(n) : rank[m] < rank[n]
Grounded == \E rank : Ranked(rank)

\* What a statement means depends on what is inside it only.
LEMMA MeaningLocal ==
  ASSUME Types, Pure, NEW n \in Statement, NEW f, NEW g,
         \A m \in Inside(n) : f[m] = g[m]
  PROVE  Meaning(n, f) <=> Meaning(n, g)
<1>1. /\ Op(n) \in {"feature", "check", "not", "maybe", "where", "anyOf", "every", "sequence"}
      /\ Parts(n) \in Seq(Seq(Statement))
      /\ Op(n) \in {"feature", "not", "maybe", "sequence"} => Len(Parts(n)) = 1
      /\ Op(n) = "where" => Len(Parts(n)) = 2
  BY PureFacts
<1>2. ASSUME NEW k \in DOMAIN Parts(n) PROVE AllTrue(Parts(n)[k], f) <=> AllTrue(Parts(n)[k], g)
  <2>1. Parts(n)[k] \in Seq(Statement)
    BY <1>1
  <2>2. ASSUME NEW i \in DOMAIN Parts(n)[k] PROVE f[Parts(n)[k][i]] = g[Parts(n)[k][i]]
    <3>1. Parts(n)[k][i] \in Inside(n)
      BY <2>1 DEF Inside
    <3>2. QED
      BY <3>1
  <2>3. QED
    BY <2>2 DEF AllTrue
<1>3. /\ Op(n) \in {"feature", "not", "maybe", "sequence", "where"} => 1 \in DOMAIN Parts(n)
      /\ Op(n) = "where" => 2 \in DOMAIN Parts(n)
  BY <1>1
<1> DEFINE F(k) == AllTrue(Parts(n)[k], f)
           G(k) == AllTrue(Parts(n)[k], g)
           D == DOMAIN Parts(n)
<1>4. \A k \in D : F(k) <=> G(k)
  BY <1>2
<1>5. /\ Op(n) = "check" => Meaning(n, f) = Meaning(n, g)
      /\ Op(n) = "not" => Meaning(n, f) = ~F(1) /\ Meaning(n, g) = ~G(1)
      /\ Op(n) = "maybe" => Meaning(n, f) = TRUE /\ Meaning(n, g) = TRUE
      /\ Op(n) = "where" => Meaning(n, f) = (F(1) => F(2)) /\ Meaning(n, g) = (G(1) => G(2))
      /\ Op(n) = "anyOf" => Meaning(n, f) = (\E k \in D : F(k)) /\ Meaning(n, g) = (\E k \in D : G(k))
      /\ Op(n) = "every" => Meaning(n, f) = (\A k \in D : F(k)) /\ Meaning(n, g) = (\A k \in D : G(k))
      /\ Op(n) \in {"feature", "sequence"} => Meaning(n, f) = F(1) /\ Meaning(n, g) = G(1)
  BY MeaningIs
<1> HIDE DEF F, G, D
<1>6. (\E k \in D : F(k)) <=> (\E k \in D : G(k))
  BY <1>4
<1>7. (\A k \in D : F(k)) <=> (\A k \in D : G(k))
  BY <1>4
<1>8. /\ Op(n) \in {"feature", "not", "maybe", "sequence", "where"} => (F(1) <=> G(1))
      /\ Op(n) = "where" => (F(2) <=> G(2))
  BY <1>3, <1>4 DEF D
<1>9. QED
  BY <1>1, <1>5, <1>6, <1>7, <1>8

LEMMA MeaningBoolean ==
  ASSUME NEW n, NEW T
  PROVE  Meaning(n, T) \in BOOLEAN
<1>1. CASE Op(n) = "check"
  BY <1>1 DEF Meaning
<1>2. CASE Op(n) = "not"
  BY <1>2 DEF Meaning
<1>3. CASE Op(n) = "maybe"
  BY <1>3 DEF Meaning
<1>4. CASE Op(n) = "where"
  BY <1>4 DEF Meaning
<1>5. CASE Op(n) = "anyOf"
  BY <1>5 DEF Meaning
<1>6. CASE Op(n) \notin {"check", "not", "maybe", "where", "anyOf"}
  BY <1>6 DEF Meaning
<1>7. QED
  BY <1>1, <1>2, <1>3, <1>4, <1>5, <1>6

\* A function that is a reading as far as rank N.
UpTo(N, rank, f) == /\ f \in [Statement -> BOOLEAN]
                    /\ \A n \in Statement : rank[n] < N => (f[n] <=> Meaning(n, f))

LEMMA SomeUpTo ==
  ASSUME Types, Pure, NEW rank, Ranked(rank), NEW N \in Nat
  PROVE  \E f : UpTo(N, rank, f)
<1> DEFINE Missing == {K \in Nat : ~\E f : UpTo(K, rank, f)}
<1>1. SUFFICES ASSUME Missing # {} PROVE FALSE
  OBVIOUS
<1>2. PICK K \in Missing : \A L \in Missing : K <= L
  BY <1>1, Least
<1>3. K \in Nat /\ \A n \in Statement : rank[n] \in Nat
  BY DEF Ranked
<1>4. K # 0
  <2> SUFFICES ASSUME K = 0 PROVE FALSE
    OBVIOUS
  <2> DEFINE z == [n \in Statement |-> TRUE]
  <2>1. z \in [Statement -> BOOLEAN]
    OBVIOUS
  <2>2. UpTo(K, rank, z)
    BY <1>3, <2>1 DEF UpTo
  <2>3. QED
    BY <2>2
<1>5. K - 1 \in Nat /\ K - 1 \notin Missing
  BY <1>2, <1>3, <1>4
<1>6. PICK f : UpTo(K - 1, rank, f)
  BY <1>5
<1> DEFINE g == [n \in Statement |-> IF rank[n] = K - 1 THEN Meaning(n, f) ELSE f[n]]
<1>7. g \in [Statement -> BOOLEAN]
  BY <1>6, MeaningBoolean DEF UpTo
<1>8. ASSUME NEW n \in Statement, rank[n] < K PROVE g[n] <=> Meaning(n, g)
  <2>1. \A m \in Inside(n) : m \in Statement /\ rank[m] < rank[n]
    BY DEF Ranked, Inside
  <2>2. \A m \in Inside(n) : f[m] = g[m]
    BY <1>3, <1>8, <2>1
  <2>3. Meaning(n, f) <=> Meaning(n, g)
    BY <2>2, MeaningLocal
  <2>4. CASE rank[n] = K - 1
    <3>1. g[n] = Meaning(n, f)
      BY <2>4
    <3>2. QED
      BY <2>3, <3>1
  <2>5. CASE rank[n] # K - 1
    <3>1. rank[n] < K - 1 /\ g[n] = f[n]
      BY <1>3, <1>8, <2>5
    <3>2. f[n] <=> Meaning(n, f)
      BY <1>6, <3>1 DEF UpTo
    <3>3. QED
      BY <2>3, <3>1, <3>2
  <2>6. QED
    BY <2>4, <2>5
<1> HIDE DEF g
<1>9. UpTo(K, rank, g)
  BY <1>7, <1>8 DEF UpTo
<1>10. QED
  BY <1>9

\* Two such functions agree as far as both are readings.
LEMMA UpToAgree ==
  ASSUME Types, Pure, NEW rank, Ranked(rank), NEW N \in Nat, NEW M \in Nat, N <= M,
         NEW f, NEW g, UpTo(N, rank, f), UpTo(M, rank, g), NEW n \in Statement, rank[n] < N
  PROVE  f[n] = g[n]
<1> DEFINE Differ == {rank[m] : m \in {m \in Statement : rank[m] < N /\ f[m] # g[m]}}
<1>1. \A m \in Statement : rank[m] \in Nat
  BY DEF Ranked
<1>2. SUFFICES ASSUME Differ # {} PROVE FALSE
  OBVIOUS
<1>3. Differ \in SUBSET Nat
  BY <1>1
<1>4. PICK r \in Differ : \A s \in Differ : r <= s
  BY <1>2, <1>3, Least
<1>5. PICK m \in Statement : rank[m] = r /\ r < N /\ f[m] # g[m]
  OBVIOUS
<1>6. ASSUME NEW k \in Inside(m) PROVE f[k] = g[k]
  <2>1. k \in Statement /\ rank[k] < r /\ rank[k] < N
    BY <1>1, <1>5 DEF Ranked, Inside
  <2>2. rank[k] \notin Differ
    BY <1>1, <1>3, <1>4, <2>1
  <2>3. QED
    BY <2>1, <2>2
<1>7. Meaning(m, f) <=> Meaning(m, g)
  BY <1>6, MeaningLocal
<1>8. (f[m] <=> Meaning(m, f)) /\ (g[m] <=> Meaning(m, g))
  BY <1>1, <1>5 DEF UpTo
<1>9. f[m] \in BOOLEAN /\ g[m] \in BOOLEAN
  BY DEF UpTo
<1>10. QED
  BY <1>5, <1>7, <1>8, <1>9

LEMMA GroundedHasReading ==
  ASSUME Types, Pure, Grounded
  PROVE  \E T : Solves(T)
<1>1. PICK rank : Ranked(rank)
  BY DEF Grounded
<1> DEFINE Far(n) == rank[n] + 1
           T == [n \in Statement |-> \E f : UpTo(Far(n), rank, f) /\ f[n]]
<1>2. T \in [Statement -> BOOLEAN]
  OBVIOUS
<1>3. \A n \in Statement : rank[n] \in Nat /\ Far(n) \in Nat /\ rank[n] < Far(n)
  BY <1>1 DEF Ranked
<1>4. ASSUME NEW n \in Statement, NEW M \in Nat, Far(n) <= M, NEW g, UpTo(M, rank, g)
      PROVE  T[n] = g[n]
  <2>1. ASSUME NEW f, UpTo(Far(n), rank, f) PROVE f[n] = g[n]
    BY <1>1, <1>3, <1>4, <2>1, UpToAgree
  <2>2. PICK f : UpTo(Far(n), rank, f)
    BY <1>1, <1>3, SomeUpTo
  <2>3. g[n] \in BOOLEAN
    BY <1>4 DEF UpTo
  <2>4. T[n] <=> g[n]
    BY <2>1, <2>2
  <2>5. T[n] \in BOOLEAN
    OBVIOUS
  <2> HIDE DEF T
  <2>6. QED
    BY <2>3, <2>4, <2>5
<1> HIDE DEF T
<1>5. ASSUME NEW n \in Statement PROVE T[n] = Meaning(n, T)
  <2>1. PICK f : UpTo(Far(n), rank, f)
    BY <1>1, <1>3, SomeUpTo
  <2>2. T[n] = f[n]
    BY <1>3, <1>4, <2>1
  <2>3. ASSUME NEW m \in Inside(n) PROVE T[m] = f[m]
    <3>1. m \in Statement /\ rank[m] < rank[n]
      BY <1>1 DEF Ranked, Inside
    <3>2. Far(m) <= Far(n)
      BY <1>3, <3>1
    <3>3. QED
      BY <1>3, <1>4, <2>1, <3>1, <3>2
  <2>4. Meaning(n, T) <=> Meaning(n, f)
    BY <2>3, MeaningLocal
  <2>5. f[n] <=> Meaning(n, f)
    BY <1>3, <2>1 DEF UpTo
  <2>6. Meaning(n, T) \in BOOLEAN /\ T[n] \in BOOLEAN
    BY <1>2, MeaningBoolean
  <2>7. QED
    BY <2>2, <2>4, <2>5, <2>6
<1>6. Solves(T)
  BY <1>2, <1>5 DEF Solves
<1>7. QED
  BY <1>6

LEMMA TruthSolves ==
  ASSUME Types, Pure, Grounded
  PROVE  Solves(Truth)
<1>1. PICK T : Solves(T)
  BY GroundedHasReading
<1>2. T = [n \in Statement |-> Meaning(n, T)]
  BY <1>1 DEF Solves
<1>3. Truth = [n \in Statement |-> Meaning(n, Truth)]
  BY <1>2 DEF Truth
<1>4. Truth \in [Statement -> BOOLEAN]
  <2>1. \A n \in Statement : Meaning(n, Truth) \in BOOLEAN
    BY MeaningBoolean
  <2> DEFINE U == Truth
  <2>2. U = [n \in Statement |-> Meaning(n, U)] /\ \A n \in Statement : Meaning(n, U) \in BOOLEAN
    BY <1>3, <2>1
  <2> HIDE DEF U
  <2>3. U \in [Statement -> BOOLEAN]
    BY <2>2
  <2>4. QED
    BY <2>3 DEF U
<1>5. \A n \in Statement : Truth[n] = Meaning(n, Truth)
  <2> DEFINE U == Truth
  <2>1. U = [n \in Statement |-> Meaning(n, U)]
    BY <1>3
  <2> HIDE DEF U
  <2>2. \A n \in Statement : U[n] = Meaning(n, U)
    BY <2>1
  <2>3. QED
    BY <2>2 DEF U
<1>6. QED
  BY <1>4, <1>5 DEF Solves

\* A feature of checks and logic steps in which no statement is inside itself passes exactly
\* when the formula it spells, as the comments of LogicStepper read it, holds.
THEOREM VerdictAlwaysTrue == Spec => [](Grounded => VerdictIsTruth)
<1>1. Init => IInv /\ EInv /\ TruthInv
  BY InitIInv, InitEInv, InitTruth
<1>2. IInv /\ EInv /\ TruthInv /\ [Next]_vars => (IInv /\ EInv /\ TruthInv)'
  BY StepIInv, StepEInv, StutterEInv, TruthStep, StutterTruth DEF EInv
<1>3. IInv /\ TruthInv => (Grounded => VerdictIsTruth)
  <2> SUFFICES ASSUME IInv, TruthInv, Grounded, outcome # "running", Pure, ~exhausted
               PROVE  (outcome = "passed") = Truth[1]
    BY DEF VerdictIsTruth
  <2>1. Types /\ ~Running
    BY DEF IInv, FramesInv
  <2>2. Solves(Truth) /\ 1 \in Statement
    BY <2>1, TruthSolves, ProgramFacts
  <2>3. outcome = "passed" <=> Truth[1]
    BY <2>1, <2>2 DEF TruthInv, TruthOf
  <2>4. Truth[1] \in BOOLEAN
    BY <2>2 DEF Solves
  <2>5. QED
    BY <2>3, <2>4
<1>4. QED
  BY <1>1, <1>2, <1>3, PTL DEF Spec

=============================================================================
