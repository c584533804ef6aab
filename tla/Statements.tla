----------------------------- MODULE Statements -----------------------------
(***************************************************************************)
(* Statements inside statements: what FlowRunner.runStatements / runSteps   *)
(* and FeatureExecutor.doFeatureStep do when the action of a step runs      *)
(* other steps.  Modelled are the logic steps (whenever, where, any of,     *)
(* not, maybe, some, every), Haibun's until and backgrounds, and the        *)
(* waypoints and ensure of ActivitiesStepper: P \/ (~P /\ [A]P).            *)
(*                                                                         *)
(* A program is a graph of statements.  Each call is a frame on a stack;    *)
(* the frame runs its parts (condition, body, proof ...) one after the      *)
(* other, a part being a list of statements run until one is not ok.  What  *)
(* a leaf does is reduced to facts about the world: a "check" reads one, an *)
(* "act" may make one true, an "undefined" leaf throws before it runs (an   *)
(* argument without a value, a statement that does not resolve).            *)
(***************************************************************************)
EXTENDS Integers, Sequences, FiniteSets

CONSTANTS
  Programs,      \* functions: statement |-> [op, parts, fact]; statement 1 is the feature
  Fact,          \* facts about the world
  Arriving,      \* facts the world may make true by itself
  MaxAttempts,   \* MAX_ENSURE_ATTEMPTS
  MaxLoops,      \* MAX_LOOPS of whenever
  MaxPolls,      \* bound: the records of later failed polls of an until are dropped
  MaxDepth       \* MAX_EXECUTE_SEQPATH

Ops == {"feature", "check", "act", "undefined", "not", "maybe", "where", "whenever", "anyOf", "every",
        "until", "ensure", "proven", "sequence", "waypoint"}

Leaf == {"check", "act", "undefined"}

\* A leaf has no parts, a condition and its body are two, as are the proof and the activity of
\* a waypoint, either of which may be empty; an any of and every have as many as there are.
Arity(op) == CASE op \in Leaf                            -> 0
               [] op \in {"where", "whenever", "waypoint"} -> 2
               [] OTHER                                  -> 1

\* An ensure has the statement that resolves to its waypoint, each alternative of an any of
\* is one.
WellFormed(p) ==
  /\ 1 \in DOMAIN p /\ p[1].op = "feature"
  /\ \A n \in DOMAIN p : /\ p[n].op \in Ops /\ p[n].fact \in Fact
                         /\ p[n].parts \in Seq(Seq(DOMAIN p))
                         /\ p[n].op \notin {"anyOf", "every"} => Len(p[n].parts) = Arity(p[n].op)
                         /\ p[n].op = "ensure" => Len(p[n].parts[1]) = 1
                         /\ p[n].op = "anyOf" => \A k \in DOMAIN p[n].parts : p[n].parts[k] # <<>>

ASSUME StatementsAssumption ==
  /\ Arriving \subseteq Fact
  /\ {MaxAttempts, MaxLoops, MaxPolls} \subseteq Nat /\ MaxDepth \in Nat \ {0}
  /\ \A p \in Programs : WellFormed(p)

VARIABLES
  program,      \* the resolved feature
  facts,        \* the facts that hold
  stack,        \* frames, innermost last
  signal,       \* what the last call returned to the top frame
  records,      \* world.runtime.stepResults
  attempts,     \* ensureAttempts
  exhausted,    \* world.runtime.exhaustionError is set
  outcome       \* of the feature

vars == <<program, facts, stack, signal, records, attempts, exhausted, outcome>>

Statement == DOMAIN program
Op(n) == program[n].op
Parts(n) == program[n].parts
FactOf(n) == program[n].fact
Top == stack[Len(stack)]
Below == SubSeq(stack, 1, Len(stack) - 1)
-----------------------------------------------------------------------------
(* Sequence paths *)

\* incSeqPath: the first path not in use, counting up from the last number
\* of path, or down from -1.
IncSeqPath(recs, path, dir) ==
  LET last  == Len(path)
      start == IF dir = 1 THEN path[last] ELSE -1
      used  == {recs[r].seq[last] : r \in {r \in DOMAIN recs :
                  Len(recs[r].seq) = last /\ SubSeq(recs[r].seq, 1, last - 1) = SubSeq(path, 1, last - 1)}}
      first == CHOOSE i \in 0..Len(recs) : /\ start + dir * i \notin used
                                           /\ \A j \in 0..i - 1 : start + dir * j \in used
  IN  [path EXCEPT ![last] = start + dir * first]

-----------------------------------------------------------------------------
(* What the parts of a statement are run for *)

\* Variant: whatever is tried is insisted on if the whole is.
ModeInherited(f) == f.mode

\* The mode of a part: conditions and proofs are tried, ensure insists, the
\* rest inherits.
PartMode(f) ==
  CASE \/ Op(f.node) \in {"not", "maybe", "anyOf"}
       \/ Op(f.node) \in {"where", "whenever", "waypoint"} /\ f.part = 1 -> "speculative"
    [] Op(f.node) \in {"ensure", "proven"} -> "authoritative"
    [] OTHER -> f.mode

\* runSteps numbers tried statements downwards; runStatements always upwards.
PartDir(f) ==
  IF PartMode(f) = "speculative" /\ Op(f.node) \in {"not", "maybe", "where", "whenever", "until", "sequence"}
  THEN -1 ELSE 1

Pass == 0
Fail == -1
Verdict(ok) == IF ok THEN Pass ELSE Fail

\* Variant: once the activity has run its proof is not looked at again.
TrustsActivity(f, ok) == Verdict(ok)

\* The activity of a waypoint ended.  Ensure verifies its proof, part 3.
AfterActivity(f, ok) == IF ok /\ f.ensured THEN 3 ELSE Verdict(ok)

\* Variant: a failed disjunct fails the disjunction.
OnlyFirstAlternative(f, ok) == Verdict(ok)

\* any of, some: the next alternative, if there is one.
AfterAlternative(f, ok) ==
  IF ok THEN Pass ELSE IF f.part < Len(Parts(f.node)) THEN f.part + 1 ELSE Fail

\* whenever, after its body: the condition again, up to MAX_LOOPS.
NextLoop(f) == IF f.loops > MaxLoops THEN Fail ELSE 1

\* Variant: polls while it succeeds.
PollsWhile(ok) == IF ok THEN 1 ELSE Pass

\* until, after a poll.
AfterPoll(ok) == IF ok THEN Pass ELSE 1

\* The part of f has ended ok or not: k is the next part, Pass or Fail.
Goes(f, ok, k) ==
  LET op == Op(f.node)
  IN  \/ op = "not"      /\ k = Verdict(~ok)
      \/ op = "maybe"    /\ k = Pass
      \/ op = "where"    /\ f.part = 1 /\ k = IF ok THEN 2 ELSE Pass
      \/ op = "where"    /\ f.part = 2 /\ k = Verdict(ok)
      \/ op = "whenever" /\ f.part = 1 /\ k = IF ok THEN 2 ELSE Pass
      \/ op = "whenever" /\ f.part = 2 /\ k = IF ok THEN NextLoop(f) ELSE Fail
      \/ op = "anyOf"    /\ k = AfterAlternative(f, ok)
      \/ op = "every"    /\ k = IF ok /\ f.part < Len(Parts(f.node)) THEN f.part + 1 ELSE Verdict(ok)
      \/ op = "until"    /\ k = AfterPoll(ok)
      \/ op \in {"ensure", "proven", "sequence", "feature"} /\ k = Verdict(ok)
      \/ op = "waypoint" /\ f.part = 1 /\ k = IF ~ok /\ Parts(f.node)[2] # <<>> THEN 2 ELSE Verdict(ok)
      \/ op = "waypoint" /\ f.part = 2 /\ k = AfterActivity(f, ok)
      \/ op = "waypoint" /\ f.part = 3 /\ k = Verdict(ok)

\* The statements of a part: a waypoint is verified by its proof; an any of or
\* every over an empty domain has none.
PartStatements(n, k) ==
  CASE Op(n) = "waypoint" /\ k = 3 -> Parts(n)[1]
    [] k \in DOMAIN Parts(n)      -> Parts(n)[k]
    [] OTHER                      -> <<>>

\* The part a statement starts with: a waypoint without proof by its activity.
FirstPart(n) == IF Op(n) = "waypoint" /\ Parts(n)[1] = <<>> THEN 2 ELSE 1

-----------------------------------------------------------------------------
Frame(n, mode, ensured, seq) ==
  [node |-> n, mode |-> mode, ensured |-> ensured, seq |-> seq,
   part |-> FirstPart(n), todo |-> PartStatements(n, FirstPart(n)), loops |-> 1,
   mark |-> Len(records)]

Init ==
  /\ program \in Programs
  /\ facts \in SUBSET Fact
  /\ records = <<>>
  /\ stack = <<Frame(1, "authoritative", FALSE, <<1>>)>>
  /\ signal = "none"
  /\ attempts = [n \in Statement |-> 0]
  /\ exhausted = FALSE
  /\ outcome = "running"

Running == stack # <<>>

\* The top frame calls the next statement of its part.
Callee == Head(Top.todo)
CalleeMode == PartMode(Top)
CalleeSeq == IncSeqPath(records, Append(Top.seq, 1), PartDir(Top))
Calling == Running /\ signal = "none" /\ Top.todo # <<>>

Record(n, mode, seq, ok) == [node |-> n, mode |-> mode, seq |-> seq, ok |-> ok]

\* if (world.runtime.exhaustionError) return
Halted == exhausted

\* seqPath.length > MAX_EXECUTE_SEQPATH, the path being one longer than Top's
TooDeep == Len(Top.seq) + 1 > MaxDepth

\* doFeatureStep returns before it runs or records anything: the run is
\* exhausted, or the path is too long, which exhausts it.
Refuse ==
  /\ Calling
  /\ Halted \/ TooDeep
  /\ exhausted' = TRUE
  /\ signal' = "fail"
  /\ UNCHANGED <<program, facts, stack, records, attempts, outcome>>

Accepted == Calling /\ ~Halted /\ ~TooDeep

\* populateActionArgs, or resolving a statement, throws.
Throw ==
  /\ Accepted /\ Op(Callee) = "undefined"
  /\ signal' = "throw"
  /\ UNCHANGED <<program, facts, stack, records, attempts, exhausted, outcome>>

RunLeaf(ok) ==
  /\ records' = Append(records, Record(Callee, CalleeMode, CalleeSeq, ok))
  /\ signal' = IF ok THEN "ok" ELSE "fail"
  /\ UNCHANGED <<program, stack, attempts, exhausted, outcome>>

Check ==
  /\ Accepted /\ Op(Callee) = "check"
  /\ RunLeaf(FactOf(Callee) \in facts)
  /\ UNCHANGED facts

\* An act may fail or not, and bring its fact about, undo it or do neither.
Act ==
  /\ Accepted /\ Op(Callee) = "act"
  /\ \E ok \in BOOLEAN : RunLeaf(ok)
  /\ facts' \in {facts, facts \union {FactOf(Callee)}, facts \ {FactOf(Callee)}}

\* ensure counts its attempts per waypoint until one succeeds.
EnsureKey(n) == Head(Parts(n)[1])

Counted(key) == [attempts EXCEPT ![key] = @ + 1]

\* Only a waypoint that has a proof can be ensured.
Ensurable(n) == Op(n) = "waypoint" /\ Parts(n)[1] # <<>>

RefuseEnsure ==
  /\ Accepted /\ Op(Callee) = "ensure"
  /\ LET key == EnsureKey(Callee)
         tooMany == attempts[key] >= MaxAttempts
     IN  /\ tooMany \/ ~Ensurable(key)
         /\ attempts' = Counted(key)
         /\ exhausted' = tooMany
  /\ records' = Append(records, Record(Callee, CalleeMode, CalleeSeq, FALSE))
  /\ signal' = "fail"
  /\ UNCHANGED <<program, facts, stack, outcome>>

Call ==
  /\ Accepted /\ Op(Callee) \notin Leaf
  /\ IF Op(Callee) = "ensure"
     THEN /\ attempts[EnsureKey(Callee)] < MaxAttempts /\ Ensurable(EnsureKey(Callee))
          /\ attempts' = Counted(EnsureKey(Callee))
     ELSE UNCHANGED attempts
  /\ stack' = Append(stack, Frame(Callee, CalleeMode, Op(Top.node) = "ensure", CalleeSeq))
  /\ UNCHANGED <<program, facts, signal, records, exhausted, outcome>>

-----------------------------------------------------------------------------
(* Return to the top frame *)

\* The frame's action returned: record it and hand its result down.
Finish(ok) ==
  /\ stack' = Below
  /\ IF Len(stack) = 1
     THEN /\ outcome' = IF ok THEN "passed" ELSE "failed"
          /\ UNCHANGED <<records, signal>>
     ELSE /\ records' = Append(records, Record(Top.node, Top.mode, Top.seq, ok))
          /\ signal' = IF ok THEN "ok" ELSE "fail"
          /\ UNCHANGED outcome
  /\ attempts' = IF ok /\ Op(Top.node) = "ensure"
                 THEN [attempts EXCEPT ![EnsureKey(Top.node)] = 0] ELSE attempts

\* Bound: an until may poll for ever.  Its polls are counted up to MaxPolls
\* and the records of a failed poll after that are dropped.
ManyPolls == Op(Top.node) = "until" /\ Top.loops >= MaxPolls
Rounds == IF ManyPolls THEN Top.loops ELSE Top.loops + 1
Kept == IF ManyPolls THEN SubSeq(records, 1, Top.mark) ELSE records

\* The part ended: go on with the next one or finish.
PartEnds(ok) ==
  \E k \in -1..Len(Top.todo) + Len(Parts(Top.node)) + 1 :
    /\ Goes(Top, ok, k)
    /\ IF k > 0
       THEN /\ records' = Kept
            /\ stack' = Append(Below, [Top EXCEPT !.part = k, !.todo = PartStatements(Top.node, k),
                                                  !.loops = IF k = 1 THEN Rounds ELSE @,
                                                  !.mark = Len(Kept)])
            /\ signal' = "none"
            /\ UNCHANGED <<attempts, outcome>>
       ELSE Finish(k = Pass)

Quiet == UNCHANGED <<program, facts, exhausted>>

\* A statement of the part was ok and more follow.
Proceed ==
  /\ Running /\ signal = "ok" /\ Len(Top.todo) > 1
  /\ stack' = Append(Below, [Top EXCEPT !.todo = Tail(@)])
  /\ signal' = "none"
  /\ Quiet /\ UNCHANGED <<records, attempts, outcome>>

EndPart ==
  /\ Running
  /\ \/ signal = "ok" /\ Len(Top.todo) = 1 /\ PartEnds(TRUE)
     \/ signal = "fail" /\ PartEnds(FALSE)
     \/ signal = "throw" /\ CalleeMode = "speculative" /\ PartEnds(FALSE)
     \/ signal = "none" /\ Top.todo = <<>> /\ PartEnds(Op(Top.node) # "anyOf")
  /\ Quiet

\* An exception in an authoritative part ends the action that ran it: that
\* step is not ok.  Out of the feature itself it ends the execution.
Caught ==
  /\ Running /\ signal = "throw" /\ CalleeMode = "authoritative"
  /\ Finish(FALSE)
  /\ Quiet

\* Something awaited happens in the world while an until polls.
Arrive ==
  /\ \E f \in DOMAIN stack : Op(stack[f].node) = "until"
  /\ \E p \in Arriving \ facts : facts' = facts \union {p}
  /\ UNCHANGED <<program, stack, signal, records, attempts, exhausted, outcome>>

Evaluate == Refuse \/ Throw \/ Check \/ Act \/ RefuseEnsure \/ Call \/ Proceed \/ EndPart \/ Caught

Next == Evaluate \/ Arrive

\* The call chain goes on while it can; what is awaited happens in the end.
Spec == Init /\ [][Next]_vars /\ WF_vars(Evaluate) /\ WF_vars(Arrive)
-----------------------------------------------------------------------------
(* Properties *)

Mode == {"speculative", "authoritative"}

\* Frames, records and counters are what the code can hold; attempts stop at
\* the one that exhausts, loops at the one refused.
TypeOK ==
  /\ facts \subseteq Fact
  /\ signal \in {"none", "ok", "fail", "throw"}
  /\ outcome \in {"running", "passed", "failed"}
  /\ exhausted \in BOOLEAN
  /\ attempts \in [Statement -> 0..MaxAttempts + 1]
  /\ \A i \in DOMAIN stack : /\ stack[i].node \in Statement /\ stack[i].mode \in Mode
                             /\ stack[i].part \in 1..3 \union DOMAIN Parts(stack[i].node)
                             /\ Len(stack[i].seq) <= MaxDepth
                             /\ Op(stack[i].node) = "whenever" => stack[i].loops <= MaxLoops + 1
  /\ \A i \in DOMAIN records : records[i].node \in Statement /\ records[i].mode \in Mode
  /\ (outcome = "running") = Running

IsUnder(seq, outer) == Len(seq) > Len(outer) /\ SubSeq(seq, 1, Len(outer)) = outer

\* A sequence path names one step, running or recorded, however the counting
\* of tried and insisted statements and the late recording of outer steps
\* interleave ("we use incSeqPath to ensure we get a unique path"), and inner
\* steps are recorded before the step that ran them.
SeqPathsNameSteps ==
  /\ \A i, j \in DOMAIN records : records[i].seq = records[j].seq => i = j
  /\ \A i \in DOMAIN records, f \in DOMAIN stack : records[i].seq # stack[f].seq
  /\ \A i, j \in DOMAIN records : IsUnder(records[i].seq, records[j].seq) => i < j

Used == {Op(n) : n \in Statement}
Pure == Used \intersect {"act", "until", "undefined", "ensure", "waypoint", "proven", "whenever"} = {}

AllTrue(list, T) == \A i \in DOMAIN list : T[list[i]]

\* The logical reading of the comments of LogicStepper: implication,
\* disjunction, negation, possibility, for all.
Meaning(n, T) ==
  CASE Op(n) = "check" -> FactOf(n) \in facts
    [] Op(n) = "not"   -> ~AllTrue(Parts(n)[1], T)
    [] Op(n) = "maybe" -> TRUE
    [] Op(n) = "where" -> AllTrue(Parts(n)[1], T) => AllTrue(Parts(n)[2], T)
    [] Op(n) = "anyOf" -> \E k \in DOMAIN Parts(n) : AllTrue(Parts(n)[k], T)
    [] OTHER           -> \A k \in DOMAIN Parts(n) : AllTrue(Parts(n)[k], T)

Truth[n \in Statement] == Meaning(n, Truth)

\* A feature made of checks and logic steps passes exactly when the formula
\* it spells holds, whatever the order and the modes its parts are run in.
VerdictIsTruth ==
  outcome # "running" /\ Pure /\ ~exhausted => (outcome = "passed") = Truth[1]

\* The proofs the two properties below can judge: those made of checks.
Checks(w) == \A i \in DOMAIN Parts(w)[1] : Op(Parts(w)[1][i]) = "check"
ProofHolds(w) == \A i \in DOMAIN Parts(w)[1] : FactOf(Parts(w)[1][i]) \in facts

\* P \/ (~P /\ [A]P): when ensure succeeds the proof of its waypoint holds,
\* although its activity may have undone what it was to do.
EnsureLeavesProofTrue ==
  signal = "ok" /\ records # <<>> =>
    LET r == records[Len(records)]
    IN  Op(r.node) = "ensure" /\ Checks(EnsureKey(r.node)) => ProofHolds(EnsureKey(r.node))

\* A waypoint whose proof holds is not acted for: when its activity starts,
\* the proof has just failed, and holds now only if what it checks has arrived
\* since (unless the run is exhausted and tries nothing).
ActivityStarts == /\ stack' # <<>> /\ stack' # stack /\ signal' = "none"
                  /\ LET f == stack'[Len(stack')]
                     IN  /\ Op(f.node) = "waypoint" /\ f.part = 2
                         /\ f.todo = Parts(f.node)[2] /\ f.todo # <<>>
                         /\ Parts(f.node)[1] # <<>> /\ Checks(f.node)
ActsOnlyIfUnproven ==
  ActivityStarts /\ ~exhausted =>
    LET proof == Parts(stack'[Len(stack')].node)[1]
    IN  \E i \in DOMAIN proof : FactOf(proof[i]) \notin facts \/ FactOf(proof[i]) \in Arriving

\* An ensure that succeeds leaves its waypoint proven, and acts only for one that
\* is not.
EnsureProves == [][EnsureLeavesProofTrue' /\ ActsOnlyIfUnproven]_vars

\* Once exhausted, nothing runs any more: only statements already running
\* are still recorded, as their callers unwind.
ExhaustionRunsNothing ==
  [][exhausted /\ Len(records') > Len(records) =>
       \E f \in DOMAIN stack : stack[f].seq = records'[Len(records')].seq]_vars

\* In a failed feature every failed record that is not speculative lies under
\* the step the feature failed at, so that it may be reported as the failure.
\* The failed polls of an until, and an ensure that was only tried, leave
\* authoritative failures of steps that passed: features without them.
BlameIsCausal ==
  outcome = "failed" /\ Used \intersect {"until", "ensure", "proven"} = {} =>
    \A i \in DOMAIN records :
      ~records[i].ok /\ records[i].mode = "authoritative" =>
        \A j \in DOMAIN records : records[j].seq[2] <= records[i].seq[2]

\* Records tell what ran: each by a path of its own, inner before outer, and in
\* a failed feature without until, ensure and waypoints none but the step that
\* failed it can be blamed.
RecordsAreSound == TypeOK /\ SeqPathsNameSteps /\ BlameIsCausal

\* Every feature comes to its end: loops, recursive waypoints and repeated
\* ensures run into their limits, what is polled for arrives, and an exhausted
\* feature only unwinds.
FeatureEnds == ExhaustionRunsNothing /\ <>(outcome # "running")
=============================================================================
