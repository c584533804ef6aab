--------------------------- MODULE ClientsProofs ---------------------------
(***************************************************************************)
(* Theorems about what shows a person the state of the system and takes his  *)
(* answers.                                                                  *)
(*                                                                          *)
(* Prompting, for any number of prompts, of prompts open at once and of      *)
(* reconnections: what answers a prompt was given to it, and an answer       *)
(* withdraws the prompt wherever it was asked.                               *)
(*                                                                          *)
(* Extension, for any settings, files, tools and number of servers: its      *)
(* panel says that a server runs only while one does, while restarts do not  *)
(* overlap there is one, and its tree shows what is found.                   *)
(*                                                                          *)
(* Monitors, for any of its steppers in any order and any number of          *)
(* features, steps, events and posts: reports, the terminal and spans tell   *)
(* the run that was, and finalizers run once, where they belong.             *)
(***************************************************************************)
EXTENDS Prompting, Extension, Monitors, WellFoundedInduction, FiniteSetTheorems, SequenceTheorems, TLAPS

(* Operators of the model.                                                  *)

\* Every place of the line is taken by the element that is as many places up.
LEMMA EveryRankTaken ==
  ASSUME NEW S \in SUBSET Nat, IsFiniteSet(S), NEW k \in 1..Cardinality(S)
  PROVE  \E i \in S : Cardinality({j \in S : j <= i}) = k
<1> DEFINE upTo(i) == {j \in S : j <= i}
           n == Cardinality(S)
           f == [i \in S |-> Cardinality(upTo(i))]
<1>1. n \in Nat /\ IsFiniteSet(1..n) /\ Cardinality(1..n) = n
  <2>1. n \in Nat
    BY FS_CardinalityType
  <2>2. QED
    BY <2>1, FS_Interval
<1>2. ASSUME NEW i \in S
      PROVE  /\ IsFiniteSet(upTo(i)) /\ Cardinality(upTo(i)) \in 1..n
  <2>1. upTo(i) \in SUBSET S /\ i \in upTo(i)
    OBVIOUS
  <2>2. IsFiniteSet(upTo(i)) /\ Cardinality(upTo(i)) <= n
    BY <2>1, FS_Subset
  <2>3. Cardinality(upTo(i)) \in Nat /\ Cardinality(upTo(i)) # 0
    BY <2>1, <2>2, FS_CardinalityType, FS_EmptySet
  <2>4. QED
    BY <1>1, <2>2, <2>3
<1>3. ASSUME NEW i \in S, NEW j \in S, i < j PROVE Cardinality(upTo(i)) # Cardinality(upTo(j))
  <2>1. upTo(i) \in SUBSET upTo(j)
    <3>1. \A x \in S : x <= i => x <= j
      BY <1>3
    <3>2. QED
      BY <3>1
  <2>2. upTo(i) # upTo(j)
    BY <1>3
  <2>3. QED
    BY <1>2, <2>1, <2>2, FS_Subset
<1>4. f \in [S -> 1..n]
  BY <1>2
<1>5. \A i, j \in S : f[i] = f[j] => i = j
  <2> SUFFICES ASSUME NEW i \in S, NEW j \in S, i # j PROVE f[i] # f[j]
    OBVIOUS
  <2>1. i < j \/ j < i
    OBVIOUS
  <2>2. QED
    BY <1>3, <2>1
<1>6. f \in Injection(S, 1..n)
  BY <1>4, <1>5 DEF Injection, IsInjective
<1>7. f \in Surjection(S, 1..n)
  BY <1>1, <1>6, FS_Injection
<1>8. PICK i \in S : f[i] = k
  BY <1>7 DEF Surjection
<1>9. QED
  BY <1>8

Entry == Subscriber \X Prompt \X (Subscriber \union {Undefined})

\* The callback of subscriber s for prompt i is due.
Due(seq, s, i) == \E k \in DOMAIN seq : seq[k][1] = s /\ seq[k][2] = i

\* No callback is due twice.
Once(seq) == \A k, l \in DOMAIN seq : seq[k][1] = seq[l][1] /\ seq[k][2] = seq[l][2] => k = l

\* What every interface reads of a typed line: one callback for each prompt.
LEMMA QueuedFacts ==
  ASSUME NEW set \in SUBSET Prompt, NEW s \in Subscriber
  PROVE  /\ Queued(set, s) \in Seq(Entry) /\ Once(Queued(set, s))
         /\ \A k \in DOMAIN Queued(set, s) : \E i \in set : Queued(set, s)[k] = <<s, i, s>>
<1> DEFINE Rank(i) == Cardinality({j \in set : j <= i})
           n == Cardinality(set)
           placed(k) == CHOOSE i \in set : Rank(i) = k
           q == Queued(set, s)
<1>1. set \in SUBSET Nat /\ IsFiniteSet(set) /\ n \in Nat
  <2>1. set \in SUBSET Nat /\ \A i \in set : i <= MaxPrompts
    BY PromptingAssumption DEF Prompt
  <2>2. IsFiniteSet(set)
    BY <2>1, PromptingAssumption, FS_BoundedSetOfNaturals
  <2>3. QED
    BY <2>1, <2>2, FS_CardinalityType
<1>2. \A k \in 1..n : placed(k) \in set /\ Rank(placed(k)) = k
  BY <1>1, EveryRankTaken
<1>3. q = [k \in 1..n |-> <<s, placed(k), s>>]
  BY DEF Queued
<1> HIDE DEF placed, q, Rank
<1>4. \A k \in 1..n : q[k] = <<s, placed(k), s>> /\ q[k] \in Entry
  BY <1>2, <1>3 DEF Entry
<1>5. q \in Seq(Entry) /\ DOMAIN q = 1..n
  BY <1>1, <1>3, <1>4
<1>6. Once(q)
  <2> SUFFICES ASSUME NEW k \in 1..n, NEW l \in 1..n, q[k][2] = q[l][2] PROVE k = l
    BY <1>5 DEF Once
  <2>1. placed(k) = placed(l)
    BY <1>4
  <2>2. QED
    BY <1>2, <2>1
<1>7. \A k \in DOMAIN q : \E i \in set : q[k] = <<s, i, s>>
  BY <1>2, <1>4, <1>5
<1>8. QED
  BY <1>5, <1>6, <1>7 DEF q

-----------------------------------------------------------------------------
(* The queue of callbacks: what leaves it and what enters it.               *)

LEMMA EntryParts ==
  ASSUME NEW e \in Entry
  PROVE  e[1] \in Subscriber /\ e[2] \in Prompt /\ e[3] \in Subscriber \union {Undefined}
  BY DEF Entry

LEMMA TailOfQueue ==
  ASSUME NEW seq \in Seq(Entry), seq # <<>>, Once(seq)
  PROVE  /\ Head(seq) \in Entry /\ Tail(seq) \in Seq(Entry) /\ Once(Tail(seq))
         /\ \E k \in DOMAIN seq : seq[k] = Head(seq)
         /\ \A k \in DOMAIN Tail(seq) : \E l \in DOMAIN seq : Tail(seq)[k] = seq[l]
         /\ \A s, i : Due(Tail(seq), s, i) => Due(seq, s, i)
         /\ ~Due(Tail(seq), Head(seq)[1], Head(seq)[2])
         /\ Due(seq, Head(seq)[1], Head(seq)[2])
<1> DEFINE t == Tail(seq)
<1>1. /\ Len(seq) \in Nat \ {0} /\ DOMAIN seq = 1..Len(seq) /\ Head(seq) = seq[1] /\ Head(seq) \in Entry
      /\ t \in Seq(Entry) /\ DOMAIN t = 1..Len(seq) - 1
      /\ \A k \in 1..Len(seq) - 1 : t[k] = seq[k + 1]
  OBVIOUS
<1> HIDE DEF t
<1>2. 1 \in DOMAIN seq
  BY <1>1
<1>3. \A k \in DOMAIN t : k + 1 \in DOMAIN seq /\ t[k] = seq[k + 1] /\ k + 1 # 1
  BY <1>1
<1>4. Once(t)
  <2> SUFFICES ASSUME NEW k \in DOMAIN t, NEW l \in DOMAIN t, t[k][1] = t[l][1], t[k][2] = t[l][2]
               PROVE  k = l
    BY DEF Once
  <2>1. k + 1 = l + 1
    BY <1>3 DEF Once
  <2>2. k \in Int /\ l \in Int
    BY <1>1
  <2>3. QED
    BY <2>1, <2>2
<1>5. \A s, i : Due(t, s, i) => Due(seq, s, i)
  BY <1>3 DEF Due
<1>6. ~Due(t, seq[1][1], seq[1][2])
  BY <1>2, <1>3 DEF Due, Once
<1>7. Due(seq, seq[1][1], seq[1][2])
  BY <1>2 DEF Due
<1>8. \A k \in DOMAIN t : \E l \in DOMAIN seq : t[k] = seq[l]
  BY <1>3
<1>9. QED
  BY <1>1, <1>2, <1>4, <1>5, <1>6, <1>7, <1>8 DEF t

LEMMA AppendToQueue ==
  ASSUME NEW seq \in Seq(Entry), NEW e \in Entry, Once(seq)
  PROVE  /\ Append(seq, e) \in Seq(Entry)
         /\ \A k \in DOMAIN Append(seq, e) :
              Append(seq, e)[k] = e \/ \E l \in DOMAIN seq : Append(seq, e)[k] = seq[l]
         /\ ~Due(seq, e[1], e[2]) => Once(Append(seq, e))
         /\ \A s, i : Due(Append(seq, e), s, i) => Due(seq, s, i) \/ (s = e[1] /\ i = e[2])
<1> DEFINE new == Append(seq, e)
<1>1. /\ Len(seq) \in Nat /\ DOMAIN seq = 1..Len(seq)
      /\ new \in Seq(Entry) /\ DOMAIN new = 1..Len(seq) + 1
      /\ \A k \in 1..Len(seq) : new[k] = seq[k]
      /\ new[Len(seq) + 1] = e
  BY AppendProperties
<1> HIDE DEF new
<1>2. \A k \in DOMAIN new : (k \in DOMAIN seq /\ new[k] = seq[k]) \/ (k = Len(seq) + 1 /\ new[k] = e)
  BY <1>1
<1>3. ~Due(seq, e[1], e[2]) => Once(new)
  BY <1>2 DEF Due, Once
<1>4. \A s, i : Due(new, s, i) => Due(seq, s, i) \/ (s = e[1] /\ i = e[2])
  BY <1>2 DEF Due
<1>5. QED
  BY <1>1, <1>2, <1>3, <1>4 DEF new

-----------------------------------------------------------------------------
(* The inductive invariant.                                                 *)

CallType == [state : {"new", "waiting", "returned"}, value : Answer \union {Undefined}, responded : Nat]

Types ==
  /\ terminal \in BOOLEAN /\ subscribers \subseteq Subscriber /\ outstanding = {}
  /\ call \in [Prompt -> CallType] /\ held \in [Subscriber -> SUBSET Prompt]
  /\ current \in [{"readline", "tui"} -> Prompt \union {None}]
  /\ settled \in Seq(Entry) /\ given \in [Prompt -> SUBSET Answer]
  /\ web \in Prompt \union {None} /\ posted \subseteq Prompt
  /\ history \in Seq(Prompt) /\ stream \in Seq(Prompt)

\* A place holds prompts that were asked while it subscribed; the TUI holds
\* the one it shows.
HeldInv ==
  /\ \A s \in Subscriber : s \notin subscribers => held[s] = {}
  /\ ~terminal => held["readline"] = {}
  /\ held["tui"] \subseteq {current["tui"]}
  /\ \A i \in Prompt : call[i].state = "new" => call[i] = NewCall /\ \A s \in Subscriber : i \notin held[s]

\* A due callback is of a subscriber that no longer holds the prompt; its
\* answer was given to the prompt, and only readline and a manager have none.
EntryOK(e, subs, hold, made, answers) ==
  /\ e[1] \in subs /\ e[2] \notin hold[e[1]] /\ made[e[2]].state # "new"
  /\ e[3] = Undefined => e[1] \in {"readline", "manager"}
  /\ e[3] # Undefined => e[3] \in answers[e[2]]

SettledInv ==
  /\ Once(settled)
  /\ \A k \in DOMAIN settled : EntryOK(settled[k], subscribers, held, call, given)

\* The subscribers that may have answered nothing and are done with prompt i:
\* no more of them are counted, so that responded keeps its bound.
Spent(subs, hold, seq, i) ==
  {s \in subs \cap {"readline", "manager"} : i \notin hold[s] /\ ~Due(seq, s, i)}

CountInv ==
  \A i \in Prompt : call[i].state # "new" =>
    call[i].responded <= 1 + Cardinality(Spent(subscribers, held, settled, i))

AnswerInv ==
  /\ \A i \in Prompt : call[i].value # Undefined =>
       /\ call[i].value \in given[i]
       /\ \A s \in Subscriber : i \in held[s] => s = "readline" /\ current[s] # i
  /\ \A p \in posted : "sse" \in given[p]

IInv == Types /\ HeldInv /\ SettledInv /\ CountInv /\ AnswerInv

LEMMA InitIInv == Init => IInv
<1> SUFFICES ASSUME Init PROVE IInv
  OBVIOUS
<1>1. Types
  BY PromptingAssumption DEF Init, Types, CallType, NewCall, Subscriber, Answer
<1>2. HeldInv
  BY DEF Init, HeldInv, NewCall, Subscriber
<1>3. SettledInv
  BY DEF Init, SettledInv, Once
<1>4. CountInv
  BY DEF Init, CountInv, NewCall
<1>5. AnswerInv
  BY DEF Init, AnswerInv, NewCall
<1>6. QED
  BY <1>1, <1>2, <1>3, <1>4, <1>5 DEF IInv

-----------------------------------------------------------------------------
(* Types.                                                                   *)

\* What the callbacks do to the call they are of.
LEMMA ReturnFacts ==
  ASSUME Types, NEW i \in Prompt, NEW v \in Answer, Return(i, v)
  PROVE  /\ call' \in [Prompt -> CallType]
         /\ \A j \in Prompt : j # i => call'[j] = call[j]
         /\ call'[i].state = "returned" /\ call'[i].responded = call[i].responded
         /\ call'[i].value = IF call[i].state = "waiting" THEN v ELSE call[i].value
<1>1. call[i] \in CallType /\ call \in [Prompt -> CallType]
  BY DEF Types
<1>2. call'[i] = [state |-> "returned", value |-> IF call[i].state = "waiting" THEN v ELSE call[i].value,
                  responded |-> call[i].responded]
  BY <1>1 DEF Return, CallType
<1>3. \A j \in Prompt : j # i => call'[j] = call[j]
  BY <1>1 DEF Return
<1>4. call'[i] \in CallType
  BY <1>1, <1>2 DEF CallType
<1>5. call' \in [Prompt -> CallType]
  BY <1>1, <1>3, <1>4 DEF Return
<1>6. QED
  BY <1>2, <1>3, <1>5

LEMMA NotAnsweredFacts ==
  ASSUME Types, NotAnswered, Head(settled)[2] \in Prompt
  PROVE  /\ call' \in [Prompt -> CallType]
         /\ \A j \in Prompt : j # Head(settled)[2] => call'[j] = call[j]
         /\ LET i == Head(settled)[2]
            IN  /\ call'[i].state \in {call[i].state, "returned"} /\ call'[i].value = call[i].value
                /\ call'[i].responded = call[i].responded + 1
<1> DEFINE i == Head(settled)[2]
<1>1. i \in Prompt /\ call[i] \in CallType /\ call \in [Prompt -> CallType]
  BY DEF Types
<1>2. \/ call' = [call EXCEPT ![i].state = "returned", ![i].responded = @ + 1]
      \/ call' = [call EXCEPT ![i].responded = @ + 1]
  BY DEF NotAnswered
<1> HIDE DEF i
<1>3. /\ call'[i].state \in {call[i].state, "returned"} /\ call'[i].value = call[i].value
      /\ call'[i].responded = call[i].responded + 1 /\ call'[i] \in CallType
  <2>1. PICK st \in {call[i].state, "returned"} :
          call'[i] = [state |-> st, value |-> call[i].value, responded |-> call[i].responded + 1]
    BY <1>1, <1>2 DEF CallType
  <2>2. /\ call[i].state \in {"new", "waiting", "returned"} /\ call[i].value \in Answer \union {Undefined}
        /\ call[i].responded + 1 \in Nat
    BY <1>1 DEF CallType
  <2>3. call'[i] \in CallType
    BY <2>1, <2>2 DEF CallType
  <2>4. QED
    BY <2>1, <2>3
<1>4. \A j \in Prompt : j # i => call'[j] = call[j]
  BY <1>1, <1>2
<1>5. call' \in [Prompt -> CallType]
  BY <1>1, <1>2, <1>3, <1>4
<1>6. QED
  BY <1>3, <1>4, <1>5 DEF i

\* What asking does: one more call, which every subscriber may come to hold.
LEMMA AskFacts ==
  ASSUME Types, HeldInv, NEW i \in Prompt, Ask(i)
  PROVE  /\ call[i].state = "new" /\ call' \in [Prompt -> CallType]
         /\ \A j \in Prompt : j # i => call'[j] = call[j]
         /\ call'[i].state # "new" /\ call'[i].value = Undefined /\ call'[i].responded \in {0, 1}
         /\ held' \in [Subscriber -> SUBSET Prompt]
         /\ \A s \in Subscriber : /\ held'[s] \subseteq held[s] \union {i}
                                  /\ s \notin subscribers => held'[s] = held[s]
         /\ ~terminal => held'["readline"] = held["readline"]
         /\ current' \in [{"readline", "tui"} -> Prompt \union {None}]
         /\ \A s \in {"readline", "tui"} : current'[s] \in {current[s], i}
         /\ \/ held'["tui"] = held["tui"] /\ current'["tui"] = current["tui"]
            \/ held'["tui"] = {i} /\ current'["tui"] = i
         /\ \/ settled' = settled
            \/ /\ ~terminal /\ "readline" \in subscribers
               /\ settled' = Append(settled, <<"readline", i, Undefined>>)
         /\ history' \in Seq(Prompt) /\ stream' \in Seq(Prompt)
<1>1. /\ call[i] = NewCall /\ call[i].state = "new" /\ call \in [Prompt -> CallType]
      /\ held \in [Subscriber -> SUBSET Prompt] /\ current \in [{"readline", "tui"} -> Prompt \union {None}]
      /\ history \in Seq(Prompt) /\ stream \in Seq(Prompt)
  BY DEF Types, HeldInv, Ask
<1>2. CASE i \in outstanding \/ subscribers = {}
  <2>1. /\ call' = [call EXCEPT ![i].state = "returned"]
        /\ held' = held /\ current' = current /\ settled' = settled /\ history' = history /\ stream' = stream
    BY <1>2 DEF Ask
  <2>2. call'[i] = [state |-> "returned", value |-> Undefined, responded |-> 0]
    BY <1>1, <2>1 DEF NewCall
  <2>3. call'[i] \in CallType
    BY <2>2 DEF CallType
  <2>4. call' \in [Prompt -> CallType] /\ \A j \in Prompt : j # i => call'[j] = call[j]
    BY <1>1, <2>1, <2>3
  <2>5. QED
    BY <1>1, <2>1, <2>2, <2>4
<1>3. CASE ~(i \in outstanding \/ subscribers = {})
  <2>1. /\ call' = [call EXCEPT ![i] = [state |-> "waiting", value |-> Undefined, responded |-> 1]]
        /\ held' = [s \in Subscriber |-> IF s \in subscribers THEN NowHeld(s, i) ELSE held[s]]
        /\ current' = [s \in {"readline", "tui"} |->
                         IF s \in subscribers /\ (s = "tui" \/ terminal) THEN i ELSE current[s]]
        /\ settled' = IF "readline" \in subscribers /\ ~terminal
                      THEN Append(settled, <<"readline", i, Undefined>>) ELSE settled
        /\ IF "sse" \in subscribers
           THEN history' = Append(history, i) /\ stream' = Append(stream, i)
           ELSE history' = history /\ stream' = stream
    BY <1>3 DEF Ask
  <2>2. [state |-> "waiting", value |-> Undefined, responded |-> 1] \in CallType
    BY DEF CallType
  <2>3. /\ call' \in [Prompt -> CallType] /\ \A j \in Prompt : j # i => call'[j] = call[j]
        /\ call'[i] = [state |-> "waiting", value |-> Undefined, responded |-> 1]
    BY <1>1, <2>1, <2>2
  <2>4. \A s \in Subscriber : NowHeld(s, i) \in SUBSET Prompt /\ NowHeld(s, i) \subseteq held[s] \union {i}
    BY <1>1 DEF NowHeld
  <2>5. /\ held' \in [Subscriber -> SUBSET Prompt]
        /\ \A s \in Subscriber : /\ held'[s] \subseteq held[s] \union {i}
                                 /\ s \notin subscribers => held'[s] = held[s]
    BY <1>1, <2>1, <2>4
  <2>6. ~terminal => held'["readline"] = held["readline"]
    BY <2>1 DEF NowHeld, Subscriber
  <2>7. \/ held'["tui"] = held["tui"] /\ current'["tui"] = current["tui"]
        \/ held'["tui"] = {i} /\ current'["tui"] = i
    BY <2>1 DEF NowHeld, Subscriber
  <2>8. /\ current' \in [{"readline", "tui"} -> Prompt \union {None}]
        /\ \A s \in {"readline", "tui"} : current'[s] \in {current[s], i}
    BY <1>1, <2>1
  <2>9. history' \in Seq(Prompt) /\ stream' \in Seq(Prompt)
    <3>1. Append(history, i) \in Seq(Prompt) /\ Append(stream, i) \in Seq(Prompt)
      BY <1>1, AppendProperties
    <3>2. QED
      BY <1>1, <2>1, <3>1
  <2>10. QED
    BY <1>1, <2>1, <2>3, <2>5, <2>6, <2>7, <2>8, <2>9
<1>4. QED
  BY <1>2, <1>3

\* The head of the queue, when there is one.
LEMMA HeadOfQueue ==
  ASSUME IInv, settled # <<>>
  PROVE  /\ Head(settled) \in Entry /\ Head(settled)[1] \in Subscriber /\ Head(settled)[2] \in Prompt
         /\ EntryOK(Head(settled), subscribers, held, call, given)
<1>1. settled \in Seq(Entry) /\ Once(settled)
  BY DEF IInv, Types, SettledInv
<1>2. /\ Head(settled) \in Entry
      /\ \E k \in DOMAIN settled : settled[k] = Head(settled)
  BY <1>1, TailOfQueue
<1>3. EntryOK(Head(settled), subscribers, held, call, given)
  BY <1>2 DEF IInv, SettledInv
<1>4. QED
  BY <1>2, <1>3, EntryParts

\* What an answer does: the call has it, every place that can withdraws the
\* prompt, and a manager's cancelled promise answers nothing.
LEMMA AnsweredFacts ==
  ASSUME IInv, Answered
  PROVE  LET e == Head(settled)
             i == e[2]
         IN  /\ settled # <<>> /\ e \in Entry /\ i \in Prompt /\ EntryOK(e, subscribers, held, call, given)
             /\ e[3] # Undefined /\ e[3] \in Answer /\ Return(i, e[3])
             /\ held' \in [Subscriber -> SUBSET Prompt]
             /\ \A s \in Subscriber : held'[s] \subseteq held[s]
             /\ \A s \in subscribers : i \in held'[s] => s \in {"readline", "tui"} /\ current[s] # i
             /\ current' \in [{"readline", "tui"} -> Prompt \union {None}]
             /\ current'["readline"] = current["readline"]
             /\ \/ current'["tui"] = current["tui"]
                \/ held'["tui"] = held["tui"] \ {i} /\ current["tui"] = i
             /\ \/ settled' = Tail(settled)
                \/ /\ settled' = Append(Tail(settled), <<"manager", i, Undefined>>)
                   /\ "manager" \in subscribers /\ i \in held["manager"] /\ i \notin held'["manager"]
<1> DEFINE e == Head(settled)
           i == e[2]
<1>1. /\ settled # <<>> /\ e \in Entry /\ i \in Prompt /\ EntryOK(e, subscribers, held, call, given)
      /\ e[3] # Undefined /\ Return(i, e[3])
  BY HeadOfQueue DEF Answered
<1>2. e[3] \in Answer
  BY <1>1, EntryParts DEF Answer
<1>3. /\ held' = [s \in Subscriber |-> IF s \in Withdrawn(i) THEN held[s] \ {i} ELSE held[s]]
      /\ current' = IF "tui" \in Withdrawn(i) THEN [current EXCEPT !["tui"] = None] ELSE current
      /\ settled' = IF "manager" \in Withdrawn(i)
                    THEN Append(Tail(settled), <<"manager", i, Undefined>>) ELSE Tail(settled)
  BY DEF Answered
<1>4. /\ held \in [Subscriber -> SUBSET Prompt] /\ current \in [{"readline", "tui"} -> Prompt \union {None}]
      /\ subscribers \subseteq Subscriber
  BY DEF IInv, Types
<1> HIDE DEF i, e
<1>5. held' \in [Subscriber -> SUBSET Prompt] /\ \A s \in Subscriber : held'[s] \subseteq held[s]
  BY <1>3, <1>4
<1>6. \A s \in subscribers : i \in held'[s] => s \in {"readline", "tui"} /\ current[s] # i
  <2> SUFFICES ASSUME NEW s \in subscribers, i \in held'[s] PROVE s \in {"readline", "tui"} /\ current[s] # i
    OBVIOUS
  <2>1. s \notin Withdrawn(i) /\ i \in held[s]
    BY <1>3, <1>4
  <2>2. QED
    BY <2>1 DEF Withdrawn
<1>7. /\ current' \in [{"readline", "tui"} -> Prompt \union {None}]
      /\ current'["readline"] = current["readline"]
  BY <1>3, <1>4
<1>8. \/ current'["tui"] = current["tui"]
      \/ held'["tui"] = held["tui"] \ {i} /\ current["tui"] = i
  BY <1>3, <1>4 DEF Withdrawn, Subscriber
<1>9. \/ settled' = Tail(settled)
      \/ /\ settled' = Append(Tail(settled), <<"manager", i, Undefined>>)
         /\ "manager" \in subscribers /\ i \in held["manager"] /\ i \notin held'["manager"]
  BY <1>3, <1>4 DEF Withdrawn, Subscriber
<1>10. QED
  BY <1>1, <1>2, <1>5, <1>6, <1>7, <1>8, <1>9 DEF e, i

LEMMA TypesStep == IInv /\ [Next]_vars => Types'
<1> SUFFICES ASSUME IInv, [Next]_vars PROVE Types'
  OBVIOUS
<1>0. Types /\ HeldInv
  BY DEF IInv
<1>1. CASE \E s \in Subscriber : Subscribe(s) \/ Unsubscribe(s)
  BY <1>0, <1>1 DEF Types, Subscribe, Unsubscribe, browser
<1>2. ASSUME NEW i \in Prompt, Ask(i) PROVE Types'
  <2>1. /\ call' \in [Prompt -> CallType] /\ held' \in [Subscriber -> SUBSET Prompt]
        /\ current' \in [{"readline", "tui"} -> Prompt \union {None}]
        /\ settled' = settled \/ settled' = Append(settled, <<"readline", i, Undefined>>)
        /\ history' \in Seq(Prompt) /\ stream' \in Seq(Prompt)
    BY <1>0, <1>2, AskFacts
  <2>2. settled' \in Seq(Entry)
    <3>1. <<"readline", i, Undefined>> \in Entry /\ settled \in Seq(Entry)
      BY <1>0 DEF Entry, Subscriber, Types
    <3>2. Append(settled, <<"readline", i, Undefined>>) \in Seq(Entry)
      BY <3>1, AppendProperties
    <3>3. QED
      BY <2>1, <3>1, <3>2
  <2>3. QED
    BY <1>0, <1>2, <2>1, <2>2 DEF Types, Ask
<1>3. CASE \E i \in Prompt : ResolveById(i)
  <2>1. PICK i \in Prompt : ResolveById(i)
    BY <1>3
  <2>2. /\ call' = call /\ outstanding' = {} /\ given' = [given EXCEPT ![i] = @ \union {"api"}]
        /\ UNCHANGED <<terminal, subscribers, held, current, settled, browser>>
    BY <1>0, <2>1 DEF ResolveById, Types
  <2>3. given' \in [Prompt -> SUBSET Answer]
    BY <1>0, <2>2 DEF Types, Answer
  <2>4. QED
    BY <1>0, <2>2, <2>3 DEF Types, browser
<1>4. CASE Answered
  <2> DEFINE i == Head(settled)[2]
  <2>1. /\ i \in Prompt /\ call' \in [Prompt -> CallType] /\ held' \in [Subscriber -> SUBSET Prompt]
        /\ current' \in [{"readline", "tui"} -> Prompt \union {None}]
        /\ settled # <<>>
        /\ settled' = Tail(settled) \/ settled' = Append(Tail(settled), <<"manager", i, Undefined>>)
    BY <1>0, <1>4, AnsweredFacts, ReturnFacts
  <2> HIDE DEF i
  <2>2. settled' \in Seq(Entry)
    <3>1. <<"manager", i, Undefined>> \in Entry
      BY <2>1 DEF Entry, Subscriber
    <3>2. Tail(settled) \in Seq(Entry)
      BY <1>0, <2>1, TailOfQueue DEF IInv, SettledInv, Types
    <3>3. Append(Tail(settled), <<"manager", i, Undefined>>) \in Seq(Entry)
      BY <3>1, <3>2, AppendProperties
    <3>4. QED
      BY <2>1, <3>2, <3>3
  <2>3. QED
    BY <1>0, <1>4, <2>1, <2>2 DEF Types, Answered, browser
<1>5. CASE NotAnswered
  <2>1. settled # <<>> /\ Head(settled)[2] \in Prompt
    BY <1>5, HeadOfQueue DEF NotAnswered
  <2>2. call' \in [Prompt -> CallType]
    BY <1>0, <1>5, <2>1, NotAnsweredFacts
  <2>3. settled' \in Seq(Entry)
    BY <1>5, <2>1, TailOfQueue DEF IInv, SettledInv, Types, NotAnswered
  <2>4. QED
    BY <1>0, <1>5, <2>2, <2>3 DEF Types, NotAnswered, browser
<1>6. CASE TypeLine
  <2>1. settled' \in Seq(Entry)
    BY <1>0, <1>6, QueuedFacts DEF Types, TypeLine, Subscriber
  <2>2. given' \in [Prompt -> SUBSET Answer] /\ held' \in [Subscriber -> SUBSET Prompt]
    BY <1>0, <1>6 DEF Types, TypeLine, Answer, Subscriber
  <2>3. QED
    BY <1>0, <1>6, <2>1, <2>2 DEF Types, TypeLine, browser
<1>7. CASE Submit
  BY <1>0, <1>7 DEF Types, Submit, Give, Answer, Subscriber
<1>8. ASSUME NEW i \in Prompt, AnswerTui(i) PROVE Types'
  <2>1. settled' \in Seq(Entry)
    <3>1. <<"tui", i, "tui">> \in Entry
      BY DEF Entry, Subscriber
    <3>2. QED
      BY <1>0, <1>8, <3>1, AppendProperties DEF AnswerTui, Types
  <2>2. given' \in [Prompt -> SUBSET Answer] /\ held' \in [Subscriber -> SUBSET Prompt]
        /\ current' \in [{"readline", "tui"} -> Prompt \union {None}]
    BY <1>0, <1>8 DEF Types, AnswerTui, Give, Answer, Subscriber
  <2>3. QED
    BY <1>0, <1>8, <2>1, <2>2 DEF Types, AnswerTui, browser
<1>9. ASSUME NEW i \in Prompt, AnswerManager(i) PROVE Types'
  <2>1. settled' \in Seq(Entry)
    <3>1. <<"manager", i, "manager">> \in Entry
      BY DEF Entry, Subscriber
    <3>2. QED
      BY <1>0, <1>9, <3>1, AppendProperties DEF AnswerManager, Types
  <2>2. given' \in [Prompt -> SUBSET Answer] /\ held' \in [Subscriber -> SUBSET Prompt]
    BY <1>0, <1>9 DEF Types, AnswerManager, Give, Answer, Subscriber
  <2>3. QED
    BY <1>0, <1>9, <2>1, <2>2 DEF Types, AnswerManager, browser
<1>10. CASE Receive
  BY <1>0, <1>10 DEF Types, Receive, Shown
<1>11. CASE Reconnect
  BY <1>0, <1>11 DEF Types, Reconnect
<1>12. ASSUME NEW p \in Prompt, Deliver(p) PROVE Types'
  <2>1. settled' \in Seq(Entry)
    <3>1. <<"sse", p, "sse">> \in Entry
      BY DEF Entry, Subscriber
    <3>2. Append(settled, <<"sse", p, "sse">>) \in Seq(Entry)
      BY <1>0, <3>1, AppendProperties DEF Types
    <3>3. QED
      BY <1>0, <1>12, <3>2 DEF Deliver, Types, ResponseTo
  <2>2. held' \in [Subscriber -> SUBSET Prompt]
    BY <1>0, <1>12 DEF Types, Deliver, ResponseTo, Subscriber
  <2>3. QED
    BY <1>0, <1>12, <2>1, <2>2 DEF Types, Deliver
<1>13. CASE UNCHANGED vars
  BY <1>0, <1>13 DEF vars, Types
<1>14. QED
  BY <1>1, <1>2, <1>3, <1>4, <1>5, <1>6, <1>7, <1>8, <1>9, <1>10, <1>11, <1>12, <1>13
     DEF Next, Callback, Human

-----------------------------------------------------------------------------
(* Who holds what.                                                          *)

\* Steps after which no place holds more, and no call is new that was not.
LEMMA HeldShrinks ==
  ASSUME HeldInv, terminal' = terminal, subscribers' = subscribers,
         \A s \in Subscriber : held'[s] \subseteq held[s],
         held'["tui"] \subseteq {current'["tui"]},
         \A i \in Prompt : call'[i].state = "new" => call'[i] = call[i]
  PROVE  HeldInv'
  BY DEF HeldInv, Subscriber

LEMMA HeldStep == IInv /\ [Next]_vars => HeldInv'
<1> SUFFICES ASSUME IInv, [Next]_vars PROVE HeldInv'
  OBVIOUS
<1>0. /\ Types /\ HeldInv /\ held \in [Subscriber -> SUBSET Prompt] /\ call \in [Prompt -> CallType]
      /\ current \in [{"readline", "tui"} -> Prompt \union {None}]
  BY DEF IInv, Types
<1>1. CASE \E s \in Subscriber : Subscribe(s) \/ Unsubscribe(s)
  <2>1. /\ \A i \in Prompt : call[i].state = "new"
        /\ held' = held /\ call' = call /\ terminal' = terminal /\ current' = current
    BY <1>1 DEF Subscribe, Unsubscribe
  <2>2. \A s \in Subscriber : held[s] = {}
    BY <1>0, <2>1 DEF HeldInv
  <2>3. QED
    BY <1>0, <2>1, <2>2 DEF HeldInv, Subscriber
<1>2. ASSUME NEW i \in Prompt, Ask(i) PROVE HeldInv'
  <2>1. /\ \A j \in Prompt : j # i => call'[j] = call[j]
        /\ call'[i].state # "new"
        /\ \A s \in Subscriber : /\ held'[s] \subseteq held[s] \union {i}
                                 /\ s \notin subscribers => held'[s] = held[s]
        /\ ~terminal => held'["readline"] = held["readline"]
        /\ \/ held'["tui"] = held["tui"] /\ current'["tui"] = current["tui"]
           \/ held'["tui"] = {i} /\ current'["tui"] = i
        /\ terminal' = terminal /\ subscribers' = subscribers
    BY <1>0, <1>2, AskFacts DEF Ask
  <2>2. \A j \in Prompt : call'[j].state = "new" => call'[j] = NewCall /\ \A s \in Subscriber : j \notin held'[s]
    BY <1>0, <2>1 DEF HeldInv
  <2>3. held'["tui"] \subseteq {current'["tui"]}
    BY <1>0, <2>1 DEF HeldInv
  <2>4. (~terminal => held'["readline"] = {}) /\ \A s \in Subscriber : s \notin subscribers => held'[s] = {}
    BY <1>0, <2>1 DEF HeldInv
  <2>5. QED
    BY <2>1, <2>2, <2>3, <2>4 DEF HeldInv
<1>3. CASE Answered
  <2> DEFINE i == Head(settled)[2]
  <2>1. /\ i \in Prompt /\ Return(i, Head(settled)[3]) /\ Head(settled)[3] \in Answer
        /\ \A s \in Subscriber : held'[s] \subseteq held[s]
        /\ \/ current'["tui"] = current["tui"]
           \/ held'["tui"] = held["tui"] \ {i} /\ current["tui"] = i
        /\ terminal' = terminal /\ subscribers' = subscribers
    BY <1>3, AnsweredFacts DEF Answered
  <2> HIDE DEF i
  <2>2. /\ \A j \in Prompt : j # i => call'[j] = call[j]
        /\ call'[i].state = "returned"
    BY <1>0, <2>1, ReturnFacts
  <2>3. held'["tui"] \subseteq {current'["tui"]}
    BY <1>0, <2>1 DEF HeldInv, Subscriber
  <2>4. QED
    BY <1>0, <2>1, <2>2, <2>3, HeldShrinks
<1>4. CASE NotAnswered
  <2>1. /\ Head(settled)[2] \in Prompt /\ call[Head(settled)[2]].state # "new"
        /\ held' = held /\ terminal' = terminal /\ subscribers' = subscribers /\ current' = current
    BY <1>4, HeadOfQueue DEF NotAnswered, EntryOK
  <2>2. \A j \in Prompt : call'[j].state = "new" => call'[j] = call[j]
    BY <1>0, <1>4, <2>1, NotAnsweredFacts
  <2>3. QED
    BY <1>0, <2>1, <2>2, HeldShrinks DEF HeldInv
<1>5. CASE TypeLine \/ \E i \in Prompt : AnswerTui(i) \/ AnswerManager(i) \/ Deliver(i) \/ ResolveById(i)
  <2> DEFINE Shrinks == /\ terminal' = terminal /\ subscribers' = subscribers /\ call' = call
                        /\ \A s \in Subscriber : held'[s] \subseteq held[s]
                        /\ \/ held'["tui"] = {}
                           \/ held'["tui"] = held["tui"] /\ current'["tui"] = current["tui"]
  <2>1. Shrinks
    <3>1. CASE TypeLine
      BY <1>0, <3>1 DEF TypeLine, Subscriber
    <3>2. ASSUME NEW i \in Prompt, AnswerTui(i) PROVE Shrinks
      <4>1. held["tui"] \subseteq {i} /\ held' = [held EXCEPT !["tui"] = @ \ {i}]
        BY <1>0, <3>2 DEF AnswerTui, HeldInv
      <4>2. QED
        BY <1>0, <3>2, <4>1 DEF AnswerTui, Subscriber
    <3>3. ASSUME NEW i \in Prompt, AnswerManager(i) PROVE Shrinks
      BY <1>0, <3>3 DEF AnswerManager, Subscriber
    <3>4. ASSUME NEW i \in Prompt, Deliver(i) PROVE Shrinks
      BY <1>0, <3>4 DEF Deliver, Subscriber, ResponseTo
    <3>5. ASSUME NEW i \in Prompt, ResolveById(i) PROVE Shrinks
      BY <1>0, <3>5 DEF ResolveById, Types
    <3>6. QED
      BY <1>5, <3>1, <3>2, <3>3, <3>4, <3>5
  <2>2. held'["tui"] \subseteq {current'["tui"]}
    BY <1>0, <2>1 DEF HeldInv
  <2>3. QED
    BY <1>0, <2>1, <2>2, HeldShrinks
<1>6. CASE Submit \/ Receive \/ Reconnect \/ UNCHANGED vars
  BY <1>0, <1>6 DEF Submit, Receive, Reconnect, vars, HeldInv
<1>7. QED
  BY <1>1, <1>2, <1>3, <1>4, <1>5, <1>6 DEF Next, Callback, Human

-----------------------------------------------------------------------------
(* The callbacks that are due.                                              *)

\* A callback that is due stays as good when subscribers stay, places hold
\* nothing more of its prompt, the call was asked and answers are only added.
LEMMA EntryStays ==
  ASSUME NEW e, NEW subs, NEW hold, NEW hold2, NEW made, NEW calls2, NEW answers, NEW answers2,
         EntryOK(e, subs, hold, made, answers),
         hold2[e[1]] \subseteq hold[e[1]] \/ e[2] \notin hold2[e[1]],
         calls2[e[2]].state # "new", answers[e[2]] \subseteq answers2[e[2]]
  PROVE  EntryOK(e, subs, hold2, calls2, answers2)
  BY DEF EntryOK

\* Steps that take away from the queue, or leave it.
LEMMA QueueShrinks ==
  ASSUME IInv, subscribers' = subscribers, Once(settled'),
         \A k \in DOMAIN settled' : \E l \in DOMAIN settled : settled'[k] = settled[l],
         \A s \in Subscriber : held'[s] \subseteq held[s],
         \A i \in Prompt : call[i].state # "new" => call'[i].state # "new",
         \A i \in Prompt : given[i] \subseteq given'[i]
  PROVE  SettledInv'
<1>1. ASSUME NEW k \in DOMAIN settled' PROVE EntryOK(settled'[k], subscribers', held', call', given')
  <2>1. PICK l \in DOMAIN settled : settled'[k] = settled[l]
    OBVIOUS
  <2>2. EntryOK(settled[l], subscribers, held, call, given)
    BY DEF IInv, SettledInv
  <2>3. settled[l] \in Entry
    BY DEF IInv, Types
  <2>4. QED
    BY <2>1, <2>2, <2>3, EntryParts, EntryStays DEF EntryOK
<1>2. QED
  BY <1>1 DEF SettledInv

\* Steps that add one callback.
LEMMA QueueGrows ==
  ASSUME IInv, NEW base \in Seq(Entry), NEW e \in Entry,
         subscribers' = subscribers, Once(base), settled' = Append(base, e), ~Due(base, e[1], e[2]),
         \A k \in DOMAIN base : \E l \in DOMAIN settled : base[k] = settled[l],
         \A k \in DOMAIN base : held'[base[k][1]] \subseteq held[base[k][1]] \/ base[k][2] \notin held'[base[k][1]],
         \A i \in Prompt : call[i].state # "new" => call'[i].state # "new",
         \A i \in Prompt : given[i] \subseteq given'[i],
         EntryOK(e, subscribers', held', call', given')
  PROVE  SettledInv'
<1>1. ASSUME NEW k \in DOMAIN base PROVE EntryOK(base[k], subscribers', held', call', given')
  <2>1. PICK l \in DOMAIN settled : base[k] = settled[l]
    OBVIOUS
  <2>2. EntryOK(settled[l], subscribers, held, call, given)
    BY DEF IInv, SettledInv
  <2>3. settled[l] \in Entry
    BY DEF IInv, Types
  <2>4. QED
    BY <2>1, <2>2, <2>3, EntryParts, EntryStays DEF EntryOK
<1>2. /\ Once(settled')
      /\ \A k \in DOMAIN settled' : settled'[k] = e \/ \E l \in DOMAIN base : settled'[k] = base[l]
  BY AppendToQueue
<1>3. QED
  BY <1>1, <1>2 DEF SettledInv

\* A prompt that is held has no callback due at the same place.
LEMMA HeldIsNotDue ==
  ASSUME IInv, NEW s \in Subscriber, NEW i \in held[s]
  PROVE  ~Due(settled, s, i)
  BY DEF IInv, SettledInv, EntryOK, Due

LEMMA SettledStep == IInv /\ [Next]_vars => SettledInv'
<1> SUFFICES ASSUME IInv, [Next]_vars PROVE SettledInv'
  OBVIOUS
<1>0. /\ Types /\ HeldInv /\ SettledInv /\ held \in [Subscriber -> SUBSET Prompt] /\ call \in [Prompt -> CallType]
      /\ current \in [{"readline", "tui"} -> Prompt \union {None}] /\ given \in [Prompt -> SUBSET Answer]
      /\ settled \in Seq(Entry) /\ Once(settled) /\ subscribers \subseteq Subscriber
  BY DEF IInv, Types, SettledInv
<1>00. \A k \in DOMAIN settled : settled[k] \in Entry /\ EntryOK(settled[k], subscribers, held, call, given)
  BY <1>0 DEF SettledInv
<1>1. CASE \E s \in Subscriber : Subscribe(s) \/ Unsubscribe(s)
  <2>1. /\ \A i \in Prompt : call[i].state = "new"
        /\ settled' = settled
    BY <1>1 DEF Subscribe, Unsubscribe
  <2>2. DOMAIN settled = {}
    BY <1>00, <2>1, EntryParts DEF EntryOK
  <2>3. QED
    BY <1>0, <2>1, <2>2 DEF SettledInv
<1>2. ASSUME NEW i \in Prompt, Ask(i) PROVE SettledInv'
  <2>1. /\ call[i].state = "new" /\ \A j \in Prompt : j # i => call'[j] = call[j]
        /\ call'[i].state # "new"
        /\ \A s \in Subscriber : held'[s] \subseteq held[s] \union {i}
        /\ ~terminal => held'["readline"] = held["readline"]
        /\ \/ settled' = settled
           \/ /\ ~terminal /\ "readline" \in subscribers
              /\ settled' = Append(settled, <<"readline", i, Undefined>>)
        /\ subscribers' = subscribers /\ given' = given
    BY <1>0, <1>2, AskFacts DEF Ask
  <2>2. \A k \in DOMAIN settled : settled[k][2] # i /\ settled[k][2] \notin held'[settled[k][1]]
    BY <1>00, <2>1, EntryParts DEF EntryOK
  <2>3. CASE settled' = settled
    <3>1. ASSUME NEW k \in DOMAIN settled PROVE EntryOK(settled[k], subscribers', held', call', given')
      BY <1>00, <2>1, <2>2, EntryParts, EntryStays DEF EntryOK
    <3>2. QED
      BY <1>0, <2>3, <3>1 DEF SettledInv
  <2>4. CASE /\ ~terminal /\ "readline" \in subscribers
             /\ settled' = Append(settled, <<"readline", i, Undefined>>)
    <3> DEFINE e == <<"readline", i, Undefined>>
    <3>1. e \in Entry /\ e[1] = "readline" /\ e[2] = i /\ e[3] = Undefined
      BY DEF Entry, Subscriber
    <3> HIDE DEF e
    <3>2. ~Due(settled, e[1], e[2])
      BY <2>2, <3>1 DEF Due
    <3>3. EntryOK(e, subscribers', held', call', given')
      BY <1>0, <2>1, <2>4, <3>1 DEF EntryOK, HeldInv
    <3>4. settled' = Append(settled, e)
      BY <2>4 DEF e
    <3>5. \A j \in Prompt : (call[j].state # "new" => call'[j].state # "new") /\ given[j] \subseteq given'[j]
      BY <2>1
    <3>6. QED
      BY <1>0, <2>1, <2>2, <3>1, <3>2, <3>3, <3>4, <3>5, QueueGrows
  <2>5. QED
    BY <2>1, <2>3, <2>4
<1>3. CASE Answered
  <2> DEFINE i == Head(settled)[2]
  <2>1. /\ settled # <<>> /\ i \in Prompt /\ Return(i, Head(settled)[3]) /\ Head(settled)[3] \in Answer
        /\ \A s \in Subscriber : held'[s] \subseteq held[s]
        /\ \/ settled' = Tail(settled)
           \/ /\ settled' = Append(Tail(settled), <<"manager", i, Undefined>>)
              /\ "manager" \in subscribers /\ i \in held["manager"] /\ i \notin held'["manager"]
        /\ subscribers' = subscribers /\ given' = given
    BY <1>3, AnsweredFacts DEF Answered
  <2> HIDE DEF i
  <2>2. \A j \in Prompt : (call[j].state # "new" => call'[j].state # "new") /\ given[j] \subseteq given'[j]
    BY <1>0, <2>1, ReturnFacts
  <2>3. call'[i].state # "new"
    BY <1>0, <2>1, ReturnFacts
  <2>4. /\ Tail(settled) \in Seq(Entry) /\ Once(Tail(settled))
        /\ \A k \in DOMAIN Tail(settled) : \E l \in DOMAIN settled : Tail(settled)[k] = settled[l]
        /\ \A s, j : Due(Tail(settled), s, j) => Due(settled, s, j)
    BY <1>0, <2>1, TailOfQueue
  <2>5. CASE settled' = Tail(settled)
    BY <2>1, <2>2, <2>4, <2>5, QueueShrinks
  <2>6. CASE /\ settled' = Append(Tail(settled), <<"manager", i, Undefined>>)
             /\ "manager" \in subscribers /\ i \in held["manager"] /\ i \notin held'["manager"]
    <3> DEFINE e == <<"manager", i, Undefined>>
    <3>1. e \in Entry /\ e[1] = "manager" /\ e[2] = i /\ e[3] = Undefined
      BY <2>1 DEF Entry, Subscriber
    <3>2. settled' = Append(Tail(settled), e)
      BY <2>6
    <3> HIDE DEF e
    <3>3. ~Due(Tail(settled), e[1], e[2])
      BY <2>4, <2>6, <3>1, HeldIsNotDue DEF Subscriber
    <3>4. EntryOK(e, subscribers', held', call', given')
      BY <2>1, <2>3, <2>6, <3>1 DEF EntryOK
    <3>5. \A k \in DOMAIN Tail(settled) : held'[Tail(settled)[k][1]] \subseteq held[Tail(settled)[k][1]]
      BY <2>1, <2>4, EntryParts
    <3>6. QED
      BY <2>1, <2>2, <2>4, <3>1, <3>2, <3>3, <3>4, <3>5, QueueGrows
  <2>7. QED
    BY <2>1, <2>5, <2>6
<1>4. CASE NotAnswered
  <2>1. /\ settled # <<>> /\ Head(settled)[2] \in Prompt /\ call[Head(settled)[2]].state # "new"
        /\ held' = held /\ subscribers' = subscribers /\ given' = given /\ settled' = Tail(settled)
    BY <1>4, HeadOfQueue DEF NotAnswered, EntryOK
  <2>2. \A j \in Prompt : (call[j].state # "new" => call'[j].state # "new")
    BY <1>0, <1>4, <2>1, NotAnsweredFacts
  <2>3. /\ Once(Tail(settled))
        /\ \A k \in DOMAIN Tail(settled) : \E l \in DOMAIN settled : Tail(settled)[k] = settled[l]
    BY <1>0, <2>1, TailOfQueue
  <2>4. QED
    BY <2>1, <2>2, <2>3, QueueShrinks
<1>5. CASE TypeLine
  <2>1. /\ settled' = Queued(held["readline"], "readline") /\ held' = [held EXCEPT !["readline"] = {}]
        /\ given' = [i \in Prompt |-> IF i \in held["readline"] THEN given[i] \union {"readline"} ELSE given[i]]
        /\ subscribers' = subscribers /\ call' = call /\ held["readline"] \in SUBSET Prompt
        /\ held["readline"] # {}
    BY <1>0, <1>5 DEF TypeLine, Subscriber
  <2>2. "readline" \in subscribers
    BY <1>0, <2>1 DEF HeldInv, Subscriber
  <2>3. /\ Once(settled')
        /\ \A k \in DOMAIN settled' : \E i \in held["readline"] : settled'[k] = <<"readline", i, "readline">>
    BY <2>1, QueuedFacts DEF Subscriber
  <2>4. ASSUME NEW i \in held["readline"]
        PROVE  EntryOK(<<"readline", i, "readline">>, subscribers', held', call', given')
    <3>1. call[i].state # "new" /\ i \in Prompt
      BY <1>0, <2>1 DEF HeldInv, Subscriber
    <3>2. held'["readline"] = {} /\ "readline" \in given'[i]
      BY <1>0, <2>1, <3>1 DEF Subscriber
    <3>3. QED
      BY <2>1, <2>2, <3>1, <3>2 DEF EntryOK, Undefined
  <2>5. QED
    BY <2>3, <2>4 DEF SettledInv
<1>6. ASSUME NEW i \in Prompt, AnswerTui(i) PROVE SettledInv'
  <2> DEFINE e == <<"tui", i, "tui">>
  <2>1. /\ settled = <<>> /\ settled' = Append(settled, e) /\ i \in held["tui"] /\ current["tui"] = i
        /\ held' = [held EXCEPT !["tui"] = @ \ {i}] /\ given' = [given EXCEPT ![i] = @ \union {"tui"}]
        /\ subscribers' = subscribers /\ call' = call
    BY <1>0, <1>6 DEF AnswerTui, Idle, Give, HeldInv
  <2>2. e \in Entry /\ e[1] = "tui" /\ e[2] = i /\ e[3] = "tui"
    BY DEF Entry, Subscriber
  <2> HIDE DEF e
  <2>3. "tui" \in subscribers /\ call[i].state # "new"
    BY <1>0, <2>1 DEF HeldInv, Subscriber
  <2>4. i \notin held'["tui"] /\ "tui" \in given'[i] /\ \A j \in Prompt : given[j] \subseteq given'[j]
    BY <1>0, <2>1 DEF Subscriber
  <2>5. EntryOK(e, subscribers', held', call', given')
    BY <2>1, <2>2, <2>3, <2>4 DEF EntryOK, Undefined
  <2>6. ~Due(settled, e[1], e[2]) /\ DOMAIN settled = {}
    BY <2>1 DEF Due
  <2>7. QED
    BY <1>0, <2>1, <2>2, <2>4, <2>5, <2>6, QueueGrows
<1>7. ASSUME NEW i \in Prompt, AnswerManager(i) PROVE SettledInv'
  <2> DEFINE e == <<"manager", i, "manager">>
  <2>1. /\ settled = <<>> /\ settled' = Append(settled, e) /\ i \in held["manager"]
        /\ held' = [held EXCEPT !["manager"] = @ \ {i}] /\ given' = [given EXCEPT ![i] = @ \union {"manager"}]
        /\ subscribers' = subscribers /\ call' = call
    BY <1>0, <1>7 DEF AnswerManager, Idle, Give
  <2>2. e \in Entry /\ e[1] = "manager" /\ e[2] = i /\ e[3] = "manager"
    BY DEF Entry, Subscriber
  <2> HIDE DEF e
  <2>3. "manager" \in subscribers /\ call[i].state # "new"
    BY <1>0, <2>1 DEF HeldInv, Subscriber
  <2>4. i \notin held'["manager"] /\ "manager" \in given'[i] /\ \A j \in Prompt : given[j] \subseteq given'[j]
    BY <1>0, <2>1 DEF Subscriber
  <2>5. EntryOK(e, subscribers', held', call', given')
    BY <2>1, <2>2, <2>3, <2>4 DEF EntryOK, Undefined
  <2>6. ~Due(settled, e[1], e[2]) /\ DOMAIN settled = {}
    BY <2>1 DEF Due
  <2>7. QED
    BY <1>0, <2>1, <2>2, <2>4, <2>5, <2>6, QueueGrows
<1>8. ASSUME NEW i \in Prompt, Deliver(i) PROVE SettledInv'
  <2> DEFINE e == <<"sse", i, "sse">>
  <2>1. /\ settled = <<>> /\ subscribers' = subscribers /\ call' = call /\ given' = given /\ i \in posted
        /\ IF i \in held["sse"] THEN settled' = Append(settled, e) /\ held' = [held EXCEPT !["sse"] = @ \ {i}]
           ELSE settled' = settled /\ held' = held
    BY <1>8 DEF Deliver, Idle, ResponseTo
  <2>2. e \in Entry /\ e[1] = "sse" /\ e[2] = i /\ e[3] = "sse"
    BY DEF Entry, Subscriber
  <2> HIDE DEF e
  <2>3. CASE i \in held["sse"]
    <3>1. "sse" \in subscribers /\ call[i].state # "new" /\ "sse" \in given[i]
      BY <1>0, <2>1, <2>3 DEF HeldInv, Subscriber, IInv, AnswerInv
    <3>2. i \notin held'["sse"]
      BY <1>0, <2>1, <2>3 DEF Subscriber
    <3>3. EntryOK(e, subscribers', held', call', given')
      BY <2>1, <2>2, <3>1, <3>2 DEF EntryOK, Undefined
    <3>4. ~Due(settled, e[1], e[2]) /\ DOMAIN settled = {}
      BY <2>1 DEF Due
    <3>5. QED
      BY <1>0, <2>1, <2>2, <2>3, <3>3, <3>4, QueueGrows
  <2>4. CASE i \notin held["sse"]
    BY <1>0, <2>1, <2>4 DEF SettledInv
  <2>5. QED
    BY <2>3, <2>4
<1>9. CASE Submit \/ \E i \in Prompt : ResolveById(i)
  <2> DEFINE Adds == /\ settled' = settled /\ subscribers' = subscribers /\ call' = call /\ held' = held
                     /\ \A j \in Prompt : given[j] \subseteq given'[j]
  <2>1. Adds
    <3>1. CASE Submit
      BY <1>0, <3>1 DEF Submit, Give, Types
    <3>2. ASSUME NEW i \in Prompt, ResolveById(i) PROVE Adds
      BY <1>0, <3>2 DEF ResolveById, Types
    <3>3. QED
      BY <1>9, <3>1, <3>2
  <2>2. QED
    BY <1>0, <2>1, QueueShrinks
<1>10. CASE Receive \/ Reconnect \/ UNCHANGED vars
  BY <1>0, <1>10 DEF Receive, Reconnect, vars, SettledInv
<1>11. QED
  BY <1>1, <1>2, <1>3, <1>4, <1>5, <1>6, <1>7, <1>8, <1>9, <1>10 DEF Next, Callback, Human

-----------------------------------------------------------------------------
(* How many have answered nothing.                                          *)

LEMMA SpentIsFinite ==
  ASSUME NEW subs, NEW hold, NEW seq, NEW i
  PROVE  /\ IsFiniteSet(Spent(subs, hold, seq, i)) /\ Cardinality(Spent(subs, hold, seq, i)) \in Nat
<1>1. IsFiniteSet({"readline"} \union {"manager"})
  BY FS_Singleton, FS_AddElement
<1>2. Spent(subs, hold, seq, i) \in SUBSET ({"readline"} \union {"manager"})
  BY DEF Spent
<1>3. QED
  BY <1>1, <1>2, FS_Subset, FS_CardinalityType

LEMMA SpentGrows ==
  ASSUME NEW subs, NEW hold, NEW seq, NEW hold2, NEW seq2, NEW i,
         \A s \in subs \cap {"readline", "manager"} :
           i \notin hold[s] /\ ~Due(seq, s, i) => i \notin hold2[s] /\ ~Due(seq2, s, i)
  PROVE  Cardinality(Spent(subs, hold, seq, i)) <= Cardinality(Spent(subs, hold2, seq2, i))
<1>1. Spent(subs, hold, seq, i) \in SUBSET Spent(subs, hold2, seq2, i)
  BY DEF Spent
<1>2. QED
  BY <1>1, SpentIsFinite, FS_Subset

\* Steps that count nobody: whoever is done stays done, and what was asked
\* first counts nobody yet.
LEMMA CountStays ==
  ASSUME IInv, subscribers' = subscribers,
         \A i \in Prompt : call[i].state # "new" =>
           /\ call'[i].responded = call[i].responded
           /\ \A s \in subscribers \cap {"readline", "manager"} :
                i \notin held[s] /\ ~Due(settled, s, i) => i \notin held'[s] /\ ~Due(settled', s, i),
         \A i \in Prompt : call[i].state = "new" /\ call'[i].state # "new" => call'[i].responded \in {0, 1}
  PROVE  CountInv'
<1> SUFFICES ASSUME NEW i \in Prompt, call'[i].state # "new"
             PROVE  call'[i].responded <= 1 + Cardinality(Spent(subscribers, held', settled', i))
  BY DEF CountInv
<1>1. Cardinality(Spent(subscribers, held', settled', i)) \in Nat
  BY SpentIsFinite
<1>2. CASE call[i].state = "new"
  BY <1>1, <1>2
<1>3. CASE call[i].state # "new"
  <2>1. Cardinality(Spent(subscribers, held, settled, i)) <= Cardinality(Spent(subscribers, held', settled', i))
    BY <1>3, SpentGrows
  <2>2. /\ call[i].responded <= 1 + Cardinality(Spent(subscribers, held, settled, i))
        /\ call[i].responded \in Nat /\ call'[i].responded = call[i].responded
    BY <1>3 DEF IInv, CountInv, Types, CallType
  <2>3. Cardinality(Spent(subscribers, held, settled, i)) \in Nat
    BY SpentIsFinite
  <2>4. QED
    BY <1>1, <2>1, <2>2, <2>3
<1>4. QED
  BY <1>2, <1>3

LEMMA CountStep == IInv /\ [Next]_vars => CountInv'
<1> SUFFICES ASSUME IInv, [Next]_vars PROVE CountInv'
  OBVIOUS
<1>0. /\ Types /\ HeldInv /\ held \in [Subscriber -> SUBSET Prompt] /\ call \in [Prompt -> CallType]
      /\ settled \in Seq(Entry) /\ Once(settled) /\ subscribers \subseteq Subscriber
  BY DEF IInv, Types, SettledInv
<1>1. CASE \E s \in Subscriber : Subscribe(s) \/ Unsubscribe(s)
  BY <1>0, <1>1 DEF Subscribe, Unsubscribe, CountInv
<1>2. ASSUME NEW i \in Prompt, Ask(i) PROVE CountInv'
  <2>1. /\ call[i].state = "new" /\ \A j \in Prompt : j # i => call'[j] = call[j]
        /\ call'[i].responded \in {0, 1}
        /\ \A s \in Subscriber : held'[s] \subseteq held[s] \union {i}
        /\ settled' = settled \/ settled' = Append(settled, <<"readline", i, Undefined>>)
        /\ subscribers' = subscribers
    BY <1>0, <1>2, AskFacts DEF Ask
  <2>2. ASSUME NEW s, NEW j, j # i, Due(settled', s, j) PROVE Due(settled, s, j)
    <3> DEFINE e == <<"readline", i, Undefined>>
    <3>1. e \in Entry /\ e[2] = i
      BY DEF Entry, Subscriber
    <3> HIDE DEF e
    <3>2. settled' = settled \/ settled' = Append(settled, e)
      BY <2>1 DEF e
    <3>3. CASE settled' = Append(settled, e)
      BY <1>0, <2>2, <3>1, <3>3, AppendToQueue
    <3>4. QED
      BY <2>2, <3>2, <3>3
  <2>3. \A j \in Prompt : call[j].state # "new" => j # i
    BY <2>1
  <2>4. QED
    BY <1>0, <2>1, <2>2, <2>3, CountStays
<1>3. CASE Answered
  <2> DEFINE i == Head(settled)[2]
             e == <<"manager", i, Undefined>>
  <2>1. /\ settled # <<>> /\ i \in Prompt /\ Return(i, Head(settled)[3]) /\ Head(settled)[3] \in Answer
        /\ \A s \in Subscriber : held'[s] \subseteq held[s]
        /\ \/ settled' = Tail(settled)
           \/ settled' = Append(Tail(settled), e) /\ i \in held["manager"]
        /\ subscribers' = subscribers
        /\ call[i].state # "new"
    BY <1>3, AnsweredFacts DEF Answered, EntryOK
  <2>2. e \in Entry /\ e[1] = "manager" /\ e[2] = i
    BY <2>1 DEF Entry, Subscriber
  <2> HIDE DEF i, e
  <2>3. \A j \in Prompt : call'[j].responded = call[j].responded
    BY <1>0, <2>1, ReturnFacts
  <2>4. \A j \in Prompt : call[j].state = "new" => call'[j].state = "new"
    BY <1>0, <2>1, ReturnFacts
  <2>5. /\ Tail(settled) \in Seq(Entry) /\ Once(Tail(settled))
        /\ \A s, j : Due(Tail(settled), s, j) => Due(settled, s, j)
    BY <1>0, <2>1, TailOfQueue
  <2>6. ASSUME NEW s, NEW j, Due(settled', s, j)
        PROVE  Due(settled, s, j) \/ (s = "manager" /\ j = i /\ i \in held["manager"])
    <3>1. CASE settled' = Tail(settled)
      BY <2>5, <2>6, <3>1
    <3>2. CASE settled' = Append(Tail(settled), e) /\ i \in held["manager"]
      <4>1. Due(Append(Tail(settled), e), s, j) => Due(Tail(settled), s, j) \/ (s = e[1] /\ j = e[2])
        BY <2>2, <2>5, AppendToQueue
      <4>2. QED
        BY <2>2, <2>5, <2>6, <3>2, <4>1
    <3>3. QED
      BY <2>1, <3>1, <3>2
  <2>7. QED
    BY <1>0, <2>1, <2>3, <2>4, <2>6, CountStays
<1>4. CASE NotAnswered
  <2> DEFINE i == Head(settled)[2]
             s0 == Head(settled)[1]
  <2>1. /\ settled # <<>> /\ i \in Prompt /\ call[i].state # "new"
        /\ s0 \in subscribers \cap {"readline", "manager"} /\ i \notin held[s0]
        /\ held' = held /\ subscribers' = subscribers /\ settled' = Tail(settled)
    BY <1>4, HeadOfQueue DEF NotAnswered, EntryOK
  <2>2. /\ \A j \in Prompt : j # i => call'[j] = call[j]
        /\ call'[i].responded = call[i].responded + 1
    BY <1>0, <1>4, <2>1, NotAnsweredFacts
  <2>3. /\ \A s, j : Due(settled', s, j) => Due(settled, s, j)
        /\ ~Due(settled', s0, i) /\ Due(settled, s0, i)
    BY <1>0, <2>1, TailOfQueue
  <2> HIDE DEF i, s0
  <2> SUFFICES ASSUME NEW j \in Prompt, call'[j].state # "new"
               PROVE  call'[j].responded <= 1 + Cardinality(Spent(subscribers, held', settled', j))
    BY <2>1 DEF CountInv
  <2>4. Cardinality(Spent(subscribers, held, settled, j)) <= Cardinality(Spent(subscribers, held', settled', j))
    BY <2>1, <2>3, SpentGrows
  <2>5. /\ Cardinality(Spent(subscribers, held, settled, j)) \in Nat
        /\ Cardinality(Spent(subscribers, held', settled', j)) \in Nat
        /\ IsFiniteSet(Spent(subscribers, held, settled, j))
        /\ IsFiniteSet(Spent(subscribers, held', settled', j))
    BY SpentIsFinite
  <2>6. call[j].responded \in Nat
    BY <1>0 DEF CallType
  <2>7. CASE j # i
    <3>1. call[j].responded <= 1 + Cardinality(Spent(subscribers, held, settled, j)) /\ call'[j] = call[j]
      BY <2>2, <2>7 DEF IInv, CountInv
    <3>2. QED
      BY <2>4, <2>5, <2>6, <3>1
  <2>8. CASE j = i
    <3> DEFINE before == Spent(subscribers, held, settled, j)
               after == Spent(subscribers, held', settled', j)
    <3>1. call[j].responded <= 1 + Cardinality(before) /\ call'[j].responded = call[j].responded + 1
      BY <2>1, <2>2, <2>8 DEF IInv, CountInv
    <3>2. s0 \notin before /\ s0 \in after /\ before \subseteq after
      BY <2>1, <2>3, <2>8 DEF Spent
    <3> HIDE DEF before, after
    <3>3. before \union {s0} \in SUBSET after
      BY <3>2
    <3>4. IsFiniteSet(before) /\ IsFiniteSet(after) /\ Cardinality(before) \in Nat /\ Cardinality(after) \in Nat
      BY <2>5 DEF before, after
    <3>5. Cardinality(before \union {s0}) = Cardinality(before) + 1
      BY <3>2, <3>4, FS_AddElement
    <3>6. Cardinality(before \union {s0}) <= Cardinality(after)
      BY <3>3, <3>4, FS_Subset
    <3>7. call'[j].responded <= 1 + Cardinality(after)
      BY <2>6, <3>1, <3>4, <3>5, <3>6
    <3>8. QED
      BY <3>7 DEF after
  <2>9. QED
    BY <2>7, <2>8
<1>5. CASE TypeLine
  <2>1. /\ settled' = Queued(held["readline"], "readline") /\ held' = [held EXCEPT !["readline"] = {}]
        /\ subscribers' = subscribers /\ call' = call /\ held["readline"] \in SUBSET Prompt
    BY <1>0, <1>5 DEF TypeLine, Subscriber
  <2>2. \A k \in DOMAIN settled' : \E i \in held["readline"] : settled'[k] = <<"readline", i, "readline">>
    BY <2>1, QueuedFacts DEF Subscriber
  <2>3. \A s, i : Due(settled', s, i) => s = "readline" /\ i \in held["readline"]
    BY <2>2 DEF Due
  <2>4. QED
    BY <1>0, <2>1, <2>3, CountStays
<1>6. ASSUME NEW i \in Prompt, AnswerTui(i) \/ AnswerManager(i) \/ Deliver(i) PROVE CountInv'
  <2> DEFINE Takes(s) == i \in held[s] /\ settled' = Append(settled, <<s, i, s>>)
  <2>1. /\ subscribers' = subscribers /\ call' = call
        /\ \A s \in Subscriber : held'[s] \subseteq held[s]
        /\ settled' = settled \/ \E s \in Subscriber : Takes(s)
    <3>1. CASE AnswerTui(i)
      BY <1>0, <3>1 DEF AnswerTui, Subscriber
    <3>2. CASE AnswerManager(i)
      BY <1>0, <3>2 DEF AnswerManager, Subscriber
    <3>3. CASE Deliver(i)
      BY <1>0, <3>3 DEF Deliver, Subscriber, ResponseTo
    <3>4. QED
      BY <1>6, <3>1, <3>2, <3>3
  <2>2. ASSUME NEW s, NEW j, Due(settled', s, j)
        PROVE  Due(settled, s, j) \/ (s \in Subscriber /\ j \in held[s])
    <3>1. CASE settled' = settled
      BY <2>2, <3>1
    <3>2. ASSUME NEW t \in Subscriber, Takes(t) PROVE Due(settled, s, j) \/ (s \in Subscriber /\ j \in held[s])
      <4> DEFINE e == <<t, i, t>>
      <4>1. e \in Entry /\ e[1] = t /\ e[2] = i
        BY DEF Entry
      <4>2. settled' = Append(settled, e) /\ i \in held[t]
        BY <3>2
      <4> HIDE DEF e
      <4>3. QED
        BY <1>0, <2>2, <4>1, <4>2, AppendToQueue
    <3>3. QED
      BY <2>1, <3>1, <3>2
  <2>3. QED
    BY <1>0, <2>1, <2>2, CountStays
<1>7. CASE Submit \/ Receive \/ Reconnect \/ (\E i \in Prompt : ResolveById(i)) \/ UNCHANGED vars
  <2>1. subscribers' = subscribers /\ call' = call /\ held' = held /\ settled' = settled
    BY <1>0, <1>7 DEF Submit, Receive, Reconnect, ResolveById, vars, Types
  <2>2. QED
    BY <2>1 DEF IInv, CountInv
<1>8. QED
  BY <1>1, <1>2, <1>3, <1>4, <1>5, <1>6, <1>7 DEF Next, Callback, Human

-----------------------------------------------------------------------------
(* Answers.                                                                 *)

\* Steps that answer no call: answers given stay, and nobody comes to hold a
\* prompt that is answered or asks it again.
LEMMA AnswersStay ==
  ASSUME IInv,
         \A i \in Prompt : call'[i].value # Undefined =>
           /\ call'[i].value = call[i].value
           /\ \A s \in Subscriber : i \in held'[s] => i \in held[s]
           /\ current'["readline"] = current["readline"] \/ current'["readline"] # i,
         \A i \in Prompt : given[i] \subseteq given'[i],
         \A p \in posted' : "sse" \in given'[p]
  PROVE  AnswerInv'
<1>1. ASSUME NEW i \in Prompt, call'[i].value # Undefined
      PROVE  /\ call'[i].value \in given'[i]
             /\ \A s \in Subscriber : i \in held'[s] => s = "readline" /\ current'[s] # i
  <2>1. /\ call[i].value \in given[i]
        /\ \A s \in Subscriber : i \in held[s] => s = "readline" /\ current[s] # i
    BY <1>1 DEF IInv, AnswerInv
  <2>2. QED
    BY <1>1, <2>1
<1>2. QED
  BY <1>1 DEF AnswerInv

LEMMA AnswerStep == IInv /\ [Next]_vars => AnswerInv'
<1> SUFFICES ASSUME IInv, [Next]_vars PROVE AnswerInv'
  OBVIOUS
<1>0. /\ Types /\ HeldInv /\ AnswerInv /\ held \in [Subscriber -> SUBSET Prompt] /\ call \in [Prompt -> CallType]
      /\ current \in [{"readline", "tui"} -> Prompt \union {None}] /\ given \in [Prompt -> SUBSET Answer]
      /\ subscribers \subseteq Subscriber /\ posted \subseteq Prompt
      /\ \A p \in posted : "sse" \in given[p]
  BY DEF IInv, Types, AnswerInv
<1>1. CASE \E s \in Subscriber : Subscribe(s) \/ Unsubscribe(s)
  BY <1>0, <1>1 DEF Subscribe, Unsubscribe, AnswerInv, browser
<1>2. ASSUME NEW i \in Prompt, Ask(i) PROVE AnswerInv'
  <2>1. /\ \A j \in Prompt : j # i => call'[j] = call[j]
        /\ call'[i].value = Undefined
        /\ \A s \in Subscriber : held'[s] \subseteq held[s] \union {i}
        /\ \A s \in {"readline", "tui"} : current'[s] \in {current[s], i}
        /\ given' = given /\ posted' = posted
    BY <1>0, <1>2, AskFacts DEF Ask
  <2>2. QED
    BY <1>0, <2>1, AnswersStay
<1>3. CASE Answered
  <2> DEFINE e == Head(settled)
             i == e[2]
  <2>1. /\ i \in Prompt /\ Return(i, e[3]) /\ e[3] \in Answer /\ e[3] \in given[i]
        /\ \A s \in Subscriber : held'[s] \subseteq held[s]
        /\ \A s \in subscribers : i \in held'[s] => s \in {"readline", "tui"} /\ current[s] # i
        /\ current'["readline"] = current["readline"]
        /\ given' = given /\ posted' = posted
    BY <1>3, AnsweredFacts DEF Answered, EntryOK, browser
  <2> HIDE DEF e, i
  <2>2. /\ \A j \in Prompt : j # i => call'[j] = call[j]
        /\ call'[i].value = IF call[i].state = "waiting" THEN e[3] ELSE call[i].value
    BY <1>0, <2>1, ReturnFacts
  <2>3. \A s \in Subscriber : i \in held'[s] => s = "readline" /\ current'[s] # i
    <3> SUFFICES ASSUME NEW s \in Subscriber, i \in held'[s] PROVE s = "readline" /\ current'[s] # i
      OBVIOUS
    <3>1. i \in held[s] /\ s \in subscribers
      BY <1>0, <2>1 DEF HeldInv
    <3>2. s \in {"readline", "tui"} /\ current[s] # i
      BY <2>1, <3>1
    <3>3. s # "tui"
      BY <1>0, <3>1, <3>2 DEF HeldInv
    <3>4. QED
      BY <2>1, <3>2, <3>3
  <2>4. call'[i].value # Undefined => call'[i].value \in given[i]
    BY <1>0, <2>1, <2>2 DEF AnswerInv
  <2>5. ASSUME NEW j \in Prompt, j # i, call'[j].value # Undefined
        PROVE  /\ call'[j].value \in given[j]
               /\ \A s \in Subscriber : j \in held'[s] => s = "readline" /\ current'[s] # j
    <3>1. /\ call[j].value \in given[j]
          /\ \A s \in Subscriber : j \in held[s] => s = "readline" /\ current[s] # j
      BY <1>0, <2>2, <2>5 DEF AnswerInv
    <3>2. QED
      BY <2>1, <2>2, <2>5, <3>1
  <2>6. QED
    BY <1>0, <2>1, <2>3, <2>4, <2>5 DEF AnswerInv
<1>4. CASE NotAnswered
  <2>1. /\ Head(settled)[2] \in Prompt
        /\ held' = held /\ current' = current /\ given' = given /\ posted' = posted
    BY <1>4, HeadOfQueue DEF NotAnswered, browser
  <2>2. \A j \in Prompt : call'[j].value = call[j].value
    BY <1>0, <1>4, <2>1, NotAnsweredFacts
  <2>3. QED
    BY <1>0, <2>1, <2>2, AnswersStay
<1>5. CASE TypeLine
  <2>1. /\ call' = call /\ posted' = posted /\ current' = current
        /\ \A s \in Subscriber : held'[s] \subseteq held[s]
        /\ \A i \in Prompt : given[i] \subseteq given'[i]
    BY <1>0, <1>5 DEF TypeLine, browser
  <2>2. QED
    BY <1>0, <2>1, AnswersStay
<1>6. ASSUME NEW i \in Prompt, AnswerTui(i) \/ AnswerManager(i) PROVE AnswerInv'
  <2>1. /\ call' = call /\ posted' = posted /\ current'["readline"] = current["readline"]
        /\ \A s \in Subscriber : held'[s] \subseteq held[s]
        /\ \A j \in Prompt : given[j] \subseteq given'[j]
    <3>1. CASE AnswerTui(i)
      BY <1>0, <3>1 DEF AnswerTui, Give, browser
    <3>2. CASE AnswerManager(i)
      BY <1>0, <3>2 DEF AnswerManager, Give, browser
    <3>3. QED
      BY <1>6, <3>1, <3>2
  <2>2. QED
    BY <1>0, <2>1, AnswersStay
<1>7. ASSUME NEW i \in Prompt, Deliver(i) PROVE AnswerInv'
  <2>1. /\ call' = call /\ posted' \subseteq posted /\ current' = current /\ given' = given
        /\ \A s \in Subscriber : held'[s] \subseteq held[s]
    BY <1>0, <1>7 DEF Deliver, ResponseTo
  <2>2. QED
    BY <1>0, <2>1, AnswersStay
<1>8. CASE Submit
  <2>1. /\ call' = call /\ held' = held /\ current' = current /\ posted' = posted \union {web}
        /\ web \in Prompt /\ given' = [given EXCEPT ![web] = @ \union {"sse"}]
    BY <1>0, <1>8 DEF Submit, Give, Types
  <2>2. (\A j \in Prompt : given[j] \subseteq given'[j]) /\ "sse" \in given'[web]
    BY <1>0, <2>1
  <2>3. \A p \in posted' : "sse" \in given'[p]
    BY <1>0, <2>1, <2>2
  <2>4. QED
    BY <1>0, <2>1, <2>2, <2>3, AnswersStay
<1>9. ASSUME NEW i \in Prompt, ResolveById(i) PROVE AnswerInv'
  <2>1. /\ call' = call /\ held' = held /\ current' = current /\ posted' = posted
        /\ \A j \in Prompt : given[j] \subseteq given'[j]
    BY <1>0, <1>9 DEF ResolveById, Types, browser
  <2>2. QED
    BY <1>0, <2>1, AnswersStay
<1>10. CASE Receive \/ Reconnect \/ UNCHANGED vars
  BY <1>0, <1>10 DEF Receive, Reconnect, vars, AnswerInv
<1>11. QED
  BY <1>1, <1>2, <1>3, <1>4, <1>5, <1>6, <1>7, <1>8, <1>9, <1>10 DEF Next, Callback, Human

-----------------------------------------------------------------------------
LEMMA IInvAlways == Spec => []IInv
<1>1. IInv /\ [Next]_vars => IInv'
  BY TypesStep, HeldStep, SettledStep, CountStep, AnswerStep DEF IInv
<1>2. QED
  BY InitIInv, <1>1, PTL DEF Spec

\* Whatever subscribers there are and in whatever order answers, cancellations
\* and reconnections come: a call returns only what was given as an answer to
\* its own prompt, an answered prompt is withdrawn from every place but a
\* terminal that asks something else by now, and no more are counted as having
\* no answer than can respond.
THEOREM AnswersTrue == Spec => []AnswersAreTrue
<1>1. IInv => AnswersAreTrue
  <2> SUFFICES ASSUME IInv PROVE AnswersAreTrue
    OBVIOUS
  <2>0. Types /\ HeldInv
    BY DEF IInv
  <2>1. ASSUME NEW i \in Prompt PROVE call[i].responded \in 0..Cardinality(subscribers) + 1
    <3> DEFINE spent == Spent(subscribers, held, settled, i)
    <3>1. IsFiniteSet(subscribers)
      <4>1. IsFiniteSet({"readline"} \union {"tui"}) /\ IsFiniteSet({"manager"} \union {"sse"})
        BY FS_Singleton, FS_AddElement
      <4>2. IsFiniteSet(({"readline"} \union {"tui"}) \union ({"manager"} \union {"sse"}))
        BY <4>1, FS_Union
      <4>3. subscribers \in SUBSET (({"readline"} \union {"tui"}) \union ({"manager"} \union {"sse"}))
        BY <2>0 DEF Types, Subscriber
      <4>4. QED
        BY <4>2, <4>3, FS_Subset
    <3>2. Cardinality(subscribers) \in Nat /\ Cardinality(spent) \in Nat /\ Cardinality(spent) <= Cardinality(subscribers)
      <4>1. spent \in SUBSET subscribers
        BY DEF Spent
      <4>2. QED
        BY <3>1, <4>1, SpentIsFinite, FS_Subset, FS_CardinalityType
    <3>3. call[i].responded \in Nat
      BY <2>0 DEF Types, CallType
    <3>4. CASE call[i].state = "new"
      <4>1. call[i].responded = 0
        BY <2>0, <3>4 DEF HeldInv, NewCall
      <4>2. QED
        BY <3>2, <4>1
    <3>5. CASE call[i].state # "new"
      <4>1. call[i].responded <= 1 + Cardinality(spent)
        BY <3>5 DEF IInv, CountInv
      <4> HIDE DEF spent
      <4>2. QED
        BY <3>2, <3>3, <4>1
    <3>6. QED
      BY <3>4, <3>5
  <2>2. \A k \in DOMAIN settled : settled[k] \in Subscriber \X Prompt \X (Subscriber \union {Undefined})
    BY <2>0 DEF Types, Entry
  <2>3. TypeOK
    BY <2>0, <2>1, <2>2 DEF TypeOK, Types, CallType, HeldInv
  <2>4. AnswerWasGiven
    BY DEF IInv, AnswerInv, AnswerWasGiven
  <2>5. AnsweredIsWithdrawn
    BY <2>0 DEF IInv, AnswerInv, AnsweredIsWithdrawn, Types
  <2>6. QED
    BY <2>3, <2>4, <2>5 DEF AnswersAreTrue
<1>2. QED
  BY <1>1, IInvAlways, PTL
-----------------------------------------------------------------------------
(* Extension. Without overlapping restarts a server that is alive is the     *)
(* client's or the one whose stop is awaited, and a client has its handler   *)
(* from the moment it is said to run.                                        *)

ServerStates == {"starting", "running", "again", "stopping", "stopped", "failed"}
Server == [state : ServerStates, mcp : BOOLEAN, token : {s.token : s \in Settings}, handlers : Seq(BOOLEAN)]
Status == [lsp : {"starting", "running", "stopped", "error"},
           mcp : {"disabled", "starting", "running", "stopped", "error"},
           error : BOOLEAN, retryCount : Nat, timers : Nat]

PanelTypes ==
  /\ settings \in Settings /\ files \subseteq Files /\ Files \ files \subseteq Changing /\ cli \in BOOLEAN
  /\ tree \in Trees /\ refreshDue \in BOOLEAN /\ overlapped \in BOOLEAN
  /\ servers \in Seq(Server) /\ status \in Status
  /\ client \in 0..Len(servers) /\ stopping \subseteq DOMAIN servers
  /\ DOMAIN output = Tools /\ calls \in [Tools -> Nat]

\* Without a CLI there is no server.
CliInv == ~cli => servers = <<>>

\* A server that is being stopped is one whose stop is awaited.
StoppingInv == \A i \in DOMAIN servers : servers[i].state = "stopping" <=> i \in stopping

\* Until restarts overlap, no server is alive but the client's or the one that is stopped before there is one.
AliveInv ==
  ~overlapped =>
    /\ Alive \subseteq {client} \union stopping
    /\ stopping # {} => client = 0 /\ \E i \in DOMAIN servers : stopping = {i}

\* And one that has been started has a handler, so that the panel is told when it ends.
HandledInv ==
  ~overlapped =>
    \A i \in DOMAIN servers :
      servers[i].state \in {"running", "again", "stopping"} \/ (i = client /\ servers[i].state = "stopped")
        => servers[i].handlers # <<>>

RunningInv ==
  ~overlapped /\ status.lsp = "running" => \E i \in Alive : servers[i].state \in {"running", "stopping"}

PanelInv == PanelTypes /\ CliInv /\ StoppingInv /\ AliveInv /\ HandledInv /\ RunningInv /\ RunningIsCalled
-----------------------------------------------------------------------------
(* Numbers, and functions that are defined by what they were before.        *)

LEMMA LeastExists ==
  ASSUME NEW T \in SUBSET Nat, T # {}
  PROVE  \E x \in T : \A y \in T : x <= y
<1>1. PICK x \in T : \A y \in T : ~(<<y, x>> \in OpToRel(<, Nat))
  BY NatLessThanWellFounded, WFMin
<1>2. ASSUME NEW y \in T PROVE x <= y
  <2>1. y < x => <<y, x>> \in OpToRel(<, Nat)
    BY DEF OpToRel
  <2>2. ~(y < x)
    BY <1>1, <2>1, Zenon
  <2>3. QED
    BY <2>2
<1>3. QED
  BY <1>2

LEMMA GreatestExists ==
  ASSUME NEW T \in SUBSET Nat, T # {}, NEW b \in Nat, \A t \in T : t <= b
  PROVE  \E x \in T : \A y \in T : y <= x
<1> DEFINE U == {u \in Nat : \A t \in T : t <= u}
<1>1. PICK u \in U : \A v \in U : u <= v
  <2>1. U \in SUBSET Nat /\ U # {}
    OBVIOUS
  <2> HIDE DEF U
  <2>2. QED
    BY <2>1, LeastExists
<1>2. u \in T
  <2>1. CASE u = 0
    <3>1. PICK t \in T : t \in Nat
      OBVIOUS
    <3>2. t <= 0
      BY <1>1, <2>1, <3>1
    <3>3. QED
      BY <2>1, <3>1, <3>2
  <2>2. CASE u # 0
    <3>1. u - 1 \in Nat /\ u - 1 \notin U
      BY <1>1, <2>2
    <3>2. PICK t \in T : t > u - 1
      BY <3>1
    <3>3. t = u
      BY <1>1, <3>1, <3>2
    <3>4. QED
      BY <3>3
  <2>3. QED
    BY <2>1, <2>2
<1>3. \E x \in T : \A y \in T : y <= x
  BY <1>1, <1>2
<1> QED
  BY <1>3

\* Induction up to n, of a set.
LEMMA UpTo ==
  ASSUME NEW n \in Nat, NEW T, 0 \in T, \A i \in 1..n : i - 1 \in T => i \in T
  PROVE  \A i \in 0..n : i \in T
<1> DEFINE Bad == {i \in 0..n : i \notin T}
<1> SUFFICES ASSUME Bad # {} PROVE FALSE
  OBVIOUS
<1>1. PICK x \in Bad : \A y \in Bad : x <= y
  <2>1. Bad \in SUBSET Nat
    OBVIOUS
  <2> HIDE DEF Bad
  <2>2. QED
    BY <2>1, LeastExists
<1>2. x \in 1..n /\ x - 1 \notin Bad
  BY <1>1
<1>3. x - 1 \in T
  BY <1>2
<1>4. QED
  BY <1>1, <1>2, <1>3

\* The functions of 0..n that begin with a and are made of the values before.
Steps(n, S) == [1..n -> [S -> S]]
MadeBy(n, S, a, g) == {f \in [0..n -> S] : f[0] = a /\ \A i \in 1..n : f[i] = g[i][f[i - 1]]}

\* There is one.
LEMMA Recursion ==
  ASSUME NEW n \in Nat, NEW S, NEW a \in S, NEW g \in Steps(n, S)
  PROVE  \E f : f \in MadeBy(n, S, a, g)
<1> USE DEF Steps
<1> DEFINE Made(m, f) == f[0] = a /\ \A i \in 1..m : f[i] = g[i][f[i - 1]]
           T == {m \in 0..n : \E f \in [0..m -> S] : Made(m, f)}
<1>1. 0 \in T
  <2> DEFINE f == [i \in 0..0 |-> a]
  <2>1. f \in [0..0 -> S] /\ f[0] = a
    OBVIOUS
  <2> HIDE DEF f
  <2>2. Made(0, f) /\ 0 \in 0..n
    BY <2>1
  <2>3. \E e \in [0..0 -> S] : Made(0, e)
    BY <2>1, <2>2
  <2>4. QED
    BY <2>2, <2>3
<1>2. ASSUME NEW m \in 1..n, m - 1 \in T PROVE m \in T
  <2>1. PICK f \in [0..m - 1 -> S] : Made(m - 1, f)
    BY <1>2
  <2> DEFINE h == [i \in 0..m |-> IF i = m THEN g[m][f[m - 1]] ELSE f[i]]
  <2>2. m - 1 \in 0..m - 1 /\ f[m - 1] \in S /\ g[m] \in [S -> S]
    BY <2>1
  <2>3. g[m][f[m - 1]] \in S
    BY <2>2
  <2>4. h \in [0..m -> S]
    BY <2>1, <2>3
  <2>5. \A i \in 0..m - 1 : i \in 0..m /\ h[i] = f[i]
    OBVIOUS
  <2>6. h[m] = g[m][h[m - 1]]
    <3>1. h[m] = g[m][f[m - 1]]
      OBVIOUS
    <3>2. h[m - 1] = f[m - 1]
      BY <2>2, <2>5
    <3>3. QED
      BY <3>1, <3>2
  <2>7. \A i \in 1..m - 1 : i \in 0..m - 1 /\ i - 1 \in 0..m - 1
    OBVIOUS
  <2> HIDE DEF h
  <2>8. \A i \in 1..m - 1 : h[i] = g[i][h[i - 1]]
    BY <2>1, <2>5, <2>7
  <2>9. h[0] = a
    BY <2>1, <2>5
  <2>10. \A i \in 1..m : i \in 1..m - 1 \/ i = m
    OBVIOUS
  <2>11. Made(m, h)
    BY <2>6, <2>8, <2>9, <2>10
  <2> HIDE DEF Made
  <2>12. \E e \in [0..m -> S] : Made(m, e)
    BY <2>4, <2>11
  <2>13. QED
    BY <2>12
<1>3. n \in 0..n
  OBVIOUS
<1> HIDE DEF T
<1>4. n \in T
  BY <1>1, <1>2, <1>3, UpTo
<1>5. QED
  BY <1>4 DEF T, MadeBy

-----------------------------------------------------------------------------

(* Handlers, and what one action after the other makes of the status.       *)

LEMMA StoppedType ==
  ASSUME NEW st \in Status
  PROVE  Stopped(st) \in Status /\ Stopped(st).lsp = "stopped"
BY DEF Stopped, Status

LEMMA FailedType ==
  ASSUME NEW st \in Status, NEW m \in BOOLEAN
  PROVE  Failed(st, m) \in Status /\ Failed(st, m).lsp = "error"
BY DEF Failed, Status

LEMMA OnStoppedType ==
  ASSUME NEW st \in Status, NEW m \in BOOLEAN
  PROVE  OnStopped(st, m) \in Status /\ OnStopped(st, m).lsp # "running"
<1> DEFINE s == Stopped(st)
           counted == [s EXCEPT !.retryCount = @ + 1]
           again == [counted EXCEPT !.lsp = "starting", !.timers = @ + 1]
<1>1. s \in Status
  BY StoppedType
<1> HIDE DEF s
<1>2. counted \in Status
  BY <1>1 DEF Status
<1> HIDE DEF counted
<1>3. again \in Status /\ again.lsp = "starting"
  <2>1. DOMAIN counted = {"lsp", "mcp", "error", "retryCount", "timers"} /\ counted.timers + 1 \in Nat
    BY <1>2 DEF Status
  <2>2. again = [[counted EXCEPT !.lsp = "starting"] EXCEPT !.timers = counted.timers + 1]
    BY <2>1
  <2>3. [counted EXCEPT !.lsp = "starting"] \in Status
    BY <1>2 DEF Status
  <2>4. \A x \in Status, k \in Nat : [x EXCEPT !.timers = k] \in Status /\ [x EXCEPT !.timers = k].lsp = x.lsp
    BY DEF Status
  <2>5. [counted EXCEPT !.lsp = "starting"].lsp = "starting"
    BY <2>1
  <2> QED
    BY <2>1, <2>2, <2>3, <2>4, <2>5
<1>4. Failed(counted, m) \in Status /\ Failed(counted, m).lsp = "error"
  BY <1>2, FailedType
<1>5. OnStopped(st, m) = IF counted.retryCount <= MAX_RETRIES THEN again ELSE Failed(counted, m)
  BY DEF OnStopped, counted, s
<1> HIDE DEF again
<1> QED
  BY <1>3, <1>4, <1>5

\* Handlers leave a status, and with any of them the panel says that the server does not run.
LEMMA AfterStopType ==
  ASSUME PanelTypes, NEW st \in Status, NEW i \in DOMAIN servers
  PROVE  /\ AfterStop(st, i) \in Status
         /\ servers[i].handlers # <<>> => AfterStop(st, i).lsp # "running"
<1> DEFINE hs == servers[i].handlers
           n == Len(hs)
           g == [k \in 1..n |-> [s \in Status |-> OnStopped(s, hs[k])]]
           told[k \in 0..n] == IF k = 0 THEN st ELSE OnStopped(told[k - 1], hs[k])
<1>0. hs \in Seq(BOOLEAN)
  <2>1. servers[i] \in Server
    BY DEF PanelTypes
  <2> QED
    BY <2>1 DEF Server
<1>1. n \in Nat /\ \A k \in 1..n : hs[k] \in BOOLEAN
  <2> HIDE DEF hs
  <2> QED
    BY <1>0, ElementOfSeq, LenProperties
<1>2. g \in Steps(n, Status)
  BY <1>1, OnStoppedType DEF Steps
<1>3. \A s \in Status, k \in 1..n : g[k][s] = OnStopped(s, hs[k])
  OBVIOUS
<1>4. AfterStop(st, i) = told[n]
  BY DEF AfterStop
<1> HIDE DEF g, n
<1>5. PICK f : f \in MadeBy(n, Status, st, g)
  BY <1>1, <1>2, Recursion
<1>6. ASSUME NEW k \in 1..n PROVE f[k] = OnStopped(f[k - 1], hs[k])
  <2>1. f[k - 1] \in Status
    BY <1>1, <1>5 DEF MadeBy
  <2> QED
    BY <1>3, <1>5, <2>1 DEF MadeBy
<1>7. f = [k \in 0..n |-> IF k = 0 THEN st ELSE OnStopped(f[k - 1], hs[k])]
  BY <1>5, <1>6 DEF MadeBy
<1>8. told = [k \in 0..n |-> IF k = 0 THEN st ELSE OnStopped(told[k - 1], hs[k])]
  BY <1>7
<1> HIDE DEF told
<1>9. told[0] = st /\ \A k \in 1..n : told[k] = OnStopped(told[k - 1], hs[k])
  BY <1>1, <1>8
<1> DEFINE T == {k \in 0..n : told[k] \in Status /\ (k # 0 => told[k].lsp # "running")}
<1>10. 0 \in T /\ \A k \in 1..n : k - 1 \in T => k \in T
  BY <1>1, <1>9, OnStoppedType
<1> HIDE DEF T
<1>11. n \in T
  BY <1>1, <1>10, UpTo
<1>12. hs # <<>> => n # 0
  <2> HIDE DEF hs
  <2> QED
    BY <1>0, EmptySeq DEF n
<1> QED
  BY <1>4, <1>11, <1>12 DEF T
-----------------------------------------------------------------------------
(* The tree, for whatever is discovered.                                    *)

\* One of some bases is the last of them.
LEMMA LastOfIs ==
  ASSUME NEW found \in Trees, NEW S \in SUBSET Range(found.bases), S # {}
  PROVE  LastOf(found, S) \in S
<1> DEFINE T == {i \in DOMAIN found.bases : found.bases[i] \in S}
<1>1. found.bases \in Seq(DOMAIN BaseName)
  <2>1. found.bases = <<>> \/ \E s \in Settings : found.bases = s.bases
    BY DEF Trees
  <2>2. \A s \in Settings : s.bases \in Seq(DOMAIN BaseName)
    BY ExtensionAssumption DEF ExtensionAssumption
  <2> QED
    BY <2>1, <2>2, EmptySeq
<1>2. DOMAIN found.bases = 1..Len(found.bases) /\ Len(found.bases) \in Nat
  BY <1>1, LenProperties
<1>3. T \in SUBSET Nat /\ T # {} /\ \A i \in T : i <= Len(found.bases)
  BY <1>2 DEF Range
<1> HIDE DEF T
<1>4. PICK i \in T : \A j \in T : j <= i
  BY <1>2, <1>3, GreatestExists
<1>5. \E b \in S : \E n \in DOMAIN found.bases :
        found.bases[n] = b /\ \A j \in DOMAIN found.bases : found.bases[j] \in S => j <= n
  BY <1>4 DEF T
<1> QED
  BY <1>5 DEF LastOf

\* What is in the tree was discovered; all of it, while no two bases have the same last part.
LEMMA TreeReaches ==
  FilesAreReachable
<1> SUFFICES ASSUME NEW found \in Trees
             PROVE  /\ getChildren(found) \subseteq Discovered(found)
                    /\ (\A b, c \in Range(found.bases) : BaseName[b] = BaseName[c] => b = c)
                         => getChildren(found) = Discovered(found)
  BY DEF FilesAreReachable
<1> DEFINE Named(b) == {c \in Entries(found) : BaseName[c] = BaseName[b]}
           Holders(b, k) == {c \in Entries(found) : BaseName[c] = BaseName[b] /\ k \in Sections(found, c)}
           shown == {BaseOf(found, BaseName[b]) : b \in Entries(found)}
<1>1. Entries(found) \subseteq Range(found.bases)
  BY DEF Entries
<1>2. ASSUME NEW b \in Entries(found) PROVE BaseOf(found, BaseName[b]) \in Named(b)
  <2>1. Named(b) \in SUBSET Range(found.bases) /\ Named(b) # {}
    BY <1>1
  <2> QED
    BY <2>1, LastOfIs DEF BaseOf
<1>3. ASSUME NEW b \in Entries(found), NEW k \in Sections(found, b)
      PROVE  SectionOf(found, BaseName[b], k) \in Holders(b, k)
  <2>1. Holders(b, k) \in SUBSET Range(found.bases) /\ Holders(b, k) # {}
    BY <1>1
  <2> QED
    BY <2>1, LastOfIs DEF SectionOf
<1>4. shown \subseteq Entries(found)
  BY <1>2
<1>5. getChildren(found) =
        UNION {UNION {SectionFiles(found, SectionOf(found, BaseName[b], k), k) : k \in Sections(found, b)} : b \in shown}
  BY DEF getChildren
<1>6. getChildren(found) \subseteq Discovered(found)
  <2> SUFFICES ASSUME NEW b \in shown, NEW k \in Sections(found, b)
               PROVE  SectionFiles(found, SectionOf(found, BaseName[b], k), k) \subseteq Discovered(found)
    BY <1>5
  <2>1. SectionOf(found, BaseName[b], k) \in Holders(b, k)
    BY <1>3, <1>4
  <2> QED
    BY <1>1, <2>1 DEF Discovered
<1>7. ASSUME \A b, c \in Range(found.bases) : BaseName[b] = BaseName[c] => b = c
      PROVE  Discovered(found) \subseteq getChildren(found)
  <2>1. ASSUME NEW b \in Entries(found) PROVE b \in shown
    BY <1>1, <1>2, <1>7, <2>1
  <2>2. ASSUME NEW b \in Entries(found), NEW k \in Sections(found, b)
        PROVE  SectionOf(found, BaseName[b], k) = b
    BY <1>1, <1>3, <1>7, <2>2
  <2>3. SUFFICES ASSUME NEW b \in Range(found.bases), NEW k \in Sections(found, b)
                 PROVE  SectionFiles(found, b, k) \subseteq getChildren(found)
    BY DEF Discovered
  <2>4. b \in Entries(found)
    BY <2>3 DEF Entries
  <2> QED
    BY <1>5, <2>1, <2>2, <2>4
<1> QED
  BY <1>6, <1>7
-----------------------------------------------------------------------------
(* What the panel does, which leaves the servers alone.                     *)

LEMMA Discovers ==
  ASSUME PanelTypes
  PROVE  _discoverFiles \in Trees
<1>1. files = Files \ (Files \ files) /\ Files \ files \in SUBSET Changing
  BY DEF PanelTypes
<1>2. settings.bases \in {s.bases : s \in Settings}
  BY DEF PanelTypes
<1> QED
  BY <1>1, <1>2 DEF _discoverFiles, Trees

\* Where neither servers nor what is said of them change, what is said of them stays true.
LEMMA Framed ==
  ASSUME PanelInv, UNCHANGED <<cli, servers, client, stopping, overlapped>>, status'.lsp = status.lsp
  PROVE  CliInv' /\ StoppingInv' /\ AliveInv' /\ HandledInv' /\ RunningInv'
<1>1. Alive' = Alive
  BY DEF Alive
<1> QED
  BY <1>1 DEF PanelInv, CliInv, StoppingInv, AliveInv, HandledInv, RunningInv

\* A status of which the panel says something else of the endpoint or the error.
LEMMA StatusWith ==
  ASSUME PanelTypes
  PROVE  /\ status.mcp \in {"disabled", "starting", "running", "stopped", "error"}
         /\ \A m \in {"disabled", "starting", "running", "stopped", "error"} :
              [status EXCEPT !.mcp = m] \in Status /\ [status EXCEPT !.mcp = m].lsp = status.lsp
         /\ [status EXCEPT !.error = FALSE] \in Status /\ [status EXCEPT !.error = FALSE].lsp = status.lsp
         /\ [status EXCEPT !.retryCount = 0] \in Status /\ [status EXCEPT !.retryCount = 0].lsp = status.lsp
BY DEF PanelTypes, Status

LEMMA InfoKeeps ==
  ASSUME PanelInv, NEW i \in DOMAIN servers, updateWorkspaceInfo(i)
  PROVE  PanelInv'
<1>1. PanelTypes
  BY DEF PanelInv
<1>2. /\ status' = [status EXCEPT !.error = FALSE] /\ tree' = _discoverFiles
      /\ UNCHANGED <<settings, files, cli, refreshDue, servers, client, stopping, overlapped, output, calls>>
  BY DEF updateWorkspaceInfo, workspace, lifecycle, tools
<1>3. PanelTypes'
  BY <1>1, <1>2, StatusWith, Discovers DEF PanelTypes
<1>4. CliInv' /\ StoppingInv' /\ AliveInv' /\ HandledInv' /\ RunningInv'
  BY <1>1, <1>2, StatusWith, Framed
<1>5. RunningIsCalled'
  BY <1>2 DEF PanelInv, RunningIsCalled
<1> QED
  BY <1>3, <1>4, <1>5 DEF PanelInv

LEMMA ChangeFilesKeeps ==
  ASSUME PanelInv, ChangeFiles
  PROVE  PanelInv'
<1>1. PanelTypes
  BY DEF PanelInv
<1>2. /\ \E f \in Changing : files' = IF f \in files THEN files \ {f} ELSE files \union {f}
      /\ refreshDue' \in BOOLEAN
      /\ UNCHANGED <<settings, cli, tree, status, servers, client, stopping, overlapped, output, calls>>
  BY <1>1 DEF ChangeFiles, lifecycle, tools, PanelTypes
<1>3. files' \subseteq Files /\ Files \ files' \subseteq Changing
  BY <1>1, <1>2, ExtensionAssumption DEF PanelTypes, ExtensionAssumption
<1>4. PanelTypes'
  BY <1>1, <1>2, <1>3 DEF PanelTypes
<1>5. CliInv' /\ StoppingInv' /\ AliveInv' /\ HandledInv' /\ RunningInv'
  BY <1>2, Framed
<1>6. RunningIsCalled'
  BY <1>2 DEF PanelInv, RunningIsCalled
<1> QED
  BY <1>4, <1>5, <1>6 DEF PanelInv

LEMMA RefreshKeeps ==
  ASSUME PanelInv, refresh
  PROVE  PanelInv'
<1>1. PanelTypes
  BY DEF PanelInv
<1>2. /\ refreshDue' = FALSE /\ tree' = _discoverFiles
      /\ UNCHANGED <<settings, files, cli, status, servers, client, stopping, overlapped, output, calls>>
  BY DEF refresh, workspace, lifecycle, tools
<1>3. PanelTypes'
  BY <1>1, <1>2, Discovers DEF PanelTypes
<1>4. CliInv' /\ StoppingInv' /\ AliveInv' /\ HandledInv' /\ RunningInv'
  BY <1>2, Framed
<1>5. RunningIsCalled'
  BY <1>2 DEF PanelInv, RunningIsCalled
<1> QED
  BY <1>3, <1>4, <1>5 DEF PanelInv

LEMMA CheckKeeps ==
  ASSUME PanelInv, checkMcpHealth \/ \E token \in checks : HealthAnswered(token)
  PROVE  PanelInv'
<1>1. PanelTypes
  BY DEF PanelInv
<1>2. /\ UNCHANGED <<settings, files, cli, tree, refreshDue, servers, client, stopping, overlapped, output, calls>>
      /\ \/ UNCHANGED status
         \/ \E m \in {"disabled", "starting", "running", "stopped", "error"} : status' = [status EXCEPT !.mcp = m]
  <2>1. CASE checkMcpHealth
    BY <2>1 DEF checkMcpHealth, workspace, lifecycle, tools
  <2>2. ASSUME NEW token \in checks, HealthAnswered(token)
        PROVE  /\ UNCHANGED <<settings, files, cli, tree, refreshDue, servers, client, stopping, overlapped, output, calls>>
               /\ \E m \in {"disabled", "starting", "running", "stopped", "error"} : status' = [status EXCEPT !.mcp = m]
    <3>1. Health(token) \in {"disabled", "starting", "running", "stopped", "error"}
      BY <1>1, StatusWith DEF Health
    <3> QED
      BY <2>2, <3>1 DEF HealthAnswered, workspace, lifecycle, tools
  <2> QED
    BY <2>1, <2>2
<1>3. status' \in Status /\ status'.lsp = status.lsp
  BY <1>1, <1>2, StatusWith DEF PanelTypes
<1>4. PanelTypes'
  BY <1>1, <1>2, <1>3 DEF PanelTypes
<1>5. CliInv' /\ StoppingInv' /\ AliveInv' /\ HandledInv' /\ RunningInv'
  BY <1>2, <1>3, Framed
<1>6. RunningIsCalled'
  BY <1>2 DEF PanelInv, RunningIsCalled
<1> QED
  BY <1>4, <1>5, <1>6 DEF PanelInv

\* A tool is shown as running when its request begins, and as something else when one ends.
LEMMA ToolKeeps ==
  ASSUME PanelInv, NEW t \in Tools, executeMcpTool(t) \/ ParametersGiven(t) \/ setToolOutput(t)
  PROVE  PanelInv'
<1>1. PanelTypes /\ RunningIsCalled
  BY DEF PanelInv
<1>2. UNCHANGED <<settings, files, cli, tree, refreshDue, servers, client, stopping, overlapped, status>>
  BY DEF executeMcpTool, ParametersGiven, setToolOutput, workspace, lifecycle
<1>3. DOMAIN output = Tools /\ calls \in [Tools -> Nat]
  BY <1>1 DEF PanelTypes
<1>4. \/ UNCHANGED <<output, calls>>
      \/ output' = [output EXCEPT ![t] = "error"] /\ UNCHANGED calls
      \/ output' = [output EXCEPT ![t] = "running"] /\ calls' = [calls EXCEPT ![t] = @ + 1]
      \/ /\ calls[t] > 0 /\ calls' = [calls EXCEPT ![t] = @ - 1]
         /\ \E shown \in {"output", "error"} : output' = [output EXCEPT ![t] = shown]
  BY DEF executeMcpTool, ParametersGiven, setToolOutput, Calls
<1>5. DOMAIN output' = Tools /\ calls' \in [Tools -> Nat] /\ RunningIsCalled'
  BY <1>1, <1>3, <1>4 DEF RunningIsCalled
<1>6. PanelTypes'
  BY <1>1, <1>2, <1>5 DEF PanelTypes
<1>7. CliInv' /\ StoppingInv' /\ AliveInv' /\ HandledInv' /\ RunningInv'
  BY <1>2, Framed
<1> QED
  BY <1>5, <1>6, <1>7 DEF PanelInv
-----------------------------------------------------------------------------
(* Starting and stopping.                                                   *)

Server0 == [state |-> "starting", mcp |-> settings'.mcpEnabled, token |-> settings'.token, handlers |-> <<>>]

\* One server's state is set.
LEMMA StateSet ==
  ASSUME servers \in Seq(Server), NEW i \in DOMAIN servers, NEW s \in ServerStates
  PROVE  /\ [servers EXCEPT ![i].state = s] \in Seq(Server)
         /\ Len([servers EXCEPT ![i].state = s]) = Len(servers) /\ Len(servers) \in Nat
         /\ DOMAIN [servers EXCEPT ![i].state = s] = DOMAIN servers /\ DOMAIN servers = 1..Len(servers)
         /\ \A j \in DOMAIN servers :
              /\ [servers EXCEPT ![i].state = s][j].state = IF j = i THEN s ELSE servers[j].state
              /\ [servers EXCEPT ![i].state = s][j].handlers = servers[j].handlers
<1> DEFINE t == [servers EXCEPT ![i].state = s]
<1>1. DOMAIN servers = 1..Len(servers) /\ Len(servers) \in Nat /\ \A j \in DOMAIN servers : servers[j] \in Server
  BY LenProperties, ElementOfSeq
<1>2. \A j \in DOMAIN servers : /\ t[j] = IF j = i THEN [servers[i] EXCEPT !.state = s] ELSE servers[j]
                                /\ DOMAIN t = DOMAIN servers
  OBVIOUS
<1>3. [servers[i] EXCEPT !.state = s] \in Server /\ [servers[i] EXCEPT !.state = s].state = s
      /\ [servers[i] EXCEPT !.state = s].handlers = servers[i].handlers
  BY <1>1 DEF Server
<1> HIDE DEF t
<1>4. t = [j \in 1..Len(servers) |-> t[j]]
  <2>1. t = [j \in DOMAIN servers |-> IF j = i THEN [servers[i] EXCEPT !.state = s] ELSE servers[j]]
    BY DEF t
  <2> QED
    BY <1>1, <2>1
<1>5. t \in Seq(Server)
  BY <1>1, <1>2, <1>3, <1>4, IsASeq
<1>6. Len(t) = Len(servers)
  BY <1>1, <1>4, <1>5, LenProperties
<1> QED
  BY <1>1, <1>2, <1>3, <1>5, <1>6 DEF t

\* What startClient does: without a CLI nothing; with one there is a new client, which starts.
LEMMA ClientStarts ==
  ASSUME NEW all \in Seq(Server), NEW st \in Status, settings' \in Settings, startClient(all, st)
  PROVE  /\ status' \in Status
         /\ ~cli => servers' = all /\ client' = client /\ status'.lsp = "error"
         /\ cli => /\ status'.lsp = "starting" /\ client' = Len(all) + 1
                   /\ servers' \in Seq(Server) /\ Len(servers') = Len(all) + 1
                   /\ DOMAIN servers' = DOMAIN all \union {Len(all) + 1} /\ Len(all) + 1 \notin DOMAIN all
                   /\ servers'[Len(all) + 1].state = "starting"
                   /\ \A i \in DOMAIN all : servers'[i] = all[i]
<1>1. ASSUME ~cli
      PROVE  status' \in Status /\ servers' = all /\ client' = client /\ status'.lsp = "error"
  <2>1. status' = [st EXCEPT !.lsp = "error", !.error = TRUE] /\ servers' = all /\ client' = client
    BY <1>1 DEF startClient
  <2> QED
    BY <2>1 DEF Status
<1>2. ASSUME cli
      PROVE  /\ status' \in Status /\ status'.lsp = "starting" /\ client' = Len(all) + 1
             /\ servers' = Append(all, Server0)
  <2>1. \E m \in {"disabled", "starting", "error"} : status' = [st EXCEPT !.lsp = "starting", !.mcp = m]
    BY <1>2 DEF startClient
  <2> QED
    BY <1>2, <2>1 DEF startClient, Status, Server0
<1>3. Server0 \in Server /\ Server0.state = "starting"
  <2>1. settings'.mcpEnabled \in BOOLEAN /\ settings'.token \in {s.token : s \in Settings}
    BY ExtensionAssumption DEF ExtensionAssumption
  <2> QED
    BY <2>1 DEF Server0, Server, ServerStates
<1>4. ASSUME cli
      PROVE  /\ servers' \in Seq(Server) /\ Len(servers') = Len(all) + 1
             /\ DOMAIN servers' = DOMAIN all \union {Len(all) + 1} /\ Len(all) + 1 \notin DOMAIN all
             /\ servers'[Len(all) + 1].state = "starting"
             /\ \A i \in DOMAIN all : servers'[i] = all[i]
  <2> HIDE DEF Server0
  <2> QED
    BY <1>2, <1>3, <1>4
<1> QED
  BY <1>1, <1>2, <1>4

\* The tree is what is discovered now, or was.
LEMMA TreeStays ==
  ASSUME PanelTypes, settings' \in Settings, files' = files, TreeFollows \/ UNCHANGED tree
  PROVE  tree' \in Trees
<1>1. files' = Files \ (Files \ files') /\ Files \ files' \in SUBSET Changing
  BY DEF PanelTypes
<1>2. settings'.bases \in {s.bases : s \in Settings}
  OBVIOUS
<1>3. [bases |-> settings'.bases, files |-> files'] \in Trees
  BY <1>1, <1>2 DEF Trees
<1> QED
  BY <1>3 DEF TreeFollows, _discoverFiles, PanelTypes

\* A restart stops the client or, if there is nothing to stop, starts another.
LEMMA RestartKeeps ==
  ASSUME PanelInv, Restart, UNCHANGED <<files, cli, output, calls>>, settings' \in Settings, refreshDue' \in BOOLEAN
  PROVE  PanelInv'
<1>1. PanelTypes /\ CliInv /\ StoppingInv /\ AliveInv /\ HandledInv /\ RunningInv /\ RunningIsCalled
  BY DEF PanelInv
<1>2. servers \in Seq(Server) /\ DOMAIN servers = 1..Len(servers) /\ Len(servers) \in Nat /\ status \in Status
  BY <1>1, LenProperties DEF PanelTypes
<1>3. RunningIsCalled'
  BY <1>1 DEF RunningIsCalled
<1>4. [status EXCEPT !.retryCount = 0] \in Status /\ [status EXCEPT !.retryCount = 0].lsp = status.lsp
  BY <1>1, StatusWith
<1>5. overlapped' = (overlapped \/ stopping # {} \/ Began(client)) /\ overlapped' \in BOOLEAN
  BY <1>1 DEF Restart, PanelTypes
<1>6. CASE client # 0 /\ AwaitsStop(client)
  <2> DEFINE t == [servers EXCEPT ![client].state = "stopping"]
  <2>1. /\ servers' = t /\ stopping' = stopping \union {client} /\ client' = 0
        /\ status' = [status EXCEPT !.retryCount = 0] /\ UNCHANGED tree
    BY <1>6 DEF Restart
  <2>2. client \in DOMAIN servers /\ servers[client].state = "running"
    BY <1>1, <1>2, <1>6 DEF AwaitsStop, PanelTypes
  <2>3. /\ t \in Seq(Server) /\ Len(t) = Len(servers) /\ DOMAIN t = DOMAIN servers
        /\ \A j \in DOMAIN servers : /\ t[j].state = IF j = client THEN "stopping" ELSE servers[j].state
                                     /\ t[j].handlers = servers[j].handlers
    BY <1>2, <2>2, StateSet DEF ServerStates
  <2> HIDE DEF t
  <2>4. PanelTypes'
    BY <1>1, <1>2, <1>4, <1>5, <2>1, <2>2, <2>3 DEF PanelTypes
  <2>5. CliInv' /\ StoppingInv'
    BY <1>1, <2>1, <2>2, <2>3 DEF CliInv, StoppingInv
  <2>6. AliveInv'
    <3>1. ASSUME ~overlapped' PROVE Alive' \subseteq {client} /\ stopping = {}
      <4>1. ~overlapped /\ stopping = {}
        BY <1>5, <3>1
      <4>2. Alive \subseteq {client}
        BY <1>1, <4>1 DEF AliveInv
      <4>3. Alive' = Alive
        BY <2>1, <2>2, <2>3 DEF Alive
      <4> QED
        BY <4>1, <4>2, <4>3
    <3>2. ~overlapped' => stopping' = {client} /\ client' = 0 /\ client \in DOMAIN servers'
      BY <2>1, <2>2, <2>3, <3>1
    <3> QED
      BY <3>1, <3>2 DEF AliveInv
  <2>7. HandledInv'
    <3>1. ASSUME ~overlapped', NEW j \in DOMAIN servers, t[j].state \in {"running", "again", "stopping"} \/ j = 0
          PROVE  t[j].handlers # <<>>
      <4>1. ~overlapped /\ j # 0
        <5>1. overlapped \in BOOLEAN
          BY <1>1 DEF PanelTypes
        <5>2. ~overlapped
          BY <1>5, <3>1, <5>1, Zenon
        <5>3. j # 0
          BY <1>2
        <5> QED
          BY <5>2, <5>3
      <4>2. servers[j].state \in {"running", "again", "stopping"} => servers[j].handlers # <<>>
        BY <1>1, <4>1 DEF HandledInv
      <4> QED
        BY <2>2, <2>3, <3>1, <4>1, <4>2
    <3> QED
      BY <2>1, <2>3, <3>1 DEF HandledInv
  <2>8. RunningInv'
    BY <2>1, <2>2, <2>3 DEF RunningInv, Alive
  <2> QED
    BY <1>3, <2>4, <2>5, <2>6, <2>7, <2>8 DEF PanelInv
<1>7. CASE ~(client # 0 /\ AwaitsStop(client))
  <2>1. startClient(servers, [status EXCEPT !.retryCount = 0]) /\ TreeFollows /\ UNCHANGED stopping
    BY <1>7 DEF Restart
  <2>2. /\ status' \in Status
        /\ ~cli => servers' = servers /\ client' = client /\ status'.lsp = "error"
        /\ cli => /\ status'.lsp = "starting" /\ client' = Len(servers) + 1
                  /\ servers' \in Seq(Server) /\ Len(servers') = Len(servers) + 1
                  /\ DOMAIN servers' = DOMAIN servers \union {Len(servers) + 1} /\ Len(servers) + 1 \notin DOMAIN servers
                  /\ servers'[Len(servers) + 1].state = "starting"
                  /\ \A i \in DOMAIN servers : servers'[i] = servers[i]
    BY <1>2, <1>4, <2>1, ClientStarts
  <2>3. tree' \in Trees
    BY <1>1, <2>1, TreeStays
  <2>4. PanelTypes'
    BY <1>1, <1>2, <1>5, <2>1, <2>2, <2>3 DEF PanelTypes
  <2>5. CliInv'
    BY <1>1, <2>2 DEF CliInv
  <2>6. StoppingInv'
    BY <1>1, <2>1, <2>2 DEF StoppingInv, PanelTypes
  <2>7. ASSUME ~overlapped', NEW i \in DOMAIN servers, i \in Alive PROVE FALSE
    <3>1. ~overlapped /\ stopping = {} /\ ~Began(client)
      BY <1>5, <2>7
    <3>2. i = client /\ i # 0
      BY <1>1, <1>2, <2>7, <3>1 DEF AliveInv
    <3>3. servers[i].state # "stopping"
      BY <1>1, <3>1 DEF StoppingInv
    <3> QED
      BY <1>7, <2>7, <3>1, <3>2, <3>3 DEF Alive, Began, AwaitsStop
  <2>8. AliveInv'
    BY <1>1, <1>2, <1>5, <2>1, <2>2, <2>7 DEF AliveInv, Alive, CliInv
  <2>9. HandledInv'
    BY <1>1, <1>2, <1>5, <2>1, <2>2, <2>7 DEF HandledInv, Alive, CliInv
  <2>10. RunningInv'
    BY <2>2 DEF RunningInv
  <2> QED
    BY <1>3, <2>4, <2>5, <2>6, <2>8, <2>9, <2>10 DEF PanelInv
<1> QED
  BY <1>6, <1>7

LEMMA StopDoneKeeps ==
  ASSUME PanelInv, NEW i \in DOMAIN servers, StopDone(i)
  PROVE  PanelInv'
<1>1. PanelTypes /\ CliInv /\ StoppingInv /\ AliveInv /\ HandledInv /\ RunningInv /\ RunningIsCalled
  BY DEF PanelInv
<1> DEFINE t == [servers EXCEPT ![i].state = "stopped"]
           st == Stopped(AfterStop(status, i))
<1>2. /\ i \in stopping /\ stopping' = stopping \ {i} /\ startClient(t, st) /\ TreeFollows
      /\ UNCHANGED <<settings, files, cli, refreshDue, overlapped, output, calls>>
  BY DEF StopDone, workspace, tools
<1>3. st \in Status
  BY <1>1, AfterStopType, StoppedType DEF PanelTypes
<1>4. /\ t \in Seq(Server) /\ Len(t) = Len(servers) /\ DOMAIN t = DOMAIN servers
      /\ DOMAIN servers = 1..Len(servers) /\ Len(servers) \in Nat
      /\ \A j \in DOMAIN servers : /\ t[j].state = IF j = i THEN "stopped" ELSE servers[j].state
                                   /\ t[j].handlers = servers[j].handlers
  BY <1>1, StateSet DEF PanelTypes, ServerStates
<1>5. cli
  BY <1>1 DEF CliInv
<1> HIDE DEF t, st
<1>6. /\ status' \in Status
      /\ status'.lsp = "starting" /\ client' = Len(servers) + 1
      /\ servers' \in Seq(Server) /\ Len(servers') = Len(servers) + 1
      /\ DOMAIN servers' = DOMAIN servers \union {Len(servers) + 1} /\ Len(servers) + 1 \notin DOMAIN servers
      /\ servers'[Len(servers) + 1].state = "starting"
      /\ \A j \in DOMAIN servers : servers'[j] = t[j]
  <2>1. settings' \in Settings
    BY <1>1, <1>2 DEF PanelTypes
  <2>2. /\ status' \in Status /\ status'.lsp = "starting" /\ client' = Len(t) + 1
        /\ servers' \in Seq(Server) /\ Len(servers') = Len(t) + 1
        /\ DOMAIN servers' = DOMAIN t \union {Len(t) + 1} /\ Len(t) + 1 \notin DOMAIN t
        /\ servers'[Len(t) + 1].state = "starting"
        /\ \A j \in DOMAIN t : servers'[j] = t[j]
    BY <1>2, <1>3, <1>4, <1>5, <2>1, ClientStarts
  <2> QED
    BY <1>4, <2>2
<1>7. tree' \in Trees
  BY <1>1, <1>2, TreeStays DEF PanelTypes
<1>8. PanelTypes'
  BY <1>1, <1>2, <1>4, <1>6, <1>7 DEF PanelTypes
<1>9. CliInv'
  BY <1>2, <1>5 DEF CliInv
<1>10. StoppingInv'
  BY <1>1, <1>2, <1>4, <1>6 DEF StoppingInv, PanelTypes
<1>11. AliveInv'
  BY <1>1, <1>2, <1>4, <1>6 DEF AliveInv, Alive
<1>12. HandledInv'
  BY <1>1, <1>2, <1>4, <1>6 DEF HandledInv
<1>13. RunningInv'
  BY <1>6 DEF RunningInv
<1>14. RunningIsCalled'
  BY <1>1, <1>2 DEF RunningIsCalled
<1> QED
  BY <1>8, <1>9, <1>10, <1>11, <1>12, <1>13, <1>14 DEF PanelInv

\* client.start has resolved.
LEMMA StartDoneKeeps ==
  ASSUME PanelInv, NEW i \in DOMAIN servers, StartDone(i)
  PROVE  PanelInv'
<1>1. PanelTypes /\ CliInv /\ StoppingInv /\ AliveInv /\ HandledInv /\ RunningInv /\ RunningIsCalled
  BY DEF PanelInv
<1> DEFINE m == servers[i].mcp
           t == [servers EXCEPT ![i].state = "running"]
           ready == [status EXCEPT !.lsp = "running", !.mcp = IF m THEN "running" ELSE @,
                                   !.retryCount = 0, !.error = FALSE]
<1>2. /\ servers[i].state = "starting"
      /\ client = 0 => status' = Failed(ready, m) /\ servers' = t
      /\ client # 0 => status' = ready /\ servers' = [t EXCEPT ![client].handlers = Append(@, m)]
      /\ UNCHANGED <<settings, files, cli, tree, refreshDue, client, stopping, overlapped, output, calls>>
  BY DEF StartDone, workspace, tools
<1>3. /\ t \in Seq(Server) /\ Len(t) = Len(servers) /\ DOMAIN t = DOMAIN servers
      /\ DOMAIN servers = 1..Len(servers) /\ Len(servers) \in Nat
      /\ \A j \in DOMAIN servers : /\ t[j].state = IF j = i THEN "running" ELSE servers[j].state
                                   /\ t[j].handlers = servers[j].handlers
  BY <1>1, StateSet DEF PanelTypes, ServerStates
<1>4. m \in BOOLEAN
  <2>1. servers[i] \in Server
    BY <1>1 DEF PanelTypes
  <2> QED
    BY <2>1 DEF Server
<1>5. ready \in Status
  <2>1. status \in Status
    BY <1>1 DEF PanelTypes
  <2> QED
    BY <1>4, <2>1 DEF Status
<1> HIDE DEF t, m, ready
<1>6. /\ servers' \in Seq(Server) /\ Len(servers') = Len(servers) /\ DOMAIN servers' = DOMAIN servers
      /\ \A j \in DOMAIN servers : /\ servers'[j].state = IF j = i THEN "running" ELSE servers[j].state
                                   /\ j # client => servers'[j].handlers = servers[j].handlers
      /\ client # 0 => servers'[client].handlers # <<>>
  <2>1. CASE client = 0
    BY <1>2, <1>3, <2>1
  <2>2. CASE client # 0
    <3>1. client \in DOMAIN t
      BY <1>1, <1>3, <2>2 DEF PanelTypes
    <3>2. servers' = [t EXCEPT ![client].handlers = Append(t[client].handlers, m)]
      BY <1>2, <2>2, <3>1
    <3>3. t[client] \in Server /\ t[client].handlers \in Seq(BOOLEAN)
      <4>1. t[client] \in Server
        BY <1>3, <3>1
      <4> QED
        BY <4>1 DEF Server
    <3> DEFINE h == Append(t[client].handlers, m)
               c == [t[client] EXCEPT !.handlers = h]
    <3>4. h \in Seq(BOOLEAN) /\ h # <<>>
      BY <1>4, <3>3, AppendProperties, EmptySeq
    <3> HIDE DEF h
    <3>5. c \in Server /\ c.handlers = h /\ c.state = t[client].state
      BY <3>3, <3>4 DEF Server
    <3>6. servers' = [t EXCEPT ![client] = c]
      BY <3>2 DEF h
    <3> HIDE DEF c
    <3>7. servers' \in Seq(Server) /\ Len(servers') = Len(t)
      BY <1>3, <3>1, <3>5, <3>6, ExceptSeq
    <3>8. DOMAIN servers' = DOMAIN t /\ \A j \in DOMAIN t : servers'[j] = IF j = client THEN c ELSE t[j]
      BY <3>1, <3>6
    <3> QED
      BY <1>3, <2>2, <3>1, <3>4, <3>5, <3>7, <3>8
  <2> QED
    BY <2>1, <2>2
<1>7. status' \in Status
  BY <1>2, <1>4, <1>5, FailedType
<1>8. PanelTypes'
  BY <1>1, <1>2, <1>6, <1>7 DEF PanelTypes
<1>9. CliInv' /\ StoppingInv'
  BY <1>1, <1>2, <1>6 DEF CliInv, StoppingInv
<1>10. Alive' = Alive
  BY <1>2, <1>6 DEF Alive
<1>11. AliveInv'
  BY <1>1, <1>2, <1>6, <1>10 DEF AliveInv
<1>12. ~overlapped => i = client /\ client # 0
  <2>1. i \in Alive /\ i \notin stopping
    BY <1>1, <1>2 DEF Alive, StoppingInv
  <2> QED
    BY <1>1, <1>3, <2>1 DEF AliveInv
<1>13. HandledInv'
  <2>1. ASSUME ~overlapped, NEW j \in DOMAIN servers,
               servers'[j].state \in {"running", "again", "stopping"} \/ (j = client /\ servers'[j].state = "stopped")
        PROVE  servers'[j].handlers # <<>>
    <3>1. CASE j = client
      BY <1>3, <1>6, <3>1
    <3>2. CASE j # client
      <4>1. servers[j].state \in {"running", "again", "stopping"}
        BY <1>6, <1>12, <2>1, <3>2
      <4> QED
        BY <1>1, <1>6, <2>1, <3>2, <4>1 DEF HandledInv
    <3> QED
      BY <3>1, <3>2
  <2> QED
    BY <1>2, <1>6, <2>1 DEF HandledInv
<1>14. RunningInv'
  <2>1. i \in Alive' /\ servers'[i].state = "running"
    BY <1>6 DEF Alive
  <2> QED
    BY <2>1 DEF RunningInv
<1>15. RunningIsCalled'
  BY <1>1, <1>2 DEF RunningIsCalled
<1> QED
  BY <1>8, <1>9, <1>11, <1>13, <1>14, <1>15 DEF PanelInv

\* A start has failed or a server has died: the panel says so, or one more handler could not.
LEMMA EndsKeep ==
  ASSUME PanelInv, NEW i \in DOMAIN servers, StartFails(i) \/ Crash(i) \/ StartedAgain(i)
  PROVE  PanelInv'
<1>1. PanelTypes /\ CliInv /\ StoppingInv /\ AliveInv /\ HandledInv /\ RunningInv /\ RunningIsCalled
  BY DEF PanelInv
<1> DEFINE t(s) == [servers EXCEPT ![i].state = s]
<1>2. UNCHANGED <<settings, files, cli, tree, refreshDue, client, stopping, overlapped, output, calls>>
  BY DEF StartFails, Crash, StartedAgain, workspace, tools
<1>3. PICK s \in {"stopped", "again", "running", "failed"} :
        /\ servers' = t(s)
        /\ \/ servers[i].state = "starting" /\ s = "failed" /\ status' = Failed(AfterStop(status, i), servers[i].mcp)
           \/ servers[i].state = "running" /\ s \in {"stopped", "again"} /\ status' = AfterStop(status, i)
           \/ servers[i].state = "again" /\ s = "failed" /\ status' = AfterStop(status, i)
           \/ servers[i].state = "again" /\ s = "running" /\ status' = status
  <2>1. CASE StartFails(i)
    BY <2>1 DEF StartFails
  <2>2. CASE Crash(i)
    BY <2>2 DEF Crash
  <2>3. CASE StartedAgain(i)
    BY <2>3 DEF StartedAgain
  <2> QED
    BY <2>1, <2>2, <2>3
<1> DEFINE u == [servers EXCEPT ![i].state = s]
<1>4. /\ u \in Seq(Server) /\ Len(u) = Len(servers) /\ DOMAIN u = DOMAIN servers
      /\ DOMAIN servers = 1..Len(servers) /\ Len(servers) \in Nat
      /\ \A j \in DOMAIN servers : /\ u[j].state = IF j = i THEN s ELSE servers[j].state
                                   /\ u[j].handlers = servers[j].handlers
  <2>1. s \in ServerStates /\ servers \in Seq(Server)
    BY <1>1 DEF PanelTypes, ServerStates
  <2> QED
    BY <2>1, StateSet
<1>5. servers' = u
  BY <1>3
<1> HIDE DEF u, t
<1>6. status' \in Status /\ (status'.lsp = "running" => servers[i].handlers = <<>> \/ (s = "running" /\ status' = status))
  <2>1. status \in Status /\ servers[i].mcp \in BOOLEAN
    <3>1. servers[i] \in Server
      BY <1>1 DEF PanelTypes
    <3> QED
      BY <1>1, <3>1 DEF PanelTypes, Server
  <2>2. /\ AfterStop(status, i) \in Status
        /\ servers[i].handlers # <<>> => AfterStop(status, i).lsp # "running"
    BY <1>1, <2>1, AfterStopType
  <2>3. /\ Failed(AfterStop(status, i), servers[i].mcp) \in Status
        /\ Failed(AfterStop(status, i), servers[i].mcp).lsp = "error"
    BY <2>1, <2>2, FailedType
  <2> DEFINE after == AfterStop(status, i)
             broken == Failed(AfterStop(status, i), servers[i].mcp)
  <2>4. status' = broken \/ status' = after \/ (s = "running" /\ status' = status)
    BY <1>3
  <2>5. broken \in Status /\ broken.lsp = "error" /\ after \in Status
        /\ (servers[i].handlers # <<>> => after.lsp # "running")
    BY <2>2, <2>3
  <2> HIDE DEF after, broken
  <2>6. CASE status' = broken
    <3>1. status'.lsp = "error"
      BY <2>5, <2>6, Zenon
    <3>2. status' \in Status
      BY <2>5, <2>6
    <3> QED
      BY <3>1, <3>2
  <2>7. CASE status' = after
    BY <2>5, <2>7
  <2>8. CASE s = "running" /\ status' = status
    BY <2>1, <2>8
  <2> QED
    BY <2>4, <2>6, <2>7, <2>8
<1>7. PanelTypes'
  BY <1>1, <1>2, <1>4, <1>5, <1>6 DEF PanelTypes
<1>8. CliInv' /\ StoppingInv'
  BY <1>1, <1>2, <1>3, <1>4, <1>5 DEF CliInv, StoppingInv
<1>9. i \in Alive /\ Alive' \subseteq Alive
  BY <1>3, <1>4, <1>5 DEF Alive
<1>10. AliveInv'
  BY <1>1, <1>2, <1>4, <1>5, <1>9 DEF AliveInv
<1>11. ~overlapped => i = client
  <2>1. i \notin stopping
    BY <1>1, <1>3 DEF StoppingInv
  <2> QED
    BY <1>1, <1>9, <2>1 DEF AliveInv
<1>12. ~overlapped /\ servers[i].state \in {"running", "again"} => servers[i].handlers # <<>>
  BY <1>1 DEF HandledInv
<1>13. HandledInv'
  <2>1. ASSUME ~overlapped, NEW j \in DOMAIN servers,
               u[j].state \in {"running", "again", "stopping"} \/ (j = client /\ u[j].state = "stopped")
        PROVE  u[j].handlers # <<>>
    <3>1. CASE j = i
      BY <1>3, <1>4, <1>12, <2>1, <3>1
    <3>2. CASE j # i
      BY <1>1, <1>4, <2>1, <3>2 DEF HandledInv
    <3> QED
      BY <3>1, <3>2
  <2> QED
    BY <1>2, <1>4, <1>5, <2>1 DEF HandledInv
<1>14. RunningInv'
  <2>1. SUFFICES ASSUME ~overlapped, status'.lsp = "running"
                 PROVE  \E j \in Alive' : servers'[j].state \in {"running", "stopping"}
    BY <1>2 DEF RunningInv
  <2>2. CASE s = "running"
    BY <1>4, <1>5, <2>2 DEF Alive
  <2>3. CASE s # "running"
    <3>1. servers[i].state = "starting" \/ servers[i].handlers # <<>>
      BY <1>3, <1>12, <2>1
    <3>2. servers[i].handlers = <<>>
      BY <1>6, <2>1, <2>3
    <3>3. status' = Failed(AfterStop(status, i), servers[i].mcp)
      BY <1>3, <3>1, <3>2
    <3>4. status'.lsp = "error"
      <4>1. status \in Status /\ servers[i].mcp \in BOOLEAN
        <5>1. servers[i] \in Server
          BY <1>1 DEF PanelTypes
        <5> QED
          BY <1>1, <5>1 DEF PanelTypes, Server
      <4> QED
        BY <1>1, <3>3, <4>1, AfterStopType, FailedType
    <3> QED
      BY <2>1, <3>4
  <2> QED
    BY <2>2, <2>3
<1>15. RunningIsCalled'
  BY <1>1, <1>2 DEF RunningIsCalled
<1> QED
  BY <1>7, <1>8, <1>10, <1>13, <1>14, <1>15 DEF PanelInv

LEMMA RetryKeeps ==
  ASSUME PanelInv, RetryTimer
  PROVE  PanelInv'
<1>1. PanelTypes /\ CliInv /\ StoppingInv /\ AliveInv /\ HandledInv /\ RunningInv /\ RunningIsCalled
  BY DEF PanelInv
<1> DEFINE t == [servers EXCEPT ![client].state = "again"]
<1>2. /\ status.timers > 0 /\ status' = [status EXCEPT !.timers = @ - 1]
      /\ servers' = IF client # 0 /\ servers[client].state = "stopped" THEN t ELSE servers
      /\ UNCHANGED <<settings, files, cli, tree, refreshDue, client, stopping, overlapped, output, calls>>
  BY DEF RetryTimer, workspace, tools
<1>3. status' \in Status /\ status'.lsp = status.lsp
  BY <1>1, <1>2 DEF PanelTypes, Status
<1>4. RunningIsCalled'
  BY <1>1, <1>2 DEF RunningIsCalled
<1>5. CASE client # 0 /\ servers[client].state = "stopped"
  <2>1. client \in DOMAIN servers /\ DOMAIN servers = 1..Len(servers) /\ Len(servers) \in Nat
    <3>1. servers \in Seq(Server) /\ client \in 0..Len(servers)
      BY <1>1 DEF PanelTypes
    <3> QED
      BY <1>5, <3>1, LenProperties
  <2>2. /\ t \in Seq(Server) /\ Len(t) = Len(servers) /\ DOMAIN t = DOMAIN servers
        /\ \A j \in DOMAIN servers : /\ t[j].state = IF j = client THEN "again" ELSE servers[j].state
                                     /\ t[j].handlers = servers[j].handlers
    BY <1>1, <2>1, StateSet DEF PanelTypes, ServerStates
  <2>3. servers' = t
    BY <1>2, <1>5
  <2> HIDE DEF t
  <2>4. PanelTypes'
    BY <1>1, <1>2, <1>3, <2>1, <2>2, <2>3 DEF PanelTypes
  <2>5. CliInv' /\ StoppingInv'
    BY <1>1, <1>2, <1>5, <2>1, <2>2, <2>3 DEF CliInv, StoppingInv
  <2>6. Alive' = Alive \union {client}
    BY <2>1, <2>2, <2>3 DEF Alive
  <2>7. AliveInv'
    BY <1>1, <1>2, <2>2, <2>3, <2>6 DEF AliveInv
  <2>8. HandledInv'
    <3>1. ASSUME ~overlapped, NEW j \in DOMAIN servers,
                 t[j].state \in {"running", "again", "stopping"} \/ (j = client /\ t[j].state = "stopped")
          PROVE  t[j].handlers # <<>>
      BY <1>1, <1>5, <2>2, <3>1 DEF HandledInv
    <3> QED
      BY <1>2, <2>2, <2>3, <3>1 DEF HandledInv
  <2>9. RunningInv'
    <3>1. SUFFICES ASSUME ~overlapped, status.lsp = "running"
                   PROVE  \E j \in Alive' : servers'[j].state \in {"running", "stopping"}
      BY <1>2, <1>3 DEF RunningInv
    <3>2. PICK j \in Alive : servers[j].state \in {"running", "stopping"}
      BY <1>1, <3>1 DEF RunningInv
    <3>3. j \in DOMAIN servers /\ j # client
      BY <1>5, <3>2 DEF Alive
    <3> QED
      BY <2>2, <2>3, <2>6, <3>2, <3>3
  <2> QED
    BY <1>4, <2>4, <2>5, <2>7, <2>8, <2>9 DEF PanelInv
<1>6. CASE ~(client # 0 /\ servers[client].state = "stopped")
  <2>1. UNCHANGED servers
    BY <1>2, <1>6
  <2>2. PanelTypes'
    BY <1>1, <1>2, <1>3, <2>1 DEF PanelTypes
  <2>3. CliInv' /\ StoppingInv' /\ AliveInv' /\ HandledInv' /\ RunningInv'
    BY <1>2, <1>3, <2>1, Framed
  <2> QED
    BY <1>4, <2>2, <2>3 DEF PanelInv
<1> QED
  BY <1>5, <1>6
-----------------------------------------------------------------------------
(* The theorem.                                                             *)

LEMMA PanelInvInit ==
  ASSUME ExtensionInit
  PROVE  PanelInv
<1> DEFINE s0 == [state |-> "starting", mcp |-> settings.mcpEnabled, token |-> settings.token, handlers |-> <<>>]
<1>1. /\ settings \in Settings /\ files = Files /\ cli \in BOOLEAN /\ refreshDue = FALSE
      /\ tree = IF cli THEN _discoverFiles ELSE [bases |-> <<>>, files |-> {}]
      /\ servers = IF cli THEN <<s0>> ELSE <<>>
      /\ client = Len(servers) /\ stopping = {} /\ overlapped = FALSE
      /\ output = [t \in Tools |-> "none"] /\ calls = [t \in Tools |-> 0]
  BY DEF ExtensionInit
<1>2. s0 \in Server /\ s0.state = "starting"
  <2>1. settings.mcpEnabled \in BOOLEAN /\ settings.token \in {s.token : s \in Settings}
    BY <1>1, ExtensionAssumption DEF ExtensionAssumption
  <2> QED
    BY <2>1 DEF Server, ServerStates
<1>3. status \in Status /\ status.lsp \in {"starting", "error"}
  <2>1. \E l \in {"starting", "error"}, m \in {"disabled", "starting", "error"}, e \in BOOLEAN :
          status = [lsp |-> l, error |-> e, retryCount |-> 0, timers |-> 0, mcp |-> m]
    BY DEF ExtensionInit
  <2> QED
    BY <2>1 DEF Status
<1> HIDE DEF s0
<1>4. /\ servers \in Seq(Server) /\ Len(servers) \in Nat /\ DOMAIN servers = 1..Len(servers)
      /\ client \in 0..Len(servers)
      /\ \A i \in DOMAIN servers : i = client /\ servers[i].state = "starting"
  <2>1. CASE cli
    <3>1. servers = <<s0>> /\ client = Len(servers)
      BY <1>1, <2>1
    <3>2. servers \in Seq(Server) /\ Len(servers) = 1 /\ DOMAIN servers = {1} /\ servers[1] = s0
      BY <1>2, <3>1
    <3> QED
      BY <1>2, <3>1, <3>2
  <2>2. CASE ~cli
    <3>1. servers = <<>> /\ client = Len(servers)
      BY <1>1, <2>2
    <3> QED
      BY <3>1
  <2> QED
    BY <1>1, <2>1, <2>2
<1>5. tree \in Trees
  <2>1. files = Files \ {} /\ {} \in SUBSET Changing /\ settings.bases \in {s.bases : s \in Settings}
    BY <1>1
  <2>2. [bases |-> settings.bases, files |-> files] \in Trees /\ [bases |-> <<>>, files |-> {}] \in Trees
    BY <2>1 DEF Trees
  <2> QED
    BY <1>1, <2>2 DEF _discoverFiles
<1>6. PanelTypes
  BY <1>1, <1>3, <1>4, <1>5 DEF PanelTypes
<1>7. CliInv /\ RunningIsCalled
  BY <1>1 DEF CliInv, RunningIsCalled
<1>8. StoppingInv /\ AliveInv /\ HandledInv
  BY <1>1, <1>4 DEF StoppingInv, AliveInv, HandledInv, Alive
<1>9. RunningInv
  BY <1>3 DEF RunningInv
<1> QED
  BY <1>6, <1>7, <1>8, <1>9 DEF PanelInv

LEMMA PanelInvStep ==
  ASSUME PanelInv, [ExtensionNext]_extensionVars
  PROVE  PanelInv'
<1>1. PanelTypes
  BY DEF PanelInv
<1>2. CASE RestartCommand
  <2>1. /\ Restart /\ UNCHANGED <<files, cli, output, calls>>
        /\ settings' \in Settings /\ refreshDue' \in BOOLEAN
    BY <1>1, <1>2 DEF RestartCommand, workspace, tools, PanelTypes
  <2> QED
    BY <2>1, RestartKeeps
<1>3. CASE ChangeSettings
  <2>1. /\ Restart /\ UNCHANGED <<files, cli, output, calls>>
        /\ settings' \in Settings /\ refreshDue' \in BOOLEAN
    BY <1>1, <1>3 DEF ChangeSettings, tools, PanelTypes
  <2> QED
    BY <2>1, RestartKeeps
<1>4. CASE Progress
  BY <1>4, StopDoneKeeps, StartDoneKeeps, EndsKeep DEF Progress
<1>5. CASE RetryTimer
  BY <1>5, RetryKeeps
<1>6. CASE \E i \in DOMAIN servers : Crash(i) \/ updateWorkspaceInfo(i)
  BY <1>6, EndsKeep, InfoKeeps
<1>7. CASE ChangeFiles \/ refresh
  BY <1>7, ChangeFilesKeeps, RefreshKeeps
<1>8. CASE checkMcpHealth \/ \E token \in checks : HealthAnswered(token)
  BY <1>8, CheckKeeps
<1>9. CASE \E t \in Tools : executeMcpTool(t) \/ ParametersGiven(t) \/ setToolOutput(t)
  BY <1>9, ToolKeeps
<1>10. CASE UNCHANGED extensionVars
  <2>1. UNCHANGED <<settings, files, cli, tree, refreshDue, servers, client, stopping, overlapped,
                    status, output, calls>>
    BY <1>10 DEF extensionVars, workspace, lifecycle, tools
  <2>2. PanelTypes'
    BY <1>1, <2>1 DEF PanelTypes
  <2>3. CliInv' /\ StoppingInv' /\ AliveInv' /\ HandledInv' /\ RunningInv'
    BY <2>1, Framed
  <2>4. RunningIsCalled'
    BY <2>1 DEF PanelInv, RunningIsCalled
  <2> QED
    BY <2>2, <2>3, <2>4 DEF PanelInv
<1> QED
  BY <1>2, <1>3, <1>4, <1>5, <1>6, <1>7, <1>8, <1>9, <1>10 DEF ExtensionNext

\* With two servers alive one of them is neither the client's nor the one that is stopped.
LEMMA OneIsAlive ==
  ASSUME PanelInv
  PROVE  OneServer
<1> SUFFICES ASSUME ~overlapped
             PROVE  /\ Cardinality(Alive) <= 1
                    /\ status.lsp = "running" => \E i \in Alive : servers[i].state \in {"running", "stopping"}
  BY DEF OneServer
<1>1. PICK i \in Nat : Alive \subseteq {i}
  <2>1. /\ Alive \subseteq {client} \union stopping
        /\ stopping # {} => client = 0 /\ \E i \in DOMAIN servers : stopping = {i}
    BY DEF PanelInv, AliveInv
  <2>2. client \in Nat /\ DOMAIN servers \subseteq Nat /\ 0 \notin DOMAIN servers
    BY LenProperties DEF PanelInv, PanelTypes
  <2>3. 0 \notin Alive
    BY <2>2 DEF Alive
  <2>4. CASE stopping = {}
    BY <2>1, <2>2, <2>4
  <2>5. CASE stopping # {}
    BY <2>1, <2>2, <2>3, <2>5
  <2> QED
    BY <2>4, <2>5
<1>2. Alive = {} \/ Alive = {i}
  BY <1>1
<1>3. Cardinality(Alive) <= 1
  <2>1. Cardinality({i}) = 1 /\ Cardinality({}) = 0
    BY FS_EmptySet, FS_Singleton
  <2> QED
    BY <1>2, <2>1
<1> QED
  BY <1>3 DEF PanelInv, RunningInv

\* Whatever the settings, the files and the moments at which servers start, fail and stop: until
\* restarts overlap one server runs at a time, and the panel calls it running only while it does;
\* a tool that is shown as running has a request under way; and every feature that is found can be
\* reached in the tree, and no other, while no two bases have the same last part.
THEOREM PanelAlwaysSound == ExtensionSpec => []PanelIsSound
<1>1. ExtensionInit => PanelInv
  BY PanelInvInit
<1>2. PanelInv /\ [ExtensionNext]_extensionVars => PanelInv'
  BY PanelInvStep
<1>3. PanelInv => PanelIsSound
  <2> SUFFICES ASSUME PanelInv PROVE PanelIsSound
    OBVIOUS
  <2>1. ExtensionTypeOK
    <3>1. PanelTypes
      BY DEF PanelInv
    <3>2. servers \in Seq(Server) /\ Len(servers) \in Nat /\ DOMAIN servers = 1..Len(servers)
      BY <3>1, LenProperties DEF PanelTypes
    <3>3. \A i \in DOMAIN servers : servers[i].state \in ServerStates
      <4>1. \A i \in DOMAIN servers : servers[i] \in Server
        BY <3>2
      <4> QED
        BY <4>1 DEF Server
    <3> QED
      BY <3>1, <3>2, <3>3 DEF PanelTypes, ExtensionTypeOK, Status, ServerStates
  <2>2. OneServer
    BY OneIsAlive
  <2>3. RunningIsCalled
    BY DEF PanelInv
  <2> QED
    BY <2>1, <2>2, <2>3, TreeReaches DEF PanelIsSound
<1> QED
  BY <1>1, <1>2, <1>3, PTL DEF ExtensionSpec

-----------------------------------------------------------------------------
(* Monitors: the invariant.                                                 *)

EventType == [kind : {"log", "artifact", "feature", "execution", "start", "end"}, id : Seq(Nat), ok : BOOLEAN]
SpanType == [what : {"feature", "auto", "step", "artifact", "custom"}, parent : Nat, open : BOOLEAN]
StepMaps == UNION {[D -> Nat] : D \in SUBSET Seq(Nat)}
OtelType == [tracer : BOOLEAN, feature : Nat, steps : StepMaps, spans : Seq(SpanType)]
RanType == [of : 1..Features, lined : BOOLEAN, phase : {"endFeature", "endExecution"}, feature : 1..Features, event : Nat]
FinalizerType == [of : 1..Features, lined : BOOLEAN]
FinalizersType == [active : 0..Features, byFeature : [1..Features -> Seq(FinalizerType)], index : Nat \ {0}]

ControlTypes ==
  /\ setup \in Setups
  /\ phase \in {"startExecution", "setWorld", "startFeature", "body", "endFeature", "endExecution", "done", "failed"}
  /\ at \in 1..Len(list) + 1
  /\ feature \in 0..Features /\ (phase = "startExecution" <=> feature = 0)
  /\ callback \in {"fanout", "otel"} /\ (callback = "otel" => Has(Otel))

DataTypes ==
  /\ currentFeature \in 0..feature
  /\ emitted \in Seq(EventType)
  /\ steps \in 0..setup.steps /\ open \in Seq(Seq(Nat)) /\ Len(open) <= 2
  /\ finalizers \in FinalizersType /\ finalizers.active <= feature /\ ran \in Seq(RanType)
  /\ buffer \in Seq(DOMAIN emitted) /\ saving \in Seq(Seq(DOMAIN emitted)) /\ reports \in Seq(Seq(DOMAIN emitted))
  /\ savedAt \subseteq DOMAIN emitted
  /\ wire \subseteq {0} \cup DOMAIN emitted /\ (wire # {} => transport = "remote")
  /\ warnings \in Nat /\ running \in SUBSET Seq(Nat)

\* What is said of a hook that is still to come, or over, in this round of them.
Ahead(s) == \E n \in DOMAIN list : n >= at /\ list[n] = s
Behind(s) == \E n \in DOMAIN list : n < at /\ list[n] = s

\* Steps have paths of their own: of the feature they are in, and with the number of steps there were.
OpenInv ==
  /\ phase \notin {"body", "failed"} => open = <<>>
  /\ \A k \in DOMAIN open : Len(open[k]) = k + 1 /\ open[k][1] = feature /\ open[k][k + 1] <= steps

EventInv ==
  \A i \in DOMAIN emitted :
    LET e == emitted[i] IN
      /\ e.kind = "start" => e.id # <<>> /\ (e.id[1] = FinalizerPath \/ e.id[1] \in 1..feature)
      /\ e.kind = "end" => e.id # <<>> /\ (e.id[1] = FinalizerPath \/ e.id[Len(e.id)] <= steps)

Early == phase \in {"startExecution", "setWorld", "startFeature"}

\* The path that finalizers run under is the feature's, between its hooks.
ActiveInv ==
  phase # "failed" =>
    finalizers.active =
      IF Has(Finalizer) /\ (phase = "body" \/ (phase = "startFeature" /\ Behind(Finalizer)) \/ (phase = "endFeature" /\ Ahead(Finalizer)))
      THEN feature ELSE 0

\* Each feature is registered at most once, by a step of its own, and nothing is registered when all have run.
RegisteredInv ==
  LET by == finalizers.byFeature IN
    /\ \A f \in 1..Features : \A i \in DOMAIN by[f] : by[f][i].of <= feature /\ (Early => by[f][i].of < feature)
    /\ \A f, g \in 1..Features : \A i \in DOMAIN by[f], j \in DOMAIN by[g] : by[f][i].of = by[g][j].of => f = g /\ i = j
    /\ ~Has(Finalizer) \/ phase = "done" \/ (phase = "endExecution" /\ Behind(Finalizer)) => Left = {}

\* What has run is registered no more, or it is before the one that runs.
RanInv ==
  /\ \A k, l \in DOMAIN ran : ran[k].of = ran[l].of => k = l
  /\ \A k \in DOMAIN ran : /\ ran[k].of <= feature /\ ran[k].feature <= feature
                           /\ Early \/ phase = "body" => ran[k].of < feature /\ ran[k].feature < feature
  /\ phase # "failed" =>
       /\ finalizers.index # 1 => FinalizerHook
       /\ \A k \in DOMAIN ran : \A f \in 1..Features : \A i \in DOMAIN finalizers.byFeature[f] :
            ran[k].of = finalizers.byFeature[f][i].of => FinalizerHook /\ f = Key /\ i < finalizers.index

\* What a feature registers after its line is under its path, until its finalizers run.
LineInv ==
  phase # "failed" =>
    \A f \in 1..Features : \A i \in DOMAIN finalizers.byFeature[f] :
      finalizers.byFeature[f][i].lined =>
        /\ finalizers.byFeature[f][i].of = f /\ f = feature
        /\ phase = "body" \/ (phase = "endFeature" /\ Ahead(Finalizer))

\* While a report is written it is what was kept up to then, and what is kept since is known to have come meanwhile.
SavingInv ==
  saving # <<>> =>
    /\ phase = "failed" \/ Hook("endFeature", Browser)
    /\ Len(saving) = 1 /\ Len(saving[1]) <= Len(buffer)
    /\ \A k \in DOMAIN buffer : IF k <= Len(saving[1]) THEN saving[1][k] = buffer[k] ELSE buffer[k] \in savedAt

\* The reports are those of the features that are over.
ReportCountInv ==
  Has(Browser) =>
    CASE phase = "startExecution" -> Len(reports) = 0
      [] phase \in {"setWorld", "startFeature", "body"} -> Len(reports) = feature - 1
      [] phase = "endFeature" -> Len(reports) = IF Ahead(Browser) THEN feature - 1 ELSE feature
      [] phase \in {"endExecution", "done"} -> Len(reports) = feature
      [] OTHER -> Len(reports) <= feature

ReportedInv ==
  Before(Finalizer, Browser) /\ ~Has(Otel) =>
    /\ \A f \in DOMAIN reports : FinalizersIn(reports[f]) = RanAtEnd(f)
    /\ phase \notin {"endExecution", "done", "failed"} =>
         /\ FinalizersIn(buffer) = RanAtEnd(Len(reports) + 1)
         /\ saving # <<>> => FinalizersIn(saving[1]) = RanAtEnd(Len(reports) + 1)

PrompterInv ==
  /\ Has(Browser) => prompters # <<>>
  /\ prompters \in Seq(BOOLEAN)
  /\ LET live == {i \in DOMAIN prompters : prompters[i]} IN
       IF transport = "local" THEN \E p \in DOMAIN prompters : live = {p} ELSE live = {}

\* What monitor-otel holds of its spans: those of the feature and of its steps are open.
SpansOK(o) ==
  /\ o \in OtelType /\ o.feature \in 0..Len(o.spans)
  /\ \A id \in DOMAIN o.steps : /\ o.steps[id] \in DOMAIN o.spans /\ o.spans[o.steps[id]].open
                                /\ o.spans[o.steps[id]].what = IF id = Custom THEN "custom" ELSE "step"
  /\ \A id, jd \in DOMAIN o.steps : o.steps[id] = o.steps[jd] => id = jd
  /\ o.feature # 0 => o.spans[o.feature].open /\ o.spans[o.feature].what \in {"feature", "auto"}
  /\ o.feature = 0 => DOMAIN o.steps = {}
  /\ ~o.tracer => o.feature = 0

\* No other span is open than a user's, and one that a Feature: line has replaced.
NoneLeft(o) ==
  \A i \in DOMAIN o.spans : o.spans[i].open =>
    i = o.feature \/ o.spans[i].what = "custom" \/ Forgotten(o, i) \/ \E id \in DOMAIN o.steps : o.steps[id] = i

OtelInv ==
  /\ SpansOK(otel) /\ (~Has(Otel) => otel.feature = 0)
  /\ DOMAIN otel.steps \subseteq ToSet(open) \cup {Custom}
  /\ ~Before(Otel, Finalizer) =>
       /\ NoneLeft(otel)
       /\ otel.feature # 0 => \/ phase \in {"endExecution", "done", "failed"}
                              \/ phase = "endFeature" /\ Ahead(Otel)
                              \/ phase = "body"

RunInv ==
  /\ ControlTypes /\ DataTypes /\ OpenInv /\ EventInv /\ ActiveInv /\ RegisteredInv /\ RanInv /\ FinalizersRunInFeature /\ LineInv
  /\ SavingInv /\ ReportsHoldTheRun /\ ReportCountInv /\ ReportedInv /\ PanelShowsRunning /\ PrompterInv /\ OtelInv

-----------------------------------------------------------------------------
(* What the actions leave alone.                                            *)

\* The actions between a feature's hooks that end a step.
StepDone == (\E ok \in BOOLEAN : StepEnds(ok)) \/ RegisterFinalizer \/ StartOtelSpan \/ EndOtelSpan

Begin == \/ ToFirstFeature \/ ToStartFeature \/ ToBody \/ ToEndFeature
         \/ ToNextFeature \/ ToEndExecution \/ ToDone

LEMMA ExecFrame ==
  ASSUME MonitorsNext
  PROVE  UNCHANGED exec \/ ToBody \/ FeatureLine \/ StepStarts \/ StepDone
BY DEF MonitorsNext, exec, StepDone, NoHook, ToFirstFeature, ToStartFeature, ToEndFeature, ToNextFeature, ToEndExecution, ToDone,
       OtelInitializes, OtelSetsWorld, BrowserSetsWorld, FinalizerStartsFeature, BrowserConnects, BrowserConnected,
       BrowserCannotListen, StepReruns, StepShows, StepThrows, Traffic, FinalizerRuns, FinalizerThrows, FinalizersDone,
       OtelEndsFeature, VideoEnds, BrowserSaves, BrowserCannotSave, BrowserSaved, OtelShutsDown, PostAnswered, HostEnds, PostFails

LEMMA FinFrame ==
  ASSUME MonitorsNext
  PROVE  \/ UNCHANGED fin \/ FinalizerStartsFeature \/ RegisterFinalizer
         \/ (\E ok \in BOOLEAN : FinalizerRuns(ok)) \/ FinalizersDone
BY DEF MonitorsNext, NoHook, ToFirstFeature, ToStartFeature, ToBody, ToEndFeature, ToNextFeature, ToEndExecution, ToDone,
       OtelInitializes, OtelSetsWorld, BrowserSetsWorld, BrowserConnects, BrowserConnected, FeatureLine, StepStarts,
       BrowserCannotListen, StepReruns, StepShows, StepThrows, Traffic, StepEnds, StartOtelSpan, EndOtelSpan, FinalizerThrows,
       OtelEndsFeature, VideoEnds, BrowserSaves, BrowserCannotSave, BrowserSaved, OtelShutsDown, PostAnswered, HostEnds, PostFails

LEMMA PageFrame ==
  ASSUME MonitorsNext
  PROVE  \/ UNCHANGED page \/ BrowserSetsWorld \/ BrowserConnects \/ BrowserSaves \/ BrowserSaved
         \/ UNCHANGED <<saving, reports, prompters, transport>>
BY DEF MonitorsNext, NoHook, ToFirstFeature, ToStartFeature, ToBody, ToEndFeature, ToNextFeature, ToEndExecution, ToDone,
       OtelInitializes, OtelSetsWorld, FinalizerStartsFeature, BrowserConnected, FeatureLine, StepStarts,
       BrowserCannotListen, StepReruns, StepShows, StepThrows, Traffic, StepEnds, RegisterFinalizer, StartOtelSpan, EndOtelSpan,
       FinalizerRuns, FinalizerThrows, FinalizersDone, OtelEndsFeature, VideoEnds, BrowserCannotSave, OtelShutsDown,
       PostAnswered, HostEnds, PostFails

LEMMA RunFrame ==
  ASSUME MonitorsNext
  PROVE  UNCHANGED run \/ (Throws /\ phase # "startExecution") \/ (Passes /\ at \in DOMAIN list /\ phase \in DOMAIN Hooks) \/ Begin
BY DEF MonitorsNext, Begin, NoHook, Stays, Hook, Hooks, FinalizerHook,
       OtelInitializes, OtelSetsWorld, BrowserSetsWorld, FinalizerStartsFeature, BrowserConnects, BrowserConnected,
       FeatureLine, StepStarts, StepEnds, RegisterFinalizer, StartOtelSpan, EndOtelSpan,
       BrowserCannotListen, StepReruns, StepShows, StepThrows, Traffic, FinalizerRuns, FinalizerThrows, FinalizersDone,
       OtelEndsFeature, VideoEnds, BrowserSaves, BrowserCannotSave, BrowserSaved, OtelShutsDown, PostAnswered, HostEnds, PostFails

LEMMA CallbackFrame ==
  ASSUME MonitorsNext
  PROVE  callback' = callback \/ OtelSetsWorld
BY DEF MonitorsNext, NoHook, ToFirstFeature, ToStartFeature, ToBody, ToEndFeature, ToNextFeature, ToEndExecution, ToDone,
       OtelInitializes, BrowserSetsWorld, FinalizerStartsFeature, BrowserConnects, BrowserConnected, FeatureLine, StepStarts,
       BrowserCannotListen, StepReruns, StepShows, StepThrows, Traffic, StepEnds, RegisterFinalizer, StartOtelSpan, EndOtelSpan,
       FinalizerRuns, FinalizerThrows, FinalizersDone, OtelEndsFeature, VideoEnds, BrowserSaves, BrowserCannotSave, BrowserSaved,
       OtelShutsDown, PostAnswered, HostEnds, PostFails

-----------------------------------------------------------------------------
(* The order of the hooks.                                                  *)

Steppers == {Finalizer, Otel, Browser, Tui, Video}

LEMMA Listed ==
  ASSUME ControlTypes
  PROVE  /\ list \in Seq(Steppers) /\ Len(list) \in Nat /\ DOMAIN list = 1..Len(list)
         /\ \A i, j \in DOMAIN list : list[i] = list[j] => i = j
         /\ \A s : Has(s) <=> \E i \in DOMAIN list : list[i] = s
         /\ Features \in Nat /\ Features >= 1 /\ Features < FinalizerPath /\ setup.steps \in Nat
         /\ at \in Nat /\ at >= 1 /\ at <= Len(list) + 1
<1>1. list \in Seq(Steppers) /\ IsInjective(list) /\ Features \in 1..FinalizerPath - 1 /\ setup.steps \in Nat
  BY MonitorsAssumption DEF MonitorsAssumption, ControlTypes, list, Features, Steppers
<1>2. Len(list) \in Nat /\ DOMAIN list = 1..Len(list)
  BY <1>1, LenProperties
<1>3. \A s : Has(s) <=> \E i \in DOMAIN list : list[i] = s
  BY DEF Has, ToSet
<1> QED
  BY <1>1, <1>2, <1>3 DEF IsInjective, ControlTypes, FinalizerPath

LEMMA Places ==
  ASSUME ControlTypes
  PROVE  /\ \A s : Has(s) <=> (Ahead(s) \/ Behind(s))
         /\ \A s : ~(Ahead(s) /\ Behind(s))
         /\ \A p, s : Hook(p, s) => Ahead(s) /\ ~Behind(s) /\ Has(s)
         /\ \A p, s, t : Hook(p, t) /\ Before(s, t) => Behind(s) /\ ~Ahead(s)
         /\ \A p, s, t : Hook(p, t) /\ ~Before(t, s) /\ Has(s) /\ s # t => Behind(s) /\ ~Ahead(s)
         /\ \A p, s, t : Hook(p, s) /\ Before(s, t) => Ahead(t) /\ ~Behind(t)
         /\ \A p, q, s, t : Hook(p, s) /\ Hook(q, t) => p = q /\ s = t
         /\ at = Len(list) + 1 => \A s : ~Ahead(s)
<1>1. /\ DOMAIN list = 1..Len(list) /\ Len(list) \in Nat /\ at \in Nat
      /\ \A i, j \in DOMAIN list : list[i] = list[j] => i = j
      /\ \A s : Has(s) <=> \E i \in DOMAIN list : list[i] = s
  BY Listed
<1>2. \A i \in DOMAIN list : i \in Nat
  BY <1>1
<1>3. \A s : Ahead(s) <=> \E n \in DOMAIN list : n >= at /\ list[n] = s
  BY DEF Ahead
<1>4. \A s : Behind(s) <=> \E n \in DOMAIN list : n < at /\ list[n] = s
  BY DEF Behind
<1>5. \A s, t : Before(s, t) <=> \E i, j \in DOMAIN list : i < j /\ list[i] = s /\ list[j] = t
  BY DEF Before
<1>6. \A p, s : Hook(p, s) <=> phase = p /\ at \in DOMAIN list /\ list[at] = s
  BY DEF Hook
<1>7. \A s : Has(s) <=> (Ahead(s) \/ Behind(s))
  BY <1>1, <1>2, <1>3, <1>4
<1>8. \A s : ~(Ahead(s) /\ Behind(s))
  BY <1>1, <1>2, <1>3, <1>4
<1>9. \A p, s : Hook(p, s) => Ahead(s) /\ ~Behind(s) /\ Has(s)
  BY <1>1, <1>2, <1>3, <1>6, <1>7, <1>8
<1>10. \A p, s, t : Hook(p, t) /\ Before(s, t) => Behind(s) /\ ~Ahead(s)
  <2> SUFFICES ASSUME NEW p, NEW s, NEW t, Hook(p, t), Before(s, t) PROVE Behind(s)
    BY <1>8
  <2>1. PICK i \in DOMAIN list, j \in DOMAIN list : i < j /\ list[i] = s /\ list[j] = t
    BY <1>5
  <2>2. j = at
    BY <1>1, <1>6, <2>1
  <2> QED
    BY <1>4, <2>1, <2>2
<1>11. \A p, s, t : Hook(p, s) /\ Before(s, t) => Ahead(t) /\ ~Behind(t)
  <2> SUFFICES ASSUME NEW p, NEW s, NEW t, Hook(p, s), Before(s, t) PROVE Ahead(t)
    BY <1>8
  <2>1. PICK i \in DOMAIN list, j \in DOMAIN list : i < j /\ list[i] = s /\ list[j] = t
    BY <1>5
  <2>2. i = at
    BY <1>1, <1>6, <2>1
  <2>3. j >= at
    BY <1>2, <2>1, <2>2
  <2> QED
    BY <1>3, <2>1, <2>3
<1>12. \A p, s, t : Hook(p, t) /\ ~Before(t, s) /\ Has(s) /\ s # t => Behind(s) /\ ~Ahead(s)
  <2> SUFFICES ASSUME NEW p, NEW s, NEW t, Hook(p, t), ~Before(t, s), Has(s), s # t PROVE ~Ahead(s)
    BY <1>7
  <2> SUFFICES ASSUME NEW n \in DOMAIN list, n >= at, list[n] = s PROVE FALSE
    BY <1>3
  <2>1. n # at /\ at \in DOMAIN list /\ list[at] = t
    BY <1>6
  <2>2. at < n
    BY <1>1, <1>2, <2>1
  <2> QED
    BY <1>5, <2>1, <2>2
<1>13. \A p, q, s, t : Hook(p, s) /\ Hook(q, t) => p = q /\ s = t
  BY <1>6
<1>14. at = Len(list) + 1 => \A s : ~Ahead(s)
  BY <1>1, <1>3
<1> QED
  BY <1>7, <1>8, <1>9, <1>10, <1>11, <1>12, <1>13, <1>14

LEMMA Turns ==
  ASSUME ControlTypes, setup' = setup
  PROVE  /\ \A s : Has(s)' <=> Has(s)
         /\ \A s, t : Before(s, t)' <=> Before(s, t)
         /\ at' = at => \A s : (Ahead(s)' <=> Ahead(s)) /\ (Behind(s)' <=> Behind(s))
         /\ at' = 1 => \A s : (Ahead(s)' <=> Has(s)) /\ ~Behind(s)'
         /\ at' = at + 1 /\ at \in DOMAIN list =>
              \A s : /\ list[at] # s => (Ahead(s)' <=> Ahead(s)) /\ (Behind(s)' <=> Behind(s))
                     /\ list[at] = s => ~Ahead(s)' /\ Behind(s)'
<1>0. list' = list
  BY DEF list
<1>1. /\ DOMAIN list = 1..Len(list) /\ Len(list) \in Nat /\ at \in Nat
      /\ \A i, j \in DOMAIN list : list[i] = list[j] => i = j
      /\ \A s : Has(s) <=> \E i \in DOMAIN list : list[i] = s
  BY Listed
<1>2. \A i \in DOMAIN list : i \in Nat /\ i >= 1
  BY <1>1
<1>3. \A s : Ahead(s) <=> \E n \in DOMAIN list : n >= at /\ list[n] = s
  BY DEF Ahead
<1>4. \A s : Behind(s) <=> \E n \in DOMAIN list : n < at /\ list[n] = s
  BY DEF Behind
<1>5. \A s : Ahead(s)' <=> \E n \in DOMAIN list : n >= at' /\ list[n] = s
  BY <1>0 DEF Ahead
<1>6. \A s : Behind(s)' <=> \E n \in DOMAIN list : n < at' /\ list[n] = s
  BY <1>0 DEF Behind
<1>7. \A s : Has(s)' <=> Has(s)
  BY <1>0 DEF Has
<1>8. \A s, t : Before(s, t)' <=> Before(s, t)
  BY <1>0 DEF Before
<1>9. at' = at => \A s : (Ahead(s)' <=> Ahead(s)) /\ (Behind(s)' <=> Behind(s))
  BY <1>3, <1>4, <1>5, <1>6
<1>10. at' = 1 => \A s : (Ahead(s)' <=> Has(s)) /\ ~Behind(s)'
  BY <1>1, <1>2, <1>5, <1>6
<1>11. ASSUME at' = at + 1, at \in DOMAIN list, NEW s
       PROVE  /\ list[at] # s => (Ahead(s)' <=> Ahead(s)) /\ (Behind(s)' <=> Behind(s))
              /\ list[at] = s => ~Ahead(s)' /\ Behind(s)'
  <2>1. \A n \in DOMAIN list : (n >= at' <=> n >= at /\ n # at) /\ (n < at' <=> n < at \/ n = at)
    BY <1>1, <1>2, <1>11
  <2>2. CASE list[at] # s
    BY <1>3, <1>4, <1>5, <1>6, <2>1, <2>2
  <2>3. CASE list[at] = s
    <3>1. \A n \in DOMAIN list : list[n] = s => n = at
      BY <1>1, <1>11, <2>3
    <3>2. ~Ahead(s)'
      BY <1>5, <2>1, <3>1
    <3>3. Behind(s)'
      BY <1>6, <1>11, <2>1, <2>3
    <3> QED
      BY <2>3, <3>2, <3>3
  <2> QED
    BY <2>2, <2>3
<1> QED
  BY <1>7, <1>8, <1>9, <1>10, <1>11

\* Where one round of hooks is over and the next begins.
LEMMA Boundaries ==
  ASSUME ControlTypes, Begin
  PROVE  /\ at' = 1 /\ setup' = setup
         /\ phase = "body" \/ (phase # "failed" /\ at = Len(list) + 1 /\ at \notin DOMAIN list)
         /\ \/ phase = "startExecution" /\ phase' = "setWorld" /\ feature' = 1
            \/ phase = "setWorld" /\ phase' = "startFeature" /\ feature' = feature
            \/ phase = "startFeature" /\ phase' = "body" /\ feature' = feature
            \/ phase = "body" /\ phase' = "endFeature" /\ feature' = feature
            \/ phase = "endFeature" /\ phase' = "setWorld" /\ feature' = feature + 1
            \/ phase = "endFeature" /\ phase' = "endExecution" /\ feature' = feature
            \/ phase = "endExecution" /\ phase' = "done" /\ feature' = feature
<1>1. /\ at' = 1 /\ setup' = setup
      /\ phase = "body" \/ (phase # "failed" /\ at = Len(list) + 1)
      /\ \/ phase = "startExecution" /\ phase' = "setWorld" /\ feature' = 1
         \/ phase = "setWorld" /\ phase' = "startFeature" /\ feature' = feature
         \/ phase = "startFeature" /\ phase' = "body" /\ feature' = feature
         \/ phase = "body" /\ phase' = "endFeature" /\ feature' = feature
         \/ phase = "endFeature" /\ phase' = "setWorld" /\ feature' = feature + 1
         \/ phase = "endFeature" /\ phase' = "endExecution" /\ feature' = feature
         \/ phase = "endExecution" /\ phase' = "done" /\ feature' = feature
  BY DEF Begin, Begins, HooksDone, ToFirstFeature, ToStartFeature, ToBody, ToEndFeature, ToNextFeature, ToEndExecution, ToDone
<1>2. at = Len(list) + 1 => at \notin DOMAIN list
  BY Listed
<1> QED
  BY <1>1, <1>2

LEMMA ControlStep ==
  ASSUME ControlTypes, MonitorsNext
  PROVE  ControlTypes' /\ setup' = setup /\ feature' \in Nat /\ feature' >= feature
<1>0. /\ DOMAIN list = 1..Len(list) /\ Len(list) \in Nat /\ at \in Nat
      /\ Features \in Nat /\ Features >= 1
  BY Listed
<1>1. setup' = setup
  BY RunFrame DEF run, Throws, Passes, Begin, Begins, ToFirstFeature, ToStartFeature, ToBody, ToEndFeature, ToNextFeature, ToEndExecution, ToDone
<1>2. list' = list /\ Features' = Features
  BY <1>1 DEF list, Features
<1>3. /\ phase' \in {"startExecution", "setWorld", "startFeature", "body", "endFeature", "endExecution", "done", "failed"}
      /\ at' \in 1..Len(list) + 1
      /\ feature' \in 0..Features /\ (phase' = "startExecution" <=> feature' = 0) /\ feature' >= feature
  <2>1. CASE UNCHANGED run
    BY <1>0, <2>1 DEF run, ControlTypes
  <2>2. CASE Throws /\ phase # "startExecution"
    BY <1>0, <2>2 DEF Throws, ControlTypes
  <2>3. CASE Passes /\ at \in DOMAIN list /\ phase \in DOMAIN Hooks
    <3>1. at' \in 1..Len(list) + 1
      BY <1>0, <2>3 DEF Passes
    <3>2. feature' = feature /\ phase' = phase
      BY <2>3 DEF Passes
    <3> QED
      BY <1>0, <3>1, <3>2 DEF ControlTypes
  <2>4. CASE Begin
    <3>1. /\ at' = 1 /\ phase' \in {"setWorld", "startFeature", "body", "endFeature", "endExecution", "done"}
          /\ \/ phase = "startExecution" /\ feature' = 1
             \/ phase # "startExecution" /\ feature' = feature
             \/ phase # "startExecution" /\ feature' = feature + 1 /\ feature < Features
      BY <2>4 DEF Begin, Begins, HooksDone, MoreFeatures, ToFirstFeature, ToStartFeature, ToBody, ToEndFeature, ToNextFeature, ToEndExecution, ToDone
    <3>2. feature \in 0..Features /\ (phase = "startExecution" <=> feature = 0)
      BY DEF ControlTypes
    <3>3. feature' \in 0..Features /\ feature' # 0 /\ feature' >= feature
      <4>1. CASE phase = "startExecution" /\ feature' = 1
        BY <1>0, <3>2, <4>1
      <4>2. CASE phase # "startExecution" /\ feature' = feature
        BY <1>0, <3>2, <4>2
      <4>3. CASE phase # "startExecution" /\ feature' = feature + 1 /\ feature < Features
        BY <1>0, <3>2, <4>3
      <4> QED
        BY <3>1, <4>1, <4>2, <4>3
    <3> QED
      BY <1>0, <3>1, <3>3
  <2> QED
    BY <2>1, <2>2, <2>3, <2>4, RunFrame
<1>4. callback' \in {"fanout", "otel"} /\ (callback' = "otel" => Has(Otel)')
  <2>1. \A s : Has(s)' <=> Has(s)
    BY <1>1, Turns
  <2>2. CASE callback' = callback
    BY <2>1, <2>2 DEF ControlTypes
  <2>3. CASE OtelSetsWorld
    <3>1. Has(Otel)
      BY <2>3, Places DEF OtelSetsWorld
    <3> QED
      BY <2>1, <2>3, <3>1 DEF OtelSetsWorld
  <2> QED
    BY <2>2, <2>3, CallbackFrame
<1> QED
  BY <1>0, <1>1, <1>2, <1>3, <1>4 DEF ControlTypes

\* A hook passes to the next stepper by what its stepper does there.
LEMMA Passing ==
  ASSUME ControlTypes, MonitorsNext, Passes
  PROVE  /\ at \in DOMAIN list /\ phase \in DOMAIN Hooks
         /\ phase = "startFeature" /\ list[at] = Finalizer => FinalizerStartsFeature
         /\ phase = "endFeature" /\ list[at] = Finalizer => FinalizersDone
         /\ phase = "endExecution" /\ list[at] = Finalizer => FinalizersDone /\ Left = {}
         /\ phase = "endFeature" /\ list[at] = Browser => BrowserSaved
         /\ phase = "endFeature" /\ list[at] = Otel => OtelEndsFeature
<1>0. at \in Nat /\ at >= 1 /\ at' = at + 1
  BY Listed DEF Passes
<1>1. \/ NoHook \/ OtelInitializes \/ OtelSetsWorld \/ BrowserSetsWorld \/ FinalizerStartsFeature \/ BrowserConnects
      \/ BrowserConnected \/ (FinalizersDone /\ ~(phase = "endExecution" /\ Left # {})) \/ OtelEndsFeature \/ VideoEnds
      \/ BrowserSaved \/ OtelShutsDown
  <2>1. at' # at /\ at' # 1
    BY <1>0
  <2> QED
    BY <2>1 DEF MonitorsNext, Stays, run, Throws, Begins, ToFirstFeature, ToStartFeature, ToBody, ToEndFeature, ToNextFeature, ToEndExecution, ToDone,
         BrowserCannotListen, FeatureLine, StepStarts, StepReruns, StepShows, StepThrows, Traffic, StepEnds, RegisterFinalizer,
         StartOtelSpan, EndOtelSpan, FinalizerRuns, FinalizerThrows, FinalizersDone, BrowserSaves, BrowserCannotSave,
         PostAnswered, HostEnds, PostFails
<1>2. /\ NoHook => at \in DOMAIN list /\ phase \in DOMAIN Hooks /\ list[at] \notin Hooks[phase]
      /\ OtelInitializes => Hook("startExecution", Otel)
      /\ OtelSetsWorld => Hook("setWorld", Otel)
      /\ BrowserSetsWorld => Hook("setWorld", Browser)
      /\ FinalizerStartsFeature => Hook("startFeature", Finalizer)
      /\ BrowserConnects \/ BrowserConnected => Hook("startFeature", Browser)
      /\ FinalizersDone => Hook("endFeature", Finalizer) \/ Hook("endExecution", Finalizer)
      /\ OtelEndsFeature => Hook("endFeature", Otel)
      /\ VideoEnds => Hook("endFeature", Video)
      /\ BrowserSaved => Hook("endFeature", Browser)
      /\ OtelShutsDown => Hook("endExecution", Otel)
  BY DEF NoHook, OtelInitializes, OtelSetsWorld, BrowserSetsWorld, FinalizerStartsFeature, BrowserConnects, BrowserConnected,
         FinalizersDone, FinalizerHook, OtelEndsFeature, VideoEnds, BrowserSaved, OtelShutsDown
<1>3. \A p, s : Hook(p, s) <=> phase = p /\ at \in DOMAIN list /\ list[at] = s
  BY DEF Hook
<1>4. /\ DOMAIN Hooks = {"startExecution", "setWorld", "startFeature", "endFeature", "endExecution"}
      /\ Hooks["startFeature"] = {Finalizer, Browser} /\ Hooks["endFeature"] = {Finalizer, Otel, Browser, Video}
      /\ Hooks["endExecution"] = {Finalizer, Otel}
  BY DEF Hooks
<1>5. Finalizer # Otel /\ Finalizer # Browser /\ Finalizer # Video /\ Otel # Browser /\ Otel # Video /\ Browser # Video
  BY DEF Finalizer, Otel, Browser, Video
<1> QED
  BY <1>1, <1>2, <1>3, <1>4, <1>5

-----------------------------------------------------------------------------
(* What a step emits.                                                       *)

\* The indexes of what is emitted in this step.
Fresh == DOMAIN emitted' \ DOMAIN emitted

LEMMA SequenceIs ==
  ASSUME NEW S, NEW s \in Seq(S)
  PROVE  Len(s) \in Nat /\ DOMAIN s = 1..Len(s) /\ (\A k \in 1..Len(s) : s[k] \in S) /\ (s = <<>> <=> Len(s) = 0)
BY LenProperties, ElementOfSeq, EmptySeq

LEMMA ToSetIs ==
  ASSUME NEW S, NEW s \in Seq(S)
  PROVE  ToSet(s) = {s[k] : k \in 1..Len(s)} /\ ToSet(s) \subseteq S
BY SequenceIs DEF ToSet

LEMMA Appended ==
  ASSUME NEW S, NEW s \in Seq(S), NEW e \in S
  PROVE  /\ Append(s, e) \in Seq(S) /\ Len(Append(s, e)) = Len(s) + 1
         /\ DOMAIN Append(s, e) = 1..Len(s) + 1 /\ DOMAIN s = 1..Len(s) /\ Len(s) \in Nat
         /\ \A i \in 1..Len(s) : Append(s, e)[i] = s[i]
         /\ Append(s, e)[Len(s) + 1] = e /\ Append(s, e) # <<>>
<1>1. Append(s, e) \in Seq(S) /\ Len(Append(s, e)) = Len(s) + 1 /\ Len(s) \in Nat
  OBVIOUS
<1>2. DOMAIN Append(s, e) = 1..Len(s) + 1 /\ DOMAIN s = 1..Len(s)
  BY <1>1, SequenceIs
<1> QED
  BY <1>1, <1>2

LEMMA Joined ==
  ASSUME NEW S, NEW s \in Seq(S), NEW t \in Seq(S)
  PROVE  /\ s \o t \in Seq(S) /\ Len(s \o t) = Len(s) + Len(t)
         /\ \A k \in 1..Len(s) : (s \o t)[k] = s[k]
         /\ \A k \in 1..Len(t) : (s \o t)[Len(s) + k] = t[k]
         /\ \A k \in 1..Len(s) + Len(t) : k \in 1..Len(s) \/ \E n \in 1..Len(t) : k = Len(s) + n
         /\ ToSet(s \o t) = ToSet(s) \cup ToSet(t)
<1>1. /\ s \o t \in Seq(S) /\ Len(s \o t) = Len(s) + Len(t)
      /\ \A k \in 1..Len(s) + Len(t) : (s \o t)[k] = IF k <= Len(s) THEN s[k] ELSE t[k - Len(s)]
  BY ConcatProperties
<1>2. Len(s) \in Nat /\ Len(t) \in Nat
  BY SequenceIs
<1>3. \A k \in 1..Len(s) : (s \o t)[k] = s[k]
  BY <1>1, <1>2
<1>4. \A k \in 1..Len(t) : (s \o t)[Len(s) + k] = t[k]
  BY <1>1, <1>2
<1>5. ASSUME NEW k \in 1..Len(s) + Len(t) PROVE k \in 1..Len(s) \/ \E n \in 1..Len(t) : k = Len(s) + n
  <2>1. CASE k > Len(s)
    <3>1. k - Len(s) \in 1..Len(t) /\ k = Len(s) + (k - Len(s))
      BY <1>2, <2>1
    <3> QED
      BY <3>1
  <2> QED
    BY <1>2, <2>1
<1>6. ToSet(s \o t) = {(s \o t)[k] : k \in 1..Len(s) + Len(t)} /\ ToSet(s) = {s[k] : k \in 1..Len(s)} /\ ToSet(t) = {t[k] : k \in 1..Len(t)}
  BY <1>1, ToSetIs
<1>7. ToSet(s \o t) = ToSet(s) \cup ToSet(t)
  <2>1. ASSUME NEW x \in ToSet(s \o t) PROVE x \in ToSet(s) \/ x \in ToSet(t)
    <3>1. PICK k \in 1..Len(s) + Len(t) : x = (s \o t)[k]
      BY <1>6
    <3> QED
      BY <1>3, <1>4, <1>5, <1>6, <3>1
  <2>2. ASSUME NEW k \in 1..Len(s) PROVE s[k] \in ToSet(s \o t)
    <3>1. k \in 1..Len(s) + Len(t)
      BY <1>2
    <3> QED
      BY <1>3, <1>6, <3>1
  <2>3. ASSUME NEW k \in 1..Len(t) PROVE t[k] \in ToSet(s \o t)
    <3>1. Len(s) + k \in 1..Len(s) + Len(t)
      BY <1>2
    <3> QED
      BY <1>4, <1>6, <3>1
  <2> QED
    BY <1>6, <2>1, <2>2, <2>3
<1> QED
  BY <1>1, <1>3, <1>4, <1>5, <1>7

LEMMA Extended ==
  ASSUME emitted \in Seq(EventType), NEW es \in Seq(EventType), emitted' = emitted \o es
  PROVE  /\ emitted' \in Seq(EventType) /\ Len(emitted') = Len(emitted) + Len(es)
         /\ DOMAIN emitted = 1..Len(emitted) /\ DOMAIN emitted' = 1..Len(emitted) + Len(es)
         /\ \A i \in DOMAIN emitted : i \in DOMAIN emitted' /\ emitted'[i] = emitted[i]
         /\ \A k \in 1..Len(es) : Len(emitted) + k \in Fresh /\ emitted'[Len(emitted) + k] = es[k]
         /\ \A i \in Fresh : i > Len(emitted) /\ \E k \in 1..Len(es) : i = Len(emitted) + k
         /\ DOMAIN emitted' = DOMAIN emitted \cup Fresh
         /\ Indexes(es) \in Seq(Fresh) /\ Len(Indexes(es)) = Len(es) /\ ToSet(Indexes(es)) = Fresh
         /\ \A k \in 1..Len(es) : Indexes(es)[k] = Len(emitted) + k
<1>1. /\ emitted' \in Seq(EventType) /\ Len(emitted') = Len(emitted) + Len(es)
      /\ \A k \in 1..Len(emitted) : emitted'[k] = emitted[k]
      /\ \A k \in 1..Len(es) : emitted'[Len(emitted) + k] = es[k]
      /\ \A k \in 1..Len(emitted) + Len(es) : k \in 1..Len(emitted) \/ \E n \in 1..Len(es) : k = Len(emitted) + n
  BY Joined
<1>2. /\ DOMAIN emitted = 1..Len(emitted) /\ Len(emitted) \in Nat /\ DOMAIN es = 1..Len(es) /\ Len(es) \in Nat
      /\ DOMAIN emitted' = 1..Len(emitted) + Len(es)
  BY <1>1, SequenceIs
<1>3. \A i \in DOMAIN emitted : i \in DOMAIN emitted' /\ emitted'[i] = emitted[i]
  BY <1>1, <1>2
<1>4. \A k \in 1..Len(es) : Len(emitted) + k \in Fresh /\ emitted'[Len(emitted) + k] = es[k]
  <2>1. \A n, m \in Nat : \A k \in 1..m : n + k \in 1..n + m /\ n + k \notin 1..n
    OBVIOUS
  <2>2. \A k \in 1..Len(es) : Len(emitted) + k \in Fresh
    BY <1>2, <2>1, Zenon DEF Fresh
  <2> QED
    BY <1>1, <2>2, Zenon
<1>5. \A i \in Fresh : i > Len(emitted) /\ \E k \in 1..Len(es) : i = Len(emitted) + k
  BY <1>1, <1>2, SMTT(30) DEF Fresh
<1>6. Indexes(es) = [k \in 1..Len(es) |-> Len(emitted) + k]
  BY <1>2 DEF Indexes
<1>7. Indexes(es) \in [1..Len(es) -> Fresh] /\ \A k \in 1..Len(es) : Indexes(es)[k] = Len(emitted) + k
  BY <1>4, <1>6
<1>8. Indexes(es) \in Seq(Fresh) /\ Len(Indexes(es)) = Len(es)
  BY <1>2, <1>7, SeqDef, LenProperties
<1>9. ToSet(Indexes(es)) = Fresh
  <2>1. ToSet(Indexes(es)) = {Indexes(es)[k] : k \in 1..Len(es)}
    BY <1>8, ToSetIs
  <2> QED
    BY <1>4, <1>5, <1>7, <2>1
<1>10. DOMAIN emitted' = DOMAIN emitted \cup Fresh
  BY <1>3 DEF Fresh
<1> QED
  BY <1>1, <1>2, <1>3, <1>4, <1>5, <1>7, <1>8, <1>9, <1>10

\* What is said in a step: it is told, kept for the next report, and noted while one is written.
Says(es) ==
  /\ emitted' = emitted \o es
  /\ savedAt' = IF saving # <<>> THEN savedAt \cup ToSet(Indexes(es)) ELSE savedAt
  /\ buffer' = (IF BrowserSaved THEN <<>> ELSE IF Hears(Browser) THEN buffer \o Indexes(es) ELSE buffer)
  /\ wire' \subseteq wire \cup {0} \cup ToSet(Indexes(es))

\* The event is of none of the steps.
Plain(e) == e.kind \in {"log", "artifact", "execution"}

\* What the event is of.
Known(e) ==
  \/ Plain(e)
  \/ FeatureLine /\ e.kind = "feature" /\ e.id = <<feature>>
  \/ StepStarts /\ e.kind = "start" /\ e.id = Last(open')
  \/ (StepDone \/ StepReruns) /\ open # <<>> /\ phase = "body" /\ e.kind = "end" /\ e.id = Last(open)
  \/ (\E ok \in BOOLEAN : FinalizerRuns(ok)) /\ e.kind \in {"start", "end"} /\ e.id = <<FinalizerPath, finalizers.index>>

LEMMA EventIs ==
  ASSUME NEW id \in Seq(Nat), NEW kind \in {"log", "artifact", "feature", "execution", "start", "end"}
  PROVE  /\ Event(kind, id) \in EventType /\ Event(kind, id).kind = kind /\ Event(kind, id).id = id
         /\ \A ok \in BOOLEAN : [Event(kind, id) EXCEPT !.ok = ok] =
                                [kind |-> kind, id |-> id, ok |-> ok]
         /\ \A ok \in BOOLEAN : [kind |-> kind, id |-> id, ok |-> ok] \in EventType
BY DEF Event, EventType

LEMMA Innermost ==
  ASSUME open \in Seq(Seq(Nat)), open # <<>>
  PROVE  /\ Len(open) \in Nat /\ Len(open) >= 1 /\ DOMAIN open = 1..Len(open)
         /\ Last(open) = open[Len(open)] /\ Last(open) \in Seq(Nat)
         /\ Front(open) \in Seq(Seq(Nat)) /\ Len(Front(open)) = Len(open) - 1
         /\ \A k \in 1..Len(open) - 1 : Front(open)[k] = open[k]
<1>1. Len(open) \in Nat /\ DOMAIN open = 1..Len(open) /\ Len(open) # 0 /\ \A k \in 1..Len(open) : open[k] \in Seq(Nat)
  BY SequenceIs
<1>2. Last(open) = open[Len(open)] /\ Front(open) = SubSeq(open, 1, Len(open) - 1)
  BY DEF Last, Front
<1>3. /\ SubSeq(open, 1, Len(open) - 1) \in Seq(Seq(Nat)) /\ Len(SubSeq(open, 1, Len(open) - 1)) = Len(open) - 1
      /\ \A k \in 1..Len(open) - 1 : SubSeq(open, 1, Len(open) - 1)[k] = open[k]
  BY <1>1
<1> QED
  BY <1>1, <1>2, <1>3

LEMMA PlainIs ==
  /\ <<>> \in Seq(Nat) /\ <<0>> \in Seq(Nat)
  /\ Log \in EventType /\ Plain(Log) /\ Trace \in EventType /\ Plain(Trace)
  /\ \A id \in Seq(Nat), kind \in {"log", "artifact", "execution"} : Event(kind, id) \in EventType /\ Plain(Event(kind, id))
BY DEF Log, Trace, Event, EventType, Plain

LEMMA SilentSays ==
  ASSUME emitted \in Seq(EventType), buffer \in Seq(DOMAIN emitted), UNCHANGED <<emitted, savedAt, buffer>>, wire' \subseteq wire, ~BrowserSaved
  PROVE  Says(<<>>)
<1>1. emitted \o <<>> = emitted /\ buffer \o <<>> = buffer
  OBVIOUS
<1>2. Indexes(<<>>) = <<>>
  <2>1. Indexes(<<>>) = [i \in {} |-> Len(emitted) + i]
    BY DEF Indexes
  <2> QED
    BY <2>1
<1>3. ToSet(<<>>) = {}
  BY DEF ToSet
<1> QED
  BY <1>1, <1>2, <1>3 DEF Says

LEMMA EmitSays ==
  ASSUME NEW o, NEW es \in Seq(EventType), EmitFrom(o, es), ~BrowserSaved
  PROVE  Says(es)
BY DEF EmitFrom, Broadcast, Buffered, Says

LEMMA SavesAtItsHook ==
  /\ BrowserSaved => Hook("endFeature", Browser) /\ saving # <<>> /\ saving' = <<>> /\ Passes
  /\ saving' = saving \/ saving = <<>> => ~BrowserSaved
BY DEF BrowserSaved

\* The events of a step are appended, and each is of the action that emits it.
LEMMA Emissions ==
  ASSUME ControlTypes, DataTypes, SavingInv, MonitorsNext
  PROVE  \E es \in Seq(EventType) : Says(es) /\ \A k \in 1..Len(es) : Known(es[k])
<1>0. /\ emitted \in Seq(EventType) /\ buffer \in Seq(DOMAIN emitted) /\ open \in Seq(Seq(Nat))
      /\ feature \in Nat /\ steps \in Nat
  <2>1. Features \in Nat /\ setup.steps \in Nat
    BY Listed
  <2> QED
    BY <2>1 DEF DataTypes, ControlTypes
<1>1. ASSUME UNCHANGED <<emitted, savedAt, buffer>>, wire' \subseteq wire, saving' = saving \/ saving = <<>>
      PROVE  \E es \in Seq(EventType) : Says(es) /\ \A k \in 1..Len(es) : Known(es[k])
  <2>1. Says(<<>>)
    BY <1>0, <1>1, SilentSays, SavesAtItsHook
  <2>2. <<>> \in Seq(EventType) /\ Len(<<>>) = 0
    OBVIOUS
  <2>3. \A k \in 1..0 : Known(<<>>[k])
    OBVIOUS
  <2> QED
    BY <2>1, <2>2, <2>3
<1>2. ASSUME NEW o, NEW es \in Seq(EventType), EmitFrom(o, es), saving' = saving, \A k \in 1..Len(es) : Known(es[k])
      PROVE  \E fs \in Seq(EventType) : Says(fs) /\ \A k \in 1..Len(fs) : Known(fs[k])
  BY <1>2, EmitSays, SavesAtItsHook
<1>3. ASSUME NEW e \in EventType
      PROVE  <<e>> \in Seq(EventType) /\ Len(<<e>>) = 1 /\ (Known(e) => \A k \in 1..Len(<<e>>) : Known(<<e>>[k]))
  <2>1. <<e>> \in Seq(EventType) /\ Len(<<e>>) = 1 /\ <<e>>[1] = e /\ \A k \in 1..1 : k = 1
    OBVIOUS
  <2> QED
    BY <2>1
<1>4. ASSUME NEW o, NEW e \in EventType, EmitFrom(o, <<e>>), saving' = saving, Known(e)
      PROVE  \E es \in Seq(EventType) : Says(es) /\ \A k \in 1..Len(es) : Known(es[k])
  BY <1>2, <1>3, <1>4
<1>5. Emit(<<Log>>) <=> EmitFrom(otel, <<Log>>)
  BY DEF Emit
<1>6. CASE \/ NoHook \/ ToFirstFeature \/ ToStartFeature \/ ToNextFeature \/ ToDone \/ OtelSetsWorld \/ BrowserSetsWorld
           \/ FinalizerStartsFeature \/ BrowserConnected \/ BrowserCannotListen \/ StepThrows \/ FinalizerThrows
           \/ FinalizersDone \/ BrowserSaves \/ HostEnds \/ OtelEndsFeature \/ PostAnswered
  <2>1. UNCHANGED <<emitted, savedAt, buffer>> /\ wire' \subseteq wire /\ (saving' = saving \/ saving = <<>>)
    BY <1>6 DEF Silent, page, NoHook, ToFirstFeature, ToStartFeature, ToNextFeature, ToDone, OtelSetsWorld, BrowserSetsWorld,
         FinalizerStartsFeature, BrowserConnected, BrowserCannotListen, StepThrows, FinalizerThrows, FinalizersDone,
         BrowserSaves, HostEnds, OtelEndsFeature, PostAnswered
  <2> QED
    BY <1>1, <2>1
<1>7. CASE \/ ToBody \/ OtelInitializes \/ BrowserCannotSave \/ OtelShutsDown
  <2>1. saving' = saving /\ \E o : EmitFrom(o, <<Log>>)
    BY <1>7 DEF page, Emit, ToBody, OtelInitializes, BrowserCannotSave, OtelShutsDown
  <2>2. Log \in EventType /\ Known(Log)
    BY PlainIs DEF Known
  <2> QED
    BY <1>4, <2>1, <2>2
<1>8. CASE \/ ToEndExecution \/ VideoEnds \/ Traffic
  <2>1. saving' = saving /\ \/ EmitFrom(otel, <<Event("execution", <<>>)>>) \/ EmitFrom(otel, <<Event("artifact", <<>>)>>)
                            \/ EmitFrom(otel, <<Trace>>)
    BY <1>8 DEF page, Emit, ToEndExecution, VideoEnds, Traffic
  <2>2. \A e \in {Event("execution", <<>>), Event("artifact", <<>>), Trace} : e \in EventType /\ Known(e)
    BY PlainIs DEF Known
  <2> QED
    BY <1>4, <2>1, <2>2
<1>9. CASE ToEndFeature
  <2>1. saving' = saving /\ (EmitFrom(otel, <<Event("artifact", <<>>)>>) \/ EmitFrom(otel, <<>>))
    BY <1>9 DEF page, Emit, ToEndFeature
  <2>2. Event("artifact", <<>>) \in EventType /\ Known(Event("artifact", <<>>))
    BY PlainIs DEF Known
  <2>3. <<>> \in Seq(EventType) /\ \A k \in 1..Len(<<>>) : Known(<<>>[k])
    OBVIOUS
  <2> QED
    BY <1>2, <1>4, <2>1, <2>2, <2>3
<1>10. CASE StepShows
  <2>1. saving' = saving /\ EmitFrom(otel, <<Event("artifact", Append(Last(open), 0))>>) /\ open # <<>>
    BY <1>10 DEF page, Emit, StepShows
  <2>2. Append(Last(open), 0) \in Seq(Nat)
    BY <1>0, <2>1, Innermost
  <2>3. Event("artifact", Append(Last(open), 0)) \in EventType /\ Known(Event("artifact", Append(Last(open), 0)))
    BY <2>2, PlainIs DEF Known
  <2> QED
    BY <1>4, <2>1, <2>3
<1>11. CASE BrowserConnects \/ PostFails \/ BrowserSaved
  <2>1. <<Log>> \in Seq(EventType) /\ \A k \in 1..Len(<<Log>>) : Known(<<Log>>[k])
    <3>1. Log \in EventType /\ Known(Log)
      BY PlainIs DEF Known
    <3> QED
      BY <1>3, <3>1
  <2>2. emitted' = emitted \o <<Log>>
    <3>1. Append(emitted, Log) = emitted \o <<Log>>
      BY <1>0, PlainIs
    <3> QED
      BY <1>11, <3>1 DEF BrowserConnects, PostFails, BrowserSaved, Broadcast
  <2>3. savedAt' = IF saving # <<>> THEN savedAt \cup ToSet(Indexes(<<Log>>)) ELSE savedAt
    <3>1. CASE BrowserConnects
      <4>1. saving = <<>>
        <5>1. phase = "startFeature"
          BY <3>1 DEF BrowserConnects, Hook
        <5> QED
          BY <5>1 DEF SavingInv, Hook
      <4> QED
        BY <3>1, <4>1 DEF BrowserConnects
    <3>2. CASE PostFails
      <4>1. ToSet(Indexes(<<Log>>)) = {Len(emitted) + 1}
        <5>1. Indexes(<<Log>>) = [i \in 1..1 |-> Len(emitted) + i]
          BY DEF Indexes
        <5> QED
          BY <5>1 DEF ToSet
      <4> QED
        BY <3>2, <4>1 DEF PostFails
    <3>3. CASE BrowserSaved
      BY <3>3 DEF BrowserSaved, Broadcast
    <3> QED
      BY <1>11, <3>1, <3>2, <3>3
  <2>4. buffer' = (IF BrowserSaved THEN <<>> ELSE IF Hears(Browser) THEN buffer \o Indexes(<<Log>>) ELSE buffer)
    <3>1. CASE BrowserSaved
      BY <3>1 DEF BrowserSaved, NoEvents
    <3>2. CASE ~BrowserSaved
      BY <1>11, <3>2 DEF BrowserConnects, PostFails, Buffered
    <3> QED
      BY <3>1, <3>2
  <2>5. wire' \subseteq wire \cup {0} \cup ToSet(Indexes(<<Log>>))
    <3>1. ToSet(Indexes(<<Log>>)) = {Len(emitted) + 1}
      <4>1. Indexes(<<Log>>) = [i \in 1..1 |-> Len(emitted) + i]
        BY DEF Indexes
      <4> QED
        BY <4>1 DEF ToSet
    <3>2. CASE BrowserConnects
      BY <3>2 DEF BrowserConnects
    <3>3. CASE PostFails
      BY <3>1, <3>3 DEF PostFails, Posted
    <3>4. CASE BrowserSaved
      BY <3>4 DEF BrowserSaved, Broadcast
    <3> QED
      BY <1>11, <3>2, <3>3, <3>4
  <2> QED
    BY <2>1, <2>2, <2>3, <2>4, <2>5 DEF Says
<1>12. CASE FeatureLine
  <2>1. saving' = saving /\ EmitFrom(otel, <<Event("feature", <<feature>>)>>)
    BY <1>12 DEF page, Emit, FeatureLine
  <2>2. <<feature>> \in Seq(Nat)
    BY <1>0
  <2>3. Event("feature", <<feature>>) \in EventType /\ Known(Event("feature", <<feature>>))
    <3> DEFINE line == Event("feature", <<feature>>)
    <3>1. line \in EventType /\ line.kind = "feature" /\ line.id = <<feature>>
      BY <2>2, EventIs
    <3> HIDE DEF line
    <3>2. Known(line)
      BY <1>12, <3>1, Zenon DEF Known
    <3> QED
      BY <3>1, <3>2 DEF line
  <2> QED
    BY <1>4, <2>1, <2>3
<1>13. CASE StepStarts
  <2> DEFINE id == (IF open = <<>> THEN <<feature>> ELSE Last(open)) \o <<steps + 1>>
  <2>1. saving' = saving /\ open' = Append(open, id) /\ EmitFrom(otel, <<Event("start", id)>>)
    BY <1>13 DEF page, Emit, StepStarts
  <2>2. id \in Seq(Nat)
    <3>1. (IF open = <<>> THEN <<feature>> ELSE Last(open)) \in Seq(Nat) /\ <<steps + 1>> \in Seq(Nat)
      BY <1>0, Innermost
    <3> QED
      BY <3>1
  <2> HIDE DEF id
  <2>3. Last(open') = id
    BY <1>0, <2>1, <2>2 DEF Last
  <2>4. Event("start", id) \in EventType /\ Known(Event("start", id))
    BY <1>13, <2>2, <2>3, EventIs DEF Known
  <2> QED
    BY <1>4, <2>1, <2>4
<1>14. CASE StepReruns \/ StepDone
  <2>1. saving' = saving /\ open # <<>> /\ phase = "body" /\ \E ok \in BOOLEAN : \E o : EmitFrom(o, <<StepEnd(ok)>>)
    <3>1. CASE StepReruns
      BY <3>1 DEF StepReruns, page, Emit
    <3>2. CASE \E ok \in BOOLEAN : StepEnds(ok)
      BY <3>2 DEF StepEnds, Returns, page, Emit
    <3>3. CASE RegisterFinalizer
      BY <3>3 DEF RegisterFinalizer, Returns, page, Emit
    <3>4. CASE StartOtelSpan
      BY <3>4 DEF StartOtelSpan, Returns, page
    <3>5. CASE EndOtelSpan
      BY <3>5 DEF EndOtelSpan, Returns, page
    <3> QED
      BY <1>14, <3>1, <3>2, <3>3, <3>4, <3>5 DEF StepDone
  <2>2. PICK ok \in BOOLEAN : \E o : EmitFrom(o, <<StepEnd(ok)>>)
    BY <2>1
  <2>3. Last(open) \in Seq(Nat)
    BY <1>0, <2>1, Innermost
  <2>4. StepEnd(ok) = [kind |-> "end", id |-> Last(open), ok |-> ok] /\ StepEnd(ok) \in EventType
    BY <2>3, EventIs DEF StepEnd
  <2>5. Known(StepEnd(ok))
    BY <1>14, <2>1, <2>4 DEF Known
  <2> QED
    BY <1>4, <2>1, <2>2, <2>4, <2>5
<1>15. CASE \E ok \in BOOLEAN : FinalizerRuns(ok)
  <2>1. PICK ok \in BOOLEAN : FinalizerRuns(ok)
    BY <1>15
  <2> DEFINE id == <<FinalizerPath, finalizers.index>>
             end == [Event("end", id) EXCEPT !.ok = ok]
             es == IF ok THEN <<Event("start", id), end>> ELSE <<Event("start", id), end, Log>>
  <2>2. saving' = saving /\ EmitFrom(otel, es)
    BY <2>1 DEF FinalizerRuns, page, Emit
  <2>3. id \in Seq(Nat)
    <3>1. finalizers.index \in Nat
      BY DEF DataTypes, FinalizersType
    <3> QED
      BY <3>1 DEF FinalizerPath
  <2>4. /\ Event("start", id) \in EventType /\ end \in EventType
        /\ Event("start", id).kind = "start" /\ Event("start", id).id = id /\ end.kind = "end" /\ end.id = id
    <3>0. \A k \in BOOLEAN : [Event("end", id) EXCEPT !.ok = k] = [kind |-> "end", id |-> id, ok |-> k]
      BY <2>3, EventIs
    <3>1. [kind |-> "end", id |-> id, ok |-> ok] \in EventType
      BY <2>3, EventIs
    <3>2. end = [kind |-> "end", id |-> id, ok |-> ok]
      BY <3>0
    <3> HIDE DEF end, id
    <3>3. end.kind = "end" /\ end.id = id /\ end \in EventType
      BY <3>1, <3>2
    <3> QED
      BY <2>3, <3>3, EventIs
  <2>5. Known(Event("start", id)) /\ Known(end) /\ Known(Log) /\ Log \in EventType
    BY <1>15, <2>4, PlainIs DEF Known
  <2> HIDE DEF end, id
  <2>6. es \in Seq(EventType) /\ \A k \in 1..Len(es) : Known(es[k])
    <3>1. \A a, b, c \in EventType : <<a, b>> \in Seq(EventType) /\ <<a, b, c>> \in Seq(EventType)
      OBVIOUS
    <3>2. \A a, b, c : /\ \A k \in 1..Len(<<a, b>>) : <<a, b>>[k] \in {a, b}
                       /\ \A k \in 1..Len(<<a, b, c>>) : <<a, b, c>>[k] \in {a, b, c}
      OBVIOUS
    <3>3. CASE ok
      <4>1. es = <<Event("start", id), end>> /\ es \in Seq(EventType)
        BY <2>4, <2>5, <3>1, <3>3
      <4> QED
        BY <2>5, <3>2, <4>1
    <3>4. CASE ~ok
      <4>1. es = <<Event("start", id), end, Log>> /\ es \in Seq(EventType)
        BY <2>4, <2>5, <3>1, <3>4
      <4> QED
        BY <2>5, <3>2, <4>1
    <3> QED
      BY <3>3, <3>4
  <2> HIDE DEF es
  <2> QED
    BY <1>2, <2>2, <2>6
<1> QED
  BY <1>6, <1>7, <1>8, <1>9, <1>10, <1>11, <1>12, <1>13, <1>14, <1>15 DEF MonitorsNext, StepDone

\* What is there of a step's events, and what the monitors keep of them.
LEMMA Told ==
  ASSUME ControlTypes, DataTypes, SavingInv, MonitorsNext
  PROVE  /\ emitted' \in Seq(EventType)
         /\ DOMAIN emitted' = DOMAIN emitted \cup Fresh /\ DOMAIN emitted' \subseteq Nat \ {0}
         /\ \A i \in DOMAIN emitted : emitted'[i] = emitted[i]
         /\ \A i \in DOMAIN emitted, j \in Fresh : i < j
         /\ \A i \in Fresh : Known(emitted'[i])
         /\ savedAt' = IF saving # <<>> THEN savedAt \cup Fresh ELSE savedAt
         /\ BrowserSaved => buffer' = <<>>
         /\ wire' \subseteq wire \cup {0} \cup Fresh
         /\ \E fs \in Seq(Fresh) :
              /\ ~BrowserSaved => buffer' = buffer \o fs
              /\ \A k, l \in 1..Len(fs) : k < l => fs[k] < fs[l]
              /\ ToSet(fs) = IF Hears(Browser) THEN Fresh ELSE {}
<1>1. PICK es \in Seq(EventType) : Says(es) /\ \A k \in 1..Len(es) : Known(es[k])
  BY Emissions
<1>2. emitted \in Seq(EventType) /\ emitted' = emitted \o es
  BY <1>1 DEF Says, DataTypes
<1>3. /\ emitted' \in Seq(EventType)
      /\ DOMAIN emitted = 1..Len(emitted) /\ DOMAIN emitted' = 1..Len(emitted) + Len(es)
      /\ \A i \in DOMAIN emitted : i \in DOMAIN emitted' /\ emitted'[i] = emitted[i]
      /\ \A k \in 1..Len(es) : Len(emitted) + k \in Fresh /\ emitted'[Len(emitted) + k] = es[k]
      /\ \A i \in Fresh : i > Len(emitted) /\ \E k \in 1..Len(es) : i = Len(emitted) + k
      /\ DOMAIN emitted' = DOMAIN emitted \cup Fresh
      /\ Indexes(es) \in Seq(Fresh) /\ Len(Indexes(es)) = Len(es) /\ ToSet(Indexes(es)) = Fresh
      /\ \A k \in 1..Len(es) : Indexes(es)[k] = Len(emitted) + k
  BY <1>2, Extended
<1>4. Len(emitted) \in Nat /\ Len(es) \in Nat
  BY <1>2, SequenceIs
<1>5. \A i \in DOMAIN emitted, j \in Fresh : i < j
  BY <1>3, <1>4
<1>6. \A i \in Fresh : Known(emitted'[i])
  <2> SUFFICES ASSUME NEW i \in Fresh PROVE Known(emitted'[i])
    OBVIOUS
  <2>1. PICK k \in 1..Len(es) : i = Len(emitted) + k
    BY <1>3
  <2>2. emitted'[i] = es[k] /\ Known(es[k])
    BY <1>1, <1>3, <2>1
  <2> QED
    BY <2>2, Zenon
<1>7. savedAt' = IF saving # <<>> THEN savedAt \cup Fresh ELSE savedAt
  BY <1>1, <1>3 DEF Says
<1>8. wire' \subseteq wire \cup {0} \cup Fresh
  BY <1>1, <1>3 DEF Says
<1>9. \E fs \in Seq(Fresh) :
         /\ ~BrowserSaved => buffer' = buffer \o fs
         /\ \A k, l \in 1..Len(fs) : k < l => fs[k] < fs[l]
         /\ ToSet(fs) = IF Hears(Browser) THEN Fresh ELSE {}
  <2>1. CASE Hears(Browser)
    <3>1. ~BrowserSaved => buffer' = buffer \o Indexes(es)
      BY <1>1, <2>1 DEF Says
    <3>2. \A k, l \in 1..Len(Indexes(es)) : k < l => Indexes(es)[k] < Indexes(es)[l]
      BY <1>3, <1>4
    <3> QED
      BY <1>3, <2>1, <3>1, <3>2
  <2>2. CASE ~Hears(Browser)
    <3>1. ~BrowserSaved => buffer' = buffer \o <<>>
      <4>1. buffer \o <<>> = buffer
        BY DEF DataTypes
      <4> QED
        BY <1>1, <2>2, <4>1 DEF Says
    <3>2. <<>> \in Seq(Fresh) /\ \A k, l \in 1..Len(<<>>) : k < l => <<>>[k] < <<>>[l]
      OBVIOUS
    <3>3. ToSet(<<>>) = {}
      BY DEF ToSet
    <3> QED
      BY <2>2, <3>1, <3>2, <3>3
  <2> QED
    BY <2>1, <2>2
<1>10. BrowserSaved => buffer' = <<>>
  BY <1>1 DEF Says
<1>11. DOMAIN emitted' \subseteq Nat \ {0}
  BY <1>3, <1>4
<1> QED
  BY <1>3, <1>5, <1>6, <1>7, <1>8, <1>9, <1>10, <1>11

-----------------------------------------------------------------------------
(* The parts of the invariant: steps, their paths and their events.         *)

LEMMA OpenStep ==
  ASSUME ControlTypes, DataTypes, OpenInv, MonitorsNext
  PROVE  OpenInv' /\ open' \in Seq(Seq(Nat)) /\ Len(open') <= 2 /\ steps' \in 0..setup.steps /\ steps' >= steps
<1>0. open \in Seq(Seq(Nat)) /\ Len(open) <= 2 /\ steps \in Nat /\ setup.steps \in Nat /\ steps \in 0..setup.steps /\ feature \in Nat
  BY Listed DEF DataTypes, ControlTypes
<1>1. /\ Len(open) \in Nat /\ DOMAIN open = 1..Len(open) /\ (\A k \in 1..Len(open) : open[k] \in Seq(Nat))
      /\ (open = <<>> <=> Len(open) = 0)
  BY <1>0, SequenceIs
<1>2. ASSUME open' = open, steps' = steps, phase' \notin {"body", "failed"} => open = <<>>, feature' = feature \/ open = <<>>
      PROVE  OpenInv'
  BY <1>1, <1>2 DEF OpenInv
<1>3. CASE UNCHANGED exec
  <2>1. open' = open /\ steps' = steps
    BY <1>3 DEF exec
  <2>0. phase \notin {"body", "failed"} => open = <<>>
    BY DEF OpenInv
  <2>2. CASE UNCHANGED run
    <3>1. phase' = phase /\ feature' = feature
      BY <2>2 DEF run
    <3> QED
      BY <1>0, <1>2, <2>0, <2>1, <3>1
  <2>3. CASE Throws
    <3>1. phase' = "failed" /\ feature' = feature
      BY <2>3 DEF Throws
    <3> QED
      BY <1>0, <1>2, <2>0, <2>1, <3>1
  <2>4. CASE Passes /\ phase \in DOMAIN Hooks
    <3>1. phase' = phase /\ feature' = feature
      BY <2>4 DEF Passes
    <3> QED
      BY <1>0, <1>2, <2>0, <2>1, <3>1
  <2>5. CASE Begin
    <3>1. open = <<>>
      <4>1. CASE ToEndFeature
        BY <4>1 DEF ToEndFeature
      <4>2. CASE ~ToEndFeature
        <5>1. phase \notin {"body", "failed"}
          BY <2>5, <4>2 DEF Begin, HooksDone, ToFirstFeature, ToStartFeature, ToBody, ToNextFeature, ToEndExecution, ToDone
        <5> QED
          BY <5>1 DEF OpenInv
      <4> QED
        BY <4>1, <4>2
    <3> QED
      BY <1>0, <1>2, <2>1, <3>1
  <2> QED
    BY <1>0, <2>1, <2>2, <2>3, <2>4, <2>5, RunFrame
<1>4. CASE ToBody
  <2>1. open' = <<>> /\ steps' = steps
    BY <1>4 DEF ToBody
  <2>2. Len(<<>>) = 0 /\ <<>> \in Seq(Seq(Nat)) /\ DOMAIN <<>> = {}
    OBVIOUS
  <2> QED
    BY <1>0, <2>1, <2>2 DEF OpenInv
<1>5. CASE FeatureLine
  <2>1. open' = open /\ steps' = steps /\ phase' = phase /\ feature' = feature
    BY <1>5 DEF FeatureLine, Stays, run
  <2> QED
    BY <1>0, <2>1 DEF OpenInv
<1>6. CASE StepStarts
  <2> DEFINE parent == IF open = <<>> THEN <<feature>> ELSE Last(open)
             id == parent \o <<steps + 1>>
  <2>1. phase = "body" /\ phase' = phase /\ feature' = feature /\ steps < setup.steps /\ Len(open) < 2 /\ open' = Append(open, id) /\ steps' = steps + 1
    BY <1>6 DEF StepStarts, Stays, run
  <2>2. parent \in Seq(Nat) /\ Len(parent) = Len(open) + 1 /\ parent[1] = feature
    <3>1. CASE open = <<>>
      <4>1. parent = <<feature>>
        BY <3>1
      <4> QED
        BY <1>0, <1>1, <3>1, <4>1
    <3>2. CASE open # <<>>
      <4>1. parent = open[Len(open)] /\ Len(open) \in DOMAIN open
        BY <1>0, <1>1, <3>2, Innermost
      <4> QED
        BY <1>1, <4>1 DEF OpenInv
    <3> QED
      BY <3>1, <3>2
  <2> HIDE DEF parent
  <2>3. id \in Seq(Nat) /\ Len(id) = Len(open) + 2 /\ id[1] = feature /\ id[Len(open) + 2] = steps + 1
    <3>1. <<steps + 1>> \in Seq(Nat) /\ Len(<<steps + 1>>) = 1 /\ <<steps + 1>>[1] = steps + 1
      BY <1>0
    <3>2. /\ id \in Seq(Nat) /\ Len(id) = Len(parent) + 1
          /\ \A k \in 1..Len(parent) : id[k] = parent[k]
          /\ \A k \in 1..1 : id[Len(parent) + k] = <<steps + 1>>[k]
      BY <2>2, <3>1, Joined
    <3>3. 1 \in 1..Len(parent) /\ 1 \in 1..1 /\ Len(parent) + 1 = Len(open) + 2
      BY <1>1, <2>2
    <3> QED
      BY <2>2, <3>1, <3>2, <3>3
  <2> HIDE DEF id
  <2>4. open' \in Seq(Seq(Nat)) /\ Len(open') = Len(open) + 1 /\ open'[Len(open) + 1] = id /\ \A k \in 1..Len(open) : open'[k] = open[k]
    BY <1>0, <2>1, <2>3
  <2>5. DOMAIN open' = 1..Len(open) + 1
    BY <2>4, SequenceIs
  <2>6. \A k \in DOMAIN open' : Len(open'[k]) = k + 1 /\ open'[k][1] = feature /\ open'[k][k + 1] <= steps + 1
    <3> SUFFICES ASSUME NEW k \in DOMAIN open' PROVE Len(open'[k]) = k + 1 /\ open'[k][1] = feature /\ open'[k][k + 1] <= steps + 1
      OBVIOUS
    <3>1. CASE k = Len(open) + 1
      BY <1>0, <1>1, <2>3, <2>4, <3>1
    <3>2. CASE k # Len(open) + 1
      <4>1. k \in 1..Len(open)
        BY <1>1, <2>5, <3>2
      <4>2. Len(open[k]) = k + 1 /\ open[k][1] = feature /\ open[k][k + 1] <= steps /\ open'[k] = open[k]
        BY <1>1, <2>4, <4>1 DEF OpenInv
      <4>3. open[k] \in Seq(Nat) /\ k + 1 \in 1..Len(open[k])
        BY <1>1, <4>1, <4>2
      <4> DEFINE own == open[k][k + 1]
      <4>4. own \in Nat /\ own <= steps
        BY <4>2, <4>3
      <4>5. open'[k] = open[k] /\ open'[k][k + 1] = own /\ Len(open[k]) = k + 1 /\ open[k][1] = feature
        BY <4>2
      <4> HIDE DEF own
      <4>6. own <= steps + 1
        BY <1>0, <4>4
      <4> QED
        BY <4>5, <4>6
    <3> QED
      BY <3>1, <3>2
  <2>7. Len(open') <= 2 /\ steps' \in 0..setup.steps /\ steps' >= steps
    BY <1>0, <1>1, <2>1, <2>4
  <2> QED
    BY <2>1, <2>4, <2>6, <2>7 DEF OpenInv
<1>7. CASE StepDone
  <2>1. open # <<>> /\ open' = Front(open) /\ phase = "body" /\ phase' = phase /\ feature' = feature /\ steps' = steps
    BY <1>7, Zenon DEF StepDone, StepEnds, RegisterFinalizer, StartOtelSpan, EndOtelSpan, Returns, Stays, run
  <2>2. /\ Front(open) \in Seq(Seq(Nat)) /\ Len(Front(open)) = Len(open) - 1
        /\ \A k \in 1..Len(open) - 1 : Front(open)[k] = open[k]
    BY <1>0, <2>1, Innermost, Zenon
  <2>3. DOMAIN open' = 1..Len(open) - 1 /\ DOMAIN open' \subseteq DOMAIN open
    BY <1>1, <2>1, <2>2, SequenceIs
  <2> QED
    BY <1>0, <1>1, <2>1, <2>2, <2>3 DEF OpenInv
<1> QED
  BY <1>3, <1>4, <1>5, <1>6, <1>7, ExecFrame

LEMMA CurrentStep ==
  ASSUME ControlTypes, DataTypes, MonitorsNext
  PROVE  currentFeature' \in 0..feature' /\ (currentFeature' = currentFeature \/ (FeatureLine /\ currentFeature' = feature))
<1>0. feature \in Nat /\ feature' \in Nat /\ feature' >= feature /\ currentFeature \in 0..feature
  BY ControlStep DEF DataTypes, ControlTypes
<1>1. currentFeature' = currentFeature \/ (FeatureLine /\ currentFeature' = feature)
  BY ExecFrame DEF exec, ToBody, FeatureLine, NewPath, StepStarts, StepDone, StepEnds, RegisterFinalizer, StartOtelSpan, EndOtelSpan
<1> QED
  BY <1>0, <1>1

LEMMA EventStep ==
  ASSUME ControlTypes, DataTypes, OpenInv, EventInv, SavingInv, MonitorsNext
  PROVE  EventInv'
<1>1. /\ DOMAIN emitted' = DOMAIN emitted \cup Fresh /\ emitted' \in Seq(EventType) /\ DOMAIN emitted' \subseteq Nat \ {0}
      /\ \A i \in DOMAIN emitted : emitted'[i] = emitted[i]
      /\ \A i \in Fresh : Known(emitted'[i])
  BY Told
<1>2. /\ OpenInv' /\ open' \in Seq(Seq(Nat)) /\ steps' \in Nat /\ steps' >= steps /\ steps \in Nat
      /\ open \in Seq(Seq(Nat))
  BY OpenStep, Listed DEF DataTypes
<1>3. feature \in Nat /\ feature' \in Nat /\ feature' >= feature /\ ControlTypes'
  BY ControlStep DEF ControlTypes
<1>5. \A i \in DOMAIN emitted : emitted[i].id \in Seq(Nat) /\ emitted[i] \in EventType
  <2>1. emitted \in Seq(EventType)
    BY DEF DataTypes
  <2>2. \A i \in DOMAIN emitted : emitted[i] \in EventType
    BY <2>1, SequenceIs
  <2> QED
    BY <2>2 DEF EventType
<1>6. ASSUME NEW i \in DOMAIN emitted'
      PROVE  LET e == emitted'[i] IN
               /\ e.kind = "start" => e.id # <<>> /\ (e.id[1] = FinalizerPath \/ e.id[1] \in 1..feature')
               /\ e.kind = "end" => e.id # <<>> /\ (e.id[1] = FinalizerPath \/ e.id[Len(e.id)] <= steps')
  <2> DEFINE e == emitted'[i]
  <2>1. CASE i \in DOMAIN emitted
    <3>1. /\ e.kind = "start" => e.id # <<>> /\ (e.id[1] = FinalizerPath \/ e.id[1] \in 1..feature)
          /\ e.kind = "end" => e.id # <<>> /\ (e.id[1] = FinalizerPath \/ e.id[Len(e.id)] <= steps)
          /\ e.id \in Seq(Nat)
      BY <1>1, <1>5, <2>1 DEF EventInv
    <3> HIDE DEF e
    <3>2. e.kind = "start" => e.id # <<>> /\ (e.id[1] = FinalizerPath \/ e.id[1] \in 1..feature')
      BY <1>3, <3>1
    <3>3. e.kind = "end" => e.id # <<>> /\ (e.id[1] = FinalizerPath \/ e.id[Len(e.id)] <= steps')
      <4>1. e.id # <<>> => e.id[Len(e.id)] \in Nat
        BY <3>1, SequenceIs
      <4> QED
        BY <1>2, <3>1, <4>1
    <3> QED
      BY <3>2, <3>3 DEF e
  <2>2. CASE i \in Fresh
    <3>1. Known(e)
      BY <1>1, <2>2
    <3> HIDE DEF e
    <3>2. CASE Plain(e)
      BY <3>2 DEF Plain, e
    <3>3. CASE FeatureLine /\ e.kind = "feature" /\ e.id = <<feature>>
      BY <3>3 DEF e
    <3>4. CASE StepStarts /\ e.kind = "start" /\ e.id = Last(open')
      <4>1. feature' = feature /\ phase = "body" /\ open' # <<>>
        <5>1. \E id : open' = Append(open, id)
          BY <3>4 DEF StepStarts
        <5>2. open' # <<>>
          BY <1>2, <5>1
        <5> QED
          BY <3>4, <5>2 DEF StepStarts, Stays, run
      <4>2. feature \in 1..feature
        BY <1>3, <4>1 DEF ControlTypes
      <4>3. Len(open') \in DOMAIN open' /\ Last(open') = open'[Len(open')] /\ Len(open') \in Nat
        <5>1. Len(open') \in Nat /\ DOMAIN open' = 1..Len(open') /\ Len(open') # 0
          BY <1>2, <4>1, SequenceIs
        <5> QED
          BY <5>1 DEF Last
      <4>4. Len(e.id) = Len(open') + 1 /\ e.id[1] = feature'
        BY <1>2, <3>4, <4>3 DEF OpenInv
      <4>5. e.id # <<>>
        BY <4>3, <4>4
      <4> QED
        BY <3>4, <4>1, <4>2, <4>4, <4>5 DEF e
    <3>5. CASE open # <<>> /\ e.kind = "end" /\ e.id = Last(open)
      <4>1. Len(open) \in DOMAIN open /\ Last(open) = open[Len(open)] /\ Len(open) \in Nat /\ e.id \in Seq(Nat)
        BY <1>2, <3>5, Innermost
      <4>2. Len(e.id) = Len(open) + 1 /\ e.id[Len(open) + 1] <= steps
        BY <3>5, <4>1 DEF OpenInv
      <4>3. e.id # <<>> /\ e.id[Len(e.id)] \in Nat
        <5>1. Len(e.id) # 0
          BY <4>1, <4>2
        <5> QED
          BY <4>1, <5>1, SequenceIs
      <4>4. e.id[Len(e.id)] <= steps'
        BY <1>2, <4>2, <4>3
      <4> QED
        BY <3>5, <4>3, <4>4 DEF e
    <3>6. CASE e.kind \in {"start", "end"} /\ e.id = <<FinalizerPath, finalizers.index>>
      <4>1. e.id # <<>> /\ e.id[1] = FinalizerPath
        BY <3>6
      <4> QED
        BY <3>6, <4>1 DEF e
    <3> QED
      BY <3>1, <3>2, <3>3, <3>4, <3>5, <3>6 DEF Known
  <2> QED
    BY <1>1, <2>1, <2>2
<1> QED
  BY <1>6 DEF EventInv

-----------------------------------------------------------------------------
(* The reports.                                                             *)

\* Reports come and go at the hook of the browser monitor.
LEMMA Writes ==
  ASSUME MonitorsNext
  PROVE  \/ saving' = saving /\ reports' = reports /\ ~BrowserSaved
         \/ /\ Hook("endFeature", Browser) /\ saving = <<>> /\ saving' = <<buffer>> /\ reports' = reports /\ ~BrowserSaved
            /\ UNCHANGED <<run, emitted, buffer, savedAt, fin>>
         \/ /\ BrowserSaved /\ Hook("endFeature", Browser) /\ Passes /\ saving # <<>> /\ saving' = <<>>
            /\ reports' = Append(reports, Head(saving)) /\ UNCHANGED fin
<1>1. CASE BrowserSaves
  BY <1>1, SavesAtItsHook DEF BrowserSaves, Snapshot, Silent, Stays
<1>2. CASE BrowserSaved
  BY <1>2 DEF BrowserSaved
<1>3. CASE BrowserSetsWorld \/ BrowserConnects \/ UNCHANGED page \/ UNCHANGED <<saving, reports, prompters, transport>>
  <2>1. saving' = saving /\ reports' = reports
    BY <1>3 DEF page, BrowserSetsWorld, BrowserConnects
  <2> QED
    BY <2>1, SavesAtItsHook
<1> QED
  BY <1>1, <1>2, <1>3, PageFrame

LEMMA WireStep ==
  ASSUME MonitorsNext, wire # {} => transport = "remote"
  PROVE  wire' # {} => transport' = "remote"
<1>1. CASE BrowserConnects
  BY <1>1 DEF BrowserConnects
<1>2. CASE ~BrowserConnects
  <2>1. transport' = transport
    BY <1>2, PageFrame, Zenon DEF page, BrowserSetsWorld, BrowserSaves, BrowserSaved
  <2>2. wire' \subseteq wire \/ transport = "remote" \/ wire # {}
    BY <1>2, Zenon DEF MonitorsNext, NoHook, ToFirstFeature, ToStartFeature, ToBody, ToEndFeature, ToNextFeature, ToEndExecution, ToDone,
       OtelInitializes, OtelSetsWorld, BrowserSetsWorld, FinalizerStartsFeature, BrowserConnected, FeatureLine, StepStarts,
       BrowserCannotListen, StepReruns, StepShows, StepThrows, Traffic, StepEnds, RegisterFinalizer, StartOtelSpan, EndOtelSpan,
       FinalizerRuns, FinalizerThrows, FinalizersDone, OtelEndsFeature, VideoEnds, BrowserSaves, BrowserCannotSave, BrowserSaved,
       OtelShutsDown, PostAnswered, HostEnds, PostFails, Emit, EmitFrom, Broadcast, Silent
  <2> QED
    BY <2>1, <2>2
<1> QED
  BY <1>1, <1>2

LEMMA SavingStep ==
  ASSUME ControlTypes, DataTypes, SavingInv, MonitorsNext
  PROVE  /\ SavingInv'
         /\ buffer' \in Seq(DOMAIN emitted') /\ saving' \in Seq(Seq(DOMAIN emitted')) /\ reports' \in Seq(Seq(DOMAIN emitted'))
         /\ savedAt' \subseteq DOMAIN emitted' /\ wire' \subseteq {0} \cup DOMAIN emitted'
<1>0. /\ buffer \in Seq(DOMAIN emitted) /\ saving \in Seq(Seq(DOMAIN emitted)) /\ reports \in Seq(Seq(DOMAIN emitted))
      /\ savedAt \subseteq DOMAIN emitted /\ wire \subseteq {0} \cup DOMAIN emitted
  BY DEF DataTypes
<1>1. /\ DOMAIN emitted' = DOMAIN emitted \cup Fresh
      /\ savedAt' = IF saving # <<>> THEN savedAt \cup Fresh ELSE savedAt
      /\ BrowserSaved => buffer' = <<>>
      /\ wire' \subseteq wire \cup {0} \cup Fresh
      /\ \E fs \in Seq(Fresh) : ~BrowserSaved => buffer' = buffer \o fs
  BY Told
<1>2. PICK fs \in Seq(Fresh) : ~BrowserSaved => buffer' = buffer \o fs
  BY <1>1
<1>3. /\ savedAt' \subseteq DOMAIN emitted' /\ wire' \subseteq {0} \cup DOMAIN emitted'
  BY <1>0, <1>1
<1>4. buffer \in Seq(DOMAIN emitted') /\ fs \in Seq(DOMAIN emitted')
  BY <1>0, <1>1, SeqMonotonic
<1>5. Seq(DOMAIN emitted) \subseteq Seq(DOMAIN emitted')
  BY <1>1, SeqMonotonic
<1>6. saving \in Seq(Seq(DOMAIN emitted')) /\ reports \in Seq(Seq(DOMAIN emitted'))
  BY <1>0, <1>5, SeqMonotonic
<1>7. buffer' \in Seq(DOMAIN emitted')
  <2>1. <<>> \in Seq(DOMAIN emitted')
    OBVIOUS
  <2>2. buffer \o fs \in Seq(DOMAIN emitted')
    BY <1>4, Joined
  <2> QED
    BY <1>1, <1>2, <2>1, <2>2
<1>8. saving' \in Seq(Seq(DOMAIN emitted')) /\ reports' \in Seq(Seq(DOMAIN emitted'))
  <2>1. <<buffer>> \in Seq(Seq(DOMAIN emitted')) /\ <<>> \in Seq(Seq(DOMAIN emitted'))
    BY <1>4
  <2>2. saving # <<>> => Append(reports, Head(saving)) \in Seq(Seq(DOMAIN emitted'))
    BY <1>6
  <2> QED
    BY <1>6, <2>1, <2>2, Writes
<1>9. SavingInv'
  <2>1. CASE saving' = saving /\ ~BrowserSaved
    <3> SUFFICES ASSUME saving # <<>>
                 PROVE  /\ phase' = "failed" \/ Hook("endFeature", Browser)'
                        /\ Len(saving) = 1 /\ Len(saving[1]) <= Len(buffer')
                        /\ \A k \in DOMAIN buffer' : IF k <= Len(saving[1]) THEN saving[1][k] = buffer'[k] ELSE buffer'[k] \in savedAt'
      BY <2>1 DEF SavingInv
    <3>1. /\ phase = "failed" \/ Hook("endFeature", Browser)
          /\ Len(saving) = 1 /\ Len(saving[1]) <= Len(buffer)
          /\ \A k \in DOMAIN buffer : IF k <= Len(saving[1]) THEN saving[1][k] = buffer[k] ELSE buffer[k] \in savedAt
      BY DEF SavingInv
    <3>2. phase' = "failed" \/ Hook("endFeature", Browser)'
      <4>1. CASE UNCHANGED run
        BY <3>1, <4>1 DEF run, Hook, list
      <4>2. CASE Throws
        BY <4>2 DEF Throws
      <4>3. CASE Passes \/ Begin
        <5>1. (phase = "endFeature" /\ at \in DOMAIN list /\ list[at] = Browser) \/ phase = "failed"
          BY <3>1 DEF Hook
        <5>3. ~Begin
          BY <5>1, Boundaries
        <5>4. CASE Passes
          <6>1. phase # "failed" => BrowserSaved
            BY <5>1, <5>4, Passing
          <6>2. phase' = phase
            BY <5>4 DEF Passes
          <6> QED
            BY <2>1, <6>1, <6>2
        <5> QED
          BY <4>3, <5>3, <5>4
      <4> QED
        BY <4>1, <4>2, <4>3, RunFrame
    <3>3. saving[1] \in Seq(DOMAIN emitted)
      <4>1. 1 \in 1..Len(saving)
        BY <3>1
      <4> QED
        BY <1>0, <4>1, SequenceIs
    <3>4. /\ Len(saving[1]) \in Nat /\ Len(buffer) \in Nat /\ Len(fs) \in Nat /\ DOMAIN buffer = 1..Len(buffer)
          /\ \A k \in 1..Len(fs) : fs[k] \in Fresh
      BY <1>0, <3>3, SequenceIs
    <3>5. /\ Len(buffer') = Len(buffer) + Len(fs) /\ DOMAIN buffer' = 1..Len(buffer) + Len(fs)
          /\ \A k \in 1..Len(buffer) : buffer'[k] = buffer[k]
          /\ \A k \in 1..Len(fs) : buffer'[Len(buffer) + k] = fs[k]
          /\ \A k \in 1..Len(buffer) + Len(fs) : k \in 1..Len(buffer) \/ \E n \in 1..Len(fs) : k = Len(buffer) + n
      <4> DEFINE all == buffer \o fs
                 T == DOMAIN emitted'
      <4>4. buffer \in Seq(T) /\ fs \in Seq(T)
        BY <1>4
      <4> HIDE DEF T
      <4>1. /\ Len(all) = Len(buffer) + Len(fs)
            /\ \A k \in 1..Len(buffer) : all[k] = buffer[k]
            /\ \A k \in 1..Len(fs) : all[Len(buffer) + k] = fs[k]
            /\ \A k \in 1..Len(buffer) + Len(fs) : k \in 1..Len(buffer) \/ \E n \in 1..Len(fs) : k = Len(buffer) + n
        BY <4>4, Joined, SMTT(30)
      <4>2. buffer' = all
        BY <1>2, <2>1
      <4> HIDE DEF all
      <4>3. DOMAIN buffer' = 1..Len(buffer')
        BY <1>7, SequenceIs
      <4> QED
        BY <4>1, <4>2, <4>3, Zenon
    <3>6. ASSUME NEW k \in DOMAIN buffer'
          PROVE  IF k <= Len(saving[1]) THEN saving[1][k] = buffer'[k] ELSE buffer'[k] \in savedAt'
      <4>1. CASE k \in 1..Len(buffer)
        BY <1>1, <3>1, <3>4, <3>5, <4>1
      <4>2. CASE \E n \in 1..Len(fs) : k = Len(buffer) + n
        <5>1. PICK n \in 1..Len(fs) : k = Len(buffer) + n
          BY <4>2
        <5>2. buffer'[k] \in Fresh
          BY <3>4, <3>5, <5>1
        <5>3. k > Len(saving[1])
          BY <3>1, <3>4, <5>1
        <5> QED
          BY <1>1, <3>4, <5>1, <5>2, <5>3
      <4> QED
        BY <3>5, <4>1, <4>2
    <3> QED
      BY <3>1, <3>2, <3>4, <3>5, <3>6
  <2>2. CASE Hook("endFeature", Browser) /\ saving' = <<buffer>> /\ UNCHANGED <<run, emitted, buffer, savedAt>>
    <3>1. Hook("endFeature", Browser)'
      BY <2>2 DEF Hook, run, list
    <3>2. Len(saving') = 1 /\ saving'[1] = buffer'
      BY <2>2
    <3>3. Len(buffer') \in Nat /\ DOMAIN buffer' = 1..Len(buffer')
      BY <1>7, SequenceIs
    <3> QED
      BY <3>1, <3>2, <3>3 DEF SavingInv
  <2>3. CASE saving' = <<>>
    BY <2>3 DEF SavingInv
  <2> QED
    BY <2>1, <2>2, <2>3, Writes
<1> QED
  BY <1>3, <1>7, <1>8, <1>9

InOrder(q) ==
  \A f, g \in DOMAIN q : \A i \in DOMAIN q[f], j \in DOMAIN q[g] : f < g \/ (f = g /\ i < j) => q[f][i] < q[g][j]

\* A report more is in order if it is, and all of it comes after the others.
LEMMA OneMore ==
  ASSUME NEW R \in Seq(Seq(Nat)), NEW b \in Seq(Nat)
  PROVE  InOrder(Append(R, b)) <=>
           /\ InOrder(R)
           /\ \A f \in DOMAIN R : \A i \in DOMAIN R[f], j \in DOMAIN b : R[f][i] < b[j]
           /\ \A i, j \in DOMAIN b : i < j => b[i] < b[j]
<1> DEFINE q == Append(R, b)
<1>1. q \in Seq(Seq(Nat)) /\ Len(q) = Len(R) + 1 /\ Len(R) \in Nat /\ DOMAIN R = 1..Len(R) /\ DOMAIN q = 1..Len(R) + 1
  BY SequenceIs
<1>2. \A f \in DOMAIN R : f \in DOMAIN q /\ q[f] = R[f] /\ f < Len(R) + 1
  BY <1>1
<1>3. q[Len(R) + 1] = b /\ Len(R) + 1 \in DOMAIN q
  BY <1>1
<1>4. \A f \in DOMAIN q : f \in DOMAIN R \/ f = Len(R) + 1
  BY <1>1
<1>5. \A f \in DOMAIN q : ~(Len(R) + 1 < f)
  BY <1>1
<1> HIDE DEF q
<1>6. ASSUME InOrder(q)
      PROVE  /\ InOrder(R)
             /\ \A f \in DOMAIN R : \A i \in DOMAIN R[f], j \in DOMAIN b : R[f][i] < b[j]
             /\ \A i, j \in DOMAIN b : i < j => b[i] < b[j]
  <2>1. InOrder(R)
    BY <1>2, <1>6 DEF InOrder
  <2>2. ASSUME NEW f \in DOMAIN R, NEW i \in DOMAIN R[f], NEW j \in DOMAIN b PROVE R[f][i] < b[j]
    <3>1. i \in DOMAIN q[f] /\ j \in DOMAIN q[Len(R) + 1]
      BY <1>2, <1>3
    <3>2. q[f][i] < q[Len(R) + 1][j]
      BY <1>2, <1>3, <1>6, <3>1 DEF InOrder
    <3> QED
      BY <1>2, <1>3, <3>2
  <2>3. ASSUME NEW i \in DOMAIN b, NEW j \in DOMAIN b, i < j PROVE b[i] < b[j]
    BY <1>3, <1>6, <2>3 DEF InOrder
  <2> QED
    BY <2>1, <2>2, <2>3
<1>7. ASSUME InOrder(R), \A f \in DOMAIN R : \A i \in DOMAIN R[f], j \in DOMAIN b : R[f][i] < b[j],
             \A i, j \in DOMAIN b : i < j => b[i] < b[j]
      PROVE  InOrder(q)
  <2> SUFFICES ASSUME NEW f \in DOMAIN q, NEW g \in DOMAIN q, NEW i \in DOMAIN q[f], NEW j \in DOMAIN q[g], f < g \/ (f = g /\ i < j)
               PROVE  q[f][i] < q[g][j]
    BY DEF InOrder
  <2>1. CASE f \in DOMAIN R /\ g \in DOMAIN R
    <3>1. q[f] = R[f] /\ q[g] = R[g]
      BY <1>2, <2>1
    <3> QED
      BY <1>7, <2>1, <3>1 DEF InOrder
  <2>2. CASE f \in DOMAIN R /\ g = Len(R) + 1
    <3>1. q[f] = R[f] /\ q[g] = b
      BY <1>2, <1>3, <2>2
    <3> QED
      BY <1>7, <2>2, <3>1
  <2>3. CASE f = Len(R) + 1
    <3>1. g = f
      BY <1>1, <1>5, <2>3
    <3>2. i < j
      BY <1>1, <3>1
    <3>3. q[f] = b /\ q[g] = b
      BY <1>3, <2>3, <3>1
    <3> QED
      BY <1>7, <3>2, <3>3
  <2> QED
    BY <1>4, <2>1, <2>2, <2>3
<1> QED
  BY <1>6, <1>7 DEF q

LEMMA ReportsStep ==
  ASSUME ControlTypes, DataTypes, SavingInv, ReportsHoldTheRun, MonitorsNext
  PROVE  ReportsHoldTheRun'
<1>0. /\ buffer \in Seq(DOMAIN emitted) /\ saving \in Seq(Seq(DOMAIN emitted)) /\ reports \in Seq(Seq(DOMAIN emitted))
      /\ DOMAIN emitted \subseteq Nat
  <2>1. emitted \in Seq(EventType)
    BY DEF DataTypes
  <2>2. DOMAIN emitted = 1..Len(emitted) /\ Len(emitted) \in Nat
    BY <2>1, SequenceIs
  <2> QED
    BY <2>2 DEF DataTypes
<1>1. /\ DOMAIN emitted' = DOMAIN emitted \cup Fresh /\ DOMAIN emitted' \subseteq Nat \ {0}
      /\ \A i \in DOMAIN emitted, j \in Fresh : i < j
      /\ savedAt' = IF saving # <<>> THEN savedAt \cup Fresh ELSE savedAt
      /\ BrowserSaved => buffer' = <<>>
      /\ \E fs \in Seq(Fresh) :
              /\ ~BrowserSaved => buffer' = buffer \o fs
              /\ \A k, l \in 1..Len(fs) : k < l => fs[k] < fs[l]
              /\ ToSet(fs) = IF Hears(Browser) THEN Fresh ELSE {}
  BY Told
<1>2. /\ buffer' \in Seq(DOMAIN emitted') /\ saving' \in Seq(Seq(DOMAIN emitted')) /\ reports' \in Seq(Seq(DOMAIN emitted'))
  BY SavingStep
<1>3. \A S \in SUBSET Nat : Seq(S) \subseteq Seq(Nat) /\ Seq(Seq(S)) \subseteq Seq(Seq(Nat))
  BY SeqMonotonic
<1>4. /\ buffer \in Seq(Nat) /\ reports \in Seq(Seq(Nat)) /\ buffer' \in Seq(Nat) /\ reports' \in Seq(Seq(Nat)) /\ saving \in Seq(Seq(Nat))
  <2>1. DOMAIN emitted \in SUBSET Nat /\ DOMAIN emitted' \in SUBSET Nat
    BY <1>0, <1>1
  <2> QED
    BY <1>0, <1>2, <1>3, <2>1
<1>5. /\ InOrder(Append(reports, buffer))
      /\ Has(Browser) /\ ~Has(Otel) =>
           DOMAIN emitted \ savedAt \subseteq UNION {ToSet(Append(reports, buffer)[f]) : f \in DOMAIN Append(reports, buffer)}
  BY DEF ReportsHoldTheRun, Reported, InOrder
<1>6. /\ InOrder(reports)
      /\ \A f \in DOMAIN reports : \A i \in DOMAIN reports[f], j \in DOMAIN buffer : reports[f][i] < buffer[j]
      /\ \A i, j \in DOMAIN buffer : i < j => buffer[i] < buffer[j]
  BY <1>4, <1>5, OneMore
<1>7. ASSUME InOrder(Append(reports', buffer')),
             Has(Browser) /\ ~Has(Otel) => \A e \in DOMAIN emitted' \ savedAt' :
                (\E f \in DOMAIN reports' : e \in ToSet(reports'[f])) \/ e \in ToSet(buffer')
      PROVE  ReportsHoldTheRun'
  <2>1. Len(reports') \in Nat /\ DOMAIN reports' = 1..Len(reports') /\ DOMAIN Append(reports', buffer') = 1..Len(reports') + 1
    BY <1>4, SequenceIs
  <2>2. /\ \A f \in DOMAIN reports' : f \in DOMAIN Append(reports', buffer') /\ Append(reports', buffer')[f] = reports'[f]
        /\ Len(reports') + 1 \in DOMAIN Append(reports', buffer') /\ Append(reports', buffer')[Len(reports') + 1] = buffer'
    BY <1>4, <2>1
  <2>3. Has(Browser)' <=> Has(Browser)
    BY ControlStep, Turns
  <2>4. Has(Otel)' <=> Has(Otel)
    BY ControlStep, Turns
  <2>5. Has(Browser) /\ ~Has(Otel) =>
          DOMAIN emitted' \ savedAt' \subseteq UNION {ToSet(Append(reports', buffer')[f]) : f \in DOMAIN Append(reports', buffer')}
    BY <1>7, <2>2
  <2>6. InOrder(Append(reports', buffer')) => \A f, g \in DOMAIN Append(reports', buffer') : \A i \in DOMAIN Append(reports', buffer')[f], j \in DOMAIN Append(reports', buffer')[g] :
       f < g \/ (f = g /\ i < j) => Append(reports', buffer')[f][i] < Append(reports', buffer')[g][j]
    BY DEF InOrder
  <2> QED
    BY <1>7, <2>3, <2>4, <2>5, <2>6 DEF ReportsHoldTheRun, Reported
<1>8. Has(Browser) /\ ~Has(Otel) => \A e \in DOMAIN emitted \ savedAt :
        (\E f \in DOMAIN reports : e \in ToSet(reports[f])) \/ e \in ToSet(buffer)
  <2>1. DOMAIN Append(reports, buffer) = 1..Len(reports) + 1 /\ DOMAIN reports = 1..Len(reports) /\ Len(reports) \in Nat
    BY <1>4, SequenceIs
  <2>2. \A f \in DOMAIN Append(reports, buffer) : \/ f \in DOMAIN reports /\ Append(reports, buffer)[f] = reports[f]
                                                 \/ Append(reports, buffer)[f] = buffer
    BY <1>4, <2>1
  <2> QED
    BY <1>5, <2>2
<1>9. CASE saving' = saving /\ reports' = reports /\ ~BrowserSaved
  <2>1. PICK fs \in Seq(Fresh) : /\ buffer' = buffer \o fs
                                 /\ \A k, l \in 1..Len(fs) : k < l => fs[k] < fs[l]
                                 /\ ToSet(fs) = IF Hears(Browser) THEN Fresh ELSE {}
    BY <1>1, <1>9
  <2>2. fs \in Seq(Nat)
    <3>1. Fresh \in SUBSET Nat
      BY <1>1
    <3> QED
      BY <1>3, <3>1
  <2>3. /\ Len(buffer) \in Nat /\ Len(fs) \in Nat /\ DOMAIN buffer = 1..Len(buffer) /\ DOMAIN fs = 1..Len(fs)
        /\ (\A k \in 1..Len(fs) : fs[k] \in Fresh) /\ (\A k \in 1..Len(buffer) : buffer[k] \in DOMAIN emitted)
    BY <1>0, <2>1, SequenceIs
  <2>4. /\ DOMAIN buffer' = 1..Len(buffer) + Len(fs)
        /\ \A k \in 1..Len(buffer) : buffer'[k] = buffer[k]
        /\ \A k \in 1..Len(fs) : buffer'[Len(buffer) + k] = fs[k]
        /\ \A k \in 1..Len(buffer) + Len(fs) : k \in 1..Len(buffer) \/ \E n \in 1..Len(fs) : k = Len(buffer) + n
        /\ ToSet(buffer') = ToSet(buffer) \cup ToSet(fs)
    <3>1. Len(buffer') = Len(buffer) + Len(fs)
      BY <1>4, <2>1, <2>2, Joined
    <3>2. DOMAIN buffer' = 1..Len(buffer')
      BY <1>4, SequenceIs
    <3> QED
      BY <1>4, <2>1, <2>2, <3>1, <3>2, Joined
  <2>5. \A f \in DOMAIN reports : \A i \in DOMAIN reports[f] : reports[f][i] \in DOMAIN emitted
    <3>1. \A f \in DOMAIN reports : reports[f] \in Seq(DOMAIN emitted)
      BY <1>0, SequenceIs
    <3> QED
      BY <3>1, SequenceIs
  <2>6. ASSUME NEW f \in DOMAIN reports, NEW i \in DOMAIN reports[f], NEW j \in DOMAIN buffer' PROVE reports[f][i] < buffer'[j]
    <3>1. CASE j \in 1..Len(buffer)
      BY <1>6, <2>3, <2>4, <3>1
    <3>2. CASE \E n \in 1..Len(fs) : j = Len(buffer) + n
      BY <1>1, <2>3, <2>4, <2>5, <3>2
    <3> QED
      BY <2>4, <3>1, <3>2
  <2>7. ASSUME NEW i \in DOMAIN buffer', NEW j \in DOMAIN buffer', i < j PROVE buffer'[i] < buffer'[j]
    <3>1. CASE j \in 1..Len(buffer)
      <4>1. i \in 1..Len(buffer)
        BY <2>3, <2>4, <2>7, <3>1
      <4> QED
        BY <1>6, <2>3, <2>4, <2>7, <3>1, <4>1
    <3>2. CASE i \in 1..Len(buffer) /\ \E n \in 1..Len(fs) : j = Len(buffer) + n
      BY <1>1, <2>3, <2>4, <3>2
    <3>3. CASE (\E m \in 1..Len(fs) : i = Len(buffer) + m) /\ \E n \in 1..Len(fs) : j = Len(buffer) + n
      <4>1. PICK m \in 1..Len(fs), n \in 1..Len(fs) : i = Len(buffer) + m /\ j = Len(buffer) + n
        BY <3>3
      <4>2. m < n
        BY <2>3, <2>7, <4>1
      <4> QED
        BY <2>1, <2>4, <4>1, <4>2
    <3> QED
      BY <2>4, <3>1, <3>2, <3>3
  <2>8. InOrder(Append(reports', buffer'))
    BY <1>4, <1>6, <1>9, <2>6, <2>7, OneMore
  <2>9. ASSUME Has(Browser), ~Has(Otel), NEW e \in DOMAIN emitted' \ savedAt'
        PROVE  (\E f \in DOMAIN reports' : e \in ToSet(reports'[f])) \/ e \in ToSet(buffer')
    <3>1. Hears(Browser)
      BY <2>9 DEF Hears, ControlTypes
    <3>2. CASE e \in Fresh
      BY <2>1, <2>4, <3>1, <3>2
    <3>3. CASE e \in DOMAIN emitted
      <4>1. e \notin savedAt
        BY <1>1, <2>9
      <4> QED
        BY <1>8, <1>9, <2>4, <2>9, <3>3, <4>1
    <3> QED
      BY <1>1, <2>9, <3>2, <3>3
  <2> QED
    BY <1>7, <2>8, <2>9
<1>10. CASE reports' = reports /\ UNCHANGED <<emitted, buffer, savedAt>>
  BY <1>5, <1>7, <1>8, <1>10
<1>11. CASE BrowserSaved /\ saving # <<>> /\ reports' = Append(reports, Head(saving))
  <2> DEFINE r == saving[1]
  <2>1. /\ Len(saving) = 1 /\ Len(r) <= Len(buffer)
        /\ \A k \in DOMAIN buffer : IF k <= Len(r) THEN r[k] = buffer[k] ELSE buffer[k] \in savedAt
    BY <1>11 DEF SavingInv
  <2>2. r \in Seq(Nat) /\ Head(saving) = r
    <3>1. 1 \in 1..Len(saving)
      BY <2>1
    <3>2. saving[1] \in Seq(Nat)
      BY <1>4, <3>1, SequenceIs
    <3>3. Head(saving) = saving[1]
      BY <1>4, <1>11
    <3> QED
      BY <3>2, <3>3
  <2> HIDE DEF r
  <2>3. Len(r) \in Nat /\ DOMAIN r = 1..Len(r) /\ DOMAIN buffer = 1..Len(buffer) /\ Len(buffer) \in Nat
    BY <1>4, <2>2, SequenceIs
  <2>4. \A k \in DOMAIN r : k \in DOMAIN buffer /\ r[k] = buffer[k]
    BY <2>1, <2>3
  <2>5. InOrder(reports')
    BY <1>4, <1>6, <1>11, <2>2, <2>4, OneMore
  <2>6. buffer' = <<>> /\ DOMAIN <<>> = {}
    BY <1>1, <1>11
  <2>7. InOrder(Append(reports', buffer'))
    BY <1>4, <2>5, <2>6, OneMore
  <2>8. ASSUME Has(Browser), ~Has(Otel), NEW e \in DOMAIN emitted' \ savedAt'
        PROVE  (\E f \in DOMAIN reports' : e \in ToSet(reports'[f])) \/ e \in ToSet(buffer')
    <3>1. e \in DOMAIN emitted /\ e \notin savedAt
      BY <1>1, <1>11, <2>8
    <3>2. /\ DOMAIN reports = 1..Len(reports) /\ Len(reports) \in Nat /\ DOMAIN reports' = 1..Len(reports) + 1
          /\ \A f \in DOMAIN reports : reports'[f] = reports[f]
          /\ reports'[Len(reports) + 1] = r
      BY <1>4, <1>11, <2>2, SequenceIs
    <3>3. CASE \E f \in DOMAIN reports : e \in ToSet(reports[f])
      <4>1. PICK f \in DOMAIN reports : e \in ToSet(reports[f])
        BY <3>3
      <4>2. f \in DOMAIN reports'
        BY <3>2
      <4> QED
        BY <3>2, <4>1, <4>2
    <3>4. CASE e \in ToSet(buffer)
      <4>1. PICK k \in DOMAIN buffer : e = buffer[k]
        BY <3>4 DEF ToSet
      <4>2. k \in DOMAIN r /\ e = r[k]
        BY <2>1, <2>3, <3>1, <4>1
      <4>3. e \in ToSet(r)
        BY <4>2 DEF ToSet
      <4>4. Len(reports) + 1 \in DOMAIN reports'
        BY <3>2
      <4> QED
        BY <3>2, <4>3, <4>4
    <3> QED
      BY <1>8, <2>8, <3>1, <3>3, <3>4
  <2> QED
    BY <1>7, <2>7, <2>8
<1> QED
  BY <1>9, <1>10, <1>11, Writes

LEMMA ReportCountStep ==
  ASSUME ControlTypes, DataTypes, ReportCountInv, MonitorsNext
  PROVE  ReportCountInv'
<1>0. /\ feature \in Nat /\ reports \in Seq(Seq(DOMAIN emitted)) /\ Len(reports) \in Nat
      /\ phase \in {"startExecution", "setWorld", "startFeature", "body", "endFeature", "endExecution", "done", "failed"}
  BY SequenceIs, Listed DEF ControlTypes, DataTypes
<1>1. SUFFICES ASSUME Has(Browser) PROVE ReportCountInv'
  <2>1. Has(Browser)' <=> Has(Browser)
    BY ControlStep, Turns
  <2> QED
    BY <2>1 DEF ReportCountInv
<1>2. /\ phase = "startExecution" => Len(reports) = 0
      /\ phase \in {"setWorld", "startFeature", "body"} => Len(reports) = feature - 1
      /\ phase = "endFeature" => Len(reports) = IF Ahead(Browser) THEN feature - 1 ELSE feature
      /\ phase \in {"endExecution", "done"} => Len(reports) = feature
      /\ phase = "failed" => Len(reports) <= feature
  BY <1>1 DEF ReportCountInv
<1>3. SUFFICES /\ phase' = "startExecution" => Len(reports') = 0
               /\ phase' \in {"setWorld", "startFeature", "body"} => Len(reports') = feature' - 1
               /\ phase' = "endFeature" => Len(reports') = IF Ahead(Browser)' THEN feature' - 1 ELSE feature'
               /\ phase' \in {"endExecution", "done"} => Len(reports') = feature'
               /\ phase' = "failed" => Len(reports') <= feature'
  <2>1. ControlTypes'
    BY ControlStep
  <2> QED
    BY <2>1 DEF ReportCountInv, ControlTypes
<1>4. /\ at' = at => (Ahead(Browser)' <=> Ahead(Browser))
      /\ at' = 1 => (Ahead(Browser)' <=> Has(Browser))
      /\ at' = at + 1 /\ at \in DOMAIN list =>
              /\ list[at] # Browser => (Ahead(Browser)' <=> Ahead(Browser))
              /\ list[at] = Browser => ~Ahead(Browser)'
  BY ControlStep, Turns
<1>5. CASE BrowserSaved
  <2>1. /\ Hook("endFeature", Browser) /\ phase' = phase /\ feature' = feature /\ at' = at + 1 /\ saving # <<>>
        /\ reports' = Append(reports, Head(saving))
    BY <1>5 DEF BrowserSaved, Passes
  <2>2. phase = "endFeature" /\ at \in DOMAIN list /\ list[at] = Browser /\ Ahead(Browser)
    BY <2>1, Places DEF Hook
  <2>3. Len(reports') = Len(reports) + 1
    <3>1. Head(saving) \in Seq(DOMAIN emitted)
      BY <2>1 DEF DataTypes
    <3> QED
      BY <1>0, <2>1, <3>1
  <2> QED
    BY <1>0, <1>2, <1>4, <2>1, <2>2, <2>3
<1>6. CASE ~BrowserSaved
  <2>1. reports' = reports
    BY <1>6, Writes
  <2>2. CASE UNCHANGED run
    BY <1>2, <1>4, <2>1, <2>2 DEF run
  <2>3. CASE Throws /\ phase # "startExecution"
    <3>1. phase' = "failed" /\ feature' = feature
      BY <2>3 DEF Throws
    <3>2. Len(reports) <= feature
      BY <1>0, <1>2, <2>3
    <3> QED
      BY <2>1, <3>1, <3>2
  <2>4. CASE Passes
    <3>1. phase' = phase /\ feature' = feature /\ at' = at + 1
      BY <2>4 DEF Passes
    <3>2. at \in DOMAIN list /\ (phase = "endFeature" => list[at] # Browser)
      BY <1>6, <2>4, Passing
    <3> QED
      BY <1>2, <1>4, <2>1, <3>1, <3>2
  <2>5. CASE Begin
    <3>1. /\ at' = 1
          /\ phase = "body" \/ at = Len(list) + 1
          /\ \/ phase = "startExecution" /\ phase' = "setWorld" /\ feature' = 1
             \/ phase = "setWorld" /\ phase' = "startFeature" /\ feature' = feature
             \/ phase = "startFeature" /\ phase' = "body" /\ feature' = feature
             \/ phase = "body" /\ phase' = "endFeature" /\ feature' = feature
             \/ phase = "endFeature" /\ phase' = "setWorld" /\ feature' = feature + 1
             \/ phase = "endFeature" /\ phase' = "endExecution" /\ feature' = feature
             \/ phase = "endExecution" /\ phase' = "done" /\ feature' = feature
      BY <2>5, Boundaries
    <3>2. phase = "endFeature" => ~Ahead(Browser)
      BY <3>1, Places
    <3> QED
      BY <1>0, <1>1, <1>2, <1>4, <2>1, <3>1, <3>2
  <2> QED
    BY <2>2, <2>3, <2>4, <2>5, RunFrame
<1> QED
  BY <1>5, <1>6

\* A prompter that is subscribed with every world; the first of a feature connects, and only that.
LEMMA PrompterStep ==
  ASSUME ControlTypes, PrompterInv, MonitorsNext
  PROVE  PrompterInv'
<1>0. Has(Browser)' <=> Has(Browser)
  BY ControlStep, Turns
<1>1. /\ Has(Browser) => prompters # <<>>
      /\ prompters \in Seq(BOOLEAN)
      /\ IF transport = "local" THEN \E p \in DOMAIN prompters : {i \in DOMAIN prompters : prompters[i]} = {p}
         ELSE {i \in DOMAIN prompters : prompters[i]} = {}
  BY DEF PrompterInv
<1>2. Len(prompters) \in Nat /\ DOMAIN prompters = 1..Len(prompters) /\ (prompters # <<>> => Len(prompters) # 0)
  BY <1>1, SequenceIs
<1>3. CASE prompters' = prompters /\ transport' = transport
  BY <1>0, <1>1, <1>3 DEF PrompterInv
<1>4. CASE BrowserSetsWorld
  <2>1. prompters' = Append(prompters, FALSE) /\ transport' = transport
    BY <1>4 DEF BrowserSetsWorld
  <2>2. /\ prompters' \in Seq(BOOLEAN) /\ DOMAIN prompters' = 1..Len(prompters) + 1 /\ prompters' # <<>>
        /\ \A i \in DOMAIN prompters : prompters'[i] = prompters[i]
        /\ prompters'[Len(prompters) + 1] = FALSE
    <3>1. \A e \in BOOLEAN :
            /\ Append(prompters, e) \in Seq(BOOLEAN) /\ DOMAIN Append(prompters, e) = 1..Len(prompters) + 1
            /\ DOMAIN prompters = 1..Len(prompters) /\ Append(prompters, e) # <<>>
            /\ \A i \in 1..Len(prompters) : Append(prompters, e)[i] = prompters[i]
            /\ Append(prompters, e)[Len(prompters) + 1] = e
      BY <1>1, Appended
    <3> QED
      BY <2>1, <3>1, Zenon
  <2>3. \A i \in DOMAIN prompters' : i \in DOMAIN prompters \/ i = Len(prompters) + 1
    BY <1>2, <2>2
  <2>4. \A i \in DOMAIN prompters : i \in DOMAIN prompters'
    BY <1>2, <2>2
  <2>5. {i \in DOMAIN prompters' : prompters'[i]} = {i \in DOMAIN prompters : prompters[i]}
    <3>1. \A i \in DOMAIN prompters' : prompters'[i] => i \in DOMAIN prompters /\ prompters[i]
      BY <2>2, <2>3, Zenon
    <3>2. \A i \in DOMAIN prompters : prompters[i] => prompters'[i]
      BY <2>2, Zenon
    <3> QED
      BY <2>4, <3>1, <3>2, Zenon
  <2> QED
    BY <1>1, <2>1, <2>2, <2>4, <2>5 DEF PrompterInv
<1>5. CASE BrowserConnects
  <2>1. /\ transport = "none" /\ transport' = (IF setup.remote THEN "remote" ELSE "local")
        /\ prompters' = [prompters EXCEPT ![Len(prompters)] = ~setup.remote] /\ Hook("startFeature", Browser)
    BY <1>5 DEF BrowserConnects, NoTransportYet
  <2>2. Len(prompters) \in DOMAIN prompters
    <3>1. Has(Browser)
      BY <2>1, Places
    <3> QED
      BY <1>1, <1>2, <3>1
  <2>3. prompters' \in Seq(BOOLEAN) /\ DOMAIN prompters' = DOMAIN prompters /\ prompters' # <<>>
    <3>1. prompters' \in Seq(BOOLEAN) /\ Len(prompters') = Len(prompters)
      BY <1>1, <2>1, <2>2, ExceptSeq
    <3> QED
      BY <1>2, <2>2, <3>1, SequenceIs
  <2>4. \A i \in DOMAIN prompters : prompters'[i] <=> (i = Len(prompters) /\ ~setup.remote)
    <3>1. \A i \in DOMAIN prompters : ~prompters[i]
      BY <1>1, <2>1
    <3>2. prompters'[Len(prompters)] = ~setup.remote
      BY <2>1, <2>2
    <3>3. \A i \in DOMAIN prompters : i # Len(prompters) => prompters'[i] = prompters[i]
      BY <2>1
    <3> QED
      BY <3>1, <3>2, <3>3, Zenon
  <2>5. {i \in DOMAIN prompters' : prompters'[i]} = IF setup.remote THEN {} ELSE {Len(prompters)}
    <3>1. CASE setup.remote
      BY <2>3, <2>4, <3>1, Zenon
    <3>2. CASE ~setup.remote
      <4>1. {i \in DOMAIN prompters' : prompters'[i]} = {Len(prompters)}
        BY <2>2, <2>3, <2>4, <3>2, Zenon
      <4> QED
        BY <3>2, <4>1
    <3> QED
      BY <3>1, <3>2
  <2> QED
    BY <2>1, <2>2, <2>3, <2>5 DEF PrompterInv
<1> QED
  BY <1>3, <1>4, <1>5, PageFrame DEF page, BrowserSaves, BrowserSaved

-----------------------------------------------------------------------------
(* Finalizers.                                                              *)

By == finalizers.byFeature

\* What is done with them.
FinStays == finalizers' = finalizers /\ ran' = ran

FinStarts ==
  /\ FinalizerStartsFeature /\ Hook("startFeature", Finalizer) /\ Passes
  /\ finalizers' \in FinalizersType /\ finalizers'.active = feature
  /\ finalizers'.byFeature = By /\ finalizers'.index = finalizers.index /\ ran' = ran

\* What is registered by a step of the feature.
One == [of |-> feature, lined |-> currentFeature = feature]

FinPath == IF currentFeature # 0 THEN currentFeature ELSE feature

FinRegisters ==
  /\ RegisterFinalizer /\ Has(Finalizer) /\ phase = "body" /\ Stays /\ open # <<>>
  /\ \A f \in 1..Features : \A i \in DOMAIN By[f] : By[f][i].of # feature
  /\ finalizers' \in FinalizersType /\ finalizers'.active = finalizers.active /\ finalizers'.index = finalizers.index
  /\ \A f \in 1..Features : finalizers'.byFeature[f] = IF f = FinPath THEN Append(By[f], One) ELSE By[f]
  /\ ran' = ran

FinRuns ==
  /\ FinalizerHook /\ Stays /\ (\E ok \in BOOLEAN : FinalizerRuns(ok)) /\ phase \in {"endFeature", "endExecution"}
  /\ Key \in 1..Features /\ finalizers.index \in DOMAIN By[Key]
  /\ finalizers' \in FinalizersType /\ finalizers'.active = finalizers.active /\ finalizers'.index = finalizers.index + 1
  /\ finalizers'.byFeature = By
  /\ ran' = Append(ran, [of |-> By[Key][finalizers.index].of, lined |-> By[Key][finalizers.index].lined, phase |-> phase, feature |-> feature, event |-> Len(emitted) + 1])

FinEnds ==
  /\ FinalizerHook /\ FinalizersDone /\ (Passes \/ (Stays /\ phase = "endExecution"))
  /\ phase = "endExecution" /\ Passes => Left = {}
  /\ finalizers' \in FinalizersType /\ finalizers'.active = 0 /\ finalizers'.index = 1
  /\ \A f \in 1..Features : finalizers'.byFeature[f] = IF f = Key THEN <<>> ELSE By[f]
  /\ ran' = ran

LEMMA FinTypes ==
  ASSUME ControlTypes, DataTypes
  PROVE  /\ finalizers \in FinalizersType /\ finalizers.active \in 0..Features /\ finalizers.index \in Nat \ {0}
         /\ By \in [1..Features -> Seq(FinalizerType)]
         /\ \A f \in 1..Features : /\ By[f] \in Seq(FinalizerType) /\ DOMAIN By[f] = 1..Len(By[f]) /\ Len(By[f]) \in Nat
                                   /\ \A i \in DOMAIN By[f] : By[f][i] \in FinalizerType
                                   /\ (By[f] = <<>> <=> DOMAIN By[f] = {})
<1>1. /\ finalizers \in FinalizersType /\ finalizers.active \in 0..Features /\ finalizers.index \in Nat \ {0}
      /\ By \in [1..Features -> Seq(FinalizerType)]
  BY DEF DataTypes, FinalizersType, By
<1>2. ASSUME NEW f \in 1..Features
      PROVE  /\ By[f] \in Seq(FinalizerType) /\ DOMAIN By[f] = 1..Len(By[f]) /\ Len(By[f]) \in Nat
             /\ \A i \in DOMAIN By[f] : By[f][i] \in FinalizerType
             /\ (By[f] = <<>> <=> DOMAIN By[f] = {})
  <2>1. By[f] \in Seq(FinalizerType)
    BY <1>1
  <2>2. /\ DOMAIN By[f] = 1..Len(By[f]) /\ Len(By[f]) \in Nat
        /\ \A i \in DOMAIN By[f] : By[f][i] \in FinalizerType
        /\ (By[f] = <<>> <=> Len(By[f]) = 0)
    BY <2>1, SequenceIs
  <2> QED
    BY <2>1, <2>2
<1> QED
  BY <1>1, <1>2

LEMMA KeyIs ==
  ASSUME ControlTypes, DataTypes
  PROVE  /\ Key \in 0..Features
         /\ phase = "endFeature" => Key = finalizers.active
         /\ phase # "endFeature" /\ Left = {} => Key = 0
         /\ phase # "endFeature" /\ Left # {} => Key \in Left
         /\ Key = 0 => Registered = <<>>
         /\ Key # 0 => Registered = By[Key]
<1>1. Features \in Nat /\ finalizers.active \in 0..Features
  BY Listed, FinTypes
<1>2. Left \subseteq 1..Features
  BY DEF Left
<1>3. ASSUME Left # {} PROVE (CHOOSE f \in Left : \A g \in Left : f <= g) \in Left
  <2>1. Left \in SUBSET Nat
    BY <1>1, <1>2
  <2>2. \E f \in Left : \A g \in Left : f <= g
    BY <1>3, <2>1, LeastExists
  <2> QED
    BY <2>2
<1>4. Key = IF phase = "endFeature" THEN finalizers.active
            ELSE IF Left = {} THEN 0 ELSE CHOOSE f \in Left : \A g \in Left : f <= g
  BY DEF Key
<1>5. /\ phase = "endFeature" => Key = finalizers.active
      /\ phase # "endFeature" /\ Left = {} => Key = 0
      /\ phase # "endFeature" /\ Left # {} => Key \in Left
  BY <1>3, <1>4
<1>6. Key \in 0..Features
  <2>1. CASE phase = "endFeature"
    BY <1>1, <1>5, <2>1
  <2>2. CASE phase # "endFeature" /\ Left = {}
    BY <1>1, <1>5, <2>2
  <2>3. CASE phase # "endFeature" /\ Left # {}
    <3>1. Key \in Left
      BY <1>5, <2>3, Zenon
    <3>2. Key \in 1..Features
      BY <1>2, <3>1, Zenon
    <3> QED
      BY <1>1, <3>2
  <2> QED
    BY <2>1, <2>2, <2>3
<1>7. /\ Key = 0 => Registered = <<>>
      /\ Key # 0 => Registered = By[Key]
  BY DEF Registered, By
<1> QED
  BY <1>5, <1>6, <1>7

LEMMA FinalizersEnd ==
  ASSUME ControlTypes, DataTypes, FinalizersDone
  PROVE  FinEnds
<1>0. /\ finalizers \in FinalizersType /\ Features \in Nat
      /\ By \in [1..Features -> Seq(FinalizerType)]
  BY Listed, FinTypes
<1>1. /\ FinalizerHook /\ ran' = ran
      /\ finalizers' = [active |-> 0, byFeature |-> Unregistered, index |-> 1]
      /\ IF phase = "endExecution" /\ Left # {} THEN Stays ELSE Passes
  BY DEF FinalizersDone
<1>2. Key \in 0..Features
  BY KeyIs
<1>3. /\ Unregistered \in [1..Features -> Seq(FinalizerType)]
      /\ \A f \in 1..Features : Unregistered[f] = IF f = Key THEN <<>> ELSE By[f]
  <2>1. CASE Key = 0
    BY <1>0, <2>1 DEF Unregistered, By
  <2>2. CASE Key # 0
    <3>1. Unregistered = [By EXCEPT ![Key] = <<>>]
      BY <2>2 DEF Unregistered, By
    <3>2. <<>> \in Seq(FinalizerType)
      OBVIOUS
    <3> QED
      BY <1>0, <3>1, <3>2
  <2> QED
    BY <2>1, <2>2
<1>4. /\ finalizers' \in FinalizersType /\ finalizers'.active = 0 /\ finalizers'.index = 1 /\ finalizers'.byFeature = Unregistered
  BY <1>0, <1>1, <1>3 DEF FinalizersType
<1>5. Stays => at' = at
  BY DEF Stays, run
<1>6. Passes => at' # at
  BY Listed DEF Passes
<1> QED
  BY <1>1, <1>3, <1>4, <1>5, <1>6 DEF FinEnds

LEMMA FinalizersRun ==
  ASSUME ControlTypes, DataTypes, \E ok \in BOOLEAN : FinalizerRuns(ok)
  PROVE  FinRuns
<1>0. /\ finalizers \in FinalizersType /\ Features \in Nat
      /\ By \in [1..Features -> Seq(FinalizerType)]
  BY Listed, FinTypes
<1>1. /\ FinalizerHook /\ Stays /\ finalizers.index \in DOMAIN Registered
      /\ finalizers' = [finalizers EXCEPT !.index = @ + 1]
      /\ ran' = Append(ran, [of |-> Registered[finalizers.index].of, lined |-> Registered[finalizers.index].lined, phase |-> phase, feature |-> feature, event |-> Len(emitted) + 1])
  BY DEF FinalizerRuns
<1>2. Key \in 0..Features /\ Registered = IF Key = 0 THEN <<>> ELSE By[Key]
  BY KeyIs DEF By, Registered
<1>3. Key \in 1..Features /\ Registered = By[Key]
  <2>1. Key # 0
    BY <1>1, <1>2
  <2> QED
    BY <1>0, <1>2, <2>1
<1>4. phase \in {"endFeature", "endExecution"}
  BY <1>1 DEF FinalizerHook, Hook
<1>5. /\ finalizers' \in FinalizersType /\ finalizers'.active = finalizers.active /\ finalizers'.index = finalizers.index + 1
      /\ finalizers'.byFeature = By
  <2>1. finalizers.index + 1 \in Nat \ {0} /\ finalizers' = [finalizers EXCEPT !.index = finalizers.index + 1]
    BY <1>0, <1>1 DEF FinalizersType
  <2> QED
    BY <1>0, <2>1 DEF FinalizersType, By
<1> QED
  BY <1>1, <1>3, <1>4, <1>5 DEF FinRuns

LEMMA FinMoves ==
  ASSUME ControlTypes, DataTypes, MonitorsNext
  PROVE  FinStays \/ FinStarts \/ FinRegisters \/ FinRuns \/ FinEnds
<1>0. /\ finalizers \in FinalizersType /\ Features \in Nat /\ feature \in 0..Features
      /\ By \in [1..Features -> Seq(FinalizerType)]
      /\ \A f \in 1..Features : By[f] \in Seq(FinalizerType) /\ \A i \in DOMAIN By[f] : By[f][i] \in FinalizerType
  BY Listed, FinTypes DEF ControlTypes
<1>1. CASE UNCHANGED fin
  BY <1>1 DEF fin, FinStays
<1>2. CASE FinalizerStartsFeature
  <2>1. finalizers' = [finalizers EXCEPT !.active = feature] /\ ran' = ran /\ Hook("startFeature", Finalizer) /\ Passes
    BY <1>2 DEF FinalizerStartsFeature
  <2>2. /\ finalizers' \in FinalizersType /\ finalizers'.active = feature
        /\ finalizers'.byFeature = By /\ finalizers'.index = finalizers.index
    BY <1>0, <2>1 DEF FinalizersType, By
  <2> QED
    BY <1>2, <2>1, <2>2 DEF FinStarts
<1>3. CASE RegisterFinalizer
  <2>1. /\ Has(Finalizer) /\ phase = "body" /\ Stays /\ open # <<>> /\ ran' = ran
        /\ finalizers' = [finalizers EXCEPT !.byFeature = [By EXCEPT ![FinPath] = Append(By[FinPath], One)]]
        /\ \A f \in 1..Features : \A i \in DOMAIN By[f] : By[f][i].of # feature
    BY <1>3 DEF RegisterFinalizer, Returns, By, FinPath, One
  <2>2. FinPath \in 1..Features /\ feature \in 1..Features
    <3>1. feature \in 1..Features /\ currentFeature \in 0..feature
      BY <1>0, <2>1 DEF DataTypes, ControlTypes
    <3> QED
      BY <1>0, <3>1 DEF FinPath
  <2> DEFINE more == [By EXCEPT ![FinPath] = Append(By[FinPath], One)]
  <2>3. Append(By[FinPath], One) \in Seq(FinalizerType)
    <3>1. One \in FinalizerType
      BY <2>2 DEF One, FinalizerType
    <3> QED
      BY <1>0, <2>2, <3>1, Appended
  <2>4. more \in [1..Features -> Seq(FinalizerType)] /\ \A f \in 1..Features : more[f] = IF f = FinPath THEN Append(By[f], One) ELSE By[f]
    BY <1>0, <2>3
  <2> HIDE DEF more
  <2>5. /\ finalizers' \in FinalizersType /\ finalizers'.active = finalizers.active /\ finalizers'.index = finalizers.index
        /\ finalizers'.byFeature = more
    BY <1>0, <2>1, <2>4 DEF FinalizersType, more
  <2> QED
    BY <1>3, <2>1, <2>4, <2>5 DEF FinRegisters
<1>4. CASE \E ok \in BOOLEAN : FinalizerRuns(ok)
  BY <1>4, FinalizersRun
<1>5. CASE FinalizersDone
  BY <1>5, FinalizersEnd
<1> QED
  BY <1>1, <1>2, <1>3, <1>4, <1>5, FinFrame

LEMMA ActiveStep ==
  ASSUME ControlTypes, DataTypes, ActiveInv, MonitorsNext
  PROVE  ActiveInv'
<1>1. /\ \A s : Has(s)' <=> Has(s)
      /\ at' = at => \A s : (Ahead(s)' <=> Ahead(s)) /\ (Behind(s)' <=> Behind(s))
      /\ at' = 1 => \A s : (Ahead(s)' <=> Has(s)) /\ ~Behind(s)'
      /\ at' = at + 1 /\ at \in DOMAIN list =>
              \A s : /\ list[at] # s => (Ahead(s)' <=> Ahead(s)) /\ (Behind(s)' <=> Behind(s))
                     /\ list[at] = s => ~Ahead(s)' /\ Behind(s)'
  BY ControlStep, Turns
<1>2. /\ \A s : Has(s) <=> (Ahead(s) \/ Behind(s))
      /\ at = Len(list) + 1 => \A s : ~Ahead(s)
  BY Places
<1>3. phase # "failed" =>
        finalizers.active =
          IF Has(Finalizer) /\ (phase = "body" \/ (phase = "startFeature" /\ Behind(Finalizer)) \/ (phase = "endFeature" /\ Ahead(Finalizer)))
          THEN feature ELSE 0
  BY DEF ActiveInv
<1>4. SUFFICES phase' # "failed" =>
        finalizers'.active =
          IF Has(Finalizer)' /\ (phase' = "body" \/ (phase' = "startFeature" /\ Behind(Finalizer)') \/ (phase' = "endFeature" /\ Ahead(Finalizer)'))
          THEN feature' ELSE 0
  BY DEF ActiveInv
<1>5. CASE FinStays \/ FinRegisters \/ FinRuns
  <2>1. finalizers'.active = finalizers.active
    BY <1>5 DEF FinStays, FinRegisters, FinRuns
  <2>2. CASE UNCHANGED run
    <3>1. phase' = phase /\ at' = at /\ feature' = feature
      BY <2>2 DEF run
    <3> QED
      BY <1>1, <1>3, <2>1, <3>1
  <2>3. CASE Throws
    BY <2>3 DEF Throws
  <2>4. CASE Passes
    <3>1. phase' = phase /\ at' = at + 1 /\ feature' = feature
      BY <2>4 DEF Passes
    <3>2. CASE at \in DOMAIN list /\ list[at] # Finalizer
      BY <1>1, <1>3, <2>1, <3>1, <3>2
    <3>3. CASE at \in DOMAIN list /\ list[at] = Finalizer /\ phase \in {"startFeature", "endFeature"}
      <4>1. finalizers'.active = IF phase = "startFeature" THEN feature ELSE 0
        <5>1. CASE phase = "startFeature"
          <6>1. finalizers' = [finalizers EXCEPT !.active = feature]
            BY <2>4, <3>3, <5>1, Passing DEF FinalizerStartsFeature
          <6> QED
            BY <5>1, <6>1, FinTypes DEF FinalizersType
        <5>2. CASE phase = "endFeature"
          <6>1. finalizers' = [active |-> 0, byFeature |-> Unregistered, index |-> 1]
            BY <2>4, <3>3, <5>2, Passing DEF FinalizersDone
          <6> QED
            BY <5>2, <6>1
        <5> QED
          BY <3>3, <5>1, <5>2
      <4>2. Has(Finalizer)
        BY <3>3, Places DEF Has, ToSet
      <4> QED
        BY <1>1, <3>1, <3>3, <4>1, <4>2
    <3>4. CASE at \in DOMAIN list /\ list[at] = Finalizer /\ phase \notin {"startFeature", "endFeature"}
      BY <1>1, <1>3, <2>1, <2>4, <3>1, <3>4, Passing DEF Hooks
    <3> QED
      BY <2>4, <3>2, <3>3, <3>4, Passing
  <2>5. CASE Begin
    <3>1. /\ at' = 1
          /\ phase = "body" \/ at = Len(list) + 1
          /\ \/ phase = "startExecution" /\ phase' = "setWorld" /\ feature' = 1
             \/ phase = "setWorld" /\ phase' = "startFeature" /\ feature' = feature
             \/ phase = "startFeature" /\ phase' = "body" /\ feature' = feature
             \/ phase = "body" /\ phase' = "endFeature" /\ feature' = feature
             \/ phase = "endFeature" /\ phase' = "setWorld" /\ feature' = feature + 1
             \/ phase = "endFeature" /\ phase' = "endExecution" /\ feature' = feature
             \/ phase = "endExecution" /\ phase' = "done" /\ feature' = feature
      BY <2>5, Boundaries
    <3> QED
      BY <1>1, <1>2, <1>3, <2>1, <3>1
  <2> QED
    BY <2>2, <2>3, <2>4, <2>5, RunFrame
<1>6. CASE FinStarts
  <2>1. /\ phase = "startFeature" /\ at \in DOMAIN list /\ list[at] = Finalizer /\ Has(Finalizer)
        /\ phase' = phase /\ at' = at + 1 /\ feature' = feature /\ finalizers'.active = feature
    BY <1>6, Places DEF FinStarts, Hook, Passes
  <2> QED
    BY <1>1, <2>1
<1>7. CASE FinEnds
  <2>1. /\ phase \in {"endFeature", "endExecution"} /\ at \in DOMAIN list /\ list[at] = Finalizer
        /\ phase' = phase /\ finalizers'.active = 0
        /\ at' = at + 1 \/ phase = "endExecution"
    BY <1>7 DEF FinEnds, FinalizerHook, Hook, Passes, Stays, run
  <2> QED
    BY <1>1, <2>1
<1> QED
  BY <1>5, <1>6, <1>7, FinMoves

LEMMA RegisteredStep ==
  ASSUME ControlTypes, DataTypes, RegisteredInv, SavingInv, MonitorsNext
  PROVE  RegisteredInv'
<1> DEFINE by1 == finalizers'.byFeature
<1>0. /\ Features \in Nat /\ feature \in Nat /\ feature' \in Nat /\ feature' >= feature
      /\ By \in [1..Features -> Seq(FinalizerType)]
      /\ \A f \in 1..Features : /\ By[f] \in Seq(FinalizerType) /\ DOMAIN By[f] = 1..Len(By[f]) /\ Len(By[f]) \in Nat
                                /\ \A i \in DOMAIN By[f] : By[f][i] \in FinalizerType
                                /\ (By[f] = <<>> <=> DOMAIN By[f] = {})
      /\ setup' = setup /\ ControlTypes'
  BY Listed, FinTypes, ControlStep DEF ControlTypes
<1>1. Features' = Features
  BY <1>0 DEF Features
<1>2. /\ \A f \in 1..Features : \A i \in DOMAIN By[f] :
           /\ By[f][i].of <= feature /\ (Early => By[f][i].of < feature)
      /\ \A f, g \in 1..Features : \A i \in DOMAIN By[f], j \in DOMAIN By[g] : By[f][i].of = By[g][j].of => f = g /\ i = j
      /\ ~Has(Finalizer) \/ phase = "done" \/ (phase = "endExecution" /\ Behind(Finalizer)) => Left = {}
  BY DEF RegisteredInv, By
<1>3. /\ Has(Finalizer)' <=> Has(Finalizer)
      /\ at' = at => (Behind(Finalizer)' <=> Behind(Finalizer))
      /\ at' = 1 => ~Behind(Finalizer)'
      /\ at' = at + 1 /\ at \in DOMAIN list =>
           /\ list[at] # Finalizer => (Behind(Finalizer)' <=> Behind(Finalizer))
           /\ list[at] = Finalizer => Behind(Finalizer)'
  BY ControlStep, Turns
<1>4. SUFFICES /\ \A f \in 1..Features : \A i \in DOMAIN by1[f] :
                    /\ by1[f][i].of <= feature' /\ (Early' => by1[f][i].of < feature')
               /\ \A f, g \in 1..Features : \A i \in DOMAIN by1[f], j \in DOMAIN by1[g] : by1[f][i].of = by1[g][j].of => f = g /\ i = j
               /\ ~Has(Finalizer)' \/ phase' = "done" \/ (phase' = "endExecution" /\ Behind(Finalizer)') => Left' = {}
  BY <1>1 DEF RegisteredInv
<1>5. Left' = {f \in 1..Features : by1[f] # <<>>} /\ Left = {f \in 1..Features : By[f] # <<>>}
  BY <1>1 DEF Left, By
  \* The control, for features that were registered before.
<1>7. ASSUME NEW n \in Nat, n <= feature, Early => n < feature
      PROVE  n <= feature' /\ (Early' => n < feature')
  <2>1. CASE phase' = phase /\ feature' = feature
    BY <1>7, <2>1 DEF Early
  <2>2. CASE phase' = "failed"
    BY <1>0, <1>7, <2>2 DEF Early
  <2>3. CASE Begin
    <3>1. \/ phase = "startExecution" /\ phase' = "setWorld" /\ feature' = 1
          \/ phase = "setWorld" /\ phase' = "startFeature" /\ feature' = feature
          \/ phase = "startFeature" /\ phase' = "body" /\ feature' = feature
          \/ phase = "body" /\ phase' = "endFeature" /\ feature' = feature
          \/ phase = "endFeature" /\ phase' = "setWorld" /\ feature' = feature + 1
          \/ phase = "endFeature" /\ phase' = "endExecution" /\ feature' = feature
          \/ phase = "endExecution" /\ phase' = "done" /\ feature' = feature
      BY <2>3, Boundaries
    <3> QED
      BY <1>0, <1>7, <3>1 DEF Early
  <2> QED
    BY <2>1, <2>2, <2>3, RunFrame DEF run, Throws, Passes
<1>8. ASSUME by1 = By PROVE Left' = Left
  BY <1>5, <1>8
  \* Nothing is registered here, and nothing is forgotten.
<1>9. CASE FinStays \/ FinStarts \/ FinRuns
  <2>1. by1 = By
    BY <1>9 DEF FinStays, FinStarts, FinRuns, By
  <2> HIDE DEF by1
  <2>2. ASSUME NEW f \in 1..Features, NEW i \in DOMAIN By[f]
        PROVE  By[f][i].of <= feature' /\ (Early' => By[f][i].of < feature')
    <3>1. By[f][i].of \in Nat
      BY <1>0 DEF FinalizerType
    <3> QED
      BY <1>2, <1>7, <3>1
  <2>3. ~Has(Finalizer)' \/ phase' = "done" \/ (phase' = "endExecution" /\ Behind(Finalizer)') => Left = {}
    <3>1. CASE UNCHANGED run
      BY <1>2, <1>3, <3>1 DEF run
    <3>2. CASE Throws
      BY <1>2, <1>3, <3>2 DEF Throws
    <3>3. CASE Passes
      <4>1. phase' = phase /\ at' = at + 1 /\ at \in DOMAIN list /\ (list[at] = Finalizer /\ phase = "endExecution" => Left = {})
        BY <3>3, Passing DEF Passes
      <4> QED
        BY <1>2, <1>3, <4>1
    <3>4. CASE Begin
      <4>1. /\ at' = 1 /\ (phase = "body" \/ (phase # "failed" /\ at = Len(list) + 1 /\ at \notin DOMAIN list))
            /\ phase' = "done" => phase = "endExecution"
        BY <3>4, Boundaries
      <4>2. at = Len(list) + 1 => (Behind(Finalizer) <=> Has(Finalizer))
        BY Places
      <4> QED
        BY <1>2, <1>3, <4>1, <4>2
    <3> QED
      BY <3>1, <3>2, <3>3, <3>4, RunFrame
  <2> QED
    BY <1>2, <1>8, <2>1, <2>2, <2>3
<1>10. CASE FinRegisters
  <2>1. /\ Has(Finalizer) /\ phase = "body" /\ phase' = phase /\ feature' = feature /\ open # <<>>
        /\ \A f \in 1..Features : \A i \in DOMAIN By[f] : By[f][i].of # feature
        /\ \A f \in 1..Features : by1[f] = IF f = FinPath THEN Append(By[f], One) ELSE By[f]
        /\ feature \in 1..Features
    <3>1. /\ Has(Finalizer) /\ phase = "body" /\ open # <<>> /\ Stays
          /\ \A f \in 1..Features : \A i \in DOMAIN By[f] : By[f][i].of # feature
          /\ \A f \in 1..Features : by1[f] = IF f = FinPath THEN Append(By[f], One) ELSE By[f]
      BY <1>10 DEF FinRegisters
    <3>2. phase' = phase /\ feature' = feature
      BY <3>1 DEF Stays, run
    <3>3. feature \in 1..Features
      <4>1. feature \in 0..Features /\ feature # 0
        BY <3>1 DEF ControlTypes
      <4> QED
        BY <1>0, <4>1
    <3> QED
      BY <3>1, <3>2, <3>3
  <2> HIDE DEF by1
  <2>2. One \in FinalizerType /\ One.of = feature
    BY <2>1 DEF One, FinalizerType
  <2>3. \A f \in 1..Features : \A i \in DOMAIN by1[f] :
          (i \in DOMAIN By[f] /\ by1[f][i] = By[f][i]) \/ (f = FinPath /\ i = Len(By[f]) + 1 /\ by1[f][i] = One)
    <3> SUFFICES ASSUME NEW f \in 1..Features, NEW i \in DOMAIN by1[f], f = FinPath
                 PROVE  (i \in DOMAIN By[f] /\ by1[f][i] = By[f][i]) \/ (i = Len(By[f]) + 1 /\ by1[f][i] = One)
      BY <2>1
    <3>1. by1[f] = Append(By[f], One) /\ By[f] \in Seq(FinalizerType)
      BY <1>0, <2>1
    <3>2. /\ DOMAIN by1[f] = 1..Len(By[f]) + 1 /\ DOMAIN By[f] = 1..Len(By[f]) /\ Len(By[f]) \in Nat
          /\ \A k \in 1..Len(By[f]) : by1[f][k] = By[f][k]
          /\ by1[f][Len(By[f]) + 1] = One
      BY <2>2, <3>1, Appended
    <3> QED
      BY <3>2
  <2>4. ASSUME NEW f \in 1..Features, NEW i \in DOMAIN by1[f]
        PROVE  /\ by1[f][i].of <= feature' /\ (Early' => by1[f][i].of < feature')
    <3>1. by1[f][i].of <= feature
      <4>1. CASE i \in DOMAIN By[f] /\ by1[f][i] = By[f][i]
        <5>1. By[f][i].of <= feature
          BY <1>2, <4>1
        <5> QED
          BY <4>1, <5>1
      <4>2. CASE by1[f][i] = One
        BY <1>0, <2>2, <4>2
      <4> QED
        BY <2>3, <4>1, <4>2
    <3>2. ~Early'
      BY <2>1 DEF Early
    <3> QED
      BY <2>1, <2>2, <3>1, <3>2
  <2>5. \A f, g \in 1..Features : \A i \in DOMAIN by1[f], j \in DOMAIN by1[g] : by1[f][i].of = by1[g][j].of => f = g /\ i = j
    BY <1>2, <2>1, <2>2, <2>3
  <2> QED
    BY <1>3, <2>1, <2>4, <2>5
<1>11. CASE FinEnds
  <2>1. /\ phase \in {"endFeature", "endExecution"} /\ phase' = phase /\ feature' = feature /\ Has(Finalizer)
        /\ \A f \in 1..Features : by1[f] = IF f = Key THEN <<>> ELSE By[f]
        /\ (Passes /\ (phase = "endExecution" => Left = {})) \/ (at' = at /\ phase = "endExecution")
    <3>1. Has(Finalizer)
      BY <1>11, Places DEF FinEnds, FinalizerHook
    <3> QED
      BY <1>11, <3>1 DEF FinEnds, FinalizerHook, Hook, Passes, Stays, run
  <2> HIDE DEF by1
  <2>2. \A f \in 1..Features : \A i \in DOMAIN by1[f] : i \in DOMAIN By[f] /\ by1[f][i] = By[f][i]
    BY <2>1
  <2>3. ASSUME NEW f \in 1..Features, NEW i \in DOMAIN by1[f]
        PROVE  /\ by1[f][i].of <= feature' /\ (Early' => by1[f][i].of < feature')
    <3>1. by1[f][i].of \in Nat
      BY <1>0, <2>2 DEF FinalizerType
    <3> QED
      BY <1>2, <1>7, <2>2, <3>1
  <2>4. \A f, g \in 1..Features : \A i \in DOMAIN by1[f], j \in DOMAIN by1[g] : by1[f][i].of = by1[g][j].of => f = g /\ i = j
    BY <1>2, <2>2
  <2>5. Left = {} => Left' = {}
    BY <1>5, <2>1
  <2>6. phase' = "endExecution" /\ Behind(Finalizer)' => Left = {}
    BY <1>2, <1>3, <2>1
  <2> QED
    BY <1>3, <2>1, <2>3, <2>4, <2>5, <2>6
<1> QED
  BY <1>9, <1>10, <1>11, FinMoves

\* One more has run.
LEMMA RunsOne ==
  ASSUME ControlTypes, DataTypes, FinRuns
  PROVE  /\ ran' \in Seq(RanType) /\ DOMAIN ran' = DOMAIN ran \cup {Len(ran) + 1} /\ Len(ran) + 1 \notin DOMAIN ran
         /\ \A k \in DOMAIN ran : ran'[k] = ran[k]
         /\ ran'[Len(ran) + 1].of = By[Key][finalizers.index].of /\ ran'[Len(ran) + 1].lined = By[Key][finalizers.index].lined
         /\ ran'[Len(ran) + 1].phase = phase
         /\ ran'[Len(ran) + 1].feature = feature /\ ran'[Len(ran) + 1].event = Len(emitted) + 1
<1> DEFINE r == [of |-> By[Key][finalizers.index].of, lined |-> By[Key][finalizers.index].lined, phase |-> phase, feature |-> feature, event |-> Len(emitted) + 1]
<1>1. /\ ran \in Seq(RanType) /\ ran' = Append(ran, r) /\ Key \in 1..Features /\ finalizers.index \in DOMAIN By[Key]
      /\ phase \in {"endFeature", "endExecution"}
  BY DEF DataTypes, FinRuns
<1>2. feature \in 1..Features
  <2>1. feature \in 0..Features /\ feature # 0 /\ Features \in Nat
    BY <1>1, Listed DEF ControlTypes
  <2> QED
    BY <2>1
<1>3. Len(emitted) + 1 \in Nat /\ By[Key][finalizers.index] \in FinalizerType
  <2>1. emitted \in Seq(EventType)
    BY DEF DataTypes
  <2>2. Len(emitted) \in Nat
    BY <2>1
  <2>3. By[Key][finalizers.index] \in FinalizerType
    BY <1>1, FinTypes
  <2> QED
    BY <2>2, <2>3
<1>4. r \in RanType
  BY <1>1, <1>2, <1>3 DEF RanType, FinalizerType
<1>5. /\ r.of = By[Key][finalizers.index].of /\ r.lined = By[Key][finalizers.index].lined /\ r.phase = phase /\ r.feature = feature /\ r.event = Len(emitted) + 1
  OBVIOUS
<1> HIDE DEF r
<1>6. /\ ran' \in Seq(RanType) /\ DOMAIN ran' = 1..Len(ran) + 1 /\ DOMAIN ran = 1..Len(ran) /\ Len(ran) \in Nat
      /\ \A k \in 1..Len(ran) : ran'[k] = ran[k]
      /\ ran'[Len(ran) + 1] = r
  BY <1>1, <1>4, Appended
<1> QED
  BY <1>5, <1>6

\* What run, and what is registered, is the same: so is what they are run of.
LEMMA SameKey ==
  ASSUME UNCHANGED run, finalizers'.byFeature = By, finalizers'.active = finalizers.active
  PROVE  Key' = Key /\ (FinalizerHook' <=> FinalizerHook) /\ Left' = Left
<1>1. Left' = Left /\ phase' = phase
  BY DEF run, Left, By, Features
<1>2. FinalizerHook' <=> FinalizerHook
  BY DEF run, FinalizerHook, Hook, list
<1>3. Key' = Key
  BY <1>1 DEF Key
<1> QED
  BY <1>1, <1>2, <1>3

LEMMA RanStep ==
  ASSUME ControlTypes, DataTypes, RegisteredInv, RanInv, MonitorsNext
  PROVE  RanInv'
<1> DEFINE by1 == finalizers'.byFeature
<1>0. /\ Features \in Nat /\ feature \in Nat /\ feature' \in Nat /\ feature' >= feature
      /\ \A f \in 1..Features : \A i \in DOMAIN By[f] : i \in Nat /\ By[f][i].of \in 1..Features
      /\ setup' = setup
      /\ phase \in {"startExecution", "setWorld", "startFeature", "body", "endFeature", "endExecution", "done", "failed"}
  <2>1. \A f \in 1..Features : \A i \in DOMAIN By[f] : i \in Nat /\ By[f][i].of \in 1..Features
    BY FinTypes DEF FinalizerType
  <2> QED
    BY <2>1, Listed, ControlStep DEF ControlTypes
<1>1. Features' = Features
  BY <1>0 DEF Features
<1>2. /\ \A f \in 1..Features : \A i \in DOMAIN By[f] : By[f][i].of <= feature
      /\ \A f, g \in 1..Features : \A i \in DOMAIN By[f], j \in DOMAIN By[g] : By[f][i].of = By[g][j].of => f = g /\ i = j
  BY DEF RegisteredInv, By
<1>3. /\ \A k, l \in DOMAIN ran : ran[k].of = ran[l].of => k = l
      /\ \A k \in DOMAIN ran : /\ ran[k].of <= feature /\ ran[k].feature <= feature
                               /\ Early \/ phase = "body" => ran[k].of < feature /\ ran[k].feature < feature
      /\ phase # "failed" =>
           /\ finalizers.index # 1 => FinalizerHook
           /\ \A k \in DOMAIN ran : \A f \in 1..Features : \A i \in DOMAIN By[f] :
                ran[k].of = By[f][i].of => FinalizerHook /\ f = Key /\ i < finalizers.index
  BY DEF RanInv, By
<1>4. SUFFICES /\ \A k, l \in DOMAIN ran' : ran'[k].of = ran'[l].of => k = l
               /\ \A k \in DOMAIN ran' : /\ ran'[k].of <= feature' /\ ran'[k].feature <= feature'
                                         /\ Early' \/ phase' = "body" => ran'[k].of < feature' /\ ran'[k].feature < feature'
               /\ phase' # "failed" =>
                    /\ finalizers'.index # 1 => FinalizerHook'
                    /\ \A k \in DOMAIN ran' : \A f \in 1..Features : \A i \in DOMAIN by1[f] :
                         ran'[k].of = by1[f][i].of => FinalizerHook' /\ f = Key' /\ i < finalizers'.index
  BY <1>1 DEF RanInv
<1>5. FinalizerHook => phase \in {"endFeature", "endExecution"} /\ at \in DOMAIN list /\ list[at] = Finalizer
  BY DEF FinalizerHook, Hook
<1>6. \A k \in DOMAIN ran : ran[k].of \in Nat /\ ran[k].feature \in Nat
  <2>1. \A k \in DOMAIN ran : ran[k] \in RanType
    BY SequenceIs DEF DataTypes
  <2> QED
    BY <1>0, <2>1 DEF RanType
  \* The control, for features of what ran before.
<1>7. ASSUME NEW n \in Nat, n <= feature, Early \/ phase = "body" => n < feature
      PROVE  n <= feature' /\ (Early' \/ phase' = "body" => n < feature')
  <2>1. CASE phase' = phase /\ feature' = feature
    BY <1>7, <2>1 DEF Early
  <2>2. CASE phase' = "failed"
    BY <1>0, <1>7, <2>2 DEF Early
  <2>3. CASE Begin
    <3>1. \/ phase = "startExecution" /\ phase' = "setWorld" /\ feature' = 1
          \/ phase = "setWorld" /\ phase' = "startFeature" /\ feature' = feature
          \/ phase = "startFeature" /\ phase' = "body" /\ feature' = feature
          \/ phase = "body" /\ phase' = "endFeature" /\ feature' = feature
          \/ phase = "endFeature" /\ phase' = "setWorld" /\ feature' = feature + 1
          \/ phase = "endFeature" /\ phase' = "endExecution" /\ feature' = feature
          \/ phase = "endExecution" /\ phase' = "done" /\ feature' = feature
      BY <2>3, Boundaries
    <3> QED
      BY <1>0, <1>7, <3>1 DEF Early
  <2> QED
    BY <2>1, <2>2, <2>3, RunFrame DEF run, Throws, Passes
<1>8. ASSUME NEW k \in DOMAIN ran
      PROVE  /\ ran[k].of <= feature' /\ ran[k].feature <= feature'
             /\ Early' \/ phase' = "body" => ran[k].of < feature' /\ ran[k].feature < feature'
  <2>1. /\ ran[k].of \in Nat /\ ran[k].of <= feature /\ (Early \/ phase = "body" => ran[k].of < feature)
        /\ ran[k].feature \in Nat /\ ran[k].feature <= feature /\ (Early \/ phase = "body" => ran[k].feature < feature)
    BY <1>3, <1>6
  <2>2. ran[k].of <= feature' /\ (Early' \/ phase' = "body" => ran[k].of < feature')
    BY <1>7, <2>1
  <2>3. ran[k].feature <= feature' /\ (Early' \/ phase' = "body" => ran[k].feature < feature')
    BY <1>7, <2>1
  <2> QED
    BY <2>2, <2>3
<1>9. CASE FinEnds
  <2>1. /\ ran' = ran /\ finalizers'.index = 1 /\ phase # "failed"
        /\ \A f \in 1..Features : by1[f] = IF f = Key THEN <<>> ELSE By[f]
    BY <1>5, <1>9 DEF FinEnds
  <2> HIDE DEF by1
  <2>2. \A f \in 1..Features : \A i \in DOMAIN by1[f] : f # Key /\ by1[f] = By[f]
    BY <2>1
  <2>3. \A k \in DOMAIN ran : \A f \in 1..Features : \A i \in DOMAIN by1[f] : ran[k].of # by1[f][i].of
    BY <1>3, <2>1, <2>2
  <2> QED
    BY <1>3, <1>8, <2>1, <2>3
<1>10. CASE FinRuns
  <2>1. /\ FinalizerHook /\ UNCHANGED run /\ Key \in 1..Features /\ finalizers.index \in DOMAIN By[Key]
        /\ finalizers'.index = finalizers.index + 1 /\ by1 = By /\ finalizers'.active = finalizers.active
    BY <1>10 DEF FinRuns, Stays
  <2>2. Key' = Key /\ FinalizerHook' /\ phase' = phase /\ feature' = feature
    BY <2>1, SameKey DEF run
  <2> HIDE DEF by1
  <2> DEFINE new == Len(ran) + 1
  <2>3. /\ DOMAIN ran' = DOMAIN ran \cup {new} /\ new \notin DOMAIN ran
        /\ \A k \in DOMAIN ran : ran'[k] = ran[k]
        /\ ran'[new].of = By[Key][finalizers.index].of /\ ran'[new].feature = feature
    BY <1>10, RunsOne
  <2> HIDE DEF new
  <2>4. \A k \in DOMAIN ran : ran[k].of # By[Key][finalizers.index].of
    <3> SUFFICES ASSUME NEW k \in DOMAIN ran, ran[k].of = By[Key][finalizers.index].of PROVE FALSE
      OBVIOUS
    <3>1. finalizers.index < finalizers.index
      BY <1>3, <1>5, <2>1
    <3> QED
      BY <1>0, <2>1, <3>1
  <2>5. \A k, l \in DOMAIN ran' : ran'[k].of = ran'[l].of => k = l
    BY <1>3, <2>3, <2>4
  <2>6. ~Early' /\ phase' # "body"
    BY <1>5, <2>1, <2>2 DEF Early
  <2>7. ran'[new].of <= feature' /\ ran'[new].feature <= feature'
    BY <1>0, <1>2, <2>1, <2>2, <2>3
  <2>8. \A k \in DOMAIN ran' : \A f \in 1..Features : \A i \in DOMAIN By[f] :
          ran'[k].of = By[f][i].of => f = Key /\ i < finalizers.index + 1
    <3> SUFFICES ASSUME NEW k \in DOMAIN ran', NEW f \in 1..Features, NEW i \in DOMAIN By[f], ran'[k].of = By[f][i].of
                 PROVE  f = Key /\ i < finalizers.index + 1
      OBVIOUS
    <3>1. i \in Nat /\ finalizers.index \in Nat
      BY <1>0, <2>1
    <3>2. CASE k \in DOMAIN ran
      <4>1. f = Key /\ i < finalizers.index
        BY <1>3, <1>5, <2>1, <2>3, <3>2
      <4> QED
        BY <3>1, <4>1
    <3>3. CASE k = new
      <4>1. f = Key /\ i = finalizers.index
        BY <1>2, <2>1, <2>3, <3>3
      <4> QED
        BY <3>1, <4>1
    <3> QED
      BY <2>3, <3>2, <3>3
  <2> QED
    BY <1>8, <2>1, <2>2, <2>3, <2>5, <2>6, <2>7, <2>8
<1>11. CASE FinRegisters
  <2>1. /\ phase = "body" /\ phase' = phase /\ feature' = feature /\ ran' = ran /\ finalizers'.index = finalizers.index
        /\ \A f \in 1..Features : by1[f] = IF f = FinPath THEN Append(By[f], One) ELSE By[f]
    BY <1>11 DEF FinRegisters, Stays, run
  <2> HIDE DEF by1
  <2>2. One \in FinalizerType /\ One.of = feature
    <3>1. feature \in 0..Features /\ feature # 0
      BY <2>1 DEF ControlTypes
    <3> QED
      BY <1>0, <3>1 DEF One, FinalizerType
  <2>3. \A f \in 1..Features : \A i \in DOMAIN by1[f] : (i \in DOMAIN By[f] /\ by1[f][i] = By[f][i]) \/ by1[f][i].of = feature
    <3> SUFFICES ASSUME NEW f \in 1..Features, NEW i \in DOMAIN by1[f], f = FinPath
                 PROVE  (i \in DOMAIN By[f] /\ by1[f][i] = By[f][i]) \/ by1[f][i].of = feature
      BY <2>1
    <3>1. by1[f] = Append(By[f], One) /\ By[f] \in Seq(FinalizerType)
      BY <2>1, FinTypes
    <3>2. /\ DOMAIN by1[f] = 1..Len(By[f]) + 1 /\ DOMAIN By[f] = 1..Len(By[f]) /\ Len(By[f]) \in Nat
          /\ \A k \in 1..Len(By[f]) : by1[f][k] = By[f][k]
          /\ by1[f][Len(By[f]) + 1] = One
      BY <2>2, <3>1, Appended
    <3> QED
      BY <2>2, <3>2
  <2>4. ~FinalizerHook /\ finalizers.index = 1
    BY <1>3, <1>5, <2>1
  <2>5. \A k \in DOMAIN ran : ran[k].of # feature
    BY <1>0, <1>3, <1>6, <2>1
  <2>6. \A k \in DOMAIN ran : \A f \in 1..Features : \A i \in DOMAIN by1[f] : ran[k].of # by1[f][i].of
    BY <1>3, <2>1, <2>3, <2>4, <2>5
  <2> QED
    BY <1>3, <1>8, <2>1, <2>4, <2>6
<1>12. CASE FinStarts \/ FinStays
  <2>1. ran' = ran /\ by1 = By /\ finalizers'.index = finalizers.index
    BY <1>12 DEF FinStarts, FinStays, By
  <2> HIDE DEF by1
  <2>2. CASE UNCHANGED run /\ FinStays
    <3>1. phase' = phase /\ finalizers'.byFeature = By /\ finalizers'.active = finalizers.active
      BY <2>2 DEF FinStays, run, By
    <3>2. Key' = Key /\ (FinalizerHook' <=> FinalizerHook)
      BY <2>2, <3>1, SameKey
    <3> QED
      BY <1>3, <1>8, <2>1, <3>1, <3>2
  <2>3. CASE phase' = "failed"
    BY <1>3, <1>8, <2>1, <2>3
  <2>4. CASE phase # "failed" /\ ~FinalizerHook
    BY <1>3, <1>8, <2>1, <2>4
  <2>5. CASE Passes /\ FinalizerHook
    <3>1. FinalizersDone
      BY <1>5, <2>5, Passing
    <3> QED
      BY <1>9, <3>1, FinalizersEnd
  <2>6. CASE UNCHANGED run /\ FinStarts
    BY Listed, <2>6 DEF FinStarts, Passes, run
  <2>7. CASE Begin
    <3>1. phase # "failed" /\ ~FinalizerHook
      BY <1>5, <2>7, Boundaries
    <3> QED
      BY <2>4, <3>1
  <2>8. CASE Passes /\ ~FinalizerHook
    <3>1. phase # "failed"
      BY <2>8, Passing DEF Hooks
    <3> QED
      BY <2>4, <2>8, <3>1
  <2> QED
    BY <1>12, <2>2, <2>3, <2>5, <2>6, <2>7, <2>8, RunFrame DEF Throws
<1> QED
  BY <1>9, <1>10, <1>11, <1>12, FinMoves

LEMMA InFeatureStep ==
  ASSUME ControlTypes, DataTypes, RanInv, LineInv, SavingInv, FinalizersRunInFeature, MonitorsNext
  PROVE  FinalizersRunInFeature'
<1>1. \A k \in DOMAIN ran : ran[k].lined => ran[k].phase = "endFeature" /\ ran[k].feature = ran[k].of
  BY DEF FinalizersRunInFeature
<1>2. SUFFICES \A k \in DOMAIN ran' : ran'[k].lined => ran'[k].phase = "endFeature" /\ ran'[k].feature = ran'[k].of
  BY DEF FinalizersRunInFeature
<1>3. CASE ran' = ran
  BY <1>1, <1>3
<1>4. CASE FinRuns
  <2>1. /\ FinalizerHook /\ phase \in {"endFeature", "endExecution"} /\ Key \in 1..Features /\ finalizers.index \in DOMAIN By[Key]
    BY <1>4 DEF FinRuns
  <2> DEFINE new == Len(ran) + 1
  <2>2. /\ DOMAIN ran' = DOMAIN ran \cup {new}
        /\ \A k \in DOMAIN ran : ran'[k] = ran[k]
        /\ ran'[new].of = By[Key][finalizers.index].of /\ ran'[new].lined = By[Key][finalizers.index].lined
        /\ ran'[new].phase = phase /\ ran'[new].feature = feature
    BY <1>4, RunsOne
  <2> HIDE DEF new
  <2>3. ASSUME ran'[new].lined PROVE ran'[new].phase = "endFeature" /\ ran'[new].feature = ran'[new].of
    <3>1. By[Key][finalizers.index].lined
      BY <2>2, <2>3
    <3>2. By[Key][finalizers.index].of = Key /\ Key = feature /\ (phase = "body" \/ phase = "endFeature")
      BY <2>1, <3>1 DEF LineInv, By
    <3> QED
      BY <2>1, <2>2, <3>2
  <2> QED
    BY <1>1, <2>2, <2>3
<1> QED
  BY <1>3, <1>4, FinMoves DEF FinStays, FinStarts, FinRegisters, FinEnds

LEMMA LineStep ==
  ASSUME ControlTypes, DataTypes, ActiveInv, RegisteredInv, LineInv, MonitorsNext
  PROVE  LineInv'
<1> DEFINE by1 == finalizers'.byFeature
           Now == phase = "body" \/ (phase = "endFeature" /\ Ahead(Finalizer))
<1>0. /\ Features \in Nat /\ feature \in Nat /\ setup' = setup
  BY Listed, ControlStep DEF ControlTypes
<1>1. Features' = Features
  BY <1>0 DEF Features
<1>3. phase # "failed" => \A f \in 1..Features : \A i \in DOMAIN By[f] : By[f][i].lined => By[f][i].of = f /\ f = feature /\ Now
  BY DEF LineInv, By
<1>4. SUFFICES ASSUME phase' # "failed", NEW f \in 1..Features, NEW i \in DOMAIN by1[f], by1[f][i].lined
               PROVE  by1[f][i].of = f /\ f = feature' /\ (phase' = "body" \/ (phase' = "endFeature" /\ Ahead(Finalizer)'))
  BY <1>1 DEF LineInv
<1>5. phase # "failed"
  <2>1. UNCHANGED run \/ Throws \/ (Passes /\ phase \in DOMAIN Hooks) \/ (Begin /\ phase # "failed")
    BY RunFrame, Boundaries
  <2> QED
    BY <1>4, <2>1 DEF run, Throws, Hooks
<1>6. /\ at' = at => (Ahead(Finalizer)' <=> Ahead(Finalizer))
      /\ at' = 1 => (Ahead(Finalizer)' <=> Has(Finalizer))
      /\ at' = at + 1 /\ at \in DOMAIN list /\ list[at] # Finalizer => (Ahead(Finalizer)' <=> Ahead(Finalizer))
  BY ControlStep, Turns
<1>9. CASE FinEnds
  <2>1. /\ \A g \in 1..Features : by1[g] = IF g = Key THEN <<>> ELSE By[g]
        /\ phase \in {"endFeature", "endExecution"}
    BY <1>9 DEF FinEnds, FinalizerHook, Hook
  <2> HIDE DEF by1
  <2>3. f # Key /\ by1[f] = By[f]
    BY <1>4, <2>1
  <2>4. f = feature /\ phase = "endFeature" /\ Ahead(Finalizer)
    BY <1>3, <1>4, <1>5, <2>1, <2>3
  <2>5. Has(Finalizer)
    BY <2>4, Places
  <2>6. Key = feature
    BY <2>4, <2>5, KeyIs DEF ActiveInv
  <2> QED
    BY <2>3, <2>4, <2>6
<1>10. CASE FinRegisters
  <2>1. /\ phase = "body" /\ phase' = phase /\ feature' = feature
        /\ \A g \in 1..Features : by1[g] = IF g = FinPath THEN Append(By[g], One) ELSE By[g]
    BY <1>10 DEF FinRegisters, Stays, run
  <2> HIDE DEF by1
  <2>2. feature # 0 /\ One \in FinalizerType /\ One.of = feature /\ One.lined = (currentFeature = feature)
    <3>1. feature \in 0..Features /\ feature # 0
      BY <2>1 DEF ControlTypes
    <3>2. One.of = feature /\ One.lined = (currentFeature = feature)
      BY DEF One
    <3>3. feature \in 1..Features /\ (currentFeature = feature) \in BOOLEAN
      BY <1>0, <3>1
    <3>4. One \in FinalizerType
      BY <3>3 DEF One, FinalizerType
    <3> QED
      BY <3>1, <3>2, <3>4
  <2>4. (i \in DOMAIN By[f] /\ by1[f][i] = By[f][i]) \/ (f = FinPath /\ by1[f][i] = One)
    <3>1. CASE f = FinPath
      <4>1. by1[f] = Append(By[f], One) /\ By[f] \in Seq(FinalizerType)
        BY <2>1, <3>1, FinTypes
      <4>2. /\ DOMAIN by1[f] = 1..Len(By[f]) + 1 /\ DOMAIN By[f] = 1..Len(By[f]) /\ Len(By[f]) \in Nat
            /\ \A k \in 1..Len(By[f]) : by1[f][k] = By[f][k]
            /\ by1[f][Len(By[f]) + 1] = One
        BY <2>2, <4>1, Appended
      <4> QED
        BY <1>4, <3>1, <4>2
    <3>2. CASE f # FinPath
      BY <1>4, <2>1, <3>2
    <3> QED
      BY <3>1, <3>2
  <2>5. CASE i \in DOMAIN By[f] /\ by1[f][i] = By[f][i]
    BY <1>3, <1>4, <1>5, <2>1, <2>5
  <2>6. CASE f = FinPath /\ by1[f][i] = One
    <3>1. currentFeature = feature
      BY <1>4, <2>2, <2>6
    <3>2. FinPath = feature
      BY <2>2, <3>1 DEF FinPath
    <3> QED
      BY <2>1, <2>2, <2>6, <3>2
  <2> QED
    BY <2>4, <2>5, <2>6
<1>11. CASE (FinStays \/ FinStarts \/ FinRuns) /\ ~FinEnds
  <2>1. by1 = By
    BY <1>11 DEF FinStays, FinStarts, FinRuns, By
  <2> HIDE DEF by1
  <2>2. By[f][i].of = f /\ f = feature /\ Now /\ i \in DOMAIN By[f]
    BY <1>3, <1>4, <1>5, <2>1
  <2>3. CASE UNCHANGED run
    BY <1>6, <2>1, <2>2, <2>3 DEF run
  <2>4. CASE Passes
    <3>1. /\ phase' = phase /\ feature' = feature /\ at' = at + 1 /\ at \in DOMAIN list
          /\ phase = "endFeature" /\ list[at] = Finalizer => FinalizersDone
          /\ phase # "body"
      BY <2>4, Passing DEF Passes, Hooks
    <3>2. list[at] # Finalizer
      BY <1>11, <2>2, <3>1, FinalizersEnd
    <3> QED
      BY <1>6, <2>1, <2>2, <3>1, <3>2
  <2>5. CASE Begin
    <3>1. /\ at' = 1 /\ (phase = "body" \/ at = Len(list) + 1)
          /\ phase = "body" => phase' = "endFeature" /\ feature' = feature
      BY <2>5, Boundaries
    <3>2. phase = "body"
      BY <2>2, <3>1, Places
    <3>3. Has(Finalizer)
      <4>1. By[f] # <<>>
        BY <2>2, FinTypes
      <4>2. Left # {}
        BY <4>1 DEF Left, By
      <4> QED
        BY <4>2 DEF RegisteredInv
    <3> QED
      BY <1>6, <2>1, <2>2, <3>1, <3>2, <3>3
  <2> QED
    BY <1>4, <2>3, <2>4, <2>5, RunFrame DEF Throws
<1> QED
  BY <1>9, <1>10, <1>11, FinMoves

-----------------------------------------------------------------------------
(* What the steppers hear.                                                  *)

LEMMA TuiHearing ==
  ASSUME running \in SUBSET Seq(Nat), NEW es \in Seq(EventType)
  PROVE  \E f : /\ f[0] = running /\ \A k \in 1..Len(es) : f[k] = Panel(f[k - 1], es[k])
                /\ \A k \in 0..Len(es) : f[k] \in SUBSET Seq(Nat)
                /\ TuiHears(es) = IF Hears(Tui) THEN f[Len(es)] ELSE running
<1> DEFINE S == SUBSET Seq(Nat)
           n == Len(es)
           g == [k \in 1..n |-> [s \in S |-> Panel(s, es[k])]]
           shown[k \in 0..n] == IF k = 0 THEN running ELSE Panel(shown[k - 1], es[k])
<1>1. n \in Nat /\ \A k \in 1..n : es[k] \in EventType
  BY SequenceIs
<1>2. \A k \in 1..n, s \in S : Panel(s, es[k]) \in S
  BY <1>1 DEF Panel, EventType
<1>3. g \in Steps(n, S)
  BY <1>2 DEF Steps
<1>4. \A s \in S, k \in 1..n : g[k][s] = Panel(s, es[k])
  OBVIOUS
<1>5. TuiHears(es) = IF Hears(Tui) THEN shown[n] ELSE running
  BY DEF TuiHears
<1>6. running \in S
  OBVIOUS
<1> HIDE DEF g, n, S
<1>7. PICK f : f \in MadeBy(n, S, running, g)
  BY <1>1, <1>3, <1>6, Recursion
<1>8. f \in [0..n -> S] /\ f[0] = running /\ \A k \in 1..n : f[k] = g[k][f[k - 1]]
  BY <1>7 DEF MadeBy
<1>9. ASSUME NEW k \in 1..n PROVE f[k] = Panel(f[k - 1], es[k])
  <2>1. f[k - 1] \in S
    BY <1>1, <1>8
  <2> QED
    BY <1>4, <1>8, <2>1
<1>10. f = [k \in 0..n |-> IF k = 0 THEN running ELSE Panel(f[k - 1], es[k])]
  BY <1>8, <1>9
<1>11. shown = [k \in 0..n |-> IF k = 0 THEN running ELSE Panel(shown[k - 1], es[k])]
  BY <1>10
<1> HIDE DEF shown
<1>12. \A k \in 1..n : k \in 0..n /\ k - 1 \in 0..n /\ k # 0
  BY <1>1
<1>13. shown[0] = running /\ \A k \in 1..n : shown[k] = Panel(shown[k - 1], es[k])
  <2>1. 0 \in 0..n
    BY <1>1
  <2> QED
    BY <1>11, <1>12, <2>1
<1> DEFINE T == {k \in 0..n : shown[k] \in S}
<1>14. 0 \in T /\ \A k \in 1..n : k - 1 \in T => k \in T
  <2>1. 0 \in T
    BY <1>1, <1>6, <1>13
  <2>2. ASSUME NEW k \in 1..n, k - 1 \in T PROVE k \in T
    <3>1. shown[k - 1] \in S
      BY <2>2
    <3>2. Panel(shown[k - 1], es[k]) \in S
      BY <1>2, <3>1 DEF n, S
    <3> QED
      BY <1>12, <1>13, <3>2
  <2> QED
    BY <2>1, <2>2
<1> HIDE DEF T
<1>15. \A k \in 0..n : k \in T
  BY <1>1, <1>14, UpTo
<1>16. \A k \in 0..n : shown[k] \in S
  BY <1>15 DEF T
<1> QED
  BY <1>5, <1>13, <1>16 DEF n, S

\* What monitor-otel makes of some events, when what it makes of each is known to stay in a set.
LEMMA OtelHearing ==
  ASSUME NEW S, NEW o \in S, NEW es \in Seq(EventType), \A k \in 1..Len(es), s \in S : Processed(s, es[k]) \in S
  PROVE  \E f : /\ f[0] = o /\ \A k \in 1..Len(es) : f[k] = Processed(f[k - 1], es[k])
                /\ \A k \in 0..Len(es) : f[k] \in S
                /\ OtelHears(o, es) = IF Hears(Otel) THEN f[Len(es)] ELSE o
<1> DEFINE n == Len(es)
           g == [k \in 1..n |-> [s \in S |-> Processed(s, es[k])]]
           heard[k \in 0..n] == IF k = 0 THEN o ELSE Processed(heard[k - 1], es[k])
<1>1. n \in Nat
  BY SequenceIs
<1>2. \A k \in 1..n, s \in S : Processed(s, es[k]) \in S
  OBVIOUS
<1>3. g \in Steps(n, S)
  BY <1>2 DEF Steps
<1>4. \A s \in S, k \in 1..n : g[k][s] = Processed(s, es[k])
  OBVIOUS
<1>5. OtelHears(o, es) = IF Hears(Otel) THEN heard[n] ELSE o
  BY DEF OtelHears
<1> HIDE DEF g, n
<1>7. PICK f : f \in MadeBy(n, S, o, g)
  BY <1>1, <1>3, Recursion
<1>8. f \in [0..n -> S] /\ f[0] = o /\ \A k \in 1..n : f[k] = g[k][f[k - 1]]
  BY <1>7 DEF MadeBy
<1>9. ASSUME NEW k \in 1..n PROVE f[k] = Processed(f[k - 1], es[k])
  <2>1. f[k - 1] \in S
    BY <1>1, <1>8
  <2> QED
    BY <1>4, <1>8, <2>1
<1>10. f = [k \in 0..n |-> IF k = 0 THEN o ELSE Processed(f[k - 1], es[k])]
  BY <1>8, <1>9
<1>11. heard = [k \in 0..n |-> IF k = 0 THEN o ELSE Processed(heard[k - 1], es[k])]
  BY <1>10
<1> HIDE DEF heard
<1>12. \A k \in 1..n : k \in 0..n /\ k - 1 \in 0..n /\ k # 0
  BY <1>1
<1>13. heard[0] = o /\ \A k \in 1..n : heard[k] = Processed(heard[k - 1], es[k])
  <2>1. 0 \in 0..n
    BY <1>1
  <2> QED
    BY <1>11, <1>12, <2>1
<1> DEFINE T == {k \in 0..n : heard[k] \in S}
<1>14. 0 \in T /\ \A k \in 1..n : k - 1 \in T => k \in T
  <2>1. 0 \in T
    BY <1>1, <1>13
  <2>2. \A k \in 1..n : k - 1 \in T => k \in T
    BY <1>2, <1>12, <1>13
  <2> QED
    BY <2>1, <2>2
<1> HIDE DEF T
<1>15. \A k \in 0..n : k \in T
  BY <1>1, <1>14, UpTo
<1>16. \A k \in 0..n : heard[k] \in S
  BY <1>15 DEF T
<1> QED
  BY <1>5, <1>13, <1>16 DEF n

\* The events are of no step.
Quiet(es) == es \in Seq(EventType) /\ \A k \in 1..Len(es) : Plain(es[k])

Hear(o, es) == es \in Seq(EventType) /\ emitted' = emitted \o es /\ running' = TuiHears(es) /\ otel' = OtelHears(o, es)

Ending(ok) == [kind |-> "end", id |-> Last(open), ok |-> ok]

\* What is said in an action, and from what of monitor-otel on.
Unheard == (UNCHANGED exec \/ ToBody) /\ UNCHANGED <<running, otel>> /\ \E es : Quiet(es) /\ emitted' = emitted \o es
HearsQuiet == (UNCHANGED exec \/ ToBody) /\ \E es : Quiet(es) /\ Hear(otel, es)
HearsTracer == OtelInitializes /\ UNCHANGED exec /\ Quiet(<<Log>>) /\ Hear([otel EXCEPT !.tracer = TRUE], <<Log>>)
HearsNone == OtelEndsFeature /\ UNCHANGED <<running, emitted, exec>>
HearsFeature == FeatureLine /\ Hear(otel, <<Event("feature", <<feature>>)>>)
HearsStart ==
  StepStarts /\ \E id \in Seq(Nat) : open' = Append(open, id) /\ Hear(otel, <<Event("start", id)>>)
HearsEnd(o) == (StepDone \/ StepReruns) /\ phase = "body" /\ open # <<>> /\ \E ok \in BOOLEAN : Hear(o, <<Ending(ok)>>)
HearsCustom ==
  /\ StartOtelSpan /\ otel.feature # 0
  /\ LET s == Started(otel, "custom", otel.feature)
     IN  HearsEnd([s EXCEPT !.steps = With(@, Custom, Len(s.spans))])
  /\ \A i \in DOMAIN otel.spans : otel.spans[i].what # "custom"
HearsFinalizer ==
  /\ \E ok \in BOOLEAN : FinalizerRuns(ok)
  /\ UNCHANGED exec /\ FinalizerHook
  /\ \E ok \in BOOLEAN : LET id == <<FinalizerPath, finalizers.index>>
                             start == Event("start", id)
                             end == [kind |-> "end", id |-> id, ok |-> ok]
                         IN  Hear(otel, IF ok THEN <<start, end>> ELSE <<start, end, Log>>)

LEMMA QuietIs ==
  /\ Quiet(<<>>) /\ Quiet(<<Log>>) /\ Quiet(<<Trace>>)
  /\ \A id \in Seq(Nat), kind \in {"log", "artifact", "execution"} : Quiet(<<Event(kind, id)>>)
<1>1. Quiet(<<>>)
  BY DEF Quiet
<1>2. ASSUME NEW e \in EventType, Plain(e) PROVE Quiet(<<e>>)
  <2>1. <<e>> \in Seq(EventType) /\ Len(<<e>>) = 1 /\ <<e>>[1] = e /\ \A k \in 1..1 : k = 1
    OBVIOUS
  <2> QED
    BY <1>2, <2>1 DEF Quiet
<1> QED
  BY <1>1, <1>2, PlainIs

LEMMA HearIs ==
  /\ \A o, es : es \in Seq(EventType) /\ EmitFrom(o, es) => Hear(o, es)
  /\ \A es : es \in Seq(EventType) /\ Emit(es) => Hear(otel, es)
BY DEF EmitFrom, Emit, Broadcast, Hear

LEMMA Hearings ==
  ASSUME ControlTypes, DataTypes, OpenInv, MonitorsNext
  PROVE  \/ Unheard \/ HearsQuiet \/ HearsTracer \/ HearsNone \/ HearsFeature \/ HearsStart
         \/ HearsEnd(otel) \/ HearsEnd(Ended(otel, Custom)) \/ HearsCustom \/ HearsFinalizer
<1>0. emitted \in Seq(EventType) /\ open \in Seq(Seq(Nat)) /\ feature \in Nat /\ steps \in Nat /\ finalizers.index \in Nat
  BY Listed, FinTypes DEF DataTypes, ControlTypes
<1>1. CASE \/ NoHook \/ ToFirstFeature \/ ToStartFeature \/ ToNextFeature \/ ToDone \/ OtelSetsWorld \/ BrowserSetsWorld
           \/ FinalizerStartsFeature \/ BrowserConnected \/ BrowserCannotListen \/ StepThrows \/ FinalizerThrows
           \/ FinalizersDone \/ BrowserSaves \/ HostEnds \/ PostAnswered
  <2>1. UNCHANGED <<emitted, running, otel>> /\ UNCHANGED exec
    BY <1>1 DEF Silent, NoHook, ToFirstFeature, ToStartFeature, ToNextFeature, ToDone, OtelSetsWorld, BrowserSetsWorld,
         FinalizerStartsFeature, BrowserConnected, BrowserCannotListen, StepThrows, FinalizerThrows, FinalizersDone,
         BrowserSaves, HostEnds, PostAnswered
  <2>2. emitted' = emitted \o <<>>
    BY <1>0, <2>1
  <2> QED
    BY <2>1, <2>2, QuietIs DEF Unheard
<1>2. CASE BrowserConnects \/ PostFails
  <2>1. emitted' = Append(emitted, Log) /\ UNCHANGED <<running, otel>> /\ UNCHANGED exec
    BY <1>2 DEF BrowserConnects, PostFails
  <2>2. emitted' = emitted \o <<Log>>
    BY <1>0, <2>1, PlainIs, AppendIsConcat
  <2> QED
    BY <2>1, <2>2, QuietIs DEF Unheard
<1>3. CASE ToBody \/ BrowserCannotSave \/ OtelShutsDown
  <2>1. Emit(<<Log>>) /\ (UNCHANGED exec \/ ToBody)
    BY <1>3 DEF ToBody, BrowserCannotSave, OtelShutsDown
  <2> QED
    BY <2>1, QuietIs, HearIs DEF HearsQuiet, Quiet
<1>4. CASE BrowserSaved
  <2>1. Broadcast(<<Log>>) /\ otel' = OtelHears(otel, <<Log>>) /\ UNCHANGED exec
    BY <1>4 DEF BrowserSaved
  <2>2. Hear(otel, <<Log>>)
    BY <2>1, QuietIs DEF Broadcast, Hear, Quiet
  <2> QED
    BY <2>1, <2>2, QuietIs DEF HearsQuiet
<1>5. CASE ToEndExecution \/ VideoEnds \/ Traffic \/ ToEndFeature
  <2>1. /\ UNCHANGED exec
        /\ \/ Emit(<<Event("execution", <<>>)>>) \/ Emit(<<Event("artifact", <<>>)>>) \/ Emit(<<Trace>>) \/ Emit(<<>>)
    BY <1>5 DEF ToEndExecution, VideoEnds, Traffic, ToEndFeature
  <2>2. \A es \in {<<Event("execution", <<>>)>>, <<Event("artifact", <<>>)>>, <<Trace>>, <<>>} : Quiet(es)
    BY QuietIs, PlainIs
  <2>3. PICK es : Quiet(es) /\ Emit(es)
    BY <2>1, <2>2
  <2> QED
    BY <2>1, <2>3, HearIs DEF HearsQuiet, Quiet
<1>6. CASE StepShows
  <2>1. UNCHANGED exec /\ open # <<>> /\ Emit(<<Event("artifact", Append(Last(open), 0))>>)
    BY <1>6 DEF StepShows
  <2>2. Append(Last(open), 0) \in Seq(Nat)
    BY <1>0, <2>1, Innermost
  <2>3. Quiet(<<Event("artifact", Append(Last(open), 0))>>)
    BY <2>2, QuietIs
  <2> QED
    BY <2>1, <2>3, HearIs DEF HearsQuiet, Quiet
<1>7. CASE OtelInitializes
  <2>1. EmitFrom([otel EXCEPT !.tracer = TRUE], <<Log>>) /\ UNCHANGED exec
    BY <1>7 DEF OtelInitializes
  <2> QED
    BY <1>7, <2>1, QuietIs, HearIs DEF HearsTracer, Quiet
<1>8. CASE OtelEndsFeature
  BY <1>8 DEF OtelEndsFeature, HearsNone
<1>9. CASE FeatureLine
  <2>1. Emit(<<Event("feature", <<feature>>)>>)
    BY <1>9 DEF FeatureLine
  <2>2. <<feature>> \in Seq(Nat)
    BY <1>0
  <2>3. <<Event("feature", <<feature>>)>> \in Seq(EventType)
    <3>1. Event("feature", <<feature>>) \in EventType
      BY <2>2, EventIs
    <3> QED
      BY <3>1
  <2> QED
    BY <1>9, <2>1, <2>3, HearIs DEF HearsFeature
<1>10. CASE StepStarts
  <2> DEFINE id == (IF open = <<>> THEN <<feature>> ELSE Last(open)) \o <<steps + 1>>
  <2>1. open' = Append(open, id) /\ Emit(<<Event("start", id)>>)
    BY <1>10 DEF StepStarts
  <2>2. id \in Seq(Nat)
    <3>1. (IF open = <<>> THEN <<feature>> ELSE Last(open)) \in Seq(Nat) /\ <<steps + 1>> \in Seq(Nat)
      BY <1>0, Innermost
    <3> QED
      BY <3>1
  <2> HIDE DEF id
  <2>3. <<Event("start", id)>> \in Seq(EventType)
    BY <2>2, EventIs
  <2> QED
    BY <1>10, <2>1, <2>2, <2>3, HearIs DEF HearsStart
<1>11. open # <<>> => \A ok \in BOOLEAN : StepEnd(ok) = Ending(ok) /\ <<Ending(ok)>> \in Seq(EventType)
  <2> SUFFICES ASSUME open # <<>>, NEW ok \in BOOLEAN PROVE StepEnd(ok) = Ending(ok) /\ <<Ending(ok)>> \in Seq(EventType)
    OBVIOUS
  <2>1. Last(open) \in Seq(Nat)
    BY <1>0, Innermost
  <2>2. Ending(ok) \in EventType /\ StepEnd(ok) = Ending(ok)
    BY <2>1, EventIs DEF StepEnd, Ending
  <2> QED
    BY <2>2
<1>12. ASSUME NEW o, NEW ok \in BOOLEAN, EmitFrom(o, <<StepEnd(ok)>>), StepDone \/ StepReruns, phase = "body", open # <<>>
       PROVE  HearsEnd(o)
  <2>1. StepEnd(ok) = Ending(ok) /\ <<Ending(ok)>> \in Seq(EventType)
    BY <1>11, <1>12
  <2>2. Hear(o, <<Ending(ok)>>)
    BY <1>12, <2>1, HearIs
  <2> QED
    BY <1>12, <2>2 DEF HearsEnd
<1>13. CASE (\E ok \in BOOLEAN : StepEnds(ok)) \/ RegisterFinalizer \/ StepReruns
  <2>1. phase = "body" /\ open # <<>> /\ (StepDone \/ StepReruns) /\ \E ok \in BOOLEAN : EmitFrom(otel, <<StepEnd(ok)>>)
    BY <1>13 DEF StepEnds, RegisterFinalizer, StepReruns, Returns, StepDone, Emit
  <2> QED
    BY <1>12, <2>1
<1>14. CASE StartOtelSpan
  <2> DEFINE s == Started(otel, "custom", otel.feature)
             o == [s EXCEPT !.steps = With(@, Custom, Len(s.spans))]
  <2>1. /\ phase = "body" /\ open # <<>> /\ StepDone /\ EmitFrom(o, <<StepEnd(TRUE)>>) /\ otel.feature # 0
        /\ \A i \in DOMAIN otel.spans : otel.spans[i].what # "custom"
    BY <1>14 DEF StartOtelSpan, Returns, StepDone
  <2> HIDE DEF o
  <2>2. HearsEnd(o)
    BY <1>12, <2>1
  <2> QED
    BY <1>14, <2>1, <2>2 DEF HearsCustom, o
<1>15. CASE EndOtelSpan
  <2>1. phase = "body" /\ open # <<>> /\ StepDone /\ EmitFrom(Ended(otel, Custom), <<StepEnd(TRUE)>>)
    BY <1>15 DEF EndOtelSpan, Returns, StepDone
  <2>2. HearsEnd(Ended(otel, Custom))
    BY <1>12, <2>1
  <2> QED
    BY <2>2
<1>16. CASE \E ok \in BOOLEAN : FinalizerRuns(ok)
  <2> DEFINE id == <<FinalizerPath, finalizers.index>>
  <2>1. PICK ok \in BOOLEAN : FinalizerRuns(ok)
    BY <1>16
  <2> DEFINE start == Event("start", id)
             end == [kind |-> "end", id |-> id, ok |-> ok]
  <2>2. id \in Seq(Nat)
    BY <1>0 DEF FinalizerPath
  <2>3. [Event("end", id) EXCEPT !.ok = ok] = end
    BY DEF Event
  <2>4. start \in EventType /\ end \in EventType /\ Log \in EventType
    <3> HIDE DEF id
    <3> QED
      BY <2>2, EventIs, PlainIs
  <2>5. Emit(IF ok THEN <<start, end>> ELSE <<start, end, Log>>) /\ UNCHANGED exec /\ FinalizerHook
    BY <2>1, <2>3 DEF FinalizerRuns
  <2> HIDE DEF start, end
  <2>6. (IF ok THEN <<start, end>> ELSE <<start, end, Log>>) \in Seq(EventType)
    BY <2>4
  <2>7. Hear(otel, IF ok THEN <<start, end>> ELSE <<start, end, Log>>)
    BY <2>5, <2>6, HearIs
  <2> QED
    BY <1>16, <2>5, <2>7 DEF HearsFinalizer, start, end
<1> QED
  BY <1>1, <1>2, <1>3, <1>4, <1>5, <1>6, <1>7, <1>8, <1>9, <1>10, <1>13, <1>14, <1>15, <1>16 DEF MonitorsNext

-----------------------------------------------------------------------------
(* The terminal.                                                            *)

LEMMA TuiShows ==
  ASSUME running \in SUBSET Seq(Nat), NEW es \in Seq(EventType)
  PROVE  /\ TuiHears(es) \in SUBSET Seq(Nat)
         /\ ~Hears(Tui) => TuiHears(es) = running
         /\ (\A k \in 1..Len(es) : es[k].kind \notin {"start", "end"}) => TuiHears(es) = running
         /\ Hears(Tui) /\ Len(es) = 1 => TuiHears(es) = Panel(running, es[1])
         /\ Hears(Tui) /\ Len(es) \in {2, 3} /\ (Len(es) = 3 => es[3].kind \notin {"start", "end"}) /\ es[1].kind = "start" /\ es[2].kind = "end" /\ es[1].id = es[2].id =>
              TuiHears(es) = running \ {es[1].id}
<1>1. PICK f : /\ f[0] = running /\ \A k \in 1..Len(es) : f[k] = Panel(f[k - 1], es[k])
               /\ \A k \in 0..Len(es) : f[k] \in SUBSET Seq(Nat)
               /\ TuiHears(es) = IF Hears(Tui) THEN f[Len(es)] ELSE running
  BY TuiHearing
<1>2. Len(es) \in Nat
  BY SequenceIs
<1>3. TuiHears(es) \in SUBSET Seq(Nat)
  <2>1. f[Len(es)] \in SUBSET Seq(Nat)
    BY <1>1, <1>2
  <2> QED
    BY <1>1, <2>1
<1>4. ASSUME \A k \in 1..Len(es) : es[k].kind \notin {"start", "end"} PROVE TuiHears(es) = running
  <2> DEFINE T == {k \in 0..Len(es) : f[k] = running}
  <2>1. 0 \in T
    BY <1>1, <1>2
  <2>2. ASSUME NEW k \in 1..Len(es), k - 1 \in T PROVE k \in T
    <3>1. f[k] = Panel(running, es[k]) /\ k \in 0..Len(es)
      BY <1>1, <1>2, <2>2
    <3>2. es[k].kind # "start" /\ es[k].kind # "end"
      BY <1>4
    <3> QED
      BY <3>1, <3>2 DEF Panel
  <2> HIDE DEF T
  <2>3. \A k \in 0..Len(es) : k \in T
    BY <1>2, <2>1, <2>2, UpTo
  <2>4. f[Len(es)] = running
    BY <1>2, <2>3 DEF T
  <2> QED
    BY <1>1, <2>4
<1>5. ASSUME Hears(Tui), Len(es) = 1 PROVE TuiHears(es) = Panel(running, es[1])
  <2>1. 1 \in 1..Len(es) /\ 1 - 1 = 0
    BY <1>5
  <2>2. f[1] = Panel(f[1 - 1], es[1]) /\ f[1 - 1] = running
    BY <1>1, <2>1
  <2> QED
    BY <1>1, <1>5, <2>2
<1>6. ASSUME Hears(Tui), Len(es) \in {2, 3}, Len(es) = 3 => es[3].kind \notin {"start", "end"}, es[1].kind = "start", es[2].kind = "end", es[1].id = es[2].id
      PROVE  TuiHears(es) = running \ {es[1].id}
  <2>1. f[1] = Panel(running, es[1]) /\ f[2] = Panel(f[1], es[2])
    <3>1. 1 \in 1..Len(es) /\ 2 \in 1..Len(es) /\ 1 - 1 = 0 /\ 2 - 1 = 1
      BY <1>6
    <3>2. f[1] = Panel(f[1 - 1], es[1]) /\ f[2] = Panel(f[2 - 1], es[2])
      BY <1>1, <3>1
    <3> QED
      BY <1>1, <3>1, <3>2
  <2>2. f[2] = running \ {es[1].id}
    <3>1. f[1] = running \cup {es[1].id}
      BY <1>6, <2>1 DEF Panel
    <3>2. f[2] = f[1] \ {es[1].id}
      BY <1>6, <2>1 DEF Panel
    <3> QED
      BY <3>1, <3>2
  <2>3. CASE Len(es) = 2
    BY <1>1, <1>6, <2>2, <2>3
  <2>4. CASE Len(es) = 3
    <3>1. f[3] = Panel(f[2], es[3])
      <4>1. 3 \in 1..Len(es) /\ 3 - 1 = 2
        BY <2>4
      <4> QED
        BY <1>1, <4>1
    <3>2. f[3] = f[2]
      BY <1>6, <2>4, <3>1 DEF Panel
    <3> QED
      BY <1>1, <1>6, <2>2, <2>4, <3>2
  <2> QED
    BY <1>6, <2>3, <2>4
<1> QED
  BY <1>1, <1>3, <1>4, <1>5, <1>6

\* What the events of a step add to those there were.
LEMMA Ends ==
  ASSUME emitted \in Seq(EventType), NEW es \in Seq(EventType), emitted' = emitted \o es, NEW id
  PROVE  (\A i \in DOMAIN emitted' : emitted'[i].kind = "end" => emitted'[i].id # id) <=>
           /\ \A i \in DOMAIN emitted : emitted[i].kind = "end" => emitted[i].id # id
           /\ \A k \in 1..Len(es) : es[k].kind = "end" => es[k].id # id
<1>1. /\ DOMAIN emitted = 1..Len(emitted) /\ DOMAIN emitted' = 1..Len(emitted) + Len(es)
      /\ \A i \in DOMAIN emitted : i \in DOMAIN emitted' /\ emitted'[i] = emitted[i]
      /\ \A k \in 1..Len(es) : Len(emitted) + k \in Fresh /\ emitted'[Len(emitted) + k] = es[k]
      /\ \A i \in Fresh : \E k \in 1..Len(es) : i = Len(emitted) + k
      /\ DOMAIN emitted' = DOMAIN emitted \cup Fresh
  BY Extended
<1>2. ASSUME \A i \in DOMAIN emitted' : emitted'[i].kind = "end" => emitted'[i].id # id
      PROVE  /\ \A i \in DOMAIN emitted : emitted[i].kind = "end" => emitted[i].id # id
             /\ \A k \in 1..Len(es) : es[k].kind = "end" => es[k].id # id
  <2>1. ASSUME NEW k \in 1..Len(es) PROVE es[k].kind = "end" => es[k].id # id
    <3>1. Len(emitted) + k \in DOMAIN emitted' /\ emitted'[Len(emitted) + k] = es[k]
      BY <1>1
    <3> QED
      BY <1>2, <3>1
  <2>2. ASSUME NEW i \in DOMAIN emitted PROVE emitted[i].kind = "end" => emitted[i].id # id
    BY <1>1, <1>2
  <2> QED
    BY <2>1, <2>2
<1>3. ASSUME \A i \in DOMAIN emitted : emitted[i].kind = "end" => emitted[i].id # id,
             \A k \in 1..Len(es) : es[k].kind = "end" => es[k].id # id, NEW i \in DOMAIN emitted'
      PROVE  emitted'[i].kind = "end" => emitted'[i].id # id
  <2>1. CASE i \in DOMAIN emitted
    BY <1>1, <1>3, <2>1
  <2>2. CASE i \in Fresh
    <3>1. PICK k \in 1..Len(es) : i = Len(emitted) + k
      BY <1>1, <2>2
    <3>2. emitted'[i] = es[k]
      BY <1>1, <3>1
    <3> QED
      BY <1>3, <3>2
  <2> QED
    BY <1>1, <2>1, <2>2
<1> QED
  BY <1>2, <1>3

LEMMA PanelStep ==
  ASSUME ControlTypes, DataTypes, OpenInv, EventInv, PanelShowsRunning, MonitorsNext
  PROVE  PanelShowsRunning' /\ running' \in SUBSET Seq(Nat)
<1> DEFINE Ended1(id) == \E i \in DOMAIN emitted : emitted[i].kind = "end" /\ emitted[i].id = id
           Going == {id \in ToSet(open) : ~Ended1(id)}
<1>0. /\ running \in SUBSET Seq(Nat) /\ emitted \in Seq(EventType) /\ open \in Seq(Seq(Nat))
      /\ feature \in Nat /\ feature < FinalizerPath /\ steps \in Nat
  <2>1. feature \in Nat /\ feature < FinalizerPath
    BY Listed DEF ControlTypes, FinalizerPath
  <2> QED
    BY <2>1, Listed DEF DataTypes
<1>1. (Has(Tui)' <=> Has(Tui)) /\ (Has(Otel)' <=> Has(Otel))
  BY ControlStep, Turns
<1>2. Has(Tui) /\ ~Has(Otel) => Hears(Tui)
  BY DEF Hears, ControlTypes
<1>3. Has(Tui) /\ ~Has(Otel) => running = Going
  BY DEF PanelShowsRunning
<1>4. ASSUME NEW es \in Seq(EventType), emitted' = emitted \o es,
             Has(Tui) /\ ~Has(Otel) => running' = {id \in ToSet(open') : ~Ended1(id) /\ \A k \in 1..Len(es) : es[k].kind = "end" => es[k].id # id}
      PROVE  PanelShowsRunning'
  <2>1. \A id : (\A i \in DOMAIN emitted' : emitted'[i].kind = "end" => emitted'[i].id # id) <=>
           (~Ended1(id) /\ \A k \in 1..Len(es) : es[k].kind = "end" => es[k].id # id)
    <3> SUFFICES ASSUME NEW id
                 PROVE  (\A i \in DOMAIN emitted' : emitted'[i].kind = "end" => emitted'[i].id # id) <=>
                          (~Ended1(id) /\ \A k \in 1..Len(es) : es[k].kind = "end" => es[k].id # id)
      OBVIOUS
    <3>1. (\A i \in DOMAIN emitted' : emitted'[i].kind = "end" => emitted'[i].id # id) <=>
            /\ \A i \in DOMAIN emitted : emitted[i].kind = "end" => emitted[i].id # id
            /\ \A k \in 1..Len(es) : es[k].kind = "end" => es[k].id # id
      BY <1>0, <1>4, Ends
    <3>2. (\A i \in DOMAIN emitted : emitted[i].kind = "end" => emitted[i].id # id) <=> ~Ended1(id)
      BY Zenon
    <3> HIDE DEF Ended1
    <3> QED
      BY <3>1, <3>2, Zenon
  <2> HIDE DEF Ended1
  <2> QED
    BY <1>1, <1>4, <2>1 DEF PanelShowsRunning
<1>5. /\ DOMAIN open = 1..Len(open) /\ Len(open) \in Nat /\ ToSet(open) = {open[k] : k \in 1..Len(open)}
      /\ \A k \in 1..Len(open) : open[k] \in Seq(Nat) /\ Len(open[k]) = k + 1 /\ open[k][1] = feature
  BY <1>0, SequenceIs, ToSetIs DEF OpenInv
<1>6. CASE Unheard \/ HearsQuiet \/ HearsTracer
  <2>1. (UNCHANGED exec \/ ToBody) /\ \E es : Quiet(es) /\ emitted' = emitted \o es /\ (running' = running \/ running' = TuiHears(es))
    BY <1>6 DEF Unheard, HearsQuiet, HearsTracer, Hear
  <2>2. PICK es : Quiet(es) /\ emitted' = emitted \o es /\ (running' = running \/ running' = TuiHears(es))
    BY <2>1
  <2>3. es \in Seq(EventType) /\ \A k \in 1..Len(es) : es[k].kind \notin {"start", "end"}
    BY <2>2 DEF Quiet, Plain
  <2>4. running' = running
    BY <1>0, <2>2, <2>3, TuiShows
  <2>5. open' = open
    <3>1. ToBody => open = <<>> /\ open' = <<>>
      BY DEF ToBody, HooksDone, OpenInv
    <3> QED
      BY <2>1, <3>1 DEF exec
  <2> HIDE DEF Ended1
  <2> QED
    BY <1>0, <1>3, <1>4, <2>2, <2>3, <2>4, <2>5
<1>7. CASE HearsNone
  <2>1. UNCHANGED <<running, emitted, open>>
    BY <1>7 DEF HearsNone, exec
  <2> QED
    BY <1>0, <1>1, <2>1 DEF PanelShowsRunning
<1>8. CASE HearsFeature
  <2> DEFINE e == Event("feature", <<feature>>)
  <2>1. <<e>> \in Seq(EventType) /\ emitted' = emitted \o <<e>> /\ running' = TuiHears(<<e>>) /\ open' = open
    BY <1>8 DEF HearsFeature, Hear, FeatureLine
  <2>2. e.kind = "feature"
    BY DEF Event
  <2> HIDE DEF e, Ended1
  <2>3. Len(<<e>>) = 1 /\ \A k \in 1..Len(<<e>>) : <<e>>[k].kind \notin {"start", "end"}
    BY <2>2
  <2>4. running' = running
    BY <1>0, <2>1, <2>3, TuiShows
  <2> QED
    BY <1>0, <1>3, <1>4, <2>1, <2>3, <2>4
<1>9. CASE HearsStart
  <2>1. PICK id \in Seq(Nat) : StepStarts /\ open' = Append(open, id) /\ Hear(otel, <<Event("start", id)>>)
    BY <1>9 DEF HearsStart
  <2> DEFINE e == Event("start", id)
  <2>2. <<e>> \in Seq(EventType) /\ emitted' = emitted \o <<e>> /\ running' = TuiHears(<<e>>)
    BY <2>1 DEF Hear
  <2>3. e.kind = "start" /\ e.id = id
    BY DEF Event
  <2> HIDE DEF e
  <2>4. Len(<<e>>) = 1 /\ <<e>>[1] = e /\ \A k \in 1..Len(<<e>>) : <<e>>[k].kind # "end"
    BY <2>3
  <2>5. ToSet(open') = ToSet(open) \cup {id}
    <3>1. Append(open, id) = open \o <<id>> /\ <<id>> \in Seq(Seq(Nat)) /\ ToSet(<<id>>) = {id}
      <4>1. Append(open, id) = open \o <<id>>
        BY <1>0, <2>1, AppendIsConcat
      <4>2. <<id>> \in Seq(Seq(Nat)) /\ Len(<<id>>) = 1 /\ <<id>>[1] = id
        OBVIOUS
      <4>3. ToSet(<<id>>) = {<<id>>[k] : k \in 1..1}
        BY <4>2, ToSetIs
      <4>4. {<<id>>[k] : k \in 1..1} = {id}
        OBVIOUS
      <4> QED
        BY <4>1, <4>2, <4>3, <4>4
    <3>2. ToSet(open \o <<id>>) = ToSet(open) \cup ToSet(<<id>>)
      <4> DEFINE t == <<id>>
      <4>1. t \in Seq(Seq(Nat)) /\ open \in Seq(Seq(Nat))
        BY <1>0, <3>1
      <4> HIDE DEF t
      <4>2. ToSet(open \o t) = ToSet(open) \cup ToSet(t)
        BY <4>1, Joined
      <4> QED
        BY <4>2 DEF t
    <3> QED
      BY <2>1, <3>1, <3>2
  <2>6. ~Ended1(id)
    <3> SUFFICES ASSUME NEW i \in DOMAIN emitted, emitted[i].kind = "end", emitted[i].id = id PROVE FALSE
      OBVIOUS
    <3>1. id[1] = FinalizerPath \/ id[Len(id)] <= steps
      BY DEF EventInv
    <3>2. Len(id) = Len(open) + 2 /\ id[1] = feature /\ id[Len(open) + 2] = steps + 1
      <4> DEFINE p == IF open = <<>> THEN <<feature>> ELSE Last(open)
      <4>1. open' = Append(open, p \o <<steps + 1>>)
        BY <2>1 DEF StepStarts
      <4>2. p \in Seq(Nat) /\ Len(p) = Len(open) + 1 /\ p[1] = feature
        <5>1. CASE open = <<>>
          <6>1. p = <<feature>> /\ Len(open) = 0
            BY <5>1
          <6> QED
            BY <1>0, <6>1
        <5>2. CASE open # <<>>
          <6>1. p = open[Len(open)] /\ Len(open) \in 1..Len(open)
            BY <1>0, <1>5, <5>2, Innermost
          <6> QED
            BY <1>5, <6>1
        <5> QED
          BY <5>1, <5>2
      <4> HIDE DEF p
      <4>3. <<steps + 1>> \in Seq(Nat) /\ Len(<<steps + 1>>) = 1 /\ <<steps + 1>>[1] = steps + 1
        BY <1>0
      <4>4. /\ p \o <<steps + 1>> \in Seq(Nat) /\ Len(p \o <<steps + 1>>) = Len(p) + 1
            /\ \A k \in 1..Len(p) : (p \o <<steps + 1>>)[k] = p[k]
            /\ \A k \in 1..1 : (p \o <<steps + 1>>)[Len(p) + k] = <<steps + 1>>[k]
        BY <4>2, <4>3, Joined
      <4>5. id = p \o <<steps + 1>>
        <5>1. Append(open, id)[Len(open) + 1] = id
          BY <1>0, <2>1, Appended
        <5>2. Append(open, p \o <<steps + 1>>)[Len(open) + 1] = p \o <<steps + 1>>
          BY <1>0, <4>4, Appended
        <5> QED
          BY <2>1, <4>1, <5>1, <5>2
      <4>6. 1 \in 1..Len(p) /\ 1 \in 1..1 /\ Len(p) + 1 = Len(open) + 2
        BY <1>5, <4>2
      <4> QED
        BY <4>2, <4>3, <4>4, <4>5, <4>6
    <3> QED
      BY <1>0, <3>1, <3>2
  <2> HIDE DEF Ended1
  <2>7. Has(Tui) /\ ~Has(Otel) => running' = Going \cup {id}
    <3>1. Hears(Tui) => running' = running \cup {id}
      BY <1>0, <2>2, <2>3, <2>4, TuiShows DEF Panel
    <3> QED
      BY <1>2, <1>3, <3>1
  <2> QED
    <3>1. running' \in SUBSET Seq(Nat)
      BY <1>0, <2>2, TuiShows
    <3>2. Going \cup {id} = {x \in ToSet(open') : ~Ended1(x) /\ \A k \in 1..Len(<<e>>) : <<e>>[k].kind = "end" => <<e>>[k].id # x}
      BY <2>4, <2>5, <2>6
    <3> QED
      BY <1>4, <2>2, <2>7, <3>1, <3>2
<1>10. ASSUME NEW o, HearsEnd(o) PROVE PanelShowsRunning' /\ running' \in SUBSET Seq(Nat)
  <2>1. PICK ok \in BOOLEAN : Hear(o, <<Ending(ok)>>)
    BY <1>10 DEF HearsEnd
  <2>0. open # <<>>
    BY <1>10 DEF HearsEnd
  <2> DEFINE e == Ending(ok)
             last == Last(open)
  <2>2. <<e>> \in Seq(EventType) /\ emitted' = emitted \o <<e>> /\ running' = TuiHears(<<e>>)
    BY <2>1 DEF Hear
  <2>3. e.kind = "end" /\ e.id = last
    BY DEF Ending
  <2> HIDE DEF e
  <2>4. Len(<<e>>) = 1 /\ <<e>>[1] = e /\ \A k \in 1..Len(<<e>>) : <<e>>[k] = e
    OBVIOUS
  <2>5. open' = open \/ open' = Front(open)
    BY <1>10, Zenon DEF HearsEnd, StepDone, StepReruns, StepEnds, RegisterFinalizer, StartOtelSpan, EndOtelSpan, Returns, exec
  <2>6. ToSet(open') \ {last} = ToSet(open) \ {last}
    <3>1. CASE open' = open
      BY <3>1
    <3>2. CASE open' = Front(open)
      <4>1. /\ last = open[Len(open)] /\ open' \in Seq(Seq(Nat)) /\ Len(open') = Len(open) - 1
            /\ \A k \in 1..Len(open) - 1 : open'[k] = open[k]
        <5>1. /\ Last(open) = open[Len(open)]
              /\ Front(open) \in Seq(Seq(Nat)) /\ Len(Front(open)) = Len(open) - 1
              /\ \A k \in 1..Len(open) - 1 : Front(open)[k] = open[k]
          BY <1>0, <2>0, Innermost, Zenon
        <5> QED
          BY <3>2, <5>1, Zenon
      <4>2. ToSet(open') = {open[k] : k \in 1..Len(open) - 1}
        <5>1. ToSet(open') = {open'[k] : k \in 1..Len(open')}
          BY <4>1, ToSetIs
        <5>2. \A k \in 1..Len(open) - 1 : open'[k] = open[k]
          BY <4>1
        <5>3. {open'[k] : k \in 1..Len(open) - 1} = {open[k] : k \in 1..Len(open) - 1}
          BY <5>2
        <5>4. Len(open') = Len(open) - 1
          BY <4>1
        <5>5. {open'[k] : k \in 1..Len(open')} = {open'[k] : k \in 1..Len(open) - 1}
          BY <5>4
        <5> QED
          BY <5>1, <5>3, <5>5
      <4>3. \A k \in 1..Len(open) : k \in 1..Len(open) - 1 \/ k = Len(open)
        <5>1. Len(open) \in Nat
          BY <1>5
        <5> QED
          BY <5>1
      <4>4. \A k \in 1..Len(open) - 1 : k \in 1..Len(open)
        BY <1>5
      <4>5. {open[k] : k \in 1..Len(open)} = {open[k] : k \in 1..Len(open) - 1} \cup {open[Len(open)]}
        <5>1. Len(open) \in 1..Len(open)
          BY <1>5, <4>1
        <5> QED
          BY <4>3, <4>4, <5>1
      <4> QED
        BY <1>5, <4>1, <4>2, <4>5
    <3> QED
      BY <2>5, <3>1, <3>2
  <2> HIDE DEF Ended1, last
  <2>7. Has(Tui) /\ ~Has(Otel) => running' = Going \ {last}
    <3>1. Hears(Tui) => running' = running \ {last}
      BY <1>0, <2>2, <2>3, <2>4, TuiShows DEF Panel
    <3> QED
      BY <1>2, <1>3, <3>1
  <2>8. Going \ {last} = {id \in ToSet(open') : ~Ended1(id) /\ \A k \in 1..Len(<<e>>) : <<e>>[k].kind = "end" => <<e>>[k].id # id}
    BY <2>3, <2>4, <2>6
  <2>9. running' \in SUBSET Seq(Nat)
    BY <1>0, <2>2, TuiShows
  <2> QED
    BY <1>4, <2>2, <2>7, <2>8, <2>9
<1>11. CASE HearsFinalizer
  <2> DEFINE id == <<FinalizerPath, finalizers.index>>
             start == Event("start", id)
             end(ok) == [kind |-> "end", id |-> id, ok |-> ok]
             es(ok) == IF ok THEN <<start, end(ok)>> ELSE <<start, end(ok), Log>>
  <2>1. PICK ok \in BOOLEAN : Hear(otel, es(ok))
    BY <1>11 DEF HearsFinalizer
  <2> DEFINE fs == es(ok)
  <2>2. fs \in Seq(EventType) /\ emitted' = emitted \o fs /\ running' = TuiHears(fs) /\ open' = open
    BY <1>11, <2>1 DEF Hear, HearsFinalizer, exec
  <2>3. /\ start.kind = "start" /\ start.id = id /\ end(ok).kind = "end" /\ end(ok).id = id /\ Log.kind = "log"
    BY DEF Event, Log
  <2>4. /\ Len(fs) \in {2, 3} /\ (Len(fs) = 3 => fs[3].kind \notin {"start", "end"}) /\ fs[1].kind = "start" /\ fs[2].kind = "end" /\ fs[1].id = id /\ fs[2].id = id
        /\ \A k \in 1..Len(fs) : fs[k].kind = "end" => fs[k].id = id
    <3> HIDE DEF start, end
    <3>1. CASE ok
      <4>1. fs = <<start, end(ok)>>
        BY <3>1
      <4> QED
        BY <2>3, <4>1
    <3>2. CASE ~ok
      <4>1. fs = <<start, end(ok), Log>>
        BY <3>2
      <4> QED
        BY <2>3, <4>1
    <3> QED
      BY <3>1, <3>2
  <2> HIDE DEF fs, Ended1
  <2>5. id \notin ToSet(open)
    BY <1>0, <1>5
  <2>6. Has(Tui) /\ ~Has(Otel) => running' = Going \ {id}
    BY <1>0, <1>2, <1>3, <2>2, <2>4, TuiShows
  <2>7. Has(Tui) /\ ~Has(Otel) => running' = {x \in ToSet(open') : ~Ended1(x) /\ \A k \in 1..Len(fs) : fs[k].kind = "end" => fs[k].id # x}
    <3> HIDE DEF id
    <3> QED
      BY <2>2, <2>4, <2>5, <2>6
  <2>8. running' \in SUBSET Seq(Nat)
    BY <1>0, <2>2, TuiShows
  <2> QED
    BY <1>4, <2>2, <2>7, <2>8
<1>12. CASE HearsCustom
  BY <1>10, <1>12 DEF HearsCustom
<1> QED
  BY <1>6, <1>7, <1>8, <1>9, <1>10, <1>11, <1>12, Hearings

-----------------------------------------------------------------------------
(* The values of the variables.                                             *)

LEMMA DataStep ==
  ASSUME ControlTypes, DataTypes, OpenInv, EventInv, SavingInv, PanelShowsRunning, MonitorsNext
  PROVE  DataTypes'
<1>1. /\ setup' = setup /\ feature \in Nat /\ feature' \in Nat /\ feature' >= feature /\ Features' = Features
      /\ feature \in 0..Features /\ Features \in Nat
  BY ControlStep, Listed DEF ControlTypes, Features
<1>2. emitted' \in Seq(EventType)
  BY Told
<1>3. open' \in Seq(Seq(Nat)) /\ Len(open') <= 2 /\ steps' \in 0..setup.steps
  BY OpenStep
<1>4. /\ finalizers' \in FinalizersType /\ finalizers'.active \in Nat
      /\ finalizers'.active = finalizers.active \/ finalizers'.active = feature \/ finalizers'.active = 0
  <2>1. /\ finalizers' \in FinalizersType
        /\ finalizers'.active = finalizers.active \/ finalizers'.active = feature \/ finalizers'.active = 0
    BY FinMoves, FinTypes DEF FinStays, FinStarts, FinRegisters, FinRuns, FinEnds
  <2> QED
    BY <1>1, <2>1 DEF FinalizersType
<1>5. finalizers'.active <= feature'
  <2>1. finalizers.active <= feature
    BY DEF DataTypes
  <2>2. finalizers'.active <= feature
    BY <1>1, <1>4, <2>1
  <2> QED
    BY <1>1, <1>4, <2>2
<1>6. ran' \in Seq(RanType)
  <2>1. ran \in Seq(RanType)
    BY DEF DataTypes
  <2>2. CASE FinRuns
    BY <2>2, RunsOne
  <2>3. FinRuns \/ ran' = ran
    BY FinMoves, Zenon DEF FinStays, FinStarts, FinRegisters, FinEnds
  <2> QED
    BY <2>1, <2>2, <2>3, Zenon
<1>7. FinalizersType' = FinalizersType /\ RanType' = RanType
  BY <1>1 DEF FinalizerType, FinalizersType, RanType
<1>8. /\ buffer' \in Seq(DOMAIN emitted') /\ saving' \in Seq(Seq(DOMAIN emitted')) /\ reports' \in Seq(Seq(DOMAIN emitted'))
      /\ savedAt' \subseteq DOMAIN emitted' /\ wire' \subseteq {0} \cup DOMAIN emitted'
  BY SavingStep
<1>9. wire' # {} => transport' = "remote"
  BY WireStep DEF DataTypes
<1>10. warnings' \in Nat
  <2>1. warnings \in Nat
    BY DEF DataTypes
  <2>2. warnings' = warnings \/ warnings' = warnings + 1
    <3>1. CASE UNCHANGED page \/ BrowserSetsWorld \/ BrowserConnects \/ BrowserSaves \/ BrowserSaved
      BY <3>1 DEF page, BrowserSetsWorld, BrowserConnects, BrowserSaves, BrowserSaved
    <3>2. CASE HostEnds \/ PostFails
      BY <3>2 DEF HostEnds, PostFails
    <3>3. UNCHANGED page \/ BrowserSetsWorld \/ BrowserConnects \/ BrowserSaves \/ BrowserSaved \/ HostEnds \/ PostFails
      BY DEF MonitorsNext, NoHook, ToFirstFeature, ToStartFeature, ToBody, ToEndFeature, ToNextFeature, ToEndExecution, ToDone,
         OtelInitializes, OtelSetsWorld, FinalizerStartsFeature, BrowserConnected, FeatureLine, StepStarts,
         BrowserCannotListen, StepReruns, StepShows, StepThrows, Traffic, StepEnds, RegisterFinalizer, StartOtelSpan, EndOtelSpan,
         FinalizerRuns, FinalizerThrows, FinalizersDone, OtelEndsFeature, VideoEnds, BrowserCannotSave, OtelShutsDown,
         PostAnswered
    <3> QED
      BY <3>1, <3>2, <3>3
  <2> QED
    BY <2>1, <2>2
<1>11. running' \in SUBSET Seq(Nat)
  BY PanelStep
<1>12. currentFeature' \in 0..feature'
  BY CurrentStep
<1> QED
  BY <1>1, <1>2, <1>3, <1>4, <1>5, <1>6, <1>7, <1>8, <1>9, <1>10, <1>11, <1>12 DEF DataTypes

-----------------------------------------------------------------------------
(* The finalizers in the reports.                                           *)

FinStart(e) == e.kind = "start" /\ e.id[1] = FinalizerPath

LEMMA FreshFinalizers ==
  ASSUME ControlTypes, DataTypes, OpenInv, SavingInv, MonitorsNext
  PROVE  {i \in Fresh : FinStart(emitted'[i])} = IF FinRuns THEN {Len(emitted) + 1} ELSE {}
<1>0. /\ feature \in Nat /\ feature < FinalizerPath /\ emitted \in Seq(EventType) /\ FinalizerPath = 998
      /\ finalizers.index \in Nat
  <2>1. finalizers.index \in Nat /\ emitted \in Seq(EventType)
    BY FinTypes DEF DataTypes
  <2>2. feature \in 0..Features
    BY DEF ControlTypes
  <2>3. Features \in Nat /\ Features < FinalizerPath
    BY Listed
  <2>4. feature \in Nat /\ feature < FinalizerPath /\ FinalizerPath = 998
    BY <2>2, <2>3 DEF FinalizerPath
  <2> QED
    BY <2>1, <2>4
<1>1. CASE FinRuns
  <2> DEFINE id == <<FinalizerPath, finalizers.index>>
             start == Event("start", id)
             end(ok) == [kind |-> "end", id |-> id, ok |-> ok]
  <2>1. PICK ok \in BOOLEAN : FinalizerRuns(ok)
    BY <1>1 DEF FinRuns
  <2>2. [Event("end", id) EXCEPT !.ok = ok] = end(ok)
    BY DEF Event
  <2> DEFINE fs == IF ok THEN <<start, end(ok)>> ELSE <<start, end(ok), Log>>
  <2>3. emitted' = emitted \o fs
    BY <2>1, <2>2 DEF FinalizerRuns, Emit, EmitFrom, Broadcast
  <2>4. id \in Seq(Nat) /\ id[1] = FinalizerPath
    BY <1>0
  <2>5. start \in EventType /\ end(ok) \in EventType /\ Log \in EventType /\ start.kind = "start" /\ start.id = id /\ end(ok).kind = "end" /\ Log.kind = "log"
    <3>1. Log.kind = "log"
      BY DEF Log, Event
    <3> HIDE DEF id
    <3> QED
      BY <2>4, <3>1, EventIs, PlainIs
  <2>6. /\ fs \in Seq(EventType) /\ Len(fs) \in Nat /\ 1 \in 1..Len(fs) /\ FinStart(fs[1])
        /\ \A k \in 1..Len(fs) : FinStart(fs[k]) => k = 1
    <3> HIDE DEF start, end, id
    <3>1. CASE ok
      <4>1. fs = <<start, end(ok)>>
        BY <3>1
      <4> QED
        BY <2>4, <2>5, <4>1 DEF FinStart
    <3>2. CASE ~ok
      <4>1. fs = <<start, end(ok), Log>>
        BY <3>2
      <4> QED
        BY <2>4, <2>5, <4>1 DEF FinStart
    <3> QED
      BY <3>1, <3>2
  <2> HIDE DEF fs
  <2>7. /\ \A k \in 1..Len(fs) : Len(emitted) + k \in Fresh /\ emitted'[Len(emitted) + k] = fs[k]
        /\ \A i \in Fresh : \E k \in 1..Len(fs) : i = Len(emitted) + k
    <3>1. emitted \in Seq(EventType) /\ fs \in Seq(EventType) /\ emitted' = emitted \o fs
      BY <1>0, <2>3, <2>6, Zenon
    <3> QED
      BY <3>1, Extended, Zenon
  <2>8. Len(emitted) + 1 \in Fresh /\ FinStart(emitted'[Len(emitted) + 1])
    BY <2>6, <2>7
  <2>9. \A i \in Fresh : FinStart(emitted'[i]) => i = Len(emitted) + 1
    <3> SUFFICES ASSUME NEW i \in Fresh, FinStart(emitted'[i]) PROVE i = Len(emitted) + 1
      OBVIOUS
    <3>1. PICK k \in 1..Len(fs) : i = Len(emitted) + k
      BY <2>7
    <3>2. emitted'[i] = fs[k]
      BY <2>7, <3>1
    <3> QED
      BY <2>6, <3>1, <3>2
  <2> QED
    BY <1>1, <2>8, <2>9
<1>2. CASE ~FinRuns
  <2> SUFFICES ASSUME NEW i \in Fresh, FinStart(emitted'[i]) PROVE FALSE
    BY <1>2
  <2> DEFINE e == emitted'[i]
  <2>1. Known(e) /\ e.kind = "start" /\ e.id[1] = FinalizerPath
    BY Told DEF FinStart
  <2> HIDE DEF e
  <2>2. StepStarts /\ e.id = Last(open')
    BY <1>2, <2>1, FinalizersRun DEF Known, Plain
  <2>3. OpenInv' /\ open' \in Seq(Seq(Nat)) /\ feature' = feature
    BY <2>2, OpenStep DEF StepStarts, Stays, run
  <2>4. Len(open') \in DOMAIN open' /\ Last(open') = open'[Len(open')]
    <3>1. \E id : open' = Append(open, id)
      BY <2>2 DEF StepStarts
    <3>2. open' # <<>>
      <4>1. open \in Seq(Seq(Nat))
        BY DEF DataTypes
      <4> QED
        BY <3>1, <4>1
    <3>3. Len(open') \in Nat /\ DOMAIN open' = 1..Len(open') /\ Len(open') # 0
      BY <2>3, <3>2, SequenceIs
    <3> QED
      BY <3>3 DEF Last
  <2>5. e.id[1] = feature
    BY <2>2, <2>3, <2>4 DEF OpenInv
  <2> QED
    BY <1>0, <2>1, <2>5
<1> QED
  BY <1>1, <1>2

FinalizersNext(r) == {i \in ToSet(r) : FinStart(emitted'[i])}

\* The finalizers of some events are the same when more is said, and those of more events are theirs and the fresh.
LEMMA MoreFinalizers ==
  ASSUME ControlTypes, DataTypes, SavingInv, MonitorsNext, NEW r \in Seq(DOMAIN emitted), NEW fs \in Seq(Fresh)
  PROVE  /\ FinalizersNext(r) = FinalizersIn(r)
         /\ FinalizersNext(r \o fs) = FinalizersIn(r) \cup {i \in ToSet(fs) : FinStart(emitted'[i])}
<1>1. \A i \in DOMAIN emitted : emitted'[i] = emitted[i]
  BY Told
<1>2. ToSet(r) \subseteq DOMAIN emitted
  BY ToSetIs
<1>3. \A x : FinalizersNext(x) = {i \in ToSet(x) : FinStart(emitted'[i])}
  BY DEF FinalizersNext
<1>4. FinalizersIn(r) = {i \in ToSet(r) : FinStart(emitted[i])}
  BY DEF FinalizersIn, FinStart
<1>5. ToSet(r \o fs) = ToSet(r) \cup ToSet(fs)
  <2>1. DOMAIN emitted' = DOMAIN emitted \cup Fresh
    BY Told
  <2>2. r \in Seq(DOMAIN emitted') /\ fs \in Seq(DOMAIN emitted')
    BY <2>1
  <2> QED
    BY <2>2, Joined
<1>6. {i \in ToSet(r) : FinStart(emitted'[i])} = {i \in ToSet(r) : FinStart(emitted[i])}
  BY <1>1, <1>2
<1> QED
  BY <1>3, <1>4, <1>5, <1>6

LEMMA ReportedStep ==
  ASSUME ControlTypes, DataTypes, OpenInv, RanInv, SavingInv, ReportCountInv, ReportedInv, MonitorsNext
  PROVE  ReportedInv'
<1>1. (Before(Finalizer, Browser)' <=> Before(Finalizer, Browser)) /\ (Has(Otel)' <=> Has(Otel))
  BY ControlStep, Turns
<1>2. SUFFICES ASSUME Before(Finalizer, Browser), ~Has(Otel) PROVE ReportedInv'
  BY <1>1 DEF ReportedInv
<1> DEFINE Open(p) == p \notin {"endExecution", "done", "failed"}
           RanNext(f) == {ran'[k].event : k \in {l \in DOMAIN ran' : ran'[l].feature = f /\ ran'[l].phase = "endFeature"}}
           n == Len(reports)
<1>3. /\ \A f \in DOMAIN reports : FinalizersIn(reports[f]) = RanAtEnd(f)
      /\ Open(phase) => /\ FinalizersIn(buffer) = RanAtEnd(n + 1)
                        /\ saving # <<>> => FinalizersIn(saving[1]) = RanAtEnd(n + 1)
  BY <1>2 DEF ReportedInv
<1>4. SUFFICES /\ \A f \in DOMAIN reports' : FinalizersNext(reports'[f]) = RanNext(f)
               /\ Open(phase') => /\ FinalizersNext(buffer') = RanNext(Len(reports') + 1)
                                  /\ saving' # <<>> => FinalizersNext(saving'[1]) = RanNext(Len(reports') + 1)
  BY DEF ReportedInv, FinalizersIn, FinalizersNext, FinStart, RanAtEnd
<1>5. /\ reports \in Seq(Seq(DOMAIN emitted)) /\ n \in Nat /\ DOMAIN reports = 1..n
      /\ \A f \in DOMAIN reports : reports[f] \in Seq(DOMAIN emitted)
      /\ buffer \in Seq(DOMAIN emitted) /\ saving \in Seq(Seq(DOMAIN emitted))
      /\ saving # <<>> => saving[1] \in Seq(DOMAIN emitted) /\ Head(saving) = saving[1]
  <2>1. reports \in Seq(Seq(DOMAIN emitted)) /\ buffer \in Seq(DOMAIN emitted) /\ saving \in Seq(Seq(DOMAIN emitted))
    BY DEF DataTypes
  <2>2. saving # <<>> => saving[1] \in Seq(DOMAIN emitted) /\ Head(saving) = saving[1]
    BY <2>1
  <2>3. n \in Nat /\ DOMAIN reports = 1..n /\ \A f \in 1..n : reports[f] \in Seq(DOMAIN emitted)
    BY <2>1, SequenceIs
  <2> QED
    BY <2>1, <2>2, <2>3
<1>6. Hears(Browser) /\ Has(Browser)
  <2>1. Has(Browser)
    BY <1>2 DEF Before, Has, ToSet
  <2> QED
    BY <1>2, <2>1 DEF Hears, ControlTypes
<1>7. PICK fs \in Seq(Fresh) : (~BrowserSaved => buffer' = buffer \o fs) /\ ToSet(fs) = Fresh
  BY <1>6, Told
<1>8. \A r \in Seq(DOMAIN emitted) : FinalizersNext(r) = FinalizersIn(r)
  BY <1>7, MoreFinalizers
<1>9. ~BrowserSaved => FinalizersNext(buffer') = FinalizersIn(buffer) \cup (IF FinRuns THEN {Len(emitted) + 1} ELSE {})
  <2>1. FinalizersNext(buffer \o fs) = FinalizersIn(buffer) \cup {i \in Fresh : FinStart(emitted'[i])}
    BY <1>5, <1>7, MoreFinalizers
  <2>2. {i \in Fresh : FinStart(emitted'[i])} = IF FinRuns THEN {Len(emitted) + 1} ELSE {}
    BY FreshFinalizers
  <2> QED
    BY <1>7, <2>1, <2>2
<1>10. Open(phase') => Open(phase)
  <2>1. phase' = phase \/ phase' = "failed" \/ Begin
    BY RunFrame DEF run, Throws, Passes
  <2>2. Begin => (Open(phase') => Open(phase))
    BY Boundaries
  <2> QED
    BY <2>1, <2>2
<1>11. feature \in Nat /\ \A k \in DOMAIN ran : ran[k].feature \in Nat /\ ran[k].feature <= feature
  <2>1. \A k \in DOMAIN ran : ran[k] \in RanType
    BY SequenceIs DEF DataTypes
  <2> QED
    BY <2>1, Listed DEF RanType, RanInv, ControlTypes
<1>12. CASE FinRuns
  <2> DEFINE new == Len(ran) + 1
  <2>1. /\ DOMAIN ran' = DOMAIN ran \cup {new} /\ new \notin DOMAIN ran
        /\ \A k \in DOMAIN ran : ran'[k] = ran[k]
        /\ ran'[new].phase = phase /\ ran'[new].feature = feature /\ ran'[new].event = Len(emitted) + 1
    BY <1>12, RunsOne
  <2> HIDE DEF new
  <2>2. reports' = reports /\ saving' = saving /\ ~BrowserSaved
    <3>1. ran' # ran
      BY <2>1
    <3> QED
      BY <3>1, Writes DEF fin
  <2>3. /\ phase \in {"endFeature", "endExecution"} /\ phase' = phase
        /\ phase = "endFeature" => Hook("endFeature", Finalizer)
    BY <1>12 DEF FinRuns, FinalizerHook, Hook, Stays, run
  <2>4. phase = "endFeature" => n = feature - 1
    BY <1>2, <1>6, <2>3, Places DEF ReportCountInv
  <2>5. saving = <<>>
    <3>1. Finalizer # Browser
      BY DEF Finalizer, Browser
    <3>2. FinalizerHook /\ phase # "failed"
      BY <1>12, <2>3 DEF FinRuns
    <3> QED
      BY <3>1, <3>2, Places DEF SavingInv, FinalizerHook
  <2>6. \A f : RanNext(f) = RanAtEnd(f) \cup (IF phase = "endFeature" /\ f = feature THEN {Len(emitted) + 1} ELSE {})
    <3> SUFFICES ASSUME NEW f PROVE RanNext(f) = RanAtEnd(f) \cup (IF phase = "endFeature" /\ f = feature THEN {Len(emitted) + 1} ELSE {})
      OBVIOUS
    <3>1. {l \in DOMAIN ran' : ran'[l].feature = f /\ ran'[l].phase = "endFeature"} =
            {l \in DOMAIN ran : ran[l].feature = f /\ ran[l].phase = "endFeature"} \cup (IF phase = "endFeature" /\ f = feature THEN {new} ELSE {})
      BY <2>1
    <3> QED
      BY <2>1, <3>1 DEF RanAtEnd
  <2> HIDE DEF RanNext
  <2>7. \A f \in DOMAIN reports : phase = "endFeature" => f # feature
    BY <1>5, <1>11, <2>4
  <2>8. \A f \in DOMAIN reports' : FinalizersNext(reports'[f]) = RanNext(f)
    BY <1>3, <1>5, <1>8, <2>2, <2>6, <2>7
  <2>9. Open(phase') => phase = "endFeature" /\ n + 1 = feature
    BY <1>11, <2>3, <2>4
  <2> HIDE DEF n
  <2>10. Open(phase') => FinalizersNext(buffer') = RanNext(n + 1)
    BY <1>3, <1>9, <1>12, <2>2, <2>3, <2>6, <2>9
  <2> QED
    BY <2>2, <2>5, <2>8, <2>10 DEF n
<1>13. CASE ~FinRuns
  <2>1. ran' = ran
    BY <1>13, FinMoves DEF FinStays, FinStarts, FinRegisters, FinEnds
  <2>2. \A f : RanNext(f) = RanAtEnd(f)
    BY <2>1 DEF RanAtEnd
  <2> HIDE DEF RanNext
  <2>3. CASE saving' = saving /\ reports' = reports /\ ~BrowserSaved
    BY <1>3, <1>5, <1>8, <1>9, <1>10, <1>13, <2>2, <2>3
  <2>4. CASE saving' = <<buffer>> /\ reports' = reports /\ ~BrowserSaved
    <3>1. saving'[1] = buffer
      BY <2>4
    <3> QED
      BY <1>3, <1>5, <1>8, <1>9, <1>10, <1>13, <2>2, <2>4, <3>1
  <2>5. CASE BrowserSaved /\ Hook("endFeature", Browser) /\ Passes /\ saving # <<>> /\ saving' = <<>> /\ reports' = Append(reports, Head(saving))
    <3>1. /\ Len(reports') = n + 1 /\ DOMAIN reports' = 1..n + 1
          /\ \A f \in 1..n : reports'[f] = reports[f]
          /\ reports'[n + 1] = saving[1]
      BY <1>5, <2>5, Appended
    <3>2. phase = "endFeature" /\ n = feature - 1
      BY <1>6, <2>5, Places DEF ReportCountInv, Hook
    <3>3. FinalizersNext(saving[1]) = RanNext(n + 1)
      BY <1>3, <1>5, <1>8, <2>2, <2>5, <3>2
    <3>4. FinalizersNext(buffer') = {}
      <4>1. buffer' = <<>>
        BY <2>5, Told
      <4> QED
        BY <4>1 DEF FinalizersNext, ToSet
    <3>5. RanNext(n + 1 + 1) = {}
      BY <1>11, <2>2, <3>2 DEF RanAtEnd
    <3>6. \A f \in DOMAIN reports' : FinalizersNext(reports'[f]) = RanNext(f)
      <4> SUFFICES ASSUME NEW f \in DOMAIN reports' PROVE FinalizersNext(reports'[f]) = RanNext(f)
        OBVIOUS
      <4>1. CASE f = n + 1
        BY <3>1, <3>3, <4>1
      <4>2. CASE f # n + 1
        <5>1. f \in 1..n
          BY <1>5, <3>1, <4>2
        <5> QED
          BY <1>3, <1>5, <1>8, <2>2, <3>1, <5>1
      <4> QED
        BY <4>1, <4>2
    <3> QED
      BY <2>5, <3>1, <3>4, <3>5, <3>6
  <2> QED
    BY <2>3, <2>4, <2>5, Writes
<1> QED
  BY <1>12, <1>13

-----------------------------------------------------------------------------
(* The spans.                                                               *)

\* From a to b spans are added, under spans that are open, and ended.
Grows(a, b) ==
  /\ DOMAIN a.spans \subseteq DOMAIN b.spans
  /\ \A p \in DOMAIN a.spans : /\ b.spans[p].parent = a.spans[p].parent /\ b.spans[p].what = a.spans[p].what
                               /\ b.spans[p].open => a.spans[p].open
  /\ \A i \in DOMAIN b.spans \ DOMAIN a.spans :
       b.spans[i].parent # 0 /\ b.spans[i].parent \in DOMAIN a.spans => a.spans[b.spans[i].parent].open

\* What is forgotten stays so.
LEMMA StillForgotten ==
  ASSUME NEW a, NEW b, Grows(a, b), NEW i \in DOMAIN a.spans, Forgotten(a, i)
  PROVE  Forgotten(b, i)
BY DEF Grows, Forgotten

LEMMA GrowsOn ==
  /\ \A a : Grows(a, a)
  /\ \A a, b, c : Grows(a, b) /\ Grows(b, c) => Grows(a, c)
  /\ \A a, b : b.spans = a.spans => Grows(a, b)
<1>1. \A a, b : b.spans = a.spans => Grows(a, b)
  BY DEF Grows
<1>2. ASSUME NEW a, NEW b, NEW c, Grows(a, b), Grows(b, c) PROVE Grows(a, c)
  <2>1. /\ DOMAIN a.spans \subseteq DOMAIN b.spans /\ DOMAIN b.spans \subseteq DOMAIN c.spans
        /\ \A p \in DOMAIN a.spans : /\ b.spans[p].parent = a.spans[p].parent /\ b.spans[p].what = a.spans[p].what
                                     /\ b.spans[p].open => a.spans[p].open
        /\ \A p \in DOMAIN b.spans : /\ c.spans[p].parent = b.spans[p].parent /\ c.spans[p].what = b.spans[p].what
                                     /\ c.spans[p].open => b.spans[p].open
        /\ \A i \in DOMAIN b.spans \ DOMAIN a.spans :
             b.spans[i].parent # 0 /\ b.spans[i].parent \in DOMAIN a.spans => a.spans[b.spans[i].parent].open
        /\ \A i \in DOMAIN c.spans \ DOMAIN b.spans :
             c.spans[i].parent # 0 /\ c.spans[i].parent \in DOMAIN b.spans => b.spans[c.spans[i].parent].open
    BY <1>2 DEF Grows
  <2>2. ASSUME NEW i \in DOMAIN c.spans \ DOMAIN a.spans, c.spans[i].parent # 0, c.spans[i].parent \in DOMAIN a.spans
        PROVE  a.spans[c.spans[i].parent].open
    <3>1. CASE i \in DOMAIN b.spans
      <4>1. c.spans[i].parent = b.spans[i].parent
        BY <2>1, <3>1
      <4> QED
        BY <2>1, <2>2, <3>1, <4>1
    <3>2. CASE i \notin DOMAIN b.spans
      <4>1. b.spans[c.spans[i].parent].open
        BY <2>1, <2>2, <3>2, Zenon
      <4> QED
        BY <2>1, <2>2, <4>1, Zenon
    <3> QED
      BY <3>1, <3>2
  <2>3. \A p \in DOMAIN a.spans : /\ c.spans[p].parent = a.spans[p].parent /\ c.spans[p].what = a.spans[p].what
                                  /\ c.spans[p].open => a.spans[p].open
    <3> SUFFICES ASSUME NEW p \in DOMAIN a.spans
                 PROVE  /\ c.spans[p].parent = a.spans[p].parent /\ c.spans[p].what = a.spans[p].what
                        /\ c.spans[p].open => a.spans[p].open
      OBVIOUS
    <3>1. p \in DOMAIN b.spans
      BY <2>1
    <3> QED
      BY <2>1, <3>1, Zenon
  <2>4. DOMAIN a.spans \subseteq DOMAIN c.spans
    BY <2>1
  <2> QED
    BY <2>2, <2>3, <2>4 DEF Grows
<1> QED
  BY <1>1, <1>2

Kinds == {"feature", "auto", "step", "artifact", "custom"}

LEMMA OtelIs ==
  ASSUME NEW o \in OtelType
  PROVE  /\ o.tracer \in BOOLEAN /\ o.feature \in Nat /\ o.steps \in StepMaps /\ o.spans \in Seq(SpanType)
         /\ Len(o.spans) \in Nat /\ DOMAIN o.spans = 1..Len(o.spans)
         /\ \A i \in DOMAIN o.spans : o.spans[i] \in SpanType
         /\ o.steps \in [DOMAIN o.steps -> Nat] /\ DOMAIN o.steps \in SUBSET Seq(Nat)
<1>1. o.tracer \in BOOLEAN /\ o.feature \in Nat /\ o.steps \in StepMaps /\ o.spans \in Seq(SpanType)
  BY DEF OtelType
<1>2. Len(o.spans) \in Nat /\ DOMAIN o.spans = 1..Len(o.spans) /\ \A i \in 1..Len(o.spans) : o.spans[i] \in SpanType
  BY <1>1, SequenceIs
<1>3. o.steps \in [DOMAIN o.steps -> Nat] /\ DOMAIN o.steps \in SUBSET Seq(Nat)
  <2>1. PICK D \in SUBSET Seq(Nat) : o.steps \in [D -> Nat]
    BY <1>1 DEF StepMaps
  <2>2. DOMAIN o.steps = D
    BY <2>1
  <2> QED
    BY <2>1, <2>2
<1> QED
  BY <1>1, <1>2, <1>3

LEMMA StartedIs ==
  ASSUME NEW o \in OtelType, NEW what \in Kinds, NEW parent \in Nat
  PROVE  LET s == Started(o, what, parent)
             n == Len(o.spans) + 1
         IN  /\ s \in OtelType /\ s.tracer = o.tracer /\ s.feature = o.feature /\ s.steps = o.steps
             /\ Len(s.spans) = n /\ DOMAIN s.spans = DOMAIN o.spans \cup {n} /\ n \notin DOMAIN o.spans /\ n \in Nat \ {0}
             /\ \A i \in DOMAIN o.spans : s.spans[i] = o.spans[i]
             /\ s.spans[n].what = what /\ s.spans[n].parent = parent /\ s.spans[n].open
<1> DEFINE s == Started(o, what, parent)
           n == Len(o.spans) + 1
           x == Span(what, parent)
<1>1. x \in SpanType /\ x.what = what /\ x.parent = parent /\ x.open
  BY DEF Span, SpanType, Kinds
<1>2. /\ o.tracer \in BOOLEAN /\ o.feature \in Nat /\ o.steps \in StepMaps /\ o.spans \in Seq(SpanType)
      /\ Len(o.spans) \in Nat /\ DOMAIN o.spans = 1..Len(o.spans)
  BY OtelIs
<1> HIDE DEF x
<1>3. /\ Append(o.spans, x) \in Seq(SpanType) /\ Len(Append(o.spans, x)) = n
      /\ DOMAIN Append(o.spans, x) = 1..n
      /\ \A i \in 1..Len(o.spans) : Append(o.spans, x)[i] = o.spans[i]
      /\ Append(o.spans, x)[n] = x
  BY <1>1, <1>2, Appended
<1>4. s = [o EXCEPT !.spans = Append(o.spans, x)]
  BY DEF Started, x
<1>5. s \in OtelType /\ s.tracer = o.tracer /\ s.feature = o.feature /\ s.steps = o.steps /\ s.spans = Append(o.spans, x)
  <2> HIDE DEF s
  <2> QED
    BY <1>3, <1>4 DEF OtelType
<1> HIDE DEF s
<1>6. DOMAIN s.spans = DOMAIN o.spans \cup {n} /\ n \notin DOMAIN o.spans /\ n \in Nat \ {0}
  BY <1>2, <1>3, <1>5
<1>7. /\ Len(s.spans) = n /\ \A i \in DOMAIN o.spans : s.spans[i] = o.spans[i]
      /\ s.spans[n] = x
  BY <1>2, <1>3, <1>5
<1> QED
  BY <1>1, <1>5, <1>6, <1>7 DEF s

LEMMA WithIs ==
  ASSUME NEW f \in StepMaps, NEW x \in Seq(Nat), NEW v \in Nat
  PROVE  /\ With(f, x, v) \in StepMaps /\ DOMAIN With(f, x, v) = DOMAIN f \cup {x}
         /\ With(f, x, v)[x] = v /\ \A y \in DOMAIN f : y # x => With(f, x, v)[y] = f[y]
<1>1. PICK D \in SUBSET Seq(Nat) : f \in [D -> Nat]
  BY DEF StepMaps
<1>2. DOMAIN f = D
  BY <1>1
<1>3. With(f, x, v) \in [D \cup {x} -> Nat] /\ D \cup {x} \in SUBSET Seq(Nat)
  BY <1>1, <1>2 DEF With
<1>4. With(f, x, v) \in StepMaps
  BY <1>3 DEF StepMaps
<1> QED
  BY <1>2, <1>4 DEF With

LEMMA WithoutIs ==
  ASSUME NEW f \in StepMaps, NEW x \in Seq(Nat)
  PROVE  /\ Without(f, x) \in StepMaps /\ DOMAIN Without(f, x) = DOMAIN f \ {x}
         /\ \A y \in DOMAIN f \ {x} : Without(f, x)[y] = f[y]
<1>1. PICK D \in SUBSET Seq(Nat) : f \in [D -> Nat]
  BY DEF StepMaps
<1>2. DOMAIN f = D
  BY <1>1
<1>3. Without(f, x) \in [D \ {x} -> Nat] /\ D \ {x} \in SUBSET Seq(Nat)
  BY <1>1, <1>2 DEF Without
<1>4. Without(f, x) \in StepMaps
  BY <1>3 DEF StepMaps
<1> QED
  BY <1>2, <1>4 DEF Without

LEMMA StartsFeature ==
  ASSUME NEW o, SpansOK(o), o.tracer, NEW what \in {"feature", "auto"}
  PROVE  LET b == WithFeature(o, what) IN
           /\ SpansOK(b) /\ b.feature # 0 /\ b.tracer /\ b.steps = o.steps /\ Grows(o, b)
           /\ NoneLeft(o) /\ (o.feature = 0 \/ what = "feature") => NoneLeft(b)
<1> DEFINE s == Started(o, what, 0)
           b == WithFeature(o, what)
           n == Len(o.spans) + 1
<1>1. /\ o \in OtelType /\ o.feature \in 0..Len(o.spans)
      /\ \A id \in DOMAIN o.steps : /\ o.steps[id] \in DOMAIN o.spans /\ o.spans[o.steps[id]].open
                                    /\ o.spans[o.steps[id]].what = IF id = Custom THEN "custom" ELSE "step"
      /\ \A id, jd \in DOMAIN o.steps : o.steps[id] = o.steps[jd] => id = jd
  BY DEF SpansOK
<1>2. what \in Kinds /\ 0 \in Nat
  BY DEF Kinds
<1>3. /\ s \in OtelType /\ s.tracer = o.tracer /\ s.feature = o.feature /\ s.steps = o.steps
      /\ Len(s.spans) = n /\ DOMAIN s.spans = DOMAIN o.spans \cup {n} /\ n \notin DOMAIN o.spans /\ n \in Nat \ {0}
      /\ \A i \in DOMAIN o.spans : s.spans[i] = o.spans[i]
      /\ s.spans[n].what = what /\ s.spans[n].parent = 0 /\ s.spans[n].open
  BY <1>1, <1>2, StartedIs
<1>4. b = [s EXCEPT !.feature = Len(s.spans)]
  BY DEF WithFeature
<1> HIDE DEF s, b, n
<1>5. b \in OtelType /\ b.tracer = s.tracer /\ b.feature = n /\ b.steps = s.steps /\ b.spans = s.spans
  BY <1>3, <1>4 DEF OtelType
<1>6. b.feature \in 0..Len(b.spans)
  BY <1>3, <1>5
<1>7. SpansOK(b)
  <2>1. \A id \in DOMAIN b.steps : /\ b.steps[id] \in DOMAIN b.spans /\ b.spans[b.steps[id]].open
                                   /\ b.spans[b.steps[id]].what = IF id = Custom THEN "custom" ELSE "step"
    BY <1>1, <1>3, <1>5
  <2>2. \A id, jd \in DOMAIN b.steps : b.steps[id] = b.steps[jd] => id = jd
    BY <1>1, <1>3, <1>5
  <2>3. b.spans[b.feature].open /\ b.spans[b.feature].what \in {"feature", "auto"} /\ b.feature # 0 /\ b.tracer
    BY <1>3, <1>5
  <2> QED
    BY <1>5, <1>6, <2>1, <2>2, <2>3 DEF SpansOK
<1>8. Grows(o, b)
  BY <1>3, <1>5 DEF Grows
<1>9. ASSUME NoneLeft(o), o.feature = 0 \/ what = "feature" PROVE NoneLeft(b)
  <2> SUFFICES ASSUME NEW i \in DOMAIN b.spans, b.spans[i].open, ~Forgotten(b, i)
               PROVE  i = b.feature \/ b.spans[i].what = "custom" \/ \E id \in DOMAIN b.steps : b.steps[id] = i
    BY DEF NoneLeft
  <2>1. CASE i = n
    BY <1>5, <2>1
  <2>2. CASE i # n
    <3>1. i \in DOMAIN o.spans /\ o.spans[i].open /\ i \in 1..Len(o.spans) /\ b.spans[i].what = o.spans[i].what
      <4>1. i \in DOMAIN o.spans /\ b.spans[i] = o.spans[i]
        BY <1>3, <1>5, <2>2
      <4>2. i \in 1..Len(o.spans)
        BY <1>1, <4>1, OtelIs
      <4> QED
        BY <4>1, <4>2
    <3>2. i = o.feature \/ o.spans[i].what = "custom" \/ \E id \in DOMAIN o.steps : o.steps[id] = i
      BY <1>8, <1>9, <3>1, StillForgotten DEF NoneLeft
    <3>3. i # o.feature
      <4> SUFFICES ASSUME i = o.feature PROVE FALSE
        OBVIOUS
      <4>1. i # 0 /\ Len(o.spans) \in Nat
        BY <1>1, <3>1, OtelIs
      <4>2. what = "feature" /\ o.spans[i].what \in {"feature", "auto"}
        BY <1>9, <4>1 DEF SpansOK
      <4>3. i < n
        BY <3>1, <4>1 DEF n
      <4>4. n \in DOMAIN b.spans /\ b.spans[n].what = "feature"
        BY <1>3, <1>5, <4>2
      <4> QED
        BY <3>1, <4>2, <4>3, <4>4 DEF Forgotten
    <3> QED
      BY <1>3, <1>5, <3>1, <3>2, <3>3
  <2> QED
    BY <2>1, <2>2
<1>10. b.feature # 0 /\ b.tracer /\ b.steps = o.steps
  BY <1>3, <1>5
<1> QED
  BY <1>7, <1>8, <1>9, <1>10 DEF b

\* A step that starts, or a span of the user's.
LEMMA StartsStep ==
  ASSUME NEW o, SpansOK(o), o.feature # 0, NEW id \in Seq(Nat), NEW what \in {"custom", "step"}, what = "custom" <=> id = Custom
  PROVE  LET s == Started(o, what, o.feature)
             b == [s EXCEPT !.steps = With(@, id, Len(s.spans))]
         IN  /\ SpansOK(b) /\ b.feature = o.feature /\ DOMAIN b.steps = DOMAIN o.steps \cup {id} /\ Grows(o, b)
             /\ NoneLeft(o) /\ (id \in DOMAIN o.steps => id = Custom) => NoneLeft(b)
<1> DEFINE s == Started(o, what, o.feature)
           b == [s EXCEPT !.steps = With(@, id, Len(s.spans))]
           n == Len(o.spans) + 1
<1>1. /\ o \in OtelType /\ o.feature \in 0..Len(o.spans)
      /\ \A jd \in DOMAIN o.steps : /\ o.steps[jd] \in DOMAIN o.spans /\ o.spans[o.steps[jd]].open
                                    /\ o.spans[o.steps[jd]].what = IF jd = Custom THEN "custom" ELSE "step"
      /\ \A kd, jd \in DOMAIN o.steps : o.steps[kd] = o.steps[jd] => kd = jd
      /\ o.spans[o.feature].open /\ o.spans[o.feature].what \in {"feature", "auto"} /\ o.tracer
  BY DEF SpansOK
<1>2. what \in Kinds /\ o.feature \in Nat /\ o.feature \in DOMAIN o.spans /\ o.steps \in StepMaps
  <2>1. what \in Kinds
    BY DEF Kinds
  <2>2. Len(o.spans) \in Nat /\ DOMAIN o.spans = 1..Len(o.spans) /\ o.steps \in StepMaps
    BY <1>1, OtelIs
  <2> QED
    BY <1>1, <2>1, <2>2
<1>3. /\ s \in OtelType /\ s.tracer = o.tracer /\ s.feature = o.feature /\ s.steps = o.steps
      /\ Len(s.spans) = n /\ DOMAIN s.spans = DOMAIN o.spans \cup {n} /\ n \notin DOMAIN o.spans /\ n \in Nat \ {0}
      /\ \A i \in DOMAIN o.spans : s.spans[i] = o.spans[i]
      /\ s.spans[n].what = what /\ s.spans[n].parent = o.feature /\ s.spans[n].open
  <2>1. o \in OtelType
    BY <1>1
  <2>2. what \in Kinds /\ o.feature \in Nat
    BY <1>2
  <2> QED
    BY <2>1, <2>2, StartedIs, Zenon
<1> DEFINE w == With(o.steps, id, n)
<1> HIDE DEF s
<1>20. n \in Nat
  BY <1>3
<1> HIDE DEF n
<1>22. \A f \in StepMaps,  x \in Seq(Nat), v \in Nat :
         /\ With(f, x, v) \in StepMaps /\ DOMAIN With(f, x, v) = DOMAIN f \cup {x}
         /\ With(f, x, v)[x] = v /\ \A y \in DOMAIN f : y # x => With(f, x, v)[y] = f[y]
  BY WithIs, Zenon
<1>23. o.steps \in StepMaps
  BY <1>2
<1>4. /\ w \in StepMaps /\ DOMAIN w = DOMAIN o.steps \cup {id}
      /\ w[id] = n /\ \A y \in DOMAIN o.steps : y # id => w[y] = o.steps[y]
  <2>1. \A x \in Seq(Nat), v \in Nat :
         /\ With(o.steps, x, v) \in StepMaps /\ DOMAIN With(o.steps, x, v) = DOMAIN o.steps \cup {x}
         /\ With(o.steps, x, v)[x] = v /\ \A y \in DOMAIN o.steps : y # x => With(o.steps, x, v)[y] = o.steps[y]
    BY <1>22, <1>23, Zenon
  <2>2. id \in Seq(Nat)
    OBVIOUS
  <2> QED
    BY <1>20, <2>1, <2>2, Zenon
<1>21. With(s.steps, id, Len(s.spans)) = w
  BY <1>3 DEF w
<1> HIDE DEF w
<1>5. b = [s EXCEPT !.steps = w]
  BY <1>21
<1> HIDE DEF b
<1>6. b \in OtelType /\ b.tracer = o.tracer /\ b.feature = o.feature /\ b.steps = w /\ b.spans = s.spans
  BY <1>3, <1>4, <1>5 DEF OtelType
<1>7. SpansOK(b)
  <2>1. ASSUME NEW jd \in DOMAIN w
        PROVE  /\ w[jd] \in DOMAIN b.spans /\ b.spans[w[jd]].open
               /\ b.spans[w[jd]].what = IF jd = Custom THEN "custom" ELSE "step"
    <3>1. CASE jd = id
      BY <1>3, <1>4, <1>6, <3>1
    <3>2. CASE jd # id
      <4>1. jd \in DOMAIN o.steps /\ w[jd] = o.steps[jd]
        BY <1>4, <3>2
      <4>2. w[jd] \in DOMAIN o.spans /\ b.spans[w[jd]] = o.spans[o.steps[jd]]
        BY <1>1, <1>3, <1>6, <4>1
      <4> QED
        BY <1>1, <1>3, <1>6, <4>1, <4>2
    <3> QED
      BY <3>1, <3>2
  <2>2. \A kd, jd \in DOMAIN w : w[kd] = w[jd] => kd = jd
    <3>1. \A jd \in DOMAIN w : jd # id => jd \in DOMAIN o.steps /\ w[jd] = o.steps[jd] /\ w[jd] # n
      BY <1>1, <1>3, <1>4
    <3> QED
      BY <1>1, <1>4, <3>1
  <2>3. b.spans[b.feature].open /\ b.spans[b.feature].what \in {"feature", "auto"} /\ b.feature # 0 /\ b.tracer
    BY <1>1, <1>2, <1>3, <1>6
  <2>4. b.feature \in 0..Len(b.spans)
    <3>1. Len(o.spans) \in Nat
      BY <1>1, OtelIs
    <3> QED
      BY <1>1, <1>3, <1>6, <3>1 DEF n
  <2> QED
    BY <1>6, <2>1, <2>2, <2>3, <2>4 DEF SpansOK
<1>8. Grows(o, b)
  BY <1>1, <1>3, <1>6 DEF Grows
<1>9. ASSUME NoneLeft(o), id \in DOMAIN o.steps => id = Custom PROVE NoneLeft(b)
  <2> SUFFICES ASSUME NEW i \in DOMAIN b.spans, b.spans[i].open, ~Forgotten(b, i)
               PROVE  i = b.feature \/ b.spans[i].what = "custom" \/ \E jd \in DOMAIN b.steps : b.steps[jd] = i
    BY DEF NoneLeft
  <2>1. CASE i = n
    BY <1>4, <1>6, <2>1
  <2>2. CASE i # n
    <3>1. i \in DOMAIN o.spans /\ o.spans[i].open /\ b.spans[i].what = o.spans[i].what
      BY <1>3, <1>6, <2>2
    <3>2. i = o.feature \/ o.spans[i].what = "custom" \/ \E jd \in DOMAIN o.steps : o.steps[jd] = i
      BY <1>8, <1>9, <3>1, StillForgotten DEF NoneLeft
    <3>3. ASSUME NEW jd \in DOMAIN o.steps, o.steps[jd] = i
          PROVE  b.spans[i].what = "custom" \/ \E kd \in DOMAIN b.steps : b.steps[kd] = i
      <4>1. CASE jd = id
        BY <1>1, <1>9, <3>1, <3>3, <4>1
      <4>2. CASE jd # id
        BY <1>4, <1>6, <3>3, <4>2
      <4> QED
        BY <4>1, <4>2
    <3> QED
      BY <1>6, <3>1, <3>2, <3>3
  <2> QED
    BY <2>1, <2>2
<1> QED
  BY <1>4, <1>6, <1>7, <1>8, <1>9 DEF b, s

LEMMA EndsStep ==
  ASSUME NEW o, SpansOK(o), NEW id \in Seq(Nat)
  PROVE  LET b == Ended(o, id) IN
           /\ SpansOK(b) /\ b.feature = o.feature /\ DOMAIN b.steps = DOMAIN o.steps \ {id} /\ Grows(o, b)
           /\ NoneLeft(o) => NoneLeft(b)
<1> DEFINE b == Ended(o, id)
<1>1. /\ o \in OtelType /\ o.feature \in 0..Len(o.spans)
      /\ \A jd \in DOMAIN o.steps : /\ o.steps[jd] \in DOMAIN o.spans /\ o.spans[o.steps[jd]].open
                                    /\ o.spans[o.steps[jd]].what = IF jd = Custom THEN "custom" ELSE "step"
      /\ \A kd, jd \in DOMAIN o.steps : o.steps[kd] = o.steps[jd] => kd = jd
      /\ o.feature # 0 => o.spans[o.feature].open /\ o.spans[o.feature].what \in {"feature", "auto"}
      /\ o.feature = 0 => DOMAIN o.steps = {}
      /\ ~o.tracer => o.feature = 0
  BY DEF SpansOK
<1>2. CASE id \notin DOMAIN o.steps
  <2>1. b = o
    BY <1>2 DEF Ended
  <2> QED
    BY <1>2, <2>1, GrowsOn
<1>3. CASE id \in DOMAIN o.steps
  <2> DEFINE n == o.steps[id]
             x == [o.spans[n] EXCEPT !.open = FALSE]
             sp == [o.spans EXCEPT ![n] = x]
             w == Without(o.steps, id)
  <2>1. b = [[o EXCEPT !.spans = sp] EXCEPT !.steps = w]
    BY <1>3 DEF Ended
  <2>2. /\ o.tracer \in BOOLEAN /\ o.feature \in Nat /\ o.steps \in StepMaps /\ o.spans \in Seq(SpanType)
        /\ DOMAIN o.spans = 1..Len(o.spans) /\ n \in DOMAIN o.spans /\ o.spans[n] \in SpanType
    BY <1>1, <1>3, OtelIs
  <2>3. x \in SpanType /\ x.what = o.spans[n].what /\ x.parent = o.spans[n].parent /\ ~x.open
    <3> HIDE DEF n
    <3> QED
      BY <2>2 DEF SpanType
  <2> HIDE DEF x, n
  <2>4. /\ sp \in Seq(SpanType) /\ Len(sp) = Len(o.spans) /\ DOMAIN sp = DOMAIN o.spans
        /\ sp[n] = x /\ \A i \in DOMAIN o.spans : i # n => sp[i] = o.spans[i]
    <3>1. sp \in Seq(SpanType) /\ Len(sp) = Len(o.spans)
      BY <2>2, <2>3, ExceptSeq
    <3> QED
      BY <2>2, <3>1
  <2>5. w \in StepMaps /\ DOMAIN w = DOMAIN o.steps \ {id} /\ \A y \in DOMAIN o.steps \ {id} : w[y] = o.steps[y]
    BY <2>2, WithoutIs
  <2> HIDE DEF sp, w
  <2>6. b \in OtelType /\ b.tracer = o.tracer /\ b.feature = o.feature /\ b.steps = w /\ b.spans = sp
    <3> HIDE DEF b
    <3>1. b = [tracer |-> o.tracer, feature |-> o.feature, steps |-> w, spans |-> sp]
      <4>1. o = [tracer |-> o.tracer, feature |-> o.feature, steps |-> o.steps, spans |-> o.spans]
        BY <1>1 DEF OtelType
      <4> QED
        BY <2>1, <4>1
    <3> QED
      BY <2>2, <2>4, <2>5, <3>1 DEF OtelType
  <2> HIDE DEF b
  <2>7. o.spans[n].what \notin {"feature", "auto"} /\ o.spans[n].open
    BY <1>1, <1>3 DEF n
  <2>8. SpansOK(b)
    <3>1. ASSUME NEW jd \in DOMAIN w
          PROVE  /\ w[jd] \in DOMAIN sp /\ sp[w[jd]].open
                 /\ sp[w[jd]].what = IF jd = Custom THEN "custom" ELSE "step"
      <4>1. jd \in DOMAIN o.steps /\ w[jd] = o.steps[jd] /\ jd # id
        BY <2>5
      <4>2. w[jd] # n
        BY <1>1, <1>3, <4>1 DEF n
      <4>3. w[jd] \in DOMAIN o.spans /\ sp[w[jd]] = o.spans[o.steps[jd]]
        BY <1>1, <2>4, <4>1, <4>2
      <4> QED
        BY <1>1, <2>4, <4>1, <4>3
    <3>2. \A kd, jd \in DOMAIN w : w[kd] = w[jd] => kd = jd
      BY <1>1, <2>5
    <3>3. o.feature # 0 => sp[o.feature].open /\ sp[o.feature].what \in {"feature", "auto"}
      <4>1. o.feature # 0 => o.feature \in DOMAIN o.spans
        <5>1. Len(o.spans) \in Nat
          BY <1>1, OtelIs
        <5> QED
          BY <1>1, <2>2, <5>1
      <4>2. o.feature # 0 => o.feature # n
        BY <1>1, <2>7
      <4> QED
        BY <1>1, <2>4, <4>1, <4>2
    <3>4. o.feature = 0 => DOMAIN w = {}
      BY <1>1, <2>5
    <3> QED
      BY <1>1, <2>4, <2>6, <3>1, <3>2, <3>3, <3>4 DEF SpansOK
  <2>9. Grows(o, b)
    <3>1. ASSUME NEW i \in DOMAIN o.spans
          PROVE  sp[i].parent = o.spans[i].parent /\ sp[i].what = o.spans[i].what /\ (sp[i].open => o.spans[i].open)
      <4>1. CASE i = n
        BY <2>3, <2>4, <2>7, <4>1
      <4>2. CASE i # n
        BY <2>4, <4>2
      <4> QED
        BY <4>1, <4>2
    <3> QED
      BY <2>4, <2>6, <3>1 DEF Grows
  <2>10. ASSUME NoneLeft(o) PROVE NoneLeft(b)
    <3> SUFFICES ASSUME NEW i \in DOMAIN sp, sp[i].open, ~Forgotten(b, i)
                 PROVE  i = o.feature \/ sp[i].what = "custom" \/ \E jd \in DOMAIN w : w[jd] = i
      BY <2>6 DEF NoneLeft
    <3>1. i # n /\ i \in DOMAIN o.spans /\ sp[i] = o.spans[i]
      BY <2>3, <2>4
    <3>2. i = o.feature \/ o.spans[i].what = "custom" \/ \E jd \in DOMAIN o.steps : o.steps[jd] = i
      BY <2>9, <2>10, <3>1, StillForgotten DEF NoneLeft
    <3>3. ASSUME NEW jd \in DOMAIN o.steps, o.steps[jd] = i PROVE jd \in DOMAIN w /\ w[jd] = i
      <4>1. jd # id
        BY <3>1, <3>3 DEF n
      <4> QED
        BY <2>5, <3>3, <4>1
    <3> QED
      BY <3>1, <3>2, <3>3
  <2> QED
    BY <2>5, <2>6, <2>8, <2>9, <2>10 DEF b
<1> QED
  BY <1>2, <1>3

LEMMA ParentIs ==
  ASSUME NEW o, SpansOK(o), NEW id \in Seq(Nat)
  PROVE  LET p == ParentSpan(o, id) IN p \in Nat /\ (p # 0 => p \in DOMAIN o.spans /\ o.spans[p].open)
<1> DEFINE P == {n \in 1..Len(id) : SubSeq(id, 1, n) \in DOMAIN o.steps}
           n == CHOOSE n \in P : \A m \in P : m <= n
<1>1. /\ o \in OtelType /\ o.feature \in 0..Len(o.spans)
      /\ \A jd \in DOMAIN o.steps : o.steps[jd] \in DOMAIN o.spans /\ o.spans[o.steps[jd]].open
      /\ o.feature # 0 => o.spans[o.feature].open
  BY DEF SpansOK
<1>2. Len(o.spans) \in Nat /\ DOMAIN o.spans = 1..Len(o.spans)
  BY <1>1, OtelIs
<1>3. CASE P = {}
  <2>1. ParentSpan(o, id) = o.feature
    BY <1>3 DEF ParentSpan
  <2> QED
    BY <1>1, <1>2, <2>1
<1>4. CASE P # {}
  <2>1. Len(id) \in Nat
    BY SequenceIs
  <2>2. P \in SUBSET Nat /\ \A t \in P : t <= Len(id)
    BY <2>1
  <2>3. ParentSpan(o, id) = o.steps[SubSeq(id, 1, n)] /\ \A k \in P : SubSeq(id, 1, k) \in DOMAIN o.steps
    BY <1>4 DEF ParentSpan
  <2> HIDE DEF P
  <2>4. n \in P
    <3>1. \E k \in P : \A m \in P : m <= k
      BY <1>4, <2>1, <2>2, GreatestExists
    <3> QED
      BY <3>1
  <2> HIDE DEF n
  <2>5. SubSeq(id, 1, n) \in DOMAIN o.steps
    BY <2>3, <2>4
  <2>6. ParentSpan(o, id) \in DOMAIN o.spans /\ o.spans[ParentSpan(o, id)].open
    BY <1>1, <2>3, <2>5
  <2> QED
    BY <1>2, <2>6
<1> QED
  BY <1>3, <1>4

\* The span of an artifact is started and ended.
LEMMA ShowsArtifact ==
  ASSUME NEW o, SpansOK(o), NEW id \in Seq(Nat)
  PROVE  LET s == Started(o, "artifact", ParentSpan(o, id))
             b == [s EXCEPT !.spans[Len(s.spans)].open = FALSE]
         IN  SpansOK(b) /\ b.feature = o.feature /\ b.steps = o.steps /\ Grows(o, b) /\ (NoneLeft(o) => NoneLeft(b))
<1> DEFINE p == ParentSpan(o, id)
           s == Started(o, "artifact", p)
           n == Len(o.spans) + 1
           x == [s.spans[n] EXCEPT !.open = FALSE]
           sp == [s.spans EXCEPT ![n] = x]
           b == [s EXCEPT !.spans[Len(s.spans)].open = FALSE]
<1>1. /\ o \in OtelType /\ o.feature \in 0..Len(o.spans)
      /\ \A jd \in DOMAIN o.steps : /\ o.steps[jd] \in DOMAIN o.spans /\ o.spans[o.steps[jd]].open
                                    /\ o.spans[o.steps[jd]].what = IF jd = Custom THEN "custom" ELSE "step"
      /\ \A kd, jd \in DOMAIN o.steps : o.steps[kd] = o.steps[jd] => kd = jd
      /\ o.feature # 0 => o.spans[o.feature].open /\ o.spans[o.feature].what \in {"feature", "auto"}
      /\ o.feature = 0 => DOMAIN o.steps = {}
      /\ ~o.tracer => o.feature = 0
  BY DEF SpansOK
<1>2. p \in Nat /\ (p # 0 => p \in DOMAIN o.spans /\ o.spans[p].open)
  BY ParentIs
<1> HIDE DEF p
<1>3. /\ s \in OtelType /\ s.tracer = o.tracer /\ s.feature = o.feature /\ s.steps = o.steps
      /\ Len(s.spans) = n /\ DOMAIN s.spans = DOMAIN o.spans \cup {n} /\ n \notin DOMAIN o.spans /\ n \in Nat \ {0}
      /\ \A i \in DOMAIN o.spans : s.spans[i] = o.spans[i]
      /\ s.spans[n].what = "artifact" /\ s.spans[n].parent = p /\ s.spans[n].open
  <2>1. "artifact" \in Kinds
    BY DEF Kinds
  <2> QED
    BY <1>1, <1>2, <2>1, StartedIs
<1>4. b = [s EXCEPT !.spans = sp]
  BY <1>3
<1>5. Len(o.spans) \in Nat /\ DOMAIN o.spans = 1..Len(o.spans)
  BY <1>1, OtelIs
<1> HIDE DEF s, b, n
<1>6. s.spans \in Seq(SpanType) /\ s.spans[n] \in SpanType /\ n \in 1..Len(s.spans) /\ DOMAIN s.spans = 1..Len(s.spans)
  <2>1. s.spans \in Seq(SpanType) /\ Len(s.spans) \in Nat /\ DOMAIN s.spans = 1..Len(s.spans) /\ \A i \in DOMAIN s.spans : s.spans[i] \in SpanType
    BY <1>3, OtelIs
  <2> QED
    BY <1>3, <2>1
<1>7. x \in SpanType /\ x.parent = p /\ ~x.open
  BY <1>3, <1>6 DEF SpanType
<1> HIDE DEF x
<1>8. sp \in Seq(SpanType) /\ Len(sp) = n /\ DOMAIN sp = DOMAIN o.spans \cup {n} /\ sp[n] = x /\ \A i \in DOMAIN o.spans : sp[i] = o.spans[i]
  <2>1. sp \in Seq(SpanType) /\ Len(sp) = Len(s.spans)
    BY <1>6, <1>7, ExceptSeq
  <2> QED
    BY <1>3, <1>6, <2>1
<1> HIDE DEF sp
<1>9. b \in OtelType /\ b.tracer = o.tracer /\ b.feature = o.feature /\ b.steps = o.steps /\ b.spans = sp
  BY <1>3, <1>4, <1>8 DEF OtelType
<1>10. SpansOK(b)
  <2>1. b.feature \in 0..Len(b.spans)
    <3>1. o.feature \in 0..Len(o.spans) /\ Len(o.spans) \in Nat /\ n = Len(o.spans) + 1
      BY <1>1, <1>5 DEF n
    <3>2. Len(b.spans) = n /\ b.feature = o.feature
      BY <1>8, <1>9
    <3> QED
      BY <3>1, <3>2
  <2>2. b.feature # 0 => b.spans[b.feature].open /\ b.spans[b.feature].what \in {"feature", "auto"}
    <3>1. o.feature # 0 => o.feature \in DOMAIN o.spans
      BY <1>1, <1>5
    <3> QED
      BY <1>1, <1>8, <1>9, <3>1
  <2>3. \A jd \in DOMAIN b.steps : /\ b.steps[jd] \in DOMAIN b.spans /\ b.spans[b.steps[jd]].open
                                   /\ b.spans[b.steps[jd]].what = IF jd = Custom THEN "custom" ELSE "step"
    <3> SUFFICES ASSUME NEW jd \in DOMAIN o.steps
                 PROVE  o.steps[jd] \in DOMAIN sp /\ sp[o.steps[jd]].open /\ sp[o.steps[jd]].what = IF jd = Custom THEN "custom" ELSE "step"
      BY <1>9
    <3>1. o.steps[jd] \in DOMAIN o.spans
      BY <1>1
    <3>2. o.steps[jd] \in DOMAIN sp /\ sp[o.steps[jd]] = o.spans[o.steps[jd]]
      BY <1>8, <3>1
    <3> QED
      BY <1>1, <3>2
  <2>4. \A kd, jd \in DOMAIN b.steps : b.steps[kd] = b.steps[jd] => kd = jd
    BY <1>1, <1>9
  <2>5. (b.feature = 0 => DOMAIN b.steps = {}) /\ (~b.tracer => b.feature = 0)
    BY <1>1, <1>9
  <2> QED
    BY <1>9, <2>1, <2>2, <2>3, <2>4, <2>5 DEF SpansOK
<1>11. Grows(o, b)
  BY <1>2, <1>7, <1>8, <1>9 DEF Grows
<1>12. ASSUME NoneLeft(o) PROVE NoneLeft(b)
  <2> SUFFICES ASSUME NEW i \in DOMAIN sp, sp[i].open, ~Forgotten(b, i)
               PROVE  i = o.feature \/ sp[i].what = "custom" \/ \E jd \in DOMAIN o.steps : o.steps[jd] = i
    BY <1>9 DEF NoneLeft
  <2>1. i \in DOMAIN o.spans /\ sp[i] = o.spans[i]
    BY <1>7, <1>8
  <2> QED
    BY <1>11, <1>12, <2>1, StillForgotten DEF NoneLeft
<1> QED
  BY <1>9, <1>10, <1>11, <1>12 DEF b, s, p

\* What an event does to the spans.
LEMMA ProcessedIs ==
  ASSUME NEW o, SpansOK(o), NEW e \in EventType, e.kind = "start" => e.id # Custom
  PROVE  LET b == Processed(o, e) IN
           /\ SpansOK(b) /\ Grows(o, b)
           /\ e.kind \notin {"feature", "start"} \/ ~o.tracer => b.feature = o.feature
           /\ e.kind \notin {"start", "end"} => b.steps = o.steps
           /\ e.kind = "start" => DOMAIN b.steps \subseteq DOMAIN o.steps \cup {e.id}
           /\ e.kind = "end" => DOMAIN b.steps = DOMAIN o.steps \ {e.id}
           /\ NoneLeft(o) /\ (e.kind = "start" => e.id \notin DOMAIN o.steps) => NoneLeft(b)
<1> DEFINE b == Processed(o, e)
<1>0. e.id \in Seq(Nat) /\ e.kind \in {"log", "artifact", "feature", "execution", "start", "end"}
  BY DEF EventType
<1>1. CASE ~o.tracer \/ e.kind \in {"log", "execution"}
  <2>1. b = o
    <3>1. CASE ~o.tracer
      BY <3>1 DEF Processed
    <3>2. CASE o.tracer /\ e.kind \in {"log", "execution"}
      <4>1. e.kind \notin {"feature", "start", "end", "artifact"}
        BY <3>2
      <4> QED
        BY <3>2, <4>1 DEF Processed
    <3> QED
      BY <1>1, <3>1, <3>2
  <2>2. ~o.tracer => DOMAIN o.steps = {}
    BY DEF SpansOK
  <2> QED
    BY <1>1, <2>1, <2>2, GrowsOn
<1>2. CASE o.tracer /\ e.kind = "feature"
  <2>1. b = WithFeature(o, "feature")
    BY <1>2 DEF Processed
  <2>2. SpansOK(b) /\ b.steps = o.steps /\ Grows(o, b) /\ (NoneLeft(o) => NoneLeft(b))
    BY <1>2, <2>1, StartsFeature
  <2> QED
    BY <1>2, <2>2
<1>3. CASE o.tracer /\ e.kind = "start"
  <2> DEFINE f == IF o.feature = 0 THEN WithFeature(o, "auto") ELSE o
             s == Started(f, "step", f.feature)
             x == [s EXCEPT !.steps = With(@, e.id, Len(s.spans))]
  <2>1. b = x
    BY <1>3 DEF Processed
  <2>2. SpansOK(f) /\ f.feature # 0 /\ f.steps = o.steps /\ Grows(o, f) /\ (NoneLeft(o) => NoneLeft(f))
    <3>1. CASE o.feature = 0
      <4>1. f = WithFeature(o, "auto")
        BY <3>1
      <4> HIDE DEF f
      <4> QED
        BY <1>3, <3>1, <4>1, StartsFeature
    <3>2. CASE o.feature # 0
      <4>1. f = o
        BY <3>2
      <4> HIDE DEF f
      <4> QED
        BY <3>2, <4>1, GrowsOn
    <3> QED
      BY <3>1, <3>2
  <2> HIDE DEF f
  <2>3. e.id # Custom
    BY <1>3
  <2>4. /\ SpansOK(x) /\ DOMAIN x.steps = DOMAIN f.steps \cup {e.id} /\ Grows(f, x)
        /\ NoneLeft(f) /\ (e.id \in DOMAIN f.steps => e.id = Custom) => NoneLeft(x)
    BY <1>0, <2>2, <2>3, StartsStep
  <2> HIDE DEF x
  <2>5. Grows(o, x)
    BY <2>2, <2>4, GrowsOn
  <2> HIDE DEF b
  <2> QED
    BY <1>3, <2>1, <2>2, <2>4, <2>5 DEF b
<1>4. CASE o.tracer /\ e.kind = "end"
  <2>1. b = Ended(o, e.id)
    BY <1>4 DEF Processed, StepEnded
  <2> HIDE DEF b
  <2>2. /\ SpansOK(b) /\ b.feature = o.feature /\ DOMAIN b.steps = DOMAIN o.steps \ {e.id} /\ Grows(o, b)
        /\ NoneLeft(o) => NoneLeft(b)
    BY <1>0, <2>1, EndsStep
  <2> QED
    BY <1>4, <2>2 DEF b
<1>5. CASE o.tracer /\ e.kind = "artifact"
  <2> DEFINE s == Started(o, "artifact", ParentSpan(o, e.id))
             x == [s EXCEPT !.spans[Len(s.spans)].open = FALSE]
  <2>1. b = x
    BY <1>5 DEF Processed
  <2>2. SpansOK(x) /\ x.feature = o.feature /\ x.steps = o.steps /\ Grows(o, x) /\ (NoneLeft(o) => NoneLeft(x))
    BY <1>0, ShowsArtifact
  <2> HIDE DEF x, b
  <2> QED
    BY <1>5, <2>1, <2>2 DEF b
<1> QED
  BY <1>0, <1>1, <1>2, <1>3, <1>4, <1>5

\* A user's span, unless there is one.
LEMMA StartsCustom ==
  ASSUME NEW o, SpansOK(o), o.feature # 0
  PROVE  LET s == Started(o, "custom", o.feature)
             b == [s EXCEPT !.steps = With(@, Custom, Len(s.spans))]
         IN  SpansOK(b) /\ b.feature = o.feature /\ DOMAIN b.steps = DOMAIN o.steps \cup {Custom} /\ Grows(o, b) /\ (NoneLeft(o) => NoneLeft(b))
<1>1. Custom \in Seq(Nat) /\ "custom" \in {"custom", "step"} /\ ("custom" = "custom" <=> Custom = Custom)
  BY DEF Custom
<1> QED
  BY <1>1, StartsStep

LEMMA HeardOne ==
  ASSUME NEW o, SpansOK(o), NEW e \in EventType, e.kind = "start" => e.id # Custom, Hear(o, <<e>>)
  PROVE  otel' = IF Hears(Otel) THEN Processed(o, e) ELSE o
<1> DEFINE S == {x \in OtelType : SpansOK(x)}
           es == <<e>>
<1>1. es \in Seq(EventType) /\ Len(es) = 1 /\ es[1] = e /\ \A k \in 1..Len(es) : es[k] = e
  OBVIOUS
<1>2. \A x : x \in S <=> SpansOK(x)
  BY DEF SpansOK
<1>3. \A x : SpansOK(x) => SpansOK(Processed(x, e))
  BY ProcessedIs
<1>4. otel' = OtelHears(o, es)
  BY DEF Hear
<1> HIDE DEF S, es
<1>5. PICK f : /\ f[0] = o /\ \A k \in 1..Len(es) : f[k] = Processed(f[k - 1], es[k])
               /\ OtelHears(o, es) = IF Hears(Otel) THEN f[Len(es)] ELSE o
  <2>1. o \in S /\ \A k \in 1..Len(es), s \in S : Processed(s, es[k]) \in S
    BY <1>1, <1>2, <1>3
  <2> QED
    <3>1. \E f : /\ f[0] = o /\ \A k \in 1..Len(es) : f[k] = Processed(f[k - 1], es[k])
                 /\ \A k \in 0..Len(es) : f[k] \in S
                 /\ OtelHears(o, es) = IF Hears(Otel) THEN f[Len(es)] ELSE o
      BY <1>1, <2>1, OtelHearing, SMTT(30)
    <3> QED
      BY <3>1, Zenon
<1>6. f[1] = Processed(o, e)
  <2>1. 1 \in 1..Len(es) /\ 1 - 1 = 0
    BY <1>1
  <2>2. f[1] = Processed(f[1 - 1], es[1])
    BY <1>5, <2>1
  <2> QED
    BY <1>1, <1>5, <2>1, <2>2
<1> QED
  BY <1>1, <1>4, <1>5, <1>6

LEMMA HeardQuiet ==
  ASSUME NEW o, SpansOK(o), NEW es, Quiet(es), Hear(o, es)
  PROVE  SpansOK(otel') /\ Grows(o, otel') /\ otel'.feature = o.feature /\ otel'.steps = o.steps /\ (NoneLeft(o) => NoneLeft(otel'))
<1> DEFINE Keeps(x) == SpansOK(x) /\ Grows(o, x) /\ x.feature = o.feature /\ x.steps = o.steps /\ (NoneLeft(o) => NoneLeft(x))
           S == {x \in OtelType : Keeps(x)}
<1>1. es \in Seq(EventType) /\ \A k \in 1..Len(es) : es[k] \in EventType /\ es[k].kind \notin {"feature", "start", "end"}
  <2>1. es \in Seq(EventType) /\ \A k \in 1..Len(es) : Plain(es[k])
    BY DEF Quiet
  <2> QED
    BY <2>1, SequenceIs DEF Plain
<1>2. \A x : x \in S <=> Keeps(x)
  BY DEF SpansOK
<1>3. ASSUME NEW x, Keeps(x), NEW k \in 1..Len(es) PROVE Keeps(Processed(x, es[k]))
  <2> DEFINE e == es[k]
             b == Processed(x, e)
  <2>1. e \in EventType /\ e.kind \notin {"feature", "start", "end"}
    BY <1>1
  <2> HIDE DEF e
  <2>2. /\ SpansOK(b) /\ Grows(x, b) /\ b.feature = x.feature /\ b.steps = x.steps
        /\ NoneLeft(x) => NoneLeft(b)
    BY <1>3, <2>1, ProcessedIs
  <2> HIDE DEF b
  <2>3. Grows(o, b)
    BY <1>3, <2>2, GrowsOn
  <2> QED
    BY <1>3, <2>2, <2>3 DEF b, e
<1>4. otel' = OtelHears(o, es)
  BY DEF Hear
<1>5. Keeps(o)
  BY GrowsOn
<1> HIDE DEF S, Keeps
<1>6. PICK f : /\ f[0] = o /\ \A k \in 0..Len(es) : f[k] \in S
               /\ OtelHears(o, es) = IF Hears(Otel) THEN f[Len(es)] ELSE o
  <2>1. o \in S /\ \A k \in 1..Len(es), s \in S : Processed(s, es[k]) \in S
    BY <1>2, <1>3, <1>5
  <2> QED
    BY <1>1, <2>1, OtelHearing
<1>7. Len(es) \in 0..Len(es)
  BY <1>1, SequenceIs
<1>8. Keeps(otel')
  BY <1>2, <1>4, <1>5, <1>6, <1>7
<1> QED
  BY <1>8 DEF Keeps

\* The step of a finalizer has been started and ended when it has run.
LEMMA HeardFinalizer ==
  ASSUME NEW o, SpansOK(o), NEW id \in Seq(Nat), id # Custom, NEW ok \in BOOLEAN,
         LET start == Event("start", id)
             end == [kind |-> "end", id |-> id, ok |-> ok]
         IN  Hear(o, IF ok THEN <<start, end>> ELSE <<start, end, Log>>)
  PROVE  /\ SpansOK(otel') /\ Grows(o, otel') /\ DOMAIN otel'.steps \subseteq DOMAIN o.steps
         /\ NoneLeft(o) /\ id \notin DOMAIN o.steps => NoneLeft(otel')
         /\ Hears(Otel) \/ otel' = o
<1> DEFINE start == Event("start", id)
           end == [kind |-> "end", id |-> id, ok |-> ok]
           es == IF ok THEN <<start, end>> ELSE <<start, end, Log>>
           S == {x \in OtelType : SpansOK(x)}
<1>0. /\ start \in EventType /\ end \in EventType /\ Log \in EventType
      /\ start.kind = "start" /\ start.id = id /\ end.kind = "end" /\ end.id = id /\ Log.kind \notin {"feature", "start", "end"}
  <2>1. Log.kind \notin {"feature", "start", "end"}
    BY DEF Log, Event
  <2> QED
    BY <2>1, EventIs, PlainIs
<1> HIDE DEF start, end
<1>1. /\ es \in Seq(EventType) /\ Len(es) = IF ok THEN 2 ELSE 3
      /\ es[1] = start /\ es[2] = end /\ (~ok => es[3] = Log)
  <2>1. CASE ok
    <3>1. es = <<start, end>>
      BY <2>1
    <3> QED
      BY <1>0, <2>1, <3>1
  <2>2. CASE ~ok
    <3>1. es = <<start, end, Log>>
      BY <2>2
    <3> QED
      BY <1>0, <2>2, <3>1
  <2> QED
    BY <2>1, <2>2
<1>2. \A x : x \in S <=> SpansOK(x)
  BY DEF SpansOK
<1>4. otel' = OtelHears(o, es)
  BY DEF Hear, start, end
<1> HIDE DEF S, es
<1>5. ASSUME NEW x, SpansOK(x), NEW k \in 1..Len(es) PROVE SpansOK(Processed(x, es[k]))
  <2>1. es[k] \in {start, end, Log}
    BY <1>1
  <2> DEFINE e == es[k]
  <2>2. e \in EventType /\ (e.kind = "start" => e.id # Custom)
    BY <1>0, <2>1
  <2> HIDE DEF e
  <2>3. SpansOK(Processed(x, e))
    BY <1>5, <2>2, ProcessedIs
  <2> QED
    BY <2>3 DEF e
<1>6. PICK f : /\ f[0] = o /\ \A k \in 1..Len(es) : f[k] = Processed(f[k - 1], es[k])
               /\ \A k \in 0..Len(es) : f[k] \in S
               /\ OtelHears(o, es) = IF Hears(Otel) THEN f[Len(es)] ELSE o
  <2>1. o \in S /\ \A k \in 1..Len(es), s \in S : Processed(s, es[k]) \in S
    BY <1>2, <1>5
  <2>2. es \in Seq(EventType)
    BY <1>1
  <2> QED
    BY <2>1, <2>2, OtelHearing
<1>7. f[1] = Processed(o, start) /\ f[2] = Processed(f[1], end) /\ (~ok => f[3] = Processed(f[2], Log))
  <2>1. 1 \in 1..Len(es) /\ 2 \in 1..Len(es) /\ (~ok => 3 \in 1..Len(es)) /\ 1 - 1 = 0 /\ 2 - 1 = 1 /\ 3 - 1 = 2
    BY <1>1
  <2>2. f[1] = Processed(f[1 - 1], es[1]) /\ f[2] = Processed(f[2 - 1], es[2]) /\ (~ok => f[3] = Processed(f[3 - 1], es[3]))
    BY <1>6, <2>1
  <2> QED
    BY <1>1, <1>6, <2>1, <2>2
<1> DEFINE a == f[1]
           b == f[2]
           Kept(x) == /\ SpansOK(x) /\ Grows(o, x) /\ DOMAIN x.steps \subseteq DOMAIN o.steps
                      /\ NoneLeft(o) /\ id \notin DOMAIN o.steps => NoneLeft(x)
<1>8. /\ SpansOK(a) /\ Grows(o, a) /\ DOMAIN a.steps \subseteq DOMAIN o.steps \cup {id}
      /\ NoneLeft(o) /\ id \notin DOMAIN o.steps => NoneLeft(a)
  <2> HIDE DEF a
  <2>1. a = Processed(o, start)
    BY <1>7 DEF a
  <2> QED
    BY <1>0, <2>1, ProcessedIs
<1>9. Kept(b)
  <2> HIDE DEF a, b
  <2>1. b = Processed(a, end)
    BY <1>7 DEF a, b
  <2>2. SpansOK(b) /\ Grows(a, b) /\ DOMAIN b.steps = DOMAIN a.steps \ {id} /\ (NoneLeft(a) => NoneLeft(b))
    <3>1. SpansOK(a) /\ end \in EventType /\ end.kind = "end" /\ end.kind # "start" /\ end.kind # "feature"
      BY <1>0, <1>8
    <3>2. /\ SpansOK(Processed(a, end)) /\ Grows(a, Processed(a, end))
          /\ DOMAIN Processed(a, end).steps = DOMAIN a.steps \ {end.id} /\ (NoneLeft(a) => NoneLeft(Processed(a, end)))
      BY <3>1, ProcessedIs
    <3> QED
      BY <1>0, <2>1, <3>2
  <2>3. Grows(o, b)
    BY <1>8, <2>2, GrowsOn
  <2> QED
    BY <1>8, <2>2, <2>3
<1>10. ~ok => Kept(f[3])
  <2> HIDE DEF b
  <2> SUFFICES ASSUME ~ok PROVE Kept(f[3])
    OBVIOUS
  <2> DEFINE c == f[3]
  <2>1. c = Processed(b, Log)
    BY <1>7 DEF b
  <2> HIDE DEF c
  <2>2. SpansOK(c) /\ Grows(b, c) /\ c.steps = b.steps /\ (NoneLeft(b) => NoneLeft(c))
    BY <1>0, <1>9, <2>1, ProcessedIs
  <2>3. Grows(o, c)
    BY <1>9, <2>2, GrowsOn
  <2>4. Kept(c)
    BY <1>9, <2>2, <2>3
  <2> QED
    BY <2>4 DEF c
<1>11. Kept(o)
  BY GrowsOn
<1> HIDE DEF a, Kept
<1>12. f[Len(es)] = IF ok THEN b ELSE f[3]
  BY <1>1
<1>13. Kept(otel') /\ (Hears(Otel) \/ otel' = o)
  BY <1>4, <1>6, <1>9, <1>10, <1>11, <1>12
<1> QED
  BY <1>13 DEF Kept

\* When the span of a feature is there, of what is before the finalizers.
OtelWhere ==
  \/ phase \in {"endExecution", "done", "failed"}
  \/ phase = "endFeature" /\ Ahead(Otel)
  \/ phase = "body"

LEMMA WhereStep ==
  ASSUME ControlTypes, DataTypes, SavingInv, MonitorsNext, Has(Otel), OtelWhere, ~OtelEndsFeature
  PROVE  OtelWhere'
<1>1. setup' = setup
  BY ControlStep
<1>3. CASE UNCHANGED run
  <2>1. phase' = phase /\ at' = at /\ feature' = feature /\ (Ahead(Otel)' <=> Ahead(Otel))
    BY <1>1, <1>3, Turns DEF run
  <2> QED
    BY <2>1 DEF OtelWhere
<1>4. CASE Throws
  BY <1>4 DEF Throws, OtelWhere
<1>5. CASE Passes /\ at \in DOMAIN list /\ phase \in DOMAIN Hooks
  <2>1. phase' = phase /\ at' = at + 1 /\ phase # "body"
    BY <1>5 DEF Passes, Hooks
  <2>2. ~(phase = "endFeature" /\ list[at] = Otel)
    BY <1>5, Passing
  <2>3. list[at] # Otel => (Ahead(Otel)' <=> Ahead(Otel))
    BY <1>1, <1>5, <2>1, Turns
  <2> QED
    BY <2>1, <2>2, <2>3 DEF OtelWhere
<1>6. CASE Begin
  <2>1. at' = 1 /\ (Ahead(Otel)' <=> Has(Otel)) /\ (phase = "body" \/ at = Len(list) + 1)
    BY <1>1, <1>6, Boundaries, Turns
  <2>2. at = Len(list) + 1 => ~Ahead(Otel)
    BY Places
  <2>3. phase' \in {"endFeature", "endExecution", "done"} \/ phase \notin {"body", "endExecution", "done", "failed", "endFeature"} \/ phase = "endFeature"
    BY <1>6, Boundaries
  <2>4. phase = "endFeature" => FALSE
    BY <2>1, <2>2 DEF OtelWhere
  <2> QED
    BY <2>1, <2>3, <2>4 DEF OtelWhere
<1> QED
  BY <1>3, <1>4, <1>5, <1>6, RunFrame

\* What is true of the spans after a step.
Goes ==
  /\ SpansOK(otel') /\ Grows(otel, otel') /\ DOMAIN otel'.steps \subseteq ToSet(open') \cup {Custom}
  /\ ~Before(Otel, Finalizer) => NoneLeft(otel')
  /\ (otel'.feature = otel.feature /\ ~OtelEndsFeature) \/ otel'.feature = 0 \/ (Has(Otel) /\ (~Before(Otel, Finalizer) => OtelWhere'))

LEMMA OtelIsNow ==
  ASSUME OtelInv
  PROVE  /\ SpansOK(otel) /\ (~Has(Otel) => otel.feature = 0)
         /\ DOMAIN otel.steps \subseteq ToSet(open) \cup {Custom}
         /\ ~Before(Otel, Finalizer) => NoneLeft(otel) /\ (otel.feature # 0 => OtelWhere)
         /\ otel.feature = 0 => DOMAIN otel.steps = {}
         /\ otel \in OtelType
BY DEF OtelInv, OtelWhere, SpansOK

LEMMA GoesStep ==
  ASSUME ControlTypes, DataTypes, SavingInv, OtelInv, MonitorsNext, Goes
  PROVE  OtelInv' /\ ParentsAreOpen
<1>1. setup' = setup /\ (Has(Otel)' <=> Has(Otel)) /\ (Before(Otel, Finalizer)' <=> Before(Otel, Finalizer))
  BY ControlStep, Turns
<1>2. /\ SpansOK(otel') /\ Grows(otel, otel') /\ DOMAIN otel'.steps \subseteq ToSet(open') \cup {Custom}
      /\ ~Before(Otel, Finalizer) => NoneLeft(otel')
      /\ (otel'.feature = otel.feature /\ ~OtelEndsFeature) \/ otel'.feature = 0 \/ (Has(Otel) /\ (~Before(Otel, Finalizer) => OtelWhere'))
  BY DEF Goes
<1>3. ~Has(Otel) => otel'.feature = 0
  BY <1>2, OtelIsNow
<1>4. ~Before(Otel, Finalizer) /\ otel'.feature # 0 => OtelWhere'
  <2> SUFFICES ASSUME ~Before(Otel, Finalizer), otel'.feature # 0 PROVE OtelWhere'
    OBVIOUS
  <2>1. CASE otel'.feature = otel.feature /\ ~OtelEndsFeature
    <3>1. otel.feature # 0
      BY <2>1
    <3>2. Has(Otel) /\ OtelWhere
      BY <3>1, OtelIsNow
    <3> QED
      BY <2>1, <3>2, WhereStep
  <2> QED
    BY <1>2, <2>1
<1>5. OtelInv'
  BY <1>1, <1>2, <1>3, <1>4 DEF OtelInv, OtelWhere
<1>6. ParentsAreOpen
  BY <1>2 DEF Grows, ParentsAreOpen
<1> QED
  BY <1>5, <1>6

LEMMA SameSteps ==
  ASSUME ControlTypes, DataTypes, OpenInv, UNCHANGED exec \/ ToBody
  PROVE  open' = open
<1>1. ToBody => phase = "startFeature" /\ open' = <<>>
  BY DEF ToBody, HooksDone
<1>2. phase = "startFeature" => open = <<>>
  BY DEF OpenInv
<1> QED
  BY <1>1, <1>2 DEF exec

LEMMA GoesQuiet ==
  ASSUME ControlTypes, DataTypes, OpenInv, OtelInv, MonitorsNext, Unheard \/ HearsQuiet \/ HearsTracer
  PROVE  Goes
<1>1. open' = open
  <2>1. UNCHANGED exec \/ ToBody
    BY DEF Unheard, HearsQuiet, HearsTracer
  <2> QED
    BY <2>1, SameSteps
<1>2. SpansOK(otel) /\ DOMAIN otel.steps \subseteq ToSet(open) \cup {Custom} /\ (~Before(Otel, Finalizer) => NoneLeft(otel))
  BY OtelIsNow
<1>3. \E o : /\ SpansOK(o) /\ Grows(otel, o) /\ o.feature = otel.feature /\ o.steps = otel.steps /\ (NoneLeft(otel) => NoneLeft(o))
             /\ otel' = o \/ \E es : Quiet(es) /\ Hear(o, es)
  <2>1. CASE Unheard
    BY <1>2, <2>1, GrowsOn DEF Unheard
  <2>2. CASE HearsQuiet
    BY <1>2, <2>2, GrowsOn DEF HearsQuiet
  <2>3. CASE HearsTracer
    <3> DEFINE b == [otel EXCEPT !.tracer = TRUE]
    <3>1. Quiet(<<Log>>) /\ Hear(b, <<Log>>)
      BY <2>3 DEF HearsTracer
    <3>2. otel \in OtelType
      BY <1>2 DEF SpansOK
    <3>3. b \in OtelType /\ b.tracer /\ b.feature = otel.feature /\ b.steps = otel.steps /\ b.spans = otel.spans
      BY <3>2 DEF OtelType
    <3> HIDE DEF b
    <3>4. SpansOK(b)
      BY <1>2, <3>3 DEF SpansOK
    <3>5. Grows(otel, b) /\ (NoneLeft(otel) => NoneLeft(b))
      BY <3>3, GrowsOn DEF NoneLeft, Forgotten
    <3> QED
      BY <3>1, <3>3, <3>4, <3>5
  <2> QED
    BY <2>1, <2>2, <2>3
<1>4. PICK o : /\ SpansOK(o) /\ Grows(otel, o) /\ o.feature = otel.feature /\ o.steps = otel.steps /\ (NoneLeft(otel) => NoneLeft(o))
               /\ otel' = o \/ \E es : Quiet(es) /\ Hear(o, es)
  BY <1>3
<1>5. SpansOK(otel') /\ Grows(otel, otel') /\ otel'.feature = otel.feature /\ otel'.steps = otel.steps /\ (NoneLeft(otel) => NoneLeft(otel'))
  <2>1. CASE otel' = o
    BY <1>4, <2>1
  <2>2. ASSUME NEW es, Quiet(es), Hear(o, es)
        PROVE  SpansOK(otel') /\ Grows(otel, otel') /\ otel'.feature = otel.feature /\ otel'.steps = otel.steps /\ (NoneLeft(otel) => NoneLeft(otel'))
    <3>1. SpansOK(otel') /\ Grows(o, otel') /\ otel'.feature = o.feature /\ otel'.steps = o.steps /\ (NoneLeft(o) => NoneLeft(otel'))
      BY <1>4, <2>2, HeardQuiet
    <3>2. Grows(otel, otel')
      BY <1>4, <3>1, GrowsOn
    <3> QED
      BY <1>4, <3>1, <3>2
  <2> QED
    BY <1>4, <2>1, <2>2
<1>6. OtelEndsFeature => otel'.feature = 0
  <2>1. otel \in OtelType
    BY OtelIsNow
  <2> QED
    BY <2>1 DEF OtelEndsFeature, OtelType, NoFeature
<1> QED
  BY <1>1, <1>2, <1>5, <1>6 DEF Goes

LEMMA GoesNone ==
  ASSUME ControlTypes, DataTypes, OpenInv, OtelInv, HearsNone
  PROVE  Goes
<1> DEFINE sp == [i \in DOMAIN otel.spans |-> IF i = otel.feature THEN [otel.spans[i] EXCEPT !.open = FALSE] ELSE otel.spans[i]]
<1>1. /\ otel' = [otel EXCEPT !.feature = 0, !.steps = <<>>, !.spans = sp]
      /\ UNCHANGED exec /\ phase = "endFeature"
  BY DEF HearsNone, OtelEndsFeature, NoFeature, Hook
<1>2. open' = open /\ open = <<>>
  BY <1>1 DEF exec, OpenInv
<1>3. /\ SpansOK(otel) /\ DOMAIN otel.steps \subseteq ToSet(open) \cup {Custom} /\ (~Before(Otel, Finalizer) => NoneLeft(otel))
      /\ otel \in OtelType
  BY OtelIsNow
<1>4. DOMAIN otel.steps \subseteq {Custom}
  BY <1>2, <1>3 DEF ToSet
<1>5. /\ otel.tracer \in BOOLEAN /\ otel.spans \in Seq(SpanType) /\ Len(otel.spans) \in Nat /\ DOMAIN otel.spans = 1..Len(otel.spans)
      /\ \A i \in DOMAIN otel.spans : otel.spans[i] \in SpanType
  BY <1>3, OtelIs
<1>6. /\ DOMAIN sp = DOMAIN otel.spans
      /\ \A i \in DOMAIN otel.spans : /\ sp[i] \in SpanType /\ sp[i].what = otel.spans[i].what /\ sp[i].parent = otel.spans[i].parent
                                      /\ sp[i].open => otel.spans[i].open /\ i # otel.feature
  BY <1>5 DEF SpanType
<1> HIDE DEF sp
<1>7. sp \in Seq(SpanType) /\ Len(sp) = Len(otel.spans)
  <2>1. sp \in [1..Len(otel.spans) -> SpanType]
    <3>1. sp = [i \in DOMAIN otel.spans |-> sp[i]]
      BY DEF sp
    <3> QED
      BY <1>5, <1>6, <3>1
  <2> QED
    BY <1>5, <2>1
<1>8. <<>> \in StepMaps /\ DOMAIN <<>> = {}
  <2>1. <<>> \in [{} -> Nat] /\ {} \in SUBSET Seq(Nat)
    OBVIOUS
  <2> QED
    BY <2>1 DEF StepMaps
<1>9. otel'.tracer = otel.tracer /\ otel'.feature = 0 /\ otel'.steps = <<>> /\ otel'.spans = sp /\ otel' \in OtelType
  <2>1. otel = [tracer |-> otel.tracer, feature |-> otel.feature, steps |-> otel.steps, spans |-> otel.spans]
    BY <1>3 DEF OtelType
  <2>2. otel' = [tracer |-> otel.tracer, feature |-> 0, steps |-> <<>>, spans |-> sp]
    BY <1>1, <2>1
  <2> QED
    BY <1>5, <1>7, <1>8, <2>2 DEF OtelType
<1>10. SpansOK(otel')
  BY <1>5, <1>7, <1>8, <1>9 DEF SpansOK
<1>11. Grows(otel, otel')
  BY <1>6, <1>9 DEF Grows
<1>12. ASSUME NoneLeft(otel) PROVE NoneLeft(otel')
  <2> SUFFICES ASSUME NEW i \in DOMAIN sp, sp[i].open, ~Forgotten(otel', i) PROVE sp[i].what = "custom"
    BY <1>9 DEF NoneLeft
  <2>1. i \in DOMAIN otel.spans /\ otel.spans[i].open /\ i # otel.feature /\ sp[i].what = otel.spans[i].what
    BY <1>6
  <2>2. ASSUME NEW id \in DOMAIN otel.steps, otel.steps[id] = i PROVE otel.spans[i].what = "custom"
    BY <1>3, <1>4, <2>2 DEF SpansOK
  <2> QED
    BY <1>11, <1>12, <2>1, <2>2, StillForgotten DEF NoneLeft
<1> QED
  BY <1>3, <1>8, <1>9, <1>10, <1>11, <1>12 DEF Goes

LEMMA GoesFeature ==
  ASSUME ControlTypes, DataTypes, OpenInv, OtelInv, HearsFeature
  PROVE  Goes
<1> DEFINE id == <<feature>>
           e == Event("feature", id)
<1>0. feature \in Nat /\ id \in Seq(Nat)
  BY Listed DEF ControlTypes
<1> HIDE DEF id
<1>1. /\ phase = "body" /\ open' = open /\ UNCHANGED run
      /\ Hear(otel, <<e>>)
  BY DEF HearsFeature, FeatureLine, Stays, id
<1>2. e \in EventType /\ e.kind = "feature"
  BY <1>0, EventIs
<1> HIDE DEF e
<1>3. /\ SpansOK(otel) /\ DOMAIN otel.steps \subseteq ToSet(open) \cup {Custom} /\ (~Has(Otel) => otel.feature = 0)
      /\ ~Before(Otel, Finalizer) => NoneLeft(otel) /\ (otel.feature # 0 => OtelWhere)
  BY OtelIsNow
<1>4. otel' = IF Hears(Otel) THEN Processed(otel, e) ELSE otel
  BY <1>1, <1>2, <1>3, HeardOne
<1>6. ~OtelEndsFeature
  BY <1>1 DEF OtelEndsFeature, Hook
<1>7. CASE ~Hears(Otel)
  BY <1>1, <1>3, <1>4, <1>6, <1>7, GrowsOn DEF Goes
<1>8. CASE Hears(Otel)
  <2> DEFINE b == Processed(otel, e)
  <2>1. SpansOK(b) /\ Grows(otel, b) /\ b.steps = otel.steps /\ (NoneLeft(otel) => NoneLeft(b))
    BY <1>2, <1>3, ProcessedIs
  <2>2. otel' = b
    BY <1>4, <1>8
  <2> HIDE DEF b
  <2>3. Has(Otel)
    BY <1>8 DEF Hears, ControlTypes
  <2>4. OtelWhere'
    BY <1>1 DEF OtelWhere, run
  <2> QED
    BY <1>1, <1>3, <2>1, <2>2, <2>3, <2>4 DEF Goes
<1> QED
  BY <1>7, <1>8

LEMMA GoesStart ==
  ASSUME ControlTypes, DataTypes, OpenInv, SavingInv, OtelInv, MonitorsNext, HearsStart
  PROVE  Goes
<1>1. PICK id \in Seq(Nat) : open' = Append(open, id) /\ Hear(otel, <<Event("start", id)>>)
  BY DEF HearsStart
<1> DEFINE e == Event("start", id)
<1>2. e \in EventType /\ e.kind = "start" /\ e.id = id
  BY EventIs
<1>3. phase = "body" /\ UNCHANGED run /\ phase' = "body"
  BY DEF HearsStart, StepStarts, Stays, run
<1>4. open \in Seq(Seq(Nat)) /\ open' \in Seq(Seq(Nat)) /\ OpenInv'
  BY OpenStep DEF DataTypes
<1>5. /\ Len(open) \in Nat /\ DOMAIN open = 1..Len(open)
      /\ DOMAIN open' = 1..Len(open) + 1 /\ open'[Len(open) + 1] = id /\ open' # <<>>
      /\ \A k \in 1..Len(open) : open'[k] = open[k]
  <2>1. /\ Len(open) \in Nat /\ DOMAIN open = 1..Len(open)
        /\ DOMAIN Append(open, id) = 1..Len(open) + 1 /\ Append(open, id)[Len(open) + 1] = id /\ Append(open, id) # <<>>
        /\ \A k \in 1..Len(open) : Append(open, id)[k] = open[k]
    <3>1. open \in Seq(Seq(Nat)) /\ id \in Seq(Nat)
      BY <1>4
    <3> QED
      BY <3>1, Appended, SMTT(30)
  <2> QED
    BY <1>1, <2>1
<1>6. Len(id) = Len(open) + 2
  <2>1. \A k \in DOMAIN open' : Len(open'[k]) = k + 1
    BY <1>4 DEF OpenInv
  <2>2. Len(open) + 1 \in DOMAIN open'
    BY <1>5
  <2>3. Len(open'[Len(open) + 1]) = Len(open) + 1 + 1
    BY <2>1, <2>2
  <2> QED
    BY <1>5, <2>3
<1>7. id # Custom
  BY <1>5, <1>6 DEF Custom
<1>8. id \notin ToSet(open)
  <2> SUFFICES ASSUME NEW k \in 1..Len(open), open[k] = id PROVE FALSE
    BY <1>4, ToSetIs
  <2>1. Len(open[k]) = k + 1
    BY <1>5 DEF OpenInv
  <2> QED
    BY <1>5, <1>6, <2>1
<1>9. ToSet(open') = ToSet(open) \cup {id}
  <2>1. ToSet(open') = {open'[k] : k \in 1..Len(open) + 1} /\ ToSet(open) = {open[k] : k \in 1..Len(open)}
    BY <1>5 DEF ToSet
  <2> QED
    BY <1>5, <2>1
<1>10. /\ SpansOK(otel) /\ DOMAIN otel.steps \subseteq ToSet(open) \cup {Custom} /\ (~Has(Otel) => otel.feature = 0)
       /\ ~Before(Otel, Finalizer) => NoneLeft(otel)
  BY OtelIsNow
<1>11. otel' = IF Hears(Otel) THEN Processed(otel, e) ELSE otel
  <2> HIDE DEF e
  <2>1. Hear(otel, <<e>>)
    BY <1>1 DEF e
  <2> QED
    BY <1>2, <1>7, <1>10, <2>1, HeardOne
<1> HIDE DEF e
<1>12. ~OtelEndsFeature
  BY <1>3 DEF OtelEndsFeature, Hook
<1>13. CASE ~Hears(Otel)
  BY <1>9, <1>10, <1>11, <1>12, <1>13, GrowsOn DEF Goes
<1>14. CASE Hears(Otel)
  <2> DEFINE b == Processed(otel, e)
  <2>1. SpansOK(b) /\ Grows(otel, b) /\ DOMAIN b.steps \subseteq DOMAIN otel.steps \cup {id} /\ (NoneLeft(otel) /\ id \notin DOMAIN otel.steps => NoneLeft(b))
    <3>1. e.kind = "start" => e.id # Custom
      BY <1>2, <1>7
    <3>2. /\ SpansOK(b) /\ Grows(otel, b) /\ (e.kind = "start" => DOMAIN b.steps \subseteq DOMAIN otel.steps \cup {e.id})
          /\ NoneLeft(otel) /\ (e.kind = "start" => e.id \notin DOMAIN otel.steps) => NoneLeft(b)
      BY <1>2, <1>10, <3>1, ProcessedIs
    <3> HIDE DEF b
    <3> QED
      BY <1>2, <3>2
  <2>2. otel' = b
    BY <1>11, <1>14
  <2> HIDE DEF b
  <2>3. Has(Otel)
    BY <1>14 DEF Hears, ControlTypes
  <2>4. OtelWhere'
    BY <1>3 DEF OtelWhere
  <2>5. id \notin DOMAIN otel.steps
    BY <1>7, <1>8, <1>10
  <2> QED
    BY <1>9, <1>10, <2>1, <2>2, <2>3, <2>4, <2>5 DEF Goes
<1> QED
  BY <1>13, <1>14

LEMMA GoesEnd ==
  ASSUME ControlTypes, DataTypes, OpenInv, OtelInv, NEW o, SpansOK(o), o.feature = otel.feature,
         DOMAIN o.steps \subseteq DOMAIN otel.steps \cup {Custom}, Grows(otel, o), NoneLeft(otel) => NoneLeft(o), HearsEnd(o)
  PROVE  Goes
<1>1. PICK ok \in BOOLEAN : Hear(o, <<Ending(ok)>>)
  BY DEF HearsEnd
<1> DEFINE e == Ending(ok)
<1>2. phase = "body" /\ open # <<>> /\ (open' = open \/ open' = Front(open))
  BY Zenon DEF HearsEnd, StepDone, StepEnds, RegisterFinalizer, StartOtelSpan, EndOtelSpan, Returns, StepReruns, exec
<1>3. /\ Len(open) \in Nat /\ Len(open) >= 1 /\ DOMAIN open = 1..Len(open)
      /\ Last(open) = open[Len(open)] /\ Last(open) \in Seq(Nat)
      /\ Front(open) \in Seq(Seq(Nat)) /\ Len(Front(open)) = Len(open) - 1
      /\ \A k \in 1..Len(open) - 1 : Front(open)[k] = open[k]
  BY <1>2, Innermost, Zenon DEF DataTypes
<1>4. e \in EventType /\ e.kind = "end" /\ e.id = Last(open)
  BY <1>3, EventIs DEF Ending
<1>5. ToSet(open) \ {Last(open)} \subseteq ToSet(open')
  <2>1. ToSet(open) = {open[k] : k \in 1..Len(open)}
    BY <1>3 DEF ToSet
  <2>2. ToSet(Front(open)) = {Front(open)[k] : k \in 1..Len(open) - 1}
    BY <1>3, ToSetIs
  <2>3. \A k \in 1..Len(open) : k = Len(open) \/ k \in 1..Len(open) - 1
    <3>1. Len(open) \in Nat
      BY <1>3
    <3> QED
      BY <3>1
  <2>4. ToSet(open) \ {Last(open)} \subseteq ToSet(Front(open))
    BY <1>3, <2>1, <2>2, <2>3, Zenon
  <2> QED
    BY <1>2, <2>4
<1>6. /\ DOMAIN otel.steps \subseteq ToSet(open) \cup {Custom} /\ (~Has(Otel) => otel.feature = 0)
      /\ ~Before(Otel, Finalizer) => NoneLeft(otel)
  BY OtelIsNow
<1>7. otel' = IF Hears(Otel) THEN Processed(o, e) ELSE o
  <2> HIDE DEF e
  <2>1. Hear(o, <<e>>)
    BY <1>1 DEF e
  <2> QED
    BY <1>4, <2>1, HeardOne
<1> HIDE DEF e
<1>8. ~OtelEndsFeature
  BY <1>2 DEF OtelEndsFeature, Hook
<1>9. CASE ~Hears(Otel)
  <2>1. ~Has(Otel)
    BY <1>9 DEF Hears, ControlTypes
  <2>2. DOMAIN o.steps = {}
    BY <1>6, <2>1 DEF SpansOK
  <2> QED
    BY <1>6, <1>7, <1>8, <1>9, <2>2 DEF Goes
<1>10. CASE Hears(Otel)
  <2> DEFINE b == Processed(o, e)
  <2>1. SpansOK(b) /\ Grows(o, b) /\ b.feature = o.feature /\ DOMAIN b.steps = DOMAIN o.steps \ {e.id} /\ (NoneLeft(o) => NoneLeft(b))
    <3>1. e.kind # "start" /\ e.kind # "feature"
      BY <1>4
    <3> HIDE DEF b
    <3>2. b = Processed(o, e)
      BY DEF b
    <3> QED
      BY <1>4, <3>1, <3>2, ProcessedIs
  <2>2. otel' = b
    BY <1>7, <1>10
  <2> HIDE DEF b
  <2>3. Grows(otel, b)
    BY <2>1, GrowsOn
  <2>4. DOMAIN b.steps \subseteq ToSet(open') \cup {Custom}
    BY <1>4, <1>5, <1>6, <2>1
  <2> QED
    BY <1>6, <1>8, <2>1, <2>2, <2>3, <2>4 DEF Goes
<1> QED
  BY <1>9, <1>10

LEMMA GoesEnds ==
  ASSUME ControlTypes, DataTypes, OpenInv, OtelInv, HearsEnd(otel) \/ HearsEnd(Ended(otel, Custom)) \/ HearsCustom
  PROVE  Goes
<1>1. SpansOK(otel)
  BY OtelIsNow
<1>2. CASE HearsEnd(otel)
  BY <1>1, <1>2, GrowsOn, GoesEnd
<1>3. CASE HearsEnd(Ended(otel, Custom))
  <2> DEFINE o == Ended(otel, Custom)
  <2>1. Custom \in Seq(Nat)
    BY DEF Custom
  <2>2. SpansOK(o) /\ o.feature = otel.feature /\ DOMAIN o.steps = DOMAIN otel.steps \ {Custom} /\ Grows(otel, o) /\ (NoneLeft(otel) => NoneLeft(o))
    BY <1>1, <2>1, EndsStep
  <2> HIDE DEF o
  <2>3. HearsEnd(o)
    BY <1>3 DEF o
  <2> QED
    BY <2>2, <2>3, GoesEnd
<1>4. CASE HearsCustom
  <2> DEFINE s == Started(otel, "custom", otel.feature)
             o == [s EXCEPT !.steps = With(@, Custom, Len(s.spans))]
  <2>1. otel.feature # 0 /\ HearsEnd(o)
    BY <1>4 DEF HearsCustom
  <2>2. SpansOK(o) /\ o.feature = otel.feature /\ DOMAIN o.steps = DOMAIN otel.steps \cup {Custom} /\ Grows(otel, o) /\ (NoneLeft(otel) => NoneLeft(o))
    BY <1>1, <2>1, StartsCustom
  <2> HIDE DEF o
  <2> QED
    BY <2>1, <2>2, GoesEnd
<1> QED
  BY <1>2, <1>3, <1>4

LEMMA GoesFinalizer ==
  ASSUME ControlTypes, DataTypes, OpenInv, OtelInv, HearsFinalizer
  PROVE  Goes
<1> DEFINE id == <<FinalizerPath, finalizers.index>>
<1>1. PICK ok \in BOOLEAN : LET start == Event("start", id)
                                end == [kind |-> "end", id |-> id, ok |-> ok]
                            IN  Hear(otel, IF ok THEN <<start, end>> ELSE <<start, end, Log>>)
  BY DEF HearsFinalizer
<1>2. finalizers.index \in Nat
  BY FinTypes
<1>3. id \in Seq(Nat) /\ Len(id) = 2 /\ id # Custom /\ id[1] = FinalizerPath
  BY <1>2 DEF FinalizerPath, Custom
<1> HIDE DEF id
<1>4. /\ SpansOK(otel) /\ DOMAIN otel.steps \subseteq ToSet(open) \cup {Custom} /\ (~Has(Otel) => otel.feature = 0)
      /\ ~Before(Otel, Finalizer) => NoneLeft(otel)
  BY OtelIsNow
<1>5. /\ SpansOK(otel') /\ Grows(otel, otel') /\ DOMAIN otel'.steps \subseteq DOMAIN otel.steps
      /\ NoneLeft(otel) /\ id \notin DOMAIN otel.steps => NoneLeft(otel')
      /\ Hears(Otel) \/ otel' = otel
  BY <1>1, <1>3, <1>4, HeardFinalizer
<1>6. open' = open /\ FinalizerHook /\ UNCHANGED run /\ ~OtelEndsFeature
  <2>1. open' = open /\ FinalizerHook /\ UNCHANGED run
    BY DEF HearsFinalizer, FinalizerRuns, Stays, exec
  <2>2. Otel # Finalizer
    BY DEF Otel, Finalizer
  <2> QED
    BY <2>1, <2>2 DEF OtelEndsFeature, FinalizerHook, Hook
<1>7. open = <<>> /\ phase \in {"endFeature", "endExecution"}
  BY <1>6 DEF OpenInv, FinalizerHook, Hook
<1>8. id \notin DOMAIN otel.steps
  BY <1>3, <1>4, <1>7 DEF ToSet
<1>9. ~Before(Otel, Finalizer) /\ Has(Otel) => OtelWhere'
  <2> SUFFICES ASSUME ~Before(Otel, Finalizer), Has(Otel) PROVE OtelWhere'
    OBVIOUS
  <2>1. CASE phase = "endExecution"
    BY <1>6, <2>1 DEF OtelWhere, run
  <2>2. CASE phase = "endFeature"
    <3>1. at \in DOMAIN list /\ list[at] = Finalizer
      BY <1>6 DEF FinalizerHook, Hook
    <3>2. Otel # Finalizer /\ Len(list) \in Nat /\ DOMAIN list = 1..Len(list) /\ \E i \in DOMAIN list : list[i] = Otel
      BY Listed DEF Otel, Finalizer
    <3>3. PICK i \in DOMAIN list : list[i] = Otel
      BY <3>2
    <3>4. i >= at
      BY <3>1, <3>2, <3>3 DEF Before
    <3>5. Ahead(Otel)
      BY <3>3, <3>4 DEF Ahead
    <3>6. Ahead(Otel)' /\ phase' = phase
      BY <1>6, <3>5 DEF Ahead, run, list
    <3> QED
      BY <2>2, <3>6 DEF OtelWhere
  <2> QED
    BY <1>7, <2>1, <2>2
<1>10. Hears(Otel) => Has(Otel)
  BY DEF Hears, ControlTypes
<1> QED
  BY <1>4, <1>5, <1>6, <1>8, <1>9, <1>10 DEF Goes

LEMMA OtelStep ==
  ASSUME ControlTypes, DataTypes, OpenInv, SavingInv, OtelInv, MonitorsNext
  PROVE  OtelInv' /\ ParentsAreOpen
<1>1. Goes
  BY Hearings, GoesQuiet, GoesNone, GoesFeature, GoesStart, GoesEnds, GoesFinalizer
<1> QED
  BY <1>1, GoesStep
-----------------------------------------------------------------------------
(* The report reads back.                                                   *)

KeyNames == {"id", "kind", "level", "message", "stage", "in", "topics", "error", "path"}

LEMMA KeysAre ==
  /\ IsFiniteSet(KeyNames)
  /\ \A e \in EventType : Keys(e) \subseteq KeyNames /\ IsFiniteSet(Keys(e))
<1>1. IsFiniteSet({}) /\ \A S, x : IsFiniteSet(S) => IsFiniteSet(S \cup {x})
  BY FS_EmptySet, FS_AddElement
<1>2. IsFiniteSet(KeyNames)
  <2>1. IsFiniteSet((({} \cup {"id"}) \cup {"kind"}) \cup {"level"})
    BY <1>1
  <2>2. IsFiniteSet((((({} \cup {"id"}) \cup {"kind"}) \cup {"level"}) \cup {"message"}) \cup {"stage"})
    BY <1>1, <2>1
  <2>3. IsFiniteSet((((((({} \cup {"id"}) \cup {"kind"}) \cup {"level"}) \cup {"message"}) \cup {"stage"}) \cup {"in"}) \cup {"topics"})
    BY <1>1, <2>2
  <2>4. IsFiniteSet((((((((({} \cup {"id"}) \cup {"kind"}) \cup {"level"}) \cup {"message"}) \cup {"stage"}) \cup {"in"}) \cup {"topics"}) \cup {"error"}) \cup {"path"})
    BY <1>1, <2>3
  <2>5. (((((((({} \cup {"id"}) \cup {"kind"}) \cup {"level"}) \cup {"message"}) \cup {"stage"}) \cup {"in"}) \cup {"topics"}) \cup {"error"}) \cup {"path"} = KeyNames
    BY DEF KeyNames
  <2> QED
    BY <2>4, <2>5
<1>3. ASSUME NEW e \in EventType PROVE Keys(e) \subseteq KeyNames
  <2>1. e.kind \in {"log", "artifact", "feature", "execution", "start", "end"} /\ e.ok \in BOOLEAN
    BY DEF EventType
  <2> QED
    BY <2>1 DEF Keys, KeyNames
<1> QED
  BY <1>2, <1>3, FS_Subset

LEMMA Listing ==
  ASSUME NEW S, IsFiniteSet(S)
  PROVE  SetToSeq(S) \in Seq(S) /\ ToSet(SetToSeq(S)) = S
<1> DEFINE n == Cardinality(S)
<1>1. n \in Nat /\ ExistsBijection(1..n, S)
  BY FS_CardinalityType
<1>2. \E f \in [1..n -> S] : IsInjective(f)
  BY <1>1 DEF ExistsBijection, Bijection, Injection
<1>3. SetToSeq(S) \in [1..n -> S] /\ IsInjective(SetToSeq(S))
  BY <1>2 DEF SetToSeq
<1> DEFINE q == SetToSeq(S)
<1>4. q \in Injection(1..n, S)
  BY <1>3 DEF Injection
<1>5. IsFiniteSet(1..n) /\ Cardinality(1..n) = n
  BY <1>1, FS_Interval
<1> HIDE DEF q, n
<1>6. q \in Surjection(1..n, S)
  <2>1. Cardinality(S) = n
    BY DEF n
  <2> QED
    BY <1>4, <1>5, <2>1, FS_Injection
<1>7. q \in [1..n -> S] /\ \A x \in S : \E k \in 1..n : q[k] = x
  BY <1>6 DEF Surjection
<1>8. q \in Seq(S)
  BY <1>1, <1>7
<1>9. ToSet(q) = S
  BY <1>7 DEF ToSet
<1> QED
  BY <1>8, <1>9 DEF q

\* A line of the report, as it is written and read (the definitions within Serialized and Deserialized).
WrittenLine(acc, i) ==
  LET known == {n \in DOMAIN acc.schemas : SameKeys(acc.schemas[n], i)}
      new == [kind |-> emitted[i].kind, fields |-> SetToSeq(Keys(emitted[i]))]
      schemas == IF known = {} THEN Append(acc.schemas, new) ELSE acc.schemas
      n == IF known = {} THEN Len(schemas) ELSE CHOOSE m \in known : \A l \in known : m <= l
      keys == schemas[n].fields
      data == [k \in DOMAIN keys |-> IF keys[k] \in Keys(emitted[i]) THEN Fields(i)[keys[k]] ELSE <<>>]
  IN  [schemas |-> schemas,
       lines |-> acc.lines \o (IF known = {} THEN <<[schema |-> n, values |-> keys]>> ELSE <<>>)
                           \o <<[schema |-> -n, values |-> data]>>]

ReadLine(acc, line) ==
  IF line.schema > 0 THEN [acc EXCEPT !.schemas = Append(@, line.values)]
  ELSE LET keys == acc.schemas[-line.schema]
       IN  [acc EXCEPT !.events = Append(@, [k \in ToSet(keys) |->
              line.values[CHOOSE n \in DOMAIN keys : keys[n] = k]])]

KindNames == {"log", "artifact", "feature", "execution", "start", "end"}
SchemaType == [kind : KindNames, fields : Seq(KeyNames)]
Cells == KeyNames \cup {<<i, k>> : i \in DOMAIN emitted, k \in KeyNames} \cup {<<>>}
LineType == [schema : Int, values : Seq(Cells)]
WrittenType == [schemas : Seq(SchemaType), lines : Seq(LineType)]

Names(schemas) == [n \in DOMAIN schemas |-> schemas[n].fields]

\* What a line of values of event i holds, by the schema n.
DataOf(schemas, n, i) ==
  LET keys == schemas[n].fields IN [k \in DOMAIN keys |-> Fields(i)[keys[k]]]

\* An event is written with a schema of its keys, that was there or is new.
WritesEvent(a, b, i) ==
  \E n \in 1..Len(b.schemas) :
    /\ ToSet(b.schemas[n].fields) = Keys(emitted[i])
    /\ LET line == [schema |-> -n, values |-> DataOf(b.schemas, n, i)] IN
         \/ b.schemas = a.schemas /\ b.lines = Append(a.lines, line)
         \/ /\ n = Len(a.schemas) + 1 /\ \E s \in SchemaType : b.schemas = Append(a.schemas, s)
            /\ b.lines = Append(Append(a.lines, [schema |-> n, values |-> b.schemas[n].fields]), line)

LEMMA LineIsWritten ==
  ASSUME emitted \in Seq(EventType), NEW a \in WrittenType, NEW i \in DOMAIN emitted
  PROVE  WrittenLine(a, i) \in WrittenType /\ WritesEvent(a, WrittenLine(a, i), i)
<1> DEFINE known == {n \in DOMAIN a.schemas : SameKeys(a.schemas[n], i)}
           new == [kind |-> emitted[i].kind, fields |-> SetToSeq(Keys(emitted[i]))]
           schemas == IF known = {} THEN Append(a.schemas, new) ELSE a.schemas
           n == IF known = {} THEN Len(schemas) ELSE CHOOSE m \in known : \A l \in known : m <= l
           keys == schemas[n].fields
           data == [k \in DOMAIN keys |-> IF keys[k] \in Keys(emitted[i]) THEN Fields(i)[keys[k]] ELSE <<>>]
           line == [schema |-> -n, values |-> data]
           head == [schema |-> n, values |-> keys]
           lines == a.lines \o (IF known = {} THEN <<head>> ELSE <<>>) \o <<line>>
           b == WrittenLine(a, i)
<1>0. b = [schemas |-> schemas, lines |-> lines]
  BY DEF WrittenLine
<1>1. emitted[i] \in EventType /\ emitted[i].kind \in KindNames
  <2>1. emitted[i] \in EventType
    OBVIOUS
  <2> QED
    BY <2>1 DEF EventType, KindNames
<1>2. Keys(emitted[i]) \subseteq KeyNames /\ IsFiniteSet(Keys(emitted[i]))
  BY <1>1, KeysAre
<1>3. SetToSeq(Keys(emitted[i])) \in Seq(Keys(emitted[i])) /\ ToSet(SetToSeq(Keys(emitted[i]))) = Keys(emitted[i])
  BY <1>2, Listing
<1>4. a.schemas \in Seq(SchemaType) /\ a.lines \in Seq(LineType) /\ Len(a.schemas) \in Nat /\ DOMAIN a.schemas = 1..Len(a.schemas)
  <2>1. a.schemas \in Seq(SchemaType) /\ a.lines \in Seq(LineType)
    BY DEF WrittenType
  <2> QED
    BY <2>1, SequenceIs
<1>5. new \in SchemaType /\ ToSet(new.fields) = Keys(emitted[i])
  <2>1. SetToSeq(Keys(emitted[i])) \in Seq(KeyNames)
    BY <1>2, <1>3
  <2> QED
    BY <1>1, <1>3, <2>1 DEF SchemaType
<1> HIDE DEF new, b
<1>6. /\ schemas \in Seq(SchemaType) /\ n \in 1..Len(schemas) /\ n \in Nat /\ Len(schemas) \in Nat /\ DOMAIN schemas = 1..Len(schemas)
      /\ ToSet(schemas[n].fields) = Keys(emitted[i])
      /\ known # {} => schemas = a.schemas
      /\ known = {} => schemas = Append(a.schemas, new) /\ n = Len(a.schemas) + 1
  <2>1. CASE known = {}
    <3>1. schemas = Append(a.schemas, new) /\ n = Len(schemas)
      BY <2>1
    <3> HIDE DEF known, schemas, n
    <3>2. /\ Append(a.schemas, new) \in Seq(SchemaType) /\ Len(Append(a.schemas, new)) = Len(a.schemas) + 1
          /\ DOMAIN Append(a.schemas, new) = 1..Len(a.schemas) + 1 /\ Append(a.schemas, new)[Len(a.schemas) + 1] = new
      BY <1>4, <1>5, Appended
    <3>3. schemas \in Seq(SchemaType) /\ Len(schemas) = Len(a.schemas) + 1 /\ n = Len(a.schemas) + 1 /\ schemas[n] = new
          /\ DOMAIN schemas = 1..Len(schemas)
      BY <3>1, <3>2
    <3>4. n \in 1..Len(schemas) /\ n \in Nat /\ Len(schemas) \in Nat
      BY <1>4, <3>3
    <3> QED
      BY <1>5, <2>1, <3>1, <3>3, <3>4
  <2>2. CASE known # {}
    <3>1. schemas = a.schemas /\ n = CHOOSE m \in known : \A l \in known : m <= l
      BY <2>2
    <3>2. known \in SUBSET Nat
      BY <1>4
    <3>3. \A m \in known : m \in DOMAIN a.schemas /\ ToSet(a.schemas[m].fields) = Keys(emitted[i])
      BY DEF SameKeys
    <3> HIDE DEF known, schemas, n
    <3>4. n \in known
      <4>1. \E m \in known : \A l \in known : m <= l
        BY <2>2, <3>2, LeastExists
      <4> QED
        BY <3>1, <4>1
    <3>5. n \in DOMAIN schemas /\ n \in Nat /\ ToSet(schemas[n].fields) = Keys(emitted[i])
      BY <3>1, <3>2, <3>3, <3>4, Zenon
    <3> QED
      BY <1>4, <2>2, <3>1, <3>5
  <2> QED
    BY <2>1, <2>2
<1>7. schemas[n] \in SchemaType /\ keys \in Seq(KeyNames) /\ ToSet(keys) = Keys(emitted[i])
  <2> HIDE DEF known, schemas, n
  <2>1. schemas[n] \in SchemaType
    <3>1. schemas \in Seq(SchemaType) /\ n \in 1..Len(schemas)
      BY <1>6, Zenon
    <3> QED
      BY <3>1, SequenceIs, Zenon
  <2> QED
    BY <1>6, <2>1, Zenon DEF SchemaType
<1> HIDE DEF known, schemas, n
<1>8. Len(keys) \in Nat /\ DOMAIN keys = 1..Len(keys) /\ \A k \in 1..Len(keys) : keys[k] \in KeyNames /\ keys[k] \in Keys(emitted[i])
  <2>1. Len(keys) \in Nat /\ DOMAIN keys = 1..Len(keys) /\ \A k \in 1..Len(keys) : keys[k] \in KeyNames
    BY <1>7, SequenceIs
  <2>2. \A k \in DOMAIN keys : keys[k] \in ToSet(keys)
    BY DEF ToSet
  <2> QED
    BY <1>7, <2>1, <2>2
<1>9. data = DataOf(schemas, n, i)
  BY <1>8 DEF DataOf
<1>10. \A k \in DOMAIN keys : Fields(i)[keys[k]] = <<i, keys[k]>>
  BY <1>8 DEF Fields
<1>11. data \in Seq(Cells) /\ keys \in Seq(Cells)
  <2>1. \A k \in 1..Len(keys) : <<i, keys[k]>> \in Cells /\ keys[k] \in Cells
    BY <1>8 DEF Cells
  <2>2. data = [k \in 1..Len(keys) |-> <<i, keys[k]>>]
    BY <1>8, <1>10
  <2> HIDE DEF keys, data
  <2>4. data \in Seq(Cells)
    BY <1>8, <2>1, <2>2
  <2>5. keys \in Seq(Cells)
    <3>1. KeyNames \subseteq Cells
      BY DEF Cells
    <3> QED
      BY <1>7, <3>1
  <2> QED
    BY <2>4, <2>5
<1>12. line \in LineType /\ head \in LineType
  <2> HIDE DEF keys, data
  <2>1. -n \in Int /\ n \in Int
    <3>1. n \in Nat
      BY <1>6, Zenon
    <3> QED
      BY <3>1
  <2> QED
    BY <1>11, <2>1 DEF LineType
<1> HIDE DEF line, head
<1>13. lines = IF known = {} THEN Append(Append(a.lines, head), line) ELSE Append(a.lines, line)
  <2>1. a.lines \o <<head>> = Append(a.lines, head) /\ a.lines \o <<>> = a.lines /\ Append(a.lines, head) \in Seq(LineType)
    BY <1>4, <1>12, AppendIsConcat
  <2>2. Append(a.lines, head) \o <<line>> = Append(Append(a.lines, head), line) /\ a.lines \o <<line>> = Append(a.lines, line)
    BY <1>4, <1>12, <2>1, AppendIsConcat
  <2> QED
    BY <2>1, <2>2
<1>14. lines \in Seq(LineType)
  <2> HIDE DEF lines
  <2>1. a.lines \in Seq(LineType)
    BY <1>4, Zenon
  <2>2. Append(a.lines, head) \in Seq(LineType) /\ Append(a.lines, line) \in Seq(LineType)
    BY <1>12, <2>1, Appended, Zenon
  <2>3. Append(Append(a.lines, head), line) \in Seq(LineType)
    BY <1>12, <2>2, Appended, Zenon
  <2> QED
    BY <1>13, <2>2, <2>3, Zenon
<1> HIDE DEF lines
<1>15. b \in WrittenType /\ b.schemas = schemas /\ b.lines = lines
  BY <1>0, <1>6, <1>14, Zenon DEF WrittenType
<1>16. line = [schema |-> -n, values |-> DataOf(b.schemas, n, i)] /\ head = [schema |-> n, values |-> b.schemas[n].fields]
  BY <1>9, <1>15 DEF line, head
<1>17. WritesEvent(a, b, i)
  <2>1. n \in 1..Len(b.schemas) /\ ToSet(b.schemas[n].fields) = Keys(emitted[i])
    BY <1>6, <1>15, Zenon
  <2>2. CASE known = {}
    <3>1. n = Len(a.schemas) + 1 /\ b.schemas = Append(a.schemas, new) /\ b.lines = Append(Append(a.lines, head), line)
      BY <1>6, <1>13, <1>15, <2>2
    <3> QED
      BY <1>5, <1>16, <2>1, <3>1 DEF WritesEvent
  <2>3. CASE known # {}
    <3>1. b.schemas = a.schemas /\ b.lines = Append(a.lines, line)
      BY <1>6, <1>13, <1>15, <2>3, Zenon
    <3> QED
      BY <1>16, <2>1, <3>1, Zenon DEF WritesEvent
  <2> QED
    BY <2>2, <2>3, Zenon
<1> QED
  BY <1>15, <1>17 DEF b

Rows == {Fields(i) : i \in DOMAIN emitted}
ReadType == [schemas : Seq(Seq(KeyNames)), events : Seq(Rows)]

\* What is read of lines that hold the schemas, and the events.
ReadOf(w, events) == [schemas |-> Names(w.schemas), events |-> events]

LEMMA NamesAre ==
  ASSUME NEW ss \in Seq(SchemaType)
  PROVE  /\ Names(ss) \in Seq(Seq(KeyNames)) /\ Len(Names(ss)) = Len(ss) /\ \A n \in 1..Len(ss) : Names(ss)[n] = ss[n].fields
         /\ \A s \in SchemaType : Append(Names(ss), s.fields) = Names(Append(ss, s))
<1>1. Len(ss) \in Nat /\ DOMAIN ss = 1..Len(ss) /\ \A n \in 1..Len(ss) : ss[n] \in SchemaType
  BY SequenceIs
<1>2. \A s \in SchemaType : s.fields \in Seq(KeyNames)
  BY DEF SchemaType
<1>3. Names(ss) = [n \in 1..Len(ss) |-> ss[n].fields]
  BY <1>1 DEF Names
<1>4. Names(ss) \in Seq(Seq(KeyNames)) /\ Len(Names(ss)) = Len(ss) /\ \A n \in 1..Len(ss) : Names(ss)[n] = ss[n].fields
  <2>1. \A n \in 1..Len(ss) : ss[n].fields \in Seq(KeyNames)
    BY <1>1, <1>2
  <2> DEFINE f == [n \in 1..Len(ss) |-> ss[n].fields]
  <2>2. f \in [1..Len(ss) -> Seq(KeyNames)] /\ \A n \in 1..Len(ss) : f[n] = ss[n].fields
    BY <2>1
  <2> HIDE DEF f
  <2>3. f \in Seq(Seq(KeyNames)) /\ Len(f) = Len(ss)
    BY <1>1, <2>2
  <2> QED
    BY <1>3, <2>2, <2>3 DEF f
<1>5. ASSUME NEW s \in SchemaType PROVE Append(Names(ss), s.fields) = Names(Append(ss, s))
  <2> DEFINE b == Append(ss, s)
  <2>1. Len(b) = Len(ss) + 1 /\ DOMAIN b = 1..Len(ss) + 1 /\ b[Len(ss) + 1] = s /\ \A n \in 1..Len(ss) : b[n] = ss[n]
    BY Appended
  <2> HIDE DEF b
  <2>2. Names(b) = [n \in 1..Len(ss) + 1 |-> b[n].fields]
    BY <2>1 DEF Names
  <2>3. /\ Append(Names(ss), s.fields) \in Seq(Seq(KeyNames)) /\ DOMAIN Append(Names(ss), s.fields) = 1..Len(ss) + 1
        /\ Append(Names(ss), s.fields)[Len(ss) + 1] = s.fields
        /\ \A n \in 1..Len(ss) : Append(Names(ss), s.fields)[n] = Names(ss)[n]
    BY <1>2, <1>4, Appended
  <2> DEFINE c == Append(Names(ss), s.fields)
  <2>4. \A n \in 1..Len(ss) + 1 : c[n] = b[n].fields
    <3> SUFFICES ASSUME NEW n \in 1..Len(ss) + 1 PROVE c[n] = b[n].fields
      OBVIOUS
    <3>1. CASE n = Len(ss) + 1
      BY <2>1, <2>3, <3>1
    <3>2. CASE n # Len(ss) + 1
      <4>1. n \in 1..Len(ss)
        <5>1. Len(ss) \in Nat
          BY <1>1
        <5> QED
          BY <3>2, <5>1
      <4> QED
        BY <1>4, <2>1, <2>3, <4>1
    <3> QED
      BY <3>1, <3>2
  <2>5. c = [n \in DOMAIN c |-> c[n]]
    BY <2>3
  <2> HIDE DEF c
  <2>6. DOMAIN c = 1..Len(ss) + 1
    BY <2>3 DEF c
  <2>7. c = Names(b)
    BY <2>2, <2>4, <2>5, <2>6
  <2> QED
    BY <2>7 DEF b, c
<1> QED
  BY <1>4, <1>5

\* The lines of a report after those that told the state r are read, one or two, and tell q.
ReadOn(r, q, before, lines) ==
  \/ \E x \in LineType : lines = Append(before, x) /\ ReadLine(r, x) = q
  \/ \E h, x \in LineType : \E c \in ReadType :
       lines = Append(Append(before, h), x) /\ ReadLine(r, h) = c /\ ReadLine(c, x) = q

LEMMA EventIsRead ==
  ASSUME emitted \in Seq(EventType), NEW a \in WrittenType, NEW b \in WrittenType, NEW i \in DOMAIN emitted, WritesEvent(a, b, i),
         NEW es \in Seq(Rows)
  PROVE  /\ ReadOf(a, es) \in ReadType /\ ReadOf(b, Append(es, Fields(i))) \in ReadType
         /\ ReadOn(ReadOf(a, es), ReadOf(b, Append(es, Fields(i))), a.lines, b.lines)
<1> DEFINE r == ReadOf(a, es)
           q == ReadOf(b, Append(es, Fields(i)))
           c == ReadOf(b, es)
<1>1. PICK n \in 1..Len(b.schemas) :
        /\ ToSet(b.schemas[n].fields) = Keys(emitted[i])
        /\ LET line == [schema |-> -n, values |-> DataOf(b.schemas, n, i)] IN
             \/ b.schemas = a.schemas /\ b.lines = Append(a.lines, line)
             \/ /\ n = Len(a.schemas) + 1 /\ \E s \in SchemaType : b.schemas = Append(a.schemas, s)
                /\ b.lines = Append(Append(a.lines, [schema |-> n, values |-> b.schemas[n].fields]), line)
  BY DEF WritesEvent
<1> DEFINE keys == b.schemas[n].fields
           data == DataOf(b.schemas, n, i)
           line == [schema |-> -n, values |-> data]
           head == [schema |-> n, values |-> keys]
<1>2. a.schemas \in Seq(SchemaType) /\ b.schemas \in Seq(SchemaType) /\ a.lines \in Seq(LineType) /\ b.lines \in Seq(LineType)
  BY DEF WrittenType
<1>3. Len(a.schemas) \in Nat /\ Len(b.schemas) \in Nat /\ n \in Nat /\ n # 0
  <2>1. Len(a.schemas) \in Nat /\ Len(b.schemas) \in Nat
    BY <1>2, SequenceIs
  <2> QED
    BY <2>1
<1>4. Fields(i) \in Rows /\ Append(es, Fields(i)) \in Seq(Rows)
  <2>1. Fields(i) \in Rows
    BY DEF Rows
  <2> QED
    BY <2>1
<1>5. r \in ReadType /\ q \in ReadType /\ c \in ReadType
  <2>1. Names(a.schemas) \in Seq(Seq(KeyNames)) /\ Names(b.schemas) \in Seq(Seq(KeyNames))
    BY <1>2, NamesAre
  <2> QED
    BY <1>4, <2>1 DEF ReadType, ReadOf
<1>6. b.schemas[n] \in SchemaType /\ keys \in Seq(KeyNames) /\ DOMAIN keys = 1..Len(keys) /\ Len(keys) \in Nat /\ ToSet(keys) = Keys(emitted[i])
  <2>1. b.schemas[n] \in SchemaType
    BY <1>2, SequenceIs
  <2>2. keys \in Seq(KeyNames)
    BY <2>1 DEF SchemaType
  <2> HIDE DEF keys
  <2>3. DOMAIN keys = 1..Len(keys) /\ Len(keys) \in Nat
    BY <2>2, SequenceIs
  <2> QED
    BY <1>1, <2>1, <2>2, <2>3 DEF keys
<1>7. Names(b.schemas)[n] = keys
  BY <1>2, NamesAre
<1>8. ReadLine(c, line) = q
  <2>1. line.schema = -n /\ line.values = data /\ ~(-n > 0) /\ -(-n) = n
    <3>1. ~(-n > 0) /\ -(-n) = n
      BY <1>3
    <3>2. line.schema = -n /\ line.values = data
      OBVIOUS
    <3> QED
      BY <3>1, <3>2
  <2>2. c.schemas = Names(b.schemas) /\ c.events = es
    BY DEF ReadOf
  <2> DEFINE row == [k \in ToSet(keys) |-> data[CHOOSE m \in DOMAIN keys : keys[m] = k]]
  <2>3. row = Fields(i)
    <3>1. ToSet(keys) = {keys[m] : m \in DOMAIN keys}
      BY DEF ToSet
    <3>2. data = [m \in DOMAIN keys |-> Fields(i)[keys[m]]]
      BY DEF DataOf
    <3>3. Fields(i) = [k \in Keys(emitted[i]) |-> <<i, k>>]
      BY DEF Fields
    <3> HIDE DEF data, keys
    <3>4. ASSUME NEW k \in ToSet(keys) PROVE data[CHOOSE m \in DOMAIN keys : keys[m] = k] = Fields(i)[k]
      <4> DEFINE m == CHOOSE m \in DOMAIN keys : keys[m] = k
      <4>1. m \in DOMAIN keys /\ keys[m] = k
        BY <3>1
      <4> HIDE DEF m
      <4>2. data[m] = Fields(i)[k]
        BY <3>2, <4>1
      <4> QED
        BY <4>2 DEF m
    <3>5. Fields(i) = [k \in ToSet(keys) |-> Fields(i)[k]]
      <4>1. DOMAIN Fields(i) = ToSet(keys)
        BY <1>6, <3>3
      <4> QED
        BY <3>3, <4>1
    <3> QED
      BY <3>4, <3>5
  <2> HIDE DEF line, data
  <2>4. c.schemas[-line.schema] = keys
    BY <1>7, <2>1, <2>2
  <2> HIDE DEF keys
  <2>5. ReadLine(c, line) = [c EXCEPT !.events = Append(c.events, row)]
    <3>1. ~(line.schema > 0)
      BY <2>1
    <3>2. ReadLine(c, line) =
            LET ks == c.schemas[-line.schema]
            IN  [c EXCEPT !.events = Append(@, [k \in ToSet(ks) |-> line.values[CHOOSE m \in DOMAIN ks : ks[m] = k]])]
      BY <3>1 DEF ReadLine
    <3> QED
      BY <2>1, <2>4, <3>2
  <2> HIDE DEF row
  <2>6. ReadLine(c, line) = [c EXCEPT !.events = Append(es, Fields(i))]
    BY <2>2, <2>3, <2>5
  <2> QED
    BY <2>6 DEF ReadOf
<1>9. line \in LineType /\ head \in LineType
  <2>1. \A k \in DOMAIN keys : keys[k] \in Keys(emitted[i]) /\ keys[k] \in KeyNames
    <3>1. \A k \in DOMAIN keys : keys[k] \in ToSet(keys)
      BY DEF ToSet
    <3>2. \A k \in 1..Len(keys) : keys[k] \in KeyNames
      BY <1>6, SequenceIs
    <3> QED
      BY <1>6, <3>1, <3>2
  <2>2. data = [k \in 1..Len(keys) |-> Fields(i)[keys[k]]]
    BY <1>6 DEF DataOf
  <2>3. \A k \in 1..Len(keys) : Fields(i)[keys[k]] \in Cells
    <3>1. \A k \in DOMAIN keys : Fields(i)[keys[k]] = <<i, keys[k]>>
      BY <2>1 DEF Fields
    <3>2. \A k \in DOMAIN keys : <<i, keys[k]>> \in Cells
      BY <2>1 DEF Cells
    <3> QED
      BY <1>6, <3>1, <3>2
  <2> HIDE DEF data
  <2>4. data \in Seq(Cells)
    BY <1>6, <2>2, <2>3
  <2>5. keys \in Seq(Cells)
    <3>1. KeyNames \subseteq Cells
      BY DEF Cells
    <3> HIDE DEF keys
    <3> QED
      BY <1>6, <3>1
  <2>6. -n \in Int /\ n \in Int
    BY <1>3
  <2> HIDE DEF keys
  <2> QED
    BY <2>4, <2>5, <2>6 DEF LineType
<1>10. CASE b.schemas = a.schemas /\ b.lines = Append(a.lines, line)
  <2>1. r = c
    BY <1>10 DEF ReadOf
  <2> HIDE DEF line, r, q, c
  <2>2. ReadLine(r, line) = q
    BY <1>8, <2>1
  <2> QED
    BY <1>5, <1>9, <1>10, <2>2 DEF ReadOn, r, q
<1>11. CASE /\ n = Len(a.schemas) + 1 /\ \E s \in SchemaType : b.schemas = Append(a.schemas, s)
            /\ b.lines = Append(Append(a.lines, head), line)
  <2>1. PICK s \in SchemaType : b.schemas = Append(a.schemas, s)
    BY <1>11
  <2>2. keys = s.fields
    <3>1. Append(a.schemas, s)[Len(a.schemas) + 1] = s
      BY <1>2, Appended
    <3> QED
      BY <1>11, <2>1, <3>1
  <2>3. Append(Names(a.schemas), keys) = Names(b.schemas)
    BY <1>2, <2>1, <2>2, NamesAre
  <2>4. head.schema = n /\ head.values = keys /\ n > 0
    <3>1. n > 0
      BY <1>3
    <3> QED
      BY <3>1
  <2>5. r.schemas = Names(a.schemas) /\ r.events = es
    BY DEF ReadOf
  <2> HIDE DEF head, keys
  <2>6. ReadLine(r, head) = [r EXCEPT !.schemas = Names(b.schemas)]
    <3>1. ReadLine(r, head) = [r EXCEPT !.schemas = Append(r.schemas, head.values)]
      BY <2>4 DEF ReadLine
    <3> QED
      BY <2>3, <2>4, <2>5, <3>1
  <2>7. ReadLine(r, head) = c
    BY <2>6 DEF ReadOf
  <2> HIDE DEF line, r, q, c
  <2> QED
    BY <1>5, <1>8, <1>9, <1>11, <2>7 DEF ReadOn, r, q
<1> QED
  BY <1>1, <1>10, <1>11

\* Something is read of lines, one after another.
NothingRead == [schemas |-> <<>>, events |-> <<>>]
Reads(lines, x) ==
  \E f \in [0..Len(lines) -> ReadType] :
    f[0] = NothingRead /\ f[Len(lines)] = x /\ \A l \in 1..Len(lines) : f[l] = ReadLine(f[l - 1], lines[l])

LEMMA ReadsOneMore ==
  ASSUME NEW lines \in Seq(LineType), NEW x, Reads(lines, x), NEW line \in LineType, NEW y \in ReadType, ReadLine(x, line) = y
  PROVE  Reads(Append(lines, line), y)
<1> DEFINE n == Len(lines)
           more == Append(lines, line)
<1>1. PICK f \in [0..n -> ReadType] : f[0] = NothingRead /\ f[n] = x /\ \A l \in 1..n : f[l] = ReadLine(f[l - 1], lines[l])
  BY DEF Reads
<1>2. n \in Nat
  BY SequenceIs
<1>3. Len(more) = n + 1 /\ more[n + 1] = line /\ \A l \in 1..n : more[l] = lines[l]
  BY Appended
<1> HIDE DEF n, more
<1> DEFINE h == [l \in 0..n + 1 |-> IF l = n + 1 THEN y ELSE f[l]]
<1>4. \A l \in 0..n + 1 : l # n + 1 => l \in 0..n
  BY <1>2
<1>5. h \in [0..n + 1 -> ReadType]
  BY <1>1, <1>4
<1>6. n + 1 \in 0..n + 1 /\ \A l \in 0..n : l \in 0..n + 1 /\ l # n + 1
  BY <1>2
<1>7. h[n + 1] = y /\ \A l \in 0..n : h[l] = f[l]
  BY <1>6
<1> HIDE DEF h
<1>8. 0 \in 0..n /\ n \in 0..n /\ \A l \in 1..n : l \in 0..n /\ l - 1 \in 0..n
  BY <1>2
<1>9. h[0] = NothingRead
  BY <1>1, <1>7, <1>8
<1>10. ASSUME NEW l \in 1..n + 1 PROVE h[l] = ReadLine(h[l - 1], more[l])
  <2>1. CASE l = n + 1
    <3>1. l - 1 = n
      BY <1>2, <2>1
    <3>2. h[l - 1] = x
      BY <1>1, <1>7, <1>8, <3>1
    <3> QED
      BY <1>3, <1>7, <2>1, <3>2
  <2>2. CASE l # n + 1
    <3>1. l \in 1..n
      BY <1>2, <2>2
    <3>2. h[l] = f[l] /\ h[l - 1] = f[l - 1]
      BY <1>7, <1>8, <3>1
    <3> QED
      BY <1>1, <1>3, <3>1, <3>2
  <2> QED
    BY <2>1, <2>2
<1> QED
  BY <1>3, <1>5, <1>7, <1>9, <1>10 DEF Reads, more

LEMMA DeserializedIs ==
  ASSUME NEW lines \in Seq(LineType), NEW x, Reads(lines, x)
  PROVE  Deserialized(lines) = x.events
<1> DEFINE n == Len(lines)
           read[k \in 0..n] == IF k = 0 THEN NothingRead ELSE ReadLine(read[k - 1], lines[k])
<1>1. PICK f \in [0..n -> ReadType] : f[0] = NothingRead /\ f[n] = x /\ \A l \in 1..n : f[l] = ReadLine(f[l - 1], lines[l])
  BY DEF Reads
<1>2. n \in Nat
  BY SequenceIs
<1>3. Deserialized(lines) = read[n].events
  BY DEF Deserialized, ReadLine, NothingRead
<1> HIDE DEF n
<1>4. \A k \in 0..n : k # 0 => k \in 1..n
  BY <1>2
<1>5. f = [k \in 0..n |-> IF k = 0 THEN NothingRead ELSE ReadLine(f[k - 1], lines[k])]
  BY <1>1, <1>4
<1>6. read = [k \in 0..n |-> IF k = 0 THEN NothingRead ELSE ReadLine(read[k - 1], lines[k])]
  BY <1>5
<1> HIDE DEF read
<1>7. 0 \in 0..n /\ n \in 0..n /\ \A k \in 1..n : k \in 0..n /\ k # 0
  BY <1>2
<1>8. read[0] = NothingRead /\ \A k \in 1..n : read[k] = ReadLine(read[k - 1], lines[k])
  BY <1>6, <1>7
<1> DEFINE T == {k \in 0..n : read[k] = f[k]}
<1>9. 0 \in T /\ \A k \in 1..n : k - 1 \in T => k \in T
  <2>1. 0 \in T
    BY <1>1, <1>7, <1>8
  <2>2. \A k \in 1..n : k - 1 \in T => k \in T
    BY <1>1, <1>7, <1>8
  <2> QED
    BY <2>1, <2>2
<1> HIDE DEF T
<1>10. n \in T
  BY <1>2, <1>7, <1>9, UpTo
<1> QED
  BY <1>1, <1>3, <1>10 DEF T

NothingWritten == [schemas |-> <<>>, lines |-> <<>>]

LEMMA SerializedIs ==
  ASSUME emitted \in Seq(EventType), NEW r \in Seq(DOMAIN emitted)
  PROVE  \E w : /\ w[0] = NothingWritten /\ \A k \in 1..Len(r) : WritesEvent(w[k - 1], w[k], r[k])
                /\ \A k \in 0..Len(r) : w[k] \in WrittenType
                /\ Serialized(r) = w[Len(r)].lines
<1> DEFINE S == WrittenType
           n == Len(r)
           g == [k \in 1..n |-> [s \in S |-> WrittenLine(s, r[k])]]
           written[k \in 0..n] == IF k = 0 THEN NothingWritten ELSE WrittenLine(written[k - 1], r[k])
<1>1. n \in Nat /\ \A k \in 1..n : r[k] \in DOMAIN emitted
  BY SequenceIs
<1>2. \A k \in 1..n, s \in S : WrittenLine(s, r[k]) \in S /\ WritesEvent(s, WrittenLine(s, r[k]), r[k])
  BY <1>1, LineIsWritten
<1>3. g \in Steps(n, S)
  BY <1>2 DEF Steps
<1>4. \A s \in S, k \in 1..n : g[k][s] = WrittenLine(s, r[k])
  OBVIOUS
<1>5. Serialized(r) = written[n].lines
  BY DEF Serialized, WrittenLine, NothingWritten
<1>6. NothingWritten \in S
  BY DEF NothingWritten, WrittenType
<1> HIDE DEF g, n, S
<1>7. PICK f : f \in MadeBy(n, S, NothingWritten, g)
  BY <1>1, <1>3, <1>6, Recursion
<1>8. f \in [0..n -> S] /\ f[0] = NothingWritten /\ \A k \in 1..n : f[k] = g[k][f[k - 1]]
  BY <1>7 DEF MadeBy
<1>9. ASSUME NEW k \in 1..n PROVE f[k] = WrittenLine(f[k - 1], r[k])
  <2>1. f[k - 1] \in S
    BY <1>1, <1>8
  <2> QED
    BY <1>4, <1>8, <2>1
<1>10. f = [k \in 0..n |-> IF k = 0 THEN NothingWritten ELSE WrittenLine(f[k - 1], r[k])]
  <2>1. ASSUME NEW k \in 0..n
        PROVE  f[k] = IF k = 0 THEN NothingWritten ELSE WrittenLine(f[k - 1], r[k])
    <3>1. CASE k = 0
      BY <1>8, <3>1
    <3>2. CASE k # 0
      <4>1. k \in 1..n
        BY <1>1, <3>2
      <4> QED
        BY <1>9, <3>2, <4>1
    <3> QED
      BY <3>1, <3>2
  <2>2. f = [k \in 0..n |-> f[k]]
    BY <1>8
  <2> HIDE DEF S
  <2> QED
    BY <2>1, <2>2, Zenon
<1>11. written = [k \in 0..n |-> IF k = 0 THEN NothingWritten ELSE WrittenLine(written[k - 1], r[k])]
  BY <1>10
<1> HIDE DEF written
<1>12. 0 \in 0..n /\ \A k \in 1..n : k \in 0..n /\ k - 1 \in 0..n /\ k # 0
  BY <1>1
<1>13. written[0] = NothingWritten /\ \A k \in 1..n : written[k] = WrittenLine(written[k - 1], r[k])
  BY <1>11, <1>12
<1> DEFINE T == {k \in 0..n : written[k] \in S}
<1>14. 0 \in T /\ \A k \in 1..n : k - 1 \in T => k \in T
  <2>1. 0 \in T
    BY <1>6, <1>12, <1>13
  <2>2. ASSUME NEW k \in 1..n, k - 1 \in T PROVE k \in T
    <3>1. WrittenLine(written[k - 1], r[k]) \in S
      BY <1>2, <2>2
    <3> QED
      BY <1>12, <1>13, <3>1
  <2> QED
    BY <2>1, <2>2
<1> HIDE DEF T
<1>15. \A k \in 0..n : k \in T
  BY <1>1, <1>14, UpTo
<1>16. \A k \in 0..n : written[k] \in S
  BY <1>15 DEF T
<1>17. ASSUME NEW k \in 1..n PROVE WritesEvent(written[k - 1], written[k], r[k])
  <2>1. written[k - 1] \in S
    BY <1>12, <1>16
  <2> QED
    BY <1>2, <1>13, <2>1
<1> QED
  BY <1>5, <1>13, <1>16, <1>17 DEF n, S

LEMMA EventsRead ==
  ASSUME emitted \in Seq(EventType), NEW r \in Seq(DOMAIN emitted)
  PROVE  Deserialized(Serialized(r)) = [k \in DOMAIN r |-> Fields(r[k])]
<1> DEFINE n == Len(r)
           told(k) == [l \in 1..k |-> Fields(r[l])]
<1>1. n \in Nat /\ DOMAIN r = 1..n /\ \A k \in 1..n : r[k] \in DOMAIN emitted
  BY SequenceIs
<1>2. PICK w : /\ w[0] = NothingWritten /\ \A k \in 1..n : WritesEvent(w[k - 1], w[k], r[k])
               /\ \A k \in 0..n : w[k] \in WrittenType
               /\ Serialized(r) = w[n].lines
  BY SerializedIs
<1>3. \A k \in 0..n : w[k].lines \in Seq(LineType)
  BY <1>2 DEF WrittenType
<1>4. \A k \in 1..n : Fields(r[k]) \in Rows
  BY <1>1 DEF Rows
<1>5. ASSUME NEW k \in 0..n PROVE told(k) \in Seq(Rows) /\ Len(told(k)) = k
  <2>1. k \in Nat /\ \A l \in 1..k : Fields(r[l]) \in Rows
    <3>1. \A l \in 1..k : l \in 1..n
      BY <1>1
    <3> QED
      BY <1>1, <1>4, <3>1
  <2>2. told(k) \in [1..k -> Rows]
    BY <2>1
  <2> QED
    BY <2>1, <2>2
<1>6. ASSUME NEW k \in 1..n PROVE told(k) = Append(told(k - 1), Fields(r[k]))
  <2>1. k - 1 \in 0..n /\ k \in Nat
    BY <1>1
  <2> DEFINE a == told(k - 1)
             b == Append(a, Fields(r[k]))
  <2>2. a \in Seq(Rows) /\ Len(a) = k - 1 /\ \A l \in 1..k - 1 : a[l] = Fields(r[l])
    BY <1>5, <2>1
  <2> HIDE DEF a
  <2>3. (k - 1) + 1 = k
    BY <2>1
  <2>4. DOMAIN b = 1..k /\ b[k] = Fields(r[k]) /\ \A l \in 1..k - 1 : b[l] = a[l]
    BY <1>4, <2>2, <2>3, Appended
  <2>5. b \in Seq(Rows)
    BY <1>4, <2>2
  <2> HIDE DEF b
  <2>6. b = [l \in 1..k |-> b[l]]
    BY <2>4, <2>5
  <2>7. ASSUME NEW l \in 1..k PROVE b[l] = Fields(r[l])
    <3>1. CASE l = k
      BY <2>4, <3>1
    <3>2. CASE l # k
      <4>1. l \in 1..k - 1
        BY <2>1, <3>2
      <4> QED
        BY <2>2, <2>4, <4>1
    <3> QED
      BY <3>1, <3>2
  <2>8. told(k) = b
    BY <2>6, <2>7
  <2> QED
    BY <2>8 DEF a, b
<1> HIDE DEF n, told
<1> DEFINE x(k) == ReadOf(w[k], told(k))
           T == {k \in 0..n : Reads(w[k].lines, x(k))}
<1>7. 0 \in 0..n /\ n \in 0..n /\ \A k \in 1..n : k \in 0..n /\ k - 1 \in 0..n
  BY <1>1
<1>8. 0 \in T
  <2>1. told(0) = <<>>
    <3>1. told(0) \in Seq(Rows) /\ Len(told(0)) = 0
      BY <1>5, <1>7
    <3> QED
      BY <3>1
  <2>2. w[0].schemas = <<>> /\ w[0].lines = <<>>
    BY <1>2 DEF NothingWritten
  <2>3. Names(<<>>) = <<>>
    BY DEF Names
  <2>4. x(0) = NothingRead
    BY <2>1, <2>2, <2>3 DEF ReadOf, NothingRead
  <2>5. NothingRead \in ReadType
    BY DEF NothingRead, ReadType
  <2>6. Reads(<<>>, NothingRead)
    <3> DEFINE f == [l \in 0..0 |-> NothingRead]
    <3>1. f \in [0..0 -> ReadType] /\ f[0] = NothingRead /\ \A l \in 1..0 : f[l] = ReadLine(f[l - 1], <<>>[l])
      BY <2>5
    <3> HIDE DEF f
    <3>2. Len(<<>>) = 0
      OBVIOUS
    <3> QED
      BY <3>1, <3>2 DEF Reads
  <2> QED
    BY <1>7, <2>2, <2>4, <2>6
<1>9. ASSUME NEW k \in 1..n, k - 1 \in T PROVE k \in T
  <2> DEFINE a == w[k - 1]
             b == w[k]
             es == told(k - 1)
             e == Fields(r[k])
  <2>1. a \in WrittenType /\ b \in WrittenType /\ r[k] \in DOMAIN emitted /\ WritesEvent(a, b, r[k]) /\ es \in Seq(Rows)
    BY <1>1, <1>2, <1>5, <1>7
  <2>2. x(k - 1) = ReadOf(a, es) /\ x(k) = ReadOf(b, Append(es, e)) /\ Reads(a.lines, x(k - 1)) /\ a.lines \in Seq(LineType)
    BY <1>3, <1>6, <1>7, <1>9
  <2> HIDE DEF a, b, es, e, x, T
  <2>3. x(k - 1) \in ReadType /\ x(k) \in ReadType /\ ReadOn(x(k - 1), x(k), a.lines, b.lines)
    <3>1. /\ ReadOf(a, es) \in ReadType /\ ReadOf(b, Append(es, Fields(r[k]))) \in ReadType
          /\ ReadOn(ReadOf(a, es), ReadOf(b, Append(es, Fields(r[k]))), a.lines, b.lines)
      BY <2>1, EventIsRead
    <3> QED
      BY <2>2, <3>1 DEF e
  <2>4. CASE \E y \in LineType : b.lines = Append(a.lines, y) /\ ReadLine(x(k - 1), y) = x(k)
    <3>1. Reads(b.lines, x(k))
      BY <2>2, <2>3, <2>4, ReadsOneMore
    <3> QED
      BY <1>7, <3>1 DEF T, b
  <2>5. CASE \E h, y \in LineType : \E c \in ReadType :
                b.lines = Append(Append(a.lines, h), y) /\ ReadLine(x(k - 1), h) = c /\ ReadLine(c, y) = x(k)
    <3>1. PICK h \in LineType, y \in LineType, c \in ReadType :
            b.lines = Append(Append(a.lines, h), y) /\ ReadLine(x(k - 1), h) = c /\ ReadLine(c, y) = x(k)
      BY <2>5
    <3>2. Reads(Append(a.lines, h), c) /\ Append(a.lines, h) \in Seq(LineType)
      BY <2>2, <3>1, ReadsOneMore
    <3>3. Reads(b.lines, x(k))
      BY <2>3, <3>1, <3>2, ReadsOneMore
    <3> QED
      BY <1>7, <3>3 DEF T, b
  <2> QED
    BY <2>3, <2>4, <2>5 DEF ReadOn
<1> HIDE DEF T
<1>10. n \in T
  BY <1>1, <1>7, <1>8, <1>9, UpTo
<1>11. Reads(w[n].lines, x(n))
  BY <1>10 DEF T
<1>12. Deserialized(w[n].lines) = told(n)
  <2>1. Deserialized(w[n].lines) = x(n).events
    BY <1>3, <1>7, <1>11, DeserializedIs
  <2> QED
    BY <2>1 DEF ReadOf
<1> QED
  BY <1>1, <1>2, <1>12 DEF told

LEMMA ReadsBack ==
  ASSUME DataTypes
  PROVE  ReportReadsBack
<1>1. emitted \in Seq(EventType) /\ \A r \in ToSet(saving) : r \in Seq(DOMAIN emitted)
  <2>1. emitted \in Seq(EventType) /\ saving \in Seq(Seq(DOMAIN emitted))
    BY DEF DataTypes
  <2>2. ToSet(saving) = {saving[k] : k \in DOMAIN saving}
    BY DEF ToSet
  <2>3. \A k \in DOMAIN saving : saving[k] \in Seq(DOMAIN emitted)
    BY <2>1
  <2> QED
    BY <2>1, <2>2, <2>3
<1> QED
  BY <1>1, EventsRead DEF ReportReadsBack
-----------------------------------------------------------------------------
(* The run.                                                                 *)

LEMMA MonitorsStarts ==
  ASSUME MonitorsInit
  PROVE  RunInv
<1> DEFINE first == Event("artifact", <<>>)
           o == [tracer |-> FALSE, feature |-> 0, steps |-> <<>>, spans |-> <<>>]
<1>0. /\ setup \in Setups /\ phase = "startExecution" /\ at = 1 /\ feature = 0 /\ callback = "fanout"
      /\ emitted = <<first>> /\ open = <<>> /\ steps = 0 /\ currentFeature = 0
      /\ finalizers = [active |-> 0, byFeature |-> [f \in 1..Features |-> <<>>], index |-> 1]
      /\ ran = <<>> /\ saving = <<>> /\ reports = <<>> /\ savedAt = {}
      /\ buffer = IF Has(Browser) THEN <<1>> ELSE <<>>
      /\ prompters = IF Has(Browser) THEN <<FALSE>> ELSE <<>>
      /\ transport = "none" /\ wire = {} /\ warnings = 0 /\ otel = o /\ running = {}
  BY DEF MonitorsInit
<1>1. first \in EventType /\ first.kind = "artifact"
  BY DEF Event, EventType
<1> HIDE DEF first
<1>2. emitted \in Seq(EventType) /\ DOMAIN emitted = {1} /\ emitted[1] = first
  BY <1>0, <1>1
<1>3. ControlTypes
  <2>1. setup.list \in Seq({Finalizer, Otel, Browser, Tui, Video}) /\ setup.features \in 1..FinalizerPath - 1
    BY <1>0, MonitorsAssumption DEF MonitorsAssumption
  <2>2. Len(list) \in Nat /\ Features \in Nat
    <3>1. Len(list) \in Nat
      BY <2>1 DEF list
    <3>2. Features \in Nat
      <4>1. setup.features \in 1..FinalizerPath - 1
        BY <2>1
      <4> QED
        BY <4>1, SMTT(30) DEF Features, FinalizerPath
    <3> QED
      BY <3>1, <3>2
  <2>3. at \in 1..Len(list) + 1 /\ feature \in 0..Features
    BY <1>0, <2>2
  <2> QED
    BY <1>0, <2>3 DEF ControlTypes
<1>4. Features \in Nat /\ Features >= 1 /\ setup.steps \in Nat
  BY <1>3, Listed
<1>5. buffer \in Seq(DOMAIN emitted) /\ DOMAIN buffer \subseteq {1} /\ \A i \in DOMAIN buffer : buffer[i] = 1
  <2>1. CASE Has(Browser)
    <3>1. buffer = <<1>> /\ 1 \in DOMAIN emitted
      BY <1>0, <1>2, <2>1
    <3> QED
      BY <3>1
  <2>2. CASE ~Has(Browser)
    <3>1. buffer = <<>>
      BY <1>0, <2>2
    <3> QED
      BY <3>1
  <2> QED
    BY <2>1, <2>2
<1>6. /\ finalizers.active = 0 /\ finalizers.index = 1 /\ finalizers.byFeature = [f \in 1..Features |-> <<>>]
      /\ finalizers \in FinalizersType
  <2>1. 0 \in 0..Features /\ <<>> \in Seq(FinalizerType) /\ 1 \in Nat \ {0}
    BY <1>4
  <2> QED
    BY <1>0, <2>1 DEF FinalizersType
<1>7. DataTypes
  <2>1. /\ currentFeature \in 0..feature /\ steps \in 0..setup.steps /\ finalizers.active <= feature
        /\ warnings \in Nat /\ running \in SUBSET Seq(Nat) /\ wire = {} /\ savedAt = {}
    BY <1>0, <1>4, <1>6
  <2>2. open \in Seq(Seq(Nat)) /\ Len(open) <= 2 /\ ran \in Seq(RanType) /\ saving \in Seq(Seq(DOMAIN emitted)) /\ reports \in Seq(Seq(DOMAIN emitted))
    BY <1>0
  <2> QED
    BY <1>2, <1>5, <1>6, <2>1, <2>2 DEF DataTypes
<1>8. OpenInv /\ EventInv
  BY <1>0, <1>1, <1>2 DEF OpenInv, EventInv
<1>9. ~Behind(Finalizer)
  BY <1>0, <1>3, Listed DEF Behind
<1>10. ActiveInv /\ RegisteredInv /\ RanInv /\ FinalizersRunInFeature /\ LineInv
  <2>1. ActiveInv
    BY <1>0, <1>6 DEF ActiveInv
  <2>2. \A f \in 1..Features : finalizers.byFeature[f] = <<>>
    BY <1>6
  <2>3. Left = {}
    BY <2>2 DEF Left
  <2>4. RegisteredInv
    BY <2>2, <2>3 DEF RegisteredInv
  <2>5. RanInv
    BY <1>0, <1>6, <2>2 DEF RanInv
  <2> QED
    BY <1>0, <2>1, <2>2, <2>4, <2>5 DEF FinalizersRunInFeature, LineInv
<1>11. SavingInv /\ ReportCountInv
  BY <1>0 DEF SavingInv, ReportCountInv
<1>12. ReportsHoldTheRun
  <2>1. Reported = <<buffer>>
    BY <1>0 DEF Reported
  <2>2. DOMAIN Reported = {1} /\ Reported[1] = buffer
    BY <2>1
  <2>3. Has(Browser) => ToSet(buffer) = {1}
    BY <1>0 DEF ToSet
  <2>4. \A f, g \in DOMAIN Reported : \A i \in DOMAIN Reported[f], j \in DOMAIN Reported[g] :
          ~(f < g \/ (f = g /\ i < j))
    BY <1>5, <2>2
  <2>5. Has(Browser) => DOMAIN emitted \ savedAt \subseteq UNION {ToSet(Reported[f]) : f \in DOMAIN Reported}
    BY <1>2, <2>2, <2>3
  <2> QED
    BY <2>4, <2>5 DEF ReportsHoldTheRun
<1>13. ReportedInv
  <2>1. FinalizersIn(buffer) = {} /\ \A f : RanAtEnd(f) = {}
    <3>1. \A i \in ToSet(buffer) : i = 1
      BY <1>5 DEF ToSet
    <3>2. FinalizersIn(buffer) = {}
      BY <1>1, <1>2, <3>1 DEF FinalizersIn
    <3>3. ran = <<>> /\ DOMAIN ran = {}
      BY <1>0
    <3>4. \A f : RanAtEnd(f) = {}
      BY <3>3 DEF RanAtEnd
    <3> QED
      BY <3>2, <3>4
  <2> QED
    <3>1. DOMAIN reports = {} /\ saving = <<>>
      BY <1>0
    <3> QED
      BY <2>1, <3>1 DEF ReportedInv
<1>14. PanelShowsRunning
  BY <1>0 DEF PanelShowsRunning, ToSet
<1>15. PrompterInv
  <2>1. CASE Has(Browser)
    <3>1. prompters = <<FALSE>> /\ transport = "none"
      BY <1>0, <2>1
    <3>2. prompters \in Seq(BOOLEAN) /\ prompters # <<>> /\ DOMAIN prompters = {1} /\ prompters[1] = FALSE
      BY <3>1
    <3>3. {i \in DOMAIN prompters : prompters[i]} = {}
      BY <3>2
    <3> QED
      BY <3>1, <3>2, <3>3 DEF PrompterInv
  <2>2. CASE ~Has(Browser)
    <3>1. prompters = <<>> /\ transport = "none"
      BY <1>0, <2>2
    <3>2. prompters \in Seq(BOOLEAN) /\ {i \in DOMAIN prompters : prompters[i]} = {}
      BY <3>1
    <3> QED
      BY <2>2, <3>1, <3>2 DEF PrompterInv
  <2> QED
    BY <2>1, <2>2
<1>16. OtelInv
  <2>1. <<>> \in StepMaps /\ DOMAIN <<>> = {} /\ <<>> \in Seq(SpanType) /\ Len(<<>>) = 0
    <3>1. <<>> \in [{} -> Nat] /\ {} \in SUBSET Seq(Nat)
      OBVIOUS
    <3>2. <<>> \in StepMaps
      BY <3>1 DEF StepMaps
    <3>3. DOMAIN <<>> = {} /\ <<>> \in Seq(SpanType) /\ Len(<<>>) = 0
      OBVIOUS
    <3> QED
      BY <3>2, <3>3
  <2>2. o \in OtelType /\ o.feature = 0 /\ o.steps = <<>> /\ o.spans = <<>> /\ ~o.tracer
    BY <2>1 DEF OtelType
  <2> HIDE DEF o
  <2>3. SpansOK(o) /\ NoneLeft(o)
    BY <2>1, <2>2 DEF SpansOK, NoneLeft
  <2> QED
    BY <1>0, <2>1, <2>2, <2>3 DEF OtelInv
<1> QED
  BY <1>3, <1>7, <1>8, <1>10, <1>11, <1>12, <1>13, <1>14, <1>15, <1>16 DEF RunInv

LEMMA MonitorsContinues ==
  ASSUME RunInv, MonitorsNext
  PROVE  RunInv' /\ ParentsAreOpen
<1>1. /\ ControlTypes /\ DataTypes /\ OpenInv /\ EventInv /\ ActiveInv /\ RegisteredInv /\ RanInv
      /\ FinalizersRunInFeature /\ LineInv /\ SavingInv /\ ReportsHoldTheRun /\ ReportCountInv /\ ReportedInv /\ PanelShowsRunning
      /\ PrompterInv /\ OtelInv
  BY DEF RunInv
<1>2. ControlTypes' /\ DataTypes' /\ OpenInv' /\ EventInv'
  BY <1>1, ControlStep, DataStep, OpenStep, EventStep
<1>3. ActiveInv' /\ RegisteredInv' /\ RanInv' /\ FinalizersRunInFeature' /\ LineInv'
  BY <1>1, ActiveStep, RegisteredStep, RanStep, InFeatureStep, LineStep
<1>4. SavingInv' /\ ReportsHoldTheRun' /\ ReportCountInv' /\ ReportedInv'
  BY <1>1, SavingStep, ReportsStep, ReportCountStep, ReportedStep
<1>5. PanelShowsRunning' /\ PrompterInv' /\ OtelInv' /\ ParentsAreOpen
  BY <1>1, PanelStep, PrompterStep, OtelStep
<1> QED
  BY <1>2, <1>3, <1>4, <1>5 DEF RunInv

LEMMA MonitorsStutters ==
  ASSUME RunInv, UNCHANGED monitorsVars
  PROVE  RunInv' /\ ParentsAreOpen
<1>1. UNCHANGED <<setup, phase, at, feature, callback, emitted, open, steps, failed, currentFeature, finalizers, ran>>
  BY DEF monitorsVars, run, exec, fin
<1>2. UNCHANGED <<buffer, savedAt, saving, reports, prompters, transport, hostUp, warnings, wire, otel, running>>
  BY DEF monitorsVars, page
<1>3. UNCHANGED <<list, Features, Left>>
  BY <1>1, <1>2 DEF list, Features, Left
<1>4. (ControlTypes <=> ControlTypes') /\ (DataTypes <=> DataTypes') /\ (OpenInv <=> OpenInv') /\ (EventInv <=> EventInv')
  BY <1>1, <1>2, <1>3 DEF ControlTypes, DataTypes, OpenInv, EventInv, Has, list, FinalizerType, FinalizersType, RanType, Features
<1>5. (ActiveInv <=> ActiveInv') /\ (RegisteredInv <=> RegisteredInv') /\ (RanInv <=> RanInv')
  BY <1>1, <1>2, <1>3 DEF ActiveInv, RegisteredInv, RanInv, Early, Ahead, Behind, Has, list, Features, Left,
       Key, FinalizerHook, Hook
<1>6. (FinalizersRunInFeature <=> FinalizersRunInFeature') /\ (LineInv <=> LineInv') /\ (SavingInv <=> SavingInv')
  BY <1>1, <1>2, <1>3 DEF FinalizersRunInFeature, LineInv, SavingInv, Ahead, Hook, list, Features
<1>7. (ReportsHoldTheRun <=> ReportsHoldTheRun') /\ (ReportCountInv <=> ReportCountInv') /\ (ReportedInv <=> ReportedInv')
  BY <1>1, <1>2, <1>3 DEF ReportsHoldTheRun, Reported, ReportCountInv, ReportedInv, Ahead, Has, Before, FinalizersIn, RanAtEnd, list
<1>8. (PanelShowsRunning <=> PanelShowsRunning') /\ (PrompterInv <=> PrompterInv') /\ (OtelInv <=> OtelInv')
  BY <1>1, <1>2, <1>3 DEF PanelShowsRunning, PrompterInv, OtelInv, SpansOK, NoneLeft, Forgotten, Ahead, Has, Before, list
<1>9. ParentsAreOpen
  BY <1>2 DEF ParentsAreOpen
<1> QED
  BY <1>4, <1>5, <1>6, <1>7, <1>8, <1>9 DEF RunInv

\* The invariant holds of every run, of any steppers.
LEMMA RunHolds == MonitorsSpec => []RunInv
<1>1. MonitorsInit => RunInv
  BY MonitorsStarts
<1>2. RunInv /\ [MonitorsNext]_monitorsVars => RunInv'
  BY MonitorsContinues, MonitorsStutters
<1> QED
  BY <1>1, <1>2, PTL DEF MonitorsSpec

LEMMA NoneAreLeft ==
  ASSUME OtelInv
  PROVE  SpansEnd
<1> SUFFICES ASSUME ~Before(Otel, Finalizer), otel.feature = 0, NEW i \in DOMAIN otel.spans, otel.spans[i].open
             PROVE  otel.spans[i].what = "custom" \/ Forgotten(otel, i)
  BY DEF SpansEnd
<1>1. NoneLeft(otel) /\ DOMAIN otel.steps = {} /\ otel \in OtelType
  BY OtelIsNow
<1>2. Len(otel.spans) \in Nat /\ DOMAIN otel.spans = 1..Len(otel.spans)
  BY <1>1, OtelIs
<1>3. i # 0
  BY <1>2
<1> QED
  BY <1>1, <1>3 DEF NoneLeft

\* Of any steppers in any order, and whatever fails: a span is started under a
\* span that is open, and with the finalizers before monitor-otel none is open when
\* the feature's has ended but those a feature starts itself and those of features
\* that another Feature: line has replaced (monitor-otel/src/index.ts).
THEOREM SpansNest == MonitorsSpec => SpansAreNested
<1>1. RunInv /\ [MonitorsNext]_monitorsVars => SpansEnd' /\ ParentsAreOpen
  <2> SUFFICES ASSUME RunInv, [MonitorsNext]_monitorsVars PROVE SpansEnd' /\ ParentsAreOpen
    OBVIOUS
  <2>1. RunInv' /\ ParentsAreOpen
    BY MonitorsContinues, MonitorsStutters
  <2>2. OtelInv'
    BY <2>1 DEF RunInv
  <2>3. SpansEnd'
    BY <2>2, NoneAreLeft, PTL
  <2> QED
    BY <2>1, <2>3
<1> QED
  BY <1>1, RunHolds, PTL DEF MonitorsSpec, SpansAreNested

LEMMA WarningsFrame ==
  ASSUME MonitorsNext
  PROVE  warnings' = warnings \/ PostFails
BY Zenon DEF MonitorsNext, page, NoHook, ToFirstFeature, ToStartFeature, ToBody, ToEndFeature, ToNextFeature, ToEndExecution, ToDone,
       OtelInitializes, OtelSetsWorld, BrowserSetsWorld, FinalizerStartsFeature, BrowserConnects, BrowserConnected,
       BrowserCannotListen, FeatureLine, StepStarts, StepReruns, StepShows, StepThrows, Traffic, StepEnds, RegisterFinalizer,
       StartOtelSpan, EndOtelSpan, FinalizerRuns, FinalizerThrows, FinalizersDone, OtelEndsFeature, VideoEnds, BrowserSaves,
       BrowserCannotSave, BrowserSaved, OtelShutsDown, PostAnswered, HostEnds

\* A post that fails is not sent again: of any posts, there are no more when
\* its warning has been posted in its turn (remote-transport.ts).
THEOREM WarningsDoNotMultiply == MonitorsSpec => FailuresDoNotMultiply
<1>1. RunInv /\ [MonitorsNext]_monitorsVars => (warnings' # warnings => Cardinality(wire') <= Cardinality(wire))
  <2> SUFFICES ASSUME RunInv, [MonitorsNext]_monitorsVars, warnings' # warnings
               PROVE  Cardinality(wire') <= Cardinality(wire)
    OBVIOUS
  <2>1. PostFails
    BY WarningsFrame DEF monitorsVars, page
  <2>2. PICK m \in wire : wire' = (wire \ {m}) \cup (IF Hears(Browser) THEN {Len(emitted) + 1} ELSE {})
    BY <2>1 DEF PostFails, Posted
  <2>3. IsFiniteSet(wire)
    <3>1. wire \subseteq {0} \cup DOMAIN emitted /\ emitted \in Seq(EventType)
      BY DEF RunInv, DataTypes
    <3>2. Len(emitted) \in Nat /\ DOMAIN emitted = 1..Len(emitted)
      BY <3>1, SequenceIs
    <3>3. wire \subseteq 0..Len(emitted)
      BY <3>1, <3>2
    <3>4. IsFiniteSet(0..Len(emitted))
      BY <3>2, FS_Interval
    <3> QED
      BY <3>3, <3>4, FS_Subset
  <2> DEFINE rest == wire \ {m}
             new == Len(emitted) + 1
  <2>4. IsFiniteSet(rest) /\ Cardinality(rest) = Cardinality(wire) - 1 /\ Cardinality(wire) \in Nat /\ Cardinality(rest) \in Nat
    BY <2>2, <2>3, FS_RemoveElement, FS_CardinalityType
  <2>5. Cardinality(rest \cup {new}) = IF new \in rest THEN Cardinality(rest) ELSE Cardinality(rest) + 1
    BY <2>4, FS_AddElement
  <2>6. wire' = rest \cup {new} \/ wire' = rest
    BY <2>2
  <2> HIDE DEF rest, new
  <2>7. CASE wire' = rest
    BY <2>4, <2>7
  <2>8. CASE wire' = rest \cup {new}
    <3>1. Cardinality(wire') = IF new \in rest THEN Cardinality(rest) ELSE Cardinality(rest) + 1
      BY <2>5, <2>8
    <3> QED
      BY <2>4, <3>1
  <2> QED
    BY <2>6, <2>7, <2>8
<1> QED
  BY <1>1, RunHolds, PTL DEF MonitorsSpec, FailuresDoNotMultiply

LEMMA TypesHold ==
  ASSUME ControlTypes, DataTypes, SpansOK(otel)
  PROVE  MonitorsTypeOK
<1>1. phase \in DOMAIN Hooks \cup {"body", "done", "failed"}
  BY DEF ControlTypes, Hooks
<1>2. setup \in Setups /\ at \in 1..Len(list) + 1 /\ feature \in 0..Features /\ callback \in {"fanout", "otel"} /\ (callback = "otel" => Has(Otel))
  BY DEF ControlTypes
<1>3. currentFeature \in 0..feature /\ steps \in 0..setup.steps /\ Len(open) <= 2 /\ savedAt \subseteq DOMAIN emitted
  BY DEF DataTypes
<1>4. wire \subseteq {0} \cup DOMAIN emitted /\ (wire # {} => transport = "remote")
  BY DEF DataTypes
<1>5. finalizers.active \in 0..feature
  <2>1. finalizers.active \in 0..Features /\ finalizers.active <= feature
    BY DEF DataTypes, FinalizersType
  <2> QED
    BY <1>2, <2>1, MonitorsAssumption DEF MonitorsAssumption
<1>6. ToSet(buffer) \subseteq DOMAIN emitted
  <2>1. buffer \in Seq(DOMAIN emitted)
    BY DEF DataTypes
  <2> QED
    BY <2>1 DEF ToSet
<1>7. otel.feature \in 0..Len(otel.spans) /\ \A id \in DOMAIN otel.steps : otel.steps[id] \in DOMAIN otel.spans
  BY DEF SpansOK
<1> QED
  BY <1>1, <1>2, <1>3, <1>4, <1>5, <1>6, <1>7 DEF MonitorsTypeOK

LEMMA OnceEach ==
  ASSUME DataTypes, RanInv, RegisteredInv
  PROVE  FinalizersRunOnce
<1>1. \A k, l \in DOMAIN ran : ran[k].of = ran[l].of => k = l
  BY DEF RanInv
<1>2. ASSUME phase = "done", NEW f \in 1..Features PROVE finalizers.byFeature[f] = <<>>
  <2>1. Left = {}
    BY <1>2 DEF RegisteredInv
  <2>2. finalizers.byFeature[f] # <<>> => f \in Left
    BY DEF Left
  <2> QED
    BY <2>1, <2>2
<1> QED
  BY <1>1, <1>2 DEF FinalizersRunOnce

LEMMA OneLives ==
  ASSUME PrompterInv
  PROVE  OneLivePrompter
<1> DEFINE live == {i \in DOMAIN prompters : prompters[i]}
<1>1. IF transport = "local" THEN \E p \in DOMAIN prompters : live = {p} ELSE live = {}
  BY DEF PrompterInv
<1> HIDE DEF live
<1>2. Cardinality(live) = IF transport = "local" THEN 1 ELSE 0
  BY <1>1, FS_EmptySet, FS_Singleton
<1> QED
  BY <1>2 DEF OneLivePrompter, live

\* Of any steppers in any order, whatever fails: reports hold events in their
\* order and none twice, and read back as their events; finalizers run once at
\* most and none is left when the run is done, and those registered after their
\* feature's Feature: line run in its hook; one prompter reaches the page, none
\* where the monitor piggybacks.  Without monitor-otel, all events are reported or
\* kept but those that came while a report was saved, a report holds the finalizers
\* of its feature if they come before the browser monitor, and the terminal shows
\* the steps that run, reruns excepted (finalizer-stepper.ts,
\* monitor-browser-stepper.ts, monitor-tui/src/index.tsx).
THEOREM RunsAreTold == MonitorsSpec => []RunIsTold
<1>1. RunInv => RunIsTold
  <2> SUFFICES ASSUME RunInv PROVE RunIsTold
    OBVIOUS
  <2>1. /\ ControlTypes /\ DataTypes /\ RegisteredInv /\ RanInv /\ FinalizersRunInFeature
        /\ ReportsHoldTheRun /\ ReportedInv /\ PanelShowsRunning /\ PrompterInv /\ OtelInv
    BY DEF RunInv
  <2>2. MonitorsTypeOK
    BY <2>1, TypesHold DEF OtelInv
  <2>3. ReportReadsBack
    BY <2>1, ReadsBack
  <2>4. FinalizersRunOnce
    BY <2>1, OnceEach
  <2>5. FinalizersAreReported
    BY <2>1 DEF ReportedInv, FinalizersAreReported
  <2>6. OneLivePrompter
    BY <2>1, OneLives
  <2> QED
    BY <2>1, <2>2, <2>3, <2>4, <2>5, <2>6 DEF RunIsTold
<1> QED
  BY <1>1, RunHolds, PTL
=============================================================================
