------------------------------ MODULE Prompting ------------------------------
(***************************************************************************)
(* Asking a human: Prompter and its subscribers, the terminal               *)
(* (ReadlinePrompter), the terminal UI (TuiMonitorStepper), a               *)
(* BasePromptManager such as HttpPrompter ("manager"), and the browser      *)
(* monitor (SSEPrompter, its transport and the debugger of App.tsx).        *)
(*                                                                         *)
(* Prompter.prompt asks every subscriber and returns the first answer that  *)
(* is not undefined, cancelling the prompt at all of them; it returns       *)
(* undefined when enough of them are undefined.  Each subscriber returns a  *)
(* promise; the callbacks of settled promises run before anybody else does  *)
(* anything (microtasks).  Steps are asked about one at a time by the       *)
(* Executor; a tool call of an MCP client runs a step of its own meanwhile, *)
(* so that MaxOpen prompts may be open at once.                             *)
(***************************************************************************)
EXTENDS Integers, Sequences, FiniteSets

CONSTANTS
  MaxPrompts,     \* bound: prompts asked, numbered as they are
  MaxOpen,        \* prompts that can be open at once
  MaxReconnects,  \* bound: reconnections of the browser
  Terminals       \* whether stdin is a terminal: values considered

ASSUME PromptingAssumption ==
  /\ MaxPrompts \in Nat \ {0} /\ MaxOpen \in Nat /\ MaxReconnects \in Nat
  /\ Terminals \subseteq BOOLEAN

Prompt == 1..MaxPrompts
None == 0
Subscriber == {"readline", "tui", "manager", "sse"}
Answer == Subscriber \union {"api"}   \* an answer is the place it was given
Undefined == "undefined"

VARIABLES
  terminal,     \* process.stdin.isTTY
  subscribers,  \* Prompter.subscribers (nothing depends on their order)
  outstanding,  \* Prompter.outstandingPrompts
  call,         \* the calls of Prompter.prompt
  held,         \* per subscriber: prompts whose promise it can still settle
  current,      \* currentPromptId of readline, currentPrompt of the TUI
  settled,      \* fulfilled promises of subscribers, in the order of their callbacks
  web,          \* activePrompt in the browser
  history,      \* prompts in the history of the transport
  stream,       \* prompts on their way to the browser
  posted,       \* responses on their way back
  given,        \* history: the answers given to each prompt
  reconnects

vars == <<terminal, subscribers, outstanding, call, held, current, settled,
          web, history, stream, posted, given, reconnects>>
browser == <<web, history, stream, posted, reconnects>>

NewCall == [state |-> "new", value |-> Undefined, responded |-> 0]

Init ==
  /\ terminal \in Terminals
  /\ subscribers = {"readline"}
  /\ outstanding = {}
  /\ call = [i \in Prompt |-> NewCall]
  /\ held = [s \in Subscriber |-> {}]
  /\ current = [s \in {"readline", "tui"} |-> None]
  /\ settled = <<>>
  /\ web = None /\ history = <<>> /\ stream = <<>> /\ posted = {} /\ reconnects = 0
  /\ given = [i \in Prompt |-> {}]

Waiting == {i \in Prompt : call[i].state = "waiting"}

\* setWorld of a stepper, before anything runs.
Subscribe(s) ==
  /\ \A i \in Prompt : call[i].state = "new"
  /\ s \notin subscribers
  /\ subscribers' = subscribers \union {s}
  /\ UNCHANGED <<terminal, outstanding, call, held, current, settled, given, browser>>

\* unsubscribe removes the subscribers of the same class.
Unsubscribe(s) ==
  /\ \A i \in Prompt : call[i].state = "new"
  /\ s \in subscribers
  /\ subscribers' = subscribers \ {s}
  /\ UNCHANGED <<terminal, outstanding, call, held, current, settled, given, browser>>

-----------------------------------------------------------------------------
(* Prompter.prompt *)

\* IPrompter.prompt: the TUI has one resolver, the others one per prompt;
\* readline does not hold a prompt without a terminal.
NowHeld(s, i) ==
  CASE s = "tui" -> {i}
    [] s = "readline" /\ ~terminal -> held[s]
    [] OTHER -> held[s] \union {i}

Ask(i) ==
  /\ call[i].state = "new" /\ \A j \in 1..i - 1 : call[j].state # "new"
  /\ Cardinality(Waiting) < MaxOpen
  /\ IF i \in outstanding \/ subscribers = {}
     THEN /\ call' = [call EXCEPT ![i].state = "returned"]
          /\ UNCHANGED <<held, current, settled, history, stream>>
     ELSE /\ call' = [call EXCEPT ![i] = [state |-> "waiting", value |-> Undefined, responded |-> 1]]
          /\ held' = [s \in Subscriber |-> IF s \in subscribers THEN NowHeld(s, i) ELSE held[s]]
          /\ current' = [s \in {"readline", "tui"} |->
                           IF s \in subscribers /\ (s = "tui" \/ terminal) THEN i ELSE current[s]]
          /\ settled' = IF "readline" \in subscribers /\ ~terminal
                        THEN Append(settled, <<"readline", i, Undefined>>) ELSE settled
          /\ IF "sse" \in subscribers
             THEN history' = Append(history, i) /\ stream' = Append(stream, i)
             ELSE UNCHANGED <<history, stream>>
  /\ UNCHANGED <<terminal, subscribers, outstanding, web, posted, given, reconnects>>

\* Where cancel(i) withdraws prompt i: at all that still hold it, but at the
\* terminal and the TUI only if they ask nothing else by now.
Withdrawn(i) == {s \in subscribers : i \in held[s] /\ (s \in {"readline", "tui"} => current[s] = i)}

Return(i, value) ==
  call' = [call EXCEPT ![i].state = "returned",
                       ![i].value = IF call[i].state = "waiting" THEN value ELSE @]

\* The callback of a subscriber that answered: cancel everywhere, resolve.  A
\* manager's cancel settles its own promise with undefined, readline's and the
\* browser's are never settled, the TUI's is rejected and ignored.
Answered ==
  /\ settled # <<>> /\ Head(settled)[3] # Undefined
  /\ LET i == Head(settled)[2]
     IN  /\ Return(i, Head(settled)[3])
         /\ held' = [s \in Subscriber |-> IF s \in Withdrawn(i) THEN held[s] \ {i} ELSE held[s]]
         /\ current' = IF "tui" \in Withdrawn(i) THEN [current EXCEPT !["tui"] = None] ELSE current
         /\ settled' = IF "manager" \in Withdrawn(i)
                       THEN Append(Tail(settled), <<"manager", i, Undefined>>) ELSE Tail(settled)
  /\ UNCHANGED <<terminal, subscribers, outstanding, given, browser>>

\* if (++responded === this.subscribers.length), responded starting at 1
EnoughUndefined(i) == call[i].responded + 1 = Cardinality(subscribers)

\* The callback of a subscriber that has no answer.
NotAnswered ==
  /\ settled # <<>> /\ Head(settled)[3] = Undefined
  /\ LET i == Head(settled)[2]
     IN  IF EnoughUndefined(i) /\ call[i].state = "waiting"
         THEN call' = [call EXCEPT ![i].state = "returned", ![i].responded = @ + 1]
         ELSE call' = [call EXCEPT ![i].responded = @ + 1]
  /\ settled' = Tail(settled)
  /\ UNCHANGED <<terminal, subscribers, outstanding, held, current, given, browser>>

\* Prompter.resolve and Prompter.cancel look the prompt up in outstandingPrompts.
ResolveById(i) ==
  /\ i \in Waiting /\ "api" \notin given[i] /\ settled = <<>>
  /\ given' = [given EXCEPT ![i] = @ \union {"api"}]
  /\ IF i \in outstanding THEN Return(i, "api") ELSE UNCHANGED call
  /\ outstanding' = outstanding \ {i}
  /\ UNCHANGED <<terminal, subscribers, held, current, settled, browser>>

-----------------------------------------------------------------------------
(* The places a human can answer at.  Idle: no callback is due. *)

Idle == settled = <<>>
Give(i, s) == given' = [given EXCEPT ![i] = @ \union {s}]

\* A line typed is read by every interface that is open on stdin (node).
Queued(set, s) ==
  LET Rank(i) == Cardinality({j \in set : j <= i})
  IN  [k \in 1..Cardinality(set) |-> <<s, CHOOSE i \in set : Rank(i) = k, s>>]

TypeLine ==
  /\ Idle /\ held["readline"] # {}
  /\ given' = [i \in Prompt |-> IF i \in held["readline"] THEN given[i] \union {"readline"} ELSE given[i]]
  /\ settled' = Queued(held["readline"], "readline")
  /\ held' = [held EXCEPT !["readline"] = {}]
  /\ UNCHANGED <<terminal, subscribers, outstanding, call, current, browser>>

\* onResolve of the TUI: its resolver gets what was typed at the prompt shown.
AnswerTui(i) ==
  /\ Idle /\ current["tui"] # None /\ i \in held["tui"]
  /\ Give(current["tui"], "tui")
  /\ settled' = Append(settled, <<"tui", i, "tui">>)
  /\ held' = [held EXCEPT !["tui"] = @ \ {i}]
  /\ current' = [current EXCEPT !["tui"] = None]
  /\ UNCHANGED <<terminal, subscribers, outstanding, call, browser>>

\* BasePromptManager.resolve
AnswerManager(i) ==
  /\ Idle /\ i \in held["manager"]
  /\ Give(i, "manager")
  /\ settled' = Append(settled, <<"manager", i, "manager">>)
  /\ held' = [held EXCEPT !["manager"] = @ \ {i}]
  /\ UNCHANGED <<terminal, subscribers, outstanding, call, current, browser>>

\* Variant: a prompt that is shown stays until it is answered.
KeepsShown(i) == IF web = None THEN i ELSE web

\* The browser shows the last prompt it was sent; it ignores cancellations.
Shown(i) == i

Receive ==
  /\ stream # <<>>
  /\ web' = Shown(Head(stream)) /\ stream' = Tail(stream)
  /\ UNCHANGED <<terminal, subscribers, outstanding, call, held, current, settled, given,
                 history, posted, reconnects>>

\* onSubmit of the Debugger, POST /sse/message.
Submit ==
  /\ web # None
  /\ Give(web, "sse")
  /\ posted' = posted \union {web} /\ web' = None
  /\ UNCHANGED <<terminal, subscribers, outstanding, call, held, current, settled,
                 history, stream, reconnects>>

\* Variant: a response answers what is asked, whatever it was for.
AnyAsked(i) == IF held["sse"] = {} THEN i ELSE CHOOSE j \in held["sse"] : \A k \in held["sse"] : k <= j

\* The prompt a response is for.
ResponseTo(i) == i

\* SSEPrompter.handleMessage: a response to a prompt it does not hold is dropped.
Deliver(p) ==
  /\ Idle /\ p \in posted
  /\ posted' = posted \ {p}
  /\ LET i == ResponseTo(p)
     IN  IF i \in held["sse"]
         THEN /\ settled' = Append(settled, <<"sse", i, "sse">>)
              /\ held' = [held EXCEPT !["sse"] = @ \ {i}]
         ELSE UNCHANGED <<settled, held>>
  /\ UNCHANGED <<terminal, subscribers, outstanding, call, current, given, web, history, stream, reconnects>>

\* The event source reconnects, or the page is loaded again: the transport
\* replays its history.
Reconnect ==
  /\ reconnects < MaxReconnects /\ "sse" \in subscribers
  /\ reconnects' = reconnects + 1
  /\ stream' = history
  /\ web' \in {web, None}
  /\ UNCHANGED <<terminal, subscribers, outstanding, call, held, current, settled, given, history, posted>>

-----------------------------------------------------------------------------
Callback == Answered \/ NotAnswered
Human == TypeLine \/ Submit \/ (\E i \in Prompt : AnswerTui(i) \/ AnswerManager(i))

Next ==
  \/ \E s \in Subscriber : Subscribe(s) \/ Unsubscribe(s)
  \/ \E i \in Prompt : Ask(i) \/ ResolveById(i)
  \/ Callback \/ Human
  \/ Receive \/ Reconnect \/ \E p \in Prompt : Deliver(p)

\* Callbacks run, messages arrive, and somebody answers at every place that
\* shows a prompt.
Fairness ==
  /\ WF_vars(Callback) /\ WF_vars(Receive) /\ \A p \in Prompt : WF_vars(Deliver(p))
  /\ WF_vars(TypeLine) /\ WF_vars(Submit)
  /\ \A i \in Prompt : WF_vars(AnswerTui(i)) /\ WF_vars(AnswerManager(i))

Spec == Init /\ [][Next]_vars /\ Fairness
-----------------------------------------------------------------------------
(* Properties *)

\* No promise is held or settled for a prompt that was not asked, none by the
\* readline of a process without a terminal, and no more is counted than can
\* respond.
TypeOK ==
  /\ terminal \in BOOLEAN /\ outstanding = {} /\ subscribers \subseteq Subscriber
  /\ \A i \in Prompt :
       /\ call[i].state \in {"new", "waiting", "returned"}
       /\ call[i].value \in Answer \union {Undefined}
       /\ call[i].responded \in 0..Cardinality(subscribers) + 1
       /\ given[i] \subseteq Answer
       /\ call[i].state = "new" => \A s \in Subscriber : i \notin held[s]
  /\ \A s \in Subscriber : held[s] \subseteq Prompt /\ (s \notin subscribers => held[s] = {})
  /\ ~terminal => held["readline"] = {}
  /\ \A k \in DOMAIN settled : settled[k] \in Subscriber \X Prompt \X (Subscriber \union {Undefined})
  /\ web \in Prompt \union {None} /\ posted \subseteq Prompt

\* What a call returns was answered to that prompt: no late, repeated or stale
\* answer, nor one meant for another prompt that is open, becomes its answer.
AnswerWasGiven == \A i \in Prompt : call[i].value # Undefined => call[i].value \in given[i]

\* Once a prompt is answered nobody holds it any more, so that no second
\* answer can be given to it (but a terminal that asks something else by now
\* cannot be closed).
AnsweredIsWithdrawn ==
  Idle => \A i \in Prompt : call[i].value # Undefined =>
    \A s \in subscribers : i \in held[s] => s = "readline" /\ current[s] # i

\* What answers a prompt was given to it, and ends it for everybody.
AnswersAreTrue == TypeOK /\ AnswerWasGiven /\ AnsweredIsWithdrawn

Interactive == subscribers \ (IF terminal THEN {} ELSE {"readline"}) # {}

\* If anybody can answer, every prompt returns and the step that waits for it
\* goes on, as long as no two are asked at once (a second one takes the TUI's
\* resolver and the place in the browser).
PromptReturns ==
  [](Cardinality(Waiting) <= 1) =>
    \A i \in Prompt : (i \in Waiting /\ Interactive) ~> call[i].state = "returned"
=============================================================================
