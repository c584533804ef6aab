------------------------------ MODULE Variables ------------------------------
(***************************************************************************)
(* The variables of a feature: FeatureVariables, its QuadStore, the domains *)
(* of the world, VariablesStepper and the quantifiers of LogicStepper that  *)
(* set variables, and the copies that the Executor keeps of them.           *)
(*                                                                         *)
(* A step that fails changes nothing here, and ends the feature unless a    *)
(* statement around it expects that: it is a step that is not taken.  While *)
(* steps run a stepper may set its own variables in an event (the page      *)
(* navigates), in between any two of the steps below.                       *)
(*                                                                         *)
(* Left out: provenance, the texts around an interpolated variable, empty   *)
(* texts, and the comparison of values of unions.                           *)
(***************************************************************************)
EXTENDS Integers, Sequences, FiniteSets

CONSTANTS
  Name,         \* names of variables
  Dotted,       \* "Stepper.name": those that only a stepper sets for itself
  Sensitive,    \* those that match /(password|secret)/i
  Value,        \* texts
  Numerals,     \* the texts of 0, 1, ...; the last is the bound of increments
  Env,          \* options.envVariables: a function of some names to values
  Declarable,   \* domains that features may declare
  Vocabulary,   \* the statements that features may contain
  MaxSteps,     \* bound: statements executed and events of steppers
  Unset

CoreDomain == {"string", "number"}
Number == {Numerals[k] : k \in DOMAIN Numerals}

\* A value: a text, or what a variable holds ({name} or name).
Source == [text : Value] \union [name : Name]

Declaration ==
  [op : {"set of", "ordered set of"}, domain : Declarable, values : Seq(Value)]
    \union [op : {"set of as"}, domain : Declarable, supers : SUBSET (Declarable \union CoreDomain)]

\* via: the variables in braces within the name that is set.
Assignment ==
  [op : {"set"}, what : Name, via : SUBSET Name, source : Source, empty : BOOLEAN]
    \union [op : {"setAs"}, what : Name, via : SUBSET Name, source : Source, empty : BOOLEAN,
            domain : Declarable \union CoreDomain, readonly : BOOLEAN]
    \union [op : {"setRandom"}, what : Name, empty : BOOLEAN]
    \union [op : {"compose"}, what : Name, source : Source, domain : Declarable \union CoreDomain]
    \union [op : {"increment", "unset", "save", "read file"}, what : Name]
    \union [op : {"every", "some"}, what : Name, domain : Declarable \union CoreDomain]

\* secret is undefined ("unknown") where nothing was said about it; fromSecret,
\* a history variable, says that the value was made of a secret one.
Stored == [value : Value, domain : Declarable \union CoreDomain, readonly : BOOLEAN,
           secret : {"yes", "no", "unknown"}, fromSecret : BOOLEAN]

Quads == [graph : {"variables", "observation"}, predicate : Declarable \union CoreDomain, object : Value]

ASSUME VariablesAssumption ==
  /\ Unset \notin Stored \union Quads /\ Unset \notin Name
  /\ Dotted \subseteq Name /\ Sensitive \subseteq Name
  /\ Numerals \in Seq(Value) /\ \A j, k \in DOMAIN Numerals : Numerals[j] = Numerals[k] => j = k
  /\ DOMAIN Env \subseteq Name \ Dotted /\ \A n \in DOMAIN Env : Env[n] \in Value
  /\ Declarable \intersect CoreDomain = {}
  /\ Vocabulary \subseteq Declaration \union Assignment
  /\ MaxSteps \in Nat

VARIABLES
  domains,   \* world.domains
  values,    \* world.shared.values
  store,     \* world.shared.store: the latest quad about each variable
  scoped,    \* scopedVars of the Executor
  base,      \* baseVars of the Executor
  scenario,  \* "none", "starting" (its hooks run) or "running"
  loop,      \* the quantifier that is running
  taken      \* how many of MaxSteps were taken

vars == <<domains, values, store, scoped, base, scenario, loop, taken>>
scopes == <<scoped, base, scenario>>

NoVariables == [n \in Name |-> Unset]
NoLoop == [what |-> Unset, left |-> {}]
Quad(sv, graph) == [graph |-> graph, predicate |-> sv.domain, object |-> sv.value]

\* new FeatureVariables(world, initial) stores its values in the shared graph.
StoreOf(initial) == [n \in Name |-> IF initial[n] = Unset THEN Unset ELSE Quad(initial[n], "variables")]

CoreDomains ==
  [d \in CoreDomain |->
     [accepts |-> IF d = "number" THEN Number ELSE Value, members |-> {}, order |-> <<>>]]

Init ==
  /\ domains = CoreDomains
  /\ values = NoVariables /\ store = NoVariables
  /\ scoped = NoVariables /\ base = NoVariables
  /\ scenario = "none" /\ loop = NoLoop /\ taken = 0

-----------------------------------------------------------------------------
(* Domains.  They belong to the world: no feature starts without those of the *)
(* features before it, and declaring one again fails. *)

Accepts(d, v) == d \in DOMAIN domains /\ v \in domains[d].accepts

ValuesOf(texts) == {texts[k] : k \in DOMAIN texts}
Distinct(texts) == \A j, k \in DOMAIN texts : texts[j] = texts[k] => j = k

\* createEnumDomainDefinition: what has an order can be compared and incremented.
Enum(members, order) == [accepts |-> members, members |-> members, order |-> order]

Define(d, definition) ==
  /\ d \notin DOMAIN domains
  /\ domains' = [e \in DOMAIN domains \union {d} |-> IF e = d THEN definition ELSE domains[e]]

-----------------------------------------------------------------------------
(* FeatureVariables *)

IsSecret(n) ==
  IF values[n] = Unset \/ values[n].secret = "unknown" THEN n \in Sensitive
  ELSE values[n].secret = "yes"

\* resolveVariable of a name: the environment goes first.
Resolvable(source) == "name" \in DOMAIN source => source.name \in DOMAIN Env \/ values[source.name] # Unset

Resolved(source) ==
  IF "text" \in DOMAIN source THEN source.text
  ELSE IF source.name \in DOMAIN Env THEN Env[source.name] ELSE values[source.name].value

SecretSource(source) == "name" \in DOMAIN source /\ IsSecret(source.name)

\* resolved.secret is undefined for a text.
SecretOf(source) ==
  IF "text" \in DOMAIN source THEN "unknown" ELSE IF IsSecret(source.name) THEN "yes" ELSE "no"

\* FeatureVariables.set refuses these names, whatever statement sets them.
Refused(n, op) == n \in Dotted \/ n \in DOMAIN Env \/ (values[n] # Unset /\ values[n].readonly)

\* _set: the domain is registered and accepts the value.
Valid(sv) == Accepts(sv.domain, sv.value)

Put(n, sv, graph) ==
  /\ Valid(sv)
  /\ values' = [values EXCEPT ![n] = sv]
  /\ store' = [store EXCEPT ![n] = Quad(sv, graph)]

\* doFeature copies the variables after every step before the first scenario.
AfterStep ==
  /\ IF scenario = "none" /\ loop = NoLoop
     THEN scoped' = values' /\ base' = values' ELSE UNCHANGED <<scoped, base>>
  /\ UNCHANGED <<scenario, loop>>

\* Variant: the hooks of a scenario are not waited for.
AnyTime == TRUE

CanStep == scenario # "starting"
Count == taken < MaxSteps /\ taken' = taken + 1

-----------------------------------------------------------------------------
(* VariablesStepper: declarations *)

DefineValues(s) ==
  /\ s.op \in {"set of", "ordered set of"} /\ CanStep
  /\ Distinct(s.values) /\ Len(s.values) >= (IF s.op = "set of" THEN 1 ELSE 2)
  /\ Define(s.domain, Enum(ValuesOf(s.values), IF s.op = "set of" THEN <<>> ELSE s.values))
  /\ UNCHANGED <<values, store>>
  /\ AfterStep

\* Values of superdomains that all have some are put together, without their
\* orders; otherwise the new domain accepts what any of them accepts.
DefineOpenSet(s) ==
  /\ s.op = "set of as" /\ CanStep
  /\ s.supers # {} /\ s.supers \subseteq DOMAIN domains
  /\ LET members == UNION {domains[d].members : d \in s.supers}
         accepted == UNION {domains[d].accepts : d \in s.supers}
     IN  Define(s.domain, IF \A d \in s.supers : domains[d].members # {} THEN Enum(members, <<>>)
                          ELSE [accepts |-> accepted, members |-> {}, order |-> <<>>])
  /\ UNCHANGED <<values, store>>
  /\ AfterStep

-----------------------------------------------------------------------------
(* VariablesStepper: assignments *)

\* shouldSkipEmpty: "set empty" leaves a variable that is set.
Skipped(s, n) == s.empty /\ values[n] # Unset

\* The name that is set: with variables in it, it can be any.
Names(s) == IF s.via = {} THEN {s.what} ELSE Name
ViaFound(s) == \A m \in s.via : Resolvable([name |-> m])
SecretVia(s) == \E m \in s.via : IsSecret(m)

\* Variant: secret: interpolated.secret ?? parsedValue.secret
NullishSecret(s) == IF SecretVia(s) THEN "yes" ELSE "no"

\* secret: interpolated.secret || parsedValue.secret
EitherSecret(s) == IF SecretVia(s) THEN "yes" ELSE SecretOf(s.source)

\* domain is the one that the variable has, or that is named in the statement.
Assigned(s, domain, readonly) ==
  [value |-> Resolved(s.source), domain |-> domain, readonly |-> readonly, secret |-> EitherSecret(s),
   fromSecret |-> SecretVia(s) \/ SecretSource(s.source)]

Assign(s, n, domain, readonly) ==
  /\ Resolvable(s.source) /\ ViaFound(s)
  /\ IF Skipped(s, n) THEN UNCHANGED <<values, store>>
     ELSE ~Refused(n, s.op) /\ Put(n, Assigned(s, domain, readonly), "variables")
  /\ UNCHANGED domains
  /\ AfterStep

Set(s) ==
  /\ s.op = "set" /\ CanStep
  /\ \E n \in Names(s) : Assign(s, n, IF values[n] = Unset THEN "string" ELSE values[n].domain, FALSE)

SetAs(s) ==
  /\ s.op = "setAs" /\ CanStep
  /\ \E n \in Names(s) : Assign(s, n, s.domain, s.readonly)

\* Random characters, the text of a page or of a file may be any.
TextIn(n) ==
  \E v \in Value : Put(n, [value |-> v, domain |-> "string", readonly |-> FALSE,
                          secret |-> "unknown", fromSecret |-> FALSE], "variables")

SetRandom(s) ==
  /\ s.op = "setRandom" /\ CanStep
  /\ IF Skipped(s, s.what) THEN UNCHANGED <<values, store>>
     ELSE ~Refused(s.what, s.op) /\ TextIn(s.what)
  /\ UNCHANGED domains
  /\ AfterStep

\* compose and composeAs: here the variable is secret or is not.
Compose(s) ==
  /\ s.op = "compose" /\ CanStep
  /\ Resolvable(s.source)
  /\ ~Refused(s.what, s.op)
  /\ Put(s.what, [value |-> Resolved(s.source), domain |-> s.domain, readonly |-> FALSE,
                  secret |-> IF SecretSource(s.source) THEN "yes" ELSE "no",
                  fromSecret |-> SecretSource(s.source)], "variables")
  /\ UNCHANGED domains
  /\ AfterStep

Place(list, v) == CHOOSE k \in DOMAIN list : list[k] = v

\* Variant: the next but one.
Skips(list, v) == list[IF Place(list, v) + 2 > Len(list) THEN Len(list) ELSE Place(list, v) + 2]

\* The next value, or the last.
NextIn(list, v) == list[IF Place(list, v) = Len(list) THEN Len(list) ELSE Place(list, v) + 1]

\* A secret value is obscured: it is no number nor in any domain.  An ordered
\* domain is gone through to its end, any number else incremented.
Increment(s) ==
  /\ s.op = "increment" /\ CanStep
  /\ values[s.what] # Unset /\ ~IsSecret(s.what)
  /\ LET sv == values[s.what]
         order == domains[sv.domain].order
         list == IF order # <<>> THEN order ELSE Numerals
         next == NextIn(list, sv.value)
     IN  /\ sv.value \in ValuesOf(list)
         /\ order = <<>> => next # sv.value
         /\ IF next = sv.value THEN UNCHANGED <<values, store>>
            ELSE /\ ~Refused(s.what, s.op)
                 /\ Put(s.what, [value |-> next, domain |-> sv.domain, readonly |-> FALSE,
                                 secret |-> "unknown", fromSecret |-> FALSE], "variables")
  /\ UNCHANGED domains
  /\ AfterStep

\* What was stored about the variable stays in the store.
UnsetStep(s) ==
  /\ s.op = "unset" /\ CanStep
  /\ Resolvable([name |-> s.what])
  /\ values' = [values EXCEPT ![s.what] = Unset]
  /\ UNCHANGED <<store, domains>>
  /\ AfterStep

\* Steps of other steppers that store what they found.
Save(s) ==
  /\ s.op = "save" /\ CanStep
  /\ ~Refused(s.what, s.op) /\ TextIn(s.what)
  /\ UNCHANGED domains
  /\ AfterStep

\* AStorage calls _set itself, and whether it is refused is not asked.
ReadFileInto(s) ==
  /\ s.op = "read file" /\ CanStep
  /\ TextIn(s.what)
  /\ UNCHANGED domains
  /\ AfterStep

\* A step that sets no variable.
OtherStep ==
  /\ CanStep
  /\ UNCHANGED <<domains, values, store>>
  /\ AfterStep

-----------------------------------------------------------------------------
(* Quantifiers.  The values are those of the domain when it begins. *)

\* getDomainValues: the values of the domain, or those of its variables.
DomainValues(d) ==
  IF domains[d].members # {} THEN domains[d].members
  ELSE {values[n].value : n \in {m \in Name : values[m] # Unset /\ values[m].domain = d}}

BeginQuantifier(s) ==
  /\ s.op \in {"every", "some"} /\ CanStep
  /\ loop = NoLoop   \* bound: one at a time
  /\ s.domain \in DOMAIN domains /\ DomainValues(s.domain) # {}
  /\ loop' = [what |-> s.what, left |-> DomainValues(s.domain)]
  /\ UNCHANGED <<domains, values, store, scopes>>

\* The next value is a string, whatever its domain is.
NextValue ==
  /\ CanStep /\ loop # NoLoop /\ ~Refused(loop.what, "every")
  /\ \E v \in loop.left :
       /\ Put(loop.what, [value |-> v, domain |-> "string", readonly |-> FALSE,
                          secret |-> "unknown", fromSecret |-> FALSE], "variables")
       /\ loop' = [loop EXCEPT !.left = @ \ {v}]
  /\ UNCHANGED <<domains, scopes>>

\* The statement was true or false of enough values, or the variable cannot be
\* set.  The variable keeps the last value.
EndQuantifier ==
  /\ CanStep /\ loop # NoLoop
  /\ loop' = NoLoop
  /\ IF scenario = "none" THEN scoped' = values /\ base' = values ELSE UNCHANGED <<scoped, base>>
  /\ UNCHANGED <<domains, values, store, scenario>>

-----------------------------------------------------------------------------
(* Features and scenarios *)

\* The hook of VariablesStepper, after whatever ended the feature before; doFeature
\* begins with no variables of its own.
NewFeature ==
  /\ CanStep
  /\ values' = NoVariables
  /\ store' = [n \in Name |-> IF store[n] # Unset /\ store[n].graph = "variables" THEN Unset ELSE store[n]]
  /\ scoped' = NoVariables /\ base' = NoVariables
  /\ scenario' = "none" /\ loop' = NoLoop
  /\ UNCHANGED domains

\* A "Feature:" line after a scenario: back to what was set before scenarios.
FeatureLine ==
  /\ scenario = "running" /\ loop = NoLoop
  /\ values' = base /\ scoped' = base /\ store' = StoreOf(base)
  /\ scenario' = "none"
  /\ UNCHANGED <<domains, base, loop>>

\* After a scenario the next one is to begin with its variables.
ScopedAtEnd == IF scenario = "running" THEN values ELSE scoped

ScenarioLine ==
  /\ scenario \in {"none", "running"} /\ loop = NoLoop
  /\ scoped' = ScopedAtEnd
  /\ scenario' = "starting"
  /\ UNCHANGED <<domains, values, store, base, loop>>

\* Variant: the values are copied without their quads.
CopiesValues == NoVariables

\* What is in the store of the copy.
CopiedStore == StoreOf(scoped)

\* The startScenario hook of VariablesStepper.
StartScenario ==
  /\ scenario = "starting"
  /\ values' = scoped /\ store' = CopiedStore
  /\ scenario' = "running"
  /\ UNCHANGED <<domains, scoped, base, loop>>

\* An event of a stepper, at any time.
SetForStepper ==
  /\ \E n \in Dotted, v \in Value :
       Put(n, [value |-> v, domain |-> "string", readonly |-> FALSE,
               secret |-> "unknown", fromSecret |-> FALSE], "observation")
  /\ UNCHANGED <<domains, scopes, loop>>

-----------------------------------------------------------------------------
Declare(s) == DefineValues(s) \/ DefineOpenSet(s)
Assigning(s) == Set(s) \/ SetAs(s) \/ SetRandom(s) \/ Compose(s) \/ Increment(s) \/ UnsetStep(s)
                  \/ Save(s) \/ ReadFileInto(s)

Next ==
  \/ \E s \in Vocabulary : Count /\ (Declare(s) \/ Assigning(s) \/ BeginQuantifier(s))
  \/ Count /\ SetForStepper
  \/ UNCHANGED taken /\ (NextValue \/ EndQuantifier \/ OtherStep)
  \/ UNCHANGED taken /\ (NewFeature \/ FeatureLine \/ ScenarioLine \/ StartScenario)

Spec == Init /\ [][Next]_vars
-----------------------------------------------------------------------------
(* Properties *)

\* Types; a scenario or a quantifier that runs has what it goes on with.
TypeOK ==
  /\ CoreDomain \subseteq DOMAIN domains /\ DOMAIN domains \subseteq CoreDomain \union Declarable
  /\ \A d \in DOMAIN domains :
       /\ domains[d].accepts \subseteq Value /\ domains[d].members \subseteq domains[d].accepts
       /\ domains[d].order \in Seq(domains[d].members)
  /\ \A n \in Name :
       /\ values[n] = Unset \/ values[n] \in Stored
       /\ scoped[n] = Unset \/ scoped[n] \in Stored
       /\ base[n] = Unset \/ base[n] \in Stored
  /\ scenario \in {"none", "starting", "running"}
  /\ taken \in 0..MaxSteps
  /\ loop.left \subseteq Value /\ (scenario = "starting" => loop = NoLoop)

\* "Domains are safeguards.  They define exactly what values are allowed"
\* (docs/architecture.md:220): whatever step set a variable, and whatever copy it
\* came back from, its value is one of its domain's.
InDomain == \A n \in Name : values[n] # Unset => Accepts(values[n].domain, values[n].value)

\* A read-only variable keeps its value until it is unset or until a scenario or
\* feature begins, whatever statement sets variables; only the contents of a file
\* overwrite it.
ReadOnlyStays ==
  [][\A n \in Name :
       values[n] # Unset /\ values[n].readonly /\ scenario' = scenario
         => values'[n] \in {values[n], Unset} \/ \E s \in Vocabulary : ReadFileInto(s) /\ s.what = n]_vars

\* What was set or composed from a secret value is secret itself, also under a
\* name that is not (the variable of a quantifier is not).
SecretsStaySecret == \A n \in Name : values[n] # Unset /\ values[n].fromSecret => IsSecret(n)

\* The store agrees with the values: the latest quad about each variable is its
\* value, also after the variables were copied to another store.
StoreAgrees ==
  \A n \in Name : values[n] # Unset =>
    store[n] # Unset /\ store[n].predicate = values[n].domain /\ store[n].object = values[n].value

\* A value is one its domain allows and tells no secret under an open name.
ValuesAreSafe == InDomain /\ SecretsStaySecret

\* A scenario begins with every variable that steps set before it.
ScenariosKeepVariables ==
  [][StartScenario => \A n \in Name \ Dotted : values'[n] = values[n]]_vars

\* An increment of a variable of an ordered domain goes on but passes over no value, until it stays
\* at the last: a loop that increments while the variable is less than a value of its domain gets to
\* that value and stops there.
IncrementTakesNext ==
  [][\A s \in Vocabulary : Increment(s) =>
       LET order == domains[values[s.what].domain].order
           here == Place(order, values[s.what].value)
           there == Place(order, values'[s.what].value)
       IN  order # <<>> =>
             /\ IF here = Len(order) THEN there = here ELSE here < there
             /\ \A w \in ValuesOf(order) : here < Place(order, w) => there <= Place(order, w)]_vars

\* No step changes a value that is not its to change, or by more than it may.
StepsRespectValues == ReadOnlyStays /\ ScenariosKeepVariables /\ IncrementTakesNext
=============================================================================
