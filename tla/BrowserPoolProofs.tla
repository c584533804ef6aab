------------------------- MODULE BrowserPoolProofs -------------------------
(***************************************************************************)
(* Theorems about BrowserPool, for every setup: whatever popups, containers, *)
(* headers, downloads and copies come between the awaits of its steps, a     *)
(* statement acts on an open page of its own feature, and a copy that the    *)
(* twin page knew of is in its file.  A page opened before two getPage calls *)
(* of its feature overlapped can be reached by a tab and is closed with its  *)
(* feature.                                                                *)
(*                                                                         *)
(* These speak of moments between steps or after a feature.  IInv says what  *)
(* holds within them: which page, tab and header a step that awaits will use *)
(* when it goes on (StepInv, PagesInv, ReachInv, HeadersInv), which step a    *)
(* getPage under way is of and that calls which have not overlapped are one  *)
(* (CallsInv, ApartInv), what a feature still has while it closes (LeftInv,  *)
(* FilesInv), and that a copy is due only while the twin page is read        *)
(* (TwinInv).  Each action keeps each part; a part whose variables an action *)
(* leaves alone is kept by Framed.                                           *)
(***************************************************************************)
EXTENDS BrowserPool, SequenceTheorems, TLAPS

Auth == {"none", "basic", "bearer"}
States == {"asked", "placed", "settled", "due", "written", "written early", "lost", "lost early", "failed"}
Urls == Url \cup {FirstUrl}
Ids == Nat \X Nat

OnPage == step.at \in {"patching", "page", "headers", "fetching"}

StepType == [at : {"none", "getting", "patching", "page", "waiting", "headers", "fetching"},
             how : {"none", "with", "get"}, page : Nat, tab : 0..MaxTab, auth : Auth]
CallType == [feature : Nat, step : Nat, at : {"launching", "context", "creating"}, tab : 0..MaxTab,
             browser : Ids, context : Ids, late : BOOLEAN, current : BOOLEAN]
PageType == [feature : Nat, context : Ids, browser : Ids, popup : BOOLEAN, open : BOOLEAN, handlers : Nat, url : Urls,
             alone : BOOLEAN, late : BOOLEAN]
CopyType == [page : Nat, state : States]
TwinType == [url : Urls \cup {"none"}, wrote : BOOLEAN, at : {"idle", "reading", "saving", "setting"},
             copies : Seq(CopyType)]
ExpectedType == [at : {"none", "asking", "waiting", "done", "failed"}, page : Nat, call : Ids]
ContextType == [id : Ids, browser : Ids, auth : Auth, agent : BOOLEAN]
HistoryType == [wentBack : BOOLEAN, threw : BOOLEAN, late : BOOLEAN, closed : BOOLEAN, apart : BOOLEAN]

FeatureTypes ==
  /\ MaxTab \in Nat
  /\ setup.features \in Nat \ {0} /\ setup.steps \in Nat /\ setup.pages \in Nat
  /\ feature \in 1..setup.features /\ phase \in {"body", "closing", "writing", "ended", "failed"}
  /\ steps \in 0..setup.steps /\ tab \in 0..MaxTab /\ factory \in BOOLEAN
  /\ auth \in Auth /\ agent \in BOOLEAN
  /\ history \in HistoryType

CallTypes == running \in Ids /\ \A c \in calls : c \in CallType /\ c.feature \in 1..feature

PageTypes ==
  /\ step \in StepType /\ opened \in Seq(PageType) /\ \A p \in DOMAIN opened : opened[p].feature \in 1..feature
  /\ DOMAIN pages \subseteq (1..feature) \X (0..MaxTab) /\ \A k \in DOMAIN pages : pages[k] \in DOMAIN opened
  /\ contexts \in [DOMAIN contexts -> ContextType] /\ DOMAIN contexts \subseteq 1..feature
  /\ \A h \in popups : h[1] \in DOMAIN opened
  /\ step.page \in 0..Len(opened) /\ container \in 0..Len(opened) /\ inside \in Seq(Nat)

FileTypes ==
  /\ expected \in ExpectedType /\ downloaded \in Seq(File) /\ files \subseteq File /\ twin \in TwinType

\* A step runs in the body of a feature or late, after it, and only once it is counted the next.
StepInv ==
  /\ step.at # "none" => phase \in {"body", "ended"} /\ steps < setup.steps
  /\ OnPage => step.page # 0
  /\ step.at = "none" => step.page = 0
  /\ step.at \in {"headers", "fetching"} => feature \in DOMAIN contexts
  /\ phase = "ended" /\ step.at \notin {"none", "waiting"} => history.late

\* No two calls have the name of one step, the present step has one only while it waits for it.
CallsInv ==
  /\ \A c, d \in calls : Id(c) = Id(d) => c = d
  /\ \A c \in calls : c.current => factory
  /\ \A c \in calls : c.feature = feature =>
       /\ c.step <= steps
       /\ c.step = steps => step.at = "getting" /\ c.current
       /\ c.late => phase = "ended"
       /\ c.current /\ ~c.late => ~history.closed

\* As long as no two calls of the feature overlap, the one there may be leads to the feature's
\* context and to the browser that runs.
ApartInv ==
  history.apart =>
    /\ \A c \in calls : calls = {c} /\ c.feature = feature
    /\ \A c \in calls : c.at = "creating" /\ c.current => feature \in DOMAIN contexts
    /\ feature \in DOMAIN contexts =>
         \A c \in calls : c.at = "creating" /\ c.context = contexts[feature].id
    /\ ~Using("persistent") =>
         /\ feature \in DOMAIN contexts => running # None /\ contexts[feature].browser = running
         /\ \A c \in calls : c.at # "launching" => running # None /\ c.browser = running

\* A page of the factory is open and of the feature of its key; a handler awaits an open popup.
PagesInv ==
  /\ \A k \in DOMAIN pages : opened[pages[k]].open /\ opened[pages[k]].feature = k[1]
  /\ \A h \in popups : opened[h[1]].popup /\ opened[h[1]].open
  /\ OnPage /\ container = 0 => opened[step.page].open /\ opened[step.page].feature = feature
  /\ OnPage /\ Using("popups") => opened[step.page].handlers > 0
  /\ container # 0 /\ Using("popups") => opened[container].handlers > 0

\* No tab after the current one has a page of the feature, nor is one asked for; a page asked for
\* takes the place of none but those whose calls overlapped.
ReachInv ==
  phase = "body" /\ ~history.wentBack =>
    /\ \A k \in DOMAIN pages : k[1] = feature => k[2] <= tab
    /\ \A c \in calls : c.current /\ c.feature = feature =>
         /\ c.tab <= tab
         /\ Key(feature, c.tab) \in DOMAIN pages => ~opened[pages[Key(feature, c.tab)]].alone
    /\ PagesAreReachable

\* An open page of the feature is one of its context, and no call is to make another.
OfContext(p) ==
  /\ opened[p].feature = feature /\ ~history.closed /\ factory
  /\ feature \in DOMAIN contexts /\ opened[p].context = contexts[feature].id
  /\ \A c \in calls : c.current /\ c.feature = feature => c.at = "creating"

\* An open page is one of the browser that runs, and no call is to launch another.
OfBrowser(p) ==
  /\ factory /\ running # None /\ opened[p].browser = running
  /\ \A c \in calls : c.at # "launching"

\* What is open and was asked for alone is of the context or, if late, of the browser that is closed.
LeftInv ==
  /\ phase \in {"writing", "ended"} /\ ~history.closed => feature = setup.features
  /\ phase \in {"body", "closing"} => ~history.closed
  /\ \A p \in DOMAIN opened : opened[p].open /\ opened[p].alone =>
       /\ ~opened[p].late => OfContext(p)
       /\ opened[p].late => opened[p].feature < feature \/ phase = "ended"
       /\ opened[p].late /\ ~Using("persistent") =>
            OfBrowser(p) /\ (history.closed => opened[p].feature = feature)

\* The context has the stepper's headers but between the two assignments of a step.
HeadersInv ==
  phase = "body" /\ history.apart =>
    /\ feature \notin DOMAIN contexts => auth = "none"
    /\ feature \in DOMAIN contexts =>
         /\ ContextHeaders.auth = IF step.at = "headers" THEN step.auth ELSE auth
         /\ ContextHeaders.agent = (step.at = "fetching" /\ agent)

\* A file on disk is one that was downloaded, and none is after a feature has closed.
FilesInv ==
  /\ phase # "failed" => files \subseteq ToSet(downloaded)
  /\ phase \in {"writing", "ended"} /\ history.closed /\ ~history.late => files = {}
  /\ expected.at \in {"waiting", "done"} => expected.page \in DOMAIN opened

\* A copy is due only while the page is read; what is settled is known to be written.
TwinInv ==
  /\ \A i \in DOMAIN twin.copies : /\ twin.copies[i].state = "due" => twin.at = "reading"
                                   /\ twin.copies[i].state = "settled" => twin.wrote
  /\ phase = "writing" => twin.at \in {"reading", "saving"}
  /\ twin.at # "idle" => phase = "writing" \/ step.at = "patching"

IInv ==
  /\ FeatureTypes /\ CallTypes /\ PageTypes /\ FileTypes /\ StepInv /\ CallsInv /\ ApartInv
  /\ PagesInv /\ ReachInv /\ LeftInv /\ HeadersInv /\ FilesInv /\ TwinInv /\ ContainerInScope
-----------------------------------------------------------------------------
(* Functions and sequences of the model.                                    *)

\* Assign gives one key a value and leaves the others theirs.
LEMMA AssignIs ==
  ASSUME NEW f, NEW k, NEW v
  PROVE  /\ DOMAIN Assign(f, k, v) = DOMAIN f \cup {k}
         /\ Assign(f, k, v)[k] = v
         /\ \A x \in DOMAIN f : x # k => Assign(f, k, v)[x] = f[x]
BY DEF Assign

\* A sequence and one more element.
LEMMA Appended ==
  ASSUME NEW S, NEW s \in Seq(S), NEW e \in S
  PROVE  /\ Append(s, e) \in Seq(S) /\ Len(s) \in Nat /\ Len(Append(s, e)) = Len(s) + 1
         /\ DOMAIN s = 1..Len(s) /\ DOMAIN Append(s, e) = DOMAIN s \cup {Len(s) + 1} /\ Len(s) + 1 \notin DOMAIN s
         /\ Append(s, e)[Len(s) + 1] = e /\ \A i \in DOMAIN s : Append(s, e)[i] = s[i]
OBVIOUS

\* A sequence of which elements are replaced.
LEMMA Replaced ==
  ASSUME NEW S, NEW s \in Seq(S), NEW t \in [DOMAIN s -> S]
  PROVE  t \in Seq(S) /\ DOMAIN t = DOMAIN s /\ Len(t) = Len(s)
<1>1. DOMAIN s = 1..Len(s) /\ Len(s) \in Nat
  OBVIOUS
<1>2. t \in [1..Len(s) -> S]
  BY <1>1
<1>3. t \in Seq(S)
  BY <1>1, <1>2, IsASeq
<1>4. DOMAIN t = 1..Len(t) /\ Len(t) \in Nat
  BY <1>3
<1> QED
  BY <1>1, <1>2, <1>3, <1>4

\* The first of a sequence.
LEMMA Fronted ==
  ASSUME NEW S, NEW s \in Seq(S), s # <<>>
  PROVE  Front(s) \in Seq(S)
BY DEF Front

\* What is in a sequence with one more element.
LEMMA Listed ==
  ASSUME NEW S, NEW s \in Seq(S), NEW e \in S
  PROVE  Append(s, e) \in Seq(S) /\ ToSet(Append(s, e)) = ToSet(s) \cup {e}
BY Appended DEF ToSet

\* A step that is done is counted, and the bound is kept since it began below it.
LEMMA Counted ==
  ASSUME FeatureTypes, StepInv, step.at # "none", steps' = steps + 1,
         UNCHANGED <<setup, feature, phase, tab, factory, auth, agent, history>>
  PROVE  FeatureTypes'
BY DEF FeatureTypes, StepInv

\* What a step that asks for a page notes in the history.
LEMMA Noted ==
  ASSUME FeatureTypes, history' = AskedLate
  PROVE  /\ history' \in HistoryType
         /\ history'.wentBack = history.wentBack /\ history'.threw = history.threw /\ history'.closed = history.closed
         /\ history'.apart = history.apart
         /\ (phase # "ended" => history' = history) /\ (phase = "ended" => history'.late)
BY DEF FeatureTypes, AskedLate, HistoryType

\* No step.
LEMMA Idle ==
  ASSUME FeatureTypes
  PROVE  NoStep \in StepType /\ NoStep.at = "none" /\ NoStep.page = 0
BY DEF FeatureTypes, NoStep, StepAt, StepType, Auth

\* The record a step has with its page.
LEMMA Begun ==
  ASSUME FeatureTypes, NEW how \in HowOf, NEW p \in Nat
  PROVE  /\ Gotten(how, p) \in StepType /\ Gotten(how, p).at \in {"patching", "page"} /\ Gotten(how, p).page = p
<1>2. how \in {"with", "get"} /\ tab \in 0..MaxTab
  BY DEF FeatureTypes, HowOf
<1> HIDE DEF Using
<1> QED
  BY <1>2 DEF Gotten, StepAt, StepType, Auth

\* The twin page gets a copy that has been asked for.
LEMMA Copied ==
  ASSUME FileTypes, step.page \in Nat
  PROVE  /\ WithCopy \in TwinType /\ WithCopy.at = twin.at /\ WithCopy.wrote = twin.wrote
         /\ DOMAIN twin.copies \subseteq DOMAIN WithCopy.copies
         /\ \A i \in DOMAIN WithCopy.copies :
              \/ i \in DOMAIN twin.copies /\ WithCopy.copies[i] = twin.copies[i]
              \/ i \notin DOMAIN twin.copies /\ WithCopy.copies[i].state = "asked"
         /\ \A i \in DOMAIN twin.copies : WithCopy.copies[i] = twin.copies[i]
<1> DEFINE c == [page |-> step.page, state |-> "asked"]
           t == [twin EXCEPT !.copies = Append(@, c)]
<1>1. twin \in TwinType
  BY DEF FileTypes
<1>2. c \in CopyType /\ c.state = "asked"
  BY DEF CopyType, States
<1>3. WithCopy = t \/ WithCopy = twin
  BY DEF WithCopy
<1> HIDE DEF c
<1>4. twin.copies \in Seq(CopyType)
  BY <1>1 DEF TwinType
<1>5. /\ Append(twin.copies, c) \in Seq(CopyType)
      /\ DOMAIN Append(twin.copies, c) = DOMAIN twin.copies \cup {Len(twin.copies) + 1}
      /\ Len(twin.copies) + 1 \notin DOMAIN twin.copies
      /\ Append(twin.copies, c)[Len(twin.copies) + 1] = c
      /\ \A i \in DOMAIN twin.copies : Append(twin.copies, c)[i] = twin.copies[i]
  BY <1>2, <1>4, Appended
<1>6. t \in TwinType /\ t.copies = Append(twin.copies, c) /\ t.at = twin.at /\ t.wrote = twin.wrote
  BY <1>1, <1>5 DEF TwinType
<1> HIDE DEF t
<1>7. CASE WithCopy = twin
  BY <1>1, <1>7
<1>8. CASE WithCopy = t
  BY <1>2, <1>5, <1>6, <1>8
<1> QED
  BY <1>3, <1>7, <1>8

\* Copies of which only states are others.
LEMMA Recopied ==
  ASSUME FileTypes, NEW c \in [DOMAIN twin.copies -> CopyType]
  PROVE  c \in Seq(CopyType) /\ DOMAIN c = DOMAIN twin.copies
BY Replaced DEF FileTypes, TwinType

\* The settled copies are due.
LEMMA DueCopies ==
  ASSUME FileTypes
  PROVE  LET c == CopiesFrom({"settled"}, "due")
         IN  /\ c \in Seq(CopyType) /\ DOMAIN c = DOMAIN twin.copies
             /\ \A i \in DOMAIN c : /\ c[i].state = "due" => twin.copies[i].state \in {"due", "settled"}
                                    /\ c[i].state # "settled"
                                    /\ twin.copies[i].state = "due" => c[i].state = "due"
<1> DEFINE c == CopiesFrom({"settled"}, "due")
<1>1. \A i \in DOMAIN twin.copies : twin.copies[i] \in CopyType
  BY DEF FileTypes, TwinType
<1>2. c \in [DOMAIN twin.copies -> CopyType]
  BY <1>1 DEF CopiesFrom, CopyType, States
<1>3. \A i \in DOMAIN twin.copies :
        c[i].state = IF twin.copies[i].state = "settled" THEN "due" ELSE twin.copies[i].state
  BY <1>1 DEF CopiesFrom, CopyType
<1> HIDE DEF c
<1>4. c \in Seq(CopyType) /\ DOMAIN c = DOMAIN twin.copies
  BY <1>2, Recopied
<1>5. c \in Seq(CopyType) /\ DOMAIN c = DOMAIN twin.copies /\ \A i \in DOMAIN c :
        /\ c[i].state = "due" => twin.copies[i].state \in {"due", "settled"}
        /\ c[i].state # "settled"
        /\ twin.copies[i].state = "due" => c[i].state = "due"
  BY <1>3, <1>4
<1> QED
  BY <1>5 DEF c

\* Nothing is due or settled on a page that is cleared.
LEMMA ClearedCopies ==
  ASSUME FileTypes
  PROVE  /\ Cleared \in Seq(CopyType) /\ DOMAIN Cleared = DOMAIN twin.copies
         /\ \A i \in DOMAIN Cleared : Cleared[i].state \notin {"settled", "due"}
<1>1. \A i \in DOMAIN twin.copies : twin.copies[i] \in CopyType
  BY DEF FileTypes, TwinType
<1>2. Cleared \in [DOMAIN twin.copies -> CopyType]
  BY <1>1 DEF Cleared, CopyType, States
<1>3. \A i \in DOMAIN twin.copies : Cleared[i].state \notin {"settled", "due"}
  BY <1>1 DEF Cleared, CopyType, States
<1> QED
  BY <1>2, <1>3, Recopied

-----------------------------------------------------------------------------
(* The initial states.                                                      *)

LEMMA InitHolds == Init => IInv
<1> SUFFICES ASSUME Init PROVE IInv
  OBVIOUS
<1> USE DEF Init
<1>0. MaxTab \in Nat /\ setup.features \in Nat \ {0} /\ setup.steps \in Nat /\ setup.pages \in Nat
  BY BrowserPoolAssumption
<1>1. FeatureTypes
  <2>1. feature \in 1..setup.features /\ steps \in 0..setup.steps /\ tab \in 0..MaxTab
    BY <1>0
  <2>2. history \in HistoryType
    BY DEF HistoryType
  <2> QED
    BY <1>0, <2>1, <2>2 DEF FeatureTypes, Auth
<1>2. PageTypes
  BY <1>1 DEF PageTypes, FeatureTypes, StepType, NoStep, StepAt, Auth
<1>3. FileTypes
  BY DEF FileTypes, ExpectedType, TwinType, None, Ids
<1>4. StepInv /\ PagesInv /\ CallTypes /\ CallsInv /\ ApartInv
  BY DEF StepInv, PagesInv, OnPage, NoStep, StepAt, CallTypes, CallsInv, ApartInv, None, Ids
<1>5. ReachInv /\ LeftInv
  BY <1>1 DEF ReachInv, LeftInv, PagesAreReachable, FeatureTypes, NoStep, StepAt
<1>6. HeadersInv /\ FilesInv /\ TwinInv /\ ContainerInScope
  BY DEF HeadersInv, FilesInv, TwinInv, ContainerInScope, NoStep, StepAt
<1> QED
  BY <1>1, <1>2, <1>3, <1>4, <1>5, <1>6 DEF IInv
-----------------------------------------------------------------------------
\* Each part of the invariant is of the variables it names.
LEMMA Framed ==
  /\ FeatureTypes /\ UNCHANGED <<setup, feature, phase, steps, tab, factory, auth, agent, history>> => FeatureTypes'
  /\ CallTypes /\ UNCHANGED <<calls, running, feature>> => CallTypes'
  /\ PageTypes /\ UNCHANGED <<step, opened, pages, feature, contexts, popups, container, inside>> => PageTypes'
  /\ FileTypes /\ UNCHANGED <<expected, downloaded, files, twin>> => FileTypes'
  /\ StepInv /\ UNCHANGED <<step, phase, steps, setup, feature, contexts, history.late>> => StepInv'
  /\ CallsInv /\ UNCHANGED <<calls, factory, feature, steps, step, phase, history.closed>> => CallsInv'
  /\ ApartInv /\ UNCHANGED <<history.apart, calls, feature, contexts, setup, running>> => ApartInv'
  /\ PagesInv /\ UNCHANGED <<pages, opened, popups, step, container, feature, setup>> => PagesInv'
  /\ ReachInv /\ UNCHANGED <<phase, history.wentBack, pages, feature, tab, calls, opened, popups>> => ReachInv'
  /\ LeftInv /\ UNCHANGED <<phase, history.closed, feature, setup, opened, factory, running, contexts, calls>> => LeftInv'
  /\ HeadersInv /\ UNCHANGED <<phase, history.apart, feature, contexts, step, auth, agent>> => HeadersInv'
  /\ FilesInv /\ UNCHANGED <<phase, files, downloaded, history.closed, history.late, expected, opened>> => FilesInv'
  /\ TwinInv /\ UNCHANGED <<twin, phase, step>> => TwinInv'
  /\ ContainerInScope /\ UNCHANGED <<container, inside, history.threw>> => ContainerInScope'
<1>1. FeatureTypes /\ UNCHANGED <<setup, feature, phase, steps, tab, factory, auth, agent, history>> => FeatureTypes'
  BY DEF FeatureTypes, Auth, HistoryType
<1>2. CallTypes /\ UNCHANGED <<calls, running, feature>> => CallTypes'
  BY DEF CallTypes, CallType, Ids
<1>3. PageTypes /\ UNCHANGED <<step, opened, pages, feature, contexts, popups, container, inside>> => PageTypes'
  BY DEF PageTypes, StepType, PageType, ContextType, Auth
<1>4. FileTypes /\ UNCHANGED <<expected, downloaded, files, twin>> => FileTypes'
  BY DEF FileTypes, CopyType, TwinType, ExpectedType, States
<1>5. StepInv /\ UNCHANGED <<step, phase, steps, setup, feature, contexts, history.late>> => StepInv'
  BY DEF StepInv, OnPage
<1>6. CallsInv /\ UNCHANGED <<calls, factory, feature, steps, step, phase, history.closed>> => CallsInv'
  BY DEF CallsInv, Id
<1>7. ApartInv /\ UNCHANGED <<history.apart, calls, feature, contexts, setup, running>> => ApartInv'
  BY DEF ApartInv, Using
<1>8. PagesInv /\ UNCHANGED <<pages, opened, popups, step, container, feature, setup>> => PagesInv'
  BY DEF PagesInv, OnPage, Using
<1>9. ReachInv /\ UNCHANGED <<phase, history.wentBack, pages, feature, tab, calls, opened, popups>> => ReachInv'
  BY DEF ReachInv, Key, PagesAreReachable
<1>10. LeftInv /\ UNCHANGED <<phase, history.closed, feature, setup, opened, factory, running, contexts, calls>> => LeftInv'
  BY DEF LeftInv, OfContext, OfBrowser, Using
<1>11. HeadersInv /\ UNCHANGED <<phase, history.apart, feature, contexts, step, auth, agent>> => HeadersInv'
  BY DEF HeadersInv, ContextHeaders
<1>12. FilesInv /\ UNCHANGED <<phase, files, downloaded, history.closed, history.late, expected, opened>> => FilesInv'
  BY DEF FilesInv
<1>13. TwinInv /\ UNCHANGED <<twin, phase, step>> => TwinInv'
  BY DEF TwinInv
<1>14. ContainerInScope /\ UNCHANGED <<container, inside, history.threw>> => ContainerInScope'
  BY DEF ContainerInScope
<1> QED
  BY <1>1, <1>2, <1>3, <1>4, <1>5, <1>6, <1>7, <1>8, <1>9, <1>10, <1>11, <1>12, <1>13, <1>14

\* Calls are not disturbed by a step that does not wait for one, be it counted or not.
LEMMA CallsStay ==
  ASSUME FeatureTypes, CallTypes, CallsInv, step.at # "getting", steps' \in {steps, steps + 1},
         UNCHANGED <<calls, factory, feature, phase, history.closed>>
  PROVE  CallsInv'
<1>1. ASSUME NEW c \in calls, c.feature = feature PROVE c.step < steps /\ c.step \in Nat
  <2>1. c.step \in Nat /\ steps \in Nat
    BY DEF CallTypes, CallType, FeatureTypes
  <2>2. c.step <= steps /\ c.step # steps
    BY <1>1 DEF CallsInv
  <2> QED
    BY <2>1, <2>2
<1>2. steps \in Nat
  BY DEF FeatureTypes
<1>3. ASSUME NEW c \in calls, c.feature = feature PROVE c.step <= steps' /\ c.step # steps'
  BY <1>1, <1>2, <1>3
<1> QED
  BY <1>3 DEF CallsInv, Id

\* Nor is what the factory has.
LEMMA Unmoved ==
  ASSUME FeatureTypes, CallTypes, CallsInv, ApartInv, ReachInv, LeftInv, step.at # "getting", steps' \in {steps, steps + 1},
         UNCHANGED <<setup, feature, phase, tab, factory, calls, running, pages, contexts, opened, popups, history.wentBack,
                     history.closed, history.apart>>
  PROVE  CallTypes' /\ CallsInv' /\ ApartInv' /\ ReachInv' /\ LeftInv'
BY CallsStay, Framed

\* A context keeps its name and its browser when it gets other headers.
LEMMA ContextsStay ==
  ASSUME ApartInv, LeftInv, DOMAIN contexts' = DOMAIN contexts,
         feature \in DOMAIN contexts =>
           contexts'[feature].id = contexts[feature].id /\ contexts'[feature].browser = contexts[feature].browser,
         UNCHANGED <<setup, feature, phase, factory, calls, running, opened, history.closed, history.apart>>
  PROVE  ApartInv' /\ LeftInv'
<1>1. ApartInv'
  BY DEF ApartInv, Using
<1>2. LeftInv'
  BY DEF LeftInv, OfContext, OfBrowser, Using
<1> QED
  BY <1>1, <1>2

\* A page is as reachable, and as sure to be closed, with another handler or URL.
LEMMA OpenedStay ==
  ASSUME PageTypes, ReachInv, LeftInv, DOMAIN opened' = DOMAIN opened,
         \A x \in DOMAIN opened :
           /\ opened'[x].feature = opened[x].feature /\ opened'[x].context = opened[x].context
           /\ opened'[x].browser = opened[x].browser /\ opened'[x].open = opened[x].open
           /\ opened'[x].alone = opened[x].alone /\ opened'[x].late = opened[x].late,
         UNCHANGED <<setup, feature, phase, tab, factory, calls, running, pages, contexts, popups, history.wentBack,
                     history.closed>>
  PROVE  ReachInv' /\ LeftInv'
<1>1. ReachInv'
  BY DEF ReachInv, PagesAreReachable, Key, PageTypes
<1>2. LeftInv'
  BY DEF LeftInv, OfContext, OfBrowser, Using
<1> QED
  BY <1>1, <1>2

-----------------------------------------------------------------------------
(* Calls of getPage.                                                        *)

\* A new call is in order, whether the step waits for it or expects a download of it.
LEMMA AskKeeps ==
  ASSUME FeatureTypes, CallTypes, PageTypes, CallsInv, ApartInv, ReachInv, LeftInv, HeadersInv, CanStep, Ask,
         (step'.at = "getting" /\ steps' = steps) \/ (step' = step /\ steps' = steps + 1),
         UNCHANGED <<setup, feature, phase, tab, running, pages, contexts, opened, popups, auth, agent>>
  PROVE  CallTypes' /\ CallsInv' /\ ApartInv' /\ ReachInv' /\ LeftInv' /\ HeadersInv'
<1> DEFINE q == Asked
           has == feature \in DOMAIN contexts
<1>a. /\ q.feature = feature /\ q.step = steps /\ q.tab = tab /\ q.current /\ (q.late = (phase = "ended"))
      /\ q.at = IF has THEN "creating" ELSE IF Using("persistent") \/ running # None THEN "context" ELSE "launching"
      /\ q.browser = IF has THEN contexts[feature].browser ELSE running
      /\ has => q.context = contexts[feature].id
  BY DEF Asked
<1>b. q \in CallType
  <2>1. feature \in Nat /\ steps \in Nat /\ tab \in 0..MaxTab /\ running \in Ids
    BY DEF FeatureTypes, CallTypes
  <2>2. has => contexts[feature].browser \in Ids /\ contexts[feature].id \in Ids
    BY DEF PageTypes, ContextType
  <2>3. None \in Ids
    BY DEF None, Ids
  <2> HIDE DEF Ids, Using
  <2> QED
    BY <2>1, <2>2, <2>3 DEF Asked, CallType
<1>c. /\ calls' = calls \cup {q} /\ factory' /\ Key(feature, tab) \notin DOMAIN pages
      /\ step.at = "none" /\ phase \in {"body", "ended"}
      /\ history'.apart = (history.apart /\ calls = {})
      /\ history'.wentBack = history.wentBack /\ history'.closed = history.closed
  BY DEF Ask, HasPage, CanStep, AskedLate, FeatureTypes, HistoryType
<1>d. UNCHANGED <<setup, feature, phase, tab, running, pages, contexts, opened, popups, auth, agent>>
  OBVIOUS
<1> HIDE DEF q
<1>1. CallTypes'
  BY <1>a, <1>b, <1>c, <1>d DEF CallTypes, FeatureTypes
<1>2. CallsInv'
  <2>1. ASSUME NEW c \in calls, c.feature = feature PROVE c.step < steps /\ c.step \in Nat
    <3>1. c.step \in Nat /\ steps \in Nat
      BY DEF CallTypes, CallType, FeatureTypes
    <3>2. c.step <= steps /\ c.step # steps
      BY <1>c, <2>1 DEF CallsInv
    <3> QED
      BY <3>1, <3>2
  <2>2. steps \in Nat
    BY DEF FeatureTypes
  <2>3. \A c \in calls : Id(c) # Id(q)
    BY <1>a, <2>1 DEF Id
  <2>4. \A c, d \in calls' : Id(c) = Id(d) => c = d
    BY <1>c, <2>3 DEF CallsInv
  <2>5. ASSUME NEW c \in calls', c.feature = feature
        PROVE  /\ c.step <= steps' /\ (c.step = steps' => step'.at = "getting" /\ c.current)
               /\ (c.late => phase = "ended") /\ (c.current /\ ~c.late => ~history'.closed)
    <3>1. CASE c = q
      <4>1. phase = "body" => ~history.closed
        BY DEF LeftInv
      <4>2. c.step <= steps' /\ (c.step = steps' => step'.at = "getting" /\ c.current)
        BY <1>a, <1>c, <2>2, <3>1
      <4> QED
        BY <1>a, <1>c, <3>1, <4>1, <4>2
    <3>2. CASE c \in calls
      <4>1. c.step <= steps' /\ c.step # steps'
        BY <2>1, <2>2, <2>5, <3>2
      <4> QED
        BY <1>c, <2>5, <3>2, <4>1 DEF CallsInv
    <3> QED
      BY <1>c, <3>1, <3>2
  <2>6. \A c \in calls' : c.current => factory'
    BY <1>c
  <2>7. feature' = feature /\ phase' = phase
    BY <1>d
  <2> QED
    BY <2>4, <2>5, <2>6, <2>7 DEF CallsInv, Id
<1>3. ApartInv'
  <2> SUFFICES ASSUME history'.apart PROVE ApartInv'
    BY DEF ApartInv
  <2>1. history.apart /\ calls' = {q}
    BY <1>c
  <2>2. has /\ ~Using("persistent") => running # None /\ contexts[feature].browser = running
    BY <2>1 DEF ApartInv
  <2>3. Using("persistent")' = Using("persistent")
    BY <1>d DEF Using
  <2> HIDE DEF Using
  <2> QED
    BY <1>a, <1>d, <2>1, <2>2, <2>3 DEF ApartInv
<1>4. ReachInv'
  <2> SUFFICES ASSUME phase = "body", ~history.wentBack PROVE ReachInv'
    BY <1>c, <1>d DEF ReachInv
  <2>1. tab <= tab
    BY DEF FeatureTypes
  <2> QED
    BY <1>a, <1>c, <1>d, <2>1 DEF ReachInv, PagesAreReachable, Key
<1>5. LeftInv'
  <2>1. ASSUME NEW p \in DOMAIN opened PROVE OfContext(p) => OfContext(p)'
    BY <1>a, <1>c, <1>d DEF OfContext
  <2>2. ASSUME NEW p \in DOMAIN opened PROVE OfBrowser(p) => OfBrowser(p)'
    BY <1>a, <1>c, <1>d DEF OfBrowser
  <2>3. Using("persistent")' = Using("persistent")
    BY <1>d DEF Using
  <2> QED
    BY <1>c, <1>d, <2>1, <2>2, <2>3 DEF LeftInv
<1>6. HeadersInv'
  BY <1>c, <1>d DEF HeadersInv, ContextHeaders
<1> QED
  BY <1>1, <1>2, <1>3, <1>4, <1>5, <1>6

LEMMA AskPageKeeps ==
  ASSUME IInv, NEW how \in HowOf, AskPage(how)
  PROVE  IInv'
<1> USE DEF IInv
<1>a. /\ CanStep /\ Ask /\ ~InContainer(how) /\ step' = StepAt("getting", how, 0, tab)
      /\ UNCHANGED <<setup, feature, phase, steps, tab, running, pages, contexts, opened, popups, container, inside, auth,
                     agent, expected, downloaded, files, twin>>
  BY DEF AskPage, headers, downloads
<1>b. step' \in StepType /\ step'.page = 0 /\ step'.at = "getting" /\ step.at = "none" /\ twin.at = "idle"
      /\ phase \in {"body", "ended"} /\ steps < setup.steps
  BY <1>a DEF CanStep, HowOf, StepAt, StepType, FeatureTypes, Auth
<1>c. /\ factory' = TRUE /\ history' \in HistoryType /\ history'.threw = history.threw
      /\ history'.closed = history.closed /\ (phase # "ended" => history'.late = history.late)
      /\ (phase = "ended" => history'.late)
  BY <1>a DEF Ask, AskedLate, FeatureTypes, HistoryType
<1>1. CallTypes' /\ CallsInv' /\ ApartInv' /\ ReachInv' /\ LeftInv' /\ HeadersInv'
  BY <1>a, <1>b, AskKeeps
<1>2. FileTypes'
  BY <1>a, Framed
<1>3. FeatureTypes'
  BY <1>a, <1>c DEF FeatureTypes
<1>4. PageTypes'
  BY <1>a, <1>b DEF PageTypes
<1>5. StepInv'
  BY <1>a, <1>b, <1>c DEF StepInv, OnPage
<1>6. PagesInv'
  BY <1>a, <1>b DEF PagesInv, OnPage, Using
<1>7. FilesInv'
  BY <1>a, <1>c DEF FilesInv
<1>8. TwinInv'
  BY <1>a, <1>b DEF TwinInv
<1>9. ContainerInScope'
  BY <1>a, <1>c DEF ContainerInScope
<1> QED
  BY <1>1, <1>2, <1>3, <1>4, <1>5, <1>6, <1>7, <1>8, <1>9

\* A call that goes on keeps its name, its tab and its factory.
LEMMA CallGoesOn ==
  ASSUME CallTypes, CallsInv, ReachInv, NEW c \in calls, NEW d \in CallType, Becomes(c, d),
         d.feature = c.feature, d.step = c.step, d.tab = c.tab, d.late = c.late, d.current = c.current,
         UNCHANGED <<feature, phase, steps, step, tab, factory, pages, opened, popups, history>>
  PROVE  /\ CallsInv' /\ ReachInv'
         /\ \A x \in calls' : x \in CallType /\ x.feature \in 1..feature
         /\ calls' = (calls \ {c}) \cup {d} /\ (calls = {c} => calls' = {d})
<1>1. calls' = (calls \ {c}) \cup {d} /\ (calls = {c} => calls' = {d})
  BY DEF Becomes
<1>2. Id(d) = Id(c)
  BY DEF Id
<1>3. \A x, y \in calls' : Id(x) = Id(y) => x = y
  BY <1>1, <1>2 DEF CallsInv
<1>4. CallsInv'
  BY <1>1, <1>3 DEF CallsInv, Id
<1>5. ReachInv'
  BY <1>1 DEF ReachInv, PagesAreReachable, Key
<1>6. \A x \in calls' : x \in CallType /\ x.feature \in 1..feature
  BY <1>1 DEF CallTypes
<1> QED
  BY <1>1, <1>4, <1>5, <1>6

\* The name of a call is not None.
LEMMA Named ==
  ASSUME FeatureTypes, CallTypes, NEW c \in calls
  PROVE  Id(c) \in Ids /\ Id(c) # None
<1>1. c.feature \in Nat /\ c.feature # 0 /\ c.step \in Nat
  BY DEF FeatureTypes, CallTypes, CallType
<1> QED
  BY <1>1 DEF Id, Ids, None

LEMMA LaunchedKeeps ==
  ASSUME IInv, NEW c \in calls, Launched(c)
  PROVE  IInv'
<1> USE DEF IInv
<1> DEFINE d == [c EXCEPT !.at = "context", !.browser = Id(c)]
<1>a. /\ c.at = "launching" /\ running' = Id(c) /\ Becomes(c, d)
      /\ UNCHANGED <<setup, feature, phase, steps, step, tab, factory, pages, contexts, opened, popups, container,
                     inside, auth, agent, expected, downloaded, files, twin, history>>
  BY DEF Launched, headers, downloads
<1>b. c \in CallType /\ Id(c) \in Ids /\ Id(c) # None
  BY Named DEF CallTypes
<1>c. /\ d \in CallType /\ d.feature = c.feature /\ d.step = c.step /\ d.tab = c.tab /\ d.late = c.late
      /\ d.current = c.current /\ d.at = "context" /\ d.browser = Id(c)
  BY <1>b DEF CallType
<1> HIDE DEF d
<1>d. /\ CallsInv' /\ ReachInv' /\ \A x \in calls' : x \in CallType /\ x.feature \in 1..feature
      /\ calls' = (calls \ {c}) \cup {d} /\ (calls = {c} => calls' = {d})
  BY <1>a, <1>c, CallGoesOn
<1>1. CallTypes'
  BY <1>a, <1>b, <1>d DEF CallTypes
<1>2. FeatureTypes' /\ PageTypes' /\ FileTypes' /\ StepInv' /\ PagesInv' /\ HeadersInv' /\ FilesInv' /\ TwinInv'
      /\ ContainerInScope'
  BY <1>a, Framed
<1>3. ApartInv'
  <2> SUFFICES ASSUME history.apart PROVE ApartInv'
    BY <1>a DEF ApartInv
  <2>1. calls = {c} /\ c.feature = feature /\ feature \notin DOMAIN contexts
    BY <1>a DEF ApartInv
  <2>2. Using("persistent")' = Using("persistent")
    BY <1>a DEF Using
  <2> HIDE DEF Using
  <2> QED
    BY <1>a, <1>b, <1>c, <1>d, <2>1, <2>2 DEF ApartInv
<1>4. LeftInv'
  <2>1. ASSUME NEW p \in DOMAIN opened PROVE OfContext(p) => OfContext(p)'
    BY <1>a, <1>c, <1>d DEF OfContext
  <2>2. ASSUME NEW p \in DOMAIN opened PROVE ~OfBrowser(p)
    BY <1>a DEF OfBrowser
  <2>3. Using("persistent")' = Using("persistent")
    BY <1>a DEF Using
  <2> QED
    BY <1>a, <2>1, <2>2, <2>3 DEF LeftInv
<1> QED
  BY <1>1, <1>2, <1>3, <1>4, <1>d

LEMMA ContextMadeKeeps ==
  ASSUME IInv, NEW c \in calls, ContextMade(c)
  PROVE  IInv'
<1> USE DEF IInv
<1> DEFINE d == [c EXCEPT !.at = "creating", !.context = Id(c)]
           x == [id |-> Id(c), browser |-> c.browser, auth |-> "none", agent |-> FALSE]
<1>a. /\ c.at = "context" /\ Becomes(c, d) /\ contexts' = IF c.current THEN Assign(contexts, c.feature, x) ELSE contexts
      /\ UNCHANGED <<setup, feature, phase, steps, step, tab, factory, running, pages, opened, popups, container,
                     inside, auth, agent, expected, downloaded, files, twin, history>>
  BY DEF ContextMade, headers, downloads
<1>b. c \in CallType /\ c.feature \in 1..feature /\ Id(c) \in Ids /\ Id(c) # None
  BY Named DEF CallTypes
<1>c. /\ d \in CallType /\ d.feature = c.feature /\ d.step = c.step /\ d.tab = c.tab /\ d.late = c.late
      /\ d.current = c.current /\ d.at = "creating" /\ d.browser = c.browser /\ d.context = Id(c)
  BY <1>b DEF CallType
<1>e. x \in ContextType /\ x.id = Id(c) /\ x.browser = c.browser /\ x.auth = "none" /\ x.agent = FALSE
  BY <1>b DEF ContextType, CallType, Auth
<1> HIDE DEF d, x
<1>d. /\ CallsInv' /\ ReachInv' /\ \A y \in calls' : y \in CallType /\ y.feature \in 1..feature
      /\ calls' = (calls \ {c}) \cup {d} /\ (calls = {c} => calls' = {d})
  BY <1>a, <1>c, CallGoesOn
<1>f. /\ c.current => /\ DOMAIN contexts' = DOMAIN contexts \cup {c.feature} /\ contexts'[c.feature] = x
                      /\ \A f \in DOMAIN contexts : f # c.feature => contexts'[f] = contexts[f]
      /\ ~c.current => contexts' = contexts
      /\ c.current => contexts' \in [DOMAIN contexts' -> ContextType]
  <2>1. contexts \in [DOMAIN contexts -> ContextType]
    BY DEF PageTypes
  <2> QED
    BY <1>a, <1>e, <2>1 DEF Assign
<1>1. CallTypes'
  BY <1>a, <1>d DEF CallTypes
<1>2. FeatureTypes' /\ FileTypes' /\ PagesInv' /\ FilesInv' /\ TwinInv' /\ ContainerInScope'
  BY <1>a, Framed
<1>3. PageTypes'
  <2>1. contexts' \in [DOMAIN contexts' -> ContextType] /\ DOMAIN contexts' \subseteq 1..feature'
    BY <1>a, <1>b, <1>f DEF PageTypes
  <2> QED
    BY <1>a, <2>1 DEF PageTypes
<1>4. StepInv'
  BY <1>a, <1>f DEF StepInv, OnPage
<1>5. ApartInv'
  <2> SUFFICES ASSUME history.apart PROVE ApartInv'
    BY <1>a DEF ApartInv
  <2>1. calls = {c} /\ c.feature = feature /\ feature \notin DOMAIN contexts
    BY <1>a DEF ApartInv
  <2>2. ~Using("persistent") => running # None /\ c.browser = running
    BY <1>a DEF ApartInv
  <2>3. Using("persistent")' = Using("persistent")
    BY <1>a DEF Using
  <2>4. calls' = {d} /\ (feature \in DOMAIN contexts' => c.current /\ contexts'[feature] = x)
        /\ (c.current => feature \in DOMAIN contexts')
    BY <1>d, <1>f, <2>1
  <2> HIDE DEF Using
  <2> QED
    BY <1>a, <1>c, <1>e, <2>1, <2>2, <2>3, <2>4 DEF ApartInv
<1>6. LeftInv'
  <2>1. ASSUME NEW p \in DOMAIN opened, OfContext(p) PROVE OfContext(p)'
    <3>1. ~(c.current /\ c.feature = feature)
      BY <1>a, <2>1 DEF OfContext
    <3>2. feature \in DOMAIN contexts' /\ contexts'[feature] = contexts[feature]
      BY <1>f, <2>1, <3>1 DEF OfContext
    <3> QED
      BY <1>a, <1>c, <1>d, <2>1, <3>2 DEF OfContext
  <2>2. ASSUME NEW p \in DOMAIN opened PROVE OfBrowser(p) => OfBrowser(p)'
    BY <1>a, <1>c, <1>d DEF OfBrowser
  <2>3. Using("persistent")' = Using("persistent")
    BY <1>a DEF Using
  <2> QED
    BY <1>a, <2>1, <2>2, <2>3 DEF LeftInv
<1>7. HeadersInv'
  <2> SUFFICES ASSUME phase = "body", history.apart PROVE HeadersInv'
    BY <1>a DEF HeadersInv
  <2>1. c.feature = feature /\ feature \notin DOMAIN contexts
    BY <1>a DEF ApartInv
  <2>2. auth = "none" /\ step.at \notin {"headers", "fetching"}
    BY <2>1 DEF HeadersInv, StepInv
  <2> QED
    BY <1>a, <1>e, <1>f, <2>1, <2>2 DEF HeadersInv, ContextHeaders
<1> QED
  BY <1>1, <1>2, <1>3, <1>4, <1>5, <1>6, <1>7, <1>d

\* A call that is over leaves the others in order, whether the step has waited for it or not.
LEMMA CallEnds ==
  ASSUME FeatureTypes, CallTypes, CallsInv, ApartInv, NEW c \in calls, calls' = calls \ {c},
         (OfStep(c) /\ steps' \in {steps, steps + 1}) \/ UNCHANGED <<step, steps>>,
         UNCHANGED <<setup, feature, phase, factory, running, contexts, history>>
  PROVE  CallTypes' /\ CallsInv' /\ ApartInv'
<1>1. CallTypes'
  BY DEF CallTypes
<1>2. CallsInv'
  <2>1. CASE UNCHANGED <<step, steps>>
    BY <2>1 DEF CallsInv, Id
  <2>2. CASE OfStep(c) /\ steps' \in {steps, steps + 1}
    <3>1. ASSUME NEW x \in calls', x.feature = feature PROVE x.step <= steps' /\ x.step # steps'
      <4>1. x.step \in Nat /\ steps \in Nat /\ x.step <= steps
        BY <3>1 DEF FeatureTypes, CallTypes, CallType, CallsInv
      <4>2. x.step # steps
        BY <2>2, <3>1 DEF OfStep, Id, CallsInv
      <4> QED
        BY <2>2, <4>1, <4>2
    <3> QED
      BY <3>1 DEF CallsInv, Id
  <2> QED
    BY <2>1, <2>2
<1>3. ApartInv'
  <2>1. Using("persistent")' = Using("persistent")
    BY DEF Using
  <2> HIDE DEF Using
  <2> QED
    BY <2>1 DEF ApartInv
<1> QED
  BY <1>1, <1>2, <1>3

\* Without one of the calls, what is left when a feature closes is as it was.
LEMMA FewerLeave ==
  ASSUME LeftInv, ReachInv, calls' \subseteq calls,
         UNCHANGED <<setup, feature, phase, tab, factory, running, contexts, pages, opened, popups, history>>
  PROVE  LeftInv' /\ ReachInv'
<1>1. ASSUME NEW p \in DOMAIN opened PROVE (OfContext(p) => OfContext(p)') /\ (OfBrowser(p) => OfBrowser(p)')
  BY DEF OfContext, OfBrowser
<1>2. LeftInv'
  <2>1. Using("persistent")' = Using("persistent")
    BY DEF Using
  <2> QED
    BY <1>1, <2>1 DEF LeftInv
<1>3. ReachInv'
  BY DEF ReachInv, PagesAreReachable, Key
<1> QED
  BY <1>2, <1>3

LEMMA PageCreatedKeeps ==
  ASSUME IInv, NEW c \in calls, PageCreated(c)
  PROVE  IInv'
<1> USE DEF IInv
<1> DEFINE n == Len(opened) + 1
           q == PageOf(c)
           key == Key(c.feature, c.tab)
<1>a. /\ c \in CallType /\ c.feature \in 1..feature /\ c.tab \in 0..MaxTab /\ c.at = "creating"
      /\ calls' = calls \ {c} /\ opened' = Append(opened, q) /\ pages' = IF c.current THEN Assign(pages, key, n) ELSE pages
      /\ step' = IF OfStep(c) THEN Gotten(step.how, n) ELSE step
      /\ expected' = IF expected.call = Id(c) THEN [at |-> "waiting", page |-> n, call |-> None] ELSE expected
      /\ UNCHANGED <<setup, feature, phase, steps, tab, factory, running, contexts, popups, container, inside, auth, agent,
                     downloaded, files, twin, history>>
  BY DEF PageCreated, headers, CallTypes, CallType
<1>b. /\ q \in PageType /\ q.feature = c.feature /\ q.context = c.context /\ q.browser = c.browser /\ q.open /\ ~q.popup
      /\ q.handlers = 1 /\ (q.alone = (history.apart /\ c.current)) /\ q.late = c.late
  BY <1>a DEF PageOf, PageType, CallType, FeatureTypes, HistoryType, Urls
<1>c. /\ opened' \in Seq(PageType) /\ Len(opened) \in Nat /\ Len(opened') = n /\ DOMAIN opened = 1..Len(opened)
      /\ DOMAIN opened' = DOMAIN opened \cup {n} /\ n \notin DOMAIN opened
      /\ opened'[n] = q /\ \A p \in DOMAIN opened : opened'[p] = opened[p]
  <2>1. opened \in Seq(PageType)
    BY DEF PageTypes
  <2> HIDE DEF q
  <2> QED
    BY <1>a, <1>b, <2>1, Appended
<1>d. /\ c.current => /\ DOMAIN pages' = DOMAIN pages \cup {key} /\ pages'[key] = n
                      /\ \A k \in DOMAIN pages : k # key => pages'[k] = pages[k]
      /\ ~c.current => pages' = pages
  <2> HIDE DEF n, key
  <2> QED
    BY <1>a DEF Assign
<1>e. /\ OfStep(c) => c.current /\ c.feature = feature /\ step.at = "getting"
      /\ OfStep(c) => step' \in StepType /\ step'.page = n /\ step'.at \in {"patching", "page"}
  <2>1. OfStep(c) => c.current /\ c.feature = feature /\ step.at = "getting"
    BY DEF OfStep, Id, CallsInv
  <2>2. step.how \in {"none", "with", "get"} /\ tab \in 0..MaxTab /\ n \in Nat
    BY <1>c DEF PageTypes, StepType, FeatureTypes
  <2> HIDE DEF n, Using
  <2> QED
    BY <1>a, <2>1, <2>2 DEF Gotten, StepAt, StepType, Auth
<1>f. n \in Nat /\ n # 0 /\ DOMAIN opened \subseteq DOMAIN opened'
  BY <1>c
<1> HIDE DEF n, q, key
<1>1. CallTypes' /\ CallsInv' /\ ApartInv'
  BY <1>a, CallEnds
<1>2. FeatureTypes' /\ ContainerInScope'
  BY <1>a, Framed
<1>3. PageTypes'
  <2>0. container \in Nat /\ container <= Len(opened)
    BY <1>c DEF PageTypes
  <2>1. step' \in StepType /\ step'.page \in 0..Len(opened')
    <3>1. CASE OfStep(c)
      BY <1>c, <1>e, <1>f, <3>1
    <3>2. CASE ~OfStep(c)
      <4>1. step' = step /\ step \in StepType /\ step.page \in 0..Len(opened)
        BY <1>a, <3>2 DEF PageTypes
      <4> QED
        BY <1>c, <4>1 DEF n
    <3> QED
      BY <3>1, <3>2
  <2>2. DOMAIN pages' \subseteq (1..feature') \X (0..MaxTab)
    <3>1. key \in (1..feature) \X (0..MaxTab)
      BY <1>a DEF Key, key
    <3>2. DOMAIN pages \subseteq (1..feature) \X (0..MaxTab) /\ feature' = feature
      BY <1>a DEF PageTypes
    <3> HIDE DEF IInv
    <3> QED
      BY <1>d, <3>1, <3>2
  <2>3. ASSUME NEW k \in DOMAIN pages' PROVE pages'[k] \in DOMAIN opened'
    BY <1>c, <1>d DEF PageTypes
  <2>4. contexts' \in [DOMAIN contexts' -> ContextType] /\ DOMAIN contexts' \subseteq 1..feature'
    BY <1>a DEF PageTypes
  <2>5. (\A h \in popups' : h[1] \in DOMAIN opened') /\ inside' \in Seq(Nat) /\ container' \in 0..Len(opened')
    BY <1>a, <1>c, <2>0 DEF PageTypes, n
  <2>6. \A p \in DOMAIN opened' : opened'[p].feature \in 1..feature'
    BY <1>a, <1>b, <1>c DEF PageTypes
  <2> QED
    BY <1>c, <2>1, <2>2, <2>3, <2>4, <2>5, <2>6 DEF PageTypes
<1>4. FileTypes'
  <2>1. expected' \in ExpectedType
    BY <1>a, <1>f DEF FileTypes, ExpectedType, None, Ids
  <2> QED
    BY <1>a, <2>1 DEF FileTypes
<1>5. StepInv'
  BY <1>a, <1>e, <1>f DEF StepInv, OnPage
<1>6. PagesInv'
  <2>1. ASSUME NEW k \in DOMAIN pages' PROVE opened'[pages'[k]].open /\ opened'[pages'[k]].feature = k[1]
    <3>1. CASE c.current /\ k = key
      BY <1>b, <1>c, <1>d, <3>1 DEF Key, key
    <3>2. CASE ~(c.current /\ k = key)
      BY <1>c, <1>d, <3>2 DEF PagesInv, PageTypes
    <3> QED
      BY <3>1, <3>2
  <2>2. \A h \in popups' : opened'[h[1]].popup /\ opened'[h[1]].open
    BY <1>a, <1>c DEF PagesInv, PageTypes
  <2>3. container # 0 => container \in DOMAIN opened
    BY <1>c DEF PageTypes
  <2>4. container' = container /\ feature' = feature /\ (Using("popups")' = Using("popups"))
    BY <1>a DEF Using
  <2>5. container # 0 /\ Using("popups") => opened'[container].handlers > 0
    BY <1>c, <2>3 DEF PagesInv
  <2>6. (OnPage' /\ container = 0 => opened'[step'.page].open /\ opened'[step'.page].feature = feature)
        /\ (OnPage' /\ Using("popups") => opened'[step'.page].handlers > 0)
    <3>1. CASE OfStep(c)
      <4>1. step'.page = n /\ q.handlers > 0 /\ q.feature = feature /\ q.open
        BY <1>b, <1>e, <3>1
      <4> HIDE DEF Using
      <4> QED
        BY <1>c, <4>1
    <3>2. CASE ~OfStep(c)
      <4>1. step' = step /\ (OnPage' = OnPage)
        BY <1>a, <3>2 DEF OnPage
      <4>2. OnPage => step.page \in DOMAIN opened
        BY <1>c DEF StepInv, PageTypes
      <4>3. OnPage => opened'[step.page] = opened[step.page]
        BY <1>c, <4>2
      <4> QED
        BY <4>1, <4>3 DEF PagesInv
    <3> QED
      BY <3>1, <3>2
  <2> HIDE DEF IInv
  <2> QED
    BY <2>1, <2>2, <2>4, <2>5, <2>6 DEF PagesInv
<1>7. ReachInv'
  <2> SUFFICES ASSUME phase = "body", ~history.wentBack PROVE ReachInv'
    BY <1>a DEF ReachInv
  <2>1. ASSUME NEW k \in DOMAIN pages', k[1] = feature PROVE k[2] <= tab
    <3>1. CASE c.current /\ k = key
      BY <2>1, <3>1 DEF ReachInv, Key, key
    <3>2. CASE ~(c.current /\ k = key)
      BY <1>d, <2>1, <3>2 DEF ReachInv
    <3> QED
      BY <3>1, <3>2
  <2>2. ASSUME NEW x \in calls', x.current, x.feature = feature, Key(feature, x.tab) \in DOMAIN pages'
        PROVE  ~opened'[pages'[Key(feature, x.tab)]].alone
    <3>1. ~history.apart
      BY <1>a, <2>2 DEF ApartInv
    <3>2. CASE c.current /\ Key(feature, x.tab) = key
      BY <1>b, <1>c, <1>d, <3>1, <3>2
    <3>3. CASE ~(c.current /\ Key(feature, x.tab) = key)
      <4>1. Key(feature, x.tab) \in DOMAIN pages /\ pages'[Key(feature, x.tab)] = pages[Key(feature, x.tab)]
        BY <1>d, <2>2, <3>3
      <4>2. ~opened[pages[Key(feature, x.tab)]].alone /\ pages[Key(feature, x.tab)] \in DOMAIN opened
        BY <1>a, <2>2, <4>1 DEF ReachInv, PageTypes
      <4> QED
        BY <1>c, <4>1, <4>2
    <3> QED
      BY <3>2, <3>3
  <2>3. \A x \in calls' : x.current /\ x.feature = feature => x.tab <= tab
    BY <1>a DEF ReachInv
  <2>4. ASSUME NEW p \in DOMAIN opened', opened'[p].open, opened'[p].alone, opened'[p].feature = feature
        PROVE  (\E k \in DOMAIN pages' : pages'[k] = p) \/ (\E h \in popups' : h[1] = p)
    <3>1. CASE p = n
      BY <1>b, <1>c, <1>d, <2>4, <3>1
    <3>2. CASE p # n
      <4>1. p \in DOMAIN opened /\ opened[p].open /\ opened[p].alone /\ opened[p].feature = feature
        BY <1>c, <2>4, <3>2
      <4>2. (\E k \in DOMAIN pages : pages[k] = p) \/ (\E h \in popups : h[1] = p)
        BY <4>1 DEF ReachInv, PagesAreReachable
      <4>3. ASSUME NEW k \in DOMAIN pages, pages[k] = p PROVE k \in DOMAIN pages' /\ pages'[k] = p
        <5>1. ~(c.current /\ k = key)
          <6>1. SUFFICES ASSUME c.current, k = key PROVE FALSE
            OBVIOUS
          <6>2. k[1] = feature /\ k[1] = c.feature
            BY <4>1, <4>3, <6>1 DEF PagesInv, Key, key
          <6>3. Key(feature, c.tab) \in DOMAIN pages /\ pages[Key(feature, c.tab)] = p
            BY <4>3, <6>1, <6>2 DEF key
          <6> QED
            BY <4>1, <6>1, <6>2, <6>3 DEF ReachInv
        <5> QED
          BY <1>d, <4>3, <5>1
      <4> QED
        BY <1>a, <4>2, <4>3
    <3> QED
      BY <3>1, <3>2
  <2> QED
    BY <1>a, <2>1, <2>2, <2>3, <2>4 DEF ReachInv, PagesAreReachable
<1>8. LeftInv'
  <2>0. Using("persistent")' = Using("persistent")
    BY <1>a DEF Using
  <2>1. ASSUME NEW p \in DOMAIN opened PROVE (OfContext(p) => OfContext(p)') /\ (OfBrowser(p) => OfBrowser(p)')
    BY <1>a, <1>c DEF OfContext, OfBrowser
  <2>2. ASSUME NEW p, p = n, q.alone
        PROVE  /\ ~q.late => OfContext(p)'
               /\ q.late => phase = "ended"
               /\ q.late /\ ~Using("persistent") => OfBrowser(p)' /\ q.feature = feature
    <3>1. history.apart /\ c.current /\ factory /\ calls' = {} /\ c.feature = feature
      BY <1>a, <1>b, <2>2 DEF ApartInv, CallsInv
    <3>2. feature \in DOMAIN contexts /\ c.context = contexts[feature].id
      BY <1>a, <3>1 DEF ApartInv
    <3>3. (~c.late => ~history.closed) /\ (c.late => phase = "ended")
      BY <3>1 DEF CallsInv
    <3>4. ~Using("persistent") => running # None /\ c.browser = running
      BY <1>a, <3>1 DEF ApartInv
    <3>5. opened'[p].feature = feature /\ opened'[p].context = c.context /\ opened'[p].browser = c.browser
      BY <1>b, <1>c, <2>2, <3>1
    <3>6. ~q.late => OfContext(p)'
      BY <1>a, <1>b, <3>1, <3>2, <3>3, <3>5 DEF OfContext
    <3>7. ~Using("persistent") => OfBrowser(p)'
      BY <1>a, <3>1, <3>4, <3>5 DEF OfBrowser
    <3> HIDE DEF Using
    <3> QED
      BY <1>b, <3>1, <3>3, <3>6, <3>7
  <2>3. ASSUME NEW p \in DOMAIN opened', opened'[p].open, opened'[p].alone
        PROVE  /\ ~opened'[p].late => OfContext(p)'
               /\ opened'[p].late => opened'[p].feature < feature \/ phase = "ended"
               /\ opened'[p].late /\ ~Using("persistent") =>
                    OfBrowser(p)' /\ (history.closed => opened'[p].feature = feature)
    <3>1. CASE p = n
      <4>1. opened'[p] = q /\ q.alone
        BY <1>c, <2>3, <3>1
      <4> HIDE DEF Using
      <4> QED
        BY <2>2, <3>1, <4>1
    <3>2. CASE p # n
      <4>1. p \in DOMAIN opened /\ opened'[p] = opened[p]
        BY <1>c, <3>2
      <4> QED
        BY <2>1, <2>3, <4>1 DEF LeftInv
    <3> QED
      BY <3>1, <3>2
  <2> HIDE DEF Using
  <2> QED
    BY <1>a, <2>0, <2>3 DEF LeftInv
<1>9. HeadersInv'
  BY <1>a, <1>e DEF HeadersInv, ContextHeaders
<1>10. FilesInv'
  BY <1>a, <1>c DEF FilesInv
<1>11. TwinInv'
  BY <1>a, <1>e DEF TwinInv
<1> QED
  BY <1>1, <1>2, <1>3, <1>4, <1>5, <1>6, <1>7, <1>8, <1>9, <1>10, <1>11

LEMMA CallFailsKeeps ==
  ASSUME IInv, NEW c \in calls, CallFails(c)
  PROVE  IInv'
<1> USE DEF IInv
<1>a. /\ calls' = calls \ {c}
      /\ \/ OfStep(c) /\ step' = NoStep /\ steps' = steps + 1
         \/ UNCHANGED <<step, steps>>
      /\ expected' = IF expected.call = Id(c) THEN NoDownload ELSE expected
      /\ UNCHANGED <<setup, feature, phase, tab, factory, running, pages, contexts, opened, popups, container, inside, auth,
                     agent, downloaded, files, twin, history>>
  BY DEF CallFails, headers
<1>b. NoStep \in StepType /\ NoStep.at = "none" /\ NoStep.page = 0
  BY Idle
<1>c. OfStep(c) => step.at = "getting" /\ steps < setup.steps
  BY DEF OfStep, StepInv
<1>1. CallTypes' /\ CallsInv' /\ ApartInv'
  BY <1>a, CallEnds
<1>2. LeftInv' /\ ReachInv'
  BY <1>a, FewerLeave
<1>3. ContainerInScope'
  BY <1>a, Framed
<1>4. FeatureTypes'
  BY <1>a, <1>c DEF FeatureTypes
<1>5. PageTypes'
  BY <1>a, <1>b DEF PageTypes
<1>6. FileTypes'
  <2>1. expected' \in ExpectedType
    BY <1>a DEF FileTypes, ExpectedType, NoDownload, None, Ids
  <2> QED
    BY <1>a, <2>1 DEF FileTypes
<1>7. StepInv'
  BY <1>a, <1>b DEF StepInv, OnPage
<1>8. PagesInv'
  BY <1>a, <1>b DEF PagesInv, OnPage, Using
<1>9. HeadersInv'
  BY <1>a, <1>b, <1>c DEF HeadersInv, ContextHeaders
<1>10. FilesInv'
  BY <1>a DEF FilesInv, NoDownload
<1>11. TwinInv'
  BY <1>a, <1>b, <1>c DEF TwinInv
<1> QED
  BY <1>1, <1>2, <1>3, <1>4, <1>5, <1>6, <1>7, <1>8, <1>9, <1>10, <1>11

-----------------------------------------------------------------------------
(* The steps of features.                                                   *)

\* The page of the tab is open and of the feature, and with one more handler it is as it was.
LEMMA MoreHandlers ==
  ASSUME PageTypes, PagesInv, HasPage, opened' = OneMoreHandler, NEW p, p = pages[Key(feature, tab)]
  PROVE  /\ p \in DOMAIN opened /\ p \in Nat \ {0} /\ p <= Len(opened) /\ opened[p].open /\ opened[p].feature = feature
         /\ opened' \in Seq(PageType) /\ DOMAIN opened' = DOMAIN opened /\ Len(opened') = Len(opened)
         /\ \A x \in DOMAIN opened : /\ opened'[x].feature = opened[x].feature /\ opened'[x].open = opened[x].open
                                     /\ opened'[x].context = opened[x].context /\ opened'[x].browser = opened[x].browser
                                     /\ opened'[x].alone = opened[x].alone /\ opened'[x].late = opened[x].late
                                     /\ opened'[x].popup = opened[x].popup /\ opened'[x].handlers \in Nat
                                     /\ opened[x].handlers \in Nat /\ opened'[x].handlers >= opened[x].handlers
         /\ Using("popups") => opened'[p].handlers > 0
<1>a. opened' = [opened EXCEPT ![p].handlers = IF Using("popups") THEN @ + 1 ELSE @]
  BY DEF OneMoreHandler
<1>b. p \in DOMAIN opened /\ p \in Nat \ {0} /\ p <= Len(opened) /\ opened[p].open /\ opened[p].feature = feature
      /\ opened \in Seq(PageType)
  BY DEF HasPage, PageTypes, PagesInv, Key
<1>1. \A x \in DOMAIN opened : opened[x] \in PageType
  BY <1>b
<1>2. \A x \in DOMAIN opened : /\ opened'[x] \in PageType /\ opened'[x].handlers >= opened[x].handlers
                               /\ opened'[x].feature = opened[x].feature /\ opened'[x].open = opened[x].open
                               /\ opened'[x].context = opened[x].context /\ opened'[x].browser = opened[x].browser
                               /\ opened'[x].alone = opened[x].alone /\ opened'[x].late = opened[x].late
                               /\ opened'[x].popup = opened[x].popup
  BY <1>a, <1>1 DEF PageType
<1>3. Using("popups") => opened'[p].handlers > 0
  BY <1>a, <1>b, <1>1 DEF PageType
<1>4. opened' \in [DOMAIN opened -> PageType]
  BY <1>a, <1>2
<1>5. opened' \in Seq(PageType) /\ DOMAIN opened' = DOMAIN opened /\ Len(opened') = Len(opened)
  BY <1>b, <1>4, Replaced
<1> QED
  BY <1>b, <1>1, <1>2, <1>3, <1>5 DEF PageType

LEMMA HavePageKeeps ==
  ASSUME IInv, NEW how \in HowOf, HavePage(how)
  PROVE  IInv'
<1> USE DEF IInv
<1> DEFINE p == pages[Key(feature, tab)]
<1>a. /\ opened' = OneMoreHandler /\ HasPage /\ step' = Gotten(how, p)
      /\ history' = AskedLate /\ step.at = "none" /\ phase \in {"body", "ended"} /\ steps < setup.steps
      /\ UNCHANGED <<setup, feature, phase, steps, tab, factory, calls, running, pages, contexts, popups, container, inside>>
  BY DEF HavePage, CanStep
<1>b. p \in DOMAIN opened /\ p \in Nat \ {0} /\ p <= Len(opened) /\ opened[p].open /\ opened[p].feature = feature
      /\ Len(opened) \in Nat
  BY <1>a, MoreHandlers DEF PageTypes
<1>c. /\ opened' \in Seq(PageType) /\ DOMAIN opened' = DOMAIN opened /\ Len(opened') = Len(opened)
      /\ \A x \in DOMAIN opened : /\ opened'[x].feature = opened[x].feature /\ opened'[x].open = opened[x].open
                                  /\ opened'[x].context = opened[x].context /\ opened'[x].browser = opened[x].browser
                                  /\ opened'[x].alone = opened[x].alone /\ opened'[x].late = opened[x].late
                                  /\ opened'[x].popup = opened[x].popup /\ opened'[x].handlers \in Nat
                                  /\ opened[x].handlers \in Nat /\ opened'[x].handlers >= opened[x].handlers
      /\ Using("popups") => opened'[p].handlers > 0
  BY <1>a, MoreHandlers
<1> HIDE DEF p
<1>d. step' \in StepType /\ step'.at \in {"patching", "page"} /\ step'.page = p
  BY <1>a, <1>b, Begun
<1>1. UNCHANGED <<expected, downloaded, files, twin>>
  BY DEF HavePage, downloads, headers
<1>2. FileTypes'
  BY <1>1, Framed
<1>3. FeatureTypes'
  <2>1. history' \in HistoryType
    BY Noted DEF HavePage
  <2>2. UNCHANGED <<setup, feature, phase, steps, tab, factory, auth, agent>>
    BY DEF HavePage, headers
  <2> QED
    BY <2>1, <2>2 DEF FeatureTypes
<1>4. PageTypes'
  BY <1>a, <1>b, <1>c, <1>d DEF PageTypes
<1>5. StepInv'
  BY <1>a, <1>b, <1>d, Noted DEF StepInv, OnPage
<1>6. PagesInv'
  <2>1. \A k \in DOMAIN pages' : opened'[pages'[k]].open /\ opened'[pages'[k]].feature = k[1]
    BY <1>a, <1>c DEF PagesInv, PageTypes
  <2>2. \A h \in popups' : opened'[h[1]].popup /\ opened'[h[1]].open
    BY <1>a, <1>c DEF PagesInv, PageTypes
  <2>3. container # 0 => container \in DOMAIN opened
    BY DEF PageTypes
  <2>4. ASSUME container # 0, Using("popups") PROVE opened'[container].handlers > 0
    <3>1. opened[container].handlers > 0
      BY <2>4 DEF PagesInv
    <3>2. /\ opened[container].handlers \in Nat /\ opened'[container].handlers \in Nat
          /\ opened'[container].handlers >= opened[container].handlers
      BY <1>c, <2>3, <2>4
    <3> HIDE DEF IInv
    <3> QED
      BY <3>1, <3>2
  <2>5. opened'[step'.page].open /\ opened'[step'.page].feature = feature
    BY <1>b, <1>c, <1>d
  <2>6. Using("popups") => opened'[step'.page].handlers > 0
    BY <1>c, <1>d
  <2> HIDE DEF IInv
  <2> QED
    BY <1>a, <2>1, <2>2, <2>4, <2>5, <2>6 DEF PagesInv, Using
<1>7. CallTypes' /\ CallsInv' /\ ApartInv' /\ ReachInv' /\ LeftInv'
  <2>1. CallTypes' /\ CallsInv' /\ ApartInv'
    BY <1>a, <1>d, Noted, CallsStay, Framed
  <2>2. ReachInv' /\ LeftInv'
    BY <1>a, <1>c, Noted, OpenedStay
  <2> QED
    BY <2>1, <2>2
<1>9. HeadersInv'
  BY <1>a, <1>d, Noted DEF HeadersInv, ContextHeaders, HavePage, headers
<1>10. FilesInv'
  BY <1>a, <1>c, Noted DEF FilesInv, HavePage, downloads
<1>11. TwinInv'
  BY <1>a, <1>d DEF TwinInv, HavePage
<1>12. ContainerInScope'
  BY <1>a, Noted DEF ContainerInScope
<1> QED
  BY <1>2, <1>3, <1>4, <1>5, <1>6, <1>7, <1>9, <1>10, <1>11, <1>12

LEMMA HaveContainerKeeps ==
  ASSUME IInv, HaveContainer
  PROVE  IInv'
<1> USE DEF IInv
<1>1. UNCHANGED <<expected, downloaded, files, twin>>
  BY DEF HaveContainer, browser, downloads, headers
<1>2. FileTypes'
  BY <1>1, Framed
<1>3. FeatureTypes'
  <2>1. history' \in HistoryType
    BY Noted DEF HaveContainer
  <2>2. UNCHANGED <<setup, feature, phase, steps, tab, factory, auth, agent>>
    BY DEF HaveContainer, browser, headers
  <2> QED
    BY <2>1, <2>2 DEF FeatureTypes
<1>4. PageTypes'
  <2>1. step' \in StepType /\ step'.page = container
    BY DEF HaveContainer, StepAt, StepType, Auth, FeatureTypes, PageTypes
  <2>2. UNCHANGED <<opened, pages, feature, contexts, popups, container, inside>>
    BY DEF HaveContainer, browser
  <2> QED
    BY <2>1, <2>2 DEF PageTypes
<1>5. StepInv'
  <2>1. step' = StepAt("page", "with", container, tab) /\ container # 0 /\ step.at = "none" /\ phase \in {"body", "ended"}
        /\ steps < setup.steps /\ UNCHANGED <<phase, steps, setup, factory, feature, contexts>> /\ history' = AskedLate
    BY DEF HaveContainer, InContainer, CanStep, browser
  <2> QED
    BY <2>1, Noted DEF StepInv, OnPage, StepAt
<1>6. PagesInv'
  BY DEF HaveContainer, StepAt, CanStep, InContainer, browser, FeatureTypes, PageTypes, PagesInv, OnPage, Using
<1>7. CallTypes' /\ CallsInv' /\ ApartInv' /\ ReachInv' /\ LeftInv'
  <2>1. step.at = "none" /\ steps' = steps /\ history' = AskedLate
    BY DEF HaveContainer, CanStep
  <2>2. UNCHANGED <<setup, feature, phase, tab, factory, calls, running, pages, contexts, opened, popups>>
    BY DEF HaveContainer, browser
  <2> QED
    BY <2>1, <2>2, Noted, Unmoved
<1>9. HeadersInv'
  <2>1. step.at = "none" /\ step'.at = "page" /\ UNCHANGED <<feature, phase, auth, agent, contexts>> /\ history' = AskedLate
    BY DEF HaveContainer, CanStep, StepAt, headers, browser
  <2> QED
    BY <2>1, Noted DEF HeadersInv, ContextHeaders
<1>10. FilesInv'
  <2>1. history' = AskedLate /\ UNCHANGED <<phase, files, downloaded, expected, opened>>
    BY DEF HaveContainer, browser, downloads
  <2> QED
    BY <2>1, Noted DEF FilesInv
<1>11. TwinInv'
  BY DEF HaveContainer, StepAt, CanStep, FeatureTypes, FileTypes, TwinInv
<1>12. ContainerInScope'
  BY DEF HaveContainer, InContainer, AskedLate, PageTypes, ContainerInScope
<1> QED
  BY <1>2, <1>3, <1>4, <1>5, <1>6, <1>7, <1>9, <1>10, <1>11, <1>12

LEMMA InteractKeeps ==
  ASSUME IInv, Interact
  PROVE  IInv'
<1> USE DEF IInv
<1>1. UNCHANGED <<phase, opened, container, inside, expected, downloaded, files, history>>
  BY DEF Interact, browser, downloads, headers
<1>2. FilesInv' /\ ContainerInScope'
  BY <1>1, Framed
<1>3. FeatureTypes'
  <2>1. step.at # "none" /\ steps' = steps + 1
    BY DEF Interact, HasOpenPage, StepDone
  <2>2. UNCHANGED <<setup, feature, phase, tab, factory, auth, agent, history>>
    BY DEF Interact, browser, downloads, headers
  <2> QED
    BY <2>1, <2>2, Counted
<1>4. PageTypes'
  <2>1. step' \in StepType /\ step'.page = 0
    BY Idle DEF Interact, StepDone
  <2>2. UNCHANGED <<opened, pages, feature, contexts, popups, container, inside>>
    BY DEF Interact, browser
  <2> QED
    BY <2>1, <2>2 DEF PageTypes
<1>5. FileTypes'
  <2>1. twin' = WithCopy /\ UNCHANGED <<expected, downloaded, files>> /\ step.page \in Nat
    BY DEF Interact, downloads, PageTypes, StepType
  <2> QED
    BY <2>1, Copied DEF FileTypes
<1>6. StepInv'
  BY DEF Interact, StepDone, NoStep, StepAt, HasOpenPage, browser, FeatureTypes, PageTypes, StepInv, OnPage
<1>7. PagesInv'
  BY DEF Interact, StepDone, NoStep, StepAt, HasOpenPage, browser, FeatureTypes, PageTypes, PagesInv, OnPage, Using
<1>8. CallTypes' /\ CallsInv' /\ ApartInv' /\ ReachInv' /\ LeftInv'
  <2>1. step.at # "getting" /\ steps' \in {steps, steps + 1}
    BY DEF Interact, HasOpenPage, StepDone
  <2>2. UNCHANGED <<setup, feature, phase, tab, factory, calls, running, pages, contexts, opened, popups, history>>
    BY DEF Interact, browser
  <2> QED
    BY <2>1, <2>2, Unmoved
<1>10. HeadersInv'
  BY DEF Interact, StepDone, NoStep, StepAt, HasOpenPage, browser, headers, FeatureTypes, PageTypes, HeadersInv,
     ContextHeaders
<1>11. TwinInv'
  <2>1. twin' = WithCopy /\ step.at = "page" /\ step'.at = "none" /\ step.page \in Nat /\ UNCHANGED phase
    BY DEF Interact, HasOpenPage, StepDone, NoStep, StepAt, PageTypes, StepType
  <2> QED
    BY <2>1, Copied DEF TwinInv
<1> QED
  BY <1>2, <1>3, <1>4, <1>5, <1>6, <1>7, <1>8, <1>10, <1>11

LEMMA InteractFailsKeeps ==
  ASSUME IInv, InteractFails
  PROVE  IInv'
<1> USE DEF IInv
<1>1. UNCHANGED <<phase, opened, container, inside, expected, downloaded, files, twin, history>>
  BY DEF InteractFails, browser, downloads, headers
<1>2. FileTypes' /\ FilesInv' /\ ContainerInScope'
  BY <1>1, Framed
<1>3. FeatureTypes'
  <2>1. step.at # "none" /\ steps' = steps + 1
    BY DEF InteractFails, StepDone
  <2>2. UNCHANGED <<setup, feature, phase, tab, factory, auth, agent, history>>
    BY DEF InteractFails, browser, downloads, headers
  <2> QED
    BY <2>1, <2>2, Counted
<1>4. PageTypes'
  <2>1. step' \in StepType /\ step'.page = 0
    BY Idle DEF InteractFails, StepDone
  <2>2. UNCHANGED <<opened, pages, feature, contexts, popups, container, inside>>
    BY DEF InteractFails, browser
  <2> QED
    BY <2>1, <2>2 DEF PageTypes
<1>5. StepInv'
  BY DEF InteractFails, StepDone, NoStep, StepAt, browser, FeatureTypes, PageTypes, StepInv, OnPage
<1>6. PagesInv'
  BY DEF InteractFails, StepDone, NoStep, StepAt, browser, FeatureTypes, PageTypes, PagesInv, OnPage, Using
<1>7. CallTypes' /\ CallsInv' /\ ApartInv' /\ ReachInv' /\ LeftInv'
  <2>1. step.at # "getting" /\ steps' \in {steps, steps + 1}
    BY DEF InteractFails, StepDone
  <2>2. UNCHANGED <<setup, feature, phase, tab, factory, calls, running, pages, contexts, opened, popups, history>>
    BY DEF InteractFails, browser
  <2> QED
    BY <2>1, <2>2, Unmoved
<1>9. HeadersInv'
  BY DEF InteractFails, StepDone, NoStep, StepAt, browser, headers, FeatureTypes, PageTypes, HeadersInv, ContextHeaders
<1>10. TwinInv'
  BY DEF InteractFails, StepDone, NoStep, StepAt, FeatureTypes, FileTypes, TwinInv
<1> QED
  BY <1>2, <1>3, <1>4, <1>5, <1>6, <1>7, <1>9, <1>10

LEMMA ObserveKeeps ==
  ASSUME IInv, Observe
  PROVE  IInv'
<1> USE DEF IInv
<1>1. UNCHANGED <<phase, opened, container, inside, expected, downloaded, files, twin, history>>
  BY DEF Observe, browser, downloads, headers
<1>2. FileTypes' /\ FilesInv' /\ ContainerInScope'
  BY <1>1, Framed
<1>3. FeatureTypes'
  <2>1. step.at # "none" /\ steps' = steps + 1
    BY DEF Observe, HasOpenPage, StepDone
  <2>2. UNCHANGED <<setup, feature, phase, tab, factory, auth, agent, history>>
    BY DEF Observe, browser, downloads, headers
  <2> QED
    BY <2>1, <2>2, Counted
<1>4. PageTypes'
  <2>1. step' \in StepType /\ step'.page = 0
    BY Idle DEF Observe, StepDone
  <2>2. UNCHANGED <<opened, pages, feature, contexts, popups, container, inside>>
    BY DEF Observe, browser
  <2> QED
    BY <2>1, <2>2 DEF PageTypes
<1>5. StepInv'
  BY DEF Observe, StepDone, NoStep, StepAt, HasOpenPage, browser, FeatureTypes, PageTypes, StepInv, OnPage
<1>6. PagesInv'
  BY DEF Observe, StepDone, NoStep, StepAt, HasOpenPage, browser, FeatureTypes, PageTypes, PagesInv, OnPage, Using
<1>7. CallTypes' /\ CallsInv' /\ ApartInv' /\ ReachInv' /\ LeftInv'
  <2>1. step.at # "getting" /\ steps' \in {steps, steps + 1}
    BY DEF Observe, HasOpenPage, StepDone
  <2>2. UNCHANGED <<setup, feature, phase, tab, factory, calls, running, pages, contexts, opened, popups, history>>
    BY DEF Observe, browser
  <2> QED
    BY <2>1, <2>2, Unmoved
<1>9. HeadersInv'
  BY DEF Observe, StepDone, NoStep, StepAt, HasOpenPage, browser, headers, FeatureTypes, PageTypes, HeadersInv, ContextHeaders
<1>10. TwinInv'
  BY DEF Observe, StepDone, NoStep, StepAt, HasOpenPage, FeatureTypes, FileTypes, TwinInv
<1> QED
  BY <1>2, <1>3, <1>4, <1>5, <1>6, <1>7, <1>9, <1>10

LEMMA NavigateKeeps ==
  ASSUME IInv, NEW u \in Url, Navigate(u)
  PROVE  IInv'
<1> USE DEF IInv
<1> DEFINE p == step.page
<1>a. /\ opened' = [opened EXCEPT ![p].url = u] /\ step.at = "page" /\ step' = NoStep /\ opened[p].open /\ steps' = steps + 1
      /\ UNCHANGED <<setup, feature, phase, tab, factory, calls, running, pages, contexts, popups, container, inside,
                     history>>
  BY DEF Navigate, HasOpenPage, StepDone
<1>b. p \in DOMAIN opened /\ opened \in Seq(PageType)
  BY <1>a DEF PageTypes, StepInv, OnPage
<1> HIDE DEF p
<1>c. /\ opened' \in Seq(PageType) /\ DOMAIN opened' = DOMAIN opened /\ Len(opened') = Len(opened)
      /\ \A x \in DOMAIN opened : /\ opened'[x].feature = opened[x].feature /\ opened'[x].open = opened[x].open
                                  /\ opened'[x].context = opened[x].context /\ opened'[x].browser = opened[x].browser
                                  /\ opened'[x].alone = opened[x].alone /\ opened'[x].late = opened[x].late
                                  /\ opened'[x].popup = opened[x].popup /\ opened'[x].handlers = opened[x].handlers
  <2>1. \A x \in DOMAIN opened : opened[x] \in PageType
    BY <1>b
  <2>2. \A x \in DOMAIN opened : /\ opened'[x] \in PageType /\ opened'[x].handlers = opened[x].handlers
                                 /\ opened'[x].feature = opened[x].feature /\ opened'[x].open = opened[x].open
                                 /\ opened'[x].context = opened[x].context /\ opened'[x].browser = opened[x].browser
                                 /\ opened'[x].alone = opened[x].alone /\ opened'[x].late = opened[x].late
                                 /\ opened'[x].popup = opened[x].popup
    BY <1>a, <2>1 DEF PageType, Urls
  <2>3. opened' \in [DOMAIN opened -> PageType]
    BY <1>a, <2>2
  <2> QED
    BY <1>b, <2>2, <2>3, Replaced
<1>d. step' \in StepType /\ step'.at = "none" /\ step'.page = 0
  BY <1>a, Idle
<1>1. UNCHANGED <<container, inside, expected, downloaded, files, twin, history>>
  BY DEF Navigate, downloads, headers
<1>2. FileTypes' /\ ContainerInScope'
  BY <1>1, Framed
<1>3. FeatureTypes'
  <2>1. step.at # "none" /\ steps' = steps + 1
    BY DEF Navigate, HasOpenPage, StepDone
  <2>2. UNCHANGED <<setup, feature, phase, tab, factory, auth, agent, history>>
    BY DEF Navigate, downloads, headers
  <2> QED
    BY <2>1, <2>2, Counted
<1>4. PageTypes'
  BY <1>a, <1>b, <1>c, <1>d DEF PageTypes
<1>5. StepInv'
  BY <1>a, <1>b, <1>d DEF StepInv, OnPage
<1>6. PagesInv'
  <2>1. \A k \in DOMAIN pages' : opened'[pages'[k]].open /\ opened'[pages'[k]].feature = k[1]
    BY <1>a, <1>c DEF PagesInv, PageTypes
  <2>2. \A h \in popups' : opened'[h[1]].popup /\ opened'[h[1]].open
    BY <1>a, <1>c DEF PagesInv, PageTypes
  <2>3. container # 0 => container \in DOMAIN opened
    BY <1>b DEF PageTypes
  <2> QED
    BY <1>a, <1>c, <1>d, <2>1, <2>2, <2>3 DEF PagesInv, OnPage, Using
<1>7. CallTypes' /\ CallsInv' /\ ApartInv' /\ ReachInv' /\ LeftInv'
  <2>1. CallTypes' /\ CallsInv' /\ ApartInv'
    BY <1>a, <1>d, CallsStay, Framed
  <2>2. ReachInv' /\ LeftInv'
    BY <1>a, <1>c, OpenedStay
  <2> QED
    BY <2>1, <2>2
<1>9. HeadersInv'
  BY DEF Navigate, StepDone, NoStep, StepAt, HasOpenPage, headers, FeatureTypes, PageTypes, HeadersInv, ContextHeaders
<1>10. FilesInv'
  BY <1>a, <1>c DEF FilesInv, Navigate, downloads
<1>11. TwinInv'
  BY DEF Navigate, StepDone, NoStep, StepAt, HasOpenPage, FeatureTypes, FileTypes, TwinInv
<1> QED
  BY <1>2, <1>3, <1>4, <1>5, <1>6, <1>7, <1>9, <1>10, <1>11

LEMMA ClickKeeps ==
  ASSUME IInv, Click
  PROVE  IInv'
<1> USE DEF IInv
<1> DEFINE n == Len(opened) + 1
           q == [opened[step.page] EXCEPT !.popup = TRUE, !.handlers = 0, !.url = FirstUrl]
<1>a. /\ step.at = "page" /\ step' = NoStep /\ opened' = Append(opened, q) /\ Using("popups") /\ opened[step.page].open
      /\ popups' = popups \cup {<<n, i>> : i \in 1..opened[step.page].handlers} /\ steps' = steps + 1
      /\ UNCHANGED <<setup, feature, phase, tab, factory, calls, running, pages, contexts, container, inside, history>>
  BY DEF Click, HasOpenPage, StepDone
<1>b. step.page \in DOMAIN opened /\ opened \in Seq(PageType) /\ opened[step.page] \in PageType
  BY <1>a DEF PageTypes, StepInv, OnPage
<1>c. /\ q \in PageType /\ q.open = opened[step.page].open /\ q.open /\ q.popup /\ q.feature = opened[step.page].feature
      /\ q.context = opened[step.page].context /\ q.browser = opened[step.page].browser
      /\ q.alone = opened[step.page].alone /\ q.late = opened[step.page].late
  BY <1>a, <1>b DEF PageType, Urls
<1>d. /\ opened' \in Seq(PageType) /\ Len(opened) \in Nat /\ Len(opened') = n /\ DOMAIN opened = 1..Len(opened)
      /\ DOMAIN opened' = DOMAIN opened \cup {n} /\ n \notin DOMAIN opened
      /\ opened'[n] = q /\ \A p \in DOMAIN opened : opened'[p] = opened[p]
  <2> HIDE DEF q
  <2> QED
    BY <1>a, <1>b, <1>c, Appended
<1>e. step' \in StepType /\ step'.at = "none" /\ step'.page = 0
  BY <1>a, Idle
<1>f. opened[step.page].handlers > 0 => \E h \in popups' : h[1] = n
  <2>1. ASSUME opened[step.page].handlers > 0 PROVE <<n, 1>> \in popups'
    BY <1>a, <1>b, <2>1 DEF PageType
  <2> QED
    BY <2>1
<1>g. \A h \in popups' : h \in popups \/ h[1] = n
  BY <1>a
<1> HIDE DEF n, q
<1>1. UNCHANGED <<container, inside, history>>
  BY DEF Click, downloads, headers
<1>2. ContainerInScope'
  BY <1>1, Framed
<1>3. FeatureTypes'
  <2>1. step.at # "none" /\ steps' = steps + 1
    BY DEF Click, HasOpenPage, StepDone
  <2>2. UNCHANGED <<setup, feature, phase, tab, factory, auth, agent, history>>
    BY DEF Click, downloads, headers
  <2> QED
    BY <2>1, <2>2, Counted
<1>4. PageTypes'
  <2>1. \A h \in popups' : h[1] \in DOMAIN opened'
    BY <1>d, <1>g DEF PageTypes
  <2>2. 0 \in 0..Len(opened') /\ container' \in 0..Len(opened')
    BY <1>a, <1>d DEF PageTypes, n
  <2>3. \A k \in DOMAIN pages' : pages'[k] \in DOMAIN opened'
    BY <1>a, <1>d DEF PageTypes
  <2>4. \A p \in DOMAIN opened' : opened'[p].feature \in 1..feature'
    BY <1>a, <1>b, <1>c, <1>d DEF PageTypes
  <2> QED
    BY <1>a, <1>d, <1>e, <2>1, <2>2, <2>3, <2>4 DEF PageTypes
<1>5. FileTypes'
  <2>1. twin' = WithCopy /\ UNCHANGED <<expected, downloaded, files>> /\ step.page \in Nat
    BY DEF Click, downloads, PageTypes, StepType
  <2> QED
    BY <2>1, Copied DEF FileTypes
<1>6. StepInv'
  BY <1>a, <1>e DEF StepInv, OnPage
<1>7. PagesInv'
  <2>1. \A k \in DOMAIN pages' : opened'[pages'[k]].open /\ opened'[pages'[k]].feature = k[1]
    BY <1>a, <1>d DEF PagesInv, PageTypes
  <2>2. \A h \in popups' : opened'[h[1]].popup /\ opened'[h[1]].open
    BY <1>c, <1>d, <1>g DEF PagesInv, PageTypes
  <2>3. container # 0 => container \in DOMAIN opened
    BY <1>d DEF PageTypes
  <2> QED
    BY <1>a, <1>d, <1>e, <2>1, <2>2, <2>3 DEF PagesInv, OnPage, Using
<1>8. CallTypes' /\ CallsInv' /\ ApartInv'
  BY <1>a, CallsStay, Framed
<1>13. ReachInv'
  <2> SUFFICES ASSUME phase = "body", ~history.wentBack PROVE ReachInv'
    BY <1>a DEF ReachInv
  <2>1. ASSUME NEW p \in DOMAIN opened', opened'[p].open, opened'[p].alone, opened'[p].feature = feature
        PROVE  (\E k \in DOMAIN pages' : pages'[k] = p) \/ (\E h \in popups' : h[1] = p)
    <3>1. CASE p = n
      BY <1>a, <1>f, <3>1 DEF PagesInv, OnPage
    <3>2. CASE p # n
      <4>1. p \in DOMAIN opened /\ opened[p].open /\ opened[p].alone /\ opened[p].feature = feature
        BY <1>d, <2>1, <3>2
      <4>2. (\E k \in DOMAIN pages : pages[k] = p) \/ (\E h \in popups : h[1] = p)
        BY <4>1 DEF ReachInv, PagesAreReachable
      <4> QED
        BY <1>a, <4>2
    <3> QED
      BY <3>1, <3>2
  <2>2. \A k \in DOMAIN pages' : opened'[pages'[k]] = opened[pages[k]]
    BY <1>a, <1>d DEF PageTypes
  <2> QED
    BY <1>a, <2>1, <2>2 DEF ReachInv, PagesAreReachable, Key
<1>9. LeftInv'
  <2>0. Using("persistent")' = Using("persistent")
    BY <1>a DEF Using
  <2>1. ASSUME NEW p \in DOMAIN opened'
        PROVE  \E x \in DOMAIN opened :
                 /\ opened'[p].open = opened[x].open /\ opened'[p].alone = opened[x].alone
                 /\ opened'[p].late = opened[x].late /\ opened'[p].feature = opened[x].feature
                 /\ opened'[p].context = opened[x].context /\ opened'[p].browser = opened[x].browser
    <3>1. CASE p = n
      <4>1. opened'[p] = q /\ step.page \in DOMAIN opened
        BY <1>b, <1>d, <3>1
      <4> QED
        BY <1>c, <4>1
    <3>2. CASE p # n
      BY <1>d, <3>2
    <3> QED
      BY <3>1, <3>2
  <2>2. ASSUME NEW p \in DOMAIN opened', opened'[p].open, opened'[p].alone
        PROVE  /\ ~opened'[p].late => OfContext(p)'
               /\ opened'[p].late => opened'[p].feature < feature \/ phase = "ended"
               /\ opened'[p].late /\ ~Using("persistent") =>
                    OfBrowser(p)' /\ (history.closed => opened'[p].feature = feature)
    <3>1. PICK x \in DOMAIN opened :
             /\ opened'[p].open = opened[x].open /\ opened'[p].alone = opened[x].alone
             /\ opened'[p].late = opened[x].late /\ opened'[p].feature = opened[x].feature
             /\ opened'[p].context = opened[x].context /\ opened'[p].browser = opened[x].browser
      BY <2>1
    <3>2. (OfContext(x) => OfContext(p)') /\ (OfBrowser(x) => OfBrowser(p)')
      BY <1>a, <3>1 DEF OfContext, OfBrowser
    <3> QED
      BY <2>2, <3>1, <3>2 DEF LeftInv
  <2> HIDE DEF Using
  <2> QED
    BY <1>a, <2>0, <2>2 DEF LeftInv
<1>10. HeadersInv'
  BY DEF Click, StepDone, NoStep, StepAt, HasOpenPage, headers, FeatureTypes, PageTypes, HeadersInv, ContextHeaders
<1>11. FilesInv'
  BY <1>a, <1>d DEF FilesInv, Click, downloads
<1>12. TwinInv'
  <2>1. twin' = WithCopy /\ step.at = "page" /\ step'.at = "none" /\ step.page \in Nat /\ UNCHANGED phase
    BY DEF Click, HasOpenPage, StepDone, NoStep, StepAt, PageTypes, StepType
  <2> QED
    BY <2>1, Copied DEF TwinInv
<1> QED
  BY <1>2, <1>3, <1>4, <1>5, <1>6, <1>7, <1>8, <1>9, <1>10, <1>11, <1>12, <1>13

LEMMA PopupLoadsKeeps ==
  ASSUME IInv, NEW h \in popups, PopupLoads(h)
  PROVE  IInv'
<1> USE DEF IInv
<1> DEFINE f == opened[h[1]].feature
           key == Key(f, tab + 1)
<1>a. /\ tab < MaxTab /\ popups' = popups \ {h} /\ tab' = tab + 1
      /\ pages' = IF factory THEN Assign(pages, key, h[1]) ELSE pages
      /\ UNCHANGED <<setup, feature, phase, steps, step, factory, calls, running, contexts, opened, container, inside, auth,
                     agent, expected, downloaded, files, twin, history>>
  BY DEF PopupLoads, NewTab, downloads, headers
<1>b. h[1] \in DOMAIN opened /\ opened[h[1]].open
  BY DEF PageTypes, PagesInv
<1>c. f \in 1..feature
  BY <1>b DEF PageTypes
<1>d. /\ factory => /\ DOMAIN pages' = DOMAIN pages \cup {key} /\ pages'[key] = h[1]
                    /\ \A k \in DOMAIN pages : k # key => pages'[k] = pages[k]
      /\ ~factory => pages' = pages
  BY <1>a DEF Assign
<1>e. tab + 1 \in 0..MaxTab /\ tab \in Nat /\ tab + 1 # 0
  BY <1>a DEF FeatureTypes
<1>f. key[1] = f /\ key[2] = tab + 1
  BY DEF Key
<1> HIDE DEF f, key
<1>1. FileTypes' /\ StepInv' /\ LeftInv' /\ HeadersInv' /\ FilesInv' /\ TwinInv' /\ ContainerInScope'
  BY <1>a, Framed
<1>2. CallTypes' /\ CallsInv' /\ ApartInv'
  BY <1>a, Framed
<1>3. FeatureTypes'
  BY <1>a, <1>e DEF FeatureTypes
<1>4. PageTypes'
  <2>1. DOMAIN pages' \subseteq (1..feature) \X (0..MaxTab)
    <3>1. key \in (1..feature) \X (0..MaxTab)
      BY <1>c, <1>e DEF Key, key
    <3> QED
      BY <1>d, <3>1 DEF PageTypes
  <2>2. \A k \in DOMAIN pages' : pages'[k] \in DOMAIN opened'
    BY <1>a, <1>b, <1>d DEF PageTypes
  <2> QED
    BY <1>a, <2>1, <2>2 DEF PageTypes
<1>5. PagesInv'
  <2>1. ASSUME NEW k \in DOMAIN pages' PROVE opened'[pages'[k]].open /\ opened'[pages'[k]].feature = k[1]
    <3>1. CASE factory /\ k = key
      BY <1>a, <1>b, <1>d, <1>f, <3>1 DEF f
    <3>2. CASE ~(factory /\ k = key)
      BY <1>a, <1>d, <3>2 DEF PagesInv
    <3> QED
      BY <3>1, <3>2
  <2> QED
    BY <1>a, <2>1 DEF PagesInv, OnPage, Using
<1>6. ReachInv'
  <2> SUFFICES ASSUME phase = "body", ~history.wentBack PROVE ReachInv'
    BY <1>a DEF ReachInv
  <2>1. ASSUME NEW k \in DOMAIN pages', k[1] = feature PROVE k[2] <= tab'
    <3>1. CASE factory /\ k = key
      BY <1>a, <1>e, <1>f, <3>1
    <3>2. CASE ~(factory /\ k = key)
      <4>1. k \in DOMAIN pages /\ k[2] <= tab /\ k[2] \in Nat
        BY <1>d, <2>1, <3>2 DEF ReachInv, PageTypes
      <4> QED
        BY <1>a, <1>e, <4>1
    <3> QED
      BY <3>1, <3>2
  <2>2. ASSUME NEW x \in calls', x.current, x.feature = feature
        PROVE  /\ x.tab <= tab'
               /\ Key(feature, x.tab) \in DOMAIN pages' => ~opened[pages'[Key(feature, x.tab)]].alone
    <3>1. x.tab <= tab /\ x.tab \in Nat
      BY <1>a, <2>2 DEF ReachInv, CallTypes, CallType
    <3>2. Key(feature, x.tab) # key
      BY <1>e, <1>f, <3>1 DEF Key
    <3>3. Key(feature, x.tab) \in DOMAIN pages => ~opened[pages[Key(feature, x.tab)]].alone
      BY <1>a, <2>2 DEF ReachInv
    <3> QED
      BY <1>a, <1>d, <1>e, <3>1, <3>2, <3>3
  <2>3. ASSUME NEW p \in DOMAIN opened', opened'[p].open, opened'[p].alone, opened'[p].feature = feature'
        PROVE  (\E k \in DOMAIN pages' : pages'[k] = p) \/ (\E g \in popups' : g[1] = p)
    <3>0. factory
      <4>1. ~opened[p].late
        BY <1>a, <2>3 DEF LeftInv, FeatureTypes
      <4> QED
        BY <1>a, <2>3, <4>1 DEF LeftInv, OfContext
    <3>1. (\E k \in DOMAIN pages : pages[k] = p) \/ (\E g \in popups : g[1] = p)
      BY <1>a, <2>3 DEF ReachInv, PagesAreReachable
    <3>2. CASE p = h[1]
      BY <1>d, <3>0, <3>2
    <3>3. ASSUME NEW k \in DOMAIN pages, pages[k] = p PROVE \E l \in DOMAIN pages' : pages'[l] = p
      <4>1. k[1] = feature /\ k[2] <= tab
        BY <1>a, <2>3, <3>3 DEF PagesInv, ReachInv
      <4>2. k # key
        BY <1>e, <1>f, <4>1
      <4> QED
        BY <1>d, <3>0, <3>3, <4>2
    <3>4. CASE p # h[1] /\ \E g \in popups : g[1] = p
      BY <1>a, <3>4
    <3> QED
      BY <3>1, <3>2, <3>3, <3>4
  <2> QED
    BY <1>a, <2>1, <2>2, <2>3 DEF ReachInv, PagesAreReachable
<1> QED
  BY <1>1, <1>2, <1>3, <1>4, <1>5, <1>6

LEMMA OnNewTabKeeps ==
  ASSUME IInv, OnNewTab
  PROVE  IInv'
<1> USE DEF IInv
<1>1. UNCHANGED <<setup, feature, phase, step, factory, calls, running, pages, contexts, opened, popups, container,
                  inside, auth, agent, expected, downloaded, files, twin, history>>
  BY DEF OnNewTab, browser, downloads, headers
<1>2. CallTypes' /\ ApartInv' /\ LeftInv'
  BY <1>1, Framed
<1>6. PageTypes' /\ FileTypes' /\ PagesInv' /\ HeadersInv' /\ FilesInv' /\ TwinInv' /\ ContainerInScope'
  BY <1>1, Framed
<1>3. FeatureTypes'
  BY DEF OnNewTab, CanStep, browser, headers, FeatureTypes, Auth, HistoryType
<1>4. StepInv'
  BY DEF OnNewTab, CanStep, browser, FeatureTypes, PageTypes, StepInv, OnPage
<1>7. CallsInv'
  <2>1. step.at # "getting" /\ steps' \in {steps, steps + 1}
    BY DEF OnNewTab, CanStep
  <2> QED
    BY <1>1, <2>1, CallsStay
<1>5. ReachInv'
  <2> SUFFICES ASSUME phase = "body", ~history.wentBack PROVE ReachInv'
    BY <1>1 DEF ReachInv
  <2>1. tab' = tab + 1 /\ tab \in Nat
    BY DEF OnNewTab, FeatureTypes
  <2>2. \A k \in DOMAIN pages : k[1] = feature => k[2] <= tab'
    BY <2>1 DEF ReachInv, PageTypes
  <2>3. \A x \in calls : x.current /\ x.feature = feature => x.tab <= tab'
    BY <2>1 DEF ReachInv, CallTypes, CallType
  <2> QED
    BY <1>1, <2>2, <2>3 DEF ReachInv, PagesAreReachable
<1> QED
  BY <1>2, <1>3, <1>4, <1>5, <1>6, <1>7

LEMMA OnTabKeeps ==
  ASSUME IInv, NEW t \in 0..MaxTab, OnTab(t)
  PROVE  IInv'
<1> USE DEF IInv
<1>1. UNCHANGED <<setup, feature, phase, step, factory, calls, running, pages, contexts, opened, popups, container,
                  inside, auth, agent, expected, downloaded, files, twin>>
  BY DEF OnTab, browser, downloads, headers
<1>a. history'.closed = history.closed /\ history'.apart = history.apart
  BY DEF OnTab, FeatureTypes, HistoryType
<1>2. PageTypes' /\ FileTypes' /\ PagesInv' /\ HeadersInv' /\ TwinInv'
  BY <1>1, <1>a, Framed
<1>3. FeatureTypes'
  <2>1. history' \in HistoryType
    BY DEF OnTab, FeatureTypes, HistoryType
  <2>2. steps' \in 0..setup.steps /\ tab' \in 0..MaxTab /\ UNCHANGED <<setup, feature, phase, factory, auth, agent>>
    BY DEF OnTab, CanStep, FeatureTypes, browser, headers
  <2> QED
    BY <2>1, <2>2 DEF FeatureTypes
<1>4. StepInv'
  BY DEF OnTab, CanStep, browser, FeatureTypes, PageTypes, StepInv, OnPage
<1>5. CallTypes' /\ CallsInv' /\ ApartInv' /\ LeftInv'
  <2>1. step.at # "getting" /\ steps' \in {steps, steps + 1}
    BY DEF OnTab, CanStep
  <2> QED
    BY <1>1, <1>a, <2>1, CallsStay, Framed
<1>6. ReachInv'
  <2>1. history'.wentBack
    BY DEF OnTab, FeatureTypes, HistoryType
  <2> QED
    BY <2>1 DEF ReachInv
<1>7. FilesInv'
  BY DEF OnTab, CanStep, browser, downloads, FeatureTypes, FileTypes, FilesInv
<1>8. ContainerInScope'
  BY DEF OnTab, PageTypes, ContainerInScope
<1> QED
  BY <1>2, <1>3, <1>4, <1>5, <1>6, <1>7, <1>8

LEMMA CurrentTabIsKeeps ==
  ASSUME IInv, NEW t \in 0..MaxTab, CurrentTabIs(t)
  PROVE  IInv'
<1> USE DEF IInv
<1>1. UNCHANGED <<setup, feature, phase, steps, tab, factory, opened, container, inside, auth, agent, expected,
                  downloaded, files, twin, history>>
  BY DEF CurrentTabIs, browser, downloads, headers
<1>2. FeatureTypes' /\ FileTypes' /\ FilesInv' /\ ContainerInScope'
  BY <1>1, Framed
<1>3. PageTypes'
  <2>1. step' \in StepType /\ step'.page = 0
    BY DEF CurrentTabIs, StepAt, StepType, Auth, FeatureTypes
  <2>2. UNCHANGED <<opened, pages, feature, contexts, popups, container, inside>>
    BY DEF CurrentTabIs, browser
  <2> QED
    BY <2>1, <2>2 DEF PageTypes
<1>4. StepInv'
  BY DEF CurrentTabIs, StepAt, CanStep, browser, FeatureTypes, PageTypes, StepInv, OnPage
<1>5. PagesInv'
  BY DEF CurrentTabIs, StepAt, CanStep, browser, FeatureTypes, PageTypes, PagesInv, OnPage, Using
<1>6. CallTypes' /\ CallsInv' /\ ApartInv' /\ ReachInv' /\ LeftInv'
  <2>1. step.at # "getting" /\ steps' \in {steps, steps + 1}
    BY DEF CurrentTabIs, CanStep
  <2>2. UNCHANGED <<setup, feature, phase, tab, factory, calls, running, pages, contexts, opened, popups, history>>
    BY DEF CurrentTabIs, browser
  <2> QED
    BY <2>1, <2>2, Unmoved
<1>8. HeadersInv'
  BY DEF CurrentTabIs, StepAt, CanStep, browser, headers, FeatureTypes, PageTypes, HeadersInv, ContextHeaders
<1>9. TwinInv'
  BY DEF CurrentTabIs, StepAt, CanStep, FeatureTypes, FileTypes, TwinInv
<1> QED
  BY <1>2, <1>3, <1>4, <1>5, <1>6, <1>8, <1>9

LEMMA CurrentTabWasKeeps ==
  ASSUME IInv, CurrentTabWas
  PROVE  IInv'
<1> USE DEF IInv
<1>1. UNCHANGED <<phase, opened, container, inside, expected, downloaded, files, twin, history>>
  BY DEF CurrentTabWas, browser, downloads, headers
<1>2. FileTypes' /\ FilesInv' /\ ContainerInScope'
  BY <1>1, Framed
<1>3. FeatureTypes'
  <2>1. step.at # "none" /\ steps' = steps + 1
    BY DEF CurrentTabWas, StepDone
  <2>2. UNCHANGED <<setup, feature, phase, tab, factory, auth, agent, history>>
    BY DEF CurrentTabWas, browser, downloads, headers
  <2> QED
    BY <2>1, <2>2, Counted
<1>4. PageTypes'
  <2>1. step' \in StepType /\ step'.page = 0
    BY Idle DEF CurrentTabWas, StepDone
  <2>2. UNCHANGED <<opened, pages, feature, contexts, popups, container, inside>>
    BY DEF CurrentTabWas, browser
  <2> QED
    BY <2>1, <2>2 DEF PageTypes
<1>5. StepInv'
  BY DEF CurrentTabWas, StepDone, NoStep, StepAt, browser, FeatureTypes, PageTypes, StepInv, OnPage
<1>6. PagesInv'
  BY DEF CurrentTabWas, StepDone, NoStep, StepAt, browser, FeatureTypes, PageTypes, PagesInv, OnPage, Using
<1>7. CallTypes' /\ CallsInv' /\ ApartInv' /\ ReachInv' /\ LeftInv'
  <2>1. step.at # "getting" /\ steps' \in {steps, steps + 1}
    BY DEF CurrentTabWas, StepDone
  <2>2. UNCHANGED <<setup, feature, phase, tab, factory, calls, running, pages, contexts, opened, popups, history>>
    BY DEF CurrentTabWas, browser
  <2> QED
    BY <2>1, <2>2, Unmoved
<1>9. HeadersInv'
  BY DEF CurrentTabWas, StepDone, NoStep, StepAt, browser, headers, FeatureTypes, PageTypes, HeadersInv, ContextHeaders
<1>10. TwinInv'
  BY DEF CurrentTabWas, StepDone, NoStep, StepAt, FeatureTypes, FileTypes, TwinInv
<1> QED
  BY <1>2, <1>3, <1>4, <1>5, <1>6, <1>7, <1>9, <1>10

LEMMA InElementKeeps ==
  ASSUME IInv, InElement
  PROVE  IInv'
<1> USE DEF IInv
<1>1. UNCHANGED <<phase, opened, expected, downloaded, files, twin, history>>
  BY DEF InElement, browser, downloads, headers
<1>2. FileTypes' /\ FilesInv'
  BY <1>1, Framed
<1>3. FeatureTypes'
  <2>1. step.at # "none" /\ steps' = steps + 1
    BY DEF InElement, HasOpenPage, StepDone
  <2>2. UNCHANGED <<setup, feature, phase, tab, factory, auth, agent, history>>
    BY DEF InElement, browser, downloads, headers
  <2> QED
    BY <2>1, <2>2, Counted
<1>4. PageTypes'
  <2>1. step' \in StepType /\ step'.page = 0
    BY Idle DEF InElement, StepDone
  <2>2. container' = step.page /\ inside' = Append(inside, step.page) /\ step.page \in Nat
    BY DEF InElement, PageTypes, StepType
  <2>3. inside' \in Seq(Nat)
    BY <2>2, Appended DEF PageTypes
  <2>4. UNCHANGED <<opened, pages, feature, contexts, popups>>
    BY DEF InElement, browser
  <2> QED
    BY <2>1, <2>2, <2>3, <2>4 DEF PageTypes
<1>5. StepInv'
  BY DEF InElement, StepDone, NoStep, StepAt, HasOpenPage, browser, FeatureTypes, PageTypes, StepInv, OnPage
<1>6. PagesInv'
  BY DEF InElement, StepDone, NoStep, StepAt, HasOpenPage, browser, FeatureTypes, PageTypes, PagesInv, OnPage, Using
<1>7. CallTypes' /\ CallsInv' /\ ApartInv' /\ ReachInv' /\ LeftInv'
  <2>1. step.at # "getting" /\ steps' \in {steps, steps + 1}
    BY DEF InElement, HasOpenPage, StepDone
  <2>2. UNCHANGED <<setup, feature, phase, tab, factory, calls, running, pages, contexts, opened, popups, history>>
    BY DEF InElement, browser
  <2> QED
    BY <2>1, <2>2, Unmoved
<1>9. HeadersInv'
  BY DEF InElement, StepDone, NoStep, StepAt, HasOpenPage, browser, headers, FeatureTypes, PageTypes, HeadersInv,
     ContextHeaders
<1>10. TwinInv'
  BY DEF InElement, StepDone, NoStep, StepAt, HasOpenPage, FeatureTypes, FileTypes, TwinInv
<1>11. ContainerInScope'
  BY DEF InElement, PageTypes, ContainerInScope
<1> QED
  BY <1>2, <1>3, <1>4, <1>5, <1>6, <1>7, <1>9, <1>10, <1>11

LEMMA LeavesElementKeeps ==
  ASSUME IInv, NEW ok \in BOOLEAN, LeavesElement(ok)
  PROVE  IInv'
<1> USE DEF IInv
<1>1. UNCHANGED <<setup, feature, phase, steps, step, tab, factory, calls, running, pages, contexts, opened, popups,
                  auth, agent, expected, downloaded, files, twin, history>>
  BY DEF LeavesElement, browser, downloads, headers
<1>2. /\ CallTypes' /\ CallsInv' /\ ApartInv' /\ FeatureTypes' /\ FileTypes' /\ StepInv' /\ ReachInv' /\ LeftInv'
      /\ HeadersInv' /\ FilesInv' /\ TwinInv'
  BY <1>1, Framed
<1>3. PageTypes'
  <2>1. container' = 0 /\ inside' \in Seq(Nat)
    BY Fronted DEF LeavesElement, Unset, PageTypes
  <2>2. UNCHANGED <<step, opened, pages, feature, contexts, popups>>
    BY DEF LeavesElement, browser
  <2> QED
    BY <2>1, <2>2 DEF PageTypes
<1>4. PagesInv'
  BY DEF LeavesElement, Unset, browser, FeatureTypes, PageTypes, PagesInv, OnPage, Using
<1>5. ContainerInScope'
  BY DEF LeavesElement, Unset, PageTypes, ContainerInScope
<1> QED
  BY <1>2, <1>3, <1>4, <1>5

LEMMA ElementThrowsKeeps ==
  ASSUME IInv, ElementThrows
  PROVE  IInv'
<1> USE DEF IInv
<1>a. history' \in HistoryType /\ UNCHANGED <<history.wentBack, history.closed, history.late, history.apart>>
  BY DEF ElementThrows, FeatureTypes, HistoryType
<1>1. UNCHANGED <<setup, feature, phase, steps, step, tab, factory, calls, running, pages, contexts, opened, popups,
                  container, auth, agent, expected, downloaded, files, twin>>
  BY DEF ElementThrows, browser, downloads, headers
<1>2. FileTypes' /\ StepInv' /\ PagesInv' /\ HeadersInv' /\ TwinInv'
  BY <1>1, <1>a, Framed
<1>3. FeatureTypes'
  BY <1>1, <1>a DEF FeatureTypes
<1>4. PageTypes'
  <2>1. inside' \in Seq(Nat)
    BY Fronted DEF ElementThrows, PageTypes
  <2>2. UNCHANGED <<step, opened, pages, feature, contexts, popups, container>>
    BY DEF ElementThrows, browser
  <2> QED
    BY <2>1, <2>2 DEF PageTypes
<1>5. CallTypes' /\ CallsInv' /\ ApartInv' /\ ReachInv' /\ LeftInv'
  BY <1>1, <1>a, Framed
<1>7. FilesInv'
  BY <1>1, <1>a, Framed
<1>8. ContainerInScope'
  BY DEF ElementThrows, PageTypes, ContainerInScope
<1> QED
  BY <1>2, <1>3, <1>4, <1>5, <1>7, <1>8

LEMMA ApiUserAgentKeeps ==
  ASSUME IInv, ApiUserAgent
  PROVE  IInv'
<1> USE DEF IInv
<1>1. UNCHANGED <<setup, feature, phase, step, tab, factory, calls, running, pages, contexts, opened, popups,
                  container, inside, expected, downloaded, files, twin, history>>
  BY DEF ApiUserAgent, browser, downloads, headers
<1>2. PageTypes' /\ FileTypes' /\ PagesInv' /\ FilesInv' /\ TwinInv' /\ ContainerInScope'
  BY <1>1, Framed
<1>6. CallTypes' /\ CallsInv' /\ ApartInv' /\ ReachInv' /\ LeftInv'
  <2>1. step.at # "getting" /\ steps' \in {steps, steps + 1}
    BY DEF ApiUserAgent, CanStep
  <2> QED
    BY <1>1, <2>1, Unmoved
<1>3. FeatureTypes'
  BY DEF ApiUserAgent, CanStep, browser, headers, FeatureTypes, Auth, HistoryType
<1>4. StepInv'
  BY DEF ApiUserAgent, CanStep, browser, FeatureTypes, PageTypes, StepInv, OnPage
<1>5. HeadersInv'
  BY DEF ApiUserAgent, CanStep, browser, headers, FeatureTypes, PageTypes, HeadersInv, ContextHeaders
<1> QED
  BY <1>2, <1>3, <1>4, <1>5, <1>6

LEMMA SetExtraHTTPHeadersKeeps ==
  ASSUME IInv, NEW h \in Auth, SetExtraHTTPHeaders(h)
  PROVE  IInv'
<1> USE DEF IInv
<1>a. /\ step.at = "page" /\ step' = [step EXCEPT !.at = "headers", !.auth = h] /\ feature \in DOMAIN contexts
      /\ contexts' = [contexts EXCEPT ![feature] = [contexts[feature] EXCEPT !.auth = h]] /\ h \in Auth
      /\ UNCHANGED <<setup, feature, phase, steps, tab, factory, calls, running, pages, opened, popups, container,
                     inside, auth, agent, history>>
  BY DEF SetExtraHTTPHeaders, HasOpenPage, SetContext, ContextHeaders, headers
<1>b. step' \in StepType /\ step'.at = "headers" /\ step'.auth = h /\ step'.page = step.page
  BY <1>a DEF PageTypes, StepType
<1>c. /\ contexts' \in [DOMAIN contexts' -> ContextType] /\ DOMAIN contexts' = DOMAIN contexts
      /\ contexts'[feature].id = contexts[feature].id /\ contexts'[feature].browser = contexts[feature].browser
      /\ contexts'[feature].auth = h /\ contexts'[feature].agent = contexts[feature].agent
  BY <1>a DEF PageTypes, ContextType
<1>1. UNCHANGED <<setup, feature, phase, steps, tab, factory, opened, container, inside, auth, agent, expected,
                  downloaded, files, twin, history>>
  BY DEF SetExtraHTTPHeaders, downloads, headers
<1>2. FeatureTypes' /\ FileTypes' /\ FilesInv' /\ ContainerInScope'
  BY <1>1, Framed
<1>3. PageTypes'
  BY <1>a, <1>b, <1>c DEF PageTypes
<1>4. StepInv'
  BY <1>a, <1>b, <1>c DEF StepInv, OnPage
<1>5. PagesInv'
  BY <1>a, <1>b DEF PagesInv, OnPage, Using
<1>6. CallTypes' /\ CallsInv' /\ ApartInv' /\ ReachInv' /\ LeftInv'
  <2>1. CallTypes' /\ CallsInv' /\ ReachInv'
    BY <1>a, <1>b, CallsStay, Framed
  <2>2. ApartInv' /\ LeftInv'
    BY <1>a, <1>c, ContextsStay
  <2> QED
    BY <2>1, <2>2
<1>8. HeadersInv'
  <2>1. phase = "body" /\ history.apart => contexts[feature].agent = FALSE
    BY <1>a DEF HeadersInv, ContextHeaders
  <2> QED
    BY <1>a, <1>b, <1>c, <2>1 DEF HeadersInv, ContextHeaders
<1>9. TwinInv'
  BY DEF SetExtraHTTPHeaders, HasOpenPage, FeatureTypes, FileTypes, TwinInv
<1> QED
  BY <1>2, <1>3, <1>4, <1>5, <1>6, <1>8, <1>9

LEMMA HeadersAreSetKeeps ==
  ASSUME IInv, HeadersAreSet
  PROVE  IInv'
<1> USE DEF IInv
<1>a. step.at = "headers" /\ auth' = step.auth /\ UNCHANGED <<setup, feature, phase, tab, factory, calls, running,
                                                              pages, contexts, opened, popups, container, inside,
                                                              agent, history>>
  BY DEF HeadersAreSet, browser
<1>b. /\ step' \in StepType
      /\ \/ step'.at = "none" /\ step'.page = 0 /\ steps' = steps + 1
         \/ step'.at = "page" /\ step'.page = step.page /\ steps' = steps
  <2>1. CASE StepDone
    BY <2>1, Idle DEF StepDone
  <2>2. CASE step' = [step EXCEPT !.at = "page", !.how = "get"] /\ UNCHANGED steps
    BY <2>2 DEF PageTypes, StepType
  <2> QED
    BY <2>1, <2>2 DEF HeadersAreSet
<1>1. UNCHANGED <<phase, opened, container, inside, expected, downloaded, files, twin, history>>
  BY DEF HeadersAreSet, browser, downloads, headers
<1>2. FileTypes' /\ FilesInv' /\ ContainerInScope'
  BY <1>1, Framed
<1>3. FeatureTypes'
  <2>1. steps' \in 0..setup.steps
    BY <1>a, <1>b DEF FeatureTypes, StepInv
  <2>2. auth' \in Auth
    BY <1>a DEF PageTypes, StepType
  <2> QED
    BY <1>a, <2>1, <2>2 DEF FeatureTypes
<1>4. PageTypes'
  BY <1>a, <1>b DEF PageTypes
<1>5. StepInv'
  BY <1>a, <1>b DEF StepInv, OnPage
<1>6. PagesInv'
  BY <1>a, <1>b DEF PagesInv, OnPage, Using
<1>7. CallTypes' /\ CallsInv' /\ ApartInv' /\ ReachInv' /\ LeftInv'
  BY <1>a, <1>b, Unmoved
<1>9. HeadersInv'
  BY <1>a, <1>b DEF HeadersInv, ContextHeaders, StepInv
<1>10. TwinInv'
  BY <1>a, <1>b DEF TwinInv, HeadersAreSet
<1> QED
  BY <1>2, <1>3, <1>4, <1>5, <1>6, <1>7, <1>9, <1>10

LEMMA FetchKeeps ==
  ASSUME IInv, Fetch
  PROVE  IInv'
<1> USE DEF IInv
<1>a. /\ step.at = "page" /\ step' = [step EXCEPT !.at = "fetching"] /\ feature \in DOMAIN contexts
      /\ contexts' = IF agent THEN [contexts EXCEPT ![feature] = [contexts[feature] EXCEPT !.auth = auth, !.agent = TRUE]]
                     ELSE contexts
      /\ UNCHANGED <<setup, feature, phase, steps, tab, factory, calls, running, pages, opened, popups, container,
                     inside, auth, agent, history>>
  BY DEF Fetch, HasOpenPage, SetContext, ContextHeaders, headers
<1>b. step' \in StepType /\ step'.at = "fetching" /\ step'.page = step.page
  BY <1>a DEF PageTypes, StepType
<1>c. /\ contexts' \in [DOMAIN contexts' -> ContextType] /\ DOMAIN contexts' = DOMAIN contexts
      /\ contexts'[feature].id = contexts[feature].id /\ contexts'[feature].browser = contexts[feature].browser
      /\ agent => contexts'[feature].auth = auth /\ contexts'[feature].agent
  BY <1>a DEF PageTypes, ContextType, FeatureTypes
<1>1. UNCHANGED <<setup, feature, phase, steps, tab, factory, opened, container, inside, auth, agent, expected,
                  downloaded, files, twin, history>>
  BY DEF Fetch, downloads, headers
<1>2. FeatureTypes' /\ FileTypes' /\ FilesInv' /\ ContainerInScope'
  BY <1>1, Framed
<1>3. PageTypes'
  BY <1>a, <1>b, <1>c DEF PageTypes
<1>4. StepInv'
  BY <1>a, <1>b, <1>c DEF StepInv, OnPage
<1>5. PagesInv'
  BY <1>a, <1>b DEF PagesInv, OnPage, Using
<1>6. CallTypes' /\ CallsInv' /\ ApartInv' /\ ReachInv' /\ LeftInv'
  <2>1. CallTypes' /\ CallsInv' /\ ReachInv'
    BY <1>a, <1>b, CallsStay, Framed
  <2>2. ApartInv' /\ LeftInv'
    BY <1>a, <1>c, ContextsStay
  <2> QED
    BY <2>1, <2>2
<1>8. HeadersInv'
  <2>1. phase = "body" /\ history.apart => contexts[feature].auth = auth /\ contexts[feature].agent = FALSE
    BY <1>a DEF HeadersInv, ContextHeaders
  <2>2. agent \in BOOLEAN
    BY DEF FeatureTypes
  <2> QED
    BY <1>a, <1>b, <1>c, <2>1, <2>2 DEF HeadersInv, ContextHeaders
<1>9. TwinInv'
  BY DEF Fetch, HasOpenPage, FeatureTypes, FileTypes, TwinInv
<1> QED
  BY <1>2, <1>3, <1>4, <1>5, <1>6, <1>8, <1>9

LEMMA FetchedKeeps ==
  ASSUME IInv, Fetched
  PROVE  IInv'
<1> USE DEF IInv
<1>a. /\ step.at = "fetching"
      /\ feature \in DOMAIN contexts
      /\ contexts' = IF agent THEN [contexts EXCEPT ![feature] = [contexts[feature] EXCEPT !.auth = auth, !.agent = FALSE]]
                     ELSE contexts
      /\ UNCHANGED <<setup, feature, phase, tab, factory, calls, running, pages, opened, popups, container, inside, auth,
                     agent, history>>
  BY DEF Fetched, SetContext, ContextHeaders, StepInv, headers
<1>b. /\ step' \in StepType
      /\ \/ step'.at = "none" /\ step'.page = 0 /\ steps' = steps + 1
         \/ step'.at = "page" /\ step'.page = step.page /\ steps' = steps
  <2>1. CASE StepDone
    BY <2>1, Idle DEF StepDone
  <2>2. CASE step' = [step EXCEPT !.at = "page", !.how = "with"] /\ UNCHANGED steps
    BY <2>2 DEF PageTypes, StepType
  <2> QED
    BY <2>1, <2>2 DEF Fetched
<1>c. /\ contexts' \in [DOMAIN contexts' -> ContextType] /\ DOMAIN contexts' = DOMAIN contexts
      /\ contexts'[feature].id = contexts[feature].id /\ contexts'[feature].browser = contexts[feature].browser
      /\ agent => contexts'[feature].auth = auth /\ ~contexts'[feature].agent
  BY <1>a DEF PageTypes, ContextType, FeatureTypes
<1>1. UNCHANGED <<phase, opened, container, inside, expected, downloaded, files, twin, history>>
  BY DEF Fetched, downloads, headers
<1>2. FileTypes' /\ FilesInv' /\ ContainerInScope'
  BY <1>1, Framed
<1>3. FeatureTypes'
  <2>1. steps' \in 0..setup.steps
    BY <1>a, <1>b DEF FeatureTypes, StepInv
  <2> QED
    BY <1>a, <2>1 DEF FeatureTypes
<1>4. PageTypes'
  BY <1>a, <1>b, <1>c DEF PageTypes
<1>5. StepInv'
  BY <1>a, <1>b DEF StepInv, OnPage
<1>6. PagesInv'
  BY <1>a, <1>b DEF PagesInv, OnPage, Using
<1>7. CallTypes' /\ CallsInv' /\ ApartInv' /\ ReachInv' /\ LeftInv'
  <2>1. CallTypes' /\ CallsInv' /\ ReachInv'
    BY <1>a, <1>b, CallsStay, Framed
  <2>2. ApartInv' /\ LeftInv'
    BY <1>a, <1>c, ContextsStay
  <2> QED
    BY <2>1, <2>2
<1>9. HeadersInv'
  <2>1. phase = "body" /\ history.apart => contexts[feature].auth = auth /\ contexts[feature].agent = agent
    BY <1>a DEF HeadersInv, ContextHeaders, FeatureTypes
  <2>2. agent \in BOOLEAN
    BY DEF FeatureTypes
  <2>3. step'.at \notin {"headers", "fetching"}
    BY <1>b
  <2>4. phase = "body" /\ history.apart => contexts'[feature].auth = auth /\ contexts'[feature].agent = FALSE
    BY <1>a, <1>c, <2>1, <2>2
  <2> QED
    BY <1>a, <1>c, <2>3, <2>4 DEF HeadersInv, ContextHeaders
<1>10. TwinInv'
  BY <1>a, <1>b DEF TwinInv, Fetched
<1> QED
  BY <1>2, <1>3, <1>4, <1>5, <1>6, <1>7, <1>9, <1>10

LEMMA ExpectInContainerKeeps ==
  ASSUME IInv, ExpectInContainer
  PROVE  IInv'
<1> USE DEF IInv
<1>a. /\ step.at = "none" /\ phase \in {"body", "ended"} /\ steps < setup.steps /\ steps' = steps + 1
      /\ history' = AskedLate /\ expected' = NoDownload
      /\ UNCHANGED <<setup, feature, phase, step, tab, factory, calls, running, pages, contexts, opened, popups, container,
                     inside, auth, agent, downloaded, files, twin>>
  BY DEF ExpectInContainer, Expects, CanStep, browser, headers
<1>b. /\ history' \in HistoryType /\ history'.wentBack = history.wentBack /\ history'.threw = history.threw
      /\ history'.closed = history.closed /\ history'.apart = history.apart
      /\ (phase # "ended" => history' = history) /\ (phase = "ended" => history'.late)
  BY <1>a, Noted
<1>1. PageTypes' /\ PagesInv' /\ HeadersInv' /\ TwinInv' /\ ContainerInScope'
  BY <1>a, <1>b, Framed
<1>2. CallTypes' /\ CallsInv' /\ ApartInv' /\ ReachInv' /\ LeftInv'
  BY <1>a, <1>b, Unmoved
<1>3. FeatureTypes'
  BY <1>a, <1>b DEF FeatureTypes
<1>4. FileTypes'
  BY <1>a DEF FileTypes, ExpectedType, NoDownload, None, Ids
<1>5. StepInv'
  BY <1>a, <1>b DEF StepInv, OnPage
<1>6. FilesInv'
  BY <1>a, <1>b DEF FilesInv, NoDownload
<1> QED
  BY <1>1, <1>2, <1>3, <1>4, <1>5, <1>6

LEMMA ExpectOnPageKeeps ==
  ASSUME IInv, ExpectOnPage
  PROVE  IInv'
<1> USE DEF IInv
<1> DEFINE p == pages[Key(feature, tab)]
<1>a. /\ step.at = "none" /\ phase \in {"body", "ended"} /\ steps < setup.steps /\ steps' = steps + 1 /\ container = 0
      /\ history' = AskedLate /\ HasPage /\ opened' = OneMoreHandler
      /\ expected' = [at |-> "waiting", page |-> p, call |-> None]
      /\ UNCHANGED <<setup, feature, phase, step, tab, factory, calls, running, pages, contexts, popups, container, inside,
                     auth, agent, downloaded, files, twin>>
  BY DEF ExpectOnPage, Expects, CanStep, headers
<1>b. /\ history' \in HistoryType /\ history'.wentBack = history.wentBack /\ history'.threw = history.threw
      /\ history'.closed = history.closed /\ history'.apart = history.apart
      /\ (phase # "ended" => history' = history) /\ (phase = "ended" => history'.late)
  BY <1>a, Noted
<1>c. /\ p \in DOMAIN opened /\ p \in Nat
      /\ opened' \in Seq(PageType) /\ DOMAIN opened' = DOMAIN opened /\ Len(opened') = Len(opened)
      /\ \A x \in DOMAIN opened : /\ opened'[x].feature = opened[x].feature /\ opened'[x].open = opened[x].open
                                  /\ opened'[x].context = opened[x].context /\ opened'[x].browser = opened[x].browser
                                  /\ opened'[x].alone = opened[x].alone /\ opened'[x].late = opened[x].late
                                  /\ opened'[x].popup = opened[x].popup
  BY <1>a, MoreHandlers
<1> HIDE DEF p
<1>1. HeadersInv' /\ TwinInv' /\ ContainerInScope'
  BY <1>a, <1>b, Framed
<1>2. CallTypes' /\ CallsInv' /\ ApartInv'
  BY <1>a, <1>b, CallsStay, Framed
<1>3. ReachInv' /\ LeftInv'
  BY <1>a, <1>b, <1>c, OpenedStay
<1>4. FeatureTypes'
  BY <1>a, <1>b DEF FeatureTypes
<1>5. PageTypes'
  BY <1>a, <1>c DEF PageTypes
<1>6. FileTypes'
  BY <1>a, <1>c DEF FileTypes, ExpectedType, None, Ids
<1>7. StepInv'
  BY <1>a, <1>b DEF StepInv, OnPage
<1>8. PagesInv'
  <2>1. \A k \in DOMAIN pages' : opened'[pages'[k]].open /\ opened'[pages'[k]].feature = k[1]
    BY <1>a, <1>c DEF PagesInv, PageTypes
  <2>2. \A h \in popups' : opened'[h[1]].popup /\ opened'[h[1]].open
    BY <1>a, <1>c DEF PagesInv, PageTypes
  <2> QED
    BY <1>a, <2>1, <2>2 DEF PagesInv, OnPage
<1>9. FilesInv'
  BY <1>a, <1>b, <1>c DEF FilesInv
<1> QED
  BY <1>1, <1>2, <1>3, <1>4, <1>5, <1>6, <1>7, <1>8, <1>9

LEMMA ExpectAsksKeeps ==
  ASSUME IInv, ExpectAsks
  PROVE  IInv'
<1> USE DEF IInv
<1>a. /\ CanStep /\ Ask /\ steps' = steps + 1 /\ step' = step /\ expected' = [at |-> "asking", page |-> 0, call |-> Id(Asked)]
      /\ UNCHANGED <<setup, feature, phase, tab, running, pages, contexts, opened, popups, container, inside, auth, agent,
                     downloaded, files, twin>>
  BY DEF ExpectAsks, Expects, headers
<1>b. step.at = "none" /\ phase \in {"body", "ended"} /\ steps < setup.steps
  BY <1>a DEF CanStep
<1>c. /\ factory' = TRUE /\ history' \in HistoryType /\ history'.threw = history.threw
      /\ history'.closed = history.closed /\ (phase # "ended" => history'.late = history.late)
      /\ (phase = "ended" => history'.late)
  BY <1>a DEF Ask, AskedLate, FeatureTypes, HistoryType
<1>1. CallTypes' /\ CallsInv' /\ ApartInv' /\ ReachInv' /\ LeftInv' /\ HeadersInv'
  BY <1>a, AskKeeps
<1>2. PageTypes' /\ PagesInv' /\ TwinInv' /\ ContainerInScope'
  BY <1>a, <1>c, Framed
<1>3. FeatureTypes'
  BY <1>a, <1>b, <1>c DEF FeatureTypes
<1>4. FileTypes'
  <2>1. Id(Asked) \in Ids
    BY DEF Id, Asked, Ids, FeatureTypes
  <2> QED
    BY <1>a, <2>1 DEF FileTypes, ExpectedType
<1>5. StepInv'
  BY <1>a, <1>b, <1>c DEF StepInv, OnPage
<1>6. FilesInv'
  BY <1>a, <1>c DEF FilesInv
<1> QED
  BY <1>1, <1>2, <1>3, <1>4, <1>5, <1>6

LEMMA DownloadArrivesKeeps ==
  ASSUME IInv, DownloadArrives
  PROVE  IInv'
<1> USE DEF IInv
<1>1. UNCHANGED <<setup, feature, phase, steps, step, tab, factory, calls, running, pages, contexts, opened, popups,
                  container, inside, auth, agent, twin, history>>
  BY DEF DownloadArrives, browser, headers
<1>9. CallTypes' /\ CallsInv' /\ ApartInv' /\ ReachInv' /\ LeftInv'
  BY <1>1, Framed
<1>2. FeatureTypes' /\ PageTypes' /\ StepInv' /\ PagesInv' /\ HeadersInv' /\ TwinInv'
      /\ ContainerInScope'
  BY <1>1, Framed
<1>3. FileTypes'
  BY DEF DownloadArrives, FileTypes, CopyType, TwinType, ExpectedType, States
<1>4. FilesInv'
  <2>1. expected.at = "waiting" /\ expected'.page = expected.page /\ UNCHANGED <<phase, history, downloaded, files, opened>>
    BY DEF DownloadArrives, browser, FileTypes, ExpectedType
  <2> QED
    BY <2>1 DEF FilesInv
<1> QED
  BY <1>9, <1>2, <1>3, <1>4

LEMMA DownloadFailsKeeps ==
  ASSUME IInv, DownloadFails
  PROVE  IInv'
<1> USE DEF IInv
<1>1. UNCHANGED <<setup, feature, phase, steps, step, tab, factory, calls, running, pages, contexts, opened, popups,
                  container, inside, auth, agent, twin, history>>
  BY DEF DownloadFails, browser, headers
<1>9. CallTypes' /\ CallsInv' /\ ApartInv' /\ ReachInv' /\ LeftInv'
  BY <1>1, Framed
<1>2. FeatureTypes' /\ PageTypes' /\ StepInv' /\ PagesInv' /\ HeadersInv' /\ TwinInv'
      /\ ContainerInScope'
  BY <1>1, Framed
<1>3. FileTypes'
  BY DEF DownloadFails, FileTypes, CopyType, TwinType, ExpectedType, States
<1>4. FilesInv'
  <2>1. expected.at = "waiting" /\ expected'.page = expected.page /\ UNCHANGED <<phase, history, downloaded, files, opened>>
    BY DEF DownloadFails, browser, FileTypes, ExpectedType
  <2> QED
    BY <2>1 DEF FilesInv
<1> QED
  BY <1>9, <1>2, <1>3, <1>4

LEMMA ReceiveDownloadKeeps ==
  ASSUME IInv, NEW f \in File, ReceiveDownload(f)
  PROVE  IInv'
<1> USE DEF IInv
<1>a. \/ files' = files \cup {f} /\ downloaded' = Append(downloaded, f)
      \/ UNCHANGED <<downloaded, files>>
  BY DEF ReceiveDownload, Saved
<1>b. downloaded' \in Seq(File) /\ files' \subseteq File /\ ToSet(downloaded) \subseteq ToSet(downloaded')
      /\ files' \subseteq files \cup ToSet(downloaded')
  <2>1. CASE files' = files \cup {f} /\ downloaded' = Append(downloaded, f)
    BY <2>1, Listed DEF FileTypes
  <2>2. CASE UNCHANGED <<downloaded, files>>
    BY <2>2 DEF FileTypes
  <2> QED
    BY <1>a, <2>1, <2>2
<1>1. UNCHANGED <<setup, feature, phase, step, tab, factory, calls, running, pages, contexts, opened, popups,
                  container, inside, auth, agent, twin>>
  BY DEF ReceiveDownload, browser, downloads, headers
<1>c. step.at = "none" /\ phase \in {"body", "ended"} /\ steps < setup.steps /\ steps' = steps + 1 /\ history' = AskedLate
  BY DEF ReceiveDownload, CanStep
<1>d. /\ history' \in HistoryType /\ history'.wentBack = history.wentBack /\ history'.threw = history.threw
      /\ history'.closed = history.closed /\ history'.apart = history.apart
      /\ (phase # "ended" => history' = history) /\ (phase = "ended" => history'.late)
  BY <1>c, Noted
<1>2. PageTypes' /\ PagesInv' /\ HeadersInv' /\ TwinInv' /\ ContainerInScope'
  BY <1>1, <1>d, Framed
<1>7. CallTypes' /\ CallsInv' /\ ApartInv' /\ ReachInv' /\ LeftInv'
  BY <1>1, <1>c, <1>d, Unmoved
<1>3. FeatureTypes'
  BY <1>1, <1>c, <1>d DEF FeatureTypes
<1>4. FileTypes'
  <2>1. UNCHANGED <<expected, twin>>
    BY DEF ReceiveDownload
  <2> QED
    BY <1>b, <2>1 DEF FileTypes
<1>5. StepInv'
  BY <1>1, <1>c, <1>d DEF StepInv, OnPage
<1>6. FilesInv'
  <2>1. UNCHANGED expected
    BY DEF ReceiveDownload
  <2> QED
    BY <1>b, <1>1, <1>c, <1>d, <2>1 DEF FilesInv
<1> QED
  BY <1>2, <1>3, <1>4, <1>5, <1>6, <1>7

LEMMA WaitForDownloadKeeps ==
  ASSUME IInv, NEW f \in File, WaitForDownload(f)
  PROVE  IInv'
<1> USE DEF IInv
<1>a. \/ files' = files \cup {f} /\ downloaded' = Append(downloaded, f)
      \/ UNCHANGED <<downloaded, files>>
  BY DEF WaitForDownload, Saved
<1>b. downloaded' \in Seq(File) /\ files' \subseteq File /\ ToSet(downloaded) \subseteq ToSet(downloaded')
      /\ files' \subseteq files \cup ToSet(downloaded')
  <2>1. CASE files' = files \cup {f} /\ downloaded' = Append(downloaded, f)
    BY <2>1, Listed DEF FileTypes
  <2>2. CASE UNCHANGED <<downloaded, files>>
    BY <2>2 DEF FileTypes
  <2> QED
    BY <1>a, <2>1, <2>2
<1>1. UNCHANGED <<container, inside, history>>
  BY DEF WaitForDownload, browser, downloads, headers
<1>2. ContainerInScope'
  BY <1>1, Framed
<1>3. FeatureTypes'
  <2>1. step.at # "none" /\ steps' = steps + 1
    BY DEF WaitForDownload, HasOpenPage, StepDone
  <2>2. UNCHANGED <<setup, feature, phase, tab, factory, auth, agent, history>>
    BY DEF WaitForDownload, browser, downloads, headers
  <2> QED
    BY <2>1, <2>2, Counted
<1>4. PageTypes'
  <2>1. step' \in StepType /\ step'.page = 0
    BY Idle DEF WaitForDownload, StepDone
  <2>2. UNCHANGED <<opened, pages, feature, contexts, popups, container, inside>>
    BY DEF WaitForDownload, browser
  <2> QED
    BY <2>1, <2>2 DEF PageTypes
<1>5. FileTypes'
  <2>1. UNCHANGED <<expected, twin>>
    BY DEF WaitForDownload
  <2> QED
    BY <1>b, <2>1 DEF FileTypes
<1>6. StepInv'
  BY DEF WaitForDownload, StepDone, NoStep, StepAt, HasOpenPage, browser, FeatureTypes, PageTypes, StepInv, OnPage
<1>7. PagesInv'
  BY DEF WaitForDownload, StepDone, NoStep, StepAt, HasOpenPage, browser, FeatureTypes, PageTypes, PagesInv, OnPage,
         Using
<1>8. CallTypes' /\ CallsInv' /\ ApartInv' /\ ReachInv' /\ LeftInv'
  <2>1. step.at # "getting" /\ steps' \in {steps, steps + 1}
    BY DEF WaitForDownload, HasOpenPage, StepDone
  <2>2. UNCHANGED <<setup, feature, phase, tab, factory, calls, running, pages, contexts, opened, popups, history>>
    BY DEF WaitForDownload, browser
  <2> QED
    BY <2>1, <2>2, Unmoved
<1>10. HeadersInv'
  BY DEF WaitForDownload, StepDone, NoStep, StepAt, HasOpenPage, browser, headers, FeatureTypes, PageTypes, HeadersInv,
     ContextHeaders
<1>11. FilesInv'
  <2>1. step.at = "page" /\ UNCHANGED <<phase, history, expected, opened>>
    BY DEF WaitForDownload, HasOpenPage, browser
  <2>2. phase \in {"body", "ended"} /\ (phase = "ended" => history.late)
    BY <2>1 DEF StepInv
  <2> QED
    BY <1>b, <2>1, <2>2 DEF FilesInv
<1>12. TwinInv'
  BY DEF WaitForDownload, StepDone, NoStep, StepAt, HasOpenPage, FeatureTypes, FileTypes, TwinInv
<1> QED
  BY <1>2, <1>3, <1>4, <1>5, <1>6, <1>7, <1>8, <1>10, <1>11, <1>12

LEMMA CopyPlacedKeeps ==
  ASSUME IInv, NEW i \in DOMAIN twin.copies, CopyPlaced(i)
  PROVE  IInv'
<1> USE DEF IInv
<1> DEFINE c == [twin.copies EXCEPT ![i] = [twin.copies[i] EXCEPT !.state = "placed"]]
<1>a. twin' = [twin EXCEPT !.copies = c] /\ UNCHANGED <<expected, downloaded, files, phase, step>>
  BY DEF CopyPlaced, downloads
<1>b. twin \in TwinType /\ \A j \in DOMAIN twin.copies : twin.copies[j] \in CopyType
  BY DEF FileTypes, TwinType
<1>c. c \in [DOMAIN twin.copies -> CopyType]
  BY <1>b DEF CopyType, States
<1>d. \A j \in DOMAIN twin.copies : c[j].state \notin {"due", "settled"} \/ c[j] = twin.copies[j]
  BY <1>b DEF CopyType
<1> HIDE DEF c
<1>e. c \in Seq(CopyType) /\ DOMAIN c = DOMAIN twin.copies
  BY <1>c, Recopied
<1>f. twin' \in TwinType /\ twin'.copies = c /\ twin'.at = twin.at /\ twin'.wrote = twin.wrote
  BY <1>a, <1>b, <1>e DEF TwinType
<1>1. UNCHANGED <<setup, feature, phase, steps, step, tab, factory, calls, running, pages, contexts, opened, popups,
                  container, inside, auth, agent, expected, downloaded, files, history>>
  BY DEF CopyPlaced, browser, downloads, headers
<1>9. CallTypes' /\ CallsInv' /\ ApartInv' /\ ReachInv' /\ LeftInv'
  BY <1>1, Framed
<1>2. FeatureTypes' /\ PageTypes' /\ StepInv' /\ PagesInv' /\ HeadersInv' /\ FilesInv'
      /\ ContainerInScope'
  BY <1>1, Framed
<1>3. FileTypes'
  BY <1>a, <1>f DEF FileTypes
<1>4. TwinInv'
  BY <1>a, <1>d, <1>e, <1>f DEF TwinInv
<1> QED
  BY <1>9, <1>2, <1>3, <1>4

LEMMA CopySettlesKeeps ==
  ASSUME IInv, NEW i \in DOMAIN twin.copies, CopySettles(i)
  PROVE  IInv'
<1> USE DEF IInv
<1> DEFINE c == [twin.copies EXCEPT ![i] = [twin.copies[i] EXCEPT !.state =
                   CASE @ = "placed" -> "settled" [] @ = "written early" -> "written" [] OTHER -> "lost"]]
<1>a. twin' = [twin EXCEPT !.wrote = TRUE, !.copies = c] /\ UNCHANGED <<expected, downloaded, files, phase, step>>
  BY DEF CopySettles, downloads
<1>b. twin \in TwinType /\ \A j \in DOMAIN twin.copies : twin.copies[j] \in CopyType
  BY DEF FileTypes, TwinType
<1>c. c \in [DOMAIN twin.copies -> CopyType]
  BY <1>b DEF CopyType, States
<1>d. \A j \in DOMAIN twin.copies : c[j].state \notin {"due", "settled"} \/ c[j] = twin.copies[j] \/ c[j].state = "settled"
  BY <1>b DEF CopyType
<1> HIDE DEF c
<1>e. c \in Seq(CopyType) /\ DOMAIN c = DOMAIN twin.copies
  BY <1>c, Recopied
<1>f. twin' \in TwinType /\ twin'.copies = c /\ twin'.at = twin.at /\ twin'.wrote
  BY <1>a, <1>b, <1>e DEF TwinType
<1>1. UNCHANGED <<setup, feature, phase, steps, step, tab, factory, calls, running, pages, contexts, opened, popups,
                  container, inside, auth, agent, expected, downloaded, files, history>>
  BY DEF CopySettles, browser, downloads, headers
<1>9. CallTypes' /\ CallsInv' /\ ApartInv' /\ ReachInv' /\ LeftInv'
  BY <1>1, Framed
<1>2. FeatureTypes' /\ PageTypes' /\ StepInv' /\ PagesInv' /\ HeadersInv' /\ FilesInv'
      /\ ContainerInScope'
  BY <1>1, Framed
<1>3. FileTypes'
  BY <1>a, <1>f DEF FileTypes
<1>4. TwinInv'
  BY <1>a, <1>d, <1>e, <1>f DEF TwinInv
<1> QED
  BY <1>9, <1>2, <1>3, <1>4

LEMMA CopyFailsKeeps ==
  ASSUME IInv, NEW i \in DOMAIN twin.copies, CopyFails(i)
  PROVE  IInv'
<1> USE DEF IInv
<1> DEFINE c == [twin.copies EXCEPT ![i] = [twin.copies[i] EXCEPT !.state = "failed"]]
<1>a. twin' = [twin EXCEPT !.copies = c] /\ UNCHANGED <<expected, downloaded, files, phase, step>>
  BY DEF CopyFails, downloads
<1>b. twin \in TwinType /\ \A j \in DOMAIN twin.copies : twin.copies[j] \in CopyType
  BY DEF FileTypes, TwinType
<1>c. c \in [DOMAIN twin.copies -> CopyType]
  BY <1>b DEF CopyType, States
<1>d. \A j \in DOMAIN twin.copies : c[j].state \notin {"due", "settled"} \/ c[j] = twin.copies[j]
  BY <1>b DEF CopyType
<1> HIDE DEF c
<1>e. c \in Seq(CopyType) /\ DOMAIN c = DOMAIN twin.copies
  BY <1>c, Recopied
<1>f. twin' \in TwinType /\ twin'.copies = c /\ twin'.at = twin.at /\ twin'.wrote = twin.wrote
  BY <1>a, <1>b, <1>e DEF TwinType
<1>1. UNCHANGED <<setup, feature, phase, steps, step, tab, factory, calls, running, pages, contexts, opened, popups,
                  container, inside, auth, agent, expected, downloaded, files, history>>
  BY DEF CopyFails, browser, downloads, headers
<1>9. CallTypes' /\ CallsInv' /\ ApartInv' /\ ReachInv' /\ LeftInv'
  BY <1>1, Framed
<1>2. FeatureTypes' /\ PageTypes' /\ StepInv' /\ PagesInv' /\ HeadersInv' /\ FilesInv'
      /\ ContainerInScope'
  BY <1>1, Framed
<1>3. FileTypes'
  BY <1>a, <1>f DEF FileTypes
<1>4. TwinInv'
  BY <1>a, <1>d, <1>e, <1>f DEF TwinInv
<1> QED
  BY <1>9, <1>2, <1>3, <1>4

LEMMA PatchPageKeeps ==
  ASSUME IInv, PatchPage
  PROVE  IInv'
<1> USE DEF IInv
<1> DEFINE d == CopiesFrom({"settled"}, "due")
<1>a. /\ step.at = "patching" /\ twin.at = "idle"
      /\ \/ step' = [step EXCEPT !.at = "page"] /\ twin' = twin
         \/ twin' = WritesFirst([twin EXCEPT !.copies = d]) /\ step' = step
      /\ UNCHANGED <<setup, feature, phase, steps, tab, factory, calls, running, pages, contexts, opened, popups,
                     container, inside, auth, agent, expected, downloaded, files, history>>
  BY DEF PatchPage, browser, headers, downloads
<1>b. step' \in StepType /\ step'.at \in {"patching", "page"} /\ step'.page = step.page
  BY <1>a DEF PageTypes, StepType
<1>c. /\ twin' \in TwinType
      /\ \/ twin' = twin
         \/ step' = step /\ twin'.copies = d /\ twin'.at = IF twin.wrote THEN "reading" ELSE "setting"
  <2>1. d \in Seq(CopyType) /\ twin \in TwinType
    BY DueCopies DEF FileTypes
  <2> HIDE DEF d
  <2> QED
    BY <1>a, <2>1 DEF WritesFirst, TwinType
<1>d. /\ DOMAIN d = DOMAIN twin.copies
      /\ \A i \in DOMAIN d : /\ d[i].state = "due" => twin.copies[i].state \in {"due", "settled"}
                             /\ d[i].state # "settled"
  BY DueCopies
<1> HIDE DEF d
<1>1. UNCHANGED <<setup, feature, phase, steps, tab, factory, opened, container, inside, auth, agent, expected,
                  downloaded, files, history>>
  BY DEF PatchPage, browser, downloads, headers
<1>2. FeatureTypes' /\ FilesInv' /\ ContainerInScope'
  BY <1>1, Framed
<1>3. PageTypes'
  BY <1>a, <1>b DEF PageTypes
<1>4. FileTypes'
  BY <1>a, <1>c DEF FileTypes
<1>5. StepInv'
  BY <1>a, <1>b DEF StepInv, OnPage
<1>6. PagesInv'
  BY <1>a, <1>b DEF PagesInv, OnPage, Using
<1>7. CallTypes' /\ CallsInv' /\ ApartInv' /\ ReachInv' /\ LeftInv'
  BY <1>a, Unmoved
<1>9. HeadersInv'
  BY <1>a, <1>b DEF HeadersInv, ContextHeaders
<1>10. TwinInv'
  <2>1. phase # "writing"
    BY <1>a DEF StepInv
  <2>2. CASE twin' = twin
    BY <1>a, <2>1, <2>2 DEF TwinInv
  <2>3. CASE step' = step /\ twin'.copies = d /\ twin'.at = IF twin.wrote THEN "reading" ELSE "setting"
    BY <1>a, <1>d, <2>1, <2>3 DEF TwinInv
  <2> QED
    BY <1>c, <2>2, <2>3
<1> QED
  BY <1>2, <1>3, <1>4, <1>5, <1>6, <1>7, <1>9, <1>10

LEMMA ReadTwinKeeps ==
  ASSUME IInv, ReadTwin
  PROVE  IInv'
<1> USE DEF IInv
<1> DEFINE c == [i \in DOMAIN twin.copies |->
                   [twin.copies[i] EXCEPT !.state = CASE @ \in {"settled", "due"} -> "written"
                                                      [] @ = "placed" -> "written early" [] OTHER -> @]]
<1>a. twin' = [twin EXCEPT !.at = "saving", !.copies = c] /\ twin.at = "reading"
      /\ UNCHANGED <<expected, downloaded, files, phase, step>>
  BY DEF ReadTwin, downloads
<1>b. twin \in TwinType /\ \A j \in DOMAIN twin.copies : twin.copies[j] \in CopyType
  BY DEF FileTypes, TwinType
<1>c. c \in [DOMAIN twin.copies -> CopyType]
  BY <1>b DEF CopyType, States
<1>d. \A j \in DOMAIN twin.copies : c[j].state \notin {"due", "settled"}
  BY <1>b DEF CopyType
<1> HIDE DEF c
<1>e. c \in Seq(CopyType) /\ DOMAIN c = DOMAIN twin.copies
  BY <1>c, Recopied
<1>f. twin' \in TwinType /\ twin'.copies = c /\ twin'.at = "saving"
  BY <1>a, <1>b, <1>e DEF TwinType
<1>1. UNCHANGED <<setup, feature, phase, steps, step, tab, factory, calls, running, pages, contexts, opened, popups,
                  container, inside, auth, agent, expected, downloaded, files, history>>
  BY DEF ReadTwin, browser, downloads, headers
<1>9. CallTypes' /\ CallsInv' /\ ApartInv' /\ ReachInv' /\ LeftInv'
  BY <1>1, Framed
<1>2. FeatureTypes' /\ PageTypes' /\ StepInv' /\ PagesInv' /\ HeadersInv' /\ FilesInv'
      /\ ContainerInScope'
  BY <1>1, Framed
<1>3. FileTypes'
  BY <1>a, <1>f DEF FileTypes
<1>4. TwinInv'
  BY <1>a, <1>d, <1>e, <1>f DEF TwinInv
<1> QED
  BY <1>9, <1>2, <1>3, <1>4

\* The cycle goes on with no step that waits for a call.
LEMMA PhaseMoves ==
  ASSUME FeatureTypes, CallTypes, CallsInv, ApartInv, ReachInv, LeftInv,
         phase' = "body" => phase = "body", phase = "ended" => phase' = "ended",
         phase' \in {"body", "closing"} => phase \in {"body", "closing"},
         phase' \in {"writing", "ended"} /\ ~history.closed => feature = setup.features,
         UNCHANGED <<setup, feature, steps, step, tab, factory, calls, running, pages, contexts, opened, popups, history>>
  PROVE  CallTypes' /\ CallsInv' /\ ApartInv' /\ ReachInv' /\ LeftInv'
<1>1. CallTypes' /\ ApartInv'
  BY Framed
<1>2. CallsInv'
  BY DEF CallsInv, Id
<1>3. ReachInv'
  BY DEF ReachInv, PagesAreReachable, Key
<1>4. LeftInv'
  <2>1. Using("persistent")' = Using("persistent")
    BY DEF Using
  <2>2. ASSUME NEW p \in DOMAIN opened PROVE (OfContext(p) => OfContext(p)') /\ (OfBrowser(p) => OfBrowser(p)')
    BY DEF OfContext, OfBrowser
  <2>3. phase' \in {"body", "closing"} => ~history.closed
    BY DEF LeftInv
  <2> HIDE DEF Using
  <2> QED
    BY <2>1, <2>2, <2>3 DEF LeftInv
<1> QED
  BY <1>1, <1>2, <1>3, <1>4

LEMMA SaveTwinKeeps ==
  ASSUME IInv, SaveTwin
  PROVE  IInv'
<1> USE DEF IInv
<1>a. /\ twin.at = "saving"
      /\ twin' = [twin EXCEPT !.at = IF phase = "writing" THEN "idle" ELSE "setting",
                              !.wrote = IF phase = "writing" THEN @ ELSE FALSE, !.copies = Cleared]
      /\ phase' = IF phase = "writing" THEN "ended" ELSE phase
      /\ UNCHANGED <<setup, feature, steps, step, tab, factory, calls, running, pages, contexts, opened, popups,
                     container, inside, auth, agent, expected, downloaded, files, history>>
  BY DEF SaveTwin, browser, headers, downloads
<1>b. twin \in TwinType
  BY DEF FileTypes
<1>c. twin' \in TwinType /\ twin'.copies = Cleared /\ twin'.at = IF phase = "writing" THEN "idle" ELSE "setting"
  BY <1>a, <1>b, ClearedCopies DEF TwinType
<1>d. phase = "writing" => step.at = "none"
  BY DEF StepInv
<1>1. UNCHANGED <<setup, feature, step, pages, contexts, opened, popups, container, inside, history>>
  BY DEF SaveTwin, browser, downloads, headers
<1>2. PageTypes' /\ PagesInv' /\ ContainerInScope'
  BY <1>1, Framed
<1>3. FeatureTypes'
  BY <1>a DEF FeatureTypes
<1>4. FileTypes'
  BY <1>a, <1>c DEF FileTypes
<1>5. StepInv'
  BY <1>a, <1>d DEF StepInv, OnPage
<1>6. CallTypes' /\ CallsInv' /\ ApartInv' /\ ReachInv' /\ LeftInv'
  <2>1. phase = "writing" /\ ~history.closed => feature = setup.features
    BY DEF LeftInv
  <2>2. phase = "ended" /\ ~history.closed => feature = setup.features
    BY DEF LeftInv
  <2> QED
    BY <1>a, <2>1, <2>2, PhaseMoves
<1>8. HeadersInv'
  BY <1>a DEF HeadersInv, ContextHeaders
<1>9. FilesInv'
  BY <1>a DEF FilesInv
<1>10. TwinInv'
  BY <1>a, <1>c, ClearedCopies DEF TwinInv
<1> QED
  BY <1>2, <1>3, <1>4, <1>5, <1>6, <1>8, <1>9, <1>10

LEMMA SetTwinKeeps ==
  ASSUME IInv, SetTwin
  PROVE  IInv'
<1> USE DEF IInv
<1>a. /\ twin.at = "setting" /\ step.at = "patching" /\ step' = [step EXCEPT !.at = "page"]
      /\ twin' = [twin EXCEPT !.at = "idle", !.url = opened[step.page].url, !.copies = Cleared]
      /\ UNCHANGED <<setup, feature, phase, steps, tab, factory, calls, running, pages, contexts, opened, popups,
                     container, inside, auth, agent, expected, downloaded, files, history>>
  BY DEF SetTwin, browser, headers, downloads
<1>b. step' \in StepType /\ step'.at = "page" /\ step'.page = step.page
  BY <1>a DEF PageTypes, StepType
<1>c. opened[step.page] \in PageType /\ twin \in TwinType
  BY <1>a DEF PageTypes, StepInv, OnPage, FileTypes
<1>d. twin' \in TwinType /\ twin'.copies = Cleared /\ twin'.at = "idle"
  BY <1>a, <1>c, ClearedCopies DEF TwinType, PageType
<1>1. UNCHANGED <<setup, feature, phase, steps, tab, factory, opened, container, inside, auth, agent, expected,
                  downloaded, files, history>>
  BY DEF SetTwin, browser, downloads, headers
<1>2. FeatureTypes' /\ FilesInv' /\ ContainerInScope'
  BY <1>1, Framed
<1>3. PageTypes'
  BY <1>a, <1>b DEF PageTypes
<1>4. FileTypes'
  BY <1>a, <1>d DEF FileTypes
<1>5. StepInv'
  BY <1>a, <1>b DEF StepInv, OnPage
<1>6. PagesInv'
  BY <1>a, <1>b DEF PagesInv, OnPage, Using
<1>7. CallTypes' /\ CallsInv' /\ ApartInv' /\ ReachInv' /\ LeftInv'
  BY <1>a, Unmoved
<1>9. HeadersInv'
  BY <1>a, <1>b DEF HeadersInv, ContextHeaders
<1>10. TwinInv'
  BY <1>a, <1>b, <1>d, ClearedCopies DEF TwinInv, StepInv
<1> QED
  BY <1>2, <1>3, <1>4, <1>5, <1>6, <1>7, <1>9, <1>10

LEMMA EndFeatureKeeps ==
  ASSUME IInv, NEW close \in BOOLEAN, EndFeature(close)
  PROVE  IInv'
<1> USE DEF IInv
<1> DEFINE d == CopiesFrom({"settled"}, "due")
<1>d. /\ d \in Seq(CopyType) /\ DOMAIN d = DOMAIN twin.copies
      /\ \A i \in DOMAIN d : /\ d[i].state = "due" => twin.copies[i].state \in {"due", "settled"}
                             /\ d[i].state # "settled"
  BY DueCopies
<1>a. /\ phase = "body" /\ step.at = "none" /\ twin.at = "idle" /\ inside = <<>> /\ (feature < setup.features => close)
      /\ phase' = IF close THEN "closing" ELSE IF Using("twin") THEN "writing" ELSE "ended"
      /\ twin' = IF ~close /\ Using("twin") THEN [twin EXCEPT !.at = "reading", !.copies = d] ELSE twin
      /\ UNCHANGED <<setup, feature, steps, step, tab, factory, calls, running, pages, contexts, opened, popups,
                     container, inside, auth, agent, expected, downloaded, files, history>>
  BY DEF EndFeature, browser, headers, downloads
<1> HIDE DEF d
<1>b. twin \in TwinType
  BY DEF FileTypes
<1>c. /\ twin' \in TwinType
      /\ \/ phase' # "writing" /\ twin' = twin
         \/ phase' = "writing" /\ twin'.copies = d /\ twin'.at = "reading"
  BY <1>a, <1>b, <1>d DEF TwinType
<1>1. UNCHANGED <<setup, feature, step, pages, contexts, opened, popups, container, inside, history>>
  BY DEF EndFeature, browser, downloads, headers
<1>2. PageTypes' /\ PagesInv' /\ ContainerInScope'
  BY <1>1, Framed
<1>3. FeatureTypes'
  BY <1>a DEF FeatureTypes
<1>4. FileTypes'
  BY <1>a, <1>c DEF FileTypes
<1>5. StepInv'
  BY <1>a DEF StepInv, OnPage
<1>6. CallTypes' /\ CallsInv' /\ ApartInv' /\ ReachInv' /\ LeftInv'
  <2>1. phase' \in {"writing", "ended"} => feature = setup.features
    BY <1>a DEF FeatureTypes
  <2> QED
    BY <1>a, <2>1, PhaseMoves
<1>8. HeadersInv'
  BY <1>a DEF HeadersInv, ContextHeaders
<1>9. FilesInv'
  <2>1. ~history.closed
    BY <1>a DEF LeftInv
  <2> QED
    BY <1>a, <2>1 DEF FilesInv
<1>10. TwinInv'
  BY <1>a, <1>c, <1>d DEF TwinInv
<1> QED
  BY <1>2, <1>3, <1>4, <1>5, <1>6, <1>8, <1>9, <1>10

LEMMA RemovalThrowsKeeps ==
  ASSUME IInv, RemovalThrows
  PROVE  IInv'
<1> USE DEF IInv
<1>a. /\ phase = "closing" /\ phase' = "failed" /\ downloaded' = <<>> /\ files' \subseteq files
      /\ UNCHANGED <<setup, feature, steps, step, tab, factory, calls, running, pages, contexts, opened, popups,
                     container, inside, auth, agent, expected, twin, history>>
  BY DEF RemovalThrows, browser, headers
<1>b. step.at = "none" /\ twin.at = "idle"
  BY <1>a DEF StepInv, TwinInv
<1>1. UNCHANGED <<setup, feature, step, pages, contexts, opened, popups, container, inside, history>>
  BY DEF RemovalThrows, browser, headers
<1>2. PageTypes' /\ PagesInv' /\ ContainerInScope'
  BY <1>1, Framed
<1>3. FeatureTypes'
  BY <1>a DEF FeatureTypes
<1>4. FileTypes'
  BY <1>a DEF FileTypes
<1>5. StepInv'
  BY <1>a, <1>b DEF StepInv, OnPage
<1>6. CallTypes' /\ CallsInv' /\ ApartInv' /\ ReachInv' /\ LeftInv'
  BY <1>a, PhaseMoves
<1>8. HeadersInv'
  BY <1>a DEF HeadersInv, ContextHeaders
<1>9. FilesInv'
  BY <1>a DEF FilesInv
<1>10. TwinInv'
  BY <1>a DEF TwinInv
<1> QED
  BY <1>2, <1>3, <1>4, <1>5, <1>6, <1>8, <1>9, <1>10

LEMMA CloseAfterFeatureKeeps ==
  ASSUME IInv, CloseAfterFeature
  PROVE  IInv'
<1> USE DEF IInv
<1> DEFINE d == CopiesFrom({"settled"}, "due")
<1>d. /\ d \in Seq(CopyType) /\ DOMAIN d = DOMAIN twin.copies
      /\ \A i \in DOMAIN d : /\ d[i].state = "due" => twin.copies[i].state \in {"due", "settled"}
                             /\ d[i].state # "settled"
  BY DueCopies
<1>a. /\ phase = "closing" /\ files' = (IF downloaded = <<>> THEN files ELSE files \ ToSet(downloaded)) /\ downloaded' = <<>>
      /\ factory => CloseBrowser
      /\ ~factory => UNCHANGED <<factory, calls, running, pages, contexts, opened, expected>>
      /\ popups' = {h \in popups : opened'[h[1]].open}
      /\ phase' = IF Using("twin") THEN "writing" ELSE "ended"
      /\ twin' = IF Using("twin") THEN [twin EXCEPT !.at = "reading", !.copies = d] ELSE twin
      /\ history' = [history EXCEPT !.closed = TRUE]
      /\ UNCHANGED <<setup, feature, steps, step, tab, container, inside, auth, agent>>
  BY DEF CloseAfterFeature, ToRemove, browser, headers
<1> HIDE DEF d
<1>b. step.at = "none" /\ step.page = 0
  BY <1>a DEF StepInv
<1>c. /\ twin' \in TwinType
      /\ \/ phase' # "writing" /\ twin' = twin
         \/ phase' = "writing" /\ twin'.copies = d /\ twin'.at = "reading"
  <2>1. twin \in TwinType
    BY DEF FileTypes
  <2> QED
    BY <1>a, <1>d, <2>1 DEF TwinType
<1>e. /\ opened' \in Seq(PageType) /\ DOMAIN opened' = DOMAIN opened /\ Len(opened') = Len(opened)
      /\ \A p \in DOMAIN opened : /\ opened'[p].feature = opened[p].feature /\ opened'[p].popup = opened[p].popup
                                  /\ opened'[p].context = opened[p].context /\ opened'[p].browser = opened[p].browser
                                  /\ opened'[p].alone = opened[p].alone /\ opened'[p].late = opened[p].late
                                  /\ opened'[p].handlers = opened[p].handlers
                                  /\ opened'[p].open => opened[p].open /\ (factory => p \notin Closes)
  <2>1. opened \in Seq(PageType) /\ \A p \in DOMAIN opened : opened[p] \in PageType
    BY DEF PageTypes
  <2>2. CASE factory
    <3>0. opened' = [p \in DOMAIN opened |-> [opened[p] EXCEPT !.open = @ /\ p \notin Closes]]
      BY <1>a, <2>2 DEF CloseBrowser
    <3>1. \A p \in DOMAIN opened : /\ opened'[p] \in PageType /\ opened'[p].feature = opened[p].feature
                                   /\ opened'[p].popup = opened[p].popup /\ opened'[p].handlers = opened[p].handlers
                                   /\ opened'[p].context = opened[p].context /\ opened'[p].browser = opened[p].browser
                                   /\ opened'[p].alone = opened[p].alone /\ opened'[p].late = opened[p].late
                                   /\ opened'[p].open <=> (opened[p].open /\ p \notin Closes)
      BY <2>1, <3>0 DEF PageType
    <3>2. opened' \in [DOMAIN opened -> PageType]
      BY <3>0, <3>1
    <3> QED
      BY <2>1, <3>1, <3>2, Replaced
  <2>3. CASE ~factory
    BY <1>a, <2>1, <2>3
  <2> QED
    BY <2>2, <2>3
<1>f. history' \in HistoryType /\ history'.closed /\ history'.wentBack = history.wentBack /\ history'.threw = history.threw
      /\ history'.late = history.late /\ history'.apart = history.apart
  BY <1>a DEF FeatureTypes, HistoryType
<1>g. /\ factory' = FALSE
      /\ \A k \in DOMAIN pages' : k \in DOMAIN pages /\ ~factory /\ pages' = pages
      /\ \A k \in DOMAIN contexts' : k \in DOMAIN contexts /\ ~factory /\ contexts' = contexts
  BY <1>a DEF CloseBrowser, FeatureTypes
<1>h. \A h \in popups' : h \in popups /\ opened'[h[1]].open
  BY <1>a
<1>1. FeatureTypes'
  BY <1>a, <1>f, <1>g DEF FeatureTypes
<1>2. PageTypes'
  <2>1. contexts' \in [DOMAIN contexts' -> ContextType] /\ DOMAIN contexts' \subseteq 1..feature
    <3>1. CASE factory
      BY <1>a, <3>1 DEF CloseBrowser
    <3>2. CASE ~factory
      BY <1>a, <3>2 DEF PageTypes
    <3> QED
      BY <3>1, <3>2
  <2>3. DOMAIN pages' \subseteq (1..feature) \X (0..MaxTab) /\ \A k \in DOMAIN pages' : pages'[k] \in DOMAIN opened
    BY <1>g DEF PageTypes
  <2>2. \A p \in DOMAIN opened' : opened'[p].feature \in 1..feature'
    BY <1>a, <1>e DEF PageTypes
  <2> QED
    BY <1>a, <1>e, <1>h, <2>1, <2>2, <2>3 DEF PageTypes
<1>i. expected' = expected \/ expected' = NoDownload
  BY <1>a DEF CloseBrowser
<1>3. FileTypes'
  BY <1>a, <1>c, <1>i DEF FileTypes, ExpectedType, NoDownload, None, Ids
<1>4. StepInv'
  BY <1>a, <1>b DEF StepInv, OnPage
<1>5. PagesInv'
  <2>1. \A h \in popups' : opened'[h[1]].popup /\ opened'[h[1]].open
    BY <1>e, <1>h DEF PagesInv, PageTypes
  <2>2. container # 0 => container \in DOMAIN opened
    BY DEF PageTypes
  <2>3. \A k \in DOMAIN pages' : opened'[pages'[k]].open /\ opened'[pages'[k]].feature = k[1]
    BY <1>a, <1>g DEF PagesInv
  <2> QED
    BY <1>a, <1>b, <1>e, <2>1, <2>2, <2>3 DEF PagesInv, OnPage, Using
<1>6. ReachInv'
  BY <1>a DEF ReachInv
<1>12. CallTypes' /\ CallsInv'
  <2>1. \A c \in calls : c \in CallType /\ c.feature \in 1..feature /\ c.step \in Nat
    BY DEF CallTypes, CallType
  <2>2. ASSUME NEW c \in calls, c.feature = feature PROVE c.step <= steps /\ c.step # steps /\ ~c.late
    BY <1>a, <1>b, <2>2 DEF CallsInv
  <2>3. CASE factory
    <3>1. calls' = {[c EXCEPT !.current = FALSE] : c \in calls \ Fail} /\ running' = None
      BY <1>a, <2>3 DEF CloseBrowser
    <3>2. ASSUME NEW x \in calls'
          PROVE  \E c \in calls : /\ x = [c EXCEPT !.current = FALSE] /\ x \in CallType /\ ~x.current
                                  /\ x.feature = c.feature /\ x.step = c.step /\ x.late = c.late
      BY <2>1, <3>1 DEF CallType
    <3>3. CallTypes'
      BY <1>a, <2>1, <3>1, <3>2 DEF CallTypes, None, Ids
    <3>4. ASSUME NEW x \in calls', NEW y \in calls', Id(x) = Id(y) PROVE x = y
      <4>1. PICK c \in calls : x = [c EXCEPT !.current = FALSE] /\ x.feature = c.feature /\ x.step = c.step
        BY <3>2
      <4>2. PICK d0 \in calls : y = [d0 EXCEPT !.current = FALSE] /\ y.feature = d0.feature /\ y.step = d0.step
        BY <3>2
      <4>3. Id(c) = Id(d0)
        BY <3>4, <4>1, <4>2 DEF Id
      <4>4. c = d0
        BY <4>3 DEF CallsInv
      <4> QED
        BY <4>1, <4>2, <4>4
    <3>5. CallsInv'
      BY <1>a, <2>2, <3>2, <3>4 DEF CallsInv, Id
    <3> QED
      BY <3>3, <3>5
  <2>4. CASE ~factory
    <3>1. CallTypes'
      BY <1>a, <2>4, Framed
    <3>2. \A c \in calls : ~c.current
      BY <2>4 DEF CallsInv
    <3>3. UNCHANGED <<calls, steps, feature, step, factory>>
      BY <1>a, <2>4
    <3> QED
      BY <2>2, <3>1, <3>2, <3>3 DEF CallsInv, Id
  <2> QED
    BY <2>3, <2>4
<1>13. ApartInv'
  <2>1. CASE factory
    <3> SUFFICES ASSUME history.apart PROVE ApartInv'
      BY <1>f DEF ApartInv
    <3>1. calls' = {[c EXCEPT !.current = FALSE] : c \in calls \ Fail} /\ DOMAIN contexts' = {}
      BY <1>a, <2>1 DEF CloseBrowser
    <3>2. ASSUME NEW x \in calls'
          PROVE  /\ calls' = {x} /\ x.feature = feature /\ ~x.current
                 /\ ~Using("persistent") => x.at = "launching"
      <4>1. PICK c \in calls \ Fail : x = [c EXCEPT !.current = FALSE]
        BY <3>1
      <4>2. c \in CallType /\ calls = {c} /\ c.feature = feature
        BY <4>1 DEF ApartInv, CallTypes
      <4>3. x.feature = c.feature /\ ~x.current /\ x.at = c.at
        BY <4>1, <4>2 DEF CallType
      <4>4. calls \ Fail = {c}
        BY <4>1, <4>2
      <4>5. calls' = {x}
        BY <3>1, <4>1, <4>4
      <4>6. ~Using("persistent") /\ c.at # "launching" => c \in Fail
        BY <4>2 DEF ApartInv, Fail, IsClosed
      <4> QED
        BY <4>1, <4>2, <4>3, <4>5, <4>6
    <3>3. Using("persistent")' = Using("persistent") /\ feature' = feature
      BY <1>a DEF Using
    <3> HIDE DEF Using
    <3> QED
      BY <3>1, <3>2, <3>3 DEF ApartInv
  <2>2. CASE ~factory
    BY <1>a, <1>f, <2>2, Framed
  <2> QED
    BY <2>1, <2>2
<1>7. LeftInv'
  <2>1. ASSUME NEW p \in DOMAIN opened', opened'[p].open, opened'[p].alone
        PROVE  opened'[p].late /\ Using("persistent") /\ opened'[p].feature < feature
    <3>1. opened[p].open /\ opened[p].alone /\ (factory => p \notin Closes) /\ p \in DOMAIN opened
      BY <1>e, <2>1
    <3>2. ~OfContext(p)
      BY <3>1 DEF OfContext, Closes, IsClosed
    <3>3. ~OfBrowser(p)
      BY <3>1 DEF OfBrowser, Closes, IsClosed
    <3>4. opened[p].late /\ Using("persistent") /\ opened[p].feature < feature
      BY <1>a, <3>1, <3>2, <3>3 DEF LeftInv
    <3> QED
      BY <1>e, <3>1, <3>4
  <2>2. Using("persistent")' = Using("persistent") /\ feature' = feature /\ history'.closed
        /\ phase' \in {"writing", "ended"}
    BY <1>a, <1>f DEF Using
  <2> HIDE DEF Using
  <2> QED
    BY <2>1, <2>2 DEF LeftInv
<1>8. HeadersInv'
  BY <1>a DEF HeadersInv, ContextHeaders
<1>9. FilesInv'
  <2>1. files' = {}
    BY <1>a DEF FilesInv, ToSet
  <2> QED
    BY <1>a, <1>e, <1>i, <2>1 DEF FilesInv, NoDownload
<1>10. TwinInv'
  BY <1>a, <1>b, <1>c, <1>d DEF TwinInv
<1>11. ContainerInScope'
  BY <1>a, <1>f DEF ContainerInScope
<1> QED
  BY <1>1, <1>2, <1>3, <1>4, <1>5, <1>6, <1>7, <1>8, <1>9, <1>10, <1>11, <1>12, <1>13

LEMMA StartFeatureKeeps ==
  ASSUME IInv, StartFeature
  PROVE  IInv'
<1> USE DEF IInv
<1>a. /\ phase = "ended" /\ step.at = "none" /\ twin.at = "idle" /\ inside = <<>> /\ feature < setup.features
      /\ feature' = feature + 1 /\ phase' = "body" /\ steps' = 0 /\ tab' = 0 /\ auth' = "none" /\ agent' = FALSE
      /\ history' = [history EXCEPT !.wentBack = FALSE, !.late = FALSE, !.closed = FALSE, !.apart = calls = {}]
      /\ UNCHANGED <<setup, step, factory, calls, running, pages, contexts, opened, popups, container, inside, expected,
                     downloaded, files, twin>>
  BY DEF StartFeature, ResetHeaders, browser, downloads
<1>b. feature \in Nat \ {0} /\ feature' \in 1..setup.features /\ feature' = feature + 1 /\ feature' # feature
  BY <1>a DEF FeatureTypes
<1>c. history' \in HistoryType /\ ~history'.closed /\ ~history'.wentBack /\ history'.threw = history.threw
      /\ ~history'.late /\ (history'.apart = (calls = {}))
  BY <1>a DEF FeatureTypes, HistoryType
<1>d. /\ \A k \in DOMAIN pages : k[1] <= feature /\ k[1] # feature'
      /\ feature' \notin DOMAIN contexts
      /\ \A p \in DOMAIN opened : opened[p].feature \in 1..feature /\ opened[p].feature # feature'
  BY <1>b DEF PageTypes
<1>e. history.closed
  BY <1>a, <1>b DEF LeftInv
<1>1. UNCHANGED <<expected, downloaded, files, twin>>
  BY DEF StartFeature, browser, downloads
<1>2. FileTypes'
  BY <1>1, Framed
<1>3. FeatureTypes'
  <2>0. setup'.steps \in Nat /\ MaxTab \in Nat /\ steps' = 0 /\ tab' = 0
    BY <1>a DEF FeatureTypes
  <2>1. steps' \in 0..setup'.steps /\ tab' \in 0..MaxTab
    BY <2>0
  <2>3. auth' \in Auth /\ agent' \in BOOLEAN /\ phase' = "body"
    BY <1>a DEF Auth
  <2>2. setup'.features \in Nat \ {0} /\ setup'.steps \in Nat /\ setup'.pages \in Nat /\ factory' \in BOOLEAN
    BY <1>a DEF FeatureTypes
  <2> QED
    BY <1>a, <1>b, <1>c, <2>1, <2>2, <2>3 DEF FeatureTypes
<1>4. PageTypes'
  <2>1. 1..feature \subseteq 1..feature'
    BY <1>b
  <2>2. \A p \in DOMAIN opened' : opened'[p].feature \in 1..feature'
    BY <1>a, <2>1 DEF PageTypes
  <2>3. DOMAIN pages' \subseteq (1..feature') \X (0..MaxTab) /\ DOMAIN contexts' \subseteq 1..feature'
    BY <1>a, <2>1 DEF PageTypes
  <2> QED
    BY <1>a, <2>2, <2>3 DEF PageTypes
<1>5. StepInv'
  BY <1>a DEF StepInv, OnPage
<1>6. PagesInv'
  BY <1>a DEF PagesInv, OnPage, Using
<1>7. CallTypes' /\ CallsInv' /\ ApartInv'
  <2>1. \A c \in calls : c \in CallType /\ c.feature \in 1..feature /\ c.feature \in 1..feature' /\ c.feature # feature'
    BY <1>b DEF CallTypes
  <2>2. CallTypes'
    BY <1>a, <2>1 DEF CallTypes
  <2>3. CallsInv'
    BY <1>a, <2>1 DEF CallsInv, Id
  <2>4. ApartInv'
    BY <1>a, <1>c, <1>d DEF ApartInv
  <2> QED
    BY <2>2, <2>3, <2>4
<1>13. ReachInv'
  <2>1. \A c \in calls : c.feature # feature'
    BY <1>b DEF CallTypes
  <2> QED
    BY <1>a, <1>d, <2>1 DEF ReachInv, PagesAreReachable
<1>8. LeftInv'
  <2>1. ASSUME NEW p \in DOMAIN opened', opened'[p].open, opened'[p].alone
        PROVE  opened'[p].late /\ opened'[p].feature < feature' /\ (~Using("persistent") => OfBrowser(p)')
    <3>1. opened[p].late
      BY <1>a, <1>e, <2>1 DEF LeftInv, OfContext
    <3>2. ~Using("persistent") => OfBrowser(p)
      BY <1>a, <2>1, <3>1 DEF LeftInv
    <3>3. OfBrowser(p) => OfBrowser(p)'
      BY <1>a DEF OfBrowser
    <3>4. opened[p].feature < feature'
      BY <1>a, <1>b, <1>d, <2>1
    <3> QED
      BY <1>a, <3>1, <3>2, <3>3, <3>4
  <2>2. Using("persistent")' = Using("persistent")
    BY <1>a DEF Using
  <2> HIDE DEF Using
  <2> QED
    BY <1>a, <1>c, <2>1, <2>2 DEF LeftInv
<1>9. HeadersInv'
  BY <1>a, <1>d DEF HeadersInv, ContextHeaders
<1>10. FilesInv'
  BY <1>a DEF FilesInv
<1>11. TwinInv'
  BY <1>a DEF TwinInv
<1>12. ContainerInScope'
  BY <1>a, <1>c DEF ContainerInScope
<1> QED
  BY <1>2, <1>3, <1>4, <1>5, <1>6, <1>7, <1>8, <1>9, <1>10, <1>11, <1>12, <1>13

-----------------------------------------------------------------------------
(* The theorems.                                                            *)

LEMMA NextKeeps ==
  ASSUME IInv, [Next]_vars
  PROVE  IInv'
<1>1. CASE BrowserEvent
  <2> HIDE DEF IInv
  <2> QED
    BY <1>1, LaunchedKeeps, ContextMadeKeeps, PageCreatedKeeps, CallFailsKeeps, PopupLoadsKeeps, DownloadArrivesKeeps,
       DownloadFailsKeeps, CopyPlacedKeeps,
       CopySettlesKeeps, CopyFailsKeeps, ReadTwinKeeps, SaveTwinKeeps, SetTwinKeeps DEF BrowserEvent
<1>2. CASE Step
  <2>1. Auth = {"none", "basic", "bearer"}
    BY DEF Auth
  <2> QED
    BY <1>2, <2>1, AskPageKeeps, HavePageKeeps, HaveContainerKeeps, InteractKeeps, InteractFailsKeeps, ObserveKeeps,
       NavigateKeeps, ClickKeeps, OnNewTabKeeps, OnTabKeeps, CurrentTabIsKeeps, CurrentTabWasKeeps, InElementKeeps,
       LeavesElementKeeps, ElementThrowsKeeps, ApiUserAgentKeeps, SetExtraHTTPHeadersKeeps, HeadersAreSetKeeps,
       FetchKeeps, FetchedKeeps, ExpectInContainerKeeps, ExpectOnPageKeeps, ExpectAsksKeeps, ReceiveDownloadKeeps,
       WaitForDownloadKeeps,
       PatchPageKeeps DEF Step, ExpectDownload
<1>3. CASE Cycle
  BY <1>3, EndFeatureKeeps, RemovalThrowsKeeps, CloseAfterFeatureKeeps, StartFeatureKeeps DEF Cycle
<1>4. CASE UNCHANGED vars
  <2>1. UNCHANGED <<setup, feature, phase, steps, step, tab, factory, calls, running, pages, contexts, opened, popups,
                    container, inside, auth, agent, expected, downloaded, files, twin, history>>
    BY <1>4 DEF vars, browser, headers, downloads
  <2> QED
    BY <2>1, Framed DEF IInv
<1> QED
  BY <1>1, <1>2, <1>3, <1>4 DEF Next, Over

\* The invariant is inductive.
THEOREM PoolInvariant == Spec => []IInv
<1>1. Init => IInv
  BY InitHolds
<1>2. IInv /\ [Next]_vars => IInv'
  BY NextKeeps
<1> QED
  BY <1>1, <1>2, PTL DEF Spec

\* A statement that gets a page works on an open one of its own feature, whatever popups, downloads, finalizers and
\* other features leave in the factory.  Until a statement goes back to a tab by number, each open page of the feature
\* that was got alone (asked of the present factory, opened before two getPage calls of the feature overlapped), and each
\* popup of one, is at a tab or has a handler that will give it one.
THEOREM PagesAlwaysSound == Spec => []PagesAreSound
<1>1. ASSUME IInv PROVE PagesAreSound
  <2> USE <1>1 DEF IInv
  <2>1. feature \in 1..setup.features /\ steps \in 0..setup.steps /\ tab \in 0..MaxTab /\ agent \in BOOLEAN
        /\ phase \in {"body", "closing", "writing", "ended", "failed"} /\ auth \in {"none", "basic", "bearer"}
    BY DEF FeatureTypes, Auth
  <2>10. \A c \in calls : c.feature \in 1..feature /\ c.tab \in 0..MaxTab
    BY DEF CallTypes, CallType
  <2>2. step.page \in 0..Len(opened) /\ container \in 0..Len(opened) /\ DOMAIN contexts \subseteq 1..feature
    BY DEF PageTypes
  <2>3. DOMAIN pages \subseteq (1..setup.features) \X (0..MaxTab)
    BY DEF PageTypes, FeatureTypes
  <2>4. Range(pages) \subseteq DOMAIN opened
    BY DEF PageTypes, Range
  <2>5. \A h \in popups : h[1] \in DOMAIN opened /\ opened[h[1]].popup
    BY DEF PageTypes, PagesInv
  <2>6. ToSet(downloaded) \subseteq File /\ files \subseteq File /\ twin.at \in {"idle", "reading", "saving", "setting"}
    BY DEF FileTypes, TwinType, ToSet
  <2>7. TypeOK
    BY <2>1, <2>2, <2>3, <2>4, <2>5, <2>6, <2>10 DEF TypeOK
  <2>8. PageIsOfFeature
    BY DEF PageIsOfFeature, PagesInv, OnPage
  <2>9. PagesAreReachable
    BY DEF ReachInv, PagesAreReachable
  <2> QED
    BY <2>7, <2>8, <2>9 DEF PagesAreSound
<1> QED
  BY PoolInvariant, <1>1, PTL

\* When a feature has closed, no page that was got alone is open, but for a finalizer's (since the close, or in a
\* persistent profile of a feature before), and no download is on disk until a finalizer's step asks for a page or a
\* download.  Between the steps of a feature whose calls have not overlapped its context sends the headers the stepper
\* knows and no agent.  A container is set only inside an `in` statement, unless one has thrown.
THEOREM NothingStaysBehind == Spec => []NothingLeftBehind
<1>1. ASSUME IInv PROVE NothingLeftBehind
  <2> USE <1>1 DEF IInv
  <2>1. NothingLeftOpen
    <3>1. ASSUME phase = "ended", history.closed, NEW p \in DOMAIN opened, opened[p].open, opened[p].alone
          PROVE  opened[p].late /\ (opened[p].feature = feature \/ Using("persistent"))
      BY <3>1 DEF LeftInv, OfContext
    <3> QED
      BY <3>1 DEF NothingLeftOpen
  <2>2. HeadersAgree
    BY DEF HeadersAgree, HeadersInv
  <2>3. DownloadsRemoved
    BY DEF DownloadsRemoved, FilesInv
  <2> QED
    BY <2>1, <2>2, <2>3 DEF NothingLeftBehind
<1> QED
  BY PoolInvariant, <1>1, PTL

\* A copy that is due stays due or is written: while there is one, the page is read and no step touches it.
LEMMA DueIsWritten ==
  ASSUME IInv, [Next]_vars, NEW i \in DOMAIN twin.copies, twin.copies[i].state = "due"
  PROVE  twin'.copies[i].state \in {"due", "written"}
<1>1. /\ twin.at = "reading" /\ (phase = "writing" \/ step.at = "patching")
      /\ step.at # "none" => phase \in {"body", "ended"}
      /\ twin.copies \in Seq(CopyType) /\ \A j \in DOMAIN twin.copies : twin.copies[j] \in CopyType
  BY DEF IInv, TwinInv, StepInv, FileTypes, TwinType
<1>2. ASSUME UNCHANGED twin PROVE twin'.copies[i].state \in {"due", "written"}
  BY <1>2
<1>3. ASSUME BrowserEvent PROVE twin'.copies[i].state \in {"due", "written"}
  <2>1. ASSUME NEW j \in DOMAIN twin.copies, CopyPlaced(j) \/ CopySettles(j) \/ CopyFails(j)
        PROVE  twin'.copies[i].state \in {"due", "written"}
    <3>1. twin.copies[j].state # "due" /\ \A k \in DOMAIN twin.copies : k # j => twin'.copies[k] = twin.copies[k]
      <4>1. twin \in TwinType
        BY DEF IInv, FileTypes
      <4>2. CASE CopyPlaced(j)
        BY <1>1, <4>1, <4>2 DEF CopyPlaced, TwinType
      <4>3. CASE CopySettles(j)
        BY <1>1, <4>1, <4>3 DEF CopySettles, TwinType
      <4>4. CASE CopyFails(j)
        BY <1>1, <4>1, <4>4 DEF CopyFails, TwinType
      <4> QED
        BY <2>1, <4>2, <4>3, <4>4
    <3> QED
      BY <3>1
  <2>2. CASE ReadTwin
    <3>1. twin \in TwinType
      BY DEF IInv, FileTypes
    <3> QED
      BY <1>1, <2>2, <3>1 DEF ReadTwin, TwinType, CopyType
  <2>3. ~SaveTwin /\ ~SetTwin
    BY <1>1 DEF SaveTwin, SetTwin
  <2>4. CASE \/ \E c \in calls : Launched(c) \/ ContextMade(c) \/ PageCreated(c) \/ CallFails(c)
             \/ \E h \in popups : PopupLoads(h)
             \/ DownloadArrives \/ DownloadFails
    BY <1>2, <2>4 DEF Launched, ContextMade, PageCreated, CallFails, PopupLoads, DownloadArrives, DownloadFails
  <2> QED
    BY <1>3, <2>1, <2>2, <2>3, <2>4 DEF BrowserEvent
<1>4. ASSUME Step PROVE twin'.copies[i].state \in {"due", "written"}
  <2>1. ~CanStep /\ ~HasOpenPage
    BY <1>1 DEF CanStep, HasOpenPage
  <2> QED
    BY <1>1, <1>2, <1>4, <2>1 DEF Step, AskPage, HavePage, HaveContainer, PatchPage, Interact, InteractFails, Observe,
       Click, Navigate, OnNewTab, OnTab, CurrentTabIs, CurrentTabWas, InElement, LeavesElement, ElementThrows, ApiUserAgent,
       SetExtraHTTPHeaders, HeadersAreSet, Fetch, Fetched, ExpectDownload, ExpectInContainer, ExpectOnPage,
       ExpectAsks, Expects, ReceiveDownload, WaitForDownload
<1>5. ASSUME Cycle PROVE twin'.copies[i].state \in {"due", "written"}
  <2>1. phase # "closing"
    BY <1>1
  <2> QED
    BY <1>1, <1>2, <1>5, <2>1 DEF Cycle, EndFeature, RemovalThrows, CloseAfterFeature, StartFeature
<1> QED
  BY <1>2, <1>3, <1>4, <1>5 DEF Next, Over, vars

\* A copy the twin page knew of when its file was asked for is in that file, whatever is copied meanwhile.
THEOREM SettledCopiesKept == Spec => SettledCopiesAreKept
<1>1. IInv /\ [Next]_vars =>
        [\A i \in DOMAIN twin.copies : twin.copies[i].state = "due" => twin'.copies[i].state \in {"due", "written"}]_vars
  BY DueIsWritten
<1> QED
  BY PoolInvariant, <1>1, PTL DEF Spec, SettledCopiesAreKept
=============================================================================
