---------------------------- MODULE BrowserPool ----------------------------
(***************************************************************************)
(* WebPlaywright's pages.  A factory, made when a step first needs a page,  *)
(* keeps one context per feature and one page per feature and tab; it is    *)
(* dropped with what it knows of when the feature ends.  A getPage with no   *)
(* page launches a browser, makes a context and then a page, with an await   *)
(* for each; a step that expects a download does not wait for its getPage,   *)
(* so that others overlap with it.  What the browser does comes between     *)
(* these awaits: popups load, downloads arrive, elements are copied to a    *)
(* twin page from which a file is written whenever the URL changes.         *)
(***************************************************************************)
EXTENDS Integers, Sequences, FiniteSets, SequencesExt

CONSTANTS
  Setups,   \* [features, steps, pages, uses]: bounds of the features of the run, the steps of
            \* each and the pages opened; which of Uses its features and options make use of
  MaxTab,   \* bound: the highest tab
  Url, File

Uses == {"popups", "in", "headers", "downloads", "twin", "persistent", "late"}

ASSUME BrowserPoolAssumption ==
  /\ MaxTab \in Nat
  /\ \A s \in Setups : s.features \in Nat \ {0} /\ s.steps \in Nat /\ s.pages \in Nat /\ s.uses \subseteq Uses
                     /\ ~({"twin", "downloads"} \subseteq s.uses)

VARIABLES
  setup, feature,
  phase,      \* body, closing (endFeature), writing (its twin page), ended, or failed
  steps,      \* steps of this feature done
  step,       \* the step that runs: [at, how, page, tab, auth], at "none" between steps
  tab,        \* wp.tab
  factory,    \* wp.hasFactory: pages and contexts are of this factory
  calls,      \* getPage without a page, under way, named for the step that asked: [feature, step, at,
              \* tab, browser, context, late, current], the last whether its factory is the present one
  running,    \* BrowserFactory.browsers: the browser, named for the call that launched it
  pages,      \* bf.pages
  contexts,   \* bf.browserContexts: the headers each sends, [id, browser, auth, agent]
  opened,     \* every page opened, by number: [feature, context, browser, popup, open, handlers, url]
              \* and whether it was got alone (asked of the factory that opens it, before two calls of the
              \* feature overlapped) and late
  popups,     \* popup handlers that await the load: <<popup, which handler of its opener>>
  container,  \* wp.inContainer: the page of the locator, 0 if undefined
  inside,     \* the `in` steps that run, the pages of their containers
  auth,       \* wp.extraHTTPHeaders
  agent,      \* wp.apiUserAgent is set
  expected,   \* wp.expectedDownload: [at, page, call], at none, asking, waiting, done or failed
  downloaded, \* wp.downloaded
  files,      \* downloads on disk
  twin,       \* TwinPage: [url, wrote, at, copies], at idle, reading, saving or setting
  history     \* what has happened: [wentBack, threw, late, closed, apart]; apart: no two calls of this
              \* feature have overlapped

browser == <<factory, calls, running, pages, contexts, opened>>
headers == <<auth, agent>>
downloads == <<expected, downloaded, files>>
vars == <<setup, feature, phase, steps, step, tab, browser, popups, container, inside, headers, downloads, twin, history>>

StepAt(at, how, p, t) == [at |-> at, how |-> how, page |-> p, tab |-> t, auth |-> "none"]

NoStep == StepAt("none", "none", 0, 0)

\* No call, no browser, no context.
None == <<0, 0>>

Id(c) == <<c.feature, c.step>>

Using(u) == u \in setup.uses

FirstUrl == CHOOSE u \in Url : TRUE

Init ==
  /\ setup \in Setups /\ feature = 1 /\ phase = "body" /\ steps = 0 /\ step = NoStep
  /\ tab = 0 /\ factory = FALSE /\ calls = {} /\ running = None /\ pages = <<>> /\ contexts = <<>> /\ opened = <<>>
  /\ popups = {} /\ container = 0 /\ inside = <<>>
  /\ auth = "none" /\ agent = FALSE
  /\ expected = [at |-> "none", page |-> 0, call |-> None] /\ downloaded = <<>> /\ files = {}
  /\ twin = [url |-> "none", wrote |-> FALSE, at |-> "idle", copies |-> <<>>]
  /\ history = [wentBack |-> FALSE, threw |-> FALSE, late |-> FALSE, closed |-> FALSE, apart |-> TRUE]

\* pageKey
Key(f, t) == <<f, t>>

Assign(f, k, v) == [x \in DOMAIN f \cup {k} |-> IF x = k THEN v ELSE f[x]]

-----------------------------------------------------------------------------
(* getPage and withPage.                                                    *)

\* A statement of the feature, or of a finalizer in a hook listed after this one.
CanStep ==
  /\ step.at = "none" /\ twin.at = "idle" /\ steps < setup.steps
  /\ phase = "body" \/ (phase = "ended" /\ Using("late"))

HasPage == Key(feature, tab) \in DOMAIN pages

\* Most steps call withPage; how = "get" are those that call getPage in a container too.
HowOf == {h \in {"with", "get"} : h = "get" => Using("in") \/ Using("headers")}

\* withPage in a container asks for no page.
InContainer(how) == how = "with" /\ container # 0

AskedLate == [history EXCEPT !.late = @ \/ phase = "ended"]

\* What getBrowserContextPage asks for with no page: a page of the feature's context if there is
\* one; else a context, of its own persistent browser or of the one that runs; else a browser.
Asked ==
  LET has == feature \in DOMAIN contexts
  IN  [feature |-> feature, step |-> steps, tab |-> tab, late |-> phase = "ended", current |-> TRUE,
       at |-> IF has THEN "creating" ELSE IF Using("persistent") \/ running # None THEN "context" ELSE "launching",
       browser |-> IF has THEN contexts[feature].browser ELSE running,
       context |-> IF has THEN contexts[feature].id ELSE None]

\* Every call finds room for its page.
Room == Len(opened) + Cardinality(calls) < setup.pages

\* getPage with no page for the present feature and tab.
Ask ==
  /\ ~HasPage /\ Room
  /\ factory' = TRUE /\ calls' = calls \cup {Asked}
  /\ history' = [AskedLate EXCEPT !.apart = @ /\ calls = {}]

AskPage(how) ==
  /\ CanStep /\ ~InContainer(how) /\ Ask
  /\ step' = StepAt("getting", how, 0, tab)
  /\ UNCHANGED <<setup, feature, phase, steps, tab, running, pages, contexts, opened, popups, container, inside, headers,
                 downloads, twin>>

Becomes(c, d) == calls' = (calls \ {c}) \cup {d}

\* The browser takes the place of one that was launched meanwhile.
Launched(c) ==
  /\ c.at = "launching"
  /\ running' = Id(c) /\ Becomes(c, [c EXCEPT !.at = "context", !.browser = Id(c)])
  /\ UNCHANGED <<setup, feature, phase, steps, step, tab, factory, pages, contexts, opened, popups, container, inside,
                 headers, downloads, twin, history>>

\* The context takes the place of one that was made meanwhile, in the factory that was asked.
ContextMade(c) ==
  /\ c.at = "context"
  /\ Becomes(c, [c EXCEPT !.at = "creating", !.context = Id(c)])
  /\ contexts' = IF c.current
                   THEN Assign(contexts, c.feature, [id |-> Id(c), browser |-> c.browser, auth |-> "none", agent |-> FALSE])
                   ELSE contexts
  /\ UNCHANGED <<setup, feature, phase, steps, step, tab, factory, running, pages, opened, popups, container, inside,
                 headers, downloads, twin, history>>

\* withPage, once it has a page: the twin page looks at it first.
Gotten(how, p) == StepAt(IF how = "with" /\ Using("twin") THEN "patching" ELSE "page", how, p, tab)

\* The call is that of the step that runs, which waits for it.
OfStep(c) == step.at = "getting" /\ Id(c) = <<feature, steps>>

PageOf(c) ==
  [feature |-> c.feature, context |-> c.context, browser |-> c.browser, popup |-> FALSE, open |-> TRUE,
   handlers |-> 1, url |-> FirstUrl, alone |-> history.apart /\ c.current, late |-> c.late]

\* newPage has answered; getPage registers a popup handler.  A download is waited for from now on.
PageCreated(c) ==
  /\ c.at = "creating"
  /\ calls' = calls \ {c}
  /\ opened' = Append(opened, PageOf(c))
  /\ pages' = IF c.current THEN Assign(pages, Key(c.feature, c.tab), Len(opened) + 1) ELSE pages
  /\ step' = IF OfStep(c) THEN Gotten(step.how, Len(opened) + 1) ELSE step
  /\ expected' = IF expected.call = Id(c) THEN [at |-> "waiting", page |-> Len(opened) + 1, call |-> None]
                  ELSE expected
  /\ UNCHANGED <<setup, feature, phase, steps, tab, factory, running, contexts, popups, container, inside, headers,
                 downloaded, files, twin, history>>

NoDownload == [at |-> "failed", page |-> 0, call |-> None]

\* The browser answers with an error: the step fails, or the download that is expected.
CallFails(c) ==
  /\ calls' = calls \ {c}
  /\ IF OfStep(c) THEN step' = NoStep /\ steps' = steps + 1 ELSE UNCHANGED <<step, steps>>
  /\ expected' = IF expected.call = Id(c) THEN NoDownload ELSE expected
  /\ UNCHANGED <<setup, feature, phase, tab, factory, running, pages, contexts, opened, popups, container, inside, headers,
                 downloaded, files, twin, history>>

\* getPage registers a handler each time, also on a page it has had.
OneMoreHandler == [opened EXCEPT ![pages[Key(feature, tab)]].handlers = IF Using("popups") THEN @ + 1 ELSE @]

HavePage(how) ==
  /\ CanStep /\ ~InContainer(how) /\ HasPage
  /\ opened' = OneMoreHandler
  /\ step' = Gotten(how, pages[Key(feature, tab)])
  /\ history' = AskedLate
  /\ UNCHANGED <<setup, feature, phase, steps, tab, factory, calls, running, pages, contexts, popups, container, inside,
                 headers, downloads, twin>>

HaveContainer ==
  /\ CanStep /\ InContainer("with")
  /\ step' = StepAt("page", "with", container, tab)
  /\ history' = AskedLate
  /\ UNCHANGED <<setup, feature, phase, steps, tab, browser, popups, container, inside, headers, downloads, twin>>

HasOpenPage == step.at = "page" /\ opened[step.page].open

StepDone == step' = NoStep /\ steps' = steps + 1

-----------------------------------------------------------------------------
(* Steps on a page.                                                         *)

\* duplicateTwinElement has begun: what the locator finds goes to the twin page, not awaited.
WithCopy ==
  IF Using("twin") /\ step.how = "with" /\ Len(twin.copies) < setup.steps
  THEN [twin EXCEPT !.copies = Append(@, [page |-> step.page, state |-> "asked"])] ELSE twin

\* press, type, input, select: an element is located and acted on.
Interact ==
  /\ HasOpenPage /\ StepDone
  /\ twin' = WithCopy
  /\ UNCHANGED <<setup, feature, phase, tab, browser, popups, container, inside, headers, downloads, history>>

\* The page, or the page of the container, is closed: the step fails.
InteractFails ==
  /\ step.at = "page" /\ ~opened[step.page].open
  /\ StepDone
  /\ UNCHANGED <<setup, feature, phase, tab, browser, popups, container, inside, headers, downloads, twin, history>>

\* canvas, screenshots, contents, text, resize and so on: looks at the page only.
Observe ==
  /\ HasOpenPage /\ StepDone
  /\ UNCHANGED <<setup, feature, phase, tab, browser, popups, container, inside, headers, downloads, twin, history>>

\* go to, reload, go back.
Navigate(u) ==
  /\ HasOpenPage /\ StepDone /\ Using("twin") /\ step.how = "with"
  /\ opened' = [opened EXCEPT ![step.page].url = u]
  /\ UNCHANGED <<setup, feature, phase, tab, factory, calls, running, pages, contexts, popups, container, inside, headers,
                 downloads, twin, history>>

\* A click that opens a popup: each handler of the page awaits its load.
Click ==
  /\ HasOpenPage /\ Using("popups") /\ Room
  /\ StepDone
  /\ opened' = Append(opened, [opened[step.page] EXCEPT !.popup = TRUE, !.handlers = 0, !.url = FirstUrl])
  /\ popups' = popups \cup {<<Len(opened) + 1, i>> : i \in 1..opened[step.page].handlers}
  /\ twin' = WithCopy
  /\ UNCHANGED <<setup, feature, phase, tab, factory, calls, running, pages, contexts, container, inside, headers,
                 downloads, history>>

\* Variant: the popup is registered, then the tab is new.
RegisterAt == tab

NewTab == tab + 1

\* The popup has loaded: a handler makes a tab for it.  With no factory it throws then.
PopupLoads(h) ==
  /\ tab < MaxTab
  /\ popups' = popups \ {h}
  /\ tab' = tab + 1
  /\ pages' = IF factory THEN Assign(pages, Key(opened[h[1]].feature, NewTab), h[1]) ELSE pages
  /\ UNCHANGED <<setup, feature, phase, steps, step, factory, calls, running, contexts, opened, container, inside, headers,
                 downloads, twin, history>>

OnNewTab ==
  /\ CanStep /\ Using("popups") /\ tab < MaxTab
  /\ tab' = tab + 1 /\ steps' = steps + 1
  /\ UNCHANGED <<setup, feature, phase, step, browser, popups, container, inside, headers, downloads, twin, history>>

OnTab(t) ==
  /\ CanStep /\ Using("popups")
  /\ tab' = t /\ steps' = steps + 1 /\ history' = [history EXCEPT !.wentBack = TRUE]
  /\ UNCHANGED <<setup, feature, phase, step, browser, popups, container, inside, headers, downloads, twin>>

\* Waits for the tab.
CurrentTabIs(t) ==
  /\ CanStep /\ Using("popups")
  /\ step' = StepAt("waiting", "none", 0, t)
  /\ UNCHANGED <<setup, feature, phase, steps, tab, browser, popups, container, inside, headers, downloads, twin, history>>

\* It is the current one, or the time is up.
CurrentTabWas ==
  /\ step.at = "waiting" /\ StepDone
  /\ UNCHANGED <<setup, feature, phase, tab, browser, popups, container, inside, headers, downloads, twin, history>>

-----------------------------------------------------------------------------
(* in {container}, {statements}                                             *)

InElement ==
  /\ HasOpenPage /\ Using("in") /\ step.how = "with" /\ Len(inside) < 2
  /\ StepDone
  /\ container' = step.page /\ inside' = Append(inside, step.page)
  /\ UNCHANGED <<setup, feature, phase, tab, browser, popups, headers, downloads, twin, history>>

Unset(ok) == 0

\* The statements have ended, ok or not.
LeavesElement(ok) ==
  /\ inside # <<>> /\ step.at = "none" /\ twin.at = "idle"
  /\ container' = Unset(ok) /\ inside' = Front(inside)
  /\ UNCHANGED <<setup, feature, phase, steps, step, tab, browser, popups, headers, downloads, twin, history>>

\* A statement throws out of runSteps (its arguments, or a hook): nothing is unset.
ElementThrows ==
  /\ inside # <<>> /\ step.at = "none" /\ twin.at = "idle"
  /\ inside' = Front(inside) /\ history' = [history EXCEPT !.threw = TRUE]
  /\ UNCHANGED <<setup, feature, phase, steps, step, tab, browser, popups, container, headers, downloads, twin>>

-----------------------------------------------------------------------------
(* Headers: setExtraHTTPHeaders sets the context's, then the stepper's;      *)
(* withPageFetch lends the context an agent.                                *)

ContextHeaders == contexts[feature]

SetContext(h) == contexts' = [contexts EXCEPT ![feature] = h]

ApiUserAgent ==
  /\ CanStep /\ Using("headers")
  /\ agent' = TRUE /\ steps' = steps + 1
  /\ UNCHANGED <<setup, feature, phase, step, tab, browser, popups, container, inside, auth, downloads, twin, history>>

SetExtraHTTPHeaders(h) ==
  /\ HasOpenPage /\ Using("headers") /\ feature \in DOMAIN contexts
  /\ SetContext([ContextHeaders EXCEPT !.auth = h])
  /\ step' = [step EXCEPT !.at = "headers", !.auth = h]
  /\ UNCHANGED <<setup, feature, phase, steps, tab, factory, calls, running, pages, opened, popups, container, inside,
                 headers, downloads, twin, history>>

\* A logout goes on with its request.
HeadersAreSet ==
  /\ step.at = "headers"
  /\ auth' = step.auth
  /\ \/ StepDone
     \/ step.auth = "none" /\ step' = [step EXCEPT !.at = "page", !.how = "get"] /\ UNCHANGED steps
  /\ UNCHANGED <<setup, feature, phase, tab, browser, popups, container, inside, agent, downloads, twin, history>>

\* withPageFetch: the agent for the time of the request.
Fetch ==
  /\ HasOpenPage /\ Using("headers") /\ step.how = "get" /\ feature \in DOMAIN contexts
  /\ step' = [step EXCEPT !.at = "fetching"]
  /\ IF agent THEN SetContext([ContextHeaders EXCEPT !.auth = auth, !.agent = TRUE]) ELSE UNCHANGED contexts
  /\ UNCHANGED <<setup, feature, phase, steps, tab, factory, calls, running, pages, opened, popups, container, inside,
                 headers, downloads, twin, history>>

\* Answered or not, the headers are the stepper's again; a token request sets the token next.
Fetched ==
  /\ step.at = "fetching"
  /\ IF agent THEN SetContext([ContextHeaders EXCEPT !.auth = auth, !.agent = FALSE]) ELSE UNCHANGED contexts
  /\ \/ StepDone
     \/ step' = [step EXCEPT !.at = "page", !.how = "with"] /\ UNCHANGED steps
  /\ UNCHANGED <<setup, feature, phase, tab, factory, calls, running, pages, opened, popups, container, inside, headers,
                 downloads, twin, history>>

-----------------------------------------------------------------------------
(* Downloads.                                                               *)

\* The statement is over at once, whatever its withPage has to await; an expectation before it is
\* forgotten, though its call goes on.
Expects == CanStep /\ Using("downloads") /\ steps' = steps + 1

\* The container has no waitForEvent.
ExpectInContainer ==
  /\ Expects /\ container # 0
  /\ expected' = NoDownload /\ history' = AskedLate
  /\ UNCHANGED <<setup, feature, phase, step, tab, browser, popups, container, inside, headers, downloaded, files, twin>>

ExpectOnPage ==
  /\ Expects /\ container = 0 /\ HasPage
  /\ opened' = OneMoreHandler
  /\ expected' = [at |-> "waiting", page |-> pages[Key(feature, tab)], call |-> None] /\ history' = AskedLate
  /\ UNCHANGED <<setup, feature, phase, step, tab, factory, calls, running, pages, contexts, popups, container, inside,
                 headers, downloaded, files, twin>>

ExpectAsks ==
  /\ Expects /\ container = 0 /\ Ask
  /\ expected' = [at |-> "asking", page |-> 0, call |-> Id(Asked)]
  /\ UNCHANGED <<setup, feature, phase, step, tab, running, pages, contexts, opened, popups, container, inside, headers,
                 downloaded, files, twin>>

ExpectDownload == ExpectInContainer \/ ExpectOnPage \/ ExpectAsks

DownloadArrives ==
  /\ expected.at = "waiting" /\ opened[expected.page].open
  /\ expected' = [expected EXCEPT !.at = "done"]
  /\ UNCHANGED <<setup, feature, phase, steps, step, tab, browser, popups, container, inside, headers, downloaded, files,
                 twin, history>>

\* It has not come in time, or its page is closed.
DownloadFails ==
  /\ expected.at = "waiting"
  /\ expected' = [expected EXCEPT !.at = "failed"]
  /\ UNCHANGED <<setup, feature, phase, steps, step, tab, browser, popups, container, inside, headers, downloaded, files,
                 twin, history>>

Saved(f) == files' = files \cup {f} /\ downloaded' = Append(downloaded, f)

\* Awaits the download expected, also one of a step or feature before that was received already.
ReceiveDownload(f) ==
  /\ CanStep /\ Using("downloads") /\ expected.at \notin {"asking", "waiting"}
  /\ steps' = steps + 1 /\ history' = AskedLate
  /\ IF expected.at = "done" /\ opened[expected.page].open THEN Saved(f) ELSE UNCHANGED <<downloaded, files>>
  /\ UNCHANGED <<setup, feature, phase, step, tab, browser, popups, container, inside, headers, expected, twin>>

\* save download to {file}
WaitForDownload(f) ==
  /\ HasOpenPage /\ Using("downloads")
  /\ StepDone /\ Saved(f)
  /\ UNCHANGED <<setup, feature, phase, tab, browser, popups, container, inside, headers, expected, twin, history>>

-----------------------------------------------------------------------------
(* The twin page.                                                           *)

CopiesFrom(states, to) ==
  [i \in DOMAIN twin.copies |->
     [twin.copies[i] EXCEPT !.state = IF @ \in states THEN to ELSE @]]

\* The element is on the twin page.
CopyPlaced(i) ==
  /\ twin.copies[i].state = "asked" /\ opened[twin.copies[i].page].open
  /\ twin' = [twin EXCEPT !.copies[i].state = "placed"]
  /\ UNCHANGED <<setup, feature, phase, steps, step, tab, browser, popups, container, inside, headers, downloads, history>>

\* The answer to that: wroteElement.
CopySettles(i) ==
  /\ twin.copies[i].state \in {"placed", "written early", "lost early"}
  /\ twin' = [twin EXCEPT !.wrote = TRUE,
                          !.copies[i].state = CASE @ = "placed" -> "settled" [] @ = "written early" -> "written"
                                                [] OTHER -> "lost"]
  /\ UNCHANGED <<setup, feature, phase, steps, step, tab, browser, popups, container, inside, headers, downloads, history>>

\* Its page is closed: an error is logged.
CopyFails(i) ==
  /\ twin.copies[i].state = "asked" /\ ~opened[twin.copies[i].page].open
  /\ twin' = [twin EXCEPT !.copies[i].state = "failed"]
  /\ UNCHANGED <<setup, feature, phase, steps, step, tab, browser, popups, container, inside, headers, downloads, history>>

\* Variant: the page is cleared for the URL, then written.
SetsFirst(t) == [t EXCEPT !.at = "setting"]

\* What was settled is in a file before the page is cleared.
WritesFirst(t) == IF t.wrote THEN [t EXCEPT !.at = "reading"] ELSE [t EXCEPT !.at = "setting", !.wrote = FALSE]

\* patchPage
PatchPage ==
  /\ step.at = "patching" /\ twin.at = "idle"
  /\ LET due == [twin EXCEPT !.copies = CopiesFrom({"settled"}, "due")]
     IN  IF opened[step.page].url = twin.url
           THEN step' = [step EXCEPT !.at = "page"] /\ UNCHANGED twin
           ELSE twin' = WritesFirst(due) /\ UNCHANGED step
  /\ UNCHANGED <<setup, feature, phase, steps, tab, browser, popups, container, inside, headers, downloads, history>>

\* writePage: the content of the page goes to the file.
ReadTwin ==
  /\ twin.at = "reading"
  /\ twin' = [twin EXCEPT !.at = "saving",
                 !.copies = [i \in DOMAIN twin.copies |->
                               [twin.copies[i] EXCEPT !.state = CASE @ \in {"settled", "due"} -> "written"
                                                                  [] @ = "placed" -> "written early" [] OTHER -> @]]]
  /\ UNCHANGED <<setup, feature, phase, steps, step, tab, browser, popups, container, inside, headers, downloads, history>>

\* What is on the page when it is cleared and not in a file.
Cleared ==
  [i \in DOMAIN twin.copies |->
     [twin.copies[i] EXCEPT !.state = CASE @ \in {"settled", "due"} -> "lost" [] @ = "placed" -> "lost early" [] OTHER -> @]]

\* The file is saved and the page cleared.
SaveTwin ==
  /\ twin.at = "saving"
  /\ twin' = [twin EXCEPT !.at = IF phase = "writing" THEN "idle" ELSE "setting",
                          !.wrote = IF phase = "writing" THEN @ ELSE FALSE,
                          !.copies = Cleared]
  /\ phase' = IF phase = "writing" THEN "ended" ELSE phase
  /\ UNCHANGED <<setup, feature, steps, step, tab, browser, popups, container, inside, headers, downloads, history>>

\* setupNewTwinPage
SetTwin ==
  /\ twin.at = "setting" /\ step.at = "patching"
  /\ twin' = [twin EXCEPT !.at = "idle", !.url = opened[step.page].url, !.copies = Cleared]
  /\ step' = [step EXCEPT !.at = "page"]
  /\ UNCHANGED <<setup, feature, phase, steps, tab, browser, popups, container, inside, headers, downloads, history>>

-----------------------------------------------------------------------------
(* The end of a feature and the start of the next.                          *)

\* The last feature is left open when the options ask for it.
EndFeature(shouldClose) ==
  /\ phase = "body" /\ step.at = "none" /\ twin.at = "idle" /\ inside = <<>>
  /\ feature < setup.features => shouldClose
  /\ phase' = IF shouldClose THEN "closing" ELSE IF Using("twin") THEN "writing" ELSE "ended"
  /\ twin' = IF ~shouldClose /\ Using("twin")
               THEN [twin EXCEPT !.at = "reading", !.copies = CopiesFrom({"settled"}, "due")] ELSE twin
  /\ UNCHANGED <<setup, feature, steps, step, tab, browser, popups, container, inside, headers, downloads, history>>

ToRemove == ToSet(downloaded)

Repeats == \E i, j \in DOMAIN downloaded : i < j /\ downloaded[i] = downloaded[j]

\* A name that is there twice cannot be removed twice: the hook throws.
RemovalThrows ==
  /\ phase = "closing" /\ Repeats
  /\ LET twice == {j \in DOMAIN downloaded : \E i \in 1..(j - 1) : downloaded[i] = downloaded[j]}
         first == CHOOSE j \in twice : \A k \in twice : j <= k
     IN  files' = files \ ToSet(SubSeq(downloaded, 1, first - 1))
  /\ downloaded' = <<>> /\ phase' = "failed"
  /\ UNCHANGED <<setup, feature, steps, step, tab, browser, popups, container, inside, headers, expected, twin, history>>

\* Variant: the page of the tab is closed, not its context.
PageOfTab == {pages[k] : k \in DOMAIN pages \cap {Key(feature, tab)}}

\* closeContext of the feature's context, and close of the browser that runs, which closes all of its.
IsClosed(context, b) ==
  \/ feature \in DOMAIN contexts /\ context = contexts[feature].id
  \/ b # None /\ b = running

Closes == {p \in DOMAIN opened : IsClosed(opened[p].context, opened[p].browser)}

\* Calls whose context or browser is closed reject; the others go on, for a factory that is dropped.
Fail == {c \in calls : c.at # "launching" /\ IsClosed(c.context, c.browser)}

CloseBrowser ==
  /\ opened' = [p \in DOMAIN opened |-> [opened[p] EXCEPT !.open = @ /\ p \notin Closes]]
  /\ calls' = {[c EXCEPT !.current = FALSE] : c \in calls \ Fail}
  /\ expected' = IF \E c \in Fail : expected.call = Id(c) THEN NoDownload ELSE expected
  /\ factory' = FALSE /\ running' = None /\ pages' = <<>> /\ contexts' = <<>>

\* closeAfterFeature
CloseAfterFeature ==
  /\ phase = "closing" /\ ~Repeats
  /\ files' = IF downloaded = <<>> THEN files ELSE files \ ToRemove
  /\ downloaded' = <<>>
  /\ IF factory THEN CloseBrowser ELSE UNCHANGED <<browser, expected>>
  /\ popups' = {h \in popups : opened'[h[1]].open}
  /\ phase' = IF Using("twin") THEN "writing" ELSE "ended"
  /\ twin' = IF Using("twin") THEN [twin EXCEPT !.at = "reading", !.copies = CopiesFrom({"settled"}, "due")] ELSE twin
  /\ history' = [history EXCEPT !.closed = TRUE]
  /\ UNCHANGED <<setup, feature, steps, step, tab, container, inside, headers>>

ResetHeaders == "none"

StartFeature ==
  /\ phase = "ended" /\ step.at = "none" /\ twin.at = "idle" /\ inside = <<>> /\ feature < setup.features
  /\ feature' = feature + 1 /\ phase' = "body" /\ steps' = 0
  /\ tab' = 0 /\ auth' = ResetHeaders /\ agent' = FALSE
  /\ history' = [history EXCEPT !.wentBack = FALSE, !.late = FALSE, !.closed = FALSE, !.apart = calls = {}]
  /\ UNCHANGED <<setup, step, browser, popups, container, inside, downloads, twin>>

Over ==
  /\ \/ phase = "failed"
     \/ phase = "ended" /\ feature = setup.features /\ step.at = "none" /\ twin.at = "idle" /\ inside = <<>>
  /\ UNCHANGED vars

-----------------------------------------------------------------------------
BrowserEvent ==
  \/ \E c \in calls : Launched(c) \/ ContextMade(c) \/ PageCreated(c) \/ CallFails(c)
  \/ \E h \in popups : PopupLoads(h)
  \/ DownloadArrives \/ DownloadFails
  \/ \E i \in DOMAIN twin.copies : CopyPlaced(i) \/ CopySettles(i) \/ CopyFails(i)
  \/ ReadTwin \/ SaveTwin \/ SetTwin

Step ==
  \/ \E how \in HowOf : AskPage(how) \/ HavePage(how)
  \/ HaveContainer \/ PatchPage \/ Interact \/ InteractFails \/ Observe \/ Click
  \/ \E u \in Url : Navigate(u)
  \/ OnNewTab \/ \E t \in 0..MaxTab : OnTab(t) \/ CurrentTabIs(t)
  \/ CurrentTabWas
  \/ InElement \/ \E ok \in BOOLEAN : LeavesElement(ok)
  \/ ElementThrows
  \/ ApiUserAgent \/ \E h \in {"none", "basic", "bearer"} : SetExtraHTTPHeaders(h)
  \/ HeadersAreSet
  \/ Fetch \/ Fetched
  \/ ExpectDownload \/ \E f \in File : ReceiveDownload(f) \/ WaitForDownload(f)

Cycle ==
  \/ \E close \in BOOLEAN : EndFeature(close)
  \/ RemovalThrows \/ CloseAfterFeature \/ StartFeature

Next == BrowserEvent \/ Step \/ Cycle \/ Over

Spec == Init /\ [][Next]_vars
-----------------------------------------------------------------------------
(* Properties.                                                              *)

\* Pages, handlers and containers are of pages that were opened, copies of pages that exist.
TypeOK ==
  /\ feature \in 1..setup.features /\ phase \in {"body", "closing", "writing", "ended", "failed"}
  /\ steps \in 0..setup.steps /\ tab \in 0..MaxTab
  /\ step.page \in 0..Len(opened) /\ container \in 0..Len(opened)
  /\ \A c \in calls : c.feature \in 1..feature /\ c.tab \in 0..MaxTab
  /\ DOMAIN pages \subseteq (1..setup.features) \X (0..MaxTab) /\ Range(pages) \subseteq DOMAIN opened
  /\ DOMAIN contexts \subseteq 1..feature
  /\ \A h \in popups : h[1] \in DOMAIN opened /\ opened[h[1]].popup
  /\ auth \in {"none", "basic", "bearer"} /\ agent \in BOOLEAN
  /\ ToSet(downloaded) \subseteq File /\ files \subseteq File
  /\ twin.at \in {"idle", "reading", "saving", "setting"}

\* A statement that gets a page gets one of its own feature that is open, whatever pages other
\* features, finalizers after their end, downloads expected and popups have left in the factory.
PageIsOfFeature ==
  step.at \in {"patching", "page"} /\ container = 0 /\ phase = "body" =>
    opened[step.page].open /\ opened[step.page].feature = feature

\* As long as no statement goes back to a tab by its number, each open page of the feature that was
\* got alone, and each popup of one, is at some tab, or a handler that will give it one has yet to
\* run.
PagesAreReachable ==
  phase = "body" /\ ~history.wentBack =>
    \A p \in DOMAIN opened : opened[p].open /\ opened[p].alone /\ opened[p].feature = feature =>
      (\E k \in DOMAIN pages : pages[k] = p) \/ (\E h \in popups : h[1] = p)

\* The page a statement works on is the feature's, and none that was got alone is out of reach.
PagesAreSound == TypeOK /\ PageIsOfFeature /\ PagesAreReachable

\* When a feature has closed, a page that is open and was got alone is one of a finalizer: since the
\* feature has closed, or in a persistent profile of a feature before.
NothingLeftOpen ==
  phase = "ended" /\ history.closed =>
    \A p \in DOMAIN opened : opened[p].open /\ opened[p].alone =>
      opened[p].late /\ (opened[p].feature = feature \/ Using("persistent"))

\* Between the steps of a feature whose getPage calls have not overlapped, its context sends the
\* headers the stepper knows, and no agent.
HeadersAgree ==
  phase = "body" /\ step.at = "none" /\ history.apart /\ feature \in DOMAIN contexts =>
    ContextHeaders.auth = auth /\ ~ContextHeaders.agent

\* Outside `in` statements there is no container, unless a statement of one has thrown.
ContainerInScope == container # 0 => inside # <<>> \/ history.threw

\* A feature that has closed has left none of the downloads on disk, until a finalizer's step asks
\* for a page or a download.
DownloadsRemoved ==
  phase = "ended" /\ history.closed /\ ~history.late => files = {}

\* A statement leaves no container and no headers behind, a feature no page and no file, but for
\* what overlapping calls and finalizers leave.
NothingLeftBehind == NothingLeftOpen /\ HeadersAgree /\ ContainerInScope /\ DownloadsRemoved

\* A copy the twin page knew of when its file was asked for is in that file.
SettledCopiesAreKept ==
  [][\A i \in DOMAIN twin.copies : twin.copies[i].state = "due" => twin'.copies[i].state \in {"due", "written"}]_vars
=============================================================================
