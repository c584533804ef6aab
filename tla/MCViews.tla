-------------------------------- MODULE MCViews --------------------------------
(* Small feeds and reports for the page: a nested step, a log of a step that has *)
(* its id, artifacts of several kinds and of no step, events out of the order of *)
(* their timestamps, one that does not bound the timeline, a step run again, and *)
(* a second run.                                                                 *)
EXTENDS Views, TLC

Ev(id, kind, stage, ts, level, depth, r) ==
  [type |-> "event", run |-> r,
   event |-> [id |-> id, kind |-> kind, stage |-> stage, ts |-> ts, level |-> level, depth |-> depth,
              apart |-> kind = "control", run |-> r,
              type |-> "step", parent |-> "", graph |-> "", nodes |-> {}]]
Header(key, m) == [m EXCEPT !.event.type = key]
Of(parent, m) == [m EXCEPT !.event.parent = parent]
In(graph, nodes, m) == [m EXCEPT !.event.graph = graph, !.event.nodes = nodes]

InitMsg(r) == [type |-> "init", run |-> r]
Finalize(r) == [type |-> "finalize", run |-> r]
Ask(p, r) == [type |-> "prompt", prompt |-> p, run |-> r]

\* Level 1 is below the initial log level, 2 is not.
Nested == <<
  InitMsg("a"),
  Header("feature", Ev("f", "lifecycle", "start", 5, 2, 1, "a")),
  Ev("1", "lifecycle", "start", 5, 2, 1, "a"),
  Ev("1.1", "lifecycle", "start", 6, 1, 2, "a"),
  Of("1.1", Ev("1.1.i", "image", "none", 7, 2, 3, "a")),
  Ev("1", "log", "none", 7, 3, 2, "a"),
  Ev("1", "lifecycle", "end", 8, 2, 1, "a"),
  Finalize("a")>>

\* The second run looks at a page before it sets a variable.
Prompting == <<
  InitMsg("a"),
  Ev("1", "lifecycle", "start", 6, 2, 1, "a"),
  Ask("p", "a"),
  Ev("1t", "http-trace", "none", 8, 1, 2, "a"),
  Ev("1", "lifecycle", "end", 7, 2, 1, "a"),
  InitMsg("b"),
  Ev("h", "control", "none", 9, 2, 1, "b"),
  In("observation/http", {"r", "9"}, Ev("q1", "quad", "none", 9, 1, 2, "b")),
  In("vars", {"v", "w"}, Ev("q2", "quad", "none", 10, 1, 2, "b")),
  In("shared/x", {"v", "x"}, Ev("q3", "quad", "none", 10, 1, 2, "b"))>>

Emitted(feed_) == SelectSeq(feed_, LAMBDA m : m.type = "event")
Report(feed_) == [i \in DOMAIN Emitted(feed_) |-> Emitted(feed_)[i].event]

Again == <<
  Ev("1", "lifecycle", "start", 5, 2, 1, "a").event,
  Ev("1", "lifecycle", "end", 6, 2, 1, "a").event,
  Ev("1", "lifecycle", "start", 7, 2, 1, "a").event,
  Of("1", Ev("1.i", "image", "none", 7, 1, 2, "a")).event,
  Header("other", Ev("1.w", "lifecycle", "start", 7, 2, 2, "a")).event,
  Of("1", Ev("1.v", "video", "none", 8, 2, 2, "a")).event,
  Ev("1", "lifecycle", "end", 8, 2, 1, "a").event>>

Graphs == <<
  In("vars", {"v", "w"}, Ev("q1", "quad", "none", 5, 1, 2, "a")).event,
  Ev("t1", "http-trace", "none", 5, 2, 2, "a").event,
  In("shared/x", {"v", "x"}, Ev("q2", "quad", "none", 6, 1, 2, "a")).event,
  In("shared/x", {}, Ev("q3", "quad", "none", 6, 1, 2, "a")).event,
  Ev("t2", "http-trace", "none", 7, 2, 2, "a").event,
  In("observation/http", {"r", "7"}, Ev("q4", "quad", "none", 7, 1, 2, "a")).event>>

MCFeeds == {Nested, Prompting}
MCReports == {Report(Nested), Again, Graphs, SubSeq(Report(Prompting), 2, 3)}
MCEvents == UNION {Range(Report(f)) : f \in MCFeeds} \union UNION {Range(r) : r \in MCReports}
MCFamily == ("observation/http" :> "observation") @@ ("shared/x" :> "shared")
=============================================================================
