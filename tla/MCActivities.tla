---------------------------- MODULE MCActivities ----------------------------
(***************************************************************************)
(* Projects for Activities: one background and two features, each with one  *)
(* of the contents below, the features expanded.  The statement sa matches  *)
(* the outcome a alone, sb also the pattern b.                              *)
(***************************************************************************)
EXTENDS Activities

CONSTANTS a, b, sa, sb, bg, f1, f2, common

MCMatches == [s \in {sa, sb} |-> IF s = sa THEN {a} ELSE {a, b}]
MCBackgrounds == <<bg>>
MCFeatures == <<f1, f2>>

INSTANCE Features WITH FoundAs <- [n \in {common} |-> {bg}]

L(kind, text) == [kind |-> kind, text |-> text, names |-> <<>>]
Activity == L("activity", NoPath)
Header == L("header", NoPath)
Step == L("step", NoPath)
Include == [kind |-> "backgrounds", text |-> NoPath, names |-> <<common>>]
W(o) == L("waypoint", o)
E(s) == L("ensure", s)

\* No activity; activities of one waypoint and of two; a statement before and
\* after its waypoint; a waypoint in no activity; an activity without a waypoint,
\* ended by a header or by nothing; one that includes the background.
Contents ==
  { <<>>, <<Step>>, <<E(sa)>>,
    <<Activity, Step, W(a), E(sa)>>, <<Activity, Step, W(b), E(sb)>>,
    <<Activity, W(a), Step, W(b), Step, E(sa)>>,
    <<E(sb), Activity, W(b)>>, <<Header, W(a), Activity, Step, Header, Step>>,
    <<Step, Activity, Step>>, <<Activity, Step>>, <<E(sb), Header>>,
    <<Include, E(sa)>>, <<Activity, Include, W(b), Include, E(sb)>> }

\* What a project's files are when they are resolved: a background is read as it
\* is written, and a line of it that includes others is a step like any other.
AsRead(x) == [kind |-> IF x.line.kind = "backgrounds" THEN "step" ELSE x.line.kind, text |-> x.line.text, from |-> x.from]
Resolvable(files, p) ==
  LET lines == IF p = bg THEN doIncludes(<<common>>, files) ELSE expandIncluded(files[p], p, files)
  IN  [i \in DOMAIN lines |-> AsRead(lines[i])]

MCProjects == {[p \in Path |-> Resolvable(files, p)] : files \in [Path -> Contents]}
=============================================================================
