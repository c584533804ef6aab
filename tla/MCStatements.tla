---------------------------- MODULE MCStatements ----------------------------
(***************************************************************************)
(* Programs for Statements.  A program is a sequence of statements, so that *)
(* statement n is its n-th element and statement 1 the feature.             *)
(***************************************************************************)
EXTENDS Statements

CONSTANTS p, q

S(op, parts) == [op |-> op, parts |-> parts, fact |-> p]
Check_(f)    == [op |-> "check", parts |-> <<>>, fact |-> f]
Act_(f)      == [op |-> "act", parts |-> <<>>, fact |-> f]
Undefined_   == S("undefined", <<>>)

\* where p, any of (q, not p);  every x is (p, maybe q)
Formula == << S("feature", << <<2, 3>> >>),
              S("where", << <<4>>, <<6>> >>), S("every", << <<8>>, <<9>> >>),
              Check_(p), Check_(q), S("anyOf", << <<5>>, <<7>> >>), S("not", << <<4>> >>),
              S("anyOf", << <<4>>, <<5>> >>), S("maybe", << <<5>> >>) >>

\* not (p and q);  where not q, every (p, where p, p)
Nested == << S("feature", << <<2, 3>> >>),
             S("not", << <<6, 7>> >>), S("where", << <<4>>, <<5>> >>),
             S("not", << <<7>> >>), S("every", << <<6>>, <<8>> >>),
             Check_(p), Check_(q), S("where", << <<6>>, <<6>> >>) >>

\* ensure a waypoint (twice) whose activity sets p and needs q, then call it
Ensured == << S("feature", << <<2, 2, 3>> >>),
              S("ensure", << <<3>> >>), S("waypoint", << <<4>>, <<5, 6>> >>),
              Check_(p), Act_(p), S("maybe", << <<7>> >>), Check_(q) >>

\* a waypoint without an activity, one without a proof, a proven label and a
\* background, in a whenever that a body may end
Looping == << S("feature", << <<2, 5>> >>),
              S("whenever", << <<3>>, <<4>> >>), Check_(p), Act_(p),
              S("sequence", << <<6, 7, 8>> >>), S("proven", << <<3>> >>),
              S("waypoint", << <<3>>, <<>> >>), S("waypoint", << <<>>, <<3>> >>) >>

\* a waypoint whose activity ensures it again, in a maybe and, after a check,
\* in the feature
Recursive == << S("feature", << <<2, 6, 5>> >>),
                S("maybe", << <<3>> >>), S("waypoint", << <<4>>, <<5>> >>),
                Check_(p), S("ensure", << <<3>> >>), S("maybe", << <<4>> >>) >>

\* a waypoint that calls itself until the path is too long
Deep == << S("feature", << <<2>> >>), S("waypoint", << <<3>>, <<4, 2>> >>),
           Check_(p), Act_(p) >>

\* undefined arguments where they are tried and where they are insisted on
Throwing == << S("feature", << <<2, 3, 4, 6>> >>),
               S("not", << <<5>> >>), S("maybe", << <<5>> >>),
               S("where", << <<7>>, <<5>> >>), Undefined_,
               S("every", << <<7>>, <<5>> >>), Check_(p) >>

\* poll for q, which arrives
Polled == << S("feature", << <<2, 4>> >>), S("until", << <<3>> >>), Check_(q), Check_(p) >>

\* not until q or p
PolledNot == << S("feature", << <<2>> >>), S("not", << <<3>> >>), S("until", << <<4>> >>),
                S("anyOf", << <<5>>, <<6>> >>), Check_(q), Check_(p) >>

\* poll a waypoint: what its proof looks for may arrive before its activity
PolledWaypoint == << S("feature", << <<2>> >>), S("until", << <<3>> >>),
                     S("waypoint", << <<4>>, <<5, 6>> >>), Check_(q), S("maybe", << <<6>> >>), Check_(p) >>

\* every and some over nothing; maybe ensure what cannot be ensured
Empty == << S("feature", << <<2, 3, 3, 3>> >>), S("every", <<>>), S("maybe", << <<4>> >>),
            S("ensure", << <<5>> >>), S("waypoint", << <<>>, <<2, 6>> >>), S("anyOf", <<>>) >>

Handmade == {Formula, Nested, Ensured, Looping, Recursive, Deep, Throwing, Polled, PolledNot,
             PolledWaypoint, Empty}

\* Every way to put three of these around a check of p and another leaf, and
\* an ensure around each way to use a waypoint.
\* (not and maybe have no second part).
Around_ == {"not", "maybe", "where", "anyOf", "every", "whenever", "waypoint"}
Arms(op, first, second) ==
  S(op, IF op \in {"not", "maybe"} THEN << first >> ELSE << first, second >>)
Nest(a, b, c, leaf) == << S("feature", << <<2, 3>> >>),
                          Arms(a, <<3>>, <<4>>), Arms(b, <<5>>, <<6>>), Arms(c, <<6, 5>>, <<5>>),
                          Check_(p), leaf >>
EnsureNest(a, b, leaf) == << S("feature", << <<2, 7>> >>),
                             Arms(a, <<7>>, <<3>>), S("waypoint", << <<5>>, <<4>> >>), Arms(b, <<6>>, <<5>>),
                             Check_(p), leaf, S("ensure", << <<3>> >>) >>
Leaves == {Check_(q), Act_(p), Undefined_}
Nests == {Nest(a, b, c, leaf) : a \in Around_, b \in Around_, c \in Around_, leaf \in Leaves}
EnsureNests == {EnsureNest(a, b, leaf) : a \in Around_ \ {"waypoint"}, b \in Around_, leaf \in Leaves}

\* it is not possible to ensure p: tried until the attempts are exhausted
TriedTooOften == { << S("feature", << <<2, 2, 2>> >>), S("not", << <<3>> >>),
                      S("ensure", << <<4>> >>), S("waypoint", << <<5>>, <<5>> >>), Check_(p) >> }

MCPrograms == Handmade \union Nests \union EnsureNests \union TriedTooOften
=============================================================================
