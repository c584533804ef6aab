----------------------------- MODULE MCVariables -----------------------------
(***************************************************************************)
(* Statements for Variables: a plain variable x, one whose name says that   *)
(* it is secret, one that the browser sets and one of the environment.      *)
(***************************************************************************)
EXTENDS Variables, TLC

CONSTANTS x, password, currentURI, HOME, size, wide, zero, one, low, mid, high

MCNumerals == <<zero, one>>
MCEnv == HOME :> low

Text(v) == [text |-> v]
Of(n) == [name |-> n]

SetTo(n, source) == [op |-> "set", what |-> n, via |-> {}, source |-> source, empty |-> FALSE]
SetAsTo(n, d, source, readonly) ==
  [op |-> "setAs", what |-> n, via |-> {}, source |-> source, empty |-> FALSE, domain |-> d, readonly |-> readonly]

MCVocabulary ==
  { [op |-> "ordered set of", domain |-> size, values |-> <<low, mid, high>>],
    [op |-> "set of", domain |-> wide, values |-> <<low, one>>],
    [op |-> "set of", domain |-> wide, values |-> <<low, low>>],
    [op |-> "set of as", domain |-> wide, supers |-> {size}],
    [op |-> "set of as", domain |-> wide, supers |-> {size, "number"}],
    SetTo(x, Text(zero)), SetTo(x, Of(password)), SetTo(password, Of(x)), SetTo(HOME, Text(low)),
    [SetTo(x, Text(low)) EXCEPT !.via = {password}],
    [SetTo(x, Of(HOME)) EXCEPT !.empty = TRUE],
    SetAsTo(x, size, Text(low), FALSE), SetAsTo(x, size, Text(high), FALSE),
    SetAsTo(x, wide, Text(one), TRUE), SetAsTo(x, "number", Text(one), FALSE),
    SetAsTo(password, "string", Text(mid), TRUE),
    [op |-> "setRandom", what |-> password, empty |-> TRUE],
    [op |-> "compose", what |-> x, source |-> Of(password), domain |-> "string"],
    [op |-> "increment", what |-> x], [op |-> "increment", what |-> password],
    [op |-> "save", what |-> x], [op |-> "read file", what |-> password],
    [op |-> "unset", what |-> x], [op |-> "unset", what |-> password],
    [op |-> "every", what |-> x, domain |-> size], [op |-> "some", what |-> x, domain |-> "string"] }
=============================================================================
