------------------------------ MODULE MCExtension ------------------------------
(* Three base directories, two of them with the same last part and one of these  *)
(* outside the workspace, and settings with and without the MCP endpoint and its *)
(* token.                                                                       *)
EXTENDS Extension, TLC

MCSettings == {
  [bases |-> <<"a/tests", "../tests">>, mcpEnabled |-> FALSE, token |-> "none"],
  [bases |-> <<"a/tests", "c">>, mcpEnabled |-> TRUE, token |-> "t"],
  [bases |-> <<"c">>, mcpEnabled |-> TRUE, token |-> "none"]}
MCBaseName == ("a/tests" :> "tests") @@ ("../tests" :> "tests") @@ ("c" :> "c")
In(b, where) == [base |-> b, in |-> where]
MCPlace ==
  ("a1" :> In("a/tests", "features")) @@ ("a2" :> In("a/tests", "backgrounds"))
  @@ ("b1" :> In("../tests", "features")) @@ ("c1" :> In("c", "root")) @@ ("c2" :> In("c", "backgrounds"))
=============================================================================
