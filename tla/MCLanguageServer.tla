--------------------------- MODULE MCLanguageServer ---------------------------
(***************************************************************************)
(* A feature of a workspace, one of none, a background of the folder, one    *)
(* that is only in the editor and a TypeScript document. The background is   *)
(* given a waypoint and loses it; the feature includes it on its first line  *)
(* and on its second, the other one includes what is only open.              *)
(***************************************************************************)
EXTENDS LanguageServer, TLC

L(k, n) == [kind |-> k, name |-> n]
Block(o) == <<L("activity", "act"), L("waypoint", o)>>

MCDrafts ==
  ("f1" :> {<<L("include", "b1"), L("step", "o2")>>, <<L("step", "set"), L("include", "b1")>>})
  @@ ("f2" :> {Block("o3") \o <<L("step", "o4"), L("step", "o3")>>, <<L("include", "b2"), L("step", "o4")>>})
  @@ ("b1" :> {Block("o1"), Block("o1") \o <<L("header", "s")>> \o Block("o2")})
  @@ ("b2" :> {Block("o4")})
  @@ ("k" :> {<<L("step", "o1"), L("step", "set")>>})
MCOnDisk == "b1" :> Block("o1")
=============================================================================
