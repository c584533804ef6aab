---------------------------- MODULE MCWebServer ----------------------------
(* Small runs for TLC, with one port for both steppers and with two.         *)
EXTENDS WebServer

Setup(f, n, c, w, m, clients, paths) ==
  [features |-> f, steps |-> n, calls |-> c, web |-> w, mcp |-> m, clients |-> clients, paths |-> paths]

MCSetups ==
  {Setup(1, 2, 3, 1, 1, {"c1", "c2"}, {}), Setup(1, 1, 3, 1, 1, {"c1", "anon"}, {}),
   Setup(2, 2, 2, 1, 1, {"c1"}, {}), Setup(2, 2, 1, 2, 1, {"c1"}, {"/"}),
   Setup(1, 4, 0, 1, 1, {}, Path)}

MCBeneath == {<<"/a", "/a/b">>}
=============================================================================
