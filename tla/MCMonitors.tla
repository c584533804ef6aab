----------------------------- MODULE MCMonitors -----------------------------
(***************************************************************************)
(* Lists of steppers in the orders that differ: finalizers before or after  *)
(* each monitor, the browser before or after a stepper that emits at the    *)
(* end of a feature, with and without monitor-otel, and a piggybacking one. *)
(***************************************************************************)
EXTENDS Monitors

Own(l, n, k) == [list |-> l, remote |-> FALSE, features |-> 2, steps |-> n, lines |-> k]

MCSetups ==
  {Own(<<Finalizer, Browser, Video>>, 1, 1), Own(<<Video, Browser, Finalizer>>, 1, 1),
   Own(<<Finalizer, Browser>>, 2, 1), Own(<<Tui, Finalizer>>, 2, 1),
   [list |-> <<Finalizer>>, remote |-> FALSE, features |-> 4, steps |-> 2, lines |-> 1],
   Own(<<Finalizer, Otel>>, 2, 2), Own(<<Otel, Finalizer>>, 2, 2), Own(<<Otel, Browser>>, 1, 1),
   [list |-> <<Browser>>, remote |-> TRUE, features |-> 1, steps |-> 0, lines |-> 1]}
=============================================================================
