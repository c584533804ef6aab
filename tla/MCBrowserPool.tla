--------------------------- MODULE MCBrowserPool ---------------------------
(* Small runs for TLC: each setup brings one concern of the stepper into     *)
(* play, with features enough for what one leaves to the next.              *)
EXTENDS BrowserPool

Setup(features, n, max, uses) == [features |-> features, steps |-> n, pages |-> max, uses |-> uses]

MCSetups ==
  {Setup(1, 4, 4, {"popups"}), Setup(2, 2, 4, {"popups", "late"}), Setup(2, 3, 3, {"persistent", "late"}),
   Setup(2, 3, 3, {"in", "popups"}), Setup(2, 3, 3, {"headers"}), Setup(2, 2, 3, {"headers", "late"}),
   Setup(2, 3, 2, {"downloads"}), Setup(2, 2, 3, {"downloads"}), Setup(2, 2, 2, {"downloads", "late"}),
   Setup(2, 2, 3, {"downloads", "persistent"}), Setup(2, 2, 2, {"downloads", "headers"}),
   Setup(1, 3, 3, {"downloads", "popups"}), Setup(2, 2, 2, {"downloads", "in"}),
   Setup(1, 4, 2, {"twin"}), Setup(2, 2, 3, {"twin", "late"})}
=============================================================================
