------------------------------ MODULE Lifecycle ------------------------------
(***************************************************************************)
(* What the Executor promises the steppers about their lifecycle hooks:     *)
(* the nesting drawn in docs/architecture.md, "Phase 4: Executor".          *)
(*                                                                         *)
(*   startExecution                                                        *)
(*     startFeature                                                        *)
(*       startScenario                                                     *)
(*         beforeStep  [ACTION]  afterStep                                 *)
(*       endScenario                                                       *)
(*     endFeature                                                          *)
(*   endExecution                                                          *)
(*                                                                         *)
(* A scenario is optional: the steps of a background run in no scenario.    *)
(* An execution may stop for good at any point (a thrown hook), so nothing  *)
(* here says that what starts also ends.                                   *)
(***************************************************************************)
EXTENDS Integers

VARIABLE open  \* open[h] = hooks of kind h started and not yet ended

Hook == {"execution", "feature", "scenario", "step"}

Closed == [h \in Hook |-> 0]

\* The kinds that must be open around h, and those that live inside it.
Around(h) == CASE h = "execution" -> {}
               [] h = "feature"   -> {"execution"}
               [] h = "scenario"  -> {"execution", "feature"}
               [] h = "step"      -> {"execution", "feature"}
Inside(h) == CASE h = "execution" -> {"feature", "scenario", "step"}
               [] h = "feature"   -> {"scenario", "step"}
               [] h = "scenario"  -> {"step"}
               [] h = "step"      -> {}

Init == open = Closed

Start(h) == /\ \A a \in Around(h) : open[a] = 1
            /\ \A i \in Inside(h) \union {h} : open[i] = 0
            /\ open' = [open EXCEPT ![h] = 1]

End(h) == /\ open[h] = 1
          /\ \A i \in Inside(h) : open[i] = 0
          /\ open' = [open EXCEPT ![h] = 0]

Next == \E h \in Hook : Start(h) \/ End(h)

Spec == Init /\ [][Next]_open
=============================================================================
