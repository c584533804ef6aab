---------------------------- MODULE MCFeatureRun ----------------------------
(***************************************************************************)
(* Runs of no, one and two features.  TwoScenarios has a background step    *)
(* and two scenarios; Relined has a Feature: line inside a scenario; Short  *)
(* is a one-step feature; Waiting has an `until` before the step that may   *)
(* fail; an empty feature has no steps.                                    *)
(***************************************************************************)
EXTENDS FeatureRun

Once(kind)    == [kind |-> kind, tolerates |-> FALSE]
Tolerant(kind)   == [kind |-> kind, tolerates |-> TRUE]

TwoScenarios == <<Once("plain"), Once("scenario"), Once("plain"), Once("scenario")>>
Relined      == <<Once("scenario"), Once("plain"), Once("feature")>>
Short        == <<Once("plain")>>
Waiting      == <<Tolerant("plain"), Once("plain")>>

MCPlans == {<<TwoScenarios>>, <<Relined, Short>>, <<Short, Short>>, <<<<>>, Short>>, <<Waiting>>, <<>>}

Unattended == [continueAfterError : BOOLEAN, stay : Stay, debugging : {FALSE}]
Debugged   == [continueAfterError : {FALSE}, stay : {"failure"}, debugging : {TRUE}]
MCOptions  == Unattended \union Debugged
=============================================================================
