---------------------- MODULE HybridCovarianceContract ----------------------
(***************************************************************************)
(* What saber::ErrorCovariance promises its caller (spec 4.3), with no     *)
(* loop and no working field sets: it is built once, and from then on     *)
(* every doMultiply returns, in one step, the hybrid sum its configuration *)
(* defines, and every doRandomize returns, in one step, the sum of the     *)
(* components' weighted samples.  What those sums are is left to the       *)
(* operator parameters, which HybridCovariance instantiates with the       *)
(* closed forms of spec 4.3.                                               *)
(***************************************************************************)
CONSTANTS
  Configs,              \* the configurations a constructor may build
  MultiplyResult(_),    \* what doMultiply returns under a configuration
  RandomizeResult(_)    \* what doRandomize returns under a configuration

VARIABLES
  phase,     \* "unbuilt" or "idle"
  config,    \* the configuration built
  multOut,   \* what the last doMultiply returned
  randOut,   \* what the last doRandomize returned
  returned   \* the handlers that have returned at least once

vars == <<phase, config, multOut, randOut, returned>>

Init ==
  /\ phase = "unbuilt"
  /\ config = <<0, <<>>, <<>>, <<>>>>
  /\ multOut = <<>>
  /\ randOut = <<>>
  /\ returned = {}

Construct ==
  /\ phase = "unbuilt"
  /\ config' \in Configs
  /\ phase' = "idle"
  /\ UNCHANGED <<multOut, randOut, returned>>

Multiply ==
  /\ phase = "idle"
  /\ multOut' = MultiplyResult(config)
  /\ returned' = returned \cup {"multiply"}
  /\ UNCHANGED <<phase, config, randOut>>

Randomize ==
  /\ phase = "idle"
  /\ randOut' = RandomizeResult(config)
  /\ returned' = returned \cup {"randomize"}
  /\ UNCHANGED <<phase, config, multOut>>

Next == Construct \/ Multiply \/ Randomize

Spec == Init /\ [][Next]_vars
=============================================================================
