----------------------------- MODULE MCFlatten -----------------------------
(* Small instances of the emergency exit for TLC. *)
EXTENDS Flatten, TLC

CONSTANTS A, B

(* Two positions and orders of both sides on one of them, an operator who     *)
(* hesitates; a position with a resting sell, and an engine that buys beside  *)
(* the saga; a position that an engine sells from beside it.                  *)
ThreeAccounts ==
  {[resting |-> {<<A, "BUY">>, <<A, "SELL">>}, engine |-> {},
    shares |-> (A :> 1 @@ B :> 1), hesitates |-> TRUE],
   [resting |-> {<<A, "SELL">>}, engine |-> {<<B, "BUY">>},
    shares |-> (A :> 2 @@ B :> 0), hesitates |-> FALSE],
   [resting |-> {}, engine |-> {<<A, "SELL">>},
    shares |-> (A :> 2 @@ B :> 0), hesitates |-> FALSE]}
=============================================================================
