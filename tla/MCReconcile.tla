---------------------------- MODULE MCReconcile ----------------------------
(* The instance of ReconcileTracker for TLC: one symbol, every kind of        *)
(* comparison; several symbols are the proofs' business.                      *)
EXTENDS ReconcileTracker

CONSTANT s1
=============================================================================
