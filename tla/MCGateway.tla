----------------------------- MODULE MCGateway -----------------------------
(* Small instances of the order path for TLC. *)
EXTENDS GatewayOnce, GatewayInv, TLC

CONSTANTS w1, w2, d1, d2, a1, a2, a3, eng, flat, s1

AllDecisions == [p \in Procs |-> Decisions]
OneSymbol == [d \in Decisions |-> s1]

(* One engine, two goroutines; an entry and an amend that adds to it. *)
OneProcess == [w \in Workers |-> eng]
EntryAndAmend == (d1 :> "PLACE" @@ d2 :> "AMEND")
ShortAndLong == (d1 :> 1 @@ d2 :> 2)

(* The goroutines and the row ids are interchangeable. *)
EngineSymmetry == Permutations({w1, w2}) \cup Permutations(Attempts)

(* An engine and a flatten-all beside it, one goroutine each.                *)
TwoProcesses == (w1 :> eng @@ w2 :> flat)

(* Both processes hold the same persisted decision, which spends once; it     *)
(* outlives the configured retention of its nonce.                            *)
Twos == [d \in Decisions |-> 2]
CancelOnly == [d \in Decisions |-> "CANCEL"]

RowSymmetry == Permutations(Attempts)
=============================================================================
