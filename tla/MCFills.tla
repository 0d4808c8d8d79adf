------------------------------ MODULE MCFills ------------------------------
(* Small instances of fill detection for TLC. *)
EXTENDS Fills

Setup(sells, qty, trouble) == [sells |-> sells, qty |-> qty, faults |-> trouble]

(* A buy and its amendment; a buy and its sale, with a fault; a buy and its    *)
(* sale, in two parts.                                                    *)
AmendAndSell ==
  {Setup({}, <<2, 1>>, 1), Setup({2}, <<1, 1>>, 1), Setup({2}, <<2, 2>>, 0)}
=============================================================================
