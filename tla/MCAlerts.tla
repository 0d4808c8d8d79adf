----------------------------- MODULE MCAlerts -----------------------------
(* Small instances of the alert outbox for TLC. *)
EXTENDS Alerts

Bound(stalls, crashes, unrecorded, clears, episodes) ==
  [stalls |-> stalls, crashes |-> crashes, unrecorded |-> unrecorded,
   clears |-> clears, episodes |-> episodes]

(* One alert with each kind of trouble, and two alerts that only the ledger   *)
(* and the transport trouble.                                                 *)
Troubles ==
  {Bound(0, 1, 0, 0, <<1, 0>>), Bound(0, 0, 0, 1, <<2, 0>>),
   Bound(1, 0, 1, 0, <<1, 0>>), Bound(0, 0, 0, 0, <<1, 1>>)}
=============================================================================
