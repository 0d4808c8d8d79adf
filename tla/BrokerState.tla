---------------------------- MODULE BrokerState ----------------------------
(***************************************************************************)
(* The derivation of an order's state from one broker record               *)
(* (src/internal/brokerstate/derive.go): a priority table in which every   *)
(* contradiction between the status, the quantities, the cancellation and  *)
(* the journal's replacement lineage is an unknown state that fails closed.*)
(*                                                                         *)
(* Quantities are integers (the code compares decimals with a relative     *)
(* tolerance), a successor is present or not, and of the outcome the state *)
(* is kept: the reason codes only word the refusal.                        *)
(***************************************************************************)
EXTENDS Integers

StateUnknown == "UNKNOWN_BROKER_STATE"

\* State.IsTerminal: the order can no longer change at the broker.
IsTerminal(state) ==
    state \in {"FILLED", "CANCELLED", "CANCELLED_PARTIALLY_FILLED", "REPLACED",
               "REJECTED", "REJECTED_PARTIALLY_FILLED"}

\* Rows 6-18: a status that says the order is live. A cancellation, a successor
\* or a full fill contradicts it.
DeriveLive(v, state) ==
    IF v.canceled \/ v.successor \/ v.filled = v.quantity THEN StateUnknown ELSE state

\* Row 36: the group labels, which carry less than a status does.
DeriveGroupLabel(v) ==
    IF v.status = "OPEN"
    THEN IF v.canceled \/ v.successor THEN StateUnknown
         ELSE IF v.filled = 0 THEN "OPEN_UNFILLED" ELSE "OPEN_PARTIALLY_FILLED"
    ELSE CASE v.successor -> IF v.filled = v.quantity THEN StateUnknown ELSE "REPLACED"
           [] ~v.successor /\ v.canceled ->
                CASE v.filled = v.quantity -> StateUnknown
                  [] v.filled = 0          -> "CANCELLED"
                  [] OTHER                 -> "CANCELLED_PARTIALLY_FILLED"
           [] OTHER -> IF v.filled = v.quantity THEN "FILLED" ELSE StateUnknown

\* Derive: v is [status, canceled, successor, quantity, filled].
Derive(v) ==
    IF v.quantity <= 0 \/ v.filled < 0 \/ v.filled > v.quantity THEN StateUnknown
    ELSE CASE v.status = "PENDING" ->
                IF v.filled > 0 THEN StateUnknown ELSE DeriveLive(v, "OPEN_UNFILLED")
           [] v.status = "PARTIAL_FILLED" ->
                IF v.filled = 0 THEN StateUnknown ELSE DeriveLive(v, "OPEN_PARTIALLY_FILLED")
           [] v.status = "PENDING_CANCEL"  -> DeriveLive(v, "CANCEL_PENDING")
           [] v.status = "PENDING_REPLACE" -> DeriveLive(v, "REPLACE_PENDING")
           [] v.status = "FILLED" ->
                IF v.filled # v.quantity \/ v.successor \/ v.canceled
                THEN StateUnknown ELSE "FILLED"
           [] v.status \in {"CANCELED", "REJECTED"} ->
                IF v.successor \/ v.filled = v.quantity THEN StateUnknown
                ELSE IF v.status = "CANCELED"
                THEN IF v.filled = 0 THEN "CANCELLED" ELSE "CANCELLED_PARTIALLY_FILLED"
                ELSE IF v.filled = 0 THEN "REJECTED" ELSE "REJECTED_PARTIALLY_FILLED"
           [] v.status = "REPLACED" ->
                IF v.filled = v.quantity \/ ~v.successor THEN StateUnknown ELSE "REPLACED"
           [] v.status \in {"OPEN", "CLOSED"} -> DeriveGroupLabel(v)
           [] OTHER -> StateUnknown
=============================================================================
