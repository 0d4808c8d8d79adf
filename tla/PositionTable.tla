--------------------------- MODULE PositionTable ---------------------------
(***************************************************************************)
(* The transition table of one symbol's position                           *)
(* (src/internal/position/position.go and table.go): a fill's role, how it *)
(* moves the held quantity and what became of its order decide the next    *)
(* state, or a refusal that writes nothing. The cost basis is left out.    *)
(***************************************************************************)
EXTENDS Integers

PositionStates == {"FLAT", "OPENING", "OPEN", "SCALING", "CLOSING", "CLOSED"}

\* classifyMovement
ClassifyMovement(role, delta, quantity) ==
    IF delta = 0 THEN "NONE"
    ELSE IF role = "ENTRY" THEN "ADDS"
    ELSE CASE delta < quantity -> "REDUCES"
           [] delta = quantity -> "FLATTENS"
           [] OTHER            -> "OVERSHOOTS"

\* classifyDisposition: a filled order is done even when a successor is known.
ClassifyDisposition(filled, ordered, terminal, hasSuccessor) ==
    CASE filled >= ordered                 -> "DONE"
      [] filled < ordered /\ hasSuccessor  -> "SUCCEEDED"
      [] terminal /\ ~hasSuccessor         -> "DONE"
      [] OTHER                             -> "WORKING"

\* The refusing rows: E31-E33, the sells of what is not held, the oversell.
RefusedRow(state, role, movement) ==
    \/ role = "ENTRY" /\ movement = "ADDS" /\ state = "CLOSING"
    \/ role = "EXIT" /\ movement # "NONE" /\ state \in {"FLAT", "CLOSED"}
    \/ movement = "OVERSHOOTS"

\* The allowed rows E01-E36 and X01-X42: the state the row leads to.
NextState(state, role, movement, disposition) ==
    LET done == disposition = "DONE"
    IN  IF movement = "NONE" /\ state \in {"FLAT", "CLOSED"} THEN state
        ELSE IF movement = "FLATTENS" THEN "CLOSED"
        ELSE
        CASE role = "ENTRY" /\ state \in {"FLAT", "CLOSED", "OPENING"} ->
                IF done THEN "OPEN" ELSE "OPENING"
          [] role = "ENTRY" /\ state \in {"OPEN", "SCALING"} ->
                IF done THEN "OPEN" ELSE "SCALING"
          [] role = "ENTRY" /\ state = "CLOSING" -> "CLOSING"
          [] role = "EXIT" /\ state = "CLOSING" -> IF done THEN "OPEN" ELSE "CLOSING"
          [] OTHER -> IF done THEN state ELSE "CLOSING"

\* Apply: the outcome of one event on pos = [state, quantity, seq].
Apply(pos, role, delta, disposition) ==
    LET movement == ClassifyMovement(role, delta, pos.quantity)
        reopened == movement = "ADDS" /\ pos.state \in {"FLAT", "CLOSED"}
        next     == NextState(pos.state, role, movement, disposition)
    IN  IF RefusedRow(pos.state, role, movement)
        THEN [refused |-> TRUE, pos |-> pos]
        ELSE [refused |-> FALSE,
              pos |-> [state    |-> next,
                       quantity |-> IF role = "ENTRY"
                                    THEN (IF reopened THEN 0 ELSE pos.quantity) + delta
                                    ELSE pos.quantity - delta,
                       seq      |-> IF reopened THEN pos.seq + 1 ELSE pos.seq]]
=============================================================================
