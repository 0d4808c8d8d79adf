-------------------------- MODULE AttemptLifecycle --------------------------
(***************************************************************************)
(* The states of a mutation attempt and the moves the journal allows.      *)
(*                                                                         *)
(* Two filters stand in front of every move: the lifecycle table, and the  *)
(* from-set the caller declares.  Both are read inside the transaction     *)
(* that writes the row, so a move is one atomic test-and-set.              *)
(***************************************************************************)

AttemptStates ==
    {"RECORDED", "DISPATCH_STARTED", "ACKED", "IN_DOUBT", "CONFIRMED",
     "NOT_DISPATCHED", "FAILED_CONFIRMED", "UNRESOLVED_IN_DOUBT"}

(* stateNone: no row yet. *)
RowStates == AttemptStates \cup {"none"}

(* What PendingAttempts selects: the states that are not terminal. *)
PendingStates == {"RECORDED", "DISPATCH_STARTED", "ACKED", "IN_DOUBT"}

(* transitionTable *)
AllowedNext(from) ==
    CASE from = "none"                -> {"RECORDED"}
      [] from = "RECORDED"            -> {"DISPATCH_STARTED", "NOT_DISPATCHED"}
      [] from = "DISPATCH_STARTED"    -> {"ACKED", "IN_DOUBT", "NOT_DISPATCHED",
                                          "FAILED_CONFIRMED"}
      [] from = "ACKED"               -> {"CONFIRMED", "IN_DOUBT"}
      [] from = "IN_DOUBT"            -> {"CONFIRMED", "FAILED_CONFIRMED",
                                          "UNRESOLVED_IN_DOUBT"}
      [] from = "UNRESOLVED_IN_DOUBT" -> {"CONFIRMED", "FAILED_CONFIRMED"}
      [] OTHER                        -> {}

ValidTransition(from, to) == to \in AllowedNext(from)

(* The from-set each journal method declares. *)
MarkDispatchStartedFrom == {"RECORDED"}
MarkAckedFrom           == {"DISPATCH_STARTED"}
MarkInDoubtFrom         == {"DISPATCH_STARTED", "ACKED"}
SettleFrom              == {"RECORDED", "DISPATCH_STARTED", "ACKED", "IN_DOUBT"}
ResolveConfirmedFrom    == {"IN_DOUBT", "ACKED"}
ResolveFailedFrom       == {"IN_DOUBT"}
ResolveUnresolvedFrom   == {"IN_DOUBT"}
OperatorResolveFrom     == {"UNRESOLVED_IN_DOUBT"}

(* checkTransitionAllowed *)
TransitionAllowed(from, to, allowed) ==
    /\ ValidTransition(from, to)
    /\ from \in allowed

(* releasesReservations: the ends that prove there is no exposure. *)
ReleasesReservations(state) == state \in {"NOT_DISPATCHED", "FAILED_CONFIRMED"}
=============================================================================
