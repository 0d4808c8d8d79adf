------------------------------ MODULE Gateway ------------------------------
(***************************************************************************)
(* The order path: the execution gateway of every running process, the     *)
(* journal they share, and the broker.                                     *)
(*                                                                         *)
(* A worker is one goroutine inside Gateway.submit.  A process is an       *)
(* engine (it recovers the journal before it trades) or a flatten-all      *)
(* command (it does not, and it takes no engine lock).  The journal is one *)
(* SQLite file: each of its transactions is one step here, and everything  *)
(* between two transactions can interleave with every other process.       *)
(***************************************************************************)
EXTENDS Naturals, FiniteSets, AttemptLifecycle

CONSTANTS
    Procs,        \* processes that open the journal
    Engines,      \* the processes among them that are trading engines
    Workers,      \* goroutines that submit mutations
    ProcOf,       \* the process a worker runs in
    Decisions,    \* Guardian decisions, one mutation each
    Submits,      \* the decisions a process may hold and submit
    Symbols,
    SymbolOf,     \* the symbol a decision is about
    KindOf,       \* PLACE, AMEND or CANCEL
    Raising,      \* the EXPOSURE_RAISING decisions
    TTLOf,        \* validity of a decision, in clock ticks
    Attempts,     \* ids of mutation_attempts rows
    Retention,    \* spentNonceRetention, in clock ticks
    MaxTime,      \* bound: the clock stops here
    MaxRetries,   \* re-sends of a refused cancel (FlattenCancelRefusal)
    NoDecision, NoAttempt

ASSUME ProcAssumption ==
    /\ Engines \subseteq Procs
    /\ ProcOf \in [Workers -> Procs]

ASSUME DecisionAssumption ==
    /\ Submits \in [Procs -> SUBSET Decisions]
    /\ SymbolOf \in [Decisions -> Symbols]
    /\ KindOf \in [Decisions -> {"PLACE", "AMEND", "CANCEL"}]
    /\ Raising \subseteq Decisions
    /\ \A d \in Raising : KindOf[d] # "CANCEL"
    /\ NoDecision \notin Decisions
    /\ NoAttempt \notin Attempts

ASSUME TimeAssumption ==
    /\ TTLOf \in [Decisions -> Nat \ {0}]
    /\ Retention \in Nat
    /\ MaxTime \in Nat
    /\ MaxRetries \in Nat

VARIABLES
    now,        \* the wall clock
    issued,     \* decisions that have a row
    expiresAt,  \* decisions.expires_at
    attState,   \* mutation_attempts.state
    attDec,     \* mutation_attempts.decision_id
    started,    \* the rows whose dispatch_started_at is set
    spent,      \* decisions whose nonce is in spent_nonces
    spentAt,    \* spent_nonces.consumed_at
    hold,       \* risk_reservations: state, or the reason it was released
    holdAtt,    \* risk_reservations.attempt_id
    sends,      \* broker calls made for an attempt
    broker,     \* what became of the request at the broker
    inflight,   \* Gateway.inflight: symbols claimed inside a process
    phase,      \* where a process is in its life
    listed,     \* the pending rows a recovering process read, as it read them
    pc,         \* the next step of a worker
    wDec,       \* the decision a worker is submitting
    wAtt        \* the attempt a worker recorded

decisionVars == <<issued, expiresAt>>
nonceVars    == <<spent, spentAt>>
brokerVars   == <<sends, broker>>
procVars     == <<phase, listed>>
workerVars   == <<pc, wDec, wAtt>>
vars == <<now, decisionVars, attState, attDec, started, nonceVars, hold, holdAtt,
          brokerVars, inflight, procVars, workerVars>>

HoldStates == {"NONE", "HELD", "BROKER_TERMINAL", "EXPIRED_UNCONSUMED", "OPERATOR"}
BrokerStates == {"none", "wire", "live", "refused", "lost", "closed"}
Phases == {"down", "swept", "pruned", "recovering", "resolving", "ready"}

(* Where a worker stands in submit: before the record, recorded, dispatching. *)
BeforeRecord == {"claimed", "nopending", "free", "unspent"}
Recorded     == {"prepared", "decided", "reserved"}
BeforeSend   == {"started", "rechecked", "cleared"}
Dispatching  == BeforeSend \cup {"sent"}
PCs == {"idle", "acked", "resolving"} \cup BeforeRecord \cup Recorded \cup Dispatching

\* Type invariant: the type of the tables, the workers and the broker.
TypeOK ==
    /\ now \in Nat
    /\ issued \in SUBSET Decisions
    /\ expiresAt \in [Decisions -> Nat]
    /\ attState \in [Attempts -> RowStates]
    /\ attDec \in [Attempts -> Decisions \cup {NoDecision}]
    /\ started \in SUBSET Attempts
    /\ spent \in SUBSET Decisions
    /\ spentAt \in [Decisions -> Nat]
    /\ hold \in [Decisions -> HoldStates]
    /\ holdAtt \in [Decisions -> Attempts \cup {NoAttempt}]
    /\ sends \in [Attempts -> Nat]
    /\ broker \in [Attempts -> BrokerStates]
    /\ inflight \in [Procs -> SUBSET Symbols]
    /\ phase \in [Procs -> Phases]
    /\ listed \in [Procs -> [Attempts -> RowStates]]
    /\ pc \in [Workers -> PCs]
    /\ wDec \in [Workers -> Decisions \cup {NoDecision}]
    /\ wAtt \in [Workers -> Attempts \cup {NoAttempt}]

Init ==
    /\ now = 0
    /\ issued = {}
    /\ expiresAt = [d \in Decisions |-> 0]
    /\ attState = [a \in Attempts |-> "none"]
    /\ attDec = [a \in Attempts |-> NoDecision]
    /\ started = {}
    /\ spent = {}
    /\ spentAt = [d \in Decisions |-> 0]
    /\ hold = [d \in Decisions |-> "NONE"]
    /\ holdAtt = [d \in Decisions |-> NoAttempt]
    /\ sends = [a \in Attempts |-> 0]
    /\ broker = [a \in Attempts |-> "none"]
    /\ inflight = [p \in Procs |-> {}]
    /\ phase = [p \in Procs |-> "down"]
    /\ listed = [p \in Procs |-> [a \in Attempts |-> "none"]]
    /\ pc = [w \in Workers |-> "idle"]
    /\ wDec = [w \in Workers |-> NoDecision]
    /\ wAtt = [w \in Workers |-> NoAttempt]

-----------------------------------------------------------------------------
(* Reads and writes of the journal. *)

AttemptsOn(s) == {a \in Attempts : attDec[a] # NoDecision /\ SymbolOf[attDec[a]] = s}

(* unsettledFor: the attempts that block every mutation on a symbol. *)
UnsettledOn(s) == {a \in AttemptsOn(s) : attState[a] \in PendingStates}

(* UnresolvedAttempts: the parked ones, which block new exposure only. *)
UnresolvedOn(s) == {a \in AttemptsOn(s) : attState[a] = "UNRESOLVED_IN_DOUBT"}

(* idx_attempts_client_order: only a PLACE carries an idempotency key, and  *)
(* one attempt claims it for good.                                          *)
KeyClaimed(d) == KindOf[d] = "PLACE" /\ \E a \in Attempts : attDec[a] = d

Expired(d) == now >= expiresAt[d]

(* The holds after releaseReservationsForAttempt(a). *)
ReleasedFor(a) ==
    [d \in Decisions |-> IF holdAtt[d] = a /\ hold[d] = "HELD"
                         THEN "BROKER_TERMINAL" ELSE hold[d]]

(* Attempt.transition: the row and the holds it frees, or nothing at all.   *)
CanMove(a, to, from) == TransitionAllowed(attState[a], to, from)

Transition(a, to, from) ==
    IF CanMove(a, to, from)
    THEN /\ attState' = [attState EXCEPT ![a] = to]
         /\ hold' = IF ReleasesReservations(to) THEN ReleasedFor(a) ELSE hold
    ELSE UNCHANGED <<attState, hold>>

(* Mutant: the sweep forgets to ask whether the nonce was spent. *)
SweptExpiredAndSpent ==
    [d \in Decisions |-> IF hold[d] = "HELD" /\ Expired(d)
                         THEN "EXPIRED_UNCONSUMED" ELSE hold[d]]

(* Mutant: the sweep reaches holds through their attempt, missing the unused. *)
SweptExpiredBound ==
    [d \in Decisions |-> IF /\ hold[d] = "HELD" /\ Expired(d) /\ d \notin spent
                            /\ holdAtt[d] # NoAttempt
                         THEN "EXPIRED_UNCONSUMED" ELSE hold[d]]

(* sweepExpiredUnconsumed: an expiry whose nonce was never spent.           *)
SweptExpired ==
    [d \in Decisions |-> IF hold[d] = "HELD" /\ Expired(d) /\ d \notin spent
                         THEN "EXPIRED_UNCONSUMED" ELSE hold[d]]

-----------------------------------------------------------------------------
(* Worker bookkeeping. *)

Advance(w, to) == pc' = [pc EXCEPT ![w] = to] /\ UNCHANGED <<wDec, wAtt, inflight>>

(* submit returns: the deferred releaseSymbol runs, the handle is gone.     *)
Return(w) ==
    /\ pc' = [pc EXCEPT ![w] = "idle"]
    /\ wDec' = [wDec EXCEPT ![w] = NoDecision]
    /\ wAtt' = [wAtt EXCEPT ![w] = NoAttempt]
    /\ inflight' = [inflight EXCEPT ![ProcOf[w]] = @ \ {SymbolOf[wDec[w]]}]

IsEngine(w) == ProcOf[w] \in Engines

-----------------------------------------------------------------------------
(* The clock and the issuer. *)

Tick ==
    /\ now < MaxTime
    /\ now' = now + 1
    /\ UNCHANGED <<decisionVars, attState, attDec, started, nonceVars, hold, holdAtt,
                   brokerVars, inflight, procVars, workerVars>>

(* RecordDecisionAndReserve: one transaction sweeps the lapsed holds, writes *)
(* the decision and, when it raises exposure, takes its hold.                *)
IssueDecision(d) ==
    /\ d \notin issued
    /\ now + TTLOf[d] <= MaxTime
    /\ issued' = issued \cup {d}
    /\ expiresAt' = [expiresAt EXCEPT ![d] = now + TTLOf[d]]
    /\ hold' = IF d \in Raising THEN [SweptExpired EXCEPT ![d] = "HELD"] ELSE hold
    /\ UNCHANGED <<now, attState, attDec, started, nonceVars, holdAtt,
                   brokerVars, inflight, procVars, workerVars>>

-----------------------------------------------------------------------------
(* submit, before anything is recorded. *)

(* Mutant: the in-process claim is not tested. *)
SubmitUnclaimed(w, d) ==
    /\ pc[w] = "idle"
    /\ phase[ProcOf[w]] = "ready"
    /\ d \in issued \cap Submits[ProcOf[w]]
    /\ inflight' = [inflight EXCEPT ![ProcOf[w]] = @ \cup {SymbolOf[d]}]
    /\ pc' = [pc EXCEPT ![w] = "claimed"]
    /\ wDec' = [wDec EXCEPT ![w] = d]
    /\ UNCHANGED <<now, decisionVars, attState, attDec, started, nonceVars, hold,
                   holdAtt, brokerVars, procVars, wAtt>>

(* claimSymbol *)
Submit(w, d) ==
    /\ pc[w] = "idle"
    /\ phase[ProcOf[w]] = "ready"
    /\ d \in issued \cap Submits[ProcOf[w]]
    /\ SymbolOf[d] \notin inflight[ProcOf[w]]
    /\ inflight' = [inflight EXCEPT ![ProcOf[w]] = @ \cup {SymbolOf[d]}]
    /\ pc' = [pc EXCEPT ![w] = "claimed"]
    /\ wDec' = [wDec EXCEPT ![w] = d]
    /\ UNCHANGED <<now, decisionVars, attState, attDec, started, nonceVars, hold,
                   holdAtt, brokerVars, procVars, wAtt>>

(* checkSymbolFree, first read: unsettled attempts block every mutation.    *)
CheckUnsettled(w) ==
    /\ pc[w] = "claimed"
    /\ UnsettledOn(SymbolOf[wDec[w]]) = {}
    /\ Advance(w, IF wDec[w] \in Raising THEN "nopending" ELSE "free")
    /\ UNCHANGED <<now, decisionVars, attState, attDec, started, nonceVars, hold,
                   holdAtt, brokerVars, procVars>>

(* Mutant: parked attempts are not consulted. *)
CheckUnresolvedSkipped(w) ==
    /\ pc[w] = "nopending"
    /\ Advance(w, "free")
    /\ UNCHANGED <<now, decisionVars, attState, attDec, started, nonceVars, hold,
                   holdAtt, brokerVars, procVars>>

(* checkSymbolFree, second read: parked attempts block new exposure.        *)
CheckUnresolved(w) ==
    /\ pc[w] = "nopending"
    /\ UnresolvedOn(SymbolOf[wDec[w]]) = {}
    /\ Advance(w, "free")
    /\ UNCHANGED <<now, decisionVars, attState, attDec, started, nonceVars, hold,
                   holdAtt, brokerVars, procVars>>

(* checkDecisionUnspent *)
CheckUnspent(w) ==
    /\ pc[w] = "free"
    /\ ~KeyClaimed(wDec[w])
    /\ wDec[w] \notin spent
    /\ Advance(w, "unspent")
    /\ UNCHANGED <<now, decisionVars, attState, attDec, started, nonceVars, hold,
                   holdAtt, brokerVars, procVars>>

(* Journal.Prepare: the attempt row and the binding of the hold, one commit. *)
Prepare(w, a) ==
    /\ pc[w] = "unspent"
    /\ attState[a] = "none"
    /\ ~KeyClaimed(wDec[w])
    /\ attState' = [attState EXCEPT ![a] = "RECORDED"]
    /\ attDec' = [attDec EXCEPT ![a] = wDec[w]]
    /\ holdAtt' = IF hold[wDec[w]] # "NONE" /\ holdAtt[wDec[w]] = NoAttempt
                  THEN [holdAtt EXCEPT ![wDec[w]] = a] ELSE holdAtt
    /\ pc' = [pc EXCEPT ![w] = "prepared"]
    /\ wAtt' = [wAtt EXCEPT ![w] = a]
    /\ UNCHANGED <<now, decisionVars, started, nonceVars, hold, brokerVars, inflight,
                   procVars, wDec>>

(* A check refuses, or a read or the Prepare transaction fails: nothing was *)
(* recorded and submit returns.                                             *)
ReturnUnrecorded(w) ==
    /\ pc[w] \in BeforeRecord
    /\ Return(w)
    /\ UNCHANGED <<now, decisionVars, attState, attDec, started, nonceVars, hold,
                   holdAtt, brokerVars, procVars>>

-----------------------------------------------------------------------------
(* submit, between the record and the dispatch. *)

(* checkDecision: the part of it that time can change. *)
CheckDecision(w) ==
    /\ pc[w] = "prepared"
    /\ ~Expired(wDec[w])
    /\ Advance(w, "decided")
    /\ UNCHANGED <<now, decisionVars, attState, attDec, started, nonceVars, hold,
                   holdAtt, brokerVars, procVars>>

(* checkReservation: an entry needs a hold that is still HELD. *)
CheckReservation(w) ==
    /\ pc[w] = "decided"
    /\ wDec[w] \in Raising => hold[wDec[w]] = "HELD"
    /\ Advance(w, "reserved")
    /\ UNCHANGED <<now, decisionVars, attState, attDec, started, nonceVars, hold,
                   holdAtt, brokerVars, procVars>>

(* refusePrepared: any of the gates between the record and the dispatch      *)
(* refuses, and the refusal closes the attempt.                              *)
Refuse(w) ==
    /\ pc[w] \in {"prepared", "decided"}
    /\ Transition(wAtt[w], "NOT_DISPATCHED", SettleFrom)
    /\ Return(w)
    /\ UNCHANGED <<now, decisionVars, attDec, started, nonceVars, holdAtt,
                   brokerVars, procVars>>

(* Mutant: the nonce is tested but never written. *)
MarkDispatchStartedUnspent(w) ==
    /\ pc[w] = "reserved"
    /\ CanMove(wAtt[w], "DISPATCH_STARTED", MarkDispatchStartedFrom)
    /\ wDec[w] \notin spent
    /\ Transition(wAtt[w], "DISPATCH_STARTED", MarkDispatchStartedFrom)
    /\ started' = started \cup {wAtt[w]}
    /\ Advance(w, "started")
    /\ UNCHANGED <<now, decisionVars, nonceVars, attDec, holdAtt, brokerVars, procVars>>

(* Mutant: dispatch_started_at is not stamped. *)
MarkDispatchStartedUnstamped(w) ==
    /\ pc[w] = "reserved"
    /\ CanMove(wAtt[w], "DISPATCH_STARTED", MarkDispatchStartedFrom)
    /\ wDec[w] \notin spent
    /\ Transition(wAtt[w], "DISPATCH_STARTED", MarkDispatchStartedFrom)
    /\ spent' = spent \cup {wDec[w]}
    /\ spentAt' = [spentAt EXCEPT ![wDec[w]] = now]
    /\ Advance(w, "started")
    /\ UNCHANGED <<now, decisionVars, started, attDec, holdAtt, brokerVars, procVars>>

(* MarkDispatchStarted spends the nonce and records the dispatch in one      *)
(* transaction.                                                              *)
MarkDispatchStarted(w) ==
    /\ pc[w] = "reserved"
    /\ CanMove(wAtt[w], "DISPATCH_STARTED", MarkDispatchStartedFrom)
    /\ wDec[w] \notin spent
    /\ Transition(wAtt[w], "DISPATCH_STARTED", MarkDispatchStartedFrom)
    /\ started' = started \cup {wAtt[w]}
    /\ spent' = spent \cup {wDec[w]}
    /\ spentAt' = [spentAt EXCEPT ![wDec[w]] = now]
    /\ Advance(w, "started")
    /\ UNCHANGED <<now, decisionVars, attDec, holdAtt, brokerVars, procVars>>

(* ErrNonceSpent rolls the transaction back; the attempt is closed instead.  *)
NonceSpent(w) ==
    /\ pc[w] = "reserved"
    /\ wDec[w] \in spent
    /\ Transition(wAtt[w], "NOT_DISPATCHED", SettleFrom)
    /\ Return(w)
    /\ UNCHANGED <<now, decisionVars, attDec, started, nonceVars, holdAtt,
                   brokerVars, procVars>>

(* A journal write failed, or found the row in a state the move is not legal *)
(* from: submit returns the error and leaves the row where it is.            *)
JournalError(w) ==
    /\ pc[w] \in Recorded \cup Dispatching \cup {"acked"}
    /\ Return(w)
    /\ UNCHANGED <<now, decisionVars, attState, attDec, started, nonceVars, hold,
                   holdAtt, brokerVars, procVars>>

-----------------------------------------------------------------------------
(* The dispatch closure and DispatchVerified. *)

(* Mutant: the dispatch closure trusts the check made before the record. *)
RecheckDecisionSkipped(w) ==
    /\ pc[w] = "started"
    /\ Advance(w, "rechecked")
    /\ UNCHANGED <<now, decisionVars, attState, attDec, started, nonceVars, hold,
                   holdAtt, brokerVars, procVars>>

(* loadDecision and checkDecision again, on the row as it is now. *)
RecheckDecision(w) ==
    /\ pc[w] = "started"
    /\ ~Expired(wDec[w])
    /\ Advance(w, "rechecked")
    /\ UNCHANGED <<now, decisionVars, attState, attDec, started, nonceVars, hold,
                   holdAtt, brokerVars, procVars>>

(* checkReservation again, the last read before the broker call. *)
RecheckReservation(w) ==
    /\ pc[w] = "rechecked"
    /\ wDec[w] \in Raising => hold[wDec[w]] = "HELD"
    /\ Advance(w, "cleared")
    /\ UNCHANGED <<now, decisionVars, attState, attDec, started, nonceVars, hold,
                   holdAtt, brokerVars, procVars>>

(* A re-check refused, or the send tracker shows that no byte was written.   *)
(* When an earlier send of the same cancel exists, withCancelRefusal keeps   *)
(* that one's ambiguity.                                                     *)
NotSent(w) ==
    /\ pc[w] \in BeforeSend
    /\ IF sends[wAtt[w]] = 0
       THEN Transition(wAtt[w], "NOT_DISPATCHED", SettleFrom)
       ELSE Transition(wAtt[w], "IN_DOUBT", MarkInDoubtFrom)
    /\ Return(w)
    /\ UNCHANGED <<now, decisionVars, attDec, started, nonceVars, holdAtt,
                   brokerVars, procVars>>

Send(w) ==
    /\ pc[w] = "cleared"
    /\ sends' = [sends EXCEPT ![wAtt[w]] = @ + 1]
    /\ broker' = [broker EXCEPT ![wAtt[w]] = "wire"]
    /\ Advance(w, "sent")
    /\ UNCHANGED <<now, decisionVars, attState, attDec, started, nonceVars, hold,
                   holdAtt, procVars>>

AtBroker(a) == broker[a] \in {"live", "closed"}

(* Mutant: a success answer that names no order counts as an acknowledgement. *)
MarkAckedUnnamed(w) ==
    /\ pc[w] = "sent"
    /\ CanMove(wAtt[w], "ACKED", MarkAckedFrom)
    /\ Transition(wAtt[w], "ACKED", MarkAckedFrom)
    /\ Advance(w, "acked")
    /\ UNCHANGED <<now, decisionVars, attDec, started, nonceVars, holdAtt,
                   brokerVars, procVars>>

(* DispatchAcked: the broker's answer named an order. *)
MarkAcked(w) ==
    /\ pc[w] = "sent"
    /\ AtBroker(wAtt[w])
    /\ CanMove(wAtt[w], "ACKED", MarkAckedFrom)
    /\ Transition(wAtt[w], "ACKED", MarkAckedFrom)
    /\ Advance(w, "acked")
    /\ UNCHANGED <<now, decisionVars, attDec, started, nonceVars, holdAtt,
                   brokerVars, procVars>>

(* Mutant: silence is classified as a refusal. *)
SettleRejectedOnSilence(w) ==
    /\ pc[w] = "sent"
    /\ broker[wAtt[w]] \in {"refused", "wire"}
    /\ Transition(wAtt[w], "FAILED_CONFIRMED", SettleFrom)
    /\ Return(w)
    /\ UNCHANGED <<now, decisionVars, attDec, started, nonceVars, holdAtt,
                   brokerVars, procVars>>

(* DispatchRejected: a well-formed refusal arrived. *)
SettleRejected(w) ==
    /\ pc[w] = "sent"
    /\ broker[wAtt[w]] = "refused"
    /\ Transition(wAtt[w], "FAILED_CONFIRMED", SettleFrom)
    /\ Return(w)
    /\ UNCHANGED <<now, decisionVars, attDec, started, nonceVars, holdAtt,
                   brokerVars, procVars>>

(* Mutant: the retry budget is off by one. *)
RetryCancelOnceMore(w) ==
    /\ pc[w] = "sent"
    /\ ~IsEngine(w)
    /\ KindOf[wDec[w]] = "CANCEL"
    /\ broker[wAtt[w]] = "refused"
    /\ sends[wAtt[w]] <= MaxRetries + 1
    /\ Advance(w, "started")
    /\ UNCHANGED <<now, decisionVars, attState, attDec, started, nonceVars, hold,
                   holdAtt, brokerVars, procVars>>

(* withCancelRefusal: flatten re-sends a cancel the broker answered 409      *)
(* already-processing, through the whole dispatch closure again.             *)
RetryCancel(w) ==
    /\ pc[w] = "sent"
    /\ ~IsEngine(w)
    /\ KindOf[wDec[w]] = "CANCEL"
    /\ broker[wAtt[w]] = "refused"
    /\ sends[wAtt[w]] <= MaxRetries
    /\ Advance(w, "started")
    /\ UNCHANGED <<now, decisionVars, attState, attDec, started, nonceVars, hold,
                   holdAtt, brokerVars, procVars>>

(* DispatchAmbiguous: no answer, or one that proves nothing.  Flatten goes   *)
(* on to resolve its own doubtful cancel (resolveStep).                      *)
MarkInDoubt(w) ==
    /\ pc[w] = "sent"
    /\ Transition(wAtt[w], "IN_DOUBT", MarkInDoubtFrom)
    /\ IF ~IsEngine(w) /\ KindOf[wDec[w]] = "CANCEL"
          /\ CanMove(wAtt[w], "IN_DOUBT", MarkInDoubtFrom)
       THEN /\ pc' = [pc EXCEPT ![w] = "resolving"]
            /\ inflight' = [inflight EXCEPT ![ProcOf[w]] = @ \ {SymbolOf[wDec[w]]}]
            /\ UNCHANGED <<wDec, wAtt>>
       ELSE Return(w)
    /\ UNCHANGED <<now, decisionVars, attDec, started, nonceVars, holdAtt,
                   brokerVars, procVars>>

(* Settle CONFIRMED: the read-back found the order, or the mutation has none. *)
SettleConfirmed(w) ==
    /\ pc[w] = "acked"
    /\ Transition(wAtt[w], "CONFIRMED", SettleFrom)
    /\ Return(w)
    /\ UNCHANGED <<now, decisionVars, attDec, started, nonceVars, holdAtt,
                   brokerVars, procVars>>

(* confirmCreatedOrder could not read the order back: doubt, not success.    *)
RoundTripUnconfirmed(w) ==
    /\ pc[w] = "acked"
    /\ IsEngine(w)
    /\ KindOf[wDec[w]] = "PLACE"
    /\ Transition(wAtt[w], "IN_DOUBT", MarkInDoubtFrom)
    /\ Return(w)
    /\ UNCHANGED <<now, decisionVars, attDec, started, nonceVars, holdAtt,
                   brokerVars, procVars>>

-----------------------------------------------------------------------------
(* The broker.  A request on the wire may be taken up after its sender gave  *)
(* up waiting for the answer, or after the sender died.                      *)

BrokerMoves(a, from, to) ==
    /\ broker[a] = from
    /\ broker' = [broker EXCEPT ![a] = to]
    /\ UNCHANGED <<now, decisionVars, attState, attDec, started, nonceVars, hold,
                   holdAtt, sends, inflight, procVars, workerVars>>

BrokerAccepts(a) == BrokerMoves(a, "wire", "live")
BrokerRefuses(a) == BrokerMoves(a, "wire", "refused")
RequestLost(a)   == BrokerMoves(a, "wire", "lost")
OrderEnds(a)     == BrokerMoves(a, "live", "closed")

(* RecordFill: the fill path observed the end of a confirmed order and frees *)
(* the hold of the attempt that owns it.                                     *)
RecordTerminalFill(a) ==
    /\ broker[a] = "closed"
    /\ attState[a] = "CONFIRMED"
    /\ KindOf[attDec[a]] # "CANCEL"
    /\ hold' = ReleasedFor(a)
    /\ hold' # hold
    /\ UNCHANGED <<now, decisionVars, attState, attDec, started, nonceVars, holdAtt,
                   brokerVars, inflight, procVars, workerVars>>

-----------------------------------------------------------------------------
(* Resolution of doubt.  The resolver finds the order, proves it absent, or  *)
(* parks the attempt.  That a proof of absence is right (no request is still *)
(* travelling when the scans end) is the broker assumption Resolver.tla      *)
(* examines.                                                                 *)

ResolveConfirmed(a) ==
    /\ AtBroker(a)
    /\ Transition(a, "CONFIRMED", ResolveConfirmedFrom)
ResolveFailed(a) ==
    /\ broker[a] \in {"none", "refused", "lost"}
    /\ Transition(a, "FAILED_CONFIRMED", ResolveFailedFrom)
ResolveUnresolved(a) == Transition(a, "UNRESOLVED_IN_DOUBT", ResolveUnresolvedFrom)

Resolve(a) == ResolveConfirmed(a) \/ ResolveFailed(a) \/ ResolveUnresolved(a)

(* flatten's resolveStep, which runs after submit gave the symbol back.      *)
ResolveStep(w) ==
    /\ pc[w] = "resolving"
    /\ Resolve(wAtt[w])
    /\ pc' = [pc EXCEPT ![w] = "idle"]
    /\ wDec' = [wDec EXCEPT ![w] = NoDecision]
    /\ wAtt' = [wAtt EXCEPT ![w] = NoAttempt]
    /\ UNCHANGED <<now, decisionVars, attDec, started, nonceVars, holdAtt,
                   brokerVars, inflight, procVars>>

(* OperatorResolve: a human closes a parked attempt after looking at the     *)
(* broker.                                                                   *)
OperatorResolve(a) ==
    /\ attState[a] = "UNRESOLVED_IN_DOUBT"
    /\ \/ AtBroker(a) /\ Transition(a, "CONFIRMED", OperatorResolveFrom)
       \/ /\ broker[a] \in {"none", "refused", "lost"}
          /\ Transition(a, "FAILED_CONFIRMED", OperatorResolveFrom)
    /\ UNCHANGED <<now, decisionVars, attDec, started, nonceVars, holdAtt,
                   brokerVars, inflight, procVars, workerVars>>

(* OperatorReleaseReservation: any hold that is still HELD. *)
OperatorRelease(d) ==
    /\ hold[d] = "HELD"
    /\ hold' = [hold EXCEPT ![d] = "OPERATOR"]
    /\ UNCHANGED <<now, decisionVars, attState, attDec, started, nonceVars, holdAtt,
                   brokerVars, inflight, procVars, workerVars>>

-----------------------------------------------------------------------------
(* The life of a process. *)

GoTo(p, ph) == phase' = [phase EXCEPT ![p] = ph]

NothingListed == [a \in Attempts |-> "none"]

(* A process dies: its goroutines, claims and lists go with it, the journal  *)
(* and the requests already sent do not.  A failed start ends the same way.  *)
Stop(p) ==
    /\ GoTo(p, "down")
    /\ listed' = [listed EXCEPT ![p] = NothingListed]
    /\ inflight' = [inflight EXCEPT ![p] = {}]
    /\ pc' = [w \in Workers |-> IF ProcOf[w] = p THEN "idle" ELSE pc[w]]
    /\ wDec' = [w \in Workers |-> IF ProcOf[w] = p THEN NoDecision ELSE wDec[w]]
    /\ wAtt' = [w \in Workers |-> IF ProcOf[w] = p THEN NoAttempt ELSE wAtt[w]]

Crash(p) ==
    /\ phase[p] # "down"
    /\ Stop(p)
    /\ UNCHANGED <<now, decisionVars, attState, attDec, started, nonceVars, hold,
                   holdAtt, brokerVars>>

(* flatten-all opens the journal and goes to work. *)
StartFlatten(p) ==
    /\ p \notin Engines
    /\ phase[p] = "down"
    /\ GoTo(p, "ready")
    /\ UNCHANGED <<now, decisionVars, attState, attDec, started, nonceVars, hold,
                   holdAtt, brokerVars, inflight, listed, workerVars>>

(* The engine's start, first: SweepReservations.  It also frees the holds of *)
(* attempts that ended without exposure (sweepOrphanedTerminals).            *)
SweepReservations(p) ==
    /\ p \in Engines
    /\ phase[p] = "down"
    /\ hold' = [d \in Decisions |->
                  IF /\ SweptExpired[d] = "HELD"
                     /\ holdAtt[d] # NoAttempt
                     /\ ReleasesReservations(attState[holdAtt[d]])
                  THEN "BROKER_TERMINAL" ELSE SweptExpired[d]]
    /\ GoTo(p, "swept")
    /\ UNCHANGED <<now, decisionVars, attState, attDec, started, nonceVars, holdAtt,
                   brokerVars, inflight, listed, workerVars>>

(* Mutant: the retention is not widened to the longest TTL on disk. *)
PrunableByRetention(d) ==
    /\ spentAt[d] + Retention < now
    /\ hold[d] # "HELD"

(* Second: PruneSpentNonces, with the retention widened to the longest TTL   *)
(* on disk, keeping every nonce whose decision still owns a hold.            *)
Prunable(d) ==
    /\ spentAt[d] + Retention < now
    /\ \A e \in issued : spentAt[d] + TTLOf[e] < now
    /\ hold[d] # "HELD"

PruneSpentNonces(p) ==
    /\ phase[p] = "swept"
    /\ spent' = {d \in spent : ~Prunable(d)}
    /\ GoTo(p, "pruned")
    /\ UNCHANGED <<now, decisionVars, attState, attDec, started, spentAt, hold, holdAtt,
                   brokerVars, inflight, listed, workerVars>>

(* PendingAttempts, into the recovering process's memory. *)
ListPending(p, ph) ==
    /\ GoTo(p, ph)
    /\ listed' = [listed EXCEPT ![p] =
                    [a \in Attempts |-> IF attState[a] \in PendingStates
                                        THEN attState[a] ELSE "none"]]
    /\ UNCHANGED <<now, decisionVars, attState, attDec, started, nonceVars, hold,
                   holdAtt, brokerVars, inflight, workerVars>>

(* Third: RecoverPending reads its list ... *)
BeginRecovery(p) == phase[p] = "pruned" /\ ListPending(p, "recovering")

Unlist(p, a) == listed' = [listed EXCEPT ![p][a] = "none"]

(* ... and moves each row according to the state it read.  A move the row no *)
(* longer allows fails the whole start.                                      *)
RecoverOne(p, a) ==
    /\ phase[p] = "recovering"
    /\ listed[p][a] # "none"
    /\ LET to   == IF listed[p][a] = "RECORDED" THEN "NOT_DISPATCHED" ELSE "IN_DOUBT"
           from == IF listed[p][a] = "RECORDED" THEN SettleFrom ELSE MarkInDoubtFrom
       IN  CASE listed[p][a] \in {"ACKED", "IN_DOUBT"} ->
                  /\ Unlist(p, a)
                  /\ UNCHANGED <<attState, hold, phase, inflight, workerVars>>
             [] OTHER ->
                  /\ Transition(a, to, from)
                  /\ IF CanMove(a, to, from)
                     THEN Unlist(p, a) /\ UNCHANGED <<phase, inflight, workerVars>>
                     ELSE Stop(p)
    /\ UNCHANGED <<now, decisionVars, attDec, started, nonceVars, holdAtt, brokerVars>>

(* Recovery.Run lists again, to settle what is in doubt. *)
BeginResolution(p) ==
    /\ phase[p] = "recovering"
    /\ listed[p] = NothingListed
    /\ ListPending(p, "resolving")

(* Mutant: a row the resolver could not read is skipped. *)
ResolveOneOrSkip(p, a) ==
    /\ phase[p] = "resolving"
    /\ listed[p][a] # "none"
    /\ \/ listed[p][a] = "IN_DOUBT" /\ Resolve(a)
       \/ UNCHANGED <<attState, hold>>
    /\ Unlist(p, a)
    /\ UNCHANGED <<now, decisionVars, attDec, started, nonceVars, holdAtt, brokerVars,
                   inflight, phase, workerVars>>

(* An IN_DOUBT row goes through the resolver; an ACKED PLACE is confirmed if *)
(* the recorded order number reads back; everything else stays pending.      *)
ResolveOne(p, a) ==
    /\ phase[p] = "resolving"
    /\ listed[p][a] # "none"
    /\ \/ listed[p][a] = "IN_DOUBT" /\ Resolve(a)
       \/ /\ listed[p][a] = "ACKED"
          /\ KindOf[attDec[a]] = "PLACE"
          /\ ResolveConfirmed(a)
       \/ /\ listed[p][a] # "IN_DOUBT"
          /\ UNCHANGED <<attState, hold>>
    /\ Unlist(p, a)
    /\ UNCHANGED <<now, decisionVars, attDec, started, nonceVars, holdAtt, brokerVars,
                   inflight, phase, workerVars>>

(* Mutant: the engine is ready before it has gone through its list. *)
FinishRecoveryEarly(p) ==
    /\ phase[p] = "resolving"
    /\ GoTo(p, "ready")
    /\ UNCHANGED <<now, decisionVars, attState, attDec, started, nonceVars, hold,
                   holdAtt, brokerVars, inflight, listed, workerVars>>

FinishRecovery(p) ==
    /\ phase[p] = "resolving"
    /\ listed[p] = NothingListed
    /\ GoTo(p, "ready")
    /\ UNCHANGED <<now, decisionVars, attState, attDec, started, nonceVars, hold,
                   holdAtt, brokerVars, inflight, listed, workerVars>>

-----------------------------------------------------------------------------
WorkerStep(w) ==
    \/ CheckUnsettled(w) \/ CheckUnresolved(w) \/ CheckUnspent(w)
    \/ \E a \in Attempts : Prepare(w, a)
    \/ ReturnUnrecorded(w)
    \/ CheckDecision(w) \/ CheckReservation(w) \/ Refuse(w)
    \/ MarkDispatchStarted(w) \/ NonceSpent(w) \/ JournalError(w)
    \/ RecheckDecision(w) \/ RecheckReservation(w) \/ NotSent(w) \/ Send(w)
    \/ MarkAcked(w) \/ SettleRejected(w) \/ RetryCancel(w) \/ MarkInDoubt(w)
    \/ SettleConfirmed(w) \/ RoundTripUnconfirmed(w)
    \/ ResolveStep(w)

BrokerStep(a) ==
    \/ BrokerAccepts(a) \/ BrokerRefuses(a) \/ RequestLost(a) \/ OrderEnds(a)
    \/ RecordTerminalFill(a)

StartStep(p) ==
    \/ StartFlatten(p)
    \/ SweepReservations(p) \/ PruneSpentNonces(p)
    \/ BeginRecovery(p)
    \/ \E a \in Attempts : RecoverOne(p, a)
    \/ BeginResolution(p)
    \/ \E a \in Attempts : ResolveOne(p, a)
    \/ FinishRecovery(p)

Next ==
    \/ Tick
    \/ \E d \in Decisions : IssueDecision(d) \/ OperatorRelease(d)
    \/ \E w \in Workers : WorkerStep(w) \/ \E d \in Decisions : Submit(w, d)
    \/ \E a \in Attempts : BrokerStep(a) \/ OperatorResolve(a)
    \/ \E p \in Procs : StartStep(p) \/ Crash(p)

Spec == Init /\ [][Next]_vars

(* Only the clock has to run.  Nothing obliges a goroutine to finish, the      *)
(* broker to answer or a stopped engine to be started again: what the         *)
(* liveness results need of those they state as a hypothesis.                 *)
Fairness == WF_vars(Tick)

FairSpec == Spec /\ Fairness

-----------------------------------------------------------------------------
(* Safety, for any number of processes. *)

(* One authorisation reaches the broker at most once: no two attempts of the *)
(* same decision both call the broker, across retries, crashes, restarts,    *)
(* nonce pruning and other processes (checkDecisionUnspent, the key index,   *)
(* consumeDecisionNonce, the re-check in the dispatch closure).              *)
AuthorisedOnce ==
    \A a, b \in Attempts :
        (sends[a] > 0 /\ sends[b] > 0 /\ attDec[a] = attDec[b]) => a = b

(* No attempt is sent twice, except a cancel inside withCancelRefusal, which *)
(* stays inside its retry budget.                                            *)
NoResend ==
    \A a \in Attempts :
        sends[a] <= IF attDec[a] \in Decisions /\ KindOf[attDec[a]] = "CANCEL"
                    THEN 1 + MaxRetries ELSE 1

(* The evidence that a request may have left survives until the decision can *)
(* no longer be used: a started attempt whose nonce was pruned belongs to an *)
(* expired decision (PruneSpentNonces, MaxDecisionTTL).                      *)
NonceEvidence ==
    \A a \in started : attDec[a] \in spent \/ Expired(attDec[a])

(* CONFIRMED is only ever recorded for a mutation the broker took            *)
(* (DispatchVerified, confirmCreatedOrder, confirmAcked, ResolveConfirmed).  *)
ConfirmedIsReal ==
    \A a \in Attempts : attState[a] = "CONFIRMED" => AtBroker(a)

(* Safety, when one process owns the journal. *)

(* An attempt closed as "it did not happen" has no order at the broker and   *)
(* no request on its way there (releasesReservations frees headroom on it).  *)
ClosedMeansNoOrder ==
    \A a \in Attempts :
        attState[a] \in {"NOT_DISPATCHED", "FAILED_CONFIRMED"}
            => broker[a] \notin {"wire", "live", "closed"}

(* While an entry is travelling or open at the broker its hold still counts  *)
(* against the limits, unless an operator released it by hand (the sweeps,   *)
(* PruneSpentNonces, releaseReservationsForAttempt, bindReservationsToAttempt). *)
HeldWhileExposed ==
    \A a \in Attempts :
        (attDec[a] \in Raising /\ broker[a] \in {"wire", "live"})
            => hold[attDec[a]] \in {"HELD", "OPERATOR"}

(* One unsettled mutation per symbol, the uniqueness the IN_DOUBT fingerprint *)
(* match depends on (claimSymbol, checkSymbolFree).                          *)
OneInFlightPerSymbol ==
    \A s \in Symbols : \A a, b \in UnsettledOn(s) : a = b

(* No new exposure is sent on a symbol that has a parked attempt             *)
(* (checkSymbolFree).                                                        *)
NoEntryOverParked ==
    [][\A a \in Attempts :
          (sends'[a] > sends[a] /\ attDec[a] \in Raising)
              => UnresolvedOn(SymbolOf[attDec[a]]) = {}]_vars

(* An engine that becomes ready has left no attempt unsent-but-open or in    *)
(* doubt: what is still pending is an acknowledged mutation (Recovery.Run).  *)
ReadyMeansRecovered ==
    [][\A p \in Engines :
          (phase[p] # "ready" /\ phase'[p] = "ready")
              => \A a \in Attempts : attState[a] \in PendingStates
                                        => attState[a] = "ACKED"]_vars

(* Liveness, as long as the engine is stopped and brought back to ready again *)
(* and again.                                                                 *)
Restarts(p) == []<>(phase[p] = "down") /\ []<>(phase[p] = "ready")

(* Headroom is not leaked: a hold whose decision never starts a dispatch is   *)
(* given back (sweepExpiredUnconsumed, sweepOrphanedTerminals, the release    *)
(* in transition).                                                            *)
HoldsReturn ==
    \A p \in Engines : Restarts(p) => \A d \in Decisions :
        hold[d] = "HELD" ~> \/ hold[d] # "HELD"
                            \/ \E a \in started : attDec[a] = d

(* A symbol is not blocked for ever by an attempt nobody finishes: every      *)
(* attempt leaves RECORDED, DISPATCH_STARTED and IN_DOUBT (RecoverPending,    *)
(* Recovery.Run).                                                             *)
DoubtSettles ==
    \A p \in Engines : Restarts(p) => \A a \in Attempts :
        attState[a] \in {"RECORDED", "DISPATCH_STARTED", "IN_DOUBT"}
            ~> attState[a] \notin {"RECORDED", "DISPATCH_STARTED", "IN_DOUBT"}
=============================================================================
