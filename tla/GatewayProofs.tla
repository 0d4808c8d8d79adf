--------------------------- MODULE GatewayProofs ---------------------------
(***************************************************************************)
(* Proofs about the order path, for every number of processes, workers,     *)
(* decisions, attempts and symbols, every clock bound and any crash.        *)
(* First what holds for any processes on the journal: spent authorisations, *)
(* bounded resends, the evidence nonces keep.  Then what the order path     *)
(* concludes: that CONFIRMED is real, for any processes, and, when one      *)
(* process owns the journal (what the engine lock gives the engine), that   *)
(* closed rows have no order, that holds cover exposure, and that the path  *)
(* implements OrderOnce.                                                    *)
(***************************************************************************)
EXTENDS GatewayInv, GatewayOnce, TLAPS

USE DEF decisionVars, nonceVars, brokerVars, procVars, workerVars

-----------------------------------------------------------------------------
(* A journal move keeps the tables well typed and neither creates nor removes *)
(* a row (Attempt.transition).                                               *)
LEMMA TransitionFacts ==
    ASSUME TypeOK, NEW a, NEW to \in AttemptStates, NEW from \in SUBSET AttemptStates,
           Transition(a, to, from)
    PROVE  /\ attState' \in [Attempts -> RowStates]
           /\ hold' \in [Decisions -> HoldStates]
           /\ \A b \in Attempts : attState'[b] = "none" <=> attState[b] = "none"
  <1>1. attState \in [Attempts -> RowStates] /\ hold \in [Decisions -> HoldStates]
    BY DEF TypeOK
  <1>2. "none" \notin AttemptStates /\ RowStates = AttemptStates \cup {"none"}
    BY DEF AttemptStates, RowStates
  <1>3. ReleasedFor(a) \in [Decisions -> HoldStates]
    BY <1>1 DEF ReleasedFor, HoldStates
  <1>4. CASE CanMove(a, to, from)
    <2>1. attState[a] \in from /\ attState' = [attState EXCEPT ![a] = to]
      BY <1>4 DEF CanMove, TransitionAllowed, Transition
    <2>2. hold' \in [Decisions -> HoldStates]
      BY <1>1, <1>3, <1>4 DEF Transition
    <2> QED BY <1>1, <1>2, <2>1, <2>2
  <1>5. CASE ~CanMove(a, to, from)
    BY <1>1, <1>5 DEF Transition
  <1> QED BY <1>4, <1>5

(* The from-sets and targets the code uses are attempt states. *)
LEMMA FromSets ==
    /\ MarkDispatchStartedFrom \in SUBSET AttemptStates
    /\ MarkAckedFrom \in SUBSET AttemptStates
    /\ MarkInDoubtFrom \in SUBSET AttemptStates
    /\ SettleFrom \in SUBSET AttemptStates
    /\ ResolveConfirmedFrom \in SUBSET AttemptStates
    /\ ResolveFailedFrom \in SUBSET AttemptStates
    /\ ResolveUnresolvedFrom \in SUBSET AttemptStates
    /\ OperatorResolveFrom \in SUBSET AttemptStates
    /\ {"DISPATCH_STARTED", "ACKED", "IN_DOUBT", "CONFIRMED", "NOT_DISPATCHED",
        "FAILED_CONFIRMED", "UNRESOLVED_IN_DOUBT"} \subseteq AttemptStates
  BY DEF MarkDispatchStartedFrom, MarkAckedFrom, MarkInDoubtFrom, SettleFrom,
         ResolveConfirmedFrom, ResolveFailedFrom, ResolveUnresolvedFrom,
         OperatorResolveFrom, AttemptStates

-----------------------------------------------------------------------------
(* Type correctness.  It needs to know that a worker's handle is a real one  *)
(* (HandleOK), because MarkDispatchStarted writes through it.                *)

(* The program points a worker moves to, and which of them hold an attempt.   *)
LEMMA Points ==
    /\ {"idle", "nopending", "free", "unspent", "prepared", "decided", "reserved",
        "started", "rechecked", "cleared", "sent", "acked", "resolving"} \subseteq PCs
    /\ {"prepared", "decided", "reserved", "started", "rechecked", "cleared", "sent",
        "acked", "resolving"} \subseteq HasAttempt
  BY DEF PCs, HasAttempt, BeforeRecord, Recorded, BeforeSend, Dispatching

(* Moves of a worker that touch no table keep the worker's own state typed.   *)
LEMMA AdvanceType ==
    ASSUME TypeOK, NEW w \in Workers, NEW to \in PCs, Advance(w, to)
    PROVE  /\ pc' \in [Workers -> PCs]
           /\ wDec' \in [Workers -> Decisions \cup {NoDecision}]
           /\ wAtt' \in [Workers -> Attempts \cup {NoAttempt}]
           /\ inflight' \in [Procs -> SUBSET Symbols]
  BY DEF TypeOK, Advance

(* submit returning, with its deferred releaseSymbol, keeps them typed.      *)
LEMMA ReturnType ==
    ASSUME TypeOK, NEW w \in Workers, Return(w)
    PROVE  /\ pc' \in [Workers -> PCs]
           /\ wDec' \in [Workers -> Decisions \cup {NoDecision}]
           /\ wAtt' \in [Workers -> Attempts \cup {NoAttempt}]
           /\ inflight' \in [Procs -> SUBSET Symbols]
  <1>1. "idle" \in PCs
    BY DEF PCs
  <1> QED BY <1>1 DEF TypeOK, Return

(* So does a process that dies or fails its start (Recovery.Run).            *)
LEMMA StopType ==
    ASSUME TypeOK, NEW p \in Procs, Stop(p)
    PROVE  /\ pc' \in [Workers -> PCs]
           /\ wDec' \in [Workers -> Decisions \cup {NoDecision}]
           /\ wAtt' \in [Workers -> Attempts \cup {NoAttempt}]
           /\ inflight' \in [Procs -> SUBSET Symbols]
           /\ phase' \in [Procs -> Phases]
           /\ listed' \in [Procs -> [Attempts -> RowStates]]
  <1>1. "idle" \in PCs /\ "down" \in Phases /\ NothingListed \in [Attempts -> RowStates]
    BY DEF PCs, Phases, NothingListed, RowStates
  <1> QED BY <1>1 DEF TypeOK, Stop, GoTo

(* A step of a worker keeps the types. *)
LEMMA WorkerType ==
    ASSUME TypeOK, HandleOK, NEW w \in Workers, WorkerStep(w)
    PROVE  TypeOK'
  <1>1. CASE CheckUnsettled(w)
    BY <1>1, AdvanceType, Points DEF CheckUnsettled, TypeOK
  <1>2. CASE CheckUnresolved(w)
    BY <1>2, AdvanceType, Points DEF CheckUnresolved, TypeOK
  <1>3. CASE CheckUnspent(w)
    BY <1>3, AdvanceType, Points DEF CheckUnspent, TypeOK
  <1>4. CASE CheckDecision(w)
    BY <1>4, AdvanceType, Points DEF CheckDecision, TypeOK
  <1>5. CASE CheckReservation(w)
    BY <1>5, AdvanceType, Points DEF CheckReservation, TypeOK
  <1>6. CASE RecheckDecision(w)
    BY <1>6, AdvanceType, Points DEF RecheckDecision, TypeOK
  <1>7. CASE RecheckReservation(w)
    BY <1>7, AdvanceType, Points DEF RecheckReservation, TypeOK
  <1>8. CASE RetryCancel(w)
    BY <1>8, AdvanceType, Points DEF RetryCancel, TypeOK
  <1>9. CASE ReturnUnrecorded(w)
    BY <1>9, ReturnType DEF ReturnUnrecorded, TypeOK
  <1>10. CASE JournalError(w)
    BY <1>10, ReturnType DEF JournalError, TypeOK
  <1>11. CASE Refuse(w)
    BY <1>11, ReturnType, TransitionFacts, FromSets DEF Refuse, TypeOK
  <1>12. CASE NonceSpent(w)
    BY <1>12, ReturnType, TransitionFacts, FromSets DEF NonceSpent, TypeOK
  <1>13. CASE SettleRejected(w)
    BY <1>13, ReturnType, TransitionFacts, FromSets DEF SettleRejected, TypeOK
  <1>14. CASE SettleConfirmed(w)
    BY <1>14, ReturnType, TransitionFacts, FromSets DEF SettleConfirmed, TypeOK
  <1>15. CASE RoundTripUnconfirmed(w)
    BY <1>15, ReturnType, TransitionFacts, FromSets DEF RoundTripUnconfirmed, TypeOK
  <1>16. CASE \E a \in Attempts : Prepare(w, a)
    <2>1. PICK a \in Attempts : Prepare(w, a)
      BY <1>16
    <2>2. "RECORDED" \in RowStates
      BY DEF RowStates, AttemptStates
    <2>3. holdAtt' \in [Decisions -> Attempts \cup {NoAttempt}]
      BY <2>1 DEF Prepare, TypeOK
    <2>4. attState' \in [Attempts -> RowStates]
      BY <2>1, <2>2 DEF Prepare, TypeOK
    <2>5. attDec' \in [Attempts -> Decisions \cup {NoDecision}]
      BY <2>1 DEF Prepare, TypeOK
    <2>6. /\ pc' \in [Workers -> PCs]
          /\ wAtt' \in [Workers -> Attempts \cup {NoAttempt}]
      BY <2>1, Points DEF Prepare, TypeOK
    <2> QED BY <2>1, <2>3, <2>4, <2>5, <2>6 DEF Prepare, TypeOK
  <1>17. CASE MarkDispatchStarted(w)
    BY ZenonT(30), <1>17, AdvanceType, TransitionFacts, FromSets, Points DEF MarkDispatchStarted, TypeOK, HandleOK
  <1>18. CASE NotSent(w)
    BY <1>18, ReturnType, TransitionFacts, FromSets DEF NotSent, TypeOK
  <1>19. CASE Send(w)
    BY <1>19, AdvanceType, Points DEF Send, TypeOK, HandleOK, BrokerStates
  <1>20. CASE MarkAcked(w)
    BY <1>20, AdvanceType, TransitionFacts, FromSets, Points DEF MarkAcked, TypeOK
  <1>21. CASE MarkInDoubt(w)
    <2>1. attState' \in [Attempts -> RowStates] /\ hold' \in [Decisions -> HoldStates]
      BY <1>21, TransitionFacts, FromSets DEF MarkInDoubt
    <2>2. /\ pc' \in [Workers -> PCs]
          /\ wDec' \in [Workers -> Decisions \cup {NoDecision}]
          /\ wAtt' \in [Workers -> Attempts \cup {NoAttempt}]
          /\ inflight' \in [Procs -> SUBSET Symbols]
      <3>1. CASE Return(w)
        BY <3>1, ReturnType
      <3>2. CASE ~Return(w)
        BY <1>21, <3>2, Points DEF MarkInDoubt, TypeOK
      <3> QED BY <3>1, <3>2
    <2> QED BY <1>21, <2>1, <2>2 DEF MarkInDoubt, TypeOK
  <1>22. CASE ResolveStep(w)
    <2>1. Resolve(wAtt[w])
      BY <1>22 DEF ResolveStep
    <2>2. attState' \in [Attempts -> RowStates] /\ hold' \in [Decisions -> HoldStates]
      BY <2>1, TransitionFacts, FromSets
         DEF Resolve, ResolveConfirmed, ResolveFailed, ResolveUnresolved
    <2> QED BY <1>22, <2>2, Points DEF ResolveStep, TypeOK
  <1> QED BY <1>1, <1>2, <1>3, <1>4, <1>5, <1>6, <1>7, <1>8, <1>9, <1>10, <1>11, <1>12, <1>13, <1>14, <1>15, <1>16, <1>17, <1>18, <1>19, <1>20, <1>21, <1>22 DEF WorkerStep

(* A step of the broker, or of an operator, keeps the types. *)
LEMMA OutsideType ==
    ASSUME TypeOK, NEW a \in Attempts, BrokerStep(a) \/ OperatorResolve(a)
    PROVE  TypeOK'
  <1>1. CASE BrokerAccepts(a) \/ BrokerRefuses(a) \/ RequestLost(a) \/ OrderEnds(a)
    BY <1>1 DEF BrokerAccepts, BrokerRefuses, RequestLost, OrderEnds, BrokerMoves,
                TypeOK, BrokerStates
  <1>2. CASE RecordTerminalFill(a)
    <2>1. ReleasedFor(a) \in [Decisions -> HoldStates]
      BY DEF ReleasedFor, TypeOK, HoldStates
    <2> QED BY <1>2, <2>1 DEF RecordTerminalFill, TypeOK
  <1>3. CASE OperatorResolve(a)
    BY <1>3, TransitionFacts, FromSets DEF OperatorResolve, TypeOK
  <1> QED BY <1>1, <1>2, <1>3 DEF BrokerStep

(* A step of a starting process keeps the types. *)
LEMMA StartType ==
    ASSUME TypeOK, NEW p \in Procs, StartStep(p) \/ Crash(p)
    PROVE  TypeOK'
  <1> USE DEF GoTo
  <1>0. Phases = {"down", "swept", "pruned", "recovering", "resolving", "ready"}
    BY DEF Phases
  <1>1. CASE StartFlatten(p)
    BY <1>0, <1>1 DEF StartFlatten, TypeOK
  <1>2. CASE SweepReservations(p)
    <2>1. hold' \in [Decisions -> HoldStates]
      BY <1>2 DEF SweepReservations, SweptExpired, TypeOK, HoldStates
    <2> QED BY <1>0, <1>2, <2>1 DEF SweepReservations, TypeOK
  <1>3. CASE PruneSpentNonces(p)
    BY <1>0, <1>3 DEF PruneSpentNonces, TypeOK
  <1>4. ASSUME NEW ph \in Phases, ListPending(p, ph)
        PROVE  TypeOK'
    BY <1>4 DEF ListPending, TypeOK, RowStates
  <1>5. CASE BeginRecovery(p) \/ BeginResolution(p)
    BY <1>0, <1>4, <1>5 DEF BeginRecovery, BeginResolution
  <1>6. ASSUME NEW a \in Attempts, Unlist(p, a)
        PROVE  listed' \in [Procs -> [Attempts -> RowStates]]
    BY <1>6 DEF Unlist, TypeOK, RowStates
  <1>7. ASSUME NEW a \in Attempts, RecoverOne(p, a)
        PROVE  TypeOK'
    <2>1. CASE listed[p][a] \in {"ACKED", "IN_DOUBT"}
      BY <1>6, <1>7, <2>1 DEF RecoverOne, TypeOK
    <2>2. CASE listed[p][a] \notin {"ACKED", "IN_DOUBT"}
      <3> DEFINE to == IF listed[p][a] = "RECORDED" THEN "NOT_DISPATCHED" ELSE "IN_DOUBT"
                 from == IF listed[p][a] = "RECORDED" THEN SettleFrom ELSE MarkInDoubtFrom
      <3>1. Transition(a, to, from) /\ to \in AttemptStates /\ from \in SUBSET AttemptStates
        BY <1>7, <2>2, FromSets DEF RecoverOne
      <3>2. attState' \in [Attempts -> RowStates] /\ hold' \in [Decisions -> HoldStates]
        BY <3>1, TransitionFacts
      <3>3. \/ Unlist(p, a) /\ UNCHANGED <<phase, inflight, workerVars>>
            \/ Stop(p)
        BY <1>7, <2>2 DEF RecoverOne
      <3> QED BY <1>6, <1>7, <3>2, <3>3, StopType DEF RecoverOne, TypeOK
    <2> QED BY <2>1, <2>2
  <1>8. ASSUME NEW a \in Attempts, ResolveOne(p, a)
        PROVE  TypeOK'
    <2>1. Resolve(a) \/ ResolveConfirmed(a) \/ UNCHANGED <<attState, hold>>
      BY <1>8 DEF ResolveOne
    <2>2. attState' \in [Attempts -> RowStates] /\ hold' \in [Decisions -> HoldStates]
      BY <2>1, TransitionFacts, FromSets
         DEF Resolve, ResolveConfirmed, ResolveFailed, ResolveUnresolved, TypeOK
    <2> QED BY <1>6, <1>8, <2>2 DEF ResolveOne, TypeOK
  <1>9. CASE FinishRecovery(p)
    BY <1>0, <1>9 DEF FinishRecovery, TypeOK
  <1>10. CASE Crash(p)
    BY <1>10, StopType DEF Crash, TypeOK
  <1> QED BY <1>1, <1>2, <1>3, <1>5, <1>7, <1>8, <1>9, <1>10 DEF StartStep

(* Every step keeps the types, given that handles are real. *)
LEMMA TypeStep ==
    ASSUME TypeOK, HandleOK, [Next]_vars
    PROVE  TypeOK'
  <1>1. CASE Tick
    BY <1>1 DEF Tick, TypeOK
  <1>2. ASSUME NEW d \in Decisions, IssueDecision(d)
        PROVE  TypeOK'
    <2>1. SweptExpired \in [Decisions -> HoldStates] /\ "HELD" \in HoldStates
      BY DEF SweptExpired, TypeOK, HoldStates
    <2>2. TTLOf[d] \in Nat /\ now \in Nat
      BY TimeAssumption DEF TypeOK
    <2>3. expiresAt' \in [Decisions -> Nat]
      BY <1>2, <2>2 DEF IssueDecision, TypeOK
    <2>4. hold' \in [Decisions -> HoldStates]
      BY <1>2, <2>1 DEF IssueDecision, TypeOK
    <2> QED BY <1>2, <2>3, <2>4 DEF IssueDecision, TypeOK
  <1>3. ASSUME NEW d \in Decisions, OperatorRelease(d)
        PROVE  TypeOK'
    BY <1>3 DEF OperatorRelease, TypeOK, HoldStates
  <1>4. ASSUME NEW w \in Workers, NEW d \in Decisions, Submit(w, d)
        PROVE  TypeOK'
    <2>1. "claimed" \in PCs /\ SymbolOf[d] \in Symbols
      BY DecisionAssumption DEF PCs, BeforeRecord
    <2> QED BY <1>4, <2>1 DEF Submit, TypeOK
  <1>5. CASE UNCHANGED vars
    BY <1>5 DEF vars, TypeOK
  <1> QED BY <1>1, <1>2, <1>3, <1>4, <1>5, WorkerType, OutsideType, StartType DEF Next

-----------------------------------------------------------------------------
(* The steps that cannot disturb the invariant: they leave the clock, the     *)
(* decisions, the nonces, the dispatch record and the broker calls alone, and *)
(* move workers only back to idle or forward without gaining a right.         *)
QuietWorker(w) ==
    \/ pc'[w] = "idle"
    \/ /\ pc[w] # "idle"
       /\ wDec'[w] = wDec[w]
       /\ wAtt'[w] = wAtt[w]
       /\ pc'[w] \in HasAttempt <=> pc[w] \in HasAttempt
       /\ pc'[w] \in Recorded <=> pc[w] \in Recorded
       /\ pc'[w] \in BeforeSend => pc[w] \in BeforeSend
       /\ pc'[w] \in {"rechecked", "cleared"} => pc[w] \in {"rechecked", "cleared"}

Quiet ==
    /\ UNCHANGED <<now, issued, expiresAt, attDec, started, spent, spentAt, sends>>
    /\ \A a \in Attempts : attState'[a] = "none" <=> attState[a] = "none"
    /\ \A w \in Workers : QuietWorker(w)

(* The regions of submit, spelled out. *)
LEMMA Regions ==
    /\ HasAttempt = {"prepared", "decided", "reserved", "started", "rechecked",
                     "cleared", "sent", "acked", "resolving"}
    /\ Recorded = {"prepared", "decided", "reserved"}
    /\ BeforeSend = {"started", "rechecked", "cleared"}
    /\ BeforeRecord = {"claimed", "nopending", "free", "unspent"}
    /\ Dispatching = {"started", "rechecked", "cleared", "sent"}
  BY DEF HasAttempt, Recorded, BeforeSend, BeforeRecord, Dispatching

(* A quiet step preserves the invariant. *)
LEMMA QuietStep ==
    ASSUME IInv, TypeOK', Quiet
    PROVE  IInv'
  <1>0. /\ TypeOK /\ HandleOK /\ HandleUnique /\ RowOK /\ DispatchOK /\ NonceOK
        /\ NonceEvidence /\ StartedTwice /\ ClearedOnce /\ SendBudget
    BY DEF IInv
  <1>1. HandleOK'
    BY <1>0, Regions DEF Quiet, QuietWorker, HandleOK
  <1>2. HandleUnique'
    BY <1>0, Regions DEF Quiet, QuietWorker, HandleUnique
  <1>3. RowOK'
    BY <1>0 DEF Quiet, RowOK
  <1>4. DispatchOK'
    BY <1>0, Regions DEF Quiet, QuietWorker, DispatchOK
  <1>5. NonceOK' /\ NonceEvidence' /\ StartedTwice'
    BY <1>0 DEF Quiet, NonceOK, NonceEvidence, StartedTwice, Expired
  <1>6. \A a \in Attempts : Cleared(a)' => Cleared(a)
    BY <1>0 DEF Quiet, QuietWorker, Cleared
  <1>7. ClearedOnce'
    BY <1>0, <1>6 DEF ClearedOnce, Quiet
  <1>8. SendBudget'
    BY <1>0, Regions DEF SendBudget, Quiet, QuietWorker, Budget
  <1> QED BY <1>1, <1>2, <1>3, <1>4, <1>5, <1>7, <1>8 DEF IInv

(* A worker step other than Prepare, MarkDispatchStarted, RecheckDecision,    *)
(* Send and RetryCancel is quiet.                                             *)
QuietWorkerStep(w) ==
    \/ CheckUnsettled(w) \/ CheckUnresolved(w) \/ CheckUnspent(w)
    \/ ReturnUnrecorded(w) \/ CheckDecision(w) \/ CheckReservation(w) \/ Refuse(w)
    \/ NonceSpent(w) \/ JournalError(w) \/ RecheckReservation(w) \/ NotSent(w)
    \/ MarkAcked(w) \/ SettleRejected(w) \/ MarkInDoubt(w)
    \/ SettleConfirmed(w) \/ RoundTripUnconfirmed(w) \/ ResolveStep(w)

(* submit returning is quiet for the worker that returns and the others.      *)
LEMMA ReturnQuiet ==
    ASSUME TypeOK, NEW w \in Workers, Return(w)
    PROVE  \A v \in Workers : QuietWorker(v)
  BY Regions DEF TypeOK, Return, QuietWorker, PCs

(* The steps of submit in QuietWorkerStep are quiet.                          *)
LEMMA WorkerQuiet ==
    ASSUME TypeOK, NEW w \in Workers, QuietWorkerStep(w)
    PROVE  Quiet
  <1>1. CASE CheckUnsettled(w)
    BY <1>1, Regions DEF CheckUnsettled, Advance, Quiet, QuietWorker, TypeOK, PCs
  <1>2. CASE CheckUnresolved(w)
    BY <1>2, Regions DEF CheckUnresolved, Advance, Quiet, QuietWorker, TypeOK, PCs
  <1>3. CASE CheckUnspent(w)
    BY <1>3, Regions DEF CheckUnspent, Advance, Quiet, QuietWorker, TypeOK, PCs
  <1>4. CASE CheckDecision(w)
    BY <1>4, Regions DEF CheckDecision, Advance, Quiet, QuietWorker, TypeOK, PCs
  <1>5. CASE CheckReservation(w)
    BY <1>5, Regions DEF CheckReservation, Advance, Quiet, QuietWorker, TypeOK, PCs
  <1>6. CASE RecheckReservation(w)
    BY <1>6, Regions DEF RecheckReservation, Advance, Quiet, QuietWorker, TypeOK, PCs
  <1>7. CASE ReturnUnrecorded(w)
    BY <1>7, ReturnQuiet DEF ReturnUnrecorded, Quiet
  <1>8. CASE JournalError(w)
    BY <1>8, ReturnQuiet DEF JournalError, Quiet
  <1>9. CASE Refuse(w)
    BY <1>9, ReturnQuiet, TransitionFacts, FromSets DEF Refuse, Quiet
  <1>10. CASE NonceSpent(w)
    BY <1>10, ReturnQuiet, TransitionFacts, FromSets DEF NonceSpent, Quiet
  <1>11. CASE NotSent(w)
    BY <1>11, ReturnQuiet, TransitionFacts, FromSets DEF NotSent, Quiet
  <1>12. CASE SettleRejected(w)
    BY <1>12, ReturnQuiet, TransitionFacts, FromSets DEF SettleRejected, Quiet
  <1>13. CASE SettleConfirmed(w)
    BY <1>13, ReturnQuiet, TransitionFacts, FromSets DEF SettleConfirmed, Quiet
  <1>14. CASE RoundTripUnconfirmed(w)
    BY <1>14, ReturnQuiet, TransitionFacts, FromSets DEF RoundTripUnconfirmed, Quiet
  <1>15. CASE MarkAcked(w)
    <2>1. \A b \in Attempts : attState'[b] = "none" <=> attState[b] = "none"
      BY <1>15, TransitionFacts, FromSets DEF MarkAcked
    <2> QED BY <1>15, <2>1, Regions DEF MarkAcked, Advance, Quiet, QuietWorker, TypeOK, PCs
  <1>16. CASE MarkInDoubt(w)
    <2>1. \A b \in Attempts : attState'[b] = "none" <=> attState[b] = "none"
      BY <1>16, TransitionFacts, FromSets DEF MarkInDoubt
    <2>2. \A v \in Workers : QuietWorker(v)
      <3>1. CASE Return(w)
        BY <3>1, ReturnQuiet
      <3>2. CASE ~Return(w)
        BY <1>16, <3>2, Regions DEF MarkInDoubt, QuietWorker, TypeOK, PCs
      <3> QED BY <3>1, <3>2
    <2> QED BY <1>16, <2>1, <2>2 DEF MarkInDoubt, Quiet
  <1>17. CASE ResolveStep(w)
    <2>1. Resolve(wAtt[w])
      BY <1>17 DEF ResolveStep
    <2>2. \A b \in Attempts : attState'[b] = "none" <=> attState[b] = "none"
      BY <2>1, TransitionFacts, FromSets
         DEF Resolve, ResolveConfirmed, ResolveFailed, ResolveUnresolved
    <2> QED BY <1>17, <2>2, Regions DEF ResolveStep, Quiet, QuietWorker, TypeOK, PCs
  <1> QED BY <1>1, <1>2, <1>3, <1>4, <1>5, <1>6, <1>7, <1>8, <1>9, <1>10, <1>11, <1>12, <1>13, <1>14, <1>15, <1>16, <1>17 DEF QuietWorkerStep

(* The broker and the operators are quiet. *)
LEMMA OutsideQuiet ==
    ASSUME TypeOK, NEW a \in Attempts, BrokerStep(a) \/ OperatorResolve(a)
    PROVE  Quiet
  <1>1. CASE BrokerAccepts(a) \/ BrokerRefuses(a) \/ RequestLost(a) \/ OrderEnds(a)
    BY <1>1 DEF BrokerAccepts, BrokerRefuses, RequestLost, OrderEnds, BrokerMoves,
                Quiet, QuietWorker
  <1>2. CASE RecordTerminalFill(a)
    BY <1>2 DEF RecordTerminalFill, Quiet, QuietWorker
  <1>3. CASE OperatorResolve(a)
    BY <1>3, TransitionFacts, FromSets DEF OperatorResolve, Quiet, QuietWorker
  <1> QED BY <1>1, <1>2, <1>3 DEF BrokerStep

(* A process that stops gives its workers no right (Stop).                    *)
LEMMA StopQuiet ==
    ASSUME TypeOK, NEW p \in Procs, Stop(p)
    PROVE  \A v \in Workers : QuietWorker(v)
  BY Regions DEF TypeOK, Stop, QuietWorker, PCs

(* Nor does a start, up to and after PruneSpentNonces (Recovery.Run).         *)
LEMMA StartQuiet ==
    ASSUME TypeOK, NEW p \in Procs, StartStep(p) \/ Crash(p), ~PruneSpentNonces(p)
    PROVE  Quiet
  <1>1. CASE StartFlatten(p) \/ SweepReservations(p) \/ BeginRecovery(p)
             \/ BeginResolution(p) \/ FinishRecovery(p)
    BY <1>1 DEF StartFlatten, SweepReservations, BeginRecovery, BeginResolution,
                FinishRecovery, ListPending, Quiet, QuietWorker
  <1>2. CASE Crash(p)
    BY <1>2, StopQuiet DEF Crash, Quiet
  <1>3. ASSUME NEW a \in Attempts, RecoverOne(p, a)
        PROVE  Quiet
    <2>1. CASE listed[p][a] \in {"ACKED", "IN_DOUBT"}
      BY <1>3, <2>1 DEF RecoverOne, Quiet, QuietWorker
    <2>2. CASE listed[p][a] \notin {"ACKED", "IN_DOUBT"}
      <3> DEFINE to == IF listed[p][a] = "RECORDED" THEN "NOT_DISPATCHED" ELSE "IN_DOUBT"
                 from == IF listed[p][a] = "RECORDED" THEN SettleFrom ELSE MarkInDoubtFrom
      <3>1. Transition(a, to, from) /\ to \in AttemptStates /\ from \in SUBSET AttemptStates
        BY <1>3, <2>2, FromSets DEF RecoverOne
      <3>2. \A b \in Attempts : attState'[b] = "none" <=> attState[b] = "none"
        BY <3>1, TransitionFacts
      <3>3. UNCHANGED workerVars \/ Stop(p)
        BY <1>3, <2>2 DEF RecoverOne
      <3>4. \A v \in Workers : QuietWorker(v)
        BY <3>3, StopQuiet DEF QuietWorker
      <3> QED BY <1>3, <3>2, <3>4 DEF RecoverOne, Quiet
    <2> QED BY <2>1, <2>2
  <1>4. ASSUME NEW a \in Attempts, ResolveOne(p, a)
        PROVE  Quiet
    <2>1. Resolve(a) \/ ResolveConfirmed(a) \/ UNCHANGED <<attState, hold>>
      BY <1>4 DEF ResolveOne
    <2>2. \A b \in Attempts : attState'[b] = "none" <=> attState[b] = "none"
      BY <2>1, TransitionFacts, FromSets
         DEF Resolve, ResolveConfirmed, ResolveFailed, ResolveUnresolved
    <2> QED BY <1>4, <2>2 DEF ResolveOne, Quiet, QuietWorker
  <1> QED BY <1>1, <1>2, <1>3, <1>4 DEF StartStep

-----------------------------------------------------------------------------
(* The steps that carry the argument. *)

(* Recording an attempt: a fresh row, so no other worker holds it and nothing *)
(* was started or sent for it.                                                *)
LEMMA PrepareStep ==
    ASSUME IInv, TypeOK', NEW w \in Workers, NEW a \in Attempts, Prepare(w, a)
    PROVE  IInv'
  <1>0. /\ TypeOK /\ HandleOK /\ HandleUnique /\ RowOK /\ DispatchOK /\ NonceOK
        /\ NonceEvidence /\ StartedTwice /\ ClearedOnce /\ SendBudget
    BY DEF IInv
  <1>1. /\ attState[a] = "none" /\ a \notin started /\ ~(sends[a] > 0)
        /\ \A v \in Workers : pc[v] \in HasAttempt => wAtt[v] # a
        /\ pc[w] = "unspent" /\ wDec[w] \in issued
    BY <1>0 DEF Prepare, RowOK, HandleOK
  <1>2. /\ pc' = [pc EXCEPT ![w] = "prepared"]
        /\ wAtt' = [wAtt EXCEPT ![w] = a]
        /\ attDec' = [attDec EXCEPT ![a] = wDec[w]]
        /\ attState' = [attState EXCEPT ![a] = "RECORDED"]
        /\ UNCHANGED <<now, issued, expiresAt, started, spent, spentAt, sends, wDec>>
    BY DEF Prepare
  <1>3. /\ pc \in [Workers -> PCs] /\ wAtt \in [Workers -> Attempts \cup {NoAttempt}]
        /\ attDec \in [Attempts -> Decisions \cup {NoDecision}]
        /\ attState \in [Attempts -> RowStates] /\ started \in SUBSET Attempts
        /\ sends \in [Attempts -> Nat]
    BY <1>0 DEF TypeOK
  <1>4. HandleOK'
    BY <1>0, <1>1, <1>2, <1>3, Regions DEF HandleOK
  <1>5. HandleUnique'
    BY <1>0, <1>1, <1>2, <1>3, Regions DEF HandleUnique
  <1>6. RowOK'
    BY <1>0, <1>1, <1>2, <1>3 DEF RowOK
  <1>7. DispatchOK'
    BY <1>0, <1>1, <1>2, <1>3, Regions DEF DispatchOK
  <1>8. NonceOK' /\ NonceEvidence' /\ StartedTwice'
    BY <1>0, <1>1, <1>2, <1>3 DEF NonceOK, NonceEvidence, StartedTwice, Expired
  <1>9. \A b \in Attempts : Cleared(b)' => Cleared(b) /\ b # a
    BY <1>0, <1>1, <1>2, <1>3, Regions DEF Cleared
  <1>10. ClearedOnce'
    BY <1>0, <1>2, <1>3, <1>9 DEF ClearedOnce
  <1>11. SendBudget'
    <2>1. \A b \in Attempts : b # a => Budget(b)' = Budget(b)
      BY <1>2, <1>3 DEF Budget
    <2>2. sends[a] = 0
      BY <1>1, <1>3
    <2>3. Budget(a)' \in Nat /\ Budget(a)' >= 1
      BY TimeAssumption DEF Budget
    <2>4. \A b \in Attempts : sends'[b] <= Budget(b)'
      BY <1>0, <1>2, <2>1, <2>2, <2>3 DEF SendBudget
    <2>5. ASSUME NEW v \in Workers, pc'[v] \in BeforeSend
          PROVE  sends'[wAtt'[v]] < Budget(wAtt[v])'
      <3>1. pc[v] \in BeforeSend /\ wAtt'[v] = wAtt[v] /\ wAtt[v] \in Attempts
            /\ wAtt[v] # a
        BY <1>0, <1>1, <1>2, <1>3, <2>5, Regions DEF HandleOK
      <3> QED BY <1>0, <1>2, <2>1, <3>1 DEF SendBudget, Budget
    <2> QED BY <2>4, <2>5 DEF SendBudget
  <1> QED BY <1>4, <1>5, <1>6, <1>7, <1>8, <1>10, <1>11 DEF IInv

(* Starting a dispatch: the nonce is unspent, so a started attempt of the same *)
(* decision means that the decision has expired.                              *)
LEMMA DispatchStep ==
    ASSUME IInv, TypeOK', NEW w \in Workers, MarkDispatchStarted(w)
    PROVE  IInv'
  <1>0. /\ TypeOK /\ HandleOK /\ HandleUnique /\ RowOK /\ DispatchOK /\ NonceOK
        /\ NonceEvidence /\ StartedTwice /\ ClearedOnce /\ SendBudget
    BY DEF IInv
  <1> DEFINE a == wAtt[w]
             d == wDec[w]
  <1>1. /\ pc[w] = "reserved" /\ a \in Attempts /\ d \in issued /\ attDec[a] = d
        /\ attState[a] # "none" /\ a \notin started /\ ~(sends[a] > 0) /\ d \notin spent
    BY <1>0, Regions DEF MarkDispatchStarted, HandleOK, DispatchOK, RowOK
  <1>2. /\ pc' = [pc EXCEPT ![w] = "started"]
        /\ started' = started \cup {a} /\ spent' = spent \cup {d}
        /\ spentAt' = [spentAt EXCEPT ![d] = now]
        /\ UNCHANGED <<now, issued, expiresAt, attDec, sends, wDec, wAtt>>
    BY DEF MarkDispatchStarted, Advance
  <1>3. /\ pc \in [Workers -> PCs] /\ started \in SUBSET Attempts
        /\ spent \in SUBSET Decisions /\ spentAt \in [Decisions -> Nat]
        /\ sends \in [Attempts -> Nat] /\ issued \in SUBSET Decisions /\ now \in Nat
    BY <1>0 DEF TypeOK
  <1>4. \A b \in Attempts : attState'[b] = "none" <=> attState[b] = "none"
    BY <1>0, TransitionFacts, FromSets DEF MarkDispatchStarted
  <1>5. HandleOK' /\ HandleUnique'
    BY <1>0, <1>1, <1>2, <1>3, <1>4, Regions DEF HandleOK, HandleUnique
  <1>6. RowOK'
    BY <1>0, <1>1, <1>2, <1>4 DEF RowOK
  <1>7. DispatchOK'
    BY <1>0, <1>1, <1>2, <1>3, Regions DEF DispatchOK, HandleUnique, HandleOK
  <1>8. NonceOK'
    BY <1>0, <1>1, <1>2, <1>3 DEF NonceOK
  <1>9. NonceEvidence'
    BY <1>0, <1>1, <1>2 DEF NonceEvidence, Expired
  <1>10. StartedTwice'
    BY <1>0, <1>1, <1>2 DEF StartedTwice, NonceEvidence, Expired
  <1>11. \A b \in Attempts : Cleared(b)' => Cleared(b)
    BY <1>2, <1>3 DEF Cleared
  <1>12. ClearedOnce'
    BY <1>0, <1>2, <1>11 DEF ClearedOnce
  <1>13. SendBudget'
    <2>1. \A b : Budget(b)' = Budget(b)
      BY <1>2 DEF Budget
    <2>2. sends[a] < Budget(a)
      BY <1>1, <1>3, TimeAssumption DEF Budget
    <2> QED BY <1>0, <1>1, <1>2, <1>3, <2>1, <2>2, Regions DEF SendBudget
  <1> QED BY <1>5, <1>6, <1>7, <1>8, <1>9, <1>10, <1>12, <1>13 DEF IInv

(* Passing the expiry re-check: an unexpired decision has one started attempt, *)
(* so no other attempt of it is cleared.                                      *)
LEMMA RecheckStep ==
    ASSUME IInv, TypeOK', NEW w \in Workers, RecheckDecision(w)
    PROVE  IInv'
  <1>0. /\ TypeOK /\ HandleOK /\ HandleUnique /\ RowOK /\ DispatchOK /\ NonceOK
        /\ NonceEvidence /\ StartedTwice /\ ClearedOnce /\ SendBudget
    BY DEF IInv
  <1>1. /\ pc[w] = "started" /\ wAtt[w] \in started /\ wAtt[w] \in Attempts
        /\ attDec[wAtt[w]] = wDec[w] /\ ~Expired(wDec[w])
    BY <1>0, Regions DEF RecheckDecision, DispatchOK, HandleOK
  <1>2. /\ pc' = [pc EXCEPT ![w] = "rechecked"]
        /\ UNCHANGED <<now, issued, expiresAt, attState, attDec, started, spent, spentAt,
                       sends, wDec, wAtt>>
    BY DEF RecheckDecision, Advance
  <1>3. pc \in [Workers -> PCs]
    BY <1>0 DEF TypeOK
  <1>4. \A b \in Attempts : Cleared(b) => b \in started
    BY <1>0, Regions DEF Cleared, RowOK, DispatchOK
  <1>5. \A b \in Attempts : Cleared(b)' => Cleared(b) \/ b = wAtt[w]
    BY <1>2, <1>3 DEF Cleared
  <1>6. ClearedOnce'
    BY <1>0, <1>1, <1>2, <1>4, <1>5 DEF ClearedOnce, StartedTwice
  <1>7. HandleOK' /\ HandleUnique' /\ DispatchOK'
    BY <1>0, <1>1, <1>2, <1>3, Regions DEF HandleOK, HandleUnique, DispatchOK
  <1>8. RowOK' /\ NonceOK' /\ NonceEvidence' /\ StartedTwice'
    BY <1>0, <1>2 DEF RowOK, NonceOK, NonceEvidence, StartedTwice, Expired
  <1>9. SendBudget'
    BY <1>0, <1>1, <1>2, <1>3, Regions DEF SendBudget, Budget
  <1> QED BY <1>6, <1>7, <1>8, <1>9 DEF IInv

(* Sending, and going round again for a refused cancel, stay in the budget.   *)
LEMMA SendStep ==
    ASSUME IInv, TypeOK', NEW w \in Workers, Send(w) \/ RetryCancel(w)
    PROVE  IInv'
  <1>0. /\ TypeOK /\ HandleOK /\ HandleUnique /\ RowOK /\ DispatchOK /\ NonceOK
        /\ NonceEvidence /\ StartedTwice /\ ClearedOnce /\ SendBudget
    BY DEF IInv
  <1> DEFINE a == wAtt[w]
  <1>1. /\ pc[w] \in {"cleared", "sent"} /\ a \in started /\ a \in Attempts
        /\ attDec[a] = wDec[w] /\ wDec[w] \in Decisions
    BY <1>0, Regions DEF Send, RetryCancel, DispatchOK, HandleOK, TypeOK
  <1>2. /\ pc' \in {[pc EXCEPT ![w] = "sent"], [pc EXCEPT ![w] = "started"]}
        /\ UNCHANGED <<now, issued, expiresAt, attState, attDec, started, spent, spentAt,
                       wDec, wAtt>>
    BY DEF Send, RetryCancel, Advance
  <1>3. pc \in [Workers -> PCs] /\ sends \in [Attempts -> Nat]
    BY <1>0 DEF TypeOK
  <1>4. HandleOK' /\ HandleUnique' /\ DispatchOK'
    BY <1>0, <1>1, <1>2, <1>3, Regions DEF HandleOK, HandleUnique, DispatchOK
  <1>5. NonceOK' /\ NonceEvidence' /\ StartedTwice'
    BY <1>0, <1>2 DEF NonceOK, NonceEvidence, StartedTwice, Expired
  <1>6. CASE Send(w)
    <2>1. /\ sends' = [sends EXCEPT ![a] = @ + 1] /\ pc[w] = "cleared"
          /\ pc' = [pc EXCEPT ![w] = "sent"]
      BY <1>6 DEF Send, Advance
    <2>2. RowOK'
      BY <1>0, <1>1, <1>2, <1>3, <2>1 DEF RowOK
    <2>3. \A b \in Attempts : Cleared(b)' => Cleared(b)
      BY <1>1, <1>2, <1>3, <2>1 DEF Cleared
    <2>4. ClearedOnce'
      BY <1>0, <1>2, <2>3 DEF ClearedOnce
    <2>5. SendBudget'
      <3>1. \A b : Budget(b)' = Budget(b) /\ Budget(b) \in Nat
        BY <1>2, TimeAssumption DEF Budget
      <3>2. sends[a] < Budget(a)
        BY <1>0, <2>1, Regions DEF SendBudget
      <3>3. \A b \in Attempts : sends'[b] <= Budget(b)
        BY <1>0, <1>1, <1>3, <2>1, <3>1, <3>2 DEF SendBudget
      <3>4. \A v \in Workers : pc'[v] \in BeforeSend =>
                /\ pc[v] \in BeforeSend /\ wAtt[v] # a /\ wAtt[v] \in Attempts
        BY <1>0, <1>3, <2>1, Regions DEF HandleUnique, HandleOK
      <3> QED BY <1>0, <1>2, <1>3, <2>1, <3>1, <3>3, <3>4 DEF SendBudget
    <2> QED BY <1>4, <1>5, <2>2, <2>4, <2>5 DEF IInv
  <1>7. CASE RetryCancel(w)
    <2>1. /\ sends' = sends /\ pc[w] = "sent" /\ pc' = [pc EXCEPT ![w] = "started"]
          /\ KindOf[wDec[w]] = "CANCEL" /\ sends[a] <= MaxRetries
      BY <1>7 DEF RetryCancel, Advance
    <2>2. RowOK'
      BY <1>0, <1>2, <2>1 DEF RowOK
    <2>3. \A b \in Attempts : Cleared(b)' => Cleared(b)
      BY <1>2, <1>3, <2>1 DEF Cleared
    <2>4. ClearedOnce'
      BY <1>0, <1>2, <2>3 DEF ClearedOnce
    <2>5. SendBudget'
      <3>1. \A b : Budget(b)' = Budget(b)
        BY <1>2 DEF Budget
      <3>2. sends[a] < Budget(a)
        BY <1>1, <1>3, <2>1, TimeAssumption DEF Budget
      <3> QED BY <1>0, <1>2, <1>3, <2>1, <3>1, <3>2, Regions DEF SendBudget
    <2> QED BY <1>4, <1>5, <2>2, <2>4, <2>5 DEF IInv
  <1> QED BY <1>6, <1>7

(* Pruning removes a nonce only when its decision has expired. *)
LEMMA PruneStep ==
    ASSUME IInv, TypeOK', NEW p \in Procs, PruneSpentNonces(p)
    PROVE  IInv'
  <1>0. /\ TypeOK /\ HandleOK /\ HandleUnique /\ RowOK /\ DispatchOK /\ NonceOK
        /\ NonceEvidence /\ StartedTwice /\ ClearedOnce /\ SendBudget
    BY DEF IInv
  <1>1. /\ spent' = {d \in spent : ~Prunable(d)}
        /\ UNCHANGED <<now, issued, expiresAt, attState, attDec, started, spentAt, sends,
                       pc, wDec, wAtt>>
    BY DEF PruneSpentNonces
  <1>2. ASSUME NEW d \in spent, Prunable(d)
        PROVE  Expired(d)
    <2>1. /\ d \in issued /\ expiresAt[d] <= spentAt[d] + TTLOf[d]
          /\ spentAt[d] + TTLOf[d] < now
      BY <1>0, <1>2 DEF NonceOK, Prunable
    <2>2. /\ expiresAt[d] \in Nat /\ spentAt[d] \in Nat /\ TTLOf[d] \in Nat /\ now \in Nat
      BY <1>0, TimeAssumption DEF TypeOK
    <2> QED BY <2>1, <2>2 DEF Expired
  <1>3. NonceEvidence'
    BY <1>0, <1>1, <1>2 DEF NonceEvidence, Expired
  <1>4. NonceOK'
    BY <1>0, <1>1 DEF NonceOK
  <1>5. HandleOK' /\ HandleUnique' /\ RowOK' /\ DispatchOK' /\ StartedTwice'
    BY <1>0, <1>1 DEF HandleOK, HandleUnique, RowOK, DispatchOK, StartedTwice, Expired
  <1>6. ClearedOnce' /\ SendBudget'
    BY <1>0, <1>1 DEF ClearedOnce, Cleared, SendBudget, Budget
  <1> QED BY <1>3, <1>4, <1>5, <1>6 DEF IInv

(* Time only expires more; a new decision has no attempt yet; a claim gives a *)
(* worker a decision and no attempt.                                          *)
LEMMA EarlyStep ==
    ASSUME IInv, TypeOK',
           \/ Tick
           \/ \E d \in Decisions : IssueDecision(d)
           \/ \E w \in Workers, d \in Decisions : Submit(w, d)
    PROVE  IInv'
  <1>0. /\ TypeOK /\ HandleOK /\ HandleUnique /\ RowOK /\ DispatchOK /\ NonceOK
        /\ NonceEvidence /\ StartedTwice /\ ClearedOnce /\ SendBudget
    BY DEF IInv
  <1>1. CASE Tick
    <2>1. /\ now' = now + 1
          /\ UNCHANGED <<issued, expiresAt, attState, attDec, started, spent, spentAt, sends,
                         pc, wDec, wAtt>>
      BY <1>1 DEF Tick
    <2>2. /\ now \in Nat /\ issued \in SUBSET Decisions /\ expiresAt \in [Decisions -> Nat]
          /\ TTLOf \in [Decisions -> Nat] /\ attDec \in [Attempts -> Decisions \cup {NoDecision}]
      BY <1>0, TimeAssumption DEF TypeOK
    <2>3. \A a \in started : attDec[a] \in Decisions
      BY <1>0, <2>2 DEF RowOK, TypeOK
    <2>4. \A d \in Decisions : Expired(d) => Expired(d)'
      BY <2>1, <2>2 DEF Expired
    <2>5. NonceOK'
      BY <1>0, <2>1, <2>2 DEF NonceOK
    <2>6. NonceEvidence' /\ StartedTwice'
      BY <1>0, <2>1, <2>3, <2>4 DEF NonceEvidence, StartedTwice
    <2>7. HandleOK' /\ HandleUnique' /\ RowOK' /\ DispatchOK'
      BY <1>0, <2>1 DEF HandleOK, HandleUnique, RowOK, DispatchOK
    <2>8. ClearedOnce' /\ SendBudget'
      BY <1>0, <2>1 DEF ClearedOnce, Cleared, SendBudget, Budget
    <2> QED BY <2>5, <2>6, <2>7, <2>8 DEF IInv
  <1>2. ASSUME NEW d \in Decisions, IssueDecision(d)
        PROVE  IInv'
    <2>1. /\ d \notin issued /\ issued' = issued \cup {d}
          /\ expiresAt' = [expiresAt EXCEPT ![d] = now + TTLOf[d]]
          /\ UNCHANGED <<now, attState, attDec, started, spent, spentAt, sends,
                         pc, wDec, wAtt>>
      BY <1>2 DEF IssueDecision
    <2>2. /\ now \in Nat /\ issued \in SUBSET Decisions /\ expiresAt \in [Decisions -> Nat]
          /\ TTLOf \in [Decisions -> Nat] /\ spent \in SUBSET Decisions
      BY <1>0, TimeAssumption DEF TypeOK
    <2>3. NonceOK'
      BY <1>0, <2>1, <2>2 DEF NonceOK
    <2>4. \A a \in started : attDec[a] \in issued
      BY <1>0 DEF RowOK, TypeOK
    <2>5. NonceEvidence' /\ StartedTwice'
      BY <1>0, <2>1, <2>2, <2>4 DEF NonceEvidence, StartedTwice, Expired
    <2>6. HandleOK' /\ HandleUnique' /\ RowOK' /\ DispatchOK'
      BY <1>0, <2>1 DEF HandleOK, HandleUnique, RowOK, DispatchOK
    <2>7. ClearedOnce' /\ SendBudget'
      BY <1>0, <2>1 DEF ClearedOnce, Cleared, SendBudget, Budget
    <2> QED BY <2>3, <2>5, <2>6, <2>7 DEF IInv
  <1>3. ASSUME NEW w \in Workers, NEW d \in Decisions, Submit(w, d)
        PROVE  IInv'
    <2>1. /\ pc[w] = "idle" /\ d \in issued /\ pc' = [pc EXCEPT ![w] = "claimed"]
          /\ wDec' = [wDec EXCEPT ![w] = d]
          /\ UNCHANGED <<now, issued, expiresAt, attState, attDec, started, spent, spentAt,
                         sends, wAtt>>
      BY <1>3 DEF Submit
    <2>2. pc \in [Workers -> PCs] /\ wDec \in [Workers -> Decisions \cup {NoDecision}]
      BY <1>0 DEF TypeOK
    <2>3. HandleOK' /\ HandleUnique' /\ DispatchOK'
      BY <1>0, <2>1, <2>2, Regions DEF HandleOK, HandleUnique, DispatchOK
    <2>4. RowOK' /\ NonceOK' /\ NonceEvidence' /\ StartedTwice'
      BY <1>0, <2>1 DEF RowOK, NonceOK, NonceEvidence, StartedTwice, Expired
    <2>5. \A a \in Attempts : Cleared(a)' => Cleared(a)
      BY <2>1, <2>2 DEF Cleared
    <2>6. ClearedOnce'
      BY <1>0, <2>1, <2>5 DEF ClearedOnce
    <2>7. SendBudget'
      BY <1>0, <2>1, <2>2, Regions DEF SendBudget, Budget
    <2> QED BY <2>3, <2>4, <2>6, <2>7 DEF IInv
  <1> QED BY <1>1, <1>2, <1>3
-----------------------------------------------------------------------------
(* The theorems. *)

(* An empty journal and stopped processes satisfy the invariant (Init).      *)
LEMMA InitIInv == Init => IInv
  <1> SUFFICES ASSUME Init PROVE IInv
    OBVIOUS
  <1>1. TypeOK
    BY DEF Init, TypeOK, RowStates, HoldStates, BrokerStates, Phases, PCs
  <1>2. HandleOK /\ HandleUnique /\ DispatchOK
    BY Regions DEF Init, HandleOK, HandleUnique, DispatchOK
  <1>3. RowOK /\ NonceOK /\ NonceEvidence /\ StartedTwice
    BY DEF Init, RowOK, NonceOK, NonceEvidence, StartedTwice
  <1>4. ClearedOnce
    BY DEF Init, ClearedOnce, Cleared
  <1>5. SendBudget
    BY Regions, TimeAssumption DEF Init, SendBudget, Budget
  <1> QED BY <1>1, <1>2, <1>3, <1>4, <1>5 DEF IInv

(* Every step of submit, of the broker, of an operator, of a starting or      *)
(* dying process and of the clock preserves the invariant (Next).             *)
LEMMA NextIInv == IInv /\ [Next]_vars => IInv'
  <1> SUFFICES ASSUME IInv, [Next]_vars PROVE IInv'
    OBVIOUS
  <1>0. TypeOK /\ HandleOK
    BY DEF IInv
  <1>1. TypeOK'
    BY <1>0, TypeStep
  <1>2. CASE \/ Tick
             \/ \E d \in Decisions : IssueDecision(d)
             \/ \E w \in Workers, d \in Decisions : Submit(w, d)
    BY <1>1, <1>2, EarlyStep
  <1>3. ASSUME NEW d \in Decisions, OperatorRelease(d)
        PROVE  IInv'
    <2>1. Quiet
      BY <1>3 DEF OperatorRelease, Quiet, QuietWorker
    <2> QED BY <1>1, <2>1, QuietStep
  <1>4. ASSUME NEW w \in Workers, WorkerStep(w)
        PROVE  IInv'
    <2>1. CASE QuietWorkerStep(w)
      BY <1>0, <1>1, <2>1, WorkerQuiet, QuietStep
    <2>2. CASE \E a \in Attempts : Prepare(w, a)
      BY <1>1, <2>2, PrepareStep
    <2>3. CASE MarkDispatchStarted(w)
      BY <1>1, <2>3, DispatchStep
    <2>4. CASE RecheckDecision(w)
      BY <1>1, <2>4, RecheckStep
    <2>5. CASE Send(w) \/ RetryCancel(w)
      BY <1>1, <2>5, SendStep
    <2> QED BY <1>4, <2>1, <2>2, <2>3, <2>4, <2>5 DEF WorkerStep, QuietWorkerStep
  <1>5. ASSUME NEW a \in Attempts, BrokerStep(a) \/ OperatorResolve(a)
        PROVE  IInv'
    BY <1>0, <1>1, <1>5, OutsideQuiet, QuietStep
  <1>6. ASSUME NEW p \in Procs, StartStep(p) \/ Crash(p)
        PROVE  IInv'
    <2>1. CASE PruneSpentNonces(p)
      BY <1>1, <2>1, PruneStep
    <2>2. CASE ~PruneSpentNonces(p)
      BY <1>0, <1>1, <1>6, <2>2, StartQuiet, QuietStep
    <2> QED BY <2>1, <2>2
  <1>7. CASE UNCHANGED vars
    <2>1. Quiet
      BY <1>7 DEF vars, Quiet, QuietWorker
    <2> QED BY <1>1, <2>1, QuietStep
  <1> QED BY <1>2, <1>3, <1>4, <1>5, <1>6, <1>7 DEF Next

(* The handles, rows, nonces and workers agree in every reachable state, for  *)
(* any number of processes on one journal (Gateway.submit).                   *)
THEOREM Invariant == Spec => []IInv
  BY InitIInv, NextIInv, PTL DEF Spec

(* The tables and the workers stay well typed (journal schema, submit).       *)
THEOREM TypeCorrect == Spec => []TypeOK
  <1>1. IInv => TypeOK
    BY DEF IInv
  <1> QED BY <1>1, Invariant, PTL

(* One authorisation calls the broker through at most one attempt, whatever   *)
(* crashes, restarts, prunes nonces or shares the journal (consumeDecisionNonce, *)
(* the expiry re-check of the dispatch closure).                              *)
THEOREM AuthorisationIsSpentOnce == Spec => []AuthorisedOnce
  <1>1. IInv => AuthorisedOnce
    BY DEF IInv, ClearedOnce, Cleared, AuthorisedOnce
  <1> QED BY <1>1, Invariant, PTL

(* No attempt is sent again beyond a refused cancel's retry budget            *)
(* (withCancelRefusal).                                                       *)
THEOREM ResendIsBounded == Spec => []NoResend
  <1>1. IInv => NoResend
    BY DEF IInv, SendBudget, Budget, NoResend
  <1> QED BY <1>1, Invariant, PTL

(* A nonce is pruned only when its decision cannot be used any more           *)
(* (PruneSpentNonces, MaxDecisionTTL).                                        *)
THEOREM PruningKeepsEvidence == Spec => []NonceEvidence
  <1>1. IInv => NonceEvidence
    BY DEF IInv
  <1> QED BY <1>1, Invariant, PTL
-----------------------------------------------------------------------------
(* The lifecycle table, read backwards (transitionTable).                     *)
LEMMA MoveTable ==
    ASSUME NEW f \in RowStates
    PROVE  /\ ValidTransition(f, "DISPATCH_STARTED") <=> f = "RECORDED"
           /\ ValidTransition(f, "ACKED") <=> f = "DISPATCH_STARTED"
           /\ ValidTransition(f, "IN_DOUBT") <=> f \in {"DISPATCH_STARTED", "ACKED"}
           /\ ValidTransition(f, "NOT_DISPATCHED") <=> f \in {"RECORDED", "DISPATCH_STARTED"}
           /\ ValidTransition(f, "FAILED_CONFIRMED")
                <=> f \in {"DISPATCH_STARTED", "IN_DOUBT", "UNRESOLVED_IN_DOUBT"}
           /\ ValidTransition(f, "CONFIRMED")
                <=> f \in {"ACKED", "IN_DOUBT", "UNRESOLVED_IN_DOUBT"}
           /\ ValidTransition(f, "UNRESOLVED_IN_DOUBT") <=> f = "IN_DOUBT"
  <1>1. CASE f = "none"
    BY <1>1 DEF ValidTransition, AllowedNext
  <1>2. CASE f = "RECORDED"
    BY <1>2 DEF ValidTransition, AllowedNext
  <1>3. CASE f = "DISPATCH_STARTED"
    BY <1>3 DEF ValidTransition, AllowedNext
  <1>4. CASE f = "ACKED"
    BY <1>4 DEF ValidTransition, AllowedNext
  <1>5. CASE f = "IN_DOUBT"
    BY <1>5 DEF ValidTransition, AllowedNext
  <1>6. CASE f = "UNRESOLVED_IN_DOUBT"
    BY <1>6 DEF ValidTransition, AllowedNext
  <1>7. CASE f \in {"CONFIRMED", "NOT_DISPATCHED", "FAILED_CONFIRMED"}
    BY <1>7 DEF ValidTransition, AllowedNext
  <1> QED BY <1>1, <1>2, <1>3, <1>4, <1>5, <1>6, <1>7 DEF RowStates, AttemptStates

-----------------------------------------------------------------------------
(* Any processes: what CONFIRMED rests on. *)

(* What the broker knows of an attempt: nothing before a send, and what an    *)
(* acknowledged worker was told.                                              *)
NothingUnsent == \A a \in Attempts : broker[a] # "none" => sends[a] > 0
UnsentYet == \A w \in Workers : pc[w] \in BeforeSend => broker[wAtt[w]] \in {"none", "refused"}
AckIsReal == \A w \in Workers : pc[w] = "acked" => AtBroker(wAtt[w])
BrokerKnows == NothingUnsent /\ UnsentYet /\ AckIsReal

RealInv == IInv /\ BrokerKnows /\ ConfirmedIsReal

(* The steps of submit that only move a worker forward.                       *)
Checks(w) ==
    \/ CheckUnsettled(w) \/ CheckUnresolved(w) \/ CheckUnspent(w) \/ CheckDecision(w)
    \/ CheckReservation(w) \/ RecheckDecision(w) \/ RecheckReservation(w) \/ RetryCancel(w)

(* The steps that end a submit, or a resolveStep, by moving its row.           *)
Settles(w) ==
    \/ Refuse(w) \/ NonceSpent(w) \/ NotSent(w) \/ SettleRejected(w) \/ MarkInDoubt(w)
    \/ SettleConfirmed(w) \/ RoundTripUnconfirmed(w) \/ ResolveStep(w)

(* A worker's steps keep what the broker is known to have done (submit).      *)
LEMMA WorkerReal ==
    ASSUME RealInv, TypeOK', NEW w \in Workers, WorkerStep(w)
    PROVE  BrokerKnows' /\ ConfirmedIsReal'
  <1> USE Regions, MoveTable DEF RealInv, IInv, TypeOK, BrokerKnows, NothingUnsent, UnsentYet, AckIsReal,
          ConfirmedIsReal, AtBroker,
          HandleOK, HandleUnique, RowOK
  <1>1. CASE Checks(w)
    BY <1>1 DEF Checks, CheckUnsettled, CheckUnresolved, CheckUnspent, CheckDecision,
       CheckReservation, RecheckDecision, RecheckReservation, RetryCancel, Advance
  <1>2. CASE ReturnUnrecorded(w) \/ JournalError(w)
    <2>1. NothingUnsent'
      BY <1>2 DEF ReturnUnrecorded, JournalError, Return
    <2>2. UnsentYet'
      BY <1>2 DEF ReturnUnrecorded, JournalError, Return
    <2>3. AckIsReal'
      BY <1>2 DEF ReturnUnrecorded, JournalError, Return
    <2>4. ConfirmedIsReal'
      BY <1>2 DEF ReturnUnrecorded, JournalError, Return
    <2> QED BY <2>1, <2>2, <2>3, <2>4
  <1>3. CASE \E a \in Attempts : Prepare(w, a)
    BY <1>3 DEF Prepare
  <1>4. CASE MarkDispatchStarted(w)
    <2>1. wAtt[w] \notin started /\ broker[wAtt[w]] = "none"
      BY <1>4 DEF MarkDispatchStarted, DispatchOK
    <2> QED BY <1>4, <2>1 DEF MarkDispatchStarted, Advance, Transition
  <1>5. CASE Send(w)
    BY <1>5 DEF Send, Advance
  <1>6. CASE MarkAcked(w)
    BY <1>6 DEF MarkAcked, Advance, Transition
  <1>7. CASE Refuse(w) \/ NonceSpent(w) \/ SettleRejected(w) \/ SettleConfirmed(w)
             \/ RoundTripUnconfirmed(w)
    <2>1. Return(w) /\ UNCHANGED <<sends, broker>>
      BY <1>7 DEF Refuse, NonceSpent, SettleRejected, SettleConfirmed, RoundTripUnconfirmed
    <2>2. BrokerKnows'
      BY <2>1 DEF Return
    <2>3. ConfirmedIsReal'
      BY <1>7 DEF Refuse, NonceSpent, SettleRejected, SettleConfirmed, RoundTripUnconfirmed,
         Transition
    <2> QED BY <2>2, <2>3
  <1>8. CASE NotSent(w)
    BY <1>8 DEF NotSent, Return, Transition
  <1>9. CASE MarkInDoubt(w)
    <2>1. NothingUnsent'
      BY <1>9 DEF MarkInDoubt, Return, Transition
    <2>2. UnsentYet'
      BY <1>9 DEF MarkInDoubt, Return, Transition
    <2>3. AckIsReal'
      BY <1>9 DEF MarkInDoubt, Return, Transition
    <2>4. ConfirmedIsReal'
      BY <1>9 DEF MarkInDoubt, Return, Transition
    <2> QED BY <2>1, <2>2, <2>3, <2>4
  <1>10. CASE ResolveStep(w)
    BY <1>10 DEF ResolveStep, Resolve, ResolveConfirmed, ResolveFailed, ResolveUnresolved,
       Transition
  <1> QED BY <1>1, <1>2, <1>3, <1>4, <1>5, <1>6, <1>7, <1>8, <1>9, <1>10 DEF WorkerStep, Checks

(* So does every other step: the broker's, an operator's, a start's.          *)
LEMMA OthersReal ==
    ASSUME RealInv,
           \/ Tick
           \/ \E d \in Decisions : IssueDecision(d) \/ OperatorRelease(d)
           \/ \E w \in Workers, d \in Decisions : Submit(w, d)
           \/ \E a \in Attempts : BrokerStep(a) \/ OperatorResolve(a)
           \/ \E p \in Procs : StartStep(p) \/ Crash(p)
    PROVE  BrokerKnows' /\ ConfirmedIsReal'
  <1> USE Regions DEF RealInv, IInv, TypeOK, BrokerKnows, NothingUnsent, UnsentYet, AckIsReal,
          ConfirmedIsReal, AtBroker, HandleOK
  <1>1. CASE Tick \/ \E d \in Decisions : IssueDecision(d) \/ OperatorRelease(d)
    BY <1>1 DEF Tick, IssueDecision, OperatorRelease
  <1>2. CASE \E w \in Workers, d \in Decisions : Submit(w, d)
    BY <1>2 DEF Submit
  <1>3. ASSUME NEW a \in Attempts, BrokerStep(a)
        PROVE  BrokerKnows' /\ ConfirmedIsReal'
    <2>1. CASE RecordTerminalFill(a)
      BY <2>1 DEF RecordTerminalFill
    <2>2. CASE BrokerAccepts(a)
      BY <2>2 DEF BrokerAccepts, BrokerMoves
    <2>3. CASE BrokerRefuses(a)
      BY <2>3 DEF BrokerRefuses, BrokerMoves
    <2>4. CASE RequestLost(a)
      BY <2>4 DEF RequestLost, BrokerMoves
    <2>5. CASE OrderEnds(a)
      BY <2>5 DEF OrderEnds, BrokerMoves
    <2> QED BY <1>3, <2>1, <2>2, <2>3, <2>4, <2>5 DEF BrokerStep
  <1>4. ASSUME NEW a \in Attempts, OperatorResolve(a)
        PROVE  BrokerKnows' /\ ConfirmedIsReal'
    BY <1>4 DEF OperatorResolve, Transition
  <1>5. ASSUME NEW p \in Procs, NEW a \in Attempts, RecoverOne(p, a)
        PROVE  BrokerKnows' /\ ConfirmedIsReal'
    <2>1. NothingUnsent' /\ UnsentYet'
      BY <1>5 DEF RecoverOne, Stop
    <2>2. AckIsReal'
      BY <1>5 DEF RecoverOne, Stop
    <2>3. ConfirmedIsReal'
      BY <1>5 DEF RecoverOne, Transition
    <2> QED BY <2>1, <2>2, <2>3
  <1>6. ASSUME NEW p \in Procs, NEW a \in Attempts, ResolveOne(p, a)
        PROVE  BrokerKnows' /\ ConfirmedIsReal'
    BY <1>6 DEF ResolveOne, Resolve, ResolveConfirmed, ResolveFailed, ResolveUnresolved,
       Transition
  <1>7. ASSUME NEW p \in Procs,
               \/ StartFlatten(p) \/ SweepReservations(p) \/ PruneSpentNonces(p)
               \/ BeginRecovery(p) \/ BeginResolution(p) \/ FinishRecovery(p)
        PROVE  BrokerKnows' /\ ConfirmedIsReal'
    BY <1>7 DEF StartFlatten, SweepReservations, PruneSpentNonces, BeginRecovery,
       BeginResolution, ListPending, FinishRecovery
  <1>8. ASSUME NEW p \in Procs, Crash(p)
        PROVE  BrokerKnows' /\ ConfirmedIsReal'
    BY <1>8 DEF Crash, Stop
  <1> HIDE DEF RealInv, IInv, TypeOK, BrokerKnows, ConfirmedIsReal
  <1> QED BY <1>1, <1>2, <1>3, <1>4, <1>5, <1>6, <1>7, <1>8 DEF StartStep

(* Every step keeps it, with the invariant of GatewayInv (Next).              *)
LEMMA RealStep ==
    ASSUME RealInv, [Next]_vars
    PROVE  RealInv'
  <1>0. IInv' /\ TypeOK'
    BY NextIInv DEF RealInv, IInv
  <1> SUFFICES BrokerKnows' /\ ConfirmedIsReal'
    BY <1>0 DEF RealInv
  <1>1. ASSUME NEW w \in Workers, WorkerStep(w)
        PROVE  BrokerKnows' /\ ConfirmedIsReal'
    BY <1>0, <1>1, WorkerReal
  <1>2. CASE UNCHANGED vars
    BY <1>2, Regions DEF vars, RealInv, BrokerKnows, NothingUnsent, UnsentYet, AckIsReal,
       ConfirmedIsReal, AtBroker
  <1>3. CASE \/ Tick
             \/ \E d \in Decisions : IssueDecision(d) \/ OperatorRelease(d)
             \/ \E w \in Workers, d \in Decisions : Submit(w, d)
             \/ \E a \in Attempts : BrokerStep(a) \/ OperatorResolve(a)
             \/ \E p \in Procs : StartStep(p) \/ Crash(p)
    BY <1>3, OthersReal
  <1> QED BY <1>1, <1>2, <1>3 DEF Next

(* CONFIRMED is only recorded for a mutation the broker took, whatever other  *)
(* processes share the journal (DispatchVerified, confirmAcked,               *)
(* ResolveConfirmed, OperatorResolve).                                        *)
THEOREM ConfirmationIsReal == Spec => []ConfirmedIsReal
  <1>1. Init => RealInv
    <2> SUFFICES ASSUME Init PROVE RealInv
      OBVIOUS
    <2>1. BrokerKnows /\ ConfirmedIsReal
      BY Regions DEF Init, BrokerKnows, NothingUnsent, UnsentYet, AckIsReal, ConfirmedIsReal
    <2> QED BY <2>1, InitIInv DEF RealInv
  <1>2. RealInv /\ [Next]_vars => RealInv'
    BY RealStep
  <1>3. RealInv => ConfirmedIsReal
    BY DEF RealInv
  <1> QED BY <1>1, <1>2, <1>3, PTL DEF Spec

-----------------------------------------------------------------------------
(* One process. *)

(* One process opens the journal. *)
Solo == \A p, q \in Procs : p = q

(* Inside submit, with the symbol claimed. *)
Claiming == BeforeRecord \cup Recorded \cup Dispatching \cup {"acked"}

(* Goroutines run only in a process that is ready. *)
DownIsIdle == \A w \in Workers : phase[ProcOf[w]] # "ready" => pc[w] = "idle"

(* claimSymbol: each submit of the process works on a symbol of its own. *)
ClaimsApart ==
    /\ \A w \in Workers : pc[w] \in Claiming => SymbolOf[wDec[w]] \in inflight[ProcOf[w]]
    /\ \A v, w \in Workers :
         pc[v] \in Claiming /\ pc[w] \in Claiming /\ SymbolOf[wDec[v]] = SymbolOf[wDec[w]] => v = w

(* The row of a worker's attempt is in the state its submit last wrote. *)
RowFollowsWorker ==
    \A w \in Workers :
        /\ pc[w] \in Recorded => attState[wAtt[w]] = "RECORDED"
        /\ pc[w] \in Dispatching => attState[wAtt[w]] = "DISPATCH_STARTED"
        /\ pc[w] = "acked" => attState[wAtt[w]] = "ACKED"
        /\ pc[w] = "resolving" => attState[wAtt[w]] = "IN_DOUBT"

(* What a row's state says about its dispatch. *)
StateTellsStart ==
    \A a \in Attempts :
        /\ attDec[a] = NoDecision <=> attState[a] = "none"
        /\ attState[a] \in {"none", "RECORDED"} => a \notin started
        /\ attState[a] \in {"DISPATCH_STARTED", "ACKED", "IN_DOUBT", "CONFIRMED",
                            "FAILED_CONFIRMED", "UNRESOLVED_IN_DOUBT"} => a \in started

(* checkSymbolFree's reads stay true until the record. *)
ChecksHold ==
    \A w \in Workers :
        /\ pc[w] \in {"nopending", "free", "unspent"} => UnsettledOn(SymbolOf[wDec[w]]) = {}
        /\ pc[w] \in {"free", "unspent"} \cup Recorded \cup BeforeSend /\ wDec[w] \in Raising
             => UnresolvedOn(SymbolOf[wDec[w]]) = {}

(* The holds: an issued entry has one, bound to an attempt of that decision   *)
(* from the first record on; a hold that still counts is not bound to a row   *)
(* that ended without exposure, and is bound to the attempt that started.     *)
EntriesHold == \A d \in Decisions : hold[d] # "NONE" <=> d \in issued /\ d \in Raising
BoundToOwn == \A d \in Decisions : holdAtt[d] \in Attempts => attDec[holdAtt[d]] = d
HeldIsOpen ==
    \A d \in Decisions : holdAtt[d] \in Attempts /\ hold[d] = "HELD"
                             => attState[holdAtt[d]] \notin {"NOT_DISPATCHED", "FAILED_CONFIRMED"}
RecordedIsBound == \A a \in Attempts : attDec[a] \in Raising => holdAtt[attDec[a]] \in Attempts
StartedIsBound ==
    \A a \in started : attDec[a] \in Raising /\ hold[attDec[a]] = "HELD"
                           => holdAtt[attDec[a]] = a /\ attDec[a] \in spent
HoldsBound == EntriesHold /\ BoundToOwn /\ HeldIsOpen /\ RecordedIsBound /\ StartedIsBound

(* An attempt that is at the broker, or about to be. *)
Exposing(a) == \/ broker[a] \in {"wire", "live"}
               \/ \E w \in Workers : pc[w] = "cleared" /\ wAtt[w] = a

HeldToTheEnd ==
    \A a \in Attempts : attDec[a] \in Raising /\ Exposing(a) => hold[attDec[a]] \in {"HELD", "OPERATOR"}

(* A recovering process's list is the journal's. *)
ListIsCurrent ==
    \A p \in Procs, a \in Attempts :
        /\ listed[p][a] \in {"none", "RECORDED", "DISPATCH_STARTED", "ACKED", "IN_DOUBT"}
        /\ phase[p] = "recovering" =>
             /\ attState[a] \in {"RECORDED", "DISPATCH_STARTED"} => listed[p][a] = attState[a]
             /\ listed[p][a] \in {"RECORDED", "DISPATCH_STARTED"} => listed[p][a] = attState[a]
        /\ phase[p] = "resolving" =>
             /\ attState[a] \notin {"RECORDED", "DISPATCH_STARTED"}
             /\ attState[a] = "IN_DOUBT" => listed[p][a] = "IN_DOUBT"

SoloTables == StateTellsStart /\ HoldsBound /\ ClosedMeansNoOrder /\ OneInFlightPerSymbol
SoloWorkers == DownIsIdle /\ ClaimsApart /\ RowFollowsWorker /\ ChecksHold /\ HeldToTheEnd

(* The inductive invariant of one process on the journal: the rows, the holds *)
(* and the workers tell the same story about every attempt (Gateway.submit,   *)
(* Journal.Prepare, Recovery.Run).                                            *)
SoloInv == RealInv /\ SoloTables /\ SoloWorkers /\ ListIsCurrent

(* While a goroutine works, its process is ready, and there is no other.      *)
LEMMA OneRuns ==
    ASSUME Solo, SoloInv, NEW w \in Workers, pc[w] # "idle"
    PROVE  \A p \in Procs : phase[p] = "ready" /\ ProcOf[w] = p
  BY ProcAssumption DEF Solo, SoloInv, SoloWorkers, DownIsIdle

(* While the process is not ready, no goroutine works.                        *)
LEMMA NoneRuns ==
    ASSUME Solo, SoloInv, NEW p \in Procs, phase[p] # "ready"
    PROVE  \A w \in Workers : pc[w] = "idle"
  BY ProcAssumption DEF Solo, SoloInv, SoloWorkers, DownIsIdle

-----------------------------------------------------------------------------
(* The moves of a row that settle it, or put it in doubt. *)
Settled(a, to) ==
    /\ attState' = [attState EXCEPT ![a] = to]
    /\ hold' = IF ReleasesReservations(to) THEN ReleasedFor(a) ELSE hold
    /\ attState[a] \in PendingStates \cup {"UNRESOLVED_IN_DOUBT"}
    /\ to \in {"IN_DOUBT", "CONFIRMED", "NOT_DISPATCHED", "FAILED_CONFIRMED", "UNRESOLVED_IN_DOUBT"}
    /\ to \in {"NOT_DISPATCHED", "FAILED_CONFIRMED"} => broker[a] \notin {"wire", "live", "closed"}
    /\ to = "CONFIRMED" => AtBroker(a)
    /\ to # "NOT_DISPATCHED" => attState[a] # "RECORDED"
    /\ to = "IN_DOUBT" => attState[a] \in PendingStates
    /\ to = "UNRESOLVED_IN_DOUBT" => attState[a] = "IN_DOUBT"
    /\ UNCHANGED <<issued, attDec, started, spent, holdAtt, broker>>

(* Settling a row keeps the tables in step: the hold bound to it goes when it *)
(* ends without exposure, and no row is added to the symbol (transition,      *)
(* releaseReservationsForAttempt).                                            *)
LEMMA SettledTables ==
    ASSUME SoloInv, TypeOK', NEW a \in Attempts, NEW to, Settled(a, to)
    PROVE  SoloTables'
  <1> USE DEF SoloInv, RealInv, IInv, SoloTables, TypeOK, Settled, PendingStates
  <1>1. StateTellsStart'
    BY DEF StateTellsStart
  <1>2. HoldsBound'
    <2> USE DEF HoldsBound, ReleasedFor, ReleasesReservations
    <2>1. EntriesHold'
      BY DEF EntriesHold
    <2>2. BoundToOwn' /\ RecordedIsBound'
      BY DEF BoundToOwn, RecordedIsBound
    <2>3. HeldIsOpen'
      BY DEF HeldIsOpen
    <2>4. \A d \in Decisions : hold'[d] = "HELD" => hold[d] = "HELD"
      OBVIOUS
    <2>5. StartedIsBound'
      BY <2>4, DecisionAssumption DEF StartedIsBound
    <2> QED BY <2>1, <2>2, <2>3, <2>5
  <1>3. ClosedMeansNoOrder'
    BY DEF ClosedMeansNoOrder
  <1>4. OneInFlightPerSymbol'
    BY DEF OneInFlightPerSymbol, UnsettledOn, AttemptsOn
  <1> QED BY <1>1, <1>2, <1>3, <1>4

(* The hold of another attempt, or of one that reached the broker, is not     *)
(* touched by it.                                                             *)
LEMMA SettledHolds ==
    ASSUME SoloInv, TypeOK', NEW a \in Attempts, NEW to, Settled(a, to),
           \A b \in Attempts : Exposing(b)' => Exposing(b),
           ~\E v \in Workers : pc'[v] = "cleared" /\ wAtt'[v] = a
    PROVE  HeldToTheEnd'
  <1> SUFFICES ASSUME NEW b \in Attempts, attDec'[b] \in Raising, Exposing(b)'
               PROVE  hold'[attDec'[b]] \in {"HELD", "OPERATOR"}
    BY DEF HeldToTheEnd
  <1>1. /\ attDec' = attDec /\ broker' = broker /\ Exposing(b)
        /\ hold[attDec[b]] \in {"HELD", "OPERATOR"} /\ attDec[b] \in Decisions
    BY DecisionAssumption DEF SoloInv, SoloWorkers, HeldToTheEnd, Settled
  <1>2. b \in started
    BY <1>1, Regions DEF Exposing, SoloInv, RealInv, IInv, BrokerKnows, NothingUnsent, RowOK, DispatchOK
  <1>3. CASE ~ReleasesReservations(to)
    BY <1>1, <1>3 DEF Settled
  <1>4. CASE ReleasesReservations(to)
    <2>1. broker[a] \notin {"wire", "live"} /\ hold' = ReleasedFor(a)
      BY <1>4 DEF Settled, ReleasesReservations
    <2>2. a # b
      BY <1>1, <2>1 DEF Exposing
    <2>3. hold[attDec[b]] = "HELD" => holdAtt[attDec[b]] = b
      BY <1>1, <1>2 DEF SoloInv, SoloTables, HoldsBound, StartedIsBound
    <2> QED BY <1>1, <2>1, <2>2, <2>3 DEF ReleasedFor
  <1> QED BY <1>3, <1>4

(* How each of a worker's closing moves settles the worker's own row: the row *)
(* is where submit left it, so the move is always legal.                      *)
LEMMA SettlesOwn ==
    ASSUME SoloInv, NEW w \in Workers, Settles(w)
    PROVE  /\ wAtt[w] \in Attempts
           /\ \E to : Settled(wAtt[w], to) /\ (to = "UNRESOLVED_IN_DOUBT" => pc[w] = "resolving")
  <1> USE Regions, MoveTable DEF SoloInv, RealInv, IInv, SoloTables, SoloWorkers, TypeOK,
          HandleOK, RowFollowsWorker, PendingStates, AtBroker
  <1> DEFINE a == wAtt[w]
  <1>0. a \in Attempts
    BY DEF Settles, Refuse, NonceSpent, NotSent, SettleRejected, MarkInDoubt, SettleConfirmed,
       RoundTripUnconfirmed, ResolveStep
  <1>1. CASE Refuse(w) \/ NonceSpent(w)
    <2>1. attState[a] = "RECORDED" /\ broker[a] = "none"
      BY <1>1 DEF Refuse, NonceSpent, StateTellsStart, BrokerKnows, NothingUnsent, RowOK
    <2>2. Settled(a, "NOT_DISPATCHED")
      BY <1>0, <1>1, <2>1 DEF Refuse, NonceSpent, Transition, CanMove, TransitionAllowed,
         SettleFrom, Settled, ReleasesReservations
    <2> QED BY <1>0, <2>2
  <1>2. CASE NotSent(w)
    <2>1. attState[a] = "DISPATCH_STARTED" /\ (sends[a] = 0 => broker[a] = "none")
      BY <1>2 DEF NotSent, BrokerKnows, NothingUnsent
    <2>2. Settled(a, "NOT_DISPATCHED") \/ Settled(a, "IN_DOUBT")
      <3>1. CASE sends[a] = 0
        BY <1>0, <1>2, <2>1, <3>1 DEF NotSent, Transition, CanMove, TransitionAllowed,
           SettleFrom, Settled, ReleasesReservations
      <3>2. CASE sends[a] # 0
        BY <1>0, <1>2, <2>1, <3>2 DEF NotSent, Transition, CanMove, TransitionAllowed,
           MarkInDoubtFrom, Settled, ReleasesReservations
      <3> QED BY <3>1, <3>2
    <2> QED BY <1>0, <2>2
  <1>3. CASE SettleRejected(w)
    <2>1. Settled(a, "FAILED_CONFIRMED")
      BY <1>0, <1>3 DEF SettleRejected, Transition, CanMove, TransitionAllowed,
         SettleFrom, Settled, ReleasesReservations
    <2> QED BY <1>0, <2>1
  <1>4. CASE MarkInDoubt(w)
    <2>1. Settled(a, "IN_DOUBT")
      BY <1>0, <1>4 DEF MarkInDoubt, Transition, CanMove, TransitionAllowed,
         MarkInDoubtFrom, Settled, ReleasesReservations
    <2> QED BY <1>0, <2>1
  <1>5. CASE SettleConfirmed(w)
    <2>1. Settled(a, "CONFIRMED")
      BY <1>0, <1>5 DEF SettleConfirmed, Transition, CanMove, TransitionAllowed,
         SettleFrom, Settled, ReleasesReservations, BrokerKnows, AckIsReal
    <2> QED BY <1>0, <2>1
  <1>6. CASE RoundTripUnconfirmed(w)
    <2>1. Settled(a, "IN_DOUBT")
      BY <1>0, <1>6 DEF RoundTripUnconfirmed, Transition, CanMove, TransitionAllowed,
         MarkInDoubtFrom, Settled, ReleasesReservations
    <2> QED BY <1>0, <2>1
  <1>7. CASE ResolveStep(w)
    <2>1. Settled(a, "CONFIRMED") \/ Settled(a, "FAILED_CONFIRMED") \/ Settled(a, "UNRESOLVED_IN_DOUBT")
      BY <1>0, <1>7 DEF ResolveStep, Resolve, ResolveConfirmed, ResolveFailed, ResolveUnresolved,
         Transition, CanMove, TransitionAllowed, ResolveConfirmedFrom, ResolveFailedFrom,
         ResolveUnresolvedFrom, Settled, ReleasesReservations
    <2>2. pc[w] = "resolving"
      BY <1>7 DEF ResolveStep
    <2> QED BY <1>0, <2>1, <2>2
  <1> QED BY <1>1, <1>2, <1>3, <1>4, <1>5, <1>6, <1>7 DEF Settles

(* What a closing move does to its worker and to nobody else's.               *)
LEMMA SettlesWorker ==
    ASSUME SoloInv, NEW w \in Workers, Settles(w)
    PROVE  /\ pc[w] \in HasAttempt /\ phase' = phase /\ listed' = listed
           /\ \/ /\ pc' = [pc EXCEPT ![w] = "idle"]
                 /\ wDec' = [wDec EXCEPT ![w] = NoDecision]
                 /\ wAtt' = [wAtt EXCEPT ![w] = NoAttempt]
              \/ /\ pc' = [pc EXCEPT ![w] = "resolving"] /\ pc[w] = "sent"
                 /\ attState'[wAtt[w]] = "IN_DOUBT"
                 /\ UNCHANGED <<wDec, wAtt>>
           /\ IF pc[w] = "resolving" THEN inflight' = inflight
              ELSE inflight' = [inflight EXCEPT ![ProcOf[w]] = @ \ {SymbolOf[wDec[w]]}]
  <1> USE Regions
  <1>1. CASE Refuse(w) \/ NonceSpent(w) \/ NotSent(w) \/ SettleRejected(w) \/ SettleConfirmed(w)
             \/ RoundTripUnconfirmed(w)
    BY <1>1 DEF Refuse, NonceSpent, NotSent, SettleRejected, SettleConfirmed,
       RoundTripUnconfirmed, Return
  <1>2. CASE MarkInDoubt(w)
    <2>1. attState[wAtt[w]] = "DISPATCH_STARTED" /\ wAtt[w] \in Attempts
          /\ attState \in [Attempts -> RowStates]
      BY <1>2 DEF MarkInDoubt, SoloInv, SoloWorkers, RowFollowsWorker, RealInv, IInv, HandleOK, TypeOK
    <2> QED BY <1>2, <2>1 DEF MarkInDoubt, Return, Transition
  <1>3. CASE ResolveStep(w)
    BY <1>3 DEF ResolveStep
  <1> QED BY <1>1, <1>2, <1>3 DEF Settles

(* The end of a submit, and of flatten's resolveStep, keeps the invariant.    *)
LEMMA SettlesKeep ==
    ASSUME Solo, SoloInv, TypeOK', NEW w \in Workers, Settles(w)
    PROVE  SoloTables' /\ SoloWorkers' /\ ListIsCurrent'
  <1> DEFINE a == wAtt[w]
  <1>0. /\ a \in Attempts /\ pc[w] \in HasAttempt
        /\ \A v \in Workers : v # w /\ pc[v] \in HasAttempt => wAtt[v] # a /\ wAtt[v] \in Attempts
    BY SettlesOwn, SettlesWorker DEF SoloInv, RealInv, IInv, HandleUnique, HandleOK
  <1>1. PICK to : Settled(a, to) /\ (to = "UNRESOLVED_IN_DOUBT" => pc[w] = "resolving")
    BY SettlesOwn
  <1>9. /\ phase' = phase /\ listed' = listed
        /\ \/ /\ pc' = [pc EXCEPT ![w] = "idle"]
              /\ wDec' = [wDec EXCEPT ![w] = NoDecision]
              /\ wAtt' = [wAtt EXCEPT ![w] = NoAttempt]
           \/ /\ pc' = [pc EXCEPT ![w] = "resolving"] /\ pc[w] = "sent"
              /\ attState'[a] = "IN_DOUBT"
              /\ UNCHANGED <<wDec, wAtt>>
        /\ IF pc[w] = "resolving" THEN inflight' = inflight
           ELSE inflight' = [inflight EXCEPT ![ProcOf[w]] = @ \ {SymbolOf[wDec[w]]}]
    BY SettlesWorker
  <1>2. SoloTables'
    BY <1>0, <1>1, SettledTables
  <1> USE Regions DEF SoloInv, RealInv, IInv, SoloWorkers, TypeOK, Claiming
  <1>3. DownIsIdle'
    BY <1>0, <1>9 DEF DownIsIdle
  <1>4. ClaimsApart'
    <2>1. \A v \in Workers : pc'[v] \in Claiming => v # w /\ pc[v] \in Claiming /\ wDec'[v] = wDec[v]
      BY <1>9
    <2>2. ASSUME NEW v \in Workers, v # w, pc[v] \in Claiming
          PROVE  SymbolOf[wDec[v]] \in inflight'[ProcOf[v]]
      <3>1. CASE pc[w] = "resolving"
        BY <1>9, <2>2, <3>1 DEF ClaimsApart
      <3>2. CASE pc[w] # "resolving"
        <4>1. pc[w] \in Claiming
          BY <1>0, <3>2
        <4>2. SymbolOf[wDec[v]] # SymbolOf[wDec[w]]
          BY <2>2, <4>1 DEF ClaimsApart
        <4>3. SymbolOf[wDec[v]] \in inflight[ProcOf[v]]
          BY <2>2 DEF ClaimsApart
        <4>4. /\ inflight' = [inflight EXCEPT ![ProcOf[w]] = @ \ {SymbolOf[wDec[w]]}]
              /\ inflight \in [Procs -> SUBSET Symbols] /\ ProcOf[v] \in Procs
          BY <1>9, <3>2, ProcAssumption
        <4> HIDE DEF SoloInv, TypeOK
        <4> QED BY <4>2, <4>3, <4>4
      <3> QED BY <3>1, <3>2
    <2> QED BY <2>1, <2>2 DEF ClaimsApart
  <1>5. RowFollowsWorker'
    BY <1>0, <1>1, <1>9 DEF RowFollowsWorker, Settled
  <1>6. ChecksHold'
    <2>1. \A s : UnsettledOn(s)' \subseteq UnsettledOn(s)
      BY <1>0, <1>1 DEF UnsettledOn, AttemptsOn, Settled, PendingStates
    <2>2. \A v \in Workers : v # w => pc'[v] = pc[v] /\ wDec'[v] = wDec[v]
      BY <1>9
    <2>3. pc'[w] \in {"idle", "resolving"}
      BY <1>9
    <2>4. ASSUME NEW v \in Workers, v # w, wDec[v] \in Raising,
                 pc[v] \in {"free", "unspent"} \cup Recorded \cup BeforeSend
          PROVE  UnresolvedOn(SymbolOf[wDec[v]])' = {}
      <3>1. CASE to # "UNRESOLVED_IN_DOUBT"
        BY <1>0, <1>1, <2>2, <2>4, <3>1 DEF ChecksHold, UnresolvedOn, AttemptsOn, Settled
      <3>2. CASE to = "UNRESOLVED_IN_DOUBT"
        <4>1. attState[a] = "IN_DOUBT" /\ attDec[a] # NoDecision
          BY <1>0, <1>1, <3>2, DecisionAssumption DEF Settled, HandleOK
        <4>2. SymbolOf[attDec[a]] # SymbolOf[wDec[v]]
          <5>1. CASE pc[v] \in {"free", "unspent"}
            BY <1>0, <2>4, <4>1, <5>1 DEF ChecksHold, UnsettledOn, AttemptsOn, PendingStates
          <5>2. CASE pc[v] \in Recorded \cup BeforeSend
            <6>1. /\ wAtt[v] # a /\ wAtt[v] \in Attempts /\ attDec[wAtt[v]] = wDec[v]
                  /\ attState[wAtt[v]] \in PendingStates /\ wDec[v] \in Decisions
              BY <1>0, <2>4, <5>2, DecisionAssumption DEF HandleOK, RowFollowsWorker, PendingStates
            <6> QED BY <1>0, <4>1, <6>1, DecisionAssumption DEF OneInFlightPerSymbol, SoloTables,
                       UnsettledOn, AttemptsOn, PendingStates
          <5> QED BY <2>4, <5>1, <5>2
        <4> QED BY <1>0, <1>1, <2>2, <2>4, <4>2 DEF ChecksHold, UnresolvedOn, AttemptsOn, Settled
      <3> QED BY <3>1, <3>2
    <2> QED BY <2>1, <2>2, <2>3, <2>4 DEF ChecksHold
  <1>7. HeldToTheEnd'
    <2>1. \A v \in Workers : pc'[v] = "cleared" => v # w /\ pc[v] = "cleared" /\ wAtt'[v] = wAtt[v]
      BY <1>9
    <2>2. broker' = broker
      BY <1>1 DEF Settled
    <2>3. \A b \in Attempts : Exposing(b)' => Exposing(b)
      BY <2>1, <2>2 DEF Exposing
    <2>4. ~\E v \in Workers : pc'[v] = "cleared" /\ wAtt'[v] = a
      BY <1>0, <2>1
    <2> HIDE DEF SoloInv
    <2> QED BY <1>0, <1>1, <2>3, <2>4, SettledHolds
  <1>8. ListIsCurrent'
    <2>1. pc[w] # "idle"
      BY <1>0
    <2>2. \A p \in Procs : phase'[p] = "ready"
      BY <2>1, OneRuns, <1>9
    <2> QED BY <1>9, <2>2 DEF ListIsCurrent
  <1> QED BY <1>2, <1>3, <1>4, <1>5, <1>6, <1>7, <1>8

-----------------------------------------------------------------------------
(* The steps that record, start, send and acknowledge. *)

(* A check that passes moves its worker forward with what it read still true: *)
(* nothing else may record on a symbol the worker has claimed                 *)
(* (checkSymbolFree, checkDecisionUnspent, checkDecision, checkReservation).  *)
LEMMA ChecksKeep ==
    ASSUME Solo, SoloInv, TypeOK', NEW w \in Workers, Checks(w)
    PROVE  SoloTables' /\ SoloWorkers' /\ ListIsCurrent'
  <1> USE Regions DEF SoloInv, RealInv, IInv, SoloWorkers, SoloTables, TypeOK
  <1>1. /\ UNCHANGED <<issued, attState, attDec, started, spent, hold, holdAtt, broker, inflight,
                       phase, listed, wDec, wAtt>>
        /\ pc' = [pc EXCEPT ![w] = pc'[w]]
        /\ pc[w] # "idle" /\ pc'[w] # "idle"
        /\ pc[w] \in Claiming /\ pc'[w] \in Claiming
    BY DEF Checks, CheckUnsettled, CheckUnresolved, CheckUnspent, CheckDecision, CheckReservation,
       RecheckDecision, RecheckReservation, RetryCancel, Advance, Claiming
  <1>2. DownIsIdle'
    BY <1>1 DEF DownIsIdle
  <1>3. ClaimsApart'
    <2>1. \A v \in Workers : pc'[v] \in Claiming => pc[v] \in Claiming
      BY <1>1
    <2> QED BY <1>1, <2>1 DEF ClaimsApart
  <1>4. RowFollowsWorker'
    BY DEF Checks, CheckUnsettled, CheckUnresolved, CheckUnspent, CheckDecision, CheckReservation,
       RecheckDecision, RecheckReservation, RetryCancel, Advance, RowFollowsWorker
  <1>5. ChecksHold'
    <2>1. \A s : UnsettledOn(s)' = UnsettledOn(s) /\ UnresolvedOn(s)' = UnresolvedOn(s)
      BY <1>1 DEF UnsettledOn, UnresolvedOn, AttemptsOn
    <2>2. \A v \in Workers : v # w => pc'[v] = pc[v]
      BY <1>1
    <2>3. CASE CheckUnsettled(w) \/ CheckUnresolved(w)
      BY <1>1, <2>1, <2>2, <2>3 DEF CheckUnsettled, CheckUnresolved, Advance, ChecksHold
    <2>4. CASE CheckUnspent(w) \/ CheckDecision(w) \/ CheckReservation(w) \/ RecheckDecision(w)
               \/ RecheckReservation(w)
      BY <1>1, <2>1, <2>2, <2>4 DEF CheckUnspent, CheckDecision, CheckReservation,
         RecheckDecision, RecheckReservation, Advance, ChecksHold
    <2>5. CASE RetryCancel(w)
      <3>1. wDec[w] \notin Raising
        BY <2>5, DecisionAssumption DEF RetryCancel
      <3>2. pc'[w] = "started"
        BY <2>5 DEF RetryCancel, Advance
      <3> QED BY <1>1, <2>1, <2>2, <3>1, <3>2 DEF ChecksHold
    <2> QED BY <2>3, <2>4, <2>5 DEF Checks
  <1>6. HeldToTheEnd'
    <2>1. \A v \in Workers : pc'[v] = "cleared" =>
              \/ pc[v] = "cleared"
              \/ v = w /\ (wDec[w] \in Raising => hold[wDec[w]] = "HELD") /\ attDec[wAtt[w]] = wDec[w]
      BY <1>1 DEF Checks, CheckUnsettled, CheckUnresolved, CheckUnspent, CheckDecision,
         CheckReservation, RecheckDecision, RecheckReservation, RetryCancel, Advance, HandleOK
    <2> QED BY <1>1, <2>1 DEF HeldToTheEnd, Exposing
  <1>7. StateTellsStart' /\ ClosedMeansNoOrder' /\ ListIsCurrent'
    BY <1>1 DEF StateTellsStart, ClosedMeansNoOrder, ListIsCurrent
  <1>8. OneInFlightPerSymbol'
    BY <1>1 DEF OneInFlightPerSymbol, UnsettledOn, AttemptsOn
  <1>9. HoldsBound'
    BY <1>1 DEF HoldsBound, EntriesHold, BoundToOwn, HeldIsOpen, RecordedIsBound, StartedIsBound
  <1> QED BY <1>2, <1>3, <1>4, <1>5, <1>6, <1>7, <1>8, <1>9

(* The claim is what makes it so: a symbol in inflight is nobody else's       *)
(* (claimSymbol).                                                             *)
LEMMA SubmitKeeps ==
    ASSUME Solo, SoloInv, TypeOK', NEW w \in Workers, NEW d \in Decisions, Submit(w, d)
    PROVE  SoloTables' /\ SoloWorkers' /\ ListIsCurrent'
  <1> USE Regions DEF SoloInv, RealInv, IInv, SoloWorkers, SoloTables, TypeOK
  <1>1. /\ UNCHANGED <<issued, attState, attDec, started, spent, hold, holdAtt, broker, phase,
                       listed, wAtt>>
        /\ pc[w] = "idle" /\ pc' = [pc EXCEPT ![w] = "claimed"]
        /\ wDec' = [wDec EXCEPT ![w] = d] /\ phase[ProcOf[w]] = "ready"
        /\ SymbolOf[d] \notin inflight[ProcOf[w]]
        /\ inflight' = [inflight EXCEPT ![ProcOf[w]] = @ \cup {SymbolOf[d]}]
    BY DEF Submit
  <1>2. DownIsIdle'
    BY <1>1 DEF DownIsIdle
  <1>3. ClaimsApart'
    <2>1. \A v \in Workers : ProcOf[v] = ProcOf[w] /\ ProcOf[v] \in Procs
      BY ProcAssumption DEF Solo
    <2>2. \A v \in Workers : v # w /\ pc[v] \in Claiming => SymbolOf[wDec[v]] # SymbolOf[d]
      BY <1>1, <2>1 DEF ClaimsApart
    <2>3. inflight'[ProcOf[w]] = inflight[ProcOf[w]] \cup {SymbolOf[d]}
      BY <1>1, <2>1
    <2>4. \A v \in Workers : v # w => pc'[v] = pc[v] /\ wDec'[v] = wDec[v]
      BY <1>1
    <2>5. wDec'[w] = d
      BY <1>1
    <2> QED BY <2>1, <2>2, <2>3, <2>4, <2>5 DEF ClaimsApart
  <1>4. RowFollowsWorker' /\ HeldToTheEnd'
    BY <1>1 DEF RowFollowsWorker, HeldToTheEnd, Exposing
  <1>5. ChecksHold'
    BY <1>1 DEF ChecksHold, UnsettledOn, UnresolvedOn, AttemptsOn
  <1>6. StateTellsStart' /\ ClosedMeansNoOrder' /\ ListIsCurrent'
    BY <1>1 DEF StateTellsStart, ClosedMeansNoOrder, ListIsCurrent
  <1>7. OneInFlightPerSymbol'
    BY <1>1 DEF OneInFlightPerSymbol, UnsettledOn, AttemptsOn
  <1>8. HoldsBound'
    BY <1>1 DEF HoldsBound, EntriesHold, BoundToOwn, HeldIsOpen, RecordedIsBound, StartedIsBound
  <1> QED BY <1>2, <1>3, <1>4, <1>5, <1>6, <1>7, <1>8

(* Returning without a write leaves the row where it is and frees the symbol  *)
(* (the deferred releaseSymbol).                                              *)
LEMMA ReturnKeeps ==
    ASSUME Solo, SoloInv, TypeOK', NEW w \in Workers, ReturnUnrecorded(w) \/ JournalError(w)
    PROVE  SoloTables' /\ SoloWorkers' /\ ListIsCurrent'
  <1> USE Regions DEF SoloInv, RealInv, IInv, SoloWorkers, SoloTables, TypeOK
  <1>1. /\ UNCHANGED <<issued, attState, attDec, started, spent, hold, holdAtt, broker, phase,
                       listed>>
        /\ pc[w] \in Claiming /\ pc' = [pc EXCEPT ![w] = "idle"]
        /\ wDec' = [wDec EXCEPT ![w] = NoDecision] /\ wAtt' = [wAtt EXCEPT ![w] = NoAttempt]
        /\ inflight' = [inflight EXCEPT ![ProcOf[w]] = @ \ {SymbolOf[wDec[w]]}]
    BY DEF ReturnUnrecorded, JournalError, Return, Claiming
  <1>2. \A v \in Workers : /\ pc'[v] # "idle" => v # w
                           /\ v # w => pc'[v] = pc[v] /\ wDec'[v] = wDec[v] /\ wAtt'[v] = wAtt[v]
    BY <1>1
  <1>3. DownIsIdle'
    BY <1>1, <1>2 DEF DownIsIdle
  <1>4. ClaimsApart'
    <2>1. \A v \in Workers : v # w /\ pc[v] \in Claiming => SymbolOf[wDec[v]] # SymbolOf[wDec[w]]
      BY <1>1 DEF ClaimsApart
    <2>2. \A v \in Workers : \A s : s \in inflight[ProcOf[v]] /\ s # SymbolOf[wDec[w]]
                                  => s \in inflight'[ProcOf[v]]
      BY <1>1, ProcAssumption
    <2>3. \A v \in Workers : pc'[v] \in Claiming => v # w /\ pc[v] \in Claiming /\ wDec'[v] = wDec[v]
      BY <1>2 DEF Claiming
    <2>4. \A v \in Workers : pc'[v] \in Claiming => SymbolOf[wDec'[v]] \in inflight'[ProcOf[v]]
      BY ZenonT(30), <2>1, <2>2, <2>3 DEF ClaimsApart
    <2> QED BY <2>3, <2>4 DEF ClaimsApart
  <1>5. RowFollowsWorker' /\ HeldToTheEnd'
    BY <1>1, <1>2 DEF RowFollowsWorker, HeldToTheEnd, Exposing
  <1>6. ChecksHold'
    BY <1>1, <1>2 DEF ChecksHold, UnsettledOn, UnresolvedOn, AttemptsOn
  <1>7. StateTellsStart' /\ ClosedMeansNoOrder' /\ ListIsCurrent'
    BY <1>1 DEF StateTellsStart, ClosedMeansNoOrder, ListIsCurrent
  <1>8. OneInFlightPerSymbol'
    BY <1>1 DEF OneInFlightPerSymbol, UnsettledOn, AttemptsOn
  <1>9. HoldsBound'
    BY <1>1 DEF HoldsBound, EntriesHold, BoundToOwn, HeldIsOpen, RecordedIsBound, StartedIsBound
  <1> QED BY <1>3, <1>4, <1>5, <1>6, <1>7, <1>8, <1>9

(* Recording an attempt: the symbol was free and is claimed, so the new row   *)
(* is the only unsettled one on it (Journal.Prepare, bindReservationsToAttempt). *)
LEMMA PrepareKeeps ==
    ASSUME Solo, SoloInv, TypeOK', NEW w \in Workers, NEW a \in Attempts, Prepare(w, a)
    PROVE  SoloTables' /\ SoloWorkers' /\ ListIsCurrent'
  <1>0. \A p \in Procs : phase[p] = "ready"
    BY OneRuns DEF Prepare
  <1> USE Regions, DecisionAssumption DEF SoloInv, RealInv, IInv, SoloWorkers, SoloTables, TypeOK
  <1>1. /\ UNCHANGED <<issued, started, spent, hold, broker, inflight, phase, listed, wDec>>
        /\ pc[w] = "unspent" /\ pc' = [pc EXCEPT ![w] = "prepared"]
        /\ wAtt' = [wAtt EXCEPT ![w] = a]
        /\ attState[a] = "none" /\ attState' = [attState EXCEPT ![a] = "RECORDED"]
        /\ attDec' = [attDec EXCEPT ![a] = wDec[w]]
        /\ holdAtt' = IF hold[wDec[w]] # "NONE" /\ holdAtt[wDec[w]] = NoAttempt
                      THEN [holdAtt EXCEPT ![wDec[w]] = a] ELSE holdAtt
    BY DEF Prepare
  <1>2. /\ wDec[w] \in issued /\ wDec[w] \in Decisions /\ attDec[a] = NoDecision
        /\ a \notin started /\ broker[a] = "none"
        /\ \A v \in Workers : pc[v] \in HasAttempt => wAtt[v] # a
    BY <1>1 DEF HandleOK, StateTellsStart, RowOK, BrokerKnows, NothingUnsent
  <1>3. DownIsIdle' /\ ClaimsApart'
    BY <1>1 DEF DownIsIdle, ClaimsApart, Claiming
  <1>4. RowFollowsWorker'
    BY <1>1, <1>2 DEF RowFollowsWorker
  <1>5. ChecksHold'
    <2>1. \A v \in Workers : v # w /\ pc[v] \in Claiming => SymbolOf[wDec[v]] # SymbolOf[wDec[w]]
      BY <1>1 DEF ClaimsApart, Claiming
    <2>2. \A s : /\ UnresolvedOn(s)' \subseteq UnresolvedOn(s)
                 /\ s # SymbolOf[wDec[w]] => UnsettledOn(s)' \subseteq UnsettledOn(s)
      BY <1>1, <1>2 DEF UnresolvedOn, UnsettledOn, AttemptsOn
    <2>3. \A v \in Workers : v # w => pc'[v] = pc[v]
      BY <1>1
    <2>4. pc'[w] = "prepared"
      BY <1>1
    <2> QED BY <1>1, <2>1, <2>2, <2>3, <2>4 DEF ChecksHold, Claiming
  <1>6. HeldToTheEnd'
    <2>1. ~Exposing(a)'
      BY <1>1, <1>2 DEF Exposing
    <2>2. \A b \in Attempts : b # a => (Exposing(b)' => Exposing(b)) /\ attDec'[b] = attDec[b]
      BY <1>1 DEF Exposing
    <2> QED BY <1>1, <2>1, <2>2 DEF HeldToTheEnd
  <1>7. StateTellsStart' /\ ClosedMeansNoOrder'
    BY <1>1, <1>2 DEF StateTellsStart, ClosedMeansNoOrder
  <1>8. OneInFlightPerSymbol'
    <2>1. UnsettledOn(SymbolOf[wDec[w]]) = {}
      BY <1>1 DEF ChecksHold
    <2> QED BY <1>1, <1>2, <2>1 DEF OneInFlightPerSymbol, UnsettledOn, AttemptsOn
  <1>9. HoldsBound'
    <2> USE DEF HoldsBound, StateTellsStart
    <2>1. EntriesHold'
      BY <1>1 DEF EntriesHold
    <2>2. BoundToOwn'
      BY <1>1, <1>2 DEF BoundToOwn
    <2>3. HeldIsOpen'
      BY <1>1, <1>2 DEF HeldIsOpen
    <2>4. RecordedIsBound'
      BY <1>1, <1>2 DEF RecordedIsBound, EntriesHold
    <2>5. StartedIsBound'
      BY <1>1, <1>2 DEF StartedIsBound, RecordedIsBound
    <2> QED BY <2>1, <2>2, <2>3, <2>4, <2>5
  <1>10. ListIsCurrent'
    BY <1>0, <1>1 DEF ListIsCurrent
  <1> QED BY <1>3, <1>4, <1>5, <1>6, <1>7, <1>8, <1>9, <1>10

(* Starting a dispatch: if the hold of an entry still counts it is bound to   *)
(* this very attempt, since every other attempt of the decision is settled,   *)
(* and one that was started would have spent the nonce (MarkDispatchStarted). *)
LEMMA DispatchKeeps ==
    ASSUME Solo, SoloInv, TypeOK', NEW w \in Workers, MarkDispatchStarted(w)
    PROVE  SoloTables' /\ SoloWorkers' /\ ListIsCurrent'
  <1>0. \A p \in Procs : phase[p] = "ready"
    BY OneRuns DEF MarkDispatchStarted
  <1> USE Regions, DecisionAssumption DEF SoloInv, RealInv, IInv, SoloWorkers, SoloTables, TypeOK
  <1> DEFINE a == wAtt[w]
             d == wDec[w]
  <1>1. /\ UNCHANGED <<issued, attDec, hold, holdAtt, broker, inflight, phase, listed, wDec, wAtt>>
        /\ pc[w] = "reserved" /\ pc' = [pc EXCEPT ![w] = "started"]
        /\ attState' = [attState EXCEPT ![a] = "DISPATCH_STARTED"]
        /\ started' = started \cup {a} /\ spent' = spent \cup {d} /\ d \notin spent
    BY DEF MarkDispatchStarted, Advance, Transition, ReleasesReservations
  <1>2. /\ a \in Attempts /\ attDec[a] = d /\ d \in Decisions /\ attState[a] = "RECORDED"
        /\ \A v \in Workers : v # w /\ pc[v] \in HasAttempt => wAtt[v] # a
    BY <1>1 DEF HandleOK, HandleUnique, RowFollowsWorker
  <1>3. DownIsIdle' /\ ClaimsApart'
    BY <1>1 DEF DownIsIdle, ClaimsApart, Claiming
  <1>4. RowFollowsWorker'
    BY <1>1, <1>2 DEF RowFollowsWorker
  <1>5. \A s : UnsettledOn(s)' = UnsettledOn(s) /\ UnresolvedOn(s)' = UnresolvedOn(s)
    BY <1>1, <1>2 DEF UnsettledOn, UnresolvedOn, AttemptsOn, PendingStates
  <1>6. ChecksHold'
    BY <1>1, <1>5 DEF ChecksHold
  <1>7. HeldToTheEnd'
    BY <1>1 DEF HeldToTheEnd, Exposing
  <1>8. StateTellsStart' /\ ClosedMeansNoOrder'
    BY <1>1, <1>2 DEF StateTellsStart, ClosedMeansNoOrder
  <1>9. OneInFlightPerSymbol'
    BY <1>5 DEF OneInFlightPerSymbol
  <1>10. HoldsBound'
    <2> USE DEF HoldsBound
    <2>1. EntriesHold' /\ BoundToOwn' /\ RecordedIsBound'
      BY <1>1 DEF EntriesHold, BoundToOwn, RecordedIsBound
    <2>2. HeldIsOpen'
      BY <1>1, <1>2 DEF HeldIsOpen
    <2>3. ASSUME d \in Raising, hold[d] = "HELD"
          PROVE  holdAtt[d] = a
      <3>1. PICK b \in Attempts : b = holdAtt[d]
        BY <1>2, <2>3 DEF RecordedIsBound
      <3>2. attDec[b] = d /\ attState[b] \notin {"none", "NOT_DISPATCHED", "FAILED_CONFIRMED"}
        BY <1>2, <2>3, <3>1 DEF BoundToOwn, HeldIsOpen, StateTellsStart
      <3>3. b \notin started
        BY <1>1, <2>3, <3>2 DEF StartedIsBound
      <3>4. attState[b] = "RECORDED"
        BY <3>2, <3>3 DEF StateTellsStart, RowStates, AttemptStates
      <3>5. a \in UnsettledOn(SymbolOf[d]) /\ b \in UnsettledOn(SymbolOf[d]) /\ SymbolOf[d] \in Symbols
        BY <1>2, <3>2, <3>4 DEF UnsettledOn, AttemptsOn, PendingStates
      <3> QED BY <3>1, <3>5 DEF OneInFlightPerSymbol
    <2>4. StartedIsBound'
      BY <1>1, <1>2, <2>3 DEF StartedIsBound
    <2> QED BY <2>1, <2>2, <2>4
  <1>11. ListIsCurrent'
    BY <1>0, <1>1 DEF ListIsCurrent
  <1> QED BY <1>3, <1>4, <1>6, <1>7, <1>8, <1>9, <1>10, <1>11

(* Sending: the hold was counted at the last check and nothing has freed it.  *)
LEMMA SendKeeps ==
    ASSUME Solo, SoloInv, TypeOK', NEW w \in Workers, Send(w)
    PROVE  SoloTables' /\ SoloWorkers' /\ ListIsCurrent'
  <1> USE Regions DEF SoloInv, RealInv, IInv, SoloWorkers, SoloTables, TypeOK
  <1>1. /\ UNCHANGED <<issued, attState, attDec, started, spent, hold, holdAtt, inflight, phase,
                       listed, wDec, wAtt>>
        /\ pc[w] = "cleared" /\ pc' = [pc EXCEPT ![w] = "sent"]
        /\ broker' = [broker EXCEPT ![wAtt[w]] = "wire"]
    BY DEF Send, Advance
  <1>2. wAtt[w] \in Attempts /\ attState[wAtt[w]] = "DISPATCH_STARTED"
    BY <1>1 DEF HandleOK, RowFollowsWorker
  <1>3. DownIsIdle' /\ ClaimsApart'
    BY <1>1 DEF DownIsIdle, ClaimsApart, Claiming
  <1>4. RowFollowsWorker'
    BY <1>1 DEF RowFollowsWorker
  <1>5. ChecksHold' /\ OneInFlightPerSymbol'
    BY <1>1 DEF ChecksHold, OneInFlightPerSymbol, UnsettledOn, UnresolvedOn, AttemptsOn
  <1>6. HeldToTheEnd'
    <2>1. \A b \in Attempts : Exposing(b)' => Exposing(b)
      BY <1>1, <1>2 DEF Exposing
    <2> QED BY <1>1, <2>1 DEF HeldToTheEnd
  <1>7. StateTellsStart' /\ ListIsCurrent'
    BY <1>1 DEF StateTellsStart, ListIsCurrent
  <1>8. ClosedMeansNoOrder'
    BY <1>1, <1>2 DEF ClosedMeansNoOrder
  <1>9. HoldsBound'
    BY <1>1 DEF HoldsBound, EntriesHold, BoundToOwn, HeldIsOpen, RecordedIsBound, StartedIsBound
  <1> QED BY <1>3, <1>4, <1>5, <1>6, <1>7, <1>8, <1>9

(* An acknowledgement moves the worker's own row (MarkAcked).                 *)
LEMMA AckKeeps ==
    ASSUME Solo, SoloInv, TypeOK', NEW w \in Workers, MarkAcked(w)
    PROVE  SoloTables' /\ SoloWorkers' /\ ListIsCurrent'
  <1>0. \A p \in Procs : phase[p] = "ready"
    BY OneRuns DEF MarkAcked
  <1> USE Regions DEF SoloInv, RealInv, IInv, SoloWorkers, SoloTables, TypeOK
  <1> DEFINE a == wAtt[w]
  <1>1. /\ UNCHANGED <<issued, attDec, started, spent, hold, holdAtt, broker, inflight, phase,
                       listed, wDec, wAtt>>
        /\ pc[w] = "sent" /\ pc' = [pc EXCEPT ![w] = "acked"]
        /\ attState' = [attState EXCEPT ![a] = "ACKED"]
    BY DEF MarkAcked, Advance, Transition, ReleasesReservations
  <1>2. /\ a \in Attempts /\ attState[a] = "DISPATCH_STARTED"
        /\ \A v \in Workers : v # w /\ pc[v] \in HasAttempt => wAtt[v] # a
    BY <1>1 DEF HandleOK, HandleUnique, RowFollowsWorker
  <1>3. DownIsIdle' /\ ClaimsApart'
    BY <1>1 DEF DownIsIdle, ClaimsApart, Claiming
  <1>4. RowFollowsWorker'
    BY <1>1, <1>2 DEF RowFollowsWorker
  <1>5. \A s : UnsettledOn(s)' = UnsettledOn(s) /\ UnresolvedOn(s)' = UnresolvedOn(s)
    BY <1>1, <1>2 DEF UnsettledOn, UnresolvedOn, AttemptsOn, PendingStates
  <1>6. ChecksHold' /\ OneInFlightPerSymbol'
    BY <1>1, <1>5 DEF ChecksHold, OneInFlightPerSymbol
  <1>7. HeldToTheEnd'
    BY <1>1 DEF HeldToTheEnd, Exposing
  <1>8. StateTellsStart' /\ ClosedMeansNoOrder'
    BY <1>1, <1>2 DEF StateTellsStart, ClosedMeansNoOrder
  <1>9. HoldsBound'
    BY <1>1, <1>2 DEF HoldsBound, EntriesHold, BoundToOwn, HeldIsOpen, RecordedIsBound, StartedIsBound
  <1>10. ListIsCurrent'
    BY <1>0, <1>1 DEF ListIsCurrent
  <1> QED BY <1>3, <1>4, <1>6, <1>7, <1>8, <1>9, <1>10

-----------------------------------------------------------------------------
(* The issuer, the operators, the broker and the fill path. *)

(* An exposed entry whose hold counts has spent its nonce and owns its hold.  *)
LEMMA ExposedIsBound ==
    ASSUME SoloInv, NEW a \in Attempts, attDec[a] \in Raising, Exposing(a), hold[attDec[a]] = "HELD"
    PROVE  holdAtt[attDec[a]] = a /\ attDec[a] \in spent
  <1>1. a \in started
    BY Regions DEF Exposing, SoloInv, RealInv, IInv, BrokerKnows, NothingUnsent, RowOK, DispatchOK
  <1> QED BY <1>1 DEF SoloInv, SoloTables, HoldsBound, StartedIsBound

(* The clock, a new decision with the sweep that comes with it, and an        *)
(* operator's release: only holds of unspent decisions lapse                  *)
(* (RecordDecisionAndReserve, OperatorReleaseReservation).                    *)
LEMMA IssueKeeps ==
    ASSUME SoloInv, TypeOK',
           Tick \/ \E d \in Decisions : IssueDecision(d) \/ OperatorRelease(d)
    PROVE  SoloTables' /\ SoloWorkers' /\ ListIsCurrent'
  <1>0. \A b \in Attempts : attDec[b] \in Raising /\ Exposing(b) /\ hold[attDec[b]] = "HELD"
                              => attDec[b] \in spent
    BY ExposedIsBound
  <1> USE Regions, DecisionAssumption DEF SoloInv, RealInv, IInv, SoloWorkers, SoloTables, TypeOK
  <1>1. /\ UNCHANGED <<attState, attDec, started, spent, holdAtt, broker, inflight, phase,
                       listed, pc, wDec, wAtt>>
    BY DEF Tick, IssueDecision, OperatorRelease
  <1>2. DownIsIdle' /\ ClaimsApart' /\ RowFollowsWorker'
    BY <1>1 DEF DownIsIdle, ClaimsApart, RowFollowsWorker
  <1>3. StateTellsStart' /\ ClosedMeansNoOrder' /\ ListIsCurrent'
    BY <1>1 DEF StateTellsStart, ClosedMeansNoOrder, ListIsCurrent
  <1>4. ChecksHold' /\ OneInFlightPerSymbol'
    BY <1>1 DEF ChecksHold, OneInFlightPerSymbol, UnsettledOn, UnresolvedOn, AttemptsOn
  <1>5. \A b \in Attempts : Exposing(b)' = Exposing(b)
    BY <1>1 DEF Exposing
  <1>6. CASE Tick
    BY <1>1, <1>2, <1>3, <1>4, <1>5, <1>6 DEF Tick, HeldToTheEnd, HoldsBound, EntriesHold,
       BoundToOwn, HeldIsOpen, RecordedIsBound, StartedIsBound
  <1>7. ASSUME NEW d \in Decisions, IssueDecision(d)
        PROVE  HeldToTheEnd' /\ HoldsBound'
    <2>1. /\ d \notin issued /\ issued' = issued \cup {d}
          /\ hold' = IF d \in Raising THEN [SweptExpired EXCEPT ![d] = "HELD"] ELSE hold
      BY <1>7 DEF IssueDecision
    <2>2. ASSUME NEW e \in Decisions, e # d
          PROVE  \/ hold'[e] = hold[e]
                 \/ hold[e] = "HELD" /\ e \notin spent /\ hold'[e] = "EXPIRED_UNCONSUMED"
      <3>1. SweptExpired[e] \in {hold[e], "EXPIRED_UNCONSUMED"} /\ DOMAIN SweptExpired = Decisions
            /\ (SweptExpired[e] # hold[e] => hold[e] = "HELD" /\ e \notin spent)
        BY DEF SweptExpired
      <3>2. CASE d \in Raising
        <4>1. hold'[e] = SweptExpired[e]
          BY <2>1, <2>2, <3>2 DEF SweptExpired
        <4> QED BY <3>1, <4>1
      <3>3. CASE d \notin Raising
        BY <2>1, <3>3
      <3> QED BY <3>2, <3>3
    <2>3. \A b \in Attempts : attDec[b] # d
      BY <2>1 DEF RowOK, StateTellsStart
    <2>4. holdAtt[d] \notin Attempts
      BY <2>3 DEF HoldsBound, BoundToOwn
    <2>5. HeldToTheEnd'
      BY <1>0, <1>1, <1>5, <2>2, <2>3 DEF HeldToTheEnd
    <2>6. EntriesHold'
      BY <2>1, <2>2 DEF HoldsBound, EntriesHold, SweptExpired
    <2>7. BoundToOwn' /\ RecordedIsBound'
      BY <1>1 DEF HoldsBound, BoundToOwn, RecordedIsBound
    <2>8. HeldIsOpen' /\ StartedIsBound'
      BY <1>1, <2>2, <2>3, <2>4 DEF HoldsBound, HeldIsOpen, StartedIsBound
    <2> QED BY <2>5, <2>6, <2>7, <2>8 DEF HoldsBound
  <1>8. ASSUME NEW d \in Decisions, OperatorRelease(d)
        PROVE  HeldToTheEnd' /\ HoldsBound'
    BY <1>1, <1>5, <1>8 DEF OperatorRelease, HeldToTheEnd, HoldsBound, EntriesHold,
       BoundToOwn, HeldIsOpen, RecordedIsBound, StartedIsBound
  <1> QED BY <1>2, <1>3, <1>4, <1>6, <1>7, <1>8

(* The broker moves requests that were sent, and a row closed as "it did not  *)
(* happen" has none; the fill path frees the hold of an order that ended      *)
(* (RecordFill).                                                              *)
LEMMA BrokerKeeps ==
    ASSUME SoloInv, TypeOK', NEW a \in Attempts, BrokerStep(a)
    PROVE  SoloTables' /\ SoloWorkers' /\ ListIsCurrent'
  <1>0. \A b \in Attempts : attDec[b] \in Raising /\ Exposing(b) /\ hold[attDec[b]] = "HELD"
                              => holdAtt[attDec[b]] = b
    BY ExposedIsBound
  <1> USE Regions, DecisionAssumption DEF SoloInv, RealInv, IInv, SoloWorkers, SoloTables, TypeOK
  <1>1. /\ UNCHANGED <<issued, attState, attDec, started, spent, holdAtt, inflight, phase,
                       listed, pc, wDec, wAtt>>
    BY DEF BrokerStep, BrokerAccepts, BrokerRefuses, RequestLost, OrderEnds, BrokerMoves,
       RecordTerminalFill
  <1>2. DownIsIdle' /\ ClaimsApart' /\ RowFollowsWorker'
    BY <1>1 DEF DownIsIdle, ClaimsApart, RowFollowsWorker
  <1>3. StateTellsStart' /\ ListIsCurrent'
    BY <1>1 DEF StateTellsStart, ListIsCurrent
  <1>4. ChecksHold' /\ OneInFlightPerSymbol'
    BY <1>1 DEF ChecksHold, OneInFlightPerSymbol, UnsettledOn, UnresolvedOn, AttemptsOn
  <1>5. CASE BrokerAccepts(a) \/ BrokerRefuses(a) \/ RequestLost(a) \/ OrderEnds(a)
    <2>1. hold' = hold /\ \A b \in Attempts : b # a => broker'[b] = broker[b]
      BY <1>5 DEF BrokerAccepts, BrokerRefuses, RequestLost, OrderEnds, BrokerMoves
    <2>2. broker[a] \in {"wire", "live"}
      BY <1>5 DEF BrokerAccepts, BrokerRefuses, RequestLost, OrderEnds, BrokerMoves
    <2>3. ClosedMeansNoOrder'
      BY <1>1, <2>1, <2>2 DEF ClosedMeansNoOrder
    <2>4. HeldToTheEnd'
      BY <1>1, <2>1, <2>2 DEF HeldToTheEnd, Exposing
    <2>5. HoldsBound'
      BY <1>1, <2>1 DEF HoldsBound, EntriesHold, BoundToOwn, HeldIsOpen, RecordedIsBound,
         StartedIsBound
    <2> QED BY <1>2, <1>3, <1>4, <2>3, <2>4, <2>5
  <1>6. CASE RecordTerminalFill(a)
    <2>1. /\ broker' = broker /\ broker[a] = "closed" /\ attState[a] = "CONFIRMED"
          /\ hold' = ReleasedFor(a)
      BY <1>6 DEF RecordTerminalFill
    <2>2. ClosedMeansNoOrder'
      BY <1>1, <2>1 DEF ClosedMeansNoOrder
    <2>3. ~Exposing(a) /\ \A b \in Attempts : Exposing(b)' = Exposing(b)
      BY <1>1, <2>1 DEF Exposing, RowFollowsWorker
    <2>4. HeldToTheEnd'
      BY <1>0, <1>1, <2>1, <2>3 DEF HeldToTheEnd, ReleasedFor
    <2>5. HoldsBound'
      BY <1>1, <2>1 DEF HoldsBound, EntriesHold, BoundToOwn, HeldIsOpen, RecordedIsBound,
         StartedIsBound, ReleasedFor
    <2> QED BY <1>2, <1>3, <1>4, <2>2, <2>4, <2>5
  <1> QED BY <1>5, <1>6 DEF BrokerStep

(* A row that nobody is working on is settled: by an operator, or by the      *)
(* resolver of a start (OperatorResolve, Resolver.Resolve).                   *)
LEMMA OthersSettle ==
    ASSUME SoloInv, TypeOK', NEW a \in Attempts, NEW to, Settled(a, to), UNCHANGED workerVars,
           attState[a] = "UNRESOLVED_IN_DOUBT" \/ \A w \in Workers : pc[w] = "idle"
    PROVE  /\ SoloTables' /\ RowFollowsWorker' /\ ChecksHold' /\ HeldToTheEnd'
  <1>0. SoloTables'
    BY SettledTables
  <1>2. /\ broker' = broker /\ attDec' = attDec
        /\ attState' = [attState EXCEPT ![a] = to] /\ attState \in [Attempts -> RowStates]
        /\ to = "IN_DOUBT" => attState[a] \in PendingStates
    BY DEF Settled, SoloInv, RealInv, IInv, TypeOK
  <1>3. HeldToTheEnd'
    <2>1. \A b \in Attempts : Exposing(b)' => Exposing(b)
      BY <1>2 DEF Exposing
    <2>2. ~\E v \in Workers : pc'[v] = "cleared" /\ wAtt'[v] = a
      BY Regions DEF SoloInv, SoloWorkers, RowFollowsWorker
    <2> QED BY <2>1, <2>2, SettledHolds
  <1>4. RowFollowsWorker'
    BY <1>2, Regions DEF SoloInv, SoloWorkers, RowFollowsWorker, RealInv, IInv, HandleOK
  <1>5. ChecksHold'
    <2>1. CASE \A w \in Workers : pc[w] = "idle"
      BY <2>1, Regions DEF ChecksHold
    <2>2. CASE attState[a] = "UNRESOLVED_IN_DOUBT"
      <3>1. to \notin PendingStates \cup {"UNRESOLVED_IN_DOUBT"}
        BY <2>2 DEF Settled, PendingStates
      <3>2. \A s : UnsettledOn(s)' \subseteq UnsettledOn(s) /\ UnresolvedOn(s)' \subseteq UnresolvedOn(s)
        BY <1>2, <2>2, <3>1 DEF UnsettledOn, UnresolvedOn, AttemptsOn
      <3> QED BY <3>2 DEF ChecksHold, SoloInv, SoloWorkers
    <2> QED BY <2>1, <2>2
  <1> QED BY <1>0, <1>3, <1>4, <1>5

(* An operator settles a parked row after looking at the broker.              *)
LEMMA OperatorSettles ==
    ASSUME SoloInv, NEW a \in Attempts, OperatorResolve(a)
    PROVE  \E to \in {"CONFIRMED", "FAILED_CONFIRMED"} : Settled(a, to)
  BY MoveTable DEF OperatorResolve, AtBroker, Transition, CanMove, TransitionAllowed,
     OperatorResolveFrom, Settled, ReleasesReservations, PendingStates, SoloInv, RealInv, IInv, TypeOK

(* That keeps the invariant.                                                  *)
LEMMA OperatorKeeps ==
    ASSUME SoloInv, TypeOK', NEW a \in Attempts, OperatorResolve(a)
    PROVE  SoloTables' /\ SoloWorkers' /\ ListIsCurrent'
  <1>1. \E to \in {"CONFIRMED", "FAILED_CONFIRMED"} : Settled(a, to)
    BY OperatorSettles
  <1>2. /\ UNCHANGED <<phase, listed, inflight, workerVars>> /\ attState[a] = "UNRESOLVED_IN_DOUBT"
    BY DEF OperatorResolve
  <1>3. SoloTables' /\ RowFollowsWorker' /\ ChecksHold' /\ HeldToTheEnd'
    BY <1>1, <1>2, OthersSettle
  <1>4. DownIsIdle' /\ ClaimsApart'
    BY <1>2 DEF SoloInv, SoloWorkers, DownIsIdle, ClaimsApart
  <1>5. ListIsCurrent'
    BY <1>1, <1>2 DEF Settled, SoloInv, RealInv, IInv, TypeOK, ListIsCurrent
  <1> QED BY <1>3, <1>4, <1>5 DEF SoloWorkers

-----------------------------------------------------------------------------
(* The start of a process. *)

(* Sweeping, pruning, listing and dying: a hold is freed only when no request *)
(* can be travelling under it, and a nonce under a counting hold stays        *)
(* (SweepReservations, PruneSpentNonces, Recovery.Run).                       *)
LEMMA PhaseKeeps ==
    ASSUME Solo, SoloInv, TypeOK', NEW p \in Procs,
           \/ StartFlatten(p) \/ SweepReservations(p) \/ PruneSpentNonces(p) \/ BeginRecovery(p)
           \/ BeginResolution(p) \/ FinishRecovery(p)
    PROVE  SoloTables' /\ SoloWorkers' /\ ListIsCurrent'
  <1>0. /\ \A b \in Attempts : attDec[b] \in Raising /\ Exposing(b) /\ hold[attDec[b]] = "HELD"
                                 => attDec[b] \in spent
        /\ \A w \in Workers : pc[w] = "idle"
    BY ExposedIsBound, NoneRuns DEF StartFlatten, SweepReservations, PruneSpentNonces, BeginRecovery,
       BeginResolution, FinishRecovery
  <1> USE Regions, DecisionAssumption DEF SoloInv, RealInv, IInv, SoloWorkers, SoloTables, TypeOK
  <1>1. UNCHANGED <<issued, attState, attDec, started, holdAtt, broker, inflight, pc, wDec, wAtt>>
    BY DEF StartFlatten, SweepReservations, PruneSpentNonces, BeginRecovery, BeginResolution,
       ListPending, FinishRecovery
  <1>2. DownIsIdle' /\ ClaimsApart' /\ RowFollowsWorker'
    BY <1>0, <1>1 DEF DownIsIdle, ClaimsApart, RowFollowsWorker
  <1>3. StateTellsStart' /\ ClosedMeansNoOrder'
    BY <1>1 DEF StateTellsStart, ClosedMeansNoOrder
  <1>4. ChecksHold' /\ OneInFlightPerSymbol'
    BY <1>1 DEF ChecksHold, OneInFlightPerSymbol, UnsettledOn, UnresolvedOn, AttemptsOn
  <1>5. /\ \A d \in Decisions : \/ hold'[d] = hold[d]
                                \/ hold[d] = "HELD" /\ d \notin spent /\ hold'[d] = "EXPIRED_UNCONSUMED"
        /\ \A d \in spent : hold[d] = "HELD" => d \in spent'
        /\ \A d \in Decisions : hold'[d] = "HELD" => hold[d] = "HELD"
    <2>1. CASE SweepReservations(p)
      <3>1. \A d \in Decisions : ~(/\ hold[d] = "HELD" /\ holdAtt[d] # NoAttempt
                                  /\ ReleasesReservations(attState[holdAtt[d]]))
        BY DEF HoldsBound, HeldIsOpen, ReleasesReservations
      <3> QED BY <2>1, <3>1 DEF SweepReservations, SweptExpired
    <2>2. CASE ~SweepReservations(p)
      BY <2>2 DEF StartFlatten, PruneSpentNonces, Prunable, BeginRecovery, BeginResolution,
         ListPending, FinishRecovery
    <2> QED BY <2>1, <2>2
  <1>6. HeldToTheEnd'
    <2>1. \A b \in Attempts : Exposing(b)' = Exposing(b)
      BY <1>1 DEF Exposing
    <2> QED BY <1>0, <1>1, <1>5, <2>1 DEF HeldToTheEnd
  <1>7. HoldsBound'
    <2>1. EntriesHold' /\ BoundToOwn' /\ RecordedIsBound'
      BY <1>1, <1>5 DEF HoldsBound, EntriesHold, BoundToOwn, RecordedIsBound
    <2>2. HeldIsOpen' /\ StartedIsBound'
      BY <1>1, <1>5 DEF HoldsBound, HeldIsOpen, StartedIsBound
    <2> QED BY <2>1, <2>2 DEF HoldsBound
  <1>8. ListIsCurrent'
    BY DEF StartFlatten, SweepReservations, PruneSpentNonces, BeginRecovery, BeginResolution,
       ListPending, FinishRecovery, GoTo, ListIsCurrent, PendingStates, NothingListed, Solo
  <1> QED BY <1>2, <1>3, <1>4, <1>6, <1>7, <1>8

(* A crash takes the goroutines and the claims, not the journal (Stop).       *)
LEMMA CrashKeeps ==
    ASSUME Solo, SoloInv, TypeOK', NEW p \in Procs, Crash(p)
    PROVE  SoloTables' /\ SoloWorkers' /\ ListIsCurrent'
  <1> USE Regions DEF SoloInv, RealInv, IInv, SoloWorkers, SoloTables, TypeOK
  <1>1. /\ UNCHANGED <<issued, attState, attDec, started, spent, hold, holdAtt, broker>>
        /\ \A w \in Workers : pc'[w] = "idle" /\ \A q \in Procs : phase'[q] = "down"
    BY ProcAssumption DEF Crash, Stop, GoTo, Solo
  <1>2. DownIsIdle' /\ ClaimsApart' /\ RowFollowsWorker'
    BY <1>1 DEF DownIsIdle, ClaimsApart, RowFollowsWorker, Claiming
  <1>3. StateTellsStart' /\ ClosedMeansNoOrder'
    BY <1>1 DEF StateTellsStart, ClosedMeansNoOrder
  <1>4. ChecksHold' /\ OneInFlightPerSymbol'
    BY <1>1 DEF ChecksHold, OneInFlightPerSymbol, UnsettledOn, UnresolvedOn, AttemptsOn
  <1>5. HeldToTheEnd'
    BY <1>1 DEF HeldToTheEnd, Exposing
  <1>6. HoldsBound'
    BY <1>1 DEF HoldsBound, EntriesHold, BoundToOwn, HeldIsOpen, RecordedIsBound, StartedIsBound
  <1>7. ListIsCurrent'
    BY DEF Crash, Stop, GoTo, NothingListed, ListIsCurrent, Solo
  <1> QED BY <1>2, <1>3, <1>4, <1>5, <1>6, <1>7

(* RecoverPending: with one process the list is still what the journal says,  *)
(* so every move it makes is legal and no start fails on it.                  *)
LEMMA RecoverSettles ==
    ASSUME Solo, SoloInv, NEW p \in Procs, NEW a \in Attempts, RecoverOne(p, a)
    PROVE  /\ Unlist(p, a) /\ UNCHANGED <<phase, inflight, workerVars>>
           /\ \/ /\ listed[p][a] \in {"ACKED", "IN_DOUBT"}
                 /\ UNCHANGED <<attState, hold>>
              \/ /\ listed[p][a] \in {"RECORDED", "DISPATCH_STARTED"}
                 /\ Settled(a, IF listed[p][a] = "RECORDED" THEN "NOT_DISPATCHED" ELSE "IN_DOUBT")
  <1> DEFINE to == IF listed[p][a] = "RECORDED" THEN "NOT_DISPATCHED" ELSE "IN_DOUBT"
             from == IF listed[p][a] = "RECORDED" THEN SettleFrom ELSE MarkInDoubtFrom
  <1>0. /\ phase[p] = "recovering" /\ listed[p][a] # "none"
        /\ UNCHANGED <<issued, attDec, started, spent, holdAtt, broker>>
    BY DEF RecoverOne
  <1>1. CASE listed[p][a] \in {"ACKED", "IN_DOUBT"}
    BY <1>1 DEF RecoverOne
  <1>2. CASE listed[p][a] \notin {"ACKED", "IN_DOUBT"}
    <2>1. listed[p][a] \in {"RECORDED", "DISPATCH_STARTED"} /\ attState[a] = listed[p][a]
      BY <1>0, <1>2 DEF SoloInv, ListIsCurrent
    <2>2. CanMove(a, to, from)
      BY <2>1, MoveTable DEF CanMove, TransitionAllowed, SettleFrom, MarkInDoubtFrom, SoloInv, RealInv,
         IInv, TypeOK
    <2>3. /\ Transition(a, to, from)
          /\ Unlist(p, a) /\ UNCHANGED <<phase, inflight, workerVars>>
      BY <1>2, <2>2 DEF RecoverOne
    <2>4. listed[p][a] = "RECORDED" => broker[a] = "none"
      BY <2>1 DEF SoloInv, SoloTables, StateTellsStart, RealInv, IInv, RowOK, BrokerKnows, NothingUnsent
    <2>5. Settled(a, to)
      BY <1>0, <2>1, <2>2, <2>3, <2>4 DEF Settled, Transition, PendingStates
    <2> QED BY <2>1, <2>3, <2>5
  <1> QED BY <1>1, <1>2

(* So a recovery keeps the invariant.                                         *)
LEMMA RecoverKeeps ==
    ASSUME Solo, SoloInv, TypeOK', NEW p \in Procs, NEW a \in Attempts, RecoverOne(p, a)
    PROVE  SoloTables' /\ SoloWorkers' /\ ListIsCurrent'
  <1>0. /\ phase[p] = "recovering" /\ listed[p][a] # "none"
        /\ \A w \in Workers : pc[w] = "idle"
        /\ UNCHANGED <<issued, attDec, started, spent, holdAtt, broker>>
    BY NoneRuns DEF RecoverOne
  <1>9. Unlist(p, a) /\ UNCHANGED <<phase, inflight, workerVars>>
    BY RecoverSettles
  <1>1. CASE UNCHANGED <<attState, hold>> /\ listed[p][a] \in {"ACKED", "IN_DOUBT"}
    <2>1. /\ UNCHANGED <<attState, hold, phase, inflight, workerVars>> /\ Unlist(p, a)
      BY <1>1, <1>9
    <2> USE DEF SoloInv, SoloTables, SoloWorkers
    <2>2. DownIsIdle' /\ ClaimsApart' /\ RowFollowsWorker' /\ StateTellsStart' /\ ClosedMeansNoOrder'
      BY <1>0, <2>1, Regions DEF DownIsIdle, ClaimsApart, Claiming, RowFollowsWorker, StateTellsStart,
         ClosedMeansNoOrder
    <2>3. ChecksHold' /\ OneInFlightPerSymbol' /\ HeldToTheEnd'
      BY <1>0, <2>1, Regions DEF ChecksHold, OneInFlightPerSymbol, UnsettledOn, UnresolvedOn, AttemptsOn,
         HeldToTheEnd, Exposing
    <2>4. HoldsBound'
      BY <1>0, <2>1 DEF HoldsBound, EntriesHold, BoundToOwn, HeldIsOpen, RecordedIsBound, StartedIsBound
    <2>5. ListIsCurrent'
      BY <1>0, <1>1, <2>1 DEF Unlist, ListIsCurrent, Solo, RealInv, IInv, TypeOK
    <2> QED BY <2>2, <2>3, <2>4, <2>5
  <1> DEFINE to == IF listed[p][a] = "RECORDED" THEN "NOT_DISPATCHED" ELSE "IN_DOUBT"
  <1>2. CASE listed[p][a] \in {"RECORDED", "DISPATCH_STARTED"} /\ Settled(a, to)
    <2> HIDE DEF to
    <2>6. SoloTables' /\ RowFollowsWorker' /\ ChecksHold' /\ HeldToTheEnd'
      BY <1>0, <1>2, <1>9, OthersSettle
    <2>7. DownIsIdle' /\ ClaimsApart'
      BY <1>0, <1>9, Regions DEF DownIsIdle, ClaimsApart, Claiming
    <2>8. ListIsCurrent'
      BY <1>0, <1>2, <1>9 DEF Settled, Unlist, to, SoloInv, ListIsCurrent, Solo, RealInv, IInv, TypeOK
    <2> QED BY <2>6, <2>7, <2>8 DEF SoloWorkers
  <1> QED BY <1>1, <1>2, RecoverSettles

(* Recovery.Run's resolution settles a doubtful row, or leaves it pending.    *)
LEMMA ResolverSettles ==
    ASSUME SoloInv, NEW p \in Procs, NEW a \in Attempts, ResolveOne(p, a)
    PROVE  \/ UNCHANGED <<attState, hold>>
           \/ \E to \in {"CONFIRMED", "FAILED_CONFIRMED", "UNRESOLVED_IN_DOUBT"} : Settled(a, to)
  BY MoveTable DEF ResolveOne, Resolve, ResolveConfirmed, ResolveFailed, ResolveUnresolved, AtBroker,
     Transition, CanMove, TransitionAllowed, ResolveConfirmedFrom, ResolveFailedFrom,
     ResolveUnresolvedFrom, Settled, ReleasesReservations, PendingStates, SoloInv, RealInv, IInv, TypeOK

(* Either way the invariant is kept.                                          *)
LEMMA ResolveKeeps ==
    ASSUME Solo, SoloInv, TypeOK', NEW p \in Procs, NEW a \in Attempts, ResolveOne(p, a)
    PROVE  SoloTables' /\ SoloWorkers' /\ ListIsCurrent'
  <1>0. /\ phase[p] = "resolving" /\ listed[p][a] # "none"
        /\ \A w \in Workers : pc[w] = "idle"
        /\ UNCHANGED <<issued, attDec, started, spent, holdAtt, broker, phase, inflight, workerVars>>
        /\ Unlist(p, a)
    BY NoneRuns DEF ResolveOne
  <1>1. \/ UNCHANGED <<attState, hold>>
        \/ \E to \in {"CONFIRMED", "FAILED_CONFIRMED", "UNRESOLVED_IN_DOUBT"} : Settled(a, to)
    BY ResolverSettles
  <1>2. SoloTables' /\ RowFollowsWorker' /\ ChecksHold' /\ HeldToTheEnd'
    <2>1. CASE UNCHANGED <<attState, hold>>
      <3> USE DEF SoloInv, SoloTables, SoloWorkers
      <3>1. StateTellsStart' /\ ClosedMeansNoOrder' /\ RowFollowsWorker'
        BY <1>0, <2>1 DEF StateTellsStart, ClosedMeansNoOrder, RowFollowsWorker
      <3>2. ChecksHold' /\ OneInFlightPerSymbol' /\ HeldToTheEnd'
        BY <1>0, <2>1, Regions DEF ChecksHold, OneInFlightPerSymbol, UnsettledOn, UnresolvedOn,
           AttemptsOn, HeldToTheEnd, Exposing
      <3>3. HoldsBound'
        BY <1>0, <2>1 DEF HoldsBound, EntriesHold, BoundToOwn, HeldIsOpen, RecordedIsBound,
           StartedIsBound
      <3> QED BY <3>1, <3>2, <3>3
    <2>2. CASE ~UNCHANGED <<attState, hold>>
      BY <1>0, <1>1, <2>2, OthersSettle
    <2> QED BY <2>1, <2>2
  <1>3. DownIsIdle' /\ ClaimsApart'
    BY <1>0, Regions DEF DownIsIdle, ClaimsApart, Claiming
  <1>4. ListIsCurrent'
    BY <1>0, MoveTable DEF ResolveOne, Resolve, ResolveConfirmed, ResolveFailed, ResolveUnresolved,
       Transition, CanMove, TransitionAllowed, ResolveConfirmedFrom, ResolveFailedFrom,
       ResolveUnresolvedFrom, Unlist, ListIsCurrent, Solo, SoloInv, RealInv, IInv, TypeOK
  <1> QED BY <1>2, <1>3, <1>4 DEF SoloWorkers

-----------------------------------------------------------------------------
(* The theorems. *)

(* Every step of the one process, its broker, its operators and its clock     *)
(* keeps the invariant (Next).                                                *)
LEMMA SoloStep ==
    ASSUME Solo, SoloInv, [Next]_vars
    PROVE  SoloInv'
  <1>0. RealInv' /\ TypeOK'
    BY RealStep DEF SoloInv, RealInv, IInv
  <1> SUFFICES SoloTables' /\ SoloWorkers' /\ ListIsCurrent'
    BY <1>0 DEF SoloInv
  <1>1. CASE Tick \/ \E d \in Decisions : IssueDecision(d) \/ OperatorRelease(d)
    BY <1>0, <1>1, IssueKeeps
  <1>2. ASSUME NEW w \in Workers, NEW d \in Decisions, Submit(w, d)
        PROVE  SoloTables' /\ SoloWorkers' /\ ListIsCurrent'
    BY <1>0, <1>2, SubmitKeeps
  <1>3. ASSUME NEW w \in Workers, WorkerStep(w)
        PROVE  SoloTables' /\ SoloWorkers' /\ ListIsCurrent'
    <2>1. CASE Checks(w)
      BY <1>0, <2>1, ChecksKeep
    <2>2. CASE ReturnUnrecorded(w) \/ JournalError(w)
      BY <1>0, <2>2, ReturnKeeps
    <2>3. CASE \E a \in Attempts : Prepare(w, a)
      BY <1>0, <2>3, PrepareKeeps
    <2>4. CASE MarkDispatchStarted(w)
      BY <1>0, <2>4, DispatchKeeps
    <2>5. CASE Send(w)
      BY <1>0, <2>5, SendKeeps
    <2>6. CASE MarkAcked(w)
      BY <1>0, <2>6, AckKeeps
    <2>7. CASE Settles(w)
      BY <1>0, <2>7, SettlesKeep
    <2> QED BY <1>3, <2>1, <2>2, <2>3, <2>4, <2>5, <2>6, <2>7 DEF WorkerStep, Checks, Settles
  <1>4. ASSUME NEW a \in Attempts, BrokerStep(a) \/ OperatorResolve(a)
        PROVE  SoloTables' /\ SoloWorkers' /\ ListIsCurrent'
    BY <1>0, <1>4, BrokerKeeps, OperatorKeeps
  <1>5. ASSUME NEW p \in Procs, StartStep(p) \/ Crash(p)
        PROVE  SoloTables' /\ SoloWorkers' /\ ListIsCurrent'
    <2>1. CASE \E a \in Attempts : RecoverOne(p, a)
      BY <1>0, <2>1, RecoverKeeps
    <2>2. CASE \E a \in Attempts : ResolveOne(p, a)
      BY <1>0, <2>2, ResolveKeeps
    <2>3. CASE Crash(p)
      BY <1>0, <2>3, CrashKeeps
    <2>4. CASE \/ StartFlatten(p) \/ SweepReservations(p) \/ PruneSpentNonces(p)
               \/ BeginRecovery(p) \/ BeginResolution(p) \/ FinishRecovery(p)
      BY <1>0, <2>4, PhaseKeeps
    <2> QED BY <1>5, <2>1, <2>2, <2>3, <2>4 DEF StartStep
  <1>6. CASE UNCHANGED vars
    <2> USE <1>6 DEF vars, SoloInv, SoloTables, SoloWorkers
    <2>1. DownIsIdle' /\ ClaimsApart' /\ StateTellsStart' /\ ClosedMeansNoOrder' /\ ListIsCurrent'
      BY DEF DownIsIdle, ClaimsApart, StateTellsStart, ClosedMeansNoOrder, ListIsCurrent
    <2>2. RowFollowsWorker' /\ HeldToTheEnd'
      BY DEF RowFollowsWorker, HeldToTheEnd, Exposing
    <2>3. ChecksHold' /\ OneInFlightPerSymbol'
      BY DEF ChecksHold, OneInFlightPerSymbol, UnsettledOn, UnresolvedOn, AttemptsOn
    <2>4. HoldsBound'
      BY DEF HoldsBound, EntriesHold, BoundToOwn, HeldIsOpen, RecordedIsBound, StartedIsBound
    <2> QED BY <2>1, <2>2, <2>3, <2>4
  <1> QED BY <1>1, <1>2, <1>3, <1>4, <1>5, <1>6 DEF Next

(* It holds of an empty journal (Init).                                       *)
LEMMA SoloInit == Init => SoloInv
  <1> SUFFICES ASSUME Init PROVE SoloInv
    OBVIOUS
  <1>1. RealInv
    BY InitIInv, Regions DEF Init, RealInv, BrokerKnows, NothingUnsent, UnsentYet, AckIsReal,
       ConfirmedIsReal
  <1> USE Regions, DecisionAssumption DEF Init
  <1>2. DownIsIdle /\ ClaimsApart /\ RowFollowsWorker
    BY DEF DownIsIdle, ClaimsApart, Claiming, RowFollowsWorker
  <1>3. StateTellsStart /\ ClosedMeansNoOrder /\ ListIsCurrent
    BY DEF StateTellsStart, ClosedMeansNoOrder, ListIsCurrent
  <1>4. ChecksHold /\ OneInFlightPerSymbol
    BY DEF ChecksHold, OneInFlightPerSymbol, UnsettledOn, AttemptsOn
  <1>5. HeldToTheEnd
    BY DEF HeldToTheEnd, Exposing
  <1>6. HoldsBound
    BY DEF HoldsBound, EntriesHold, BoundToOwn, HeldIsOpen, RecordedIsBound, StartedIsBound
  <1> QED BY <1>1, <1>2, <1>3, <1>4, <1>5, <1>6 DEF SoloInv, SoloTables, SoloWorkers

(* It therefore holds always (Gateway.submit under the engine lock).          *)
LEMMA SoloAlways ==
    ASSUME Solo
    PROVE  Spec => []SoloInv
  <1>1. SoloInv /\ [Next]_vars => SoloInv'
    BY SoloStep
  <1> QED BY <1>1, SoloInit, PTL DEF Spec

(* With one process on the journal, a row closed as "it did not happen" has   *)
(* no order at the broker and no request on its way there                     *)
(* (releasesReservations).                                                    *)
THEOREM ClosedRowsHaveNoOrder ==
    ASSUME Solo
    PROVE  Spec => []ClosedMeansNoOrder
  <1>1. SoloInv => ClosedMeansNoOrder
    BY DEF SoloInv, SoloTables
  <1> QED BY <1>1, SoloAlways, PTL

(* ... an entry that is travelling or open at the broker is counted against   *)
(* the limits, unless an operator released its hold (the sweeps, pruning,     *)
(* releaseReservationsForAttempt, bindReservationsToAttempt).                 *)
THEOREM ExposureIsHeld ==
    ASSUME Solo
    PROVE  Spec => []HeldWhileExposed
  <1>1. SoloInv => HeldWhileExposed
    BY DEF SoloInv, SoloWorkers, HeldToTheEnd, Exposing, HeldWhileExposed
  <1> QED BY <1>1, SoloAlways, PTL

(* ... and a symbol has one unsettled mutation at a time (claimSymbol,        *)
(* checkSymbolFree).                                                          *)
THEOREM OneInFlight ==
    ASSUME Solo
    PROVE  Spec => []OneInFlightPerSymbol
  <1>1. SoloInv => OneInFlightPerSymbol
    BY DEF SoloInv, SoloTables
  <1> QED BY <1>1, SoloAlways, PTL

-----------------------------------------------------------------------------
(* What a step may never do. *)

(* Only the dispatch closure calls the broker.                                *)
LEMMA OnlySendSends ==
    ASSUME TypeOK, [Next]_vars, sends' # sends
    PROVE  \E w \in Workers : Send(w)
  <1>1. ASSUME NEW w \in Workers, WorkerStep(w), ~Send(w)
        PROVE  sends' = sends
    BY <1>1 DEF WorkerStep, CheckUnsettled, CheckUnresolved, CheckUnspent, Prepare,
       ReturnUnrecorded, CheckDecision, CheckReservation, Refuse, MarkDispatchStarted, NonceSpent,
       JournalError, RecheckDecision, RecheckReservation, NotSent, MarkAcked, SettleRejected,
       RetryCancel, MarkInDoubt, SettleConfirmed, RoundTripUnconfirmed, ResolveStep
  <1>2. ASSUME NEW p \in Procs, StartStep(p) \/ Crash(p)
        PROVE  sends' = sends
    BY <1>2 DEF StartStep, StartFlatten, SweepReservations, PruneSpentNonces, BeginRecovery,
       BeginResolution, ListPending, FinishRecovery, RecoverOne, ResolveOne, Crash
  <1>3. ASSUME NEW a \in Attempts, BrokerStep(a) \/ OperatorResolve(a)
        PROVE  sends' = sends
    BY <1>3 DEF BrokerStep, BrokerAccepts, BrokerRefuses, RequestLost, OrderEnds, BrokerMoves,
       RecordTerminalFill, OperatorResolve
  <1>4. ASSUME NEW d \in Decisions,
               IssueDecision(d) \/ OperatorRelease(d) \/ \E w \in Workers : Submit(w, d)
        PROVE  sends' = sends
    BY <1>4 DEF IssueDecision, OperatorRelease, Submit
  <1>5. CASE Tick \/ UNCHANGED vars
    BY <1>5 DEF Tick, vars
  <1> QED BY <1>1, <1>2, <1>3, <1>4, <1>5 DEF Next

(* With one process on the journal, no new exposure is sent on a symbol that  *)
(* has a parked attempt: the check made before the record is still true at    *)
(* the send (checkSymbolFree).                                                *)
THEOREM ParkedSymbolsTakeNoEntry ==
    ASSUME Solo
    PROVE  Spec => NoEntryOverParked
  <1> DEFINE Step == \A a \in Attempts : (sends'[a] > sends[a] /\ attDec[a] \in Raising)
                                           => UnresolvedOn(SymbolOf[attDec[a]]) = {}
  <1>1. SoloInv /\ [Next]_vars => Step
    <2> SUFFICES ASSUME SoloInv, [Next]_vars, NEW a \in Attempts, sends'[a] > sends[a],
                        attDec[a] \in Raising
                 PROVE  UnresolvedOn(SymbolOf[attDec[a]]) = {}
      OBVIOUS
    <2>1. TypeOK
      BY DEF SoloInv, RealInv, IInv
    <2>2. sends' # sends
      BY <2>1 DEF TypeOK
    <2>3. PICK w \in Workers : Send(w)
      BY <2>1, <2>2, OnlySendSends
    <2>4. pc[w] = "cleared" /\ a = wAtt[w]
      BY <2>1, <2>3 DEF Send, TypeOK
    <2>5. attDec[a] = wDec[w]
      BY <2>4, Regions DEF SoloInv, RealInv, IInv, HandleOK
    <2> QED BY <2>4, <2>5, Regions DEF SoloInv, SoloWorkers, ChecksHold
  <1> QED BY <1>1, SoloAlways, PTL DEF Spec, NoEntryOverParked

(* With one process on the journal, an engine that becomes ready has left     *)
(* nothing recorded, started or in doubt (Recovery.Run).                      *)
THEOREM ReadyEnginesRecovered ==
    ASSUME Solo
    PROVE  Spec => ReadyMeansRecovered
  <1> DEFINE Step == \A p \in Engines : (phase[p] # "ready" /\ phase'[p] = "ready")
                        => \A a \in Attempts : attState[a] \in PendingStates => attState[a] = "ACKED"
  <1>1. SoloInv /\ [Next]_vars => Step
    <2> SUFFICES ASSUME SoloInv, [Next]_vars, NEW p \in Engines, phase[p] # "ready", phase'[p] = "ready",
                        NEW a \in Attempts, attState[a] \in PendingStates
                 PROVE  attState[a] = "ACKED"
      OBVIOUS
    <2>0. p \in Procs /\ phase \in [Procs -> Phases] /\ phase'[p] # phase[p]
      BY ProcAssumption DEF SoloInv, RealInv, IInv, TypeOK
    <2>1. ASSUME NEW w \in Workers, WorkerStep(w)
          PROVE  phase' = phase
      BY <2>1 DEF WorkerStep, CheckUnsettled, CheckUnresolved, CheckUnspent, Prepare,
         ReturnUnrecorded, CheckDecision, CheckReservation, Refuse, MarkDispatchStarted, NonceSpent,
         JournalError, RecheckDecision, RecheckReservation, NotSent, Send, MarkAcked, SettleRejected,
         RetryCancel, MarkInDoubt, SettleConfirmed, RoundTripUnconfirmed, ResolveStep
    <2>2. ASSUME NEW b \in Attempts, BrokerStep(b) \/ OperatorResolve(b)
          PROVE  phase' = phase
      BY <2>2 DEF BrokerStep, BrokerAccepts, BrokerRefuses, RequestLost, OrderEnds, BrokerMoves,
         RecordTerminalFill, OperatorResolve
    <2>3. ASSUME NEW d \in Decisions,
                 IssueDecision(d) \/ OperatorRelease(d) \/ \E w \in Workers : Submit(w, d)
          PROVE  phase' = phase
      BY <2>3 DEF IssueDecision, OperatorRelease, Submit
    <2>4. ASSUME Tick \/ UNCHANGED vars
          PROVE  phase' = phase
      BY <2>4 DEF Tick, vars
    <2>5. ASSUME NEW q \in Procs, StartStep(q) \/ Crash(q)
          PROVE  FinishRecovery(p)
      <3>1. CASE StartFlatten(q)
        BY <2>0, <3>1 DEF StartFlatten, GoTo
      <3>2. CASE SweepReservations(q) \/ PruneSpentNonces(q) \/ BeginRecovery(q) \/ BeginResolution(q)
        BY <2>0, <3>2 DEF SweepReservations, PruneSpentNonces, BeginRecovery, BeginResolution,
           ListPending, GoTo
      <3>3. CASE FinishRecovery(q)
        <4>1. p = q
          BY <2>0, <3>3 DEF FinishRecovery, GoTo
        <4> QED BY <3>3, <4>1
      <3>4. CASE Crash(q)
        BY <2>0, <3>4 DEF Crash, Stop, GoTo
      <3>5. ASSUME NEW b \in Attempts, RecoverOne(q, b)
            PROVE  FALSE
        <4>1. phase' = phase \/ Stop(q)
          BY <3>5 DEF RecoverOne
        <4> QED BY <2>0, <4>1 DEF Stop, GoTo
      <3>6. ASSUME NEW b \in Attempts, ResolveOne(q, b)
            PROVE  FALSE
        BY <2>0, <3>6 DEF ResolveOne
      <3> QED BY <2>5, <3>1, <3>2, <3>3, <3>4, <3>5, <3>6 DEF StartStep
    <2>6. phase[p] = "resolving" /\ listed[p] = NothingListed
      BY <2>0, <2>1, <2>2, <2>3, <2>4, <2>5 DEF Next, FinishRecovery
    <2> QED BY <2>0, <2>6 DEF SoloInv, ListIsCurrent, NothingListed, PendingStates
  <1> QED BY <1>1, SoloAlways, PTL DEF Spec, ReadyMeansRecovered

-----------------------------------------------------------------------------
(* The order path implements OrderOnce. *)

Closed == {"CONFIRMED", "NOT_DISPATCHED", "FAILED_CONFIRMED"}

(* Shapes of a step, by what it does to the authorisations: nothing, ...      *)
Unseen ==
    /\ UNCHANGED <<issued, sends, broker>>
    /\ \A a \in Attempts : sends[a] > 0 =>
          /\ attDec'[a] = attDec[a]
          /\ \/ attState'[a] = attState[a]
             \/ attState[a] \notin Closed /\ attState'[a] \notin Closed

(* ... a decision is issued, ...                                              *)
Issues(d) ==
    /\ d \notin issued
    /\ issued' = issued \cup {d}
    /\ UNCHANGED <<attState, attDec, sends, broker>>

(* ... an attempt is sent, ...                                                *)
Sends(a) ==
    /\ broker[a] \in {"none", "refused"} /\ attState[a] = "DISPATCH_STARTED"
    /\ sends' = [sends EXCEPT ![a] = @ + 1]
    /\ broker' = [broker EXCEPT ![a] = "wire"]
    /\ UNCHANGED <<issued, attState, attDec>>

(* ... the broker acts on a request, ...                                      *)
Exchanges(a) ==
    /\ \/ broker[a] = "wire" /\ broker' = [broker EXCEPT ![a] = "live"]
       \/ broker[a] = "wire" /\ broker' = [broker EXCEPT ![a] = "refused"]
       \/ broker[a] = "wire" /\ broker' = [broker EXCEPT ![a] = "lost"]
       \/ broker[a] = "live" /\ broker' = [broker EXCEPT ![a] = "closed"]
    /\ UNCHANGED <<issued, attState, attDec, sends>>

(* ... or a row is closed.                                                    *)
Concludes(a) ==
    /\ attState[a] \notin Closed
    /\ \E to \in Closed :
         /\ attState' = [attState EXCEPT ![a] = to]
         /\ IF to = "CONFIRMED" THEN AtBroker(a) ELSE broker[a] \notin {"wire", "live", "closed"}
    /\ UNCHANGED <<issued, attDec, sends, broker>>

(* A settled row is closed, or goes from one open state to another.           *)
LEMMA SettledShape ==
    ASSUME SoloInv, NEW a \in Attempts, NEW to, Settled(a, to), UNCHANGED sends
    PROVE  Unseen \/ Concludes(a)
  <1>1. attState[a] \notin Closed /\ attState \in [Attempts -> RowStates]
    BY DEF Settled, PendingStates, SoloInv, RealInv, IInv, TypeOK, Closed
  <1>2. CASE to \in {"IN_DOUBT", "UNRESOLVED_IN_DOUBT"}
    BY <1>1, <1>2 DEF Settled, Unseen, Closed
  <1>3. CASE to \in Closed
    BY <1>1, <1>3 DEF Settled, Concludes, Closed
  <1> QED BY <1>2, <1>3 DEF Settled, Closed

(* Every step has one of the shapes (Next).                                   *)
LEMMA Shapes ==
    ASSUME Solo, SoloInv, [Next]_vars
    PROVE  \/ Unseen
           \/ \E d \in Decisions : Issues(d)
           \/ \E a \in Attempts : Sends(a) \/ Exchanges(a) \/ Concludes(a)
  <1>0. TypeOK
    BY DEF SoloInv, RealInv, IInv
  <1>1. ASSUME NEW w \in Workers, Settles(w)
        PROVE  \E a \in Attempts : Unseen \/ Concludes(a)
    <2>1. PICK to : wAtt[w] \in Attempts /\ Settled(wAtt[w], to)
      BY <1>1, SettlesOwn
    <2>2. UNCHANGED sends
      BY <1>1 DEF Settles, Refuse, NonceSpent, NotSent, SettleRejected, MarkInDoubt, SettleConfirmed,
         RoundTripUnconfirmed, ResolveStep
    <2> QED BY <2>1, <2>2, SettledShape
  <1>2. ASSUME NEW w \in Workers, Checks(w) \/ ReturnUnrecorded(w) \/ JournalError(w)
        PROVE  Unseen
    BY <1>2 DEF Unseen, Checks, CheckUnsettled, CheckUnresolved, CheckUnspent, CheckDecision,
       CheckReservation, RecheckDecision, RecheckReservation, RetryCancel, ReturnUnrecorded, JournalError
  <1>3. ASSUME NEW w \in Workers, NEW a \in Attempts, Prepare(w, a)
        PROVE  Unseen
    <2>1. sends[a] = 0
      BY <1>0, <1>3 DEF Prepare, SoloInv, RealInv, IInv, RowOK, TypeOK
    <2> QED BY <1>0, <1>3, <2>1 DEF Prepare, Unseen, TypeOK
  <1>4. ASSUME NEW w \in Workers, MarkDispatchStarted(w) \/ MarkAcked(w)
        PROVE  Unseen
    <2>1. /\ attState[wAtt[w]] \in {"RECORDED", "DISPATCH_STARTED"}
          /\ wAtt[w] \in Attempts
      BY <1>4, Regions DEF MarkDispatchStarted, MarkAcked, SoloInv, SoloWorkers, RowFollowsWorker,
         RealInv, IInv, HandleOK
    <2> QED BY <1>0, <1>4, <2>1 DEF MarkDispatchStarted, MarkAcked, Transition, Unseen, TypeOK, Closed
  <1>5. ASSUME NEW w \in Workers, Send(w)
        PROVE  \E a \in Attempts : Sends(a)
    BY <1>5, Regions DEF Send, Sends, SoloInv, SoloWorkers, RowFollowsWorker, RealInv, IInv, HandleOK,
       BrokerKnows, UnsentYet
  <1>6. ASSUME NEW w \in Workers, WorkerStep(w)
        PROVE  Unseen \/ \E a \in Attempts : Sends(a) \/ Concludes(a)
    BY <1>1, <1>2, <1>3, <1>4, <1>5, <1>6 DEF WorkerStep, Settles, Checks
  <1>7. ASSUME NEW d \in Decisions,
               IssueDecision(d) \/ OperatorRelease(d) \/ \E w \in Workers : Submit(w, d)
        PROVE  Unseen \/ Issues(d)
    BY <1>7 DEF IssueDecision, OperatorRelease, Submit, Unseen, Issues
  <1>8. ASSUME NEW a \in Attempts, BrokerStep(a)
        PROVE  Unseen \/ Exchanges(a)
    BY <1>8 DEF BrokerStep, BrokerAccepts, BrokerRefuses, RequestLost, OrderEnds, BrokerMoves,
       RecordTerminalFill, Unseen, Exchanges
  <1>9. ASSUME NEW a \in Attempts, OperatorResolve(a)
        PROVE  Unseen \/ Concludes(a)
    <2>1. \E to \in {"CONFIRMED", "FAILED_CONFIRMED"} : Settled(a, to)
      BY <1>0, <1>9, OperatorSettles
    <2> QED BY <1>9, <2>1, SettledShape DEF OperatorResolve
  <1>10. ASSUME NEW p \in Procs, NEW a \in Attempts, RecoverOne(p, a)
         PROVE  Unseen \/ Concludes(a)
    <2>1. UNCHANGED <<issued, attDec, sends, broker>>
      BY <1>10 DEF RecoverOne
    <2>2. UNCHANGED attState \/ \E to : Settled(a, to)
      BY <1>10, RecoverSettles
    <2> QED BY <2>1, <2>2, SettledShape DEF Unseen
  <1>11. ASSUME NEW p \in Procs, NEW a \in Attempts, ResolveOne(p, a)
         PROVE  Unseen \/ Concludes(a)
    <2>1. UNCHANGED <<issued, attDec, sends, broker>>
      BY <1>11 DEF ResolveOne
    <2>2. UNCHANGED attState \/ \E to : Settled(a, to)
      BY <1>11, ResolverSettles
    <2> QED BY <2>1, <2>2, SettledShape DEF Unseen
  <1>12. ASSUME NEW p \in Procs,
                \/ StartFlatten(p) \/ SweepReservations(p) \/ PruneSpentNonces(p)
                \/ BeginRecovery(p) \/ BeginResolution(p) \/ FinishRecovery(p) \/ Crash(p)
         PROVE  Unseen
    BY <1>12 DEF StartFlatten, SweepReservations, PruneSpentNonces, BeginRecovery,
       BeginResolution, ListPending, FinishRecovery, Crash, Unseen
  <1>13. CASE Tick \/ UNCHANGED vars
    BY <1>13 DEF Tick, vars, Unseen
  <1> QED BY <1>6, <1>7, <1>8, <1>9, <1>10, <1>11, <1>12, <1>13 DEF Next, StartStep

(* What a step can change of a decision's view is what it changes of the one  *)
(* attempt that was sent for it.                                              *)
LEMMA SentAlone ==
    ASSUME SoloInv, NEW a \in Attempts, sends[a] > 0
    PROVE  /\ attDec[a] \in Decisions /\ attDec[a] \in issued
           /\ SentFor(attDec[a]) = {a}
           /\ \A d \in Decisions : d # attDec[a] => a \notin SentFor(d)
  BY DEF SoloInv, RealInv, IInv, TypeOK, RowOK, ClearedOnce, Cleared, SentFor

(* A step that leaves the sent attempts of a decision alone is not seen in it. *)
LEMMA SameView ==
    ASSUME NEW d \in Decisions, SentFor(d)' = SentFor(d), d \in issued' <=> d \in issued,
           \A a \in SentFor(d) :
              /\ \/ broker'[a] = broker[a]
                 \/ {broker[a], broker'[a]} \cap {"live", "closed"} = {}
              /\ \/ attState'[a] = attState[a]
                 \/ attState[a] \notin Closed /\ attState'[a] \notin Closed
    PROVE  stageOf'[d] = stageOf[d] /\ effectOf'[d] = effectOf[d] /\ verdictOf'[d] = verdictOf[d]
  <1>1. stageOf'[d] = stageOf[d]
    BY DEF stageOf
  <1>2. effectOf'[d] = effectOf[d]
    <2>1. \A a \in SentFor(d) : /\ broker'[a] = "live" <=> broker[a] = "live"
                                /\ broker'[a] = "closed" <=> broker[a] = "closed"
      OBVIOUS
    <2> QED BY <2>1 DEF effectOf
  <1>3. verdictOf'[d] = verdictOf[d]
    <2>1. \A a \in SentFor(d) :
             /\ attState'[a] = "CONFIRMED" <=> attState[a] = "CONFIRMED"
             /\ attState'[a] \in {"NOT_DISPATCHED", "FAILED_CONFIRMED"}
                  <=> attState[a] \in {"NOT_DISPATCHED", "FAILED_CONFIRMED"}
      BY DEF Closed
    <2> QED BY <2>1 DEF verdictOf
  <1> QED BY <1>1, <1>2, <1>3

(* The views are functions on the decisions, so they are compared point by    *)
(* point.                                                                     *)
LEMMA ViewsEqual ==
    ASSUME \A d \in Decisions :
              stageOf'[d] = stageOf[d] /\ effectOf'[d] = effectOf[d] /\ verdictOf'[d] = verdictOf[d]
    PROVE  UNCHANGED Once!vars
  <1>1. stageOf' = stageOf
    BY DEF stageOf
  <1>2. effectOf' = effectOf
    BY DEF effectOf
  <1>3. verdictOf' = verdictOf
    BY DEF verdictOf
  <1> QED BY <1>1, <1>2, <1>3 DEF Once!vars

(* Most steps of submit are not seen in any decision.                         *)
LEMMA UnseenStutters ==
    ASSUME SoloInv, Unseen
    PROVE  UNCHANGED Once!vars
  <1>1. ASSUME NEW d \in Decisions
        PROVE  stageOf'[d] = stageOf[d] /\ effectOf'[d] = effectOf[d] /\ verdictOf'[d] = verdictOf[d]
    <2>1. SentFor(d)' = SentFor(d)
      BY DEF Unseen, SentFor, SoloInv, RealInv, IInv, TypeOK
    <2>2. \A a \in SentFor(d) : sends[a] > 0
      BY DEF SentFor
    <2>3. SentFor(d) \subseteq Attempts
      BY DEF SentFor
    <2> QED BY <2>1, <2>2, <2>3, SameView DEF Unseen
  <1> QED BY <1>1, ViewsEqual

(* RecordDecision opens a decision nothing was sent for.                      *)
LEMMA IssuesOnce ==
    ASSUME SoloInv, NEW d \in Decisions, Issues(d)
    PROVE  Once!Issue(d)
  <1>1. SentFor(d) = {} /\ \A e \in Decisions : SentFor(e)' = SentFor(e)
    BY SentAlone DEF SentFor, Issues
  <1>2. stageOf[d] = "none" /\ stageOf' = [stageOf EXCEPT ![d] = "open"]
    BY <1>1 DEF stageOf, Issues
  <1>3. effectOf' = effectOf
    BY <1>1 DEF effectOf, Issues
  <1>4. verdictOf' = verdictOf
    BY <1>1 DEF verdictOf, Issues
  <1> QED BY <1>2, <1>3, <1>4 DEF Once!Issue

(* The first send uses the decision; flatten's re-send of a refused cancel is *)
(* not seen.                                                                  *)
LEMMA SendsOnce ==
    ASSUME SoloInv, SoloInv', NEW a \in Attempts, Sends(a)
    PROVE  UNCHANGED Once!vars \/ Once!Use(attDec[a])
  <1> DEFINE d == attDec[a]
  <1>0. /\ sends \in [Attempts -> Nat] /\ broker \in [Attempts -> BrokerStates]
        /\ sends'[a] = sends[a] + 1 /\ \A b \in Attempts : b # a => sends'[b] = sends[b]
        /\ broker'[a] = "wire" /\ \A b \in Attempts : b # a => broker'[b] = broker[b]
    BY DEF Sends, SoloInv, RealInv, IInv, TypeOK
  <1>1. d \in Decisions /\ d \in issued /\ SentFor(d)' = {a}
    <2>1. sends'[a] > 0 /\ d \in Decisions /\ d \in issued
      BY <1>0 DEF Sends, SoloInv, RealInv, IInv, TypeOK, RowOK
    <2>2. \A b \in Attempts : sends'[b] > 0 /\ attDec'[b] = d => b = a
      BY <2>1 DEF Sends, SoloInv, RealInv, IInv, ClearedOnce, Cleared
    <2> QED BY <2>1, <2>2 DEF SentFor, Sends
  <1>2. \A e \in Decisions : e # d => SentFor(e)' = SentFor(e) /\ a \notin SentFor(e)
    BY <1>0 DEF SentFor, Sends
  <1>3. ASSUME NEW e \in Decisions, e # d
        PROVE  stageOf'[e] = stageOf[e] /\ effectOf'[e] = effectOf[e] /\ verdictOf'[e] = verdictOf[e]
    <2>1. \A b \in SentFor(e) : b # a /\ b \in Attempts
      BY <1>2, <1>3 DEF SentFor
    <2> QED BY <1>0, <1>2, <1>3, <2>1, SameView DEF Sends
  <1>4. CASE sends[a] > 0
    <2>1. SentFor(d) = {a}
      BY <1>4, SentAlone
    <2>2. stageOf'[d] = stageOf[d] /\ effectOf'[d] = effectOf[d] /\ verdictOf'[d] = verdictOf[d]
      BY ZenonT(30), <1>0, <1>1, <2>1, SameView DEF Sends
    <2>3. \A e \in Decisions :
             stageOf'[e] = stageOf[e] /\ effectOf'[e] = effectOf[e] /\ verdictOf'[e] = verdictOf[e]
      BY <1>3, <2>2
    <2> QED BY <2>3, ViewsEqual
  <1>5. CASE sends[a] = 0
    <2>1. SentFor(d) = {}
      BY <1>0, <1>1, <1>5 DEF SentFor, Sends
    <2>2. stageOf[d] = "open" /\ stageOf'[d] = "used" /\ effectOf'[d] = effectOf[d]
          /\ verdictOf'[d] = verdictOf[d]
      BY <1>0, <1>1, <2>1 DEF stageOf, effectOf, verdictOf, Sends
    <2>3. stageOf' = [stageOf EXCEPT ![d] = "used"]
      BY <1>1, <1>3, <2>2 DEF stageOf
    <2>4. effectOf' = effectOf
      BY <1>3, <2>2 DEF effectOf
    <2>5. verdictOf' = verdictOf
      BY <1>3, <2>2 DEF verdictOf
    <2> QED BY <2>2, <2>3, <2>4, <2>5 DEF Once!Use
  <1> QED BY <1>0, <1>4, <1>5

(* The broker takes the request up, which nobody has concluded about yet, or  *)
(* the order ends; a refusal or a loss is not seen (the broker).              *)
LEMMA ExchangesOnce ==
    ASSUME SoloInv, NEW a \in Attempts, Exchanges(a)
    PROVE  UNCHANGED Once!vars \/ Once!TakeEffect(attDec[a]) \/ Once!EndEffect(attDec[a])
  <1> DEFINE d == attDec[a]
  <1>0. /\ sends \in [Attempts -> Nat] /\ broker \in [Attempts -> BrokerStates]
        /\ \A b \in Attempts : b # a => broker'[b] = broker[b]
        /\ sends[a] > 0 /\ attState[a] \in RowStates
    BY DEF Exchanges, SoloInv, RealInv, IInv, TypeOK, BrokerKnows, NothingUnsent
  <1>1. d \in Decisions /\ d \in issued /\ SentFor(d) = {a}
    BY <1>0, SentAlone
  <1>2. \A e \in Decisions : SentFor(e)' = SentFor(e)
    BY DEF SentFor, Exchanges
  <1>3. ASSUME NEW e \in Decisions, e # d
        PROVE  stageOf'[e] = stageOf[e] /\ effectOf'[e] = effectOf[e] /\ verdictOf'[e] = verdictOf[e]
    <2>1. \A b \in SentFor(e) : b # a /\ b \in Attempts
      BY <1>0, <1>3, SentAlone DEF SentFor
    <2> QED BY <1>0, <1>2, <1>3, <2>1, SameView DEF Exchanges
  <1>4. stageOf[d] = "used" /\ stageOf' = stageOf /\ verdictOf' = verdictOf
    BY <1>1, <1>2 DEF stageOf, verdictOf, Exchanges
  <1>5. CASE broker[a] = "wire" /\ broker'[a] # "live"
    <2>1. broker'[a] \notin {"live", "closed"}
      BY <1>0, <1>5 DEF Exchanges
    <2>2. effectOf'[d] = effectOf[d]
      BY <1>1, <1>2, <1>5, <2>1, SameView DEF Exchanges
    <2>3. effectOf' = effectOf
      BY <1>3, <2>2 DEF effectOf
    <2> QED BY <1>4, <2>3 DEF Once!vars
  <1>6. CASE broker[a] = "wire" /\ broker'[a] = "live"
    <2>1. attState[a] \notin Closed
      BY <1>6 DEF SoloInv, SoloTables, ClosedMeansNoOrder, RealInv, ConfirmedIsReal, AtBroker, Closed
    <2>2. verdictOf[d] = "open"
      BY <1>1, <2>1 DEF verdictOf, Closed
    <2>3. effectOf[d] = "none" /\ effectOf'[d] = "live"
      BY <1>1, <1>2, <1>6 DEF effectOf
    <2>4. effectOf' = [effectOf EXCEPT ![d] = "live"]
      BY <1>1, <1>3, <2>3 DEF effectOf
    <2> QED BY <1>4, <2>2, <2>3, <2>4 DEF Once!TakeEffect
  <1>7. CASE broker[a] = "live"
    <2>1. broker'[a] = "closed"
      BY <1>0, <1>7 DEF Exchanges
    <2>2. effectOf[d] = "live" /\ effectOf'[d] = "ended"
      BY <1>1, <1>2, <1>7, <2>1 DEF effectOf
    <2>3. effectOf' = [effectOf EXCEPT ![d] = "ended"]
      BY <1>1, <1>3, <2>2 DEF effectOf
    <2> QED BY <1>4, <2>2, <2>3 DEF Once!EndEffect
  <1> QED BY <1>5, <1>6, <1>7 DEF Exchanges

(* Closing the row of a sent attempt is the verdict, and it is the right one; *)
(* closing one that was never sent is not seen (transition).                  *)
LEMMA ConcludesOnce ==
    ASSUME SoloInv, NEW a \in Attempts, Concludes(a)
    PROVE  UNCHANGED Once!vars \/ (attDec[a] \in Decisions /\ Once!Conclude(attDec[a]))
  <1> DEFINE d == attDec[a]
  <1>0. /\ sends \in [Attempts -> Nat] /\ broker \in [Attempts -> BrokerStates]
        /\ attState \in [Attempts -> RowStates]
        /\ \A b \in Attempts : b # a => attState'[b] = attState[b]
    BY DEF Concludes, SoloInv, RealInv, IInv, TypeOK
  <1>2. \A e \in Decisions : SentFor(e)' = SentFor(e)
    BY DEF SentFor, Concludes
  <1>3. ASSUME NEW e \in Decisions, a \notin SentFor(e)
        PROVE  stageOf'[e] = stageOf[e] /\ effectOf'[e] = effectOf[e] /\ verdictOf'[e] = verdictOf[e]
    <2>1. \A b \in SentFor(e) : b # a /\ b \in Attempts
      BY <1>3 DEF SentFor
    <2> QED BY <1>0, <1>2, <1>3, <2>1, SameView DEF Concludes
  <1>4. CASE sends[a] = 0
    <2>1. \A e \in Decisions : a \notin SentFor(e)
      BY <1>4 DEF SentFor
    <2> QED BY <1>3, <2>1, ViewsEqual
  <1>5. CASE sends[a] > 0
    <2>1. /\ d \in Decisions /\ d \in issued /\ SentFor(d) = {a}
          /\ \A e \in Decisions : e # d => a \notin SentFor(e)
      BY <1>5, SentAlone
    <2>2. stageOf[d] = "used" /\ stageOf' = stageOf /\ effectOf' = effectOf
      BY <1>2, <2>1 DEF stageOf, effectOf, Concludes
    <2>3. verdictOf[d] = "open"
      BY <2>1 DEF verdictOf, Concludes, Closed
    <2>4. verdictOf'[d] = IF effectOf[d] = "none" THEN "failed" ELSE "done"
      <3>1. PICK to \in Closed :
              /\ attState'[a] = to
              /\ IF to = "CONFIRMED" THEN AtBroker(a) ELSE broker[a] \notin {"wire", "live", "closed"}
        BY <1>0 DEF Concludes
      <3>2. CASE to = "CONFIRMED"
        BY <1>2, <2>1, <3>1, <3>2 DEF verdictOf, effectOf, AtBroker
      <3>3. CASE to # "CONFIRMED"
        BY <1>2, <2>1, <3>1, <3>3 DEF verdictOf, effectOf, Closed
      <3> QED BY <3>2, <3>3
    <2>5. verdictOf' = [verdictOf EXCEPT ![d] = IF effectOf[d] = "none" THEN "failed" ELSE "done"]
      <3>1. \A e \in Decisions : e # d => verdictOf'[e] = verdictOf[e]
        BY <1>3, <2>1
      <3>2. /\ verdictOf = [e \in Decisions |-> verdictOf[e]]
            /\ verdictOf' = [e \in Decisions |-> verdictOf'[e]]
        BY DEF verdictOf
      <3> QED BY <2>1, <2>4, <3>1, <3>2
    <2> QED BY <2>1, <2>2, <2>3, <2>5 DEF Once!Conclude
  <1> QED BY <1>0, <1>4, <1>5

(* With one process on the journal the order path implements OrderOnce: every *)
(* decision is used once, has one effect at the broker, and gets one verdict, *)
(* which is right and final (Gateway.submit, DispatchVerified, RecoverPending, *)
(* Resolver.Resolve).                                                         *)
THEOREM OrdersAreOnce ==
    ASSUME Solo
    PROVE  Spec => ImplementsOnce
  <1>1. Init => Once!Init
    <2> SUFFICES ASSUME Init PROVE Once!Init
      OBVIOUS
    <2>1. \A d \in Decisions : SentFor(d) = {}
      BY DEF Init, SentFor
    <2> QED BY <2>1 DEF Init, Once!Init, stageOf, effectOf, verdictOf
  <1>2. SoloInv /\ SoloInv' /\ [Next]_vars => [Once!Next]_(Once!vars)
    <2> SUFFICES ASSUME SoloInv, SoloInv', [Next]_vars
                 PROVE  [Once!Next]_(Once!vars)
      OBVIOUS
    <2>1. CASE Unseen
      BY <2>1, UnseenStutters
    <2>2. ASSUME NEW d \in Decisions, Issues(d)
          PROVE  Once!Next
      BY <2>2, IssuesOnce DEF Once!Next
    <2>3. ASSUME NEW a \in Attempts, Sends(a)
          PROVE  [Once!Next]_(Once!vars)
      <3>1. attDec[a] \in Decisions
        BY <2>3 DEF Sends, SoloInv, RealInv, IInv, TypeOK, RowOK
      <3> QED BY <2>3, <3>1, SendsOnce DEF Once!Next
    <2>4. ASSUME NEW a \in Attempts, Exchanges(a)
          PROVE  [Once!Next]_(Once!vars)
      <3>1. sends[a] > 0
        BY <2>4 DEF Exchanges, SoloInv, RealInv, BrokerKnows, NothingUnsent
      <3>2. attDec[a] \in Decisions
        BY <3>1, SentAlone
      <3> QED BY <2>4, <3>2, ExchangesOnce DEF Once!Next
    <2>5. ASSUME NEW a \in Attempts, Concludes(a)
          PROVE  [Once!Next]_(Once!vars)
      BY <2>5, ConcludesOnce DEF Once!Next
    <2> QED BY <2>1, <2>2, <2>3, <2>4, <2>5, Shapes
  <1> QED BY <1>1, <1>2, SoloAlways, PTL DEF Spec, ImplementsOnce, Once!Spec

=============================================================================
