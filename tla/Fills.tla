------------------------------- MODULE Fills -------------------------------
(***************************************************************************)
(* Fill detection and the position projection.                             *)
(*                                                                         *)
(* The detector (src/internal/filldetect/detect.go) polls: it lists the    *)
(* open orders, then reads by id the orders the journal still tracks and   *)
(* the list did not show, then commits the snapshots one by one. The SSE   *)
(* hints run the same cycle, so one cycle runs at a time. The journal's    *)
(* RecordFill (src/internal/journal/fills.go) turns a cumulative quantity  *)
(* into a delta, refuses what cannot be true, and in the same transaction  *)
(* releases the order's hold and projects the position.                    *)
(*                                                                         *)
(* An order may be seen before the attempt that placed it is confirmed: it *)
(* is then an external order, and what was recorded before the ownership   *)
(* instant is no baseline for the local order. Both instants have whole    *)
(* seconds and are pushed past their predecessors; the model keeps, of     *)
(* these times, whether the row is later than the ownership ("after") and  *)
(* by how many seconds the order's latest instant leads the clock ("lead").*)
(*                                                                         *)
(* One account and one symbol, complete broker scopes, one intent per      *)
(* order id. Prices, and the corrections of prices, are left out.          *)
(***************************************************************************)
EXTENDS BrokerState, PositionTable, FiniteSets, Functions

CONSTANTS Orders,         \* as numbers: a cycle reads them in order
          Setups,         \* the cases to look at, each a record of
                          \*   sells: the orders that sell
                          \*   qty: the shares of each order
                          \*   faults: failed reads and commits, stale answers
                          \*     and crashes there may be
          Parent, Child,  \* an amendment of the same side replaces Parent by Child
          Expiring,       \* orders the broker may close without saying why
          MaxLead         \* seconds an instant may lead the clock

ASSUME OrdersAreNumbers ==
    /\ IsFiniteSet(Orders)
    /\ Orders \subseteq Nat \ {0} /\ {Parent, Child} \subseteq Orders /\ Parent # Child
    /\ Setups \subseteq [sells : SUBSET Orders, qty : [Orders -> Nat \ {0}], faults : Nat]
ASSUME BoundsArePositive == MaxLead \in Nat \ {0}

VARIABLES
    setup,     \* the case this behaviour is about
    bk,        \* the broker: order -> [status, filled, quantity]
    own,       \* order -> its placing (or amending) attempt is CONFIRMED
    snap,      \* order -> scoped_fill_snapshots row
    after,     \* order -> the row was committed after the ownership instant
    lead,      \* order -> seconds its latest instant leads the clock (-1: none)
    held,      \* order -> its reservation is HELD
    applied,   \* order -> quantity handed to the projection, a ghost
    pos,       \* the symbol's latest position instance
    reconcile, \* the symbol is in the durable RECONCILE state
    phase,     \* the detector's cycle: "idle", "listed", "applying"
    batch,     \* the cycle's snapshots that are not committed yet
    faults     \* faults that have happened

fillVars == <<bk, own, snap, after, lead, held, applied, pos, reconcile, phase, batch, faults>>
ledgerVars == <<own, snap, after, lead, held, applied, pos, reconcile>>

NoRow == [seen |-> FALSE, filled |-> 0, state |-> "", terminal |-> FALSE, failClosed |-> FALSE]

Live == {"PENDING", "PARTIAL_FILLED", "PENDING_CANCEL"}
Settled == {"FILLED", "CANCELED", "REPLACED"}
BrokerStatuses == {"none", "CLOSED"} \cup Live \cup Settled
OrderStates == {StateUnknown, "OPEN_UNFILLED", "OPEN_PARTIALLY_FILLED", "CANCEL_PENDING", "FILLED",
                "CANCELLED", "CANCELLED_PARTIALLY_FILLED", "REPLACED"}
Rows == [seen : BOOLEAN, filled : Nat, state : OrderStates \cup {""},
         terminal : BOOLEAN, failClosed : BOOLEAN]

MaxOf(a, b) == IF a >= b THEN a ELSE b
MinOf(a, b) == IF a <= b THEN a ELSE b

Role(o) == IF o \in setup.sells THEN "EXIT" ELSE "ENTRY"

\* The amendment that is made, if the two orders are of one side.
Amends == (Child \in setup.sells) = (Parent \in setup.sells)
IsChild(o) == Amends /\ o = Child

FillsInit ==
    /\ setup \in Setups
    /\ bk = [o \in Orders |-> [status |-> "none", filled |-> 0, quantity |-> setup.qty[o]]]
    /\ own = [o \in Orders |-> FALSE]
    /\ snap = [o \in Orders |-> NoRow]
    /\ after = [o \in Orders |-> FALSE]
    /\ lead = [o \in Orders |-> -1]
    /\ held = [o \in Orders |-> TRUE]
    /\ applied = [o \in Orders |-> 0]
    /\ pos = [state |-> "FLAT", quantity |-> 0, seq |-> 0]
    /\ reconcile = FALSE
    /\ phase = "idle"
    /\ batch = {}
    /\ faults = 0

-----------------------------------------------------------------------------
(* The broker (external).                                                  *)

BrokerAccept(o) ==
    /\ bk[o].status = "none" /\ ~IsChild(o)
    /\ bk' = [bk EXCEPT ![o].status = "PENDING"]

Total(S, f) == SumFunctionOnSet(f, S)

Holding == Total(Orders \ setup.sells, [o \in Orders |-> bk[o].filled])
           - Total(setup.sells, [o \in Orders |-> bk[o].filled])

BrokerFill(o) ==
    /\ bk[o].status \in Live /\ bk[o].filled < bk[o].quantity
    /\ o \in setup.sells => Holding > 0
    /\ bk' = [bk EXCEPT ![o].filled = @ + 1,
                        ![o].status = IF bk[o].filled + 1 = bk[o].quantity THEN "FILLED"
                                      ELSE IF @ = "PENDING_CANCEL" THEN @ ELSE "PARTIAL_FILLED"]

BrokerCancel(o) ==
    /\ bk[o].status \in Live
    /\ bk' = [bk EXCEPT ![o].status = IF @ = "PENDING_CANCEL" THEN "CANCELED"
                                      ELSE "PENDING_CANCEL"]

BrokerReplace ==
    /\ Amends /\ own[Parent]
    /\ bk[Parent].status \in {"PENDING", "PARTIAL_FILLED"}
    /\ bk' = [bk EXCEPT ![Parent].status = "REPLACED",
                        ![Child] = [status |-> "PENDING", filled |-> 0,
                                    quantity |-> setup.qty[Parent] - bk[Parent].filled]]

\* The session ends and the record says only that the order is closed.
BrokerExpire(o) ==
    /\ o \in Expiring /\ bk[o].status \in Live
    /\ bk' = [bk EXCEPT ![o].status = "CLOSED"]

Broker ==
    /\ \/ \E o \in Orders : BrokerAccept(o) \/ BrokerFill(o) \/ BrokerCancel(o) \/ BrokerExpire(o)
       \/ BrokerReplace
    /\ UNCHANGED <<ledgerVars, phase, batch, faults>>

\* A second passes.
SecondPasses ==
    /\ \E o \in Orders : lead[o] >= 0
    /\ lead' = [o \in Orders |-> MaxOf(lead[o] - 1, -1)]
    /\ UNCHANGED <<bk, own, snap, after, held, applied, pos, reconcile, phase, batch, faults>>

-----------------------------------------------------------------------------
(* Ownership.                                                              *)

\* journalTimeStrictlyAfter: the lead of a new instant over the clock.
StrictlyAfter(l) == MinOf(MaxLead, MaxOf(0, l + 1))

\* Attempt settlement: the ownership instant is strictly after every snapshot
\* of the order, so the rows there are belong to an external order.
ConfirmPlace(o) ==
    /\ ~own[o] /\ bk[o].status # "none" /\ ~IsChild(o)
    /\ own' = [own EXCEPT ![o] = TRUE]
    /\ after' = [after EXCEPT ![o] = FALSE]
    /\ lead' = [lead EXCEPT ![o] = StrictlyAfter(@)]
    /\ UNCHANGED <<bk, snap, held, applied, pos, reconcile, phase, batch, faults>>

\* ResolveConfirmedWithLineage: the same transaction writes the replace edge,
\* but the ownership instant is the clock's, not strictly after the snapshots.
ConfirmReplacement ==
    /\ Amends /\ ~own[Child] /\ bk[Child].status # "none"
    /\ own' = [own EXCEPT ![Child] = TRUE]
    /\ after' = [after EXCEPT ![Child] = lead[Child] > 0]
    /\ lead' = [o \in Orders |-> IF o \in {Parent, Child} THEN MaxOf(lead[o], 0) ELSE lead[o]]
    /\ UNCHANGED <<bk, snap, held, applied, pos, reconcile, phase, batch, faults>>

HasReplaceSuccessor(o) == Amends /\ o = Parent /\ own[Child]

-----------------------------------------------------------------------------
(* The detector's cycle.                                                   *)

Raw(o, status, filled) ==
    [o |-> o, status |-> status, filled |-> filled, quantity |-> bk[o].quantity, old |-> FALSE]

Truth(o) == Raw(o, bk[o].status, bk[o].filled)

\* A replica that missed the order's last fill.
MissedLast(o) ==
    Raw(o, IF bk[o].filled = 1 THEN "PENDING" ELSE "PARTIAL_FILLED", bk[o].filled - 1)

\* An answer whose filledAt is older than the one of the order's last row.
RanBack(o) == [Truth(o) EXCEPT !.old = TRUE]

\* What a read by id answers: the truth, or what contradicts an earlier answer.
Answer(o, odd, ranBack) ==
    CASE odd /\ ranBack  -> RanBack(o)
      [] odd /\ ~ranBack -> MissedLast(o)
      [] OTHER           -> Truth(o)

\* collect, first half: the walk over the open-order list.
PollList ==
    /\ phase = "idle"
    /\ phase' = "listed"
    /\ batch' = {Truth(o) : o \in {x \in Orders : bk[x].status \in Live}}
    /\ UNCHANGED <<bk, ledgerVars, faults>>

\* Mutant: only an order the list has shown once is read by id.
TrackedByRow(o) == own[o] /\ snap[o].seen /\ ~snap[o].terminal

\* TrackedFillOrders: owned, and either no snapshot since the ownership or the
\* last one not terminal.
Tracked(o) == own[o] /\ (~after[o] \/ ~snap[o].terminal)

\* viewOf and Derive: only a tracked order's snapshot carries its lineage.
Snapshot(raw, byId) ==
    LET state == Derive([status    |-> raw.status,
                         canceled  |-> raw.status = "CANCELED",
                         successor |-> Tracked(raw.o) /\ HasReplaceSuccessor(raw.o),
                         quantity  |-> raw.quantity,
                         filled    |-> raw.filled])
    IN  [o |-> raw.o, byId |-> byId, filled |-> raw.filled, quantity |-> raw.quantity,
         state |-> state, terminal |-> IsTerminal(state), failClosed |-> state = StateUnknown,
         old |-> raw.old]

\* collect, second half: the tracked orders the list did not show, by id.
PollTracked ==
    /\ phase = "listed"
    /\ phase' = "applying"
    /\ LET rest == {o \in Orders : Tracked(o) /\ \A raw \in batch : raw.o # o}
       IN  \E odd \in {{}} \cup {{o} : o \in rest}, ranBack \in BOOLEAN :
               /\ \A o \in odd : faults < setup.faults /\ bk[o].filled > 0
               /\ faults' = faults + Cardinality(odd)
               /\ batch' = {Snapshot(raw, FALSE) : raw \in batch}
                            \cup {Snapshot(Answer(o, o \in odd, ranBack), TRUE) : o \in rest}
    /\ UNCHANGED <<bk, ledgerVars>>

\* A read fails, a commit fails and rolls back, or the process dies: the cycle
\* is over and its snapshots are lost.
CycleFails ==
    /\ phase # "idle" /\ faults < setup.faults
    /\ faults' = faults + 1
    /\ phase' = "idle" /\ batch' = {}
    /\ UNCHANGED <<bk, ledgerVars>>

\* The cycle's last snapshot is applied and the freshness is stamped.
PollDone ==
    /\ phase = "applying" /\ batch = {}
    /\ phase' = "idle"
    /\ UNCHANGED <<bk, ledgerVars, batch, faults>>

-----------------------------------------------------------------------------
(* RecordFill.                                                             *)

\* confirmedFillOwners: exactly one intent has a confirmed attempt on the order.
SoleOwner(o) == own[o]

\* Mutant: the last row is the baseline, whenever it was committed.
PreviousRow(o) == snap[o]

\* The row a snapshot is measured against: one that precedes the ownership
\* belongs to an external order and is none.
Previous(o) == IF SoleOwner(o) /\ ~after[o] THEN NoRow ELSE snap[o]

\* classifyFillRefusal: no trustworthy state, a quantity that shrinks, another
\* quantity at an older time.
Refused(s) ==
    \/ s.failClosed
    \/ Previous(s.o).seen /\ s.filled < Previous(s.o).filled
    \/ Previous(s.o).seen /\ s.old /\ s.filled # Previous(s.o).filled

Delta(s) == s.filled - Previous(s.o).filled

\* sameSnapshot
SameSnapshot(s) ==
    LET prev == Previous(s.o)
    IN  prev.seen /\ ~prev.failClosed /\ s.filled = prev.filled
        /\ s.state = prev.state /\ s.terminal = prev.terminal

\* markFillRefused inserts when there is nothing to update. A row of the
\* external order is still there under the same key, and the insert fails.
InsertCollides(s) == ~Previous(s.o).seen /\ snap[s.o].seen

\* The instant of a commit: after the order's last row and latest ownership.
Stamp(o) == lead' = [lead EXCEPT ![o] = StrictlyAfter(@)]

\* The refusal is recorded beside the trusted quantity; nothing is released.
RecordRefusal(s) ==
    /\ Refused(s) /\ ~InsertCollides(s)
    /\ snap' = [snap EXCEPT ![s.o] =
                 IF Previous(s.o).seen THEN [@ EXCEPT !.failClosed = TRUE]
                 ELSE [NoRow EXCEPT !.seen = TRUE, !.state = s.state, !.failClosed = TRUE]]
    /\ after' = [after EXCEPT ![s.o] = own[s.o]]
    /\ Stamp(s.o)
    /\ UNCHANGED <<own, held, applied, pos, reconcile>>

\* ProjectPosition: the outcome of the fill on the symbol's instance.
Projected(s) ==
    Apply(pos, Role(s.o), Delta(s),
          ClassifyDisposition(s.filled, s.quantity, s.terminal, HasReplaceSuccessor(s.o)))

\* upsertFillSnapshot
Upserted(s) == [seen |-> TRUE, filled |-> s.filled, state |-> s.state,
                terminal |-> s.terminal, failClosed |-> FALSE]

\* resolveFillOrigin: an order no confirmed attempt names is external.
LocallyOwned(s) == own[s.o]

\* releaseReservationsForOrder: an owned terminal order frees its hold.
ReleaseHolds(s) ==
    held' = [held EXCEPT ![s.o] = @ /\ ~(s.terminal /\ LocallyOwned(s))]

\* runApplyHooks: the fill of an owned order is written to the instance or, when
\* the table refuses it, the instance is left and the symbol enters RECONCILE.
RunApplyHooks(s) ==
    IF LocallyOwned(s)
    THEN /\ applied' = [applied EXCEPT ![s.o] = @ + Delta(s)]
         /\ pos' = Projected(s).pos
         /\ reconcile' = (reconcile \/ Projected(s).refused)
    ELSE UNCHANGED <<applied, pos, reconcile>>

\* The snapshot advances, with everything that follows from it.
RecordAdvance(s) ==
    /\ ~Refused(s) /\ ~SameSnapshot(s)
    /\ snap' = [snap EXCEPT ![s.o] = Upserted(s)]
    /\ after' = [after EXCEPT ![s.o] = own[s.o]]
    /\ Stamp(s.o)
    /\ ReleaseHolds(s)
    /\ RunApplyHooks(s)
    /\ UNCHANGED own

\* A byte-identical re-observation touches nothing.
RecordNothing(s) ==
    /\ ~Refused(s) /\ SameSnapshot(s)
    /\ UNCHANGED ledgerVars

\* The list's snapshots come first, as the broker listed them, and then the
\* reads in the order of their ids.
InTurn(s) == s.byId => \A x \in batch : x.byId /\ s.o <= x.o

\* One snapshot committed; the refresh of the RECONCILE authority that follows
\* may fail, which ends the cycle with the row already advanced.
PollApply(s) ==
    /\ phase = "applying" /\ InTurn(s)
    /\ RecordRefusal(s) \/ RecordAdvance(s) \/ RecordNothing(s)
    /\ \/ batch' = batch \ {s} /\ UNCHANGED <<phase, faults>>
       \/ /\ faults < setup.faults
          /\ faults' = faults + 1 /\ phase' = "idle" /\ batch' = {}
    /\ UNCHANGED bk

\* RecordFill returns an error: the whole cycle ends.
PollApplyError(s) ==
    /\ phase = "applying" /\ InTurn(s)
    /\ Refused(s) /\ InsertCollides(s)
    /\ phase' = "idle" /\ batch' = {}
    /\ UNCHANGED <<bk, ledgerVars, faults>>

-----------------------------------------------------------------------------
Confirm == (\E o \in Orders : ConfirmPlace(o)) \/ ConfirmReplacement
Cycle == \/ PollList \/ PollTracked \/ PollDone
         \/ \E s \in batch : PollApply(s) \/ PollApplyError(s)

FillsNext == (Broker \/ SecondPasses \/ Confirm \/ Cycle \/ CycleFails) /\ UNCHANGED setup

FillsSpec == FillsInit /\ [][FillsNext]_<<fillVars, setup>>

\* The detector polls until it is stopped, whatever a cycle returned, and every
\* cycle ends; an amendment the broker made is confirmed, by its answer or by the
\* resolver.
LiveSpec ==
    /\ FillsSpec
    /\ []<>(phase = "listed") /\ []<>(phase = "idle")
    /\ []<>(Amends /\ bk[Child].status # "none" => own[Child])

-----------------------------------------------------------------------------
\* Type invariant: no row, projection or instance leaves its domain, whatever
\* the broker answered; nothing is recorded that was not filled, nor projected
\* that was not recorded.
FillsTypeOK ==
    /\ setup \in Setups
    /\ bk \in [Orders -> [status : BrokerStatuses, filled : Nat, quantity : Nat]]
    /\ snap \in [Orders -> Rows]
    /\ {own, after, held} \subseteq [Orders -> BOOLEAN]
    /\ lead \in [Orders -> -1..MaxLead]
    /\ applied \in [Orders -> Nat]
    /\ \A o \in Orders : /\ bk[o].filled <= bk[o].quantity
                         /\ snap[o].filled <= bk[o].filled /\ applied[o] <= snap[o].filled
    /\ pos \in [state : PositionStates, quantity : Nat, seq : Nat]
    /\ pos.quantity <= Total(Orders \ setup.sells, applied)
    /\ (pos.quantity = 0) <=> (pos.state \in {"FLAT", "CLOSED"})
    /\ reconcile \in BOOLEAN /\ phase \in {"idle", "listed", "applying"}
    /\ faults \in 0..setup.faults

\* RecordFill, fills.go:360: once a snapshot follows the ownership of an order,
\* everything the order's trusted cumulative quantity says was filled has been
\* handed to the projection exactly once, however early the order was first
\* seen, and however often a cycle was repeated, lost or cut short.  The child of
\* an amendment is left out: its ownership instant is not pushed past its rows.
EveryFillProjectedOnce ==
    \A o \in Orders : own[o] /\ ~IsChild(o) /\ after[o] => applied[o] = snap[o].filled

\* ProjectPosition: the projected quantity is what the applied buys minus the
\* applied sells leave, or the symbol is blocked by a RECONCILE state.
ExactOrBlocked ==
    \/ reconcile
    \/ pos.quantity = Total(Orders \ setup.sells, applied) - Total(setup.sells, applied)

\* releaseReservationsForOrder: a hold goes only when the broker really closed
\* the order and said how; no stale, refused or external snapshot frees it.
HeldUntilSettled ==
    \A o \in Orders : ~held[o] => own[o] /\ bk[o].status \in Settled

\* An owned order that was closed without a reason, over a row of before its
\* ownership: its refusal cannot be written, and each cycle ends there.
Stuck(o) == own[o] /\ bk[o].status = "CLOSED" /\ snap[o].seen /\ ~after[o]

\* TrackedFillOrders: an owned order that the broker has settled is read until
\* its whole quantity is recorded and its hold released, even when it filled
\* before the first cycle or was closed before it was owned; or an order that is
\* read before it ends every cycle (markFillRefused's insert).
SettledIsRecorded ==
    \A o \in Orders :
        (own[o] /\ bk[o].status \in Settled)
            ~> \/ after[o] /\ snap[o].filled = bk[o].filled /\ ~held[o]
               \/ \E x \in Orders : x < o /\ Stuck(x)

\* The fill ledger's safety: every fill is projected once, the position is exact
\* or blocked, and no hold is freed early (RecordFill and ProjectPosition).
FillInv == FillsTypeOK /\ EveryFillProjectedOnce /\ ExactOrBlocked /\ HeldUntilSettled
=============================================================================
