---------------------------- MODULE Reservations ----------------------------
(***************************************************************************)
(* The reservation ledger: journal/reservations.go, issuance.go,           *)
(* reservation_release.go, daily_buy.go, open_positions.go.                *)
(*                                                                         *)
(* An issuer reads the ledger's version, collects a broker snapshot, and   *)
(* asks for the reservation in one transaction.  Other issuers, fills,     *)
(* releases and sweeps run in between.  The transaction adds what the      *)
(* snapshot saw to what is held and refuses at the limit; the version is   *)
(* the fence against a snapshot the ledger has moved past.                 *)
(*                                                                         *)
(* OPEN_EXPOSURE is the one kind the issuers reserve.  Every decision is   *)
(* an entry that weighs one unit, so sums are cardinalities.  The order's  *)
(* own path (module Gateway) is reduced to what the ledger looks at: the   *)
(* attempt, the order, and what the journal has observed of it.            *)
(***************************************************************************)
EXTENDS Integers, FiniteSets

CONSTANTS
  Decisions, Issuers,
  NoDecision,
  Setups,          \* the accounts to look at, each a record of
                   \*   exposure, dailyBuy, positions: the configured limits
                   \*   late: issuers that keep an earlier observation and read
                   \*     the version after it (the strategy lanes' first leg)
                   \*   sameVenue: decisions that enter one and the same venue
  MaxTries,        \* RecollectPolicy.MaxAttempts
  LastDay          \* bound: account days

ASSUME ReservationsAssumption ==
  /\ IsFiniteSet(Decisions) /\ NoDecision \notin Decisions
  /\ Setups \subseteq [exposure : Nat \ {0}, dailyBuy : Nat \ {0},
                      positions : Nat \ {0}, late : SUBSET Issuers,
                      sameVenue : SUBSET Decisions]
  /\ MaxTries \in Nat \ {0} /\ LastDay \in Nat \ {0}

VARIABLES
  setup,     \* the account's configuration, fixed while the engine runs
  day,       \* the account day
  issued,    \* decisions.issued_at, as its account day; 0: no row
  expired,   \* decisions past expires_at
  row,       \* risk_reservations: state, and why it was released
  spent,     \* decisions whose nonce is in spent_nonces
  attempt,   \* mutation_attempts.state of the decision's PLACE
  order,     \* the broker's order
  snapshot,  \* the terminal fill snapshot RecordFill committed; "refused": the
             \*   projection refused it, "folded": the account's adjustment made
             \*   up the position it had left out
  issuer     \* each issuer's collect-validate-insert loop

ledger == <<issued, row>>
path == <<spent, attempt, order, snapshot>>
ledgerVars == <<setup, day, issued, expired, row, spent, attempt, order, snapshot, issuer>>

Days == 1..LastDay
Released == {"BROKER_TERMINAL", "EXPIRED_UNCONSUMED", "OPERATOR"}
Idle == [pc |-> "idle", dec |-> NoDecision, day |-> 0, version |-> 0,
         usage |-> 0, fresh |-> FALSE, tries |-> 0]

\* Type invariant: the type of the ledger and its issuers.
LedgerTypeOK ==
  /\ setup \in Setups
  /\ day \in Days
  /\ issued \in [Decisions -> 0..LastDay]
  /\ expired \subseteq Decisions /\ spent \subseteq Decisions
  /\ row \in [Decisions -> {"none", "HELD"} \cup Released]
  /\ attempt \in [Decisions -> {"none", "RECORDED", "DISPATCH_STARTED",
                     "IN_DOUBT", "CONFIRMED", "NOT_DISPATCHED",
                     "FAILED_CONFIRMED", "UNRESOLVED_IN_DOUBT"}]
  /\ order \in [Decisions -> {"none", "wire", "live", "refused", "filled",
                              "exited", "cancelled"}]
  /\ snapshot \in [Decisions -> {"none", "zero", "filled", "refused", "folded"}]
  /\ issuer \in [Issuers -> [pc : {"idle", "start", "read", "collected"},
                             dec : Decisions \cup {NoDecision}, day : 0..LastDay,
                             version : Nat, usage : Nat, fresh : BOOLEAN,
                             tries : 0..MaxTries]]

LedgerInit ==
  /\ setup \in Setups
  /\ day = 1 /\ expired = {} /\ spent = {}
  /\ issued = [d \in Decisions |-> 0]
  /\ row = [d \in Decisions |-> "none"]
  /\ attempt = [d \in Decisions |-> "none"]
  /\ order = [d \in Decisions |-> "none"]
  /\ snapshot = [d \in Decisions |-> "none"]
  /\ issuer = [i \in Issuers |-> Idle]

-----------------------------------------------------------------------------
(* The ledger's own arithmetic. *)

HeldIn(r) == {d \in Decisions : r[d] = "HELD"}

\* Mutant: the version counts the rows and not their releases.
VersionOfRows(r) == 1 + Cardinality({d \in Decisions : r[d] # "none"})

\* reservationVersion: 1, and one for every insert and every release.
Version(r) ==
  1 + Cardinality({d \in Decisions : r[d] # "none"})
    + Cardinality({d \in Decisions : r[d] \in Released})

\* sweepExpiredUnconsumed: a spent nonce means something was sent.
Swept(r) ==
  [d \in Decisions |-> IF r[d] = "HELD" /\ d \in expired /\ d \notin spent
                       THEN "EXPIRED_UNCONSUMED" ELSE r[d]]

\* sweepOrphanedTerminals: the attempt or the order is already over.
OrphansReleased(r) ==
  [d \in Decisions |->
     IF r[d] = "HELD" /\ \/ attempt[d] \in {"NOT_DISPATCHED", "FAILED_CONFIRMED"}
                         \/ attempt[d] = "CONFIRMED" /\ snapshot[d] # "none"
     THEN "BROKER_TERMINAL" ELSE r[d]]

\* What the account snapshot reports: positions, never our own holds.
OpenExposure == Cardinality({d \in Decisions : order[d] = "filled"})

\* checkLimits: usage + held + new, refused when the limit is reached.
WithinLimits(usage, r) == usage + Cardinality(HeldIn(r)) + 1 < setup.exposure

\* proveZeroFill: Z1 never prepared, Z2 never sent or refused by the broker,
\* Z3 a terminal snapshot with nothing filled.
ProveZeroFill(r, d) ==
  \/ attempt[d] = "none" /\ r[d] = "EXPIRED_UNCONSUMED"
  \/ attempt[d] \in {"NOT_DISPATCHED", "FAILED_CONFIRMED"}
  \/ r[d] = "BROKER_TERMINAL" /\ attempt[d] = "CONFIRMED" /\ snapshot[d] = "zero"

\* dailyBuyTotal: every hold, and today's releases not proved empty.
DailyBuyTotal(r) ==
  Cardinality(HeldIn(r) \cup
    {d \in Decisions : r[d] \in Released /\ issued[d] = day /\ ~ProveZeroFill(r, d)})

\* checkDailyBuyNotional: a buy counts on the day its decision was issued.
WithinDailyBuy(r, issuedDay) ==
  issuedDay = day /\ DailyBuyTotal(r) + 1 < setup.dailyBuy

VenueOf(d) == IF d \in setup.sameVenue THEN NoDecision ELSE d

\* The rows of the projection, written with the snapshot or by an adjustment; a
\* position ends with its exit.
Positions == {d \in Decisions : snapshot[d] \in {"filled", "folded"} /\ order[d] # "exited"}

\* The active symbol-scoped RECONCILE rows: a refused projection entered one, of
\* cause ATTRIBUTION_FAILED, and no comparison and no adjustment releases it.
Reconciling == {VenueOf(d) : d \in {x \in Decisions : snapshot[x] \in {"refused", "folded"}}}

\* heldVenues: live positions and the entries that hold a reservation.
HeldVenues(r) == {VenueOf(d) : d \in Positions \cup HeldIn(r)}

\* Mutant: the venues that only reconcile take no slot.
WithinHeldPositions(r, d) ==
  \/ VenueOf(d) \in HeldVenues(r)
  \/ Cardinality(HeldVenues(r)) + 1 <= setup.positions

ReconciledExtraSlots(r, d) == Reconciling \ (HeldVenues(r) \cup {VenueOf(d)})

\* checkOpenPositions: a venue already held adds none, whatever the count is; a
\* new one is counted with those held and those that only reconcile.
WithinOpenPositions(r, d) ==
  \/ VenueOf(d) \in HeldVenues(r)
  \/ Cardinality(HeldVenues(r)) + Cardinality(ReconciledExtraSlots(r, d)) + 1
       <= setup.positions

-----------------------------------------------------------------------------
(* recollectLoop around RecordDecisionAndReserve. *)

\* The decision and its issued_at are fixed before the loop.
Begin(i, d) ==
  /\ issuer[i].pc = "idle" /\ issued[d] = 0
  /\ \A j \in Issuers : issuer[j].dec # d
  /\ issuer' = [issuer EXCEPT ![i] =
       [pc |-> "start", dec |-> d, day |-> day, version |-> 0,
        usage |-> OpenExposure, fresh |-> TRUE, tries |-> 0]]
  /\ UNCHANGED <<setup, day, expired, ledger, path>>

\* collectExposure: the version first.
ReadVersion(i) ==
  /\ issuer[i].pc = "start" /\ i \notin setup.late
  /\ issuer' = [issuer EXCEPT ![i].pc = "read", ![i].version = Version(row)]
  /\ UNCHANGED <<setup, day, expired, ledger, path>>

\* Then the broker's account, over the network.
Collect(i) ==
  /\ issuer[i].pc = "read"
  /\ issuer' = [issuer EXCEPT ![i].pc = "collected", ![i].usage = OpenExposure,
                              ![i].fresh = TRUE]
  /\ UNCHANGED <<setup, day, expired, ledger, path>>

\* The first leg's collector: the observation was made before Begin's loop,
\* and each attempt pairs it with the version as it is now.
CollectLate(i) ==
  /\ issuer[i].pc = "start" /\ i \in setup.late
  /\ issuer' = [issuer EXCEPT ![i].pc = "collected", ![i].version = Version(row)]
  /\ UNCHANGED <<setup, day, expired, ledger, path>>

\* The snapshot passes riskcalc.AccountSnapshotStaleness.
SnapshotAges(i) ==
  /\ issuer[i].pc = "collected" /\ issuer[i].fresh
  /\ issuer' = [issuer EXCEPT ![i].fresh = FALSE]
  /\ UNCHANGED <<setup, day, expired, ledger, path>>

\* reservePrecheck's two fences.
PrecheckPasses(i) == issuer[i].fresh /\ issuer[i].version = Version(row)

\* What reserveRows checks, on the ledger after the sweep.
Reservable(i) ==
  LET r == Swept(row) IN
  /\ WithinLimits(issuer[i].usage, r)
  /\ WithinDailyBuy(r, issuer[i].day)
  /\ WithinOpenPositions(r, issuer[i].dec)

\* RecordDecisionAndReserve commits: the sweep, the decision and its hold.
Issue(i) ==
  LET d == issuer[i].dec IN
  /\ issuer[i].pc = "collected" /\ PrecheckPasses(i) /\ Reservable(i)
  /\ issued' = [issued EXCEPT ![d] = issuer[i].day]
  /\ row' = [Swept(row) EXCEPT ![d] = "HELD"]
  /\ issuer' = [issuer EXCEPT ![i] = Idle]
  /\ UNCHANGED <<setup, day, expired, path>>

\* A limit refusal rolls everything back and is not retried.
LimitRefused(i) ==
  /\ issuer[i].pc = "collected" /\ PrecheckPasses(i) /\ ~Reservable(i)
  /\ issuer' = [issuer EXCEPT ![i] = Idle]
  /\ UNCHANGED <<setup, day, expired, ledger, path>>

\* ErrSnapshotStale and ErrSnapshotSuperseded collect again.
Recollect(i) ==
  /\ issuer[i].pc = "collected" /\ ~PrecheckPasses(i)
  /\ issuer[i].tries + 1 < MaxTries
  /\ issuer' = [issuer EXCEPT ![i].pc = "start", ![i].tries = @ + 1]
  /\ UNCHANGED <<setup, day, expired, ledger, path>>

\* ErrRecollectionExhausted: attempts or budget spent, or the decision's TTL.
Exhausted(i) ==
  /\ issuer[i].pc \in {"start", "collected"}
  /\ issuer' = [issuer EXCEPT ![i] = Idle]
  /\ UNCHANGED <<setup, day, expired, ledger, path>>

-----------------------------------------------------------------------------
(* What happens to an issued decision. *)

\* Prepare records the attempt and binds the decision's reservations to it.
Prepare(d) ==
  /\ issued[d] # 0 /\ attempt[d] = "none" /\ d \notin expired
  /\ attempt' = [attempt EXCEPT ![d] = "RECORDED"]
  /\ UNCHANGED <<setup, day, expired, ledger, spent, order, snapshot, issuer>>

\* MarkDispatchStarted spends the nonce.
Dispatch(d) ==
  /\ attempt[d] = "RECORDED"
  /\ attempt' = [attempt EXCEPT ![d] = "DISPATCH_STARTED"]
  /\ spent' = spent \cup {d}
  /\ UNCHANGED <<setup, day, expired, ledger, order, snapshot, issuer>>

\* The dispatch closure reads the decision and its hold again, then sends.
Send(d) ==
  /\ attempt[d] = "DISPATCH_STARTED" /\ order[d] = "none" /\ d \notin expired
  /\ row[d] = "HELD"
  /\ order' = [order EXCEPT ![d] = "wire"]
  /\ UNCHANGED <<setup, day, expired, ledger, spent, attempt, snapshot, issuer>>

ReleaseFor(d) ==
  row' = IF row[d] = "HELD" THEN [row EXCEPT ![d] = "BROKER_TERMINAL"] ELSE row

\* An attempt that ends without an order frees its holds in that transaction.
NotDispatched(d) ==
  /\ attempt[d] \in {"RECORDED", "DISPATCH_STARTED"} /\ order[d] = "none"
  /\ attempt' = [attempt EXCEPT ![d] = "NOT_DISPATCHED"]
  /\ ReleaseFor(d)
  /\ UNCHANGED <<setup, day, issued, expired, spent, order, snapshot, issuer>>

FailedConfirmed(d) ==
  /\ attempt[d] \in {"DISPATCH_STARTED", "IN_DOUBT", "UNRESOLVED_IN_DOUBT"}
  /\ order[d] = "refused"
  /\ attempt' = [attempt EXCEPT ![d] = "FAILED_CONFIRMED"]
  /\ ReleaseFor(d)
  /\ UNCHANGED <<setup, day, issued, expired, spent, order, snapshot, issuer>>

\* The answer is lost, and the resolver may give up on it.
InDoubt(d) ==
  /\ order[d] # "none"
  /\ \/ /\ attempt[d] = "DISPATCH_STARTED"
        /\ attempt' = [attempt EXCEPT ![d] = "IN_DOUBT"]
     \/ /\ attempt[d] = "IN_DOUBT"
        /\ attempt' = [attempt EXCEPT ![d] = "UNRESOLVED_IN_DOUBT"]
  /\ UNCHANGED <<setup, day, expired, ledger, spent, order, snapshot, issuer>>

\* CONFIRMED releases nothing: the order exists.
Confirm(d) ==
  /\ attempt[d] \in {"DISPATCH_STARTED", "IN_DOUBT", "UNRESOLVED_IN_DOUBT"}
  /\ order[d] \in {"live", "filled", "exited", "cancelled"}
  /\ attempt' = [attempt EXCEPT ![d] = "CONFIRMED"]
  /\ UNCHANGED <<setup, day, expired, ledger, spent, order, snapshot, issuer>>

\* The broker, on its own.
BrokerMoves(d) ==
  /\ \/ order[d] = "wire" /\ order' = [order EXCEPT ![d] = "live"]
     \/ order[d] = "wire" /\ order' = [order EXCEPT ![d] = "refused"]
     \/ order[d] = "live" /\ order' = [order EXCEPT ![d] = "filled"]
     \/ order[d] = "live" /\ order' = [order EXCEPT ![d] = "cancelled"]
     \/ order[d] = "filled" /\ snapshot[d] # "none"
        /\ order' = [order EXCEPT ![d] = "exited"]
  /\ UNCHANGED <<setup, day, expired, ledger, spent, attempt, snapshot, issuer>>

\* RecordFill: the terminal snapshot, the release and the projection, in one
\* transaction.  A projection that refuses the fill (the venue's instance was
\* closing) rejects neither the snapshot nor the release: only a RECONCILE row
\* is left of the position.
RecordFill(d) ==
  /\ attempt[d] = "CONFIRMED" /\ snapshot[d] = "none"
  /\ \E s \in {"zero", "filled", "refused"} :
       /\ order[d] = (IF s = "zero" THEN "cancelled" ELSE "filled")
       /\ snapshot' = [snapshot EXCEPT ![d] = s]
  /\ ReleaseFor(d)
  /\ UNCHANGED <<setup, day, issued, expired, spent, attempt, order, issuer>>

\* ApplyPositionAdjustment: the account holds what no instance covers, and the
\* adjustment opens the row.  The RECONCILE row stays.
FoldIn(d) ==
  /\ snapshot[d] = "refused" /\ order[d] = "filled"
  /\ snapshot' = [snapshot EXCEPT ![d] = "folded"]
  /\ UNCHANGED <<setup, day, expired, ledger, spent, attempt, order, issuer>>

\* OperatorReleaseReservation.  The evidence a human must give is taken at
\* its word: no order is on its way or live, and nothing was bought.
OperatorRelease(d) ==
  /\ row[d] = "HELD" /\ order[d] \notin {"wire", "live", "filled"}
  /\ row' = [row EXCEPT ![d] = "OPERATOR"]
  /\ UNCHANGED <<setup, day, issued, expired, path, issuer>>

\* SweepReservations, once at startup.
SweepReservations ==
  /\ OrphansReleased(Swept(row)) # row
  /\ row' = OrphansReleased(Swept(row))
  /\ UNCHANGED <<setup, day, issued, expired, path, issuer>>

Expire(d) ==
  /\ issued[d] # 0 /\ d \notin expired
  /\ expired' = expired \cup {d}
  /\ UNCHANGED <<setup, day, ledger, path, issuer>>

NextDay ==
  /\ day < LastDay /\ day' = day + 1
  /\ UNCHANGED <<setup, expired, ledger, path, issuer>>

LedgerNext ==
  \/ \E i \in Issuers :
       \/ \E d \in Decisions : Begin(i, d)
       \/ ReadVersion(i) \/ Collect(i) \/ CollectLate(i) \/ SnapshotAges(i)
       \/ Issue(i) \/ LimitRefused(i) \/ Recollect(i) \/ Exhausted(i)
  \/ \E d \in Decisions :
       \/ Prepare(d) \/ Dispatch(d) \/ Send(d) \/ NotDispatched(d)
       \/ FailedConfirmed(d) \/ InDoubt(d) \/ Confirm(d) \/ BrokerMoves(d)
       \/ RecordFill(d) \/ FoldIn(d) \/ OperatorRelease(d) \/ Expire(d)
  \/ SweepReservations \/ NextDay

LedgerSpec == LedgerInit /\ [][LedgerNext]_ledgerVars

-----------------------------------------------------------------------------
\* A decision counts against the account while it holds headroom, or while
\* its order is on its way, live, or has become a position.
Committed ==
  HeldIn(row) \cup {d \in Decisions : order[d] \in {"wire", "live", "filled"}}

\* The refinement is claimed of accounts whose issuers all read the version
\* first: one that reads it after its snapshot is judged on less.
Room == INSTANCE Headroom WITH limit <- setup.exposure,
                               committed <- IF setup.late = {} THEN Committed ELSE {}

\* Two issuers, fills and releases in any order never commit more than the
\* exposure limit allows: every issuance is judged as if it had seen the whole
\* account at the instant it commits (Reserve's version fence over a snapshot
\* collected outside the transaction).
ImplementsHeadroom == Room!Spec

\* No day's decisions buy as much as the daily ceiling, however late their
\* orders fill and whichever way their holds were released (dailyBuyTotal
\* counts what proveZeroFill cannot exclude).
DailyBuyBounded ==
  \A k \in Days :
    Cardinality({d \in Decisions : issued[d] = k
                   /\ order[d] \in {"wire", "live", "filled", "exited"}})
      < setup.dailyBuy

\* The venues the account is in, counting an order that filled but was not yet
\* observed, and a position the projection refused to write, never exceed the
\* maximum (checkOpenPositions reads positions, holds and RECONCILE rows in the
\* transaction that adds one).
PositionsBounded ==
  Cardinality({VenueOf(d) : d \in {x \in Decisions :
                 order[x] \in {"wire", "live", "filled"}}}) <= setup.positions

\* The account's two other ceilings hold whatever the order of issues, fills
\* and releases (daily_buy.go, open_positions.go).
LedgerInv == LedgerTypeOK /\ DailyBuyBounded /\ PositionsBounded
=============================================================================
