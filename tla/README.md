# TLA+ models of tossinvest-cli

`tossctl` trades a brokerage account through an HTTP API whose answers may be lost, late or
incomplete. Its safety rests on a journal (one SQLite file) and on the procedures around it: an
order is authorised, recorded, sent, settled; what is unknown is resolved by looking at the
broker; a fill is recorded once and moves the position, the holds, the exits and the strategy's
own books in one transaction; whatever does not fit stops new entries. These modules model those
procedures, TLC checks them on small instances, and TLAPS proves most of their safety for every
instance.

All paths below are relative to `src/`.

## 1. Inventory

| Component | State it keeps | Operations | Module |
|---|---|---|---|
| Attempt lifecycle (`internal/journal/lifecycle.go`, `durability.go`) | `mutation_attempts.state` | the transition table and the from-set of every journal method | `AttemptLifecycle` |
| Execution gateway (`internal/execgw/gateway.go`, `guardian.go`, `classify.go`, `roundtrip.go`, `cancel_refusal.go`) | symbols in flight in this process | `submit`: claim, check, record, re-check, dispatch, settle | `Gateway` |
| Dispatch and nonces (`internal/journal/dispatch.go`, `nonce.go`) | `dispatch_started_at`, `spent_nonces` | spend-and-start, verdicts on an answer, pruning | `Gateway` |
| Restart recovery (`internal/journal/recovery.go`, `internal/reconcile/recovery.go`, `acked_boot.go`) | the list it read; `RecoveryIncomplete` | sweep, prune, recover, resolve, open the gate | `Gateway`, `ReconcileTracker` |
| In-doubt resolver (`internal/execgw/indoubt.go`, `amend_indoubt.go`) | counters and times of one procedure | look for the order, judge the target, park | `Resolver` |
| Idempotent replay (`internal/execgw/replay.go`, `internal/journal/replay.go`) | the durable count and times of an attempt's replays | resend under the same key, count before, read the answer | `Replay` |
| Reservations (`internal/journal/reservations.go`, `reservation_release.go`, `issuance.go`, `daily_buy.go`, `open_positions.go`) | `risk_reservations`, the ledger version | issue under a version fence, bind, release, sweep | `Reservations`, `Headroom`; `Gateway` without amounts |
| Risk buckets (`internal/journal/risk_bucket*.go`, `internal/riskbucket`) | bucket rows, owners, latches, state seals, the loss lock | collect, admit, fill, release, bind, late fill, relieve | `RiskBuckets` |
| Broker-state derivation (`internal/brokerstate/derive.go`) | none | the priority table | `BrokerState` |
| Fills and projection (`internal/filldetect`, `internal/journal/fills.go`, `position_projection.go`, `internal/position`) | snapshots, ownership, positions | poll, read by id, record, release, project | `Fills`, `PositionTable` |
| Mismatch tracker (`internal/reconcile/mismatch.go`, `internal/journal/reconcile_states.go`) | blocks, pending writes, streaks, credits; RECONCILE rows | `Observe`, `Refresh`, `Restore`, `Resolve`, persist | `ReconcileTracker` |
| Reconciliation loop (`internal/app/engine/reconcileloop.go`, `internal/reconcile/converge.go`, `compare.go`) | the comparison in hand | compare, converge, refresh, observe | `ReconcileTracker` |
| Entry gate (`internal/execgw/retry.go`, `symbolgate.go`, `entrylatch.go`) | latches with reasons and clear epochs | block, clear, `CheckEntryFor` | `ReconcileTracker`, `OperatingMode`, `Alerts`, one family each |
| Operating mode (`internal/journal/operating_mode.go`, `internal/execgw/modegate.go`, `internal/app/engine/modeops.go`) | mode rows, the projected latch | escalate, relax, project, restore | `OperatingMode` |
| Alerts (`internal/obs`, `internal/journal/outbox.go`, `alert_claim.go`, `internal/app/engine/alertdelivery.go`) | outbox rows with leases, failure runs, the alert latch | record, claim, publish, judge, acknowledge | `Alerts` |
| Flatten-all (`internal/flatten`, `internal/journal/flatten.go`, `cmd/tossctl/flatten.go`) | saga and step rows | cancel all, plan, sell down, resume | `Flatten`; its cancels in `Gateway` |
| Exits (`internal/app/engine/exitloop.go`, `internal/journal/exit_*.go`, `apply_hook.go`, `internal/exitpolicy`) | the exit row, the armed proposal | read, judge, clear, arm, submit, answer a fill | `Exit` |
| Strategy dispatch (`internal/journal/strategy_dispatch_runtime.go`, `internal/app/engine`, `internal/execgw`) | owner epochs, leases, their holds | acquire, issue, claim, submit, settle, recover | `StrategyDispatch` |
| Position campaigns (`internal/journal/position_campaign.go`, `internal/positioncampaign`) | campaigns, legs, order links, claims, events | create, plan, link, replace, fill, cancel, replay | `PositionCampaign` |
| Protection, strategy lanes, per-order risk chain, scheduler, engine lock, clients, console, HTTP API, verification and soak, updates, command line | see `PROJECT.json` | | not modelled, section 7 |

**How they interact.** A Guardian decision is issued into the journal with a hold on headroom
(`Reservations`) and, for a strategy, holds in its monetary buckets (`RiskBuckets`) and a lease
(`StrategyDispatch`). A goroutine calls `Gateway.submit` with it. `submit` claims the symbol in
memory, reads the journal, records an attempt, reads again, spends the decision's nonce and starts
the dispatch in one transaction, calls the broker, and settles the attempt by the answer; a doubt
goes to the resolver, which may replay the request. The fill detector polls the broker, and
`RecordFill` turns what it saw into a delta and applies it, in one transaction, to the position,
the holds, the risk buckets, the campaign and the exit row. The exit observer reads that row and a
price and submits sells through the same gateway; the strategies' campaigns decide what may still
be bought. Beside it the reconciliation loop compares the account with the projection, the mode,
the alerts and the tracker raise latches on the entry gate, and flatten-all, a process of its own
without the engine lock, cancels and sells everything. Everything between two transactions
interleaves with other goroutines, with the other process, with the broker and with a crash.

**What is hard.** A crash between a commit and a broker call; a request that takes effect after
its sender gave up; a list of pending rows that is stale when it is acted on; two processes
between a check and an insert; evidence that is deleted while it can still matter; lists that lag
behind the broker; a fill seen before the journal owns its order, or after its owner was released;
a projection of an older row after a newer one; a snapshot of headroom or of a bucket that another
entry has moved past; a lease that lapses under its holder; a judgement of a copy; an approval
executed after what it approved has changed; a write that fails after it committed. Each is listed
with its line under `hazards` in `PROJECT.json`, with the properties that would catch it.

**What makes each part correct.**

* gateway and dispatch: one authorisation has at most one effect at the broker; no request is
  repeated outside the cancel budget; "it did not happen" is never said of an order that exists;
* reservations: headroom is held while there is exposure, comes back when there is none, and is
  never given away twice, whoever issues;
* risk buckets: a bucket is within a recorded limit or latched, and no fill drops out of it;
* recovery: an engine that trades has no doubt left, and every doubt ends;
* resolver and replay: both verdicts are true when they are given; asking never makes an order;
* fills: every fill is projected once, the position is exact or blocked;
* tracker: no entry past an open dispute, no release and no account-wide block that was not earned,
  and a block whose cause was fixed lifts without a human;
* mode and alerts: the gate never shows an older row than the journal's; a judged failure blocks
  entries until a person has seen it, and no alert rests unanswered;
* flatten and exits: nothing is sold that is not held; what is recorded as done is done; a
  protective line never falls; an armed proposal can end;
* strategy dispatch and campaigns: money stays held for what may be an order; the events rebuild
  what the rows say; an anomaly sets the campaign aside.

## 2. Modules

| Module | What it is |
|---|---|
| `AttemptLifecycle` | the transition table and the declared from-sets; no state |
| `Gateway` | the order path: workers, processes, journal, broker, operator (extends `AttemptLifecycle`) |
| `OrderOnce`, `GatewayOnce` | the abstract promise about one authorisation; the refinement mapping to it |
| `GatewayInv`, `GatewayProofs` | the invariant that holds for any number of processes; its proof, the invariant of one process, and the theorems |
| `Resolver` | one resolution against a lagging broker |
| `ReconcileTracker` | the tracker, its rows, its latches and the cycle that drives it |
| `ReconcileProofs` | the tracker's safety, both verdicts of the resolver and the fill ledger's safety proved |
| `Headroom`, `Reservations` | the abstract ledger; the reservation ledger that implements it |
| `Replay`, `OperatingMode`, `RiskBuckets` | three more protocols over the journal |
| `JournalProofs` | the mode, the replay, the ledger and the buckets proved, the ledger to implement `Headroom` |
| `MCJournal` | composes and instantiates the four protocols of the three lines above |
| `Alerts`, `AlertProofs` | the outbox and its two kinds of senders; their safety proved |
| `BrokerState`, `PositionTable`, `Fills` | two tables without state and the detector that uses them |
| `Flatten`, `StrategyDispatch`, `Exit`, `PositionCampaign` | the emergency exit, the strategy's road to the broker, the exit observer, the campaign ledger |
| `FlattenProofs`, `StrategyProofs`, `ExitProofs` | their safety proved, the leases and the campaigns in `StrategyProofs` |
| `SumTheorems` | sums over finite sets, for the proofs that count shares |
| `MCGateway`, `MCReconcile`, `MCAlerts`, `MCFills`, `MCFlatten`, `MCExit`, `MCPositionCampaign` | instances for TLC |

Definitions keep the source's names where there is one; the `map` of `PROJECT.json` gives the
lines of each. A definition marked `Mutant` in its comment is a broken variant that the mutation
entries substitute; no specification uses it otherwise. A name ending in `Inv` (`AlertInv`,
`LedgerInv`, ...) is the conjunction of a module's type invariant and its named safety invariants;
each conjunct has its own comment.

### Gateway

Variables follow the tables: `attState`, `attDec`, `started` (`dispatch_started_at` is set),
`spent`/`spentAt` (`spent_nonces`), `hold`/`holdAtt` (`risk_reservations`). `inflight` is
`Gateway.inflight` of each process; `pc`, `wDec`, `wAtt` are a goroutine inside `submit`;
`phase` and `listed` are a process's start. `broker` is what became of the attempt's request:
on the wire, live, refused, lost, closed.

One action is one journal transaction, one broker call or one in-memory step that others can
see. `Submit` to `CheckUnspent` are `claimSymbol`, `checkSymbolFree` (two reads) and
`checkDecisionUnspent`; `Prepare` records and binds the hold; `CheckDecision`,
`CheckReservation` and `Refuse` stand between the record and the dispatch;
`MarkDispatchStarted` is the atomic spend-and-start; `RecheckDecision`, `RecheckReservation`,
`NotSent` and `Send` are the dispatch closure; `MarkAcked`, `SettleRejected`, `MarkInDoubt`,
`SettleConfirmed` and `RoundTripUnconfirmed` are `DispatchVerified`'s branches and the
read-back; `RetryCancel` is `withCancelRefusal`. `JournalError` is a failed write at any of
these points. `SweepReservations`, `PruneSpentNonces`, `BeginRecovery`, `RecoverOne`,
`BeginResolution`, `ResolveOne` and `FinishRecovery` are the engine's start in its order.

Abstractions. Entry, protection, preflight and strategy-lease gates only ever refuse, so they
are the refusals `ReturnUnrecorded`, `Refuse` and `NotSent`, which need no reason. A hold has no
amount. A decision row that cannot be read is not modelled apart from the refusal it causes.
`ResolveFailed` assumes that a proof of absence is right; `Resolver` examines that assumption. An
operator closes a parked row rightly, and may release a hold wrongly. An acknowledged CANCEL or
AMEND may stay pending over every restart: the project's own specification
(`openspec/specs/order-execution/spec.md`, lines 108-110) says so.

### Resolver

One attempt in doubt, dispatched at time 0. `ReadTarget`/`JudgeTarget` are the cancel and amend
procedures, `ScanOpen`/`ScanClosed`/`Corroborate` the search for a created order, `WaitOrExpire`
and `Wake` the loop. The broker takes a request up before `Transit` or never, and an order is in
both lists it belongs to no later than `Lag` after its creation; single-order reads are current.
`BrokerAssumption` says that `MinObservation` covers transit, lag and one observation: that is
what the constant in the code has to be chosen for. Other orders with the same fingerprint are not modelled
(`OneInFlightPerSymbol` is about why the engine creates none), and the account check of
`absenceCorroborated` is abstracted to "a partial fill always shows, any doubt parks".

### ReconcileTracker

`rows` is the journal's active state per scope, `blocks`/`pending`/`streaks`/`promotion`/
`credits` the tracker's fields, `acctLatch`/`symLatch`/`recovering` the gate's, `cycle`/`diff`
the driver's. `Compare`, `RefreshCycle` or `RefreshFails`, and `ObserveAgreeing`,
`ObserveBlocking` or `ObserveUnread` are one `RunOnce`. An observation holds the tracker's mutex
over its writes and the writes of one scope commute with other producers', so it is one step;
`Persisted` says which of its writes it saw succeed and whether the one it stopped at was
committed all the same. `CheckEntryFor` refreshes first, as the code does. `EnterReconcile` is
every other producer. `Resolve` is two steps, because the journal and the memory are cleared one
after the other. `owed`, `refuted`, `differed`, `runs` and `bootDispute` are history for the
properties.

Abstractions. A symbol has one dispute per comparison; a quantity tuple is one of two values; the
stamp of a credit is "none", "fresh" (the latest comparison) or "older", which is all the code asks
of it; streaks are counted up to `MaxFailures`. Market-wide scopes and blocks without a symbol are
not modelled. Production code never calls `Tracker.Resolve` at this commit; the model has it because it is
the documented way out of a permanent block, and a dispute observed between its two steps is
left to the operator who is resolving. `CheckEntryFor` is one step: the refresh, the check of the
account's latches and the check of the symbol's are three short critical sections in the code.

### Reservations, over Headroom

An issuer reads the ledger's version, collects a broker snapshot and asks for the hold in one
transaction (`Begin`, `ReadVersion`, `Collect`, `Issue` with its refusals `LimitRefused`,
`Recollect`, `Exhausted`); other issuers, fills, releases, sweeps and the change of the day run in
between. `Version` is the fence: one for every insert and every release. The daily-buy total
counts a decision until a zero fill is proved (`ProveZeroFill`). The position ceiling counts venues
(`WithinOpenPositions`): those of live positions, those of held entries (`HeldVenues`), and those
that only a RECONCILE row of the symbol still stands for (`ReconciledExtraSlots`). The last term is
there because `RecordFill` releases the hold of a terminal order also when the projection refuses
the fill: no position row is written, the RECONCILE row is, in the same transaction, and an
adjustment by the account's holdings makes up the position later (`FoldIn`, after which the row
stands until the tracker releases it). A symbol is in one market here, so
the market of a RECONCILE scope is left out; rows of other causes, which only make the count
higher, are too. One case is outside the model: a refusal that finds a row of the tracker's own
active on the symbol adds none (`internal/journal/position_projection.go:400`), so what keeps the
slot then ends when the tracker releases its row, perhaps before the adjustment. `Headroom` is the abstract ledger, in which a decision is committed only while there is
room at that instant; `ImplementsHeadroom` is the refinement. Every decision weighs one unit, so
sums are cardinalities. The order's own path is reduced to what the ledger looks at. The
operator's evidence for a release is taken at its word; manual buys and the DAILY_LOSS and CASH
kinds, which no issuer reserves, are left out.

### Replay

One IN_DOUBT placement is resent, byte for byte and under its own key. The key is honoured for
`KeyTTL` after the broker first saw it; the guard stops `Margin` earlier, measured from the
dispatch. `MarkReplayStarted` counts before the send, `InProgress` gives the count back on a 409.
Original and replays may be late or lost, answers may be lost, the process may crash, and another
resolver may settle the attempt meanwhile. Assumed: what lies between the guards and the broker
takes at most `MaxDelay`, and `MaxDelay <= Margin`; the code's margin has to be chosen for it.

### OperatingMode

A transition commits a row and then projects it on the gate without a lock between the two.
`Escalate`, `OperatorMoves`, `Project`, and start-up's `Bind`, `RestoreRead` and
`RestoreProject` are the steps; `modeSeq` is the fence that drops an older projection.

### RiskBuckets

One shared bucket, several entries. A decision reserves the same amount in each of its five
dimensions, so it has one row. `CollectUsage` reads the bucket before the wave, `Admit` is
`RecordQFinalDecisionAndReserve` with `UsageHonest` (`refuseStaleBucketUsage`), `Submit` the
re-validation before the order is sent, `Register` the confirmed order with the fill recorded
before it, `RecordBucketFill` the sidecar of `RecordFill` in its order (apply, release what a
terminal order did not use, bind the owner), `CompleteActual` the arrival of a fill's real cost.
An owner is one generation of a symbol; a fill of a released one (`LateFill`) brings its usage back
and latches its successor. The state digest is reduced to "the last seal still matches": a write
without a seal (`ReturnHold`, `LatchFailure`) breaks it, and every later transaction of the owner
then latches instead of moving money. Reliefs name the seal, or the lock and its last event, that
the approver read.

Left out: replacements of an order, ambiguous ownership of a fill (`Fills` has it), the overage
amounts and the aggregate hold (`Reservations`). `CompleteActual`, `ReleaseOwner`,
`ActivateEntryLossLock` and `CommitRiskBucketAdmission` have no production caller at this commit.

### Alerts

One row per event key, sent under a lease. `Notify` (a worker per calling goroutine) and the
delivery executor use it without a common lock. The clock is two events: a lease lapses, and a
settled row's reminder window elapses. A claim token is the worker that minted it. `faults` bounds
stalls, restarts and unrecorded sends; `sent`, `excuse` and `owed` are history. The ordinary
grade, the relay buffer and `Flush`, which nothing calls, are left out.

### Fills, with BrokerState and PositionTable

`BrokerState` is the derivation table, `PositionTable` the position's transition table. The
detector's cycle is `Cycle`: list the open orders, read by id what the journal still tracks and
the list did not show, commit the snapshots one by one, each with its delta, its refusals, the
release of its hold and the projection. What is left to commit is the set `batch`: the snapshots of
the list go first, in the order the broker gave, which may be any; then the reads by id, in order of
id (`InTurn`). The order may be seen before the attempt that placed it is confirmed. Of the times the code writes, the model keeps whether the row is later than the
ownership instant (`after`) and by how many seconds the order's latest instant leads the clock
(`lead`). Prices, corrections of prices, colliding order ids and incomplete scopes are left out.

`Refused` has the three rules of `classifyFillRefusal`: the caller's own verdict, a cumulative
quantity below the one recorded, and another quantity at a broker time older than the row's. Any order may be closed without an explanation. Over a row of before the
ownership the refusal of such a read is a plain INSERT that collides
(`internal/journal/fills.go:807`), `RecordFill` returns the error and
`internal/filldetect/detect.go:316` ends the cycle; the next one meets the same order again.
`InsertCollides` and `PollApplyError` are those lines, `Stuck` names the order. Everything read
before it in a cycle is recorded all the same and what is read after it is not, which is what
`SettledIsRecorded` says.

### Flatten

The saga's rows (`phase`, `cancel`, `liq`) survive a crash, its process (`pc` and the rest of
`memory`) does not. `CancelAll`, `Cancelling` and `Liquidating` are the commands with their
steps in order; an answer and the row that records it are two steps. The gateway is one unsettled
attempt per symbol whose doubt only observation removes. The sellable figure the broker reports is
truthful; orders are of one share; prices are left out.

The saga passes over what it cannot write and goes on: an outcome whose row is not updated
(`UpdateStep`, `UpdateRow`), a step that cannot be added or read, whose sale is sent without a row
(`SellUnrecorded`), a decision that cannot be recorded and whose row cannot either. A symbol whose
sellable quantity or price is not read is held while the others are sold (`PlanLiquidation`). An
engine runs beside the saga, buys and sells, and sizes its sells from what is sellable. One that it
places after the saga planned the symbol and before the saga sells it makes the planned quantity
stale, and only the broker's own check, which is not modelled, stands between that and an oversell:
the history variable `raced` counts those sells, and `NoOversell` allows them and nothing else.

### StrategyDispatch

Owner epochs fence older processes; a lease is issued, claimed and submitted under one. One
process at a time holds the engine lock; a crash leaves the journal and what is on the wire.
`Busy` is what keeps a new owner waiting; leases meet only there, so one is checked. `Transport`
is the client's timeout counted from the last fence to the end of the call. The lease expires with
its decision; market authority, campaign and admission are one condition; the resolver is
truthful. `RecoverClaimedStrategyDispatchLease` has no production caller at this commit.

The settlement of a confirmed order links it to its campaign and to the fills already read, and is
refused as a whole when it cannot (`LinkRefused`): when the campaign may take no new exposure
(`internal/journal/strategy_dispatch_runtime.go:1181`; `BlockCampaign` moves that between any two
steps, both ways) or when the order's own fill row is fail-closed (line 1313;
`RecordFillSnapshot`). The transaction rolls back, the dispatch returns, and nothing retries: the
recovery of a SUBMITTING lease is not called at this commit (line 178). `SettlementRefused` is that
step, `Stranded` the state it leaves: a SUBMITTING lease of an order at the broker, whose money
stays held. A third refusal, of a released risk owner (line 1110), cannot happen while the holds
are HELD, because an owner is released only without one
(`internal/journal/risk_bucket_owner.go:917`), and settlement has just proved them. Fill rows other
than a fail-closed one are not in this module; a terminal one releases the aggregate hold in the
same transaction.

### Exit

A pass reads the row and the position, reads a price, evaluates, clears the symbol when it must
(one cancel per step), records the judgement and arms a proposal in one transaction, and submits.
Fills, the resolver, the operator's thaw and the broker move between any two of these steps, and
the process may die between any two. Prices are small integers. R multiples and percentages,
quarantine and re-judgement, outage and delay alerts, the reconciliation of the floor, a partly
confirmed floor and adoption are left out. Where a recorded line and a recomputed one cross, the code
quarantines the position (`internal/exitpolicy/recovery.go:162`) and the model takes the recomputed
line. `clearTheSymbol` reads the live orders and the unsettled attempts in one step where the code
makes two reads (`internal/app/engine/exitloop.go:1650`, `:1655`): a buy that is in doubt at the first
and confirmed before the second is missed by both, which the model cannot show because its one entry
is confirmed from the start. `recordExitJudgementTx` leaves out the refusal of a decision that was
recorded before (`internal/journal/exit_state.go:492`); the model then records a judgement where the
code may not.

### PositionCampaign

A command is one transaction on `book`, which holds the campaigns, legs, order links and claims of
one symbol, and beside them the state that `positioncampaign.Replay` would fold from the events so
far (`book.replay`). A fill reaches it inside the transaction that records and projects it. Stale
versions and repeated command keys change nothing and are left out; orders are core-CONFIRMED when
they are linked; `sound` stands for authoritative and unambiguous lineage. The branch for several
matching links is unreachable by the unique index, and the state EXITING is never written.
Creation, planning, plain links, stops and cancellation have no caller outside the package at this
commit; the strategy's first leg, the dispatch link, fills and the protection reconcile have.

## 3. Runs

| Run | Instance | Checks |
|---|---|---|
| `engine` | one engine, two goroutines, an entry and an amend on one symbol, three rows, clock to 3 | `ClosedMeansNoOrder`, `HeldWhileExposed`, `OneInFlightPerSymbol`, `NoEntryOverParked`, `ReadyMeansRecovered`, and that `Gateway` implements `OrderOnce` (`ImplementsOnce`) |
| `shared` | an engine and a flatten-all holding the same cancel, which outlives the retention of its nonce | `IInv` (the inductive invariant), `AuthorisedOnce`, `NoResend`, `NonceEvidence`, `ConfirmedIsReal` |
| `live` | one engine, one goroutine, two decisions, two rows | `HoldsReturn`, `DoubtSettles` |
| `resolver` | all three mutations, restarts at any point | `AbsenceIsSound`, `PresenceIsReal`, `ResolutionEnds` |
| `tracker` | one symbol and the account, every kind of comparison, promotion after three | `EntryHonoursBlocks`, `ReleaseEarned`, `PromotionEarned`, `CreditedBlockLifts` |
| `alerts` | one sender and the executor; one alert with a restart, two episodes with an operator's release, one with a stalled sender and an unrecorded send, two alerts with a failing transport | `AlertInv` (`LimitLatched`, `BlockedUntilHuman`, `SentOnce`), `ClearMeansSeen`, `PendingAnswered` |
| `journal` | one of four protocols at a time: mode (two loops, an operator, a restart), ledger (two issuers and two decisions under four tight accounts, two days), replay (two callers, a crash, a late original), risk buckets (six books) | `ModeInv` (`GateFollowsJournal`, `OneEscalationPerRelease`), `LedgerInv` (`DailyBuyBounded`, `PositionsBounded`), `ReplayInv` (`OneOrder`, `CapSurvivesCrash`, `FailedMeansNoOrder`), `RiskInv` (`CapOrLatched`, `WorkingCovered`, `FillCountedOrLatched`, `OneGeneration`, `ReliefIsCurrent`), `ImplementsHeadroom` |
| `fills` | a buy and its amendment with a fault; a buy and its sale with a fault; a buy and its sale in two parts; any order may close without an explanation | `FillInv` (`EveryFillProjectedOnce`, `ExactOrBlocked`, `HeldUntilSettled`), `SettledIsRecorded` |
| `flatten` | two symbols, three accounts (orders of both sides and a hesitating operator; a resting sell and an engine that buys beside the saga; an engine that sells beside it), two rounds, two faults | `FlattenInv` (`NoOversell`, `DoneMeansGone`), `SellsOverAnswered`, `Flattens` |
| `strategy` | one lease, two restarts, one failed transaction | `LeaseInv` (`HoldsWhileExposed`, `OneEpochOnTheWire`, `LeaseTellsTruth`), `OwnerReturns`, `LeaseEnds` |
| `exit` | a ladder or a ratchet, an entry that is over or still working, two proposals, one crash and one lost write | `ExitInv` (`NoOversell`, `ArmedWhileLive`, `ProposalCanEnd`, `PartialOnce`), `ExitSteps` (`EntryClearedFirst`, `ProtectionMonotone`) |
| `campaign` | one campaign of two legs; one with replacements of other sizes; two campaigns one after the other | `CampaignInv` (`SurplusQuarantined`, `SuccessorBounded`, `SharedGenerationFlagged`, `ReplayAgrees`), `CampaignMonotone` |

**Several instances in one run.** Some modules carry a variable that `Init` chooses and no step
changes (`setup`, `bound`, `scope`, `config`, `part`): the run is then the union of several small
instances, each tight in one respect, without the product of their sizes.

**Bounds.** `MaxTime` stops the clock; in `engine` it lets the short decision expire, its nonce
be pruned and the longer one still be live. Three rows let an entry fail to dispatch, be
recorded again after a restart (an AMEND carries no idempotency key), and compete with another
mutation. Two goroutines are enough for a claim to be contended; two processes for a list or a
check to be stale. In `shared` the retention is shorter than the decision's life, so only the
widening to the longest TTL keeps the evidence. In `resolver` the window is exactly the sum the
assumption asks for, and the budget leaves room for failing observations. Three comparisons per
promotion let a streak be interrupted and resumed; that several symbols' writes in one
observation may stop half-way is covered by the proofs, which hold for any set of symbols. In
`alerts` the limit of two lets one failure pass and the next be judged. In `journal`, four mode
rows are an escalation, a release and both again; each account leaves room for exactly one of two
decisions in one limit; the guard stops exactly the longest
delay before the key may lapse; a book's limit
holds one reservation of two shares (3) or two of them, and a fill that costs 3 a share overruns
it. In `fills` two shares allow a partial fill, and a lead of one second the case in which the
next row has to be pushed past the clock. In `strategy` a tick is five seconds:
the client's timeout is three and the grace four, as in the code. In `exit` two proposals let a stop meet a working take-profit. In `campaign`
a fill of three overfills a leg of two. Workers, rows and orders are interchangeable where
`SYMMETRY` is used; runs with a liveness property use none.

**Deadlock** is checked in the runs of the order path, the tracker and the saga. It is not where
the modelled work really ends: a settled resolution, an answered alert, a filled order, a
finished lease, a closed position or campaign, an exhausted bound of the journal's protocols.

**Fairness.** `Gateway`: only the clock runs. Nothing obliges a goroutine, the broker or a
stopped engine to go on; `HoldsReturn` and `DoubtSettles` say what they need as a hypothesis:
the engine is stopped and becomes ready again and again. `Resolver`: the clock runs, the loop on
its one goroutine goes on unless it is stopped, and the broker does not keep a request for ever.
`ReconcileTracker`: the driver's ticker keeps it comparing and a begun cycle ends (weak
fairness); strong fairness is given to an agreeing comparison, a refresh that succeeds in it and
an observation whose writes all commit, because a block can only lift if the account agrees and
the journal answers from time to time. `Alerts`: every begun send, the executor's ticker and a
begun acknowledgement go on, and a lease lapses by the clock. `Fills`: cycles keep being run to
their end and do not fail for ever, and an amendment the broker made is confirmed (by the
resolver). `Flatten`: an operator who does not hesitate runs the command again, a running command
goes on, and the market fills its sells. `StrategyDispatch`: recovery, the clock, the acquisition
loop, a running dispatch and the broker go on. `LeaseEnds` is claimed for runs without a fault
only, because a crash may leave a CLAIMED lease that nothing picks up at this commit, and leaves out
the stranded lease of section 2.

## 4. Where the code and its words part

The models were written from the code; on the way these disagreements and consequences came up.
None is part of a run: the properties above say what does hold.

* *Two processes.* An engine that starts beside a running flatten-all lists a RECORDED row, which
  is dispatched before the engine closes it; `Settle` accepts the moved row, so an order at the
  broker ends as NOT_DISPATCHED, against "RECORDED only: nothing was ever sent"
  (`internal/journal/recovery.go:76`). And both processes pass `checkSymbolFree` and record an
  attempt on the symbol, against "One in-flight mutation per symbol"
  (`internal/execgw/gateway.go:514`). `ClosedMeansNoOrder` and `OneInFlightPerSymbol` are
  therefore claimed for one process.
* *Resolver.* Absent scans may span less than `MinObservation`, which
  `internal/execgw/indoubt.go:141` calls "the minimum wall time those scans must span": the code
  measures from the start of the procedure, failed scans included. `AbsenceIsSound` holds all the
  same as long as the window covers transit and lag from the dispatch.
* *Tracker.* An external holding disputes a symbol while the journal cannot be read; the early
  return skips the refutation, and a later clean comparison releases on the old credit, against
  `internal/reconcile/mismatch.go:794`. When the dispute blocks entry the credit does die
  (`ReleaseEarned`). The latch that replaces recovery's own, when recovery's comparison blocks, has
  no block behind it; the first entry check refreshes the tracker and clears it, against
  `internal/reconcile/recovery.go:232`. `Resolve` clears the rows and then the memory; a dispute
  observed between the two is forgotten until the next comparison. No production code calls it.
* *Reservations.* The first-leg collector reads the version after the snapshot
  (`internal/app/engine/strategy_account_first_leg_authority.go:392`), so the fence does not cover
  its collection; `CollectLate` is that issuer, for the issuers an account names in `late`.
* *Fills.* What is recorded of a child order before the amendment is confirmed becomes its
  baseline (`internal/journal/lineage.go:130`); a second refusal of the same observation collides with the first in
  its insert (`internal/journal/fills.go:807`), and an order closed without an explanation over a row
  of before its ownership ends every cycle there: the orders read after it are not recorded any more.
* *Flatten.* A phase may be FAILED or COMPLETE while a later run still finds something; the gate
  the saga closes is its own process's; the quantity of a sell is the one planned before the
  orders of the symbols ahead of it were sent.
* *Strategy dispatch.* An attempt closed while its lease is CLAIMED leaves the lease to
  `RecoverClaimedStrategyDispatchLease`, which nothing calls. A settlement that is refused, because
  the campaign was barred or the order's fill row failed closed meanwhile, leaves the lease
  SUBMITTING for good (`Stranded`).
* *Exit.* A released proposal rolls its rung back whatever it was for
  (`internal/journal/apply_hook.go:895`): a stop that is refused at a rung which has already sold
  makes that rung sell again. The position's quantity still bounds it (`NoOversell`).
* *Campaigns.* A claim of a campaign that never fills is deleted only by a cancellation or a
  zero-fill close. A replacement linked to a zero-fill CANCELLED leg is PARTIAL for the writer and
  SUBMITTED for `Replay`; an ORDER_LINK_REFUSED event of a RECONCILE or CLOSED campaign, and the
  close of a RECONCILE campaign by a zero-fill cancel, are transitions `Replay` rejects. A CLOSED
  campaign reopened as RECONCILE has no claim and blocks the next one through the unique index.
  A fill recorded before a plain link is never applied; the dispatch link backfills it. The states
  for which `campaignExposureBlockedInTx` looks include DISPATCHED, which no attempt has.
  `ReplayAgrees` is claimed for the campaigns that still take entries.
* *Risk buckets.* After any fill the owner's buckets are latched UNKNOWN until the fill's real cost
  arrives, and nothing in production delivers it: a shared bucket admits nothing after its first
  fill. A hold returned without a seal leaves its owner unsealed for good. An overage is judged
  against the owner's own limits and an admission against the smallest recorded one, so
  `CapOrLatched` speaks of the largest. The sweep of expired decisions releases the aggregate hold
  and not the bucket rows.

## 5. Proofs

`GatewayProofs` proves, for any finite or infinite set of processes, goroutines, decisions,
attempts and symbols and any clock, retention and retry budget:

* `Invariant`: `Spec => []IInv`;
* `TypeCorrect`: `Spec => []TypeOK`;
* `AuthorisationIsSpentOnce`: `Spec => []AuthorisedOnce`;
* `ResendIsBounded`: `Spec => []NoResend`;
* `PruningKeepsEvidence`: `Spec => []NonceEvidence`;
* `ConfirmationIsReal`: `Spec => []ConfirmedIsReal`.

The assumptions are the constants' types (`ProcAssumption`, `DecisionAssumption`,
`TimeAssumption`).

*The argument.* `AuthorisedOnce` is not inductive: nothing in it says why a second attempt
cannot be sent. A second attempt of a decision can only start when the nonce is gone
(`MarkDispatchStarted` tests and spends in one step), the nonce only goes by pruning, and
pruning waits longer than the longest life of any decision; a nonce is consumed no earlier than
its decision was issued (`NonceOK`), so a pruned one belongs to an expired decision
(`NonceEvidence`), and two started attempts imply expiry (`StartedTwice`). The re-check in the
dispatch closure then stops the second before it is sent, while the first that passed it may
still be on its way: hence `ClearedOnce` speaks of attempts that were sent *or* whose worker has
passed the re-check. `HandleOK`, `HandleUnique`, `RowOK` and `DispatchOK` tie workers to the rows
they recorded, and `SendBudget` bounds what a worker may still send. Most actions leave what
these conjuncts speak of alone; `QuietStep` proves them all at once, and the actions that do not
(`Prepare`, `MarkDispatchStarted`, `RecheckDecision`, `Send`, `PruneSpentNonces`, the issue and
the clock, the early steps of a worker) have a lemma each.

With `Solo`, that no two processes open the journal, which is what the engine lock is for, it
proves the promises that do not survive a second process:

* `ClosedRowsHaveNoOrder`, `ExposureIsHeld`, `OneInFlight`: `[]ClosedMeansNoOrder`,
  `[]HeldWhileExposed`, `[]OneInFlightPerSymbol`;
* `ParkedSymbolsTakeNoEntry`, `ReadyEnginesRecovered`: `[]NoEntryOverParked`,
  `[]ReadyMeansRecovered`;
* `OrdersAreOnce`: `Spec => ImplementsOnce`, the refinement of `OrderOnce`.

Their invariant is `SoloInv`. A goroutine decides on a row it wrote some steps ago, so
`RowFollowsWorker` says at each of its steps what the row still is; nobody else may have moved it,
because start-up and goroutines of one process do not overlap (`OneRuns`) and goroutines hold
different symbols (`ClaimsApart`). A hold taken for a decision stays until its attempt is over
(`HoldsBound`, `ChecksHold`, `HeldToTheEnd`). Start-up works from a list it read once, and
`ListIsCurrent` says that the list still tells the truth about whatever it decides on.

`ReconcileProofs` proves of the resolver, from `ConfigAssumption` and `BrokerAssumption` and for
every configuration they allow:

* `ResolverInvariant`: `ResolverSpec => []ResolverIInv`;
* `AbsenceIsProved`: `ResolverSpec => []AbsenceIsSound`;
* `PresenceIsProved`: `ResolverSpec => []PresenceIsReal`.

A verdict is given some steps after the reads it rests on, so the invariant carries what was
read: `BrokerOK` ties the request to the orders it is about, `LoopOK` says that an observation
is at most `ScanTime` old, and `EvidenceOK` that what was read is still true where a verdict
needs it. `LateEnough` is the heart: once `MinObservation` has passed since the procedure began,
the current observation began after `Transit + Lag`, so no request travels and every order is
listed. It uses the start of the procedure, as the code does, and not the first absent scan.

and of the tracker, from `TrackerAssumption`, for every set of symbols, every set of kinds
of dispute and every promotion threshold:

* `TrackerInvariant`: `Spec => []IInv`;
* `EntriesHonourBlocks`: `Spec => []EntryHonoursBlocks`;
* `ReleasesAreEarned`: `Spec => ReleaseEarned`;
* `PromotionsAreEarned`: `Spec => PromotionEarned`.

`EntryHonoursBlocks` needs `OwedOK`: what is owed is a row, or a symbol whose write is still to be
repeated. Across an observation that needs `ProjectionOK`: after the cycle's refresh a block
without a pending write has a row, so a dispute that finds its block in memory need not be
written again. `PromotionEarned` needs `ProposalOK`, which ties a pending account-wide block to
the dispute that earned it until the dispute is interrupted, and `StreaksOK`. `Written` collects
what any prefix of an observation's writes, the last one perhaps committed unseen, can do;
`ObserveFacts` shows that both kinds of observation prepare their writes as it assumes.

`AlertProofs` proves, from `AlertsAssumption`, for any number of rows, senders and episodes:

* `AlertsAreSafe`: `Spec => []AlertInv`;
* `ClearSeesAll`: `Spec => ClearMeansSeen`.

None of `LimitLatched`, `SentOnce` and `BlockedUntilHuman` is inductive. A row reaches the limit
some steps before the gate hears of it, so `LimitJudged` names who still owes the judgement
(`WillJudge`): the sender that holds the lease, or a worker that carries the verdict with the clear
epoch it read, which is the present one because no release can pass while the row is pending.
`SentOnce` becomes `PublishesCounted`, which counts the publishes made together with those that
may still be made: all but one of them are excused, and all of them while the next claimant could
take the row. `LeaseLive` says that without a stall the lease of a row under way has not lapsed,
`DurableOK` that what is owed durably is in the mode. The proof goes worker by worker: a step
touches the row it serves (`ServedRow`, `TakenRow`, `ArmedRow`) and leaves the others (`OtherRow`).

`JournalProofs` proves four protocols over the journal.

* `ReplayIsSafe`: `ReplaySpec => []ReplayInv`, from `ReplayAssumption`, for any callers, caps and
  times with `MaxDelay <= Margin`. `CheckStillGood` and `WireInTime` carry the margin from the guard
  to the broker: a request that passed the check arrives before the first key can expire, so the
  broker answers it from the order it has. `CountedFirst` keeps the durable count ahead of the
  sends over a crash.
* `ModeIsFollowed`: `ModeSpec => []ModeInv`, for any loops and rows. A commit and its projection are
  two steps, so `LatestIsDue` says that the newest row is on the gate or somebody still carries it,
  and `LatchIsFence` that the gate shows the row the fence names; a projection that comes late finds
  the fence past it.
* `LedgerIsBounded` and `LedgerKeepsHeadroom`: `LedgerSpec => []LedgerInv` and
  `LedgerSpec => ImplementsHeadroom`, from `LedgerAssumption`. The ceilings are judged against a
  snapshot taken before the transaction. `SnapshotSound` says why that is enough: a version that is
  still current was read after the last change, so the snapshot saw every position that no hold
  stands for. `VersionFences` is the arithmetic of the fence. `PositionsBounded` is inductive only
  because the slots an issue counts (positions, holds, RECONCILE rows) cover every venue with an
  order out or a fill: each step that takes a venue out of one of the three puts it into another,
  `RecordFill` of a refused fill among them.
* `BucketsAreHonest`: `RiskSpec => []RiskInv`, from `RiskAssumption`, for every book, quantity and
  cost. `CapOrLatched` compares a usage with the largest recorded limit and is not inductive: a row
  that leaves the recorded ones may take the limit with it. `Capped` names the limit that holds the
  usage: every recorded one, after an admission, or that of a row whose fills keep it recorded, after
  an overage was judged, or the usage the operator saw. The transactions of a recorded fill are
  composed of five that each may latch instead; `Sidecar` is what any of them may make of the tables
  (one row, no latch taken back, usage grows only under a latch), shown of each and closed under
  composition. Their amounts rest on `AllocatedFacts`: an allocation rounded up grows with the fills,
  is worth something from the first share on and is the whole reservation with the last.
  `ApprovalOK` and `LockOK` say that an approval which still fits the seal, or the lock and its last
  event, was given for the latch as it is.

`FlattenProofs` proves, from `ConstantsAssumption`, for every account and any rounds and faults:

* `SalesFollowAnswers`: `Spec => SellsOverAnswered`;
* `NeverOversells`: `Spec => []FlattenInv`.

`CancelsAnswered` ties a cancel's row to what happened to its order, and says that no target has
an unanswered cancel. `Covered` counts what is out and what is still planned against what is held
and what raced a plan: an engine's sell is sized from what is sellable while nothing of the symbol
is unsettled, so it takes from the cover of a plan no more than it adds to `raced`, and without a
plan it is covered itself. The proof asks nothing of what runs beside the saga.

`StrategyProofs` proves `LeasesAreSafe`: `Spec => []LeaseInv`, from `ConstantsAssumption`, of which
`Transport <= Grace` is the part that matters: a call that passed the last fence has ended before a lease's grace has, so `CallsInTime` holds and no newer owner exists while a request of an
older one is on its way.

It proves of the campaigns, from `CampaignAssumption`, for any campaigns, legs, orders, quantities,
stops and scopes:

* `CampaignsAreSafe`: `CampaignSpec => []CampaignInv`;
* `CampaignsRemember`: `CampaignSpec => CampaignMonotone`.

The invariant `CampaignIInv` has three parts. `RowInv` is about the rows alone: legs are planned in
order and a leg has filled what its orders have (`LegsFollow`); an order belongs to a planned leg of a
campaign that was under way (`OrdersJoin`); whatever went over a cap or came without its link has set
its campaign aside (`SurplusAside`); one campaign is active, and an inactive one that owns a position
has set the account aside (`OneOwner`); an open successor asks for no more than its leg lacks
(`SuccessorsFit`); a campaign in a stopped state is blocked (`StoppedIsBlocked`). `EventsFollow` is
about the events: they rebuild a campaign that takes entries, legs included, which `ReplayAgrees` does
not say of the legs and which the next event's checks need. `SeenFirst` is about the ledger of fills:
the campaign knows no more of an order than `RecordFill` has recorded. A command is a composition of
operators on the book: the proof has a lemma per command (`CreatedKeeps` to `ConfirmedKeeps`), which
treats the rows first and then, through `BookFollows` and `ReplayedAgrees`, the events.

`ReconcileProofs` proves of the fills, from `OrdersAreNumbers` and `BoundsArePositive`, for any finite
set of orders and any sides, quantities and faults:

* `FillsAreSafe`: `FillsSpec => []FillInv`.

A snapshot is committed some steps after it was read, so `FillsIInv` adds to the three named
properties what is true in between: `BatchOK` says that the broker has filled at least what a snapshot
under way says and has settled what it calls terminal, `BrokerSound` that a full order says so and that
a child's parent is replaced, `OwnedOK` that nothing of an order is projected before the order is owned
and read again. `Baseline` is the step that makes deltas exact: the baseline of an owned order is what
was projected of it (of an amended child, whose row may be older than its ownership, at least that),
whichever fault lies between. The position's arithmetic is that of a sum with one
changed term (`SumChanges`); `DerivedState` and `Applied` say of the two tables what the rest uses.

`ExitProofs` proves, from `ConstantsAssumption`, for every ladder, ratchet, price and opening and any
number of proposals:

* `ExitIsSafe`: `Spec => []ExitInv`;
* `ProtectionHolds`: `Spec => ExitSteps`.

The invariant `IInv` has a part for each place the truth is kept. `Numbered`, `Ended` and `Followed`
are about the proposals: only the last one armed can be out, nothing can come of an earlier one, and
the journal is behind the broker and never ahead. `Counted` says that the broker's shares are the
position's but for the fills not recorded yet, and that the armed proposal asks for no more than
was there when it was armed. `Judging`, `Judged`, `Cleared`, `Released`, `Submitting` and `Carried`
say at each step of a pass what of its copies is still true; `NotTaken` and `PartialOnce` are about
the part that is taken once. A sum over proposals has one term that is not zero (`SumOfOne`), and
`LineOf` says once what both evaluators return: protection no lower, quantity no larger, and a
pending proposal replaced only after its cancel. `SumTheorems` proves what is needed of sums from
the folds of the community modules, by taking the smallest set a claim fails for.

The larger invariants (`SoloInv`, `RiskIInv`, `AlertIInv`, `CampaignIInv`, `FillsIInv` and the others
of `ReconcileProofs` and `ExitProofs`) were checked with TLC on the instances of the runs before they
were proved.

## 6. Only model-checked

Liveness (`HoldsReturn`, `DoubtSettles`, `ResolutionEnds`, `CreditedBlockLifts`,
`PendingAnswered`, `SettledIsRecorded`, `Flattens`, `OwnerReturns`, `LeaseEnds`), which rests on
fairness, is out of the prover's reach, as are ENABLED and RECURSIVE operators. Every safety
invariant and every action property that a run checks is stated by a theorem, under the assumptions
named with it in section 5.

## 7. Not modelled, and why

* Protection (`internal/protection`, `protectionlifecycle`, `protectionreadiness`): nothing outside
  the tests constructs the controller or its repository at this commit.
* Strategy lanes, indicators, candidate selection, optimisation and the per-order risk chain: large
  pure computations over one snapshot, without steps to interleave.
* Scheduler, clock and engine lock: trigger times over the operating system's clock, and a file
  lock whose effect is a hypothesis of the single-engine runs.
* Broker clients and encodings, console, HTTP API, text and QR output, soak, performance and live
  verification tools, deployment guard, release updates, flags and wiring: they hold little state
  of their own or are plain I/O. They are most of the repository's lines, which is why the mapped
  share of the whole is small while most of the journal, gateway and engine control is mapped.

Wiring facts the models use: an engine holds the engine lock and flatten-all does not
(`cmd/tossctl/flatten.go`), and recovery and the tracker share one entry gate
(`internal/app/engine/runtime_wiring.go:186`).

## 8. Plan

Done, in this order: `AttemptLifecycle`, `Gateway` with `OrderOnce`, `Resolver`,
`ReconcileTracker` and the proofs of the three; then `Alerts`, `Reservations` over `Headroom`,
`Replay`, `OperatingMode`, `BrokerState`, `PositionTable`, `Fills`, `Flatten`,
`StrategyDispatch`, `Exit`, `PositionCampaign` and `RiskBuckets`; then the proofs about one
process, the mode, the replay, the ledger, the buckets, the flatten saga, the leases, the exit, the
alerts, the campaigns and the fills.

Worth modelling next: the coordinator that selects among the strategies' proposals, replacements
of bucket orders, and the protection controller once a command constructs it.
