---------------------------- MODULE RiskBuckets ----------------------------
(***************************************************************************)
(* The monetary risk buckets: journal/risk_bucket*.go and riskbucket/.     *)
(*                                                                         *)
(* A strategy entry is admitted against buckets it shares with entries of  *)
(* other symbols.  The snapshot of a bucket's usage is collected before    *)
(* the wave; the admission, the fills, the terminal releases, the bindings *)
(* of owners, late fills and the operator's reliefs come afterwards, each  *)
(* in a transaction of its own.  Evidence that does not fit latches what   *)
(* it concerns and never rejects the fill.                                 *)
(*                                                                         *)
(* A decision reserves the same amount in each of its five buckets, so it  *)
(* has one row here, and the bucket is the one that all owners share.  An  *)
(* owner is one generation of a symbol.  The state digest is reduced to    *)
(* whether the last seal still matches.  Every fill is one the journal     *)
(* owns (module Fills has the others).                                     *)
(***************************************************************************)
EXTENDS Integers, FiniteSets, FiniteSetsExt, Functions

CONSTANTS
  Books,           \* the books to look at, each a record of
                   \*   owner: the generation each decision enters for
                   \*   symbol: the symbol of each generation
                   \*   limit: the bucket's limit in each decision's snapshot
                   \*   strays: decisions whose fill finds no open campaign
                   \*   locks: bound on the activations of the loss lock
  Quantity,        \* q_candidate
  Costs            \* what a fill's evidence may say a share has cost

ASSUME RiskAssumption ==
  /\ Quantity \in Nat \ {0} /\ Costs \subseteq Nat
  /\ \A b \in Books : /\ IsFiniteSet(DOMAIN b.owner) /\ IsFiniteSet(DOMAIN b.symbol)
                      /\ b.owner \in [DOMAIN b.owner -> DOMAIN b.symbol]
                      /\ b.limit \in [DOMAIN b.owner -> Nat]
                      /\ b.strays \subseteq DOMAIN b.owner /\ b.locks \in Nat

VARIABLES
  config,    \* the book's configuration, fixed
  book,      \* the journal's tables: row, order, own, scope latches, RECONCILE
  snap,      \* each decision's collected usage; -1: not collected
  sent,      \* how far the decision's order has come
  seen,      \* what RecordFill has recorded of the order
  flat,      \* generations whose position and campaign are closed
  lock,      \* the entry loss lock: its number, its last event, whether it is
             \* open, and the number and event an approval names
  forgiven,  \* history: the usage at the operator's last overage relief
  lifted     \* history: a relief lifted what came after its approval

riskVars == <<config, book, snap, sent, seen, flat, lock, forgiven, lifted>>

Entries == DOMAIN config.owner
Owners == DOMAIN config.symbol
OwnerOf(d) == config.owner[d]
SymbolOf(o) == config.symbol[o]
EntriesOf(o) == {d \in Entries : OwnerOf(d) = o}

NoReservation == [state |-> "none", quantity |-> 0, reserved |-> 0, held |-> 0, filled |-> 0]
NoOrder == [state |-> "none", cum |-> 0, fills |-> {}]
NoOwner == [state |-> "none", bound |-> FALSE, over |-> FALSE, unknown |-> FALSE,
            sealed |-> FALSE, approval |-> "none", tightened |-> FALSE]

RiskInit ==
  /\ config \in Books
  /\ book = [row |-> [d \in Entries |-> NoReservation],
             order |-> [d \in Entries |-> NoOrder],
             own |-> [o \in Owners |-> NoOwner], scope |-> {}, reconcile |-> {}]
  /\ snap = [d \in Entries |-> -1]
  /\ sent = [d \in Entries |-> "no"]
  /\ seen = [d \in Entries |-> [cum |-> 0, terminal |-> FALSE]]
  /\ flat = {}
  /\ lock = [open |-> FALSE, seq |-> 0, event |-> 0, approved |-> <<0, 0>>,
             tightened |-> FALSE]
  /\ forgiven = 0 /\ lifted = FALSE

-----------------------------------------------------------------------------
(* Amounts. *)

CeilDiv(a, b) == (a + b - 1) \div b

\* ReservationMinor: one and a half for a share, rounded up.
ReservationMinor(q) == CeilDiv(3 * q, 2)

\* MaximumQuantity: the largest quantity whose reservation fits.
MaximumQuantity(available) ==
  Max({q \in 0..Quantity : ReservationMinor(q) <= available})

\* proportionalAllocation.
Allocated(r, cum) == IF cum = 0 THEN 0 ELSE CeilDiv(r.reserved * cum, r.quantity)

\* Departed rows: the owner is released and no late fill has brought it back.
Departed(b, o) == b.own[o].state = "released" /\ o \notin b.scope

\* ReadJournalBucketUsage over a set of decisions.
UsageOf(b, ds) ==
  SumFunctionOnSet([d \in Entries |-> b.row[d].held + b.row[d].filled],
                   {d \in ds : b.row[d].state # "none" /\ ~Departed(b, OwnerOf(d))})

Usage(b) == UsageOf(b, Entries)

\* latchedUsageRefusal: latches of departed rows count too.
BucketLatched(b) ==
  \E d \in Entries : /\ b.row[d].state # "none"
                     /\ b.own[OwnerOf(d)].over \/ b.own[OwnerOf(d)].unknown

\* smallestRecordedBucketLimit's rows: departed ones included.
Recorded(b) ==
  {d \in Entries : b.row[d].state \in {"HELD", "FILLED"} \/ b.row[d].filled # 0}

ActiveOn(b, s) == {o \in Owners : b.own[o].state = "active" /\ SymbolOf(o) = s}

\* ensureRiskBucketEntryScopeClean.
ScopeClean(b, s) ==
  /\ \A o \in ActiveOn(b, s) : ~b.own[o].over /\ ~b.own[o].unknown
  /\ \A o \in b.scope : SymbolOf(o) # s
  /\ s \notin b.reconcile

-----------------------------------------------------------------------------
(* What the transactions do to the tables. *)

\* recordRiskBucketStateTx: a new seal, which no earlier approval has seen.
Sealed(b, o) ==
  [b EXCEPT !.own[o].sealed = TRUE,
            !.own[o].approval = IF @ = "current" THEN "resealed" ELSE @]

\* latchRiskBucketFillFailure: the owner's new entries stop; no new seal.
LatchFailure(b, o) ==
  [b EXCEPT !.scope = @ \cup {o}, !.own[o].unknown = TRUE,
            !.own[o].sealed = FALSE, !.own[o].tightened = TRUE]

\* Mutant: the overage is judged on the owner's own usage.
RecomputeOverageAlone(b, o) ==
  LET limit == Min({config.limit[d] : d \in {e \in EntriesOf(o) : b.row[e].state # "none"}})
  IN  IF b.own[o].over \/ UsageOf(b, EntriesOf(o)) > limit
      THEN [b EXCEPT !.own[o].over = TRUE] ELSE b

\* recomputeOverageLatches: all the bucket's usage against the smallest limit
\* among the owner's rows.
RecomputeOverage(b, o) ==
  LET limit == Min({config.limit[d] : d \in {e \in EntriesOf(o) : b.row[e].state # "none"}})
  IN  IF b.own[o].over \/ Usage(b) > limit
      THEN [b EXCEPT !.own[o].over = TRUE] ELSE b

\* persistRiskBucketFillTransition: the row, the order, the fill and the
\* owner's latches.
Persisted(b, d, cum, transfer, deduction) ==
  LET r == b.row[d]
      q == b.order[d]
      w == b.own[OwnerOf(d)]
      held == r.held - deduction
      fill == [quantity |-> cum - q.cum, cum |-> cum, transfer |-> transfer, known |-> FALSE]
  IN  [b EXCEPT
         !.row[d] = [r EXCEPT !.held = held, !.filled = r.filled + transfer,
                              !.state = IF held = 0 THEN "FILLED" ELSE r.state],
         !.order[d] = [q EXCEPT !.cum = cum, !.fills = q.fills \cup {fill}],
         !.own[OwnerOf(d)] = [w EXCEPT !.unknown = TRUE, !.tightened = TRUE,
                                       !.over = w.over \/ deduction < transfer]]

\* ApplyFill of a new fill without actual evidence: what the fill takes from
\* the hold it adds to the filled; a hold that is too small is an overage.
FillApplied(b, d, cum) ==
  LET r == b.row[d]
      transfer == Allocated(r, cum) - Allocated(r, b.order[d].cum)
      moved == Persisted(b, d, cum, transfer, Min({transfer, r.held}))
  IN  Sealed(RecomputeOverage(moved, OwnerOf(d)), OwnerOf(d))

\* applyRiskBucketFillInTx.
ApplyFill(b, d, cum) ==
  LET o == OwnerOf(d)
  IN  IF b.order[d].state = "none" \/ b.own[o].state # "active" THEN b
      ELSE IF ~b.own[o].sealed \/ cum <= b.order[d].cum THEN LatchFailure(b, o)
      ELSE FillApplied(b, d, cum)

\* releaseRiskBucketOrderInTx: the unfilled part of the hold returns.
ReleaseOrder(b, d) ==
  LET r == b.row[d]
      held == Max({0, r.held - (r.reserved - Allocated(r, b.order[d].cum))})
  IN  Sealed([b EXCEPT !.row[d] = [r EXCEPT !.held = held,
                                            !.state = IF held = 0 THEN "RELEASED" ELSE r.state],
                       !.order[d].state = "RELEASED"], OwnerOf(d))

\* releaseTerminalRiskBucketOrderInTx.
ReleaseTerminal(b, d) ==
  LET o == OwnerOf(d)
  IN  IF b.order[d].state = "none" \/ b.own[o].state # "active" THEN b
      ELSE IF ~b.own[o].sealed THEN LatchFailure(b, o)
      ELSE IF b.order[d].state = "RELEASED" THEN b
      ELSE ReleaseOrder(b, d)

\* latchReleasedOwnerLateFillInTx: the departed usage returns, the symbol is
\* put under RECONCILE, its present owner is latched.
LateFill(b, o) ==
  LET successors == ActiveOn(b, SymbolOf(o))
  IN  [b EXCEPT !.scope = @ \cup {o} \cup successors,
                !.reconcile = @ \cup {SymbolOf(o)},
                !.own = [s \in Owners |->
                           LET w == b.own[s]
                           IN  IF s \in successors
                               THEN [w EXCEPT !.unknown = TRUE, !.tightened = TRUE, !.sealed = TRUE,
                                              !.approval = IF w.approval = "current"
                                                           THEN "resealed" ELSE w.approval]
                               ELSE w]]

\* The campaign and the position a fill finds are this generation's and open.
Joined(d) == d \notin config.strays /\ OwnerOf(d) \notin flat

\* applyRiskBucketOwnerBindingInTx.
BindOwner(b, d) ==
  LET o == OwnerOf(d)
  IN  IF b.order[d].state = "none" THEN b
      ELSE IF b.own[o].state = "released" THEN LateFill(b, o)
      ELSE IF ~b.own[o].sealed THEN LatchFailure(b, o)
      ELSE IF ~Joined(d) THEN Sealed(LatchFailure(b, o), o)
      ELSE IF b.own[o].bound THEN b
      ELSE Sealed([b EXCEPT !.own[o].bound = TRUE], o)

\* The sidecar's part of RecordFill, in its order; grown: the cumulative
\* quantity is larger than the one recorded before.
Recording(b, d, cum, grown, terminal) ==
  LET applied == IF grown THEN ApplyFill(b, d, cum) ELSE b
      released == IF terminal THEN ReleaseTerminal(applied, d) ELSE applied
  IN  IF grown THEN BindOwner(released, d) ELSE released

-----------------------------------------------------------------------------
(* Entries. *)

\* loadProductionRiskEntries: before the wave, in a read of its own.
CollectUsage(d) ==
  LET s == SymbolOf(OwnerOf(d))
  IN  /\ book.row[d].state = "none" /\ OwnerOf(d) \notin flat
      /\ \A o \in book.scope : SymbolOf(o) # s
      /\ ~BucketLatched(book)
      /\ snap' = [snap EXCEPT ![d] = Usage(book)]
      /\ UNCHANGED <<config, book, sent, seen, flat, lock, forgiven, lifted>>

\* refuseStaleBucketUsage.
UsageHonest(d, q) ==
  /\ ~BucketLatched(book)
  /\ snap[d] >= Usage(book)
  /\ \A e \in Recorded(book) : Usage(book) + ReservationMinor(q) <= config.limit[e]

\* CalculateAdmission: what fits into the limit of the snapshot.
AdmittedQuantity(d) == MaximumQuantity(Max({0, config.limit[d] - snap[d]}))

\* The symbol's owner is reused on its seal or acquired; the key of a
\* released generation stays in the table, so it is never taken again.
OwnerAvailable(o) ==
  LET active == ActiveOn(book, SymbolOf(o))
  IN  \/ active = {} /\ book.own[o].state = "none"
      \/ active = {o} /\ book.own[o].sealed

\* RecordQFinalDecisionAndReserve, commitFreshRiskBucketAdmissionTx.
Admit(d) ==
  LET o == OwnerOf(d)
      q == AdmittedQuantity(d)
      amount == ReservationMinor(q)
  IN  /\ snap[d] # -1 /\ book.row[d].state = "none"
      /\ q > 0
      /\ ScopeClean(book, SymbolOf(o)) /\ ~lock.open
      /\ OwnerAvailable(o)
      /\ UsageHonest(d, q)
      /\ book' = Sealed([book EXCEPT !.row[d] = [state |-> "HELD", quantity |-> q,
                                            reserved |-> amount, held |-> amount,
                                            filled |-> 0],
                           !.own[o].state = "active"], o)
      /\ snap' = [snap EXCEPT ![d] = -1]
      /\ UNCHANGED <<config, sent, seen, flat, lock, forgiven, lifted>>

\* RevalidateQFinalAdmission, at the submission.
Submit(d) ==
  LET o == OwnerOf(d)
  IN  /\ sent[d] = "no"
      /\ book.row[d].state = "HELD" /\ book.row[d].held = book.row[d].reserved
      /\ book.own[o].state = "active" /\ book.own[o].sealed
      /\ ~lock.open
      /\ ScopeClean(book, SymbolOf(o)) /\ ~BucketLatched(book)
      /\ sent' = [sent EXCEPT ![d] = "wire"]
      /\ UNCHANGED <<config, book, snap, seen, flat, lock, forgiven, lifted>>

\* The lease is refused before the order is sent, or the broker never had it:
\* the holds return, and no seal is written.
ReturnHold(d) ==
  /\ book.row[d].state = "HELD"
  /\ sent[d] # "never" /\ book.order[d].state = "none"
  /\ seen[d].cum = 0 /\ ~seen[d].terminal
  /\ sent' = [sent EXCEPT ![d] = "never"]
  /\ book' = [book EXCEPT !.row[d] = [@ EXCEPT !.state = "RELEASED", !.held = 0],
                          !.own[OwnerOf(d)].sealed = FALSE]
  /\ UNCHANGED <<config, snap, seen, flat, lock, forgiven, lifted>>

\* registerConfirmedStrategyRiskOrderTx, with the fill recorded before it.
Register(d) ==
  LET o == OwnerOf(d)
  IN  /\ sent[d] = "wire" /\ book.order[d].state = "none"
      /\ book.own[o].state = "active" /\ book.own[o].sealed
      /\ book' = Recording(Sealed([book EXCEPT !.order[d].state = "ACTIVE"], o),
                           d, seen[d].cum, seen[d].cum > 0, seen[d].terminal)
      /\ UNCHANGED <<config, snap, sent, seen, flat, lock, forgiven, lifted>>

\* RecordFill: a larger cumulative quantity, or the end of the order; the
\* quantity may still grow after it.
RecordBucketFill(d, cum, terminal) ==
  LET grown == cum > seen[d].cum
  IN  /\ sent[d] = "wire"
      /\ grown \/ terminal # seen[d].terminal
      /\ seen[d].terminal => terminal
      /\ seen' = [seen EXCEPT ![d] = [cum |-> cum, terminal |-> terminal]]
      /\ book' = Recording(book, d, cum, grown, terminal)
      /\ UNCHANGED <<config, snap, sent, flat, lock, forgiven, lifted>>

\* completeRiskBucketFillActual: the evidence of what a fill has cost arrives;
\* with the last one the owner's cost is known.
CompleteActual(d, f, cost) ==
  LET o == OwnerOf(d)
      raised ==
        [book EXCEPT !.row[d].filled = @ + Max({0, cost * f.quantity - f.transfer}),
                     !.order[d].fills = (@ \ {f}) \cup {[f EXCEPT !.known = TRUE]},
                     !.own[o].tightened = @ \/ cost * f.quantity > f.transfer]
      judged == RecomputeOverage(raised, o)
      allKnown == \A e \in EntriesOf(o) : \A g \in judged.order[e].fills : g.known
  IN  /\ ~f.known
      /\ book.own[o].state = "active" /\ book.own[o].sealed
      /\ book' = Sealed([judged EXCEPT !.own[o].unknown = @ /\ ~allKnown], o)
      /\ UNCHANGED <<config, snap, sent, seen, flat, lock, forgiven, lifted>>

-----------------------------------------------------------------------------
(* Owners. *)

\* The exits sell what the generation bought; its campaign closes.
Close(o) ==
  /\ book.own[o].state = "active" /\ book.own[o].bound /\ o \notin flat
  /\ flat' = flat \cup {o}
  /\ UNCHANGED <<config, book, snap, sent, seen, lock, forgiven, lifted>>

\* releaseRiskBucketOwner: nothing is held, working, latched or in doubt.
ReleaseOwner(o) ==
  /\ book.own[o].state = "active" /\ book.own[o].sealed /\ book.own[o].bound
  /\ o \in flat
  /\ \A d \in EntriesOf(o) :
       /\ book.row[d].held = 0 /\ book.row[d].state # "HELD"
       /\ book.order[d].state # "ACTIVE"
       /\ \A f \in book.order[d].fills : f.known
  /\ ~book.own[o].over /\ ~book.own[o].unknown
  /\ o \notin book.scope /\ SymbolOf(o) \notin book.reconcile
  /\ book' = [book EXCEPT !.own[o].state = "released"]
  /\ UNCHANGED <<config, snap, sent, seen, flat, lock, forgiven, lifted>>

\* The mismatch is resolved (module ReconcileTracker).
ResolveReconcile(s) ==
  /\ s \in book.reconcile
  /\ book' = [book EXCEPT !.reconcile = @ \ {s}]
  /\ UNCHANGED <<config, snap, sent, seen, flat, lock, forgiven, lifted>>

-----------------------------------------------------------------------------
(* The operator's reliefs, and the loss lock. *)

\* ReadRiskOwnerLatches: the approver reads the owner's seal.
ApproveOverage(o) ==
  /\ book.own[o].state = "active" /\ book.own[o].over
  /\ book.own[o].approval # "current"
  /\ book' = [book EXCEPT !.own[o].approval = "current",
                          !.own[o].tightened = ~book.own[o].sealed]
  /\ UNCHANGED <<config, snap, sent, seen, flat, lock, forgiven, lifted>>

\* ReleaseRiskOverageLatch: on the seal the approver saw, and only while the
\* tables still match it.
ReleaseRiskOverageLatch(o) ==
  /\ book.own[o].state = "active" /\ book.own[o].over
  /\ book.own[o].approval = "current" /\ book.own[o].sealed
  /\ book' = [Sealed(book, o) EXCEPT !.own[o].over = FALSE,
                                     !.own[o].approval = "none"]
  /\ forgiven' = Usage(book)
  /\ lifted' = (lifted \/ book.own[o].tightened)
  /\ UNCHANGED <<config, snap, sent, seen, flat, lock>>

\* ActivateEntryLossLock: a new lock, or one more event of the open one.
ActivateEntryLossLock ==
  /\ lock.seq + lock.event < config.locks
  /\ lock' = IF lock.open
             THEN [lock EXCEPT !.event = @ + 1, !.tightened = TRUE]
             ELSE [lock EXCEPT !.open = TRUE, !.seq = @ + 1, !.event = 0,
                               !.tightened = TRUE]
  /\ UNCHANGED <<config, book, snap, sent, seen, flat, forgiven, lifted>>

\* ReadEntryLossLocks: the approver reads the lock and its last event.
ApproveLock ==
  /\ lock.open
  /\ lock' = [lock EXCEPT !.approved = <<lock.seq, lock.event>>, !.tightened = FALSE]
  /\ UNCHANGED <<config, book, snap, sent, seen, flat, forgiven, lifted>>

\* ReleaseEntryLossLock: the lock and its last event are those approved.
ReleaseEntryLossLock ==
  /\ lock.open
  /\ lock.approved = <<lock.seq, lock.event>>
  /\ lock' = [lock EXCEPT !.open = FALSE]
  /\ lifted' = (lifted \/ lock.tightened)
  /\ UNCHANGED <<config, book, snap, sent, seen, flat, forgiven>>

RiskNext ==
  \/ \E d \in Entries :
       \/ CollectUsage(d) \/ Admit(d) \/ Submit(d) \/ ReturnHold(d)
       \/ Register(d)
       \/ \E cum \in seen[d].cum..book.row[d].quantity, terminal \in BOOLEAN :
            RecordBucketFill(d, cum, terminal)
       \/ \E f \in book.order[d].fills, cost \in Costs : CompleteActual(d, f, cost)
  \/ \E o \in Owners : \/ Close(o) \/ ReleaseOwner(o)
                       \/ ApproveOverage(o) \/ ReleaseRiskOverageLatch(o)
  \/ \E s \in book.reconcile : ResolveReconcile(s)
  \/ ActivateEntryLossLock \/ ApproveLock \/ ReleaseEntryLossLock

RiskSpec == RiskInit /\ [][RiskNext]_riskVars

-----------------------------------------------------------------------------
(* Properties. *)

\* Type invariant: the type of the buckets, the owners and the loss lock.
RiskTypeOK ==
  /\ config \in Books
  /\ \A d \in Entries :
       /\ book.row[d].state \in {"none", "HELD", "FILLED", "RELEASED"}
       /\ book.row[d].held \in 0..book.row[d].reserved
       /\ book.row[d].filled \in Nat
       /\ book.order[d].state \in {"none", "ACTIVE", "RELEASED"}
       /\ book.order[d].cum \in 0..book.row[d].quantity
       /\ snap[d] \in Nat \cup {-1}
       /\ sent[d] \in {"no", "wire", "never"}
       /\ seen[d] \in [cum : 0..Quantity, terminal : BOOLEAN]
  /\ book.own \in [Owners -> [state : {"none", "active", "released"}, bound : BOOLEAN,
                              over : BOOLEAN, unknown : BOOLEAN, sealed : BOOLEAN,
                              approval : {"none", "current", "resealed"},
                              tightened : BOOLEAN]]
  /\ book.scope \subseteq Owners /\ flat \subseteq Owners
  /\ lock \in [open : BOOLEAN, seq : Nat, event : Nat, approved : Nat \X Nat,
              tightened : BOOLEAN]
  /\ forgiven \in Nat /\ lifted \in BOOLEAN

(* What all owners together hold and have filled in the shared bucket stays   *)
(* within a limit that was recorded for it, whatever order the snapshots, the *)
(* admissions and the fills came in; where it does not, the bucket or a scope *)
(* is latched, or the operator saw that usage and relieved it.                *)
CapOrLatched ==
  \/ Recorded(book) = {}
  \/ Usage(book) <= Max({forgiven} \cup {config.limit[d] : d \in Recorded(book)})
  \/ BucketLatched(book)
  \/ book.scope # {}

(* While an order may still buy, the rest of its reservation is held and what *)
(* it has bought is counted, or its symbol is latched.                        *)
WorkingCovered ==
  \A d \in Entries :
    LET r == book.row[d]
    IN  \/ sent[d] # "wire" \/ seen[d].terminal
        \/ OwnerOf(d) \in book.scope
        \/ r.held + Allocated(r, book.order[d].cum) >= r.reserved

(* Every fill recorded of a registered order is in the bucket's usage, late   *)
(* ones and those of released owners included, or its generation is latched   *)
(* for good.                                                                  *)
FillCountedOrLatched ==
  \A d \in Entries :
    \/ book.order[d].state = "none"
    \/ OwnerOf(d) \in book.scope
    \/ book.order[d].cum = seen[d].cum
       /\ book.row[d].filled >= Allocated(book.row[d], seen[d].cum)

(* A symbol has one active generation.                                        *)
OneGeneration ==
  \A o, p \in Owners :
    book.own[o].state = "active" /\ book.own[p].state = "active" /\ o # p
      => SymbolOf(o) # SymbolOf(p)

(* A relief approved on one state never lifts what was tightened afterwards:  *)
(* an owner's latch by a later fill, the loss lock by a later loss.           *)
ReliefIsCurrent == ~lifted

(* The monetary buckets stay honest: CapOrLatched, WorkingCovered,            *)
(* FillCountedOrLatched, OneGeneration and ReliefIsCurrent.                   *)
RiskInv ==
  /\ RiskTypeOK
  /\ CapOrLatched
  /\ WorkingCovered
  /\ FillCountedOrLatched
  /\ OneGeneration
  /\ ReliefIsCurrent
=============================================================================
