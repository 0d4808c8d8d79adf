-------------------------- MODULE ReconcileTracker --------------------------
(***************************************************************************)
(* reconcile.Tracker: when the account and the engine disagree, which      *)
(* entries stop, and what lets them start again.                           *)
(*                                                                         *)
(* The journal's active RECONCILE rows are the authority; the tracker's    *)
(* blocks are their projection plus the blocks whose write has not         *)
(* committed yet; the entry gate's latches mirror the blocks.  One         *)
(* reconciliation cycle compares, converges, refreshes and observes, and   *)
(* any journal read or write in it may fail (a write possibly after it     *)
(* committed).  Other producers enter rows, entries are checked, the       *)
(* operator resolves and the process restarts at any point of the cycle.   *)
(***************************************************************************)
EXTENDS Naturals, FiniteSets

CONSTANTS
    Symbols,
    Account,      \* the account-wide scope
    MaxFailures,  \* Tracker.MaxFailures
    Kinds,        \* what a comparison may say of a symbol (subset of AllKinds)
    NoSymbol

(* qty1, qty2: two different quantity tuples; vague: a quantity mismatch       *)
(* without a promotion key; order: an order the account does not show;         *)
(* external: a holding the engine has no instance of.                          *)
AllKinds == {"agree", "qty1", "qty2", "vague", "order", "external"}
Quantity == {"qty1", "qty2", "vague"}
Blocking == Quantity \cup {"order"}
Keyed    == {"qty1", "qty2", "order"}

ASSUME TrackerAssumption ==
    /\ Account \notin Symbols /\ NoSymbol \notin Symbols
    /\ MaxFailures \in Nat \ {0}
    /\ Kinds \subseteq AllKinds /\ "agree" \in Kinds

Scopes == Symbols \cup {Account}
Keys   == Symbols \X (Keyed \cap Kinds)
NoPromotion == <<>>
Broken == <<"the zero key">>

Causes == {"NONE", "QUANTITY_MISMATCH", "OTHER"}
Reasons == {"MISMATCH", "PERMANENT"}

VARIABLES
    rows,          \* journal: the active state of each scope
    blocks,        \* Tracker.blocks, by cause
    pending,       \* the blocks whose durable write is not confirmed
    streaks,       \* Tracker.streaks, counted up to MaxFailures
    promotion,     \* pendingPermanent and its key: NoPromotion, Broken or the key
    credits,       \* Tracker.adjusted: "none", "fresh" (stamped with the latest
                   \* comparison) or "older"
    acctLatch, symLatch,   \* EntryGate: the reconcile family
    recovering,    \* EntryGate: RecoveryIncomplete
    cycle, diff,   \* the driver's step and the comparison it holds
    resolving,     \* Resolve has released the rows, not yet the memory
    admitted,      \* the symbol CheckEntryFor has just admitted
    owed,          \* history: scopes blocked and not released since
    refuted,       \* history: disputed by a blocking comparison after the credit
    runs           \* history: consecutive observations of each key

memory  == <<blocks, pending, streaks, promotion, credits>>
gate    == <<acctLatch, symLatch>>
history == <<owed, refuted, runs>>
vars == <<rows, memory, gate, recovering, cycle, diff, resolving, admitted, history>>

NoRows  == [x \in Scopes |-> "NONE"]
NoDiff  == [s \in Symbols |-> "agree"]
NoRuns  == [k \in Keys |-> 0]
NoCredits == [s \in Symbols |-> "none"]
Active(f) == {x \in Scopes : f[x] # "NONE"}

\* Type invariant: the type of the rows, the tracker and the latches.
TypeOK ==
    /\ rows \in [Scopes -> Causes] /\ blocks \in [Scopes -> Causes]
    /\ pending \subseteq Active(blocks)
    /\ streaks \in [Keys -> 0 .. MaxFailures] /\ runs \in [Keys -> 0 .. MaxFailures]
    /\ promotion \in {NoPromotion, Broken} \cup Keys
    /\ credits \in [Symbols -> {"none", "fresh", "older"}]
    /\ acctLatch \subseteq Reasons /\ symLatch \subseteq Symbols \X Reasons
    /\ recovering \in BOOLEAN /\ resolving \in BOOLEAN
    /\ cycle \in {"idle", "refresh", "observe"}
    /\ diff \in [Symbols -> Kinds]
    /\ admitted \in Symbols \cup {NoSymbol}
    /\ owed \subseteq Scopes /\ refuted \subseteq Symbols

-----------------------------------------------------------------------------
(* Comparisons, blocks and the gate.                                           *)

BlocksEntry(d)      == \E s \in Symbols : d[s] \in Blocking
Disputed(d)         == {s \in Symbols : d[s] # "agree"}        \* symbolsInDispute
promotionKeys(d)    == {k \in Keys : d[k[1]] = k[2]}
blocksFor(d)        == {s \in Symbols : d[s] \in Blocking}

(* Mutant: any credit is spendable, by the comparison that earned it too.      *)
creditUsableAtOnce(s) == credits[s] # "none"

(* creditUsableBy the comparison in hand: stamped with an earlier one.         *)
creditUsable(s)     == credits[s] = "older"

(* The reason a block latches: blockFromReconcileState and blocksFor.          *)
ReasonOf(x, cause) ==
    IF cause = "QUANTITY_MISMATCH" /\ x # Account THEN "MISMATCH" ELSE "PERMANENT"

(* ReconcileReasonFor, which knows the cause and not the scope.                *)
ReconcileReasonFor(cause) ==
    IF cause = "QUANTITY_MISMATCH" THEN "MISMATCH" ELSE "PERMANENT"

(* The gate's whole reconcile family becomes the projection of b.              *)
syncGate(b) ==
    /\ acctLatch' = {ReasonOf(Account, b[Account]) : x \in {Account} \cap Active(b)}
    /\ symLatch' = {<<s, ReasonOf(s, b[s])>> : s \in Symbols \cap Active(b)}

RebuildReconcileProjection(r) ==
    /\ acctLatch' = {ReconcileReasonFor(r[Account]) : x \in {Account} \cap Active(r)}
    /\ symLatch' = {<<s, ReconcileReasonFor(r[s])>> : s \in Symbols \cap Active(r)}

-----------------------------------------------------------------------------
(* Refresh.                                                                    *)

DurablePermanent == rows[Account] = "QUANTITY_MISMATCH"
ContinuityBroken == promotion = Broken /\ ~DurablePermanent

(* Mutant: Refresh replaces the projection by the rows.                        *)
KeptPendingNone == {}

(* Pending blocks survive, except the account proposal whose dispute ended;    *)
(* durable rows win over them.                                                 *)
KeptPending ==
    {x \in pending : rows[x] = "NONE" /\
        ~(ContinuityBroken /\ x = Account /\ blocks[x] = "QUANTITY_MISMATCH")}

Refreshed == [x \in Scopes |-> IF rows[x] # "NONE" THEN rows[x]
                               ELSE IF x \in KeptPending THEN blocks[x] ELSE "NONE"]

Refresh ==
    /\ blocks' = Refreshed
    /\ pending' = KeptPending
    /\ promotion' = IF DurablePermanent \/ ContinuityBroken THEN NoPromotion ELSE promotion
    /\ streaks' = IF ContinuityBroken THEN NoRuns ELSE streaks
    /\ syncGate(Refreshed)
    /\ UNCHANGED credits

-----------------------------------------------------------------------------
(* The driver's cycle: ReconcileDriver.RunOnce.                                *)

(* A stable snapshot is compared, with a later as-of than the comparison       *)
(* before, and ConvergeQuantities credits the symbols it adjusted before it    *)
(* finished or stopped: any of those whose quantity differs.                   *)
Compare(d, adjusted) ==
    /\ cycle = "idle" /\ ~recovering
    /\ \A s \in adjusted : d[s] \in Quantity
    /\ cycle' = "refresh"
    /\ diff' = d
    /\ credits' = [s \in Symbols |-> IF s \in adjusted THEN "fresh"
                                     ELSE IF credits[s] = "fresh" THEN "older" ELSE credits[s]]
    /\ refuted' = refuted \ adjusted
    /\ admitted' = NoSymbol
    /\ UNCHANGED <<rows, blocks, pending, streaks, promotion, gate, recovering,
                   resolving, owed, runs>>

RefreshCycle ==
    /\ cycle = "refresh"
    /\ Refresh
    /\ cycle' = "observe"
    /\ admitted' = NoSymbol
    /\ UNCHANGED <<rows, recovering, diff, resolving, history>>

(* The authority could not be read: the cycle ends before Observe.             *)
RefreshFails ==
    /\ cycle = "refresh"
    /\ cycle' = "idle"
    /\ diff' = NoDiff
    /\ admitted' = NoSymbol
    /\ UNCHANGED <<rows, memory, gate, recovering, resolving, history>>

-----------------------------------------------------------------------------
(* Observe.                                                                    *)

Least(a, b) == IF a < b THEN a ELSE b

Advanced(counts) ==
    [k \in Keys |-> IF k \in promotionKeys(diff)
                    THEN Least(counts[k] + 1, MaxFailures) ELSE 0]

(* Mutant: a dispute missing from this comparison keeps its count.             *)
advanceStreaksKept ==
    [k \in Keys |-> IF k \in promotionKeys(diff)
                    THEN Least(streaks[k] + 1, MaxFailures) ELSE streaks[k]]

advanceStreaks == Advanced(streaks)

(* The blocks with this comparison's disputes latched conservatively.          *)
Latched(b) == [x \in Scopes |-> IF x \in blocksFor(diff) /\ b[x] = "NONE"
                                THEN "QUANTITY_MISMATCH" ELSE b[x]]

(* refuteUsableAdjustmentCredits *)
RefutedCredits ==
    [s \in Symbols |-> IF s \in Disputed(diff) /\ creditUsable(s) THEN "none" ELSE credits[s]]

PendingAccount == pending \cap {x \in {Account} : blocks[x] = "QUANTITY_MISMATCH"}

(* resolvePendingPermanentAuthority with the journal readable: the proposal is *)
(* either the durable row or withdrawn.                                        *)
Resolved(b) ==
    IF promotion = NoPromotion THEN b
    ELSE IF DurablePermanent THEN [b EXCEPT ![Account] = "QUANTITY_MISMATCH"]
    ELSE [x \in Scopes |-> IF x \in PendingAccount THEN "NONE" ELSE b[x]]

(* What every observation leaves to the history variables; lifted are the      *)
(* scopes whose row it closed.  A dispute seen while the operator's resolution *)
(* is half done is the operator's.                                             *)
Recorded(lifted) ==
    /\ owed' = (owed \cup (IF resolving THEN {} ELSE blocksFor(diff))) \ lifted
    /\ runs' = Advanced(runs)
    /\ refuted' = (refuted \ {s \in Symbols : credits'[s] = "none"})
                     \cup {s \in blocksFor(diff) : BlocksEntry(diff) /\ credits'[s] = "older"}

EndCycle ==
    /\ cycle' = "idle"
    /\ diff' = NoDiff
    /\ admitted' = NoSymbol
    /\ UNCHANGED <<recovering, resolving>>

(* finishAuthorityError: the projection is mirrored and nothing is persisted.  *)
ObserveUnread ==
    /\ cycle = "observe"
    /\ promotion # NoPromotion /\ promotion \notin promotionKeys(diff)
    /\ promotion' = Broken
    /\ IF BlocksEntry(diff)
       THEN /\ streaks' = advanceStreaks
            /\ credits' = RefutedCredits
            /\ blocks' = Latched(blocks)
            /\ pending' = pending \cup {s \in blocksFor(diff) : blocks[s] = "NONE"}
       ELSE /\ streaks' = NoRuns
            /\ UNCHANGED <<credits, blocks, pending>>
    /\ syncGate(blocks')
    /\ Recorded({})
    /\ EndCycle
    /\ UNCHANGED rows

(* What persist achieves: the scopes whose enter it saw succeed, the one it    *)
(* stopped at, whether that write was committed all the same, and the releases *)
(* it saw succeed.  Enters come first and the account's before any other.      *)
Persisted(toEnter, toRelease, entered, released, stop, committed) ==
    /\ entered \subseteq toEnter /\ released \subseteq toRelease
    /\ \A x \in entered : rows[x] \in {"NONE", "QUANTITY_MISMATCH"}
    /\ \A x \in released : x \in entered \/ rows[x] = "QUANTITY_MISMATCH"
    /\ IF entered # toEnter
       THEN /\ released = {}
            /\ stop \in toEnter \ entered
            /\ Account \in toEnter \ entered => stop = Account /\ entered = {}
            /\ committed => rows[stop] = "NONE"
       ELSE IF released # toRelease
       THEN /\ stop \in toRelease \ released
            /\ committed => stop \in entered \/ rows[stop] = "QUANTITY_MISMATCH"
       ELSE stop = NoSymbol /\ ~committed

(* The journal's rows after it.                                                *)
RowsAfter(toEnter, entered, released, stop, committed) ==
    LET late == {x \in {stop} : committed}
    IN  [x \in Scopes |->
            IF x \in released \/ (entered = toEnter /\ x \in late) THEN "NONE"
            ELSE IF x \in entered \/ (entered # toEnter /\ x \in late)
                 THEN "QUANTITY_MISMATCH" ELSE rows[x]]

(* Mutant: only a committed release spends a credit.                           *)
CreditsAfterRelease(released, b) ==
    [s \in Symbols |-> IF creditUsable(s) /\ (s \in released \/ b[s] # "QUANTITY_MISMATCH")
                       THEN "none" ELSE credits[s]]

(* Credit accounting: a usable credit is refuted, spent, without a block left  *)
(* to answer, or kept.                                                         *)
CreditsAfter(released, b) ==
    [s \in Symbols |-> IF creditUsable(s) /\ \/ s \in Disputed(diff) \/ s \in released
                                             \/ b[s] # "QUANTITY_MISMATCH"
                       THEN "none" ELSE credits[s]]

(* Observe from the write-through to the end, with b, p and promo what the     *)
(* comparison made of the blocks, the pending ones and the promotion.  The     *)
(* writes end at stop, or all succeed when it is NoSymbol.                     *)
WriteThrough(b, p, promo, toRelease, stop) ==
    \E entered \in SUBSET p, released \in SUBSET toRelease, committed \in BOOLEAN :
        LET owned == {x \in {stop} \cap p : entered # p /\ rows[x] = "OTHER"}
            after == [x \in Scopes |-> IF x \in released THEN "NONE"
                                       ELSE IF x \in owned THEN "OTHER" ELSE b[x]]
        IN  /\ Persisted(p, toRelease, entered, released, stop, committed)
            /\ rows' = RowsAfter(p, entered, released, stop, committed)
            \* a scope another cause owns is reported to the tracker, or the
            \* write fails like any other
            /\ \E seen \in {after, [x \in Scopes |-> IF x \in owned THEN b[x] ELSE after[x]]} :
                /\ blocks' = seen
                /\ pending' = p \ (entered \cup released \cup {x \in owned : seen[x] = "OTHER"})
                /\ promotion' = IF \/ Account \in entered
                                   \/ Account \in owned /\ seen[Account] = "OTHER"
                                THEN NoPromotion ELSE promo
                /\ credits' = CreditsAfter(released, seen)
                /\ syncGate(seen)
            /\ Recorded({x \in toRelease : entered = p /\ rows'[x] = "NONE"})
            /\ EndCycle

(* A comparison that blocks nothing releases the quantity blocks an earlier    *)
(* adjustment answers and it does not dispute.                                 *)
ObserveAgreeing(stop) ==
    /\ cycle = "observe"
    /\ ~BlocksEntry(diff)
    /\ streaks' = NoRuns
    /\ LET b == Resolved(blocks)
           p == IF promotion = NoPromotion THEN pending ELSE pending \ PendingAccount
       IN  WriteThrough(b, p, NoPromotion,
               {s \in Symbols : /\ b[s] = "QUANTITY_MISMATCH"
                                /\ creditUsable(s)
                                /\ s \notin Disputed(diff)}, stop)

(* A comparison that blocks latches its disputes, and promotes the one seen    *)
(* MaxFailures times in a row to an account-wide block.                        *)
ObserveBlocking(stop) ==
    /\ cycle = "observe"
    /\ BlocksEntry(diff)
    /\ streaks' = advanceStreaks
    /\ LET kept == promotion = NoPromotion \/ promotion \in promotionKeys(diff)
           b0 == IF kept THEN Latched(blocks) ELSE Resolved(Latched(blocks))
           p0 == (IF kept THEN pending ELSE pending \ PendingAccount)
                    \cup {s \in blocksFor(diff) : blocks[s] = "NONE"}
           reached == {k \in Keys : advanceStreaks[k] >= MaxFailures}
       IN  IF reached # {} /\ b0[Account] = "NONE"
           THEN \E k \in reached :
                    WriteThrough([b0 EXCEPT ![Account] = "QUANTITY_MISMATCH"],
                                 p0 \cup {Account}, k, {}, stop)
           ELSE WriteThrough(b0, p0, IF kept THEN promotion ELSE NoPromotion, {}, stop)

-----------------------------------------------------------------------------
(* Everybody else.                                                             *)

(* CheckEntryFor: authority first, then the account latches, then the symbol's.*)
CheckEntryFor(s) ==
    /\ Refresh
    /\ admitted' = IF recovering \/ acctLatch' # {} \/ \E r \in Reasons : <<s, r>> \in symLatch'
                   THEN NoSymbol ELSE s
    /\ UNCHANGED <<rows, recovering, cycle, diff, resolving, history>>

(* Fill projection, lineage and snapshot producers enter rows of their own;    *)
(* the first cause of a scope stays.                                           *)
EnterReconcile(x, cause) ==
    /\ rows[x] = "NONE"
    /\ x = Account => cause = "OTHER"
    /\ rows' = [rows EXCEPT ![x] = cause]
    /\ owed' = owed \cup {x}
    /\ admitted' = NoSymbol
    /\ UNCHANGED <<memory, gate, recovering, cycle, diff, resolving, refuted, runs>>

(* Resolve: ReleaseReconciles closes the row of every block in one             *)
(* transaction, or none when one of them is not there ...                      *)
ResolveRows ==
    /\ ~resolving
    /\ \A x \in Active(blocks) : rows[x] = blocks[x]
    /\ resolving' = TRUE
    /\ rows' = [x \in Scopes |-> IF x \in Active(blocks) THEN "NONE" ELSE rows[x]]
    /\ owed' = owed \ Active(blocks)
    /\ admitted' = NoSymbol
    /\ UNCHANGED <<memory, gate, recovering, cycle, diff, refuted, runs>>

(* ... and only then is the memory cleared.                                    *)
ResolveMemory ==
    /\ resolving
    /\ resolving' = FALSE
    /\ blocks' = NoRows /\ pending' = {} /\ streaks' = NoRuns /\ promotion' = NoPromotion
    /\ credits' = NoCredits
    /\ syncGate(NoRows)
    /\ owed' = Active(rows)
    /\ refuted' = {}
    /\ admitted' = NoSymbol
    /\ UNCHANGED <<rows, recovering, cycle, diff, runs>>

(* The process restarts: Restore rebuilds blocks and gate from the rows, and   *)
(* nothing else comes back.  Recovery then keeps every entry shut.             *)
Restart ==
    /\ blocks' = rows /\ pending' = {} /\ streaks' = NoRuns /\ promotion' = NoPromotion
    /\ credits' = NoCredits
    /\ RebuildReconcileProjection(rows)
    /\ recovering' = TRUE
    /\ cycle' = "idle" /\ diff' = NoDiff /\ resolving' = FALSE
    /\ admitted' = NoSymbol
    /\ owed' = Active(rows)
    /\ refuted' = {} /\ runs' = NoRuns
    /\ UNCHANGED rows

(* Recovery.Run's end: its latch goes, and a blocking comparison latches the   *)
(* account's ordinary reason.                                                  *)
FinishRecovery(blocking) ==
    /\ recovering
    /\ recovering' = FALSE
    /\ acctLatch' = IF blocking THEN acctLatch \cup {"MISMATCH"} ELSE acctLatch
    /\ admitted' = NoSymbol
    /\ UNCHANGED <<rows, memory, symLatch, cycle, diff, resolving, owed, refuted, runs>>

-----------------------------------------------------------------------------
Init ==
    /\ rows = NoRows
    /\ blocks = NoRows /\ pending = {} /\ streaks = NoRuns /\ promotion = NoPromotion
    /\ credits = NoCredits
    /\ acctLatch = {} /\ symLatch = {} /\ recovering = TRUE
    /\ cycle = "idle" /\ diff = NoDiff /\ resolving = FALSE
    /\ admitted = NoSymbol
    /\ owed = {} /\ refuted = {} /\ runs = NoRuns

Observe == \E stop \in Scopes \cup {NoSymbol} : ObserveAgreeing(stop) \/ ObserveBlocking(stop)

Next ==
    \/ \E d \in [Symbols -> Kinds], adjusted \in SUBSET Symbols : Compare(d, adjusted)
    \/ RefreshCycle \/ RefreshFails
    \/ Observe \/ ObserveUnread
    \/ \E s \in Symbols : CheckEntryFor(s)
    \/ \E x \in Scopes, cause \in Causes \ {"NONE"} : EnterReconcile(x, cause)
    \/ ResolveRows \/ ResolveMemory
    \/ Restart
    \/ \E blocking \in BOOLEAN : FinishRecovery(blocking)

Spec == Init /\ [][Next]_vars

(* The driver keeps comparing, the account and the projection agree again and  *)
(* again, and so does the journal answer a read and commit an observation.     *)
FairSpec ==
    /\ Spec
    /\ WF_vars(\E blocking \in BOOLEAN : FinishRecovery(blocking))
    /\ WF_vars(ResolveMemory)
    /\ WF_vars(RefreshCycle \/ RefreshFails)
    /\ WF_vars(Observe \/ ObserveUnread)
    /\ SF_vars(Compare(NoDiff, {}))
    /\ SF_vars(RefreshCycle /\ diff = NoDiff)
    /\ SF_vars(ObserveAgreeing(NoSymbol) /\ diff = NoDiff)

-----------------------------------------------------------------------------
(* An entry is admitted only when no row covers its symbol and no dispute the  *)
(* tracker was shown is still open: whatever write failed, whoever wrote the   *)
(* row, and across a restart.                                                  *)
EntryHonoursBlocks ==
    admitted # NoSymbol => owed \cap {admitted, Account} = {}

Closes(x) ==
    \/ rows[x] # "NONE" /\ rows'[x] = "NONE"
    \/ x # Account /\ blocks[x] # "NONE" /\ blocks'[x] = "NONE"

(* Observe closes a symbol's block only on an adjustment computed from an        *)
(* earlier comparison that no blocking comparison has contradicted since, and  *)
(* never a row of another cause or the account-wide one.                       *)
ReleaseEarned ==
    [][Observe => \A x \in Scopes : Closes(x) =>
          /\ x # Account /\ rows[x] # "OTHER" /\ blocks[x] = "QUANTITY_MISMATCH"
          /\ credits[x] = "older" /\ diff[x] = "agree" /\ x \notin refuted]_vars

(* The account-wide block becomes durable only when one dispute has been in    *)
(* each of the last MaxFailures comparisons this process observed.             *)
PromotionEarned ==
    [][DurablePermanent' /\ ~DurablePermanent => \E k \in Keys : runs'[k] = MaxFailures]_vars

(* A block whose symbol an adjustment converged lifts by itself: unless a      *)
(* later comparison disputes the symbol or the process restarts first.         *)
CreditedBlockLifts ==
    \A s \in Symbols :
        credits[s] # "none" /\ blocks[s] = "QUANTITY_MISMATCH" ~>
            \/ blocks[s] # "QUANTITY_MISMATCH"
            \/ recovering
            \/ cycle # "idle" /\ diff[s] # "agree" /\ credits[s] # "fresh"
=============================================================================
