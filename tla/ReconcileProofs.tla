-------------------------- MODULE ReconcileProofs --------------------------
(* What the engine concludes from what it reads at the broker.  The mismatch   *)
(* tracker's safety, for every set of symbols, every kind of dispute and every *)
(* promotion threshold; both verdicts of the in-doubt resolver, for every      *)
(* configuration whose observation window covers the broker's delays; and the  *)
(* safety of the fill ledger, for any orders, quantities and faults.           *)
EXTENDS ReconcileTracker, Resolver, Fills, SumTheorems, TLAPS

USE DEF memory, gate, history

(* An open dispute is in the journal or in the tracker's memory of writes to   *)
(* repeat.                                                                     *)
OwedOK == \A x \in owed : rows[x] # "NONE" \/ (x \in pending /\ x # Account)

(* After the cycle's refresh, a block is a row or a write to repeat.           *)
ProjectionOK ==
    cycle = "observe" /\ ~resolving =>
        \A x \in Scopes : blocks[x] # "NONE" /\ x \notin pending => rows[x] # "NONE"

(* A proposed account-wide block has the dispute that earned it beside it, as  *)
(* long as that dispute goes on.                                               *)
ProposalOK ==
    Account \in pending =>
        /\ blocks[Account] = "QUANTITY_MISMATCH"
        /\ promotion # NoPromotion
        /\ promotion \in Keys => runs[promotion] = MaxFailures

(* The tracker never counts more than it observed.                             *)
StreaksOK == \A k \in Keys : streaks[k] <= runs[k]

IInv ==
    /\ TypeOK /\ OwedOK /\ ProjectionOK /\ ProposalOK /\ StreaksOK
    /\ refuted = {} /\ EntryHonoursBlocks

-----------------------------------------------------------------------------
Promotions == {NoPromotion, Broken} \cup Keys
CreditStates == {"none", "fresh", "older"}

(* The three readings of the promotion field are different values.             *)
LEMMA PromotionValues == NoPromotion \notin Keys /\ Broken \notin Keys /\ NoPromotion # Broken
  <1>1. \A k \in Keys : DOMAIN k = 1 .. 2
    BY DEF Keys
  <1>2. DOMAIN NoPromotion = {} /\ DOMAIN Broken = 1 .. 1
    BY DEF NoPromotion, Broken
  <1>3. 1 \in 1 .. 2 /\ 2 \in 1 .. 2 /\ 2 \notin 1 .. 1 /\ 1 \in 1 .. 1
    OBVIOUS
  <1> QED BY <1>1, <1>2, <1>3

(* A scope is a symbol or the account, never both.                             *)
LEMMA ScopeFacts ==
    /\ Account \in Scopes /\ Symbols \subseteq Scopes /\ Account \notin Symbols
    /\ \A x \in Scopes : x \in Symbols \/ x = Account
  BY TrackerAssumption DEF Scopes

(* The gate's reconcile family, as syncGate and RebuildReconcileProjection     *)
(* leave it.                                                                   *)
LEMMA GateType ==
    ASSUME NEW b, syncGate(b) \/ RebuildReconcileProjection(b)
    PROVE  acctLatch' \subseteq Reasons /\ symLatch' \subseteq Symbols \X Reasons
  BY DEF syncGate, RebuildReconcileProjection, ReasonOf, ReconcileReasonFor, Reasons

(* Refresh keeps every row and every write to repeat but the account's         *)
(* proposal, and invents nothing.                                              *)
LEMMA RefreshFacts ==
    ASSUME TypeOK, Refresh
    PROVE  /\ blocks' \in [Scopes -> Causes]
           /\ pending' \subseteq pending
           /\ pending' \subseteq Active(blocks')
           /\ \A x \in Scopes : rows[x] # "NONE" => blocks'[x] # "NONE"
           /\ \A x \in pending : x # Account /\ rows[x] = "NONE" => x \in pending'
           /\ \A x \in Scopes : blocks'[x] # "NONE" /\ x \notin pending' => rows[x] # "NONE"
           /\ Account \in pending' /\ blocks[Account] = "QUANTITY_MISMATCH" =>
                  blocks'[Account] = blocks[Account] /\ promotion' = promotion
           /\ promotion' \in {NoPromotion, promotion}
           /\ streaks' \in [Keys -> 0 .. MaxFailures]
           /\ \A k \in Keys : streaks'[k] <= streaks[k]
           /\ credits' = credits
           /\ acctLatch' \subseteq Reasons /\ symLatch' \subseteq Symbols \X Reasons
  <1> USE DEF TypeOK
  <1>1. /\ blocks' = Refreshed /\ pending' = KeptPending /\ credits' = credits
        /\ syncGate(blocks')
    BY DEF Refresh
  <1>2. KeptPending \subseteq pending /\ pending \subseteq Scopes
        /\ \A x \in pending : blocks[x] # "NONE"
    BY DEF KeptPending, Active
  <1>3. \A x \in Scopes :
           blocks'[x] = IF rows[x] # "NONE" THEN rows[x]
                        ELSE IF x \in pending' THEN blocks[x] ELSE "NONE"
    BY <1>1 DEF Refreshed
  <1>4. blocks' \in [Scopes -> Causes]
    BY <1>1 DEF Refreshed, Causes
  <1>5. \A x \in pending : x # Account /\ rows[x] = "NONE" => x \in pending'
    BY <1>1 DEF KeptPending
  <1>6. \A x \in pending' : rows[x] = "NONE"
    BY <1>1 DEF KeptPending
  <1>7. Account \in pending' /\ blocks[Account] = "QUANTITY_MISMATCH" => promotion' = promotion
    BY <1>1, <1>6, ScopeFacts DEF KeptPending, Refresh, DurablePermanent
  <1>8. promotion' \in {NoPromotion, promotion}
    BY DEF Refresh
  <1>9. streaks' \in [Keys -> 0 .. MaxFailures] /\ \A k \in Keys : streaks'[k] <= streaks[k]
    <2>1. CASE ContinuityBroken
      BY <2>1, TrackerAssumption DEF Refresh, NoRuns
    <2>2. CASE ~ContinuityBroken
      BY <2>2, TrackerAssumption DEF Refresh
    <2> QED BY <2>1, <2>2
  <1>10. pending' \subseteq Active(blocks')
    BY <1>1, <1>2, <1>3, <1>6 DEF Active
  <1> QED
    BY <1>1, <1>2, <1>3, <1>4, <1>5, <1>6, <1>7, <1>8, <1>9, <1>10, GateType, ScopeFacts

-----------------------------------------------------------------------------
(* What an observation sets out to write: the blocks b of which p are to be    *)
(* entered and toRelease released, and the promotion promo.                    *)
Proposed(b, p, promo, toRelease) ==
    /\ b \in [Scopes -> Causes]
    /\ p \subseteq Active(b)
    /\ promo \in Promotions
    /\ toRelease \subseteq Symbols

(* What can become of it: a write that was not seen to succeed stays pending,  *)
(* and only a release removes a row or a block (persist).                      *)
Written(b, p, promo, toRelease) ==
    /\ rows' \in [Scopes -> Causes]
    /\ blocks' \in [Scopes -> Causes]
    /\ pending' \subseteq p /\ pending' \subseteq Active(blocks')
    /\ \A x \in p : x \in pending' \/ rows'[x] # "NONE" \/ x \notin owed'
    /\ \A x \in Scopes : rows[x] # "NONE" /\ rows'[x] = "NONE"
          => x \in toRelease /\ rows[x] # "OTHER" /\ x \notin owed'
    /\ \A x \in Scopes : b[x] # "NONE" /\ blocks'[x] = "NONE"
          => x \in toRelease /\ rows[x] # "OTHER"
    /\ Account \in pending' => blocks'[Account] = b[Account] /\ promotion' = promo
    /\ rows'[Account] = "QUANTITY_MISMATCH" /\ rows[Account] # "QUANTITY_MISMATCH"
          => Account \in p
    /\ promotion' \in {NoPromotion, promo}
    /\ credits' \in [Symbols -> CreditStates]
    /\ \A s \in Disputed(diff) : credits'[s] # "older"
    /\ acctLatch' \subseteq Reasons /\ symLatch' \subseteq Symbols \X Reasons

(* The write-through, whichever write failed and whether or not it committed   *)
(* all the same (persist and the accounting after it in Observe).              *)
LEMMA WriteThroughFacts ==
    ASSUME TypeOK, NEW b, NEW p, NEW promo, NEW toRelease, NEW stop \in Scopes \cup {NoSymbol},
           Proposed(b, p, promo, toRelease), WriteThrough(b, p, promo, toRelease, stop)
    PROVE  /\ Written(b, p, promo, toRelease)
           /\ EndCycle
           /\ \E lifted \in SUBSET toRelease : Recorded(lifted)
  <1> DEFINE Owned(entered) == {x \in {stop} \cap p : entered # p /\ rows[x] = "OTHER"}
             After(entered, released) ==
                 [x \in Scopes |-> IF x \in released THEN "NONE"
                                   ELSE IF x \in Owned(entered) THEN "OTHER" ELSE b[x]]
             Unreported(entered, released) ==
                 [x \in Scopes |-> IF x \in Owned(entered) THEN b[x]
                                   ELSE After(entered, released)[x]]
  <1>0. PICK entered \in SUBSET p, released \in SUBSET toRelease, committed \in BOOLEAN :
          /\ Persisted(p, toRelease, entered, released, stop, committed)
          /\ rows' = RowsAfter(p, entered, released, stop, committed)
          /\ \E told \in {After(entered, released), Unreported(entered, released)} :
               /\ blocks' = told
               /\ pending' = p \ (entered \cup released
                                    \cup {x \in Owned(entered) : told[x] = "OTHER"})
               /\ promotion' = IF \/ Account \in entered
                                  \/ Account \in Owned(entered) /\ told[Account] = "OTHER"
                               THEN NoPromotion ELSE promo
               /\ credits' = CreditsAfter(released, told)
               /\ syncGate(told)
          /\ Recorded({x \in toRelease : entered = p /\ rows'[x] = "NONE"})
          /\ EndCycle
    BY DEF WriteThrough
  <1>1. PICK told \in {After(entered, released), Unreported(entered, released)} :
          /\ blocks' = told
          /\ pending' = p \ (entered \cup released
                               \cup {x \in Owned(entered) : told[x] = "OTHER"})
          /\ promotion' = IF \/ Account \in entered
                             \/ Account \in Owned(entered) /\ told[Account] = "OTHER"
                          THEN NoPromotion ELSE promo
          /\ credits' = CreditsAfter(released, told)
          /\ syncGate(told)
    BY <1>0
  <1> DEFINE lifted == {x \in toRelease : entered = p /\ rows'[x] = "NONE"}
  <1>2. /\ rows \in [Scopes -> Causes] /\ b \in [Scopes -> Causes]
        /\ p \subseteq Scopes /\ \A x \in p : b[x] # "NONE"
        /\ toRelease \subseteq Symbols /\ toRelease \subseteq Scopes /\ Account \notin toRelease
        /\ entered \subseteq p /\ released \subseteq toRelease
    BY ScopeFacts DEF Proposed, TypeOK, Active
  <1>3. told \in [Scopes -> Causes]
        /\ \A x \in Scopes : told[x] = "NONE" => x \in released \/ b[x] = "NONE"
    BY <1>2 DEF Causes
  <1>4. /\ rows' \in [Scopes -> Causes]
        /\ \A x \in Scopes : rows'[x] =
              IF x \in released \/ (entered = p /\ committed /\ x = stop) THEN "NONE"
              ELSE IF x \in entered \/ (entered # p /\ committed /\ x = stop)
                   THEN "QUANTITY_MISMATCH" ELSE rows[x]
    BY <1>0, <1>2 DEF RowsAfter, Causes
  <1>5. /\ \A x \in released : x \in entered \/ rows[x] = "QUANTITY_MISMATCH"
        /\ \A x \in entered : rows[x] \in {"NONE", "QUANTITY_MISMATCH"}
        /\ released # {} => entered = p
        /\ entered # p => stop \in p
        /\ entered = p /\ committed =>
              stop \in toRelease /\ (stop \in entered \/ rows[stop] = "QUANTITY_MISMATCH")
    BY <1>0 DEF Persisted
  <1>6. \A x \in Scopes : rows[x] # "NONE" /\ rows'[x] = "NONE"
           => x \in lifted /\ rows[x] # "OTHER"
    BY <1>2, <1>4, <1>5
  <1>7. \A x \in lifted : x \notin owed'
    BY <1>0 DEF Recorded
  <1>8. pending' \subseteq p /\ pending' \subseteq Active(blocks')
    BY <1>1, <1>2, <1>3 DEF Active
  <1>9. ASSUME NEW x \in p PROVE x \in pending' \/ rows'[x] # "NONE" \/ x \in lifted
    BY <1>1, <1>2, <1>4, <1>5
  <1>10. \A x \in Scopes : b[x] # "NONE" /\ blocks'[x] = "NONE"
            => x \in toRelease /\ rows[x] # "OTHER"
    BY <1>1, <1>2, <1>3, <1>5
  <1>11. Account \in pending' => blocks'[Account] = b[Account] /\ promotion' = promo
    BY <1>1, <1>2, ScopeFacts
  <1>12. rows'[Account] = "QUANTITY_MISMATCH" /\ rows[Account] # "QUANTITY_MISMATCH" => Account \in p
    BY <1>2, <1>4, <1>5, ScopeFacts
  <1>13. promotion' \in {NoPromotion, promo}
    BY <1>1
  <1>14. credits' \in [Symbols -> CreditStates] /\ \A s \in Disputed(diff) : credits'[s] # "older"
    BY <1>1 DEF CreditsAfter, creditUsable, CreditStates, TypeOK, Disputed
  <1>15. acctLatch' \subseteq Reasons /\ symLatch' \subseteq Symbols \X Reasons
    BY <1>1, GateType
  <1>16. Written(b, p, promo, toRelease)
    BY <1>1, <1>3, <1>4, <1>6, <1>7, <1>8, <1>9, <1>10, <1>11, <1>12, <1>13, <1>14, <1>15
    DEF Written
  <1> QED BY <1>0, <1>16

-----------------------------------------------------------------------------
(* The counters after an observation.                                          *)
LEMMA Counting ==
    ASSUME TypeOK, StreaksOK
    PROVE  /\ Advanced(runs) \in [Keys -> 0 .. MaxFailures]
           /\ advanceStreaks \in [Keys -> 0 .. MaxFailures]
           /\ \A k \in Keys : advanceStreaks[k] <= Advanced(runs)[k]
           /\ \A k \in promotionKeys(diff) :
                 runs[k] = MaxFailures => Advanced(runs)[k] = MaxFailures
           /\ NoRuns \in [Keys -> 0 .. MaxFailures]
           /\ \A k \in Keys : NoRuns[k] <= Advanced(runs)[k]
  <1> USE TrackerAssumption
  <1>1. /\ Advanced(runs) \in [Keys -> 0 .. MaxFailures]
        /\ advanceStreaks \in [Keys -> 0 .. MaxFailures]
    BY DEF TypeOK, Advanced, advanceStreaks, Least
  <1>2. \A k \in Keys : advanceStreaks[k] <= Advanced(runs)[k]
    BY DEF TypeOK, StreaksOK, Advanced, advanceStreaks, Least
  <1>3. \A k \in promotionKeys(diff) : runs[k] = MaxFailures => Advanced(runs)[k] = MaxFailures
    BY DEF TypeOK, Advanced, Least, promotionKeys
  <1>4. NoRuns \in [Keys -> 0 .. MaxFailures] /\ \A k \in Keys : NoRuns[k] <= Advanced(runs)[k]
    BY <1>1 DEF NoRuns
  <1> QED BY <1>1, <1>2, <1>3, <1>4

(* What the comparison made of the tracker before the writes.                  *)
Prepared(b, p, promo, toRelease) ==
    /\ Proposed(b, p, promo, toRelease)
    /\ \A x \in Symbols : blocks[x] # "NONE" => b[x] = blocks[x]
    /\ \A x \in Symbols : x \in pending => x \in p
    /\ \A x \in blocksFor(diff) : blocks[x] = "NONE" => x \in p
    /\ \A x \in toRelease :
          blocks[x] = "QUANTITY_MISMATCH" /\ credits[x] = "older" /\ diff[x] = "agree"
    /\ Account \in p =>
          /\ b[Account] = "QUANTITY_MISMATCH"
          /\ promo \in Keys /\ Advanced(runs)[promo] = MaxFailures
    /\ streaks' \in [Keys -> 0 .. MaxFailures]
    /\ \A k \in Keys : streaks'[k] <= Advanced(runs)[k]

(* resolvePendingPermanentAuthority touches the account's proposal only.       *)
LEMMA ResolvedFacts ==
    ASSUME TypeOK, NEW b \in [Scopes -> Causes], b[Account] = blocks[Account]
    PROVE  /\ Resolved(b) \in [Scopes -> Causes]
           /\ \A x \in Symbols : Resolved(b)[x] = b[x]
           /\ PendingAccount \subseteq {Account}
           /\ promotion # NoPromotion /\ Account \in pending \ PendingAccount
                 => Resolved(b)[Account] # "NONE"
  BY ScopeFacts DEF TypeOK, Resolved, PendingAccount, Active, Causes

(* Every observation that reaches the write-through prepared it so (Observe).  *)
LEMMA ObserveFacts ==
    ASSUME IInv, Observe
    PROVE  \E b, p, promo, toRelease, stop :
              /\ stop \in Scopes \cup {NoSymbol}
              /\ Prepared(b, p, promo, toRelease)
              /\ WriteThrough(b, p, promo, toRelease, stop)
  <1>1. TypeOK /\ StreaksOK /\ ProposalOK BY DEF IInv
  <1>2. PICK stop \in Scopes \cup {NoSymbol} : ObserveAgreeing(stop) \/ ObserveBlocking(stop)
    BY DEF Observe
  <1>3. /\ blocks \in [Scopes -> Causes] /\ pending \subseteq Scopes
        /\ \A x \in pending : blocks[x] # "NONE"
        /\ promotion \in Promotions
    BY <1>1 DEF TypeOK, Active, Promotions
  <1>4. Account \in pending => /\ promotion # NoPromotion /\ Account \in PendingAccount
                               /\ promotion \in Keys => runs[promotion] = MaxFailures
    BY <1>1 DEF ProposalOK, PendingAccount
  <1>5. CASE ObserveAgreeing(stop)
    <2> DEFINE b == Resolved(blocks)
               p == IF promotion = NoPromotion THEN pending ELSE pending \ PendingAccount
               toRelease == {s \in Symbols : /\ b[s] = "QUANTITY_MISMATCH"
                                             /\ creditUsable(s)
                                             /\ s \notin Disputed(diff)}
    <2>1. WriteThrough(b, p, NoPromotion, toRelease, stop) /\ streaks' = NoRuns /\ ~BlocksEntry(diff)
      BY <1>5 DEF ObserveAgreeing
    <2>2. /\ b \in [Scopes -> Causes] /\ \A x \in Symbols : b[x] = blocks[x]
          /\ PendingAccount \subseteq {Account}
      BY <1>1, <1>3, ResolvedFacts
    <2>3. Account \notin p
      BY <1>4
    <2>4. p \subseteq Active(b)
      BY <1>3, <2>2, <2>3, ScopeFacts DEF Active
    <2>5. blocksFor(diff) = {}
      BY <2>1 DEF BlocksEntry, blocksFor
    <2>6. Prepared(b, p, NoPromotion, toRelease)
      BY <1>1, <2>1, <2>2, <2>3, <2>4, <2>5, Counting, ScopeFacts
      DEF Prepared, Proposed, Promotions, creditUsable, Disputed
    <2> QED BY <2>1, <2>6
  <1>6. CASE ObserveBlocking(stop)
    <2> DEFINE kept == promotion = NoPromotion \/ promotion \in promotionKeys(diff)
               b0 == IF kept THEN Latched(blocks) ELSE Resolved(Latched(blocks))
               p0 == (IF kept THEN pending ELSE pending \ PendingAccount)
                        \cup {s \in blocksFor(diff) : blocks[s] = "NONE"}
               reached == {k \in Keys : advanceStreaks[k] >= MaxFailures}
    <2>1. /\ streaks' = advanceStreaks
          /\ IF reached # {} /\ b0[Account] = "NONE"
             THEN \E k \in reached :
                    WriteThrough([b0 EXCEPT ![Account] = "QUANTITY_MISMATCH"],
                                 p0 \cup {Account}, k, {}, stop)
             ELSE WriteThrough(b0, p0, IF kept THEN promotion ELSE NoPromotion, {}, stop)
      BY <1>6 DEF ObserveBlocking
    <2>2. /\ Latched(blocks) \in [Scopes -> Causes]
          /\ Latched(blocks)[Account] = blocks[Account]
          /\ \A x \in Symbols : blocks[x] # "NONE" => Latched(blocks)[x] = blocks[x]
          /\ \A x \in blocksFor(diff) : Latched(blocks)[x] # "NONE"
      BY <1>3, ScopeFacts DEF Latched, Causes, blocksFor
    <2>3. /\ b0 \in [Scopes -> Causes]
          /\ \A x \in Symbols : b0[x] = Latched(blocks)[x]
          /\ PendingAccount \subseteq {Account}
      BY <1>1, <1>3, <2>2, ResolvedFacts
    <2>4. blocksFor(diff) \subseteq Symbols
      BY DEF blocksFor
    <2>5. /\ \A x \in Symbols : x \in pending => x \in p0
          /\ \A x \in blocksFor(diff) : blocks[x] = "NONE" => x \in p0
      BY <2>3, ScopeFacts
    <2>6. Account \in p0 => kept /\ Account \in pending
      BY <1>4, <2>4, ScopeFacts
    <2>7. p0 \subseteq Active(b0)
      <3>1. p0 \subseteq Scopes BY <1>3, <2>4, ScopeFacts
      <3>2. ASSUME NEW x \in p0 PROVE b0[x] # "NONE"
        <4>1. CASE x = Account
          BY <1>3, <2>2, <2>6, <4>1
        <4>2. CASE x # Account
          BY <1>3, <2>2, <2>3, <3>1, <4>2, ScopeFacts
        <4> QED BY <4>1, <4>2
      <3> QED BY <3>1, <3>2 DEF Active
    <2>8. CASE reached # {} /\ b0[Account] = "NONE"
      <3> DEFINE b == [b0 EXCEPT ![Account] = "QUANTITY_MISMATCH"]
                 p == p0 \cup {Account}
      <3>1. PICK k \in reached : WriteThrough(b, p, k, {}, stop)
        BY <2>1, <2>8
      <3>2. k \in Keys /\ Advanced(runs)[k] = MaxFailures
        BY <1>1, Counting, TrackerAssumption
      <3>3. /\ b \in [Scopes -> Causes] /\ b[Account] = "QUANTITY_MISMATCH"
            /\ \A x \in Symbols : b[x] = b0[x]
        BY <2>3, ScopeFacts DEF Causes
      <3>4. p \subseteq Active(b)
        BY <2>7, <3>3, ScopeFacts DEF Active
      <3>5. Prepared(b, p, k, {})
        BY <1>1, <2>1, <2>2, <2>3, <2>5, <3>2, <3>3, <3>4, Counting
        DEF Prepared, Proposed, Promotions
      <3> QED BY <3>1, <3>5
    <2>9. CASE ~(reached # {} /\ b0[Account] = "NONE")
      <3> DEFINE promo == IF kept THEN promotion ELSE NoPromotion
      <3>1. WriteThrough(b0, p0, promo, {}, stop)
        BY <2>1, <2>9
      <3>2. Account \in p0 => /\ b0[Account] = "QUANTITY_MISMATCH"
                              /\ promo \in Keys /\ Advanced(runs)[promo] = MaxFailures
        <4> SUFFICES ASSUME Account \in p0
                     PROVE  /\ b0[Account] = "QUANTITY_MISMATCH"
                            /\ promo \in Keys /\ Advanced(runs)[promo] = MaxFailures
          OBVIOUS
        <4>1. kept /\ Account \in pending BY <2>6
        <4>2. blocks[Account] = "QUANTITY_MISMATCH" BY <1>1, <4>1 DEF ProposalOK
        <4>3. promotion \in promotionKeys(diff) /\ promotion \in Keys
          BY <1>4, <4>1 DEF promotionKeys
        <4> QED BY <1>1, <1>4, <2>2, <4>1, <4>2, <4>3, Counting
      <3>3. promo \in Promotions BY <1>3 DEF Promotions
      <3>4. Prepared(b0, p0, promo, {})
        BY <1>1, <2>1, <2>2, <2>3, <2>5, <2>7, <3>2, <3>3, Counting DEF Prepared, Proposed
      <3> QED BY <3>1, <3>4
    <2> QED BY <2>8, <2>9
  <1> QED BY <1>2, <1>5, <1>6

-----------------------------------------------------------------------------
(* The initial states, and what a restart comes back to.                       *)
LEMMA InitIInv == Init => IInv
  <1> SUFFICES ASSUME Init PROVE IInv OBVIOUS
  <1> USE TrackerAssumption DEF Init
  <1>1. /\ NoRows \in [Scopes -> Causes] /\ NoDiff \in [Symbols -> Kinds]
        /\ NoRuns \in [Keys -> 0 .. MaxFailures] /\ NoCredits \in [Symbols -> CreditStates]
    BY DEF NoRows, Causes, NoDiff, NoRuns, NoCredits, CreditStates
  <1>2. TypeOK BY <1>1 DEF TypeOK, CreditStates
  <1>3. StreaksOK BY DEF StreaksOK, NoRuns
  <1> QED BY <1>2, <1>3 DEF IInv, OwedOK, ProjectionOK, ProposalOK, EntryHonoursBlocks

(* An observation: what it disputes is owed and written or to be written, and  *)
(* what it releases was earned.                                                *)
LEMMA ObserveStep == ASSUME IInv, Observe PROVE IInv'
  <1>1. TypeOK /\ OwedOK /\ ProjectionOK /\ refuted = {} BY DEF IInv
  <1>2. PICK b, p, promo, toRelease, stop :
           /\ stop \in Scopes \cup {NoSymbol}
           /\ Prepared(b, p, promo, toRelease)
           /\ WriteThrough(b, p, promo, toRelease, stop)
    BY ObserveFacts
  <1>3. Proposed(b, p, promo, toRelease) BY <1>2 DEF Prepared
  <1>4. /\ Written(b, p, promo, toRelease) /\ EndCycle
        /\ \E lifted \in SUBSET toRelease : Recorded(lifted)
    BY <1>1, <1>2, <1>3, WriteThroughFacts
  <1>5. PICK lifted \in SUBSET toRelease : Recorded(lifted) BY <1>4
  <1>6. cycle = "observe"
    BY DEF Observe, ObserveAgreeing, ObserveBlocking
  <1>7. blocksFor(diff) \subseteq Symbols /\ blocksFor(diff) \subseteq Disputed(diff)
    BY DEF blocksFor, Disputed, Blocking, Quantity
  <1>8. refuted' = {}
    BY <1>1, <1>4, <1>5, <1>7 DEF Recorded, Written
  <1>9. /\ runs' = Advanced(runs) /\ runs' \in [Keys -> 0 .. MaxFailures]
        /\ streaks' \in [Keys -> 0 .. MaxFailures]
    BY <1>1, <1>2, <1>5, Counting DEF IInv, Recorded, Prepared
  <1>10. /\ owed' \subseteq Scopes
    BY <1>1, <1>5, <1>7, ScopeFacts DEF Recorded, TypeOK, Disputed
  <1>11. NoDiff \in [Symbols -> Kinds]
    BY TrackerAssumption DEF NoDiff
  <1>12. promotion' \in {NoPromotion, Broken} \cup Keys
    BY <1>3, <1>4 DEF Written, Proposed, Promotions
  <1>13. TypeOK'
    BY <1>1, <1>4, <1>8, <1>9, <1>10, <1>11, <1>12
    DEF TypeOK, Written, EndCycle, CreditStates, Active
  <1>14. OwedOK'
    <2> SUFFICES ASSUME NEW x \in owed'
                 PROVE  rows'[x] # "NONE" \/ (x \in pending' /\ x # Account)
      BY DEF OwedOK
    <2>1. x \in Scopes BY <1>10
    <2>2. CASE rows[x] # "NONE" BY <1>4, <2>1, <2>2 DEF Written
    <2>3. CASE rows[x] = "NONE"
      <3>1. x \in p /\ x # Account
        <4>1. CASE x \in owed
          BY <1>1, <1>2, <2>1, <2>3, <4>1, ScopeFacts DEF OwedOK, Prepared
        <4>2. CASE x \notin owed
          <5>1. x \in blocksFor(diff) /\ ~resolving
            BY <1>5, <4>2 DEF Recorded
          <5>2. blocks[x] = "NONE" \/ x \in pending
            BY <1>1, <1>6, <2>1, <2>3, <5>1 DEF ProjectionOK
          <5> QED BY <1>2, <1>7, <5>1, <5>2, ScopeFacts DEF Prepared
        <4> QED BY <4>1, <4>2
      <3> QED BY <1>4, <3>1 DEF Written
    <2> QED BY <2>2, <2>3
  <1>15. ProposalOK'
    BY <1>2, <1>4, <1>9, PromotionValues DEF ProposalOK, Written, Prepared
  <1>16. StreaksOK'
    BY <1>2, <1>9 DEF StreaksOK, Prepared
  <1>17. ProjectionOK' /\ EntryHonoursBlocks'
    BY <1>4 DEF ProjectionOK, EntryHonoursBlocks, EndCycle
  <1> QED BY <1>8, <1>13, <1>14, <1>15, <1>16, <1>17 DEF IInv

(* An observation that could not ask the journal latches and writes nothing.   *)
LEMMA UnreadStep == ASSUME IInv, ObserveUnread PROVE IInv'
  <1>1. TypeOK /\ OwedOK /\ ProjectionOK /\ ProposalOK /\ StreaksOK /\ refuted = {} BY DEF IInv
  <1>2. /\ cycle = "observe" /\ promotion' = Broken /\ rows' = rows
        /\ syncGate(blocks') /\ Recorded({}) /\ EndCycle
    BY DEF ObserveUnread
  <1>3. blocksFor(diff) \subseteq Symbols /\ blocksFor(diff) \subseteq Disputed(diff)
    BY DEF blocksFor, Disputed, Blocking, Quantity
  <1>4. /\ blocks' \in [Scopes -> Causes] /\ blocks'[Account] = blocks[Account]
        /\ pending \subseteq pending'
        /\ pending' \subseteq Active(blocks')
        /\ \A x \in blocksFor(diff) : blocks[x] = "NONE" => x \in pending'
        /\ Account \in pending' => Account \in pending
        /\ credits' \in [Symbols -> CreditStates]
        /\ \A s \in blocksFor(diff) : credits'[s] # "older"
        /\ streaks' \in [Keys -> 0 .. MaxFailures]
        /\ \A k \in Keys : streaks'[k] <= Advanced(runs)[k]
    <2>1. CASE BlocksEntry(diff)
      <3>1. /\ streaks' = advanceStreaks /\ credits' = RefutedCredits
            /\ blocks' = Latched(blocks)
            /\ pending' = pending \cup {s \in blocksFor(diff) : blocks[s] = "NONE"}
        BY <2>1 DEF ObserveUnread
      <3>2. /\ blocks' \in [Scopes -> Causes] /\ blocks'[Account] = blocks[Account]
            /\ \A x \in Scopes : blocks[x] # "NONE" => blocks'[x] = blocks[x]
            /\ \A x \in blocksFor(diff) : blocks'[x] # "NONE"
        BY <1>1, <1>3, <3>1, ScopeFacts DEF TypeOK, Latched, Causes
      <3>3. pending' \subseteq Active(blocks')
        BY <1>1, <1>3, <3>1, <3>2, ScopeFacts DEF TypeOK, Active
      <3>4. /\ credits' \in [Symbols -> CreditStates]
            /\ \A s \in blocksFor(diff) : credits'[s] # "older"
        BY <1>1, <1>3, <3>1 DEF TypeOK, RefutedCredits, CreditStates, creditUsable
      <3> QED BY <1>1, <1>3, <3>1, <3>2, <3>3, <3>4, ScopeFacts, Counting
    <2>2. CASE ~BlocksEntry(diff)
      <3>1. /\ streaks' = NoRuns /\ UNCHANGED <<credits, blocks, pending>>
        BY <2>2 DEF ObserveUnread
      <3>2. blocksFor(diff) = {} BY <2>2 DEF BlocksEntry, blocksFor
      <3> QED BY <1>1, <3>1, <3>2, Counting DEF TypeOK, CreditStates
    <2> QED BY <2>1, <2>2
  <1>5. refuted' = {}
    BY <1>1, <1>2, <1>4 DEF Recorded
  <1>6. runs' = Advanced(runs) /\ runs' \in [Keys -> 0 .. MaxFailures]
    BY <1>1, <1>2, Counting DEF Recorded
  <1>7. owed' \subseteq Scopes
    BY <1>1, <1>2, <1>3, ScopeFacts DEF Recorded, TypeOK, Disputed
  <1>8. NoDiff \in [Symbols -> Kinds]
    BY TrackerAssumption DEF NoDiff
  <1>9. acctLatch' \subseteq Reasons /\ symLatch' \subseteq Symbols \X Reasons
    BY <1>2, GateType
  <1>10. TypeOK'
    BY <1>1, <1>2, <1>4, <1>5, <1>6, <1>7, <1>8, <1>9 DEF TypeOK, EndCycle, CreditStates, Active
  <1>11. OwedOK'
    <2> SUFFICES ASSUME NEW x \in owed', rows[x] = "NONE"
                 PROVE  x \in pending' /\ x # Account
      BY <1>2 DEF OwedOK
    <2>1. CASE x \in owed BY <1>1, <1>4, <2>1 DEF OwedOK
    <2>2. CASE x \notin owed
      <3>1. x \in blocksFor(diff) /\ ~resolving BY <1>2, <2>2 DEF Recorded
      <3> QED BY <1>1, <1>2, <1>3, <1>4, <3>1, ScopeFacts DEF ProjectionOK
    <2> QED BY <2>1, <2>2
  <1>12. ProposalOK'
    BY <1>1, <1>2, <1>4, PromotionValues DEF ProposalOK
  <1>13. StreaksOK' BY <1>4, <1>6 DEF StreaksOK
  <1>14. ProjectionOK' /\ EntryHonoursBlocks'
    BY <1>2 DEF ProjectionOK, EntryHonoursBlocks, EndCycle
  <1> QED BY <1>5, <1>10, <1>11, <1>12, <1>13, <1>14 DEF IInv

(* A refresh, by the cycle or by an entry check: what is owed stays latched,   *)
(* so an entry it admits is owed nothing.                                      *)
LEMMA RefreshStep ==
    ASSUME IInv, RefreshCycle \/ \E s \in Symbols : CheckEntryFor(s)
    PROVE  IInv'
  <1>1. TypeOK /\ OwedOK /\ ProposalOK /\ StreaksOK /\ refuted = {} BY DEF IInv
  <1>2. /\ Refresh /\ UNCHANGED <<rows, recovering, diff, resolving, history>>
        /\ admitted' \in Symbols \cup {NoSymbol}
        /\ cycle' \in {"observe", cycle}
    BY DEF RefreshCycle, CheckEntryFor
  <1>3. TypeOK'
    BY <1>1, <1>2, RefreshFacts DEF TypeOK, Active
  <1>4. OwedOK'
    BY <1>1, <1>2, RefreshFacts DEF OwedOK
  <1>5. ProjectionOK'
    BY <1>1, <1>2, RefreshFacts DEF ProjectionOK
  <1>6. ProposalOK'
    BY <1>1, <1>2, RefreshFacts DEF ProposalOK
  <1>7. StreaksOK'
    BY <1>1, <1>2, RefreshFacts, TrackerAssumption DEF StreaksOK, TypeOK
  <1>8. EntryHonoursBlocks'
    <2>1. CASE RefreshCycle BY <2>1 DEF RefreshCycle, EntryHonoursBlocks
    <2>2. ASSUME NEW s \in Symbols, CheckEntryFor(s) PROVE EntryHonoursBlocks'
      <3> SUFFICES ASSUME admitted' # NoSymbol PROVE owed \cap {admitted', Account} = {}
        BY <1>2 DEF EntryHonoursBlocks
      <3>1. /\ admitted' = s /\ acctLatch' = {}
            /\ \A r \in Reasons : <<s, r>> \notin symLatch'
        BY <2>2 DEF CheckEntryFor
      <3>2. syncGate(blocks') BY <1>2 DEF Refresh
      <3>3. blocks'[Account] = "NONE"
        BY <3>1, <3>2, ScopeFacts DEF syncGate, Active
      <3>4. blocks'[s] = "NONE"
        BY <3>1, <3>2, ScopeFacts DEF syncGate, Active, ReasonOf, Reasons
      <3>5. \A x \in owed : x \in Scopes /\ blocks'[x] # "NONE"
        BY <1>1, <1>2, RefreshFacts DEF OwedOK, TypeOK, Active
      <3> QED BY <3>1, <3>3, <3>4, <3>5
    <2> QED BY <2>1, <2>2
  <1> QED BY <1>1, <1>2, <1>3, <1>4, <1>5, <1>6, <1>7, <1>8 DEF IInv

(* The steps around the observation: other producers, the operator, a restart. *)
LEMMA OtherStep ==
    ASSUME IInv,
           \/ \E d \in [Symbols -> Kinds], adjusted \in SUBSET Symbols : Compare(d, adjusted)
           \/ RefreshFails
           \/ \E x \in Scopes, cause \in Causes \ {"NONE"} : EnterReconcile(x, cause)
           \/ ResolveRows \/ ResolveMemory \/ Restart
           \/ \E blocking \in BOOLEAN : FinishRecovery(blocking)
    PROVE  IInv'
  <1>1. TypeOK /\ OwedOK /\ ProjectionOK /\ ProposalOK /\ StreaksOK /\ refuted = {} BY DEF IInv
  <1>2. /\ NoRows \in [Scopes -> Causes] /\ NoDiff \in [Symbols -> Kinds]
        /\ NoRuns \in [Keys -> 0 .. MaxFailures]
        /\ NoCredits \in [Symbols -> {"none", "fresh", "older"}]
        /\ \A x \in Scopes : NoRows[x] = "NONE"
        /\ \A k \in Keys : NoRuns[k] = 0
    BY TrackerAssumption DEF NoRows, Causes, NoDiff, NoRuns, NoCredits
  <1> USE DEF IInv, EntryHonoursBlocks
  <1>3. ASSUME NEW d \in [Symbols -> Kinds], NEW adjusted \in SUBSET Symbols, Compare(d, adjusted)
        PROVE  IInv'
    <2>1. TypeOK' BY <1>1, <1>3 DEF Compare, TypeOK, Active
    <2> QED BY <1>1, <1>3, <2>1 DEF Compare, OwedOK, ProjectionOK, ProposalOK, StreaksOK
  <1>4. CASE RefreshFails
    <2>1. TypeOK' BY <1>1, <1>2, <1>4 DEF RefreshFails, TypeOK, Active
    <2> QED BY <1>1, <1>4, <2>1 DEF RefreshFails, OwedOK, ProjectionOK, ProposalOK, StreaksOK
  <1>5. ASSUME NEW x \in Scopes, NEW cause \in Causes \ {"NONE"}, EnterReconcile(x, cause)
        PROVE  IInv'
    <2>1. TypeOK' BY <1>1, <1>5 DEF EnterReconcile, TypeOK, Active
    <2>2. rows' = [rows EXCEPT ![x] = cause] /\ cause # "NONE" /\ owed' = owed \cup {x}
      BY <1>5 DEF EnterReconcile
    <2>3. \A y \in Scopes : rows[y] # "NONE" => rows'[y] # "NONE"
      BY <1>1, <2>2 DEF TypeOK
    <2>4. OwedOK' BY <1>1, <1>5, <2>2, <2>3 DEF EnterReconcile, OwedOK, TypeOK
    <2>5. ProjectionOK' BY <1>1, <1>5, <2>3 DEF EnterReconcile, ProjectionOK
    <2> QED BY <1>1, <1>5, <2>1, <2>4, <2>5 DEF EnterReconcile, ProposalOK, StreaksOK
  <1>6. CASE ResolveRows
    <2>1. TypeOK' BY <1>1, <1>6 DEF ResolveRows, TypeOK, Active, Causes
    <2>2. OwedOK' BY <1>1, <1>6 DEF ResolveRows, OwedOK, TypeOK, Active
    <2> QED BY <1>1, <1>6, <2>1, <2>2 DEF ResolveRows, ProjectionOK, ProposalOK, StreaksOK
  <1>7. CASE ResolveMemory
    <2>1. acctLatch' \subseteq Reasons /\ symLatch' \subseteq Symbols \X Reasons
      BY <1>7, GateType DEF ResolveMemory
    <2>2. TypeOK' BY <1>1, <1>2, <1>7, <2>1 DEF ResolveMemory, TypeOK, Active
    <2>3. OwedOK' BY <1>1, <1>7 DEF ResolveMemory, OwedOK, Active
    <2>4. StreaksOK' BY <1>1, <1>2, <1>7, TrackerAssumption DEF ResolveMemory, StreaksOK, TypeOK
    <2> QED BY <1>1, <1>2, <1>7, <2>2, <2>3, <2>4 DEF ResolveMemory, ProjectionOK, ProposalOK
  <1>8. CASE Restart
    <2>1. acctLatch' \subseteq Reasons /\ symLatch' \subseteq Symbols \X Reasons
      BY <1>8, GateType DEF Restart
    <2>2. TypeOK' BY <1>1, <1>2, <1>8, <2>1 DEF Restart, TypeOK, Active
    <2>3. OwedOK' BY <1>1, <1>8 DEF Restart, OwedOK, Active
    <2>4. StreaksOK' BY <1>2, <1>8 DEF Restart, StreaksOK
    <2> QED BY <1>1, <1>8, <2>2, <2>3, <2>4 DEF Restart, ProjectionOK, ProposalOK
  <1>9. ASSUME NEW blocking \in BOOLEAN, FinishRecovery(blocking) PROVE IInv'
    <2>1. acctLatch' \subseteq Reasons BY <1>1, <1>9 DEF FinishRecovery, TypeOK, Reasons
    <2>2. TypeOK' BY <1>1, <1>9, <2>1 DEF FinishRecovery, TypeOK, Active
    <2> QED BY <1>1, <1>9, <2>2 DEF FinishRecovery, OwedOK, ProjectionOK, ProposalOK, StreaksOK
  <1> QED BY <1>3, <1>4, <1>5, <1>6, <1>7, <1>8, <1>9

(* Every step of the tracker and of those around it keeps the invariant.       *)
LEMMA NextIInv == IInv /\ [Next]_vars => IInv'
  <1> SUFFICES ASSUME IInv, [Next]_vars PROVE IInv' OBVIOUS
  <1>1. CASE UNCHANGED vars
    BY <1>1
    DEF vars, IInv, TypeOK, Active, OwedOK, ProjectionOK, ProposalOK, StreaksOK,
        EntryHonoursBlocks
  <1> QED BY <1>1, ObserveStep, UnreadStep, RefreshStep, OtherStep DEF Next

-----------------------------------------------------------------------------
(* The rows, the tracker's memory and the gate agree on what is owed in every  *)
(* reachable state (Observe, Refresh, persist, Restore).                       *)
THEOREM TrackerInvariant == Spec => []IInv
  BY InitIInv, NextIInv, PTL DEF Spec

(* No entry is admitted past a dispute or a row that is still open             *)
(* (CheckEntryFor), whatever writes fail and whoever restarts.                 *)
THEOREM EntriesHonourBlocks == Spec => []EntryHonoursBlocks
  <1>1. IInv => EntryHonoursBlocks BY DEF IInv
  <1> QED BY <1>1, TrackerInvariant, PTL

(* An observation closes nothing that an earlier, uncontradicted adjustment    *)
(* did not earn (releasable blocks and credits in Observe).                    *)
THEOREM ReleasesAreEarned == Spec => ReleaseEarned
  <1>1. ASSUME IInv, Observe, NEW x \in Scopes, Closes(x)
        PROVE  /\ x # Account /\ rows[x] # "OTHER" /\ blocks[x] = "QUANTITY_MISMATCH"
               /\ credits[x] = "older" /\ diff[x] = "agree" /\ x \notin refuted
    <2>1. TypeOK /\ refuted = {} BY <1>1 DEF IInv
    <2>2. PICK b, p, promo, toRelease, stop :
             /\ stop \in Scopes \cup {NoSymbol}
             /\ Prepared(b, p, promo, toRelease)
             /\ WriteThrough(b, p, promo, toRelease, stop)
      BY <1>1, ObserveFacts
    <2>3. Proposed(b, p, promo, toRelease) BY <2>2 DEF Prepared
    <2>4. Written(b, p, promo, toRelease) BY <2>1, <2>2, <2>3, WriteThroughFacts
    <2>5. x \in toRelease /\ rows[x] # "OTHER"
      <3>1. CASE rows[x] # "NONE" /\ rows'[x] = "NONE" BY <2>4, <3>1 DEF Written
      <3>2. CASE x # Account /\ blocks[x] # "NONE" /\ blocks'[x] = "NONE"
        BY <2>2, <2>4, <3>2, ScopeFacts DEF Written, Prepared
      <3> QED BY <1>1, <3>1, <3>2 DEF Closes
    <2> QED BY <2>1, <2>2, <2>3, <2>5, ScopeFacts DEF Prepared, Proposed
  <1> DEFINE Earned == Observe => \A x \in Scopes : Closes(x) =>
                 /\ x # Account /\ rows[x] # "OTHER" /\ blocks[x] = "QUANTITY_MISMATCH"
                 /\ credits[x] = "older" /\ diff[x] = "agree" /\ x \notin refuted
  <1>2. IInv /\ [Next]_vars => [Earned]_vars BY <1>1
  <1> QED BY <1>2, TrackerInvariant, PTL DEF Spec, ReleaseEarned

(* The account-wide block becomes durable only after one dispute stood in      *)
(* MaxFailures observations in a row (advanceStreaks, the promotion in         *)
(* Observe and its retries).                                                   *)
THEOREM PromotionsAreEarned == Spec => PromotionEarned
  <1> DEFINE Earned == DurablePermanent' /\ ~DurablePermanent => \E k \in Keys : runs'[k] = MaxFailures
  <1>1. ASSUME IInv, Observe, DurablePermanent', ~DurablePermanent
        PROVE  \E k \in Keys : runs'[k] = MaxFailures
    <2>1. TypeOK BY <1>1 DEF IInv
    <2>2. PICK b, p, promo, toRelease, stop :
             /\ stop \in Scopes \cup {NoSymbol}
             /\ Prepared(b, p, promo, toRelease)
             /\ WriteThrough(b, p, promo, toRelease, stop)
      BY <1>1, ObserveFacts
    <2>3. Proposed(b, p, promo, toRelease) BY <2>2 DEF Prepared
    <2>4. Written(b, p, promo, toRelease) /\ \E lifted \in SUBSET toRelease : Recorded(lifted)
      BY <2>1, <2>2, <2>3, WriteThroughFacts
    <2>5. Account \in p BY <1>1, <2>4 DEF Written, DurablePermanent
    <2>6. runs' = Advanced(runs) BY <2>4 DEF Recorded
    <2> QED BY <2>2, <2>5, <2>6 DEF Prepared
  <1>2. ASSUME IInv, [Next]_vars, ~Observe PROVE ~(DurablePermanent' /\ ~DurablePermanent)
    <2>1. TypeOK BY <1>2 DEF IInv
    <2>2. CASE rows' = rows BY <2>2 DEF DurablePermanent
    <2>3. ASSUME NEW x \in Scopes, NEW cause \in Causes \ {"NONE"}, EnterReconcile(x, cause)
          PROVE  ~(DurablePermanent' /\ ~DurablePermanent)
      BY <2>1, <2>3, ScopeFacts DEF EnterReconcile, DurablePermanent, TypeOK
    <2>4. CASE ResolveRows
      BY <2>1, <2>4, ScopeFacts DEF ResolveRows, DurablePermanent, TypeOK
    <2> QED
      BY <1>2, <2>2, <2>3, <2>4
      DEF Next, vars, Compare, RefreshCycle, RefreshFails, ObserveUnread, CheckEntryFor,
          ResolveMemory, Restart, FinishRecovery
  <1>3. IInv /\ [Next]_vars => [Earned]_vars BY <1>1, <1>2
  <1> QED BY <1>3, TrackerInvariant, PTL DEF Spec, PromotionEarned

-----------------------------------------------------------------------------
(* The in-doubt resolver (internal/execgw/resolver.go): both verdicts of a     *)
(* resolution are right.                                                       *)

USE DEF brokerVars, loopVars

Observing == Points \ {"idle", "sleep"}

(* The request and the orders it is about move together.                      *)
BrokerOK ==
    /\ request = "wire" => now < Transit
    /\ kind = "PLACE" => target = "none" /\ request # "taken"
    /\ kind # "PLACE" => target # "none"
    /\ child # "none" => request = "done" /\ kind # "CANCEL"
    /\ kind = "PLACE" /\ request = "done" => child # "none"
    /\ kind = "PLACE" /\ child # "none" => childAt < Transit
    /\ request = "taken" => target = "PENDING"
    /\ kind # "PLACE" /\ request = "done" => target \in {"CANCELLED", "REPLACED"}

(* An observation is recent, and each step belongs to its procedure.          *)
LoopOK ==
    /\ rpc \in Observing => obsAt <= now /\ now <= obsAt + ScanTime
    /\ rpc \in {"judge", "scanOpen"} => kind # "PLACE"
    /\ rpc = "scanClosed" => kind # "CANCEL"
    /\ rpc = "corroborate" => kind = "PLACE"

(* What has been read is still true where a verdict rests on it.              *)
EvidenceOK ==
    /\ rpc = "judge" /\ view = "OPEN" /\ Transit <= obsAt => request = "dead"
    /\ rpc = "judge" /\ view \in {"FILLED", "REJECTED", "CANCELLED"} => target = view
    /\ rpc = "scanOpen" => view \in {"CANCELLED", "REPLACED"} /\ kind = "AMEND"
    /\ rpc = "scanClosed" /\ seen => child # "none"
    /\ rpc = "scanClosed" /\ kind = "PLACE" /\ Transit + Lag <= obsAt /\ child # "none"
          => seen \/ child \in InClosedList
    /\ rpc = "corroborate" => request = "dead"

ResolverIInv ==
    /\ ResolverTypeOK /\ BrokerOK /\ LoopOK /\ EvidenceOK
    /\ AbsenceIsSound /\ PresenceIsReal

-----------------------------------------------------------------------------
(* A verdict's from-set holds IN_DOUBT, so a row moves to the verdict or       *)
(* stays (Attempt.transition).                                                *)
LEMMA Verdicts ==
    ASSUME ResolverTypeOK
    PROVE  /\ ResolveConfirmed => row' \in {row, "CONFIRMED"}
           /\ ResolveFailed => row' \in {row, "FAILED_CONFIRMED"}
           /\ Park => row' \in {row, "UNRESOLVED_IN_DOUBT"}
           /\ WaitOrExpire => row' \in {row, "UNRESOLVED_IN_DOUBT"}
           /\ ResolveConfirmed \/ ResolveFailed \/ Park =>
                 rpc' = "idle" /\ wakeAt' \in Nat
           /\ WaitOrExpire => rpc' \in {"idle", "sleep"} /\ wakeAt' \in Nat
  <1> USE ConfigAssumption DEF ResolverTypeOK
  <1>1. PollInterval \in Nat /\ now + PollInterval \in Nat
    OBVIOUS
  <1>2. /\ ResolveConfirmed => row' \in {row, "CONFIRMED"} /\ rpc' = "idle" /\ wakeAt' = wakeAt
        /\ ResolveFailed => row' \in {row, "FAILED_CONFIRMED"} /\ rpc' = "idle" /\ wakeAt' = wakeAt
        /\ Park => row' \in {row, "UNRESOLVED_IN_DOUBT"} /\ rpc' = "idle" /\ wakeAt' = wakeAt
    BY DEF ResolveConfirmed, ResolveFailed, Park, Settle
  <1>3. WaitOrExpire => \/ Park
                        \/ rpc' = "sleep" /\ wakeAt' = now + PollInterval /\ row' = row
    BY DEF WaitOrExpire
  <1> QED BY <1>1, <1>2, <1>3

(* What is left to show once a resolver step leaves the broker alone and ends  *)
(* the observation without a verdict.                                         *)
LEMMA Rests ==
    ASSUME ResolverIInv, UNCHANGED <<now, kind, brokerVars>>,
           rpc' \in {"idle", "sleep"}, row' \in {row, "UNRESOLVED_IN_DOUBT"}
    PROVE  BrokerOK' /\ LoopOK' /\ EvidenceOK' /\ AbsenceIsSound' /\ PresenceIsReal'
  BY DEF ResolverIInv, BrokerOK, LoopOK, EvidenceOK, AbsenceIsSound, PresenceIsReal,
         Observing, Points

(* The initial states satisfy the invariant (Resolve on a dispatched attempt). *)
LEMMA ResolverIInvInit == ResolverInit => ResolverIInv
  <1> SUFFICES ASSUME ResolverInit PROVE ResolverIInv OBVIOUS
  <1>1. ResolverTypeOK
    BY ConfigAssumption DEF ResolverInit, ResolverTypeOK, Points, TargetStates, ChildStates
  <1>2. BrokerOK
    BY BrokerAssumption DEF ResolverInit, BrokerOK
  <1>3. LoopOK /\ EvidenceOK /\ AbsenceIsSound /\ PresenceIsReal
    BY DEF ResolverInit, LoopOK, EvidenceOK, AbsenceIsSound, PresenceIsReal, Observing
  <1> QED BY <1>1, <1>2, <1>3 DEF ResolverIInv

(* Every step keeps the variables well typed.                                  *)
LEMMA ResolverTypeStep == ASSUME ResolverTypeOK, [ResolverNext]_resolverVars PROVE ResolverTypeOK'
  <1> USE ConfigAssumption, BrokerAssumption DEF ResolverTypeOK, Points
  <1>1. CASE Tick
    BY <1>1 DEF Tick
  <1>2. CASE BrokerStep
    <2> USE DEF ResolverUnchanged, TargetStates, ChildStates, InOpenList
    <2>1. CASE RequestArrives BY <2>1 DEF RequestArrives
    <2>2. CASE RequestDies BY <2>2 DEF RequestDies
    <2>3. CASE RequestCompletes BY <2>3 DEF RequestCompletes
    <2>4. CASE TargetEnds BY <2>4 DEF TargetEnds
    <2>5. CASE ChildFills BY <2>5 DEF ChildFills
    <2> QED BY <1>2, <2>1, <2>2, <2>3, <2>4, <2>5 DEF BrokerStep
  <1>3. CASE Begin
    BY <1>3 DEF Begin
  <1>4. CASE ResolverStep
    <2>1. CASE Wake BY <2>1 DEF Wake
    <2>2. CASE ObservationFails BY <2>2, Verdicts DEF ObservationFails
    <2>3. CASE ReadTarget BY <2>3 DEF ReadTarget
    <2>4. CASE JudgeTarget
      <3>1. count' \in Nat BY <2>4 DEF JudgeTarget
      <3>2. /\ row' \in {row, "CONFIRMED", "FAILED_CONFIRMED", "UNRESOLVED_IN_DOUBT"}
            /\ rpc' \in {"idle", "sleep", "scanOpen"}
            /\ wakeAt' \in Nat
        BY <2>4, Verdicts DEF JudgeTarget
      <3> QED BY <2>4, <3>1, <3>2 DEF JudgeTarget
    <2>5. CASE ScanOpen
      <3>1. seen' \in BOOLEAN
        BY <2>5 DEF ScanOpen, Listed
      <3> QED BY <2>5, <3>1 DEF ScanOpen
    <2>6. CASE ScanClosed
      <3>1. count' \in Nat /\ firstAbsentAt' \in Nat
        BY <2>6 DEF ScanClosed
      <3>2. /\ row' \in {row, "CONFIRMED", "UNRESOLVED_IN_DOUBT"}
            /\ rpc' \in {"idle", "sleep", "corroborate"}
            /\ wakeAt' \in Nat
        BY <2>6, Verdicts DEF ScanClosed
      <3> QED BY <2>6, <3>1, <3>2 DEF ScanClosed
    <2>7. CASE Corroborate BY <2>7, Verdicts DEF Corroborate
    <2> QED BY <1>4, <2>1, <2>2, <2>3, <2>4, <2>5, <2>6, <2>7 DEF ResolverStep
  <1>5. CASE Crash
    BY <1>5 DEF Crash
  <1>6. CASE UNCHANGED resolverVars
    BY <1>6 DEF resolverVars
  <1> QED BY <1>1, <1>2, <1>3, <1>4, <1>5, <1>6 DEF ResolverNext

(* The clock: a request that still travels does so for less than Transit, and *)
(* an observation in progress stays within ScanTime.                          *)
LEMMA TickStep == ASSUME ResolverIInv, Tick PROVE ResolverIInv'
  <1>1. ResolverTypeOK' BY ResolverTypeStep DEF ResolverIInv, ResolverNext
  <1> QED
    BY <1>1, BrokerAssumption
    DEF Tick, ResolverIInv, ResolverTypeOK, BrokerOK, LoopOK, EvidenceOK, AbsenceIsSound, PresenceIsReal,
        Observing

(* The broker: it never revives a dead request, undoes one that took effect,   *)
(* or lets an order that is over move again.                                  *)
LEMMA BrokerStepOK == ASSUME ResolverIInv, BrokerStep PROVE ResolverIInv'
  <1>1. ResolverTypeOK' BY ResolverTypeStep DEF ResolverIInv, ResolverNext
  <1> USE BrokerAssumption
      DEF ResolverIInv, ResolverTypeOK, BrokerOK, LoopOK, EvidenceOK, AbsenceIsSound, PresenceIsReal,
          Observing, Points, ResolverUnchanged, InOpenList, InClosedList, ChildStates
  <1>2. CASE RequestArrives BY <1>1, <1>2 DEF RequestArrives
  <1>3. CASE RequestDies BY <1>1, <1>3 DEF RequestDies
  <1>4. CASE RequestCompletes BY <1>1, <1>4 DEF RequestCompletes
  <1>5. CASE TargetEnds BY <1>1, <1>5 DEF TargetEnds
  <1>6. CASE ChildFills BY <1>1, <1>6 DEF ChildFills
  <1> QED BY <1>2, <1>3, <1>4, <1>5, <1>6 DEF BrokerStep

(* A verdict that needs the whole window is given on an observation that began *)
(* when every request had arrived or died and every order was in the lists.   *)
LEMMA LateEnough ==
    ASSUME ResolverIInv, rpc \in Observing, LongEnough
    PROVE  Transit + Lag <= obsAt /\ Transit <= obsAt
  BY ConfigAssumption, BrokerAssumption DEF ResolverIInv, ResolverTypeOK, LoopOK, LongEnough

(* The verdict on a cancel's or an amend's target.                             *)
LEMMA JudgeStep == ASSUME ResolverIInv, JudgeTarget PROVE ResolverIInv'
  <1>1. ResolverTypeOK' BY ResolverTypeStep DEF ResolverIInv, ResolverNext, ResolverStep
  <1>2. rpc = "judge" /\ rpc \in Observing /\ UNCHANGED <<now, kind, brokerVars, obsAt, view, seen>>
    BY DEF JudgeTarget, Observing, Points
  <1>3. ResolverTypeOK /\ BrokerOK /\ LoopOK /\ EvidenceOK /\ AbsenceIsSound /\ PresenceIsReal
    BY DEF ResolverIInv
  <1>4. CASE ClosedOriginal /\ rpc' = "scanOpen" /\ UNCHANGED row
    BY <1>1, <1>2, <1>3, <1>4
    DEF ClosedOriginal, ResolverIInv, BrokerOK, LoopOK, EvidenceOK, AbsenceIsSound, PresenceIsReal,
        Observing, Points
  <1>5. CASE view = "CANCELLED" /\ kind = "CANCEL" /\ ResolveConfirmed
    <2>1. row' \in {row, "CONFIRMED"} /\ rpc' = "idle" BY <1>3, <1>5, Verdicts
    <2> QED
      BY <1>1, <1>2, <1>3, <1>5, <2>1
      DEF ResolverIInv, BrokerOK, LoopOK, EvidenceOK, AbsenceIsSound, PresenceIsReal, Observing
  <1>6. CASE view \in {"FILLED", "REJECTED"} /\ ResolveFailed
    <2>1. row' \in {row, "FAILED_CONFIRMED"} /\ rpc' = "idle" BY <1>3, <1>6, Verdicts
    <2>2. target = view /\ kind # "PLACE" BY <1>2, <1>3, <1>6 DEF EvidenceOK, LoopOK
    <2>3. request \in {"wire", "dead"} BY <1>3, <1>6, <2>2 DEF BrokerOK, ResolverTypeOK
    <2> QED
      BY <1>1, <1>2, <1>3, <1>6, <2>1, <2>2, <2>3
      DEF ResolverIInv, BrokerOK, LoopOK, EvidenceOK, AbsenceIsSound, PresenceIsReal, Observing
  <1>7. CASE view = "OPEN" /\ LongEnough /\ ResolveFailed
    <2>1. row' \in {row, "FAILED_CONFIRMED"} /\ rpc' = "idle" BY <1>3, <1>7, Verdicts
    <2>2. request = "dead" BY <1>2, <1>3, <1>7, LateEnough DEF EvidenceOK
    <2> QED
      BY <1>1, <1>2, <1>3, <2>1, <2>2
      DEF ResolverIInv, BrokerOK, LoopOK, EvidenceOK, AbsenceIsSound, PresenceIsReal, Observing
  <1>8. CASE WaitOrExpire \/ Park
    <2>1. row' \in {row, "UNRESOLVED_IN_DOUBT"} /\ rpc' \in {"idle", "sleep"}
      BY <1>3, <1>8, Verdicts
    <2> QED BY <1>1, <1>2, <2>1, Rests DEF ResolverIInv
  <1> QED BY <1>4, <1>5, <1>6, <1>7, <1>8 DEF JudgeTarget

(* The search for a created order: an order that is listed exists, and one that *)
(* exists is in one of the two lists when the observation is late enough.      *)
LEMMA ScanStep == ASSUME ResolverIInv, ScanOpen \/ ScanClosed PROVE ResolverIInv'
  <1>1. ResolverTypeOK' BY ResolverTypeStep DEF ResolverIInv, ResolverNext, ResolverStep
  <1>2. ResolverTypeOK /\ BrokerOK /\ LoopOK /\ EvidenceOK /\ AbsenceIsSound /\ PresenceIsReal
    BY DEF ResolverIInv
  <1>3. CASE ScanOpen
    <2>1. /\ rpc \in Observing /\ rpc' = "scanClosed" /\ seen' \in Listed(InOpenList)
          /\ UNCHANGED <<now, kind, row, brokerVars, obsAt>>
      BY <1>3 DEF ScanOpen, Observing, Points
    <2>2. kind # "CANCEL"
      BY <1>2, <1>3 DEF ScanOpen, EvidenceOK
    <2>3. seen' => child # "none"
      BY <2>1 DEF Listed, InOpenList
    <2>4. ASSUME kind = "PLACE", Transit + Lag <= obsAt, child # "none"
          PROVE  seen' \/ child \in InClosedList
      <3>1. childAt + Lag <= now
        BY <1>2, <2>1, <2>4, BrokerAssumption DEF ResolverTypeOK, BrokerOK, LoopOK
      <3> QED BY <1>2, <2>1, <2>4, <3>1 DEF Listed, ResolverTypeOK, ChildStates, InOpenList, InClosedList
    <2>5. LoopOK' BY <1>2, <2>1, <2>2 DEF LoopOK, Observing, Points
    <2>6. EvidenceOK' BY <2>1, <2>3, <2>4 DEF EvidenceOK
    <2> QED
      BY <1>1, <1>2, <2>1, <2>5, <2>6 DEF ResolverIInv, BrokerOK, AbsenceIsSound, PresenceIsReal
  <1>4. CASE ScanClosed
    <2>1. /\ rpc = "scanClosed" /\ rpc \in Observing
          /\ UNCHANGED <<now, kind, brokerVars, obsAt>>
      BY <1>4 DEF ScanClosed, Observing, Points
    <2>2. PICK closed \in Listed(InClosedList) :
             \/ (seen \/ closed) /\ ResolveConfirmed
             \/ ~(seen \/ closed) /\ kind = "AMEND" /\ Park
             \/ /\ ~(seen \/ closed) /\ kind = "PLACE"
                /\ \/ LongEnough /\ rpc' = "corroborate" /\ UNCHANGED row
                   \/ WaitOrExpire
      BY <1>4 DEF ScanClosed
    <2>3. closed => child # "none"
      BY <2>2 DEF Listed, InClosedList
    <2>4. CASE (seen \/ closed) /\ ResolveConfirmed
      <3>1. row' \in {row, "CONFIRMED"} /\ rpc' = "idle" BY <1>2, <2>4, Verdicts
      <3>2. request = "done" /\ kind # "CANCEL"
        BY <1>2, <2>1, <2>3, <2>4 DEF BrokerOK, EvidenceOK
      <3> QED
        BY <1>1, <1>2, <2>1, <3>1, <3>2
        DEF ResolverIInv, BrokerOK, LoopOK, EvidenceOK, AbsenceIsSound, PresenceIsReal, Observing
    <2>5. CASE Park \/ WaitOrExpire
      <3>1. row' \in {row, "UNRESOLVED_IN_DOUBT"} /\ rpc' \in {"idle", "sleep"}
        BY <1>2, <2>5, Verdicts
      <3> QED BY <1>1, <2>1, <3>1, Rests DEF ResolverIInv
    <2>6. CASE ~(seen \/ closed) /\ kind = "PLACE" /\ LongEnough
               /\ rpc' = "corroborate" /\ UNCHANGED row
      <3>1. Transit + Lag <= obsAt /\ obsAt <= now
        BY <1>2, <2>1, <2>6, LateEnough DEF LoopOK
      <3>2. request # "wire"
        BY <1>2, <3>1, BrokerAssumption DEF BrokerOK, ResolverTypeOK
      <3>3. child = "none"
        <4> SUFFICES ASSUME child # "none" PROVE FALSE OBVIOUS
        <4>1. child \in InClosedList BY <1>2, <2>1, <2>6, <3>1 DEF EvidenceOK
        <4>2. childAt + Lag <= now
          BY <1>2, <2>6, <3>1, BrokerAssumption DEF BrokerOK, ResolverTypeOK
        <4> QED BY <2>2, <2>6, <4>1, <4>2 DEF Listed
      <3>4. request = "dead"
        BY <1>2, <2>6, <3>2, <3>3 DEF BrokerOK, ResolverTypeOK
      <3> QED
        BY <1>1, <1>2, <2>1, <2>6, <3>4
        DEF ResolverIInv, BrokerOK, LoopOK, EvidenceOK, AbsenceIsSound, PresenceIsReal, Observing,
            Points
    <2> QED BY <2>2, <2>4, <2>5, <2>6
  <1> QED BY <1>3, <1>4

(* The remaining steps of the resolver.                                        *)
LEMMA LoopStep ==
    ASSUME ResolverIInv, Begin \/ Wake \/ ObservationFails \/ ReadTarget \/ Corroborate \/ Crash
    PROVE  ResolverIInv'
  <1>1. ResolverTypeOK' BY ResolverTypeStep DEF ResolverIInv, ResolverNext, ResolverStep
  <1>2. ResolverTypeOK /\ BrokerOK /\ LoopOK /\ EvidenceOK /\ AbsenceIsSound /\ PresenceIsReal
    BY DEF ResolverIInv
  <1>3. CASE Begin \/ Wake
    <2>1. rpc' = "observe" /\ obsAt' = now /\ UNCHANGED <<now, kind, row, brokerVars>>
      BY <1>3 DEF Begin, Wake
    <2>2. LoopOK' BY <1>2, <2>1, BrokerAssumption DEF LoopOK, ResolverTypeOK
    <2> QED
      BY <1>1, <1>2, <2>1, <2>2 DEF ResolverIInv, BrokerOK, EvidenceOK, AbsenceIsSound, PresenceIsReal
  <1>4. CASE ObservationFails
    <2>1. /\ row' \in {row, "UNRESOLVED_IN_DOUBT"} /\ rpc' \in {"idle", "sleep"}
          /\ UNCHANGED <<now, kind, brokerVars>>
      BY <1>2, <1>4, Verdicts DEF ObservationFails
    <2> QED BY <1>1, <2>1, Rests DEF ResolverIInv
  <1>5. CASE ReadTarget
    <2>1. /\ rpc = "observe" /\ rpc \in Observing /\ rpc' = "judge" /\ kind # "PLACE"
          /\ view' \in {target, "UNKNOWN"}
          /\ UNCHANGED <<now, kind, row, brokerVars, obsAt>>
      BY <1>5 DEF ReadTarget, Observing, Points
    <2>2. ASSUME view' = "OPEN", Transit <= obsAt PROVE request = "dead"
      <3>1. target = "OPEN" /\ obsAt <= now BY <1>2, <2>1, <2>2 DEF LoopOK
      <3> QED BY <1>2, <2>1, <2>2, <3>1, BrokerAssumption DEF BrokerOK, ResolverTypeOK
    <2>3. LoopOK' BY <1>2, <2>1 DEF LoopOK, Observing, Points
    <2>4. EvidenceOK' BY <2>1, <2>2 DEF EvidenceOK
    <2> QED
      BY <1>1, <1>2, <2>1, <2>3, <2>4 DEF ResolverIInv, BrokerOK, AbsenceIsSound, PresenceIsReal
  <1>6. CASE Corroborate
    <2>1. rpc = "corroborate" /\ UNCHANGED <<now, kind, brokerVars>> BY <1>6 DEF Corroborate
    <2>2. CASE ResolveFailed
      <3>1. row' \in {row, "FAILED_CONFIRMED"} /\ rpc' = "idle" BY <1>2, <2>2, Verdicts
      <3>2. request = "dead" BY <1>2, <2>1 DEF EvidenceOK
      <3> QED
        BY <1>1, <1>2, <2>1, <3>1, <3>2
        DEF ResolverIInv, BrokerOK, LoopOK, EvidenceOK, AbsenceIsSound, PresenceIsReal, Observing
    <2>3. CASE Park
      <3>1. row' \in {row, "UNRESOLVED_IN_DOUBT"} /\ rpc' \in {"idle", "sleep"}
        BY <1>2, <2>3, Verdicts
      <3> QED BY <1>1, <2>1, <3>1, Rests DEF ResolverIInv
    <2> QED BY <1>6, <2>2, <2>3 DEF Corroborate
  <1>7. CASE Crash
    <2>1. /\ row' \in {row, "UNRESOLVED_IN_DOUBT"} /\ rpc' \in {"idle", "sleep"}
          /\ UNCHANGED <<now, kind, brokerVars>>
      BY <1>7 DEF Crash
    <2> QED BY <1>1, <2>1, Rests DEF ResolverIInv
  <1> QED BY <1>3, <1>4, <1>5, <1>6, <1>7

(* Every step keeps the invariant.                                             *)
LEMMA ResolverIInvNext == ResolverIInv /\ [ResolverNext]_resolverVars => ResolverIInv'
  <1> SUFFICES ASSUME ResolverIInv, [ResolverNext]_resolverVars PROVE ResolverIInv' OBVIOUS
  <1>1. CASE UNCHANGED resolverVars
    BY <1>1
    DEF resolverVars, ResolverIInv, ResolverTypeOK, BrokerOK, LoopOK, EvidenceOK, AbsenceIsSound, PresenceIsReal
  <1> QED
    BY <1>1, TickStep, BrokerStepOK, JudgeStep, ScanStep, LoopStep DEF ResolverNext, ResolverStep

-----------------------------------------------------------------------------
(* The broker, the observation in progress and the verdict agree in every      *)
(* reachable state (Resolve, resolveCancel, resolveAmend).                    *)
THEOREM ResolverInvariant == ResolverSpec => []ResolverIInv
  BY ResolverIInvInit, ResolverIInvNext, PTL DEF ResolverSpec

(* "It did not happen" is right whenever it is said (ResolveFailed and its      *)
(* callers), for every configuration whose window covers the broker's delays. *)
THEOREM AbsenceIsProved == ResolverSpec => []AbsenceIsSound
  <1>1. ResolverIInv => AbsenceIsSound BY DEF ResolverIInv
  <1> QED BY <1>1, ResolverInvariant, PTL

(* "It happened" is right whenever it is said (ResolveConfirmed and its         *)
(* callers).                                                                  *)
THEOREM PresenceIsProved == ResolverSpec => []PresenceIsReal
  <1>1. ResolverIInv => PresenceIsReal BY DEF ResolverIInv
  <1> QED BY <1>1, ResolverInvariant, PTL

-----------------------------------------------------------------------------
(* What the fills rely on at the broker: nothing is filled before it is        *)
(* accepted, a full order says so, and a child has its parent replaced.        *)
BrokerSound ==
    /\ \A o \in Orders :
          /\ bk[o].status = "none" => bk[o].filled = 0
          /\ bk[o].status \in Live \cup {"none", "CLOSED"} => bk[o].filled < bk[o].quantity
    /\ bk[Parent].quantity = setup.qty[Parent]
    /\ Amends /\ bk[Child].status # "none" => bk[Parent].status = "REPLACED"

(* Nothing of an order is projected before it is owned and read after that.    *)
OwnedOK ==
    \A o \in Orders : /\ own[o] => bk[o].status # "none"
                      /\ applied[o] # 0 => own[o] /\ after[o]
                      /\ ~snap[o].seen => snap[o].filled = 0

(* A snapshot under way was true when it was read: the broker has filled as    *)
(* much since, and has settled what the snapshot calls terminal.               *)
BatchOK ==
    /\ phase = "listed" => \A raw \in batch : /\ raw.o \in Orders /\ raw.status \in Live
                                              /\ {raw.filled, raw.quantity} \subseteq Nat
                                              /\ raw.filled <= bk[raw.o].filled
    /\ phase = "applying" => \A s \in batch : /\ s.o \in Orders /\ {s.filled, s.quantity} \subseteq Nat
                                              /\ s.state \in OrderStates
                                              /\ {s.terminal, s.failClosed} \subseteq BOOLEAN
                                              /\ s.filled <= bk[s.o].filled
                                              /\ s.terminal => bk[s.o].status \in Settled

FillsIInv ==
    /\ FillsTypeOK /\ BrokerSound /\ OwnedOK /\ BatchOK
    /\ EveryFillProjectedOnce /\ ExactOrBlocked /\ HeldUntilSettled

-----------------------------------------------------------------------------
(* A sum of which one value changes.                                           *)
LEMMA SumChanges ==
  ASSUME NEW I, NEW f \in [I -> Int], NEW g \in [I -> Int], NEW S \in SUBSET I, IsFiniteSet(S),
         NEW x, \A y \in S \ {x} : g[y] = f[y]
  PROVE  /\ SumFunctionOnSet(f, S) \in Int /\ SumFunctionOnSet(g, S) \in Int
         /\ SumFunctionOnSet(g, S) = IF x \in S THEN SumFunctionOnSet(f, S) + (g[x] - f[x])
                                     ELSE SumFunctionOnSet(f, S)
<1>1. SumFunctionOnSet(f, S) \in Int /\ SumFunctionOnSet(g, S) \in Int
  BY SumIsInt
<1>2. CASE x \in S
  <2>1. IsFiniteSet(S \ {x}) /\ S \ {x} \in SUBSET I
    BY CountLess, <1>2
  <2>2. SumFunctionOnSet(f, S) = f[x] + SumFunctionOnSet(f, S \ {x})
    BY SumTakesOut, <1>2
  <2>3. SumFunctionOnSet(g, S) = g[x] + SumFunctionOnSet(g, S \ {x})
    BY SumTakesOut, <1>2
  <2>4. SumFunctionOnSet(f, S \ {x}) = SumFunctionOnSet(g, S \ {x})
    BY SumOfSame, <2>1
  <2>5. SumFunctionOnSet(f, S \ {x}) \in Int /\ f[x] \in Int /\ g[x] \in Int
    BY SumIsInt, <2>1, <1>2
  <2> QED BY <1>1, <1>2, <2>2, <2>3, <2>4, <2>5
<1>3. CASE x \notin S
  <2>1. \A y \in S : f[y] = g[y]
    BY <1>3
  <2>2. SumFunctionOnSet(f, S) = SumFunctionOnSet(g, S)
    BY SumOfSame, <2>1
  <2> QED BY <1>1, <1>3, <2>2
<1> QED BY <1>2, <1>3

(* What the assumptions say of the case that is looked at.                     *)
LEMMA SetupIs ==
  ASSUME setup \in Setups
  PROVE  /\ setup.sells \in SUBSET Orders /\ setup.qty \in [Orders -> Nat \ {0}]
         /\ setup.faults \in Nat
         /\ Parent \in Orders /\ Child \in Orders /\ Parent # Child
         /\ IsFiniteSet(Orders) /\ MaxLead \in Nat \ {0}
BY OrdersAreNumbers, BoundsArePositive

(* A status that says the order is live, or closed short of its quantity and   *)
(* without a successor, is never derived as final.                             *)
LEMMA DerivedState ==
  ASSUME NEW v, v.status \in BrokerStatuses
  PROVE  /\ Derive(v) \in OrderStates
         /\ v.status \in Live => ~IsTerminal(Derive(v))
         /\ v.status = "CLOSED" /\ ~v.successor /\ ~v.canceled /\ v.filled # v.quantity
              => ~IsTerminal(Derive(v))
         /\ v.status = "none" => ~IsTerminal(Derive(v))
BY DEF Derive, DeriveLive, DeriveGroupLabel, IsTerminal, StateUnknown, OrderStates, BrokerStatuses,
       Live, Settled

(* What becomes of the instance when a fill is written to it.                  *)
LEMMA Applied ==
  ASSUME NEW x \in [state : PositionStates, quantity : Nat, seq : Nat],
         (x.quantity = 0) <=> (x.state \in {"FLAT", "CLOSED"}),
         NEW role \in {"ENTRY", "EXIT"}, NEW delta \in Nat, NEW disposition
  PROVE  LET r == Apply(x, role, delta, disposition)
         IN  /\ r.refused \in BOOLEAN
             /\ r.pos \in [state : PositionStates, quantity : Nat, seq : Nat]
             /\ (r.pos.quantity = 0) <=> (r.pos.state \in {"FLAT", "CLOSED"})
             /\ r.refused => r.pos = x
             /\ ~r.refused => r.pos.quantity = IF role = "ENTRY" THEN x.quantity + delta
                                               ELSE x.quantity - delta
<1> DEFINE m == ClassifyMovement(role, delta, x.quantity)
           n == NextState(x.state, role, m, disposition)
           refused == RefusedRow(x.state, role, m)
           reopened == m = "ADDS" /\ x.state \in {"FLAT", "CLOSED"}
           q == IF role = "ENTRY" THEN (IF reopened THEN 0 ELSE x.quantity) + delta
                ELSE x.quantity - delta
           after1 == [state |-> n, quantity |-> q, seq |-> IF reopened THEN x.seq + 1 ELSE x.seq]
<1>1. Apply(x, role, delta, disposition) = IF refused THEN [refused |-> TRUE, pos |-> x]
                                           ELSE [refused |-> FALSE, pos |-> after1]
  BY Zenon DEF Apply
<1>2. /\ m = "NONE" <=> delta = 0
      /\ role = "ENTRY" => m \in {"NONE", "ADDS"}
      /\ role = "EXIT" => /\ m \in {"NONE", "REDUCES", "FLATTENS", "OVERSHOOTS"}
                          /\ m = "REDUCES" => delta < x.quantity
                          /\ m = "FLATTENS" => delta = x.quantity
  BY DEF ClassifyMovement
<1> HIDE DEF m
<1>3. CASE refused
  BY <1>1, <1>3
<1>4. CASE ~refused
  <2>1. n \in PositionStates
    BY DEF NextState, PositionStates
  <2>2. q = (IF role = "ENTRY" THEN x.quantity + delta ELSE x.quantity - delta) /\ q \in Nat
    BY <1>2, <1>4 DEF RefusedRow
  <2>3. (q = 0) <=> (n \in {"FLAT", "CLOSED"})
    <3>1. m # "OVERSHOOTS" /\ (role = "EXIT" /\ m # "NONE" => x.state \notin {"FLAT", "CLOSED"})
      BY <1>4 DEF RefusedRow
    <3>2. CASE m = "NONE"
      <4>1. q = x.quantity
        BY <1>2, <2>2, <3>2
      <4>2. n \in {"FLAT", "CLOSED"} <=> x.state \in {"FLAT", "CLOSED"}
        BY <3>2 DEF NextState, PositionStates
      <4> QED BY <4>1, <4>2
    <3>3. CASE m = "ADDS"
      <4>1. role = "ENTRY" /\ q # 0
        BY <1>2, <2>2, <3>3
      <4>2. n \notin {"FLAT", "CLOSED"}
        BY <3>3, <4>1 DEF NextState, PositionStates
      <4> QED BY <4>1, <4>2
    <3>4. CASE m = "REDUCES"
      <4>1. role = "EXIT" /\ q # 0
        BY <1>2, <2>2, <3>4
      <4>2. n \notin {"FLAT", "CLOSED"}
        BY <3>1, <3>4, <4>1 DEF NextState, PositionStates
      <4> QED BY <4>1, <4>2
    <3>5. CASE m = "FLATTENS"
      <4>1. role = "EXIT" /\ q = 0
        BY <1>2, <2>2, <3>5
      <4>2. n = "CLOSED"
        BY <3>5 DEF NextState
      <4> QED BY <4>1, <4>2
    <3> QED BY <1>2, <3>1, <3>2, <3>3, <3>4, <3>5
  <2> HIDE DEF n, q
  <2> QED BY <1>1, <1>4, <2>1, <2>2, <2>3
<1> QED BY <1>3, <1>4

(* Nothing is filled, recorded or projected at first.                          *)
LEMMA FillsInitial == FillsInit => FillsIInv
<1> SUFFICES ASSUME FillsInit PROVE FillsIInv
  OBVIOUS
<1>1. setup \in Setups
  BY DEF FillsInit
<1> USE SetupIs, <1>1
<1>2. /\ bk \in [Orders -> [status : BrokerStatuses, filled : Nat, quantity : Nat]]
      /\ \A o \in Orders : bk[o].status = "none" /\ bk[o].filled = 0 /\ bk[o].quantity = setup.qty[o]
  BY DEF FillsInit, BrokerStatuses
<1>3. snap \in [Orders -> Rows] /\ \A o \in Orders : snap[o].filled = 0
  BY DEF FillsInit, NoRow, Rows
<1>4. applied \in [Orders -> Nat] /\ \A o \in Orders : applied[o] = 0
  BY DEF FillsInit
<1>5. Total(Orders \ setup.sells, applied) = 0 /\ Total(setup.sells, applied) = 0
  <2>1. IsFiniteSet(Orders \ setup.sells) /\ IsFiniteSet(setup.sells)
    BY FS_Subset
  <2>2. applied \in [Orders -> Int] /\ \A o \in Orders : applied[o] = 0
    BY <1>4
  <2> QED BY <2>1, <2>2, SumOfZeros DEF Total
<1>a. /\ {own, after, held} \subseteq [Orders -> BOOLEAN]
      /\ lead \in [Orders -> -1..MaxLead]
      /\ pos = [state |-> "FLAT", quantity |-> 0, seq |-> 0]
      /\ pos \in [state : PositionStates, quantity : Nat, seq : Nat]
      /\ reconcile = FALSE /\ phase = "idle" /\ faults = 0
  BY DEF FillsInit, PositionStates
<1>6. FillsTypeOK
  <2>1. \A o \in Orders : bk[o].filled <= bk[o].quantity
    BY <1>2
  <2>2. \A o \in Orders : snap[o].filled <= bk[o].filled /\ applied[o] <= snap[o].filled
    BY <1>2, <1>3, <1>4
  <2>3. /\ pos.quantity <= Total(Orders \ setup.sells, applied)
        /\ (pos.quantity = 0) <=> (pos.state \in {"FLAT", "CLOSED"})
        /\ reconcile \in BOOLEAN /\ phase \in {"idle", "listed", "applying"}
        /\ faults \in 0..setup.faults
    <3>1. pos.quantity = 0 /\ pos.state = "FLAT"
      BY Zenon, <1>a
    <3>2. reconcile \in BOOLEAN /\ phase \in {"idle", "listed", "applying"}
      BY Zenon, <1>a
    <3>3. faults \in 0..setup.faults
      BY <1>a
    <3>4. pos.quantity <= Total(Orders \ setup.sells, applied)
      BY <1>5, <3>1
    <3> QED BY <3>1, <3>2, <3>3, <3>4
  <2> QED BY <1>2, <1>3, <1>4, <1>a, <2>1, <2>2, <2>3 DEF FillsTypeOK
<1>7. BrokerSound /\ OwnedOK /\ BatchOK
  BY <1>2, <1>3, <1>4 DEF BrokerSound, OwnedOK, BatchOK, FillsInit, Live
<1>8. EveryFillProjectedOnce /\ HeldUntilSettled
  BY DEF EveryFillProjectedOnce, HeldUntilSettled, FillsInit
<1>9. ExactOrBlocked
  BY <1>5 DEF ExactOrBlocked, FillsInit
<1> QED BY <1>6, <1>7, <1>8, <1>9 DEF FillsIInv

(* The broker's own steps only add to what is filled, and what is settled      *)
(* stays settled.                                                              *)
Onward ==
    /\ bk' \in [Orders -> [status : BrokerStatuses, filled : Nat, quantity : Nat]]
    /\ \A o \in Orders : /\ bk[o].filled <= bk'[o].filled /\ bk'[o].filled <= bk'[o].quantity
                         /\ bk[o].status # "none" => bk'[o].status # "none"
                         /\ bk[o].status \in Settled => bk'[o].status \in Settled

LEMMA OneFilled ==
  ASSUME NEW r \in [status : BrokerStatuses, filled : Nat, quantity : Nat], NEW t \in BrokerStatuses
  PROVE  LET b == [r EXCEPT !.filled = r.filled + 1, !.status = t]
         IN  /\ b \in [status : BrokerStatuses, filled : Nat, quantity : Nat]
             /\ b.filled = r.filled + 1 /\ b.status = t /\ b.quantity = r.quantity
<1> DEFINE k == r.filled + 1
           b == [r EXCEPT !.filled = k, !.status = t]
<1>1. k \in Nat
  OBVIOUS
<1> HIDE DEF k
<1>2. b.filled = k /\ b.status = t /\ b.quantity = r.quantity
  BY Zenon
<1>3. b \in [status : BrokerStatuses, filled : Nat, quantity : Nat]
  BY Zenon, <1>1
<1> QED BY Zenon, <1>2, <1>3 DEF k

LEMMA BrokerGoesOnward ==
  ASSUME FillsIInv, Broker, UNCHANGED setup
  PROVE  Onward /\ BrokerSound'
<1>0. /\ bk \in [Orders -> [status : BrokerStatuses, filled : Nat, quantity : Nat]]
      /\ setup \in Setups
      /\ \A o \in Orders : bk[o].filled <= bk[o].quantity
  BY DEF FillsIInv, FillsTypeOK
<1> USE SetupIs, <1>0
<1>1. BrokerSound /\ (Amends' <=> Amends)
  BY DEF FillsIInv, Amends
<1>2. ASSUME NEW o \in Orders, BrokerAccept(o) \/ BrokerCancel(o) \/ BrokerExpire(o)
      PROVE  Onward /\ BrokerSound'
  <2>1. PICK t \in BrokerStatuses : /\ bk' = [bk EXCEPT ![o].status = t]
                                    /\ bk[o].status \in Live \cup {"none"}
                                    /\ t # "none" /\ t # "FILLED"
                                    /\ bk[o].status = "none" => ~IsChild(o)
    BY <1>2 DEF BrokerAccept, BrokerCancel, BrokerExpire, BrokerStatuses, Live, Settled
  <2>2. /\ \A x \in Orders \ {o} : bk'[x] = bk[x]
        /\ bk'[o] = [bk[o] EXCEPT !.status = t]
        /\ bk' \in [Orders -> [status : BrokerStatuses, filled : Nat, quantity : Nat]]
    BY <2>1
  <2>3. Onward
    BY <2>1, <2>2 DEF Onward, Live, Settled
  <2>4. BrokerSound'
    BY <1>1, <2>1, <2>2 DEF BrokerSound, Live, IsChild
  <2> QED BY <2>3, <2>4
<1>3. ASSUME NEW o \in Orders, BrokerFill(o)
      PROVE  Onward /\ BrokerSound'
  <2>1. PICK t \in BrokerStatuses : /\ bk' = [bk EXCEPT ![o] = [bk[o] EXCEPT !.filled = bk[o].filled + 1,
                                                                             !.status = t]]
                                    /\ bk[o].status \in Live /\ bk[o].filled < bk[o].quantity
                                    /\ t \in Live \cup {"FILLED"}
                                    /\ t # "FILLED" => bk[o].filled + 1 # bk[o].quantity
    BY <1>3 DEF BrokerFill, BrokerStatuses, Live, Settled
  <2> DEFINE b == [bk[o] EXCEPT !.filled = bk[o].filled + 1, !.status = t]
  <2>a. /\ b \in [status : BrokerStatuses, filled : Nat, quantity : Nat]
        /\ b.filled = bk[o].filled + 1 /\ b.status = t /\ b.quantity = bk[o].quantity
    <3>1. bk[o] \in [status : BrokerStatuses, filled : Nat, quantity : Nat]
      BY <1>0
    <3> HIDE DEF b
    <3> QED BY <3>1, OneFilled DEF b
  <2>b. bk' = [bk EXCEPT ![o] = b]
    BY <2>1
  <2> HIDE DEF b
  <2>2. /\ \A x \in Orders \ {o} : bk'[x] = bk[x]
        /\ bk'[o] = b
        /\ bk' \in [Orders -> [status : BrokerStatuses, filled : Nat, quantity : Nat]]
    BY <2>a, <2>b
  <2>3. Onward
    BY <2>1, <2>2, <2>a DEF Onward, Live, Settled
  <2>c. Amends /\ bk'[Child].status # "none" => bk'[Parent].status = "REPLACED"
    BY <1>1, <2>1, <2>2, <2>a DEF BrokerSound, Live
  <2>4. BrokerSound'
    <3>1. BrokerSound /\ bk[o].filled + 1 <= bk[o].quantity
      BY <1>0, <1>1, <2>1
    <3>2. \A x \in Orders : /\ bk'[x].status = "none" => bk'[x].filled = 0
                            /\ bk'[x].status \in Live \cup {"none", "CLOSED"}
                                 => bk'[x].filled < bk'[x].quantity
      <4> SUFFICES ASSUME NEW x \in Orders
                   PROVE  /\ bk'[x].status = "none" => bk'[x].filled = 0
                          /\ bk'[x].status \in Live \cup {"none", "CLOSED"}
                               => bk'[x].filled < bk'[x].quantity
        OBVIOUS
      <4>1. CASE x = o
        BY <1>0, <2>1, <2>2, <2>a, <3>1, <4>1 DEF Live
      <4>2. CASE x # o
        BY <2>2, <3>1, <4>2 DEF BrokerSound
      <4> QED BY <4>1, <4>2
    <3>3. bk'[Parent].quantity = setup'.qty[Parent]
      BY <2>2, <2>a, <3>1 DEF BrokerSound
    <3> QED BY <1>1, <2>c, <3>2, <3>3 DEF BrokerSound
  <2> QED BY <2>3, <2>4
<1>4. ASSUME BrokerReplace
      PROVE  Onward /\ BrokerSound'
  <2>1. /\ Amends /\ bk[Parent].status \in {"PENDING", "PARTIAL_FILLED"}
        /\ \A x \in Orders \ {Parent, Child} : bk'[x] = bk[x]
        /\ bk'[Parent] = [bk[Parent] EXCEPT !.status = "REPLACED"]
        /\ bk'[Child] = [status |-> "PENDING", filled |-> 0,
                         quantity |-> setup.qty[Parent] - bk[Parent].filled]
    BY <1>4 DEF BrokerReplace
  <2>2. bk[Child].status = "none" /\ bk[Child].filled = 0
    BY <1>1, <2>1 DEF BrokerSound
  <2>3. /\ setup.qty[Parent] - bk[Parent].filled \in Nat
        /\ setup.qty[Parent] - bk[Parent].filled > 0
    BY <1>1, <2>1 DEF BrokerSound, Live
  <2>4. /\ bk'[Parent] \in [status : BrokerStatuses, filled : Nat, quantity : Nat]
        /\ bk'[Child] \in [status : BrokerStatuses, filled : Nat, quantity : Nat]
        /\ DOMAIN bk' = Orders
    BY <1>4, <2>1, <2>3 DEF BrokerStatuses, Live, Settled, BrokerReplace
  <2>5. bk' \in [Orders -> [status : BrokerStatuses, filled : Nat, quantity : Nat]]
    <3>1. bk' = [x \in Orders |-> bk'[x]]
      BY <1>4, <2>4 DEF BrokerReplace
    <3> QED BY <2>1, <2>4, <3>1
  <2>6. Onward
    BY <2>1, <2>2, <2>3, <2>5 DEF Onward, Live, Settled
  <2>7. BrokerSound'
    BY <1>1, <2>1, <2>2, <2>3 DEF BrokerSound, Live
  <2> QED BY <2>6, <2>7
<1> QED BY <1>2, <1>3, <1>4 DEF Broker

(* Whatever the broker does, the ledger stays true to it.                      *)
LEMMA BrokerKeeps ==
  ASSUME FillsIInv, Broker, UNCHANGED setup
  PROVE  FillsIInv'
<1>1. Onward /\ BrokerSound'
  BY BrokerGoesOnward
<1>2. UNCHANGED <<own, snap, after, lead, held, applied, pos, reconcile, phase, batch, faults, setup>>
  BY DEF Broker, ledgerVars
<1>3. FillsTypeOK'
  <2>1. FillsTypeOK
    BY DEF FillsIInv
  <2>2. /\ setup' \in Setups /\ snap' \in [Orders -> Rows]
        /\ {own', after', held'} \subseteq [Orders -> BOOLEAN] /\ lead' \in [Orders -> -1..MaxLead]
        /\ applied' \in [Orders -> Nat]
        /\ pos' \in [state : PositionStates, quantity : Nat, seq : Nat]
        /\ pos'.quantity <= Total(Orders \ setup'.sells, applied')
        /\ (pos'.quantity = 0) <=> (pos'.state \in {"FLAT", "CLOSED"})
        /\ reconcile' \in BOOLEAN /\ phase' \in {"idle", "listed", "applying"}
        /\ faults' \in 0..setup'.faults
    BY <1>2, <2>1 DEF FillsTypeOK
  <2>3. \A o \in Orders : /\ snap'[o].filled <= bk'[o].filled /\ applied'[o] <= snap'[o].filled
    <3> SUFFICES ASSUME NEW o \in Orders PROVE snap[o].filled <= bk'[o].filled /\ applied[o] <= snap[o].filled
      BY <1>2
    <3>1. snap[o].filled \in Nat /\ bk[o].filled \in Nat /\ bk'[o].filled \in Nat
      BY <1>1, <2>1 DEF FillsTypeOK, Onward, Rows
    <3>2. /\ snap[o].filled <= bk[o].filled /\ applied[o] <= snap[o].filled
          /\ bk[o].filled <= bk'[o].filled
      BY <1>1, <2>1 DEF FillsTypeOK, Onward
    <3> QED BY <3>1, <3>2
  <2> QED BY <1>1, <2>2, <2>3 DEF FillsTypeOK, Onward, Total
<1>4. OwnedOK'
  <2>1. OwnedOK
    BY DEF FillsIInv
  <2> QED BY <1>1, <1>2, <2>1 DEF OwnedOK, Onward
<1>5. BatchOK'
  <2>1. BatchOK /\ \A o \in Orders : bk[o].filled \in Nat /\ bk'[o].filled \in Nat
    BY <1>1 DEF FillsIInv, FillsTypeOK, Onward
  <2>2. \A n \in Nat, o \in Orders : n <= bk[o].filled => n <= bk'[o].filled
    BY <1>1, <2>1 DEF Onward
  <2>3. \A o \in Orders : bk[o].status \in Settled => bk'[o].status \in Settled
    BY <1>1 DEF Onward
  <2> QED BY <1>2, <2>1, <2>2, <2>3 DEF BatchOK
<1>6. EveryFillProjectedOnce' /\ ExactOrBlocked'
  BY <1>2 DEF FillsIInv, EveryFillProjectedOnce, ExactOrBlocked, Total, IsChild, Amends
<1>7. HeldUntilSettled'
  <2>1. HeldUntilSettled /\ \A o \in Orders : bk[o].status \in Settled => bk'[o].status \in Settled
    BY <1>1 DEF FillsIInv, Onward
  <2> QED BY <1>2, <2>1 DEF HeldUntilSettled
<1> QED BY <1>1, <1>3, <1>4, <1>5, <1>6, <1>7 DEF FillsIInv

(* A step that leaves the broker, the ledger and the cycle's snapshots alone.  *)
LEMMA LeadKeeps ==
  ASSUME FillsIInv, SecondPasses, UNCHANGED setup
  PROVE  FillsIInv'
<1>1. UNCHANGED <<bk, own, snap, after, held, applied, pos, reconcile, phase, batch, faults, setup>>
  BY DEF SecondPasses
<1>2. FillsTypeOK /\ setup \in Setups
  BY DEF FillsIInv, FillsTypeOK
<1>3. lead' \in [Orders -> -1..MaxLead]
  <2>1. lead \in [Orders -> -1..MaxLead] /\ MaxLead \in Nat \ {0}
    BY <1>2, SetupIs DEF FillsTypeOK
  <2>2. \A o \in Orders : MaxOf(lead[o] - 1, -1) \in -1..MaxLead
    BY <2>1 DEF MaxOf
  <2> QED BY <2>2 DEF SecondPasses
<1>4. FillsTypeOK'
  BY <1>1, <1>2, <1>3 DEF FillsTypeOK, Total
<1>5. BrokerSound' /\ OwnedOK' /\ BatchOK'
  BY <1>1 DEF FillsIInv, BrokerSound, OwnedOK, BatchOK, Amends
<1>6. EveryFillProjectedOnce' /\ ExactOrBlocked' /\ HeldUntilSettled'
  BY <1>1 DEF FillsIInv, EveryFillProjectedOnce, ExactOrBlocked, HeldUntilSettled, IsChild, Amends, Total
<1> QED BY <1>4, <1>5, <1>6 DEF FillsIInv

(* An ownership is confirmed of an order the broker has, of which nothing was  *)
(* projected yet.                                                              *)
LEMMA ConfirmKeeps ==
  ASSUME FillsIInv, Confirm, UNCHANGED setup
  PROVE  FillsIInv'
<1>0. FillsTypeOK /\ setup \in Setups /\ OwnedOK
  BY DEF FillsIInv, FillsTypeOK
<1> USE SetupIs, <1>0
<1>1. UNCHANGED <<bk, snap, held, applied, pos, reconcile, phase, batch, faults, setup>>
  BY DEF Confirm, ConfirmPlace, ConfirmReplacement
<1>2. /\ own \in [Orders -> BOOLEAN] /\ after \in [Orders -> BOOLEAN] /\ held \in [Orders -> BOOLEAN]
      /\ lead \in [Orders -> -1..MaxLead] /\ applied \in [Orders -> Nat] /\ snap \in [Orders -> Rows]
  BY DEF FillsTypeOK
<1>3. PICK o \in Orders : /\ ~own[o] /\ bk[o].status # "none"
                          /\ own' = [own EXCEPT ![o] = TRUE]
                          /\ after' \in [Orders -> BOOLEAN]
                          /\ \A x \in Orders \ {o} : after'[x] = after[x]
                          /\ ~IsChild(o) => ~after'[o]
                          /\ lead' \in [Orders -> -1..MaxLead]
  <2>1. ASSUME NEW o \in Orders, ConfirmPlace(o)
        PROVE  /\ ~own[o] /\ bk[o].status # "none"
               /\ own' = [own EXCEPT ![o] = TRUE]
               /\ after' \in [Orders -> BOOLEAN]
               /\ \A x \in Orders \ {o} : after'[x] = after[x]
               /\ ~IsChild(o) => ~after'[o]
               /\ lead' \in [Orders -> -1..MaxLead]
    <3>1. StrictlyAfter(lead[o]) \in -1..MaxLead
      BY <1>2 DEF StrictlyAfter, MinOf, MaxOf
    <3>2. lead' \in [Orders -> -1..MaxLead]
      BY <1>2, <2>1, <3>1 DEF ConfirmPlace
    <3> QED BY <1>2, <2>1, <3>2 DEF ConfirmPlace
  <2>2. ASSUME ConfirmReplacement
        PROVE  /\ ~own[Child] /\ bk[Child].status # "none"
               /\ own' = [own EXCEPT ![Child] = TRUE]
               /\ after' \in [Orders -> BOOLEAN]
               /\ \A x \in Orders \ {Child} : after'[x] = after[x]
               /\ ~IsChild(Child) => ~after'[Child]
               /\ lead' \in [Orders -> -1..MaxLead]
    <3>1. \A x \in Orders : MaxOf(lead[x], 0) \in -1..MaxLead
      BY <1>2 DEF MaxOf
    <3>2. lead' \in [Orders -> -1..MaxLead]
      BY <1>2, <2>2, <3>1 DEF ConfirmReplacement
    <3>3. IsChild(Child)
      BY <2>2 DEF ConfirmReplacement, IsChild
    <3>4. after' = [after EXCEPT ![Child] = lead[Child] > 0] /\ (lead[Child] > 0) \in BOOLEAN
      BY <2>2 DEF ConfirmReplacement
    <3>5. after' \in [Orders -> BOOLEAN] /\ \A x \in Orders \ {Child} : after'[x] = after[x]
      BY <1>2, <3>4
    <3> QED BY <2>2, <3>2, <3>3, <3>5 DEF ConfirmReplacement
  <2> QED BY <2>1, <2>2 DEF Confirm
<1>4. own' \in [Orders -> BOOLEAN] /\ own'[o] /\ \A x \in Orders \ {o} : own'[x] = own[x]
  BY <1>2, <1>3
<1>5. FillsTypeOK'
  <2>1. {own', after', held'} \subseteq [Orders -> BOOLEAN]
    BY <1>1, <1>2, <1>3, <1>4
  <2> QED BY <1>1, <1>3, <2>1 DEF FillsTypeOK, Total
<1>6. BrokerSound' /\ BatchOK'
  BY <1>1 DEF FillsIInv, BrokerSound, BatchOK, Amends
<1>7. applied[o] = 0
  BY <1>3 DEF OwnedOK
<1>8. OwnedOK'
  BY <1>1, <1>3, <1>4, <1>7 DEF OwnedOK
<1>9. EveryFillProjectedOnce'
  <2> SUFFICES ASSUME NEW x \in Orders, own'[x], ~IsChild(x)', after'[x]
               PROVE  applied[x] = snap[x].filled
    BY <1>1 DEF EveryFillProjectedOnce
  <2>1. ~IsChild(x)
    BY <1>1 DEF IsChild, Amends
  <2>2. x # o
    BY <1>3, <2>1
  <2> QED BY <1>3, <1>4, <2>1, <2>2 DEF FillsIInv, EveryFillProjectedOnce
<1>10. HeldUntilSettled'
  BY <1>1, <1>4 DEF FillsIInv, HeldUntilSettled
<1>11. ExactOrBlocked'
  BY <1>1 DEF FillsIInv, ExactOrBlocked, Total
<1> QED BY <1>5, <1>6, <1>8, <1>9, <1>10, <1>11 DEF FillsIInv

(* A step of the cycle that writes nothing keeps what its snapshots say.       *)
LEMMA ReadingKeeps ==
  ASSUME FillsIInv, BatchOK', UNCHANGED <<bk, ledgerVars, setup>>,
         phase' \in {"idle", "listed", "applying"}, faults' \in 0..setup.faults
  PROVE  FillsIInv'
<1>1. UNCHANGED <<bk, own, snap, after, lead, held, applied, pos, reconcile, setup>>
  BY DEF ledgerVars
<1>2. FillsTypeOK'
  BY <1>1 DEF FillsIInv, FillsTypeOK, Total
<1>3. BrokerSound' /\ OwnedOK'
  BY <1>1 DEF FillsIInv, BrokerSound, OwnedOK, Amends
<1>4. EveryFillProjectedOnce' /\ ExactOrBlocked' /\ HeldUntilSettled'
  BY <1>1 DEF FillsIInv, EveryFillProjectedOnce, ExactOrBlocked, HeldUntilSettled, IsChild, Amends, Total
<1> QED BY <1>2, <1>3, <1>4 DEF FillsIInv

(* What a read says is true of the order, or was before its last fill; a state *)
(* that is called final is one the broker has settled.                         *)
LEMMA ReadIsTrue ==
  ASSUME FillsIInv, NEW o \in Orders,
         NEW raw, \/ raw = Truth(o)
                  \/ raw = RanBack(o)
                  \/ raw = MissedLast(o) /\ bk[o].filled > 0,
         NEW byId
  PROVE  LET s == Snapshot(raw, byId)
         IN  /\ s.o \in Orders /\ {s.filled, s.quantity} \subseteq Nat
             /\ s.state \in OrderStates
             /\ {s.terminal, s.failClosed} \subseteq BOOLEAN
             /\ s.filled <= bk[s.o].filled
             /\ s.terminal => bk[s.o].status \in Settled
<1> DEFINE v == [status    |-> raw.status,
                 canceled  |-> raw.status = "CANCELED",
                 successor |-> Tracked(raw.o) /\ HasReplaceSuccessor(raw.o),
                 quantity  |-> raw.quantity,
                 filled    |-> raw.filled]
           s == Snapshot(raw, byId)
<1>0. FillsTypeOK /\ setup \in Setups /\ BrokerSound /\ OwnedOK
  BY DEF FillsIInv, FillsTypeOK
<1>1. bk[o] \in [status : BrokerStatuses, filled : Nat, quantity : Nat]
  BY <1>0 DEF FillsTypeOK
<1>2. /\ raw.o = o /\ raw.quantity = bk[o].quantity
      /\ raw.filled \in Nat /\ raw.filled <= bk[o].filled
      /\ raw.status \in BrokerStatuses
      /\ \/ raw.status \in Live
         \/ raw.status = bk[o].status /\ raw.filled = bk[o].filled
  <2>1. CASE raw = MissedLast(o) /\ bk[o].filled > 0
    BY <1>1, <2>1 DEF MissedLast, Raw, Live, BrokerStatuses
  <2>2. CASE raw = Truth(o)
    BY <1>1, <2>2 DEF Truth, Raw, BrokerStatuses
  <2>3. CASE raw = RanBack(o)
    BY <1>1, <2>3 DEF RanBack, Truth, Raw, BrokerStatuses
  <2> QED BY <2>1, <2>2, <2>3
<1>3. /\ v.status = raw.status /\ v.canceled = (raw.status = "CANCELED")
      /\ v.successor = (Tracked(raw.o) /\ HasReplaceSuccessor(raw.o))
      /\ v.quantity = raw.quantity /\ v.filled = raw.filled
  OBVIOUS
<1>4. /\ s.o = raw.o /\ s.filled = raw.filled /\ s.quantity = raw.quantity
      /\ s.state = Derive(v) /\ s.terminal = IsTerminal(Derive(v))
      /\ s.failClosed = (Derive(v) = StateUnknown)
  BY DEF Snapshot
<1> HIDE DEF v, s
<1>5. Derive(v) \in OrderStates
  BY <1>2, <1>3, DerivedState
<1>6. IsTerminal(Derive(v)) => bk[o].status \in Settled
  <2>1. CASE raw.status \in Live
    BY <1>2, <1>3, <2>1, DerivedState
  <2>2. CASE bk[o].status \in Settled
    BY <2>2
  <2>3. CASE raw.status = "none"
    BY <1>2, <1>3, <2>3, DerivedState
  <2>4. CASE raw.status = "CLOSED" /\ bk[o].status = "CLOSED" /\ raw.filled = bk[o].filled
    <3>1. ~v.successor
      BY <1>0, <1>2, <1>3, <2>4, SetupIs DEF HasReplaceSuccessor, BrokerSound, OwnedOK
    <3>2. ~v.canceled
      BY <1>3, <2>4
    <3>3. v.filled # v.quantity
      BY <1>0, <1>1, <1>2, <1>3, <2>4 DEF BrokerSound
    <3> QED BY <1>2, <1>3, <2>4, <3>1, <3>2, <3>3, DerivedState
  <2> QED BY <1>2, <2>1, <2>2, <2>3, <2>4 DEF BrokerStatuses, Settled
<1>7. IsTerminal(Derive(v)) \in BOOLEAN /\ (Derive(v) = StateUnknown) \in BOOLEAN
  BY DEF IsTerminal
<1> QED BY <1>1, <1>2, <1>4, <1>5, <1>6, <1>7 DEF s

(* What the list showed is an order that was live then: no snapshot of it is   *)
(* final.                                                                      *)
LEMMA ListedIsLive ==
  ASSUME NEW raw, raw.status \in Live
  PROVE  LET s == Snapshot(raw, FALSE)
         IN  /\ s.o = raw.o /\ s.filled = raw.filled /\ s.quantity = raw.quantity
             /\ s.state \in OrderStates
             /\ {s.terminal, s.failClosed} \subseteq BOOLEAN
             /\ ~s.terminal
<1> DEFINE v == [status    |-> raw.status,
                 canceled  |-> raw.status = "CANCELED",
                 successor |-> Tracked(raw.o) /\ HasReplaceSuccessor(raw.o),
                 quantity  |-> raw.quantity,
                 filled    |-> raw.filled]
           s == Snapshot(raw, FALSE)
<1>1. v.status = raw.status
  OBVIOUS
<1>2. /\ s.o = raw.o /\ s.filled = raw.filled /\ s.quantity = raw.quantity
      /\ s.state = Derive(v) /\ s.terminal = IsTerminal(Derive(v))
      /\ s.failClosed = (Derive(v) = StateUnknown)
  BY DEF Snapshot
<1> HIDE DEF v, s
<1>3. Derive(v) \in OrderStates /\ ~IsTerminal(Derive(v))
  BY <1>1, DerivedState DEF BrokerStatuses
<1>4. IsTerminal(Derive(v)) \in BOOLEAN /\ (Derive(v) = StateUnknown) \in BOOLEAN
  BY DEF IsTerminal
<1> QED BY <1>2, <1>3, <1>4 DEF s

(* The steps of the cycle that read, and those that give it up.                *)
LEMMA CycleReads ==
  ASSUME FillsIInv, UNCHANGED setup,
         PollList \/ PollTracked \/ PollDone \/ CycleFails \/ \E s \in batch : PollApplyError(s)
  PROVE  FillsIInv'
<1>0. FillsTypeOK /\ setup \in Setups /\ BatchOK
  BY DEF FillsIInv, FillsTypeOK
<1>1. /\ bk \in [Orders -> [status : BrokerStatuses, filled : Nat, quantity : Nat]]
      /\ faults \in Nat /\ setup.faults \in Nat /\ faults <= setup.faults
  BY <1>0, SetupIs DEF FillsTypeOK
<1>2. CASE PollList
  <2>1. BatchOK'
    BY <1>1, <1>2 DEF PollList, BatchOK, Truth, Raw
  <2> QED BY <1>1, <1>2, <2>1, ReadingKeeps DEF PollList
<1>3. CASE PollTracked
  <2> DEFINE rest == {o \in Orders : Tracked(o) /\ \A raw \in batch : raw.o # o}
  <2>a. rest \subseteq Orders
    OBVIOUS
  <2>b. PICK odd \in {{}} \cup {{o} : o \in rest}, ranBack \in BOOLEAN :
            /\ \A o \in odd : faults < setup.faults /\ bk[o].filled > 0
            /\ faults' = faults + Cardinality(odd)
            /\ batch' = {Snapshot(raw, FALSE) : raw \in batch}
                         \cup {Snapshot(Answer(o, o \in odd, ranBack), TRUE) : o \in rest}
    BY Zenon, <1>3 DEF PollTracked
  <2> HIDE DEF rest
  <2>1. /\ rest \subseteq Orders /\ odd \in {{}} \cup {{o} : o \in rest}
        /\ ranBack \in BOOLEAN
        /\ \A o \in odd : faults < setup.faults /\ bk[o].filled > 0
        /\ faults' = faults + Cardinality(odd)
        /\ batch' = {Snapshot(raw, FALSE) : raw \in batch}
                     \cup {Snapshot(Answer(o, o \in odd, ranBack), TRUE) : o \in rest}
    BY <2>a, <2>b
  <2>2. phase = "listed" /\ phase' = "applying" /\ UNCHANGED <<bk, ledgerVars, setup>>
    BY <1>3 DEF PollTracked
  <2>3. faults' \in 0..setup'.faults
    <3>1. CASE odd = {}
      BY <1>1, <2>1, <2>2, <3>1, FS_EmptySet
    <3>2. CASE odd # {}
      <4>1. PICK o \in rest : odd = {o}
        BY <2>1, <3>2
      <4>2. Cardinality(odd) = 1 /\ faults < setup.faults
        BY <2>1, <4>1, FS_Singleton
      <4> QED BY <1>1, <2>1, <2>2, <4>2
    <3> QED BY <3>1, <3>2
  <2>4. ASSUME NEW s \in batch'
        PROVE  /\ s.o \in Orders /\ {s.filled, s.quantity} \subseteq Nat
               /\ s.state \in OrderStates
               /\ {s.terminal, s.failClosed} \subseteq BOOLEAN
               /\ s.filled <= bk[s.o].filled
               /\ s.terminal => bk[s.o].status \in Settled
    <3>1. CASE \E raw \in batch : s = Snapshot(raw, FALSE)
      <4>1. PICK raw \in batch : s = Snapshot(raw, FALSE)
        BY <3>1
      <4>2. /\ raw.o \in Orders /\ raw.status \in Live
            /\ {raw.filled, raw.quantity} \subseteq Nat
            /\ raw.filled <= bk[raw.o].filled
        BY <1>0, <2>2 DEF BatchOK
      <4> QED BY <4>1, <4>2, ListedIsLive
    <3>2. CASE \E o \in rest : s = Snapshot(Answer(o, o \in odd, ranBack), TRUE)
      <4>1. PICK o \in rest : s = Snapshot(Answer(o, o \in odd, ranBack), TRUE)
        BY <3>2
      <4>2. o \in Orders /\ (o \in odd => bk[o].filled > 0)
        BY <2>1
      <4> DEFINE raw == Answer(o, o \in odd, ranBack)
      <4>3. \/ raw = Truth(o)
            \/ raw = RanBack(o)
            \/ raw = MissedLast(o) /\ bk[o].filled > 0
        BY <4>2, <2>1 DEF Answer
      <4>4. s = Snapshot(raw, TRUE)
        BY <4>1
      <4> HIDE DEF raw
      <4> QED BY <4>2, <4>3, <4>4, ReadIsTrue
    <3> QED BY <2>1, <3>1, <3>2
  <2>5. BatchOK'
    BY <2>2, <2>4 DEF BatchOK
  <2> QED BY <2>2, <2>3, <2>5, ReadingKeeps
<1>4. CASE PollDone
  <2>1. BatchOK'
    BY <1>4 DEF PollDone, BatchOK
  <2> QED BY <1>0, <1>4, <2>1, ReadingKeeps DEF PollDone, FillsTypeOK
<1>5. CASE CycleFails
  <2>1. BatchOK'
    BY <1>5 DEF CycleFails, BatchOK
  <2> QED BY <1>1, <1>5, <2>1, ReadingKeeps DEF CycleFails
<1>6. CASE \E s \in batch : PollApplyError(s)
  <2>1. BatchOK'
    BY <1>6 DEF PollApplyError, BatchOK
  <2> QED BY <1>0, <1>6, <2>1, ReadingKeeps DEF PollApplyError, FillsTypeOK
<1> QED BY <1>2, <1>3, <1>4, <1>5, <1>6

(* A snapshot that may be committed.                                           *)
Commits(s) ==
    /\ s.o \in Orders /\ {s.filled, s.quantity} \subseteq Nat
    /\ s.state \in OrderStates
    /\ {s.terminal, s.failClosed} \subseteq BOOLEAN
    /\ s.filled <= bk[s.o].filled
    /\ s.terminal => bk[s.o].status \in Settled

(* The baseline of an owned order is what was projected of it, but for a child *)
(* whose rows of before the ownership count as its baseline.                   *)
LEMMA Baseline ==
  ASSUME FillsIInv, NEW o \in Orders
  PROVE  /\ Previous(o).seen \in BOOLEAN /\ Previous(o).filled \in Nat
         /\ ~Previous(o).seen => Previous(o).filled = 0
         /\ Previous(o).seen => Previous(o) = snap[o]
         /\ own[o] => applied[o] <= Previous(o).filled
         /\ own[o] /\ ~IsChild(o) => applied[o] = Previous(o).filled
         /\ ~own[o] => applied[o] = 0
<1>1. /\ snap[o].seen \in BOOLEAN /\ snap[o].filled \in Nat /\ applied[o] \in Nat
      /\ applied[o] <= snap[o].filled
      /\ own[o] \in BOOLEAN /\ after[o] \in BOOLEAN
  BY DEF FillsIInv, FillsTypeOK, Rows
<1>2. /\ applied[o] # 0 => own[o] /\ after[o]
      /\ ~snap[o].seen => snap[o].filled = 0
      /\ own[o] /\ ~IsChild(o) /\ after[o] => applied[o] = snap[o].filled
  BY DEF FillsIInv, OwnedOK, EveryFillProjectedOnce
<1>3. NoRow.seen = FALSE /\ NoRow.filled = 0
  BY DEF NoRow
<1>4. CASE own[o] /\ ~after[o]
  <2>1. Previous(o) = NoRow
    BY <1>4 DEF Previous, SoleOwner
  <2>2. applied[o] = 0
    BY <1>2, <1>4
  <2>3. Previous(o).seen = FALSE /\ Previous(o).filled = 0
    BY <1>3, <2>1
  <2>4. Previous(o).filled \in Nat /\ applied[o] <= Previous(o).filled
    BY <2>2, <2>3
  <2> QED BY Zenon, <1>4, <2>2, <2>3, <2>4
<1>5. CASE ~(own[o] /\ ~after[o])
  <2>1. Previous(o) = snap[o]
    BY <1>5 DEF Previous, SoleOwner
  <2> QED BY <1>1, <1>2, <1>5, <2>1
<1> QED BY <1>4, <1>5

(* What a commit to one order's row leaves of the invariant to show.           *)
LEMMA RowKeeps ==
  ASSUME FillsIInv, NEW o \in Orders, UNCHANGED <<bk, own, setup>>, BatchOK',
         phase' \in {"idle", "listed", "applying"}, faults' \in 0..setup.faults,
         NEW r \in Rows, snap' = [snap EXCEPT ![o] = r],
         r.seen, r.filled <= bk[o].filled,
         after' = [after EXCEPT ![o] = own[o]], Stamp(o),
         NEW n \in Nat, applied' = [applied EXCEPT ![o] = n],
         n <= r.filled, own[o] /\ ~IsChild(o) => n = r.filled, ~own[o] => n = 0,
         held' \in [Orders -> BOOLEAN],
         \A x \in Orders : held[x] /\ ~held'[x] => own[x] /\ bk[x].status \in Settled,
         pos' \in [state : PositionStates, quantity : Nat, seq : Nat],
         (pos'.quantity = 0) <=> (pos'.state \in {"FLAT", "CLOSED"}),
         pos'.quantity <= Total(Orders \ setup.sells, applied'),
         reconcile' \in BOOLEAN, ExactOrBlocked'
  PROVE  FillsIInv'
<1>0. FillsTypeOK /\ setup \in Setups /\ OwnedOK
  BY DEF FillsIInv, FillsTypeOK
<1>1. /\ own \in [Orders -> BOOLEAN] /\ after \in [Orders -> BOOLEAN] /\ held \in [Orders -> BOOLEAN]
      /\ lead \in [Orders -> -1..MaxLead] /\ applied \in [Orders -> Nat] /\ snap \in [Orders -> Rows]
  BY <1>0 DEF FillsTypeOK
<1>2. lead' \in [Orders -> -1..MaxLead]
  <2>1. StrictlyAfter(lead[o]) \in -1..MaxLead
    BY <1>0, <1>1, SetupIs DEF StrictlyAfter, MinOf, MaxOf
  <2> QED BY <1>1, <2>1 DEF Stamp
<1>3. /\ snap' \in [Orders -> Rows] /\ snap'[o] = r
      /\ \A x \in Orders \ {o} : snap'[x] = snap[x]
      /\ after' \in [Orders -> BOOLEAN] /\ after'[o] = own[o]
      /\ \A x \in Orders \ {o} : after'[x] = after[x]
      /\ applied' \in [Orders -> Nat] /\ applied'[o] = n
      /\ \A x \in Orders \ {o} : applied'[x] = applied[x]
  BY <1>1
<1>4. FillsTypeOK'
  <2>1. \A x \in Orders : /\ bk'[x].filled <= bk'[x].quantity
                          /\ snap'[x].filled <= bk'[x].filled /\ applied'[x] <= snap'[x].filled
    BY <1>0, <1>3 DEF FillsTypeOK
  <2>2. bk' \in [Orders -> [status : BrokerStatuses, filled : Nat, quantity : Nat]] /\ setup' \in Setups
    BY <1>0 DEF FillsTypeOK
  <2>3. {own', after', held'} \subseteq [Orders -> BOOLEAN]
    BY <1>1, <1>3
  <2> QED BY <1>2, <1>3, <2>1, <2>2, <2>3 DEF FillsTypeOK, Total
<1>5. BrokerSound'
  BY DEF FillsIInv, BrokerSound, Amends
<1>6. OwnedOK'
  BY <1>0, <1>3 DEF OwnedOK
<1>7. EveryFillProjectedOnce'
  <2> SUFFICES ASSUME NEW x \in Orders, own[x], ~IsChild(x), after'[x]
               PROVE  applied'[x] = snap'[x].filled
    BY DEF EveryFillProjectedOnce, IsChild, Amends
  <2>1. x # o => after[x]
    BY <1>3
  <2> QED BY <1>3, <2>1 DEF FillsIInv, EveryFillProjectedOnce
<1>8. HeldUntilSettled'
  BY DEF FillsIInv, HeldUntilSettled
<1> QED BY <1>4, <1>5, <1>6, <1>7, <1>8 DEF FillsIInv

(* A refusal is recorded beside the quantity trusted so far.                   *)
LEMMA RefusalKeeps ==
  ASSUME FillsIInv, NEW s, Commits(s), RecordRefusal(s), UNCHANGED <<bk, setup>>, BatchOK',
         phase' \in {"idle", "listed", "applying"}, faults' \in 0..setup.faults
  PROVE  FillsIInv'
<1> DEFINE o == s.o
           r == IF Previous(o).seen THEN [snap[o] EXCEPT !.failClosed = TRUE]
                ELSE [NoRow EXCEPT !.seen = TRUE, !.state = s.state, !.failClosed = TRUE]
<1>0. FillsTypeOK /\ setup \in Setups /\ ExactOrBlocked /\ OwnedOK
  BY DEF FillsIInv, FillsTypeOK
<1>1. o \in Orders
  BY DEF Commits
<1>2. UNCHANGED <<own, held, applied, pos, reconcile>>
  BY DEF RecordRefusal
<1>3. /\ snap' = [snap EXCEPT ![o] = r]
      /\ after' = [after EXCEPT ![o] = own[o]]
      /\ Stamp(o)
      /\ ~Previous(o).seen => ~snap[o].seen
  BY Zenon DEF RecordRefusal, InsertCollides
<1>4. /\ applied[o] \in Nat /\ applied \in [Orders -> Nat]
      /\ snap[o] \in Rows /\ snap[o].filled <= bk[o].filled
      /\ held \in [Orders -> BOOLEAN]
  BY <1>0, <1>1 DEF FillsTypeOK
<1>5. r \in Rows /\ r.seen /\ r.filled = snap[o].filled
  <2>1. CASE Previous(o).seen
    <3>1. snap[o].seen
      BY <1>1, <2>1, Baseline
    <3>2. /\ r = [snap[o] EXCEPT !.failClosed = TRUE]
          /\ [snap[o] EXCEPT !.failClosed = TRUE] \in Rows
      BY <1>4, <2>1 DEF Rows
    <3> QED BY <1>4, <3>1, <3>2 DEF Rows
  <2>2. CASE ~Previous(o).seen
    <3>1. snap[o].filled = 0
      BY <1>0, <1>1, <1>3, <2>2 DEF OwnedOK
    <3>2. r = [seen |-> TRUE, filled |-> 0, state |-> s.state, terminal |-> FALSE, failClosed |-> TRUE]
      BY <2>2 DEF NoRow
    <3>3. s.state \in OrderStates
      BY DEF Commits
    <3> HIDE DEF r
    <3> QED BY <3>1, <3>2, <3>3 DEF Rows
  <2> QED BY <2>1, <2>2
<1> HIDE DEF o, r
<1>6. /\ applied[o] <= r.filled
      /\ own[o] /\ ~IsChild(o) => applied[o] = r.filled
      /\ ~own[o] => applied[o] = 0
  <2>1. applied[o] <= snap[o].filled
    BY <1>0, <1>1 DEF FillsTypeOK
  <2>2. Previous(o).seen => Previous(o) = snap[o]
    BY <1>1, Baseline
  <2>3. ~Previous(o).seen => Previous(o).filled = 0 /\ snap[o].filled = 0
    BY <1>0, <1>1, <1>3, Baseline DEF OwnedOK
  <2> QED BY <1>1, <1>5, <2>1, <2>2, <2>3, Baseline
<1>7. applied' = [applied EXCEPT ![o] = applied[o]]
  BY <1>2, <1>4
<1>8. /\ pos' \in [state : PositionStates, quantity : Nat, seq : Nat]
      /\ (pos'.quantity = 0) <=> (pos'.state \in {"FLAT", "CLOSED"})
      /\ pos'.quantity <= Total(Orders \ setup.sells, applied')
      /\ reconcile' \in BOOLEAN
  BY <1>0, <1>2 DEF FillsTypeOK
<1>9. ExactOrBlocked'
  BY <1>0, <1>2 DEF ExactOrBlocked, Total
<1>10. held' \in [Orders -> BOOLEAN] /\ \A x \in Orders : held'[x] = held[x]
  BY <1>2, <1>4
<1> QED BY <1>1, <1>2, <1>3, <1>4, <1>5, <1>6, <1>7, <1>8, <1>9, <1>10, RowKeeps

(* An advance projects what the snapshot adds to the baseline of an owned      *)
(* order, and frees its hold when the broker has settled it.                   *)
LEMMA AdvanceKeeps ==
  ASSUME FillsIInv, NEW s, Commits(s), RecordAdvance(s), UNCHANGED <<bk, setup>>, BatchOK',
         phase' \in {"idle", "listed", "applying"}, faults' \in 0..setup.faults
  PROVE  FillsIInv'
<1> DEFINE o == s.o
           d == Delta(s)
           n == IF own[o] THEN applied[o] + d ELSE applied[o]
           r == Upserted(s)
           B == Orders \ setup.sells
<1>0. FillsTypeOK /\ setup \in Setups /\ ExactOrBlocked /\ HeldUntilSettled
  BY DEF FillsIInv, FillsTypeOK
<1>1. o \in Orders
  BY DEF Commits
<1>2. /\ ~Refused(s) /\ UNCHANGED own
      /\ snap' = [snap EXCEPT ![o] = r]
      /\ after' = [after EXCEPT ![o] = own[o]]
      /\ Stamp(o) /\ ReleaseHolds(s) /\ RunApplyHooks(s)
  BY Zenon DEF RecordAdvance
<1>3. /\ applied[o] \in Nat /\ applied \in [Orders -> Nat]
      /\ held \in [Orders -> BOOLEAN] /\ own[o] \in BOOLEAN
      /\ pos \in [state : PositionStates, quantity : Nat, seq : Nat]
      /\ (pos.quantity = 0) <=> (pos.state \in {"FLAT", "CLOSED"})
      /\ pos.quantity <= Total(B, applied) /\ reconcile \in BOOLEAN
  BY <1>0, <1>1 DEF FillsTypeOK
<1>4. /\ r \in Rows /\ r.seen /\ r.filled = s.filled /\ s.filled <= bk[o].filled
      /\ s.filled \in Nat /\ s.terminal \in BOOLEAN
      /\ s.terminal => bk[o].status \in Settled
  BY DEF Upserted, Rows, Commits
<1>5. /\ d \in Nat /\ d = s.filled - Previous(o).filled
      /\ own[o] => applied[o] <= Previous(o).filled
      /\ own[o] /\ ~IsChild(o) => applied[o] = Previous(o).filled
      /\ ~own[o] => applied[o] = 0
      /\ Previous(o).filled \in Nat
  <2>1. Previous(o).seen => ~(s.filled < Previous(o).filled)
    BY <1>2 DEF Refused
  <2>2. d = s.filled - Previous(o).filled
    BY DEF Delta
  <2> HIDE DEF d, o
  <2> QED BY <1>1, <1>4, <2>1, <2>2, Baseline
<1>6. /\ n \in Nat /\ n <= s.filled
      /\ own[o] /\ ~IsChild(o) => n = s.filled
      /\ ~own[o] => n = 0
  <2> HIDE DEF d, o
  <2> QED BY <1>3, <1>4, <1>5
<1>7. /\ held' \in [Orders -> BOOLEAN]
      /\ \A x \in Orders : held[x] /\ ~held'[x] => own[x] /\ bk[x].status \in Settled
  <2>1. held' = [held EXCEPT ![o] = held[o] /\ ~(s.terminal /\ own[o])]
    BY <1>2 DEF ReleaseHolds, LocallyOwned
  <2>2. (held[o] /\ ~(s.terminal /\ own[o])) \in BOOLEAN
    OBVIOUS
  <2> HIDE DEF o
  <2> QED BY <1>1, <1>3, <1>4, <2>1, <2>2
<1>8. /\ applied' = [applied EXCEPT ![o] = n]
      /\ own[o] => pos' = Projected(s).pos /\ reconcile' = (reconcile \/ Projected(s).refused)
      /\ ~own[o] => UNCHANGED <<pos, reconcile>>
  <2>1. CASE own[o]
    BY <1>2, <2>1 DEF RunApplyHooks, LocallyOwned
  <2>2. CASE ~own[o]
    <3>1. UNCHANGED <<applied, pos, reconcile>>
      BY <1>2, <2>2 DEF RunApplyHooks, LocallyOwned
    <3> QED BY <1>3, <2>2, <3>1
  <2> QED BY <2>1, <2>2
<1> HIDE DEF d, n, r
<1>9. /\ applied' \in [Orders -> Nat] /\ applied'[o] = n
      /\ \A x \in Orders \ {o} : applied'[x] = applied[x]
  BY <1>1, <1>3, <1>6, <1>8
<1>10. /\ Total(B, applied) \in Int /\ Total(setup.sells, applied) \in Int
       /\ Total(B, applied') = IF o \in setup.sells THEN Total(B, applied)
                               ELSE Total(B, applied) + (n - applied[o])
       /\ Total(setup.sells, applied') = IF o \in setup.sells
                                         THEN Total(setup.sells, applied) + (n - applied[o])
                                         ELSE Total(setup.sells, applied)
  <2>1. /\ setup.sells \in SUBSET Orders /\ B \in SUBSET Orders
        /\ IsFiniteSet(setup.sells) /\ IsFiniteSet(B)
    BY <1>0, SetupIs, FS_Subset
  <2>2. applied \in [Orders -> Int] /\ applied' \in [Orders -> Int]
    BY <1>3, <1>9
  <2>3. (\A y \in B \ {o} : applied'[y] = applied[y])
        /\ \A y \in setup.sells \ {o} : applied'[y] = applied[y]
    BY <1>9, <2>1
  <2>4. o \in B <=> o \notin setup.sells
    BY <1>1
  <2> HIDE DEF B, o
  <2>5. /\ Total(B, applied) \in Int
        /\ Total(B, applied') = IF o \in B THEN Total(B, applied) + (applied'[o] - applied[o])
                                ELSE Total(B, applied)
    BY <2>1, <2>2, <2>3, SumChanges DEF Total
  <2>6. /\ Total(setup.sells, applied) \in Int
        /\ Total(setup.sells, applied') = IF o \in setup.sells
                                          THEN Total(setup.sells, applied) + (applied'[o] - applied[o])
                                          ELSE Total(setup.sells, applied)
    BY <2>1, <2>2, <2>3, SumChanges DEF Total
  <2> QED BY <1>9, <2>4, <2>5, <2>6
<1>11. /\ pos' \in [state : PositionStates, quantity : Nat, seq : Nat]
       /\ (pos'.quantity = 0) <=> (pos'.state \in {"FLAT", "CLOSED"})
       /\ pos'.quantity <= Total(B, applied')
       /\ reconcile' \in BOOLEAN
       /\ ExactOrBlocked'
  <2>0. reconcile \/ pos.quantity = Total(B, applied) - Total(setup.sells, applied)
    BY <1>0 DEF ExactOrBlocked
  <2>1. ExactOrBlocked' <=> reconcile' \/ pos'.quantity = Total(B, applied') - Total(setup.sells, applied')
    BY DEF ExactOrBlocked, Total
  <2> HIDE DEF B, o
  <2>2. CASE ~own[o]
    BY <1>3, <1>5, <1>6, <1>8, <1>10, <2>0, <2>1, <2>2
  <2>3. CASE own[o]
    <3> DEFINE disposition == ClassifyDisposition(s.filled, s.quantity, s.terminal, HasReplaceSuccessor(s.o))
               p == Apply(pos, Role(o), d, disposition)
    <3>1. p = Projected(s)
      BY DEF Projected, d, o
    <3>2. /\ Role(o) \in {"ENTRY", "EXIT"}
          /\ o \in setup.sells => Role(o) = "EXIT"
          /\ o \notin setup.sells => Role(o) = "ENTRY"
      BY DEF Role
    <3> HIDE DEF disposition
    <3>3. /\ p.refused \in BOOLEAN
          /\ p.pos \in [state : PositionStates, quantity : Nat, seq : Nat]
          /\ (p.pos.quantity = 0) <=> (p.pos.state \in {"FLAT", "CLOSED"})
          /\ p.refused => p.pos = pos
          /\ ~p.refused => p.pos.quantity = IF Role(o) = "ENTRY" THEN pos.quantity + d
                                            ELSE pos.quantity - d
      BY <1>3, <1>5, <3>2, Applied
    <3> HIDE DEF p
    <3>4. n - applied[o] = d
      BY <1>3, <1>5, <2>3 DEF n
    <3>5. pos' = p.pos /\ reconcile' = (reconcile \/ p.refused)
      BY <1>8, <2>3, <3>1
    <3>6. pos.quantity \in Nat /\ p.pos.quantity \in Nat
      BY <1>3, <3>3
    <3>7. p.pos.quantity <= Total(B, applied')
      BY <1>3, <1>5, <1>10, <3>2, <3>3, <3>4, <3>6
    <3>8. reconcile' \/ p.pos.quantity = Total(B, applied') - Total(setup.sells, applied')
      BY <1>3, <1>5, <1>10, <2>0, <3>2, <3>3, <3>4, <3>5, <3>6
    <3> QED BY <1>3, <2>1, <3>3, <3>5, <3>7, <3>8
  <2> QED BY <1>3, <2>2, <2>3
<1> HIDE DEF o
<1> QED BY <1>1, <1>2, <1>4, <1>6, <1>7, <1>8, <1>11, RowKeeps

(* The snapshots of a cycle are committed one by one.                          *)
LEMMA ApplyKeeps ==
  ASSUME FillsIInv, NEW s \in batch, PollApply(s), UNCHANGED setup
  PROVE  FillsIInv'
<1>0. FillsTypeOK /\ setup \in Setups /\ BatchOK
  BY DEF FillsIInv, FillsTypeOK
<1>1. /\ phase = "applying" /\ UNCHANGED <<bk, setup>>
      /\ RecordRefusal(s) \/ RecordAdvance(s) \/ RecordNothing(s)
  BY DEF PollApply
<1>2. /\ phase' \in {"idle", "listed", "applying"} /\ faults' \in 0..setup.faults
      /\ phase' = "idle" \/ (phase' = "applying" /\ batch' \subseteq batch)
  <2>1. faults \in Nat /\ setup.faults \in Nat /\ faults <= setup.faults
    BY <1>0, SetupIs DEF FillsTypeOK
  <2> QED BY <1>1, <2>1 DEF PollApply
<1>3. BatchOK'
  BY <1>0, <1>1, <1>2 DEF BatchOK
<1>4. Commits(s)
  BY <1>0, <1>1 DEF BatchOK, Commits
<1>5. CASE RecordRefusal(s)
  BY <1>1, <1>2, <1>3, <1>4, <1>5, RefusalKeeps
<1>6. CASE RecordAdvance(s)
  BY <1>1, <1>2, <1>3, <1>4, <1>6, AdvanceKeeps
<1>7. CASE RecordNothing(s)
  BY <1>1, <1>2, <1>3, <1>7, ReadingKeeps DEF RecordNothing
<1> QED BY <1>1, <1>5, <1>6, <1>7

(* The invariant of fill detection.                                            *)
LEMMA FillsStep == FillsIInv /\ [FillsNext]_<<fillVars, setup>> => FillsIInv'
<1> SUFFICES ASSUME FillsIInv, [FillsNext]_<<fillVars, setup>> PROVE FillsIInv'
  OBVIOUS
<1>1. CASE UNCHANGED <<fillVars, setup>>
  <2>1. UNCHANGED <<bk, ledgerVars, setup>> /\ UNCHANGED <<phase, batch, faults>>
    BY <1>1 DEF fillVars, ledgerVars
  <2>2. BatchOK' /\ phase' \in {"idle", "listed", "applying"} /\ faults' \in 0..setup.faults
    BY <2>1 DEF FillsIInv, BatchOK, FillsTypeOK
  <2> QED BY <2>1, <2>2, ReadingKeeps
<1>2. CASE Broker /\ UNCHANGED setup
  BY <1>2, BrokerKeeps
<1>3. CASE SecondPasses /\ UNCHANGED setup
  BY <1>3, LeadKeeps
<1>4. CASE Confirm /\ UNCHANGED setup
  BY <1>4, ConfirmKeeps
<1>5. CASE Cycle /\ UNCHANGED setup
  <2>1. CASE \E s \in batch : PollApply(s)
    BY <1>5, <2>1, ApplyKeeps
  <2>2. CASE ~ \E s \in batch : PollApply(s)
    BY <1>5, <2>2, CycleReads DEF Cycle
  <2> QED BY <2>1, <2>2
<1>6. CASE CycleFails /\ UNCHANGED setup
  BY <1>6, CycleReads
<1> QED BY <1>1, <1>2, <1>3, <1>4, <1>5, <1>6 DEF FillsNext

(* Whatever the detector reads, refuses, repeats or loses, and whenever an     *)
(* order is owned: every fill is projected once, the position is exact or      *)
(* blocked, and no hold is freed before the broker settled the order           *)
(* (RecordFill and ProjectPosition).                                           *)
THEOREM FillsAreSafe == FillsSpec => []FillInv
<1>1. FillsIInv => FillInv
  BY DEF FillsIInv, FillInv
<1> QED BY <1>1, FillsInitial, FillsStep, PTL DEF FillsSpec
=============================================================================
