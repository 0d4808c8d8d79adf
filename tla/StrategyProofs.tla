--------------------------- MODULE StrategyProofs ---------------------------
(* Proofs about the strategy's side of the journal.  First its road to the    *)
(* broker, for every set of leases, every lifetime, and any number of         *)
(* restarts and failed transactions: the one thing needed of the constants is *)
(* that an owner waits out the longest call                                   *)
(* (strategyDispatchOwnerTakeoverGrace).  Then the campaigns of a symbol, for *)
(* any number of campaigns, legs and orders.                                  *)
EXTENDS StrategyDispatch, PositionCampaign, SumTheorems

(* A dispatch runs in the process that acquired the newest epoch, and its     *)
(* lease carries it.                                                          *)
OwnerOK ==
    /\ mine # 0 => up /\ mine = owner
    /\ owner <= crashes + 1
    /\ mine = 0 => owner <= crashes
    /\ \A l \in Leases :
         /\ pc[l] \notin {"idle", "over"} => mine # 0
         /\ pc[l] \notin {"idle", "admitted", "over"} => epoch[l] = mine

(* Where the dispatch of a lease is, its rows and its request are. *)
Undispatched(l) == lease[l] = "none" /\ core[l] = "none"
Submitting(l, state) ==
    lease[l] = "SUBMITTING" /\ core[l] = state /\ hold[l] = "HELD" /\ buckets[l] = "HELD"

StagesAgree ==
    \A l \in Leases :
        /\ pc[l] = "idle" => Undispatched(l) /\ hold[l] = "none" /\ buckets[l] = "none"
        /\ pc[l] = "admitted" => Undispatched(l)
        /\ pc[l] = "issued" => lease[l] = "ISSUED" /\ core[l] = "none"
        /\ pc[l] = "claimed" => lease[l] \in {"CLAIMED", "REFUSED"} /\ core[l] = "none"
        /\ pc[l] = "prepared" => lease[l] \in {"CLAIMED", "REFUSED"} /\ core[l] = "RECORDED"
        /\ pc[l] \in {"begun", "fenced", "sent", "answered"} => Submitting(l, "DISPATCH_STARTED")
        /\ pc[l] = "acked" => Submitting(l, "ACKED") /\ wire[l] = "accepted"
        /\ pc[l] \in {"begun", "fenced"} => wire[l] = "none"

(* Nothing leaves before the lease is submitted and the attempt started. *)
UnsentBefore ==
    \A l \in Leases : lease[l] \in {"none", "ISSUED", "CLAIMED"} \/ core[l] \in {"none", "RECORDED"}
                        => wire[l] = "none"

(* What the client reads is no more than what the broker said. *)
AnswerIsTrue ==
    \A l \in Leases :
        /\ pc[l] = "answered" => /\ answer[l] = "NOT_SENT" => wire[l] = "none"
                                 /\ answer[l] = "REJECTED" => wire[l] = "rejected"
                                 /\ answer[l] = "ACKED" => wire[l] = "accepted"
        /\ pc[l] = "acked" => answer[l] = "ACKED"

(* A call starts while its lease lives, so the lease has been over for no     *)
(* longer than the call has lasted.                                           *)
CallsInTime ==
    \A l \in Leases : pc[l] \in {"fenced", "sent"} \/ wire[l] = "out" => left[l] + age[l] > 0

LeaseIInv ==
    /\ TypeOK /\ OwnerOK /\ StagesAgree /\ UnsentBefore /\ AnswerIsTrue /\ CallsInTime
    /\ HoldsWhileExposed /\ OneEpochOnTheWire /\ LeaseTellsTruth

USE ConstantsAssumption DEF journal, obstacles, process

(* What an answer may settle an attempt as (DispatchStrategyVerified).        *)
LEMMA TargetsAreTrue ==
    ASSUME NEW l, NEW to \in Targets(l), pc[l] = "acked" => answer[l] = "ACKED"
    PROVE  /\ pc[l] = "acked" => to \in {"CONFIRMED", "IN_DOUBT"}
           /\ pc[l] # "acked" =>
                /\ answer[l] = "NOT_SENT" => to = "NOT_DISPATCHED"
                /\ answer[l] = "REJECTED" => to = "FAILED_CONFIRMED"
                /\ answer[l] \notin {"NOT_SENT", "REJECTED"} => to = "IN_DOUBT"
  <1>1. CASE pc[l] = "acked"
    BY <1>1 DEF Targets
  <1>2. CASE pc[l] # "acked" /\ answer[l] = "NOT_SENT"
    BY <1>2 DEF Targets
  <1>3. CASE pc[l] # "acked" /\ answer[l] = "REJECTED"
    BY <1>3 DEF Targets
  <1>4. CASE pc[l] # "acked" /\ answer[l] \notin {"NOT_SENT", "REJECTED"}
    BY <1>4 DEF Targets
  <1> QED BY <1>1, <1>2, <1>3, <1>4

(* One step of the dispatch of a lease keeps it (strategyDispatchCycle.dispatch, *)
(* PlaceClaimedStrategy, settleStrategyDispatchTx).                           *)
LEMMA DispatchKeeps ==
    ASSUME LeaseIInv, NEW l \in Leases, Dispatch(l)
    PROVE  LeaseIInv'
  <1> USE DEF LeaseIInv, TypeOK, OwnerOK, StagesAgree, Undispatched, Submitting, UnsentBefore,
          AnswerIsTrue, CallsInTime, HoldsWhileExposed, OneEpochOnTheWire, LeaseTellsTruth,
          Goto, requireCurrentOwner, LeaseStates, CoreStates, Steps, Answers
  <1>1. CASE Admit(l)
    BY <1>1 DEF Admit
  <1>2. CASE IssueVerifiedFirstLegStrategyDispatchLease(l)
    BY SMTT(30), <1>2 DEF IssueVerifiedFirstLegStrategyDispatchLease
  <1>3. CASE ClaimStrategyDispatchLease(l)
    BY <1>3 DEF ClaimStrategyDispatchLease, refuseStrategyDispatchClaimTx, releaseHolds
  <1>4. CASE Prepare(l)
    BY <1>4 DEF Prepare
  <1>5. CASE RefuseClaimedStrategyDispatchPreTransport(l)
    BY SMTT(30), <1>5 DEF RefuseClaimedStrategyDispatchPreTransport, ClaimedBinding,
       refuseClaimedStrategyDispatchSubmittingTx, releaseHolds
  <1>6. CASE RefuseClaimedStrategyPreTransport(l)
    BY SMTT(30), <1>6 DEF RefuseClaimedStrategyPreTransport, ClaimedBinding,
       refuseClaimedStrategyDispatchSubmittingTx, releaseHolds
  <1>7. CASE beginStrategyDispatchTx(l)
    BY <1>7 DEF beginStrategyDispatchTx, ClaimedBinding, AuthorityCurrent
  <1>8. CASE RequireCurrentStrategyDispatchTransportAuthority(l)
    BY <1>8 DEF RequireCurrentStrategyDispatchTransportAuthority, FencePasses
  <1>9. CASE NotSent(l)
    BY <1>9 DEF NotSent
  <1>10. CASE Send(l)
    BY <1>10 DEF Send
  <1>11. CASE Answer(l)
    BY <1>11 DEF Answer, Read
  <1>12. CASE MarkAcked(l)
    BY <1>12 DEF MarkAcked
  <1>13. CASE settleStrategyDispatchTx(l)
    <2>0. /\ UNCHANGED <<owner, epoch, left, obstacles, up, mine, answer, wire, age, crashes, faults>>
          /\ pc' = [pc EXCEPT ![l] = "over"] /\ lease[l] = "SUBMITTING"
          /\ hold[l] = "HELD" /\ buckets[l] = "HELD"
      BY <1>13 DEF settleStrategyDispatchTx, Settling, OutcomeHolds
    <2>1. \/ /\ wire[l] \in {"none", "rejected"}
             /\ \E to \in {"NOT_DISPATCHED", "FAILED_CONFIRMED"} : core' = [core EXCEPT ![l] = to]
             /\ lease' = [lease EXCEPT ![l] = "REFUSED"]
             /\ hold' = [hold EXCEPT ![l] = "RELEASED"] /\ buckets' = [buckets EXCEPT ![l] = "RELEASED"]
          \/ /\ wire[l] = "accepted"
             /\ core' = [core EXCEPT ![l] = "CONFIRMED"]
             /\ lease' = [lease EXCEPT ![l] = "SUBMITTED"]
             /\ buckets' = [buckets EXCEPT ![l] = "TRANSFERRED"] /\ UNCHANGED hold
          \/ /\ core' = [core EXCEPT ![l] = "IN_DOUBT"]
             /\ lease' = [lease EXCEPT ![l] = "AMBIGUOUS"]
             /\ UNCHANGED <<hold, buckets>>
      <3>1. PICK to \in Targets(l) :
              /\ core' = [core EXCEPT ![l] = to]
              /\ lease' = [lease EXCEPT ![l] = deriveStrategyDispatchOutcome(to)]
              /\ CASE deriveStrategyDispatchOutcome(to) = "REFUSED" -> releaseHolds(l)
                   [] deriveStrategyDispatchOutcome(to) = "SUBMITTED" -> linkConfirmedStrategyDispatchTx(l)
                   [] OTHER -> UNCHANGED <<hold, buckets>>
        BY <1>13 DEF settleStrategyDispatchTx
      <3>2. /\ to \in {"CONFIRMED", "IN_DOUBT", "NOT_DISPATCHED", "FAILED_CONFIRMED"}
            /\ to = "CONFIRMED" => wire[l] = "accepted"
            /\ to \in {"NOT_DISPATCHED", "FAILED_CONFIRMED"} => wire[l] \in {"none", "rejected"}
        BY <1>13, <3>1, TargetsAreTrue DEF settleStrategyDispatchTx, Settling
      <3>3. CASE to = "CONFIRMED"
        BY <3>1, <3>2, <3>3 DEF deriveStrategyDispatchOutcome, linkConfirmedStrategyDispatchTx
      <3>4. CASE to = "IN_DOUBT"
        BY <3>1, <3>4 DEF deriveStrategyDispatchOutcome
      <3>5. CASE to \in {"NOT_DISPATCHED", "FAILED_CONFIRMED"}
        <4>1. deriveStrategyDispatchOutcome(to) = "REFUSED"
          BY <3>5 DEF deriveStrategyDispatchOutcome
        <4> QED BY <3>1, <3>2, <3>5, <4>1 DEF releaseHolds
      <3> QED BY <3>2, <3>3, <3>4, <3>5
    <2>2. TypeOK' /\ OwnerOK'
      <3>1. /\ lease' \in [Leases -> LeaseStates] /\ core' \in [Leases -> CoreStates]
            /\ hold' \in [Leases -> {"none", "HELD", "RELEASED"}]
            /\ buckets' \in [Leases -> {"none", "HELD", "RELEASED", "TRANSFERRED"}]
        BY <2>1
      <3>2. pc' \in [Leases -> Steps] /\ UNCHANGED <<blocked, failClosed>>
        BY <2>0
      <3> QED BY <2>0, <3>1, <3>2
    <2>3. StagesAgree' /\ AnswerIsTrue' /\ CallsInTime'
      BY <2>0, <2>1
    <2>4. UnsentBefore'
      BY <2>0, <2>1
    <2>5. HoldsWhileExposed' /\ OneEpochOnTheWire'
      BY <2>0, <2>1
    <2>6. LeaseTellsTruth'
      BY <2>0, <2>1
    <2> QED BY <2>2, <2>3, <2>4, <2>5, <2>6
  <1>14. CASE SettlementRefused(l)
    BY <1>14 DEF SettlementRefused, Settling
  <1> QED BY <1>1, <1>2, <1>3, <1>4, <1>5, <1>6, <1>7, <1>8, <1>9, <1>10, <1>11, <1>12, <1>13, <1>14
          DEF Dispatch

(* So does what happens beside the dispatch: the broker, the resolver, the    *)
(* sweep, a failed transaction, an end of the process and its recovery.       *)
LEMMA OthersKeep ==
    ASSUME LeaseIInv,
           \/ AcquireStrategyDispatchOwner \/ Crash \/ RecoverPending \/ Tick
           \/ \E l \in Leases :
                 \/ Broker(l) \/ TransactionFails(l) \/ RecoverClaimedStrategyDispatchLease(l)
                 \/ Resolve(l) \/ SweepExpired(l) \/ BlockCampaign(l)
                 \/ RecordFillSnapshot(l)
    PROVE  LeaseIInv'
  <1> USE DEF LeaseIInv, TypeOK, OwnerOK, StagesAgree, Undispatched, Submitting, UnsentBefore,
          AnswerIsTrue, CallsInTime, HoldsWhileExposed, OneEpochOnTheWire, LeaseTellsTruth,
          Goto, requireCurrentOwner, LeaseStates, CoreStates, Steps, Answers, Idle, InFlight
  <1>1. CASE AcquireStrategyDispatchOwner
    BY <1>1 DEF AcquireStrategyDispatchOwner, Busy
  <1>2. CASE Crash
    <2>0. /\ UNCHANGED <<owner, lease, epoch, core, hold, buckets, left, obstacles, answer, wire, age, faults>>
          /\ crashes < MaxCrashes /\ crashes' = crashes + 1 /\ up' = FALSE /\ mine' = 0
          /\ pc' = [l \in Leases |-> IF pc[l] = "idle" THEN "idle" ELSE "over"]
      BY <1>2 DEF Crash
    <2>1. TypeOK'
      <3>1. crashes' \in 0..MaxCrashes /\ mine' \in 0..owner
        BY <2>0
      <3> QED BY <2>0, <3>1
    <2>2. OwnerOK' /\ StagesAgree' /\ UnsentBefore' /\ AnswerIsTrue' /\ CallsInTime'
      BY <2>0
    <2>3. HoldsWhileExposed' /\ OneEpochOnTheWire' /\ LeaseTellsTruth'
      BY <2>0
    <2> QED BY <2>1, <2>2, <2>3
  <1>3. CASE RecoverPending
    BY <1>3 DEF RecoverPending
  <1>4. CASE Tick
    BY <1>4 DEF Tick
  <1>5. ASSUME NEW l \in Leases, Broker(l) PROVE LeaseIInv'
    BY <1>5 DEF Broker
  <1>6. ASSUME NEW l \in Leases, TransactionFails(l) PROVE LeaseIInv'
    BY <1>6 DEF TransactionFails
  <1>7. ASSUME NEW l \in Leases, RecoverClaimedStrategyDispatchLease(l) PROVE LeaseIInv'
    BY <1>7 DEF RecoverClaimedStrategyDispatchLease, refuseClaimedStrategyDispatchSubmittingTx,
       releaseHolds, recoverablePreparedStrategyAttempt
  <1>8. ASSUME NEW l \in Leases, Resolve(l) PROVE LeaseIInv'
    BY <1>8 DEF Resolve
  <1>9. ASSUME NEW l \in Leases, SweepExpired(l) PROVE LeaseIInv'
    BY <1>9 DEF SweepExpired
  <1>10. ASSUME NEW l \in Leases, BlockCampaign(l) PROVE LeaseIInv'
    BY <1>10 DEF BlockCampaign
  <1>11. ASSUME NEW l \in Leases, RecordFillSnapshot(l) PROVE LeaseIInv'
    BY <1>11 DEF RecordFillSnapshot
  <1> QED BY <1>1, <1>2, <1>3, <1>4, <1>5, <1>6, <1>7, <1>8, <1>9, <1>10, <1>11

(* Through crashes, takeovers, sweeps and resolutions: money stays set aside  *)
(* for every request that may be an order, no newer owner exists while one is *)
(* on its way, and a lease ends as what happened at the broker                *)
(* (strategy_dispatch_runtime.go).                                            *)
THEOREM LeasesAreSafe == Spec => []LeaseInv
  <1>1. Init => LeaseIInv
    BY DEF Init, LeaseIInv, TypeOK, OwnerOK, StagesAgree, Undispatched, Submitting, UnsentBefore,
       AnswerIsTrue, CallsInTime, HoldsWhileExposed, OneEpochOnTheWire, LeaseTellsTruth,
       LeaseStates, CoreStates, Steps, Answers
  <1>2. LeaseIInv /\ [Next]_vars => LeaseIInv'
    <2> SUFFICES ASSUME LeaseIInv, [Next]_vars PROVE LeaseIInv'
      OBVIOUS
    <2>1. CASE UNCHANGED vars
      BY <2>1 DEF vars, LeaseIInv, TypeOK, OwnerOK, StagesAgree, Undispatched, Submitting,
         UnsentBefore, AnswerIsTrue, CallsInTime, HoldsWhileExposed, OneEpochOnTheWire, LeaseTellsTruth
    <2> QED BY <2>1, DispatchKeeps, OthersKeep DEF Next
  <1>3. LeaseIInv => LeaseInv
    BY DEF LeaseIInv, LeaseInv
  <1> QED BY <1>1, <1>2, <1>3, PTL DEF Spec

(* ---------------------- campaigns of one symbol ---------------------- *)

PlannedLegs(b, c) == {n \in Legs : b.leg[c][n].state # "NONE"}
ActiveIn(b, c) == b.camp[c].state \in {"PLANNED", "ACTIVE", "EXITING", "RECONCILE"}
SetAside(b, c) == b.camp[c].blocked /\ b.camp[c].state \in {"RECONCILE", "CLOSED"}

(* The legs are planned in order; what a leg has filled is what its orders    *)
(* have; a campaign that was not created has nothing.                         *)
LegsFollow(b) ==
    \A c \in Campaigns :
        /\ \E k \in 0..Cardinality(Legs) : PlannedLegs(b, c) = 1..k
        /\ b.camp[c].state = "NONE" => b.camp[c] = NoCampaign /\ PlannedLegs(b, c) = {}
        /\ \A n \in Legs : /\ b.leg[c][n].state = "NONE" => b.leg[c][n] = NoLeg
                           /\ b.leg[c][n].filled = LegFilled(b, c, n)
                           /\ b.leg[c][n].residual
                                = RemainingFromCap(b.leg[c][n].requested, b.leg[c][n].filled)

(* An order belongs to a planned leg of a campaign that was under way.        *)
OrdersJoin(b) ==
    \A o \in Orders :
        /\ b.ord[o].campaign = None => b.ord[o] = NoOrder
        /\ b.ord[o].campaign # None =>
             /\ b.ord[o].leg \in PlannedLegs(b, b.ord[o].campaign)
             /\ b.camp[b.ord[o].campaign].state \notin {"NONE", "PLANNED"}

SurplusAside(b) ==
    /\ \A c \in Campaigns, n \in Legs :
         b.leg[c][n].filled > b.leg[c][n].requested => SetAside(b, c)
    /\ \A o \in Orders :
         /\ b.ord[o].cum > b.ord[o].cap => SetAside(b, b.ord[o].campaign)
         /\ b.ord[o].missed /\ b.ord[o].cum > 0 => SetAside(b, b.ord[o].campaign)

(* One campaign is active at a time, and an inactive one owns a position only *)
(* if the account is set aside: what owns a position has filled something.    *)
OneOwner(b) ==
    /\ \A c, x \in Campaigns : ActiveIn(b, c) /\ ActiveIn(b, x) => c = x
    /\ \A c \in Campaigns : b.camp[c].bound # 0 =>
         /\ b.account \/ ActiveIn(b, c)
         /\ \E o \in Orders : b.ord[o].campaign = c /\ b.ord[o].cum > 0

SuccessorsFit(b) ==
    \A o \in Orders :
        b.ord[o].campaign # None /\ b.ord[o].pred # None /\ ~b.ord[o].terminal
          => b.ord[o].remaining <= b.leg[b.ord[o].campaign][b.ord[o].leg].residual

StoppedIsBlocked(b) ==
    \A c \in Campaigns : b.camp[c].state \in BlockingStates => b.camp[c].blocked

(* The rows alone. *)
RowInv(b) ==
    /\ LegsFollow(b) /\ OrdersJoin(b) /\ SurplusAside(b) /\ OneOwner(b) /\ SuccessorsFit(b)
    /\ StoppedIsBlocked(b)

(* The events of a campaign that takes entries rebuild it, legs included.     *)
EventsFollow(b, c) ==
    ~b.camp[c].blocked /\ c \notin b.revived =>
        /\ b.replay[c].valid /\ ~b.replay[c].blocked
        /\ b.replay[c].state = b.camp[c].state
        /\ b.replay[c].bound = b.camp[c].bound
        /\ b.replay[c].stop = b.camp[c].stop
        /\ \A n \in Legs : b.replay[c].leg[n] = b.leg[c][n].state

BookInv(b) == b \in Books /\ RowInv(b) /\ \A c \in Campaigns : EventsFollow(b, c)

(* The campaign knows no more of an order than RecordFill has recorded.       *)
SeenFirst ==
    \A o \in Orders : /\ book.ord[o].cum <= seen[o].cum
                      /\ book.ord[o].missed => seen[o].cum > 0

CampaignIInv == CampaignTypeOK /\ BookInv(book) /\ SeenFirst

(* What no step takes back. *)
Keeps(b1, b2) ==
    /\ \A c \in Campaigns : /\ b1.camp[c].blocked => b2.camp[c].blocked
                            /\ b2.camp[c].stop >= b1.camp[c].stop
                            /\ b1.camp[c].bound # 0 => b2.camp[c].bound = b1.camp[c].bound
    /\ \A o \in Orders : b2.ord[o].cum >= b1.ord[o].cum

(* What the assumption says of the constants, in the form the proofs use. *)
LEMMA ConstantsAre ==
    /\ Stops \cup {0} \subseteq Nat /\ Quantities \cup {0} \subseteq Nat
    /\ None \notin Campaigns /\ None \notin Orders /\ 0 \notin Legs /\ 1 \in Legs
    /\ Cardinality(Legs) \in Nat /\ Legs \subseteq Nat
<1>1. Cardinality(Legs) \in Nat /\ Legs = 1..Cardinality(Legs) /\ Legs # {}
  BY FS_CardinalityType, CampaignAssumption
<1>2. 0 \notin Legs /\ 1 \in Legs /\ Legs \subseteq Nat
  BY <1>1
<1>3. Stops \cup {0} \subseteq Nat /\ Quantities \cup {0} \subseteq Nat
  BY CampaignAssumption
<1> QED BY <1>1, <1>2, <1>3, CampaignAssumption

(* What a leg has filled is a number that no order of the leg exceeds. *)
LEMMA LegFilledIs ==
    ASSUME NEW b \in Books, NEW c, NEW n
    PROVE  /\ LegFilled(b, c, n) \in Nat
           /\ \A o \in OrdersOf(b, c, n) : b.ord[o].cum <= LegFilled(b, c, n)
           /\ (\A o \in OrdersOf(b, c, n) : b.ord[o].cum = 0) => LegFilled(b, c, n) = 0
<1> DEFINE f == [o \in Orders |-> IF o \in OrdersOf(b, c, n) THEN b.ord[o].cum ELSE 0]
<1>1. f \in [Orders -> Nat] /\ f \in [Orders -> Int] /\ Orders \in SUBSET Orders
  BY DEF Books, OrderRows
<1>2. LegFilled(b, c, n) = SumFunctionOnSet(f, Orders)
  BY DEF LegFilled
<1>3. \A o \in OrdersOf(b, c, n) : o \in Orders /\ f[o] = b.ord[o].cum
  BY DEF OrdersOf
<1>4. (\A o \in OrdersOf(b, c, n) : b.ord[o].cum = 0) => \A o \in Orders : f[o] = 0
  OBVIOUS
<1>5. IsFiniteSet(Orders)
  BY CampaignAssumption
<1> HIDE DEF f
<1>6. SumFunctionOnSet(f, Orders) \in Nat /\ \A o \in Orders : f[o] <= SumFunctionOnSet(f, Orders)
  BY <1>1, <1>5, SumOfNats
<1>7. (\A o \in Orders : f[o] = 0) => SumFunctionOnSet(f, Orders) = 0
  BY <1>1, <1>5, SumOfZeros
<1> QED BY <1>2, <1>3, <1>4, <1>6, <1>7

(* Two books whose orders agree for a leg have filled the same of it. *)
LEMMA LegFilledSame ==
    ASSUME NEW b1, NEW b2, NEW c, NEW n,
           \A o \in Orders : (IF b1.ord[o].campaign = c /\ b1.ord[o].leg = n THEN b1.ord[o].cum ELSE 0)
                             = (IF b2.ord[o].campaign = c /\ b2.ord[o].leg = n THEN b2.ord[o].cum ELSE 0)
    PROVE  LegFilled(b1, c, n) = LegFilled(b2, c, n)
<1>1. [o \in Orders |-> IF o \in OrdersOf(b1, c, n) THEN b1.ord[o].cum ELSE 0]
      = [o \in Orders |-> IF o \in OrdersOf(b2, c, n) THEN b2.ord[o].cum ELSE 0]
  BY DEF OrdersOf
<1> QED BY <1>1, Zenon DEF LegFilled

OnLeg == {"LEG_PLANNED", "ORDER_LINKED", "ORDER_WATERMARK_ADVANCED"}

(* The fold stays a campaign as Replay builds it. *)
LEMMA ReplayedType ==
    ASSUME NEW b \in Books, NEW c \in Campaigns, NEW kind, NEW n, NEW o, NEW delta, NEW g \in Nat,
           kind \in OnLeg => n \in Legs
    PROVE  Replayed(b, c, kind, n, o, delta, g) \in Replays
<1> DEFINE R == Replayed(b, c, kind, n, o, delta, g)
<1>1. b.replay[c] \in Replays /\ b.camp[c] \in CampaignRows
  BY DEF Books
<1>2. kind \in OnLeg => b.leg[c][n].state \in LegStates
  BY DEF Books, LegRows
<1>3. \/ R = b.replay[c]
      \/ R = [b.replay[c] EXCEPT !.valid = FALSE]
      \/ R = [valid |-> TRUE, state |-> b.camp[c].state, blocked |-> b.camp[c].blocked,
              stop |-> b.camp[c].stop, bound |-> IF g # 0 THEN g ELSE b.replay[c].bound,
              leg |-> IF kind \in OnLeg THEN [b.replay[c].leg EXCEPT ![n] = b.leg[c][n].state]
                                        ELSE b.replay[c].leg]
  BY DEF Replayed, OnLeg
<1>4. (IF kind \in OnLeg THEN [b.replay[c].leg EXCEPT ![n] = b.leg[c][n].state]
                            ELSE b.replay[c].leg) \in [Legs -> LegStates]
  BY <1>1, <1>2 DEF Replays
<1>5. [b.replay[c] EXCEPT !.valid = FALSE] \in Replays
  BY <1>1 DEF Replays
<1>6. [valid |-> TRUE, state |-> b.camp[c].state, blocked |-> b.camp[c].blocked,
       stop |-> b.camp[c].stop, bound |-> IF g # 0 THEN g ELSE b.replay[c].bound,
       leg |-> IF kind \in OnLeg THEN [b.replay[c].leg EXCEPT ![n] = b.leg[c][n].state]
                                 ELSE b.replay[c].leg] \in Replays
  BY <1>1, <1>4 DEF Replays, CampaignRows
<1> HIDE DEF R
<1> QED BY <1>1, <1>3, <1>5, <1>6 DEF R

(* An event is recorded beside the rows, which stay. *)
LEMMA RecordedChanges ==
    ASSUME NEW b \in Books, NEW c \in Campaigns, NEW kind, NEW n, NEW o, NEW delta, NEW g \in Nat,
           kind \in OnLeg => n \in Legs
    PROVE  LET r == Recorded(b, c, kind, n, o, delta, g)
           IN  /\ r \in Books
               /\ r.camp = b.camp /\ r.leg = b.leg /\ r.ord = b.ord /\ r.claim = b.claim
               /\ r.account = b.account /\ r.revived = b.revived
               /\ r.replay[c] = Replayed(b, c, kind, n, o, delta, g)
               /\ \A x \in Campaigns \ {c} : r.replay[x] = b.replay[x]
BY ReplayedType DEF Recorded, Books

(* An event that carries what the command wrote is replayed to it. *)
LEMMA ReplayedAgrees ==
    ASSUME NEW b \in Books, NEW c \in Campaigns, NEW kind, NEW n, NEW o, NEW delta, NEW g \in Nat,
           kind \in OnLeg => n \in Legs,
           b.replay[c].valid, ~b.replay[c].blocked, ~b.camp[c].blocked,
           b.camp[c].state \notin BlockingStates,
           ReplayedState(b.replay[c], kind, b.camp[c]) = b.camp[c].state,
           IF g # 0 THEN /\ g = (IF b.replay[c].bound # 0 THEN b.replay[c].bound ELSE b.camp[c].expected + 1)
                         /\ b.camp[c].bound = g
                    ELSE b.camp[c].bound = b.replay[c].bound,
           b.camp[c].stop >= b.replay[c].stop,
           kind \in OnLeg =>
             /\ b.leg[c][n].state = ReplayedLeg(b.replay[c], b, c, kind, n, o, delta)
             /\ b.leg[c][n].filled = LegFilled(b, c, n)
             /\ b.leg[c][n].residual = RemainingFromCap(b.leg[c][n].requested, b.leg[c][n].filled),
           kind \in OnLeg \ {"LEG_PLANNED"} =>
             b.ord[o].remaining = StoredOrderRemaining(b.ord[o], b.leg[c][n].residual),
           \A m \in Legs : kind \notin OnLeg \/ m # n => b.replay[c].leg[m] = b.leg[c][m].state
    PROVE  EventsFollow(Recorded(b, c, kind, n, o, delta, g), c)
<1> DEFINE R == Replayed(b, c, kind, n, o, delta, g)
<1>1. b.replay[c] \in Replays /\ b.camp[c] \in CampaignRows
  BY DEF Books
<1>2. R = [valid |-> TRUE, state |-> b.camp[c].state, blocked |-> b.camp[c].blocked,
           stop |-> b.camp[c].stop, bound |-> IF g # 0 THEN g ELSE b.replay[c].bound,
           leg |-> IF kind \in OnLeg THEN [b.replay[c].leg EXCEPT ![n] = b.leg[c][n].state]
                                     ELSE b.replay[c].leg]
  BY <1>1 DEF Replayed, OnLeg, Replays, CampaignRows, LatchEntryBlocked, BlockingStates
<1> HIDE DEF R
<1>3. \A m \in Legs : R.leg[m] = b.leg[c][m].state
  BY <1>1, <1>2 DEF Replays
<1> DEFINE r == Recorded(b, c, kind, n, o, delta, g)
<1>4. r.camp = b.camp /\ r.leg = b.leg /\ r.replay[c] = R
  BY RecordedChanges DEF R
<1> HIDE DEF r
<1>5. EventsFollow(r, c)
  BY <1>2, <1>3, <1>4 DEF EventsFollow
<1> QED BY <1>5 DEF r

(* The rows' invariant reads nothing but the rows. *)
LEMMA RowsAlone ==
    ASSUME NEW b1, NEW b2, RowInv(b1), b2.camp = b1.camp, b2.leg = b1.leg, b2.ord = b1.ord,
           b2.account = b1.account
    PROVE  RowInv(b2)
<1>1. \A c, n : LegFilled(b2, c, n) = LegFilled(b1, c, n)
  BY LegFilledSame
<1>2. \A c : PlannedLegs(b2, c) = PlannedLegs(b1, c) /\ (ActiveIn(b2, c) <=> ActiveIn(b1, c))
             /\ (SetAside(b2, c) <=> SetAside(b1, c))
  BY DEF PlannedLegs, ActiveIn, SetAside
<1>3. LegsFollow(b2)
  BY <1>1, <1>2 DEF RowInv, LegsFollow
<1>4. OrdersJoin(b2) /\ SurplusAside(b2) /\ OneOwner(b2) /\ SuccessorsFit(b2) /\ StoppedIsBlocked(b2)
  BY SMTT(30), <1>2 DEF RowInv, OrdersJoin, SurplusAside, OneOwner, SuccessorsFit, StoppedIsBlocked
<1> QED BY <1>3, <1>4 DEF RowInv

(* ------------------------------ commands ------------------------------ *)

(* What follows for a book whose rows and whose events of one campaign change. *)
LEMMA BookFollows ==
    ASSUME NEW b, NEW b2, BookInv(b), NEW c \in Campaigns, RowInv(b2), b2 \in Books,
           \A x \in Campaigns \ {c} :
             /\ b2.camp[x] = b.camp[x] /\ b2.leg[x] = b.leg[x] /\ b2.replay[x] = b.replay[x],
           b.revived \subseteq b2.revived,
           EventsFollow(b2, c)
    PROVE  BookInv(b2)
<1>1. \A x \in Campaigns \ {c} : EventsFollow(b2, x)
  BY SMTT(30) DEF BookInv, EventsFollow
<1> QED BY <1>1 DEF BookInv

(* CreatePositionCampaign. *)
LEMMA CreatedKeeps ==
    ASSUME BookInv(book), NEW c \in Campaigns, MayCreate(c), pos.seq \in Nat
    PROVE  /\ BookInv(Created(book, c)) /\ Keeps(book, Created(book, c))
           /\ Created(book, c).ord = book.ord
           /\ Created(book, c).camp[c].state = "PLANNED" /\ ~Created(book, c).camp[c].blocked
           /\ PlannedLegs(Created(book, c), c) = {}
<1> DEFINE row == [NoCampaign EXCEPT !.state = "PLANNED", !.expected = pos.seq]
           b1 == [book EXCEPT !.camp[c] = row, !.claim = c]
           r  == Created(book, c)
<1>0. /\ book \in Books /\ RowInv(book) /\ EventsFollow(book, c)
      /\ book.camp[c] = NoCampaign /\ PlannedLegs(book, c) = {}
      /\ \A x \in Campaigns : ~ActiveIn(book, x)
  BY DEF BookInv, RowInv, LegsFollow, MayCreate, Active, ActiveIn
<1>2. /\ row \in CampaignRows /\ row.state = "PLANNED" /\ ~row.blocked /\ row.bound = 0 /\ row.stop = 0
      /\ row.expected = pos.seq
  <2>1. /\ NoCampaign \in CampaignRows /\ ~NoCampaign.blocked /\ NoCampaign.bound = 0
        /\ NoCampaign.stop = 0
    BY DEF NoCampaign, CampaignRows, CampaignStates
  <2> QED BY <2>1 DEF CampaignRows, CampaignStates
<1>r. r = Recorded(b1, c, "CREATED", 0, None, 0, 0)
  BY DEF Created
<1> HIDE DEF row
<1>1. /\ b1.camp = [book.camp EXCEPT ![c] = row] /\ b1.leg = book.leg /\ b1.ord = book.ord
      /\ b1.account = book.account /\ b1.revived = book.revived /\ b1.replay = book.replay
  BY <1>0 DEF Books
<1>4. b1 \in Books
  BY <1>0, <1>2 DEF Books
<1> HIDE DEF b1, r
<1>5. b1.camp[c] = row /\ \A x \in Campaigns \ {c} : b1.camp[x] = book.camp[x]
  BY <1>0, <1>1 DEF Books
<1>6. /\ r \in Books /\ r.camp = b1.camp /\ r.leg = b1.leg /\ r.ord = b1.ord
      /\ r.account = b1.account /\ r.revived = b1.revived
      /\ \A x \in Campaigns \ {c} : r.replay[x] = b1.replay[x]
  BY <1>4, <1>r, RecordedChanges DEF OnLeg
<1>7. RowInv(b1)
  <2>1. \A x, n : LegFilled(b1, x, n) = LegFilled(book, x, n)
    BY <1>1, LegFilledSame
  <2>2. \A x \in Campaigns : PlannedLegs(b1, x) = PlannedLegs(book, x)
    BY <1>1 DEF PlannedLegs
  <2>3. LegsFollow(b1)
    BY <1>0, <1>1, <1>2, <1>5, <2>1, <2>2 DEF RowInv, LegsFollow
  <2>4. OrdersJoin(b1)
    BY SMTT(30), <1>0, <1>1, <1>2, <1>5, <2>2 DEF RowInv, OrdersJoin, NoCampaign, PlannedLegs, Books, OrderRows
  <2>5. SurplusAside(b1)
    BY SMTT(30), <1>0, <1>1, <1>2, <1>5 DEF RowInv, SurplusAside, SetAside, NoCampaign, OrdersJoin, Books, OrderRows, NoOrder
  <2>6. OneOwner(b1)
    BY <1>0, <1>1, <1>2, <1>5 DEF RowInv, OneOwner, ActiveIn, NoCampaign
  <2>7. SuccessorsFit(b1) /\ StoppedIsBlocked(b1)
    BY <1>0, <1>1, <1>2, <1>5 DEF RowInv, SuccessorsFit, StoppedIsBlocked, BlockingStates
  <2> QED BY <2>3, <2>4, <2>5, <2>6, <2>7 DEF RowInv
<1>3. row.state \notin BlockingStates
  BY <1>2 DEF BlockingStates
<1>8. EventsFollow(r, c) \/ c \in book.revived
  <2> SUFFICES ASSUME c \notin book.revived PROVE EventsFollow(r, c)
    OBVIOUS
  <2>1. /\ book.replay[c].valid /\ ~book.replay[c].blocked /\ book.replay[c].state = "NONE"
        /\ book.replay[c].bound = 0 /\ book.replay[c].stop = 0
        /\ \A n \in Legs : book.replay[c].leg[n] = book.leg[c][n].state
    BY <1>0 DEF EventsFollow, NoCampaign
  <2>2. ReplayedState(b1.replay[c], "CREATED", b1.camp[c]) = b1.camp[c].state
    BY <1>2, <1>5 DEF ReplayedState
  <2>3. "CREATED" \notin OnLeg
    BY DEF OnLeg
  <2>4. /\ b1.replay[c].valid /\ ~b1.replay[c].blocked /\ ~b1.camp[c].blocked
        /\ b1.camp[c].state \notin BlockingStates /\ b1.camp[c].bound = b1.replay[c].bound
        /\ b1.camp[c].stop >= b1.replay[c].stop
        /\ \A m \in Legs : b1.replay[c].leg[m] = b1.leg[c][m].state
    BY <1>1, <1>2, <1>3, <1>5, <2>1
  <2> QED BY <1>4, <1>r, <2>2, <2>3, <2>4, ReplayedAgrees
<1>9. EventsFollow(r, c)
  BY <1>1, <1>6, <1>8 DEF EventsFollow
<1>10. RowInv(r)
  BY <1>6, <1>7, RowsAlone
<1>11. BookInv(r)
  <2>1. /\ book.revived \subseteq r.revived
        /\ \A x \in Campaigns \ {c} :
             r.camp[x] = book.camp[x] /\ r.leg[x] = book.leg[x] /\ r.replay[x] = book.replay[x]
    BY <1>1, <1>5, <1>6
  <2> QED BY <1>6, <1>9, <1>10, <2>1, BookFollows
<1>12. Keeps(book, r)
  <2>1. \A x \in Campaigns : r.camp[x].stop \in Nat /\ book.camp[x].stop \in Nat
    BY <1>0, <1>6, ConstantsAre DEF Books, CampaignRows
  <2>2. \A o \in Orders : r.ord[o] = book.ord[o] /\ book.ord[o].cum \in Nat
    BY <1>0, <1>1, <1>6 DEF Books, OrderRows
  <2>3. \A x \in Campaigns \ {c} : r.camp[x] = book.camp[x]
    BY <1>5, <1>6
  <2>4. ~book.camp[c].blocked /\ book.camp[c].stop = 0 /\ book.camp[c].bound = 0
    BY <1>0 DEF NoCampaign
  <2> QED BY <2>1, <2>2, <2>3, <2>4 DEF Keeps
<1> QED BY <1>0, <1>1, <1>2, <1>5, <1>6, <1>11, <1>12 DEF r, PlannedLegs

(* PlanCampaignLeg: the next leg is planned after the legs there are. *)
LEMMA PlannedKeeps ==
    ASSUME NEW b, BookInv(b), NEW c \in Campaigns, NEW n \in Legs, NEW q \in Quantities,
           b.camp[c].state # "NONE", ~b.camp[c].blocked,
           TransitionCampaign(b.camp[c].state, "LEG_PLANNED") # "INVALID",
           NEW k \in Nat, PlannedLegs(b, c) = 1..k, n = k + 1
    PROVE  /\ BookInv(Planned(b, c, n, q)) /\ Keeps(b, Planned(b, c, n, q))
           /\ Planned(b, c, n, q).ord = b.ord
<1> DEFINE l  == [state |-> "PLANNED", requested |-> q, filled |-> 0, residual |-> q]
           b1 == [b EXCEPT !.leg[c][n] = l]
           r  == Planned(b, c, n, q)
<1>0. /\ b \in Books /\ RowInv(b) /\ EventsFollow(b, c) /\ n \notin PlannedLegs(b, c)
      /\ LegsFollow(b) /\ OrdersJoin(b)
  BY DEF BookInv, RowInv
<1>1. /\ b.camp[c].state \in {"PLANNED", "ACTIVE"} /\ b.camp[c].state \notin BlockingStates
      /\ TransitionCampaign(b.camp[c].state, "LEG_PLANNED") = b.camp[c].state
  BY <1>0 DEF TransitionCampaign, BlockingStates
<1>2. l \in LegRows
  BY ConstantsAre DEF LegRows, LegStates
<1>3. l.state = "PLANNED" /\ l.requested = q /\ l.filled = 0 /\ l.residual = q /\ q \in Nat /\ q # 0
  BY CampaignAssumption
<1>r. r = Recorded(b1, c, "LEG_PLANNED", n, None, 0, 0)
  BY DEF Planned
<1> HIDE DEF l
<1>4. /\ b1.camp = b.camp /\ b1.ord = b.ord /\ b1.account = b.account /\ b1.revived = b.revived
      /\ b1.replay = b.replay /\ b1.leg[c][n] = l
      /\ \A x \in Campaigns, m \in Legs : x # c \/ m # n => b1.leg[x][m] = b.leg[x][m]
      /\ \A x \in Campaigns \ {c} : b1.leg[x] = b.leg[x]
  BY <1>0 DEF Books
<1>5. b1 \in Books
  BY <1>0, <1>2 DEF Books
<1> HIDE DEF b1, r
<1>6. /\ r \in Books /\ r.camp = b1.camp /\ r.leg = b1.leg /\ r.ord = b1.ord
      /\ r.account = b1.account /\ r.revived = b1.revived
      /\ \A x \in Campaigns \ {c} : r.replay[x] = b1.replay[x]
  BY <1>5, <1>r, RecordedChanges DEF OnLeg
<1>7. \A x, m : LegFilled(b1, x, m) = LegFilled(b, x, m)
  BY <1>4, LegFilledSame
<1>8. LegFilled(b, c, n) = 0
  <2>1. \A o \in OrdersOf(b, c, n) : FALSE
    BY <1>0, ConstantsAre DEF OrdersOf, OrdersJoin
  <2> QED BY <1>0, <2>1, LegFilledIs
<1>9. PlannedLegs(b1, c) = 1..n /\ \A x \in Campaigns \ {c} : PlannedLegs(b1, x) = PlannedLegs(b, x)
  <2>1. PlannedLegs(b1, c) = PlannedLegs(b, c) \cup {n}
    BY <1>3, <1>4 DEF PlannedLegs
  <2>2. (1..k) \cup {n} = 1..n
    OBVIOUS
  <2> QED BY <1>4, <2>1, <2>2 DEF PlannedLegs
<1>10. l.residual = RemainingFromCap(l.requested, l.filled)
  BY <1>3 DEF RemainingFromCap
<1>11. RowInv(b1)
  <2>1. LegsFollow(b1)
    <3>1. n \in 0..Cardinality(Legs)
      BY CampaignAssumption, ConstantsAre
    <3>2. \A x \in Campaigns : \E j \in 0..Cardinality(Legs) : PlannedLegs(b1, x) = 1..j
      BY <1>0, <1>9, <3>1 DEF LegsFollow
    <3>3. \A x \in Campaigns :
            b1.camp[x].state = "NONE" => b1.camp[x] = NoCampaign /\ PlannedLegs(b1, x) = {}
      BY <1>0, <1>4, <1>9 DEF LegsFollow
    <3>4. \A x \in Campaigns, m \in Legs :
            /\ b1.leg[x][m].state = "NONE" => b1.leg[x][m] = NoLeg
            /\ b1.leg[x][m].filled = LegFilled(b1, x, m)
            /\ b1.leg[x][m].residual = RemainingFromCap(b1.leg[x][m].requested, b1.leg[x][m].filled)
      <4> SUFFICES ASSUME NEW x \in Campaigns, NEW m \in Legs
                   PROVE  /\ b1.leg[x][m].state = "NONE" => b1.leg[x][m] = NoLeg
                          /\ b1.leg[x][m].filled = LegFilled(b1, x, m)
                          /\ b1.leg[x][m].residual
                               = RemainingFromCap(b1.leg[x][m].requested, b1.leg[x][m].filled)
        OBVIOUS
      <4>1. CASE x = c /\ m = n
        <5>1. b1.leg[x][m] = l /\ LegFilled(b1, x, m) = 0
          BY <1>4, <1>7, <1>8, <4>1
        <5> QED BY <1>3, <1>10, <5>1
      <4>2. CASE x # c \/ m # n
        <5>1. b1.leg[x][m] = b.leg[x][m] /\ LegFilled(b1, x, m) = LegFilled(b, x, m)
          BY <1>4, <1>7, <4>2
        <5>2. LegsFollow(b)
          BY <1>0
        <5> QED BY <5>1, <5>2, Zenon DEF LegsFollow
      <4> QED BY <4>1, <4>2
    <3> QED BY <3>2, <3>3, <3>4 DEF LegsFollow
  <2>2. OrdersJoin(b1)
    <3>1. PlannedLegs(b, c) \subseteq PlannedLegs(b1, c)
      BY <1>9
    <3>2. \A x \in Campaigns : PlannedLegs(b, x) \subseteq PlannedLegs(b1, x)
      BY <1>9, <3>1
    <3> QED BY <1>0, <1>4, <3>2 DEF OrdersJoin, Books, OrderRows
  <2>3. SurplusAside(b1)
    BY SMTT(30), <1>0, <1>3, <1>4 DEF RowInv, SurplusAside, SetAside
  <2>4. OneOwner(b1) /\ StoppedIsBlocked(b1)
    BY <1>0, <1>4 DEF RowInv, OneOwner, ActiveIn, StoppedIsBlocked
  <2>5. SuccessorsFit(b1)
    <3>1. \A o \in Orders : b.ord[o].campaign # None =>
            /\ b.ord[o].campaign \in Campaigns /\ b.ord[o].leg \in Legs
            /\ b.ord[o].campaign # c \/ b.ord[o].leg # n
      BY <1>0 DEF OrdersJoin, PlannedLegs, Books, OrderRows
    <3>2. \A o \in Orders : b.ord[o].campaign # None =>
            b1.leg[b.ord[o].campaign][b.ord[o].leg] = b.leg[b.ord[o].campaign][b.ord[o].leg]
      BY <1>4, <3>1
    <3> QED BY SMTT(30), <1>0, <1>4, <3>2 DEF RowInv, SuccessorsFit
  <2> QED BY <2>1, <2>2, <2>3, <2>4, <2>5 DEF RowInv
<1>12. EventsFollow(r, c)
  <2> SUFFICES ASSUME c \notin b.revived PROVE EventsFollow(r, c)
    BY <1>4, <1>6 DEF EventsFollow
  <2>1. /\ b1.replay[c].valid /\ ~b1.replay[c].blocked /\ ~b1.camp[c].blocked
        /\ b1.camp[c].state \notin BlockingStates /\ b1.camp[c].bound = b1.replay[c].bound
        /\ b1.camp[c].stop = b1.replay[c].stop /\ b1.replay[c].state = b1.camp[c].state
        /\ \A m \in Legs : m # n => b1.replay[c].leg[m] = b1.leg[c][m].state
        /\ b1.camp[c].stop \in Nat
    <3>1. b.camp[c].stop \in Nat
      BY <1>0, ConstantsAre DEF Books, CampaignRows
    <3>2. /\ b.replay[c].valid /\ ~b.replay[c].blocked /\ b.camp[c].bound = b.replay[c].bound
          /\ b.camp[c].stop = b.replay[c].stop /\ b.replay[c].state = b.camp[c].state
          /\ \A m \in Legs : b.replay[c].leg[m] = b.leg[c][m].state
      BY <1>0, <1>4 DEF EventsFollow
    <3> QED BY <1>1, <1>4, <3>1, <3>2
  <2>2. ReplayedState(b1.replay[c], "LEG_PLANNED", b1.camp[c]) = b1.camp[c].state
    BY <1>1, <1>4, <2>1 DEF ReplayedState, ReplayedEvent
  <2>3. /\ b1.leg[c][n].state = ReplayedLeg(b1.replay[c], b1, c, "LEG_PLANNED", n, None, 0)
        /\ b1.leg[c][n].filled = LegFilled(b1, c, n)
        /\ b1.leg[c][n].residual = RemainingFromCap(b1.leg[c][n].requested, b1.leg[c][n].filled)
    BY <1>3, <1>4, <1>7, <1>8, <1>10 DEF ReplayedLeg
  <2>4. "LEG_PLANNED" \in OnLeg /\ "LEG_PLANNED" \notin OnLeg \ {"LEG_PLANNED"}
    BY DEF OnLeg
  <2>5. b1.camp[c].stop >= b1.replay[c].stop
    BY <2>1
  <2> QED BY <1>5, <1>r, <2>1, <2>2, <2>3, <2>4, <2>5, ReplayedAgrees
<1>13. RowInv(r)
  BY <1>6, <1>11, RowsAlone
<1>14. BookInv(r)
  <2>1. /\ b.revived \subseteq r.revived
        /\ \A x \in Campaigns \ {c} :
             r.camp[x] = b.camp[x] /\ r.leg[x] = b.leg[x] /\ r.replay[x] = b.replay[x]
    BY <1>4, <1>6
  <2> QED BY <1>6, <1>12, <1>13, <2>1, BookFollows
<1>15. Keeps(b, r)
  <2>1. \A x \in Campaigns : b.camp[x].stop \in Nat
    BY <1>0, ConstantsAre DEF Books, CampaignRows
  <2>2. \A o \in Orders : b.ord[o].cum \in Nat
    BY <1>0 DEF Books, OrderRows
  <2>3. r.camp = b.camp /\ r.ord = b.ord
    BY <1>4, <1>6
  <2> QED BY <2>1, <2>2, <2>3 DEF Keeps
<1> QED BY <1>4, <1>6, <1>14, <1>15 DEF r

(* Commands that move the campaign's own row: to RECONCILE and blocked, or     *)
(* within its state.                                                          *)
LEMMA RowKeeps ==
    ASSUME NEW b, BookInv(b), NEW c \in Campaigns, b.camp[c].state # "NONE",
           NEW b1 \in Books,
           b1.leg = b.leg, b1.ord = b.ord, b1.account = b.account, b1.revived = b.revived,
           b1.replay = b.replay, \A x \in Campaigns \ {c} : b1.camp[x] = b.camp[x],
           b1.camp[c].bound = b.camp[c].bound, b.camp[c].blocked => b1.camp[c].blocked,
           b1.camp[c].stop >= b.camp[c].stop,
           \/ b1.camp[c].state = b.camp[c].state
           \/ /\ b1.camp[c].state = "RECONCILE" /\ b1.camp[c].blocked
              /\ ActiveIn(b, c) \/ \A x \in Campaigns : ~ActiveIn(b, x),
           NEW kind, kind \notin OnLeg, NEW g \in Nat,
           b1.camp[c].blocked \/ EventsFollow(Recorded(b1, c, kind, 0, None, 0, g), c)
    PROVE  LET r == Recorded(b1, c, kind, 0, None, 0, g)
           IN  BookInv(r) /\ Keeps(b, r) /\ r.ord = b.ord
<1> DEFINE r == Recorded(b1, c, kind, 0, None, 0, g)
<1>0. b \in Books /\ RowInv(b)
  BY DEF BookInv
<1>1. /\ r \in Books /\ r.camp = b1.camp /\ r.leg = b1.leg /\ r.ord = b1.ord
      /\ r.account = b1.account /\ r.revived = b1.revived
      /\ \A x \in Campaigns \ {c} : r.replay[x] = b1.replay[x]
  BY RecordedChanges
<1>2. EventsFollow(r, c)
  BY <1>1 DEF EventsFollow
<1> HIDE DEF r
<1>3. /\ \A x, n : LegFilled(b1, x, n) = LegFilled(b, x, n)
      /\ \A x : PlannedLegs(b1, x) = PlannedLegs(b, x)
  BY LegFilledSame DEF PlannedLegs
<1>4. /\ \A x \in Campaigns : b1.camp[x].state = "NONE" => b1.camp[x] = b.camp[x]
      /\ \A x \in Campaigns : b.camp[x].state \notin {"NONE", "PLANNED"}
                              => b1.camp[x].state \notin {"NONE", "PLANNED"}
      /\ \A x \in Campaigns : SetAside(b, x) => SetAside(b1, x)
      /\ \A x \in Campaigns : ActiveIn(b, x) => ActiveIn(b1, x)
      /\ \A x, y \in Campaigns : ActiveIn(b1, x) /\ ActiveIn(b1, y) =>
           x = y \/ (ActiveIn(b, x) /\ ActiveIn(b, y))
      /\ \A x \in Campaigns : b1.camp[x].bound = b.camp[x].bound
  <2>1. SetAside(b, c) => SetAside(b1, c)
    BY DEF SetAside
  <2>2. ActiveIn(b, c) => ActiveIn(b1, c)
    BY DEF ActiveIn
  <2>3. \A x \in Campaigns \ {c} : /\ SetAside(b, x) <=> SetAside(b1, x)
                                   /\ ActiveIn(b, x) <=> ActiveIn(b1, x)
    BY DEF SetAside, ActiveIn
  <2>4. ActiveIn(b1, c) => ActiveIn(b, c) \/ \A x \in Campaigns : ~ActiveIn(b, x)
    BY DEF ActiveIn
  <2> QED BY <2>1, <2>2, <2>3, <2>4
<1>5. RowInv(b1)
  <2>1. LegsFollow(b1)
    BY <1>0, <1>3, <1>4 DEF RowInv, LegsFollow
  <2>2. OrdersJoin(b1)
    BY <1>0, <1>3, <1>4 DEF RowInv, OrdersJoin, Books, OrderRows
  <2>3. SurplusAside(b1)
    <3>1. \A o \in Orders : b.ord[o].campaign \in Campaigns \/ b.ord[o] = NoOrder
      BY <1>0 DEF RowInv, OrdersJoin, Books, OrderRows
    <3>2. ~(NoOrder.cum > NoOrder.cap) /\ ~(NoOrder.missed /\ NoOrder.cum > 0)
      BY DEF NoOrder
    <3> QED BY <1>0, <1>4, <3>1, <3>2 DEF RowInv, SurplusAside
  <2>4. OneOwner(b1)
    BY <1>0, <1>4 DEF RowInv, OneOwner
  <2>5. SuccessorsFit(b1) /\ StoppedIsBlocked(b1)
    BY <1>0 DEF RowInv, SuccessorsFit, StoppedIsBlocked
  <2> QED BY <2>1, <2>2, <2>3, <2>4, <2>5 DEF RowInv
<1>6. RowInv(r)
  BY <1>1, <1>5, RowsAlone
<1>7. BookInv(r)
  <2>1. /\ b.revived \subseteq r.revived
        /\ \A x \in Campaigns \ {c} :
             r.camp[x] = b.camp[x] /\ r.leg[x] = b.leg[x] /\ r.replay[x] = b.replay[x]
    BY <1>1
  <2> QED BY <1>1, <1>2, <1>6, <2>1, BookFollows
<1>8. Keeps(b, r)
  <2>1. \A x \in Campaigns : b.camp[x].stop \in Nat
    BY <1>0, ConstantsAre DEF Books, CampaignRows
  <2>2. \A o \in Orders : b.ord[o].cum \in Nat
    BY <1>0 DEF Books, OrderRows
  <2>3. r.camp = b1.camp /\ r.ord = b.ord
    BY <1>1
  <2> QED BY <2>1, <2>2, <2>3, <1>4 DEF Keeps
<1> QED BY <1>1, <1>7, <1>8 DEF r

RowStopped(y, to) == [y EXCEPT !.state = to, !.blocked = TRUE]
RowComposed(y, stop, blocks) == [y EXCEPT !.stop = stop, !.blocked = blocks]

(* A campaign is set aside: what it owns and its stop stay. *)
LEMMA RowStoppedIs ==
    ASSUME NEW y \in CampaignRows, NEW to \in CampaignStates
    PROVE  /\ RowStopped(y, to) \in CampaignRows /\ RowStopped(y, to).state = to
           /\ RowStopped(y, to).blocked = TRUE
           /\ RowStopped(y, to).bound = y.bound /\ RowStopped(y, to).stop = y.stop
BY DEF CampaignRows, RowStopped

(* A stop is composed: what the campaign owns and its state stay. *)
LEMMA RowComposedIs ==
    ASSUME NEW y \in CampaignRows, NEW stop \in Stops \cup {0}, NEW blocks \in BOOLEAN
    PROVE  /\ RowComposed(y, stop, blocks) \in CampaignRows
           /\ RowComposed(y, stop, blocks).state = y.state
           /\ RowComposed(y, stop, blocks).blocked = blocks
           /\ RowComposed(y, stop, blocks).bound = y.bound
           /\ RowComposed(y, stop, blocks).stop = stop
BY DEF CampaignRows, RowComposed

(* A campaign's row is written and the rest of the book stays. *)
LEMMA RowReplaced ==
    ASSUME NEW b \in Books, NEW c \in Campaigns, NEW row \in CampaignRows
    PROVE  LET b1 == [b EXCEPT !.camp[c] = row]
           IN  /\ b1 \in Books
               /\ b1.camp[c] = row /\ b1.leg = b.leg /\ b1.ord = b.ord /\ b1.account = b.account
               /\ b1.revived = b.revived /\ b1.replay = b.replay
               /\ \A x \in Campaigns \ {c} : b1.camp[x] = b.camp[x]
BY DEF Books

(* A refused link sets the campaign aside. *)
LEMMA RefusedKeeps ==
    ASSUME BookInv(book), NEW c \in Campaigns, book.camp[c].state # "NONE", latchCampaignLinkConflict(c)
    PROVE  BookInv(book') /\ Keeps(book, book') /\ book'.ord = book.ord
<1> DEFINE row == [book.camp[c] EXCEPT !.state = "RECONCILE", !.blocked = TRUE]
           b1 == [book EXCEPT !.camp[c] = row]
<1>0. book \in Books /\ book.camp[c] \in CampaignRows
  BY DEF BookInv, Books
<1>1. book' = Recorded(b1, c, "ORDER_LINK_REFUSED", 0, None, 0, 0)
  BY DEF latchCampaignLinkConflict
<1>a. /\ row \in CampaignRows /\ row.state = "RECONCILE" /\ row.blocked = TRUE
      /\ row.bound = book.camp[c].bound /\ row.stop = book.camp[c].stop
  <2>1. "RECONCILE" \in CampaignStates
    BY DEF CampaignStates
  <2>2. row = RowStopped(book.camp[c], "RECONCILE")
    BY Zenon DEF RowStopped
  <2> HIDE DEF row
  <2> QED BY <1>0, <2>1, <2>2, RowStoppedIs
<1> HIDE DEF row
<1>2. /\ b1 \in Books /\ b1.leg = book.leg /\ b1.ord = book.ord /\ b1.account = book.account
      /\ b1.revived = book.revived /\ b1.replay = book.replay /\ b1.camp[c] = row
      /\ \A x \in Campaigns \ {c} : b1.camp[x] = book.camp[x]
  BY <1>0, <1>a, RowReplaced
<1>3. book.camp[c].stop \in Nat
  BY <1>0, ConstantsAre DEF Books, CampaignRows
<1> HIDE DEF b1
<1>4. ActiveIn(book, c) \/ \A x \in Campaigns : ~ActiveIn(book, x)
  BY DEF latchCampaignLinkConflict, Active, ActiveIn
<1>5. "ORDER_LINK_REFUSED" \notin OnLeg
  BY DEF OnLeg
<1>6. b1.camp[c].stop >= book.camp[c].stop
  BY <1>a, <1>2, <1>3
<1> QED BY <1>a, <1>1, <1>2, <1>3, <1>4, <1>5, <1>6, RowKeeps

(* ReconcileStrategyProtection. *)
LEMMA ProtectionKeeps ==
    ASSUME BookInv(book), NEW c \in Campaigns, ReconcileStrategyProtection(c)
    PROVE  BookInv(book') /\ Keeps(book, book') /\ book'.ord = book.ord
<1> DEFINE event == IF book.camp[c].state = "RECONCILE" THEN "EVIDENCE_INCOMPLETE" ELSE "LINEAGE_MISMATCH"
           to == TransitionCampaign(book.camp[c].state, event)
           row == [book.camp[c] EXCEPT !.state = to, !.blocked = TRUE]
           b1 == [book EXCEPT !.camp[c] = row]
           g  == book.camp[c].bound
<1>0. book \in Books /\ book.camp[c].state \in CampaignStates /\ g \in Nat /\ book.camp[c].state # "NONE"
      /\ book.camp[c].state # "CLOSED" /\ book.camp[c].stop \in Nat
  BY ConstantsAre DEF BookInv, Books, CampaignRows, ReconcileStrategyProtection
<1>1. book' = Recorded(b1, c, "PROTECTION_RECONCILE", 0, None, 0, g)
  BY DEF ReconcileStrategyProtection
<1>2. to = "RECONCILE"
  BY <1>0 DEF TransitionCampaign, CampaignStates
<1>a. /\ row \in CampaignRows /\ row.state = "RECONCILE" /\ row.blocked = TRUE
      /\ row.bound = book.camp[c].bound /\ row.stop = book.camp[c].stop
  <2>1. book.camp[c] \in CampaignRows /\ to \in CampaignStates
    BY <1>0, <1>2 DEF Books, CampaignStates
  <2> HIDE DEF to
  <2>2. row = RowStopped(book.camp[c], to)
    BY Zenon DEF RowStopped
  <2> HIDE DEF row
  <2> QED BY <1>2, <2>1, <2>2, RowStoppedIs
<1> HIDE DEF row
<1>3. /\ b1 \in Books /\ b1.leg = book.leg /\ b1.ord = book.ord /\ b1.account = book.account
      /\ b1.revived = book.revived /\ b1.replay = book.replay /\ b1.camp[c] = row
      /\ \A x \in Campaigns \ {c} : b1.camp[x] = book.camp[x]
  BY <1>0, <1>a, RowReplaced
<1> HIDE DEF b1, g
<1>5. ActiveIn(book, c)
  BY <1>0 DEF ActiveIn, CampaignStates
<1>6. "PROTECTION_RECONCILE" \notin OnLeg
  BY DEF OnLeg
<1>7. b1.camp[c].stop >= book.camp[c].stop
  BY <1>0, <1>3, <1>a
<1> QED BY <1>0, <1>1, <1>a, <1>3, <1>5, <1>6, <1>7, RowKeeps

(* UpdateCampaignStop: the stop rises or the campaign is blocked. *)
LEMMA StopKeeps ==
    ASSUME BookInv(book), NEW c \in Campaigns, NEW offered \in Stops \cup {0}, UpdateCampaignStop(c, offered)
    PROVE  BookInv(book') /\ Keeps(book, book') /\ book'.ord = book.ord
<1> DEFINE stop == book.camp[c].stop
           g  == book.camp[c].bound
           row == [book.camp[c] EXCEPT !.stop = IF offered > stop THEN offered ELSE stop,
                                       !.blocked = book.camp[c].blocked \/ offered = 0]
           b1 == [book EXCEPT !.camp[c] = row]
<1>0. book \in Books /\ g \in Nat /\ book.camp[c].state # "NONE" /\ stop \in Nat /\ offered \in Nat
      /\ book.camp[c].blocked \in BOOLEAN /\ stop \in Stops \cup {0} /\ EventsFollow(book, c)
      /\ (~book.camp[c].blocked => book.camp[c].state \notin BlockingStates)
  BY ConstantsAre DEF BookInv, Books, CampaignRows, UpdateCampaignStop, RowInv, StoppedIsBlocked
<1>1. book' = Recorded(b1, c, "STOP_COMPOSED", 0, None, 0, g)
  BY DEF UpdateCampaignStop
<1>a. /\ row \in CampaignRows /\ row.state = book.camp[c].state
      /\ row.blocked <=> (book.camp[c].blocked \/ offered = 0)
      /\ row.bound = book.camp[c].bound /\ row.stop = IF offered > stop THEN offered ELSE stop
  <2> DEFINE composed == IF offered > stop THEN offered ELSE stop
             blocks == book.camp[c].blocked \/ offered = 0
  <2>1. book.camp[c] \in CampaignRows /\ composed \in Stops \cup {0} /\ blocks \in BOOLEAN
    BY <1>0 DEF Books
  <2>e. row = RowComposed(book.camp[c], composed, blocks)
    BY Zenon DEF RowComposed
  <2> HIDE DEF composed, blocks, row
  <2>2. /\ row \in CampaignRows /\ row.state = book.camp[c].state /\ row.blocked = blocks
        /\ row.bound = book.camp[c].bound /\ row.stop = composed
    BY <2>1, <2>e, RowComposedIs
  <2> QED BY <2>2 DEF composed, blocks
<1> HIDE DEF row
<1>3. /\ b1 \in Books /\ b1.leg = book.leg /\ b1.ord = book.ord /\ b1.account = book.account
      /\ b1.revived = book.revived /\ b1.replay = book.replay /\ b1.camp[c] = row
      /\ \A x \in Campaigns \ {c} : b1.camp[x] = book.camp[x]
  BY <1>0, <1>a, RowReplaced
<1> HIDE DEF b1
<1>6. "STOP_COMPOSED" \notin OnLeg
  BY DEF OnLeg
<1>7. b1.camp[c].stop >= stop
  BY <1>0, <1>a, <1>3
<1>8. b1.camp[c].blocked \/ EventsFollow(Recorded(b1, c, "STOP_COMPOSED", 0, None, 0, g), c)
  <2> SUFFICES ASSUME ~b1.camp[c].blocked, c \notin book.revived
               PROVE  EventsFollow(Recorded(b1, c, "STOP_COMPOSED", 0, None, 0, g), c)
    BY SMTT(30), <1>0, <1>3, <1>a, <1>6, RecordedChanges DEF EventsFollow
  <2>1. /\ b1.replay[c].valid /\ ~b1.replay[c].blocked /\ b1.replay[c].state = b1.camp[c].state
        /\ b1.replay[c].bound = g /\ b1.replay[c].stop = stop /\ b1.camp[c].bound = g
        /\ \A m \in Legs : b1.replay[c].leg[m] = b1.leg[c][m].state
        /\ b1.camp[c].state \notin BlockingStates
    BY <1>0, <1>a, <1>3 DEF EventsFollow
  <2>2. ReplayedState(b1.replay[c], "STOP_COMPOSED", b1.camp[c]) = b1.camp[c].state
    BY <2>1 DEF ReplayedState
  <2>3. b1.camp[c].stop >= b1.replay[c].stop
    BY <1>7, <2>1
  <2> QED BY <1>0, <1>3, <1>6, <2>1, <2>2, <2>3, ReplayedAgrees
<1> QED BY <1>0, <1>1, <1>3, <1>a, <1>6, <1>7, <1>8, RowKeeps

(* CancelProspectiveCampaign: no order of the campaign exists, so nothing is filled. *)
LEMMA CancelKeeps ==
    ASSUME BookInv(book), NEW c \in Campaigns, CancelProspectiveCampaign(c)
    PROVE  BookInv(book') /\ Keeps(book, book') /\ book'.ord = book.ord
<1> DEFINE row == [book.camp[c] EXCEPT !.state = "CLOSED", !.blocked = TRUE]
           L(n) == IF book.leg[c][n].state = "PLANNED"
                   THEN [book.leg[c][n] EXCEPT !.state = "CANCELLED"] ELSE book.leg[c][n]
           ll == [n \in Legs |-> L(n)]
           b1 == [book EXCEPT !.camp[c] = row, !.leg[c] = ll, !.claim = IF @ = c THEN None ELSE @]
           r  == Recorded(b1, c, "PROSPECTIVE_CANCELLED", 0, None, 0, 0)
<1>0. /\ book \in Books /\ RowInv(book) /\ book.camp[c].state = "PLANNED"
      /\ \A o \in Orders : book.ord[o].campaign # c
  BY DEF BookInv, CancelProspectiveCampaign, TransitionCampaign, Books, CampaignRows, CampaignStates
<1>1. book' = r
  BY DEF CancelProspectiveCampaign
<1>2. /\ row \in CampaignRows /\ row.state = "CLOSED" /\ row.blocked = TRUE
      /\ row.bound = book.camp[c].bound /\ row.stop = book.camp[c].stop
  <2>1. book.camp[c] \in CampaignRows /\ "CLOSED" \in CampaignStates
    BY <1>0 DEF Books, CampaignStates
  <2>2. row = RowStopped(book.camp[c], "CLOSED")
    BY Zenon DEF RowStopped
  <2> HIDE DEF row
  <2> QED BY <2>1, <2>2, RowStoppedIs
<1>3. \A n \in Legs : /\ L(n) \in LegRows /\ L(n).requested = book.leg[c][n].requested
                      /\ L(n).filled = book.leg[c][n].filled /\ L(n).residual = book.leg[c][n].residual
                      /\ L(n).state = "NONE" => L(n) = book.leg[c][n]
                      /\ L(n).state # "NONE" => book.leg[c][n].state # "NONE"
                      /\ L(n).state = "NONE" <=> book.leg[c][n].state = "NONE"
  <2>1. \A n \in Legs : book.leg[c][n] \in LegRows
    BY <1>0 DEF Books
  <2>2. \A x \in LegRows : /\ [x EXCEPT !.state = "CANCELLED"] \in LegRows
                           /\ [x EXCEPT !.state = "CANCELLED"].state = "CANCELLED"
                           /\ [x EXCEPT !.state = "CANCELLED"].requested = x.requested
                           /\ [x EXCEPT !.state = "CANCELLED"].filled = x.filled
                           /\ [x EXCEPT !.state = "CANCELLED"].residual = x.residual
    BY DEF LegRows, LegStates
  <2> QED BY <2>1, <2>2
<1> HIDE DEF row, L
<1>4. ll \in [Legs -> LegRows] /\ \A n \in Legs : ll[n] = L(n)
  BY <1>3
<1> HIDE DEF ll
<1>5. /\ b1.ord = book.ord /\ b1.account = book.account /\ b1.revived = book.revived
      /\ b1.replay = book.replay /\ b1.camp[c] = row /\ b1.leg[c] = ll
      /\ \A x \in Campaigns \ {c} : b1.camp[x] = book.camp[x] /\ b1.leg[x] = book.leg[x]
  BY <1>0 DEF Books
<1>6. b1 \in Books
  BY <1>0, <1>2, <1>4 DEF Books
<1> HIDE DEF b1
<1>7. /\ r \in Books /\ r.camp = b1.camp /\ r.leg = b1.leg /\ r.ord = b1.ord
      /\ r.account = b1.account /\ r.revived = b1.revived
      /\ \A x \in Campaigns \ {c} : r.replay[x] = b1.replay[x]
  BY <1>6, RecordedChanges DEF OnLeg
<1> HIDE DEF r
<1>8. \A x \in Campaigns : PlannedLegs(b1, x) = PlannedLegs(book, x)
  <2>1. PlannedLegs(b1, c) = PlannedLegs(book, c)
    BY <1>3, <1>4, <1>5 DEF PlannedLegs
  <2>2. \A x \in Campaigns \ {c} : PlannedLegs(b1, x) = PlannedLegs(book, x)
    BY <1>5 DEF PlannedLegs
  <2> QED BY <2>1, <2>2
<1>9. \A x, n : LegFilled(b1, x, n) = LegFilled(book, x, n)
  BY <1>5, LegFilledSame
<1>10. \A n \in Legs : /\ b1.leg[c][n].requested = book.leg[c][n].requested
                       /\ b1.leg[c][n].filled = book.leg[c][n].filled
                       /\ b1.leg[c][n].residual = book.leg[c][n].residual
                       /\ b1.leg[c][n].state = "NONE" => b1.leg[c][n] = book.leg[c][n]
  BY <1>3, <1>4, <1>5
<1>11. RowInv(b1)
  <2>1. LegsFollow(b1)
    <3>1. \A x \in Campaigns : \E j \in 0..Cardinality(Legs) : PlannedLegs(b1, x) = 1..j
      BY <1>0, <1>8 DEF RowInv, LegsFollow
    <3>2. \A x \in Campaigns :
            b1.camp[x].state = "NONE" => b1.camp[x] = NoCampaign /\ PlannedLegs(b1, x) = {}
      BY <1>0, <1>2, <1>5, <1>8 DEF RowInv, LegsFollow
    <3>3. \A n \in Legs :
            /\ b1.leg[c][n].state = "NONE" => b1.leg[c][n] = NoLeg
            /\ b1.leg[c][n].filled = LegFilled(b1, c, n)
            /\ b1.leg[c][n].residual = RemainingFromCap(b1.leg[c][n].requested, b1.leg[c][n].filled)
      BY <1>0, <1>9, <1>10 DEF RowInv, LegsFollow
    <3>4. \A x \in Campaigns \ {c}, n \in Legs :
            /\ b1.leg[x][n].state = "NONE" => b1.leg[x][n] = NoLeg
            /\ b1.leg[x][n].filled = LegFilled(b1, x, n)
            /\ b1.leg[x][n].residual = RemainingFromCap(b1.leg[x][n].requested, b1.leg[x][n].filled)
      BY <1>0, <1>5, <1>9 DEF RowInv, LegsFollow
    <3> QED BY <3>1, <3>2, <3>3, <3>4 DEF LegsFollow
  <2>2. OrdersJoin(b1)
    BY <1>0, <1>5, <1>8 DEF RowInv, OrdersJoin, Books, OrderRows
  <2>3. SurplusAside(b1)
    <3>1. SetAside(b1, c) /\ \A x \in Campaigns \ {c} : SetAside(b1, x) <=> SetAside(book, x)
      BY <1>2, <1>5 DEF SetAside
    <3>2. \A o \in Orders : b1.ord[o].campaign \in Campaigns \/ b1.ord[o] = NoOrder
      BY <1>0, <1>5 DEF RowInv, OrdersJoin, Books, OrderRows
    <3>3. ~(NoOrder.cum > NoOrder.cap) /\ ~(NoOrder.missed /\ NoOrder.cum > 0)
      BY DEF NoOrder
    <3> QED BY <1>0, <1>5, <1>10, <3>1, <3>2, <3>3 DEF RowInv, SurplusAside
  <2>4. OneOwner(b1)
    <3>1. ~ActiveIn(b1, c) /\ \A x \in Campaigns \ {c} : ActiveIn(b1, x) <=> ActiveIn(book, x)
      BY <1>2, <1>5 DEF ActiveIn
    <3>2. b1.camp[c].bound = 0
      BY <1>0, <1>2, <1>5 DEF RowInv, OneOwner
    <3> QED BY <1>0, <1>5, <3>1, <3>2 DEF RowInv, OneOwner
  <2>5. SuccessorsFit(b1)
    BY <1>0, <1>5 DEF RowInv, SuccessorsFit, Books, OrderRows
  <2>6. StoppedIsBlocked(b1)
    BY <1>0, <1>2, <1>5 DEF RowInv, StoppedIsBlocked
  <2> QED BY <2>1, <2>2, <2>3, <2>4, <2>5, <2>6 DEF RowInv
<1>12. BookInv(r)
  <2>1. /\ book.revived \subseteq r.revived
        /\ \A x \in Campaigns \ {c} :
             r.camp[x] = book.camp[x] /\ r.leg[x] = book.leg[x] /\ r.replay[x] = book.replay[x]
    BY <1>5, <1>7
  <2>2. RowInv(r)
    BY <1>7, <1>11, RowsAlone
  <2>3. EventsFollow(r, c)
    BY <1>2, <1>5, <1>7 DEF EventsFollow
  <2> QED BY <1>7, <2>1, <2>2, <2>3, BookFollows
<1>13. Keeps(book, r)
  <2>1. \A x \in Campaigns : book.camp[x].stop \in Nat
    BY <1>0, ConstantsAre DEF Books, CampaignRows
  <2>2. \A o \in Orders : book.ord[o].cum \in Nat
    BY <1>0 DEF Books, OrderRows
  <2>3. r.ord = book.ord /\ r.camp[c] = row /\ \A x \in Campaigns \ {c} : r.camp[x] = book.camp[x]
    BY <1>5, <1>7
  <2>4. \A x \in Campaigns : r.camp[x].bound = book.camp[x].bound /\ r.camp[x].stop = book.camp[x].stop
                              /\ (book.camp[x].blocked => r.camp[x].blocked)
    BY <1>2, <2>3
  <2> QED BY <2>1, <2>2, <2>3, <2>4 DEF Keeps
<1> QED BY <1>1, <1>5, <1>7, <1>12, <1>13

(* The strategy's admission: a campaign and its first leg at once. *)
LEMMA AdmittedKeeps ==
    ASSUME BookInv(book), NEW c \in Campaigns, NEW q \in Quantities, MayCreate(c), pos.seq \in Nat
    PROVE  LET r == Planned(Created(book, c), c, 1, q)
           IN  BookInv(r) /\ Keeps(book, r) /\ r.ord = book.ord
<1> DEFINE b == Created(book, c)
<1>1. /\ BookInv(b) /\ Keeps(book, b) /\ b.ord = book.ord
      /\ b.camp[c].state = "PLANNED" /\ ~b.camp[c].blocked /\ PlannedLegs(b, c) = {}
  BY CreatedKeeps
<1> HIDE DEF b
<1>2. TransitionCampaign(b.camp[c].state, "LEG_PLANNED") # "INVALID" /\ b.camp[c].state # "NONE"
  BY <1>1 DEF TransitionCampaign
<1>3. PICK k \in Nat : PlannedLegs(b, c) = 1..k /\ 1 = k + 1
  <2>1. PlannedLegs(b, c) = 1..0 /\ 1 = 0 + 1
    BY <1>1
  <2> QED BY <2>1
<1>l. 1 \in Legs
  BY ConstantsAre
<1>4. /\ BookInv(Planned(b, c, 1, q)) /\ Keeps(b, Planned(b, c, 1, q))
      /\ Planned(b, c, 1, q).ord = b.ord
  BY <1>1, <1>2, <1>3, <1>l, PlannedKeeps
<1> DEFINE r == Planned(b, c, 1, q)
<1> HIDE DEF r
<1>5. Keeps(book, r)
  <2>1. \A x \in Campaigns : book.camp[x].stop \in Nat /\ b.camp[x].stop \in Nat /\ r.camp[x].stop \in Nat
    BY <1>1, <1>4, ConstantsAre DEF BookInv, Books, CampaignRows, r
  <2>2. Keeps(b, r) /\ r.ord = b.ord
    BY <1>4 DEF r
  <2> QED BY <1>1, <2>1, <2>2 DEF Keeps
<1> QED BY <1>1, <1>4, <1>5 DEF b, r

(* ------------------------------- links ------------------------------- *)

(* A live replacement may fill no more than its leg still wants. *)
LEMMA RemainingFits ==
    ASSUME NEW w, w.cap \in Nat, w.cum \in Nat, NEW residual \in Nat
    PROVE  /\ StoredOrderRemaining(w, residual) \in Nat /\ RemainingFromCap(w.cap, w.cum) \in Nat
           /\ w.pred # None /\ ~w.terminal => StoredOrderRemaining(w, residual) <= residual
           /\ w.terminal => StoredOrderRemaining(w, residual) = RemainingFromCap(w.cap, w.cum)
BY DEF StoredOrderRemaining, RemainingFromCap

(* The order's rows before its own observation of what was missed. *)
LEMMA LinkedRowsKeep ==
    ASSUME BookInv(book), NEW c \in Campaigns, NEW n \in Legs, NEW o \in Orders,
           NEW p \in Orders \cup {None}, NEW cap \in Quantities \cup {0},
           book.camp[c].state # "NONE", ~book.camp[c].blocked, book.ord[o].campaign = None,
           p # None => p \in OrdersOf(book, c, n),
           NextLeg(c, n, p) # "INVALID",
           TransitionCampaign(book.camp[c].state, "ORDER_LINKED") # "INVALID"
    PROVE  LET r == LinkedRows(book, c, n, o, p, cap, NextLeg(c, n, p))
           IN  /\ r \in Books /\ RowInv(r) /\ Keeps(book, r)
               /\ \A x \in Campaigns \ {c} : EventsFollow(r, x)
               /\ EventsFollow(r, c) \/ (book.leg[c][n].state = "CANCELLED" /\ book.leg[c][n].filled = 0)
               /\ r.revived = book.revived
               /\ r.ord[o].campaign = c /\ r.ord[o].leg = n /\ r.ord[o].cum = 0 /\ ~r.ord[o].missed
               /\ \A x \in Orders : r.ord[x].cum = book.ord[x].cum
               /\ \A x \in Orders \ {o} : r.ord[x].missed = book.ord[x].missed
<1> DEFINE st  == NextLeg(c, n, p)
           leg == book.leg[c][n]
           row == book.camp[c]
           w   == [campaign |-> c, leg |-> n, pred |-> p, cap |-> cap, cum |-> 0, remaining |-> 0,
                   terminal |-> FALSE, missed |-> FALSE]
           w1  == [w EXCEPT !.remaining = StoredOrderRemaining(w, leg.residual)]
           next == TransitionCampaign(row.state, "ORDER_LINKED")
           row1 == [row EXCEPT !.state = next, !.blocked = LatchEntryBlocked(row.blocked, next)]
           ord1 == [x \in Orders |-> IF x = o THEN w1
                                     ELSE IF x = p THEN [book.ord[x] EXCEPT !.terminal = TRUE]
                                     ELSE book.ord[x]]
           b1  == [book EXCEPT !.ord = ord1, !.leg[c][n].state = st, !.camp[c] = row1]
           r   == LinkedRows(book, c, n, o, p, cap, st)
<1>0. /\ book \in Books /\ RowInv(book) /\ EventsFollow(book, c)
      /\ LegsFollow(book) /\ OrdersJoin(book) /\ row \in CampaignRows /\ leg \in LegRows
      /\ book.ord[o] = NoOrder /\ book.ord[o].cum = 0
      /\ \A x \in Orders : book.ord[x] \in OrderRows
  <2>1. book \in Books /\ RowInv(book) /\ EventsFollow(book, c) /\ LegsFollow(book) /\ OrdersJoin(book)
    BY DEF BookInv, RowInv
  <2>2. row \in CampaignRows /\ leg \in LegRows /\ \A x \in Orders : book.ord[x] \in OrderRows
    BY <2>1 DEF Books
  <2>3. book.ord[o] = NoOrder /\ NoOrder.cum = 0
    BY <2>1 DEF OrdersJoin, NoOrder
  <2> QED BY <2>1, <2>2, <2>3
<1>1. r = Recorded(b1, c, "ORDER_LINKED", n, o, 0, 0)
  BY DEF LinkedRows
<1>2. /\ row.state \in {"PLANNED", "ACTIVE"} /\ next = "ACTIVE"
  BY <1>0 DEF TransitionCampaign
<1>3. /\ row1 \in CampaignRows /\ row1.state = "ACTIVE" /\ ~row1.blocked /\ row1.bound = row.bound
      /\ row1.stop = row.stop /\ row1.expected = row.expected
  <2> HIDE DEF row, next
  <2> QED BY <1>0, <1>2 DEF CampaignRows, CampaignStates, LatchEntryBlocked, BlockingStates, row
<1>4. /\ leg.state # "NONE" /\ st \in {"SUBMITTED", "PARTIAL"} /\ st \in LegStates
      /\ (p = None => leg.state = "PLANNED" /\ st = "SUBMITTED")
      /\ (p # None => \/ leg.state \in {"SUBMITTED", "PARTIAL"} /\ st = leg.state
                      \/ leg.state = "CANCELLED" /\ st = "PARTIAL")
  <2> HIDE DEF leg
  <2> QED BY <1>0 DEF NextLeg, TransitionLeg, LegStates, leg
<1>5. /\ w1 \in OrderRows /\ w1.campaign = c /\ w1.leg = n /\ w1.pred = p /\ w1.cap = cap /\ w1.cum = 0
      /\ w1.terminal = FALSE /\ w1.missed = FALSE
      /\ w1.remaining = StoredOrderRemaining(w1, leg.residual)
      /\ (p # None => w1.remaining <= leg.residual)
  <2> DEFINE rem == StoredOrderRemaining(w, leg.residual)
  <2>1. cap \in Nat /\ leg.residual \in Nat
    BY <1>0, ConstantsAre DEF LegRows
  <2>2. rem \in Nat /\ (p # None => rem <= leg.residual)
    BY <2>1, RemainingFits
  <2>3. /\ w \in [campaign : Campaigns, leg : Legs, pred : Orders \cup {None}, cap : Quantities \cup {0},
                    cum : Nat, remaining : Nat, terminal : BOOLEAN, missed : BOOLEAN]
        /\ w.campaign = c /\ w.leg = n /\ w.pred = p /\ w.cap = cap /\ w.cum = 0
        /\ w.terminal = FALSE /\ w.missed = FALSE
    OBVIOUS
  <2> HIDE DEF rem, w
  <2>4. /\ w1 \in OrderRows /\ w1.campaign = c /\ w1.leg = n /\ w1.pred = p /\ w1.cap = cap /\ w1.cum = 0
        /\ w1.terminal = FALSE /\ w1.missed = FALSE /\ w1.remaining = rem
    BY <2>2, <2>3 DEF OrderRows, rem
  <2> HIDE DEF w1, leg
  <2>5. StoredOrderRemaining(w1, leg.residual) = rem
    BY <2>3, <2>4 DEF StoredOrderRemaining, rem
  <2> QED BY <2>2, <2>4, <2>5
<1> HIDE DEF row1, w1, w, next, st
<1>6. /\ ord1 \in [Orders -> OrderRows] /\ ord1[o] = w1
      /\ \A x \in Orders \ {o} :
           /\ ord1[x].campaign = book.ord[x].campaign /\ ord1[x].leg = book.ord[x].leg
           /\ ord1[x].pred = book.ord[x].pred /\ ord1[x].cap = book.ord[x].cap
           /\ ord1[x].cum = book.ord[x].cum /\ ord1[x].remaining = book.ord[x].remaining
           /\ ord1[x].missed = book.ord[x].missed
           /\ (book.ord[x].terminal => ord1[x].terminal)
           /\ x # p => ord1[x] = book.ord[x]
  <2>1. \A y \in OrderRows : /\ [y EXCEPT !.terminal = TRUE] \in OrderRows
                             /\ [y EXCEPT !.terminal = TRUE].campaign = y.campaign
                             /\ [y EXCEPT !.terminal = TRUE].leg = y.leg
                             /\ [y EXCEPT !.terminal = TRUE].pred = y.pred
                             /\ [y EXCEPT !.terminal = TRUE].cap = y.cap
                             /\ [y EXCEPT !.terminal = TRUE].cum = y.cum
                             /\ [y EXCEPT !.terminal = TRUE].remaining = y.remaining
                             /\ [y EXCEPT !.terminal = TRUE].missed = y.missed
                             /\ [y EXCEPT !.terminal = TRUE].terminal = TRUE
    BY DEF OrderRows
  <2> QED BY <1>0, <1>5, <2>1
<1> HIDE DEF ord1
<1>7. /\ b1.ord = ord1 /\ b1.account = book.account /\ b1.revived = book.revived
      /\ b1.replay = book.replay /\ b1.camp[c] = row1
      /\ \A x \in Campaigns \ {c} : b1.camp[x] = book.camp[x] /\ b1.leg[x] = book.leg[x]
      /\ \A m \in Legs \ {n} : b1.leg[c][m] = book.leg[c][m]
      /\ b1.leg[c][n].state = st /\ b1.leg[c][n].filled = leg.filled
      /\ b1.leg[c][n].requested = leg.requested /\ b1.leg[c][n].residual = leg.residual
  BY <1>0 DEF Books, LegRows
<1>8. b1 \in Books
  BY <1>0, <1>3, <1>4, <1>6 DEF Books, LegRows
<1> HIDE DEF b1
<1>9. /\ r \in Books /\ r.camp = b1.camp /\ r.leg = b1.leg /\ r.ord = b1.ord
      /\ r.account = b1.account /\ r.revived = b1.revived
      /\ \A x \in Campaigns \ {c} : r.replay[x] = b1.replay[x]
  BY <1>1, <1>8, RecordedChanges DEF OnLeg
<1> HIDE DEF r
<1>10. ASSUME NEW x, NEW m PROVE LegFilled(b1, x, m) = LegFilled(book, x, m)
  <2>1. \A y \in Orders :
          (IF b1.ord[y].campaign = x /\ b1.ord[y].leg = m THEN b1.ord[y].cum ELSE 0)
          = (IF book.ord[y].campaign = x /\ book.ord[y].leg = m THEN book.ord[y].cum ELSE 0)
    BY <1>0, <1>5, <1>6, <1>7
  <2> QED BY <2>1, LegFilledSame
<1>11. \A x \in Campaigns : PlannedLegs(b1, x) = PlannedLegs(book, x)
  BY <1>4, <1>7 DEF PlannedLegs
<1>12. RowInv(b1)
  <2>1. LegsFollow(b1)
    <3>1. \A x \in Campaigns : \E j \in 0..Cardinality(Legs) : PlannedLegs(b1, x) = 1..j
      BY <1>0, <1>11 DEF LegsFollow
    <3>2. \A x \in Campaigns :
            b1.camp[x].state = "NONE" => b1.camp[x] = NoCampaign /\ PlannedLegs(b1, x) = {}
      BY <1>0, <1>3, <1>7, <1>11 DEF LegsFollow
    <3>3. \A x \in Campaigns, m \in Legs :
            /\ b1.leg[x][m].state = "NONE" => b1.leg[x][m] = NoLeg
            /\ b1.leg[x][m].filled = LegFilled(b1, x, m)
            /\ b1.leg[x][m].residual = RemainingFromCap(b1.leg[x][m].requested, b1.leg[x][m].filled)
      <4> SUFFICES ASSUME NEW x \in Campaigns, NEW m \in Legs
                   PROVE  /\ b1.leg[x][m].state = "NONE" => b1.leg[x][m] = NoLeg
                          /\ b1.leg[x][m].filled = LegFilled(b1, x, m)
                          /\ b1.leg[x][m].residual
                               = RemainingFromCap(b1.leg[x][m].requested, b1.leg[x][m].filled)
        OBVIOUS
      <4>1. CASE x = c /\ m = n
        BY <1>0, <1>4, <1>7, <1>10, <4>1 DEF LegsFollow
      <4>2. CASE x # c \/ m # n
        BY <1>0, <1>7, <1>10, <4>2 DEF LegsFollow
      <4> QED BY <4>1, <4>2
    <3> QED BY <3>1, <3>2, <3>3 DEF LegsFollow
  <2>2. OrdersJoin(b1)
    <3>1. n \in PlannedLegs(book, c)
      BY <1>4 DEF PlannedLegs
    <3>2. \A x \in Campaigns : book.camp[x].state \notin {"NONE", "PLANNED"}
                               => b1.camp[x].state \notin {"NONE", "PLANNED"}
      BY <1>3, <1>7
    <3>3. \A y \in Orders \ {o} : y # p \/ book.ord[y].campaign # None
      BY ConstantsAre DEF OrdersOf
    <3>4. \A y \in Orders \ {o} : book.ord[y].campaign \in Campaigns \cup {None}
      BY <1>0 DEF OrderRows
    <3>5. b1.ord[o].campaign = c /\ b1.ord[o].leg = n /\ b1.camp[c].state = "ACTIVE" /\ c # None
      BY <1>3, <1>5, <1>6, <1>7, ConstantsAre
    <3>6. \A y \in Orders \ {o} :
            /\ b1.ord[y].campaign = None => b1.ord[y] = NoOrder
            /\ b1.ord[y].campaign # None =>
                 /\ b1.ord[y].leg \in PlannedLegs(b1, b1.ord[y].campaign)
                 /\ b1.camp[b1.ord[y].campaign].state \notin {"NONE", "PLANNED"}
      BY <1>0, <1>6, <1>7, <1>11, <3>2, <3>3, <3>4 DEF OrdersJoin
    <3>7. b1.ord[o].leg \in PlannedLegs(b1, c)
      BY <1>11, <3>1, <3>5
    <3> QED BY <3>5, <3>6, <3>7 DEF OrdersJoin
  <2>3. SurplusAside(b1)
    <3>1. ~SetAside(book, c) /\ \A x \in Campaigns \ {c} : SetAside(b1, x) <=> SetAside(book, x)
      BY <1>7 DEF SetAside
    <3>2. \A m \in Legs : ~(b1.leg[c][m].filled > b1.leg[c][m].requested)
      BY <1>0, <1>7, <3>1 DEF RowInv, SurplusAside
    <3>3. \A x \in Campaigns, m \in Legs :
            b1.leg[x][m].filled > b1.leg[x][m].requested => SetAside(b1, x)
      BY <1>0, <1>7, <3>1, <3>2 DEF RowInv, SurplusAside
    <3>4. ~(b1.ord[o].cum > b1.ord[o].cap) /\ ~b1.ord[o].missed
      BY <1>5, <1>6, <1>7, ConstantsAre
    <3>5. \A y \in Orders \ {o} : book.ord[y].campaign \in Campaigns \/ book.ord[y] = NoOrder
      BY <1>0 DEF OrdersJoin, OrderRows
    <3>6. ~(NoOrder.cum > NoOrder.cap) /\ ~(NoOrder.missed /\ NoOrder.cum > 0)
      BY DEF NoOrder
    <3>7. \A y \in Orders \ {o} :
           /\ b1.ord[y].cum > b1.ord[y].cap => SetAside(b1, b1.ord[y].campaign)
           /\ b1.ord[y].missed /\ b1.ord[y].cum > 0 => SetAside(b1, b1.ord[y].campaign)
      BY <1>0, <1>6, <1>7, <3>1, <3>5, <3>6 DEF RowInv, SurplusAside
    <3> QED BY <3>3, <3>4, <3>7 DEF SurplusAside
  <2>4. OneOwner(b1)
    <3>1. \A x \in Campaigns : ActiveIn(b1, x) <=> ActiveIn(book, x)
      BY <1>2, <1>3, <1>7 DEF ActiveIn
    <3>2. \A x \in Campaigns : b1.camp[x].bound = book.camp[x].bound
      BY <1>3, <1>7
    <3>3. \A y \in Orders : book.ord[y].cum > 0 =>
            b1.ord[y].cum = book.ord[y].cum /\ b1.ord[y].campaign = book.ord[y].campaign
      BY <1>0, <1>6, <1>7
    <3> QED BY <1>0, <1>7, <3>1, <3>2, <3>3 DEF RowInv, OneOwner
  <2>5. SuccessorsFit(b1)
    <3>1. \A x \in Campaigns, m \in Legs : b1.leg[x][m].residual = book.leg[x][m].residual
      BY <1>7
    <3>2. b1.ord[o].pred # None => b1.ord[o].remaining <= b1.leg[c][n].residual
      BY <1>5, <1>6, <1>7
    <3>3. \A y \in Orders \ {o} : book.ord[y].campaign # None =>
             book.ord[y].campaign \in Campaigns /\ book.ord[y].leg \in Legs
      BY <1>0 DEF OrdersJoin, OrderRows, PlannedLegs
    <3>4. \A y \in Orders \ {o} :
            b1.ord[y].campaign # None /\ b1.ord[y].pred # None /\ ~b1.ord[y].terminal
              => b1.ord[y].remaining <= b1.leg[b1.ord[y].campaign][b1.ord[y].leg].residual
      <4>1. \A y \in Orders \ {o} : book.ord[y].campaign # None =>
              b1.leg[book.ord[y].campaign][book.ord[y].leg].residual
                = book.leg[book.ord[y].campaign][book.ord[y].leg].residual
        BY <3>1, <3>3
      <4>2. \A y \in Orders \ {o} :
              /\ b1.ord[y].campaign = book.ord[y].campaign /\ b1.ord[y].leg = book.ord[y].leg
              /\ b1.ord[y].pred = book.ord[y].pred /\ b1.ord[y].remaining = book.ord[y].remaining
              /\ (book.ord[y].terminal => b1.ord[y].terminal)
        BY <1>6, <1>7
      <4>3. \A y \in Orders \ {o} :
              book.ord[y].campaign # None /\ book.ord[y].pred # None /\ ~book.ord[y].terminal
                => book.ord[y].remaining <= book.leg[book.ord[y].campaign][book.ord[y].leg].residual
        BY <1>0 DEF RowInv, SuccessorsFit
      <4> QED BY <4>1, <4>2, <4>3
    <3> QED BY <1>5, <1>6, <1>7, <3>2, <3>4 DEF SuccessorsFit
  <2>6. StoppedIsBlocked(b1)
    BY <1>0, <1>3, <1>7 DEF RowInv, StoppedIsBlocked, BlockingStates
  <2> QED BY <2>1, <2>2, <2>3, <2>4, <2>5, <2>6 DEF RowInv
<1>13. RowInv(r)
  BY <1>9, <1>12, RowsAlone
<1>14. ASSUME ~(leg.state = "CANCELLED" /\ leg.filled = 0) PROVE EventsFollow(r, c)
  <2> SUFFICES ASSUME c \notin book.revived PROVE EventsFollow(r, c)
    BY <1>7, <1>9 DEF EventsFollow
  <2>1. /\ b1.replay[c].valid /\ ~b1.replay[c].blocked /\ ~b1.camp[c].blocked
        /\ b1.camp[c].state = "ACTIVE" /\ b1.camp[c].bound = b1.replay[c].bound
        /\ b1.camp[c].stop = b1.replay[c].stop /\ b1.replay[c].state = row.state
        /\ b1.replay[c].leg[n] = leg.state
        /\ \A m \in Legs : m # n => b1.replay[c].leg[m] = b1.leg[c][m].state
    BY <1>0, <1>3, <1>7 DEF EventsFollow
  <2>2. ReplayedState(b1.replay[c], "ORDER_LINKED", b1.camp[c]) = b1.camp[c].state
    BY <1>2, <2>1 DEF ReplayedState, ReplayedEvent, next
  <2>3. b1.leg[c][n].state = ReplayedLeg(b1.replay[c], b1, c, "ORDER_LINKED", n, o, 0)
    <3>1. /\ b1.ord[o].pred = p /\ b1.leg[c][n].state = st /\ b1.leg[c][n].filled = leg.filled
          /\ b1.replay[c].leg[n] = leg.state /\ leg.filled \in Nat
      BY <1>0, <1>5, <1>6, <1>7, <2>1 DEF LegRows
    <3> HIDE DEF leg
    <3>2. CASE p = None
      BY <1>4, <3>1, <3>2 DEF ReplayedLeg, TransitionLeg
    <3>3. CASE p # None
      BY <1>4, <1>14, <3>1, <3>3 DEF ReplayedLeg, TransitionLeg
    <3> QED BY <3>2, <3>3
  <2>4. /\ b1.leg[c][n].filled = LegFilled(b1, c, n)
        /\ b1.leg[c][n].residual = RemainingFromCap(b1.leg[c][n].requested, b1.leg[c][n].filled)
    BY <1>12 DEF RowInv, LegsFollow
  <2>5. b1.ord[o].remaining = StoredOrderRemaining(b1.ord[o], b1.leg[c][n].residual)
    BY <1>5, <1>6, <1>7
  <2>6. b1.camp[c].stop >= b1.replay[c].stop /\ b1.camp[c].state \notin BlockingStates /\ "ORDER_LINKED" \in OnLeg
    BY <1>8, <2>1, ConstantsAre DEF BlockingStates, OnLeg, Books, CampaignRows
  <2> QED BY <1>1, <1>8, <2>1, <2>2, <2>3, <2>4, <2>5, <2>6, ReplayedAgrees
<1>15. ASSUME NEW x \in Campaigns \ {c} PROVE EventsFollow(r, x)
  <2>1. EventsFollow(book, x)
    BY DEF BookInv
  <2>2. r.camp[x] = book.camp[x] /\ r.leg[x] = book.leg[x] /\ r.replay[x] = book.replay[x]
        /\ r.revived = book.revived
    BY <1>7, <1>9
  <2> QED BY <2>1, <2>2, Zenon DEF EventsFollow
<1>16. Keeps(book, r)
  <2>1. \A x \in Campaigns : book.camp[x].stop \in Nat
    BY <1>0, ConstantsAre DEF Books, CampaignRows
  <2>2. \A y \in Orders : book.ord[y].cum \in Nat /\ r.ord[y].cum = book.ord[y].cum
    BY <1>0, <1>5, <1>6, <1>7, <1>9 DEF OrderRows
  <2>3. r.camp[c] = row1 /\ \A x \in Campaigns \ {c} : r.camp[x] = book.camp[x]
    BY <1>7, <1>9
  <2> QED BY <1>3, <2>1, <2>2, <2>3 DEF Keeps
<1>17. /\ r.ord[o].campaign = c /\ r.ord[o].leg = n /\ r.ord[o].cum = 0 /\ ~r.ord[o].missed
       /\ \A x \in Orders : r.ord[x].cum = book.ord[x].cum
       /\ \A x \in Orders \ {o} : r.ord[x].missed = book.ord[x].missed
       /\ r.revived = book.revived
  BY <1>0, <1>5, <1>6, <1>7, <1>9
<1> QED BY <1>9, <1>13, <1>14, <1>15, <1>16, <1>17 DEF r, st

(* LinkCampaignOrder, refused or not. *)
LEMMA LinkKeeps ==
    ASSUME BookInv(book), SeenFirst, seen \in [Orders -> [cum : Nat, terminal : BOOLEAN]],
           NEW c \in Campaigns, NEW n \in Legs, NEW o \in Orders, NEW p \in Orders \cup {None},
           NEW cap \in Quantities, NEW sound, LinkCampaignOrder(c, n, o, p, cap, sound)
    PROVE  BookInv(book') /\ Keeps(book, book') /\ SeenFirst'
<1>0. book.camp[c].state # "NONE" /\ seen' = seen
  BY DEF LinkCampaignOrder
<1>1. CASE latchCampaignLinkConflict(c)
  <2>1. BookInv(book') /\ Keeps(book, book') /\ book'.ord = book.ord
    BY <1>0, <1>1, RefusedKeeps
  <2> QED BY <1>0, <2>1 DEF SeenFirst
<1>2. CASE ~latchCampaignLinkConflict(c)
  <2> DEFINE r == LinkedRows(book, c, n, o, p, cap, NextLeg(c, n, p))
             m == seen[o].cum > 0
             add == {x \in {c} : book.leg[c][n].state = "CANCELLED" /\ book.leg[c][n].filled = 0}
             b == [r EXCEPT !.ord[o].missed = m, !.revived = @ \cup add]
  <2>1. /\ ~book.camp[c].blocked /\ ~Linked(o) /\ (p # None => p \in OrdersOf(book, c, n))
        /\ NextLeg(c, n, p) # "INVALID"
        /\ TransitionCampaign(book.camp[c].state, "ORDER_LINKED") # "INVALID"
        /\ book' = b
    BY <1>2 DEF LinkCampaignOrder
  <2>2. book.ord[o].campaign = None
    BY <2>1 DEF Linked
  <2>3. /\ r \in Books /\ RowInv(r) /\ Keeps(book, r)
        /\ \A x \in Campaigns \ {c} : EventsFollow(r, x)
        /\ EventsFollow(r, c) \/ (book.leg[c][n].state = "CANCELLED" /\ book.leg[c][n].filled = 0)
        /\ r.revived = book.revived
        /\ r.ord[o].campaign = c /\ r.ord[o].leg = n /\ r.ord[o].cum = 0 /\ ~r.ord[o].missed
        /\ \A x \in Orders : r.ord[x].cum = book.ord[x].cum
        /\ \A x \in Orders \ {o} : r.ord[x].missed = book.ord[x].missed
    BY <1>0, <2>1, <2>2, LinkedRowsKeep
  <2> HIDE DEF r, m, add
  <2>4. m \in BOOLEAN /\ add \in SUBSET Campaigns
    BY DEF m, add
  <2>5. /\ b.camp = r.camp /\ b.leg = r.leg /\ b.account = r.account /\ b.replay = r.replay
        /\ b.revived = r.revived \cup add
        /\ \A x \in Orders \ {o} : b.ord[x] = r.ord[x]
        /\ b.ord[o].campaign = c /\ b.ord[o].leg = n /\ b.ord[o].pred = r.ord[o].pred
        /\ b.ord[o].cap = r.ord[o].cap /\ b.ord[o].cum = 0 /\ b.ord[o].remaining = r.ord[o].remaining
        /\ b.ord[o].terminal = r.ord[o].terminal /\ b.ord[o].missed = m
    BY <2>3 DEF Books, OrderRows
  <2>6. b \in Books
    <3> DEFINE w == [r.ord[o] EXCEPT !.missed = m]
    <3>1. r.ord \in [Orders -> OrderRows] /\ r.ord[o] \in OrderRows
      BY <2>3 DEF Books
    <3>2. w \in OrderRows
      BY <2>4, <3>1 DEF OrderRows
    <3>3. b = [r EXCEPT !.ord[o] = w, !.revived = @ \cup add]
      OBVIOUS
    <3> HIDE DEF b, w
    <3> QED BY <2>3, <2>4, <3>2, <3>3 DEF Books
  <2> HIDE DEF b
  <2>7. RowInv(b)
    <3>1. \A x, k : LegFilled(b, x, k) = LegFilled(r, x, k)
      <4> SUFFICES ASSUME NEW x, NEW k, NEW y \in Orders
                   PROVE  (IF b.ord[y].campaign = x /\ b.ord[y].leg = k THEN b.ord[y].cum ELSE 0)
                          = (IF r.ord[y].campaign = x /\ r.ord[y].leg = k THEN r.ord[y].cum ELSE 0)
        BY LegFilledSame
      <4> QED BY <2>3, <2>5
    <3>2. \A x : /\ PlannedLegs(b, x) = PlannedLegs(r, x)
                 /\ ActiveIn(b, x) <=> ActiveIn(r, x)
                 /\ SetAside(b, x) <=> SetAside(r, x)
      BY <2>5 DEF PlannedLegs, ActiveIn, SetAside
    <3>3. LegsFollow(b)
      BY <2>3, <2>5, <3>1, <3>2 DEF RowInv, LegsFollow
    <3>4. OrdersJoin(b)
      BY <2>3, <2>5, <3>2, ConstantsAre DEF RowInv, OrdersJoin
    <3>5. SurplusAside(b)
      BY <2>3, <2>5, <3>2 DEF RowInv, SurplusAside
    <3>6. OneOwner(b)
      <4>1. OneOwner(r)
        BY <2>3 DEF RowInv
      <4>2. /\ b.camp = r.camp /\ b.account = r.account
            /\ \A x \in Orders : b.ord[x].campaign = r.ord[x].campaign /\ b.ord[x].cum = r.ord[x].cum
        BY <2>3, <2>5
      <4> QED BY <3>2, <4>1, <4>2 DEF OneOwner
    <3>7. SuccessorsFit(b)
      <4>1. SuccessorsFit(r)
        BY <2>3 DEF RowInv
      <4>2. /\ b.leg = r.leg
            /\ \A x \in Orders : /\ b.ord[x].campaign = r.ord[x].campaign /\ b.ord[x].leg = r.ord[x].leg
                                 /\ b.ord[x].pred = r.ord[x].pred
                                 /\ b.ord[x].terminal = r.ord[x].terminal
                                 /\ b.ord[x].remaining = r.ord[x].remaining
        BY <2>3, <2>5
      <4> QED BY <4>1, <4>2 DEF SuccessorsFit
    <3>8. StoppedIsBlocked(b)
      BY <2>3, <2>5 DEF RowInv, StoppedIsBlocked
    <3> QED BY <3>3, <3>4, <3>5, <3>6, <3>7, <3>8 DEF RowInv
  <2>8. \A x \in Campaigns : EventsFollow(b, x)
    BY <2>3, <2>5 DEF EventsFollow, add
  <2>9. BookInv(b)
    BY <2>6, <2>7, <2>8 DEF BookInv
  <2>10. Keeps(book, b)
    BY <2>3, <2>5 DEF Keeps
  <2>11. \A x \in Orders : b.ord[x].cum = book.ord[x].cum /\ (x # o => b.ord[x].missed = book.ord[x].missed)
    BY <2>3, <2>5
  <2>12. \A x \in Orders : b.ord[x].cum <= seen[x].cum /\ (b.ord[x].missed => seen[x].cum > 0)
    <3>1. \A x \in Orders \ {o} : b.ord[x].missed => seen[x].cum > 0
      BY <2>11 DEF SeenFirst
    <3>2. b.ord[o].missed => seen[o].cum > 0
      BY <2>5 DEF m
    <3> QED BY <2>11, <3>1, <3>2 DEF SeenFirst
  <2> QED BY <1>0, <2>1, <2>9, <2>10, <2>12 DEF SeenFirst
<1> QED BY <1>1, <1>2

(* ------------------------------- fills ------------------------------- *)

(* A fill takes a planned leg to a planned leg, or is refused. *)
LEMMA LegStatesAfterFill ==
    ASSUME NEW from \in LegStates \ {"NONE"}, NEW delta, NEW filled, NEW requested, NEW terminal, NEW succeeded
    PROVE  LegStateAfterFill(from, delta, filled, requested, terminal, succeeded)
             \in (LegStates \ {"NONE"}) \cup {"INVALID"}
BY DEF LegStateAfterFill, TransitionLeg, LegStates

(* ApplyPositionCampaignFill, for every order, watermark and position it may meet: *)
(* the order's row, its leg, its campaign, the other live orders of the leg and the  *)
(* end of a campaign that came to nothing.                                           *)
LEMMA FillKeeps ==
    ASSUME NEW b, BookInv(b), NEW o \in Orders, NEW p, p.seq \in Nat, NEW cum \in Nat, NEW delta \in Int,
           NEW terminal \in BOOLEAN, cum >= b.ord[o].cum,
           b.ord[o].missed /\ b.ord[o].cum = 0 => delta # cum
    PROVE  LET f == ApplyPositionCampaignFill(b, p, o, cum, delta, terminal)
           IN  /\ BookInv(f) /\ Keeps(b, f)
               /\ \A x \in Orders \ {o} : f.ord[x].cum = b.ord[x].cum
               /\ f.ord[o].cum \in {b.ord[o].cum, cum}
               /\ \A x \in Orders : f.ord[x].missed = b.ord[x].missed
<1> DEFINE w    == b.ord[o]
           c    == w.campaign
           n    == w.leg
           row  == b.camp[c]
           leg  == b.leg[c][n]
           d    == cum - w.cum
           ends == terminal \/ w.terminal
           binds == row.bound = 0 /\ d # 0 /\ p.seq = row.expected + 1
           bound == IF binds THEN p.seq ELSE row.bound
           w1   == [w EXCEPT !.cum = cum, !.terminal = ends, !.remaining = RemainingFromCap(w.cap, cum)]
           b1   == [b EXCEPT !.ord[o] = w1]
           filled   == LegFilled(b1, c, n)
           legState == LegStateAfterFill(leg.state, d, filled, leg.requested, ends, Succeeded(b, o))
           reconcile == \/ d # 0 /\ (w.terminal \/ row.state = "CLOSED")
                        \/ delta # d
                        \/ cum > w.cap \/ filled > leg.requested
                        \/ IF row.bound = 0 THEN d # 0 /\ ~binds ELSE p.seq # row.bound
                        \/ legState = "INVALID"
           next == IF row.state = "CLOSED" THEN "CLOSED"
                   ELSE IF reconcile THEN "RECONCILE"
                   ELSE IF row.state = "PLANNED" THEN "ACTIVE" ELSE row.state
           st   == IF legState = "INVALID" THEN leg.state ELSE legState
           residual == RemainingFromCap(leg.requested, filled)
           leg2 == [leg EXCEPT !.filled = filled, !.residual = residual, !.state = st]
           row2 == [row EXCEPT !.state = next, !.bound = bound, !.blocked = LatchEntryBlocked(row.blocked, next)]
           b2   == [b1 EXCEPT !.leg[c][n] = leg2, !.camp[c] = row2, !.account = @ \/ row.state = "CLOSED"]
           b3   == updateCampaignSuccessorRemaining(b2, c, n)
           over == b3.leg[c][n].state = "CANCELLED" /\ filled = 0 /\ NothingCameOfIt(b3, c)
           b4   == IF over THEN [b3 EXCEPT !.camp[c] = [@ EXCEPT !.state = "CLOSED", !.blocked = TRUE],
                                           !.claim = IF @ = c THEN None ELSE @]
                           ELSE b3
           news == d > 0 \/ (d = 0 /\ terminal /\ ~w.terminal)
           r    == Recorded(b4, c, "ORDER_WATERMARK_ADVANCED", n, o, d, bound)
           f    == ApplyPositionCampaignFill(b, p, o, cum, delta, terminal)
<1>1. f = IF c = None \/ ~news THEN b ELSE r
  BY DEF ApplyPositionCampaignFill
<1>2. /\ b \in Books /\ RowInv(b) /\ LegsFollow(b) /\ OrdersJoin(b) /\ SurplusAside(b) /\ OneOwner(b)
      /\ \A x \in Orders : b.ord[x] \in OrderRows
      /\ \A x \in Campaigns : b.camp[x] \in CampaignRows /\ b.camp[x].stop \in Nat
  BY ConstantsAre DEF BookInv, RowInv, Books, CampaignRows
<1>3. CASE c = None \/ ~news
  <2>1. f = b
    <3> HIDE DEF c, news, r, f
    <3> QED BY <1>1, <1>3
  <2>2. Keeps(b, b)
    <3>1. \A x \in Orders : b.ord[x].cum \in Nat
      BY <1>2 DEF OrderRows
    <3> QED BY <1>2, <3>1 DEF Keeps
  <2> HIDE DEF f
  <2> QED BY <2>1, <2>2 DEF f
<1>4. CASE c # None /\ news
  <2>1. f = r
    <3> HIDE DEF c, news, r, f
    <3> QED BY <1>1, <1>4
  <2>2. /\ c \in Campaigns /\ n \in Legs /\ row.state \notin {"NONE", "PLANNED"} /\ leg.state # "NONE"
        /\ w \in OrderRows /\ row \in CampaignRows /\ leg \in LegRows /\ d \in Nat /\ n \in PlannedLegs(b, c)
        /\ row.state \in {"ACTIVE", "EXITING", "RECONCILE", "CLOSED"}
    <3>1. c \in Campaigns /\ n \in PlannedLegs(b, c) /\ row.state \notin {"NONE", "PLANNED"} /\ w \in OrderRows
      BY <1>2, <1>4 DEF OrdersJoin, OrderRows
    <3>2. n \in Legs /\ leg.state # "NONE"
      BY <3>1 DEF PlannedLegs
    <3>3. row \in CampaignRows /\ leg \in LegRows
      BY <1>2, <3>1, <3>2 DEF Books
    <3>4. d \in Nat
      BY <3>1 DEF OrderRows
    <3>5. row.state \in {"ACTIVE", "EXITING", "RECONCILE", "CLOSED"}
      BY <3>1, <3>3 DEF CampaignRows, CampaignStates
    <3> QED BY <3>1, <3>2, <3>3, <3>4, <3>5
  <2>n. b.ord[o].campaign = c /\ b.ord[o].leg = n /\ b.camp[c] = row /\ b.leg[c][n] = leg /\ b.ord[o] = w
        /\ d = cum - w.cum /\ w.cum \in Nat /\ w.campaign = c /\ w.leg = n
        /\ (ends <=> (terminal \/ w.terminal)) /\ ends \in BOOLEAN
    BY <2>2 DEF OrderRows
  <2>3. /\ w1 \in OrderRows /\ w1.campaign = c /\ w1.leg = n /\ w1.pred = w.pred /\ w1.cap = w.cap
        /\ w1.missed = w.missed /\ w1.cum = cum /\ w1.terminal = ends
        /\ w1.remaining = RemainingFromCap(w.cap, cum)
    <3>1. RemainingFromCap(w.cap, cum) \in Nat
      BY <2>2, ConstantsAre DEF RemainingFromCap, OrderRows
    <3> QED BY <2>2, <3>1 DEF OrderRows
  <2> HIDE DEF w1, w, c, n, row, leg, d, ends
  <2>4. /\ b1.camp = b.camp /\ b1.leg = b.leg /\ b1.account = b.account /\ b1.revived = b.revived
        /\ b1.replay = b.replay /\ b1.claim = b.claim
        /\ b1.ord[o] = w1 /\ \A x \in Orders \ {o} : b1.ord[x] = b.ord[x]
        /\ b1 \in Books
    BY <1>2, <2>3 DEF Books
  <2> HIDE DEF b1
  <2>5. /\ filled \in Nat /\ cum <= filled
        /\ \A x, m : x # c \/ m # n => LegFilled(b1, x, m) = LegFilled(b, x, m)
    <3>1. filled \in Nat /\ \A x \in OrdersOf(b1, c, n) : b1.ord[x].cum <= filled
      BY <2>4, LegFilledIs
    <3>2. o \in OrdersOf(b1, c, n)
      BY <2>3, <2>4 DEF OrdersOf
    <3>3. ASSUME NEW x, NEW m, x # c \/ m # n PROVE LegFilled(b1, x, m) = LegFilled(b, x, m)
      <4>1. \A y \in Orders :
              (IF b1.ord[y].campaign = x /\ b1.ord[y].leg = m THEN b1.ord[y].cum ELSE 0)
              = (IF b.ord[y].campaign = x /\ b.ord[y].leg = m THEN b.ord[y].cum ELSE 0)
        BY <2>n, <2>3, <2>4, <3>3
      <4> QED BY <4>1, LegFilledSame
    <3>4. cum <= filled
      BY <2>3, <2>4, <3>1, <3>2
    <3> QED BY <3>1, <3>3, <3>4
  <2> HIDE DEF filled
  <2>6. legState \in (LegStates \ {"NONE"}) \cup {"INVALID"}
    BY <2>2, LegStatesAfterFill DEF LegRows
  <2> HIDE DEF legState
  <2>7. /\ leg2 \in LegRows /\ leg2.state = st /\ st # "NONE" /\ leg2.requested = leg.requested
        /\ leg2.filled = filled /\ leg2.residual = residual /\ residual \in Nat
    <3>1. residual \in Nat
      BY <2>2, <2>5, ConstantsAre DEF RemainingFromCap, LegRows
    <3>2. st \in LegStates /\ st # "NONE"
      BY <2>2, <2>6 DEF LegRows
    <3> HIDE DEF residual, st, leg
    <3> QED BY <2>2, <2>5, <3>1, <3>2 DEF LegRows
  <2> HIDE DEF leg2, st, residual
  <2>8. bound \in Nat /\ (row.bound # 0 => bound = row.bound)
        /\ (row.bound = 0 /\ bound # 0 => bound = row.expected + 1 /\ d # 0)
    BY <2>2 DEF CampaignRows
  <2>9. /\ next \in {"ACTIVE", "EXITING", "RECONCILE", "CLOSED"}
        /\ row.state = "CLOSED" => next = "CLOSED"
        /\ reconcile => next \in {"RECONCILE", "CLOSED"}
        /\ row.state = "RECONCILE" => next = "RECONCILE"
        /\ next = "CLOSED" => row.state = "CLOSED"
        /\ next \notin BlockingStates /\ row.state \notin BlockingStates =>
             row.state = "ACTIVE" /\ next = "ACTIVE" /\ ~reconcile
    <3> HIDE DEF reconcile, row
    <3> QED BY <2>2 DEF BlockingStates
  <2>10. /\ delta # d => reconcile
         /\ cum > w.cap => reconcile
         /\ filled > leg.requested => reconcile
         /\ legState = "INVALID" => reconcile
    OBVIOUS
  <2> HIDE DEF next, reconcile, bound
  <2>11. /\ row2 \in CampaignRows /\ row2.state = next /\ row2.bound = bound /\ row2.stop = row.stop
         /\ row2.expected = row.expected
         /\ row2.blocked <=> (row.blocked \/ next \in BlockingStates)
    <3>1. next \in CampaignStates
      BY <2>9 DEF CampaignStates
    <3> HIDE DEF row
    <3> QED BY <2>2, <2>8, <3>1 DEF CampaignRows, LatchEntryBlocked
  <2> HIDE DEF row2
  <2>12. /\ b2.camp[c] = row2 /\ b2.leg[c][n] = leg2 /\ b2.ord = b1.ord /\ b2.revived = b.revived
         /\ b2.replay = b.replay
         /\ b2.account <=> (b.account \/ row.state = "CLOSED")
         /\ \A x \in Campaigns \ {c} : b2.camp[x] = b.camp[x] /\ b2.leg[x] = b.leg[x]
         /\ \A m \in Legs \ {n} : b2.leg[c][m] = b.leg[c][m]
         /\ b2 \in Books
    BY <2>2, <2>4, <2>7, <2>11 DEF Books
  <2> HIDE DEF b2
  <2>13. /\ b3.camp = b2.camp /\ b3.leg = b2.leg /\ b3.account = b2.account /\ b3.revived = b2.revived
         /\ b3.replay = b2.replay /\ b3.claim = b2.claim
         /\ b3 \in Books
         /\ \A x \in Orders :
              /\ b3.ord[x].campaign = b1.ord[x].campaign /\ b3.ord[x].leg = b1.ord[x].leg
              /\ b3.ord[x].pred = b1.ord[x].pred /\ b3.ord[x].cap = b1.ord[x].cap
              /\ b3.ord[x].cum = b1.ord[x].cum /\ b3.ord[x].terminal = b1.ord[x].terminal
              /\ b3.ord[x].missed = b1.ord[x].missed
              /\ IF b1.ord[x].campaign = c /\ b1.ord[x].leg = n /\ ~b1.ord[x].terminal
                 THEN b3.ord[x].remaining = StoredOrderRemaining(b1.ord[x], residual)
                 ELSE b3.ord[x] = b1.ord[x]
    <3> DEFINE U(x) == IF x \in OrdersOf(b2, c, n) /\ ~b2.ord[x].terminal
                       THEN [b2.ord[x] EXCEPT !.remaining = StoredOrderRemaining(b2.ord[x], b2.leg[c][n].residual)]
                       ELSE b2.ord[x]
    <3>1. b3 = [b2 EXCEPT !.ord = [x \in Orders |-> U(x)]]
      BY DEF updateCampaignSuccessorRemaining
    <3>2. \A x \in Orders : b2.ord[x] \in OrderRows
      BY <2>12 DEF Books
    <3>3. b2.leg[c][n].residual = residual
      BY <2>7, <2>12
    <3>4. \A x \in Orders : StoredOrderRemaining(b2.ord[x], residual) \in Nat
      BY <2>7, <3>2, ConstantsAre, RemainingFits DEF OrderRows
    <3>5. \A y \in OrderRows, v \in Nat :
            /\ [y EXCEPT !.remaining = v] \in OrderRows /\ [y EXCEPT !.remaining = v].campaign = y.campaign
            /\ [y EXCEPT !.remaining = v].leg = y.leg /\ [y EXCEPT !.remaining = v].pred = y.pred
            /\ [y EXCEPT !.remaining = v].cap = y.cap /\ [y EXCEPT !.remaining = v].cum = y.cum
            /\ [y EXCEPT !.remaining = v].terminal = y.terminal
            /\ [y EXCEPT !.remaining = v].missed = y.missed /\ [y EXCEPT !.remaining = v].remaining = v
      BY DEF OrderRows
    <3>6. \A x \in Orders :
            /\ U(x) \in OrderRows
            /\ U(x).campaign = b1.ord[x].campaign /\ U(x).leg = b1.ord[x].leg
            /\ U(x).pred = b1.ord[x].pred /\ U(x).cap = b1.ord[x].cap
            /\ U(x).cum = b1.ord[x].cum /\ U(x).terminal = b1.ord[x].terminal
            /\ U(x).missed = b1.ord[x].missed
            /\ IF b1.ord[x].campaign = c /\ b1.ord[x].leg = n /\ ~b1.ord[x].terminal
               THEN U(x).remaining = StoredOrderRemaining(b1.ord[x], residual)
               ELSE U(x) = b1.ord[x]
      BY <2>12, <3>2, <3>3, <3>4, <3>5 DEF OrdersOf
    <3> HIDE DEF U, b3
    <3>7. /\ b3.camp = b2.camp /\ b3.leg = b2.leg /\ b3.account = b2.account /\ b3.revived = b2.revived
          /\ b3.replay = b2.replay /\ b3.claim = b2.claim /\ b3 \in Books
          /\ \A x \in Orders : b3.ord[x] = U(x)
      BY <2>12, <3>1, <3>6 DEF Books
    <3> QED BY <3>6, <3>7
  <2> HIDE DEF b3
  <2>14. over \in BOOLEAN /\ (over => NothingCameOfIt(b3, c))
    OBVIOUS
  <2> HIDE DEF over
  <2>15. /\ b4.leg = b3.leg /\ b4.ord = b3.ord /\ b4.account = b3.account /\ b4.revived = b3.revived
         /\ b4.replay = b3.replay /\ b4 \in Books
         /\ \A x \in Campaigns \ {c} : b4.camp[x] = b3.camp[x]
         /\ b4.camp[c].bound = bound /\ b4.camp[c].stop = row.stop /\ b4.camp[c].expected = row.expected
         /\ b4.camp[c].state = (IF over THEN "CLOSED" ELSE next)
         /\ b4.camp[c].blocked <=> (over \/ row2.blocked)
    <3>1. b3.camp[c] = row2
      BY <2>12, <2>13
    <3>2. CASE over
      <4> DEFINE row4 == [b3.camp[c] EXCEPT !.state = "CLOSED", !.blocked = TRUE]
      <4>1. b4 = [b3 EXCEPT !.camp[c] = row4, !.claim = IF @ = c THEN None ELSE @]
        BY <3>2
      <4>2. /\ row4 \in CampaignRows /\ row4.bound = bound /\ row4.stop = row.stop
            /\ row4.expected = row.expected /\ row4.state = "CLOSED" /\ row4.blocked = TRUE
        BY <2>11, <3>1 DEF CampaignRows, CampaignStates
      <4> HIDE DEF row4, b4
      <4> QED BY <2>2, <2>13, <3>2, <4>1, <4>2 DEF Books
    <3>3. CASE ~over
      BY <2>11, <2>13, <3>1, <3>3
    <3> QED BY <3>2, <3>3
  <2> HIDE DEF b4
  <2>16. /\ b4.leg[c][n] = leg2 /\ \A m \in Legs \ {n} : b4.leg[c][m] = b.leg[c][m]
         /\ \A x \in Campaigns \ {c} : b4.camp[x] = b.camp[x] /\ b4.leg[x] = b.leg[x]
         /\ b4.account <=> (b.account \/ row.state = "CLOSED")
         /\ b4.revived = b.revived /\ b4.replay = b.replay
    BY <2>12, <2>13, <2>15
  <2>17. /\ b4.ord[o].campaign = c /\ b4.ord[o].leg = n /\ b4.ord[o].pred = w.pred /\ b4.ord[o].cap = w.cap
         /\ b4.ord[o].cum = cum /\ b4.ord[o].terminal = ends /\ b4.ord[o].missed = w.missed
         /\ \A x \in Orders \ {o} :
              /\ b4.ord[x].campaign = b.ord[x].campaign /\ b4.ord[x].leg = b.ord[x].leg
              /\ b4.ord[x].pred = b.ord[x].pred /\ b4.ord[x].cap = b.ord[x].cap
              /\ b4.ord[x].cum = b.ord[x].cum /\ b4.ord[x].terminal = b.ord[x].terminal
              /\ b4.ord[x].missed = b.ord[x].missed
              /\ b.ord[x].campaign # c \/ b.ord[x].leg # n => b4.ord[x] = b.ord[x]
    BY <2>3, <2>4, <2>13, <2>15
  <2>18. \A x \in Orders : b4.ord[x].campaign = c /\ b4.ord[x].leg = n /\ ~b4.ord[x].terminal =>
           b4.ord[x].remaining = StoredOrderRemaining(b4.ord[x], residual)
    BY <2>13, <2>15 DEF StoredOrderRemaining
  <2>19. ends => b4.ord[o].remaining = RemainingFromCap(w.cap, cum)
    <3>1. ends => b3.ord[o] = b1.ord[o]
      BY <2>3, <2>4, <2>13
    <3>2. b4.ord[o] = b3.ord[o] /\ b1.ord[o] = w1
      BY <2>4, <2>15
    <3> QED BY <2>3, <3>1, <3>2
  <2>20. over => NothingCameOfIt(b4, c)
    BY <2>14, <2>15 DEF NothingCameOfIt
  <2>21. ASSUME NEW x, NEW m PROVE LegFilled(b4, x, m) = LegFilled(b1, x, m)
    <3>1. \A y \in Orders :
            (IF b4.ord[y].campaign = x /\ b4.ord[y].leg = m THEN b4.ord[y].cum ELSE 0)
            = (IF b1.ord[y].campaign = x /\ b1.ord[y].leg = m THEN b1.ord[y].cum ELSE 0)
      BY <2>13, <2>15
    <3> QED BY <3>1, LegFilledSame
  <2>22. \A x \in Campaigns : PlannedLegs(b4, x) = PlannedLegs(b, x)
    <3>1. PlannedLegs(b4, c) = PlannedLegs(b, c)
      BY <2>2, <2>7, <2>16 DEF PlannedLegs
    <3>2. \A x \in Campaigns \ {c} : PlannedLegs(b4, x) = PlannedLegs(b, x)
      BY <2>16 DEF PlannedLegs
    <3> QED BY <3>1, <3>2
  <2>23. LegsFollow(b4)
    <3>1. \A x \in Campaigns : \E j \in 0..Cardinality(Legs) : PlannedLegs(b4, x) = 1..j
      BY <1>2, <2>22 DEF LegsFollow
    <3>2. b4.camp[c].state # "NONE"
      BY <2>9, <2>15
    <3>3. \A x \in Campaigns :
            b4.camp[x].state = "NONE" => b4.camp[x] = NoCampaign /\ PlannedLegs(b4, x) = {}
      BY <1>2, <2>16, <2>22, <3>2 DEF LegsFollow
    <3>4. \A x \in Campaigns, m \in Legs :
            /\ b4.leg[x][m].state = "NONE" => b4.leg[x][m] = NoLeg
            /\ b4.leg[x][m].filled = LegFilled(b4, x, m)
            /\ b4.leg[x][m].residual = RemainingFromCap(b4.leg[x][m].requested, b4.leg[x][m].filled)
      <4> SUFFICES ASSUME NEW x \in Campaigns, NEW m \in Legs
                   PROVE  /\ b4.leg[x][m].state = "NONE" => b4.leg[x][m] = NoLeg
                          /\ b4.leg[x][m].filled = LegFilled(b4, x, m)
                          /\ b4.leg[x][m].residual
                               = RemainingFromCap(b4.leg[x][m].requested, b4.leg[x][m].filled)
        OBVIOUS
      <4>1. CASE x = c /\ m = n
        BY <2>7, <2>16, <2>21, <4>1 DEF filled, residual
      <4>2. CASE x # c \/ m # n
        <5>1. b4.leg[x][m] = b.leg[x][m] /\ LegFilled(b4, x, m) = LegFilled(b, x, m)
          BY <2>5, <2>16, <2>21, <4>2
        <5> QED BY <1>2, <5>1 DEF LegsFollow
      <4> QED BY <4>1, <4>2
    <3> QED BY <3>1, <3>3, <3>4 DEF LegsFollow
  <2>24. OrdersJoin(b4)
    <3>1. b4.camp[c].state \notin {"NONE", "PLANNED"}
      BY <2>9, <2>15
    <3>2. b4.ord[o].leg \in PlannedLegs(b4, c)
      BY <2>2, <2>17, <2>22
    <3>3. \A x \in Orders \ {o} : b.ord[x].campaign \in Campaigns \cup {None}
      BY <1>2 DEF OrderRows
    <3>4. c # None
      BY <1>4
    <3>5. \A x \in Orders \ {o} :
            /\ b4.ord[x].campaign = None => b4.ord[x] = NoOrder
            /\ b4.ord[x].campaign # None =>
                 /\ b4.ord[x].leg \in PlannedLegs(b4, b4.ord[x].campaign)
                 /\ b4.camp[b4.ord[x].campaign].state \notin {"NONE", "PLANNED"}
      <4> SUFFICES ASSUME NEW x \in Orders \ {o}
                   PROVE  /\ b4.ord[x].campaign = None => b4.ord[x] = NoOrder
                          /\ b4.ord[x].campaign # None =>
                               /\ b4.ord[x].leg \in PlannedLegs(b4, b4.ord[x].campaign)
                               /\ b4.camp[b4.ord[x].campaign].state \notin {"NONE", "PLANNED"}
        OBVIOUS
      <4>1. /\ b4.ord[x].campaign = b.ord[x].campaign /\ b4.ord[x].leg = b.ord[x].leg
            /\ (b.ord[x].campaign # c => b4.ord[x] = b.ord[x])
        BY <2>17
      <4>2. /\ b.ord[x].campaign = None => b.ord[x] = NoOrder
            /\ b.ord[x].campaign # None =>
                 /\ b.ord[x].leg \in PlannedLegs(b, b.ord[x].campaign)
                 /\ b.camp[b.ord[x].campaign].state \notin {"NONE", "PLANNED"}
        BY <1>2 DEF OrdersJoin
      <4>3. b.ord[x].campaign # None => PlannedLegs(b4, b.ord[x].campaign) = PlannedLegs(b, b.ord[x].campaign)
        BY <2>22, <3>3
      <4>4. b.ord[x].campaign # None => b4.camp[b.ord[x].campaign].state \notin {"NONE", "PLANNED"}
        BY <2>16, <3>1, <3>3, <4>2
      <4> QED BY <3>4, <4>1, <4>2, <4>3, <4>4
    <3> QED BY <2>17, <3>1, <3>2, <3>4, <3>5 DEF OrdersJoin
  <2>25. SurplusAside(b4)
    <3>1. reconcile => SetAside(b4, c)
      BY <2>9, <2>11, <2>15 DEF SetAside, BlockingStates
    <3>2. SetAside(b, c) => SetAside(b4, c)
      BY <2>n, <2>9, <2>11, <2>15 DEF SetAside, BlockingStates
    <3>3. \A x \in Campaigns : SetAside(b, x) => SetAside(b4, x)
      BY <2>16, <3>2 DEF SetAside
    <3>4. \A x \in Campaigns, m \in Legs : b4.leg[x][m].filled > b4.leg[x][m].requested => SetAside(b4, x)
      <4>1. b4.leg[c][n].filled > b4.leg[c][n].requested => SetAside(b4, c)
        BY <2>7, <2>10, <2>16, <3>1
      <4>2. \A x \in Campaigns, m \in Legs : x # c \/ m # n => b4.leg[x][m] = b.leg[x][m]
        BY <2>16
      <4> QED BY <1>2, <3>3, <4>1, <4>2 DEF SurplusAside
    <3>5. b4.ord[o].cum > b4.ord[o].cap => SetAside(b4, c)
      BY <2>10, <2>17, <3>1
    <3>6. b4.ord[o].missed /\ b4.ord[o].cum > 0 => SetAside(b4, c)
      <4> SUFFICES ASSUME w.missed, cum > 0 PROVE SetAside(b4, c)
        BY <2>17
      <4>1. CASE w.cum = 0
        BY <2>10, <2>n, <3>1, <4>1
      <4>2. CASE w.cum # 0
        BY <1>2, <2>n, <3>2, <4>2 DEF SurplusAside
      <4> QED BY <4>1, <4>2
    <3>7. \A x \in Orders \ {o} : b.ord[x].campaign \in Campaigns \/ b.ord[x] = NoOrder
      BY <1>2 DEF OrdersJoin, OrderRows
    <3>8. ~(NoOrder.cum > NoOrder.cap) /\ ~(NoOrder.missed /\ NoOrder.cum > 0)
      BY DEF NoOrder
    <3>9. \A x \in Orders \ {o} :
            /\ b4.ord[x].cum > b4.ord[x].cap => SetAside(b4, b4.ord[x].campaign)
            /\ b4.ord[x].missed /\ b4.ord[x].cum > 0 => SetAside(b4, b4.ord[x].campaign)
      BY <1>2, <2>17, <3>3, <3>7, <3>8 DEF SurplusAside
    <3> QED BY <2>17, <3>4, <3>5, <3>6, <3>9 DEF SurplusAside
  <2>26. OneOwner(b4)
    <3>1. ActiveIn(b4, c) => ActiveIn(b, c)
      BY <2>n, <2>2, <2>9, <2>15 DEF ActiveIn
    <3>2. \A x \in Campaigns \ {c} : ActiveIn(b4, x) <=> ActiveIn(b, x)
      BY <2>16 DEF ActiveIn
    <3>3. \A x, y \in Campaigns : ActiveIn(b4, x) /\ ActiveIn(b4, y) => x = y
      BY <1>2, <3>1, <3>2 DEF OneOwner
    <3>4. \A y \in Orders : b4.ord[y].campaign = b.ord[y].campaign /\ b4.ord[y].cum >= b.ord[y].cum
                            /\ b4.ord[y].cum \in Nat /\ b.ord[y].cum \in Nat
      BY <1>2, <2>n, <2>17 DEF OrderRows
    <3>5. \A x \in Campaigns \ {c} : b4.camp[x].bound # 0 =>
            /\ b4.account \/ ActiveIn(b4, x)
            /\ \E y \in Orders : b4.ord[y].campaign = x /\ b4.ord[y].cum > 0
      <4>1. \A x \in Campaigns \ {c} : b4.camp[x].bound # 0 =>
              /\ b.account \/ ActiveIn(b, x)
              /\ \E y \in Orders : b.ord[y].campaign = x /\ b.ord[y].cum > 0
        BY <1>2, <2>16 DEF OneOwner
      <4> QED BY <2>16, <3>2, <3>4, <4>1
    <3>6. ASSUME bound # 0
          PROVE  /\ b4.account \/ ActiveIn(b4, c)
                 /\ \E y \in Orders : b4.ord[y].campaign = c /\ b4.ord[y].cum > 0
      <4>1. PICK y \in Orders : b4.ord[y].campaign = c /\ b4.ord[y].cum > 0
        <5>1. CASE row.bound # 0
          <6>1. PICK y \in Orders : b.ord[y].campaign = c /\ b.ord[y].cum > 0
            BY <1>2, <2>n, <2>2, <5>1 DEF OneOwner
          <6> QED BY <3>4, <6>1
        <5>2. CASE row.bound = 0
          BY <2>2, <2>8, <2>n, <2>17, <3>6, <5>2
        <5> QED BY <5>1, <5>2
      <4>2. b4.ord[y].leg \in PlannedLegs(b4, c)
        BY <1>4, <2>24, <4>1 DEF OrdersJoin
      <4> DEFINE m == b4.ord[y].leg
      <4>3. m \in Legs /\ b4.leg[c][m].state # "NONE" /\ y \in OrdersOf(b4, c, m)
        BY <4>1, <4>2 DEF PlannedLegs, OrdersOf
      <4>4. b4.ord[y].cum <= LegFilled(b4, c, m) /\ LegFilled(b4, c, m) \in Nat
        BY <2>15, <4>3, LegFilledIs
      <4>5. b4.leg[c][m].filled = LegFilled(b4, c, m)
        BY <2>2, <2>23, <4>3 DEF LegsFollow
      <4> HIDE DEF m
      <4>6. b4.leg[c][m].filled # 0
        BY <3>4, <4>1, <4>4, <4>5
      <4>7. ~NothingCameOfIt(b4, c)
        BY <4>3, <4>6 DEF NothingCameOfIt
      <4>8. ~over
        BY <2>20, <4>7
      <4>9. row.state = "CLOSED" \/ ActiveIn(b4, c)
        BY <2>9, <2>15, <4>8 DEF ActiveIn
      <4> QED BY <2>16, <4>1, <4>9
    <3> QED BY <2>15, <3>3, <3>5, <3>6 DEF OneOwner
  <2>27. SuccessorsFit(b4) /\ StoppedIsBlocked(b4)
    <3>1. StoppedIsBlocked(b4)
      BY <1>2, <2>11, <2>15, <2>16 DEF RowInv, StoppedIsBlocked, BlockingStates
    <3>2. \A x \in Orders : b4.ord[x].campaign = c /\ b4.ord[x].leg = n /\ b4.ord[x].pred # None
                            /\ ~b4.ord[x].terminal => b4.ord[x].remaining <= residual
      <4>1. \A x \in Orders : b4.ord[x].cap \in Nat /\ b4.ord[x].cum \in Nat
        BY <2>15, ConstantsAre DEF Books, OrderRows
      <4> QED BY <2>7, <2>18, <4>1, RemainingFits
    <3>3. \A x \in Orders : b4.ord[x].campaign # None =>
            b4.ord[x].campaign \in Campaigns /\ b4.ord[x].leg \in Legs
      BY <2>15, <2>24 DEF OrdersJoin, PlannedLegs, Books, OrderRows
    <3>4. \A x \in Orders \ {o} :
            b.ord[x].campaign # None /\ b.ord[x].pred # None /\ ~b.ord[x].terminal
              => b.ord[x].remaining <= b.leg[b.ord[x].campaign][b.ord[x].leg].residual
      BY <1>2 DEF RowInv, SuccessorsFit
    <3>5. ASSUME NEW x \in Orders, b4.ord[x].campaign # None, b4.ord[x].pred # None, ~b4.ord[x].terminal
          PROVE  b4.ord[x].remaining <= b4.leg[b4.ord[x].campaign][b4.ord[x].leg].residual
      <4>1. CASE b4.ord[x].campaign = c /\ b4.ord[x].leg = n
        BY <2>7, <2>16, <3>2, <3>5, <4>1
      <4>2. CASE b4.ord[x].campaign # c \/ b4.ord[x].leg # n
        <5>1. x # o /\ b4.ord[x] = b.ord[x]
          BY <2>17, <4>2
        <5>2. b4.leg[b4.ord[x].campaign][b4.ord[x].leg] = b.leg[b4.ord[x].campaign][b4.ord[x].leg]
          BY <2>16, <3>3, <3>5, <4>2
        <5> QED BY <3>4, <3>5, <5>1, <5>2
      <4> QED BY <4>1, <4>2
    <3> QED BY <3>1, <3>5 DEF SuccessorsFit
  <2>28. /\ r \in Books /\ r.camp = b4.camp /\ r.leg = b4.leg /\ r.ord = b4.ord
         /\ r.account = b4.account /\ r.revived = b4.revived
         /\ \A x \in Campaigns \ {c} : r.replay[x] = b4.replay[x]
    <3>1. bound \in Nat /\ b4 \in Books /\ c \in Campaigns /\ n \in Legs
      BY <2>2, <2>8, <2>15
    <3> QED BY <3>1, RecordedChanges
  <2>29. EventsFollow(r, c)
    <3> DEFINE kind == "ORDER_WATERMARK_ADVANCED"
    <3>1. SUFFICES ASSUME ~b4.camp[c].blocked, c \notin b.revived PROVE EventsFollow(r, c)
      BY <2>16, <2>28 DEF EventsFollow
    <3>2. ~over /\ ~row.blocked /\ next \notin BlockingStates /\ b4.camp[c].state = next
      BY <2>11, <2>14, <2>15, <3>1
    <3>3. row.state \notin BlockingStates
      BY <1>2, <2>n, <2>2, <3>2 DEF RowInv, StoppedIsBlocked
    <3>4. row.state = "ACTIVE" /\ b4.camp[c].state = "ACTIVE" /\ legState # "INVALID"
      BY <2>9, <2>10, <3>2, <3>3
    <3>5. /\ b4.replay[c].valid /\ ~b4.replay[c].blocked /\ b4.replay[c].state = "ACTIVE"
          /\ b4.replay[c].bound = row.bound /\ b4.replay[c].stop = row.stop
          /\ \A m \in Legs : b4.replay[c].leg[m] = b.leg[c][m].state
      BY <2>2, <2>n, <2>16, <3>1, <3>2, <3>4 DEF BookInv, EventsFollow
    <3>6. ReplayedState(b4.replay[c], kind, b4.camp[c]) = b4.camp[c].state
      BY <3>4, <3>5 DEF ReplayedState, ReplayedEvent, TransitionCampaign
    <3>7. IF bound # 0
          THEN /\ bound = (IF b4.replay[c].bound # 0 THEN b4.replay[c].bound ELSE b4.camp[c].expected + 1)
               /\ b4.camp[c].bound = bound
          ELSE b4.camp[c].bound = b4.replay[c].bound
      BY <2>8, <2>15, <3>5
    <3>8. b4.leg[c][n].state = ReplayedLeg(b4.replay[c], b4, c, kind, n, o, d)
      <4>1. \A x \in Orders : b4.ord[x].pred = b.ord[x].pred
        BY <2>n, <2>17
      <4>2. Succeeded(b4, o) = Succeeded(b, o)
        BY <4>1 DEF Succeeded
      <4>3. ReplayedLeg(b4.replay[c], b4, c, kind, n, o, d)
            = LegStateAfterFill(b4.replay[c].leg[n], d, b4.leg[c][n].filled, b4.leg[c][n].requested,
                                b4.ord[o].terminal, Succeeded(b4, o))
        BY DEF ReplayedLeg
      <4>4. /\ b4.replay[c].leg[n] = leg.state /\ b4.leg[c][n].filled = filled
            /\ b4.leg[c][n].requested = leg.requested /\ b4.ord[o].terminal = ends
        BY <2>2, <2>n, <2>7, <2>16, <2>17, <3>5
      <4>5. ReplayedLeg(b4.replay[c], b4, c, kind, n, o, d) = legState
        BY <4>2, <4>3, <4>4 DEF legState
      <4>6. b4.leg[c][n].state = legState
        BY <2>7, <2>16, <3>4 DEF st
      <4> QED BY <4>5, <4>6
    <3>9. /\ b4.leg[c][n].filled = LegFilled(b4, c, n)
          /\ b4.leg[c][n].residual = RemainingFromCap(b4.leg[c][n].requested, b4.leg[c][n].filled)
      BY <2>2, <2>23 DEF LegsFollow
    <3>10. b4.ord[o].remaining = StoredOrderRemaining(b4.ord[o], b4.leg[c][n].residual)
      <4>1. b4.ord[o].cap \in Nat /\ b4.ord[o].cum \in Nat
        BY <2>15, ConstantsAre DEF Books, OrderRows
      <4>2. CASE ends
        <5>1. b4.ord[o].terminal /\ b4.ord[o].cap = w.cap /\ b4.ord[o].cum = cum
          BY <2>17, <4>2
        <5>2. StoredOrderRemaining(b4.ord[o], residual) = RemainingFromCap(w.cap, cum)
          BY <2>7, <4>1, <5>1, RemainingFits
        <5> QED BY <2>7, <2>16, <2>19, <4>2, <5>2
      <4>3. CASE ~ends
        BY <2>7, <2>16, <2>17, <2>18, <4>3
      <4> QED BY <4>2, <4>3
    <3>11. b4.camp[c].stop >= b4.replay[c].stop
      BY <2>2, <2>15, <3>5, ConstantsAre DEF CampaignRows
    <3>12. \A m \in Legs : m # n => b4.replay[c].leg[m] = b4.leg[c][m].state
      BY <2>16, <3>5
    <3>13. b4.camp[c].state \notin BlockingStates
      BY <3>4 DEF BlockingStates
    <3>14. kind \in OnLeg
      BY DEF OnLeg
    <3>15. bound \in Nat /\ b4 \in Books /\ c \in Campaigns /\ n \in Legs
      BY <2>2, <2>8, <2>15
    <3> HIDE DEF r, kind
    <3>16. EventsFollow(Recorded(b4, c, kind, n, o, d, bound), c)
      BY <3>1, <3>5, <3>6, <3>7, <3>8, <3>9, <3>10, <3>11, <3>12, <3>13, <3>14, <3>15, ReplayedAgrees
    <3> QED BY <3>16 DEF r, kind
  <2> HIDE DEF r
  <2>30. BookInv(r)
    <3>1. RowInv(b4)
      BY <2>23, <2>24, <2>25, <2>26, <2>27 DEF RowInv
    <3>2. RowInv(r)
      BY <2>28, <3>1, RowsAlone
    <3>3. /\ b.revived \subseteq r.revived
          /\ \A x \in Campaigns \ {c} :
               r.camp[x] = b.camp[x] /\ r.leg[x] = b.leg[x] /\ r.replay[x] = b.replay[x]
      BY <2>16, <2>28
    <3> QED BY <2>2, <2>28, <2>29, <3>2, <3>3, BookFollows
  <2>31. Keeps(b, r)
    <3>1. \A y \in Orders : r.ord[y].cum >= b.ord[y].cum
      BY <1>2, <2>n, <2>17, <2>28 DEF OrderRows
    <3>2. /\ row.blocked => b4.camp[c].blocked
          /\ b4.camp[c].stop = row.stop /\ row.stop \in Nat
          /\ row.bound # 0 => b4.camp[c].bound = row.bound
      BY <1>2, <2>2, <2>n, <2>8, <2>11, <2>15
    <3>3. \A x \in Campaigns \ {c} : r.camp[x] = b.camp[x]
      BY <2>16, <2>28
    <3> QED BY <1>2, <2>n, <2>28, <3>1, <3>2, <3>3 DEF Keeps
  <2>32. /\ \A x \in Orders \ {o} : r.ord[x].cum = b.ord[x].cum
         /\ r.ord[o].cum \in {b.ord[o].cum, cum}
         /\ \A x \in Orders : r.ord[x].missed = b.ord[x].missed
    BY <2>n, <2>17, <2>28
  <2> HIDE DEF f
  <2> QED BY <2>1, <2>30, <2>31, <2>32 DEF f
<1> QED BY <1>3, <1>4

(* RecordFill knows of an order what the campaign knows, or more. *)
LEMMA RecordFillKeeps ==
    ASSUME CampaignIInv, NEW o \in Orders, NEW cum \in Nat, NEW terminal \in BOOLEAN,
           RecordFill(o, cum, terminal), pos'.seq \in Nat
    PROVE  BookInv(book') /\ Keeps(book, book') /\ SeenFirst'
<1> DEFINE delta == cum - seen[o].cum
           f == ApplyPositionCampaignFill(book, pos', o, cum, delta, terminal)
<1>1. /\ delta \in Int /\ delta >= 0 /\ seen[o].cum \in Nat /\ book.ord[o].cum \in Nat
      /\ book.ord[o].cum <= seen[o].cum /\ BookInv(book) /\ book' = f
      /\ seen' = [seen EXCEPT ![o] = [cum |-> cum, terminal |-> terminal]]
      /\ seen \in [Orders -> [cum : Nat, terminal : BOOLEAN]]
  BY DEF CampaignIInv, CampaignTypeOK, SeenFirst, RecordFill, Books, OrderRows
<1>2. cum >= book.ord[o].cum /\ (book.ord[o].missed /\ book.ord[o].cum = 0 => delta # cum)
  BY <1>1 DEF CampaignIInv, SeenFirst
<1> HIDE DEF delta
<1>3. /\ BookInv(f) /\ Keeps(book, f)
      /\ \A x \in Orders \ {o} : f.ord[x].cum = book.ord[x].cum
      /\ f.ord[o].cum \in {book.ord[o].cum, cum}
      /\ \A x \in Orders : f.ord[x].missed = book.ord[x].missed
  BY <1>1, <1>2, FillKeeps
<1> HIDE DEF f
<1>4. \A x \in Orders : f.ord[x].cum <= seen'[x].cum /\ (f.ord[x].missed => seen'[x].cum > 0)
  BY <1>1, <1>2, <1>3 DEF CampaignIInv, SeenFirst, delta
<1> QED BY <1>1, <1>3, <1>4 DEF SeenFirst

(* A confirmed order joins its leg, and what was recorded of it before is one fill. *)
LEMMA ConfirmedKeeps ==
    ASSUME CampaignIInv, NEW c \in Campaigns, NEW n \in Legs, NEW o \in Orders,
           LinkConfirmedStrategyOrder(c, n, o)
    PROVE  BookInv(book') /\ Keeps(book, book') /\ SeenFirst'
<1> DEFINE cap == book.leg[c][n].requested
           b == LinkedRows(book, c, n, o, None, cap, "SUBMITTED")
           cum == seen[o].cum
           f == ApplyPositionCampaignFill(b, pos, o, cum, cum, seen[o].terminal)
<1>1. /\ BookInv(book) /\ book.camp[c].state # "NONE" /\ ~book.camp[c].blocked
      /\ book.ord[o].campaign = None /\ seen' = seen /\ book' = f
      /\ TransitionCampaign(book.camp[c].state, "ORDER_LINKED") # "INVALID"
  BY DEF CampaignIInv, LinkConfirmedStrategyOrder, Linked
<1>2. cap \in Quantities \cup {0} /\ cum \in Nat /\ seen[o].terminal \in BOOLEAN /\ pos.seq \in Nat
  BY <1>1 DEF BookInv, Books, LegRows, CampaignIInv, CampaignTypeOK
<1>3. book.leg[c][n].state = "PLANNED" /\ NextLeg(c, n, None) = "SUBMITTED"
  BY DEF LinkConfirmedStrategyOrder, TransitionLeg, NextLeg
<1> HIDE DEF cap
<1>4. /\ b \in Books /\ RowInv(b) /\ Keeps(book, b)
      /\ \A x \in Campaigns : EventsFollow(b, x)
      /\ b.ord[o].cum = 0 /\ ~b.ord[o].missed
      /\ \A x \in Orders : b.ord[x].cum = book.ord[x].cum
      /\ \A x \in Orders \ {o} : b.ord[x].missed = book.ord[x].missed
  BY <1>1, <1>2, <1>3, LinkedRowsKeep, ConstantsAre
<1> HIDE DEF b
<1>5. BookInv(b)
  BY <1>4 DEF BookInv
<1> HIDE DEF cum
<1>6. /\ BookInv(f) /\ Keeps(b, f)
      /\ \A x \in Orders \ {o} : f.ord[x].cum = b.ord[x].cum
      /\ f.ord[o].cum \in {b.ord[o].cum, cum}
      /\ \A x \in Orders : f.ord[x].missed = b.ord[x].missed
  <2> DEFINE ended == seen[o].terminal
  <2>1. cum >= b.ord[o].cum /\ cum \in Int /\ cum \in Nat /\ ended \in BOOLEAN /\ pos.seq \in Nat
    BY <1>2, <1>4
  <2>2. b.ord[o].missed /\ b.ord[o].cum = 0 => cum # cum
    BY <1>4
  <2> HIDE DEF ended
  <2>3. LET h == ApplyPositionCampaignFill(b, pos, o, cum, cum, ended)
        IN  /\ BookInv(h) /\ Keeps(b, h)
            /\ \A x \in Orders \ {o} : h.ord[x].cum = b.ord[x].cum
            /\ h.ord[o].cum \in {b.ord[o].cum, cum}
            /\ \A x \in Orders : h.ord[x].missed = b.ord[x].missed
    BY <1>5, <2>1, <2>2, FillKeeps
  <2> QED BY <2>3 DEF ended
<1> HIDE DEF f
<1>7. Keeps(book, f)
  <2>1. \A x \in Campaigns : book.camp[x].stop \in Nat /\ b.camp[x].stop \in Nat /\ f.camp[x].stop \in Nat
    BY <1>1, <1>4, <1>6, ConstantsAre DEF BookInv, Books, CampaignRows
  <2>2. \A x \in Orders : book.ord[x].cum \in Nat /\ b.ord[x].cum \in Nat /\ f.ord[x].cum \in Nat
    BY <1>1, <1>4, <1>6 DEF BookInv, Books, OrderRows
  <2> QED BY <1>4, <1>6, <2>1, <2>2 DEF Keeps
<1>8. \A x \in Orders : f.ord[x].cum <= seen[x].cum /\ (f.ord[x].missed => seen[x].cum > 0)
  <2>1. \A x \in Orders : book.ord[x].cum <= seen[x].cum /\ (book.ord[x].missed => seen[x].cum > 0)
    BY DEF CampaignIInv, SeenFirst
  <2> QED BY <1>2, <1>4, <1>6, <2>1 DEF cum
<1> QED BY <1>1, <1>6, <1>7, <1>8 DEF SeenFirst

(* There are k numbers from 1 to k. *)
LEMMA CountTo ==
    ASSUME NEW k \in Nat
    PROVE  Cardinality(1..k) = k
<1>1. 1 \in Int /\ k \in Int
  OBVIOUS
<1>2. Cardinality(1..k) = IF 1 > k THEN 0 ELSE k - 1 + 1
  BY Zenon, <1>1, FS_Interval
<1> QED BY <1>2

(* The table of the position leads from position to position. *)
LEMMA PositionType ==
    ASSUME NEW x \in [state : PositionStates, quantity : Nat, seq : Nat], NEW role \in {"ENTRY", "EXIT"},
           NEW delta \in Nat, role = "EXIT" => delta <= x.quantity, NEW disposition
    PROVE  Apply(x, role, delta, disposition).pos \in [state : PositionStates, quantity : Nat, seq : Nat]
<1> DEFINE movement == ClassifyMovement(role, delta, x.quantity)
<1>1. NextState(x.state, role, movement, disposition) \in PositionStates
  BY DEF NextState, PositionStates
<1> QED BY <1>1 DEF Apply

(* Nothing is created, planned, linked or filled at first. *)
LEMMA CampaignInitial == CampaignInit => CampaignIInv
<1> SUFFICES ASSUME CampaignInit PROVE CampaignIInv
  OBVIOUS
<1>1. NoCampaign \in CampaignRows /\ NoLeg \in LegRows /\ NoOrder \in OrderRows /\ NoEvents \in Replays
  BY DEF NoCampaign, NoLeg, NoOrder, NoEvents, CampaignRows, LegRows, OrderRows, Replays,
         CampaignStates, LegStates
<1>2. /\ book \in Books /\ \A c \in Campaigns : book.camp[c] = NoCampaign /\ book.replay[c] = NoEvents
      /\ \A c \in Campaigns, n \in Legs : book.leg[c][n] = NoLeg
      /\ \A o \in Orders : book.ord[o] = NoOrder
  BY <1>1 DEF CampaignInit, Books
<1>3. /\ pos \in [state : PositionStates, quantity : Nat, seq : Nat]
      /\ seen \in [Orders -> [cum : Nat, terminal : BOOLEAN]]
      /\ {selling, sells} \subseteq Nat /\ scope \in Scopes
      /\ \A o \in Orders : seen[o].cum = 0
  BY DEF CampaignInit, PositionStates
<1>4. \A c \in Campaigns : PlannedLegs(book, c) = {}
  BY <1>2 DEF PlannedLegs, NoLeg
<1>5. \A c \in Campaigns, n \in Legs : LegFilled(book, c, n) = 0
  BY <1>2, LegFilledIs DEF OrdersOf, NoOrder
<1>6. LegsFollow(book)
  <2>1. {} = 1..0 /\ 0 \in 0..Cardinality(Legs)
    BY ConstantsAre
  <2>2. \A c \in Campaigns : \E k \in 0..Cardinality(Legs) : PlannedLegs(book, c) = 1..k
    BY <1>4, <2>1
  <2> QED BY <1>2, <1>4, <1>5, <2>2 DEF LegsFollow, NoLeg, RemainingFromCap
<1>7. OrdersJoin(book) /\ SurplusAside(book)
  <2>1. /\ NoOrder.campaign = None /\ NoOrder.cum = 0 /\ NoOrder.cap = 0 /\ NoOrder.missed = FALSE
        /\ NoLeg.filled = 0 /\ NoLeg.requested = 0
    BY DEF NoOrder, NoLeg
  <2> QED BY <1>2, <2>1 DEF OrdersJoin, SurplusAside
<1>8. OneOwner(book) /\ SuccessorsFit(book) /\ StoppedIsBlocked(book)
  BY <1>2 DEF OneOwner, ActiveIn, NoCampaign, SuccessorsFit, NoOrder, StoppedIsBlocked, BlockingStates
<1>9. \A c \in Campaigns : EventsFollow(book, c)
  BY <1>2 DEF EventsFollow, NoCampaign, NoEvents, NoLeg
<1> QED BY <1>2, <1>3, <1>6, <1>7, <1>8, <1>9 DEF CampaignIInv, CampaignTypeOK, BookInv, RowInv, SeenFirst, NoOrder

(* Every command and every fill keeps the invariant and what is learned. *)
LEMMA CampaignStep ==
    ASSUME CampaignIInv, [CampaignNext]_campaignVars
    PROVE  CampaignIInv' /\ Keeps(book, book')
<1>0. /\ BookInv(book) /\ SeenFirst /\ pos \in [state : PositionStates, quantity : Nat, seq : Nat]
      /\ seen \in [Orders -> [cum : Nat, terminal : BOOLEAN]] /\ {selling, sells} \subseteq Nat
      /\ scope \in Scopes /\ scope.campaigns \subseteq Campaigns /\ scope.legs \subseteq Legs
      /\ scope.quantities \subseteq Quantities /\ scope.stops \subseteq Stops \cup {0}
      /\ scope.fill \in Nat
  BY CampaignAssumption DEF CampaignIInv, CampaignTypeOK
<1>k. Keeps(book, book)
  <2>1. \A x \in Campaigns : book.camp[x].stop \in Nat
    BY <1>0, ConstantsAre DEF BookInv, Books, CampaignRows
  <2>2. \A x \in Orders : book.ord[x].cum \in Nat
    BY <1>0 DEF BookInv, Books, OrderRows
  <2> QED BY <2>1, <2>2 DEF Keeps
(* A command writes the book and leaves the rest. *)
<1>c. ASSUME BookInv(book'), Keeps(book, book'), SeenFirst', UNCHANGED <<pos, seen, selling, sells, scope>>
      PROVE  CampaignIInv' /\ Keeps(book, book')
  BY <1>0, <1>c DEF CampaignIInv, CampaignTypeOK, BookInv
<1>s. ASSUME book'.ord = book.ord, UNCHANGED seen PROVE SeenFirst'
  BY <1>0, <1>s DEF SeenFirst
<1>1. ASSUME NEW c \in scope.campaigns, CreatePositionCampaign(c)
      PROVE  CampaignIInv' /\ Keeps(book, book')
  <2>1. BookInv(book') /\ Keeps(book, book') /\ book'.ord = book.ord
    BY <1>0, <1>1, CreatedKeeps DEF CreatePositionCampaign
  <2> QED BY <1>1, <1>c, <1>s, <2>1 DEF CreatePositionCampaign
<1>2. ASSUME NEW c \in scope.campaigns, NEW q \in scope.quantities, AdmitFirstLeg(c, q)
      PROVE  CampaignIInv' /\ Keeps(book, book')
  <2>1. BookInv(book') /\ Keeps(book, book') /\ book'.ord = book.ord
    BY <1>0, <1>2, AdmittedKeeps DEF AdmitFirstLeg
  <2> QED BY <1>2, <1>c, <1>s, <2>1 DEF AdmitFirstLeg
<1>3. ASSUME NEW c \in scope.campaigns, NEW n \in scope.legs, NEW q \in scope.quantities,
             PlanCampaignLeg(c, n, q)
      PROVE  CampaignIInv' /\ Keeps(book, book')
  <2>0. LegsFollow(book) /\ c \in Campaigns
    BY <1>0 DEF BookInv, RowInv
  <2>1. PICK k \in 0..Cardinality(Legs) : PlannedLegs(book, c) = 1..k
    BY <2>0, Zenon DEF LegsFollow
  <2>2. k \in Nat /\ Cardinality(1..k) = k
    <3>1. k \in Nat
      BY ConstantsAre
    <3> QED BY <3>1, CountTo
  <2>3. n = k + 1
    BY <1>3, <2>1, <2>2 DEF PlanCampaignLeg, PlannedLegs
  <2>4. BookInv(book') /\ Keeps(book, book') /\ book'.ord = book.ord
    BY <1>0, <1>3, <2>1, <2>2, <2>3, PlannedKeeps DEF PlanCampaignLeg
  <2> QED BY <1>3, <1>c, <1>s, <2>4 DEF PlanCampaignLeg
<1>4. ASSUME NEW c \in scope.campaigns, NEW n \in scope.legs, NEW o \in Orders,
             NEW p \in Orders \cup {None}, NEW q \in scope.quantities, NEW sound \in BOOLEAN,
             LinkCampaignOrder(c, n, o, p, q, sound)
      PROVE  CampaignIInv' /\ Keeps(book, book')
  <2>1. BookInv(book') /\ Keeps(book, book') /\ SeenFirst'
    BY <1>0, <1>4, LinkKeeps
  <2> QED BY <1>4, <1>c, <2>1 DEF LinkCampaignOrder
<1>5. ASSUME NEW c \in scope.campaigns, NEW n \in scope.legs, NEW o \in Orders,
             LinkConfirmedStrategyOrder(c, n, o)
      PROVE  CampaignIInv' /\ Keeps(book, book')
  <2>1. BookInv(book') /\ Keeps(book, book') /\ SeenFirst'
    BY <1>0, <1>5, ConfirmedKeeps
  <2> QED BY <1>5, <1>c, <2>1 DEF LinkConfirmedStrategyOrder
<1>6. ASSUME NEW c \in scope.campaigns, NEW offered \in scope.stops, UpdateCampaignStop(c, offered)
      PROVE  CampaignIInv' /\ Keeps(book, book')
  <2>1. BookInv(book') /\ Keeps(book, book') /\ book'.ord = book.ord
    BY <1>0, <1>6, StopKeeps
  <2> QED BY <1>6, <1>c, <1>s, <2>1 DEF UpdateCampaignStop
<1>7. ASSUME NEW c \in scope.campaigns, CancelProspectiveCampaign(c)
      PROVE  CampaignIInv' /\ Keeps(book, book')
  <2>1. BookInv(book') /\ Keeps(book, book') /\ book'.ord = book.ord
    BY <1>0, <1>7, CancelKeeps
  <2> QED BY <1>7, <1>c, <1>s, <2>1 DEF CancelProspectiveCampaign
<1>8. ASSUME NEW c \in scope.campaigns, ReconcileStrategyProtection(c)
      PROVE  CampaignIInv' /\ Keeps(book, book')
  <2>1. BookInv(book') /\ Keeps(book, book') /\ book'.ord = book.ord
    BY <1>0, <1>8, ProtectionKeeps
  <2> QED BY <1>8, <1>c, <1>s, <2>1 DEF ReconcileStrategyProtection
<1>9. ASSUME NEW o \in Orders, NEW cum \in 0..scope.fill, NEW terminal \in BOOLEAN,
             RecordFill(o, cum, terminal)
      PROVE  CampaignIInv' /\ Keeps(book, book')
  <2>1. cum \in Nat /\ cum - seen[o].cum \in Nat
    BY <1>0, <1>9 DEF RecordFill
  <2>2. pos' \in [state : PositionStates, quantity : Nat, seq : Nat]
    BY <1>0, <1>9, <2>1, PositionType DEF RecordFill, Projected
  <2>3. BookInv(book') /\ Keeps(book, book') /\ SeenFirst'
    BY <1>9, <2>1, <2>2, RecordFillKeeps
  <2>4. seen' \in [Orders -> [cum : Nat, terminal : BOOLEAN]] /\ UNCHANGED <<selling, sells, scope>>
    BY <1>0, <1>9, <2>1 DEF RecordFill
  <2> QED BY <1>0, <2>2, <2>3, <2>4 DEF CampaignIInv, CampaignTypeOK, BookInv
<1>10. ASSUME BeginSell
       PROVE  CampaignIInv' /\ Keeps(book, book')
  BY <1>0, <1>k, <1>10 DEF BeginSell, CampaignIInv, CampaignTypeOK, SeenFirst, BookInv
<1>11. ASSUME NEW q \in 1..scope.fill, NEW terminal \in BOOLEAN, SellFills(q, terminal)
       PROVE  CampaignIInv' /\ Keeps(book, book')
  <2>1. q \in Nat /\ q <= pos.quantity
    BY <1>0, <1>11 DEF SellFills
  <2>2. pos' \in [state : PositionStates, quantity : Nat, seq : Nat]
    BY <1>0, <1>11, <2>1, PositionType DEF SellFills
  <2>3. UNCHANGED <<book, seen, sells, scope>> /\ selling' \in Nat
    BY <1>0, <1>11 DEF SellFills
  <2> QED BY <1>0, <1>k, <2>2, <2>3 DEF CampaignIInv, CampaignTypeOK, SeenFirst, BookInv
<1>12. ASSUME UNCHANGED campaignVars
       PROVE  CampaignIInv' /\ Keeps(book, book')
  BY <1>0, <1>k, <1>12 DEF campaignVars, CampaignIInv, CampaignTypeOK, SeenFirst, BookInv
<1> QED BY <1>1, <1>2, <1>3, <1>4, <1>5, <1>6, <1>7, <1>8, <1>9, <1>10, <1>11, <1>12 DEF CampaignNext

(* The anomalies, the successors, the shared positions and the replay, read from the *)
(* invariant.                                                                        *)
LEMMA CampaignMeans == CampaignIInv => CampaignInv
<1> SUFFICES ASSUME CampaignIInv PROVE CampaignInv
  OBVIOUS
<1>0. /\ CampaignTypeOK /\ book \in Books /\ LegsFollow(book) /\ OrdersJoin(book) /\ SurplusAside(book)
      /\ OneOwner(book) /\ SuccessorsFit(book) /\ \A c \in Campaigns : EventsFollow(book, c)
  BY DEF CampaignIInv, BookInv, RowInv
<1>1. \A o \in Orders : Linked(o) => book.ord[o].campaign \in Campaigns /\ book.ord[o].leg \in Legs
  BY <1>0 DEF Linked, OrdersJoin, PlannedLegs, Books, OrderRows
<1>2. \A c : Quarantined(c) <=> SetAside(book, c)
  BY DEF Quarantined, SetAside
<1>3. SurplusQuarantined
  BY <1>0, <1>1, <1>2 DEF SurplusQuarantined, SurplusAside
<1>4. SuccessorBounded
  BY <1>0 DEF SuccessorBounded, SuccessorsFit, Linked
<1>5. SharedGenerationFlagged
  BY <1>0 DEF SharedGenerationFlagged, OneOwner
<1>6. ReplayAgrees
  <2>1. \A c \in Campaigns : book.camp[c].blocked \in BOOLEAN /\ book.replay[c].blocked \in BOOLEAN
    BY <1>0 DEF Books, CampaignRows, Replays
  <2>2. ASSUME NEW c \in Campaigns, ~book.camp[c].blocked, c \notin book.revived
        PROVE  Reconstructs(c)
    <3>1. EventsFollow(book, c)
      BY <1>0
    <3> QED BY <2>1, <2>2, <3>1, Zenon DEF Reconstructs, EventsFollow
  <2> QED BY <2>2 DEF ReplayAgrees
<1> QED BY <1>0, <1>3, <1>4, <1>5, <1>6 DEF CampaignInv

(* The commands of position_campaign.go and ApplyPositionCampaignFill, in any      *)
(* order and for any number of campaigns, legs and orders: a surplus or an order   *)
(* linked too late sets its campaign aside, a live replacement is credited with no *)
(* more than its leg still wants, a position with two owners is flagged, and       *)
(* positioncampaign.Replay rebuilds every campaign that takes entries.             *)
THEOREM CampaignsAreSafe == CampaignSpec => []CampaignInv
<1>1. CampaignIInv /\ [CampaignNext]_campaignVars => CampaignIInv'
  BY CampaignStep
<1> QED BY <1>1, CampaignInitial, CampaignMeans, PTL DEF CampaignSpec

(* LatchEntryBlocked, ComposeLongStop and the watermark checks: no command and *)
(* no fill lifts an entry block, lowers a stop, winds a watermark back or      *)
(* exchanges an owned position for another.                                    *)
THEOREM CampaignsRemember == CampaignSpec => CampaignMonotone
<1>1. CampaignIInv /\ [CampaignNext]_campaignVars => CampaignIInv'
  BY CampaignStep
<1>2. CampaignIInv /\ [CampaignNext]_campaignVars
      => [/\ \A c \in Campaigns : /\ book.camp[c].blocked => book'.camp[c].blocked
                                  /\ book'.camp[c].stop >= book.camp[c].stop
                                  /\ book.camp[c].bound # 0 => book'.camp[c].bound = book.camp[c].bound
          /\ \A o \in Orders : book'.ord[o].cum >= book.ord[o].cum]_campaignVars
  BY CampaignStep DEF Keeps
<1> QED BY <1>1, <1>2, CampaignInitial, PTL DEF CampaignSpec, CampaignMonotone
=============================================================================
