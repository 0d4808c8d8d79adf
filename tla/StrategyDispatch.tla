-------------------------- MODULE StrategyDispatch --------------------------
(***************************************************************************)
(* The strategy's own road to the broker: an owner epoch that fences older  *)
(* processes, a lease per decision that must be issued, claimed and         *)
(* submitted under that epoch, and the holds the lease stands for (an       *)
(* aggregate reservation and five bucket holds), which are released in the  *)
(* transaction that refuses the lease (strategy_dispatch_*.go,              *)
(* internal/journal; strategyDispatchCycle, internal/app/engine;            *)
(* PlaceClaimedStrategy, internal/execgw).                                  *)
(*                                                                          *)
(* One process at a time holds the engine lock; a crash leaves the journal  *)
(* and whatever bytes are on the wire.  Time is in ticks: Transport is the  *)
(* client timeout, counted from the last fence to the end of the call.      *)
(***************************************************************************)
EXTENDS Integers, FiniteSets

CONSTANTS
    Leases,     \* one per admitted decision
    TTL,        \* the lifetime of a lease
    Transport,  \* the longest broker call
    Grace,      \* the wait after expiry before an owner may be replaced
    MaxCrashes, \* bound on restarts
    MaxFaults   \* bound on journal transactions that fail

ASSUME ConstantsAssumption ==
    /\ {TTL, Transport, Grace} \subseteq Nat \ {0}
    /\ Transport <= Grace
    /\ {MaxCrashes, MaxFaults} \subseteq Nat

LeaseStates == {"none", "ISSUED", "CLAIMED", "SUBMITTING", "SUBMITTED", "AMBIGUOUS", "REFUSED"}
CoreStates == {"none", "RECORDED", "DISPATCH_STARTED", "ACKED", "IN_DOUBT",
               "CONFIRMED", "FAILED_CONFIRMED", "NOT_DISPATCHED"}
Steps == {"idle", "admitted", "issued", "claimed", "prepared", "begun", "fenced", "sent",
          "answered", "acked", "over"}
Answers == {"none", "NOT_SENT", "REJECTED", "ACKED", "AMBIGUOUS"}

VARIABLES
    owner,   \* strategy_dispatch_owner_current: the epoch, 0 before the first
    lease,   \* strategy_dispatch_leases: the state
    epoch,   \* ... its owner epoch
    left,    \* ... ticks to its expiry, negative after it
    core,    \* mutation_attempts
    hold,    \* risk_reservations: the aggregate hold
    buckets, \* risk_bucket_reservations: the five of them
    blocked, \* the campaign may take no new exposure (campaignExposureBlockedInTx)
    failClosed, \* scoped_fill_snapshots: the order was read in no known state
    up,      \* the process runs
    mine,    \* strategyDispatchOwnerCoordinator: the epoch it acquired, 0 if none
    pc,      \* where the dispatch of each lease is
    answer,
    wire,    \* the request: "none", "out", "lost", "accepted" or "rejected"
    age,     \* ticks since the last fence
    crashes,
    faults

journal == <<owner, lease, epoch, core, hold, buckets>>
process == <<up, mine, pc, answer>>
obstacles == <<blocked, failClosed>>
vars    == <<journal, left, obstacles, process, wire, age, crashes, faults>>

Live(l) == lease[l] \in {"ISSUED", "CLAIMED", "SUBMITTING"}
InFlight(l) == wire[l] = "out"

Idle(l) == pc[l] \in {"idle", "over"}

Init ==
    /\ owner = 0
    /\ lease = [l \in Leases |-> "none"] /\ core = [l \in Leases |-> "none"]
    /\ epoch = [l \in Leases |-> 0] /\ left = [l \in Leases |-> TTL]
    /\ hold = [l \in Leases |-> "none"] /\ buckets = [l \in Leases |-> "none"]
    /\ blocked = [l \in Leases |-> FALSE] /\ failClosed = [l \in Leases |-> FALSE]
    /\ up = TRUE /\ mine = 0
    /\ pc = [l \in Leases |-> "idle"] /\ answer = [l \in Leases |-> "none"]
    /\ wire = [l \in Leases |-> "none"] /\ age = [l \in Leases |-> 0]
    /\ crashes = 0 /\ faults = 0

Goto(l, step) == pc' = [pc EXCEPT ![l] = step]

(* ------------------------------ authority ------------------------------ *)

Busy_no_grace == \E l \in Leases : lease[l] = "SUBMITTING" /\ left[l] > 0

Busy_forever == \E l \in Leases : lease[l] = "SUBMITTING"

(* A request of the old owner may be on the wire until Grace after its lease expired. *)
Busy == \E l \in Leases : lease[l] = "SUBMITTING" /\ left[l] > -Grace

AcquireStrategyDispatchOwner ==
    /\ up /\ mine = 0
    /\ ~Busy
    /\ owner' = owner + 1 /\ mine' = owner + 1
    /\ UNCHANGED <<lease, epoch, core, hold, buckets, left, obstacles, up, pc, answer, wire, age, crashes, faults>>

requireCurrentOwner == up /\ mine # 0 /\ mine = owner

(* The claim and the last step before the send ask the same questions. *)
AuthorityCurrent(l) ==
    /\ epoch[l] = mine
    /\ left[l] > 0
    /\ hold[l] = "HELD" /\ buckets[l] = "HELD"
    /\ ~blocked[l]

releaseHolds(l) ==
    /\ hold' = [hold EXCEPT ![l] = "RELEASED"]
    /\ buckets' = [buckets EXCEPT ![l] = "RELEASED"]

(* A lease is refused and all six holds are released in one transaction. *)
refuseStrategyDispatchClaimTx(l) ==
    /\ lease[l] = "ISSUED" /\ lease' = [lease EXCEPT ![l] = "REFUSED"]
    /\ releaseHolds(l)

refuseClaimedStrategyDispatchSubmittingTx(l) ==
    /\ lease[l] = "CLAIMED" /\ lease' = [lease EXCEPT ![l] = "REFUSED"]
    /\ releaseHolds(l)

(* ---------------------- strategyDispatchCycle.dispatch ---------------------- *)

(* The admission commits the decision with its holds; the lease expires no later than it. *)
Admit(l) ==
    /\ requireCurrentOwner /\ pc[l] = "idle"
    /\ hold' = [hold EXCEPT ![l] = "HELD"] /\ buckets' = [buckets EXCEPT ![l] = "HELD"]
    /\ Goto(l, "admitted")
    /\ UNCHANGED <<owner, lease, epoch, core, left, obstacles, up, mine, answer, wire, age, crashes, faults>>

FirstLegHolds(l) == hold[l] = "HELD" /\ buckets[l] = "HELD"

IssueVerifiedFirstLegStrategyDispatchLease(l) ==
    /\ requireCurrentOwner /\ pc[l] = "admitted"
    /\ IF left[l] > 0 /\ FirstLegHolds(l)
       THEN /\ lease' = [lease EXCEPT ![l] = "ISSUED"]
            /\ epoch' = [epoch EXCEPT ![l] = mine]
            /\ Goto(l, "issued")
       ELSE Goto(l, "over") /\ UNCHANGED <<lease, epoch>>
    /\ UNCHANGED <<owner, core, hold, buckets, left, obstacles, up, mine, answer, wire, age, crashes, faults>>

(* A refused claim is no error: the gateway meets the refused lease later. *)
ClaimStrategyDispatchLease(l) ==
    /\ requireCurrentOwner /\ pc[l] = "issued" /\ lease[l] = "ISSUED"
    /\ IF AuthorityCurrent(l)
       THEN lease' = [lease EXCEPT ![l] = "CLAIMED"] /\ UNCHANGED <<hold, buckets>>
       ELSE refuseStrategyDispatchClaimTx(l)
    /\ Goto(l, "claimed")
    /\ UNCHANGED <<owner, epoch, core, left, obstacles, up, mine, answer, wire, age, crashes, faults>>

(* The lease the gateway looks up is the claimed revision, not yet submitted. *)
ClaimedBinding(l) == lease[l] = "CLAIMED"

(* The holds of a claim that never reached its transport are intact or already free. *)
PreTransportHolds(l) == hold[l] \in {"HELD", "RELEASED"} /\ buckets[l] \in {"HELD", "RELEASED"}

(* The attempt of a claim, if there is one, was not closed by anybody else. *)
recoverablePreparedStrategyAttempt(l) == core[l] \in {"none", "RECORDED"}

(* ------------------------ the gateway, to the fence ------------------------ *)

Prepare(l) ==
    /\ up /\ pc[l] = "claimed"
    /\ core' = [core EXCEPT ![l] = "RECORDED"]
    /\ Goto(l, "prepared")
    /\ UNCHANGED <<owner, lease, epoch, hold, buckets, left, obstacles, up, mine, answer, wire, age, crashes, faults>>

(* The symbol is busy or the decision is spent: nothing was recorded. *)
RefuseClaimedStrategyDispatchPreTransport(l) ==
    /\ requireCurrentOwner /\ pc[l] = "claimed"
    /\ IF ClaimedBinding(l) /\ PreTransportHolds(l) THEN refuseClaimedStrategyDispatchSubmittingTx(l) ELSE UNCHANGED <<lease, hold, buckets>>
    /\ Goto(l, "over")
    /\ UNCHANGED <<owner, epoch, core, left, obstacles, up, mine, answer, wire, age, crashes, faults>>

(* A gate, the decision, the lease or its holds refuse the prepared attempt, *)
(* or DispatchStrategyVerified finds the authority gone. *)
RefuseClaimedStrategyPreTransport(l) ==
    /\ requireCurrentOwner /\ pc[l] = "prepared"
    /\ core' = [core EXCEPT ![l] = "NOT_DISPATCHED"]
    /\ IF ClaimedBinding(l) /\ PreTransportHolds(l) THEN refuseClaimedStrategyDispatchSubmittingTx(l) ELSE UNCHANGED <<lease, hold, buckets>>
    /\ Goto(l, "over")
    /\ UNCHANGED <<owner, epoch, left, obstacles, up, mine, answer, wire, age, crashes, faults>>

(* The nonce is spent, the attempt starts and the lease submits, or none of them. *)
(* ... and in two: the lease is left to a later step that a refusal skips. *)
beginStrategyDispatchTx_lease_later(l) ==
    /\ requireCurrentOwner /\ pc[l] = "prepared"
    /\ ClaimedBinding(l) /\ core[l] = "RECORDED" /\ AuthorityCurrent(l)
    /\ core' = [core EXCEPT ![l] = "DISPATCH_STARTED"]
    /\ Goto(l, "begun")
    /\ UNCHANGED <<owner, lease, epoch, hold, buckets, left, obstacles, up, mine, answer, wire, age, crashes, faults>>

beginStrategyDispatchTx(l) ==
    /\ requireCurrentOwner /\ pc[l] = "prepared"
    /\ ClaimedBinding(l) /\ core[l] = "RECORDED" /\ AuthorityCurrent(l)
    /\ core' = [core EXCEPT ![l] = "DISPATCH_STARTED"]
    /\ lease' = [lease EXCEPT ![l] = "SUBMITTING"]
    /\ Goto(l, "begun")
    /\ UNCHANGED <<owner, epoch, hold, buckets, left, obstacles, up, mine, answer, wire, age, crashes, faults>>

FencePasses(l) == requireCurrentOwner /\ lease[l] = "SUBMITTING" /\ left[l] > 0 /\ ~blocked[l]

RequireCurrentStrategyDispatchTransportAuthority(l) ==
    /\ up /\ pc[l] = "begun"
    /\ FencePasses(l)
    /\ age' = [age EXCEPT ![l] = 0]
    /\ Goto(l, "fenced")
    /\ UNCHANGED <<journal, left, obstacles, up, mine, answer, wire, crashes, faults>>

(* The fence, the entry gate or the schedule says no after the attempt started. *)
NotSent(l) ==
    /\ up /\ pc[l] = "begun"
    /\ answer' = [answer EXCEPT ![l] = "NOT_SENT"]
    /\ Goto(l, "answered")
    /\ UNCHANGED <<journal, left, obstacles, up, mine, wire, age, crashes, faults>>

(* ------------------------------ the broker ------------------------------ *)

Send(l) ==
    /\ up /\ pc[l] = "fenced"
    /\ wire' = [wire EXCEPT ![l] = "out"]
    /\ Goto(l, "sent")
    /\ UNCHANGED <<journal, left, obstacles, up, mine, answer, age, crashes, faults>>

Broker(l) ==
    /\ InFlight(l)
    /\ \E fate \in {"accepted", "rejected", "lost"} : wire' = [wire EXCEPT ![l] = fate]
    /\ UNCHANGED <<journal, left, obstacles, process, age, crashes, faults>>

(* What the client makes of it: a timeout says nothing of the bytes. *)
Read(l) == CASE wire[l] = "accepted" -> {"ACKED", "AMBIGUOUS"}
             [] wire[l] = "rejected" -> {"REJECTED", "AMBIGUOUS"}
             [] OTHER -> {"AMBIGUOUS"}

Answer(l) ==
    /\ up /\ pc[l] = "sent"
    /\ \E a \in Read(l) : answer' = [answer EXCEPT ![l] = a]
    /\ Goto(l, "answered")
    /\ UNCHANGED <<journal, left, obstacles, up, mine, wire, age, crashes, faults>>

(* ------------------------------ settlement ------------------------------ *)

(* An acknowledged order is recorded before it is read back. *)
MarkAcked(l) ==
    /\ up /\ pc[l] = "answered" /\ answer[l] = "ACKED"
    /\ core' = [core EXCEPT ![l] = "ACKED"]
    /\ Goto(l, "acked")
    /\ UNCHANGED <<owner, lease, epoch, hold, buckets, left, obstacles, up, mine, answer, wire, age, crashes, faults>>

(* A read-back that does not confirm the order leaves it in doubt. *)
Targets(l) == CASE pc[l] = "acked" -> {"CONFIRMED", "IN_DOUBT"}
                [] answer[l] = "NOT_SENT" -> {"NOT_DISPATCHED"}
                [] answer[l] = "REJECTED" -> {"FAILED_CONFIRMED"}
                [] OTHER -> {"IN_DOUBT"}

deriveStrategyDispatchOutcome(to) ==
    CASE to \in {"NOT_DISPATCHED", "FAILED_CONFIRMED"} -> "REFUSED"
      [] to = "CONFIRMED" -> "SUBMITTED"
      [] OTHER -> "AMBIGUOUS"

OutcomeHolds(l) == hold[l] = "HELD" /\ buckets[l] = "HELD"

(* The order is not linked to a blocked campaign, nor filled from a row nobody trusts. *)
LinkRefused(l) == blocked[l] \/ failClosed[l]

(* The confirmed order takes the bucket holds over. *)
linkConfirmedStrategyDispatchTx(l) == buckets' = [buckets EXCEPT ![l] = "TRANSFERRED"] /\ UNCHANGED hold

Settling(l) ==
    /\ requireCurrentOwner
    /\ pc[l] = "acked" \/ (pc[l] = "answered" /\ answer[l] # "ACKED")
    /\ lease[l] = "SUBMITTING" /\ epoch[l] = mine
    /\ OutcomeHolds(l)

(* The attempt's outcome and the lease's disposition are one transaction. *)
settleStrategyDispatchTx(l) ==
    /\ Settling(l)
    /\ \E to \in Targets(l) :
          /\ to = "CONFIRMED" => ~LinkRefused(l)
          /\ core' = [core EXCEPT ![l] = to]
          /\ lease' = [lease EXCEPT ![l] = deriveStrategyDispatchOutcome(to)]
          /\ CASE deriveStrategyDispatchOutcome(to) = "REFUSED" -> releaseHolds(l)
               [] deriveStrategyDispatchOutcome(to) = "SUBMITTED" -> linkConfirmedStrategyDispatchTx(l)
               [] OTHER -> UNCHANGED <<hold, buckets>>
    /\ Goto(l, "over")
    /\ UNCHANGED <<owner, epoch, left, obstacles, up, mine, answer, wire, age, crashes, faults>>

(* The link of a confirmed order is refused: the whole settlement rolls back, and *)
(* nothing tries it again. *)
SettlementRefused(l) ==
    /\ Settling(l) /\ "CONFIRMED" \in Targets(l) /\ LinkRefused(l)
    /\ Goto(l, "over")
    /\ UNCHANGED <<journal, left, obstacles, up, mine, answer, wire, age, crashes, faults>>

(* A transaction of the dispatch fails: the cycle returns the error and nobody retries. *)
TransactionFails(l) ==
    /\ up /\ pc[l] \in {"admitted", "issued", "claimed", "prepared", "answered", "acked"}
    /\ faults < MaxFaults /\ faults' = faults + 1
    /\ Goto(l, "over")
    /\ UNCHANGED <<journal, left, obstacles, up, mine, answer, wire, age, crashes>>

(* ------------------------ restart and the others ------------------------ *)

Crash ==
    /\ up /\ crashes < MaxCrashes
    /\ crashes' = crashes + 1
    /\ up' = FALSE /\ mine' = 0
    /\ pc' = [l \in Leases |-> IF pc[l] = "idle" THEN "idle" ELSE "over"]
    /\ UNCHANGED <<journal, left, obstacles, answer, wire, age, faults>>

(* An attempt that never started is closed, with its reservation; one that did is in doubt. *)
RecoverPending ==
    /\ ~up /\ up' = TRUE
    /\ core' = [l \in Leases |-> CASE core[l] = "RECORDED" -> "NOT_DISPATCHED"
                                   [] core[l] = "DISPATCH_STARTED" -> "IN_DOUBT"
                                   [] OTHER -> core[l]]
    /\ hold' = [l \in Leases |-> IF core[l] = "RECORDED" THEN "RELEASED" ELSE hold[l]]
    /\ UNCHANGED <<owner, lease, epoch, buckets, left, obstacles, mine, pc, answer, wire, age, crashes, faults>>

(* The new owner closes an old claim that never reached its transport. *)
RecoverClaimedStrategyDispatchLease(l) ==
    /\ requireCurrentOwner /\ Idle(l)
    /\ lease[l] = "CLAIMED" /\ epoch[l] < mine
    /\ PreTransportHolds(l) /\ recoverablePreparedStrategyAttempt(l)
    /\ core' = [core EXCEPT ![l] = IF @ = "none" THEN @ ELSE "NOT_DISPATCHED"]
    /\ refuseClaimedStrategyDispatchSubmittingTx(l)
    /\ UNCHANGED <<owner, epoch, left, obstacles, process, wire, age, crashes, faults>>

(* The resolver settles the attempt alone; by module Resolver its answer is the truth. *)
Resolve(l) ==
    /\ up /\ Idle(l) /\ core[l] \in {"ACKED", "IN_DOUBT"} /\ ~InFlight(l)
    /\ IF wire[l] = "accepted"
       THEN core' = [core EXCEPT ![l] = "CONFIRMED"] /\ UNCHANGED hold
       ELSE /\ core' = [core EXCEPT ![l] = "FAILED_CONFIRMED"]
            /\ hold' = [hold EXCEPT ![l] = "RELEASED"]
    /\ UNCHANGED <<owner, lease, epoch, buckets, left, obstacles, process, wire, age, crashes, faults>>

(* The sweep frees the aggregate hold of a decision that expired unspent. *)
SweepExpired(l) ==
    /\ up /\ hold[l] = "HELD" /\ left[l] <= 0
    /\ core[l] \in {"none", "RECORDED"}
    /\ hold' = [hold EXCEPT ![l] = "RELEASED"]
    /\ UNCHANGED <<owner, lease, epoch, core, buckets, left, obstacles, process, wire, age, crashes, faults>>

(* Between two steps of the dispatch a sell of the symbol, or the close of its *)
(* position, bars the campaign from new exposure, or no longer does.           *)
BlockCampaign(l) ==
    /\ up /\ Live(l)
    /\ blocked' = [blocked EXCEPT ![l] = ~@]
    /\ UNCHANGED <<journal, left, failClosed, process, wire, age, crashes, faults>>

(* The fill detector reads the order before it is settled, in a known state or not. *)
RecordFillSnapshot(l) ==
    /\ up /\ wire[l] = "accepted" /\ lease[l] = "SUBMITTING"
    /\ failClosed' = [failClosed EXCEPT ![l] = ~@]
    /\ UNCHANGED <<journal, left, blocked, process, wire, age, crashes, faults>>

(* The clock of a decision starts with its admission. *)
Tick ==
    /\ \A l \in Leases : (pc[l] = "fenced" \/ InFlight(l) \/ pc[l] = "sent") => age[l] < Transport
    /\ \E l \in Leases : hold[l] # "none" /\ left[l] > -Grace
    /\ left' = [l \in Leases |-> IF hold[l] # "none" /\ left[l] > -Grace THEN left[l] - 1 ELSE left[l]]
    /\ age' = [l \in Leases |-> IF pc[l] = "fenced" \/ InFlight(l) \/ pc[l] = "sent"
                                THEN age[l] + 1 ELSE age[l]]
    /\ UNCHANGED <<journal, obstacles, process, wire, crashes, faults>>

Dispatch(l) ==
    \/ Admit(l) \/ IssueVerifiedFirstLegStrategyDispatchLease(l) \/ ClaimStrategyDispatchLease(l)
    \/ Prepare(l) \/ RefuseClaimedStrategyDispatchPreTransport(l)
    \/ RefuseClaimedStrategyPreTransport(l) \/ beginStrategyDispatchTx(l)
    \/ RequireCurrentStrategyDispatchTransportAuthority(l) \/ NotSent(l)
    \/ Send(l) \/ Answer(l) \/ MarkAcked(l)
    \/ settleStrategyDispatchTx(l) \/ SettlementRefused(l)

Next ==
    \/ AcquireStrategyDispatchOwner
    \/ \E l \in Leases : Dispatch(l)
    \/ \E l \in Leases : Broker(l)
    \/ \E l \in Leases : TransactionFails(l)
    \/ Crash
    \/ RecoverPending
    \/ \E l \in Leases : RecoverClaimedStrategyDispatchLease(l)
    \/ \E l \in Leases : Resolve(l)
    \/ \E l \in Leases : SweepExpired(l)
    \/ \E l \in Leases : BlockCampaign(l)
    \/ \E l \in Leases : RecordFillSnapshot(l)
    \/ Tick

Spec == Init /\ [][Next]_vars

(***************************************************************************)
(* The process runs again after a crash, a dispatch goes on, time passes,   *)
(* and the engine asks for its owner whenever it has none.                  *)
(***************************************************************************)
LiveSpec ==
    /\ Spec
    /\ WF_vars(RecoverPending) /\ WF_vars(Tick) /\ WF_vars(AcquireStrategyDispatchOwner)
    /\ \A l \in Leases : WF_vars(Dispatch(l)) /\ WF_vars(Broker(l))

(* ------------------------------ properties ------------------------------ *)

(* Type invariant; the process never believes in an epoch the journal has not issued. *)
TypeOK ==
    /\ owner \in 0..(MaxCrashes + 1) /\ mine \in 0..owner
    /\ lease \in [Leases -> LeaseStates] /\ core \in [Leases -> CoreStates]
    /\ epoch \in [Leases -> 0..owner] /\ left \in [Leases -> (-Grace)..TTL]
    /\ hold \in [Leases -> {"none", "HELD", "RELEASED"}]
    /\ buckets \in [Leases -> {"none", "HELD", "RELEASED", "TRANSFERRED"}]
    /\ blocked \in [Leases -> BOOLEAN] /\ failClosed \in [Leases -> BOOLEAN] /\ up \in BOOLEAN
    /\ pc \in [Leases -> Steps] /\ answer \in [Leases -> Answers]
    /\ wire \in [Leases -> {"none", "out", "lost", "accepted", "rejected"}]
    /\ age \in [Leases -> 0..Transport]
    /\ crashes \in 0..MaxCrashes /\ faults \in 0..MaxFaults

(* Money stays set aside for every request that may still be, or already is, an  *)
(* order: no refusal, sweep, restart or resolution frees the aggregate or the    *)
(* five bucket holds of a request on the wire or at the broker.                  *)
HoldsWhileExposed ==
    \A l \in Leases :
        wire[l] \in {"out", "accepted"} => hold[l] = "HELD" /\ buckets[l] \in {"HELD", "TRANSFERRED"}

(* The owner fence works through a crash: while a request whose outcome nobody   *)
(* has recorded may still reach the broker, no newer owner exists that could     *)
(* send another, because it waits out the last call the old one may have begun.  *)
OneEpochOnTheWire ==
    \A l \in Leases : wire[l] = "out" /\ lease[l] = "SUBMITTING" => epoch[l] = owner

(* What the lease ends as is what happened at the broker: a submitted lease has  *)
(* an order there, a refused one has none and never will.                        *)
LeaseTellsTruth ==
    \A l \in Leases :
        /\ lease[l] = "SUBMITTED" => wire[l] = "accepted"
        /\ lease[l] = "REFUSED" => wire[l] \notin {"out", "accepted"}

(* A restart does not lock the strategy out: the lease a crash left SUBMITTING   *)
(* delays the next owner, it does not keep it away.                              *)
OwnerReturns == (up /\ mine = 0) ~> (mine # 0)

(* The settlement of an order at the broker was refused: the lease stays as it *)
(* is, and the money set aside.                                                *)
Stranded(l) ==
    /\ lease[l] = "SUBMITTING" /\ pc[l] = "over" /\ LinkRefused(l)
    /\ wire[l] = "accepted" /\ hold[l] = "HELD" /\ buckets[l] = "HELD"

(* Without a crash or a failed transaction every lease that was issued ends, and *)
(* what it holds is released, transferred or left with a known doubt; only the   *)
(* lease of an order at the broker that its campaign or its own fill row keeps   *)
(* from being linked stays SUBMITTING, with its money set aside                  *)
(* (linkConfirmedStrategyDispatchTx).                                            *)
LeaseEnds ==
    [](crashes = 0 /\ faults = 0) =>
        \A l \in Leases :
            lease[l] = "ISSUED" ~> \/ lease[l] \in {"SUBMITTED", "AMBIGUOUS", "REFUSED"}
                                  \/ Stranded(l)

(* The lease protocol's safety: money set aside, one epoch sending, and leases   *)
(* that end as what happened (strategy_dispatch_runtime.go).                     *)
LeaseInv == TypeOK /\ HoldsWhileExposed /\ OneEpochOnTheWire /\ LeaseTellsTruth
=============================================================================
