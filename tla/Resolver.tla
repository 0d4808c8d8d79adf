------------------------------ MODULE Resolver ------------------------------
(***************************************************************************)
(* Resolver.Resolve: settling a mutation whose outcome is unknown by       *)
(* looking at the broker, and only by looking.                             *)
(*                                                                         *)
(* One IN_DOUBT attempt, dispatched at time 0.  A PLACE is looked for in   *)
(* the OPEN and the CLOSED order list; a CANCEL is judged by the state of  *)
(* the order it targets; an AMEND by that state and by the search for the  *)
(* successor order.  The reads take time, the lists lag, the request may   *)
(* still be travelling, and the resolving process may die and begin again. *)
(***************************************************************************)
EXTENDS Naturals, FiniteSets, AttemptLifecycle

CONSTANTS
    Mutations,           \* which of PLACE, CANCEL, AMEND are examined
    StableObservations,  \* ResolveConfig, in observations and clock ticks
    MinObservation,
    PollInterval,
    MaxDuration,
    Transit,             \* broker: a request takes effect before this, or never
    Lag,                 \* broker: an order is in the lists this long after
    ScanTime,            \* bound: one observation takes no longer
    MaxTime              \* bound: the clock stops here

ASSUME ConfigAssumption ==
    /\ Mutations \subseteq {"PLACE", "CANCEL", "AMEND"}
    /\ StableObservations \in Nat \ {0}
    /\ MinObservation \in Nat /\ PollInterval \in Nat \ {0} /\ MaxDuration \in Nat
    /\ MaxTime \in Nat

(* What "spread over a minimum observation window" has to cover for absence  *)
(* to follow from the lists.                                                 *)
ASSUME BrokerAssumption ==
    /\ Transit \in Nat \ {0} /\ Lag \in Nat /\ ScanTime \in Nat
    /\ Transit + Lag + ScanTime <= MinObservation

VARIABLES
    now,
    kind,           \* the attempt's mutation
    row,            \* the attempt's state
    request,        \* "wire", "taken" (being decided), "done" (took effect), "dead"
    target,         \* the order a CANCEL or AMEND is about
    child,          \* the order a PLACE or AMEND creates
    childAt,        \* when it was created
    rpc,            \* the resolver's next step
    startedAt, obsAt, wakeAt,
    count,          \* absent / stableOpen
    firstAbsentAt,
    view, seen      \* what the current observation has read so far

brokerVars == <<request, target, child, childAt>>
loopVars   == <<startedAt, count, firstAbsentAt>>
resolverVars == <<now, kind, row, brokerVars, rpc, obsAt, wakeAt, loopVars, view, seen>>

(* brokerstate's derived states, grouped as the resolver groups them.        *)
TargetStates == {"OPEN", "PENDING", "CANCELLED", "FILLED", "REJECTED", "REPLACED"}

(* A partially filled order is in both lists. *)
ChildStates == {"none", "OPEN", "PARTIAL", "CLOSED"}
InOpenList   == {"OPEN", "PARTIAL"}
InClosedList == {"PARTIAL", "CLOSED"}

Points == {"idle", "observe", "judge", "scanOpen", "scanClosed", "corroborate", "sleep"}

\* Type invariant: the type of one resolution.
ResolverTypeOK ==
    /\ now \in Nat
    /\ kind \in Mutations
    /\ row \in {"IN_DOUBT", "CONFIRMED", "FAILED_CONFIRMED", "UNRESOLVED_IN_DOUBT"}
    /\ request \in {"wire", "taken", "done", "dead"}
    /\ target \in TargetStates \cup {"none"}
    /\ child \in ChildStates
    /\ childAt \in Nat
    /\ rpc \in Points
    /\ startedAt \in Nat /\ obsAt \in Nat /\ wakeAt \in Nat
    /\ count \in Nat
    /\ firstAbsentAt \in Nat
    /\ view \in TargetStates \cup {"none", "UNKNOWN"}
    /\ seen \in BOOLEAN

ResolverInit ==
    /\ now = 0
    /\ kind \in Mutations
    /\ row = "IN_DOUBT"
    /\ request = "wire"
    /\ target = IF kind = "PLACE" THEN "none" ELSE "OPEN"
    /\ child = "none" /\ childAt = 0
    /\ rpc = "idle"
    /\ startedAt = 0 /\ obsAt = 0 /\ wakeAt = 0
    /\ count = 0
    /\ firstAbsentAt = 0
    /\ view = "none" /\ seen = FALSE

-----------------------------------------------------------------------------
(* The broker and the clock. *)

(* An observation does not outlast ScanTime; a request does not travel past  *)
(* Transit.                                                                  *)
Tick ==
    /\ now < MaxTime
    /\ request = "wire" => now + 1 < Transit
    /\ rpc \notin {"idle", "sleep"} => now < obsAt + ScanTime
    /\ now' = now + 1
    /\ UNCHANGED <<kind, row, brokerVars, rpc, obsAt, wakeAt, loopVars, view, seen>>

ResolverUnchanged == UNCHANGED <<now, kind, row, rpc, obsAt, wakeAt, loopVars, view, seen>>

(* The request arrives.  A place creates its order; a cancel or an amend     *)
(* puts its target under way, if the target is still open.                   *)
RequestArrives ==
    /\ request = "wire"
    /\ kind # "PLACE" => target = "OPEN"
    /\ request' = IF kind = "PLACE" THEN "done" ELSE "taken"
    /\ child' = IF kind = "PLACE" THEN "OPEN" ELSE child
    /\ childAt' = IF kind = "PLACE" THEN now ELSE childAt
    /\ target' = IF kind = "PLACE" THEN target ELSE "PENDING"
    /\ ResolverUnchanged

(* The request is lost, or the broker refuses it and the refusal is lost.    *)
RequestDies ==
    /\ request = "wire"
    /\ request' = "dead"
    /\ UNCHANGED <<target, child, childAt>>
    /\ ResolverUnchanged

(* The broker finishes, or refuses, the cancel or amend it has under way.    *)
RequestCompletes ==
    /\ request = "taken" /\ target = "PENDING"
    /\ \/ /\ target' = "OPEN" /\ request' = "dead"
          /\ UNCHANGED <<child, childAt>>
       \/ /\ kind = "CANCEL" /\ target' = "CANCELLED" /\ request' = "done"
          /\ UNCHANGED <<child, childAt>>
       \/ /\ kind = "AMEND" /\ target' = "REPLACED" /\ request' = "done"
          /\ child' = "OPEN" /\ childAt' = now
    /\ ResolverUnchanged

(* The market, the broker or the user ends the target order meanwhile.       *)
TargetEnds ==
    /\ target \in {"OPEN", "PENDING"}
    /\ target' \in {"FILLED", "REJECTED", "CANCELLED", "REPLACED"}
    /\ request' = IF request = "taken" THEN "dead" ELSE request
    /\ UNCHANGED <<child, childAt>>
    /\ ResolverUnchanged

ChildFills ==
    /\ child \in InOpenList
    /\ child' \in {"PARTIAL", "CLOSED"} \ {child}
    /\ UNCHANGED <<request, target, childAt>>
    /\ ResolverUnchanged

-----------------------------------------------------------------------------
(* The resolver. *)

(* A verdict ends the procedure. *)
Settle(state, from) ==
    /\ row' = IF TransitionAllowed(row, state, from) THEN state ELSE row
    /\ rpc' = "idle"
    /\ UNCHANGED wakeAt

(* Mutant: what cannot be accounted for is taken as done. *)
ParkAsDone == Settle("CONFIRMED", ResolveConfirmedFrom)

ResolveConfirmed == Settle("CONFIRMED", ResolveConfirmedFrom)
ResolveFailed    == Settle("FAILED_CONFIRMED", ResolveFailedFrom)
Park             == Settle("UNRESOLVED_IN_DOUBT", ResolveUnresolvedFrom)

(* Mutant: the deadline is not consulted. *)
WaitForEver ==
    /\ rpc' = "sleep"
    /\ wakeAt' = now + PollInterval
    /\ UNCHANGED row

(* waitOrExpire: sleep one interval, or park when the budget is spent.       *)
WaitOrExpire ==
    IF now + PollInterval < startedAt + MaxDuration
    THEN /\ rpc' = "sleep"
         /\ wakeAt' = now + PollInterval
         /\ UNCHANGED row
    ELSE Park

Stable     == count' >= StableObservations
LongEnough == startedAt + MinObservation <= now

Begin ==
    /\ rpc = "idle" /\ row = "IN_DOUBT"
    /\ now + MaxDuration + ScanTime <= MaxTime
    /\ rpc' = "observe"
    /\ startedAt' = now /\ obsAt' = now
    /\ count' = 0 /\ firstAbsentAt' = 0
    /\ UNCHANGED <<now, kind, row, brokerVars, wakeAt, view, seen>>

Wake ==
    /\ rpc = "sleep" /\ wakeAt <= now
    /\ rpc' = "observe"
    /\ obsAt' = now
    /\ UNCHANGED <<now, kind, row, brokerVars, wakeAt, loopVars, view, seen>>

(* A read failed: no evidence either way. *)
ObservationFails ==
    /\ rpc \in {"observe", "scanOpen", "scanClosed"}
    /\ WaitOrExpire
    /\ UNCHANGED <<now, kind, brokerVars, obsAt, loopVars, view, seen>>

(* deriveOrder, which may not understand what it reads. *)
ReadTarget ==
    /\ rpc = "observe" /\ kind # "PLACE"
    /\ view' \in {target, "UNKNOWN"}
    /\ rpc' = "judge"
    /\ UNCHANGED <<now, kind, row, brokerVars, obsAt, wakeAt, loopVars, seen>>

(* isClosedOriginal: over, in a way that an amend can explain. *)
ClosedOriginal == kind = "AMEND" /\ view \in {"CANCELLED", "REPLACED"}

JudgeTarget ==
    /\ rpc = "judge"
    /\ \/ /\ ClosedOriginal
          /\ rpc' = "scanOpen"
          /\ UNCHANGED <<row, wakeAt, count>>
       \/ /\ view = "CANCELLED" /\ kind = "CANCEL"
          /\ ResolveConfirmed
          /\ UNCHANGED count
       \/ /\ view \in {"FILLED", "REJECTED"}
          /\ ResolveFailed
          /\ UNCHANGED count
       \/ /\ view = "PENDING"
          /\ WaitOrExpire
          /\ UNCHANGED count
       \/ /\ view = "OPEN"
          /\ count' = count + 1
          /\ IF Stable /\ LongEnough THEN ResolveFailed ELSE WaitOrExpire
       \/ /\ view = "UNKNOWN" \/ (view = "REPLACED" /\ kind = "CANCEL")
          /\ Park
          /\ UNCHANGED count
    /\ UNCHANGED <<now, kind, brokerVars, obsAt, startedAt, firstAbsentAt, view, seen>>

(* ScanOrders on one list.  A record younger than Lag may be missing.        *)
Listed(list) ==
    IF child \in list
    THEN IF childAt + Lag <= now THEN {TRUE} ELSE BOOLEAN
    ELSE {FALSE}

(* Mutant: only the first page of the list is kept. *)
ScanOpenFirstPage ==
    /\ rpc = "scanOpen" \/ (rpc = "observe" /\ kind = "PLACE")
    /\ seen' \in Listed(InOpenList) \cup {FALSE}
    /\ rpc' = "scanClosed"
    /\ UNCHANGED <<now, kind, row, brokerVars, obsAt, wakeAt, loopVars, view>>

(* scanBoth and findSuccessors: the OPEN list ... *)
ScanOpen ==
    /\ rpc = "scanOpen" \/ (rpc = "observe" /\ kind = "PLACE")
    /\ seen' \in Listed(InOpenList)
    /\ rpc' = "scanClosed"
    /\ UNCHANGED <<now, kind, row, brokerVars, obsAt, wakeAt, loopVars, view>>

(* ... then the CLOSED one; the same order in both is one order.             *)
ScanClosed ==
    /\ rpc = "scanClosed"
    /\ \E closed \in Listed(InClosedList) :
         \/ /\ seen \/ closed
            /\ ResolveConfirmed
            /\ UNCHANGED <<count, firstAbsentAt>>
         \/ /\ ~(seen \/ closed) /\ kind = "AMEND"
            /\ Park
            /\ UNCHANGED <<count, firstAbsentAt>>
         \/ /\ ~(seen \/ closed) /\ kind = "PLACE"
            /\ count' = count + 1
            /\ firstAbsentAt' = IF count = 0 THEN now ELSE firstAbsentAt
            /\ IF Stable /\ LongEnough
               THEN rpc' = "corroborate" /\ UNCHANGED <<row, wakeAt>>
               ELSE WaitOrExpire
    /\ UNCHANGED <<now, kind, brokerVars, obsAt, startedAt, view, seen>>

(* absenceCorroborated: no other mutation, no unreadable account, no moved   *)
(* holding.  Any doubt parks; a partial fill always shows in the holding.    *)
Corroborate ==
    /\ rpc = "corroborate"
    /\ \/ child # "PARTIAL" /\ ResolveFailed
       \/ Park
    /\ UNCHANGED <<now, kind, brokerVars, obsAt, loopVars, view, seen>>

(* The process dies, or a journal write fails the start; the row stays.      *)
Crash ==
    /\ rpc # "idle"
    /\ rpc' = "idle"
    /\ UNCHANGED <<now, kind, row, brokerVars, obsAt, wakeAt, loopVars, view, seen>>

-----------------------------------------------------------------------------
BrokerStep ==
    RequestArrives \/ RequestDies \/ RequestCompletes \/ TargetEnds \/ ChildFills

ResolverStep ==
    \/ Wake \/ ObservationFails \/ ReadTarget \/ JudgeTarget
    \/ ScanOpen \/ ScanClosed \/ Corroborate

ResolverNext == Tick \/ BrokerStep \/ Begin \/ ResolverStep \/ Crash

ResolverSpec == ResolverInit /\ [][ResolverNext]_resolverVars

(* The clock runs, a resolver that is not stopped goes on (Resolve is one     *)
(* loop on one goroutine), and the broker does not hold a request for ever.   *)
BrokerTakesUp == RequestArrives \/ RequestDies

ResolverFairSpec ==
    /\ ResolverSpec
    /\ WF_resolverVars(Tick) /\ WF_resolverVars(ResolverStep)
    /\ WF_resolverVars(BrokerTakesUp)

-----------------------------------------------------------------------------
(* "It did not happen" is said only of a mutation that did not happen and no *)
(* longer can: it took no effect, the broker is not working on it, and if it  *)
(* still travels its target is over (Resolve, resolveCancel, resolveAmend).   *)
AbsenceIsSound ==
    row = "FAILED_CONFIRMED" =>
        \/ request = "dead"
        \/ request = "wire" /\ target \in {"FILLED", "REJECTED"}

(* "It happened" is said only when the order the mutation creates exists, or  *)
(* its cancelled target is cancelled (ResolveConfirmed and its callers).      *)
PresenceIsReal ==
    row = "CONFIRMED" =>
        IF kind = "CANCEL" THEN target = "CANCELLED" ELSE request = "done"

(* A procedure that is not interrupted ends, with a verdict or parked, inside *)
(* its budget (waitOrExpire).                                                 *)
ResolutionEnds == (rpc # "idle") ~> (rpc = "idle")
=============================================================================
