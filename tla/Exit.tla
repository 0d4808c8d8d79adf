-------------------------------- MODULE Exit --------------------------------
(***************************************************************************)
(* The stop and the take-profits of one position: the exit observer         *)
(* (ExitObserver, internal/app/engine/exitloop.go), the row it keeps        *)
(* (exit_states, internal/journal) and the evaluators it asks               *)
(* (internal/exitpolicy).  A pass reads the row and the position, reads a   *)
(* price, evaluates, clears the symbol when it must, records the judgement  *)
(* and arms a proposal in one transaction, and only then submits.  Fills,   *)
(* the resolver, the operator's thaw command and the broker move between    *)
(* any two of these steps, and the process may die between any two.         *)
(*                                                                          *)
(* Prices are small integers.  Order 0 is the entry buy, still working;     *)
(* orders 1, 2, ... are the exit sells, numbered by their intents.          *)
(***************************************************************************)
EXTENDS Integers, Sequences, FiniteSets, FiniteSetsExt

CONSTANTS
    Rungs,         \* the ladder: <<[target, lock, take], ...>>
    Levels,        \* the ratchet's, likewise
    Trail,         \* runner trail below the watermark on the last rung, 0 if none
    PartialAt,     \* RATCHET: the price of its one partial take-profit
    Entry,         \* the entry price
    InitialStop,   \* the entry decision's stop
    Prices,        \* the prices that may be observed
    Openings,      \* the start: <<shares held, shares the entry buy still works for>>
    MaxIntents,    \* bound on proposals
    MaxTrouble     \* bound on restarts and on journal writes that fail after an
                   \* arming, together; a working entry counts as one

ASSUME ConstantsAssumption ==
    /\ {Trail, PartialAt, Entry, InitialStop, MaxIntents, MaxTrouble} \subseteq Nat
    /\ 0 < InitialStop /\ InitialStop < Entry
    /\ Openings \subseteq (Nat \ {0}) \X Nat /\ Prices \subseteq Nat
    /\ {Rungs, Levels} \subseteq Seq([target : Nat, lock : Nat, take : {"none", "PARTIAL", "TAKE"}])
    /\ \A s \in {Rungs, Levels} : \A i \in 2 .. Len(s) :
          s[i].target > s[i - 1].target /\ s[i].lock >= s[i - 1].lock

Intents == 1 .. MaxIntents
Orders  == 0 .. MaxIntents
Actions == {"none", "PARTIAL", "TAKE", "STOP"}
AttemptStates == {"none", "DISPATCH_STARTED", "IN_DOUBT", "UNRESOLVED_IN_DOUBT",
                  "CONFIRMED", "FAILED_CONFIRMED", "NOT_DISPATCHED"}
NoPending == [act |-> "none", level |-> 0, intent |-> 0]

VARIABLES
    row,      \* exit_states: kind, base, high, rung, pend, taken, done
    snap,     \* ... effective_snapshot_json: the last line recorded, seeded |-> FALSE before it
    qty,      \* positions.quantity
    att,      \* the attempt of each intent
    asked,    \* what each intent asked for: act, level, qty
    seen,     \* fill snapshots: filled, terminal
    cxl,      \* the engine's cancel of the order: "none", "IN_DOUBT", "CONFIRMED"
    order,    \* at the broker: filled, accepted, live
    held,     \* shares at the broker
    mkt,      \* the market's price
    pc,       \* where the pass is; "down" without a process
    m,        \* its copy of the row and of the position
    ev,       \* the evaluation it made
    todo,     \* the orders it still has to cancel
    clear,    \* what clearTheSymbol has found so far
    crashes,
    faults

journal == <<row, snap, qty, att, asked, seen, cxl>>
broker  == <<order, held, mkt>>
pass    == <<pc, m, ev, todo, clear>>
vars    == <<journal, broker, pass, crashes, faults>>

Seed(k) == [kind |-> k, base |-> InitialStop, high |-> Entry, rung |-> 0, pend |-> NoPending,
         taken |-> FALSE, done |-> FALSE]
Copy == [base |-> row.base, high |-> row.high, rung |-> row.rung, pend |-> row.pend,
         taken |-> row.taken, qty |-> qty, snap |-> snap]
NoLine == [base |-> 0, high |-> 0, rung |-> 0, act |-> "none", level |-> 0, qty |-> 0,
           cancelFirst |-> FALSE, suppressed |-> FALSE]

NoCopy == [base |-> 0, high |-> 0, rung |-> 0, pend |-> NoPending, taken |-> FALSE,
           qty |-> 0, snap |-> NoLine]

Init ==
    /\ \E k \in {"LADDER", "RATCHET"} : row = Seed(k)
    /\ \E start \in Openings : LET working == start[2] IN
          /\ qty = start[1] /\ held = start[1]
          /\ asked = [i \in Orders |-> [act |-> "none", level |-> 0, qty |-> IF i = 0 THEN working ELSE 0]]
          /\ order = [i \in Orders |-> [filled |-> 0, acc |-> i = 0, live |-> i = 0 /\ working > 0]]
          /\ seen = [i \in Orders |-> [filled |-> 0, terminal |-> i = 0 /\ working = 0]]
    /\ snap = NoLine
    /\ att = [i \in Orders |-> IF i = 0 THEN "CONFIRMED" ELSE "none"]
    /\ cxl = [i \in Orders |-> "none"]
    /\ mkt = Entry /\ pc = "idle" /\ m = NoCopy /\ ev = NoLine
    /\ todo = {} /\ clear = TRUE /\ crashes = 0 /\ faults = 0

(* ------------------------------ evaluation ----------------------------- *)

Stages == IF row.kind = "LADDER" THEN Rungs ELSE Levels

Reached(high) == {i \in 1 .. Len(Stages) : high >= Stages[i].target}
Highest(s) == Max(s \cup {0})

(* LockPrice, and the runner's trail as one more candidate on the last rung. *)
Lock(i, high) ==
    IF i = Len(Stages) /\ Trail > 0 THEN Max({Stages[i].lock, high - Trail}) ELSE Stages[i].lock

(* ComputeProtectedStop: the highest candidate, the previous baseline among them. *)
ComputeProtectedStop(base, i, high) == IF i = 0 THEN base ELSE Max({base, Lock(i, high)})

(* ProjectWholeShares: a half of what is held, rounded down, or all of it. *)
ProjectWholeShares(c, act) == IF act = "PARTIAL" THEN c.qty \div 2 ELSE c.qty

Line(c, base, high, rung, act, cancelFirst, suppressed) ==
    LET shares == IF act = "none" THEN 0 ELSE ProjectWholeShares(c, act)
    IN  [base |-> base, high |-> high, rung |-> rung, act |-> act,
         level |-> IF act = "none" THEN 0 ELSE rung, qty |-> shares,
         cancelFirst |-> cancelFirst, suppressed |-> suppressed]

Breached(c, p, base, high, rung, stop) ==
    IF c.pend.act = stop THEN Line(c, base, high, rung, "none", FALSE, TRUE)
    ELSE Line(c, base, high, rung, stop, c.pend.act # "none", FALSE)

EvaluateLadder(c, p) ==
    LET high == Max({c.high, p})
        rung == Highest(Reached(high) \cup {c.rung})
        base == ComputeProtectedStop(c.base, rung, high)
        take == IF rung > c.rung THEN Stages[rung].take ELSE "none"
    IN  IF p < base THEN Breached(c, p, base, high, rung, "STOP")
        ELSE IF take # "none" /\ c.pend.act # "none"
             THEN Line(c, base, high, rung, "none", FALSE, TRUE)
             ELSE Line(c, base, high, rung, take, FALSE, FALSE)

EvaluateRatchet(c, p) ==
    LET high == Max({c.high, p})
        rung == Highest(Reached(high))
        base == ComputeProtectedStop(c.base, rung, high)
        partial == rung > 0 /\ high >= PartialAt
    IN  IF p < base THEN Breached(c, p, base, high, rung, "STOP")
        ELSE IF partial /\ (c.taken \/ c.pend.act # "none")
             THEN Line(c, base, high, rung, "none", FALSE, TRUE)
             ELSE Line(c, base, high, rung, IF partial THEN "PARTIAL" ELSE "none", FALSE, FALSE)

Evaluate(c, p) == IF row.kind = "LADDER" THEN EvaluateLadder(c, p) ELSE EvaluateRatchet(c, p)

Orderable(line) == line.qty > 0
isFullExit(line) == line.act \in {"STOP", "TAKE"}

(* requiresFullJudgement: only an exact repetition of the recorded line is a heartbeat. *)
requiresFullJudgement(c, line) ==
    \/ c.snap = NoLine \/ c.snap # line
    \/ Orderable(line) \/ line.high # c.high \/ line.base # c.base \/ line.rung # c.rung

(* ------------------------------ the ledger ----------------------------- *)

Unsettled == \E i \in Orders : \/ att[i] \in {"DISPATCH_STARTED", "IN_DOUBT"}
                               \/ cxl[i] = "IN_DOUBT"
LiveOrdersForSymbol == {i \in Orders : att[i] = "CONFIRMED" /\ ~seen[i].terminal}

(* exitIntentAttemptsQ: what the attempt of an intent says about releasing it. *)
Verdict(i) ==
    CASE att[i] = "none"                                  -> "NO_ATTEMPTS"
      [] att[i] \in {"DISPATCH_STARTED", "IN_DOUBT"}      -> "LIVE"
      [] att[i] = "UNRESOLVED_IN_DOUBT"                   -> "PARKED"
      [] att[i] = "CONFIRMED" /\ ~seen[i].terminal        -> "AWAITING_CLOSE"
      [] att[i] = "CONFIRMED" /\ seen[i].terminal         -> "ORDERS_CLOSED"
      [] OTHER                                            -> "UNACCEPTED"

releasesUnaccepted(i) == Verdict(i) \in {"UNACCEPTED", "NO_ATTEMPTS"}
releasesCleared(i) == releasesUnaccepted(i) \/ Verdict(i) = "ORDERS_CLOSED"

(* clearExitProposalTx: only the proposal this release is about, its rung with it. *)
clearExitProposalTx(r, i) ==
    IF r.pend.intent # i \/ i = 0 THEN r
    ELSE [r EXCEPT !.pend = NoPending,
                   !.rung = IF row.kind = "LADDER" /\ r.pend.level > 0 THEN r.pend.level - 1 ELSE @]

ReleaseUnacceptedExitProposal(r, i) == IF releasesUnaccepted(i) THEN clearExitProposalTx(r, i) ELSE r

(* ------------------------------ the pass ------------------------------- *)

Goto(step) == pc' = step

MoreTrouble == crashes + faults + (IF asked[0].qty > 0 THEN 1 ELSE 0) < MaxTrouble

EndPass == pc' = "idle" /\ m' = NoCopy /\ ev' = NoLine /\ todo' = {} /\ clear' = TRUE

(* workingSet and observe: the copies this pass will judge with. *)
ObserveOnce ==
    /\ pc = "idle" /\ ~row.done /\ qty > 0
    /\ Goto("judging") /\ m' = Copy
    /\ UNCHANGED <<journal, broker, ev, todo, clear, crashes, faults>>

(* A proposal proven unaccepted is released here, and the pass ends with it. *)
noteHeldProposal ==
    /\ pc = "judging" /\ m.pend.act # "none" /\ Verdict(m.pend.intent) = "UNACCEPTED"
    /\ row.pend.intent = m.pend.intent
    /\ row' = ReleaseUnacceptedExitProposal(row, m.pend.intent)
    /\ UNCHANGED <<snap, qty, att, asked, seen, cxl, broker, crashes, faults>>
    /\ EndPass

(* RefreshExitObservation: a heartbeat rewrites the line it repeats, or nothing. *)
RefreshExitObservation(line) ==
    IF row.pend.act = "none" /\ snap = line
    THEN row' = [row EXCEPT !.base = line.base, !.high = line.high, !.rung = line.rung]
    ELSE UNCHANGED row

Held == m.pend.act # "none" /\ Verdict(m.pend.intent) = "UNACCEPTED" /\ row.pend.intent = m.pend.intent

judge ==
    /\ pc = "judging" /\ ~Held
    /\ LET line == Evaluate(m, mkt)
       IN  \/ /\ ~requiresFullJudgement(m, line)
              /\ RefreshExitObservation(line)
              /\ UNCHANGED <<snap, qty, att, asked, seen, cxl>>
              /\ EndPass
           \/ /\ requiresFullJudgement(m, line)
              /\ ev' = line
              /\ Goto(IF Orderable(line) /\ (line.cancelFirst \/ isFullExit(line)) THEN "clearing" ELSE "recording")
              /\ m' = [NoCopy EXCEPT !.pend = m.pend]
              /\ UNCHANGED <<journal, todo, clear>>
    /\ UNCHANGED <<broker, crashes, faults>>

(* clearTheSymbol: nothing is sent over an unsettled attempt; a sell whose   *)
(* cancel was accepted is waited for; the rest is cancelled, order by order. *)
Colliding == {i \in LiveOrdersForSymbol : i = 0 \/ (ev.cancelFirst /\ cxl[i] # "CONFIRMED")}
Waiting   == {i \in LiveOrdersForSymbol \ {0} : cxl[i] = "CONFIRMED"}

clearTheSymbol ==
    /\ pc = "clearing"
    /\ IF Unsettled
       THEN clear' = FALSE /\ Goto("recording") /\ UNCHANGED todo
       ELSE /\ clear' = (Waiting = {}) /\ todo' = Colliding
            /\ Goto(IF Colliding # {} THEN "cancelling" ELSE "cleared")
    /\ UNCHANGED <<journal, broker, m, ev, crashes, faults>>

(* One cancel: accepted, refused or in doubt.  Acceptance clears a buy and   *)
(* not a sell: how much of it filled first only its closing record says.     *)
CancelOrder(i) ==
    /\ pc = "cancelling" /\ i \in todo
    /\ todo' = todo \ {i}
    /\ \/ /\ order[i].live
          /\ cxl' = [cxl EXCEPT ![i] = "CONFIRMED"]
          /\ clear' = (clear /\ i = 0)
       \/ cxl' = [cxl EXCEPT ![i] = "IN_DOUBT"] /\ clear' = FALSE
       \/ UNCHANGED cxl /\ clear' = FALSE
    /\ Goto(IF todo' = {} THEN "cleared" ELSE "cancelling")
    /\ UNCHANGED <<row, snap, qty, att, asked, seen, broker, m, ev, crashes, faults>>

(* ReleaseClearedExitProposal: last, only on success, and a proposal that    *)
(* cannot be released leaves the symbol uncleared.                           *)
ReleaseClearedExitProposal ==
    /\ pc = "cleared"
    /\ LET i == m.pend.intent
           released == releasesCleared(i) /\ row.pend.intent = i
       IN  IF clear /\ ev.cancelFirst
           THEN /\ clear' = released
                /\ row' = IF released THEN clearExitProposalTx(row, i) ELSE row
           ELSE UNCHANGED <<clear, row>>
    /\ Goto("recording")
    /\ UNCHANGED <<snap, qty, att, asked, seen, cxl, broker, m, ev, todo, crashes, faults>>

(* Only a pending proposal makes the clearing matter. *)
Proposes_PendingOnly == Orderable(ev) /\ (clear \/ ~ev.cancelFirst)

Next_intent == Cardinality({i \in Intents : asked[i].act # "none"}) + 1
Proposes == Orderable(ev) /\ (clear \/ ~(ev.cancelFirst \/ isFullExit(ev)))

(* armExitProposalTx: never a second proposal. *)
armExitProposalTx(i) == row.pend.act = "none" /\ i \in Intents

(* SelectRecoverySnapshot: the saved line when it leads on one axis and      *)
(* trails on none, else the line just computed; never a mixture.             *)
SelectRecoverySnapshot(saved, line) ==
    IF /\ saved # NoLine
       /\ line.base <= saved.base /\ line.high <= saved.high /\ line.rung <= saved.rung
       /\ <<line.base, line.high, line.rung>> # <<saved.base, saved.high, saved.rung>>
    THEN saved ELSE line

(* recordExitJudgementTx: the selected line, and the proposal it arms, in    *)
(* one transaction that fails as one.                                        *)
recordExitJudgementTx ==
    /\ pc = "recording"
    /\ Proposes => Next_intent \in Intents
    /\ LET i == Next_intent
           sel  == SelectRecoverySnapshot(snap, ev)
           arms == Proposes /\ sel = ev
           line == [row EXCEPT !.base = sel.base, !.high = sel.high, !.rung = sel.rung]
       IN  \/ /\ row.done \/ (arms /\ ~armExitProposalTx(i))
              /\ UNCHANGED journal /\ EndPass
           \/ /\ ~row.done /\ arms /\ armExitProposalTx(i)
              /\ row' = [line EXCEPT !.pend = [act |-> ev.act, level |-> ev.level, intent |-> i]]
              /\ asked' = [asked EXCEPT ![i] = [act |-> ev.act, level |-> ev.level, qty |-> ev.qty]]
              /\ snap' = sel
              /\ Goto("armed")
              /\ UNCHANGED <<qty, att, seen, cxl, m, ev, todo, clear>>
           \/ /\ ~row.done /\ ~arms
              /\ row' = line /\ snap' = sel
              /\ UNCHANGED <<qty, att, asked, seen, cxl>>
              /\ EndPass
    /\ UNCHANGED <<broker, crashes, faults>>

(* ------------------------------ submission ----------------------------- *)

Mine == Cardinality({i \in Intents : asked[i].act # "none"})

release == row' = ReleaseUnacceptedExitProposal(row, Mine)

(* Nothing leaves: a floor of zero, Guardian's refusal, an unsettled attempt *)
(* on the symbol.  The proposal is released.                                 *)
RefuseSubmission ==
    /\ pc = "armed"
    /\ release
    /\ UNCHANGED <<snap, qty, att, asked, seen, cxl, broker, crashes, faults>>
    /\ EndPass

(* applyFloor or AttachExitIntent fails: the proposal stays armed, no attempt. *)
FailBeforeSubmission ==
    /\ pc = "armed" /\ MoreTrouble
    /\ faults' = faults + 1
    /\ UNCHANGED <<journal, broker, crashes>>
    /\ EndPass

Place ==
    /\ pc = "armed" /\ ~Unsettled
    /\ att' = [att EXCEPT ![Mine] = "DISPATCH_STARTED"]
    /\ Goto("placing")
    /\ UNCHANGED <<row, snap, qty, asked, seen, cxl, broker, m, ev, todo, clear, crashes, faults>>

(* What the broker did with the request, and what submit does with the answer. *)
Accepted == order' = [order EXCEPT ![Mine].live = TRUE, ![Mine].acc = TRUE]

PlaceConfirmed ==
    /\ pc = "placing"
    /\ Accepted
    /\ att' = [att EXCEPT ![Mine] = "CONFIRMED"]
    /\ UNCHANGED <<row, snap, qty, asked, seen, cxl, held, mkt, crashes, faults>>
    /\ EndPass

PlaceInDoubt ==
    /\ pc = "placing"
    /\ Accepted \/ UNCHANGED order
    /\ att' = [att EXCEPT ![Mine] = "IN_DOUBT"]
    /\ UNCHANGED <<row, snap, qty, asked, seen, cxl, held, mkt, crashes, faults>>
    /\ EndPass

(* The answer could not be recorded: the attempt stays where it was until a  *)
(* restart, and the proposal stays armed.                                    *)
PlaceUnrecorded ==
    /\ pc = "placing" /\ MoreTrouble
    /\ faults' = faults + 1
    /\ Accepted \/ UNCHANGED order
    /\ UNCHANGED <<journal, held, mkt, crashes>>
    /\ EndPass

(* Proven unaccepted: the release is a second transaction, and may fail. *)
PlaceUnaccepted ==
    /\ pc = "placing"
    /\ att' = [att EXCEPT ![Mine] = "FAILED_CONFIRMED"]
    /\ Goto("refused")
    /\ UNCHANGED <<row, snap, qty, asked, seen, cxl, broker, m, ev, todo, clear, crashes, faults>>

ReleaseRefused ==
    /\ pc = "refused"
    /\ \/ release /\ UNCHANGED faults
       \/ MoreTrouble /\ faults' = faults + 1 /\ UNCHANGED row
    /\ UNCHANGED <<snap, qty, att, asked, seen, cxl, broker, crashes>>
    /\ EndPass

(* ------------------------- the rest of the engine ---------------------- *)

(* Any fill of the proposal's order answers it. *)
ApplyExitFill_Partial(i, sold, left) ==
    row' = [row EXCEPT !.taken = @ \/ (i # 0 /\ sold > 0),
                       !.pend = IF i # 0 /\ @.intent = i THEN NoPending ELSE @,
                       !.done = @ \/ left = 0]

(* ApplyExitFill: a fill moves what was taken; only a terminal one answers   *)
(* the proposal, and only its own; a closed position completes the state.    *)
ApplyExitFill(i, sold, left) ==
    row' = [row EXCEPT !.taken = @ \/ (i # 0 /\ sold > 0),
                       !.pend = IF ~order[i].live /\ i # 0 /\ @.intent = i THEN NoPending ELSE @,
                       !.done = @ \/ left = 0]

RecordFill(i) ==
    /\ pc # "down" /\ att[i] = "CONFIRMED" /\ ~seen[i].terminal
    /\ order[i].filled # seen[i].filled \/ ~order[i].live
    /\ LET delta == order[i].filled - seen[i].filled
           left == IF i = 0 THEN qty + delta ELSE qty - delta
       IN  qty' = left /\ ApplyExitFill(i, delta, left)
    /\ seen' = [seen EXCEPT ![i] = [filled |-> order[i].filled, terminal |-> ~order[i].live]]
    /\ UNCHANGED <<snap, att, asked, cxl, broker, pass, crashes, faults>>

(* The resolver: what happened, or a verdict it cannot reach. *)
Resolve(i) ==
    /\ pc # "down" /\ att[i] = "IN_DOUBT"
    /\ \/ att' = [att EXCEPT ![i] = IF order[i].acc
                                    THEN "CONFIRMED" ELSE "FAILED_CONFIRMED"]
       \/ att' = [att EXCEPT ![i] = "UNRESOLVED_IN_DOUBT"]
    /\ UNCHANGED <<row, snap, qty, asked, seen, cxl, broker, pass, crashes, faults>>

ResolveCancel(i) ==
    /\ pc # "down" /\ cxl[i] = "IN_DOUBT"
    /\ cxl' = [cxl EXCEPT ![i] = IF order[i].live THEN "none" ELSE "CONFIRMED"]
    /\ UNCHANGED <<row, snap, qty, att, asked, seen, broker, pass, crashes, faults>>

(* attempt-resolve: the operator closes a parked attempt as what the broker  *)
(* shows; closed as unaccepted, the command releases the proposal too, in a  *)
(* second transaction that may fail.                                         *)
attemptThaw(i) ==
    /\ pc # "down" /\ att[i] = "UNRESOLVED_IN_DOUBT"
    /\ IF order[i].acc
       THEN att' = [att EXCEPT ![i] = "CONFIRMED"] /\ UNCHANGED row
       ELSE /\ att' = [att EXCEPT ![i] = "FAILED_CONFIRMED"]
            /\ row' = clearExitProposalTx(row, i) \/ UNCHANGED row
    /\ UNCHANGED <<snap, qty, asked, seen, cxl, broker, pass, crashes, faults>>

Crash ==
    /\ pc # "down" /\ MoreTrouble
    /\ crashes' = crashes + 1
    /\ \/ UNCHANGED order
       \/ pc = "placing" /\ Accepted
    /\ pc' = "down" /\ m' = NoCopy /\ ev' = NoLine /\ todo' = {} /\ clear' = TRUE
    /\ UNCHANGED <<journal, held, mkt, faults>>

(* RecoverPending, then catchUpExitProposals over every armed proposal. *)
catchUpExitProposals ==
    /\ pc = "down"
    /\ att' = [i \in Orders |-> IF att[i] = "DISPATCH_STARTED" THEN "IN_DOUBT" ELSE att[i]]
    /\ row' = IF row.pend.intent = 0 THEN row ELSE ReleaseUnacceptedExitProposal(row, row.pend.intent)
    /\ UNCHANGED <<snap, qty, asked, seen, cxl, broker, crashes, faults>>
    /\ EndPass

(* ------------------------- the broker and the market ------------------- *)

BrokerFill(i) ==
    /\ order[i].live /\ order[i].filled < asked[i].qty
    /\ LET more == order[i].filled + 1
       IN  order' = [order EXCEPT ![i] = [filled |-> more, acc |-> @.acc, live |-> more < asked[i].qty]]
    /\ held' = IF i = 0 THEN held + 1 ELSE held - 1
    /\ UNCHANGED <<journal, mkt, pass, crashes, faults>>

(* A cancel takes effect, or the order expires with the day. *)
BrokerClose(i) ==
    /\ order[i].live
    /\ order' = [order EXCEPT ![i].live = FALSE]
    /\ UNCHANGED <<journal, held, mkt, pass, crashes, faults>>

MarketMoves ==
    /\ mkt' \in Prices \ {mkt}
    /\ UNCHANGED <<journal, order, held, pass, crashes, faults>>

EnginePass ==
    \/ ObserveOnce \/ noteHeldProposal \/ judge \/ clearTheSymbol
    \/ \E i \in Orders : CancelOrder(i)
    \/ ReleaseClearedExitProposal \/ recordExitJudgementTx
    \/ RefuseSubmission \/ Place \/ PlaceConfirmed \/ PlaceInDoubt
    \/ PlaceUnaccepted \/ ReleaseRefused

Environment ==
    \/ \E i \in Orders : \/ RecordFill(i) \/ Resolve(i) \/ ResolveCancel(i) \/ attemptThaw(i)
                         \/ BrokerFill(i) \/ BrokerClose(i)
    \/ MarketMoves

Next ==
    \/ EnginePass \/ FailBeforeSubmission \/ PlaceUnrecorded \/ Environment
    \/ Crash \/ catchUpExitProposals

Spec == Init /\ [][Next]_vars

(* ------------------------------ properties ----------------------------- *)

(* Type invariant; an armed proposal always names its intent, a free row none. *)
TypeOK ==
    /\ row.pend.act \in Actions /\ row.pend.level \in 0 .. Len(Stages)
    /\ row.pend.intent \in Orders /\ (row.pend.act = "none") = (row.pend.intent = 0)
    /\ row.rung \in 0 .. Len(Stages)
    /\ att \in [Orders -> AttemptStates]
    /\ qty \in Nat /\ held \in Nat
    /\ \A i \in Orders : seen[i].filled <= order[i].filled /\ order[i].filled <= asked[i].qty

Open(i) == IF order[i].live THEN asked[i].qty - order[i].filled ELSE 0

(* The exit sells working at the broker never ask for more than it holds,    *)
(* whatever fills, cancels in flight and restarts come between.              *)
NoOversell == SumFunctionOnSet([i \in Intents |-> Open(i)], Intents) <= held

(* A sell that works at the broker is the armed proposal: nothing else may   *)
(* be proposed until it ends.                                                *)
ArmedWhileLive == \A i \in Intents : order[i].live => row.pend.intent = i

(* A full exit is sent only while the working entry buy is known closed or   *)
(* its cancel was accepted, several steps after clearTheSymbol looked, so    *)
(* the position it empties is not refilled behind it.                        *)
EntryClearedFirst ==
    \A i \in Intents :
      /\ att[i] = "none" /\ att'[i] = "DISPATCH_STARTED" /\ asked[i].act \in {"STOP", "TAKE"}
      => seen[0].terminal \/ cxl[0] = "CONFIRMED"

(* The protective line and the watermark only rise, whatever the pass had    *)
(* read before its price came.                                               *)
ProtectionMonotone == row'.base >= row.base /\ row'.high >= row.high

(* Every step of the exit: EntryClearedFirst and ProtectionMonotone.         *)
ExitSteps == [][EntryClearedFirst /\ ProtectionMonotone]_vars

(* Between two passes an armed proposal has something left that ends it: an  *)
(* attempt the resolver or the operator will settle, an order whose close    *)
(* will answer it, or a refusal the next pass releases.  No crash leaves one *)
(* that only suppresses the stop; only a write that failed may, until the    *)
(* next start.                                                               *)
ProposalCanEnd ==
    pc = "idle" /\ row.pend.intent # 0 =>
        Verdict(row.pend.intent) \notin {"NO_ATTEMPTS", "ORDERS_CLOSED"} \/ faults > 0

(* ratchet: once a part was sold, by a fill of any size, no second partial   *)
(* take-profit is proposed for the position, whatever the pass had read.     *)
PartialOnce ==
    row.kind = "RATCHET" => \A i, j \in Intents :
                          /\ i < j /\ asked[i].act = "PARTIAL" /\ asked[j].act = "PARTIAL"
                          => order[i].filled = 0

(* The exit engine's safety: no oversell, one proposal at a time that can end,   *)
(* one partial (exitloop.go, apply_hook.go, boot_catchup.go).                    *)
ExitInv == TypeOK /\ NoOversell /\ ArmedWhileLive /\ ProposalCanEnd /\ PartialOnce
=============================================================================
