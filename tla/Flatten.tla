------------------------------ MODULE Flatten ------------------------------
(***************************************************************************)
(* The emergency exit: cancel every outstanding order, then sell down every *)
(* position, as a saga whose plan and outcomes are journal rows (Saga,      *)
(* internal/flatten; flatten_sagas and flatten_steps, internal/journal;     *)
(* runFlatten, cmd/tossctl).  A crash leaves the rows and loses everything  *)
(* else; the next run resumes the unfinished saga.                          *)
(*                                                                          *)
(* The gateway is what module Gateway shows it to be: one unsettled attempt *)
(* per symbol, an outcome that is the journal's, and a doubt that stays one *)
(* until it is observed away.  Orders are of one share; prices are left out.*)
(***************************************************************************)
EXTENDS Integers, FiniteSets, FiniteSetsExt

CONSTANTS
    Symbols,
    Accounts,      \* the accounts to look at, each a record of
                   \*   resting: the orders that are live at the start
                   \*   engine: the orders the engine may place beside the saga
                   \*   shares: the position of each symbol
                   \*   hesitates: whether the operator makes dry runs and
                   \*     withholds the word
    Rounds,        \* sell-and-recheck cycles of a run
    MaxFaults      \* bound on refusals, lost answers, failed writes, crashes

Orders == Symbols \X {"BUY", "SELL"}

ASSUME ConstantsAssumption ==
    /\ IsFiniteSet(Symbols)
    /\ Accounts \subseteq [resting : SUBSET Orders, engine : SUBSET Orders,
                          shares : [Symbols -> Nat], hesitates : BOOLEAN]
    /\ \A a \in Accounts, s \in Symbols : <<s, "SELL">> \in a.resting => a.shares[s] > 0
    /\ Rounds \in Nat \ {0} /\ MaxFaults \in Nat

SymbolOf(o) == o[1]
SideOf(o) == o[2]
OrdersOf(s) == {o \in Orders : SymbolOf(o) = s}

None == "NONE"
StepStates == {"PENDING", "DONE", "FAILED", "IN_DOUBT", "HELD"}
Unsettled == {"PENDING", "IN_DOUBT", "HELD"}

VARIABLES
    setup,   \* the account this behaviour is about
    bk,      \* the broker: "none", "live", "filled" or "canceled"
    holding, \* shares held
    selling, \* live quantity of the saga's own sells
    flight,  \* quantity of a sell that was sent and has not reached the broker
    raced,   \* sells the engine placed between a plan and its sale, a history
    busy,    \* the side of the cancel, or "SALE", the journal has unsettled
    phase,   \* flatten_sagas
    cancel,  \* flatten_steps of kind CANCEL
    liq,     \* flatten_steps of kind LIQUIDATE, by symbol and round
    pc,      \* where the process is
    dry,     \* its --dry-run flag
    todo,    \* the cancels still to be made
    left,    \* the targets still to be sold
    asked,   \* the step of the gateway's answer that is still to be recorded
    answer,
    round,
    snap,    \* the holdings the liquidation is planned from
    plan,    \* the quantity to sell, HELD or none, by symbol
    latest,  \* byKey: the last state of each target of this run
    faults

account == <<bk, holding, selling, flight, raced>>
rows    == <<phase, cancel, liq>>
memory  == <<pc, dry, todo, left, asked, answer, round, snap, plan, latest>>
vars    == <<account, busy, rows, memory, faults>>

Free(s) == busy[s] = None

Faults(n) == faults + n <= MaxFaults /\ faults' = faults + n
Fault == Faults(1)
NoFault == UNCHANGED faults

Init ==
    /\ setup \in Accounts
    /\ bk = [o \in Orders |-> IF o \in setup.resting THEN "live" ELSE "none"]
    /\ holding = setup.shares
    /\ selling = [s \in Symbols |-> 0]
    /\ flight = [s \in Symbols |-> 0]
    /\ raced = [s \in Symbols |-> 0]
    /\ busy = [s \in Symbols |-> None]
    /\ phase = None
    /\ cancel = [o \in Orders |-> None]
    /\ liq = [s \in Symbols |-> [r \in 1..Rounds |-> None]]
    /\ pc = "down" /\ dry = FALSE /\ todo = {} /\ left = {}
    /\ asked = {} /\ answer = None
    /\ round = 0
    /\ snap = [s \in Symbols |-> 0] /\ plan = [s \in Symbols |-> -1]
    /\ latest = [s \in Symbols |-> None]
    /\ faults = 0

-----------------------------------------------------------------------------
(* The account (external), and an engine that runs beside the saga.         *)

LiveSells(s) == selling[s] + Cardinality({o \in OrdersOf(s) : SideOf(o) = "SELL" /\ bk[o] = "live"})

RestingFill(o) ==
    /\ bk[o] = "live" /\ (SideOf(o) = "SELL" => holding[SymbolOf(o)] > 0)
    /\ bk' = [bk EXCEPT ![o] = "filled"]
    /\ holding' = [holding EXCEPT ![SymbolOf(o)] = IF SideOf(o) = "BUY" THEN @ + 1 ELSE @ - 1]
    /\ UNCHANGED <<selling, flight, raced>>

SagaSellFills(s) ==
    /\ selling[s] > 0 /\ holding[s] > 0
    /\ selling' = [selling EXCEPT ![s] = @ - 1]
    /\ holding' = [holding EXCEPT ![s] = @ - 1]
    /\ UNCHANGED <<bk, flight, raced>>

\* A sell whose answer was lost reaches the broker after all.
FlightLands(s) ==
    /\ flight[s] > 0
    /\ selling' = [selling EXCEPT ![s] = @ + flight[s]]
    /\ flight' = [flight EXCEPT ![s] = 0]
    /\ UNCHANGED <<bk, holding, raced>>

\* A target of the plan that is still to be sold.
Planned(s) == s \in left /\ plan[s] > 0

\* The engine's own gate is in its own memory: no saga latches it.
EngineOrder(o) ==
    /\ o \in setup.engine /\ bk[o] = "none" /\ Free(SymbolOf(o))
    /\ SideOf(o) = "SELL" => holding[SymbolOf(o)] > LiveSells(SymbolOf(o))
    /\ bk' = [bk EXCEPT ![o] = "live"]
    /\ raced' = IF SideOf(o) = "SELL" /\ Planned(SymbolOf(o))
                THEN [raced EXCEPT ![SymbolOf(o)] = @ + 1] ELSE raced
    /\ UNCHANGED <<holding, selling, flight>>

Account ==
    /\ \/ \E o \in Orders : RestingFill(o) \/ EngineOrder(o)
       \/ \E s \in Symbols : SagaSellFills(s) \/ FlightLands(s)
    /\ UNCHANGED <<busy, rows, memory, faults>>

\* The command returns or dies: what it had in memory, its latched entry gate
\* included, is gone.
Ended ==
    /\ pc' = "down" /\ dry' = FALSE /\ todo' = {} /\ left' = {}
    /\ asked' = {} /\ answer' = None /\ round' = 0
    /\ snap' = [s \in Symbols |-> 0] /\ plan' = [s \in Symbols |-> -1]
    /\ latest' = [s \in Symbols |-> None]

-----------------------------------------------------------------------------
(* CancelAll.                                                               *)

\* Mutant: a stalled saga is picked up again.
ActiveUnlessComplete == phase \notin {None, "COMPLETE"}

\* FlattenSaga.Active
Active == phase \notin {None, "COMPLETE", "STALLED"}

\* openSaga, StartFlatten: an unfinished saga is resumed with its rows, and a
\* new one has none.
OpenSaga ==
    IF Active THEN UNCHANGED <<cancel, liq>>
    ELSE /\ cancel' = [o \in Orders |-> None]
         /\ liq' = [s \in Symbols |-> [r \in 1..Rounds |-> None]]

CancelAll ==
    /\ pc = "down"
    /\ dry' \in {FALSE, setup.hesitates}
    /\ OpenSaga
    /\ phase' = "CANCELLING"
    /\ pc' = "enumerate"
    /\ UNCHANGED <<account, busy, todo, left, asked, answer, round, snap, plan, latest, faults>>

\* A step the saga already knows is returned as it is (AddFlattenStep).
AddSteps(S) == [o \in Orders |-> IF o \in S /\ cancel[o] = None THEN "PENDING" ELSE cancel[o]]

OpenOrders == {o \in Orders : bk[o] = "live"}

\* Every open order is recorded before the first is cancelled; the recorded
\* ones the list does not show are settled too (mergeSteps).
Enumerate ==
    /\ pc = "enumerate"
    /\ cancel' = AddSteps(OpenOrders)
    /\ todo' = {o \in Orders : cancel'[o] # None}
    /\ pc' = "cancel"
    /\ UNCHANGED <<account, busy, phase, liq, dry, left, asked, answer, round, snap, plan,
                   latest, faults>>

\* The list cannot be read, or a row cannot be written: the run ends there.
EnumerateFails ==
    /\ pc = "enumerate" /\ Fault
    /\ \E S \in SUBSET OpenOrders : cancel' = AddSteps(S)
    /\ Ended
    /\ UNCHANGED <<account, busy, phase, liq>>

\* resolveStep, on the attempt of o: the cancel took effect; it did not, so it
\* may be sent again by the next run; it is not settled; or the resolver parks
\* it, which leaves the symbol free for exits and settles nothing.
ResolveStep(o, state) ==
    \/ /\ busy[SymbolOf(o)] = SideOf(o)
       /\ state \in {IF bk[o] = "canceled" THEN "DONE" ELSE "PENDING", "IN_DOUBT"}
       /\ busy' = [busy EXCEPT ![SymbolOf(o)] = None]
    \/ state = "IN_DOUBT" /\ UNCHANGED busy

\* UpdateFlattenStep: a write that fails is noted in the report, the row keeps
\* what it had, and the run goes on.
UpdateStep(o, state) ==
    \/ cancel' = [cancel EXCEPT ![o] = state] /\ NoFault
    \/ UNCHANGED cancel /\ Fault

\* An order an earlier run settled is not touched; in a dry run neither is one
\* that is still to be cancelled.
SkipStep(o) ==
    /\ pc = "cancel" /\ o \in todo
    /\ cancel[o] \in {"DONE", "FAILED"} \/ (dry /\ cancel[o] # "IN_DOUBT")
    /\ todo' = todo \ {o}
    /\ UNCHANGED <<account, busy, rows, pc, dry, left, asked, answer, round, snap, plan,
                   latest, faults>>

\* A cancel an earlier run left in doubt is looked at, never sent again.
LookAgain(o) ==
    /\ pc = "cancel" /\ o \in todo /\ cancel[o] = "IN_DOUBT"
    /\ \E state \in StepStates : ResolveStep(o, state) /\ UpdateStep(o, state)
    /\ todo' = todo \ {o}
    /\ UNCHANGED <<account, phase, liq, pc, dry, left, asked, answer, round, snap, plan, latest>>

ToSubmit(o) == pc = "cancel" /\ o \in todo /\ cancel[o] \in {"PENDING", "HELD"} /\ ~dry

\* The decision cannot be recorded, so nothing is sent: FAILED, if that can be.
CancelDecisionFails(o) ==
    /\ ToSubmit(o)
    /\ \/ Fault /\ cancel' = [cancel EXCEPT ![o] = "FAILED"]
       \/ Faults(2) /\ UNCHANGED cancel
    /\ todo' = todo \ {o}
    /\ UNCHANGED <<account, busy, phase, liq, pc, dry, left, asked, answer, round, snap,
                   plan, latest>>

\* classifyCancel: what the step becomes of the gateway's outcome.
ClassifyCancel(state) ==
    CASE state = "CONFIRMED" -> "DONE"
      [] state \in {"FAILED_CONFIRMED", "NOT_DISPATCHED"} -> "FAILED"
      [] state = "IN_DOUBT" -> "IN_DOUBT"
      [] OTHER -> "HELD"

\* Gateway.Cancel: the outcomes, with what each does to the order and to the
\* symbol's unsettled attempt.
GatewayCancel(o, state) ==
    \/ /\ state = None /\ ~Free(SymbolOf(o)) /\ NoFault
       /\ UNCHANGED <<bk, busy>>
    \/ /\ state = "CONFIRMED" /\ Free(SymbolOf(o)) /\ bk[o] = "live" /\ NoFault
       /\ bk' = [bk EXCEPT ![o] = "canceled"] /\ UNCHANGED busy
    \/ /\ state = "FAILED_CONFIRMED" /\ Free(SymbolOf(o)) /\ bk[o] # "live" /\ NoFault
       /\ UNCHANGED <<bk, busy>>
    \/ /\ state \in {"FAILED_CONFIRMED", "NOT_DISPATCHED", None} /\ Free(SymbolOf(o)) /\ Fault
       /\ UNCHANGED <<bk, busy>>
    \/ /\ state = "IN_DOUBT" /\ Free(SymbolOf(o)) /\ Fault
       /\ bk' \in {bk} \cup (IF bk[o] = "live" THEN {[bk EXCEPT ![o] = "canceled"]} ELSE {})
       /\ busy' = [busy EXCEPT ![SymbolOf(o)] = SideOf(o)]

SubmitCancel(o) ==
    /\ ToSubmit(o)
    /\ \E state \in {None, "CONFIRMED", "FAILED_CONFIRMED", "NOT_DISPATCHED", "IN_DOUBT"} :
          GatewayCancel(o, state) /\ answer' = ClassifyCancel(state)
    /\ todo' = todo \ {o} /\ asked' = {o}
    /\ pc' = "record"
    /\ UNCHANGED <<holding, selling, flight, raced, rows, dry, left, round, snap, plan, latest>>

\* The outcome reaches its row, an ambiguous one after a look by the resolver.
RecordCancel ==
    /\ pc = "record"
    /\ \E o \in asked, state \in StepStates :
          /\ \/ answer # "IN_DOUBT" /\ state = answer /\ UNCHANGED busy
             \/ answer = "IN_DOUBT" /\ ResolveStep(o, state)
          /\ UpdateStep(o, state)
    /\ pc' = "cancel" /\ asked' = {} /\ answer' = None
    /\ UNCHANGED <<account, phase, liq, dry, todo, left, round, snap, plan, latest>>

\* The phase advances whatever the outcomes were.
CancelledAll ==
    /\ pc = "cancel" /\ todo = {}
    /\ phase' = IF dry THEN "BLOCKING" ELSE "CANCELLED"
    /\ pc' = "confirm"
    /\ UNCHANGED <<account, busy, cancel, liq, dry, todo, left, asked, answer, round, snap,
                   plan, latest, faults>>

-----------------------------------------------------------------------------
(* Liquidate.                                                               *)

\* runFlatten: an account without positions ends the command there, and so does
\* an operator who does not confirm.
NothingToSell ==
    /\ pc = "confirm"
    /\ (\A s \in Symbols : holding[s] = 0) \/ (setup.hesitates /\ ~dry)
    /\ Ended
    /\ UNCHANGED <<account, busy, rows, faults>>

Confirmed ==
    /\ pc = "confirm" /\ \E s \in Symbols : holding[s] > 0
    /\ pc' = "stabilise" /\ round' = 1
    /\ latest' = [s \in Symbols |-> None]
    /\ UNCHANGED <<account, busy, rows, dry, todo, left, asked, answer, snap, plan, faults>>

\* stabilise: the last reading of the positions, stable or not.
Stabilise ==
    /\ pc = "stabilise"
    /\ phase' = "STABILISING"
    /\ snap' = holding
    /\ pc' = "plan"
    /\ UNCHANGED <<account, busy, cancel, liq, dry, todo, left, asked, answer, round, plan,
                   latest, faults>>

\* The broker's answer to SellableQuantity.
Sellable(s) == holding[s] - LiveSells(s)

\* Mutant: only a cancel in doubt holds its symbol out.
HeldInDoubt(s) == \E o \in OrdersOf(s) : cancel[o] = "IN_DOUBT"

\* UnsettledCancelSymbols
HeldOut(s) == \E o \in OrdersOf(s) : cancel[o] \in Unsettled

\* Mutant: the order is sized from the position alone.
SizedByHolding(s) == snap[s]

\* priceAndSize: the smaller of the position and the sellable quantity.
Sized(s) == IF Sellable(s) < snap[s] THEN Sellable(s) ELSE snap[s]

\* planLiquidation
Target(s) ==
    IF snap[s] = 0 THEN -1
    ELSE IF HeldOut(s) \/ Sized(s) <= 0 THEN 0
    ELSE Sized(s)

\* A symbol whose sellable quantity or price cannot be read is held, and the
\* others are sold.
PlanLiquidation ==
    /\ pc = "plan"
    /\ \E unread \in SUBSET {s \in Symbols : Target(s) > 0} :
          /\ Faults(Cardinality(unread))
          /\ plan' = [s \in Symbols |-> IF s \in unread THEN 0 ELSE Target(s)]
    /\ left' = {s \in Symbols : Target(s) >= 0}
    /\ IF left' = {} THEN pc' = "verify" /\ phase' = "VERIFYING"
       ELSE pc' = "sell" /\ phase' = "LIQUIDATING"
    /\ UNCHANGED <<account, busy, cancel, liq, dry, todo, asked, answer, round, snap, latest>>

\* The account, the journal's held symbols or a phase cannot be read or written.
LiquidateFails ==
    /\ pc \in {"stabilise", "plan", "verify"} /\ Fault
    /\ Ended
    /\ UNCHANGED <<account, busy, rows>>

\* recordLiquidationStep returns the row that is there; HELD overwrites it.
LiquidationStep(s) == IF liq[s][round] = None THEN "PENDING" ELSE liq[s][round]

\* A write of the row that fails is passed over.
UpdateRow(s, state) ==
    \/ liq' = [liq EXCEPT ![s][round] = state] /\ NoFault
    \/ UNCHANGED liq /\ Fault

\* sell: the target is held, or this is a dry run.
SellNothing(s) ==
    /\ pc = "sell" /\ s \in left
    /\ \/ /\ plan[s] = 0
          /\ UpdateRow(s, "HELD")
          /\ latest' = [latest EXCEPT ![s] = "HELD"]
       \/ /\ plan[s] > 0 /\ dry
          /\ UpdateRow(s, LiquidationStep(s))
          /\ latest' = [latest EXCEPT ![s] = "PENDING"]
    /\ left' = left \ {s}
    /\ UNCHANGED <<account, busy, phase, cancel, pc, dry, todo, asked, answer, round, snap, plan>>

ToSell(s) == pc = "sell" /\ Planned(s) /\ ~dry

\* The round's order of the symbol is out, by the row.
AlreadyOut(s) == LiquidationStep(s) \in {"DONE", "IN_DOUBT"}

SellNoMore(s) ==
    /\ ToSell(s) /\ AlreadyOut(s)
    /\ latest' = [latest EXCEPT ![s] = LiquidationStep(s)]
    /\ left' = left \ {s}
    /\ UNCHANGED <<account, busy, rows, pc, dry, todo, asked, answer, round, snap, plan, faults>>

\* The decision cannot be recorded: FAILED, if the row can be written.
SellDecisionFails(s) ==
    /\ ToSell(s) /\ ~AlreadyOut(s)
    /\ \/ Fault /\ liq' = [liq EXCEPT ![s][round] = "FAILED"]
       \/ Faults(2) /\ liq' \in {liq, [liq EXCEPT ![s][round] = LiquidationStep(s)]}
    /\ latest' = [latest EXCEPT ![s] = "FAILED"]
    /\ left' = left \ {s}
    /\ UNCHANGED <<account, busy, phase, cancel, pc, dry, todo, asked, answer, round, snap,
                   plan>>

\* Gateway.Place of the planned quantity, and what sell makes of its outcome,
\* after a number of faults in the same step.
GatewayPlace(s, state, before) ==
    \/ state = "FAILED" /\ ~Free(s) /\ Faults(before) /\ UNCHANGED <<selling, flight, busy>>
    \/ state = "FAILED" /\ Free(s) /\ Faults(before + 1) /\ UNCHANGED <<selling, flight, busy>>
    \/ /\ state = "DONE" /\ Free(s) /\ Faults(before)
       /\ selling' = [selling EXCEPT ![s] = @ + plan[s]]
       /\ UNCHANGED <<flight, busy>>
    \/ /\ state = "IN_DOUBT" /\ Free(s) /\ Faults(before + 1)
       /\ busy' = [busy EXCEPT ![s] = "SALE"]
       /\ flight' \in {flight, [flight EXCEPT ![s] = plan[s]]}
       /\ UNCHANGED selling

SaleStates == {"DONE", "FAILED", "IN_DOUBT"}

SubmitSell(s) ==
    /\ ToSell(s) /\ ~AlreadyOut(s)
    /\ \E state \in SaleStates : GatewayPlace(s, state, 0) /\ answer' = state
    /\ liq' = [liq EXCEPT ![s][round] = LiquidationStep(s)]
    /\ asked' = {s} /\ left' = left \ {s}
    /\ pc' = "sold"
    /\ UNCHANGED <<bk, holding, raced, phase, cancel, dry, todo, round, snap, plan, latest>>

\* The row cannot be added, or read: the sale goes on without one.
SellUnrecorded(s) ==
    /\ ToSell(s)
    /\ \E state \in SaleStates : /\ GatewayPlace(s, state, 1)
                                 /\ latest' = [latest EXCEPT ![s] = state]
    /\ left' = left \ {s}
    /\ UNCHANGED <<bk, holding, raced, rows, pc, dry, todo, asked, answer, round, snap, plan>>

RecordSell ==
    /\ pc = "sold"
    /\ \E s \in asked : UpdateRow(s, answer) /\ latest' = [latest EXCEPT ![s] = answer]
    /\ pc' = "sell" /\ asked' = {} /\ answer' = None
    /\ UNCHANGED <<account, busy, phase, cancel, dry, todo, left, round, snap, plan>>

NextRound ==
    /\ pc = "sell" /\ left = {}
    /\ IF dry \/ round = Rounds
       THEN pc' = "verify" /\ phase' = "VERIFYING" /\ UNCHANGED round
       ELSE pc' = "stabilise" /\ round' = round + 1 /\ UNCHANGED phase
    /\ UNCHANGED <<account, busy, cancel, liq, dry, todo, left, asked, answer, snap, plan, latest,
                   faults>>

\* The final reading: positions that remain and targets that were held.
Verify ==
    /\ pc = "verify"
    /\ phase' = IF dry THEN "CANCELLED"
                ELSE IF \A s \in Symbols : holding[s] = 0 /\ latest[s] # "HELD"
                THEN "COMPLETE" ELSE "STALLED"
    /\ Ended
    /\ UNCHANGED <<account, busy, cancel, liq, faults>>

\* The process dies; what it had in memory is gone.
Crash ==
    /\ pc # "down" /\ Fault
    /\ Ended
    /\ UNCHANGED <<account, busy, rows>>

-----------------------------------------------------------------------------
Cancelling ==
    \/ Enumerate \/ RecordCancel \/ CancelledAll
    \/ \E o \in Orders : SkipStep(o) \/ LookAgain(o) \/ SubmitCancel(o)

Liquidating ==
    \/ Confirmed \/ Stabilise \/ PlanLiquidation \/ RecordSell \/ NextRound \/ Verify
    \/ \E s \in Symbols : SellNothing(s) \/ SellNoMore(s) \/ SubmitSell(s)

Failing ==
    \/ EnumerateFails \/ LiquidateFails \/ Crash
    \/ \E o \in Orders : CancelDecisionFails(o)
    \/ \E s \in Symbols : SellDecisionFails(s) \/ SellUnrecorded(s)

Next ==
    /\ Account \/ CancelAll \/ Cancelling \/ NothingToSell \/ Liquidating \/ Failing
    /\ UNCHANGED setup

Spec == Init /\ [][Next]_<<vars, setup>>

\* flatten-all is run until the account is flat, a run goes on until it is over,
\* and a sell at the limit the saga chose fills.
LiveSpec ==
    /\ Spec
    /\ WF_vars(CancelAll) /\ WF_vars(Cancelling)
    /\ WF_vars(NothingToSell \/ Liquidating)
    /\ \A s \in Symbols : WF_vars(SagaSellFills(s) /\ UNCHANGED <<busy, rows, memory, faults>>)

-----------------------------------------------------------------------------
\* Type invariant.
TypeOK ==
    /\ bk \in [Orders -> {"none", "live", "filled", "canceled"}]
    /\ \A s \in Symbols : holding[s] \in 0..(setup.shares[s] + 1) /\ selling[s] \in Nat
                          /\ flight[s] \in Nat /\ raced[s] \in Nat
    /\ busy \in [Symbols -> {None, "BUY", "SELL", "SALE"}]
    /\ phase \in {None, "BLOCKING", "CANCELLING", "CANCELLED", "STABILISING", "LIQUIDATING",
                  "VERIFYING", "COMPLETE", "STALLED"}
    /\ cancel \in [Orders -> StepStates \cup {None}]
    /\ liq \in [Symbols -> [1..Rounds -> StepStates \cup {None}]]
    /\ todo \subseteq Orders /\ left \subseteq Symbols
    /\ faults \in 0..MaxFaults

\* priceAndSize, sell: the sells that are live, or may still arrive, never add
\* up to more than the position, over every round, resumed run, refused or lost
\* cancel, lost answer and unwritten row; only a sell that something else places
\* between the plan of a symbol and its sale can take them over it, and by no
\* more than that sell.
NoOversell == \A s \in Symbols : LiveSells(s) + flight[s] <= holding[s] + raced[s]

\* settleStep, classifyCancel: a cancel recorded as DONE took its order off the
\* book, whichever run sent it and whichever recorded it.
DoneMeansGone == \A o \in Orders : cancel[o] = "DONE" => bk[o] = "canceled"

\* planLiquidation: when a symbol is sold, an order of it that is still live is
\* one the saga never saw or one whose cancel was definitely refused.
SellsOverAnswered ==
    [][\A s \in Symbols :
          selling'[s] + flight'[s] > selling[s] + flight[s]
          => \A o \in OrdersOf(s) : bk[o] = "live" => cancel[o] \in {None, "FAILED"}]_vars

\* The saga gets out: run until it is flat by an operator who means it,
\* flatten-all sells every position whose symbol has no attempt that only an
\* engine can settle, however many earlier runs crashed or were refused half way.
Flattens ==
    []<>(setup.hesitates \/ \A s \in Symbols : holding[s] = 0 \/ busy[s] # None)

\* Whatever run, round or lost answer it is in, the saga sells no more than is
\* held, but for a sell placed beside it after the plan, and takes no order for
\* cancelled that is not (liquidate.go, flatten.go).
FlattenInv == TypeOK /\ NoOversell /\ DoneMeansGone
=============================================================================
