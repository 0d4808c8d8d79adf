---------------------------- MODULE FlattenProofs ----------------------------
(* Proofs about the emergency exit, for every account, any number of rounds   *)
(* and faults, and any crash.                                                 *)
EXTENDS Flatten, FiniteSetTheorems, TLAPS

Selling(s) == <<s, "SELL">>
Buying(s) == <<s, "BUY">>
Live(b, s) == IF b[Selling(s)] = "live" THEN 1 ELSE 0

(* Orders of one share: what is live of a symbol's sells, without the count.  *)
LEMMA LiveSellsCount ==
    ASSUME NEW s \in Symbols
    PROVE  /\ Selling(s) \in Orders /\ Buying(s) \in Orders /\ OrdersOf(s) = {Buying(s), Selling(s)}
           /\ LiveSells(s) = selling[s] + Live(bk, s)
           /\ LiveSells(s)' = selling'[s] + Live(bk', s)
  <1>1. Selling(s) \in Orders /\ Buying(s) \in Orders /\ OrdersOf(s) = {Buying(s), Selling(s)}
    BY DEF Selling, Buying, Orders, OrdersOf, SymbolOf
  <1>2. ASSUME NEW b
        PROVE  Cardinality({o \in OrdersOf(s) : SideOf(o) = "SELL" /\ b[o] = "live"}) = Live(b, s)
    <2> DEFINE L == {o \in OrdersOf(s) : SideOf(o) = "SELL" /\ b[o] = "live"}
    <2>1. CASE b[Selling(s)] = "live"
      <3>1. L = {Selling(s)}
        BY <1>1, <2>1 DEF Selling, Buying, SideOf
      <3> QED BY <2>1, <3>1, FS_Singleton DEF Live
    <2>2. CASE b[Selling(s)] # "live"
      <3>1. L = {}
        BY <1>1, <2>2 DEF Selling, Buying, SideOf
      <3> QED BY <2>2, <3>1, FS_EmptySet DEF Live
    <2> QED BY <2>1, <2>2
  <1>3. LiveSells(s) = selling[s] + Live(bk, s)
    BY <1>2 DEF LiveSells
  <1>4. LiveSells(s)' = selling'[s] + Live(bk', s)
    BY <1>2 DEF LiveSells
  <1> QED BY <1>1, <1>3, <1>4

(* What TypeOK leaves open. *)
MoreTypes ==
    /\ setup \in Accounts
    /\ holding \in [Symbols -> Nat] /\ selling \in [Symbols -> Nat] /\ flight \in [Symbols -> Nat]
    /\ raced \in [Symbols -> Nat]
    /\ snap \in [Symbols -> Nat] /\ plan \in [Symbols -> Int]
    /\ pc \in {"stabilise", "plan", "sell", "sold"} => round \in 1..Rounds
    /\ pc \in {"record", "sold"} => answer \in StepStates
    /\ pc = "sold" => asked \subseteq Symbols

(* A buy fills once. *)
BuysOnce ==
    \A s \in Symbols : holding[s] <= setup.shares[s] + IF bk[Buying(s)] = "filled" THEN 1 ELSE 0

(* An outcome on its way to its row is what happened to its order. *)
OutcomeIsTrue ==
    pc = "record" => asked \subseteq Orders
                     /\ (answer = "DONE" => \A o \in asked : bk[o] = "canceled")

(* Targets exist between the plan and the last sell only, and every cancel on *)
(* a symbol to be sold is answered.                                           *)
TargetsAnswered ==
    /\ left # {} => pc \in {"sell", "sold"}
    /\ \A s \in left : plan[s] > 0 => ~HeldOut(s)

FlattenTypes == TypeOK /\ MoreTypes /\ BuysOnce
CancelsAnswered == DoneMeansGone /\ OutcomeIsTrue /\ TargetsAnswered

(* A sell that may still arrive keeps its symbol busy. *)
FlightIsBusy == \A s \in Symbols : flight[s] > 0 => busy[s] = "SALE"

(* A target that can be sold is still covered, but for what raced its plan. *)
PlanIsCovered ==
    \A s \in left :
        plan[s] > 0 => busy[s] = "SALE" \/ LiveSells(s) + plan[s] <= holding[s] + raced[s]

SellsCovered == FlightIsBusy /\ PlanIsCovered /\ NoOversell

USE ConstantsAssumption DEF account, rows, memory, None, Free, Faults, Fault, NoFault

-----------------------------------------------------------------------------
(* Types and cancels, whatever runs beside the saga.                          *)

(* The shares an account starts with. *)
LEMMA SharesAreCounted ==
    ASSUME setup \in Accounts
    PROVE  /\ setup.shares \in [Symbols -> Nat] /\ setup.resting \subseteq Orders
           /\ setup.engine \subseteq Orders
           /\ \A s \in Symbols : Selling(s) \in setup.resting => setup.shares[s] > 0
  BY DEF Selling

(* What the account does of its own: no fill takes a cancelled order, and a   *)
(* buy adds one share once.                                                   *)
LEMMA AccountMoves ==
    ASSUME TypeOK, MoreTypes, BuysOnce, Account, UNCHANGED setup
    PROVE  /\ bk' \in [Orders -> {"none", "live", "filled", "canceled"}]
           /\ holding' \in [Symbols -> Nat] /\ selling' \in [Symbols -> Nat]
           /\ flight' \in [Symbols -> Nat] /\ raced' \in [Symbols -> Nat] /\ BuysOnce'
           /\ \A x \in Orders : bk[x] = "canceled" => bk'[x] = "canceled"
  <1>1. PICK shares \in [Symbols -> Nat] : shares = setup.shares
    BY SharesAreCounted DEF MoreTypes
  <1> DEFINE More(s) == IF bk[Buying(s)] = "filled" THEN 1 ELSE 0
             Next1(s) == IF bk'[Buying(s)] = "filled" THEN 1 ELSE 0
             Kept == \A x \in Orders : bk[x] = "canceled" => bk'[x] = "canceled"
             Types == /\ bk' \in [Orders -> {"none", "live", "filled", "canceled"}]
                      /\ holding' \in [Symbols -> Nat] /\ selling' \in [Symbols -> Nat]
                      /\ flight' \in [Symbols -> Nat] /\ raced' \in [Symbols -> Nat] /\ Kept
             Bound == \A s \in Symbols : holding'[s] <= shares[s] + Next1(s)
  <1>2. /\ \A s \in Symbols : holding[s] <= shares[s] + More(s)
        /\ bk \in [Orders -> {"none", "live", "filled", "canceled"}]
        /\ holding \in [Symbols -> Nat] /\ selling \in [Symbols -> Nat]
        /\ flight \in [Symbols -> Nat] /\ raced \in [Symbols -> Nat]
    BY <1>1 DEF BuysOnce, TypeOK, MoreTypes
  <1>3. \A s \in Symbols : Buying(s) \in Orders
    BY LiveSellsCount
  <1>4. ASSUME NEW o \in Orders, RestingFill(o) PROVE Types /\ Bound
    <2>1. SymbolOf(o) \in Symbols /\ SideOf(o) \in {"BUY", "SELL"}
          /\ (SideOf(o) = "BUY" <=> o = Buying(SymbolOf(o)))
          /\ \A s \in Symbols : s # SymbolOf(o) => o # Buying(s)
      BY DEF Orders, SymbolOf, SideOf, Buying
    <2>2. Types
      BY <1>2, <1>4, <2>1 DEF RestingFill
    <2>3. ASSUME NEW s \in Symbols PROVE holding'[s] <= shares[s] + Next1(s)
      <3>1. CASE s # SymbolOf(o)
        BY <1>2, <1>3, <1>4, <2>1, <3>1 DEF RestingFill
      <3>2. CASE s = SymbolOf(o) /\ SideOf(o) = "BUY"
        BY <1>2, <1>3, <1>4, <2>1, <3>2 DEF RestingFill
      <3>3. CASE s = SymbolOf(o) /\ SideOf(o) = "SELL"
        BY <1>2, <1>3, <1>4, <2>1, <3>3 DEF RestingFill
      <3> QED BY <2>1, <3>1, <3>2, <3>3
    <2> QED BY <2>2, <2>3
  <1>5. ASSUME NEW o \in Orders, EngineOrder(o) PROVE Types /\ Bound
    <2>r. raced' = raced \/ raced' = [raced EXCEPT ![SymbolOf(o)] = raced[SymbolOf(o)] + 1]
      BY <1>5 DEF EngineOrder
    <2>s. SymbolOf(o) \in Symbols
      BY DEF Orders, SymbolOf
    <2>1. raced' \in [Symbols -> Nat]
      BY <1>2, <2>r, <2>s
    <2> QED BY <1>2, <1>3, <1>5, <2>1 DEF EngineOrder
  <1>6. ASSUME NEW s \in Symbols, SagaSellFills(s) \/ FlightLands(s) PROVE Types /\ Bound
    <2>1. Types /\ bk' = bk /\ \A x \in Symbols : holding'[x] <= holding[x]
      BY <1>2, <1>6 DEF SagaSellFills, FlightLands
    <2> QED BY <1>2, <2>1
  <1>7. Types /\ Bound
    BY <1>4, <1>5, <1>6 DEF Account
  <1> QED BY <1>1, <1>7 DEF BuysOnce

(* The account moves on its own, and an engine beside the saga places orders. *)
LEMMA AccountKeepsTypes ==
    ASSUME FlattenTypes, CancelsAnswered, Account, UNCHANGED setup
    PROVE  FlattenTypes' /\ CancelsAnswered'
  <1>0. UNCHANGED <<busy, rows, memory, faults>>
    BY DEF Account
  <1>1. /\ bk' \in [Orders -> {"none", "live", "filled", "canceled"}]
        /\ holding' \in [Symbols -> Nat] /\ selling' \in [Symbols -> Nat]
        /\ flight' \in [Symbols -> Nat] /\ raced' \in [Symbols -> Nat] /\ BuysOnce'
        /\ \A x \in Orders : bk[x] = "canceled" => bk'[x] = "canceled"
    BY AccountMoves DEF FlattenTypes
  <1>2. MoreTypes'
    BY <1>0, <1>1 DEF FlattenTypes, MoreTypes
  <1>3. \A s \in Symbols : holding'[s] \in 0..(setup'.shares[s] + 1)
    BY <1>1, <1>2, SharesAreCounted DEF MoreTypes, BuysOnce
  <1>4. TypeOK'
    BY <1>0, <1>1, <1>3 DEF FlattenTypes, TypeOK
  <1>5. CancelsAnswered'
    BY <1>0, <1>1 DEF CancelsAnswered, DoneMeansGone, OutcomeIsTrue, TargetsAnswered, HeldOut
  <1> QED BY <1>1, <1>2, <1>4, <1>5 DEF FlattenTypes

(* resolveStep: a cancel is recorded as done only when its order is off the   *)
(* book, and a sale's doubt is no cancel's to settle.                         *)
LEMMA ResolveShape ==
    ASSUME NEW o \in Orders, NEW state, ResolveStep(o, state)
    PROVE  /\ state \in StepStates /\ (state = "DONE" => bk[o] = "canceled")
           /\ \/ UNCHANGED busy
              \/ busy[SymbolOf(o)] # "SALE" /\ busy' = [busy EXCEPT ![SymbolOf(o)] = None]
  BY DEF ResolveStep, StepStates, SideOf, Orders

(* UpdateFlattenStep: a row is written whole or keeps what it had, so it says  *)
(* what happened to its order.                                                *)
LEMMA UpdateIsTrue ==
    ASSUME TypeOK, DoneMeansGone, NEW o \in Orders, NEW state \in StepStates,
           UpdateStep(o, state), state = "DONE" => bk[o] = "canceled", bk' = bk
    PROVE  /\ DoneMeansGone' /\ cancel' \in [Orders -> StepStates \cup {None}]
           /\ faults' \in 0..MaxFaults
  <1>1. cancel' = [cancel EXCEPT ![o] = state] \/ cancel' = cancel
    BY DEF UpdateStep
  <1>2. cancel \in [Orders -> StepStates \cup {None}]
    BY DEF TypeOK
  <1>3. DoneMeansGone' /\ cancel' \in [Orders -> StepStates \cup {None}]
    BY <1>1, <1>2 DEF DoneMeansGone
  <1>4. faults' \in 0..MaxFaults
    BY DEF UpdateStep, TypeOK
  <1> QED BY <1>3, <1>4

(* The row of a sale, written or passed over. *)
LEMMA RowShape ==
    ASSUME TypeOK, NEW s \in Symbols, NEW state \in StepStates, round \in 1..Rounds,
           liq' = [liq EXCEPT ![s][round] = state] \/ UNCHANGED liq
    PROVE  liq' \in [Symbols -> [1..Rounds -> StepStates \cup {None}]]
  <1>1. liq \in [Symbols -> [1..Rounds -> StepStates \cup {None}]]
    BY DEF TypeOK
  <1>2. CASE liq' = [liq EXCEPT ![s][round] = state]
    BY <1>1, <1>2
  <1> QED BY <1>1, <1>2

(* sell: nothing leaves unless the symbol has no unsettled attempt, and a sell *)
(* whose answer is lost keeps it from there on.                               *)
LEMMA PlaceShape ==
    ASSUME NEW s \in Symbols, NEW state, NEW before, GatewayPlace(s, state, before)
    PROVE  \/ UNCHANGED <<selling, flight, busy>>
           \/ /\ Free(s) /\ selling' = [selling EXCEPT ![s] = @ + plan[s]]
              /\ UNCHANGED <<flight, busy>>
           \/ /\ Free(s)
              /\ flight' = flight \/ flight' = [flight EXCEPT ![s] = plan[s]]
              /\ busy' = [busy EXCEPT ![s] = "SALE"] /\ UNCHANGED selling
  BY DEF GatewayPlace

(* What a sale does to the account and the journal keeps the types. *)
LEMMA PlaceKeepsTypes ==
    ASSUME TypeOK, MoreTypes, NEW s \in Symbols, NEW state, NEW before \in Nat,
           GatewayPlace(s, state, before), plan[s] > 0
    PROVE  /\ selling' \in [Symbols -> Nat] /\ flight' \in [Symbols -> Nat]
           /\ busy' \in [Symbols -> {None, "BUY", "SELL", "SALE"}]
           /\ faults' \in 0..MaxFaults
  <1>1. /\ plan[s] \in Nat /\ selling \in [Symbols -> Nat] /\ flight \in [Symbols -> Nat]
        /\ busy \in [Symbols -> {None, "BUY", "SELL", "SALE"}] /\ faults \in 0..MaxFaults
    BY DEF TypeOK, MoreTypes
  <1>2. selling' \in [Symbols -> Nat] /\ flight' \in [Symbols -> Nat]
        /\ busy' \in [Symbols -> {None, "BUY", "SELL", "SALE"}]
    BY <1>1, PlaceShape
  <1>3. faults' \in 0..MaxFaults
    BY <1>1 DEF GatewayPlace
  <1> QED BY <1>2, <1>3

(* CancelAll (flatten.go): a step that settles a cancel writes what happened  *)
(* to its order.                                                              *)
LEMMA CancelStepsKeepTypes ==
    ASSUME FlattenTypes, CancelsAnswered, UNCHANGED setup,
           CancelAll \/ Cancelling \/ NothingToSell
    PROVE  FlattenTypes' /\ CancelsAnswered'
  <1> USE DEF FlattenTypes, TypeOK, MoreTypes, BuysOnce, CancelsAnswered, DoneMeansGone,
              OutcomeIsTrue, TargetsAnswered, HeldOut, Unsettled, StepStates
  <1>o. \A s \in Symbols : OrdersOf(s) \subseteq Orders
    BY DEF OrdersOf
  <1>1. CASE CancelAll
    BY <1>o, <1>1 DEF CancelAll, OpenSaga
  <1>2. CASE Enumerate
    BY <1>o, <1>2 DEF Enumerate, AddSteps, OpenOrders
  <1>3. CASE RecordCancel
    <2>1. left' = {} /\ pc = "record" /\ pc' = "cancel"
          /\ UNCHANGED <<account, phase, liq, dry, todo, left, round, snap, plan, latest>>
      BY <1>3 DEF RecordCancel
    <2>2. PICK o \in asked, state \in StepStates :
             /\ \/ answer # "IN_DOUBT" /\ state = answer /\ UNCHANGED busy
                \/ answer = "IN_DOUBT" /\ ResolveStep(o, state)
             /\ UpdateStep(o, state)
      BY <1>3 DEF RecordCancel
    <2>3. o \in Orders /\ (state = "DONE" => bk[o] = "canceled")
      BY <2>1, <2>2, ResolveShape
    <2>4. bk' = bk
      BY <2>1
    <2>5. /\ DoneMeansGone' /\ cancel' \in [Orders -> StepStates \cup {None}]
          /\ faults' \in 0..MaxFaults
      BY <2>2, <2>3, <2>4, UpdateIsTrue
    <2>6. busy' \in [Symbols -> {None, "BUY", "SELL", "SALE"}]
      BY <2>2, <2>3, ResolveShape
    <2> QED BY <2>1, <2>5, <2>6
  <1>4. CASE CancelledAll
    BY <1>o, <1>4 DEF CancelledAll
  <1>5. CASE NothingToSell
    BY <1>o, <1>5 DEF NothingToSell, Ended
  <1>6. ASSUME NEW o \in Orders, SkipStep(o) PROVE FlattenTypes' /\ CancelsAnswered'
    BY <1>o, <1>6 DEF SkipStep
  <1>7. ASSUME NEW o \in Orders, LookAgain(o) PROVE FlattenTypes' /\ CancelsAnswered'
    <2>1. left' = {} /\ pc = "cancel" /\ todo' \subseteq todo
          /\ UNCHANGED <<account, phase, liq, pc, dry, left, asked, answer, round, snap, plan, latest>>
      BY <1>7 DEF LookAgain
    <2>2. PICK state \in StepStates : ResolveStep(o, state) /\ UpdateStep(o, state)
      BY <1>7 DEF LookAgain
    <2>3. state = "DONE" => bk[o] = "canceled"
      BY <2>2, ResolveShape
    <2>4. bk' = bk
      BY <2>1
    <2>5. /\ DoneMeansGone' /\ cancel' \in [Orders -> StepStates \cup {None}]
          /\ faults' \in 0..MaxFaults
      BY <2>2, <2>3, <2>4, UpdateIsTrue
    <2>6. busy' \in [Symbols -> {None, "BUY", "SELL", "SALE"}]
      BY <2>2, ResolveShape
    <2> QED BY <2>1, <2>5, <2>6
  <1>8. ASSUME NEW o \in Orders, SubmitCancel(o) PROVE FlattenTypes' /\ CancelsAnswered'
    <2>1. left' = {} /\ pc' = "record" /\ asked' = {o} /\ todo' \subseteq Orders
          /\ UNCHANGED <<holding, selling, flight, raced, rows, dry, left, round, snap, plan, latest>>
      BY <1>8 DEF SubmitCancel, ToSubmit
    <2>2. PICK state \in {None, "CONFIRMED", "FAILED_CONFIRMED", "NOT_DISPATCHED", "IN_DOUBT"} :
             GatewayCancel(o, state) /\ answer' = ClassifyCancel(state)
      BY <1>8 DEF SubmitCancel
    <2>3. answer' \in StepStates /\ (answer' = "DONE" => state = "CONFIRMED")
      BY <2>2 DEF ClassifyCancel
    <2>4. /\ faults' \in 0..MaxFaults
          /\ bk' \in [Orders -> {"none", "live", "filled", "canceled"}]
      BY <1>8, <2>2 DEF GatewayCancel
    <2>8. SideOf(o) \in {"BUY", "SELL"}
      BY DEF SideOf, Orders
    <2>9. busy' \in [Symbols -> {None, "BUY", "SELL", "SALE"}]
      BY <2>2, <2>8 DEF GatewayCancel
    <2>5. \A x \in Orders : /\ bk[x] = "canceled" => bk'[x] = "canceled"
                            /\ bk'[x] = "filled" <=> bk[x] = "filled"
      BY <2>2 DEF GatewayCancel
    <2>6. state = "CONFIRMED" => bk'[o] = "canceled"
      BY <2>2 DEF GatewayCancel
    <2>7. \A s \in Symbols : Buying(s) \in Orders
      BY LiveSellsCount
    <2> HIDE DEF GatewayCancel, Buying
    <2> QED BY <2>1, <2>3, <2>4, <2>5, <2>6, <2>7, <2>9
  <1> QED BY <1>1, <1>2, <1>3, <1>4, <1>5, <1>6, <1>7, <1>8 DEF Cancelling

(* planLiquidation: what is planned for sale is covered by the position and   *)
(* by what is sellable, and no cancel of the symbol is unanswered.            *)
LEMMA PlannedIsSellable ==
    ASSUME TypeOK, MoreTypes
    PROVE  \A s \in Symbols :
              /\ Target(s) \in Int
              /\ Target(s) > 0 => ~HeldOut(s) /\ LiveSells(s) + Target(s) <= holding[s]
  <1>1. TAKE s \in Symbols
  <1>2. LiveSells(s) \in Int
    BY LiveSellsCount DEF MoreTypes, Live
  <1> QED BY <1>2 DEF Target, Sized, Sellable, MoreTypes

(* Liquidate (liquidate.go): a target comes from the plan and from no other step. *)
LEMMA SellStepsKeepTypes ==
    ASSUME FlattenTypes, CancelsAnswered, UNCHANGED setup, Liquidating
    PROVE  FlattenTypes' /\ CancelsAnswered'
  <1> USE DEF FlattenTypes, TypeOK, MoreTypes, BuysOnce, CancelsAnswered, DoneMeansGone,
              OutcomeIsTrue, TargetsAnswered, HeldOut, Unsettled, StepStates
  <1>o. \A s \in Symbols : OrdersOf(s) \subseteq Orders
    BY DEF OrdersOf
  <1>1. CASE Confirmed
    BY <1>o, <1>1 DEF Confirmed
  <1>2. CASE Stabilise
    BY <1>o, <1>2 DEF Stabilise
  <1>3. CASE PlanLiquidation
    <2>1. \A s \in Symbols : Target(s) \in Int /\ (Target(s) > 0 => ~HeldOut(s))
      BY PlannedIsSellable
    <2>2. PICK unread \in SUBSET Symbols :
             /\ Faults(Cardinality(unread))
             /\ plan' = [s \in Symbols |-> IF s \in unread THEN 0 ELSE Target(s)]
      BY <1>3 DEF PlanLiquidation
    <2>3. /\ left' = {s \in Symbols : Target(s) >= 0}
          /\ (left' # {} => pc' = "sell") /\ pc' \in {"verify", "sell"} /\ pc = "plan"
          /\ phase' \in {"VERIFYING", "LIQUIDATING"}
          /\ UNCHANGED <<account, busy, cancel, liq, dry, todo, asked, answer, round, snap, latest>>
      BY <1>3 DEF PlanLiquidation
    <2>4. Cardinality(unread) \in Nat
      BY FS_Subset, FS_CardinalityType
    <2>5. faults' \in 0..MaxFaults
      BY <2>2, <2>4
    <2> HIDE DEF Target
    <2> QED BY <2>1, <2>2, <2>3, <2>5
  <1>4. CASE RecordSell
    <2>1. pc = "sold" /\ pc' = "sell" /\ round \in 1..Rounds
          /\ UNCHANGED <<account, busy, phase, cancel, dry, todo, left, round, snap, plan>>
      BY <1>4 DEF RecordSell
    <2>2. PICK s \in Symbols : UpdateRow(s, answer)
      BY <1>4, <2>1 DEF RecordSell
    <2>3. answer \in StepStates
      BY <2>1
    <2>4. liq' \in [Symbols -> [1..Rounds -> StepStates \cup {None}]]
      <3> HIDE DEF FlattenTypes, TypeOK, StepStates
      <3>1. liq' = [liq EXCEPT ![s][round] = answer] \/ UNCHANGED liq
        BY <2>2 DEF UpdateRow
      <3> QED BY <2>1, <2>3, <3>1, RowShape DEF FlattenTypes
    <2>5. faults' \in 0..MaxFaults
      BY <2>2 DEF UpdateRow
    <2> QED BY <2>1, <2>4, <2>5
  <1>5. CASE NextRound
    BY <1>o, <1>5 DEF NextRound
  <1>6. CASE Verify
    BY <1>o, <1>6 DEF Verify, Ended
  <1>7. ASSUME NEW s \in Symbols, SellNothing(s) PROVE FlattenTypes' /\ CancelsAnswered'
    <2>1. pc = "sell" /\ left' \subseteq left /\ round \in 1..Rounds
          /\ UNCHANGED <<account, busy, phase, cancel, pc, dry, todo, asked, answer, round, snap,
                         plan>>
      BY <1>7 DEF SellNothing
    <2>2. LiquidationStep(s) \in StepStates
      BY <2>1 DEF LiquidationStep
    <2>3. PICK st \in StepStates : UpdateRow(s, st)
      BY <1>7, <2>2 DEF SellNothing
    <2>4. liq' \in [Symbols -> [1..Rounds -> StepStates \cup {None}]]
      <3> HIDE DEF FlattenTypes, TypeOK, StepStates
      <3>1. liq' = [liq EXCEPT ![s][round] = st] \/ UNCHANGED liq
        BY <2>3 DEF UpdateRow
      <3> QED BY <2>1, <3>1, RowShape DEF FlattenTypes
    <2>5. faults' \in 0..MaxFaults
      BY <2>3 DEF UpdateRow
    <2> QED BY <2>1, <2>4, <2>5
  <1>8. ASSUME NEW s \in Symbols, SubmitSell(s) PROVE FlattenTypes' /\ CancelsAnswered'
    <2>1. pc = "sell" /\ pc' = "sold" /\ left' \subseteq left /\ asked' = {s} /\ plan[s] > 0
          /\ UNCHANGED <<bk, holding, raced, phase, cancel, dry, todo, round, snap, plan, latest>>
      BY <1>8 DEF SubmitSell, ToSell, Planned
    <2>2. LiquidationStep(s) \in StepStates
      BY <2>1 DEF LiquidationStep
    <2>3. liq' \in [Symbols -> [1..Rounds -> StepStates \cup {None}]]
      BY <1>8, <2>1, <2>2 DEF SubmitSell
    <2>4. PICK state \in SaleStates : GatewayPlace(s, state, 0) /\ answer' = state
      BY <1>8 DEF SubmitSell
    <2>5. /\ selling' \in [Symbols -> Nat] /\ flight' \in [Symbols -> Nat]
          /\ busy' \in [Symbols -> {None, "BUY", "SELL", "SALE"}]
          /\ faults' \in 0..MaxFaults
      BY <2>1, <2>4, PlaceKeepsTypes
    <2>6. answer' \in StepStates
      BY <2>4 DEF SaleStates
    <2> QED BY <2>1, <2>3, <2>5, <2>6
  <1>9. ASSUME NEW s \in Symbols, SellNoMore(s) PROVE FlattenTypes' /\ CancelsAnswered'
    BY <1>o, <1>9 DEF SellNoMore, ToSell
  <1> QED BY <1>1, <1>2, <1>3, <1>4, <1>5, <1>6, <1>7, <1>8, <1>9 DEF Liquidating

(* A refusal or a crash leaves no target behind, and its rows tell the truth. *)
LEMMA FailuresKeepTypes ==
    ASSUME FlattenTypes, CancelsAnswered, UNCHANGED setup, Failing
    PROVE  FlattenTypes' /\ CancelsAnswered'
  <1> USE DEF FlattenTypes, TypeOK, MoreTypes, BuysOnce, CancelsAnswered, DoneMeansGone,
              OutcomeIsTrue, TargetsAnswered, HeldOut, Unsettled, StepStates
  <1>o. \A s \in Symbols : OrdersOf(s) \subseteq Orders
    BY DEF OrdersOf
  <1>1. CASE EnumerateFails
    BY <1>o, <1>1 DEF EnumerateFails, Ended, AddSteps, OpenOrders
  <1>2. CASE LiquidateFails
    BY <1>o, <1>2 DEF LiquidateFails, Ended
  <1>3. CASE Crash
    BY <1>o, <1>3 DEF Crash, Ended
  <1>4. ASSUME NEW o \in Orders, CancelDecisionFails(o) PROVE FlattenTypes' /\ CancelsAnswered'
    <2>1. /\ left' = {} /\ pc = "cancel" /\ todo' \subseteq todo /\ faults' \in 0..MaxFaults
          /\ UNCHANGED <<account, busy, phase, liq, pc, dry, left, asked, answer, round, snap, plan,
                         latest>>
      BY <1>4 DEF CancelDecisionFails, ToSubmit
    <2>2. cancel' = [cancel EXCEPT ![o] = "FAILED"] \/ cancel' = cancel
      BY <1>4 DEF CancelDecisionFails
    <2>3. DoneMeansGone' /\ cancel' \in [Orders -> StepStates \cup {None}]
      BY <2>1, <2>2
    <2> QED BY <2>1, <2>3
  <1>5. ASSUME NEW s \in Symbols, SellDecisionFails(s) PROVE FlattenTypes' /\ CancelsAnswered'
    <2>1. /\ pc = "sell" /\ left' \subseteq left /\ round \in 1..Rounds
          /\ UNCHANGED <<account, busy, phase, cancel, pc, dry, todo, asked, answer, round, snap,
                         plan>>
          /\ faults' \in 0..MaxFaults
      BY <1>5 DEF SellDecisionFails, ToSell
    <2>2. LiquidationStep(s) \in StepStates
      BY <2>1 DEF LiquidationStep
    <2>w. \/ liq' = [liq EXCEPT ![s][round] = "FAILED"]
          \/ liq' = [liq EXCEPT ![s][round] = LiquidationStep(s)]
          \/ UNCHANGED liq
      BY <1>5 DEF SellDecisionFails
    <2>3. liq' \in [Symbols -> [1..Rounds -> StepStates \cup {None}]]
      BY <2>1, <2>2, <2>w, RowShape
    <2> QED BY <2>1, <2>3
  <1>6. ASSUME NEW s \in Symbols, SellUnrecorded(s) PROVE FlattenTypes' /\ CancelsAnswered'
    <2>1. pc = "sell" /\ left' \subseteq left /\ plan[s] > 0
          /\ UNCHANGED <<bk, holding, raced, rows, pc, dry, todo, asked, answer, round, snap, plan>>
      BY <1>6 DEF SellUnrecorded, ToSell, Planned
    <2>2. PICK state \in SaleStates : GatewayPlace(s, state, 1)
      BY <1>6 DEF SellUnrecorded
    <2>3. /\ selling' \in [Symbols -> Nat] /\ flight' \in [Symbols -> Nat]
          /\ busy' \in [Symbols -> {None, "BUY", "SELL", "SALE"}]
          /\ faults' \in 0..MaxFaults
      BY <2>1, <2>2, PlaceKeepsTypes
    <2> QED BY <2>1, <2>3
  <1> QED BY <1>1, <1>2, <1>3, <1>4, <1>5, <1>6 DEF Failing

(* The types and the answers, over every step of the command and the account. *)
LEMMA FlattenTypesStep ==
    ASSUME FlattenTypes, CancelsAnswered, [Next]_<<vars, setup>>
    PROVE  FlattenTypes' /\ CancelsAnswered'
  <1>1. CASE Next
    BY <1>1, AccountKeepsTypes, CancelStepsKeepTypes, SellStepsKeepTypes, FailuresKeepTypes DEF Next
  <1>2. CASE UNCHANGED <<vars, setup>>
    BY <1>2 DEF vars, FlattenTypes, TypeOK, MoreTypes, BuysOnce, CancelsAnswered, DoneMeansGone,
                OutcomeIsTrue, TargetsAnswered, HeldOut
  <1> QED BY <1>1, <1>2

(* An account that is at rest has nothing of the saga's in it. *)
LEMMA FlattenTypesInit ==
    ASSUME Init
    PROVE  FlattenTypes /\ CancelsAnswered
  <1>1. PICK shares \in [Symbols -> Nat] : shares = setup.shares
    BY SharesAreCounted DEF Init
  <1>2. \A s \in Symbols : Buying(s) \in Orders
    BY LiveSellsCount
  <1>3. holding = shares /\ bk \in [Orders -> {"none", "live", "filled", "canceled"}]
    BY <1>1 DEF Init
  <1>4. BuysOnce
    BY <1>1, <1>3 DEF BuysOnce
  <1>5. \A s \in Symbols : holding[s] \in 0..(setup.shares[s] + 1)
    BY <1>1, <1>3
  <1>6. TypeOK /\ MoreTypes
    BY <1>1, <1>3, <1>5 DEF Init, TypeOK, MoreTypes
  <1>7. CancelsAnswered
    BY DEF Init, CancelsAnswered, DoneMeansGone, OutcomeIsTrue, TargetsAnswered
  <1> QED BY <1>4, <1>6, <1>7 DEF FlattenTypes

(* The types and the answers hold in every state the command reaches. *)
LEMMA FlattenTypesHold == Spec => [](FlattenTypes /\ CancelsAnswered)
  <1>1. Init => FlattenTypes /\ CancelsAnswered
    BY FlattenTypesInit
  <1>2. FlattenTypes /\ CancelsAnswered /\ [Next]_<<vars, setup>>
        => FlattenTypes' /\ CancelsAnswered'
    BY FlattenTypesStep
  <1> QED BY <1>1, <1>2, PTL DEF Spec

(* Only a target that is left is sold, and what it adds is what was planned.  *)
LEMMA SellingRises ==
    ASSUME FlattenTypes, Next, NEW s \in Symbols,
           selling'[s] + flight'[s] > selling[s] + flight[s]
    PROVE  s \in left /\ plan[s] > 0
  <1> USE DEF FlattenTypes, MoreTypes
  <1>1. CASE Account
    <2>1. CASE UNCHANGED <<selling, flight>>
      BY <2>1
    <2>2. PICK x \in Symbols : SagaSellFills(x) \/ FlightLands(x)
      BY <1>1, <2>1 DEF Account, RestingFill, EngineOrder
    <2>3. selling[s] \in Nat /\ flight[s] \in Nat
      OBVIOUS
    <2>4. \/ selling'[s] \in {selling[s], selling[s] - 1} /\ flight'[s] = flight[s]
          \/ selling'[s] \in {selling[s], selling[s] + flight[s]} /\ flight'[s] \in {0, flight[s]}
             /\ (selling'[s] # selling[s] => flight'[s] = 0)
      BY <2>2 DEF SagaSellFills, FlightLands
    <2> QED BY <2>3, <2>4
  <1>2. CASE CancelAll \/ Cancelling \/ NothingToSell
    <2>1. UNCHANGED <<selling, flight>>
      BY <1>2 DEF CancelAll, NothingToSell, Cancelling, Enumerate, RecordCancel, CancelledAll, SkipStep,
                  LookAgain, SubmitCancel
    <2> QED BY <2>1
  <1>3. CASE Liquidating \/ Failing
    <2>1. PICK x \in Symbols : SubmitSell(x) \/ SellUnrecorded(x)
      BY <1>3 DEF Liquidating, Confirmed, Stabilise, PlanLiquidation, RecordSell, NextRound, Verify,
                  SellNothing, SellNoMore, Failing, EnumerateFails, LiquidateFails, Crash,
                  CancelDecisionFails, SellDecisionFails
    <2>2. x \in left /\ plan[x] > 0
      BY <2>1 DEF SubmitSell, SellUnrecorded, ToSell, Planned
    <2>3. PICK state, before : GatewayPlace(x, state, before)
      BY <2>1 DEF SubmitSell, SellUnrecorded
    <2>4. x = s
      BY <2>3, PlaceShape
    <2> QED BY <2>2, <2>4
  <1> QED BY <1>1, <1>2, <1>3 DEF Next

(* planLiquidation, for every account and schedule: when a symbol is sold, an *)
(* order of it that is still live is one the saga never saw or one whose      *)
(* cancel was definitely refused.                                             *)
THEOREM SalesFollowAnswers == Spec => SellsOverAnswered
  <1>1. ASSUME FlattenTypes, CancelsAnswered, Next, NEW s \in Symbols,
               selling'[s] + flight'[s] > selling[s] + flight[s],
               NEW o \in OrdersOf(s), bk[o] = "live"
        PROVE  cancel[o] \in {None, "FAILED"}
    <2>1. s \in left /\ plan[s] > 0
      BY <1>1, SellingRises
    <2>2. o \in Orders /\ cancel[o] \notin Unsettled
      BY <1>1, <2>1 DEF CancelsAnswered, TargetsAnswered, HeldOut, OrdersOf
    <2> QED BY <1>1, <2>2 DEF CancelsAnswered, DoneMeansGone, FlattenTypes, TypeOK, Unsettled, StepStates
  <1>2. FlattenTypes /\ CancelsAnswered /\ [Next]_<<vars, setup>>
        => [\A s \in Symbols :
               selling'[s] + flight'[s] > selling[s] + flight[s]
               => \A o \in OrdersOf(s) : bk[o] = "live" => cancel[o] \in {None, "FAILED"}]_vars
    BY <1>1 DEF vars
  <1> QED BY <1>2, FlattenTypesHold, PTL DEF Spec, SellsOverAnswered

-----------------------------------------------------------------------------
(* No oversell, whatever an engine places beside the saga: its sell is sized  *)
(* from what is sellable, and one that it places between the plan of a symbol  *)
(* and its sale, which makes the planned quantity stale, is counted in raced.  *)

(* The bound in terms of the count of a symbol's one resting sell. *)
Load(s) == selling[s] + Live(bk, s)

Covered ==
    /\ \A s \in Symbols : Load(s) + flight[s] <= holding[s] + raced[s]
    /\ FlightIsBusy
    /\ \A s \in left :
          plan[s] > 0 => busy[s] = "SALE" \/ Load(s) + plan[s] <= holding[s] + raced[s]

(* Covered is SellsCovered with the resting sells counted. *)
LEMMA CoveredMeans ==
    ASSUME left \subseteq Symbols
    PROVE  Covered <=> SellsCovered
  <1>1. \A s \in Symbols : LiveSells(s) = Load(s)
    BY LiveSellsCount DEF Load
  <1> QED BY <1>1 DEF Covered, SellsCovered, PlanIsCovered, NoOversell

(* A step that adds no order and sells nothing keeps what is left covered.    *)
LEMMA CoveredFrame ==
    ASSUME FlattenTypes, Covered, UNCHANGED <<holding, selling, flight, raced>>,
           left' \subseteq left, left' = {} \/ plan' = plan,
           \A s \in Symbols : bk'[Selling(s)] = "live" => bk[Selling(s)] = "live",
           \A s \in Symbols : busy[s] = "SALE" => busy'[s] = "SALE"
    PROVE  Covered'
  <1> USE DEF FlattenTypes, TypeOK, MoreTypes
  <1>1. \A s \in Symbols : Load(s)' <= Load(s) /\ Load(s) \in Nat /\ Load(s)' \in Nat
    BY DEF Load, Live
  <1> QED BY <1>1 DEF Covered, FlightIsBusy

(* The account: a fill takes from the book what it takes from the position,   *)
(* and a sell that lands was already counted.                                 *)
LEMMA AccountKeepsCover ==
    ASSUME FlattenTypes, Covered, Account
    PROVE  Covered'
  <1> USE DEF FlattenTypes, TypeOK, MoreTypes
  <1>0. UNCHANGED <<busy, rows, memory, faults>>
    BY DEF Account
  <1>f. /\ bk \in [Orders -> {"none", "live", "filled", "canceled"}]
        /\ holding \in [Symbols -> Nat] /\ selling \in [Symbols -> Nat]
        /\ flight \in [Symbols -> Nat] /\ plan \in [Symbols -> Int] /\ left \subseteq Symbols
        /\ raced \in [Symbols -> Nat]
    OBVIOUS
  <1>o. \A s \in Symbols : Selling(s) \in Orders
    BY LiveSellsCount
  <1> HIDE DEF FlattenTypes, TypeOK, MoreTypes
  <1>1. ASSUME NEW o \in Orders, RestingFill(o) PROVE Covered'
    <2>1. SymbolOf(o) \in Symbols /\ (SideOf(o) = "SELL" <=> o = Selling(SymbolOf(o)))
          /\ SideOf(o) \in {"BUY", "SELL"} /\ \A s \in Symbols : s # SymbolOf(o) => o # Selling(s)
      BY DEF Orders, SymbolOf, SideOf, Selling
    <2>2. UNCHANGED <<selling, flight, raced>> /\ bk[o] = "live"
          /\ bk' = [bk EXCEPT ![o] = "filled"] /\ (SideOf(o) = "SELL" => holding[SymbolOf(o)] > 0)
          /\ holding' = [holding EXCEPT ![SymbolOf(o)] = IF SideOf(o) = "BUY" THEN holding[SymbolOf(o)] + 1 ELSE holding[SymbolOf(o)] - 1]
      BY <1>1 DEF RestingFill
    <2>3. ASSUME NEW s \in Symbols
          PROVE  /\ Load(s) \in Nat /\ Load(s)' \in Nat /\ holding'[s] \in Int
                 /\ holding'[s] - Load(s)' >= holding[s] - Load(s)
      <3>1. CASE s # SymbolOf(o)
        BY <1>f, <1>o, <2>1, <2>2, <3>1 DEF Load, Live
      <3>2. CASE s = SymbolOf(o) /\ SideOf(o) = "BUY"
        BY <1>f, <1>o, <2>1, <2>2, <3>2 DEF Load, Live
      <3>3. CASE s = SymbolOf(o) /\ SideOf(o) = "SELL"
        BY <1>f, <1>o, <2>1, <2>2, <3>3 DEF Load, Live
      <3> QED BY <2>1, <3>1, <3>2, <3>3
    <2> QED BY <1>0, <1>f, <2>2, <2>3 DEF Covered, FlightIsBusy
  <1>2. ASSUME NEW o \in Orders, EngineOrder(o) PROVE Covered'
    <2> DEFINE s == SymbolOf(o)
    <2>1. s \in Symbols /\ SideOf(o) \in {"BUY", "SELL"} /\ (SideOf(o) = "SELL" <=> o = Selling(s))
          /\ \A x \in Symbols : x # s => o # Selling(x)
      BY DEF Orders, SymbolOf, SideOf, Selling
    <2>2. /\ bk' = [bk EXCEPT ![o] = "live"] /\ UNCHANGED <<holding, selling, flight>>
          /\ Free(s) /\ (SideOf(o) = "SELL" => holding[s] > LiveSells(s))
          /\ raced' = IF SideOf(o) = "SELL" /\ Planned(s) THEN [raced EXCEPT ![s] = raced[s] + 1] ELSE raced
      BY <1>2 DEF EngineOrder
    <2>3. LiveSells(s) = Load(s)
      BY <2>1, LiveSellsCount DEF Load
    <2>4. flight[s] = 0
      BY <1>f, <2>1, <2>2 DEF Covered, FlightIsBusy
    <2>5. \A x \in Symbols : Load(x) \in Nat /\ Load(x)' \in Nat
      BY <1>f, <2>2 DEF Load, Live
    <2>6. \A x \in Symbols \ {s} : Load(x)' = Load(x) /\ raced'[x] = raced[x]
      BY <1>f, <1>o, <2>1, <2>2 DEF Load, Live
    <2>7. CASE SideOf(o) = "BUY"
      <3>1. \A x \in Symbols : Load(x)' = Load(x)
        BY <1>f, <1>o, <2>1, <2>2, <2>7 DEF Load, Live
      <3> QED BY <1>0, <1>f, <2>2, <2>7, <3>1 DEF Covered, FlightIsBusy
    <2>8. CASE SideOf(o) = "SELL"
      <3>1. Load(s)' <= Load(s) + 1 /\ Load(s) < holding[s]
        BY <1>f, <1>o, <2>1, <2>2, <2>3, <2>8 DEF Load, Live
      <3>2. raced'[s] = IF Planned(s) THEN raced[s] + 1 ELSE raced[s]
        BY <1>f, <2>1, <2>2, <2>8
      <3> HIDE DEF s, Load
      <3>3. Load(s)' + flight'[s] <= holding'[s] + raced'[s]
        BY <1>f, <2>1, <2>2, <2>4, <2>5, <3>1, <3>2
      <3>4. s \in left /\ plan[s] > 0
            => busy'[s] = "SALE" \/ Load(s)' + plan[s] <= holding'[s] + raced'[s]
        BY <1>0, <1>f, <2>1, <2>2, <2>5, <3>1, <3>2 DEF Covered, Planned
      <3> QED BY <1>0, <1>f, <2>2, <2>5, <2>6, <3>3, <3>4 DEF Covered, FlightIsBusy
    <2> QED BY <2>1, <2>7, <2>8
  <1>3. ASSUME NEW s \in Symbols, SagaSellFills(s) PROVE Covered'
    <2>1. \A x \in Symbols : /\ Load(x) \in Nat /\ Load(x)' \in Nat /\ holding'[x] \in Int
                             /\ holding'[x] - Load(x)' = holding[x] - Load(x)
      BY <1>3, <1>f DEF SagaSellFills, Load, Live
    <2>2. UNCHANGED <<flight, raced>>
      BY <1>3 DEF SagaSellFills
    <2> QED BY <1>0, <1>f, <2>1, <2>2 DEF Covered, FlightIsBusy
  <1>4. ASSUME NEW s \in Symbols, FlightLands(s) PROVE Covered'
    <2>1. \A x \in Symbols : /\ Load(x) \in Nat /\ Load(x)' \in Nat /\ flight'[x] \in Nat
                             /\ Load(x)' + flight'[x] = Load(x) + flight[x]
                             /\ (flight'[x] # flight[x] => flight[x] > 0 /\ flight'[x] = 0)
      BY <1>4, <1>f DEF FlightLands, Load, Live
    <2>2. UNCHANGED <<holding, raced>>
      BY <1>4 DEF FlightLands
    <2> QED BY <1>0, <1>f, <2>1, <2>2 DEF Covered, FlightIsBusy
  <1> QED BY <1>1, <1>2, <1>3, <1>4 DEF Account

(* A cancel that is looked at again never frees the symbol of a sale.         *)
LEMMA CancelStepsKeepCover ==
    ASSUME FlattenTypes, CancelsAnswered, Covered, CancelAll \/ Cancelling \/ NothingToSell
    PROVE  Covered'
  <1> DEFINE Quiet == /\ UNCHANGED <<holding, selling, flight, raced>>
                      /\ left' \subseteq left /\ (left' = {} \/ plan' = plan)
             Book == \A s \in Symbols : bk'[Selling(s)] = "live" => bk[Selling(s)] = "live"
             Sales == \A s \in Symbols : busy[s] = "SALE" => busy'[s] = "SALE"
  <1>f. bk \in [Orders -> {"none", "live", "filled", "canceled"}] /\ todo \subseteq Orders
        /\ busy \in [Symbols -> {None, "BUY", "SELL", "SALE"}]
    BY DEF FlattenTypes, TypeOK
  <1>1. Quiet
    BY DEF CancelAll, NothingToSell, Ended, Cancelling, Enumerate, RecordCancel, CancelledAll,
           SkipStep, LookAgain, SubmitCancel
  <1>2. ASSUME NEW o \in Orders, SubmitCancel(o) PROVE Book /\ Sales
    <2>1. PICK state : GatewayCancel(o, state)
      BY <1>2 DEF SubmitCancel
    <2>2. \A s \in Symbols : Selling(s) \in Orders
      BY LiveSellsCount
    <2>3. Book
      BY <1>f, <2>1, <2>2 DEF GatewayCancel
    <2>4. Sales
      BY <1>f, <2>1 DEF GatewayCancel
    <2> QED BY <2>3, <2>4
  <1>3. ASSUME NEW o \in Orders, LookAgain(o) PROVE Book /\ Sales
    <2>1. UNCHANGED bk /\ \E state : ResolveStep(o, state)
      BY <1>3 DEF LookAgain
    <2> QED BY <1>f, <2>1, ResolveShape
  <1>4. CASE RecordCancel
    <2>1. UNCHANGED bk /\ pc = "record"
      BY <1>4 DEF RecordCancel
    <2>2. PICK o \in Orders : UNCHANGED busy \/ \E state : ResolveStep(o, state)
      BY <1>4, <2>1 DEF RecordCancel, CancelsAnswered, OutcomeIsTrue
    <2> QED BY <1>f, <1>1, <2>1, <2>2, ResolveShape, CoveredFrame
  <1>5. CASE CancelAll \/ NothingToSell \/ Enumerate \/ CancelledAll \/ \E o \in Orders : SkipStep(o)
    <2>1. UNCHANGED <<bk, busy>>
      BY <1>5 DEF CancelAll, NothingToSell, Enumerate, CancelledAll, SkipStep
    <2> QED BY <1>1, <2>1, CoveredFrame
  <1> QED BY <1>1, <1>2, <1>3, <1>4, <1>5, CoveredFrame DEF Cancelling

(* planLiquidation covers a target when it is planned, and sell sends it at    *)
(* most once, to a symbol of which nothing is unsettled.                       *)
LEMMA SellStepsKeepCover ==
    ASSUME FlattenTypes, CancelsAnswered, Covered, Liquidating \/ Failing
    PROVE  Covered'
  <1>f. /\ bk \in [Orders -> {"none", "live", "filled", "canceled"}]
        /\ holding \in [Symbols -> Nat] /\ selling \in [Symbols -> Nat]
        /\ flight \in [Symbols -> Nat] /\ plan \in [Symbols -> Int] /\ left \subseteq Symbols
        /\ busy \in [Symbols -> {None, "BUY", "SELL", "SALE"}] /\ raced \in [Symbols -> Nat]
    BY DEF FlattenTypes, TypeOK, MoreTypes
  <1>1. CASE PlanLiquidation
    <2>1. UNCHANGED <<account, busy>> /\ left' \subseteq Symbols
          /\ \A s \in Symbols : plan'[s] \in {0, Target(s)}
      BY <1>1 DEF PlanLiquidation
    <2>2. \A s \in Symbols : Target(s) > 0 => Load(s) + Target(s) <= holding[s]
      BY PlannedIsSellable, LiveSellsCount DEF FlattenTypes, Load
    <2>3. \A s \in Symbols : Load(s)' = Load(s) /\ Load(s) \in Nat
      BY <1>f, <2>1 DEF Load, Live
    <2>4. \A s \in Symbols : Target(s) \in Int
      BY PlannedIsSellable DEF FlattenTypes
    <2>5. \A s \in Symbols : plan'[s] > 0 => Load(s)' + plan'[s] <= holding[s] + raced[s]
      <3>1. TAKE s \in Symbols
      <3> HIDE DEF Target
      <3>2. /\ Load(s) \in Nat /\ Load(s)' = Load(s) /\ plan'[s] \in {0, Target(s)}
            /\ Target(s) \in Int /\ (Target(s) > 0 => Load(s) + Target(s) <= holding[s])
        BY <2>1, <2>2, <2>3, <2>4
      <3>3. holding[s] \in Nat /\ raced[s] \in Nat
        BY <1>f
      <3> QED BY <3>2, <3>3
    <2> QED BY <1>f, <2>1, <2>3, <2>5 DEF Covered, FlightIsBusy
  <1>2. ASSUME NEW s \in Symbols, SubmitSell(s) \/ SellUnrecorded(s) PROVE Covered'
    <2>1. PICK state, before : GatewayPlace(s, state, before)
      BY <1>2 DEF SubmitSell, SellUnrecorded
    <2>2. s \in left /\ plan[s] > 0 /\ left' = left \ {s} /\ UNCHANGED <<bk, holding, raced, plan>>
      BY <1>2 DEF SubmitSell, SellUnrecorded, ToSell, Planned
    <2>3. \A x \in Symbols \ {s} : selling'[x] = selling[x] /\ flight'[x] = flight[x]
                                   /\ busy'[x] = busy[x] /\ Load(x)' = Load(x)
      BY <1>f, <2>1, <2>2, PlaceShape DEF Load, Live
    <2>4. Load(s)' + flight'[s] <= holding[s] + raced[s] /\ (flight'[s] > 0 => busy'[s] = "SALE")
      <3>1. Load(s) \in Nat /\ Load(s)' = Load(s) - selling[s] + selling'[s]
        BY <1>f, <2>1, <2>2, PlaceShape DEF Load, Live
      <3>2. CASE UNCHANGED <<selling, flight, busy>>
        BY <1>f, <3>1, <3>2 DEF Covered, FlightIsBusy
      <3>3. CASE ~UNCHANGED <<selling, flight, busy>>
        <4>1. Free(s) /\ flight[s] = 0 /\ Load(s) + plan[s] <= holding[s] + raced[s]
          BY <1>f, <2>1, <2>2, <3>3, PlaceShape DEF Covered, FlightIsBusy
        <4>2. \/ selling'[s] = selling[s] + plan[s] /\ flight'[s] = 0
              \/ selling'[s] = selling[s] /\ flight'[s] \in {0, plan[s]} /\ busy'[s] = "SALE"
          BY <1>f, <2>1, <3>3, <4>1, PlaceShape
        <4> QED BY <1>f, <2>2, <3>1, <4>1, <4>2 DEF Covered
      <3> QED BY <3>2, <3>3
    <2> QED BY <1>f, <2>2, <2>3, <2>4 DEF Covered, FlightIsBusy
  <1>3. CASE ~PlanLiquidation /\ ~\E s \in Symbols : SubmitSell(s) \/ SellUnrecorded(s)
    <2>1. /\ UNCHANGED <<account, busy>>
          /\ left' \subseteq left /\ (left' = {} \/ plan' = plan)
      BY <1>3 DEF Liquidating, Confirmed, Stabilise, RecordSell, NextRound, Verify, SellNothing,
                  SellNoMore, Ended, Failing, EnumerateFails, LiquidateFails, Crash,
                  CancelDecisionFails, SellDecisionFails
    <2> QED BY <2>1, CoveredFrame
  <1> QED BY <1>1, <1>2, <1>3

(* No step of the command or the account uncovers what is out or planned. *)
LEMMA CoveredStep ==
    ASSUME FlattenTypes, CancelsAnswered, Covered, [Next]_<<vars, setup>>
    PROVE  Covered'
  <1>1. CASE Next
    BY <1>1, AccountKeepsCover, CancelStepsKeepCover, SellStepsKeepCover DEF Next
  <1>2. CASE UNCHANGED <<vars, setup>>
    BY <1>2, CoveredFrame DEF vars
  <1> QED BY <1>1, <1>2

(* A resting sell is of a symbol that is held. *)
LEMMA CoveredInit ==
    ASSUME Init
    PROVE  Covered
  <1>1. PICK shares \in [Symbols -> Nat] : shares = setup.shares
    BY SharesAreCounted DEF Init
  <1>2. \A s \in Symbols : Selling(s) \in Orders /\ (Selling(s) \in setup.resting => shares[s] > 0)
    BY <1>1, SharesAreCounted, LiveSellsCount DEF Init
  <1> QED BY <1>1, <1>2 DEF Init, Covered, Load, Live, FlightIsBusy

(* priceAndSize, sell and settleStep, for every account and whatever an engine *)
(* places beside the saga: what is out never adds up to more than is held,     *)
(* over every round, resumed run, refused or lost cancel, lost answer and      *)
(* unwritten row, but for the sells placed between a plan and its sale, and a  *)
(* cancel recorded as done took its order off the book.                        *)
THEOREM NeverOversells == Spec => []FlattenInv
  <1>1. Init => Covered
    BY CoveredInit
  <1>2. FlattenTypes /\ CancelsAnswered /\ Covered /\ [Next]_<<vars, setup>> => Covered'
    BY CoveredStep
  <1>3. FlattenTypes /\ CancelsAnswered /\ Covered => FlattenInv
    BY CoveredMeans DEF FlattenTypes, TypeOK, CancelsAnswered, SellsCovered, FlattenInv
  <1> QED BY <1>1, <1>2, <1>3, FlattenTypesHold, PTL DEF Spec
=============================================================================
