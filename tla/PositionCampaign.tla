-------------------------- MODULE PositionCampaign --------------------------
(***************************************************************************)
(* The campaign ledger of one symbol: which strategy campaign owns the     *)
(* next position, in which legs it buys, which broker orders belong to a   *)
(* leg and how much of each is filled (internal/journal/position_campaign  *)
(* .go, internal/positioncampaign).  Fills reach it inside the transaction *)
(* that records and projects them.  Every command appends an event, and    *)
(* positioncampaign.Replay rebuilds the campaign from the events alone:    *)
(* its fold is kept beside the rows, in book.replay.                       *)
(*                                                                         *)
(* A command is one transaction.  One that meets a stale version, or that  *)
(* was already recorded under its key, changes nothing and is left out.    *)
(***************************************************************************)
EXTENDS PositionTable, FiniteSets, Functions

CONSTANTS
    Campaigns,   \* campaigns 1..n of the one symbol
    Legs,        \* leg sequences 1..n
    Orders,      \* broker orders, confirmed entry orders of the symbol
    None,        \* no campaign, no order
    Quantities,  \* of a leg and of an order
    Stops,       \* stop prices
    Scopes       \* the instances explored: [campaigns, legs, quantities, stops,
                 \* fill (the most the broker reports of one order), sells (bound
                 \* on the sells)]

ASSUME CampaignAssumption ==
    /\ IsFiniteSet(Orders) /\ IsFiniteSet(Legs) /\ Legs # {} /\ Legs = 1..Cardinality(Legs)
    /\ None \notin Campaigns \cup Orders
    /\ Quantities \cup Stops \subseteq Nat \ {0}
    /\ \A s \in Scopes : /\ s.campaigns \subseteq Campaigns /\ s.legs \subseteq Legs
                          /\ s.quantities \subseteq Quantities /\ s.stops \subseteq Stops \cup {0}
                          /\ {s.fill, s.sells} \subseteq Nat

VARIABLES
    book,     \* the campaign tables
    pos,      \* the symbol's latest position
    seen,     \* what RecordFill last recorded of each order
    selling,  \* the generation an unfinished sell was made for, 0 if none
    sells,
    scope     \* the instance of this behaviour, fixed

campaignVars == <<book, pos, seen, selling, sells, scope>>

CampaignStates == {"NONE", "PLANNED", "ACTIVE", "EXITING", "CLOSED", "RECONCILE"}
LegStates == {"NONE", "PLANNED", "SUBMITTED", "PARTIAL", "FILLED", "CANCELLED", "RECONCILE"}
BlockingStates == {"EXITING", "CLOSED", "RECONCILE"}

NoCampaign == [state |-> "NONE", blocked |-> FALSE, expected |-> 0, bound |-> 0, stop |-> 0]
NoLeg == [state |-> "NONE", requested |-> 0, filled |-> 0, residual |-> 0]
NoOrder == [campaign |-> None, leg |-> 0, pred |-> None, cap |-> 0, cum |-> 0,
            remaining |-> 0, terminal |-> FALSE, missed |-> FALSE]
NoEvents == [valid |-> TRUE, state |-> "NONE", blocked |-> FALSE, bound |-> 0, stop |-> 0,
             leg |-> [n \in Legs |-> "NONE"]]

CampaignInit ==
    /\ book = [camp    |-> [c \in Campaigns |-> NoCampaign],
               leg     |-> [c \in Campaigns |-> [n \in Legs |-> NoLeg]],
               ord     |-> [o \in Orders |-> NoOrder],
               claim   |-> None,
               account |-> FALSE,
               revived |-> {},
               replay  |-> [c \in Campaigns |-> NoEvents]]
    /\ pos = [state |-> "FLAT", quantity |-> 0, seq |-> 0]
    /\ seen = [o \in Orders |-> [cum |-> 0, terminal |-> FALSE]]
    /\ selling = 0 /\ sells = 0
    /\ scope \in Scopes

(* --------------------------- pure tables --------------------------- *)

(* The next state, or INVALID.  A next state in BlockingStates blocks entries. *)
TransitionCampaign(from, event) ==
    LET mismatch == {"LINEAGE_MISMATCH", "GENERATION_MISMATCH"}
        watermark == mismatch \cup {"WATERMARK_MISMATCH"}
    IN  CASE from = "PLANNED" /\ event \in {"RETRY", "LEG_PLANNED"} -> from
          [] from = "PLANNED" /\ event = "ORDER_LINKED" -> "ACTIVE"
          [] from = "PLANNED" /\ event \in {"CANCELLED_BEFORE_FILL", "STRUCTURAL_INVALID"} -> "CLOSED"
          [] from = "PLANNED" /\ event \in mismatch -> "RECONCILE"
          [] from = "ACTIVE" /\ event \in {"RETRY", "LEG_PLANNED", "ORDER_LINKED", "LEG_PROGRESS"} -> from
          [] from = "ACTIVE" /\ event \in {"EXIT_REQUESTED", "POSITION_CLOSING"} -> "EXITING"
          [] from \in {"ACTIVE", "EXITING"} /\ event = "POSITION_CLOSED" -> "CLOSED"
          [] from \in {"ACTIVE", "EXITING"} /\ event \in watermark -> "RECONCILE"
          [] from = "EXITING" /\ event \in {"RISK_REDUCING_PROGRESS", "RETRY"} -> from
          [] from = "RECONCILE" /\ event = "EVIDENCE_OPEN" -> "ACTIVE"
          [] from = "RECONCILE" /\ event = "EVIDENCE_CLOSING" -> "EXITING"
          [] from = "RECONCILE" /\ event = "EVIDENCE_CLOSED" -> "CLOSED"
          [] from = "RECONCILE" /\ event \in {"EVIDENCE_INCOMPLETE", "RETRY", "LATE_FACT"} -> from
          [] from = "CLOSED" /\ event \in {"TERMINAL_RETRY", "LATE_FACT"} -> from
          [] OTHER -> "INVALID"

(* The rows of the leg table that some caller reaches; the rest are evidence   *)
(* events that nothing raises.                                                 *)
TransitionLeg(from, event) ==
    CASE from = "PLANNED" /\ event = "ORDER_LINKED" -> "SUBMITTED"
      [] from \in {"SUBMITTED", "PARTIAL"} /\ event = "FULL_FILL" -> "FILLED"
      [] from \in {"SUBMITTED", "PARTIAL"} /\ event = "PARTIAL_FILL" -> "PARTIAL"
      [] from \in {"SUBMITTED", "PARTIAL"} /\ event = "RESIDUAL_CANCELLED" -> "CANCELLED"
      [] from = "SUBMITTED" /\ event = "ZERO_FILL_CANCELLED" -> "CANCELLED"
      [] from \in {"SUBMITTED", "PARTIAL"}
           /\ event \in {"DUPLICATE_OBSERVATION", "REPLACEMENT_LINKED"} -> from
      [] from \in {"FILLED", "CANCELLED"} /\ event \in {"TERMINAL_RETRY", "LATE_POSITIVE_FILL"} -> from
      [] OTHER -> "INVALID"

LegEventForFill(from, delta, filled, requested, terminal, succeeded) ==
    IF from \in {"FILLED", "CANCELLED"}
    THEN IF delta > 0 THEN "LATE_POSITIVE_FILL" ELSE "TERMINAL_RETRY"
    ELSE IF filled >= requested THEN "FULL_FILL"
    ELSE IF terminal /\ ~succeeded
    THEN IF filled = 0 THEN "ZERO_FILL_CANCELLED" ELSE "RESIDUAL_CANCELLED"
    ELSE IF delta > 0 THEN "PARTIAL_FILL" ELSE "DUPLICATE_OBSERVATION"

LegStateAfterFill(from, delta, filled, requested, terminal, succeeded) ==
    TransitionLeg(from, LegEventForFill(from, delta, filled, requested, terminal, succeeded))

LatchEntryBlockedForgets(stored, next) == next \in BlockingStates

(* A latch that is set stays set, whatever the state says. *)
LatchEntryBlocked(stored, next) == stored \/ next \in BlockingStates

RemainingFromCap(cap, cum) == IF cum >= cap THEN 0 ELSE cap - cum

(* A live replacement may fill no more than its leg still wants. *)
StoredOrderRemaining(w, residual) ==
    LET own == RemainingFromCap(w.cap, w.cum)
    IN  IF w.pred # None /\ ~w.terminal /\ residual < own THEN residual ELSE own

(* ------------------------------ replay ------------------------------ *)

OrdersOf(b, c, n) == {o \in Orders : b.ord[o].campaign = c /\ b.ord[o].leg = n}
LegFilled(b, c, n) ==
    LET filled == [o \in Orders |-> IF o \in OrdersOf(b, c, n) THEN b.ord[o].cum ELSE 0]
    IN  SumFunctionOnSet(filled, Orders)
Succeeded(b, o) == \E x \in Orders : b.ord[x].pred = o

(* The campaign event a recorded event stands for, judged from the replayed state. *)
ReplayedEvent(r, kind, state) ==
    CASE kind = "LEG_PLANNED"           -> "LEG_PLANNED"
      [] kind = "ORDER_LINKED"          -> "ORDER_LINKED"
      [] kind = "ORDER_LINK_REFUSED"    -> "LINEAGE_MISMATCH"
      [] kind = "PROSPECTIVE_CANCELLED" -> "CANCELLED_BEFORE_FILL"
      [] kind = "PROTECTION_RECONCILE"  ->
            IF r.state = "RECONCILE" THEN "EVIDENCE_INCOMPLETE" ELSE "LINEAGE_MISMATCH"
      [] kind = "ORDER_WATERMARK_ADVANCED" ->
            IF r.state = "CLOSED" THEN "LATE_FACT"
            ELSE IF state = "CLOSED" THEN "POSITION_CLOSED"
            ELSE IF state = "RECONCILE"
            THEN IF r.state = "RECONCILE" THEN "EVIDENCE_INCOMPLETE" ELSE "WATERMARK_MISMATCH"
            ELSE IF r.state = "EXITING" THEN "RISK_REDUCING_PROGRESS" ELSE "LEG_PROGRESS"

ReplayedState(r, kind, row) ==
    CASE kind = "CREATED"       -> IF row.state = "PLANNED" /\ ~row.blocked THEN "PLANNED" ELSE "INVALID"
      [] kind = "STOP_COMPOSED" -> r.state
      [] OTHER                  -> TransitionCampaign(r.state, ReplayedEvent(r, kind, row.state))

(* The leg state the event must carry.  A replacement of a leg that was      *)
(* cancelled revives it, as PARTIAL or as SUBMITTED.                         *)
ReplayedLeg(r, b, c, kind, n, o, delta) ==
    LET row == b.leg[c][n]
        w   == b.ord[o]
        linked == TransitionLeg(r.leg[n], IF w.pred = None THEN "ORDER_LINKED" ELSE "REPLACEMENT_LINKED")
    IN  CASE kind = "LEG_PLANNED" -> "PLANNED"
          [] kind = "ORDER_LINKED" ->
                IF linked = "INVALID" /\ r.leg[n] = "CANCELLED" /\ w.pred # None
                THEN IF row.filled > 0 THEN "PARTIAL" ELSE "SUBMITTED"
                ELSE linked
          [] kind = "ORDER_WATERMARK_ADVANCED" ->
                LegStateAfterFill(r.leg[n], delta, row.filled, row.requested, w.terminal, Succeeded(b, o))

(* Replay checks an event against what it has rebuilt so far and stops at the     *)
(* first mismatch.                                                                *)
Replayed(b, c, kind, n, o, delta, generation) ==
    LET r   == b.replay[c]
        row == b.camp[c]
        leg == b.leg[c][n]
        onLeg == kind \in {"LEG_PLANNED", "ORDER_LINKED", "ORDER_WATERMARK_ADVANCED"}
        onOrder == onLeg /\ kind # "LEG_PLANNED"
        next == ReplayedState(r, kind, row)
        blocked == \/ kind = "STOP_COMPOSED" /\ row.blocked
                   \/ LatchEntryBlocked(r.blocked, IF kind = "STOP_COMPOSED" THEN "NONE" ELSE next)
        valid ==
            /\ next = row.state /\ blocked = row.blocked
            /\ generation # 0 =>
                 generation = (IF r.bound # 0 THEN r.bound ELSE row.expected + 1)
            /\ onLeg => /\ leg.state = ReplayedLeg(r, b, c, kind, n, o, delta)
                        /\ leg.filled = LegFilled(b, c, n)
                        /\ leg.residual = RemainingFromCap(leg.requested, leg.filled)
            /\ onOrder => b.ord[o].remaining = StoredOrderRemaining(b.ord[o], leg.residual)
            /\ row.stop >= r.stop
        after == [valid |-> TRUE, state |-> next, blocked |-> blocked, stop |-> row.stop,
                  bound |-> IF generation # 0 THEN generation ELSE r.bound,
                  leg   |-> IF onLeg THEN [r.leg EXCEPT ![n] = leg.state] ELSE r.leg]
    IN  IF ~r.valid THEN r ELSE IF valid THEN after ELSE [r EXCEPT !.valid = FALSE]

(* insertCampaignEvent reads the rows the command has just written. *)
Recorded(b, c, kind, n, o, delta, generation) ==
    [b EXCEPT !.replay[c] = Replayed(b, c, kind, n, o, delta, generation)]

(* reconstructPositionCampaign: the events rebuild the stored campaign. *)
Reconstructs(c) ==
    LET r == book.replay[c]  row == book.camp[c]
    IN  r.valid /\ r.state = row.state /\ r.blocked = row.blocked /\ r.bound = row.bound /\ r.stop = row.stop

(* ----------------------------- commands ----------------------------- *)

Linked(o) == book.ord[o].campaign # None
Active(c) == book.camp[c].state \in {"PLANNED", "ACTIVE", "EXITING", "RECONCILE"}

(* campaignExposureBlockedInTx: the campaign's own generation was sold, the   *)
(* position is being closed, or a sell of this generation is unfinished.      *)
ExposureBlocked(c) ==
    \/ book.camp[c].bound # 0 /\ (book.camp[c].bound < pos.seq \/ pos.state = "CLOSED")
    \/ pos.state = "CLOSING"
    \/ selling # 0 /\ selling = pos.seq

(* The position is closed or was never opened, nobody holds the claim, and no *)
(* other campaign of the symbol is active (idx_position_campaign_active_scope). *)
MayCreate(c) ==
    /\ book.camp[c].state = "NONE"
    /\ pos.state \in {"FLAT", "CLOSED"}
    /\ book.claim = None
    /\ \A x \in Campaigns : ~Active(x)

Created(b, c) ==
    Recorded([b EXCEPT !.camp[c] = [NoCampaign EXCEPT !.state = "PLANNED", !.expected = pos.seq],
                       !.claim = c],
             c, "CREATED", 0, None, 0, 0)

Planned(b, c, n, q) ==
    Recorded([b EXCEPT !.leg[c][n] = [state |-> "PLANNED", requested |-> q, filled |-> 0, residual |-> q]],
             c, "LEG_PLANNED", n, None, 0, 0)

CreatePositionCampaign(c) ==
    /\ MayCreate(c)
    /\ book' = Created(book, c)
    /\ UNCHANGED <<pos, seen, selling, sells, scope>>

(* The strategy's admission creates the campaign and its first leg at once. *)
AdmitFirstLeg(c, q) ==
    /\ MayCreate(c)
    /\ book' = Planned(Created(book, c), c, 1, q)
    /\ UNCHANGED <<pos, seen, selling, sells, scope>>

PlanCampaignLeg(c, n, q) ==
    /\ book.camp[c].state # "NONE" /\ ~book.camp[c].blocked /\ ~ExposureBlocked(c)
    /\ TransitionCampaign(book.camp[c].state, "LEG_PLANNED") # "INVALID"
    /\ n = Cardinality({m \in Legs : book.leg[c][m].state # "NONE"}) + 1
    /\ book' = Planned(book, c, n, q)
    /\ UNCHANGED <<pos, seen, selling, sells, scope>>

(* A refused link is recorded, because the order it names is already at the   *)
(* broker: the campaign is set aside.  The index of active campaigns may      *)
(* refuse to bring a closed one back, and then the command fails whole.       *)
latchCampaignLinkConflict(c) ==
    /\ Active(c) \/ \A x \in Campaigns : ~Active(x)
    /\ LET row == book.camp[c]
       IN  book' = Recorded([book EXCEPT !.camp[c] = [row EXCEPT !.state = "RECONCILE", !.blocked = TRUE]],
                            c, "ORDER_LINK_REFUSED", 0, None, 0, 0)

(* The rows of an order that joins leg n, as a replacement of p if p is one. *)
LinkedRows(b, c, n, o, p, cap, legState) ==
    LET w  == [campaign |-> c, leg |-> n, pred |-> p, cap |-> cap, cum |-> 0, remaining |-> 0,
               terminal |-> FALSE, missed |-> FALSE]
        row  == b.camp[c]
        next == TransitionCampaign(row.state, "ORDER_LINKED")
    IN  Recorded([b EXCEPT !.ord = [x \in Orders |->
                             IF x = o THEN [w EXCEPT !.remaining = StoredOrderRemaining(w, b.leg[c][n].residual)]
                             ELSE IF x = p THEN [b.ord[x] EXCEPT !.terminal = TRUE]
                             ELSE b.ord[x]],
                           !.leg[c][n].state = legState,
                           !.camp[c] = [row EXCEPT !.state = next,
                                                   !.blocked = LatchEntryBlocked(row.blocked, next)]],
                 c, "ORDER_LINKED", n, o, 0, 0)

(* A replacement may be confirmed after its predecessor's end cancelled the leg. *)
NextLeg(c, n, p) ==
    LET from == book.leg[c][n].state
        next == TransitionLeg(from, IF p = None THEN "ORDER_LINKED" ELSE "REPLACEMENT_LINKED")
    IN  IF next = "INVALID" /\ p # None /\ from = "CANCELLED" THEN "PARTIAL" ELSE next

(* sound: the attempt is the confirmed, authoritative one for this order and  *)
(* the caller calls its lineage unambiguous.                                  *)
LinkCampaignOrder(c, n, o, p, cap, sound) ==
    LET conflict ==
            \/ ExposureBlocked(c) \/ book.camp[c].blocked
            \/ ~sound \/ Linked(o)
            \/ p # None /\ Succeeded(book, p)
    IN  /\ book.camp[c].state # "NONE"
        /\ \/ conflict /\ latchCampaignLinkConflict(c)
           \/ /\ ~conflict
              /\ p # None => p \in OrdersOf(book, c, n)
              /\ NextLeg(c, n, p) # "INVALID"
              /\ TransitionCampaign(book.camp[c].state, "ORDER_LINKED") # "INVALID"
              /\ book' = [LinkedRows(book, c, n, o, p, cap, NextLeg(c, n, p)) EXCEPT
                            !.ord[o].missed = seen[o].cum > 0,
                            !.revived = @ \cup {x \in {c} : /\ book.leg[c][n].state = "CANCELLED"
                                                            /\ book.leg[c][n].filled = 0}]
        /\ UNCHANGED <<pos, seen, selling, sells, scope>>

(* ComposeLongStop: the higher of the saved and the offered stop; an offer that *)
(* is not one (0) keeps the saved stop and blocks entries.                      *)
UpdateCampaignStop(c, offered) ==
    LET row == book.camp[c]
        b   == [book EXCEPT !.camp[c] =
                  [row EXCEPT !.stop = IF offered > row.stop THEN offered ELSE row.stop,
                              !.blocked = row.blocked \/ offered = 0]]
    IN  /\ row.state # "NONE"
        /\ book' = Recorded(b, c, "STOP_COMPOSED", 0, None, 0, row.bound)
        /\ UNCHANGED <<pos, seen, selling, sells, scope>>

CancelProspectiveCampaign(c) ==
    /\ TransitionCampaign(book.camp[c].state, "CANCELLED_BEFORE_FILL") # "INVALID"
    /\ \A o \in Orders : book.ord[o].campaign # c
    /\ LET row == book.camp[c]
           b == [book EXCEPT
                   !.camp[c] = [row EXCEPT !.state = "CLOSED", !.blocked = TRUE],
                   !.leg[c] = [n \in Legs |-> LET leg == book.leg[c][n]
                                              IN  IF leg.state = "PLANNED"
                                                  THEN [leg EXCEPT !.state = "CANCELLED"] ELSE leg],
                   !.claim = IF @ = c THEN None ELSE @]
       IN  book' = Recorded(b, c, "PROSPECTIVE_CANCELLED", 0, None, 0, 0)
    /\ UNCHANGED <<pos, seen, selling, sells, scope>>

(* The protection of a held position could not be established. *)
ReconcileStrategyProtection(c) ==
    LET row == book.camp[c]
        event == IF row.state = "RECONCILE" THEN "EVIDENCE_INCOMPLETE" ELSE "LINEAGE_MISMATCH"
        b == [book EXCEPT !.camp[c] = [row EXCEPT !.state = TransitionCampaign(row.state, event),
                                                  !.blocked = TRUE]]
    IN  /\ row.state \notin {"NONE", "CLOSED"}
        /\ row.bound # 0 /\ row.bound = pos.seq /\ pos.state # "CLOSED"
        /\ book' = Recorded(b, c, "PROTECTION_RECONCILE", 0, None, 0, row.bound)
        /\ UNCHANGED <<pos, seen, selling, sells, scope>>

(* ------------------------------- fills ------------------------------- *)

NoSuccessorUpdate(b, c, n) == b

(* What the live orders of the leg may still fill, after its residual moved. *)
updateCampaignSuccessorRemaining(b, c, n) ==
    [b EXCEPT !.ord = [o \in Orders |->
        LET w == b.ord[o]
        IN  IF o \in OrdersOf(b, c, n) /\ ~w.terminal
            THEN [w EXCEPT !.remaining = StoredOrderRemaining(w, b.leg[c][n].residual)] ELSE w]]

(* All that was ever sent ended with nothing filled: the campaign is over. *)
NothingCameOfIt(b, c) ==
    /\ \A o \in Orders : b.ord[o].campaign = c => b.ord[o].terminal
    /\ \A n \in Legs : b.leg[c][n].state # "NONE" =>
         b.leg[c][n].state = "CANCELLED" /\ b.leg[c][n].filled = 0

(* The book after a cumulative observation of o, where RecordFill says that   *)
(* delta is new and p is the position it has just projected.                  *)
ApplyPositionCampaignFill(b, p, o, cum, delta, terminal) ==
    LET w    == b.ord[o]
        c    == w.campaign
        n    == w.leg
        row  == b.camp[c]
        leg  == b.leg[c][n]
        d    == cum - w.cum
        ends == terminal \/ w.terminal
        binds == row.bound = 0 /\ d # 0 /\ p.seq = row.expected + 1
        bound == IF binds THEN p.seq ELSE row.bound
        b1   == [b EXCEPT !.ord[o] = [w EXCEPT !.cum = cum, !.terminal = ends,
                                               !.remaining = RemainingFromCap(w.cap, cum)]]
        filled   == LegFilled(b1, c, n)
        legState == LegStateAfterFill(leg.state, d, filled, leg.requested, ends, Succeeded(b, o))
        reconcile == \/ d # 0 /\ (w.terminal \/ row.state = "CLOSED")
                     \/ delta # d
                     \/ cum > w.cap \/ filled > leg.requested
                     \/ IF row.bound = 0 THEN d # 0 /\ ~binds ELSE p.seq # row.bound
                     \/ legState = "INVALID"
        next == IF row.state = "CLOSED" THEN "CLOSED"
                ELSE IF reconcile THEN "RECONCILE"
                ELSE IF row.state = "PLANNED" THEN "ACTIVE" ELSE row.state
        b2   == [b1 EXCEPT
                   !.leg[c][n] = [leg EXCEPT !.filled = filled,
                                             !.residual = RemainingFromCap(leg.requested, filled),
                                             !.state = IF legState = "INVALID" THEN leg.state ELSE legState],
                   !.camp[c] = [row EXCEPT !.state = next, !.bound = bound,
                                           !.blocked = LatchEntryBlocked(row.blocked, next)],
                   !.account = @ \/ row.state = "CLOSED"]
        b3   == updateCampaignSuccessorRemaining(b2, c, n)
        over == b3.leg[c][n].state = "CANCELLED" /\ filled = 0 /\ NothingCameOfIt(b3, c)
        b4   == IF over THEN [b3 EXCEPT !.camp[c] = [@ EXCEPT !.state = "CLOSED", !.blocked = TRUE],
                                        !.claim = IF @ = c THEN None ELSE @]
                        ELSE b3
        news == d > 0 \/ (d = 0 /\ terminal /\ ~w.terminal)
    IN  IF c = None \/ ~news THEN b
        ELSE Recorded(b4, c, "ORDER_WATERMARK_ADVANCED", n, o, d, bound)

Projected(o, delta, terminal) ==
    Apply(pos, "ENTRY", delta, IF terminal THEN "DONE" ELSE "WORKING").pos

(* RecordFill: a larger cumulative or the news that the order ended, projected *)
(* and then applied to the campaign, in one transaction.                       *)
RecordFill(o, cum, terminal) ==
    LET delta == cum - seen[o].cum
        p     == Projected(o, delta, terminal)
    IN  /\ delta >= 0 /\ (seen[o].terminal => terminal)
        /\ delta > 0 \/ terminal # seen[o].terminal
        /\ pos' = p
        /\ seen' = [seen EXCEPT ![o] = [cum |-> cum, terminal |-> terminal]]
        /\ book' = ApplyPositionCampaignFill(book, p, o, cum, delta, terminal)
        /\ UNCHANGED <<selling, sells, scope>>

(* linkConfirmedStrategyCampaignTx and backfillConfirmedStrategyFillTx: the    *)
(* dispatched order joins its leg, and what was recorded of it before that is  *)
(* applied as one fill in the same transaction.  A refusal writes nothing.     *)
LinkConfirmedStrategyOrder(c, n, o) ==
    LET q  == book.leg[c][n].requested
        b  == LinkedRows(book, c, n, o, None, q, "SUBMITTED")
    IN  /\ book.camp[c].state # "NONE" /\ ~book.camp[c].blocked /\ ~ExposureBlocked(c)
        /\ ~Linked(o)
        /\ TransitionLeg(book.leg[c][n].state, "ORDER_LINKED") # "INVALID"
        /\ TransitionCampaign(book.camp[c].state, "ORDER_LINKED") # "INVALID"
        /\ book' = ApplyPositionCampaignFill(b, pos, o, seen[o].cum, seen[o].cum, seen[o].terminal)
        /\ UNCHANGED <<pos, seen, selling, sells, scope>>

(* The exits, as far as the campaign sees them: an unfinished sell, and its fill. *)
BeginSell ==
    /\ pos.quantity > 0 /\ selling = 0 /\ sells < scope.sells
    /\ selling' = pos.seq /\ sells' = sells + 1
    /\ UNCHANGED <<book, pos, seen, scope>>

SellFills(q, terminal) ==
    /\ selling # 0 /\ selling = pos.seq /\ q <= pos.quantity
    /\ pos' = Apply(pos, "EXIT", q, IF terminal THEN "DONE" ELSE "WORKING").pos
    /\ selling' = IF terminal THEN 0 ELSE selling
    /\ UNCHANGED <<book, seen, sells, scope>>

CampaignNext ==
    \/ \E c \in scope.campaigns :
         \/ CreatePositionCampaign(c)
         \/ \E q \in scope.quantities : AdmitFirstLeg(c, q)
         \/ \E n \in scope.legs, q \in scope.quantities : PlanCampaignLeg(c, n, q)
         \/ \E n \in scope.legs, o \in Orders, p \in Orders \cup {None},
               q \in scope.quantities, sound \in BOOLEAN : LinkCampaignOrder(c, n, o, p, q, sound)
         \/ \E n \in scope.legs, o \in Orders : LinkConfirmedStrategyOrder(c, n, o)
         \/ \E offered \in scope.stops : UpdateCampaignStop(c, offered)
         \/ CancelProspectiveCampaign(c)
         \/ ReconcileStrategyProtection(c)
    \/ \E o \in Orders, cum \in 0..scope.fill, terminal \in BOOLEAN : RecordFill(o, cum, terminal)
    \/ BeginSell
    \/ \E q \in 1..scope.fill, terminal \in BOOLEAN : SellFills(q, terminal)

CampaignSpec == CampaignInit /\ [][CampaignNext]_campaignVars

(* ----------------------------- properties ----------------------------- *)

CampaignRows == [state : CampaignStates, blocked : BOOLEAN, expected : Nat, bound : Nat,
                 stop : Stops \cup {0}]
LegRows == [state : LegStates, requested : Quantities \cup {0}, filled : Nat, residual : Nat]
OrderRows == [campaign : Campaigns \cup {None}, leg : Legs \cup {0}, pred : Orders \cup {None},
              cap : Quantities \cup {0}, cum : Nat, remaining : Nat, terminal : BOOLEAN, missed : BOOLEAN]
Replays == [valid : BOOLEAN, state : CampaignStates, blocked : BOOLEAN, bound : Nat,
            stop : Stops \cup {0}, leg : [Legs -> LegStates]]
Books == [camp : [Campaigns -> CampaignRows], leg : [Campaigns -> [Legs -> LegRows]],
          ord : [Orders -> OrderRows], claim : Campaigns \cup {None}, account : BOOLEAN,
          revived : SUBSET Campaigns, replay : [Campaigns -> Replays]]

\* Type invariant: the type of the campaign ledger.
CampaignTypeOK ==
    /\ book \in Books
    /\ pos \in [state : PositionStates, quantity : Nat, seq : Nat]
    /\ seen \in [Orders -> [cum : Nat, terminal : BOOLEAN]]
    /\ {selling, sells} \subseteq Nat /\ scope \in Scopes

Quarantined(c) == book.camp[c].blocked /\ book.camp[c].state \in {"RECONCILE", "CLOSED"}

(* More than was asked for, of an order or of a leg, is never taken for a      *)
(* healthy campaign; nor is an order whose first shares were recorded before   *)
(* the campaign knew it, once it is heard of again.                            *)
SurplusQuarantined ==
    \A o \in Orders : LET w == book.ord[o]
                      IN  Linked(o) => /\ w.cum > w.cap => Quarantined(w.campaign)
                                       /\ w.missed /\ w.cum > 0 => Quarantined(w.campaign)
                                       /\ book.leg[w.campaign][w.leg].filled
                                            > book.leg[w.campaign][w.leg].requested
                                          => Quarantined(w.campaign)

(* A working replacement is never credited with more than its leg still wants, *)
(* however late its predecessor's fills come in.                               *)
SuccessorBounded ==
    \A o \in Orders : LET w == book.ord[o]
                      IN  Linked(o) /\ w.pred # None /\ ~w.terminal
                          => w.remaining <= book.leg[w.campaign][w.leg].residual

(* Two campaigns own the same position only if the account is set aside for    *)
(* reconciliation: the first was closed as unfilled, and then filled.          *)
SharedGenerationFlagged ==
    \A c, x \in Campaigns :
        c # x /\ book.camp[c].bound # 0 /\ book.camp[c].bound = book.camp[x].bound => book.account

(* The events of a campaign that takes entries rebuild it.  The exception is a *)
(* replacement that joined a leg cancelled with nothing filled: the writer     *)
(* calls that leg PARTIAL, Replay SUBMITTED.                                   *)
ReplayAgrees ==
    \A c \in Campaigns : ~book.camp[c].blocked /\ c \notin book.revived => Reconstructs(c)

(* The campaign ledger's invariant: anomalies set the campaign or the account  *)
(* aside, replacements stay within their leg, and the events rebuild what      *)
(* takes entries.                                                              *)
CampaignInv ==
    CampaignTypeOK /\ SurplusQuarantined /\ SuccessorBounded /\ SharedGenerationFlagged /\ ReplayAgrees

(* What a campaign has learned is never taken back: an entry block is not       *)
(* lifted, a stop not lowered, a watermark not wound back and an owned position *)
(* not exchanged for another, whatever commands and fills follow.               *)
CampaignMonotone ==
    [][/\ \A c \in Campaigns : /\ book.camp[c].blocked => book'.camp[c].blocked
                               /\ book'.camp[c].stop >= book.camp[c].stop
                               /\ book.camp[c].bound # 0 => book'.camp[c].bound = book.camp[c].bound
       /\ \A o \in Orders : book'.ord[o].cum >= book.ord[o].cum]_campaignVars
=============================================================================
