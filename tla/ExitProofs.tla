----------------------------- MODULE ExitProofs -----------------------------
(***************************************************************************)
(* Proofs about Exit: whatever fills, cancels in flight, verdicts, thaws   *)
(* and restarts come between the steps of a pass, the exit sells never ask *)
(* for more than is held, one proposal is out at a time and can end, a     *)
(* part is taken once, a full exit is sent over a cleared entry only, and  *)
(* the protection never falls -- for every ladder, price and opening.      *)
(***************************************************************************)
EXTENDS Exit, SumTheorems

(* ----------------------- the inductive invariant ----------------------- *)

Rank == 0 .. Len(Stages)
Pendings == [act : Actions, level : Rank, intent : Orders]
Lines == [base : Nat, high : Nat, rung : Rank, act : Actions, level : Rank, qty : Nat,
          cancelFirst : BOOLEAN, suppressed : BOOLEAN]
Copies == [base : Nat, high : Nat, rung : Rank, pend : Pendings, taken : BOOLEAN, qty : Nat,
           snap : Lines]

InPass == {"clearing", "cancelling", "cleared", "recording"}
Steps  == {"idle", "judging", "armed", "placing", "refused", "down"} \cup InPass

Typed ==
    /\ row \in [kind : {"LADDER", "RATCHET"}, base : Nat, high : Nat, rung : Rank,
                pend : Pendings, taken : BOOLEAN, done : BOOLEAN]
    /\ snap \in Lines /\ ev \in Lines /\ m \in Copies
    /\ qty \in Nat /\ held \in Nat /\ mkt \in Nat /\ crashes \in Nat /\ faults \in Nat
    /\ att \in [Orders -> AttemptStates]
    /\ asked \in [Orders -> [act : Actions, level : Nat, qty : Nat]]
    /\ seen \in [Orders -> [filled : Nat, terminal : BOOLEAN]]
    /\ cxl \in [Orders -> {"none", "IN_DOUBT", "CONFIRMED"}]
    /\ order \in [Orders -> [filled : Nat, acc : BOOLEAN, live : BOOLEAN]]
    /\ pc \in Steps /\ todo \subseteq Orders /\ clear \in BOOLEAN

(* Proposals are numbered in the order they are armed, and only the last one can be out. *)
Numbered ==
    /\ Mine \in 0 .. MaxIntents
    /\ \A i \in Intents : asked[i].act # "none" <=> i <= Mine
    /\ row.pend.intent \in {0, Mine}
    /\ row.pend.act = "none" <=> row.pend.intent = 0

NeverSent == {"none", "FAILED_CONFIRMED", "NOT_DISPATCHED"}

(* What the journal says of an order is behind the broker, never ahead of it. *)
Followed ==
    /\ att[0] = "CONFIRMED"
    /\ \A i \in Orders :
         /\ seen[i].filled <= order[i].filled /\ order[i].filled <= asked[i].qty
         /\ order[i].live => order[i].acc
         /\ ~order[i].acc => order[i].filled = 0
         /\ seen[i].terminal => ~order[i].live /\ seen[i].filled = order[i].filled
    /\ \A i \in Intents : /\ att[i] \in NeverSent => ~order[i].acc
                          /\ i > Mine => att[i] = "none" /\ ~seen[i].terminal

(* Nothing can come any more of an intent that is not the armed one. *)
Over(i) == att[i] \in NeverSent \/ (att[i] = "CONFIRMED" /\ seen[i].terminal)

Ended ==
    /\ \A i \in Intents : i # row.pend.intent => Over(i)
    /\ row.pend.intent # 0 => ~seen[row.pend.intent].terminal

(* The broker's shares are the position's, but for the fills not recorded yet; *)
(* the armed proposal asks for no more than there was when it was armed.       *)
Unrecorded(i) == order[i].filled - seen[i].filled

Counted ==
    /\ held = qty + Unrecorded(0) - (IF row.pend.intent = 0 THEN 0 ELSE Unrecorded(row.pend.intent))
    /\ row.pend.intent # 0 => asked[row.pend.intent].qty <= qty + seen[row.pend.intent].filled

NothingSold == \A i \in Intents : order[i].filled = 0

(* What a pass carries is still true of the row when it is used: shares were  *)
(* only sold by the proposal it read, and nobody else moved the protection.   *)
Covered(shares) ==
    /\ row.pend.intent \in {0, m.pend.intent}
    /\ m.pend.act = "none" <=> m.pend.intent = 0
    /\ m.pend.intent = 0 => shares <= qty
    /\ m.pend.intent # 0 => shares <= qty + seen[m.pend.intent].filled

Judging ==
    pc = "judging" =>
      /\ m.base = row.base /\ m.high = row.high
      /\ Covered(m.qty)
      /\ m.pend.intent = 0 /\ ~m.taken => NothingSold

Judged ==
    pc \in InPass =>
      /\ ev.base >= row.base /\ ev.high >= row.high
      /\ Covered(ev.qty)
      /\ ev.qty > 0 => ev.act # "none" /\ (m.pend.intent # 0 => ev.cancelFirst)
      /\ row.kind = "RATCHET" /\ ev.act = "PARTIAL" => m.pend.intent = 0 /\ NothingSold

Released ==
    pc = "recording" /\ clear /\ ev.cancelFirst /\ ev.qty > 0 =>
      row.pend.intent = 0 /\ ev.qty <= qty

EntryClear == seen[0].terminal \/ cxl[0] = "CONFIRMED"
FullExit == {"STOP", "TAKE"}

Cleared ==
    /\ pc = "cancelling" /\ clear => 0 \in todo \/ EntryClear
    /\ pc = "cleared" /\ clear => EntryClear
    /\ pc = "recording" /\ clear /\ ev.act \in FullExit /\ ev.qty > 0 => EntryClear
    /\ pc = "armed" /\ asked[Mine].act \in FullExit => EntryClear

Submitting ==
    /\ pc \in {"armed", "placing"} => row.pend.intent = Mine /\ Mine # 0
    /\ pc = "armed" => att[Mine] = "none"
    /\ pc = "placing" => att[Mine] = "DISPATCH_STARTED" /\ ~order[Mine].acc

(* An armed proposal without an attempt is being submitted, or a write failed. *)
Carried ==
    row.pend.intent # 0 /\ att[row.pend.intent] = "none" => pc \in {"armed", "down"} \/ faults > 0

NotTaken == ~row.taken => \A i \in Intents : seen[i].filled = 0

IInv == /\ Typed /\ Numbered /\ Followed /\ Ended /\ Counted
        /\ Judging /\ Judged /\ Released /\ Cleared /\ Submitting /\ Carried /\ NotTaken
        /\ PartialOnce

(* ------------------------------ evaluation ----------------------------- *)

(* The higher of two prices. *)
LEMMA MaxOfTwo ==
  ASSUME NEW a \in Int, NEW b \in Int
  PROVE  Max({a, b}) \in {a, b} /\ Max({a, b}) >= a /\ Max({a, b}) >= b
<1>1. \E x \in {a, b} : \A y \in {a, b} : x >= y
  <2>1. CASE a >= b
    BY <2>1
  <2>2. CASE b >= a
    BY <2>2
  <2> QED BY <2>1, <2>2
<1> QED BY <1>1 DEF Max

(* The highest rung of a non-empty set of rungs is one of them. *)
LEMMA MaxInRange ==
  ASSUME NEW n \in Nat, NEW S \in SUBSET (0 .. n), S # {}
  PROVE  Max(S) \in S
<1> DEFINE B == {n - x : x \in S}
<1>1. B \subseteq Nat /\ B # {}
  <2>1. \A x \in S : n - x \in Nat
    OBVIOUS
  <2> QED BY <2>1
<1>2. PICK b \in B : \A c \in B : b <= c
  <2> HIDE DEF B
  <2> QED BY <1>1, LeastNat
<1>3. PICK x \in S : b = n - x
  OBVIOUS
<1>4. \A y \in S : x >= y
  <2> SUFFICES ASSUME NEW y \in S PROVE x >= y
    OBVIOUS
  <2>1. n - y \in B
    OBVIOUS
  <2>2. b <= n - y
    BY <1>2, <2>1
  <2> QED BY <1>3, <2>2
<1> QED BY <1>4 DEF Max

(* A half of the shares, rounded down, is no more than all of them. *)
LEMMA HalfOfShares ==
  \A n \in Nat : n \div 2 \in Nat /\ n \div 2 <= n
OBVIOUS

(* The stages are counted and their targets and locks are prices. *)
LEMMA StagesTyped ==
  /\ Len(Stages) \in Nat
  /\ \A i \in 1 .. Len(Stages) : Stages[i] \in [target : Nat, lock : Nat, take : {"none", "PARTIAL", "TAKE"}]
<1> DEFINE T == [target : Nat, lock : Nat, take : {"none", "PARTIAL", "TAKE"}]
<1>1. Rungs \in Seq(T) /\ Levels \in Seq(T)
  BY ConstantsAssumption
<1> HIDE DEF T
<1>2. Stages \in Seq(T)
  BY <1>1 DEF Stages
<1>3. Len(Stages) \in Nat /\ \A i \in 1 .. Len(Stages) : Stages[i] \in T
  BY <1>2
<1> QED BY <1>3 DEF T

(* A lock is a price. *)
LEMMA LockTyped ==
  ASSUME NEW i \in Rank, i # 0, NEW high \in Nat
  PROVE  Lock(i, high) \in Nat
<1>1. Stages[i].lock \in Nat /\ Trail \in Nat
  BY StagesTyped, ConstantsAssumption DEF Rank
<1>2. \A x \in Nat, y \in Int : Max({x, y}) \in Nat
  BY MaxOfTwo
<1>3. Max({Stages[i].lock, high - Trail}) \in Nat
  BY <1>1, <1>2
<1> QED BY <1>1, <1>3 DEF Lock

(* ComputeProtectedStop never falls below the line it starts from. *)
LEMMA ProtectedStop ==
  ASSUME NEW base \in Nat, NEW i \in Rank, NEW high \in Nat
  PROVE  /\ ComputeProtectedStop(base, i, high) \in Nat
         /\ ComputeProtectedStop(base, i, high) >= base
<1>1. CASE i = 0
  BY <1>1 DEF ComputeProtectedStop
<1>2. CASE i # 0
  <2>1. Lock(i, high) \in Nat
    BY <1>2, LockTyped
  <2> QED BY <1>2, <2>1, MaxOfTwo DEF ComputeProtectedStop
<1> QED BY <1>1, <1>2

(* The rung of an evaluation is a rung. *)
LEMMA HighestIsRung ==
  ASSUME NEW S \in SUBSET Rank
  PROVE  Highest(S) \in Rank
<1>1. S \cup {0} \subseteq 0 .. Len(Stages) /\ Len(Stages) \in Nat
  BY StagesTyped DEF Rank
<1> QED BY <1>1, MaxInRange DEF Highest, Rank

(* Every line an evaluation returns: it protects no less than the copy did, *)
(* sells no more than the copy holds, replaces a pending proposal only by   *)
(* asking for its cancel first, and takes a part only once.                 *)
LineOf(c, line) ==
    /\ line \in Lines
    /\ line.base >= c.base /\ line.high >= c.high /\ line.qty <= c.qty
    /\ line.qty > 0 => line.act # "none" /\ (c.pend.act # "none" => line.cancelFirst)
    /\ row.kind = "RATCHET" /\ line.act = "PARTIAL" => c.pend.act = "none" /\ ~c.taken

(* Line fills in the shares and the level of what was decided. *)
LineIs(line, c, base, high, act, cancelFirst) ==
    /\ line \in Lines
    /\ line.base = base /\ line.high = high /\ line.act = act /\ line.cancelFirst = cancelFirst
    /\ line.qty <= c.qty /\ (act = "none" => line.qty = 0)

LEMMA LineShape ==
  ASSUME NEW c \in Copies, NEW base \in Nat, NEW high \in Nat, NEW rung \in Rank, NEW act \in Actions,
         NEW cancelFirst \in BOOLEAN, NEW suppressed \in BOOLEAN
  PROVE  LineIs(Line(c, base, high, rung, act, cancelFirst, suppressed), c, base, high, act, cancelFirst)
<1>1. c.qty \in Nat
  BY DEF Copies
<1>2. ProjectWholeShares(c, act) \in Nat /\ ProjectWholeShares(c, act) <= c.qty
  BY <1>1, HalfOfShares DEF ProjectWholeShares
<1>3. 0 \in Rank
  BY StagesTyped DEF Rank
<1> HIDE DEF Rank, Actions, ProjectWholeShares
<1> QED BY <1>1, <1>2, <1>3 DEF Line, Lines, LineIs

(* Both evaluators, at every price. *)
LEMMA EvaluateShape ==
  ASSUME NEW c \in Copies, NEW p \in Nat, row.kind \in {"LADDER", "RATCHET"}
  PROVE  LineOf(c, Evaluate(c, p))
<1> DEFINE high == Max({c.high, p})
<1>c. /\ c.base \in Nat /\ c.high \in Nat /\ c.rung \in Rank /\ c.qty \in Nat
      /\ c.pend.act \in Actions /\ c.taken \in BOOLEAN
  BY DEF Copies, Pendings
<1>h. high \in Nat /\ high >= c.high
  <2>1. \A x, y \in Nat : Max({x, y}) \in Nat /\ Max({x, y}) >= x
    BY MaxOfTwo
  <2> QED BY <1>c, <2>1
<1>r. Reached(high) \subseteq Rank
  BY StagesTyped DEF Reached, Rank
<1> HIDE DEF high
<1>a. "none" \in Actions /\ "STOP" \in Actions /\ "PARTIAL" \in Actions
  BY DEF Actions
<1>l. ASSUME NEW line, NEW base \in Nat, base >= c.base, NEW act \in Actions, NEW cancelFirst \in BOOLEAN,
             LineIs(line, c, base, high, act, cancelFirst),
             act # "none" /\ c.pend.act # "none" => cancelFirst,
             row.kind = "RATCHET" /\ act = "PARTIAL" => c.pend.act = "none" /\ ~c.taken
      PROVE  LineOf(c, line)
  <2>1. line.qty \in Nat
    BY <1>l DEF LineIs, Lines
  <2> HIDE DEF Lines, Actions
  <2> QED BY <1>l, <1>h, <2>1 DEF LineIs, LineOf
<1>q. ASSUME NEW base \in Nat, NEW rung \in Rank, base >= c.base, NEW suppressed \in BOOLEAN
      PROVE  LineOf(c, Line(c, base, high, rung, "none", FALSE, suppressed))
  <2>1. LineIs(Line(c, base, high, rung, "none", FALSE, suppressed), c, base, high, "none", FALSE)
    BY <1>a, <1>h, LineShape
  <2> QED BY <1>a, <1>l, <1>q, <2>1
<1>b. ASSUME NEW base \in Nat, NEW rung \in Rank, base >= c.base
      PROVE  LineOf(c, Breached(c, p, base, high, rung, "STOP"))
  <2> DEFINE cancelFirst == c.pend.act # "none"
             stop == Line(c, base, high, rung, "STOP", cancelFirst, FALSE)
  <2>1. LineIs(stop, c, base, high, "STOP", cancelFirst)
    BY <1>a, <1>h, LineShape
  <2>2. LineOf(c, stop)
    <3>1. cancelFirst \in BOOLEAN
      OBVIOUS
    <3>2. "STOP" # "none" /\ c.pend.act # "none" => cancelFirst
      OBVIOUS
    <3> HIDE DEF stop, cancelFirst
    <3> QED BY <1>a, <1>b, <1>l, <2>1, <3>1, <3>2
  <2> QED BY <1>b, <1>q, <2>2 DEF Breached
<1>t. ASSUME NEW base \in Nat, NEW rung \in Rank, base >= c.base, NEW act \in Actions,
             act = "none" \/ c.pend.act = "none",
             row.kind = "RATCHET" /\ act = "PARTIAL" => ~c.taken
      PROVE  LineOf(c, Line(c, base, high, rung, act, FALSE, FALSE))
  <2>1. LineIs(Line(c, base, high, rung, act, FALSE, FALSE), c, base, high, act, FALSE)
    BY <1>h, LineShape
  <2> QED BY <1>l, <1>t, <2>1
<1>1. CASE row.kind = "LADDER"
  <2> DEFINE rung == Highest(Reached(high) \cup {c.rung})
             base == ComputeProtectedStop(c.base, rung, high)
             act  == IF rung > c.rung THEN Stages[rung].take ELSE "none"
  <2>1. rung \in Rank
    BY <1>c, <1>r, HighestIsRung
  <2>2. act \in Actions
    <3>1. rung > c.rung => rung \in 1 .. Len(Stages)
      BY <1>c, <2>1, StagesTyped DEF Rank
    <3> HIDE DEF rung
    <3> QED BY <3>1, StagesTyped DEF Actions
  <2> HIDE DEF rung
  <2>3. base \in Nat /\ base >= c.base
    BY <1>c, <1>h, <2>1, ProtectedStop
  <2>4. EvaluateLadder(c, p) =
          IF p < base THEN Breached(c, p, base, high, rung, "STOP")
          ELSE IF act # "none" /\ c.pend.act # "none"
               THEN Line(c, base, high, rung, "none", FALSE, TRUE)
               ELSE Line(c, base, high, rung, act, FALSE, FALSE)
    BY DEF EvaluateLadder, high, rung
  <2> HIDE DEF base, act
  <2> QED BY <1>1, <1>b, <1>q, <1>t, <2>1, <2>2, <2>3, <2>4 DEF Evaluate
<1>2. CASE row.kind = "RATCHET"
  <2> DEFINE rung == Highest(Reached(high))
             base == ComputeProtectedStop(c.base, rung, high)
             partial == rung > 0 /\ high >= PartialAt
  <2>1. rung \in Rank
    BY <1>r, HighestIsRung
  <2> HIDE DEF rung
  <2>3. base \in Nat /\ base >= c.base
    BY <1>c, <1>h, <2>1, ProtectedStop
  <2>4. EvaluateRatchet(c, p) =
          IF p < base THEN Breached(c, p, base, high, rung, "STOP")
          ELSE IF partial /\ (c.taken \/ c.pend.act # "none")
               THEN Line(c, base, high, rung, "none", FALSE, TRUE)
               ELSE Line(c, base, high, rung, IF partial THEN "PARTIAL" ELSE "none", FALSE, FALSE)
    BY DEF EvaluateRatchet, high, rung
  <2>5. "none" \in Actions /\ "PARTIAL" \in Actions
    BY DEF Actions
  <2> HIDE DEF base, partial
  <2>6. CASE partial /\ ~(c.taken \/ c.pend.act # "none")
    BY <1>2, <1>b, <1>t, <2>1, <2>3, <2>4, <2>5, <2>6 DEF Evaluate
  <2>7. CASE ~(partial /\ ~(c.taken \/ c.pend.act # "none"))
    BY <1>2, <1>b, <1>q, <2>1, <2>3, <2>4, <2>7 DEF Evaluate
  <2> QED BY <2>6, <2>7
<1> QED BY <1>1, <1>2

(* ------------------------------- the steps ------------------------------ *)

(* The row keeps its kind, so the stages of the policy stay what they were. *)
LEMMA Frame ==
  ASSUME row'.kind = row.kind
  PROVE  Rank' = Rank /\ Lines' = Lines /\ Pendings' = Pendings /\ Copies' = Copies
BY DEF Rank, Lines, Pendings, Copies, Stages

(* Only an arming numbers a proposal. *)
LEMMA SameNumbers ==
  asked' = asked => Mine' = Mine
BY DEF Mine

(* The ledger's part of the invariant, and the pass's. *)
LedgerInv == Numbered /\ Followed /\ Ended /\ Counted /\ NotTaken /\ PartialOnce
PassInv   == Judging /\ Judged /\ Released /\ Cleared /\ Submitting

(* A step that touches neither the ledger nor the broker. *)
LEMMA LedgerKept ==
  ASSUME LedgerInv, UNCHANGED <<row, qty, att, asked, seen, order, held>>
  PROVE  LedgerInv'
BY DEF LedgerInv, Numbered, Followed, Over, Ended, Unrecorded, Counted, NotTaken, PartialOnce, Mine, NeverSent

(* Between passes nothing is carried. *)
LEMMA PassEnds ==
  ASSUME pc' \notin InPass \cup {"judging", "armed", "placing"}
  PROVE  PassInv'
BY DEF InPass, PassInv, Judging, Judged, Released, Cleared, Submitting

(* A submission of the armed proposal moves its attempt and its order, and nothing else. *)
LEMMA SubmissionLedger ==
  ASSUME IInv, pc \in {"armed", "placing"}, UNCHANGED <<row, qty, asked, seen, held>>,
         order' \in [Orders -> [filled : Nat, acc : BOOLEAN, live : BOOLEAN]],
         \A i \in Orders : i # Mine => att'[i] = att[i] /\ order'[i] = order[i],
         order'[Mine].filled = order[Mine].filled,
         order'[Mine].live => order'[Mine].acc,
         ~order'[Mine].acc => ~order[Mine].acc,
         att'[Mine] \in NeverSent => ~order'[Mine].acc
  PROVE  LedgerInv'
<1>1. Mine' = Mine /\ Mine \in Orders /\ Mine # 0 /\ row.pend.intent = Mine
  BY SameNumbers DEF IInv, Typed, Pendings, Submitting
<1>2. Numbered' /\ NotTaken'
  BY <1>1 DEF IInv, Numbered, NotTaken
<1> HIDE DEF Mine
<1>3. Followed'
  <2>1. ASSUME NEW i \in Orders, i # Mine
        PROVE  order'[i] = order[i] /\ att'[i] = att[i] /\ seen'[i] = seen[i] /\ asked'[i] = asked[i]
    BY <2>1
  <2>2. ~seen[Mine].terminal /\ seen' = seen /\ asked' = asked
    BY <1>1 DEF IInv, Ended
  <2>3. att'[0] = "CONFIRMED"
    BY <1>1, ConstantsAssumption DEF IInv, Followed, Orders
  <2>4. \A i \in Intents : /\ att'[i] \in NeverSent => ~order'[i].acc
                           /\ i > Mine => att'[i] = "none" /\ ~seen'[i].terminal
    BY <1>1, <2>1 DEF IInv, Followed, Intents, Orders
  <2>5. order'[Mine].filled = order[Mine].filled /\ (~order'[Mine].acc => order[Mine].filled = 0)
    BY <1>1 DEF IInv, Followed
  <2>6. \A i \in Orders :
         /\ seen'[i].filled <= order'[i].filled /\ order'[i].filled <= asked'[i].qty
         /\ order'[i].live => order'[i].acc
         /\ ~order'[i].acc => order'[i].filled = 0
         /\ seen'[i].terminal => ~order'[i].live /\ seen'[i].filled = order'[i].filled
    BY <1>1, <2>1, <2>2, <2>5 DEF IInv, Followed
  <2>7. \A i \in Intents : /\ att'[i] \in NeverSent => ~order'[i].acc
                           /\ i > Mine' => att'[i] = "none" /\ ~seen'[i].terminal
    BY <1>1, <2>4
  <2> QED BY <2>3, <2>6, <2>7 DEF Followed, NeverSent
<1>4. Ended'
  BY <1>1 DEF IInv, Ended, Over, Intents, Orders
<1>5. \A i \in Orders : order'[i].filled = order[i].filled
  BY <1>1
<1>6. Counted'
  BY <1>1, <1>5, ConstantsAssumption DEF IInv, Counted, Unrecorded, Orders
<1>7. PartialOnce'
  BY <1>5 DEF IInv, PartialOnce, Intents, Orders
<1> QED BY <1>2, <1>3, <1>4, <1>6, <1>7 DEF LedgerInv

(* A verdict on attempts, and the release of a proposal nothing can come of. *)
LEMMA VerdictLedger ==
  ASSUME IInv, UNCHANGED <<qty, asked, seen, order, held>>, att'[0] = att[0],
         NEW p, p = row.pend.intent,
         \A i \in Intents : att'[i] # att[i] =>
            /\ att[i] \in {"DISPATCH_STARTED", "IN_DOUBT", "UNRESOLVED_IN_DOUBT"}
            /\ att'[i] \in NeverSent => ~order[i].acc,
         row'.kind = row.kind, row'.taken = row.taken,
         \/ row'.pend = row.pend
         \/ row'.pend = NoPending /\ (p # 0 => Over(p)')
  PROVE  LedgerInv'
<1>1. Mine' = Mine /\ Mine \in 0 .. MaxIntents /\ p \in Orders /\ MaxIntents \in Nat
  BY SameNumbers, ConstantsAssumption DEF IInv, Typed, Pendings, Numbered
<1> HIDE DEF Mine
<1>2. Numbered'
  BY <1>1 DEF IInv, Numbered, NoPending
<1>3. Followed'
  BY <1>1 DEF IInv, Followed, Intents, Orders, NeverSent
<1>4. \A i \in Intents : Over(i) => Over(i)'
  BY DEF Over, NeverSent
<1>5. row'.pend = row.pend \/ (row'.pend.intent = 0 /\ (p # 0 => Over(p)'))
  BY DEF NoPending
<1>6. Ended'
  <2>1. CASE row'.pend = row.pend
    BY <1>4, <2>1 DEF IInv, Ended
  <2>2. CASE row'.pend.intent = 0 /\ (p # 0 => Over(p)')
    <3>1. \A i \in Intents : i # 0
      BY <1>1 DEF Intents
    <3>2. \A i \in Intents : Over(i)'
      BY <1>1, <1>4, <2>2, <3>1 DEF IInv, Ended, Intents, Orders
    <3> QED BY <2>2, <3>2 DEF Ended
  <2> QED BY <1>5, <2>1, <2>2
<1>7. p # 0 /\ Over(p)' => order[p].filled = seen[p].filled
  <2> SUFFICES ASSUME p # 0, Over(p)' PROVE order[p].filled = seen[p].filled
    OBVIOUS
  <2>1. p \in Intents /\ order[p].filled \in Nat /\ seen[p].filled \in Nat
    BY SMTT(30), <1>1 DEF Intents, Orders, IInv, Typed
  <2>2. seen'[p].terminal => seen'[p].filled = order'[p].filled
    BY <2>1, <1>3 DEF Followed, Intents, Orders
  <2>3. att'[p] \in NeverSent => order'[p].filled = 0 /\ seen'[p].filled <= order'[p].filled
    BY <2>1, <1>3 DEF Followed, Intents, Orders
  <2>4. att'[p] \in NeverSent \/ seen'[p].terminal
    BY DEF Over, NeverSent
  <2> QED BY <2>1, <2>2, <2>3, <2>4
<1>8. Counted'
  <2>1. p \in Orders /\ 0 \in Orders
    BY <1>1 DEF Orders
  <2> QED BY <1>5, <1>7, <2>1 DEF IInv, Typed, Counted, Unrecorded
<1>9. NotTaken' /\ PartialOnce'
  BY DEF IInv, NotTaken, PartialOnce
<1> QED BY <1>2, <1>3, <1>6, <1>8, <1>9 DEF LedgerInv

(* What moves while a pass runs leaves true what the pass carries. *)
LEMMA PassKept ==
  ASSUME IInv, UNCHANGED <<pc, m, ev, todo, clear, asked>>,
         row'.kind = row.kind, row'.base = row.base, row'.high = row.high,
         row'.pend = row.pend \/ row'.pend = NoPending,
         row.pend.intent = 0 => qty' >= qty /\ (NothingSold => NothingSold'),
         \A j \in Intents : row.pend.intent \in {0, j} => qty' + seen'[j].filled >= qty + seen[j].filled,
         qty' \in Nat, seen' \in [Orders -> [filled : Nat, terminal : BOOLEAN]],
         EntryClear => EntryClear',
         row.pend.intent # 0 /\ att[row.pend.intent] \in {"none", "DISPATCH_STARTED"} =>
            /\ row'.pend = row.pend /\ att'[row.pend.intent] = att[row.pend.intent]
            /\ ~order[row.pend.intent].acc => ~order'[row.pend.intent].acc
  PROVE  PassInv'
<1>1. Mine' = Mine
  BY SameNumbers
<1>2. row'.pend.intent \in {0, row.pend.intent}
  BY DEF NoPending
<1>3. /\ m.pend.intent \in Orders /\ qty \in Nat /\ seen \in [Orders -> [filled : Nat, terminal : BOOLEAN]]
      /\ m.qty \in Nat /\ ev.qty \in Nat /\ ev.base \in Int /\ ev.high \in Int
  BY DEF IInv, Typed, Copies, Pendings, Lines
<1> HIDE DEF Mine
<1>4. ASSUME NEW shares \in Nat, Covered(shares) PROVE Covered(shares)'
  <2>1. m.pend.intent = 0 => row.pend.intent = 0 /\ shares <= qty /\ qty' >= qty
    BY <1>4 DEF Covered
  <2>2. m.pend.intent # 0 => /\ m.pend.intent \in Intents /\ row.pend.intent \in {0, m.pend.intent}
                             /\ shares <= qty + seen[m.pend.intent].filled
    BY <1>3, <1>4 DEF Covered, Intents, Orders
  <2>3. m.pend.intent # 0 => qty' + seen'[m.pend.intent].filled >= qty + seen[m.pend.intent].filled
    BY <2>2
  <2>4. /\ m.pend.intent = 0 => shares <= qty'
        /\ m.pend.intent # 0 => shares <= qty' + seen'[m.pend.intent].filled
    BY <1>3, <2>1, <2>2, <2>3
  <2> QED BY <1>2, <1>4, <2>4 DEF Covered
<1>5. m.pend.intent = 0 /\ (Covered(m.qty) \/ Covered(ev.qty)) => row.pend.intent = 0
  BY DEF Covered
<1>6. Judging'
  BY <1>3, <1>4, <1>5 DEF IInv, Judging
<1>7. Judged'
  BY <1>3, <1>4, <1>5 DEF IInv, Judged
<1>8. Released'
  BY <1>2, <1>3 DEF IInv, Released
<1>9. Cleared'
  BY <1>1 DEF IInv, Cleared
<1>10. Submitting'
  BY <1>1 DEF IInv, Submitting
<1> QED BY <1>6, <1>7, <1>8, <1>9, <1>10 DEF PassInv

(* Clearing a proposal keeps everything of the row but the proposal and its rung. *)
Cleans(r, i) ==
    /\ r \in [kind : {"LADDER", "RATCHET"}, base : Nat, high : Nat, rung : Rank,
              pend : Pendings, taken : BOOLEAN, done : BOOLEAN]
    /\ r.kind = row.kind /\ r.base = row.base /\ r.high = row.high /\ r.taken = row.taken
    /\ IF row.pend.intent = i /\ i # 0 THEN r.pend = NoPending ELSE r = row

LEMMA ReleaseShape ==
  ASSUME Typed, NEW i \in Orders
  PROVE  Cleans(clearExitProposalTx(row, i), i)
<1>1. row.pend \in Pendings /\ row.pend.level \in 0 .. Len(Stages) /\ Len(Stages) \in Nat
  BY StagesTyped DEF Typed, Pendings, Rank
<1>2. row.pend.level > 0 => row.pend.level - 1 \in Rank
  BY <1>1 DEF Rank
<1>3. NoPending \in Pendings
  BY <1>1, ConstantsAssumption DEF NoPending, Pendings, Actions, Orders, Rank
<1> HIDE DEF NoPending
<1> QED BY <1>2, <1>3 DEF Typed, Cleans, clearExitProposalTx

(* An empty copy and an empty line. *)
LEMMA Blank ==
  NoCopy \in Copies /\ NoLine \in Lines
<1>1. 0 \in Rank /\ 0 \in Orders
  BY StagesTyped, ConstantsAssumption DEF Rank, Orders
<1> HIDE DEF Rank, Orders
<1> QED BY <1>1 DEF NoCopy, NoLine, NoPending, Copies, Lines, Pendings, Actions

(* The verdict on the attempts of an intent, and what it allows to release. *)
LEMMA VerdictShape ==
  ASSUME Typed, NEW i \in Orders
  PROVE  /\ releasesUnaccepted(i) <=> att[i] \in NeverSent
         /\ releasesCleared(i) => Over(i)
         /\ Verdict(i) = "UNACCEPTED" => releasesUnaccepted(i) /\ att[i] # "none"
         /\ Verdict(i) = "NO_ATTEMPTS" => att[i] = "none"
         /\ Verdict(i) = "ORDERS_CLOSED" => seen[i].terminal
<1>1. att[i] \in AttemptStates /\ seen[i].terminal \in BOOLEAN
  BY DEF Typed
<1> QED BY <1>1 DEF Verdict, releasesUnaccepted, releasesCleared, Over, NeverSent, AttemptStates

(* A release takes the proposal whose attempts allow it, or nothing. *)
Frees(i) ==
    /\ row' \in [kind : {"LADDER", "RATCHET"}, base : Nat, high : Nat, rung : Rank,
                 pend : Pendings, taken : BOOLEAN, done : BOOLEAN]
    /\ row'.kind = row.kind /\ row'.base = row.base /\ row'.high = row.high /\ row'.taken = row.taken
    /\ row'.pend = row.pend \/ (row'.pend = NoPending /\ row.pend.intent = i /\ i # 0 /\ Over(i))
    /\ row.pend.intent = i /\ i # 0 /\ att[i] \in NeverSent => row'.pend = NoPending

LEMMA UnacceptedFrees ==
  ASSUME Typed, NEW i \in Orders, row' = ReleaseUnacceptedExitProposal(row, i)
  PROVE  Frees(i)
<1>1. CASE releasesUnaccepted(i)
  <2>1. row' = clearExitProposalTx(row, i) /\ Over(i)
    BY <1>1, VerdictShape DEF ReleaseUnacceptedExitProposal, Over
  <2> QED BY <2>1, ReleaseShape DEF Cleans, Frees
<1>2. CASE ~releasesUnaccepted(i)
  <2>1. row' = row /\ att[i] \notin NeverSent
    BY <1>2, VerdictShape DEF ReleaseUnacceptedExitProposal
  <2> QED BY <2>1 DEF Typed, Frees
<1> QED BY <1>1, <1>2

(* An accepted request is an order at the broker. *)
LEMMA AcceptedShape ==
  ASSUME IInv, Accepted \/ UNCHANGED order
  PROVE  /\ order' \in [Orders -> [filled : Nat, acc : BOOLEAN, live : BOOLEAN]]
         /\ \A i \in Orders : i # Mine => order'[i] = order[i]
         /\ order'[Mine].filled = order[Mine].filled
         /\ order'[Mine].live => order'[Mine].acc
         /\ ~order'[Mine].acc => ~order[Mine].acc
<1>1. /\ order \in [Orders -> [filled : Nat, acc : BOOLEAN, live : BOOLEAN]] /\ Mine \in Orders
      /\ order[Mine].live => order[Mine].acc
  BY ConstantsAssumption DEF IInv, Typed, Numbered, Followed, Orders
<1> HIDE DEF Mine
<1>2. CASE UNCHANGED order
  BY <1>1, <1>2
<1>3. CASE Accepted
  BY <1>1, <1>3 DEF Accepted
<1> QED BY <1>2, <1>3

(* A write that fails before the submission leaves the proposal armed. *)
LEMMA FailBeforeSubmissionStep ==
  ASSUME IInv, FailBeforeSubmission
  PROVE  IInv'
<1>1. UNCHANGED <<row, snap, qty, att, asked, seen, cxl, order, held, mkt, crashes>>
      /\ faults' = faults + 1 /\ EndPass
  BY DEF FailBeforeSubmission, journal, broker
<1>2. Rank' = Rank /\ Lines' = Lines /\ Pendings' = Pendings /\ Copies' = Copies
  BY <1>1, Frame
<1>3. Typed'
  BY <1>1, <1>2, Blank DEF IInv, Typed, EndPass, Steps
<1>4. LedgerInv'
  BY <1>1, LedgerKept DEF IInv, LedgerInv
<1>5. PassInv'
  BY <1>1, PassEnds DEF EndPass, InPass
<1>6. Carried'
  BY <1>1 DEF IInv, Typed, Carried
<1> QED BY <1>3, <1>4, <1>5, <1>6 DEF IInv, LedgerInv, PassInv

(* An answer that could not be recorded leaves the attempt dispatched. *)
LEMMA PlaceUnrecordedStep ==
  ASSUME IInv, PlaceUnrecorded
  PROVE  IInv'
<1>1. UNCHANGED <<row, snap, qty, asked, seen, cxl, held, mkt, crashes>> /\ att' = att
      /\ faults' = faults + 1 /\ (Accepted \/ UNCHANGED order) /\ pc = "placing" /\ EndPass
  BY DEF PlaceUnrecorded, journal, broker, MoreTrouble
<1>2. Rank' = Rank /\ Lines' = Lines /\ Pendings' = Pendings /\ Copies' = Copies
  BY <1>1, Frame
<1>m. Mine \in Orders /\ row.pend.intent = Mine /\ Mine # 0
  BY <1>1, ConstantsAssumption DEF IInv, Typed, Pendings, Submitting
<1> HIDE DEF Mine
<1>a. \A i \in Orders : att'[i] \in AttemptStates /\ (i # Mine => att'[i] = att[i])
  BY <1>1, <1>m DEF IInv, Typed, AttemptStates
<1>o. /\ order' \in [Orders -> [filled : Nat, acc : BOOLEAN, live : BOOLEAN]]
      /\ \A i \in Orders : i # Mine => order'[i] = order[i]
      /\ order'[Mine].filled = order[Mine].filled
      /\ order'[Mine].live => order'[Mine].acc
      /\ ~order'[Mine].acc => ~order[Mine].acc
      /\ att'[Mine] = "DISPATCH_STARTED"
  BY <1>1, AcceptedShape DEF IInv, Submitting

<1>3. Typed'
  BY <1>1, <1>2, <1>a, <1>o, Blank DEF IInv, Typed, EndPass, Steps, AttemptStates
<1>4. LedgerInv'
  BY <1>1, <1>m, <1>a, <1>o, SubmissionLedger DEF NeverSent
<1>5. PassInv'
  BY <1>1, PassEnds DEF EndPass, InPass
<1>6. Carried'
  BY <1>1, <1>m, <1>o DEF IInv, Typed, Submitting, Carried
<1> QED BY <1>3, <1>4, <1>5, <1>6 DEF IInv, LedgerInv, PassInv

(* The broker accepted the order, and its answer was recorded. *)
LEMMA PlaceConfirmedStep ==
  ASSUME IInv, PlaceConfirmed
  PROVE  IInv'
<1>1. UNCHANGED <<row, snap, qty, asked, seen, cxl, held, mkt, crashes>>
      /\ att' = [att EXCEPT ![Mine] = "CONFIRMED"]
      /\ UNCHANGED faults /\ Accepted /\ pc = "placing" /\ EndPass
  BY DEF PlaceConfirmed, journal, broker, MoreTrouble
<1>2. Rank' = Rank /\ Lines' = Lines /\ Pendings' = Pendings /\ Copies' = Copies
  BY <1>1, Frame
<1>m. Mine \in Orders /\ row.pend.intent = Mine /\ Mine # 0
  BY <1>1, ConstantsAssumption DEF IInv, Typed, Pendings, Submitting
<1> HIDE DEF Mine
<1>a. \A i \in Orders : att'[i] \in AttemptStates /\ (i # Mine => att'[i] = att[i])
  BY <1>1, <1>m DEF IInv, Typed, AttemptStates
<1>o. /\ order' \in [Orders -> [filled : Nat, acc : BOOLEAN, live : BOOLEAN]]
      /\ \A i \in Orders : i # Mine => order'[i] = order[i]
      /\ order'[Mine].filled = order[Mine].filled
      /\ order'[Mine].live => order'[Mine].acc
      /\ ~order'[Mine].acc => ~order[Mine].acc
      /\ att'[Mine] = "CONFIRMED"
  BY <1>1, <1>m, AcceptedShape DEF IInv, Typed

<1>3. Typed'
  BY <1>1, <1>2, <1>a, <1>o, Blank DEF IInv, Typed, EndPass, Steps, AttemptStates
<1>4. LedgerInv'
  BY <1>1, <1>m, <1>a, <1>o, SubmissionLedger DEF NeverSent
<1>5. PassInv'
  BY <1>1, PassEnds DEF EndPass, InPass
<1>6. Carried'
  BY <1>1, <1>m, <1>o DEF IInv, Typed, Submitting, Carried
<1> QED BY <1>3, <1>4, <1>5, <1>6 DEF IInv, LedgerInv, PassInv

(* No answer came: the broker may have accepted the order. *)
LEMMA PlaceInDoubtStep ==
  ASSUME IInv, PlaceInDoubt
  PROVE  IInv'
<1>1. UNCHANGED <<row, snap, qty, asked, seen, cxl, held, mkt, crashes>>
      /\ att' = [att EXCEPT ![Mine] = "IN_DOUBT"]
      /\ UNCHANGED faults /\ (Accepted \/ UNCHANGED order) /\ pc = "placing" /\ EndPass
  BY DEF PlaceInDoubt, journal, broker, MoreTrouble
<1>2. Rank' = Rank /\ Lines' = Lines /\ Pendings' = Pendings /\ Copies' = Copies
  BY <1>1, Frame
<1>m. Mine \in Orders /\ row.pend.intent = Mine /\ Mine # 0
  BY <1>1, ConstantsAssumption DEF IInv, Typed, Pendings, Submitting
<1> HIDE DEF Mine
<1>a. \A i \in Orders : att'[i] \in AttemptStates /\ (i # Mine => att'[i] = att[i])
  BY <1>1, <1>m DEF IInv, Typed, AttemptStates
<1>o. /\ order' \in [Orders -> [filled : Nat, acc : BOOLEAN, live : BOOLEAN]]
      /\ \A i \in Orders : i # Mine => order'[i] = order[i]
      /\ order'[Mine].filled = order[Mine].filled
      /\ order'[Mine].live => order'[Mine].acc
      /\ ~order'[Mine].acc => ~order[Mine].acc
      /\ att'[Mine] = "IN_DOUBT"
  BY <1>1, <1>m, AcceptedShape DEF IInv, Typed

<1>3. Typed'
  BY <1>1, <1>2, <1>a, <1>o, Blank DEF IInv, Typed, EndPass, Steps, AttemptStates
<1>4. LedgerInv'
  BY <1>1, <1>m, <1>a, <1>o, SubmissionLedger DEF NeverSent
<1>5. PassInv'
  BY <1>1, PassEnds DEF EndPass, InPass
<1>6. Carried'
  BY <1>1, <1>m, <1>o DEF IInv, Typed, Submitting, Carried
<1> QED BY <1>3, <1>4, <1>5, <1>6 DEF IInv, LedgerInv, PassInv

(* The broker refused the order: it is not there. *)
LEMMA PlaceUnacceptedStep ==
  ASSUME IInv, PlaceUnaccepted
  PROVE  IInv'
<1>1. UNCHANGED <<row, snap, qty, asked, seen, cxl, held, mkt, crashes>>
      /\ att' = [att EXCEPT ![Mine] = "FAILED_CONFIRMED"]
      /\ UNCHANGED <<faults, order, m, ev, todo, clear>> /\ pc = "placing" /\ pc' = "refused"
  BY DEF PlaceUnaccepted, journal, broker, MoreTrouble, Goto
<1>2. Rank' = Rank /\ Lines' = Lines /\ Pendings' = Pendings /\ Copies' = Copies
  BY <1>1, Frame
<1>m. Mine \in Orders /\ row.pend.intent = Mine /\ Mine # 0
  BY <1>1, ConstantsAssumption DEF IInv, Typed, Pendings, Submitting
<1> HIDE DEF Mine
<1>a. \A i \in Orders : att'[i] \in AttemptStates /\ (i # Mine => att'[i] = att[i])
  BY <1>1, <1>m DEF IInv, Typed, AttemptStates
<1>o. /\ order' \in [Orders -> [filled : Nat, acc : BOOLEAN, live : BOOLEAN]]
      /\ \A i \in Orders : i # Mine => order'[i] = order[i]
      /\ order'[Mine].filled = order[Mine].filled
      /\ order'[Mine].live => order'[Mine].acc
      /\ ~order'[Mine].acc => ~order[Mine].acc
      /\ att'[Mine] = "FAILED_CONFIRMED" /\ ~order'[Mine].acc
  BY <1>1, <1>m, AcceptedShape DEF IInv, Typed, Submitting

<1>3. Typed'
  BY <1>1, <1>2, <1>a, <1>o, Blank DEF IInv, Typed, EndPass, Steps, AttemptStates
<1>4. LedgerInv'
  BY <1>1, <1>m, <1>a, <1>o, SubmissionLedger DEF NeverSent
<1>5. PassInv'
  BY <1>1, PassEnds DEF InPass
<1>6. Carried'
  BY <1>1, <1>m, <1>o DEF IInv, Typed, Submitting, Carried
<1> QED BY <1>3, <1>4, <1>5, <1>6 DEF IInv, LedgerInv, PassInv

(* The attempt is on record before the request leaves. *)
LEMMA PlaceStep ==
  ASSUME IInv, Place
  PROVE  IInv'
<1>1. UNCHANGED <<row, snap, qty, asked, seen, cxl, held, mkt, crashes>>
      /\ att' = [att EXCEPT ![Mine] = "DISPATCH_STARTED"]
      /\ UNCHANGED <<faults, order, m, ev, todo, clear>> /\ pc = "armed" /\ pc' = "placing"
  BY DEF Place, journal, broker, MoreTrouble, Goto
<1>2. Rank' = Rank /\ Lines' = Lines /\ Pendings' = Pendings /\ Copies' = Copies
  BY <1>1, Frame
<1>m. Mine \in Orders /\ row.pend.intent = Mine /\ Mine # 0
  BY <1>1, ConstantsAssumption DEF IInv, Typed, Pendings, Submitting
<1> HIDE DEF Mine
<1>a. \A i \in Orders : att'[i] \in AttemptStates /\ (i # Mine => att'[i] = att[i])
  BY <1>1, <1>m DEF IInv, Typed, AttemptStates
<1>o. /\ order' \in [Orders -> [filled : Nat, acc : BOOLEAN, live : BOOLEAN]]
      /\ \A i \in Orders : i # Mine => order'[i] = order[i]
      /\ order'[Mine].filled = order[Mine].filled
      /\ order'[Mine].live => order'[Mine].acc
      /\ ~order'[Mine].acc => ~order[Mine].acc
      /\ att'[Mine] = "DISPATCH_STARTED" /\ ~order'[Mine].acc
  <2>1. ~order[Mine].acc /\ att'[Mine] = "DISPATCH_STARTED"
    BY <1>1, <1>m DEF IInv, Typed, Submitting, Followed, NeverSent, Intents, Orders
  <2> QED BY <1>1, <2>1, AcceptedShape

<1>3. Typed'
  BY <1>1, <1>2, <1>a, <1>o, Blank DEF IInv, Typed, EndPass, Steps, AttemptStates
<1>4. LedgerInv'
  BY <1>1, <1>m, <1>a, <1>o, SubmissionLedger DEF NeverSent
<1>5. PassInv'
  <2>1. Mine' = Mine
    BY <1>1, SameNumbers
  <2>2. Submitting'
    BY <1>1, <1>m, <1>o, <2>1 DEF Submitting
  <2>3. Judging' /\ Judged' /\ Released' /\ Cleared'
    BY <1>1 DEF InPass, Judging, Judged, Released, Cleared
  <2> QED BY <2>2, <2>3 DEF PassInv
<1>6. Carried'
  BY <1>1, <1>m, <1>o DEF IInv, Typed, Submitting, Carried
<1> QED BY <1>3, <1>4, <1>5, <1>6 DEF IInv, LedgerInv, PassInv

(* Nothing left: the proposal is released. *)
LEMMA RefuseSubmissionStep ==
  ASSUME IInv, RefuseSubmission
  PROVE  IInv'
<1>1. UNCHANGED <<snap, qty, att, asked, seen, cxl, order, held, mkt, crashes>>
      /\ release /\ UNCHANGED faults /\ EndPass /\ pc = "armed"
  BY DEF RefuseSubmission, journal, broker, MoreTrouble
<1>i. Mine \in Orders
  BY ConstantsAssumption DEF IInv, Numbered, Orders
<1>f. Frees(Mine)
  BY <1>1, <1>i, UnacceptedFrees DEF IInv, release
<1>2. Rank' = Rank /\ Lines' = Lines /\ Pendings' = Pendings /\ Copies' = Copies
  BY <1>f, Frame DEF Frees
<1>3. Typed'
  BY <1>1, <1>2, <1>f, Blank DEF IInv, Typed, EndPass, Steps, Frees
<1>4. LedgerInv'
  <2>2. PICK p \in Orders : p = row.pend.intent
    BY DEF IInv, Typed, Pendings
  <2>3. row'.pend = row.pend \/ (row'.pend = NoPending /\ (p # 0 => Over(p)'))
    BY <1>1, <1>f, <2>2 DEF Frees, Over
  <2>4. att'[0] = att[0] /\ \A i \in Intents : att'[i] = att[i]
    BY <1>1
  <2> QED BY <1>1, <1>f, <2>2, <2>3, <2>4, VerdictLedger DEF Frees
<1>5. PassInv'
  BY <1>1, PassEnds DEF EndPass, InPass
<1>6. Carried'
  BY <1>1, <1>f DEF IInv, Submitting, NeverSent, Frees, NoPending, Carried
<1> QED BY <1>3, <1>4, <1>5, <1>6 DEF IInv, LedgerInv, PassInv

(* A proposal proven unaccepted is released when a pass finds it. *)
LEMMA noteHeldProposalStep ==
  ASSUME IInv, noteHeldProposal
  PROVE  IInv'
<1>1. UNCHANGED <<snap, qty, att, asked, seen, cxl, order, held, mkt, crashes>>
      /\ EndPass /\ pc = "judging" /\ UNCHANGED faults
      /\ row' = ReleaseUnacceptedExitProposal(row, m.pend.intent)
  BY DEF noteHeldProposal, journal, broker, MoreTrouble
<1>i. m.pend.intent \in Orders
  BY DEF IInv, Typed, Copies, Pendings
<1>f. Frees(m.pend.intent)
  BY <1>1, <1>i, UnacceptedFrees DEF IInv, release
<1>2. Rank' = Rank /\ Lines' = Lines /\ Pendings' = Pendings /\ Copies' = Copies
  BY <1>f, Frame DEF Frees
<1>3. Typed'
  BY <1>1, <1>2, <1>f, Blank DEF IInv, Typed, EndPass, Steps, Frees
<1>4. LedgerInv'
  <2>2. PICK p \in Orders : p = row.pend.intent
    BY DEF IInv, Typed, Pendings
  <2>3. row'.pend = row.pend \/ (row'.pend = NoPending /\ (p # 0 => Over(p)'))
    BY <1>1, <1>f, <2>2 DEF Frees, Over
  <2>4. att'[0] = att[0] /\ \A i \in Intents : att'[i] = att[i]
    BY <1>1
  <2> QED BY <1>1, <1>f, <2>2, <2>3, <2>4, VerdictLedger DEF Frees
<1>5. PassInv'
  BY <1>1, PassEnds DEF EndPass, InPass
<1>6. Carried'
  BY <1>1, <1>f DEF IInv, Frees, NoPending, Carried
<1> QED BY <1>3, <1>4, <1>5, <1>6 DEF IInv, LedgerInv, PassInv

(* The refused proposal is released, or the write fails. *)
LEMMA ReleaseRefusedStep ==
  ASSUME IInv, ReleaseRefused
  PROVE  IInv'
<1>1. UNCHANGED <<snap, qty, att, asked, seen, cxl, order, held, mkt, crashes>>
      /\ ((release /\ UNCHANGED faults) \/ (faults' = faults + 1 /\ UNCHANGED row))
      /\ EndPass /\ pc = "refused"
  BY DEF ReleaseRefused, MoreTrouble, broker
<1>i. Mine \in Orders
  BY ConstantsAssumption DEF IInv, Numbered, Orders
<1>f. Frees(Mine) \/ UNCHANGED row
  BY <1>1, <1>i, UnacceptedFrees DEF IInv, release
<1>g. /\ row' \in [kind : {"LADDER", "RATCHET"}, base : Nat, high : Nat, rung : Rank,
                   pend : Pendings, taken : BOOLEAN, done : BOOLEAN]
      /\ row'.kind = row.kind /\ row'.taken = row.taken
  BY <1>f DEF Frees, IInv, Typed
<1>2. Rank' = Rank /\ Lines' = Lines /\ Pendings' = Pendings /\ Copies' = Copies
  BY <1>g, Frame
<1>3. Typed'
  BY <1>1, <1>2, <1>g, Blank DEF IInv, Typed, EndPass, Steps
<1>4. LedgerInv'
  <2>2. PICK p \in Orders : p = row.pend.intent
    BY DEF IInv, Typed, Pendings
  <2>3. row'.pend = row.pend \/ (row'.pend = NoPending /\ (p # 0 => Over(p)'))
    BY <1>1, <1>f, <2>2 DEF Frees, Over
  <2>4. att'[0] = att[0] /\ \A i \in Intents : att'[i] = att[i]
    BY <1>1
  <2> QED BY <1>1, <1>g, <2>2, <2>3, <2>4, VerdictLedger
<1>5. PassInv'
  BY <1>1, PassEnds DEF EndPass, InPass
<1>6. Carried'
  BY <1>1, <1>f DEF IInv, Typed, Frees, NoPending, Carried
<1> QED BY <1>3, <1>4, <1>5, <1>6 DEF IInv, LedgerInv, PassInv

(* A crash loses the pass; a request on its way may have been accepted. *)
LEMMA CrashStep ==
  ASSUME IInv, Crash
  PROVE  IInv'
<1>1. /\ UNCHANGED <<row, snap, qty, att, asked, seen, cxl, held, mkt, faults>> /\ crashes' = crashes + 1
      /\ pc' = "down" /\ m' = NoCopy /\ ev' = NoLine /\ todo' = {} /\ clear' = TRUE
      /\ UNCHANGED order \/ (pc = "placing" /\ Accepted)
  BY DEF Crash, journal, MoreTrouble
<1>2. Rank' = Rank /\ Lines' = Lines /\ Pendings' = Pendings /\ Copies' = Copies
  BY <1>1, Frame
<1>o. /\ order' \in [Orders -> [filled : Nat, acc : BOOLEAN, live : BOOLEAN]]
      /\ \A i \in Orders : i # Mine => order'[i] = order[i]
      /\ order'[Mine].filled = order[Mine].filled
      /\ order'[Mine].live => order'[Mine].acc
      /\ ~order'[Mine].acc => ~order[Mine].acc
  BY <1>1, AcceptedShape
<1>3. Typed'
  BY <1>1, <1>2, <1>o, Blank DEF IInv, Typed, Steps
<1>4. LedgerInv'
  <2>1. CASE UNCHANGED order
    BY <1>1, <2>1, LedgerKept DEF IInv, LedgerInv
  <2>2. CASE pc = "placing"
    <3>1. att'[Mine] \notin NeverSent
      BY <1>1, <2>2 DEF IInv, Submitting, NeverSent
    <3> QED BY <1>1, <1>o, <2>2, <3>1, SubmissionLedger
  <2> QED BY <1>1, <2>1, <2>2
<1>5. PassInv'
  BY <1>1, PassEnds DEF InPass
<1>6. Carried'
  BY <1>1 DEF Carried
<1> QED BY <1>3, <1>4, <1>5, <1>6 DEF IInv, LedgerInv, PassInv

(* A start takes every dispatched attempt as in doubt and releases a proposal without one. *)
LEMMA catchUpExitProposalsStep ==
  ASSUME IInv, catchUpExitProposals
  PROVE  IInv'
<1>1. /\ UNCHANGED <<snap, qty, asked, seen, cxl, order, held, mkt, crashes, faults>> /\ EndPass
      /\ att' = [i \in Orders |-> IF att[i] = "DISPATCH_STARTED" THEN "IN_DOUBT" ELSE att[i]]
      /\ row' = IF row.pend.intent = 0 THEN row ELSE ReleaseUnacceptedExitProposal(row, row.pend.intent)
  BY DEF catchUpExitProposals, broker
<1>p. PICK p \in Orders : p = row.pend.intent
  BY DEF IInv, Typed, Pendings
<1>f. Frees(p)
  <2>1. CASE p = 0
    BY <1>1, <1>p, <2>1 DEF IInv, Typed, Frees
  <2>2. CASE p # 0
    BY <1>1, <1>p, <2>2, UnacceptedFrees DEF IInv
  <2> QED BY <2>1, <2>2
<1>2. Rank' = Rank /\ Lines' = Lines /\ Pendings' = Pendings /\ Copies' = Copies
  BY <1>f, Frame DEF Frees
<1>a. /\ att' \in [Orders -> AttemptStates]
      /\ \A i \in Orders : \/ att'[i] = att[i] /\ att[i] # "DISPATCH_STARTED"
                           \/ att'[i] = "IN_DOUBT" /\ att[i] = "DISPATCH_STARTED"
  BY <1>1 DEF IInv, Typed, AttemptStates
<1>3. Typed'
  BY <1>1, <1>2, <1>a, <1>f, Blank DEF IInv, Typed, EndPass, Steps, Frees
<1>4. LedgerInv'
  <2>1. att'[0] = att[0]
    <3>1. att[0] = "CONFIRMED" /\ 0 \in Orders
      BY ConstantsAssumption DEF IInv, Followed, Orders
    <3> QED BY <1>a, <3>1
  <2>2. \A i \in Intents : att'[i] # att[i] =>
            /\ att[i] \in {"DISPATCH_STARTED", "IN_DOUBT", "UNRESOLVED_IN_DOUBT"}
            /\ att'[i] \in NeverSent => ~order[i].acc
    BY <1>a DEF NeverSent, Intents, Orders
  <2>3. Over(p) => Over(p)'
    BY <1>1, <1>a DEF Over, NeverSent
  <2>4. row'.pend = row.pend \/ (row'.pend = NoPending /\ (p # 0 => Over(p)'))
    BY <1>f, <2>3 DEF Frees
  <2> QED BY <1>1, <1>f, <1>p, <2>1, <2>2, <2>4, VerdictLedger DEF Frees
<1>5. PassInv'
  BY <1>1, PassEnds DEF EndPass, InPass
<1>6. Carried'
  BY <1>1, <1>a, <1>f, <1>p DEF IInv, Frees, NoPending, NeverSent, Carried
<1> QED BY <1>3, <1>4, <1>5, <1>6 DEF IInv, LedgerInv, PassInv

(* A step that records no fill leaves the pass as it was. *)
LEMMA PassUntouched ==
  ASSUME IInv, UNCHANGED <<pc, m, ev, todo, clear, asked, qty, seen>>,
         row'.kind = row.kind, row'.base = row.base, row'.high = row.high,
         row'.pend = row.pend \/ row'.pend = NoPending,
         row.pend.intent = 0 /\ NothingSold => NothingSold',
         EntryClear => EntryClear',
         row.pend.intent # 0 /\ att[row.pend.intent] \in {"none", "DISPATCH_STARTED"} =>
            /\ row'.pend = row.pend /\ att'[row.pend.intent] = att[row.pend.intent]
            /\ ~order[row.pend.intent].acc => ~order'[row.pend.intent].acc
  PROVE  PassInv'
<1>1. /\ qty' \in Nat /\ seen' \in [Orders -> [filled : Nat, terminal : BOOLEAN]]
      /\ qty \in Nat /\ seen \in [Orders -> [filled : Nat, terminal : BOOLEAN]]
  BY DEF IInv, Typed
<1>2. \A j \in Intents : seen[j].filled \in Nat
  BY SMTT(30), <1>1, ConstantsAssumption DEF Intents, Orders
<1>3. qty' >= qty /\ \A j \in Intents : qty' + seen'[j].filled >= qty + seen[j].filled
  BY <1>1, <1>2
<1> HIDE DEF NothingSold, EntryClear
<1> QED BY <1>1, <1>3, PassKept

(* The market changes nothing of the journal or the pass. *)
LEMMA MarketMovesStep ==
  ASSUME IInv, MarketMoves
  PROVE  IInv'
<1>1. UNCHANGED <<row, snap, qty, att, asked, seen, cxl, order, held, pc, m, ev, todo, clear, crashes, faults>>
      /\ mkt' \in Prices
  BY DEF MarketMoves, journal, pass
<1>2. Rank' = Rank /\ Lines' = Lines /\ Pendings' = Pendings /\ Copies' = Copies
  BY <1>1, Frame
<1>3. Typed'
  BY <1>1, <1>2, ConstantsAssumption DEF IInv, Typed
<1>4. LedgerInv'
  BY <1>1, LedgerKept DEF IInv, LedgerInv
<1>5. PassInv'
  <2>1. (NothingSold => NothingSold') /\ (EntryClear => EntryClear')
    BY <1>1 DEF NothingSold, EntryClear
  <2> QED BY <1>1, <2>1, PassUntouched
<1>6. Carried'
  BY <1>1 DEF IInv, Carried
<1> QED BY <1>3, <1>4, <1>5, <1>6 DEF IInv, LedgerInv, PassInv

(* A pass begins with copies that are true. *)
LEMMA ObserveOnceStep ==
  ASSUME IInv, ObserveOnce
  PROVE  IInv'
<1>1. UNCHANGED <<row, snap, qty, att, asked, seen, cxl, order, held, mkt, ev, todo, clear, crashes, faults>>
      /\ m' = Copy /\ pc' = "judging" /\ pc = "idle"
  BY DEF ObserveOnce, Goto, journal, broker
<1>2. Rank' = Rank /\ Lines' = Lines /\ Pendings' = Pendings /\ Copies' = Copies
  BY <1>1, Frame
<1>c. /\ Copy \in Copies /\ Copy.base = row.base /\ Copy.high = row.high /\ Copy.pend = row.pend
      /\ Copy.taken = row.taken /\ Copy.qty = qty
  BY DEF IInv, Typed, Copy, Copies
<1> HIDE DEF Copy
<1>3. Typed'
  BY <1>1, <1>2, <1>c DEF IInv, Typed, Steps
<1>4. LedgerInv'
  BY <1>1, LedgerKept DEF IInv, LedgerInv
<1>5. PassInv'
  <2>1. row.pend.intent = 0 /\ ~row.taken => NothingSold
    <3> SUFFICES ASSUME row.pend.intent = 0, ~row.taken, NEW i \in Intents PROVE order[i].filled = 0
      BY DEF NothingSold
    <3>1. seen[i].filled = 0 /\ i \in Orders /\ Over(i)
      BY ConstantsAssumption DEF IInv, NotTaken, Ended, Intents, Orders
    <3> QED BY <3>1 DEF IInv, Over, Followed
  <2>2. row.pend.intent \in Orders /\ qty \in Nat /\ seen[row.pend.intent].filled \in Nat
    BY DEF IInv, Typed, Pendings
  <2>3. Judging'
    BY <1>1, <1>c, <2>1, <2>2 DEF IInv, Numbered, Judging, Covered, NothingSold
  <2> QED BY <1>1, <2>3 DEF InPass, PassInv, Judged, Released, Cleared, Submitting
<1>6. Carried'
  BY <1>1 DEF IInv, Carried
<1> QED BY <1>3, <1>4, <1>5, <1>6 DEF IInv, LedgerInv, PassInv

(* A verdict of the resolver on an attempt in doubt. *)
LEMMA ResolveStep ==
  ASSUME IInv, NEW i \in Orders, Resolve(i)
  PROVE  IInv'
<1>1. UNCHANGED <<row, snap, qty, asked, seen, cxl, order, held, mkt, pc, m, ev, todo, clear, crashes, faults>>
      /\ att[i] = "IN_DOUBT"
  BY DEF Resolve, broker, pass
<1>2. Rank' = Rank /\ Lines' = Lines /\ Pendings' = Pendings /\ Copies' = Copies
  BY <1>1, Frame
<1>a. /\ att' \in [Orders -> AttemptStates] /\ att'[i] # "none"
      /\ \A j \in Orders : j # i => att'[j] = att[j]
      /\ att'[i] \in NeverSent => ~order[i].acc
  BY DEF Resolve, IInv, Typed, AttemptStates, NeverSent
<1>3. Typed'
  BY <1>1, <1>2, <1>a DEF IInv, Typed
<1>4. LedgerInv'
  <2>1. att'[0] = att[0]
    <3>1. i # 0 /\ 0 \in Orders
      BY <1>1, ConstantsAssumption DEF IInv, Followed, Orders
    <3> QED BY <1>a, <3>1
  <2>2. \A j \in Intents : att'[j] # att[j] =>
            /\ att[j] \in {"DISPATCH_STARTED", "IN_DOUBT", "UNRESOLVED_IN_DOUBT"}
            /\ att'[j] \in NeverSent => ~order[j].acc
    BY <1>1, <1>a DEF Intents, Orders
  <2> QED BY <1>1, <2>1, <2>2, VerdictLedger
<1>5. PassInv'
  <2>1. \A j \in Orders : att[j] \in {"none", "DISPATCH_STARTED"} => att'[j] = att[j]
    BY <1>1, <1>a
  <2>2. (NothingSold => NothingSold') /\ (EntryClear => EntryClear')
    BY <1>1 DEF NothingSold, EntryClear
  <2>3. row.pend.intent \in Orders
    BY DEF IInv, Typed, Pendings
  <2> QED BY <1>1, <2>1, <2>2, <2>3, PassUntouched
<1>6. Carried'
  BY <1>1, <1>a DEF IInv, Typed, Pendings, Carried
<1> QED BY <1>3, <1>4, <1>5, <1>6 DEF IInv, LedgerInv, PassInv

(* A verdict on a cancel in doubt. *)
LEMMA ResolveCancelStep ==
  ASSUME IInv, NEW i \in Orders, ResolveCancel(i)
  PROVE  IInv'
<1>1. UNCHANGED <<row, snap, qty, att, asked, seen, order, held, mkt, pc, m, ev, todo, clear, crashes, faults>>
      /\ cxl[i] = "IN_DOUBT"
  BY DEF ResolveCancel, broker, pass
<1>2. Rank' = Rank /\ Lines' = Lines /\ Pendings' = Pendings /\ Copies' = Copies
  BY <1>1, Frame
<1>a. /\ cxl' \in [Orders -> {"none", "IN_DOUBT", "CONFIRMED"}]
      /\ \A j \in Orders : j # i => cxl'[j] = cxl[j]
  BY DEF ResolveCancel, IInv, Typed
<1>3. Typed'
  BY <1>1, <1>2, <1>a DEF IInv, Typed
<1>4. LedgerInv'
  BY <1>1, LedgerKept DEF IInv, LedgerInv
<1>5. PassInv'
  <2>1. EntryClear => EntryClear'
    BY <1>1, <1>a, ConstantsAssumption DEF EntryClear, Orders
  <2>2. NothingSold => NothingSold'
    BY <1>1 DEF NothingSold
  <2> QED BY <1>1, <2>1, <2>2, PassUntouched
<1>6. Carried'
  BY <1>1 DEF IInv, Carried
<1> QED BY <1>3, <1>4, <1>5, <1>6 DEF IInv, LedgerInv, PassInv

(* The operator's verdict on a parked attempt, and the release that goes with it. *)
LEMMA attemptThawStep ==
  ASSUME IInv, NEW i \in Orders, attemptThaw(i)
  PROVE  IInv'
<1>1. UNCHANGED <<snap, qty, asked, seen, cxl, order, held, mkt, pc, m, ev, todo, clear, crashes, faults>>
      /\ att[i] = "UNRESOLVED_IN_DOUBT"
  BY DEF attemptThaw, broker, pass
<1>a. /\ att' \in [Orders -> AttemptStates] /\ att'[i] # "none"
      /\ \A j \in Orders : j # i => att'[j] = att[j]
      /\ att'[i] \in NeverSent => ~order[i].acc
      /\ row' = row \/ (row' = clearExitProposalTx(row, i) /\ att'[i] \in NeverSent)
  BY DEF attemptThaw, IInv, Typed, AttemptStates, NeverSent
<1>g. /\ row' \in [kind : {"LADDER", "RATCHET"}, base : Nat, high : Nat, rung : Rank,
                   pend : Pendings, taken : BOOLEAN, done : BOOLEAN]
      /\ row'.kind = row.kind /\ row'.taken = row.taken /\ row'.base = row.base /\ row'.high = row.high
      /\ \/ row'.pend = row.pend
         \/ row'.pend = NoPending /\ row.pend.intent = i /\ att'[i] \in NeverSent
  BY <1>a, ReleaseShape DEF IInv, Typed, Cleans
<1>2. Rank' = Rank /\ Lines' = Lines /\ Pendings' = Pendings /\ Copies' = Copies
  BY <1>g, Frame
<1>3. Typed'
  BY <1>1, <1>2, <1>a, <1>g DEF IInv, Typed
<1>4. LedgerInv'
  <2>1. att'[0] = att[0]
    BY <1>1, <1>a, ConstantsAssumption DEF IInv, Followed, Orders
  <2>2. \A j \in Intents : att'[j] # att[j] =>
            /\ att[j] \in {"DISPATCH_STARTED", "IN_DOUBT", "UNRESOLVED_IN_DOUBT"}
            /\ att'[j] \in NeverSent => ~order[j].acc
    BY <1>1, <1>a DEF Intents, Orders
  <2>3. PICK p \in Orders : p = row.pend.intent
    BY DEF IInv, Typed, Pendings
  <2>4. row'.pend = row.pend \/ (row'.pend = NoPending /\ (p # 0 => Over(p)'))
    BY <1>g, <2>3 DEF Over, NeverSent
  <2> QED BY <1>1, <1>g, <2>1, <2>2, <2>3, <2>4, VerdictLedger
<1>5. PassInv'
  <2>1. row.pend.intent # 0 /\ att[row.pend.intent] \in {"none", "DISPATCH_STARTED"} =>
          row'.pend = row.pend /\ att'[row.pend.intent] = att[row.pend.intent]
    BY <1>1, <1>a, <1>g DEF IInv, Typed, Pendings
  <2>2. (NothingSold => NothingSold') /\ (EntryClear => EntryClear')
    BY <1>1 DEF NothingSold, EntryClear
  <2> QED BY <1>1, <1>g, <2>1, <2>2, PassUntouched
<1>6. Carried'
  BY <1>1, <1>a, <1>g DEF IInv, Typed, Pendings, NoPending, Carried
<1> QED BY <1>3, <1>4, <1>5, <1>6 DEF IInv, LedgerInv, PassInv

(* An order that works no more. *)
LEMMA BrokerCloseStep ==
  ASSUME IInv, NEW i \in Orders, BrokerClose(i)
  PROVE  IInv'
<1>1. UNCHANGED <<row, snap, qty, att, asked, seen, cxl, held, mkt, pc, m, ev, todo, clear, crashes, faults>>
  BY DEF BrokerClose, journal, pass
<1>2. Rank' = Rank /\ Lines' = Lines /\ Pendings' = Pendings /\ Copies' = Copies
  BY <1>1, Frame
<1>o. /\ order' \in [Orders -> [filled : Nat, acc : BOOLEAN, live : BOOLEAN]]
      /\ \A j \in Orders : /\ order'[j].filled = order[j].filled /\ order'[j].acc = order[j].acc
                           /\ order'[j].live => order[j].live
  BY DEF BrokerClose, IInv, Typed
<1>3. Typed'
  BY <1>1, <1>2, <1>o DEF IInv, Typed
<1>4. LedgerInv'
  <2>1. Mine' = Mine
    BY <1>1, SameNumbers
  <2>2. \A j \in Intents : j \in Orders
    BY ConstantsAssumption DEF Intents, Orders
  <2> HIDE DEF Mine
  <2>3. Followed'
    BY <1>1, <1>o, <2>1, <2>2 DEF IInv, Followed, NeverSent
  <2>4. Numbered' /\ Ended' /\ NotTaken'
    BY <1>1, <2>1 DEF IInv, Numbered, Ended, Over, NeverSent, NotTaken
  <2>5. Counted'
    <3>1. row.pend.intent \in Orders /\ 0 \in Orders
      BY ConstantsAssumption DEF IInv, Typed, Pendings, Orders
    <3>2. order'[0].filled = order[0].filled /\ order'[row.pend.intent].filled = order[row.pend.intent].filled
      BY <1>o, <3>1
    <3> QED BY <1>1, <3>2 DEF IInv, Counted, Unrecorded
  <2>6. PartialOnce'
    BY <1>1, <1>o, <2>2 DEF IInv, PartialOnce
  <2> QED BY <2>3, <2>4, <2>5, <2>6 DEF LedgerInv
<1>5. PassInv'
  <2>1. /\ NothingSold => NothingSold'
        /\ row.pend.intent # 0 /\ ~order[row.pend.intent].acc => ~order'[row.pend.intent].acc
    <3>1. row.pend.intent \in Orders /\ \A j \in Intents : j \in Orders
      BY SMTT(30), ConstantsAssumption DEF IInv, Typed, Pendings, Intents, Orders
    <3> QED BY <1>o, <3>1 DEF NothingSold
  <2>2. EntryClear => EntryClear'
    BY <1>1 DEF EntryClear
  <2> QED BY <1>1, <2>1, <2>2, PassUntouched
<1>6. Carried'
  BY <1>1 DEF IInv, Carried
<1> QED BY <1>3, <1>4, <1>5, <1>6 DEF IInv, LedgerInv, PassInv

(* One share of a working order. *)
LEMMA BrokerFillStep ==
  ASSUME IInv, NEW i \in Orders, BrokerFill(i)
  PROVE  IInv'
<1>1. /\ UNCHANGED <<row, snap, qty, att, asked, seen, cxl, mkt, pc, m, ev, todo, clear, crashes, faults>>
      /\ order[i].live /\ order[i].filled < asked[i].qty
      /\ held' = IF i = 0 THEN held + 1 ELSE held - 1
  BY DEF BrokerFill, journal, pass
<1>2. Rank' = Rank /\ Lines' = Lines /\ Pendings' = Pendings /\ Copies' = Copies
  BY <1>1, Frame
<1>o. /\ order' \in [Orders -> [filled : Nat, acc : BOOLEAN, live : BOOLEAN]]
      /\ \A j \in Orders : j # i => order'[j] = order[j]
      /\ order'[i].filled = order[i].filled + 1 /\ order'[i].acc = order[i].acc
  <2>1. order \in [Orders -> [filled : Nat, acc : BOOLEAN, live : BOOLEAN]]
    BY DEF IInv, Typed
  <2> DEFINE more == order[i].filled + 1
             after == [filled |-> more, acc |-> order[i].acc, live |-> more < asked[i].qty]
  <2>2. order' = [order EXCEPT ![i] = after]
    BY <2>1 DEF BrokerFill
  <2>3. more \in Nat /\ order[i].acc \in BOOLEAN
    BY <2>1
  <2>4. /\ after \in [filled : Nat, acc : BOOLEAN, live : BOOLEAN]
        /\ after.filled = more /\ after.acc = order[i].acc
    <3> HIDE DEF more
    <3> QED BY <2>3
  <2> HIDE DEF after
  <2> QED BY <2>1, <2>2, <2>4
<1>p. PICK p \in Orders : p = row.pend.intent
  BY DEF IInv, Typed, Pendings
<1>b. \A j \in Intents : j \in Orders /\ j # 0
  BY ConstantsAssumption DEF Intents, Orders
<1>s. /\ i = 0 \/ (i = p /\ i \in Intents)
      /\ order[i].acc /\ ~seen[i].terminal
  <2>1. order[i].acc /\ ~seen[i].terminal
    BY <1>1 DEF IInv, Followed
  <2>2. i # 0 => i \in Intents
    BY DEF Intents, Orders
  <2> QED BY <1>p, <2>1, <2>2 DEF IInv, Ended, Over, Followed
<1>n. /\ qty \in Nat /\ held \in Nat
      /\ \A j \in Orders : order[j].filled \in Nat /\ seen[j].filled \in Nat /\ asked[j].qty \in Nat
                           /\ seen[j].filled <= order[j].filled
      /\ 0 \in Orders
  <2>1. 0 \in Orders
    BY ConstantsAssumption DEF Orders
  <2> QED BY <2>1 DEF IInv, Typed, Followed
<1>h. held' \in Nat
  <2>1. CASE i = 0
    BY <1>1, <1>n, <2>1
  <2>2. CASE i # 0
    <3>1. /\ held = qty + Unrecorded(0) - Unrecorded(p)
          /\ asked[p].qty <= qty + seen[p].filled
      BY <1>p, <1>s, <2>2 DEF IInv, Counted
    <3>2. held - 1 >= 0
      BY <1>1, <1>n, <1>s, <2>2, <3>1 DEF Unrecorded
    <3> QED BY <1>1, <1>n, <2>2, <3>2
  <2> QED BY <2>1, <2>2
<1>3. Typed'
  BY <1>1, <1>2, <1>h, <1>o DEF IInv, Typed
<1>4. LedgerInv'
  <2>1. Mine' = Mine
    BY <1>1, SameNumbers
  <2> HIDE DEF Mine
  <2>3. Followed'
    <3>1. ASSUME NEW j \in Orders
          PROVE
             /\ seen'[j].filled <= order'[j].filled /\ order'[j].filled <= asked'[j].qty
             /\ order'[j].live => order'[j].acc
             /\ ~order'[j].acc => order'[j].filled = 0
             /\ seen'[j].terminal => ~order'[j].live /\ seen'[j].filled = order'[j].filled
      <4>1. CASE i = j
        <5>1. seen[j].filled <= order[j].filled + 1 /\ order[j].filled + 1 <= asked[j].qty
          BY <1>1, <1>n, <4>1
        <5>2. order'[j].filled = order[j].filled + 1
          BY <1>o, <4>1
        <5>3. order'[j].acc /\ ~seen[j].terminal
          BY <1>o, <1>s, <4>1
        <5> QED BY <1>1, <5>1, <5>2, <5>3
      <4>2. CASE i # j
        BY <1>1, <1>o, <4>2 DEF IInv, Followed
      <4> QED BY <4>1, <4>2
    <3>2. \A j \in Orders : order'[j].acc = order[j].acc
      BY <1>o
    <3> QED BY <1>1, <1>b, <2>1, <3>1, <3>2 DEF IInv, Followed, NeverSent
  <2>4. Numbered' /\ Ended' /\ NotTaken'
    BY <1>1, <2>1 DEF IInv, Numbered, Ended, Over, NeverSent, NotTaken
  <2>5. Counted'
    <3>1. \A j \in Orders : order'[j].filled = IF j = i THEN order[j].filled + 1 ELSE order[j].filled
      BY <1>o
    <3> QED BY <1>1, <1>n, <1>p, <1>s, <3>1 DEF IInv, Counted, Unrecorded
  <2>6. PartialOnce'
    <3>1. \A j, k \in Intents : j < k /\ asked[k].act = "PARTIAL" => j # i
      BY <1>b, <1>p, <1>s DEF IInv, Numbered, Intents
    <3> QED BY <1>1, <1>b, <1>o, <3>1 DEF IInv, PartialOnce
  <2> QED BY <2>3, <2>4, <2>5, <2>6 DEF LedgerInv
<1>5. PassInv'
  <2>1. row.pend.intent = 0 /\ NothingSold => NothingSold'
    BY <1>b, <1>o, <1>p, <1>s DEF NothingSold
  <2>2. row.pend.intent # 0 => (~order[row.pend.intent].acc => ~order'[row.pend.intent].acc)
    BY <1>o, <1>p
  <2>3. EntryClear => EntryClear'
    BY <1>1 DEF EntryClear
  <2> QED BY <1>1, <2>1, <2>2, <2>3, PassUntouched
<1>6. Carried'
  BY <1>1 DEF IInv, Carried
<1> QED BY <1>3, <1>4, <1>5, <1>6 DEF IInv, LedgerInv, PassInv

(* A fill recorded: it answers its proposal only when the order is over. *)
LEMMA RecordFillStep ==
  ASSUME IInv, NEW i \in Orders, RecordFill(i)
  PROVE  IInv'
<1>1. /\ UNCHANGED <<snap, att, asked, cxl, order, held, mkt, pc, m, ev, todo, clear, crashes, faults>>
      /\ att[i] = "CONFIRMED" /\ ~seen[i].terminal
      /\ seen' = [seen EXCEPT ![i] = [filled |-> order[i].filled, terminal |-> ~order[i].live]]
  BY DEF RecordFill, broker, pass
<1> DEFINE delta == order[i].filled - seen[i].filled
           left  == IF i = 0 THEN qty + delta ELSE qty - delta
<1>q. qty' = left /\ ApplyExitFill(i, delta, left)
  BY DEF RecordFill
<1>p. PICK p \in Orders : p = row.pend.intent
  BY DEF IInv, Typed, Pendings
<1>b. 0 \in Orders /\ \A j \in Intents : j \in Orders /\ j # 0
  BY ConstantsAssumption DEF Intents, Orders
<1>n. /\ qty \in Nat /\ held \in Nat
      /\ \A j \in Orders : order[j].filled \in Nat /\ seen[j].filled \in Nat /\ asked[j].qty \in Nat
  BY DEF IInv, Typed
<1>d. delta \in Nat
  <2>1. seen[i].filled <= order[i].filled
    BY DEF IInv, Followed
  <2> QED BY <1>n, <2>1
<1>s. i = 0 \/ (i = p /\ i \in Intents)
  <2>1. i # 0 => i \in Intents
    BY DEF Intents, Orders
  <2> QED BY <1>1, <1>p, <2>1 DEF IInv, Ended, Over, NeverSent
<1>l. left \in Nat
  <2>1. i # 0 => delta <= qty
    <3>1. i # 0 => asked[i].qty <= qty + seen[i].filled /\ order[i].filled <= asked[i].qty
      BY <1>p, <1>s DEF IInv, Counted, Followed
    <3> QED BY <1>n, <3>1
  <2> HIDE DEF delta
  <2> QED BY <1>n, <1>d, <2>1
<1>e. \A j \in Orders : /\ j # i => seen'[j] = seen[j]
                        /\ j = i => seen'[j].filled = order[j].filled /\ seen'[j].terminal = ~order[j].live
  BY <1>1 DEF IInv, Typed
<1>t. seen' \in [Orders -> [filled : Nat, terminal : BOOLEAN]]
  <2>1. order[i].filled \in Nat /\ (~order[i].live) \in BOOLEAN
    BY <1>n
  <2> QED BY <1>1, <2>1 DEF IInv, Typed
<1>f. /\ row' \in [kind : {"LADDER", "RATCHET"}, base : Nat, high : Nat, rung : Rank,
                   pend : Pendings, taken : BOOLEAN, done : BOOLEAN]
      /\ row'.kind = row.kind /\ row'.base = row.base /\ row'.high = row.high
      /\ row'.taken = (row.taken \/ (i # 0 /\ delta > 0))
      /\ row'.pend = IF ~order[i].live /\ i # 0 /\ p = i THEN NoPending ELSE row.pend
  <2>1. NoPending \in Pendings
    BY <1>b, StagesTyped DEF NoPending, Pendings, Actions, Rank
  <2>2. (row.taken \/ (i # 0 /\ delta > 0)) \in BOOLEAN /\ (row.done \/ left = 0) \in BOOLEAN
    BY DEF IInv, Typed
  <2> DEFINE taken == row.taken \/ (i # 0 /\ delta > 0)
             done  == row.done \/ left = 0
             pend  == IF ~order[i].live /\ i # 0 /\ p = i THEN NoPending ELSE row.pend
  <2>3. row' = [row EXCEPT !.taken = taken, !.pend = pend, !.done = done]
    BY <1>q, <1>p DEF ApplyExitFill
  <2>4. pend \in Pendings /\ taken \in BOOLEAN /\ done \in BOOLEAN
    BY <2>1, <2>2 DEF IInv, Typed
  <2> HIDE DEF taken, done, pend
  <2>5. /\ row' \in [kind : {"LADDER", "RATCHET"}, base : Nat, high : Nat, rung : Rank,
                     pend : Pendings, taken : BOOLEAN, done : BOOLEAN]
        /\ row'.kind = row.kind /\ row'.base = row.base /\ row'.high = row.high
        /\ row'.taken = taken /\ row'.pend = pend
    BY <2>3, <2>4 DEF IInv, Typed
  <2> QED BY <2>5 DEF taken, pend
<1>2. Rank' = Rank /\ Lines' = Lines /\ Pendings' = Pendings /\ Copies' = Copies
  BY <1>f, Frame
<1> HIDE DEF left, delta
<1>3. Typed'
  BY <1>1, <1>2, <1>f, <1>l, <1>q, <1>t DEF IInv, Typed
<1>m. Mine' = Mine
  BY <1>1, SameNumbers
<1> HIDE DEF Mine
<1>4. LedgerInv'
  <2>1. Numbered'
    BY <1>1, <1>f, <1>m DEF IInv, Numbered, NoPending
  <2>2. Followed'
    <3>1. ASSUME NEW j \in Orders
          PROVE  /\ seen'[j].filled <= order'[j].filled /\ order'[j].filled <= asked'[j].qty
                 /\ order'[j].live => order'[j].acc
                 /\ ~order'[j].acc => order'[j].filled = 0
                 /\ seen'[j].terminal => ~order'[j].live /\ seen'[j].filled = order'[j].filled
      <4>1. CASE i = j
        <5>1. /\ order[j].filled <= asked[j].qty /\ (order[j].live => order[j].acc)
              /\ ~order[j].acc => order[j].filled = 0
          BY DEF IInv, Followed
        <5>2. seen'[j].filled = order[j].filled /\ (seen'[j].terminal => ~order[j].live)
          BY <1>e, <4>1
        <5>3. order[j].filled \in Nat /\ order' = order /\ asked' = asked
          BY <1>1, <1>n
        <5> QED BY <5>1, <5>2, <5>3
      <4>2. CASE i # j
        BY <1>1, <1>e, <4>2 DEF IInv, Followed
      <4> QED BY <4>1, <4>2
    <3> QED BY <1>1, <1>m, <3>1 DEF IInv, Followed, NeverSent
  <2>3. Ended'
    <3>1. ASSUME NEW j \in Intents, j # row'.pend.intent PROVE Over(j)'
      <4>1. CASE j = p
        BY <1>1, <1>b, <1>e, <1>f, <1>p, <3>1, <4>1 DEF Over
      <4>2. CASE j # p
        <5>1. Over(j) /\ j # i
          BY <1>b, <1>p, <1>s, <4>2 DEF IInv, Ended
        <5> QED BY <1>1, <1>b, <1>e, <5>1 DEF Over, NeverSent
      <4> QED BY <4>1, <4>2
    <3>2. row'.pend.intent # 0 => ~seen'[row'.pend.intent].terminal
      <4>1. row'.pend.intent # 0 => row'.pend.intent = p /\ ~(~order[i].live /\ i # 0 /\ p = i)
        BY <1>f, <1>p DEF NoPending
      <4> QED BY <1>e, <1>p, <4>1 DEF IInv, Ended
    <3> QED BY <3>1, <3>2 DEF Ended
  <2>4. Counted'
    <3>1. row'.pend.intent = p \/ (row'.pend.intent = 0 /\ p = i)
      BY <1>f, <1>p DEF NoPending
    <3>2. p # 0 => asked[p].qty <= qty + seen[p].filled
      BY <1>p DEF IInv, Counted
    <3>3. held = qty + Unrecorded(0) - (IF p = 0 THEN 0 ELSE Unrecorded(p))
      BY <1>p DEF IInv, Counted
    <3>4. CASE i = 0
      <4>1. /\ row'.pend.intent = p /\ seen'[0].filled = order[0].filled
            /\ p # 0 => seen'[p].filled = seen[p].filled
        BY <1>b, <1>e, <3>1, <3>4
      <4>2. qty' = qty + (order[0].filled - seen[0].filled)
        BY <1>q, <3>4 DEF left, delta
      <4>3. held = qty' + (order[0].filled - seen'[0].filled)
                     - (IF p = 0 THEN 0 ELSE order[p].filled - seen'[p].filled)
        <5>1. CASE p = 0
          BY <1>b, <1>n, <3>3, <4>1, <4>2, <5>1 DEF Unrecorded
        <5>2. CASE p # 0
          BY <1>b, <1>n, <3>3, <4>1, <4>2, <5>2 DEF Unrecorded
        <5> QED BY <5>1, <5>2
      <4>4. p # 0 => asked[p].qty <= qty' + seen'[p].filled
        <5>1. qty' = qty + delta /\ seen[p].filled \in Nat /\ asked[p].qty \in Nat
          BY <1>n, <1>q, <3>4 DEF left
        <5> QED BY <1>d, <1>n, <3>2, <4>1, <5>1
      <4> QED BY <1>1, <4>1, <4>3, <4>4 DEF Counted, Unrecorded
    <3>5. CASE i # 0
      <4>1. p = i /\ seen'[p].filled = order[p].filled /\ seen'[0] = seen[0]
        BY <1>b, <1>e, <1>s, <3>5
      <4>2. qty' = qty - (order[p].filled - seen[p].filled)
        BY <1>q, <3>5, <4>1 DEF left, delta
      <4> QED BY <1>1, <1>b, <1>n, <3>1, <3>2, <3>3, <3>5, <4>1, <4>2 DEF Counted, Unrecorded
    <3> QED BY <3>4, <3>5
  <2>5. NotTaken'
    <3> SUFFICES ASSUME ~row'.taken, NEW j \in Intents PROVE seen'[j].filled = 0
      BY DEF NotTaken
    <3>1. seen[j].filled = 0 /\ (i # 0 => delta = 0)
      BY <1>d, <1>f DEF IInv, NotTaken
    <3>2. CASE j = i
      BY <1>b, <1>e, <1>n, <3>1, <3>2 DEF delta
    <3>3. CASE j # i
      BY <1>b, <1>e, <3>1, <3>3
    <3> QED BY <3>2, <3>3
  <2>6. PartialOnce'
    BY <1>1, <1>f DEF IInv, PartialOnce
  <2> QED BY <2>1, <2>2, <2>3, <2>4, <2>5, <2>6 DEF LedgerInv
<1>5. PassInv'
  <2>1. row.pend.intent = 0 => qty' >= qty
    BY <1>b, <1>d, <1>n, <1>p, <1>q, <1>s DEF left
  <2>2. ASSUME NEW j \in Intents, row.pend.intent \in {0, j}
        PROVE  qty' + seen'[j].filled >= qty + seen[j].filled
    <3>1. CASE i = 0
      <4>1. qty' = qty + delta /\ seen'[j] = seen[j] /\ seen[j].filled \in Nat
        BY <1>b, <1>e, <1>n, <1>q, <3>1 DEF left
      <4> QED BY <1>d, <1>n, <4>1
    <3>2. CASE i # 0
      <4>1. j = i
        BY <1>b, <1>p, <1>s, <2>2, <3>2
      <4> QED BY <1>b, <1>e, <1>n, <1>q, <3>2, <4>1 DEF left, delta
    <3> QED BY <3>1, <3>2
  <2>3. (NothingSold => NothingSold') /\ (EntryClear => EntryClear')
    BY <1>1, <1>b, <1>e DEF NothingSold, EntryClear
  <2>4. row.pend.intent # 0 /\ att[row.pend.intent] \in {"none", "DISPATCH_STARTED"} => row'.pend = row.pend
    BY <1>1, <1>f, <1>p
  <2>5. row'.pend = row.pend \/ row'.pend = NoPending
    BY <1>f
  <2>6. qty' \in Nat
    BY <1>l, <1>q
  <2> HIDE DEF NothingSold, EntryClear
  <2> QED BY <1>1, <1>f, <1>t, <2>1, <2>2, <2>3, <2>4, <2>5, <2>6, PassKept
<1>6. Carried'
  BY <1>1, <1>f, <1>p DEF IInv, NoPending, Carried
<1> QED BY <1>3, <1>4, <1>5, <1>6 DEF IInv, LedgerInv, PassInv

(* What stands in the way is listed, the entry among it. *)
LEMMA clearTheSymbolStep ==
  ASSUME IInv, clearTheSymbol
  PROVE  IInv'
<1>1. UNCHANGED <<row, snap, qty, att, asked, seen, cxl, order, held, mkt, m, ev, crashes, faults>>
      /\ pc = "clearing"
  BY DEF clearTheSymbol, journal, broker
<1>2. Rank' = Rank /\ Lines' = Lines /\ Pendings' = Pendings /\ Copies' = Copies
  BY <1>1, Frame
<1>a. /\ pc' \in {"recording", "cancelling", "cleared"} /\ clear' \in BOOLEAN /\ todo' \subseteq Orders
      /\ pc' = "recording" => ~clear'
      /\ pc' = "cancelling" => 0 \in todo' \/ EntryClear
      /\ pc' = "cleared" => EntryClear
  <2>1. 0 \in Colliding \/ EntryClear
    <3>1. 0 \in Orders /\ att[0] = "CONFIRMED"
      BY ConstantsAssumption DEF IInv, Followed, Orders
    <3> QED BY <3>1 DEF Colliding, LiveOrdersForSymbol, EntryClear
  <2>2. Colliding \subseteq Orders /\ todo \subseteq Orders
    BY DEF Colliding, LiveOrdersForSymbol, IInv, Typed
  <2>3. CASE Unsettled
    BY <2>2, <2>3 DEF clearTheSymbol, Goto
  <2>4. CASE ~Unsettled
    <3> HIDE DEF Colliding, EntryClear
    <3>1. todo' = Colliding /\ pc' = IF Colliding # {} THEN "cancelling" ELSE "cleared"
      BY <2>4 DEF clearTheSymbol, Goto
    <3>2. clear' \in BOOLEAN
      BY <2>4 DEF clearTheSymbol
    <3> QED BY <2>1, <2>2, <3>1, <3>2
  <2> QED BY <2>3, <2>4
<1>3. Typed'
  BY <1>1, <1>2, <1>a DEF IInv, Typed, Steps, InPass
<1>4. LedgerInv'
  BY <1>1, LedgerKept DEF IInv, LedgerInv
<1>5. PassInv'
  <2>1. Judged'
    BY <1>1, <1>a DEF IInv, InPass, Judged, Covered, NothingSold
  <2>2. Cleared'
    BY <1>1, <1>a DEF Cleared, EntryClear
  <2> QED BY <1>1, <1>a, <2>1, <2>2 DEF InPass, PassInv, Judging, Released, Submitting
<1>6. Carried'
  BY <1>1 DEF IInv, Carried
<1> QED BY <1>3, <1>4, <1>5, <1>6 DEF IInv, LedgerInv, PassInv

(* One cancel: only the accepted cancel of the entry leaves the symbol clear. *)
LEMMA CancelOrderStep ==
  ASSUME IInv, NEW i \in Orders, CancelOrder(i)
  PROVE  IInv'
<1>1. UNCHANGED <<row, snap, qty, att, asked, seen, order, held, mkt, m, ev, crashes, faults>>
      /\ pc = "cancelling"
  BY DEF CancelOrder, broker
<1>2. Rank' = Rank /\ Lines' = Lines /\ Pendings' = Pendings /\ Copies' = Copies
  BY <1>1, Frame
<1>a. /\ pc' \in {"cancelling", "cleared"} /\ clear' \in BOOLEAN /\ todo' = todo \ {i}
      /\ pc' = "cleared" => todo' = {}
      /\ cxl' \in [Orders -> {"none", "IN_DOUBT", "CONFIRMED"}]
      /\ clear' => clear /\ i = 0 /\ cxl'[0] = "CONFIRMED"
  <2>1. /\ todo' = todo \ {i} /\ pc' = IF todo' = {} THEN "cleared" ELSE "cancelling"
        /\ cxl \in [Orders -> {"none", "IN_DOUBT", "CONFIRMED"}] /\ clear \in BOOLEAN /\ 0 \in Orders
    BY ConstantsAssumption DEF CancelOrder, Goto, IInv, Typed, Orders
  <2>2. \/ cxl' = [cxl EXCEPT ![i] = "CONFIRMED"] /\ clear' = (clear /\ i = 0)
        \/ cxl' = [cxl EXCEPT ![i] = "IN_DOUBT"] /\ clear' = FALSE
        \/ cxl' = cxl /\ clear' = FALSE
    BY DEF CancelOrder
  <2>3. cxl' \in [Orders -> {"none", "IN_DOUBT", "CONFIRMED"}]
    BY <2>1, <2>2
  <2>4. clear' \in BOOLEAN /\ (clear' => clear /\ i = 0 /\ cxl'[0] = "CONFIRMED")
    BY <2>1, <2>2
  <2> QED BY <2>1, <2>3, <2>4
<1>3. Typed'
  BY <1>1, <1>2, <1>a DEF IInv, Typed, Steps, InPass
<1>4. LedgerInv'
  BY <1>1, LedgerKept DEF IInv, LedgerInv
<1>5. PassInv'
  <2>1. Judged'
    BY <1>1, <1>a DEF IInv, InPass, Judged, Covered, NothingSold
  <2>2. Cleared'
    BY <1>1, <1>a DEF Cleared, EntryClear
  <2> QED BY <1>1, <1>a, <2>1, <2>2 DEF InPass, PassInv, Judging, Released, Submitting
<1>6. Carried'
  BY <1>1 DEF IInv, Carried
<1> QED BY <1>3, <1>4, <1>5, <1>6 DEF IInv, LedgerInv, PassInv

(* The replaced proposal is released last, or the symbol is not clear. *)
LEMMA ReleaseClearedExitProposalStep ==
  ASSUME IInv, ReleaseClearedExitProposal
  PROVE  IInv'
<1>1. UNCHANGED <<snap, qty, att, asked, seen, cxl, order, held, mkt, m, ev, todo, crashes, faults>>
      /\ pc = "cleared" /\ pc' = "recording"
  BY DEF ReleaseClearedExitProposal, Goto, broker
<1> DEFINE j == m.pend.intent
<1>j. j \in Orders /\ row.pend.intent \in {0, j}
  BY <1>1 DEF IInv, Typed, Copies, Pendings, Judged, InPass, Covered
<1>c. /\ clear' => clear
      /\ clear' /\ ev.cancelFirst => releasesCleared(j) /\ row.pend.intent = j /\ row' = clearExitProposalTx(row, j)
      /\ ~(clear' /\ ev.cancelFirst) => row' = row
      /\ clear' \in BOOLEAN
  <2>1. CASE clear /\ ev.cancelFirst
    BY <2>1 DEF ReleaseClearedExitProposal
  <2>2. CASE ~(clear /\ ev.cancelFirst)
    BY <2>2 DEF ReleaseClearedExitProposal, IInv, Typed
  <2> QED BY <2>1, <2>2
<1>f. /\ row' \in [kind : {"LADDER", "RATCHET"}, base : Nat, high : Nat, rung : Rank,
                   pend : Pendings, taken : BOOLEAN, done : BOOLEAN]
      /\ row'.kind = row.kind /\ row'.base = row.base /\ row'.high = row.high /\ row'.taken = row.taken
      /\ row'.pend = row.pend \/ (row'.pend = NoPending /\ row.pend.intent = j /\ j # 0 /\ Over(j))
      /\ clear' /\ ev.cancelFirst => row'.pend.intent = 0 /\ (j # 0 => Over(j) /\ row.pend.intent = j)
  <2> HIDE DEF j
  <2>1. CASE clear' /\ ev.cancelFirst
    <3>1. Over(j) /\ Cleans(row', j) /\ row.pend.intent = j
      BY <1>c, <1>j, <2>1, VerdictShape, ReleaseShape DEF IInv
    <3> QED BY <3>1 DEF Cleans, NoPending
  <2>2. CASE ~(clear' /\ ev.cancelFirst)
    BY <1>c, <2>2 DEF IInv, Typed
  <2> QED BY <2>1, <2>2
<1>2. Rank' = Rank /\ Lines' = Lines /\ Pendings' = Pendings /\ Copies' = Copies
  BY <1>f, Frame
<1>3. Typed'
  BY <1>1, <1>2, <1>c, <1>f DEF IInv, Typed, Steps, InPass
<1>4. LedgerInv'
  <2>1. PICK p \in Orders : p = row.pend.intent
    BY DEF IInv, Typed, Pendings
  <2>2. row'.pend = row.pend \/ (row'.pend = NoPending /\ (p # 0 => Over(p)'))
    BY <1>1, <1>f, <2>1 DEF Over
  <2>3. att'[0] = att[0] /\ \A k \in Intents : att'[k] = att[k]
    BY <1>1
  <2> QED BY <1>1, <1>f, <2>1, <2>2, <2>3, VerdictLedger
<1>5. PassInv'
  <2>0. row'.pend.intent \in {0, row.pend.intent}
    BY <1>f DEF NoPending
  <2>1. Judged'
    <3>1. Judged /\ pc \in InPass /\ pc' \in InPass
      BY <1>1 DEF IInv, InPass
    <3>2. Covered(ev.qty)'
      BY <1>1, <1>j, <2>0, <3>1 DEF Judged, Covered
    <3> QED BY <1>1, <1>f, <3>1, <3>2 DEF Judged, NothingSold
  <2>2. Cleared'
    BY <1>1, <1>c DEF IInv, Cleared, EntryClear
  <2>3. Released'
    <3> SUFFICES ASSUME clear', ev.cancelFirst PROVE row'.pend.intent = 0 /\ ev.qty <= qty
      BY <1>1 DEF Released
    <3>1. Covered(ev.qty)
      BY <1>1 DEF IInv, Judged, InPass
    <3>2. CASE j = 0
      BY <1>f, <3>1, <3>2 DEF Covered
    <3>3. CASE j # 0
      <4>1. Over(j) /\ row.pend.intent = j /\ ~seen[j].terminal
        BY <1>f, <3>3 DEF IInv, Ended
      <4>2. j \in Intents /\ seen[j].filled \in Nat /\ order[j].filled \in Nat /\ ev.qty \in Nat /\ qty \in Nat
        <5>1. j \in Intents
          BY <1>j, <3>3 DEF Intents, Orders
        <5> HIDE DEF j
        <5> QED BY <1>j, <5>1 DEF IInv, Typed, Lines
      <4>3. seen[j].filled = 0
        <5> HIDE DEF j
        <5>1. ~order[j].acc /\ j \in Orders
          BY <1>j, <4>1, <4>2 DEF Over, IInv, Followed
        <5>2. seen[j].filled <= order[j].filled /\ order[j].filled = 0
          BY <5>1 DEF IInv, Followed
        <5> QED BY <4>2, <5>2
      <4> QED BY <1>f, <3>1, <3>3, <4>2, <4>3 DEF Covered
    <3> QED BY <3>2, <3>3
  <2> QED BY <1>1, <2>1, <2>2, <2>3 DEF InPass, PassInv, Judging, Submitting
<1>6. Carried'
  <2>1. row'.pend.intent \in {0, row.pend.intent}
    BY <1>f DEF NoPending
  <2> QED BY <1>1, <2>1 DEF IInv, Carried
<1> QED BY <1>3, <1>4, <1>5, <1>6 DEF IInv, LedgerInv, PassInv

(* What a judgement does: a heartbeat, or a line to act on. *)
Beats(line) ==
    /\ row' \in [kind : {"LADDER", "RATCHET"}, base : Nat, high : Nat, rung : Rank,
                 pend : Pendings, taken : BOOLEAN, done : BOOLEAN]
    /\ row'.kind = row.kind /\ row'.taken = row.taken /\ row'.pend = row.pend
    /\ row'.base >= row.base /\ row'.high >= row.high
    /\ UNCHANGED <<snap, qty, att, asked, seen, cxl>> /\ EndPass

Judges(line) ==
    /\ UNCHANGED <<row, snap, qty, att, asked, seen, cxl, todo, clear>>
    /\ ev' = line /\ m' = [NoCopy EXCEPT !.pend = m.pend]
    /\ pc' \in {"clearing", "recording"}
    /\ pc' = "recording" => ~(line.qty > 0 /\ (line.cancelFirst \/ line.act \in FullExit))

LEMMA JudgeShape ==
  ASSUME IInv, judge
  PROVE  /\ pc = "judging" /\ UNCHANGED <<order, held, mkt, crashes, faults>>
         /\ \E line : LineOf(m, line) /\ (Beats(line) \/ Judges(line))
<1> DEFINE line == Evaluate(m, mkt)
<1>1. LineOf(m, line)
  BY EvaluateShape DEF IInv, Typed
<1>2. /\ pc = "judging" /\ UNCHANGED <<order, held, mkt, crashes, faults>>
      /\ \/ RefreshExitObservation(line) /\ UNCHANGED <<snap, qty, att, asked, seen, cxl>> /\ EndPass
         \/ /\ ev' = line /\ m' = [NoCopy EXCEPT !.pend = m.pend]
            /\ pc' = IF Orderable(line) /\ (line.cancelFirst \/ isFullExit(line)) THEN "clearing" ELSE "recording"
            /\ UNCHANGED <<row, snap, qty, att, asked, seen, cxl, todo, clear>>
  BY DEF judge, broker, journal, Goto
<1> HIDE DEF line
<1>3. ASSUME RefreshExitObservation(line), UNCHANGED <<snap, qty, att, asked, seen, cxl>>, EndPass
      PROVE  Beats(line)
  <2>1. CASE row' = row
    BY <1>3, <2>1 DEF IInv, Typed, Beats
  <2>2. CASE row' = [row EXCEPT !.base = line.base, !.high = line.high, !.rung = line.rung]
    <3>1. /\ line.base \in Nat /\ line.high \in Nat /\ line.rung \in Rank
          /\ line.base >= row.base /\ line.high >= row.high
      BY <1>1, <1>2 DEF LineOf, Lines, IInv, Judging
    <3> QED BY <1>3, <2>2, <3>1 DEF IInv, Typed, Beats
  <2> QED BY <1>3, <2>1, <2>2 DEF RefreshExitObservation
<1>4. ASSUME ev' = line, m' = [NoCopy EXCEPT !.pend = m.pend],
             pc' = IF Orderable(line) /\ (line.cancelFirst \/ isFullExit(line)) THEN "clearing" ELSE "recording",
             UNCHANGED <<row, snap, qty, att, asked, seen, cxl, todo, clear>>
      PROVE  Judges(line)
  BY <1>4 DEF Judges, Orderable, isFullExit, FullExit
<1> QED BY <1>1, <1>2, <1>3, <1>4

(* A judgement writes a heartbeat, or carries what it found to the next step. *)
LEMMA judgeStep ==
  ASSUME IInv, judge
  PROVE  IInv'
<1>1. pc = "judging" /\ UNCHANGED <<order, held, mkt, crashes, faults>>
  BY JudgeShape
<1>l. PICK line : LineOf(m, line) /\ (Beats(line) \/ Judges(line))
  BY JudgeShape
<1>r. /\ row' \in [kind : {"LADDER", "RATCHET"}, base : Nat, high : Nat, rung : Rank,
                   pend : Pendings, taken : BOOLEAN, done : BOOLEAN]
      /\ row'.kind = row.kind /\ row'.taken = row.taken /\ row'.pend = row.pend
      /\ UNCHANGED <<snap, qty, att, asked, seen, cxl>>
  BY <1>l DEF Beats, Judges, IInv, Typed
<1>2. Rank' = Rank /\ Lines' = Lines /\ Pendings' = Pendings /\ Copies' = Copies
  BY <1>r, Frame
<1>3. Typed'
  <2>1. CASE Beats(line)
    BY <1>1, <1>2, <1>r, <2>1, Blank DEF IInv, Typed, Beats, EndPass, Steps
  <2>2. CASE Judges(line)
    <3>1. m' \in Copies
      <4>1. NoCopy \in Copies /\ m.pend \in Pendings
        BY Blank DEF IInv, Typed, Copies
      <4> HIDE DEF NoCopy
      <4> QED BY <2>2, <4>1 DEF Judges, Copies
    <3>2. ev' \in Lines /\ pc' \in Steps
      BY <1>l, <2>2 DEF Judges, LineOf, Steps, InPass
    <3> QED BY <1>1, <1>2, <1>r, <2>2, <3>1, <3>2 DEF IInv, Typed, Judges
  <2> QED BY <1>l, <2>1, <2>2
<1>4. LedgerInv'
  <2>1. PICK p \in Orders : p = row.pend.intent
    BY DEF IInv, Typed, Pendings
  <2>2. att'[0] = att[0] /\ \A k \in Intents : att'[k] = att[k]
    BY <1>r
  <2> QED BY <1>1, <1>r, <2>1, <2>2, VerdictLedger
<1>5. PassInv'
  <2>1. CASE Beats(line)
    BY <2>1, PassEnds DEF Beats, EndPass, InPass
  <2>2. CASE Judges(line)
    <3>1. /\ m'.pend = m.pend /\ ev' = line /\ UNCHANGED <<row, qty, seen, cxl, order, asked>>
      BY <1>1, <2>2 DEF Judges, NoCopy
    <3>2. /\ Covered(m.qty) /\ m.base = row.base /\ m.high = row.high
          /\ m.pend.intent = 0 /\ ~m.taken => NothingSold
      BY <1>1 DEF IInv, Judging
    <3>n. /\ line.qty \in Nat /\ m.qty \in Nat /\ qty \in Nat
          /\ m.pend.intent \in Orders /\ seen[m.pend.intent].filled \in Nat
      BY <1>l DEF LineOf, Lines, IInv, Typed, Copies, Pendings
    <3>3. Covered(ev.qty)'
      BY <1>l, <3>1, <3>2, <3>n DEF LineOf, Covered
    <3>4. Judged'
      BY <1>l, <3>1, <3>2, <3>3 DEF LineOf, Covered, Judged, NothingSold
    <3>5. Released' /\ Cleared'
      BY <2>2, <3>1 DEF Judges, Released, Cleared
    <3> QED BY <2>2, <3>4, <3>5 DEF Judges, PassInv, Judging, Submitting
  <2> QED BY <1>l, <2>1, <2>2
<1>6. Carried'
  BY <1>1, <1>r DEF IInv, Carried
<1> QED BY <1>3, <1>4, <1>5, <1>6 DEF IInv, LedgerInv, PassInv

(* The selected line protects no less than the line just computed. *)
LEMMA SelectShape ==
  ASSUME IInv
  PROVE  LET sel == SelectRecoverySnapshot(snap, ev)
         IN  sel \in Lines /\ sel.base >= ev.base /\ sel.high >= ev.high
<1>1. ev \in Lines /\ snap \in Lines /\ ev.base \in Nat /\ ev.high \in Nat
  BY DEF IInv, Typed, Lines
<1> QED BY <1>1 DEF SelectRecoverySnapshot

(* Arming numbers the next proposal. *)
LEMMA NextNumber ==
  ASSUME IInv, Mine + 1 \in Intents, NEW ask, ask.act # "none",
         asked' = [asked EXCEPT ![Mine + 1] = ask]
  PROVE  Mine' = Mine + 1
<1>1. Mine \in 0 .. MaxIntents /\ MaxIntents \in Nat
  BY ConstantsAssumption DEF IInv, Numbered
<1>2. DOMAIN asked = Orders /\ \A i \in Intents : i \in Orders
  BY <1>1 DEF IInv, Typed, Intents, Orders
<1>3. \A i \in Intents : asked[i].act # "none" <=> i <= Mine
  BY DEF IInv, Numbered
<1>4. \A i \in Intents : asked'[i].act # "none" <=> i <= Mine + 1
  <2> HIDE DEF Mine
  <2> QED BY <1>1, <1>2, <1>3 DEF Intents
<1>5. {i \in Intents : asked'[i].act # "none"} = 1 .. (Mine + 1)
  <2> HIDE DEF Mine
  <2> QED BY <1>1, <1>4 DEF Intents
<1>6. Mine' = Cardinality(1 .. (Mine + 1))
  BY <1>5 DEF Mine
<1>7. Mine + 1 \in Int /\ Mine + 1 >= 1
  <2> HIDE DEF Mine
  <2> QED BY <1>1
<1> HIDE DEF Mine
<1> QED BY <1>6, <1>7, FS_Interval

(* What recording a judgement does: nothing, or the line and maybe the proposal. *)
Records ==
    /\ row' \in [kind : {"LADDER", "RATCHET"}, base : Nat, high : Nat, rung : Rank,
                 pend : Pendings, taken : BOOLEAN, done : BOOLEAN]
    /\ row'.kind = row.kind /\ row'.taken = row.taken
    /\ row'.base >= row.base /\ row'.high >= row.high
    /\ snap' \in Lines /\ UNCHANGED <<qty, att, seen, cxl, order, held, mkt, crashes, faults>>

Keeps == row'.pend = row.pend /\ UNCHANGED asked /\ EndPass

Arms ==
    /\ Proposes /\ Mine + 1 \in Intents /\ row.pend.act = "none"
    /\ row'.pend = [act |-> ev.act, level |-> ev.level, intent |-> Mine + 1]
    /\ asked' = [asked EXCEPT ![Mine + 1] = [act |-> ev.act, level |-> ev.level, qty |-> ev.qty]]
    /\ pc' = "armed" /\ UNCHANGED <<m, ev, todo, clear>>

LEMMA RecordShape ==
  ASSUME IInv, recordExitJudgementTx
  PROVE  pc = "recording" /\ Records /\ (Keeps \/ Arms)
<1> DEFINE sel == SelectRecoverySnapshot(snap, ev)
           line == [row EXCEPT !.base = sel.base, !.high = sel.high, !.rung = sel.rung]
<1>1. pc = "recording" /\ UNCHANGED <<order, held, mkt, crashes, faults>>
  BY DEF recordExitJudgementTx, broker
<1>2. /\ sel.base \in Nat /\ sel.high \in Nat /\ sel.rung \in Rank /\ sel \in Lines
      /\ sel.base >= row.base /\ sel.high >= row.high
  <2>1. sel \in Lines /\ sel.base >= ev.base /\ sel.high >= ev.high
    BY SelectShape
  <2>2. /\ ev.base >= row.base /\ ev.high >= row.high
        /\ ev.base \in Nat /\ ev.high \in Nat /\ row.base \in Nat /\ row.high \in Nat
    BY <1>1 DEF IInv, Typed, Judged, InPass, Lines
  <2> HIDE DEF sel
  <2>3. sel.base \in Nat /\ sel.high \in Nat /\ sel.rung \in Rank
    BY <2>1 DEF Lines
  <2> QED BY <2>1, <2>2, <2>3
<1>3. Next_intent = Mine + 1
  BY DEF Next_intent, Mine
<1>4. \/ UNCHANGED <<row, snap, qty, att, asked, seen, cxl>> /\ EndPass
      \/ /\ Proposes /\ Mine + 1 \in Intents /\ row.pend.act = "none"
         /\ row' = [line EXCEPT !.pend = [act |-> ev.act, level |-> ev.level, intent |-> Mine + 1]]
         /\ asked' = [asked EXCEPT ![Mine + 1] = [act |-> ev.act, level |-> ev.level, qty |-> ev.qty]]
         /\ snap' = sel /\ pc' = "armed" /\ UNCHANGED <<qty, att, seen, cxl, m, ev, todo, clear>>
      \/ row' = line /\ snap' = sel /\ UNCHANGED <<qty, att, asked, seen, cxl>> /\ EndPass
  BY <1>3 DEF recordExitJudgementTx, armExitProposalTx, journal, Goto
<1> HIDE DEF sel
<1>5. /\ line \in [kind : {"LADDER", "RATCHET"}, base : Nat, high : Nat, rung : Rank,
                   pend : Pendings, taken : BOOLEAN, done : BOOLEAN]
      /\ line.kind = row.kind /\ line.taken = row.taken /\ line.pend = row.pend
      /\ line.base >= row.base /\ line.high >= row.high
  BY <1>2 DEF IInv, Typed
<1> HIDE DEF line
<1>6. CASE UNCHANGED <<row, snap, qty, att, asked, seen, cxl>> /\ EndPass
  BY <1>1, <1>6 DEF Records, Keeps, IInv, Typed
<1>7. CASE row' = line /\ snap' = sel /\ UNCHANGED <<qty, att, asked, seen, cxl>> /\ EndPass
  BY <1>1, <1>2, <1>5, <1>7 DEF Records, Keeps
<1>8. CASE /\ Proposes /\ Mine + 1 \in Intents /\ row.pend.act = "none"
           /\ row' = [line EXCEPT !.pend = [act |-> ev.act, level |-> ev.level, intent |-> Mine + 1]]
           /\ asked' = [asked EXCEPT ![Mine + 1] = [act |-> ev.act, level |-> ev.level, qty |-> ev.qty]]
           /\ snap' = sel /\ pc' = "armed" /\ UNCHANGED <<qty, att, seen, cxl, m, ev, todo, clear>>
  <2> DEFINE pend == [act |-> ev.act, level |-> ev.level, intent |-> Mine + 1]
  <2>1. pend \in Pendings
    <3>1. ev.act \in Actions /\ ev.level \in Rank
      BY DEF IInv, Typed, Lines
    <3>2. Mine + 1 \in Orders
      <4>1. Mine + 1 \in Intents
        BY <1>8
      <4>2. Intents \subseteq Orders
        BY ConstantsAssumption DEF Intents, Orders
      <4> HIDE DEF Mine
      <4> QED BY <4>1, <4>2
    <3> HIDE DEF Mine
    <3> QED BY <3>1, <3>2 DEF Pendings
  <2> HIDE DEF pend
  <2>2. row' = [line EXCEPT !.pend = pend]
    BY <1>8 DEF pend
  <2>3. /\ row' \in [kind : {"LADDER", "RATCHET"}, base : Nat, high : Nat, rung : Rank,
                     pend : Pendings, taken : BOOLEAN, done : BOOLEAN]
        /\ row'.kind = row.kind /\ row'.taken = row.taken /\ row'.pend = pend
        /\ row'.base >= row.base /\ row'.high >= row.high
    BY <1>5, <2>1, <2>2
  <2> QED BY <1>1, <1>2, <1>8, <2>3 DEF Records, Arms, pend
<1> QED BY <1>1, <1>4, <1>6, <1>7, <1>8

(* The line and the proposal it arms are recorded together, over no other proposal. *)
LEMMA recordExitJudgementTxStep ==
  ASSUME IInv, recordExitJudgementTx
  PROVE  IInv'
<1>1. pc = "recording" /\ Records /\ (Keeps \/ Arms)
  BY RecordShape
<1>2. Rank' = Rank /\ Lines' = Lines /\ Pendings' = Pendings /\ Copies' = Copies
  BY <1>1, Frame DEF Records
<1>n. /\ Mine \in 0 .. MaxIntents /\ MaxIntents \in Nat
      /\ \A i \in Intents : i \in Orders /\ i # 0
      /\ 0 \in Orders
  BY ConstantsAssumption DEF IInv, Numbered, Intents, Orders
<1>a. CASE Keeps
  <2>1. Typed'
    BY <1>1, <1>2, <1>a, Blank DEF IInv, Typed, Records, Keeps, EndPass, Steps
  <2>2. LedgerInv'
    <3>1. PICK p \in Orders : p = row.pend.intent
      BY DEF IInv, Typed, Pendings
    <3>2. att'[0] = att[0] /\ \A k \in Intents : att'[k] = att[k]
      BY <1>1 DEF Records
    <3> QED BY <1>1, <1>a, <3>1, <3>2, VerdictLedger DEF Records, Keeps
  <2>3. PassInv'
    BY <1>a, PassEnds DEF Keeps, EndPass, InPass
  <2>4. Carried'
    BY <1>1, <1>a DEF IInv, Records, Keeps, Carried
  <2> QED BY <2>1, <2>2, <2>3, <2>4 DEF IInv, LedgerInv, PassInv
<1>b. CASE Arms
  <2> DEFINE ask == [act |-> ev.act, level |-> ev.level, qty |-> ev.qty]
  <2>0. PICK n \in Intents : n = Mine + 1
    BY <1>b DEF Arms
  <2>1. /\ ev.qty > 0 /\ ev.act # "none" /\ (clear \/ ~(ev.cancelFirst \/ ev.act \in FullExit))
        /\ ev.qty \in Nat /\ ev.act \in Actions /\ ev.level \in Nat
    <3>1. ev.qty > 0 /\ (clear \/ ~(ev.cancelFirst \/ ev.act \in FullExit))
      BY <1>b DEF Arms, Proposes, Orderable, isFullExit, FullExit
    <3>2. ev.qty \in Nat /\ ev.act \in Actions /\ ev.level \in Nat
      BY StagesTyped DEF IInv, Typed, Lines, Rank
    <3> QED BY <1>1, <3>1, <3>2 DEF IInv, Judged, InPass
  <2>2. ev.qty <= qty /\ row.pend.intent = 0
    <3>1. row.pend.intent = 0
      BY <1>b DEF Arms, IInv, Numbered
    <3>2. CASE m.pend.intent = 0
      BY <1>1, <3>1, <3>2 DEF IInv, Judged, InPass, Covered
    <3>3. CASE m.pend.intent # 0
      <4>1. ev.cancelFirst
        BY <1>1, <2>1, <3>3 DEF IInv, Judged, InPass
      <4> QED BY <1>1, <2>1, <4>1 DEF IInv, Released
    <3> QED BY <3>1, <3>2, <3>3
  <2>3. Mine' = n /\ asked' = [asked EXCEPT ![n] = ask]
    <3>1. ask.act # "none" /\ asked' = [asked EXCEPT ![Mine + 1] = ask]
      BY <1>b, <2>1 DEF Arms
    <3> HIDE DEF ask, Mine
    <3>2. Mine' = Mine + 1
      BY <2>0, <3>1, NextNumber
    <3> QED BY <2>0, <3>1, <3>2
  <2>4. /\ asked' \in [Orders -> [act : Actions, level : Nat, qty : Nat]]
        /\ asked'[n] = ask /\ \A i \in Orders : i # n => asked'[i] = asked[i]
    <3>1. ask \in [act : Actions, level : Nat, qty : Nat]
      BY <2>1
    <3> HIDE DEF ask
    <3> QED BY <1>n, <2>3, <3>1 DEF IInv, Typed
  <2>5. /\ row'.pend.act = ev.act /\ row'.pend.intent = n /\ pc' = "armed"
        /\ UNCHANGED <<m, ev, todo, clear, qty, att, seen, cxl, order, held, mkt, crashes, faults>>
    BY <1>1, <1>b, <2>0 DEF Arms, Records
  <2>6. Typed'
    BY <1>1, <1>2, <2>4, <2>5 DEF IInv, Typed, Records, Steps
  <2> HIDE DEF Mine
  <2>7. /\ att[n] = "none" /\ ~seen[n].terminal /\ ~order[n].acc /\ order[n].filled = 0
        /\ seen[n].filled = 0
    <3>1. n > Mine
      BY <1>n, <2>0
    <3>2. att[n] = "none" /\ ~seen[n].terminal /\ ~order[n].acc
      BY <3>1 DEF IInv, Followed, NeverSent
    <3>3. order[n].filled = 0 /\ seen[n].filled <= order[n].filled /\ seen[n].filled \in Nat
      BY <1>n, <3>2 DEF IInv, Typed, Followed
    <3> QED BY <3>2, <3>3
  <2>8. Numbered'
    <3>1. n \in 0 .. MaxIntents
      BY <1>n DEF Intents
    <3>2. ASSUME NEW i \in Intents PROVE asked'[i].act # "none" <=> i <= n
      <4>1. CASE i = n
        <5>1. asked'[n].act = ev.act
          BY <2>4
        <5> QED BY <2>1, <4>1, <5>1 DEF Intents
      <4>2. CASE i # n
        <5>1. asked'[i] = asked[i] /\ (asked[i].act # "none" <=> i <= Mine)
          BY <1>n, <2>4, <4>2 DEF IInv, Numbered
        <5> QED BY <1>n, <2>0, <4>2, <5>1 DEF Intents
      <4> QED BY <4>1, <4>2
    <3> QED BY <1>n, <2>1, <2>3, <2>5, <3>1, <3>2 DEF Numbered
  <2>9. Followed'
    <3>1. ASSUME NEW i \in Orders
          PROVE  /\ seen'[i].filled <= order'[i].filled /\ order'[i].filled <= asked'[i].qty
                 /\ order'[i].live => order'[i].acc
                 /\ ~order'[i].acc => order'[i].filled = 0
                 /\ seen'[i].terminal => ~order'[i].live /\ seen'[i].filled = order'[i].filled
      <4>1. order[i].filled <= asked'[i].qty
        <5>1. CASE i = n
          BY <2>1, <2>4, <2>7, <5>1
        <5>2. CASE i # n
          BY <2>4, <5>2 DEF IInv, Followed
        <5> QED BY <5>1, <5>2
      <4> QED BY <2>5, <4>1 DEF IInv, Followed
    <3>2. \A i \in Intents : /\ att'[i] \in NeverSent => ~order'[i].acc
                             /\ i > Mine' => att'[i] = "none" /\ ~seen'[i].terminal
      <4>1. \A i \in Intents : i > n => i > Mine
        BY <1>n, <2>0 DEF Intents
      <4> QED BY <2>3, <2>5, <4>1 DEF IInv, Followed
    <3> QED BY <2>5, <3>1, <3>2 DEF IInv, Followed, NeverSent
  <2>10. Ended'
    <3>1. \A i \in Intents : Over(i)
      BY <1>n, <2>2 DEF IInv, Ended
    <3>2. \A i \in Intents : Over(i)'
      BY <2>5, <3>1 DEF Over, NeverSent
    <3> QED BY <2>5, <2>7, <3>2 DEF Ended
  <2>11. Counted'
    <3>1. held = qty + Unrecorded(0)
      <4>1. Unrecorded(0) \in Int /\ qty \in Nat
        BY <1>n DEF IInv, Typed, Unrecorded
      <4> QED BY <2>2, <4>1 DEF IInv, Counted
    <3>2. asked'[n].qty <= qty + seen[n].filled /\ order[n].filled - seen[n].filled = 0
      <4>1. asked'[n].qty = ev.qty /\ qty \in Nat
        BY <2>4 DEF IInv, Typed
      <4> QED BY <2>1, <2>2, <2>7, <4>1
    <3>3. Unrecorded(0)' = Unrecorded(0) /\ order'[n].filled - seen'[n].filled = 0
      BY <2>5, <3>2 DEF Unrecorded
    <3>4. held' = qty' + Unrecorded(0)' - 0
      <4>1. Unrecorded(0) \in Int /\ qty \in Int
        BY <1>n DEF IInv, Typed, Unrecorded
      <4> QED BY <2>5, <3>1, <3>3, <4>1
    <3>5. row'.pend.intent = n /\ n # 0 /\ Unrecorded(row.pend.intent)' = 0
      BY <1>n, <2>5, <3>3 DEF Unrecorded
    <3>6. asked'[row'.pend.intent].qty <= qty' + seen'[row'.pend.intent].filled
      BY <2>5, <3>2, <3>5
    <3> QED BY <3>4, <3>5, <3>6 DEF Counted
  <2>12. NotTaken'
    BY <1>1, <2>5 DEF IInv, Records, NotTaken
  <2>13. PartialOnce'
    <3>1. row.kind = "RATCHET" /\ ev.act = "PARTIAL" => NothingSold
      BY <1>1 DEF IInv, Judged, InPass
    <3> SUFFICES ASSUME row'.kind = "RATCHET", NEW i \in Intents, NEW j \in Intents, i < j,
                        asked'[i].act = "PARTIAL", asked'[j].act = "PARTIAL"
                 PROVE  order'[i].filled = 0
      BY DEF PartialOnce
    <3>2. CASE j = n
      BY <1>1, <2>4, <2>5, <3>1, <3>2 DEF Records, NothingSold
    <3>3. CASE i = n
      BY <2>5, <2>7, <3>3
    <3>4. CASE i # n /\ j # n
      BY <1>1, <1>n, <2>4, <2>5, <3>4 DEF IInv, Records, PartialOnce
    <3> QED BY <3>2, <3>3, <3>4
  <2>14. PassInv'
    <3>1. Submitting'
      BY <1>n, <2>3, <2>5, <2>7 DEF Submitting
    <3>2. Cleared'
      <4>1. ev.act \in FullExit => EntryClear
        BY <1>1, <2>1 DEF IInv, Cleared
      <4> QED BY <2>3, <2>4, <2>5, <4>1 DEF Cleared, EntryClear, FullExit
    <3> QED BY <2>5, <3>1, <3>2 DEF InPass, PassInv, Judging, Judged, Released
  <2>15. Carried'
    BY <2>5 DEF Carried
  <2>16. LedgerInv'
    BY <2>8, <2>9, <2>10, <2>11, <2>12, <2>13 DEF LedgerInv
  <2> QED BY <2>6, <2>14, <2>15, <2>16 DEF IInv, LedgerInv, PassInv
<1> QED BY <1>1, <1>a, <1>b

(* ------------------------------- the theorems -------------------------- *)

(* Proposals are finitely many. *)
LEMMA IntentsFinite == IsFiniteSet(Intents) /\ 0 \notin Intents
<1>1. MaxIntents \in Nat
  BY ConstantsAssumption
<1>2. IsFiniteSet(1 .. MaxIntents)
  BY <1>1, FS_Interval
<1> QED BY <1>1, <1>2 DEF Intents

(* A position starts with its protection seeded and nothing proposed. *)
LEMMA InitStep ==
  ASSUME Init
  PROVE  IInv
<1>0. /\ MaxIntents \in Nat /\ InitialStop \in Nat /\ Entry \in Nat /\ Len(Stages) \in Nat
      /\ 0 \in Orders /\ \A i \in Intents : i \in Orders /\ i # 0 /\ i > 0
  BY ConstantsAssumption, StagesTyped DEF Intents, Orders
<1>1. PICK start \in Openings :
        /\ qty = start[1] /\ held = start[1]
        /\ asked = [i \in Orders |-> [act |-> "none", level |-> 0, qty |-> IF i = 0 THEN start[2] ELSE 0]]
        /\ order = [i \in Orders |-> [filled |-> 0, acc |-> i = 0, live |-> i = 0 /\ start[2] > 0]]
        /\ seen = [i \in Orders |-> [filled |-> 0, terminal |-> i = 0 /\ start[2] = 0]]
  BY DEF Init
<1>2. start[1] \in Nat /\ start[2] \in Nat
  BY ConstantsAssumption
<1>3. /\ row.pend = NoPending /\ row \in [kind : {"LADDER", "RATCHET"}, base : Nat, high : Nat, rung : Rank,
                                          pend : Pendings, taken : BOOLEAN, done : BOOLEAN]
      /\ NoPending.intent = 0 /\ NoPending.act = "none"
  <2>1. NoPending \in Pendings
    BY <1>0 DEF NoPending, Pendings, Actions, Rank
  <2>2. NoPending.intent = 0 /\ NoPending.act = "none" /\ 0 \in Rank
    BY <1>0 DEF NoPending, Rank
  <2> HIDE DEF NoPending
  <2>3. PICK k \in {"LADDER", "RATCHET"} : row = Seed(k)
    BY DEF Init
  <2> QED BY <1>0, <2>1, <2>2, <2>3 DEF Seed
<1> HIDE DEF NoPending
<1>4. /\ snap = NoLine /\ ev = NoLine /\ m = NoCopy /\ pc = "idle" /\ todo = {} /\ clear = TRUE
      /\ att = [i \in Orders |-> IF i = 0 THEN "CONFIRMED" ELSE "none"]
      /\ cxl = [i \in Orders |-> "none"] /\ mkt = Entry /\ crashes = 0 /\ faults = 0
  BY DEF Init
<1>5. Typed
  <2>1. asked \in [Orders -> [act : Actions, level : Nat, qty : Nat]]
    BY <1>1, <1>2 DEF Actions
  <2>2. /\ order \in [Orders -> [filled : Nat, acc : BOOLEAN, live : BOOLEAN]]
        /\ seen \in [Orders -> [filled : Nat, terminal : BOOLEAN]]
    BY <1>1, <1>2
  <2>3. /\ att \in [Orders -> AttemptStates] /\ cxl \in [Orders -> {"none", "IN_DOUBT", "CONFIRMED"}]
    BY <1>4 DEF AttemptStates
  <2>4. NoLine \in Lines /\ NoCopy \in Copies
    BY Blank
  <2> HIDE DEF NoLine, NoCopy
  <2> QED BY <1>0, <1>1, <1>2, <1>3, <1>4, <2>1, <2>2, <2>3, <2>4 DEF Typed, Steps
<1>6. Mine = 0
  <2>1. {i \in Intents : asked[i].act # "none"} = {}
    BY <1>0, <1>1
  <2> QED BY <2>1, FS_EmptySet DEF Mine
<1>7. /\ \A i \in Orders : order[i].filled = 0 /\ seen[i].filled = 0
      /\ \A i \in Intents : att[i] = "none" /\ asked[i].act = "none" /\ ~order[i].acc /\ ~seen[i].terminal
  BY <1>0, <1>1, <1>4
<1>8. Numbered
  <2>1. \A i \in Intents : ~(i <= 0)
    BY <1>0 DEF Intents
  <2>2. 0 \in 0 .. MaxIntents
    BY <1>0
  <2> HIDE DEF Mine
  <2> QED BY <1>3, <1>6, <1>7, <2>1, <2>2 DEF Numbered
<1>9. Followed
  <2>1. att[0] = "CONFIRMED"
    BY <1>0, <1>4
  <2>2. \A i \in Orders : /\ seen[i].filled <= order[i].filled /\ order[i].filled <= asked[i].qty
                          /\ order[i].live => order[i].acc
                          /\ seen[i].terminal => ~order[i].live
    <3> SUFFICES ASSUME NEW i \in Orders
                 PROVE  /\ seen[i].filled <= order[i].filled /\ order[i].filled <= asked[i].qty
                        /\ order[i].live => order[i].acc
                        /\ seen[i].terminal => ~order[i].live
      OBVIOUS
    <3>1. order[i].filled = 0 /\ seen[i].filled = 0 /\ asked[i].qty \in {0, start[2]}
      BY <1>1
    <3>2. order[i].live => i = 0 /\ start[2] > 0 /\ order[i].acc
      BY <1>1
    <3>3. seen[i].terminal => start[2] = 0
      BY <1>1
    <3> QED BY <1>2, <3>1, <3>2, <3>3
  <2> QED BY <1>7, <2>1, <2>2 DEF Followed
<1>10. Ended
  BY <1>3, <1>7 DEF Ended, Over, NeverSent
<1>11. Counted
  BY <1>0, <1>1, <1>2, <1>3, <1>7 DEF Counted, Unrecorded
<1> QED BY <1>0, <1>3, <1>4, <1>5, <1>7, <1>8, <1>9, <1>10, <1>11
        DEF IInv, Judging, Judged, Released, Cleared, Submitting, Carried, NotTaken, PartialOnce, InPass

(* A step that changes nothing keeps everything. *)
LEMMA StutterStep ==
  ASSUME IInv, UNCHANGED vars
  PROVE  IInv'
<1>1. UNCHANGED <<row, snap, qty, att, asked, seen, cxl, order, held, mkt, pc, m, ev, todo, clear,
                  crashes, faults>>
  BY DEF vars, journal, broker, pass
<1>2. Rank' = Rank /\ Lines' = Lines /\ Pendings' = Pendings /\ Copies' = Copies
  BY <1>1, Frame
<1>3. Typed'
  BY <1>1, <1>2 DEF IInv, Typed
<1>4. LedgerInv'
  BY <1>1, LedgerKept DEF IInv, LedgerInv
<1>5. PassInv'
  <2>1. NothingSold' = NothingSold /\ EntryClear' = EntryClear
    BY <1>1 DEF NothingSold, EntryClear
  <2> HIDE DEF NothingSold, EntryClear
  <2> QED BY <1>1, <2>1, PassUntouched
<1>6. Carried'
  BY <1>1 DEF IInv, Carried
<1> QED BY <1>3, <1>4, <1>5, <1>6 DEF IInv, LedgerInv, PassInv

(* Every step of the pass, the engine beside it, the broker and a restart keeps it. *)
LEMMA NextStep ==
  ASSUME IInv, [Next]_vars
  PROVE  IInv'
<1>1. CASE UNCHANGED vars
  BY <1>1, StutterStep
<1>2. CASE ObserveOnce
  BY <1>2, ObserveOnceStep
<1>3. CASE noteHeldProposal
  BY <1>3, noteHeldProposalStep
<1>4. CASE judge
  BY <1>4, judgeStep
<1>5. CASE clearTheSymbol
  BY <1>5, clearTheSymbolStep
<1>6. CASE ReleaseClearedExitProposal
  BY <1>6, ReleaseClearedExitProposalStep
<1>7. CASE recordExitJudgementTx
  BY <1>7, recordExitJudgementTxStep
<1>8. CASE RefuseSubmission
  BY <1>8, RefuseSubmissionStep
<1>9. CASE Place
  BY <1>9, PlaceStep
<1>10. CASE PlaceConfirmed
  BY <1>10, PlaceConfirmedStep
<1>11. CASE PlaceInDoubt
  BY <1>11, PlaceInDoubtStep
<1>12. CASE PlaceUnaccepted
  BY <1>12, PlaceUnacceptedStep
<1>13. CASE ReleaseRefused
  BY <1>13, ReleaseRefusedStep
<1>14. CASE FailBeforeSubmission
  BY <1>14, FailBeforeSubmissionStep
<1>15. CASE PlaceUnrecorded
  BY <1>15, PlaceUnrecordedStep
<1>16. CASE MarketMoves
  BY <1>16, MarketMovesStep
<1>17. CASE Crash
  BY <1>17, CrashStep
<1>18. CASE catchUpExitProposals
  BY <1>18, catchUpExitProposalsStep
<1>19. CASE \E i \in Orders : CancelOrder(i)
  BY <1>19, CancelOrderStep
<1>20. CASE \E i \in Orders : RecordFill(i)
  BY <1>20, RecordFillStep
<1>21. CASE \E i \in Orders : Resolve(i)
  BY <1>21, ResolveStep
<1>22. CASE \E i \in Orders : ResolveCancel(i)
  BY <1>22, ResolveCancelStep
<1>23. CASE \E i \in Orders : attemptThaw(i)
  BY <1>23, attemptThawStep
<1>24. CASE \E i \in Orders : BrokerFill(i)
  BY <1>24, BrokerFillStep
<1>25. CASE \E i \in Orders : BrokerClose(i)
  BY <1>25, BrokerCloseStep
<1> QED BY <1>1, <1>2, <1>3, <1>4, <1>5, <1>6, <1>7, <1>8, <1>9, <1>10, <1>11, <1>12, <1>13, <1>14, <1>15, <1>16, <1>17, <1>18, <1>19, <1>20, <1>21, <1>22, <1>23, <1>24, <1>25
        DEF Next, EnginePass, Environment

(* The open sells are those of the armed proposal. *)
LEMMA SellsAreArmed ==
  ASSUME IInv
  PROVE  ArmedWhileLive
<1> SUFFICES ASSUME NEW i \in Intents, order[i].live, row.pend.intent # i PROVE FALSE
  BY DEF ArmedWhileLive
<1>1. i \in Orders /\ Over(i)
  BY DEF IInv, Ended, Intents, Orders
<1> QED BY <1>1 DEF IInv, Followed, Over

(* What works at the broker is covered by what it holds. *)
LEMMA SellsAreCovered ==
  ASSUME IInv
  PROVE  NoOversell
<1> DEFINE f == [i \in Intents |-> Open(i)]
<1>1. \A i \in Intents : i \in Orders /\ i # 0
  BY ConstantsAssumption DEF Intents, Orders
<1>2. \A i \in Intents : Open(i) \in Int /\ (i # row.pend.intent => Open(i) = 0)
  BY <1>1, SellsAreArmed DEF Open, IInv, Typed, ArmedWhileLive
<1>3. f \in [Intents -> Int] /\ \A i \in Intents : f[i] = Open(i)
  BY <1>2
<1>4. held \in Nat /\ Intents \in SUBSET Intents /\ IsFiniteSet(Intents) /\ 0 \notin Intents
  BY IntentsFinite DEF IInv, Typed
<1>5. PICK p \in Orders : p = row.pend.intent
  BY DEF IInv, Typed, Pendings
<1>6. CASE p = 0
  <2>1. \A i \in Intents : f[i] = 0
    BY <1>1, <1>2, <1>3, <1>5, <1>6
  <2> HIDE DEF f
  <2>2. SumFunctionOnSet(f, Intents) = 0
    BY <1>3, <1>4, <2>1, SumOfZeros
  <2> QED BY <1>4, <2>2 DEF NoOversell, f
<1>7. CASE p # 0
  <2>1. p \in Intents /\ \A i \in Intents \ {p} : f[i] = 0
    BY <1>2, <1>3, <1>5, <1>7, ConstantsAssumption DEF Intents, Orders
  <2>2. SumFunctionOnSet(f, Intents) = Open(p)
    <3> HIDE DEF f
    <3>1. SumFunctionOnSet(f, Intents) = f[p]
      BY <1>3, <1>4, <2>1, SumOfOne
    <3> QED BY <1>3, <2>1, <3>1
  <2>3. Open(p) <= held
    <3>1. /\ held = qty + (order[0].filled - seen[0].filled) - (order[p].filled - seen[p].filled)
          /\ asked[p].qty <= qty + seen[p].filled
      BY <1>5, <1>7 DEF IInv, Counted, Unrecorded
    <3>2. 0 \in Orders
      BY ConstantsAssumption DEF Orders
    <3>3. /\ \A i \in {0, p} : order[i].filled \in Nat /\ seen[i].filled \in Nat /\ asked[i].qty \in Nat
          /\ qty \in Nat /\ seen[0].filled <= order[0].filled
      BY <3>2 DEF IInv, Typed, Followed
    <3>4. CASE order[p].live
      BY <3>1, <3>3, <3>4 DEF Open
    <3>5. CASE ~order[p].live
      BY <1>4, <3>5 DEF Open
    <3> QED BY <3>4, <3>5
  <2> QED BY <2>2, <2>3 DEF NoOversell
<1> QED BY <1>6, <1>7

(* What armed a proposal has something left to end it. *)
LEMMA ArmedCanEnd ==
  ASSUME IInv
  PROVE  ProposalCanEnd
<1> SUFFICES ASSUME pc = "idle", row.pend.intent # 0, faults = 0
             PROVE  Verdict(row.pend.intent) \notin {"NO_ATTEMPTS", "ORDERS_CLOSED"}
  BY DEF ProposalCanEnd, IInv, Typed
<1>1. PICK p \in Orders : p = row.pend.intent
  BY DEF IInv, Typed, Pendings
<1>2. ~seen[p].terminal /\ att[p] # "none"
  BY <1>1 DEF IInv, Ended, Carried
<1>3. Verdict(p) = "NO_ATTEMPTS" => att[p] = "none"
  BY VerdictShape DEF IInv
<1>4. Verdict(p) = "ORDERS_CLOSED" => seen[p].terminal
  BY VerdictShape DEF IInv
<1> QED BY <1>1, <1>2, <1>3, <1>4

(* The invariant says what the exit engine promises. *)
LEMMA ExitMeans ==
  ASSUME IInv
  PROVE  ExitInv
<1>1. TypeOK
  <2>1. (row.pend.act = "none") = (row.pend.intent = 0)
    BY DEF IInv, Numbered
  <2> QED BY <2>1 DEF IInv, Typed, Followed, TypeOK, Pendings, Rank
<1> QED BY <1>1, SellsAreArmed, SellsAreCovered, ArmedCanEnd DEF IInv, ExitInv

(* The protective line and the watermark only rise: judge and                *)
(* recordExitJudgementTx alone write them, from a line at least as high.     *)
LEMMA ProtectionRises ==
  ASSUME IInv, [Next]_vars
  PROVE  ProtectionMonotone
<1>0. /\ row.base \in Nat /\ row.high \in Nat
      /\ \A i \in Orders : LET r == clearExitProposalTx(row, i) IN r.base = row.base /\ r.high = row.high
  BY DEF IInv, Typed, clearExitProposalTx
<1>1. CASE judge
  <2>1. PICK line : Beats(line) \/ Judges(line)
    BY <1>1, JudgeShape
  <2> QED BY <1>0, <2>1 DEF Beats, Judges, ProtectionMonotone
<1>2. CASE recordExitJudgementTx
  BY <1>2, RecordShape DEF Records, ProtectionMonotone
<1>3. CASE \E i \in Orders : RecordFill(i)
  BY <1>0, <1>3 DEF IInv, Typed, RecordFill, ApplyExitFill, ProtectionMonotone
<1>4. CASE \/ noteHeldProposal \/ ReleaseClearedExitProposal \/ RefuseSubmission \/ ReleaseRefused
           \/ catchUpExitProposals \/ \E i \in Orders : attemptThaw(i)
  <2>1. m.pend.intent \in Orders /\ row.pend.intent \in Orders /\ Mine \in Orders
    BY ConstantsAssumption DEF IInv, Typed, Copies, Pendings, Numbered, Orders
  <2>2. row' = row \/ \E i \in Orders : row' = clearExitProposalTx(row, i)
    <3> HIDE DEF Mine
    <3> QED BY <1>4, <2>1 DEF noteHeldProposal, ReleaseClearedExitProposal, RefuseSubmission, ReleaseRefused,
                 catchUpExitProposals, attemptThaw, release, ReleaseUnacceptedExitProposal
  <2> QED BY <1>0, <2>2 DEF ProtectionMonotone
<1>5. CASE row' = row
  BY <1>0, <1>5 DEF ProtectionMonotone
<1> QED BY <1>1, <1>2, <1>3, <1>4, <1>5
        DEF Next, EnginePass, Environment, vars, journal, ObserveOnce, clearTheSymbol, CancelOrder, Place,
            PlaceConfirmed, PlaceInDoubt, PlaceUnaccepted, FailBeforeSubmission, PlaceUnrecorded, Resolve,
            ResolveCancel, BrokerFill, BrokerClose, MarketMoves, Crash

(* Only Place sends, and a full exit only over a cleared entry. *)
LEMMA ClearedBeforeSent ==
  ASSUME IInv, [Next]_vars
  PROVE  EntryClearedFirst
<1> SUFFICES ASSUME NEW i \in Intents, att[i] = "none", att'[i] = "DISPATCH_STARTED",
                    asked[i].act \in {"STOP", "TAKE"}
             PROVE  seen[0].terminal \/ cxl[0] = "CONFIRMED"
  BY DEF EntryClearedFirst
<1>0. i \in Orders /\ att \in [Orders -> AttemptStates] /\ Mine \in Orders
  BY ConstantsAssumption DEF IInv, Typed, Numbered, Intents, Orders
<1>1. CASE Place
  <2>1. pc = "armed" /\ att' = [att EXCEPT ![Mine] = "DISPATCH_STARTED"]
    BY <1>1 DEF Place
  <2> HIDE DEF Mine
  <2>2. i = Mine
    BY <1>0, <2>1
  <2> QED BY <2>1, <2>2 DEF IInv, Cleared, EntryClear, FullExit
<1>2. CASE PlaceConfirmed \/ PlaceInDoubt \/ PlaceUnaccepted
  <2> HIDE DEF Mine
  <2> QED BY <1>0, <1>2 DEF PlaceConfirmed, PlaceInDoubt, PlaceUnaccepted
<1>3. CASE catchUpExitProposals \/ \E j \in Orders : Resolve(j) \/ attemptThaw(j)
  BY <1>0, <1>3 DEF catchUpExitProposals, Resolve, attemptThaw
<1>4. CASE att' = att
  BY <1>4
<1> QED BY <1>1, <1>2, <1>3, <1>4
        DEF Next, EnginePass, Environment, vars, journal, ObserveOnce, noteHeldProposal, judge, clearTheSymbol,
            CancelOrder, ReleaseClearedExitProposal, recordExitJudgementTx, RefuseSubmission, ReleaseRefused,
            FailBeforeSubmission, PlaceUnrecorded, RecordFill, ResolveCancel, BrokerFill, BrokerClose,
            MarketMoves, Crash

(* The invariant holds in every state a position's exit can reach. *)
THEOREM ExitHolds == Spec => []IInv
<1>1. Init => IInv
  BY InitStep
<1>2. IInv /\ [Next]_vars => IInv'
  BY NextStep
<1> QED BY <1>1, <1>2, PTL DEF Spec

(* The exit engine's promise, whatever fills, verdicts, thaws and restarts   *)
(* come between the steps of a pass (exitloop.go, apply_hook.go,             *)
(* boot_catchup.go): the exit sells never ask for more than is held, one     *)
(* proposal is out at a time and has something left to end it, and a part    *)
(* is taken once.                                                            *)
THEOREM ExitIsSafe == Spec => []ExitInv
<1>1. IInv => ExitInv
  BY ExitMeans
<1> QED BY <1>1, ExitHolds, PTL

(* No step sends a full exit before the working entry is known closed or its *)
(* cancel accepted, and none lowers the protective line or the watermark.    *)
THEOREM ProtectionHolds == Spec => ExitSteps
<1>1. IInv /\ [Next]_vars => [EntryClearedFirst /\ ProtectionMonotone]_vars
  BY ClearedBeforeSent, ProtectionRises
<1> QED BY <1>1, ExitHolds, PTL DEF Spec, ExitSteps
=============================================================================
