---------------------------- MODULE AlertProofs ----------------------------
(* Proofs about the alert outbox and its senders (internal/journal/outbox.go,   *)
(* internal/journal/alert_claim.go, internal/obs/notifier.go,                   *)
(* internal/app/engine/alertdelivery.go).                                       *)
EXTENDS Alerts, Integers, FiniteSetTheorems, TLAPS

(* The operator's command was bound when it began, and what it has counted    *)
(* stays counted until it clears: nothing the notifier records is pending.    *)
AckOK ==
  /\ ack.pc # "idle" => epoch < bound.clears
  /\ ack.pc = "clear" => Pending \subseteq Direct

(* What the durable mode owes is in the mode. *)
DurableOK == owed = "durable" => mode

(* Whoever may still publish has a publish left; the executor has one.        *)
BudgetLeft ==
  \A x \in Workers : work[x].pc \in {"publish", "delivered", "failed"} =>
    /\ work[x].left >= 1
    /\ x = Executor => work[x].left = 1 /\ work[x].res = "none"

(* Without a stall the lease of a row that is being sent has not lapsed.      *)
LeaseLive(k) ==
  k \in Pending /\ faults.stalls = 0 /\ row[k].lapsed /\ row[k].holder \in Workers
    => ~Sending(row[k].holder, k)

(* x will judge the row it brought to the limit, at the present clear epoch.  *)
WillJudge(x, k) ==
  /\ work[x].key = k
  /\ \/ work[x].pc \in Claimed /\ Holds(x, k) /\ x # Executor
     \/ work[x].pc = "release" /\ Holds(x, k) /\ work[x].res = "applied"
     \/ work[x].pc = "judge" /\ (x # Executor \/ work[x].res = "applied")
     \/ work[x].pc = "block" /\ work[x].epoch = epoch

(* A row at the limit is latched or about to be. *)
LimitJudged(k) ==
  k \in Pending \ Direct /\ row[k].attempts >= Limit /\ faults.stalls = 0
    => latch \/ \E x \in Workers : WillJudge(x, k)

(* Who may still publish the row, and whether its lease is that of one.       *)
MayPublish(w, k) == w.key = k /\ w.pc \in {"publish", "failed"}
Publishers(k) == {x \in Workers : MayPublish(work[x], k)}
Protected(k) ==
  /\ row[k].holder \in Workers /\ ~row[k].lapsed
  /\ work[row[k].holder].key = k
  /\ work[row[k].holder].pc \in {"publish", "failed", "delivered"}

(* Publishes made and still possible are excused but for one, and for all of  *)
(* them while the next holder could take the row.                             *)
PublishesCounted(k) ==
  /\ sent[k] + Cardinality(Publishers(k)) <= 1 + excuse[k]
  /\ k \in Pending /\ ~Protected(k) => sent[k] + Cardinality(Publishers(k)) <= excuse[k]

RowOK(k) == LeaseLive(k) /\ LimitJudged(k) /\ PublishesCounted(k)

AlertIInv ==
  /\ TypeOK /\ bound \in Bounds
  /\ AckOK /\ BlockedUntilHuman /\ DurableOK /\ BudgetLeft
  /\ \A k \in Keys : RowOK(k)

-----------------------------------------------------------------------------
(* Helpers: the workers are finitely many, and counting those that may still  *)
(* publish a row, when one worker moves.                                      *)

LEMMA WorkersFinite == IsFiniteSet(Workers)
<1>1. IsFiniteSet(Senders)  BY AlertsAssumption
<1> QED  BY <1>1, FS_AddElement DEF Workers

(* Idle is a worker's state whatever key CHOOSE picks (Idle, Work). *)
LEMMA IdleWork ==
  /\ Idle \in Work /\ Idle.key \in Keys /\ Idle.pc = "idle"
  /\ Idle.left = 0 /\ Idle.epoch = 0 /\ Idle.res = "none" /\ Idle.record = FALSE
<1>1. PICK k \in Keys : TRUE  BY AlertsAssumption
<1>2. (CHOOSE j \in Keys : TRUE) \in Keys  BY <1>1
<1>3. Limit \in Nat /\ 0 \in 0..Limit  BY AlertsAssumption
<1> QED  BY <1>2, <1>3 DEF Idle, Work

LEMMA PublishersFinite ==
  \A k : IsFiniteSet(Publishers(k)) /\ Cardinality(Publishers(k)) \in Nat
<1>1. \A k : Publishers(k) \subseteq Workers  BY DEF Publishers
<1> QED  BY <1>1, WorkersFinite, FS_Subset, FS_CardinalityType

(* The senders of a row outnumber those that may still publish it. *)
LEMMA SendersCover ==
  \A k : LET S == {x \in Workers : Sending(x, k)} IN
           Cardinality(S) \in Nat /\ Cardinality(Publishers(k)) <= Cardinality(S)
<1> SUFFICES ASSUME NEW k
             PROVE  /\ Cardinality({x \in Workers : Sending(x, k)}) \in Nat
                    /\ Cardinality(Publishers(k))
                         <= Cardinality({x \in Workers : Sending(x, k)})
  OBVIOUS
<1> DEFINE S == {x \in Workers : Sending(x, k)}
<1>1. IsFiniteSet(S)  BY WorkersFinite, FS_Subset
<1>2. Publishers(k) \subseteq S  BY DEF Publishers, MayPublish, Sending, Claimed
<1> QED  BY <1>1, <1>2, FS_Subset, FS_CardinalityType

(* One worker's move changes the count of publishers of a row by at most one. *)
LEMMA CountStep ==
  ASSUME work \in [Workers -> Work], NEW x \in Workers, NEW W,
         work' = [work EXCEPT ![x] = W], NEW k
  PROVE  /\ Cardinality(Publishers(k)') = Cardinality(Publishers(k))
              - (IF MayPublish(work[x], k) THEN 1 ELSE 0)
              + (IF MayPublish(W, k) THEN 1 ELSE 0)
         /\ Cardinality(Publishers(k)) \in Nat
         /\ MayPublish(work[x], k) => Cardinality(Publishers(k)) >= 1
<1> DEFINE P == Publishers(k)  Q == Publishers(k)'
<1>1. Q = {y \in Workers : MayPublish(work'[y], k)}
  BY DEF Publishers
<1>2. /\ work'[x] = W
      /\ \A y \in Workers : y # x => work'[y] = work[y]
  OBVIOUS
<1>3. /\ x \in P <=> MayPublish(work[x], k)
      /\ x \in Q <=> MayPublish(W, k)
      /\ \A y : y # x => (y \in P <=> y \in Q)
  BY <1>1, <1>2 DEF Publishers
<1>4. IsFiniteSet(P) /\ Cardinality(P) \in Nat  BY PublishersFinite
<1> HIDE DEF P, Q
<1>5. CASE x \in P <=> x \in Q
  <2>1. P = Q  BY <1>3, <1>5
  <2>2. x \in P => Cardinality(P) # 0  BY <1>4, FS_EmptySet
  <2> QED  BY <2>1, <2>2, <1>3, <1>4, <1>5 DEF P, Q
<1>7. CASE x \in P /\ x \notin Q
  <2>1. Q = P \ {x}  BY <1>3, <1>7
  <2>2. Cardinality(Q) = Cardinality(P) - 1 /\ Cardinality(Q) \in Nat
    BY <2>1, <1>4, <1>7, FS_RemoveElement, FS_CardinalityType
  <2> QED  BY <2>2, <1>3, <1>4, <1>7 DEF P, Q
<1>8. CASE x \notin P /\ x \in Q
  <2>1. Q = P \cup {x}  BY <1>3, <1>8
  <2>2. Cardinality(Q) = Cardinality(P) + 1
    BY <2>1, <1>4, <1>8, FS_AddElement
  <2> QED  BY <2>2, <1>3, <1>4, <1>8 DEF P, Q
<1> QED  BY <1>5, <1>7, <1>8

LEMMA CountSame ==
  ASSUME work \in [Workers -> Work], NEW x \in Workers, NEW W,
         work' = [work EXCEPT ![x] = W], NEW k,
         MayPublish(work[x], k) <=> MayPublish(W, k)
  PROVE  /\ Cardinality(Publishers(k)') = Cardinality(Publishers(k))
         /\ Cardinality(Publishers(k)) \in Nat
<1> DEFINE n == Cardinality(Publishers(k))  m == Cardinality(Publishers(k)')
<1>1. /\ m = n - (IF MayPublish(work[x], k) THEN 1 ELSE 0)
              + (IF MayPublish(W, k) THEN 1 ELSE 0)
      /\ n \in Nat
  BY CountStep
<1> HIDE DEF n, m
<1>2. m = n
  <2>1. CASE MayPublish(W, k)  BY <1>1, <2>1
  <2>2. CASE ~MayPublish(W, k)  BY <1>1, <2>2
  <2> QED  BY <2>1, <2>2
<1> QED  BY <1>1, <1>2 DEF n, m

-----------------------------------------------------------------------------
(* Type correctness, action by action (outbox.go's row columns, the sender's  *)
(* budget, the executor's failure runs).                                      *)

LEMMA RowWrites ==
  ASSUME TypeOK, NEW k \in Keys
  PROVE  /\ row[k] \in Row /\ Fresh(row[k]) \in Row /\ Tried(row[k]) \in Row
         /\ Unleased(row[k]) \in Row
         /\ \A remind \in BOOLEAN : Recorded(k, remind) \in Row
         /\ \A x \in Workers, r \in Row : Leased(r, x) \in Row
<1>1. row[k] \in Row  BY DEF TypeOK
<1>2. Limit \in Nat \ {0}  BY AlertsAssumption
<1>3. Fresh(row[k]) \in Row  BY <1>1, <1>2 DEF Fresh, Row
<1>4. Tried(row[k]) \in Row  BY <1>1, <1>2 DEF Tried, Row
<1>5. Unleased(row[k]) \in Row  BY <1>1 DEF Unleased, Row
<1>6. \A x \in Workers, r \in Row : Leased(r, x) \in Row  BY DEF Leased, Row
<1> QED  BY <1>1, <1>3, <1>4, <1>5, <1>6 DEF Recorded

(* What each write of a row leaves of its columns. *)
LEMMA RowParts ==
  ASSUME NEW r \in Row
  PROVE  /\ Tried(r).state = r.state /\ Tried(r).holder = r.holder
         /\ Tried(r).lapsed = r.lapsed
         /\ Unleased(r).state = r.state /\ Unleased(r).attempts = r.attempts
         /\ Unleased(r).holder = Nobody
         /\ \A x \in Workers : /\ Leased(r, x).state = r.state
                               /\ Leased(r, x).attempts = r.attempts
                               /\ Leased(r, x).holder = x /\ ~Leased(r, x).lapsed
         /\ Fresh(r).state = "PENDING" /\ Fresh(r).attempts = 0
         /\ Fresh(r).holder = Nobody /\ ~Fresh(r).lapsed
         /\ [Tried(Unleased(r)) EXCEPT !.state = "DELIVERED"].state = "DELIVERED"
         /\ [Unleased(r) EXCEPT !.state = "ACKNOWLEDGED"].state = "ACKNOWLEDGED"
         /\ \A b : /\ [r EXCEPT !.lapsed = b].state = r.state
                   /\ [r EXCEPT !.lapsed = b].attempts = r.attempts
                   /\ [r EXCEPT !.lapsed = b].holder = r.holder
                   /\ [r EXCEPT !.lapsed = b].lapsed = b
                   /\ [r EXCEPT !.due = b].state = r.state
                   /\ [r EXCEPT !.due = b].attempts = r.attempts
                   /\ [r EXCEPT !.due = b].holder = r.holder
                   /\ [r EXCEPT !.due = b].lapsed = r.lapsed
<1>1. /\ Tried(r).state = r.state /\ Tried(r).holder = r.holder
      /\ Tried(r).lapsed = r.lapsed
  BY DEF Tried, Row
<1>2. /\ Unleased(r).state = r.state /\ Unleased(r).attempts = r.attempts
      /\ Unleased(r).holder = Nobody
  BY DEF Unleased, Row
<1>3. \A x \in Workers : /\ Leased(r, x).state = r.state
                         /\ Leased(r, x).attempts = r.attempts
                         /\ Leased(r, x).holder = x /\ ~Leased(r, x).lapsed
  BY DEF Leased, Row
<1>4. /\ Fresh(r).state = "PENDING" /\ Fresh(r).attempts = 0
      /\ Fresh(r).holder = Nobody /\ ~Fresh(r).lapsed
  BY DEF Fresh
<1>5. /\ [Tried(Unleased(r)) EXCEPT !.state = "DELIVERED"].state = "DELIVERED"
      /\ [Unleased(r) EXCEPT !.state = "ACKNOWLEDGED"].state = "ACKNOWLEDGED"
  BY DEF Tried, Unleased, Row
<1>6. \A b : /\ [r EXCEPT !.lapsed = b].state = r.state
             /\ [r EXCEPT !.lapsed = b].attempts = r.attempts
             /\ [r EXCEPT !.lapsed = b].holder = r.holder
             /\ [r EXCEPT !.lapsed = b].lapsed = b
             /\ [r EXCEPT !.due = b].state = r.state
             /\ [r EXCEPT !.due = b].attempts = r.attempts
             /\ [r EXCEPT !.due = b].holder = r.holder
             /\ [r EXCEPT !.due = b].lapsed = r.lapsed
  BY DEF Row
<1> QED  BY <1>1, <1>2, <1>3, <1>4, <1>5, <1>6

(* What a worker that was idle becomes, column by column. *)
LEMMA IdleBecomes ==
  ASSUME NEW k \in Keys
  PROVE  /\ \A n \in Nat : LET w == [Idle EXCEPT !.pc = "publish", !.key = k, !.left = n]
                           IN  w.pc = "publish" /\ w.key = k /\ w.left = n /\ w.res = "none"
         /\ \A e \in Nat : LET w == [Idle EXCEPT !.pc = "block", !.key = k, !.epoch = e]
                           IN  w.pc = "block" /\ w.key = k /\ w.epoch = e
         /\ Verdict(k).pc = "block" /\ Verdict(k).key = k /\ Verdict(k).epoch = epoch
         /\ LET w == [Idle EXCEPT !.pc = "escalate", !.key = k]
            IN  w.pc = "escalate" /\ w.key = k
         /\ LET w == [Idle EXCEPT !.pc = "escalate", !.key = k, !.record = TRUE]
            IN  w.pc = "escalate" /\ w.key = k
<1>1. \A n \in Nat : LET w == [Idle EXCEPT !.pc = "publish", !.key = k, !.left = n]
                     IN  w.pc = "publish" /\ w.key = k /\ w.left = n /\ w.res = "none"
  BY IdleWork DEF Work
<1>2. \A e \in Nat : LET w == [Idle EXCEPT !.pc = "block", !.key = k, !.epoch = e]
                     IN  w.pc = "block" /\ w.key = k /\ w.epoch = e
  BY IdleWork DEF Work
<1>3. Verdict(k).pc = "block" /\ Verdict(k).key = k /\ Verdict(k).epoch = epoch
  BY IdleWork DEF Work, Verdict
<1>4. LET w == [Idle EXCEPT !.pc = "escalate", !.key = k]
      IN  w.pc = "escalate" /\ w.key = k
  BY IdleWork DEF Work
<1>5. LET w == [Idle EXCEPT !.pc = "escalate", !.key = k, !.record = TRUE]
      IN  w.pc = "escalate" /\ w.key = k
  BY IdleWork DEF Work
<1> QED  BY <1>1, <1>2, <1>3, <1>4, <1>5

LEMMA RunWrites ==
  ASSUME TypeOK, NEW run \in Run
  PROVE  /\ NoRun \in Run /\ Advance(run) \in Run
         /\ BlockEpoch(run) \in Nat
<1>1. Limit \in Nat \ {0}  BY AlertsAssumption
<1>2. epoch \in Nat  BY DEF TypeOK
<1> QED  BY <1>1, <1>2 DEF Run, NoRun, Advance, Judged, BlockEpoch

(* What a worker may become. *)
LEMMA WorkWrites ==
  ASSUME TypeOK, NEW x \in Workers, NEW k \in Keys
  PROVE  /\ work[x] \in Work /\ work[x].key \in Keys
         /\ \A pc \in {"idle", "publish", "delivered", "failed", "release", "judge",
                       "block", "escalate"} : [work[x] EXCEPT !.pc = pc] \in Work
         /\ \A n \in 0..Limit :
              [Idle EXCEPT !.pc = "publish", !.key = k, !.left = n] \in Work
         /\ Verdict(k) \in Work
         /\ \A e \in Nat : [Idle EXCEPT !.pc = "block", !.key = k, !.epoch = e] \in Work
         /\ [Idle EXCEPT !.pc = "escalate", !.key = k] \in Work
         /\ [Idle EXCEPT !.pc = "escalate", !.key = k, !.record = TRUE] \in Work
<1>1. work[x] \in Work /\ epoch \in Nat  BY DEF TypeOK
<1>2. Idle \in Work  BY IdleWork
<1> QED  BY <1>1, <1>2 DEF Work, Verdict

LEMMA GhostWrites ==
  ASSUME TypeOK, NEW k \in Keys, NEW remind, ArmGhosts(k, remind)
  PROVE  sent' \in [Keys -> Nat] /\ excuse' \in [Keys -> Nat]
<1>1. Cardinality({x \in Workers : Sending(x, k)}) \in Nat  BY SendersCover
<1> QED  BY <1>1 DEF ArmGhosts, TypeOK

LEMMA TypeStep ==
  ASSUME AlertIInv, Next
  PROVE  TypeOK'
<1> USE DEF AlertIInv
<1>a. /\ bound' = bound /\ bound.clears \in Nat /\ bound.stalls \in Nat
      /\ bound.crashes \in Nat /\ bound.unrecorded \in Nat
  BY AlertsAssumption DEF Next
<1>b. Limit \in Nat \ {0}  BY AlertsAssumption
<1>c. Executor \in Workers /\ Senders \subseteq Workers  BY DEF Workers
<1>1. ASSUME NEW s \in Senders, NEW k \in Keys, Observe(s, k) PROVE TypeOK'
  <2>1. Leased(Recorded(k, TRUE), s) \in Row  BY <1>c, RowWrites
  <2>2. [Idle EXCEPT !.pc = "publish", !.key = k, !.left = Limit] \in Work
    <3>1. s \in Workers /\ Limit \in 0..Limit  BY <1>b, <1>c
    <3> QED  BY <3>1, WorkWrites
  <2>3. sent' \in [Keys -> Nat] /\ excuse' \in [Keys -> Nat]  BY <1>1, GhostWrites DEF Observe
  <2> QED  BY <1>1, <1>a, <2>1, <2>2, <2>3 DEF TypeOK, Observe, gate
<1>2. ASSUME NEW s \in Senders, NEW k \in Keys, RecordFails(s, k) PROVE TypeOK'
  <2>1. [Idle EXCEPT !.pc = "escalate", !.key = k, !.record = TRUE] \in Work
    BY <1>c, WorkWrites
  <2> QED  BY <1>2, <1>a, <2>1 DEF TypeOK, RecordFails, outbox
<1>3. ASSUME NEW s \in Senders, NEW k \in Keys, NEW remind \in BOOLEAN,
             RecordOnly(s, k, remind)
      PROVE  TypeOK'
  <2>1. Recorded(k, remind) \in Row  BY RowWrites
  <2>2. sent' \in [Keys -> Nat] /\ excuse' \in [Keys -> Nat]
    BY <1>3, GhostWrites DEF RecordOnly
  <2> QED  BY <1>3, <1>a, <2>1, <2>2 DEF TypeOK, RecordOnly, gate
<1>4. ASSUME NEW k \in Keys, EnqueueAlert(k) PROVE TypeOK'
  <2>1. Recorded(k, FALSE) \in Row  BY RowWrites
  <2>2. sent' \in [Keys -> Nat] /\ excuse' \in [Keys -> Nat]
    BY <1>4, GhostWrites DEF EnqueueAlert
  <2> QED  BY <1>4, <1>a, <2>1, <2>2 DEF TypeOK, EnqueueAlert, gate
<1>5. ASSUME NEW x \in Workers, NEW ok \in BOOLEAN, Publish(x, ok) PROVE TypeOK'
  <2>1. work[x].key \in Keys  BY WorkWrites, AlertsAssumption
  <2>2. work' \in [Workers -> Work]
    <3>1. /\ [work[x] EXCEPT !.pc = "delivered"] \in Work
          /\ [work[x] EXCEPT !.pc = "failed"] \in Work
      BY <2>1, WorkWrites
    <3> QED  BY <1>5, <3>1 DEF TypeOK, Publish, Goto
  <2>3. sent' \in [Keys -> Nat]  BY <1>5, <2>1 DEF TypeOK, Publish
  <2> QED  BY <1>5, <1>a, <2>2, <2>3 DEF TypeOK, Publish, gate
<1>6. ASSUME NEW x \in Workers, MarkDelivered(x) PROVE TypeOK'
  <2> DEFINE k == work[x].key
  <2>1. k \in Keys  BY WorkWrites, AlertsAssumption
  <2>2. [Tried(Unleased(row[k])) EXCEPT !.state = "DELIVERED"] \in Row
    <3>1. row[k] \in Row  BY <2>1 DEF TypeOK
    <3>2. \A r \in Row : Unleased(r) \in Row  BY DEF Unleased, Row
    <3>3. \A r \in Row : Tried(r) \in Row  BY <1>b DEF Tried, Row
    <3>4. \A r \in Row : [r EXCEPT !.state = "DELIVERED"] \in Row  BY DEF Row
    <3> QED  BY <3>1, <3>2, <3>3, <3>4
  <2>3. Idle \in Work /\ [work[x] EXCEPT !.pc = "judge"] \in Work
    BY <2>1, IdleWork, WorkWrites
  <2>4. row' \in [Keys -> Row]  BY <1>6, <2>2 DEF TypeOK, MarkDelivered
  <2>5. work' \in [Workers -> Work]  BY <1>6, <2>3 DEF TypeOK, MarkDelivered, Goto
  <2>6. runs' \in [Keys -> Run]
    BY <1>6, RunWrites DEF TypeOK, MarkDelivered, Forget
  <2>7. /\ excuse' \in [Keys -> Nat]
        /\ faults' \in [stalls : 0..bound.stalls, crashes : 0..bound.crashes,
                         unrecorded : 0..bound.unrecorded]
    BY <1>6, <1>a, <2>1 DEF TypeOK, MarkDelivered
  <2> QED  BY <1>6, <1>a, <2>4, <2>5, <2>6, <2>7 DEF TypeOK, MarkDelivered, gate
<1>7. ASSUME NEW x \in Workers, NEW err \in BOOLEAN, MarkAttemptFailed(x, err)
      PROVE  TypeOK'
  <2>1. work[x].key \in Keys /\ work[x] \in Work  BY WorkWrites, AlertsAssumption
  <2>2. work[x].left - 1 \in 0..Limit
    BY <1>7, <2>1, <1>b DEF MarkAttemptFailed, BudgetLeft, Work
  <2>3. \A pc \in {"publish", "release"}, res \in {"error", "applied", "preempted"} :
          [work[x] EXCEPT !.pc = pc, !.left = @ - 1, !.res = res] \in Work
    BY <2>1, <2>2 DEF Work
  <2>4. Idle \in Work  BY IdleWork
  <2>5. work' \in [Workers -> Work]
    <3>1. \E pc \in {"publish", "release"}, res \in {"error", "applied", "preempted"} :
            work' \in {[work EXCEPT ![x] = Idle],
                      [work EXCEPT ![x] =
                         [work[x] EXCEPT !.pc = pc, !.left = @ - 1, !.res = res]]}
      BY <1>7 DEF MarkAttemptFailed, SettleOutcome
    <3> QED  BY <3>1, <2>3, <2>4 DEF TypeOK
  <2>6. row' \in [Keys -> Row]  BY <1>7, <2>1, RowWrites DEF TypeOK, MarkAttemptFailed
  <2> QED  BY <1>7, <1>a, <2>5, <2>6 DEF TypeOK, MarkAttemptFailed, gate
<1>8. ASSUME NEW x \in Workers, NEW err \in BOOLEAN, Release(x, err) PROVE TypeOK'
  <2>1. work[x].key \in Keys  BY WorkWrites, AlertsAssumption
  <2>2. Idle \in Work /\ [work[x] EXCEPT !.pc = "judge"] \in Work
    BY <2>1, IdleWork, WorkWrites
  <2>3. work' \in [Workers -> Work]  BY <1>8, <2>2 DEF TypeOK, Release
  <2>4. row' \in [Keys -> Row]  BY <1>8, <2>1, RowWrites DEF TypeOK, Release
  <2> QED  BY <1>8, <1>a, <2>3, <2>4 DEF TypeOK, Release, gate
<1>9. ASSUME NEW x \in Workers, Judge(x) PROVE TypeOK'
  <2> DEFINE k == work[x].key
  <2>1. k \in Keys  BY WorkWrites, AlertsAssumption
  <2>2. /\ runs[k] \in Run /\ NoRun \in Run /\ Advance(runs[k]) \in Run
        /\ BlockEpoch(runs[k]) \in Nat
    BY <2>1, RunWrites DEF TypeOK
  <2>3. /\ Verdict(k) \in Work /\ Idle \in Work
        /\ [Idle EXCEPT !.pc = "block", !.key = k, !.epoch = BlockEpoch(runs[k])] \in Work
    BY <2>1, <2>2, IdleWork, WorkWrites
  <2>4. work' \in [Workers -> Work]
    BY <1>9, <2>3 DEF TypeOK, Judge, CountRecordFailure
  <2>5. runs' \in [Keys -> Run]
    BY <1>9, <2>2 DEF TypeOK, Judge, CountRecordFailure, Forget
  <2> QED  BY <1>9, <1>a, <2>4, <2>5 DEF TypeOK, Judge, gate, outbox
<1>10. ASSUME NEW x \in Workers, Block(x) PROVE TypeOK'
  <2>1. work[x].key \in Keys  BY WorkWrites, AlertsAssumption
  <2>2. [Idle EXCEPT !.pc = "escalate", !.key = work[x].key] \in Work
    BY <2>1, WorkWrites
  <2> QED  BY <1>10, <1>a, <2>2 DEF TypeOK, Block, outbox
<1>11. ASSUME NEW x \in Workers, NEW ok \in BOOLEAN, Escalate(x, ok) PROVE TypeOK'
  BY <1>11, <1>a, IdleWork DEF TypeOK, Escalate, outbox
<1>12. ASSUME List PROVE TypeOK'
  <2>1. Listed \subseteq Keys  BY DEF Listed, Pending
  <2>2. NoRun \in Run  BY <1>b DEF Run, NoRun
  <2> QED  BY <1>12, <1>a, <2>1, <2>2 DEF TypeOK, List, outbox, gate
<1>13. ASSUME ListFails PROVE TypeOK'
  <2>1. Advance(listRun) \in Run /\ BlockEpoch(listRun) \in Nat  BY RunWrites DEF TypeOK
  <2>2. work[Executor] \in Work  BY <1>c DEF TypeOK
  <2>3. [[work[Executor] EXCEPT !.pc = "block"] EXCEPT !.epoch = BlockEpoch(listRun)] \in Work
    BY <2>1, <2>2 DEF Work
  <2>4. work' \in [Workers -> Work]
    BY <1>13, <1>c, <2>3 DEF TypeOK, ListFails
  <2> QED  BY <1>13, <1>a, <2>1, <2>4 DEF TypeOK, ListFails, outbox, gate
<1>14. ASSUME NEW k \in Keys, Claim(k) PROVE TypeOK'
  <2>2. /\ runs[k] \in Run /\ NoRun \in Run /\ Advance(runs[k]) \in Run
        /\ BlockEpoch(runs[k]) \in Nat
    BY RunWrites DEF TypeOK
  <2>3. /\ Idle \in Work
        /\ [Idle EXCEPT !.pc = "publish", !.key = k, !.left = 1] \in Work
        /\ [Idle EXCEPT !.pc = "block", !.key = k, !.epoch = BlockEpoch(runs[k])] \in Work
    <3>1. 1 \in 0..Limit  BY <1>b
    <3> QED  BY <3>1, <1>c, <2>2, IdleWork, WorkWrites
  <2>4. work' \in [Workers -> Work]
    BY <1>14, <2>3 DEF TypeOK, Claim, CountRecordFailure
  <2>5. runs' \in [Keys -> Run]
    BY <1>14, <2>2 DEF TypeOK, Claim, CountRecordFailure
  <2>6. row' \in [Keys -> Row]  BY <1>14, <1>c, RowWrites DEF TypeOK, Claim
  <2> QED  BY <1>14, <1>a, <2>4, <2>5, <2>6 DEF TypeOK, Claim, gate
<1>15. ASSUME AckStart PROVE TypeOK'
  BY <1>15, <1>a DEF TypeOK, AckStart, outbox, gate, Pending
<1>16. ASSUME AckRow PROVE TypeOK'
  <2>1. \A k \in Keys : [Unleased(row[k]) EXCEPT !.state = "ACKNOWLEDGED"] \in Row
    BY RowWrites DEF Row
  <2>2. row' \in [Keys -> Row]  BY <1>16, <2>1 DEF TypeOK, AckRow, Pending
  <2> QED  BY <1>16, <1>a, <2>2 DEF TypeOK, AckRow, gate
<1>17. ASSUME AckFails \/ AckCount PROVE TypeOK'
  BY <1>17, <1>a DEF TypeOK, AckFails, AckCount, outbox, gate
<1>18. ASSUME AckClear PROVE TypeOK'
  <2>1. epoch' \in 0..bound'.clears
    BY <1>18, <1>a DEF TypeOK, AckClear, AckOK
  <2>2. ack' \in [pc : {"idle", "rows", "clear"}, todo : SUBSET Keys]
    BY <1>18 DEF TypeOK, AckClear
  <2>3. owed' \in {"none", "memory", "durable"}  BY <1>18 DEF TypeOK, AckClear
  <2> QED  BY <1>18, <1>a, <2>1, <2>2, <2>3 DEF TypeOK, AckClear, outbox
<1>19. ASSUME ModeRelease PROVE TypeOK'
  BY <1>19, <1>a DEF TypeOK, ModeRelease, outbox
<1>20. ASSUME NEW k \in Keys, LeaseLapses(k) PROVE TypeOK'
  <2>1. row[k] \in Row  BY DEF TypeOK
  <2>2. [row[k] EXCEPT !.lapsed = TRUE] \in Row  BY <2>1 DEF Row
  <2>3. row' \in [Keys -> Row]  BY <1>20, <2>2 DEF TypeOK, LeaseLapses
  <2> QED  BY <1>20, <1>a, <2>3 DEF TypeOK, LeaseLapses, gate
<1>21. ASSUME NEW k \in Keys, WindowElapses(k) PROVE TypeOK'
  <2>1. row[k] \in Row  BY DEF TypeOK
  <2>2. [row[k] EXCEPT !.due = TRUE] \in Row  BY <2>1 DEF Row
  <2>3. row' \in [Keys -> Row]  BY <1>21, <2>2 DEF TypeOK, WindowElapses
  <2> QED  BY <1>21, <1>a, <2>3 DEF TypeOK, WindowElapses, gate
<1>22. ASSUME Restart PROVE TypeOK'
  <2>1. NoRun \in Run  BY <1>b DEF Run, NoRun
  <2>2. \A k \in Keys :
          Cardinality({x \in Workers : work[x].pc = "delivered" /\ work[x].key = k}) \in Nat
    BY WorkersFinite, FS_Subset, FS_CardinalityType
  <2>3. excuse' \in [Keys -> Nat]  BY <1>22, <2>2 DEF TypeOK, Restart
  <2> QED  BY <1>22, <1>a, <2>1, <2>3, IdleWork DEF TypeOK, Restart
<1> QED
  BY <1>1, <1>2, <1>3, <1>4, <1>5, <1>6, <1>7, <1>8, <1>9, <1>10, <1>11, <1>12, <1>13,
     <1>14, <1>15, <1>16, <1>17, <1>18, <1>19, <1>20, <1>21, <1>22, <1>c
  DEF Next, SenderStep, WorkerStep, ExecutorStep, OperatorStep

-----------------------------------------------------------------------------
(* The operator's command: what it counted stays counted until it clears.     *)
LEMMA AckStep ==
  ASSUME AlertIInv, Next
  PROVE  AckOK'
<1> USE DEF AlertIInv
<1>a. bound' = bound /\ epoch \in Nat  BY DEF Next, TypeOK
(* Only a recording path adds a pending row, and the notifier's wait. *)
<1>1. ASSUME NEW s \in Senders, NEW k \in Keys,
             \/ Observe(s, k) \/ RecordFails(s, k)
             \/ \E remind \in BOOLEAN : RecordOnly(s, k, remind)
      PROVE  AckOK'
  BY <1>1, <1>a DEF AckOK, Observe, RecordFails, RecordOnly, MutexFree, gate
<1>2. ASSUME NEW k \in Keys, EnqueueAlert(k) PROVE AckOK'
  BY <1>2, <1>a DEF AckOK, EnqueueAlert, Pending, gate, TypeOK
(* Rows that settle, are leased or wait leave what is pending as it was. *)
<1>3. ASSUME UNCHANGED <<ack, epoch>>, Pending' \subseteq Pending
      PROVE  AckOK'
  BY <1>3, <1>a DEF AckOK
<1>4. ASSUME NEW x \in Workers, WorkerStep(x) PROVE AckOK'
  <2>1. UNCHANGED <<ack, epoch>>
    BY <1>4 DEF WorkerStep, MarkDelivered, Judge, Block, Publish, MarkAttemptFailed, Release,
                Escalate, gate
  <2>2. \A j \in Keys : row'[j].state \in {row[j].state, "DELIVERED"}
    <3>1. work[x].key \in Keys  BY DEF TypeOK, Work
    <3>2. row[work[x].key] \in Row /\ row \in [Keys -> Row]  BY <3>1 DEF TypeOK
    <3>3. CASE MarkDelivered(x)
      <4>1. [Tried(Unleased(row[work[x].key])) EXCEPT !.state = "DELIVERED"].state
              = "DELIVERED"
        BY <3>2, RowParts
      <4> QED  BY <3>1, <3>2, <3>3, <4>1 DEF MarkDelivered
    <3>4. ASSUME NEW err \in BOOLEAN, MarkAttemptFailed(x, err) \/ Release(x, err)
          PROVE  \A j \in Keys : row'[j].state = row[j].state
      <4>1. /\ Tried(row[work[x].key]).state = row[work[x].key].state
            /\ Unleased(row[work[x].key]).state = row[work[x].key].state
        BY <3>2, RowParts
      <4> QED  BY <3>1, <3>2, <3>4, <4>1 DEF MarkAttemptFailed, Release
    <3>5. CASE UNCHANGED row  BY <3>5
    <3> QED
      BY <1>4, <3>3, <3>4, <3>5 DEF WorkerStep, Judge, Block, Publish, Escalate, outbox
  <2> QED  BY <1>3, <2>1, <2>2 DEF Pending
<1>5. ASSUME List \/ ListFails \/ \E k \in Keys : Claim(k) \/ LeaseLapses(k) \/ WindowElapses(k)
      PROVE  AckOK'
  <2>1. UNCHANGED <<ack, epoch>>
    BY <1>5 DEF List, ListFails, Claim, LeaseLapses, WindowElapses, gate
  <2>2. \A j \in Keys : row'[j].state = row[j].state
    <3>1. row \in [Keys -> Row] /\ Executor \in Workers  BY DEF TypeOK, Workers
    <3>2. ASSUME NEW k \in Keys, Claim(k) \/ LeaseLapses(k) \/ WindowElapses(k)
          PROVE  \A j \in Keys : row'[j].state = row[j].state
      <4>1. /\ Leased(row[k], Executor).state = row[k].state
            /\ [row[k] EXCEPT !.lapsed = TRUE].state = row[k].state
            /\ [row[k] EXCEPT !.due = TRUE].state = row[k].state
        BY <3>1, RowParts
      <4> QED  BY <3>1, <3>2, <4>1 DEF Claim, LeaseLapses, WindowElapses
    <3> QED  BY <1>5, <3>2 DEF List, ListFails, outbox
  <2> QED  BY <1>3, <2>1, <2>2 DEF Pending
<1>6. ASSUME AckRow PROVE AckOK'
  BY <1>6, <1>a DEF AckOK, AckRow, gate
<1>7. ASSUME AckStart \/ AckFails \/ AckCount \/ AckClear \/ ModeRelease \/ Restart
      PROVE  AckOK'
  BY <1>7, <1>a DEF AckOK, AckStart, AckFails, AckCount, AckClear, ModeRelease, Restart,
                    Pending, gate, outbox, TypeOK
<1> QED
  BY <1>1, <1>2, <1>4, <1>5, <1>6, <1>7
  DEF Next, SenderStep, ExecutorStep, OperatorStep, Workers

(* A judgement stands until a person answers it, and what is owed durably is  *)
(* in the operating mode.                                                     *)
LEMMA GateStep ==
  ASSUME AlertIInv, Next
  PROVE  (BlockedUntilHuman /\ DurableOK)'
<1> USE DEF AlertIInv, BlockedUntilHuman, DurableOK
<1>a. latch \in BOOLEAN /\ mode \in BOOLEAN /\ owed \in {"none", "memory", "durable"}
  BY DEF TypeOK
<1>1. ASSUME NEW s \in Senders, NEW k \in Keys,
             \/ Observe(s, k) \/ RecordFails(s, k)
             \/ \E remind \in BOOLEAN : RecordOnly(s, k, remind)
      PROVE  (BlockedUntilHuman /\ DurableOK)'
  BY <1>1 DEF Observe, RecordFails, RecordOnly, gate
<1>2. ASSUME NEW x \in Workers, WorkerStep(x) PROVE (BlockedUntilHuman /\ DurableOK)'
  BY <1>2, <1>a DEF WorkerStep, MarkDelivered, Judge, Block, Publish, MarkAttemptFailed,
                    Release, Escalate, gate
<1>3. ASSUME \/ List \/ ListFails
             \/ \E k \in Keys : \/ Claim(k) \/ LeaseLapses(k) \/ WindowElapses(k)
                                \/ EnqueueAlert(k)
      PROVE  (BlockedUntilHuman /\ DurableOK)'
  BY <1>3 DEF List, ListFails, Claim, LeaseLapses, WindowElapses, EnqueueAlert, gate
<1>4. ASSUME OperatorStep \/ Restart PROVE (BlockedUntilHuman /\ DurableOK)'
  BY <1>4, <1>a DEF OperatorStep, AckStart, AckRow, AckFails, AckCount, AckClear, ModeRelease,
                    Restart, gate
<1> QED
  BY <1>1, <1>2, <1>3, <1>4 DEF Next, SenderStep, ExecutorStep, Workers

(* The send budget: whoever may publish has a publish left. *)
LEMMA BudgetStep ==
  ASSUME AlertIInv, Next
  PROVE  BudgetLeft'
<1> USE DEF AlertIInv
<1>a. /\ Limit \in Nat \ {0} /\ Executor \notin Senders
      /\ Executor \in Workers /\ Senders \subseteq Workers
  BY AlertsAssumption DEF Workers
<1>b. work \in [Workers -> Work]  BY DEF TypeOK
<1>c. Idle.pc = "idle"  BY IdleWork
<1>d. \A x \in Workers : work[x].left \in Nat  BY <1>a, <1>b DEF Work
(* One worker moves to a state that keeps to the budget. *)
<1>0. ASSUME NEW x \in Workers, NEW W, work' = [work EXCEPT ![x] = W],
             W.pc \in {"publish", "delivered", "failed"} =>
               W.left >= 1 /\ (x = Executor => W.left = 1 /\ W.res = "none")
      PROVE  BudgetLeft'
  BY <1>0, <1>b DEF BudgetLeft
<1>1. ASSUME NEW s \in Senders, NEW k \in Keys, Observe(s, k) \/ RecordFails(s, k)
      PROVE  BudgetLeft'
  <2> DEFINE P == [Idle EXCEPT !.pc = "publish", !.key = k, !.left = Limit]
             E == [Idle EXCEPT !.pc = "escalate", !.key = k, !.record = TRUE]
  <2>1. P.pc = "publish" /\ P.left = Limit /\ E.pc = "escalate"
    BY <1>a, IdleBecomes
  <2>2. work' = [work EXCEPT ![s] = P] \/ work' = [work EXCEPT ![s] = E]
    BY <1>1 DEF Observe, RecordFails
  <2> HIDE DEF P, E
  <2> QED  BY <1>a, <2>1, <2>2, <1>b DEF BudgetLeft
<1>2. ASSUME NEW x \in Workers, WorkerStep(x) PROVE BudgetLeft'
  <2>1. ASSUME NEW ok \in BOOLEAN, Publish(x, ok) PROVE BudgetLeft'
    BY <2>1, <1>a, <1>b DEF BudgetLeft, Publish, Goto, Work
  <2>2. CASE MarkDelivered(x)
    BY <2>2, <1>b, <1>c DEF BudgetLeft, MarkDelivered, Goto, Work
  <2>3. ASSUME NEW err \in BOOLEAN, MarkAttemptFailed(x, err) PROVE BudgetLeft'
    BY <2>3, <1>a, <1>b, <1>c, <1>d DEF BudgetLeft, MarkAttemptFailed, Work
  <2>4. ASSUME NEW err \in BOOLEAN, Release(x, err) PROVE BudgetLeft'
    BY <2>4, <1>b, <1>c DEF BudgetLeft, Release, Work
  <2>5. CASE Judge(x)
    <3> DEFINE k == work[x].key
    <3>1. k \in Keys /\ BlockEpoch(runs[k]) \in Nat
      BY <1>b, RunWrites DEF Work, TypeOK
    <3>2. /\ Verdict(k).pc = "block"
          /\ [Idle EXCEPT !.pc = "block", !.key = k, !.epoch = BlockEpoch(runs[k])].pc = "block"
      BY <3>1, IdleBecomes
    <3> QED  BY <2>5, <1>b, <1>c, <3>2 DEF BudgetLeft, Judge, CountRecordFailure
  <2>6. CASE Block(x)
    BY <2>6, <1>b, IdleBecomes DEF BudgetLeft, Block
  <2>7. ASSUME NEW ok \in BOOLEAN, Escalate(x, ok) PROVE BudgetLeft'
    BY <2>7, <1>b, <1>c DEF BudgetLeft, Escalate
  <2> QED  BY <1>2, <2>1, <2>2, <2>3, <2>4, <2>5, <2>6, <2>7 DEF WorkerStep
<1>3. CASE ListFails
  BY <1>3, <1>a, <1>b DEF BudgetLeft, ListFails, Work
<1>4. ASSUME NEW k \in Keys, Claim(k) PROVE BudgetLeft'
  <2>1. 1 \in Nat /\ BlockEpoch(runs[k]) \in Nat  BY RunWrites DEF TypeOK
  <2>2. /\ LET w == [Idle EXCEPT !.pc = "publish", !.key = k, !.left = 1]
           IN  w.pc = "publish" /\ w.left = 1 /\ w.res = "none"
        /\ [Idle EXCEPT !.pc = "block", !.key = k, !.epoch = BlockEpoch(runs[k])].pc = "block"
    BY <2>1, IdleBecomes
  <2> DEFINE P == [Idle EXCEPT !.pc = "publish", !.key = k, !.left = 1]
             B == [Idle EXCEPT !.pc = "block", !.key = k, !.epoch = BlockEpoch(runs[k])]
  <2>3. \/ work' = work
        \/ \E W \in {P, B, Idle} : work' = [work EXCEPT ![Executor] = W]
    BY <1>4 DEF Claim, CountRecordFailure
  <2>4. P.pc = "publish" /\ P.left = 1 /\ P.res = "none" /\ B.pc = "block"  BY <2>2
  <2> HIDE DEF P, B
  <2> QED  BY <1>a, <1>b, <1>c, <2>3, <2>4 DEF BudgetLeft
<1>5. CASE Restart
  BY <1>5, <1>c DEF BudgetLeft, Restart
<1>6. ASSUME UNCHANGED work PROVE BudgetLeft'
  BY <1>6 DEF BudgetLeft
<1>7. ASSUME NEW s \in Senders, NEW k \in Keys, NEW remind \in BOOLEAN, RecordOnly(s, k, remind)
      PROVE  BudgetLeft'
  BY <1>6, <1>7 DEF RecordOnly
<1>8. ASSUME \/ List \/ OperatorStep
             \/ \E k \in Keys : LeaseLapses(k) \/ WindowElapses(k) \/ EnqueueAlert(k)
      PROVE  BudgetLeft'
  <2>1. UNCHANGED work
    BY <1>8 DEF List, OperatorStep, AckStart, AckRow, AckFails, AckCount, AckClear,
                ModeRelease, LeaseLapses, WindowElapses, EnqueueAlert
  <2> QED  BY <2>1, <1>6
<1> QED
  BY <1>1, <1>2, <1>3, <1>4, <1>5, <1>7, <1>8, <1>a DEF Next, SenderStep, ExecutorStep

-----------------------------------------------------------------------------
(* One row of the outbox, under every action (acquireAlertClaimTx,            *)
(* settleUnderClaim, recordAlertTx, ReleaseAlertClaim).                       *)

(* A step that neither writes the row nor moves a worker that serves it. *)
LEMMA OtherRow ==
  ASSUME TypeOK, TypeOK', NEW j \in Keys, RowOK(j),
         \A y \in Workers :
           \/ work'[y] = work[y]
           \/ /\ work[y].pc = "idle" \/ work[y].key # j
              /\ work'[y].pc = "idle" \/ work'[y].key # j,
         /\ row'[j].state = row[j].state /\ row'[j].attempts = row[j].attempts
         /\ row'[j].holder = row[j].holder /\ row'[j].lapsed = row[j].lapsed,
         sent'[j] = sent[j], excuse'[j] = excuse[j],
         faults'.stalls = 0 => faults.stalls = 0,
         j \in Pending \ Direct => epoch' = epoch /\ (latch => latch')
  PROVE  RowOK(j)'
<1>1. /\ j \in Pending' <=> j \in Pending
      /\ \A y \in Workers : Sending(y, j)' <=> Sending(y, j)
      /\ \A y \in Workers : Holds(y, j)' <=> Holds(y, j)
  BY DEF Pending, Sending, Claimed, Holds
<1>2. LeaseLive(j)'  BY <1>1 DEF RowOK, LeaseLive
<1>3. LimitJudged(j)'
  <2>1. SUFFICES ASSUME j \in Pending \ Direct, row[j].attempts >= Limit, faults.stalls = 0
                 PROVE  latch' \/ \E x \in Workers : WillJudge(x, j)'
    BY <1>1 DEF LimitJudged
  <2>2. CASE latch  BY <2>1, <2>2
  <2>3. ASSUME NEW y \in Workers, WillJudge(y, j) PROVE WillJudge(y, j)'
    <3>1. work'[y] = work[y]  BY <2>3 DEF WillJudge, Claimed
    <3> QED  BY <2>1, <2>3, <3>1, <1>1 DEF WillJudge
  <2> QED  BY <2>1, <2>2, <2>3 DEF RowOK, LimitJudged
<1>4. PublishesCounted(j)'
  <2>1. Publishers(j)' = Publishers(j)  BY DEF Publishers, MayPublish
  <2>2. Protected(j)' <=> Protected(j)  BY DEF Protected
  <2> QED  BY <1>1, <2>1, <2>2 DEF RowOK, PublishesCounted
<1> QED  BY <1>2, <1>3, <1>4 DEF RowOK

(* A row that is not pending has only its publishes to account for. *)
LEMMA SettledRow ==
  ASSUME NEW j, j \notin Pending', (sent[j] + Cardinality(Publishers(j)) <= 1 + excuse[j])'
  PROVE  RowOK(j)'
BY DEF RowOK, LeaseLive, LimitJudged, PublishesCounted

(* The shape of every worker's step on its own row k. *)
LEMMA ServedRows ==
  ASSUME AlertIInv, TypeOK', NEW x \in Workers, NEW k \in Keys, NEW W,
         work[x].pc = "idle" \/ work[x].key = k, W.pc = "idle" \/ W.key = k,
         work' = [work EXCEPT ![x] = W],
         \A j \in Keys \ {k} : /\ row'[j] = row[j] /\ sent'[j] = sent[j]
                               /\ excuse'[j] = excuse[j],
         faults'.stalls = 0 => faults.stalls = 0, epoch' = epoch, latch => latch',
         RowOK(k)'
  PROVE  \A j \in Keys : RowOK(j)'
<1> SUFFICES ASSUME NEW j \in Keys, j # k PROVE RowOK(j)'
  OBVIOUS
<1>1. work \in [Workers -> Work]  BY DEF AlertIInv, TypeOK
<1>2. \A y \in Workers : \/ work'[y] = work[y]
                         \/ /\ work[y].pc = "idle" \/ work[y].key # j
                            /\ work'[y].pc = "idle" \/ work'[y].key # j
  BY <1>1
<1>3. RowOK(j) /\ TypeOK  BY DEF AlertIInv
<1> QED  BY <1>2, <1>3, OtherRow

LEMMA PublishKeeps ==
  ASSUME AlertIInv, TypeOK', NEW x \in Workers, NEW ok \in BOOLEAN, Publish(x, ok)
  PROVE  \A j \in Keys : RowOK(j)'
<1>1. /\ work \in [Workers -> Work] /\ work[x].key \in Keys
      /\ sent \in [Keys -> Nat] /\ excuse \in [Keys -> Nat]
  BY DEF AlertIInv, TypeOK, Work
<1>k. PICK k \in Keys : k = work[x].key  BY <1>1
<1>W. PICK W : W = [work[x] EXCEPT !.pc = IF ok THEN "delivered" ELSE "failed"]
  OBVIOUS
<1>2. W.key = k /\ W.pc = (IF ok THEN "delivered" ELSE "failed") /\ work[x].pc = "publish"
      /\ W.res = work[x].res
  BY <1>1, <1>k, <1>W DEF Publish, Work
<1>3. work' = [work EXCEPT ![x] = W]
  BY <1>W DEF Publish, Goto
<1>4. /\ UNCHANGED <<row, excuse, faults, epoch, latch>>
      /\ sent'[k] = (IF ok THEN sent[k] + 1 ELSE sent[k])
      /\ \A j \in Keys \ {k} : sent'[j] = sent[j]
  BY <1>1, <1>k DEF Publish, gate
<1>5. RowOK(k)  BY DEF AlertIInv
<1>6. /\ work'[x] = W
      /\ \A y \in Workers : y # x => work'[y] = work[y]
  BY <1>1, <1>3
<1>7. /\ k \in Pending' <=> k \in Pending
      /\ \A y \in Workers : Sending(y, k)' <=> Sending(y, k)
      /\ \A y \in Workers : Holds(y, k)' <=> Holds(y, k)
      /\ Protected(k)' <=> Protected(k)
  BY <1>1, <1>2, <1>4, <1>6, <1>k DEF Pending, Sending, Claimed, Holds, Protected
<1>8. LeaseLive(k)'  BY <1>4, <1>5, <1>7 DEF RowOK, LeaseLive
<1>9. LimitJudged(k)'
  <2>1. \A y \in Workers : WillJudge(y, k) => WillJudge(y, k)'
    BY <1>2, <1>4, <1>6, <1>7 DEF WillJudge, Claimed
  <2> QED  BY <1>4, <1>5, <1>7, <2>1 DEF RowOK, LimitJudged
<1>10. PublishesCounted(k)'
  <2> DEFINE n == Cardinality(Publishers(k))  m == Cardinality(Publishers(k)')
  <2>1. n \in Nat  BY PublishersFinite
  <2>2. MayPublish(work[x], k) /\ (MayPublish(W, k) <=> ~ok)
    BY <1>2, <1>k DEF MayPublish
  <2>4. m = (IF ok THEN n - 1 ELSE n)
    <3>1. m = n - (IF MayPublish(work[x], k) THEN 1 ELSE 0)
                + (IF MayPublish(W, k) THEN 1 ELSE 0)
      BY <1>1, <1>3, CountStep
    <3>2. CASE ok  BY <2>1, <2>2, <3>1, <3>2
    <3>3. CASE ~ok  BY <2>1, <2>2, <3>1, <3>3
    <3> QED  BY <3>2, <3>3
  <2>3. sent'[k] + m = sent[k] + n  BY <1>1, <1>4, <2>1, <2>4
  <2> QED  BY <1>4, <1>5, <1>7, <2>3 DEF RowOK, PublishesCounted
<1>11. RowOK(k)'  BY <1>8, <1>9, <1>10 DEF RowOK
<1> QED  BY <1>1, <1>2, <1>3, <1>4, <1>k, <1>11, ServedRows

(* A worker's step that leaves the row's lease and its publishes alone: it    *)
(* begins no send, a judgement it owes it keeps or answers, and if the lease  *)
(* was its own it still serves the row or has given a publish up.             *)
LEMMA ServedRow ==
  ASSUME AlertIInv, TypeOK', NEW x \in Workers, NEW k \in Keys, NEW W,
         work' = [work EXCEPT ![x] = W],
         row'[k].state = row[k].state, row'[k].holder = row[k].holder,
         row'[k].lapsed = row[k].lapsed,
         sent'[k] = sent[k], excuse'[k] = excuse[k],
         faults'.stalls = faults.stalls, epoch' = epoch, latch => latch',
         W.key = k /\ W.pc \in Claimed => Sending(x, k),
         MayPublish(W, k) => MayPublish(work[x], k),
         k \in Pending \ Direct /\ row'[k].attempts >= Limit
           /\ (row[k].attempts < Limit \/ WillJudge(x, k))
             => latch' \/ WillJudge(x, k)',
         Protected(k) /\ row[k].holder = x
           => \/ W.key = k /\ W.pc \in {"publish", "failed", "delivered"}
              \/ MayPublish(work[x], k) /\ ~MayPublish(W, k)
  PROVE  RowOK(k)'
<1>1. work \in [Workers -> Work] /\ sent[k] \in Nat /\ excuse[k] \in Nat /\ RowOK(k)
      /\ row[k] \in Row /\ row'[k] \in Row /\ Limit \in Nat
  BY AlertsAssumption DEF AlertIInv, TypeOK
<1>2. work'[x] = W /\ \A y \in Workers : y # x => work'[y] = work[y]
  BY <1>1
<1>3. /\ k \in Pending' <=> k \in Pending
      /\ \A y \in Workers : Sending(y, k)' => Sending(y, k)
      /\ \A y \in Workers : Holds(y, k)' <=> Holds(y, k)
  BY <1>2 DEF Pending, Sending, Holds
<1>4. LeaseLive(k)'  BY <1>1, <1>3 DEF RowOK, LeaseLive
<1>5. LimitJudged(k)'
  <2>1. \A y \in Workers : y # x /\ WillJudge(y, k) => WillJudge(y, k)'
    BY <1>2, <1>3 DEF WillJudge
  <2>2. row[k].attempts \in Nat /\ row'[k].attempts \in Nat  BY <1>1 DEF Row
  <2>3. SUFFICES ASSUME k \in Pending \ Direct, row'[k].attempts >= Limit, faults.stalls = 0
                 PROVE  latch' \/ \E y \in Workers : WillJudge(y, k)'
    BY <1>3 DEF LimitJudged
  <2>4. CASE row[k].attempts < Limit  BY <2>3, <2>4
  <2>5. CASE latch  BY <2>5
  <2>6. CASE row[k].attempts >= Limit /\ ~latch
    <3>1. PICK y \in Workers : WillJudge(y, k)  BY <1>1, <2>3, <2>6 DEF RowOK, LimitJudged
    <3> QED  BY <2>1, <2>3, <3>1
  <2> QED  BY <2>2, <1>1, <2>4, <2>5, <2>6
<1>6. PublishesCounted(k)'
  <2> DEFINE n == Cardinality(Publishers(k))  m == Cardinality(Publishers(k)')
             a == IF MayPublish(work[x], k) THEN 1 ELSE 0
             b == IF MayPublish(W, k) THEN 1 ELSE 0
  <2>1. n \in Nat /\ m = n - a + b  BY <1>1, CountStep
  <2>2. /\ a \in {0, 1} /\ b \in {0, 1} /\ b <= a
        /\ MayPublish(work[x], k) /\ ~MayPublish(W, k) => a = 1 /\ b = 0
    OBVIOUS
  <2>3. Protected(k) /\ ~Protected(k)' => a = 1 /\ b = 0
    <3>1. SUFFICES ASSUME Protected(k), ~Protected(k)' PROVE a = 1 /\ b = 0  OBVIOUS
    <3>2. row[k].holder = x  BY <1>2, <3>1 DEF Protected
    <3>3. ~(W.key = k /\ W.pc \in {"publish", "failed", "delivered"})
      BY <1>2, <3>1, <3>2 DEF Protected
    <3> QED  BY <2>2, <3>1, <3>2, <3>3
  <2>4. /\ sent[k] + n <= 1 + excuse[k]
        /\ k \in Pending /\ ~Protected(k) => sent[k] + n <= excuse[k]
    BY <1>1 DEF RowOK, PublishesCounted
  <2> HIDE DEF n, m, a, b
  <2>5. sent[k] + m <= 1 + excuse[k]  BY <1>1, <2>1, <2>2, <2>4
  <2>6. ASSUME k \in Pending, ~Protected(k)' PROVE sent[k] + m <= excuse[k]
    <3>1. CASE Protected(k)  BY <3>1, <2>6, <1>1, <2>1, <2>3, <2>4
    <3>2. CASE ~Protected(k)  BY <3>2, <2>6, <1>1, <2>1, <2>2, <2>4
    <3> QED  BY <3>1, <3>2
  <2> QED  BY <1>3, <2>5, <2>6 DEF PublishesCounted, m
<1> QED  BY <1>4, <1>5, <1>6 DEF RowOK

LEMMA MarkDeliveredKeeps ==
  ASSUME AlertIInv, TypeOK', NEW x \in Workers, MarkDelivered(x)
  PROVE  \A j \in Keys : RowOK(j)'
<1>1. /\ work \in [Workers -> Work] /\ work[x].key \in Keys /\ row \in [Keys -> Row]
      /\ sent \in [Keys -> Nat] /\ excuse \in [Keys -> Nat]
  BY DEF AlertIInv, TypeOK, Work
<1>k. PICK k \in Keys : k = work[x].key  BY <1>1
<1>2. /\ work[x].pc = "delivered"
      /\ UNCHANGED <<sent, latch, epoch>> /\ faults'.stalls = faults.stalls
  BY DEF MarkDelivered, gate, AlertIInv, TypeOK
<1>3. Idle.pc = "idle"  BY IdleWork
<1>4. sent[k] \in Nat /\ excuse[k] \in Nat /\ RowOK(k)  BY <1>1 DEF AlertIInv
<1>5. ~MayPublish(work[x], k) /\ ~MayPublish(Idle, k)  BY <1>2, <1>3 DEF MayPublish
<1>6. CASE SettleOutcome(x) = "applied" /\ UNCHANGED excuse /\ work' = [work EXCEPT ![x] = Idle]
           /\ row' = [row EXCEPT ![k] = [Tried(Unleased(row[k])) EXCEPT !.state = "DELIVERED"]]
  <2>1. row'[k].state = "DELIVERED"  BY <1>1, <1>6, RowParts
  <2>2. k \notin Pending'  BY <2>1 DEF Pending
  <2>3. Cardinality(Publishers(k)') = Cardinality(Publishers(k))
        /\ Cardinality(Publishers(k)) \in Nat
    BY <1>1, <1>5, <1>6, CountSame
  <2>4. RowOK(k)'
    BY <1>2, <1>4, <1>6, <2>2, <2>3, SettledRow DEF RowOK, PublishesCounted
  <2> QED  BY <1>1, <1>2, <1>3, <1>6, <1>k, <2>4, ServedRows
<1>7. CASE SettleOutcome(x) = "preempted" /\ UNCHANGED <<row, excuse>>
           /\ work' = [work EXCEPT ![x] = Idle]
  <2>1. ~Holds(x, k)  BY <1>7, <1>k DEF SettleOutcome
  <2>2. k \in Pending => row[k].holder # x  BY <2>1 DEF Holds, Pending
  <2>3. ~WillJudge(x, k)  BY <1>2, <2>1 DEF WillJudge
  <2>4. ~(Protected(k) /\ row[k].holder = x) \/ k \notin Pending  BY <2>2
  <2>5. RowOK(k)'
    <3>1. CASE k \in Pending
      <4>1. row[k].attempts \in Nat /\ Limit \in Nat  BY <1>1, AlertsAssumption DEF Row
      <4>2. ~(row'[k].attempts >= Limit /\ (row[k].attempts < Limit \/ WillJudge(x, k)))
        BY <1>7, <2>3, <4>1
      <4>3. ~(Idle.key = k /\ Idle.pc \in Claimed)  BY <1>3 DEF Claimed
      <4>4. ~(Protected(k) /\ row[k].holder = x)  BY <2>2, <3>1
      <4> QED  BY <1>2, <1>5, <1>7, <4>2, <4>3, <4>4, ServedRow
    <3>2. CASE k \notin Pending
      <4>1. k \notin Pending'  BY <1>7, <3>2 DEF Pending
      <4>2. Cardinality(Publishers(k)') = Cardinality(Publishers(k))
            /\ Cardinality(Publishers(k)) \in Nat
        BY <1>1, <1>5, <1>7, CountSame
      <4> QED  BY <1>2, <1>4, <1>7, <4>1, <4>2, SettledRow DEF RowOK, PublishesCounted
    <3> QED  BY <3>1, <3>2
  <2> QED  BY <1>1, <1>2, <1>3, <1>7, <1>k, <2>5, ServedRows
<1>8. CASE Goto(x, "judge") /\ excuse' = [excuse EXCEPT ![k] = @ + 1] /\ UNCHANGED row
  <2>W. PICK W : W = [work[x] EXCEPT !.pc = "judge"]  OBVIOUS
  <2>1. work' = [work EXCEPT ![x] = W]  BY <1>8, <2>W DEF Goto
  <2>2. W.pc = "judge" /\ W.key = k /\ W.res = work[x].res  BY <1>1, <1>k, <2>W DEF Work
  <2>3. work'[x] = W /\ \A y \in Workers : y # x => work'[y] = work[y]  BY <1>1, <2>1
  <2>4. /\ k \in Pending' <=> k \in Pending
        /\ \A y \in Workers : Sending(y, k)' => Sending(y, k)
        /\ \A y \in Workers : Holds(y, k)' <=> Holds(y, k)
    BY <1>8, <2>2, <2>3 DEF Pending, Sending, Claimed, Holds
  <2>5. LeaseLive(k)'  BY <1>2, <1>4, <1>8, <2>4 DEF RowOK, LeaseLive
  <2>6. LimitJudged(k)'
    <3>1. \A y \in Workers : WillJudge(y, k) => WillJudge(y, k)'
      BY <1>2, <2>2, <2>3, <2>4 DEF WillJudge
    <3> QED  BY <1>2, <1>4, <1>8, <2>4, <3>1 DEF RowOK, LimitJudged
  <2>7. PublishesCounted(k)'
    <3>1. ~MayPublish(W, k)  BY <2>2 DEF MayPublish
    <3>2. Cardinality(Publishers(k)') = Cardinality(Publishers(k))
          /\ Cardinality(Publishers(k)) \in Nat
      BY <1>1, <1>5, <2>1, <3>1, CountSame
    <3>3. excuse'[k] = excuse[k] + 1 /\ sent'[k] = sent[k]  BY <1>1, <1>2, <1>8
    <3> QED  BY <1>4, <3>2, <3>3 DEF RowOK, PublishesCounted
  <2>8. RowOK(k)'  BY <2>5, <2>6, <2>7 DEF RowOK
  <2> QED  BY <1>1, <1>2, <1>8, <1>k, <2>1, <2>2, <2>8, ServedRows
<1> QED  BY <1>6, <1>7, <1>8, <1>k DEF MarkDelivered

LEMMA MarkAttemptFailedKeeps ==
  ASSUME AlertIInv, TypeOK', NEW x \in Workers, NEW err \in BOOLEAN, MarkAttemptFailed(x, err)
  PROVE  \A j \in Keys : RowOK(j)'
<1>1. /\ work \in [Workers -> Work] /\ work[x].key \in Keys /\ row \in [Keys -> Row]
      /\ Limit \in Nat
  BY AlertsAssumption DEF AlertIInv, TypeOK, Work
<1>k. PICK k \in Keys : k = work[x].key  BY <1>1
<1>2. /\ work[x].pc = "failed" /\ UNCHANGED <<sent, excuse, latch, epoch, faults>>
      /\ row' = [row EXCEPT ![k] = Tried(row[k])] \/ row' = row
  BY <1>k DEF MarkAttemptFailed, gate
<1>3. /\ row'[k].state = row[k].state /\ row'[k].holder = row[k].holder
      /\ row'[k].lapsed = row[k].lapsed
      /\ \A j \in Keys \ {k} : row'[j] = row[j]
  <2>1. /\ Tried(row[k]).state = row[k].state /\ Tried(row[k]).holder = row[k].holder
        /\ Tried(row[k]).lapsed = row[k].lapsed
    BY <1>1, RowParts
  <2> QED  BY <1>1, <1>2, <2>1
<1>4. MayPublish(work[x], k) /\ Sending(x, k)  BY <1>2, <1>k DEF MayPublish, Sending, Claimed
<1>5. row[k].attempts \in Nat  BY <1>1 DEF Row
<1>6. CASE work' = [work EXCEPT ![x] = Idle] /\ ~Holds(x, k) /\ row' = row
  <2>1. ~MayPublish(Idle, k) /\ Idle.pc = "idle"  BY IdleWork DEF MayPublish
  <2>2. ~WillJudge(x, k)  BY <1>2, <1>6 DEF WillJudge
  <2>3. ~(row'[k].attempts >= Limit /\ (row[k].attempts < Limit \/ WillJudge(x, k)))
    BY <1>1, <1>5, <1>6, <2>2
  <2>4. RowOK(k)'  BY <1>2, <1>3, <1>4, <1>6, <2>1, <2>3, ServedRow
  <2> QED  BY <1>2, <1>3, <1>6, <1>k, <2>1, <2>4, ServedRows
<1>7. ASSUME NEW W, work' = [work EXCEPT ![x] = W], W.key = k, W.pc \in {"publish", "release"},
             x = Executor => W.pc = "release",
             W.res # "applied" => row' = row /\ (x # Executor => W.res = "error"),
             W.res = "applied" => Holds(x, k)
      PROVE  \A j \in Keys : RowOK(j)'
  <2>1. work'[x] = W  BY <1>1, <1>7
  <2>2. Holds(x, k)' <=> Holds(x, k)  BY <1>3 DEF Holds
  <2>3. row'[k].attempts >= Limit /\ (row[k].attempts < Limit \/ WillJudge(x, k))
          => WillJudge(x, k)'
    <3>1. CASE row[k].attempts < Limit /\ row'[k].attempts >= Limit
      <4>1. W.res = "applied" /\ Holds(x, k)  BY <1>1, <1>5, <1>7, <3>1
      <4> QED  BY <1>7, <2>1, <2>2, <4>1 DEF WillJudge, Claimed
    <3>2. CASE WillJudge(x, k)
      BY <1>2, <1>7, <2>1, <2>2, <3>2 DEF WillJudge, Claimed
    <3> QED  BY <3>1, <3>2
  <2>4. MayPublish(W, k) <=> W.pc = "publish"  BY <1>7 DEF MayPublish
  <2>5. W.pc \in {"publish", "failed", "delivered"} \/ ~MayPublish(W, k)  BY <1>7, <2>4
  <2>6. RowOK(k)'  BY <1>2, <1>3, <1>4, <1>7, <2>3, <2>5, ServedRow
  <2> QED  BY <1>2, <1>3, <1>7, <1>k, <2>6, ServedRows
<1>8. \/ work' = [work EXCEPT ![x] = Idle] /\ ~Holds(x, k) /\ row' = row
      \/ \E W : /\ work' = [work EXCEPT ![x] = W] /\ W.key = k /\ W.pc \in {"publish", "release"}
                /\ x = Executor => W.pc = "release"
                /\ W.res # "applied" => row' = row /\ (x # Executor => W.res = "error")
                /\ W.res = "applied" => Holds(x, k)
  <2> DEFINE res == IF err THEN "error" ELSE SettleOutcome(x)
             V(pc) == [work[x] EXCEPT !.pc = pc, !.left = @ - 1, !.res = res]
  <2>1. PICK pc \in {"publish", "release"} :
          /\ x = Executor => pc = "release"
          /\ work' = [work EXCEPT ![x] =
               IF x # Executor /\ res = "preempted" THEN Idle ELSE V(pc)]
          /\ row' = IF res = "applied" THEN [row EXCEPT ![k] = Tried(row[k])] ELSE row
    BY <1>k DEF MarkAttemptFailed
  <2>2. /\ res \in {"error", "applied", "preempted"}
        /\ res = "applied" => Holds(x, k)
        /\ res = "preempted" => ~Holds(x, k)
    BY <1>k DEF SettleOutcome
  <2>3. V(pc).key = k /\ V(pc).pc = pc /\ V(pc).res = res
    BY <1>1, <1>k, <2>1 DEF Work
  <2> HIDE DEF V, res
  <2>4. CASE x # Executor /\ res = "preempted"  BY <2>1, <2>2, <2>4
  <2>5. CASE ~(x # Executor /\ res = "preempted")
    <3>1. work' = [work EXCEPT ![x] = V(pc)]  BY <2>1, <2>5
    <3> QED  BY <2>1, <2>2, <2>3, <2>5, <3>1
  <2> QED  BY <2>4, <2>5
<1> QED  BY <1>6, <1>7, <1>8

LEMMA ReleaseKeeps ==
  ASSUME AlertIInv, TypeOK', NEW x \in Workers, NEW err \in BOOLEAN, Release(x, err)
  PROVE  \A j \in Keys : RowOK(j)'
<1>1. /\ work \in [Workers -> Work] /\ work[x].key \in Keys /\ row \in [Keys -> Row]
      /\ Limit \in Nat
  BY AlertsAssumption DEF AlertIInv, TypeOK, Work
<1>k. PICK k \in Keys : k = work[x].key  BY <1>1
<1>2. work[x].pc = "release" /\ UNCHANGED <<sent, excuse, latch, epoch, faults>>
  BY DEF Release, gate
<1>3. ~MayPublish(work[x], k)  BY <1>2 DEF MayPublish
<1>4. row[k].attempts \in Nat /\ RowOK(k)  BY <1>1 DEF Row, AlertIInv
<1>5. ~(Protected(k) /\ row[k].holder = x)  BY <1>2 DEF Protected
<1>J. PICK J : J = [work[x] EXCEPT !.pc = "judge"]  OBVIOUS
<1>6. J.pc = "judge" /\ J.key = k /\ J.res = work[x].res  BY <1>1, <1>k, <1>J DEF Work
<1>7. Idle.pc = "idle" /\ ~MayPublish(Idle, k) /\ ~MayPublish(J, k)
  BY <1>6, IdleWork DEF MayPublish
<1>8. CASE ~(~err /\ Holds(x, k))
  <2>1. row' = row  BY <1>8, <1>k DEF Release
  <2>2. CASE x # Executor /\ ~err
    <3>1. work' = [work EXCEPT ![x] = Idle] /\ ~Holds(x, k)
      BY <1>8, <1>k, <2>2 DEF Release
    <3>2. ~WillJudge(x, k)  BY <1>2, <3>1 DEF WillJudge
    <3>3. ~(row'[k].attempts >= Limit /\ (row[k].attempts < Limit \/ WillJudge(x, k)))
      BY <1>1, <1>4, <2>1, <3>2
    <3>4. RowOK(k)'
      <4>1. ~(Idle.key = k /\ Idle.pc \in Claimed)  BY <1>7 DEF Claimed
      <4> QED  BY <1>2, <1>3, <1>5, <1>7, <2>1, <3>1, <3>3, <4>1, ServedRow
    <3> QED  BY <1>2, <1>7, <1>k, <2>1, <3>1, <3>4, ServedRows
  <2>3. CASE ~(x # Executor /\ ~err)
    <3>1. work' = [work EXCEPT ![x] = J]  BY <1>8, <1>k, <1>J, <2>3 DEF Release
    <3>2. WillJudge(x, k) => WillJudge(x, k)'
      <4>1. work'[x] = J  BY <1>1, <3>1
      <4> QED  BY <1>2, <1>6, <4>1 DEF WillJudge
    <3>3. row'[k].attempts >= Limit /\ (row[k].attempts < Limit \/ WillJudge(x, k))
            => WillJudge(x, k)'
      BY <1>1, <1>4, <2>1, <3>2
    <3>4. RowOK(k)'
      <4>1. ~(J.key = k /\ J.pc \in Claimed)  BY <1>6 DEF Claimed
      <4> QED  BY <1>2, <1>3, <1>5, <1>7, <2>1, <3>1, <3>3, <4>1, ServedRow
    <3> QED  BY <1>2, <1>6, <1>k, <2>1, <3>1, <3>4, ServedRows
  <2> QED  BY <2>2, <2>3
<1>9. CASE ~err /\ Holds(x, k)
  <2>1. row' = [row EXCEPT ![k] = Unleased(row[k])] /\ work' = [work EXCEPT ![x] = J]
    BY <1>9, <1>k, <1>J DEF Release
  <2>2. row[k] \in Row /\ row[k].holder = x /\ row[k].state = "PENDING"
    BY <1>1, <1>9 DEF Holds
  <2>3. /\ row'[k].state = row[k].state /\ row'[k].attempts = row[k].attempts
        /\ row'[k].holder = Nobody
    BY <1>1, <2>1, <2>2, RowParts
  <2>4. Nobody \notin Workers  BY AlertsAssumption DEF Workers
  <2>5. work'[x] = J /\ \A y \in Workers : y # x => work'[y] = work[y]  BY <1>1, <2>1
  <2>6. LeaseLive(k)'  BY <2>3, <2>4 DEF LeaseLive
  <2>7. LimitJudged(k)'
    <3>1. \A y \in Workers : WillJudge(y, k) => WillJudge(y, k)'
      BY <1>2, <1>6, <2>2, <2>5 DEF WillJudge, Holds
    <3>2. k \in Pending' <=> k \in Pending  BY <2>3 DEF Pending
    <3> QED  BY <1>2, <1>4, <2>3, <3>1, <3>2 DEF RowOK, LimitJudged
  <2>8. PublishesCounted(k)'
    <3>1. Cardinality(Publishers(k)') = Cardinality(Publishers(k))
          /\ Cardinality(Publishers(k)) \in Nat
      BY <1>1, <1>3, <1>7, <2>1, CountSame
    <3>2. ~Protected(k) /\ k \in Pending  BY <1>5, <2>2 DEF Pending
    <3> QED  BY <1>2, <1>4, <3>1, <3>2 DEF RowOK, PublishesCounted
  <2>9. RowOK(k)'  BY <2>6, <2>7, <2>8 DEF RowOK
  <2> QED  BY <1>1, <1>2, <1>6, <1>k, <2>1, <2>9, ServedRows
<1> QED  BY <1>8, <1>9

LEMMA JudgeKeeps ==
  ASSUME AlertIInv, TypeOK', NEW x \in Workers, Judge(x)
  PROVE  \A j \in Keys : RowOK(j)'
<1>1. /\ work \in [Workers -> Work] /\ work[x].key \in Keys /\ row \in [Keys -> Row]
      /\ Limit \in Nat /\ runs \in [Keys -> Run]
  BY AlertsAssumption DEF AlertIInv, TypeOK, Work
<1>k. PICK k \in Keys : k = work[x].key  BY <1>1
<1>2. work[x].pc = "judge" /\ UNCHANGED <<row, sent, excuse, latch, epoch, faults>>
  BY DEF Judge, outbox, gate
<1>3. ~MayPublish(work[x], k)  BY <1>2 DEF MayPublish
<1>4. row[k].attempts \in Nat  BY <1>1 DEF Row
<1>5. ~(Protected(k) /\ row[k].holder = x)  BY <1>2 DEF Protected
<1>V. PICK V : V = Verdict(k)  OBVIOUS
<1>B. PICK B : B = [Idle EXCEPT !.pc = "block", !.key = k, !.epoch = BlockEpoch(runs[k])]
  OBVIOUS
<1>6. /\ Idle.pc = "idle"
      /\ V.pc = "block" /\ V.key = k /\ V.epoch = epoch
      /\ B.pc = "block" /\ B.key = k
  <2>1. BlockEpoch(runs[k]) \in Nat  BY <1>1, RunWrites DEF AlertIInv
  <2> QED  BY <1>V, <1>B, <2>1, IdleWork, IdleBecomes
<1>7. \/ work' = [work EXCEPT ![x] = V]
      \/ /\ work' = [work EXCEPT ![x] = Idle] \/ work' = [work EXCEPT ![x] = B]
         /\ row[k].attempts >= Limit => ~WillJudge(x, k)
  BY <1>1, <1>2, <1>4, <1>k, <1>V, <1>B DEF Judge, CountRecordFailure, WillJudge
<1>8. ASSUME NEW W, work' = [work EXCEPT ![x] = W], W.pc = "idle" \/ (W.pc = "block" /\ W.key = k),
             row[k].attempts >= Limit /\ WillJudge(x, k) => W.pc = "block" /\ W.epoch = epoch
      PROVE  \A j \in Keys : RowOK(j)'
  <2>1. ~MayPublish(W, k) /\ W.pc \notin Claimed  BY <1>8 DEF MayPublish, Claimed
  <2>2. work'[x] = W  BY <1>1, <1>8
  <2>3. row'[k].attempts >= Limit /\ (row[k].attempts < Limit \/ WillJudge(x, k))
          => WillJudge(x, k)'
    BY <1>1, <1>2, <1>4, <1>8, <2>2 DEF WillJudge
  <2>4. RowOK(k)'  BY <1>2, <1>3, <1>5, <1>8, <2>1, <2>3, ServedRow
  <2> QED  BY <1>2, <1>8, <1>k, <2>4, ServedRows
<1>9. CASE work' = [work EXCEPT ![x] = V]  BY <1>6, <1>8, <1>9
<1>10. CASE work' = [work EXCEPT ![x] = Idle] /\ (row[k].attempts >= Limit => ~WillJudge(x, k))
  <2>1. ~(row[k].attempts >= Limit /\ WillJudge(x, k)) /\ Idle.pc = "idle"  BY <1>6, <1>10
  <2> QED  BY <1>8, <1>10, <2>1
<1>11. CASE work' = [work EXCEPT ![x] = B] /\ (row[k].attempts >= Limit => ~WillJudge(x, k))
  BY <1>6, <1>8, <1>11
<1> QED  BY <1>7, <1>9, <1>10, <1>11

LEMMA BlockKeeps ==
  ASSUME AlertIInv, TypeOK', NEW x \in Workers, Block(x)
  PROVE  \A j \in Keys : RowOK(j)'
<1>1. /\ work \in [Workers -> Work] /\ work[x].key \in Keys /\ row \in [Keys -> Row]
      /\ Limit \in Nat
  BY AlertsAssumption DEF AlertIInv, TypeOK, Work
<1>k. PICK k \in Keys : k = work[x].key  BY <1>1
<1>W. PICK W : W = [Idle EXCEPT !.pc = "escalate", !.key = k]  OBVIOUS
<1>2. /\ work[x].pc = "block" /\ UNCHANGED <<row, sent, excuse, epoch, faults>>
      /\ latch' = (latch \/ epoch = work[x].epoch) /\ work' = [work EXCEPT ![x] = W]
  BY <1>k, <1>W DEF Block, outbox
<1>3. W.pc = "escalate" /\ W.key = k  BY <1>W, IdleBecomes
<1>4. ~MayPublish(work[x], k) /\ ~MayPublish(W, k) /\ W.pc \notin Claimed
  BY <1>2, <1>3 DEF MayPublish, Claimed
<1>5. ~(Protected(k) /\ row[k].holder = x)  BY <1>2 DEF Protected
<1>6. row'[k].attempts >= Limit /\ (row[k].attempts < Limit \/ WillJudge(x, k)) => latch'
  <2>1. row[k].attempts \in Nat /\ row' = row  BY <1>1, <1>2 DEF Row
  <2>2. WillJudge(x, k) => epoch = work[x].epoch  BY <1>2 DEF WillJudge, Claimed
  <2>3. row[k].attempts < Limit => ~(row'[k].attempts >= Limit)  BY <1>1, <2>1
  <2> QED  BY <1>2, <2>2, <2>3
<1>7. RowOK(k)'  BY <1>2, <1>4, <1>5, <1>6, ServedRow
<1> QED  BY <1>2, <1>3, <1>k, <1>7, ServedRows

LEMMA EscalateKeeps ==
  ASSUME AlertIInv, TypeOK', NEW x \in Workers, NEW ok \in BOOLEAN, Escalate(x, ok)
  PROVE  \A j \in Keys : RowOK(j)'
<1>1. /\ work \in [Workers -> Work] /\ work[x].key \in Keys /\ row \in [Keys -> Row]
      /\ Limit \in Nat
  BY AlertsAssumption DEF AlertIInv, TypeOK, Work
<1>k. PICK k \in Keys : k = work[x].key  BY <1>1
<1>2. /\ work[x].pc = "escalate" /\ UNCHANGED <<row, sent, excuse, epoch, faults>>
      /\ latch => latch'
      /\ work' = [work EXCEPT ![x] = Idle]
  BY DEF Escalate, outbox
<1>3. Idle.pc = "idle"  BY IdleWork
<1>4. ~MayPublish(work[x], k) /\ ~MayPublish(Idle, k) /\ Idle.pc \notin Claimed
  BY <1>2, <1>3 DEF MayPublish, Claimed
<1>5. ~(Protected(k) /\ row[k].holder = x)  BY <1>2 DEF Protected
<1>6. ~(row'[k].attempts >= Limit /\ (row[k].attempts < Limit \/ WillJudge(x, k)))
  <2>1. row[k].attempts \in Nat  BY <1>1 DEF Row
  <2> QED  BY <1>1, <1>2, <2>1 DEF WillJudge, Claimed
<1>7. RowOK(k)'  BY <1>2, <1>4, <1>5, <1>6, ServedRow
<1> QED  BY <1>2, <1>3, <1>k, <1>7, ServedRows

(* A sender or the executor takes the lease of a row nobody holds, or whose   *)
(* lease lapsed: what could still be published of it was excused (claim-      *)
(* AndDeliver, deliverOne).                                                   *)
LEMMA TakenRow ==
  ASSUME AlertIInv, TypeOK', NEW x \in Workers, NEW k \in Keys, NEW W,
         work[x].pc = "idle", work' = [work EXCEPT ![x] = W],
         W.pc = "publish" /\ W.key = k,
         row'[k].state = "PENDING", row'[k].holder = x, ~row'[k].lapsed,
         UNCHANGED <<latch, epoch, faults>>,
         \/ /\ Claimable(row[k]) /\ row'[k].attempts = row[k].attempts
            /\ sent'[k] = sent[k] /\ excuse'[k] = excuse[k]
         \/ /\ row'[k].attempts = 0 /\ sent'[k] = 0
            /\ Cardinality(Publishers(k)) <= excuse'[k]
  PROVE  RowOK(k)'
<1>1. /\ work \in [Workers -> Work] /\ row \in [Keys -> Row] /\ Limit \in Nat \ {0}
      /\ sent[k] \in Nat /\ excuse[k] \in Nat /\ excuse'[k] \in Nat /\ RowOK(k)
  BY AlertsAssumption DEF AlertIInv, TypeOK
<1>2. work'[x] = W /\ \A y \in Workers : y # x => work'[y] = work[y]  BY <1>1
<1>3. LeaseLive(k)'  BY DEF LeaseLive
<1>4. LimitJudged(k)'
  <2>1. SUFFICES ASSUME k \in Pending' \ Direct, row'[k].attempts >= Limit, faults.stalls = 0
                 PROVE  latch' \/ \E y \in Workers : WillJudge(y, k)'
    BY DEF LimitJudged
  <2>2. Claimable(row[k]) /\ row'[k].attempts = row[k].attempts  BY <1>1, <2>1
  <2>3. k \in Pending \ Direct  BY <2>1, <2>2 DEF Claimable, Pending
  <2>4. CASE latch  BY <2>4
  <2>5. ASSUME NEW y \in Workers, WillJudge(y, k) PROVE WillJudge(y, k)'
    <3>1. y # x  BY <2>5 DEF WillJudge, Claimed
    <3>2. ~(Holds(y, k) /\ Sending(y, k))
      <4>1. Nobody \notin Workers  BY AlertsAssumption DEF Workers
      <4> QED  BY <1>1, <2>1, <2>2, <2>3, <4>1 DEF Claimable, Holds, RowOK, LeaseLive
    <3> QED  BY <1>2, <2>5, <3>1, <3>2 DEF WillJudge, Sending, Claimed
  <2> QED  BY <1>1, <2>1, <2>2, <2>3, <2>4, <2>5 DEF RowOK, LimitJudged
<1>5. PublishesCounted(k)'
  <2> DEFINE n == Cardinality(Publishers(k))  m == Cardinality(Publishers(k)')
  <2>1. ~MayPublish(work[x], k) /\ MayPublish(W, k)  BY DEF MayPublish
  <2>2. m = n + 1 /\ n \in Nat
    <3>1. /\ m = n - (IF MayPublish(work[x], k) THEN 1 ELSE 0)
                  + (IF MayPublish(W, k) THEN 1 ELSE 0)
          /\ n \in Nat
      BY <1>1, CountStep
    <3> HIDE DEF n, m
    <3> QED  BY <2>1, <3>1
  <2>3. Protected(k)'  BY <1>2 DEF Protected
  <2>4. Claimable(row[k]) => k \in Pending /\ ~Protected(k)
    <3>1. Nobody \notin Workers  BY AlertsAssumption DEF Workers
    <3> QED  BY <3>1 DEF Claimable, Pending, Protected
  <2>5. sent'[k] + n <= excuse'[k]
    <3>1. CASE sent'[k] = 0 /\ n <= excuse'[k]  BY <1>1, <2>2, <3>1
    <3>2. CASE Claimable(row[k]) /\ sent'[k] = sent[k] /\ excuse'[k] = excuse[k]
      BY <1>1, <2>4, <3>2 DEF RowOK, PublishesCounted
    <3> QED  BY <3>1, <3>2
  <2>6. sent'[k] \in Nat  BY DEF TypeOK
  <2>7. sent'[k] + m <= 1 + excuse'[k]  BY <1>1, <2>2, <2>5, <2>6
  <2> QED  BY <2>3, <2>7 DEF PublishesCounted
<1> QED  BY <1>3, <1>4, <1>5 DEF RowOK

(* What an armed row starts with. *)
LEMMA ArmedGhosts ==
  ASSUME AlertIInv, NEW k \in Keys, NEW remind \in BOOLEAN, ArmGhosts(k, remind)
  PROVE  /\ Recorded(k, remind) # row[k] =>
              /\ Recorded(k, remind) = Fresh(row[k])
              /\ sent'[k] = 0 /\ Cardinality(Publishers(k)) <= excuse'[k]
         /\ Recorded(k, remind) = row[k] => sent'[k] = sent[k] /\ excuse'[k] = excuse[k]
         /\ \A j \in Keys \ {k} : sent'[j] = sent[j] /\ excuse'[j] = excuse[j]
<1>1. sent \in [Keys -> Nat] /\ excuse \in [Keys -> Nat] /\ row[k] \in Row
  BY DEF AlertIInv, TypeOK
<1>2. Cardinality(Publishers(k)) <= Cardinality({x \in Workers : Sending(x, k)})
  BY SendersCover
<1>3. Fresh(row[k]) # row[k]
  BY <1>1 DEF Fresh, Row
<1>4. CASE row[k].state = "NONE" \/ Rearm(k, remind)
  BY <1>1, <1>2, <1>3, <1>4 DEF ArmGhosts, Recorded
<1>5. CASE ~(row[k].state = "NONE" \/ Rearm(k, remind))
  BY <1>5 DEF ArmGhosts, Recorded
<1> QED  BY <1>4, <1>5

LEMMA ObserveKeeps ==
  ASSUME AlertIInv, TypeOK', NEW s \in Senders, NEW k \in Keys, Observe(s, k)
  PROVE  \A j \in Keys : RowOK(j)'
<1>1. /\ work \in [Workers -> Work] /\ row \in [Keys -> Row] /\ s \in Workers
      /\ TypeOK /\ Limit \in Nat
  BY AlertsAssumption DEF AlertIInv, TypeOK, Workers
<1>W. PICK W : W = [Idle EXCEPT !.pc = "publish", !.key = k, !.left = Limit]  OBVIOUS
<1>r. PICK r : r = Recorded(k, TRUE)  OBVIOUS
<1>2. /\ work[s].pc = "idle" /\ Claimable(r) /\ ArmGhosts(k, TRUE)
      /\ work' = [work EXCEPT ![s] = W] /\ row' = [row EXCEPT ![k] = Leased(r, s)]
      /\ UNCHANGED <<latch, epoch, faults>>
  BY <1>W, <1>r DEF Observe, gate
<1>3. W.pc = "publish" /\ W.key = k  BY <1>1, <1>W, IdleBecomes
<1>4. r \in Row  BY <1>1, <1>r, RowWrites
<1>5. /\ row'[k].state = "PENDING" /\ row'[k].holder = s /\ ~row'[k].lapsed
      /\ row'[k].attempts = r.attempts
      /\ \A j \in Keys \ {k} : row'[j] = row[j]
  <2>1. /\ Leased(r, s).state = r.state /\ Leased(r, s).attempts = r.attempts
        /\ Leased(r, s).holder = s /\ ~Leased(r, s).lapsed
    BY <1>1, <1>4, RowParts
  <2> QED  BY <1>1, <1>2, <2>1 DEF Claimable
<1>6. \A j \in Keys \ {k} : sent'[j] = sent[j] /\ excuse'[j] = excuse[j]
  BY <1>2, ArmedGhosts
<1>7. \/ /\ Claimable(row[k]) /\ row'[k].attempts = row[k].attempts
         /\ sent'[k] = sent[k] /\ excuse'[k] = excuse[k]
      \/ /\ row'[k].attempts = 0 /\ sent'[k] = 0
         /\ Cardinality(Publishers(k)) <= excuse'[k]
  <2>1. CASE r = row[k]  BY <1>2, <1>5, <1>r, <2>1, ArmedGhosts
  <2>2. CASE r # row[k]
    <3>1. /\ r = Fresh(row[k]) /\ sent'[k] = 0 /\ Cardinality(Publishers(k)) <= excuse'[k]
      BY <1>2, <1>r, <2>2, ArmedGhosts
    <3>2. Fresh(row[k]).attempts = 0  BY <1>1, RowParts
    <3> QED  BY <1>5, <3>1, <3>2
  <2> QED  BY <2>1, <2>2
<1>8. RowOK(k)'  BY <1>1, <1>2, <1>3, <1>5, <1>7, TakenRow
<1> QED  BY <1>1, <1>2, <1>3, <1>5, <1>6, <1>8, ServedRows

(* An armed row nobody serves yet: RecordCritical and the replay's alert. *)
LEMMA ArmedRow ==
  ASSUME AlertIInv, TypeOK', NEW k \in Keys, NEW remind \in BOOLEAN, ArmGhosts(k, remind),
         Recorded(k, remind) # row[k], row' = [row EXCEPT ![k] = Recorded(k, remind)],
         UNCHANGED <<work, latch, epoch, faults>>
  PROVE  \A j \in Keys : RowOK(j)'
<1>1. /\ row \in [Keys -> Row] /\ TypeOK /\ Limit \in Nat \ {0} /\ Nobody \notin Workers
  BY AlertsAssumption DEF AlertIInv, TypeOK, Workers
<1>2. /\ Recorded(k, remind) = Fresh(row[k])
      /\ sent'[k] = 0 /\ Cardinality(Publishers(k)) <= excuse'[k]
      /\ \A j \in Keys \ {k} : sent'[j] = sent[j] /\ excuse'[j] = excuse[j]
  BY ArmedGhosts
<1>3. row'[k].attempts = 0 /\ row'[k].holder = Nobody
  <2>1. Fresh(row[k]).attempts = 0 /\ Fresh(row[k]).holder = Nobody  BY <1>1, RowParts
  <2> QED  BY <1>1, <1>2, <2>1
<1>4. Publishers(k)' = Publishers(k) /\ Cardinality(Publishers(k)) \in Nat /\ excuse'[k] \in Nat
  BY PublishersFinite DEF Publishers, MayPublish, TypeOK
<1>5. LeaseLive(k)'  BY <1>1, <1>3 DEF LeaseLive
<1>6. LimitJudged(k)'  BY <1>1, <1>3 DEF LimitJudged
<1>7. PublishesCounted(k)'  BY <1>2, <1>4 DEF PublishesCounted
<1>8. RowOK(k)'  BY <1>5, <1>6, <1>7 DEF RowOK
<1>9. ASSUME NEW j \in Keys, j # k PROVE RowOK(j)'
  <2>1. row'[j] = row[j] /\ RowOK(j)  BY <1>1, <1>9 DEF AlertIInv
  <2> QED  BY <1>1, <1>2, <1>9, <2>1, OtherRow
<1> QED  BY <1>8, <1>9

(* An idle worker that begins no send leaves every row as it was. *)
LEMMA IdleMoves ==
  ASSUME AlertIInv, TypeOK', NEW x \in Workers, NEW W, work[x].pc = "idle",
         work' = [work EXCEPT ![x] = W], W.pc \notin {"publish", "delivered", "failed", "release"},
         UNCHANGED <<row, sent, excuse, epoch, faults>>, latch => latch'
  PROVE  \A j \in Keys : RowOK(j)'
<1> SUFFICES ASSUME NEW j \in Keys PROVE RowOK(j)'
  OBVIOUS
<1>1. row[j].attempts \in Nat /\ Limit \in Nat
  BY AlertsAssumption DEF AlertIInv, TypeOK, Row
<1>2. ~MayPublish(W, j) /\ W.pc \notin Claimed  BY DEF MayPublish, Claimed
<1>3. ~WillJudge(x, j)  BY DEF WillJudge, Claimed
<1>4. ~(row'[j].attempts >= Limit /\ (row[j].attempts < Limit \/ WillJudge(x, j)))
  BY <1>1, <1>3
<1>5. ~(Protected(j) /\ row[j].holder = x)  BY DEF Protected
<1> QED  BY <1>2, <1>4, <1>5, ServedRow

(* No worker moves, and no row changes who serves it. *)
LEMMA QuietRows ==
  ASSUME AlertIInv, TypeOK', UNCHANGED <<row, work, sent, excuse>>,
         faults'.stalls = 0 => faults.stalls = 0,
         (epoch' = epoch /\ (latch => latch')) \/ Pending \subseteq Direct
  PROVE  \A j \in Keys : RowOK(j)'
<1> SUFFICES ASSUME NEW j \in Keys PROVE RowOK(j)'
  OBVIOUS
<1>1. TypeOK /\ RowOK(j)  BY DEF AlertIInv
<1> QED  BY <1>1, OtherRow

LEMMA ClaimKeeps ==
  ASSUME AlertIInv, TypeOK', NEW k \in Keys, Claim(k)
  PROVE  \A j \in Keys : RowOK(j)'
<1>1. /\ work \in [Workers -> Work] /\ row \in [Keys -> Row] /\ Executor \in Workers
      /\ TypeOK /\ runs[k] \in Run
  BY DEF AlertIInv, TypeOK, Workers
<1>2. work[Executor].pc = "idle" /\ UNCHANGED <<sent, excuse, latch, epoch, faults>>
  BY DEF Claim, gate
<1>3. CASE /\ Claimable(row[k]) /\ row' = [row EXCEPT ![k] = Leased(row[k], Executor)]
           /\ work' = [work EXCEPT ![Executor] =
                [Idle EXCEPT !.pc = "publish", !.key = k, !.left = 1]]
  <2>W. PICK W : W = [Idle EXCEPT !.pc = "publish", !.key = k, !.left = 1]  OBVIOUS
  <2>1. W.pc = "publish" /\ W.key = k  BY <2>W, IdleBecomes
  <2>2. /\ row'[k].state = "PENDING" /\ row'[k].holder = Executor /\ ~row'[k].lapsed
        /\ row'[k].attempts = row[k].attempts
        /\ \A j \in Keys \ {k} : row'[j] = row[j]
    <3>1. /\ Leased(row[k], Executor).state = row[k].state
          /\ Leased(row[k], Executor).attempts = row[k].attempts
          /\ Leased(row[k], Executor).holder = Executor /\ ~Leased(row[k], Executor).lapsed
      BY <1>1, RowParts
    <3> QED  BY <1>1, <1>3, <3>1 DEF Claimable
  <2>3. work' = [work EXCEPT ![Executor] = W]  BY <1>3, <2>W
  <2>4. RowOK(k)'  BY <1>1, <1>2, <1>3, <2>1, <2>2, <2>3, TakenRow
  <2> QED  BY <1>1, <1>2, <2>1, <2>2, <2>3, <2>4, ServedRows
<1>4. CASE UNCHANGED <<row, work>>  BY <1>2, <1>4, QuietRows
<1>5. CASE CountRecordFailure(k) /\ UNCHANGED row
  <2>B. PICK B : B = [Idle EXCEPT !.pc = "block", !.key = k, !.epoch = BlockEpoch(runs[k])]
    OBVIOUS
  <2>1. B.pc = "block" /\ Idle.pc = "idle"
    <3>1. BlockEpoch(runs[k]) \in Nat  BY <1>1, RunWrites
    <3> QED  BY <2>B, <3>1, IdleWork, IdleBecomes
  <2>2. CASE work' = [work EXCEPT ![Executor] = B]  BY <1>1, <1>2, <1>5, <2>1, <2>2, IdleMoves
  <2>3. CASE work' = [work EXCEPT ![Executor] = Idle]  BY <1>1, <1>2, <1>5, <2>1, <2>3, IdleMoves
  <2> QED  BY <1>5, <2>B, <2>2, <2>3 DEF CountRecordFailure
<1> QED  BY <1>3, <1>4, <1>5 DEF Claim

LEMMA LeaseLapsesKeeps ==
  ASSUME AlertIInv, TypeOK', NEW k \in Keys, LeaseLapses(k)
  PROVE  \A j \in Keys : RowOK(j)'
<1>1. /\ row \in [Keys -> Row] /\ TypeOK /\ sent[k] \in Nat /\ excuse \in [Keys -> Nat]
      /\ RowOK(k) /\ faults.stalls \in Nat /\ faults'.stalls \in Nat
  BY AlertsAssumption DEF AlertIInv, TypeOK
<1>l. PICK live \in BOOLEAN : live <=> row[k].holder \in Workers /\ Sending(row[k].holder, k)
  OBVIOUS
<1>2. /\ UNCHANGED <<sent, work, latch, epoch>> /\ k \in Pending /\ ~row[k].lapsed
      /\ live => faults'.stalls = faults.stalls + 1 /\ excuse' = [excuse EXCEPT ![k] = @ + 1]
      /\ ~live => faults' = faults /\ excuse' = excuse
      /\ row' = [row EXCEPT ![k].lapsed = TRUE]
  BY <1>1, <1>l DEF LeaseLapses, gate, TypeOK
<1>3. /\ row'[k].state = row[k].state /\ row'[k].attempts = row[k].attempts
      /\ row'[k].holder = row[k].holder /\ row'[k].lapsed
      /\ \A j \in Keys \ {k} : row'[j] = row[j] /\ excuse'[j] = excuse[j]
  <2>1. LET w == [row[k] EXCEPT !.lapsed = TRUE]
        IN  /\ w.state = row[k].state /\ w.attempts = row[k].attempts
            /\ w.holder = row[k].holder /\ w.lapsed
    BY <1>1, RowParts
  <2> QED  BY <1>1, <1>2, <2>1
<1>4. LeaseLive(k)'
  <2>1. CASE live  BY <1>1, <1>2, <2>1 DEF LeaseLive
  <2>2. CASE ~live  BY <1>2, <1>3, <1>l, <2>2 DEF LeaseLive, Sending
  <2> QED  BY <2>1, <2>2
<1>5. LimitJudged(k)'
  <2>1. \A y \in Workers : WillJudge(y, k) => WillJudge(y, k)'
    BY <1>2, <1>3 DEF WillJudge, Holds
  <2>2. faults'.stalls = 0 => faults.stalls = 0  BY <1>1, <1>2
  <2>3. k \in Pending' <=> k \in Pending  BY <1>3 DEF Pending
  <2> QED  BY <1>1, <1>2, <1>3, <2>1, <2>2, <2>3 DEF RowOK, LimitJudged
<1>6. PublishesCounted(k)'
  <2>1. Publishers(k)' = Publishers(k) /\ Cardinality(Publishers(k)) \in Nat
    BY <1>2, PublishersFinite DEF Publishers
  <2>2. /\ sent[k] + Cardinality(Publishers(k)) <= 1 + excuse[k]
        /\ ~Protected(k) => sent[k] + Cardinality(Publishers(k)) <= excuse[k]
    BY <1>1, <1>2 DEF RowOK, PublishesCounted
  <2>3. CASE live
    <3>1. excuse'[k] = excuse[k] + 1 /\ excuse[k] \in Nat  BY <1>1, <1>2, <2>3
    <3> QED  BY <1>1, <1>2, <2>1, <2>2, <3>1 DEF PublishesCounted
  <2>4. CASE ~live
    <3>1. ~Protected(k)  BY <1>l, <2>4 DEF Protected, Sending, Claimed
    <3> QED  BY <1>1, <1>2, <2>1, <2>2, <2>4, <3>1 DEF PublishesCounted
  <2> QED  BY <2>3, <2>4
<1>7. RowOK(k)'  BY <1>4, <1>5, <1>6 DEF RowOK
<1>8. ASSUME NEW j \in Keys, j # k PROVE RowOK(j)'
  <2>1. RowOK(j) /\ (faults'.stalls = 0 => faults.stalls = 0)  BY <1>1, <1>2 DEF AlertIInv
  <2> QED  BY <1>1, <1>2, <1>3, <1>8, <2>1, OtherRow
<1> QED  BY <1>7, <1>8

LEMMA WindowElapsesKeeps ==
  ASSUME AlertIInv, TypeOK', NEW k \in Keys, WindowElapses(k)
  PROVE  \A j \in Keys : RowOK(j)'
<1> SUFFICES ASSUME NEW j \in Keys PROVE RowOK(j)'
  OBVIOUS
<1>1. /\ row \in [Keys -> Row] /\ TypeOK /\ RowOK(j)
      /\ UNCHANGED <<sent, excuse, work, latch, epoch, faults>>
      /\ row' = [row EXCEPT ![k].due = TRUE]
  BY DEF AlertIInv, TypeOK, WindowElapses, gate
<1>2. /\ row'[j].state = row[j].state /\ row'[j].attempts = row[j].attempts
      /\ row'[j].holder = row[j].holder /\ row'[j].lapsed = row[j].lapsed
  <2>1. LET w == [row[k] EXCEPT !.due = TRUE]
        IN  /\ w.state = row[k].state /\ w.attempts = row[k].attempts
            /\ w.holder = row[k].holder /\ w.lapsed = row[k].lapsed
    BY <1>1, RowParts
  <2> QED  BY <1>1, <2>1
<1> QED  BY <1>1, <1>2, OtherRow

LEMMA AckRowKeeps ==
  ASSUME AlertIInv, TypeOK', AckRow
  PROVE  \A j \in Keys : RowOK(j)'
<1>1. /\ row \in [Keys -> Row] /\ TypeOK /\ ack.todo \subseteq Keys
      /\ UNCHANGED <<sent, excuse, work, latch, epoch, faults>>
  BY DEF AlertIInv, TypeOK, AckRow, gate
<1>2. PICK k \in Keys :
        row' = IF k \in Pending
               THEN [row EXCEPT ![k] = [Unleased(row[k]) EXCEPT !.state = "ACKNOWLEDGED"]]
               ELSE row
  BY <1>1 DEF AckRow
<1>3. CASE k \notin Pending
  <2>1. row' = row  BY <1>2, <1>3
  <2> QED  BY <1>1, <2>1, QuietRows
<1>4. CASE k \in Pending
  <2>1. /\ row'[k].state = "ACKNOWLEDGED"
        /\ \A j \in Keys \ {k} : row'[j] = row[j]
    <3>1. [Unleased(row[k]) EXCEPT !.state = "ACKNOWLEDGED"].state = "ACKNOWLEDGED"
      BY <1>1, RowParts
    <3> QED  BY <1>1, <1>2, <1>4, <3>1
  <2>2. RowOK(k)'
    <3>1. k \notin Pending'  BY <2>1 DEF Pending
    <3>2. Publishers(k)' = Publishers(k)  BY <1>1 DEF Publishers
    <3>3. sent[k] + Cardinality(Publishers(k)) <= 1 + excuse[k]
      BY DEF AlertIInv, RowOK, PublishesCounted
    <3> QED  BY <1>1, <3>1, <3>2, <3>3, SettledRow
  <2>3. ASSUME NEW j \in Keys, j # k PROVE RowOK(j)'
    <3>1. RowOK(j)  BY DEF AlertIInv
    <3> QED  BY <1>1, <2>1, <2>3, <3>1, OtherRow
  <2> QED  BY <2>2, <2>3
<1> QED  BY <1>3, <1>4

(* A restart loses every send in flight: a publish that was not yet made is   *)
(* not made, one that was made and not recorded is excused.                   *)
LEMMA RestartKeeps ==
  ASSUME AlertIInv, TypeOK', Restart
  PROVE  \A j \in Keys : RowOK(j)'
<1> SUFFICES ASSUME NEW j \in Keys PROVE RowOK(j)'
  OBVIOUS
<1>d. PICK D : D = {x \in Workers : work[x].pc = "delivered" /\ work[x].key = j}  OBVIOUS
<1>1. /\ row' = row /\ work' = [x \in Workers |-> Idle] /\ sent' = sent
      /\ latch' = (Pending # {}) /\ excuse'[j] = excuse[j] + Cardinality(D)
  BY <1>d DEF Restart
<1>2. /\ sent[j] \in Nat /\ excuse[j] \in Nat /\ RowOK(j)
      /\ IsFiniteSet(D) /\ Cardinality(D) \in Nat
  BY <1>d, WorkersFinite, FS_Subset, FS_CardinalityType DEF AlertIInv, TypeOK
<1>3. Idle.pc = "idle"  BY IdleWork
<1>4. LeaseLive(j)'  BY <1>1, <1>3 DEF LeaseLive, Sending, Claimed
<1>5. LimitJudged(j)'  BY <1>1 DEF LimitJudged, Pending
<1>6. PublishesCounted(j)'
  <2> DEFINE P == Publishers(j)  n == Cardinality(P)
  <2>1. IsFiniteSet(P) /\ n \in Nat  BY PublishersFinite
  <2>2. Publishers(j)' = {}  BY <1>1, <1>3 DEF Publishers, MayPublish
  <2>3. Cardinality(Publishers(j)') = 0  BY <2>2, FS_EmptySet
  <2>4. /\ sent[j] + n <= 1 + excuse[j]
        /\ j \in Pending /\ ~Protected(j) => sent[j] + n <= excuse[j]
    BY <1>2 DEF RowOK, PublishesCounted
  <2>5. Protected(j) => Cardinality(D) >= 1 \/ n >= 1
    <3>1. SUFFICES ASSUME Protected(j) PROVE D # {} \/ P # {}
      BY <1>2, <2>1, FS_EmptySet
    <3> QED  BY <1>d, <3>1 DEF Protected, Publishers, MayPublish
  <2>6. j \in Pending => sent[j] <= excuse[j] + Cardinality(D)
    <3> HIDE DEF n
    <3>1. CASE Protected(j)  BY <1>2, <2>1, <2>4, <2>5, <3>1
    <3>2. CASE ~Protected(j)  BY <1>2, <2>1, <2>4, <3>2
    <3> QED  BY <3>1, <3>2
  <2>7. sent[j] <= 1 + excuse[j] + Cardinality(D)
    <3> HIDE DEF n
    <3> QED  BY <1>2, <2>1, <2>4
  <2>8. j \in Pending' <=> j \in Pending  BY <1>1 DEF Pending
  <2> QED  BY <1>1, <1>2, <2>3, <2>6, <2>7, <2>8 DEF PublishesCounted
<1> QED  BY <1>4, <1>5, <1>6 DEF RowOK

LEMMA RowStep ==
  ASSUME AlertIInv, TypeOK', Next
  PROVE  \A j \in Keys : RowOK(j)'
<1>a. TypeOK /\ AckOK /\ Senders \subseteq Workers /\ Executor \in Workers
  BY DEF AlertIInv, Workers
<1>1. ASSUME NEW s \in Senders, SenderStep(s) PROVE \A j \in Keys : RowOK(j)'
  <2>1. ASSUME NEW k \in Keys, RecordFails(s, k) PROVE \A j \in Keys : RowOK(j)'
    <3>W. PICK W : W = [Idle EXCEPT !.pc = "escalate", !.key = k, !.record = TRUE]  OBVIOUS
    <3>1. W.pc = "escalate"  BY <3>W, IdleBecomes
    <3>2. /\ work[s].pc = "idle" /\ work' = [work EXCEPT ![s] = W] /\ latch'
          /\ UNCHANGED <<row, sent, excuse, epoch, faults>>
      BY <2>1, <3>W DEF RecordFails, outbox
    <3> QED  BY <1>a, <3>1, <3>2, IdleMoves
  <2>2. ASSUME NEW k \in Keys, NEW remind \in BOOLEAN, RecordOnly(s, k, remind)
        PROVE  \A j \in Keys : RowOK(j)'
    BY <2>2, ArmedRow DEF RecordOnly, gate
  <2> QED  BY <1>1, <2>1, <2>2, ObserveKeeps DEF SenderStep
<1>2. ASSUME NEW k \in Keys, EnqueueAlert(k) PROVE \A j \in Keys : RowOK(j)'
  <2>1. Recorded(k, FALSE) # row[k]
    BY <1>a, <1>2 DEF EnqueueAlert, Recorded, Fresh, TypeOK, Row
  <2> QED  BY <1>2, <2>1, ArmedRow DEF EnqueueAlert, gate
<1>3. ASSUME NEW x \in Workers, WorkerStep(x) PROVE \A j \in Keys : RowOK(j)'
  BY <1>3, PublishKeeps, MarkDeliveredKeeps, MarkAttemptFailedKeeps, ReleaseKeeps, JudgeKeeps,
     BlockKeeps, EscalateKeeps
  DEF WorkerStep
<1>4. CASE List
  BY <1>4, QuietRows DEF List, outbox, gate
<1>5. CASE ListFails
  <2>1. CASE UNCHANGED work  BY <1>5, <2>1, QuietRows DEF ListFails, outbox, gate
  <2>2. CASE work' = [work EXCEPT ![Executor].pc = "block",
                                  ![Executor].epoch = BlockEpoch(listRun)]
    <3>W. PICK W : W = [[work[Executor] EXCEPT !.pc = "block"]
                          EXCEPT !.epoch = BlockEpoch(listRun)]
      OBVIOUS
    <3>1. W.pc = "block"  BY <1>a, <3>W DEF TypeOK, Work
    <3>2. work' = [work EXCEPT ![Executor] = W]  BY <1>a, <2>2, <3>W DEF TypeOK
    <3>3. work[Executor].pc = "idle" /\ UNCHANGED <<row, sent, excuse, epoch, faults, latch>>
      BY <1>5 DEF ListFails, outbox, gate
    <3> QED  BY <1>a, <3>1, <3>2, <3>3, IdleMoves
  <2> QED  BY <1>5, <2>1, <2>2 DEF ListFails
<1>6. CASE AckStart \/ AckFails \/ AckCount \/ ModeRelease
  BY <1>6, QuietRows DEF AckStart, AckFails, AckCount, ModeRelease, outbox, gate
<1>7. CASE AckClear
  BY <1>a, <1>7, QuietRows DEF AckClear, AckOK, outbox
<1> QED
  BY <1>1, <1>2, <1>3, <1>4, <1>5, <1>6, <1>7, <1>a, ClaimKeeps, AckRowKeeps, LeaseLapsesKeeps,
     WindowElapsesKeeps, RestartKeeps
  DEF Next, ExecutorStep, OperatorStep

-----------------------------------------------------------------------------
(* The invariant of every behaviour. *)

LEMMA AlertInit == Init => AlertIInv
<1> SUFFICES ASSUME Init PROVE AlertIInv
  OBVIOUS
<1>1. /\ Limit \in Nat \ {0} /\ bound \in Bounds /\ bound.clears \in Nat /\ bound.stalls \in Nat
      /\ bound.crashes \in Nat /\ bound.unrecorded \in Nat /\ Nobody \notin Workers
  BY AlertsAssumption DEF Init, Workers
<1>2. TypeOK
  <2>1. NoRun \in Run  BY <1>1 DEF NoRun, Run
  <2>2. [state |-> "NONE", attempts |-> 0, holder |-> Nobody,
         lapsed |-> FALSE, due |-> FALSE, armed |-> 0] \in Row
    BY <1>1 DEF Row
  <2>3. row \in [Keys -> Row] /\ work \in [Workers -> Work] /\ runs \in [Keys -> Run]
    BY <2>1, <2>2, IdleWork DEF Init
  <2>4. /\ ack \in [pc : {"idle", "rows", "clear"}, todo : SUBSET Keys]
        /\ faults \in [stalls : 0..bound.stalls, crashes : 0..bound.crashes,
                       unrecorded : 0..bound.unrecorded]
    BY <1>1 DEF Init
  <2>5. batch \subseteq Keys /\ listRun \in Run /\ latch \in BOOLEAN /\ mode \in BOOLEAN
    BY <2>1 DEF Init
  <2>6. epoch \in 0..bound.clears /\ owed \in {"none", "memory", "durable"}
    BY <1>1 DEF Init
  <2>7. sent \in [Keys -> Nat] /\ excuse \in [Keys -> Nat]
    BY DEF Init
  <2> QED  BY <2>3, <2>4, <2>5, <2>6, <2>7 DEF TypeOK
<1>3. AckOK /\ BlockedUntilHuman /\ DurableOK /\ BudgetLeft
  BY IdleWork DEF Init, AckOK, BlockedUntilHuman, DurableOK, BudgetLeft
<1>4. ASSUME NEW k \in Keys PROVE RowOK(k)
  <2>1. k \notin Pending  BY DEF Init, Pending
  <2>2. Publishers(k) = {}  BY IdleWork DEF Init, Publishers, MayPublish
  <2>3. Cardinality(Publishers(k)) = 0 /\ sent[k] = 0 /\ excuse[k] = 0
    BY <2>2, FS_EmptySet DEF Init
  <2> QED  BY <2>1, <2>3 DEF RowOK, LeaseLive, LimitJudged, PublishesCounted
<1> QED  BY <1>1, <1>2, <1>3, <1>4 DEF AlertIInv

LEMMA AlertStep == AlertIInv /\ [Next]_<<vars, bound>> => AlertIInv'
<1>1. ASSUME AlertIInv, Next PROVE AlertIInv'
  <2>1. TypeOK'  BY <1>1, TypeStep
  <2>2. bound' = bound /\ bound \in Bounds  BY <1>1 DEF Next, AlertIInv
  <2>3. AckOK'  BY <1>1, AckStep
  <2>4. (BlockedUntilHuman /\ DurableOK)'  BY <1>1, GateStep
  <2>5. BudgetLeft'  BY <1>1, BudgetStep
  <2>6. \A k \in Keys : RowOK(k)'  BY <1>1, <2>1, RowStep
  <2> QED  BY <2>1, <2>2, <2>3, <2>4, <2>5, <2>6 DEF AlertIInv
<1>2. ASSUME AlertIInv, UNCHANGED <<vars, bound>> PROVE AlertIInv'
  <2>1. /\ TypeOK' /\ TypeOK /\ (bound \in Bounds)'
        /\ UNCHANGED <<row, work, sent, excuse, epoch, latch, faults>>
    BY <1>2 DEF AlertIInv, vars, TypeOK
  <2>2. (AckOK /\ BlockedUntilHuman /\ DurableOK /\ BudgetLeft)'
    BY <1>2 DEF AlertIInv, vars, AckOK, BlockedUntilHuman, DurableOK, BudgetLeft, Pending
  <2>3. \A k \in Keys : RowOK(k)'  BY <1>2, <2>1, QuietRows
  <2> QED  BY <2>1, <2>2, <2>3 DEF AlertIInv
<1> QED  BY <1>1, <1>2

LEMMA AlertIInvImplies == AlertIInv => AlertInv
<1> SUFFICES ASSUME AlertIInv PROVE AlertInv
  OBVIOUS
<1>1. LimitLatched
  <2> SUFFICES ASSUME NEW k \in Pending \ Direct, row[k].attempts >= Limit, faults.stalls = 0,
                      \A x \in Workers : work[x].pc # "idle" => work[x].key # k
               PROVE  latch
    BY DEF LimitLatched
  <2>1. k \in Keys /\ LimitJudged(k)  BY DEF AlertIInv, RowOK, Pending
  <2>2. \A x \in Workers : ~WillJudge(x, k)  BY DEF WillJudge, Claimed
  <2> QED  BY <2>1, <2>2 DEF LimitJudged
<1>2. SentOnce
  <2> SUFFICES ASSUME NEW k \in Keys PROVE sent[k] <= 1 + excuse[k]
    BY DEF SentOnce
  <2>1. sent[k] + Cardinality(Publishers(k)) <= 1 + excuse[k]
    BY DEF AlertIInv, RowOK, PublishesCounted
  <2>2. sent[k] \in Nat /\ excuse[k] \in Nat /\ Cardinality(Publishers(k)) \in Nat
    BY PublishersFinite DEF AlertIInv, TypeOK
  <2> QED  BY <2>1, <2>2
<1> QED  BY <1>1, <1>2 DEF AlertIInv, AlertInv

(* An alert whose attempts reached the limit stays latched, a judgement stands *)
(* until a person answers it, and one episode is sent once but for a stall, an *)
(* unrecorded send or a crash (notifier.go, alertdelivery.go, alert_claim.go), *)
(* for any number of rows and senders.                                         *)
THEOREM AlertsAreSafe == Spec => []AlertInv
<1>1. Init => AlertIInv  BY AlertInit
<1>2. AlertIInv /\ [Next]_<<vars, bound>> => AlertIInv'  BY AlertStep
<1>3. AlertIInv => AlertInv  BY AlertIInvImplies
<1> QED  BY <1>1, <1>2, <1>3, PTL DEF Spec

(* The operator's release happens with no critical record pending: nothing the *)
(* notifier records can land between its count and its clear (notifier.go).    *)
THEOREM ClearSeesAll == Spec => ClearMeansSeen
<1>1. Init => AlertIInv  BY AlertInit
<1>2. AlertIInv /\ [Next]_<<vars, bound>> => AlertIInv'  BY AlertStep
<1>3. AlertIInv => [AckClear => Pending \subseteq Direct]_vars
  BY DEF AlertIInv, AckOK, AckClear
<1> QED  BY <1>1, <1>2, <1>3, PTL DEF Spec, ClearMeansSeen
=============================================================================
