---------------------------- MODULE JournalProofs ----------------------------
(* Proofs about what the journal promises the rest of the engine: a replay of   *)
(* an in-doubt order makes no second one (internal/execgw), the gate follows    *)
(* the operating mode (internal/journal, internal/app/engine), the reservation  *)
(* ledger stays within its ceilings (internal/journal), and the monetary risk   *)
(* buckets within their limits (internal/journal, internal/riskbucket).         *)
EXTENDS Replay, OperatingMode, Reservations, RiskBuckets, SumTheorems,
        FiniteSetTheorems, TLAPS

-----------------------------------------------------------------------------
(* Idempotent replay (module Replay).                                         *)

(* Whoever is inside ReplayInDoubt holds the symbol's claim. *)
ClaimHeld == \A c \in Callers : caller[c].pc # "out" => claim = c

(* An answer belongs to the request its caller is waiting for. *)
AnswerAwaited == \A c \in Callers : caller[c].answer # "none" => caller[c].pc = "posted"

(* Past the guards, the check is no older than a request may be, and left the *)
(* margin.                                                                    *)
CheckStillGood ==
  \A c \in Callers : caller[c].pc \in {"count", "post"} =>
    caller[c].checked < KeyTTL - Margin /\ now <= caller[c].checked + MaxDelay

(* A request on its way arrives, if it does, before the first key can expire,  *)
(* and its sender waits for it.                                               *)
WireInTime ==
  \A p \in wire : /\ now <= p.until /\ p.until < KeyTTL
                  /\ p.by \in Callers => caller[p.by].pc = "posted" /\ caller[p.by].answer = "none"

OneRequestEach == \A p, q \in wire : p.by = q.by /\ p.by \in Callers => p = q

(* The broker knows the key from its first order on. *)
KeyNamesOrder == orders <= 1 /\ (orders = 0 <=> keyAt = -1)

(* The durable count runs ahead of the sends. *)
CountedFirst ==
  /\ uncounted <= count
  /\ \A c \in Callers : caller[c].pc = "post" => uncounted < count
  /\ \A c \in Callers : caller[c].pc = "posted" => uncounted >= 1

(* FAILED_CONFIRMED is written with nothing in flight, and nothing starts after. *)
FailedIsQuiet ==
  state = "FAILED_CONFIRMED" => orders = 0 /\ wire = {} /\ \A c \in Callers : caller[c].pc = "out"

ReplayIInv ==
  /\ ReplayTypeOK /\ ClaimHeld /\ AnswerAwaited /\ CheckStillGood /\ WireInTime
  /\ OneRequestEach /\ KeyNamesOrder /\ CountedFirst /\ FailedIsQuiet

USE ReplayAssumption DEF NoOne, Outside, Answers

(* A step of a call to ReplayInDoubt. *)
LEMMA CallKeeps ==
  ASSUME ReplayIInv, NEW c \in Callers, Enter(c) \/ Call(c)
  PROVE  ReplayIInv'
<1> USE DEF ReplayIInv, ReplayTypeOK, ClaimHeld, AnswerAwaited, CheckStillGood, WireInTime,
         OneRequestEach, KeyNamesOrder, CountedFirst, FailedIsQuiet
<1>1. CASE Enter(c)
  BY <1>1 DEF Enter
<1>2. CASE Guards(c)
  BY <1>2 DEF Guards, GuardsPass
<1>3. CASE Wake(c)
  BY <1>3 DEF Wake
<1>4. CASE Decline(c)
  BY <1>4 DEF Decline, Leave
<1>5. CASE MarkReplayStarted(c)
  BY <1>5 DEF MarkReplayStarted
<1>6. CASE Post(c)
  BY <1>6 DEF Post
<1>7. CASE Recovered(c)
  BY <1>7 DEF Recovered, Settled, Leave
<1>8. CASE InProgress(c)
  BY <1>8 DEF InProgress
<1>9. CASE KeyConflict(c)
  BY <1>9 DEF KeyConflict, Settled, Leave
<1>10. CASE Inconclusive(c)
  BY <1>10 DEF Inconclusive
<1> QED BY <1>1, <1>2, <1>3, <1>4, <1>5, <1>6, <1>7, <1>8, <1>9, <1>10 DEF Call

(* The broker's answer reaches the caller that waits for it, and an order is   *)
(* made only for a key the broker has not seen.                               *)
LEMMA BrokerKeeps ==
  ASSUME ReplayIInv, NEW p \in wire, Accept(p) \/ Refuse(p)
  PROVE  ReplayIInv'
<1> USE DEF ReplayIInv, ReplayTypeOK, ClaimHeld, AnswerAwaited, CheckStillGood, WireInTime,
         OneRequestEach, KeyNamesOrder, CountedFirst, FailedIsQuiet, Answer
<1>1. CASE Accept(p)
  BY <1>1 DEF Accept, KeyHonoured
<1>2. CASE Refuse(p)
  BY <1>2 DEF Refuse
<1> QED BY <1>1, <1>2

(* Observation, time and the end of the process. *)
LEMMA WorldKeeps ==
  ASSUME ReplayIInv, Observe \/ Tick \/ ReplayCrash
  PROVE  ReplayIInv'
<1> USE DEF ReplayIInv, ReplayTypeOK, ClaimHeld, AnswerAwaited, CheckStillGood, WireInTime,
         OneRequestEach, KeyNamesOrder, CountedFirst, FailedIsQuiet
<1>1. CASE Observe
  BY <1>1 DEF Observe
<1>2. CASE Tick
  BY <1>2 DEF Tick
<1>3. CASE ReplayCrash
  BY <1>3 DEF ReplayCrash
<1> QED BY <1>1, <1>2, <1>3

(* ReplayInDoubt, for any number of callers, any deadlines and crashes: one    *)
(* key never makes two orders, sends stay within the cap, and FAILED_CONFIRMED *)
(* is never written about an order that exists or can still arrive.            *)
THEOREM ReplayIsSafe == ReplaySpec => []ReplayInv
<1>1. ReplayInit => ReplayIInv
  BY DEF ReplayInit, Original, ReplayIInv, ReplayTypeOK, ClaimHeld, AnswerAwaited, CheckStillGood, WireInTime,
         OneRequestEach, KeyNamesOrder, CountedFirst, FailedIsQuiet
<1>2. ReplayIInv /\ [ReplayNext]_replayVars => ReplayIInv'
  <2>1. ReplayIInv /\ UNCHANGED replayVars => ReplayIInv'
    BY DEF replayVars, ReplayIInv, ReplayTypeOK, ClaimHeld, AnswerAwaited, CheckStillGood, WireInTime,
         OneRequestEach, KeyNamesOrder, CountedFirst, FailedIsQuiet
  <2> QED BY <2>1, CallKeeps, BrokerKeeps, WorldKeeps DEF ReplayNext
<1>3. ReplayIInv => ReplayInv
  BY DEF ReplayInv, OneOrder, CapSurvivesCrash, FailedMeansNoOrder, ReplayIInv, ReplayTypeOK, ClaimHeld, AnswerAwaited, CheckStillGood, WireInTime,
         OneRequestEach, KeyNamesOrder, CountedFirst, FailedIsQuiet
<1> QED BY <1>1, <1>2, <1>3, PTL DEF ReplaySpec

HIDE ReplayAssumption DEF NoOne, Outside, Answers

-----------------------------------------------------------------------------
(* The operating mode (module OperatingMode).                                 *)

(* Every rowid in the process's memory names a row that was committed.        *)
SeqsKnown ==
  /\ modeSeq <= Len(rows) /\ restoring <= Len(rows)
  /\ \A c \in Projectors : carried[c] <= Len(rows)

(* What the gate shows is the row its fence names, or the block of a start-up *)
(* that could not read one.                                                  *)
LatchIsFence ==
  up # "down" =>
    /\ BlocksEntry(RowAt(modeSeq).mode) => latched
    /\ latched => BlocksEntry(RowAt(modeSeq).mode) \/ unread

(* No row was committed or projected since the process started.               *)
Untouched == modeSeq = 0 /\ \A c \in Projectors : carried[c] = 0

(* The latest row is on the gate, or somebody is still to bring it there; a   *)
(* start-up that failed to read it holds the block instead.                   *)
LatestIsDue ==
  up # "down" =>
    \/ modeSeq = Len(rows)
    \/ \E c \in Projectors : carried[c] = Len(rows)
    \/ up = "bound" /\ Untouched
    \/ up = "restoring" /\ restoring = Len(rows)
    \/ up = "running" /\ unread /\ latched /\ Untouched

(* A dead process carries nothing. *)
DeadCarriesNothing == up = "down" => \A c \in Projectors : carried[c] = 0

(* Only operators leave ENTRY_BLOCKED: an automatic row always enters it.     *)
AutoBlocks == \A n \in 1..Len(rows) : rows[n].actor = "AUTO" => rows[n].mode = "ENTRY_BLOCKED"

ModeIInv ==
  /\ ModeTypeOK /\ SeqsKnown /\ LatchIsFence /\ LatestIsDue /\ DeadCarriesNothing
  /\ AutoBlocks /\ OneEscalationPerRelease

USE OperatingModeAssumption DEF gate, boot

-----------------------------------------------------------------------------
(* Committing a row: TransitionOperatingMode appends it and its caller carries *)
(* it.                                                                        *)
LEMMA TransitionKeeps ==
  ASSUME ModeIInv, NEW c \in Projectors, NEW m \in Modes, NEW a \in Actors,
         NEW t \in Triggers \cup {NoCause}, Transition(c, m, a, t)
  PROVE  ModeIInv'
<1> DEFINE r == [mode |-> m, actor |-> a, cause |-> t]
<1>1. /\ rows \in Seq(Rows) /\ r \in Rows /\ Len(rows) \in Nat /\ Len(rows) < MaxRows
      /\ rows' = Append(rows, r) /\ carried' = [carried EXCEPT ![c] = Len(rows) + 1]
      /\ UNCHANGED <<latched, modeSeq, lossSeen, up, restoring, unread, restarts>>
      /\ up # "down"
  BY DEF Transition, ModeIInv, ModeTypeOK, Rows
<1>2. /\ rows' \in Seq(Rows) /\ Len(rows') = Len(rows) + 1
      /\ \A n \in 1..Len(rows) : rows'[n] = rows[n]
      /\ rows'[Len(rows) + 1] = r
  BY <1>1
<1>3. ModeTypeOK'
  BY <1>1, <1>2 DEF ModeIInv, ModeTypeOK
<1>4. SeqsKnown' /\ DeadCarriesNothing'
  BY <1>1, <1>2 DEF ModeIInv, ModeTypeOK, SeqsKnown, DeadCarriesNothing
<1>5. LatchIsFence'
  <2>1. RowAt(modeSeq)' = RowAt(modeSeq)
    BY <1>1, <1>2 DEF RowAt, ModeIInv, SeqsKnown, ModeTypeOK
  <2> QED BY <1>1, <2>1 DEF ModeIInv, LatchIsFence
<1>6. LatestIsDue'
  <2>1. carried'[c] = Len(rows')
    BY <1>1, <1>2 DEF ModeIInv, ModeTypeOK
  <2> QED BY <2>1 DEF LatestIsDue
<1>7. AutoBlocks'
  <2>1. a = "AUTO" => m = "ENTRY_BLOCKED"
    BY DEF Transition, MayTransition
  <2> QED BY <1>1, <1>2, <2>1 DEF ModeIInv, AutoBlocks
<1>8. OneEscalationPerRelease'
  <2>0. CurrentMode \in Modes
    <3>1. CASE Len(rows) = 0
      BY <3>1 DEF CurrentMode, RowAt, Modes, NoRow
    <3>2. CASE Len(rows) # 0
      <4>1. rows[Len(rows)] \in Rows
        BY <1>1, <3>2
      <4> QED BY <3>2, <4>1 DEF CurrentMode, RowAt, Rows
    <3> QED BY <3>1, <3>2
  <2>1. a = "AUTO" => CurrentMode = "NORMAL"
    BY <2>0 DEF Transition, MayTransition, ModeRank, Actors, Modes
  <2>2. ASSUME a = "AUTO", Len(rows) > 0 PROVE rows[Len(rows)].actor = "OPERATOR"
    <3>1. rows[Len(rows)] \in Rows /\ rows[Len(rows)].mode = "NORMAL"
      BY <1>1, <2>1, <2>2 DEF CurrentMode, RowAt
    <3> QED BY <1>1, <2>2, <3>1 DEF ModeIInv, AutoBlocks, Rows, Actors
  <2>3. SUFFICES ASSUME NEW n \in 1..Len(rows'), n > 1, rows'[n].actor = "AUTO"
                 PROVE  rows'[n - 1].actor = "OPERATOR"
    BY DEF OneEscalationPerRelease
  <2>4. CASE n = Len(rows) + 1
    BY <1>1, <1>2, <2>2, <2>3, <2>4
  <2>5. CASE n # Len(rows) + 1
    BY <1>1, <1>2, <2>3, <2>5 DEF ModeIInv, OneEscalationPerRelease
  <2> QED BY <2>4, <2>5
<1> QED BY <1>3, <1>4, <1>5, <1>6, <1>7, <1>8 DEF ModeIInv

(* ProjectOperatingMode keeps the gate on the row its fence names, and the     *)
(* fence never goes back.                                                     *)
LEMMA ProjectedFacts ==
  ASSUME ModeIInv, up # "down", UNCHANGED <<rows, unread>>, NEW s \in 0..Len(rows), Projected(s)
  PROVE  /\ latched' \in BOOLEAN /\ lossSeen' \in BOOLEAN
         /\ modeSeq' \in 0..Len(rows) /\ modeSeq' >= modeSeq /\ modeSeq' >= s
         /\ BlocksEntry(RowAt(modeSeq').mode) => latched'
         /\ latched' => BlocksEntry(RowAt(modeSeq').mode) \/ unread
<1>1. modeSeq \in 0..Len(rows) /\ Len(rows) \in Nat
  BY DEF ModeIInv, ModeTypeOK, SeqsKnown
<1>2. CASE s <= modeSeq
  BY <1>1, <1>2 DEF Projected, ModeIInv, ModeTypeOK, LatchIsFence
<1>3. CASE ~(s <= modeSeq)
  <2>1. /\ latched' = BlocksEntry(RowAt(s).mode) /\ modeSeq' = s
        /\ lossSeen' \in BOOLEAN
    BY <1>3 DEF Projected
  <2>2. latched' \in BOOLEAN /\ (latched' <=> BlocksEntry(RowAt(modeSeq').mode))
    BY <2>1 DEF BlocksEntry
  <2> QED BY <1>1, <1>3, <2>1, <2>2
<1> QED BY <1>2, <1>3

(* The call after the commit. *)
LEMMA ProjectKeeps ==
  ASSUME ModeIInv, NEW c \in Projectors, Project(c)
  PROVE  ModeIInv'
<1>1. /\ carried[c] \in 1..Len(rows) /\ Len(rows) \in Nat
      /\ carried' = [carried EXCEPT ![c] = 0] /\ up # "down"
      /\ UNCHANGED <<rows, up, restoring, unread, restarts>> /\ Projected(carried[c])
  BY DEF Project, ModeIInv, ModeTypeOK, SeqsKnown, DeadCarriesNothing
<1>2. /\ latched' \in BOOLEAN /\ lossSeen' \in BOOLEAN
      /\ modeSeq' \in 0..Len(rows) /\ modeSeq' >= modeSeq /\ modeSeq' >= carried[c]
      /\ BlocksEntry(RowAt(modeSeq').mode) => latched'
      /\ latched' => BlocksEntry(RowAt(modeSeq').mode) \/ unread
  BY <1>1, ProjectedFacts
<1>3. ModeTypeOK' /\ SeqsKnown' /\ DeadCarriesNothing'
  BY <1>1, <1>2 DEF ModeIInv, ModeTypeOK, SeqsKnown, DeadCarriesNothing
<1>4. LatchIsFence'
  BY <1>1, <1>2 DEF LatchIsFence, RowAt
<1>5. LatestIsDue'
  BY <1>1, <1>2 DEF ModeIInv, ModeTypeOK, SeqsKnown, LatestIsDue, Untouched
<1>6. AutoBlocks' /\ OneEscalationPerRelease'
  BY <1>1 DEF ModeIInv, AutoBlocks, OneEscalationPerRelease
<1> QED BY <1>3, <1>4, <1>5, <1>6 DEF ModeIInv

(* Start-up: RestoreOperatingModeProjection projects what it read. *)
LEMMA RestoreProjectKeeps ==
  ASSUME ModeIInv, RestoreProject
  PROVE  ModeIInv'
<1>1. /\ restoring \in 0..Len(rows) /\ Len(rows) \in Nat /\ up = "restoring"
      /\ up' = "running" /\ UNCHANGED <<rows, carried, restoring, unread, restarts>>
      /\ Projected(restoring)
  BY DEF RestoreProject, ModeIInv, ModeTypeOK, SeqsKnown
<1>2. /\ latched' \in BOOLEAN /\ lossSeen' \in BOOLEAN
      /\ modeSeq' \in 0..Len(rows) /\ modeSeq' >= modeSeq /\ modeSeq' >= restoring
      /\ BlocksEntry(RowAt(modeSeq').mode) => latched'
      /\ latched' => BlocksEntry(RowAt(modeSeq').mode) \/ unread
  BY <1>1, ProjectedFacts
<1>3. ModeTypeOK' /\ SeqsKnown' /\ DeadCarriesNothing'
  BY <1>1, <1>2 DEF ModeIInv, ModeTypeOK, SeqsKnown, DeadCarriesNothing
<1>4. LatchIsFence'
  BY <1>1, <1>2 DEF LatchIsFence, RowAt
<1>5. LatestIsDue'
  BY <1>1, <1>2 DEF ModeIInv, ModeTypeOK, SeqsKnown, LatestIsDue, Untouched
<1>6. AutoBlocks' /\ OneEscalationPerRelease'
  BY <1>1 DEF ModeIInv, AutoBlocks, OneEscalationPerRelease
<1> QED BY <1>3, <1>4, <1>5, <1>6 DEF ModeIInv

(* The rest of start-up, and the process's end. *)
LEMMA BootKeeps ==
  ASSUME ModeIInv, Bind \/ RestoreRead \/ ModeCrash
  PROVE  ModeIInv'
<1>1. rows' = rows /\ Len(rows) \in Nat /\ Len(rows) <= MaxRows
  BY DEF Bind, RestoreRead, ModeCrash, ModeIInv, ModeTypeOK
<1>2. latched' \in BOOLEAN /\ lossSeen' \in BOOLEAN /\ unread' \in BOOLEAN
  BY DEF Bind, RestoreRead, ModeCrash, ModeIInv, ModeTypeOK
<1>3. ModeTypeOK' /\ SeqsKnown' /\ DeadCarriesNothing'
  <2>1. CASE Bind
    BY <1>1, <1>2, <2>1 DEF Bind, ModeIInv, ModeTypeOK, SeqsKnown, DeadCarriesNothing
  <2>2. CASE RestoreRead
    BY <1>1, <1>2, <2>2 DEF RestoreRead, ModeIInv, ModeTypeOK, SeqsKnown, DeadCarriesNothing
  <2>3. CASE ModeCrash
    BY <1>1, <1>2, <2>3 DEF ModeCrash, ModeIInv, ModeTypeOK, SeqsKnown, DeadCarriesNothing
  <2> QED BY <2>1, <2>2, <2>3
<1>4. LatchIsFence'
  BY <1>1 DEF Bind, RestoreRead, ModeCrash, ModeIInv, ModeTypeOK, LatchIsFence, RowAt, NoRow, BlocksEntry
<1>5. LatestIsDue'
  BY <1>1 DEF Bind, RestoreRead, ModeCrash, ModeIInv, ModeTypeOK, LatestIsDue, Untouched, DeadCarriesNothing
<1>6. AutoBlocks' /\ OneEscalationPerRelease'
  BY <1>1 DEF ModeIInv, AutoBlocks, OneEscalationPerRelease
<1> QED BY <1>3, <1>4, <1>5, <1>6 DEF ModeIInv

(* The invariant, over every commit, projection, start-up and end. *)
LEMMA ModeIInvStep == ModeIInv /\ [ModeNext]_modeVars => ModeIInv'
<1> SUFFICES ASSUME ModeIInv, [ModeNext]_modeVars PROVE ModeIInv'
  OBVIOUS
<1>1. ASSUME NEW l \in Loops, Escalate(l) PROVE ModeIInv'
  BY <1>1, TransitionKeeps DEF Escalate, Projectors, Modes, Actors
<1>2. CASE OperatorMoves
  BY <1>2, TransitionKeeps DEF OperatorMoves, Projectors, Actors
<1>3. CASE UNCHANGED modeVars
  BY <1>3 DEF modeVars, ModeIInv, ModeTypeOK, SeqsKnown, LatchIsFence, LatestIsDue, Untouched,
     DeadCarriesNothing, AutoBlocks, OneEscalationPerRelease, RowAt
<1> QED BY <1>1, <1>2, <1>3, ProjectKeeps, RestoreProjectKeeps, BootKeeps DEF ModeNext

(* The strengthening says what ModeInv says. *)
LEMMA ModeIInvImplies == ModeIInv => ModeInv
<1> SUFFICES ASSUME ModeIInv PROVE ModeInv
  OBVIOUS
<1>1. ASSUME up = "running", \A c \in Projectors : carried[c] = 0
      PROVE  /\ BlocksEntry(CurrentMode) => latched
             /\ latched => BlocksEntry(CurrentMode) \/ unread
  <2>1. Len(rows) \in Nat /\ modeSeq \in Nat /\ modeSeq <= Len(rows)
    BY DEF ModeIInv, ModeTypeOK, SeqsKnown
  <2>2. \/ modeSeq = Len(rows)
        \/ unread /\ latched
    BY <1>1, <2>1 DEF ModeIInv, LatestIsDue
  <2> QED BY <1>1, <2>2 DEF ModeIInv, LatchIsFence, CurrentMode
<1> QED BY <1>1 DEF ModeInv, GateFollowsJournal, ModeIInv

(* TransitionOperatingMode and ProjectOperatingMode, for any callers, triggers *)
(* and restarts: with no projection due, a running process refuses entries     *)
(* exactly when the journal's mode does or could not be read, and between two  *)
(* operator acts at most one automatic row is written.                         *)
THEOREM ModeIsFollowed == ModeSpec => []ModeInv
<1>1. ModeInit => ModeIInv
  <2> SUFFICES ASSUME ModeInit PROVE ModeIInv
    OBVIOUS
  <2>1. rows \in Seq(Rows) /\ Len(rows) = 0 /\ 1..Len(rows) = {}
    BY DEF ModeInit
  <2>2. latched \in BOOLEAN /\ lossSeen \in BOOLEAN /\ unread \in BOOLEAN
    BY DEF ModeInit
  <2>3. ModeTypeOK /\ SeqsKnown
    BY <2>1, <2>2 DEF ModeInit, ModeTypeOK, SeqsKnown
  <2> QED BY <2>1, <2>3 DEF ModeInit, ModeIInv, LatchIsFence, LatestIsDue,
     DeadCarriesNothing, AutoBlocks, OneEscalationPerRelease
<1> QED BY <1>1, ModeIInvStep, ModeIInvImplies, PTL DEF ModeSpec

HIDE OperatingModeAssumption DEF gate, boot

-----------------------------------------------------------------------------
(* The reservation ledger (module Reservations).                              *)

(* The decision's own path: what its row, attempt, nonce, order and snapshot   *)
(* may say together.                                                          *)
PathOK ==
  \A d \in Decisions :
    /\ issued[d] = 0 <=> row[d] = "none"
    /\ issued[d] = 0 => attempt[d] = "none"
    /\ attempt[d] \in {"none", "RECORDED", "NOT_DISPATCHED"} => order[d] = "none"
    /\ attempt[d] = "FAILED_CONFIRMED" => order[d] = "refused"
    /\ attempt[d] = "CONFIRMED" => order[d] \in {"live", "filled", "exited", "cancelled"}
    /\ attempt[d] = "DISPATCH_STARTED" \/ order[d] # "none" => d \in spent
    /\ snapshot[d] # "none" => attempt[d] = "CONFIRMED"
    /\ snapshot[d] = "zero" => order[d] = "cancelled"
    /\ snapshot[d] \in {"filled", "refused", "folded"} => order[d] \in {"filled", "exited"}
    /\ row[d] = "EXPIRED_UNCONSUMED" => d \in expired

(* An order that can still buy holds headroom until the journal has recorded   *)
(* its fill.                                                                  *)
OpenIsHeld ==
  \A d \in Decisions : order[d] \in {"wire", "live", "filled"} =>
    row[d] = "HELD" \/ (snapshot[d] \in {"filled", "refused", "folded"} /\ order[d] = "filled")

(* Each issuer works on a decision of its own that has no row yet. *)
IssuersApart ==
  /\ \A i \in Issuers : issuer[i].pc # "idle" => issuer[i].dec \in Decisions
  /\ \A i \in Issuers : issuer[i].dec \in Decisions => issued[issuer[i].dec] = 0
  /\ \A i, j \in Issuers : issuer[i].dec \in Decisions /\ issuer[i].dec = issuer[j].dec => i = j

(* Positions that no hold stands for any more. *)
Unheld == {d \in Decisions : order[d] = "filled" /\ row[d] # "HELD"}

(* The version fence: a version that is still current was read after every     *)
(* change to the ledger, so the snapshot taken after it saw every position     *)
(* that no hold stands for.                                                   *)
SnapshotSound ==
  \A i \in Issuers :
    /\ issuer[i].version <= Version(row)
    /\ i \notin setup.late /\ issuer[i].pc = "collected" /\ issuer[i].version = Version(row)
         => Cardinality(Unheld) <= issuer[i].usage

(* What a day's ceiling counts against it, whatever day it is now. *)
CountedOn(k) ==
  {d \in Decisions : issued[d] = k /\ row[d] # "none"
                     /\ (row[d] = "HELD" \/ ~ProveZeroFill(row, d))}

(* No day counts as many buys as its ceiling. *)
BuysCounted == \A k \in Days : Cardinality(CountedOn(k)) < setup.dailyBuy

(* The venues that take a slot: held, or only reconciling. *)
Slots(r) == HeldVenues(r) \cup Reconciling

(* No more slots are taken than the configured positions. *)
VenuesCounted == Cardinality(Slots(row)) <= setup.positions

(* The strengthening of LedgerInv. *)
LedgerIInv ==
  /\ LedgerTypeOK /\ PathOK /\ OpenIsHeld /\ IssuersApart /\ SnapshotSound
  /\ BuysCounted /\ VenuesCounted

RowStates == {"none", "HELD"} \cup Released

(* What a transaction may do to a row: insert it held, or release it, once.    *)
RowStep(r, q) ==
  \A d \in Decisions : \/ q[d] = r[d]
                       \/ r[d] = "none" /\ q[d] = "HELD"
                       \/ r[d] = "HELD" /\ q[d] \in Released

USE ReservationsAssumption DEF ledger, path

-----------------------------------------------------------------------------
(* A subset of a finite set is counted no higher, and as high only if it is    *)
(* all of it.                                                                 *)
LEMMA SubsetCard ==
  ASSUME NEW T, IsFiniteSet(T), NEW S, S \subseteq T
  PROVE  /\ IsFiniteSet(S) /\ Cardinality(S) \in Nat /\ Cardinality(T) \in Nat
         /\ Cardinality(S) <= Cardinality(T)
         /\ Cardinality(S) = Cardinality(T) => S = T
BY FS_Subset, FS_CardinalityType

(* One more element counts one more at most. *)
LEMMA AddCard ==
  ASSUME NEW S, IsFiniteSet(S), NEW x
  PROVE  /\ IsFiniteSet(S \cup {x}) /\ Cardinality(S) \in Nat /\ Cardinality(S \cup {x}) \in Nat
         /\ Cardinality(S \cup {x}) <= Cardinality(S) + 1
<1>1. IsFiniteSet(S \cup {x}) /\ Cardinality(S \cup {x}) = IF x \in S THEN Cardinality(S) ELSE Cardinality(S) + 1
  BY FS_AddElement
<1>2. Cardinality(S) \in Nat
  BY FS_CardinalityType
<1> QED BY <1>1, <1>2

(* Every set of decisions is finite, and so is every set of venues. *)
LEMMA DecisionsFinite ==
  /\ \A S \in SUBSET Decisions : IsFiniteSet(S) /\ Cardinality(S) \in Nat
  /\ \A r : \A S \in SUBSET Slots(r) : IsFiniteSet(S) /\ Cardinality(S) \in Nat
<1>1. \A S \in SUBSET Decisions : IsFiniteSet(S) /\ Cardinality(S) \in Nat
  BY SubsetCard
<1>2. IsFiniteSet(Decisions \cup {NoDecision})
  BY FS_AddElement
<1>3. ASSUME NEW r, NEW S \in SUBSET Slots(r) PROVE IsFiniteSet(S) /\ Cardinality(S) \in Nat
  <2>1. S \subseteq Decisions \cup {NoDecision}
    BY DEF Slots, HeldVenues, Reconciling, VenueOf, Positions, HeldIn
  <2> QED BY <1>2, <2>1, SubsetCard
<1> QED BY <1>1, <1>3

(* reservationVersion counts every insert and every release: it never goes     *)
(* back, and it stands still only if the ledger does.                         *)
LEMMA VersionFences ==
  ASSUME NEW r \in [Decisions -> RowStates], NEW q \in [Decisions -> RowStates], RowStep(r, q)
  PROVE  /\ Version(r) \in Nat /\ Version(q) \in Nat /\ Version(r) <= Version(q)
         /\ Version(r) = Version(q) => r = q
<1> DEFINE N(x) == {d \in Decisions : x[d] # "none"}
           R(x) == {d \in Decisions : x[d] \in Released}
<1>1. N(r) \subseteq N(q) /\ R(r) \subseteq R(q) /\ N(q) \subseteq Decisions /\ R(q) \subseteq Decisions
  BY DEF RowStep, Released, RowStates
<1>2. IsFiniteSet(N(q)) /\ IsFiniteSet(R(q))
  BY <1>1, DecisionsFinite
<1>3. /\ Cardinality(N(r)) \in Nat /\ Cardinality(N(q)) \in Nat
      /\ Cardinality(R(r)) \in Nat /\ Cardinality(R(q)) \in Nat
      /\ Cardinality(N(r)) <= Cardinality(N(q)) /\ Cardinality(R(r)) <= Cardinality(R(q))
      /\ Cardinality(N(r)) = Cardinality(N(q)) => N(r) = N(q)
      /\ Cardinality(R(r)) = Cardinality(R(q)) => R(r) = R(q)
  BY <1>1, <1>2, SubsetCard
<1>4. Version(r) = 1 + Cardinality(N(r)) + Cardinality(R(r))
      /\ Version(q) = 1 + Cardinality(N(q)) + Cardinality(R(q))
  BY DEF Version
<1>5. ASSUME N(r) = N(q), R(r) = R(q) PROVE r = q
  <2>1. ASSUME NEW d \in Decisions PROVE r[d] = q[d]
    <3>1. d \in N(r) <=> d \in N(q)
      BY <1>5
    <3>2. d \in R(r) <=> d \in R(q)
      BY <1>5
    <3> QED BY <3>1, <3>2 DEF RowStep, Released
  <2> QED BY <2>1
<1> HIDE DEF N, R
<1> QED BY <1>3, <1>4, <1>5

-----------------------------------------------------------------------------
(* What no step of the order's path or of the ledger's releases can add to.    *)
Shrinks ==
  /\ UNCHANGED setup
  /\ RowStep(row, row')
  /\ row' = row => Unheld' \subseteq Unheld
  /\ \A k \in Days : CountedOn(k)' \subseteq CountedOn(k)
  /\ Slots(row)' \subseteq Slots(row)

(* What only shrinks stays within its ceiling. *)
LEMMA ShrinkingKeepsBounds ==
  ASSUME LedgerIInv, LedgerTypeOK', Shrinks
  PROVE  BuysCounted' /\ VenuesCounted'
<1>1. \A k \in Days : CountedOn(k) \subseteq Decisions
  BY DEF CountedOn
<1>2. ASSUME NEW k \in Days PROVE Cardinality(CountedOn(k)') < setup.dailyBuy
  <2>1. Cardinality(CountedOn(k)) < setup.dailyBuy /\ setup.dailyBuy \in Nat
    BY DEF LedgerIInv, BuysCounted, LedgerTypeOK
  <2>2. CountedOn(k)' \subseteq CountedOn(k)
    BY DEF Shrinks
  <2>3. Cardinality(CountedOn(k)') \in Nat /\ Cardinality(CountedOn(k)) \in Nat
        /\ Cardinality(CountedOn(k)') <= Cardinality(CountedOn(k))
    BY <1>1, <2>2, SubsetCard, DecisionsFinite
  <2> QED BY <2>1, <2>3
<1>3. Cardinality(Slots(row)') <= setup.positions
  <2>1. Cardinality(Slots(row)) <= setup.positions /\ setup.positions \in Nat
    BY DEF LedgerIInv, VenuesCounted, LedgerTypeOK
  <2>2. Slots(row)' \subseteq Slots(row)
    BY DEF Shrinks
  <2>3. Cardinality(Slots(row)') \in Nat /\ Cardinality(Slots(row)) \in Nat
        /\ Cardinality(Slots(row)') <= Cardinality(Slots(row))
    BY <2>2, SubsetCard, DecisionsFinite
  <2> QED BY <2>1, <2>3
<1> QED BY <1>2, <1>3 DEF BuysCounted, VenuesCounted, Shrinks

(* A snapshot stays sound while rows are released under their version. *)
LEMMA ShrinkingKeepsSnapshots ==
  ASSUME LedgerIInv, LedgerTypeOK', Shrinks, UNCHANGED issuer
  PROVE  SnapshotSound'
<1>1. row \in [Decisions -> RowStates] /\ row' \in [Decisions -> RowStates] /\ RowStep(row, row')
  BY DEF LedgerIInv, LedgerTypeOK, RowStates, Shrinks
<1>2. /\ Version(row) \in Nat /\ Version(row') \in Nat /\ Version(row) <= Version(row')
      /\ Version(row) = Version(row') => row = row'
  BY <1>1, VersionFences
<1>3. SUFFICES ASSUME NEW i \in Issuers
      PROVE /\ issuer[i].version <= Version(row')
            /\ i \notin setup.late /\ issuer[i].pc = "collected" /\ issuer[i].version = Version(row')
                 => Cardinality(Unheld') <= issuer[i].usage
  BY DEF SnapshotSound, Shrinks
<1>4. issuer[i].version \in Nat /\ issuer[i].usage \in Nat /\ issuer[i].version <= Version(row)
  BY DEF LedgerIInv, LedgerTypeOK, SnapshotSound
<1>5. ASSUME i \notin setup.late, issuer[i].pc = "collected", issuer[i].version = Version(row')
      PROVE  Cardinality(Unheld') <= issuer[i].usage
  <2>1. Version(row) = Version(row') /\ row' = row
    BY <1>2, <1>4, <1>5
  <2>2. Cardinality(Unheld) <= issuer[i].usage
    BY <1>5, <2>1 DEF LedgerIInv, SnapshotSound
  <2>3. Unheld' \subseteq Unheld /\ Unheld \subseteq Decisions
    BY <2>1 DEF Shrinks, Unheld
  <2>4. Cardinality(Unheld') \in Nat /\ Cardinality(Unheld) \in Nat
        /\ Cardinality(Unheld') <= Cardinality(Unheld)
    BY <2>3, SubsetCard, DecisionsFinite
  <2> QED BY <1>4, <2>2, <2>4
<1> QED BY <1>2, <1>4, <1>5

-----------------------------------------------------------------------------
(* The steps of an issued decision. *)
DecisionStep(d) ==
  \/ Prepare(d) \/ Dispatch(d) \/ Send(d) \/ NotDispatched(d)
  \/ FailedConfirmed(d) \/ InDoubt(d) \/ Confirm(d) \/ BrokerMoves(d)
  \/ RecordFill(d) \/ FoldIn(d) \/ OperatorRelease(d) \/ Expire(d)

(* The order's path keeps the decision's rows in agreement. *)
LEMMA DecisionStepKeeps ==
  ASSUME LedgerIInv, NEW d \in Decisions, DecisionStep(d)
  PROVE  LedgerTypeOK' /\ PathOK' /\ OpenIsHeld' /\ IssuersApart'
<1> USE DEF LedgerIInv, LedgerTypeOK, PathOK, OpenIsHeld, IssuersApart, Released
<1>1. CASE Prepare(d)
  BY <1>1 DEF Prepare
<1>2. CASE Dispatch(d)
  BY <1>2 DEF Dispatch
<1>3. CASE Send(d)
  BY <1>3 DEF Send
<1>4. CASE NotDispatched(d)
  BY <1>4 DEF NotDispatched, ReleaseFor
<1>5. CASE FailedConfirmed(d)
  BY <1>5 DEF FailedConfirmed, ReleaseFor
<1>6. CASE InDoubt(d)
  BY <1>6 DEF InDoubt
<1>7. CASE Confirm(d)
  BY <1>7 DEF Confirm
<1>8. CASE BrokerMoves(d)
  BY <1>8 DEF BrokerMoves
<1>9. CASE RecordFill(d)
  BY <1>9 DEF RecordFill, ReleaseFor
<1>10. CASE OperatorRelease(d)
  BY <1>10 DEF OperatorRelease
<1>11. CASE Expire(d)
  BY <1>11 DEF Expire
<1>12. CASE FoldIn(d)
  BY <1>12 DEF FoldIn
<1> QED BY <1>1, <1>2, <1>3, <1>4, <1>5, <1>6, <1>7, <1>8, <1>9, <1>10, <1>11, <1>12 DEF DecisionStep

(* The order's path adds nothing to what is counted. *)
LEMMA DecisionStepShrinks ==
  ASSUME LedgerIInv, NEW d \in Decisions, DecisionStep(d)
  PROVE  Shrinks
<1> USE DEF LedgerIInv, LedgerTypeOK, PathOK, OpenIsHeld, Released, Shrinks, RowStep,
           Unheld, CountedOn, Slots, HeldVenues, Reconciling, VenueOf, Positions, HeldIn,
           ProveZeroFill
<1>1. CASE Prepare(d)
  BY <1>1 DEF Prepare
<1>2. CASE Dispatch(d)
  BY <1>2 DEF Dispatch
<1>3. CASE Send(d)
  BY <1>3 DEF Send
<1>4. CASE NotDispatched(d)
  BY <1>4 DEF NotDispatched, ReleaseFor
<1>5. CASE FailedConfirmed(d)
  BY <1>5 DEF FailedConfirmed, ReleaseFor
<1>6. CASE InDoubt(d)
  BY <1>6 DEF InDoubt
<1>7. CASE Confirm(d)
  BY <1>7 DEF Confirm
<1>8. CASE BrokerMoves(d)
  BY <1>8 DEF BrokerMoves
<1>9. CASE RecordFill(d)
  BY <1>9 DEF RecordFill, ReleaseFor
<1>10. CASE OperatorRelease(d)
  BY <1>10 DEF OperatorRelease
<1>11. CASE Expire(d)
  BY <1>11 DEF Expire
<1>12. CASE FoldIn(d)
  BY <1>12 DEF FoldIn
<1> QED BY <1>1, <1>2, <1>3, <1>4, <1>5, <1>6, <1>7, <1>8, <1>9, <1>10, <1>11, <1>12 DEF DecisionStep

(* The startup sweep and the turn of the day. *)
LEMMA SweepKeeps ==
  ASSUME LedgerIInv, SweepReservations \/ NextDay
  PROVE  LedgerTypeOK' /\ PathOK' /\ OpenIsHeld' /\ IssuersApart' /\ Shrinks
<1> USE DEF LedgerIInv, LedgerTypeOK, PathOK, OpenIsHeld, IssuersApart, Released
<1>1. CASE SweepReservations
  <2>1. LedgerTypeOK' /\ PathOK' /\ OpenIsHeld' /\ IssuersApart'
    BY <1>1 DEF SweepReservations, OrphansReleased, Swept
  <2>2. Shrinks
    BY <1>1 DEF SweepReservations, OrphansReleased, Swept, Shrinks, RowStep, Unheld, CountedOn,
       Slots, HeldVenues, Reconciling, VenueOf, Positions, HeldIn, ProveZeroFill
  <2> QED BY <2>1, <2>2
<1>2. CASE NextDay
  <2>1. LedgerTypeOK' /\ PathOK' /\ OpenIsHeld' /\ IssuersApart'
    BY <1>2 DEF NextDay, Days
  <2>2. Shrinks
    BY <1>2 DEF NextDay, Shrinks, RowStep, Unheld, CountedOn, Slots, HeldVenues,
       Reconciling, VenueOf, Positions, HeldIn, ProveZeroFill
  <2> QED BY <2>1, <2>2
<1> QED BY <1>1, <1>2

(* The issuers' loop up to its transaction, which leaves the ledger alone. *)
IssuerStep(i) ==
  \/ \E d \in Decisions : Begin(i, d)
  \/ ReadVersion(i) \/ Collect(i) \/ CollectLate(i) \/ SnapshotAges(i)
  \/ LimitRefused(i) \/ Recollect(i) \/ Exhausted(i)

(* What an issuer holds in memory. *)
IssuerStates ==
  [pc : {"idle", "start", "read", "collected"}, dec : Decisions \cup {NoDecision},
   day : 0..LastDay, version : Nat, usage : Nat, fresh : BOOLEAN, tries : 0..MaxTries]

(* What an issuer writes down has its type. *)
LEMMA IssuerTypes ==
  ASSUME NEW f \in [Issuers -> IssuerStates], NEW i \in Issuers
  PROVE  /\ \A x \in IssuerStates : [f EXCEPT ![i] = x] \in [Issuers -> IssuerStates]
         /\ \A p \in {"start", "read", "collected"}, v \in Nat :
              /\ [f EXCEPT ![i].pc = p, ![i].version = v] \in [Issuers -> IssuerStates]
              /\ [f EXCEPT ![i].pc = p, ![i].usage = v] \in [Issuers -> IssuerStates]
         /\ [f EXCEPT ![i].fresh = TRUE] \in [Issuers -> IssuerStates]
         /\ [f EXCEPT ![i].fresh = FALSE] \in [Issuers -> IssuerStates]
<1>1. \A x \in IssuerStates : [f EXCEPT ![i] = x] \in [Issuers -> IssuerStates]
  OBVIOUS
<1>2. ASSUME NEW p \in {"start", "read", "collected"}, NEW v \in Nat
      PROVE  [f EXCEPT ![i].pc = p, ![i].version = v] \in [Issuers -> IssuerStates]
  BY ZenonT(30) DEF IssuerStates
<1>3. ASSUME NEW p \in {"start", "read", "collected"}, NEW v \in Nat
      PROVE  [f EXCEPT ![i].pc = p, ![i].usage = v] \in [Issuers -> IssuerStates]
  BY ZenonT(30) DEF IssuerStates
<1>4. [f EXCEPT ![i].fresh = TRUE] \in [Issuers -> IssuerStates]
  BY DEF IssuerStates
<1>5. [f EXCEPT ![i].fresh = FALSE] \in [Issuers -> IssuerStates]
  BY DEF IssuerStates
<1> QED BY <1>1, <1>2, <1>3, <1>4, <1>5

(* An issuer before its transaction changes its own memory only. *)
LEMMA IssuerStepKeeps ==
  ASSUME LedgerIInv, NEW i \in Issuers, IssuerStep(i)
  PROVE  LedgerIInv'
<1>1. UNCHANGED <<setup, day, expired, issued, row, spent, attempt, order, snapshot>>
  BY DEF IssuerStep, Begin, ReadVersion, Collect, CollectLate, SnapshotAges, LimitRefused,
     Recollect, Exhausted
<1>2. Version(row) \in Nat
  BY VersionFences DEF LedgerIInv, LedgerTypeOK, RowStates, RowStep
<1>3. OpenExposure \in Nat /\ Cardinality(Unheld) \in Nat /\ Cardinality(Unheld) <= OpenExposure
  <2>1. Unheld \subseteq {d \in Decisions : order[d] = "filled"}
    BY DEF Unheld
  <2> QED BY <2>1, SubsetCard, DecisionsFinite DEF OpenExposure
<1>4. PathOK' /\ OpenIsHeld' /\ BuysCounted' /\ VenuesCounted'
  BY <1>1 DEF LedgerIInv, PathOK, OpenIsHeld, BuysCounted, VenuesCounted, CountedOn,
     Slots, HeldVenues, Reconciling, VenueOf, Positions, HeldIn, ProveZeroFill
<1>5. Version(row)' = Version(row) /\ Unheld' = Unheld
  BY <1>1 DEF Version, Unheld
<1>6. issuer \in [Issuers -> IssuerStates]
  BY DEF LedgerIInv, LedgerTypeOK, IssuerStates
<1>7. issuer' \in [Issuers -> IssuerStates]
  <2>1. ASSUME NEW d \in Decisions, Begin(i, d) PROVE issuer' \in [Issuers -> IssuerStates]
    <3>1. day \in 0..LastDay
      BY DEF LedgerIInv, LedgerTypeOK, Days
    <3>2. [pc |-> "start", dec |-> d, day |-> day, version |-> 0, usage |-> OpenExposure,
           fresh |-> TRUE, tries |-> 0] \in IssuerStates
      BY <1>3, <3>1 DEF IssuerStates
    <3>3. issuer' = [issuer EXCEPT ![i] = [pc |-> "start", dec |-> d, day |-> day, version |-> 0,
             usage |-> OpenExposure, fresh |-> TRUE, tries |-> 0]]
      BY <2>1 DEF Begin
    <3> QED BY <1>6, <3>2, <3>3
  <2>2. CASE ReadVersion(i)
    BY <1>2, <1>6, <2>2, IssuerTypes DEF ReadVersion
  <2>3. CASE Collect(i)
    <3> DEFINE f == [issuer EXCEPT ![i].pc = "collected", ![i].usage = OpenExposure]
    <3>1. f \in [Issuers -> IssuerStates]
      BY <1>3, <1>6, IssuerTypes
    <3>2. issuer' = [f EXCEPT ![i].fresh = TRUE]
      BY <2>3 DEF Collect
    <3> HIDE DEF f
    <3> QED BY <3>1, <3>2, IssuerTypes
  <2>4. CASE CollectLate(i)
    BY <1>2, <1>6, <2>4, IssuerTypes DEF CollectLate
  <2>5. CASE SnapshotAges(i)
    BY <1>6, <2>5, IssuerTypes DEF SnapshotAges
  <2>6. CASE LimitRefused(i) \/ Exhausted(i)
    <3>1. Idle \in IssuerStates
      BY DEF Idle, IssuerStates
    <3> QED BY <1>6, <2>6, <3>1 DEF LimitRefused, Exhausted
  <2>7. CASE Recollect(i)
    BY <1>6, <2>7 DEF Recollect, IssuerStates
  <2> QED BY <2>1, <2>2, <2>3, <2>4, <2>5, <2>6, <2>7 DEF IssuerStep
<1>8. LedgerTypeOK'
  BY <1>1, <1>7 DEF LedgerIInv, LedgerTypeOK, IssuerStates
<1>9. IssuersApart' /\ SnapshotSound'
  <2> USE <1>1, <1>2, <1>3, <1>5 DEF LedgerIInv, LedgerTypeOK, Idle
  <2>1. ASSUME NEW d \in Decisions, Begin(i, d)
        PROVE  IssuersApart' /\ SnapshotSound'
    <3>1. IssuersApart'
      BY <2>1 DEF Begin, Days, IssuersApart
    <3>2. SnapshotSound'
      BY <2>1 DEF Begin, Days, SnapshotSound
    <3> QED BY <3>1, <3>2
  <2>2. CASE ReadVersion(i)
    <3>1. IssuersApart'
      BY <2>2 DEF ReadVersion, IssuersApart
    <3>2. SnapshotSound'
      BY <2>2 DEF ReadVersion, SnapshotSound
    <3> QED BY <3>1, <3>2
  <2>3. CASE Collect(i)
    <3>1. IssuersApart'
      BY <2>3 DEF Collect, IssuersApart
    <3>2. SnapshotSound'
      BY <2>3 DEF Collect, SnapshotSound
    <3> QED BY <3>1, <3>2
  <2>4. CASE CollectLate(i)
    <3>1. IssuersApart'
      BY <2>4 DEF CollectLate, IssuersApart
    <3>2. SnapshotSound'
      BY <2>4 DEF CollectLate, SnapshotSound
    <3> QED BY <3>1, <3>2
  <2>5. CASE SnapshotAges(i)
    <3>1. IssuersApart'
      BY <2>5 DEF SnapshotAges, IssuersApart
    <3>2. SnapshotSound'
      BY <2>5 DEF SnapshotAges, SnapshotSound
    <3> QED BY <3>1, <3>2
  <2>6. CASE LimitRefused(i)
    <3>1. IssuersApart'
      BY <2>6 DEF LimitRefused, IssuersApart
    <3>2. SnapshotSound'
      BY <2>6 DEF LimitRefused, SnapshotSound
    <3> QED BY <3>1, <3>2
  <2>7. CASE Recollect(i)
    <3>1. IssuersApart'
      BY <2>7 DEF Recollect, IssuersApart
    <3>2. SnapshotSound'
      BY <2>7 DEF Recollect, SnapshotSound
    <3> QED BY <3>1, <3>2
  <2>8. CASE Exhausted(i)
    <3>1. IssuersApart'
      BY <2>8 DEF Exhausted, IssuersApart
    <3>2. SnapshotSound'
      BY <2>8 DEF Exhausted, SnapshotSound
    <3> QED BY <3>1, <3>2
  <2> QED BY <2>1, <2>2, <2>3, <2>4, <2>5, <2>6, <2>7, <2>8 DEF IssuerStep
<1> QED BY <1>4, <1>8, <1>9 DEF LedgerIInv

-----------------------------------------------------------------------------
(* RecordDecisionAndReserve's commit. *)
LEMMA IssueFacts ==
  ASSUME LedgerIInv, NEW i \in Issuers, Issue(i)
  PROVE  LET d == issuer[i].dec IN
         /\ d \in Decisions /\ issued[d] = 0 /\ row[d] = "none" /\ order[d] = "none"
         /\ snapshot[d] = "none" /\ Swept(row)[d] = "none"
         /\ issuer[i].day = day /\ day \in Days
         /\ issued' = [issued EXCEPT ![d] = day]
         /\ row' = [Swept(row) EXCEPT ![d] = "HELD"]
         /\ Swept(row) \in [Decisions -> RowStates]
         /\ RowStep(row, row') /\ row' # row
         /\ UNCHANGED <<setup, day, expired, spent, attempt, order, snapshot>>
BY DEF LedgerIInv, LedgerTypeOK, PathOK, IssuersApart, Issue, Reservable, WithinDailyBuy,
   Swept, RowStep, RowStates, Released

(* The transaction inserts a row the ceilings leave room for. *)
LEMMA IssueKeeps ==
  ASSUME LedgerIInv, NEW i \in Issuers, Issue(i)
  PROVE  LedgerIInv'
<1> DEFINE d == issuer[i].dec
           r == Swept(row)
<1>1. /\ d \in Decisions /\ issued[d] = 0 /\ row[d] = "none" /\ order[d] = "none"
      /\ snapshot[d] = "none" /\ r[d] = "none" /\ issuer[i].day = day /\ day \in Days
      /\ issued' = [issued EXCEPT ![d] = day] /\ row' = [r EXCEPT ![d] = "HELD"]
      /\ r \in [Decisions -> RowStates] /\ RowStep(row, row') /\ row' # row
      /\ UNCHANGED <<setup, day, expired, spent, attempt, order, snapshot>>
      /\ issuer' = [issuer EXCEPT ![i] = Idle]
  BY IssueFacts DEF Issue
<1>2. LedgerTypeOK'
  BY <1>1 DEF LedgerIInv, LedgerTypeOK, RowStates, Days, Idle
<1>3. PathOK' /\ OpenIsHeld'
  BY <1>1 DEF LedgerIInv, LedgerTypeOK, PathOK, OpenIsHeld, Swept, Days, Released
<1>4. IssuersApart'
  BY <1>1 DEF LedgerIInv, LedgerTypeOK, IssuersApart, Idle, Days
<1>5. SnapshotSound'
  <2>1. /\ Version(row) \in Nat /\ Version(row') \in Nat /\ Version(row) < Version(row')
    <3>1. row \in [Decisions -> RowStates] /\ row' \in [Decisions -> RowStates]
      BY <1>2 DEF LedgerIInv, LedgerTypeOK, RowStates
    <3>2. /\ Version(row) \in Nat /\ Version(row') \in Nat /\ Version(row) <= Version(row')
          /\ Version(row) = Version(row') => row = row'
      BY <1>1, <3>1, VersionFences
    <3> QED BY <1>1, <3>2
  <2> QED BY <1>1, <2>1 DEF LedgerIInv, LedgerTypeOK, SnapshotSound, Idle
<1>6. ASSUME NEW k \in Days PROVE Cardinality(CountedOn(k)') < setup.dailyBuy
  <2>1. setup.dailyBuy \in Nat /\ Cardinality(CountedOn(k)) < setup.dailyBuy
    BY DEF LedgerIInv, LedgerTypeOK, BuysCounted
  <2>2. CASE k # day
    <3>1. CountedOn(k)' \subseteq CountedOn(k) /\ CountedOn(k) \subseteq Decisions
      BY <1>1, <2>2 DEF CountedOn, Swept, ProveZeroFill, LedgerIInv, LedgerTypeOK, PathOK
    <3> QED BY <2>1, <3>1, SubsetCard, DecisionsFinite
  <2>3. CASE k = day
    <3> DEFINE X == HeldIn(r) \cup
             {x \in Decisions : r[x] \in Released /\ issued[x] = day /\ ~ProveZeroFill(r, x)}
    <3>1. Cardinality(X) + 1 < setup.dailyBuy
      BY DEF Issue, Reservable, WithinDailyBuy, DailyBuyTotal
    <3>2. X \subseteq Decisions
      BY DEF HeldIn
    <3>3. CountedOn(k)' \subseteq X \cup {d}
      BY <1>1, <2>3 DEF CountedOn, HeldIn, ProveZeroFill, RowStates
    <3> HIDE DEF X, d
    <3>4. IsFiniteSet(X) /\ Cardinality(X) \in Nat /\ IsFiniteSet(X \cup {d})
          /\ Cardinality(X \cup {d}) <= Cardinality(X) + 1
      BY <3>2, DecisionsFinite, AddCard
    <3>5. Cardinality(CountedOn(k)') \in Nat /\ Cardinality(X \cup {d}) \in Nat
          /\ Cardinality(CountedOn(k)') <= Cardinality(X \cup {d})
      BY <3>3, <3>4, SubsetCard
    <3> QED BY <2>1, <3>1, <3>4, <3>5
  <2> QED BY <2>2, <2>3
<1>7. Cardinality(Slots(row)') <= setup.positions
  <2> DEFINE H == HeldVenues(r)
             X == ReconciledExtraSlots(r, d)
             v == VenueOf(d)
  <2>1. setup.positions \in Nat /\ Cardinality(Slots(row)) <= setup.positions
    BY DEF LedgerIInv, LedgerTypeOK, VenuesCounted
  <2>2. H \cup Reconciling \subseteq Slots(row)
    BY DEF Slots, HeldVenues, HeldIn, Swept
  <2>3. Slots(row)' \subseteq H \cup {v} \cup Reconciling
    BY <1>1 DEF Slots, HeldVenues, HeldIn, VenueOf, Positions, Reconciling
  <2>4. WithinOpenPositions(r, d)
    BY DEF Issue, Reservable
  <2>5. CASE v \in H
    <3>1. Slots(row)' \subseteq Slots(row)
      BY <2>2, <2>3, <2>5
    <3> QED BY <2>1, <3>1, SubsetCard, DecisionsFinite
  <2>6. CASE Cardinality(H) + Cardinality(X) + 1 <= setup.positions
    <3>1. /\ H \subseteq Slots(r) /\ X \subseteq Slots(r) /\ H \cap X = {}
          /\ H \cup {v} \cup Reconciling = (H \cup X) \cup {v}
      BY DEF Slots, ReconciledExtraSlots
    <3> HIDE DEF d, r, H, X, v
    <3>2. /\ IsFiniteSet(H) /\ IsFiniteSet(X) /\ IsFiniteSet(H \cup X)
          /\ Cardinality(H) \in Nat /\ Cardinality(X) \in Nat
          /\ Cardinality(H \cup X) \in Nat
      BY <3>1, DecisionsFinite
    <3>3. Cardinality(H \cup X) = Cardinality(H) + Cardinality(X)
      <4>1. Cardinality(H \cup X) = Cardinality(H) + Cardinality(X) - Cardinality(H \cap X)
        BY <3>2, FS_Union
      <4>2. Cardinality(H \cap X) = 0
        BY <3>1, FS_EmptySet
      <4> QED BY <3>2, <4>1, <4>2
    <3>4. /\ IsFiniteSet((H \cup X) \cup {v})
          /\ Cardinality((H \cup X) \cup {v}) \in Nat
          /\ Cardinality((H \cup X) \cup {v}) <= Cardinality(H \cup X) + 1
      BY <3>2, AddCard
    <3>5. /\ Cardinality(Slots(row)') \in Nat
          /\ Cardinality(Slots(row)') <= Cardinality((H \cup X) \cup {v})
      BY <2>3, <3>1, <3>4, SubsetCard
    <3> QED BY <2>1, <2>6, <3>2, <3>3, <3>4, <3>5
  <2> QED BY <2>4, <2>5, <2>6 DEF WithinOpenPositions
<1> QED BY <1>1, <1>2, <1>3, <1>4, <1>5, <1>6, <1>7 DEF LedgerIInv, BuysCounted, VenuesCounted

(* What LedgerNext can do, by the lemma that covers it. *)
LEMMA LedgerStepCases ==
  ASSUME LedgerNext
  PROVE  \/ \E i \in Issuers : IssuerStep(i) \/ Issue(i)
         \/ \E d \in Decisions : DecisionStep(d)
         \/ SweepReservations \/ NextDay
BY DEF LedgerNext, IssuerStep, DecisionStep

(* The order's path touches no issuer and no configuration. *)
LEMMA DecisionStepFrame ==
  ASSUME NEW d \in Decisions, DecisionStep(d)
  PROVE  UNCHANGED <<setup, day, issuer>>
BY DEF DecisionStep, Prepare, Dispatch, Send, NotDispatched, FailedConfirmed, InDoubt, Confirm,
   BrokerMoves, RecordFill, FoldIn, OperatorRelease, Expire

(* The invariant, over every step of the ledger. *)
LEMMA LedgerIInvStep == LedgerIInv /\ [LedgerNext]_ledgerVars => LedgerIInv'
<1> SUFFICES ASSUME LedgerIInv, [LedgerNext]_ledgerVars PROVE LedgerIInv'
  OBVIOUS
<1>1. ASSUME NEW d \in Decisions, DecisionStep(d) PROVE LedgerIInv'
  BY <1>1, DecisionStepKeeps, DecisionStepShrinks, DecisionStepFrame, ShrinkingKeepsBounds,
     ShrinkingKeepsSnapshots DEF LedgerIInv
<1>2. CASE SweepReservations \/ NextDay
  <2>1. UNCHANGED issuer
    BY <1>2 DEF SweepReservations, NextDay
  <2> QED BY <1>2, <2>1, SweepKeeps, ShrinkingKeepsBounds, ShrinkingKeepsSnapshots DEF LedgerIInv
<1>3. CASE UNCHANGED ledgerVars
  <2> USE <1>3 DEF ledgerVars, LedgerIInv
  <2>1. LedgerTypeOK' /\ PathOK' /\ OpenIsHeld' /\ IssuersApart'
    BY DEF LedgerTypeOK, PathOK, OpenIsHeld, IssuersApart
  <2>2. SnapshotSound'
    BY DEF SnapshotSound, Version, Unheld
  <2>3. BuysCounted' /\ VenuesCounted'
    BY DEF BuysCounted, VenuesCounted, CountedOn, Slots, HeldVenues, Reconciling, VenueOf,
       Positions, HeldIn, ProveZeroFill
  <2> QED BY <2>1, <2>2, <2>3
<1>4. CASE LedgerNext
  BY <1>1, <1>2, <1>4, LedgerStepCases, IssuerStepKeeps, IssueKeeps
<1> QED BY <1>3, <1>4

(* An empty ledger. *)
LEMMA LedgerIInvInit == LedgerInit => LedgerIInv
<1> SUFFICES ASSUME LedgerInit PROVE LedgerIInv
  OBVIOUS
<1>1. LedgerTypeOK
  BY DEF LedgerInit, LedgerTypeOK, Idle, Days
<1>2. PathOK /\ OpenIsHeld /\ IssuersApart
  BY DEF LedgerInit, PathOK, OpenIsHeld, IssuersApart, Idle
<1>3. SnapshotSound
  <2>1. Version(row) \in Nat
    BY <1>1, VersionFences DEF LedgerTypeOK, RowStates, RowStep
  <2> QED BY <2>1 DEF LedgerInit, SnapshotSound, Idle
<1>4. BuysCounted
  <2>1. \A k \in Days : CountedOn(k) = {}
    BY DEF LedgerInit, CountedOn, Days
  <2>2. setup.dailyBuy \in Nat \ {0}
    BY <1>1 DEF LedgerTypeOK
  <2>3. 0 < setup.dailyBuy /\ Cardinality({}) = 0
    BY <2>2, FS_EmptySet
  <2> QED BY <2>1, <2>3 DEF BuysCounted
<1>5. VenuesCounted
  <2>1. Slots(row) = {}
    BY DEF LedgerInit, Slots, HeldVenues, Reconciling, HeldIn, Positions
  <2> QED BY <1>1, <2>1, FS_EmptySet DEF VenuesCounted, LedgerTypeOK
<1> QED BY <1>1, <1>2, <1>3, <1>4, <1>5 DEF LedgerIInv

(* The strengthening says what LedgerInv says. *)
LEMMA LedgerIInvImplies == LedgerIInv => LedgerInv
<1> SUFFICES ASSUME LedgerIInv PROVE LedgerInv
  OBVIOUS
<1>1. LedgerTypeOK
  BY DEF LedgerIInv
<1>2. ASSUME NEW k \in Days
      PROVE  Cardinality({d \in Decisions : issued[d] = k
                   /\ order[d] \in {"wire", "live", "filled", "exited"}}) < setup.dailyBuy
  <2> DEFINE B == {d \in Decisions : issued[d] = k
                   /\ order[d] \in {"wire", "live", "filled", "exited"}}
  <2>1. B \subseteq CountedOn(k) /\ CountedOn(k) \subseteq Decisions
    BY DEF CountedOn, LedgerIInv, LedgerTypeOK, PathOK, ProveZeroFill, Days
  <2>2. setup.dailyBuy \in Nat /\ Cardinality(CountedOn(k)) < setup.dailyBuy
    BY DEF LedgerIInv, LedgerTypeOK, BuysCounted
  <2> HIDE DEF B
  <2>3. Cardinality(B) < setup.dailyBuy
    BY <2>1, <2>2, SubsetCard, DecisionsFinite
  <2> QED BY <2>3 DEF B
<1>3. Cardinality({VenueOf(d) : d \in {x \in Decisions :
                 order[x] \in {"wire", "live", "filled"}}}) <= setup.positions
  <2> DEFINE V == {VenueOf(d) : d \in {x \in Decisions : order[x] \in {"wire", "live", "filled"}}}
  <2>1. V \subseteq Slots(row)
    BY DEF Slots, HeldVenues, Reconciling, HeldIn, Positions, LedgerIInv, OpenIsHeld
  <2>2. setup.positions \in Nat /\ Cardinality(Slots(row)) <= setup.positions
    BY DEF LedgerIInv, LedgerTypeOK, VenuesCounted
  <2> HIDE DEF V
  <2>3. Cardinality(V) <= setup.positions
    BY <2>1, <2>2, SubsetCard, DecisionsFinite
  <2> QED BY <2>3 DEF V
<1> QED BY <1>1, <1>2, <1>3 DEF LedgerInv, DailyBuyBounded, PositionsBounded

(* RecordDecisionAndReserve, for any issuers, decisions and ceilings, and       *)
(* however fills, releases and days fall between a snapshot and its            *)
(* transaction: no day buys and no account holds more than its ceiling.        *)
THEOREM LedgerIsBounded == LedgerSpec => []LedgerInv
BY LedgerIInvInit, LedgerIInvStep, LedgerIInvImplies, PTL DEF LedgerSpec

-----------------------------------------------------------------------------
(* The refinement.  Only an issuance adds to what is committed. *)
LEMMA OnlyIssueCommits ==
  ASSUME LedgerIInv,
         \/ \E i \in Issuers : IssuerStep(i)
         \/ \E d \in Decisions : DecisionStep(d)
         \/ SweepReservations \/ NextDay
  PROVE  setup' = setup /\ Committed' \subseteq Committed
<1>1. ASSUME NEW i \in Issuers, IssuerStep(i) PROVE setup' = setup /\ Committed' \subseteq Committed
  BY <1>1 DEF IssuerStep, Begin, ReadVersion, Collect, CollectLate, SnapshotAges, LimitRefused,
     Recollect, Exhausted, Committed, HeldIn
<1>2. ASSUME NEW d \in Decisions, DecisionStep(d) PROVE setup' = setup /\ Committed' \subseteq Committed
  <2> USE DEF LedgerIInv, LedgerTypeOK, Committed, HeldIn
  <2>1. CASE Prepare(d)
    BY <2>1 DEF Prepare
  <2>2. CASE Dispatch(d)
    BY <2>2 DEF Dispatch
  <2>3. CASE Send(d)
    BY <2>3 DEF Send
  <2>4. CASE NotDispatched(d)
    BY <2>4 DEF NotDispatched, ReleaseFor
  <2>5. CASE FailedConfirmed(d)
    BY <2>5 DEF FailedConfirmed, ReleaseFor
  <2>6. CASE InDoubt(d)
    BY <2>6 DEF InDoubt
  <2>7. CASE Confirm(d)
    BY <2>7 DEF Confirm
  <2>8. CASE BrokerMoves(d)
    BY <2>8 DEF BrokerMoves
  <2>9. CASE RecordFill(d)
    BY <2>9 DEF RecordFill, ReleaseFor
  <2>10. CASE OperatorRelease(d)
    BY <2>10 DEF OperatorRelease
  <2>11. CASE Expire(d)
    BY <2>11 DEF Expire
  <2>12. CASE FoldIn(d)
    BY <2>12 DEF FoldIn
  <2> QED BY <1>2, <2>1, <2>2, <2>3, <2>4, <2>5, <2>6, <2>7, <2>8, <2>9, <2>10, <2>11, <2>12 DEF DecisionStep
<1>3. CASE SweepReservations \/ NextDay
  BY <1>3 DEF SweepReservations, NextDay, OrphansReleased, Swept, Committed, HeldIn
<1> QED BY <1>1, <1>2, <1>3

(* An issuance is judged against everything committed at that instant: what    *)
(* the sweep left held, and the positions no hold stands for, which its        *)
(* snapshot saw.                                                              *)
LEMMA IssueHasRoom ==
  ASSUME LedgerIInv, NEW i \in Issuers, Issue(i), setup.late = {}
  PROVE  LET d == issuer[i].dec
             kept == Committed \cap Committed'
         IN  /\ d \in Decisions /\ d \notin Committed /\ setup' = setup
             /\ Committed' = kept \cup {d}
             /\ Cardinality(kept) + 1 < setup.exposure
<1> DEFINE d == issuer[i].dec
           r == Swept(row)
           kept == Committed \cap Committed'
<1>1. /\ d \in Decisions /\ row[d] = "none" /\ order[d] = "none" /\ r[d] = "none"
      /\ row' = [r EXCEPT ![d] = "HELD"] /\ r \in [Decisions -> RowStates]
      /\ UNCHANGED <<setup, order>>
  BY IssueFacts
<1>2. d \notin Committed
  BY <1>1 DEF Committed, HeldIn
<1>3. Committed' = kept \cup {d}
  BY <1>1, <1>2 DEF Committed, HeldIn, Swept
<1>4. kept \subseteq HeldIn(r) \cup Unheld
  BY <1>1, <1>2 DEF Committed, HeldIn, Unheld, Swept, LedgerIInv, OpenIsHeld, PathOK
<1>5. Cardinality(Unheld) <= issuer[i].usage /\ issuer[i].usage \in Nat
  BY DEF LedgerIInv, LedgerTypeOK, SnapshotSound, Issue, PrecheckPasses
<1>6. issuer[i].usage + Cardinality(HeldIn(r)) + 1 < setup.exposure /\ setup.exposure \in Nat
  BY DEF Issue, Reservable, WithinLimits, LedgerIInv, LedgerTypeOK
<1> DEFINE H == HeldIn(r)
<1>7. H \subseteq Decisions /\ Unheld \subseteq Decisions
  BY DEF HeldIn, Unheld
<1> HIDE DEF H
<1>8. Cardinality(H \cup Unheld) <= Cardinality(H) + Cardinality(Unheld)
      /\ IsFiniteSet(H \cup Unheld) /\ Cardinality(H) \in Nat /\ Cardinality(Unheld) \in Nat
      /\ Cardinality(H \cup Unheld) \in Nat
  <2>1. IsFiniteSet(H) /\ IsFiniteSet(Unheld) /\ IsFiniteSet(H \cap Unheld)
        /\ IsFiniteSet(H \cup Unheld)
    BY <1>7, DecisionsFinite
  <2>2. Cardinality(H \cup Unheld) = Cardinality(H) + Cardinality(Unheld) - Cardinality(H \cap Unheld)
    BY <2>1, FS_Union
  <2>3. Cardinality(H) \in Nat /\ Cardinality(Unheld) \in Nat /\ Cardinality(H \cap Unheld) \in Nat
        /\ Cardinality(H \cup Unheld) \in Nat
    BY <2>1, FS_CardinalityType
  <2> QED BY <2>1, <2>2, <2>3
<1>9. Cardinality(kept) \in Nat /\ Cardinality(kept) <= Cardinality(H \cup Unheld)
  BY <1>4, <1>8, SubsetCard DEF H
<1>10. Cardinality(kept) + 1 < setup.exposure
  <2>1. issuer[i].usage + Cardinality(H) + 1 < setup.exposure
    BY <1>6 DEF H
  <2> HIDE DEF kept
  <2> QED BY <1>5, <1>6, <1>8, <1>9, <2>1
<1> QED BY <1>1, <1>2, <1>3, <1>10

(* The abstract ledger counts as the concrete one does. *)
LEMMA RoomCounts == \A S : Room!Cardinality(S) = Cardinality(S)
BY DEF Room!Cardinality, Cardinality

(* An issuance is an abstract commit; every other step drops or stutters. *)
LEMMA LedgerStepRefines ==
  ASSUME LedgerIInv, LedgerNext
  PROVE  Room!Next \/ UNCHANGED <<setup.exposure, IF setup.late = {} THEN Committed ELSE {}>>
<1>1. setup' = setup
  BY LedgerStepCases, OnlyIssueCommits, IssueFacts
<1>2. CASE setup.late # {}
  BY <1>1, <1>2
<1>3. CASE setup.late = {} /\ Committed' \subseteq Committed
  <2>1. CASE Committed' = Committed
    BY <1>1, <1>3, <2>1
  <2>2. CASE Committed' # Committed
    <3> DEFINE ds == Committed \ Committed'
    <3>1. /\ ds # {} /\ ds \subseteq Committed /\ ds \in SUBSET Decisions
          /\ Committed' = Committed \ ds
      BY <1>3, <2>2 DEF Committed, HeldIn
    <3>2. Room!Drop(ds)
      BY <1>1, <1>3, <3>1 DEF Room!Drop
    <3> QED BY <1>1, <3>1, <3>2 DEF Room!Next
  <2> QED BY <2>1, <2>2
<1>4. ASSUME setup.late = {}, NEW i \in Issuers, Issue(i)
      PROVE  Room!Next
  <2> DEFINE d == issuer[i].dec
             kept == Committed \cap Committed'
             ds == Committed \ Committed'
  <2>1. /\ d \in Decisions /\ d \notin Committed
        /\ Committed' = kept \cup {d} /\ Cardinality(kept) + 1 < setup.exposure
    BY <1>4, IssueHasRoom
  <2>2. kept = Committed \ ds /\ ds \subseteq Committed /\ ds \in SUBSET Decisions
    BY DEF Committed, HeldIn
  <2>3. CASE ds = {}
    <3>1. Room!Commit(d)
      <4>1. kept = Committed
        BY <2>3
      <4> QED BY <1>1, <1>4, <2>1, <4>1, RoomCounts DEF Room!Commit
    <3> QED BY <1>1, <2>1, <3>1 DEF Room!Next
  <2>4. CASE ds # {}
    <3>1. Room!Swap(ds, d)
      BY <1>1, <1>4, <2>1, <2>2, <2>4, RoomCounts DEF Room!Swap
    <3> QED BY <1>1, <2>1, <2>2, <3>1 DEF Room!Next
  <2> QED BY <2>3, <2>4
<1> QED BY <1>1, <1>2, <1>3, <1>4, LedgerStepCases, OnlyIssueCommits

(* The ledger with its versions, snapshots, sweeps and releases implements      *)
(* module Headroom: each issuance is judged as if it had seen the whole        *)
(* account at the instant it commits.                                          *)
THEOREM LedgerKeepsHeadroom == LedgerSpec => ImplementsHeadroom
<1>1. LedgerInit => Room!Init
  BY DEF LedgerInit, Room!Init, Committed, HeldIn
<1>2. LedgerIInv /\ [LedgerNext]_ledgerVars
        => [Room!Next]_<<setup.exposure, IF setup.late = {} THEN Committed ELSE {}>>
  <2>1. CASE UNCHANGED ledgerVars
    BY <2>1 DEF ledgerVars, Committed, HeldIn
  <2> QED BY <2>1, LedgerStepRefines
<1> QED BY <1>1, <1>2, LedgerIInvInit, LedgerIInvStep, PTL DEF LedgerSpec, ImplementsHeadroom, Room!Spec

HIDE ReservationsAssumption DEF ledger, path

-----------------------------------------------------------------------------
(* The monetary risk buckets (module RiskBuckets).                            *)

(* The types of the tables. *)
BucketRows == [state : {"none", "HELD", "FILLED", "RELEASED"}, quantity : Nat, reserved : Nat,
               held : Nat, filled : Nat]
Evidence == [quantity : Nat, cum : Nat, transfer : Nat, known : BOOLEAN]
BucketOrders == [state : {"none", "ACTIVE", "RELEASED"}, cum : Nat, fills : SUBSET Evidence]
OwnerRows == [state : {"none", "active", "released"}, bound : BOOLEAN, over : BOOLEAN,
              unknown : BOOLEAN, sealed : BOOLEAN,
              approval : {"none", "current", "resealed"}, tightened : BOOLEAN]
Tables == [row : [Entries -> BucketRows], order : [Entries -> BucketOrders],
           own : [Owners -> OwnerRows], scope : SUBSET Owners,
           reconcile : SUBSET {SymbolOf(o) : o \in Owners}]

(* A row holds no more than it reserved, has filled at least what its order   *)
(* was allocated, and exists before the order and the fills that name it.     *)
RowOK(b, d) ==
  /\ b.row[d].held <= b.row[d].reserved
  /\ b.order[d].cum <= b.row[d].quantity /\ b.row[d].quantity <= Quantity
  /\ b.row[d].filled >= Allocated(b.row[d], b.order[d].cum)
  /\ b.row[d].state = "none" => b.row[d] = NoReservation /\ b.order[d].state = "none"
  /\ b.row[d].state # "none" =>
       /\ b.row[d].quantity > 0 /\ b.row[d].reserved > 0
       /\ b.own[OwnerOf(d)].state # "none"
  /\ b.order[d].state = "none" => b.order[d].cum = 0 /\ b.order[d].fills = {}
  /\ b.order[d].fills # {} => b.order[d].cum > 0

(* An approval of the present seal was given for the latches as they are. *)
ApprovalOK(w) == w.approval = "current" /\ w.sealed => ~w.tightened

TablesOK(b) ==
  /\ b \in Tables
  /\ \A d \in Entries : RowOK(b, d)
  /\ \A o \in Owners : ApprovalOK(b.own[o])

(* Orders and fills are of decisions that were admitted. *)
SentOK ==
  \A d \in Entries : /\ sent[d] = "wire" => book.row[d].state # "none"
                     /\ seen[d].cum <= book.row[d].quantity

(* An approval names a lock and an event that have been, and the last ones    *)
(* only if nothing was lost since.                                            *)
LockOK ==
  /\ \/ lock.approved[1] < lock.seq
     \/ lock.approved[1] = lock.seq /\ lock.approved[2] <= lock.event
  /\ lock.open /\ lock.approved = <<lock.seq, lock.event>> => ~lock.tightened

(* CapOrLatched, with the limit that holds the usage named: every recorded    *)
(* one, or that of a row whose fills keep it recorded.                        *)
Capped(b, relieved) ==
  \/ BucketLatched(b) \/ b.scope # {}
  \/ Usage(b) <= relieved
  \/ \A e \in Recorded(b) : Usage(b) <= config.limit[e]
  \/ \E e \in Entries : b.row[e].filled # 0 /\ Usage(b) <= config.limit[e]

LossLocks == [open : BOOLEAN, seq : Nat, event : Nat, approved : Nat \X Nat, tightened : BOOLEAN]

Frames ==
  /\ config \in Books
  /\ snap \in [Entries -> Nat \cup {-1}]
  /\ sent \in [Entries -> {"no", "wire", "never"}]
  /\ seen \in [Entries -> [cum : 0..Quantity, terminal : BOOLEAN]]
  /\ flat \subseteq Owners
  /\ lock \in LossLocks
  /\ forgiven \in Nat /\ lifted \in BOOLEAN

RiskIInv ==
  /\ Frames /\ TablesOK(book) /\ SentOK /\ LockOK
  /\ Capped(book, forgiven)
  /\ WorkingCovered /\ FillCountedOrLatched /\ OneGeneration /\ ReliefIsCurrent
(* ------------------------------- amounts -------------------------------- *)

(* The larger and the smaller of two amounts. *)
LEMMA OfTwo ==
  ASSUME NEW a \in Int, NEW b \in Int
  PROVE  /\ Max({a, b}) = IF a >= b THEN a ELSE b
         /\ Min({a, b}) = IF a <= b THEN a ELSE b
<1>1. \E x \in {a, b} : \A y \in {a, b} : x >= y
  <2>1. CASE a >= b
    BY <2>1
  <2>2. CASE b >= a
    BY <2>2
  <2> QED BY <2>1, <2>2
<1>2. \E x \in {a, b} : \A y \in {a, b} : x <= y
  <2>1. CASE a <= b
    BY <2>1
  <2>2. CASE b <= a
    BY <2>2
  <2> QED BY <2>1, <2>2
<1>3. Max({a, b}) \in {a, b} /\ Max({a, b}) >= a /\ Max({a, b}) >= b
  BY <1>1 DEF Max
<1>4. Min({a, b}) \in {a, b} /\ Min({a, b}) <= a /\ Min({a, b}) <= b
  BY <1>2 DEF Min
<1> QED BY <1>3, <1>4

(* The smallest of some limits is one of them and none is below it. *)
LEMMA MinOfNats ==
  ASSUME NEW S \in SUBSET Nat, S # {}
  PROVE  Min(S) \in S /\ \A x \in S : Min(S) <= x
BY LeastNat DEF Min

(* Quotients of products, which bound every amount below. *)
LEMMA DivFacts ==
  ASSUME NEW a \in Nat, NEW b \in Nat \ {0}
  PROVE  /\ a \div b \in Nat /\ b * (a \div b) \in Nat
         /\ b * (a \div b) <= a /\ a < b * (a \div b) + b
OBVIOUS

(* CeilDiv is the quotient rounded excess. *)
LEMMA CeilFacts ==
  ASSUME NEW a \in Nat, NEW b \in Nat \ {0}
  PROVE  /\ CeilDiv(a, b) \in Nat
         /\ a <= b * CeilDiv(a, b) /\ b * CeilDiv(a, b) < a + b
<1>1. a + b - 1 \in Nat
  OBVIOUS
<1> QED BY <1>1, DivFacts DEF CeilDiv

(* b * x <= b * y + (less than b) means x <= y. *)
LEMMA FactorOut ==
  ASSUME NEW b \in Nat \ {0}, NEW x \in Nat, NEW y \in Nat, b * x < b * y + b
  PROVE  x <= y
<1> SUFFICES ASSUME x >= y + 1 PROVE FALSE
  OBVIOUS
<1>1. PICK k \in Nat : x = y + 1 + k
  <2>1. x - y - 1 \in Nat /\ x = y + 1 + (x - y - 1)
    OBVIOUS
  <2> QED BY <2>1
<1>2. b * x = b * y + b + b * k
  BY <1>1
<1>3. b * k \in Nat /\ b * y \in Nat
  OBVIOUS
<1> QED BY <1>2, <1>3

(* It grows with what is divided. *)
LEMMA CeilMonotone ==
  ASSUME NEW a \in Nat, NEW c \in Nat, a <= c, NEW b \in Nat \ {0}
  PROVE  CeilDiv(a, b) <= CeilDiv(c, b)
<1> DEFINE x == CeilDiv(a, b)
           y == CeilDiv(c, b)
<1>1. x \in Nat /\ y \in Nat /\ b * x < a + b /\ c <= b * y
  BY CeilFacts
<1>2. b * x \in Nat /\ b * y \in Nat
  BY <1>1
<1>3. b * x < b * y + b
  BY <1>1, <1>2
<1> HIDE DEF x, y
<1>4. x <= y
  BY <1>1, <1>3, FactorOut
<1> QED BY <1>4 DEF x, y

(* It leaves an exact quotient alone. *)
LEMMA CeilExact ==
  ASSUME NEW a \in Nat, NEW b \in Nat \ {0}
  PROVE  CeilDiv(a * b, b) = a
<1> DEFINE x == CeilDiv(a * b, b)
<1>0. a * b \in Nat /\ a * b = b * a
  OBVIOUS
<1>1. x \in Nat /\ b * x < a * b + b /\ a * b <= b * x
  BY <1>0, CeilFacts
<1> HIDE DEF x
<1>2. x <= a
  BY <1>0, <1>1, FactorOut
<1>3. b * a < b * x + b
  BY <1>0, <1>1
<1>4. a <= x
  BY <1>1, <1>3, FactorOut
<1>5. x = a
  BY <1>1, <1>2, <1>4
<1> QED BY <1>5 DEF x

(* A share or more is worth something. *)
LEMMA ReservationFacts ==
  ASSUME NEW q \in Nat
  PROVE  ReservationMinor(q) \in Nat /\ (q > 0 => ReservationMinor(q) > 0) /\ ReservationMinor(0) = 0
<1>1. 3 * q \in Nat
  OBVIOUS
<1>2. CeilDiv(3 * q, 2) \in Nat /\ 3 * q <= 2 * CeilDiv(3 * q, 2)
  BY <1>1, CeilFacts
<1>3. CeilDiv(3 * 0, 2) = 0
  BY DEF CeilDiv
<1> QED BY <1>2, <1>3 DEF ReservationMinor

(* The allocation of a reservation grows with the fills, is worth something   *)
(* from the first share on, and is all of it with the last.                   *)
LEMMA AllocatedFacts ==
  ASSUME NEW r \in BucketRows, r.quantity > 0, r.reserved > 0,
         NEW c \in Nat, NEW e \in Nat, c <= e, e <= r.quantity
  PROVE  /\ Allocated(r, c) \in Nat /\ Allocated(r, e) \in Nat
         /\ Allocated(r, c) <= Allocated(r, e) /\ Allocated(r, e) <= r.reserved
         /\ c > 0 => Allocated(r, c) > 0
<1> DEFINE n == r.reserved
           q == r.quantity
<1>0. n \in Nat /\ q \in Nat \ {0} /\ n > 0
  BY DEF BucketRows
<1> HIDE DEF n, q
<1>1. \A x, y \in Nat : x <= y => n * x \in Nat /\ n * x <= n * y
  <2> SUFFICES ASSUME NEW x \in Nat, NEW y \in Nat, x <= y PROVE n * x \in Nat /\ n * x <= n * y
    OBVIOUS
  <2>1. y - x \in Nat
    OBVIOUS
  <2>2. n * (y - x) \in Nat /\ n * x \in Nat
    BY <1>0, <2>1
  <2>3. n * y = n * x + n * (y - x)
    BY <1>0
  <2> QED BY <2>2, <2>3
<1>2. n * c \in Nat /\ n * e \in Nat /\ n * q \in Nat /\ n * c <= n * e /\ n * e <= n * q
  BY <1>0, <1>1 DEF q
<1>3. /\ CeilDiv(n * c, q) \in Nat /\ CeilDiv(n * e, q) \in Nat
      /\ CeilDiv(n * c, q) <= CeilDiv(n * e, q) /\ CeilDiv(n * e, q) <= CeilDiv(n * q, q)
  BY <1>0, <1>2, CeilFacts, CeilMonotone
<1>4. CeilDiv(n * q, q) = n
  BY <1>0, CeilExact
<1>5. c > 0 => CeilDiv(n * c, q) > 0
  <2> SUFFICES ASSUME c > 0, CeilDiv(n * c, q) = 0 PROVE FALSE
    BY <1>3
  <2>1. n * c <= q * 0
    BY <1>0, <1>2, CeilFacts
  <2>2. n * 1 <= n * c
    BY <1>1
  <2> QED BY <1>0, <2>1, <2>2
<1> QED BY <1>0, <1>3, <1>4, <1>5 DEF Allocated, n, q

(* -------------------------------- usage --------------------------------- *)

Amounts(b) == [d \in Entries |-> b.row[d].held + b.row[d].filled]
Present(b) == {d \in Entries : b.row[d].state # "none" /\ ~Departed(b, OwnerOf(d))}

(* A book has finitely many decisions and owners. *)
LEMMA BookFacts ==
  ASSUME config \in Books
  PROVE  /\ IsFiniteSet(Entries) /\ IsFiniteSet(Owners)
         /\ \A d \in Entries : OwnerOf(d) \in Owners /\ config.limit[d] \in Nat
BY RiskAssumption DEF Entries, Owners, OwnerOf

(* The usage of the bucket is a sum over the rows that have not departed. *)
LEMMA UsageIsSum ==
  ASSUME NEW b \in Tables, config \in Books
  PROVE  /\ Usage(b) = SumFunctionOnSet(Amounts(b), Present(b)) /\ Usage(b) \in Nat
         /\ Amounts(b) \in [Entries -> Nat] /\ Present(b) \in SUBSET Entries
         /\ IsFiniteSet(Present(b))
<1>1. Amounts(b) \in [Entries -> Nat]
  BY DEF Tables, BucketRows, Amounts
<1>2. Present(b) \in SUBSET Entries /\ IsFiniteSet(Present(b))
  BY BookFacts, FS_Subset DEF Present
<1>3. Usage(b) = SumFunctionOnSet(Amounts(b), Present(b))
  BY DEF Usage, UsageOf, Amounts, Present
<1> QED BY <1>1, <1>2, <1>3, SumOfNats

(* Usage falls when no row appears and none grows. *)
LEMMA UsageShrinks ==
  ASSUME config \in Books, NEW b \in Tables, NEW c \in Tables,
         Present(c) \subseteq Present(b),
         \A d \in Present(c) :
           c.row[d].held + c.row[d].filled <= b.row[d].held + b.row[d].filled
  PROVE  Usage(c) <= Usage(b)
<1>1. \A d \in Present(c) : Amounts(c)[d] <= Amounts(b)[d]
  BY UsageIsSum DEF Amounts
<1>2. Present(b) \in SUBSET Entries /\ Present(c) \in SUBSET Present(b)
  BY UsageIsSum
<1> QED BY <1>1, <1>2, UsageIsSum, SumGrows

(* A new row adds what it holds. *)
LEMMA UsageGrows ==
  ASSUME config \in Books, NEW b \in Tables, NEW c \in Tables, NEW d \in Entries,
         d \notin Present(b), Present(c) = Present(b) \cup {d},
         \A e \in Entries \ {d} : c.row[e] = b.row[e]
  PROVE  Usage(c) = Usage(b) + c.row[d].held + c.row[d].filled
<1>1. Amounts(c) \in [Entries -> Int] /\ Amounts(b) \in [Entries -> Int]
  BY UsageIsSum
<1>2. Usage(c) = Amounts(c)[d] + SumFunctionOnSet(Amounts(c), Present(c) \ {d})
  BY <1>1, UsageIsSum, SumTakesOut
<1>3. Present(c) \ {d} = Present(b)
  OBVIOUS
<1>4. \A e \in Present(b) : Amounts(c)[e] = Amounts(b)[e]
  BY DEF Amounts, Present
<1>5. SumFunctionOnSet(Amounts(c), Present(b)) = SumFunctionOnSet(Amounts(b), Present(b))
  <2>1. Present(b) \in SUBSET Entries /\ Present(b) \subseteq Entries /\ IsFiniteSet(Present(b))
    BY UsageIsSum
  <2> QED BY <1>1, <1>4, <2>1, SumOfSame
<1>6. Usage(b) \in Nat /\ Usage(b) = SumFunctionOnSet(Amounts(b), Present(b))
  BY UsageIsSum
<1>7. /\ c.row[d].held \in Nat /\ c.row[d].filled \in Nat
      /\ Amounts(c)[d] = c.row[d].held + c.row[d].filled
  BY DEF Tables, BucketRows, Amounts
<1>8. Usage(c) = (c.row[d].held + c.row[d].filled) + Usage(b)
  BY <1>2, <1>3, <1>5, <1>6, <1>7
<1> QED BY <1>6, <1>7, <1>8

(* ------------------------------ operations ------------------------------ *)

(* A new seal changes nothing but the seal. *)
LEMMA SealedFacts ==
  ASSUME NEW b \in Tables, NEW o \in Owners, NEW c, c = Sealed(b, o)
  PROVE  /\ c \in Tables
         /\ c.row = b.row /\ c.order = b.order /\ c.scope = b.scope /\ c.reconcile = b.reconcile
         /\ \A p \in Owners \ {o} : c.own[p] = b.own[p]
         /\ c.own[o].state = b.own[o].state /\ c.own[o].bound = b.own[o].bound
         /\ c.own[o].over = b.own[o].over /\ c.own[o].unknown = b.own[o].unknown
         /\ c.own[o].tightened = b.own[o].tightened
         /\ c.own[o].sealed /\ c.own[o].approval # "current"
<1> DEFINE w == b.own[o]
           v == [w EXCEPT !.sealed = TRUE,
                          !.approval = IF @ = "current" THEN "resealed" ELSE @]
<1>1. w \in OwnerRows /\ b.own \in [Owners -> OwnerRows]
  BY DEF Tables
<1>2. v \in OwnerRows
  BY <1>1 DEF OwnerRows
<1>3. c = [b EXCEPT !.own = [b.own EXCEPT ![o] = v]]
  BY DEF Sealed, Tables
<1>4. v.state = w.state /\ v.bound = w.bound /\ v.over = w.over /\ v.unknown = w.unknown
      /\ v.tightened = w.tightened /\ v.sealed /\ v.approval # "current"
  BY <1>1 DEF OwnerRows
<1> HIDE DEF v
<1>5. c.own = [b.own EXCEPT ![o] = v] /\ c \in Tables
  BY <1>1, <1>2, <1>3 DEF Tables
<1> QED BY <1>1, <1>3, <1>4, <1>5 DEF Tables

(* A latch instead of a transition: the owner is unknown and has no seal. *)
LEMMA LatchFacts ==
  ASSUME NEW b \in Tables, NEW o \in Owners, NEW c, c = LatchFailure(b, o)
  PROVE  /\ c \in Tables
         /\ c.row = b.row /\ c.order = b.order /\ c.scope = b.scope \cup {o}
         /\ \A p \in Owners \ {o} : c.own[p] = b.own[p]
         /\ c.own[o].state = b.own[o].state /\ c.own[o].over = b.own[o].over
         /\ c.own[o].unknown /\ ~c.own[o].sealed
<1> DEFINE w == b.own[o]
           v == [w EXCEPT !.unknown = TRUE, !.sealed = FALSE, !.tightened = TRUE]
<1>1. w \in OwnerRows /\ b.own \in [Owners -> OwnerRows]
  BY DEF Tables
<1>2. v \in OwnerRows
  BY <1>1 DEF OwnerRows
<1>3. c = [[b EXCEPT !.scope = b.scope \cup {o}] EXCEPT !.own = [b.own EXCEPT ![o] = v]]
  BY DEF LatchFailure, Tables
<1>4. v.state = w.state /\ v.over = w.over /\ v.unknown /\ ~v.sealed
  BY <1>1 DEF OwnerRows
<1> HIDE DEF v
<1>a. [b.own EXCEPT ![o] = v] \in [Owners -> OwnerRows] /\ b.scope \cup {o} \in SUBSET Owners
  BY <1>1, <1>2 DEF Tables
<1>b. [b EXCEPT !.scope = b.scope \cup {o}] \in Tables
  BY <1>a DEF Tables
<1>5. c.own = [b.own EXCEPT ![o] = v] /\ c \in Tables
  BY <1>a, <1>b, <1>3 DEF Tables
<1> QED BY <1>1, <1>3, <1>4, <1>5 DEF Tables

OwnLimits(b, o) == {config.limit[d] : d \in {e \in EntriesOf(o) : b.row[e].state # "none"}}

(* The overage of an owner is judged against the smallest limit of its rows.  *)
LEMMA OverageFacts ==
  ASSUME NEW b \in Tables, NEW o \in Owners, NEW c, c = RecomputeOverage(b, o)
  PROVE  /\ c \in Tables
         /\ c.row = b.row /\ c.order = b.order /\ c.scope = b.scope
         /\ \A p \in Owners \ {o} : c.own[p] = b.own[p]
         /\ c.own[o].state = b.own[o].state /\ c.own[o].unknown = b.own[o].unknown
         /\ c.own[o].approval = b.own[o].approval /\ c.own[o].sealed = b.own[o].sealed
         /\ c.own[o].tightened = b.own[o].tightened
         /\ b.own[o].over => c.own[o].over
         /\ c.own[o].over
            \/ ~(Usage(b) > Min(OwnLimits(b, o)))
<1> DEFINE w == b.own[o]
           v == [w EXCEPT !.over = TRUE]
           limit == Min(OwnLimits(b, o))
<1>1. w \in OwnerRows /\ b.own \in [Owners -> OwnerRows]
  BY DEF Tables
<1>2. v \in OwnerRows
  BY <1>1 DEF OwnerRows
<1>3. CASE w.over \/ Usage(b) > limit
  <2>1. c = [b EXCEPT !.own = [b.own EXCEPT ![o] = v]]
    BY <1>3 DEF RecomputeOverage, OwnLimits, Tables
  <2>2. v.state = w.state /\ v.unknown = w.unknown /\ v.approval = w.approval
        /\ v.sealed = w.sealed /\ v.tightened = w.tightened /\ v.over
    BY <1>1 DEF OwnerRows
  <2> HIDE DEF v
  <2>3. c.own = [b.own EXCEPT ![o] = v] /\ c \in Tables
    BY <1>1, <1>2, <2>1 DEF Tables
  <2> HIDE DEF limit
  <2> QED BY SMTT(30), <1>1, <2>1, <2>2, <2>3 DEF Tables
<1>4. CASE ~(w.over \/ Usage(b) > limit)
  <2>1. c = b
    BY <1>4 DEF RecomputeOverage, OwnLimits
  <2> QED BY <1>4, <2>1
<1> QED BY <1>3, <1>4

(* Fields of the tables replaced by others of their type. *)
LEMMA TablesWith ==
  ASSUME NEW b \in Tables, NEW R \in [Entries -> BucketRows],
         NEW Q \in [Entries -> BucketOrders], NEW W \in [Owners -> OwnerRows]
  PROVE  [b EXCEPT !.row = R, !.order = Q, !.own = W] \in Tables
<1>1. [b EXCEPT !.row = R] \in Tables
  BY DEF Tables
<1>2. [[b EXCEPT !.row = R] EXCEPT !.order = Q] \in Tables
  BY <1>1 DEF Tables
<1> QED BY <1>2 DEF Tables

(* A fill moves from the hold to the filled what it is allocated, and leaves  *)
(* its owner's cost unknown.                                                 *)
LEMMA PersistedFacts ==
  ASSUME NEW b \in Tables, config \in Books, NEW d \in Entries, NEW cum \in Nat,
         cum > b.order[d].cum, NEW t \in Nat, NEW x \in Nat, x <= b.row[d].held,
         NEW c, c = Persisted(b, d, cum, t, x)
  PROVE  /\ c \in Tables /\ c.scope = b.scope
         /\ \A e \in Entries \ {d} : c.row[e] = b.row[e] /\ c.order[e] = b.order[e]
         /\ \A p \in Owners \ {OwnerOf(d)} : c.own[p] = b.own[p]
         /\ c.row[d].quantity = b.row[d].quantity /\ c.row[d].reserved = b.row[d].reserved
         /\ c.row[d].held = b.row[d].held - x /\ c.row[d].filled = b.row[d].filled + t
         /\ c.row[d].state \in {"FILLED", b.row[d].state}
         /\ c.order[d].state = b.order[d].state /\ c.order[d].cum = cum /\ c.order[d].fills # {}
         /\ c.own[OwnerOf(d)].state = b.own[OwnerOf(d)].state
         /\ b.own[OwnerOf(d)].over => c.own[OwnerOf(d)].over
         /\ c.own[OwnerOf(d)].unknown
<1> DEFINE o == OwnerOf(d)
           r == b.row[d]
           q == b.order[d]
           w == b.own[o]
           f == [quantity |-> cum - q.cum, cum |-> cum, transfer |-> t, known |-> FALSE]
           held == r.held - x
           rr == [r EXCEPT !.held = held, !.filled = r.filled + t,
                           !.state = IF held = 0 THEN "FILLED" ELSE r.state]
           qq == [q EXCEPT !.cum = cum, !.fills = q.fills \cup {f}]
           ww == [w EXCEPT !.unknown = TRUE, !.tightened = TRUE, !.over = w.over \/ x < t]
<1>1. /\ o \in Owners /\ r \in BucketRows /\ q \in BucketOrders /\ w \in OwnerRows
      /\ b.row \in [Entries -> BucketRows] /\ b.order \in [Entries -> BucketOrders]
      /\ b.own \in [Owners -> OwnerRows]
  BY BookFacts DEF Tables
<1>2. rr \in BucketRows
  <2>1. held \in Nat /\ r.filled + t \in Nat
    BY <1>1 DEF BucketRows
  <2>2. (IF held = 0 THEN "FILLED" ELSE r.state) \in {"none", "HELD", "FILLED", "RELEASED"}
    BY <1>1 DEF BucketRows
  <2> HIDE DEF held
  <2> QED BY <1>1, <2>1, <2>2 DEF BucketRows
<1>3. f \in Evidence
  BY <1>1 DEF BucketOrders, Evidence
<1>4. qq \in BucketOrders /\ qq.fills # {}
  BY <1>1, <1>3 DEF BucketOrders
<1>5. ww \in OwnerRows
  <2>1. (w.over \/ x < t) \in BOOLEAN
    BY <1>1 DEF OwnerRows
  <2>2. [w EXCEPT !.unknown = TRUE, !.tightened = TRUE] \in OwnerRows
    BY <1>1 DEF OwnerRows
  <2> QED BY <2>1, <2>2 DEF OwnerRows
<1>6. c = [b EXCEPT !.row = [b.row EXCEPT ![d] = rr], !.order = [b.order EXCEPT ![d] = qq],
                    !.own = [b.own EXCEPT ![o] = ww]]
  BY DEF Persisted
<1>7. /\ rr.quantity = r.quantity /\ rr.reserved = r.reserved /\ rr.held = held
      /\ rr.filled = r.filled + t /\ rr.state \in {"FILLED", r.state}
  BY <1>1 DEF BucketRows
<1>8. qq.state = q.state /\ qq.cum = cum
  BY <1>1 DEF BucketOrders
<1>9. ww.state = w.state /\ (w.over => ww.over) /\ ww.unknown
  BY <1>1 DEF OwnerRows
<1> HIDE DEF rr, qq, ww
<1> DEFINE R == [b.row EXCEPT ![d] = rr]
           Q == [b.order EXCEPT ![d] = qq]
           W == [b.own EXCEPT ![o] = ww]
<1>10. R \in [Entries -> BucketRows] /\ Q \in [Entries -> BucketOrders] /\ W \in [Owners -> OwnerRows]
  BY <1>1, <1>2, <1>4, <1>5
<1>a. c = [b EXCEPT !.row = R, !.order = Q, !.own = W]
  BY <1>6
<1>b. /\ R[d] = rr /\ Q[d] = qq /\ W[o] = ww
      /\ \A e \in Entries \ {d} : R[e] = b.row[e] /\ Q[e] = b.order[e]
      /\ \A p \in Owners \ {o} : W[p] = b.own[p]
  BY <1>1
<1> HIDE DEF R, Q, W
<1>11. c \in Tables
  <2>1. [b EXCEPT !.row = R, !.order = Q, !.own = W] \in Tables
    BY <1>10, TablesWith
  <2> QED BY <2>1, <1>a
<1>12. c.row = R /\ c.order = Q /\ c.own = W /\ c.scope = b.scope
  BY <1>a DEF Tables
<1> HIDE DEF f
<1> QED BY <1>1, <1>4, <1>7, <1>8, <1>9, <1>11, <1>12, <1>b

(* ----------------------------- the sidecar ------------------------------ *)

(* What the sidecar of RecordFill may make of the tables: it changes one row  *)
(* and its order, adds latches and takes none back, and lets usage grow only  *)
(* under a latch.                                                            *)
SameRest(b, c, d) ==
  /\ \A e \in Entries \ {d} : c.row[e] = b.row[e] /\ c.order[e] = b.order[e]
  /\ c.row[d].quantity = b.row[d].quantity /\ c.row[d].reserved = b.row[d].reserved
  /\ c.row[d].state = "none" <=> b.row[d].state = "none"
  /\ c.order[d].state = "none" <=> b.order[d].state = "none"

LatchesKept(b, c) ==
  /\ b.scope \subseteq c.scope
  /\ \A o \in Owners : /\ c.own[o].state = b.own[o].state
                       /\ b.own[o].over => c.own[o].over
                       /\ b.own[o].unknown => c.own[o].unknown

GrowsLatched(b, c, d) ==
  \/ c.scope # {} \/ c.own[OwnerOf(d)].unknown
  \/ /\ c.row[d].held <= b.row[d].held /\ c.row[d].filled = b.row[d].filled
     /\ c.row[d].state = b.row[d].state \/ c.row[d].state = "RELEASED"

Sidecar(b, c, d) ==
  SameRest(b, c, d) /\ LatchesKept(b, c) /\ GrowsLatched(b, c, d)

(* What an order may still buy is held, or its generation is latched. *)
Covers(b, d) ==
  \/ OwnerOf(d) \in b.scope
  \/ b.row[d].held + Allocated(b.row[d], b.order[d].cum) >= b.row[d].reserved

(* One such change after another is one. *)
LEMMA SidecarComposes ==
  ASSUME NEW a, NEW b, NEW c, NEW d \in Entries, a \in Tables, b \in Tables, c \in Tables,
         config \in Books, Sidecar(a, b, d), Sidecar(b, c, d)
  PROVE  Sidecar(a, c, d)
<1>1. SameRest(a, c, d)
  BY DEF Sidecar, SameRest
<1>2. LatchesKept(a, c)
  BY DEF Sidecar, LatchesKept
<1>3. GrowsLatched(a, c, d)
  <2>1. OwnerOf(d) \in Owners
    BY BookFacts
  <2>2. /\ a.row[d].held \in Nat /\ b.row[d].held \in Nat /\ c.row[d].held \in Nat
        /\ a.scope \in SUBSET Owners
    BY DEF Tables, BucketRows
  <2> QED BY <2>1, <2>2 DEF Sidecar, GrowsLatched, LatchesKept
<1> QED BY <1>1, <1>2, <1>3 DEF Sidecar

(* Changing nothing is one. *)
LEMMA SidecarStutters ==
  ASSUME NEW b \in Tables, NEW d \in Entries
  PROVE  Sidecar(b, b, d)
BY DEF Sidecar, SameRest, LatchesKept, GrowsLatched, Tables, BucketRows

(* A latch instead of a transition. *)
LEMMA LatchIsSidecar ==
  ASSUME NEW b, TablesOK(b), config \in Books, NEW d \in Entries,
         NEW c, c = LatchFailure(b, OwnerOf(d))
  PROVE  TablesOK(c) /\ Sidecar(b, c, d) /\ OwnerOf(d) \in c.scope
         /\ c.row = b.row /\ c.order = b.order
<1>1. b \in Tables /\ OwnerOf(d) \in Owners
  BY BookFacts DEF TablesOK
<1>2. /\ c \in Tables
      /\ c.row = b.row /\ c.order = b.order /\ c.scope = b.scope \cup {OwnerOf(d)}
      /\ \A p \in Owners \ {OwnerOf(d)} : c.own[p] = b.own[p]
      /\ c.own[OwnerOf(d)].state = b.own[OwnerOf(d)].state
      /\ c.own[OwnerOf(d)].over = b.own[OwnerOf(d)].over
      /\ c.own[OwnerOf(d)].unknown /\ ~c.own[OwnerOf(d)].sealed
  BY <1>1, LatchFacts
<1>3. \A e \in Entries : RowOK(c, e)
  <2>1. \A p \in Owners : c.own[p].state = b.own[p].state
    BY <1>2
  <2> QED BY <1>2, <2>1, BookFacts DEF TablesOK, RowOK
<1>4. \A p \in Owners : ApprovalOK(c.own[p])
  BY <1>2 DEF TablesOK, ApprovalOK
<1>5. Sidecar(b, c, d)
  BY <1>1, <1>2 DEF Sidecar, SameRest, LatchesKept, GrowsLatched
<1> QED BY <1>2, <1>3, <1>4, <1>5 DEF TablesOK

(* A new seal. *)
LEMMA SealIsSidecar ==
  ASSUME NEW b, TablesOK(b), config \in Books, NEW d \in Entries,
         NEW c, c = Sealed(b, OwnerOf(d))
  PROVE  TablesOK(c) /\ Sidecar(b, c, d)
         /\ c.row = b.row /\ c.order = b.order /\ c.scope = b.scope
<1>1. b \in Tables /\ OwnerOf(d) \in Owners
  BY BookFacts DEF TablesOK
<1>2. /\ c \in Tables
      /\ c.row = b.row /\ c.order = b.order /\ c.scope = b.scope
      /\ \A p \in Owners \ {OwnerOf(d)} : c.own[p] = b.own[p]
      /\ c.own[OwnerOf(d)].state = b.own[OwnerOf(d)].state
      /\ c.own[OwnerOf(d)].over = b.own[OwnerOf(d)].over
      /\ c.own[OwnerOf(d)].unknown = b.own[OwnerOf(d)].unknown
      /\ c.own[OwnerOf(d)].approval # "current"
  BY <1>1, SealedFacts
<1>3. \A e \in Entries : RowOK(c, e)
  <2>1. \A p \in Owners : c.own[p].state = b.own[p].state
    BY <1>2
  <2> QED BY <1>2, <2>1, BookFacts DEF TablesOK, RowOK
<1>4. \A p \in Owners : ApprovalOK(c.own[p])
  BY <1>2 DEF TablesOK, ApprovalOK
<1>5. Sidecar(b, c, d)
  <2>1. b.row[d].held <= b.row[d].held
    BY <1>1 DEF Tables, BucketRows
  <2> QED BY <1>1, <1>2, <2>1 DEF Sidecar, SameRest, LatchesKept, GrowsLatched
<1> QED BY <1>2, <1>3, <1>4, <1>5 DEF TablesOK

(* ApplyFill: what leaves the hold is counted as filled, and more than that   *)
(* is an overage; the rest of the hold stays.                                *)
LEMMA FillIsSidecar ==
  ASSUME NEW b, TablesOK(b), config \in Books, NEW d \in Entries, NEW cum \in Nat,
         b.row[d].state # "none", b.order[d].state # "none", cum > b.order[d].cum, cum <= b.row[d].quantity,
         NEW c, c = FillApplied(b, d, cum)
  PROVE  TablesOK(c) /\ Sidecar(b, c, d) /\ c.order[d].cum = cum
         /\ (Covers(b, d) => Covers(c, d))
<1> DEFINE r == b.row[d]
           o == OwnerOf(d)
           t == Allocated(r, cum) - Allocated(r, b.order[d].cum)
           x == Min({t, r.held})
           m == Persisted(b, d, cum, t, x)
           n == RecomputeOverage(m, o)
<1>1. /\ b \in Tables /\ o \in Owners /\ RowOK(b, d) /\ r \in BucketRows /\ b.order[d].cum \in Nat
      /\ r.quantity > 0 /\ r.reserved > 0
  BY BookFacts DEF TablesOK, Tables, BucketOrders, RowOK
<1>2. /\ Allocated(r, cum) \in Nat /\ Allocated(r, b.order[d].cum) \in Nat
      /\ Allocated(r, b.order[d].cum) <= Allocated(r, cum)
  BY <1>1, AllocatedFacts
<1>3. t \in Nat /\ r.held \in Nat /\ x \in Nat /\ x <= r.held /\ x <= t
  <2>1. t \in Nat /\ r.held \in Nat
    BY <1>1, <1>2 DEF BucketRows
  <2>2. \A y, z \in Int : Min({y, z}) = IF y <= z THEN y ELSE z
    BY OfTwo
  <2> HIDE DEF t, r
  <2>3. x = IF t <= r.held THEN t ELSE r.held
    BY <2>1, <2>2
  <2> QED BY <2>1, <2>3
<1> HIDE DEF x
<1>4. m = Persisted(b, d, cum, t, x)
  OBVIOUS
<1>5. /\ m \in Tables /\ m.scope = b.scope
      /\ \A e \in Entries \ {d} : m.row[e] = b.row[e] /\ m.order[e] = b.order[e]
      /\ \A p \in Owners \ {o} : m.own[p] = b.own[p]
      /\ m.row[d].quantity = r.quantity /\ m.row[d].reserved = r.reserved
      /\ m.row[d].held = r.held - x /\ m.row[d].filled = r.filled + t
      /\ m.row[d].state \in {"FILLED", r.state}
      /\ m.order[d].state = b.order[d].state /\ m.order[d].cum = cum /\ m.order[d].fills # {}
      /\ m.own[o].state = b.own[o].state
      /\ b.own[o].over => m.own[o].over
      /\ m.own[o].unknown
  <2> HIDE DEF t, m
  <2>1. t \in Nat /\ x \in Nat /\ x <= b.row[d].held
    BY <1>3
  <2> QED BY <1>1, <1>4, <2>1, PersistedFacts
<1>6. c = Sealed(n, o)
  BY DEF FillApplied, x
<1> HIDE DEF m, t
<1>n. n = RecomputeOverage(m, o)
  OBVIOUS
<1> HIDE DEF n
<1>7. /\ n \in Tables /\ n.row = m.row /\ n.order = m.order /\ n.scope = m.scope
      /\ \A p \in Owners \ {o} : n.own[p] = m.own[p]
      /\ n.own[o].state = m.own[o].state /\ n.own[o].unknown = m.own[o].unknown
      /\ m.own[o].over => n.own[o].over
  <2>1. m \in Tables
    BY <1>5
  <2> HIDE DEF o, r
  <2> QED BY <1>1, <1>n, <2>1, OverageFacts
<1>8. /\ c \in Tables /\ c.row = n.row /\ c.order = n.order /\ c.scope = n.scope
      /\ \A p \in Owners \ {o} : c.own[p] = n.own[p]
      /\ c.own[o].state = n.own[o].state /\ c.own[o].over = n.own[o].over
      /\ c.own[o].unknown = n.own[o].unknown /\ c.own[o].approval # "current"
  BY <1>1, <1>6, <1>7, SealedFacts
<1>9. /\ \A p \in Owners : c.own[p].state = b.own[p].state
      /\ \A p \in Owners \ {o} : c.own[p] = b.own[p]
      /\ c.own[o].unknown /\ (b.own[o].over => c.own[o].over)
  BY <1>5, <1>7, <1>8
<1>10. /\ \A e \in Entries \ {d} : c.row[e] = b.row[e] /\ c.order[e] = b.order[e]
       /\ c.row[d].quantity = r.quantity /\ c.row[d].reserved = r.reserved
       /\ c.row[d].held = r.held - x /\ c.row[d].filled = r.filled + t
       /\ c.row[d].state \in {"FILLED", r.state}
       /\ c.order[d].state = b.order[d].state /\ c.order[d].cum = cum /\ c.order[d].fills # {}
       /\ c.scope = b.scope
  BY <1>5, <1>7, <1>8
<1>11. Allocated(c.row[d], cum) = Allocated(r, cum)
       /\ t = Allocated(r, cum) - Allocated(r, b.order[d].cum)
  BY <1>10 DEF Allocated, t
<1>12. \A e \in Entries : RowOK(c, e)
  <2> SUFFICES ASSUME NEW e \in Entries PROVE RowOK(c, e)
    OBVIOUS
  <2>1. CASE e # d
    BY <1>9, <1>10, <2>1, BookFacts DEF TablesOK, RowOK
  <2>2. CASE e = d
    <3>1. c.row[d].held <= c.row[d].reserved
      BY <1>1, <1>3, <1>10 DEF RowOK, BucketRows
    <3>2. c.row[d].filled >= Allocated(c.row[d], cum)
      BY <1>1, <1>2, <1>10, <1>11 DEF RowOK, BucketRows
    <3>3. c.order[d].cum > 0 /\ c.row[d].state # "none" /\ c.order[d].state # "none"
      BY <1>1, <1>10 DEF RowOK
    <3> QED BY <1>1, <1>9, <1>10, <2>2, <3>1, <3>2, <3>3 DEF RowOK
  <2> QED BY <2>1, <2>2
<1>13. \A p \in Owners : ApprovalOK(c.own[p])
  BY <1>8, <1>9 DEF TablesOK, ApprovalOK
<1>14. Sidecar(b, c, d)
  BY <1>9, <1>10 DEF Sidecar, SameRest, LatchesKept, GrowsLatched
<1>15. ASSUME Covers(b, d) PROVE Covers(c, d)
  <2>1. /\ r.held \in Nat /\ r.reserved \in Nat
        /\ c.row[d].held = r.held - x /\ c.row[d].reserved = r.reserved
        /\ Allocated(c.row[d], c.order[d].cum) = Allocated(r, cum)
    BY <1>1, <1>10, <1>11 DEF BucketRows
  <2> QED BY <1>2, <1>3, <1>10, <1>11, <1>15, <2>1 DEF Covers
<1> QED BY <1>8, <1>10, <1>12, <1>13, <1>14, <1>15 DEF TablesOK

(* The end of an order returns what it did not use. *)
LEMMA ReleaseIsSidecar ==
  ASSUME NEW b, TablesOK(b), config \in Books, NEW d \in Entries,
         b.row[d].state # "none", b.order[d].state # "none",
         NEW c, c = ReleaseOrder(b, d)
  PROVE  TablesOK(c) /\ Sidecar(b, c, d) /\ c.order[d].cum = b.order[d].cum
<1> DEFINE r == b.row[d]
           q == b.order[d]
           o == OwnerOf(d)
           held == Max({0, r.held - (r.reserved - Allocated(r, q.cum))})
           rr == [r EXCEPT !.held = held, !.state = IF held = 0 THEN "RELEASED" ELSE r.state]
           qq == [q EXCEPT !.state = "RELEASED"]
           m == [b EXCEPT !.row[d] = rr, !.order[d] = qq]
<1>1. /\ b \in Tables /\ o \in Owners /\ RowOK(b, d) /\ r \in BucketRows /\ q \in BucketOrders
      /\ q.cum \in Nat /\ r.quantity > 0 /\ r.reserved > 0
      /\ b.row \in [Entries -> BucketRows] /\ b.order \in [Entries -> BucketOrders]
  BY BookFacts DEF TablesOK, Tables, BucketOrders, RowOK
<1>2. Allocated(r, q.cum) \in Nat /\ Allocated(r, q.cum) <= r.reserved
  BY <1>1, AllocatedFacts DEF RowOK
<1>3. held \in Nat /\ held <= r.held
  <2>1. r.held \in Nat /\ r.reserved \in Nat
    BY <1>1 DEF BucketRows
  <2>2. r.held - (r.reserved - Allocated(r, q.cum)) \in Int
        /\ r.held - (r.reserved - Allocated(r, q.cum)) <= r.held
    BY <1>2, <2>1
  <2> QED BY <2>1, <2>2, OfTwo
<1>c. c = Sealed(m, o)
  BY DEF ReleaseOrder
<1> HIDE DEF held
<1>4. /\ rr \in BucketRows /\ rr.quantity = r.quantity /\ rr.reserved = r.reserved
      /\ rr.held = held /\ rr.filled = r.filled /\ rr.state \in {r.state, "RELEASED"}
  BY <1>1, <1>3 DEF BucketRows
<1>5. qq \in BucketOrders /\ qq.state = "RELEASED" /\ qq.cum = q.cum /\ qq.fills = q.fills
  BY <1>1 DEF BucketOrders
<1> HIDE DEF rr, qq
<1> DEFINE R == [b.row EXCEPT ![d] = rr]
           Q == [b.order EXCEPT ![d] = qq]
<1>6. /\ R \in [Entries -> BucketRows] /\ Q \in [Entries -> BucketOrders] /\ R[d] = rr /\ Q[d] = qq
      /\ \A e \in Entries \ {d} : R[e] = b.row[e] /\ Q[e] = b.order[e]
  BY <1>1, <1>4, <1>5
<1>7. m = [b EXCEPT !.row = R, !.order = Q]
  OBVIOUS
<1> HIDE DEF R, Q, m
<1>8. m \in Tables /\ m.row = R /\ m.order = Q /\ m.own = b.own /\ m.scope = b.scope
  BY <1>1, <1>6, <1>7 DEF Tables
<1>9. \A e \in Entries : RowOK(m, e)
  <2> SUFFICES ASSUME NEW e \in Entries PROVE RowOK(m, e)
    OBVIOUS
  <2>1. CASE e # d
    BY <1>6, <1>8, <2>1 DEF TablesOK, RowOK
  <2>2. CASE e = d
    <3>1. Allocated(rr, q.cum) = Allocated(r, q.cum)
      BY <1>4 DEF Allocated
    <3>2. r.held \in Nat /\ r.reserved \in Nat /\ rr.state # "none"
      BY <1>1, <1>4 DEF BucketRows
    <3> QED BY <1>1, <1>3, <1>4, <1>5, <1>6, <1>8, <2>2, <3>1, <3>2 DEF RowOK
  <2> QED BY <2>1, <2>2
<1>10. TablesOK(m)
  BY <1>8, <1>9 DEF TablesOK
<1>11. Sidecar(b, m, d)
  BY <1>1, <1>3, <1>4, <1>5, <1>6, <1>8 DEF Sidecar, SameRest, LatchesKept, GrowsLatched
<1>12. TablesOK(c) /\ Sidecar(m, c, d) /\ c.order = m.order
  BY <1>10, <1>c, SealIsSidecar
<1> QED BY <1>1, <1>5, <1>6, <1>8, <1>11, <1>12, SidecarComposes DEF TablesOK

(* A late fill of a released generation latches it and its successors. *)
LEMMA LateFillIsSidecar ==
  ASSUME NEW b, TablesOK(b), config \in Books, NEW d \in Entries,
         NEW c, c = LateFill(b, OwnerOf(d))
  PROVE  TablesOK(c) /\ Sidecar(b, c, d) /\ OwnerOf(d) \in c.scope
         /\ c.row = b.row /\ c.order = b.order
<1> DEFINE next == ActiveOn(b, SymbolOf(OwnerOf(d)))
           Late(w) == [w EXCEPT !.unknown = TRUE, !.tightened = TRUE, !.sealed = TRUE,
                                !.approval = IF w.approval = "current"
                                             THEN "resealed" ELSE w.approval]
           W == [s \in Owners |-> IF s \in next THEN Late(b.own[s]) ELSE b.own[s]]
<1>1. /\ b \in Tables /\ OwnerOf(d) \in Owners /\ next \subseteq Owners
      /\ \A s \in Owners : b.own[s] \in OwnerRows
  BY BookFacts DEF TablesOK, Tables, ActiveOn
<1>2. \A w \in OwnerRows :
        /\ Late(w) \in OwnerRows /\ Late(w).state = w.state /\ Late(w).over = w.over
        /\ Late(w).unknown /\ Late(w).approval # "current"
  BY DEF OwnerRows
<1>3. c = [b EXCEPT !.scope = b.scope \cup {OwnerOf(d)} \cup next,
                    !.reconcile = b.reconcile \cup {SymbolOf(OwnerOf(d))}, !.own = W]
  BY DEF LateFill
<1> HIDE DEF Late
<1>4. W \in [Owners -> OwnerRows]
  BY <1>1, <1>2
<1>5. \A s \in Owners :
        /\ W[s].state = b.own[s].state /\ W[s].over = b.own[s].over
        /\ b.own[s].unknown => W[s].unknown
        /\ W[s] = b.own[s] \/ W[s].approval # "current"
  BY <1>1, <1>2
<1> HIDE DEF W, next
<1>6. /\ c \in Tables /\ c.own = W /\ c.row = b.row /\ c.order = b.order
      /\ c.scope = b.scope \cup {OwnerOf(d)} \cup next
  <2>1. b.reconcile \cup {SymbolOf(OwnerOf(d))} \in SUBSET {SymbolOf(o) : o \in Owners}
    BY <1>1 DEF Tables
  <2>2. b.scope \cup {OwnerOf(d)} \cup next \in SUBSET Owners
    BY <1>1 DEF Tables
  <2> QED BY <1>1, <1>3, <1>4, <2>1, <2>2 DEF Tables
<1>7. \A e \in Entries : RowOK(c, e)
  BY <1>5, <1>6, BookFacts DEF TablesOK, RowOK
<1>8. \A p \in Owners : ApprovalOK(c.own[p])
  BY <1>5, <1>6 DEF TablesOK, ApprovalOK
<1>9. Sidecar(b, c, d)
  BY <1>5, <1>6 DEF Sidecar, SameRest, LatchesKept, GrowsLatched
<1> QED BY <1>6, <1>7, <1>8, <1>9 DEF TablesOK

(* applyRiskBucketFillInTx, of a fill that grew. *)
LEMMA ApplyIsSidecar ==
  ASSUME NEW b, TablesOK(b), config \in Books, NEW d \in Entries, NEW cum \in Nat,
         b.row[d].state # "none", cum <= b.row[d].quantity, NEW c, c = ApplyFill(b, d, cum)
  PROVE  /\ TablesOK(c) /\ Sidecar(b, c, d) /\ (Covers(b, d) => Covers(c, d))
         /\ \/ b.order[d].state = "none" \/ b.own[OwnerOf(d)].state # "active"
            \/ OwnerOf(d) \in c.scope \/ c.order[d].cum = cum
<1> DEFINE o == OwnerOf(d)
<1>1. b \in Tables /\ b.order[d].cum \in Nat
  BY DEF TablesOK, Tables, BucketOrders
<1>2. CASE b.order[d].state = "none" \/ b.own[o].state # "active"
  <2>1. c = b
    BY <1>2 DEF ApplyFill
  <2> QED BY <1>1, <1>2, <2>1, SidecarStutters
<1>3. CASE ~(b.order[d].state = "none" \/ b.own[o].state # "active")
           /\ (~b.own[o].sealed \/ cum <= b.order[d].cum)
  <2>1. c = LatchFailure(b, o)
    BY <1>3 DEF ApplyFill
  <2> QED BY <2>1, LatchIsSidecar DEF Covers
<1>4. CASE ~(b.order[d].state = "none" \/ b.own[o].state # "active")
           /\ ~(~b.own[o].sealed \/ cum <= b.order[d].cum)
  <2>1. c = FillApplied(b, d, cum)
    BY <1>4 DEF ApplyFill
  <2>2. cum > b.order[d].cum
    BY <1>1, <1>4
  <2> QED BY <1>4, <2>1, <2>2, FillIsSidecar
<1> QED BY <1>2, <1>3, <1>4

(* releaseTerminalRiskBucketOrderInTx. *)
LEMMA TerminalIsSidecar ==
  ASSUME NEW b, TablesOK(b), config \in Books, NEW d \in Entries, b.row[d].state # "none",
         NEW c, c = ReleaseTerminal(b, d)
  PROVE  TablesOK(c) /\ Sidecar(b, c, d) /\ c.order[d].cum = b.order[d].cum
<1> DEFINE o == OwnerOf(d)
<1>1. b \in Tables
  BY DEF TablesOK
<1>2. c \in {b, LatchFailure(b, o)} \/ (b.order[d].state # "none" /\ c = ReleaseOrder(b, d))
  BY DEF ReleaseTerminal
<1>3. CASE c = b
  BY <1>1, <1>3, SidecarStutters
<1>4. CASE c = LatchFailure(b, o)
  BY <1>4, LatchIsSidecar
<1>5. CASE b.order[d].state # "none" /\ c = ReleaseOrder(b, d)
  BY <1>5, ReleaseIsSidecar
<1> QED BY <1>2, <1>3, <1>4, <1>5

(* applyRiskBucketOwnerBindingInTx. *)
LEMMA BindIsSidecar ==
  ASSUME NEW b, TablesOK(b), config \in Books, NEW d \in Entries,
         NEW c, c = BindOwner(b, d)
  PROVE  /\ TablesOK(c) /\ Sidecar(b, c, d) /\ c.row = b.row /\ c.order = b.order
         /\ b.order[d].state = "none" \/ b.own[OwnerOf(d)].state # "released"
            \/ OwnerOf(d) \in c.scope
<1> DEFINE o == OwnerOf(d)
           m == [b EXCEPT !.own[o].bound = TRUE]
<1>1. b \in Tables /\ o \in Owners
  BY BookFacts DEF TablesOK
<1>2. \/ c = b /\ (b.order[d].state = "none" \/ b.own[o].state # "released")
      \/ c = LateFill(b, o)
      \/ c = LatchFailure(b, o)
      \/ c = Sealed(LatchFailure(b, o), o)
      \/ c = Sealed(m, o) /\ b.own[o].state # "released"
  BY DEF BindOwner
<1>3. CASE c = b /\ (b.order[d].state = "none" \/ b.own[o].state # "released")
  BY <1>1, <1>3, SidecarStutters
<1>4. CASE c = LateFill(b, o)
  BY <1>4, LateFillIsSidecar
<1>5. CASE c = LatchFailure(b, o)
  BY <1>5, LatchIsSidecar
<1>6. CASE c = Sealed(LatchFailure(b, o), o)
  <2> DEFINE l == LatchFailure(b, o)
  <2>1. TablesOK(l) /\ Sidecar(b, l, d) /\ o \in l.scope /\ l.row = b.row /\ l.order = b.order
    BY LatchIsSidecar
  <2> HIDE DEF l
  <2>2. TablesOK(c) /\ Sidecar(l, c, d) /\ c.row = l.row /\ c.order = l.order /\ c.scope = l.scope
    BY <1>6, <2>1, SealIsSidecar DEF l
  <2> QED BY <1>1, <2>1, <2>2, SidecarComposes DEF TablesOK
<1>7. CASE c = Sealed(m, o) /\ b.own[o].state # "released"
  <2> DEFINE w == b.own[o]
             v == [w EXCEPT !.bound = TRUE]
  <2>1. w \in OwnerRows /\ b.own \in [Owners -> OwnerRows]
    BY <1>1 DEF Tables
  <2>2. v \in OwnerRows /\ v.state = w.state /\ v.over = w.over /\ v.unknown = w.unknown
        /\ v.approval = w.approval /\ v.sealed = w.sealed /\ v.tightened = w.tightened
    BY <2>1 DEF OwnerRows
  <2>3. m = [b EXCEPT !.own = [b.own EXCEPT ![o] = v]]
    OBVIOUS
  <2> HIDE DEF v, m
  <2>4. /\ m \in Tables /\ m.row = b.row /\ m.order = b.order /\ m.scope = b.scope
        /\ m.own = [b.own EXCEPT ![o] = v]
    BY <1>1, <2>1, <2>2, <2>3 DEF Tables
  <2>5. /\ \A p \in Owners \ {o} : m.own[p] = b.own[p]
        /\ m.own[o] = v
    BY <1>1, <2>1, <2>4
  <2>6. \A e \in Entries : RowOK(m, e)
    BY <2>2, <2>4, <2>5, BookFacts DEF TablesOK, RowOK
  <2>7. \A p \in Owners : ApprovalOK(m.own[p])
    BY <2>2, <2>5 DEF TablesOK, ApprovalOK
  <2>8. TablesOK(m)
    BY <2>4, <2>6, <2>7 DEF TablesOK
  <2>9. Sidecar(b, m, d)
    <3>1. b.row[d].held <= b.row[d].held
      BY <1>1 DEF Tables, BucketRows
    <3> QED BY <2>2, <2>4, <2>5, <3>1 DEF Sidecar, SameRest, LatchesKept, GrowsLatched
  <2>10. TablesOK(c) /\ Sidecar(m, c, d) /\ c.row = m.row /\ c.order = m.order
    BY ZenonT(30), <1>7, <2>8, SealIsSidecar DEF m
  <2> QED BY <1>1, <1>7, <2>4, <2>8, <2>9, <2>10, SidecarComposes DEF TablesOK
<1> QED BY <1>2, <1>3, <1>4, <1>5, <1>6, <1>7

(* The sidecar of one recorded fill: money moves as the tables allow, what    *)
(* the order may still buy stays covered, and what was recorded is counted,   *)
(* or the generation is latched.                                             *)
LEMMA RecordingIsSidecar ==
  ASSUME NEW b, TablesOK(b), config \in Books, NEW d \in Entries, NEW cum \in Nat,
         NEW grown \in BOOLEAN, NEW terminal \in BOOLEAN,
         b.row[d].state # "none", cum <= b.row[d].quantity,
         NEW c, c = Recording(b, d, cum, grown, terminal)
  PROVE  /\ TablesOK(c) /\ Sidecar(b, c, d)
         /\ ~terminal /\ Covers(b, d) => Covers(c, d)
         /\ \/ b.order[d].state = "none" \/ OwnerOf(d) \in c.scope
            \/ grown /\ c.order[d].cum = cum
            \/ ~grown /\ c.order[d].cum = b.order[d].cum
<1> DEFINE m == IF grown THEN ApplyFill(b, d, cum) ELSE b
           n == IF terminal THEN ReleaseTerminal(m, d) ELSE m
           o == OwnerOf(d)
<1>1. b \in Tables /\ o \in Owners
      /\ (b.order[d].state # "none" => b.own[o].state \in {"active", "released"})
  <2>1. OwnerOf(d) \in Owners
    BY BookFacts
  <2> QED BY <2>1 DEF TablesOK, RowOK, Tables, OwnerRows
<1>2. /\ TablesOK(m) /\ Sidecar(b, m, d) /\ (Covers(b, d) => Covers(m, d))
      /\ ~grown => m = b
      /\ grown => \/ b.order[d].state = "none" \/ b.own[o].state # "active"
                  \/ o \in m.scope \/ m.order[d].cum = cum
  <2>1. CASE grown
    BY <2>1, ApplyIsSidecar
  <2>2. CASE ~grown
    BY <1>1, <2>2, SidecarStutters
  <2> QED BY <2>1, <2>2
<1>c. c = IF grown THEN BindOwner(n, d) ELSE n
  BY DEF Recording
<1> HIDE DEF m
<1>3. /\ TablesOK(n) /\ Sidecar(m, n, d) /\ n.order[d].cum = m.order[d].cum
      /\ ~terminal => n = m
  <2>0. m.row[d].state # "none" /\ m \in Tables
    BY <1>2 DEF Sidecar, SameRest, TablesOK
  <2>1. CASE terminal
    BY <1>2, <2>0, <2>1, TerminalIsSidecar
  <2>2. CASE ~terminal
    BY <1>2, <2>0, <2>2, SidecarStutters
  <2> QED BY <2>1, <2>2
<1> HIDE DEF n
<1>4. /\ TablesOK(c) /\ Sidecar(n, c, d) /\ c.row = n.row /\ c.order = n.order
      /\ grown => \/ n.order[d].state = "none" \/ n.own[o].state # "released" \/ o \in c.scope
  <2>0. n \in Tables
    BY <1>3 DEF TablesOK
  <2>1. CASE grown
    BY <1>3, <1>c, <2>1, BindIsSidecar
  <2>2. CASE ~grown
    BY <1>3, <1>c, <2>0, <2>2, SidecarStutters
  <2> QED BY <2>1, <2>2
<1>5. m \in Tables /\ n \in Tables /\ c \in Tables
  BY <1>2, <1>3, <1>4 DEF TablesOK
<1>6. Sidecar(b, n, d)
  BY <1>1, <1>2, <1>3, <1>5, SidecarComposes
<1>7. Sidecar(b, c, d)
  BY <1>1, <1>4, <1>5, <1>6, SidecarComposes
<1>8. ASSUME ~terminal, Covers(b, d) PROVE Covers(c, d)
  <2>1. Covers(n, d)
    BY <1>2, <1>3, <1>8
  <2> QED BY <1>4, <2>1 DEF Covers, Sidecar, LatchesKept
<1>9. /\ n.own[o].state = b.own[o].state
      /\ n.order[d].state = "none" <=> b.order[d].state = "none"
      /\ m.scope \subseteq c.scope
  BY <1>1, <1>3, <1>4, <1>6 DEF Sidecar, SameRest, LatchesKept
<1> QED BY <1>1, <1>2, <1>3, <1>4, <1>7, <1>8, <1>9

(* ------------------------------ the steps ------------------------------- *)

(* The book's configuration never changes, so the tables of the next state    *)
(* are judged as those of this one.                                          *)
LEMMA NextTables ==
  ASSUME config' = config
  PROVE  /\ TablesOK(book)' <=> TablesOK(book')
         /\ Entries' = Entries /\ Owners' = Owners
<1>1. Entries' = Entries /\ Owners' = Owners
  BY DEF Entries, Owners
<1>2. TablesOK(book)' <=> TablesOK(book')
  BY <1>1 DEF TablesOK, Tables, RowOK, ApprovalOK, OwnerOf, SymbolOf, BucketRows, BucketOrders,
     Evidence, OwnerRows, Allocated, CeilDiv, NoReservation
<1> QED BY <1>1, <1>2

(* So is the cap. *)
LEMMA NextCap ==
  ASSUME config' = config
  PROVE  Capped(book, forgiven)' <=> Capped(book', forgiven')
BY DEF Capped, BucketLatched, Usage, UsageOf, Departed, Recorded, Entries, OwnerOf

(* The parts of the invariant in the next state. *)
LEMMA StepKeeps ==
  ASSUME config' = config, Frames', TablesOK(book'), SentOK', LockOK',
         Capped(book', forgiven'),
         WorkingCovered', FillCountedOrLatched', OneGeneration', ReliefIsCurrent'
  PROVE  RiskIInv'
BY NextTables, NextCap DEF RiskIInv

(* What gives money back, and takes no latch away, keeps the bucket capped. *)
LEMMA CapKeeps ==
  ASSUME NEW b \in Tables, NEW c \in Tables, config \in Books, NEW f \in Nat, Capped(b, f),
         b.scope \subseteq c.scope,
         \A o \in Owners : (b.own[o].over => c.own[o].over) /\ (b.own[o].unknown => c.own[o].unknown),
         c.scope # {} \/ Present(c) \subseteq Present(b),
         \A e \in Entries :
           /\ c.row[e].state = "none" <=> b.row[e].state = "none"
           /\ c.row[e].state \in {b.row[e].state, "RELEASED"}
           /\ c.row[e].held <= b.row[e].held /\ c.row[e].filled = b.row[e].filled
  PROVE  Capped(c, f)
<1>1. CASE c.scope # {} \/ BucketLatched(b)
  BY <1>1, BookFacts DEF Capped, BucketLatched
<1>2. CASE c.scope = {} /\ ~BucketLatched(b)
  <2>1. \A e \in Present(c) :
          c.row[e].held + c.row[e].filled <= b.row[e].held + b.row[e].filled
    BY DEF Present, Tables, BucketRows
  <2>2. Usage(c) <= Usage(b) /\ Usage(b) \in Nat /\ Usage(c) \in Nat
    BY <1>2, <2>1, UsageShrinks, UsageIsSum
  <2>3. Recorded(c) \subseteq Recorded(b) /\ \A e \in Recorded(b) : config.limit[e] \in Nat
    BY BookFacts DEF Recorded
  <2>4. \A e \in Entries : config.limit[e] \in Nat
    BY BookFacts
  <2> QED BY <1>2, <2>2, <2>3, <2>4 DEF Capped
<1> QED BY <1>1, <1>2

(* The sidecar keeps it capped: usage grows only under a latch. *)
LEMMA SidecarKeepsCap ==
  ASSUME NEW b \in Tables, NEW c \in Tables, config \in Books, NEW d \in Entries, NEW f \in Nat,
         Capped(b, f), Sidecar(b, c, d), b.row[d].state # "none"
  PROVE  Capped(c, f)
<1>1. OwnerOf(d) \in Owners /\ \A e \in Entries : OwnerOf(e) \in Owners
  BY BookFacts
<1>2. CASE c.scope # {}
  BY <1>2 DEF Capped
<1>3. CASE c.own[OwnerOf(d)].unknown
  <2>1. c.row[d].state # "none"
    BY DEF Sidecar, SameRest
  <2> QED BY <1>3, <2>1 DEF Capped, BucketLatched
<1>4. CASE c.scope = {} /\ ~c.own[OwnerOf(d)].unknown
  <2>1. \A e \in Entries :
          /\ c.row[e].state = "none" <=> b.row[e].state = "none"
          /\ c.row[e].state \in {b.row[e].state, "RELEASED"}
          /\ c.row[e].held <= b.row[e].held /\ c.row[e].filled = b.row[e].filled
    <3> SUFFICES ASSUME NEW e \in Entries
                 PROVE  /\ c.row[e].state = "none" <=> b.row[e].state = "none"
                        /\ c.row[e].state \in {b.row[e].state, "RELEASED"}
                        /\ c.row[e].held <= b.row[e].held /\ c.row[e].filled = b.row[e].filled
      OBVIOUS
    <3>1. b.row[e].held <= b.row[e].held
      BY DEF Tables, BucketRows
    <3> QED BY <1>4, <3>1 DEF Sidecar, SameRest, GrowsLatched
  <2>2. Present(c) \subseteq Present(b) /\ b.scope = {}
    BY <1>1, <1>4, <2>1 DEF Present, Departed, Sidecar, LatchesKept
  <2> QED BY <2>1, <2>2, CapKeeps DEF Sidecar, LatchesKept
<1> QED BY <1>2, <1>3, <1>4

(* Steps that leave the tables alone: the snapshot, the submission, the end   *)
(* of a campaign and the loss lock.                                          *)
LEMMA QuietKeeps ==
  ASSUME RiskIInv,
         \/ \E d \in Entries : CollectUsage(d) \/ Submit(d)
         \/ \E o \in Owners : Close(o)
         \/ ActivateEntryLossLock \/ ApproveLock \/ ReleaseEntryLossLock
  PROVE  RiskIInv'
<1>1. config' = config /\ book' = book /\ forgiven' = forgiven
  BY DEF CollectUsage, Submit, Close, ActivateEntryLossLock, ApproveLock, ReleaseEntryLossLock
<1>2. TablesOK(book') /\ Capped(book', forgiven') /\ config \in Books
  BY <1>1 DEF RiskIInv, Frames
<1>3. Entries' = Entries /\ Owners' = Owners
  BY <1>1, NextTables
<1>4. book \in Tables /\ Usage(book) \in Nat
  BY <1>2, UsageIsSum DEF RiskIInv, TablesOK
<1>l. /\ lock' \in LossLocks
      /\ \/ lock' = lock
         \/ /\ lock'.approved = lock.approved /\ lock'.open
            /\ \/ lock'.seq = lock.seq /\ lock'.event = lock.event + 1
               \/ lock'.seq = lock.seq + 1
         \/ /\ lock'.seq = lock.seq /\ lock'.event = lock.event
            /\ lock'.approved = <<lock.seq, lock.event>> /\ ~lock'.tightened
         \/ ~lock'.open /\ lock'.seq = lock.seq /\ lock'.event = lock.event
            /\ lock'.approved = lock.approved
  <2>0. lock \in LossLocks
    BY DEF RiskIInv, Frames
  <2>1. CASE ActivateEntryLossLock
    <3>1. CASE lock.open
      <4>1. lock' = [lock EXCEPT !.event = @ + 1, !.tightened = TRUE]
        BY <2>1, <3>1 DEF ActivateEntryLossLock
      <4>2. lock' = [open |-> lock.open, seq |-> lock.seq, event |-> lock.event + 1,
                     approved |-> lock.approved, tightened |-> TRUE]
        BY <2>0, <4>1 DEF LossLocks
      <4>3. lock.seq \in Nat /\ lock.event \in Nat /\ lock.approved \in Nat \X Nat
            /\ lock.open \in BOOLEAN
        BY <2>0 DEF LossLocks
      <4>4. lock' \in LossLocks
        BY <4>2, <4>3 DEF LossLocks
      <4> QED BY <3>1, <4>2, <4>4
    <3>2. CASE ~lock.open
      <4>1. lock' = [lock EXCEPT !.open = TRUE, !.seq = @ + 1, !.event = 0, !.tightened = TRUE]
        BY <2>1, <3>2 DEF ActivateEntryLossLock
      <4>2. lock' = [open |-> TRUE, seq |-> lock.seq + 1, event |-> 0,
                     approved |-> lock.approved, tightened |-> TRUE]
        BY <2>0, <4>1 DEF LossLocks
      <4>3. lock.seq \in Nat /\ lock.approved \in Nat \X Nat
        BY <2>0 DEF LossLocks
      <4>4. lock' \in LossLocks
        BY <4>2, <4>3 DEF LossLocks
      <4> QED BY <4>2, <4>4
    <3> QED BY <3>1, <3>2
  <2>2. CASE ApproveLock
    BY <2>0, <2>2 DEF ApproveLock, LossLocks
  <2>3. CASE ReleaseEntryLossLock
    BY <2>0, <2>3 DEF ReleaseEntryLossLock, LossLocks
  <2>4. ASSUME ~ActivateEntryLossLock, ~ApproveLock, ~ReleaseEntryLossLock PROVE lock' = lock
    BY <2>4 DEF CollectUsage, Submit, Close
  <2> QED BY <2>0, <2>1, <2>2, <2>3, <2>4
<1>5. Frames'
  <2>1. lifted' \in BOOLEAN
    BY DEF RiskIInv, Frames, CollectUsage, Submit, Close, ActivateEntryLossLock,
       ApproveLock, ReleaseEntryLossLock
  <2>2. seen' = seen /\ flat' \subseteq Owners
    BY DEF RiskIInv, Frames, CollectUsage, Submit, Close, ActivateEntryLossLock,
       ApproveLock, ReleaseEntryLossLock
  <2>3. snap' \in [Entries -> Nat \cup {-1}]
    BY <1>4 DEF RiskIInv, Frames, CollectUsage, Submit, Close, ActivateEntryLossLock,
       ApproveLock, ReleaseEntryLossLock
  <2>4. sent' \in [Entries -> {"no", "wire", "never"}]
    BY DEF RiskIInv, Frames, CollectUsage, Submit, Close, ActivateEntryLossLock,
       ApproveLock, ReleaseEntryLossLock
  <2> QED BY <1>1, <1>3, <1>l, <2>1, <2>2, <2>3, <2>4 DEF RiskIInv, Frames, LossLocks
<1>6. SentOK'
  BY <1>1, <1>3 DEF RiskIInv, SentOK, CollectUsage, Submit, Close, ActivateEntryLossLock,
     ApproveLock, ReleaseEntryLossLock, Frames
<1>7. LockOK'
  <2>1. lock.seq \in Nat /\ lock.event \in Nat /\ lock.approved \in Nat \X Nat
    BY DEF RiskIInv, Frames, LossLocks
  <2>2. lock.approved = <<lock.approved[1], lock.approved[2]>>
        /\ lock.approved[1] \in Nat /\ lock.approved[2] \in Nat
    BY <2>1
  <2> QED BY <1>l, <2>1, <2>2 DEF RiskIInv, LockOK
<1>8. WorkingCovered'
  <2>1. \A d \in Entries : /\ Allocated(book.row[d], book.order[d].cum) \in Nat
                          /\ book.row[d].held \in Nat /\ book.row[d].reserved \in Nat
    <3> SUFFICES ASSUME NEW d \in Entries
                 PROVE  /\ Allocated(book.row[d], book.order[d].cum) \in Nat
                        /\ book.row[d].held \in Nat /\ book.row[d].reserved \in Nat
      OBVIOUS
    <3>1. /\ book.row[d] \in BucketRows /\ book.order[d].cum \in Nat /\ RowOK(book, d)
          /\ book.row[d].held \in Nat /\ book.row[d].reserved \in Nat
      BY <1>4 DEF RiskIInv, TablesOK, Tables, BucketRows, BucketOrders
    <3>2. CASE book.row[d].state = "none"
      BY <3>1, <3>2 DEF RowOK, Allocated
    <3>3. CASE book.row[d].state # "none"
      <4>1. book.row[d].quantity \in Nat
        BY <3>1 DEF BucketRows
      <4> QED BY <3>1, <3>3, <4>1, AllocatedFacts DEF RowOK
    <3> QED BY <3>1, <3>2, <3>3
  <2> QED BY <1>1, <1>3, <2>1 DEF RiskIInv, WorkingCovered, CollectUsage, Submit, Close,
     ActivateEntryLossLock, ApproveLock, ReleaseEntryLossLock, Frames, OwnerOf
<1>9. FillCountedOrLatched' /\ OneGeneration'
  BY <1>1, <1>3 DEF RiskIInv, FillCountedOrLatched, OneGeneration, CollectUsage, Submit, Close,
     ActivateEntryLossLock, ApproveLock, ReleaseEntryLossLock, OwnerOf, SymbolOf, Allocated, CeilDiv
<1>10. ReliefIsCurrent'
  BY DEF RiskIInv, ReliefIsCurrent, LockOK, CollectUsage, Submit, Close,
     ActivateEntryLossLock, ApproveLock, ReleaseEntryLossLock
<1> QED BY <1>1, <1>2, <1>5, <1>6, <1>7, <1>8, <1>9, <1>10, StepKeeps

(* What the tables owe to the rest of the state when one decision's row and   *)
(* order move under the sidecar. *)
LEMMA SidecarStepKeeps ==
  ASSUME RiskIInv, NEW d \in Entries, NEW b, TablesOK(b), Capped(b, forgiven),
         b.row = book.row, b.scope = book.scope,
         \A o \in Owners : b.own[o].state = book.own[o].state,
         \A e \in Entries \ {d} : b.order[e] = book.order[e],
         b.order[d].cum = book.order[d].cum,
         book.order[d].state # "none" => b.order[d].state # "none",
         b.row[d].state # "none",
         NEW grown \in BOOLEAN,
         seen' \in [Entries -> [cum : 0 .. Quantity, terminal : BOOLEAN]],
         \A e \in Entries \ {d} : seen'[e] = seen[e],
         seen'[d].cum <= b.row[d].quantity,
         seen[d].terminal => seen'[d].terminal,
         ~grown => b.order[d].state = "none" \/ OwnerOf(d) \in book.scope
                   \/ seen'[d].cum = b.order[d].cum,
         book' = Recording(b, d, seen'[d].cum, grown, seen'[d].terminal),
         UNCHANGED <<config, snap, sent, flat, lock, forgiven, lifted>>
  PROVE  RiskIInv'
<1> DEFINE n == seen'[d]
           c == book'
<1>1. /\ config \in Books /\ b \in Tables /\ OwnerOf(d) \in Owners /\ forgiven \in Nat
      /\ n.cum \in Nat /\ n.terminal \in BOOLEAN
      /\ \A e \in Entries : OwnerOf(e) \in Owners
  BY BookFacts DEF RiskIInv, Frames, TablesOK
<1>2. /\ TablesOK(c) /\ Sidecar(b, c, d)
      /\ ~n.terminal /\ Covers(b, d) => Covers(c, d)
      /\ \/ b.order[d].state = "none" \/ OwnerOf(d) \in c.scope
         \/ grown /\ c.order[d].cum = n.cum
         \/ ~grown /\ c.order[d].cum = b.order[d].cum
  BY <1>1, RecordingIsSidecar
<1> HIDE DEF n, c
<1>3. c \in Tables /\ Capped(c, forgiven')
  BY <1>1, <1>2, SidecarKeepsCap DEF TablesOK
<1>4. Entries' = Entries /\ Owners' = Owners
  BY NextTables
<1>5. Frames'
  BY <1>4 DEF RiskIInv, Frames
<1>s. /\ \A e \in Entries : /\ c.row[e].quantity = b.row[e].quantity
                            /\ c.row[e].state = "none" <=> b.row[e].state = "none"
      /\ \A o \in Owners : c.own[o].state = book.own[o].state
  BY <1>2 DEF Sidecar, SameRest, LatchesKept
<1>6. SentOK' /\ LockOK'
  <2>1. \A e \in Entries : /\ sent[e] = "wire" => c.row[e].state # "none"
                           /\ seen'[e].cum <= c.row[e].quantity
    BY <1>s DEF RiskIInv, SentOK
  <2>2. SentOK'
    BY <1>4, <2>1 DEF SentOK, c
  <2>3. LockOK'
    BY DEF RiskIInv, LockOK
  <2> QED BY <2>2, <2>3
<1>7. \A e \in Entries : Covers(book, e) <=> Covers(b, e)
  BY DEF Covers
<1>8. WorkingCovered'
  <2>1. \A e \in Entries : sent[e] # "wire" \/ seen'[e].terminal \/ Covers(c, e)
    <3> SUFFICES ASSUME NEW e \in Entries, sent[e] = "wire", ~seen'[e].terminal PROVE Covers(c, e)
      BY DEF RiskIInv, Frames
    <3>1. Covers(book, e)
      BY DEF RiskIInv, WorkingCovered, Covers
    <3>2. CASE e = d
      BY <1>2, <1>7, <3>1, <3>2 DEF n
    <3>3. CASE e # d
      BY <1>1, <1>2, <1>7, <3>1, <3>3 DEF Covers, Sidecar, SameRest, LatchesKept
    <3> QED BY <3>2, <3>3
  <2> QED BY <1>4, <2>1 DEF WorkingCovered, Covers, OwnerOf, Allocated, c
<1>9. FillCountedOrLatched'
  <2>1. \A e \in Entries :
          c.order[e].state = "none" \/ OwnerOf(e) \in c.scope \/ c.order[e].cum = seen'[e].cum
    <3> SUFFICES ASSUME NEW e \in Entries
                 PROVE  c.order[e].state = "none" \/ OwnerOf(e) \in c.scope
                        \/ c.order[e].cum = seen'[e].cum
      OBVIOUS
    <3>1. CASE e = d
      BY <1>1, <1>2, <3>1 DEF Sidecar, SameRest, LatchesKept, n
    <3>2. CASE e # d
      BY <1>1, <1>2, <3>2 DEF RiskIInv, FillCountedOrLatched, Sidecar, SameRest, LatchesKept
    <3> QED BY <3>1, <3>2
  <2>2. \A e \in Entries : c.row[e].filled >= Allocated(c.row[e], c.order[e].cum)
    BY <1>2 DEF TablesOK, RowOK
  <2>3. \A e \in Entries :
          \/ c.order[e].state = "none" \/ OwnerOf(e) \in c.scope
          \/ c.order[e].cum = seen'[e].cum /\ c.row[e].filled >= Allocated(c.row[e], seen'[e].cum)
    BY <2>1, <2>2
  <2> QED BY <1>4, <2>3 DEF FillCountedOrLatched, OwnerOf, Allocated, CeilDiv, c
<1>10. OneGeneration' /\ ReliefIsCurrent'
  <2>1. \A o, p \in Owners :
          c.own[o].state = "active" /\ c.own[p].state = "active" /\ o # p
            => SymbolOf(o) # SymbolOf(p)
    BY <1>s DEF RiskIInv, OneGeneration
  <2> QED BY <1>4, <2>1 DEF RiskIInv, OneGeneration, ReliefIsCurrent, SymbolOf, c
<1> QED BY <1>2, <1>3, <1>5, <1>6, <1>8, <1>9, <1>10, StepKeeps DEF c

(* registerConfirmedStrategyRiskOrderTx: the order joins its row, with the    *)
(* fill recorded before it.                                                  *)
LEMMA RegisterKeeps ==
  ASSUME RiskIInv, NEW d \in Entries, Register(d)
  PROVE  RiskIInv'
<1> DEFINE o == OwnerOf(d)
           q == book.order[d]
           qq == [q EXCEPT !.state = "ACTIVE"]
           m == [book EXCEPT !.order = [book.order EXCEPT ![d] = qq]]
           b == Sealed(m, o)
<1>1. /\ config \in Books /\ book \in Tables /\ TablesOK(book) /\ o \in Owners
      /\ q \in BucketOrders /\ book.order \in [Entries -> BucketOrders]
      /\ book.row[d].state # "none" /\ q.state = "none" /\ RowOK(book, d)
      /\ seen[d].cum \in 0 .. Quantity /\ seen[d].cum <= book.row[d].quantity
      /\ seen[d].terminal \in BOOLEAN /\ forgiven \in Nat
  BY BookFacts DEF Register, RiskIInv, Frames, SentOK, TablesOK, Tables
<1>2. qq \in BucketOrders /\ qq.cum = q.cum /\ qq.fills = q.fills /\ qq.state = "ACTIVE"
  BY <1>1 DEF BucketOrders
<1> HIDE DEF qq
<1>3. /\ m \in Tables /\ m.row = book.row /\ m.own = book.own /\ m.scope = book.scope
      /\ m.order = [book.order EXCEPT ![d] = qq]
  BY <1>1, <1>2 DEF Tables
<1>4. book' = Recording(b, d, seen[d].cum, seen[d].cum > 0, seen[d].terminal)
  BY DEF Register, qq
<1> HIDE DEF m
<1>5. \A e \in Entries \ {d} : m.order[e] = book.order[e]
  BY <1>1, <1>3
<1>6. m.order[d] = qq
  BY <1>1, <1>3
<1>7. \A e \in Entries : RowOK(m, e)
  <2> SUFFICES ASSUME NEW e \in Entries PROVE RowOK(m, e)
    OBVIOUS
  <2>1. CASE e # d
    BY <1>1, <1>3, <1>5, <2>1 DEF TablesOK, RowOK
  <2>2. CASE e = d
    BY <1>1, <1>2, <1>3, <1>6, <2>2 DEF RowOK
  <2> QED BY <2>1, <2>2
<1>8. TablesOK(m)
  BY <1>1, <1>3, <1>7 DEF TablesOK
<1>9. TablesOK(b) /\ Sidecar(m, b, d) /\ b.row = m.row /\ b.order = m.order /\ b.scope = m.scope
  BY <1>1, <1>8, SealIsSidecar
<1> HIDE DEF b
<1>10. Capped(m, forgiven)
  <2>1. \A e \in Entries : m.row[e].held <= m.row[e].held
    BY <1>3 DEF Tables, BucketRows
  <2>2. Present(m) \subseteq Present(book)
    BY <1>3 DEF Present, Departed
  <2> QED BY <1>1, <1>3, <2>1, <2>2, CapKeeps DEF RiskIInv
<1>11. Capped(b, forgiven)
  <2>1. b \in Tables /\ m.row[d].state # "none"
    BY <1>1, <1>3, <1>9 DEF TablesOK
  <2> QED BY <1>1, <1>3, <1>9, <1>10, <2>1, SidecarKeepsCap
<1>12. /\ \A p \in Owners : b.own[p].state = book.own[p].state
       /\ b.row = book.row /\ b.scope = book.scope
       /\ \A e \in Entries \ {d} : b.order[e] = book.order[e]
       /\ b.order[d].cum = q.cum /\ b.order[d].state # "none" /\ b.row[d].state # "none"
  BY <1>1, <1>2, <1>3, <1>5, <1>6, <1>9 DEF Sidecar, LatchesKept
<1>13. seen' = seen /\ UNCHANGED <<config, snap, sent, flat, lock, forgiven, lifted>>
  BY DEF Register
<1>14. (seen[d].cum > 0) \in BOOLEAN /\ (~(seen[d].cum > 0) => seen'[d].cum = b.order[d].cum)
  BY <1>1, <1>12, <1>13 DEF RowOK
<1>15. book' = Recording(b, d, seen'[d].cum, seen[d].cum > 0, seen'[d].terminal)
  BY <1>4, <1>13
<1>16. /\ seen' \in [Entries -> [cum : 0 .. Quantity, terminal : BOOLEAN]]
       /\ \A e \in Entries \ {d} : seen'[e] = seen[e]
       /\ seen'[d].cum <= b.row[d].quantity
       /\ seen[d].terminal => seen'[d].terminal
  BY <1>1, <1>12, <1>13 DEF RiskIInv, Frames
<1> QED BY <1>1, <1>9, <1>11, <1>12, <1>13, <1>14, <1>15, <1>16, SidecarStepKeeps

(* RecordFill: a larger quantity, or the end of the order. *)
LEMMA RecordKeeps ==
  ASSUME RiskIInv, NEW d \in Entries, NEW cum \in seen[d].cum .. book.row[d].quantity,
         NEW terminal \in BOOLEAN, RecordBucketFill(d, cum, terminal)
  PROVE  RiskIInv'
<1> DEFINE grown == cum > seen[d].cum
           n == [cum |-> cum, terminal |-> terminal]
<1>1. /\ config \in Books /\ book \in Tables /\ TablesOK(book) /\ RowOK(book, d)
      /\ seen \in [Entries -> [cum : 0 .. Quantity, terminal : BOOLEAN]]
      /\ seen[d].cum \in 0 .. Quantity /\ book.row[d].quantity \in Nat
      /\ book.row[d].state # "none" /\ Quantity \in Nat
  BY RiskAssumption DEF RecordBucketFill, RiskIInv, Frames, SentOK, TablesOK, Tables, BucketRows
<1>2. cum \in Nat /\ cum <= book.row[d].quantity /\ cum >= seen[d].cum /\ cum <= Quantity
  BY <1>1 DEF RowOK
<1>3. /\ seen' = [seen EXCEPT ![d] = n]
      /\ book' = Recording(book, d, cum, grown, terminal)
      /\ seen[d].terminal => terminal
      /\ UNCHANGED <<config, snap, sent, flat, lock, forgiven, lifted>>
  BY DEF RecordBucketFill
<1>4. n \in [cum : 0 .. Quantity, terminal : BOOLEAN] /\ n.cum = cum /\ n.terminal = terminal
  BY <1>1, <1>2
<1> HIDE DEF n
<1>5. /\ seen' \in [Entries -> [cum : 0 .. Quantity, terminal : BOOLEAN]]
      /\ \A e \in Entries \ {d} : seen'[e] = seen[e]
      /\ seen'[d].cum = cum /\ seen'[d].terminal = terminal
  BY <1>1, <1>3, <1>4
<1>6. ~grown => book.order[d].state = "none" \/ OwnerOf(d) \in book.scope
                \/ seen'[d].cum = book.order[d].cum
  <2>1. ASSUME ~grown PROVE cum = seen[d].cum
    BY <1>1, <1>2, <2>1
  <2> QED BY <1>5, <2>1 DEF RiskIInv, FillCountedOrLatched
<1>7. grown \in BOOLEAN /\ Capped(book, forgiven)
  BY DEF RiskIInv
<1> HIDE DEF grown
<1>8. book' = Recording(book, d, seen'[d].cum, grown, seen'[d].terminal)
  BY <1>3, <1>5
<1> QED BY <1>1, <1>2, <1>3, <1>5, <1>6, <1>7, <1>8, SidecarStepKeeps

(* The same configuration in a step that moves no fill: what the step must     *)
(* show of the tables and of the decisions it touches.                        *)
LEMMA TablesStepKeeps ==
  ASSUME RiskIInv, config' = config, seen' = seen, flat' = flat, lock' = lock,
         TablesOK(book'), Capped(book', forgiven'), forgiven' \in Nat, lifted' = FALSE,
         snap' \in [Entries -> Nat \cup {-1}],
         sent' \in [Entries -> {"no", "wire", "never"}],
         book.scope \subseteq book'.scope,
         \A d \in Entries :
           /\ seen[d].cum <= book'.row[d].quantity
           /\ book'.order[d].state = book.order[d].state /\ book'.order[d].cum = book.order[d].cum
           /\ sent'[d] = "wire" =>
                /\ sent[d] = "wire" /\ book'.row[d].state # "none"
                /\ book'.row[d].held = book.row[d].held
                /\ book'.row[d].reserved = book.row[d].reserved
                /\ book'.row[d].quantity = book.row[d].quantity,
         \A o, p \in Owners :
           book'.own[o].state = "active" /\ book'.own[p].state = "active" /\ o # p
             => SymbolOf(o) # SymbolOf(p)
  PROVE  RiskIInv'
<1>1. Entries' = Entries /\ Owners' = Owners
  BY NextTables
<1>2. Frames'
  BY <1>1 DEF RiskIInv, Frames, LossLocks
<1>3. SentOK' /\ LockOK'
  BY <1>1 DEF RiskIInv, SentOK, LockOK
<1>4. WorkingCovered'
  <2>1. \A d \in Entries :
          sent'[d] # "wire" \/ seen'[d].terminal \/ OwnerOf(d) \in book'.scope
          \/ book'.row[d].held + Allocated(book'.row[d], book'.order[d].cum) >= book'.row[d].reserved
    <3> SUFFICES ASSUME NEW d \in Entries, sent'[d] = "wire"
                 PROVE  \/ seen[d].terminal \/ OwnerOf(d) \in book'.scope
                        \/ book'.row[d].held + Allocated(book'.row[d], book'.order[d].cum)
                             >= book'.row[d].reserved
      OBVIOUS
    <3>1. \/ seen[d].terminal \/ OwnerOf(d) \in book.scope
          \/ book.row[d].held + Allocated(book.row[d], book.order[d].cum) >= book.row[d].reserved
      BY DEF RiskIInv, WorkingCovered
    <3>2. Allocated(book'.row[d], book'.order[d].cum) = Allocated(book.row[d], book.order[d].cum)
      BY DEF Allocated
    <3> QED BY <3>1, <3>2
  <2> QED BY <1>1, <2>1 DEF WorkingCovered, OwnerOf, Allocated
<1>5. FillCountedOrLatched'
  <2>1. \A d \in Entries : book'.row[d].filled >= Allocated(book'.row[d], book'.order[d].cum)
    BY DEF TablesOK, RowOK
  <2>2. \A d \in Entries : \/ book'.order[d].state = "none" \/ OwnerOf(d) \in book'.scope
                           \/ book'.order[d].cum = seen'[d].cum
    BY DEF RiskIInv, FillCountedOrLatched
  <2> QED BY <1>1, <2>1, <2>2 DEF FillCountedOrLatched, OwnerOf, Allocated, CeilDiv
<1>6. OneGeneration' /\ ReliefIsCurrent'
  BY <1>1 DEF OneGeneration, ReliefIsCurrent, SymbolOf
<1> QED BY <1>2, <1>3, <1>4, <1>5, <1>6, StepKeeps

(* A step that changes an owner's row at most, and makes none active. *)
LEMMA OwnerStepKeeps ==
  ASSUME RiskIInv, UNCHANGED <<config, snap, sent, seen, flat, lock>>, lifted' = FALSE,
         book' \in Tables, book'.row = book.row, book'.order = book.order,
         book'.scope = book.scope,
         \A o \in Owners :
           /\ ApprovalOK(book'.own[o])
           /\ book'.own[o].state = "none" <=> book.own[o].state = "none"
           /\ book'.own[o].state = "active" => book.own[o].state = "active",
         Capped(book', forgiven'), forgiven' \in Nat
  PROVE  RiskIInv'
<1>1. TablesOK(book')
  <2>1. \A d \in Entries : RowOK(book', d)
    BY BookFacts DEF RiskIInv, Frames, TablesOK, RowOK
  <2> QED BY <2>1 DEF TablesOK
<1> QED BY <1>1, TablesStepKeeps DEF RiskIInv, Frames, SentOK, OneGeneration

(* BucketRows and scope the same, no owner comes back: usage does not grow. *)
LEMMA OwnerStepShrinks ==
  ASSUME NEW b \in Tables, NEW c \in Tables, config \in Books,
         c.row = b.row, c.scope = b.scope,
         \A o \in Owners : c.own[o].state = b.own[o].state \/ c.own[o].state = "released"
  PROVE  Present(c) \subseteq Present(b) /\ Usage(c) <= Usage(b)
<1>1. Present(c) \subseteq Present(b)
  BY BookFacts DEF Present, Departed
<1>2. \A d \in Present(c) : c.row[d].held + c.row[d].filled <= b.row[d].held + b.row[d].filled
  BY DEF Present, Tables, BucketRows
<1> QED BY <1>1, <1>2, UsageShrinks

(* ReleaseOwner, ResolveReconcile, ApproveOverage: no latch is taken back. *)
LEMMA OwnersKeep ==
  ASSUME RiskIInv,
         \/ \E o \in Owners : ReleaseOwner(o) \/ ApproveOverage(o)
         \/ \E s \in book.reconcile : ResolveReconcile(s)
  PROVE  RiskIInv'
<1>1. /\ config \in Books /\ book \in Tables /\ forgiven \in Nat /\ Capped(book, forgiven)
      /\ \A o \in Owners : ApprovalOK(book.own[o]) /\ book.own[o] \in OwnerRows
  BY DEF RiskIInv, Frames, TablesOK, Tables
<1>2. UNCHANGED <<config, snap, sent, seen, flat, lock, forgiven>> /\ lifted' = FALSE
  BY DEF ReleaseOwner, ApproveOverage, ResolveReconcile, RiskIInv, ReliefIsCurrent, Frames
<1>3. /\ book' \in Tables /\ book'.row = book.row /\ book'.order = book.order
      /\ book'.scope = book.scope
      /\ \A o \in Owners :
           /\ ApprovalOK(book'.own[o])
           /\ book'.own[o].over = book.own[o].over /\ book'.own[o].unknown = book.own[o].unknown
           /\ \/ book'.own[o].state = book.own[o].state
              \/ book'.own[o].state = "released" /\ book.own[o].state = "active"
  <2>1. CASE \E s \in book.reconcile : ResolveReconcile(s)
    BY <1>1, <2>1 DEF ResolveReconcile, Tables
  <2>2. ASSUME NEW o \in Owners, ReleaseOwner(o) PROVE <1>3
    <3> DEFINE w == book.own[o]
               v == [w EXCEPT !.state = "released"]
    <3>1. /\ v \in OwnerRows /\ v.state = "released" /\ v.over = w.over /\ v.unknown = w.unknown
          /\ v.approval = w.approval /\ v.sealed = w.sealed /\ v.tightened = w.tightened
      BY <1>1 DEF OwnerRows
    <3>2. book' = [book EXCEPT !.own = [book.own EXCEPT ![o] = v]] /\ w.state = "active"
      BY <2>2 DEF ReleaseOwner
    <3> HIDE DEF v
    <3>3. /\ book' \in Tables /\ book'.row = book.row /\ book'.order = book.order
          /\ book'.scope = book.scope /\ book'.own = [book.own EXCEPT ![o] = v]
      BY <1>1, <3>1, <3>2 DEF Tables
    <3>4. book'.own[o] = v /\ \A p \in Owners \ {o} : book'.own[p] = book.own[p]
      BY <1>1, <3>3 DEF Tables
    <3> QED BY <1>1, <3>1, <3>2, <3>3, <3>4 DEF ApprovalOK
  <2>3. ASSUME NEW o \in Owners, ApproveOverage(o) PROVE <1>3
    <3> DEFINE w == book.own[o]
               v == [w EXCEPT !.approval = "current", !.tightened = ~w.sealed]
    <3>1. /\ v \in OwnerRows /\ v.state = w.state /\ v.over = w.over /\ v.unknown = w.unknown
          /\ v.sealed = w.sealed /\ v.tightened = ~w.sealed
      BY <1>1 DEF OwnerRows
    <3>2. book' = [book EXCEPT !.own = [book.own EXCEPT ![o] = v]]
      BY <2>3 DEF ApproveOverage
    <3> HIDE DEF v
    <3>3. /\ book' \in Tables /\ book'.row = book.row /\ book'.order = book.order
          /\ book'.scope = book.scope /\ book'.own = [book.own EXCEPT ![o] = v]
      BY <1>1, <3>1, <3>2 DEF Tables
    <3>4. book'.own[o] = v /\ \A p \in Owners \ {o} : book'.own[p] = book.own[p]
      BY <1>1, <3>3 DEF Tables
    <3> QED BY <1>1, <3>1, <3>2, <3>3, <3>4 DEF ApprovalOK
  <2> QED BY <2>1, <2>2, <2>3
<1>4. Capped(book', forgiven')
  <2>1. \A e \in Entries : book.row[e].held <= book.row[e].held
    BY <1>1 DEF Tables, BucketRows
  <2>2. Present(book') \subseteq Present(book)
    BY <1>1, <1>3, OwnerStepShrinks
  <2> QED BY <1>1, <1>2, <1>3, <2>1, <2>2, CapKeeps
<1> QED BY <1>1, <1>2, <1>3, <1>4, OwnerStepKeeps

(* The relief of an overage: the operator saw the usage it forgives, and the  *)
(* approval of a seal that still matches was given for the latch as it is.    *)
LEMMA ReliefKeeps ==
  ASSUME RiskIInv, NEW o \in Owners, ReleaseRiskOverageLatch(o)
  PROVE  RiskIInv'
<1> DEFINE m == Sealed(book, o)
           w == m.own[o]
           v == [w EXCEPT !.over = FALSE, !.approval = "none"]
<1>1. /\ config \in Books /\ book \in Tables
      /\ \A p \in Owners : ApprovalOK(book.own[p])
  BY DEF RiskIInv, Frames, TablesOK
<1>2. /\ UNCHANGED <<config, snap, sent, seen, flat, lock>> /\ forgiven' = Usage(book)
      /\ lifted' = FALSE
  BY <1>1 DEF ReleaseRiskOverageLatch, RiskIInv, ReliefIsCurrent, ApprovalOK, Frames, TablesOK,
     Tables, OwnerRows
<1>3. /\ m \in Tables /\ m.row = book.row /\ m.order = book.order /\ m.scope = book.scope
      /\ \A p \in Owners \ {o} : m.own[p] = book.own[p]
      /\ m.own[o].state = book.own[o].state
  BY <1>1, SealedFacts
<1>4. book' = [m EXCEPT !.own = [m.own EXCEPT ![o] = v]]
  BY DEF ReleaseRiskOverageLatch
<1> HIDE DEF m
<1>5. v \in OwnerRows /\ v.state = w.state /\ v.approval = "none"
  <2>1. w \in OwnerRows
    BY <1>3 DEF Tables
  <2> QED BY <2>1 DEF OwnerRows
<1> HIDE DEF v
<1>6. /\ book' \in Tables /\ book'.row = book.row /\ book'.order = book.order
      /\ book'.scope = book.scope /\ book'.own = [m.own EXCEPT ![o] = v]
  BY <1>3, <1>4, <1>5 DEF Tables
<1>7. book'.own[o] = v /\ \A p \in Owners \ {o} : book'.own[p] = book.own[p]
  BY <1>3, <1>6 DEF Tables
<1>8. \A p \in Owners : ApprovalOK(book'.own[p]) /\ book'.own[p].state = book.own[p].state
  BY <1>1, <1>3, <1>5, <1>7 DEF ApprovalOK
<1>9. Capped(book', forgiven') /\ forgiven' \in Nat
  BY <1>1, <1>2, <1>6, <1>8, OwnerStepShrinks, UsageIsSum DEF Capped
<1> QED BY <1>1, <1>2, <1>6, <1>8, <1>9, OwnerStepKeeps

(* An order that was never sent gives its hold back. *)
LEMMA ReturnKeeps ==
  ASSUME RiskIInv, NEW d \in Entries, ReturnHold(d)
  PROVE  RiskIInv'
<1> DEFINE o == OwnerOf(d)
           r == book.row[d]
           w == book.own[o]
           rr == [r EXCEPT !.state = "RELEASED", !.held = 0]
           ww == [w EXCEPT !.sealed = FALSE]
           R == [book.row EXCEPT ![d] = rr]
           W == [book.own EXCEPT ![o] = ww]
<1>1. /\ config \in Books /\ book \in Tables /\ o \in Owners /\ r \in BucketRows /\ w \in OwnerRows
      /\ book.row \in [Entries -> BucketRows] /\ book.own \in [Owners -> OwnerRows]
      /\ TablesOK(book) /\ RowOK(book, d) /\ r.state = "HELD" /\ forgiven \in Nat
      /\ Capped(book, forgiven) /\ sent \in [Entries -> {"no", "wire", "never"}]
  BY BookFacts DEF ReturnHold, RiskIInv, Frames, TablesOK, Tables
<1>2. /\ UNCHANGED <<config, snap, seen, flat, lock, forgiven, lifted>>
      /\ sent' = [sent EXCEPT ![d] = "never"]
      /\ book' = [book EXCEPT !.row = R, !.own = W]
  BY DEF ReturnHold
<1>3. /\ rr \in BucketRows /\ rr.state = "RELEASED" /\ rr.held = 0 /\ rr.quantity = r.quantity
      /\ rr.reserved = r.reserved /\ rr.filled = r.filled
  BY <1>1 DEF BucketRows
<1>4. /\ ww \in OwnerRows /\ ww.state = w.state /\ ww.over = w.over /\ ww.unknown = w.unknown
      /\ ~ww.sealed
  BY <1>1 DEF OwnerRows
<1> HIDE DEF rr, ww
<1>5. /\ R \in [Entries -> BucketRows] /\ W \in [Owners -> OwnerRows] /\ R[d] = rr /\ W[o] = ww
      /\ \A e \in Entries \ {d} : R[e] = book.row[e]
      /\ \A p \in Owners \ {o} : W[p] = book.own[p]
  BY <1>1, <1>3, <1>4
<1> HIDE DEF R, W
<1>6. /\ book' \in Tables /\ book'.row = R /\ book'.own = W /\ book'.order = book.order
      /\ book'.scope = book.scope
  BY <1>1, <1>2, <1>5 DEF Tables
<1>7. \A p \in Owners : /\ W[p].state = book.own[p].state /\ ApprovalOK(W[p])
                        /\ W[p].over = book.own[p].over /\ W[p].unknown = book.own[p].unknown
  BY <1>1, <1>4, <1>5 DEF TablesOK, ApprovalOK
<1>8. \A e \in Entries : RowOK(book', e)
  <2> SUFFICES ASSUME NEW e \in Entries PROVE RowOK(book', e)
    OBVIOUS
  <2>1. CASE e # d
    BY <1>1, <1>5, <1>6, <1>7, <2>1, BookFacts DEF TablesOK, RowOK
  <2>2. CASE e = d
    <3>1. Allocated(rr, book.order[d].cum) = Allocated(r, book.order[d].cum)
      BY <1>3 DEF Allocated
    <3>2. r.reserved \in Nat
      BY <1>1 DEF BucketRows
    <3> QED BY <1>1, <1>3, <1>5, <1>6, <1>7, <2>2, <3>1, <3>2 DEF RowOK
  <2> QED BY <2>1, <2>2
<1>9. TablesOK(book')
  BY <1>6, <1>7, <1>8 DEF TablesOK
<1>10. Capped(book', forgiven')
  <2>1. \A e \in Entries :
          /\ R[e].state = "none" <=> book.row[e].state = "none"
          /\ R[e].state \in {book.row[e].state, "RELEASED"}
          /\ R[e].held <= book.row[e].held /\ R[e].filled = book.row[e].filled
    <3>1. \A e \in Entries : book.row[e].held \in Nat
      BY <1>1 DEF BucketRows
    <3> QED BY <1>1, <1>3, <1>5, <3>1
  <2>2. Present(book') \subseteq Present(book)
    BY <1>6, <1>7, <2>1, BookFacts, <1>1 DEF Present, Departed
  <2>3. \A e \in Entries :
          /\ book'.row[e].state = "none" <=> book.row[e].state = "none"
          /\ book'.row[e].state \in {book.row[e].state, "RELEASED"}
          /\ book'.row[e].held <= book.row[e].held /\ book'.row[e].filled = book.row[e].filled
    BY <1>6, <2>1
  <2>4. \A p \in Owners : /\ book.own[p].over => book'.own[p].over
                          /\ book.own[p].unknown => book'.own[p].unknown
    BY <1>6, <1>7
  <2>5. book.scope \subseteq book'.scope /\ forgiven' = forgiven
    BY <1>2, <1>6
  <2> HIDE DEF R, W
  <2> QED BY <1>1, <1>6, <2>2, <2>3, <2>4, <2>5, CapKeeps
<1>11. \A e \in Entries \ {d} : sent'[e] = sent[e]
  BY <1>1, <1>2
<1>12. sent'[d] = "never" /\ sent' \in [Entries -> {"no", "wire", "never"}]
  BY <1>1, <1>2
<1>13. \A e \in Entries : seen[e].cum <= R[e].quantity
  BY <1>1, <1>3, <1>5 DEF RiskIInv, SentOK
<1>14. \A e \in Entries :
         /\ seen[e].cum <= book'.row[e].quantity
         /\ book'.order[e].state = book.order[e].state /\ book'.order[e].cum = book.order[e].cum
         /\ sent'[e] = "wire" =>
              /\ sent[e] = "wire" /\ book'.row[e].state # "none"
              /\ book'.row[e].held = book.row[e].held
              /\ book'.row[e].reserved = book.row[e].reserved
              /\ book'.row[e].quantity = book.row[e].quantity
  BY <1>5, <1>6, <1>11, <1>12, <1>13 DEF RiskIInv, SentOK
<1>15. \A a, p \in Owners :
         book'.own[a].state = "active" /\ book'.own[p].state = "active" /\ a # p
           => SymbolOf(a) # SymbolOf(p)
  BY <1>6, <1>7 DEF RiskIInv, OneGeneration
<1>16. /\ snap' \in [Entries -> Nat \cup {-1}] /\ forgiven' \in Nat /\ lifted' = FALSE
       /\ book.scope \subseteq book'.scope
  BY <1>2, <1>6 DEF RiskIInv, Frames, ReliefIsCurrent
<1> QED BY <1>2, <1>9, <1>10, <1>12, <1>14, <1>15, <1>16, TablesStepKeeps

(* The evidence of what a fill has cost: the filled grows by what it cost     *)
(* more, and the overage is judged again on all the bucket's usage against a  *)
(* limit no larger than this row's.                                          *)
LEMMA CompleteKeeps ==
  ASSUME RiskIInv, NEW d \in Entries, NEW f \in book.order[d].fills, NEW cost \in Costs,
         CompleteActual(d, f, cost)
  PROVE  RiskIInv'
<1> DEFINE o == OwnerOf(d)
           r == book.row[d]
           q == book.order[d]
           w == book.own[o]
           after == [f EXCEPT !.known = TRUE]
           excess == Max({0, cost * f.quantity - f.transfer})
           more == cost * f.quantity > f.transfer
           rr == [r EXCEPT !.filled = r.filled + excess]
           qq == [q EXCEPT !.fills = (q.fills \ {f}) \cup {after}]
           ww == [w EXCEPT !.tightened = w.tightened \/ more]
           R == [book.row EXCEPT ![d] = rr]
           Q == [book.order EXCEPT ![d] = qq]
           W == [book.own EXCEPT ![o] = ww]
           raised ==
             [book EXCEPT !.row[d].filled = @ + Max({0, cost * f.quantity - f.transfer}),
                          !.order[d].fills = (@ \ {f}) \cup {[f EXCEPT !.known = TRUE]},
                          !.own[o].tightened = @ \/ cost * f.quantity > f.transfer]
           judged == RecomputeOverage(raised, o)
           allKnown == \A e \in EntriesOf(o) : \A g \in judged.order[e].fills : g.known
           cleared == [judged EXCEPT !.own[o].unknown = @ /\ ~allKnown]
<1>1. /\ config \in Books /\ book \in Tables /\ o \in Owners
      /\ r \in BucketRows /\ q \in BucketOrders /\ w \in OwnerRows
      /\ book.row \in [Entries -> BucketRows] /\ book.order \in [Entries -> BucketOrders]
      /\ book.own \in [Owners -> OwnerRows]
      /\ TablesOK(book) /\ RowOK(book, d) /\ forgiven \in Nat
  BY BookFacts DEF RiskIInv, Frames, TablesOK, Tables
<1>2. f \in Evidence /\ cost \in Nat
  BY <1>1, RiskAssumption DEF BucketOrders
<1>3. after \in Evidence /\ excess \in Nat /\ more \in BOOLEAN
  <2>1. cost * f.quantity - f.transfer \in Int
    BY <1>2 DEF Evidence
  <2>2. excess \in Nat
    BY <2>1, OfTwo
  <2>3. f \in Evidence
    BY <1>2
  <2>4. after \in Evidence
    BY <2>3 DEF Evidence
  <2> QED BY <2>2, <2>4
<1>4. book' = Sealed(cleared, o) /\ UNCHANGED <<config, snap, sent, seen, flat, lock, forgiven, lifted>>
  BY DEF CompleteActual
<1>r. raised = [book EXCEPT !.row = R, !.order = Q, !.own = W]
  OBVIOUS
<1> HIDE DEF raised
<1> HIDE DEF after, excess, more
<1>5. /\ rr \in BucketRows /\ rr.state = r.state /\ rr.held = r.held /\ rr.quantity = r.quantity
      /\ rr.reserved = r.reserved /\ rr.filled = r.filled + excess
  BY <1>1, <1>3 DEF BucketRows
<1>6. qq \in BucketOrders /\ qq.state = q.state /\ qq.cum = q.cum
  BY <1>1, <1>3 DEF BucketOrders
<1>7. /\ ww \in OwnerRows /\ ww.state = w.state /\ ww.over = w.over
  BY <1>1, <1>3 DEF OwnerRows
<1> HIDE DEF rr, qq, ww
<1>8. /\ R \in [Entries -> BucketRows] /\ Q \in [Entries -> BucketOrders] /\ W \in [Owners -> OwnerRows]
      /\ R[d] = rr /\ Q[d] = qq /\ W[o] = ww
      /\ \A e \in Entries \ {d} : R[e] = book.row[e] /\ Q[e] = book.order[e]
      /\ \A p \in Owners \ {o} : W[p] = book.own[p]
  BY <1>1, <1>5, <1>6, <1>7
<1> HIDE DEF R, Q, W
<1>9. /\ raised \in Tables /\ raised.row = R /\ raised.order = Q /\ raised.own = W
      /\ raised.scope = book.scope
  <2>1. raised \in Tables
    BY <1>1, <1>8, <1>r, TablesWith
  <2> QED BY <1>1, <1>r, <2>1 DEF Tables
<1>10. /\ judged \in Tables /\ judged.row = R /\ judged.order = Q /\ judged.scope = book.scope
       /\ \A p \in Owners \ {o} : judged.own[p] = W[p]
       /\ judged.own[o].state = W[o].state
       /\ judged.own[o].over \/ ~(Usage(raised) > Min(OwnLimits(raised, o)))
  <2> DEFINE x == o
  <2>1. x \in Owners
    BY <1>1
  <2> HIDE DEF x
  <2>2. judged = RecomputeOverage(raised, x)
    BY DEF x
  <2> HIDE DEF judged
  <2>3. /\ judged \in Tables /\ judged.row = raised.row /\ judged.order = raised.order
        /\ judged.scope = raised.scope
        /\ \A p \in Owners \ {x} : judged.own[p] = raised.own[p]
        /\ judged.own[x].state = raised.own[x].state
        /\ judged.own[x].over \/ ~(Usage(raised) > Min(OwnLimits(raised, x)))
    BY <1>9, <2>1, <2>2, OverageFacts
  <2> QED BY <1>9, <2>3 DEF x
<1> HIDE DEF judged, allKnown
<1>11. /\ cleared \in Tables /\ cleared.row = R /\ cleared.order = Q /\ cleared.scope = book.scope
       /\ \A p \in Owners \ {o} : cleared.own[p] = W[p]
       /\ cleared.own[o].state = W[o].state /\ cleared.own[o].over = judged.own[o].over
  <2> DEFINE j == judged.own[o]
             v == [j EXCEPT !.unknown = j.unknown /\ ~allKnown]
  <2>1. j \in OwnerRows /\ judged.own \in [Owners -> OwnerRows]
    BY <1>1, <1>10 DEF Tables
  <2>2. (j.unknown /\ ~allKnown) \in BOOLEAN
    OBVIOUS
  <2>3. v \in OwnerRows /\ v.state = j.state /\ v.over = j.over
    BY <2>1, <2>2 DEF OwnerRows
  <2>4. cleared = [judged EXCEPT !.own = [judged.own EXCEPT ![o] = v]]
    OBVIOUS
  <2> HIDE DEF v, j, cleared
  <2>5. /\ cleared \in Tables /\ cleared.row = judged.row /\ cleared.order = judged.order
        /\ cleared.scope = judged.scope /\ cleared.own = [judged.own EXCEPT ![o] = v]
    BY <1>1, <1>10, <2>1, <2>3, <2>4 DEF Tables
  <2>6. cleared.own[o] = v /\ \A p \in Owners \ {o} : cleared.own[p] = judged.own[p]
    BY <1>1, <2>1, <2>5
  <2> QED BY <1>10, <2>3, <2>5, <2>6 DEF j
<1> HIDE DEF cleared
<1>12. /\ book' \in Tables /\ book'.row = R /\ book'.order = Q /\ book'.scope = book.scope
       /\ \A p \in Owners \ {o} : book'.own[p] = W[p]
       /\ book'.own[o].state = W[o].state /\ book'.own[o].over = judged.own[o].over
       /\ book'.own[o].approval # "current"
  <2>1. cleared \in Tables
    BY <1>11
  <2>2. /\ book' \in Tables /\ book'.row = cleared.row /\ book'.order = cleared.order
        /\ book'.scope = cleared.scope
        /\ \A p \in Owners \ {o} : book'.own[p] = cleared.own[p]
        /\ book'.own[o].state = cleared.own[o].state /\ book'.own[o].over = cleared.own[o].over
        /\ book'.own[o].approval # "current"
    BY <1>1, <1>4, <2>1, SealedFacts
  <2> QED BY <1>11, <2>2
<1>13. \A p \in Owners : book'.own[p].state = book.own[p].state
  BY <1>7, <1>8, <1>12
<1>14. \A p \in Owners : ApprovalOK(book'.own[p])
  BY <1>1, <1>8, <1>12 DEF TablesOK, ApprovalOK
<1>15. /\ q.cum > 0 /\ q.cum \in Nat /\ q.state # "none" /\ r.state # "none" /\ r.quantity \in Nat
       /\ r.filled \in Nat /\ r.filled >= Allocated(r, q.cum) /\ Allocated(r, q.cum) \in Nat
       /\ Allocated(r, q.cum) > 0
  <2>1. /\ q.cum > 0 /\ q.cum \in Nat /\ q.state # "none" /\ r.state # "none"
        /\ r.filled \in Nat /\ r.filled >= Allocated(r, q.cum)
        /\ r.quantity > 0 /\ r.reserved > 0 /\ q.cum <= r.quantity /\ r.quantity \in Nat
    BY <1>1 DEF RowOK, BucketOrders, BucketRows
  <2> QED BY <1>1, <2>1, AllocatedFacts
<1>16. \A e \in Entries : RowOK(book', e)
  <2> SUFFICES ASSUME NEW e \in Entries PROVE RowOK(book', e)
    OBVIOUS
  <2>1. CASE e # d
    BY <1>1, <1>8, <1>12, <1>13, <2>1, BookFacts DEF TablesOK, RowOK
  <2>2. CASE e = d
    <3>1. Allocated(rr, q.cum) = Allocated(r, q.cum)
      BY <1>5 DEF Allocated
    <3>2. rr.filled >= Allocated(r, q.cum)
      BY <1>3, <1>5, <1>15
    <3> QED BY <1>1, <1>5, <1>6, <1>8, <1>12, <1>13, <1>15, <2>2, <3>1, <3>2 DEF RowOK
  <2> QED BY <2>1, <2>2
<1>17. TablesOK(book')
  BY <1>12, <1>14, <1>16 DEF TablesOK
<1>18. Capped(book', forgiven')
  <2>1. CASE judged.own[o].over
    BY <1>5, <1>8, <1>12, <1>15, <2>1 DEF Capped, BucketLatched
  <2>2. CASE ~(Usage(raised) > Min(OwnLimits(raised, o)))
    <3>1. config.limit[d] \in OwnLimits(raised, o)
      BY <1>5, <1>8, <1>9, <1>15 DEF OwnLimits, EntriesOf
    <3>2. OwnLimits(raised, o) \in SUBSET Nat
      BY <1>1, BookFacts DEF OwnLimits, EntriesOf
    <3>3. Min(OwnLimits(raised, o)) \in Nat /\ Min(OwnLimits(raised, o)) <= config.limit[d]
      BY <3>1, <3>2, MinOfNats
    <3>4. Usage(book') <= Usage(raised)
      <4>1. \A p \in Owners : book'.own[p].state = raised.own[p].state
        BY <1>8, <1>9, <1>12
      <4> QED BY <1>1, <1>9, <1>12, <4>1, OwnerStepShrinks
    <3>5. Usage(book') \in Nat /\ Usage(raised) \in Nat /\ config.limit[d] \in Nat
      BY <1>1, <1>9, <1>12, UsageIsSum, BookFacts
    <3>6. Usage(book') <= config.limit[d]
      BY <2>2, <3>3, <3>4, <3>5
    <3>7. book'.row[d].filled # 0
      BY <1>3, <1>5, <1>8, <1>12, <1>15
    <3> QED BY <3>6, <3>7 DEF Capped
  <2> QED BY <1>10, <2>1, <2>2
<1>19. \A e \in Entries :
         /\ seen[e].cum <= book'.row[e].quantity
         /\ book'.order[e].state = book.order[e].state /\ book'.order[e].cum = book.order[e].cum
         /\ sent'[e] = "wire" =>
              /\ sent[e] = "wire" /\ book'.row[e].state # "none"
              /\ book'.row[e].held = book.row[e].held
              /\ book'.row[e].reserved = book.row[e].reserved
              /\ book'.row[e].quantity = book.row[e].quantity
  BY <1>4, <1>5, <1>6, <1>8, <1>12 DEF RiskIInv, SentOK
<1>20. \A a, p \in Owners :
         book'.own[a].state = "active" /\ book'.own[p].state = "active" /\ a # p
           => SymbolOf(a) # SymbolOf(p)
  BY <1>13 DEF RiskIInv, OneGeneration
<1>21. /\ snap' \in [Entries -> Nat \cup {-1}] /\ forgiven' \in Nat /\ lifted' = FALSE
       /\ sent' \in [Entries -> {"no", "wire", "never"}] /\ book.scope \subseteq book'.scope
  BY <1>4, <1>12 DEF RiskIInv, Frames, ReliefIsCurrent
<1> QED BY <1>4, <1>17, <1>18, <1>19, <1>20, <1>21, TablesStepKeeps

(* The largest of some bounded amounts is one of them and none is above it. *)
LEMMA LargestOfBounded ==
  ASSUME NEW n \in Nat, NEW S \in SUBSET (0 .. n), S # {}
  PROVE  Max(S) \in S /\ \A x \in S : Max(S) >= x
<1> DEFINE B == {n - x : x \in S}
<1>1. B \subseteq Nat /\ B # {}
  <2>1. \A x \in S : n - x \in Nat
    OBVIOUS
  <2> QED BY <2>1
<1>2. PICK b \in B : \A c \in B : b <= c
  <2> HIDE DEF B
  <2> QED BY <1>1, LeastNat
<1>3. PICK x \in S : b = n - x
  OBVIOUS
<1>4. \A y \in S : x >= y
  <2> SUFFICES ASSUME NEW y \in S PROVE x >= y
    OBVIOUS
  <2>1. n - y \in B
    OBVIOUS
  <2>2. b <= n - y
    BY <1>2, <2>1
  <2> QED BY <1>3, <2>2
<1> QED BY <1>4 DEF Max

(* MaximumQuantity is a quantity whose reservation fits. *)
LEMMA LargestFits ==
  ASSUME NEW available \in Nat
  PROVE  /\ MaximumQuantity(available) \in 0 .. Quantity
         /\ ReservationMinor(MaximumQuantity(available)) <= available
<1> DEFINE S == {q \in 0 .. Quantity : ReservationMinor(q) <= available}
<1>1. 0 \in S /\ S \in SUBSET (0 .. Quantity) /\ Quantity \in Nat
  BY ReservationFacts, RiskAssumption
<1> HIDE DEF S
<1>2. Max(S) \in S
  BY <1>1, LargestOfBounded
<1> QED BY <1>2 DEF S, MaximumQuantity

(* The admission: the decision's row appears with what it reserves, which     *)
(* fits on top of the bucket's usage into its own limit and every recorded    *)
(* one, and its owner is the symbol's only active one.                        *)
LEMMA AdmitKeeps ==
  ASSUME RiskIInv, NEW d \in Entries, Admit(d)
  PROVE  RiskIInv'
<1> DEFINE o == OwnerOf(d)
           w == book.own[o]
           q == AdmittedQuantity(d)
           amount == ReservationMinor(q)
           rr == [state |-> "HELD", quantity |-> q, reserved |-> amount, held |-> amount,
                  filled |-> 0]
           ww == [w EXCEPT !.state = "active"]
           R == [book.row EXCEPT ![d] = rr]
           W == [book.own EXCEPT ![o] = ww]
           m == [book EXCEPT !.row = R, !.own = W]
<1>1. /\ config \in Books /\ book \in Tables /\ o \in Owners /\ w \in OwnerRows
      /\ book.row \in [Entries -> BucketRows] /\ book.own \in [Owners -> OwnerRows]
      /\ TablesOK(book) /\ RowOK(book, d) /\ forgiven \in Nat /\ config.limit[d] \in Nat
      /\ snap \in [Entries -> Nat \cup {-1}]
  BY BookFacts DEF RiskIInv, Frames, TablesOK, Tables
<1>2. /\ book.row[d].state = "none" /\ snap[d] # -1 /\ q > 0 /\ OwnerAvailable(o) /\ UsageHonest(d, q)
      /\ book' = Sealed(m, o) /\ snap' = [snap EXCEPT ![d] = -1]
      /\ UNCHANGED <<config, sent, seen, flat, lock, forgiven, lifted>>
  BY DEF Admit
<1>3. /\ q \in Nat /\ q <= Quantity /\ amount \in Nat /\ amount > 0
      /\ snap[d] \in Nat /\ snap[d] + amount <= config.limit[d]
  <2> DEFINE room == Max({0, config.limit[d] - snap[d]})
  <2>1. snap[d] \in Nat /\ config.limit[d] - snap[d] \in Int
    BY <1>1, <1>2
  <2>2. room = IF 0 >= config.limit[d] - snap[d] THEN 0 ELSE config.limit[d] - snap[d]
    BY <2>1, OfTwo
  <2>3. room \in Nat
    BY <2>1, <2>2
  <2>4. q = MaximumQuantity(room)
    BY DEF AdmittedQuantity
  <2> HIDE DEF room, q
  <2>5. q \in 0 .. Quantity /\ amount <= room
    BY <2>3, <2>4, LargestFits
  <2>6. q \in Nat /\ q <= Quantity
    BY <2>5, RiskAssumption
  <2>7. amount \in Nat /\ amount > 0
    BY <1>2, <2>6, ReservationFacts
  <2> QED BY <1>1, <2>1, <2>2, <2>5, <2>6, <2>7
<1> HIDE DEF q, amount
<1>4. /\ rr \in BucketRows /\ rr.state = "HELD" /\ rr.quantity = q /\ rr.reserved = amount
      /\ rr.held = amount /\ rr.filled = 0
  BY <1>3 DEF BucketRows
<1>5. /\ ww \in OwnerRows /\ ww.state = "active" /\ ww.over = w.over /\ ww.unknown = w.unknown
      /\ ww.approval = w.approval /\ ww.sealed = w.sealed /\ ww.tightened = w.tightened
  BY <1>1 DEF OwnerRows
<1> HIDE DEF rr, ww
<1>6. /\ R \in [Entries -> BucketRows] /\ W \in [Owners -> OwnerRows] /\ R[d] = rr /\ W[o] = ww
      /\ \A e \in Entries \ {d} : R[e] = book.row[e]
      /\ \A p \in Owners \ {o} : W[p] = book.own[p]
  BY <1>1, <1>4, <1>5
<1> HIDE DEF R, W
<1>7. m \in Tables /\ m.row = R /\ m.own = W /\ m.order = book.order /\ m.scope = book.scope
  BY <1>1, <1>6 DEF Tables
<1> HIDE DEF m
<1>8. /\ book' \in Tables /\ book'.row = R /\ book'.order = book.order /\ book'.scope = book.scope
      /\ \A p \in Owners \ {o} : book'.own[p] = book.own[p]
      /\ book'.own[o].state = "active" /\ book'.own[o].approval # "current"
  <2>1. /\ book' \in Tables /\ book'.row = m.row /\ book'.order = m.order /\ book'.scope = m.scope
        /\ \A p \in Owners \ {o} : book'.own[p] = m.own[p]
        /\ book'.own[o].state = m.own[o].state /\ book'.own[o].approval # "current"
    BY <1>1, <1>2, <1>7, SealedFacts
  <2> QED BY <1>5, <1>6, <1>7, <2>1
<1>9. w.state \in {"none", "active"}
      /\ \A p \in Owners : p # o /\ book.own[p].state = "active" => SymbolOf(p) # SymbolOf(o)
  BY <1>2 DEF OwnerAvailable, ActiveOn
<1>10. /\ book.order[d].state = "none" /\ book.order[d].cum = 0 /\ book.order[d].fills = {}
       /\ book.row[d].quantity = 0 /\ book.row[d].held = 0 /\ book.row[d].filled = 0
  BY <1>1, <1>2 DEF RowOK, NoReservation
<1>11. \A e \in Entries : RowOK(book', e)
  <2> SUFFICES ASSUME NEW e \in Entries PROVE RowOK(book', e)
    OBVIOUS
  <2>0. book'.own[OwnerOf(e)].state = book.own[OwnerOf(e)].state
        \/ book'.own[OwnerOf(e)].state = "active"
    BY <1>1, <1>8, BookFacts
  <2>1. CASE e # d
    BY <1>1, <1>6, <1>8, <2>0, <2>1 DEF TablesOK, RowOK
  <2>2. CASE e = d
    <3>1. Allocated(rr, 0) = 0
      BY DEF Allocated
    <3>2. book'.row[e] = rr /\ book'.order[e] = book.order[d] /\ book'.own[OwnerOf(e)].state = "active"
      BY <1>6, <1>8, <2>2
    <3>3. Allocated(book'.row[e], book'.order[e].cum) = 0
      BY <1>10, <3>1, <3>2
    <3>4. /\ book'.row[e].state = "HELD" /\ book'.row[e].quantity = q
          /\ book'.row[e].reserved = amount /\ book'.row[e].held = amount
          /\ book'.row[e].filled = 0 /\ book'.order[e].cum = 0 /\ book'.order[e].fills = {}
      BY <1>4, <1>10, <3>2
    <3> HIDE DEF o
    <3> QED BY <1>2, <1>3, <3>2, <3>3, <3>4 DEF RowOK
  <2> QED BY <2>1, <2>2
<1>12. TablesOK(book')
  <2>1. \A p \in Owners : ApprovalOK(book'.own[p])
    BY <1>1, <1>8 DEF TablesOK, ApprovalOK
  <2> QED BY <1>8, <1>11, <2>1 DEF TablesOK
<1>13. Capped(book', forgiven')
  <2>1. d \notin Present(book) /\ Present(book') = Present(book) \cup {d}
    <3>1. d \notin Present(book)
      BY <1>2 DEF Present
    <3>2. \A e \in Entries : Departed(book', OwnerOf(e)) <=> Departed(book, OwnerOf(e))
      BY <1>1, <1>8, <1>9, BookFacts DEF Departed
    <3>3. ~Departed(book', OwnerOf(d))
      BY <1>8 DEF Departed
    <3> QED BY <1>4, <1>6, <1>8, <3>1, <3>2, <3>3 DEF Present
  <2>2. Usage(book') = Usage(book) + amount + 0
    BY <1>1, <1>4, <1>6, <1>8, <2>1, UsageGrows
  <2>3. Usage(book) \in Nat
    BY <1>1, UsageIsSum
  <2>4. \A e \in Recorded(book') : Usage(book') <= config.limit[e]
    <3> SUFFICES ASSUME NEW e \in Recorded(book') PROVE Usage(book') <= config.limit[e]
      OBVIOUS
    <3>1. CASE e = d
      <4>1. snap[d] >= Usage(book)
        BY <1>2 DEF UsageHonest
      <4> QED BY <1>1, <1>3, <2>2, <2>3, <3>1, <4>1
    <3>2. CASE e # d
      <4>1. e \in Recorded(book) /\ config.limit[e] \in Nat
        BY <1>1, <1>6, <1>8, <3>2, BookFacts DEF Recorded
      <4>2. Usage(book) + amount <= config.limit[e]
        BY <1>2, <4>1 DEF UsageHonest, amount
      <4> QED BY <1>3, <2>2, <2>3, <4>1, <4>2
    <3> QED BY <3>1, <3>2
  <2> QED BY <2>4 DEF Capped
<1>14. \A e \in Entries :
         /\ seen[e].cum <= book'.row[e].quantity
         /\ book'.order[e].state = book.order[e].state /\ book'.order[e].cum = book.order[e].cum
         /\ sent'[e] = "wire" =>
              /\ sent[e] = "wire" /\ book'.row[e].state # "none"
              /\ book'.row[e].held = book.row[e].held
              /\ book'.row[e].reserved = book.row[e].reserved
              /\ book'.row[e].quantity = book.row[e].quantity
  <2> SUFFICES ASSUME NEW e \in Entries
               PROVE  /\ seen[e].cum <= R[e].quantity
                      /\ sent[e] = "wire" => R[e] = book.row[e] /\ R[e].state # "none"
    BY <1>2, <1>8
  <2>1. seen[e].cum <= book.row[e].quantity /\ (sent[e] = "wire" => book.row[e].state # "none")
        /\ seen[e].cum \in Nat
    BY DEF RiskIInv, SentOK, Frames
  <2> QED BY <1>2, <1>3, <1>4, <1>6, <1>10, <2>1
<1>15. \A a, p \in Owners :
         book'.own[a].state = "active" /\ book'.own[p].state = "active" /\ a # p
           => SymbolOf(a) # SymbolOf(p)
  BY <1>8, <1>9 DEF RiskIInv, OneGeneration
<1>16. /\ snap' \in [Entries -> Nat \cup {-1}] /\ forgiven' \in Nat /\ lifted' = FALSE
       /\ sent' \in [Entries -> {"no", "wire", "never"}] /\ book.scope \subseteq book'.scope
  BY <1>1, <1>2, <1>8 DEF RiskIInv, Frames, ReliefIsCurrent
<1> QED BY <1>2, <1>12, <1>13, <1>14, <1>15, <1>16, TablesStepKeeps

(* The books that are looked at start without a row, an owner or a lock. *)
LEMMA RiskIInvInit == RiskInit => RiskIInv
<1> SUFFICES ASSUME RiskInit PROVE RiskIInv
  OBVIOUS
<1>1. config \in Books
  BY DEF RiskInit
<1>2. /\ NoReservation \in BucketRows /\ NoOrder \in BucketOrders /\ NoOwner \in OwnerRows
  BY DEF NoReservation, BucketRows, NoOrder, BucketOrders, NoOwner, OwnerRows
<1>3. /\ book.row = [d \in Entries |-> NoReservation] /\ book.order = [d \in Entries |-> NoOrder]
      /\ book.own = [o \in Owners |-> NoOwner] /\ book.scope = {} /\ book.reconcile = {}
      /\ book \in Tables
  BY <1>2 DEF RiskInit, Tables
<1>4. /\ snap = [d \in Entries |-> -1] /\ sent = [d \in Entries |-> "no"]
      /\ seen = [d \in Entries |-> [cum |-> 0, terminal |-> FALSE]] /\ flat = {}
      /\ lock = [open |-> FALSE, seq |-> 0, event |-> 0, approved |-> <<0, 0>>, tightened |-> FALSE]
      /\ forgiven = 0 /\ lifted = FALSE
  BY DEF RiskInit
<1>5. Frames
  <2>1. Quantity \in Nat
    BY RiskAssumption
  <2>2. seen \in [Entries -> [cum : 0 .. Quantity, terminal : BOOLEAN]]
    BY <1>4, <2>1
  <2> QED BY <1>1, <1>4, <2>2 DEF Frames, LossLocks
<1>6. TablesOK(book)
  <2>1. \A d \in Entries : RowOK(book, d)
    BY <1>3, RiskAssumption DEF RowOK, NoReservation, NoOrder, Allocated
  <2>2. \A o \in Owners : ApprovalOK(book.own[o])
    BY <1>3 DEF ApprovalOK, NoOwner
  <2> QED BY <1>3, <2>1, <2>2 DEF TablesOK
<1>7. SentOK /\ LockOK
  BY <1>3, <1>4 DEF SentOK, LockOK, NoReservation
<1>8. Capped(book, forgiven)
  BY <1>3 DEF Capped, Recorded, NoReservation
<1>9. WorkingCovered /\ FillCountedOrLatched /\ OneGeneration /\ ReliefIsCurrent
  BY <1>3, <1>4 DEF WorkingCovered, FillCountedOrLatched, OneGeneration, ReliefIsCurrent, NoOrder,
     NoOwner
<1> QED BY <1>5, <1>6, <1>7, <1>8, <1>9 DEF RiskIInv

(* Every step of the buckets keeps the invariant. *)
LEMMA RiskIInvStep == RiskIInv /\ [RiskNext]_riskVars => RiskIInv'
<1> SUFFICES ASSUME RiskIInv, [RiskNext]_riskVars PROVE RiskIInv'
  OBVIOUS
<1>1. CASE UNCHANGED riskVars
  <2>1. UNCHANGED <<config, book, snap, sent, seen, flat, lock, forgiven, lifted>>
    BY <1>1 DEF riskVars
  <2>2. Entries' = Entries /\ Owners' = Owners
    BY <2>1, NextTables
  <2>3. Frames' /\ SentOK' /\ LockOK'
    BY <2>1, <2>2 DEF RiskIInv, Frames, SentOK, LockOK, LossLocks
  <2>4. WorkingCovered' /\ FillCountedOrLatched' /\ OneGeneration' /\ ReliefIsCurrent'
    BY <2>1, <2>2 DEF RiskIInv, WorkingCovered, FillCountedOrLatched, OneGeneration,
       ReliefIsCurrent, OwnerOf, SymbolOf, Allocated
  <2>5. TablesOK(book') /\ Capped(book', forgiven')
    BY <2>1 DEF RiskIInv
  <2> QED BY <2>1, <2>3, <2>4, <2>5, StepKeeps
<1>2. CASE \/ \E d \in Entries : CollectUsage(d) \/ Submit(d)
           \/ \E o \in Owners : Close(o)
           \/ ActivateEntryLossLock \/ ApproveLock \/ ReleaseEntryLossLock
  BY <1>2, QuietKeeps
<1>3. ASSUME NEW d \in Entries, Admit(d) PROVE RiskIInv'
  BY <1>3, AdmitKeeps
<1>4. ASSUME NEW d \in Entries, ReturnHold(d) PROVE RiskIInv'
  BY <1>4, ReturnKeeps
<1>5. ASSUME NEW d \in Entries, Register(d) PROVE RiskIInv'
  BY <1>5, RegisterKeeps
<1>6. ASSUME NEW d \in Entries, NEW cum \in seen[d].cum .. book.row[d].quantity,
             NEW terminal \in BOOLEAN, RecordBucketFill(d, cum, terminal)
      PROVE  RiskIInv'
  BY <1>6, RecordKeeps
<1>7. ASSUME NEW d \in Entries, NEW f \in book.order[d].fills, NEW cost \in Costs,
             CompleteActual(d, f, cost)
      PROVE  RiskIInv'
  BY <1>7, CompleteKeeps
<1>8. CASE \/ \E o \in Owners : ReleaseOwner(o) \/ ApproveOverage(o)
           \/ \E s \in book.reconcile : ResolveReconcile(s)
  BY <1>8, OwnersKeep
<1>9. ASSUME NEW o \in Owners, ReleaseRiskOverageLatch(o) PROVE RiskIInv'
  BY <1>9, ReliefKeeps
<1> QED BY <1>1, <1>2, <1>3, <1>4, <1>5, <1>6, <1>7, <1>8, <1>9 DEF RiskNext

(* The image of a finite set. *)
LEMMA ImageFinite ==
  ASSUME NEW f, NEW T, IsFiniteSet(T)
  PROVE  IsFiniteSet({f[x] : x \in T})
<1> DEFINE g == [x \in T |-> f[x]]
           U == {f[x] : x \in T}
<1>1. g \in Surjection(T, U)
  BY DEF Surjection
<1> QED BY <1>1, FS_Surjection

(* The same of finitely many amounts: their sum bounds them. *)
LEMMA MaxOfFinite ==
  ASSUME NEW S, S \subseteq Nat, IsFiniteSet(S), S # {}
  PROVE  Max(S) \in S /\ \A x \in S : Max(S) >= x
<1> DEFINE f == [x \in S |-> x]
           n == SumFunctionOnSet(f, S)
<1>1. f \in [S -> Nat] /\ f \in [S -> Int] /\ S \in SUBSET S
  OBVIOUS
<1>2. n \in Nat
  BY <1>1, SumOfNats
<1>3. ASSUME NEW x \in S PROVE x <= n
  <2>1. f[x] <= n
    BY <1>1, SumOfNats
  <2> QED BY <2>1
<1> HIDE DEF n
<1>4. S \in SUBSET (0 .. n)
  BY <1>2, <1>3
<1> QED BY <1>2, <1>4, LargestOfBounded

(* The invariant of the runs follows: a row that holds the usage is recorded. *)
LEMMA RiskIInvImplies == RiskIInv => RiskInv
<1> SUFFICES ASSUME RiskIInv PROVE RiskInv
  OBVIOUS
<1>1. /\ config \in Books /\ book \in Tables /\ forgiven \in Nat
      /\ \A d \in Entries : RowOK(book, d)
  BY DEF RiskIInv, Frames, TablesOK
<1>2. RiskTypeOK
  <2>1. \A d \in Entries :
          /\ book.row[d].state \in {"none", "HELD", "FILLED", "RELEASED"}
          /\ book.row[d].held \in 0..book.row[d].reserved
          /\ book.row[d].filled \in Nat
          /\ book.order[d].state \in {"none", "ACTIVE", "RELEASED"}
          /\ book.order[d].cum \in 0..book.row[d].quantity
    BY <1>1 DEF Tables, BucketRows, BucketOrders, RowOK
  <2> QED BY <1>1, <2>1 DEF RiskTypeOK, RiskIInv, Frames, Tables, OwnerRows, LossLocks
<1>3. CapOrLatched
  <2> DEFINE S == {forgiven} \cup {config.limit[d] : d \in Recorded(book)}
  <2>1. Usage(book) \in Nat /\ \A d \in Entries : config.limit[d] \in Nat
    BY <1>1, UsageIsSum, BookFacts
  <2>2. /\ Recorded(book) \in SUBSET Entries
        /\ \A e \in Entries : book.row[e].filled # 0 => e \in Recorded(book)
    BY DEF Recorded
  <2>3. S \subseteq Nat /\ IsFiniteSet(S) /\ S # {}
    <3>1. IsFiniteSet(Recorded(book))
      BY <1>1, <2>2, BookFacts, FS_Subset
    <3>2. IsFiniteSet({config.limit[d] : d \in Recorded(book)})
      BY <3>1, ImageFinite
    <3>3. IsFiniteSet(S)
      BY <3>2, FS_Singleton, FS_Union
    <3> QED BY <1>1, <2>1, <2>2, <3>3
  <2>4. Max(S) \in Nat /\ \A x \in S : Max(S) >= x
    <3> HIDE DEF S
    <3> QED BY <2>3, MaxOfFinite
  <2>5. Max(S) >= forgiven /\ \A e \in Recorded(book) : Max(S) >= config.limit[e]
    BY <2>4
  <2> SUFFICES ASSUME Recorded(book) # {}, ~BucketLatched(book), book.scope = {}
               PROVE  Usage(book) <= Max(S)
    BY DEF CapOrLatched
  <2> HIDE DEF S
  <2>6. Usage(book) <= forgiven \/ \E e \in Recorded(book) : Usage(book) <= config.limit[e]
    BY <2>2 DEF RiskIInv, Capped
  <2> QED BY <1>1, <2>1, <2>2, <2>4, <2>5, <2>6
<1> QED BY <1>2, <1>3 DEF RiskIInv, RiskInv

(* The monetary buckets stay honest (RiskInv), for every book, reservation    *)
(* and cost.                                                                 *)
THEOREM BucketsAreHonest == RiskSpec => []RiskInv
<1>1. RiskSpec => []RiskIInv
  BY RiskIInvInit, RiskIInvStep, PTL DEF RiskSpec
<1> QED BY <1>1, RiskIInvImplies, PTL
=============================================================================
