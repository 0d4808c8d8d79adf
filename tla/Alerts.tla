------------------------------- MODULE Alerts -------------------------------
(***************************************************************************)
(* The critical-alert outbox and its senders.                              *)
(*                                                                         *)
(* journal/outbox.go and journal/alert_claim.go keep one row per event     *)
(* key; a send is made under a lease on the row.  Two kinds of senders use *)
(* it without a common lock: the synchronous Notify of obs/notifier.go     *)
(* (one worker per calling goroutine) and the delivery executor of         *)
(* app/engine/alertdelivery.go.  A delivery they cannot account for raises *)
(* the alert latch of the entry gate (execgw/retry.go) and tightens the    *)
(* operating mode; only the operator's Acknowledge clears the latch.       *)
(*                                                                         *)
(* The clock is abstracted to two events: a lease lapses (expired, or      *)
(* claimed in the future), and a settled row's reminder window elapses.    *)
(* A claim token is the worker that minted it: a worker holds one claim at *)
(* a time and forgets it before it mints the next.                         *)
(***************************************************************************)
EXTENDS Naturals, FiniteSets

CONSTANTS Keys,        \* event keys, as the row ids 1..n in insertion order
          Direct,      \* keys written with EnqueueAlert, outside the notifier
          Senders,     \* goroutines that call Notify or RecordCritical
          Executor,    \* the delivery executor
          Nobody,      \* no lease holder
          Limit,       \* alertAttemptLimit = DefaultCriticalAttempts
          Batch,       \* alertDeliveryBatch
          Bounds       \* how much of each kind of event a behaviour may hold:
                       \*   stalls: leases that lapse under a live holder
                       \*   crashes: process restarts
                       \*   unrecorded: sends whose record could not be written
                       \*   clears: operator releases of the latch
                       \*   episodes: times each row may be armed

ASSUME AlertsAssumption ==
  /\ Keys \subseteq Nat /\ Direct \subseteq Keys /\ IsFiniteSet(Keys) /\ Keys # {}
  /\ IsFiniteSet(Senders)
  /\ Executor \notin Senders /\ Nobody \notin Senders \cup {Executor}
  /\ {Limit, Batch} \subseteq Nat \ {0}
  /\ Bounds \subseteq [stalls : Nat, crashes : Nat, unrecorded : Nat,
                       clears : Nat, episodes : [Keys -> Nat]]

Workers == Senders \cup {Executor}

VARIABLES
  row,      \* [Keys -> row of alert_outbox]
  work,     \* [Workers -> what the worker is doing]
  batch,    \* rows the executor listed and has not visited yet
  runs,     \* executor: consecutive unrecorded attempts, per row
  listRun,  \* executor: consecutive failures to list the backlog
  ack,      \* the operator's Acknowledge, which holds the notifier mutex
  latch,    \* the gate holds ReasonAlertUndelivered
  epoch,    \* clearEpochs[ReasonAlertUndelivered]
  mode,     \* the durable operating mode was tightened to ENTRY_BLOCKED
  faults,   \* bound counters: stalls, crashes and unrecorded sends used
  sent,     \* ghost: publishes of the row's current episode that succeeded
  excuse,   \* ghost: events that make another publish of the episode lawful
  owed,     \* ghost: a judgement stands that no person has answered
  bound     \* the bounds of this behaviour

outbox == <<row, sent, excuse>>
gate == <<latch, epoch, mode, owed>>
vars == <<row, work, batch, runs, listRun, ack, latch, epoch, mode, faults,
          sent, excuse, owed>>

Run == [count : 0..Limit, epoch : Nat]
NoRun == [count |-> 0, epoch |-> 0]

\* One row.  attempts is only compared with the limit, so it saturates there;
\* due: the reminder window has elapsed since the row settled.
Row == [state : {"NONE", "PENDING", "DELIVERED", "ACKNOWLEDGED"},
        attempts : 0..Limit, holder : Workers \cup {Nobody},
        lapsed : BOOLEAN, due : BOOLEAN, armed : Nat]

\* One worker.  left: publishes left of the budget; esc: the judgement
\* includes the escalation; applied: the failed attempt was recorded.
Work == [pc : {"idle", "publish", "delivered", "failed", "release", "judge",
               "block", "escalate"},
         key : Keys, left : 0..Limit, epoch : Nat,
         res : {"none", "applied", "error", "preempted"}, record : BOOLEAN]

Pending == {k \in Keys : row[k].state = "PENDING"}
Settled(k) == row[k].state \in {"DELIVERED", "ACKNOWLEDGED"}
Holds(x, k) == row[k].state = "PENDING" /\ row[k].holder = x
Claimed == {"publish", "delivered", "failed", "release"}
Sending(x, k) == work[x].key = k /\ work[x].pc \in Claimed

(***************************************************************************)
(* The outbox (each operator is one transaction).                          *)
(***************************************************************************)
Fresh(r) == [state |-> "PENDING", attempts |-> 0, holder |-> Nobody,
             lapsed |-> FALSE, due |-> FALSE, armed |-> r.armed + 1]

\* claimOwed: PENDING is owed; a settled row only once its window elapsed,
\* and never for a caller without a reminder policy.
Rearm(k, remind) == Settled(k) /\ remind /\ row[k].due
Owed(k, remind) == ~Settled(k) \/ Rearm(k, remind)
CanArm(k) == row[k].armed < bound.episodes[k]

\* recordAlertTx: insert, or re-arm every column, or leave the row alone.
Recorded(k, remind) ==
  IF row[k].state = "NONE" \/ Rearm(k, remind) THEN Fresh(row[k]) ELSE row[k]

\* acquireAlertClaimTx
Claimable(r) == r.state = "PENDING" /\ (r.holder = Nobody \/ r.lapsed)
Leased(r, x) == [r EXCEPT !.holder = x, !.lapsed = FALSE]
Tried(r) == [r EXCEPT !.attempts = IF @ < Limit THEN @ + 1 ELSE @]
Unleased(r) == [r EXCEPT !.holder = Nobody, !.lapsed = FALSE]

\* The ghosts of an armed row: a sender that still works on an earlier
\* episode cannot be recalled, so its publish is excused.
ArmGhosts(k, remind) ==
  IF row[k].state = "NONE" \/ Rearm(k, remind)
  THEN /\ sent' = [sent EXCEPT ![k] = 0]
       /\ excuse' = [excuse EXCEPT
            ![k] = Cardinality({x \in Workers : Sending(x, k)})]
  ELSE UNCHANGED <<sent, excuse>>

(***************************************************************************)
(* The notifier.                                                           *)
(***************************************************************************)
MutexFree == ack.pc = "idle"
Idle == [pc |-> "idle", key |-> CHOOSE k \in Keys : TRUE, left |-> 0,
         epoch |-> 0, res |-> "none", record |-> FALSE]
Goto(x, pc) == work' = [work EXCEPT ![x].pc = pc]

\* claimAndDeliver up to the unlock, when the claim is taken.
Observe(s, k) ==
  /\ MutexFree /\ work[s].pc = "idle" /\ k \notin Direct /\ Owed(k, TRUE)
  /\ k \in Pending \/ CanArm(k)
  /\ Claimable(Recorded(k, TRUE))
  /\ row' = [row EXCEPT ![k] = Leased(Recorded(k, TRUE), s)]
  /\ ArmGhosts(k, TRUE)
  /\ work' = [work EXCEPT ![s] = [Idle EXCEPT !.pc = "publish", !.key = k,
                                                 !.left = Limit]]
  /\ UNCHANGED <<batch, runs, listRun, ack, gate, faults>>

\* Mutant: the record-only entry does not take the notifier's mutex.
RecordOnlyUnlocked(s, k, remind) ==
  /\ work[s].pc = "idle" /\ k \notin Direct
  /\ Recorded(k, remind) # row[k] /\ CanArm(k)
  /\ row' = [row EXCEPT ![k] = Recorded(k, remind)]
  /\ ArmGhosts(k, remind)
  /\ UNCHANGED <<work, batch, runs, listRun, ack, gate, faults>>

\* RecordCritical and AnnounceOperatingMode: record, no lease, no send.
RecordOnly(s, k, remind) ==
  /\ MutexFree /\ work[s].pc = "idle" /\ k \notin Direct
  /\ Recorded(k, remind) # row[k] /\ CanArm(k)
  /\ row' = [row EXCEPT ![k] = Recorded(k, remind)]
  /\ ArmGhosts(k, remind)
  /\ UNCHANGED <<work, batch, runs, listRun, ack, gate, faults>>

\* The outbox write fails: latch under the mutex, escalate outside it.
RecordFails(s, k) ==
  /\ MutexFree /\ work[s].pc = "idle" /\ k \notin Direct
  /\ latch' = TRUE
  /\ work' = [work EXCEPT ![s] = [Idle EXCEPT !.pc = "escalate", !.key = k,
                                                 !.record = TRUE]]
  /\ UNCHANGED <<outbox, batch, runs, listRun, ack, epoch, mode, owed, faults>>

\* execgw/replay.go enqueues its alert without the notifier's mutex.
EnqueueAlert(k) ==
  /\ k \in Direct /\ row[k].state = "NONE" /\ CanArm(k)
  /\ row' = [row EXCEPT ![k] = Recorded(k, FALSE)]
  /\ ArmGhosts(k, FALSE)
  /\ UNCHANGED <<work, batch, runs, listRun, ack, gate, faults>>

(***************************************************************************)
(* Publishing and settling, for both kinds of sender.                      *)
(***************************************************************************)
Publish(x, ok) ==
  /\ work[x].pc = "publish"
  /\ Goto(x, IF ok THEN "delivered" ELSE "failed")
  /\ sent' = IF ok THEN [sent EXCEPT ![work[x].key] = @ + 1] ELSE sent
  /\ UNCHANGED <<row, excuse, batch, runs, listRun, ack, gate, faults>>

\* settleUnderClaim: applied under the caller's own token, or preempted.
SettleOutcome(x) == IF Holds(x, work[x].key) THEN "applied" ELSE "preempted"

Forget(x) ==
  runs' = IF x = Executor THEN [runs EXCEPT ![work[x].key] = NoRun] ELSE runs

\* MarkAlertDelivered.  The lease is kept when the record of a send that
\* went out cannot be written: it is all that suppresses a second one.
MarkDelivered(x) ==
  LET k == work[x].key IN
  /\ work[x].pc = "delivered"
  /\ \/ /\ SettleOutcome(x) = "applied"
        /\ row' = [row EXCEPT ![k] =
             [Tried(Unleased(row[k])) EXCEPT !.state = "DELIVERED"]]
        /\ work' = [work EXCEPT ![x] = Idle]
        /\ Forget(x) /\ UNCHANGED <<excuse, faults>>
     \/ /\ SettleOutcome(x) = "preempted"
        /\ work' = [work EXCEPT ![x] = Idle]
        /\ UNCHANGED <<row, runs, excuse, faults>>
     \/ /\ faults.unrecorded < bound.unrecorded        \* the write failed
        /\ faults' = [faults EXCEPT !.unrecorded = @ + 1]
        /\ Goto(x, "judge")
        /\ excuse' = [excuse EXCEPT ![k] = @ + 1]
        /\ UNCHANGED <<row, runs>>
  /\ UNCHANGED <<sent, batch, listRun, ack, gate>>

\* MarkAlertAttemptFailed, which keeps the lease.  The synchronous sender
\* retries while its budget lasts and its context lives, and stops at once
\* when it was preempted; the executor hands the lease back either way.
MarkAttemptFailed(x, err) ==
  LET k == work[x].key
      res == IF err THEN "error" ELSE SettleOutcome(x)
      lost == x # Executor /\ res = "preempted"
      next == IF x # Executor /\ work[x].left > 1
              THEN {"publish", "release"} ELSE {"release"}
  IN
  /\ work[x].pc = "failed"
  /\ row' = IF res = "applied" THEN [row EXCEPT ![k] = Tried(row[k])] ELSE row
  /\ \E pc \in next :
       work' = [work EXCEPT ![x] =
         IF lost THEN Idle
         ELSE [work[x] EXCEPT !.pc = pc, !.left = @ - 1, !.res = res]]
  /\ UNCHANGED <<sent, excuse, batch, runs, listRun, ack, gate, faults>>

\* ReleaseAlertClaim, under a context of its own.
Release(x, err) ==
  LET k == work[x].key
      mine == ~err /\ Holds(x, k)
  IN
  /\ work[x].pc = "release"
  /\ row' = IF mine THEN [row EXCEPT ![k] = Unleased(row[k])] ELSE row
  /\ work' = [work EXCEPT ![x] =
       IF x # Executor /\ ~err /\ ~mine THEN Idle
       ELSE [work[x] EXCEPT !.pc = "judge"]]
  /\ UNCHANGED <<sent, excuse, batch, runs, listRun, ack, gate, faults>>

(***************************************************************************)
(* Judgement: read the clear epoch, latch unless cleared since, escalate.  *)
(***************************************************************************)

\* advanceFailureRun
Judged(run) == run.count + 1 >= Limit
Advance(run) ==
  IF Judged(run) THEN NoRun
  ELSE [count |-> IF run.count > 0 /\ run.epoch = epoch THEN run.count + 1 ELSE 1,
        epoch |-> epoch]
BlockEpoch(run) == IF run.count = 0 THEN epoch ELSE run.epoch

\* Mutant: an attempt the ledger would not record is only logged.
IgnoreRecordFailure(k) ==
  work' = [work EXCEPT ![Executor] = Idle] /\ UNCHANGED runs

\* The executor counts an attempt the ledger would not record.
CountRecordFailure(k) ==
  /\ runs' = [runs EXCEPT ![k] = Advance(runs[k])]
  /\ work' = [work EXCEPT ![Executor] =
       IF Judged(runs[k])
       THEN [Idle EXCEPT !.pc = "block", !.key = k,
                                   !.epoch = BlockEpoch(runs[k])]
       ELSE Idle]

\* Mutant: the judgement carries the epoch the process started with.
StaleVerdict(k) == [Idle EXCEPT !.pc = "block", !.key = k]

\* readVerdict / readEpoch, after the evidence.
Verdict(k) == [Idle EXCEPT !.pc = "block", !.key = k, !.epoch = epoch]

Judge(x) ==
  LET k == work[x].key IN
  /\ work[x].pc = "judge"
  /\ \/ /\ x = Executor /\ work[x].res = "error"
        /\ CountRecordFailure(k)
     \/ /\ x = Executor /\ work[x].res = "preempted"
        /\ work' = [work EXCEPT ![x] = Idle] /\ UNCHANGED runs
     \/ /\ x = Executor /\ work[x].res = "applied" /\ row[k].attempts < Limit
        /\ work' = [work EXCEPT ![x] = Idle] /\ Forget(x)
     \/ /\ x = Executor /\ work[x].res = "applied" /\ row[k].attempts >= Limit
        /\ work' = [work EXCEPT ![x] = Verdict(k)]
        /\ Forget(x)
     \/ /\ x # Executor \/ work[x].res = "none"
        /\ work' = [work EXCEPT ![x] = Verdict(k)]
        /\ UNCHANGED runs
  /\ UNCHANGED <<outbox, batch, listRun, ack, gate, faults>>

\* BlockUnlessClearedSince
Block(x) ==
  /\ work[x].pc = "block"
  /\ latch' = (latch \/ epoch = work[x].epoch)
  /\ work' = [work EXCEPT ![x] = [Idle EXCEPT !.pc = "escalate",
                                             !.key = work[x].key]]
  /\ UNCHANGED <<outbox, batch, runs, listRun, ack, epoch, mode, owed, faults>>

\* escalate, and judge's unconditional latch when the mode write fails.  The
\* failed-record path (record) latched before and ignores the result.
Escalate(x, ok) ==
  /\ work[x].pc = "escalate"
  /\ mode' = (mode \/ ok)
  /\ latch' = (latch \/ (~ok /\ ~work[x].record))
  /\ owed' = IF ok THEN "durable"
             ELSE IF owed # "durable" /\ ~work[x].record THEN "memory" ELSE owed
  /\ work' = [work EXCEPT ![x] = Idle]
  /\ UNCHANGED <<outbox, batch, runs, listRun, ack, epoch, faults>>

(***************************************************************************)
(* The executor's cycle.                                                   *)
(***************************************************************************)
\* PendingAlertsForDelivery: rows below the limit first, oldest first.
Before(j, k) == \/ row[j].attempts < Limit /\ row[k].attempts >= Limit
                \/ (row[j].attempts < Limit) = (row[k].attempts < Limit) /\ j < k
Listed == {k \in Pending : Cardinality({j \in Pending : Before(j, k)}) < Batch}

List ==
  /\ work[Executor].pc = "idle" /\ batch = {} /\ Pending # {}
  /\ batch' = Listed
  /\ listRun' = NoRun
  /\ runs' = IF Cardinality(Listed) < Batch
             THEN [k \in Keys |-> IF k \in Listed THEN runs[k] ELSE NoRun]
             ELSE runs
  /\ UNCHANGED <<outbox, work, ack, gate, faults>>

ListFails ==
  /\ work[Executor].pc = "idle" /\ batch = {} /\ Pending # {}
  /\ listRun' = Advance(listRun)
  /\ work' = IF Judged(listRun)
             THEN [work EXCEPT ![Executor].pc = "block",
                               ![Executor].epoch = BlockEpoch(listRun)]
             ELSE work
  /\ UNCHANGED <<outbox, batch, runs, ack, gate, faults>>

\* deliverOne up to the publish.
Claim(k) ==
  /\ work[Executor].pc = "idle" /\ k \in batch
  /\ batch' = batch \ {k}
  /\ \/ /\ Claimable(row[k])
        /\ row' = [row EXCEPT ![k] = Leased(row[k], Executor)]
        /\ work' = [work EXCEPT ![Executor] =
             [Idle EXCEPT !.pc = "publish", !.key = k, !.left = 1]]
        /\ UNCHANGED runs
     \/ /\ k \in Pending /\ ~Claimable(row[k])           \* held elsewhere
        /\ UNCHANGED <<row, work, runs>>
     \/ /\ k \notin Pending                              \* settled since
        /\ runs' = [runs EXCEPT ![k] = NoRun]
        /\ UNCHANGED <<row, work>>
     \/ /\ CountRecordFailure(k) /\ UNCHANGED row        \* the claim failed
  /\ UNCHANGED <<sent, excuse, listRun, ack, gate, faults>>

(***************************************************************************)
(* The operator.                                                           *)
(***************************************************************************)
\* Acknowledge takes the mutex and lists what is pending (or is given ids).
AckStart ==
  /\ ack.pc = "idle" /\ epoch < bound.clears
  /\ \E ids \in {Pending} \cup {{k} : k \in Pending} :
       ack' = [pc |-> "rows", todo |-> ids]
  /\ UNCHANGED <<outbox, work, batch, runs, listRun, gate, faults>>

\* AcknowledgeAlert ignores the lease; a row that left PENDING is skipped.
AckRow ==
  /\ ack.pc = "rows" /\ ack.todo # {}
  /\ \E k \in ack.todo :
       /\ ack' = [ack EXCEPT !.todo = @ \ {k}]
       /\ row' = IF k \in Pending
                 THEN [row EXCEPT ![k] = [Unleased(row[k]) EXCEPT
                                            !.state = "ACKNOWLEDGED"]]
                 ELSE row
  /\ UNCHANGED <<work, batch, runs, listRun, sent, excuse, gate, faults>>

\* The ledger fails: Acknowledge returns before it clears.
AckFails ==
  /\ ack.pc # "idle"
  /\ ack' = [pc |-> "idle", todo |-> {}]
  /\ UNCHANGED <<outbox, work, batch, runs, listRun, gate, faults>>

AckCount ==
  /\ ack.pc = "rows" /\ ack.todo = {}
  /\ ack' = [ack EXCEPT !.pc = IF Pending = {} THEN "clear" ELSE "idle"]
  /\ UNCHANGED <<outbox, work, batch, runs, listRun, gate, faults>>

AckClear ==
  /\ ack.pc = "clear"
  /\ ack' = [ack EXCEPT !.pc = "idle"]
  /\ latch' = FALSE /\ epoch' = epoch + 1
  /\ owed' = IF mode THEN owed ELSE "none"
  /\ UNCHANGED <<outbox, work, batch, runs, listRun, mode, faults>>

\* mode-release: the person's relaxation of the operating mode.
ModeRelease ==
  /\ mode /\ mode' = FALSE
  /\ owed' = IF owed # "none" /\ latch THEN "memory" ELSE "none"
  /\ UNCHANGED <<outbox, work, batch, runs, listRun, ack, latch, epoch, faults>>

(***************************************************************************)
(* Time and failure.                                                       *)
(***************************************************************************)
LeaseLapses(k) ==
  LET live == row[k].holder \in Workers /\ Sending(row[k].holder, k) IN
  /\ k \in Pending /\ row[k].holder # Nobody /\ ~row[k].lapsed
  /\ live => faults.stalls < bound.stalls
  /\ row' = [row EXCEPT ![k].lapsed = TRUE]
  /\ faults' = IF live THEN [faults EXCEPT !.stalls = @ + 1] ELSE faults
  /\ excuse' = IF live THEN [excuse EXCEPT ![k] = @ + 1] ELSE excuse
  /\ UNCHANGED <<sent, work, batch, runs, listRun, ack, gate>>

WindowElapses(k) ==
  /\ Settled(k) /\ ~row[k].due
  /\ row' = [row EXCEPT ![k].due = TRUE]
  /\ UNCHANGED <<sent, excuse, work, batch, runs, listRun, ack, gate, faults>>

\* The process ends and starts again: memory is lost, restoreAlertEntryLatch
\* latches for whatever is still pending, the mode row is read back.
Restart ==
  /\ faults.crashes < bound.crashes
  /\ faults' = [faults EXCEPT !.crashes = @ + 1]
  /\ work' = [x \in Workers |-> Idle]
  /\ batch' = {} /\ listRun' = NoRun /\ runs' = [k \in Keys |-> NoRun]
  /\ ack' = [pc |-> "idle", todo |-> {}]
  /\ latch' = (Pending # {}) /\ epoch' = 0
  /\ excuse' = [k \in Keys |-> excuse[k] +
       Cardinality({x \in Workers : work[x].pc = "delivered" /\ work[x].key = k})]
  /\ owed' = IF owed = "memory" THEN "none" ELSE owed
  /\ UNCHANGED <<row, sent, mode>>

Init ==
  /\ bound \in Bounds
  /\ row = [k \in Keys |-> [state |-> "NONE", attempts |-> 0, holder |-> Nobody,
                            lapsed |-> FALSE, due |-> FALSE, armed |-> 0]]
  /\ work = [x \in Workers |-> Idle]
  /\ batch = {} /\ listRun = NoRun /\ runs = [k \in Keys |-> NoRun]
  /\ ack = [pc |-> "idle", todo |-> {}]
  /\ latch = FALSE /\ epoch = 0 /\ mode = FALSE
  /\ faults = [stalls |-> 0, crashes |-> 0, unrecorded |-> 0]
  /\ sent = [k \in Keys |-> 0] /\ excuse = [k \in Keys |-> 0] /\ owed = "none"

SenderStep(s) == \E k \in Keys :
  \/ Observe(s, k) \/ RecordFails(s, k)
  \/ \E remind \in BOOLEAN : RecordOnly(s, k, remind)

\* Whatever a worker has begun.
WorkerStep(x) ==
  \/ MarkDelivered(x) \/ Judge(x) \/ Block(x)
  \/ \E b \in BOOLEAN : \/ Publish(x, b) \/ MarkAttemptFailed(x, b)
                        \/ Release(x, b) \/ Escalate(x, b)

ExecutorStep == List \/ ListFails \/ (\E k \in Keys : Claim(k)) \/ WorkerStep(Executor)
OperatorStep == AckStart \/ AckRow \/ AckFails \/ AckCount \/ AckClear \/ ModeRelease

Next ==
  /\ \/ \E s \in Senders : SenderStep(s) \/ WorkerStep(s)
     \/ ExecutorStep
     \/ OperatorStep
     \/ \E k \in Keys : EnqueueAlert(k) \/ LeaseLapses(k) \/ WindowElapses(k)
     \/ Restart
  /\ UNCHANGED bound

Spec == Init /\ [][Next]_<<vars, bound>>

\* Every started send goes on, the executor cycles, time passes, and the
\* operator's command ends (it runs under a request context).
Fairness ==
  /\ \A s \in Senders : WF_vars(WorkerStep(s))
  /\ WF_vars(ExecutorStep)
  /\ \A k \in Keys : WF_vars(LeaseLapses(k))
  /\ WF_vars(AckRow \/ AckCount \/ AckClear)

LiveSpec == Spec /\ Fairness

-----------------------------------------------------------------------------
\* Type invariant: the type of the outbox, the workers and the latch.
TypeOK ==
  /\ row \in [Keys -> Row] /\ work \in [Workers -> Work]
  /\ batch \subseteq Keys /\ runs \in [Keys -> Run] /\ listRun \in Run
  /\ ack \in [pc : {"idle", "rows", "clear"}, todo : SUBSET Keys]
  /\ {latch, mode} \subseteq BOOLEAN /\ epoch \in 0..bound.clears
  /\ faults \in [stalls : 0..bound.stalls, crashes : 0..bound.crashes,
                  unrecorded : 0..bound.unrecorded]
  /\ sent \in [Keys -> Nat] /\ excuse \in [Keys -> Nat]
  /\ owed \in {"none", "memory", "durable"}

\* A row whose attempts reached the limit, and that no worker is still
\* settling or judging, keeps new entries latched: whatever the operator
\* released in between answered an earlier row, never this one (the clear
\* epoch of BlockUnlessClearedSince, execgw/retry.go, and the epoch read after
\* the evidence in notifier.go and alertdelivery.go).  A sender that stalled
\* past its lease leaves the judgement to the next holder of the row.
LimitLatched ==
  \A k \in Pending \ Direct :
    (/\ row[k].attempts >= Limit /\ faults.stalls = 0
     /\ \A x \in Workers : work[x].pc # "idle" => work[x].key # k) => latch

\* One episode of a condition is published once.  A second publish needs a
\* holder that stalled past its lease, a send whose record failed, or a crash
\* between the send and its record (the leases of alert_claim.go; the storm of
\* 2026-08-08 the comments describe).
SentOnce == \A k \in Keys : sent[k] <= 1 + excuse[k]

\* A judgement that tightened the mode, or latched because it could not, keeps
\* entries blocked until a person answered it; a restart takes away only what
\* could not be made durable (judge in notifier.go and alertdelivery.go).
BlockedUntilHuman == owed # "none" => latch \/ mode

\* The operator's release happens with no critical record pending: every
\* recording path of the notifier waits for the mutex that Acknowledge holds
\* from its count to its clear (notifier.go).
ClearMeansSeen ==
  [][AckClear => Pending \subseteq Direct]_vars

\* A recorded alert does not rest: it is delivered or acknowledged, or new
\* entries are latched, however often the ledger or the transport fails (the
\* executor's cycle, its attempt limit and its failure runs).
PendingAnswered ==
  \A k \in Keys : k \in Pending ~> (k \notin Pending \/ latch)

\* The alert path's safety: a limit reached stays latched, a judgement stands
\* until a person answers, an episode is sent once (notifier.go,
\* alertdelivery.go, alert_claim.go).
AlertInv == TypeOK /\ LimitLatched /\ BlockedUntilHuman /\ SentOnce
=============================================================================
