---------------------------- MODULE OperatingMode ----------------------------
(***************************************************************************)
(* The account's operating mode: journal/operating_mode.go, its projection *)
(* on the entry gate (execgw/modegate.go), the operator's release          *)
(* (app/engine/modeops.go) and start-up (mode_projection_wiring.go).       *)
(*                                                                         *)
(* A transition commits a row, then projects it on the gate, without a     *)
(* lock between the two: the loops that escalate and the operator who      *)
(* relaxes overlap, projections arrive out of order, and the process may   *)
(* die after the commit.                                                   *)
(***************************************************************************)
EXTENDS Integers, Sequences

CONSTANTS
  Loops,         \* goroutines that escalate on a trigger
  Operator,      \* the console's release surface
  Triggers,      \* AutomaticTriggers
  DailyLoss,     \* ModeTriggerDailyLossLimit
  NoCause,
  MaxRows, MaxRestarts      \* bounds

ASSUME OperatingModeAssumption ==
  /\ Operator \notin Loops /\ DailyLoss \in Triggers /\ NoCause \notin Triggers
  /\ MaxRows \in Nat \ {0} /\ MaxRestarts \in Nat

Projectors == Loops \cup {Operator}
Modes == {"NORMAL", "ENTRY_BLOCKED", "HALT_ALL"}
Actors == {"AUTO", "OPERATOR"}
NoRow == [mode |-> "NORMAL", actor |-> "OPERATOR", cause |-> NoCause]
Rows == [mode : Modes, actor : Actors, cause : Triggers \cup {NoCause}]

VARIABLES
  rows,      \* operating_modes in rowid order
  carried,   \* the rowid each caller committed and has yet to project; 0: none
  latched,   \* latches[ReasonOperatingModeBlocked]
  modeSeq,   \* the gate's fence
  lossSeen,  \* modeDailyLossDetail is set
  up,        \* "down", "bound" (SetModeProjector), "restoring", "running"
  restoring, \* the rowid start-up read
  unread,    \* start-up could not read the mode
  restarts

gate == <<latched, modeSeq, lossSeen>>
boot == <<up, restoring, unread, restarts>>
modeVars == <<rows, carried, latched, modeSeq, lossSeen, up, restoring, unread, restarts>>

\* Type invariant: the type of the mode rows and the gate.
ModeTypeOK ==
  /\ rows \in Seq(Rows) /\ Len(rows) <= MaxRows
  /\ carried \in [Projectors -> 0..MaxRows]
  /\ latched \in BOOLEAN /\ modeSeq \in 0..MaxRows /\ lossSeen \in BOOLEAN
  /\ up \in {"down", "bound", "restoring", "running"}
  /\ restoring \in 0..MaxRows /\ unread \in BOOLEAN /\ restarts \in 0..MaxRestarts

ModeInit ==
  /\ rows = <<>> /\ carried = [c \in Projectors |-> 0]
  /\ latched = FALSE /\ modeSeq = 0 /\ lossSeen = FALSE
  /\ up = "down" /\ restoring = 0 /\ unread = FALSE /\ restarts = 0

-----------------------------------------------------------------------------
ModeRank == [NORMAL |-> 0, ENTRY_BLOCKED |-> 1, HALT_ALL |-> 2]

\* ModeAllows' EXPOSURE_RAISING column.
BlocksEntry(m) == m # "NORMAL"

RowAt(seq) == IF seq = 0 THEN NoRow ELSE rows[seq]

\* currentModeTx: the latest row in commit order, NORMAL without one.
CurrentMode == RowAt(Len(rows)).mode

\* The direction rules: HALT_ALL and NORMAL are never automatic, a trigger never
\* relaxes, and what is already in force is not written again.
MayTransition(mode, actor) ==
  /\ actor = "AUTO" => mode = "ENTRY_BLOCKED"
  /\ mode # CurrentMode
  /\ ModeRank[mode] > ModeRank[CurrentMode] \/ actor = "OPERATOR"

\* TransitionOperatingMode up to its commit.
Transition(c, mode, actor, cause) ==
  /\ up # "down" /\ carried[c] = 0 /\ Len(rows) < MaxRows
  /\ MayTransition(mode, actor)
  /\ rows' = Append(rows, [mode |-> mode, actor |-> actor, cause |-> cause])
  /\ carried' = [carried EXCEPT ![c] = Len(rows) + 1]
  /\ UNCHANGED <<gate, boot>>

\* EscalateOperatingMode: every trigger means ENTRY_BLOCKED.
Escalate(l) == \E t \in Triggers : Transition(l, "ENTRY_BLOCKED", "AUTO", t)

\* An operator, with approval and an audit line; Release itself never asks for
\* HALT_ALL, a direct transition may.
OperatorMoves == \E m \in Modes : Transition(Operator, m, "OPERATOR", NoCause)

\* ProjectOperatingMode: replace the latch, unless a later row was applied.
Projected(seq) ==
  IF seq <= modeSeq THEN UNCHANGED gate
  ELSE /\ latched' = BlocksEntry(RowAt(seq).mode)
       /\ modeSeq' = seq
       /\ lossSeen' = (RowAt(seq) = [mode |-> "ENTRY_BLOCKED", actor |-> "AUTO", cause |-> DailyLoss])

\* The call after the commit.
Project(c) ==
  /\ carried[c] # 0
  /\ Projected(carried[c])
  /\ carried' = [carried EXCEPT ![c] = 0]
  /\ UNCHANGED <<rows, boot>>

-----------------------------------------------------------------------------
(* Start-up and its end. *)

\* A new process: an empty latch map, the projector bound.
Bind ==
  /\ up = "down" /\ up' = "bound"
  /\ latched' = FALSE /\ modeSeq' = 0 /\ lossSeen' = FALSE
  /\ UNCHANGED <<rows, carried, restoring, unread, restarts>>

\* RestoreOperatingModeProjection reads the latest row, or fails and blocks.
RestoreRead ==
  /\ up = "bound"
  /\ \/ /\ up' = "restoring" /\ restoring' = Len(rows)
        /\ UNCHANGED <<gate, unread>>
     \/ /\ up' = "running" /\ unread' = TRUE
        /\ latched' = TRUE
        /\ UNCHANGED <<modeSeq, lossSeen, restoring>>
  /\ UNCHANGED <<rows, carried, restarts>>

\* Mutant: start-up binds the projector and leaves the latch to the next transition.
RestoreProjectSkipped ==
  /\ up = "restoring" /\ up' = "running"
  /\ UNCHANGED <<rows, carried, gate, restoring, unread, restarts>>

\* ...and projects what it read.
RestoreProject ==
  /\ up = "restoring" /\ up' = "running"
  /\ Projected(restoring)
  /\ UNCHANGED <<rows, carried, restoring, unread, restarts>>

ModeCrash ==
  /\ up # "down" /\ restarts < MaxRestarts /\ restarts' = restarts + 1
  /\ up' = "down" /\ carried' = [c \in Projectors |-> 0] /\ unread' = FALSE
  /\ restoring' = 0
  /\ UNCHANGED <<rows, gate>>

ModeNext ==
  \/ \E l \in Loops : Escalate(l)
  \/ OperatorMoves
  \/ \E c \in Projectors : Project(c)
  \/ Bind \/ RestoreRead \/ RestoreProject \/ ModeCrash

ModeSpec == ModeInit /\ [][ModeNext]_modeVars

-----------------------------------------------------------------------------
\* With no call between its commit and its projection, a running process refuses
\* entries whenever the journal's mode does, whatever order the projections came
\* in and however often it restarted (the Seq fence and the start-up restore).
GateFollowsJournal ==
  up = "running" /\ (\A c \in Projectors : carried[c] = 0) =>
    /\ BlocksEntry(CurrentMode) => latched
    /\ latched => BlocksEntry(CurrentMode) \/ unread

\* The announce-fails-escalates loop closes: between two operator acts at most one
\* automatic row is written, however often triggers fire.
OneEscalationPerRelease ==
  \A n \in 1..Len(rows) : n > 1 /\ rows[n].actor = "AUTO" => rows[n - 1].actor = "OPERATOR"

\* The mode protocol's safety: the gate follows the journal through races and
\* restarts, and the announce-fails-escalates loop closes (operating_mode.go,
\* modegate.go).
ModeInv == ModeTypeOK /\ GateFollowsJournal /\ OneEscalationPerRelease
=============================================================================
