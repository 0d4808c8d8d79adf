------------------------------- MODULE Replay -------------------------------
(***************************************************************************)
(* Idempotent replay: execgw/replay.go over the durable count of           *)
(* journal/replay.go.  One IN_DOUBT placement is resent, byte for byte     *)
(* and under its own key, to learn which order it became.  The broker      *)
(* honours a key for KeyTTL after it first saw it; afterwards the same     *)
(* bytes are a new order.                                                  *)
(*                                                                         *)
(* The process may crash at any point, the original request may be lost    *)
(* or late, every answer may be lost, and another resolver (modules        *)
(* Resolver and Gateway) may settle the attempt meanwhile.  Time is in     *)
(* whole units, dispatch_started_at is 0.                                  *)
(***************************************************************************)
EXTENDS Integers, FiniteSets

CONSTANTS
  Callers,       \* goroutines of the one process that may replay
  KeyTTL,        \* ReplayKeyTTL
  Margin, MaxReplays, MinInterval, MaxWaits,   \* ReplayConfig
  MaxDelay,      \* the longest a request is on its way: the client's timeout
  MaxTime, MaxCrashes                          \* bounds

ASSUME ReplayAssumption ==
  /\ {KeyTTL, Margin, MaxReplays, MinInterval, MaxWaits, MaxTime} \subseteq Nat \ {0}
  /\ MaxDelay \in Nat /\ MaxCrashes \in Nat
  /\ MaxDelay <= Margin /\ Margin < KeyTTL
  /\ Callers \cap {"nobody", "original", "dead"} = {}

VARIABLES
  now,
  state,      \* mutation_attempts.state of the attempt
  count,      \* replay_count
  last,       \* last_replay_at; -1 before the first
  caller,     \* each caller's place in ReplayInDoubt
  claim,      \* the in-process symbol claim
  wire,       \* requests on their way to the broker
  orders,     \* orders the broker created for this key
  keyAt,      \* when the broker first saw the key it now honours; -1: never
  uncounted,  \* sends so far, less those answered as still being processed
  crashes

replayVars == <<now, state, count, last, caller, claim, wire, orders, keyAt, uncounted, crashes>>

Outside == [pc |-> "out", waits |-> 0, checked |-> 0, answer |-> "none"]
Answers == {"none", "order", "in_progress", "conflict", "other", "lost"}
Original == [by |-> "original", until |-> MaxDelay]
NoOne == "nobody"

\* Type invariant: the type of the replay call and its durable count.
ReplayTypeOK ==
  /\ now \in 0..MaxTime /\ last \in -1..MaxTime /\ keyAt \in -1..MaxTime
  /\ state \in {"IN_DOUBT", "CONFIRMED", "FAILED_CONFIRMED", "UNRESOLVED_IN_DOUBT"}
  /\ count \in 0..MaxReplays
  /\ caller \in [Callers ->
       [pc : {"out", "guards", "sleep", "count", "post", "posted"},
        waits : 0..MaxWaits, checked : 0..MaxTime, answer : Answers]]
  /\ claim \in Callers \cup {NoOne}
  /\ wire \subseteq [by : Callers \cup {"original", "dead"}, until : 0..(MaxTime + MaxDelay)]
  /\ orders \in Nat /\ uncounted \in Nat /\ crashes \in 0..MaxCrashes

ReplayInit ==
  /\ now = 0 /\ state = "IN_DOUBT" /\ count = 0 /\ last = -1
  /\ caller = [c \in Callers |-> Outside] /\ claim = NoOne
  /\ wire \in {{}, {Original}}
  /\ orders = 0 /\ keyAt = -1 /\ uncounted = 0 /\ crashes = 0

-----------------------------------------------------------------------------
(* ReplayInDoubt. *)

\* A settled attempt returns at once; the symbol is claimed for the loop.
Enter(c) ==
  /\ caller[c].pc = "out" /\ state = "IN_DOUBT" /\ claim = NoOne
  /\ claim' = c
  /\ caller' = [caller EXCEPT ![c] = [Outside EXCEPT !.pc = "guards"]]
  /\ UNCHANGED <<now, state, count, last, wire, orders, keyAt, uncounted, crashes>>

Leave(c) ==
  /\ caller' = [caller EXCEPT ![c] = Outside]
  /\ claim' = IF claim = c THEN NoOne ELSE claim

\* replayGuards, on the row as it is now: the state, and the usable part of
\* the key's life measured from the dispatch.
GuardsPass == state = "IN_DOUBT" /\ now < KeyTTL - Margin

\* replayWait
MustWait == last # -1 /\ now - last < MinInterval

\* The guards, then the interval, before anything is counted.
Guards(c) ==
  /\ caller[c].pc = "guards" /\ GuardsPass
  /\ \/ /\ ~MustWait
        /\ caller' = [caller EXCEPT ![c].pc = "count", ![c].checked = now]
     \/ /\ MustWait /\ caller[c].waits < MaxWaits
        /\ caller' = [caller EXCEPT ![c].pc = "sleep", ![c].waits = @ + 1]
  /\ UNCHANGED <<now, state, count, last, claim, wire, orders, keyAt, uncounted, crashes>>

Wake(c) ==
  /\ caller[c].pc = "sleep" /\ ~MustWait
  /\ caller' = [caller EXCEPT ![c].pc = "guards"]
  /\ UNCHANGED <<now, state, count, last, claim, wire, orders, keyAt, uncounted, crashes>>

\* declineReplay: refused by a guard, out of waits, or out of replays.  The
\* query fallback takes over.
Decline(c) ==
  /\ \/ caller[c].pc = "guards"
        /\ (~GuardsPass \/ (MustWait /\ caller[c].waits >= MaxWaits))
     \/ caller[c].pc = "count" /\ (state # "IN_DOUBT" \/ count >= MaxReplays)
  /\ Leave(c)
  /\ UNCHANGED <<now, state, count, last, wire, orders, keyAt, uncounted, crashes>>

\* Mutant: the count is left for the answer to take.
MarkReplayStartedLater(c) ==
  /\ caller[c].pc = "count" /\ state = "IN_DOUBT" /\ count < MaxReplays
  /\ last' = now
  /\ caller' = [caller EXCEPT ![c].pc = "post"]
  /\ UNCHANGED <<now, state, count, claim, wire, orders, keyAt, uncounted, crashes>>

\* MarkReplayStarted: state, cap and count in one transaction, before the send.
MarkReplayStarted(c) ==
  /\ caller[c].pc = "count" /\ state = "IN_DOUBT" /\ count < MaxReplays
  /\ count' = count + 1 /\ last' = now
  /\ caller' = [caller EXCEPT ![c].pc = "post"]
  /\ UNCHANGED <<now, state, claim, wire, orders, keyAt, uncounted, crashes>>

\* ReplayPlace puts the stored bytes on the wire.  The client's timeout bounds
\* what lies between the guards and the broker.
Post(c) ==
  /\ caller[c].pc = "post"
  /\ wire' = wire \cup {[by |-> c, until |-> caller[c].checked + MaxDelay]}
  /\ caller' = [caller EXCEPT ![c].pc = "posted"]
  /\ uncounted' = uncounted + 1
  /\ UNCHANGED <<now, state, count, last, claim, orders, keyAt, crashes>>

Settled(to) == state' = IF state = "IN_DOUBT" THEN to ELSE state

\* A 2xx with the order's identifier settles the attempt (ResolveConfirmed).
Recovered(c) ==
  /\ caller[c].answer = "order"
  /\ Settled("CONFIRMED") /\ Leave(c)
  /\ UNCHANGED <<now, count, last, wire, orders, keyAt, uncounted, crashes>>

\* 409 request-in-progress: RefundReplay gives the count back and leaves
\* last_replay_at where it is.
InProgress(c) ==
  /\ caller[c].answer = "in_progress"
  /\ count' = IF count > 0 THEN count - 1 ELSE 0
  /\ caller' = [caller EXCEPT ![c].pc = "guards", ![c].answer = "none"]
  /\ uncounted' = uncounted - 1
  /\ UNCHANGED <<now, state, last, claim, wire, orders, keyAt, crashes>>

\* 422 idempotency-key-conflict, or another key's echo: parked for a human.
KeyConflict(c) ==
  /\ caller[c].answer = "conflict"
  /\ Settled("UNRESOLVED_IN_DOUBT") /\ Leave(c)
  /\ UNCHANGED <<now, count, last, wire, orders, keyAt, uncounted, crashes>>

\* Everything else describes the replay and not the order.
Inconclusive(c) ==
  /\ caller[c].answer \in {"other", "lost"}
  /\ caller' = [caller EXCEPT ![c].pc = "guards", ![c].answer = "none"]
  /\ UNCHANGED <<now, state, count, last, claim, wire, orders, keyAt, uncounted, crashes>>

-----------------------------------------------------------------------------
(* The broker, the network, the clock and the process. *)

KeyHonoured == keyAt # -1 /\ now < keyAt + KeyTTL

Answer(p, a) ==
  caller' = IF p.by \in Callers THEN [caller EXCEPT ![p.by].answer = a] ELSE caller

\* A known key returns its order or says it is being processed; an unknown or
\* expired one makes an order.  Either answer may be lost on the way back.
Accept(p) ==
  /\ p \in wire /\ wire' = wire \ {p}
  /\ IF KeyHonoured THEN UNCHANGED <<orders, keyAt>>
     ELSE orders' = orders + 1 /\ keyAt' = now
  /\ \E a \in {"order", "lost"} \cup (IF KeyHonoured THEN {"in_progress"} ELSE {}) :
       Answer(p, a)
  /\ UNCHANGED <<now, state, count, last, claim, uncounted, crashes>>

\* Refused for a reason about this request, or never arrived.
Refuse(p) ==
  /\ p \in wire /\ wire' = wire \ {p}
  /\ \E a \in {"conflict", "other", "lost"} : Answer(p, a)
  /\ UNCHANGED <<now, state, count, last, claim, orders, keyAt, uncounted, crashes>>

\* Others settle the attempt by observation: a listing names the order, or the
\* query fallback, which recovery runs after the replay has returned, finds none
\* with no request left on its way (module Resolver).
Observe ==
  /\ state = "IN_DOUBT"
  /\ \/ orders > 0 /\ state' = "CONFIRMED"
     \/ orders = 0 /\ wire = {} /\ claim = NoOne /\ state' = "FAILED_CONFIRMED"
  /\ UNCHANGED <<now, count, last, caller, claim, wire, orders, keyAt, uncounted, crashes>>

\* Requests do not outlive their deadline.
Tick ==
  /\ now < MaxTime /\ \A p \in wire : now < p.until
  /\ \A c \in Callers : caller[c].pc \in {"count", "post"} => now < caller[c].checked + MaxDelay
  /\ now' = now + 1
  /\ UNCHANGED <<state, count, last, caller, claim, wire, orders, keyAt, uncounted, crashes>>

\* The process ends: its callers and its claim are gone, what it sent is not.
ReplayCrash ==
  /\ crashes < MaxCrashes /\ crashes' = crashes + 1
  /\ caller' = [c \in Callers |-> Outside] /\ claim' = NoOne
  /\ wire' = {IF p.by \in Callers THEN [p EXCEPT !.by = "dead"] ELSE p : p \in wire}
  /\ UNCHANGED <<now, state, count, last, orders, keyAt, uncounted>>

Call(c) ==
  \/ Guards(c) \/ Wake(c) \/ Decline(c) \/ MarkReplayStarted(c) \/ Post(c)
  \/ Recovered(c) \/ InProgress(c) \/ KeyConflict(c) \/ Inconclusive(c)

ReplayNext ==
  \/ \E c \in Callers : Enter(c) \/ Call(c)
  \/ \E p \in wire : Accept(p) \/ Refuse(p)
  \/ Observe \/ Tick \/ ReplayCrash

ReplaySpec == ReplayInit /\ [][ReplayNext]_replayVars

-----------------------------------------------------------------------------
\* However often the stored body is resent, across crashes and with the
\* original still on its way, the key names one order (the TTL-minus-margin
\* guard before every send).
OneOrder == orders <= 1

\* Sends that did not come back as still-being-processed never exceed the cap,
\* crashes between the count and the answer included (counted before sent).
CapSurvivesCrash == uncounted <= MaxReplays

\* FAILED_CONFIRMED, which frees the hold, is never written about an order that
\* exists or can still arrive, whatever the replay was answered.
FailedMeansNoOrder == state = "FAILED_CONFIRMED" => orders = 0 /\ wire = {}

\* What a replay may never cost: a second order, a send beyond the cap, or a
\* hold freed under a live order (replay.go in execgw and journal).
ReplayInv == ReplayTypeOK /\ OneOrder /\ CapSurvivesCrash /\ FailedMeansNoOrder
=============================================================================
