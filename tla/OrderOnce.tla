----------------------------- MODULE OrderOnce -----------------------------
(***************************************************************************)
(* What the order path promises about one authorisation, whatever happens  *)
(* to processes, rows and requests: it is used at most once, at most one   *)
(* effect at the broker comes of it, and a verdict, once given, is right   *)
(* and final.                                                              *)
(***************************************************************************)
CONSTANT Decisions

VARIABLES
    stage,     \* "none", "open" (may still be used), "used"
    effect,    \* "none", "live", "ended": what the broker made of it
    verdict    \* "open", "done", "failed": what the engine concluded

vars == <<stage, effect, verdict>>

Init ==
    /\ stage = [d \in Decisions |-> "none"]
    /\ effect = [d \in Decisions |-> "none"]
    /\ verdict = [d \in Decisions |-> "open"]

Issue(d) ==
    /\ stage[d] = "none"
    /\ stage' = [stage EXCEPT ![d] = "open"]
    /\ UNCHANGED <<effect, verdict>>

Use(d) ==
    /\ stage[d] = "open"
    /\ stage' = [stage EXCEPT ![d] = "used"]
    /\ UNCHANGED <<effect, verdict>>

(* The broker may act late, but never on what was declared failed. *)
TakeEffect(d) ==
    /\ stage[d] = "used"
    /\ effect[d] = "none"
    /\ verdict[d] = "open"
    /\ effect' = [effect EXCEPT ![d] = "live"]
    /\ UNCHANGED <<stage, verdict>>

EndEffect(d) ==
    /\ effect[d] = "live"
    /\ effect' = [effect EXCEPT ![d] = "ended"]
    /\ UNCHANGED <<stage, verdict>>

Conclude(d) ==
    /\ stage[d] = "used"
    /\ verdict[d] = "open"
    /\ verdict' = [verdict EXCEPT ![d] = IF effect[d] = "none" THEN "failed" ELSE "done"]
    /\ UNCHANGED <<stage, effect>>

Next == \E d \in Decisions :
            Issue(d) \/ Use(d) \/ TakeEffect(d) \/ EndEffect(d) \/ Conclude(d)

Spec == Init /\ [][Next]_vars
=============================================================================
