---------------------------- MODULE GatewayOnce ----------------------------
(* The order path, seen through what it promises about each authorisation.  *)
EXTENDS Gateway

(* The attempts of a decision that called the broker: never more than one.  *)
SentFor(d) == {a \in Attempts : attDec[a] = d /\ sends[a] > 0}

stageOf == [d \in Decisions |->
    IF d \notin issued THEN "none" ELSE IF SentFor(d) = {} THEN "open" ELSE "used"]

effectOf == [d \in Decisions |->
    IF \E a \in SentFor(d) : broker[a] = "live" THEN "live"
    ELSE IF \E a \in SentFor(d) : broker[a] = "closed" THEN "ended" ELSE "none"]

verdictOf == [d \in Decisions |->
    IF \E a \in SentFor(d) : attState[a] = "CONFIRMED" THEN "done"
    ELSE IF \E a \in SentFor(d) : attState[a] \in {"NOT_DISPATCHED", "FAILED_CONFIRMED"}
         THEN "failed" ELSE "open"]

Once == INSTANCE OrderOnce WITH stage <- stageOf, effect <- effectOf, verdict <- verdictOf

(* The order path of one process implements the promise: every decision is   *)
(* used once, has one effect, and gets one verdict that is right and final    *)
(* (Gateway.submit, DispatchVerified, RecoverPending, Resolver.Resolve).     *)
ImplementsOnce == Once!Spec
=============================================================================
