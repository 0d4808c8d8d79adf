---------------------------- MODULE GatewayInv -----------------------------
(* The inductive invariant behind AuthorisedOnce, NoResend and NonceEvidence. *)
EXTENDS Gateway

HasAttempt == Recorded \cup Dispatching \cup {"acked", "resolving"}

(* A worker past the claim holds a decision that has a row; past the record, *)
(* an attempt of that decision.                                              *)
HandleOK ==
    \A w \in Workers :
        /\ pc[w] # "idle" => wDec[w] \in issued
        /\ pc[w] \in HasAttempt =>
               /\ wAtt[w] \in Attempts
               /\ attState[wAtt[w]] # "none"
               /\ attDec[wAtt[w]] = wDec[w]

(* A handle belongs to the worker that recorded it. *)
HandleUnique ==
    \A v, w \in Workers :
        (pc[v] \in HasAttempt /\ pc[w] \in HasAttempt /\ wAtt[v] = wAtt[w]) => v = w

(* Rows: an attempt that exists is bound to a decision that exists; only a   *)
(* started one was ever sent.                                                *)
RowOK ==
    \A a \in Attempts :
        /\ attState[a] # "none" => attDec[a] \in issued
        /\ a \in started => attState[a] # "none"
        /\ sends[a] > 0 => a \in started

(* Where each worker stands against the dispatch record of its attempt. *)
DispatchOK ==
    \A w \in Workers :
        /\ pc[w] \in Recorded => wAtt[w] \notin started
        /\ pc[w] \in HasAttempt \ Recorded => wAtt[w] \in started

(* A nonce is consumed no earlier than its decision was issued, so it goes   *)
(* stale no earlier than the decision does.                                  *)
NonceOK ==
    /\ \A d \in issued : expiresAt[d] <= now + TTLOf[d]
    /\ \A d \in spent : d \in issued /\ expiresAt[d] <= spentAt[d] + TTLOf[d]

(* Two started attempts of one decision: the nonce was pruned in between, so *)
(* the decision has expired.                                                 *)
StartedTwice ==
    \A a, b \in started : attDec[a] = attDec[b] => a = b \/ Expired(attDec[a])

(* An attempt that was sent, or whose worker passed the expiry re-check.     *)
Cleared(a) ==
    \/ sends[a] > 0
    \/ \E w \in Workers : pc[w] \in {"rechecked", "cleared"} /\ wAtt[w] = a

ClearedOnce ==
    \A a, b \in Attempts :
        (Cleared(a) /\ Cleared(b) /\ attDec[a] = attDec[b]) => a = b

(* The sends an attempt may still make, by where its worker stands. *)
Budget(a) == IF attDec[a] \in Decisions /\ KindOf[attDec[a]] = "CANCEL"
             THEN 1 + MaxRetries ELSE 1

SendBudget ==
    /\ \A a \in Attempts : sends[a] <= Budget(a)
    /\ \A w \in Workers : pc[w] \in BeforeSend => sends[wAtt[w]] < Budget(wAtt[w])

(* The inductive strengthening: the handles, the rows, the nonce ledger and  *)
(* the workers agree on who may still call the broker (Gateway.submit,       *)
(* consumeDecisionNonce, PruneSpentNonces).                                  *)
IInv ==
    /\ TypeOK /\ HandleOK /\ HandleUnique /\ RowOK /\ DispatchOK /\ NonceOK
    /\ NonceEvidence /\ StartedTwice /\ ClearedOnce /\ SendBudget
=============================================================================
