------------------------------ MODULE Headroom ------------------------------
(***************************************************************************)
(* What the reservation ledger promises, whoever issues and in whatever    *)
(* order orders fill, fail and settle: a decision is committed only while  *)
(* the account has room for it, judged against everything committed at     *)
(* that instant.  A decision weighs one unit.                              *)
(***************************************************************************)
EXTENDS Naturals, FiniteSets

CONSTANT Decisions

VARIABLES
  limit,       \* the configured exposure limit
  committed    \* decisions that hold headroom or carry exposure

Init == limit \in Nat /\ committed = {}

\* The limit itself is already too much (checkLimits refuses at >=).
Commit(d) ==
  /\ d \notin committed
  /\ Cardinality(committed) + 1 < limit
  /\ committed' = committed \cup {d}

Drop(ds) == ds # {} /\ ds \subseteq committed /\ committed' = committed \ ds

\* One transaction may drop lapsed holds and commit a new decision.
Swap(ds, d) ==
  /\ ds # {} /\ ds \subseteq committed /\ d \notin committed
  /\ Cardinality(committed \ ds) + 1 < limit
  /\ committed' = (committed \ ds) \cup {d}

Next ==
  /\ \/ \E d \in Decisions : Commit(d)
     \/ \E ds \in SUBSET Decisions : Drop(ds)
     \/ \E ds \in SUBSET Decisions, d \in Decisions : Swap(ds, d)
  /\ UNCHANGED limit

Spec == Init /\ [][Next]_<<limit, committed>>
=============================================================================
