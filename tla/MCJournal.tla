----------------------------- MODULE MCJournal -----------------------------
(***************************************************************************)
(* Small instances of four protocols that run over the journal and share   *)
(* no state: the operating mode, the reservation ledger, idempotent replay *)
(* and the monetary risk buckets.  A behaviour of this module is one of    *)
(* one of them, with the others at rest: what each guarantees does not     *)
(* depend on the others, so nothing is lost, and TLC does not build their  *)
(* product.                                                                *)
(***************************************************************************)
EXTENDS OperatingMode, Reservations, Replay, RiskBuckets

CONSTANTS d1, d2, i1, i2

VARIABLE part    \* the protocol that runs

allVars == <<part, modeVars, ledgerVars, replayVars, riskVars>>

Account(exposure, dailyBuy, positions, late, sameVenue) ==
  [exposure |-> exposure, dailyBuy |-> dailyBuy, positions |-> positions,
   late |-> late, sameVenue |-> sameVenue]

(* Each account is tight in one limit: room for one exposure; one buy a day;  *)
(* one position, for two venues and for a scale-in.                           *)
TightAccounts ==
  {Account(2, 9, 9, {}, {}), Account(9, 2, 9, {i1}, {}),
   Account(9, 9, 1, {i1}, {}), Account(9, 9, 1, {}, {d1, d2})}

BookOf(owner, symbol, limit, strays, locks) ==
  [owner |-> owner, symbol |-> symbol, limit |-> limit, strays |-> strays,
   locks |-> locks]

(* Two entries of one generation, and the second without a campaign to join;  *)
(* two symbols in a bucket with room for either, or for both if no fill costs *)
(* more than it reserved; a generation and its successor; one entry under     *)
(* loss locks.                                                                *)
SmallBooks ==
  {BookOf(<<1, 1>>, <<"s">>, <<6, 6>>, {}, 0),
   BookOf(<<1, 1>>, <<"s">>, <<6, 6>>, {2}, 0),
   BookOf(<<1, 2>>, <<"s", "t">>, <<4, 5>>, {}, 0),
   BookOf(<<1, 2>>, <<"s", "t">>, <<6, 6>>, {}, 0),
   BookOf(<<1, 2>>, <<"s", "s">>, <<5, 5>>, {}, 0),
   BookOf(<<1>>, <<"s">>, <<6>>, {}, 3)}

Init ==
  /\ part \in {"mode", "ledger", "replay", "risk"}
  /\ ModeInit /\ LedgerInit /\ ReplayInit /\ RiskInit
  /\ part # "ledger" => setup = CHOOSE a \in Setups : TRUE
  /\ part # "replay" => wire = {}
  /\ part # "risk" => config = CHOOSE b \in Books : TRUE

Next ==
  /\ UNCHANGED part
  /\ \/ part = "mode" /\ ModeNext /\ UNCHANGED <<ledgerVars, replayVars, riskVars>>
     \/ part = "ledger" /\ LedgerNext /\ UNCHANGED <<modeVars, replayVars, riskVars>>
     \/ part = "replay" /\ ReplayNext /\ UNCHANGED <<modeVars, ledgerVars, riskVars>>
     \/ part = "risk" /\ RiskNext /\ UNCHANGED <<modeVars, ledgerVars, replayVars>>

Spec == Init /\ [][Next]_allVars
=============================================================================
