------------------------- MODULE MCPositionCampaign -------------------------
(***************************************************************************)
(* Three instances in one run: a single campaign with two legs, partial    *)
(* fills, overfills, replacements and stops; one whose replacements ask    *)
(* for more or less than the order they replace; and two campaigns one     *)
(* after the other on one symbol, where the first may fill after it was    *)
(* closed.  The orders are interchangeable.                                *)
(***************************************************************************)
EXTENDS PositionCampaign, TLC

OneInLegs == [campaigns |-> {1}, legs |-> {1, 2}, quantities |-> {2}, stops |-> {0, 1},
              fill |-> 3, sells |-> 0]
OneAfterAnother == [campaigns |-> {1, 2}, legs |-> {1}, quantities |-> {1}, stops |-> {},
                    fill |-> 1, sells |-> 1]

OneReplaced == [campaigns |-> {1}, legs |-> {1}, quantities |-> {1, 2}, stops |-> {},
                fill |-> 3, sells |-> 0]

ThreeScopes == {OneInLegs, OneReplaced, OneAfterAnother}

OrderSymmetry == Permutations(Orders)
=============================================================================
