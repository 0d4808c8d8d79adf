------------------------------- MODULE MCExit -------------------------------
(***************************************************************************)
(* Instances of Exit: a two-rung ladder whose first rung takes a part and   *)
(* whose last takes the rest, a ratchet of one level; three shares whose    *)
(* entry is over, or one share and a buy still working for another.         *)
(***************************************************************************)
EXTENDS Exit

MCRungs  == << [target |-> 4, lock |-> 3, take |-> "PARTIAL"],
               [target |-> 5, lock |-> 4, take |-> "TAKE"] >>
MCOpenings == {<<3, 0>>, <<1, 1>>}
MCLevels == << [target |-> 4, lock |-> 3, take |-> "none"] >>

=============================================================================
