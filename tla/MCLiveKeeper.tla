---------------------------- MODULE MCLiveKeeper ----------------------------
(* A small instance of LiveKeeper. *)
EXTENDS LiveKeeper, TLC

\* The first request expires while the second is still good.
MCExpires == [r \in Request |-> IF r = CHOOSE x \in Request : TRUE THEN 2 ELSE 4]

\* The secrets are alike.
Alike == Permutations(Secret)
=============================================================================
