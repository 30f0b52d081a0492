---------------------------- MODULE MCStateLock ----------------------------
(* Three keepers on one host and one on another; k1 and k3 have the pid of a *)
(* container's first process, and another program on the first host has the pid of k2.     *)
EXTENDS StateLock

TwoHosts == [p \in Keeper |-> IF p = "k4" THEN "h2" ELSE "h1"]
Pids == [p \in Keeper |-> CASE p = "k1" -> 1 [] p = "k3" -> 1 [] OTHER -> 2]
NoSquatters == {}
OneSquatter == {<<"h1", 2>>}
=============================================================================
