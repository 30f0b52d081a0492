-------------------------- MODULE MCSignalChannel --------------------------
(* Two devices, a and b, and the relay between them. *)
EXTENDS SignalChannel

MCSide == {"a", "b"}
MCOther(s) == CHOOSE t \in MCSide : t # s
ThreeZero == [s \in MCSide |-> IF s = "a" THEN 3 ELSE 0]
TwoTwo == [s \in MCSide |-> 2]
TwoThree == [s \in MCSide |-> IF s = "a" THEN 2 ELSE 3]
NoStrays == {}

\* What another connection of the same room may say: an offer of b's connection of
\* an older generation, one of a newer generation, and, at ours, a candidate addressed to a connection a has
\* replaced and one from a connection b has replaced.
Stray(gen, conn, to, type) ==
  [gen |-> gen, conn |-> conn, to |-> to, type |-> type, seq |-> 1, first |-> 1,
   carries |-> {1}, ack |-> 1, re |-> 0]
FourStrays == {Stray("older", "b", Unbound, "offer"), Stray("newer", "x", Unbound, "offer"),
               Stray("current", "b", "x", "ice"), Stray("current", "x", "a", "ice")}
=============================================================================
