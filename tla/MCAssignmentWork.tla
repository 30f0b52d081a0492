-------------------------- MODULE MCAssignmentWork --------------------------
(* The creator offers work to a, and may hand it over to b.                 *)
EXTENDS AssignmentWork

Executors == {"a", "b"} \X (1 .. MaxAttempt) \X (0 .. MaxLife)
Offered == {<<[by |-> "c", op |-> "create", who |-> "a"]>>}
HandedOver ==
  {[by |-> x[1], op |-> op, who |-> x] : x \in Executors, op \in {"claim", "release"}}
    \cup {[by |-> "c", op |-> "handoff", who |-> Nobody], [by |-> "c", op |-> "assign", who |-> "b"]}
=============================================================================
