-------------------------- MODULE MCAssignmentLog --------------------------
(* The creator c offers work to a: a claims it, or c hands it over.         *)
EXTENDS AssignmentLog

ClaimOrHandoff ==
  {[by |-> "c", op |-> "create", who |-> "a"], [by |-> "a", op |-> "claim", who |-> "x"],
   [by |-> "c", op |-> "handoff", who |-> Nobody]}
=============================================================================
