---------------------------- MODULE Assignments ----------------------------
(***************************************************************************)
(* One assignment as its signed operations tell it: transition and          *)
(* projectAssignments of src/assignments.ts.                                *)
(*                                                                         *)
(* An operation names the one before it by its hash, so an event is         *)
(* identified with the sequence of operations that it ends.  A device may   *)
(* know any set of events, with gaps and branches.  A request names one     *)
(* operation, so the second use of a request on one path is left out.       *)
(***************************************************************************)
EXTENDS Naturals, Sequences, FiniteSets, SequencesExt, FiniteSetsExt

CONSTANTS
  Device,    \* the installations, one for each participant
  Creator,   \* the device that gives the work
  Executor,  \* the fresh ids under which an attempt can be executed
  Nobody,    \* no executor, no owner
  Tried,     \* the operations that an instance tries
  MaxOps     \* bound: operations on one path

\* who is the executor, or for create and assign the owner.
Item ==
  [by : Device, op : {"create", "assign"}, who : Device]
    \cup [by : Device, op : {"claim", "progress", "block", "result", "release"}, who : Executor]
    \cup [by : Device, op : {"answer", "accept", "reject", "cancel", "handoff"}, who : {Nobody}]

ASSUME TriedAssumption == Tried \subseteq Item

-----------------------------------------------------------------------------
(* transition() *)

Unborn == [status |-> "none", owner |-> Nobody, executor |-> Nobody, attempt |-> 0]

\* Slip: the owner's work counts as stopped as soon as the creator asks for it.
PermittedUnasked(s, i) ==
  \/ i.op = "create" /\ s.status = "none" /\ i.by = Creator
  \/ i.op = "claim" /\ i.by = s.owner /\ s.status = "offered"
  \/ i.op = "result" /\ i.by = s.owner /\ i.who = s.executor /\ s.status = "running"
  \/ i.op \in {"accept", "reject"} /\ i.by = Creator /\ s.status = "review"
  \/ i.op = "handoff" /\ i.by = Creator /\ s.status \in {"offered", "running", "review"}
  \/ i.op = "release" /\ i.by = s.owner /\ i.who = s.executor /\ s.status = "stopping"
  \/ i.op = "assign" /\ i.by = Creator /\ s.status \in {"stopping", "stopped"}

\* Who may do what next.  A result is accepted or rejected as the head it is.
Permitted(s, i) ==
  LET creator == i.by = Creator
      owner == i.by = s.owner
      executor == owner /\ i.who = s.executor
  IN \/ i.op = "create" /\ s.status = "none" /\ creator
     \/ i.op = "claim" /\ owner /\ s.status = "offered"
     \/ i.op \in {"progress", "block", "result"} /\ executor /\ s.status = "running"
     \/ i.op = "answer" /\ creator /\ s.status = "blocked"
     \/ i.op \in {"accept", "reject"} /\ creator /\ s.status = "review"
     \/ i.op \in {"cancel", "handoff"} /\ creator
          /\ s.status \in {"offered", "running", "blocked", "review"}
     \/ i.op = "release" /\ executor /\ s.status \in {"stopping", "cancelling"}
     \/ i.op = "assign" /\ creator /\ s.status = "stopped"

\* What each operation makes of the assignment: status "cancelling" is the
\* code's stopping with the purpose cancel.
After(s, i) ==
  CASE i.op = "create" -> [status |-> "offered", owner |-> i.who, executor |-> Nobody, attempt |-> 1]
    [] i.op = "claim" -> [s EXCEPT !.status = "running", !.executor = i.who]
    [] i.op = "progress" -> s
    [] i.op = "block" -> [s EXCEPT !.status = "blocked"]
    [] i.op = "answer" -> [s EXCEPT !.status = "running"]
    [] i.op = "result" -> [s EXCEPT !.status = "review"]
    [] i.op = "accept" -> [s EXCEPT !.status = "accepted"]
    [] i.op = "reject" -> [s EXCEPT !.status = "offered", !.attempt = @ + 1, !.executor = Nobody]
    [] i.op = "cancel" ->
         [s EXCEPT !.status = IF @ \in {"offered", "review"} THEN "cancelled" ELSE "cancelling"]
    [] i.op = "handoff" ->
         [s EXCEPT !.status = IF @ \in {"offered", "review"} THEN "stopped" ELSE "stopping"]
    [] i.op = "release" -> [s EXCEPT !.status = IF @ = "cancelling" THEN "cancelled" ELSE "stopped"]
    [] i.op = "assign" -> [s EXCEPT !.status = "offered", !.owner = i.who, !.attempt = @ + 1,
                                    !.executor = Nobody]

-----------------------------------------------------------------------------
(* projectAssignments().  A projection is a path of operations and what the     *)
(* assignment is after them.                                                   *)

\* The operations that may follow, among the events known.
Candidates(E, p) ==
  {e \in E : /\ Len(e) = Len(p.path) + 1
             /\ Front(e) = p.path
             /\ Permitted(p.stage, Last(e))}

\* One step of the projection: it goes on while there is just one candidate.
Advance(E, p) ==
  LET next == Candidates(E, p)
      e == CHOOSE e \in next : TRUE
  IN IF Cardinality(next) = 1 THEN [path |-> e, stage |-> After(p.stage, Last(e))] ELSE p

\* Where it stops.
Projection(E) ==
  LET p[n \in 0 .. Cardinality(E)] ==
        IF n = 0 THEN [path |-> <<>>, stage |-> Unborn] ELSE Advance(E, p[n - 1])
  IN p[Cardinality(E)]

Tip(E) == Projection(E).path

\* Two operations may follow: the assignment is halted.
Halted(E, p) == Cardinality(Candidates(E, p)) > 1
Conflicted(E) == Halted(E, Projection(E))

\* Authentic events that the projection did not reach: their predecessor is
\* missing, or lies on a branch that was halted.
Unreached(E, p) == {e \in E : ~IsPrefix(Front(e), p.path)}
PendingHistory(E) == Unreached(E, Projection(E))

\* The operation i may be signed on the history K: it would be the new head.
\* (submit() projects the history with the operation added; that it is the only
\* candidate there says the same.)
MayFollow(K, i) ==
  LET p == Projection(K)
  IN /\ Permitted(p.stage, i)
     /\ Candidates(K, p) = {}
     /\ Unreached(K, p) = {}
=============================================================================
