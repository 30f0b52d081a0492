--------------------------- MODULE AssignmentWork ---------------------------
(***************************************************************************)
(* Execution of an assignment by tool-driven agents: AgentAssignmentWork of *)
(* src/node/assignment-work.ts on the execution journal of                  *)
(* src/node/assignment-execution.ts, and the log as AssignmentHistory has   *)
(* it.                                                                      *)
(*                                                                          *)
(* An attempt is started when claim() returns start: true.  What was        *)
(* started may outlive the process that started it.  The driver keeps its   *)
(* part: the work has ended when it reports a result or a release, and when *)
(* a principal confirms that it has stopped; here it ends no earlier.       *)
(*                                                                          *)
(* An agent is in one call at a time.  The code serialises its claims only: *)
(* report() and recoverStopped() beside a claim are left out.  Of the log   *)
(* only devices are meant that wrote nothing before they had loaded.        *)
(***************************************************************************)
EXTENDS AssignmentHistory

CONSTANTS
  NoRecord, NoJob,
  Given,       \* the events everyone has seen at the start
  Loses,       \* whether a change of keys may cost a device operations
  MaxAttempt,  \* bound: attempts that are tracked
  Trusting,    \* the agents whose principal is the creator
  Faulty,      \* the agents whose calls may fail and whose process may die
  MaxLife      \* bound: how often each may

VARIABLES
  exec,     \* [Device \X attempt -> the execution file, or NoRecord]
  active,   \* [Device \X attempt -> #active, or NoRecord]
  job,      \* [Device -> the claim, report or recovery in progress, or NoJob]
  life,     \* [Device -> which process this is]
  working,  \* the attempts whose work is going on
  starts    \* [Device \X attempt -> how often start: true was returned]

workVars == <<exec, active, job, life, working, starts>>
vars == <<historyVars, workVars>>

Attempt == 1 .. MaxAttempt
Agents == Device \ {Creator}

\* The operations of whoever executes an attempt.
Executing == {"claim", "progress", "block", "result", "release"}

\* The id of an execution is made by the process that reserves it, and by nobody
\* else; the creator does not take its own work; and what is given is a history
\* that was signed, of an assignment that nobody has claimed yet.
ASSUME WorkAssumption ==
  /\ Agents \X Attempt \X (0 .. MaxLife) \subseteq Executor /\ Nobody \notin Executor
  /\ MaxAttempt \in Nat /\ MaxLife \in Nat
  /\ \A i \in Tried : i.by = Creator => i.op \notin Executing
  /\ IsFiniteSet(Given)
  /\ \A e \in Given :
       /\ e \in Seq(Item) \ {<<>>} /\ Last(e).op \notin Executing
       /\ Front(e) \in Given \cup {<<>>}
       /\ \E K \in SUBSET Given :
            Front(e) = Tip(K) /\ Permitted(Projection(K).stage, Last(e))
  /\ NoRecord \notin [executor : Executor, pid : 0 .. MaxLife,
                     phase : {"reserved", "running", "result", "stopped"}]

Record(d, n) == [executor |-> <<d, n, life[d]>>, pid |-> life[d], phase |-> "reserved"]

\* A file that was created and not yet written: unreadable, and there.
Torn == [executor |-> Nobody, pid |-> 0, phase |-> "torn"]

\* #state(): the assignment as the log shows it, if it may be acted on.
View(d) == Projection(saved[d]).stage
Gapless(d) == PendingHistory(saved[d]) = {}
Usable(d) ==
  LET p == Projection(saved[d])
  IN p.stage.owner = d /\ ~Halted(saved[d], p) /\ Unreached(saved[d], p) = {}

Lost(d) == IF Loses THEN SUBSET Droppable(d) ELSE {{}}

Step(d, step) == job' = [job EXCEPT ![d].step = step]
Throw(d) == job' = [job EXCEPT ![d] = NoJob]
At(d, step) == job[d] # NoJob /\ job[d].step = step

Init ==
  /\ saved = [d \in Device |-> Given] /\ outbox = [d \in Device |-> {}] /\ published = Given
  /\ exec = [x \in Agents \X Attempt |-> NoRecord]
  /\ active = [x \in Agents \X Attempt |-> NoRecord]
  /\ job = [d \in Device |-> NoJob]
  /\ life = [d \in Agents |-> 0]
  /\ working = {}
  /\ starts = [x \in Agents \X Attempt |-> 0]

-----------------------------------------------------------------------------
(* #claim() *)

\* What is left of a reservation: the record, or a file that was created and
\* not written.
Reserved(d, x) ==
  LET r == Record(d, x[2])
  IN \/ /\ exec' = [exec EXCEPT ![x] = r]
        /\ active' = [active EXCEPT ![x] = r]
        /\ job' = [job EXCEPT ![d] = [step |-> "submit", head |-> <<>>, attempt |-> x[2],
                                      item |-> [by |-> d, op |-> "claim", who |-> r.executor]]]
     \/ exec' = [exec EXCEPT ![x] = Torn] /\ Throw(d) /\ UNCHANGED active

\* journal.reserve(): the file of the attempt is created exclusively.
Reserve(d, x) ==
  IF exec[x] # NoRecord THEN Throw(d) /\ UNCHANGED <<exec, active>>
  ELSE Reserved(d, x)

\* Slip: whatever this process holds may be claimed by it again.
RepeatsHeld(held) == held # NoRecord

\* A claim that this process made and that got no further than its reservation.
Repeats(held) == held # NoRecord /\ held.phase = "reserved"

\* A claim is new, or repeats one that got no further than its reservation.  A
\* creator who is not the agent's principal needs an approval.
Claim(d) ==
  LET s == View(d)
      x == <<d, s.attempt>>
      held == active[x]
      Begin(step, head, item) == job' = [job EXCEPT ![d] = [step |-> step, head |-> head,
                                                            attempt |-> s.attempt, item |-> item]]
  IN /\ job[d] = NoJob /\ Usable(d) /\ s.attempt \in Attempt
     /\ \/ /\ held = NoRecord /\ s.status = "offered" /\ d \notin Trusting
           /\ Begin("approve", Tip(saved[d]), Nobody)
           /\ UNCHANGED <<exec, active>>
        \/ /\ held = NoRecord /\ s.status = "offered" /\ d \in Trusting
           /\ Reserve(d, x)
        \/ /\ Repeats(held)
           /\ s.status = "offered" \/ s.executor = held.executor
           /\ Begin("submit", <<>>, [by |-> d, op |-> "claim", who |-> held.executor])
           /\ UNCHANGED <<exec, active>>
     /\ UNCHANGED <<historyVars, life, working, starts>>

\* The answer to the approval; the assignment may have changed meanwhile.
Approved(d) ==
  /\ At(d, "approve")
  /\ IF Usable(d) /\ Tip(saved[d]) = job[d].head THEN Reserve(d, <<d, job[d].attempt>>)
     ELSE Throw(d) /\ UNCHANGED <<exec, active>>
  /\ UNCHANGED <<historyVars, life, working, starts>>

\* The operation is recorded, or waits in the outbox.
Recorded(d, i) == \E e \in saved[d] \cup outbox[d] : Last(e) = i

\* log.submit(): what was signed for this request is sent again, or the operation is
\* signed now if the history permits it.  The request of a claim is in its record.
SubmitJob(d) ==
  /\ At(d, "submit")
  /\ \/ Recorded(d, job[d].item) /\ Gapless(d) /\ UNCHANGED historyVars
     \/ /\ job[d].item.op = "claim" => ~Recorded(d, job[d].item)
        /\ \E lost \in Lost(d) : Sign(d, job[d].item, lost)
  /\ Step(d, "await")
  /\ UNCHANGED <<exec, active, life, working, starts>>

\* What the journal says once the operation is out: a claim runs, a result or
\* a release is terminal, a recovered attempt has stopped.
Phase(op) == CASE op = "claim" -> "running" [] op = "result" -> "result" [] OTHER -> "stopped"

\* log.submit() returns once the operation is in the history.  Then the journal
\* is updated: by the record's own process, or by the one that recovers it.
Update(d) ==
  LET x == <<d, job[d].attempt>>
      op == job[d].item.op
      new == [exec[x] EXCEPT !.phase = Phase(op), !.pid = life[d]]
  IN /\ At(d, "await")
     /\ \E e \in saved[d] \ outbox[d] : Last(e) = job[d].item
     /\ IF \/ op \in {"progress", "block"}
           \/ exec[x].executor # job[d].item.who
           \/ exec[x].phase \in {"result", "stopped"} /\ exec[x].phase # Phase(op)
        THEN Throw(d) /\ UNCHANGED <<exec, active>>
        ELSE /\ exec' = [exec EXCEPT ![x] = new]
             /\ active' = IF active[x] = NoRecord THEN active ELSE [active EXCEPT ![x] = new]
             /\ IF op = "claim" THEN Step(d, "check") ELSE Throw(d)
     /\ UNCHANGED <<historyVars, life, working, starts>>

\* claim() looks once more before it lets the work start.
Check(d) ==
  LET x == <<d, job[d].attempt>>
  IN /\ At(d, "check")
     /\ IF /\ Usable(d) /\ outbox[d] = {}
           /\ View(d).status = "running" /\ View(d).executor = exec[x].executor
        THEN working' = working \cup {x} /\ starts' = [starts EXCEPT ![x] = @ + 1]
        ELSE UNCHANGED <<working, starts>>
     /\ Throw(d)
     /\ UNCHANGED <<historyVars, exec, active, life>>

-----------------------------------------------------------------------------
(* report() and recoverStopped() *)

Report(d, op) ==
  LET s == View(d)
      x == <<d, s.attempt>>
  IN /\ job[d] = NoJob
     /\ s.attempt \in Attempt /\ active[x] # NoRecord /\ active[x].executor = s.executor
     /\ op \in {i.op : i \in Tried} /\ Usable(d)
     /\ job' = [job EXCEPT ![d] = [step |-> "submit", head |-> <<>>, attempt |-> s.attempt,
                                   item |-> [by |-> d, op |-> op, who |-> s.executor]]]
     /\ working' = IF op \in {"result", "release"} THEN working \ {x} ELSE working
     /\ UNCHANGED <<historyVars, exec, active, life, starts>>

Missing(d, n) == /\ exec[<<d, n>>] \notin {NoRecord, Torn}
                 /\ exec[<<d, n>>].executor = View(d).executor
                 /\ exec[<<d, n>>].pid # life[d]

Recover(d) ==
  LET s == View(d)
  IN /\ job[d] = NoJob /\ s.status \in {"stopping", "cancelling"}
     /\ Usable(d) /\ s.attempt \in Attempt /\ Missing(d, s.attempt)
     /\ job' = [job EXCEPT ![d] = [step |-> "confirm", head |-> Tip(saved[d]),
                                   attempt |-> s.attempt,
                                   item |-> [by |-> d, op |-> "release", who |-> s.executor]]]
     /\ UNCHANGED <<historyVars, exec, active, life, working, starts>>

\* The principal's answer, and the second look.
Confirmed(d) ==
  /\ At(d, "confirm")
  /\ working' = working \ {<<d, job[d].attempt>>}
  /\ IF Usable(d) /\ Tip(saved[d]) = job[d].head /\ Missing(d, job[d].attempt)
     THEN job' = [job EXCEPT ![d] = [@ EXCEPT !.step = "submit", !.head = <<>>]] ELSE Throw(d)
  /\ UNCHANGED <<historyVars, exec, active, life, starts>>

\* No approval, or no confirmation.
Refused(d) ==
  /\ At(d, "approve") \/ At(d, "confirm")
  /\ Throw(d)
  /\ UNCHANGED <<historyVars, exec, active, life, working, starts>>

\* A signer that does not sign, a lost answer, a failed write.
Fails(d) ==
  /\ d \in Faulty
  /\ At(d, "submit") \/ At(d, "await")
  /\ Throw(d)
  /\ UNCHANGED <<historyVars, exec, active, life, working, starts>>

\* The process dies; what it started goes on.
Die(d) ==
  /\ d \in Faulty /\ life[d] < MaxLife
  /\ life' = [life EXCEPT ![d] = @ + 1]
  /\ job' = [job EXCEPT ![d] = NoJob]
  /\ active' = [x \in DOMAIN active |-> IF x[1] = d THEN NoRecord ELSE active[x]]
  /\ UNCHANGED <<historyVars, exec, working, starts>>

WorkStep(d) ==
  \/ Claim(d) \/ Approved(d) \/ SubmitJob(d) \/ Update(d)
  \/ Check(d) \/ Recover(d) \/ Confirmed(d) \/ Refused(d) \/ Fails(d) \/ Die(d)
  \/ \E op \in {"progress", "block", "result", "release"} : Report(d, op)

\* The logs: what waits in an outbox is published and settled by the call that
\* put it there or by a later retry.
\* While its history has a gap a device does nothing, so that the arrival of an
\* operation before its predecessor is left out.
HistoryStep(d) ==
  \/ \E e \in outbox[d] : Publish(d, e)
  \/ \E lost \in Lost(d) :
       \/ \E e \in published \ saved[d] :
            Front(e) \in saved[d] \cup {<<>>} /\ Learn(d, {e}, lost)
       \/ \E e \in outbox[d] : Settle(d, e, lost)

\* The creator's client signs what it likes.  Since it learns nothing that
\* matters between its signature and the acknowledgement, these are one step.
Announce(i) ==
  LET e == Append(Tip(saved[Creator]), i)
  IN /\ i.by = Creator /\ MayFollow(saved[Creator], i) /\ Len(e) <= MaxOps
     /\ saved' = [saved EXCEPT ![Creator] = @ \cup {e}]
     /\ published' = published \cup {e}
     /\ UNCHANGED outbox

Next ==
  \/ \E d \in Agents : WorkStep(d)
  \/ \E d \in Device : HistoryStep(d) /\ UNCHANGED workVars
  \/ \E i \in {i \in Tried : i.by = Creator} : Announce(i) /\ UNCHANGED workVars

Spec == Init /\ [][Next]_vars

-----------------------------------------------------------------------------
(* Properties *)

\* The variables keep their types, and no outbox ever holds two operations
\* (submit() refuses another while one is pending).
TypeOK ==
  /\ saved \in [Device -> SUBSET Seq(Item)] /\ published \in SUBSET Seq(Item)
  /\ \A d \in Device : outbox[d] \in SUBSET Seq(Item) /\ Cardinality(outbox[d]) <= 1
  /\ \A x \in Agents \X Attempt :
       /\ exec[x] # NoRecord =>
            exec[x].phase \in {"torn", "reserved", "running", "result", "stopped"}
       /\ active[x] # NoRecord => active[x].executor \in Executor
  /\ working \subseteq Agents \X Attempt

\* An attempt is started at most once, through lost answers, crashes, repeated
\* claims and recoveries.
StartedOnce == \A x \in Agents \X Attempt : starts[x] <= 1

\* Nobody else works on the assignment while one does, unless the published
\* operations are in conflict (which halts the assignment for all who see it).
OneWorker ==
  Cardinality(working) > 1 => Conflicted(published)

\* What is being worked on has been claimed where everyone can see it, and the
\* worker would still know it after a crash.
WorkIsClaimed ==
  \A x \in working :
    \E e \in published \cap saved[x[1]] :
      Last(e) = [by |-> x[1], op |-> "claim", who |-> exec[x].executor]
=============================================================================
