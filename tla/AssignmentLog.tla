--------------------------- MODULE AssignmentLog ---------------------------
(***************************************************************************)
(* The durable history of assignments on each device, and the outbox of     *)
(* what it has still to publish: src/assignment-log.ts.                     *)
(*                                                                         *)
(* A task is one work item of the serial queue from the computation of what *)
(* it writes to the end of its write; between the two anything may happen   *)
(* that is not itself in the queue.  The relay keeps every event under the  *)
(* epoch whose channel it was published on, and delivers in any order.  The *)
(* shape of the file (base and deltas) is left out: after a write it holds  *)
(* the events and the outbox that the write was given.                      *)
(*                                                                         *)
(* open() is not in the queue, and the session has the log before open() is *)
(* over: a change of keys meanwhile subscribes a log that has loaded        *)
(* nothing, and what then arrives is saved over what was in storage.  Of a  *)
(* device to which that happened nothing more is promised here: it is one   *)
(* of the early.                                                            *)
(***************************************************************************)
EXTENDS Assignments

CONSTANTS
  Caller,      \* submissions in progress at once on a device
  Fragile,     \* the devices whose disk may refuse, and whose process may end
  NoTask, NoCall, NoImage,
  MaxEpoch,    \* bound: changes of the room's keys
  MaxCrash,    \* bound: crashes of all devices together
  MaxFault     \* bound: failed writes of all devices together

VARIABLES
  disk,      \* [Device -> the events and the outbox in storage]
  mem,       \* [Device -> those the log works from and shows]
  image,     \* [Device -> what open() has read and not yet shown, or NoImage]
  log,       \* [Device -> #opened, whether open() is over, whether there is a
             \*  subscription, #epoch, #ready, #error, #storageUncertain]
  task,      \* [Device -> the write in progress, or NoTask]
  call,      \* [Device \X Caller -> a submission in progress, or NoCall]
  relay,     \* what was published, and under which epoch
  early,     \* history: the devices that wrote before they had loaded
  crashes, faults

logVars == <<disk, mem, image, log, task, call, relay, early, crashes, faults>>

Pending(e, n) == [event |-> e, epoch |-> n]

Store(events, outbox) == [events |-> events, outbox |-> outbox]
EmptyStore == Store({}, {})

-----------------------------------------------------------------------------
\* snapshot().ready
Ready(d) == /\ log[d].loaded /\ log[d].replayed /\ ~log[d].error
            /\ PendingHistory(mem[d].events) = {}

LogInit ==
  /\ disk = [d \in Device |-> EmptyStore]
  /\ mem = [d \in Device |-> EmptyStore]
  /\ image = [d \in Device |-> NoImage]
  /\ log = [d \in Device |-> [open |-> FALSE, loaded |-> FALSE, heard |-> FALSE, epoch |-> 0,
                              replayed |-> FALSE, error |-> FALSE, uncertain |-> FALSE]]
  /\ task = [d \in Device |-> NoTask]
  /\ call = [c \in Device \X Caller |-> NoCall]
  /\ relay = {} /\ early = {}
  /\ crashes = 0 /\ faults = 0

\* open(), up to its first await.
Open(d) ==
  /\ ~log[d].open
  /\ log' = [log EXCEPT ![d].open = TRUE]
  /\ UNCHANGED <<disk, mem, image, task, call, relay, early, crashes, faults>>

\* #loadStored() reads storage; what it returns is used later.
Read(d) ==
  /\ log[d].open /\ ~log[d].loaded /\ image[d] = NoImage
  /\ image' = [image EXCEPT ![d] = disk[d]]
  /\ UNCHANGED <<disk, mem, log, task, call, relay, early, crashes, faults>>

\* A write in progress, of a subscription that is no longer the current one.
Outdated(d) == IF task[d] = NoTask THEN task ELSE [task EXCEPT ![d].current = FALSE]

\* What was read is shown, and the subscription starts, or starts again.
Loaded(d) ==
  /\ image[d] # NoImage
  /\ mem' = [mem EXCEPT ![d] = image[d]]
  /\ image' = [image EXCEPT ![d] = NoImage]
  /\ log' = [log EXCEPT ![d] = [@ EXCEPT !.loaded = TRUE, !.heard = TRUE, !.replayed = FALSE,
                                         !.uncertain = FALSE]]
  /\ task' = Outdated(d)
  /\ UNCHANGED <<disk, call, relay, early, crashes, faults>>

\* The log is gone: its process has ended, or the session has closed it.  A write
\* in progress was made or not.
Gone(d) ==
  /\ \E now \in {disk[d]} \cup (IF task[d] = NoTask THEN {} ELSE {task[d].next}) :
       disk' = [disk EXCEPT ![d] = now]
  /\ mem' = [mem EXCEPT ![d] = EmptyStore]
  /\ image' = [image EXCEPT ![d] = NoImage]
  /\ log' = [log EXCEPT ![d] = [@ EXCEPT !.open = FALSE, !.loaded = FALSE, !.heard = FALSE,
                                         !.replayed = FALSE, !.error = FALSE, !.uncertain = FALSE]]
  /\ task' = [task EXCEPT ![d] = NoTask]

\* Storage cannot be read: assignments() of the session closes the log, and may
\* open another.
LoadFails(d) ==
  /\ log[d].open /\ ~log[d].loaded /\ image[d] = NoImage
  /\ d \in Fragile /\ faults < MaxFault
  /\ Gone(d)
  /\ faults' = faults + 1
  /\ UNCHANGED <<call, relay, early, crashes>>

-----------------------------------------------------------------------------
(* The serial queue *)

Idle(d) == log[d].heard /\ task[d] = NoTask

Done(d, c, stage) == [call EXCEPT ![<<d, c>>].stage = stage]

\* A write starts.  current: the subscription has not been renewed since.
Start(d, kind, next, who) ==
  task' = [task EXCEPT ![d] = [kind |-> kind, next |-> next, caller |-> who, current |-> TRUE]]

\* What is written by a log that has not loaded goes over what is in storage.
Begins(d) == early' = IF log[d].loaded THEN early ELSE early \cup {d}

\* Slip: what arrived is shown while it is being written.
ReceiveShowsFirst(d, S) ==
  /\ Idle(d)
  /\ S # {} /\ S \cap mem[d].events = {}
  /\ \A e \in S : Pending(e, log[d].epoch) \in relay
  /\ log[d].replayed => Cardinality(S) = 1
  /\ ~log[d].uncertain
  /\ mem' = [mem EXCEPT ![d].events = @ \cup S]
  /\ Start(d, "incoming", Store(mem[d].events \cup S, mem[d].outbox), 0) /\ Begins(d)
  /\ UNCHANGED <<disk, image, log, call, relay, crashes, faults>>

\* Slip: what arrived is written as if it were all there is.
ReceiveAlone(d, S) ==
  /\ Idle(d)
  /\ S # {} /\ S \cap mem[d].events = {}
  /\ \A e \in S : Pending(e, log[d].epoch) \in relay
  /\ log[d].replayed => Cardinality(S) = 1
  /\ ~log[d].uncertain
  /\ Start(d, "incoming", Store(S, mem[d].outbox), 0) /\ Begins(d)
  /\ UNCHANGED <<disk, mem, image, log, call, relay, crashes, faults>>

\* Events the relay sends: in batches while the history is replayed, one by
\* one after it.
Receive(d, S) ==
  /\ Idle(d)
  /\ S # {} /\ S \cap mem[d].events = {}
  /\ \A e \in S : Pending(e, log[d].epoch) \in relay
  /\ log[d].replayed => Cardinality(S) = 1
  /\ IF log[d].uncertain
     THEN log' = [log EXCEPT ![d].error = TRUE] /\ UNCHANGED <<task, early>>
     ELSE /\ Start(d, "incoming", Store(mem[d].events \cup S, mem[d].outbox), 0) /\ Begins(d)
          /\ UNCHANGED log
  /\ UNCHANGED <<disk, mem, image, call, relay, crashes, faults>>

\* The relay has sent what it kept.
EndOfHistory(d) ==
  /\ Idle(d) /\ ~log[d].replayed
  /\ log' = [log EXCEPT ![d].replayed = TRUE]
  /\ UNCHANGED <<disk, mem, image, task, call, relay, early, crashes, faults>>

\* submit() of a new operation: it is signed on the head that is shown, and
\* goes to the outbox before it goes anywhere else.
Queue(d, c, i) ==
  LET e == Append(Tip(mem[d].events), i)
      p == Pending(e, log[d].epoch)
  IN /\ Idle(d) /\ call[<<d, c>>] = NoCall /\ Ready(d) /\ ~log[d].uncertain
     /\ mem[d].outbox = {}
     /\ i.by = d /\ MayFollow(mem[d].events, i) /\ Len(e) <= MaxOps
     /\ Start(d, "queue", Store(mem[d].events, {p}), c)
     /\ call' = [call EXCEPT ![<<d, c>>] = [pending |-> p, stage |-> "queued"]]
     /\ UNCHANGED <<disk, mem, image, log, relay, early, crashes, faults>>

\* submit() of a saved request, and retry(): exactly what was signed then.
Resubmit(d, c, p) ==
  /\ Idle(d) /\ call[<<d, c>>] = NoCall /\ Ready(d)
  /\ p \in mem[d].outbox
  /\ call' = [call EXCEPT ![<<d, c>>] = [pending |-> p, stage |-> "saved"]]
  /\ UNCHANGED <<disk, mem, image, log, task, relay, early, crashes, faults>>

\* The publish is outside the queue.  What was sealed for an earlier epoch is
\* refused.
Send(d, c) ==
  /\ call[<<d, c>>] # NoCall /\ call[<<d, c>>].stage = "saved"
  /\ call' = Done(d, c, IF call[<<d, c>>].pending.epoch = log[d].epoch THEN "sending" ELSE "failed")
  /\ UNCHANGED <<disk, mem, image, log, task, relay, early, crashes, faults>>

\* The relay has it; its answer may be lost.
Arrive(d, c) ==
  /\ call[<<d, c>>] # NoCall /\ call[<<d, c>>].stage = "sending"
  /\ relay' = relay \cup {call[<<d, c>>].pending}
  /\ \E stage \in {"sent", "failed"} : call' = Done(d, c, stage)
  /\ UNCHANGED <<disk, mem, image, log, task, early, crashes, faults>>

SendFails(d, c) ==
  /\ call[<<d, c>>] # NoCall /\ call[<<d, c>>].stage = "sending"
  /\ call' = Done(d, c, "failed")
  /\ UNCHANGED <<disk, mem, image, log, task, relay, early, crashes, faults>>

\* The acknowledged operation moves from the outbox to the history, in one
\* write.
SettleSent(d, c) ==
  LET p == call[<<d, c>>].pending
  IN /\ Idle(d) /\ call[<<d, c>>] # NoCall /\ call[<<d, c>>].stage = "sent"
     /\ IF log[d].uncertain
        THEN call' = Done(d, c, "failed") /\ UNCHANGED task
        ELSE /\ Start(d, "settle", Store(mem[d].events \cup {p.event}, mem[d].outbox \ {p}), c)
             /\ call' = Done(d, c, "settling")
     /\ UNCHANGED <<disk, mem, image, log, relay, early, crashes, faults>>

-----------------------------------------------------------------------------
(* The ends of a write *)

\* Where a call stands once its write is made.
Advanced(d) ==
  LET c == task[d].caller
  IN CASE task[d].kind = "queue" -> Done(d, c, "saved")
       [] task[d].kind = "settle" -> Done(d, c, "ok")
       [] OTHER -> call

\* Slip: the subscription's generation is compared the wrong way round.
WrittenHidden(d) ==
  /\ task[d] # NoTask
  /\ disk' = [disk EXCEPT ![d] = task[d].next]
  /\ mem' = IF task[d].kind = "incoming" /\ task[d].current THEN mem
            ELSE [mem EXCEPT ![d] = task[d].next]
  /\ call' = Advanced(d)
  /\ task' = [task EXCEPT ![d] = NoTask]
  /\ UNCHANGED <<image, log, relay, early, crashes, faults>>

\* The write is made.  Incoming events of a subscription that was renewed
\* meanwhile are in storage, and not shown.
Written(d) ==
  /\ task[d] # NoTask
  /\ disk' = [disk EXCEPT ![d] = task[d].next]
  /\ mem' = IF task[d].kind = "incoming" /\ ~task[d].current THEN mem
            ELSE [mem EXCEPT ![d] = task[d].next]
  /\ call' = Advanced(d)
  /\ task' = [task EXCEPT ![d] = NoTask]
  /\ UNCHANGED <<image, log, relay, early, crashes, faults>>

\* Slip: after a failed write the old state is taken to be the durable one.
WriteFailsClean(d) ==
  /\ task[d] # NoTask /\ d \in Fragile /\ faults < MaxFault
  /\ \E now \in {disk[d], task[d].next} : disk' = [disk EXCEPT ![d] = now]
  /\ log' = [log EXCEPT ![d].error = @ \/ (task[d].kind = "incoming" /\ task[d].current)]
  /\ call' = IF task[d].kind = "incoming" THEN call ELSE Done(d, task[d].caller, "failed")
  /\ task' = [task EXCEPT ![d] = NoTask]
  /\ faults' = faults + 1
  /\ UNCHANGED <<mem, image, relay, early, crashes>>

\* A write is reported as failed, and was made or not.  The log reads back what
\* is durable, unless its subscription was renewed or the read fails too.
WriteFails(d) ==
  /\ task[d] # NoTask /\ d \in Fragile /\ faults < MaxFault
  /\ \E now \in {disk[d], task[d].next}, readable \in BOOLEAN :
       LET reloaded == readable /\ task[d].current
       IN /\ disk' = [disk EXCEPT ![d] = now]
          /\ mem' = IF reloaded THEN [mem EXCEPT ![d] = now] ELSE mem
          /\ log' = [log EXCEPT ![d].uncertain = ~reloaded,
                                ![d].error = \/ @ \/ ~readable
                                             \/ task[d].kind = "incoming" /\ task[d].current]
  /\ call' = IF task[d].kind = "incoming" THEN call ELSE Done(d, task[d].caller, "failed")
  /\ task' = [task EXCEPT ![d] = NoTask]
  /\ faults' = faults + 1
  /\ UNCHANGED <<image, relay, early, crashes>>

-----------------------------------------------------------------------------
\* The caller takes note of what became of its submission.
Return(d, c) ==
  /\ call[<<d, c>>] # NoCall /\ call[<<d, c>>].stage \in {"ok", "failed"}
  /\ call' = [call EXCEPT ![<<d, c>>] = NoCall]
  /\ UNCHANGED <<disk, mem, image, log, task, relay, early, crashes, faults>>

\* rekey(): the keys of the next subscription and, if open() was called, loaded or
\* not, a new subscription, and no event of the old one.
Rekey(d) ==
  /\ log[d].epoch < MaxEpoch
  /\ log' = [log EXCEPT ![d] = [@ EXCEPT !.epoch = log[d].epoch + 1, !.replayed = FALSE,
                                         !.heard = log[d].open]]
  /\ task' = Outdated(d)
  /\ UNCHANGED <<disk, mem, image, call, relay, early, crashes, faults>>

\* The process ends, in the middle of a write or not.
Crash(d) ==
  /\ log[d].open /\ d \in Fragile /\ crashes < MaxCrash
  /\ Gone(d)
  /\ call' = [x \in DOMAIN call |-> IF x[1] = d THEN NoCall ELSE call[x]]
  /\ crashes' = crashes + 1
  /\ UNCHANGED <<relay, early, faults>>

\* What everyone of this device's log does by itself.
LogStep(d) ==
  \/ Open(d) \/ Read(d) \/ Loaded(d) \/ EndOfHistory(d) \/ Written(d)
  \/ \E S \in SUBSET {p.event : p \in relay} : Receive(d, S)
  \/ \E c \in Caller : Send(d, c) \/ Arrive(d, c) \/ SettleSent(d, c)

LogFault(d) ==
  LoadFails(d) \/ WriteFails(d) \/ Rekey(d) \/ Crash(d) \/ \E c \in Caller : SendFails(d, c)

LogNext ==
  \E d \in Device :
    \/ LogStep(d) \/ LogFault(d)
    \/ \E c \in Caller :
         \/ Return(d, c)
         \/ \E i \in Tried : Queue(d, c, i)
         \/ \E p \in mem[d].outbox : Resubmit(d, c, p)

LogSpec == LogInit /\ [][LogNext]_logVars
\* The host keeps the log open, storage answers, the relay delivers.
LogFairness ==
  \A d \in Device :
    /\ WF_logVars(Open(d)) /\ WF_logVars(Read(d)) /\ WF_logVars(Loaded(d))
    /\ WF_logVars(Written(d)) /\ WF_logVars(EndOfHistory(d))
    /\ WF_logVars(\E S \in SUBSET {p.event : p \in relay} : Receive(d, S))
LiveLogSpec == LogSpec /\ LogFairness

-----------------------------------------------------------------------------
(* Properties *)

\* Nothing is shown, and nothing waits to be sent, that storage would not bring
\* back after a crash: whatever writes fail, are made and reported as failed,
\* or are overtaken by a new subscription, on a device that is not early.
ShownIsSaved ==
  \A d \in Device \ early : /\ mem[d].events \subseteq disk[d].events
                            /\ \A p \in mem[d].outbox :
                                 p \in disk[d].outbox \/ p.event \in disk[d].events

\* No write, made or interrupted, takes from storage what is shown: what it may take
\* are events of others that were saved for a subscription that was then renewed.
ShownIsKept ==
  [][\A d \in Device \ early' : mem[d].events \subseteq disk'[d].events]_logVars

History == INSTANCE AssignmentHistory WITH
  saved <- [d \in Device |-> disk[d].events],
  outbox <- [d \in Device |-> {p.event : p \in disk[d].outbox}],
  published <- {p.event : p \in relay}

\* A step of an early device: what it has in storage becomes anything, what it
\* publishes is its own, and the other devices keep what they have.
Forgets ==
  \E d \in early' : /\ \A x \in Device \ {d} : disk'[x] = disk[x]
                    /\ \A p \in relay' \ relay : Last(p.event).by = d

\* Whatever happens to writes, answers and processes, the log is a history and
\* an outbox that change as AssignmentHistory says, but for the early devices.
ImplementsHistory ==
  History!HistoryInit /\ [][History!HistoryNext \/ Forgets]_(History!historyVars)

\* No device that is not early publishes two operations on one version.
OneVersion ==
  \A p, q \in relay :
    /\ Last(p.event).by \notin early
    /\ Last(p.event).by = Last(q.event).by /\ Front(p.event) = Front(q.event)
    => p.event = q.event

\* What storage has accepted as history stays there.
HistoryKept == [][\A d \in Device : disk[d].events \subseteq disk'[d].events]_logVars

\* "Failed/ambiguous sends remain in the encrypted outbox" (assignment-log.ts, of
\* submit()): what waits there leaves it only once it has been published.
FailedSendsRemain ==
  [][\A d \in Device : disk[d].outbox \subseteq disk'[d].outbox \cup relay]_logVars

\* An operation that reached the relay is in the end shown on every device
\* whose log is open without an error, unless the room's keys changed.
Shared ==
  \A d \in Device :
    <>[](log[d].epoch = 0 /\ ~log[d].error /\ ~log[d].uncertain =>
          \A p \in relay : p.epoch = 0 => p.event \in mem[d].events)
=============================================================================
