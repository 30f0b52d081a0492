----------------------------- MODULE StateLock -----------------------------
(***************************************************************************)
(* "One keeper per state file": acquireStateLock and release of            *)
(* src/node/state-lock.ts, run by several processes on several hosts that   *)
(* share the file system.  Every system call is a step of its own; a       *)
(* process may be killed and a host may restart between any two.           *)
(*                                                                         *)
(* A Keeper is one incarnation of a process, which takes the lock once. The *)
(* lock file is named after the incarnation whose open() created it.       *)
(***************************************************************************)
EXTENDS Naturals, FiniteSets

CONSTANTS
  Keeper,     \* process incarnations
  Host, HostOf, \* [Keeper -> Host]
  PidOf,      \* [Keeper -> pid], reused by later incarnations
  BootIds,    \* the hosts that can tell one boot from another (Linux)
  Squatters,  \* <<host, pid>> of unrelated programs that run throughout
  NoFile, Unreadable,
  MaxBoot,    \* a bound on the restarts of a host
  Overlap,    \* may a process start while another is starting?
  Stalls      \* may a process stop for a minute between its open() and its write()?

ASSUME ConstantsAssumption ==
  /\ HostOf \in [Keeper -> Host]
  /\ NoFile \notin [by : Keeper, written : BOOLEAN, old : BOOLEAN]
  /\ Unreadable \notin Keeper
  /\ BootIds \subseteq Host
  /\ MaxBoot \in Nat
  /\ Overlap \in BOOLEAN /\ Stalls \in BOOLEAN

VARIABLES
  pc,      \* where each process is
  attempt, \* the loop variable: 0, then 1 after a takeover
  seen,    \* what readLock returned
  bootOf,  \* the boot id each process wrote
  boot,    \* each host's boot id
  file     \* <state>.lock: who created it, is it written, is it over a minute old

vars == <<pc, attempt, seen, bootOf, boot, file>>

File == [by : Keeper, written : BOOLEAN, old : BOOLEAN]
Acquiring == {"open", "read", "judge", "unlink", "write"}
Live == Acquiring \cup {"held", "releaseRead", "releaseUnlink", "refused", "done"}

Init ==
  /\ pc = [p \in Keeper |-> "off"]
  /\ attempt = [p \in Keeper |-> 0]
  /\ seen = [p \in Keeper |-> Unreadable]
  /\ bootOf = [p \in Keeper |-> 0]
  /\ boot = [h \in Host |-> 0]
  /\ file = NoFile

Running(p) == pc[p] \in Live
Goto(p, label) == pc' = [pc EXCEPT ![p] = label]

\* A running process has its host and pid to itself.
Start(p) ==
  /\ pc[p] = "off"
  /\ \A q \in Keeper : Running(q) => HostOf[q] # HostOf[p] \/ PidOf[q] # PidOf[p]
  /\ Overlap \/ \A q \in Keeper : pc[q] \notin Acquiring
  /\ bootOf' = [bootOf EXCEPT ![p] = boot[HostOf[p]]]
  /\ Goto(p, "open")
  /\ UNCHANGED <<attempt, seen, boot, file>>

\* openSync(path, 'wx')
Create(p) ==
  /\ pc[p] = "open"
  /\ file = NoFile
  /\ file' = [by |-> p, written |-> FALSE, old |-> FALSE]
  /\ Goto(p, "write")
  /\ UNCHANGED <<attempt, seen, bootOf, boot>>

Exists(p) ==
  /\ pc[p] = "open"
  /\ file # NoFile
  /\ Goto(p, "read")
  /\ UNCHANGED <<attempt, seen, bootOf, boot, file>>

\* readLock: nothing for a missing file and for one that is not written yet.
Read(p) ==
  /\ pc[p] = "read"
  /\ seen' = [seen EXCEPT ![p] = IF file = NoFile THEN Unreadable
                                 ELSE IF file.written THEN file.by ELSE Unreadable]
  /\ Goto(p, "judge")
  /\ UNCHANGED <<attempt, bootOf, boot, file>>

\* kill(pid, 0) on this host
Alive(h, pid) ==
  \/ <<h, pid>> \in Squatters
  \/ \E q \in Keeper : HostOf[q] = h /\ PidOf[q] = pid /\ Running(q)

\* Slips: a lock is stale whatever runs; whoever wrote it.
StaleWhateverRuns(p) ==
  IF seen[p] = Unreadable THEN file = NoFile \/ file.old ELSE HostOf[seen[p]] = HostOf[p]
StaleOnAnyHost(p) ==
  IF seen[p] = Unreadable THEN file = NoFile \/ file.old
  ELSE PidOf[seen[p]] = PidOf[p] \/ ~Alive(HostOf[p], PidOf[seen[p]])

\* What stale() says of what was read.  An unreadable lock is looked at again,
\* by its path: gone, or more than a minute old.
Stale(p) ==
  IF seen[p] = Unreadable
  THEN file = NoFile \/ file.old
  ELSE LET q == seen[p]
       IN /\ HostOf[q] = HostOf[p]
          /\ \/ HostOf[p] \in BootIds /\ bootOf[q] # bootOf[p]
             \/ PidOf[q] = PidOf[p]
             \/ ~Alive(HostOf[p], PidOf[q])

Judge(p) ==
  /\ pc[p] = "judge"
  /\ Goto(p, IF attempt[p] = 0 /\ Stale(p) THEN "unlink" ELSE "refused")
  /\ UNCHANGED <<attempt, seen, bootOf, boot, file>>

\* Slip: every round of the loop counts, so the second never ends.
UnlinkCountsOn(p) ==
  /\ pc[p] = "unlink"
  /\ file' = NoFile
  /\ attempt' = [attempt EXCEPT ![p] = 2]
  /\ Goto(p, "open")
  /\ UNCHANGED <<seen, bootOf, boot>>

\* unlinkSync(path): whatever the path names by now.
Unlink(p) ==
  /\ pc[p] = "unlink"
  /\ file' = NoFile
  /\ attempt' = [attempt EXCEPT ![p] = 1]
  /\ Goto(p, "open")
  /\ UNCHANGED <<seen, bootOf, boot>>

\* writeSync writes to the file this process opened, wherever its name went, and
\* makes it new again.
Write(p) ==
  /\ pc[p] = "write"
  /\ file' = IF file # NoFile /\ file.by = p THEN [by |-> p, written |-> TRUE, old |-> FALSE] ELSE file
  /\ Goto(p, "held")
  /\ UNCHANGED <<attempt, seen, bootOf, boot>>

Release(p) ==
  /\ pc[p] = "held"
  /\ Goto(p, "releaseRead")
  /\ UNCHANGED <<attempt, seen, bootOf, boot, file>>

\* "Only ever our own"
ReleaseRead(p) ==
  /\ pc[p] = "releaseRead"
  /\ Goto(p, IF file # NoFile /\ file.by = p /\ file.written THEN "releaseUnlink" ELSE "done")
  /\ UNCHANGED <<attempt, seen, bootOf, boot, file>>

ReleaseUnlink(p) ==
  /\ pc[p] = "releaseUnlink"
  /\ file' = NoFile
  /\ Goto(p, "done")
  /\ UNCHANGED <<attempt, seen, bootOf, boot>>

\* SIGKILL, the OOM killer
Kill(p) ==
  /\ Running(p)
  /\ Goto(p, "dead")
  /\ UNCHANGED <<attempt, seen, bootOf, boot, file>>

\* a power cut
Reboot(h) ==
  /\ boot[h] < MaxBoot
  /\ boot' = [boot EXCEPT ![h] = @ + 1]
  /\ pc' = [p \in Keeper |-> IF HostOf[p] = h /\ Running(p) THEN "dead" ELSE pc[p]]
  /\ UNCHANGED <<attempt, seen, bootOf, file>>

\* A minute passes over a lock file nobody has written.
Age ==
  /\ file # NoFile
  /\ ~file.old /\ ~file.written
  /\ Stalls \/ pc[file.by] # "write"
  /\ file' = [file EXCEPT !.old = TRUE]
  /\ UNCHANGED <<pc, attempt, seen, bootOf, boot>>

Acquire(p) == Create(p) \/ Exists(p) \/ Read(p) \/ Judge(p) \/ Unlink(p) \/ Write(p)

Next ==
  \/ \E p \in Keeper :
       \/ Start(p) \/ Acquire(p)
       \/ Release(p) \/ ReleaseRead(p) \/ ReleaseUnlink(p)
       \/ Kill(p)
  \/ \E h \in Host : Reboot(h)
  \/ Age

Spec == Init /\ [][Next]_vars

-----------------------------------------------------------------------------
TypeOK ==
  /\ pc \in [Keeper -> Live \cup {"off", "dead"}]
  /\ attempt \in [Keeper -> {0, 1}]
  /\ seen \in [Keeper -> Keeper \cup {Unreadable}]
  /\ bootOf \in [Keeper -> Nat]
  /\ boot \in [Host -> Nat]
  /\ file \in File \cup {NoFile}

Holding == {p \in Keeper : pc[p] \in {"held", "releaseRead"}}

\* "One keeper per state file": a lock left behind by a dead keeper can be taken
\* over, a lock that is being released can be taken again, and still no two
\* running keepers hold it at once.
OneKeeper == \A p, q \in Holding : p = q

\* "A lock from another host is never taken over": what another host's keeper
\* wrote stays until that keeper removes it.
ForeignLockUntouched ==
  [][\A p \in Keeper : pc[p] = "unlink" /\ pc'[p] = "open" =>
       file = NoFile \/ ~file.written \/ HostOf[file.by] = HostOf[p]]_vars
=============================================================================
