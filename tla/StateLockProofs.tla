-------------------------- MODULE StateLockProofs --------------------------
(* Mutual exclusion of the state lock when starts do not overlap, for any     *)
(* number of keepers, hosts, pids, squatters and restarts.                    *)
EXTENDS StateLock, TLAPS

\* From the moment its lock is written to the moment it is removed.
Owner(p) == pc[p] \in {"held", "releaseRead", "releaseUnlink"}

\* Starts do not overlap.
OneStarter == \A p, q \in Keeper : pc[p] \in Acquiring /\ pc[q] \in Acquiring => p = q

\* The lock file is its owner's, and a starter that created it still has it.
OwnFile ==
  \A p \in Keeper :
    /\ Owner(p) => file # NoFile /\ file.by = p /\ file.written
    /\ pc[p] = "write" => file # NoFile /\ file.by = p /\ ~file.written

\* A running keeper wrote the present boot, and has its host and pid to itself.
Identity ==
  /\ \A p \in Keeper : Running(p) => bootOf[p] = boot[HostOf[p]]
  /\ \A p, q \in Keeper : Running(p) /\ Running(q) /\ HostOf[p] = HostOf[q] /\ PidOf[p] = PidOf[q]
       => p = q

\* What a starter read is still what the file says, unless the file is gone.
ReadIsCurrent ==
  \A p \in Keeper : pc[p] = "judge" =>
    /\ \A q \in Keeper : Owner(q) => seen[p] = q
    /\ file # NoFile /\ file.written => seen[p] = file.by

\* Nobody owns a lock that a starter is about to unlink, and no other host wrote it.
Abandoned ==
  \A p \in Keeper : pc[p] = "unlink" =>
    /\ \A q \in Keeper : ~Owner(q)
    /\ file = NoFile \/ ~file.written \/ HostOf[file.by] = HostOf[p]

IInv == TypeOK /\ OneStarter /\ OwnFile /\ Identity /\ ReadIsCurrent /\ Abandoned

USE DEF Acquiring, Live, Running, Owner, Goto

\* No keeper owns anything at the start.
LEMMA InitIInv == Init => IInv
BY ConstantsAssumption DEF Init, IInv, TypeOK, OneStarter, OwnFile, Identity, ReadIsCurrent, Abandoned

\* A lock file is never mistaken for a missing one.
LEMMA NoFileIsNoRecord ==
  \A p \in Keeper, w, o \in BOOLEAN : [by |-> p, written |-> w, old |-> o] # NoFile
<1> SUFFICES ASSUME NEW p \in Keeper, NEW w \in BOOLEAN, NEW o \in BOOLEAN
             PROVE [by |-> p, written |-> w, old |-> o] \in [by : Keeper, written : BOOLEAN, old : BOOLEAN]
  BY ConstantsAssumption
<1> QED
  OBVIOUS

\* Every step keeps the types, whether starts overlap or not.
LEMMA StepTypeOK == TypeOK /\ [Next]_vars => TypeOK'
<1> USE DEF TypeOK
<1> SUFFICES ASSUME TypeOK, [Next]_vars PROVE TypeOK'
  OBVIOUS
<1>1. ASSUME NEW p \in Keeper, Start(p) PROVE TypeOK'
  BY <1>1, ConstantsAssumption DEF Start
<1>2. ASSUME NEW p \in Keeper, Create(p) PROVE TypeOK'
  BY <1>2 DEF Create, File
<1>3. ASSUME NEW p \in Keeper, Exists(p) \/ Judge(p) \/ Release(p) \/ ReleaseRead(p) \/ Kill(p)
      PROVE TypeOK'
  BY <1>3 DEF Exists, Judge, Release, ReleaseRead, Kill
<1>4. ASSUME NEW p \in Keeper, Read(p) PROVE TypeOK'
  BY <1>4 DEF Read, File
<1>5. ASSUME NEW p \in Keeper, Unlink(p) \/ ReleaseUnlink(p) PROVE TypeOK'
  BY <1>5 DEF Unlink, ReleaseUnlink
<1>6. ASSUME NEW p \in Keeper, Write(p) PROVE TypeOK'
  BY <1>6 DEF Write, File
<1>7. ASSUME NEW h \in Host, Reboot(h) PROVE TypeOK'
  BY <1>7 DEF Reboot
<1>8. CASE Age
  BY <1>8 DEF Age, File
<1>9. CASE UNCHANGED vars
  BY <1>9 DEF vars
<1> QED
  BY <1>1, <1>2, <1>3, <1>4, <1>5, <1>6, <1>7, <1>8, <1>9 DEF Next, Acquire

\* The inductive invariant is preserved by every step when starts do not overlap.
LEMMA StepIInv == ASSUME ~Overlap, IInv, [Next]_vars PROVE IInv'
<1> USE ConstantsAssumption
<1> USE DEF IInv, OneStarter, OwnFile, Identity, ReadIsCurrent, Abandoned
<1>0. TypeOK /\ TypeOK'
  BY StepTypeOK
<1>a. pc \in [Keeper -> Live \cup {"off", "dead"}] /\ seen \in [Keeper -> Keeper \cup {Unreadable}]
      /\ bootOf \in [Keeper -> Nat] /\ boot \in [Host -> Nat] /\ attempt \in [Keeper -> {0, 1}]
  BY <1>0 DEF TypeOK
<1>1. ASSUME NEW p \in Keeper, Start(p) PROVE IInv'
  BY <1>0, <1>a, <1>1 DEF Start
<1>2. ASSUME NEW p \in Keeper, Create(p) PROVE IInv'
  <2>1. \A q \in Keeper : ~Owner(q)
    BY <1>2 DEF Create
  <2>2. file' # NoFile /\ file'.by = p /\ ~file'.written
    BY <1>2, NoFileIsNoRecord DEF Create
  <2>3. OneStarter'
    BY <1>a, <1>2 DEF Create
  <2>4. OwnFile'
    BY <1>a, <1>2, <2>1, <2>2 DEF Create
  <2>5. Identity'
    BY <1>a, <1>2 DEF Create
  <2>6. ReadIsCurrent' /\ Abandoned'
    BY <1>a, <1>2, <2>1, <2>2 DEF Create
  <2> QED
    BY <1>0, <2>3, <2>4, <2>5, <2>6
<1>3. ASSUME NEW p \in Keeper, Exists(p) PROVE IInv'
  BY <1>0, <1>a, <1>3 DEF Exists
<1>4. ASSUME NEW p \in Keeper, Read(p) PROVE IInv'
  BY <1>0, <1>a, <1>4 DEF Read
<1>5. ASSUME NEW p \in Keeper, Judge(p) PROVE IInv'
  <2>1. ASSUME NEW q \in Keeper, Owner(q), Stale(p) PROVE FALSE
    <3>1. seen[p] = q /\ file # NoFile /\ file.written
      BY <1>5, <2>1 DEF Judge
    <3>2. seen[p] # Unreadable /\ q # p /\ Running(p) /\ Running(q)
      BY <1>5, <2>1, <3>1 DEF Judge
    <3>3. HostOf[q] = HostOf[p] => bootOf[q] = bootOf[p] /\ PidOf[q] # PidOf[p] /\ Alive(HostOf[p], PidOf[q])
      BY <3>2 DEF Alive
    <3> QED
      BY <2>1, <3>1, <3>2, <3>3 DEF Stale
  <2>2. Stale(p) => file = NoFile \/ ~file.written \/ HostOf[file.by] = HostOf[p]
    <3>1. CASE seen[p] = Unreadable
      <4>1. file # NoFile /\ file.written => file.by \in Keeper
        BY <1>0 DEF TypeOK, File
      <4> QED
        BY <1>5, <3>1, <4>1, ConstantsAssumption DEF Judge
    <3>2. CASE seen[p] # Unreadable
      BY <1>5, <3>2 DEF Judge, Stale
    <3> QED
      BY <3>1, <3>2
  <2>3. OneStarter' /\ OwnFile' /\ Identity' /\ ReadIsCurrent'
    BY <1>a, <1>5 DEF Judge
  <2>4. Abandoned'
    BY <1>a, <1>5, <2>1, <2>2 DEF Judge
  <2> QED
    BY <1>0, <2>3, <2>4
<1>6. ASSUME NEW p \in Keeper, Unlink(p) PROVE IInv'
  BY <1>0, <1>a, <1>6 DEF Unlink
<1>7. ASSUME NEW p \in Keeper, Write(p) PROVE IInv'
  <2>1. file # NoFile /\ file.by = p
    BY <1>7 DEF Write
  <2>2. file' # NoFile /\ file'.by = p /\ file'.written
    BY <1>7, <2>1, NoFileIsNoRecord DEF Write
  <2> QED
    BY <1>0, <1>a, <1>7, <2>1, <2>2 DEF Write
<1>8. ASSUME NEW p \in Keeper, Release(p) PROVE IInv'
  BY <1>0, <1>a, <1>8 DEF Release
<1>9. ASSUME NEW p \in Keeper, ReleaseRead(p) PROVE IInv'
  BY <1>0, <1>a, <1>9 DEF ReleaseRead
<1>10. ASSUME NEW p \in Keeper, ReleaseUnlink(p) PROVE IInv'
  <2>1. \A q \in Keeper : Owner(q) \/ pc[q] = "write" => q = p
    BY <1>10 DEF ReleaseUnlink
  <2> QED
    BY <1>0, <1>a, <1>10, <2>1 DEF ReleaseUnlink
<1>11. ASSUME NEW p \in Keeper, Kill(p) PROVE IInv'
  BY <1>0, <1>a, <1>11 DEF Kill
<1>12. ASSUME NEW h \in Host, Reboot(h) PROVE IInv'
  BY <1>0, <1>a, <1>12 DEF Reboot
<1>13. CASE Age
  <2>1. file' # NoFile /\ file'.by = file.by /\ file'.written = file.written
    BY <1>13, <1>0 DEF Age, TypeOK, File
  <2> QED
    BY <1>0, <1>a, <1>13, <2>1 DEF Age
<1>14. CASE UNCHANGED vars
  BY <1>0, <1>14 DEF vars
<1> QED
  BY <1>1, <1>2, <1>3, <1>4, <1>5, <1>6, <1>7, <1>8, <1>9, <1>10, <1>11, <1>12, <1>13, <1>14
     DEF Next, Acquire

\* An owner's file says so, and the file has one creator.
LEMMA OwnFileIsOneKeeper == IInv => OneKeeper
BY DEF IInv, OwnFile, OneKeeper, Holding

\* "One keeper per state file" (state-lock.ts), when no two keepers start at once:
\* whatever is killed, restarted, released or taken over, two running keepers never
\* hold the lock together.
THEOREM MutualExclusion == ASSUME ~Overlap PROVE Spec => []OneKeeper
<1>1. IInv /\ [Next]_vars => IInv'
  BY StepIInv
<1> QED
  BY InitIInv, <1>1, OwnFileIsOneKeeper, PTL DEF Spec

\* The variables keep their types, however starts overlap.
THEOREM TypeCorrect == Spec => []TypeOK
<1>1. Init => TypeOK
  BY InitIInv DEF IInv
<1> QED
  BY <1>1, StepTypeOK, PTL DEF Spec
=============================================================================
