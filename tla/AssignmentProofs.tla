-------------------------- MODULE AssignmentProofs --------------------------
(***************************************************************************)
(* What the assignment log and the execution of assignments keep, for every *)
(* set of devices, executors and operations, and every number of            *)
(* submissions, attempts, failed writes, crashes and changes of keys.       *)
(*                                                                         *)
(* The log, of every device that wrote nothing before it had loaded:        *)
(* nothing is shown that storage does not have or that a write takes away,  *)
(* the log is the history and outbox that AssignmentHistory promises, and   *)
(* no device publishes two operations on one version.  The early devices    *)
(* do what they like with their own storage; what is said of everyone       *)
(* (Basic: who signed what waits where) is shown first, and then what is    *)
(* said of the others.  The last result rests on what a                     *)
(* projection computes: two histories with the same head agree on what the  *)
(* assignment is.  That is shown by induction over the steps of the         *)
(* projection; what is said of one device is said by operators of its       *)
(* storage, its memory and its calls, so that it can be shown of a store    *)
(* that a write may or may not have made.                                   *)
(*                                                                         *)
(* The execution: an attempt starts at most once, what is worked on has     *)
(* been claimed, and one at a time works unless the room has a conflict.    *)
(* These rest on the story that a path of operations tells: a claim is      *)
(* followed by another only after the first execution said that it ended,   *)
(* and what a history without a conflict holds is one path.                 *)
(***************************************************************************)
EXTENDS AssignmentLog, AssignmentWork, FiniteSetTheorems, SequenceTheorems, WellFoundedInduction, TLAPS

Events == Seq(Item)
Histories == {K \in SUBSET Events : IsFiniteSet(K)}

-----------------------------------------------------------------------------
(* Induction                                                               *)

\* A set of numbers that is not empty has a least one.
LEMMA LeastElement ==
  ASSUME NEW T, T \subseteq Nat, T # {}
  PROVE  \E x \in T : \A y \in T : ~(y < x)
<1> DEFINE R == OpToRel(<, Nat)
<1>1. IsWellFoundedOn(R, Nat)
  BY NatLessThanWellFounded
<1> HIDE DEF R
<1>2. PICK x \in T : \A y \in T : <<y, x>> \notin R
  BY <1>1, WFMin
<1>3. \A y \in T : y < x => <<y, x>> \in R
  BY DEF R, OpToRel
<1> QED
  BY <1>2, <1>3

\* A set that has 0 and the successor of each of its numbers has them all.
LEMMA Inductive ==
  ASSUME NEW T, 0 \in T, \A n \in Nat : n \in T => n + 1 \in T
  PROVE  Nat \subseteq T
<1> DEFINE U == Nat \ T
<1> SUFFICES ASSUME U # {} PROVE FALSE
  OBVIOUS
<1>1. U \subseteq Nat
  OBVIOUS
<1> HIDE DEF U
<1>2. PICK x \in U : \A y \in U : ~(y < x)
  BY <1>1, LeastElement
<1>3. x \in Nat /\ x \notin T /\ x # 0
  BY DEF U
<1>4. x - 1 \in Nat /\ x - 1 < x /\ (x - 1) + 1 = x
  BY <1>3
<1>5. x - 1 \notin U
  BY <1>2, <1>4
<1>6. x - 1 \in T
  BY <1>4, <1>5 DEF U
<1> QED
  BY <1>3, <1>4, <1>6

-----------------------------------------------------------------------------
(* What a projection computes                                              *)

\* The operation that is appended is the last, and its history is the front.
LEMMA Ending ==
  ASSUME NEW s \in Events, NEW i \in Item
  PROVE  /\ Append(s, i) \in Events
         /\ Front(Append(s, i)) = s
         /\ Last(Append(s, i)) = i
<1> DEFINE e == Append(s, i)
<1>1. /\ e \in Seq(Item) /\ Len(e) = Len(s) + 1 /\ e[Len(s) + 1] = i
      /\ Len(s) \in Nat
      /\ \A n \in 1 .. Len(s) : e[n] = s[n]
  BY DEF Events
<1>2. /\ Front(e) \in Seq(Item) /\ Len(Front(e)) = Len(s)
      /\ \A n \in 1 .. Len(s) : Front(e)[n] = e[n]
  BY <1>1 DEF Front
<1>3. Front(e) = s
  BY <1>1, <1>2, SeqEqual DEF Events
<1> QED
  BY <1>1, <1>3 DEF Last, Events

\* Where a projection starts.
Start0 == [path |-> <<>>, stage |-> Unborn]

\* What the assignment is after each of the operations of s, all permitted.
IsTold(g, s) ==
  /\ g[0] = Unborn
  /\ \A n \in 1 .. Len(s) : Permitted(g[n - 1], s[n]) /\ g[n] = After(g[n - 1], s[n])

\* The projection p says what its path tells.
Told(p) == /\ p.path \in Events
           /\ \E g : IsTold(g, p.path) /\ p.stage = g[Len(p.path)]

\* f is the first m steps of the projection of E.
Walk(E, m, f) == f = [n \in 0 .. m |-> IF n = 0 THEN Start0 ELSE Advance(E, f[n - 1])]

\* The projection of E walks m steps, for every m.
LEMMA WalkExists ==
  ASSUME NEW E, NEW m \in Nat
  PROVE  \E f : Walk(E, m, f)
<1> DEFINE T == {n \in Nat : \E f : Walk(E, n, f)}
<1>1. 0 \in T
  <2> DEFINE f == [n \in 0 .. 0 |-> Start0]
  <2>1. f = [n \in 0 .. 0 |-> IF n = 0 THEN Start0 ELSE Advance(E, f[n - 1])]
    OBVIOUS
  <2> QED
    BY <2>1 DEF Walk
<1>2. ASSUME NEW n \in Nat, n \in T PROVE n + 1 \in T
  <2>1. PICK f : Walk(E, n, f)
    BY <1>2
  <2>2. f = [k \in 0 .. n |-> IF k = 0 THEN Start0 ELSE Advance(E, f[k - 1])]
    BY <2>1 DEF Walk
  <2> DEFINE g == [k \in 0 .. n + 1 |-> IF k = 0 THEN Start0 ELSE Advance(E, f[k - 1])]
  <2>3. \A k \in 0 .. n : g[k] = f[k]
    <3>1. \A k \in 0 .. n : f[k] = IF k = 0 THEN Start0 ELSE Advance(E, f[k - 1])
      BY <2>2
    <3> QED
      BY <3>1
  <2>4. \A k \in 1 .. n + 1 : k - 1 \in 0 .. n
    OBVIOUS
  <2>5. g = [k \in 0 .. n + 1 |-> IF k = 0 THEN Start0 ELSE Advance(E, g[k - 1])]
    <3>1. \A k \in 0 .. n + 1 : k # 0 => g[k - 1] = f[k - 1]
      BY <2>3, <2>4
    <3> HIDE DEF g
    <3>2. g = [k \in 0 .. n + 1 |-> IF k = 0 THEN Start0 ELSE Advance(E, f[k - 1])]
      BY DEF g
    <3> QED
      BY <3>1, <3>2
  <2> HIDE DEF g
  <2> QED
    BY <2>5 DEF Walk
<1> HIDE DEF T
<1>3. Nat \subseteq T
  BY <1>1, <1>2, Inductive
<1> QED
  BY <1>3 DEF T

\* Projection is the end of such a walk.
LEMMA ProjectionIsAWalk ==
  ASSUME NEW E, Cardinality(E) \in Nat
  PROVE  \E f : Walk(E, Cardinality(E), f) /\ Projection(E) = f[Cardinality(E)]
<1> DEFINE m == Cardinality(E)
           p == CHOOSE f : f = [n \in 0 .. m |-> IF n = 0 THEN Start0 ELSE Advance(E, f[n - 1])]
<1>1. Projection(E) = p[m]
  BY DEF Projection, Start0
<1>2. \E f : f = [n \in 0 .. m |-> IF n = 0 THEN Start0 ELSE Advance(E, f[n - 1])]
  BY WalkExists DEF Walk
<1>3. p = [n \in 0 .. m |-> IF n = 0 THEN Start0 ELSE Advance(E, p[n - 1])]
  BY <1>2
<1>4. Walk(E, m, p)
  BY <1>3 DEF Walk
<1> HIDE DEF p, m
<1>5. Walk(E, m, p) /\ Projection(E) = p[m]
  BY <1>1, <1>4
<1> QED
  BY <1>5 DEF m

\* A path tells one story.
LEMMA ToldOnce ==
  ASSUME NEW s \in Events, NEW g, NEW h, IsTold(g, s), IsTold(h, s)
  PROVE  g[Len(s)] = h[Len(s)]
<1> DEFINE T == {n \in Nat : n <= Len(s) => g[n] = h[n]}
<1>1. 0 \in T
  BY DEF IsTold
<1>2. ASSUME NEW n \in Nat, n \in T PROVE n + 1 \in T
  <2> SUFFICES ASSUME n + 1 <= Len(s) PROVE g[n + 1] = h[n + 1]
    OBVIOUS
  <2>1. Len(s) \in Nat /\ n <= Len(s) /\ n + 1 \in 1 .. Len(s) /\ (n + 1) - 1 = n
    BY DEF Events
  <2>2. g[n] = h[n]
    BY <1>2, <2>1
  <2>3. g[n + 1] = After(g[n], s[n + 1]) /\ h[n + 1] = After(h[n], s[n + 1])
    BY <2>1 DEF IsTold
  <2> QED
    BY <2>2, <2>3
<1> HIDE DEF T
<1>3. Nat \subseteq T
  BY <1>1, <1>2, Inductive
<1>4. Len(s) \in Nat
  BY DEF Events
<1> QED
  BY <1>3, <1>4 DEF T

\* A candidate is the path with one operation more.
LEMMA CandidateEnds ==
  ASSUME NEW E \in Histories, NEW p, Told(p), NEW e \in Candidates(E, p)
  PROVE  /\ e \in Events /\ Len(e) = Len(p.path) + 1 /\ Len(p.path) \in Nat
         /\ \A n \in 1 .. Len(p.path) : e[n] = p.path[n]
         /\ Permitted(p.stage, Last(e)) /\ Front(e) = p.path /\ e \in E
<1>1. /\ e \in E /\ Len(e) = Len(p.path) + 1 /\ Front(e) = p.path /\ Permitted(p.stage, Last(e))
  BY DEF Candidates
<1>2. e \in Seq(Item) /\ p.path \in Seq(Item)
  BY <1>1 DEF Events, Histories, Told
<1>3. Len(p.path) \in Nat
  BY <1>2
<1>4. Front(e) = SubSeq(e, 1, Len(p.path))
  BY <1>1, <1>3 DEF Front
<1>5. \A n \in 1 .. Len(p.path) : SubSeq(e, 1, Len(p.path))[n] = e[n]
  BY <1>1, <1>2, <1>3
<1> QED
  BY <1>1, <1>2, <1>3, <1>4, <1>5 DEF Events

\* The only candidate is the one that is chosen.
LEMMA OneCandidate ==
  ASSUME NEW E \in Histories, NEW p, Cardinality(Candidates(E, p)) = 1
  PROVE  (CHOOSE e \in Candidates(E, p) : TRUE) \in Candidates(E, p)
<1>1. Candidates(E, p) # {}
  BY FS_EmptySet
<1> QED
  BY <1>1

\* A step of the projection goes on with the story.
LEMMA AdvanceTold ==
  ASSUME NEW E \in Histories, NEW p, Told(p)
  PROVE  Told(Advance(E, p))
<1>1. CASE Cardinality(Candidates(E, p)) # 1
  BY <1>1 DEF Advance
<1>2. CASE Cardinality(Candidates(E, p)) = 1
  <2> DEFINE c == CHOOSE e \in Candidates(E, p) : TRUE
  <2>1. PICK e \in Candidates(E, p) : e = c
    BY <1>2, OneCandidate
  <2>2. Advance(E, p) = [path |-> e, stage |-> After(p.stage, Last(e))]
    BY <1>2, <2>1 DEF Advance
  <2> HIDE DEF c
  <2>3. /\ e \in Events /\ Len(e) = Len(p.path) + 1 /\ Len(p.path) \in Nat
        /\ \A n \in 1 .. Len(p.path) : e[n] = p.path[n]
        /\ Permitted(p.stage, Last(e))
    BY CandidateEnds
  <2>4. PICK g : IsTold(g, p.path) /\ p.stage = g[Len(p.path)]
    BY DEF Told
  <2> DEFINE m == Len(e)
             s == After(p.stage, Last(e))
             h == [n \in 0 .. m |-> IF n = m THEN s ELSE g[n]]
  <2>5. m \in Nat /\ m # 0 /\ m - 1 = Len(p.path) /\ m \in 0 .. m /\ 0 \in 0 .. m
    BY <2>3
  <2>6. h[m] = s /\ h[0] = g[0]
    BY <2>5
  <2>7. \A n \in 0 .. m - 1 : h[n] = g[n]
    BY <2>5
  <2> HIDE DEF h
  <2>8. ASSUME NEW n \in 1 .. m PROVE Permitted(h[n - 1], e[n]) /\ h[n] = After(h[n - 1], e[n])
    <3>1. CASE n = m
      <4>0. n - 1 = Len(p.path) /\ n - 1 \in 0 .. m - 1
        BY <2>5, <3>1
      <4>1. h[n - 1] = p.stage
        <5>1. h[n - 1] = g[n - 1]
          BY <2>7, <4>0
        <5> QED
          BY <2>4, <4>0, <5>1
      <4>2. e[n] = Last(e)
        BY <3>1 DEF Last
      <4> QED
        BY <2>3, <2>6, <3>1, <4>1, <4>2
    <3>2. CASE n # m
      <4>1. n \in 1 .. Len(p.path) /\ n \in 0 .. m - 1 /\ n - 1 \in 0 .. m - 1
        BY <2>5, <3>2
      <4>2. Permitted(g[n - 1], p.path[n]) /\ g[n] = After(g[n - 1], p.path[n]) /\ e[n] = p.path[n]
        BY <2>3, <2>4, <4>1 DEF IsTold
      <4>3. h[n] = g[n] /\ h[n - 1] = g[n - 1]
        BY <2>7, <4>1
      <4> QED
        BY <4>2, <4>3
    <3> QED
      BY <3>1, <3>2
  <2>9. IsTold(h, e)
    BY <2>4, <2>6, <2>8 DEF IsTold
  <2> QED
    BY <2>2, <2>3, <2>6, <2>9 DEF Told
<1> QED
  BY <1>1, <1>2

\* The story starts with an assignment that is not born.
LEMMA StartTold == Told(Start0)
<1>1. IsTold([n \in 0 .. 0 |-> Unborn], <<>>)
  BY DEF IsTold
<1>2. [n \in 0 .. 0 |-> Unborn][Len(<<>>)] = Unborn
  OBVIOUS
<1> QED
  BY <1>1, <1>2 DEF Told, Start0, Events

\* What a projection says of the assignment is told by its path.
LEMMA ProjectionTold ==
  ASSUME NEW E \in Histories
  PROVE  Told(Projection(E))
<1>1. Cardinality(E) \in Nat
  BY FS_CardinalityType DEF Histories
<1>2. PICK f : Walk(E, Cardinality(E), f) /\ Projection(E) = f[Cardinality(E)]
  BY <1>1, ProjectionIsAWalk
<1> DEFINE m == Cardinality(E)
           T == {n \in Nat : n <= m => Told(f[n])}
<1>3. \A n \in 0 .. m : f[n] = IF n = 0 THEN Start0 ELSE Advance(E, f[n - 1])
  <2>1. f = [n \in 0 .. m |-> IF n = 0 THEN Start0 ELSE Advance(E, f[n - 1])]
    BY <1>2 DEF Walk
  <2> QED
    BY <2>1
<1>4. m \in Nat
  BY <1>1
<1> HIDE DEF m
<1>5. 0 \in T
  BY <1>3, <1>4, StartTold
<1>6. ASSUME NEW n \in Nat, n \in T PROVE n + 1 \in T
  <2> SUFFICES ASSUME n + 1 <= m PROVE Told(f[n + 1])
    OBVIOUS
  <2>1. n <= m /\ n + 1 \in 0 .. m /\ n + 1 # 0 /\ (n + 1) - 1 = n
    BY <1>4
  <2>2. Told(f[n])
    BY <1>6, <2>1
  <2>3. f[n + 1] = Advance(E, f[n])
    BY <1>3, <2>1
  <2> QED
    BY <2>2, <2>3, AdvanceTold
<1> HIDE DEF T
<1>7. Nat \subseteq T
  BY <1>5, <1>6, Inductive
<1> QED
  BY <1>2, <1>4, <1>7 DEF T, m

\* The head of a history is an event.
LEMMA TipType ==
  ASSUME NEW E \in Histories
  PROVE  Tip(E) \in Events
BY ProjectionTold DEF Tip, Told

\* Two histories with the same head agree on what the assignment is.
LEMMA SameStage ==
  ASSUME NEW E \in Histories, NEW F \in Histories, Tip(E) = Tip(F)
  PROVE  Projection(E).stage = Projection(F).stage
<1>1. /\ Told(Projection(E)) /\ Told(Projection(F))
      /\ Projection(E).path = Projection(F).path
  BY ProjectionTold DEF Tip
<1>2. PICK g : IsTold(g, Projection(E).path) /\ Projection(E).stage = g[Len(Projection(E).path)]
  BY <1>1 DEF Told
<1>3. PICK h : IsTold(h, Projection(F).path) /\ Projection(F).stage = h[Len(Projection(F).path)]
  BY <1>1 DEF Told
<1> QED
  BY <1>1, <1>2, <1>3, ToldOnce DEF Told

-----------------------------------------------------------------------------
(* The variables                                                           *)

Pendings == [event : Events, epoch : Nat]
Stores == [events : Histories, outbox : SUBSET Pendings]
Tasks == [kind : {"incoming", "queue", "settle"}, next : Stores,
          caller : Caller \cup {0}, current : BOOLEAN]
Calls == [pending : Pendings,
          stage : {"queued", "saved", "sending", "sent", "settling", "ok", "failed"}]
States == [open : BOOLEAN, loaded : BOOLEAN, heard : BOOLEAN, epoch : Nat,
           replayed : BOOLEAN, error : BOOLEAN, uncertain : BOOLEAN]
StageNames == {"queued", "saved", "sending", "sent", "settling", "ok", "failed"}
CallTable == [Device \X Caller -> Calls \cup {NoCall}]

\* The events that pendings carry.
EventsOf(P) == {p.event : p \in P}

\* The variables have their types, and finitely many events are published.
Typed ==
  /\ disk \in [Device -> Stores]
  /\ mem \in [Device -> Stores]
  /\ image \in [Device -> Stores \cup {NoImage}]
  /\ log \in [Device -> States]
  /\ task \in [Device -> Tasks \cup {NoTask}]
  /\ call \in CallTable
  /\ relay \in SUBSET Pendings /\ IsFiniteSet(EventsOf(relay))
  /\ early \subseteq Device

-----------------------------------------------------------------------------
(* What holds of every device, early or not                                *)

\* d signed e.
Own(d, e) == Last(e).by = d

\* What waits in P is of d.
Owns(d, P) == \A p \in P : Own(d, p.event)

\* The call c of d is at this stage.
Called(K, d, c, stage) ==
  /\ c \in Caller /\ K[<<d, c>>] \in Calls /\ K[<<d, c>>].stage = stage
  /\ Own(d, K[<<d, c>>].pending.event)

\* The call that waits for the write t.
Waits(d, l, t, K) == /\ t.kind = "queue" => l.loaded /\ Called(K, d, t.caller, "queued")
                     /\ t.kind = "settle" => l.loaded /\ Called(K, d, t.caller, "settling")

\* Whatever d has waiting, written, read or in a call, it signed; and calls are made
\* of a log that has loaded.
Mine(d, D, m, i, l, t, K) ==
  /\ Owns(d, D.outbox) /\ Owns(d, m.outbox)
  /\ i # NoImage => Owns(d, i.outbox)
  /\ t # NoTask => Owns(d, t.next.outbox) /\ Waits(d, l, t, K)
  /\ \A c \in Caller : K[<<d, c>>] # NoCall => l.loaded /\ Own(d, K[<<d, c>>].pending.event)

Basic ==
  /\ Typed
  /\ \A d \in Device : Mine(d, disk[d], mem[d], image[d], log[d], task[d], call)

\* The same calls.
Alike(K, L, d) == \A b \in Caller : L[<<d, b>>] = K[<<d, b>>]

\* The same calls, except for that of c, which is now k.
Turned(K, L, d, c, k) ==
  /\ L[<<d, c>>] = k
  /\ \A b \in Caller : b # c => L[<<d, b>>] = K[<<d, b>>]

\* Nothing changes but for d.
SameLog(G, H, d) == \A x \in Device : x # d => H[x] = G[x]

\* Only d takes a new value.
Put(F, G, d, v) == G = [F EXCEPT ![d] = v]

\* Only d does something.
Alone(d) ==
  /\ SameLog(disk, disk', d) /\ SameLog(mem, mem', d) /\ SameLog(image, image', d)
  /\ SameLog(log, log', d) /\ SameLog(task, task', d)
  /\ \A x \in Device : x # d => Alike(call, call', x)
  /\ early \subseteq early' /\ early' \subseteq early \cup {d}

\* A function that takes a new value in one place.
LEMMA PutOne ==
  ASSUME NEW S, NEW F \in [Device -> S], NEW d \in Device, NEW v \in S, NEW G, Put(F, G, d, v)
  PROVE  G \in [Device -> S] /\ G[d] = v /\ SameLog(F, G, d)
BY DEF Put, SameLog

LEMMA PutNone == \A F, d : SameLog(F, F, d)
BY DEF SameLog

\* What is said of one device does not change when its calls stay.
LEMMA MineStill ==
  ASSUME NEW d, NEW D, NEW m, NEW i, NEW l, NEW t, NEW K, NEW L,
         Mine(d, D, m, i, l, t, K), Alike(K, L, d), t # NoTask => t \in Tasks
  PROVE  Mine(d, D, m, i, l, t, L)
BY DEF Mine, Alike, Waits, Called

\* A step of d that keeps the types and what is said of d.
LEMMA BasicStep ==
  ASSUME Basic, Typed', NEW d \in Device, Alone(d),
         Mine(d, disk'[d], mem'[d], image'[d], log'[d], task'[d], call')
  PROVE  Basic'
<1>1. ASSUME NEW x \in Device, x # d
      PROVE  Mine(x, disk'[x], mem'[x], image'[x], log'[x], task'[x], call')
  <2>1. Mine(x, disk[x], mem[x], image[x], log[x], task[x], call)
    BY DEF Basic
  <2>2. /\ disk'[x] = disk[x] /\ mem'[x] = mem[x] /\ image'[x] = image[x]
        /\ log'[x] = log[x] /\ task'[x] = task[x] /\ Alike(call, call', x)
    BY <1>1 DEF Alone, SameLog
  <2>3. task[x] # NoTask => task[x] \in Tasks
    BY DEF Basic, Typed
  <2>4. PICK L : L = call'
    OBVIOUS
  <2>5. Mine(x, disk[x], mem[x], image[x], log[x], task[x], L)
    BY <2>1, <2>2, <2>3, <2>4, MineStill
  <2> QED
    BY <2>2, <2>4, <2>5
<1> QED
  BY <1>1 DEF Basic

\* A call takes a new value; no other changes.
LEMMA CallTurns ==
  ASSUME NEW K \in CallTable, NEW d \in Device, NEW c \in Caller,
         NEW k \in Calls \cup {NoCall}, NEW L, L = [K EXCEPT ![<<d, c>>] = k]
  PROVE  /\ L \in CallTable /\ Turned(K, L, d, c, k)
         /\ \A x \in Device : x # d => Alike(K, L, x)
<1>1. <<d, c>> \in Device \X Caller
  OBVIOUS
<1>2. L \in CallTable /\ L[<<d, c>>] = k
  BY <1>1 DEF CallTable
<1>3. \A x \in Device, b \in Caller : <<x, b>> # <<d, c>> => L[<<x, b>>] = K[<<x, b>>]
  BY DEF CallTable
<1> QED
  BY <1>2, <1>3 DEF Turned, Alike

\* The call c of d has come to the stage given.
Staged(K, L, d, c, stage) == L = [K EXCEPT ![<<d, c>>].stage = stage]

\* A call comes to a new stage; no other changes.
LEMMA StageTurns ==
  ASSUME NEW K \in CallTable, NEW d \in Device, NEW c \in Caller,
         K[<<d, c>>] \in Calls, NEW stage \in StageNames,
         NEW L, Staged(K, L, d, c, stage)
  PROVE  \E k \in Calls : /\ k.pending = K[<<d, c>>].pending /\ k.stage = stage
                          /\ L \in CallTable /\ Turned(K, L, d, c, k)
                          /\ \A x \in Device : x # d => Alike(K, L, x)
<1> DEFINE j == K[<<d, c>>]
           k == [j EXCEPT !.stage = stage]
<1>1. j \in Calls
  OBVIOUS
<1> HIDE DEF j
<1>2. k \in Calls /\ k.pending = j.pending /\ k.stage = stage
  BY <1>1 DEF Calls, StageNames
<1>3. L = [K EXCEPT ![<<d, c>>] = k]
  BY DEF j, Staged
<1> HIDE DEF k
<1>4. /\ L \in CallTable /\ Turned(K, L, d, c, k)
      /\ \A x \in Device : x # d => Alike(K, L, x)
  <2>1. k \in Calls \cup {NoCall}
    BY <1>2
  <2> QED
    BY <1>3, <2>1, CallTurns
<1> QED
  BY <1>2, <1>4 DEF j

\* A call in progress is a call.
LEMMA CallTyped ==
  ASSUME Typed, NEW d \in Device, NEW c \in Caller, call[<<d, c>>] # NoCall
  PROVE  call \in CallTable /\ call[<<d, c>>] \in Calls
BY DEF Typed, CallTable

\* Done() takes a call to a new stage; no other changes.
LEMMA CallStageTurns ==
  ASSUME Typed, NEW d \in Device, NEW c \in Caller, call[<<d, c>>] \in Calls,
         NEW stage \in StageNames, call' = Done(d, c, stage)
  PROVE  \E k \in Calls : /\ k.pending = call[<<d, c>>].pending /\ k.stage = stage
                          /\ call' \in CallTable /\ Turned(call, call', d, c, k)
                          /\ \A x \in Device : x # d => Alike(call, call', x)
<1>1. PICK L : L = call'
  OBVIOUS
<1>2. PICK K : K = call
  OBVIOUS
<1>3. Staged(K, L, d, c, stage)
  BY <1>1, <1>2 DEF Done, Staged
<1>4. K \in CallTable /\ K[<<d, c>>] \in Calls
  BY <1>2 DEF Typed, CallTable
<1>5. \E k \in Calls : /\ k.pending = K[<<d, c>>].pending /\ k.stage = stage
                      /\ L \in CallTable /\ Turned(K, L, d, c, k)
                      /\ \A x \in Device : x # d => Alike(K, L, x)
  BY <1>3, <1>4, StageTurns
<1> QED
  BY <1>1, <1>2, <1>5

\* A write that is no longer current is the same write.
LEMMA OutdatedKeeps ==
  ASSUME Basic, NEW d \in Device, task' = task \/ task' = Outdated(d)
  PROVE  /\ task' \in [Device -> Tasks \cup {NoTask}] /\ SameLog(task, task', d)
         /\ \/ task'[d] = task[d]
            \/ /\ task[d] # NoTask /\ task'[d].kind = task[d].kind
               /\ task'[d].next = task[d].next /\ task'[d].caller = task[d].caller
<1>1. task \in [Device -> Tasks \cup {NoTask}]
  BY DEF Basic, Typed
<1>2. CASE task' = task
  BY <1>1, <1>2 DEF SameLog
<1>3. CASE task' # task
  <2>1. task[d] # NoTask /\ task' = [task EXCEPT ![d].current = FALSE] /\ task[d] \in Tasks
    BY <1>1, <1>3 DEF Outdated
  <2>2. PICK t : t = [task[d] EXCEPT !.current = FALSE]
    OBVIOUS
  <2>3. t \in Tasks /\ t.kind = task[d].kind /\ t.next = task[d].next /\ t.caller = task[d].caller
    BY <2>1, <2>2 DEF Tasks
  <2>4. Put(task, task', d, t)
    BY <1>1, <2>1, <2>2 DEF Put
  <2>5. task' \in [Device -> Tasks \cup {NoTask}] /\ task'[d] = t /\ SameLog(task, task', d)
    <3>1. t \in Tasks \cup {NoTask}
      BY <2>3
    <3> QED
      BY <1>1, <2>4, <3>1, PutOne
  <2> QED
    BY <2>1, <2>3, <2>5
<1> QED
  BY <1>2, <1>3

-----------------------------------------------------------------------------
(* Every step keeps the types, and what is of whom                         *)

\* Only a call of d changes, and the relay.
LEMMA CallBasic ==
  ASSUME Basic, NEW d \in Device, NEW c \in Caller, NEW k \in Calls \cup {NoCall},
         UNCHANGED <<disk, mem, image, log, task, early>>,
         relay' \in SUBSET Pendings, IsFiniteSet(EventsOf(relay')),
         call' \in CallTable, Turned(call, call', d, c, k),
         \A x \in Device : x # d => Alike(call, call', x),
         task[d] = NoTask \/ call[<<d, c>>].stage \notin {"queued", "settling"},
         k # NoCall => log[d].loaded /\ Own(d, k.pending.event)
  PROVE  Basic' /\ Alone(d)
<1>1. Typed'
  BY DEF Basic, Typed
<1>2. Alone(d)
  BY DEF Alone, SameLog
<1>3. Mine(d, disk[d], mem[d], image[d], log[d], task[d], call)
  BY DEF Basic
<1>4. PICK L : L = call'
  OBVIOUS
<1>5. task[d] # NoTask => task[d] \in Tasks
  BY DEF Basic, Typed
<1>6. task[d] # NoTask => Waits(d, log[d], task[d], L)
  BY <1>3, <1>4 DEF Mine, Waits, Called, Turned
<1>7. \A b \in Caller : L[<<d, b>>] # NoCall => log[d].loaded /\ Own(d, L[<<d, b>>].pending.event)
  BY <1>3, <1>4 DEF Mine, Turned
<1>8. Mine(d, disk[d], mem[d], image[d], log[d], task[d], L)
  BY <1>3, <1>6, <1>7 DEF Mine
<1> QED
  BY <1>1, <1>2, <1>4, <1>8, BasicStep

\* A call in progress is of d, and of a log that has loaded.
LEMMA CallOwned ==
  ASSUME Basic, NEW d \in Device, NEW c \in Caller, call[<<d, c>>] # NoCall
  PROVE  /\ log[d].loaded /\ Own(d, call[<<d, c>>].pending.event)
         /\ call \in CallTable /\ call[<<d, c>>] \in Calls
<1>1. Mine(d, disk[d], mem[d], image[d], log[d], task[d], call) /\ Typed
  BY DEF Basic
<1> QED
  BY <1>1, CallTyped DEF Mine

\* A call that waits for no write comes to another stage.
LEMMA StageBasic ==
  ASSUME Basic, NEW d \in Device, NEW c \in Caller, call[<<d, c>>] # NoCall,
         NEW stage \in StageNames, call' = Done(d, c, stage),
         UNCHANGED <<disk, mem, image, log, task, early>>,
         relay' \in SUBSET Pendings, IsFiniteSet(EventsOf(relay')),
         task[d] = NoTask \/ call[<<d, c>>].stage \notin {"queued", "settling"}
  PROVE  Basic' /\ Alone(d)
<1>1. /\ log[d].loaded /\ Own(d, call[<<d, c>>].pending.event)
      /\ call \in CallTable /\ call[<<d, c>>] \in Calls
  BY CallOwned
<1>2. PICK k \in Calls :
        /\ k.pending = call[<<d, c>>].pending /\ k.stage = stage
        /\ call' \in CallTable /\ Turned(call, call', d, c, k)
        /\ \A x \in Device : x # d => Alike(call, call', x)
  BY <1>1, CallStageTurns DEF Basic
<1> QED
  BY <1>1, <1>2, CallBasic

\* The relay as it is has its type.
LEMMA RelayTyped ==
  ASSUME Basic, relay' = relay
  PROVE  relay' \in SUBSET Pendings /\ IsFiniteSet(EventsOf(relay'))
BY DEF Basic, Typed

LEMMA SendBasic ==
  ASSUME Basic, NEW d \in Device, NEW c \in Caller, Send(d, c)
  PROVE  Basic' /\ Alone(d)
<1> DEFINE stage == IF call[<<d, c>>].pending.epoch = log[d].epoch THEN "sending" ELSE "failed"
<1>1. /\ call[<<d, c>>] # NoCall /\ call[<<d, c>>].stage = "saved"
      /\ call' = Done(d, c, stage) /\ UNCHANGED <<disk, mem, image, log, task, early>>
      /\ relay' = relay
  BY DEF Send
<1>2. stage \in StageNames
  BY DEF StageNames
<1> HIDE DEF stage
<1> QED
  BY <1>1, <1>2, RelayTyped, StageBasic

LEMMA SendFailsBasic ==
  ASSUME Basic, NEW d \in Device, NEW c \in Caller, SendFails(d, c)
  PROVE  Basic' /\ Alone(d)
BY RelayTyped, StageBasic DEF SendFails, StageNames

LEMMA ReturnBasic ==
  ASSUME Basic, NEW d \in Device, NEW c \in Caller, Return(d, c)
  PROVE  Basic' /\ Alone(d)
<1>1. /\ call[<<d, c>>].stage \notin {"queued", "settling"}
      /\ call' = [call EXCEPT ![<<d, c>>] = NoCall]
      /\ UNCHANGED <<disk, mem, image, log, task, early>> /\ relay' = relay
  BY DEF Return
<1>2. call \in CallTable
  BY DEF Basic, Typed
<1>3. /\ call' \in CallTable /\ Turned(call, call', d, c, NoCall)
      /\ \A x \in Device : x # d => Alike(call, call', x)
  BY <1>1, <1>2, CallTurns
<1> QED
  BY <1>1, <1>3, RelayTyped, CallBasic

LEMMA ResubmitBasic ==
  ASSUME Basic, NEW d \in Device, NEW c \in Caller, NEW p \in mem[d].outbox, Resubmit(d, c, p)
  PROVE  Basic' /\ Alone(d)
<1> DEFINE k == [pending |-> p, stage |-> "saved"]
<1>1. /\ task[d] = NoTask /\ log[d].loaded
      /\ call' = [call EXCEPT ![<<d, c>>] = k]
      /\ UNCHANGED <<disk, mem, image, log, task, early>> /\ relay' = relay
  BY DEF Resubmit, Idle, Ready
<1>2. call \in CallTable /\ mem[d] \in Stores
  BY DEF Basic, Typed
<1>3. p \in Pendings
  BY <1>2 DEF Stores
<1>4. k \in Calls /\ k.pending = p
  BY <1>3 DEF Calls
<1> HIDE DEF k
<1>5. /\ call' \in CallTable /\ Turned(call, call', d, c, k)
      /\ \A x \in Device : x # d => Alike(call, call', x)
  BY <1>1, <1>2, <1>4, CallTurns
<1>6. Own(d, p.event)
  BY DEF Basic, Mine, Owns
<1> QED
  BY <1>1, <1>4, <1>5, <1>6, RelayTyped, CallBasic

\* One more pending is one more event.
LEMMA EventsMore ==
  ASSUME NEW R, NEW p
  PROVE  EventsOf(R \cup {p}) = EventsOf(R) \cup {p.event}
BY DEF EventsOf

LEMMA ArriveBasic ==
  ASSUME Basic, NEW d \in Device, NEW c \in Caller, Arrive(d, c)
  PROVE  Basic' /\ Alone(d)
<1>1. PICK p : p = call[<<d, c>>].pending
  OBVIOUS
<1>2. PICK stage \in {"sent", "failed"} :
        /\ call[<<d, c>>] # NoCall /\ call[<<d, c>>].stage = "sending"
        /\ relay' = relay \cup {p} /\ call' = Done(d, c, stage)
        /\ UNCHANGED <<disk, mem, image, log, task, early>>
  BY <1>1 DEF Arrive
<1>3. call[<<d, c>>] \in Calls /\ Typed
  BY <1>2, CallOwned DEF Basic
<1>4. p \in Pendings
  BY <1>1, <1>3 DEF Calls
<1>5. relay' \in SUBSET Pendings
  BY <1>2, <1>3, <1>4 DEF Typed
<1>6. IsFiniteSet(EventsOf(relay'))
  <2>1. IsFiniteSet(EventsOf(relay) \cup {p.event})
    BY <1>3, FS_AddElement DEF Typed
  <2> QED
    BY <1>2, <2>1, EventsMore
<1>7. stage \in StageNames
  BY DEF StageNames
<1> QED
  BY <1>2, <1>5, <1>6, <1>7, StageBasic

\* Nothing changes but the log of d, what was read, and which of its writes are current.
LEMMA LogBasic ==
  ASSUME Basic, NEW d \in Device, UNCHANGED <<disk, mem, call, relay, early>>,
         NEW i \in Stores \cup {NoImage}, Put(image, image', d, i), i # NoImage => Owns(d, i.outbox),
         NEW l \in States, Put(log, log', d, l), log[d].loaded => l.loaded,
         task' = task \/ task' = Outdated(d)
  PROVE  Basic' /\ Alone(d)
<1>1. Typed /\ Mine(d, disk[d], mem[d], image[d], log[d], task[d], call)
  BY DEF Basic
<1>2. image' \in [Device -> Stores \cup {NoImage}] /\ image'[d] = i /\ SameLog(image, image', d)
  BY <1>1, PutOne DEF Typed
<1>3. log' \in [Device -> States] /\ log'[d] = l /\ SameLog(log, log', d)
  BY <1>1, PutOne DEF Typed
<1>4. /\ task' \in [Device -> Tasks \cup {NoTask}] /\ SameLog(task, task', d)
      /\ \/ task'[d] = task[d]
         \/ /\ task[d] # NoTask /\ task'[d].kind = task[d].kind
            /\ task'[d].next = task[d].next /\ task'[d].caller = task[d].caller
  BY OutdatedKeeps
<1>5. Typed'
  BY <1>1, <1>2, <1>3, <1>4 DEF Typed
<1>6. Alone(d)
  BY <1>2, <1>3, <1>4 DEF Alone, SameLog, Alike
<1>7. PICK t : t = task'[d]
  OBVIOUS
<1>8. Mine(d, disk[d], mem[d], i, l, t, call)
  BY <1>1, <1>4, <1>7 DEF Mine, Waits, Called
<1> QED
  BY <1>2, <1>3, <1>5, <1>6, <1>7, <1>8, BasicStep

\* Nothing is read, and what was read stays.
LEMMA ImageStays ==
  ASSUME Basic, NEW d \in Device, image' = image
  PROVE  /\ image[d] \in Stores \cup {NoImage} /\ Put(image, image', d, image[d])
         /\ image[d] # NoImage => Owns(d, image[d].outbox)
<1>1. image \in [Device -> Stores \cup {NoImage}] /\ Mine(d, disk[d], mem[d], image[d], log[d], task[d], call)
  BY DEF Basic, Typed
<1> QED
  BY <1>1 DEF Put, Mine

LEMMA OpenBasic ==
  ASSUME Basic, NEW d \in Device, Open(d)
  PROVE  Basic' /\ Alone(d)
<1> DEFINE l == [log[d] EXCEPT !.open = TRUE]
<1>1. log[d] \in States /\ log \in [Device -> States]
  BY DEF Basic, Typed
<1>2. l \in States /\ l.loaded = log[d].loaded
  BY <1>1 DEF States
<1>3. Put(log, log', d, l)
  BY <1>1 DEF Open, Put
<1> HIDE DEF l
<1>4. UNCHANGED <<disk, mem, call, relay, early>> /\ image' = image /\ task' = task
  BY DEF Open
<1> QED
  BY <1>2, <1>3, <1>4, ImageStays, LogBasic

LEMMA ReadBasic ==
  ASSUME Basic, NEW d \in Device, Read(d)
  PROVE  Basic' /\ Alone(d)
<1>1. /\ UNCHANGED <<disk, mem, call, relay, early>> /\ task' = task /\ log' = log
      /\ Put(image, image', d, disk[d])
  BY DEF Read, Put
<1>2. /\ log[d] \in States /\ log \in [Device -> States] /\ disk[d] \in Stores
      /\ Mine(d, disk[d], mem[d], image[d], log[d], task[d], call)
  BY DEF Basic, Typed
<1>3. Put(log, log', d, log[d])
  BY <1>1, <1>2 DEF Put
<1>4. disk[d] \in Stores \cup {NoImage} /\ Owns(d, disk[d].outbox)
  BY <1>2 DEF Mine
<1> QED
  BY <1>1, <1>2, <1>3, <1>4, LogBasic

LEMMA EndOfHistoryBasic ==
  ASSUME Basic, NEW d \in Device, EndOfHistory(d)
  PROVE  Basic' /\ Alone(d)
<1> DEFINE l == [log[d] EXCEPT !.replayed = TRUE]
<1>1. log[d] \in States /\ log \in [Device -> States]
  BY DEF Basic, Typed
<1>2. l \in States /\ l.loaded = log[d].loaded
  BY <1>1 DEF States
<1>3. Put(log, log', d, l)
  BY <1>1 DEF EndOfHistory, Put
<1> HIDE DEF l
<1>4. UNCHANGED <<disk, mem, call, relay, early>> /\ image' = image /\ task' = task
  BY DEF EndOfHistory
<1> QED
  BY <1>2, <1>3, <1>4, ImageStays, LogBasic

\* What the log says of itself when it is rekeyed.
Rekeyed(d) == [log[d] EXCEPT !.epoch = log[d].epoch + 1, !.replayed = FALSE, !.heard = log[d].open]

LEMMA RekeyedLog ==
  ASSUME Basic, NEW d \in Device, Rekey(d)
  PROVE  /\ Rekeyed(d) \in States /\ Put(log, log', d, Rekeyed(d))
         /\ Rekeyed(d).loaded = log[d].loaded /\ Rekeyed(d).uncertain = log[d].uncertain
<1>1. log[d] \in States /\ log \in [Device -> States]
  BY DEF Basic, Typed
<1>2. /\ Rekeyed(d) \in States
      /\ Rekeyed(d).loaded = log[d].loaded /\ Rekeyed(d).uncertain = log[d].uncertain
  <2>1. PICK n : n = log[d].epoch + 1
    OBVIOUS
  <2>2. n \in Nat /\ log[d].open \in BOOLEAN
    BY <1>1, <2>1 DEF States
  <2>3. Rekeyed(d) = [log[d] EXCEPT !.epoch = n, !.replayed = FALSE, !.heard = log[d].open]
    BY <2>1 DEF Rekeyed
  <2> QED
    BY <1>1, <2>2, <2>3 DEF States
<1>3. Put(log, log', d, Rekeyed(d))
  BY <1>1 DEF Rekey, Put, Rekeyed
<1> QED
  BY <1>2, <1>3

LEMMA RekeyBasic ==
  ASSUME Basic, NEW d \in Device, Rekey(d)
  PROVE  Basic' /\ Alone(d)
<1>1. UNCHANGED <<disk, mem, call, relay, early>> /\ image' = image /\ task' = Outdated(d)
  BY DEF Rekey
<1>2. /\ Rekeyed(d) \in States /\ Put(log, log', d, Rekeyed(d))
      /\ Rekeyed(d).loaded = log[d].loaded
  BY RekeyedLog
<1> QED
  BY <1>1, <1>2, ImageStays, LogBasic

\* What the log says of itself when it has loaded.
LoadedLog(d) == [log[d] EXCEPT !.loaded = TRUE, !.heard = TRUE, !.replayed = FALSE, !.uncertain = FALSE]

LEMMA LoadedLogType ==
  ASSUME Basic, NEW d \in Device, Loaded(d)
  PROVE  /\ LoadedLog(d) \in States /\ Put(log, log', d, LoadedLog(d))
         /\ LoadedLog(d).loaded /\ ~LoadedLog(d).uncertain
<1>1. log[d] \in States /\ log \in [Device -> States]
  BY DEF Basic, Typed
<1>2. LoadedLog(d) \in States /\ LoadedLog(d).loaded = TRUE /\ LoadedLog(d).uncertain = FALSE
  BY <1>1 DEF States, LoadedLog
<1>3. Put(log, log', d, LoadedLog(d))
  BY <1>1 DEF Loaded, Put, LoadedLog
<1> QED
  BY <1>2, <1>3

LEMMA LoadedBasic ==
  ASSUME Basic, NEW d \in Device, Loaded(d)
  PROVE  Basic' /\ Alone(d)
<1>1. /\ image[d] # NoImage
      /\ Put(mem, mem', d, image[d]) /\ Put(image, image', d, NoImage)
      /\ UNCHANGED <<disk, call, relay, early>> /\ task' = Outdated(d)
  BY DEF Loaded, Put
<1>2. Typed /\ Mine(d, disk[d], mem[d], image[d], log[d], task[d], call)
  BY DEF Basic
<1>3. PICK l : l = LoadedLog(d)
  OBVIOUS
<1>4. l \in States /\ Put(log, log', d, l) /\ l.loaded
  BY <1>3, LoadedLogType
<1>5. log' \in [Device -> States] /\ log'[d] = l /\ SameLog(log, log', d)
  BY <1>2, <1>4, PutOne DEF Typed
<1>6. image[d] \in Stores /\ mem \in [Device -> Stores] /\ image \in [Device -> Stores \cup {NoImage}]
  BY <1>1, <1>2 DEF Typed
<1>7. mem' \in [Device -> Stores] /\ mem'[d] = image[d] /\ SameLog(mem, mem', d)
  BY <1>1, <1>6, PutOne
<1>8. /\ image' \in [Device -> Stores \cup {NoImage}] /\ image'[d] = NoImage
      /\ SameLog(image, image', d)
  <2>1. NoImage \in Stores \cup {NoImage}
    OBVIOUS
  <2> QED
    BY <1>1, <1>6, <2>1, PutOne
<1>9. /\ task' \in [Device -> Tasks \cup {NoTask}] /\ SameLog(task, task', d)
      /\ \/ task'[d] = task[d]
         \/ /\ task[d] # NoTask /\ task'[d].kind = task[d].kind
            /\ task'[d].next = task[d].next /\ task'[d].caller = task[d].caller
  BY <1>1, OutdatedKeeps
<1>10. Typed'
  BY <1>1, <1>2, <1>5, <1>7, <1>8, <1>9 DEF Typed
<1>11. Alone(d)
  BY <1>1, <1>5, <1>7, <1>8, <1>9 DEF Alone, SameLog, Alike
<1>12. PICK t : t = task'[d]
  OBVIOUS
<1>13. Mine(d, disk[d], image[d], NoImage, l, t, call)
  BY <1>1, <1>2, <1>4, <1>9, <1>12 DEF Mine, Waits, Called
<1>14. Mine(d, disk'[d], mem'[d], image'[d], log'[d], task'[d], call')
  BY <1>1, <1>5, <1>7, <1>8, <1>12, <1>13
<1> QED
  BY <1>10, <1>11, <1>14, BasicStep

\* A write of d starts or is over.
LEMMA TaskPut ==
  ASSUME Typed, NEW d \in Device, NEW t \in Tasks \cup {NoTask}, Put(task, task', d, t)
  PROVE  task' \in [Device -> Tasks \cup {NoTask}] /\ task'[d] = t /\ SameLog(task, task', d)
BY DEF Typed, Put, SameLog

\* A write starts, for a call or for none.
LEMMA StartBasic ==
  ASSUME Basic, NEW d \in Device, UNCHANGED <<disk, mem, image, log, relay>>,
         early \subseteq early', early' \subseteq early \cup {d},
         NEW kind, NEW next \in Stores, NEW who, Start(d, kind, next, who),
         NEW t, t = [kind |-> kind, next |-> next, caller |-> who, current |-> TRUE],
         t \in Tasks, Owns(d, next.outbox),
         call' \in CallTable, \A x \in Device : x # d => Alike(call, call', x),
         NEW L, L = call', Waits(d, log[d], t, L),
         \A c \in Caller : L[<<d, c>>] # NoCall => log[d].loaded /\ Own(d, L[<<d, c>>].pending.event)
  PROVE  Basic' /\ Alone(d)
<1>1. Typed /\ Mine(d, disk[d], mem[d], image[d], log[d], task[d], call)
  BY DEF Basic
<1>2. Put(task, task', d, t)
  BY DEF Start, Put
<1>3. task' \in [Device -> Tasks \cup {NoTask}] /\ task'[d] = t /\ SameLog(task, task', d)
  <2>1. t \in Tasks \cup {NoTask}
    OBVIOUS
  <2> QED
    BY <1>1, <1>2, <2>1, TaskPut
<1>4. Typed'
  BY <1>1, <1>3 DEF Typed
<1>5. Alone(d)
  BY <1>3 DEF Alone, SameLog
<1>6. t.next = next
  OBVIOUS
<1>7. Mine(d, disk[d], mem[d], image[d], log[d], t, L)
  BY <1>1, <1>6 DEF Mine
<1>8. Mine(d, disk'[d], mem'[d], image'[d], log'[d], task'[d], call')
  BY <1>3, <1>7
<1> QED
  BY <1>4, <1>5, <1>8, BasicStep

\* A write is over, or a log is gone.
LEMMA OverBasic ==
  ASSUME Basic, NEW d \in Device, relay' = relay, early' = early,
         NEW now, now = disk[d] \/ (task[d] # NoTask /\ now = task[d].next), Put(disk, disk', d, now),
         NEW n \in Stores, Put(mem, mem', d, n), Owns(d, n.outbox),
         NEW i \in Stores \cup {NoImage}, Put(image, image', d, i), i # NoImage => Owns(d, i.outbox),
         NEW l \in States, Put(log, log', d, l),
         Put(task, task', d, NoTask),
         call' \in CallTable, \A x \in Device : x # d => Alike(call, call', x),
         NEW L, L = call',
         \A c \in Caller : L[<<d, c>>] # NoCall => l.loaded /\ Own(d, L[<<d, c>>].pending.event)
  PROVE  Basic' /\ Alone(d)
<1>1. Typed /\ Mine(d, disk[d], mem[d], image[d], log[d], task[d], call)
  BY DEF Basic
<1>2. now \in Stores /\ Owns(d, now.outbox)
  <2>1. task[d] # NoTask => task[d] \in Tasks
    BY <1>1 DEF Typed
  <2>2. disk[d] \in Stores
    BY <1>1 DEF Typed
  <2> QED
    BY <1>1, <2>1, <2>2 DEF Mine, Tasks
<1>3. disk' \in [Device -> Stores] /\ disk'[d] = now /\ SameLog(disk, disk', d)
  BY <1>1, <1>2, PutOne DEF Typed
<1>4. mem' \in [Device -> Stores] /\ mem'[d] = n /\ SameLog(mem, mem', d)
  BY <1>1, PutOne DEF Typed
<1>5. image' \in [Device -> Stores \cup {NoImage}] /\ image'[d] = i /\ SameLog(image, image', d)
  BY <1>1, PutOne DEF Typed
<1>6. log' \in [Device -> States] /\ log'[d] = l /\ SameLog(log, log', d)
  BY <1>1, PutOne DEF Typed
<1>7. task' \in [Device -> Tasks \cup {NoTask}] /\ task'[d] = NoTask /\ SameLog(task, task', d)
  <2>1. NoTask \in Tasks \cup {NoTask} /\ task \in [Device -> Tasks \cup {NoTask}]
    BY <1>1 DEF Typed
  <2> QED
    BY <2>1, PutOne
<1>8. Typed'
  BY <1>1, <1>3, <1>4, <1>5, <1>6, <1>7 DEF Typed
<1>9. Alone(d)
  BY <1>3, <1>4, <1>5, <1>6, <1>7 DEF Alone
<1>10. Mine(d, now, n, i, l, NoTask, L)
  BY <1>2 DEF Mine
<1>11. Mine(d, disk'[d], mem'[d], image'[d], log'[d], task'[d], call')
  BY <1>3, <1>4, <1>5, <1>6, <1>7, <1>10
<1> QED
  BY <1>8, <1>9, <1>11, BasicStep

\* What is shown of d is what d signed.
LEMMA ShownTyped ==
  ASSUME Basic, NEW d \in Device
  PROVE  mem[d] \in Stores /\ disk[d] \in Stores /\ Owns(d, mem[d].outbox) /\ log[d] \in States
BY DEF Basic, Typed, Mine

\* A history with finitely many events more is a history.
LEMMA AddedHistory ==
  ASSUME NEW K \in Histories, NEW S, IsFiniteSet(S), S \subseteq Events
  PROVE  K \cup S \in Histories
BY FS_Union DEF Histories

\* Published events are finitely many.
LEMMA PublishedEvents ==
  ASSUME Typed, NEW S, S \subseteq EventsOf(relay)
  PROVE  IsFiniteSet(S) /\ S \subseteq Events
<1>1. IsFiniteSet(S)
  BY FS_Subset DEF Typed
<1>2. S \subseteq Events
  BY DEF Typed, EventsOf, Pendings
<1> QED
  BY <1>1, <1>2

\* What a Receive is about to write.
Received(d, S) == Store(mem[d].events \cup S, mem[d].outbox)

LEMMA ReceivedStore ==
  ASSUME Basic, NEW d \in Device, NEW S, \A e \in S : Pending(e, log[d].epoch) \in relay
  PROVE  /\ S \subseteq EventsOf(relay) /\ Received(d, S) \in Stores
         /\ Received(d, S).outbox = mem[d].outbox
         /\ Received(d, S).events = mem[d].events \cup S
<1>1. ASSUME NEW e \in S PROVE e \in EventsOf(relay)
  <2>1. PICK p \in relay : p = Pending(e, log[d].epoch)
    OBVIOUS
  <2>2. p.event = e
    BY <2>1 DEF Pending
  <2> QED
    BY <2>2 DEF EventsOf
<1>2. mem[d] \in Stores /\ Typed
  BY ShownTyped DEF Basic
<1>3. mem[d].events \cup S \in Histories
  BY <1>1, <1>2, PublishedEvents, AddedHistory DEF Stores
<1> QED
  BY <1>1, <1>2, <1>3 DEF Received, Store, Stores

LEMMA ReceiveBasic ==
  ASSUME Basic, NEW d \in Device, NEW S, Receive(d, S)
  PROVE  Basic' /\ Alone(d)
<1> DEFINE next == Received(d, S)
<1>1. /\ task[d] = NoTask /\ \A e \in S : Pending(e, log[d].epoch) \in relay
      /\ IF log[d].uncertain
         THEN log' = [log EXCEPT ![d].error = TRUE] /\ UNCHANGED <<task, early>>
         ELSE Start(d, "incoming", next, 0) /\ Begins(d) /\ UNCHANGED log
      /\ UNCHANGED <<disk, mem, call, relay>> /\ image' = image
  BY DEF Receive, Received, Idle
<1>2. log[d] \in States /\ log \in [Device -> States] /\ Typed
  BY DEF Basic, Typed
<1>3. CASE log[d].uncertain
  <2> DEFINE l == [log[d] EXCEPT !.error = TRUE]
  <2>1. l \in States /\ l.loaded = log[d].loaded
    BY <1>2 DEF States
  <2>2. Put(log, log', d, l)
    BY <1>1, <1>2, <1>3 DEF Put
  <2> HIDE DEF l
  <2> QED
    BY <1>1, <1>3, <2>1, <2>2, ImageStays, LogBasic
<1>4. CASE ~log[d].uncertain
  <2>1. Start(d, "incoming", next, 0) /\ Begins(d) /\ log' = log
    BY <1>1, <1>4
  <2>2. next \in Stores /\ next.outbox = mem[d].outbox
    BY <1>1, ReceivedStore
  <2>3. Owns(d, next.outbox)
    BY <2>2, ShownTyped
  <2> HIDE DEF next
  <2> DEFINE t == [kind |-> "incoming", next |-> next, caller |-> 0, current |-> TRUE]
  <2>4. t \in Tasks /\ Waits(d, log[d], t, call)
    BY <2>2 DEF Tasks, Waits
  <2>5. early \subseteq early' /\ early' \subseteq early \cup {d}
    BY <2>1 DEF Begins
  <2>6. t = [kind |-> "incoming", next |-> next, caller |-> 0, current |-> TRUE]
    OBVIOUS
  <2> HIDE DEF t
  <2>7. call' = call /\ call \in CallTable /\ \A x \in Device : Alike(call, call', x)
    BY <1>1, <1>2 DEF Typed, Alike
  <2>8. Mine(d, disk[d], mem[d], image[d], log[d], task[d], call)
    BY DEF Basic
  <2>9. PICK L : L = call
    OBVIOUS
  <2>10. /\ L = call' /\ Waits(d, log[d], t, L)
         /\ \A c \in Caller : L[<<d, c>>] # NoCall => log[d].loaded /\ Own(d, L[<<d, c>>].pending.event)
    BY <2>4, <2>7, <2>8, <2>9 DEF Mine
  <2> QED
    BY <1>1, <2>1, <2>2, <2>3, <2>4, <2>5, <2>6, <2>7, <2>10, StartBasic
<1> QED
  BY <1>3, <1>4

\* What a Queue of i is about to write.
Signing(d, i) == Pending(Append(Tip(mem[d].events), i), log[d].epoch)

LEMMA SigningOwn ==
  ASSUME Basic, NEW d \in Device, NEW i \in Item, i.by = d
  PROVE  /\ Signing(d, i) \in Pendings /\ Own(d, Signing(d, i).event)
         /\ Signing(d, i).event = Append(Tip(mem[d].events), i)
         /\ Store(mem[d].events, {Signing(d, i)}) \in Stores
<1> DEFINE e == Append(Tip(mem[d].events), i)
<1>1. mem[d] \in Stores /\ log[d] \in States
  BY ShownTyped
<1>2. mem[d].events \in Histories /\ log[d].epoch \in Nat
  BY <1>1 DEF Stores, States
<1>3. Tip(mem[d].events) \in Events
  BY <1>2, TipType
<1>4. e \in Events /\ Last(e) = i
  BY <1>3, Ending
<1> HIDE DEF e
<1>5. Signing(d, i) = [event |-> e, epoch |-> log[d].epoch]
  BY DEF Signing, Pending, e
<1>6. Signing(d, i) \in Pendings /\ Signing(d, i).event = e
  BY <1>2, <1>4, <1>5 DEF Pendings
<1>7. Own(d, Signing(d, i).event)
  BY <1>4, <1>6 DEF Own
<1>8. Store(mem[d].events, {Signing(d, i)}) \in Stores
  BY <1>2, <1>6 DEF Store, Stores
<1> QED
  BY <1>6, <1>7, <1>8 DEF e

LEMMA QueueBasic ==
  ASSUME Basic, NEW d \in Device, NEW c \in Caller, NEW i \in Tried, Queue(d, c, i)
  PROVE  Basic' /\ Alone(d)
<1> DEFINE p == Signing(d, i)
           next == Store(mem[d].events, {p})
           k == [pending |-> p, stage |-> "queued"]
           t == [kind |-> "queue", next |-> next, caller |-> c, current |-> TRUE]
<1>1. /\ log[d].loaded /\ i.by = d
      /\ Start(d, "queue", next, c)
      /\ call' = [call EXCEPT ![<<d, c>>] = k]
      /\ UNCHANGED <<disk, mem, image, log, relay>> /\ early' = early
  BY DEF Queue, Idle, Ready, Signing
<1>2. i \in Item /\ call \in CallTable
  BY TriedAssumption DEF Basic, Typed
<1>3. p \in Pendings /\ Own(d, p.event) /\ next \in Stores
  BY <1>1, <1>2, SigningOwn
<1>4. next.outbox = {p}
  BY DEF Store
<1> HIDE DEF p, next
<1>5. k \in Calls /\ k.pending = p /\ k.stage = "queued"
  BY <1>3 DEF Calls
<1> HIDE DEF k
<1>6. t \in Tasks /\ t.kind = "queue" /\ t.caller = c
  BY <1>3 DEF Tasks
<1>7. t = [kind |-> "queue", next |-> next, caller |-> c, current |-> TRUE]
  OBVIOUS
<1> HIDE DEF t
<1>8. PICK L : L = call'
  OBVIOUS
<1>9. /\ L \in CallTable /\ Turned(call, L, d, c, k)
      /\ \A x \in Device : x # d => Alike(call, L, x)
  <2>1. k \in Calls \cup {NoCall} /\ L = [call EXCEPT ![<<d, c>>] = k]
    BY <1>1, <1>5, <1>8
  <2> QED
    BY <1>2, <2>1, CallTurns
<1>10. Waits(d, log[d], t, L)
  BY <1>1, <1>3, <1>5, <1>6, <1>9 DEF Waits, Called, Turned
<1>11. Mine(d, disk[d], mem[d], image[d], log[d], task[d], call)
  BY DEF Basic
<1>12. \A b \in Caller : L[<<d, b>>] # NoCall => log[d].loaded /\ Own(d, L[<<d, b>>].pending.event)
  BY <1>1, <1>3, <1>5, <1>9, <1>11 DEF Mine, Turned
<1>13. Owns(d, next.outbox) /\ early \subseteq early' /\ early' \subseteq early \cup {d}
  BY <1>1, <1>3, <1>4 DEF Owns
<1>14. call' \in CallTable /\ \A x \in Device : x # d => Alike(call, call', x)
  BY <1>8, <1>9
<1>15. UNCHANGED <<disk, mem, image, log, relay>> /\ Start(d, "queue", next, c)
  BY <1>1
<1>16. next \in Stores /\ t \in Tasks
  BY <1>3, <1>6
<1> QED
  BY <1>7, <1>8, <1>10, <1>12, <1>13, <1>14, <1>15, <1>16, StartBasic

\* What a SettleSent is about to write.
Settled(d, p) == Store(mem[d].events \cup {p.event}, mem[d].outbox \ {p})

LEMMA SettledStore ==
  ASSUME Basic, NEW d \in Device, NEW p \in Pendings
  PROVE  /\ Settled(d, p) \in Stores /\ Settled(d, p).outbox = mem[d].outbox \ {p}
         /\ Settled(d, p).events = mem[d].events \cup {p.event}
<1>1. mem[d] \in Stores
  BY ShownTyped
<1>2. IsFiniteSet({p.event}) /\ {p.event} \subseteq Events
  BY FS_Singleton DEF Pendings
<1>3. mem[d].events \cup {p.event} \in Histories
  BY <1>1, <1>2, AddedHistory DEF Stores
<1> QED
  BY <1>1, <1>3 DEF Settled, Store, Stores

LEMMA SettleBasic ==
  ASSUME Basic, NEW d \in Device, NEW c \in Caller, SettleSent(d, c)
  PROVE  Basic' /\ Alone(d)
<1> DEFINE p == call[<<d, c>>].pending
           next == Settled(d, p)
           t == [kind |-> "settle", next |-> next, caller |-> c, current |-> TRUE]
<1>1. /\ task[d] = NoTask
      /\ call[<<d, c>>] # NoCall /\ call[<<d, c>>].stage = "sent"
      /\ IF log[d].uncertain
         THEN call' = Done(d, c, "failed") /\ task' = task
         ELSE Start(d, "settle", next, c) /\ call' = Done(d, c, "settling")
      /\ UNCHANGED <<disk, mem, image, log>> /\ early' = early /\ relay' = relay
  BY DEF SettleSent, Settled, Idle
<1>2. /\ log[d].loaded /\ Own(d, p.event) /\ call \in CallTable /\ call[<<d, c>>] \in Calls
      /\ p \in Pendings
  BY <1>1, CallOwned DEF Calls
<1>3. CASE log[d].uncertain
  BY <1>1, <1>3, RelayTyped, StageBasic DEF StageNames
<1>4. CASE ~log[d].uncertain
  <2>1. Start(d, "settle", next, c) /\ call' = Done(d, c, "settling")
    BY <1>1, <1>4
  <2>2. next \in Stores /\ next.outbox = mem[d].outbox \ {p}
    BY <1>2, SettledStore
  <2>3. Owns(d, next.outbox)
    BY <2>2, ShownTyped DEF Owns
  <2> HIDE DEF next
  <2>4. t \in Tasks /\ t.kind = "settle" /\ t.caller = c
    BY <2>2 DEF Tasks
  <2>5. t = [kind |-> "settle", next |-> next, caller |-> c, current |-> TRUE]
    OBVIOUS
  <2> HIDE DEF t
  <2>6. PICK k \in Calls :
          /\ k.pending = p /\ k.stage = "settling"
          /\ call' \in CallTable /\ Turned(call, call', d, c, k)
          /\ \A x \in Device : x # d => Alike(call, call', x)
    <3>1. "settling" \in StageNames
      BY DEF StageNames
    <3> QED
      BY <1>2, <2>1, <3>1, CallStageTurns DEF Basic
  <2>7. PICK L : L = call'
    OBVIOUS
  <2>8. Waits(d, log[d], t, L)
    BY <1>2, <2>4, <2>6, <2>7 DEF Waits, Called, Turned
  <2>9. Mine(d, disk[d], mem[d], image[d], log[d], task[d], call)
    BY DEF Basic
  <2>10. \A b \in Caller : L[<<d, b>>] # NoCall => log[d].loaded /\ Own(d, L[<<d, b>>].pending.event)
    BY <1>2, <2>6, <2>7, <2>9 DEF Mine, Turned
  <2>11. UNCHANGED <<disk, mem, image, log, relay>> /\ Start(d, "settle", next, c)
    BY <1>1, <2>1
  <2>12. next \in Stores /\ t \in Tasks /\ early \subseteq early' /\ early' \subseteq early \cup {d}
    BY <1>1, <2>2, <2>4
  <2>13. call' \in CallTable /\ \A x \in Device : x # d => Alike(call, call', x)
    BY <2>6
  <2> QED
    BY <2>3, <2>5, <2>7, <2>8, <2>10, <2>11, <2>12, <2>13, StartBasic
<1> QED
  BY <1>3, <1>4

\* What the end of a write makes of its call.
AnswerTo(d, written, ok) ==
  CASE task[d].kind = "queue" -> Done(d, task[d].caller, written)
    [] task[d].kind = "settle" -> Done(d, task[d].caller, ok)
    [] OTHER -> call

\* It makes one call a call of another stage, or none.
LEMMA AnsweredBasic ==
  ASSUME Basic, NEW d \in Device, task[d] # NoTask,
         NEW written \in StageNames, NEW ok \in StageNames, call' = AnswerTo(d, written, ok)
  PROVE  /\ call' \in CallTable /\ \A x \in Device : x # d => Alike(call, call', x)
         /\ \A b \in Caller : call'[<<d, b>>] # NoCall =>
              log[d].loaded /\ Own(d, call'[<<d, b>>].pending.event)
<1>1. /\ Typed /\ call \in CallTable /\ task[d] \in Tasks
      /\ Mine(d, disk[d], mem[d], image[d], log[d], task[d], call)
  BY DEF Basic, Typed
<1>2. CASE call' = call
  BY <1>1, <1>2 DEF Mine, Alike
<1>3. CASE call' # call
  <2>1. PICK stage \in StageNames :
          call' = Done(d, task[d].caller, stage) /\ task[d].kind \in {"queue", "settle"}
    BY <1>3 DEF AnswerTo
  <2>2. /\ task[d].caller \in Caller /\ call[<<d, task[d].caller>>] \in Calls /\ log[d].loaded
        /\ Own(d, call[<<d, task[d].caller>>].pending.event)
    BY <1>1, <2>1 DEF Mine, Waits, Called
  <2>3. PICK c \in Caller : c = task[d].caller
    BY <2>2
  <2>4. PICK k \in Calls :
          /\ k.pending = call[<<d, c>>].pending /\ k.stage = stage
          /\ call' \in CallTable /\ Turned(call, call', d, c, k)
          /\ \A x \in Device : x # d => Alike(call, call', x)
    BY <1>1, <2>1, <2>2, <2>3, CallStageTurns
  <2> QED
    BY <1>1, <2>2, <2>3, <2>4 DEF Mine, Turned
<1> QED
  BY <1>2, <1>3

\* The empty store is a store.
LEMMA EmptyStoreType == EmptyStore \in Stores
BY FS_EmptySet DEF EmptyStore, Store, Stores, Histories, Events

\* What is shown once a write is made.
LEMMA WrittenBasic ==
  ASSUME Basic, NEW d \in Device, Written(d)
  PROVE  Basic' /\ Alone(d)
<1> DEFINE t == task[d]
           stays == t.kind = "incoming" /\ ~t.current
           n == IF stays THEN mem[d] ELSE t.next
<1>1. /\ task[d] # NoTask
      /\ disk' = [disk EXCEPT ![d] = t.next]
      /\ mem' = IF stays THEN mem ELSE [mem EXCEPT ![d] = t.next]
      /\ call' = AnswerTo(d, "saved", "ok")
      /\ task' = [task EXCEPT ![d] = NoTask]
      /\ log' = log /\ relay' = relay /\ image' = image /\ early' = early
  BY DEF Written, Advanced, AnswerTo
<1>2. Typed /\ Mine(d, disk[d], mem[d], image[d], log[d], task[d], call)
  BY DEF Basic
<1>3. t \in Tasks /\ Owns(d, t.next.outbox)
  BY <1>1, <1>2 DEF Typed, Mine
<1>4. t.next \in Stores /\ mem[d] \in Stores /\ mem \in [Device -> Stores] /\ log[d] \in States
  BY <1>2, <1>3 DEF Tasks, Typed
<1>5. Put(mem, mem', d, n)
  BY <1>1, <1>4 DEF Put
<1>6. n \in Stores /\ Owns(d, n.outbox)
  BY <1>2, <1>3, <1>4 DEF Mine
<1> HIDE DEF n
<1>7. "saved" \in StageNames /\ "ok" \in StageNames
  BY DEF StageNames
<1>8. /\ call' \in CallTable /\ \A x \in Device : x # d => Alike(call, call', x)
      /\ \A b \in Caller : call'[<<d, b>>] # NoCall =>
           log[d].loaded /\ Own(d, call'[<<d, b>>].pending.event)
  BY <1>1, <1>7, AnsweredBasic
<1>9. Put(disk, disk', d, t.next) /\ Put(task, task', d, NoTask) /\ Put(log, log', d, log[d])
  BY <1>1, <1>2 DEF Put, Typed
<1>10. /\ image[d] \in Stores \cup {NoImage} /\ Put(image, image', d, image[d])
       /\ image[d] # NoImage => Owns(d, image[d].outbox)
  BY <1>1, ImageStays
<1> QED
  BY <1>1, <1>4, <1>5, <1>6, <1>8, <1>9, <1>10, OverBasic

\* What a log is after a failed write, read back or not.
AfterFault(d, u, e) == [log[d] EXCEPT !.uncertain = u, !.error = e]

LEMMA FaultLog ==
  ASSUME Basic, NEW d \in Device, NEW u \in BOOLEAN, NEW e \in BOOLEAN,
         log' = [log EXCEPT ![d].uncertain = u, ![d].error = e]
  PROVE  /\ AfterFault(d, u, e) \in States /\ Put(log, log', d, AfterFault(d, u, e))
         /\ AfterFault(d, u, e).loaded = log[d].loaded /\ AfterFault(d, u, e).uncertain = u
<1>1. log[d] \in States /\ log \in [Device -> States]
  BY DEF Basic, Typed
<1>2. /\ AfterFault(d, u, e) \in States
      /\ AfterFault(d, u, e).loaded = log[d].loaded /\ AfterFault(d, u, e).uncertain = u
  BY <1>1 DEF States, AfterFault
<1>3. Put(log, log', d, AfterFault(d, u, e))
  BY <1>1 DEF Put, AfterFault
<1> QED
  BY <1>2, <1>3

\* The outcomes of a failed write.
LEMMA FaultOutcome ==
  ASSUME Basic, NEW d \in Device, WriteFails(d)
  PROVE  \E now \in {disk[d], task[d].next}, n \in Stores, u \in BOOLEAN, e \in BOOLEAN :
           /\ task[d] # NoTask /\ now \in Stores /\ Owns(d, n.outbox)
           /\ Put(disk, disk', d, now) /\ Put(mem, mem', d, n) /\ Put(task, task', d, NoTask)
           /\ AfterFault(d, u, e) \in States /\ Put(log, log', d, AfterFault(d, u, e))
           /\ AfterFault(d, u, e).loaded = log[d].loaded /\ AfterFault(d, u, e).uncertain = u
           /\ (n = now /\ ~u) \/ (n = mem[d] /\ u)
           /\ call' = AnswerTo(d, "failed", "failed")
           /\ relay' = relay /\ image' = image /\ early' = early
<1> DEFINE t == task[d]
<1>1. PICK now \in {disk[d], task[d].next}, readable \in BOOLEAN :
        /\ disk' = [disk EXCEPT ![d] = now]
        /\ mem' = IF readable /\ t.current THEN [mem EXCEPT ![d] = now] ELSE mem
        /\ log' = [log EXCEPT ![d].uncertain = ~(readable /\ t.current),
                              ![d].error = \/ @ \/ ~readable
                                           \/ t.kind = "incoming" /\ t.current]
  BY DEF WriteFails
<1>2. /\ task[d] # NoTask
      /\ call' = IF t.kind = "incoming" THEN call ELSE Done(d, t.caller, "failed")
      /\ task' = [task EXCEPT ![d] = NoTask]
      /\ relay' = relay /\ image' = image /\ early' = early
  BY DEF WriteFails
<1>3. Typed /\ Mine(d, disk[d], mem[d], image[d], log[d], task[d], call)
  BY DEF Basic
<1>4. t \in Tasks /\ Owns(d, t.next.outbox)
  BY <1>2, <1>3 DEF Typed, Mine
<1>5. /\ now \in Stores /\ Owns(d, now.outbox) /\ mem[d] \in Stores /\ mem \in [Device -> Stores]
      /\ log[d] \in States
  BY <1>3, <1>4 DEF Typed, Tasks, Mine
<1>6. call' = AnswerTo(d, "failed", "failed")
  <2>1. t.kind \in {"incoming", "queue", "settle"}
    BY <1>4 DEF Tasks
  <2> QED
    BY <1>2, <2>1 DEF AnswerTo
<1> DEFINE reloaded == readable /\ t.current
           e == log[d].error \/ ~readable \/ (t.kind = "incoming" /\ t.current)
           n == IF reloaded THEN now ELSE mem[d]
<1>7. reloaded \in BOOLEAN /\ e \in BOOLEAN
  BY <1>4, <1>5 DEF States, Tasks
<1>8. PICK u \in BOOLEAN : u = ~reloaded
  BY <1>7
<1>9. Put(mem, mem', d, n)
  BY <1>1, <1>5 DEF Put
<1>10. n \in Stores /\ Owns(d, n.outbox)
  BY <1>3, <1>5 DEF Mine
<1>11. (n = now /\ ~u) \/ (n = mem[d] /\ u)
  BY <1>8
<1>12. log' = [log EXCEPT ![d].uncertain = u, ![d].error = e]
  <2>1. log' = [log EXCEPT ![d].uncertain = ~reloaded, ![d].error = e]
    BY <1>1
  <2> HIDE DEF reloaded, e
  <2> QED
    BY <1>8, <2>1
<1> HIDE DEF n, e, reloaded
<1>13. /\ AfterFault(d, u, e) \in States /\ Put(log, log', d, AfterFault(d, u, e))
       /\ AfterFault(d, u, e).loaded = log[d].loaded /\ AfterFault(d, u, e).uncertain = u
  BY <1>7, <1>12, FaultLog
<1>14. Put(disk, disk', d, now) /\ Put(task, task', d, NoTask)
  BY <1>1, <1>2 DEF Put
<1> QED
  BY <1>2, <1>5, <1>6, <1>7, <1>9, <1>10, <1>11, <1>13, <1>14

LEMMA WriteFailsBasic ==
  ASSUME Basic, NEW d \in Device, WriteFails(d)
  PROVE  Basic' /\ Alone(d)
<1>1. PICK now \in {disk[d], task[d].next}, n \in Stores, u \in BOOLEAN, e \in BOOLEAN :
        /\ task[d] # NoTask /\ now \in Stores /\ Owns(d, n.outbox)
        /\ Put(disk, disk', d, now) /\ Put(mem, mem', d, n) /\ Put(task, task', d, NoTask)
        /\ AfterFault(d, u, e) \in States /\ Put(log, log', d, AfterFault(d, u, e))
        /\ AfterFault(d, u, e).loaded = log[d].loaded
        /\ call' = AnswerTo(d, "failed", "failed")
        /\ relay' = relay /\ image' = image /\ early' = early
  BY FaultOutcome
<1>2. "failed" \in StageNames
  BY DEF StageNames
<1>3. /\ call' \in CallTable /\ \A x \in Device : x # d => Alike(call, call', x)
      /\ \A b \in Caller : call'[<<d, b>>] # NoCall =>
           AfterFault(d, u, e).loaded /\ Own(d, call'[<<d, b>>].pending.event)
  BY <1>1, <1>2, AnsweredBasic
<1>4. /\ image[d] \in Stores \cup {NoImage} /\ Put(image, image', d, image[d])
      /\ image[d] # NoImage => Owns(d, image[d].outbox)
  BY <1>1, ImageStays
<1> QED
  BY <1>1, <1>3, <1>4, OverBasic

\* What a log that is gone says of itself.
GoneLog(d) == [log[d] EXCEPT !.open = FALSE, !.loaded = FALSE, !.heard = FALSE,
                             !.replayed = FALSE, !.error = FALSE, !.uncertain = FALSE]

LEMMA GoneOutcome ==
  ASSUME Basic, NEW d \in Device, Gone(d)
  PROVE  /\ \E now : /\ now = disk[d] \/ (task[d] # NoTask /\ now = task[d].next)
                     /\ Put(disk, disk', d, now)
         /\ Put(mem, mem', d, EmptyStore) /\ Put(image, image', d, NoImage)
         /\ Put(task, task', d, NoTask) /\ Put(log, log', d, GoneLog(d))
         /\ GoneLog(d) \in States /\ ~GoneLog(d).loaded /\ ~GoneLog(d).uncertain
<1>1. log[d] \in States /\ log \in [Device -> States]
  BY DEF Basic, Typed
<1>2. GoneLog(d) \in States /\ GoneLog(d).loaded = FALSE /\ GoneLog(d).uncertain = FALSE
  BY <1>1 DEF States, GoneLog
<1>3. Put(log, log', d, GoneLog(d))
  BY <1>1 DEF Gone, Put, GoneLog
<1>4. PICK now \in {disk[d]} \cup (IF task[d] = NoTask THEN {} ELSE {task[d].next}) :
        disk' = [disk EXCEPT ![d] = now]
  BY DEF Gone
<1>5. now = disk[d] \/ (task[d] # NoTask /\ now = task[d].next)
  BY <1>4
<1>6. Put(disk, disk', d, now)
  BY <1>4 DEF Put
<1>7. Put(mem, mem', d, EmptyStore) /\ Put(image, image', d, NoImage) /\ Put(task, task', d, NoTask)
  BY DEF Gone, Put
<1> QED
  BY <1>2, <1>3, <1>5, <1>6, <1>7

\* The calls of a process that has ended are none.
LEMMA CrashCalls ==
  ASSUME Basic, NEW d \in Device, Crash(d)
  PROVE  /\ call' \in CallTable /\ \A x \in Device : x # d => Alike(call, call', x)
         /\ \A b \in Caller : call'[<<d, b>>] = NoCall
<1>1. call \in CallTable /\ call' = [x \in DOMAIN call |-> IF x[1] = d THEN NoCall ELSE call[x]]
  BY DEF Basic, Typed, Crash
<1>2. /\ call' \in CallTable
      /\ \A x \in Device, b \in Caller :
           call'[<<x, b>>] = IF x = d THEN NoCall ELSE call[<<x, b>>]
  BY <1>1 DEF CallTable
<1> QED
  BY <1>2 DEF Alike

\* The log is gone, and its calls are none.
LEMMA GoneBasic ==
  ASSUME Basic, NEW d \in Device, Gone(d), relay' = relay, early' = early,
         call' \in CallTable, \A x \in Device : x # d => Alike(call, call', x),
         NEW L, L = call', \A b \in Caller : L[<<d, b>>] = NoCall
  PROVE  Basic' /\ Alone(d)
<1>1. /\ Put(mem, mem', d, EmptyStore) /\ Put(image, image', d, NoImage)
      /\ Put(task, task', d, NoTask) /\ Put(log, log', d, GoneLog(d)) /\ GoneLog(d) \in States
  BY GoneOutcome
<1>2. PICK now : /\ now = disk[d] \/ (task[d] # NoTask /\ now = task[d].next)
                 /\ Put(disk, disk', d, now)
  BY GoneOutcome
<1>3. EmptyStore \in Stores /\ Owns(d, EmptyStore.outbox)
  BY EmptyStoreType DEF EmptyStore, Store, Owns
<1>4. NoImage \in Stores \cup {NoImage}
  OBVIOUS
<1>5. \A b \in Caller : L[<<d, b>>] # NoCall => GoneLog(d).loaded /\ Own(d, L[<<d, b>>].pending.event)
  OBVIOUS
<1> QED
  BY <1>1, <1>2, <1>3, <1>4, <1>5, OverBasic

LEMMA CrashBasic ==
  ASSUME Basic, NEW d \in Device, Crash(d)
  PROVE  Basic' /\ Alone(d)
<1>1. Gone(d) /\ relay' = relay /\ early' = early
  BY DEF Crash
<1>2. /\ call' \in CallTable /\ \A x \in Device : x # d => Alike(call, call', x)
      /\ \A b \in Caller : call'[<<d, b>>] = NoCall
  BY CrashCalls
<1>3. PICK L : L = call'
  OBVIOUS
<1>4. \A b \in Caller : L[<<d, b>>] = NoCall
  BY <1>2, <1>3
<1> QED
  BY <1>1, <1>2, <1>3, <1>4, GoneBasic

LEMMA LoadFailsBasic ==
  ASSUME Basic, NEW d \in Device, LoadFails(d)
  PROVE  Basic' /\ Alone(d)
<1>1. Gone(d) /\ ~log[d].loaded /\ call' = call /\ relay' = relay /\ early' = early
  BY DEF LoadFails
<1>2. call \in CallTable /\ Mine(d, disk[d], mem[d], image[d], log[d], task[d], call)
  BY DEF Basic, Typed
<1>3. /\ call' \in CallTable /\ \A x \in Device : x # d => Alike(call, call', x)
      /\ \A b \in Caller : call[<<d, b>>] = NoCall
  BY <1>1, <1>2 DEF Mine, Alike
<1> QED
  BY <1>1, <1>3, GoneBasic

LEMMA InitBasic == LogInit => Basic
<1> SUFFICES ASSUME LogInit PROVE Basic
  OBVIOUS
<1>1. EventsOf(relay) = {}
  BY DEF LogInit, EventsOf
<1>2. Typed
  BY <1>1, EmptyStoreType, FS_EmptySet DEF LogInit, Typed, States, CallTable
<1>3. ASSUME NEW d \in Device
      PROVE  Mine(d, disk[d], mem[d], image[d], log[d], task[d], call)
  <2>1. /\ disk[d] = EmptyStore /\ mem[d] = EmptyStore /\ task[d] = NoTask /\ image[d] = NoImage
        /\ \A c \in Caller : call[<<d, c>>] = NoCall
    BY DEF LogInit
  <2>2. EmptyStore.outbox = {}
    BY DEF EmptyStore, Store
  <2> QED
    BY <2>1, <2>2 DEF Mine, Owns
<1> QED
  BY <1>2, <1>3 DEF Basic

\* Every step is one of these, of some device.
Quiet(d) ==
  \/ Open(d) \/ Read(d) \/ Loaded(d) \/ EndOfHistory(d) \/ Rekey(d)
  \/ \E S \in SUBSET {p.event : p \in relay} : Receive(d, S)
  \/ \E c \in Caller :
       \/ Send(d, c) \/ SettleSent(d, c) \/ SendFails(d, c) \/ Return(d, c)
       \/ \E i \in Tried : Queue(d, c, i)
       \/ \E p \in mem[d].outbox : Resubmit(d, c, p)

Acts(d) == \/ Quiet(d)
           \/ Written(d) \/ WriteFails(d) \/ Crash(d) \/ LoadFails(d)
           \/ \E c \in Caller : Arrive(d, c)

LEMMA StepKinds ==
  ASSUME LogNext
  PROVE  \E d \in Device : Acts(d)
<1>1. PICK d \in Device :
        \/ LogStep(d) \/ LogFault(d)
        \/ \E c \in Caller :
             \/ Return(d, c)
             \/ \E i \in Tried : Queue(d, c, i)
             \/ \E p \in mem[d].outbox : Resubmit(d, c, p)
  BY DEF LogNext
<1>2. CASE LogStep(d)
  BY <1>2 DEF LogStep, Quiet, Acts
<1>3. CASE LogFault(d)
  BY <1>3 DEF LogFault, Quiet, Acts
<1>4. CASE \E c \in Caller :
             \/ Return(d, c)
             \/ \E i \in Tried : Queue(d, c, i)
             \/ \E p \in mem[d].outbox : Resubmit(d, c, p)
  BY <1>4 DEF Quiet, Acts
<1> QED
  BY <1>1, <1>2, <1>3, <1>4

LEMMA ActBasic ==
  ASSUME Basic, NEW d \in Device, Acts(d)
  PROVE  Basic' /\ Alone(d)
<1>1. CASE Open(d) \/ Read(d) \/ Loaded(d) \/ EndOfHistory(d) \/ Rekey(d)
  BY <1>1, OpenBasic, ReadBasic, LoadedBasic, EndOfHistoryBasic, RekeyBasic
<1>2. CASE \E S \in SUBSET {p.event : p \in relay} : Receive(d, S)
  BY <1>2, ReceiveBasic
<1>3. ASSUME NEW c \in Caller,
             \/ Send(d, c) \/ SettleSent(d, c) \/ SendFails(d, c) \/ Return(d, c)
             \/ \E i \in Tried : Queue(d, c, i)
             \/ \E p \in mem[d].outbox : Resubmit(d, c, p)
             \/ Arrive(d, c)
      PROVE  Basic' /\ Alone(d)
  BY <1>3, SendBasic, SettleBasic, SendFailsBasic, ReturnBasic, QueueBasic, ResubmitBasic, ArriveBasic
<1>4. CASE Written(d) \/ WriteFails(d) \/ Crash(d) \/ LoadFails(d)
  BY <1>4, WrittenBasic, WriteFailsBasic, CrashBasic, LoadFailsBasic
<1> QED
  BY <1>1, <1>2, <1>3, <1>4 DEF Acts, Quiet

-----------------------------------------------------------------------------
(* The invariant                                                           *)

\* e was signed on some history, as what that history permits.
Signed(e) ==
  e # <<>> /\ \E K \in Histories : Front(e) = Tip(K) /\ Permitted(Projection(K).stage, Last(e))

\* d signed what waits in P.
Ours(d, P) == \A p \in P : Signed(p.event) /\ Own(d, p.event)

\* Events and pendings of d that have everything d published among N.
HasOwn(d, s, N) ==
  \A e \in N : Own(d, e) => e \in s.events \/ \E p \in s.outbox : p.event = e

\* What waits in the outbox is all that d ever signed on that version.
Sole(d, P, N) ==
  \A p \in P : \A e \in N : Own(d, e) /\ Front(e) = Front(p.event) => e = p.event

\* s is the history and the outbox of d.
Holds(d, s, N) ==
  /\ s.events \subseteq N
  /\ \A p, q \in s.outbox : p = q
  /\ Ours(d, s.outbox)
  /\ HasOwn(d, s, N)
  /\ Sole(d, s.outbox, N)

\* The log has loaded and knows what is durable.
Certain(l) == l.loaded /\ ~l.uncertain

\* The store D has what the store m shows.
Shown(D, m) == /\ m.events \subseteq D.events
               /\ \A p \in m.outbox : p \in D.outbox \/ p.event \in D.events

\* What d works from, m, against what it has in storage, D.
Restored(d, D, m, l, t, N) ==
  /\ ~l.loaded => m = EmptyStore /\ t = NoTask /\ ~l.uncertain
  /\ Certain(l) => m.outbox = D.outbox /\ Holds(d, m, N)
  /\ Ours(d, m.outbox)
  /\ Shown(D, m)

\* The call c of d is about p, and at this stage.
CallOf(K, d, c, p, stage) ==
  c \in Caller /\ K[<<d, c>>] \in Calls /\ K[<<d, c>>].pending = p /\ K[<<d, c>>].stage = stage

\* The three writes there are.
Queues(d, m, t, K) ==
  /\ t.kind = "queue" /\ m.outbox = {} /\ t.next.events = m.events
  /\ \E i \in Tried, n \in Nat :
       LET p == Pending(Append(Tip(m.events), i), n)
       IN /\ i.by = d /\ MayFollow(m.events, i) /\ Len(p.event) <= MaxOps
          /\ t.next.outbox = {p} /\ CallOf(K, d, t.caller, p, "queued")

Settles(d, m, t, K, R) ==
  /\ t.kind = "settle"
  /\ \E p \in R : /\ Own(d, p.event)
                  /\ t.next.events = m.events \cup {p.event}
                  /\ t.next.outbox = m.outbox \ {p}
                  /\ CallOf(K, d, t.caller, p, "settling")

Brings(m, t) == /\ t.kind = "incoming" /\ t.next.outbox = m.outbox
                /\ m.events \subseteq t.next.events

\* A write in progress leads to a store that holds what it must.
Writes(d, m, l, t, K, R) ==
  t # NoTask =>
    /\ Certain(l) /\ Holds(d, t.next, EventsOf(R))
    /\ Brings(m, t) \/ Queues(d, m, t, K) \/ Settles(d, m, t, K, R)

\* What a call stands for.
Stands(d, D, k, R) ==
  /\ Own(d, k.pending.event) /\ Signed(k.pending.event)
  /\ k.stage \in {"saved", "sending"} =>
       k.pending \in D.outbox \/ k.pending.event \in EventsOf(R)
  /\ k.stage \in {"sent", "settling"} => k.pending \in R

\* Every call of d stands for something.
Submits(d, D, K, R) ==
  \A c \in Caller : K[<<d, c>>] # NoCall => Stands(d, D, K[<<d, c>>], R)

\* Nothing is submitted to a log that has not loaded.
Unasked(d, l, K) == ~l.loaded => \A c \in Caller : K[<<d, c>>] = NoCall

\* What is said of each device.
Sound(d, D, m, l, t, K, R) ==
  /\ Holds(d, D, EventsOf(R))
  /\ Restored(d, D, m, l, t, EventsOf(R))
  /\ Writes(d, m, l, t, K, R)
  /\ Submits(d, D, K, R)
  /\ Unasked(d, l, K)

\* And what open() has read is what is still in storage.
Fine(d, D, m, i, l, t, K, R) ==
  /\ Sound(d, D, m, l, t, K, R)
  /\ i # NoImage => i = D /\ ~l.loaded

\* What is published by a device outside X was permitted, and is the only one of its
\* version and author.
Single(N, X) ==
  /\ \A e \in N : Last(e).by \notin X => Signed(e)
  /\ \A e, f \in N : Last(e).by \notin X /\ Last(e).by = Last(f).by /\ Front(e) = Front(f) => e = f

\* Every operation that was published was signed as what may follow its history, and
\* what is said of each device holds, but for the early devices.
IInv ==
  /\ Basic /\ Single(EventsOf(relay), early)
  /\ \A d \in Device \ early : Fine(d, disk[d], mem[d], image[d], log[d], task[d], call, relay)

-----------------------------------------------------------------------------
(* What a write leads to                                                   *)

\* D has what E had waiting, or it is published.
Keeps(D, E, R) == \A p \in E.outbox : p \in D.outbox \/ p \in R

\* What is being written holds all that storage and memory hold.
LEMMA NextKeeps ==
  ASSUME NEW d, NEW D, NEW m, NEW l, NEW t, NEW K, NEW R,
         Sound(d, D, m, l, t, K, R), t # NoTask
  PROVE  /\ Certain(l) /\ Holds(d, t.next, EventsOf(R)) /\ Holds(d, m, EventsOf(R))
         /\ m.outbox = D.outbox
         /\ Keeps(t.next, D, R) /\ Shown(t.next, m)
<1>1. /\ Certain(l) /\ Holds(d, t.next, EventsOf(R))
      /\ Brings(m, t) \/ Queues(d, m, t, K) \/ Settles(d, m, t, K, R)
  BY DEF Sound, Writes
<1>2. m.outbox = D.outbox /\ Holds(d, m, EventsOf(R))
  BY <1>1 DEF Sound, Restored
<1>3. CASE Brings(m, t)
  BY <1>1, <1>2, <1>3 DEF Brings, Keeps, Shown
<1>4. CASE Queues(d, m, t, K)
  BY <1>1, <1>2, <1>4 DEF Queues, Keeps, Shown
<1>5. CASE Settles(d, m, t, K, R)
  BY <1>1, <1>2, <1>5 DEF Settles, Keeps, Shown
<1> QED
  BY <1>1, <1>2, <1>3, <1>4, <1>5

\* A call stands for the same as long as its operation is kept.
LEMMA StandsStill ==
  ASSUME NEW d, NEW D, NEW E, NEW k, NEW R, Stands(d, E, k, R), Keeps(D, E, R)
  PROVE  Stands(d, D, k, R)
BY DEF Stands, Keeps, EventsOf

\* So do all calls of a device.
LEMMA SubmitsStill ==
  ASSUME NEW d, NEW D, NEW E, NEW K, NEW L, NEW R,
         Submits(d, E, K, R), Keeps(D, E, R), Alike(K, L, d)
  PROVE  Submits(d, D, L, R)
BY StandsStill DEF Submits, Alike

\* So do the others when one of them changes.
LEMMA SubmitsOne ==
  ASSUME NEW d, NEW D, NEW E, NEW K, NEW L, NEW R, NEW c, NEW k,
         Submits(d, E, K, R), Keeps(D, E, R), Turned(K, L, d, c, k), 
         k # NoCall => Stands(d, D, k, R)
  PROVE  Submits(d, D, L, R)
BY StandsStill DEF Submits, Turned

\* A store keeps what it has.
LEMMA KeepsItself ==
  ASSUME NEW D, NEW R
  PROVE  Keeps(D, D, R) /\ Shown(D, D)
BY DEF Keeps, Shown

\* A write is over: d has what it wrote, shows it or what it showed before, or
\* is no longer certain, or has crashed.
LEMMA Over ==
  ASSUME NEW d, NEW D, NEW m, NEW l, NEW t, NEW K, NEW R,
         Sound(d, D, m, l, t, K, R), t # NoTask,
         NEW E, E \in {D, t.next}, NEW n, NEW k, NEW L,
         \/ n = E /\ Certain(k)
         \/ n = m /\ k.loaded /\ k.uncertain
         \/ n = m /\ Certain(k) /\ Brings(m, t) /\ E = t.next
         \/ n = EmptyStore /\ ~k.loaded /\ ~k.uncertain,
         Submits(d, E, L, R), Unasked(d, k, L)
  PROVE  Sound(d, E, n, k, NoTask, L, R)
<1>1. /\ Certain(l) /\ Holds(d, t.next, EventsOf(R)) /\ Holds(d, m, EventsOf(R))
      /\ m.outbox = D.outbox
      /\ Keeps(t.next, D, R) /\ Shown(t.next, m)
  BY NextKeeps
<1>2. Holds(d, D, EventsOf(R)) /\ Shown(D, m) /\ Ours(d, m.outbox)
  BY DEF Sound, Restored
<1>3. Holds(d, E, EventsOf(R)) /\ Shown(E, m)
  BY <1>1, <1>2
<1>4. Ours(d, E.outbox)
  BY <1>3 DEF Holds
<1>5. Restored(d, E, n, k, NoTask, EventsOf(R))
  <2>1. CASE n = E /\ Certain(k)
    BY <1>3, <1>4, <2>1, KeepsItself DEF Restored, Certain
  <2>2. CASE n = m /\ k.loaded /\ k.uncertain
    BY <1>2, <1>3, <2>2 DEF Restored, Certain
  <2>3. CASE n = m /\ Certain(k) /\ Brings(m, t) /\ E = t.next
    BY <1>1, <1>2, <1>3, <2>3 DEF Restored, Certain, Brings
  <2>4. CASE n = EmptyStore /\ ~k.loaded /\ ~k.uncertain
    BY <2>4 DEF Restored, Certain, Ours, Shown, EmptyStore, Store
  <2> QED
    BY <2>1, <2>2, <2>3, <2>4
<1> QED
  BY <1>3, <1>5 DEF Sound, Writes

\* What a write is depends on nothing but its kind, its store and its call.
LEMMA AlikeStill ==
  ASSUME NEW d, NEW m, NEW t, NEW K, NEW L, NEW R, Alike(K, L, d),
         NEW u, u.kind = t.kind, u.next = t.next, u.caller = t.caller
  PROVE  /\ Brings(m, t) => Brings(m, u)
         /\ Queues(d, m, t, K) => Queues(d, m, u, L)
         /\ Settles(d, m, t, K, R) => Settles(d, m, u, L, R)
<1>1. \A p, stage : CallOf(K, d, t.caller, p, stage) => CallOf(L, d, u.caller, p, stage)
  BY DEF CallOf, Alike
<1>2. Brings(m, t) => Brings(m, u)
  BY DEF Brings
<1>3. Queues(d, m, t, K) => Queues(d, m, u, L)
  BY <1>1 DEF Queues
<1>4. Settles(d, m, t, K, R) => Settles(d, m, u, L, R)
  BY <1>1 DEF Settles
<1> QED
  BY <1>2, <1>3, <1>4

\* Nothing that matters to d has changed.
LEMMA SoundStill ==
  ASSUME NEW d, NEW D, NEW m, NEW l, NEW t, NEW K, NEW R,
         Sound(d, D, m, l, t, K, R),
         NEW k, k.loaded = l.loaded, k.uncertain = l.uncertain,
         NEW L, Alike(K, L, d),
         NEW u, \/ u = t
                \/ t # NoTask /\ u.kind = t.kind /\ u.next = t.next /\ u.caller = t.caller
  PROVE  Sound(d, D, m, k, u, L, R)
<1>1. Submits(d, D, L, R)
  BY SubmitsStill, KeepsItself DEF Sound
<1>2. Certain(l) = Certain(k)
  BY DEF Certain
<1>3. t # NoTask => l.loaded
  BY DEF Sound, Restored
<1>4. Restored(d, D, m, k, u, EventsOf(R))
  BY <1>2, <1>3 DEF Sound, Restored
<1>5. Writes(d, m, k, u, L, R)
  <2> SUFFICES ASSUME u # NoTask
               PROVE  /\ Certain(k) /\ Holds(d, u.next, EventsOf(R))
                      /\ Brings(m, u) \/ Queues(d, m, u, L) \/ Settles(d, m, u, L, R)
    BY DEF Writes
  <2>1. t # NoTask /\ u.kind = t.kind /\ u.next = t.next /\ u.caller = t.caller
    OBVIOUS
  <2>2. /\ Certain(l) /\ Holds(d, t.next, EventsOf(R))
        /\ Brings(m, t) \/ Queues(d, m, t, K) \/ Settles(d, m, t, K, R)
    BY <2>1 DEF Sound, Writes
  <2>3. Brings(m, u) \/ Queues(d, m, u, L) \/ Settles(d, m, u, L, R)
    BY <2>1, <2>2, AlikeStill
  <2> QED
    BY <1>2, <2>1, <2>2, <2>3
<1>6. Unasked(d, k, L)
  BY DEF Sound, Unasked, Alike
<1> QED
  BY <1>1, <1>4, <1>5, <1>6 DEF Sound

\* A write starts.
LEMMA Begun ==
  ASSUME NEW d, NEW D, NEW m, NEW l, NEW t, NEW K, NEW L, NEW R,
         Sound(d, D, m, l, NoTask, K, R), Certain(l),
         Holds(d, t.next, EventsOf(R)),
         Brings(m, t) \/ Queues(d, m, t, L) \/ Settles(d, m, t, L, R),
         Submits(d, D, L, R)
  PROVE  Sound(d, D, m, l, t, L, R)
BY DEF Sound, Restored, Writes, Certain, Unasked

\* A call goes on that does not wait for a write.
LEMMA CallGoesOn ==
  ASSUME NEW d, NEW D, NEW m, NEW l, NEW t, NEW K, NEW R,
         Sound(d, D, m, l, t, K, R),
         NEW L, NEW c \in Caller, NEW k, Turned(K, L, d, c, k),
         t = NoTask \/ K[<<d, c>>].stage \notin {"queued", "settling"},
         k # NoCall => l.loaded /\ Stands(d, D, k, R)
  PROVE  Sound(d, D, m, l, t, L, R)
<1>1. Submits(d, D, L, R)
  BY SubmitsOne, KeepsItself DEF Sound
<1>2. Writes(d, m, l, t, L, R)
  <2> SUFFICES ASSUME t # NoTask
               PROVE  /\ Certain(l) /\ Holds(d, t.next, EventsOf(R))
                      /\ Brings(m, t) \/ Queues(d, m, t, L) \/ Settles(d, m, t, L, R)
    BY DEF Writes
  <2>1. /\ Certain(l) /\ Holds(d, t.next, EventsOf(R))
        /\ Brings(m, t) \/ Queues(d, m, t, K) \/ Settles(d, m, t, K, R)
    BY DEF Sound, Writes
  <2>2. \A p : \A stage \in {"queued", "settling"} :
          CallOf(K, d, t.caller, p, stage) => CallOf(L, d, t.caller, p, stage)
    BY DEF CallOf, Turned
  <2>3. Queues(d, m, t, K) => Queues(d, m, t, L)
    BY <2>2 DEF Queues
  <2>4. Settles(d, m, t, K, R) => Settles(d, m, t, L, R)
    BY <2>2 DEF Settles
  <2> QED
    BY <2>1, <2>3, <2>4
<1>3. Unasked(d, l, L)
  BY DEF Sound, Unasked, Turned
<1> QED
  BY <1>1, <1>2, <1>3 DEF Sound

-----------------------------------------------------------------------------
(* What is published                                                       *)

\* A store still holds what it must when one more event is published.
LEMMA HoldsMore ==
  ASSUME NEW d, NEW s, NEW N, NEW e, Holds(d, s, N),
         e \in N \/ ~Own(d, e) \/ \E p \in s.outbox : p.event = e
  PROVE  Holds(d, s, N \cup {e})
<1>1. CASE e \in N
  <2>1. N \cup {e} = N
    BY <1>1
  <2> QED
    BY <2>1
<1>2. CASE ~Own(d, e)
  BY <1>2 DEF Holds, HasOwn, Sole
<1>3. CASE \E p \in s.outbox : p.event = e
  BY <1>3 DEF Holds, HasOwn, Sole
<1> QED
  BY <1>1, <1>2, <1>3

\* What d tries to publish waits in its outbox, or was published before.
LEMMA SoundMore ==
  ASSUME NEW d, NEW D, NEW m, NEW l, NEW t, NEW K, NEW R,
         Sound(d, D, m, l, t, K, R),
         NEW p, p \in D.outbox \/ p.event \in EventsOf(R) \/ ~Own(d, p.event)
  PROVE  Sound(d, D, m, l, t, K, R \cup {p})
<1> DEFINE N == EventsOf(R)
           Q == R \cup {p}
           M == N \cup {p.event}
<1>0. EventsOf(Q) = M
  BY EventsMore
<1>1. Holds(d, D, M)
  BY HoldsMore DEF Sound
<1>2. Certain(l) => m.outbox = D.outbox /\ Holds(d, m, M)
  BY HoldsMore DEF Sound, Restored
<1>3. Restored(d, D, m, l, t, M)
  BY <1>2 DEF Sound, Restored
<1>4. Submits(d, D, K, Q)
  BY <1>0 DEF Sound, Submits, Stands
<1>5. Writes(d, m, l, t, K, Q)
  <2> SUFFICES ASSUME t # NoTask
               PROVE  /\ Certain(l) /\ Holds(d, t.next, M)
                      /\ Brings(m, t) \/ Queues(d, m, t, K) \/ Settles(d, m, t, K, Q)
    BY <1>0 DEF Writes
  <2>1. /\ Certain(l) /\ Holds(d, t.next, N)
        /\ Brings(m, t) \/ Queues(d, m, t, K) \/ Settles(d, m, t, K, R)
    BY DEF Sound, Writes
  <2>2. Settles(d, m, t, K, R) => Settles(d, m, t, K, Q)
    BY DEF Settles
  <2>3. Keeps(t.next, D, R)
    BY NextKeeps
  <2>4. p \in D.outbox => p \in t.next.outbox \/ p.event \in N
    BY <2>3 DEF Keeps, EventsOf
  <2>5. Holds(d, t.next, M)
    BY <2>1, <2>4, HoldsMore
  <2> QED
    BY <2>1, <2>2, <2>5
<1> QED
  BY <1>0, <1>1, <1>3, <1>4, <1>5 DEF Sound

\* The event that is published is the only one of its version.
LEMMA SingleMore ==
  ASSUME NEW d, NEW D, NEW N, NEW X, NEW p, Single(N, X), Own(d, p.event),
         \/ d \in X
         \/ /\ Holds(d, D, N) /\ Signed(p.event)
            /\ p \in D.outbox \/ p.event \in N
  PROVE  Single(N \cup {p.event}, X)
<1>1. CASE p.event \in N
  <2>1. N \cup {p.event} = N
    BY <1>1
  <2> QED
    BY <2>1
<1>2. CASE d \in X
  BY <1>2 DEF Single, Own
<1>3. CASE Holds(d, D, N) /\ Signed(p.event) /\ p \in D.outbox
  BY <1>3 DEF Single, Holds, Sole, Own
<1> QED
  BY <1>1, <1>2, <1>3

-----------------------------------------------------------------------------
(* What is written                                                         *)

\* A store holds what it must when published events are added to it.
LEMMA HoldsBrought ==
  ASSUME NEW d, NEW m, NEW N, NEW S, Holds(d, m, N), S \subseteq N
  PROVE  Holds(d, Store(m.events \cup S, m.outbox), N)
BY DEF Holds, HasOwn, Store

\* A store holds what it must when its published operation is settled.
LEMMA HoldsSettled ==
  ASSUME NEW d, NEW m, NEW N, NEW p, Holds(d, m, N), p.event \in N
  PROVE  Holds(d, Store(m.events \cup {p.event}, m.outbox \ {p}), N)
BY DEF Holds, HasOwn, Sole, Ours, Store

\* On the history K nothing that was signed on the same head is in K.
LEMMA NoneThere ==
  ASSUME NEW K \in Histories, NEW i \in Item, MayFollow(K, i),
         NEW f \in K, Signed(f), Front(f) = Tip(K)
  PROVE  FALSE
<1> DEFINE P == Projection(K)
<1>1. Candidates(K, P) = {}
  BY DEF MayFollow
<1>2. PICK F \in Histories : Front(f) = Tip(F) /\ Permitted(Projection(F).stage, Last(f))
  BY DEF Signed
<1>3. Projection(F).stage = P.stage
  BY <1>2, SameStage
<1>4. f \in Seq(Item) /\ f # <<>>
  BY DEF Histories, Events, Signed
<1>5. Len(f) \in Nat /\ Len(f) # 0
  BY <1>4
<1>6. Len(Front(f)) = Len(f) - 1
  <2> DEFINE m == Len(f) - 1
  <2>1. m \in Nat /\ m <= Len(f)
    BY <1>5
  <2>2. Front(f) = SubSeq(f, 1, m)
    BY DEF Front
  <2> HIDE DEF m
  <2>3. Len(SubSeq(f, 1, m)) = m
    BY <1>4, <1>5, <2>1
  <2> QED
    BY <2>2, <2>3 DEF m
<1>7. Front(f) = P.path
  BY DEF Tip
<1>8. Len(f) = Len(P.path) + 1
  BY <1>5, <1>6, <1>7
<1>9. Permitted(P.stage, Last(f))
  BY <1>2, <1>3
<1> HIDE DEF P
<1>10. f \in Candidates(K, P)
  BY <1>7, <1>8, <1>9 DEF Candidates
<1> QED
  BY <1>1, <1>10

\* A store holds what it must when an operation is signed on it.
LEMMA HoldsQueued ==
  ASSUME NEW d, NEW m \in Stores, NEW N, Holds(d, m, N), m.outbox = {},
         NEW X, d \notin X, Single(N, X),
         NEW i \in Item, i.by = d, MayFollow(m.events, i), NEW n \in Nat
  PROVE  LET p == Pending(Append(Tip(m.events), i), n)
         IN /\ Holds(d, Store(m.events, {p}), N)
            /\ Signed(p.event) /\ Own(d, p.event) /\ p \in Pendings
<1> DEFINE K == m.events
           e == Append(Tip(K), i)
           p == Pending(e, n)
<1>1. K \in Histories
  BY DEF Stores
<1>2. Tip(K) \in Events
  BY <1>1, TipType
<1>3. e \in Events /\ Front(e) = Tip(K) /\ Last(e) = i
  BY <1>2, Ending
<1>4. e # <<>>
  BY <1>2, <1>3 DEF Events
<1>5. Permitted(Projection(K).stage, i)
  BY DEF MayFollow
<1> HIDE DEF K, e
<1>6. Signed(e)
  BY <1>1, <1>3, <1>4, <1>5 DEF Signed
<1>7. Own(d, e)
  BY <1>3 DEF Own
<1>8. p.event = e /\ p \in Pendings
  BY <1>3 DEF Pending, Pendings
<1>9. ASSUME NEW f \in N, Own(d, f), Front(f) = Front(e) PROVE f = e
  <2>1. f \in K /\ Signed(f)
    BY <1>9 DEF Holds, HasOwn, Single, Own, K
  <2>2. MayFollow(K, i)
    BY DEF K
  <2> QED
    BY <1>1, <1>3, <1>9, <2>1, <2>2, NoneThere
<1> DEFINE s == Store(K, {p})
<1>10. s.events = K /\ s.outbox = {p}
  BY DEF Store
<1>11. K \subseteq N /\ HasOwn(d, m, N) /\ m.outbox = {} /\ m.events = K
  BY DEF Holds, K
<1> HIDE DEF s, p
<1>12. HasOwn(d, s, N)
  BY <1>10, <1>11 DEF HasOwn
<1>13. Sole(d, s.outbox, N) /\ Ours(d, s.outbox)
  BY <1>6, <1>7, <1>8, <1>9, <1>10 DEF Sole, Ours
<1>14. Holds(d, s, N)
  BY <1>10, <1>11, <1>12, <1>13 DEF Holds
<1> QED
  BY <1>6, <1>7, <1>8, <1>14 DEF s, p, e, K

-----------------------------------------------------------------------------
(* What a step makes of a device that is not early                         *)

\* What is said of d, now and after the step.
FineOf(d) == Fine(d, disk[d], mem[d], image[d], log[d], task[d], call, relay)

\* Who is not early was not early before.
LEMMA NotEarly ==
  ASSUME IInv, NEW d \in Device, early \subseteq early', d \notin early'
  PROVE  FineOf(d) /\ d \notin early
BY DEF IInv, FineOf

\* A step of d that keeps what is said of d keeps the invariant.
LEMMA OneDevice ==
  ASSUME IInv, Basic', NEW d \in Device, Alone(d), relay' = relay,
         d \notin early' =>
           Fine(d, disk'[d], mem'[d], image'[d], log'[d], task'[d], call', relay)
  PROVE  IInv'
<1>1. ASSUME NEW x \in Device \ early', x # d
      PROVE  Fine(x, disk'[x], mem'[x], image'[x], log'[x], task'[x], call', relay)
  <2>1. Fine(x, disk[x], mem[x], image[x], log[x], task[x], call, relay)
    BY DEF IInv, Alone
  <2>2. /\ disk'[x] = disk[x] /\ mem'[x] = mem[x] /\ image'[x] = image[x]
        /\ log'[x] = log[x] /\ task'[x] = task[x] /\ Alike(call, call', x)
    BY <1>1 DEF Alone, SameLog
  <2>3. PICK L : L = call'
    OBVIOUS
  <2>4. Sound(x, disk[x], mem[x], log[x], task[x], L, relay)
    BY <2>1, <2>2, <2>3, SoundStill DEF Fine
  <2> QED
    BY <2>1, <2>2, <2>3, <2>4 DEF Fine
<1>2. Single(EventsOf(relay), early')
  BY DEF IInv, Alone, Single
<1>3. Single(EventsOf(relay), early)'
  BY <1>2
<1>4. \A x \in Device \ early' : Fine(x, disk'[x], mem'[x], image'[x], log'[x], task'[x], call', relay')
  BY <1>1
<1> QED
  BY <1>3, <1>4 DEF IInv

\* Only a call of d changes.
LEMMA CallFine ==
  ASSUME NEW d \in Device, FineOf(d), NEW c \in Caller, NEW k \in Calls \cup {NoCall},
         UNCHANGED <<disk, mem, image, log, task>>, Turned(call, call', d, c, k),
         task[d] = NoTask \/ call[<<d, c>>].stage \notin {"queued", "settling"},
         k # NoCall => log[d].loaded /\ Stands(d, disk[d], k, relay)
  PROVE  Fine(d, disk'[d], mem'[d], image'[d], log'[d], task'[d], call', relay)
<1>1. PICK L : L = call'
  OBVIOUS
<1>2. Sound(d, disk[d], mem[d], log[d], task[d], L, relay)
  BY <1>1, CallGoesOn DEF FineOf, Fine
<1> QED
  BY <1>1, <1>2 DEF FineOf, Fine

\* A call that waits for no write fails, or is sent.
LEMMA StageFine ==
  ASSUME Basic, NEW d \in Device, FineOf(d), NEW c \in Caller, call[<<d, c>>] # NoCall,
         NEW stage \in StageNames, call' = Done(d, c, stage),
         UNCHANGED <<disk, mem, image, log, task>>,
         task[d] = NoTask \/ call[<<d, c>>].stage \notin {"queued", "settling"},
         \/ stage \in {"ok", "failed"}
         \/ stage = "sending" /\ call[<<d, c>>].stage = "saved"
  PROVE  Fine(d, disk'[d], mem'[d], image'[d], log'[d], task'[d], call', relay)
<1>1. log[d].loaded /\ call \in CallTable /\ call[<<d, c>>] \in Calls
  BY CallOwned
<1>2. PICK k \in Calls :
        /\ k.pending = call[<<d, c>>].pending /\ k.stage = stage
        /\ Turned(call, call', d, c, k)
  BY <1>1, CallStageTurns DEF Basic
<1>3. Stands(d, disk[d], call[<<d, c>>], relay)
  BY DEF FineOf, Fine, Sound, Submits
<1>4. Stands(d, disk[d], k, relay)
  BY <1>2, <1>3 DEF Stands
<1> QED
  BY <1>1, <1>2, <1>4, CallFine

\* Send, SendFails, Return and Resubmit change one call.
LEMMA SendFine ==
  ASSUME Basic, NEW d \in Device, FineOf(d), NEW c \in Caller, Send(d, c)
  PROVE  Fine(d, disk'[d], mem'[d], image'[d], log'[d], task'[d], call', relay)
<1> DEFINE stage == IF call[<<d, c>>].pending.epoch = log[d].epoch THEN "sending" ELSE "failed"
<1>1. /\ call[<<d, c>>] # NoCall /\ call[<<d, c>>].stage = "saved"
      /\ call' = Done(d, c, stage) /\ UNCHANGED <<disk, mem, image, log, task>>
  BY DEF Send
<1>2. stage \in StageNames /\ stage \in {"sending", "failed"}
  BY DEF StageNames
<1> HIDE DEF stage
<1> QED
  BY <1>1, <1>2, StageFine

LEMMA SendFailsFine ==
  ASSUME Basic, NEW d \in Device, FineOf(d), NEW c \in Caller, SendFails(d, c)
  PROVE  Fine(d, disk'[d], mem'[d], image'[d], log'[d], task'[d], call', relay)
BY StageFine DEF SendFails, StageNames

LEMMA ReturnFine ==
  ASSUME Basic, NEW d \in Device, FineOf(d), NEW c \in Caller, Return(d, c)
  PROVE  Fine(d, disk'[d], mem'[d], image'[d], log'[d], task'[d], call', relay)
<1>1. /\ call[<<d, c>>].stage \notin {"queued", "settling"}
      /\ call' = [call EXCEPT ![<<d, c>>] = NoCall] /\ UNCHANGED <<disk, mem, image, log, task>>
  BY DEF Return
<1>2. call \in CallTable
  BY DEF Basic, Typed
<1>3. Turned(call, call', d, c, NoCall)
  BY <1>1, <1>2, CallTurns
<1> QED
  BY <1>1, <1>3, CallFine

LEMMA ResubmitFine ==
  ASSUME Basic, NEW d \in Device, FineOf(d), NEW c \in Caller, NEW p \in mem[d].outbox,
         Resubmit(d, c, p)
  PROVE  Fine(d, disk'[d], mem'[d], image'[d], log'[d], task'[d], call', relay)
<1> DEFINE k == [pending |-> p, stage |-> "saved"]
<1>1. /\ task[d] = NoTask /\ log[d].loaded
      /\ call' = [call EXCEPT ![<<d, c>>] = k] /\ UNCHANGED <<disk, mem, image, log, task>>
  BY DEF Resubmit, Idle, Ready
<1>2. call \in CallTable /\ mem[d] \in Stores
  BY DEF Basic, Typed
<1>3. p \in Pendings
  BY <1>2 DEF Stores
<1>4. k \in Calls /\ k.pending = p /\ k.stage = "saved"
  BY <1>3 DEF Calls
<1> HIDE DEF k
<1>5. Turned(call, call', d, c, k)
  BY <1>1, <1>2, <1>4, CallTurns
<1>6. Restored(d, disk[d], mem[d], log[d], task[d], EventsOf(relay)) /\ Holds(d, disk[d], EventsOf(relay))
  BY DEF FineOf, Fine, Sound
<1>7. Signed(p.event) /\ Own(d, p.event)
  BY <1>6 DEF Restored, Ours
<1>8. p \in disk[d].outbox \/ p.event \in EventsOf(relay)
  BY <1>6 DEF Restored, Shown, Holds
<1>9. Stands(d, disk[d], k, relay)
  BY <1>4, <1>7, <1>8 DEF Stands
<1> QED
  BY <1>1, <1>4, <1>5, <1>9, CallFine

\* Nothing changes but what the log says of its subscription.
LEMMA LogFine ==
  ASSUME Basic, NEW d \in Device, FineOf(d), UNCHANGED <<disk, mem, call>>,
         NEW i, image'[d] = i, i # NoImage => i = disk[d] /\ ~log[d].loaded,
         NEW l \in States, Put(log, log', d, l),
         l.loaded = log[d].loaded, l.uncertain = log[d].uncertain,
         task' = task \/ task' = Outdated(d)
  PROVE  Fine(d, disk'[d], mem'[d], image'[d], log'[d], task'[d], call', relay)
<1>1. log' \in [Device -> States] /\ log'[d] = l /\ SameLog(log, log', d)
  BY PutOne DEF Basic, Typed
<1>2. PICK u : u = task'[d]
  OBVIOUS
<1>3. \/ u = task[d]
      \/ /\ task[d] # NoTask /\ u.kind = task[d].kind
         /\ u.next = task[d].next /\ u.caller = task[d].caller
  BY <1>2, OutdatedKeeps
<1>4. Alike(call, call, d)
  BY DEF Alike
<1>5. Sound(d, disk[d], mem[d], l, u, call, relay)
  BY <1>3, <1>4, SoundStill DEF FineOf, Fine
<1> QED
  BY <1>1, <1>2, <1>5 DEF Fine

LEMMA OpenFine ==
  ASSUME Basic, NEW d \in Device, FineOf(d), Open(d)
  PROVE  Fine(d, disk'[d], mem'[d], image'[d], log'[d], task'[d], call', relay)
<1> DEFINE l == [log[d] EXCEPT !.open = TRUE]
<1>1. log[d] \in States /\ log \in [Device -> States]
  BY DEF Basic, Typed
<1>2. l \in States /\ l.loaded = log[d].loaded /\ l.uncertain = log[d].uncertain
  BY <1>1 DEF States
<1>3. Put(log, log', d, l)
  BY <1>1 DEF Open, Put
<1> HIDE DEF l
<1>4. UNCHANGED <<disk, mem, call>> /\ image'[d] = image[d] /\ task' = task
  BY DEF Open
<1>5. image[d] # NoImage => image[d] = disk[d] /\ ~log[d].loaded
  BY DEF FineOf, Fine
<1> QED
  BY <1>2, <1>3, <1>4, <1>5, LogFine

LEMMA ReadFine ==
  ASSUME Basic, NEW d \in Device, FineOf(d), Read(d)
  PROVE  Fine(d, disk'[d], mem'[d], image'[d], log'[d], task'[d], call', relay)
<1>1. /\ UNCHANGED <<disk, mem, call>> /\ task' = task /\ log' = log /\ ~log[d].loaded
      /\ image' = [image EXCEPT ![d] = disk[d]]
  BY DEF Read
<1>2. log[d] \in States /\ log \in [Device -> States] /\ image \in [Device -> Stores \cup {NoImage}]
  BY DEF Basic, Typed
<1>3. Put(log, log', d, log[d]) /\ image'[d] = disk[d]
  BY <1>1, <1>2 DEF Put
<1> QED
  BY <1>1, <1>2, <1>3, LogFine

LEMMA EndOfHistoryFine ==
  ASSUME Basic, NEW d \in Device, FineOf(d), EndOfHistory(d)
  PROVE  Fine(d, disk'[d], mem'[d], image'[d], log'[d], task'[d], call', relay)
<1> DEFINE l == [log[d] EXCEPT !.replayed = TRUE]
<1>1. log[d] \in States /\ log \in [Device -> States]
  BY DEF Basic, Typed
<1>2. l \in States /\ l.loaded = log[d].loaded /\ l.uncertain = log[d].uncertain
  BY <1>1 DEF States
<1>3. Put(log, log', d, l)
  BY <1>1 DEF EndOfHistory, Put
<1> HIDE DEF l
<1>4. UNCHANGED <<disk, mem, call>> /\ image'[d] = image[d] /\ task' = task
  BY DEF EndOfHistory
<1>5. image[d] # NoImage => image[d] = disk[d] /\ ~log[d].loaded
  BY DEF FineOf, Fine
<1> QED
  BY <1>2, <1>3, <1>4, <1>5, LogFine

LEMMA RekeyFine ==
  ASSUME Basic, NEW d \in Device, FineOf(d), Rekey(d)
  PROVE  Fine(d, disk'[d], mem'[d], image'[d], log'[d], task'[d], call', relay)
<1>1. UNCHANGED <<disk, mem, call>> /\ image'[d] = image[d] /\ task' = Outdated(d)
  BY DEF Rekey
<1>2. /\ Rekeyed(d) \in States /\ Put(log, log', d, Rekeyed(d))
      /\ Rekeyed(d).loaded = log[d].loaded /\ Rekeyed(d).uncertain = log[d].uncertain
  BY RekeyedLog
<1>3. image[d] # NoImage => image[d] = disk[d] /\ ~log[d].loaded
  BY DEF FineOf, Fine
<1> QED
  BY <1>1, <1>2, <1>3, LogFine

\* What was read is what is in storage, and nothing is being written.
LEMMA LoadedFine ==
  ASSUME Basic, NEW d \in Device, FineOf(d), Loaded(d)
  PROVE  Fine(d, disk'[d], mem'[d], image'[d], log'[d], task'[d], call', relay)
<1>1. /\ image[d] # NoImage /\ UNCHANGED <<disk, call>>
      /\ mem' = [mem EXCEPT ![d] = image[d]] /\ image' = [image EXCEPT ![d] = NoImage]
      /\ task' = Outdated(d)
  BY DEF Loaded
<1>2. Typed
  BY DEF Basic
<1>3. /\ Sound(d, disk[d], mem[d], log[d], task[d], call, relay)
      /\ image[d] = disk[d] /\ ~log[d].loaded
  BY <1>1 DEF FineOf, Fine
<1>4. task[d] = NoTask
  BY <1>3 DEF Sound, Restored
<1>5. task'[d] = NoTask /\ mem'[d] = disk[d] /\ image'[d] = NoImage
  BY <1>1, <1>2, <1>3, <1>4 DEF Typed, Outdated
<1>6. PICK l : l = LoadedLog(d)
  OBVIOUS
<1>7. l \in States /\ Put(log, log', d, l) /\ l.loaded /\ ~l.uncertain
  BY <1>6, LoadedLogType
<1>8. log' \in [Device -> States] /\ log'[d] = l /\ SameLog(log, log', d)
  BY <1>2, <1>7, PutOne DEF Typed
<1>9. Holds(d, disk[d], EventsOf(relay)) /\ Submits(d, disk[d], call, relay)
  BY <1>3 DEF Sound
<1>10. Restored(d, disk[d], disk[d], l, NoTask, EventsOf(relay))
  BY <1>7, <1>9, KeepsItself DEF Restored, Holds
<1>11. Sound(d, disk[d], disk[d], l, NoTask, call, relay)
  BY <1>7, <1>9, <1>10 DEF Sound, Writes, Unasked
<1> QED
  BY <1>1, <1>5, <1>8, <1>11 DEF Fine

-----------------------------------------------------------------------------
(* A write starts                                                          *)

\* A write starts, for the call c or for none.
LEMMA StartFine ==
  ASSUME Basic, NEW d \in Device, FineOf(d), UNCHANGED <<disk, mem, image, log>>,
         task[d] = NoTask, Certain(log[d]),
         NEW kind, NEW next, NEW who, Start(d, kind, next, who),
         NEW t, t = [kind |-> kind, next |-> next, caller |-> who, current |-> TRUE],
         Holds(d, next, EventsOf(relay)),
         NEW L, L = call',
         Brings(mem[d], t) \/ Queues(d, mem[d], t, L) \/ Settles(d, mem[d], t, L, relay),
         Submits(d, disk[d], L, relay)
  PROVE  Fine(d, disk'[d], mem'[d], image'[d], log'[d], task'[d], call', relay)
<1>1. task \in [Device -> Tasks \cup {NoTask}]
  BY DEF Basic, Typed
<1>2. task'[d] = t
  BY <1>1 DEF Start
<1>3. Sound(d, disk[d], mem[d], log[d], NoTask, call, relay)
  BY DEF FineOf, Fine
<1>4. Holds(d, t.next, EventsOf(relay))
  OBVIOUS
<1>5. Sound(d, disk[d], mem[d], log[d], t, L, relay)
  BY <1>3, <1>4, Begun
<1>6. image[d] # NoImage => image[d] = disk[d] /\ ~log[d].loaded
  BY DEF FineOf, Fine
<1> QED
  BY <1>2, <1>5, <1>6 DEF Fine

\* Published events are about to be written, by a log that has loaded.
LEMMA ReceiveFine ==
  ASSUME Basic, NEW d \in Device, FineOf(d), d \notin early', NEW S, Receive(d, S)
  PROVE  Fine(d, disk'[d], mem'[d], image'[d], log'[d], task'[d], call', relay)
<1> DEFINE next == Received(d, S)
<1>1. /\ task[d] = NoTask /\ \A e \in S : Pending(e, log[d].epoch) \in relay
      /\ IF log[d].uncertain
         THEN log' = [log EXCEPT ![d].error = TRUE] /\ UNCHANGED <<task, early>>
         ELSE Start(d, "incoming", next, 0) /\ Begins(d) /\ UNCHANGED log
      /\ UNCHANGED <<disk, mem, call, relay>> /\ image' = image
  BY DEF Receive, Received, Idle
<1>2. log[d] \in States /\ log \in [Device -> States]
  BY DEF Basic, Typed
<1>3. CASE log[d].uncertain
  <2> DEFINE l == [log[d] EXCEPT !.error = TRUE]
  <2>1. l \in States /\ l.loaded = log[d].loaded /\ l.uncertain = log[d].uncertain
    BY <1>2 DEF States
  <2>2. Put(log, log', d, l)
    BY <1>1, <1>2, <1>3 DEF Put
  <2> HIDE DEF l
  <2>3. UNCHANGED <<disk, mem, call>> /\ image'[d] = image[d] /\ task' = task
    BY <1>1, <1>3
  <2>4. image[d] # NoImage => image[d] = disk[d] /\ ~log[d].loaded
    BY DEF FineOf, Fine
  <2> QED
    BY <2>1, <2>2, <2>3, <2>4, LogFine
<1>4. CASE ~log[d].uncertain
  <2>1. Start(d, "incoming", next, 0) /\ Begins(d) /\ log' = log
    BY <1>1, <1>4
  <2>2. Certain(log[d])
    BY <1>4, <2>1 DEF Certain, Begins
  <2>3. Sound(d, disk[d], mem[d], log[d], task[d], call, relay)
    BY DEF FineOf, Fine
  <2>4. Holds(d, mem[d], EventsOf(relay)) /\ Submits(d, disk[d], call, relay)
    BY <2>2, <2>3 DEF Sound, Restored
  <2>5. /\ S \subseteq EventsOf(relay) /\ next.outbox = mem[d].outbox
        /\ next.events = mem[d].events \cup S
    BY <1>1, ReceivedStore
  <2>6. Holds(d, next, EventsOf(relay))
    BY <2>4, <2>5, HoldsBrought DEF Received
  <2> HIDE DEF next
  <2> DEFINE t == [kind |-> "incoming", next |-> next, caller |-> 0, current |-> TRUE]
  <2>7. Brings(mem[d], t)
    BY <2>5 DEF Brings
  <2>8. t = [kind |-> "incoming", next |-> next, caller |-> 0, current |-> TRUE]
    OBVIOUS
  <2> HIDE DEF t
  <2>9. PICK L : L = call
    OBVIOUS
  <2>10. L = call' /\ Submits(d, disk[d], L, relay) /\ UNCHANGED <<disk, mem, image, log>>
    BY <1>1, <2>1, <2>4, <2>9
  <2> QED
    BY <1>1, <2>1, <2>2, <2>6, <2>7, <2>8, <2>10, StartFine
<1> QED
  BY <1>3, <1>4

\* A new operation is about to be written.
LEMMA QueueFine ==
  ASSUME IInv, NEW d \in Device, FineOf(d), d \notin early, NEW c \in Caller, NEW i \in Tried,
         Queue(d, c, i)
  PROVE  Fine(d, disk'[d], mem'[d], image'[d], log'[d], task'[d], call', relay)
<1> DEFINE p == Signing(d, i)
           e == Append(Tip(mem[d].events), i)
           next == Store(mem[d].events, {p})
           k == [pending |-> p, stage |-> "queued"]
           t == [kind |-> "queue", next |-> next, caller |-> c, current |-> TRUE]
<1>1. /\ log[d].loaded /\ task[d] = NoTask /\ ~log[d].uncertain /\ mem[d].outbox = {}
      /\ i.by = d /\ MayFollow(mem[d].events, i) /\ Len(e) <= MaxOps
      /\ Start(d, "queue", next, c)
      /\ call' = [call EXCEPT ![<<d, c>>] = k]
      /\ UNCHANGED <<disk, mem, image, log>>
  BY DEF Queue, Idle, Ready, Signing
<1>2. Basic /\ Single(EventsOf(relay), early)
  BY DEF IInv
<1>3. mem[d] \in Stores /\ log[d].epoch \in Nat /\ call \in CallTable /\ i \in Item
  BY <1>2, TriedAssumption DEF Basic, Typed, States
<1>4. Certain(log[d])
  BY <1>1 DEF Certain
<1>5. Sound(d, disk[d], mem[d], log[d], task[d], call, relay)
  BY DEF FineOf, Fine
<1>6. Holds(d, mem[d], EventsOf(relay)) /\ Submits(d, disk[d], call, relay)
  BY <1>4, <1>5 DEF Sound, Restored
<1>7. Holds(d, next, EventsOf(relay)) /\ Signed(p.event) /\ Own(d, p.event) /\ p \in Pendings
  BY <1>1, <1>2, <1>3, <1>6, HoldsQueued DEF Signing
<1>8. p.event = e /\ p = Pending(e, log[d].epoch)
  BY DEF Signing, Pending
<1>9. /\ i.by = d /\ MayFollow(mem[d].events, i) /\ Len(p.event) <= MaxOps
      /\ p = Pending(Append(Tip(mem[d].events), i), log[d].epoch)
  BY <1>1, <1>8
<1>10. next.events = mem[d].events /\ next.outbox = {p}
  BY DEF Store
<1> HIDE DEF p, e, next
<1>11. k \in Calls /\ k.pending = p /\ k.stage = "queued"
  BY <1>7 DEF Calls
<1> HIDE DEF k
<1>12. /\ t.kind = "queue" /\ t.next = next /\ t.caller = c
       /\ t = [kind |-> "queue", next |-> next, caller |-> c, current |-> TRUE]
  OBVIOUS
<1> HIDE DEF t
<1>13. PICK L : L = call'
  OBVIOUS
<1>14. Turned(call, L, d, c, k)
  <2>1. k \in Calls \cup {NoCall} /\ L = [call EXCEPT ![<<d, c>>] = k]
    BY <1>1, <1>11, <1>13
  <2> QED
    BY <1>3, <2>1, CallTurns
<1>15. Stands(d, disk[d], k, relay)
  BY <1>7, <1>11 DEF Stands
<1>16. Submits(d, disk[d], L, relay)
  BY <1>6, <1>14, <1>15, SubmitsOne, KeepsItself
<1>17. CallOf(L, d, t.caller, p, "queued")
  BY <1>11, <1>12, <1>14 DEF CallOf, Turned
<1>18. Queues(d, mem[d], t, L)
  <2>1. t.kind = "queue" /\ mem[d].outbox = {} /\ t.next.events = mem[d].events /\ t.next.outbox = {p}
    BY <1>1, <1>10, <1>12
  <2> QED
    BY <1>3, <1>9, <1>17, <2>1 DEF Queues
<1>19. UNCHANGED <<disk, mem, image, log>> /\ task[d] = NoTask /\ Start(d, "queue", next, c)
  BY <1>1
<1> QED
  BY <1>2, <1>4, <1>7, <1>12, <1>13, <1>16, <1>18, <1>19, StartFine

\* A published operation is about to be settled, or the call fails.
LEMMA SettleFine ==
  ASSUME Basic, NEW d \in Device, FineOf(d), NEW c \in Caller, SettleSent(d, c)
  PROVE  Fine(d, disk'[d], mem'[d], image'[d], log'[d], task'[d], call', relay)
<1> DEFINE p == call[<<d, c>>].pending
           next == Settled(d, p)
           t == [kind |-> "settle", next |-> next, caller |-> c, current |-> TRUE]
<1>1. /\ task[d] = NoTask
      /\ call[<<d, c>>] # NoCall /\ call[<<d, c>>].stage = "sent"
      /\ IF log[d].uncertain
         THEN call' = Done(d, c, "failed") /\ UNCHANGED task
         ELSE Start(d, "settle", next, c) /\ call' = Done(d, c, "settling")
      /\ UNCHANGED <<disk, mem, image, log>>
  BY DEF SettleSent, Settled, Idle
<1>2. log[d].loaded /\ call \in CallTable /\ call[<<d, c>>] \in Calls /\ p \in Pendings
  BY <1>1, CallOwned DEF Calls
<1>3. CASE log[d].uncertain
  BY <1>1, <1>3, StageFine DEF StageNames
<1>4. CASE ~log[d].uncertain
  <2>1. Start(d, "settle", next, c) /\ call' = Done(d, c, "settling")
    BY <1>1, <1>4
  <2>2. Certain(log[d])
    BY <1>2, <1>4 DEF Certain
  <2>3. Sound(d, disk[d], mem[d], log[d], task[d], call, relay)
    BY DEF FineOf, Fine
  <2>4. Holds(d, mem[d], EventsOf(relay)) /\ Submits(d, disk[d], call, relay)
    BY <2>2, <2>3 DEF Sound, Restored
  <2>5. Stands(d, disk[d], call[<<d, c>>], relay)
    BY <1>1, <2>4 DEF Submits
  <2>6. p \in relay /\ p.event \in EventsOf(relay)
    BY <1>1, <2>5 DEF Stands, EventsOf
  <2>7. PICK k \in Calls :
          k.pending = call[<<d, c>>].pending /\ k.stage = "settling" /\ Turned(call, call', d, c, k)
    <3>1. "settling" \in StageNames
      BY DEF StageNames
    <3> QED
      BY <1>2, <2>1, <3>1, CallStageTurns DEF Basic
  <2>8. Stands(d, disk[d], k, relay)
    BY <2>5, <2>6, <2>7 DEF Stands
  <2>9. Submits(d, disk[d], call', relay)
    BY <2>4, <2>7, <2>8, SubmitsOne, KeepsItself
  <2>10. k.pending = p /\ Own(d, p.event)
    BY <2>5, <2>7 DEF Stands
  <2>11. next.outbox = mem[d].outbox \ {p} /\ next.events = mem[d].events \cup {p.event}
    BY <1>2, SettledStore
  <2> HIDE DEF p
  <2>12. Holds(d, next, EventsOf(relay))
    BY <2>4, <2>6, HoldsSettled DEF Settled
  <2> HIDE DEF next
  <2>13. /\ t.kind = "settle" /\ t.next = next /\ t.caller = c
         /\ t = [kind |-> "settle", next |-> next, caller |-> c, current |-> TRUE]
    OBVIOUS
  <2> HIDE DEF t
  <2>14. PICK L : L = call'
    OBVIOUS
  <2>15. CallOf(L, d, t.caller, p, "settling")
    BY <2>7, <2>10, <2>13, <2>14 DEF CallOf, Turned
  <2>16. Settles(d, mem[d], t, L, relay)
    <3>1. t.next.events = mem[d].events \cup {p.event} /\ t.next.outbox = mem[d].outbox \ {p}
      BY <2>11, <2>13
    <3> QED
      BY <2>6, <2>10, <2>13, <2>15, <3>1 DEF Settles
  <2>17. /\ UNCHANGED <<disk, mem, image, log>> /\ task[d] = NoTask /\ Start(d, "settle", next, c)
         /\ Submits(d, disk[d], L, relay)
    BY <1>1, <2>1, <2>9, <2>14
  <2> QED
    BY <2>2, <2>12, <2>13, <2>14, <2>16, <2>17, StartFine
<1> QED
  BY <1>3, <1>4

-----------------------------------------------------------------------------
(* A write ends, or the log is gone                                        *)

\* While something is being written nothing is read.
LEMMA WriteExcludesRead ==
  ASSUME NEW d \in Device, FineOf(d), task[d] # NoTask
  PROVE  /\ Certain(log[d]) /\ image[d] = NoImage
         /\ Sound(d, disk[d], mem[d], log[d], task[d], call, relay)
BY DEF FineOf, Fine, Sound, Writes, Certain

\* The end of a write keeps what is said of d, as Over says.
LEMMA OverFine ==
  ASSUME Basic, NEW d \in Device, FineOf(d), task[d] # NoTask,
         NEW now \in {disk[d], task[d].next}, now \in Stores, Put(disk, disk', d, now),
         NEW n \in Stores, Put(mem, mem', d, n), image'[d] = NoImage,
         NEW k \in States, Put(log, log', d, k), Put(task, task', d, NoTask),
         NEW L, L = call',
         \/ n = now /\ Certain(k)
         \/ n = mem[d] /\ k.loaded /\ k.uncertain
         \/ n = mem[d] /\ Certain(k) /\ Brings(mem[d], task[d]) /\ now = task[d].next
         \/ n = EmptyStore /\ ~k.loaded /\ ~k.uncertain,
         Submits(d, now, L, relay), Unasked(d, k, L)
  PROVE  Fine(d, disk'[d], mem'[d], image'[d], log'[d], task'[d], call', relay)
<1>1. Typed
  BY DEF Basic
<1>2. disk' \in [Device -> Stores] /\ disk'[d] = now /\ SameLog(disk, disk', d)
  BY <1>1, PutOne DEF Typed
<1>3. mem' \in [Device -> Stores] /\ mem'[d] = n /\ SameLog(mem, mem', d)
  BY <1>1, PutOne DEF Typed
<1>4. log' \in [Device -> States] /\ log'[d] = k /\ SameLog(log, log', d)
  BY <1>1, PutOne DEF Typed
<1>5. task'[d] = NoTask
  BY <1>1 DEF Typed, Put
<1>6. Sound(d, now, n, k, NoTask, L, relay)
  BY WriteExcludesRead, Over
<1> QED
  BY <1>2, <1>3, <1>4, <1>5, <1>6 DEF Fine

\* What is in storage after the write has what waited there, or it is published.
LEMMA NowKeeps ==
  ASSUME NEW d \in Device, FineOf(d), task[d] # NoTask, NEW now \in {disk[d], task[d].next}
  PROVE  Keeps(now, disk[d], relay)
<1>1. Sound(d, disk[d], mem[d], log[d], task[d], call, relay)
  BY WriteExcludesRead
<1>2. Keeps(task[d].next, disk[d], relay)
  BY <1>1, NextKeeps
<1> QED
  BY <1>2, KeepsItself

\* The call of a write goes on, if the write has one.
LEMMA Answered ==
  ASSUME IInv, NEW d \in Device, FineOf(d), d \notin early,
         task[d] # NoTask, NEW now \in {disk[d], task[d].next},
         NEW written \in StageNames, NEW ok \in StageNames,
         call' = AnswerTo(d, written, ok),
         written = "failed" \/ (written = "saved" /\ now = task[d].next),
         ok \in {"ok", "failed"}
  PROVE  Submits(d, now, call', relay)
<1> DEFINE t == task[d]
           c == t.caller
<1>1. Sound(d, disk[d], mem[d], log[d], t, call, relay) /\ Typed
  BY WriteExcludesRead DEF IInv, Basic
<1>2. Submits(d, disk[d], call, relay) /\ Keeps(now, disk[d], relay)
  BY <1>1, NowKeeps DEF Sound
<1>3. Brings(mem[d], t) \/ Queues(d, mem[d], t, call) \/ Settles(d, mem[d], t, call, relay)
  BY <1>1 DEF Sound, Writes
<1>4. CASE Brings(mem[d], t)
  <2>1. call' = call
    BY <1>4 DEF Brings, AnswerTo
  <2>2. Alike(call, call', d)
    BY <2>1 DEF Alike
  <2> QED
    BY <1>2, <2>1, <2>2, SubmitsStill
<1>5. CASE Queues(d, mem[d], t, call)
  <2>1. t.kind = "queue" /\ call' = Done(d, c, written)
    BY <1>5 DEF Queues, AnswerTo
  <2>2. PICK p : /\ c \in Caller /\ call[<<d, c>>] \in Calls /\ call[<<d, c>>].pending = p
                 /\ call[<<d, c>>].stage = "queued" /\ p \in t.next.outbox
    BY <1>5 DEF Queues, CallOf
  <2> HIDE DEF c
  <2>3. PICK k \in Calls :
          /\ k.pending = call[<<d, c>>].pending /\ k.stage = written
          /\ call' \in CallTable /\ Turned(call, call', d, c, k)
          /\ \A x \in Device : x # d => Alike(call, call', x)
    BY <1>1, <2>1, <2>2, CallStageTurns
  <2>4. Signed(p.event) /\ Own(d, p.event)
    BY <1>1, <2>2, NextKeeps DEF Holds, Ours
  <2>5. Stands(d, now, k, relay)
    BY <2>2, <2>3, <2>4 DEF Stands
  <2> QED
    BY <1>2, <2>3, <2>5, SubmitsOne
<1>6. CASE Settles(d, mem[d], t, call, relay)
  <2>1. t.kind = "settle" /\ call' = Done(d, c, ok)
    BY <1>6 DEF Settles, AnswerTo
  <2>2. PICK p \in relay : /\ c \in Caller /\ call[<<d, c>>] \in Calls
                           /\ call[<<d, c>>].pending = p /\ Own(d, p.event)
    BY <1>6 DEF Settles, CallOf
  <2> HIDE DEF c
  <2>3. PICK k \in Calls :
          /\ k.pending = call[<<d, c>>].pending /\ k.stage = ok
          /\ call' \in CallTable /\ Turned(call, call', d, c, k)
          /\ \A x \in Device : x # d => Alike(call, call', x)
    BY <1>1, <2>1, <2>2, CallStageTurns
  <2>4. Signed(p.event)
    BY <2>2 DEF IInv, Single, EventsOf, Own
  <2>5. Stands(d, now, k, relay)
    BY <2>2, <2>3, <2>4 DEF Stands
  <2> QED
    BY <1>2, <2>3, <2>5, SubmitsOne
<1> QED
  BY <1>3, <1>4, <1>5, <1>6

\* The write is made.
LEMMA WrittenFine ==
  ASSUME IInv, NEW d \in Device, FineOf(d), d \notin early, Written(d)
  PROVE  Fine(d, disk'[d], mem'[d], image'[d], log'[d], task'[d], call', relay)
<1> DEFINE t == task[d]
           stays == t.kind = "incoming" /\ ~t.current
           n == IF stays THEN mem[d] ELSE t.next
<1>1. /\ task[d] # NoTask
      /\ disk' = [disk EXCEPT ![d] = t.next]
      /\ mem' = IF stays THEN mem ELSE [mem EXCEPT ![d] = t.next]
      /\ call' = AnswerTo(d, "saved", "ok")
      /\ task' = [task EXCEPT ![d] = NoTask]
      /\ log' = log /\ image' = image
  BY DEF Written, Advanced, AnswerTo
<1>2. Basic /\ Typed
  BY DEF IInv, Basic
<1>3. t \in Tasks
  BY <1>1, <1>2 DEF Typed
<1>4. /\ t.next \in Stores /\ mem[d] \in Stores /\ mem \in [Device -> Stores]
      /\ log[d] \in States /\ log \in [Device -> States]
  BY <1>2, <1>3 DEF Tasks, Typed
<1>5. /\ Certain(log[d]) /\ image[d] = NoImage
      /\ Sound(d, disk[d], mem[d], log[d], t, call, relay)
  BY <1>1, WriteExcludesRead
<1>6. stays => Brings(mem[d], t)
  BY <1>1, <1>5 DEF Sound, Writes, Queues, Settles
<1>7. Put(mem, mem', d, n) /\ n \in Stores
  BY <1>1, <1>4 DEF Put
<1>8. (n = t.next) \/ (n = mem[d] /\ Brings(mem[d], t))
  BY <1>6
<1> HIDE DEF n, stays
<1>9. "saved" \in StageNames /\ "ok" \in StageNames /\ t.next \in {disk[d], task[d].next}
  BY DEF StageNames
<1>10. Submits(d, t.next, call', relay)
  BY <1>1, <1>9, Answered
<1>11. Put(disk, disk', d, t.next) /\ Put(task, task', d, NoTask) /\ Put(log, log', d, log[d])
  BY <1>1, <1>4 DEF Put
<1>12. PICK L : L = call'
  OBVIOUS
<1>13. Submits(d, t.next, L, relay) /\ Unasked(d, log[d], L) /\ image'[d] = NoImage
  BY <1>1, <1>5, <1>10, <1>12 DEF Unasked, Certain
<1> QED
  BY <1>1, <1>2, <1>4, <1>5, <1>7, <1>8, <1>9, <1>11, <1>12, <1>13, OverFine

\* The write is reported as failed, and was made or not.
LEMMA WriteFailsFine ==
  ASSUME IInv, NEW d \in Device, FineOf(d), d \notin early, WriteFails(d)
  PROVE  Fine(d, disk'[d], mem'[d], image'[d], log'[d], task'[d], call', relay)
<1>1. Basic
  BY DEF IInv
<1>2. PICK now \in {disk[d], task[d].next}, n \in Stores, u \in BOOLEAN, e \in BOOLEAN :
        /\ task[d] # NoTask /\ now \in Stores
        /\ Put(disk, disk', d, now) /\ Put(mem, mem', d, n) /\ Put(task, task', d, NoTask)
        /\ AfterFault(d, u, e) \in States /\ Put(log, log', d, AfterFault(d, u, e))
        /\ AfterFault(d, u, e).loaded = log[d].loaded /\ AfterFault(d, u, e).uncertain = u
        /\ (n = now /\ ~u) \/ (n = mem[d] /\ u)
        /\ call' = AnswerTo(d, "failed", "failed")
        /\ image' = image
  BY <1>1, FaultOutcome
<1>3. PICK k \in States : k = AfterFault(d, u, e)
  BY <1>2
<1>4. Certain(log[d]) /\ image[d] = NoImage
  BY <1>2, WriteExcludesRead
<1>5. (n = now /\ Certain(k)) \/ (n = mem[d] /\ k.loaded /\ k.uncertain)
  BY <1>2, <1>3, <1>4 DEF Certain
<1>6. "failed" \in StageNames
  BY DEF StageNames
<1>7. Submits(d, now, call', relay)
  BY <1>2, <1>6, Answered
<1>8. PICK L : L = call'
  OBVIOUS
<1>9. Submits(d, now, L, relay) /\ Unasked(d, k, L) /\ image'[d] = NoImage
  BY <1>2, <1>3, <1>4, <1>7, <1>8 DEF Unasked, Certain
<1> QED
  BY <1>1, <1>2, <1>3, <1>5, <1>8, <1>9, OverFine

\* The log is gone, and its calls are none.
LEMMA GoneFine ==
  ASSUME Basic, NEW d \in Device, FineOf(d), Gone(d),
         NEW L, L = call', \A b \in Caller : L[<<d, b>>] = NoCall
  PROVE  Fine(d, disk'[d], mem'[d], image'[d], log'[d], task'[d], call', relay)
<1>1. /\ Put(mem, mem', d, EmptyStore) /\ Put(image, image', d, NoImage)
      /\ Put(task, task', d, NoTask) /\ Put(log, log', d, GoneLog(d)) /\ GoneLog(d) \in States
      /\ ~GoneLog(d).loaded /\ ~GoneLog(d).uncertain
  BY GoneOutcome
<1>2. PICK now : /\ now = disk[d] \/ (task[d] # NoTask /\ now = task[d].next)
                 /\ Put(disk, disk', d, now)
  BY GoneOutcome
<1>3. Typed /\ EmptyStore \in Stores
  BY EmptyStoreType DEF Basic
<1>4. disk[d] \in Stores /\ (task[d] # NoTask => task[d].next \in Stores)
  BY <1>3 DEF Typed, Tasks
<1>5. now \in Stores
  BY <1>2, <1>4
<1>6. image'[d] = NoImage
  BY <1>1, <1>3 DEF Typed, Put
<1>7. \A E : Submits(d, E, L, relay)
  BY DEF Submits
<1>8. Unasked(d, GoneLog(d), L)
  BY DEF Unasked
<1>9. PICK k \in States : k = GoneLog(d)
  BY <1>1
<1>10. CASE task[d] # NoTask
  <2>1. now \in {disk[d], task[d].next}
    BY <1>2
  <2> QED
    BY <1>1, <1>2, <1>3, <1>5, <1>6, <1>7, <1>8, <1>9, <1>10, <2>1, OverFine
<1>11. CASE task[d] = NoTask
  <2>1. now = disk[d]
    BY <1>2, <1>11
  <2>2. disk' \in [Device -> Stores] /\ disk'[d] = disk[d] /\ SameLog(disk, disk', d)
    BY <1>2, <1>3, <1>5, <2>1, PutOne DEF Typed
  <2>3. mem' \in [Device -> Stores] /\ mem'[d] = EmptyStore /\ SameLog(mem, mem', d)
    BY <1>1, <1>3, PutOne DEF Typed
  <2>4. log' \in [Device -> States] /\ log'[d] = k /\ SameLog(log, log', d)
    <3>1. Put(log, log', d, k)
      BY <1>1, <1>9
    <3> QED
      BY <1>3, <3>1, PutOne DEF Typed
  <2>5. task'[d] = NoTask
    BY <1>1, <1>3 DEF Typed, Put
  <2>6. Holds(d, disk[d], EventsOf(relay))
    BY DEF FineOf, Fine, Sound
  <2>7. Restored(d, disk[d], EmptyStore, k, NoTask, EventsOf(relay))
    BY <1>1, <1>9 DEF Restored, Certain, Ours, Shown, EmptyStore, Store
  <2>8. Sound(d, disk[d], EmptyStore, k, NoTask, L, relay)
    BY <1>7, <1>8, <1>9, <2>6, <2>7 DEF Sound, Writes
  <2> QED
    BY <1>6, <2>2, <2>3, <2>4, <2>5, <2>8 DEF Fine
<1> QED
  BY <1>10, <1>11

LEMMA CrashFine ==
  ASSUME Basic, NEW d \in Device, FineOf(d), Crash(d)
  PROVE  Fine(d, disk'[d], mem'[d], image'[d], log'[d], task'[d], call', relay)
<1>1. Gone(d)
  BY DEF Crash
<1>2. \A b \in Caller : call'[<<d, b>>] = NoCall
  BY CrashCalls
<1>3. PICK L : L = call'
  OBVIOUS
<1>4. \A b \in Caller : L[<<d, b>>] = NoCall
  BY <1>2, <1>3
<1> QED
  BY <1>1, <1>3, <1>4, GoneFine

LEMMA LoadFailsFine ==
  ASSUME Basic, NEW d \in Device, FineOf(d), LoadFails(d)
  PROVE  Fine(d, disk'[d], mem'[d], image'[d], log'[d], task'[d], call', relay)
<1>1. Gone(d) /\ ~log[d].loaded /\ call' = call
  BY DEF LoadFails
<1>2. \A b \in Caller : call[<<d, b>>] = NoCall
  BY <1>1 DEF FineOf, Fine, Sound, Unasked
<1> QED
  BY <1>1, <1>2, GoneFine

-----------------------------------------------------------------------------
(* The invariant holds throughout                                          *)

\* The relay has one more pending: what d publishes is its own, and if d is not early
\* it waits in its storage or was published before.
LEMMA Arrived ==
  ASSUME Basic, NEW d \in Device, NEW c \in Caller, Arrive(d, c)
  PROVE  \E p \in Pendings, stage \in {"sent", "failed"} :
           /\ call[<<d, c>>] \in Calls /\ p = call[<<d, c>>].pending /\ Own(d, p.event)
           /\ call[<<d, c>>].stage = "sending"
           /\ relay' = relay \cup {p} /\ call' = Done(d, c, stage)
           /\ UNCHANGED <<disk, mem, image, log, task, early>>
           /\ log[d].loaded
           /\ FineOf(d) => /\ Signed(p.event)
                           /\ p \in disk[d].outbox \/ p.event \in EventsOf(relay)
<1>1. PICK p : p = call[<<d, c>>].pending
  OBVIOUS
<1>2. PICK stage \in {"sent", "failed"} :
        /\ call[<<d, c>>] # NoCall /\ call[<<d, c>>].stage = "sending"
        /\ relay' = relay \cup {p} /\ call' = Done(d, c, stage)
        /\ UNCHANGED <<disk, mem, image, log, task, early>>
  BY <1>1 DEF Arrive
<1>3. call[<<d, c>>] \in Calls /\ Own(d, p.event) /\ log[d].loaded
  BY <1>1, <1>2, CallOwned
<1>4. p \in Pendings
  BY <1>1, <1>3 DEF Calls
<1>5. FineOf(d) => Stands(d, disk[d], call[<<d, c>>], relay)
  BY <1>2 DEF FineOf, Fine, Sound, Submits
<1>6. FineOf(d) => /\ Signed(p.event)
                   /\ p \in disk[d].outbox \/ p.event \in EventsOf(relay)
  BY <1>1, <1>2, <1>5 DEF Stands
<1> QED
  BY <1>1, <1>2, <1>3, <1>4, <1>6

LEMMA ArriveStep ==
  ASSUME IInv, NEW d \in Device, NEW c \in Caller, Arrive(d, c)
  PROVE  IInv'
<1>1. PICK p \in Pendings, stage \in {"sent", "failed"} :
        /\ call[<<d, c>>] \in Calls /\ p = call[<<d, c>>].pending /\ Own(d, p.event)
        /\ call[<<d, c>>].stage = "sending"
        /\ relay' = relay \cup {p} /\ call' = Done(d, c, stage)
        /\ UNCHANGED <<disk, mem, image, log, task, early>>
        /\ log[d].loaded
        /\ FineOf(d) => /\ Signed(p.event)
                        /\ p \in disk[d].outbox \/ p.event \in EventsOf(relay)
  BY Arrived DEF IInv
<1>2. Basic /\ Typed /\ Single(EventsOf(relay), early)
  BY DEF IInv, Basic
<1>3. stage \in StageNames
  BY DEF StageNames
<1>4. PICK k \in Calls :
        /\ k.pending = call[<<d, c>>].pending /\ k.stage = stage
        /\ call' \in CallTable /\ Turned(call, call', d, c, k)
        /\ \A x \in Device : x # d => Alike(call, call', x)
  BY <1>1, <1>2, <1>3, CallStageTurns
<1>5. PICK Q : Q = relay \cup {p}
  OBVIOUS
<1>6. d \in early \/ FineOf(d)
  BY DEF IInv, FineOf
<1>7. Single(EventsOf(Q), early)
  <2>1. EventsOf(Q) = EventsOf(relay) \cup {p.event}
    BY <1>5, EventsMore
  <2>2. FineOf(d) => Holds(d, disk[d], EventsOf(relay))
    BY DEF FineOf, Fine, Sound
  <2>3. Single(EventsOf(relay) \cup {p.event}, early)
    BY <1>1, <1>2, <1>6, <2>2, SingleMore
  <2> QED
    BY <2>1, <2>3
<1>8. ASSUME NEW x \in Device \ early
      PROVE  Sound(x, disk[x], mem[x], log[x], task[x], call, Q)
  <2>1. Sound(x, disk[x], mem[x], log[x], task[x], call, relay)
    BY DEF IInv, Fine
  <2>2. p \in disk[x].outbox \/ p.event \in EventsOf(relay) \/ ~Own(x, p.event)
    BY <1>1, <1>6 DEF Own
  <2> QED
    BY <1>5, <2>1, <2>2, SoundMore
<1>9. PICK L : L = call'
  OBVIOUS
<1>10. ASSUME NEW x \in Device \ early
       PROVE  Sound(x, disk[x], mem[x], log[x], task[x], L, Q)
  <2>1. CASE x = d
    <3>1. Signed(p.event) /\ p \in Q
      BY <1>1, <1>5, <1>6, <2>1
    <3>2. k.pending = p /\ k.stage \in {"sent", "failed"}
      BY <1>1, <1>4
    <3>3. Stands(d, disk[d], k, Q)
      BY <1>1, <3>1, <3>2 DEF Stands
    <3>4. Sound(d, disk[d], mem[d], log[d], task[d], call, Q)
      BY <1>8, <2>1
    <3>5. Turned(call, L, d, c, k)
      BY <1>4, <1>9
    <3>6. call[<<d, c>>].stage \notin {"queued", "settling"}
      BY <1>1
    <3> QED
      BY <1>1, <2>1, <3>3, <3>4, <3>5, <3>6, CallGoesOn
  <2>2. CASE x # d
    <3>1. Alike(call, L, x)
      BY <1>4, <1>9, <2>2
    <3> QED
      BY <1>8, <3>1, SoundStill
  <2> QED
    BY <2>1, <2>2
<1>11. ASSUME NEW x \in Device \ early
       PROVE  Fine(x, disk[x], mem[x], image[x], log[x], task[x], L, Q)
  <2>1. image[x] # NoImage => image[x] = disk[x] /\ ~log[x].loaded
    BY DEF IInv, Fine
  <2> QED
    BY <1>10, <2>1 DEF Fine
<1>12. Basic'
  BY <1>2, ArriveBasic
<1>13. Single(EventsOf(relay), early)'
  BY <1>1, <1>5, <1>7
<1>14. \A x \in Device \ early' : Fine(x, disk'[x], mem'[x], image'[x], log'[x], task'[x], call', relay')
  BY <1>1, <1>5, <1>9, <1>11
<1> QED
  BY <1>12, <1>13, <1>14 DEF IInv

\* The invariant holds in the initial states.
LEMMA InitSound == LogInit => IInv
<1> SUFFICES ASSUME LogInit PROVE IInv
  OBVIOUS
<1>1. EventsOf(relay) = {}
  BY DEF LogInit, EventsOf
<1>2. Single(EventsOf(relay), early)
  BY <1>1 DEF Single
<1>3. ASSUME NEW d \in Device
      PROVE  Fine(d, disk[d], mem[d], image[d], log[d], task[d], call, relay)
  <2>1. /\ disk[d] = EmptyStore /\ mem[d] = EmptyStore /\ task[d] = NoTask
        /\ log[d].loaded = FALSE /\ log[d].uncertain = FALSE /\ image[d] = NoImage
        /\ \A c \in Caller : call[<<d, c>>] = NoCall
    BY DEF LogInit
  <2>2. EmptyStore.events = {} /\ EmptyStore.outbox = {}
    BY DEF EmptyStore, Store
  <2>3. Holds(d, EmptyStore, {})
    BY <2>2 DEF Holds, Ours, HasOwn, Sole
  <2>4. Restored(d, EmptyStore, EmptyStore, log[d], NoTask, {})
    BY <2>1, <2>2 DEF Restored, Certain, Ours, Shown
  <2> QED
    BY <1>1, <2>1, <2>3, <2>4 DEF Fine, Sound, Writes, Submits, Unasked
<1> QED
  BY <1>2, <1>3, InitBasic DEF IInv

\* The invariant holds as long as nothing happens.
LEMMA Stutter ==
  ASSUME IInv, UNCHANGED <<disk, mem, image, log, task, call, relay, early>>
  PROVE  IInv'
<1>1. Basic'
  BY DEF IInv, Basic, Typed
<1>2. Single(EventsOf(relay), early)'
  BY DEF IInv
<1>3. \A d \in Device \ early' : Fine(d, disk'[d], mem'[d], image'[d], log'[d], task'[d], call', relay')
  BY DEF IInv
<1> QED
  BY <1>1, <1>2, <1>3 DEF IInv

\* The steps of d that leave storage and the relay alone keep what is said of d.
LEMMA QuietFine ==
  ASSUME IInv, NEW d \in Device, FineOf(d), d \notin early, d \notin early', Quiet(d)
  PROVE  Fine(d, disk'[d], mem'[d], image'[d], log'[d], task'[d], call', relay)
<1>1. Basic
  BY DEF IInv
<1>2. CASE Open(d)
  BY <1>1, <1>2, OpenFine
<1>3. CASE Read(d)
  BY <1>1, <1>3, ReadFine
<1>4. CASE Loaded(d)
  BY <1>1, <1>4, LoadedFine
<1>5. CASE EndOfHistory(d)
  BY <1>1, <1>5, EndOfHistoryFine
<1>6. CASE Rekey(d)
  BY <1>1, <1>6, RekeyFine
<1>7. CASE \E S \in SUBSET {p.event : p \in relay} : Receive(d, S)
  BY <1>1, <1>7, ReceiveFine
<1>8. ASSUME NEW c \in Caller, Send(d, c) \/ SettleSent(d, c) \/ SendFails(d, c) \/ Return(d, c)
      PROVE  Fine(d, disk'[d], mem'[d], image'[d], log'[d], task'[d], call', relay)
  BY <1>1, <1>8, SendFine, SettleFine, SendFailsFine, ReturnFine
<1>9. ASSUME NEW c \in Caller, NEW i \in Tried, Queue(d, c, i)
      PROVE  Fine(d, disk'[d], mem'[d], image'[d], log'[d], task'[d], call', relay)
  BY <1>9, QueueFine
<1>10. ASSUME NEW c \in Caller, NEW p \in mem[d].outbox, Resubmit(d, c, p)
       PROVE  Fine(d, disk'[d], mem'[d], image'[d], log'[d], task'[d], call', relay)
  BY <1>1, <1>10, ResubmitFine
<1> QED
  BY <1>2, <1>3, <1>4, <1>5, <1>6, <1>7, <1>8, <1>9, <1>10 DEF Quiet

\* The other steps change neither storage nor the relay.
LEMMA QuietKeeps ==
  ASSUME NEW d \in Device, Quiet(d)
  PROVE  disk' = disk /\ relay' = relay
BY DEF Quiet, Open, Read, Loaded, EndOfHistory, Rekey, Receive, Send, SettleSent, SendFails, Return,
       Queue, Resubmit

\* Every step of d keeps the invariant.
LEMMA ActSound ==
  ASSUME IInv, NEW d \in Device, Acts(d)
  PROVE  IInv'
<1>1. CASE \E c \in Caller : Arrive(d, c)
  BY <1>1, ArriveStep
<1>2. CASE Quiet(d) \/ Written(d) \/ WriteFails(d) \/ Crash(d) \/ LoadFails(d)
  <2>1. Basic /\ Basic' /\ Alone(d)
    BY ActBasic DEF IInv
  <2>2. relay' = relay
    BY <1>2, QuietKeeps DEF Written, WriteFails, Crash, LoadFails
  <2>3. ASSUME d \notin early'
        PROVE  Fine(d, disk'[d], mem'[d], image'[d], log'[d], task'[d], call', relay)
    <3>1. FineOf(d) /\ d \notin early
      BY <2>1, <2>3, NotEarly DEF Alone
    <3> QED
      BY <1>2, <2>1, <2>3, <3>1, QuietFine, WrittenFine, WriteFailsFine, CrashFine, LoadFailsFine
  <2> QED
    BY <2>1, <2>2, <2>3, OneDevice
<1> QED
  BY <1>1, <1>2 DEF Acts

\* Every step keeps the invariant.
LEMMA NextSound == IInv /\ [LogNext]_logVars => IInv'
<1> SUFFICES ASSUME IInv, [LogNext]_logVars PROVE IInv'
  OBVIOUS
<1>1. CASE LogNext
  BY <1>1, StepKinds, ActSound
<1>2. CASE UNCHANGED logVars
  BY <1>2, Stutter DEF logVars
<1> QED
  BY <1>1, <1>2

\* The invariant holds throughout: of every device that is not early its storage and
\* its memory hold what they must (Holds, Restored), a write in progress leads to such
\* a store (Writes), a call stands for what waits there or is published (Submits), and
\* what open() has read is still what is in storage.
THEOREM Invariance == LogSpec => []IInv
BY InitSound, NextSound, PTL DEF LogSpec

\* Nothing is shown, and nothing waits to be sent, that storage would not bring back
\* after a crash, on a device that wrote nothing before it had loaded: #persist() shows
\* what it wrote, or what it read back.
THEOREM NothingShownIsLost == LogSpec => []ShownIsSaved
<1>1. IInv => ShownIsSaved
  BY DEF IInv, Fine, Sound, Restored, Shown, ShownIsSaved
<1> QED
  BY <1>1, Invariance, PTL

\* What a step of d makes of what is in storage.
LEMMA DiskStep ==
  ASSUME Basic, NEW d \in Device, Acts(d)
  PROVE  \/ disk' = disk
         \/ /\ task[d] # NoTask /\ relay' = relay
            /\ Put(disk, disk', d, task[d].next)
<1>1. CASE Quiet(d) \/ \E c \in Caller : Arrive(d, c)
  BY <1>1, QuietKeeps DEF Arrive
<1>2. CASE Written(d)
  BY <1>2 DEF Written, Put
<1>3. CASE WriteFails(d)
  <2>1. PICK now \in {disk[d], task[d].next} : Put(disk, disk', d, now)
    BY <1>3, FaultOutcome
  <2>2. now = disk[d] => disk' = disk
    BY <2>1 DEF Put, Basic, Typed
  <2> QED
    BY <1>3, <2>1, <2>2 DEF WriteFails
<1>4. CASE Crash(d) \/ LoadFails(d)
  <2>1. Gone(d) /\ relay' = relay
    BY <1>4 DEF Crash, LoadFails
  <2>2. PICK now : /\ now = disk[d] \/ (task[d] # NoTask /\ now = task[d].next)
                   /\ Put(disk, disk', d, now)
    BY <2>1, GoneOutcome
  <2>3. now = disk[d] => disk' = disk
    BY <2>2 DEF Put, Basic, Typed
  <2> QED
    BY <2>1, <2>2, <2>3
<1> QED
  BY <1>1, <1>2, <1>3, <1>4 DEF Acts

\* A step leaves in storage what is shown.
LEMMA StepKeeps ==
  ASSUME IInv, NEW x \in Device, Acts(x), NEW d \in Device \ early'
  PROVE  mem[d].events \subseteq disk'[d].events
<1>1. Basic /\ Alone(x)
  BY ActBasic DEF IInv
<1>2. Fine(d, disk[d], mem[d], image[d], log[d], task[d], call, relay)
  BY <1>1 DEF IInv, Alone
<1>3. mem[d].events \subseteq disk[d].events
  BY <1>2 DEF Fine, Sound, Restored, Shown
<1>4. CASE disk'[d] = disk[d]
  BY <1>3, <1>4
<1>5. CASE disk'[d] # disk[d]
  <2>1. x = d
    BY <1>1, <1>5 DEF Alone, SameLog
  <2>2. task[d] # NoTask /\ Put(disk, disk', d, task[d].next)
    BY <1>1, <1>5, <2>1, DiskStep
  <2>3. disk'[d] = task[d].next
    BY <1>1, <2>2 DEF Put, Basic, Typed
  <2>4. Shown(task[d].next, mem[d])
    BY <1>2, <2>2, NextKeeps DEF Fine
  <2> QED
    BY <2>3, <2>4 DEF Shown
<1> QED
  BY <1>4, <1>5

\* No write, made, failed or cut short by a crash, takes from storage what is shown, on
\* a device that wrote nothing before it had loaded.
THEOREM WhatIsShownStays == LogSpec => ShownIsKept
<1>1. IInv /\ [LogNext]_logVars
        => [\A d \in Device \ early' : mem[d].events \subseteq disk'[d].events]_logVars
  <2> SUFFICES ASSUME IInv, [LogNext]_logVars
               PROVE  [\A d \in Device \ early' : mem[d].events \subseteq disk'[d].events]_logVars
    OBVIOUS
  <2>1. CASE UNCHANGED logVars
    BY <2>1
  <2>2. CASE LogNext
    <3>1. \A d \in Device \ early' : mem[d].events \subseteq disk'[d].events
      BY <2>2, StepKinds, StepKeeps
    <3> QED
      BY <3>1
  <2> QED
    BY <2>1, <2>2
<1> QED
  BY <1>1, Invariance, PTL DEF LogSpec, ShownIsKept

-----------------------------------------------------------------------------
(* The history that is promised                                            *)

\* The history and the outbox that storage stands for.
SavedBar == [d \in Device |-> disk[d].events]
OutBar == [d \in Device |-> EventsOf(disk[d].outbox)]

\* What a write to the store s may leave out.
Spare(d, s) == {e \in s.events : Last(e).by # d \/ e \in EventsOf(s.outbox)}

\* What AssignmentHistory says of a history, said of the store that stands for it.
LEMMA HistoryDroppable ==
  ASSUME NEW d \in Device
  PROVE  History!Droppable(d) = Spare(d, disk[d])
BY DEF History!Droppable, Spare, EventsOf, History!Last, Last

\* AssignmentHistory reads a history as the log does.
LEMMA HistoryReads ==
  ASSUME NEW K, NEW p, NEW s, NEW i
  PROVE  /\ History!Projection(K) = Projection(K)
         /\ History!Candidates(K, p) = Candidates(K, p)
         /\ History!Unreached(K, p) = Unreached(K, p)
         /\ History!Permitted(s, i) = Permitted(s, i)
<1>1. History!Projection(K) = Projection(K)
  BY DEF History!Projection, Projection, History!Advance, Advance,
         History!Candidates, Candidates, History!Permitted, Permitted, History!After, After,
         History!Unborn, Unborn, History!Front, Front, History!Last, Last,
         History!Cardinality, Cardinality
<1>2. History!Candidates(K, p) = Candidates(K, p)
  BY DEF History!Candidates, Candidates, History!Permitted, Permitted,
         History!Front, Front, History!Last, Last
<1>3. History!Unreached(K, p) = Unreached(K, p)
  BY DEF History!Unreached, Unreached, History!IsPrefix, IsPrefix, History!Front, Front
<1>4. History!Permitted(s, i) = Permitted(s, i)
  BY DEF History!Permitted, Permitted
<1> QED
  BY <1>1, <1>2, <1>3, <1>4

LEMMA HistoryTip ==
  ASSUME NEW K
  PROVE  History!Tip(K) = Tip(K)
BY HistoryReads DEF History!Tip, Tip

LEMMA HistoryMayFollow ==
  ASSUME NEW K, NEW i
  PROVE  MayFollow(K, i) => History!MayFollow(K, i)
<1> DEFINE p == Projection(K)
<1> SUFFICES ASSUME Permitted(p.stage, i), Candidates(K, p) = {}, Unreached(K, p) = {}
             PROVE  History!MayFollow(K, i)
  BY DEF MayFollow
<1>1. /\ History!Permitted(p.stage, i) /\ History!Candidates(K, p) = {}
      /\ History!Unreached(K, p) = {}
  BY HistoryReads
<1>2. History!Projection(K) = p
  BY HistoryReads
<1> HIDE DEF p
<1> QED
  BY <1>1, <1>2 DEF History!MayFollow

\* A write changes the history and the outbox that its store stands for.
LEMMA BarsPut ==
  ASSUME Typed, NEW d \in Device, NEW now, Put(disk, disk', d, now)
  PROVE  /\ SavedBar' = [SavedBar EXCEPT ![d] = now.events]
         /\ OutBar' = [OutBar EXCEPT ![d] = EventsOf(now.outbox)]
<1>1. /\ disk'[d] = now
      /\ \A x \in Device : x # d => disk'[x] = disk[x]
  BY DEF Typed, Put
<1>2. SavedBar' = [SavedBar EXCEPT ![d] = now.events]
  BY <1>1 DEF SavedBar
<1>3. OutBar' = [OutBar EXCEPT ![d] = EventsOf(now.outbox)]
  BY <1>1 DEF OutBar
<1> QED
  BY <1>2, <1>3

\* A write that leaves the outbox alone is a Learn.
LEMMA LearnStep ==
  ASSUME Typed, relay' = relay, NEW d \in Device, NEW now, Put(disk, disk', d, now),
         now.events \subseteq EventsOf(relay),
         NEW lost, lost \subseteq Spare(d, disk[d]),
         now.events = (disk[d].events \ lost) \cup now.events,
         EventsOf(now.outbox) = EventsOf(disk[d].outbox)
  PROVE  History!HistoryNext
<1>1. SavedBar' = [SavedBar EXCEPT ![d] = (SavedBar[d] \ lost) \cup now.events]
  <2>1. SavedBar[d] = disk[d].events
    BY DEF SavedBar
  <2> QED
    BY <2>1, BarsPut
<1>2. OutBar' = OutBar
  <2>1. OutBar' = [OutBar EXCEPT ![d] = OutBar[d]]
    BY BarsPut DEF OutBar
  <2>2. OutBar = [OutBar EXCEPT ![d] = OutBar[d]]
    BY DEF OutBar
  <2> QED
    BY <2>1, <2>2
<1>3. EventsOf(relay)' = EventsOf(relay)
  OBVIOUS
<1>4. lost \subseteq History!Droppable(d)
  BY HistoryDroppable
<1>5. History!Learn(d, now.events, lost)
  BY <1>1, <1>2, <1>3, <1>4 DEF History!Learn, SavedBar, OutBar, EventsOf
<1>6. now.events \in SUBSET {p.event : p \in relay}
  BY DEF EventsOf
<1>7. lost \in SUBSET History!Droppable(d)
  BY <1>4
<1> QED
  BY <1>5, <1>6, <1>7 DEF History!HistoryNext

\* A write that puts a new operation into the outbox is a Sign.
LEMMA SignStep ==
  ASSUME Typed, relay' = relay, NEW d \in Device, NEW now, Put(disk, disk', d, now),
         NEW lost, lost \subseteq Spare(d, disk[d]), disk[d].outbox = {},
         now.events = disk[d].events \ lost,
         NEW i \in Tried, i.by = d, MayFollow(now.events, i),
         NEW e, e = Append(Tip(now.events), i), Len(e) <= MaxOps,
         EventsOf(now.outbox) = {e}
  PROVE  History!HistoryNext
<1> DEFINE K == SavedBar[d] \ lost
<1>1. SavedBar[d] = disk[d].events /\ OutBar[d] = {}
  BY DEF SavedBar, OutBar, EventsOf
<1>2. K = now.events
  BY <1>1
<1> HIDE DEF K
<1>3. SavedBar' = [SavedBar EXCEPT ![d] = K] /\ OutBar' = [OutBar EXCEPT ![d] = {e}]
  <2>1. /\ SavedBar' = [SavedBar EXCEPT ![d] = now.events]
        /\ OutBar' = [OutBar EXCEPT ![d] = EventsOf(now.outbox)]
    BY BarsPut
  <2> QED
    BY <1>2, <2>1
<1>4. History!MayFollow(K, i) /\ e = Append(History!Tip(K), i)
  BY <1>2, HistoryMayFollow, HistoryTip
<1>5. lost \subseteq History!Droppable(d)
  BY HistoryDroppable
<1>6. EventsOf(relay)' = EventsOf(relay)
  OBVIOUS
<1>7. Len(Append(History!Tip(K), i)) <= MaxOps /\ OutBar' = [OutBar EXCEPT ![d] = {Append(History!Tip(K), i)}]
  BY <1>3, <1>4
<1>8. History!Sign(d, i, lost)
  BY <1>1, <1>3, <1>4, <1>5, <1>6, <1>7 DEF History!Sign, K, SavedBar, OutBar, EventsOf
<1>9. lost \in SUBSET History!Droppable(d)
  BY <1>5
<1> QED
  BY <1>8, <1>9 DEF History!HistoryNext

\* A write that takes a published operation out of the outbox is a Settle.
LEMMA SettledStep ==
  ASSUME Typed, relay' = relay, NEW d \in Device, NEW now, Put(disk, disk', d, now),
         NEW lost, lost \subseteq Spare(d, disk[d]),
         NEW e, e \in EventsOf(disk[d].outbox), e \in EventsOf(relay),
         now.events = (disk[d].events \ lost) \cup {e},
         EventsOf(now.outbox) = EventsOf(disk[d].outbox) \ {e}
  PROVE  History!HistoryNext
<1>1. SavedBar[d] = disk[d].events /\ OutBar[d] = EventsOf(disk[d].outbox)
  BY DEF SavedBar, OutBar
<1>2. /\ SavedBar' = [SavedBar EXCEPT ![d] = (SavedBar[d] \ lost) \cup {e}]
      /\ OutBar' = [OutBar EXCEPT ![d] = OutBar[d] \ {e}]
  BY <1>1, BarsPut
<1>3. e \in OutBar[d] \cap EventsOf(relay)
  BY <1>1
<1>4. lost \subseteq History!Droppable(d)
  BY HistoryDroppable
<1>5. EventsOf(relay)' = EventsOf(relay)
  OBVIOUS
<1>6. History!Settle(d, e, lost)
  BY <1>2, <1>3, <1>4, <1>5 DEF History!Settle, SavedBar, OutBar, EventsOf
<1>7. e \in [x \in Device |-> {p.event : p \in disk[x].outbox}][d]
  BY DEF EventsOf
<1>8. lost \in SUBSET History!Droppable(d)
  BY <1>4
<1> QED
  BY <1>6, <1>7, <1>8 DEF History!HistoryNext

\* Storage and the room stay as they are.
LEMMA NothingKept ==
  ASSUME disk' = disk, relay' = relay
  PROVE  UNCHANGED History!historyVars
BY DEF History!historyVars

\* What a write leaves out may be left out.
LEMMA LeftOut ==
  ASSUME NEW d \in Device, FineOf(d), task[d] # NoTask, NEW next, next = task[d].next
  PROVE  disk[d].events \ next.events \subseteq Spare(d, disk[d])
<1>1. Sound(d, disk[d], mem[d], log[d], task[d], call, relay)
  BY DEF FineOf, Fine
<1>2. /\ Holds(d, mem[d], EventsOf(relay)) /\ mem[d].outbox = disk[d].outbox
      /\ mem[d].events \subseteq next.events
  BY <1>1, NextKeeps DEF Shown
<1>3. disk[d].events \subseteq EventsOf(relay)
  BY <1>1 DEF Sound, Holds
<1>4. ASSUME NEW e \in disk[d].events, e \notin next.events, Last(e).by = d
      PROVE  e \in EventsOf(disk[d].outbox)
  <2>1. e \in mem[d].events \/ \E p \in mem[d].outbox : p.event = e
    BY <1>2, <1>3, <1>4 DEF Holds, HasOwn, Own
  <2> QED
    BY <1>2, <1>4, <2>1 DEF EventsOf
<1> QED
  BY <1>4 DEF Spare

\* A write is a step of the history.
LEMMA WriteImplements ==
  ASSUME Typed, NEW d \in Device, FineOf(d), task[d] # NoTask, relay' = relay,
         NEW now, now = task[d].next, Put(disk, disk', d, now)
  PROVE  History!HistoryNext
<1>0. Sound(d, disk[d], mem[d], log[d], task[d], call, relay)
  BY DEF FineOf, Fine
<1> DEFINE lost == disk[d].events \ now.events
           D == disk[d]
           m == mem[d]
           t == task[d]
<1>1. lost \subseteq Spare(d, D)
  BY LeftOut
<1>2. /\ Holds(d, now, EventsOf(relay)) /\ m.outbox = D.outbox
      /\ Brings(m, t) \/ Queues(d, m, t, call) \/ Settles(d, m, t, call, relay)
  BY <1>0, NextKeeps DEF Sound, Writes
<1>3. now.events \subseteq EventsOf(relay)
  BY <1>2 DEF Holds
<1>4. m.events \subseteq D.events
  <2>1. Certain(log[d]) /\ Shown(D, m)
    BY <1>0 DEF Sound, Writes, Restored
  <2> QED
    BY <2>1 DEF Shown
<1>5. now.events = (D.events \ lost) \cup now.events
  OBVIOUS
<1>6. ASSUME EventsOf(now.outbox) = EventsOf(D.outbox) PROVE History!HistoryNext
  <2> HIDE DEF lost
  <2> QED
    BY <1>0, <1>1, <1>3, <1>5, <1>6, LearnStep
<1>7. CASE Brings(m, t)
  <2>1. now.outbox = D.outbox
    BY <1>2, <1>7 DEF Brings
  <2> QED
    BY <1>6, <2>1
<1>8. CASE Queues(d, m, t, call)
  <2>1. PICK i \in Tried, n \in Nat :
          LET p == Pending(Append(Tip(m.events), i), n)
          IN /\ i.by = d /\ MayFollow(m.events, i) /\ Len(p.event) <= MaxOps
             /\ t.next.outbox = {p}
    BY <1>8 DEF Queues
  <2> DEFINE e == Append(Tip(m.events), i)
             p == Pending(e, n)
  <2>2. p.event = e
    BY DEF Pending
  <2>3. i.by = d /\ MayFollow(m.events, i) /\ Len(e) <= MaxOps /\ now.outbox = {p}
    BY <2>1, <2>2
  <2> HIDE DEF p
  <2>4. EventsOf(now.outbox) = {e}
    BY <2>2, <2>3 DEF EventsOf
  <2>5. now.events = m.events /\ D.outbox = {}
    BY <1>2, <1>8 DEF Queues
  <2>6. now.events = D.events \ lost
    BY <1>4, <2>5
  <2>7. MayFollow(now.events, i) /\ e = Append(Tip(now.events), i)
    BY <2>3, <2>5
  <2> HIDE DEF e, lost
  <2> QED
    BY <1>0, <1>1, <2>3, <2>4, <2>5, <2>6, <2>7, SignStep
<1>9. CASE Settles(d, m, t, call, relay)
  <2>1. PICK p \in relay : now.events = m.events \cup {p.event} /\ now.outbox = D.outbox \ {p}
    BY <1>2, <1>9 DEF Settles
  <2>2. CASE p \notin D.outbox
    <3>1. now.outbox = D.outbox
      BY <2>1, <2>2
    <3> QED
      BY <1>6, <3>1
  <2>3. CASE p \in D.outbox
    <3>1. \A q \in D.outbox : q = p
      BY <1>0, <2>3 DEF Sound, Holds
    <3>2. EventsOf(D.outbox) = {p.event} /\ EventsOf(now.outbox) = {}
      BY <2>1, <2>3, <3>1 DEF EventsOf
    <3>3. PICK e : e = p.event
      OBVIOUS
    <3>4. e \in EventsOf(D.outbox) /\ e \in EventsOf(relay)
      BY <3>2, <3>3 DEF EventsOf
    <3>5. EventsOf(now.outbox) = EventsOf(D.outbox) \ {e}
      BY <3>2, <3>3
    <3>6. now.events = (D.events \ lost) \cup {e}
      BY <1>4, <2>1, <3>3
    <3> HIDE DEF lost
    <3> QED
      BY <1>0, <1>1, <3>4, <3>5, <3>6, SettledStep
  <2> QED
    BY <2>2, <2>3
<1> QED
  BY <1>2, <1>7, <1>8, <1>9
\* What arrives at the relay is a Publish, or was published before.
LEMMA ArriveImplements ==
  ASSUME Basic, NEW d \in Device, FineOf(d), NEW c \in Caller, Arrive(d, c)
  PROVE  [History!HistoryNext]_(History!historyVars)
<1>1. PICK p \in Pendings, stage \in {"sent", "failed"} :
        /\ relay' = relay \cup {p} /\ disk' = disk
        /\ p \in disk[d].outbox \/ p.event \in EventsOf(relay)
  BY Arrived
<1>2. EventsOf(relay') = EventsOf(relay) \cup {p.event}
  BY <1>1, EventsMore
<1>3. CASE p.event \in EventsOf(relay)
  <2>1. EventsOf(relay') = EventsOf(relay)
    BY <1>2, <1>3
  <2> QED
    BY <1>1, <2>1 DEF History!historyVars, EventsOf
<1>4. CASE p \in disk[d].outbox
  <2>1. PICK e : e = p.event
    OBVIOUS
  <2>2. e \in EventsOf(disk[d].outbox)
    BY <1>4, <2>1 DEF EventsOf
  <2>3. OutBar[d] = EventsOf(disk[d].outbox) /\ OutBar' = OutBar /\ SavedBar' = SavedBar
    BY <1>1 DEF OutBar, SavedBar
  <2>4. e \in OutBar[d] /\ EventsOf(relay') = EventsOf(relay) \cup {e}
    BY <1>2, <2>1, <2>2, <2>3
  <2>5. History!Publish(d, e)
    BY <2>3, <2>4 DEF History!Publish, OutBar, SavedBar, EventsOf
  <2> QED
    BY <2>4, <2>5 DEF History!HistoryNext, OutBar, EventsOf
<1> QED
  BY <1>1, <1>3, <1>4

\* A step of a device that is early leaves the storage of the others alone, and
\* publishes what is its own.
LEMMA EarlyStep ==
  ASSUME Basic, NEW d \in Device, Acts(d), d \in early'
  PROVE  Forgets
<1>1. Alone(d)
  BY ActBasic
<1>2. \A p \in relay' \ relay : Last(p.event).by = d
  <2>1. CASE \E c \in Caller : Arrive(d, c)
    BY <2>1, Arrived DEF Own
  <2>2. CASE Quiet(d) \/ Written(d) \/ WriteFails(d) \/ Crash(d) \/ LoadFails(d)
    BY <2>2, QuietKeeps DEF Written, WriteFails, Crash, LoadFails
  <2> QED
    BY <2>1, <2>2 DEF Acts
<1> QED
  BY <1>1, <1>2 DEF Forgets, Alone, SameLog

\* Every step of the log is a step of the history, or none, but for the early devices.
LEMMA StepImplements ==
  IInv /\ [LogNext]_logVars => [History!HistoryNext \/ Forgets]_(History!historyVars)
<1> SUFFICES ASSUME IInv, [LogNext]_logVars
             PROVE  [History!HistoryNext \/ Forgets]_(History!historyVars)
  OBVIOUS
<1>1. CASE UNCHANGED logVars
  BY <1>1, NothingKept DEF logVars
<1>2. CASE LogNext
  <2>1. PICK d \in Device : Acts(d)
    BY <1>2, StepKinds
  <2>2. Basic /\ Typed /\ Alone(d)
    BY <2>1, ActBasic DEF IInv, Basic
  <2>3. CASE d \in early'
    BY <2>1, <2>2, <2>3, EarlyStep
  <2>4. CASE d \notin early'
    <3>1. FineOf(d)
      BY <2>2, <2>4, NotEarly DEF Alone
    <3>2. CASE \E c \in Caller : Arrive(d, c)
      BY <2>2, <3>1, <3>2, ArriveImplements
    <3>3. CASE relay' = relay
      <4>1. CASE disk' = disk
        BY <3>3, <4>1, NothingKept
      <4>2. CASE disk' # disk
        <5>1. task[d] # NoTask /\ Put(disk, disk', d, task[d].next)
          BY <2>1, <2>2, <4>2, DiskStep
        <5> QED
          BY <2>2, <3>1, <3>3, <5>1, WriteImplements
      <4> QED
        BY <4>1, <4>2
    <3>4. CASE Quiet(d) \/ Written(d) \/ WriteFails(d) \/ Crash(d) \/ LoadFails(d)
      <4>1. relay' = relay
        BY <3>4, QuietKeeps DEF Written, WriteFails, Crash, LoadFails
      <4> QED
        BY <3>3, <4>1
    <3> QED
      BY <2>1, <3>2, <3>4 DEF Acts
  <2> QED
    BY <2>3, <2>4
<1> QED
  BY <1>1, <1>2

\* The log starts as the history does.
LEMMA InitImplements == LogInit => History!HistoryInit
<1> SUFFICES ASSUME LogInit PROVE History!HistoryInit
  OBVIOUS
<1>1. /\ \A d \in Device : disk[d] = EmptyStore
      /\ relay = {}
  BY DEF LogInit
<1>2. EmptyStore.events = {} /\ EmptyStore.outbox = {}
  BY DEF EmptyStore, Store
<1>3. SavedBar = [d \in Device |-> {}] /\ OutBar = [d \in Device |-> {}] /\ EventsOf(relay) = {}
  BY <1>1, <1>2 DEF SavedBar, OutBar, EventsOf
<1> QED
  BY <1>3 DEF History!HistoryInit, SavedBar, OutBar, EventsOf

\* The log is the durable history and outbox of AssignmentHistory: failed and ambiguous
\* writes, lost answers, renewed subscriptions and crashes do not show in it.  What a
\* device does that wrote before it had loaded touches nothing of the other devices.
THEOREM Implements == LogSpec => ImplementsHistory
BY InitImplements, StepImplements, Invariance, PTL DEF LogSpec, ImplementsHistory

\* No device publishes two operations on one version, whatever it retried, unless it
\* wrote before it had loaded: submit() signs on a history that has all it published,
\* and only while its outbox is empty.
THEOREM OneVersionOfEach == LogSpec => []OneVersion
<1>1. IInv => OneVersion
  BY DEF IInv, Single, EventsOf, OneVersion
<1> QED
  BY <1>1, Invariance, PTL

-----------------------------------------------------------------------------
(* How far a projection gets                                               *)

\* The first k operations of s.
Till(s, k) == SubSeq(s, 1, k)

\* Each operation of e is what those before it permit.
Lawful(e) == e \in Events /\ \E g : IsTold(g, e)

\* Up to s, the history K has one way to go on.
Traced(K, s) ==
  \A k \in 0 .. Len(s) - 1 :
    \E p : Told(p) /\ p.path = Till(s, k) /\ Candidates(K, p) = {Till(s, k + 1)}

\* A beginning of s.
LEMMA TillSeq ==
  ASSUME NEW s \in Events, NEW k \in 0 .. Len(s)
  PROVE  /\ Till(s, k) \in Events /\ Len(Till(s, k)) = k
         /\ \A n \in 1 .. k : Till(s, k)[n] = s[n]
<1>1. s \in Seq(Item) /\ k \in Nat /\ k <= Len(s)
  BY DEF Events
<1>2. SubSeq(s, 1, k) \in Seq(Item) /\ Len(SubSeq(s, 1, k)) = k
  BY <1>1
<1>3. \A n \in 1 .. k : SubSeq(s, 1, k)[n] = s[n]
  BY <1>1
<1> QED
  BY <1>2, <1>3 DEF Till, Events

\* The whole of s is a beginning of it.
LEMMA TillEnd ==
  ASSUME NEW s \in Events
  PROVE  Till(s, Len(s)) = s /\ Len(s) \in Nat
<1>1. Len(s) \in Nat /\ Len(s) \in 0 .. Len(s) /\ s \in Seq(Item)
  BY DEF Events
<1>2. Till(s, Len(s)) \in Seq(Item) /\ Len(Till(s, Len(s))) = Len(s)
      /\ \A n \in 1 .. Len(s) : Till(s, Len(s))[n] = s[n]
  BY <1>1, TillSeq DEF Events
<1> QED
  BY <1>1, <1>2, SeqEqual

\* Two events that agree up to k begin alike.
LEMMA TillAlike ==
  ASSUME NEW s \in Events, NEW e \in Events, NEW k \in 0 .. Len(s), k <= Len(e),
         \A n \in 1 .. k : s[n] = e[n]
  PROVE  Till(s, k) = Till(e, k)
<1>1. k \in 0 .. Len(e)
  BY DEF Events
<1>2. /\ Till(s, k) \in Seq(Item) /\ Len(Till(s, k)) = k
      /\ Till(e, k) \in Seq(Item) /\ Len(Till(e, k)) = k
      /\ \A n \in 1 .. k : Till(s, k)[n] = Till(e, k)[n]
  BY <1>1, TillSeq DEF Events
<1> QED
  BY <1>2, SeqEqual

\* What is told of an event is told of its beginning.
LEMMA StoryTill ==
  ASSUME NEW s \in Events, NEW k \in 0 .. Len(s), NEW g, IsTold(g, s)
  PROVE  IsTold(g, Till(s, k))
<1>1. Len(Till(s, k)) = k /\ \A n \in 1 .. k : Till(s, k)[n] = s[n]
  BY TillSeq
<1>2. \A n \in 1 .. k : n \in 1 .. Len(s)
  BY DEF Events
<1> QED
  BY <1>1, <1>2 DEF IsTold

\* The front of an event that is not the first.
LEMMA FrontTill ==
  ASSUME NEW e \in Events, e # <<>>
  PROVE  /\ Len(e) \in Nat /\ Len(e) # 0 /\ Len(e) - 1 \in 0 .. Len(e)
         /\ Front(e) = Till(e, Len(e) - 1)
         /\ Front(e) \in Events /\ Len(Front(e)) = Len(e) - 1
         /\ \A n \in 1 .. Len(e) - 1 : Front(e)[n] = e[n]
<1>1. e \in Seq(Item)
  BY DEF Events
<1>2. Len(e) \in Nat /\ Len(e) # 0 /\ Len(e) - 1 \in 0 .. Len(e)
  BY <1>1
<1>3. Front(e) = Till(e, Len(e) - 1)
  BY DEF Front, Till
<1> QED
  BY <1>2, <1>3, TillSeq

\* A lawful event that follows where a projection stands is a candidate there.
LEMMA CandidateIf ==
  ASSUME NEW K \in Histories, NEW p, Told(p), NEW e \in K, Lawful(e), e # <<>>,
         Front(e) = p.path
  PROVE  e \in Candidates(K, p)
<1>1. PICK g : IsTold(g, e)
  BY DEF Lawful
<1>2. PICK h : IsTold(h, p.path) /\ p.stage = h[Len(p.path)]
  BY DEF Told
<1>3. e \in Events /\ p.path \in Events
  BY DEF Lawful, Told
<1>4. /\ Len(e) \in Nat /\ Len(e) # 0 /\ Len(e) - 1 \in 0 .. Len(e)
      /\ p.path = Till(e, Len(e) - 1) /\ Len(p.path) = Len(e) - 1
  BY <1>3, FrontTill
<1>5. IsTold(g, p.path)
  BY <1>1, <1>3, <1>4, StoryTill
<1>6. p.stage = g[Len(p.path)]
  BY <1>2, <1>3, <1>5, ToldOnce
<1>7. Len(e) \in 1 .. Len(e)
  BY <1>4
<1>8. Permitted(g[Len(e) - 1], e[Len(e)])
  BY <1>1, <1>7 DEF IsTold
<1>9. Permitted(p.stage, Last(e))
  BY <1>4, <1>6, <1>8 DEF Last
<1>10. Len(e) = Len(p.path) + 1
  BY <1>4
<1> QED
  BY <1>9, <1>10 DEF Candidates

\* There is just one candidate when there is one.
LEMMA SoleCandidate ==
  ASSUME NEW K \in Histories, NEW p, Cardinality(Candidates(K, p)) = 1
  PROVE  \E e \in Candidates(K, p) : Candidates(K, p) = {e} /\ Advance(K, p).path = e
<1>1. Candidates(K, p) \subseteq K /\ IsFiniteSet(K)
  BY DEF Candidates, Histories
<1>2. IsFiniteSet(Candidates(K, p))
  BY <1>1, FS_Subset
<1>3. PICK x : Candidates(K, p) = {x}
  BY <1>2, FS_Singleton
<1>4. (CHOOSE e \in Candidates(K, p) : TRUE) = x
  BY <1>3
<1>5. Advance(K, p).path = x
  BY <1>4 DEF Advance
<1> QED
  BY <1>3, <1>5

\* A step of the projection takes the one way there is.
LEMMA AdvanceTraced ==
  ASSUME NEW K \in Histories, NEW p, Told(p), Traced(K, p.path)
  PROVE  Traced(K, Advance(K, p).path)
<1>1. CASE Cardinality(Candidates(K, p)) # 1
  BY <1>1 DEF Advance
<1>2. CASE Cardinality(Candidates(K, p)) = 1
  <2>1. PICK e \in Candidates(K, p) : Candidates(K, p) = {e} /\ Advance(K, p).path = e
    BY <1>2, SoleCandidate
  <2>2. /\ e \in Events /\ Len(e) = Len(p.path) + 1 /\ Len(p.path) \in Nat
        /\ \A n \in 1 .. Len(p.path) : e[n] = p.path[n]
    BY CandidateEnds
  <2> DEFINE s == p.path
  <2>3. s \in Events
    BY DEF Told
  <2>4. ASSUME NEW k \in 0 .. Len(s) PROVE Till(e, k) = Till(s, k)
    <3>1. k \in 0 .. Len(e) /\ k <= Len(s) /\ \A n \in 1 .. k : e[n] = s[n]
      BY <2>2
    <3> HIDE DEF s
    <3> QED
      BY <2>2, <2>3, <3>1, TillAlike
  <2>5. ASSUME NEW k \in 0 .. Len(e) - 1
        PROVE  \E q : Told(q) /\ q.path = Till(e, k) /\ Candidates(K, q) = {Till(e, k + 1)}
    <3>1. CASE k = Len(s)
      <4>1. p.path = Till(e, k)
        BY <2>2, <2>3, <2>4, <3>1, TillEnd
      <4>2. Till(e, k + 1) = e
        BY <2>2, <3>1, TillEnd
      <4> QED
        BY <2>1, <4>1, <4>2
    <3>2. CASE k # Len(s)
      <4>1. k \in 0 .. Len(s) - 1 /\ k \in 0 .. Len(s) /\ k + 1 \in 0 .. Len(s)
        BY <2>2, <3>2
      <4>2. PICK q : Told(q) /\ q.path = Till(s, k) /\ Candidates(K, q) = {Till(s, k + 1)}
        BY <4>1 DEF Traced
      <4> QED
        BY <2>4, <4>1, <4>2
    <3> QED
      BY <3>1, <3>2
  <2> QED
    BY <2>1, <2>5 DEF Traced
<1> QED
  BY <1>1, <1>2

\* Where a projection is after n steps: it has taken as many, or stopped.
Goes(K, p, n) ==
  /\ Told(p) /\ Traced(K, p.path)
  /\ Len(p.path) = n \/ Cardinality(Candidates(K, p)) # 1

\* A step more.
LEMMA GoesOn ==
  ASSUME NEW K \in Histories, NEW p, NEW n \in Nat, Goes(K, p, n)
  PROVE  Goes(K, Advance(K, p), n + 1)
<1>1. Told(Advance(K, p)) /\ Traced(K, Advance(K, p).path)
  BY AdvanceTold, AdvanceTraced DEF Goes
<1>2. CASE Cardinality(Candidates(K, p)) # 1
  <2>1. Advance(K, p) = p
    BY <1>2 DEF Advance
  <2> QED
    BY <1>1, <1>2, <2>1 DEF Goes
<1>3. CASE Cardinality(Candidates(K, p)) = 1
  <2>1. Len(p.path) = n /\ Told(p)
    BY <1>3 DEF Goes
  <2>2. PICK e \in Candidates(K, p) : Candidates(K, p) = {e} /\ Advance(K, p).path = e
    BY <1>3, SoleCandidate
  <2>3. Len(e) = n + 1
    BY <2>1, CandidateEnds
  <2> QED
    BY <1>1, <2>2, <2>3 DEF Goes
<1> QED
  BY <1>2, <1>3

\* So far a projection of K gets.
LEMMA ProjectionGoes ==
  ASSUME NEW K \in Histories
  PROVE  Cardinality(K) \in Nat /\ Goes(K, Projection(K), Cardinality(K))
<1>1. Cardinality(K) \in Nat
  BY FS_CardinalityType DEF Histories
<1>2. PICK f : Walk(K, Cardinality(K), f) /\ Projection(K) = f[Cardinality(K)]
  BY <1>1, ProjectionIsAWalk
<1> DEFINE m == Cardinality(K)
           T == {n \in Nat : n <= m => Goes(K, f[n], n)}
<1>3. \A n \in 0 .. m : f[n] = IF n = 0 THEN Start0 ELSE Advance(K, f[n - 1])
  <2>1. f = [n \in 0 .. m |-> IF n = 0 THEN Start0 ELSE Advance(K, f[n - 1])]
    BY <1>2 DEF Walk
  <2> QED
    BY <2>1
<1>4. m \in Nat
  BY <1>1
<1> HIDE DEF m
<1>5. 0 \in T
  <2>1. Start0.path = <<>> /\ Len(<<>>) = 0
    BY DEF Start0
  <2>2. Traced(K, Start0.path)
    BY <2>1 DEF Traced
  <2>3. Goes(K, Start0, 0)
    BY <2>1, <2>2, StartTold DEF Goes
  <2> QED
    BY <1>3, <1>4, <2>3
<1>6. ASSUME NEW n \in Nat, n \in T PROVE n + 1 \in T
  <2> SUFFICES ASSUME n + 1 <= m PROVE Goes(K, f[n + 1], n + 1)
    OBVIOUS
  <2>1. n <= m /\ n + 1 \in 0 .. m /\ n + 1 # 0 /\ (n + 1) - 1 = n
    BY <1>4
  <2>2. Goes(K, f[n], n)
    BY <1>6, <2>1
  <2>3. f[n + 1] = Advance(K, f[n])
    BY <1>3, <2>1
  <2> QED
    BY <2>2, <2>3, GoesOn
<1> HIDE DEF T
<1>7. Nat \subseteq T
  BY <1>5, <1>6, Inductive
<1> QED
  BY <1>1, <1>2, <1>4, <1>7 DEF T, m

\* What is traced is in the history.
LEMMA TracedIsThere ==
  ASSUME NEW K \in Histories, NEW s \in Events, Traced(K, s), NEW k \in 1 .. Len(s)
  PROVE  Till(s, k) \in K
<1>1. k - 1 \in 0 .. Len(s) - 1 /\ (k - 1) + 1 = k
  BY DEF Events
<1>2. PICK p : Candidates(K, p) = {Till(s, (k - 1) + 1)}
  BY <1>1 DEF Traced
<1> QED
  BY <1>1, <1>2 DEF Candidates

\* The head of a history is one of its events, or there is none.
LEMMA TipThere ==
  ASSUME NEW K \in Histories
  PROVE  Tip(K) \in K \cup {<<>>}
<1> DEFINE s == Tip(K)
<1>1. s \in Events /\ Traced(K, s)
  BY ProjectionGoes, TipType DEF Goes, Tip
<1> HIDE DEF s
<1>2. ASSUME Len(s) = 0 PROVE s = <<>>
  BY <1>1, <1>2, EmptySeq DEF Events
<1>3. ASSUME Len(s) # 0 PROVE s \in K
  <2>1. Len(s) \in 1 .. Len(s)
    BY <1>1, <1>3 DEF Events
  <2> QED
    BY <1>1, <2>1, TillEnd, TracedIsThere
<1>4. s \in K \cup {<<>>}
  BY <1>2, <1>3
<1> QED
  BY <1>4 DEF s

\* A projection goes on while there is just one candidate.
LEMMA ProjectionStops ==
  ASSUME NEW K \in Histories
  PROVE  Cardinality(Candidates(K, Projection(K))) # 1
<1> DEFINE p == Projection(K)
           s == p.path
           m == Cardinality(K)
<1> SUFFICES ASSUME Cardinality(Candidates(K, p)) = 1 PROVE FALSE
  OBVIOUS
<1>1. m \in Nat /\ Told(p) /\ Traced(K, s) /\ Len(s) = m
  BY ProjectionGoes DEF Goes
<1>2. PICK c \in Candidates(K, p) : Candidates(K, p) = {c}
  BY SoleCandidate
<1> HIDE DEF p
<1>3. c \in K /\ c \in Events /\ Len(c) = Len(s) + 1
  BY <1>1, CandidateEnds
<1>4. s \in Events /\ IsFiniteSet(K)
  BY <1>1 DEF Told, Histories
<1> HIDE DEF s, m
<1> DEFINE f == [j \in 1 .. m + 1 |-> IF j = m + 1 THEN c ELSE Till(s, j)]
<1>5. \A j \in 1 .. m + 1 : f[j] \in K /\ Len(f[j]) = j
  <2> TAKE j \in 1 .. m + 1
  <2>1. CASE j = m + 1
    BY <1>1, <1>3, <2>1
  <2>2. CASE j # m + 1
    <3>1. j \in 1 .. Len(s) /\ j \in 0 .. Len(s)
      BY <1>1, <2>2
    <3>2. f[j] = Till(s, j)
      BY <2>2
    <3> QED
      BY <1>1, <1>4, <3>1, <3>2, TillSeq, TracedIsThere
  <2> QED
    BY <2>1, <2>2
<1>6. f \in Injection(1 .. m + 1, K)
  <2>1. f \in [1 .. m + 1 -> K]
    BY <1>5
  <2>2. \A i, j \in 1 .. m + 1 : f[i] = f[j] => i = j
    BY <1>5
  <2> HIDE DEF f
  <2> QED
    BY <2>1, <2>2 DEF Injection, IsInjective
<1> HIDE DEF f
<1>7. Cardinality(1 .. m + 1) <= Cardinality(K)
  BY <1>4, <1>6, FS_Injection
<1>8. Cardinality(1 .. m + 1) = m + 1
  BY <1>1, FS_Interval
<1> QED
  BY <1>1, <1>7, <1>8 DEF m

\* A lawful event that follows the head, or what lies before it, is on the path: the
\* history was not halted.
LEMMA Reached ==
  ASSUME NEW K \in Histories, ~Conflicted(K), NEW e \in K, Lawful(e), e # <<>>,
         NEW k \in 0 .. Len(Tip(K)), Front(e) = Till(Tip(K), k)
  PROVE  k < Len(Tip(K)) /\ e = Till(Tip(K), k + 1)
<1> DEFINE p == Projection(K)
           s == Tip(K)
<1>1. Told(p) /\ Traced(K, s) /\ s = p.path /\ s \in Events
  BY ProjectionGoes, TipType DEF Goes, Tip
<1>2. Cardinality(Candidates(K, p)) # 1 /\ ~(Cardinality(Candidates(K, p)) > 1)
  BY ProjectionStops DEF Conflicted, Halted
<1>3. Candidates(K, p) = {}
  <2>1. Candidates(K, p) \subseteq K /\ IsFiniteSet(K)
    BY DEF Candidates, Histories
  <2>2. IsFiniteSet(Candidates(K, p))
    BY <2>1, FS_Subset
  <2>3. Cardinality(Candidates(K, p)) \in Nat
    BY <2>2, FS_CardinalityType
  <2> HIDE DEF p
  <2>4. Cardinality(Candidates(K, p)) = 0
    BY <1>2, <2>3
  <2> QED
    BY <2>2, <2>4, FS_EmptySet
<1>4. ASSUME k = Len(s) PROVE FALSE
  <2>1. Front(e) = p.path
    BY <1>1, <1>4, TillEnd
  <2> HIDE DEF p, s
  <2> QED
    BY <1>1, <1>3, <2>1, CandidateIf
<1> HIDE DEF s
<1>5. k \in 0 .. Len(s) - 1 /\ k < Len(s)
  <2>1. Len(s) \in Nat /\ k \in 0 .. Len(s) /\ k # Len(s)
    BY <1>1, <1>4 DEF s, Events
  <2> QED
    BY <2>1
<1>6. PICK q : Told(q) /\ q.path = Till(s, k) /\ Candidates(K, q) = {Till(s, k + 1)}
  BY <1>1, <1>5 DEF Traced
<1>7. e \in Candidates(K, q)
  BY <1>6, CandidateIf DEF s
<1>8. e = Till(s, k + 1)
  BY <1>6, <1>7
<1> QED
  BY <1>5, <1>8 DEF s

\* Without a conflict, the events of a history that has no gaps are one path.
LEMMA OnePath ==
  ASSUME NEW K \in Histories, ~Conflicted(K),
         \A e \in K : e # <<>> /\ Lawful(e) /\ Front(e) \in K \cup {<<>>}
  PROVE  \A e \in K : Len(e) <= Len(Tip(K)) /\ e = Till(Tip(K), Len(e))
<1> DEFINE s == Tip(K)
           T == {n \in Nat : \A e \in K : Len(e) = n => n <= Len(s) /\ e = Till(s, n)}
<1>1. s \in Events /\ Len(s) \in Nat
  BY TipType DEF Events
<1>2. 0 \in T
  <2>1. \A e \in K : Len(e) # 0
    BY FrontTill DEF Lawful
  <2> QED
    BY <2>1
<1>3. ASSUME NEW n \in Nat, n \in T PROVE n + 1 \in T
  <2> SUFFICES ASSUME NEW e \in K, Len(e) = n + 1 PROVE n + 1 <= Len(s) /\ e = Till(s, n + 1)
    OBVIOUS
  <2>1. e # <<>> /\ Lawful(e) /\ Front(e) \in K \cup {<<>>} /\ e \in Events
    BY DEF Lawful
  <2>2. Len(Front(e)) = n /\ Front(e) \in Events
    BY <2>1, FrontTill
  <2>3. n <= Len(s) /\ Front(e) = Till(s, n)
    <3>1. CASE Front(e) \in K
      BY <1>3, <2>2, <3>1
    <3>2. CASE Front(e) = <<>>
      <4>1. n = 0 /\ n \in 0 .. Len(s)
        BY <1>1, <2>2, <3>2
      <4>2. Till(s, n) \in Seq(Item) /\ Len(Till(s, n)) = 0
        BY <1>1, <4>1, TillSeq DEF Events
      <4>3. Till(s, n) = <<>>
        BY <4>2, EmptySeq
      <4> QED
        BY <1>1, <3>2, <4>1, <4>3
    <3> QED
      BY <2>1, <3>1, <3>2
  <2>4. n \in 0 .. Len(s)
    BY <1>1, <2>3
  <2>5. n < Len(s) /\ e = Till(s, n + 1)
    BY <2>1, <2>3, <2>4, Reached
  <2> QED
    BY <1>1, <2>5
<1> HIDE DEF T
<1>4. Nat \subseteq T
  BY <1>2, <1>3, Inductive
<1>5. ASSUME NEW e \in K PROVE Len(e) <= Len(s) /\ e = Till(s, Len(e))
  <2>1. Len(e) \in Nat
    BY DEF Lawful, Events
  <2> QED
    BY <1>4, <2>1 DEF T
<1> QED
  BY <1>5

-----------------------------------------------------------------------------
(* What happens along a path                                               *)

Busy == {"running", "blocked", "stopping", "cancelling"}
Finished == {"review", "accepted", "stopped", "cancelled"}
Stages == [status : {"none", "offered"} \cup Busy \cup Finished, owner : Device \cup {Nobody},
           executor : Executor \cup {Nobody}, attempt : Nat]
Endings == {"result", "release"}

\* What one operation changes.
LEMMA AfterOne ==
  ASSUME NEW s \in Stages, NEW i \in Item, Permitted(s, i)
  PROVE  LET t == After(s, i)
         IN /\ t \in Stages
            /\ t.executor \in {s.executor, Nobody} \/ (i.op = "claim" /\ t.executor = i.who)
            /\ s.status \in Busy => i.op \in Endings \/ (t.status \in Busy /\ t.executor = s.executor)
            /\ s.status \in Finished =>
                 t.executor = Nobody \/ (t.status \in Finished /\ t.executor = s.executor)
            /\ i.op \in Endings => /\ i.who = s.executor /\ i.by = s.owner
                                   /\ t.executor = s.executor /\ t.status \in Finished
            /\ i.op = "claim" => /\ s.status = "offered" /\ t.status = "running"
                                 /\ t.executor = i.who
<1> DEFINE t == After(s, i)
<1> USE DEF Stages, Busy, Finished, Endings
<1>1. CASE i.op = "create"
  <2>1. t = [status |-> "offered", owner |-> i.who, executor |-> Nobody, attempt |-> 1]
    BY <1>1 DEF After
  <2>2. i.who \in Device /\ s.status = "none"
    BY <1>1 DEF Item, Permitted
  <2> QED
    BY <1>1, <2>1, <2>2
<1>2. CASE i.op = "claim"
  <2>1. t = [s EXCEPT !.status = "running", !.executor = i.who] /\ i.who \in Executor
    BY <1>2 DEF After, Item
  <2>2. s.status = "offered"
    BY <1>2 DEF Permitted
  <2> QED
    BY <1>2, <2>1, <2>2
<1>3. CASE i.op = "progress"
  <2>1. t = s /\ s.status = "running"
    BY <1>3 DEF After, Permitted
  <2> QED
    BY <1>3, <2>1
<1>4. CASE i.op = "block"
  <2>1. t = [s EXCEPT !.status = "blocked"] /\ s.status = "running"
    BY <1>4 DEF After, Permitted
  <2> QED
    BY <1>4, <2>1
<1>5. CASE i.op = "answer"
  <2>1. t = [s EXCEPT !.status = "running"] /\ s.status = "blocked"
    BY <1>5 DEF After, Permitted
  <2> QED
    BY <1>5, <2>1
<1>6. CASE i.op = "result"
  <2>1. t = [s EXCEPT !.status = "review"] /\ i.who = s.executor /\ i.by = s.owner /\ s.status = "running"
    BY <1>6 DEF After, Permitted
  <2> QED
    BY <1>6, <2>1
<1>7. CASE i.op = "accept"
  <2>1. t = [s EXCEPT !.status = "accepted"] /\ s.status = "review"
    BY <1>7 DEF After, Permitted
  <2> QED
    BY <1>7, <2>1
<1>8. CASE i.op = "reject"
  <2>1. /\ t = [s EXCEPT !.status = "offered", !.attempt = s.attempt + 1, !.executor = Nobody]
        /\ s.status = "review"
    BY <1>8 DEF After, Permitted
  <2> DEFINE u == [s EXCEPT !.status = "offered"]
             v == [u EXCEPT !.attempt = s.attempt + 1]
  <2>2. u \in Stages /\ u.attempt = s.attempt /\ s.attempt + 1 \in Nat
    OBVIOUS
  <2>3. u.status = "offered"
    OBVIOUS
  <2> HIDE DEF u
  <2>4. v \in Stages /\ v.status = "offered"
    BY <2>2, <2>3
  <2>5. t = [v EXCEPT !.executor = Nobody]
    BY <2>1 DEF u
  <2> HIDE DEF v
  <2>6. t \in Stages /\ t.executor = Nobody
    BY <2>4, <2>5
  <2> QED
    BY <1>8, <2>1, <2>6
<1>9. CASE i.op = "cancel"
  <2>1. /\ t = [s EXCEPT !.status = IF s.status \in {"offered", "review"} THEN "cancelled"
                                    ELSE "cancelling"]
        /\ s.status \in {"offered", "running", "blocked", "review"}
    BY <1>9 DEF After, Permitted
  <2> QED
    BY <1>9, <2>1
<1>10. CASE i.op = "handoff"
  <2>1. /\ t = [s EXCEPT !.status = IF s.status \in {"offered", "review"} THEN "stopped"
                                    ELSE "stopping"]
        /\ s.status \in {"offered", "running", "blocked", "review"}
    BY <1>10 DEF After, Permitted
  <2> QED
    BY <1>10, <2>1
<1>11. CASE i.op = "release"
  <2>1. /\ t = [s EXCEPT !.status = IF s.status = "cancelling" THEN "cancelled" ELSE "stopped"]
        /\ i.who = s.executor /\ i.by = s.owner /\ s.status \in {"stopping", "cancelling"}
    BY <1>11 DEF After, Permitted
  <2> QED
    BY <1>11, <2>1
<1>12. CASE i.op = "assign"
  <2>1. /\ t = [s EXCEPT !.status = "offered", !.owner = i.who, !.attempt = s.attempt + 1,
                         !.executor = Nobody]
        /\ s.status = "stopped" /\ i.who \in Device
    BY <1>12 DEF After, Permitted, Item
  <2> DEFINE u == [s EXCEPT !.status = "offered"]
             v == [u EXCEPT !.owner = i.who]
             w == [v EXCEPT !.attempt = s.attempt + 1]
  <2>2. u \in Stages /\ s.attempt + 1 \in Nat
    OBVIOUS
  <2> HIDE DEF u
  <2>3. v \in Stages
    BY <2>1, <2>2
  <2> HIDE DEF v
  <2>4. w \in Stages
    BY <2>2, <2>3
  <2>5. t = [w EXCEPT !.executor = Nobody]
    BY <2>1 DEF u, v
  <2> HIDE DEF w
  <2>6. t \in Stages /\ t.executor = Nobody
    BY <2>4, <2>5
  <2> QED
    BY <1>12, <2>1, <2>6
<1>13. i.op \in {"create", "claim", "progress", "block", "answer", "result", "accept", "reject",
                 "cancel", "handoff", "release", "assign"}
  BY DEF Item
<1> QED
  BY <1>1, <1>2, <1>3, <1>4, <1>5, <1>6, <1>7, <1>8, <1>9, <1>10, <1>11, <1>12, <1>13

\* The operations of an event are operations.
LEMMA StoryItem ==
  ASSUME NEW s \in Events, NEW n \in 1 .. Len(s)
  PROVE  s[n] \in Item /\ n - 1 \in 0 .. Len(s) /\ n \in Nat
BY DEF Events

\* An assignment is in one of its stages all along.
LEMMA StoryStages ==
  ASSUME NEW s \in Events, NEW g, IsTold(g, s), NEW n \in 0 .. Len(s)
  PROVE  g[n] \in Stages
<1> DEFINE T == {k \in Nat : k <= Len(s) => g[k] \in Stages}
<1>1. 0 \in T
  BY DEF IsTold, Unborn, Stages
<1>2. ASSUME NEW k \in Nat, k \in T PROVE k + 1 \in T
  <2> SUFFICES ASSUME k + 1 <= Len(s) PROVE g[k + 1] \in Stages
    OBVIOUS
  <2>1. Len(s) \in Nat /\ k <= Len(s) /\ k + 1 \in 1 .. Len(s) /\ (k + 1) - 1 = k
    BY DEF Events
  <2>2. Permitted(g[k], s[k + 1]) /\ g[k + 1] = After(g[k], s[k + 1])
    BY <2>1 DEF IsTold
  <2>3. g[k] \in Stages /\ s[k + 1] \in Item
    BY <1>2, <2>1, StoryItem
  <2> QED
    BY <2>2, <2>3, AfterOne
<1> HIDE DEF T
<1>3. Nat \subseteq T
  BY <1>1, <1>2, Inductive
<1>4. n \in Nat /\ n <= Len(s)
  BY DEF Events
<1> QED
  BY <1>3, <1>4 DEF T

\* One step of a story.
LEMMA StoryOne ==
  ASSUME NEW s \in Events, NEW g, IsTold(g, s), NEW k \in Nat, k + 1 <= Len(s)
  PROVE  /\ Len(s) \in Nat /\ k + 1 \in 1 .. Len(s)
         /\ g[k] \in Stages /\ s[k + 1] \in Item
         /\ Permitted(g[k], s[k + 1]) /\ g[k + 1] = After(g[k], s[k + 1])
<1>1. Len(s) \in Nat /\ k \in 0 .. Len(s) /\ k + 1 \in 1 .. Len(s) /\ (k + 1) - 1 = k
  BY DEF Events
<1>2. Permitted(g[k], s[k + 1]) /\ g[k + 1] = After(g[k], s[k + 1])
  BY <1>1 DEF IsTold
<1> QED
  BY <1>1, <1>2, StoryItem, StoryStages

\* Between m and n, X claims.
ClaimsIn(s, X, m, n) == \E k \in m + 1 .. n : s[k].op = "claim" /\ s[k].who = X

\* Between m and n, X says that it has ended.
EndsIn(s, X, m, n) == \E k \in m + 1 .. n : s[k].op \in Endings /\ s[k].who = X

\* Who executes has claimed.
LEMMA StoryClaimed ==
  ASSUME NEW s \in Events, NEW g, IsTold(g, s), NEW n \in 0 .. Len(s), g[n].executor # Nobody
  PROVE  ClaimsIn(s, g[n].executor, 0, n)
<1> DEFINE T == {k \in Nat : k <= Len(s) /\ g[k].executor # Nobody =>
                               ClaimsIn(s, g[k].executor, 0, k)}
<1>1. 0 \in T
  BY DEF IsTold, Unborn
<1>2. ASSUME NEW k \in Nat, k \in T PROVE k + 1 \in T
  <2> SUFFICES ASSUME k + 1 <= Len(s), g[k + 1].executor # Nobody
               PROVE  ClaimsIn(s, g[k + 1].executor, 0, k + 1)
    OBVIOUS
  <2>1. /\ Len(s) \in Nat /\ k + 1 \in 1 .. Len(s)
        /\ g[k] \in Stages /\ s[k + 1] \in Item
        /\ Permitted(g[k], s[k + 1]) /\ g[k + 1] = After(g[k], s[k + 1])
    BY StoryOne
  <2>2. \/ g[k + 1].executor \in {g[k].executor, Nobody}
        \/ s[k + 1].op = "claim" /\ g[k + 1].executor = s[k + 1].who
    BY <2>1, AfterOne
  <2>3. CASE g[k + 1].executor = g[k].executor
    <3>1. ClaimsIn(s, g[k].executor, 0, k)
      BY <1>2, <2>1, <2>3
    <3>2. PICK j \in 0 + 1 .. k : s[j].op = "claim" /\ s[j].who = g[k].executor
      BY <3>1 DEF ClaimsIn
    <3>3. j \in 0 + 1 .. k + 1
      OBVIOUS
    <3> QED
      BY <2>3, <3>2, <3>3 DEF ClaimsIn
  <2>4. CASE s[k + 1].op = "claim" /\ g[k + 1].executor = s[k + 1].who
    <3>1. k + 1 \in 0 + 1 .. k + 1
      OBVIOUS
    <3> QED
      BY <2>4, <3>1 DEF ClaimsIn
  <2> QED
    BY <2>2, <2>3, <2>4
<1> HIDE DEF T
<1>3. Nat \subseteq T
  BY <1>1, <1>2, Inductive
<1>4. n \in Nat /\ n <= Len(s)
  BY DEF Events
<1> QED
  BY <1>3, <1>4 DEF T

\* An execution that is over does not come back without a claim.
LEMMA StoryOver ==
  ASSUME NEW s \in Events, NEW g, IsTold(g, s), NEW m \in 0 .. Len(s), NEW n \in m .. Len(s),
         NEW X, X # Nobody, g[m].status \in Finished
  PROVE  g[n].status \in Finished \/ g[n].executor # X \/ ClaimsIn(s, X, m, n)
<1> DEFINE Q(k) == g[k].status \in Finished \/ g[k].executor # X \/ ClaimsIn(s, X, m, k)
           T == {k \in Nat : m + k <= Len(s) => Q(m + k)}
<1>1. m \in Nat /\ Len(s) \in Nat
  BY DEF Events
<1>2. 0 \in T
  BY <1>1
<1>3. ASSUME NEW k \in Nat, k \in T PROVE k + 1 \in T
  <2> SUFFICES ASSUME m + (k + 1) <= Len(s) PROVE Q(m + (k + 1))
    OBVIOUS
  <2>1. m + k \in Nat /\ (m + k) + 1 <= Len(s) /\ m + (k + 1) = (m + k) + 1
    BY <1>1
  <2> DEFINE j == m + k
  <2>2. /\ g[j] \in Stages /\ s[j + 1] \in Item
        /\ Permitted(g[j], s[j + 1]) /\ g[j + 1] = After(g[j], s[j + 1])
    BY <2>1, StoryOne
  <2>3. Q(j)
    BY <1>1, <1>3, <2>1
  <2>4. j \in Nat /\ m + 1 <= j + 1
    BY <1>1, <2>1
  <2> HIDE DEF j
  <2>5. /\ g[j + 1].executor \in {g[j].executor, Nobody}
             \/ (s[j + 1].op = "claim" /\ g[j + 1].executor = s[j + 1].who)
        /\ g[j].status \in Finished => g[j + 1].executor = Nobody \/ g[j + 1].status \in Finished
    BY <2>2, AfterOne
  <2>6. Q(j + 1)
    <3>1. CASE ClaimsIn(s, X, m, j)
      <4>1. PICK i \in m + 1 .. j : s[i].op = "claim" /\ s[i].who = X
        BY <3>1 DEF ClaimsIn
      <4>2. i \in m + 1 .. j + 1
        BY <1>1, <2>4
      <4> QED
        BY <4>1, <4>2 DEF ClaimsIn
    <3>2. CASE g[j].status \in Finished
      BY <2>5, <3>2
    <3>3. CASE g[j].executor # X
      <4>1. CASE s[j + 1].op = "claim" /\ s[j + 1].who = X
        <5>1. j + 1 \in m + 1 .. j + 1
          BY <1>1, <2>4
        <5> QED
          BY <4>1, <5>1 DEF ClaimsIn
      <4>2. CASE ~(s[j + 1].op = "claim" /\ s[j + 1].who = X)
        BY <2>5, <3>3, <4>2
      <4> QED
        BY <4>1, <4>2
    <3> QED
      BY <2>3, <3>1, <3>2, <3>3
  <2> QED
    BY <2>1, <2>6 DEF j
<1> HIDE DEF T
<1>4. Nat \subseteq T
  BY <1>2, <1>3, Inductive
<1>5. n - m \in Nat /\ m + (n - m) = n /\ n <= Len(s)
  BY <1>1
<1> QED
  BY <1>4, <1>5 DEF T

\* An execution goes on until it says that it has ended.
LEMMA StoryBusy ==
  ASSUME NEW s \in Events, NEW g, IsTold(g, s), NEW m \in 0 .. Len(s), NEW n \in m .. Len(s),
         g[m].status \in Busy
  PROVE  \/ g[n].status \in Busy /\ g[n].executor = g[m].executor
         \/ EndsIn(s, g[m].executor, m, n)
<1> DEFINE X == g[m].executor
           Q(k) == (g[k].status \in Busy /\ g[k].executor = X) \/ EndsIn(s, X, m, k)
           T == {k \in Nat : m + k <= Len(s) => Q(m + k)}
<1>1. m \in Nat /\ Len(s) \in Nat
  BY DEF Events
<1>2. 0 \in T
  BY <1>1
<1> HIDE DEF X
<1>3. ASSUME NEW k \in Nat, k \in T PROVE k + 1 \in T
  <2> SUFFICES ASSUME m + (k + 1) <= Len(s) PROVE Q(m + (k + 1))
    OBVIOUS
  <2>1. m + k \in Nat /\ (m + k) + 1 <= Len(s) /\ m + (k + 1) = (m + k) + 1
    BY <1>1
  <2> DEFINE j == m + k
  <2>2. /\ g[j] \in Stages /\ s[j + 1] \in Item
        /\ Permitted(g[j], s[j + 1]) /\ g[j + 1] = After(g[j], s[j + 1])
    BY <2>1, StoryOne
  <2>3. Q(j)
    BY <1>1, <1>3, <2>1
  <2>4. j \in Nat /\ m + 1 <= j + 1
    BY <1>1, <2>1
  <2> HIDE DEF j
  <2>5. /\ g[j].status \in Busy => \/ s[j + 1].op \in Endings
                                   \/ g[j + 1].status \in Busy /\ g[j + 1].executor = g[j].executor
        /\ s[j + 1].op \in Endings => s[j + 1].who = g[j].executor
    BY <2>2, AfterOne
  <2>6. Q(j + 1)
    <3>1. CASE EndsIn(s, X, m, j)
      <4>1. PICK i \in m + 1 .. j : s[i].op \in Endings /\ s[i].who = X
        BY <3>1 DEF EndsIn
      <4>2. i \in m + 1 .. j + 1
        BY <1>1, <2>4
      <4> QED
        BY <4>1, <4>2 DEF EndsIn
    <3>2. CASE g[j].status \in Busy /\ g[j].executor = X
      <4>1. CASE s[j + 1].op \in Endings
        <5>1. j + 1 \in m + 1 .. j + 1
          BY <1>1, <2>4
        <5> QED
          BY <2>5, <3>2, <4>1, <5>1 DEF EndsIn
      <4>2. CASE s[j + 1].op \notin Endings
        BY <2>5, <3>2, <4>2
      <4> QED
        BY <4>1, <4>2
    <3> QED
      BY <2>3, <3>1, <3>2
  <2> QED
    BY <2>1, <2>6 DEF j
<1> HIDE DEF T
<1>4. Nat \subseteq T
  BY <1>2, <1>3, Inductive
<1>5. n - m \in Nat /\ m + (n - m) = n /\ n <= Len(s)
  BY <1>1
<1>6. Q(n)
  BY <1>4, <1>5 DEF T
<1> QED
  BY <1>6 DEF X

-----------------------------------------------------------------------------
(* The execution of assignments: the invariant                             *)

Records == [executor : Agents \X Attempt \X (0 .. MaxLife), pid : 0 .. MaxLife,
            phase : {"reserved", "running", "result", "stopped"}]
Jobs == [step : {"approve", "submit", "await", "check", "confirm"}, head : Events,
         attempt : Attempt, item : Item \cup {Nobody}]

\* The variables have their types.
WorkTyped ==
  /\ saved \in [Device -> Histories]
  /\ outbox \in [Device -> SUBSET Events]
  /\ published \in Histories
  /\ exec \in [Agents \X Attempt -> Records \cup {Torn, NoRecord}]
  /\ active \in [Agents \X Attempt -> Records \cup {NoRecord}]
  /\ job \in [Device -> Jobs \cup {NoJob}]
  /\ life \in [Agents -> 0 .. MaxLife]
  /\ working \subseteq Agents \X Attempt
  /\ starts \in [Agents \X Attempt -> {0, 1}]

\* What has been signed, published or not.
Issued == published \cup UNION {outbox[d] : d \in Device}

\* What the room has of d, d has in storage or in its outbox; in storage is nothing
\* that is not published; and an outbox has the device's own, and one operation.
Flows ==
  \A d \in Device :
    /\ saved[d] \subseteq published
    /\ \A e \in published : Own(d, e) => e \in saved[d] \cup outbox[d]
    /\ \A e \in outbox[d] : Own(d, e)
    /\ \A e, f \in outbox[d] : e = f

\* Every event is what its history permits, and follows a published one.
Grown == \A e \in Issued : e # <<>> /\ Lawful(e) /\ Front(e) \in published \cup {<<>>}

\* An execution is claimed once.
ClaimedOnce == \A e, f \in Issued : Last(e).op = "claim" /\ Last(e) = Last(f) => e = f

\* The operations of an execution are signed by the agent whose record names it.
NamedBy(e) == \E x \in Agents \X Attempt :
  exec[x] \in Records /\ exec[x].executor = Last(e).who /\ Last(e).by = x[1]
Named == \A e \in Issued : Last(e).op \in Executing => NamedBy(e)

\* What has ended is not being worked on.
Ended ==
  \A e \in Issued : \A x \in working :
    Last(e).op \in Endings => Last(e).who # exec[x].executor

\* The operation i of d is about the attempt x, which has a record.
IsAbout(d, x, i) ==
  /\ i \in Item /\ i.by = d /\ i.op \in Executing
  /\ exec[x] \in Records /\ exec[x].executor = i.who

ClaimOf(x) == [by |-> x[1], op |-> "claim", who |-> exec[x].executor]

\* The claims of d that it will not forget.
Fixed(d) == {e \in saved[d] \ outbox[d] : Own(d, e) /\ Last(e).op = "claim"}
IsClaimed(x) == \E e \in Fixed(x[1]) : Last(e) = ClaimOf(x)

\* A job in progress knows its attempt, which it has not started yet if it claims
\* it, and which is not being worked on if it says so.
JobHolds(d) ==
  LET x == <<d, job[d].attempt>>
      i == job[d].item
  IN /\ At(d, "submit") \/ At(d, "await") \/ At(d, "confirm") => IsAbout(d, x, i)
     /\ At(d, "confirm") => i.op = "release"
     /\ At(d, "submit") \/ At(d, "await") =>
          /\ i.op = "claim" => starts[x] = 0
          /\ i.op \in Endings => x \notin working
     /\ At(d, "check") =>
          starts[x] = 0 /\ exec[x] \in Records /\ exec[x].phase # "reserved" /\ IsClaimed(x)

\* What is started has a record that says so; what is worked on was claimed.
RecordHolds(x) ==
  /\ exec[x] = NoRecord => active[x] = NoRecord
  /\ active[x] # NoRecord => active[x] \in Records /\ active[x] = exec[x]
  /\ exec[x] \in Records => exec[x].executor[1] = x[1] /\ exec[x].executor[2] = x[2]
  /\ starts[x] = 1 => exec[x] \in Records /\ exec[x].phase # "reserved"
  /\ x \in working => starts[x] = 1 /\ IsClaimed(x)

HistoryHolds == Flows /\ Grown /\ ClaimedOnce

WorkInv ==
  /\ WorkTyped /\ HistoryHolds /\ Named /\ Ended
  /\ \A d \in Agents : JobHolds(d)
  /\ \A x \in Agents \X Attempt : RecordHolds(x)

-----------------------------------------------------------------------------
(* The types                                                               *)

HistoryTyped == /\ saved \in [Device -> Histories] /\ outbox \in [Device -> SUBSET Events]
                /\ published \in Histories

\* No record is not a record, and a torn file is none either.
LEMMA RecordFacts ==
  /\ NoRecord \notin Records /\ Torn \notin Records
  /\ \A r \in Records : /\ r.executor \in Executor /\ r.executor # Nobody
                        /\ r.executor[1] \in Agents /\ r.executor[2] \in Attempt
<1>1. Agents \X Attempt \X (0 .. MaxLife) \subseteq Executor /\ Nobody \notin Executor
  BY WorkAssumption
<1>2. Records \subseteq [executor : Executor, pid : 0 .. MaxLife,
                         phase : {"reserved", "running", "result", "stopped"}]
  BY <1>1 DEF Records
<1>3. NoRecord \notin Records
  BY <1>2, WorkAssumption
<1>4. Torn \notin Records
  BY DEF Torn, Records
<1> QED
  BY <1>1, <1>3, <1>4 DEF Records

\* A subset of a history is one, with or without another event.
LEMMA HistorySubset ==
  ASSUME NEW K \in Histories, NEW S \in SUBSET K
  PROVE  S \in Histories
BY FS_Subset DEF Histories

LEMMA HistoryUnion ==
  ASSUME NEW K \in Histories, NEW L \in Histories
  PROVE  K \cup L \in Histories
BY FS_Union DEF Histories

LEMMA HistoryOne ==
  ASSUME NEW e \in Events
  PROVE  {e} \in Histories
BY FS_Singleton DEF Histories

-----------------------------------------------------------------------------
(* The history                                                             *)

\* Nobody forgets a claim.
ClaimsKept == \A d \in Device : Fixed(d) \subseteq Fixed(d)'

\* An operation that may follow a history is lawful after its head.
LEMMA SignedLawful ==
  ASSUME NEW K \in Histories, NEW i \in Item, Permitted(Projection(K).stage, i)
  PROVE  LET e == Append(Tip(K), i)
         IN /\ e \in Events /\ e # <<>> /\ Last(e) = i /\ Front(e) = Tip(K) /\ Lawful(e)
<1> DEFINE s == Tip(K)
           e == Append(s, i)
<1>1. s \in Events /\ Told(Projection(K)) /\ Projection(K).path = s
  BY TipType, ProjectionTold DEF Tip
<1>2. e \in Events /\ Front(e) = s /\ Last(e) = i
  BY <1>1, Ending
<1>3. /\ Len(e) = Len(s) + 1 /\ Len(s) \in Nat /\ e[Len(s) + 1] = i
      /\ \A n \in 1 .. Len(s) : e[n] = s[n]
  BY <1>1 DEF Events
<1>4. PICK g : IsTold(g, s) /\ Projection(K).stage = g[Len(s)]
  BY <1>1 DEF Told
<1> HIDE DEF s, e
<1> DEFINE m == Len(e)
           h == [n \in 0 .. m |-> IF n = m THEN After(g[Len(s)], i) ELSE g[n]]
<1>5. m \in Nat /\ m - 1 = Len(s) /\ m # 0
  BY <1>3
<1>6. /\ h[0] = g[0] /\ h[m] = After(g[Len(s)], i)
      /\ \A n \in 0 .. m - 1 : h[n] = g[n]
  BY <1>5
<1> HIDE DEF h
<1>7. ASSUME NEW n \in 1 .. m PROVE Permitted(h[n - 1], e[n]) /\ h[n] = After(h[n - 1], e[n])
  <2>1. CASE n = m
    <3>1. n - 1 = Len(s) /\ n - 1 \in 0 .. m - 1 /\ n = Len(s) + 1
      BY <1>5, <2>1
    <3>2. h[n - 1] = g[Len(s)] /\ e[n] = i
      BY <1>3, <1>6, <3>1
    <3> QED
      BY <1>4, <1>6, <2>1, <3>2
  <2>2. CASE n # m
    <3>1. n \in 1 .. Len(s) /\ n \in 0 .. m - 1 /\ n - 1 \in 0 .. m - 1
      BY <1>5, <2>2
    <3>2. Permitted(g[n - 1], s[n]) /\ g[n] = After(g[n - 1], s[n])
      BY <1>4, <3>1 DEF IsTold
    <3>3. h[n] = g[n] /\ h[n - 1] = g[n - 1] /\ e[n] = s[n]
      BY <1>3, <1>6, <3>1
    <3> QED
      BY <3>2, <3>3
  <2> QED
    BY <2>1, <2>2
<1>8. IsTold(h, e)
  BY <1>4, <1>6, <1>7 DEF IsTold
<1>9. e # <<>>
  BY <1>3, <1>5, EmptySeq
<1>10. e \in Events /\ e # <<>> /\ Last(e) = i /\ Front(e) = s /\ Lawful(e)
  BY <1>2, <1>8, <1>9 DEF Lawful, s, e
<1> QED
  BY <1>10 DEF s, e

\* What d signs.
LEMMA SignKeeps ==
  ASSUME HistoryTyped, HistoryHolds, NEW d \in Device, NEW i \in Item, NEW lost,
         Sign(d, i, lost), i.op = "claim" => ~Recorded(d, i)
  PROVE  /\ HistoryTyped' /\ HistoryHolds' /\ ClaimsKept
         /\ \A e \in Issued' : e \in Issued \/ Last(e) = i
<1> DEFINE K == saved[d] \ lost
           f == Append(Tip(K), i)
<1>1. /\ outbox[d] = {} /\ lost \subseteq Droppable(d) /\ i.by = d /\ MayFollow(K, i)
      /\ saved' = [saved EXCEPT ![d] = K]
      /\ outbox' = [outbox EXCEPT ![d] = {f}] /\ published' = published
  BY DEF Sign
<1>2. K \in Histories /\ K \subseteq saved[d] /\ saved[d] \subseteq published
  <2>1. saved[d] \in Histories
    BY DEF HistoryTyped
  <2> QED
    BY <2>1, HistorySubset DEF HistoryHolds, Flows
<1>3. f \in Events /\ f # <<>> /\ Last(f) = i /\ Front(f) = Tip(K) /\ Lawful(f)
  <2>1. Permitted(Projection(K).stage, i)
    BY <1>1 DEF MayFollow
  <2> HIDE DEF K
  <2> QED
    BY <1>2, <2>1, SignedLawful
<1>4. Front(f) \in published \cup {<<>>}
  <2>1. Tip(K) \in K \cup {<<>>}
    BY <1>2, TipThere
  <2> QED
    BY <1>2, <1>3, <2>1
<1> HIDE DEF K, f
<1>5. HistoryTyped'
  BY <1>1, <1>2, <1>3 DEF HistoryTyped
<1>6. /\ saved'[d] = K /\ outbox'[d] = {f}
      /\ \A c \in Device : c # d => saved'[c] = saved[c] /\ outbox'[c] = outbox[c]
  BY <1>1 DEF HistoryTyped
<1>7. \A e \in Issued' : e \in Issued \/ e = f
  BY <1>1, <1>6 DEF Issued
<1>8. \A e \in saved[d] : Own(d, e) => e \in K
  BY <1>1 DEF K, Droppable, Own
<1>9. Flows'
  <2> SUFFICES ASSUME NEW c \in Device
               PROVE  /\ saved'[c] \subseteq published'
                      /\ \A e \in published' : Own(c, e) => e \in saved'[c] \cup outbox'[c]
                      /\ \A e \in outbox'[c] : Own(c, e)
                      /\ \A e, g \in outbox'[c] : e = g
    BY DEF Flows, Own
  <2>1. CASE c = d
    <3>1. \A e \in published : Own(d, e) => e \in K
      BY <1>1, <1>8 DEF HistoryHolds, Flows
    <3>2. Own(d, f)
      BY <1>1, <1>3 DEF Own
    <3> QED
      BY <1>1, <1>2, <1>6, <2>1, <3>1, <3>2
  <2>2. CASE c # d
    BY <1>1, <1>6, <2>2 DEF HistoryHolds, Flows
  <2> QED
    BY <2>1, <2>2
<1>10. Grown'
  BY <1>1, <1>3, <1>4, <1>7 DEF HistoryHolds, Grown
<1>11. \A e \in Issued : i.op = "claim" => Last(e) # i
  <2> SUFFICES ASSUME NEW e \in Issued, i.op = "claim", Last(e) = i PROVE FALSE
    OBVIOUS
  <2>1. Own(d, e)
    BY <1>1 DEF Own
  <2>2. e \notin saved[d] \cup outbox[d]
    BY DEF Recorded
  <2>3. e \notin published
    BY <2>1, <2>2 DEF HistoryHolds, Flows
  <2>4. PICK c \in Device : e \in outbox[c]
    BY <2>3 DEF Issued
  <2>5. Own(c, e)
    BY <2>4 DEF HistoryHolds, Flows
  <2> QED
    BY <2>1, <2>2, <2>4, <2>5 DEF Own
<1>12. ClaimedOnce'
  <2> SUFFICES ASSUME NEW e \in Issued', NEW g \in Issued', Last(e).op = "claim", Last(e) = Last(g)
               PROVE  e = g
    BY DEF ClaimedOnce
  <2> QED
    BY <1>3, <1>7, <1>11 DEF HistoryHolds, ClaimedOnce
<1>13. ClaimsKept
  <2> SUFFICES ASSUME NEW c \in Device, NEW e \in Fixed(c) PROVE e \in Fixed(c)'
    BY DEF ClaimsKept
  <2>1. e \in saved[c] /\ e \notin outbox[c] /\ Own(c, e) /\ Last(e).op = "claim"
    BY DEF Fixed
  <2>2. CASE c = d
    <3>1. e # f
      BY <1>1, <1>3, <2>1, <2>2 DEF Recorded
    <3> QED
      BY <1>6, <1>8, <2>1, <2>2, <3>1 DEF Fixed, Own
  <2>3. CASE c # d
    BY <1>6, <2>1, <2>3 DEF Fixed, Own
  <2> QED
    BY <2>2, <2>3
<1>14. \A e \in Issued' : e \in Issued \/ Last(e) = i
  BY <1>3, <1>7
<1> QED
  BY <1>5, <1>9, <1>10, <1>12, <1>13, <1>14 DEF HistoryHolds

\* What reaches the room.
LEMMA PublishKeeps ==
  ASSUME HistoryTyped, HistoryHolds, NEW d \in Device, NEW e \in outbox[d], Publish(d, e)
  PROVE  HistoryTyped' /\ HistoryHolds' /\ ClaimsKept /\ Issued' \subseteq Issued
<1>1. published' = published \cup {e} /\ saved' = saved /\ outbox' = outbox
  BY DEF Publish
<1>2. e \in Events /\ Own(d, e) /\ e \in Issued
  BY DEF HistoryTyped, HistoryHolds, Flows, Issued
<1>3. HistoryTyped'
  <2>1. published' \in Histories
    BY <1>1, <1>2, HistoryOne, HistoryUnion DEF HistoryTyped
  <2> QED
    BY <1>1, <2>1 DEF HistoryTyped
<1>4. Issued' \subseteq Issued /\ published \subseteq published'
  BY <1>1, <1>2 DEF Issued
<1>5. Flows'
  <2> SUFFICES ASSUME NEW c \in Device
               PROVE  /\ saved[c] \subseteq published'
                      /\ \A f \in published' : Own(c, f) => f \in saved[c] \cup outbox[c]
                      /\ \A f \in outbox[c] : Own(c, f)
                      /\ \A f, g \in outbox[c] : f = g
    BY <1>1 DEF Flows, Own
  <2>1. \A f \in published' : Own(c, f) => f \in saved[c] \cup outbox[c]
    <3>1. Own(c, e) => e \in outbox[c]
      BY <1>2 DEF Own
    <3> QED
      BY <1>1, <3>1 DEF HistoryHolds, Flows
  <2> QED
    BY <1>4, <2>1 DEF HistoryHolds, Flows
<1>6. Grown' /\ ClaimedOnce'
  BY <1>4 DEF HistoryHolds, Grown, ClaimedOnce
<1>7. ClaimsKept
  BY <1>1 DEF ClaimsKept, Fixed, Own
<1> QED
  BY <1>3, <1>4, <1>5, <1>6, <1>7 DEF HistoryHolds

\* What reaches the storage of d, when some of what the others said is lost.
LEMMA StoreKeeps ==
  ASSUME HistoryTyped, HistoryHolds, NEW d \in Device, NEW S \in SUBSET published,
         NEW lost \in SUBSET Droppable(d), NEW T \in SUBSET outbox[d],
         saved' = [saved EXCEPT ![d] = (saved[d] \ lost) \cup S],
         outbox' = [outbox EXCEPT ![d] = outbox[d] \ T], T \subseteq S,
         UNCHANGED published
  PROVE  HistoryTyped' /\ HistoryHolds' /\ ClaimsKept /\ Issued' \subseteq Issued
<1> DEFINE K == (saved[d] \ lost) \cup S
<1>1. /\ saved'[d] = K /\ outbox'[d] = outbox[d] \ T
      /\ \A c \in Device : c # d => saved'[c] = saved[c] /\ outbox'[c] = outbox[c]
  BY DEF HistoryTyped
<1>2. K \in Histories /\ K \subseteq published
  <2>1. K \subseteq published
    BY DEF HistoryHolds, Flows
  <2> QED
    BY <2>1, HistorySubset DEF HistoryTyped
<1>3. \A e \in saved[d] : Own(d, e) => e \in K \/ e \in outbox[d]
  BY DEF Droppable, Own
<1>4. S \subseteq K
  OBVIOUS
<1>5. \A e \in saved[d] \ outbox[d] : Own(d, e) => e \in K
  BY DEF Droppable, Own
<1>6. HistoryTyped'
  <2>1. saved' \in [Device -> Histories]
    BY <1>2 DEF HistoryTyped
  <2>2. outbox' \in [Device -> SUBSET Events]
    BY DEF HistoryTyped
  <2> QED
    BY <2>1, <2>2 DEF HistoryTyped
<1> HIDE DEF K
<1>7. Flows'
  <2> SUFFICES ASSUME NEW c \in Device
               PROVE  /\ saved'[c] \subseteq published
                      /\ \A e \in published : Own(c, e) => e \in saved'[c] \cup outbox'[c]
                      /\ \A e \in outbox'[c] : Own(c, e)
                      /\ \A e, f \in outbox'[c] : e = f
    BY DEF Flows, Own
  <2>1. CASE c = d
    <3>1. ASSUME NEW e \in published, Own(d, e) PROVE e \in K \cup (outbox[d] \ T)
      <4>1. e \in saved[d] \cup outbox[d]
        BY <3>1 DEF HistoryHolds, Flows
      <4> QED
        BY <1>3, <1>4, <3>1, <4>1
    <3>2. (\A e \in outbox[d] : Own(d, e)) /\ (\A e, f \in outbox[d] : e = f)
      BY DEF HistoryHolds, Flows
    <3> QED
      BY <1>1, <1>2, <2>1, <3>1, <3>2
  <2>2. CASE c # d
    BY <1>1, <2>2 DEF HistoryHolds, Flows
  <2> QED
    BY <2>1, <2>2
<1>8. Issued' \subseteq Issued
  <2>1. \A c \in Device : outbox'[c] \subseteq outbox[c]
    BY <1>1
  <2> QED
    BY <2>1 DEF Issued
<1>9. Grown' /\ ClaimedOnce'
  BY <1>8 DEF HistoryHolds, Grown, ClaimedOnce
<1>10. ClaimsKept
  <2> SUFFICES ASSUME NEW c \in Device, NEW e \in Fixed(c) PROVE e \in Fixed(c)'
    BY DEF ClaimsKept
  <2>1. e \in saved[c] /\ e \notin outbox[c] /\ Own(c, e) /\ Last(e).op = "claim"
    BY DEF Fixed
  <2> QED
    BY <1>1, <1>5, <2>1 DEF Fixed, Own
<1> QED
  BY <1>6, <1>7, <1>8, <1>9, <1>10 DEF HistoryHolds

\* What the creator says.
LEMMA AnnounceKeeps ==
  ASSUME HistoryTyped, HistoryHolds, NEW i \in Tried, Announce(i)
  PROVE  /\ HistoryTyped' /\ HistoryHolds' /\ ClaimsKept
         /\ \A e \in Issued' : e \in Issued \/ Last(e).op \notin Executing
<1> DEFINE K == saved[Creator]
           f == Append(Tip(K), i)
<1>1. i \in Item /\ i.op \notin Executing /\ i.by = Creator /\ Creator \in Device
  <2>1. i \in Item
    BY TriedAssumption
  <2>2. i.by = Creator
    BY DEF Announce
  <2>3. i.by \in Device
    BY <2>1 DEF Item
  <2> QED
    BY <2>1, <2>2, <2>3, WorkAssumption
<1>2. /\ MayFollow(K, i) /\ saved' = [saved EXCEPT ![Creator] = K \cup {f}]
      /\ published' = published \cup {f} /\ outbox' = outbox
  BY DEF Announce
<1>3. K \in Histories /\ K \subseteq published
  BY <1>1 DEF HistoryTyped, HistoryHolds, Flows
<1>4. f \in Events /\ f # <<>> /\ Last(f) = i /\ Front(f) = Tip(K) /\ Lawful(f)
  <2>1. Permitted(Projection(K).stage, i)
    BY <1>2 DEF MayFollow
  <2> HIDE DEF K
  <2> QED
    BY <1>1, <1>3, <2>1, SignedLawful
<1>5. Front(f) \in published' \cup {<<>>}
  <2>1. Tip(K) \in K \cup {<<>>}
    BY <1>3, TipThere
  <2> QED
    BY <1>2, <1>3, <1>4, <2>1
<1> HIDE DEF f
<1>6. HistoryTyped'
  <2>1. K \cup {f} \in Histories /\ published' \in Histories
    BY <1>2, <1>3, <1>4, HistoryOne, HistoryUnion DEF HistoryTyped
  <2> QED
    BY <1>2, <2>1 DEF HistoryTyped
<1> HIDE DEF K
<1>7. /\ saved'[Creator] = K \cup {f}
      /\ \A c \in Device : c # Creator => saved'[c] = saved[c]
  BY <1>1, <1>2 DEF HistoryTyped
<1>8. Issued' = Issued \cup {f}
  BY <1>2 DEF Issued
<1>9. Flows'
  <2> SUFFICES ASSUME NEW c \in Device
               PROVE  /\ saved'[c] \subseteq published'
                      /\ \A e \in published' : Own(c, e) => e \in saved'[c] \cup outbox[c]
                      /\ \A e \in outbox[c] : Own(c, e)
                      /\ \A e, g \in outbox[c] : e = g
    BY <1>2 DEF Flows, Own
  <2>1. saved'[c] \subseteq published'
    <3>1. CASE c = Creator
      BY <1>2, <1>3, <1>7, <3>1
    <3>2. CASE c # Creator
      BY <1>2, <1>7, <3>2 DEF HistoryHolds, Flows
    <3> QED
      BY <3>1, <3>2
  <2>2. saved[c] \subseteq saved'[c]
    BY <1>7 DEF K
  <2>3. Own(c, f) => f \in saved'[c]
    BY <1>1, <1>4, <1>7 DEF Own
  <2>4. \A e \in published' : Own(c, e) => e \in saved'[c] \cup outbox[c]
    BY <1>2, <2>2, <2>3 DEF HistoryHolds, Flows
  <2> QED
    BY <2>1, <2>4 DEF HistoryHolds, Flows
<1>10. Grown'
  BY <1>2, <1>4, <1>5, <1>8 DEF HistoryHolds, Grown
<1>11. Last(f).op # "claim"
  BY <1>1, <1>4 DEF Executing
<1>12. ClaimedOnce'
  <2> SUFFICES ASSUME NEW e \in Issued', NEW g \in Issued', Last(e).op = "claim", Last(e) = Last(g)
               PROVE  e = g
    BY DEF ClaimedOnce
  <2>1. e # f /\ g # f
    BY <1>11
  <2> QED
    BY <1>8, <2>1 DEF HistoryHolds, ClaimedOnce
<1>13. ClaimsKept
  <2> SUFFICES ASSUME NEW c \in Device, NEW e \in Fixed(c) PROVE e \in Fixed(c)'
    BY DEF ClaimsKept
  <2>1. e \in saved'[c]
    BY <1>7 DEF Fixed, K
  <2> QED
    BY <1>2, <2>1 DEF Fixed, Own
<1>14. \A e \in Issued' : e \in Issued \/ Last(e).op \notin Executing
  BY <1>1, <1>4, <1>8
<1> QED
  BY <1>6, <1>9, <1>10, <1>12, <1>13, <1>14 DEF HistoryHolds

-----------------------------------------------------------------------------
(* What a step leaves as it was                                            *)

\* The agents are devices, and what is ended was executed.
LEMMA AgentFacts ==
  /\ Agents \subseteq Device /\ Endings \subseteq Executing /\ "claim" \notin Endings
BY DEF Agents, Endings, Executing

\* A history that is left alone keeps what holds of it.
LEMMA HistoryStays ==
  ASSUME HistoryTyped, HistoryHolds, UNCHANGED historyVars
  PROVE  HistoryTyped' /\ HistoryHolds' /\ ClaimsKept /\ Issued' = Issued
<1>1. saved' = saved /\ outbox' = outbox /\ published' = published
  BY DEF historyVars
<1>2. HistoryTyped' /\ ClaimsKept /\ Issued' = Issued
  BY <1>1 DEF HistoryTyped, ClaimsKept, Fixed, Own, Issued
<1>3. Flows'
  BY <1>1 DEF HistoryHolds, Flows, Own
<1>4. Grown' /\ ClaimedOnce'
  BY <1>1, <1>2 DEF HistoryHolds, Grown, ClaimedOnce
<1> QED
  BY <1>2, <1>3, <1>4 DEF HistoryHolds

\* What was claimed stays claimed, while the record names the same execution.
LEMMA ClaimStays ==
  ASSUME ClaimsKept, NEW x \in Agents \X Attempt, IsClaimed(x),
         exec'[x].executor = exec[x].executor
  PROVE  IsClaimed(x)'
<1>1. x[1] \in Device
  BY AgentFacts
<1>2. PICK e \in Fixed(x[1]) : Last(e) = ClaimOf(x)
  BY DEF IsClaimed
<1>3. e \in Fixed(x[1])'
  BY <1>1, <1>2 DEF ClaimsKept
<1>4. ClaimOf(x)' = ClaimOf(x)
  BY DEF ClaimOf
<1> QED
  BY <1>2, <1>3, <1>4 DEF IsClaimed

\* A record that a step does not touch.
LEMMA RecordStays ==
  ASSUME WorkInv, ClaimsKept, NEW x \in Agents \X Attempt,
         exec'[x] = exec[x], active'[x] = active[x], starts'[x] = starts[x],
         x \in working' => x \in working
  PROVE  RecordHolds(x)'
<1>1. RecordHolds(x)
  BY DEF WorkInv
<1>2. x \in working' => IsClaimed(x)'
  BY <1>1, ClaimStays DEF RecordHolds
<1> QED
  BY <1>1, <1>2 DEF RecordHolds

\* The types of a job.
LEMMA JobType ==
  ASSUME WorkInv, NEW d \in Agents, job[d] # NoJob
  PROVE  /\ job[d] \in Jobs /\ job[d].attempt \in Attempt
         /\ <<d, job[d].attempt>> \in Agents \X Attempt
<1>1. job[d] \in Jobs
  BY AgentFacts DEF WorkInv, WorkTyped
<1> QED
  BY <1>1 DEF Jobs

\* A job that a step does not touch.
LEMMA JobStays ==
  ASSUME WorkInv, ClaimsKept, NEW d \in Agents, job'[d] = job[d],
         \A x \in Agents \X Attempt : x[1] = d =>
           /\ exec'[x] = exec[x] /\ starts'[x] = starts[x]
           /\ x \in working' => x \in working
  PROVE  JobHolds(d)'
<1>1. CASE job[d] = NoJob
  BY <1>1 DEF JobHolds, At
<1>2. CASE job[d] # NoJob
  <2> DEFINE x == <<d, job[d].attempt>>
  <2>1. x \in Agents \X Attempt /\ x[1] = d
    BY <1>2, JobType
  <2> HIDE DEF x
  <2>2. /\ exec'[x] = exec[x] /\ starts'[x] = starts[x]
        /\ x \in working' => x \in working
    BY <2>1
  <2>3. JobHolds(d)
    BY DEF WorkInv
  <2>4. \A step : At(d, step)' <=> At(d, step)
    BY DEF At
  <2>5. At(d, "check") => IsClaimed(x)'
    BY <2>1, <2>2, <2>3, ClaimStays DEF JobHolds, x
  <2> QED
    BY <2>2, <2>3, <2>4, <2>5 DEF JobHolds, IsAbout, x
<1> QED
  BY <1>1, <1>2

\* Whose execution it is, is written once.
SameNames == \A x \in Agents \X Attempt :
  exec[x] \in Records => exec'[x] \in Records /\ exec'[x].executor = exec[x].executor

\* So those that were named stay named.
LEMMA NamedStays ==
  ASSUME Named, SameNames, \A e \in Issued' : e \in Issued \/ Last(e).op \notin Executing
  PROVE  Named'
<1> SUFFICES ASSUME NEW e \in Issued', Last(e).op \in Executing PROVE NamedBy(e)'
  BY DEF Named
<1>1. NamedBy(e)
  BY DEF Named
<1> QED
  BY <1>1 DEF NamedBy, SameNames

\* And what has ended stays so, where nothing starts.
LEMMA EndedStays ==
  ASSUME WorkInv, SameNames, working' \subseteq working,
         \A e \in Issued' : e \in Issued \/ Last(e).op \notin Executing
  PROVE  Ended'
<1> SUFFICES ASSUME NEW e \in Issued', NEW x \in working', Last(e).op \in Endings
             PROVE  Last(e).who # exec'[x].executor
  BY DEF Ended
<1>1. e \in Issued /\ x \in working /\ x \in Agents \X Attempt
  BY AgentFacts DEF WorkInv, WorkTyped
<1>2. exec[x] \in Records
  BY <1>1 DEF WorkInv, RecordHolds
<1>3. exec'[x].executor = exec[x].executor
  BY <1>1, <1>2 DEF SameNames
<1> QED
  BY <1>1, <1>3 DEF WorkInv, Ended

\* A step of the histories alone.
LEMMA HistoryOnly ==
  ASSUME WorkInv, HistoryTyped', HistoryHolds', ClaimsKept, UNCHANGED workVars,
         \A e \in Issued' : e \in Issued \/ Last(e).op \notin Executing
  PROVE  WorkInv'
<1>1. /\ exec' = exec /\ active' = active /\ job' = job /\ life' = life
      /\ working' = working /\ starts' = starts
  BY DEF workVars
<1>2. SameNames
  BY <1>1 DEF SameNames
<1>3. Named' /\ Ended'
  BY <1>1, <1>2, NamedStays, EndedStays DEF WorkInv
<1>4. WorkTyped'
  BY <1>1 DEF WorkInv, WorkTyped, HistoryTyped
<1>5. \A d \in Agents : JobHolds(d)'
  BY <1>1, JobStays
<1>6. \A x \in Agents \X Attempt : RecordHolds(x)'
  BY <1>1, RecordStays
<1> QED
  BY <1>3, <1>4, <1>5, <1>6 DEF WorkInv

\* A step of the job of d, and of what d works on.
LEMMA JobOnly ==
  ASSUME WorkInv, HistoryTyped', HistoryHolds', ClaimsKept, Named', Ended',
         NEW d \in Agents, NEW j \in Jobs \cup {NoJob},
         job' = [job EXCEPT ![d] = j], UNCHANGED <<exec, active, life, starts>>,
         working' \subseteq working, JobHolds(d)'
  PROVE  WorkInv'
<1>1. exec' = exec /\ active' = active /\ life' = life /\ starts' = starts
  OBVIOUS
<1>2. job' \in [Device -> Jobs \cup {NoJob}] /\ \A c \in Agents : c # d => job'[c] = job[c]
  BY AgentFacts DEF WorkInv, WorkTyped
<1>3. WorkTyped'
  BY <1>1, <1>2 DEF WorkInv, WorkTyped, HistoryTyped
<1>4. \A c \in Agents : JobHolds(c)'
  <2> SUFFICES ASSUME NEW c \in Agents, c # d PROVE JobHolds(c)'
    OBVIOUS
  <2> QED
    BY <1>1, <1>2, JobStays
<1>5. \A x \in Agents \X Attempt : RecordHolds(x)'
  BY <1>1, RecordStays
<1> QED
  BY <1>3, <1>4, <1>5 DEF WorkInv

\* The same while the histories stay as they are.
LEMMA JobAlone ==
  ASSUME WorkInv, UNCHANGED historyVars,
         NEW d \in Agents, NEW j \in Jobs \cup {NoJob},
         job' = [job EXCEPT ![d] = j], UNCHANGED <<exec, active, life, starts>>,
         working' \subseteq working, JobHolds(d)'
  PROVE  WorkInv'
<1>1. HistoryTyped /\ HistoryHolds /\ Named
  BY DEF WorkInv, WorkTyped, HistoryTyped
<1>2. HistoryTyped' /\ HistoryHolds' /\ ClaimsKept /\ Issued' = Issued
  BY <1>1, HistoryStays
<1>3. exec' = exec
  OBVIOUS
<1>4. SameNames
  BY <1>3 DEF SameNames
<1>5. Named' /\ Ended'
  BY <1>1, <1>2, <1>4, NamedStays, EndedStays
<1> QED
  BY <1>2, <1>5, JobOnly

\* A job that is given up.
LEMMA ThrowStep ==
  ASSUME WorkInv, NEW d \in Agents, Throw(d),
         UNCHANGED <<historyVars, exec, active, life, starts>>, working' \subseteq working
  PROVE  WorkInv'
<1>1. job' = [job EXCEPT ![d] = NoJob]
  BY DEF Throw
<1>2. job'[d] = NoJob
  BY <1>1, AgentFacts DEF WorkInv, WorkTyped
<1>3. JobHolds(d)'
  BY <1>2 DEF JobHolds, At
<1> QED
  BY <1>1, <1>3, JobAlone

-----------------------------------------------------------------------------
(* The steps of an agent                                                   *)

\* No approval, no confirmation, a failed call.
LEMMA RefusedStep ==
  ASSUME WorkInv, NEW d \in Agents, Refused(d) \/ Fails(d)
  PROVE  WorkInv'
BY ThrowStep DEF Refused, Fails

\* A file is created, and its record is written or not.
LEMMA ReserveStep ==
  ASSUME WorkInv, NEW d \in Agents, NEW n \in Attempt, Reserve(d, <<d, n>>),
         UNCHANGED <<historyVars, life, working, starts>>
  PROVE  WorkInv'
<1> DEFINE x == <<d, n>>
<1>1. x \in Agents \X Attempt /\ x[1] = d /\ x[2] = n
  OBVIOUS
<1> HIDE DEF x
<1>2. CASE exec[x] # NoRecord
  BY <1>2, ThrowStep DEF Reserve, x
<1>3. CASE exec[x] = NoRecord
  <2>0. PICK r : r = Record(d, n)
    OBVIOUS
  <2> DEFINE j == [step |-> "submit", head |-> <<>>, attempt |-> n,
                   item |-> [by |-> d, op |-> "claim", who |-> r.executor]]
  <2>1. life[d] \in 0 .. MaxLife
    BY DEF WorkInv, WorkTyped
  <2>2. r \in Records /\ r.phase = "reserved" /\ r.executor[1] = d /\ r.executor[2] = n
    BY <2>0, <2>1 DEF Record, Records
  <2>3. d \in Device /\ r.executor \in Executor
    BY <2>2, AgentFacts, RecordFacts
  <2>4. [by |-> d, op |-> "claim", who |-> r.executor] \in Item
    BY <2>3 DEF Item
  <2>5. j \in Jobs
    <3>1. <<>> \in Events
      BY DEF Events
    <3> QED
      BY <2>4, <3>1 DEF Jobs
  <2>6. exec[x] \notin Records /\ active[x] = NoRecord /\ starts[x] = 0 /\ x \notin working
    <3>1. exec[x] \notin Records
      BY <1>3, RecordFacts
    <3>2. RecordHolds(x) /\ starts[x] \in {0, 1}
      BY <1>1 DEF WorkInv, WorkTyped
    <3> QED
      BY <1>3, <3>1, <3>2 DEF RecordHolds
  <2>7. \/ exec' = [exec EXCEPT ![x] = r] /\ active' = [active EXCEPT ![x] = r] /\ job' = [job EXCEPT ![d] = j]
        \/ exec' = [exec EXCEPT ![x] = Torn] /\ active' = active /\ job' = [job EXCEPT ![d] = NoJob]
    <3>1. Reserved(d, x)
      BY <1>3 DEF Reserve, x
    <3> QED
      BY <1>1, <2>0, <3>1 DEF Reserved, Throw
  <2> HIDE DEF j
  <2>8. /\ working' = working /\ starts' = starts /\ life' = life
        /\ saved' = saved /\ outbox' = outbox /\ published' = published
    BY DEF historyVars
  <2>9. HistoryTyped' /\ HistoryHolds' /\ ClaimsKept /\ Issued' = Issued
    BY HistoryStays DEF WorkInv, WorkTyped, HistoryTyped
  <2>10. /\ \A y \in Agents \X Attempt : y # x => exec'[y] = exec[y] /\ active'[y] = active[y]
         /\ \A c \in Agents : c # d => job'[c] = job[c]
         /\ exec' \in [Agents \X Attempt -> Records \cup {Torn, NoRecord}]
         /\ active' \in [Agents \X Attempt -> Records \cup {NoRecord}]
         /\ job' \in [Device -> Jobs \cup {NoJob}]
    BY <1>1, <2>2, <2>5, <2>7, AgentFacts DEF WorkInv, WorkTyped
  <2>11. \/ exec'[x] = r /\ active'[x] = r /\ job'[d] = j
         \/ exec'[x] = Torn /\ active'[x] = NoRecord /\ job'[d] = NoJob
    BY <1>1, <2>3, <2>6, <2>7 DEF WorkInv, WorkTyped
  <2>12. WorkTyped'
    BY <2>8, <2>9, <2>10 DEF WorkInv, WorkTyped, HistoryTyped
  <2>13. SameNames
    BY <1>1, <2>6, <2>10 DEF SameNames
  <2>14. Named' /\ Ended'
    BY <2>8, <2>9, <2>13, NamedStays, EndedStays DEF WorkInv
  <2>15. ASSUME NEW c \in Agents PROVE JobHolds(c)'
    <3>1. CASE c # d
      <4>1. \A y \in Agents \X Attempt : y[1] = c => exec'[y] = exec[y]
        BY <1>1, <2>10, <3>1
      <4> QED
        BY <2>8, <2>9, <2>10, <3>1, <4>1, JobStays
    <3>2. CASE c = d
      <4>1. CASE exec'[x] = r /\ active'[x] = r /\ job'[d] = j
        <5>1. /\ j.step = "submit" /\ j.attempt = n /\ j.item.op = "claim" /\ j.item.by = d
              /\ j.item.who = r.executor /\ j.item \in Item
          BY <2>4 DEF j
        <5>2. ~At(d, "confirm")' /\ ~At(d, "check")'
          BY <4>1, <5>1 DEF At
        <5>3. <<d, job'[d].attempt>> = x
          BY <4>1, <5>1 DEF x
        <5>4. IsAbout(d, x, j.item)'
          BY <2>2, <4>1, <5>1 DEF IsAbout, Executing
        <5> QED
          BY <2>6, <2>8, <3>2, <4>1, <5>1, <5>2, <5>3, <5>4, AgentFacts DEF JobHolds
      <4>2. CASE job'[d] = NoJob
        BY <3>2, <4>2 DEF JobHolds, At
      <4> QED
        BY <2>11, <4>1, <4>2
    <3> QED
      BY <3>1, <3>2
  <2>16. ASSUME NEW y \in Agents \X Attempt PROVE RecordHolds(y)'
    <3>1. CASE y # x
      BY <2>8, <2>9, <2>10, <3>1, RecordStays
    <3>2. CASE y = x
      <4>1. starts'[x] = 0 /\ x \notin working'
        BY <2>6, <2>8
      <4> QED
        BY <1>1, <2>2, <2>11, <3>2, <4>1, RecordFacts DEF RecordHolds
    <3> QED
      BY <3>1, <3>2
  <2> QED
    BY <2>9, <2>12, <2>14, <2>15, <2>16 DEF WorkInv
<1> QED
  BY <1>2, <1>3

\* A job begins.
LEMMA BeginStep ==
  ASSUME WorkInv, NEW d \in Agents, NEW j \in Jobs, job' = [job EXCEPT ![d] = j],
         UNCHANGED <<historyVars, exec, active, life, starts>>, working' \subseteq working,
         LET x == <<d, j.attempt>>
         IN \/ j.step = "approve"
            \/ /\ j.step \in {"submit", "confirm"} /\ IsAbout(d, x, j.item)
               /\ j.step = "confirm" => j.item.op = "release"
               /\ j.item.op = "claim" => starts[x] = 0
               /\ j.step = "submit" /\ j.item.op \in Endings => x \notin working'
  PROVE  WorkInv'
<1>1. job'[d] = j
  BY AgentFacts DEF WorkInv, WorkTyped
<1>2. exec' = exec /\ starts' = starts
  OBVIOUS
<1>3. JobHolds(d)'
  BY <1>1, <1>2 DEF JobHolds, At, IsAbout
<1> QED
  BY <1>3, JobAlone

\* The record of an execution that is claimed or reported.
LEMMA AboutRecord ==
  ASSUME WorkInv, NEW d \in Agents, NEW n \in Attempt, exec[<<d, n>>] \in Records,
         NEW op \in Executing
  PROVE  LET i == [by |-> d, op |-> op, who |-> exec[<<d, n>>].executor]
         IN i \in Item /\ IsAbout(d, <<d, n>>, i)
<1>1. exec[<<d, n>>].executor \in Executor /\ d \in Device
  BY AgentFacts, RecordFacts
<1>2. [by |-> d, op |-> op, who |-> exec[<<d, n>>].executor] \in Item
  BY <1>1 DEF Item, Executing
<1> QED
  BY <1>2 DEF IsAbout

\* What a process holds in memory is what the file says.
LEMMA HeldRecord ==
  ASSUME WorkInv, NEW d \in Agents, NEW n \in Attempt, active[<<d, n>>] # NoRecord
  PROVE  active[<<d, n>>] \in Records /\ active[<<d, n>>] = exec[<<d, n>>]
<1>1. RecordHolds(<<d, n>>)
  BY DEF WorkInv
<1> QED
  BY <1>1 DEF RecordHolds

\* The head of what d has.
LEMMA HeadType ==
  ASSUME WorkInv, NEW d \in Agents
  PROVE  saved[d] \in Histories /\ Tip(saved[d]) \in Events /\ <<>> \in Events
<1>1. saved[d] \in Histories
  BY AgentFacts DEF WorkInv, WorkTyped
<1> QED
  BY <1>1, TipType DEF Events

\* A claim begins, anew or again.
LEMMA ClaimStep ==
  ASSUME WorkInv, NEW d \in Agents, Claim(d)
  PROVE  WorkInv'
<1> DEFINE n == View(d).attempt
           x == <<d, n>>
           held == active[x]
<1>1. n \in Attempt /\ UNCHANGED <<historyVars, life, working, starts>>
  BY DEF Claim
<1>2. CASE /\ job' = [job EXCEPT ![d] = [step |-> "approve", head |-> Tip(saved[d]),
                                        attempt |-> n, item |-> Nobody]]
           /\ UNCHANGED <<exec, active>>
  <2> HIDE DEF n
  <2> DEFINE j == [step |-> "approve", head |-> Tip(saved[d]), attempt |-> n, item |-> Nobody]
  <2>1. j \in Jobs /\ j.step = "approve"
    BY <1>1, HeadType DEF Jobs
  <2>2. job' = [job EXCEPT ![d] = j]
    BY <1>2
  <2> HIDE DEF j
  <2> QED
    BY <1>1, <1>2, <2>1, <2>2, BeginStep
<1>3. CASE Reserve(d, x)
  BY <1>1, <1>3, ReserveStep
<1>4. CASE /\ Repeats(held) /\ UNCHANGED <<exec, active>>
           /\ job' = [job EXCEPT ![d] = [step |-> "submit", head |-> <<>>, attempt |-> n,
                                        item |-> [by |-> d, op |-> "claim", who |-> held.executor]]]
  <2> HIDE DEF n
  <2>1. held # NoRecord /\ held.phase = "reserved"
    BY <1>4 DEF Repeats
  <2>2. held \in Records /\ held = exec[x]
    BY <1>1, <2>1, HeldRecord
  <2> DEFINE i == [by |-> d, op |-> "claim", who |-> held.executor]
             j == [step |-> "submit", head |-> <<>>, attempt |-> n, item |-> i]
  <2>3. i \in Item /\ IsAbout(d, x, i) /\ i.op = "claim"
    BY <1>1, <2>2, AboutRecord DEF Executing
  <2>4. starts[x] = 0
    <3>1. RecordHolds(x) /\ starts[x] \in {0, 1}
      BY <1>1 DEF WorkInv, WorkTyped
    <3> QED
      BY <2>1, <2>2, <3>1 DEF RecordHolds
  <2>5. job' = [job EXCEPT ![d] = j]
    BY <1>4
  <2> HIDE DEF i
  <2>6. j \in Jobs /\ j.step = "submit" /\ j.attempt = n /\ j.item = i
    BY <1>1, <2>3, HeadType DEF Jobs
  <2> HIDE DEF j, x
  <2>7. <<d, j.attempt>> = x
    BY <2>6 DEF x
  <2>8. working' \subseteq working /\ j.item.op \notin Endings
    BY <1>1, <2>3, <2>6, AgentFacts
  <2>9. IsAbout(d, <<d, j.attempt>>, j.item) /\ starts[<<d, j.attempt>>] = 0
    BY <2>3, <2>4, <2>6, <2>7
  <2>10. UNCHANGED <<historyVars, exec, active, life, starts>>
    BY <1>1, <1>4
  <2> QED
    BY <2>5, <2>6, <2>8, <2>9, <2>10, BeginStep
<1> QED
  BY <1>2, <1>3, <1>4 DEF Claim

\* The answer to the approval.
LEMMA ApprovedStep ==
  ASSUME WorkInv, NEW d \in Agents, Approved(d)
  PROVE  WorkInv'
<1>1. job[d].attempt \in Attempt
  BY JobType DEF Approved, At
<1> QED
  BY <1>1, ReserveStep, ThrowStep DEF Approved

\* A report begins; what it ends has ended.
LEMMA ReportStep ==
  ASSUME WorkInv, NEW d \in Agents, NEW op \in {"progress", "block", "result", "release"},
         Report(d, op)
  PROVE  WorkInv'
<1> DEFINE n == View(d).attempt
           X == View(d).executor
           x == <<d, n>>
           i == [by |-> d, op |-> op, who |-> X]
           j == [step |-> "submit", head |-> <<>>, attempt |-> n, item |-> i]
<1>1. /\ n \in Attempt /\ active[x] # NoRecord /\ active[x].executor = X
      /\ job' = [job EXCEPT ![d] = j]
      /\ working' = IF op \in {"result", "release"} THEN working \ {x} ELSE working
      /\ UNCHANGED <<historyVars, exec, active, life, starts>>
  BY DEF Report
<1> HIDE DEF n, X
<1>2. exec[x] \in Records /\ exec[x].executor = X
  BY <1>1, HeldRecord
<1>3. i \in Item /\ IsAbout(d, x, i) /\ i.op = op
  BY <1>1, <1>2, AboutRecord DEF Executing
<1> HIDE DEF i
<1>4. j \in Jobs /\ j.step = "submit" /\ j.attempt = n /\ j.item = i
  BY <1>1, <1>3, HeadType DEF Jobs
<1> HIDE DEF j, x
<1>5. <<d, j.attempt>> = x
  BY <1>4 DEF x
<1>6. working' \subseteq working /\ (op \in Endings => x \notin working')
  BY <1>1 DEF Endings
<1> QED
  BY <1>1, <1>3, <1>4, <1>5, <1>6, BeginStep

\* A recovery begins.
LEMMA RecoverStep ==
  ASSUME WorkInv, NEW d \in Agents, Recover(d)
  PROVE  WorkInv'
<1> DEFINE n == View(d).attempt
           X == View(d).executor
           x == <<d, n>>
           i == [by |-> d, op |-> "release", who |-> X]
           j == [step |-> "confirm", head |-> Tip(saved[d]), attempt |-> n, item |-> i]
<1>1. /\ n \in Attempt /\ exec[x] \notin {NoRecord, Torn} /\ exec[x].executor = X
      /\ job' = [job EXCEPT ![d] = j]
      /\ UNCHANGED <<historyVars, exec, active, life, working, starts>>
  BY DEF Recover, Missing
<1> HIDE DEF n, X
<1>2. exec[x] \in Records
  BY <1>1 DEF WorkInv, WorkTyped
<1>3. i \in Item /\ IsAbout(d, x, i) /\ i.op = "release"
  BY <1>1, <1>2, AboutRecord DEF Executing
<1> HIDE DEF i
<1>4. j \in Jobs /\ j.step = "confirm" /\ j.attempt = n /\ j.item = i
  BY <1>1, <1>3, HeadType DEF Jobs
<1> HIDE DEF j, x
<1>5. <<d, j.attempt>> = x
  BY <1>4 DEF x
<1> QED
  BY <1>1, <1>3, <1>4, <1>5, BeginStep

\* The principal's answer: what it confirms has ended.
LEMMA ConfirmedStep ==
  ASSUME WorkInv, NEW d \in Agents, Confirmed(d)
  PROVE  WorkInv'
<1> DEFINE x == <<d, job[d].attempt>>
           j == [job[d] EXCEPT !.step = "submit", !.head = <<>>]
<1>1. /\ At(d, "confirm") /\ working' = working \ {x}
      /\ (job' = [job EXCEPT ![d] = j]) \/ Throw(d)
      /\ UNCHANGED <<historyVars, exec, active, life, starts>>
  <2>1. d \in Device /\ job \in [Device -> Jobs \cup {NoJob}]
    BY AgentFacts DEF WorkInv, WorkTyped
  <2> QED
    BY <2>1 DEF Confirmed
<1>2. CASE Throw(d)
  BY <1>1, <1>2, ThrowStep
<1>3. CASE job' = [job EXCEPT ![d] = j]
  <2>1. job[d] \in Jobs
    BY <1>1, JobType DEF At
  <2>2. IsAbout(d, x, job[d].item) /\ job[d].item.op = "release"
    BY <1>1 DEF WorkInv, JobHolds
  <2>3. j \in Jobs /\ j.step = "submit" /\ j.attempt = job[d].attempt /\ j.item = job[d].item
    BY <2>1, HeadType DEF Jobs
  <2> HIDE DEF j, x
  <2>4. <<d, j.attempt>> = x
    BY <2>3 DEF x
  <2> QED
    BY <1>1, <1>3, <2>2, <2>3, <2>4, BeginStep
<1> QED
  BY <1>1, <1>2, <1>3

\* Different attempts have different executions.
LEMMA OwnName ==
  ASSUME WorkInv, NEW x \in Agents \X Attempt, NEW y \in Agents \X Attempt,
         exec[x] \in Records, exec[y] \in Records, exec[x].executor = exec[y].executor
  PROVE  x = y
<1>1. /\ exec[x].executor[1] = x[1] /\ exec[x].executor[2] = x[2]
      /\ exec[y].executor[1] = y[1] /\ exec[y].executor[2] = y[2]
  BY DEF WorkInv, RecordHolds
<1> QED
  BY <1>1

\* Who signed the operations of an execution.
LEMMA SignedBy ==
  ASSUME WorkInv, NEW x \in Agents \X Attempt, exec[x] \in Records,
         NEW e \in Issued, Last(e).op \in Executing, Last(e).who = exec[x].executor
  PROVE  Last(e).by = x[1]
<1>1. PICK y \in Agents \X Attempt :
        exec[y] \in Records /\ exec[y].executor = Last(e).who /\ Last(e).by = y[1]
  BY DEF WorkInv, Named, NamedBy
<1>2. x = y
  BY <1>1, OwnName
<1> QED
  BY <1>1, <1>2

\* What is on the path that a history traces.
LEMMA OnTip ==
  ASSUME NEW K \in Histories, NEW n \in 1 .. Len(Tip(K))
  PROVE  LET e == Till(Tip(K), n)
         IN e \in K /\ e \in Events /\ Len(e) = n /\ Last(e) = Tip(K)[n] /\ Last(e) \in Item
<1>1. Tip(K) \in Events /\ Traced(K, Tip(K))
  BY ProjectionGoes, TipType DEF Goes, Tip
<1> DEFINE s == Tip(K)
<1> HIDE DEF s
<1>2. s \in Events /\ Traced(K, s) /\ n \in 1 .. Len(s)
  BY <1>1 DEF s
<1>3. n \in 0 .. Len(s) /\ n \in 1 .. n
  BY <1>2 DEF Events
<1>4. Till(s, n) \in K /\ Till(s, n) \in Events /\ Len(Till(s, n)) = n /\ Till(s, n)[n] = s[n]
  BY <1>2, <1>3, TracedIsThere, TillSeq
<1>5. s[n] \in Item
  BY <1>2, StoryItem
<1>6. Last(Till(s, n)) = s[n]
  BY <1>4 DEF Last
<1> QED
  BY <1>4, <1>5, <1>6 DEF s

\* What the log shows a device to be running has not ended, in whatever has been
\* signed: the device would know.
LEMMA RunningGoesOn ==
  ASSUME WorkInv, NEW x \in Agents \X Attempt, exec[x] \in Records,
         Usable(x[1]), outbox[x[1]] = {}, View(x[1]).status = "running",
         View(x[1]).executor = exec[x].executor, NEW e \in Issued, Last(e).op \in Endings
  PROVE  Last(e).who # exec[x].executor
<1> SUFFICES ASSUME Last(e).who = exec[x].executor PROVE FALSE
  OBVIOUS
<1>0. PICK d : d = x[1]
  OBVIOUS
<1>1. PICK X : X = exec[x].executor
  OBVIOUS
<1>2. PICK K : K = saved[d]
  OBVIOUS
<1>3. K \in Histories /\ K \subseteq published /\ d \in Agents /\ d \in Device
  BY <1>0, <1>2, AgentFacts, HeadType DEF WorkInv, HistoryHolds, Flows
<1>4. X # Nobody
  BY <1>1, RecordFacts
<1>5. e \in K
  <2>1. Own(d, e)
    BY <1>0, AgentFacts, SignedBy DEF Own
  <2>2. e \in published => e \in K
    BY <1>0, <1>2, <1>3, <2>1 DEF WorkInv, HistoryHolds, Flows
  <2>3. ASSUME NEW c \in Device, e \in outbox[c] PROVE FALSE
    <3>1. Own(c, e)
      BY <2>3 DEF WorkInv, HistoryHolds, Flows
    <3> QED
      BY <1>0, <2>1, <2>3, <3>1 DEF Own
  <2> QED
    BY <2>2, <2>3 DEF Issued
<1>6. ~Conflicted(K) /\ PendingHistory(K) = {}
  BY <1>0, <1>2 DEF Usable, Conflicted, PendingHistory
<1>7. PICK s : s = Tip(K)
  OBVIOUS
<1>8. s \in Events /\ Len(s) \in Nat
  BY <1>3, <1>7, TipType DEF Events
<1>9. e # <<>> /\ Lawful(e) /\ e \in Events
  BY DEF WorkInv, HistoryHolds, Grown, Lawful
<1>10. Front(e) \in Events /\ Len(Front(e)) \in Nat
  BY <1>9, FrontTill DEF Events
<1>11. Len(Front(e)) \in 0 .. Len(s) /\ Front(e) = Till(s, Len(Front(e)))
  <2>1. IsPrefix(Front(e), Projection(K).path)
    BY <1>5, <1>6 DEF PendingHistory, Unreached
  <2>2. Len(Front(e)) <= Len(s) /\ Till(Front(e), Len(Front(e))) = Till(s, Len(Front(e)))
    BY <1>7, <2>1 DEF IsPrefix, Tip, Till
  <2> QED
    BY <1>8, <1>10, <2>2, TillEnd
<1> DEFINE k == Len(Front(e))
           m == k + 1
<1>12. k < Len(s) /\ e = Till(s, m)
  BY <1>3, <1>5, <1>6, <1>7, <1>9, <1>11, Reached
<1> HIDE DEF k
<1>13. k \in Nat /\ m \in 1 .. Len(s) /\ m \in 0 .. Len(s) /\ k \in 0 .. Len(s)
       /\ k + 1 <= Len(s) /\ Len(s) \in m .. Len(s)
  BY <1>8, <1>10, <1>12 DEF k
<1>14. PICK g : IsTold(g, s) /\ View(d) = g[Len(s)]
  <2>1. Told(Projection(K))
    BY <1>3, ProjectionTold
  <2> QED
    BY <1>2, <1>7, <2>1 DEF Told, View, Tip
<1>15. s[m] = Last(e)
  BY <1>3, <1>7, <1>12, <1>13, OnTip
<1>16. g[k].executor = X /\ g[m].status \in Finished
  <2>1. /\ g[k] \in Stages /\ s[m] \in Item
        /\ Permitted(g[k], s[m]) /\ g[m] = After(g[k], s[m])
    BY <1>8, <1>13, <1>14, StoryOne
  <2> QED
    BY <1>1, <1>15, <2>1, AfterOne
<1>17. PICK p \in 0 + 1 .. k : s[p].op = "claim" /\ s[p].who = X
  BY <1>4, <1>8, <1>13, <1>14, <1>16, StoryClaimed DEF ClaimsIn
<1>18. PICK q \in m + 1 .. Len(s) : s[q].op = "claim" /\ s[q].who = X
  <2>1. g[Len(s)].status = "running" /\ g[Len(s)].executor = X
    BY <1>0, <1>1, <1>14
  <2>2. g[Len(s)].status \notin Finished
    BY <2>1 DEF Finished
  <2> HIDE DEF m
  <2>3. ClaimsIn(s, X, m, Len(s))
    BY <1>4, <1>8, <1>13, <1>14, <1>16, <2>1, <2>2, StoryOver
  <2> QED
    BY <2>3 DEF ClaimsIn
<1>19. p \in 1 .. Len(s) /\ q \in 1 .. Len(s) /\ p # q
  BY <1>8, <1>13
<1>20. /\ Till(s, p) \in Issued /\ Len(Till(s, p)) = p /\ Last(Till(s, p)) = s[p] /\ s[p] \in Item
       /\ Till(s, q) \in Issued /\ Len(Till(s, q)) = q /\ Last(Till(s, q)) = s[q] /\ s[q] \in Item
  BY <1>3, <1>7, <1>19, OnTip DEF Issued
<1>21. s[p].by = x[1] /\ s[q].by = x[1]
  BY <1>1, <1>17, <1>18, <1>20, SignedBy DEF Executing
<1>22. s[p] = s[q]
  BY <1>17, <1>18, <1>20, <1>21 DEF Item
<1>23. Till(s, p) = Till(s, q)
  BY <1>17, <1>20, <1>22 DEF WorkInv, HistoryHolds, ClaimedOnce
<1> QED
  BY <1>19, <1>20, <1>23

\* The operation is signed, or was recorded before.
LEMMA SubmitStep ==
  ASSUME WorkInv, NEW d \in Agents, SubmitJob(d)
  PROVE  WorkInv'
<1>0. PICK i : i = job[d].item
  OBVIOUS
<1>1. PICK x : x = <<d, job[d].attempt>>
  OBVIOUS
<1> DEFINE j == [job[d] EXCEPT !.step = "await"]
<1>2. /\ At(d, "submit") /\ job[d] \in Jobs /\ d \in Device
      /\ UNCHANGED <<exec, active, life, working, starts>>
  BY AgentFacts, JobType DEF SubmitJob, At
<1>3. job' = [job EXCEPT ![d] = j] /\ job'[d] = j
  BY <1>2 DEF SubmitJob, Step, WorkInv, WorkTyped
<1>4. j \in Jobs /\ j.step = "await" /\ j.attempt = job[d].attempt /\ j.item = i
  BY <1>0, <1>2 DEF Jobs
<1>5. /\ IsAbout(d, x, i) /\ i \in Item /\ x \in Agents \X Attempt
      /\ i.op = "claim" => starts[x] = 0
      /\ i.op \in Endings => x \notin working
  BY <1>0, <1>1, <1>2, JobType DEF WorkInv, JobHolds, IsAbout, At
<1>6. /\ HistoryTyped' /\ HistoryHolds' /\ ClaimsKept
      /\ \A e \in Issued' : e \in Issued \/ Last(e) = i
  <2>1. HistoryTyped /\ HistoryHolds
    BY DEF WorkInv, WorkTyped, HistoryTyped
  <2>2. CASE UNCHANGED historyVars
    BY <2>1, <2>2, HistoryStays
  <2>3. CASE /\ i.op = "claim" => ~Recorded(d, i)
             /\ \E lost \in Lost(d) : Sign(d, i, lost)
    BY <1>2, <1>5, <2>1, <2>3, SignKeeps
  <2> QED
    BY <1>0, <2>2, <2>3 DEF SubmitJob
<1> HIDE DEF j
<1>7. exec' = exec /\ starts' = starts /\ working' = working
  BY <1>2
<1>8. Named'
  <2> SUFFICES ASSUME NEW e \in Issued', Last(e).op \in Executing PROVE NamedBy(e)'
    BY DEF Named
  <2>1. CASE e \in Issued
    BY <1>7, <2>1 DEF WorkInv, Named, NamedBy
  <2>2. CASE Last(e) = i
    BY <1>1, <1>5, <1>7, <2>2 DEF NamedBy, IsAbout
  <2> QED
    BY <1>6, <2>1, <2>2
<1>9. Ended'
  <2> SUFFICES ASSUME NEW e \in Issued', NEW y \in working, Last(e).op \in Endings
               PROVE  Last(e).who # exec[y].executor
    BY <1>7 DEF Ended
  <2>1. CASE e \in Issued
    BY <2>1 DEF WorkInv, Ended
  <2>2. CASE Last(e) = i
    <3>1. x # y
      BY <1>5, <2>2
    <3>2. y \in Agents \X Attempt /\ exec[y] \in Records
      BY DEF WorkInv, WorkTyped, RecordHolds
    <3>3. exec[x] \in Records /\ exec[x].executor = i.who
      BY <1>5 DEF IsAbout
    <3> QED
      BY <1>5, <2>2, <3>1, <3>2, <3>3, OwnName
  <2> QED
    BY <1>6, <2>1, <2>2
<1>10. JobHolds(d)'
  <2>1. <<d, job'[d].attempt>> = x /\ job'[d].item = i
    BY <1>1, <1>3, <1>4
  <2>2. ~At(d, "submit")' /\ ~At(d, "confirm")' /\ ~At(d, "check")'
    BY <1>3, <1>4 DEF At
  <2>3. IsAbout(d, x, i)'
    BY <1>5, <1>7 DEF IsAbout
  <2> QED
    BY <1>5, <1>7, <2>1, <2>2, <2>3 DEF JobHolds
<1> QED
  BY <1>2, <1>3, <1>4, <1>6, <1>8, <1>9, <1>10, JobOnly

\* What the journal says becomes what the log says.
LEMMA UpdateStep ==
  ASSUME WorkInv, NEW d \in Agents, Update(d)
  PROVE  WorkInv'
<1>0. PICK i : i = job[d].item
  OBVIOUS
<1>1. PICK x : x = <<d, job[d].attempt>>
  OBVIOUS
<1>2. PICK r : r = [exec[x] EXCEPT !.phase = Phase(i.op), !.pid = life[d]]
  OBVIOUS
<1>3. /\ At(d, "await") /\ job[d] \in Jobs /\ d \in Device /\ x \in Agents \X Attempt
      /\ x[1] = d /\ UNCHANGED <<historyVars, life, working, starts>>
  BY <1>1, AgentFacts, JobType DEF Update, At
<1>4. /\ IsAbout(d, x, i) /\ i \in Item
      /\ i.op = "claim" => starts[x] = 0
  BY <1>0, <1>1, <1>3 DEF WorkInv, JobHolds, IsAbout
<1>5. CASE Throw(d) /\ UNCHANGED <<exec, active>>
  BY <1>3, <1>5, ThrowStep
<1>6. CASE /\ exec[x].executor = i.who
           /\ exec' = [exec EXCEPT ![x] = r]
           /\ active' = IF active[x] = NoRecord THEN active ELSE [active EXCEPT ![x] = r]
           /\ IF i.op = "claim" THEN Step(d, "check") ELSE Throw(d)
  <2>1. exec[x] \in Records /\ life[d] \in 0 .. MaxLife
    BY <1>4 DEF IsAbout, WorkInv, WorkTyped
  <2>2. r \in Records /\ r.executor = exec[x].executor /\ r.phase # "reserved"
    BY <1>2, <2>1 DEF Records, Phase
  <2> DEFINE j == IF i.op = "claim" THEN [job[d] EXCEPT !.step = "check"] ELSE NoJob
  <2>3. job' = [job EXCEPT ![d] = j] /\ j \in Jobs \cup {NoJob}
    <3>1. job[d] \in Jobs /\ job \in [Device -> Jobs \cup {NoJob}]
      BY <1>3 DEF WorkInv, WorkTyped
    <3> QED
      BY <1>3, <1>6, <3>1 DEF Step, Throw, Jobs
  <2>4. j = NoJob \/ (i.op = "claim" /\ j.step = "check" /\ j.attempt = job[d].attempt)
    BY <1>3 DEF Jobs
  <2> HIDE DEF j
  <2>5. /\ working' = working /\ starts' = starts /\ life' = life
        /\ saved' = saved /\ outbox' = outbox /\ published' = published
    BY <1>3 DEF historyVars
  <2>6. HistoryTyped' /\ HistoryHolds' /\ ClaimsKept /\ Issued' = Issued
    BY <2>5, HistoryStays DEF WorkInv, WorkTyped, HistoryTyped, historyVars
  <2>7. /\ \A y \in Agents \X Attempt : y # x => exec'[y] = exec[y] /\ active'[y] = active[y]
        /\ \A c \in Agents : c # d => job'[c] = job[c]
        /\ exec' \in [Agents \X Attempt -> Records \cup {Torn, NoRecord}]
        /\ active' \in [Agents \X Attempt -> Records \cup {NoRecord}]
        /\ job' \in [Device -> Jobs \cup {NoJob}]
    BY <1>3, <1>6, <2>2, <2>3, AgentFacts DEF WorkInv, WorkTyped
  <2>8. exec'[x] = r /\ (active'[x] = NoRecord \/ active'[x] = r) /\ job'[d] = j
    BY <1>3, <1>6, <2>3 DEF WorkInv, WorkTyped
  <2>9. WorkTyped'
    BY <2>5, <2>6, <2>7 DEF WorkInv, WorkTyped, HistoryTyped
  <2>10. SameNames
    BY <2>2, <2>7, <2>8 DEF SameNames
  <2>11. Named' /\ Ended'
    BY <2>5, <2>6, <2>10, NamedStays, EndedStays DEF WorkInv
  <2>12. ASSUME NEW c \in Agents PROVE JobHolds(c)'
    <3>1. CASE c # d
      <4>1. \A y \in Agents \X Attempt : y[1] = c => exec'[y] = exec[y]
        BY <1>3, <2>7, <3>1
      <4> QED
        BY <2>5, <2>6, <2>7, <3>1, <4>1, JobStays
    <3>2. CASE c = d
      <4>1. CASE j = NoJob
        BY <2>8, <3>2, <4>1 DEF JobHolds, At
      <4>2. CASE i.op = "claim" /\ j.step = "check" /\ j.attempt = job[d].attempt
        <5>1. <<d, job'[d].attempt>> = x
          BY <1>1, <2>8, <4>2
        <5>2. ~At(d, "submit")' /\ ~At(d, "confirm")' /\ ~At(d, "await")'
          BY <2>8, <4>2 DEF At
        <5>3. IsClaimed(x)
          <6>1. PICK e \in saved[d] \ outbox[d] : Last(e) = i
            BY <1>0 DEF Update
          <6>2. i = ClaimOf(x)
            BY <1>3, <1>4, <1>6, <4>2 DEF ClaimOf, IsAbout, Item
          <6>3. e \in Fixed(d)
            BY <1>4, <4>2, <6>1 DEF Fixed, Own, IsAbout
          <6> QED
            BY <1>3, <6>1, <6>2, <6>3 DEF IsClaimed
        <5>4. IsClaimed(x)'
          BY <1>3, <2>2, <2>6, <2>8, <5>3, ClaimStays
        <5> QED
          BY <1>4, <2>2, <2>5, <2>8, <3>2, <4>2, <5>1, <5>2, <5>4 DEF JobHolds
      <4> QED
        BY <2>4, <4>1, <4>2
    <3> QED
      BY <3>1, <3>2
  <2>13. ASSUME NEW y \in Agents \X Attempt PROVE RecordHolds(y)'
    <3>1. CASE y # x
      BY <2>5, <2>6, <2>7, <3>1, RecordStays
    <3>2. CASE y = x
      <4>1. RecordHolds(x)
        BY <1>3 DEF WorkInv
      <4>2. x \in working' => IsClaimed(x)'
        BY <1>3, <2>2, <2>5, <2>6, <2>8, <4>1, ClaimStays DEF RecordHolds
      <4> QED
        BY <2>1, <2>2, <2>5, <2>8, <3>2, <4>1, <4>2, RecordFacts DEF RecordHolds
    <3> QED
      BY <3>1, <3>2
  <2> QED
    BY <2>6, <2>9, <2>11, <2>12, <2>13 DEF WorkInv
<1> QED
  BY <1>0, <1>1, <1>2, <1>5, <1>6 DEF Update

\* The work starts, if it is still the device's to do.
LEMMA CheckStep ==
  ASSUME WorkInv, NEW d \in Agents, Check(d)
  PROVE  WorkInv'
<1>1. PICK x : x = <<d, job[d].attempt>>
  OBVIOUS
<1>2. /\ At(d, "check") /\ Throw(d) /\ x \in Agents \X Attempt /\ x[1] = d
      /\ UNCHANGED <<historyVars, exec, active, life>>
  BY <1>1, JobType DEF Check, At
<1>3. starts[x] = 0 /\ exec[x] \in Records /\ exec[x].phase # "reserved" /\ IsClaimed(x)
  BY <1>1, <1>2 DEF WorkInv, JobHolds
<1>4. CASE UNCHANGED <<working, starts>>
  BY <1>2, <1>4, ThrowStep
<1>5. CASE /\ Usable(d) /\ outbox[d] = {}
           /\ View(d).status = "running" /\ View(d).executor = exec[x].executor
           /\ working' = working \cup {x} /\ starts' = [starts EXCEPT ![x] = @ + 1]
  <2>1. starts' \in [Agents \X Attempt -> {0, 1}] /\ starts'[x] = 1
        /\ \A y \in Agents \X Attempt : y # x => starts'[y] = starts[y]
    BY <1>2, <1>3, <1>5 DEF WorkInv, WorkTyped
  <2>2. /\ exec' = exec /\ active' = active /\ life' = life
        /\ saved' = saved /\ outbox' = outbox /\ published' = published
    BY <1>2 DEF historyVars
  <2>3. HistoryTyped' /\ HistoryHolds' /\ ClaimsKept /\ Issued' = Issued
    BY <2>2, HistoryStays DEF WorkInv, WorkTyped, HistoryTyped, historyVars
  <2>4. /\ job' \in [Device -> Jobs \cup {NoJob}] /\ job'[d] = NoJob
        /\ \A c \in Agents : c # d => job'[c] = job[c]
    BY <1>2, AgentFacts DEF Throw, WorkInv, WorkTyped
  <2>5. WorkTyped'
    BY <1>2, <1>5, <2>1, <2>2, <2>3, <2>4 DEF WorkInv, WorkTyped, HistoryTyped
  <2>6. Named'
    BY <2>2, <2>3 DEF WorkInv, Named, NamedBy
  <2>7. Ended'
    <3> SUFFICES ASSUME NEW e \in Issued, NEW y \in working', Last(e).op \in Endings
                 PROVE  Last(e).who # exec[y].executor
      BY <2>2, <2>3 DEF Ended
    <3>1. CASE y \in working
      BY <3>1 DEF WorkInv, Ended
    <3>2. CASE y = x
      BY <1>2, <1>3, <1>5, <3>2, RunningGoesOn
    <3> QED
      BY <1>5, <3>1, <3>2
  <2>8. ASSUME NEW c \in Agents PROVE JobHolds(c)'
    <3>1. CASE c # d
      <4>1. \A y \in Agents \X Attempt : y[1] = c =>
              starts'[y] = starts[y] /\ (y \in working' => y \in working)
        BY <1>2, <1>5, <2>1, <3>1
      <4> QED
        BY <2>2, <2>3, <2>4, <3>1, <4>1, JobStays
    <3>2. CASE c = d
      BY <2>4, <3>2 DEF JobHolds, At
    <3> QED
      BY <3>1, <3>2
  <2>9. ASSUME NEW y \in Agents \X Attempt PROVE RecordHolds(y)'
    <3>1. CASE y # x
      BY <1>5, <2>1, <2>2, <2>3, <3>1, RecordStays
    <3>2. CASE y = x
      <4>1. RecordHolds(x)
        BY <1>2 DEF WorkInv
      <4>2. IsClaimed(x)'
        BY <1>2, <1>3, <2>2, <2>3, ClaimStays
      <4> QED
        BY <1>3, <2>1, <2>2, <3>2, <4>1, <4>2 DEF RecordHolds
    <3> QED
      BY <3>1, <3>2
  <2> QED
    BY <2>3, <2>5, <2>6, <2>7, <2>8, <2>9 DEF WorkInv
<1> QED
  BY <1>1, <1>4, <1>5 DEF Check

\* The process dies, and forgets what it held in memory.
LEMMA DieStep ==
  ASSUME WorkInv, NEW d \in Agents, Die(d)
  PROVE  WorkInv'
<1>1. /\ exec' = exec /\ working' = working /\ starts' = starts
      /\ saved' = saved /\ outbox' = outbox /\ published' = published
  BY DEF Die, historyVars
<1>2. HistoryTyped' /\ HistoryHolds' /\ ClaimsKept /\ Issued' = Issued
  BY <1>1, HistoryStays DEF WorkInv, WorkTyped, HistoryTyped, historyVars
<1>3. life' \in [Agents -> 0 .. MaxLife]
  <2>1. life \in [Agents -> 0 .. MaxLife] /\ life[d] < MaxLife /\ life' = [life EXCEPT ![d] = @ + 1]
    BY DEF Die, WorkInv, WorkTyped
  <2>2. life[d] + 1 \in 0 .. MaxLife
    BY <2>1, WorkAssumption
  <2> QED
    BY <2>1, <2>2
<1>4. /\ job' \in [Device -> Jobs \cup {NoJob}] /\ job'[d] = NoJob
      /\ \A c \in Agents : c # d => job'[c] = job[c]
  BY AgentFacts DEF Die, WorkInv, WorkTyped
<1>5. /\ active' \in [Agents \X Attempt -> Records \cup {NoRecord}]
      /\ \A x \in Agents \X Attempt :
           (x[1] = d /\ active'[x] = NoRecord) \/ (x[1] # d /\ active'[x] = active[x])
  BY DEF Die, WorkInv, WorkTyped
<1>6. WorkTyped'
  BY <1>1, <1>2, <1>3, <1>4, <1>5 DEF WorkInv, WorkTyped, HistoryTyped
<1>7. SameNames
  BY <1>1 DEF SameNames
<1>8. Named' /\ Ended'
  BY <1>1, <1>2, <1>7, NamedStays, EndedStays DEF WorkInv
<1>9. ASSUME NEW c \in Agents PROVE JobHolds(c)'
  <2>1. CASE c # d
    BY <1>1, <1>2, <1>4, <2>1, JobStays
  <2>2. CASE c = d
    BY <1>4, <2>2 DEF JobHolds, At
  <2> QED
    BY <2>1, <2>2
<1>10. ASSUME NEW x \in Agents \X Attempt PROVE RecordHolds(x)'
  <2>1. CASE active'[x] = active[x]
    BY <1>1, <1>2, <2>1, RecordStays
  <2>2. CASE active'[x] = NoRecord
    <3>1. RecordHolds(x)
      BY DEF WorkInv
    <3>2. x \in working' => IsClaimed(x)'
      BY <1>1, <1>2, <3>1, ClaimStays DEF RecordHolds
    <3> QED
      BY <1>1, <2>2, <3>1, <3>2 DEF RecordHolds
  <2> QED
    BY <1>5, <2>1, <2>2
<1> QED
  BY <1>2, <1>6, <1>8, <1>9, <1>10 DEF WorkInv

-----------------------------------------------------------------------------
(* The steps of the history                                                *)

\* What a change of keys may cost.
LEMMA LostType ==
  ASSUME NEW d \in Device, NEW lost \in Lost(d)
  PROVE  lost \in SUBSET Droppable(d)
BY DEF Lost

\* The logs and the creator do not touch what an agent does.
LEMMA HistoryStepKeeps ==
  ASSUME WorkInv, NEW d \in Device, HistoryStep(d), UNCHANGED workVars
  PROVE  WorkInv'
<1>1. HistoryTyped /\ HistoryHolds
  BY DEF WorkInv, WorkTyped, HistoryTyped
<1>2. ASSUME NEW e \in outbox[d], Publish(d, e) PROVE WorkInv'
  <2>1. HistoryTyped' /\ HistoryHolds' /\ ClaimsKept /\ Issued' \subseteq Issued
    BY <1>1, <1>2, PublishKeeps
  <2> QED
    BY <2>1, HistoryOnly
<1>3. ASSUME NEW lost \in Lost(d), NEW e \in published, Learn(d, {e}, lost) PROVE WorkInv'
  <2> DEFINE S == {e}
             T == {}
  <2>1. S \in SUBSET published /\ T \in SUBSET outbox[d] /\ T \subseteq S
        /\ lost \in SUBSET Droppable(d)
    BY LostType
  <2>2. saved' = [saved EXCEPT ![d] = (saved[d] \ lost) \cup S] /\ UNCHANGED published
    BY <1>3 DEF Learn
  <2>3. outbox' = [outbox EXCEPT ![d] = outbox[d] \ T]
    BY <1>1, <1>3 DEF Learn, HistoryTyped
  <2> HIDE DEF S, T
  <2>4. HistoryTyped' /\ HistoryHolds' /\ ClaimsKept /\ Issued' \subseteq Issued
    BY <1>1, <2>1, <2>2, <2>3, StoreKeeps
  <2> QED
    BY <2>4, HistoryOnly
<1>4. ASSUME NEW lost \in Lost(d), NEW e \in outbox[d], Settle(d, e, lost) PROVE WorkInv'
  <2> DEFINE S == {e}
  <2>1. S \in SUBSET published /\ S \in SUBSET outbox[d] /\ S \subseteq S
        /\ lost \in SUBSET Droppable(d)
    BY <1>4, LostType DEF Settle
  <2>2. saved' = [saved EXCEPT ![d] = (saved[d] \ lost) \cup S] /\ UNCHANGED published
    BY <1>4 DEF Settle
  <2>3. outbox' = [outbox EXCEPT ![d] = outbox[d] \ S]
    BY <1>4 DEF Settle
  <2> HIDE DEF S
  <2>4. HistoryTyped' /\ HistoryHolds' /\ ClaimsKept /\ Issued' \subseteq Issued
    BY <1>1, <2>1, <2>2, <2>3, StoreKeeps
  <2> QED
    BY <2>4, HistoryOnly
<1> QED
  BY <1>2, <1>3, <1>4 DEF HistoryStep

\* Neither does what the creator says.
LEMMA CreatorStepKeeps ==
  ASSUME WorkInv, NEW i \in Tried, Announce(i), UNCHANGED workVars
  PROVE  WorkInv'
<1>1. HistoryTyped /\ HistoryHolds
  BY DEF WorkInv, WorkTyped, HistoryTyped
<1>2. /\ HistoryTyped' /\ HistoryHolds' /\ ClaimsKept
      /\ \A e \in Issued' : e \in Issued \/ Last(e).op \notin Executing
  BY <1>1, AnnounceKeeps
<1> QED
  BY <1>2, HistoryOnly

-----------------------------------------------------------------------------
(* The invariant of the execution                                          *)

\* What is given is a lawful history.
LEMMA GivenLawful ==
  /\ Given \in Histories
  /\ \A e \in Given : e # <<>> /\ Lawful(e) /\ Front(e) \in Given \cup {<<>>}
                      /\ Last(e).op \notin Executing
<1>1. Given \in Histories
  BY WorkAssumption DEF Histories, Events
<1>2. ASSUME NEW e \in Given
      PROVE  e # <<>> /\ Lawful(e) /\ Front(e) \in Given \cup {<<>>} /\ Last(e).op \notin Executing
  <2>1. /\ e \in Events /\ e # <<>> /\ Last(e).op \notin Executing
        /\ Front(e) \in Given \cup {<<>>}
        /\ \E K \in SUBSET Given : Front(e) = Tip(K) /\ Permitted(Projection(K).stage, Last(e))
    BY WorkAssumption DEF Events
  <2>2. PICK K \in SUBSET Given : Front(e) = Tip(K) /\ Permitted(Projection(K).stage, Last(e))
    BY <2>1
  <2>3. K \in Histories
    BY <1>1, HistorySubset
  <2>4. /\ Len(e) \in Nat /\ Len(e) # 0 /\ Front(e) \in Events /\ Len(Front(e)) = Len(e) - 1
        /\ \A n \in 1 .. Len(e) - 1 : Front(e)[n] = e[n]
    BY <2>1, FrontTill
  <2>5. Last(e) \in Item
    <3>1. Len(e) \in 1 .. Len(e)
      BY <2>4
    <3> QED
      BY <2>1, <3>1, StoryItem DEF Last
  <2> DEFINE s == Front(e)
             f == Append(s, Last(e))
  <2>6. /\ f \in Seq(Item) /\ Len(f) = Len(s) + 1 /\ f[Len(s) + 1] = Last(e)
        /\ \A n \in 1 .. Len(s) : f[n] = s[n]
    <3> HIDE DEF s
    <3> QED
      BY <2>4, <2>5 DEF Events, s
  <2>7. f = e
    <3> HIDE DEF f
    <3>1. \A n \in 1 .. Len(f) : f[n] = e[n]
      BY <2>4, <2>6 DEF Last
    <3>2. e \in Seq(Item) /\ f \in Seq(Item) /\ Len(f) = Len(e)
      BY <2>1, <2>4, <2>6 DEF Events
    <3> QED
      BY <3>1, <3>2, SeqEqual
  <2>8. Lawful(Append(Tip(K), Last(e)))
    BY <2>2, <2>3, <2>5, SignedLawful
  <2> QED
    BY <2>1, <2>2, <2>7, <2>8
<1> QED
  BY <1>1, <1>2

\* What holds at the start.
LEMMA WorkInit == Init => WorkInv
<1> SUFFICES ASSUME Init PROVE WorkInv
  OBVIOUS
<1>1. /\ saved = [d \in Device |-> Given] /\ outbox = [d \in Device |-> {}] /\ published = Given
      /\ working = {} /\ \A d \in Device : job[d] = NoJob
      /\ \A x \in Agents \X Attempt : exec[x] = NoRecord /\ active[x] = NoRecord /\ starts[x] = 0
  BY DEF Init
<1>2. Issued = Given
  BY <1>1 DEF Issued
<1>3. WorkTyped
  <2>1. MaxLife \in Nat
    BY WorkAssumption
  <2>2. 0 \in 0 .. MaxLife
    BY <2>1
  <2> QED
    BY <1>1, <2>2, GivenLawful DEF Init, WorkTyped
<1>4. Flows
  BY <1>1 DEF Flows
<1>5. Grown
  BY <1>1, <1>2, GivenLawful DEF Grown
<1>6. ClaimedOnce /\ Named
  BY <1>2, GivenLawful DEF ClaimedOnce, Named, Executing
<1>7. Ended
  BY <1>1 DEF Ended
<1>8. \A d \in Agents : JobHolds(d)
  BY <1>1, AgentFacts DEF JobHolds, At
<1>9. \A x \in Agents \X Attempt : RecordHolds(x)
  BY <1>1, RecordFacts DEF RecordHolds
<1> QED
  BY <1>3, <1>4, <1>5, <1>6, <1>7, <1>8, <1>9 DEF WorkInv, HistoryHolds

\* Every step keeps it.
LEMMA WorkNext == WorkInv /\ [Next]_vars => WorkInv'
<1> SUFFICES ASSUME WorkInv, [Next]_vars PROVE WorkInv'
  OBVIOUS
<1>1. ASSUME NEW d \in Agents, WorkStep(d) PROVE WorkInv'
  BY <1>1, ClaimStep, ApprovedStep, SubmitStep, UpdateStep, CheckStep, RecoverStep,
     ConfirmedStep, RefusedStep, DieStep, ReportStep DEF WorkStep
<1>2. ASSUME NEW d \in Device, HistoryStep(d), UNCHANGED workVars PROVE WorkInv'
  BY <1>2, HistoryStepKeeps
<1>3. ASSUME NEW i \in Tried, Announce(i), UNCHANGED workVars PROVE WorkInv'
  BY <1>3, CreatorStepKeeps
<1>4. CASE UNCHANGED vars
  <2>1. UNCHANGED historyVars /\ UNCHANGED workVars
    BY <1>4 DEF vars
  <2>2. HistoryTyped' /\ HistoryHolds' /\ ClaimsKept /\ Issued' = Issued
    BY <2>1, HistoryStays DEF WorkInv, WorkTyped, HistoryTyped
  <2> QED
    BY <2>1, <2>2, HistoryOnly
<1> QED
  BY <1>1, <1>2, <1>3, <1>4 DEF Next

\* The invariant of the execution.
THEOREM WorkInvariance == Spec => []WorkInv
BY WorkInit, WorkNext, PTL DEF Spec

\* An attempt is started at most once: claim() reserves it in a file that is created
\* exclusively, and says start: true only for a record that it has not started.
THEOREM StartsOnce == Spec => []StartedOnce
<1>1. WorkInv => StartedOnce
  BY DEF WorkInv, WorkTyped, StartedOnce
<1> QED
  BY <1>1, WorkInvariance, PTL

\* What is worked on has been claimed where everyone can see it: claim() waits until its
\* operation is in the history, and a device does not lose what it has published.
THEOREM WorkClaimed == Spec => []WorkIsClaimed
<1>1. WorkInv => WorkIsClaimed
  <2> SUFFICES ASSUME WorkInv, NEW x \in working
               PROVE  \E e \in published \cap saved[x[1]] :
                        Last(e) = [by |-> x[1], op |-> "claim", who |-> exec[x].executor]
    BY DEF WorkIsClaimed
  <2>1. x \in Agents \X Attempt /\ x[1] \in Device
    BY AgentFacts DEF WorkInv, WorkTyped
  <2>2. PICK e \in Fixed(x[1]) : Last(e) = ClaimOf(x)
    BY <2>1 DEF WorkInv, RecordHolds, IsClaimed
  <2>3. e \in saved[x[1]] /\ e \in published
    BY <2>1, <2>2 DEF Fixed, WorkInv, HistoryHolds, Flows
  <2> QED
    BY <2>2, <2>3 DEF ClaimOf
<1> QED
  BY <1>1, WorkInvariance, PTL

\* Without a conflict there is no claim after that of somebody who works.
LEMMA NoLaterClaim ==
  ASSUME WorkInv, ~Conflicted(published), NEW x \in working, NEW e \in published, NEW f \in published,
         Last(e) = ClaimOf(x), Last(f).op = "claim"
  PROVE  ~(Len(e) < Len(f))
<1> SUFFICES ASSUME Len(e) < Len(f) PROVE FALSE
  OBVIOUS
<1>1. PICK K : K = published
  OBVIOUS
<1>2. PICK s : s = Tip(K)
  OBVIOUS
<1>3. PICK X : X = exec[x].executor
  OBVIOUS
<1>4. K \in Histories /\ K \subseteq Issued
  BY <1>1 DEF WorkInv, WorkTyped, Issued
<1>5. \A h \in K : h # <<>> /\ Lawful(h) /\ Front(h) \in K \cup {<<>>}
  BY <1>1, <1>4 DEF WorkInv, HistoryHolds, Grown
<1>6. \A h \in K : Len(h) <= Len(s) /\ h = Till(s, Len(h))
  BY <1>1, <1>2, <1>4, <1>5, OnePath
<1> DEFINE a == Len(e)
           b == Len(f)
           c == b - 1
<1>7. a \in Nat /\ a # 0 /\ b \in Nat /\ b # 0
  BY <1>1, <1>5, FrontTill DEF Lawful
<1>8. a <= Len(s) /\ e = Till(s, a) /\ b <= Len(s) /\ f = Till(s, b)
  BY <1>1, <1>6
<1>9. s \in Events /\ Len(s) \in Nat
  BY <1>2, <1>4, TipType DEF Events
<1>10. a < b
  OBVIOUS
<1> HIDE DEF a, b
<1>11. /\ a \in 1 .. Len(s) /\ a \in 0 .. Len(s) /\ b \in 1 .. Len(s)
       /\ c \in Nat /\ c + 1 = b /\ c + 1 <= Len(s) /\ c \in a .. Len(s)
       /\ a - 1 \in Nat /\ (a - 1) + 1 = a /\ (a - 1) + 1 <= Len(s)
  BY <1>7, <1>8, <1>9, <1>10
<1>12. s[a] = Last(e) /\ s[b] = Last(f)
  BY <1>2, <1>4, <1>8, <1>11, OnTip
<1>13. PICK g : IsTold(g, s)
  BY <1>2, <1>4, ProjectionTold DEF Told, Tip
<1>14. g[a].status = "running" /\ g[a].executor = X
  <2>1. /\ g[a - 1] \in Stages /\ s[a] \in Item
        /\ Permitted(g[a - 1], s[a]) /\ g[a] = After(g[a - 1], s[a])
    BY <1>9, <1>11, <1>13, StoryOne
  <2>2. s[a].op = "claim" /\ s[a].who = X
    BY <1>3, <1>12 DEF ClaimOf
  <2> QED
    BY <2>1, <2>2, AfterOne
<1> HIDE DEF c
<1>15. g[c].status = "offered"
  <2>1. /\ g[c] \in Stages /\ s[c + 1] \in Item
        /\ Permitted(g[c], s[c + 1]) /\ g[c + 1] = After(g[c], s[c + 1])
    BY <1>9, <1>11, <1>13, StoryOne
  <2> QED
    BY <1>11, <1>12, <2>1, AfterOne
<1>16. EndsIn(s, X, a, c)
  <2>1. g[a].status \in Busy /\ g[c].status \notin Busy
    BY <1>14, <1>15 DEF Busy
  <2> QED
    BY <1>9, <1>11, <1>13, <1>14, <2>1, StoryBusy
<1>17. PICK k \in a + 1 .. c : s[k].op \in Endings /\ s[k].who = X
  BY <1>16 DEF EndsIn
<1>18. k \in 1 .. Len(s)
  BY <1>9, <1>11
<1>19. Till(s, k) \in Issued /\ Last(Till(s, k)) = s[k]
  BY <1>2, <1>4, <1>18, OnTip
<1> QED
  BY <1>3, <1>17, <1>19 DEF WorkInv, Ended

\* Nobody else works while one does, unless the room has a conflict, which halts the
\* assignment for all: an offer follows the end of the work that came before it, and
\* nobody reports that end while it still works.
THEOREM OneWorks == Spec => []OneWorker
<1>1. WorkInv => OneWorker
  <2> SUFFICES ASSUME WorkInv, Cardinality(working) > 1, ~Conflicted(published) PROVE FALSE
    BY DEF OneWorker
  <2>1. PICK x \in working, y \in working : x # y
    <3> SUFFICES ASSUME \A x, y \in working : x = y PROVE FALSE
      OBVIOUS
    <3>1. working = {} \/ \E x : working = {x}
      OBVIOUS
    <3>2. Cardinality(working) = 0 \/ Cardinality(working) = 1
      BY <3>1, FS_EmptySet, FS_Singleton, Zenon
    <3> QED
      BY <3>2
  <2>2. /\ x \in Agents \X Attempt /\ y \in Agents \X Attempt
        /\ exec[x] \in Records /\ exec[y] \in Records
        /\ IsClaimed(x) /\ IsClaimed(y)
    BY DEF WorkInv, WorkTyped, RecordHolds
  <2>3. PICK e \in Fixed(x[1]) : Last(e) = ClaimOf(x)
    BY <2>2 DEF IsClaimed
  <2>4. PICK f \in Fixed(y[1]) : Last(f) = ClaimOf(y)
    BY <2>2 DEF IsClaimed
  <2>5. e \in published /\ f \in published
    BY <2>2, AgentFacts DEF Fixed, WorkInv, HistoryHolds, Flows
  <2>6. Last(e).op = "claim" /\ Last(f).op = "claim" /\ Last(e) # Last(f)
    BY <2>1, <2>2, <2>3, <2>4, OwnName DEF ClaimOf
  <2>7. ~(Len(e) < Len(f)) /\ ~(Len(f) < Len(e))
    BY <2>3, <2>4, <2>5, <2>6, NoLaterClaim
  <2>8. Len(e) \in Nat /\ Len(f) \in Nat /\ Len(e) = Len(f)
    <3>1. e \in Events /\ f \in Events
      BY <2>5 DEF WorkInv, WorkTyped, Histories
    <3>2. Len(e) \in Nat /\ Len(f) \in Nat
      BY <3>1 DEF Events
    <3> QED
      BY <2>7, <3>2
  <2>9. e = f
    <3>1. published \in Histories
      BY DEF WorkInv, WorkTyped
    <3>2. \A h \in published : h # <<>> /\ Lawful(h) /\ Front(h) \in published \cup {<<>>}
      BY DEF WorkInv, HistoryHolds, Grown, Issued
    <3> QED
      BY <2>5, <2>8, <3>1, <3>2, OnePath
  <2> QED
    BY <2>6, <2>9
<1> QED
  BY <1>1, WorkInvariance, PTL
=============================================================================
