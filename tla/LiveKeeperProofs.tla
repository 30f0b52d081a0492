-------------------------- MODULE LiveKeeperProofs --------------------------
(***************************************************************************)
(* What a live keeper keeps, for every number of requests, secrets, rekeys, *)
(* offers, failed writes and crashes, and every budget: the answers, the    *)
(* budget of the window, the transitions, and the chain of rekeys promised  *)
(* by KeeperAuthority.                                                      *)
(*                                                                          *)
(* What is said of the record in storage is said by operators of a record   *)
(* and of what was handed out, so that it can be shown of a record that a   *)
(* write may or may not have made.                                          *)
(***************************************************************************)
EXTENDS LiveKeeper, FiniteSetTheorems, SequenceTheorems, TLAPS

Records ==
  [phase : {"active", "retired", "closed"}, keeper : Seq(Rekeys), lastAt : Nat,
   pending : Pendings, answers : [Request -> Answers], reserved : SUBSET Reservations]

Phases == {"active", "retired", "closed"}
Notices == Rekeys \cup Tombstones
Handouts == [epoch : Nat, serial : Nat]

\* The epoch of a rekey is its place.
InOrder(chain) == \A i \in 1..Len(chain) : chain[i].epoch = i

Chain(d) == IF d.pending = NoPending THEN d.keeper ELSE d.pending.next

\* The two transitions there are, and what each of them hands out.
Retiring(d) ==
  /\ d.pending.next = d.keeper /\ d.pending.phase = "retired"
  /\ \E t \in Tombstones : d.pending.events = <<t>>

Rekeying(d) ==
  \E e \in Rekeys :
    /\ d.pending.next = Append(d.keeper, e) /\ e.epoch = Len(d.keeper) + 1
    /\ \/ ~e.closes /\ d.pending.phase # "closed" /\ d.pending.events = <<e>>
       \/ /\ e.closes /\ d.pending.phase = "closed"
          /\ \E t \in Tombstones : t.ended /\ d.pending.events = <<t, e>>

Following(d) == InOrder(d.keeper) /\ (d.pending = NoPending \/ Retiring(d) \/ Rekeying(d))

\* N was handed out: all of the chain that counts as made, nothing beyond the
\* chain, and the tombstones but for one that is still to go out.
Promised(d, N) ==
  /\ N \subseteq Notices
  /\ ToSet(d.keeper) \subseteq N
  /\ \A e \in N : IsRekey(e) => e \in ToSet(Chain(d))
  /\ d.phase # "active" =>
       \E e \in N \cup ToSet(d.pending.events) : ~IsRekey(e) /\ (d.phase = "closed" => e.ended)

\* O was answered: what is cached, not more often than it was offered; and
\* what is not cached any more is too old to be asked for again.
Answered(d, O, S) ==
  \A r \in Request :
    /\ d.answers[r].serial <= S[r]
    /\ d.answers[r] # NoAnswer =>
         /\ Len(O[r]) <= d.answers[r].offers
         /\ \A i \in 1..Len(O[r]) : O[r][i] = [epoch |-> d.answers[r].epoch, serial |-> d.answers[r].serial]
    /\ d.answers[r] = NoAnswer => O[r] = << >> \/ Expires[r] <= d.lastAt

\* Every handoff H of the window that ends at t took a reservation in R of its own.
Counted(R, t, H) ==
  \E f \in [InWindow(H, t) -> R] :
    /\ \A h \in InWindow(H, t) : f[h].at = h.at
    /\ \A g, h \in InWindow(H, t) : f[g] = f[h] => g = h

Kept(d, N, O, S, H) ==
  IsJournal(d) /\ Following(d) /\ Promised(d, N) /\ Answered(d, O, S) /\ Counted(d.reserved, d.lastAt, H)

\* A job has the record it was begun with.
JobHolds ==
  /\ job.kind \in {"idle", "look", "give", "hand"}
  /\ job.kind = "idle" => job = Idle
  /\ job.kind # "idle" => owner \in {"up", "closing"}
  /\ job.kind = "look" =>
       job.request \in Request /\ job.at = disk.lastAt /\ disk.phase = "active" /\ disk.pending = NoPending
  /\ job.kind = "hand" =>
       /\ job.index \in 1..Len(disk.pending.events)
       /\ \A i \in 1..job.index : disk.pending.events[i] \in notices

Elsewhere ==
  /\ IsJournal(data)
  /\ owner \in {"down", "up", "closing", "poisoned"}
  /\ owner # "poisoned" => data = disk
  /\ clock \in 0..MaxTime
  /\ signed \in [Request -> Nat]
  /\ out \in [Request -> Seq(Handouts)]
  /\ \A r \in Request : Len(out[r]) <= MaxOffers /\ \A i, j \in 1..Len(out[r]) : out[r][i] = out[r][j]
  /\ handoffs \subseteq Reservations /\ IsFiniteSet(handoffs) /\ Cardinality(handoffs) <= Budget

IInv == Kept(disk, notices, out, signed, handoffs) /\ JobHolds /\ Elsewhere

-----------------------------------------------------------------------------
(* Counting *)

\* Among one more numbers than there are reservations, one is free.
LEMMA AnotherIsNew ==
  ASSUME NEW S, IsFiniteSet(S), NEW at \in Nat
  PROVE  Another(S, at) \notin S /\ Another(S, at) \in Reservations /\ Another(S, at).at = at
<1> DEFINE k == Cardinality(S)
           T == {[at |-> at, nth |-> n] : n \in 1..(k + 1)}
           f == [n \in 1..(k + 1) |-> [at |-> at, nth |-> n]]
<1>1. k \in Nat
  BY FS_CardinalityType
<1>2. \E n \in 1..(k + 1) : [at |-> at, nth |-> n] \notin S
  <2> SUFFICES ASSUME \A n \in 1..(k + 1) : [at |-> at, nth |-> n] \in S PROVE FALSE
    OBVIOUS
  <2> HIDE DEF k
  <2>1. f \in Injection(1..(k + 1), S)
    BY <1>1 DEF Injection, IsInjective
  <2>2. Cardinality(1..(k + 1)) <= Cardinality(S)
    <3> HIDE DEF f
    <3> QED BY <2>1, FS_Injection
  <2>3. Cardinality(1..(k + 1)) = k + 1
    BY <1>1, FS_Interval
  <2> QED BY <1>1, <2>2, <2>3 DEF k
<1>3. PICK n \in 1..(k + 1) : Another(S, at) = [at |-> at, nth |-> n] /\ [at |-> at, nth |-> n] \notin S
  BY <1>2 DEF Another
<1> HIDE DEF k
<1>4. n \in Nat
  BY <1>1
<1> QED BY <1>3, <1>4 DEF Reservations

\* What is left of the window is counted, and one more.
LEMMA OneMoreCounts ==
  ASSUME NEW S \in SUBSET Reservations, IsFiniteSet(S), NEW at \in Nat
  PROVE  /\ IsFiniteSet(InWindow(S, at)) /\ InWindow(S, at) \subseteq S
         /\ OneMore(S, at) \subseteq Reservations /\ IsFiniteSet(OneMore(S, at))
         /\ Cardinality(InWindow(S, at)) \in Nat
         /\ Cardinality(OneMore(S, at)) = Cardinality(InWindow(S, at)) + 1
<1>1. InWindow(S, at) \subseteq S
  BY DEF InWindow
<1>2. IsFiniteSet(InWindow(S, at))
  BY <1>1, FS_Subset
<1>3. Another(InWindow(S, at), at) \notin InWindow(S, at) /\ Another(InWindow(S, at), at) \in Reservations
  BY <1>2, AnotherIsNew
<1> QED BY <1>1, <1>2, <1>3, FS_AddElement, FS_CardinalityType DEF OneMore

\* What is reserved for a window is reserved for what is left of it later.
LEMMA CountedLater ==
  ASSUME NEW R \in SUBSET Reservations, NEW H \in SUBSET Reservations,
         NEW t \in Nat, NEW at \in Nat, t <= at, Counted(R, t, H)
  PROVE  Counted(R, at, H) /\ Counted(InWindow(R, at), at, H)
<1>1. PICK f \in [InWindow(H, t) -> R] :
        /\ \A h \in InWindow(H, t) : f[h].at = h.at
        /\ \A g, h \in InWindow(H, t) : f[g] = f[h] => g = h
  BY DEF Counted
<1>2. InWindow(H, at) \subseteq InWindow(H, t)
  BY LiveKeeperAssumption DEF InWindow, Reservations
<1>3. \A h \in InWindow(H, at) : f[h] \in InWindow(R, at)
  BY <1>1, <1>2 DEF InWindow
<1>4. InWindow(R, at) \subseteq R
  BY DEF InWindow
<1> DEFINE g == [h \in InWindow(H, at) |-> f[h]]
<1>5. /\ g \in [InWindow(H, at) -> R] /\ g \in [InWindow(H, at) -> InWindow(R, at)]
      /\ \A h \in InWindow(H, at) : g[h].at = h.at
      /\ \A x, y \in InWindow(H, at) : g[x] = g[y] => x = y
  BY <1>1, <1>2, <1>3, <1>4
<1> HIDE DEF g
<1> QED BY <1>5 DEF Counted

\* A handoff is made in the window that its reservation was made in.
LEMMA CountedMore ==
  ASSUME NEW R \in SUBSET Reservations, IsFiniteSet(R), NEW H \in SUBSET Reservations, IsFiniteSet(H),
         NEW t \in Nat, NEW at \in Nat, t <= at, Counted(R, t, H)
  PROVE  /\ Counted(OneMore(R, at), at, H)
         /\ Counted(OneMore(R, at), at, OneMore(H, at))
         /\ Cardinality(OneMore(H, at)) <= Cardinality(OneMore(R, at))
<1> DEFINE R1 == InWindow(R, at)
           H1 == InWindow(H, at)
           a == Another(R1, at)
           b == Another(H1, at)
<1>1. PICK f \in [H1 -> R1] :
        /\ \A h \in H1 : f[h].at = h.at
        /\ \A g, h \in H1 : f[g] = f[h] => g = h
  BY CountedLater DEF Counted
<1>2. /\ IsFiniteSet(R1) /\ R1 \subseteq R /\ IsFiniteSet(H1) /\ H1 \subseteq H
      /\ OneMore(H, at) \subseteq Reservations
  BY OneMoreCounts
<1>3. a \notin R1 /\ a.at = at /\ b \notin H1 /\ b.at = at
  BY <1>2, AnotherIsNew
<1>4. OneMore(R, at) = R1 \cup {a} /\ OneMore(H, at) = H1 \cup {b}
  BY DEF OneMore
<1> HIDE DEF R1, H1, a, b
<1> DEFINE g == [h \in H1 \cup {b} |-> IF h = b THEN a ELSE f[h]]
<1>5. /\ g \in [H1 \cup {b} -> R1 \cup {a}]
      /\ \A h \in H1 \cup {b} : g[h].at = h.at
      /\ \A x, y \in H1 \cup {b} : g[x] = g[y] => x = y
  BY <1>1, <1>3
<1> HIDE DEF g
<1>6. Counted(OneMore(R, at), at, H)
  <2>1. f \in [H1 -> R1 \cup {a}]
    BY <1>1
  <2> QED BY <1>1, <1>4, <2>1 DEF Counted, H1
<1>7. Cardinality(OneMore(H, at)) <= Cardinality(OneMore(R, at))
  <2>1. g \in Injection(OneMore(H, at), OneMore(R, at))
    BY <1>4, <1>5 DEF Injection, IsInjective
  <2> QED BY <2>1, OneMoreCounts, FS_Injection
<1>8. Counted(OneMore(R, at), at, OneMore(H, at))
  <2>1. InWindow(OneMore(H, at), at) \subseteq H1 \cup {b}
    BY <1>4 DEF InWindow
  <2> DEFINE k == [h \in InWindow(OneMore(H, at), at) |-> g[h]]
  <2>2. /\ k \in [InWindow(OneMore(H, at), at) -> OneMore(R, at)]
        /\ \A h \in InWindow(OneMore(H, at), at) : k[h].at = h.at
        /\ \A x, y \in InWindow(OneMore(H, at), at) : k[x] = k[y] => x = y
    BY <1>4, <1>5, <2>1
  <2> HIDE DEF k
  <2> QED BY <2>2 DEF Counted
<1> QED BY <1>6, <1>7, <1>8

-----------------------------------------------------------------------------
(* The records that are written *)

LEMMA RecordParts ==
  ASSUME NEW d \in Records
  PROVE  \E p \in {"active", "retired", "closed"}, k \in Seq(Rekeys), l \in Nat, q \in Pendings,
            a \in [Request -> Answers], R \in SUBSET Reservations :
           d = [phase |-> p, keeper |-> k, lastAt |-> l, pending |-> q, answers |-> a, reserved |-> R]
BY DEF Records

LEMMA RecordLater ==
  ASSUME NEW d \in Records, NEW t \in Nat
  PROVE  LET n == [d EXCEPT !.lastAt = t] IN
         /\ n \in Records /\ n.lastAt = t
         /\ n.phase = d.phase /\ n.keeper = d.keeper /\ n.pending = d.pending
         /\ n.answers = d.answers /\ n.reserved = d.reserved
BY DEF Records

LEMMA RecordAnswered ==
  ASSUME NEW d \in Records, NEW A \in [Request -> Answers]
  PROVE  LET n == [d EXCEPT !.answers = A] IN
         /\ n \in Records /\ n.answers = A /\ n.lastAt = d.lastAt
         /\ n.phase = d.phase /\ n.keeper = d.keeper /\ n.pending = d.pending
         /\ n.reserved = d.reserved
BY DEF Records

LEMMA RecordReserved ==
  ASSUME NEW d \in Records, NEW t \in Nat, IsFiniteSet(d.reserved)
  PROVE  LET n == Reserving(d, t) IN
         /\ n \in Records /\ n.lastAt = t /\ n.reserved = OneMore(d.reserved, t)
         /\ n.phase = d.phase /\ n.keeper = d.keeper /\ n.pending = d.pending
         /\ n.answers = d.answers
<1> DEFINE m == [d EXCEPT !.lastAt = t]
           R == OneMore(d.reserved, t)
<1>1. /\ m \in Records /\ m.lastAt = t
      /\ m.phase = d.phase /\ m.keeper = d.keeper /\ m.pending = d.pending
      /\ m.answers = d.answers /\ m.reserved = d.reserved
  BY RecordLater
<1>2. Reserving(d, t) = [m EXCEPT !.reserved = R]
  BY <1>1 DEF Reserving
<1>3. R \in SUBSET Reservations
  BY OneMoreCounts DEF Records
<1> HIDE DEF m, R
<1>4. LET n == [m EXCEPT !.reserved = R] IN
      /\ n \in Records /\ n.lastAt = m.lastAt /\ n.reserved = R
      /\ n.phase = m.phase /\ n.keeper = m.keeper /\ n.pending = m.pending
      /\ n.answers = m.answers
  BY <1>1, <1>3 DEF Records
<1> QED BY <1>1, <1>2, <1>4 DEF R

\* The record with a transition prepared, and with one made.
Prepared(d, p, t, P) == [d EXCEPT !.phase = p, !.lastAt = t, !.pending = P]
Made(d, k, p) == [d EXCEPT !.keeper = k, !.phase = p, !.pending = NoPending]

LEMMA RecordPrepared ==
  ASSUME NEW d \in Records, NEW t \in Nat, NEW p \in {"active", "retired", "closed"}, NEW P \in Pendings
  PROVE  \E n \in Records :
         /\ n = Prepared(d, p, t, P) /\ n.phase = p /\ n.lastAt = t /\ n.pending = P
         /\ n.keeper = d.keeper /\ n.answers = d.answers /\ n.reserved = d.reserved
<1> DEFINE a == [d EXCEPT !.phase = p]
           b == [a EXCEPT !.lastAt = t]
           n == [b EXCEPT !.pending = P]
<1>1. /\ a \in Records /\ a.phase = p
      /\ a.keeper = d.keeper /\ a.answers = d.answers /\ a.reserved = d.reserved
  BY DEF Records
<1>2. n = Prepared(d, p, t, P)
  BY DEF Prepared
<1> HIDE DEF a
<1>3. /\ b \in Records /\ b.phase = p /\ b.lastAt = t
      /\ b.keeper = d.keeper /\ b.answers = d.answers /\ b.reserved = d.reserved
  BY <1>1, RecordLater
<1> HIDE DEF b
<1>4. /\ n \in Records /\ n.phase = p /\ n.lastAt = t /\ n.pending = P
      /\ n.keeper = d.keeper /\ n.answers = d.answers /\ n.reserved = d.reserved
  BY <1>3 DEF Records
<1> HIDE DEF n
<1> QED BY <1>2, <1>4

LEMMA RecordCompleted ==
  ASSUME NEW d \in Records, NEW k \in Seq(Rekeys), NEW p \in Phases
  PROVE  \E n \in Records :
         /\ n = Made(d, k, p) /\ n.phase = p /\ n.keeper = k /\ n.pending = NoPending
         /\ n.lastAt = d.lastAt /\ n.answers = d.answers /\ n.reserved = d.reserved
<1> DEFINE a == [d EXCEPT !.keeper = k]
           b == [a EXCEPT !.phase = p]
           n == [b EXCEPT !.pending = NoPending]
<1>1. /\ a \in Records /\ a.keeper = k
      /\ a.lastAt = d.lastAt /\ a.answers = d.answers /\ a.reserved = d.reserved
  BY DEF Records
<1>2. n = Made(d, k, p)
  BY DEF Made
<1>0. NoPending \in Pendings
  BY DEF NoPending, Pendings
<1> HIDE DEF a
<1>3. /\ b \in Records /\ b.phase = p /\ b.keeper = k
      /\ b.lastAt = d.lastAt /\ b.answers = d.answers /\ b.reserved = d.reserved
  BY <1>1 DEF Records, Phases
<1> HIDE DEF b
<1>4. /\ n \in Records /\ n.phase = p /\ n.keeper = k /\ n.pending = NoPending
      /\ n.lastAt = d.lastAt /\ n.answers = d.answers /\ n.reserved = d.reserved
  BY <1>0, <1>3 DEF Records
<1> HIDE DEF n
<1> QED BY <1>2, <1>4

-----------------------------------------------------------------------------
(* What is kept by each of them, before anything is handed out *)

LEMMA JournalIsRecord ==
  ASSUME NEW d
  PROVE  IsJournal(d) <=>
           /\ d \in Records
           /\ d.pending # NoPending => d.pending.phase = d.phase
           /\ IsFiniteSet(d.reserved) /\ Cardinality(d.reserved) <= Budget
BY DEF IsJournal, Records

\* Promises look at the chain, the phase and what is pending only.
LEMMA PromisedLikewise ==
  ASSUME NEW d, NEW n, NEW N, n.phase = d.phase, n.keeper = d.keeper, n.pending = d.pending,
         Following(d), Promised(d, N)
  PROVE  Following(n) /\ Promised(n, N)
BY DEF Following, Promised, Chain, Retiring, Rekeying

LEMMA KeptLater ==
  ASSUME NEW d, NEW N, NEW O, NEW S, NEW H \in SUBSET Reservations, Kept(d, N, O, S, H),
         NEW t \in Nat, t >= d.lastAt
  PROVE  Kept([d EXCEPT !.lastAt = t], N, O, S, H)
<1> DEFINE n == [d EXCEPT !.lastAt = t]
<1>1. d \in Records /\ d.lastAt \in Nat /\ d.reserved \in SUBSET Reservations
  BY JournalIsRecord DEF Kept, Records
<1>2. /\ n \in Records /\ n.lastAt = t
      /\ n.phase = d.phase /\ n.keeper = d.keeper /\ n.pending = d.pending
      /\ n.answers = d.answers /\ n.reserved = d.reserved
  BY <1>1, RecordLater
<1> HIDE DEF n
<1>3. IsJournal(n)
  BY <1>2, JournalIsRecord DEF Kept
<1>4. Following(n) /\ Promised(n, N)
  BY <1>2, PromisedLikewise DEF Kept
<1>5. Answered(n, O, S)
  BY <1>1, <1>2, LiveKeeperAssumption DEF Kept, Answered
<1>6. Counted(n.reserved, n.lastAt, H)
  BY <1>1, <1>2, CountedLater DEF Kept
<1> QED BY <1>3, <1>4, <1>5, <1>6 DEF Kept, n

LEMMA KeptReserved ==
  ASSUME NEW d, NEW N, NEW O, NEW S, NEW H \in SUBSET Reservations, IsFiniteSet(H), Kept(d, N, O, S, H),
         NEW t \in Nat, t >= d.lastAt, HasBudget(d, t)
  PROVE  /\ Kept(Reserving(d, t), N, O, S, H)
         /\ Kept(Reserving(d, t), N, O, S, OneMore(H, t))
         /\ Cardinality(OneMore(H, t)) <= Budget
<1> DEFINE n == Reserving(d, t)
<1>1. d \in Records /\ d.lastAt \in Nat /\ d.reserved \in SUBSET Reservations /\ IsFiniteSet(d.reserved)
  BY JournalIsRecord DEF Kept, Records
<1>2. /\ n \in Records /\ n.lastAt = t /\ n.reserved = OneMore(d.reserved, t)
      /\ n.phase = d.phase /\ n.keeper = d.keeper /\ n.pending = d.pending
      /\ n.answers = d.answers
  BY <1>1, RecordReserved
<1> HIDE DEF n
<1>3. /\ IsFiniteSet(n.reserved) /\ Cardinality(n.reserved) \in Nat /\ Cardinality(n.reserved) <= Budget
  <2>1. /\ Cardinality(InWindow(d.reserved, t)) \in Nat
        /\ Cardinality(n.reserved) = Cardinality(InWindow(d.reserved, t)) + 1
        /\ IsFiniteSet(n.reserved)
    BY <1>1, <1>2, OneMoreCounts
  <2> QED BY <2>1, LiveKeeperAssumption DEF HasBudget
<1>4. IsJournal(n)
  BY <1>2, <1>3, JournalIsRecord DEF Kept
<1>5. Following(n) /\ Promised(n, N)
  BY <1>2, PromisedLikewise DEF Kept
<1>6. Answered(n, O, S)
  BY <1>1, <1>2, LiveKeeperAssumption DEF Kept, Answered
<1>7. /\ Counted(n.reserved, n.lastAt, H)
      /\ Counted(n.reserved, n.lastAt, OneMore(H, t))
      /\ Cardinality(OneMore(H, t)) <= Cardinality(n.reserved)
  BY <1>1, <1>2, CountedMore DEF Kept
<1>8. Cardinality(OneMore(H, t)) \in Nat
  BY OneMoreCounts, FS_CardinalityType
<1> QED BY <1>3, <1>4, <1>5, <1>6, <1>7, <1>8, LiveKeeperAssumption DEF Kept, n

\* The cache with an answer that is offered, and what was handed out with it.
Offering(d, r, a) == [[q \in Request |-> IF Expires[q] > d.lastAt THEN d.answers[q] ELSE NoAnswer] EXCEPT ![r] = a]
Shown(a) == [epoch |-> a.epoch, serial |-> a.serial]
Longer(O, r, a) == [O EXCEPT ![r] = Append(@, Shown(a))]

\* What is known of an answer that is offered: T counts it among the signed ones.
Answering(d, O, S, T, r, a) ==
  /\ O \in [Request -> Seq(Handouts)] /\ S \in [Request -> Nat] /\ T \in [Request -> Nat]
  /\ \A q \in Request : T[q] >= S[q]
  /\ r \in Request /\ Expires[r] > d.lastAt
  /\ a \in Answers /\ a.offers > 0 /\ a.serial <= T[r]
  /\ d.answers[r] # NoAnswer =>
       a.epoch = d.answers[r].epoch /\ a.serial = d.answers[r].serial /\ a.offers = d.answers[r].offers + 1

\* A request that is answered once more: from the cache, or for the first time.
LEMMA AnsweredMore ==
  ASSUME NEW d \in Records, NEW O, NEW S, NEW T, NEW r, NEW a,
         Answered(d, O, S), Answering(d, O, S, T, r, a),
         NEW n, n.lastAt = d.lastAt, n.answers = Offering(d, r, a)
  PROVE  /\ Answered(n, O, T) /\ Answered(n, Longer(O, r, a), T)
         /\ n.answers \in [Request -> Answers]
         /\ Len(O[r]) < a.offers /\ \A i \in 1..Len(O[r]) : O[r][i] = Shown(a)
<1> DEFINE h == Shown(a)
           P == Longer(O, r, a)
<1>0. /\ O \in [Request -> Seq(Handouts)] /\ S \in [Request -> Nat] /\ T \in [Request -> Nat]
      /\ \A q \in Request : T[q] >= S[q]
      /\ r \in Request /\ Expires[r] > d.lastAt
      /\ a \in Answers /\ a.offers > 0 /\ a.serial <= T[r]
      /\ d.answers[r] # NoAnswer =>
           a.epoch = d.answers[r].epoch /\ a.serial = d.answers[r].serial /\ a.offers = d.answers[r].offers + 1
  BY DEF Answering
<1>h. h \in Handouts /\ h = [epoch |-> a.epoch, serial |-> a.serial]
  BY <1>0 DEF Shown, Handouts, Answers
<1>1. d.answers \in [Request -> Answers] /\ d.lastAt \in Nat
  BY DEF Records
<1>2. NoAnswer \in Answers /\ NoAnswer.serial = 0 /\ NoAnswer.offers = 0
  BY LiveKeeperAssumption DEF NoAnswer, Answers
<1>3. /\ n.answers \in [Request -> Answers] /\ n.answers[r] = a
      /\ \A q \in Request \ {r} :
           n.answers[q] = IF Expires[q] > d.lastAt THEN d.answers[q] ELSE NoAnswer
  BY <1>0, <1>1, <1>2 DEF Offering
<1>4. a # NoAnswer
  BY <1>0, <1>2
<1> HIDE DEF h, P
<1>5. Expires[r] \in Nat /\ a.offers \in Nat /\ Len(O[r]) \in Nat
  BY <1>0, LiveKeeperAssumption DEF Answers
<1>6. Len(O[r]) < a.offers /\ \A i \in 1..Len(O[r]) : O[r][i] = h
  <2>1. CASE d.answers[r] = NoAnswer
    <3>1. O[r] = << >> \/ Expires[r] <= d.lastAt
      BY <1>0, <2>1 DEF Answered
    <3>2. O[r] = << >>
      BY <1>0, <1>1, <1>5, <3>1
    <3> QED BY <1>0, <1>5, <3>2
  <2>2. CASE d.answers[r] # NoAnswer
    <3>1. d.answers[r].offers \in Nat
      BY <1>0, <1>1, LiveKeeperAssumption DEF Answers
    <3>2. Len(O[r]) <= d.answers[r].offers
      BY <1>0, <1>h, <2>2 DEF Answered
    <3>3. \A i \in 1..Len(O[r]) : O[r][i] = h
      BY <1>0, <1>h, <2>2 DEF Answered
    <3> QED BY <1>0, <1>5, <2>2, <3>1, <3>2, <3>3
  <2> QED BY <2>1, <2>2
<1>7. /\ Len(P[r]) <= a.offers /\ \A i \in 1..Len(P[r]) : P[r][i] = h
      /\ \A q \in Request \ {r} : P[q] = O[q]
  <2>1. P[r] = Append(O[r], h) /\ \A q \in Request \ {r} : P[q] = O[q]
    BY <1>0 DEF Longer, P, h
  <2>2. O[r] \in Seq(Handouts)
    BY <1>0
  <2>3. Len(Append(O[r], h)) = Len(O[r]) + 1
    BY <1>h, <2>2
  <2>4. \A i \in 1..Len(O[r]) + 1 : Append(O[r], h)[i] = h
    BY <1>5, <1>6, <1>h, <2>2, AppendProperties
  <2> QED BY <1>5, <1>6, <2>1, <2>3, <2>4
<1>8. \A q \in Request \ {r} :
        /\ n.answers[q].serial <= T[q]
        /\ n.answers[q] # NoAnswer =>
             /\ Len(O[q]) <= n.answers[q].offers
             /\ \A i \in 1..Len(O[q]) : O[q][i] = [epoch |-> n.answers[q].epoch, serial |-> n.answers[q].serial]
        /\ n.answers[q] = NoAnswer => O[q] = << >> \/ Expires[q] <= d.lastAt
  <2> SUFFICES ASSUME NEW q \in Request \ {r}
               PROVE  /\ n.answers[q].serial <= T[q]
                      /\ n.answers[q] # NoAnswer =>
                           /\ Len(O[q]) <= n.answers[q].offers
                           /\ \A i \in 1..Len(O[q]) : O[q][i] = [epoch |-> n.answers[q].epoch, serial |-> n.answers[q].serial]
                      /\ n.answers[q] = NoAnswer => O[q] = << >> \/ Expires[q] <= d.lastAt
    OBVIOUS
  <2>1. Expires[q] \in Nat /\ T[q] \in Nat /\ S[q] \in Nat /\ T[q] >= S[q] /\ d.answers[q] \in Answers
    BY <1>0, <1>1, LiveKeeperAssumption
  <2>2. d.answers[q].serial \in Nat /\ d.answers[q].serial <= S[q]
    BY <1>0, <2>1 DEF Answered, Answers
  <2>3. CASE Expires[q] > d.lastAt
    <3>1. n.answers[q] = d.answers[q]
      BY <1>3, <2>3
    <3>2. /\ d.answers[q] # NoAnswer =>
               /\ Len(O[q]) <= d.answers[q].offers
               /\ \A i \in 1..Len(O[q]) : O[q][i] = [epoch |-> d.answers[q].epoch, serial |-> d.answers[q].serial]
          /\ d.answers[q] = NoAnswer => O[q] = << >> \/ Expires[q] <= d.lastAt
      BY DEF Answered
    <3>3. d.answers[q].serial <= T[q]
      BY <2>1, <2>2
    <3> QED BY <3>1, <3>2, <3>3
  <2>4. CASE ~(Expires[q] > d.lastAt)
    BY <1>1, <1>2, <1>3, <2>1, <2>4
  <2> QED BY <2>3, <2>4
<1>a. a.serial <= T[r] /\ r \in Request /\ Len(O[r]) <= a.offers
  BY <1>0, <1>5, <1>6
<1>9. Answered(n, O, T)
  BY <1>3, <1>4, <1>6, <1>8, <1>a, <1>h DEF Answered
<1>10. Answered(n, P, T)
  BY <1>3, <1>4, <1>7, <1>8, <1>a, <1>h DEF Answered
<1> QED BY <1>3, <1>6, <1>9, <1>10 DEF P, h

LEMMA InTuple ==
  /\ \A x, y : x \in ToSet(<<x, y>>) /\ y \in ToSet(<<x, y>>) /\ x \in ToSet(<<x>>)
  /\ \A x, y, z : (z \in ToSet(<<x, y>>) => z = x \/ z = y) /\ (z \in ToSet(<<x>>) => z = x)
BY DEF ToSet

LEMMA Kinds ==
  /\ \A e \in Rekeys : IsRekey(e)
  /\ \A e \in Tombstones : ~IsRekey(e)
  /\ NoPending \in Pendings /\ NoPending.events = << >>
BY DEF Rekeys, Tombstones, IsRekey, NoPending, Pendings

\* A sequence of one or two, and what a sequence is with one more.
LEMMA SetOfSeq ==
  /\ \A x : ToSet(<<x>>) = {x}
  /\ \A x, y : ToSet(<<x, y>>) = {x, y}
  /\ \A S : \A s \in Seq(S), x \in S :
       ToSet(Append(s, x)) = ToSet(s) \cup {x} /\ Append(s, x) \in Seq(S) /\ Len(Append(s, x)) = Len(s) + 1
  /\ ToSet(<< >>) = {}
  /\ \A S : \A x, y \in S : <<x>> \in Seq(S) /\ <<x, y>> \in Seq(S)
<1>1. \A x : ToSet(<<x>>) = {x}
  BY DEF ToSet
<1>2. \A x, y : ToSet(<<x, y>>) = {x, y}
  BY DEF ToSet
<1>3. ASSUME NEW S, NEW s \in Seq(S), NEW x \in S
      PROVE  ToSet(Append(s, x)) = ToSet(s) \cup {x} /\ Append(s, x) \in Seq(S) /\ Len(Append(s, x)) = Len(s) + 1
  <2>1. /\ Append(s, x) \in Seq(S) /\ DOMAIN Append(s, x) = 1..Len(s) + 1 /\ DOMAIN s = 1..Len(s)
        /\ \A i \in 1..Len(s) : Append(s, x)[i] = s[i]
        /\ Append(s, x)[Len(s) + 1] = x /\ Len(s) \in Nat /\ Len(Append(s, x)) = Len(s) + 1
    BY AppendProperties, LenProperties
  <2> QED BY <2>1 DEF ToSet
<1>4. ToSet(<< >>) = {}
  BY DEF ToSet
<1>5. \A S : \A x, y \in S : <<x>> \in Seq(S) /\ <<x, y>> \in Seq(S)
  OBVIOUS
<1> QED BY <1>1, <1>2, <1>3, <1>4, <1>5

\* The transitions that are prepared: a retirement and a rekey.
LEMMA KeptRetiring ==
  ASSUME NEW d, NEW N, NEW O, NEW S, NEW H \in SUBSET Reservations, Kept(d, N, O, S, H),
         NEW t \in Nat, t >= d.lastAt, d.phase = "active", d.pending = NoPending
  PROVE  Kept(Prepared(d, "retired", t,
                [events |-> <<Tombstone(t, FALSE)>>, next |-> d.keeper, phase |-> "retired"]), N, O, S, H)
<1> DEFINE E == <<Tombstone(t, FALSE)>>
           P == [events |-> E, next |-> d.keeper, phase |-> "retired"]
           n == Prepared(d, "retired", t, P)
<1>1. d \in Records /\ d.lastAt \in Nat /\ d.reserved \in SUBSET Reservations /\ d.keeper \in Seq(Rekeys)
  BY JournalIsRecord DEF Kept, Records
<1>2. Tombstone(t, FALSE) \in Tombstones
  BY DEF Tombstone, Tombstones
<1>3. /\ P \in Pendings /\ P.events = E /\ P.next = d.keeper /\ P.phase = "retired"
      /\ P # NoPending
  <2>1. E \in Seq(Rekeys \cup Tombstones)
    BY <1>2, SetOfSeq
  <2> HIDE DEF E
  <2> QED BY <1>1, <2>1 DEF Pendings, NoPending
<1> HIDE DEF P
<1>4. /\ n \in Records /\ n.phase = "retired" /\ n.lastAt = t /\ n.pending = P
      /\ n.keeper = d.keeper /\ n.answers = d.answers /\ n.reserved = d.reserved
  BY <1>1, <1>3, RecordPrepared
<1> HIDE DEF n
<1>5. IsJournal(n)
  BY <1>3, <1>4, JournalIsRecord DEF Kept
<1>6. Following(n)
  BY <1>2, <1>3, <1>4 DEF Kept, Following, Retiring
<1>7. Promised(n, N)
  <2>1. Tombstone(t, FALSE) \in ToSet(n.pending.events) /\ ~IsRekey(Tombstone(t, FALSE)) /\ n.phase # "closed"
    BY <1>2, <1>3, <1>4, Kinds, SetOfSeq
  <2>2. Chain(n) = d.keeper /\ Chain(d) = d.keeper
    BY <1>3, <1>4 DEF Chain
  <2> QED BY <1>4, <2>1, <2>2 DEF Kept, Promised
<1>8. Answered(n, O, S)
  BY <1>1, <1>4, LiveKeeperAssumption DEF Kept, Answered
<1>9. Counted(n.reserved, n.lastAt, H)
  BY <1>1, <1>4, CountedLater DEF Kept
<1> QED BY <1>5, <1>6, <1>7, <1>8, <1>9 DEF Kept, n, P

LEMMA KeptRekeying ==
  ASSUME NEW d, NEW N, NEW O, NEW S, NEW H \in SUBSET Reservations, Kept(d, N, O, S, H),
         NEW t \in Nat, t >= d.lastAt, d.phase # "closed", d.pending = NoPending,
         NEW e \in Rekeys, e.epoch = Len(d.keeper) + 1,
         NEW target \in {"active", "retired", "closed"},
         e.closes => target = "closed", ~e.closes => target = d.phase
  PROVE  Kept(Prepared(d, target, t,
                [events |-> IF e.closes THEN <<Tombstone(t, TRUE), e>> ELSE <<e>>,
                 next |-> Append(d.keeper, e), phase |-> target]), N, O, S, H)
<1> DEFINE E == IF e.closes THEN <<Tombstone(t, TRUE), e>> ELSE <<e>>
           P == [events |-> E, next |-> Append(d.keeper, e), phase |-> target]
           n == Prepared(d, target, t, P)
<1>1. /\ d \in Records /\ d.lastAt \in Nat /\ d.reserved \in SUBSET Reservations /\ d.keeper \in Seq(Rekeys)
      /\ d.phase \in {"active", "retired", "closed"}
  BY JournalIsRecord DEF Kept, Records
<1>2. Tombstone(t, TRUE) \in Tombstones /\ Tombstone(t, TRUE).ended
  BY DEF Tombstone, Tombstones
<1>3. E \in Seq(Rekeys \cup Tombstones)
  BY <1>2, SetOfSeq
<1>4. target \in {"active", "retired", "closed"} /\ (target = "closed" <=> e.closes)
  BY <1>1
<1>5. Append(d.keeper, e) \in Seq(Rekeys) /\ ToSet(Append(d.keeper, e)) = ToSet(d.keeper) \cup {e}
  BY <1>1, SetOfSeq
<1>a. /\ P \in Pendings /\ P.events = E /\ P.next = Append(d.keeper, e) /\ P.phase = target
      /\ P # NoPending
  <2> HIDE DEF E
  <2> QED BY <1>3, <1>4, <1>5 DEF Pendings, NoPending
<1> HIDE DEF P
<1>b. /\ n \in Records /\ n.phase = target /\ n.lastAt = t /\ n.pending = P
      /\ n.keeper = d.keeper /\ n.answers = d.answers /\ n.reserved = d.reserved
  <2>2. \E m \in Records :
          /\ m = Prepared(d, target, t, P) /\ m.phase = target /\ m.lastAt = t /\ m.pending = P
          /\ m.keeper = d.keeper /\ m.answers = d.answers /\ m.reserved = d.reserved
    <3> HIDE DEF E, n
    <3> QED BY <1>1, <1>a, RecordPrepared
  <2> QED BY <2>2
<1> HIDE DEF n
<1>6. IsJournal(n)
  BY <1>a, <1>b, JournalIsRecord DEF Kept
<1>7. Following(n)
  <2>1. Rekeying(n)
    BY <1>2, <1>4, <1>a, <1>b DEF Rekeying
  <2> QED BY <1>b, <2>1 DEF Kept, Following
<1>8. Promised(n, N)
  <2>1. \A x \in N : IsRekey(x) => x \in ToSet(Chain(n))
    BY <1>5, <1>a, <1>b DEF Kept, Promised, Chain
  <2>2. n.phase # "active" => \E x \in N \cup ToSet(n.pending.events) : ~IsRekey(x) /\ (n.phase = "closed" => x.ended)
    <3>1. CASE e.closes
      <4>1. n.pending.events = <<Tombstone(t, TRUE), e>>
        BY <1>a, <1>b, <3>1
      <4>2. \A x, y : x \in ToSet(<<x, y>>)
        BY InTuple
      <4>3. Tombstone(t, TRUE) \in ToSet(n.pending.events) /\ ~IsRekey(Tombstone(t, TRUE))
        BY <1>2, <4>1, <4>2, Kinds, Zenon
      <4> QED BY <1>2, <4>3
    <3>2. CASE ~e.closes
      BY <1>1, <1>b, <3>2, Kinds, SetOfSeq DEF Kept, Promised
    <3> QED BY <3>1, <3>2
  <2> QED BY <1>b, <2>1, <2>2 DEF Kept, Promised
<1>9. Answered(n, O, S)
  BY <1>1, <1>b, LiveKeeperAssumption DEF Kept, Answered
<1>c. Counted(n.reserved, n.lastAt, H)
  BY <1>1, <1>b, CountedLater DEF Kept
<1> QED BY <1>6, <1>7, <1>8, <1>9, <1>c DEF Kept, n, P

\* An event of the pending transition is handed out.
LEMMA PromisedMore ==
  ASSUME NEW d \in Records, NEW N, Following(d), Promised(d, N), d.pending # NoPending,
         NEW x, x \in ToSet(d.pending.events)
  PROVE  Promised(d, N \cup {x}) /\ (IsRekey(x) => ToSet(Chain(d)) = ToSet(d.keeper) \cup {x})
<1>1. d.keeper \in Seq(Rekeys)
  BY DEF Records
<1>2. CASE Retiring(d)
  <2>1. PICK t \in Tombstones : d.pending.events = <<t>>
    BY <1>2 DEF Retiring
  <2>2. x = t /\ ~IsRekey(x) /\ x \in Notices
    BY <2>1, SetOfSeq, Kinds DEF Notices
  <2> QED BY <2>2 DEF Promised
<1>3. CASE Rekeying(d)
  <2>1. PICK e \in Rekeys :
          /\ d.pending.next = Append(d.keeper, e)
          /\ \/ d.pending.events = <<e>>
             \/ \E t \in Tombstones : d.pending.events = <<t, e>>
    BY <1>3 DEF Rekeying
  <2>2. ToSet(Chain(d)) = ToSet(d.keeper) \cup {e}
    BY <1>1, <2>1, SetOfSeq DEF Chain
  <2>3. x = e \/ x \in Tombstones
    BY <2>1, InTuple
  <2> QED BY <2>2, <2>3, Kinds DEF Promised, Notices
<1> QED BY <1>2, <1>3 DEF Following

\* A transition that is made: all of it was handed out.
LEMMA KeptMade ==
  ASSUME NEW d, NEW N, NEW O, NEW S, NEW H \in SUBSET Reservations, Kept(d, N, O, S, H),
         d.pending # NoPending, ToSet(d.pending.events) \subseteq N
  PROVE  /\ Kept(Made(d, d.pending.next, d.pending.phase), N, O, S, H)
         /\ Chain(Made(d, d.pending.next, d.pending.phase)) = Chain(d)
<1> DEFINE n == Made(d, d.pending.next, d.pending.phase)
<1>1. /\ d \in Records /\ d.lastAt \in Nat /\ d.reserved \in SUBSET Reservations /\ d.keeper \in Seq(Rekeys)
      /\ d.phase \in {"active", "retired", "closed"} /\ d.pending.phase = d.phase
      /\ d.pending.next \in Seq(Rekeys)
  BY JournalIsRecord DEF Kept, Records, Pendings
<1>2. /\ n \in Records /\ n.phase = d.phase /\ n.keeper = d.pending.next /\ n.pending = NoPending
      /\ n.lastAt = d.lastAt /\ n.answers = d.answers /\ n.reserved = d.reserved
  <2>1. PICK k \in Seq(Rekeys) : k = d.pending.next
    BY <1>1
  <2>2. PICK p \in Phases : p = d.pending.phase
    BY <1>1 DEF Phases
  <2>0. d \in Records
    BY <1>1
  <2>3. \E m \in Records :
          /\ m = Made(d, k, p) /\ m.phase = p /\ m.keeper = k /\ m.pending = NoPending
          /\ m.lastAt = d.lastAt /\ m.answers = d.answers /\ m.reserved = d.reserved
    <3> HIDE DEF n
    <3> QED BY <2>0, RecordCompleted
  <2> QED BY <1>1, <2>1, <2>2, <2>3
<1> HIDE DEF n
<1>3. IsJournal(n)
  BY <1>2, JournalIsRecord DEF Kept
<1>4. InOrder(n.keeper) /\ ToSet(n.keeper) \subseteq N
  <2>1. CASE Retiring(d)
    BY <1>2, <2>1 DEF Retiring, Kept, Following, Promised
  <2>2. CASE Rekeying(d)
    <3>1. PICK e \in Rekeys :
            /\ d.pending.next = Append(d.keeper, e) /\ e.epoch = Len(d.keeper) + 1
            /\ \/ d.pending.events = <<e>>
               \/ \E t \in Tombstones : d.pending.events = <<t, e>>
      BY <2>2 DEF Rekeying
    <3>2. e \in N
      BY <3>1, InTuple
    <3>3. /\ Len(n.keeper) = Len(d.keeper) + 1 /\ Len(d.keeper) \in Nat
          /\ \A i \in 1..Len(d.keeper) : n.keeper[i] = d.keeper[i]
          /\ n.keeper[Len(d.keeper) + 1] = e
      BY <1>1, <1>2, <3>1, AppendProperties, LenProperties
    <3>4. InOrder(n.keeper)
      BY <3>1, <3>3 DEF Kept, Following, InOrder
    <3> QED BY <1>1, <1>2, <3>1, <3>2, <3>4, SetOfSeq DEF Kept, Promised
  <2> QED BY <2>1, <2>2 DEF Kept, Following
<1>5. Following(n)
  BY <1>2, <1>4 DEF Following
<1>6. Chain(n) = Chain(d)
  BY <1>2 DEF Chain
<1>7. Promised(n, N)
  <2>1. n.phase # "active" => \E e \in N \cup ToSet(d.pending.events) : ~IsRekey(e) /\ (n.phase = "closed" => e.ended)
    BY <1>2 DEF Kept, Promised
  <2> QED BY <1>4, <1>6, <2>1 DEF Kept, Promised
<1>8. Answered(n, O, S)
  BY <1>2 DEF Kept, Answered
<1>9. Counted(n.reserved, n.lastAt, H)
  BY <1>2 DEF Kept
<1> QED BY <1>3, <1>5, <1>6, <1>7, <1>8, <1>9 DEF Kept, n

\* An answer that is written, before and after it is handed out.
OnlyShown(O, r, a) == \A i \in 1..Len(O[r]) : O[r][i] = Shown(a)

SamePlace(n, d) == n.phase = d.phase /\ Chain(n) = Chain(d)

Giving(d, r, a) == Reserving([d EXCEPT !.answers = Offering(d, r, a)], d.lastAt)

LEMMA KeptGiven ==
  ASSUME NEW d, NEW N, NEW O, NEW S, NEW T, NEW H \in SUBSET Reservations, IsFiniteSet(H), Kept(d, N, O, S, H),
         NEW r, NEW a, Answering(d, O, S, T, r, a), HasBudget(d, d.lastAt)
  PROVE  /\ Kept(Giving(d, r, a), N, O, T, H)
         /\ SamePlace(Giving(d, r, a), d)
         /\ Kept(Giving(d, r, a), N, Longer(O, r, a), T, OneMore(H, d.lastAt))
         /\ Cardinality(OneMore(H, d.lastAt)) <= Budget
         /\ Len(O[r]) < a.offers /\ OnlyShown(O, r, a)
<1> DEFINE A == Offering(d, r, a)
           m == [d EXCEPT !.answers = A]
           P == Longer(O, r, a)
<1>1. d \in Records /\ d.lastAt \in Nat /\ d.answers \in [Request -> Answers] /\ IsFiniteSet(d.reserved)
  BY JournalIsRecord DEF Kept, Records
<1>2. NoAnswer \in Answers
  BY LiveKeeperAssumption DEF NoAnswer, Answers
<1>3. A \in [Request -> Answers]
  BY <1>1, <1>2 DEF Offering, Answering
<1> HIDE DEF A
<1>4. /\ m \in Records /\ m.answers = A /\ m.lastAt = d.lastAt
      /\ m.phase = d.phase /\ m.keeper = d.keeper /\ m.pending = d.pending
      /\ m.reserved = d.reserved
  BY <1>1, <1>3, RecordAnswered
<1> HIDE DEF m, P
<1>5. /\ Answered(m, O, T) /\ Answered(m, P, T)
      /\ Len(O[r]) < a.offers /\ \A i \in 1..Len(O[r]) : O[r][i] = Shown(a)
  <2>1. Answered(d, O, S) /\ d \in Records /\ m.lastAt = d.lastAt /\ m.answers = Offering(d, r, a)
    BY <1>1, <1>4 DEF Kept, A
  <2> QED BY <2>1, AnsweredMore DEF P
<1>6. IsJournal(m) /\ Following(m) /\ Promised(m, N) /\ Counted(m.reserved, m.lastAt, H)
  BY <1>4, JournalIsRecord, PromisedLikewise DEF Kept
<1>7. Kept(m, N, O, T, H) /\ Kept(m, N, P, T, H)
  BY <1>5, <1>6 DEF Kept
<1>8. HasBudget(m, d.lastAt) /\ d.lastAt >= m.lastAt
  BY <1>1, <1>4 DEF HasBudget
<1>9. /\ Kept(Reserving(m, d.lastAt), N, O, T, H)
      /\ Kept(Reserving(m, d.lastAt), N, P, T, OneMore(H, d.lastAt))
      /\ Cardinality(OneMore(H, d.lastAt)) <= Budget
  BY <1>1, <1>7, <1>8, KeptReserved
<1>10. LET n == Reserving(m, d.lastAt) IN n.phase = m.phase /\ n.keeper = m.keeper /\ n.pending = m.pending
  BY <1>1, <1>4, RecordReserved
<1> QED BY <1>4, <1>5, <1>9, <1>10 DEF Chain, Giving, SamePlace, OnlyShown, m, P, A

\* More answers were signed, and nothing else has changed.
LEMMA KeptSigned ==
  ASSUME NEW d, NEW N, NEW O, NEW S, NEW T, NEW H, Kept(d, N, O, S, H),
         S \in [Request -> Nat], T \in [Request -> Nat], \A q \in Request : T[q] >= S[q]
  PROVE  Kept(d, N, O, T, H)
<1>1. \A q \in Request : d.answers[q].serial \in Nat
  BY JournalIsRecord DEF Kept, Records, Answers
<1>2. \A q \in Request : d.answers[q].serial <= S[q] /\ S[q] \in Nat /\ T[q] \in Nat
  BY DEF Kept, Answered
<1>3. \A q \in Request : d.answers[q].serial <= T[q]
  BY <1>1, <1>2
<1>4. Answered(d, O, T)
  BY <1>3 DEF Kept, Answered
<1> QED BY <1>4 DEF Kept

\* What is pending has an event to hand out.
LEMMA EventsPend ==
  ASSUME NEW d \in Records, Following(d), d.pending # NoPending
  PROVE  /\ Len(d.pending.events) \in Nat /\ Len(d.pending.events) >= 1
         /\ d.pending.events \in Seq(Notices)
         /\ \A i \in 1..Len(d.pending.events) : d.pending.events[i] \in ToSet(d.pending.events)
<1>1. d.pending.events \in Seq(Notices)
  BY DEF Records, Pendings, Notices
<1>2. Len(d.pending.events) >= 1
  <2>1. CASE Retiring(d)
    BY <2>1 DEF Retiring
  <2>2. CASE Rekeying(d)
    <3>1. PICK e \in Rekeys : d.pending.events = <<e>> \/ \E t \in Tombstones : d.pending.events = <<t, e>>
      BY <2>2 DEF Rekeying
    <3>2. CASE d.pending.events = <<e>>
      BY <3>2
    <3>3. CASE \E t \in Tombstones : d.pending.events = <<t, e>>
      <4>1. PICK t \in Tombstones : d.pending.events = <<t, e>>
        BY <3>3
      <4> QED BY <4>1
    <3> QED BY <3>1, <3>2, <3>3
  <2> QED BY <2>1, <2>2 DEF Following
<1> QED BY <1>1, <1>2, LenProperties DEF ToSet

\* A pending event is handed out, after it was reserved.
LEMMA KeptHanded ==
  ASSUME NEW d, NEW N, NEW O, NEW S, NEW H \in SUBSET Reservations, IsFiniteSet(H), Kept(d, N, O, S, H),
         NEW t \in Nat, t >= d.lastAt, HasBudget(d, t), d.pending # NoPending,
         NEW i \in 1..Len(d.pending.events)
  PROVE  LET n == Reserving(d, t) IN
         /\ Kept(n, N, O, S, H) /\ n.phase = d.phase /\ n.keeper = d.keeper /\ n.pending = d.pending
         /\ Kept(n, N \cup {d.pending.events[i]}, O, S, OneMore(H, t))
         /\ Cardinality(OneMore(H, t)) <= Budget
<1> DEFINE n == Reserving(d, t)
           x == d.pending.events[i]
<1>1. d \in Records /\ IsFiniteSet(d.reserved) /\ Following(d)
  BY JournalIsRecord DEF Kept
<1>2. n \in Records /\ n.phase = d.phase /\ n.keeper = d.keeper /\ n.pending = d.pending
  BY <1>1, RecordReserved
<1>3. Kept(n, N, O, S, H) /\ Kept(n, N, O, S, OneMore(H, t)) /\ Cardinality(OneMore(H, t)) <= Budget
  BY KeptReserved
<1> HIDE DEF n
<1>4. x \in ToSet(n.pending.events)
  BY <1>1, <1>2, EventsPend
<1> HIDE DEF x
<1>5. Promised(n, N \cup {x})
  <2>1. n \in Records /\ Following(n) /\ Promised(n, N) /\ n.pending # NoPending
    BY <1>2, <1>3 DEF Kept
  <2> QED BY <1>4, <2>1, PromisedMore
<1>6. Kept(n, N \cup {x}, O, S, OneMore(H, t))
  BY <1>3, <1>5 DEF Kept
<1> QED BY <1>2, <1>3, <1>6 DEF n, x

Larger(x, y) == Max({x, y})

LEMMA MaxOfTwo ==
  ASSUME NEW x \in Nat, NEW y \in Nat
  PROVE  Larger(x, y) \in Nat /\ Larger(x, y) >= x /\ Larger(x, y) >= y
<1>1. \E m \in {x, y} : \A z \in {x, y} : m >= z
  <2>1. CASE x >= y
    BY <2>1
  <2>2. CASE ~(x >= y)
    BY <2>2
  <2> QED BY <2>1, <2>2
<1>2. Max({x, y}) \in {x, y} /\ \A z \in {x, y} : Max({x, y}) >= z
  BY <1>1 DEF Max
<1> QED BY <1>2 DEF Larger

\* The answers that are offered, from the cache or new; and the count of the signed ones.
LEMMA AnswerAgain ==
  ASSUME NEW c \in Answers, c.offers < MaxOffers
  PROVE  LET a == [c EXCEPT !.offers = @ + 1] IN
         /\ a \in Answers /\ a.offers > 0 /\ a.offers <= MaxOffers
         /\ a.epoch = c.epoch /\ a.serial = c.serial /\ a.offers = c.offers + 1
<1>1. c.offers \in 0..MaxOffers /\ c.epoch \in Nat /\ c.at \in Nat /\ c.serial \in Nat
  BY DEF Answers
<1>2. c.offers + 1 \in 0..MaxOffers /\ c.offers + 1 > 0 /\ c.offers + 1 <= MaxOffers
  BY <1>1, LiveKeeperAssumption
<1> DEFINE x == c.offers + 1
<1> HIDE DEF x
<1>3. [c EXCEPT !.offers = x] = [epoch |-> c.epoch, at |-> c.at, offers |-> x, serial |-> c.serial]
  BY DEF Answers
<1>4. [epoch |-> c.epoch, at |-> c.at, offers |-> x, serial |-> c.serial] \in Answers
  BY <1>1, <1>2 DEF Answers, x
<1> QED BY <1>2, <1>3, <1>4 DEF x

LEMMA AnswerNew ==
  ASSUME NEW n \in Nat, NEW t \in Nat, NEW x \in Nat
  PROVE  LET a == [epoch |-> n, at |-> t, offers |-> 1, serial |-> x + 1] IN
         a \in Answers /\ a.offers > 0 /\ a.offers <= MaxOffers /\ a.epoch = n
<1>1. 1 \in 0..MaxOffers /\ 1 > 0 /\ x + 1 \in Nat
  BY LiveKeeperAssumption
<1> QED BY <1>1 DEF Answers

LEMMA SignedMore ==
  ASSUME NEW S \in [Request -> Nat], NEW r \in Request, NEW x \in Nat,
         NEW T, T = [S EXCEPT ![r] = Max({@, x})]
  PROVE  T \in [Request -> Nat] /\ x <= T[r] /\ \A q \in Request : T[q] >= S[q]
<1>0. PICK y \in Nat : y = S[r]
  OBVIOUS
<1>1. PICK m : m = Larger(y, x)
  OBVIOUS
<1>2. m \in Nat /\ m >= S[r] /\ m >= x
  BY <1>0, <1>1, MaxOfTwo
<1>3. T = [S EXCEPT ![r] = m]
  BY <1>0, <1>1 DEF Larger
<1>4. ASSUME NEW q \in Request PROVE T[q] \in Nat /\ T[q] >= S[q]
  <2>1. CASE q = r
    BY <1>2, <1>3, <2>1
  <2>2. CASE q # r
    <3>1. T[q] = S[q] /\ S[q] \in Nat
      BY <1>3, <2>2
    <3> QED BY <3>1
  <2> QED BY <2>1, <2>2
<1> QED BY <1>2, <1>3, <1>4

-----------------------------------------------------------------------------
(* The initial state *)

LEMMA Initially == Init => IInv
<1> SUFFICES ASSUME Init PROVE IInv
  OBVIOUS
<1>0. NoAnswer \in Answers /\ NoAnswer.serial = 0 /\ NoPending \in Pendings
  BY LiveKeeperAssumption, Kinds DEF NoAnswer, Answers
<1>1. /\ disk \in Records /\ disk.phase = "active" /\ disk.keeper = << >> /\ disk.lastAt = 0
      /\ disk.pending = NoPending /\ disk.reserved = {}
      /\ \A r \in Request : disk.answers[r] = NoAnswer
  <2>1. << >> \in Seq(Rekeys)
    OBVIOUS
  <2>2. [r \in Request |-> NoAnswer] \in [Request -> Answers]
    BY <1>0
  <2> QED BY <1>0, <2>1, <2>2 DEF Init, Records
<1>2. IsFiniteSet({}) /\ Cardinality({}) = 0
  BY FS_EmptySet
<1>3. IsJournal(disk)
  <2>1. IsFiniteSet(disk.reserved) /\ Cardinality(disk.reserved) <= Budget
    BY <1>1, <1>2, LiveKeeperAssumption
  <2> QED BY <1>1, <2>1, JournalIsRecord
<1>4. Following(disk)
  BY <1>1 DEF Following, InOrder
<1>5. Promised(disk, notices)
  BY <1>1, SetOfSeq DEF Init, Promised
<1>6. Answered(disk, out, signed)
  BY <1>0, <1>1 DEF Init, Answered
<1>7. Counted(disk.reserved, disk.lastAt, handoffs)
  <2>1. handoffs = {} /\ InWindow({}, 0) = {}
    BY DEF Init, InWindow
  <2>2. [h \in {} |-> 0] \in [{} -> {}]
    OBVIOUS
  <2> QED BY <1>1, <2>1, <2>2 DEF Counted
<1>8. JobHolds
  BY DEF Init, JobHolds, Idle
<1>9. Elsewhere
  <2>1. clock \in 0..MaxTime
    BY LiveKeeperAssumption DEF Init
  <2>2. /\ out \in [Request -> Seq(Handouts)]
        /\ \A r \in Request : Len(out[r]) = 0
    BY DEF Init
  <2>3. \A r \in Request : Len(out[r]) <= MaxOffers /\ \A i, j \in 1..Len(out[r]) : out[r][i] = out[r][j]
    BY <2>2, LiveKeeperAssumption
  <2> QED BY <1>2, <1>3, <2>1, <2>2, <2>3, LiveKeeperAssumption DEF Init, Elsewhere
<1> QED BY <1>3, <1>4, <1>5, <1>6, <1>7, <1>8, <1>9 DEF IInv, Kept

-----------------------------------------------------------------------------
(* The steps *)

\* A write failed: the record is the one before or the one after it.
LEMMA FailedWrite ==
  ASSUME NEW n, IInv, owner # "poisoned", Fails(n),
         signed' \in [Request -> Nat],
         Kept(disk, notices, out, signed', handoffs), Kept(n, notices, out, signed', handoffs)
  PROVE  IInv'
<1>1. /\ disk' \in {disk, n} /\ owner' = "poisoned" /\ job' = Idle
      /\ data' = data /\ clock' = clock /\ out' = out /\ notices' = notices /\ handoffs' = handoffs
  BY DEF Fails
<1>2. Kept(disk', notices', out', signed', handoffs')
  BY <1>1
<1>3. JobHolds'
  BY <1>1 DEF JobHolds, Idle
<1>4. Elsewhere'
  BY <1>1 DEF IInv, Elsewhere
<1> QED BY <1>2, <1>3, <1>4 DEF IInv

\* What a job begins with.
LEMMA BegunWith ==
  ASSUME IInv, owner # "poisoned"
  PROVE  /\ data = disk /\ disk \in Records /\ disk.lastAt \in Nat /\ disk.keeper \in Seq(Rekeys)
         /\ disk.phase \in {"active", "retired", "closed"} /\ Following(disk)
         /\ clock \in Nat /\ handoffs \in SUBSET Reservations /\ IsFiniteSet(handoffs)
         /\ Kept(disk, notices, out, signed, handoffs) /\ signed \in [Request -> Nat]
BY LiveKeeperAssumption, JournalIsRecord DEF IInv, Elsewhere, Kept, Records

\* A write that hands nothing out.
LEMMA QuietWrite ==
  ASSUME NEW n, IInv, Save(n), Kept(n, notices, out, signed, handoffs),
         UNCHANGED <<owner, clock, out, notices, handoffs, signed>>, JobHolds'
  PROVE  IInv'
<1>1. disk' = n /\ data' = n
  BY DEF Save
<1>2. Kept(disk', notices', out', signed', handoffs')
  BY <1>1
<1>3. IsJournal(data')
  BY <1>1 DEF Kept
<1>4. Elsewhere'
  BY <1>1, <1>3 DEF IInv, Elsewhere
<1> QED BY <1>2, <1>4 DEF IInv

LEMMA PreparedKeeps ==
  ASSUME NEW n, IInv, Begins, Prepare(n), Kept(n, notices, out, signed, handoffs)
  PROVE  IInv'
<1>0. owner # "poisoned" /\ job = Idle
  BY DEF Begins
<1>1. CASE Save(n) /\ UNCHANGED <<owner, job, clock, out, notices, handoffs, slips, failures>>
  <2>1. JobHolds'
    BY <1>0, <1>1 DEF JobHolds, Idle
  <2> QED BY <1>1, <2>1, QuietWrite DEF Prepare
<1>2. CASE Fails(n)
  <2>1. signed' = signed
    BY DEF Prepare
  <2>2. Kept(disk, notices, out, signed', handoffs) /\ Kept(n, notices, out, signed', handoffs)
        /\ signed' \in [Request -> Nat]
    BY <1>0, <2>1, BegunWith
  <2> QED BY <1>0, <1>2, <2>2, FailedWrite
<1> QED BY <1>1, <1>2 DEF Prepare

LEMMA LookKeeps == ASSUME NEW r \in Request, IInv, Look(r) PROVE IInv'
<1> DEFINE n == [data EXCEPT !.lastAt = clock]
<1>1. owner = "up" /\ owner # "poisoned" /\ clock >= data.lastAt /\ disk.phase = "active" /\ disk.pending = NoPending
  BY BegunWith DEF Look, Begins, TimeIsGood, Pending
<1>2. data = disk /\ disk \in Records /\ clock \in Nat
  BY <1>1, BegunWith
<1>3. Kept(n, notices, out, signed, handoffs)
  <2>1. Kept(disk, notices, out, signed, handoffs) /\ handoffs \in SUBSET Reservations /\ clock >= disk.lastAt
    BY <1>1, <1>2, BegunWith
  <2> QED BY <1>2, <2>1, KeptLater
<1>4. n.lastAt = clock /\ n.phase = "active" /\ n.pending = NoPending
  BY <1>1, <1>2, RecordLater
<1>5. \/ /\ Save(n) /\ job' = [kind |-> "look", request |-> r, at |-> clock]
         /\ UNCHANGED <<owner, clock, out, notices, handoffs, signed, slips, failures>>
      \/ Fails(n) /\ UNCHANGED signed
  BY DEF Look
<1> HIDE DEF n
<1>6. CASE /\ Save(n) /\ job' = [kind |-> "look", request |-> r, at |-> clock]
           /\ UNCHANGED <<owner, clock, out, notices, handoffs, signed, slips, failures>>
  <2>1. disk' = n
    BY <1>6 DEF Save
  <2>2. JobHolds'
    BY <1>1, <1>4, <1>6, <2>1 DEF JobHolds
  <2> QED BY <1>3, <1>6, <2>2, QuietWrite
<1>7. CASE Fails(n) /\ UNCHANGED signed
  <2>2. Kept(disk, notices, out, signed', handoffs) /\ Kept(n, notices, out, signed', handoffs)
        /\ signed' \in [Request -> Nat]
    BY <1>1, <1>3, <1>7, BegunWith
  <2> QED BY <1>1, <1>7, <2>2, FailedWrite
<1> QED BY <1>5, <1>6, <1>7

LEMMA CheckpointKeeps == ASSUME IInv, Checkpoint PROVE IInv'
<1> DEFINE n == [data EXCEPT !.lastAt = clock]
<1>1. owner = "up" /\ owner # "poisoned" /\ clock >= data.lastAt /\ job = Idle
  BY DEF Checkpoint, Begins, TimeIsGood
<1>2. data = disk /\ disk \in Records /\ clock \in Nat
  BY <1>1, BegunWith
<1>3. Kept(n, notices, out, signed, handoffs)
  <2>1. Kept(disk, notices, out, signed, handoffs) /\ handoffs \in SUBSET Reservations /\ clock >= disk.lastAt
    BY <1>1, <1>2, BegunWith
  <2> QED BY <1>2, <2>1, KeptLater
<1>4. Begins /\ Prepare(n)
  BY DEF Checkpoint, Prepare
<1> HIDE DEF n
<1> QED BY <1>3, <1>4, PreparedKeeps

LEMMA RetireKeeps == ASSUME IInv, Retire PROVE IInv'
<1> DEFINE P == [events |-> <<Tombstone(clock, FALSE)>>, next |-> data.keeper, phase |-> "retired"]
           n == Prepared(data, "retired", clock, P)
<1>1. owner = "up" /\ clock >= data.lastAt /\ job = Idle /\ data.phase = "active" /\ data.pending = NoPending
  BY DEF Retire, Begins, TimeIsGood, Pending
<1>2. /\ data = disk /\ disk \in Records /\ clock \in Nat /\ handoffs \in SUBSET Reservations
      /\ Kept(disk, notices, out, signed, handoffs)
  BY <1>1, BegunWith
<1>3. Kept(n, notices, out, signed, handoffs)
  BY <1>1, <1>2, KeptRetiring
<1>4. Begins /\ Prepare(n)
  BY DEF Retire, Prepared
<1> HIDE DEF n
<1> QED BY <1>3, <1>4, PreparedKeeps

LEMMA RekeyKeeps ==
  ASSUME NEW k \in 1..MaxEpoch, NEW s \in Secret, NEW c \in BOOLEAN, IInv, PrepareRekey(Rekey(k, s, c))
  PROVE  IInv'
<1> DEFINE e == Rekey(k, s, c)
           target == IF e.closes THEN "closed" ELSE data.phase
           n == Prepared(data, target, clock,
                  [events |-> IF e.closes THEN <<Tombstone(clock, TRUE), e>> ELSE <<e>>,
                   next |-> Append(data.keeper, e), phase |-> target])
<1>0. e \in Rekeys
  BY LiveKeeperAssumption DEF Rekeys, Rekey
<1>1. /\ owner = "up" /\ clock >= data.lastAt /\ job = Idle /\ data.phase # "closed" /\ data.pending = NoPending
      /\ e.epoch = Len(data.keeper) + 1
  BY DEF PrepareRekey, Begins, TimeIsGood, Pending, Epoch
<1>2. /\ data = disk /\ disk \in Records /\ clock \in Nat /\ handoffs \in SUBSET Reservations
      /\ Kept(disk, notices, out, signed, handoffs) /\ disk.phase \in {"active", "retired", "closed"}
  BY <1>1, BegunWith
<1>4. Begins /\ Prepare(n)
  BY DEF PrepareRekey, Prepared
<1> HIDE DEF e
<1>5. target \in {"active", "retired", "closed"} /\ (e.closes => target = "closed") /\ (~e.closes => target = data.phase)
  BY <1>2
<1> HIDE DEF target
<1>3. Kept(n, notices, out, signed, handoffs)
  <2>1. PICK u \in {"active", "retired", "closed"} : u = target
    BY <1>5
  <2>2. /\ clock >= disk.lastAt /\ disk.phase # "closed" /\ disk.pending = NoPending
        /\ e.epoch = Len(disk.keeper) + 1
        /\ (e.closes => u = "closed") /\ (~e.closes => u = disk.phase)
    BY <1>1, <1>2, <1>5, <2>1
  <2>3. Kept(Prepared(disk, u, clock,
                  [events |-> IF e.closes THEN <<Tombstone(clock, TRUE), e>> ELSE <<e>>,
                   next |-> Append(disk.keeper, e), phase |-> u]), notices, out, signed, handoffs)
    BY <1>0, <1>2, <2>2, KeptRekeying
  <2> QED BY <1>2, <2>1, <2>3
<1> HIDE DEF n
<1> QED BY <1>3, <1>4, PreparedKeeps

\* A job that ends without a write.
LEMMA EndKeeps ==
  ASSUME IInv, job' = Idle,
         UNCHANGED <<disk, data, owner, clock, out, notices, handoffs, signed>>
  PROVE  IInv'
<1>1. Kept(disk', notices', out', signed', handoffs')
  BY DEF IInv
<1>2. JobHolds'
  BY DEF JobHolds, Idle
<1>3. Elsewhere'
  BY DEF IInv, Elsewhere
<1> QED BY <1>1, <1>2, <1>3 DEF IInv

\* What an answer is that is offered.
LEMMA OfferedIs ==
  ASSUME IInv, job.kind = "look", Answerable(job.request, job.at),
         signed' = [signed EXCEPT ![job.request] = Max({@, Offered(job.request, job.at).serial})]
  PROVE  /\ job.request \in Request /\ job.at = disk.lastAt /\ data = disk
         /\ disk.phase = "active" /\ disk.pending = NoPending
         /\ Answering(disk, out, signed, signed', job.request, Offered(job.request, job.at))
         /\ Offered(job.request, job.at).offers <= MaxOffers
         /\ Offered(job.request, job.at).epoch = Len(disk.keeper)
         /\ disk.answers[job.request] # NoAnswer => disk.answers[job.request].epoch = Len(disk.keeper)
         /\ HasBudget(disk, disk.lastAt)
         /\ signed' \in [Request -> Nat] /\ \A q \in Request : signed'[q] >= signed[q]
<1> DEFINE r == job.request
           a == Offered(r, job.at)
           c == disk.answers[r]
<1>1. /\ r \in Request /\ job.at = disk.lastAt /\ owner # "poisoned"
      /\ disk.phase = "active" /\ disk.pending = NoPending
  BY DEF IInv, JobHolds
<1>2. /\ data = disk /\ disk.lastAt \in Nat /\ disk.keeper \in Seq(Rekeys) /\ signed \in [Request -> Nat]
      /\ out \in [Request -> Seq(Handouts)] /\ c \in Answers /\ Len(disk.keeper) \in Nat
  <2>1. disk \in Records /\ data = disk /\ signed \in [Request -> Nat]
    BY <1>1, BegunWith
  <2> QED BY <1>1, <2>1, LenProperties DEF IInv, Elsewhere, Records
<1>3. /\ Expires[r] > disk.lastAt /\ HasBudget(disk, disk.lastAt)
      /\ c # NoAnswer => c.epoch = Len(disk.keeper) /\ c.offers < MaxOffers
  <2>1. Answerable(r, disk.lastAt)
    BY <1>1
  <2> QED BY <1>2, <2>1 DEF Answerable, Epoch
<1>4. /\ a \in Answers /\ a.offers > 0 /\ a.offers <= MaxOffers /\ a.epoch = Len(disk.keeper)
      /\ c # NoAnswer => a.epoch = c.epoch /\ a.serial = c.serial /\ a.offers = c.offers + 1
  <2>1. CASE c # NoAnswer
    <3>1. a = [c EXCEPT !.offers = @ + 1]
      BY <1>2, <2>1 DEF Offered
    <3>2. PICK e \in Answers : e = c /\ e.offers < MaxOffers /\ e.epoch = Len(disk.keeper)
      BY <1>2, <1>3, <2>1
    <3> HIDE DEF a
    <3>3. /\ a \in Answers /\ a.offers > 0 /\ a.offers <= MaxOffers
          /\ a.epoch = e.epoch /\ a.serial = e.serial /\ a.offers = e.offers + 1
      BY <3>1, <3>2, AnswerAgain
    <3> QED BY <3>2, <3>3
  <2>2. CASE c = NoAnswer
    <3>1. a = [epoch |-> Len(disk.keeper), at |-> disk.lastAt, offers |-> 1, serial |-> signed[r] + 1]
      BY <1>1, <1>2, <2>2 DEF Offered, Epoch
    <3>2. signed[r] \in Nat
      BY <1>1, <1>2
    <3> HIDE DEF a
    <3> QED BY <1>2, <2>2, <3>1, <3>2, AnswerNew
  <2> QED BY <2>1, <2>2
<1> HIDE DEF a
<1>5. a.serial \in Nat
  BY <1>4 DEF Answers
<1>6. signed' \in [Request -> Nat] /\ a.serial <= signed'[r] /\ \A q \in Request : signed'[q] >= signed[q]
  <2>1. signed' = [signed EXCEPT ![r] = Max({signed[r], a.serial})]
    BY DEF a
  <2>2. PICK T : T = signed'
    OBVIOUS
  <2>3. PICK q \in Request : q = r
    BY <1>1
  <2>4. T = [signed EXCEPT ![q] = Max({@, a.serial})]
    BY <2>1, <2>2, <2>3
  <2>5. T \in [Request -> Nat] /\ a.serial <= T[q] /\ \A x \in Request : T[x] >= signed[x]
    BY <1>2, <1>5, <2>4, SignedMore
  <2> QED BY <2>2, <2>3, <2>5
<1>7. Answering(disk, out, signed, signed', r, a)
  BY <1>1, <1>2, <1>3, <1>4, <1>6 DEF Answering
<1> QED BY <1>1, <1>2, <1>3, <1>4, <1>6, <1>7 DEF a

LEMMA GiveKeeps == ASSUME IInv, Give PROVE IInv'
<1> DEFINE r == job.request
           a == Offered(r, job.at)
           n == Giving(disk, r, a)
<1>0. job.kind = "look" /\ Answerable(r, job.at) /\ signed' = [signed EXCEPT ![r] = Max({@, a.serial})]
  BY DEF Give
<1>1. /\ r \in Request /\ job.at = disk.lastAt /\ data = disk
      /\ Answering(disk, out, signed, signed', r, a) /\ a.offers <= MaxOffers
      /\ HasBudget(disk, disk.lastAt)
      /\ signed' \in [Request -> Nat] /\ \A q \in Request : signed'[q] >= signed[q]
  BY <1>0, OfferedIs
<1>2. owner # "poisoned"
  BY <1>0 DEF IInv, JobHolds
<1>3. /\ disk \in Records /\ handoffs \in SUBSET Reservations /\ IsFiniteSet(handoffs)
      /\ Kept(disk, notices, out, signed, handoffs) /\ signed \in [Request -> Nat] /\ disk.lastAt \in Nat
  BY <1>2, BegunWith
<1>4. Reserving([data EXCEPT !.answers = [Cached(job.at) EXCEPT ![r] = a]], job.at) = n
  BY <1>1 DEF Cached, Giving, Offering
<1>5. \/ /\ Save(n) /\ job' = [kind |-> "give"]
         /\ out' = [out EXCEPT ![r] = Append(@, [epoch |-> a.epoch, serial |-> a.serial])]
         /\ handoffs' = Noted(job.at)
         /\ UNCHANGED <<owner, clock, notices, slips, failures>>
      \/ Fails(n)
  BY <1>4 DEF Give
<1> HIDE DEF a
<1>6. /\ Kept(n, notices, out, signed', handoffs)
      /\ Kept(n, notices, Longer(out, r, a), signed', OneMore(handoffs, disk.lastAt))
      /\ Cardinality(OneMore(handoffs, disk.lastAt)) <= Budget
      /\ Len(out[r]) < a.offers /\ \A i \in 1..Len(out[r]) : out[r][i] = Shown(a)
  <2>1. PICK T : T = signed'
    OBVIOUS
  <2>2. PICK q : q = r
    OBVIOUS
  <2>3. Answering(disk, out, signed, T, q, a)
    BY <1>1, <2>1, <2>2
  <2> HIDE DEF n, r
  <2>4. /\ Kept(Giving(disk, q, a), notices, out, T, handoffs)
        /\ Kept(Giving(disk, q, a), notices, Longer(out, q, a), T, OneMore(handoffs, disk.lastAt))
        /\ Cardinality(OneMore(handoffs, disk.lastAt)) <= Budget
        /\ Len(out[q]) < a.offers /\ OnlyShown(out, q, a)
    <3>1. HasBudget(disk, disk.lastAt) /\ Kept(disk, notices, out, signed, handoffs)
          /\ handoffs \in SUBSET Reservations /\ IsFiniteSet(handoffs)
      BY <1>1, <1>3
    <3> QED BY <2>3, <3>1, KeptGiven
  <2> QED BY <2>1, <2>2, <2>4 DEF n, OnlyShown
<1> HIDE DEF n
<1>7. CASE /\ Save(n) /\ job' = [kind |-> "give"]
           /\ out' = [out EXCEPT ![r] = Append(@, [epoch |-> a.epoch, serial |-> a.serial])]
           /\ handoffs' = Noted(job.at)
           /\ UNCHANGED <<owner, clock, notices, slips, failures>>
  <2>1. out' = Longer(out, r, a) /\ handoffs' = OneMore(handoffs, disk.lastAt) /\ disk' = n /\ data' = n
    BY <1>1, <1>7 DEF Longer, Shown, Noted, Save
  <2>2. Kept(disk', notices', out', signed', handoffs') /\ IsJournal(data')
    BY <1>6, <1>7, <2>1 DEF Kept
  <2>3. JobHolds'
    BY <1>0, <1>7 DEF JobHolds, IInv, Idle
  <2>4. handoffs' \subseteq Reservations /\ IsFiniteSet(handoffs') /\ Cardinality(handoffs') <= Budget
    BY <1>3, <1>6, <2>1, OneMoreCounts
  <2>5. /\ out' \in [Request -> Seq(Handouts)]
        /\ \A q \in Request : Len(out'[q]) <= MaxOffers /\ \A i, j \in 1..Len(out'[q]) : out'[q][i] = out'[q][j]
    <3>1. /\ out \in [Request -> Seq(Handouts)]
          /\ \A q \in Request : Len(out[q]) <= MaxOffers /\ \A i, j \in 1..Len(out[q]) : out[q][i] = out[q][j]
      BY DEF IInv, Elsewhere
    <3>2. PICK h : h = Shown(a)
      OBVIOUS
    <3>3. h \in Handouts /\ a.offers \in Nat
      BY <1>1, <3>2, LiveKeeperAssumption DEF Answering, Answers, Shown, Handouts
    <3>4. out' = [out EXCEPT ![r] = Append(out[r], h)]
      BY <2>1, <3>2 DEF Longer
    <3>5. \A i \in 1..Len(out[r]) : out[r][i] = h
      BY <1>6, <3>2
    <3>6. PICK s \in Seq(Handouts) : s = out[r]
      BY <1>1, <3>1
    <3>7. /\ Append(s, h) \in Seq(Handouts) /\ Len(Append(s, h)) = Len(s) + 1 /\ Len(s) \in Nat
          /\ \A i \in 1..Len(s) + 1 : Append(s, h)[i] = h
      BY <3>3, <3>5, <3>6, AppendProperties, LenProperties
    <3>8. Len(s) + 1 <= MaxOffers
      BY <1>1, <1>6, <3>3, <3>6, <3>7, LiveKeeperAssumption
    <3>9. out'[r] = Append(s, h) /\ \A q \in Request \ {r} : out'[q] = out[q]
      BY <1>1, <3>1, <3>4, <3>6
    <3>10. out' \in [Request -> Seq(Handouts)]
      BY <1>1, <3>1, <3>4, <3>6, <3>7
    <3>11. ASSUME NEW q \in Request
           PROVE  Len(out'[q]) <= MaxOffers /\ \A i, j \in 1..Len(out'[q]) : out'[q][i] = out'[q][j]
      <4>1. CASE q = r
        BY <3>7, <3>8, <3>9, <4>1
      <4>2. CASE q # r
        BY <3>1, <3>9, <4>2
      <4> QED BY <4>1, <4>2
    <3> QED BY <3>10, <3>11
  <2>6. Elsewhere'
    BY <1>1, <1>7, <2>1, <2>2, <2>4, <2>5 DEF IInv, Elsewhere
  <2> QED BY <2>2, <2>3, <2>6 DEF IInv
<1>8. CASE Fails(n)
  <2>1. Kept(disk, notices, out, signed', handoffs)
    BY <1>1, <1>3, KeptSigned
  <2> QED BY <1>1, <1>2, <1>6, <1>8, <2>1, FailedWrite
<1> QED BY <1>5, <1>7, <1>8

LEMMA HandKeeps ==
  ASSUME NEW i \in 1..Len(disk.pending.events), IInv, owner \in {"up", "closing"}, disk.pending # NoPending, Hand(i),
         \A j \in 1..i : j < i => disk.pending.events[j] \in notices
  PROVE  IInv'
<1> DEFINE n == Reserving(disk, clock)
           x == disk.pending.events[i]
<1>1. /\ data = disk /\ disk \in Records /\ clock \in Nat /\ handoffs \in SUBSET Reservations
      /\ IsFiniteSet(handoffs) /\ Kept(disk, notices, out, signed, handoffs) /\ signed \in [Request -> Nat]
  BY BegunWith
<1>2. clock >= disk.lastAt /\ HasBudget(disk, clock)
  BY <1>1 DEF Hand, TimeIsGood
<1>3. /\ Kept(n, notices, out, signed, handoffs) /\ n.pending = disk.pending
      /\ Kept(n, notices \cup {x}, out, signed, OneMore(handoffs, clock))
      /\ Cardinality(OneMore(handoffs, clock)) <= Budget
  BY <1>1, <1>2, KeptHanded
<1>4. /\ \/ /\ Save(n) /\ job' = [kind |-> "hand", index |-> i]
            /\ notices' = notices \cup {x}
            /\ handoffs' = OneMore(handoffs, clock)
            /\ UNCHANGED <<owner, clock, out, slips, failures>>
         \/ Fails(n)
      /\ signed' = signed
  BY <1>1 DEF Hand, Noted
<1> HIDE DEF n
<1>5. CASE /\ Save(n) /\ job' = [kind |-> "hand", index |-> i]
           /\ notices' = notices \cup {x}
           /\ handoffs' = OneMore(handoffs, clock)
           /\ UNCHANGED <<owner, clock, out, slips, failures>>
  <2>1. disk' = n /\ data' = n
    BY <1>5 DEF Save
  <2>2. Kept(disk', notices', out', signed', handoffs') /\ IsJournal(data')
    BY <1>3, <1>4, <1>5, <2>1 DEF Kept
  <2>3. JobHolds'
    <3>1. disk'.pending.events = disk.pending.events
      BY <1>3, <2>1
    <3>2. job'.kind = "hand" /\ job'.index = i
      BY <1>5
    <3>3. \A j \in 1..i : disk.pending.events[j] \in notices'
      BY <1>5
    <3> QED BY <1>5, <3>1, <3>2, <3>3 DEF JobHolds
  <2>4. handoffs' \subseteq Reservations /\ IsFiniteSet(handoffs') /\ Cardinality(handoffs') <= Budget
    BY <1>1, <1>3, <1>5, OneMoreCounts
  <2>5. Elsewhere'
    BY <1>4, <1>5, <2>1, <2>2, <2>4 DEF IInv, Elsewhere
  <2> QED BY <2>2, <2>3, <2>5 DEF IInv
<1>6. CASE Fails(n)
  <2>1. Kept(disk, notices, out, signed', handoffs) /\ Kept(n, notices, out, signed', handoffs)
        /\ signed' \in [Request -> Nat]
    BY <1>1, <1>3, <1>4
  <2> QED BY <1>6, <2>1, FailedWrite
<1> QED BY <1>4, <1>5, <1>6

LEMMA OfferPendingKeeps == ASSUME IInv, OfferPending PROVE IInv'
<1>1. owner = "up" /\ data.pending # NoPending /\ Hand(1)
  BY DEF OfferPending, Begins, Pending
<1>2. data = disk /\ disk \in Records /\ Following(disk)
  BY <1>1, BegunWith
<1>3. 1 \in 1..Len(disk.pending.events)
  BY <1>1, <1>2, EventsPend
<1>4. \A j \in 1..1 : j < 1 => disk.pending.events[j] \in notices
  OBVIOUS
<1> QED BY <1>1, <1>2, <1>3, <1>4, HandKeeps

\* What is handed out is pending.
LEMMA HandPending ==
  ASSUME IInv, job.kind = "hand"
  PROVE  /\ owner \in {"up", "closing"} /\ disk.pending # NoPending /\ data = disk
         /\ job.index \in 1..Len(disk.pending.events) /\ Len(disk.pending.events) \in Nat
         /\ \A i \in 1..job.index : disk.pending.events[i] \in notices
<1>1. /\ owner \in {"up", "closing"} /\ job.index \in 1..Len(disk.pending.events)
      /\ \A i \in 1..job.index : disk.pending.events[i] \in notices
  BY DEF IInv, JobHolds
<1>2. data = disk /\ disk \in Records
  BY <1>1, BegunWith
<1>3. Len(disk.pending.events) \in Nat
  BY <1>2, LenProperties DEF Records, Pendings
<1>4. disk.pending # NoPending
  <2> SUFFICES ASSUME disk.pending = NoPending PROVE FALSE
    OBVIOUS
  <2>1. Len(disk.pending.events) = 0
    BY Kinds
  <2> QED BY <1>1, <2>1
<1> QED BY <1>1, <1>2, <1>3, <1>4

LEMMA HandNextKeeps == ASSUME IInv, HandNext PROVE IInv'
<1>1. /\ owner \in {"up", "closing"} /\ disk.pending # NoPending /\ data = disk
      /\ job.index \in 1..Len(disk.pending.events) /\ Len(disk.pending.events) \in Nat
      /\ \A i \in 1..job.index : disk.pending.events[i] \in notices
  BY HandPending DEF HandNext
<1>2. job.index < Len(disk.pending.events) /\ Hand(job.index + 1)
  BY <1>1 DEF HandNext
<1>3. PICK k : k = job.index + 1
  OBVIOUS
<1>4. k \in 1..Len(disk.pending.events) /\ \A j \in 1..k : j < k => j \in 1..job.index
  BY <1>1, <1>2, <1>3
<1>5. \A j \in 1..k : j < k => disk.pending.events[j] \in notices
  BY <1>1, <1>4
<1>6. Hand(k)
  BY <1>2, <1>3
<1> QED BY <1>1, <1>4, <1>5, <1>6, HandKeeps

LEMMA CompleteKeeps == ASSUME IInv, Complete PROVE IInv'
<1> DEFINE n == Made(disk, disk.pending.next, disk.pending.phase)
<1>1. /\ owner \in {"up", "closing"} /\ disk.pending # NoPending /\ data = disk
      /\ job.index = Len(disk.pending.events) /\ Len(disk.pending.events) \in Nat
      /\ \A i \in 1..job.index : disk.pending.events[i] \in notices
  BY HandPending DEF Complete
<1>2. /\ disk \in Records /\ handoffs \in SUBSET Reservations /\ signed \in [Request -> Nat]
      /\ Kept(disk, notices, out, signed, handoffs)
  BY <1>1, BegunWith
<1>3. ToSet(disk.pending.events) \subseteq notices
  <2>1. disk.pending.events \in Seq(Rekeys \cup Tombstones)
    BY <1>2 DEF Records, Pendings
  <2>2. DOMAIN disk.pending.events = 1..Len(disk.pending.events)
    BY <2>1, LenProperties
  <2> QED BY <1>1, <2>2 DEF ToSet
<1>4. Kept(n, notices, out, signed, handoffs)
  BY <1>1, <1>2, <1>3, KeptMade
<1>5. Completed = n
  BY <1>1 DEF Completed, Made
<1>6. /\ \/ Save(n) /\ job' = Idle /\ UNCHANGED <<owner, clock, out, notices, handoffs, slips, failures>>
         \/ Fails(n)
      /\ signed' = signed
  BY <1>5 DEF Complete
<1> HIDE DEF n
<1>7. CASE Save(n) /\ job' = Idle /\ UNCHANGED <<owner, clock, out, notices, handoffs, slips, failures>>
  <2>1. JobHolds'
    BY <1>7 DEF JobHolds, Idle
  <2> QED BY <1>4, <1>6, <1>7, <2>1, QuietWrite
<1>8. CASE Fails(n)
  <2>1. Kept(disk, notices, out, signed', handoffs) /\ Kept(n, notices, out, signed', handoffs)
        /\ signed' \in [Request -> Nat] /\ owner # "poisoned"
    BY <1>1, <1>2, <1>4, <1>6
  <2> QED BY <1>8, <2>1, FailedWrite
<1> QED BY <1>6, <1>7, <1>8

\* The owner comes or goes, and the record in storage stays.
LEMMA OwnerKeeps ==
  ASSUME IInv, Close \/ Closed \/ Reopen \/ Crash PROVE IInv'
<1>1. /\ UNCHANGED <<disk, clock, out, notices, handoffs, signed>>
      /\ owner' \in {"down", "up", "closing"}
      /\ data' = disk \/ (data' = data /\ owner \in {"up", "down"})
      /\ job' = Idle \/ (job' = job /\ (job.kind # "idle" => owner' = "closing"))
  <2>1. owner = "poisoned" => job = Idle
    BY DEF IInv, JobHolds
  <2>2. CASE Close
    <3>1. CASE job = Idle
      BY <2>2, <3>1 DEF Close, Gone
    <3>2. CASE job # Idle
      BY <2>1, <2>2, <3>2 DEF Close
    <3> QED BY <3>1, <3>2
  <2>3. CASE Closed
    BY <2>3 DEF Closed, Gone
  <2>4. CASE Reopen
    <3>1. job.kind = "idle"
      BY <2>4 DEF Reopen, IInv, JobHolds
    <3> QED BY <2>4, <3>1 DEF Reopen
  <2>5. CASE Crash
    BY <2>5 DEF Crash, Gone
  <2> QED BY <2>2, <2>3, <2>4, <2>5
<1>2. Kept(disk', notices', out', signed', handoffs') /\ IsJournal(disk)
  BY <1>1 DEF IInv, Kept
<1>3. data' = disk'
  BY <1>1 DEF IInv, Elsewhere
<1>4. JobHolds'
  BY <1>1 DEF IInv, JobHolds, Idle
<1>5. Elsewhere'
  BY <1>1, <1>2, <1>3 DEF IInv, Elsewhere
<1> QED BY <1>2, <1>4, <1>5 DEF IInv

LEMMA ClockKeeps == ASSUME IInv, Tick \/ SetBack PROVE IInv'
<1>1. UNCHANGED <<disk, data, owner, job, out, notices, handoffs, signed>>
  BY DEF Tick, SetBack
<1>2. clock' \in 0..MaxTime
  <2>1. CASE Tick
    <3>1. clock \in 0..MaxTime /\ clock < MaxTime
      BY <2>1 DEF IInv, Elsewhere, Tick
    <3>2. \A c \in 0..MaxTime : c < MaxTime => c + 1 \in 0..MaxTime
      BY LiveKeeperAssumption
    <3> QED BY <2>1, <3>1, <3>2 DEF Tick
  <2>2. CASE SetBack
    BY <2>2 DEF SetBack
  <2> QED BY <2>1, <2>2
<1>3. Kept(disk', notices', out', signed', handoffs')
  BY <1>1 DEF IInv
<1>4. JobHolds'
  BY <1>1 DEF IInv, JobHolds
<1>5. Elsewhere'
  BY <1>1, <1>2 DEF IInv, Elsewhere
<1> QED BY <1>3, <1>4, <1>5 DEF IInv

LEMMA StepKeeps == IInv /\ [Next]_vars => IInv'
<1> SUFFICES ASSUME IInv, [Next]_vars PROVE IInv'
  OBVIOUS
<1>1. CASE UNCHANGED vars
  <2>1. /\ disk' = disk /\ data' = data /\ owner' = owner /\ job' = job /\ clock' = clock
        /\ out' = out /\ notices' = notices /\ handoffs' = handoffs /\ signed' = signed
    BY <1>1 DEF vars
  <2>2. Kept(disk', notices', out', signed', handoffs')
    BY <2>1 DEF IInv
  <2>3. JobHolds'
    BY <2>1 DEF IInv, JobHolds
  <2>4. Elsewhere'
    BY <2>1 DEF IInv, Elsewhere
  <2> QED BY <2>2, <2>3, <2>4 DEF IInv
<1>2. ASSUME NEW r \in Request, Look(r) PROVE IInv'
  BY <1>2, LookKeeps
<1>3. CASE Refuse
  BY <1>3, EndKeeps DEF Refuse
<1>4. CASE Give
  BY <1>4, GiveKeeps
<1>5. CASE Given
  BY <1>5, EndKeeps DEF Given
<1>6. CASE Checkpoint
  BY <1>6, CheckpointKeeps
<1>7. CASE Retire
  BY <1>7, RetireKeeps
<1>8. ASSUME NEW n \in 1..MaxEpoch, NEW s \in Secret, NEW c \in BOOLEAN, PrepareRekey(Rekey(n, s, c)) PROVE IInv'
  BY <1>8, RekeyKeeps
<1>9. CASE OfferPending
  BY <1>9, OfferPendingKeeps
<1>10. CASE HandNext
  BY <1>10, HandNextKeeps
<1>11. CASE Complete
  BY <1>11, CompleteKeeps
<1>12. CASE Interrupted
  BY <1>12, EndKeeps DEF Interrupted
<1>13. CASE Close \/ Closed \/ Reopen \/ Crash
  BY <1>13, OwnerKeeps
<1>14. CASE Tick \/ SetBack
  BY <1>14, ClockKeeps
<1> QED BY <1>1, <1>2, <1>3, <1>4, <1>5, <1>6, <1>7, <1>8, <1>9, <1>10, <1>11, <1>12, <1>13, <1>14 DEF Next

LEMMA Invariance == Spec => []IInv
<1>1. Init => IInv
  BY Initially
<1>2. IInv /\ [Next]_vars => IInv'
  BY StepKeeps
<1> QED BY <1>1, <1>2, PTL DEF Spec

-----------------------------------------------------------------------------
(* What KeeperAuthority sees *)

Shared(N) == {e \in N : IsRekey(e)}
Proven(O) == [r \in Request |-> IF O[r] = << >> THEN MaxEpoch + 1 ELSE Last(O[r]).epoch]

\* With nothing pending, all of the chain was handed out, and no other rekey.
LEMMA SharedIsChain ==
  ASSUME NEW d \in Records, NEW N, Promised(d, N), d.pending = NoPending
  PROVE  Shared(N) = ToSet(d.keeper) /\ Chain(d) = d.keeper
<1>1. d.keeper \in Seq(Rekeys)
  BY DEF Records
<1>2. ToSet(d.keeper) \subseteq Rekeys
  BY <1>1, LenProperties DEF ToSet
<1> QED BY <1>2, Kinds DEF Promised, Chain, Shared

\* A handoff while something is pending hands out all of the chain, or no rekey.
LEMMA SharedMore ==
  ASSUME NEW d \in Records, NEW N, Following(d), Promised(d, N), d.pending # NoPending,
         NEW x, x \in ToSet(d.pending.events)
  PROVE  Shared(N \cup {x}) \in {Shared(N), ToSet(Chain(d))}
<1>1. d.keeper \in Seq(Rekeys)
  BY DEF Records
<1>2. ToSet(d.keeper) \subseteq Rekeys
  BY <1>1, LenProperties DEF ToSet
<1>3. CASE IsRekey(x)
  <2>1. ToSet(Chain(d)) = ToSet(d.keeper) \cup {x}
    BY <1>3, PromisedMore
  <2> QED BY <1>2, <1>3, <2>1, Kinds DEF Promised, Shared
<1>4. CASE ~IsRekey(x)
  BY <1>4 DEF Shared
<1> QED BY <1>3, <1>4

LEMMA ProvenMore ==
  ASSUME NEW O \in [Request -> Seq(Handouts)], NEW r \in Request, NEW a \in Answers
  PROVE  Proven(Longer(O, r, a)) = [Proven(O) EXCEPT ![r] = a.epoch]
<1>0. a.epoch \in Nat /\ a.serial \in Nat
  BY DEF Answers
<1>a. Shown(a) \in Handouts /\ Shown(a).epoch = a.epoch
  BY <1>0 DEF Shown, Handouts
<1>1. PICK h \in Handouts : h = Shown(a) /\ h.epoch = a.epoch
  BY <1>a
<1>2. PICK s \in Seq(Handouts) : s = O[r]
  OBVIOUS
<1>3. Append(s, h) # << >> /\ Last(Append(s, h)) = h
  BY AppendProperties, LenProperties DEF Last
<1>4. Longer(O, r, a) = [O EXCEPT ![r] = Append(s, h)]
  BY <1>1, <1>2 DEF Longer
<1> QED BY <1>1, <1>3, <1>4 DEF Proven

LEMMA ProvenOnce ==
  ASSUME NEW d \in Records, NEW O, NEW S, NEW T, NEW r, NEW a, NEW n,
         Answered(d, O, S), Answering(d, O, S, T, r, a),
         d.answers[r] # NoAnswer => d.answers[r].epoch = n
  PROVE  Proven(O)[r] \in {MaxEpoch + 1, n}
<1>1. /\ r \in Request /\ O[r] \in Seq(Handouts) /\ Expires[r] > d.lastAt /\ Expires[r] \in Nat /\ d.lastAt \in Nat
  BY LiveKeeperAssumption DEF Answering, Records
<1>2. CASE O[r] = << >>
  BY <1>1, <1>2 DEF Proven
<1>3. CASE O[r] # << >>
  <2>1. d.answers[r] # NoAnswer
    <3>1. d.answers[r] = NoAnswer => O[r] = << >> \/ Expires[r] <= d.lastAt
      BY <1>1 DEF Answered
    <3> QED BY <1>1, <1>3, <3>1
  <2>2. Len(O[r]) \in Nat /\ Len(O[r]) > 0
    BY <1>1, <1>3, LenProperties, EmptySeq
  <2>3. O[r][Len(O[r])] = [epoch |-> d.answers[r].epoch, serial |-> d.answers[r].serial]
    BY <1>1, <2>1, <2>2 DEF Answered
  <2>4. Last(O[r]).epoch = n
    BY <2>1, <2>3 DEF Last
  <2> QED BY <1>1, <1>3, <2>4 DEF Proven
<1> QED BY <1>2, <1>3

\* The chain is in order: one rekey to an epoch, and none beyond one that did not go out.
LEMMA OneEach ==
  ASSUME NEW d \in Records, NEW N, Following(d), Promised(d, N)
  PROVE  /\ \A e, f \in Shared(N) : e.epoch = f.epoch => e = f
         /\ \A e \in Shared(N) : \A n \in 1..e.epoch : \E f \in Shared(N) : f.epoch = n
<1> DEFINE k == d.keeper
           c == Chain(d)
<1>1. k \in Seq(Rekeys) /\ Len(k) \in Nat /\ d.pending.next \in Seq(Rekeys)
  BY LenProperties DEF Records, Pendings
<1>2. /\ c \in Seq(Rekeys) /\ InOrder(c) /\ Len(c) \in Nat /\ Len(c) <= Len(k) + 1
      /\ \A i \in 1..Len(k) : i <= Len(c) => c[i] = k[i]
  <2>1. CASE d.pending = NoPending \/ Retiring(d)
    <3>1. c = k
      BY <2>1 DEF Chain, Retiring
    <3> QED BY <1>1, <3>1 DEF Following
  <2>2. CASE d.pending # NoPending /\ Rekeying(d)
    <3>1. PICK e \in Rekeys : d.pending.next = Append(k, e) /\ e.epoch = Len(k) + 1
      BY <2>2 DEF Rekeying
    <3>2. c = Append(k, e)
      BY <2>2, <3>1 DEF Chain
    <3>3. /\ Append(k, e) \in Seq(Rekeys) /\ Len(Append(k, e)) = Len(k) + 1
          /\ \A i \in 1..Len(k) : Append(k, e)[i] = k[i]
          /\ Append(k, e)[Len(k) + 1] = e
      BY <1>1, AppendProperties
    <3>4. InOrder(k)
      BY DEF Following
    <3> HIDE DEF c, k
    <3>5. \A i \in 1..Len(c) : c[i].epoch = i
      <4> SUFFICES ASSUME NEW i \in 1..Len(k) + 1 PROVE Append(k, e)[i].epoch = i
        BY <3>2, <3>3
      <4>1. CASE i = Len(k) + 1
        BY <3>1, <3>3, <4>1
      <4>2. CASE i # Len(k) + 1
        <5>1. i \in 1..Len(k)
          BY <1>1, <4>2
        <5> QED BY <3>3, <3>4, <5>1 DEF InOrder
      <4> QED BY <4>1, <4>2
    <3> QED BY <1>1, <3>2, <3>3, <3>5 DEF InOrder
  <2> QED BY <2>1, <2>2 DEF Following
<1>3. \A e \in Shared(N) : \E i \in 1..Len(c) : e = c[i]
  <2>1. \A e \in Shared(N) : e \in ToSet(c)
    BY DEF Shared, Promised
  <2>2. DOMAIN c = 1..Len(c)
    BY <1>2, LenProperties
  <2> QED BY <2>1, <2>2 DEF ToSet
<1>4. \A i \in 1..Len(k) : k[i] \in Shared(N)
  <2>1. \A i \in 1..Len(k) : k[i] \in Rekeys /\ k[i] \in ToSet(k)
    BY <1>1, LenProperties DEF ToSet
  <2> QED BY <2>1, Kinds DEF Promised, Shared
<1> HIDE DEF k, c
<1>5. \A i \in 1..Len(c) : c[i].epoch = i
  BY <1>2 DEF InOrder
<1>6. \A e, f \in Shared(N) : e.epoch = f.epoch => e = f
  BY <1>3, <1>5
<1>7. ASSUME NEW e \in Shared(N), NEW n \in 1..e.epoch PROVE \E f \in Shared(N) : f.epoch = n
  <2>1. PICK i \in 1..Len(c) : e = c[i] /\ e.epoch = i
    BY <1>3, <1>5
  <2>2. CASE n = i
    BY <2>1, <2>2
  <2>3. CASE n # i
    <3>1. n \in 1..Len(k) /\ n \in 1..Len(c) /\ n <= Len(c)
      BY <1>1, <1>2, <2>1, <2>3
    <3>2. k[n] \in Shared(N) /\ k[n].epoch = n
      BY <1>2, <1>4, <1>5, <3>1
    <3> QED BY <3>2
  <2> QED BY <2>2, <2>3
<1> QED BY <1>6, <1>7

-----------------------------------------------------------------------------
(* The refinement *)

LEMMA AuthorityInitially == Init => Authority!AuthorityInit
<1> SUFFICES ASSUME Init PROVE Authority!AuthorityInit
  OBVIOUS
<1>1. disk.phase = "active" /\ disk.keeper = << >> /\ disk.pending = NoPending
  BY DEF Init
<1>2. out = [r \in Request |-> << >>] /\ notices = {}
  BY DEF Init
<1> QED BY <1>1, <1>2 DEF Authority!AuthorityInit, Authority!NoEpoch

\* A write that does not change the phase or the chain is not seen.
LEMMA WriteStutters ==
  ASSUME NEW n, disk' \in {disk, n}, n.phase = disk.phase, Chain(n) = Chain(disk),
         notices' = notices, out' = out
  PROVE  UNCHANGED Authority!authorityVars
<1>1. disk'.phase = disk.phase /\ Chain(disk') = Chain(disk)
  OBVIOUS
<1> QED BY <1>1 DEF Authority!authorityVars, Chain

LEMMA LookStutters ==
  ASSUME NEW t \in Nat, IInv, owner # "poisoned", disk' \in {disk, [disk EXCEPT !.lastAt = t]},
         notices' = notices, out' = out
  PROVE  UNCHANGED Authority!authorityVars
<1> DEFINE n == [disk EXCEPT !.lastAt = t]
<1>1. n.phase = disk.phase /\ n.keeper = disk.keeper /\ n.pending = disk.pending
  BY BegunWith, RecordLater
<1>2. Chain(n) = Chain(disk)
  BY <1>1 DEF Chain
<1> HIDE DEF n
<1>3. disk' \in {disk, n}
  BY DEF n
<1> QED BY <1>1, <1>2, <1>3, WriteStutters

LEMMA GiveAnswers ==
  ASSUME IInv, Give
  PROVE  (\E r \in Request : Authority!Answer(r)) \/ UNCHANGED Authority!authorityVars
<1> DEFINE r == job.request
           a == Offered(r, job.at)
           n == Giving(disk, r, a)
<1>0. job.kind = "look" /\ Answerable(r, job.at) /\ signed' = [signed EXCEPT ![r] = Max({@, a.serial})]
  BY DEF Give
<1>1. /\ r \in Request /\ job.at = disk.lastAt /\ data = disk
      /\ disk.phase = "active" /\ disk.pending = NoPending
      /\ Answering(disk, out, signed, signed', r, a)
      /\ a.epoch = Len(disk.keeper)
      /\ disk.answers[r] # NoAnswer => disk.answers[r].epoch = Len(disk.keeper)
      /\ HasBudget(disk, disk.lastAt)
  BY <1>0, OfferedIs
<1>2. owner # "poisoned"
  BY <1>0 DEF IInv, JobHolds
<1>3. /\ disk \in Records /\ handoffs \in SUBSET Reservations /\ IsFiniteSet(handoffs)
      /\ Kept(disk, notices, out, signed, handoffs)
  BY <1>2, BegunWith
<1>4. Reserving([data EXCEPT !.answers = [Cached(job.at) EXCEPT ![r] = a]], job.at) = n
  BY <1>1 DEF Cached, Giving, Offering
<1>5. /\ \/ disk' = n /\ out' = Longer(out, r, a)
         \/ disk' \in {disk, n} /\ out' = out
      /\ notices' = notices
  BY <1>4 DEF Give, Save, Fails, Longer, Shown
<1> HIDE DEF a
<1>6. n.phase = disk.phase /\ Chain(n) = Chain(disk)
  <2>1. PICK T : T = signed'
    OBVIOUS
  <2>2. PICK q : q = r
    OBVIOUS
  <2>3. Answering(disk, out, signed, T, q, a) /\ HasBudget(disk, disk.lastAt)
    BY <1>1, <2>1, <2>2
  <2>4. Kept(disk, notices, out, signed, handoffs) /\ handoffs \in SUBSET Reservations /\ IsFiniteSet(handoffs)
    BY <1>3
  <2> HIDE DEF n, r
  <2>5. SamePlace(Giving(disk, q, a), disk)
    BY <2>3, <2>4, KeptGiven
  <2> QED BY <2>2, <2>5 DEF n, SamePlace
<1>7. Answered(disk, out, signed) /\ Promised(disk, notices)
  BY <1>3 DEF Kept
<1>8. Shared(notices) = ToSet(disk.keeper) /\ Chain(disk) = disk.keeper
  BY <1>1, <1>3, <1>7, SharedIsChain
<1> HIDE DEF n
<1>9. CASE disk' = n /\ out' = Longer(out, r, a)
  <2>1. Proven(out)[r] \in {MaxEpoch + 1, Len(disk.keeper)}
    <3>1. PICK T : T = signed'
      OBVIOUS
    <3>2. PICK q : q = r
      OBVIOUS
    <3>3. PICK m : m = Len(disk.keeper)
      OBVIOUS
    <3>4. Answering(disk, out, signed, T, q, a) /\ (disk.answers[q] # NoAnswer => disk.answers[q].epoch = m)
      BY <1>1, <3>1, <3>2, <3>3
    <3> HIDE DEF r
    <3>5. Proven(out)[q] \in {MaxEpoch + 1, m}
      BY <1>3, <1>7, <3>4, ProvenOnce
    <3> QED BY <3>2, <3>3, <3>5
  <2>2. Proven(out') = [Proven(out) EXCEPT ![r] = Len(disk.keeper)]
    <3>1. out \in [Request -> Seq(Handouts)] /\ a \in Answers
      BY <1>1 DEF Answering
    <3>2. PICK q \in Request : q = r
      BY <1>1
    <3> HIDE DEF r
    <3>3. Proven(Longer(out, q, a)) = [Proven(out) EXCEPT ![q] = a.epoch]
      BY <3>1, ProvenMore
    <3> QED BY <1>1, <1>9, <3>2, <3>3
  <2>3. disk'.phase = disk.phase /\ Chain(disk') = Chain(disk)
    BY <1>6, <1>9
  <2>4. ToSet(Chain(disk)) \subseteq Shared(notices) /\ Len(Chain(disk)) = Len(disk.keeper)
    BY <1>8
  <2> HIDE DEF r
  <2>5. PICK q \in Request : q = r
    BY <1>1
  <2>6. Authority!Answer(q)
    <3>1. disk.phase = "active" /\ Authority!ToSet(Chain(disk)) \subseteq Shared(notices)
      BY <1>1, <2>4 DEF Authority!ToSet, ToSet
    <3>2. Proven(out)[q] \in {MaxEpoch + 1, Len(Chain(disk))}
      BY <2>1, <2>4, <2>5
    <3>3. Proven(out)' = [Proven(out) EXCEPT ![q] = Len(Chain(disk))]
      BY <2>2, <2>4, <2>5
    <3>4. Chain(disk)' = Chain(disk) /\ Shared(notices)' = Shared(notices) /\ (disk.phase)' = disk.phase
      BY <1>5, <2>3
    <3> QED BY <3>1, <3>2, <3>3, <3>4 DEF Authority!Answer, Authority!NoEpoch, Chain, Shared, Proven
  <2> QED BY <2>6
<1>10. CASE disk' \in {disk, n} /\ out' = out
  BY <1>5, <1>6, <1>10, WriteStutters
<1> QED BY <1>5, <1>9, <1>10

LEMMA RetireRetires ==
  ASSUME IInv, Retire
  PROVE  Authority!Retire \/ UNCHANGED Authority!authorityVars
<1> DEFINE P == [events |-> <<Tombstone(clock, FALSE)>>, next |-> data.keeper, phase |-> "retired"]
           n == Prepared(data, "retired", clock, P)
<1>1. owner = "up" /\ data.phase = "active" /\ data.pending = NoPending
  BY DEF Retire, Begins, Pending
<1>2. /\ data = disk /\ disk \in Records /\ clock \in Nat /\ disk.keeper \in Seq(Rekeys)
      /\ Kept(disk, notices, out, signed, handoffs)
  BY <1>1, BegunWith
<1>3. disk' \in {disk, n} /\ notices' = notices /\ out' = out
  BY DEF Retire, Prepare, Prepared, Save, Fails
<1>4. n.phase = "retired" /\ n.pending = P
  BY <1>2 DEF Prepared, Records
<1>5. P # NoPending /\ P.next = disk.keeper
  BY <1>2 DEF NoPending
<1> HIDE DEF P, n
<1>6. Chain(n) = disk.keeper
  BY <1>4, <1>5 DEF Chain
<1>7. Shared(notices) = ToSet(disk.keeper) /\ Chain(disk) = disk.keeper
  BY <1>1, <1>2, SharedIsChain DEF Kept
<1>8. CASE disk' = n
  <2>1. disk.phase = "active" /\ Authority!ToSet(Chain(disk)) \subseteq Shared(notices)
    BY <1>1, <1>2, <1>7 DEF Authority!ToSet, ToSet
  <2>2. Chain(disk)' = Chain(disk) /\ Shared(notices)' = Shared(notices) /\ (disk.phase)' = "retired" /\ Proven(out)' = Proven(out)
    BY <1>3, <1>4, <1>6, <1>7, <1>8
  <2>3. Authority!Retire
    BY <2>1, <2>2 DEF Authority!Retire, Chain, Shared, Proven
  <2> QED BY <2>3
<1>9. CASE disk' = disk
  BY <1>3, <1>9, WriteStutters
<1> QED BY <1>3, <1>8, <1>9

LEMMA RekeyDecides ==
  ASSUME NEW k \in 1..MaxEpoch, NEW s \in Secret, NEW c \in BOOLEAN, IInv, PrepareRekey(Rekey(k, s, c))
  PROVE  Authority!Decide(s, c) \/ UNCHANGED Authority!authorityVars
<1> DEFINE e == Rekey(k, s, c)
           target == IF e.closes THEN "closed" ELSE data.phase
           P == [events |-> IF e.closes THEN <<Tombstone(clock, TRUE), e>> ELSE <<e>>,
                 next |-> Append(data.keeper, e), phase |-> target]
           n == Prepared(data, target, clock, P)
<1>1. owner = "up" /\ data.phase # "closed" /\ data.pending = NoPending /\ e.epoch = Len(data.keeper) + 1
  BY DEF PrepareRekey, Begins, Pending, Epoch
<1>2. /\ data = disk /\ disk \in Records /\ clock \in Nat /\ disk.keeper \in Seq(Rekeys)
      /\ Kept(disk, notices, out, signed, handoffs)
  BY <1>1, BegunWith
<1>3. disk' \in {disk, n} /\ notices' = notices /\ out' = out
  BY DEF PrepareRekey, Prepare, Prepared, Save, Fails
<1>4. e.closes = c /\ k = Len(disk.keeper) + 1 /\ e = Rekey(Len(disk.keeper) + 1, s, c) /\ k <= MaxEpoch
  BY <1>1, <1>2, LiveKeeperAssumption DEF Rekey
<1> HIDE DEF e
<1>5. n.phase = target /\ n.pending = P
  <2> HIDE DEF target, P
  <2> QED BY <1>2 DEF Prepared, Records
<1>6. P # NoPending /\ P.next = Append(disk.keeper, e)
  <2>1. target # "none"
    BY <1>2 DEF Records
  <2>2. P.phase = target /\ P.next = Append(disk.keeper, e)
    BY <1>2
  <2> QED BY <2>1, <2>2 DEF NoPending
<1>7. target = IF c THEN "closed" ELSE disk.phase
  BY <1>2, <1>4
<1> HIDE DEF P, n, target
<1>8. Chain(n) = Append(disk.keeper, e)
  BY <1>5, <1>6 DEF Chain
<1>9. Shared(notices) = ToSet(disk.keeper) /\ Chain(disk) = disk.keeper
  BY <1>1, <1>2, SharedIsChain DEF Kept
<1>10. CASE disk' = n
  <2>1. /\ disk.phase # "closed" /\ Authority!ToSet(Chain(disk)) \subseteq Shared(notices)
        /\ Len(Chain(disk)) < MaxEpoch
    <3>1. Len(disk.keeper) \in Nat
      BY <1>2, LenProperties
    <3>2. Len(disk.keeper) < MaxEpoch
      BY <1>4, <3>1, LiveKeeperAssumption
    <3> QED BY <1>1, <1>2, <1>9, <3>2 DEF Authority!ToSet, ToSet
  <2>2. Chain(disk)' = Append(Chain(disk), Authority!Rekey(Len(Chain(disk)) + 1, s, c))
    <3>1. Authority!Rekey(Len(Chain(disk)) + 1, s, c) = e
      BY <1>4, <1>9 DEF Authority!Rekey, Rekey
    <3> QED BY <1>8, <1>9, <1>10, <3>1
  <2>3. (disk.phase)' = IF c THEN "closed" ELSE disk.phase
    BY <1>5, <1>7, <1>10
  <2>4. Shared(notices)' = Shared(notices) /\ Proven(out)' = Proven(out)
    BY <1>3
  <2>5. Authority!Decide(s, c)
    BY <2>1, <2>2, <2>3, <2>4 DEF Authority!Decide, Chain, Shared, Proven
  <2> QED BY <2>5
<1>11. CASE disk' = disk
  BY <1>3, <1>11, WriteStutters
<1> QED BY <1>3, <1>10, <1>11

LEMMA HandShares ==
  ASSUME NEW i \in 1..Len(disk.pending.events), IInv, owner \in {"up", "closing"}, disk.pending # NoPending, Hand(i)
  PROVE  Authority!Share \/ UNCHANGED Authority!authorityVars
<1> DEFINE n == Reserving(disk, clock)
           x == disk.pending.events[i]
<1>1. /\ data = disk /\ disk \in Records /\ clock \in Nat /\ IsFiniteSet(disk.reserved)
      /\ Following(disk) /\ Promised(disk, notices)
  BY BegunWith, JournalIsRecord DEF Kept
<1>2. n.phase = disk.phase /\ n.keeper = disk.keeper /\ n.pending = disk.pending
  BY <1>1, RecordReserved
<1>3. /\ disk' \in {disk, n} /\ out' = out
      /\ notices' = notices \/ notices' = notices \cup {x}
  BY <1>1 DEF Hand, Save, Fails
<1>4. x \in ToSet(disk.pending.events)
  BY <1>1, EventsPend
<1> HIDE DEF n, x
<1>5. Shared(notices \cup {x}) \in {Shared(notices), ToSet(Chain(disk))}
  BY <1>1, <1>4, SharedMore
<1>6. Chain(n) = Chain(disk)
  BY <1>2 DEF Chain
<1>7. (disk.phase)' = disk.phase /\ Chain(disk)' = Chain(disk) /\ Proven(out)' = Proven(out)
  BY <1>2, <1>3, <1>6
<1>8. CASE Shared(notices)' = Shared(notices)
  <2>1. out' = out
    BY <1>3
  <2> QED BY <1>7, <1>8, <2>1 DEF Authority!authorityVars, Chain, Shared
<1>9. CASE Shared(notices)' = ToSet(Chain(disk))
  <2>1. Shared(notices)' = Authority!ToSet(Chain(disk))
    BY <1>9 DEF Authority!ToSet, ToSet
  <2> QED BY <1>7, <2>1 DEF Authority!Share, Chain, Shared, Proven
<1> QED BY <1>3, <1>5, <1>8, <1>9

LEMMA CompleteStutters == ASSUME IInv, Complete PROVE UNCHANGED Authority!authorityVars
<1> DEFINE n == Made(disk, disk.pending.next, disk.pending.phase)
<1>1. disk.pending # NoPending /\ data = disk /\ owner # "poisoned"
  BY HandPending DEF Complete
<1>2. disk \in Records /\ disk.pending.phase = disk.phase
  BY <1>1, BegunWith, JournalIsRecord DEF Kept
<1>3. disk' \in {disk, n} /\ notices' = notices /\ out' = out
  BY <1>1 DEF Complete, Completed, Made, Save, Fails
<1>4. n.phase = disk.pending.phase /\ n.pending = NoPending /\ n.keeper = disk.pending.next
  BY <1>2 DEF Made, Records
<1> HIDE DEF n
<1>5. n.phase = disk.phase /\ Chain(n) = Chain(disk)
  BY <1>1, <1>2, <1>4 DEF Chain
<1> QED BY <1>3, <1>5, WriteStutters

LEMMA AuthorityStep == IInv /\ [Next]_vars => [Authority!AuthorityNext]_(Authority!authorityVars)
<1> SUFFICES ASSUME IInv, [Next]_vars
             PROVE  Authority!AuthorityNext \/ UNCHANGED Authority!authorityVars
  OBVIOUS
<1>0. disk' = disk /\ notices' = notices /\ out' = out => UNCHANGED Authority!authorityVars
  BY DEF Authority!authorityVars
<1>1. CASE UNCHANGED vars
  BY <1>0, <1>1 DEF vars
<1>2. ASSUME NEW r \in Request, Look(r) PROVE UNCHANGED Authority!authorityVars
  <2>1. owner # "poisoned"
    BY <1>2 DEF Look, Begins
  <2>2. data = disk /\ clock \in Nat
    BY <2>1, BegunWith
  <2>3. disk' \in {disk, [disk EXCEPT !.lastAt = clock]} /\ notices' = notices /\ out' = out
    BY <1>2, <2>2 DEF Look, Save, Fails
  <2> QED BY <2>1, <2>2, <2>3, LookStutters
<1>3. CASE Checkpoint
  <2>1. owner # "poisoned"
    BY <1>3 DEF Checkpoint, Begins
  <2>2. data = disk /\ clock \in Nat
    BY <2>1, BegunWith
  <2>3. disk' \in {disk, [disk EXCEPT !.lastAt = clock]} /\ notices' = notices /\ out' = out
    BY <1>3, <2>2 DEF Checkpoint, Save, Fails
  <2> QED BY <2>1, <2>2, <2>3, LookStutters
<1>4. CASE Give
  BY <1>4, GiveAnswers DEF Authority!AuthorityNext
<1>5. CASE Retire
  BY <1>5, RetireRetires DEF Authority!AuthorityNext
<1>6. ASSUME NEW n \in 1..MaxEpoch, NEW s \in Secret, NEW c \in BOOLEAN, PrepareRekey(Rekey(n, s, c))
      PROVE  Authority!AuthorityNext \/ UNCHANGED Authority!authorityVars
  BY <1>6, RekeyDecides DEF Authority!AuthorityNext
<1>7. CASE OfferPending
  <2>1. owner = "up" /\ data.pending # NoPending /\ Hand(1)
    BY <1>7 DEF OfferPending, Begins, Pending
  <2>2. data = disk /\ disk \in Records /\ Following(disk)
    BY <2>1, BegunWith
  <2>3. 1 \in 1..Len(disk.pending.events)
    BY <2>1, <2>2, EventsPend
  <2> QED BY <2>1, <2>2, <2>3, HandShares DEF Authority!AuthorityNext
<1>8. CASE HandNext
  <2>1. /\ owner \in {"up", "closing"} /\ disk.pending # NoPending /\ data = disk
        /\ job.index \in 1..Len(disk.pending.events) /\ Len(disk.pending.events) \in Nat
    BY <1>8, HandPending DEF HandNext
  <2>2. job.index < Len(disk.pending.events) /\ Hand(job.index + 1)
    BY <1>8, <2>1 DEF HandNext
  <2>3. PICK k : k = job.index + 1
    OBVIOUS
  <2>4. k \in 1..Len(disk.pending.events) /\ Hand(k)
    BY <2>1, <2>2, <2>3
  <2> QED BY <2>1, <2>4, HandShares DEF Authority!AuthorityNext
<1>9. CASE Complete
  BY <1>9, CompleteStutters
<1>10. CASE Refuse \/ Given \/ Interrupted
  BY <1>0, <1>10 DEF Refuse, Given, Interrupted
<1>11. CASE Close \/ Closed \/ Reopen \/ Crash
  BY <1>0, <1>11 DEF Close, Closed, Reopen, Crash
<1>12. CASE Tick \/ SetBack
  BY <1>0, <1>12 DEF Tick, SetBack
<1> QED BY <1>1, <1>2, <1>3, <1>4, <1>5, <1>6, <1>7, <1>8, <1>9, <1>10, <1>11, <1>12 DEF Next

-----------------------------------------------------------------------------
(* Theorems *)

\* The record in storage and the one in memory are always a journal that readJournal()
\* of src/live-keeper.ts accepts, and a job is at an event that there is.
THEOREM TypeCorrect == Spec => []TypeOK
<1>1. ASSUME IInv PROVE TypeOK
  <2>1. IsJournal(disk) /\ IsJournal(data) /\ owner \in {"down", "up", "closing", "poisoned"} /\ clock \in 0..MaxTime
    BY <1>1 DEF IInv, Kept, Elsewhere
  <2>2. job.kind \in {"idle", "look", "give", "hand"}
    BY <1>1 DEF IInv, JobHolds
  <2>3. job.kind = "hand" => job.index \in 1..Len(data.pending.events)
    BY <1>1, HandPending
  <2>4. \A r \in Request : disk.answers[r].serial <= signed[r]
    BY <1>1 DEF IInv, Kept, Answered
  <2> QED BY <2>1, <2>2, <2>3, <2>4 DEF TypeOK
<1> QED BY <1>1, Invariance, PTL

\* However often a request comes, whatever fails and however the clock is set back:
\* answer() hands out one signed answer to it, at most MaxOffers times.
THEOREM AnsweredAtMostOnce == Spec => []AnsweredOnce
<1>1. ASSUME IInv PROVE AnsweredOnce
  <2> SUFFICES ASSUME NEW r \in Request PROVE Cardinality(ToSet(out[r])) <= 1 /\ Len(out[r]) <= MaxOffers
    BY DEF AnsweredOnce
  <2>1. /\ out[r] \in Seq(Handouts) /\ Len(out[r]) <= MaxOffers
        /\ \A i, j \in 1..Len(out[r]) : out[r][i] = out[r][j]
    BY <1>1 DEF IInv, Elsewhere
  <2>2. ToSet(out[r]) = {out[r][i] : i \in 1..Len(out[r])} /\ Len(out[r]) \in Nat
    BY <2>1, LenProperties DEF ToSet
  <2>3. CASE Len(out[r]) = 0
    <3>1. ToSet(out[r]) = {}
      BY <2>2, <2>3
    <3> QED BY <2>1, <3>1, FS_EmptySet
  <2>4. CASE Len(out[r]) # 0
    <3>1. 1 \in 1..Len(out[r])
      BY <2>2, <2>4
    <3>2. ToSet(out[r]) = {out[r][1]}
      BY <2>1, <2>2, <3>1
    <3>3. Cardinality({out[r][1]}) = 1
      BY FS_Singleton
    <3> QED BY <2>1, <3>2, <3>3
  <2> QED BY <2>3, <2>4
<1> QED BY <1>1, Invariance, PTL

\* The relay sees no more handoffs in a window than the budget has: #reserve() counts
\* each of them before it is made, and no failure forgets one.
THEOREM BudgetIsKept == Spec => []BudgetKept
<1>1. IInv => BudgetKept
  BY DEF IInv, Elsewhere, BudgetKept
<1> QED BY <1>1, Invariance, PTL

\* A transition that counts as made was handed out, all of it: offerPending() saves it
\* as done after the last of its handoffs only.
THEOREM NothingSkipped == Spec => []DoneIsHanded
<1>1. ASSUME IInv PROVE DoneIsHanded
  <2>1. Promised(disk, notices)
    BY <1>1 DEF IInv, Kept
  <2> SUFFICES ASSUME disk.pending = NoPending
               PROVE  /\ ToSet(disk.keeper) \subseteq notices
                      /\ disk.phase # "active" => \E e \in notices : ~IsRekey(e) /\ (disk.phase = "closed" => e.ended)
    BY DEF DoneIsHanded
  <2>2. ToSet(disk.pending.events) = {}
    BY Kinds, SetOfSeq
  <2> QED BY <2>1, <2>2 DEF Promised
<1> QED BY <1>1, Invariance, PTL

\* The journal of a live keeper implements the authority that the room relies on: no
\* failed write, lost handoff, crash or restart shows in the chain of rekeys, in what
\* was handed out of it, in the invitation, or in the epochs of the answers.
THEOREM Implements == Spec => ImplementsAuthority
<1>1. Spec => [][Authority!AuthorityNext]_(Authority!authorityVars)
  BY Invariance, AuthorityStep, PTL DEF Spec
<1> QED BY <1>1, AuthorityInitially, PTL DEF Spec, Authority!AuthoritySpec, ImplementsAuthority

\* Nobody is handed two rekeys into one epoch, or a rekey beyond one that was not
\* handed out: prepareRekey() signs nothing while a transition is pending.
THEOREM OneRekeyToAnEpoch == Spec => []Authority!OneSuccessor
<1>1. ASSUME IInv PROVE Authority!OneSuccessor
  <2>1. disk \in Records /\ Following(disk) /\ Promised(disk, notices)
    BY <1>1, JournalIsRecord DEF IInv, Kept
  <2>2. /\ \A e, f \in Shared(notices) : e.epoch = f.epoch => e = f
        /\ \A e \in Shared(notices) : \A n \in 1..e.epoch : \E f \in Shared(notices) : f.epoch = n
    BY <2>1, OneEach
  <2> QED BY <2>2 DEF Authority!OneSuccessor, Shared
<1> QED BY <1>1, Invariance, PTL

=============================================================================
