-------------------------- MODULE RelayDialsProofs --------------------------
(* One dial at a time, for any number of pools and any length of the lease,     *)
(* the backoffs and the holds.                                                 *)
EXTENDS RelayDials, FiniteSetTheorems, TLAPS

\* What the gate and the pools can be, as far as the dials are concerned.  The
\* length of a backoff or a hold is only a number: it is a power of two, of
\* which the provers know no more.
Gate == [failures : Nat, after : Int, lease : Nat, owner : Pool \cup {Nobody}]
Hold == [strikes : Nat, left : Int]

Typed ==
  /\ relay \in Gate
  /\ hold \in [Traffic -> Hold]
  /\ socket \in [Pool -> {"none", "dialing", "open"}]
  /\ reserved \in [Pool -> Nat]
  /\ linger \in [Pool -> {"no", "owned", "spent"}]
  /\ overtaken \subseteq Pool
  /\ ~Failing(relay) => relay = Healthy

\* Who was reserved a dial has it under way, or lingering.
ReservedDials == \A p \in Pool : reserved[p] > 0 => Dialling(p)
OvertakenDials == \A p \in overtaken : Dialling(p)

\* A dial that opens leaves no receipt to the one that lingers.
OwnedIsClosed == \A p \in Pool : linger[p] = "owned" => socket[p] # "open"

\* A reservation that was not overtaken is the one that counts, and lasts as
\* long as the lease.
ReservedHolds ==
  \A p \in Pool \ overtaken : reserved[p] > 0 => relay.owner = p /\ reserved[p] <= relay.lease

IInv == Typed /\ LeaseIsUsed /\ ReservedDials /\ OvertakenDials /\ OwnedIsClosed /\ ReservedHolds

-----------------------------------------------------------------------------
(* Operators *)

LEMMA MaxOfTwo == ASSUME NEW a \in Int, NEW b \in Int PROVE Max({a, b}) = IF a >= b THEN a ELSE b
<1> DEFINE m == IF a >= b THEN a ELSE b
<1>1. m \in {a, b} /\ \A y \in {a, b} : m >= y
  OBVIOUS
<1>2. \A x \in {a, b} : (\A y \in {a, b} : x >= y) => x = m
  OBVIOUS
<1> QED
  BY <1>1, <1>2 DEF Max

LEMMA MinOfTwo == ASSUME NEW a \in Int, NEW b \in Int PROVE Min({a, b}) = IF a <= b THEN a ELSE b
<1> DEFINE m == IF a <= b THEN a ELSE b
<1>1. m \in {a, b} /\ \A y \in {a, b} : m <= y
  OBVIOUS
<1>2. \A x \in {a, b} : (\A y \in {a, b} : x <= y) => x = m
  OBVIOUS
<1> QED
  BY <1>1, <1>2 DEF Min

LEMMA LessType == ASSUME NEW t \in Nat PROVE Less(t) = (IF t > 0 THEN t - 1 ELSE 0)
<1>1. t - 1 \in Int /\ 0 \in Int
  OBVIOUS
<1>2. Max({t - 1, 0}) = IF t - 1 >= 0 THEN t - 1 ELSE 0
  BY <1>1, MaxOfTwo
<1> QED
  BY <1>2 DEF Less

LEMMA DoubledType ==
  ASSUME NEW n \in Nat, NEW start \in Nat, NEW max \in Nat
  PROVE  Doubled(n, start, max) \in Int
<1>1. 2^(n - 1) \in Int
  BY SMT
<1>2. start * 2^(n - 1) \in Int
  BY <1>1
<1>3. Min({start * 2^(n - 1), max}) \in Int
  BY <1>2, MinOfTwo
<1> QED
  BY <1>3 DEF Doubled

LEMMA FurtherType ==
  ASSUME NEW n \in Nat, NEW start \in Nat, NEW max \in Nat
  PROVE  Further(n, start, max) \in Nat \ {0}
BY DEF Further

\* A failure changes neither the lease nor who holds it.
LEMMA FailedGate ==
  ASSUME NEW r \in Gate
  PROVE  /\ Failed(r) \in Gate
         /\ Failed(r).lease = r.lease /\ Failed(r).owner = r.owner
         /\ Failing(Failed(r)) \/ Failed(r) = r
<1> DEFINE n == Further(r.failures, 1, BackoffMax)
           d == Doubled(n, 1, BackoffMax)
<1>1. r.failures \in Nat /\ r.lease \in Nat /\ r.owner \in Pool \cup {Nobody}
  BY DEF Gate
<1>2. n \in Nat \ {0}
  BY <1>1, FurtherType, RelayDialsAssumption
<1>3. d \in Int
  BY <1>2, DoubledType, RelayDialsAssumption
<1>4. Failed(r) = IF r.after > 0 THEN r ELSE [r EXCEPT !.failures = n, !.after = d]
  BY DEF Failed
<1> HIDE DEF n, d
<1>5. CASE r.after > 0
  BY <1>4, <1>5
<1>6. CASE ~(r.after > 0)
  <2>1. Failed(r) = [r EXCEPT !.failures = n, !.after = d]
    BY <1>4, <1>6
  <2>2. Failed(r) = [failures |-> n, after |-> d, lease |-> r.lease, owner |-> r.owner]
    BY <2>1 DEF Gate
  <2>3. n > 0
    BY <1>2
  <2> QED
    BY <1>1, <1>2, <1>3, <2>2, <2>3 DEF Gate, Failing
<1> QED
  BY <1>5, <1>6

\* The reservation of p ends with its dial, any other stays.
LEMMA ReleasedGate ==
  ASSUME NEW r \in Gate, NEW p \in Pool
  PROVE  /\ Released(r, p) \in Gate
         /\ Released(r, p).failures = r.failures /\ Released(r, p).after = r.after
         /\ r.owner = p => Released(r, p).lease = 0 /\ Released(r, p).owner = Nobody
         /\ r.owner # p => Released(r, p) = r
BY DEF Released, Gate

LEMMA HeldType == ASSUME NEW h \in Hold PROVE Held(h) \in Hold
<1> DEFINE n == IF 0 - h.left < HoldMax THEN Further(h.strikes, HoldStart, HoldMax) ELSE 1
           d == Doubled(n, HoldStart, HoldMax)
<1>1. n \in Nat \ {0}
  <2>1. h.strikes \in Nat /\ HoldStart \in Nat /\ HoldMax \in Nat
    BY RelayDialsAssumption DEF Hold
  <2>2. Further(h.strikes, HoldStart, HoldMax) \in Nat \ {0}
    BY <2>1, FurtherType
  <2> QED
    BY <2>2
<1>2. d \in Int
  BY <1>1, DoubledType, RelayDialsAssumption
<1>3. Held(h) = IF h.left > 0 THEN h ELSE [strikes |-> n, left |-> d]
  BY DEF Held
<1> HIDE DEF n, d
<1> QED
  BY <1>1, <1>2, <1>3 DEF Hold

-----------------------------------------------------------------------------
(* One step *)

\* The gate r is as it was for every pool but p, and p does not hold it.
Ends(r, p) ==
  /\ r \in Gate /\ (~Failing(r) => r = Healthy)
  /\ \/ r.lease = relay.lease /\ r.owner = relay.owner /\ (r.lease > 0 => r.owner # p)
     \/ relay.owner = p /\ r.lease = 0 /\ r.owner = Nobody

\* A failure ends no lease.
LEMMA EndsFailed ==
  ASSUME NEW r \in Gate, NEW p \in Pool, Ends(r, p)
  PROVE  Ends(Failed(r), p)
BY FailedGate DEF Ends

\* The dial that ends releases what it was reserved.
LEMMA EndsReleased ==
  ASSUME Typed, NEW p \in Pool
  PROVE  Ends(Released(relay, p), p)
<1>1. relay \in Gate
  BY DEF Typed
<1>2. ~Failing(relay) => relay.owner = Nobody /\ Released(relay, p) = relay
  BY <1>1, ReleasedGate, RelayDialsAssumption DEF Typed, Healthy
<1>3. Failing(relay) => Failing(Released(relay, p))
  BY <1>1, ReleasedGate DEF Failing
<1> QED
  BY <1>1, <1>2, <1>3, ReleasedGate DEF Ends, Typed

\* A pool that does not dial holds nothing.
LEMMA EndsIdle ==
  ASSUME IInv, NEW p \in Pool, ~Dialling(p)
  PROVE  Ends(relay, p)
BY DEF Ends, IInv, Typed, LeaseIsUsed

\* The dial or the socket of p ends, and no receipt is left.
LEMMA DialEnds ==
  ASSUME IInv, NEW p \in Pool, NEW s \in {"none", "open"}, NEW l \in {"no", "spent"},
         Ends(relay', p), hold' \in [Traffic -> Hold],
         socket' = [socket EXCEPT ![p] = s], linger' = [linger EXCEPT ![p] = l],
         reserved' = [reserved EXCEPT ![p] = 0], overtaken' = overtaken \ {p}
  PROVE  IInv'
<1>1. Typed'
  BY DEF IInv, Typed, Ends, Failing, Healthy
<1>2. LeaseIsUsed'
  BY DEF IInv, Typed, LeaseIsUsed, Dialling, Ends
<1>3. ReservedDials' /\ OvertakenDials' /\ OwnedIsClosed'
  BY DEF IInv, Typed, ReservedDials, OvertakenDials, OwnedIsClosed, Dialling
<1>4. ReservedHolds'
  <2> SUFFICES ASSUME NEW q \in Pool \ overtaken', reserved'[q] > 0
               PROVE  relay'.owner = q /\ reserved'[q] <= relay'.lease
    BY DEF ReservedHolds
  <2>1. q # p /\ q \notin overtaken /\ reserved'[q] = reserved[q]
    BY DEF IInv, Typed
  <2>2. relay.owner = q /\ reserved[q] <= relay.lease
    BY <2>1 DEF IInv, ReservedHolds
  <2> QED
    BY <2>1, <2>2 DEF Ends
<1> QED
  BY <1>1, <1>2, <1>3, <1>4 DEF IInv

\* Dials start and end, and none that has a reservation to give back is lost; the
\* lease stays whose it is.
LEMMA DialsStay ==
  ASSUME IInv, relay' \in Gate, ~Failing(relay)' => relay' = Healthy,
         relay'.lease = relay.lease, relay'.owner = relay.owner,
         UNCHANGED <<reserved, overtaken>>, hold' \in [Traffic -> Hold],
         socket' \in [Pool -> {"none", "dialing", "open"}],
         linger' \in [Pool -> {"no", "owned", "spent"}],
         \A p \in Pool : Dialling(p) => Dialling(p)', OwnedIsClosed'
  PROVE  IInv'
<1>1. Typed'
  BY DEF IInv, Typed
<1>2. LeaseIsUsed' /\ ReservedDials' /\ OvertakenDials' /\ ReservedHolds'
  BY DEF IInv, Typed, LeaseIsUsed, ReservedDials, OvertakenDials, ReservedHolds
<1> QED
  BY <1>1, <1>2 DEF IInv

\* Nothing the gate and the dials depend on changes.
LEMMA DialStays ==
  ASSUME IInv, UNCHANGED <<relay, socket, reserved, linger, overtaken>>,
         hold' \in [Traffic -> Hold]
  PROVE  IInv'
BY DEF IInv, Typed, LeaseIsUsed, ReservedDials, OvertakenDials, OwnedIsClosed, ReservedHolds,
       Dialling, Failing, Healthy

\* p dials, as the gate r lets it: then no other pool has a reservation that counts.
LEMMA DialStarts ==
  ASSUME IInv, NEW p \in Pool, NEW r, Ends(r, p), Dial(p, r, FALSE),
         NEW l \in {"no", "spent"}, linger' = [linger EXCEPT ![p] = l],
         hold' \in [Traffic -> Hold], overtaken' = overtaken \ {p}
  PROVE  IInv'
<1>1. r \in Gate /\ (~Failing(r) => r = Healthy) /\ r.lease = 0 /\ r.after = 0
  BY DEF Dial, Claims, Ends, Open
<1>2. /\ relay' = IF Failing(r) THEN [r EXCEPT !.lease = Lease, !.owner = p] ELSE r
      /\ socket' = [socket EXCEPT ![p] = "dialing"]
      /\ reserved' = [reserved EXCEPT ![p] = IF Failing(r) THEN Lease ELSE 0]
  BY DEF Dial, Reserved
<1>3. Lease \in Nat \ {0}
  BY RelayDialsAssumption
<1>4. relay' \in Gate /\ (~Failing(relay') => relay' = Healthy)
  BY <1>1, <1>2, <1>3 DEF Gate, Failing
<1>5. Typed'
  <2>1. socket' \in [Pool -> {"none", "dialing", "open"}] /\ reserved' \in [Pool -> Nat]
    BY <1>2, <1>3 DEF IInv, Typed
  <2> QED
    BY <1>4, <2>1 DEF IInv, Typed, Failing, Healthy
<1>6. LeaseIsUsed'
  BY <1>1, <1>2 DEF IInv, Typed, LeaseIsUsed, Dialling, Gate
<1>7. ReservedDials' /\ OvertakenDials' /\ OwnedIsClosed'
  BY <1>2 DEF IInv, Typed, ReservedDials, OvertakenDials, OwnedIsClosed, Dialling
<1>8. \A q \in Pool \ (overtaken \cup {p}) : ~(reserved[q] > 0)
  <2> SUFFICES ASSUME NEW q \in Pool \ overtaken, q # p, reserved[q] > 0 PROVE FALSE
    OBVIOUS
  <2>1. relay.owner = q /\ reserved[q] <= relay.lease
    BY DEF IInv, ReservedHolds
  <2>2. r.lease = relay.lease
    BY <2>1 DEF Ends
  <2> QED
    BY <1>1, <2>1, <2>2 DEF IInv, Typed, Gate
<1>9. ReservedHolds'
  BY <1>1, <1>2, <1>3, <1>8 DEF IInv, Typed, ReservedHolds, Gate
<1> QED
  BY <1>5, <1>6, <1>7, <1>9 DEF IInv

\* p dials with the receipt of the dial that lingers.
LEMMA DialAgain ==
  ASSUME IInv, NEW p \in Pool, linger[p] = "owned", Dial(p, relay, TRUE),
         hold' \in [Traffic -> Hold], UNCHANGED <<linger, overtaken>>
  PROVE  IInv'
<1>1. /\ relay' = relay /\ socket' = [socket EXCEPT ![p] = "dialing"]
      /\ reserved' = [reserved EXCEPT ![p] = reserved[p]]
  BY DEF Dial
<1>2. reserved' = reserved /\ socket' \in [Pool -> {"none", "dialing", "open"}]
  BY <1>1 DEF IInv, Typed
<1>3. \A q \in Pool : Dialling(q) => Dialling(q)'
  BY <1>1 DEF IInv, Typed, Dialling
<1>4. OwnedIsClosed'
  BY <1>1 DEF IInv, Typed, OwnedIsClosed
<1> QED
  BY <1>1, <1>2, <1>3, <1>4, DialsStay DEF IInv, Typed, Failing

\* The subscription starts, on the socket as it is.
LEMMA StartKeeps ==
  ASSUME IInv, NEW p \in Pool, NEW wait, Start(p, socket[p], relay, wait, Kept(p)),
         hold' \in [Traffic -> Hold], UNCHANGED <<linger, overtaken>>
  PROVE  IInv'
<1> DEFINE s == socket[p]
<1>1. \/ s = "none" /\ Dial(p, relay, Kept(p))
      \/ /\ socket' = [socket EXCEPT ![p] = s] /\ relay' = relay
         /\ reserved' = [reserved EXCEPT ![p] = IF s = "dialing" \/ Kept(p) THEN @ ELSE 0]
  BY DEF Start
<1>2. Kept(p) \in BOOLEAN /\ (Kept(p) <=> linger[p] = "owned") /\ s \in {"none", "dialing", "open"}
  BY DEF Kept, IInv, Typed
<1>3. CASE /\ s = "dialing" \/ Kept(p)
           /\ socket' = [socket EXCEPT ![p] = s] /\ relay' = relay
           /\ reserved' = [reserved EXCEPT ![p] = IF s = "dialing" \/ Kept(p) THEN @ ELSE 0]
  <2>1. UNCHANGED <<relay, socket, reserved, linger, overtaken>>
    BY <1>3 DEF IInv, Typed
  <2> QED
    BY <2>1, DialStays
<1>4. CASE Kept(p) /\ Dial(p, relay, Kept(p))
  <2>1. Dial(p, relay, TRUE)
    BY <1>2, <1>4
  <2> QED
    BY <1>2, <1>4, <2>1, DialAgain
<1>5. CASE s # "dialing" /\ ~Kept(p)
  <2>1. ~Dialling(p)
    BY <1>2, <1>5 DEF Dialling
  <2>2. Ends(relay, p) /\ overtaken' = overtaken \ {p}
    BY <2>1, EndsIdle DEF IInv, OvertakenDials
  <2>3. linger[p] \in {"no", "spent"} /\ linger' = [linger EXCEPT ![p] = linger[p]]
    BY <1>2, <1>5 DEF IInv, Typed
  <2>4. CASE Dial(p, relay, Kept(p))
    <3>1. Dial(p, relay, FALSE)
      BY <1>2, <1>5, <2>4
    <3> QED
      BY <2>2, <2>3, <3>1, DialStarts
  <2>5. CASE /\ socket' = [socket EXCEPT ![p] = s] /\ relay' = relay
             /\ reserved' = [reserved EXCEPT ![p] = IF s = "dialing" \/ Kept(p) THEN @ ELSE 0]
    <3>1. reserved' = [reserved EXCEPT ![p] = 0] /\ s \in {"none", "open"} /\ Ends(relay', p)
      BY <1>2, <1>5, <2>2, <2>5
    <3> QED
      BY <2>2, <2>3, <2>5, <3>1, DialEnds
  <2> QED
    BY <1>1, <2>4, <2>5
<1> QED
  BY <1>1, <1>2, <1>3, <1>4, <1>5

\* The subscription starts once every dial of p was aborted.
LEMMA AfreshKeeps ==
  ASSUME IInv, NEW p \in Pool, NEW r, Ends(r, p), Start(p, "none", r, 0, FALSE),
         hold' \in [Traffic -> Hold], overtaken' = overtaken \ {p},
         linger' = [linger EXCEPT ![p] = "no"]
  PROVE  IInv'
<1>1. CASE Dial(p, r, FALSE)
  BY <1>1, DialStarts
<1>2. CASE /\ socket' = [socket EXCEPT ![p] = "none"] /\ relay' = r
           /\ reserved' = [reserved EXCEPT ![p] = 0]
  BY <1>2, DialEnds
<1> QED
  BY <1>1, <1>2 DEF Start

\* A socket that goes takes what was asked of it along, and with its dial the lease.
LEMMA GoneKeeps ==
  ASSUME IInv, NEW p \in Pool, Gone(p), Ends(relay', p), hold' \in [Traffic -> Hold],
         Spent(p) \/ (~Dialling(p) /\ linger' = linger)
  PROVE  IInv'
<1>1. /\ socket' = [socket EXCEPT ![p] = "none"] /\ reserved' = [reserved EXCEPT ![p] = 0]
      /\ overtaken' = overtaken \ {p}
  BY DEF Gone, Forgotten
<1>2. PICK l \in {"no", "spent"} : linger' = [linger EXCEPT ![p] = l]
  BY DEF Spent, Dialling, IInv, Typed
<1> QED
  BY <1>1, <1>2, DialEnds

\* pool.close() of a dial: the dial lingers, with the reservation it has.
LEMMA AbandonKeeps == ASSUME IInv, NEW p \in Pool, Abandon(p), hold' = hold PROVE IInv'
<1>1. /\ linger' = [linger EXCEPT ![p] = "owned"] /\ socket' = [socket EXCEPT ![p] = "none"]
      /\ UNCHANGED <<relay, reserved, overtaken>>
  BY DEF Abandon
<1>2. \A q \in Pool : Dialling(q) => Dialling(q)'
  BY <1>1 DEF IInv, Typed, Dialling
<1>3. OwnedIsClosed' /\ hold' \in [Traffic -> Hold]
  BY <1>1 DEF IInv, Typed, OwnedIsClosed
<1>4. /\ socket' \in [Pool -> {"none", "dialing", "open"}]
      /\ linger' \in [Pool -> {"no", "owned", "spent"}]
  BY <1>1 DEF IInv, Typed
<1> QED
  BY <1>1, <1>2, <1>3, <1>4, DialsStay DEF IInv, Typed, Failing

\* The deadline of a dial that lingers.  Its receipt, if it has one, frees the lease:
\* under a younger dial of its pool, that one is overtaken.
LEMMA LateKeeps == ASSUME IInv, NEW p \in Pool, Late(p) PROVE IInv'
<1>1. /\ linger' = [linger EXCEPT ![p] = "no"] /\ relay' = LateGate(p)
      /\ socket' = socket /\ hold' = hold /\ linger[p] # "no"
  BY DEF Late
<1>2. relay \in Gate /\ hold' \in [Traffic -> Hold] /\ socket' \in [Pool -> {"none", "dialing", "open"}]
  BY <1>1 DEF IInv, Typed
<1>3. CASE Kept(p)
  <2>1. Ends(relay', p)
    BY <1>1, <1>3, EndsReleased, EndsFailed DEF IInv, LateGate, FailedDial, Ends
  <2>2. socket[p] # "open"
    BY <1>3 DEF IInv, OwnedIsClosed, Kept
  <2>3. CASE socket[p] = "none"
    <3>1. /\ reserved' = [reserved EXCEPT ![p] = 0] /\ overtaken' = overtaken \ {p}
          /\ socket' = [socket EXCEPT ![p] = "none"]
      BY <1>1, <1>3, <2>3 DEF Late, IInv, Typed
    <3> QED
      BY <1>1, <1>2, <2>1, <3>1, DialEnds
  <2>4. CASE socket[p] = "dialing"
    <3>1. /\ overtaken' = IF reserved[p] > 0 THEN overtaken \cup {p} ELSE overtaken
          /\ reserved' = reserved
      BY <1>3, <2>4 DEF Late
    <3>2. Typed'
      BY <1>1, <1>2, <2>1, <3>1 DEF IInv, Typed, Ends, Failing
    <3>3. LeaseIsUsed'
      BY <1>1, <2>1, <2>4, <3>1 DEF IInv, Typed, LeaseIsUsed, Dialling, Ends
    <3>4. ReservedDials' /\ OvertakenDials' /\ OwnedIsClosed'
      BY <1>1, <2>4, <3>1 DEF IInv, Typed, ReservedDials, OvertakenDials, OwnedIsClosed, Dialling
    <3>5. ReservedHolds'
      <4> SUFFICES ASSUME NEW q \in Pool \ overtaken', reserved'[q] > 0
                   PROVE  relay'.owner = q /\ reserved'[q] <= relay'.lease
        BY DEF ReservedHolds
      <4>1. q # p /\ q \notin overtaken /\ reserved'[q] = reserved[q]
        BY <3>1
      <4>2. relay.owner = q /\ reserved[q] <= relay.lease
        BY <4>1 DEF IInv, ReservedHolds
      <4> QED
        BY <2>1, <4>1, <4>2 DEF Ends
    <3> QED
      BY <3>2, <3>3, <3>4, <3>5 DEF IInv
  <2> QED
    BY <2>2, <2>3, <2>4 DEF IInv, Typed
<1>4. CASE ~Kept(p)
  <2>1. relay' = Failed(relay) /\ linger[p] # "owned"
    BY <1>1, <1>4 DEF LateGate, Kept
  <2>2. /\ relay' \in Gate /\ relay'.lease = relay.lease /\ relay'.owner = relay.owner
        /\ ~Failing(relay)' => relay' = Healthy
    BY <1>2, <2>1, FailedGate DEF IInv, Typed, Failing
  <2>3. UNCHANGED <<reserved, overtaken>>
    BY <1>4 DEF Late
  <2>4. /\ \A q \in Pool : Dialling(q) => Dialling(q)'
        /\ OwnedIsClosed' /\ linger' \in [Pool -> {"no", "owned", "spent"}]
    BY <1>1, <2>1 DEF IInv, Typed, OwnedIsClosed, Dialling
  <2> QED
    BY <1>2, <2>2, <2>3, <2>4, DialsStay
<1> QED
  BY <1>3, <1>4

\* The publish that waited for it closes what the pool has.
LEMMA LatePublishKeeps == ASSUME IInv, NEW p \in Pool, LatePublish(p) PROVE IInv'
<1>1. relay \in Gate /\ hold' \in [Traffic -> Hold] /\ linger[p] # "no"
  BY DEF LatePublish, IInv, Typed
<1>2. CASE linger[p] = "spent" /\ socket[p] = "dialing"
  <2>1. /\ linger' = [linger EXCEPT ![p] = "owned"] /\ overtaken' = overtaken
        /\ Start(p, "none", Failed(relay), resend[p], TRUE)
    BY <1>2 DEF LatePublish, LateGate, Kept
  <2>2. /\ relay' = Failed(relay) /\ reserved' = [reserved EXCEPT ![p] = reserved[p]]
        /\ \E s \in {"none", "dialing"} : socket' = [socket EXCEPT ![p] = s]
    BY <2>1 DEF Start, Dial
  <2>3. reserved' = reserved
    BY <2>2 DEF IInv, Typed
  <2>4. /\ relay' \in Gate /\ relay'.lease = relay.lease /\ relay'.owner = relay.owner
        /\ ~Failing(relay)' => relay' = Healthy
    BY <1>1, <2>2, FailedGate DEF IInv, Typed, Failing
  <2>5. \A q \in Pool : Dialling(q) => Dialling(q)'
    BY <2>1, <2>2 DEF IInv, Typed, Dialling
  <2>6. OwnedIsClosed'
    BY <2>1, <2>2 DEF IInv, Typed, OwnedIsClosed
  <2>7. /\ socket' \in [Pool -> {"none", "dialing", "open"}]
        /\ linger' \in [Pool -> {"no", "owned", "spent"}]
    BY <2>1, <2>2 DEF IInv, Typed
  <2> QED
    BY <1>1, <2>1, <2>3, <2>4, <2>5, <2>6, <2>7, DialsStay
<1>3. CASE ~(linger[p] = "spent" /\ socket[p] = "dialing")
  <2>1. /\ linger' = [linger EXCEPT ![p] = IF socket[p] = "dialing" THEN "spent" ELSE "no"]
        /\ socket' = [socket EXCEPT ![p] = "none"] /\ reserved' = [reserved EXCEPT ![p] = 0]
        /\ relay' = LateGate(p) /\ overtaken' = overtaken \ {p}
    BY <1>3 DEF LatePublish, Closed
  <2>2. Ends(relay', p)
    <3>1. CASE Kept(p)
      BY <2>1, <3>1, EndsReleased, EndsFailed DEF IInv, LateGate, FailedDial, Ends
    <3>2. CASE ~Kept(p)
      <4>1. ~Dialling(p) /\ relay' = Failed(relay)
        BY <1>1, <1>3, <2>1, <3>2 DEF Dialling, Kept, LateGate, IInv, Typed
      <4> QED
        BY <1>1, <4>1, EndsIdle, EndsFailed
    <3> QED
      BY <3>1, <3>2
  <2>3. PICK l \in {"no", "spent"} : linger' = [linger EXCEPT ![p] = l]
    BY <2>1
  <2> QED
    BY <1>1, <2>1, <2>2, <2>3, DialEnds
<1> QED
  BY <1>2, <1>3

\* A refused upgrade only makes the backoff longer, before the dial has failed.
LEMMA RefusedEnds ==
  ASSUME IInv, NEW p \in Pool, RefusedUpgrade(p)
  PROVE  Ends(relay', p) /\ hold' \in [Traffic -> Hold]
<1> DEFINE h == Held(hold["write"])
           n == Max({relay.failures, 1})
           a == Max({relay.after, h.left})
           r == [relay EXCEPT !.failures = n, !.after = a]
<1>1. h \in Hold
  BY HeldType DEF IInv, Typed, Traffic
<1>2. relay.failures \in Nat /\ relay.after \in Int /\ h.left \in Int
  BY <1>1 DEF IInv, Typed, Gate, Hold
<1>3. n \in Nat /\ n > 0 /\ a \in Int
  <2>1. n = IF relay.failures >= 1 THEN relay.failures ELSE 1
    BY <1>2, MaxOfTwo
  <2>2. a = IF relay.after >= h.left THEN relay.after ELSE h.left
    BY <1>2, MaxOfTwo
  <2> QED
    BY <1>2, <2>1, <2>2
<1>4. hold' = [hold EXCEPT !["write"] = h] /\ relay' = Failed(Released(r, p))
  BY DEF RefusedUpgrade, FailedDial
<1> HIDE DEF h, n, a
<1>5. r \in Gate /\ r.failures = n /\ r.owner = relay.owner /\ r.lease = relay.lease
  BY <1>3 DEF IInv, Typed, Gate
<1> HIDE DEF r
<1>6. Ends(Released(r, p), p)
  BY <1>3, <1>5, ReleasedGate DEF Ends, Failing
<1>7. Ends(relay', p)
  BY <1>4, <1>6, EndsFailed DEF Ends
<1>8. hold' \in [Traffic -> Hold]
  BY <1>1, <1>4 DEF IInv, Typed
<1> QED
  BY <1>7, <1>8

\* Time passes for a reservation as it does for the lease it took.
LEMMA TickKeeps == ASSUME IInv, Tick PROVE IInv'
<1>1. /\ relay.after \in Int /\ relay.lease \in Nat /\ relay.failures \in Nat
      /\ relay.owner \in Pool \cup {Nobody} /\ \A p \in Pool : reserved[p] \in Nat
  BY DEF IInv, Typed, Gate
<1>2. /\ Less(relay.lease) = IF relay.lease > 0 THEN relay.lease - 1 ELSE 0
      /\ \A p \in Pool : Less(reserved[p]) = IF reserved[p] > 0 THEN reserved[p] - 1 ELSE 0
  BY <1>1, LessType
<1>3. Less(relay.after) = IF relay.after - 1 >= 0 THEN relay.after - 1 ELSE 0
  <2>1. relay.after - 1 \in Int
    BY <1>1
  <2> QED
    BY <2>1, MaxOfTwo DEF Less
<1>4. /\ relay' = [relay EXCEPT !.after = Less(@), !.lease = Less(@)]
      /\ reserved' = [p \in Pool |-> Less(reserved[p])]
      /\ hold' = [k \in Traffic |-> [hold[k] EXCEPT !.left = Max({@ - 1, 0 - HoldMax})]]
      /\ socket' = socket /\ linger' = linger /\ overtaken' = overtaken
  BY DEF Tick
<1>5. /\ relay' \in Gate /\ relay'.failures = relay.failures /\ relay'.owner = relay.owner
      /\ relay'.after = Less(relay.after) /\ relay'.lease = Less(relay.lease)
  <2>1. Less(relay.after) \in Int /\ Less(relay.lease) \in Nat
    BY <1>1, <1>2, <1>3
  <2>2. relay' = [failures |-> relay.failures, after |-> Less(relay.after),
                  lease |-> Less(relay.lease), owner |-> relay.owner]
    BY <1>4 DEF IInv, Typed, Gate
  <2> QED
    BY <1>1, <2>1, <2>2 DEF Gate
<1>6. reserved' \in [Pool -> Nat]
  BY <1>1, <1>2, <1>4
<1>7. hold' \in [Traffic -> Hold]
  <2> SUFFICES ASSUME NEW k \in Traffic
               PROVE  [hold[k] EXCEPT !.left = Max({@ - 1, 0 - HoldMax})] \in Hold
    BY <1>4
  <2>1. hold[k] \in Hold /\ hold[k].left - 1 \in Int /\ 0 - HoldMax \in Int
    BY RelayDialsAssumption DEF IInv, Typed, Hold
  <2>2. Max({hold[k].left - 1, 0 - HoldMax}) \in Int
    BY <2>1, MaxOfTwo
  <2> QED
    BY <2>1, <2>2 DEF Hold
<1>8. ~Failing(relay') => relay' = Healthy
  <2> SUFFICES ASSUME ~Failing(relay') PROVE relay' = Healthy
    OBVIOUS
  <2>1. relay = Healthy
    BY <1>5 DEF IInv, Typed, Failing
  <2>2. relay'.after = 0 /\ relay'.lease = 0 /\ relay'.failures = 0 /\ relay'.owner = Nobody
    BY <1>2, <1>3, <1>5, <2>1 DEF Healthy
  <2> QED
    BY <1>5, <2>2 DEF Gate, Healthy
<1>9. Typed'
  BY <1>4, <1>5, <1>6, <1>7, <1>8 DEF IInv, Typed, Failing, Healthy
<1>10. LeaseIsUsed'
  BY <1>1, <1>2, <1>4, <1>5 DEF IInv, LeaseIsUsed, Dialling
<1>11. ReservedDials' /\ OvertakenDials' /\ OwnedIsClosed'
  BY <1>1, <1>2, <1>4 DEF IInv, Typed, ReservedDials, OvertakenDials, OwnedIsClosed, Dialling
<1>12. ReservedHolds'
  BY <1>1, <1>2, <1>4, <1>5 DEF IInv, ReservedHolds
<1> QED
  BY <1>9, <1>10, <1>11, <1>12 DEF IInv

\* A probe that fails frees the lease, whoever holds it; those dials are overtaken.
LEMMA ProbeKeeps == ASSUME IInv, NEW p \in Pool, ProbeFails(p) PROVE IInv'
<1> DEFINE r == [relay EXCEPT !.lease = 0, !.owner = Nobody]
<1>1. /\ socket[p] = "open" /\ socket' = [socket EXCEPT ![p] = "none"] /\ relay' = Failed(r)
      /\ overtaken' = {q \in Pool \ {p} : reserved[q] > 0}
      /\ hold' = hold /\ reserved' = reserved /\ linger' = linger
  BY DEF ProbeFails, FailedSocket
<1>2. /\ r \in Gate /\ r.lease = 0 /\ r.owner = Nobody
      /\ r.failures = relay.failures /\ r.after = relay.after
  BY DEF IInv, Typed, Gate
<1>3. ~Failing(r) => r = Healthy
  <2> SUFFICES ASSUME ~Failing(r) PROVE r = Healthy
    OBVIOUS
  <2>1. relay = Healthy
    BY <1>2 DEF IInv, Typed, Failing
  <2>2. r.failures = 0 /\ r.after = 0
    BY <1>2, <2>1 DEF Healthy
  <2> HIDE DEF r
  <2> QED
    BY <1>2, <2>2 DEF Gate, Healthy
<1> HIDE DEF r
<1>4. relay' \in Gate /\ relay'.lease = 0 /\ (~Failing(relay') => relay' = Healthy)
  BY <1>1, <1>2, <1>3, FailedGate
<1>5. reserved[p] = 0 /\ ~Dialling(p)
  BY <1>1 DEF IInv, Typed, ReservedDials, OwnedIsClosed, Dialling
<1>6. Typed'
  BY <1>1, <1>4 DEF IInv, Typed, Failing, Healthy
<1>7. LeaseIsUsed'
  BY <1>4 DEF LeaseIsUsed
<1>8. ReservedDials' /\ OvertakenDials' /\ OwnedIsClosed'
  BY <1>1, <1>5 DEF IInv, Typed, ReservedDials, OvertakenDials, OwnedIsClosed, Dialling
<1>9. ReservedHolds'
  BY <1>1, <1>5 DEF ReservedHolds
<1> QED
  BY <1>6, <1>7, <1>8, <1>9 DEF IInv

LEMMA Initial == Init => IInv
<1> SUFFICES ASSUME Init PROVE IInv
  OBVIOUS
<1>1. Healthy \in Gate /\ Healthy.lease = 0
  BY DEF Healthy, Gate
<1>2. [strikes |-> 0, left |-> 0 - HoldMax] \in Hold
  BY RelayDialsAssumption DEF Hold
<1>3. Typed
  BY <1>1, <1>2 DEF Init, Typed
<1> QED
  BY <1>1, <1>3 DEF Init, IInv, LeaseIsUsed, ReservedDials, OvertakenDials, OwnedIsClosed, ReservedHolds

LEMMA StepKeeps == ASSUME IInv, [Next]_vars PROVE IInv'
<1> USE DEF reading
<1>1. CASE UNCHANGED vars
  <2>1. UNCHANGED <<relay, socket, reserved, linger, overtaken>> /\ hold' \in [Traffic -> Hold]
    BY <1>1 DEF vars, IInv, Typed
  <2> QED
    BY <2>1, DialStays
<1>2. CASE Tick
  BY <1>2, TickKeeps
<1>3. ASSUME NEW p \in Pool,
             \/ Opens(p) \/ DialFails(p) \/ RefusedUpgrade(p)
             \/ Subscribe(p) \/ SetRelays(p) \/ Stop(p)
             \/ RelayCloses(p) \/ Recover(p) \/ Redial(p) \/ Late(p) \/ LatePublish(p)
             \/ Publish(p) \/ Answers(p) \/ PublishTimesOut(p)
             \/ Complains(p) \/ Drops(p) \/ ProbeFails(p)
      PROVE  IInv'
  <2> USE <1>3
  <2>1. relay \in Gate /\ hold \in [Traffic -> Hold]
    BY DEF IInv, Typed
  <2>2. Ends(Released(relay, p), p)
    BY EndsReleased DEF IInv
  <2>3. Ends(FailedDial(relay, p), p)
    BY <2>2, EndsFailed DEF FailedDial, Ends
  <2>4. socket[p] = "open" => ~Dialling(p) /\ Ends(relay, p) /\ Ends(Failed(relay), p)
    BY <2>1, EndsIdle, EndsFailed DEF Dialling, IInv, OwnedIsClosed
  <2>5. CASE Opens(p)
    <3>1. /\ socket' = [socket EXCEPT ![p] = "open"] /\ reserved' = [reserved EXCEPT ![p] = 0]
          /\ relay' = Released(relay, p) /\ overtaken' = overtaken \ {p} /\ hold' = hold
      BY <2>5 DEF Opens
    <3>2. PICK l \in {"no", "spent"} : linger' = [linger EXCEPT ![p] = l]
      BY <2>5 DEF Opens, Spent, IInv, Typed
    <3> QED
      BY <2>1, <2>2, <3>1, <3>2, DialEnds
  <2>6. CASE DialFails(p)
    <3>1. Gone(p) /\ relay' = FailedDial(relay, p) /\ hold' = hold /\ Spent(p)
      BY <2>6 DEF DialFails
    <3> QED
      BY <2>1, <2>3, <3>1, GoneKeeps
  <2>7. CASE RefusedUpgrade(p)
    <3>1. Gone(p) /\ Spent(p)
      BY <2>7 DEF RefusedUpgrade
    <3> QED
      BY <2>7, <3>1, RefusedEnds, GoneKeeps
  <2>8. CASE Subscribe(p)
    <3>1. Start(p, socket[p], relay, 0, Kept(p)) /\ UNCHANGED <<hold, linger, overtaken>>
      BY <2>8 DEF Subscribe
    <3> QED
      BY <2>1, <3>1, StartKeeps
  <2>9. CASE SetRelays(p)
    <3>1. hold' = hold /\ overtaken' = overtaken \ {p} /\ linger' = [linger EXCEPT ![p] = "no"]
      BY <2>9 DEF SetRelays, Aborted
    <3>2. CASE Closed(p) /\ relay' = Released(relay, p)
      BY <2>1, <2>2, <3>1, <3>2, DialEnds DEF Closed
    <3>3. CASE Start(p, "none", Released(relay, p), 0, FALSE)
      BY <2>1, <2>2, <3>1, <3>3, AfreshKeeps
    <3> QED
      BY <2>9, <3>2, <3>3 DEF SetRelays
  <2>10. CASE Stop(p)
    <3>1. /\ hold' = hold /\ overtaken' = overtaken \ {p} /\ linger' = [linger EXCEPT ![p] = "no"]
          /\ Closed(p) /\ relay' = Released(relay, p)
      BY <2>10 DEF Stop, Aborted
    <3> QED
      BY <2>1, <2>2, <3>1, DialEnds DEF Closed
  <2>11. CASE RelayCloses(p)
    BY <2>1, <2>11, DialStays DEF RelayCloses
  <2>12. CASE Recover(p)
    <3>1. hold' = hold
      BY <2>12 DEF Recover
    <3>2. CASE /\ socket[p] = "open" /\ Start(p, "open", relay, 0, FALSE)
               /\ UNCHANGED <<linger, overtaken>>
      <4>1. Kept(p) = FALSE
        BY <3>2 DEF Kept, IInv, OwnedIsClosed
      <4>2. Start(p, socket[p], relay, 0, Kept(p))
        BY <3>2, <4>1
      <4> QED
        BY <2>1, <3>1, <3>2, <4>2, StartKeeps
    <3>3. CASE Abandon(p)
      BY <3>1, <3>3, AbandonKeeps
    <3>4. CASE UNCHANGED <<relay, socket, reserved, linger, asked, reader, overtaken>>
      BY <2>1, <3>1, <3>4, DialStays
    <3> QED
      BY <2>12, <3>2, <3>3, <3>4 DEF Recover
  <2>13. CASE Redial(p)
    <3>1. UNCHANGED <<hold, linger, overtaken>>
      BY <2>13 DEF Redial
    <3>2. CASE UNCHANGED <<relay, socket, reserved, reader>>
      BY <2>1, <3>1, <3>2, DialStays
    <3>3. CASE Start(p, socket[p], relay, resend[p], Kept(p))
      BY <2>1, <3>1, <3>3, StartKeeps
    <3> QED
      BY <2>13, <3>2, <3>3 DEF Redial
  <2>14. CASE Publish(p)
    <3>1. UNCHANGED <<hold, linger, overtaken>>
      BY <2>14 DEF Publish
    <3>2. CASE socket[p] = "none" /\ Dial(p, relay, Kept(p))
      <4>1. CASE linger[p] = "owned"
        <5>1. Dial(p, relay, TRUE)
          BY <3>2, <4>1 DEF Kept
        <5> QED
          BY <2>1, <3>1, <4>1, <5>1, DialAgain
      <4>2. CASE linger[p] # "owned"
        <5>1. Dial(p, relay, FALSE)
          BY <3>2, <4>2 DEF Kept
        <5>2. ~Dialling(p)
          BY <3>2, <4>2 DEF Dialling
        <5>3. overtaken' = overtaken \ {p} /\ Ends(relay, p)
          BY <3>1, <5>2, EndsIdle DEF IInv, OvertakenDials
        <5>4. linger[p] \in {"no", "spent"} /\ linger' = [linger EXCEPT ![p] = linger[p]]
          BY <3>1, <4>2 DEF IInv, Typed
        <5> QED
          BY <2>1, <3>1, <5>1, <5>3, <5>4, DialStarts
      <4> QED
        BY <4>1, <4>2
    <3>3. CASE UNCHANGED <<relay, socket, reserved>>
      BY <2>1, <3>1, <3>3, DialStays
    <3> QED
      BY <2>14, <3>2, <3>3 DEF Publish
  <2>15. CASE Answers(p)
    <3>1. /\ relay' = Healthy /\ reserved' = [q \in Pool |-> 0] /\ hold' = hold
          /\ socket' = socket /\ linger' = linger /\ overtaken' = overtaken
      BY <2>15 DEF Answers
    <3>2. Healthy \in Gate /\ Healthy.lease = 0
      BY DEF Healthy, Gate
    <3>3. Typed'
      BY <3>1, <3>2 DEF IInv, Typed, Failing, Healthy
    <3> QED
      BY <3>1, <3>2, <3>3
      DEF IInv, LeaseIsUsed, ReservedDials, OvertakenDials, OwnedIsClosed, ReservedHolds, Dialling
  <2>16. CASE PublishTimesOut(p)
    <3>1. Gone(p) /\ relay' = Failed(relay) /\ UNCHANGED <<hold, linger>> /\ socket[p] = "open"
      BY <2>16 DEF PublishTimesOut
    <3> QED
      BY <2>1, <2>4, <3>1, GoneKeeps
  <2>17. CASE Complains(p)
    <3>1. UNCHANGED <<relay, socket, reserved, linger, overtaken>>
      BY <2>17 DEF Complains
    <3>2. \A k \in Traffic : Held(hold[k]) \in Hold
      BY <2>1, HeldType
    <3>3. hold' \in [Traffic -> Hold]
      BY <2>1, <2>17, <3>2 DEF Complains, Traffic
    <3> QED
      BY <3>1, <3>3, DialStays
  <2>18. CASE Drops(p)
    <3>1. /\ Gone(p) /\ UNCHANGED <<hold, linger>> /\ socket[p] = "open"
          /\ relay' = IF asked[p] = "sent" THEN Failed(relay) ELSE relay
      BY <2>18 DEF Drops
    <3> QED
      BY <2>1, <2>4, <3>1, GoneKeeps
  <2>19. CASE ProbeFails(p)
    BY <2>19, ProbeKeeps
  <2>20. CASE Late(p)
    BY <2>20, LateKeeps
  <2>21. CASE LatePublish(p)
    BY <2>21, LatePublishKeeps
  <2> QED
    BY <2>5, <2>6, <2>7, <2>8, <2>9, <2>10, <2>11, <2>12, <2>13, <2>14, <2>15, <2>16,
       <2>17, <2>18, <2>19, <2>20, <2>21
<1> QED
  BY <1>1, <1>2, <1>3 DEF Next

LEMMA Invariance == Spec => []IInv
<1>1. Init => IInv
  BY Initial
<1>2. IInv /\ [Next]_vars => IInv'
  BY StepKeeps
<1> QED
  BY <1>1, <1>2, PTL DEF Spec

-----------------------------------------------------------------------------
(* Theorems *)

\* While a relay fails, at most one dial that was not overtaken holds a reservation,
\* however many pools there are and whatever is cancelled, answered or failed in
\* between: claim(), release() and failedDial() of src/relay-dial-gate.ts.
THEOREM OneDialAtATime == Spec => []OneDial
<1>1. ASSUME IInv PROVE OneDial
  <2> DEFINE D == {p \in Pool \ overtaken : reserved[p] > 0}
  <2>1. \A p, q \in D : p = q
    BY <1>1 DEF IInv, ReservedHolds
  <2>2. CASE D = {}
    BY <2>2, FS_EmptySet DEF OneDial
  <2>3. CASE D # {}
    <3>1. PICK p \in D : TRUE
      BY <2>3
    <3>2. D = {p}
      BY <2>1, <3>1
    <3>3. Cardinality(D) = 1
      BY <3>2, FS_Singleton
    <3> QED
      BY <3>3 DEF OneDial
  <2> QED
    BY <2>2, <2>3
<1> QED
  BY <1>1, Invariance, PTL

\* Whoever holds the others off a failing relay is dialling it, or has closed a dial
\* whose deadline has yet to come: no lease is left behind by a dial that opened,
\* failed or was aborted, or by the first of two dials that share a reservation.
THEOREM LeaseUsed == Spec => []LeaseIsUsed
<1>1. IInv => LeaseIsUsed
  BY DEF IInv
<1> QED
  BY <1>1, Invariance, PTL
=============================================================================
