------------------------ MODULE SignalChannelProofs ------------------------
(* What holds of the signal channel for any bound on sends, wire and buffer,   *)
(* any optional calls and any stray signals.                                  *)
EXTENDS SignalChannel, WellFoundedInduction, TLAPS

USE DEF Sequenced, Descriptions, SignalType

-----------------------------------------------------------------------------
(* Numbers *)

\* A nonempty set of numbers has a least one.
LEMMA Least == ASSUME NEW T \in SUBSET Nat, T # {} PROVE \E x \in T : \A y \in T : x <= y
<1> DEFINE R == {ss \in Nat \X Nat : ss[1] < ss[2]}
<1>1. IsWellFoundedOn(R, Nat)
  BY NatLessThanWellFounded DEF OpToRel
<1> HIDE DEF R
<1>2. PICK x \in T : \A y \in T : ~ (<<y, x>> \in R)
  BY <1>1, WFMin
<1>3. \A y \in T : ~ (y < x)
  BY <1>2 DEF R
<1> QED
  BY <1>3

\* A nonempty set of numbers up to n has a greatest one.
LEMMA Greatest ==
  ASSUME NEW n \in Nat, NEW T \in SUBSET (0..n), T # {} PROVE \E x \in T : \A y \in T : y <= x
<1> DEFINE U == {k \in Nat : n - k \in T}
<1>1. U # {}
  <2>1. PICK x \in T : TRUE
    OBVIOUS
  <2>2. n - x \in Nat /\ n - (n - x) = x
    OBVIOUS
  <2> QED
    BY <2>1, <2>2
<1>2. PICK u \in U : \A v \in U : u <= v
  BY <1>1, Least
<1>3. \A y \in T : n - y \in U
  OBVIOUS
<1>4. n - u \in T /\ \A y \in T : y <= n - u
  BY <1>2, <1>3
<1> QED
  BY <1>4

-----------------------------------------------------------------------------
(* Types.  What the queue numbers has been sent; Flush would otherwise publish    *)
(* nonsense.                                                                     *)

QueueOK == \A s \in Side : queue[s] \subseteq 1..Len(sent[s])
Typed == TypeOK /\ QueueOK
Item == [type : Sequenced, re : Nat]

\* What a channel publishes is a message.
LEMMA StampedIsMessage ==
  ASSUME TypeOK, NEW s \in Side, NEW type \in SignalType, NEW first \in Nat, NEW seq \in Nat,
         NEW carries \in SUBSET Nat, NEW re \in Nat
  PROVE  Stamped(s, type, first, seq, carries, re) \in Message
<1>1. s \in Conn
  BY ConstantsAssumption
<1>2. peerConn[s] \in Conn \cup {Unbound}
  BY DEF TypeOK
<1>3. expected[s] \in Nat \ {0}
  BY DEF TypeOK
<1>4. expected[s] - 1 \in Nat
  BY <1>3
<1> QED
  BY <1>1, <1>2, <1>4 DEF Stamped, Message

\* A queued signal, as it is republished, is a message.
LEMMA SingleIsMessage ==
  ASSUME TypeOK, NEW s \in Side, NEW k \in Nat, NEW item \in Item
  PROVE  Single(s, k, item) \in Message
<1>1. item.type \in SignalType /\ item.re \in Nat
  BY DEF Item
<1>2. {k} \in SUBSET Nat
  OBVIOUS
<1> QED
  BY <1>1, <1>2, StampedIsMessage DEF Single

\* An acknowledgement is a message.
LEMMA AckIsMessage == ASSUME TypeOK, NEW s \in Side PROVE Ack(s) \in Message
<1>1. "ack" \in SignalType /\ 0 \in Nat /\ {} \in SUBSET Nat
  OBVIOUS
<1> QED
  BY <1>1, StampedIsMessage DEF Ack

\* Whatever a flush publishes is a message.
LEMMA FlushIsMessages == ASSUME Typed, NEW s \in Side PROVE Flush(s) \subseteq Message
<1> DEFINE ices == {k \in queue[s] : sent[s][k].type = "ice"}
           lo == CHOOSE k \in ices : \A j \in ices : k <= j
           hi == CHOOSE k \in ices : \A j \in ices : j <= k
<1>1. sent[s] \in Seq(Item) /\ Len(sent[s]) \in Nat /\ queue[s] \subseteq 1..Len(sent[s])
  BY DEF Typed, TypeOK, QueueOK, Item
<1>2. \A k \in queue[s] : Single(s, k, sent[s][k]) \in Message
  <2> TAKE k \in queue[s]
  <2>1. k \in Nat /\ sent[s][k] \in Item
    BY <1>1
  <2> QED
    BY <2>1, SingleIsMessage DEF Typed
<1>3. ASSUME ices # {} PROVE Stamped(s, "ice", lo, hi, ices, 0) \in Message
  <2>1. ices \in SUBSET Nat /\ ices \in SUBSET (0..Len(sent[s]))
    BY <1>1
  <2> HIDE DEF ices
  <2>2. \E k \in ices : \A j \in ices : k <= j
    BY <1>3, <2>1, Least
  <2>3. \E k \in ices : \A j \in ices : j <= k
    BY <1>1, <1>3, <2>1, Greatest
  <2>4. lo \in Nat /\ hi \in Nat
    BY <2>1, <2>2, <2>3
  <2>5. "ice" \in SignalType /\ 0 \in Nat
    OBVIOUS
  <2> HIDE DEF lo, hi
  <2> QED
    BY <2>1, <2>4, <2>5, StampedIsMessage DEF Typed
<1> HIDE DEF lo, hi
<1> QED
  BY <1>2, <1>3 DEF Flush, ices, lo, hi

\* Publishing keeps the types of what it changes.
LEMMA PublishType ==
  ASSUME TypeOK, NEW s \in Side, NEW out \in SUBSET Message, Publish(s, out)
  PROVE  /\ wire' \subseteq Message
         /\ ackTimer' \in [Side -> BOOLEAN]
         /\ told' \in [Side -> Nat]
<1>1. wire' \subseteq Message
  BY DEF Publish, Carry, TypeOK
<1>2. expected[s] \in Nat /\ expected[s] # 0 /\ expected[s] - 1 \in Nat
  BY DEF TypeOK
<1>3. ackTimer' \in [Side -> BOOLEAN] /\ told' \in [Side -> Nat]
  BY <1>2 DEF Publish, TypeOK, ackVars
<1> QED
  BY <1>1, <1>3

\* So does acknowledging.
LEMMA QueueBecomesType ==
  ASSUME TypeOK, NEW s \in Side, NEW left, left \subseteq queue[s], QueueBecomes(s, left)
  PROVE  /\ queue' \in [Side -> SUBSET Nat]
         /\ attempt' \in [Side -> 0..MaxAttempt]
         /\ retryTimer' \in [Side -> BOOLEAN]
<1>1. left \in SUBSET Nat
  BY DEF TypeOK
<1>2. 0 \in 0..MaxAttempt
  BY ConstantsAssumption
<1>3. queue' \in [Side -> SUBSET Nat]
  BY <1>1 DEF QueueBecomes, TypeOK
<1>4. attempt' \in [Side -> 0..MaxAttempt]
  BY <1>2 DEF QueueBecomes, TypeOK
<1>5. retryTimer' \in [Side -> BOOLEAN]
  BY DEF QueueBecomes, TypeOK
<1> QED
  BY <1>3, <1>4, <1>5

\* The types of what a step of receive() changes in every branch.
LEMMA AcceptType ==
  ASSUME TypeOK, NEW s \in Side, NEW m \in Message, Accept(s, m)
  PROVE  peerConn' \in [Side -> Conn \cup {Unbound}]
BY DEF TypeOK, Accept, Message

\* So does releasing a signal, whatever it answers.
LEMMA ReleaseType ==
  ASSUME TypeOK, NEW s \in Side, NEW m \in Message, NEW left, left \subseteq queue[s],
         Release(s, m, left)
  PROVE  /\ queue' \in [Side -> SUBSET Nat]
         /\ attempt' \in [Side -> 0..MaxAttempt]
         /\ retryTimer' \in [Side -> BOOLEAN]
         /\ outstanding' \in [Side -> Nat]
         /\ expected' \in [Side -> Nat \ {0}]
         /\ got' \in [Side -> SUBSET Nat]
         /\ applied' \in [Side -> Seq(Nat)]
<1>1. m.seq \in Nat /\ m.seq + 1 \in Nat \ {0} /\ m.carries \in SUBSET Nat
  BY DEF Message
<1> DEFINE apt == m.type = "answer" /\ m.re = outstanding[s]
           rest == IF apt THEN {k \in left : k > m.re} ELSE left
<1>2. rest \subseteq queue[s] /\ QueueBecomes(s, rest)
  BY DEF Release
<1>3. /\ queue' \in [Side -> SUBSET Nat]
      /\ attempt' \in [Side -> 0..MaxAttempt]
      /\ retryTimer' \in [Side -> BOOLEAN]
  BY <1>2, QueueBecomesType
<1>4. outstanding' \in [Side -> Nat]
  BY DEF Release, TypeOK
<1>5. expected' \in [Side -> Nat \ {0}] /\ got' \in [Side -> SUBSET Nat]
  BY <1>1 DEF Release, TypeOK
<1>6. applied' \in [Side -> Seq(Nat)]
  <2>1. applied[s] \in Seq(Nat) /\ Append(applied[s], m.seq) \in Seq(Nat)
    BY <1>1 DEF TypeOK
  <2> QED
    BY <2>1 DEF Release, TypeOK
<1> QED
  BY <1>3, <1>4, <1>5, <1>6

\* One entry less, the others in their order.
LEMMA WithoutOne ==
  ASSUME NEW S, NEW b \in Seq(S), NEW i \in DOMAIN b
  PROVE  /\ Without(b, i) \in Seq(S)
         /\ \A j \in DOMAIN Without(b, i) : \E k \in DOMAIN b : Without(b, i)[j] = b[k]
<1>1. Len(b) \in Nat /\ DOMAIN b = 1..Len(b) /\ Len(b) - 1 \in Nat
  OBVIOUS
<1>2. \A j \in 1..(Len(b) - 1) : (IF j < i THEN b[j] ELSE b[j + 1]) \in S
  BY <1>1
<1>3. Without(b, i) \in [1..(Len(b) - 1) -> S]
  BY <1>2 DEF Without
<1>4. \A j \in 1..(Len(b) - 1) : \E k \in DOMAIN b : Without(b, i)[j] = b[k]
  <2> TAKE j \in 1..(Len(b) - 1)
  <2>1. j \in DOMAIN b /\ j + 1 \in DOMAIN b
    BY <1>1
  <2>2. Without(b, i)[j] = IF j < i THEN b[j] ELSE b[j + 1]
    BY DEF Without
  <2> QED
    BY <2>1, <2>2
<1> QED
  BY <1>1, <1>3, <1>4

\* An item s may send is an item.
LEMMA ItemsAreItems == ASSUME Typed, NEW s \in Side PROVE Items(s) \subseteq Item
<1>1. Other(s) \in Side
  BY ConstantsAssumption
<1>2. Len(sent[Other(s)]) \in Nat
  BY <1>1 DEF Typed, TypeOK
<1>3. Answerable(s) \subseteq Nat
  BY <1>2 DEF Answerable
<1>4. 0 \in Nat
  OBVIOUS
<1> QED
  BY <1>3, <1>4 DEF Items, Item

\* The initial state is typed.
LEMMA InitTyped == Init => Typed
<1> SUFFICES ASSUME Init PROVE Typed
  OBVIOUS
<1> USE ConstantsAssumption DEF Init
<1>1. /\ sent \in [Side -> Seq(Item)] /\ queue \in [Side -> SUBSET Nat]
      /\ attempt \in [Side -> 0..MaxAttempt] /\ retryTimer \in [Side -> BOOLEAN]
      /\ outstanding \in [Side -> Nat] /\ peerConn \in [Side -> Conn \cup {Unbound}]
  OBVIOUS
<1>2. /\ expected \in [Side -> Nat \ {0}] /\ buffer \in [Side -> Seq(Message)]
      /\ ackTimer \in [Side -> BOOLEAN] /\ syncReady \in [Side -> BOOLEAN]
      /\ closed \in [Side -> BOOLEAN] /\ wire \subseteq Message
      /\ releasing \in Side \cup {Nobody}
  OBVIOUS
<1>3. /\ got \in [Side -> SUBSET Nat] /\ applied \in [Side -> Seq(Nat)]
      /\ told \in [Side -> Nat] /\ dropped \in [Side -> SUBSET Nat]
  OBVIOUS
<1>4. QueueOK
  BY DEF QueueOK
<1> QED
  BY <1>1, <1>2, <1>3, <1>4 DEF Typed, TypeOK, Item

\* send() keeps the types, and numbers what it queues.
LEMMA SendTyped == ASSUME Typed, NEW s \in Side, NEW item \in Item, Send(s, item) PROVE Typed'
<1> DEFINE k == Len(sent[s]) + 1
<1>1. sent[s] \in Seq(Item) /\ Len(sent[s]) \in Nat /\ k \in Nat
  BY DEF Typed, TypeOK, Item
<1>2. Append(sent[s], item) \in Seq(Item) /\ Len(Append(sent[s], item)) = k
  BY <1>1
<1>3. sent' = [sent EXCEPT ![s] = Append(sent[s], item)] /\ sent' \in [Side -> Seq(Item)]
  BY <1>2 DEF Send, Typed, TypeOK, Item
<1>4. queue' = [queue EXCEPT ![s] = queue[s] \cup {k}] /\ queue' \in [Side -> SUBSET Nat]
  BY <1>1 DEF Send, Typed, TypeOK
<1>5. outstanding' \in [Side -> Nat] /\ retryTimer' \in [Side -> BOOLEAN]
  BY <1>1 DEF Send, Typed, TypeOK
<1>6. wire' \subseteq Message /\ ackTimer' \in [Side -> BOOLEAN] /\ told' \in [Side -> Nat]
  <2>1. {Single(s, k, item)} \in SUBSET Message
    BY <1>1, SingleIsMessage DEF Typed
  <2> QED
    BY <2>1, PublishType DEF Send, Typed
<1>7. QueueOK'
  <2>1. 1..Len(sent'[s]) = 1..k /\ queue'[s] \subseteq 1..k
    BY <1>1, <1>2, <1>3, <1>4 DEF Typed, TypeOK, QueueOK
  <2>2. \A t \in Side : t # s => queue'[t] = queue[t] /\ sent'[t] = sent[t]
    BY <1>3, <1>4 DEF Typed, TypeOK
  <2> QED
    BY <2>1, <2>2 DEF Typed, QueueOK
<1> QED
  BY <1>3, <1>4, <1>5, <1>6, <1>7 DEF Send, Typed, TypeOK, Item, receiverVars

\* A queue that only shrinks still numbers what was sent.
LEMMA ShrunkQueue ==
  ASSUME Typed, queue' \in [Side -> SUBSET Nat], sent' = sent,
         \A s \in Side : queue'[s] \subseteq queue[s]
  PROVE  QueueOK'
BY DEF Typed, QueueOK

\* Acknowledging only shrinks the queues.
LEMMA QueueBecomesShrinks ==
  ASSUME TypeOK, NEW s \in Side, NEW left, left \subseteq queue[s], QueueBecomes(s, left)
  PROVE  \A t \in Side : queue'[t] \subseteq queue[t]
BY DEF QueueBecomes, TypeOK

\* The owner's other calls and the timers.
LEMMA OwnerTyped ==
  ASSUME Typed, NEW s \in Side,
         \/ SendUnreliable(s) \/ Drop(s) \/ RetryFire(s) \/ AckFire(s)
         \/ RetransmitNow(s) \/ Reconnected(s) \/ Close(s) \/ SyncWindowOver(s)
  PROVE  Typed'
<1> USE DEF senderVars, receiverVars, ackVars
<1>0. TypeOK /\ QueueOK
  BY DEF Typed
<1>1. ASSUME NEW out \in SUBSET Message, Republish(s, out) PROVE Typed'
  <2>1. wire' \subseteq Message /\ ackTimer' \in [Side -> BOOLEAN] /\ told' \in [Side -> Nat]
    BY <1>0, <1>1, PublishType DEF Republish
  <2> QED
    BY <1>0, <1>1, <2>1 DEF Republish, Typed, TypeOK, QueueOK
<1>2. CASE SendUnreliable(s)
  <2>1. {Stamped(s, "health", 0, 0, {}, 0)} \in SUBSET Message
    BY <1>0, StampedIsMessage
  <2>2. wire' \subseteq Message /\ ackTimer' \in [Side -> BOOLEAN] /\ told' \in [Side -> Nat]
    BY <1>0, <1>2, <2>1, PublishType DEF SendUnreliable
  <2> QED
    BY <1>0, <1>2, <2>2 DEF SendUnreliable, Typed, TypeOK, QueueOK
<1>3. CASE Drop(s)
  <2> DEFINE left == queue[s] \ {outstanding[s]}
  <2>1. left \subseteq queue[s] /\ QueueBecomes(s, left)
    BY <1>3 DEF Drop
  <2> HIDE DEF left
  <2>2. /\ queue' \in [Side -> SUBSET Nat] /\ attempt' \in [Side -> 0..MaxAttempt]
        /\ retryTimer' \in [Side -> BOOLEAN] /\ \A t \in Side : queue'[t] \subseteq queue[t]
    BY <1>0, <2>1, QueueBecomesType, QueueBecomesShrinks
  <2>3. outstanding' \in [Side -> Nat] /\ dropped' \in [Side -> SUBSET Nat]
    <3>1. outstanding[s] \in Nat /\ dropped[s] \cup {outstanding[s]} \in SUBSET Nat
      BY <1>0 DEF TypeOK
    <3>2. /\ outstanding' = [outstanding EXCEPT ![s] = 0]
          /\ dropped' = [dropped EXCEPT ![s] = dropped[s] \cup {outstanding[s]}]
      BY <1>3 DEF Drop
    <3> QED
      BY <1>0, <3>1, <3>2 DEF TypeOK
  <2>4. QueueOK'
    BY <1>3, <2>2, ShrunkQueue DEF Drop
  <2> QED
    BY <1>0, <1>3, <2>2, <2>3, <2>4 DEF Drop, Typed, TypeOK
<1>4. CASE RetryFire(s)
  <2>1. wire' \subseteq Message /\ ackTimer' \in [Side -> BOOLEAN] /\ told' \in [Side -> Nat]
    BY <1>0, <1>4, FlushIsMessages, PublishType DEF RetryFire, Typed
  <2>2. attempt' \in [Side -> 0..MaxAttempt] /\ retryTimer' \in [Side -> BOOLEAN]
    <3>1. attempt \in [Side -> 0..MaxAttempt] /\ retryTimer \in [Side -> BOOLEAN]
      BY <1>0 DEF TypeOK
    <3>2. attempt[s] \in 0..MaxAttempt /\ MaxAttempt \in Nat
      BY <3>1, ConstantsAssumption
    <3>3. (IF attempt[s] < MaxAttempt THEN attempt[s] + 1 ELSE attempt[s]) \in 0..MaxAttempt
      BY <3>2
    <3> QED
      BY <1>4, <3>1, <3>3 DEF RetryFire
  <2> QED
    BY <1>0, <1>4, <2>1, <2>2 DEF RetryFire, Typed, TypeOK, QueueOK
<1>5. CASE AckFire(s)
  <2>1. wire' \subseteq Message
    BY <1>0, <1>5, AckIsMessage DEF AckFire, Carry, TypeOK
  <2>2. expected[s] - 1 \in Nat
    BY <1>0 DEF TypeOK
  <2> QED
    BY <1>0, <1>5, <2>1, <2>2 DEF AckFire, Typed, TypeOK, QueueOK
<1>6. CASE RetransmitNow(s)
  BY <1>1, <1>6, FlushIsMessages DEF RetransmitNow
<1>7. CASE Reconnected(s)
  <2>1. (Flush(s) \cup (IF expected[s] > 1 THEN {Ack(s)} ELSE {})) \in SUBSET Message
    BY <1>0, FlushIsMessages, AckIsMessage
  <2> QED
    BY <1>1, <1>7, <2>1 DEF Reconnected
<1>8. CASE Close(s)
  <2>1. <<>> \in Seq(Message) /\ {} \in SUBSET Nat /\ 0 \in Nat
    OBVIOUS
  <2>2. buffer' \in [Side -> Seq(Message)] /\ queue' \in [Side -> SUBSET Nat]
    BY <1>0, <1>8, <2>1 DEF Close, TypeOK
  <2>3. /\ outstanding' \in [Side -> Nat] /\ closed' \in [Side -> BOOLEAN]
        /\ retryTimer' \in [Side -> BOOLEAN] /\ ackTimer' \in [Side -> BOOLEAN]
    BY <1>0, <1>8 DEF Close, TypeOK
  <2>4. QueueOK'
    BY <1>0, <1>8 DEF Close, TypeOK, QueueOK
  <2> QED
    BY <1>0, <1>8, <2>2, <2>3, <2>4 DEF Close, Typed, TypeOK
<1>9. CASE SyncWindowOver(s)
  BY <1>0, <1>9 DEF SyncWindowOver, Typed, TypeOK, QueueOK
<1> QED
  BY <1>2, <1>3, <1>4, <1>5, <1>6, <1>7, <1>8, <1>9

\* The steps of receive().
LEMMA ReceiveTyped ==
  ASSUME Typed, NEW s \in Side, NEW m \in Arriving(s),
         \/ ReceiveOlder(s, m) \/ ReceiveUnsequenced(s, m) \/ ReceiveDuplicate(s, m)
         \/ ReceiveEarly(s, m) \/ ReceiveNext(s, m)
  PROVE  Typed'
<1> USE DEF senderVars, receiverVars, ackVars
<1>0. TypeOK /\ QueueOK
  BY DEF Typed
<1>m. m \in Message
  BY <1>0, ConstantsAssumption DEF Arriving, TypeOK
<1>a. Accept(s, m) => peerConn' \in [Side -> Conn \cup {Unbound}]
  BY <1>0, <1>m, AcceptType
<1>q. QueueBecomes(s, Unacked(s, m.ack)) =>
        /\ queue' \in [Side -> SUBSET Nat] /\ attempt' \in [Side -> 0..MaxAttempt]
        /\ retryTimer' \in [Side -> BOOLEAN] /\ \A t \in Side : queue'[t] \subseteq queue[t]
  <2>1. Unacked(s, m.ack) \subseteq queue[s]
    BY DEF Unacked
  <2> QED
    BY <1>0, <2>1, QueueBecomesType, QueueBecomesShrinks
<1>1. CASE ReceiveOlder(s, m)
  <2>1. s \in Conn
    BY ConstantsAssumption
  <2>2. [gen |-> "current", conn |-> s, to |-> Unbound, type |-> "sync", seq |-> 0,
         first |-> 0, carries |-> {}, ack |-> 0, re |-> 0] \in Message
    BY <2>1 DEF Message
  <2>3. wire' \subseteq Message
    BY <1>0, <1>1, <2>2 DEF ReceiveOlder, Carry, TypeOK
  <2> QED
    BY <1>0, <1>1, <2>3 DEF ReceiveOlder, Typed, TypeOK, QueueOK
<1>2. CASE ReceiveUnsequenced(s, m)
  <2>1. QueueOK'
    BY <1>2, <1>q, ShrunkQueue DEF ReceiveUnsequenced, Accept
  <2> QED
    BY <1>0, <1>2, <1>a, <1>q, <2>1 DEF ReceiveUnsequenced, Accept, Typed, TypeOK
<1>3. CASE ReceiveDuplicate(s, m)
  <2>1. QueueOK'
    BY <1>3, <1>q, ShrunkQueue DEF ReceiveDuplicate, Accept
  <2>2. wire' \subseteq Message /\ ackTimer' \in [Side -> BOOLEAN] /\ told' \in [Side -> Nat]
    <3>1. (IF expected[s] > 1 THEN {Ack(s)} ELSE {}) \in SUBSET Message
      BY <1>0, AckIsMessage
    <3> QED
      BY <1>0, <1>3, <3>1, PublishType DEF ReceiveDuplicate
  <2> QED
    BY <1>0, <1>3, <1>a, <1>q, <2>1, <2>2 DEF ReceiveDuplicate, Accept, Typed, TypeOK
<1>4. CASE ReceiveEarly(s, m)
  <2>1. QueueOK'
    BY <1>4, <1>q, ShrunkQueue DEF ReceiveEarly, Accept
  <2>2. buffer' \in [Side -> Seq(Message)]
    <3> DEFINE kept == Append(buffer[s], m)
               next == IF Len(kept) > BufferLimit THEN Tail(kept) ELSE kept
    <3>1. buffer[s] \in Seq(Message)
      BY <1>0 DEF TypeOK
    <3>2. kept \in Seq(Message) /\ kept # <<>>
      BY <1>m, <3>1
    <3>3. Tail(kept) \in Seq(Message)
      BY <3>2
    <3>4. next \in Seq(Message)
      BY <3>2, <3>3
    <3>5. buffer' = [buffer EXCEPT ![s] = next]
      BY <1>4 DEF ReceiveEarly
    <3> QED
      BY <1>0, <3>4, <3>5 DEF TypeOK
  <2> QED
    BY <1>0, <1>4, <1>a, <1>q, <2>1, <2>2 DEF ReceiveEarly, Accept, Typed, TypeOK
<1>5. CASE ReceiveNext(s, m)
  <2>1. Unacked(s, m.ack) \subseteq queue[s] /\ Release(s, m, Unacked(s, m.ack))
    BY <1>5 DEF Unacked, ReceiveNext
  <2>2. /\ queue' \in [Side -> SUBSET Nat] /\ attempt' \in [Side -> 0..MaxAttempt]
        /\ retryTimer' \in [Side -> BOOLEAN] /\ outstanding' \in [Side -> Nat]
        /\ expected' \in [Side -> Nat \ {0}] /\ got' \in [Side -> SUBSET Nat]
        /\ applied' \in [Side -> Seq(Nat)]
    BY <1>0, <1>m, <2>1, ReleaseType
  <2>3. \A t \in Side : queue'[t] \subseteq queue[t]
    BY <1>0, <2>1, QueueBecomesShrinks DEF Release
  <2>4. QueueOK'
    BY <1>5, <2>2, <2>3, ShrunkQueue DEF ReceiveNext, Accept
  <2> QED
    BY <1>0, <1>5, <1>a, <2>2, <2>4 DEF ReceiveNext, Accept, Typed, TypeOK
<1> QED
  BY <1>1, <1>2, <1>3, <1>4, <1>5

\* The release loop.
LEMMA LoopTyped == ASSUME Typed, NEW s \in Side, Loop(s) PROVE Typed'
<1> USE DEF senderVars, receiverVars, ackVars
<1>0. TypeOK /\ QueueOK
  BY DEF Typed
<1>b. buffer[s] \in Seq(Message)
  BY <1>0 DEF TypeOK
<1>w. \A i \in DOMAIN buffer[s] : Without(buffer[s], i) \in Seq(Message) /\ buffer[s][i] \in Message
  BY <1>b, WithoutOne
<1>1. CASE DiscardCovered(s)
  <2>1. PICK i \in DOMAIN buffer[s] : buffer' = [buffer EXCEPT ![s] = Without(buffer[s], i)]
    BY <1>1 DEF DiscardCovered, Covered
  <2>2. buffer' \in [Side -> Seq(Message)]
    BY <1>0, <1>w, <2>1 DEF TypeOK
  <2> QED
    BY <1>0, <1>1, <2>2 DEF DiscardCovered, Typed, TypeOK, QueueOK
<1>2. CASE ReleaseHeld(s)
  <2>1. PICK i \in DOMAIN buffer[s] :
          buffer' = [buffer EXCEPT ![s] = Without(buffer[s], i)] /\ Release(s, buffer[s][i], queue[s])
    BY <1>2 DEF ReleaseHeld, Ready
  <2>2. buffer' \in [Side -> Seq(Message)]
    BY <1>0, <1>w, <2>1 DEF TypeOK
  <2>3. /\ queue' \in [Side -> SUBSET Nat] /\ attempt' \in [Side -> 0..MaxAttempt]
        /\ retryTimer' \in [Side -> BOOLEAN] /\ outstanding' \in [Side -> Nat]
        /\ expected' \in [Side -> Nat \ {0}] /\ got' \in [Side -> SUBSET Nat]
        /\ applied' \in [Side -> Seq(Nat)]
    BY <1>0, <1>w, <2>1, ReleaseType
  <2>4. \A t \in Side : queue'[t] \subseteq queue[t]
    BY <1>0, <2>1, QueueBecomesShrinks DEF Release
  <2>5. QueueOK'
    BY <1>2, <2>3, <2>4, ShrunkQueue DEF ReleaseHeld
  <2> QED
    BY <1>0, <1>2, <2>2, <2>3, <2>5 DEF ReleaseHeld, Typed, TypeOK
<1>3. CASE StopReleasing(s)
  BY <1>0, <1>3 DEF StopReleasing, Typed, TypeOK, QueueOK
<1> QED
  BY <1>1, <1>2, <1>3 DEF Loop

\* Every step keeps the types.
LEMMA StepTyped == Typed /\ [Next]_vars => Typed'
<1> SUFFICES ASSUME Typed, [Next]_vars PROVE Typed'
  OBVIOUS
<1>1. CASE UNCHANGED vars
  BY <1>1 DEF vars, senderVars, receiverVars, ackVars, Typed, TypeOK, QueueOK
<1>2. CASE Next
  <2>1. PICK s \in Side :
          \/ \E item \in Items(s) : Send(s, item)
          \/ SendUnreliable(s) \/ Drop(s) \/ RetryFire(s) \/ AckFire(s) \/ RetransmitNow(s)
          \/ Reconnected(s) \/ Close(s) \/ SyncWindowOver(s)
          \/ Receive(s) \/ Loop(s)
    BY <1>2 DEF Next
  <2>2. CASE \E item \in Items(s) : Send(s, item)
    BY <2>2, ItemsAreItems, SendTyped
  <2>3. CASE Receive(s)
    BY <2>3, ReceiveTyped DEF Receive
  <2> QED
    BY <2>1, <2>2, <2>3, OwnerTyped, LoopTyped
<1> QED
  BY <1>1, <1>2

-----------------------------------------------------------------------------
(* What goes over the line.                                                     *)

\* What a message says is so: its sender passed what it acknowledges, was handed the
\* offer it answers, and gave to send() what the message carries.
Says(m) ==
  LET s == m.conn IN
  /\ s \in Side /\ m.ack < expected[s] /\ m.re < expected[s]
  /\ m.type \in Sequenced => m.first \in 1..m.seq /\ m.seq \in 1..Len(sent[s])
  /\ m.type \in Descriptions => sent[s][m.seq].type = m.type /\ sent[s][m.seq].re = m.re
  /\ ~Interleave /\ m.type \in Sequenced => m.first..m.seq \subseteq m.carries

PeerBound == \A s \in Side : peerConn[s] \in {Unbound, Other(s)}
WireSays == \A m \in wire : Says(m)
Held(s) == {buffer[s][i] : i \in DOMAIN buffer[s]}
HeldSays ==
  \A s \in Side : \A m \in Held(s) : m.conn = Other(s) /\ m.type \in Sequenced /\ Says(m)

\* A side answers what it was handed, and is handed what it has passed, in order;
\* nothing is passed that was not sent.
SentAnswers ==
  \A s \in Side : \A k \in DOMAIN sent[s] :
    sent[s][k].re < expected[s] /\ (sent[s][k].type = "offer" => sent[s][k].re = 0)
AppliedPassed == \A s \in Side : \A i \in DOMAIN applied[s] : applied[s][i] \in 1..(expected[s] - 1)
ExpectedSent == \A s \in Side : expected[s] <= Len(sent[Other(s)]) + 1

\* The queue is the end of what was sent, without the offers that were dropped;
\* what follows a candidate are candidates, if the owner sees to that.
QueueFollows ==
  \A s \in Side : \A i \in queue[s] : \A j \in 1..Len(sent[s]) :
    i < j => /\ j \in queue[s] \cup dropped[s]
             /\ ~Interleave /\ sent[s][i].type = "ice" => sent[s][j].type = "ice"
DroppedOffers ==
  \A s \in Side : \A k \in dropped[s] : k \in 1..Len(sent[s]) /\ sent[s][k].type = "offer"

\* The outstanding offer is the last one, neither dropped nor answered.
Outstanding ==
  \A s \in Side : outstanding[s] # 0 =>
    /\ outstanding[s] \in 1..Len(sent[s]) /\ outstanding[s] \notin dropped[s]
    /\ sent[s][outstanding[s]].type = "offer"
    /\ \A k \in (outstanding[s] + 1)..Len(sent[s]) : sent[s][k].type # "offer"
    /\ \A i \in DOMAIN applied[s] : sent[Other(s)][applied[s][i]].re # outstanding[s]

Line ==
  /\ PeerBound /\ WireSays /\ HeldSays
  /\ SentAnswers /\ AppliedPassed /\ ExpectedSent
  /\ QueueFollows /\ DroppedOffers /\ Outstanding
  /\ AckSound /\ AppliedInOrder /\ (~Interleave => PassedWasReceived)

\* What was sent stays, and what was passed stays passed.
Forward ==
  \A s \in Side :
    /\ expected[s] <= expected'[s] /\ Len(sent[s]) <= Len(sent'[s])
    /\ \A k \in 1..Len(sent[s]) : sent'[s][k] = sent[s][k]

\* So what was said stays so.
LEMMA StaysSo ==
  ASSUME Typed, Typed', Forward, NEW m \in Message, Says(m)
  PROVE  Says(m)'
<1> DEFINE s == m.conn
<1>1. s \in Side /\ m.ack \in Nat /\ m.re \in Nat /\ m.seq \in Nat
  BY DEF Says, Message
<1>2. /\ expected[s] \in Nat /\ expected'[s] \in Nat /\ expected[s] <= expected'[s]
      /\ Len(sent[s]) \in Nat /\ Len(sent'[s]) \in Nat /\ Len(sent[s]) <= Len(sent'[s])
  <2>1. expected[s] \in Nat /\ expected'[s] \in Nat
    BY <1>1 DEF Typed, TypeOK
  <2>2. sent[s] \in Seq(Item) /\ sent'[s] \in Seq(Item)
    BY <1>1 DEF Typed, TypeOK, Item
  <2>3. Len(sent[s]) \in Nat /\ Len(sent'[s]) \in Nat
    BY <2>2
  <2> QED
    BY <1>1, <2>1, <2>3 DEF Forward
<1>3. m.ack < expected'[s] /\ m.re < expected'[s]
  BY <1>1, <1>2 DEF Says
<1>4. m.type \in Sequenced => m.first \in 1..m.seq /\ m.seq \in 1..Len(sent'[s])
  BY <1>1, <1>2 DEF Says
<1>5. m.type \in Descriptions => sent'[s][m.seq].type = m.type /\ sent'[s][m.seq].re = m.re
  <2> SUFFICES ASSUME m.type \in Descriptions
               PROVE  sent'[s][m.seq].type = m.type /\ sent'[s][m.seq].re = m.re
    OBVIOUS
  <2>1. m.seq \in 1..Len(sent[s])
    BY DEF Says
  <2>2. sent'[s][m.seq] = sent[s][m.seq]
    BY <1>1, <2>1 DEF Forward
  <2> QED
    BY <2>2 DEF Says
<1>6. ~Interleave /\ m.type \in Sequenced => m.first..m.seq \subseteq m.carries
  BY DEF Says
<1> QED
  BY <1>1, <1>3, <1>4, <1>5, <1>6 DEF Says

\* A stamped message acknowledges what its sender has passed.
LEMMA StampedSays ==
  ASSUME Typed, NEW s \in Side, NEW type \in SignalType, NEW first \in Nat, NEW seq \in Nat,
         NEW carries \in SUBSET Nat, NEW re \in Nat, re < expected[s],
         type \in Sequenced => /\ first \in 1..seq /\ seq \in 1..Len(sent[s])
                               /\ ~Interleave => first..seq \subseteq carries,
         type \in Descriptions => sent[s][seq].type = type /\ sent[s][seq].re = re
  PROVE  Says(Stamped(s, type, first, seq, carries, re))
<1>1. expected[s] \in Nat \ {0}
  BY DEF Typed, TypeOK
<1>2. expected[s] - 1 < expected[s]
  BY <1>1
<1> QED
  BY <1>2 DEF Stamped, Says

LEMMA AckSays == ASSUME Typed, NEW s \in Side PROVE Says(Ack(s))
<1>1. "ack" \in SignalType /\ "ack" \notin Sequenced /\ 0 \in Nat /\ {} \in SUBSET Nat
  OBVIOUS
<1>2. 0 < expected[s]
  BY DEF Typed, TypeOK
<1> QED
  BY <1>1, <1>2, StampedSays DEF Ack

LEMMA HealthSays ==
  ASSUME Typed, NEW s \in Side PROVE Says(Stamped(s, "health", 0, 0, {}, 0))
<1>1. "health" \in SignalType /\ "health" \notin Sequenced /\ 0 \in Nat /\ {} \in SUBSET Nat
  OBVIOUS
<1>2. 0 < expected[s]
  BY DEF Typed, TypeOK
<1> QED
  BY <1>1, <1>2, StampedSays

\* A queued signal is republished as it was sent.
LEMMA SingleSays ==
  ASSUME Typed, SentAnswers, NEW s \in Side, NEW k \in queue[s]
  PROVE  Says(Single(s, k, sent[s][k]))
<1>1. k \in 1..Len(sent[s]) /\ Len(sent[s]) \in Nat /\ sent[s] \in Seq(Item)
  BY DEF Typed, TypeOK, QueueOK, Item
<1>2. sent[s][k] \in Item /\ k \in DOMAIN sent[s]
  BY <1>1
<1>3. sent[s][k].type \in SignalType /\ sent[s][k].re \in Nat /\ sent[s][k].re < expected[s]
  BY <1>2 DEF Item, SentAnswers
<1>4. k \in Nat /\ k \in 1..k /\ {k} \in SUBSET Nat /\ k..k \subseteq {k}
  BY <1>1
<1> QED
  BY <1>1, <1>3, <1>4, StampedSays DEF Single

\* The batch of a flush carries the whole range it covers, if no description
\* was sent behind an unacked candidate.
LEMMA FlushSays ==
  ASSUME Typed, SentAnswers, QueueFollows, DroppedOffers, NEW s \in Side, NEW m \in Flush(s)
  PROVE  Says(m)
<1> DEFINE ices == {k \in queue[s] : sent[s][k].type = "ice"}
           lo == CHOOSE k \in ices : \A j \in ices : k <= j
           hi == CHOOSE k \in ices : \A j \in ices : j <= k
<1>1. queue[s] \subseteq 1..Len(sent[s]) /\ Len(sent[s]) \in Nat
  BY DEF Typed, TypeOK, QueueOK
<1>2. ASSUME ices # {} PROVE Says(Stamped(s, "ice", lo, hi, ices, 0))
  <2>1. ices \in SUBSET Nat /\ ices \in SUBSET (0..Len(sent[s]))
    BY <1>1
  <2>2. \E k \in ices : \A j \in ices : k <= j
    <3> HIDE DEF ices
    <3> QED
      BY <1>2, <2>1, Least
  <2>3. \E k \in ices : \A j \in ices : j <= k
    <3> HIDE DEF ices
    <3> QED
      BY <1>1, <1>2, <2>1, Greatest
  <2>4. lo \in ices /\ hi \in ices /\ \A j \in ices : lo <= j /\ j <= hi
    <3> HIDE DEF ices
    <3> QED
      BY <2>2, <2>3
  <2> HIDE DEF lo, hi
  <2>5. ~Interleave => lo..hi \subseteq ices
    <3> SUFFICES ASSUME ~Interleave, NEW j \in lo..hi PROVE j \in ices
      OBVIOUS
    <3>1. lo \in queue[s] /\ sent[s][lo].type = "ice" /\ hi \in 1..Len(sent[s])
      BY <1>1, <2>4
    <3>2. CASE j = lo
      BY <2>4, <3>2
    <3>3. CASE j # lo
      <4>1. j \in 1..Len(sent[s]) /\ lo < j
        BY <1>1, <3>1, <3>3
      <4>2. j \in queue[s] \cup dropped[s] /\ sent[s][j].type = "ice"
        BY <3>1, <4>1 DEF QueueFollows
      <4>3. j \notin dropped[s]
        BY <4>2 DEF DroppedOffers
      <4> QED
        BY <4>2, <4>3
    <3> QED
      BY <3>2, <3>3
  <2>6. lo \in Nat /\ hi \in Nat /\ lo \in 1..hi /\ hi \in 1..Len(sent[s])
    BY <1>1, <2>4
  <2>7. "ice" \in SignalType /\ "ice" \notin Descriptions /\ 0 \in Nat /\ 0 < expected[s]
    BY DEF Typed, TypeOK
  <2> HIDE DEF ices
  <2> QED
    BY <2>1, <2>5, <2>6, <2>7, StampedSays
<1>3. \A k \in queue[s] : Says(Single(s, k, sent[s][k]))
  BY SingleSays
<1> HIDE DEF lo, hi
<1> QED
  BY <1>2, <1>3 DEF Flush, ices, lo, hi

\* Everything on the wire was said by its sender, now or before.
LEMMA CarriedSays ==
  ASSUME Typed, Typed', WireSays, Forward, NEW out \in SUBSET Message,
         \A m \in out : Says(m), wire' \subseteq wire \cup out
  PROVE  WireSays'
<1> SUFFICES ASSUME NEW m \in wire' PROVE Says(m)'
  BY DEF WireSays
<1>1. m \in Message
  BY DEF Typed, TypeOK
<1>2. Says(m)
  BY DEF WireSays
<1> QED
  BY <1>1, <1>2, StaysSo

\* Everything held was said by the far end.
LEMMA HeldIsMessage == ASSUME TypeOK, NEW s \in Side PROVE Held(s) \subseteq Message
<1>1. buffer[s] \in Seq(Message)
  BY DEF TypeOK
<1> QED
  BY <1>1 DEF Held

LEMMA KeptSays ==
  ASSUME Typed, Typed', HeldSays, Forward,
         \A s \in Side : \A x \in Held(s)' :
           x \in Held(s) \/ (x.conn = Other(s) /\ x.type \in Sequenced /\ Says(x))
  PROVE  HeldSays'
<1> SUFFICES ASSUME NEW s \in Side, NEW m \in Held(s)'
             PROVE  m.conn = Other(s) /\ m.type \in Sequenced /\ Says(m)'
  BY DEF HeldSays
<1>1. Held(s)' \subseteq Message
  <2>1. buffer'[s] \in Seq(Message)
    BY DEF Typed, TypeOK
  <2> QED
    BY <2>1 DEF Held
<1>2. m.conn = Other(s) /\ m.type \in Sequenced /\ Says(m)
  BY DEF HeldSays
<1> QED
  BY <1>1, <1>2, StaysSo

\* An acknowledgement of what the far end has passed forgets nothing it waits for.
LEMMA AckedLine ==
  ASSUME Typed, Typed', Line, Forward, NEW s \in Side, NEW n \in Nat, n < expected[Other(s)],
         UNCHANGED <<sent, dropped, closed>>,
         queue' = [queue EXCEPT ![s] = {k \in queue[s] : k > n}]
  PROVE  QueueFollows' /\ DroppedOffers' /\ AckSound'
<1>1. DroppedOffers'
  BY DEF Line, DroppedOffers
<1>2. \A t \in Side : Other(t) \in Side /\ expected[t] \in Nat /\ expected'[t] \in Nat
  BY ConstantsAssumption DEF Typed, TypeOK
<1>3. \A t \in Side : queue[t] \subseteq Nat /\ Len(sent[t]) \in Nat
  <2> TAKE t \in Side
  <2>1. sent[t] \in Seq(Item) /\ queue[t] \subseteq Nat
    BY DEF Typed, TypeOK, Item
  <2> QED
    BY <2>1
<1>4. \A t \in Side : /\ t # s => queue'[t] = queue[t]
                      /\ t = s => queue'[t] = {k \in queue[t] : k > n}
  BY DEF Typed, TypeOK
<1>5. QueueFollows'
  <2> SUFFICES ASSUME NEW t \in Side, NEW i \in queue'[t], NEW j \in 1..Len(sent[t]), i < j
               PROVE  /\ j \in queue'[t] \cup dropped[t]
                      /\ ~Interleave /\ sent[t][i].type = "ice" => sent[t][j].type = "ice"
    BY DEF QueueFollows
  <2>1. i \in queue[t] /\ i \in Nat /\ j \in Nat
    BY <1>3, <1>4
  <2>2. /\ j \in queue[t] \cup dropped[t]
        /\ ~Interleave /\ sent[t][i].type = "ice" => sent[t][j].type = "ice"
    BY <2>1 DEF Line, QueueFollows
  <2> QED
    BY <1>4, <2>1, <2>2
<1>6. AckSound'
  <2> SUFFICES ASSUME NEW t \in Side, ~closed[t], NEW k \in 1..Len(sent[t])
               PROVE  k < expected'[Other(t)] \/ k \in queue'[t] \cup dropped[t]
    BY DEF AckSound
  <2>1. k < expected[Other(t)] \/ k \in queue[t] \cup dropped[t]
    BY DEF Line, AckSound
  <2>2. expected[Other(t)] <= expected'[Other(t)]
    BY <1>2 DEF Forward
  <2>3. k \in Nat
    BY <1>3
  <2>4. k \in queue[t] => k \in queue'[t] \/ k < expected[Other(t)]
    BY <1>2, <1>4, <2>3
  <2> QED
    BY <1>2, <2>1, <2>2, <2>3, <2>4
<1> QED
  BY <1>1, <1>5, <1>6

\* A step that moves nothing but messages, timers and what is held.
LEMMA QuietLine ==
  ASSUME Typed, Typed', Line, NEW out \in SUBSET Message,
         UNCHANGED <<sent, queue, outstanding, peerConn, expected, got, applied, dropped, closed>>,
         \A m \in out : Says(m), wire' \subseteq wire \cup out,
         \A s \in Side : Held(s)' \subseteq Held(s)
  PROVE  Line'
<1>1. Forward
  <2> SUFFICES ASSUME NEW s \in Side
               PROVE  expected[s] <= expected[s] /\ Len(sent[s]) <= Len(sent[s])
    BY DEF Forward
  <2>1. sent[s] \in Seq(Item) /\ expected[s] \in Nat
    BY DEF Typed, TypeOK, Item
  <2> QED
    BY <2>1
<1>2. WireSays'
  BY <1>1, CarriedSays DEF Line
<1>3. HeldSays'
  BY <1>1, KeptSays DEF Line
<1>4. PeerBound' /\ SentAnswers' /\ AppliedPassed' /\ ExpectedSent'
  BY DEF Line, PeerBound, SentAnswers, AppliedPassed, ExpectedSent
<1>5. QueueFollows' /\ DroppedOffers' /\ Outstanding' /\ AckSound'
  BY DEF Line, QueueFollows, DroppedOffers, Outstanding, AckSound
<1>6. AppliedInOrder' /\ (~Interleave => PassedWasReceived')
  BY DEF Line, AppliedInOrder, PassedWasReceived
<1> QED
  BY <1>2, <1>3, <1>4, <1>5, <1>6 DEF Line

\* What arrives from this connection is from the far end, and on the wire: the strays
\* are of another connection than the one this side is bound to.
LEMMA OursSays ==
  ASSUME Typed, Line, NEW s \in Side, NEW m \in Arriving(s), Ours(s, m)
  PROVE  m \in Message /\ m.conn = Other(s) /\ Says(m)
<1>1. CASE m \in wire /\ m.conn = Other(s)
  BY <1>1 DEF Line, WireSays, Typed, TypeOK
<1>2. CASE m \in Strays /\ m.conn # s /\ (m.gen # "current" \/ peerConn[s] # Unbound)
  <2>1. m.gen = "current" /\ peerConn[s] = m.conn /\ m.to \in Side \cup {Unbound}
    BY <1>2 DEF Ours
  <2>2. m.conn \notin Side
    BY <1>2, <2>1, ConstantsAssumption
  <2>3. m.conn = Other(s) /\ Other(s) \in Side
    BY <1>2, <2>1, ConstantsAssumption DEF Line, PeerBound
  <2> QED
    BY <2>2, <2>3
<1> QED
  BY <1>1, <1>2 DEF Arriving

\* Hearing the far end, without releasing anything.
LEMMA HearLine ==
  ASSUME Typed, Typed', Line, NEW s \in Side, NEW m \in Message, m.conn = Other(s), Says(m),
         peerConn' = [peerConn EXCEPT ![s] = m.conn],
         UNCHANGED <<sent, outstanding, expected, got, applied, dropped, closed>>,
         queue' = [queue EXCEPT ![s] = Unacked(s, m.ack)],
         NEW out \in SUBSET Message, \A x \in out : Says(x), wire' \subseteq wire \cup out,
         \A t \in Side : \A x \in Held(t)' :
           x \in Held(t) \/ (t = s /\ x = m /\ m.type \in Sequenced)
  PROVE  Line'
<1>1. Forward
  <2> SUFFICES ASSUME NEW t \in Side
               PROVE  expected[t] <= expected[t] /\ Len(sent[t]) <= Len(sent[t])
    BY DEF Forward
  <2>1. sent[t] \in Seq(Item) /\ expected[t] \in Nat
    BY DEF Typed, TypeOK, Item
  <2> QED
    BY <2>1
<1>2. WireSays'
  BY <1>1, CarriedSays DEF Line
<1>3. HeldSays'
  BY <1>1, KeptSays DEF Line
<1>4. PeerBound'
  BY DEF Line, PeerBound, Typed, TypeOK
<1>5. SentAnswers' /\ AppliedPassed' /\ ExpectedSent' /\ Outstanding'
  BY DEF Line, SentAnswers, AppliedPassed, ExpectedSent, Outstanding
<1>6. QueueFollows' /\ DroppedOffers' /\ AckSound'
  <2>1. m.ack \in Nat /\ m.ack < expected[Other(s)]
    BY DEF Message, Says
  <2> QED
    BY <1>1, <2>1, AckedLine DEF Unacked
<1>7. AppliedInOrder' /\ (~Interleave => PassedWasReceived')
  BY DEF Line, AppliedInOrder, PassedWasReceived
<1> QED
  BY <1>2, <1>3, <1>4, <1>5, <1>6, <1>7 DEF Line

\* A release passes what the message carries: the stream goes on where it was, and
\* what is handed to the negotiator comes after all it was handed.
LEMMA ReleaseLine ==
  ASSUME Typed, Typed', Line, NEW s \in Side, NEW m \in Message, m.conn = Other(s), Says(m),
         m.type \in Sequenced, m.first <= expected[s], expected[s] <= m.seq,
         NEW n \in Nat, n < expected[Other(s)], Release(s, m, {k \in queue[s] : k > n}),
         UNCHANGED <<sent, dropped, closed, wire>>, PeerBound',
         \A u \in Side : Held(u)' \subseteq Held(u)
  PROVE  Line'
<1> DEFINE t == Other(s)
           apt == m.type = "answer" /\ m.re = outstanding[s]
           handed == m.type = "offer" \/ apt
<1>1. /\ t \in Side /\ t # s /\ Other(t) = s /\ m.re \in Nat /\ m.re < expected[t]
      /\ m.seq \in Nat /\ m.seq \in 1..Len(sent[t]) /\ Len(sent[t]) \in Nat
      /\ \A u \in Side : expected[u] \in Nat \ {0}
  <2>1. t \in Side /\ t # s /\ Other(t) = s
    BY ConstantsAssumption
  <2>2. sent[t] \in Seq(Item) /\ \A u \in Side : expected[u] \in Nat \ {0}
    BY <2>1 DEF Typed, TypeOK, Item
  <2> QED
    BY <2>1, <2>2 DEF Says, Message
<1>2. /\ expected' = [expected EXCEPT ![s] = m.seq + 1]
      /\ got' = [got EXCEPT ![s] = got[s] \cup m.carries]
      /\ applied' = IF handed THEN [applied EXCEPT ![s] = Append(applied[s], m.seq)] ELSE applied
      /\ outstanding' = IF apt THEN [outstanding EXCEPT ![s] = 0] ELSE outstanding
      /\ QueueBecomes(s, IF apt THEN {k \in {j \in queue[s] : j > n} : k > m.re}
                                ELSE {k \in queue[s] : k > n})
  BY DEF Release
<1>3. /\ expected'[s] = m.seq + 1 /\ expected'[t] = expected[t]
      /\ \A u \in Side : u = s \/ u = t \/ expected'[u] = expected[u]
  BY <1>1, <1>2 DEF Typed, TypeOK
<1>4. Forward
  <2> SUFFICES ASSUME NEW u \in Side
               PROVE  expected[u] <= expected'[u] /\ Len(sent[u]) <= Len(sent[u])
    BY DEF Forward
  <2>1. sent[u] \in Seq(Item)
    BY DEF Typed, TypeOK, Item
  <2> QED
    BY <1>1, <1>3, <2>1
<1>5. WireSays' /\ HeldSays'
  <2>1. \A x \in {} : Says(x)
    OBVIOUS
  <2>2. {} \in SUBSET Message /\ wire' \subseteq wire \cup {}
    OBVIOUS
  <2> QED
    BY <1>4, <2>1, <2>2, CarriedSays, KeptSays DEF Line
<1>6. QueueFollows' /\ DroppedOffers' /\ AckSound'
  <2> DEFINE N == IF apt /\ m.re > n THEN m.re ELSE n
  <2>1. N \in Nat /\ N < expected[t]
    BY <1>1
  <2>2. queue[s] \subseteq Nat
    BY DEF Typed, TypeOK
  <2>3. (IF apt THEN {k \in {j \in queue[s] : j > n} : k > m.re} ELSE {k \in queue[s] : k > n})
          = {k \in queue[s] : k > N}
    BY <1>1, <2>2
  <2>4. queue' = [queue EXCEPT ![s] = {k \in queue[s] : k > N}]
    BY <1>2, <2>3 DEF QueueBecomes
  <2> HIDE DEF N
  <2> QED
    BY <1>4, <2>1, <2>4, AckedLine
<1>7. SentAnswers'
  <2> SUFFICES ASSUME NEW u \in Side, NEW k \in DOMAIN sent[u]
               PROVE  /\ sent[u][k].re < expected'[u]
                      /\ sent[u][k].type = "offer" => sent[u][k].re = 0
    BY DEF SentAnswers
  <2>1. sent[u] \in Seq(Item)
    BY DEF Typed, TypeOK, Item
  <2>2. sent[u][k] \in Item
    BY <2>1
  <2>3. sent[u][k].re \in Nat
    BY <2>2 DEF Item
  <2>4. /\ sent[u][k].re < expected[u]
        /\ sent[u][k].type = "offer" => sent[u][k].re = 0
    BY DEF Line, SentAnswers
  <2>5. expected[u] \in Nat /\ expected'[u] \in Nat /\ expected[u] <= expected'[u]
    BY <1>1, <1>3
  <2> QED
    BY <2>3, <2>4, <2>5
<1>8. ExpectedSent'
  BY <1>1, <1>3 DEF Line, ExpectedSent
<1>a. applied[s] \in Seq(Nat) /\ applied \in [Side -> Seq(Nat)] /\ Len(applied[s]) \in Nat
  <2>1. applied \in [Side -> Seq(Nat)]
    BY DEF Typed, TypeOK
  <2>2. applied[s] \in Seq(Nat)
    BY <2>1
  <2> QED
    BY <2>1, <2>2
<1>b. handed => /\ DOMAIN applied'[s] = 1..(Len(applied[s]) + 1)
                /\ applied'[s][Len(applied[s]) + 1] = m.seq
                /\ \A i \in DOMAIN applied[s] : applied'[s][i] = applied[s][i]
  BY <1>1, <1>2, <1>a
<1>c. \A u \in Side : u = s \/ applied'[u] = applied[u]
  BY <1>2, <1>a
<1>d. ~handed => applied' = applied
  BY <1>2
<1>e. \A i \in DOMAIN applied[s] : applied[s][i] \in 1..(expected[s] - 1)
  BY DEF Line, AppliedPassed
<1>f. DOMAIN applied[s] = 1..Len(applied[s])
  BY <1>a
<1> HIDE DEF handed
<1>9. AppliedPassed'
  <2> SUFFICES ASSUME NEW u \in Side, NEW i \in DOMAIN applied'[u]
               PROVE  applied'[u][i] \in 1..(expected'[u] - 1)
    BY DEF AppliedPassed
  <2>1. CASE u # s
    <3>1. applied'[u] = applied[u] /\ expected'[u] = expected[u]
      BY <1>1, <1>3, <1>c, <2>1
    <3> QED
      BY <3>1 DEF Line, AppliedPassed
  <2>2. CASE u = s
    <3>1. expected'[s] - 1 = m.seq /\ m.seq \in 1..m.seq /\ expected[s] - 1 <= m.seq
      BY <1>1, <1>3
    <3>2. \A j \in DOMAIN applied[s] : applied[s][j] \in 1..m.seq
      BY <1>1, <1>e, <3>1
    <3>3. CASE handed
      <4>1. i \in DOMAIN applied[s] \/ i = Len(applied[s]) + 1
        BY <1>a, <1>b, <1>f, <2>2, <3>3
      <4> QED
        BY <1>b, <2>2, <3>1, <3>2, <3>3, <4>1
    <3>4. CASE ~handed
      BY <1>d, <2>2, <3>1, <3>2, <3>4
    <3> QED
      BY <3>3, <3>4
  <2> QED
    BY <2>1, <2>2
<1>10. AppliedInOrder'
  <2> SUFFICES ASSUME NEW u \in Side
               PROVE  /\ \A i, j \in DOMAIN applied'[u] : i < j => applied'[u][i] < applied'[u][j]
                      /\ \A i \in DOMAIN applied'[u] :
                           /\ applied'[u][i] <= Len(sent[Other(u)])
                           /\ sent[Other(u)][applied'[u][i]].type \in Descriptions
    BY DEF AppliedInOrder
  <2>1. CASE u # s \/ ~handed
    BY <1>c, <1>d, <2>1 DEF Line, AppliedInOrder
  <2>2. CASE u = s /\ handed
    <3>1. m.seq <= Len(sent[t]) /\ sent[t][m.seq].type \in Descriptions
      BY <1>1, <2>2 DEF Says, handed
    <3>2. \A i \in DOMAIN applied[s] : applied[s][i] < m.seq
      BY <1>1, <1>e
    <3>3. /\ \A i, j \in DOMAIN applied[s] : i < j => applied[s][i] < applied[s][j]
          /\ \A i \in DOMAIN applied[s] : /\ applied[s][i] <= Len(sent[t])
                                          /\ sent[t][applied[s][i]].type \in Descriptions
      BY DEF Line, AppliedInOrder
    <3>4. \A i \in DOMAIN applied'[s] : i \in DOMAIN applied[s] \/ i = Len(applied[s]) + 1
      BY <1>a, <1>b, <1>f, <2>2
    <3>5. \A i \in DOMAIN applied'[s] : /\ applied'[s][i] <= Len(sent[t])
                                        /\ sent[t][applied'[s][i]].type \in Descriptions
      BY <1>b, <2>2, <3>1, <3>3, <3>4
    <3>6. ASSUME NEW i \in DOMAIN applied'[s], NEW j \in DOMAIN applied'[s], i < j
          PROVE  applied'[s][i] < applied'[s][j]
      <4>1. i \in DOMAIN applied[s]
        BY <1>a, <1>b, <1>f, <2>2, <3>6
      <4> QED
        BY <1>b, <2>2, <3>2, <3>3, <3>4, <3>6, <4>1
    <3> QED
      BY <2>2, <3>5, <3>6
  <2> QED
    BY <2>1, <2>2
<1>11. Outstanding'
  <2> SUFFICES ASSUME NEW u \in Side, outstanding'[u] # 0
               PROVE  /\ outstanding'[u] = outstanding[u]
                      /\ \A i \in DOMAIN applied'[u] :
                           sent[Other(u)][applied'[u][i]].re # outstanding[u]
    BY DEF Outstanding, Line
  <2>1. outstanding'[u] = outstanding[u] /\ (u = s => ~apt)
    BY <1>2 DEF Typed, TypeOK
  <2>2. \A i \in DOMAIN applied[u] : sent[Other(u)][applied[u][i]].re # outstanding[u]
    BY <2>1 DEF Line, Outstanding
  <2>3. CASE u # s \/ ~handed
    BY <1>c, <1>d, <2>1, <2>2, <2>3
  <2>4. CASE u = s /\ handed
    <3>1. m.type = "offer"
      BY <2>1, <2>4 DEF handed
    <3>2. sent[t][m.seq].type = "offer" /\ m.seq \in DOMAIN sent[t]
      <4>1. sent[t] \in Seq(Item)
        BY <1>1 DEF Typed, TypeOK, Item
      <4> QED
        BY <1>1, <3>1, <4>1 DEF Says
    <3>3. sent[t][m.seq].re = 0
      BY <1>1, <3>2 DEF Line, SentAnswers
    <3>4. \A i \in DOMAIN applied'[s] : i \in DOMAIN applied[s] \/ i = Len(applied[s]) + 1
      BY <1>a, <1>b, <1>f, <2>4
    <3> QED
      BY <1>b, <2>1, <2>2, <2>4, <3>3, <3>4
  <2> QED
    BY <2>3, <2>4
<1>12. ASSUME ~Interleave PROVE PassedWasReceived'
  <2> SUFFICES ASSUME NEW u \in Side, NEW k \in 1..(expected'[u] - 1) PROVE k \in got'[u]
    BY DEF PassedWasReceived
  <2>1. PassedWasReceived
    BY <1>12 DEF Line
  <2>2. CASE u # s
    BY <1>2, <1>3, <2>1, <2>2 DEF PassedWasReceived, Typed, TypeOK
  <2>3. CASE u = s
    <3>1. got'[s] = got[s] \cup m.carries
      BY <1>2 DEF Typed, TypeOK
    <3>2. m.first..m.seq \subseteq m.carries /\ m.first \in Nat
      BY <1>12 DEF Says, Message
    <3>3. k \in 1..(expected[s] - 1) \/ k \in m.first..m.seq
      BY <1>1, <1>3, <2>3, <3>2
    <3> QED
      BY <2>1, <2>3, <3>1, <3>2, <3>3 DEF PassedWasReceived
  <2> QED
    BY <2>2, <2>3
<1> QED
  BY <1>5, <1>6, <1>7, <1>8, <1>9, <1>10, <1>11, <1>12 DEF Line

\* What is sent comes behind all that was sent, and answers what was handed.
LEMMA SendLine ==
  ASSUME Typed, Typed', Line, NEW s \in Side, NEW item \in Items(s), Send(s, item)
  PROVE  Line'
<1> DEFINE k == Len(sent[s]) + 1
<1>0. /\ \A u \in Side : /\ sent[u] \in Seq(Item) /\ Len(sent[u]) \in Nat
                         /\ DOMAIN sent[u] = 1..Len(sent[u])
                         /\ expected[u] \in Nat /\ Other(u) \in Side /\ Other(u) # u
                         /\ Other(Other(u)) = u
                         /\ queue[u] \subseteq 1..Len(sent[u])
      /\ item \in Item /\ item.re \in Nat /\ k \in Nat
  <2>1. \A u \in Side : sent[u] \in Seq(Item) /\ expected[u] \in Nat
    BY DEF Typed, TypeOK, Item
  <2>2. \A u \in Side : Len(sent[u]) \in Nat /\ DOMAIN sent[u] = 1..Len(sent[u])
    BY <2>1
  <2>3. item \in Item
    BY ItemsAreItems
  <2>4. item.re \in Nat
    BY <2>3 DEF Item
  <2> QED
    BY <2>1, <2>2, <2>3, <2>4, ConstantsAssumption DEF Typed, QueueOK
<1>1. /\ sent' = [sent EXCEPT ![s] = Append(sent[s], item)]
      /\ queue' = [queue EXCEPT ![s] = queue[s] \cup {k}]
      /\ outstanding' = IF item.type = "offer" THEN [outstanding EXCEPT ![s] = k] ELSE outstanding
      /\ item.type \in Descriptions /\ ~Interleave => \A j \in queue[s] : sent[s][j].type # "ice"
      /\ wire' \subseteq wire \cup {Single(s, k, item)}
      /\ UNCHANGED <<peerConn, expected, buffer, got, applied, dropped, closed>>
  BY DEF Send, Publish, Carry, receiverVars
<1>2. /\ sent'[s] = Append(sent[s], item) /\ queue'[s] = queue[s] \cup {k}
      /\ \A u \in Side : u = s \/ (sent'[u] = sent[u] /\ queue'[u] = queue[u])
  BY <1>1 DEF Typed, TypeOK
<1>3. /\ Len(sent'[s]) = k /\ sent'[s][k] = item
      /\ \A j \in 1..Len(sent[s]) : sent'[s][j] = sent[s][j]
  BY <1>0, <1>2
<1>4. \A u \in Side : /\ Len(sent'[u]) \in Nat /\ Len(sent[u]) <= Len(sent'[u])
                      /\ \A j \in 1..Len(sent[u]) : sent'[u][j] = sent[u][j]
  BY <1>0, <1>2, <1>3
<1>5. Forward
  BY <1>0, <1>1, <1>4 DEF Forward
<1>6. item.re < expected[s] /\ (item.type = "offer" => item.re = 0)
  <2>1. CASE item \in {[type |-> "offer", re |-> 0], [type |-> "ice", re |-> 0]}
    <3>1. expected[s] \in Nat \ {0}
      BY DEF Typed, TypeOK
    <3> QED
      BY <2>1, <3>1
  <2>2. CASE item \in {[type |-> "answer", re |-> q] : q \in Answerable(s)}
    <3>1. PICK q \in Answerable(s) : item = [type |-> "answer", re |-> q]
      BY <2>2
    <3>2. PICK i \in DOMAIN applied[s] : applied[s][i] = q
      BY DEF Answerable
    <3>3. q \in 1..(expected[s] - 1)
      BY <3>2 DEF Line, AppliedPassed
    <3> QED
      BY <1>0, <3>1, <3>3
  <2> QED
    BY <2>1, <2>2 DEF Items
<1> HIDE DEF k
<1>7. WireSays'
  <2> SUFFICES ASSUME NEW m \in wire' PROVE Says(m)'
    BY DEF WireSays
  <2>1. CASE m \in wire
    <3>1. m \in Message /\ Says(m)
      BY <2>1 DEF Line, WireSays, Typed, TypeOK
    <3> QED
      BY <1>5, <3>1, StaysSo
  <2>2. CASE m = Single(s, k, item)
    <3>1. /\ m.conn = s /\ m.type = item.type /\ m.seq = k /\ m.first = k /\ m.carries = {k}
          /\ m.ack = expected[s] - 1 /\ m.re = item.re
      BY <2>2 DEF Single, Stamped
    <3>2. m.first \in 1..m.seq /\ m.seq \in 1..Len(sent'[s]) /\ m.first..m.seq \subseteq m.carries
      <4>1. k \in Nat \ {0}
        BY <1>0 DEF k
      <4> QED
        BY <1>3, <3>1, <4>1
    <3>3. m.ack < expected'[s] /\ m.re < expected'[s]
      BY <1>0, <1>1, <1>6, <3>1
    <3> QED
      BY <1>3, <3>1, <3>2, <3>3 DEF Says
  <2> QED
    BY <1>1, <2>1, <2>2
<1>8. HeldSays'
  <2>1. \A u \in Side : Held(u)' = Held(u)
    BY <1>1 DEF Held
  <2> QED
    BY <1>5, <2>1, KeptSays DEF Line
<1>9. PeerBound' /\ AppliedPassed' /\ (~Interleave => PassedWasReceived')
  BY <1>1 DEF Line, PeerBound, AppliedPassed, PassedWasReceived
<1>10. ExpectedSent'
  BY <1>0, <1>1, <1>4 DEF Line, ExpectedSent
<1>11. SentAnswers'
  <2> SUFFICES ASSUME NEW u \in Side, NEW j \in DOMAIN sent'[u]
               PROVE  /\ sent'[u][j].re < expected[u]
                      /\ sent'[u][j].type = "offer" => sent'[u][j].re = 0
    BY <1>1 DEF SentAnswers
  <2>1. CASE u = s /\ j = k
    BY <1>3, <1>6, <2>1
  <2>2. CASE ~(u = s /\ j = k)
    <3>1. DOMAIN sent'[u] = 1..Len(sent'[u])
      <4>1. sent'[u] \in Seq(Item)
        BY DEF Typed, TypeOK, Item
      <4> QED
        BY <4>1
    <3>2. j \in DOMAIN sent[u] /\ sent'[u][j] = sent[u][j]
      BY <1>0, <1>2, <1>3, <2>2, <3>1 DEF k
    <3> QED
      BY <3>2 DEF Line, SentAnswers
  <2> QED
    BY <2>1, <2>2
<1>12. QueueFollows'
  <2> SUFFICES ASSUME NEW u \in Side, NEW i \in queue'[u], NEW j \in 1..Len(sent'[u]), i < j
               PROVE  /\ j \in queue'[u] \cup dropped[u]
                      /\ ~Interleave /\ sent'[u][i].type = "ice" => sent'[u][j].type = "ice"
    BY <1>1 DEF QueueFollows
  <2>1. i \in queue[u] /\ i \in 1..Len(sent[u]) /\ sent'[u][i] = sent[u][i]
    BY <1>0, <1>2, <1>3 DEF k
  <2>2. CASE j \in 1..Len(sent[u])
    BY <1>2, <1>4, <2>1, <2>2 DEF Line, QueueFollows
  <2>3. CASE j \notin 1..Len(sent[u])
    <3>1. u = s /\ j = k
      BY <1>0, <1>2, <1>3, <2>3 DEF k
    <3>2. item.type \notin Descriptions => item.type = "ice"
      BY <1>0 DEF Item
    <3> QED
      BY <1>1, <1>2, <1>3, <2>1, <3>1, <3>2
  <2> QED
    BY <2>2, <2>3
<1>13. DroppedOffers'
  BY <1>0, <1>1, <1>4 DEF Line, DroppedOffers
<1>a. \A u \in Side : \A i \in DOMAIN applied[u] :
        /\ applied[u][i] \in 1..Len(sent[Other(u)])
        /\ sent'[Other(u)][applied[u][i]] = sent[Other(u)][applied[u][i]]
  <2> TAKE u \in Side
  <2> TAKE i \in DOMAIN applied[u]
  <2>1. applied[u][i] \in 1..(expected[u] - 1) /\ expected[u] <= Len(sent[Other(u)]) + 1
    BY DEF Line, AppliedPassed, ExpectedSent
  <2>2. applied[u][i] \in 1..Len(sent[Other(u)])
    BY <1>0, <2>1
  <2> QED
    BY <1>0, <1>4, <2>2
<1>14. Outstanding'
  <2> SUFFICES ASSUME NEW u \in Side, outstanding'[u] # 0
               PROVE  /\ outstanding'[u] \in 1..Len(sent'[u]) /\ outstanding'[u] \notin dropped[u]
                      /\ sent'[u][outstanding'[u]].type = "offer"
                      /\ \A j \in (outstanding'[u] + 1)..Len(sent'[u]) : sent'[u][j].type # "offer"
                      /\ \A i \in DOMAIN applied[u] :
                           sent'[Other(u)][applied[u][i]].re # outstanding'[u]
    BY <1>1 DEF Outstanding
  <2>1. CASE u = s /\ item.type = "offer"
    <3>1. outstanding'[s] = k /\ k \in 1..k /\ Len(sent'[s]) = k
      <4>1. k \in Nat \ {0}
        BY <1>0 DEF k
      <4> QED
        BY <1>1, <1>3, <2>1, <4>1 DEF Typed, TypeOK
    <3>2. k \notin dropped[s]
      BY <1>0 DEF Line, DroppedOffers, k
    <3>3. \A i \in DOMAIN applied[s] : sent[Other(s)][applied[s][i]].re < k
      <4> TAKE i \in DOMAIN applied[s]
      <4> DEFINE t == Other(s)
                 a == sent[t][applied[s][i]]
      <4>1. t \in Side /\ applied[s][i] \in DOMAIN sent[t]
        BY <1>0, <1>a
      <4>2. a.re < expected[t] /\ expected[t] <= k
        <5>1. a.re < expected[t]
          BY <4>1 DEF Line, SentAnswers
        <5>2. Other(t) = s
          BY <1>0
        <5> QED
          BY <4>1, <5>1, <5>2 DEF Line, ExpectedSent, k
      <4>3. a \in Item
        BY <1>0, <4>1
      <4>4. a.re \in Nat /\ expected[t] \in Nat /\ k \in Nat
        BY <1>0, <4>1, <4>3 DEF Item, k
      <4> QED
        BY <4>2, <4>4
    <3>4. \A i \in DOMAIN applied[s] : sent'[Other(s)][applied[s][i]].re # k
      <4> TAKE i \in DOMAIN applied[s]
      <4>1. sent[Other(s)][applied[s][i]] \in Item
        BY <1>0, <1>a
      <4>2. sent[Other(s)][applied[s][i]].re \in Nat
        BY <4>1 DEF Item
      <4> QED
        BY <1>0, <1>a, <3>3, <4>2 DEF k
    <3>5. \A j \in (k + 1)..k : FALSE
      BY <1>0 DEF k
    <3> QED
      BY <1>3, <2>1, <3>1, <3>2, <3>4, <3>5
  <2>2. CASE ~(u = s /\ item.type = "offer")
    <3>1. outstanding'[u] = outstanding[u] /\ outstanding[u] # 0
      BY <1>1, <2>2 DEF Typed, TypeOK
    <3>2. /\ outstanding[u] \in 1..Len(sent[u]) /\ outstanding[u] \notin dropped[u]
          /\ sent[u][outstanding[u]].type = "offer"
          /\ \A j \in (outstanding[u] + 1)..Len(sent[u]) : sent[u][j].type # "offer"
          /\ \A i \in DOMAIN applied[u] : sent[Other(u)][applied[u][i]].re # outstanding[u]
      BY <3>1 DEF Line, Outstanding
    <3>3. \A j \in (outstanding[u] + 1)..Len(sent'[u]) :
            j \in (outstanding[u] + 1)..Len(sent[u]) \/ (u = s /\ j = k)
      BY <1>0, <1>2, <1>3, <3>2 DEF k
    <3>4. \A j \in (outstanding[u] + 1)..Len(sent'[u]) : sent'[u][j].type # "offer"
      <4> TAKE j \in (outstanding[u] + 1)..Len(sent'[u])
      <4>1. CASE u = s /\ j = k
        BY <1>3, <2>2, <4>1
      <4>2. CASE j \in (outstanding[u] + 1)..Len(sent[u])
        <5>1. j \in 1..Len(sent[u])
          BY <1>0, <3>2, <4>2
        <5> QED
          BY <1>4, <3>2, <4>2, <5>1
      <4> QED
        BY <3>3, <4>1, <4>2
    <3>5. outstanding[u] \in 1..Len(sent'[u]) /\ sent'[u][outstanding[u]].type = "offer"
      BY <1>0, <1>4, <3>2
    <3> QED
      BY <1>a, <3>1, <3>2, <3>4, <3>5
  <2> QED
    BY <2>1, <2>2
<1>15. AckSound'
  <2> SUFFICES ASSUME NEW u \in Side, ~closed[u], NEW j \in 1..Len(sent'[u])
               PROVE  j < expected[Other(u)] \/ j \in queue'[u] \cup dropped[u]
    BY <1>1 DEF AckSound
  <2>1. j \in 1..Len(sent[u]) \/ (u = s /\ j = k)
    BY <1>0, <1>2, <1>3 DEF k
  <2> QED
    BY <1>2, <2>1 DEF Line, AckSound
<1>16. AppliedInOrder'
  <2>1. \A u \in Side : \A i, j \in DOMAIN applied[u] : i < j => applied[u][i] < applied[u][j]
    BY DEF Line, AppliedInOrder
  <2>2. \A u \in Side : \A i \in DOMAIN applied[u] :
          /\ applied[u][i] <= Len(sent'[Other(u)])
          /\ sent'[Other(u)][applied[u][i]].type \in Descriptions
    <3> TAKE u \in Side
    <3> TAKE i \in DOMAIN applied[u]
    <3>1. sent[Other(u)][applied[u][i]].type \in Descriptions
      BY DEF Line, AppliedInOrder
    <3> QED
      BY <1>0, <1>4, <1>a, <3>1
  <2> QED
    BY <1>1, <2>1, <2>2 DEF AppliedInOrder
<1> QED
  BY <1>7, <1>8, <1>9, <1>10, <1>11, <1>12, <1>13, <1>14, <1>15, <1>16 DEF Line

\* An offer that is dropped is the outstanding one.
LEMMA DropLine == ASSUME Typed, Typed', Line, NEW s \in Side, Drop(s) PROVE Line'
<1> DEFINE k == outstanding[s]
<1>1. /\ k # 0 /\ queue' = [queue EXCEPT ![s] = queue[s] \ {k}]
      /\ outstanding' = [outstanding EXCEPT ![s] = 0]
      /\ dropped' = [dropped EXCEPT ![s] = dropped[s] \cup {k}]
      /\ UNCHANGED <<sent, peerConn, expected, buffer, got, applied, closed, wire>>
  BY DEF Drop, QueueBecomes, receiverVars
<1>2. \A u \in Side : /\ u # s => queue'[u] = queue[u] /\ dropped'[u] = dropped[u]
                      /\ u # s => outstanding'[u] = outstanding[u]
                      /\ u = s => /\ queue'[u] = queue[u] \ {k} /\ dropped'[u] = dropped[u] \cup {k}
                                  /\ outstanding'[u] = 0
  BY <1>1 DEF Typed, TypeOK
<1>3. k \in 1..Len(sent[s]) /\ sent[s][k].type = "offer"
  BY <1>1 DEF Line, Outstanding
<1> HIDE DEF k
<1>4. WireSays' /\ HeldSays'
  <2>1. \A m : Says(m) => Says(m)'
    BY <1>1 DEF Says
  <2>2. \A u \in Side : Held(u)' = Held(u)
    BY <1>1 DEF Held
  <2> QED
    BY <1>1, <2>1, <2>2 DEF Line, WireSays, HeldSays
<1>5. PeerBound' /\ SentAnswers' /\ AppliedPassed' /\ ExpectedSent'
  BY <1>1 DEF Line, PeerBound, SentAnswers, AppliedPassed, ExpectedSent
<1>6. AppliedInOrder' /\ (~Interleave => PassedWasReceived')
  BY <1>1 DEF Line, AppliedInOrder, PassedWasReceived
<1>7. QueueFollows'
  BY <1>1, <1>2 DEF Line, QueueFollows
<1>8. DroppedOffers' /\ Outstanding'
  BY <1>1, <1>2, <1>3 DEF Line, DroppedOffers, Outstanding
<1>9. AckSound'
  BY <1>1, <1>2 DEF Line, AckSound
<1> QED
  BY <1>4, <1>5, <1>6, <1>7, <1>8, <1>9 DEF Line

\* A closed side asks for nothing any more.
LEMMA CloseLine == ASSUME Typed, Typed', Line, NEW s \in Side, Close(s) PROVE Line'
<1>1. /\ closed' = [closed EXCEPT ![s] = TRUE] /\ queue' = [queue EXCEPT ![s] = {}]
      /\ buffer' = [buffer EXCEPT ![s] = <<>>] /\ outstanding' = [outstanding EXCEPT ![s] = 0]
      /\ UNCHANGED <<sent, peerConn, expected, got, applied, dropped, wire>>
  BY DEF Close
<1>2. \A u \in Side :
        /\ u # s => /\ queue'[u] = queue[u] /\ outstanding'[u] = outstanding[u]
                    /\ closed'[u] = closed[u] /\ buffer'[u] = buffer[u]
        /\ u = s => queue'[u] = {} /\ outstanding'[u] = 0 /\ closed'[u] /\ buffer'[u] = <<>>
  BY <1>1 DEF Typed, TypeOK
<1>3. WireSays' /\ HeldSays'
  <2>1. \A m : Says(m) => Says(m)'
    BY <1>1 DEF Says
  <2>2. \A u \in Side : Held(u)' \subseteq Held(u)
    BY <1>2 DEF Held
  <2> QED
    BY <1>1, <2>1, <2>2 DEF Line, WireSays, HeldSays
<1>4. PeerBound' /\ SentAnswers' /\ AppliedPassed' /\ ExpectedSent'
  BY <1>1 DEF Line, PeerBound, SentAnswers, AppliedPassed, ExpectedSent
<1>5. AppliedInOrder' /\ (~Interleave => PassedWasReceived')
  BY <1>1 DEF Line, AppliedInOrder, PassedWasReceived
<1>6. QueueFollows' /\ DroppedOffers'
  BY <1>1, <1>2 DEF Line, QueueFollows, DroppedOffers
<1>7. Outstanding'
  BY <1>1, <1>2 DEF Line, Outstanding
<1>8. AckSound'
  BY <1>1, <1>2 DEF Line, AckSound
<1> QED
  BY <1>3, <1>4, <1>5, <1>6, <1>7, <1>8 DEF Line

LEMMA InitLine == Init => Line
<1> SUFFICES ASSUME Init PROVE Line
  OBVIOUS
<1>1. \A s \in Side : Other(s) \in Side
  BY ConstantsAssumption
<1>2. \A s \in Side : /\ peerConn[s] = Unbound /\ buffer[s] = <<>> /\ sent[s] = <<>>
                      /\ applied[s] = <<>> /\ expected[s] = 1 /\ queue[s] = {}
                      /\ dropped[s] = {} /\ outstanding[s] = 0
  BY DEF Init
<1>3. wire = {}
  BY DEF Init
<1>4. PeerBound /\ WireSays /\ HeldSays
  BY <1>2, <1>3 DEF PeerBound, WireSays, HeldSays, Held
<1>5. SentAnswers /\ AppliedPassed
  BY <1>2 DEF SentAnswers, AppliedPassed
<1>6. ExpectedSent
  BY <1>1, <1>2 DEF ExpectedSent
<1>7. QueueFollows /\ DroppedOffers /\ Outstanding
  BY <1>2 DEF QueueFollows, DroppedOffers, Outstanding
<1>8. AckSound /\ AppliedInOrder /\ PassedWasReceived
  BY <1>1, <1>2 DEF AckSound, AppliedInOrder, PassedWasReceived
<1> QED
  BY <1>4, <1>5, <1>6, <1>7, <1>8 DEF Line

\* Without one entry, nothing else is held.
LEMMA WithoutHeld ==
  ASSUME Typed, NEW s \in Side, NEW i \in DOMAIN buffer[s],
         buffer' = [buffer EXCEPT ![s] = Without(buffer[s], i)]
  PROVE  \A u \in Side : Held(u)' \subseteq Held(u)
<1>1. buffer[s] \in Seq(Message)
  BY DEF Typed, TypeOK
<1>2. \A j \in DOMAIN Without(buffer[s], i) :
        \E k \in DOMAIN buffer[s] : Without(buffer[s], i)[j] = buffer[s][k]
  BY <1>1, WithoutOne
<1>3. \A u \in Side : buffer'[u] = IF u = s THEN Without(buffer[s], i) ELSE buffer[u]
  BY DEF Typed, TypeOK
<1> QED
  BY <1>2, <1>3 DEF Held

\* With one more, and perhaps without the oldest, nothing else is held.
LEMMA EarlyHeld ==
  ASSUME Typed, NEW s \in Side, NEW m \in Message,
         LET kept == Append(buffer[s], m)
         IN buffer' = [buffer EXCEPT ![s] = IF Len(kept) > BufferLimit THEN Tail(kept) ELSE kept]
  PROVE  \A u \in Side : \A x \in Held(u)' : x \in Held(u) \/ (u = s /\ x = m)
<1> DEFINE kept == Append(buffer[s], m)
           next == IF Len(kept) > BufferLimit THEN Tail(kept) ELSE kept
<1>1. buffer[s] \in Seq(Message)
  BY DEF Typed, TypeOK
<1>2. /\ kept \in Seq(Message) /\ kept # <<>> /\ Len(kept) = Len(buffer[s]) + 1
      /\ \A j \in 1..Len(kept) : kept[j] = m \/ (j \in DOMAIN buffer[s] /\ kept[j] = buffer[s][j])
  BY <1>1
<1>3. /\ Tail(kept) \in Seq(Message) /\ Len(Tail(kept)) = Len(kept) - 1
      /\ \A j \in 1..(Len(kept) - 1) : Tail(kept)[j] = kept[j + 1] /\ j + 1 \in 1..Len(kept)
  <2> HIDE DEF kept
  <2>1. Len(kept) \in Nat
    BY <1>2
  <2> QED
    BY <1>2, <2>1
<1>4. \A j \in DOMAIN next : \E k \in 1..Len(kept) : next[j] = kept[k]
  <2> HIDE DEF kept
  <2>1. CASE Len(kept) > BufferLimit
    <3>1. DOMAIN Tail(kept) = 1..(Len(kept) - 1)
      BY <1>3
    <3> QED
      BY <1>3, <2>1, <3>1
  <2>2. CASE ~(Len(kept) > BufferLimit)
    <3>1. DOMAIN kept = 1..Len(kept)
      BY <1>2
    <3> QED
      BY <2>2, <3>1
  <2> QED
    BY <2>1, <2>2
<1> HIDE DEF kept
<1>5. \A u \in Side : buffer'[u] = IF u = s THEN next ELSE buffer[u]
  BY DEF Typed, TypeOK, kept
<1> HIDE DEF next
<1> QED
  BY <1>2, <1>4, <1>5 DEF Held

\* Only a release hands anything to the negotiator.
Releases(s, m) ==
  /\ m \in Message /\ m.conn = Other(s) /\ Says(m) /\ m.type \in Sequenced
  /\ m.first <= expected[s] /\ expected[s] <= m.seq
  /\ \E n \in Nat : n < expected[Other(s)] /\ Release(s, m, {k \in queue[s] : k > n})
  /\ UNCHANGED <<sent, dropped, closed, wire>> /\ PeerBound'
  /\ \A u \in Side : Held(u)' \subseteq Held(u)

LEMMA NextReleases ==
  ASSUME Typed, Line, NEW s \in Side, NEW m \in Arriving(s), ReceiveNext(s, m)
  PROVE  Releases(s, m)
<1>1. /\ Ours(s, m) /\ m.type \in Sequenced /\ m.first <= expected[s] /\ expected[s] <= m.seq
      /\ Release(s, m, Unacked(s, m.ack)) /\ buffer' = buffer
      /\ UNCHANGED <<sent, dropped, closed, wire>> /\ peerConn' = [peerConn EXCEPT ![s] = m.conn]
  BY DEF ReceiveNext, Accept
<1>2. m \in Message /\ m.conn = Other(s) /\ Says(m)
  BY <1>1, OursSays
<1>3. m.ack \in Nat /\ m.ack < expected[Other(s)]
  BY <1>2 DEF Message, Says
<1>4. PeerBound'
  BY <1>1, <1>2 DEF Line, PeerBound, Typed, TypeOK
<1>5. \A u \in Side : Held(u)' = Held(u)
  BY <1>1 DEF Held
<1> QED
  BY <1>1, <1>2, <1>3, <1>4, <1>5 DEF Releases, Unacked

LEMMA HeldReleases ==
  ASSUME Typed, Line, NEW s \in Side, ReleaseHeld(s)
  PROVE  \E m : Releases(s, m)
<1>1. PICK i \in Ready(s) : /\ buffer' = [buffer EXCEPT ![s] = Without(buffer[s], i)]
                            /\ Release(s, buffer[s][i], queue[s])
  BY DEF ReleaseHeld
<1> DEFINE m == buffer[s][i]
<1>2. i \in DOMAIN buffer[s] /\ m.first <= expected[s] /\ ~(m.seq < expected[s])
  BY DEF ReleaseHeld, Ready, Covered
<1>3. m \in Held(s) /\ m \in Message
  BY <1>2, HeldIsMessage DEF Held, Typed
<1>4. m.conn = Other(s) /\ m.type \in Sequenced /\ Says(m)
  BY <1>3 DEF Line, HeldSays
<1>5. expected[s] <= m.seq /\ 0 < expected[Other(s)] /\ queue[s] = {k \in queue[s] : k > 0}
  <2>1. m.seq \in Nat /\ Other(s) \in Side
    BY <1>3, ConstantsAssumption DEF Message
  <2>2. expected[s] \in Nat \ {0} /\ expected[Other(s)] \in Nat \ {0}
    BY <2>1 DEF Typed, TypeOK
  <2>3. Len(sent[s]) \in Nat
    <3>1. sent[s] \in Seq(Item)
      BY DEF Typed, TypeOK, Item
    <3> QED
      BY <3>1
  <2>4. queue[s] \subseteq 1..Len(sent[s])
    BY DEF Typed, QueueOK
  <2> QED
    BY <1>2, <2>1, <2>2, <2>3, <2>4
<1>6. UNCHANGED <<sent, dropped, closed, wire>> /\ PeerBound'
  BY DEF ReleaseHeld, Line, PeerBound
<1>7. \A u \in Side : Held(u)' \subseteq Held(u)
  BY <1>1, <1>2, WithoutHeld
<1>8. 0 \in Nat /\ Release(s, m, {k \in queue[s] : k > 0})
  BY <1>1, <1>5
<1> HIDE DEF m
<1>9. Releases(s, m)
  BY <1>2, <1>3, <1>4, <1>5, <1>6, <1>7, <1>8 DEF Releases
<1> QED
  BY <1>9

\* The owner's other calls and the timers say nothing new of the stream.
LEMMA OwnerLine ==
  ASSUME Typed, Typed', Line, NEW s \in Side,
         \/ SendUnreliable(s) \/ RetryFire(s) \/ AckFire(s)
         \/ RetransmitNow(s) \/ Reconnected(s) \/ SyncWindowOver(s)
  PROVE  Line'
<1> USE DEF senderVars, receiverVars, ackVars
<1>1. SentAnswers /\ QueueFollows /\ DroppedOffers
  BY DEF Line
<1>2. /\ Flush(s) \in SUBSET Message /\ \A m \in Flush(s) : Says(m)
      /\ Ack(s) \in Message /\ Says(Ack(s))
  BY <1>1, FlushIsMessages, FlushSays, AckIsMessage, AckSays DEF Typed
<1>3. ASSUME NEW out \in SUBSET Message, \A m \in out : Says(m), wire' \subseteq wire \cup out,
             UNCHANGED <<sent, queue, outstanding, peerConn, expected, buffer, got, applied,
                         dropped, closed>>
      PROVE  Line'
  <2>1. \A u \in Side : Held(u)' = Held(u)
    BY <1>3 DEF Held
  <2> QED
    BY <1>3, <2>1, QuietLine
<1>4. ASSUME NEW out \in SUBSET Message, \A m \in out : Says(m), Republish(s, out) PROVE Line'
  BY <1>3, <1>4 DEF Republish, Publish, Carry
<1>5. CASE SendUnreliable(s)
  <2> DEFINE h == Stamped(s, "health", 0, 0, {}, 0)
  <2>1. h \in Message
    BY StampedIsMessage DEF Typed
  <2>2. Says(h)
    BY HealthSays
  <2>3. wire' \subseteq wire \cup {h}
    BY <1>5 DEF SendUnreliable, Publish, Carry
  <2> HIDE DEF h
  <2>4. {h} \in SUBSET Message /\ \A m \in {h} : Says(m)
    BY <2>1, <2>2
  <2> QED
    BY <1>3, <1>5, <2>3, <2>4 DEF SendUnreliable
<1>6. CASE RetryFire(s)
  BY <1>2, <1>3, <1>6 DEF RetryFire, Publish, Carry
<1>7. CASE AckFire(s)
  <2>1. {Ack(s)} \in SUBSET Message /\ \A m \in {Ack(s)} : Says(m)
    BY <1>2
  <2> QED
    BY <1>3, <1>7, <2>1 DEF AckFire, Carry
<1>8. CASE RetransmitNow(s)
  BY <1>2, <1>4, <1>8 DEF RetransmitNow
<1>9. CASE Reconnected(s)
  <2> DEFINE out == Flush(s) \cup (IF expected[s] > 1 THEN {Ack(s)} ELSE {})
  <2>1. out \in SUBSET Message /\ \A m \in out : Says(m)
    BY <1>2
  <2> QED
    BY <1>4, <1>9, <2>1 DEF Reconnected
<1>10. CASE SyncWindowOver(s)
  <2>1. {} \in SUBSET Message /\ \A m \in {} : Says(m)
    OBVIOUS
  <2>2. wire' \subseteq wire \cup {}
    BY <1>10 DEF SyncWindowOver
  <2> QED
    BY <1>3, <1>10, <2>1, <2>2 DEF SyncWindowOver
<1> QED
  BY <1>5, <1>6, <1>7, <1>8, <1>9, <1>10

LEMMA ReleasesLine ==
  ASSUME Typed, Typed', Line, NEW s \in Side, NEW m, Releases(s, m)
  PROVE  Line'
<1>1. PICK n \in Nat : n < expected[Other(s)] /\ Release(s, m, {k \in queue[s] : k > n})
  BY DEF Releases
<1>2. /\ m \in Message /\ m.conn = Other(s) /\ Says(m) /\ m.type \in Sequenced
      /\ m.first <= expected[s] /\ expected[s] <= m.seq
      /\ UNCHANGED <<sent, dropped, closed, wire>> /\ PeerBound'
      /\ \A u \in Side : Held(u)' \subseteq Held(u)
  BY DEF Releases
<1> QED
  BY <1>1, <1>2, ReleaseLine

LEMMA ReceiveLine ==
  ASSUME Typed, Typed', Line, NEW s \in Side, NEW m \in Arriving(s),
         \/ ReceiveOlder(s, m) \/ ReceiveUnsequenced(s, m) \/ ReceiveDuplicate(s, m)
         \/ ReceiveEarly(s, m) \/ ReceiveNext(s, m)
  PROVE  Line'
<1> USE DEF senderVars, receiverVars, ackVars
<1>a. Accept(s, m) => /\ m \in Message /\ m.conn = Other(s) /\ Says(m)
                      /\ peerConn' = [peerConn EXCEPT ![s] = m.conn]
                      /\ UNCHANGED <<sent, dropped, closed>>
  BY OursSays DEF Accept
<1>q. \A left : QueueBecomes(s, left) => queue' = [queue EXCEPT ![s] = left]
  BY DEF QueueBecomes
<1>h. buffer' = buffer => \A u \in Side : Held(u)' \subseteq Held(u)
  BY DEF Held
<1>e. {} \in SUBSET Message /\ \A x \in {} : Says(x)
  OBVIOUS
<1>1. CASE ReceiveOlder(s, m)
  <2> DEFINE sync == [gen |-> "current", conn |-> s, to |-> Unbound, type |-> "sync", seq |-> 0,
                      first |-> 0, carries |-> {}, ack |-> 0, re |-> 0]
  <2>1. s \in Conn /\ expected[s] \in Nat \ {0}
    BY ConstantsAssumption DEF Typed, TypeOK
  <2>2. sync \in Message /\ Says(sync)
    BY <2>1 DEF Message, Says
  <2>3. wire' \subseteq wire \cup {sync}
    BY <1>1 DEF ReceiveOlder, Carry
  <2>4. UNCHANGED <<sent, queue, outstanding, peerConn, expected, buffer, got, applied, dropped,
                    closed>>
    BY <1>1 DEF ReceiveOlder
  <2> HIDE DEF sync
  <2>5. {sync} \in SUBSET Message /\ \A x \in {sync} : Says(x)
    BY <2>2
  <2>6. \A u \in Side : Held(u)' \subseteq Held(u)
    BY <1>h, <2>4
  <2> QED
    BY <2>3, <2>4, <2>5, <2>6, QuietLine
<1>2. CASE ReceiveUnsequenced(s, m)
  <2>1. /\ queue' = [queue EXCEPT ![s] = Unacked(s, m.ack)]
        /\ UNCHANGED <<outstanding, expected, buffer, got, applied>> /\ wire' \subseteq wire \cup {}
    BY <1>2, <1>q DEF ReceiveUnsequenced
  <2> QED
    BY <1>2, <1>a, <1>h, <1>e, <2>1, HearLine DEF ReceiveUnsequenced
<1>3. CASE ReceiveDuplicate(s, m)
  <2> DEFINE out == IF expected[s] > 1 THEN {Ack(s)} ELSE {}
  <2>1. out \in SUBSET Message /\ \A x \in out : Says(x)
    BY AckIsMessage, AckSays DEF Typed
  <2>2. /\ queue' = [queue EXCEPT ![s] = Unacked(s, m.ack)]
        /\ UNCHANGED <<outstanding, expected, buffer, got, applied>> /\ wire' \subseteq wire \cup out
    BY <1>3, <1>q DEF ReceiveDuplicate, Publish, Carry
  <2> HIDE DEF out
  <2> QED
    BY <1>3, <1>a, <1>h, <2>1, <2>2, HearLine DEF ReceiveDuplicate
<1>4. CASE ReceiveEarly(s, m)
  <2>1. /\ queue' = [queue EXCEPT ![s] = Unacked(s, m.ack)] /\ m.type \in Sequenced
        /\ UNCHANGED <<outstanding, expected, got, applied>> /\ wire' \subseteq wire \cup {}
    BY <1>4, <1>q DEF ReceiveEarly
  <2>2. m \in Message
    BY <1>4, <1>a DEF ReceiveEarly
  <2>3. \A u \in Side : \A x \in Held(u)' : x \in Held(u) \/ (u = s /\ x = m)
    BY <1>4, <2>2, EarlyHeld DEF ReceiveEarly
  <2>4. \A u \in Side : \A x \in Held(u)' :
          x \in Held(u) \/ (u = s /\ x = m /\ m.type \in Sequenced)
    BY <2>1, <2>3
  <2>5. Accept(s, m)
    BY <1>4 DEF ReceiveEarly
  <2>6. /\ m.conn = Other(s) /\ Says(m) /\ peerConn' = [peerConn EXCEPT ![s] = m.conn]
        /\ UNCHANGED <<sent, dropped, closed>>
    BY <1>a, <2>5
  <2>7. UNCHANGED <<sent, outstanding, expected, got, applied, dropped, closed>>
    BY <2>1, <2>6
  <2> DEFINE out == {}
  <2>8. out \in SUBSET Message /\ (\A x \in out : Says(x)) /\ wire' \subseteq wire \cup out
    BY <2>1
  <2> HIDE DEF out
  <2>9. queue' = [queue EXCEPT ![s] = Unacked(s, m.ack)]
    BY <2>1
  <2> QED
    BY <2>2, <2>4, <2>6, <2>7, <2>8, <2>9, HearLine
<1>5. CASE ReceiveNext(s, m)
  BY <1>5, NextReleases, ReleasesLine
<1> QED
  BY <1>1, <1>2, <1>3, <1>4, <1>5

LEMMA LoopLine == ASSUME Typed, Typed', Line, NEW s \in Side, Loop(s) PROVE Line'
<1> USE DEF senderVars, receiverVars, ackVars
<1>1. CASE DiscardCovered(s)
  <2>1. PICK i \in DOMAIN buffer[s] : buffer' = [buffer EXCEPT ![s] = Without(buffer[s], i)]
    BY <1>1 DEF DiscardCovered, Covered
  <2>2. \A u \in Side : Held(u)' \subseteq Held(u)
    BY <2>1, WithoutHeld
  <2>3. {} \in SUBSET Message /\ (\A x \in {} : Says(x)) /\ wire' \subseteq wire \cup {}
    BY <1>1 DEF DiscardCovered
  <2> QED
    BY <1>1, <2>2, <2>3, QuietLine DEF DiscardCovered
<1>2. CASE ReleaseHeld(s)
  BY <1>2, HeldReleases, ReleasesLine
<1>3. CASE StopReleasing(s)
  <2>1. \A u \in Side : Held(u)' \subseteq Held(u)
    BY <1>3 DEF StopReleasing, Held
  <2>2. {} \in SUBSET Message /\ (\A x \in {} : Says(x)) /\ wire' \subseteq wire \cup {}
    BY <1>3 DEF StopReleasing
  <2> QED
    BY <1>3, <2>1, <2>2, QuietLine DEF StopReleasing
<1> QED
  BY <1>1, <1>2, <1>3 DEF Loop

LEMMA StepLine == Typed /\ Typed' /\ Line /\ [Next]_vars => Line'
<1> SUFFICES ASSUME Typed, Typed', Line, [Next]_vars PROVE Line'
  OBVIOUS
<1>1. CASE UNCHANGED vars
  <2>1. UNCHANGED <<sent, queue, outstanding, peerConn, expected, buffer, got, applied, dropped,
                    closed, wire>>
    BY <1>1 DEF vars, senderVars, receiverVars, ackVars
  <2>2. \A u \in Side : Held(u)' \subseteq Held(u)
    BY <2>1 DEF Held
  <2>3. {} \in SUBSET Message /\ (\A x \in {} : Says(x)) /\ wire' \subseteq wire \cup {}
    BY <2>1
  <2> QED
    BY <2>1, <2>2, <2>3, QuietLine
<1>2. CASE Next
  <2>1. PICK s \in Side :
          \/ \E item \in Items(s) : Send(s, item)
          \/ SendUnreliable(s) \/ Drop(s) \/ RetryFire(s) \/ AckFire(s) \/ RetransmitNow(s)
          \/ Reconnected(s) \/ Close(s) \/ SyncWindowOver(s)
          \/ Receive(s) \/ Loop(s)
    BY <1>2 DEF Next
  <2>2. CASE \E item \in Items(s) : Send(s, item)
    BY <2>2, SendLine
  <2>3. CASE Receive(s)
    BY <2>3, ReceiveLine DEF Receive
  <2> QED
    BY <2>1, <2>2, <2>3, OwnerLine, DropLine, CloseLine, LoopLine
<1> QED
  BY <1>1, <1>2

-----------------------------------------------------------------------------
(* The timers                                                                   *)

\* Acknowledging stops the retry timer only when nothing is left.
LEMMA AckedRetry ==
  ASSUME Typed, RetryArmed, NEW s \in Side, NEW left, left \subseteq queue[s],
         QueueBecomes(s, left), UNCHANGED closed
  PROVE  RetryArmed'
BY DEF Typed, TypeOK, RetryArmed, QueueBecomes

LEMMA ReleaseRetry ==
  ASSUME Typed, RetryArmed, NEW s \in Side, NEW m, NEW left, left \subseteq queue[s],
         Release(s, m, left), UNCHANGED closed
  PROVE  RetryArmed'
<1> DEFINE apt == m.type = "answer" /\ m.re = outstanding[s]
           rest == IF apt THEN {k \in left : k > m.re} ELSE left
<1>1. rest \subseteq queue[s] /\ QueueBecomes(s, rest)
  BY DEF Release
<1> HIDE DEF rest
<1> QED
  BY <1>1, AckedRetry

LEMMA StepRetry == Typed /\ RetryArmed /\ [Next]_vars => RetryArmed'
<1> SUFFICES ASSUME Typed, RetryArmed, [Next]_vars PROVE RetryArmed'
  OBVIOUS
<1> USE DEF senderVars
<1>1. ASSUME UNCHANGED <<queue, attempt, retryTimer, closed>> PROVE RetryArmed'
  BY <1>1 DEF RetryArmed
<1>2. ASSUME NEW s \in Side, NEW item, Send(s, item) PROVE RetryArmed'
  BY <1>2 DEF Send, RetryArmed, Typed, TypeOK
<1>3. ASSUME NEW s \in Side, Drop(s) PROVE RetryArmed'
  BY <1>3, AckedRetry DEF Drop
<1>4. ASSUME NEW s \in Side, RetryFire(s) PROVE RetryArmed'
  BY <1>4 DEF RetryFire, Idle, RetryArmed, Typed, TypeOK
<1>5. ASSUME NEW s \in Side, NEW out, Republish(s, out) PROVE RetryArmed'
  BY <1>5 DEF Republish, Idle, RetryArmed, Typed, TypeOK
<1>6. ASSUME NEW s \in Side, Close(s) PROVE RetryArmed'
  BY <1>6 DEF Close, RetryArmed, Typed, TypeOK
<1>7. ASSUME NEW s \in Side, NEW m \in Arriving(s),
             \/ ReceiveOlder(s, m) \/ ReceiveUnsequenced(s, m) \/ ReceiveDuplicate(s, m)
             \/ ReceiveEarly(s, m) \/ ReceiveNext(s, m)
      PROVE  RetryArmed'
  <2>1. Unacked(s, m.ack) \subseteq queue[s]
    BY DEF Unacked
  <2>2. CASE ReceiveOlder(s, m)
    BY <1>1, <2>2 DEF ReceiveOlder
  <2>3. CASE ReceiveUnsequenced(s, m)
    BY <2>1, <2>3, AckedRetry DEF ReceiveUnsequenced, Accept
  <2>4. CASE ReceiveDuplicate(s, m)
    BY <2>1, <2>4, AckedRetry DEF ReceiveDuplicate, Accept
  <2>5. CASE ReceiveEarly(s, m)
    BY <2>1, <2>5, AckedRetry DEF ReceiveEarly, Accept
  <2>6. CASE ReceiveNext(s, m)
    BY <2>1, <2>6, ReleaseRetry DEF ReceiveNext, Accept
  <2> QED
    BY <1>7, <2>2, <2>3, <2>4, <2>5, <2>6
<1>8. ASSUME NEW s \in Side, Loop(s) PROVE RetryArmed'
  <2>1. CASE DiscardCovered(s)
    BY <1>1, <2>1 DEF DiscardCovered
  <2>2. CASE ReleaseHeld(s)
    BY <2>2, ReleaseRetry DEF ReleaseHeld
  <2>3. CASE StopReleasing(s)
    BY <1>1, <2>3 DEF StopReleasing
  <2> QED
    BY <1>8, <2>1, <2>2, <2>3 DEF Loop
<1>9. CASE UNCHANGED vars
  BY <1>1, <1>9 DEF vars
<1>10. CASE Next
  <2>1. PICK s \in Side :
          \/ \E item \in Items(s) : Send(s, item)
          \/ SendUnreliable(s) \/ Drop(s) \/ RetryFire(s) \/ AckFire(s) \/ RetransmitNow(s)
          \/ Reconnected(s) \/ Close(s) \/ SyncWindowOver(s)
          \/ Receive(s) \/ Loop(s)
    BY <1>10 DEF Next
  <2>2. CASE SendUnreliable(s) \/ AckFire(s) \/ SyncWindowOver(s)
    BY <1>1, <2>2 DEF SendUnreliable, AckFire, SyncWindowOver
  <2>3. CASE RetransmitNow(s) \/ Reconnected(s)
    BY <1>5, <2>3 DEF RetransmitNow, Reconnected
  <2>4. CASE Receive(s)
    BY <1>7, <2>4 DEF Receive
  <2> QED
    BY <1>2, <1>3, <1>4, <1>6, <1>8, <2>1, <2>2, <2>3, <2>4
<1> QED
  BY <1>9, <1>10

\* A side is told less than was passed, and while it releases it owes an ack.
AckDue ==
  /\ \A s \in Side : told[s] < expected[s] /\ (releasing = s => told[s] + 1 < expected[s])
  /\ AckOwed

\* What is published tells the far end everything that was passed.
LEMMA PublishedAck ==
  ASSUME Typed, AckDue, NEW s \in Side, NEW out, Idle(s), Publish(s, out),
         UNCHANGED <<expected, releasing, closed>>
  PROVE  AckDue'
<1>1. \A u \in Side : expected[u] \in Nat \ {0} /\ told[u] \in Nat /\ ackTimer[u] \in BOOLEAN
  BY DEF Typed, TypeOK
<1>2. CASE UNCHANGED ackVars
  BY <1>2 DEF AckDue, AckOwed, ackVars
<1>3. CASE /\ told' = [told EXCEPT ![s] = expected[s] - 1]
           /\ ackTimer' = [ackTimer EXCEPT ![s] = FALSE]
  <2>1. \A u \in Side : /\ u # s => told'[u] = told[u] /\ ackTimer'[u] = ackTimer[u]
                        /\ u = s => told'[u] = expected[s] - 1 /\ ackTimer'[u] = FALSE
    BY <1>3 DEF Typed, TypeOK
  <2>2. releasing = Nobody /\ Nobody \notin Side
    BY ConstantsAssumption DEF Idle
  <2> QED
    BY <1>1, <2>1, <2>2 DEF AckDue, AckOwed
<1> QED
  BY <1>2, <1>3 DEF Publish

\* What is released is owed, until the call ends with the delayed ack armed.
LEMMA ReleasedAck ==
  ASSUME Typed, AckDue, NEW s \in Side, NEW m \in Message, NEW left, Release(s, m, left),
         expected[s] <= m.seq, releasing \in {s, Nobody}, releasing' = s,
         UNCHANGED <<ackVars, closed>>
  PROVE  AckDue'
<1>1. \A u \in Side : expected[u] \in Nat \ {0} /\ told[u] \in Nat
  BY DEF Typed, TypeOK
<1>2. m.seq \in Nat
  BY DEF Message
<1>3. \A u \in Side : expected'[u] = IF u = s THEN m.seq + 1 ELSE expected[u]
  BY DEF Release, Typed, TypeOK
<1>4. Nobody \notin Side
  BY ConstantsAssumption
<1>5. told' = told /\ ackTimer' = ackTimer
  BY DEF ackVars
<1> QED
  BY <1>1, <1>2, <1>3, <1>4, <1>5 DEF AckDue, AckOwed

LEMMA StepAck == Typed /\ AckDue /\ [Next]_vars => AckDue'
<1> SUFFICES ASSUME Typed, AckDue, [Next]_vars PROVE AckDue'
  OBVIOUS
<1> USE DEF receiverVars
<1>1. ASSUME UNCHANGED <<expected, releasing, told, ackTimer, closed>> PROVE AckDue'
  BY <1>1 DEF AckDue, AckOwed
<1>2. ASSUME NEW s \in Side, AckFire(s) PROVE AckDue'
  <2>1. \A u \in Side : expected[u] \in Nat \ {0} /\ told[u] \in Nat
    BY DEF Typed, TypeOK
  <2>2. \A u \in Side : /\ u # s => told'[u] = told[u] /\ ackTimer'[u] = ackTimer[u]
                        /\ u = s => told'[u] = expected[s] - 1 /\ ackTimer'[u] = FALSE
    BY <1>2 DEF AckFire, Typed, TypeOK
  <2>3. releasing = Nobody /\ Nobody \notin Side /\ UNCHANGED <<expected, releasing, closed>>
    BY <1>2, ConstantsAssumption DEF AckFire, Idle
  <2> QED
    BY <2>1, <2>2, <2>3 DEF AckDue, AckOwed
<1>3. ASSUME NEW s \in Side, Close(s) PROVE AckDue'
  BY <1>3 DEF Close, AckDue, AckOwed, Typed, TypeOK
<1>4. ASSUME NEW s \in Side, NEW out, Republish(s, out) PROVE AckDue'
  BY <1>4, PublishedAck DEF Republish
<1>5. ASSUME NEW s \in Side, NEW m \in Arriving(s),
             \/ ReceiveOlder(s, m) \/ ReceiveUnsequenced(s, m) \/ ReceiveDuplicate(s, m)
             \/ ReceiveEarly(s, m) \/ ReceiveNext(s, m)
      PROVE  AckDue'
  <2> USE DEF ackVars
  <2>1. CASE ReceiveOlder(s, m)
    BY <1>1, <2>1 DEF ReceiveOlder
  <2>2. CASE ReceiveUnsequenced(s, m)
    BY <1>1, <2>2 DEF ReceiveUnsequenced, Accept
  <2>3. CASE ReceiveDuplicate(s, m)
    BY <2>3, PublishedAck DEF ReceiveDuplicate, Accept
  <2>4. CASE ReceiveEarly(s, m)
    BY <1>1, <2>4 DEF ReceiveEarly, Accept
  <2>5. CASE ReceiveNext(s, m)
    <3>1. m \in Message
      BY ConstantsAssumption DEF Arriving, Typed, TypeOK
    <3>2. /\ Release(s, m, Unacked(s, m.ack)) /\ expected[s] <= m.seq /\ releasing = Nobody
          /\ releasing' = s /\ UNCHANGED <<ackVars, closed>>
      BY <2>5 DEF ReceiveNext, Accept, Idle
    <3> QED
      BY <3>1, <3>2, ReleasedAck
  <2> QED
    BY <1>5, <2>1, <2>2, <2>3, <2>4, <2>5
<1>6. ASSUME NEW s \in Side, Loop(s) PROVE AckDue'
  <2> USE DEF ackVars
  <2>1. CASE DiscardCovered(s)
    BY <1>1, <2>1 DEF DiscardCovered
  <2>2. CASE ReleaseHeld(s)
    <3>1. PICK i \in Ready(s) : Release(s, buffer[s][i], queue[s])
      BY <2>2 DEF ReleaseHeld
    <3>2. i \in DOMAIN buffer[s] /\ ~(buffer[s][i].seq < expected[s])
      BY <2>2 DEF ReleaseHeld, Ready, Covered
    <3>3. buffer[s][i] \in Message
      BY <3>2, HeldIsMessage DEF Held, Typed
    <3>4. expected[s] <= buffer[s][i].seq
      BY <3>2, <3>3 DEF Typed, TypeOK, Message
    <3>5. releasing = s /\ releasing' = s /\ UNCHANGED <<ackVars, closed>>
      BY <2>2 DEF ReleaseHeld
    <3> QED
      BY <3>1, <3>3, <3>4, <3>5, ReleasedAck
  <2>3. CASE StopReleasing(s)
    <3>1. /\ releasing = s /\ releasing' = Nobody /\ ackTimer' = [ackTimer EXCEPT ![s] = TRUE]
          /\ UNCHANGED <<expected, told, closed>>
      BY <2>3 DEF StopReleasing
    <3>2. \A u \in Side : ackTimer'[u] = IF u = s THEN TRUE ELSE ackTimer[u]
      BY <3>1 DEF Typed, TypeOK
    <3>3. Nobody \notin Side
      BY ConstantsAssumption
    <3> QED
      BY <3>1, <3>2, <3>3 DEF AckDue, AckOwed
  <2> QED
    BY <1>6, <2>1, <2>2, <2>3 DEF Loop
<1>7. CASE UNCHANGED vars
  BY <1>1, <1>7 DEF vars, ackVars
<1>8. CASE Next
  <2>1. PICK s \in Side :
          \/ \E item \in Items(s) : Send(s, item)
          \/ SendUnreliable(s) \/ Drop(s) \/ RetryFire(s) \/ AckFire(s) \/ RetransmitNow(s)
          \/ Reconnected(s) \/ Close(s) \/ SyncWindowOver(s)
          \/ Receive(s) \/ Loop(s)
    BY <1>8 DEF Next
  <2>2. CASE \E item \in Items(s) : Send(s, item)
    BY <2>2, PublishedAck DEF Send
  <2>3. CASE SendUnreliable(s)
    BY <2>3, PublishedAck DEF SendUnreliable
  <2>4. CASE RetryFire(s)
    BY <2>4, PublishedAck DEF RetryFire
  <2>5. CASE Drop(s) \/ SyncWindowOver(s)
    BY <1>1, <2>5 DEF Drop, SyncWindowOver, ackVars
  <2>6. CASE RetransmitNow(s) \/ Reconnected(s)
    BY <1>4, <2>6 DEF RetransmitNow, Reconnected
  <2>7. CASE Receive(s)
    BY <1>5, <2>7 DEF Receive
  <2> QED
    BY <1>2, <1>3, <1>6, <2>1, <2>2, <2>3, <2>4, <2>5, <2>6, <2>7
<1> QED
  BY <1>7, <1>8

-----------------------------------------------------------------------------
(* Theorems                                                                     *)

\* Every variable keeps its type, whatever the bounds, the optional calls and the strays.
THEOREM TypeCorrect == Spec => []TypeOK
<1>1. Typed => TypeOK
  BY DEF Typed
<1> QED
  BY InitTyped, StepTyped, <1>1, PTL DEF Spec

LEMMA Invariance == Spec => [](Typed /\ Line /\ RetryArmed /\ AckDue)
<1>1. Init => RetryArmed /\ AckDue
  BY ConstantsAssumption DEF Init, RetryArmed, AckDue, AckOwed
<1>2. Init => Typed /\ Line
  BY InitTyped, InitLine
<1>3. Typed /\ Line /\ RetryArmed /\ AckDue /\ [Next]_vars => (Typed /\ Line /\ RetryArmed /\ AckDue)'
  BY StepTyped, StepLine, StepRetry, StepAck
<1> QED
  BY <1>1, <1>2, <1>3, PTL DEF Spec

\* #ackUpTo forgets nothing the far end still waits for, whatever is lost, repeated
\* or reordered, batched, dropped or answered in between.
THEOREM AcksAreSound == Spec => []AckSound
<1>1. Line => AckSound
  BY DEF Line
<1> QED
  BY <1>1, Invariance, PTL

\* #retryTimer runs while something is unacked and at no other time, and the
\* backoff of an empty queue is at its first step.
THEOREM RetryIsArmed == Spec => []RetryArmed
BY Invariance, PTL

\* Between two calls, #ackTimer runs exactly while the far end has not been told
\* of everything that was passed.
THEOREM AckIsOwed == Spec => []AckOwed
<1>1. AckDue => AckOwed
  BY DEF AckDue
<1> QED
  BY <1>1, Invariance, PTL

\* #release hands the descriptions of the far end over once each and in order.
THEOREM HandedInOrder == Spec => []AppliedInOrder
<1>1. Line => AppliedInOrder
  BY DEF Line
<1> QED
  BY <1>1, Invariance, PTL

\* As long as the owner sends no description while a candidate of its own is unacked,
\* whatever the stream has passed was received: the range a batch of #flush covers is
\* the range it carries.
THEOREM PassedReceived == ASSUME ~Interleave PROVE Spec => []PassedWasReceived
<1>1. Line => PassedWasReceived
  BY DEF Line
<1> QED
  BY <1>1, Invariance, PTL

\* A step that hands nothing to a negotiator, or releases a signal.
LEMMA StepHands ==
  ASSUME Typed, Line, [Next]_vars
  PROVE  applied' = applied \/ \E s \in Side : \E m : Releases(s, m)
<1> USE DEF receiverVars
<1>1. CASE UNCHANGED vars
  BY <1>1 DEF vars
<1>2. CASE Next
  <2>1. PICK s \in Side :
          \/ \E item \in Items(s) : Send(s, item)
          \/ SendUnreliable(s) \/ Drop(s) \/ RetryFire(s) \/ AckFire(s) \/ RetransmitNow(s)
          \/ Reconnected(s) \/ Close(s) \/ SyncWindowOver(s)
          \/ Receive(s) \/ Loop(s)
    BY <1>2 DEF Next
  <2>2. CASE \/ \E item \in Items(s) : Send(s, item)
             \/ SendUnreliable(s) \/ Drop(s) \/ RetryFire(s) \/ AckFire(s)
             \/ RetransmitNow(s) \/ Reconnected(s) \/ Close(s) \/ SyncWindowOver(s)
    BY <2>2 DEF Send, SendUnreliable, Drop, RetryFire, AckFire, RetransmitNow, Reconnected,
       Republish, Close, SyncWindowOver
  <2>3. CASE Receive(s)
    <3>1. PICK m \in Arriving(s) :
            \/ ReceiveOlder(s, m) \/ ReceiveUnsequenced(s, m) \/ ReceiveDuplicate(s, m)
            \/ ReceiveEarly(s, m) \/ ReceiveNext(s, m)
      BY <2>3 DEF Receive
    <3>2. CASE ReceiveNext(s, m)
      BY <3>2, NextReleases
    <3>3. CASE ~ReceiveNext(s, m)
      BY <3>1, <3>3 DEF ReceiveOlder, ReceiveUnsequenced, ReceiveDuplicate, ReceiveEarly
    <3> QED
      BY <3>2, <3>3
  <2>4. CASE Loop(s)
    <3>1. CASE ReleaseHeld(s)
      BY <3>1, HeldReleases
    <3>2. CASE DiscardCovered(s) \/ StopReleasing(s)
      BY <3>2 DEF DiscardCovered, StopReleasing
    <3> QED
      BY <2>4, <3>1, <3>2 DEF Loop
  <2> QED
    BY <2>1, <2>2, <2>3, <2>4
<1> QED
  BY <1>1, <1>2

\* #release applies an answer only to the last offer of this side, while that one is
\* neither dropped nor answered: a late or repeated answer is consumed.
THEOREM OnlyTheLastOffer == Spec => AnswersTheLastOffer
<1> DEFINE Re(s, q) == sent[Other(s)][q].re
           Last(s) == applied'[s][Len(applied'[s])]
<1>1. ASSUME Typed, Line, [Next]_vars PROVE \A s \in Side : AnswerIsLast(s)
  <2> SUFFICES ASSUME NEW s \in Side, Len(applied'[s]) > Len(applied[s]), Re(s, Last(s)) # 0
               PROVE  /\ Re(s, Last(s)) \notin dropped[s]
                      /\ \A k \in (Re(s, Last(s)) + 1)..Len(sent[s]) : sent[s][k].type # "offer"
                      /\ \A i \in DOMAIN applied[s] : Re(s, applied[s][i]) # Re(s, Last(s))
    BY DEF AnswerIsLast
  <2>1. applied \in [Side -> Seq(Nat)] /\ applied[s] \in Seq(Nat) /\ Len(applied[s]) \in Nat
    <3>1. applied \in [Side -> Seq(Nat)]
      BY <1>1 DEF Typed, TypeOK
    <3>2. applied[s] \in Seq(Nat)
      BY <3>1
    <3> QED
      BY <3>1, <3>2
  <2>2. PICK u \in Side : \E m : Releases(u, m)
    BY <1>1, <2>1, StepHands
  <2>3. PICK m : Releases(u, m)
    BY <2>2
  <2> DEFINE apt == m.type = "answer" /\ m.re = outstanding[u]
  <2>4. /\ m \in Message /\ m.conn = Other(u) /\ Says(m)
        /\ applied' = IF m.type = "offer" \/ apt
                      THEN [applied EXCEPT ![u] = Append(applied[u], m.seq)] ELSE applied
    BY <2>3 DEF Releases, Release
  <2>5. u = s /\ (m.type = "offer" \/ apt)
    BY <2>1, <2>4
  <2>6. Last(s) = m.seq
    <3>1. m.seq \in Nat
      BY <2>4 DEF Message
    <3>2. applied'[s] = Append(applied[s], m.seq)
      BY <2>1, <2>4, <2>5
    <3> QED
      BY <2>1, <3>1, <3>2
  <2>7. m.re = Re(s, Last(s)) /\ sent[Other(s)][m.seq].type = m.type
    BY <2>4, <2>5, <2>6 DEF Says
  <2>8. apt
    <3> SUFFICES ASSUME m.type = "offer" PROVE FALSE
      BY <2>5
    <3>1. Other(s) \in Side /\ m.seq \in 1..Len(sent[Other(s)])
      BY <2>4, <2>5, ConstantsAssumption DEF Says
    <3>2. m.seq \in DOMAIN sent[Other(s)]
      <4>1. sent[Other(s)] \in Seq(Item)
        BY <1>1, <3>1 DEF Typed, TypeOK, Item
      <4> QED
        BY <3>1, <4>1
    <3>3. sent[Other(s)][m.seq].re = 0
      BY <1>1, <2>7, <3>1, <3>2 DEF Line, SentAnswers
    <3> QED
      BY <2>6, <3>3
  <2>9. outstanding[s] = Re(s, Last(s)) /\ outstanding[s] # 0
    BY <2>5, <2>7, <2>8
  <2> QED
    BY <1>1, <2>9 DEF Line, Outstanding
<1>2. Typed /\ Line /\ [Next]_vars => [\A s \in Side : AnswerIsLast(s)]_vars
  BY <1>1
<1> QED
  BY <1>2, Invariance, PTL DEF Spec, AnswersTheLastOffer
=============================================================================
