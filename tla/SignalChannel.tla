--------------------------- MODULE SignalChannel ---------------------------
(***************************************************************************)
(* The reliable signalling channel of one WebRTC connection,              *)
(* src/signal-channel.ts.  Two devices hold one SignalChannel object each, *)
(* at the same generation; each object is the sender of one direction and  *)
(* the receiver of the other.  The relay between them loses, repeats and   *)
(* reorders.                                                               *)
(*                                                                         *)
(* What a signal says (SDP, candidates) is abstracted to the numbers it    *)
(* stands for: `carries' is the set of sequence numbers whose content is   *)
(* inside the message.  A signal without a seq (profile 1) is left out.    *)
(* A call of receive() is one atomic turn of the JavaScript event loop; its *)
(* release loop is a run of steps during which nothing else moves.         *)
(***************************************************************************)
EXTENDS Naturals, Sequences, FiniteSets

CONSTANTS
  Side,         \* the two devices of the pair
  Other(_),     \* the far end
  Conn,         \* connection ids: one for each device, and those of other connections
  Unbound,      \* no remote connection is known yet
  Nobody,       \* no receive() is running
  Strays,       \* signals of other connections and generations the relay may bring
  MaxSends,     \* [Side -> Nat]: a bound on the signals a side sends
  MaxWire,      \* a bound on the copies the relay holds at once
  MaxAttempt,   \* where the backoff stops doubling
  BufferLimit,  \* MAX_BUFFERED_SIGNALS
  Interleave,   \* may a description be sent while a candidate is unacked?
  Acts          \* the optional calls the owner makes, see Next

Descriptions == {"offer", "answer"}
Sequenced == Descriptions \cup {"ice"}
SignalType == Sequenced \cup {"ack", "sync", "health"}
OptionalActs == {"health", "drop", "reconnect", "close"}

\* The connection of a device is named after the device.
Message == [gen: {"older", "current", "newer"}, conn: Conn, to: Conn \cup {Unbound},
            type: SignalType, seq: Nat, first: Nat, carries: SUBSET Nat, ack: Nat, re: Nat]

ASSUME ConstantsAssumption ==
  /\ \A s \in Side : Other(s) \in Side \ {s} /\ Other(Other(s)) = s
  /\ Side \subseteq Conn /\ Unbound \notin Conn /\ Nobody \notin Side
  /\ MaxSends \in [Side -> Nat]
  /\ MaxWire \in Nat /\ MaxAttempt \in Nat \ {0} /\ BufferLimit \in Nat \ {0}
  /\ Interleave \in BOOLEAN /\ Acts \subseteq OptionalActs
  /\ Strays \subseteq Message
  /\ \A m \in Strays : m.gen = "current" => m.conn \notin Side \/ m.to \notin Side \cup {Unbound}

VARIABLES
  sent,        \* sent[s][k]: what s gave to send() under seq k; its length is #outSeq
  queue,       \* the seqs of #queue, unacked
  attempt,     \* #attempt
  retryTimer,  \* is #retryTimer armed?
  outstanding, \* #outstandingOffer, 0 for none
  peerConn,    \* #peerConn
  expected,    \* #expected
  buffer,      \* #buffer, in its insertion order
  ackTimer,    \* is #ackTimer armed?
  syncReady,   \* has SYNC_INTERVAL_MS passed since the last sync?
  closed,      \* #closed
  wire,        \* the copies the relay can still hand over
  releasing,   \* the side whose receive() is in its release loop, or Nobody
  got,         \* history: the seqs s released or found inside a released batch
  applied,     \* history: the seqs of the descriptions handed to s's negotiator
  told,        \* history: the highest ack s ever published
  dropped      \* history: the seqs s gave up with drop()

senderVars   == <<queue, attempt, retryTimer, outstanding>>
receiverVars == <<expected, buffer, releasing, got, applied>>
ackVars      == <<ackTimer, told>>
vars == <<sent, senderVars, peerConn, receiverVars, ackVars, syncReady, closed, wire, dropped>>

Init ==
  /\ sent = [s \in Side |-> <<>>]
  /\ queue = [s \in Side |-> {}]
  /\ attempt = [s \in Side |-> 0]
  /\ retryTimer = [s \in Side |-> FALSE]
  /\ outstanding = [s \in Side |-> 0]
  /\ peerConn = [s \in Side |-> Unbound]
  /\ expected = [s \in Side |-> 1]
  /\ buffer = [s \in Side |-> <<>>]
  /\ ackTimer = [s \in Side |-> FALSE]
  /\ syncReady = [s \in Side |-> TRUE]
  /\ closed = [s \in Side |-> FALSE]
  /\ wire = {}
  /\ releasing = Nobody
  /\ got = [s \in Side |-> {}]
  /\ applied = [s \in Side |-> <<>>]
  /\ told = [s \in Side |-> 0]
  /\ dropped = [s \in Side |-> {}]

-----------------------------------------------------------------------------
(* Publishing *)

\* The body stamped with this side's identity and everything it has received.
Stamped(s, type, first, seq, carries, re) ==
  [gen |-> "current", conn |-> s, to |-> peerConn[s], type |-> type, seq |-> seq,
   first |-> first, carries |-> carries, ack |-> expected[s] - 1, re |-> re]

Single(s, k, item) == Stamped(s, item.type, k, k, {k}, item.re)
Ack(s) == Stamped(s, "ack", 0, 0, {}, 0)

\* The relay: any copy, old or just published, may be lost; none is consumed by
\* being handed over, and the order is free.
Carry(out) == wire' \in {w \in SUBSET (wire \cup out) : Cardinality(w) <= MaxWire}

\* #publish of every body in out: the ack they carry settles the one owed.
Publish(s, out) ==
  /\ Carry(out)
  /\ IF expected[s] > 1 /\ out # {}
     THEN /\ told' = [told EXCEPT ![s] = expected[s] - 1]
          /\ ackTimer' = [ackTimer EXCEPT ![s] = FALSE]
     ELSE UNCHANGED ackVars

\* What #flush republishes: descriptions one by one, every unacked candidate
\* inside one batch that covers the range from the first to the last of them.
Flush(s) ==
  LET ices == {k \in queue[s] : sent[s][k].type = "ice"}
      lo == CHOOSE k \in ices : \A j \in ices : k <= j
      hi == CHOOSE k \in ices : \A j \in ices : j <= k
  IN {Single(s, k, sent[s][k]) : k \in queue[s] \ ices}
     \cup (IF ices = {} THEN {} ELSE {Stamped(s, "ice", lo, hi, ices, 0)})

\* Slip: any acknowledgement stops the retry timer.
QueueBecomesQuietly(s, left) ==
  /\ queue' = [queue EXCEPT ![s] = left]
  /\ IF left # queue[s]
     THEN /\ attempt' = [attempt EXCEPT ![s] = 0]
          /\ retryTimer' = [retryTimer EXCEPT ![s] = FALSE]
     ELSE UNCHANGED <<attempt, retryTimer>>

\* The queue becomes left: emptied, it resets the backoff and stops the timer.
QueueBecomes(s, left) ==
  /\ queue' = [queue EXCEPT ![s] = left]
  /\ IF left = {} /\ queue[s] # {}
     THEN /\ attempt' = [attempt EXCEPT ![s] = 0]
          /\ retryTimer' = [retryTimer EXCEPT ![s] = FALSE]
     ELSE UNCHANGED <<attempt, retryTimer>>

\* Slip: an ack of n read as "I wait for n".
UnackedBelow(s, n) == {k \in queue[s] : k > n + 1}

Unacked(s, n) == {k \in queue[s] : k > n}

-----------------------------------------------------------------------------
(* The owner's calls *)

Idle(s) == releasing = Nobody /\ ~closed[s]

\* The offers handed to s that s has not answered.
Answerable(s) ==
  {q \in 1..Len(sent[Other(s)]) :
     /\ \E i \in DOMAIN applied[s] : applied[s][i] = q
     /\ sent[Other(s)][q].type = "offer"
     /\ \A k \in DOMAIN sent[s] : sent[s][k].re # q}

Items(s) ==
  {[type |-> "offer", re |-> 0], [type |-> "ice", re |-> 0]}
  \cup {[type |-> "answer", re |-> q] : q \in Answerable(s)}

Send(s, item) ==
  LET k == Len(sent[s]) + 1
  IN /\ Idle(s)
     /\ Len(sent[s]) < MaxSends[s]
     /\ item.type \in Descriptions /\ ~Interleave =>
          \A j \in queue[s] : sent[s][j].type # "ice"
     /\ sent' = [sent EXCEPT ![s] = Append(@, item)]
     /\ queue' = [queue EXCEPT ![s] = @ \cup {k}]
     /\ outstanding' = IF item.type = "offer" THEN [outstanding EXCEPT ![s] = k] ELSE outstanding
     /\ retryTimer' = [retryTimer EXCEPT ![s] = TRUE]
     /\ Publish(s, {Single(s, k, item)})
     /\ UNCHANGED <<attempt, peerConn, receiverVars, syncReady, closed, dropped>>

SendUnreliable(s) ==
  /\ Idle(s)
  /\ Publish(s, {Stamped(s, "health", 0, 0, {}, 0)})
  /\ UNCHANGED <<sent, senderVars, peerConn, receiverVars, syncReady, closed, dropped>>

\* The negotiation that opened the generation ended before s sent offer k: s
\* answered it, or saw its own offer answered.
InGeneration(s, k) ==
  \/ \E j \in 1..(k - 1) : sent[s][j].type = "answer"
  \/ \E i \in DOMAIN applied[s] : sent[Other(s)][applied[s][i]].type = "answer"

\* A new offer of the far end meets an in-generation offer of ours: the polite side
\* gives up its own (slot-peer.ts, 'rollback').
Drop(s) ==
  LET k == outstanding[s]
  IN /\ Idle(s)
     /\ k # 0 /\ InGeneration(s, k)
     /\ \E m \in wire : /\ m.type = "offer" /\ m.conn = peerConn[s] /\ m.to \in {Unbound, s}
                        /\ m.seq >= expected[s]
     /\ QueueBecomes(s, queue[s] \ {k})
     /\ outstanding' = [outstanding EXCEPT ![s] = 0]
     /\ dropped' = [dropped EXCEPT ![s] = @ \cup {k}]
     /\ UNCHANGED <<sent, peerConn, receiverVars, ackVars, syncReady, closed, wire>>

\* Slip: the retry fires once.
RetryFireOnce(s) ==
  /\ Idle(s)
  /\ retryTimer[s]
  /\ Publish(s, Flush(s))
  /\ retryTimer' = [retryTimer EXCEPT ![s] = FALSE]
  /\ UNCHANGED <<sent, queue, attempt, outstanding, peerConn, receiverVars, syncReady, closed,
                 dropped>>

\* Slip: the backoff doubles without end.
RetryFireUncapped(s) ==
  /\ Idle(s)
  /\ retryTimer[s]
  /\ attempt[s] <= MaxAttempt
  /\ Publish(s, Flush(s))
  /\ attempt' = [attempt EXCEPT ![s] = @ + 1]
  /\ UNCHANGED <<sent, queue, retryTimer, outstanding, peerConn, receiverVars, syncReady, closed,
                 dropped>>

\* A backoff step passes: republish and wait longer.
RetryFire(s) ==
  /\ Idle(s)
  /\ retryTimer[s]
  /\ Publish(s, Flush(s))
  /\ IF queue[s] = {}
     THEN retryTimer' = [retryTimer EXCEPT ![s] = FALSE] /\ UNCHANGED attempt
     ELSE /\ attempt' = [attempt EXCEPT ![s] = IF @ < MaxAttempt THEN @ + 1 ELSE @]
          /\ retryTimer' = [retryTimer EXCEPT ![s] = TRUE]
  /\ UNCHANGED <<sent, queue, outstanding, peerConn, receiverVars, syncReady, closed, dropped>>

AckFire(s) ==
  /\ Idle(s)
  /\ ackTimer[s]
  /\ ackTimer' = [ackTimer EXCEPT ![s] = FALSE]
  /\ Carry({Ack(s)})
  /\ told' = [told EXCEPT ![s] = expected[s] - 1]
  /\ UNCHANGED <<sent, senderVars, peerConn, receiverVars, syncReady, closed, dropped>>

\* retransmitNow(), without the ack, and reconnected(), with it: neither charges
\* a backoff step.
Republish(s, out) ==
  /\ Idle(s)
  /\ out # {}
  /\ Publish(s, out)
  /\ retryTimer' = [retryTimer EXCEPT ![s] = @ \/ queue[s] # {}]
  /\ UNCHANGED <<sent, queue, attempt, outstanding, peerConn, receiverVars, syncReady,
                 closed, dropped>>

RetransmitNow(s) == Republish(s, Flush(s))
Reconnected(s) == Republish(s, Flush(s) \cup (IF expected[s] > 1 THEN {Ack(s)} ELSE {}))

Close(s) ==
  /\ Idle(s)
  /\ closed' = [closed EXCEPT ![s] = TRUE]
  /\ queue' = [queue EXCEPT ![s] = {}]
  /\ buffer' = [buffer EXCEPT ![s] = <<>>]
  /\ outstanding' = [outstanding EXCEPT ![s] = 0]
  /\ retryTimer' = [retryTimer EXCEPT ![s] = FALSE]
  /\ ackTimer' = [ackTimer EXCEPT ![s] = FALSE]
  /\ UNCHANGED <<sent, attempt, peerConn, expected, releasing, got, applied, told, syncReady,
                 wire, dropped>>

-----------------------------------------------------------------------------
(* receive() *)

\* Signals that can be handed to s.  A foreign connection of this generation can
\* address s only after s's conn id reached the device, by when s is bound.
Arriving(s) == {m \in wire : m.conn = Other(s)}
               \cup {m \in Strays : m.conn # s /\ (m.gen # "current" \/ peerConn[s] # Unbound)}

OlderGeneration(m) == m.gen = "older"

\* At our generation, addressed to this connection or to nobody yet, and from
\* the connection this channel is bound to, if it is bound.
Ours(s, m) ==
  /\ m.gen = "current"
  /\ m.to \in {Unbound, s}
  /\ peerConn[s] \in {Unbound, m.conn}

\* An older generation is told ours, at most once per SYNC_INTERVAL_MS.  The
\* sync bypasses #publish: it is not addressed and carries no ack.
ReceiveOlder(s, m) ==
  /\ Idle(s)
  /\ OlderGeneration(m)
  /\ syncReady[s]
  /\ syncReady' = [syncReady EXCEPT ![s] = FALSE]
  /\ Carry({[gen |-> "current", conn |-> s, to |-> Unbound, type |-> "sync", seq |-> 0,
             first |-> 0, carries |-> {}, ack |-> 0, re |-> 0]})
  /\ UNCHANGED <<sent, senderVars, peerConn, receiverVars, ackVars, closed, dropped>>

SyncWindowOver(s) ==
  /\ releasing = Nobody
  /\ ~syncReady[s]
  /\ syncReady' = [syncReady EXCEPT ![s] = TRUE]
  /\ UNCHANGED <<sent, senderVars, peerConn, receiverVars, ackVars, closed, wire, dropped>>

\* The part every signal of this connection goes through: bind, then #ackUpTo.
Accept(s, m) ==
  /\ Idle(s)
  /\ Ours(s, m)
  /\ peerConn' = [peerConn EXCEPT ![s] = m.conn]
  /\ UNCHANGED <<sent, syncReady, closed, dropped>>

ReceiveUnsequenced(s, m) ==
  /\ Accept(s, m)
  /\ m.type \notin Sequenced
  /\ QueueBecomes(s, Unacked(s, m.ack))
  /\ UNCHANGED <<outstanding, receiverVars, ackVars, wire>>

AlreadyHere(s, m) ==
  \/ m.seq < expected[s]
  \/ m.first > expected[s] /\ \E i \in DOMAIN buffer[s] : buffer[s][i].seq = m.seq

\* Slip: a repetition is dropped in silence.
ReceiveDuplicateSilently(s, m) ==
  /\ Accept(s, m)
  /\ m.type \in Sequenced
  /\ AlreadyHere(s, m)
  /\ QueueBecomes(s, Unacked(s, m.ack))
  /\ UNCHANGED <<outstanding, receiverVars, ackVars, wire>>

\* A repetition means our ack was lost: ack at once (if there is one to give).
ReceiveDuplicate(s, m) ==
  /\ Accept(s, m)
  /\ m.type \in Sequenced
  /\ AlreadyHere(s, m)
  /\ QueueBecomes(s, Unacked(s, m.ack))
  /\ Publish(s, IF expected[s] > 1 THEN {Ack(s)} ELSE {})
  /\ UNCHANGED <<outstanding, receiverVars>>

\* Behind a hole: kept, the oldest giving way at the limit, and not acked.
ReceiveEarly(s, m) ==
  LET kept == Append(buffer[s], m)
  IN /\ Accept(s, m)
     /\ m.type \in Sequenced
     /\ m.first > expected[s]
     /\ ~AlreadyHere(s, m)
     /\ QueueBecomes(s, Unacked(s, m.ack))
     /\ buffer' = [buffer EXCEPT ![s] = IF Len(kept) > BufferLimit THEN Tail(kept) ELSE kept]
     /\ UNCHANGED <<outstanding, expected, releasing, got, applied, ackVars, wire>>

\* Slip: any answer answers.
ReleaseAnyAnswer(s, m, left) ==
  /\ expected' = [expected EXCEPT ![s] = m.seq + 1]
  /\ got' = [got EXCEPT ![s] = @ \cup m.carries]
  /\ applied' = IF m.type = "ice" THEN applied ELSE [applied EXCEPT ![s] = Append(@, m.seq)]
  /\ outstanding' = IF m.type = "answer" THEN [outstanding EXCEPT ![s] = 0] ELSE outstanding
  /\ QueueBecomes(s, left)

\* #release, with left what the signal's own ack has left in the queue.  An
\* answer to anything but the outstanding offer is consumed, not delivered.
Release(s, m, left) ==
  LET apt == m.type = "answer" /\ m.re = outstanding[s]
  IN /\ expected' = [expected EXCEPT ![s] = m.seq + 1]
     /\ got' = [got EXCEPT ![s] = @ \cup m.carries]
     /\ applied' = IF m.type = "offer" \/ apt
                   THEN [applied EXCEPT ![s] = Append(@, m.seq)] ELSE applied
     /\ outstanding' = IF apt THEN [outstanding EXCEPT ![s] = 0] ELSE outstanding
     /\ QueueBecomes(s, IF apt THEN {k \in left : k > m.re} ELSE left)

\* Slips: a repetition is released again; a hole is not waited for.
ReceiveNextAgain(s, m) ==
  /\ Accept(s, m)
  /\ m.type \in Sequenced
  /\ m.first <= expected[s]
  /\ Release(s, m, Unacked(s, m.ack))
  /\ releasing' = s
  /\ UNCHANGED <<buffer, ackVars, wire>>
ReceiveNextOverHole(s, m) ==
  /\ Accept(s, m)
  /\ m.type \in Sequenced
  /\ expected[s] <= m.seq
  /\ Release(s, m, Unacked(s, m.ack))
  /\ releasing' = s
  /\ UNCHANGED <<buffer, ackVars, wire>>

ReceiveNext(s, m) ==
  /\ Accept(s, m)
  /\ m.type \in Sequenced
  /\ m.first <= expected[s] /\ expected[s] <= m.seq
  /\ Release(s, m, Unacked(s, m.ack))
  /\ releasing' = s
  /\ UNCHANGED <<buffer, ackVars, wire>>

-----------------------------------------------------------------------------
(* The release loop of receive() *)

Without(b, i) == [j \in 1..(Len(b) - 1) |-> IF j < i THEN b[j] ELSE b[j + 1]]

Covered(s) == {i \in DOMAIN buffer[s] : buffer[s][i].seq < expected[s]}
Ready(s)   == {i \in DOMAIN buffer[s] : buffer[s][i].first <= expected[s]}

\* What a released range covers has been delivered by that range.
DiscardCovered(s) ==
  /\ releasing = s
  /\ \E i \in Covered(s) : buffer' = [buffer EXCEPT ![s] = Without(@, i)]
  /\ UNCHANGED <<sent, senderVars, peerConn, expected, releasing, got, applied, ackVars,
                 syncReady, closed, wire, dropped>>

\* The first held signal, in insertion order, that reaches back to expected.
ReleaseHeld(s) ==
  /\ releasing = s
  /\ Covered(s) = {}
  /\ \E i \in Ready(s) :
       /\ \A j \in Ready(s) : i <= j
       /\ buffer' = [buffer EXCEPT ![s] = Without(@, i)]
       /\ Release(s, buffer[s][i], queue[s])
  /\ UNCHANGED <<sent, peerConn, releasing, ackVars, syncReady, closed, wire, dropped>>

\* Slip: what this side still has to send is trusted to carry the ack.
StopReleasingLazily(s) ==
  /\ releasing = s
  /\ Covered(s) = {} /\ Ready(s) = {}
  /\ releasing' = Nobody
  /\ ackTimer' = [ackTimer EXCEPT ![s] = @ \/ queue[s] = {}]
  /\ UNCHANGED <<sent, senderVars, peerConn, expected, buffer, got, applied, told, syncReady,
                 closed, wire, dropped>>

\* Nothing more to release: #armAck ends the call.
StopReleasing(s) ==
  /\ releasing = s
  /\ Covered(s) = {} /\ Ready(s) = {}
  /\ releasing' = Nobody
  /\ ackTimer' = [ackTimer EXCEPT ![s] = TRUE]
  /\ UNCHANGED <<sent, senderVars, peerConn, expected, buffer, got, applied, told, syncReady,
                 closed, wire, dropped>>

-----------------------------------------------------------------------------
Receive(s) ==
  \E m \in Arriving(s) :
    \/ ReceiveOlder(s, m)
    \/ ReceiveUnsequenced(s, m)
    \/ ReceiveDuplicate(s, m)
    \/ ReceiveEarly(s, m)
    \/ ReceiveNext(s, m)

Loop(s) == DiscardCovered(s) \/ ReleaseHeld(s) \/ StopReleasing(s)

Next ==
  \E s \in Side :
    \/ \E item \in Items(s) : Send(s, item)
    \/ "health" \in Acts /\ SendUnreliable(s)
    \/ "drop" \in Acts /\ Drop(s)
    \/ RetryFire(s)
    \/ AckFire(s)
    \/ "reconnect" \in Acts /\ (RetransmitNow(s) \/ Reconnected(s))
    \/ "close" \in Acts /\ Close(s)
    \/ SyncWindowOver(s)
    \/ Receive(s)
    \/ Loop(s)

Spec == Init /\ [][Next]_vars

-----------------------------------------------------------------------------
(* Safety *)

\* Every variable keeps its shape.
TypeOK ==
  /\ sent \in [Side -> Seq([type : Sequenced, re : Nat])]
  /\ queue \in [Side -> SUBSET Nat]
  /\ attempt \in [Side -> 0..MaxAttempt]
  /\ retryTimer \in [Side -> BOOLEAN]
  /\ outstanding \in [Side -> Nat]
  /\ peerConn \in [Side -> Conn \cup {Unbound}]
  /\ expected \in [Side -> Nat \ {0}]
  /\ buffer \in [Side -> Seq(Message)]
  /\ ackTimer \in [Side -> BOOLEAN]
  /\ syncReady \in [Side -> BOOLEAN]
  /\ closed \in [Side -> BOOLEAN]
  /\ wire \subseteq Message
  /\ releasing \in Side \cup {Nobody}
  /\ got \in [Side -> SUBSET Nat]
  /\ applied \in [Side -> Seq(Nat)]
  /\ told \in [Side -> Nat]
  /\ dropped \in [Side -> SUBSET Nat]

\* A signal leaves the retransmission queue only when the far end has passed it
\* (or the owner dropped it): no loss, repetition, batch or crossing answer makes
\* #ackUpTo forget something the far end still waits for.
AckSound ==
  \A s \in Side : ~closed[s] =>
    \A k \in 1..Len(sent[s]) : k < expected[Other(s)] \/ k \in queue[s] \cup dropped[s]

\* What is still owed is still asked for: the retry timer runs exactly while
\* something is unacked, and an emptied queue starts again at the first step.
RetryArmed ==
  \A s \in Side : ~closed[s] =>
    /\ retryTimer[s] <=> queue[s] # {}
    /\ queue[s] = {} => attempt[s] = 0

\* Between two calls, the delayed ack is armed exactly while this side has
\* received something it has not told the far end about.
AckOwed ==
  \A s \in Side : ~closed[s] /\ releasing # s =>
    (ackTimer[s] <=> told[s] + 1 < expected[s])

\* The negotiator sees the descriptions of the far end once each, in the order
\* they were given to send(), and never one the far end did not send.
AppliedInOrder ==
  \A s \in Side :
    /\ \A i, j \in DOMAIN applied[s] : i < j => applied[s][i] < applied[s][j]
    /\ \A i \in DOMAIN applied[s] :
         /\ applied[s][i] <= Len(sent[Other(s)])
         /\ sent[Other(s)][applied[s][i]].type \in Descriptions

\* "Called once per (conn, seq), in seq order": whatever the stream has passed
\* reached this side.
PassedWasReceived ==
  \A s \in Side : \A k \in 1..(expected[s] - 1) : k \in got[s]

\* A step that hands s an answer hands it the first one to its last offer, not dropped.
AnswerIsLast(s) ==
  Len(applied'[s]) > Len(applied[s]) =>
    LET Re(q) == sent[Other(s)][q].re
        offer == Re(applied'[s][Len(applied'[s])])
    IN offer # 0 =>
         /\ offer \notin dropped[s]
         /\ \A k \in (offer + 1)..Len(sent[s]) : sent[s][k].type # "offer"
         /\ \A i \in DOMAIN applied[s] : Re(applied[s][i]) # offer

\* An answer is applied only to the last offer of this side, while that offer is
\* neither dropped nor already answered.
AnswersTheLastOffer == [][\A s \in Side : AnswerIsLast(s)]_vars

\* "The far end keeps retransmitting the hole": between two calls, while a side holds a signal behind
\* a hole, the far end still has the signal that fills it in its queue, or a copy
\* of it is under way.
HoleIsRetransmitted ==
  \A s \in Side :
    LET hole == expected[Other(s)]
    IN releasing = Nobody /\ buffer[Other(s)] # <<>> /\ ~closed[s] =>
         \/ hole \in queue[s]
         \/ \E m \in wire : m.conn = s /\ m.first <= hole /\ hole <= m.seq

-----------------------------------------------------------------------------
(* Liveness.  The relay is fair-lossy: of the publishes repeated for ever some     *)
(* reach it whole, and a copy that it can hand over again and again is at last    *)
(* handed over.                                                                  *)

RetryReaches(s) == RetryFire(s) /\ Flush(s) \subseteq wire'
RepeatedAckReaches(s) == \E m \in wire : ReceiveDuplicate(s, m) /\ Ack(s) \in wire'
NextArrives(s) == \E m \in wire : ReceiveNext(s, m)
AckArrives(s) ==
  \E m \in wire : /\ \E k \in queue[s] : k <= m.ack
                  /\ ReceiveUnsequenced(s, m) \/ ReceiveDuplicate(s, m) \/ ReceiveEarly(s, m)

Fairness ==
  \A s \in Side :
    /\ WF_vars(Loop(s))
    /\ SF_vars(RetryReaches(s))
    /\ SF_vars(RepeatedAckReaches(s))
    /\ SF_vars(NextArrives(s))
    /\ SF_vars(AckArrives(s))

FairSpec == Spec /\ Fairness

\* "Retransmission until acked": what is given to send() reaches the far end,
\* however many copies are lost.
Delivered ==
  \A s \in Side : \A k \in 1..MaxSends[s] :
    (Len(sent[s]) >= k) ~> (k \in got[Other(s)])

\* The far end's acknowledgement arrives as well, and the retransmission ends.
QueueDrains ==
  \A s \in Side : (queue[s] # {}) ~> (queue[s] = {})
=============================================================================
