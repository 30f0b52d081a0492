------------------------------ MODULE SlotPair ------------------------------
(***************************************************************************)
(* Two devices that agree on one connection: src/slot-peer.ts at both ends *)
(* and the table of src/peer-generation.ts between them.                   *)
(*                                                                         *)
(* Each device opens a generation (a connection with its four slots, and an *)
(* offer), answers the far end's, or gives way when both did at once.       *)
(* Everything a SlotPeer does runs on one queue of asynchronous operations, *)
(* #operations; an operation is one step here, since only calls that append *)
(* to the queue come between the two halves of one.                        *)
(*                                                                         *)
(* The channel is the one SignalChannel.tla models in detail.  Here it is    *)
(* what that module shows it to be: numbered, acknowledged, repeated until  *)
(* acked, in order.  A signal that comes ahead of its turn is binding and   *)
(* acknowledging and then waits to be repeated.                             *)
(*                                                                         *)
(* Left out: media in the slots, the handover of a retiring connection,     *)
(* `health', the downgrade to profile 1, and close().                      *)
(***************************************************************************)
EXTENDS Naturals, Sequences

CONSTANTS
  Device,      \* the two devices of the pair
  Polite,      \* the one whose key is the lower
  NoSession,   \* nothing has been negotiated on this connection
  NoSignal,    \* an operation that is about no signal
  Asks,        \* what disturbs the pair: "rebuild", "heal", "disconnect"
  MaxAsks,     \* a bound on how often something does
  Candidates,  \* the connections, by device and generation, that gather a candidate
  Backlog      \* a bound on the operations waiting when a call comes from outside

None == 0  \* no connection, no sequence number
Far(d) == CHOOSE e \in Device : e # d
Higher(m, n) == IF m > n THEN m ELSE n

ASSUME PairAssumption ==
  /\ \E e \in Device : e # Polite /\ Device = {Polite, e}
  /\ Asks \subseteq {"rebuild", "heal", "disconnect"} /\ MaxAsks \in Nat
  /\ Candidates \subseteq Device \X Nat
  /\ Backlog \in Nat \ {0}

Body == [type: {"offer", "answer", "ice", "ack", "sync"}, seq: Nat, re: Nat, slots: BOOLEAN]

\* A body as the channel stamps it; `to' is peerConn.  Connections of a device are
\* numbered as it makes them, None in `to' is a channel that is not bound yet.
Signal == [from: Device, gen: Nat, conn: Nat, to: Nat, ack: Nat,
           type: {"offer", "answer", "ice", "ack", "sync"}, seq: Nat, re: Nat, slots: BOOLEAN]

\* What a connection has negotiated: whose offer, by its seq, did it open a generation,
\* with which remote connection, and of what generation was the signal that brought it.
Session == [offerer: Device, seq: Nat, slots: BOOLEAN, far: Nat, gen: Nat]

ASSUME SessionAssumption == NoSession \notin Session

Operation == [do: {"start", "open", "restart", "offer", "handle", "deliver"},
              signal: Signal \cup {NoSignal}]

VARIABLES
  peer,    \* the SlotPeer of each device, with its connection and its channel
  tasks,   \* #operations: what is queued and has not run
  relay,   \* the signals first published, each may arrive at any time and more than once
  asked,   \* how often a rebuild or a restart was asked for
  strayed  \* history: an offer was made inside a generation, or an operation released
           \*  by the channel of one generation ran on the connection of another

vars == <<peer, tasks, relay, asked, strayed>>

Peer ==
  [gen: Nat, seen: Nat,            \* #gen, #lastRemoteGen
   made: Nat, conn: Nat,           \* connections made so far; the current one
   opener: BOOLEAN,                \* #opener: did this side create the slots?
   offered: BOOLEAN,               \* is the connection in have-local-offer?
   opening: Nat,                   \* #openingOfferSeq
   session: Session \cup {NoSession},
   gathered: BOOLEAN,
   to: Nat, sent: Nat, queue: SUBSET Body, expected: Nat \ {0}, outstanding: Nat]  \* #channel

Unopened == [gen |-> 0, seen |-> 0, made |-> 0, conn |-> None, opener |-> FALSE,
             offered |-> FALSE, opening |-> None, session |-> NoSession, gathered |-> FALSE,
             to |-> None, sent |-> 0, queue |-> {}, expected |-> 1, outstanding |-> None]

Init ==
  /\ peer = [d \in Device |-> Unopened]
  /\ tasks = [d \in Device |-> <<>>]
  /\ relay = {}
  /\ asked = 0
  /\ strayed = FALSE

-----------------------------------------------------------------------------
(* Connections and their channels *)

NextGeneration(p) == Higher(p.gen, p.seen) + 1

\* #teardownConnection, #build and #openChannel: the old channel and all it had queued
\* are gone, the new one starts at 1, or at the offer it answers.
Connection(p, gen, opener, to, expected) ==
  [Unopened EXCEPT !.gen = gen, !.seen = p.seen, !.made = p.made + 1, !.conn = p.made + 1,
                   !.opener = opener, !.to = to, !.expected = expected]

Stamped(d, p, body) ==
  [from |-> d, gen |-> p.gen, conn |-> p.conn, to |-> p.to, ack |-> p.expected - 1,
   type |-> body.type, seq |-> body.seq, re |-> body.re, slots |-> body.slots]

Bare(type) == [type |-> type, seq |-> 0, re |-> 0, slots |-> FALSE]

\* SignalChannel.send: p after it, and what it publishes.
Queued(p, type, re, slots) ==
  [p EXCEPT !.sent = @ + 1,
            !.queue = @ \cup {[type |-> type, seq |-> p.sent + 1, re |-> re, slots |-> slots]},
            !.outstanding = IF type = "offer" THEN p.sent + 1 ELSE @]
Latest(d, p) == {Stamped(d, p, b) : b \in {c \in p.queue : c.seq = p.sent}}

\* #offer, after createOffer and setLocalDescription.
Offering(p, opening) ==
  [Queued(p, "offer", 0, opening) EXCEPT !.offered = TRUE,
                                         !.opening = IF opening THEN p.sent + 1 ELSE None]

-----------------------------------------------------------------------------
(* The queue of operations *)

Do(do) == [do |-> do, signal |-> NoSignal]
About(do, s) == [do |-> do, signal |-> s]

\* The operation at the head of d's queue ends: its SlotPeer becomes p, it published
\* `published' and queued `more' behind whatever waits.
Finish(d, p, published, more) ==
  /\ peer' = [peer EXCEPT ![d] = p]
  /\ relay' = relay \cup published
  /\ tasks' = [tasks EXCEPT ![d] = Tail(@) \o more]
  /\ UNCHANGED asked

Enqueue(d, op) ==
  /\ Len(tasks[d]) < Backlog
  /\ tasks' = [tasks EXCEPT ![d] = Append(@, op)]

-----------------------------------------------------------------------------
(* Opening and answering a generation *)

OpenGeneration(d, p, gen) ==
  LET q == Offering(Connection(p, gen, TRUE, None, 1), TRUE)
  IN Finish(d, q, Latest(d, q), <<>>)

\* SignalChannel.receive, for a signal of another generation, connection or address.
ReceiveOlder(d, p, s) ==
  /\ s.gen < p.gen
  /\ Finish(d, p, {Stamped(d, [p EXCEPT !.to = None, !.expected = 1], Bare("sync"))}, <<>>)
ReceiveNewer(d, p, s) ==
  /\ s.gen > p.gen
  /\ Finish(d, p, {}, <<>>)  \* an offer of a newer generation does not get here
Addressed(p, s) == s.gen = p.gen /\ s.to \in {None, p.conn}
ReceiveMisaddressed(d, p, s) ==
  /\ s.gen = p.gen /\ ~Addressed(p, s)
  /\ Finish(d, p, {}, <<>>)
ReceiveForeign(d, p, s) ==
  /\ Addressed(p, s) /\ p.to \notin {None, s.conn}
  /\ Finish(d, p, {}, <<Do("open")>>)

\* p once it is bound to the sender and has taken its ack.
\* Mutant: an ack of the offer settles it.
HeardClearingOffer(p, s) ==
  [p EXCEPT !.to = s.conn, !.queue = {b \in @ : b.seq > s.ack},
            !.outstanding = IF @ <= s.ack THEN None ELSE @]
Heard(p, s) == [p EXCEPT !.to = s.conn, !.queue = {b \in @ : b.seq > s.ack}]
Bound(p, s) == Addressed(p, s) /\ p.to \in {None, s.conn}

ReceiveUnnumbered(d, p, s) ==
  /\ Bound(p, s) /\ s.type \in {"ack", "sync"}
  /\ Finish(d, Heard(p, s), {}, <<>>)
ReceiveDuplicate(d, p, s) ==
  /\ Bound(p, s) /\ s.type \notin {"ack", "sync"} /\ s.seq < p.expected
  /\ Finish(d, Heard(p, s), {}, <<>>)  \* and an ack at once, see ArriveAck
ReceiveEarly(d, p, s) ==
  /\ Bound(p, s) /\ s.type \notin {"ack", "sync"} /\ s.seq > p.expected
  /\ Finish(d, Heard(p, s), {}, <<>>)

\* #release: an answer to anything but the outstanding offer is consumed.
Released(p, s) ==
  LET q == [Heard(p, s) EXCEPT !.expected = s.seq + 1]
  IN IF s.type = "answer" /\ s.re = p.outstanding
     THEN [q EXCEPT !.queue = {b \in @ : b.seq > s.re}, !.outstanding = None]
     ELSE q
ReceiveNext(d, p, s) ==
  /\ Bound(p, s) /\ s.type \notin {"ack", "sync"} /\ s.seq = p.expected
  /\ Finish(d, Released(p, s), {},
            IF s.type = "answer" /\ s.re # p.outstanding THEN <<>> ELSE <<About("deliver", s)>>)

Receive(d, p, s) ==
  \/ ReceiveOlder(d, p, s) \/ ReceiveNewer(d, p, s) \/ ReceiveMisaddressed(d, p, s)
  \/ ReceiveForeign(d, p, s) \/ ReceiveUnnumbered(d, p, s) \/ ReceiveDuplicate(d, p, s)
  \/ ReceiveEarly(d, p, s) \/ ReceiveNext(d, p, s)

\* #answer: a fresh connection without slots of its own, and the offer through its channel.
Answer(d, p, s) == Receive(d, Connection(p, s.gen, FALSE, s.conn, s.seq), s)

-----------------------------------------------------------------------------
(* #handleSignal *)

Outstanding(p) ==
  CASE p.outstanding = None -> "none"
    [] p.outstanding # None /\ p.outstanding = p.opening -> "opening"
    [] OTHER -> "in-generation"

\* Mutants: without amendment A1; without politeness, in two ways.
GlareWithoutA1(d, p, s) == IF d = Polite THEN "rollback" ELSE "ignore"
GlareYielding(d, p, s) ==
  IF Outstanding(p) = "opening" /\ s.slots THEN "rebuild-connection" ELSE "rollback"
GlareStubborn(d, p, s) == "ignore"

\* decideOffer, for two offers in one generation.
Glare(d, p, s) ==
  CASE d # Polite -> "ignore"
    [] d = Polite /\ Outstanding(p) = "opening" /\ s.slots -> "rebuild-connection"
    [] OTHER -> "rollback"

Decision(d, p, s) ==
  CASE s.gen < p.gen -> "sync"
    [] s.gen > p.gen -> "adopt"
    [] s.gen = p.gen /\ Outstanding(p) # "none" -> Glare(d, p, s)
    [] s.gen = p.gen /\ Outstanding(p) = "none" /\ p.to \notin {None, s.conn} -> "rebuild-generation"
    [] OTHER -> "negotiate"

\* The local offer is taken back, from the connection and from the channel.
RolledBack(p) ==
  [p EXCEPT !.offered = FALSE, !.opening = None, !.outstanding = None,
            !.queue = {b \in @ : b.seq # p.outstanding}]

HandleUnopened(d, p, s) ==
  /\ p.conn = None
  /\ \/ s.type = "offer" /\ s.slots /\ Answer(d, p, s)
     \/ ~(s.type = "offer" /\ s.slots) /\ Finish(d, p, {}, <<>>)

HandleOffer(d, p, s) ==
  /\ p.conn # None /\ s.type = "offer"
  /\ \/ /\ s.gen = p.gen /\ ~Addressed(p, s)
        /\ Finish(d, p, {}, <<>>)
     \/ /\ s.gen = p.gen => Addressed(p, s)
        /\ LET decision == Decision(d, p, s)
           IN \/ decision = "ignore" /\ Finish(d, p, {}, <<>>)
              \/ decision = "rebuild-connection" /\ s.to # None /\ OpenGeneration(d, p, NextGeneration(p))
              \/ decision = "rebuild-connection" /\ s.to = None /\ Answer(d, p, s)
              \/ decision = "rollback" /\ Receive(d, RolledBack(p), s)
              \/ decision = "rebuild-generation" /\ OpenGeneration(d, p, p.gen + 1)
              \/ decision = "adopt" /\ s.slots /\ Answer(d, p, s)
              \/ decision = "adopt" /\ ~s.slots /\ Finish(d, p, {}, <<>>)
              \/ decision \in {"sync", "negotiate"} /\ Receive(d, p, s)

HandleOther(d, p, s) == p.conn # None /\ s.type # "offer" /\ Receive(d, p, s)

Handle(d, s) ==
  LET p == [peer[d] EXCEPT !.seen = Higher(@, s.gen)]
  IN HandleUnopened(d, p, s) \/ HandleOffer(d, p, s) \/ HandleOther(d, p, s)

-----------------------------------------------------------------------------
(* #deliver: what the channel released, on the connection there is by then *)

\* setRemoteDescription(offer) takes an offer of ours back by itself.
ApplyOffer(d, s) ==
  LET p == [peer[d] EXCEPT !.offered = FALSE,
                           !.session = [offerer |-> s.from, seq |-> s.seq, slots |-> s.slots,
                                        far |-> s.conn, gen |-> s.gen]]
      q == Queued(p, "answer", s.seq, FALSE)
  IN Finish(d, q, Latest(d, q), <<>>)

ApplyAnswer(d, s) ==
  \/ /\ peer[d].offered
     /\ Finish(d, [peer[d] EXCEPT !.offered = FALSE, !.opening = None,
                     !.session = [offerer |-> d, seq |-> s.re, slots |-> s.re = peer[d].opening,
                                  far |-> s.conn, gen |-> s.gen]], {}, <<>>)
  \/ /\ ~peer[d].offered
     /\ Finish(d, peer[d], {}, <<>>)

ApplyIce(d) == Finish(d, peer[d], {}, <<>>)

Deliver(d, s) ==
  \/ s.type = "offer" /\ ApplyOffer(d, s)
  \/ s.type = "answer" /\ ApplyAnswer(d, s)
  \/ s.type = "ice" /\ ApplyIce(d)

-----------------------------------------------------------------------------
(* The operations, one at a time *)

\* start(): the first call opens, unless the far end's offer was quicker.
Start(d) ==
  \/ peer[d].conn = None /\ OpenGeneration(d, peer[d], NextGeneration(peer[d]))
  \/ peer[d].conn # None /\ Finish(d, peer[d], {}, <<>>)

\* healStalledNegotiation(), then #restartIce: an offer inside the generation.
Restart(d) ==
  \/ peer[d].conn = None /\ Finish(d, peer[d], {}, <<>>)
  \/ peer[d].conn # None /\ Finish(d, peer[d], {}, <<Do("offer")>>)
OfferAgain(d) ==
  LET q == Offering(peer[d], FALSE)
  IN Finish(d, q, Latest(d, q), <<>>)

\* What #enqueue runs is not bound to the connection it was queued for, and a
\* restart offers once more on a connection that has its four lines.
Strays(d) ==
  LET op == Head(tasks[d])
  IN op.do = "offer" \/ (op.do = "deliver" /\ op.signal.gen # peer[d].gen)

Run(d) ==
  /\ tasks[d] # <<>>
  /\ LET op == Head(tasks[d])
     IN \/ op.do = "start" /\ Start(d)
        \/ op.do = "open" /\ OpenGeneration(d, peer[d], NextGeneration(peer[d]))
        \/ op.do = "restart" /\ Restart(d)
        \/ op.do = "offer" /\ OfferAgain(d)
        \/ op.do = "handle" /\ Handle(d, op.signal)
        \/ op.do = "deliver" /\ Deliver(d, op.signal)
  /\ strayed' = (strayed \/ Strays(d))

-----------------------------------------------------------------------------
(* What comes from outside *)

\* The mesh publishes tracks to the pair for the first time.
CallStart(d) ==
  /\ peer[d].conn = None /\ tasks[d] = <<>>
  /\ Enqueue(d, Do("start"))
  /\ UNCHANGED <<peer, relay, asked, strayed>>

\* The ladder's steps 1 and 2, and a connection between two sessions that loses its path.
Ask(d, do) ==
  /\ asked < MaxAsks /\ peer[d].conn # None
  /\ Enqueue(d, Do(do))
  /\ asked' = asked + 1
  /\ UNCHANGED <<peer, relay, strayed>>
AskRebuild(d) == "rebuild" \in Asks /\ Ask(d, "open")
AskHeal(d) == "heal" \in Asks /\ Ask(d, "restart")
Disconnect(d) ==
  /\ "disconnect" \in Asks /\ \A e \in Device : peer[e].session # NoSession
  /\ Ask(d, "offer")

\* onicecandidate, once for each connection; not before there is a description.
Gather(d) ==
  /\ <<d, peer[d].gen>> \in Candidates /\ peer[d].conn # None /\ ~peer[d].gathered
  /\ peer[d].offered \/ peer[d].session # NoSession
  /\ LET q == [Queued(peer[d], "ice", 0, FALSE) EXCEPT !.gathered = TRUE]
     IN /\ peer' = [peer EXCEPT ![d] = q]
        /\ relay' = relay \cup Latest(d, q)
  /\ UNCHANGED <<tasks, asked, strayed>>

\* The unacked signals, as the next retry stamps them.
Unacked(d) == {Stamped(d, peer[d], b) : b \in peer[d].queue}
Oldest(d) == {s \in Unacked(d) : \A t \in Unacked(d) : s.seq <= t.seq}

Arrive(d, s) ==
  /\ Enqueue(d, About("handle", s))
  /\ UNCHANGED <<peer, relay, asked, strayed>>
\* A publish of the past arrives, late or once more.
ArriveLate(d) == \E s \in relay : s.from = Far(d) /\ Arrive(d, s)
\* The next retry of the far end arrives.
ArriveRetried(d) == \E s \in Unacked(Far(d)) : Arrive(d, s)
\* The far end's delayed ack, or the one that answers a duplicate, arrives.
ArriveAck(d) ==
  /\ peer[Far(d)].expected > 1
  /\ Arrive(d, Stamped(Far(d), peer[Far(d)], Bare("ack")))

Next ==
  \E d \in Device :
    \/ Run(d) \/ CallStart(d) \/ AskRebuild(d) \/ AskHeal(d) \/ Disconnect(d) \/ Gather(d)
    \/ ArriveLate(d) \/ ArriveRetried(d) \/ ArriveAck(d)

Spec == Init /\ [][Next]_vars

-----------------------------------------------------------------------------
(* Properties *)

TypeOK ==
  /\ peer \in [Device -> Peer]
  /\ tasks \in [Device -> Seq(Operation)]
  /\ relay \subseteq Signal
  /\ asked \in 0..MaxAsks
  /\ strayed \in BOOLEAN

\* Both ends are in one generation and in one session, with each other's connection.
Settled ==
  \A d \in Device :
    LET p == peer[d]
        q == peer[Far(d)]
    IN /\ p.session # NoSession /\ q.session # NoSession
       /\ ~p.offered
       /\ p.gen = q.gen /\ p.session.gen = p.gen
       /\ p.session.far = q.conn
       /\ p.session.offerer = q.session.offerer /\ p.session.seq = q.session.seq

\* Nothing runs, nothing is repeated, nobody waits for an answer.
Silent ==
  \A d \in Device :
    /\ tasks[d] = <<>> /\ peer[d].conn # None
    /\ peer[d].queue = {} /\ peer[d].outstanding = None

(* A pair never falls silent before it agrees: as long as the two ends do not hold the  *)
(* same session, one of them still repeats a signal, waits for an answer or has an      *)
(* operation queued.  This is H2 of src/peer-generation.ts: two ends that believe they  *)
(* are on different connections, and neither says another word.  It is promised as long *)
(* as nothing has strayed, as are the two that follow.                                  *)
NoSilentWedge == Silent /\ ~strayed => Settled

FourLinesEver ==
  \A d \in Device :
    peer[d].session # NoSession /\ peer[d].opener =>
      ~(peer[d].session.offerer # d /\ peer[d].session.slots)

(* A device that created slots never applies the far end's opening offer on that        *)
(* connection, which would give it eight m-lines (amendment A1, decideOffer and the     *)
(* comment of #openGeneration).                                                         *)
FourLines == ~strayed => FourLinesEver

(* The impolite end gives its connection up only for a higher generation: in a glare    *)
(* the polite one gives way and exactly one of the two offers survives.                 *)
ImpoliteKeepsItsConnection ==
  [][\A d \in Device \ {Polite} : peer'[d].conn # peer[d].conn => peer'[d].gen > peer[d].gen]_vars

(* "Nothing that was in flight for the old connection can reach the new one"            *)
(* (slot-peer.ts, of #teardownConnection): what a connection has negotiated came from   *)
(* signals of its own generation.                                                       *)
SessionOfThisGeneration ==
  \A d \in Device : peer[d].session # NoSession => peer[d].session.gen = peer[d].gen

(* "In-order idempotent delivery" (src/signal-channel.ts): another copy of a signal     *)
(* this end has already passed on changes nothing it has proposed itself.               *)
CopiesAreIdempotent ==
  [][\A d \in Device :
       /\ tasks[d] # <<>> /\ tasks'[d] = Tail(tasks[d]) /\ Head(tasks[d]).do = "handle"
       /\ LET p == peer[d]
              s == Head(tasks[d]).signal
          IN s.gen = p.gen /\ s.conn = p.to /\ s.seq < p.expected /\ s.type = "offer"
       => peer'[d].outstanding = peer[d].outstanding /\ peer'[d].offered = peer[d].offered]_vars

-----------------------------------------------------------------------------
(* Progress.  Promises settle, so every operation runs; the owner starts the pair; the  *)
(* retry timer repeats the oldest unacked signal for ever and the relay does not lose   *)
(* every copy of it.                                                                    *)
Reaches(d) == \E s \in Oldest(Far(d)) : Arrive(d, s)
FairSpec ==
  /\ Spec
  /\ \A d \in Device :
       /\ WF_vars(Run(d)) /\ WF_vars(CallStart(d)) /\ SF_vars(Reaches(d))

(* In the end both ends agree and stay with it, whoever opened or rebuilt first: what   *)
(* the numbering of generations is for.                                                 *)
Settles == <>[](Settled \/ strayed)
=============================================================================
