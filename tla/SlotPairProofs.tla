--------------------------- MODULE SlotPairProofs ---------------------------
(***************************************************************************)
(* What two ends of a pair keep, for every number of rebuilds and restarts, *)
(* every set of candidates, however many operations wait and whatever the   *)
(* relay repeats or delays: types, and who gives a connection up.  Until an *)
(* offer is made inside a generation, or an operation runs on another       *)
(* connection than it was queued for, no connection is opened twice and the *)
(* pair never falls silent apart.                                           *)
(*                                                                         *)
(* What an operation does to its SlotPeer is one of the outcomes below,     *)
(* whatever path through #handleSignal leads to it.                         *)
(***************************************************************************)
EXTENDS SlotPair, TLAPS

AboutSignal == {"handle", "deliver"}
Ops == [do: {"start", "open", "restart", "offer"}, signal: {NoSignal}]
         \cup [do: AboutSignal, signal: Signal]

\* TypeOK, and an operation has a signal when it is about one.
Typed ==
  /\ peer \in [Device -> Peer]
  /\ tasks \in [Device -> Seq(Ops)]
  /\ relay \subseteq Signal
  /\ asked \in 0..MaxAsks
  /\ strayed \in BOOLEAN

-----------------------------------------------------------------------------
(* The operators, field by field *)

LEMMA TwoDevices ==
  /\ \A d \in Device : Far(d) \in Device /\ Far(d) # d /\ Far(Far(d)) = d
  /\ \A d, e \in Device : e # d => e = Far(d)
  /\ Polite \in Device
<1>1. PICK e \in Device : e # Polite /\ Device = {Polite, e}
  BY PairAssumption
<1>2. \A d \in Device : \E f \in Device : f # d
  BY <1>1
<1>3. \A d \in Device : Far(d) \in Device /\ Far(d) # d
  BY <1>2 DEF Far
<1> QED BY <1>1, <1>3

\* What two states of a SlotPeer share that differ in `seen' at most.
Alike(p, q) ==
  /\ q.gen = p.gen /\ q.made = p.made /\ q.conn = p.conn /\ q.opener = p.opener
  /\ q.offered = p.offered /\ q.opening = p.opening /\ q.session = p.session
  /\ q.gathered = p.gathered /\ q.to = p.to /\ q.sent = p.sent /\ q.queue = p.queue
  /\ q.expected = p.expected /\ q.outstanding = p.outstanding

LEMMA SeenIs ==
  ASSUME NEW p \in Peer, NEW n \in Nat
  PROVE  [p EXCEPT !.seen = n] \in Peer /\ Alike(p, [p EXCEPT !.seen = n])
BY DEF Peer, Alike

\* The connections and the signals that are made, without the operators' flags.
Answering(p, g, t, x) == Connection(p, g, FALSE, t, x)
Opening(p, g) == Offering(Connection(p, g, TRUE, None, 1), TRUE)
Reoffering(p) == Offering(p, FALSE)
QueuedAnswer(p, r) == Queued(p, "answer", r, FALSE)
QueuedIce(p) == Queued(p, "ice", 0, FALSE)

LEMMA AnsweringIs ==
  ASSUME NEW p, NEW g, NEW t, NEW x, NEW q, q = Answering(p, g, t, x)
  PROVE  /\ p \in Peer /\ g \in Nat /\ t \in Nat /\ x \in Nat \ {0} => q \in Peer
         /\ q.gen = g /\ q.made = p.made + 1 /\ q.conn = p.made + 1 /\ ~q.opener
         /\ ~q.offered /\ q.opening = None /\ q.session = NoSession /\ ~q.gathered
         /\ q.to = t /\ q.sent = 0 /\ q.queue = {} /\ q.expected = x /\ q.outstanding = None
<1>1. q = [gen |-> g, seen |-> p.seen, made |-> p.made + 1, conn |-> p.made + 1, opener |-> FALSE,
           offered |-> FALSE, opening |-> None, session |-> NoSession, gathered |-> FALSE,
           to |-> t, sent |-> 0, queue |-> {}, expected |-> x, outstanding |-> None]
  BY DEF Answering, Connection, Unopened
<1>2. ASSUME p \in Peer, g \in Nat, t \in Nat, x \in Nat \ {0} PROVE q \in Peer
  <2>1. p.seen \in Nat /\ p.made + 1 \in Nat
    BY <1>2 DEF Peer
  <2> QED BY <1>1, <1>2, <2>1 DEF Peer, None
<1> QED BY <1>1, <1>2

LEMMA OpeningIs ==
  ASSUME NEW p \in Peer, NEW g \in Nat, NEW q, q = Opening(p, g)
  PROVE  /\ q \in Peer
         /\ q.gen = g /\ q.made = p.made + 1 /\ q.conn = p.made + 1 /\ q.opener
         /\ q.offered /\ q.opening = 1 /\ q.session = NoSession /\ ~q.gathered
         /\ q.to = None /\ q.sent = 1
         /\ q.queue = {[type |-> "offer", seq |-> 1, re |-> 0, slots |-> TRUE]}
         /\ q.expected = 1 /\ q.outstanding = 1
<1> DEFINE b == [type |-> "offer", seq |-> 1, re |-> 0, slots |-> TRUE]
<1>1. q = [gen |-> g, seen |-> p.seen, made |-> p.made + 1, conn |-> p.made + 1, opener |-> TRUE,
           offered |-> TRUE, opening |-> 1, session |-> NoSession, gathered |-> FALSE,
           to |-> None, sent |-> 1, queue |-> {b}, expected |-> 1, outstanding |-> 1]
  <2>1. PICK c : c = [Unopened EXCEPT !.gen = g, !.seen = p.seen, !.made = p.made + 1, !.conn = p.made + 1,
                                      !.opener = TRUE, !.to = None, !.expected = 1]
    OBVIOUS
  <2>r. c = [gen |-> g, seen |-> p.seen, made |-> p.made + 1, conn |-> p.made + 1, opener |-> TRUE,
             offered |-> FALSE, opening |-> None, session |-> NoSession, gathered |-> FALSE,
             to |-> None, sent |-> 0, queue |-> {}, expected |-> 1, outstanding |-> None]
    BY <2>1 DEF Unopened
  <2>2. c.sent = 0 /\ c.queue = {}
    BY <2>r
  <2>3. q = [[c EXCEPT !.sent = @ + 1,
                       !.queue = @ \cup {[type |-> "offer", seq |-> c.sent + 1, re |-> 0, slots |-> TRUE]},
                       !.outstanding = IF "offer" = "offer" THEN c.sent + 1 ELSE @]
               EXCEPT !.offered = TRUE, !.opening = IF TRUE THEN c.sent + 1 ELSE None]
    BY <2>1 DEF Opening, Offering, Queued, Connection
  <2>4. q = [[c EXCEPT !.sent = 1, !.queue = {b}, !.outstanding = 1] EXCEPT !.offered = TRUE, !.opening = 1]
    BY <2>2, <2>3
  <2> HIDE DEF b
  <2> QED BY <2>4, <2>r
<1>2. p.seen \in Nat /\ p.made + 1 \in Nat
  BY DEF Peer
<1>3. b \in Body
  BY DEF Body
<1> HIDE DEF b
<1>4. {b} \in SUBSET Body
  BY <1>3
<1>5. q \in Peer
  BY <1>1, <1>2, <1>4 DEF Peer, None
<1> QED BY <1>1, <1>5 DEF b

LEMMA QueuedIs ==
  ASSUME NEW p \in Peer, NEW y, NEW r, NEW b, NEW q, q = Queued(p, y, r, b)
  PROVE  /\ y \in {"offer", "answer", "ice"} /\ r \in Nat /\ b \in BOOLEAN => q \in Peer
         /\ q.gen = p.gen /\ q.made = p.made /\ q.conn = p.conn /\ q.opener = p.opener
         /\ q.offered = p.offered /\ q.opening = p.opening /\ q.session = p.session
         /\ q.gathered = p.gathered /\ q.to = p.to /\ q.sent = p.sent + 1
         /\ q.queue = p.queue \cup {[type |-> y, seq |-> p.sent + 1, re |-> r, slots |-> b]}
         /\ q.expected = p.expected
         /\ y = "offer" => q.outstanding = p.sent + 1
         /\ y # "offer" => q.outstanding = p.outstanding
<1> DEFINE body == [type |-> y, seq |-> p.sent + 1, re |-> r, slots |-> b]
           more == p.queue \cup {body}
           out == IF y = "offer" THEN p.sent + 1 ELSE p.outstanding
<1>1. q = [p EXCEPT !.sent = p.sent + 1, !.queue = more, !.outstanding = out]
  BY DEF Queued, Peer
<1>2. p.sent + 1 \in Nat /\ out \in Nat /\ p.queue \in SUBSET Body
  BY DEF Peer
<1>3. ASSUME y \in {"offer", "answer", "ice"}, r \in Nat, b \in BOOLEAN PROVE q \in Peer
  <2>1. body \in Body
    BY <1>2, <1>3 DEF Body
  <2>2. more \in SUBSET Body
    BY <1>2, <2>1
  <2> HIDE DEF more, out
  <2> QED BY <1>1, <1>2, <2>2 DEF Peer
<1>4. q.sent = p.sent + 1 /\ q.queue = more /\ q.outstanding = out
  <2> HIDE DEF more, out
  <2> QED BY <1>1 DEF Peer
<1>5. /\ q.gen = p.gen /\ q.made = p.made /\ q.conn = p.conn /\ q.opener = p.opener
      /\ q.offered = p.offered /\ q.opening = p.opening /\ q.session = p.session
      /\ q.gathered = p.gathered /\ q.to = p.to /\ q.expected = p.expected
  <2> HIDE DEF more, out
  <2> QED BY <1>1 DEF Peer
<1> QED BY <1>3, <1>4, <1>5

LEMMA OfferingIs ==
  ASSUME NEW p \in Peer, NEW b \in BOOLEAN, NEW q, q = Offering(p, b)
  PROVE  /\ q \in Peer
         /\ q.gen = p.gen /\ q.made = p.made /\ q.conn = p.conn /\ q.opener = p.opener
         /\ q.offered /\ q.opening = (IF b THEN p.sent + 1 ELSE None) /\ q.session = p.session
         /\ q.gathered = p.gathered /\ q.to = p.to /\ q.sent = p.sent + 1
         /\ q.queue = p.queue \cup {[type |-> "offer", seq |-> p.sent + 1, re |-> 0, slots |-> b]}
         /\ q.expected = p.expected /\ q.outstanding = p.sent + 1
<1> DEFINE r == Queued(p, "offer", 0, b)
<1>1. /\ r \in Peer
      /\ r.gen = p.gen /\ r.made = p.made /\ r.conn = p.conn /\ r.opener = p.opener
      /\ r.session = p.session
      /\ r.gathered = p.gathered /\ r.to = p.to /\ r.sent = p.sent + 1
      /\ r.queue = p.queue \cup {[type |-> "offer", seq |-> p.sent + 1, re |-> 0, slots |-> b]}
      /\ r.expected = p.expected /\ r.outstanding = p.sent + 1
  BY QueuedIs
<1>2. q = [r EXCEPT !.offered = TRUE, !.opening = IF b THEN p.sent + 1 ELSE None]
  BY DEF Offering
<1> DEFINE o == IF b THEN p.sent + 1 ELSE None
<1>3. p.sent \in Nat /\ o \in Nat
  BY DEF Peer, None
<1> HIDE DEF r
<1>4. q = [r EXCEPT !.offered = TRUE, !.opening = o]
  BY <1>2
<1> HIDE DEF o
<1>5. q \in Peer /\ q.offered = TRUE /\ q.opening = o
  BY <1>1, <1>3, <1>4 DEF Peer
<1>6. /\ q.gen = r.gen /\ q.made = r.made /\ q.conn = r.conn /\ q.opener = r.opener
      /\ q.session = r.session /\ q.gathered = r.gathered /\ q.to = r.to /\ q.sent = r.sent
      /\ q.queue = r.queue /\ q.expected = r.expected /\ q.outstanding = r.outstanding
  BY <1>1, <1>4 DEF Peer
<1> QED BY <1>1, <1>5, <1>6 DEF o

\* What is queued besides what was there.
LEMMA QueuedAnswerIs ==
  ASSUME NEW p \in Peer, NEW r \in Nat, NEW q, q = QueuedAnswer(p, r)
  PROVE  /\ q \in Peer
         /\ q.gen = p.gen /\ q.made = p.made /\ q.conn = p.conn /\ q.opener = p.opener
         /\ q.offered = p.offered /\ q.opening = p.opening /\ q.session = p.session
         /\ q.to = p.to /\ q.expected = p.expected /\ q.outstanding = p.outstanding
         /\ \A b \in q.queue : b \in p.queue \/ (b.type = "answer" /\ b.seq = p.sent + 1 /\ b.re = r)
<1>1. PICK b \in BOOLEAN : b = FALSE
  OBVIOUS
<1>2. q = Queued(p, "answer", r, b)
  BY <1>1, Zenon DEF QueuedAnswer
<1>3. "answer" \in {"offer", "answer", "ice"} /\ "answer" # "offer"
  OBVIOUS
<1>4. /\ q \in Peer
      /\ q.gen = p.gen /\ q.made = p.made /\ q.conn = p.conn /\ q.opener = p.opener
      /\ q.offered = p.offered /\ q.opening = p.opening /\ q.session = p.session
      /\ q.to = p.to /\ q.expected = p.expected
      /\ q.queue = p.queue \cup {[type |-> "answer", seq |-> p.sent + 1, re |-> r, slots |-> b]}
      /\ q.outstanding = p.outstanding
  BY <1>2, <1>3, QueuedIs
<1> QED BY <1>3, <1>4

LEMMA QueuedIceIs ==
  ASSUME NEW p \in Peer, NEW q, q = QueuedIce(p)
  PROVE  /\ q \in Peer
         /\ q.gen = p.gen /\ q.made = p.made /\ q.conn = p.conn /\ q.opener = p.opener
         /\ q.offered = p.offered /\ q.opening = p.opening /\ q.session = p.session
         /\ q.to = p.to /\ q.expected = p.expected /\ q.outstanding = p.outstanding
         /\ \A b \in q.queue : b \in p.queue \/ (b.type = "ice" /\ b.seq = p.sent + 1)
<1>1. PICK b \in BOOLEAN : b = FALSE
  OBVIOUS
<1>2. q = Queued(p, "ice", 0, b)
  BY <1>1, Zenon DEF QueuedIce
<1>3. "ice" \in {"offer", "answer", "ice"} /\ "ice" # "offer" /\ 0 \in Nat
  OBVIOUS
<1>4. /\ q \in Peer
      /\ q.gen = p.gen /\ q.made = p.made /\ q.conn = p.conn /\ q.opener = p.opener
      /\ q.offered = p.offered /\ q.opening = p.opening /\ q.session = p.session
      /\ q.to = p.to /\ q.expected = p.expected
      /\ q.queue = p.queue \cup {[type |-> "ice", seq |-> p.sent + 1, re |-> 0, slots |-> b]}
      /\ q.outstanding = p.outstanding
  BY <1>2, <1>3, QueuedIs
<1> QED BY <1>3, <1>4

LEMMA ReofferingIs ==
  ASSUME NEW p \in Peer, NEW q, q = Reoffering(p)
  PROVE  /\ q \in Peer
         /\ q.gen = p.gen /\ q.made = p.made /\ q.conn = p.conn /\ q.opener = p.opener
         /\ q.session = p.session /\ q.to = p.to /\ q.expected = p.expected
         /\ \A b \in q.queue : b \in p.queue \/ b.seq = p.sent + 1
<1>1. PICK b \in BOOLEAN : b = FALSE
  OBVIOUS
<1>2. q = Offering(p, b)
  BY <1>1, Zenon DEF Reoffering
<1>3. /\ q \in Peer
      /\ q.gen = p.gen /\ q.made = p.made /\ q.conn = p.conn /\ q.opener = p.opener
      /\ q.session = p.session /\ q.to = p.to /\ q.expected = p.expected
      /\ q.queue = p.queue \cup {[type |-> "offer", seq |-> p.sent + 1, re |-> 0, slots |-> b]}
  BY <1>2, OfferingIs
<1> QED BY <1>3

LEMMA HeardIs ==
  ASSUME NEW p \in Peer, NEW s \in Signal, NEW q, q = Heard(p, s)
  PROVE  /\ q \in Peer
         /\ q.gen = p.gen /\ q.made = p.made /\ q.conn = p.conn /\ q.opener = p.opener
         /\ q.offered = p.offered /\ q.opening = p.opening /\ q.session = p.session
         /\ q.gathered = p.gathered /\ q.to = s.conn /\ q.sent = p.sent
         /\ q.queue \subseteq p.queue
         /\ q.expected = p.expected /\ q.outstanding = p.outstanding
BY DEF Heard, Peer, Signal

LEMMA ReleasedIs ==
  ASSUME NEW p \in Peer, NEW s \in Signal, NEW q, q = Released(p, s)
  PROVE  /\ q \in Peer
         /\ q.gen = p.gen /\ q.made = p.made /\ q.conn = p.conn /\ q.opener = p.opener
         /\ q.offered = p.offered /\ q.opening = p.opening /\ q.session = p.session
         /\ q.gathered = p.gathered /\ q.to = s.conn /\ q.sent = p.sent
         /\ q.queue \subseteq p.queue
         /\ q.expected = s.seq + 1
         /\ q.outstanding = IF s.type = "answer" /\ s.re = p.outstanding THEN None ELSE p.outstanding
<1> DEFINE h == Heard(p, s)
<1>1. /\ h \in Peer
      /\ h.gen = p.gen /\ h.made = p.made /\ h.conn = p.conn /\ h.opener = p.opener
      /\ h.offered = p.offered /\ h.opening = p.opening /\ h.session = p.session
      /\ h.gathered = p.gathered /\ h.to = s.conn /\ h.sent = p.sent
      /\ h.queue \subseteq p.queue
      /\ h.expected = p.expected /\ h.outstanding = p.outstanding
  BY HeardIs
<1>2. q = LET r == [h EXCEPT !.expected = s.seq + 1]
          IN IF s.type = "answer" /\ s.re = p.outstanding
             THEN [r EXCEPT !.queue = {b \in @ : b.seq > s.re}, !.outstanding = None]
             ELSE r
  BY DEF Released
<1>3. s.seq \in Nat
  BY DEF Signal
<1> HIDE DEF h
<1>4. CASE s.type = "answer" /\ s.re = p.outstanding
  <2> DEFINE less == {b \in h.queue : b.seq > s.re}
  <2>1. q = [h EXCEPT !.expected = s.seq + 1, !.queue = less, !.outstanding = None]
    BY <1>1, <1>2, <1>4 DEF Peer
  <2>2. less \subseteq h.queue /\ None \in Nat /\ s.seq + 1 \in Nat \ {0}
    BY <1>3 DEF None
  <2> HIDE DEF less
  <2>3. q \in Peer /\ q.expected = s.seq + 1 /\ q.queue = less /\ q.outstanding = None
    BY <1>1, <2>1, <2>2 DEF Peer
  <2>4. /\ q.gen = h.gen /\ q.made = h.made /\ q.conn = h.conn /\ q.opener = h.opener
        /\ q.offered = h.offered /\ q.opening = h.opening /\ q.session = h.session
        /\ q.gathered = h.gathered /\ q.to = h.to /\ q.sent = h.sent
    BY <1>1, <2>1 DEF Peer
  <2> QED BY <1>1, <1>4, <2>2, <2>3, <2>4
<1>5. CASE ~(s.type = "answer" /\ s.re = p.outstanding)
  <2>1. q = [h EXCEPT !.expected = s.seq + 1]
    BY <1>2, <1>5
  <2> QED BY <1>1, <1>3, <1>5, <2>1 DEF Peer
<1> QED BY <1>4, <1>5

LEMMA RolledBackIs ==
  ASSUME NEW p \in Peer, NEW q, q = RolledBack(p)
  PROVE  /\ q \in Peer
         /\ q.gen = p.gen /\ q.made = p.made /\ q.conn = p.conn /\ q.opener = p.opener
         /\ ~q.offered /\ q.opening = None /\ q.session = p.session
         /\ q.gathered = p.gathered /\ q.to = p.to /\ q.sent = p.sent
         /\ q.queue \subseteq p.queue
         /\ q.expected = p.expected /\ q.outstanding = None
BY DEF RolledBack, Peer, None

LEMMA StampedIs ==
  ASSUME NEW d \in Device, NEW p \in Peer, NEW b \in Body, NEW s, s = Stamped(d, p, b)
  PROVE  /\ s \in Signal
         /\ s.from = d /\ s.gen = p.gen /\ s.conn = p.conn /\ s.to = p.to
         /\ s.type = b.type /\ s.seq = b.seq /\ s.re = b.re /\ s.slots = b.slots
BY DEF Stamped, Signal, Body, Peer

\* p once the far end's offer s is applied, and once the answer to d's own one is.
Accepting(p, s) ==
  [p EXCEPT !.offered = FALSE,
            !.session = [offerer |-> s.from, seq |-> s.seq, slots |-> s.slots,
                         far |-> s.conn, gen |-> s.gen]]
Answered(d, p, s) ==
  [p EXCEPT !.offered = FALSE, !.opening = None,
            !.session = [offerer |-> d, seq |-> s.re, slots |-> s.re = p.opening,
                         far |-> s.conn, gen |-> s.gen]]

LEMMA AcceptingIs ==
  ASSUME NEW p \in Peer, NEW s \in Signal, NEW q, q = Accepting(p, s)
  PROVE  /\ q \in Peer
         /\ q.gen = p.gen /\ q.made = p.made /\ q.conn = p.conn /\ q.opener = p.opener
         /\ ~q.offered /\ q.opening = p.opening
         /\ q.to = p.to /\ q.sent = p.sent /\ q.queue = p.queue
         /\ q.expected = p.expected /\ q.outstanding = p.outstanding
         /\ q.session \in Session
         /\ q.session.offerer = s.from /\ q.session.seq = s.seq
         /\ q.session.far = s.conn /\ q.session.gen = s.gen
<1> DEFINE e == [offerer |-> s.from, seq |-> s.seq, slots |-> s.slots, far |-> s.conn, gen |-> s.gen]
<1>1. e \in Session
  BY DEF Signal, Session
<1>2. e.offerer = s.from /\ e.seq = s.seq /\ e.far = s.conn /\ e.gen = s.gen
  OBVIOUS
<1>3. q = [p EXCEPT !.offered = FALSE, !.session = e]
  BY DEF Accepting
<1> HIDE DEF e
<1>4. q \in Peer /\ q.session = e /\ ~q.offered
  BY <1>1, <1>3 DEF Peer
<1>5. /\ q.gen = p.gen /\ q.made = p.made /\ q.conn = p.conn /\ q.opener = p.opener
      /\ q.opening = p.opening /\ q.to = p.to /\ q.sent = p.sent /\ q.queue = p.queue
      /\ q.expected = p.expected /\ q.outstanding = p.outstanding
  BY <1>3 DEF Peer
<1> QED BY <1>1, <1>2, <1>4, <1>5

LEMMA AnsweredIs ==
  ASSUME NEW d \in Device, NEW p \in Peer, NEW s \in Signal, NEW q, q = Answered(d, p, s)
  PROVE  /\ q \in Peer
         /\ q.gen = p.gen /\ q.made = p.made /\ q.conn = p.conn /\ q.opener = p.opener
         /\ ~q.offered /\ q.opening = None
         /\ q.to = p.to /\ q.sent = p.sent /\ q.queue = p.queue
         /\ q.expected = p.expected /\ q.outstanding = p.outstanding
         /\ q.session \in Session
         /\ q.session.offerer = d /\ q.session.seq = s.re
         /\ q.session.far = s.conn /\ q.session.gen = s.gen
<1> DEFINE b == s.re = p.opening
           e == [offerer |-> d, seq |-> s.re, slots |-> b, far |-> s.conn, gen |-> s.gen]
<1>1. e \in Session
  <2>1. b \in BOOLEAN
    OBVIOUS
  <2> HIDE DEF b
  <2> QED BY <2>1 DEF Signal, Session
<1>2. e.offerer = d /\ e.seq = s.re /\ e.far = s.conn /\ e.gen = s.gen
  OBVIOUS
<1>3. q = [p EXCEPT !.offered = FALSE, !.opening = None, !.session = e]
  BY DEF Answered
<1> HIDE DEF e
<1>n. None \in Nat
  BY DEF None
<1>4. q \in Peer /\ q.session = e /\ ~q.offered /\ q.opening = None
  BY <1>1, <1>3, <1>n DEF Peer
<1>5. /\ q.gen = p.gen /\ q.made = p.made /\ q.conn = p.conn /\ q.opener = p.opener
      /\ q.to = p.to /\ q.sent = p.sent /\ q.queue = p.queue
      /\ q.expected = p.expected /\ q.outstanding = p.outstanding
  BY <1>3 DEF Peer
<1> QED BY <1>1, <1>2, <1>4, <1>5

LEMMA BareIs ==
  ASSUME NEW y \in {"ack", "sync"}
  PROVE  Bare(y) \in Body /\ Bare(y).type = y
BY DEF Bare, Body

\* The answer to a signal of an older generation.
Sync(d, p) == Stamped(d, [p EXCEPT !.to = None, !.expected = 1], Bare("sync"))

LEMMA SyncIs ==
  ASSUME NEW d \in Device, NEW p \in Peer
  PROVE  /\ Sync(d, p) \in Signal
         /\ Sync(d, p).from = d /\ Sync(d, p).gen = p.gen /\ Sync(d, p).conn = p.conn
         /\ Sync(d, p).to = None /\ Sync(d, p).type = "sync"
<1> DEFINE r == [p EXCEPT !.to = None, !.expected = 1]
           b == Bare("sync")
<1>a. 1 \in Nat \ {0} /\ None \in Nat
  BY DEF None
<1>1. r \in Peer
  BY <1>a DEF Peer
<1>2. r.gen = p.gen /\ r.conn = p.conn /\ r.to = None
  BY DEF Peer
<1>3. b \in Body /\ b.type = "sync"
  BY BareIs
<1>4. Sync(d, p) = Stamped(d, r, b)
  BY DEF Sync
<1> HIDE DEF r, b
<1> QED BY <1>1, <1>2, <1>3, <1>4, StampedIs

-----------------------------------------------------------------------------
(* What an operation does to its SlotPeer *)

Op(d) == Head(tasks[d])

\* What is delivered to no effect: a candidate, an answer to an offer taken back.
Passes(d) ==
  Op(d).do = "deliver" =>
    /\ Op(d).signal.type \in {"answer", "ice"}
    /\ Op(d).signal.type = "answer" => ~peer[d].offered

\* Nothing, but for `seen': it publishes a sync at most, and queues at most the
\* next generation or the offer of a restart.
Keeps(d) ==
  \E p \in Peer, out \in SUBSET Signal, more \in {<<>>, <<Do("open")>>, <<Do("offer")>>} :
    /\ Alike(peer[d], p) /\ Passes(d)
    /\ \A s \in out :
         /\ peer[d].conn # None
         /\ s.from = d /\ s.gen = p.gen /\ s.conn = p.conn /\ s.to = None /\ s.type = "sync"
    /\ more # <<>> => p.conn # None
    /\ more = <<Do("offer")>> => Op(d).do = "restart"
    /\ Finish(d, p, out, more)

\* It opens a higher generation.
Opens(d) ==
  \E p \in Peer, g \in Nat :
    /\ Alike(peer[d], p) /\ g > p.gen
    /\ LET q == Opening(p, g)
       IN Finish(d, q, Latest(d, q), <<>>)

\* It answers an opening offer, on a fresh connection.
Answers(d) ==
  \E p \in Peer :
    LET s == Op(d).signal
        q == Answering(p, s.gen, s.conn, s.seq)
    IN /\ Op(d).do = "handle" /\ s.type = "offer" /\ s.slots
       /\ Alike(peer[d], p)
       /\ \/ p.conn = None
          \/ s.gen > p.gen
          \/ /\ s.gen = p.gen /\ d = Polite /\ s.to = None
             /\ p.outstanding # None /\ p.outstanding = p.opening
       /\ \/ s.to \in {None, q.conn} /\ Finish(d, Released(q, s), {}, <<About("deliver", s)>>)
          \/ s.to \notin {None, q.conn} /\ Finish(d, q, {}, <<>>)

\* p's channel takes what is addressed to it, and passes it on when it is the next.
Takes(d, p, s) ==
  /\ Bound(p, s)
  /\ \/ Finish(d, Heard(p, s), {}, <<>>)
     \/ /\ s.type \in {"offer", "answer", "ice"} /\ s.seq = p.expected
        /\ \/ s.type = "answer" /\ s.re # p.outstanding /\ Finish(d, Released(p, s), {}, <<>>)
           \/ /\ s.type = "answer" => s.re = p.outstanding
              /\ Finish(d, Released(p, s), {}, <<About("deliver", s)>>)

Hears(d) ==
  \E p \in Peer :
    /\ Op(d).do = "handle"
    /\ Alike(peer[d], p) /\ p.conn # None
    /\ Op(d).signal.type = "offer" => p.outstanding = None
    /\ Takes(d, p, Op(d).signal)

\* The polite end takes an offer back, and hears the other one or opens anew.
Rolls(d) ==
  \E p \in Peer :
    LET s == Op(d).signal
        q == RolledBack(p)
    IN /\ Op(d).do = "handle" /\ s.type = "offer" /\ s.gen = p.gen
       /\ d = Polite /\ Alike(peer[d], p) /\ p.conn # None
       /\ p.outstanding # None /\ ~(p.outstanding = p.opening /\ s.slots)
       /\ \/ Takes(d, q, s)
          \/ Finish(d, q, {}, <<Do("open")>>)

AppliesOffer(d) ==
  LET q == QueuedAnswer(Accepting(peer[d], Op(d).signal), Op(d).signal.seq)
  IN /\ Op(d).do = "deliver" /\ Op(d).signal.type = "offer"
     /\ Finish(d, q, Latest(d, q), <<>>)

AppliesAnswer(d) ==
  LET s == Op(d).signal
  IN /\ Op(d).do = "deliver" /\ s.type = "answer" /\ peer[d].offered
     /\ Finish(d, Answered(d, peer[d], s), {}, <<>>)

OffersAgain(d) ==
  LET q == Reoffering(peer[d])
  IN Op(d).do = "offer" /\ Finish(d, q, Latest(d, q), <<>>)

Becomes(d) ==
  \/ Keeps(d) \/ Opens(d) \/ Answers(d) \/ Hears(d) \/ Rolls(d)
  \/ AppliesOffer(d) \/ AppliesAnswer(d) \/ OffersAgain(d)

LEMMA HeadIsOp ==
  ASSUME Typed, NEW d \in Device, tasks[d] # <<>>
  PROVE  /\ Op(d) \in Ops
         /\ Op(d).do \in AboutSignal => Op(d).signal \in Signal
<1>1. tasks[d] \in Seq(Ops)
  BY DEF Typed
<1>2. Op(d) \in Ops
  BY <1>1 DEF Op
<1> QED BY <1>2 DEF Ops, AboutSignal

\* Two ways to keep it: with a sync, or with what is queued behind.
LEMMA SyncKeeps ==
  ASSUME NEW d \in Device, NEW p \in Peer, Alike(peer[d], p), Passes(d),
         peer[d].conn # None, Finish(d, p, {Sync(d, p)}, <<>>)
  PROVE  Keeps(d)
<1> DEFINE y == Sync(d, p)
<1>1. y \in Signal /\ y.from = d /\ y.gen = p.gen /\ y.conn = p.conn /\ y.to = None /\ y.type = "sync"
  BY SyncIs
<1> HIDE DEF y
<1>2. {y} \in SUBSET Signal
  BY <1>1
<1>3. <<>> # <<Do("offer")>>
  OBVIOUS
<1> QED BY <1>1, <1>2, <1>3 DEF Keeps, y

LEMMA IdleKeeps ==
  ASSUME NEW d \in Device, NEW p \in Peer, Alike(peer[d], p), Passes(d), Finish(d, p, {}, <<>>)
  PROVE  Keeps(d)
<1>1. <<>> # <<Do("offer")>>
  OBVIOUS
<1> QED BY <1>1 DEF Keeps

LEMMA AlikeIsReflexive == ASSUME NEW p PROVE Alike(p, p)
BY DEF Alike

\* What the channel of an open connection makes of a signal.
LEMMA ReceiveBecomes ==
  ASSUME Typed, NEW d \in Device, tasks[d] # <<>>, Op(d).do = "handle",
         NEW p \in Peer, Alike(peer[d], p), p.conn # None,
         Op(d).signal.type = "offer" => p.outstanding = None,
         Receive(d, p, Op(d).signal)
  PROVE  Keeps(d) \/ Hears(d)
<1> DEFINE s == Op(d).signal
<1>1. s \in Signal
  BY HeadIsOp DEF AboutSignal
<1>t. s.type \in {"offer", "answer", "ice", "ack", "sync"}
  BY <1>1 DEF Signal
<1>p. Passes(d)
  BY DEF Passes
<1>2. CASE ReceiveOlder(d, p, s)
  <2>1. Finish(d, p, {Sync(d, p)}, <<>>)
    BY <1>2 DEF ReceiveOlder, Sync
  <2>2. peer[d].conn # None
    BY DEF Alike
  <2> QED BY <1>p, <2>1, <2>2, SyncIs, SyncKeeps
<1>3. CASE ReceiveNewer(d, p, s) \/ ReceiveMisaddressed(d, p, s)
  BY <1>3, <1>p, IdleKeeps DEF ReceiveNewer, ReceiveMisaddressed
<1>4. CASE ReceiveForeign(d, p, s)
  <2>1. Finish(d, p, {}, <<Do("open")>>)
    BY <1>4 DEF ReceiveForeign
  <2>2. <<Do("open")>> # <<Do("offer")>>
    BY DEF Do
  <2> QED BY <1>p, <2>1, <2>2 DEF Keeps
<1>5. CASE ReceiveUnnumbered(d, p, s) \/ ReceiveDuplicate(d, p, s) \/ ReceiveEarly(d, p, s)
  <2>1. Takes(d, p, s)
    BY <1>5 DEF ReceiveUnnumbered, ReceiveDuplicate, ReceiveEarly, Takes
  <2> QED BY <2>1 DEF Hears
<1>6. CASE ReceiveNext(d, p, s)
  <2>1. Takes(d, p, s)
    BY <1>6, <1>t DEF ReceiveNext, Takes
  <2> QED BY <2>1 DEF Hears
<1> QED BY <1>2, <1>3, <1>4, <1>5, <1>6 DEF Receive

LEMMA AnsweringSignal ==
  ASSUME NEW p \in Peer, NEW s \in Signal, s.seq > 0,
         NEW q, q = Answering(p, s.gen, s.conn, s.seq)
  PROVE  /\ q \in Peer
         /\ q.gen = s.gen /\ q.made = p.made + 1 /\ q.conn = p.made + 1 /\ ~q.opener
         /\ ~q.offered /\ q.opening = None /\ q.session = NoSession
         /\ q.to = s.conn /\ q.queue = {} /\ q.expected = s.seq /\ q.outstanding = None
<1>1. s.gen \in Nat /\ s.conn \in Nat /\ s.seq \in Nat \ {0}
  BY DEF Signal
<1> QED BY <1>1, AnsweringIs

LEMMA AnswerBecomes ==
  ASSUME Typed, NEW d \in Device, tasks[d] # <<>>, Op(d).do = "handle",
         Op(d).signal.type = "offer", Op(d).signal.slots, Op(d).signal.seq > 0,
         NEW p \in Peer, Alike(peer[d], p),
         \/ p.conn = None
         \/ Op(d).signal.gen > p.gen
         \/ /\ Op(d).signal.gen = p.gen /\ d = Polite /\ Op(d).signal.to = None
            /\ p.outstanding # None /\ p.outstanding = p.opening,
         Answer(d, p, Op(d).signal)
  PROVE  Answers(d)
<1> DEFINE s == Op(d).signal
           q == Answering(p, s.gen, s.conn, s.seq)
<1>1. s \in Signal
  BY HeadIsOp DEF AboutSignal
<1>2. s.gen \in Nat /\ s.conn \in Nat /\ s.seq \in Nat \ {0}
  BY <1>1 DEF Signal
<1>3. q \in Peer /\ q.gen = s.gen /\ q.to = s.conn /\ q.expected = s.seq
  <2> HIDE DEF q
  <2> QED BY <1>1, AnsweringSignal DEF q
<1> DEFINE x == Receive(d, q, s)
<1>4. x
  BY DEF Answer, Answering
<1> HIDE DEF q
<1>5. \/ Addressed(q, s) /\ Finish(d, Released(q, s), {}, <<About("deliver", s)>>)
      \/ ~Addressed(q, s) /\ Finish(d, q, {}, <<>>)
  BY <1>2, <1>3, <1>4
     DEF Receive, ReceiveOlder, ReceiveNewer, ReceiveMisaddressed, ReceiveForeign, ReceiveUnnumbered,
         ReceiveDuplicate, ReceiveEarly, ReceiveNext, Bound
<1>6. Addressed(q, s) <=> s.to \in {None, q.conn}
  BY <1>3 DEF Addressed
<1> QED BY <1>5, <1>6 DEF Answers, q

LEMMA RollbackBecomes ==
  ASSUME Typed, NEW d \in Device, tasks[d] # <<>>, Op(d).do = "handle",
         Op(d).signal.type = "offer", NEW p \in Peer, Op(d).signal.gen = p.gen,
         Addressed(p, Op(d).signal),
         d = Polite, Alike(peer[d], p), p.conn # None, p.outstanding # None,
         ~(p.outstanding = p.opening /\ Op(d).signal.slots),
         Receive(d, RolledBack(p), Op(d).signal)
  PROVE  Rolls(d)
<1> DEFINE s == Op(d).signal
           q == RolledBack(p)
<1>1. s \in Signal
  BY HeadIsOp DEF AboutSignal
<1>2. s.gen \in Nat
  BY <1>1 DEF Signal
<1>3. q \in Peer /\ q.gen = s.gen /\ q.conn = p.conn
  BY RolledBackIs
<1>4. Addressed(q, s)
  BY <1>3 DEF Addressed
<1> HIDE DEF q
<1>5. \/ Takes(d, q, s)
      \/ Finish(d, q, {}, <<Do("open")>>)
  <2>1. CASE ReceiveForeign(d, q, s)
    BY <2>1 DEF ReceiveForeign
  <2>2. CASE ReceiveUnnumbered(d, q, s) \/ ReceiveDuplicate(d, q, s) \/ ReceiveEarly(d, q, s) \/ ReceiveNext(d, q, s)
    BY <2>2 DEF ReceiveUnnumbered, ReceiveDuplicate, ReceiveEarly, ReceiveNext, Takes
  <2>3. ~ReceiveOlder(d, q, s) /\ ~ReceiveNewer(d, q, s) /\ ~ReceiveMisaddressed(d, q, s)
    BY <1>2, <1>3, <1>4 DEF ReceiveOlder, ReceiveNewer, ReceiveMisaddressed
  <2>4. Receive(d, q, s)
    BY DEF q
  <2> QED BY <2>1, <2>2, <2>3, <2>4 DEF Receive
<1> QED BY <1>5 DEF Rolls, q

LEMMA OpenBecomes ==
  ASSUME NEW d \in Device, NEW p \in Peer, Alike(peer[d], p), NEW g \in Nat, g > p.gen,
         OpenGeneration(d, p, g)
  PROVE  Opens(d)
BY DEF OpenGeneration, Opens, Opening

LEMMA NextGenerationIsHigher ==
  ASSUME NEW p \in Peer
  PROVE  NextGeneration(p) \in Nat /\ NextGeneration(p) > p.gen /\ p.gen + 1 \in Nat /\ p.gen + 1 > p.gen
BY DEF NextGeneration, Higher, Peer

LEMMA HandleBecomes ==
  ASSUME Typed, NEW d \in Device, tasks[d] # <<>>, Op(d).do = "handle",
         Op(d).signal.type = "offer" => Op(d).signal.seq > 0,
         Handle(d, Op(d).signal)
  PROVE  Becomes(d)
<1> DEFINE s == Op(d).signal
           p == [peer[d] EXCEPT !.seen = Higher(@, s.gen)]
<1>1. s \in Signal
  BY HeadIsOp DEF AboutSignal
<1>q. Passes(d)
  BY DEF Passes
<1>2. s.gen \in Nat /\ s.slots \in BOOLEAN
  BY <1>1 DEF Signal
<1>3. peer[d] \in Peer
  BY DEF Typed
<1>4. p \in Peer /\ Alike(peer[d], p)
  <2> DEFINE n == Higher(peer[d].seen, s.gen)
  <2>1. n \in Nat
    BY <1>2, <1>3 DEF Higher, Peer
  <2>2. p = [peer[d] EXCEPT !.seen = n]
    OBVIOUS
  <2> HIDE DEF n
  <2> QED BY <1>3, <2>1, <2>2, SeenIs
<1>5. HandleUnopened(d, p, s) \/ HandleOffer(d, p, s) \/ HandleOther(d, p, s)
  BY DEF Handle
<1> HIDE DEF p
<1>6. CASE HandleUnopened(d, p, s)
  <2>1. CASE Finish(d, p, {}, <<>>)
    BY <1>4, <1>q, <2>1, IdleKeeps DEF Becomes
  <2>2. CASE s.type = "offer" /\ s.slots /\ Answer(d, p, s)
    <3>1. p.conn = None
      BY <1>6 DEF HandleUnopened
    <3> QED BY <1>4, <2>2, <3>1, AnswerBecomes DEF Becomes
  <2> QED BY <1>6, <2>1, <2>2 DEF HandleUnopened
<1>7. CASE HandleOther(d, p, s)
  BY <1>4, <1>7, ReceiveBecomes DEF HandleOther, Becomes
<1>8. CASE HandleOffer(d, p, s)
  <2> DEFINE decision == Decision(d, p, s)
  <2>1. p.conn # None /\ s.type = "offer" /\ s.seq > 0
    BY <1>8 DEF HandleOffer
  <2>2. CASE Finish(d, p, {}, <<>>)
    BY <1>4, <1>q, <2>2, IdleKeeps DEF Becomes
  <2>3. CASE decision = "rebuild-connection" /\ s.to # None /\ OpenGeneration(d, p, NextGeneration(p))
    BY <1>4, <2>3, NextGenerationIsHigher, OpenBecomes DEF Becomes
  <2>4. CASE decision = "rebuild-generation" /\ OpenGeneration(d, p, p.gen + 1)
    BY <1>4, <2>4, NextGenerationIsHigher, OpenBecomes DEF Becomes
  <2>5. CASE decision = "rebuild-connection" /\ s.to = None /\ Answer(d, p, s)
    <3>1. s.gen = p.gen /\ d = Polite /\ Outstanding(p) = "opening" /\ s.slots
      BY <2>5, <1>2 DEF Decision, Glare
    <3>2. p.outstanding # None /\ p.outstanding = p.opening
      BY <3>1 DEF Outstanding
    <3> QED BY <1>4, <2>1, <2>5, <3>1, <3>2, AnswerBecomes DEF Becomes
  <2>6. CASE decision = "adopt" /\ s.slots /\ Answer(d, p, s)
    <3>1. s.gen > p.gen
      BY <2>6, <1>2, <1>4 DEF Decision, Glare, Peer
    <3> QED BY <1>4, <2>1, <2>6, <3>1, AnswerBecomes DEF Becomes
  <2>7. CASE decision = "rollback" /\ Receive(d, RolledBack(p), s) /\ (s.gen = p.gen => Addressed(p, s))
    <3>1. s.gen = p.gen /\ d = Polite /\ Outstanding(p) # "none" /\ ~(Outstanding(p) = "opening" /\ s.slots)
      BY <2>7, <1>2 DEF Decision, Glare
    <3>2. p.outstanding # None /\ ~(p.outstanding = p.opening /\ s.slots)
      BY <3>1 DEF Outstanding
    <3> QED BY <1>4, <2>1, <2>7, <3>1, <3>2, RollbackBecomes DEF Becomes
  <2>8. CASE decision \in {"sync", "negotiate"} /\ Receive(d, p, s)
    <3>1. CASE s.gen = p.gen
      <4>1. Outstanding(p) = "none"
        BY <2>8, <3>1, <1>2 DEF Decision, Glare
      <4>2. p.outstanding = None
        BY <4>1 DEF Outstanding
      <4> QED BY <1>4, <2>1, <2>8, <4>2, ReceiveBecomes DEF Becomes
    <3>2. CASE s.gen # p.gen
      <4>1. ReceiveOlder(d, p, s) \/ ReceiveNewer(d, p, s)
        BY <2>8, <3>2 DEF Receive, ReceiveMisaddressed, ReceiveForeign, ReceiveUnnumbered,
             ReceiveDuplicate, ReceiveEarly, ReceiveNext, Bound, Addressed
      <4>2. Finish(d, p, {Sync(d, p)}, <<>>) \/ Finish(d, p, {}, <<>>)
        BY <4>1 DEF ReceiveOlder, ReceiveNewer, Sync
      <4>3. peer[d].conn # None
        BY <1>4, <2>1 DEF Alike
      <4> QED BY <1>4, <1>q, <4>2, <4>3, SyncKeeps, IdleKeeps DEF Becomes
    <3> QED BY <3>1, <3>2
  <2> QED BY <1>8, <2>2, <2>3, <2>4, <2>5, <2>6, <2>7, <2>8 DEF HandleOffer
<1> QED BY <1>5, <1>6, <1>7, <1>8

LEMMA RunBecomes ==
  ASSUME Typed, NEW d \in Device, Run(d),
         Op(d).do = "handle" /\ Op(d).signal.type = "offer" => Op(d).signal.seq > 0
  PROVE  tasks[d] # <<>> /\ Becomes(d)
<1>1. tasks[d] # <<>>
  BY DEF Run
<1>2. peer[d] \in Peer /\ Alike(peer[d], peer[d])
  BY AlikeIsReflexive DEF Typed
<1>3. \/ Op(d).do = "start" /\ Start(d)
      \/ Op(d).do = "open" /\ OpenGeneration(d, peer[d], NextGeneration(peer[d]))
      \/ Op(d).do = "restart" /\ Restart(d)
      \/ Op(d).do = "offer" /\ OfferAgain(d)
      \/ Op(d).do = "handle" /\ Handle(d, Op(d).signal)
      \/ Op(d).do = "deliver" /\ Deliver(d, Op(d).signal)
  BY DEF Run, Op
<1>4. CASE Op(d).do = "start" /\ Start(d)
  BY <1>1, <1>2, <1>4, NextGenerationIsHigher, OpenBecomes, IdleKeeps DEF Start, Passes, Becomes
<1>5. CASE Op(d).do = "open" /\ OpenGeneration(d, peer[d], NextGeneration(peer[d]))
  BY <1>1, <1>2, <1>5, NextGenerationIsHigher, OpenBecomes DEF Becomes
<1>6. CASE Op(d).do = "restart" /\ Restart(d)
  <2>1. CASE Finish(d, peer[d], {}, <<Do("offer")>>) /\ peer[d].conn # None
    BY <1>1, <1>2, <1>6, <2>1 DEF Keeps, Passes, Becomes
  <2> QED BY <1>1, <1>2, <1>6, <2>1, IdleKeeps DEF Restart, Passes, Becomes
<1>7. CASE Op(d).do = "offer" /\ OfferAgain(d)
  BY <1>1, <1>7 DEF OffersAgain, OfferAgain, Reoffering, Becomes
<1>8. CASE Op(d).do = "handle" /\ Handle(d, Op(d).signal)
  BY <1>1, <1>8, HandleBecomes
<1>9. CASE Op(d).do = "deliver" /\ Deliver(d, Op(d).signal)
  <2>1. CASE ApplyOffer(d, Op(d).signal) /\ Op(d).signal.type = "offer"
    BY <1>1, <1>9, <2>1 DEF ApplyOffer, Accepting, QueuedAnswer, AppliesOffer, Becomes
  <2>2. CASE ApplyAnswer(d, Op(d).signal) /\ Op(d).signal.type = "answer"
    BY <1>1, <1>2, <1>9, <2>2, IdleKeeps DEF ApplyAnswer, Passes, Answered, AppliesAnswer, Becomes
  <2>3. CASE ApplyIce(d) /\ Op(d).signal.type = "ice"
    BY <1>1, <1>2, <2>3, IdleKeeps DEF ApplyIce, Passes, Becomes
  <2> QED BY <1>9, <2>1, <2>2, <2>3 DEF Deliver
<1> QED BY <1>1, <1>3, <1>4, <1>5, <1>6, <1>7, <1>8, <1>9

-----------------------------------------------------------------------------
(* Types, generations and sessions *)

Sound(s) == s.gen > 0 /\ (s.type = "offer" => s.seq > 0)

\* A peer without a connection has not negotiated; a generation and a sequence
\* number are never None.
Healthy(p) ==
  /\ p.conn = None => p.gen = 0 /\ p.queue = {} /\ p.expected = 1
  /\ p.conn # None => p.gen > 0
  /\ \A b \in p.queue : b.seq > 0

Waiting(d) == {tasks[d][i] : i \in 1..Len(tasks[d])}

WaitsWell(d) ==
  \A op \in Waiting(d) :
    /\ op.do \in AboutSignal => Sound(op.signal)
    /\ op.do \in {"offer", "deliver"} => peer[d].conn # None

Begun ==
  /\ Typed
  /\ \A d \in Device : Healthy(peer[d]) /\ WaitsWell(d)
  /\ \A s \in relay : Sound(s)

\* What is queued behind an operation that leaves the SlotPeer p.
Followed(more, p) ==
  \/ more = <<>>
  \/ more \in {<<Do("open")>>, <<Do("offer")>>} /\ p.conn # None
  \/ \E s \in Signal :
       more = <<About("deliver", s)>> /\ Sound(s) /\ s.gen = p.gen /\ p.conn # None

\* When a connection is given up.
GivesWay(d, p) ==
  /\ peer[d].conn # None => p.conn # None
  /\ p.conn # peer[d].conn => d = Polite \/ p.gen > peer[d].gen

\* What the end of an operation may leave: the SlotPeer p, the signals it
\* published, and the operation it queued.
Result(d, p, out, more) ==
  /\ Finish(d, p, out, more)
  /\ Healthy(p) /\ GivesWay(d, p)
  /\ \A s \in out : Sound(s)
  /\ Followed(more, p)

LEMMA LatestIs ==
  ASSUME NEW d \in Device, NEW q \in Peer
  PROVE  /\ Latest(d, q) \in SUBSET Signal
         /\ \A s \in Latest(d, q) : \E b \in q.queue : s = Stamped(d, q, b)
<1>1. q.queue \subseteq Body
  BY DEF Peer
<1>2. \A s \in Latest(d, q) : \E b \in q.queue : s = Stamped(d, q, b)
  BY DEF Latest
<1> QED BY <1>1, <1>2, StampedIs

LEMMA LatestIsSound ==
  ASSUME NEW d \in Device, NEW q \in Peer, Healthy(q)
  PROVE  \A s \in Latest(d, q) : Sound(s)
<1> SUFFICES ASSUME NEW s \in Latest(d, q) PROVE Sound(s)
  OBVIOUS
<1>1. PICK b \in q.queue : s = Stamped(d, q, b)
  BY LatestIs
<1>2. b \in Body /\ b.seq > 0
  BY DEF Healthy, Peer
<1>3. s.gen = q.gen /\ s.seq = b.seq
  BY <1>1, <1>2, StampedIs
<1>4. q.conn # None
  BY DEF Healthy
<1> QED BY <1>2, <1>3, <1>4 DEF Healthy, Sound

LEMMA HeadWaits ==
  ASSUME Begun, NEW d \in Device, tasks[d] # <<>>
  PROVE  /\ Op(d) \in Ops
         /\ Op(d).do \in AboutSignal => Op(d).signal \in Signal /\ Sound(Op(d).signal)
         /\ Op(d).do \in {"offer", "deliver"} => peer[d].conn # None
<1>1. tasks[d] \in Seq(Ops)
  BY DEF Begun, Typed
<1>2. Op(d) \in Waiting(d)
  <2>1. 1 \in 1..Len(tasks[d]) /\ Op(d) = tasks[d][1]
    BY <1>1 DEF Op
  <2> QED BY <2>1 DEF Waiting
<1> QED BY <1>2, HeadIsOp DEF Begun, WaitsWell

LEMMA AlikeIsHealthy ==
  ASSUME NEW p, NEW q, Alike(p, q), Healthy(p)
  PROVE  Healthy(q)
BY DEF Alike, Healthy

LEMMA MoreIsTyped ==
  /\ <<>> \in Seq(Ops) /\ <<Do("open")>> \in Seq(Ops) /\ <<Do("offer")>> \in Seq(Ops)
  /\ \A s \in Signal : <<About("deliver", s)>> \in Seq(Ops)
<1>1. Do("open") \in Ops
  BY DEF Ops, Do
<1>2. Do("offer") \in Ops
  BY DEF Ops, Do
<1>3. \A s \in Signal : About("deliver", s) \in Ops
  BY DEF Ops, About, AboutSignal
<1>4. \A op \in Ops : <<op>> \in Seq(Ops)
  OBVIOUS
<1> QED BY <1>1, <1>2, <1>3, <1>4

LEMMA KeepsResult ==
  ASSUME Begun, NEW d \in Device, tasks[d] # <<>>, Keeps(d)
  PROVE  \E p \in Peer, out \in SUBSET Signal, more \in Seq(Ops) : Result(d, p, out, more)
<1>1. PICK p \in Peer, out \in SUBSET Signal, more \in {<<>>, <<Do("open")>>, <<Do("offer")>>} :
        /\ Alike(peer[d], p)
        /\ \A s \in out :
             /\ peer[d].conn # None
             /\ s.from = d /\ s.gen = p.gen /\ s.conn = p.conn /\ s.to = None /\ s.type = "sync"
        /\ more # <<>> => p.conn # None
        /\ Finish(d, p, out, more)
  BY DEF Keeps
<1>2. Healthy(p)
  BY <1>1, AlikeIsHealthy DEF Begun
<1>3. \A s \in out : Sound(s)
  BY <1>1, <1>2 DEF Sound, Healthy, Alike
<1>4. more \in Seq(Ops)
  BY <1>1, MoreIsTyped
<1>5. GivesWay(d, p)
  BY <1>1 DEF GivesWay, Alike
<1>6. Followed(more, p)
  BY <1>1 DEF Followed
<1>7. Result(d, p, out, more)
  BY <1>1, <1>2, <1>3, <1>5, <1>6 DEF Result
<1> QED BY <1>4, <1>7

LEMMA OpensResult ==
  ASSUME Begun, NEW d \in Device, tasks[d] # <<>>, Opens(d)
  PROVE  \E p \in Peer, out \in SUBSET Signal, more \in Seq(Ops) : Result(d, p, out, more)
<1>1. PICK p \in Peer, g \in Nat :
        /\ Alike(peer[d], p) /\ g > p.gen
        /\ Finish(d, Opening(p, g), Latest(d, Opening(p, g)), <<>>)
  BY DEF Opens
<1>2. PICK q : q = Opening(p, g)
  OBVIOUS
<1>3. /\ q \in Peer /\ q.gen = g /\ q.conn = p.made + 1 /\ q.session = NoSession
      /\ q.queue = {[type |-> "offer", seq |-> 1, re |-> 0, slots |-> TRUE]}
  BY <1>2, OpeningIs
<1>4. p.gen \in Nat /\ p.made \in Nat
  BY DEF Peer
<1>5. q.conn # None /\ q.gen > 0 /\ \A b \in q.queue : b.seq > 0
  BY <1>1, <1>3, <1>4 DEF None
<1>6. Healthy(q)
  BY <1>5 DEF Healthy
<1>7. Latest(d, q) \in SUBSET Signal /\ \A s \in Latest(d, q) : Sound(s)
  BY <1>3, <1>6, LatestIs, LatestIsSound
<1>8. q.gen > peer[d].gen
  BY <1>1, <1>3 DEF Alike
<1>9. GivesWay(d, q) /\ Followed(<<>>, q)
  BY <1>3, <1>5, <1>8 DEF GivesWay, Followed
<1>10. Result(d, q, Latest(d, q), <<>>)
  BY <1>1, <1>2, <1>6, <1>7, <1>9 DEF Result
<1> QED BY <1>3, <1>7, <1>10, MoreIsTyped

LEMMA AnswersResult ==
  ASSUME Begun, NEW d \in Device, tasks[d] # <<>>, Answers(d)
  PROVE  \E p \in Peer, out \in SUBSET Signal, more \in Seq(Ops) : Result(d, p, out, more)
<1> DEFINE s == Op(d).signal
<1>1. PICK p \in Peer :
        LET q == Answering(p, s.gen, s.conn, s.seq)
        IN /\ Op(d).do = "handle" /\ s.type = "offer" /\ s.slots
           /\ Alike(peer[d], p)
           /\ \/ p.conn = None
              \/ s.gen > p.gen
              \/ /\ s.gen = p.gen /\ d = Polite /\ s.to = None
                 /\ p.outstanding # None /\ p.outstanding = p.opening
           /\ \/ s.to \in {None, q.conn} /\ Finish(d, Released(q, s), {}, <<About("deliver", s)>>)
              \/ s.to \notin {None, q.conn} /\ Finish(d, q, {}, <<>>)
  BY DEF Answers
<1>2. s \in Signal /\ Sound(s)
  BY <1>1, HeadWaits DEF AboutSignal
<1> HIDE DEF s
<1>3. s.seq > 0 /\ s.gen > 0
  BY <1>1, <1>2 DEF Sound
<1>4. PICK q : q = Answering(p, s.gen, s.conn, s.seq)
  OBVIOUS
<1>5. /\ q \in Peer /\ q.gen = s.gen /\ q.conn = p.made + 1 /\ q.session = NoSession /\ q.queue = {}
  BY <1>2, <1>3, <1>4, AnsweringSignal
<1>6. p.made \in Nat /\ q.conn # None
  BY <1>5 DEF None, Peer
<1>7. \A r \in Peer : r.gen = q.gen /\ r.conn = q.conn /\ r.queue \subseteq q.queue => Healthy(r)
  BY <1>3, <1>5, <1>6 DEF Healthy
<1>8. p.conn = None => p.gen = 0
  BY <1>1 DEF Begun, Healthy, Alike
<1>9. \A r \in Peer : r.gen = q.gen /\ r.conn = q.conn /\ r.session = q.session =>
        GivesWay(d, r)
  <2>1. d = Polite \/ q.gen > peer[d].gen
    BY <1>1, <1>3, <1>5, <1>8 DEF Alike
  <2> QED BY <1>5, <1>6, <2>1 DEF GivesWay
<1>10. CASE Finish(d, Released(q, s), {}, <<About("deliver", s)>>)
  <2>1. PICK r : r = Released(q, s)
    OBVIOUS
  <2>2. r \in Peer /\ r.gen = q.gen /\ r.conn = q.conn /\ r.session = q.session /\ r.queue \subseteq q.queue
    BY <1>2, <1>5, <2>1, ReleasedIs
  <2>3. Followed(<<About("deliver", s)>>, r)
    BY <1>2, <1>5, <1>6, <2>2 DEF Followed
  <2>4. Healthy(r) /\ GivesWay(d, r)
    BY <1>7, <1>9, <2>2
  <2>5. Result(d, r, {}, <<About("deliver", s)>>)
    BY <1>10, <2>1, <2>3, <2>4 DEF Result
  <2> QED BY <1>2, <2>2, <2>5, MoreIsTyped
<1>11. CASE Finish(d, q, {}, <<>>)
  <2>1. Healthy(q) /\ GivesWay(d, q)
    BY <1>5, <1>7, <1>9
  <2>2. Result(d, q, {}, <<>>)
    BY <1>11, <2>1 DEF Result, Followed
  <2> QED BY <1>5, <2>2, MoreIsTyped
<1> QED BY <1>1, <1>4, <1>10, <1>11

\* The channel of p takes a signal: p is the SlotPeer, or what is left of it after
\* a rollback.
LEMMA TakesResult ==
  ASSUME Begun, NEW d \in Device, tasks[d] # <<>>, Op(d).do = "handle",
         NEW p \in Peer, Healthy(p), p.conn = peer[d].conn, p.gen = peer[d].gen,
         p.session = peer[d].session, p.conn # None, Takes(d, p, Op(d).signal)
  PROVE  \E q \in Peer, out \in SUBSET Signal, more \in Seq(Ops) : Result(d, q, out, more)
<1> DEFINE s == Op(d).signal
<1>1. s \in Signal /\ Sound(s)
  BY HeadWaits DEF AboutSignal
<1>2. Takes(d, p, s)
  OBVIOUS
<1> HIDE DEF s
<1>3. s.gen = p.gen
  BY <1>2 DEF Takes, Bound, Addressed
<1>4. \A q \in Peer :
        q.gen = p.gen /\ q.conn = p.conn /\ q.session = p.session /\ q.queue \subseteq p.queue
          => Healthy(q) /\ GivesWay(d, q)
  BY DEF Healthy, GivesWay
<1>5. CASE Finish(d, Heard(p, s), {}, <<>>)
  <2>1. PICK q : q = Heard(p, s)
    OBVIOUS
  <2>2. /\ q \in Peer /\ q.gen = p.gen /\ q.conn = p.conn /\ q.session = p.session
        /\ q.queue \subseteq p.queue
    BY <1>1, <2>1, HeardIs
  <2>3. Healthy(q) /\ GivesWay(d, q)
    BY <1>4, <2>2
  <2>4. Result(d, q, {}, <<>>)
    BY <1>5, <2>1, <2>3 DEF Result, Followed
  <2> QED BY <2>2, <2>4, MoreIsTyped
<1>6. ASSUME NEW more \in {<<>>, <<About("deliver", s)>>}, Finish(d, Released(p, s), {}, more)
      PROVE  \E q \in Peer, out \in SUBSET Signal, m \in Seq(Ops) : Result(d, q, out, m)
  <2>1. PICK q : q = Released(p, s)
    OBVIOUS
  <2>2. /\ q \in Peer /\ q.gen = p.gen /\ q.conn = p.conn /\ q.session = p.session
        /\ q.queue \subseteq p.queue
    BY <1>1, <2>1, ReleasedIs
  <2>3. Healthy(q) /\ GivesWay(d, q)
    BY <1>4, <2>2
  <2>4. Followed(more, q)
    BY <1>1, <1>3, <1>6, <2>2 DEF Followed
  <2>5. Result(d, q, {}, more)
    BY <1>6, <2>1, <2>3, <2>4 DEF Result
  <2>6. more \in Seq(Ops)
    BY <1>1, <1>6, MoreIsTyped
  <2> QED BY <2>2, <2>5, <2>6
<1> QED BY <1>2, <1>5, <1>6 DEF Takes

LEMMA HearsResult ==
  ASSUME Begun, NEW d \in Device, tasks[d] # <<>>, Hears(d)
  PROVE  \E p \in Peer, out \in SUBSET Signal, more \in Seq(Ops) : Result(d, p, out, more)
<1>1. PICK p \in Peer :
        /\ Op(d).do = "handle" /\ Alike(peer[d], p) /\ p.conn # None /\ Takes(d, p, Op(d).signal)
  BY DEF Hears
<1>2. Healthy(p)
  BY <1>1, AlikeIsHealthy DEF Begun
<1> QED BY <1>1, <1>2, TakesResult DEF Alike

LEMMA RollsResult ==
  ASSUME Begun, NEW d \in Device, tasks[d] # <<>>, Rolls(d)
  PROVE  \E p \in Peer, out \in SUBSET Signal, more \in Seq(Ops) : Result(d, p, out, more)
<1>1. PICK p \in Peer :
        /\ Op(d).do = "handle" /\ Alike(peer[d], p) /\ p.conn # None
        /\ Takes(d, RolledBack(p), Op(d).signal) \/ Finish(d, RolledBack(p), {}, <<Do("open")>>)
  BY DEF Rolls
<1>2. PICK q : q = RolledBack(p)
  OBVIOUS
<1>3. /\ q \in Peer /\ q.gen = p.gen /\ q.conn = p.conn /\ q.session = p.session
      /\ q.queue \subseteq p.queue
  BY <1>2, RolledBackIs
<1>4. Healthy(q)
  BY <1>1, <1>3, AlikeIsHealthy DEF Begun, Healthy
<1>5. q.conn = peer[d].conn /\ q.gen = peer[d].gen /\ q.session = peer[d].session /\ q.conn # None
  BY <1>1, <1>3 DEF Alike
<1>6. CASE Takes(d, q, Op(d).signal)
  BY <1>1, <1>3, <1>4, <1>5, <1>6, TakesResult
<1>7. CASE Finish(d, q, {}, <<Do("open")>>)
  <2>1. GivesWay(d, q) /\ Followed(<<Do("open")>>, q)
    BY <1>5 DEF GivesWay, Followed
  <2>2. Result(d, q, {}, <<Do("open")>>)
    BY <1>4, <1>7, <2>1 DEF Result
  <2> QED BY <1>3, <2>2, MoreIsTyped
<1> QED BY <1>1, <1>2, <1>6, <1>7

LEMMA AppliesOfferResult ==
  ASSUME Begun, NEW d \in Device, tasks[d] # <<>>, AppliesOffer(d)
  PROVE  \E p \in Peer, out \in SUBSET Signal, more \in Seq(Ops) : Result(d, p, out, more)
<1> DEFINE s == Op(d).signal
           o == peer[d]
<1>1. Op(d).do = "deliver"
  BY DEF AppliesOffer
<1>2. s \in Signal /\ o.conn # None
  BY <1>1, HeadWaits DEF AboutSignal
<1>3. PICK p : p = Accepting(o, s)
  OBVIOUS
<1>4. PICK q : q = QueuedAnswer(p, s.seq)
  OBVIOUS
<1>5. Finish(d, q, Latest(d, q), <<>>)
  BY <1>3, <1>4 DEF AppliesOffer
<1>o. o \in Peer /\ Healthy(o)
  BY DEF Begun, Typed
<1> HIDE DEF s, o
<1>6. /\ p \in Peer /\ p.gen = o.gen /\ p.conn = o.conn /\ p.queue = o.queue
      /\ p.session.gen = s.gen
  BY <1>2, <1>3, <1>o, AcceptingIs
<1>7. s.seq \in Nat
  BY <1>2 DEF Signal
<1>8. /\ q \in Peer /\ q.gen = p.gen /\ q.conn = p.conn /\ q.session = p.session
      /\ \A b \in q.queue : b \in p.queue \/ b.seq = p.sent + 1
  BY <1>4, <1>6, <1>7, QueuedAnswerIs
<1>9. p.sent \in Nat
  BY <1>6 DEF Peer
<1>10. Healthy(q)
  BY <1>2, <1>o, <1>6, <1>8, <1>9 DEF Healthy
<1>11. GivesWay(d, q) /\ Followed(<<>>, q)
  BY <1>1, <1>2, <1>6, <1>8 DEF GivesWay, Followed, o, s
<1>12. Latest(d, q) \in SUBSET Signal /\ \A y \in Latest(d, q) : Sound(y)
  BY <1>8, <1>10, LatestIs, LatestIsSound
<1>13. Result(d, q, Latest(d, q), <<>>)
  BY <1>5, <1>10, <1>11, <1>12 DEF Result
<1> QED BY <1>8, <1>12, <1>13, MoreIsTyped

LEMMA AppliesAnswerResult ==
  ASSUME Begun, NEW d \in Device, tasks[d] # <<>>, AppliesAnswer(d)
  PROVE  \E p \in Peer, out \in SUBSET Signal, more \in Seq(Ops) : Result(d, p, out, more)
<1> DEFINE s == Op(d).signal
           o == peer[d]
<1>1. Op(d).do = "deliver"
  BY DEF AppliesAnswer
<1>2. s \in Signal /\ o.conn # None
  BY <1>1, HeadWaits DEF AboutSignal
<1>3. PICK q : q = Answered(d, o, s)
  OBVIOUS
<1>4. Finish(d, q, {}, <<>>)
  BY <1>3 DEF AppliesAnswer
<1>o. o \in Peer /\ Healthy(o)
  BY DEF Begun, Typed
<1> HIDE DEF s, o
<1>5. /\ q \in Peer /\ q.gen = o.gen /\ q.conn = o.conn /\ q.queue = o.queue
      /\ q.session.gen = s.gen
  BY <1>2, <1>3, <1>o, AnsweredIs
<1>6. Healthy(q)
  BY <1>2, <1>o, <1>5 DEF Healthy
<1>7. GivesWay(d, q) /\ Followed(<<>>, q)
  BY <1>1, <1>2, <1>5 DEF GivesWay, Followed, o, s
<1>8. Result(d, q, {}, <<>>)
  BY <1>4, <1>6, <1>7 DEF Result
<1> QED BY <1>5, <1>8, MoreIsTyped

LEMMA OffersAgainResult ==
  ASSUME Begun, NEW d \in Device, tasks[d] # <<>>, OffersAgain(d)
  PROVE  \E p \in Peer, out \in SUBSET Signal, more \in Seq(Ops) : Result(d, p, out, more)
<1> DEFINE o == peer[d]
<1>1. Op(d).do = "offer"
  BY DEF OffersAgain
<1>2. o.conn # None
  BY <1>1, HeadWaits
<1>3. PICK q : q = Reoffering(o)
  OBVIOUS
<1>4. Finish(d, q, Latest(d, q), <<>>)
  BY <1>3 DEF OffersAgain
<1>o. o \in Peer /\ Healthy(o)
  BY DEF Begun, Typed
<1> HIDE DEF o
<1>5. /\ q \in Peer /\ q.gen = o.gen /\ q.conn = o.conn /\ q.session = o.session
      /\ \A b \in q.queue : b \in o.queue \/ b.seq = o.sent + 1
  BY <1>3, <1>o, ReofferingIs
<1>6. o.sent \in Nat
  BY <1>o DEF Peer
<1>7. Healthy(q)
  BY <1>2, <1>o, <1>5, <1>6 DEF Healthy
<1>8. GivesWay(d, q) /\ Followed(<<>>, q)
  BY <1>2, <1>5 DEF GivesWay, Followed, o
<1>9. Latest(d, q) \in SUBSET Signal /\ \A y \in Latest(d, q) : Sound(y)
  BY <1>5, <1>7, LatestIs, LatestIsSound
<1>10. Result(d, q, Latest(d, q), <<>>)
  BY <1>4, <1>7, <1>8, <1>9 DEF Result
<1> QED BY <1>5, <1>9, <1>10, MoreIsTyped

LEMMA RunResult ==
  ASSUME Begun, NEW d \in Device, Run(d)
  PROVE  /\ tasks[d] # <<>>
         /\ \E p \in Peer, out \in SUBSET Signal, more \in Seq(Ops) : Result(d, p, out, more)
<1>1. tasks[d] # <<>>
  BY DEF Run
<1>2. Op(d).do = "handle" /\ Op(d).signal.type = "offer" => Op(d).signal.seq > 0
  BY <1>1, HeadWaits DEF AboutSignal, Sound
<1>3. Becomes(d)
  BY <1>2, RunBecomes DEF Begun
<1> QED BY <1>1, <1>3, KeepsResult, OpensResult, AnswersResult, HearsResult, RollsResult,
           AppliesOfferResult, AppliesAnswerResult, OffersAgainResult DEF Becomes

\* What waits behind an operation, with what it queued.
Behind(t, m) == Tail(t) \o m

\* Every member of u is one of t or of m.
MadeOf(u, t, m) ==
  \A i \in 1..Len(u) : (\E k \in 1..Len(t) : u[i] = t[k]) \/ (\E k \in 1..Len(m) : u[i] = m[k])

LEMMA TailElements ==
  ASSUME NEW t \in Seq(Ops), t # <<>>, NEW m \in Seq(Ops), NEW u, u = Behind(t, m)
  PROVE  u \in Seq(Ops) /\ MadeOf(u, t, m)
<1>1. Tail(t) \in Seq(Ops) /\ Len(Tail(t)) = Len(t) - 1 /\ Len(t) \in Nat /\ Len(m) \in Nat
  OBVIOUS
<1>2. u \in Seq(Ops) /\ Len(u) = Len(t) - 1 + Len(m)
  BY <1>1 DEF Behind
<1>3. \A i \in 1..Len(u) : u[i] = IF i <= Len(t) - 1 THEN Tail(t)[i] ELSE m[i - (Len(t) - 1)]
  BY <1>1, <1>2 DEF Behind
<1>4. \A i \in 1..Len(t) - 1 : Tail(t)[i] = t[i + 1] /\ i + 1 \in 1..Len(t)
  BY <1>1
<1>5. ASSUME NEW i \in 1..Len(u)
      PROVE  (\E k \in 1..Len(t) : u[i] = t[k]) \/ (\E k \in 1..Len(m) : u[i] = m[k])
  <2>1. CASE i <= Len(t) - 1
    <3>1. u[i] = t[i + 1] /\ i + 1 \in 1..Len(t)
      BY <1>1, <1>2, <1>3, <1>4, <2>1
    <3> QED BY <3>1
  <2>2. CASE ~(i <= Len(t) - 1)
    <3>1. u[i] = m[i - (Len(t) - 1)] /\ i - (Len(t) - 1) \in 1..Len(m)
      BY <1>1, <1>2, <1>3, <2>2
    <3> QED BY <3>1
  <2> QED BY <2>1, <2>2
<1> QED BY <1>2, <1>5 DEF MadeOf

LEMMA AppendElements ==
  ASSUME NEW t \in Seq(Ops), NEW op \in Ops, NEW u, u = Append(t, op)
  PROVE  /\ u \in Seq(Ops)
         /\ \A i \in 1..Len(u) : u[i] = op \/ \E k \in 1..Len(t) : u[i] = t[k]
<1>1. u \in Seq(Ops) /\ Len(u) = Len(t) + 1 /\ Len(t) \in Nat
  OBVIOUS
<1>2. \A i \in 1..Len(u) : IF i <= Len(t) THEN u[i] = t[i] /\ i \in 1..Len(t) ELSE u[i] = op
  BY <1>1
<1> QED BY <1>1, <1>2

\* A single operation is well when it is one of these.
LEMMA FollowedIsWell ==
  ASSUME NEW more \in Seq(Ops), NEW p, Followed(more, p), NEW i \in 1..Len(more)
  PROVE  /\ more[i].do \in AboutSignal => Sound(more[i].signal)
         /\ p.conn # None
<1>1. CASE more = <<>>
  BY <1>1
<1>2. CASE more \in {<<Do("open")>>, <<Do("offer")>>} /\ p.conn # None
  <2>1. more[i] \in {Do("open"), Do("offer")}
    BY <1>2
  <2> QED BY <1>2, <2>1 DEF Do, AboutSignal
<1>3. CASE \E s \in Signal : more = <<About("deliver", s)>> /\ Sound(s) /\ s.gen = p.gen /\ p.conn # None
  <2>1. PICK s \in Signal : more = <<About("deliver", s)>> /\ Sound(s) /\ p.conn # None
    BY <1>3
  <2>2. more[i] = About("deliver", s)
    BY <2>1
  <2> QED BY <2>1, <2>2 DEF About
<1> QED BY <1>1, <1>2, <1>3 DEF Followed

LEMMA RunKeepsBegun ==
  ASSUME Begun, NEW d \in Device, tasks[d] # <<>>,
         NEW p \in Peer, NEW out \in SUBSET Signal, NEW more \in Seq(Ops), Result(d, p, out, more),
         strayed' \in BOOLEAN
  PROVE  Begun'
<1>0. PICK u : u = Behind(tasks[d], more)
  OBVIOUS
<1>1. /\ peer' = [peer EXCEPT ![d] = p] /\ relay' = relay \cup out
      /\ tasks' = [tasks EXCEPT ![d] = u] /\ asked' = asked
  BY <1>0 DEF Result, Finish, Behind
<1>2. /\ peer \in [Device -> Peer] /\ tasks \in [Device -> Seq(Ops)] /\ relay \subseteq Signal
      /\ asked \in 0..MaxAsks
  BY DEF Begun, Typed
<1>3. /\ u \in Seq(Ops)
      /\ \A i \in 1..Len(u) : (\E k \in 1..Len(tasks[d]) : u[i] = tasks[d][k])
                              \/ (\E k \in 1..Len(more) : u[i] = more[k])
  <2>1. PICK t \in Seq(Ops) : t = tasks[d]
    BY <1>2
  <2>2. t # <<>> /\ u = Behind(t, more)
    BY <1>0, <2>1
  <2>3. u \in Seq(Ops) /\ MadeOf(u, t, more)
    BY <2>1, <2>2, TailElements
  <2> QED BY <2>1, <2>3 DEF MadeOf
<1>4. Typed'
  BY <1>1, <1>2, <1>3 DEF Typed
<1>5. /\ peer'[d] = p /\ tasks'[d] = u
      /\ \A e \in Device : e # d => peer'[e] = peer[e] /\ tasks'[e] = tasks[e]
  BY <1>1, <1>2
<1>6. \A e \in Device : Healthy(peer'[e])
  BY <1>5 DEF Begun, Result
<1>7. \A s \in relay' : Sound(s)
  BY <1>1 DEF Begun, Result
<1>8. ASSUME NEW e \in Device
      PROVE  \A op \in {tasks'[e][i] : i \in 1..Len(tasks'[e])} :
               /\ op.do \in AboutSignal => Sound(op.signal)
               /\ op.do \in {"offer", "deliver"} => peer'[e].conn # None
  <2>0. WaitsWell(e)
    BY DEF Begun
  <2>1. CASE e # d
    BY <1>5, <2>0, <2>1 DEF WaitsWell, Waiting
  <2>2. CASE e = d
    <3> SUFFICES ASSUME NEW i \in 1..Len(u)
                 PROVE  /\ u[i].do \in AboutSignal => Sound(u[i].signal)
                        /\ u[i].do \in {"offer", "deliver"} => p.conn # None
      BY <1>5, <2>2
    <3>1. CASE \E k \in 1..Len(tasks[d]) : u[i] = tasks[d][k]
      <4>1. u[i] \in Waiting(d)
        BY <3>1 DEF Waiting
      <4> QED BY <2>0, <2>2, <4>1 DEF WaitsWell, Result, GivesWay
    <3>2. CASE \E k \in 1..Len(more) : u[i] = more[k]
      BY <3>2, FollowedIsWell DEF Result
    <3> QED BY <1>3, <3>1, <3>2
  <2> QED BY <2>1, <2>2
<1> QED BY <1>4, <1>6, <1>7, <1>8 DEF Begun, WaitsWell, Waiting

LEMMA QueueKeepsBegun ==
  ASSUME Begun, NEW d \in Device, NEW op \in Ops, Enqueue(d, op),
         peer' = peer, relay' = relay, asked' \in 0..MaxAsks, strayed' = strayed,
         op.do \in AboutSignal => Sound(op.signal),
         op.do \in {"offer", "deliver"} => peer[d].conn # None
  PROVE  Begun'
<1> DEFINE u == Append(tasks[d], op)
<1>1. tasks' = [tasks EXCEPT ![d] = u]
  BY DEF Enqueue
<1>2. /\ peer \in [Device -> Peer] /\ tasks \in [Device -> Seq(Ops)] /\ relay \subseteq Signal
      /\ strayed \in BOOLEAN
  BY DEF Begun, Typed
<1>3. /\ u \in Seq(Ops)
      /\ \A i \in 1..Len(u) : u[i] = op \/ \E k \in 1..Len(tasks[d]) : u[i] = tasks[d][k]
  BY <1>2, AppendElements
<1> HIDE DEF u
<1>4. Typed'
  BY <1>1, <1>2, <1>3 DEF Typed
<1>5. tasks'[d] = u /\ \A e \in Device : e # d => tasks'[e] = tasks[e]
  BY <1>1, <1>2
<1>6. \A e \in Device : Healthy(peer'[e])
  BY DEF Begun
<1>7. \A s \in relay' : Sound(s)
  BY DEF Begun
<1>8. ASSUME NEW e \in Device
      PROVE  \A o \in {tasks'[e][i] : i \in 1..Len(tasks'[e])} :
               /\ o.do \in AboutSignal => Sound(o.signal)
               /\ o.do \in {"offer", "deliver"} => peer'[e].conn # None
  <2>0. WaitsWell(e)
    BY DEF Begun
  <2>1. CASE e # d
    BY <1>5, <2>0, <2>1 DEF WaitsWell, Waiting
  <2>2. CASE e = d
    BY <1>3, <1>5, <2>0, <2>2 DEF WaitsWell, Waiting
  <2> QED BY <2>1, <2>2
<1> QED BY <1>4, <1>6, <1>7, <1>8 DEF Begun, WaitsWell, Waiting

LEMMA GatherKeepsBegun ==
  ASSUME Begun, NEW d \in Device, Gather(d)
  PROVE  /\ Begun' /\ tasks' = tasks /\ strayed' = strayed
         /\ \E q \in Peer : /\ peer' = [peer EXCEPT ![d] = q]
                            /\ q.gen = peer[d].gen /\ q.conn = peer[d].conn /\ q.session = peer[d].session
<1> DEFINE o == peer[d]
           q == [QueuedIce(o) EXCEPT !.gathered = TRUE]
<1>1. /\ o.conn # None /\ peer' = [peer EXCEPT ![d] = q] /\ relay' = relay \cup Latest(d, q)
      /\ tasks' = tasks /\ asked' = asked /\ strayed' = strayed
  BY DEF Gather, QueuedIce
<1>2. /\ peer \in [Device -> Peer] /\ tasks \in [Device -> Seq(Ops)] /\ relay \subseteq Signal
      /\ asked \in 0..MaxAsks /\ strayed \in BOOLEAN
  BY DEF Begun, Typed
<1>3. /\ q \in Peer /\ q.gen = o.gen /\ q.conn = o.conn /\ q.session = o.session
      /\ \A b \in q.queue : b \in o.queue \/ b.seq = o.sent + 1
  <2>1. PICK r : r = QueuedIce(o)
    OBVIOUS
  <2>2. /\ r \in Peer /\ r.gen = o.gen /\ r.conn = o.conn /\ r.session = o.session
        /\ \A b \in r.queue : b \in o.queue \/ b.seq = o.sent + 1
    BY <1>2, <2>1, QueuedIceIs
  <2>3. q = [r EXCEPT !.gathered = TRUE]
    BY <2>1
  <2> HIDE DEF q, o
  <2> QED BY <2>2, <2>3 DEF Peer
<1> HIDE DEF q
<1>4. o.sent \in Nat /\ Healthy(o)
  BY <1>2 DEF Peer, Begun
<1>5. Healthy(q)
  <2> HIDE DEF o
  <2> QED BY <1>1, <1>3, <1>4 DEF Healthy
<1>6. Latest(d, q) \in SUBSET Signal /\ \A s \in Latest(d, q) : Sound(s)
  BY <1>3, <1>5, LatestIs, LatestIsSound
<1>7. Typed'
  BY <1>1, <1>2, <1>3, <1>6 DEF Typed
<1>8. peer'[d] = q /\ \A e \in Device : e # d => peer'[e] = peer[e]
  BY <1>1, <1>2
<1>9. \A e \in Device : Healthy(peer'[e]) /\ (peer[e].conn # None => peer'[e].conn # None)
  BY <1>1, <1>3, <1>5, <1>8 DEF Begun
<1>10. \A s \in relay' : Sound(s)
  BY <1>1, <1>6 DEF Begun
<1>11. \A e \in Device : WaitsWell(e)'
  BY <1>1, <1>9 DEF Begun, WaitsWell, Waiting
<1> QED BY <1>1, <1>3, <1>7, <1>9, <1>10, <1>11 DEF Begun

\* The signals a device would repeat, and its acks.
LEMMA UnackedIsSound ==
  ASSUME Begun, NEW d \in Device, NEW s \in Unacked(d)
  PROVE  s \in Signal /\ Sound(s) /\ \E b \in peer[d].queue : s = Stamped(d, peer[d], b)
<1>1. PICK b \in peer[d].queue : s = Stamped(d, peer[d], b)
  BY DEF Unacked
<1>2. peer[d] \in Peer /\ Healthy(peer[d])
  BY DEF Begun, Typed
<1>3. b \in Body /\ b.seq > 0 /\ peer[d].conn # None
  BY <1>2 DEF Healthy, Peer
<1>4. s \in Signal /\ s.gen = peer[d].gen /\ s.seq = b.seq
  BY <1>1, <1>2, <1>3, StampedIs
<1> QED BY <1>1, <1>2, <1>3, <1>4 DEF Healthy, Sound

Ack(d) == Stamped(d, peer[d], Bare("ack"))

LEMMA AckIsSound ==
  ASSUME Begun, NEW d \in Device, peer[d].expected > 1
  PROVE  /\ Ack(d) \in Signal /\ Sound(Ack(d)) /\ peer[d].conn # None
         /\ Ack(d).from = d /\ Ack(d).gen = peer[d].gen /\ Ack(d).conn = peer[d].conn
         /\ Ack(d).to = peer[d].to /\ Ack(d).type = "ack"
<1>1. PICK b : b = Bare("ack")
  OBVIOUS
<1>2. b \in Body /\ b.type = "ack"
  BY <1>1, BareIs
<1>3. peer[d] \in Peer /\ Healthy(peer[d])
  BY DEF Begun, Typed
<1>4. PICK s : s = Stamped(d, peer[d], b)
  OBVIOUS
<1>5. Ack(d) = s
  BY <1>1, <1>4 DEF Ack
<1>6. /\ s \in Signal /\ s.from = d /\ s.gen = peer[d].gen /\ s.conn = peer[d].conn
      /\ s.to = peer[d].to /\ s.type = "ack"
  BY <1>2, <1>3, <1>4, StampedIs
<1>7. peer[d].conn # None /\ peer[d].gen > 0
  BY <1>3 DEF Healthy
<1> QED BY <1>5, <1>6, <1>7 DEF Sound

\* What arrives comes from the far end, and is sound.
LEMMA ArrivesSound ==
  ASSUME Begun, NEW d \in Device, ArriveLate(d) \/ ArriveRetried(d) \/ ArriveAck(d)
  PROVE  \E s \in Signal :
           /\ Sound(s) /\ Enqueue(d, About("handle", s)) /\ peer' = peer /\ relay' = relay /\ asked' = asked /\ strayed' = strayed
           /\ \/ s \in relay /\ s.from = Far(d)
              \/ s \in Unacked(Far(d))
              \/ s = Ack(Far(d)) /\ peer[Far(d)].expected > 1
<1>1. Far(d) \in Device
  BY TwoDevices
<1>2. CASE ArriveLate(d)
  <2>1. PICK s \in relay : s.from = Far(d) /\ Arrive(d, s)
    BY <1>2 DEF ArriveLate
  <2>2. s \in Signal /\ Sound(s)
    BY DEF Begun, Typed
  <2> QED BY <2>1, <2>2 DEF Arrive
<1>3. CASE ArriveRetried(d)
  <2>1. PICK s \in Unacked(Far(d)) : Arrive(d, s)
    BY <1>3 DEF ArriveRetried
  <2>2. s \in Signal /\ Sound(s)
    BY <1>1, UnackedIsSound
  <2> QED BY <2>1, <2>2 DEF Arrive
<1>4. CASE ArriveAck(d)
  <2>1. peer[Far(d)].expected > 1 /\ Arrive(d, Ack(Far(d)))
    BY <1>4 DEF ArriveAck, Ack
  <2>2. Ack(Far(d)) \in Signal /\ Sound(Ack(Far(d)))
    BY <1>1, <2>1, AckIsSound
  <2> QED BY <2>1, <2>2 DEF Arrive
<1> QED BY <1>2, <1>3, <1>4

LEMMA AboutIs ==
  ASSUME NEW s \in Signal
  PROVE  /\ About("handle", s) \in Ops
         /\ About("handle", s).do = "handle" /\ About("handle", s).signal = s
BY DEF About, Ops, AboutSignal

LEMMA DoIs ==
  ASSUME NEW y \in {"start", "open", "restart", "offer"}
  PROVE  Do(y) \in Ops /\ Do(y).do = y
BY DEF Do, Ops

-----------------------------------------------------------------------------
(* A step *)

\* An operation is queued from outside: a call, or a signal of the far end.
Arriving(d, s) ==
  /\ Sound(s)
  /\ \/ s \in relay /\ s.from = Far(d)
     \/ s \in Unacked(Far(d))
     \/ s = Ack(Far(d)) /\ peer[Far(d)].expected > 1

Coming(d, op) ==
  \/ op = Do("start")
  \/ op = Do("open") /\ "rebuild" \in Asks /\ peer[d].conn # None
  \/ op = Do("restart") /\ "heal" \in Asks /\ peer[d].conn # None
  \/ op = Do("offer") /\ "disconnect" \in Asks /\ peer[d].conn # None
  \/ \E s \in Signal : op = About("handle", s) /\ Arriving(d, s)

Comes(d, op) ==
  /\ Enqueue(d, op) /\ peer' = peer /\ relay' = relay /\ asked' \in 0..MaxAsks
  /\ strayed' = strayed /\ Coming(d, op)

LEMMA CallComes ==
  ASSUME Begun, NEW d \in Device, CallStart(d) \/ AskRebuild(d) \/ AskHeal(d) \/ Disconnect(d)
  PROVE  \E op \in Ops : Comes(d, op)
<1>1. asked \in 0..MaxAsks /\ MaxAsks \in Nat
  BY PairAssumption DEF Begun, Typed
<1>2. CASE CallStart(d)
  <2>1. Comes(d, Do("start"))
    BY <1>1, <1>2 DEF CallStart, Comes, Coming
  <2> QED BY <2>1, DoIs
<1>3. ASSUME NEW y, Ask(d, y)
      PROVE  Enqueue(d, Do(y)) /\ peer' = peer /\ relay' = relay /\ asked' \in 0..MaxAsks /\ strayed' = strayed /\ peer[d].conn # None
  BY <1>1, <1>3 DEF Ask
<1>4. CASE AskRebuild(d)
  <2>1. Comes(d, Do("open"))
    BY <1>3, <1>4 DEF AskRebuild, Comes, Coming
  <2> QED BY <2>1, DoIs
<1>5. CASE AskHeal(d)
  <2>1. Comes(d, Do("restart"))
    BY <1>3, <1>5 DEF AskHeal, Comes, Coming
  <2> QED BY <2>1, DoIs
<1>6. CASE Disconnect(d)
  <2>1. Comes(d, Do("offer"))
    BY <1>3, <1>6 DEF Disconnect, Comes, Coming
  <2> QED BY <2>1, DoIs
<1> QED BY <1>2, <1>4, <1>5, <1>6

LEMMA SignalComes ==
  ASSUME Begun, NEW d \in Device, ArriveLate(d) \/ ArriveRetried(d) \/ ArriveAck(d)
  PROVE  \E op \in Ops : Comes(d, op)
<1>1. PICK s \in Signal :
        /\ Sound(s) /\ Enqueue(d, About("handle", s)) /\ peer' = peer /\ relay' = relay /\ asked' = asked /\ strayed' = strayed
        /\ \/ s \in relay /\ s.from = Far(d)
           \/ s \in Unacked(Far(d))
           \/ s = Ack(Far(d)) /\ peer[Far(d)].expected > 1
  BY ArrivesSound
<1>2. asked' \in 0..MaxAsks
  BY <1>1 DEF Begun, Typed
<1>3. Comes(d, About("handle", s))
  BY <1>1, <1>2 DEF Comes, Coming, Arriving
<1> QED BY <1>3, AboutIs

LEMMA NextIs ==
  ASSUME Begun, [Next]_vars
  PROVE  \/ UNCHANGED vars
         \/ \E d \in Device : Run(d) \/ Gather(d) \/ \E op \in Ops : Comes(d, op)
<1>1. CASE Next
  <2>1. PICK d \in Device :
          \/ Run(d) \/ CallStart(d) \/ AskRebuild(d) \/ AskHeal(d) \/ Disconnect(d) \/ Gather(d)
          \/ ArriveLate(d) \/ ArriveRetried(d) \/ ArriveAck(d)
    BY <1>1 DEF Next
  <2> QED BY <2>1, CallComes, SignalComes
<1> QED BY <1>1

LEMMA ComesKeepsBegun ==
  ASSUME Begun, NEW d \in Device, NEW op \in Ops, Comes(d, op)
  PROVE  Begun'
<1>1. op.do \in AboutSignal => Sound(op.signal)
  <2>1. \A y \in {"start", "open", "restart", "offer"} : Do(y).do \notin AboutSignal
    BY DEF Do, AboutSignal
  <2> QED BY <2>1, AboutIs DEF Comes, Coming, Arriving
<1>2. op.do \in {"offer", "deliver"} => peer[d].conn # None
  <2>1. \A y \in {"start", "open", "restart"} : Do(y).do \notin {"offer", "deliver"}
    BY DEF Do
  <2> QED BY <2>1, AboutIs DEF Comes, Coming
<1> QED BY <1>1, <1>2, QueueKeepsBegun DEF Comes

\* The SlotPeer of a device moves to p in a step.
Moves(d, p) == peer'[d] = p /\ \A e \in Device : e # d => peer'[e] = peer[e]

LEMMA NextKeepsBegun ==
  ASSUME Begun, [Next]_vars
  PROVE  /\ Begun'
         /\ \/ peer' = peer
            \/ \E d \in Device, p \in Peer : Moves(d, p) /\ GivesWay(d, p)
<1>1. CASE UNCHANGED vars
  BY <1>1 DEF vars, Begun, Typed, WaitsWell, Waiting
<1>2. ASSUME NEW d \in Device, Run(d)
      PROVE  Begun' /\ \E p \in Peer : Moves(d, p) /\ GivesWay(d, p)
  <2>1. /\ tasks[d] # <<>>
        /\ \E p \in Peer, out \in SUBSET Signal, more \in Seq(Ops) : Result(d, p, out, more)
    BY <1>2, RunResult
  <2>2. PICK p \in Peer, out \in SUBSET Signal, more \in Seq(Ops) : Result(d, p, out, more)
    BY <2>1
  <2>3. Begun'
    <3>1. strayed' = (strayed \/ Strays(d))
      BY <1>2 DEF Run
    <3>2. strayed' \in BOOLEAN
      BY <3>1
    <3> QED BY <2>1, <2>2, <3>2, RunKeepsBegun
  <2>4. Moves(d, p) /\ GivesWay(d, p)
    BY <2>2 DEF Result, Finish, Moves, Begun, Typed
  <2> QED BY <2>3, <2>4
<1>3. ASSUME NEW d \in Device, Gather(d)
      PROVE  Begun' /\ \E p \in Peer : Moves(d, p) /\ GivesWay(d, p)
  <2>1. /\ Begun'
        /\ \E q \in Peer : /\ peer' = [peer EXCEPT ![d] = q]
                           /\ q.gen = peer[d].gen /\ q.conn = peer[d].conn /\ q.session = peer[d].session
    BY <1>3, GatherKeepsBegun
  <2> QED BY <2>1 DEF Moves, GivesWay, Begun, Typed
<1>4. ASSUME NEW d \in Device, NEW op \in Ops, Comes(d, op)
      PROVE  Begun' /\ peer' = peer
  BY <1>4, ComesKeepsBegun DEF Comes
<1> QED BY <1>1, <1>2, <1>3, <1>4, NextIs DEF vars

LEMMA UnopenedIs ==
  /\ Unopened \in Peer
  /\ Unopened.conn = None /\ Unopened.gen = 0 /\ Unopened.queue = {} /\ Unopened.expected = 1
  /\ Unopened.session = NoSession
BY DEF Unopened, Peer, None

LEMMA InitBegun ==
  ASSUME Init
  PROVE  Begun
<1>1. Typed
  <2>1. strayed \in BOOLEAN
    BY DEF Init
  <2>3. asked \in 0..MaxAsks
    BY PairAssumption DEF Init
  <2>2. /\ peer \in [Device -> Peer] /\ relay \subseteq Signal
        /\ tasks \in [Device -> Seq(Ops)]
    BY UnopenedIs DEF Init
  <2> QED BY <2>1, <2>2, <2>3 DEF Typed
<1>2. \A d \in Device : Healthy(peer[d])
  BY UnopenedIs DEF Init, Healthy
<1>3. \A d \in Device : WaitsWell(d)
  BY DEF Init, WaitsWell, Waiting
<1>4. \A s \in relay : Sound(s)
  BY DEF Init
<1> QED BY <1>1, <1>2, <1>3, <1>4 DEF Begun

LEMMA AlwaysBegun == Spec => []Begun
<1>1. Init => Begun
  BY InitBegun
<1>2. Begun /\ [Next]_vars => Begun'
  BY NextKeepsBegun
<1> QED BY <1>1, <1>2, PTL DEF Spec

LEMMA OpsAreOperations == Seq(Ops) \subseteq Seq(Operation)
<1>1. Ops \subseteq Operation
  BY DEF Ops, Operation, AboutSignal
<1> QED BY <1>1

(* Types: each SlotPeer keeps its shape, each queued operation is one of #operations  *)
(* and each signal a body as the channel stamps it, however long the pair goes on      *)
(* (src/slot-peer.ts, src/signal-channel.ts).                                          *)
THEOREM TypeCorrect == Spec => []TypeOK
<1>1. Begun => TypeOK
  BY OpsAreOperations DEF Begun, Typed, TypeOK
<1> QED BY <1>1, AlwaysBegun, PTL

(* The impolite end gives its connection up only for a higher generation, whatever    *)
(* is asked of the pair, whatever waits and whatever the relay repeats: a rollback, a   *)
(* foreign sender or a glare replaces the connection inside a generation at the polite *)
(* end only (decideOffer, #handleOffer).                                               *)
THEOREM TheImpoliteEndStays == Spec => ImpoliteKeepsItsConnection
<1>1. ASSUME Begun, [Next]_vars
      PROVE  \A d \in Device \ {Polite} : peer'[d].conn # peer[d].conn => peer'[d].gen > peer[d].gen
  BY <1>1, NextKeepsBegun DEF Moves, GivesWay
<1>2. Begun /\ [Next]_vars =>
        [\A d \in Device \ {Polite} : peer'[d].conn # peer[d].conn => peer'[d].gen > peer[d].gen]_vars
  BY <1>1
<1> QED BY <1>2, AlwaysBegun, PTL DEF Spec, ImpoliteKeepsItsConnection

-----------------------------------------------------------------------------
(* Two ends that have not strayed *)

\* How far a connection is.  This side opened it and offers,
Calling(p) ==
  p.outstanding = 1 /\ p.opening = 1 /\ p.offered /\ p.session = NoSession
\* its offer is answered and the answer is not delivered,
Reached(p) ==
  /\ p.outstanding = None /\ p.opening = 1 /\ p.offered /\ p.session = NoSession
  /\ p.to # None /\ p.expected > 1
\* or is; the far end opened it and its offer is not delivered,
Called(p) ==
  p.outstanding = None /\ ~p.offered /\ p.session = NoSession /\ p.to # None /\ p.expected > 1
\* or is.
Agreed(p, opener) ==
  /\ p.outstanding = None /\ ~p.offered /\ p.to # None /\ p.expected > 1
  /\ p.session # NoSession /\ p.session.offerer = opener /\ p.session.seq = 1 /\ p.session.gen = p.gen

\* A delivery that was released on the connection p has now.
Live(p, op) == op.do = "deliver" /\ op.signal.gen = p.gen
Brings(p, W, y) == \E op \in W : Live(p, op) /\ op.signal.type = y

\* W is what waits at d.
Phase(d, p, W) ==
  \/ p.conn = None /\ ~p.opener /\ p.outstanding = None /\ p.to = None /\ p.session = NoSession
  \/ /\ p.conn # None /\ p.opener
     /\ Calling(p) \/ (Reached(p) /\ Brings(p, W, "answer")) \/ Agreed(p, d)
  \/ /\ p.conn # None /\ ~p.opener
     /\ (Called(p) /\ Brings(p, W, "offer")) \/ (Agreed(p, Far(d)) /\ p.session.far = p.to)

\* A connection proposes its opening offer or answers one.
Proposes(p) ==
  \A b \in p.queue :
    /\ b.type = "offer" => p.opener /\ b.seq = 1 /\ b.slots
    /\ b.type = "answer" => ~p.opener /\ p.session # NoSession /\ b.re = 1

\* What waits to be delivered was released on this connection or on an older one.
Delivered(p, W) ==
  \A op \in W :
    op.do = "deliver" =>
      LET s == op.signal
      IN /\ p.conn # None /\ s.gen <= p.gen
         /\ s.gen = p.gen =>
              /\ s.type \in {"offer", "answer", "ice"}
              /\ s.type = "offer" => ~p.opener /\ s.conn = p.to
              /\ s.type = "answer" =>
                   p.opener /\ ~Calling(p) /\ s.conn = p.to /\ s.to \in {None, p.conn}

Local(d, p, W) ==
  p.made = p.conn /\ Phase(d, p, W) /\ Proposes(p) /\ Delivered(p, W)

\* What a signal tells of the end that sent it, p, and of the one it is for, q.
Tells(s, p, q) ==
  /\ s.gen \in 1..p.gen /\ s.conn \in 1..p.conn
  /\ s.gen = p.gen /\ s.conn # p.conn => s.from = Polite /\ ~p.opener
  /\ s.to # None => s.gen <= q.gen
  /\ s.type = "offer" =>
       s.seq = 1 /\ s.slots /\ (s.gen = p.gen /\ s.conn = p.conn => p.opener)
  /\ s.type = "answer" =>
       /\ s.re = 1 /\ s.to # None
       /\ s.gen = p.gen => s.conn = p.conn /\ ~p.opener /\ p.to = s.to /\ p.session # NoSession
Said(s) == Tells(s, peer[s.from], peer[Far(s.from)])

\* What d's end, p, shows of the far one, q.
Across(d, p, q) ==
  /\ p.to # None => q.gen >= p.gen
  /\ p.opener /\ p.session # NoSession /\ q.gen = p.gen =>
       q.conn = p.session.far /\ ~q.opener /\ q.to = p.conn /\ q.session # NoSession
  /\ p.conn # None /\ ~p.opener /\ q.gen = p.gen =>
       (q.conn = p.to /\ q.opener) \/ (Far(d) = Polite /\ ~q.opener)

Expects(d) ==
  \A op \in Waiting(d) :
    op.do \in AboutSignal =>
      op.signal \in Signal /\ op.signal.from = Far(d) /\ Said(op.signal)

Paired ==
  /\ \A d \in Device :
       Local(d, peer[d], Waiting(d)) /\ Across(d, peer[d], peer[Far(d)]) /\ Expects(d)
  /\ \A s \in relay : Said(s)

\* How a device's end may change from o to p.
Forward(d, o, p) ==
  \/ /\ p.conn = o.conn /\ p.gen = o.gen /\ p.opener = o.opener
     /\ o.to # None => p.to = o.to
     /\ o.session # NoSession => p.session # NoSession
  \/ /\ p.conn > o.conn
     /\ p.gen > o.gen \/ (p.gen = o.gen /\ d = Polite /\ o.opener /\ ~p.opener)

LEMMA PhaseGives ==
  ASSUME NEW d \in Device, NEW p, NEW W, Phase(d, p, W)
  PROVE  /\ p.session # NoSession => p.to # None
         /\ p.conn # None /\ ~p.opener => p.to # None
         /\ p.opener => p.conn # None
         /\ p.outstanding # None => p.opener /\ Calling(p)
<1>1. p.session # NoSession => p.to # None
  BY DEF Phase, Calling, Reached, Called, Agreed
<1>2. p.conn # None /\ ~p.opener => p.to # None
  BY DEF Phase, Called, Agreed
<1>3. p.opener => p.conn # None
  BY DEF Phase
<1>4. p.outstanding # None => p.opener /\ Calling(p)
  BY DEF Phase, Reached, Called, Agreed
<1> QED BY <1>1, <1>2, <1>3, <1>4

\* What was told stays true as the sender moves on, and as the receiver does.
LEMMA TellsOn ==
  ASSUME NEW d \in Device, NEW o \in Peer, NEW p \in Peer, NEW q, NEW s \in Signal,
         s.from = d, Forward(d, o, p), Tells(s, o, q)
  PROVE  Tells(s, p, q)
<1>1. /\ o.gen \in Nat /\ o.conn \in Nat /\ p.gen \in Nat /\ p.conn \in Nat
      /\ s.gen \in Nat /\ s.conn \in Nat
  BY DEF Peer, Signal
<1>2. s.gen \in 1..o.gen /\ s.conn \in 1..o.conn
  BY DEF Tells
<1>3. s.gen \in 1..p.gen /\ s.conn \in 1..p.conn
  BY <1>1, <1>2 DEF Forward
<1>4. CASE p.conn = o.conn /\ p.gen = o.gen /\ p.opener = o.opener
  BY <1>1, <1>3, <1>4 DEF Forward, Tells
<1>5. CASE p.conn > o.conn /\ p.gen > o.gen
  <2>1. s.gen # p.gen
    BY <1>1, <1>2, <1>5
  <2> QED BY <1>3, <2>1 DEF Tells
<1>6. CASE p.conn > o.conn /\ p.gen = o.gen /\ d = Polite /\ o.opener /\ ~p.opener
  <2>1. s.conn # p.conn
    BY <1>1, <1>2, <1>6
  <2> QED BY <1>3, <1>6, <2>1 DEF Tells
<1> QED BY <1>4, <1>5, <1>6 DEF Forward

LEMMA TellsStill ==
  ASSUME NEW d \in Device, NEW o \in Peer, NEW p \in Peer, NEW r, NEW s \in Signal,
         Forward(d, o, p), Tells(s, r, o)
  PROVE  Tells(s, r, p)
<1>1. o.gen \in Nat /\ p.gen \in Nat /\ s.gen \in Nat
  BY DEF Peer, Signal
<1>2. o.gen <= p.gen
  BY <1>1 DEF Forward
<1>3. s.to # None => s.gen <= p.gen
  BY <1>1, <1>2 DEF Tells
<1> QED BY <1>3 DEF Tells

LEMMA AcrossStill ==
  ASSUME NEW d \in Device, NEW e \in Device, Far(e) = d,
         NEW o \in Peer, NEW p \in Peer, NEW r \in Peer, NEW W, Phase(e, r, W),
         Forward(d, o, p), Across(e, r, o)
  PROVE  Across(e, r, p)
<1>1. o.gen \in Nat /\ p.gen \in Nat /\ r.gen \in Nat /\ o.conn \in Nat
  BY DEF Peer
<1>2. o.gen <= p.gen
  BY <1>1 DEF Forward
<1>3. r.to # None => p.gen >= r.gen
  BY <1>1, <1>2 DEF Across
<1>4. ASSUME r.to # None, p.gen = r.gen
      PROVE  o.gen = r.gen
  BY <1>1, <1>2, <1>4 DEF Across
<1>5. ASSUME r.opener, r.session # NoSession, p.gen = r.gen
      PROVE  p.conn = r.session.far /\ ~p.opener /\ p.to = r.conn /\ p.session # NoSession
  <2>1. r.to # None /\ r.conn # None
    BY <1>5, PhaseGives
  <2>2. o.gen = r.gen
    BY <1>4, <1>5, <2>1
  <2>3. o.conn = r.session.far /\ ~o.opener /\ o.to = r.conn /\ o.session # NoSession
    BY <1>5, <2>2 DEF Across
  <2>4. p.conn = o.conn /\ ~p.opener /\ p.to = o.to /\ p.session # NoSession
    BY <1>1, <1>5, <2>1, <2>2, <2>3 DEF Forward
  <2> QED BY <2>3, <2>4
<1>6. ASSUME r.conn # None, ~r.opener, p.gen = r.gen
      PROVE  (p.conn = r.to /\ p.opener) \/ (Far(e) = Polite /\ ~p.opener)
  <2>1. r.to # None
    BY <1>6, PhaseGives
  <2>2. o.gen = r.gen
    BY <1>4, <1>6, <2>1
  <2>3. (o.conn = r.to /\ o.opener) \/ (Far(e) = Polite /\ ~o.opener)
    BY <1>6, <2>2 DEF Across
  <2> QED BY <1>1, <1>6, <2>2, <2>3 DEF Forward
<1> QED BY <1>3, <1>5, <1>6 DEF Across

\* A step of d's end, with what it published and what it has left to do.
LEMMA MovedKeepsPaired ==
  ASSUME Begun, Paired, NEW d \in Device, NEW p \in Peer, NEW out \in SUBSET Signal,
         Moves(d, p), relay' = relay \cup out,
         \A e \in Device : e # d => tasks'[e] = tasks[e],
         Forward(d, peer[d], p), Local(d, p, Waiting(d)'), Across(d, p, peer[Far(d)]),
         \A s \in out : s.from = d /\ Tells(s, p, peer[Far(d)]),
         \A op \in Waiting(d)' :
           \/ op \in Waiting(d)
           \/ op.do \in AboutSignal =>
                op.signal \in Signal /\ op.signal.from = Far(d) /\ Said(op.signal)
  PROVE  Paired'
<1>1. /\ Far(d) \in Device /\ Far(d) # d /\ Far(Far(d)) = d
      /\ \A e \in Device : e # d => e = Far(d)
  BY TwoDevices
<1>2. peer[d] \in Peer /\ peer[Far(d)] \in Peer /\ relay \subseteq Signal
  BY <1>1 DEF Begun, Typed
<1>3. /\ peer'[d] = p /\ peer'[Far(d)] = peer[Far(d)] /\ tasks'[Far(d)] = tasks[Far(d)]
      /\ Waiting(Far(d))' = Waiting(Far(d))
  BY <1>1 DEF Moves, Waiting
<1>4. ASSUME NEW s \in Signal, s.from \in Device, Said(s)
      PROVE  Said(s)'
  <2>1. CASE s.from = d
    BY <1>1, <1>2, <1>3, <1>4, <2>1, TellsOn DEF Said
  <2>2. CASE s.from # d
    BY <1>1, <1>2, <1>3, <1>4, <2>2, TellsStill DEF Said
  <2> QED BY <2>1, <2>2
<1>5. \A s \in Signal : s.from \in Device
  BY DEF Signal
<1>6. \A s \in relay' : Said(s)'
  <2>1. \A s \in relay : Said(s)'
    BY <1>2, <1>4, <1>5 DEF Paired
  <2>2. \A s \in out : Said(s)'
    BY <1>3 DEF Said
  <2> QED BY <2>1, <2>2
<1>7. /\ Local(Far(d), peer[Far(d)], Waiting(Far(d))) /\ Across(Far(d), peer[Far(d)], peer[d])
      /\ Expects(Far(d)) /\ Expects(d)
  BY <1>1 DEF Paired
<1>8. Across(Far(d), peer[Far(d)], p)
  BY <1>1, <1>2, <1>7, AcrossStill DEF Local
<1>9. ASSUME NEW e \in Device, NEW op \in Waiting(e)', op.do \in AboutSignal
      PROVE  op.signal \in Signal /\ op.signal.from = Far(e) /\ Said(op.signal)'
  <2>1. op.signal \in Signal /\ op.signal.from = Far(e) /\ Said(op.signal)
    BY <1>1, <1>3, <1>7, <1>9 DEF Expects
  <2>2. PICK s \in Signal : s = op.signal
    BY <2>1
  <2>3. Said(s)'
    BY <1>4, <1>5, <2>1, <2>2
  <2> QED BY <2>1, <2>2, <2>3
<1>10. \A e \in Device : Expects(e)'
  BY <1>9 DEF Expects
<1>11. ASSUME NEW e \in Device
       PROVE  Local(e, peer'[e], Waiting(e)') /\ Across(e, peer'[e], peer'[Far(e)])
  <2>1. CASE e = d
    BY <1>3, <2>1
  <2>2. CASE e = Far(d)
    BY <1>1, <1>3, <1>7, <1>8, <2>2
  <2> QED BY <1>1, <2>1, <2>2
<1> QED BY <1>6, <1>10, <1>11 DEF Paired

-----------------------------------------------------------------------------
(* What an operation leaves of such a pair *)

\* V is what waits once h is over, which waited among W and queued M.
After(W, h, M, V) == V \subseteq W \cup M /\ M \subseteq V /\ W \ {h} \subseteq V
On(t) == {t[i] : i \in 1..Len(t)}

Lands(d, p, out, more) ==
  /\ Finish(d, p, out, more)
  /\ Forward(d, peer[d], p) /\ Across(d, p, peer[Far(d)])
  /\ \A V : After(Waiting(d), Op(d), On(more), V) => Local(d, p, V)
  /\ \A s \in out : s.from = d /\ Tells(s, p, peer[Far(d)])
  /\ \/ more \in {<<>>, <<Do("open")>>, <<Do("offer")>>}
     \/ Op(d).do = "handle" /\ more = <<About("deliver", Op(d).signal)>>

LEMMA OnIs ==
  /\ On(<<>>) = {}
  /\ \A op : On(<<op>>) = {op}
BY DEF On

LEMMA HereIs ==
  ASSUME Begun, Paired, NEW d \in Device, tasks[d] # <<>>
  PROVE  /\ peer[d] \in Peer /\ Healthy(peer[d]) /\ peer[Far(d)] \in Peer
         /\ Op(d) \in Waiting(d)
         /\ Local(d, peer[d], Waiting(d)) /\ Across(d, peer[d], peer[Far(d)])
         /\ Op(d).do \in AboutSignal =>
              /\ Op(d).signal \in Signal /\ Sound(Op(d).signal) /\ Op(d).signal.from = Far(d)
              /\ Tells(Op(d).signal, peer[Far(d)], peer[d])
<1>1. Far(d) \in Device /\ Far(Far(d)) = d
  BY TwoDevices
<1>2. peer[d] \in Peer /\ Healthy(peer[d]) /\ peer[Far(d)] \in Peer
  BY <1>1 DEF Begun, Typed
<1>3. Op(d) \in Waiting(d)
  <2>1. tasks[d] \in Seq(Ops)
    BY DEF Begun, Typed
  <2>2. 1 \in 1..Len(tasks[d]) /\ Op(d) = tasks[d][1]
    BY <2>1 DEF Op
  <2> QED BY <2>2 DEF Waiting
<1>4. Local(d, peer[d], Waiting(d)) /\ Across(d, peer[d], peer[Far(d)]) /\ Expects(d)
  BY DEF Paired
<1>5. Op(d).do \in AboutSignal => Op(d).signal \in Signal /\ Sound(Op(d).signal)
  BY HeadWaits
<1>6. Op(d).do \in AboutSignal =>
        Op(d).signal.from = Far(d) /\ Tells(Op(d).signal, peer[Far(d)], peer[d])
  BY <1>1, <1>3, <1>4 DEF Expects, Said
<1> QED BY <1>2, <1>3, <1>4, <1>5, <1>6

LEMMA StampedTells ==
  ASSUME NEW d \in Device, NEW p \in Peer, NEW q \in Peer, NEW W,
         Healthy(p), p.conn # None, Phase(d, p, W), Across(d, p, q), NEW b \in Body,
         b.type = "offer" => p.opener /\ b.seq = 1 /\ b.slots,
         b.type = "answer" => ~p.opener /\ p.session # NoSession /\ b.re = 1,
         NEW s, s = Stamped(d, p, b)
  PROVE  s.from = d /\ Tells(s, p, q)
<1>1. /\ s.from = d /\ s.gen = p.gen /\ s.conn = p.conn /\ s.to = p.to
      /\ s.type = b.type /\ s.seq = b.seq /\ s.re = b.re /\ s.slots = b.slots
  BY StampedIs
<1>2. p.gen \in Nat /\ p.conn \in Nat /\ q.gen \in Nat /\ p.gen > 0
  BY DEF Peer, Healthy
<1>3. s.gen \in 1..p.gen /\ s.conn \in 1..p.conn
  BY <1>1, <1>2 DEF None
<1>4. s.to # None => s.gen <= q.gen
  BY <1>1, <1>2 DEF Across
<1>5. s.type = "answer" => s.to # None
  BY <1>1, PhaseGives
<1> QED BY <1>1, <1>3, <1>4, <1>5 DEF Tells

LEMMA LatestTells ==
  ASSUME NEW d \in Device, NEW p \in Peer, NEW q \in Peer, NEW W,
         Healthy(p), p.conn # None, Phase(d, p, W), Proposes(p), Across(d, p, q)
  PROVE  \A s \in Latest(d, p) : s.from = d /\ Tells(s, p, q)
<1> SUFFICES ASSUME NEW s \in Latest(d, p) PROVE s.from = d /\ Tells(s, p, q)
  OBVIOUS
<1>1. PICK b \in p.queue : s = Stamped(d, p, b)
  BY LatestIs
<1>2. b \in Body
  BY DEF Peer
<1>3. /\ b.type = "offer" => p.opener /\ b.seq = 1 /\ b.slots
      /\ b.type = "answer" => ~p.opener /\ p.session # NoSession /\ b.re = 1
  BY DEF Proposes
<1> QED BY <1>1, <1>2, <1>3, StampedTells

\* A phase stays that what is over was not to end.
LEMMA PhaseStays ==
  ASSUME NEW d \in Device, NEW p, NEW W, NEW h, NEW M, NEW V, Phase(d, p, W), After(W, h, M, V),
         Reached(p) /\ Live(p, h) => h.signal.type # "answer",
         Called(p) /\ Live(p, h) => h.signal.type # "offer"
  PROVE  Phase(d, p, V)
<1>1. Reached(p) /\ Brings(p, W, "answer") => Brings(p, V, "answer")
  BY DEF Brings, After
<1>2. Called(p) /\ Brings(p, W, "offer") => Brings(p, V, "offer")
  BY DEF Brings, After
<1> QED BY <1>1, <1>2 DEF Phase

LEMMA DeliveredStays ==
  ASSUME NEW p, NEW W, NEW h, NEW M, NEW V, Delivered(p, W), Delivered(p, M), After(W, h, M, V)
  PROVE  Delivered(p, V)
BY DEF Delivered, After

LEMMA AlikeIsLocal ==
  ASSUME NEW d \in Device, NEW p, NEW q, NEW W, Alike(p, q), Local(d, p, W)
  PROVE  Local(d, q, W)
<1>1. Phase(d, q, W)
  BY DEF Local, Phase, Alike, Calling, Reached, Called, Agreed, Brings, Live
<1>2. Proposes(q)
  BY DEF Local, Proposes, Alike
<1>3. Delivered(q, W)
  BY DEF Local, Delivered, Alike, Calling
<1> QED BY <1>1, <1>2, <1>3 DEF Local, Alike

LEMMA AlikeIsForward ==
  ASSUME NEW d \in Device, NEW p, NEW q, NEW r, Alike(p, q), Across(d, p, r)
  PROVE  Forward(d, p, q) /\ Across(d, q, r)
BY DEF Alike, Forward, Across

LEMMA QuietDelivers ==
  ASSUME NEW p, NEW more \in {<<>>, <<Do("open")>>, <<Do("offer")>>}
  PROVE  Delivered(p, On(more))
<1>1. \A op \in On(more) : op.do # "deliver"
  BY OnIs DEF Do
<1> QED BY <1>1 DEF Delivered

LEMMA KeepsLands ==
  ASSUME Begun, Paired, NEW d \in Device, tasks[d] # <<>>, Keeps(d)
  PROVE  \E p \in Peer, out \in SUBSET Signal, more \in Seq(Ops) : Lands(d, p, out, more)
<1>1. PICK p \in Peer, out \in SUBSET Signal, more \in {<<>>, <<Do("open")>>, <<Do("offer")>>} :
        /\ Alike(peer[d], p) /\ Passes(d)
        /\ \A s \in out :
             /\ peer[d].conn # None
             /\ s.from = d /\ s.gen = p.gen /\ s.conn = p.conn /\ s.to = None /\ s.type = "sync"
        /\ Finish(d, p, out, more)
  BY DEF Keeps
<1>2. /\ peer[d] \in Peer /\ Healthy(peer[d]) /\ peer[Far(d)] \in Peer
      /\ Local(d, peer[d], Waiting(d)) /\ Across(d, peer[d], peer[Far(d)])
  BY HereIs
<1>3. Forward(d, peer[d], p) /\ Across(d, p, peer[Far(d)])
  BY <1>1, <1>2, AlikeIsForward
<1>4. Local(d, p, Waiting(d))
  BY <1>1, <1>2, AlikeIsLocal
<1>5. ASSUME NEW V, After(Waiting(d), Op(d), On(more), V)
      PROVE  Local(d, p, V)
  <2>1. Op(d).do = "deliver" =>
          Op(d).signal.type # "offer" /\ (Op(d).signal.type = "answer" => ~p.offered)
    BY <1>1 DEF Passes, Alike
  <2>2. Phase(d, p, V)
    BY <1>4, <1>5, <2>1, PhaseStays DEF Local, Live, Reached
  <2>3. Delivered(p, V)
    BY <1>1, <1>4, <1>5, QuietDelivers, DeliveredStays DEF Local
  <2> QED BY <1>4, <2>2, <2>3 DEF Local
<1>6. ASSUME NEW s \in out
      PROVE  s.from = d /\ Tells(s, p, peer[Far(d)])
  <2>1. /\ s.from = d /\ s.gen = p.gen /\ s.conn = p.conn /\ s.to = None /\ s.type = "sync"
        /\ peer[d].conn # None
    BY <1>1
  <2>2. Healthy(p) /\ p.conn # None
    BY <1>1, <1>2, <2>1, AlikeIsHealthy DEF Alike
  <2>3. p.gen \in Nat /\ p.conn \in Nat /\ p.gen > 0
    BY <2>2 DEF Peer, Healthy
  <2>4. s.gen \in 1..p.gen /\ s.conn \in 1..p.conn
    BY <2>1, <2>2, <2>3 DEF None
  <2> QED BY <2>1, <2>4 DEF Tells
<1>7. Lands(d, p, out, more)
  BY <1>1, <1>3, <1>5, <1>6 DEF Lands
<1> QED BY <1>1, <1>7, MoreIsTyped

\* What waited to be delivered when a connection is replaced is of an older generation, or
\* of no effect.
Past(g, W) ==
  \A op \in W : op.do = "deliver" =>
    op.signal.gen <= g /\ (op.signal.gen = g => op.signal.type = "ice")

LEMMA PastIsDelivered ==
  ASSUME NEW p, NEW W, Past(p.gen, W), p.conn # None
  PROVE  Delivered(p, W)
BY DEF Past, Delivered

LEMMA CallingIsPast ==
  ASSUME NEW p, NEW W, Delivered(p, W), p.opener, Calling(p)
  PROVE  Past(p.gen, W)
BY DEF Past, Delivered

LEMMA OlderIsPast ==
  ASSUME NEW p \in Peer, NEW t \in Seq(Ops), Delivered(p, On(t)), NEW g \in Nat, g > p.gen
  PROVE  Past(g, On(t))
<1> SUFFICES ASSUME NEW op \in On(t), op.do = "deliver"
             PROVE  op.signal.gen <= g /\ op.signal.gen # g
  BY DEF Past
<1>1. op \in Ops
  BY DEF On
<1>2. op.signal \in Signal
  BY <1>1 DEF Ops, AboutSignal
<1>3. op.signal.gen \in Nat /\ p.gen \in Nat
  BY <1>2 DEF Signal, Peer
<1>4. op.signal.gen <= p.gen
  BY DEF Delivered
<1> QED BY <1>3, <1>4

LEMMA OpensLands ==
  ASSUME Begun, Paired, NEW d \in Device, tasks[d] # <<>>, Opens(d)
  PROVE  \E p \in Peer, out \in SUBSET Signal, more \in Seq(Ops) : Lands(d, p, out, more)
<1>1. PICK p \in Peer, g \in Nat :
        /\ Alike(peer[d], p) /\ g > p.gen
        /\ Finish(d, Opening(p, g), Latest(d, Opening(p, g)), <<>>)
  BY DEF Opens
<1>2. /\ peer[d] \in Peer /\ peer[Far(d)] \in Peer /\ Local(d, peer[d], Waiting(d))
  BY HereIs
<1>3. PICK q : q = Opening(p, g)
  OBVIOUS
<1>4. /\ q \in Peer /\ q.gen = g /\ q.made = p.made + 1 /\ q.conn = p.made + 1 /\ q.opener
      /\ q.offered /\ q.opening = 1 /\ q.session = NoSession /\ q.to = None
      /\ q.queue = {[type |-> "offer", seq |-> 1, re |-> 0, slots |-> TRUE]}
      /\ q.outstanding = 1
  BY <1>3, OpeningIs
<1>5. p.gen = peer[d].gen /\ p.made = peer[d].conn /\ p.gen \in Nat /\ p.made \in Nat
  BY <1>1, <1>2 DEF Alike, Local, Peer
<1>6. q.conn > peer[d].conn /\ q.gen > peer[d].gen /\ q.conn # None /\ q.gen > 0
  BY <1>1, <1>4, <1>5 DEF None
<1>7. Forward(d, peer[d], q)
  BY <1>6 DEF Forward
<1>8. \A V : Phase(d, q, V)
  BY <1>4, <1>6 DEF Phase, Calling
<1>9. Proposes(q)
  BY <1>4 DEF Proposes
<1>10. ASSUME NEW V, After(Waiting(d), Op(d), On(<<>>), V)
       PROVE  Local(d, q, V)
  <2>1. tasks[d] \in Seq(Ops) /\ Waiting(d) = On(tasks[d])
    BY DEF Begun, Typed, Waiting, On
  <2>2. Past(g, Waiting(d))
    BY <1>1, <1>2, <1>5, <2>1, OlderIsPast DEF Local
  <2>3. Delivered(q, Waiting(d))
    BY <1>4, <1>6, <2>2, PastIsDelivered
  <2>4. Delivered(q, V)
    BY <1>10, <2>3, QuietDelivers, DeliveredStays
  <2> QED BY <1>4, <1>8, <1>9, <2>4 DEF Local
<1>11. Across(d, q, peer[Far(d)])
  BY <1>4 DEF Across
<1>12. Healthy(q)
  BY <1>4, <1>6 DEF Healthy
<1>13. \A s \in Latest(d, q) : s.from = d /\ Tells(s, q, peer[Far(d)])
  BY <1>2, <1>4, <1>6, <1>8, <1>9, <1>11, <1>12, LatestTells
<1>14. Latest(d, q) \in SUBSET Signal
  BY <1>4, LatestIs
<1>15. Lands(d, q, Latest(d, q), <<>>)
  BY <1>1, <1>3, <1>7, <1>10, <1>11, <1>13 DEF Lands
<1> QED BY <1>4, <1>14, <1>15, MoreIsTyped

LEMMA DeliveryIs ==
  ASSUME NEW s \in Signal, NEW t, t = <<About("deliver", s)>>
  PROVE  /\ t \in Seq(Ops) /\ On(t) = {About("deliver", s)}
         /\ About("deliver", s).do = "deliver" /\ About("deliver", s).signal = s
BY MoreIsTyped, OnIs DEF About

LEMMA AnswersLands ==
  ASSUME Begun, Paired, NEW d \in Device, tasks[d] # <<>>, Answers(d)
  PROVE  \E p \in Peer, out \in SUBSET Signal, more \in Seq(Ops) : Lands(d, p, out, more)
<1>1. PICK s : s = Op(d).signal
  OBVIOUS
<1>2. PICK p \in Peer :
        LET q == Answering(p, s.gen, s.conn, s.seq)
        IN /\ Op(d).do = "handle" /\ s.type = "offer" /\ s.slots
           /\ Alike(peer[d], p)
           /\ \/ p.conn = None
              \/ s.gen > p.gen
              \/ /\ s.gen = p.gen /\ d = Polite /\ s.to = None
                 /\ p.outstanding # None /\ p.outstanding = p.opening
           /\ \/ s.to \in {None, q.conn} /\ Finish(d, Released(q, s), {}, <<About("deliver", s)>>)
              \/ s.to \notin {None, q.conn} /\ Finish(d, q, {}, <<>>)
  BY <1>1 DEF Answers
<1>3. PICK o \in Peer : o = peer[d]
  BY HereIs
<1>4. PICK f \in Peer : f = peer[Far(d)]
  BY HereIs
<1>5. /\ Healthy(o) /\ Local(d, o, Waiting(d))
      /\ s \in Signal /\ Sound(s) /\ s.from = Far(d) /\ Tells(s, f, o)
  BY <1>1, <1>2, <1>3, <1>4, HereIs DEF AboutSignal
<1>6. PICK q : q = Answering(p, s.gen, s.conn, s.seq)
  OBVIOUS
<1>7. /\ o.gen \in Nat /\ o.conn \in Nat /\ f.gen \in Nat /\ s.gen \in Nat /\ s.conn \in Nat
      /\ p.gen = o.gen /\ p.conn = o.conn /\ p.made = o.conn /\ p.outstanding = o.outstanding
  BY <1>2, <1>3, <1>5 DEF Peer, Signal, Alike, Local
<1>8. /\ s.gen > 0 /\ s.gen <= f.gen /\ s.conn # None /\ s.seq = 1
      /\ s.to # None => s.gen <= o.gen
  BY <1>2, <1>5, <1>7 DEF Tells, None
<1>9. s.to = None
  BY <1>2, <1>5, <1>7, <1>8 DEF Healthy
<1>10. /\ q \in Peer /\ q.gen = s.gen /\ q.made = o.conn + 1 /\ q.conn = o.conn + 1 /\ ~q.opener
       /\ ~q.offered /\ q.session = NoSession /\ q.queue = {} /\ q.outstanding = None
  <2>1. s \in Signal /\ s.seq > 0
    BY <1>5, <1>8
  <2>2. /\ q \in Peer /\ q.gen = s.gen /\ q.made = p.made + 1 /\ q.conn = p.made + 1 /\ ~q.opener
        /\ ~q.offered /\ q.session = NoSession /\ q.queue = {} /\ q.outstanding = None
    <3>1. q = Answering(p, s.gen, s.conn, s.seq)
      BY <1>6
    <3>2. s \in Signal
      BY <2>1
    <3>3. s.seq > 0
      BY <2>1
    <3>4. q \in Peer
      BY <3>1, <3>2, <3>3, AnsweringSignal
    <3>5. q.gen = s.gen /\ q.made = p.made + 1 /\ q.conn = p.made + 1
      BY <3>1, <3>2, <3>3, AnsweringSignal
    <3>6. ~q.opener /\ ~q.offered
      BY <3>1, <3>2, <3>3, AnsweringSignal
    <3>7. q.session = NoSession
      BY <3>1, <3>2, <3>3, AnsweringSignal
    <3>8. q.queue = {}
      BY <3>1, <3>2, <3>3, AnsweringSignal
    <3>9. q.outstanding = None
      BY <3>1, <3>2, <3>3, AnsweringSignal
    <3> QED BY <3>4, <3>5, <3>6, <3>7, <3>8, <3>9
  <2> QED BY <1>7, <2>2
<1>11. PICK r : r = Released(q, s)
  OBVIOUS
<1>12. /\ r \in Peer /\ r.gen = s.gen /\ r.made = o.conn + 1 /\ r.conn = o.conn + 1 /\ ~r.opener
       /\ ~r.offered /\ r.session = NoSession /\ r.queue = {} /\ r.outstanding = None
       /\ r.to = s.conn /\ r.expected = 2
  BY <1>2, <1>5, <1>8, <1>10, <1>11, ReleasedIs
<1>13. PICK more \in Seq(Ops) : more = <<About("deliver", s)>>
  BY <1>5, MoreIsTyped
<1>14. Finish(d, r, {}, more)
  BY <1>2, <1>6, <1>9, <1>11, <1>13
<1>15. /\ On(more) = {About("deliver", s)}
       /\ About("deliver", s).do = "deliver" /\ About("deliver", s).signal = s
  BY <1>5, <1>13, DeliveryIs
<1>16. r.conn > o.conn /\ r.conn # None
  BY <1>7, <1>12 DEF None
<1>g. \/ o.conn = None
      \/ s.gen > o.gen
      \/ s.gen = o.gen /\ d = Polite /\ o.opener /\ Calling(o)
  <2>1. CASE s.gen = p.gen /\ d = Polite /\ p.outstanding # None
    <3>1. o.outstanding # None
      BY <1>7, <2>1
    <3>2. o.opener /\ Calling(o)
      BY <1>5, <3>1, PhaseGives DEF Local
    <3> QED BY <1>7, <2>1, <3>2
  <2> QED BY <1>2, <1>7, <2>1
<1>17. Forward(d, o, r)
  <2>1. CASE o.conn = None \/ s.gen > o.gen
    <3>1. s.gen > o.gen
      BY <1>5, <1>7, <1>8, <2>1 DEF Healthy
    <3> QED BY <1>12, <1>16, <3>1 DEF Forward
  <2>2. CASE s.gen = o.gen /\ d = Polite /\ o.opener
    BY <1>12, <1>16, <2>2 DEF Forward
  <2> QED BY <1>g, <2>1, <2>2
<1>18. Called(r)
  BY <1>8, <1>12 DEF Called
<1>19. Past(r.gen, Waiting(d))
  <2>1. CASE o.conn = None
    BY <1>5, <2>1 DEF Local, Delivered, Past
  <2>2. CASE s.gen > o.gen
    <3>1. tasks[d] \in Seq(Ops) /\ Waiting(d) = On(tasks[d])
      BY DEF Begun, Typed, Waiting, On
    <3> QED BY <1>5, <1>7, <1>12, <2>2, <3>1, OlderIsPast DEF Local
  <2>3. CASE s.gen = o.gen /\ o.opener /\ Calling(o)
    BY <1>5, <1>12, <2>3, CallingIsPast DEF Local
  <2> QED BY <1>g, <2>1, <2>2, <2>3
<1>20. Delivered(r, On(more))
  BY <1>2, <1>7, <1>12, <1>15, <1>16 DEF Delivered
<1>21. ASSUME NEW V, After(Waiting(d), Op(d), On(more), V)
       PROVE  Local(d, r, V)
  <2>1. Brings(r, V, "offer")
    BY <1>2, <1>12, <1>15, <1>21 DEF Brings, Live, After
  <2>2. Phase(d, r, V)
    BY <1>12, <1>16, <1>18, <2>1 DEF Phase
  <2>3. Delivered(r, V)
    BY <1>16, <1>19, <1>20, <1>21, PastIsDelivered, DeliveredStays
  <2> QED BY <1>12, <2>2, <2>3 DEF Local, Proposes
<1>22. Across(d, r, f)
  <2>1. f.gen >= r.gen
    BY <1>7, <1>8, <1>12
  <2>2. f.gen = s.gen => (f.conn = s.conn /\ f.opener) \/ (Far(d) = Polite /\ ~f.opener)
    BY <1>2, <1>5 DEF Tells
  <2> QED BY <1>12, <2>1, <2>2 DEF Across
<1>23. Lands(d, r, {}, more)
  BY <1>1, <1>2, <1>3, <1>4, <1>13, <1>14, <1>17, <1>21, <1>22 DEF Lands
<1> QED BY <1>12, <1>23

\* The channel of p takes a signal and leaves q.
LEMMA HearingIs ==
  ASSUME NEW d \in Device, NEW o \in Peer, NEW p \in Peer, NEW q \in Peer, NEW f \in Peer,
         NEW s \in Signal, NEW W, Alike(o, p), Local(d, p, W), Across(d, o, f), Tells(s, f, o),
         p.conn # None, s.gen = p.gen, p.to \in {None, s.conn},
         q.gen = p.gen, q.made = p.made, q.conn = p.conn, q.opener = p.opener,
         q.session = p.session, q.to = s.conn, q.queue \subseteq p.queue
  PROVE  /\ Forward(d, o, q) /\ Across(d, q, f)
         /\ q.made = q.conn /\ Proposes(q) /\ q.to # None
         /\ p.to # None => q.to = p.to
<1>1. /\ o.gen \in Nat /\ f.gen \in Nat /\ s.gen \in Nat /\ s.conn \in Nat
      /\ o.gen = p.gen /\ o.conn = p.conn /\ o.opener = p.opener /\ o.session = p.session /\ o.to = p.to
  BY DEF Peer, Signal, Alike
<1>2. s.gen <= f.gen /\ s.conn # None
  BY <1>1 DEF Tells, None
<1>3. Forward(d, o, q)
  BY <1>1 DEF Forward
<1>4. q.made = q.conn /\ Proposes(q)
  BY DEF Local, Proposes
<1>5. ~p.opener => p.to # None
  BY PhaseGives DEF Local
<1>6. Across(d, q, f)
  <2>1. f.gen >= q.gen
    BY <1>1, <1>2
  <2>2. q.opener /\ q.session # NoSession /\ f.gen = q.gen =>
          f.conn = q.session.far /\ ~f.opener /\ f.to = q.conn /\ f.session # NoSession
    BY <1>1 DEF Across
  <2>3. q.conn # None /\ ~q.opener /\ f.gen = q.gen =>
          (f.conn = q.to /\ f.opener) \/ (Far(d) = Polite /\ ~f.opener)
    BY <1>1, <1>5 DEF Across
  <2> QED BY <2>1, <2>2, <2>3 DEF Across
<1> QED BY <1>2, <1>3, <1>4, <1>6

\* It does not end the phase of p, unless by the answer p waits for.
LEMMA HeardIsLocal ==
  ASSUME NEW d \in Device, NEW p, NEW q, NEW W, NEW h, NEW M, NEW V,
         Local(d, p, W), After(W, h, M, V), h.do = "handle", Delivered(q, M),
         p.conn # None, q.gen = p.gen, q.conn = p.conn, q.opener = p.opener,
         q.offered = p.offered, q.opening = p.opening, q.session = p.session,
         q.outstanding = p.outstanding, q.expected = p.expected \/ q.expected > 1,
         q.to # None, p.to # None => q.to = p.to, q.made = q.conn, Proposes(q)
  PROVE  Local(d, q, V)
<1>1. Phase(d, p, V)
  BY PhaseStays DEF Local, Live
<1>2. Phase(d, q, V)
  BY <1>1 DEF Phase, Calling, Reached, Called, Agreed, Brings, Live
<1>3. \/ q.to = p.to
      \/ p.opener /\ Calling(p)
  BY DEF Local, Phase, Reached, Called, Agreed
<1>4. Delivered(q, W)
  BY <1>3 DEF Local, Delivered, Calling
<1>5. Delivered(q, V)
  BY <1>4, DeliveredStays
<1> QED BY <1>2, <1>5 DEF Local

LEMMA HearsLands ==
  ASSUME Begun, Paired, NEW d \in Device, tasks[d] # <<>>, Hears(d)
  PROVE  \E p \in Peer, out \in SUBSET Signal, more \in Seq(Ops) : Lands(d, p, out, more)
<1>1. PICK s : s = Op(d).signal
  OBVIOUS
<1>2. PICK p \in Peer :
        /\ Op(d).do = "handle"
        /\ Alike(peer[d], p) /\ p.conn # None
        /\ s.type = "offer" => p.outstanding = None
        /\ Takes(d, p, s)
  BY <1>1 DEF Hears
<1>3. PICK o \in Peer : o = peer[d]
  BY HereIs
<1>4. PICK f \in Peer : f = peer[Far(d)]
  BY HereIs
<1>5. /\ Local(d, o, Waiting(d)) /\ Across(d, o, f)
      /\ s \in Signal /\ Tells(s, f, o)
  BY <1>1, <1>2, <1>3, <1>4, HereIs DEF AboutSignal
<1>6. Local(d, p, Waiting(d))
  BY <1>2, <1>3, <1>5, AlikeIsLocal
<1>7. s.gen = p.gen /\ s.to \in {None, p.conn} /\ p.to \in {None, s.conn}
  BY <1>2 DEF Takes, Bound, Addressed
<1>8. /\ p.outstanding # None => p.opener /\ Calling(p)
      /\ p.outstanding = None => p.expected > 1
  BY <1>2, <1>6 DEF Local, Phase, Calling, Reached, Called, Agreed, None
<1>9. CASE Finish(d, Heard(p, s), {}, <<>>)
  <2>1. PICK q : q = Heard(p, s)
    OBVIOUS
  <2>2. /\ q \in Peer
        /\ q.gen = p.gen /\ q.made = p.made /\ q.conn = p.conn /\ q.opener = p.opener
        /\ q.offered = p.offered /\ q.opening = p.opening /\ q.session = p.session
        /\ q.to = s.conn /\ q.queue \subseteq p.queue
        /\ q.expected = p.expected /\ q.outstanding = p.outstanding
    BY <1>5, <2>1, HeardIs
  <2>3. /\ Forward(d, o, q) /\ Across(d, q, f) /\ q.made = q.conn /\ Proposes(q) /\ q.to # None
        /\ p.to # None => q.to = p.to
    BY <1>2, <1>3, <1>5, <1>6, <1>7, <2>2, HearingIs
  <2>4. ASSUME NEW V, After(Waiting(d), Op(d), On(<<>>), V)
        PROVE  Local(d, q, V)
    BY <1>2, <1>6, <2>2, <2>3, <2>4, QuietDelivers, HeardIsLocal
  <2>5. Lands(d, q, {}, <<>>)
    BY <1>3, <1>4, <1>9, <2>1, <2>3, <2>4 DEF Lands
  <2> QED BY <2>2, <2>5, MoreIsTyped
<1>10. ASSUME NEW more \in Seq(Ops), s.type \in {"offer", "answer", "ice"}, s.seq = p.expected,
              Finish(d, Released(p, s), {}, more),
              \/ s.type = "answer" /\ s.re # p.outstanding /\ more = <<>>
              \/ (s.type = "answer" => s.re = p.outstanding) /\ more = <<About("deliver", s)>>
       PROVE  \E r \in Peer, out \in SUBSET Signal, m \in Seq(Ops) : Lands(d, r, out, m)
  <2>1. PICK q : q = Released(p, s)
    OBVIOUS
  <2>2. /\ q \in Peer
        /\ q.gen = p.gen /\ q.made = p.made /\ q.conn = p.conn /\ q.opener = p.opener
        /\ q.offered = p.offered /\ q.opening = p.opening /\ q.session = p.session
        /\ q.to = s.conn /\ q.queue \subseteq p.queue /\ q.expected = s.seq + 1
        /\ q.outstanding = IF s.type = "answer" /\ s.re = p.outstanding THEN None ELSE p.outstanding
    BY <1>5, <2>1, ReleasedIs
  <2>3. /\ Forward(d, o, q) /\ Across(d, q, f) /\ q.made = q.conn /\ Proposes(q) /\ q.to # None
        /\ p.to # None => q.to = p.to
    BY <1>2, <1>3, <1>5, <1>6, <1>7, <2>2, HearingIs
  <2>4. q.expected > 1
    <3>1. p.expected \in Nat \ {0} /\ q.expected = p.expected + 1
      BY <1>10, <2>2 DEF Peer
    <3> QED BY <3>1
  <2>5. s.type # "offer"
    <3>1. s.type = "offer" => s.seq = 1 /\ p.outstanding = None
      BY <1>2, <1>5 DEF Tells
    <3> QED BY <1>8, <1>10, <3>1
  <2>6. s.type = "answer" => s.re = 1 /\ s.to # None
    BY <1>5 DEF Tells
  <2>7. CASE s.type = "answer" /\ s.re = p.outstanding /\ more = <<About("deliver", s)>>
    <3>1. p.opener /\ Calling(p)
      BY <1>8, <2>6, <2>7 DEF None
    <3>2. Reached(q)
      BY <2>2, <2>3, <2>4, <2>7, <3>1 DEF Calling, Reached
    <3>3. /\ On(more) = {About("deliver", s)}
          /\ About("deliver", s).do = "deliver" /\ About("deliver", s).signal = s
      BY <1>5, <2>7, DeliveryIs
    <3>4. ASSUME NEW V, After(Waiting(d), Op(d), On(more), V)
          PROVE  Local(d, q, V)
      <4>1. Brings(q, V, "answer")
        BY <1>7, <2>2, <2>7, <3>3, <3>4 DEF Brings, Live, After
      <4>2. Phase(d, q, V)
        BY <1>2, <2>2, <3>1, <3>2, <4>1 DEF Phase
      <4>3. Delivered(q, Waiting(d))
        BY <1>2, <1>6, <2>2, <3>1, CallingIsPast, PastIsDelivered DEF Local
      <4>4. Delivered(q, On(more))
        <5>1. q.gen \in Nat /\ ~Calling(q)
          BY <2>2, <3>2 DEF Peer, Calling, Reached, None
        <5> QED BY <1>2, <1>7, <2>2, <2>7, <3>1, <3>3, <5>1 DEF Delivered
      <4>5. Delivered(q, V)
        BY <3>4, <4>3, <4>4, DeliveredStays
      <4> QED BY <2>3, <4>2, <4>5 DEF Local
    <3>5. Lands(d, q, {}, more)
      BY <1>1, <1>2, <1>3, <1>4, <1>10, <2>1, <2>3, <2>7, <3>4 DEF Lands
    <3> QED BY <2>2, <3>5
  <2>8. CASE q.outstanding = p.outstanding /\ (more = <<>> \/ (s.type = "ice" /\ more = <<About("deliver", s)>>))
    <3>1. Delivered(q, On(more))
      <4>1. CASE more = <<>>
        BY <4>1, QuietDelivers
      <4>2. CASE s.type = "ice" /\ more = <<About("deliver", s)>>
        <5>1. /\ On(more) = {About("deliver", s)}
              /\ About("deliver", s).do = "deliver" /\ About("deliver", s).signal = s
          BY <1>5, <4>2, DeliveryIs
        <5>2. q.gen \in Nat
          BY <2>2 DEF Peer
        <5> QED BY <1>2, <1>7, <2>2, <4>2, <5>1, <5>2 DEF Delivered
      <4> QED BY <2>8, <4>1, <4>2
    <3>2. ASSUME NEW V, After(Waiting(d), Op(d), On(more), V)
          PROVE  Local(d, q, V)
      BY <1>2, <1>6, <2>2, <2>3, <2>4, <2>8, <3>1, <3>2, HeardIsLocal
    <3>3. Lands(d, q, {}, more)
      BY <1>1, <1>2, <1>3, <1>4, <1>10, <2>1, <2>3, <2>8, <3>2 DEF Lands
    <3> QED BY <2>2, <3>3
  <2> QED BY <1>10, <2>2, <2>5, <2>7, <2>8
<1>11. <<>> \in Seq(Ops) /\ <<About("deliver", s)>> \in Seq(Ops)
  BY <1>5, MoreIsTyped
<1> QED BY <1>2, <1>9, <1>10, <1>11 DEF Takes

\* An opening offer is never taken back: there is no other to hear in its generation.
LEMMA NeverRolls ==
  ASSUME Begun, Paired, NEW d \in Device, tasks[d] # <<>>, Rolls(d)
  PROVE  FALSE
<1>1. PICK s : s = Op(d).signal
  OBVIOUS
<1>2. PICK p \in Peer :
        /\ Op(d).do = "handle" /\ s.type = "offer"
        /\ Alike(peer[d], p) /\ p.outstanding # None /\ ~(p.outstanding = p.opening /\ s.slots)
  BY <1>1 DEF Rolls
<1>3. Tells(s, peer[Far(d)], peer[d]) /\ Local(d, peer[d], Waiting(d))
  BY <1>1, <1>2, HereIs DEF AboutSignal
<1>4. s.slots
  BY <1>2, <1>3 DEF Tells
<1>5. peer[d].outstanding # None
  BY <1>2 DEF Alike
<1>6. Calling(peer[d])
  BY <1>3, <1>5, PhaseGives DEF Local
<1>7. p.outstanding = p.opening
  BY <1>2, <1>6 DEF Calling, Alike
<1> QED BY <1>2, <1>4, <1>7

LEMMA AppliesOfferLands ==
  ASSUME Begun, Paired, NEW d \in Device, tasks[d] # <<>>, ~Strays(d), AppliesOffer(d)
  PROVE  \E p \in Peer, out \in SUBSET Signal, more \in Seq(Ops) : Lands(d, p, out, more)
<1>1. PICK s : s = Op(d).signal
  OBVIOUS
<1>2. PICK o \in Peer : o = peer[d]
  BY HereIs
<1>3. PICK f \in Peer : f = peer[Far(d)]
  BY HereIs
<1>4. PICK a : a = Accepting(o, s)
  OBVIOUS
<1>5. PICK q : q = QueuedAnswer(a, s.seq)
  OBVIOUS
<1>6. Op(d).do = "deliver" /\ s.type = "offer" /\ Finish(d, q, Latest(d, q), <<>>)
  BY <1>1, <1>2, <1>4, <1>5 DEF AppliesOffer
<1>7. /\ Healthy(o) /\ Local(d, o, Waiting(d)) /\ Across(d, o, f)
      /\ s \in Signal /\ s.from = Far(d) /\ Tells(s, f, o)
  BY <1>1, <1>2, <1>3, <1>6, HereIs DEF AboutSignal
<1>8. /\ o.conn # None /\ s.gen = o.gen /\ s.conn = o.to /\ ~o.opener
      /\ o.outstanding = None /\ ~o.offered /\ o.to # None /\ o.expected > 1
  <2>1. s.gen = o.gen /\ Op(d) \in Waiting(d)
    BY <1>1, <1>2, <1>6, HereIs DEF Strays, Op
  <2>2. o.conn # None /\ ~o.opener /\ s.conn = o.to
    BY <1>1, <1>6, <1>7, <2>1 DEF Local, Delivered
  <2> QED BY <1>7, <2>1, <2>2 DEF Local, Phase, Called, Agreed
<1>9. s.seq = 1
  BY <1>6, <1>7 DEF Tells
<1>10. /\ a \in Peer
       /\ a.gen = o.gen /\ a.made = o.made /\ a.conn = o.conn /\ a.opener = o.opener
       /\ ~a.offered /\ a.to = o.to /\ a.queue = o.queue
       /\ a.expected = o.expected /\ a.outstanding = o.outstanding
       /\ a.session \in Session
       /\ a.session.offerer = s.from /\ a.session.seq = s.seq
       /\ a.session.far = s.conn /\ a.session.gen = s.gen
  BY <1>4, <1>7, AcceptingIs
<1>11. s.seq \in Nat
  BY <1>9
<1>12. /\ q \in Peer
       /\ q.gen = a.gen /\ q.made = a.made /\ q.conn = a.conn /\ q.opener = a.opener
       /\ q.offered = a.offered /\ q.session = a.session
       /\ q.to = a.to /\ q.expected = a.expected /\ q.outstanding = a.outstanding
       /\ \A b \in q.queue : b \in a.queue \/ (b.type = "answer" /\ b.seq = a.sent + 1 /\ b.re = s.seq)
  BY <1>5, <1>10, <1>11, QueuedAnswerIs
<1>13. q.session # NoSession
  BY <1>10, <1>12, SessionAssumption
<1>14. Agreed(q, Far(d)) /\ q.session.far = q.to
  BY <1>7, <1>8, <1>9, <1>10, <1>12, <1>13 DEF Agreed
<1>15. \A V : Phase(d, q, V)
  BY <1>8, <1>10, <1>12, <1>14 DEF Phase
<1>16. Proposes(q)
  <2>1. \A b \in o.queue : b.type = "offer" => o.opener /\ b.seq = 1 /\ b.slots
    BY <1>7 DEF Local, Proposes
  <2>2. \A b \in o.queue : b.type = "answer" => b.re = 1
    BY <1>7 DEF Local, Proposes
  <2> QED BY <1>8, <1>9, <1>10, <1>12, <1>13, <2>1, <2>2 DEF Proposes
<1>17. ASSUME NEW V, After(Waiting(d), Op(d), On(<<>>), V)
       PROVE  Local(d, q, V)
  <2>1. Delivered(q, Waiting(d))
    BY <1>7, <1>8, <1>10, <1>12 DEF Local, Delivered
  <2>2. Delivered(q, V)
    BY <1>17, <2>1, QuietDelivers, DeliveredStays
  <2> QED BY <1>7, <1>10, <1>12, <1>15, <1>16, <2>2 DEF Local
<1>18. Forward(d, o, q)
  BY <1>8, <1>10, <1>12, <1>13 DEF Forward
<1>19. Across(d, q, f)
  BY <1>7, <1>8, <1>10, <1>12 DEF Across
<1>20. Healthy(q)
  <2>1. \A b \in q.queue : b.seq > 0
    <3>1. a.sent \in Nat
      BY <1>10 DEF Peer
    <3> QED BY <1>7, <1>10, <1>12, <3>1 DEF Healthy
  <2> QED BY <1>7, <1>8, <1>10, <1>12, <2>1 DEF Healthy
<1>21. Latest(d, q) \in SUBSET Signal /\ \A y \in Latest(d, q) : y.from = d /\ Tells(y, q, f)
  <2>1. q.conn # None
    BY <1>8, <1>10, <1>12
  <2> QED BY <1>12, <1>15, <1>16, <1>19, <1>20, <2>1, LatestIs, LatestTells
<1>22. Lands(d, q, Latest(d, q), <<>>)
  BY <1>2, <1>3, <1>6, <1>17, <1>18, <1>19, <1>21 DEF Lands
<1> QED BY <1>12, <1>21, <1>22, MoreIsTyped

LEMMA AppliesAnswerLands ==
  ASSUME Begun, Paired, NEW d \in Device, tasks[d] # <<>>, ~Strays(d), AppliesAnswer(d)
  PROVE  \E p \in Peer, out \in SUBSET Signal, more \in Seq(Ops) : Lands(d, p, out, more)
<1>1. PICK s : s = Op(d).signal
  OBVIOUS
<1>2. PICK o \in Peer : o = peer[d]
  BY HereIs
<1>3. PICK f \in Peer : f = peer[Far(d)]
  BY HereIs
<1>4. PICK q : q = Answered(d, o, s)
  OBVIOUS
<1>5. Op(d).do = "deliver" /\ s.type = "answer" /\ o.offered /\ Finish(d, q, {}, <<>>)
  BY <1>1, <1>2, <1>4 DEF AppliesAnswer
<1>6. /\ Local(d, o, Waiting(d)) /\ Across(d, o, f) /\ s \in Signal /\ Tells(s, f, o)
  BY <1>1, <1>2, <1>3, <1>5, HereIs DEF AboutSignal
<1>7. /\ o.conn # None /\ s.gen = o.gen /\ s.conn = o.to /\ s.to \in {None, o.conn}
      /\ o.opener /\ Reached(o)
  <2>1. s.gen = o.gen /\ Op(d) \in Waiting(d)
    BY <1>1, <1>2, <1>5, HereIs DEF Strays, Op
  <2>2. /\ o.conn # None /\ o.opener /\ ~Calling(o) /\ s.conn = o.to /\ s.to \in {None, o.conn}
    BY <1>1, <1>5, <1>6, <2>1 DEF Local, Delivered
  <2>3. Reached(o)
    BY <1>5, <1>6, <2>2 DEF Local, Phase, Agreed
  <2> QED BY <2>1, <2>2, <2>3
<1>8. /\ s.re = 1 /\ s.to # None /\ s.conn # None
      /\ s.gen = f.gen => s.conn = f.conn /\ ~f.opener /\ f.to = s.to /\ f.session # NoSession
  <2>1. f.conn \in Nat
    BY DEF Peer
  <2>2. s.conn \in 1..f.conn
    BY <1>6 DEF Tells
  <2>3. s.conn # None
    BY <2>1, <2>2 DEF None
  <2> QED BY <1>5, <1>6, <2>3 DEF Tells
<1>9. /\ q \in Peer
      /\ q.gen = o.gen /\ q.made = o.made /\ q.conn = o.conn /\ q.opener = o.opener
      /\ ~q.offered /\ q.to = o.to /\ q.queue = o.queue
      /\ q.expected = o.expected /\ q.outstanding = o.outstanding
      /\ q.session \in Session
      /\ q.session.offerer = d /\ q.session.seq = s.re
      /\ q.session.far = s.conn /\ q.session.gen = s.gen
  BY <1>4, <1>6, AnsweredIs
<1>10. q.session # NoSession
  BY <1>9, SessionAssumption
<1>11. Agreed(q, d)
  BY <1>7, <1>8, <1>9, <1>10 DEF Agreed, Reached
<1>12. \A V : Phase(d, q, V)
  BY <1>7, <1>9, <1>11 DEF Phase
<1>13. Proposes(q)
  BY <1>6, <1>7, <1>9 DEF Local, Proposes
<1>14. ASSUME NEW V, After(Waiting(d), Op(d), On(<<>>), V)
       PROVE  Local(d, q, V)
  <2>1. ~Calling(q)
    BY <1>9 DEF Calling
  <2>2. Delivered(q, Waiting(d))
    BY <1>6, <1>7, <1>9, <2>1 DEF Local, Delivered
  <2>3. Delivered(q, V)
    BY <1>14, <2>2, QuietDelivers, DeliveredStays
  <2> QED BY <1>6, <1>9, <1>12, <1>13, <2>3 DEF Local
<1>15. Forward(d, o, q)
  BY <1>9, <1>10 DEF Forward
<1>16. Across(d, q, f)
  <2>1. q.to # None => f.gen >= q.gen
    BY <1>6, <1>9 DEF Across
  <2>2. f.gen = q.gen => f.conn = q.session.far /\ ~f.opener /\ f.to = q.conn /\ f.session # NoSession
    BY <1>7, <1>8, <1>9
  <2> QED BY <1>7, <1>9, <2>1, <2>2 DEF Across
<1>17. Lands(d, q, {}, <<>>)
  BY <1>2, <1>3, <1>5, <1>14, <1>15, <1>16 DEF Lands
<1> QED BY <1>9, <1>17, MoreIsTyped

LEMMA RunLands ==
  ASSUME Begun, Paired, NEW d \in Device, Run(d), ~Strays(d)
  PROVE  /\ tasks[d] # <<>>
         /\ \E p \in Peer, out \in SUBSET Signal, more \in Seq(Ops) : Lands(d, p, out, more)
<1>1. tasks[d] # <<>>
  BY DEF Run
<1>2. Op(d).do = "handle" /\ Op(d).signal.type = "offer" => Op(d).signal.seq > 0
  BY <1>1, HeadWaits DEF AboutSignal, Sound
<1>3. Becomes(d)
  BY <1>2, RunBecomes DEF Begun
<1>4. ~OffersAgain(d)
  BY DEF OffersAgain, Strays, Op
<1> QED BY <1>1, <1>3, <1>4, KeepsLands, OpensLands, AnswersLands, HearsLands, NeverRolls,
           AppliesOfferLands, AppliesAnswerLands DEF Becomes

-----------------------------------------------------------------------------
(* The steps of such a pair *)

\* What waits at the end of a step, in terms of what waited.
LEMMA RunWaits ==
  ASSUME Begun, NEW d \in Device, tasks[d] # <<>>,
         NEW p, NEW out, NEW more \in Seq(Ops), Finish(d, p, out, more)
  PROVE  /\ Moves(d, p) /\ relay' = relay \cup out
         /\ After(Waiting(d), Op(d), On(more), Waiting(d)')
         /\ \A e \in Device : e # d => tasks'[e] = tasks[e]
<1>1. peer \in [Device -> Peer] /\ tasks \in [Device -> Seq(Ops)]
  BY DEF Begun, Typed
<1>2. PICK u : u = Behind(tasks[d], more)
  OBVIOUS
<1>3. peer' = [peer EXCEPT ![d] = p] /\ relay' = relay \cup out /\ tasks' = [tasks EXCEPT ![d] = u]
  BY <1>2 DEF Finish, Behind
<1>4. PICK t \in Seq(Ops) : t = tasks[d]
  BY <1>1
<1>5. After(On(t), Head(t), On(more), On(u))
  <2>1. /\ Tail(t) \in Seq(Ops) /\ Len(Tail(t)) = Len(t) - 1 /\ Len(t) \in Nat \ {0} /\ Len(more) \in Nat
        /\ \A i \in 1..Len(t) - 1 : Tail(t)[i] = t[i + 1]
        /\ Head(t) = t[1]
    BY <1>4
  <2>2. u \in Seq(Ops) /\ Len(u) = Len(t) - 1 + Len(more)
    BY <1>2, <1>4, <2>1 DEF Behind
  <2>3. \A i \in 1..Len(u) : u[i] = IF i <= Len(t) - 1 THEN Tail(t)[i] ELSE more[i - (Len(t) - 1)]
    <3>1. PICK w \in Seq(Ops) : w = Tail(t)
      BY <2>1
    <3>2. u = w \o more /\ Len(w) = Len(t) - 1
      BY <1>2, <1>4, <2>1, <3>1 DEF Behind
    <3>3. \A i \in 1..Len(w) + Len(more) : u[i] = IF i <= Len(w) THEN w[i] ELSE more[i - Len(w)]
      BY <3>2
    <3> QED BY <2>2, <3>1, <3>2, <3>3
  <2>4. On(u) \subseteq On(t) \cup On(more)
    BY <1>2, <1>4, TailElements DEF On, MadeOf
  <2>5. ASSUME NEW i \in 1..Len(more)
        PROVE  more[i] \in On(u)
    <3>1. i + (Len(t) - 1) \in 1..Len(u) /\ u[i + (Len(t) - 1)] = more[i]
      BY <2>1, <2>2, <2>3
    <3> QED BY <3>1 DEF On
  <2>6. ASSUME NEW i \in 1..Len(t), t[i] # Head(t)
        PROVE  t[i] \in On(u)
    <3>1. i # 1 /\ i - 1 \in 1..Len(t) - 1
      BY <2>1, <2>6
    <3>2. i - 1 \in 1..Len(u) /\ u[i - 1] = Tail(t)[i - 1] /\ Tail(t)[i - 1] = t[i]
      BY <2>1, <2>2, <2>3, <3>1
    <3> QED BY <3>2 DEF On
  <2> QED BY <2>4, <2>5, <2>6 DEF After, On
<1>6. Waiting(d) = On(t) /\ Op(d) = Head(t)
  BY <1>4 DEF Waiting, On, Op
<1>7. Waiting(d)' = On(u)
  BY <1>1, <1>3 DEF Waiting, On
<1> QED BY <1>1, <1>3, <1>5, <1>6, <1>7 DEF Moves

LEMMA RunKeepsPaired ==
  ASSUME Begun, Paired, NEW d \in Device, Run(d), ~Strays(d)
  PROVE  Paired'
<1>1. tasks[d] # <<>>
  BY RunLands
<1>2. PICK p \in Peer, out \in SUBSET Signal, more \in Seq(Ops) : Lands(d, p, out, more)
  BY RunLands
<1>3. /\ Moves(d, p) /\ relay' = relay \cup out
      /\ After(Waiting(d), Op(d), On(more), Waiting(d)')
      /\ \A e \in Device : e # d => tasks'[e] = tasks[e]
  BY <1>1, <1>2, RunWaits DEF Lands
<1>4. ASSUME NEW op \in On(more), op.do \in AboutSignal
      PROVE  op.signal \in Signal /\ op.signal.from = Far(d) /\ Said(op.signal)
  <2>1. CASE more \in {<<>>, <<Do("open")>>, <<Do("offer")>>}
    BY <1>4, <2>1, OnIs DEF Do, AboutSignal
  <2>2. CASE Op(d).do = "handle" /\ more = <<About("deliver", Op(d).signal)>>
    <3>1. PICK s : s = Op(d).signal
      OBVIOUS
    <3>2. s \in Signal /\ s.from = Far(d) /\ Said(s)
      BY <1>1, <2>2, <3>1, HereIs DEF Paired, Expects, AboutSignal
    <3>3. op.signal = s
      BY <1>4, <2>2, <3>1, <3>2, DeliveryIs
    <3> QED BY <3>2, <3>3
  <2> QED BY <1>2, <2>1, <2>2 DEF Lands
<1>5. \A op \in Waiting(d)' :
        \/ op \in Waiting(d)
        \/ op.do \in AboutSignal => op.signal \in Signal /\ op.signal.from = Far(d) /\ Said(op.signal)
  BY <1>3, <1>4 DEF After
<1>6. /\ Forward(d, peer[d], p) /\ Local(d, p, Waiting(d)') /\ Across(d, p, peer[Far(d)])
      /\ \A s \in out : s.from = d /\ Tells(s, p, peer[Far(d)])
  BY <1>2, <1>3 DEF Lands
<1> QED BY <1>3, <1>5, <1>6, MovedKeepsPaired

Gathered(p) == [QueuedIce(p) EXCEPT !.gathered = TRUE]

LEMMA GatheredIs ==
  ASSUME NEW p \in Peer, NEW q, q = Gathered(p)
  PROVE  /\ q \in Peer
         /\ q.gen = p.gen /\ q.made = p.made /\ q.conn = p.conn /\ q.opener = p.opener
         /\ q.offered = p.offered /\ q.opening = p.opening /\ q.session = p.session
         /\ q.to = p.to /\ q.expected = p.expected /\ q.outstanding = p.outstanding
         /\ \A b \in q.queue : b \in p.queue \/ (b.type = "ice" /\ b.seq = p.sent + 1)
<1>1. PICK r : r = QueuedIce(p)
  OBVIOUS
<1>2. /\ r \in Peer
      /\ r.gen = p.gen /\ r.made = p.made /\ r.conn = p.conn /\ r.opener = p.opener
      /\ r.offered = p.offered /\ r.opening = p.opening /\ r.session = p.session
      /\ r.to = p.to /\ r.expected = p.expected /\ r.outstanding = p.outstanding
      /\ \A b \in r.queue : b \in p.queue \/ (b.type = "ice" /\ b.seq = p.sent + 1)
  BY <1>1, QueuedIceIs
<1>3. q = [r EXCEPT !.gathered = TRUE]
  BY <1>1 DEF Gathered
<1>4. q \in Peer
  BY <1>2, <1>3 DEF Peer
<1>5. /\ q.gen = r.gen /\ q.made = r.made /\ q.conn = r.conn /\ q.opener = r.opener
      /\ q.offered = r.offered /\ q.opening = r.opening /\ q.session = r.session
      /\ q.to = r.to /\ q.expected = r.expected /\ q.outstanding = r.outstanding /\ q.queue = r.queue
  BY <1>2, <1>3 DEF Peer
<1> QED BY <1>2, <1>4, <1>5

LEMMA GatherKeepsPaired ==
  ASSUME Begun, Paired, NEW d \in Device, Gather(d)
  PROVE  Paired'
<1>1. PICK o \in Peer : o = peer[d]
  BY DEF Begun, Typed
<1>2. PICK f \in Peer : f = peer[Far(d)]
  BY TwoDevices DEF Begun, Typed
<1>3. PICK q : q = Gathered(o)
  OBVIOUS
<1>4. o.conn # None /\ peer' = [peer EXCEPT ![d] = q] /\ relay' = relay \cup Latest(d, q) /\ tasks' = tasks
  BY <1>1, <1>3 DEF Gather, Gathered, QueuedIce
<1>5. /\ q \in Peer
      /\ q.gen = o.gen /\ q.made = o.made /\ q.conn = o.conn /\ q.opener = o.opener
      /\ q.offered = o.offered /\ q.opening = o.opening /\ q.session = o.session
      /\ q.to = o.to /\ q.expected = o.expected /\ q.outstanding = o.outstanding
      /\ \A b \in q.queue : b \in o.queue \/ (b.type = "ice" /\ b.seq = o.sent + 1)
  BY <1>3, GatheredIs
<1>6. Healthy(o) /\ Local(d, o, Waiting(d)) /\ Across(d, o, f)
  BY <1>1, <1>2 DEF Begun, Paired
<1>7. Proposes(q)
  BY <1>5, <1>6 DEF Local, Proposes
<1>8. Phase(d, q, Waiting(d))
  BY <1>5, <1>6 DEF Local, Phase, Calling, Reached, Called, Agreed, Brings, Live
<1>9. Delivered(q, Waiting(d))
  BY <1>5, <1>6 DEF Local, Delivered, Calling
<1>10. Forward(d, o, q) /\ Local(d, q, Waiting(d)) /\ Across(d, q, f)
  BY <1>5, <1>6, <1>7, <1>8, <1>9 DEF Forward, Local, Across
<1>11. Healthy(q) /\ q.conn # None
  <2>1. o.sent \in Nat
    BY DEF Peer
  <2> QED BY <1>4, <1>5, <1>6, <2>1 DEF Healthy
<1>12. Latest(d, q) \in SUBSET Signal /\ \A s \in Latest(d, q) : s.from = d /\ Tells(s, q, f)
  BY <1>5, <1>7, <1>8, <1>10, <1>11, LatestIs, LatestTells
<1>13. Moves(d, q)
  BY <1>4 DEF Moves, Begun, Typed
<1>14. Waiting(d)' = Waiting(d) /\ \A e \in Device : e # d => tasks'[e] = tasks[e]
  BY <1>4 DEF Waiting
<1> QED BY <1>1, <1>2, <1>4, <1>5, <1>10, <1>12, <1>13, <1>14, MovedKeepsPaired

\* A signal that arrives tells of both ends as they are.
LEMMA ArrivingTells ==
  ASSUME Begun, Paired, NEW d \in Device, NEW s \in Signal, Arriving(d, s)
  PROVE  s.from = Far(d) /\ Said(s)
<1>1. PICK e \in Device : e = Far(d) /\ Far(e) = d
  BY TwoDevices
<1>2. PICK p \in Peer : p = peer[e]
  BY DEF Begun, Typed
<1>3. PICK q \in Peer : q = peer[d]
  BY DEF Begun, Typed
<1>4. Healthy(p) /\ Local(e, p, Waiting(e)) /\ Across(e, p, q)
  BY <1>1, <1>2, <1>3 DEF Begun, Paired
<1>5. CASE s \in relay /\ s.from = Far(d)
  BY <1>5 DEF Paired
<1>6. ASSUME NEW b \in Body, s = Stamped(e, p, b), p.conn # None,
             b.type = "offer" => p.opener /\ b.seq = 1 /\ b.slots,
             b.type = "answer" => ~p.opener /\ p.session # NoSession /\ b.re = 1
      PROVE  s.from = Far(d) /\ Said(s)
  <2>1. s.from = e /\ Tells(s, p, q)
    BY <1>4, <1>6, StampedTells DEF Local
  <2> QED BY <1>1, <1>2, <1>3, <2>1 DEF Said
<1>7. CASE s \in Unacked(Far(d))
  <2>1. PICK b \in p.queue : s = Stamped(e, p, b)
    BY <1>1, <1>2, <1>7 DEF Unacked
  <2>2. b \in Body /\ p.conn # None
    BY <1>4, <2>1 DEF Peer, Healthy
  <2>3. /\ b.type = "offer" => p.opener /\ b.seq = 1 /\ b.slots
        /\ b.type = "answer" => ~p.opener /\ p.session # NoSession /\ b.re = 1
    BY <1>4, <2>1 DEF Local, Proposes
  <2> QED BY <1>6, <2>1, <2>2, <2>3
<1>8. CASE s = Ack(Far(d)) /\ peer[Far(d)].expected > 1
  <2>1. PICK b \in Body : b = Bare("ack") /\ b.type = "ack"
    BY BareIs
  <2>2. s = Stamped(e, p, b)
    BY <1>1, <1>2, <1>8, <2>1 DEF Ack
  <2>3. p.conn # None
    BY <1>1, <1>2, <1>8, AckIsSound
  <2> QED BY <1>6, <2>1, <2>2, <2>3
<1> QED BY <1>5, <1>7, <1>8 DEF Arriving

LEMMA ComesKeepsPaired ==
  ASSUME Begun, Paired, NEW d \in Device, NEW op \in Ops, Comes(d, op)
  PROVE  Paired'
<1>1. peer' = peer /\ relay' = relay /\ Coming(d, op) /\ Enqueue(d, op)
  BY DEF Comes
<1>2. /\ op.do # "deliver"
      /\ op.do \in AboutSignal =>
           op.signal \in Signal /\ op.signal.from = Far(d) /\ Said(op.signal)
  <2>1. CASE op \in {Do("start"), Do("open"), Do("restart"), Do("offer")}
    BY <2>1 DEF Do, AboutSignal
  <2>2. CASE \E s \in Signal : op = About("handle", s) /\ Arriving(d, s)
    <3>1. PICK s \in Signal : op = About("handle", s) /\ Arriving(d, s)
      BY <2>2
    <3>2. op.do = "handle" /\ op.signal = s
      BY <3>1, AboutIs
    <3> QED BY <3>1, <3>2, ArrivingTells
  <2> QED BY <1>1, <2>1, <2>2 DEF Coming
<1>3. PICK o \in Peer : o = peer[d]
  BY DEF Begun, Typed
<1>4. Local(d, o, Waiting(d)) /\ Across(d, o, peer[Far(d)])
  BY <1>3 DEF Paired
<1>5. /\ Waiting(d)' = Waiting(d) \cup {op}
      /\ \A e \in Device : e # d => tasks'[e] = tasks[e]
  <2>1. tasks \in [Device -> Seq(Ops)]
    BY DEF Begun, Typed
  <2>2. PICK t \in Seq(Ops) : t = tasks[d]
    BY <2>1
  <2>3. PICK u : u = Append(t, op)
    OBVIOUS
  <2>4. tasks'[d] = u /\ \A e \in Device : e # d => tasks'[e] = tasks[e]
    BY <1>1, <2>1, <2>2, <2>3 DEF Enqueue
  <2>5. On(u) = On(t) \cup {op}
    <3>1. /\ Len(u) = Len(t) + 1 /\ Len(t) \in Nat /\ u[Len(t) + 1] = op
          /\ \A i \in 1..Len(t) : u[i] = t[i]
      BY <2>3
    <3>2. On(u) \subseteq On(t) \cup {op}
      BY <2>3, AppendElements DEF On
    <3>3. op \in On(u)
      <4>1. Len(t) + 1 \in 1..Len(u)
        BY <3>1
      <4> QED BY <3>1, <4>1 DEF On
    <3>4. ASSUME NEW i \in 1..Len(t)
          PROVE  t[i] \in On(u)
      <4>1. i \in 1..Len(u) /\ u[i] = t[i]
        BY <3>1
      <4> QED BY <4>1 DEF On
    <3> QED BY <3>2, <3>3, <3>4 DEF On
  <2> QED BY <2>2, <2>4, <2>5 DEF Waiting, On
<1>6. Local(d, o, Waiting(d)')
  <2>1. Phase(d, o, Waiting(d)')
    BY <1>4, <1>5 DEF Local, Phase, Brings
  <2>2. Delivered(o, Waiting(d)')
    BY <1>2, <1>4, <1>5 DEF Local, Delivered
  <2> QED BY <1>4, <2>1, <2>2 DEF Local
<1>7. Moves(d, o) /\ relay' = relay \cup {} /\ Forward(d, peer[d], o)
  BY <1>1, <1>3 DEF Moves, Forward
<1>8. \A b \in Waiting(d)' :
        \/ b \in Waiting(d)
        \/ b.do \in AboutSignal => b.signal \in Signal /\ b.signal.from = Far(d) /\ Said(b.signal)
  BY <1>2, <1>5
<1>9. \A s \in {} : s.from = d /\ Tells(s, o, peer[Far(d)])
  OBVIOUS
<1>10. {} \in SUBSET Signal
  OBVIOUS
<1> QED BY <1>4, <1>5, <1>6, <1>7, <1>8, <1>9, <1>10, MovedKeepsPaired

LEMMA NextKeepsPaired ==
  ASSUME Begun, strayed \/ Paired, [Next]_vars
  PROVE  strayed' \/ Paired'
<1>1. CASE UNCHANGED vars
  BY <1>1 DEF vars, Paired, Expects, Said, Waiting
<1>2. ASSUME NEW d \in Device, Run(d)
      PROVE  strayed' \/ Paired'
  <2>1. strayed' = (strayed \/ Strays(d))
    BY <1>2 DEF Run
  <2> QED BY <1>2, <2>1, RunKeepsPaired
<1>3. ASSUME NEW d \in Device, Gather(d)
      PROVE  strayed' \/ Paired'
  BY <1>3, GatherKeepsPaired DEF Gather
<1>4. ASSUME NEW d \in Device, NEW op \in Ops, Comes(d, op)
      PROVE  strayed' \/ Paired'
  BY <1>4, ComesKeepsPaired DEF Comes
<1> QED BY <1>1, <1>2, <1>3, <1>4, NextIs

LEMMA InitPaired ==
  ASSUME Init
  PROVE  Paired
<1>1. /\ Unopened.conn = None /\ ~Unopened.opener /\ Unopened.outstanding = None
      /\ Unopened.to = None /\ Unopened.session = NoSession /\ Unopened.queue = {} /\ Unopened.made = 0
  BY DEF Unopened
<1>2. \A d \in Device : peer[d] = Unopened /\ Waiting(d) = {} /\ peer[Far(d)] = Unopened
  <2>1. \A d \in Device : tasks[d] = <<>> /\ peer[d] = Unopened /\ peer[Far(d)] = Unopened
    BY TwoDevices DEF Init
  <2>2. \A d \in Device : Waiting(d) = On(tasks[d])
    BY DEF Waiting, On
  <2> QED BY <2>1, <2>2, OnIs
<1>3. \A d \in Device : Local(d, Unopened, {})
  BY <1>1 DEF Local, Phase, Proposes, Delivered, None
<1>4. \A d \in Device : Across(d, Unopened, Unopened)
  BY <1>1 DEF Across
<1>5. \A d \in Device : Expects(d)
  BY <1>2 DEF Expects
<1> QED BY <1>2, <1>3, <1>4, <1>5 DEF Init, Paired

LEMMA AlwaysPaired == Spec => [](Begun /\ (strayed \/ Paired))
<1>1. Init => strayed \/ Paired
  BY InitPaired
<1>2. Begun /\ (strayed \/ Paired) /\ [Next]_vars => strayed' \/ Paired'
  BY NextKeepsPaired
<1> QED BY <1>1, <1>2, AlwaysBegun, PTL DEF Spec

(* A connection is opened once: a device that created slots does not apply the far     *)
(* end's opening offer on that connection (amendment A1, decideOffer).  It holds for    *)
(* every number of rebuilds, every set of candidates, however many operations wait and  *)
(* whatever the relay repeats or delays, until an offer is made inside a generation or  *)
(* an operation runs on another connection than it was queued for.                      *)
THEOREM OpenedOnce == Spec => []FourLines
<1>1. ASSUME Paired, NEW d \in Device, peer[d].session # NoSession, peer[d].opener
      PROVE  peer[d].session.offerer = d
  <2>1. Phase(d, peer[d], Waiting(d))
    BY <1>1 DEF Paired, Local
  <2> QED BY <1>1, <2>1 DEF Phase, Calling, Reached, Agreed
<1>2. strayed \/ Paired => FourLines
  BY <1>1, TwoDevices DEF FourLines, FourLinesEver
<1> QED BY <1>2, AlwaysPaired, PTL

\* At rest, a device with a connection has agreed on it.
LEMMA AtRestIs ==
  ASSUME Paired, Silent, NEW d \in Device
  PROVE  /\ peer[d].conn # None
         /\ \/ peer[d].opener /\ Agreed(peer[d], d)
            \/ ~peer[d].opener /\ Agreed(peer[d], Far(d)) /\ peer[d].session.far = peer[d].to
<1>1. Phase(d, peer[d], {}) /\ peer[d].conn # None /\ peer[d].outstanding = None
  <2>1. Waiting(d) = {} /\ peer[d].conn # None /\ peer[d].outstanding = None
    BY DEF Silent, Waiting
  <2> QED BY <2>1 DEF Paired, Local
<1> QED BY <1>1 DEF Phase, Brings, Calling, None

(* A pair that has not strayed never falls silent before both ends hold one session    *)
(* with each other's connection: each end has heard the other, so neither is in an older *)
(* generation than the other's; one opened the connection and the other answered it,     *)
(* since inside a generation only the polite end gives its connection up.                *)
THEOREM SilentIsSettled == Spec => []NoSilentWedge
<1>1. ASSUME Begun, Paired, Silent
      PROVE  Settled
  <2>1. \A d \in Device :
          /\ Far(d) \in Device /\ Far(d) # d /\ Far(Far(d)) = d
          /\ peer[d].gen \in Nat /\ peer[d].conn # None
    BY <1>1, TwoDevices, AtRestIs DEF Begun, Typed, Peer
  <2>2. \A d \in Device : Across(d, peer[d], peer[Far(d)])
    BY <1>1 DEF Paired
  <2>3. \A d \in Device : peer[d].to # None /\ peer[d].session # NoSession
    BY <1>1, AtRestIs DEF Agreed
  <2>4. \A d \in Device : peer[d].gen = peer[Far(d)].gen
    <3>1. \A d \in Device : peer[Far(d)].gen >= peer[d].gen
      BY <2>2, <2>3 DEF Across
    <3>2. TAKE d \in Device
    <3>3. peer[Far(d)].gen >= peer[d].gen
      BY <3>1
    <3>4. peer[d].gen >= peer[Far(d)].gen
      <4>1. Far(d) \in Device /\ Far(Far(d)) = d
        BY <2>1
      <4>2. peer[Far(Far(d))].gen >= peer[Far(d)].gen
        BY <3>1, <4>1
      <4> QED BY <4>1, <4>2
    <3>5. peer[d].gen \in Nat /\ peer[Far(d)].gen \in Nat
      BY <2>1
    <3> QED BY <3>3, <3>4, <3>5
  <2>5. \A d \in Device : peer[d].opener => ~peer[Far(d)].opener
    BY <2>2, <2>3, <2>4 DEF Across
  <2>6. \A d \in Device : ~peer[d].opener => peer[Far(d)].opener
    <3>1. SUFFICES ASSUME NEW d \in Device, ~peer[d].opener, ~peer[Far(d)].opener PROVE FALSE
      OBVIOUS
    <3>2. Far(d) = Polite
      BY <2>1, <2>2, <2>4, <3>1 DEF Across
    <3>3. Far(Far(d)) = Polite
      BY <2>1, <2>2, <2>4, <3>1 DEF Across
    <3> QED BY <2>1, <3>2, <3>3
  <2>7. ASSUME NEW d \in Device, peer[d].opener
        PROVE  /\ peer[Far(d)].conn = peer[d].session.far /\ peer[d].conn = peer[Far(d)].session.far
               /\ peer[d].session.offerer = d /\ peer[Far(d)].session.offerer = d
               /\ peer[d].session.seq = 1 /\ peer[Far(d)].session.seq = 1
    <3>1. peer[Far(d)].conn = peer[d].session.far /\ peer[Far(d)].to = peer[d].conn
      BY <2>2, <2>3, <2>4, <2>7 DEF Across
    <3>2. Agreed(peer[d], d)
      BY <1>1, <2>7, AtRestIs
    <3>3. Agreed(peer[Far(d)], d) /\ peer[Far(d)].session.far = peer[Far(d)].to
      <4>1. ~peer[Far(d)].opener /\ Far(d) \in Device /\ Far(Far(d)) = d
        BY <2>1, <2>5, <2>7
      <4> QED BY <1>1, <4>1, AtRestIs
    <3> QED BY <3>1, <3>2, <3>3 DEF Agreed
  <2>8. ASSUME NEW d \in Device
        PROVE  /\ peer[d].session.far = peer[Far(d)].conn
               /\ peer[d].session.offerer = peer[Far(d)].session.offerer
               /\ peer[d].session.seq = peer[Far(d)].session.seq
    <3>1. CASE peer[d].opener
      BY <2>7, <3>1
    <3>2. CASE ~peer[d].opener
      <4>1. peer[Far(d)].opener /\ Far(d) \in Device /\ Far(Far(d)) = d
        BY <2>1, <2>6, <3>2
      <4> QED BY <2>7, <4>1
    <3> QED BY <3>1, <3>2
  <2>9. \A d \in Device : ~peer[d].offered /\ peer[d].session.gen = peer[d].gen
    BY <1>1, AtRestIs DEF Agreed
  <2> QED BY <2>1, <2>3, <2>4, <2>8, <2>9 DEF Settled
<1>2. Begun /\ (strayed \/ Paired) => NoSilentWedge
  BY <1>1 DEF NoSilentWedge
<1> QED BY <1>2, AlwaysPaired, PTL
=============================================================================
