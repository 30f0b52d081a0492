----------------------------- MODULE RelayDials -----------------------------
(***************************************************************************)
(* When a relay may be dialled and written to, for all pools of a process:  *)
(* src/relay-dial-gate.ts with the dials, the publishes and the one         *)
(* subscription of each pool of src/relay-pool.ts that go through it.       *)
(* One relay; relays do not share any state.                                *)
(*                                                                          *)
(* Times are what is left of them: Tick counts all of them down.  A dial    *)
(* opens, fails, is aborted by its own pool, or never reports back.  A pool *)
(* that only closes the socket of a dial does not end it: the promise is    *)
(* kept to the connection's deadline, and until then the dial lingers, its  *)
(* receipt still there for the pool's next dial.  The receipt of a          *)
(* reservation is the pool that holds it: a pool holds one at a time, and   *)
(* one that was released, or belongs to a dial that lingers without it,     *)
(* frees nothing.                                                           *)
(***************************************************************************)
EXTENDS Integers, FiniteSets, FiniteSetsExt

CONSTANTS
  Pool,
  Readers,     \* the pools with a subscription
  Nobody,
  Lease,       \* how long one dial holds off the others
  BackoffMax,  \* the longest backoff
  HoldStart, HoldMax,  \* the shortest and the longest hold
  Resend       \* how long a subscription waits that the relay closed

Traffic == {"write", "read"}

ASSUME RelayDialsAssumption ==
  /\ Readers \subseteq Pool /\ Nobody \notin Pool
  /\ Lease \in Nat \ {0} /\ BackoffMax \in Nat \ {0} /\ Resend \in Nat \ {0}
  /\ HoldStart \in Nat \ {0} /\ HoldMax \in Nat \ {0}

VARIABLES
  relay,    \* the gate's DialState: failures, after, lease and owner; or none
  hold,     \* [Traffic -> strikes, and what is left of the hold]
  socket,   \* [Pool -> "none", "dialing" or "open"]
  reserved, \* [Pool -> what was left of the lease that its dial took, if any]
  linger,   \* [Pool -> its dial that was closed and not aborted: "no", or it is
            \*  "owned", the receipt being there still, or "spent"]
  asked,    \* [Pool -> its publish: "none", "waits" for the socket, or "sent", or
            \*  "late", waiting for the dial that lingers]
  reader,   \* [Pool -> its binding: "off", "asking", "live", "closed" or "stuck"]
  resend,   \* [Pool -> how long the binding waits after the relay closed it]
  redial,   \* [Pool -> is a redial waiting out its jitter?]
  overtaken \* the pools whose lease a silent socket, or an older dial, freed

reading == <<reader, resend, redial>>
vars == <<relay, hold, socket, reserved, linger, asked, overtaken, reading>>

Healthy == [failures |-> 0, after |-> 0, lease |-> 0, owner |-> Nobody]
Failing(r) == r.failures > 0

\* Doubled n - 1 times; once it is the longest, n need not be counted further.
Doubled(n, start, max) == Min({start * 2^(n - 1), max})
Further(n, start, max) == IF n > 0 /\ Doubled(n, start, max) = max THEN n ELSE n + 1

Init ==
  /\ relay = Healthy
  /\ hold = [k \in Traffic |-> [strikes |-> 0, left |-> 0 - HoldMax]]
  /\ socket = [p \in Pool |-> "none"]
  /\ reserved = [p \in Pool |-> 0]
  /\ linger = [p \in Pool |-> "no"]
  /\ asked = [p \in Pool |-> "none"]
  /\ reader = [p \in Pool |-> "off"]
  /\ resend = [p \in Pool |-> 0]
  /\ redial = [p \in Pool |-> FALSE]
  /\ overtaken = {}

-----------------------------------------------------------------------------
(* The gate *)

Open(r) == r.after = 0 /\ r.lease = 0
Reserved(r, p) == IF Failing(r) THEN [r EXCEPT !.lease = Lease, !.owner = p] ELSE r

\* Slip: whoever reports frees the lease.
ReleasedByAny(r, p) == [r EXCEPT !.lease = 0, !.owner = Nobody]

\* The reservation of p is consumed, if it is still the one that counts.
Released(r, p) == IF r.owner = p THEN [r EXCEPT !.lease = 0, !.owner = Nobody] ELSE r

\* A failure earns a longer backoff once the last one has passed.
Failed(r) ==
  IF r.after > 0 THEN r
  ELSE LET n == Further(r.failures, 1, BackoffMax)
       IN [r EXCEPT !.failures = n, !.after = Doubled(n, 1, BackoffMax)]

\* failedDial(): a failure frees the lease of its own dial only.
FailedDial(r, p) == Failed(Released(r, p))

\* failed(): the failure of a socket that was open frees the lease of any dial.
FailedSocket(r) == Failed([r EXCEPT !.lease = 0, !.owner = Nobody])

\* A complaint sets a hold, unless one is on; they double while they are recent.
Held(h) ==
  IF h.left > 0 THEN h
  ELSE LET n == IF 0 - h.left < HoldMax THEN Further(h.strikes, HoldStart, HoldMax) ELSE 1
       IN [strikes |-> n, left |-> Doubled(n, HoldStart, HoldMax)]

-----------------------------------------------------------------------------
(* A pool: its dials *)

\* claim(), if the gate is r: a dial that lingers may have the receipt still.
Claims(r, owned) == owned \/ Open(r)

\* The dial: one reservation for each, or that of the one that lingers.
Dial(p, r, owned) ==
  /\ Claims(r, owned)
  /\ socket' = [socket EXCEPT ![p] = "dialing"]
  /\ relay' = IF owned THEN r ELSE Reserved(r, p)
  /\ reserved' = [reserved EXCEPT ![p] = IF owned THEN @ ELSE IF Failing(r) THEN Lease ELSE 0]

\* Whichever dial reports first consumes the receipt they share.
Spent(p) == linger' = [linger EXCEPT ![p] = IF @ = "owned" THEN "spent" ELSE @]
Kept(p) == linger[p] = "owned"

\* The dial succeeds, and what waits for it is written.
Opens(p) ==
  /\ socket[p] = "dialing"
  /\ socket' = [socket EXCEPT ![p] = "open"]
  /\ reserved' = [reserved EXCEPT ![p] = 0]
  /\ relay' = Released(relay, p)
  /\ asked' = [asked EXCEPT ![p] = IF @ = "waits" THEN "sent" ELSE @]
  /\ reader' = [reader EXCEPT ![p] = IF @ = "asking" THEN "live" ELSE @]
  /\ overtaken' = overtaken \ {p} /\ Spent(p)
  /\ UNCHANGED <<hold, resend, redial>>

\* The binding once its socket is gone.
Cut(p) == IF reader[p] \in {"asking", "live"} THEN "closed" ELSE reader[p]

\* The publish that waited for the socket is gone with it; one that waits for the
\* dial that lingers is not.
Forgotten(p) ==
  /\ asked' = [asked EXCEPT ![p] = IF @ = "late" THEN @ ELSE "none"]
  /\ overtaken' = overtaken \ {p}

\* The socket of p, and what waited for it, are gone.
Gone(p) ==
  /\ socket' = [socket EXCEPT ![p] = "none"]
  /\ reserved' = [reserved EXCEPT ![p] = 0]
  /\ reader' = [reader EXCEPT ![p] = Cut(p)]
  /\ Forgotten(p)

DialFails(p) ==
  /\ socket[p] = "dialing" /\ Gone(p)
  /\ relay' = FailedDial(relay, p) /\ Spent(p)
  /\ UNCHANGED <<hold, resend, redial>>

\* refusedUpgrade(): 429 or 503 is a complaint about writes, and the dial fails.
RefusedUpgrade(p) ==
  LET h == Held(hold["write"]) IN
  /\ socket[p] = "dialing" /\ Gone(p)
  /\ hold' = [hold EXCEPT !["write"] = h] /\ Spent(p)
  /\ relay' = FailedDial([relay EXCEPT !.failures = Max({@, 1}), !.after = Max({@, h.left})], p)
  /\ UNCHANGED <<resend, redial>>

-----------------------------------------------------------------------------
(* A pool: its subscription *)

\* #startRelay(), with the socket s, the gate r, wait left of the backoff, and the
\* receipt of a dial that lingers or not.
Start(p, s, r, wait, owned) ==
  LET quiet == hold["read"].left > 0 \/ wait > 0 IN
  \/ /\ s = "none" /\ ~quiet /\ Dial(p, r, owned)
     /\ reader' = [reader EXCEPT ![p] = "asking"]
  \/ /\ quiet \/ s # "none" \/ ~Claims(r, owned)
     /\ reader' = [reader EXCEPT ![p] =
          CASE quiet \/ s = "none" -> "closed" [] s = "open" -> "live" [] s = "dialing" -> "asking"]
     /\ socket' = [socket EXCEPT ![p] = s] /\ relay' = r
     /\ reserved' = [reserved EXCEPT ![p] = IF s = "dialing" \/ owned THEN @ ELSE 0]

Subscribe(p) ==
  /\ p \in Readers /\ reader[p] = "off"
  /\ Start(p, socket[p], relay, 0, Kept(p))
  /\ UNCHANGED <<hold, linger, asked, resend, redial, overtaken>>

\* Every dial is aborted, and what waited for it is gone.
Aborted(p) ==
  /\ linger' = [linger EXCEPT ![p] = "no"]
  /\ asked' = [asked EXCEPT ![p] = "none"]
  /\ overtaken' = overtaken \ {p}
  /\ resend' = [resend EXCEPT ![p] = 0] /\ redial' = [redial EXCEPT ![p] = FALSE]

\* The socket of p is closed for good, or until it is dialled again.
Closed(p) ==
  /\ socket' = [socket EXCEPT ![p] = "none"]
  /\ reserved' = [reserved EXCEPT ![p] = 0]

Used(p) == socket[p] # "none" \/ reader[p] # "off" \/ linger[p] # "no"

\* Slip: the lease of a dial that is given up is kept until it runs out.
SetRelaysKept(p) ==
  /\ Used(p) /\ Aborted(p)
  /\ IF reader[p] = "off"
     THEN Closed(p) /\ UNCHANGED <<relay, reader>>
     ELSE Start(p, "none", relay, 0, FALSE)
  /\ UNCHANGED hold

\* setRelays(): dials under way are aborted, and the subscription starts afresh,
\* also one the relay had refused.
SetRelays(p) ==
  /\ Used(p) /\ Aborted(p)
  /\ IF reader[p] = "off"
     THEN Closed(p) /\ relay' = Released(relay, p) /\ UNCHANGED reader
     ELSE Start(p, "none", Released(relay, p), 0, FALSE)
  /\ UNCHANGED hold

\* close(); another pool may take its place.
Stop(p) ==
  /\ Used(p) /\ Aborted(p)
  /\ Closed(p) /\ relay' = Released(relay, p)
  /\ reader' = [reader EXCEPT ![p] = "off"]
  /\ UNCHANGED hold

\* The relay closes the subscription: for a while, or for good.
RelayCloses(p) ==
  /\ reader[p] = "live"
  /\ \/ reader' = [reader EXCEPT ![p] = "closed"] /\ resend' = [resend EXCEPT ![p] = Resend]
     \/ reader' = [reader EXCEPT ![p] = "stuck"] /\ UNCHANGED resend
  /\ UNCHANGED <<relay, hold, socket, reserved, linger, asked, redial, overtaken>>

\* pool.close() of a dial: it lingers, and the publish that waits for it goes on
\* waiting.
Abandon(p) ==
  /\ linger[p] = "no"
  /\ linger' = [linger EXCEPT ![p] = "owned"]
  /\ socket' = [socket EXCEPT ![p] = "none"]
  /\ asked' = [asked EXCEPT ![p] = IF @ = "waits" THEN "late" ELSE @]
  /\ reader' = [reader EXCEPT ![p] = Cut(p)]
  /\ UNCHANGED <<relay, reserved, overtaken>>

\* Slip: only a pool without a socket looks for bindings that are closed.
RecoverLost(p) ==
  /\ reader[p] # "off" /\ ~redial[p] /\ hold["read"].left <= 0
  /\ reader[p] = "stuck" \/ resend[p] = 0
  /\ redial' = [redial EXCEPT ![p] = TRUE]
  /\ \/ socket[p] = "dialing" /\ Abandon(p)
     \/ socket[p] = "none" /\ UNCHANGED <<relay, socket, reserved, linger, asked, reader, overtaken>>
  /\ UNCHANGED <<hold, resend>>

\* #recoverSubscriptions(): a closed binding is renewed on an open socket; without
\* one, a dial under way is closed and a redial set.  By the time it may come
\* again, the dial it closed is over.
Recover(p) ==
  /\ reader[p] # "off" /\ ~redial[p] /\ hold["read"].left <= 0
  /\ \/ /\ socket[p] = "open" /\ reader[p] = "closed" /\ resend[p] = 0
        /\ Start(p, "open", relay, 0, FALSE)
        /\ UNCHANGED <<linger, asked, redial, overtaken>>
     \/ /\ reader[p] = "stuck" \/ resend[p] = 0
        /\ redial' = [redial EXCEPT ![p] = TRUE]
        /\ \/ socket[p] = "dialing" /\ Abandon(p)
           \/ socket[p] = "none" /\ UNCHANGED <<relay, socket, reserved, linger, asked, reader, overtaken>>
  /\ UNCHANGED <<hold, resend>>

\* The redial waits for the backoff too, and then starts the binding.
Redial(p) ==
  /\ redial[p] /\ relay.after = 0
  /\ redial' = [redial EXCEPT ![p] = FALSE]
  /\ IF reader[p] \in {"off", "stuck"}
     THEN UNCHANGED <<relay, socket, reserved, reader>>
     ELSE Start(p, socket[p], relay, resend[p], Kept(p))
  /\ UNCHANGED <<hold, linger, asked, resend, overtaken>>

\* The deadline of a dial that lingers: it has failed, and what receipt it had is
\* consumed, be it that of a younger dial.
LateGate(p) == IF Kept(p) THEN FailedDial(relay, p) ELSE Failed(relay)

\* Nobody waits for it.
Late(p) ==
  /\ linger[p] # "no" /\ asked[p] # "late"
  /\ linger' = [linger EXCEPT ![p] = "no"]
  /\ relay' = LateGate(p)
  /\ IF Kept(p) /\ socket[p] = "none"
     THEN reserved' = [reserved EXCEPT ![p] = 0] /\ overtaken' = overtaken \ {p}
     ELSE /\ overtaken' = IF Kept(p) /\ reserved[p] > 0 THEN overtaken \cup {p} ELSE overtaken
          /\ UNCHANGED reserved
  /\ UNCHANGED <<hold, socket, asked, reading>>

\* A publish waits for it: that fails, closes whatever socket the pool has by now, be
\* it a dial of the binding, and starts the binding; the backoff turns it away, unless
\* the dial it had leaves it a receipt.
LatePublish(p) ==
  /\ linger[p] # "no" /\ asked[p] = "late"
  /\ asked' = [asked EXCEPT ![p] = "none"]
  /\ IF linger[p] = "spent" /\ socket[p] = "dialing"
     THEN /\ linger' = [linger EXCEPT ![p] = "owned"]
          /\ Start(p, "none", LateGate(p), resend[p], TRUE)
          /\ UNCHANGED overtaken
     ELSE /\ linger' = [linger EXCEPT ![p] = IF socket[p] = "dialing" THEN "spent" ELSE "no"]
          /\ Closed(p) /\ relay' = LateGate(p)
          /\ reader' = [reader EXCEPT ![p] = Cut(p)]
          /\ overtaken' = overtaken \ {p}
  /\ UNCHANGED <<hold, resend, redial>>

-----------------------------------------------------------------------------
(* A pool: its publishes, and what the relay says *)

\* The hold is looked at, then the socket is waited for.
Publish(p) ==
  /\ asked[p] = "none" /\ hold["write"].left <= 0
  /\ \/ /\ socket[p] = "none" /\ Dial(p, relay, Kept(p))
        /\ asked' = [asked EXCEPT ![p] = "waits"]
     \/ /\ socket[p] # "none"
        /\ asked' = [asked EXCEPT ![p] = IF socket[p] = "open" THEN "sent" ELSE "waits"]
        /\ UNCHANGED <<relay, socket, reserved>>
  /\ UNCHANGED <<hold, linger, overtaken, reading>>

\* The relay says something on its own account, the answer to a publish or an
\* event: it has not failed any more.
Answers(p) ==
  /\ socket[p] = "open"
  /\ relay' = Healthy
  /\ reserved' = [q \in Pool |-> 0]
  /\ \/ asked[p] = "sent" /\ asked' = [asked EXCEPT ![p] = "none"]
     \/ reader[p] = "live" /\ UNCHANGED asked
  /\ UNCHANGED <<hold, socket, linger, overtaken, reading>>

\* A publish is not answered in time: the socket is closed, and the binding, which
\* starts at once, is turned away by the backoff.
PublishTimesOut(p) ==
  /\ socket[p] = "open" /\ asked[p] = "sent" /\ Gone(p)
  /\ relay' = Failed(relay)
  /\ UNCHANGED <<hold, linger, resend, redial>>

\* The relay complains: of writes, or of a subscription and so of writes as well.
Complains(p) ==
  /\ socket[p] = "open"
  /\ \/ /\ hold' = [hold EXCEPT !["write"] = Held(@)]
        /\ UNCHANGED reader
     \/ /\ reader[p] = "live" /\ reader' = [reader EXCEPT ![p] = "closed"]
        /\ hold' = [k \in Traffic |-> Held(hold[k])]
  /\ UNCHANGED <<relay, socket, reserved, linger, asked, resend, redial, overtaken>>

\* The socket closes: a failure if a publish was waiting for its answer.
Drops(p) ==
  /\ socket[p] = "open" /\ Gone(p)
  /\ relay' = IF asked[p] = "sent" THEN Failed(relay) ELSE relay
  /\ UNCHANGED <<hold, linger, resend, redial>>

\* probe(): a socket that says nothing is closed and dialled again; the lease of
\* another's dial is freed with it.
ProbeFails(p) ==
  /\ socket[p] = "open"
  /\ socket' = [socket EXCEPT ![p] = "none"]
  /\ asked' = [asked EXCEPT ![p] = IF @ = "late" THEN @ ELSE "none"]
  /\ reader' = [reader EXCEPT ![p] = Cut(p)]
  /\ relay' = FailedSocket(relay)
  /\ redial' = [redial EXCEPT ![p] = TRUE]
  /\ overtaken' = {q \in Pool \ {p} : reserved[q] > 0}
  /\ UNCHANGED <<hold, reserved, linger, resend>>

Less(t) == Max({t - 1, 0})

\* Slip: a lease does not run out.
TickLeaseless ==
  /\ relay' = [relay EXCEPT !.after = Less(@)]
  /\ hold' = [k \in Traffic |-> [hold[k] EXCEPT !.left = Max({@ - 1, 0 - HoldMax})]]
  /\ reserved' = [p \in Pool |-> Less(reserved[p])]
  /\ resend' = [p \in Pool |-> Less(resend[p])]
  /\ UNCHANGED <<socket, linger, asked, reader, redial, overtaken>>

Tick ==
  /\ relay' = [relay EXCEPT !.after = Less(@), !.lease = Less(@)]
  /\ hold' = [k \in Traffic |-> [hold[k] EXCEPT !.left = Max({@ - 1, 0 - HoldMax})]]
  /\ reserved' = [p \in Pool |-> Less(reserved[p])]
  /\ resend' = [p \in Pool |-> Less(resend[p])]
  /\ UNCHANGED <<socket, linger, asked, reader, redial, overtaken>>

Next ==
  \/ \E p \in Pool :
       \/ Opens(p) \/ DialFails(p) \/ RefusedUpgrade(p)
       \/ Subscribe(p) \/ SetRelays(p) \/ Stop(p)
       \/ RelayCloses(p) \/ Recover(p) \/ Redial(p) \/ Late(p) \/ LatePublish(p)
       \/ Publish(p) \/ Answers(p) \/ PublishTimesOut(p)
       \/ Complains(p) \/ Drops(p) \/ ProbeFails(p)
  \/ Tick

Spec == Init /\ [][Next]_vars

\* Time passes, the timers of a pool fire, and a connection has a deadline.
FairSpec ==
  /\ Spec /\ WF_vars(Tick)
  /\ \A p \in Readers : WF_vars(Recover(p)) /\ WF_vars(Redial(p))
  /\ \A p \in Pool : WF_vars(Late(p) \/ LatePublish(p))

-----------------------------------------------------------------------------
(* Properties *)

TypeOK ==
  /\ relay.failures \in Nat /\ relay.after \in 0..Max({BackoffMax, HoldMax})
  /\ relay.lease \in 0..Lease /\ relay.owner \in Pool \cup {Nobody}
  /\ hold \in [Traffic -> [strikes : Nat, left : (0 - HoldMax)..HoldMax]]
  /\ socket \in [Pool -> {"none", "dialing", "open"}]
  /\ reserved \in [Pool -> 0..Lease]
  /\ linger \in [Pool -> {"no", "owned", "spent"}]
  /\ asked \in [Pool -> {"none", "waits", "sent", "late"}]
  /\ reader \in [Pool -> {"off", "asking", "live", "closed", "stuck"}]
  /\ resend \in [Pool -> 0..Resend] /\ redial \in [Pool -> BOOLEAN]
  /\ overtaken \subseteq Pool
  /\ ~Failing(relay) => relay = Healthy

\* p has a dial that has a reservation to give back.
Dialling(p) == socket[p] = "dialing" \/ linger[p] = "owned"

\* Once a relay fails, one dial at a time is let through, however many pools
\* want one, until that dial reports, the relay answers somebody, or nothing has
\* been heard of it for the lease.  Two things may let one more through: a probe
\* that fails, and the deadline of a dial under the next dial of its pool.
OneDial == Cardinality({p \in Pool \ overtaken : reserved[p] > 0}) <= 1

\* So the gate has it: not even then.
OneDialEver == Cardinality({p \in Pool : reserved[p] > 0}) <= 1

\* The pools never wait for nobody: who holds them off is dialling now, or has a
\* dial that has yet to reach its deadline, whatever was cancelled, closed,
\* answered, or failed under another pool or another dial in between.
LeaseIsUsed == relay.lease > 0 => relay.owner \in Pool /\ Dialling(relay.owner)

\* The relay is not held off for ever, though a dial may never report back:
\* again and again it may be dialled, or somebody has a socket or a young dial.
NotStuck == []<>(Open(relay) \/ \E p \in Pool : socket[p] = "open" \/ reserved[p] > 0)

\* A subscription is not left behind: if the relay may be dialled and asked, and
\* did not refuse for good, a binding that was closed by a lost socket, a publish
\* that timed out, a probe, a hold or the relay is made again.
ReaderComesBack ==
  \A p \in Readers :
    []<>~(reader[p] = "closed" /\ resend[p] = 0 /\ hold["read"].left <= 0 /\ Open(relay))

\* Nothing is written to a relay while a hold is on.
HeldIsQuiet ==
  [][\A p \in Pool : asked[p] # "sent" /\ asked'[p] = "sent" => hold["write"].left <= 0]_vars
=============================================================================
