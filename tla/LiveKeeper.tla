----------------------------- MODULE LiveKeeper -----------------------------
(***************************************************************************)
(* The journal of a live keeper: src/live-keeper.ts.  One owner runs        *)
(* one job at a time; a job writes the whole record before each handoff to  *)
(* the relay, and waits for the handoff.  A write may fail after it was     *)
(* made, which poisons the owner; a handoff may fail after the relay took   *)
(* it; the process may end anywhere; the clock may be set back.             *)
(*                                                                          *)
(* Left out: the metadata of checkpoint(), the limits on the number of      *)
(* cached answers and on checks, and the shape checks of what is read.      *)
(***************************************************************************)
EXTENDS Integers, Sequences, FiniteSets, SequencesExt, FiniteSetsExt

CONSTANTS
  Request,     \* the requests for admission
  Expires,     \* [Request -> the time a request expires]
  Secret,      \* what a rekey may hand over
  Life,        \* how long an answer is good for
  Window,      \* how far back reservations count
  Budget,      \* how many handoffs a window has
  MaxOffers,   \* how often an answer is offered
  MaxEpoch,    \* bound: rekeys on one path
  MaxTime,     \* bound: the clock
  MaxSlips,    \* bound: how often the clock is set back
  MaxFailures  \* bound: failed writes and crashes

ASSUME LiveKeeperAssumption ==
  /\ Expires \in [Request -> Nat]
  /\ {Life, Window, Budget, MaxEpoch, MaxTime, MaxSlips, MaxFailures} \subseteq Nat
  /\ MaxOffers \in Nat \ {0}

VARIABLES
  disk,      \* the record in storage
  data,      \* the record in memory
  owner,     \* "down", "up", "closing" or "poisoned"
  job,       \* what the owner is doing
  clock,
  out,       \* [Request -> the answers handed out, in order]
  notices,   \* the rekeys and tombstones handed out
  handoffs,  \* the handoffs of the current window
  signed,    \* [Request -> how many answers were signed]
  slips, failures

vars == <<disk, data, owner, job, clock, out, notices, handoffs, signed, slips, failures>>
bounds == <<slips, failures>>

Rekey(n, s, c) == [epoch |-> n, secret |-> s, closes |-> c]
Tombstone(at, ended) == [at |-> at, ended |-> ended]
IsRekey(e) == "epoch" \in DOMAIN e

NoPending == [events |-> << >>, next |-> << >>, phase |-> "none"]
NoAnswer == [epoch |-> 0, at |-> 0, offers |-> 0, serial |-> 0]
Idle == [kind |-> "idle"]

Rekeys == [epoch : Nat, secret : Secret, closes : BOOLEAN]
Tombstones == [at : Nat, ended : BOOLEAN]
Pendings == [events : Seq(Rekeys \cup Tombstones), next : Seq(Rekeys), phase : {"none", "active", "retired", "closed"}]
Answers == [epoch : Nat, at : Nat, offers : 0..MaxOffers, serial : Nat]
\* Reservations are counted: their time, and which one of that time it is.
Reservations == [at : Nat, nth : Nat]

\* A record of the journal.  The keeper state is its chain of rekeys: the epoch
\* is their number.
IsJournal(d) ==
  /\ d \in [phase : {"active", "retired", "closed"}, keeper : Seq(Rekeys), lastAt : Nat,
            pending : Pendings, answers : [Request -> Answers], reserved : SUBSET Reservations]
  /\ d.pending # NoPending => d.pending.phase = d.phase
  /\ IsFiniteSet(d.reserved) /\ Cardinality(d.reserved) <= Budget

Epoch == Len(data.keeper)
Pending == data.pending # NoPending

Init ==
  /\ disk = [phase |-> "active", keeper |-> << >>, lastAt |-> 0, pending |-> NoPending,
             answers |-> [r \in Request |-> NoAnswer], reserved |-> {}]
  /\ data = disk /\ owner = "up" /\ job = Idle /\ clock = 0
  /\ out = [r \in Request |-> << >>] /\ notices = {} /\ handoffs = {}
  /\ signed = [r \in Request |-> 0]
  /\ slips = 0 /\ failures = 0

-----------------------------------------------------------------------------
(* Storage.  A failed write may have been made; the owner does nothing more. *)

Save(next) == disk' = next /\ data' = next

Fails(next) ==
  /\ failures < MaxFailures /\ failures' = failures + 1
  /\ disk' \in {disk, next} /\ owner' = "poisoned" /\ job' = Idle
  /\ UNCHANGED <<data, clock, out, notices, handoffs, slips>>

\* A job begins, its inputs checked against the record as it is now.
Begins == owner = "up" /\ job = Idle

\* Slip: the durable time is not looked at.
TimeUnchecked == clock >= 0

TimeIsGood == clock >= data.lastAt

\* One more in the window that ends at this time; what is older is forgotten.
InWindow(S, at) == {x \in S : x.at + Window > at}
Another(S, at) == [at |-> at, nth |-> CHOOSE n \in 1..(Cardinality(S) + 1) : [at |-> at, nth |-> n] \notin S]
OneMore(S, at) == InWindow(S, at) \cup {Another(InWindow(S, at), at)}

HasBudget(d, at) == Cardinality(InWindow(d.reserved, at)) < Budget

\* Slip: each reservation takes the place of the others.
ReservingLast(d, at) == [d EXCEPT !.lastAt = at, !.reserved = {[at |-> at, nth |-> 1]}]

Reserving(d, at) == [d EXCEPT !.lastAt = at, !.reserved = OneMore(@, at)]

\* What the relay saw in that window.
Noted(at) == OneMore(handoffs, at)

-----------------------------------------------------------------------------
(* Answers *)

\* Slip: a pending transition does not stop the answers.
LookAnyway(r) ==
  LET next == [data EXCEPT !.lastAt = clock] IN
  /\ Begins /\ TimeIsGood /\ data.phase = "active"
  /\ \/ /\ Save(next) /\ job' = [kind |-> "look", request |-> r, at |-> clock]
        /\ UNCHANGED <<owner, clock, out, notices, handoffs, signed, slips, failures>>
     \/ Fails(next) /\ UNCHANGED signed

\* answer(): the first write records that a request was looked at.
Look(r) ==
  LET next == [data EXCEPT !.lastAt = clock] IN
  /\ Begins /\ TimeIsGood
  /\ data.phase = "active" /\ ~Pending
  /\ \/ /\ Save(next) /\ job' = [kind |-> "look", request |-> r, at |-> clock]
        /\ UNCHANGED <<owner, clock, out, notices, handoffs, signed, slips, failures>>
     \/ Fails(next) /\ UNCHANGED signed

\* The cached answers that are kept: those to requests that have not expired.
Cached(at) == [r \in Request |-> IF Expires[r] > at THEN data.answers[r] ELSE NoAnswer]

\* A request is refused: it has expired, was answered in another epoch, or was
\* offered often enough; or there is no budget.
Answerable(r, at) ==
  LET c == data.answers[r] IN
  /\ Expires[r] > at
  /\ c # NoAnswer => c.epoch = Epoch /\ c.offers < MaxOffers /\ c.at + Life > at
  /\ HasBudget(data, at)

Refuse ==
  /\ job.kind = "look" /\ ~Answerable(job.request, job.at)
  /\ job' = Idle
  /\ UNCHANGED <<disk, data, owner, clock, out, notices, handoffs, signed, slips, failures>>

\* The answer that goes out: the cached one, or one signed now.
Offered(r, at) ==
  LET c == data.answers[r] IN
  IF c # NoAnswer THEN [c EXCEPT !.offers = @ + 1]
  ELSE [epoch |-> Epoch, at |-> at, offers |-> 1, serial |-> signed[r] + 1]

\* The second write keeps the answer, and then it is handed out.
Give ==
  LET r == job.request
      a == Offered(r, job.at)
      next == Reserving([data EXCEPT !.answers = [Cached(job.at) EXCEPT ![r] = a]], job.at)
  IN
  /\ job.kind = "look" /\ Answerable(r, job.at)
  /\ signed' = [signed EXCEPT ![r] = Max({@, a.serial})]
  /\ \/ /\ Save(next) /\ job' = [kind |-> "give"]
        /\ out' = [out EXCEPT ![r] = Append(@, [epoch |-> a.epoch, serial |-> a.serial])]
        /\ handoffs' = Noted(job.at)
        /\ UNCHANGED <<owner, clock, notices, slips, failures>>
     \/ Fails(next)

\* The handoff is done, or failed: either way the job ends.
Given ==
  /\ job.kind = "give" /\ job' = Idle
  /\ UNCHANGED <<disk, data, owner, clock, out, notices, handoffs, signed, slips, failures>>

-----------------------------------------------------------------------------
(* Transitions *)

\* checkpoint(): the room's metadata is written, which is not modelled.
Checkpoint ==
  LET next == [data EXCEPT !.lastAt = clock] IN
  /\ Begins /\ TimeIsGood /\ ~Pending /\ data.phase # "closed"
  /\ \/ Save(next) /\ UNCHANGED <<owner, job, clock, out, notices, handoffs, slips, failures>>
     \/ Fails(next)
  /\ UNCHANGED signed

\* The write that begins a transition; nothing of it is handed out before.
Prepare(next) ==
  /\ \/ Save(next) /\ UNCHANGED <<owner, job, clock, out, notices, handoffs, slips, failures>>
     \/ Fails(next)
  /\ UNCHANGED signed

\* Slip: the invitation counts as valid until the tombstone is out.
RetireLater ==
  /\ Begins /\ TimeIsGood /\ ~Pending /\ data.phase = "active"
  /\ Prepare([data EXCEPT !.lastAt = clock,
       !.pending = [events |-> <<Tombstone(clock, FALSE)>>, next |-> data.keeper, phase |-> "retired"]])

\* retire()
Retire ==
  /\ Begins /\ TimeIsGood /\ ~Pending /\ data.phase = "active"
  /\ Prepare([data EXCEPT !.phase = "retired", !.lastAt = clock,
       !.pending = [events |-> <<Tombstone(clock, FALSE)>>, next |-> data.keeper, phase |-> "retired"]])

\* prepareRekey(): the room signed a rekey that follows the current epoch.
PrepareRekey(e) ==
  LET target == IF e.closes THEN "closed" ELSE data.phase IN
  /\ Begins /\ TimeIsGood /\ ~Pending /\ data.phase # "closed"
  /\ e.epoch = Epoch + 1
  /\ Prepare([data EXCEPT !.phase = target, !.lastAt = clock,
       !.pending = [events |-> IF e.closes THEN <<Tombstone(clock, TRUE), e>> ELSE <<e>>,
                    next |-> Append(data.keeper, e), phase |-> target]])

\* The record with the pending transition made.
Completed == [data EXCEPT !.keeper = data.pending.next, !.phase = data.pending.phase, !.pending = NoPending]

\* offerPending(): the events go out in order, each reserved first.
Hand(i) ==
  LET next == Reserving(data, clock) IN
  /\ TimeIsGood /\ HasBudget(data, clock)
  /\ \/ /\ Save(next) /\ job' = [kind |-> "hand", index |-> i]
        /\ notices' = notices \cup {data.pending.events[i]}
        /\ handoffs' = Noted(clock)
        /\ UNCHANGED <<owner, clock, out, slips, failures>>
     \/ Fails(next)
  /\ UNCHANGED signed

OfferPending == Begins /\ Pending /\ Hand(1)

\* A handoff is done: the next one, or the transition is complete.
HandNext == job.kind = "hand" /\ job.index < Len(data.pending.events) /\ Hand(job.index + 1)

\* Slip: the transition counts as made once the first of its events is out.
CompleteEarly ==
  /\ job.kind = "hand"
  /\ \/ Save(Completed) /\ job' = Idle /\ UNCHANGED <<owner, clock, out, notices, handoffs, slips, failures>>
     \/ Fails(Completed)
  /\ UNCHANGED signed

Complete ==
  /\ job.kind = "hand" /\ job.index = Len(data.pending.events)
  /\ \/ Save(Completed) /\ job' = Idle /\ UNCHANGED <<owner, clock, out, notices, handoffs, slips, failures>>
     \/ Fails(Completed)
  /\ UNCHANGED signed

\* A handoff fails, whatever the relay made of it; or the clock or the budget
\* refuses the next one.  The transition stays pending.
Interrupted ==
  /\ job.kind = "hand" /\ job' = Idle
  /\ UNCHANGED <<disk, data, owner, clock, out, notices, handoffs, signed, slips, failures>>

-----------------------------------------------------------------------------
(* The owner's life *)

\* Without an owner there is no record in memory: open() reads the one in storage.
Gone == owner' = "down" /\ data' = disk

\* close(): no job begins, the one that runs ends first.
Close ==
  /\ owner \in {"up", "poisoned"}
  /\ IF job = Idle THEN Gone ELSE owner' = "closing" /\ UNCHANGED data
  /\ UNCHANGED <<disk, job, clock, out, notices, handoffs, signed, slips, failures>>

Closed ==
  /\ owner = "closing" /\ job = Idle /\ Gone
  /\ UNCHANGED <<disk, job, clock, out, notices, handoffs, signed, slips, failures>>

\* open()
Reopen ==
  /\ owner = "down" /\ owner' = "up"
  /\ UNCHANGED <<disk, data, job, clock, out, notices, handoffs, signed, slips, failures>>

Crash ==
  /\ owner # "down" /\ failures < MaxFailures /\ failures' = failures + 1
  /\ Gone /\ job' = Idle
  /\ UNCHANGED <<disk, clock, out, notices, handoffs, signed, slips>>

Tick ==
  /\ clock < MaxTime /\ clock' = clock + 1
  /\ UNCHANGED <<disk, data, owner, job, out, notices, handoffs, signed, slips, failures>>

SetBack ==
  /\ slips < MaxSlips /\ slips' = slips + 1
  /\ clock' \in 0..MaxTime /\ clock' < clock
  /\ UNCHANGED <<disk, data, owner, job, out, notices, handoffs, signed, failures>>

Next ==
  \/ \E r \in Request : Look(r)
  \/ Refuse \/ Give \/ Given
  \/ Checkpoint \/ Retire
  \/ \E n \in 1..MaxEpoch, s \in Secret, c \in BOOLEAN : PrepareRekey(Rekey(n, s, c))
  \/ OfferPending \/ HandNext \/ Complete \/ Interrupted
  \/ Close \/ Closed \/ Reopen \/ Crash
  \/ Tick \/ SetBack

Spec == Init /\ [][Next]_vars

-----------------------------------------------------------------------------
(* Properties *)

TypeOK ==
  /\ IsJournal(disk) /\ IsJournal(data)
  /\ owner \in {"down", "up", "closing", "poisoned"}
  /\ job.kind \in {"idle", "look", "give", "hand"}
  /\ job.kind = "hand" => job.index \in 1..Len(data.pending.events)
  /\ clock \in 0..MaxTime
  /\ \A r \in Request : disk.answers[r].serial <= signed[r]

\* However often a request comes, the owner restarts and the clock is set back:
\* one and the same signed answer is handed out, and at most MaxOffers times.
AnsweredOnce ==
  \A r \in Request :
    /\ Cardinality(ToSet(out[r])) <= 1
    /\ Len(out[r]) <= MaxOffers

\* The relay never sees more handoffs in a window than the budget has, though
\* failed writes and restarts come between reserving and handing out.
BudgetKept == Cardinality(handoffs) <= Budget

\* A transition that counts as made was handed out, all of it: a crash or a
\* failed write may repeat a handoff and never skips one.
DoneIsHanded ==
  disk.pending = NoPending =>
    /\ ToSet(disk.keeper) \subseteq notices
    /\ disk.phase # "active" => \E e \in notices : ~IsRekey(e) /\ (disk.phase = "closed" => e.ended)

\* What is durable is the chain of rekeys that KeeperAuthority promises, and no
\* failure of a write, a handoff or the process can be seen in it.
Authority == INSTANCE KeeperAuthority WITH
  chain <- IF disk.pending = NoPending THEN disk.keeper ELSE disk.pending.next,
  shared <- {e \in notices : IsRekey(e)},
  lifecycle <- disk.phase,
  proven <- [r \in Request |-> IF out[r] = << >> THEN MaxEpoch + 1 ELSE Last(out[r]).epoch]

ImplementsAuthority == Authority!AuthoritySpec
=============================================================================
