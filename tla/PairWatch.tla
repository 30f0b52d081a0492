----------------------------- MODULE PairWatch -----------------------------
(***************************************************************************)
(* What one side of a pair does about media that stopped arriving:          *)
(* PairController and PairLadder (src/pair-controller.ts and                *)
(* src/pair-health.ts) with the route of the pair in src/mesh.ts            *)
(* they act on, while a forwarder may come and go.                          *)
(*                                                                          *)
(* Tick is one sample period.  What it finds is one verdict over all slots; *)
(* the reports of a single dead slot and the RTCP of the other direction    *)
(* are left out.  A generation only goes up, so of the pair's number and    *)
(* the one the controller has seen, only whether they differ is kept.       *)
(***************************************************************************)
EXTENDS Integers, FiniteSets, FiniteSetsExt

CONSTANTS
  Grace, Dead,            \* samples: of grace, and of silence after it
  RestartFor, RebuildFor, \* [{"direct", "turn"} -> samples before the next step]
  Window, MaxRebuilds,    \* at most so many rebuilds of the ladder in a window
  MaxOthers, MaxForwarders \* bounds: rebuilds and new sessions of others, forwarders tried

ASSUME PairWatchAssumption ==
  /\ {Grace, Dead, Window, MaxRebuilds} \subseteq Nat \ {0}
  /\ RestartFor \in [{"direct", "turn"} -> Nat] /\ RebuildFor \in [{"direct", "turn"} -> Nat]
  /\ MaxOthers \in Nat /\ MaxForwarders \in Nat

VARIABLES
  route,   \* the mesh's Route: tier, connected and exhausted
  forwarding, \* of the room: "off", "trying" or "up"
  link,    \* the pair's connection: "none", "opening", "open" or "up"
  media,   \* what the far end's media does: "flows", "silent", or "idle" when none is advertised
  moved,   \* whether the generation is another than #watchedGeneration
  queued,  \* whether a rebuild of the ladder waits in the peer's queue
  deadIn,  \* samples before silence counts as dead
  ladder,  \* PairLadder: the step, the samples since it, the ages of its rebuilds
  control, \* PairController: suspended, selfRebuild, rest (the timer), ladder as shown
  age,     \* how many samples the connection of this generation has been there for
  others, forwarders \* how often the bounded events happened

vars == <<route, forwarding, link, media, moved, queued, deadIn, ladder, control, age, others, forwarders>>

Fresh == Grace + Dead + 1
\* Further than this, samples need not be counted.
Longest == Max({RestartFor[t] : t \in {"direct", "turn"}} \union {RebuildFor[t] : t \in {"direct", "turn"}} \union {Grace + Dead + 1})
Top == [tier |-> "direct", connected |-> FALSE, exhausted |-> FALSE]
Aged(n) == IF n < Longest THEN n + 1 ELSE n

Init ==
  /\ route = Top /\ forwarding = "off"
  /\ link = "opening" /\ media = "silent"
  /\ moved = FALSE /\ queued = FALSE /\ deadIn = Fresh /\ age = 0
  /\ ladder = [step |-> "healthy", since |-> 0, rebuilds |-> {}]
  /\ control = [suspended |-> FALSE, selfRebuild |-> FALSE, rest |-> FALSE, ladder |-> "healthy"]
  /\ others = 0 /\ forwarders = 0

-----------------------------------------------------------------------------
(* The controller: what is left of it and of the ladder after each call *)

\* PairLadder.reset: its rebuilds are remembered.
Reset(l) == [l EXCEPT !.step = "healthy", !.since = 0]

Exhausted(c) == IF c.suspended \/ c.rest THEN c ELSE [c EXCEPT !.rest = TRUE, !.ladder = "resting"]

Resumed(c) == IF c.suspended THEN [c EXCEPT !.suspended = FALSE, !.ladder = "healthy"] ELSE c

\* A new SlotPeer for the pair, and attach; l and c as they are before it.
Attached(l, c) ==
  /\ link' = "opening" /\ moved' = FALSE /\ queued' = FALSE /\ deadIn' = Fresh
  /\ ladder' = Reset(l) /\ control' = [c EXCEPT !.selfRebuild = FALSE]

\* closePeer, and detach: no sample is taken any more.
Detached(l, c) ==
  /\ link' = "none" /\ queued' = FALSE
  /\ ladder' = l /\ control' = c
  /\ UNCHANGED <<moved, deadIn>>

-----------------------------------------------------------------------------
(* The connection, and the generations of the pair *)

\* A connection of another generation, by whoever opened it.
Replaced == link' = "open" /\ moved' = TRUE /\ age' = 0

\* The new peer starts: its first generation.
Start ==
  /\ link = "opening" /\ Replaced
  /\ UNCHANGED <<route, forwarding, media, queued, deadIn, ladder, control, others, forwarders>>

\* The rebuild of the ladder comes up in the peer's queue.
Rebuild ==
  /\ queued /\ queued' = FALSE /\ Replaced
  /\ UNCHANGED <<route, forwarding, media, deadIn, ladder, control, others, forwarders>>

\* The far end rebuilt, or this end did for another reason than the ladder's.
OtherRebuild ==
  /\ link \in {"open", "up"} /\ others < MaxOthers
  /\ others' = others + 1 /\ Replaced
  /\ UNCHANGED <<route, forwarding, media, queued, deadIn, ladder, control, forwarders>>

\* connected(): the transport is up.
Connect ==
  /\ link = "open" /\ link' = "up"
  /\ control' = [control EXCEPT !.rest = FALSE, !.selfRebuild = FALSE, !.ladder = "healthy"]
  /\ deadIn' = Fresh /\ ladder' = Reset(ladder)
  /\ route' = [route EXCEPT !.connected = TRUE]
  /\ UNCHANGED <<forwarding, media, moved, queued, age, others, forwarders>>

\* The transport is disconnected for now.
Disconnect ==
  /\ link = "up" /\ link' = "open"
  /\ UNCHANGED <<route, forwarding, media, moved, queued, deadIn, ladder, control, age, others, forwarders>>

\* On to a rung: what was connected is not any more.
OnRung(tier) == [route EXCEPT !.tier = tier, !.connected = FALSE]

\* The transport failed: #endpointFailed and #escalate, with no volunteer.
FailToForwarder ==
  /\ link \in {"open", "up"} /\ route.tier = "direct"
  /\ forwarding = "off" => forwarders < MaxForwarders
  /\ route' = OnRung("forwarder")
  /\ forwarders' = IF forwarding = "off" THEN forwarders + 1 ELSE forwarders
  /\ forwarding' = "trying"
  /\ Detached(ladder, control)
  /\ UNCHANGED <<media, age, others>>

FailToTurn ==
  /\ link \in {"open", "up"} /\ route.tier = "direct"
  /\ route' = OnRung("turn")
  /\ Attached(ladder, control)
  /\ UNCHANGED <<forwarding, media, age, others, forwarders>>

FailOnTurn ==
  /\ link \in {"open", "up"} /\ route.tier = "turn"
  /\ route' = [route EXCEPT !.connected = FALSE, !.exhausted = TRUE]
  /\ Detached(ladder, Exhausted(control))
  /\ UNCHANGED <<forwarding, media, age, others, forwarders>>

Media ==
  /\ media' \in {"flows", "silent", "idle"} \ {media}
  /\ UNCHANGED <<route, forwarding, link, moved, queued, deadIn, ladder, control, age, others, forwarders>>

-----------------------------------------------------------------------------
(* One sample, judged *)

Arriving == media = "flows" /\ link = "up"

\* Grace runs from the first sample; after it, silence counts from the last one
\* in which something arrived.
NextDeadIn ==
  IF media = "idle" THEN Fresh
  ELSE IF Arriving /\ deadIn <= Dead + 1 THEN Dead
  ELSE IF deadIn > 0 THEN deadIn - 1 ELSE 0

Broken == NextDeadIn = 0

\* The ladder and its rebuilds are one sample older.
Older == [ladder EXCEPT !.since = Aged(@), !.rebuilds = {n + 1 : n \in {m \in @ : m + 1 < Window}}]

Stepped(step) == [Older EXCEPT !.step = step, !.since = 0]
\* The tier is the peer's own: every change of the route's makes a new peer.
Waited(for) == Older.since >= for[IF route.tier = "turn" THEN "turn" ELSE "direct"]

\* What is shown follows the ladder, but for a rest.
Shown(c, l) == IF l.step = "resting" THEN c ELSE [c EXCEPT !.ladder = l.step]

Judged(l, c) ==
  /\ ladder' = l /\ control' = Shown(c, l) /\ deadIn' = NextDeadIn
  /\ UNCHANGED <<route, link, moved>>

\* Slip: the silence of the connection before is carried over.
AnotherGenerationCondemned ==
  /\ moved /\ moved' = FALSE /\ deadIn' = NextDeadIn
  /\ control' = [control EXCEPT !.selfRebuild = FALSE]
  /\ ladder' = IF control.selfRebuild THEN Older ELSE Reset(Older)
  /\ UNCHANGED <<route, link, queued>>

\* Slip: its own rebuild starts the ladder again, too.
AnotherGenerationAlwaysAgain ==
  /\ moved /\ moved' = FALSE /\ deadIn' = Fresh
  /\ control' = [control EXCEPT !.selfRebuild = FALSE, !.ladder = "healthy"]
  /\ ladder' = Reset(Older)
  /\ UNCHANGED <<route, link, queued>>

\* The generation changed since the last sample: the grace starts again, and
\* the ladder too unless the rebuild was its own.
AnotherGeneration ==
  /\ moved /\ moved' = FALSE /\ deadIn' = Fresh
  /\ \/ /\ control.selfRebuild
        /\ control' = [control EXCEPT !.selfRebuild = FALSE]
        /\ ladder' = Older
     \/ /\ ~control.selfRebuild
        /\ control' = [control EXCEPT !.ladder = "healthy"]
        /\ ladder' = Reset(Older)
  /\ UNCHANGED <<route, link, queued>>

NothingWrong ==
  /\ ~moved /\ ~Broken
  /\ Judged(IF Arriving /\ ladder.step # "healthy" THEN Stepped("healthy") ELSE Older, control)
  /\ UNCHANGED queued

NotYet ==
  /\ ~moved /\ Broken
  /\ \/ ladder.step = "restarting" /\ ~Waited(RestartFor)
     \/ ladder.step = "rebuilding" /\ ~Waited(RebuildFor)
     \/ ladder.step = "resting"
  /\ Judged(Older, control)
  /\ UNCHANGED queued

RestartIce ==
  /\ ~moved /\ Broken /\ ladder.step = "healthy"
  /\ Judged(Stepped("restarting"), control)
  /\ UNCHANGED queued

RebuildAgain ==
  /\ ~moved /\ Broken /\ ladder.step = "restarting" /\ Waited(RestartFor)
  /\ \/ /\ Cardinality(Older.rebuilds) < MaxRebuilds
        /\ Judged([Stepped("rebuilding") EXCEPT !.rebuilds = @ \union {0}], [control EXCEPT !.selfRebuild = TRUE])
        /\ queued' = TRUE
     \/ /\ Cardinality(Older.rebuilds) >= MaxRebuilds
        /\ Judged(Stepped("resting"), Exhausted(control))
        /\ UNCHANGED queued

\* Slip: the ladder rests, and nobody is told.
NextTierSilently ==
  /\ ~moved /\ Broken /\ ladder.step = "rebuilding" /\ Waited(RebuildFor)
  /\ \/ /\ route.tier = "direct" /\ route' = OnRung("turn")
        /\ Attached(Older, [control EXCEPT !.ladder = "healthy"])
     \/ /\ route.tier # "direct" /\ Judged(Stepped("resting"), control)
        /\ UNCHANGED queued

\* onNextTier: a new connection over TURN; from TURN there is no way but a rest.
NextTier ==
  /\ ~moved /\ Broken /\ ladder.step = "rebuilding" /\ Waited(RebuildFor)
  /\ \/ /\ route.tier = "direct" /\ route' = OnRung("turn")
        /\ Attached(Older, [control EXCEPT !.ladder = "healthy"])
     \/ /\ route.tier # "direct" /\ Judged(Stepped("resting"), Exhausted(control))
        /\ UNCHANGED queued

Sampling == link \in {"open", "up"} /\ ~control.suspended

Tick ==
  /\ age' = Aged(age)
  /\ \/ Sampling /\ (AnotherGeneration \/ NothingWrong \/ NotYet \/ RestartIce \/ RebuildAgain \/ NextTier)
     \/ ~Sampling /\ ladder' = Older /\ UNCHANGED <<route, link, moved, queued, deadIn, control>>
  /\ UNCHANGED <<forwarding, media, others, forwarders>>

-----------------------------------------------------------------------------
(* The rest, and the forwarder of the room *)

\* The rest is over: #restartPair, from the top rung.
RestOver ==
  /\ control.rest
  /\ route' = Top
  /\ Attached(ladder, [control EXCEPT !.rest = FALSE, !.ladder = "healthy"])
  /\ UNCHANGED <<forwarding, media, age, others, forwarders>>

\* The room is to be carried by a forwarder, for its uplink or for another pair.
Promote ==
  /\ forwarding = "off" /\ forwarders < MaxForwarders
  /\ forwarding' = "trying" /\ forwarders' = forwarders + 1
  /\ UNCHANGED <<route, link, media, moved, queued, deadIn, ladder, control, age, others>>

\* Every direct connection is closed, and the controllers are suspended.
ForwarderConnected ==
  /\ forwarding = "trying" /\ forwarding' = "up"
  /\ Detached(ladder, [control EXCEPT !.suspended = TRUE, !.rest = FALSE])
  /\ UNCHANGED <<route, media, age, others, forwarders>>

\* With no forwarder in the way, a pair without a connection gets one again,
\* unless its rung is the forwarder's or it is out of rungs (#reconcile).
Reopened ==
  IF link = "none" /\ route'.tier # "forwarder" /\ ~route'.exhausted
  THEN Attached(ladder, Resumed(control))
  ELSE control' = Resumed(control) /\ UNCHANGED <<link, moved, queued, deadIn, ladder>>

\* It did not come up, or dropped: a pair on its rung goes on to the last one.
ForwarderFailed ==
  /\ forwarding # "off" /\ forwarding' = "off"
  /\ route' = IF route.tier = "forwarder" THEN OnRung("turn") ELSE route
  /\ Reopened
  /\ UNCHANGED <<media, age, others, forwarders>>

\* It is not wanted any more.  With a pair on its rung that is so only while
\* this device keeps its media from somebody (#audienceNarrows), and then the
\* pair stays on that rung.
ForwarderUnwanted ==
  /\ forwarding # "off" /\ forwarding' = "off"
  /\ UNCHANGED route
  /\ Reopened
  /\ UNCHANGED <<media, age, others, forwarders>>

-----------------------------------------------------------------------------
(* What the far end makes this one do *)

\* It offers from TURN, and is met there: not from a connection that is up.
FollowRung ==
  /\ route.tier = "direct" /\ ~route.connected
  /\ route' = OnRung("turn")
  /\ IF link = "none"
     THEN UNCHANGED <<link, moved, queued, deadIn, ladder, control>>
     ELSE Attached(ladder, control)
  /\ UNCHANGED <<forwarding, media, age, others, forwarders>>

\* Another page session of the far end's device answers: the peer was not made
\* for that one, and is replaced on the same rung.
SessionSwapped ==
  /\ link # "none" /\ others < MaxOthers
  /\ others' = others + 1
  /\ route' = [route EXCEPT !.connected = FALSE]
  /\ Attached(ladder, control)
  /\ UNCHANGED <<forwarding, media, age, forwarders>>

Next ==
  \/ Start \/ Rebuild \/ OtherRebuild
  \/ Connect \/ Disconnect \/ FailToForwarder \/ FailToTurn \/ FailOnTurn
  \/ Media \/ Tick
  \/ RestOver \/ Promote \/ ForwarderConnected \/ ForwarderFailed \/ ForwarderUnwanted
  \/ FollowRung \/ SessionSwapped

\* The timers of the sampler and of the rest fire, a peer that is made starts,
\* and what waits in its queue is done.
Fairness == WF_vars(Tick) /\ WF_vars(RestOver) /\ WF_vars(Start) /\ WF_vars(Rebuild)

Spec == Init /\ [][Next]_vars
FairSpec == Spec /\ Fairness

-----------------------------------------------------------------------------
(* Properties *)

\* Types, and that no connection, sample or timer is left under a forwarder.
TypeOK ==
  /\ route \in [tier : {"direct", "forwarder", "turn"}, connected : BOOLEAN, exhausted : BOOLEAN]
  /\ forwarding \in {"off", "trying", "up"}
  /\ link \in {"none", "opening", "open", "up"} /\ media \in {"flows", "silent", "idle"}
  /\ moved \in BOOLEAN /\ queued \in BOOLEAN /\ deadIn \in 0..Fresh /\ age \in 0..Longest
  /\ ladder.step \in {"healthy", "restarting", "rebuilding", "resting"}
  /\ ladder.since \in 0..Longest /\ ladder.rebuilds \subseteq 0..Window
  /\ control.suspended = (forwarding = "up")
  /\ control.suspended => link = "none" /\ ~control.rest
  /\ others \in 0..MaxOthers /\ forwarders \in 0..MaxForwarders

\* "There is deliberately no terminal state" (pair-controller.ts:49), of the
\* ladder: while it rests on a connection that is watched, a timer runs that
\* will start the pair again, whatever rebuilt, connected or failed meanwhile.
RestIsArmed == Sampling /\ ladder.step = "resting" => control.rest

\* A fresh connection is not condemned by the silence of the one it replaced
\* (pair-controller.ts:242, :378): what the ladder does, it does to a connection
\* that has itself been there for the grace and the dead window, which is that
\* many whole periods between its samples.
JudgedByItsOwnSilence ==
  [][Tick /\ (ladder'.step \notin {ladder.step, "healthy"} \/ route' # route) => age' > Grace + Dead]_vars

\* A pair whose connection does not come up and carries nothing is tried again
\* from the top, over and over, and stays on no rung for ever.
NeverGivesUp ==
  <>[](link \in {"opening", "open"} /\ media = "silent") => []<>(route.tier = "turn") /\ []<>(route.tier = "direct")

\* The same of a pair that is out of rungs: "no such state" as exhausted for
\* ever (pair-controller.ts:281); what is to start it again must be under way.
ExhaustedComesBack == route.exhausted /\ ~control.suspended => control.rest

\* Not a rebuild over and over on one rung (pair-controller.ts:187): a pair to
\* which nothing comes reaches the next rung, or a rest, also when its transport
\* comes up and does not drop again.
MovesOn ==
  <>[](media = "silent" /\ link # "none") /\ <>[][~Disconnect]_vars
    => []<>(route.tier = "turn" \/ control.rest)

\* "Degraded, never broken" (mesh.ts:1750), of a pair on the forwarder's rung:
\* it has no connection of its own, so the room is on a forwarder or on its way.
RungIsCarried == route.tier = "forwarder" => forwarding # "off"

\* A rest that is over starts again a pair that is out of order, not one whose
\* media has come back.
RestIsForTheBroken == [][RestOver => ~(Arriving /\ ladder.step = "healthy")]_vars
=============================================================================
