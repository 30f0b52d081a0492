# KithMoot: specifications and proofs

TLA+ models of KithMoot, a TypeScript system of end-to-end encrypted rooms, calls
and agents over Nostr relays: what was modelled, what TLC checks on small instances,
what TLAPS proves for every instance, and what is left out.

Paths are relative to the repository root; the library's own code is `src/*.ts`.

## The system's parts

| part | code | state it keeps | what makes it correct |
|---|---|---|---|
| Signal channel | `src/signal-channel.ts` | per connection: numbers sent, unacked queue, retry and ack timers, expected number, out-of-order buffer | what is sent arrives once and in order over a relay that loses, repeats and reorders; nothing unreceived is forgotten |
| Slot pair (generations, glare) | `src/slot-peer.ts`, `src/peer-generation.ts` | generation, connection id, highest remote generation, outstanding offer, channel | both ends settle on one generation and one session; glare has exactly one winner; an old generation never corrupts a new one |
| Pair health and rebuild ladder | `src/pair-health.ts`, `src/pair-controller.ts` | rung, attempt times, evidence of media | a blind pair climbs the ladder; a healthy one is left alone |
| Journal storage | `src/journal-storage.ts` | `base`, `head`, numbered segments, a cached view, a queue of operations | after a crash between any two writes, a reader sees the journal before or after the interrupted operation |
| State file lock | `src/node/state-lock.ts` | `<state>.lock` | one keeper per state file, through crashes and restarts |
| Delivery receipts | `src/delivery-receipt-writer.ts`, `src/delivery-receipt.ts` | pending watermark, timer, generation of the session | the latest read or delivered mark is published in the end, an old session's never |
| Live keeper | `src/live-keeper.ts`, `src/keeper-state.ts` | the room's epoch, a pending transition, cached answers, reserved handoffs | one answer per request and one successor per epoch, through crashes; the budget of the relay holds |
| Rekey schedule, fresh epochs | `src/rekey-schedule.ts`, `src/fresh-epoch.ts`, `src/agent.ts` | when the next rekey is due, requests of late devices | a removed member never holds a later secret; a scheduled rekey happens |
| Group grants and ledger | `src/group-grants*.ts`, `src/node/kithmoot-node/ledger.ts` | grants, reset floors, idempotent operations | a revoked grant does not come back; an operation is applied once |
| Assignments | `src/assignments.ts`, `src/assignment-log.ts` | signed operations, an outbox, a serial queue | what is shown is durable; the log survives ambiguous writes; branches are visible to all |
| Execution of assignments | `src/node/assignment-work.ts`, `src/node/assignment-execution.ts` | an execution file per attempt, what this process holds | an attempt starts once; nobody works on what another is working on |
| Session and mesh | `src/session.ts`, `src/mesh.ts`, `src/roster.ts` | members, presence, pairs, epochs | every pair of present members converges to a connection |
| Legacy peer | `src/peer.ts` | perfect negotiation for profile 1 | as the slot pair |
| Relay dial gate | `src/relay-dial-gate.ts` | per relay, for the process: failures, backoff, a lease, holds | one dial at a time to a relay that fails; nobody waits for a dial that is gone |
| Relay pool | `src/relay-pool.ts`, `src/shared-relay-sockets.ts` | sockets, subscriptions, publish promises | a subscription survives reconnects |
| Peer relay and assist | `src/peer-relay.ts`, `src/peer-assist.ts`, `src/reachability.ts` | forwarded streams, offers of help | relaying ends when either side leaves; no loops |
| Messages and chat | `src/chat.ts`, `src/messages.ts`, `src/read-position.ts`, `src/outbox` code under `app/src` | message log, edits, read marks, outbox | the same messages in the same order everywhere; nothing in the outbox is lost or sent twice |
| Realtime calls | `src/realtime/` | sessions with a forwarder, routes, packets | a packet is forwarded to whom the room allows, within its lifetime |
| Box cadence | `src/box-cadence.ts` | none: control requests | the bytes that are signed are the bytes that are meant |
| Admission, invitations | `src/live-admission*.ts`, `src/*invitation.ts` | pending requests, answers | one answer per request, none after expiry |
| Signalling guard | `src/signal-guard.ts`, `src/signal.ts` | seen ids, counts per sender | an event is handled once, an old one never |
| Protocol execution | `src/protocol-execution.ts`, `src/protocol-timers.ts` | work retained by an embedding | nothing runs outside the boundary |
| Group storage | `src/group-storage.ts` | none of its own | requests name the grant they stand on |
| Node host, agents | `src/node/` | processes, context, assignments at work | work is done once and stops with its room |
| Self-destruct | `src/self-destruct.ts`, `src/node/self-destruct.ts` | deadline | what is due is gone, also after a restart |
| MLS groups | `src/vmls/`, `app/src/mls-*.ts` | vault, grants, revocation outbox | a revocation is neither lost nor done twice |
| Media | `src/media-crypto.ts`, `src/peer-slots.ts`, `src/video-effects.ts` | frame keys, slots, pixels | media plane, not control |
| Web application | `app/src` | user interface, storage adapters | mostly views over the library |
| Server | `server/` | forwarding, meeting codes, TURN credentials | expiry and quota of codes |
| Desktop, packages | `desktop/`, `packages/` | shells and helpers | packaging |

### How they interact

`Session` learns of members from the relay pool and asks `Mesh` for one pair per
remote device. A pair controller owns a slot peer; the slot peer owns one signal
channel per connection and hands it every signal of its own generation; what the channel
releases goes to the negotiator, one call at a time. Pair health reads the connection and
asks the controller to climb: restart ICE, rebuild the connection at a higher generation,
change tier. Keepers hold a room's state file under the state lock and sign rekeys through the
live keeper's journal. An agent acts on an assignment through the assignment log, which
publishes on the room's channel. All pools of a process ask one gate before they dial.
Journals, receipts and grants are stored through asynchronous key-value stores that can
fail or stop between any two calls.

### Which behaviours are hard

Signals are ephemeral events on public relays: they are lost, repeated and reordered,
and two sides act at once. Timers race late answers. Object stores are written one key
at a time and a tab can be closed between any two. Several processes share files. The hazard
list of `PROJECT.json` names the lines where this bites and the properties that watch
over each.

## Modules

| module | models | kind |
|---|---|---|
| `SignalChannel` | both ends of one signalling channel and the relay | specification |
| `MCSignalChannel` | two devices, stray signals of other connections | model checking |
| `SignalChannelProofs` | acks, order, timers and answers, for every instance | proofs |
| `SlotPair` | both ends of a pair: generations, glare, restarts, rebuilds | specification |
| `MCSlotPair` | two devices | model checking |
| `SlotPairProofs` | the impolite end stays; one opening on a connection, and no wedge, until something strays | proofs |
| `StateLock` | keepers on several hosts taking, losing and releasing the lock | specification |
| `MCStateLock` | four keepers, two hosts, reused pids | model checking |
| `StateLockProofs` | mutual exclusion for every number of keepers and hosts | proofs |
| `DurableJournal` | what a journal promises its callers | abstract specification |
| `JournalStorage` | the journal as a root and records in a key-value store | specification |
| `MCJournalStorage` | two texts, two deltas, small limits | model checking |
| `JournalStorageProofs` | crash safety, and that it implements `DurableJournal` | proofs |
| `Assignments` | one assignment: which operation may follow which history | operators |
| `AssignmentHistory` | what the log of assignments promises to those who act on it | abstract specification |
| `AssignmentLog` | the log and its outbox on every device, and the relay | specification |
| `MCAssignmentLog` | a creator and an owner | model checking |
| `AssignmentWork` | agents that claim, report, die and recover, over `AssignmentHistory` | composition |
| `MCAssignmentWork` | a creator and two agents | model checking |
| `AssignmentProofs` | the log is a history; an attempt starts once; one worker without a conflict | proofs |
| `KeeperAuthority` | what a keeper promises to the room | abstract specification |
| `LiveKeeper` | the owner of a room and its journal | specification |
| `MCLiveKeeper` | two requests, two secrets | model checking |
| `LiveKeeperProofs` | one answer, the budget, nothing skipped, and that it implements `KeeperAuthority` | proofs |
| `RelayDials` | the gate of one relay with the pools of a process; also run as it is | specification |
| `RelayDialsProofs` | one dial at a time, no lease without a dial that has yet to report, for every number of pools | proofs |
| `PairWatch` | one side's judgement of a pair, its ladder, its route and the room's forwarder | specification |
| `MCPairWatch` | the deadlines, in samples | model checking |
| `PairWatchProofs` | a rest has its timer, no connection inherits a silence, for every deadline | proofs |

### State and actions against the code

`SignalChannel` has a variable for each field of the class (`sent` stands for `#outSeq` and
what was sent), one `wire` for the relay, and four history variables. A channel starts unbound and at the first number: the constructor's `peerConn` and
`expectedSeq` (`signal-channel.ts:249`, `:264`), which a slot peer passes to the channel of a connection it makes to answer an offer, are left out there; `SlotPair` has them, in `Answer`. Each public call,
each of the two timers and each branch of `receive` is an action. The loop that
releases held signals is a run of steps in which nothing else moves, since
`receive` does not await. A message carries the set of numbers whose content is in
it (`carries`), which is what tells a batch from the range it covers.

`SlotPair` has one record per device with the fields of `SlotPeer` and of its channel, and
`tasks`, the promise chain `#operations`. Every method that is queued is an action on the
head of the queue; what `#handleSignal` decides is `Decision`, the table of
`src/peer-generation.ts`. An operation is one step: between its awaits other
calls can only append to the queue. The channel is the one above with its buffer
left out (a signal ahead of its turn waits to be repeated), so that what
`SignalChannel` shows of holes and batches is not shown again here. `strayed` is a history variable: it is set for good when
an offer is made inside a generation (`#restartIce`), or when an operation that the channel of one generation released
runs on the connection of another. The code does both, and leaves the ends apart after it (see the table of limits), so
`NoSilentWedge`, `FourLines` and `Settles` speak of a pair until then. Nothing is excluded by a bound for it: calls from outside
queue up to `Backlog`, and the channel adds to the queue without one. Taken never to reject are
`setRemoteDescription` (`slot-peer.ts:725-739`) and the rollback (`:636`), whose failures end in the negotiation's error path. A
copy that comes late carries what was stamped on it when it was first published; retries carry the stamps of their moment.

`StateLock` makes each system call of `acquireStateLock` and `release` a step of one process.
The lock file is named after the process incarnation that created it, so that "the
file I read" and "the file I unlink" can differ.

`JournalStorage` makes each awaited write, blanking and removal of the store a step that may
reject, with or without effect, or be the last one of the process. Reading the chain is one
step, since nothing else writes. A record is identified with the part of the journal it
reaches, which is what its SHA-256 chain does. `Phase` and `Journal(root)` map it to
`DurableJournal`: a call takes effect when the root is written.

`Assignments` is `transition` and `projectAssignments`: an event is the sequence of operations that it
ends, which is what naming one's predecessor by its hash amounts to. `AssignmentLog` has one
`task` per device for the work item of the serial queue, from the computation of what it writes to the
end of the write; the publish, which is outside that queue, is the stages of a `call`. The relay keeps
each event under the epoch it was published in. A failed write is made or not, and the log reads
back what is durable unless its subscription was renewed. `open()` is three steps, `Open` (`#opened` is set and the session has the log), `Read` (storage is
read) and `Loaded` (what was read is shown, and subscribed), or `LoadFails`; `Rekey` subscribes from the first on, as the code does, also
a log that is still empty. What then arrives is written over what is in storage, and `early` remembers the device.
Mapped to `AssignmentHistory`, all of this is `Learn`, `Sign`, `Publish`, `Settle` or nothing, and for an early device `Forgets`:
its storage becomes anything, and nobody else's changes. `AssignmentHistory` lets any write lose operations of
others (`Droppable`), which is weaker than what the log does and suffices to those who act on it; what is lost
of the log itself is bounded by `ShownIsKept`.

Four simplifications of the log. The signer is awaited in the middle of `submit`; `Queue` is one step to the start of the write, since the serial queue is held meanwhile (a renewed
subscription in between makes the write outdated a moment earlier). A log that is gone ends its write before the next `open()` reads. After an early write the log goes on incrementally, on a base that is
not its own; what comes of that is not followed, beyond that the device is early. The session closes a log whose load failed
and may open another (`session.ts:3572-3574`), which is `LoadFails` and `Open`.

`AssignmentWork` puts `AgentAssignmentWork` and its execution journal on that abstract log, so that it
holds for whatever the log may do by its promise. Each await (the principal's approval, the log's submit, the second
look) ends a step. `report()` and `recoverStopped()` run here when no claim of the same agent is in progress; the code lets them
overlap (`assignment-work.ts:71`, `:97`), and overlaps of different agents are in the model. Three reductions: a device learns nothing over a gap, since it does nothing while it has
one; the creator signs, publishes and records in one step; work ends no earlier than it is
reported or confirmed to have.

`LiveKeeper` has the record in storage, the record in memory and the job in progress. Each write of
the journal is a step that may fail with or without being made, which poisons the owner as `#save` does; handing out is the
rest of that step, since it follows the write at once. The queue of jobs is abstracted to "any next call".
Without an owner `data` is what `open()` would read. `KeeperAuthority` sees the pending chain
as decided the moment it is durable.

`RelayDials` counts every deadline down in `Tick` instead of comparing times. The receipt of a reservation is the
pool that holds it. A pool's binding is `asking` (sent with the socket under way), `live`, `closed` (to be made again)
or `stuck` (refused for good); `redial` is the timer with jitter. `overtaken` remembers which dial lost its lease to
a failed probe, or to an older dial of its pool. The recovery closes a dial without aborting it (`relay-pool.ts:1355`): the dial's promise settles only at
the deadline of the connection (`:312-314`), until when its receipt stays in `ownedDials` (`:353-355`) and lets the next dial of the pool through
on the old reservation (`:335`). `linger` is that dial, `owned` while it has the receipt and `spent` once a later dial consumed it; `Late` and
`LatePublish` are its deadline, without or with a publish that still waits for it. At most one dial lingers in a pool, since the recovery
has a cooldown of 15 s and a dial a deadline of 8 s. An answer to a publish is not told apart from an event: both make the relay healthy.

`PairWatch` takes one `Tick` per sample of `PairHealth`, with one verdict over all slots, and has
`PairController` and `PairLadder` field by field. `deadIn` counts down to the verdict, first over the grace. What the mesh does to
the pair's `Route` (`#endpointFailed`, `#escalate`, `#restartPair`, `#followRung`, a new page session of the far end, the forwarder's calls) is an action each. A
forwarder that failed (`#forwarderFailed`) sends the pairs of its rung to TURN; one that is not wanted any more (`#evaluatePromotion`) leaves
them where they are, and that happens with a pair on its rung while this device keeps its media from somebody. A change of tier always makes a
new peer, so the peer's tier, by which the ladder waits, is the route's. `age` is
a history variable: how long this connection has been there.

## What the runs check

| run | question | bounds | answer |
|---|---|---|---|
| `channel_owner` | with rollback, health, reconnects, closing and strays: is nothing unreceived forgotten, every needed timer armed, every owed ack owed, only the last offer answered? | two sends each way, one copy on the wire, four stray signals, a buffer of one | yes |
| `channel_live` | does each of three signals arrive, once and in order, retried in batches, is nothing passed that was not received, and does the queue drain? | three sends one way, three copies on the wire; no description sent over unacked candidates | yes |
| `pair` | do two ends, whenever they start, avoid falling silent apart and a second opening on one connection, does the impolite end give way inside a generation, do they settle for good? | one rebuild, restart of ICE or lost path at either end, one early candidate of the polite end, one call from outside waiting | yes, and never; the first, second and last until something strays |
| `lock_serial` | one keeper, foreign locks untouched, when starts do not overlap? | four keepers, two hosts, one shared pid, one restart | yes |
| `journal_store` | does the root always lead to its records, is the cache true, is the storage a durable journal, does every call settle? | three calls, one text besides the empty one, two deltas, depth two, every mishap, a store without `remove` | yes |
| `assign_log` | is what is shown and what waits durable, does it stay so, is the log a history and an outbox, does what was published arrive? | two devices, two operations, one failed write or load and one crash in all, one change of keys on each device, before, while or after it loads | yes, but for a device that wrote before it had loaded |
| `assign_early` | does what could not be sent remain in the outbox, on any device? | as `assign_log` | no, see below |
| `assign_work` | does an attempt start once, does one agent work at a time, on what is publicly claimed? | a creator, two agents of which one may fail and die once, six operations, two attempts | yes, or the conflict is there for all to see |
| `keeper` | one answer per request, the budget kept, nothing counted as made that was not handed out, and one chain of rekeys? | two requests, two rekeys, three ticks, one set-back of the clock, one failed write or crash | yes |
| `gate` | one dial at a time, no wait for nobody, no relay held off for ever, no subscription left behind? | two pools, one of them subscribed | yes |
| `watch` | does a resting ladder have a timer, is a fresh connection spared, does the ladder go on for ever? | one rebuild or new page session of others, one forwarder | yes |
| `watch_exhausted` | is a pair that is out of rungs tried again after a forwarder? | as `watch` | no, see below |

Why the bounds are enough to be interesting: two copies on the wire are what a
retry overtaking the original needs, and three sends are what a batch with a hole
below it needs; one call waiting behind a running operation is what interleaves the
pair's queue with the relay; three calls of the journal put one committed, one
rejected and one recovering call in a row, and depth two makes the third append hit the limit. A
signal in `SlotPair` that was once published may arrive at any later time and any number of
times, without a bound.

Two operations after each other are a creation and what the owner or the creator
answers to it; on both devices at once they are a branch. Six let an attempt be claimed, handed over, released and
assigned anew, with a claim of the second attempt. One death leaves an execution file of a process that is gone,
and the device starts again. In `keeper`, a budget of three in a window of two ticks is reached by two requests and
a rekey; the first request expires while the second is good, and a clock that is set back makes it good again; two
rekeys are what a second one behind a pending one needs. Two pools are one that dials and one
that is held off and takes over; an older dial of either, ending late, takes the part of a third. A lease of three ticks
outlives a first backoff of one and a second of two, not the longest of four.
In `watch` a sample stands for six seconds, so that grace (6 s), dead window (6 s), the steps' delays (8 and 12 s to a rebuild, 12
and 20 s to the next rung) and the 60-s window are 1, 1, 2 and 2, 2 and 4, and 10 samples: the
ladder climbs through all of it, up to three rebuilds in one window.

Caps on what would be unbounded: `MaxAsks`, `MaxSends`, `MaxWire`, `MaxAttempt` (of the channel: retries that lengthen the
timer), `BufferLimit`, `MaxCalls`, `MaxBoot`, `Backlog`, `MaxOps`, `MaxEpoch`, `MaxCrash`, `MaxFault`, `MaxLife`, `MaxAttempt` (of
`AssignmentWork`: attempts that are tracked), `MaxTime`, `MaxSlips`, `MaxFailures`, `MaxOthers`, `MaxForwarders`. `MaxBytes` and `MaxDepth` of
the journal and `Lease`, `BackoffMax`, `HoldStart`, `HoldMax`, `Resend` of the relay, `Budget`, `Window`, `Life`, `MaxOffers`
of the keeper and the deadlines of `PairWatch` are the code's own limits at a smaller size. Deadlock is
checked in `keeper`, `gate`, `watch` and `watch_exhausted`; the other systems stop when their calls are spent.

### Fairness

The retry timer of a channel is armed as long as something is unacked (`RetryArmed`), so it fires
again and again; a relay that loses does not lose every copy of what is repeated for ever. Hence strong
fairness of a retry, of a repeated ack and of an arrival that stays possible, and no more: an
individual copy may always be lost. In `SlotPair` promises of the connection
settle (weak fairness of `Run`), the owner starts the pair, and the oldest unacked signal gets
through infinitely often if it is infinitely often to be repeated. In `JournalStorage`
a promise of the store settles, with success or rejection (weak fairness of `Work`); which
way is free.

In `AssignmentLog` the host opens the log, storage answers, and the relay ends its history and delivers
what it has (weak fairness of `Open`, `Read`, `Loaded`, `Written`, `EndOfHistory` and of receiving something); nobody is assumed to submit or to
retry. `Shared` speaks of the first epoch, because later events under old keys are not fetched. In `RelayDials` time passes and a
reader's two timers fire (`Tick`, `Recover`, `Redial`), and a dial that was closed comes to its deadline (`Late`, `LatePublish`): no other dial, answer or publish is assumed ever to
happen. In `PairWatch` the timers of the sampler and of the rest fire (`Tick`, `RestOver`) and what a peer has queued is done (`Start`,
`Rebuild`); connections, media and the forwarder are free. Time and steps have no order
between them but this: a timer may be late by any number of ticks.

## Disagreements between the code and what it says of itself

Two runs that TLC must find violated.

`assign_early`: **what waits to be sent is overwritten when the keys change before the log has loaded**
(`src/assignment-log.ts:142`). `open()` sets `#opened` and then awaits storage; the session has published the log by then
(`src/session.ts:3571`), and a change of keys calls `rekey()` (`:2446`), which looks at `#opened` only
(`src/assignment-log.ts:426`) and subscribes. The write of the first event that arrives has no base, so a snapshot of
that event replaces the stored history and outbox (`:320-341`). The trace: an operation is queued and its send fails, the log is opened again, the keys change,
an event arrives and is written. The comment of `submit()` (`:354-355`) says that failed and ambiguous sends remain in the
encrypted outbox and retry the exact same signed operation.

`watch_exhausted`: **an exhausted pair stays down after a forwarder**
(`src/pair-controller.ts:310`). `suspend()` clears the timer of a rest and `resume()` does not set it again; the
route is still exhausted, so `#reconcile` opens no peer for it (`src/mesh.ts:989`) and `#escalate` returns
early (`:1411`). The comment at `src/pair-controller.ts:49` says that there is deliberately no terminal state.

Limits of what the passing runs show, each reproducible with a configuration that
is kept for it. `tlc -config <configuration> <module>` finds the named property violated; the passing runs exclude what
is named in the last column, or check something weaker.

| configuration, module | property | what happens | in the runs |
|---|---|---|---|
| `SignalChannel_interleave.cfg`, `MCSignalChannel` | `PassedWasReceived` | A retry sends all unacked candidates as one range; a description numbered inside it is skipped by the receiver, and the copy it holds thrown away (`src/signal-channel.ts:420`). | `channel_live` sends descriptions over no unacked candidate |
| `SignalChannel_rollback.cfg`, `MCSignalChannel` | `HoleIsRetransmitted` | The number of an offer that was rolled back before any copy arrived is never filled (`src/signal-channel.ts:442`). | `channel_owner` rolls back, and asks nothing of arrival |
| `StateLock_race.cfg`, `MCStateLock` | `OneKeeper` | A lock is judged stale and unlinked by path in two steps; a third starter's fresh lock may lie between (`src/node/state-lock.ts:131`). | `lock_serial` has one starter at a time |
| `StateLock_foreign.cfg`, `MCStateLock` | `ForeignLockUntouched` | The lock that goes at the unlink may be another host's, which nothing was known of at the read (`src/node/state-lock.ts:180`). | as above |
| `SlotPair_copy.cfg`, `MCSlotPair` | `CopiesAreIdempotent` | A late copy of an answered offer counts as glare, and the polite end withdraws its own restart (`src/slot-peer.ts:607`). If that restart is then answered, the two are in different sessions. | nothing is promised once an offer was made inside a generation (`strayed`) |
| `SlotPair_heal.cfg`, `MCSlotPair` | `FourLinesEver` | A restart while the opening offer is unanswered turns an opening glare into a rollback, and the connection gets eight m-lines (`src/slot-peer.ts:570`). | as above |
| `SlotPair_backlog.cfg`, `MCSlotPair` | `SessionOfThisGeneration` | Behind a queued rebuild, what the old channel released is applied to the new connection (`src/slot-peer.ts:660`), against the comment at `:836`. | nothing is promised once an operation ran on another connection (`strayed`) |
| `AssignmentLog_rekey.cfg`, `MCAssignmentLog` | `HistoryKept` | An event whose write outlives its subscription is in storage and not in memory (`src/assignment-log.ts:274`); the next write drops it (`:324`). `docs/den-assignments.md:160` says that cached history survives a change of epoch. | `AssignmentHistory` may lose the operations of others at any write; `ShownIsKept` says that what is shown stays |
| `RelayDials_probe.cfg`, `RelayDials` | `OneDialEver` | A probe that fails on an open socket (`src/relay-pool.ts:1018`) frees the lease of another pool's dial (`src/relay-dial-gate.ts:109`), and a second dial is let through (against `:18`). | `OneDial` excepts the dial so overtaken, and the one that the deadline of an older dial of its pool overtakes |
| `RelayDials_hold.cfg`, `RelayDials` | `HeldIsQuiet` | The hold is looked at before the socket is awaited (`src/relay-pool.ts:753`): a publish, or a subscription, is written although another pool was told to slow down meanwhile (against `src/relay-dial-gate.ts:144`). | not asked |
| `PairWatch_stuck.cfg`, `MCPairWatch` | `MovesOn` | A rebuild whose transport comes up starts the ladder again before its media is judged (`src/pair-controller.ts:268`): restart, rebuild and again, up to the limit of rebuilds in a window, which the code's own delays do not reach. `:187` says this was to be prevented. | `NeverGivesUp` speaks of connections that do not come up |
| `PairWatch_narrow.cfg`, `MCPairWatch` | `RungIsCarried` | A pair whose connection fails goes to the forwarder's rung (`src/mesh.ts:1437`) though this device keeps its media from somebody; the forwarder is then not wanted (`:1643`), and given up. The pair stays on a rung that `#reconcile` opens no peer for (`:989`), without a timer, until a later change of the roster finds the audience whole. | not asked |

Smaller observations. A failure of the route leaves the timer of a rest armed though media has returned; when it fires,
a healthy connection is torn down (`RestIsForTheBroken` in `PairWatch` states the opposite). A far
end's rebuild that falls between this end's `rebuild()` and its next sample is taken for its own. An operation
that waits in the outbox under an old epoch can neither be published nor withdrawn, and blocks every further one of that device
(`src/assignment-log.ts:404`, `:407`). A reservation that was made and never published blocks its attempt for every later process
(`src/node/assignment-execution.ts:41`): the price of `StartedOnce`. A pair that
strays can fall silent apart: `SlotPair_copy.cfg` leads there too.

## What is proved

TLAPS checks these for every value of the constants that satisfies the named assumptions of the modules. Most of
those only give a constant its type. These say more:

- `ConstantsAssumption` of `SignalChannel`: stray signals are of another generation, connection or addressee, which is what makes them stray.
- `WorkAssumption` of `AssignmentWork`: an executor id is made by the process that reserves it, the creator does not execute, and
  the history that agents start from is lawful, finite and without an execution yet.
- `PairAssumption` of `SlotPair`: two devices, one of them polite.

Two theorems have a hypothesis of their own besides. It is the one under which the run checks the property, and without it TLC finds the property
violated with the configuration in brackets. Those of `SlotPair` and of the log of assignments have none: what the code does there that breaks
a promise (`strayed`, `early`) is in the model, and the property speaks of what has not come to it.

| theorem of `SignalChannelProofs` | says |
|---|---|
| `TypeCorrect` | `Spec => []TypeOK` |
| `AcksAreSound` | `Spec => []AckSound` |
| `RetryIsArmed` | `Spec => []RetryArmed` |
| `AckIsOwed` | `Spec => []AckOwed` |
| `HandedInOrder` | `Spec => []AppliedInOrder` |
| `PassedReceived` | `Spec => []PassedWasReceived`, if no description is sent over candidates that wait (`~Interleave`; `SignalChannel_interleave.cfg`) |
| `OnlyTheLastOffer` | `Spec => AnswersTheLastOffer` |

| theorem of `SlotPairProofs` | says |
|---|---|
| `TypeCorrect` | `Spec => []TypeOK` |
| `TheImpoliteEndStays` | `Spec => ImpoliteKeepsItsConnection`, whatever is asked, queued or repeated |
| `OpenedOnce` | `Spec => []FourLines`, for any number of operations waiting and any disturbance, until something strays (`SlotPair_heal.cfg` shows what follows) |
| `SilentIsSettled` | `Spec => []NoSilentWedge`, for the same |

| theorem | says |
|---|---|
| `StateLockProofs!MutualExclusion` | `Overlap = FALSE` implies `Spec => []OneKeeper` (`StateLock_race.cfg`) |
| `StateLockProofs!TypeCorrect` | types, whether starts overlap or not |
| `JournalStorageProofs!CrashSafe`, `CacheTrue`, `TypeCorrect` | `Spec => []Recoverable`, `[]CacheIsTrue`, `[]TypeOK` |
| `JournalStorageProofs!Implements` | every behaviour is one of `DurableJournal` |
| `AssignmentProofs!NothingShownIsLost` | `LogSpec => []ShownIsSaved`: of every device that is not early |
| `AssignmentProofs!WhatIsShownStays` | `LogSpec => ShownIsKept`: no write takes from storage what is shown, on a device that is not early |
| `AssignmentProofs!Implements` | every step of the log is one of `AssignmentHistory`, none, or a step of an early device that changes its own storage alone |
| `AssignmentProofs!OneVersionOfEach` | `LogSpec => []OneVersion`: no device that is not early publishes two operations on one version |
| `AssignmentProofs!StartsOnce`, `WorkClaimed`, `OneWorks` | `Spec => []StartedOnce`, `[]WorkIsClaimed`, `[]OneWorker` of `AssignmentWork` |
| `LiveKeeperProofs!TypeCorrect`, `AnsweredAtMostOnce`, `BudgetIsKept`, `NothingSkipped` | `Spec => []TypeOK`, `[]AnsweredOnce`, `[]BudgetKept`, `[]DoneIsHanded` |
| `LiveKeeperProofs!Implements` | every behaviour is one of `KeeperAuthority` |
| `LiveKeeperProofs!OneRekeyToAnEpoch` | one chain of rekeys: an invariant of the authority, which the keeper therefore has |
| `RelayDialsProofs!OneDialAtATime`, `LeaseUsed` | `Spec => []OneDial`, `[]LeaseIsUsed` |
| `PairWatchProofs!EveryRestEnds`, `NoInheritedSilence`, `TypeCorrect` | `Spec => []RestIsArmed`, `JudgedByItsOwnSilence`, `[]TypeOK` |

In each case the property is not inductive by itself. What had to be added is the content of the proof:

*The lock.* One starter at a time; whoever is past writing owns the
file; a running keeper wrote the present boot and shares its host and pid with nobody; what a starter
has read is still what the file says unless the file is gone; nobody owns what is about to be
unlinked. Without the last two the step that unlinks cannot be shown safe: they are
exactly what an overlapping start breaks.

*The journal.* That a root write keeps `Recoverable`
needs that the records of the new head are there already (`WritesWell`, one conjunct per
point of the program), that cleaning up touches none of them (`CleansWell`), that the
cache a call started from is the root (`CacheIsTrue`), and that calls run one at a time (`Serial`). The
refinement follows from the same invariant: each action maps to `Call`, `Take`, `Resolve`, `Answer`,
`Reject` or `Crash` of the abstract journal, or leaves its variables alone.

*The channel.* `Line` says that whatever travels or is held tells the truth for good: a message acknowledges only what its sender has passed,
answers only an offer its sender was handed, and carries what its number says (`Says`). Since what is passed stays passed (`Forward`), an old or repeated copy
stays true, which is why loss, repetition and reordering do no harm. `QueueFollows` (the queue is the end of what was sent, but for
offers taken back) makes a cumulative ack and a batch sound; its second half, that only candidates follow a candidate that waits,
holds without `Interleave` and is what `PassedReceived` needs. `Outstanding` ties the offer that waits for an answer to the
last one sent. `AckDue` has the steps of a release in the middle of `receive`, where `AckOwed` alone does not hold.

*The pair.* Whatever path leads through `#handleSignal`, an operation has one of a dozen outcomes (`Keeps`, `Opens`, `Answers`, `Hears`,
`Rolls`, ...), proved once and used by every invariant. `Begun` (types, and that a signal is of a generation its sender reached) gives
the the
impolite end's constancy. `strayed \/ Paired` is the invariant of the rest: as long as nothing has strayed, each end is offering,
reached, called or agreed (`Phase`); each signal says something of both ends that stays true (`Tells`); and an end that has heard the
other one, or has a session, knows something of it (`Across`). All of it is said of the set of operations that wait, not of their order or number,
so `Backlog` does not enter. That an operation runs on another connection than it was released on is exactly the step that would break it, and
that step strays. `SilentIsSettled` follows: at rest each end has heard the other, so
neither generation is older; an opener's far end has answered it; and two ends that answered cannot meet, since inside a
generation only the polite one gives its connection up.

*Assignments.* The log: `Basic` are the types, that whatever a device has waiting, read, written or in a call it signed itself, and that no call is in
progress on a log that has not loaded. `Fine` is said of each device that is not early: storage, memory, what `open()` has read and the write under way are each a
history with an outbox, and what memory shows, or is about to, is in storage, also while a failed write may or may not have been made. `Single` (one operation of an author on a
version) follows from the outbox of one, and gives `ShownIsKept`: what storage has and memory has not is by others. A device leaves `Fine` for good with its first early write, which is why nothing need be
known of an early device to keep the rest. The work: `WorkInv` relates the execution files, what a process holds and what a device
has signed. It shows that a file is made before its claim is signed, and a claim before the work. `OneWorks` then argues about the story of a path: no second claim
before the first execution's end. A projection is a recursive function, about which nothing can be shown by induction here; it is argued instead
with the function that a path tells (`IsTold`) and with the least place where something fails.

*The keeper.* Everything is said of a record as an operator (`Kept(d, ...)`: a journal, whose pending transition extends
the chain by one, that promises what was handed out, has answered what it caches, and counts every handoff), so that it can be said of a
record that a failed write made or did not make. `Counted` is an injection from the handoffs of the window into the
reservations, each made before its handoff. The refinement maps a prepared transition to a decision when it is durable.

*The gate.* A reservation that was not overtaken owns the lease and ends no later than it (`ReservedHolds`); whoever is reserved,
or overtaken, is dialling or has a dial that lingers with its receipt (`Dialling`); and a receipt that lingers belongs to no open socket (`OwnedIsClosed`). Backoffs and holds are powers of two in the code, of which the proof needs only that
they are numbers; how long they can get (the rest of `TypeOK`) is not proved, since `^` is opaque to the provers.

*The ladder.* `RestArmed` holds also while media is lost and a step is due; `OwnSilence` says that what is missing to the grace and the
dead window is no more than the connection was there for.

*Model-checked only.* Liveness everywhere (`Delivered`, `QueueDrains`, `EveryCallSettles`,
`Settles`, `Shared`, `NotStuck`, `ReaderComesBack`, `NeverGivesUp`), which is out of the proof system's reach,
as is `ENABLED`. Of the safety properties that the passing runs check, `ForeignLockUntouched` is the only one without a theorem: while starts do not overlap
it comes down to the comparison of hosts in `Stale`. Nothing is proved of a pair that has strayed beyond `TheImpoliteEndStays`, nor of the storage of an early
device: there the code itself keeps less (see the table of limits).
`RelayDials_three.cfg` with `RelayDials` (three pools and shorter waits: 980,216 states, about four minutes),
`SlotPair_queue.cfg` (two calls waiting) and `SlotPair_chase.cfg` (two rebuilds, one of which may answer the other; also `Settles`) with `MCSlotPair` are
checks beyond the listed runs; all three pass.
`Tidy` (nothing unreachable is left behind when nothing goes wrong, on a store with `remove`) is checked by
`JournalStorage_live.cfg` with `MCJournalStorage`, which passes.

## What is not modelled

*Channel and pair.* Signals without a number (profile 1) and the downgrade to it; media in the slots, their repair
and the handover from a retiring connection; `close()` of a pair and the timers that give a pair up.
The guard in front of the channel (`src/signal-guard.ts`) drops
events it has seen and old ones: the models allow more than it lets through, since every
retry is a new event.

*Watching a pair.* The report of a single dead slot, RTCP's word on the other direction, volunteers that carry a
pair, `close()`, `standDown` and `standUp` (`mesh.ts:738`), a growing rest (its length is free), a change of rung while `getStats` is under way.

*Lock and journal.* Parsing of foreign records in the journal; `shouldCompactJournal`, which is its caller's; the
in-process set of the state lock.

*Assignments.* Read-only observers, `close()`, limits on capacity, reviewed updates; a pid that comes back; the tools'
inputs. The file of the log is written as a whole: base and deltas are `JournalStorage`'s matter.

*Keeper.* Metadata of a checkpoint, the limits on cached answers and on checks, `endsAt`, self-destruct, and the admission
budget a host shares between rooms. What the agent does around the journal is the caller's choice in the
model: it fails the live room on any error, so that calls the code would not make after one are allowed and harmless.

*Relay.* Suspension, the 15-s cooldown of the recovery and the pauses between retries (all make a step later, not
different), the stall of a subscription and its end of history, queries and read-backs,
authentication, sockets shared between pools.

*Receipts and fresh epochs.* Two hazards of components that are not modelled yet: a flush of receipts awaits its publish while the room is
forgotten or the same message is noted again (`src/delivery-receipt-writer.ts:200`), and a fresh request waits for a publish that may
never settle (`src/fresh-epoch.ts:53`).

Whole components that are left out are listed, with the reason, in `PROJECT.json`.

## Plan

Proofs: the properties that the passing runs check as safety are proved. What is left to prove:

1. `SlotPair` after it has strayed: which of `Paired` survives a restart inside a generation when no late copy of an answered
   offer arrives.
2. `JournalStorage`: `Tidy` without mishaps.

Models, in order of what they would add:

1. `DeliveryReceipts` (`src/delivery-receipt-writer.ts`): flush, forget, switch and the generation of a room: what is remembered as
   acknowledged is what went out, a waiting mark has its timer, and every mark goes out or is dropped with a name.
2. Fresh epochs and the agent's side of a rekey (`src/fresh-epoch.ts`, `src/agent.ts`), composed with `LiveKeeper`.
3. Grants and ledger: a revoked grant does not come back, an operation is applied once.
4. The message outbox of the application; the MLS vault with its revocation outbox.
5. The mesh as a composition of pairs, with `PairWatch` for each end and `SlotPair` between.

Runs stay below five million states each. One run asks all the questions that fit its configuration, so a
module brings at most a safety and a liveness run with it; abstract specifications are stated where callers rely on
them (journal, assignments, keeper).
