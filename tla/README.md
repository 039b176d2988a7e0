# Mekugi: a verification project

Mekugi keeps stock coding agents (Codex, Claude) working: a server and terminal
companion that records their sessions, coordinates families of agents, observes
their commands and presents them.  This directory holds TLA+ models of the parts
of it that are concurrent and stateful, TLC configurations that check them on
small instances, and TLAPS proofs that hold for every instance.

The core is **thread control** (`src/modules/threadcontrol`): the durable tree in
which agents spawn, message, follow up, interrupt and wait for one another, and the
drivers that carry those intents to the native hosts.  Around it are modelled the
**retained history** that routers share in one directory, the **call cache** and its
leases, the **correlation** of instrumented commands, and the server's side of the
world: its **start-up**, its **registry of runtimes**, its **control connections** and
the **frames** of native views.

## Inventory

| Component | State it keeps | Operations | What is hard | What makes it correct | Module |
| --- | --- | --- | --- | --- | --- |
| Coordination tree (`threadcontrol/control`) | per root one tree: members (status, generation, executing turn, wait, recovery wait, local stop) and effects (intents and their dispatch state) | spawn, message, follow-up, interrupt, wait, compact, provider wait, human input, host events, claim, acknowledge, reconcile, pause | every handler may interleave with every other; answers and notifications are late, lost or contradictory; restart between any two steps | one final result per work generation; nothing given to the host twice; arrival order; a notification used once; waits that end | `ThreadControl` |
| Driver (`threadcontrol/codexbinding`) | a queue of observations, failures | drain, dispatch, reduce notifications, tick, reconcile, stop | one worker per runtime beside tool calls and auxiliary goroutines; a failed publication | no notification lost, drains make progress | `ThreadControl`, in part |
| Native host (`sessioncontrol`, Codex, Claude) | native threads and turns, retained input | start or steer a turn, interrupt, inject, compact, read history | a separate process; requests and answers may be lost | (environment) | `ThreadControl`, as seen |
| Request side of thread control (`executionobservation`, `requestexecution`) | none of its own | authenticate a turn, arm and claim local stops, report consumed input | evidence arrives one request later | stops claimed once | `ThreadControl`, in part |
| Session history store (`modules/sessionhistory`) | record files, ownership catalogues, leases, revision, pressure request | enrol, publish, adopt, admit, prune in batches | a transaction is serialized but not atomic to a failure; prune plans and cached views go stale | nothing dangles; what active sessions own stays; caches agree with the directory; requests for space are answered | `HistoryStore` |
| Record transactions (`recordtransactions`) | none | publish evidence, ownership and index; adopt visible history | dependency order across owners | the index can be repaired | `HistoryStore` |
| Call cache (`sessionhistory`, `executionobservation`) | request pins, thread leases, remembered calls | begin, acquire, bind, finish, remember, drain, close | leases are acquired and disposed of outside the lock; late terminals | no lease leaks or is released twice; a hand-over outlives what preceded it | `CallRequests` |
| Command segments (`modules/commandsegments`) | announced items, live reports, windows | correlate, withdraw, observe, subscribe | reports and items arrive in either order and twice | evidence is of the only item it can be of | `CommandReports` |
| Native views (`sessionapi/native_*`) | last frame sent, retained consequences, two queues | encode, coalesce, output, acknowledge, replace, exit | frames refer to frames that may be folded away; full queues | what is shown was published, nothing is lost silently | `NativeFeed` |
| Control connections (`rpc_server`, `rpc_client`) | subscriptions on both sides, pending requests, delivery credit | subscribe, cancel, close, page, publish, acknowledge | reader, request goroutines, callbacks and writer share one connection | streams whole; nothing kept that nobody holds; credit returns | `ControlConnection` |
| Runtime registry (`hub.go`) | running sessions, thread reservations, registrations | admit, reserve, register, cancel, join, close | a runtime changes threads while others resume theirs; runtimes end under one another | one owner per thread; children joined first | `RuntimeHub` |
| Control server start-up (`control_start`, `control_socket`) | startup and lifetime locks, socket file | probe, start, bind, reclaim, stop | two starters; dead servers leave sockets | one server is started, a live socket is kept | `ControlStart` |
| Change history (`modules/changehistory`) | captured changes and their index | capture, revert, reapply | file writes that fail halfway | a move never loses its file | not modelled |
| Session control (`sessioncontrol`) | request ledger, approvals, audiences | send, settle, cancel | host answers against disconnects | each request settles once | not modelled |
| Connector (`connector`) | token, connection count, generation | relay, rotate, close | rotation against open relays | count returns to zero | not modelled |
| Launch, terminal, presentation, review, web UI, frontends; activity, conversation, live preview, output modules, metrics, diagnostics, approvals, naming, preferences, guidance, libraries, backends, providers | display state, projections, records, counters | parsing, layout, encoding, small policies | mostly sequential | — | not modelled |

`PROJECT.json` lists all of them with their sources and, under `hazards`, what can
go wrong at which line.

### How the modelled components interact

An agent's tool call runs a handler of the control package.  `Service.update` runs
the handler on a copy of the tree and publishes the copy whole or not at all, so
handlers are atomic steps.  A call that prepares an intent then drains the queue of
its target: `ClaimEffect` decides, in the tree, whether this intent may go out now,
and a claim is followed by one native request.  The host's answer comes back as
`EffectAcknowledged`; the turns it starts and ends come back as notifications, in
order per thread but with any delay relative to the answers.  `reduceHost` reduces
them one at a time and pumps the queues they release.  When an answer is lost the
intent is `uncertain`, and only the host's own history (`Reconcile`) may confirm it.

Around the tree: a router's requests pin remembered calls and lease their thread's
storage through the call cache (`CallRequests`), and publish records and adopt visible
history through transactions of the store (`HistoryStore`).  Threads run in runtimes
that the server's hub owns (`RuntimeHub`); clients find or start that server
(`ControlStart`), open a connection to it (`ControlConnection`) and attach native views,
whose frames travel through the view's queue and the subscription's (`NativeFeed`).
These parts share no state that a property of one depends on: the store sees leases as
held or not, the hub sees threads as owned or not.  So they are separate modules, and
two runs start one of several parts each (`MCParts`, `MCLive`).

## Modules

| Module | Models | Shape |
| --- | --- | --- |
| `ControlTree` | `control/types.go`, `finish`, `cancelSubscription`, `settleRecovery`, `pause` | the tree's data and the edits several handlers share |
| `ControlHandlers` | `control/lifecycle.go` (`transitionHost`), `control/waits.go` | one operator per case or function, from tree to tree |
| `ControlIntents` | `control/actions.go`, `admission.go`, `HumanInput`, `HumanInputCommitted`, `InputConsumed` | preparing, claiming and settling an intent, one operator per stage |
| `ThreadControl` | the system: agents, human, drivers, host | variables, one action per entry point, fairness, properties |
| `HistoryStore` | `store.go`, `catalog.go`, `admission.go`, `leases.go`, `retention.go`, `retention_scan.go`, the publication of records | transactions as records of what each effect leaves, a plan in stages |
| `CallRequests` | `call_requests.go`, `calls.go`, request preparation | state machine, one action per operation |
| `CommandReports` | `observation.go`, `subscription.go`, the helper server's stream | state machine |
| `NativeFeed` | `native_feed`, `native_queue`, `native_transport`, `native_prefix`, and the client's decoding and effects | state machine of server, two queues and client |
| `PublishedFrames` | (abstract) what a view promises | specification `NativeFeed` implements |
| `ControlStart` | `control_start.go`, `control_socket.go`, the start of a server | processes with locks and a socket file |
| `RuntimeHub` | `hub.go`, `native_start.go`, `prepared.go` | state machine |
| `ControlConnection` | `rpc_client.go`, `rpc_server.go`, `broadcast` | client, server and two channels |
| `MCThreadControl`, `MCHistoryStore` | instances for TLC | constants, symmetry and a view |
| `MCParts`, `MCLive` | several parts, of which one runs | composition for one TLC run |
| `ControlWork_proofs`, `ControlKeeps_proofs`, `ThreadControl_proofs` | | proofs about the core: the shared edits and handlers for work and results; what handlers leave of intents and waits; the system |
| `HistoryStore_proofs`, `CallRequests_proofs`, `CommandReports_proofs`, `NativeFeed_proofs` | | proofs about the module of that name |
| `ControlServer_proofs` | | proofs about `ControlStart`, `RuntimeHub` and `ControlConnection` |

`ControlTree` to `ControlIntents` are operators and not state machines because that
is what the code is: pure edits of a private copy.  An operator returns its argument
where the handler returns an error or `unchanged`, since both publish nothing.
`ControlTree.AddEffect` builds its sequence as a function where `Append` would read
better: the TLC of this project mishandles an `Append` under two nested `EXCEPT`s.

### Correspondence

| Variable | Code |
| --- | --- |
| `tree.members[t]` | `Tree.Members`; a thread not spawned yet is `Absent` |
| `tree.effects` | `Tree.Effects`, in arrival order; an intent is named by its place instead of its `<caller, call>` strings |
| `host[t]` | the native thread: the last turn begun, whether it runs, how many of its notifications the worker has reduced |
| `requests` | dispatched intents: sent, or answered and not yet acknowledged |
| `handed` | history: what the host has taken, which is what its rollout retains and `Confirm` reads |

Actions carry the names of the entry points: `PrepareAction`, `ClaimEffect`,
`EffectAcknowledged`, `WaitAgent`, `ClaimLocalStop`, `HostCompleted`, `Reconcile`,
`Pause` and so on.  `map` in `PROJECT.json` gives the lines of every definition.

| Variable | Code |
| --- | --- |
| `disk`, `cache`, `client`, `plan` (`HistoryStore`) | the directory; each process's revision-stamped sizes and catalogue; its session, leases and adopted records; the prune plan between its reading and its commits |
| `request`, `lease`, `handle` (`CallRequests`) | call requests; `CallCache.leases`; process leases held at all |
| `started`, `reports`, `hello`, `window` (`CommandReports`) | announced items and their serials, the report of an item, helper streams, observation windows |
| `sent`, `ledger`, `outbox`, `inbox`, `screen` (`NativeFeed`) | the view, its consequences, its queue, the subscription's queue, the client |
| `runtime`, `sessions`, `hub` (`RuntimeHub`) | `managedSession`s and whether they are in `Hub.running`; `Hub.sessions`; context and `Close` |
| `observer`, `asked`, `unsent`, `forgone` (history) / `request`, `view`, `replies`, `waiting`, `credit` (`ControlConnection`) | the client's subscriptions and calls, those not yet sent, those given up / the server's requests, subscriptions, `responses`, `page` and `delivery` |
| `caller`, `server`, `startup`, `lifetime`, `socket` (`ControlStart`) | clients in `EnsureControl`, server processes, the two file locks, the socket file |

### What the abstractions leave out, and why

Thread control:

- Message texts, settings, names, answers, metrics and counters: no guard of these
  handlers reads them.  `Terminals` and `Terminal` of a wait are the text of its outcome.
- The enclosing execution item of a wait: each wait has its own, so "same item" is
  "same wait", and a call repeated with its old identity publishes nothing.  Yields
  with a resume handle change only that handle.
- The order in which a driver visits intents.  `PendingEffects` says that claims are
  authoritative and its identities grant no permission, so any pending or queued
  intent may be claimed at any time.  This adds behaviours and removes none.
- Claiming and sending are one step, because they are one call; a stop between them is
  a `Pause` before `HostTakes`.
- `InputConsumed` reads the tree before its update; the update rechecks every effect,
  so the two are one step.
- Publication never fails.  Failing ones are listed as hazards and planned.
- Root selection, rewind, foreign waits, imports and capacity back-off.  A restart that
  restores the checkpoint pauses the whole tree, which is `Pause(Root)`.
- `Driver.HumanInput` reconciles the target's uncertain intents, from one reading of the
  tree, before it takes the input in (`reconcile.go:42-50`).  An intent that becomes
  uncertain after that reading holds nothing back, so `InputFromHuman` is not guarded by
  what is uncertain.  For the input of a human who writes while an intent has long been
  uncertain this adds behaviours, and removes none.
- `Reconcile` of a compaction: the Codex host always refuses it, the Claude runtime
  confirms a consumed one, so the model allows it.
- A host turn may end with any outcome in `Outcomes` when its notification is reduced;
  `checkpoint` is the manual compaction that ends a turn at its committed stop
  (`app_server_shell.go`), other auxiliary turns never reach the driver.

`HistoryStore`: sizes are counted in records, a catalogue takes one unit and one per
name; all kinds share one budget.  Least-recently-used order is "old" or not, two weeks
passing at any moment for what nobody uses.  A process's active thread is its own
session.  Scopes of forks, capture sequences and contents are absent.  The order in which
a plan retires records is absent; that there is one is not (`Ordered`): the code refuses
to plan where records refer to each other in a circle.  A transaction is one step that may fail after any of its effects; nothing else may hold the lock
meanwhile.

A publication of a record equal to the stored one is `Republish`: it returns before it
retains (`host_records.go:168`), so its session holds the record only where its catalogue
lists it already.

`CallRequests`: an older request that ends idle leaves its lease to the newest one.  A
batch names a call once, as the last mention of a call in it is what the code keeps.

`CommandReports`: items are of one thread and turn, as others never match.  A window
is closed or times out at any moment.

`NativeFeed`: two owners stand for the feeds (sent as deltas) and for values sent whole.
Sizes in bytes are absent; a refusal by size ends the view as `Disconnect` does.  Output
is a set with a mark that some was dropped, not its text.  Attachment, answers and
reattachment are absent.

`ControlStart`: an incompatible server or one that never gets ready makes the call fail,
which `GiveUp` does at any moment.  A lock is dropped by the system with its process.

`RuntimeHub`: the run's own work is absent; it may open, publish or give up threads,
return, or be canceled whenever the code allows it.  Listing and lookup change nothing.

`ControlConnection`: one subscription kind (shared publications, which need credit); list
values and native queues need none and are not sent here.  Messages stand for calls and
notifications; replies nobody waits for (to receipts and cancellations) are left out.
Receipts and cancellations are calls that the client makes once, for at most a second,
and whose failure it ignores (`rpc_client.go:339-343`, `380-387`, `279-285`): the writer
may be held for longer than that (`258`), and beyond 32 pending calls it refuses at once
(`230-233`).  So each of them is sent or given up (`Forgo`), and `forgone` remembers which.
The connection is not lost and not drained, and limits on sizes and subscriptions are
represented by a refusal at any moment.

## Runs

Threads of the core are 1 (the root), 2 and 3: a pair, a chain 1-2-3, or two siblings.
`Calls` and `Faults` select what a run exercises, so that the interesting interleavings
are reached within small bounds.

| Run | Shows | Bounds |
| --- | --- | --- |
| `Delivery` | `ArrivalOrder`, `WaitAllComplete`, `NotificationOnce` | two siblings; a message beside the two results, lost answers, waits for one or for all, consumption; 1 turn each, 1 root wait |
| `Admission` | `OneFinalPerGeneration`, `HandedOnce`, `CompletionGuard`, `WaitAllComplete` | chain whose last thread is unspawned; spawn, follow-up, interrupt, wait for all; refusals, lost answers, pauses; 1 turn each |
| `Recovery` | `TypeOK`, `RecoveryQueued`, `StopRetained`, `WaitingHasWake`, `CheckpointAlone` | pair; compaction, stops, usage limits, human input, recoverable failures and checkpoints; waits with armed and elapsed timers; 2 root turns |
| `Progress` | `WaitEnds`, `FinalArrives` under `FairSpec` | pair; 3 root turns |
| `Store` | `ActiveKept`, `CacheCoherent`, `NoDangling`, `IndexRepairable` | two processes, two sessions, a call and the snapshot it refers to; 3 writes, 1 reading, 1 failure or crash; `Batch = 2` |
| `Parts` | `CaughtUp`, `OutputAccounted`, `EffectsApplied`, `ShowsPublished`; `LeaseAccounted`, `HandoffKept`, `FactsKept`; `SoleEvidence`; `ThreadOwnedOnce`, `JoinedLast` | each alone: 3 frames over queues of 2, or 2 frames with 2 consequences; 3 requests of two threads, 3 calls of two sizes; 2 items, 2 helpers, 2 windows; 3 runtimes, 2 threads |
| `Live` | `PressureServed`, `FeedDelivered`, `ServerReached`, `CreditReturns`; `SocketKept`, `StartedOnce`, `StreamsWhole`, `ReleasedAtRest` | each alone, under fairness: a full store of 2 units; 2 frames; 2 clients, 3 servers, 2 deaths; a subscription and a page with 2 versions |
| `FollowupStranded`, `DispatchStuck`, `ClaimsOrphaned`, `CompactionDropped` | violations, see below | pair |
| `PartialRetirement` | violation of `ActiveKept` | as `Store` with `Batch = 1`, 4 writes, no failure |

Why the bounds are enough for the cases to happen.  Two turns of a thread are what late
answers and notifications need in order to meet a successor turn.  `MaxRequests` counts
what is asked for, the creations of the spawned threads included; results and completions
come on top.  In `Delivery` it leaves one message: from the root to a child that settles,
or from a child to the root, ahead of its result or between the results of both.  Its
answer may be lost, and then it holds back the results behind it until the host confirms
it; a wait claims it, or the agent's next request reports it as read, and `wait_all`
returns with it or with both results.  Longer queues, timers beside messages and later
turns are the theorems' to cover (`InputInOrder`, `NotificationsUsedOnce`,
`WaitsAllComplete`).  In `Admission` the one request beside the spawned thread's
may open a second generation, which settles within the run.
The chain is the smallest tree in which an agent both owes and awaits a result.
In the store, two processes and one dependency suffice for a plan made by one to meet
what the other adopts.  With `Batch = 2` a candidate's files go in one batch and the
properties hold; with `Batch = 1` a candidate spans batches and `PartialRetirement`
shows what then happens, so `Store` says nothing about larger candidates; the theorems
`ActiveStays`, `NothingDangles` and `IndexStaysRepairable` do.  A queue of
two and three frames make both queues fold, of which the second folds what is folded.
Three requests are an old one, its successor and one of another thread; three calls are
one more than a session keeps, and one of them fills a session alone.
  Three runtimes
and two threads are what a grandchild needs, since only a runtime with a thread can
have a child.  Three servers let one die and two compete.

In `MCParts` and `MCLive` the variable `part` chooses what runs; the rest keeps an
initial state.  `FeedOnly` and `EffectsOnly` explore frames and consequences apart, and
symmetric helpers, windows and runtimes begin in a fixed order.

`MaxTurns`, `MaxWaits`, `MaxRequests`, `MaxWrites`, `MaxReads`, `MaxFailures`,
`MaxFrames`, `MaxEffects`, `MaxVersions` and `MaxDeaths` are the only bounds that the
code does not have.  `MCHistoryStore` identifies renamed processes and sessions, and
what is stamped with a past revision with other such (`Reduced`).

Deadlock is checked in `Store` and `PartialRetirement`, and not in the others: a tree
whose agents ask for nothing more, a canceled view, a closed hub or a connection with
nothing to say has no next step, and this is how they end.

Every property has a mutant in `PROJECT.json`: the definition in the models that a
plausible bug would replace, written before the right one as its mutated form.  TLC
finds each property violated when its mutant is substituted.

### Fairness

`FairSpec` of the core lets drivers claim, wake, send and acknowledge; lets the host take
or refuse what it was sent, end its turns and report them; and obliges agents and the
human to nothing.  The code justifies it: each runtime's worker drains its queue and
pumps the target and every ancestor after each terminal notification; the terminal's
ticker enqueues due waits; tool calls drain their target; a turn's end is always
reported.  A run may exhaust its bound on native turns, after which nothing can be
started: `WaitEnds` and `FinalArrives` except exactly that state (`OutOfTurns`).

In `MCLive`, the store's worker ticks every second (`storage_retention.go`) and a reader
adopts what it has read; a view's writer and its reader go on; clients and servers of
the start-up go on, and may die; on a connection, readers, writer, requests and consumers
go on, and receipts and cancellations are sent or given up.  Consumers read or close what they have subscribed to, which every
caller of `Subscribe` does.  Only weak fairness is used.

### Refinement

`NativeFeed` implements `PublishedFrames`: `Published` substitutes the frames published
so far for `frames` and the client's frame for `shown`, and the property
`ShowsPublished` is the abstract specification.  The abstract view only says that shown
frames were published, whole, later than the one before, and that at most one
replacement of the thread is skipped over; the detailed one sends references to earlier
frames and folds them twice.  TLC checks it on the instance and TLAPS proves it
(`FeedKeepsPromise`).

### The exceptions in `ReleasedAtRest` and `CreditReturns`

`CONTRACT.md:47-49` has "Admission remains cancelable until that acknowledgement has been
delivered.  A failed or timed-out observer releases its subscription explicitly; late
acknowledgements cannot reactivate a retired subscription."  Stated without exceptions,
that a connection at rest keeps nothing its client does not hold, it is not so, and TLC
finds two ways:

- *Early.*  A client that gives up sends a cancellation of its request and one of its
  subscription.  When both reach the server after the request was accepted but before its
  goroutine has reserved the subscription, the second finds nothing to remove
  (`rpc_server.go:346`).  If the first is late as well (two goroutines send them, each
  within a second), it may come after the request has ended: the subscription is then
  reserved, installed, acknowledged and activated, and the server keeps it until the
  connection ends.  `view[s].early` marks those.
- *Dropped.*  The release itself is given up (`Forgo`), and nothing repeats it.
  `Unreleased` marks those.

`ReleasedAtRest` claims nothing of either, and everything of the rest: whatever else the
order of requests, acknowledgements, cancellations and ends, nothing is kept that nobody
holds, and nothing held is lost.  The first exception is not about lost messages: it needs
nothing to fail.

`CONTRACT.md:130-133` has a delivery "acknowledged after application or intentional stale
discard; only the current ID releases the next delivery".  `ackDelivery` makes one call
and ignores its failure, so a receipt that is given up leaves the connection without data
until it ends.  `CreditReturns` states what remains: the credit comes back, also for what
the client dropped, abandoned or closed, unless its receipt is the one given up; nothing
else loses it.

### Disagreements found

Beside the two above, each is a run that TLC must find violated, with a `findings` entry
that quotes the text.

- **`FollowupStranded`**: a follow-up prepared for working work whose generation settles
  before it is dispatched can never be claimed.  `claimEffect` returns an error and
  leaves it pending, ahead of every later intent for that agent.
- **`DispatchStuck`**: the answer to an input that names a turn other than the executing
  one is an error that publishes nothing.  The intent stays `dispatching`, which neither
  reconciliation nor another answer will change.  It takes one follow-up and one turn
  that ended unnoticed.
- **`ClaimsOrphaned`**: a queued wake, paused, then superseded by the human, keeps its
  claimed notifications, because claims are released only for the state `queued`.
- **`CompactionDropped`**: a usage limit replaces the wait that holds a compaction of
  unknown outcome, which the same code refuses to an agent's wait.
- **`PartialRetirement`**: a prune plan lowers its counts of owners batch by batch.  A
  candidate abandoned between batches, because its session is active again, leaves
  them lowered, and the next candidate's batch deletes records the active session owns
  (`retention.go:293`; `SPEC.md:40` promises that active leases prevent it).

## Proofs

TLAPS checks, for every value of the constants:

| Theorem | Module | Says |
| --- | --- | --- |
| `TypeCorrect` | `ThreadControl_proofs` | `Spec => []TypeOK` |
| `ResultsReportSettledWork` | | `Spec => []WorkConsistent(tree)` |
| `OneFinal` | | `OneFinalPerGeneration`: one result per work generation |
| `InputInOrder` | | `ArrivalOrder`: input reaches an agent in the order it was prepared |
| `CompactsAlone` | | `CheckpointAlone`: a checkpoint goes out beside interrupts only |
| `RecoveryBehindWake` | | `RecoveryQueued`: a continuation queues behind a wake the host may own |
| `NeverHandedTwice` | | `HandedOnce`: no step of an intent is sent again once the host took it |
| `NotificationsUsedOnce` | | `NotificationOnce`: a notification is consumed or wakes, once |
| `CompletionsGuarded` | | `CompletionGuard`: work completes above completed work only |
| `WaitsAllComplete` | | `WaitAllComplete`: a `wait_all` that returns in time leaves no result on its way or unclaimed |
| `StopsRetained` | | `StopRetained`: a turn with its own committed wait has the stop `ClaimLocalStop` dereferences |
| `RequestTypes`, `LeasesAccounted`, `RequestsLeased`, `HandoffsKept` | `CallRequests_proofs` | types, `LeaseAccounted`, `RequestLeased`, `HandoffKept` |
| `EvidenceSole`, `WithdrawsOwn` | `CommandReports_proofs` | `SoleEvidence`; a helper withdraws its own report only |
| `FeedAgrees` | `NativeFeed_proofs` | the inductive invariant `FeedInv` |
| `ClientCatchesUp`, `NoOutputLost`, `ConsequencesReach` | | `CaughtUp`, `OutputAccounted`, `EffectsApplied` |
| `FeedKeepsPromise` | | `NativeSpec => ShowsPublished`, the refinement |
| `CachesCoherent` | `HistoryStore_proofs` | `CacheCoherent`: caches agree with the directory, also after failures |
| `ActiveStays`, `NothingDangles` | | `ActiveKept`, `NoDangling`, for every `Batch`, as long as no plan abandons a candidate it has begun to retire |
| `ActiveStaysInOneBatch`, `NothingDanglesInOneBatch` | | the same for every behaviour, when all records fit one batch |
| `IndexStaysRepairable` | | `IndexRepairable`, for every `Batch` and also when a candidate is abandoned, where no record refers to one the index names (`Unreferenced`) |
| `SocketsKept`, `ServersStartedOnce` | `ControlServer_proofs` | `SocketKept`, `StartedOnce` |
| `ThreadsOwnedOnce`, `ChildrenJoined` | | `ThreadOwnedOnce`, `JoinedLast` |
| `SubscriptionsReleased` | | `ReleasedAtRest`: at rest a connection keeps what its client holds, and besides only what it was never told to release, or told too early |
| `StreamsStayWhole` | | `StreamsWhole`: acknowledgement, consecutive versions, end |

The assumptions are those of the modules, which TLC evaluates in the runs: `TaskTree`
(parents and the threads below form a tree rooted at `Root`) and `Environment` for the
core, `Storage`, `CallCapacities`, `Commands`, `Feed`, `Processes`, `Registry` and
`ConnectionBounds` (every call of a connection has an identity of its own).

**Thread control: work and results.**  `OneFinalPerGeneration` is not inductive.
`finish` appends a result for the current
generation, so a second one must be excluded by what the tree says *before* the step:
a final result of the current generation implies that nothing is reserved any more
(`ReportsSettledWork`), and every caller of `finish` runs only when work is reserved.
Host completion does not test that; it tests that the turn executes.  So the invariant
also says that what executes is reserved, and neither newly assigned nor paused
(`Executing`).  Together with uniqueness these are `WorkConsistent`, and

    IInv == TypeOK /\ WorkConsistent(tree)

is inductive.  `ControlWork_proofs` shows that each shared edit keeps a well-typed,
consistent tree so, under the condition its callers meet (`finish`: the thread is
reserved; most edits: a member's work "may become" the new one), and lifts this to every
handler, one lemma per operator.

**Thread control: order, single delivery, single use.**  The other properties are about
what a handler does to intents it is *not* about.  `ControlKeeps_proofs` therefore
describes an ordinary handler as an edit (`Edits`): it sends nothing, makes nothing
unsent that was out, leaves creations to their own answers, and leaves notifications with
the wait that claimed them unless that wait is a queued wake it cancels.  Edits compose,
so a handler that cancels a wait, finishes a thread and pauses its descendants is one
because its parts are.  Claims, settlements, pauses, and the registration, waking and
consumption of notifications are edits but for the intent or the notifications they are
about, and these are treated one by one.  From this follows (`Keeps`) that every handler
leaves a `Sound` tree sound:

- `InOrder`: behind an input the host may own, none prepared earlier is pending or out.
  `ArrivalOrder` speaks of what is dispatching; the inductive form needs the whole order,
  since an answer or a reconciliation may settle either of the two.
- `Alone`: beside a checkpoint the host may own, only interrupts are out.
- `WaitsInOrder`: a continuation is younger than the wake it queues behind, which is
  dispatched, and every wait's ordinal has been given out (`calls`).
- `Noted`: a notification is not both consumed and claimed.
- `Phased`: only creations have phases, and no final result is taken back (`Candid`).

and keeps what is spent: `Spent(tree, r, step)` says that this step of the intent went
out or never will again.  A creation passes through steps (`Passed`), an intent in a wait
is recognized by its ordinal, which no later wait has (`Unseen`).  `ThreadControl_proofs`
adds the two sides of the host:

    SInv == IInv /\ Kept(tree, requests, handed)

`Kept` says that what was handed over or is under way is spent, and that a creation has
one request, which stands for the step the creation is at; otherwise a late answer could
advance it past a step that has not been taken.  What a step newly sends was not spent
before it (`Sends`), hence never handed over: `HandedOnce`.

**Thread control: what a wait for all returns with.**  A child's status is published before
its result, so a wait must not trust the status.  `WaitAllComplete` is about the step that
decides a wait, and only two handlers take it.  Of the edits, `Rests` says that none
decides a wait: a wait that is awake after one was awake before it, with the same ordinal
(`NotesDecide`).  For `RegisterWait` and `PrepareWake`, `SelectedAnswers` says what an
outcome selects: a message, the first of them; or, with every target settled, each result
they owe.  For that no owed result may be on its way (`Settled`), and one that no longer is
must be delivered, failed, or held (`Candid`, a part of `Sound`: no handler takes a final
result back), must not be a creation in disguise (`Phased`), and the wait's ordinal must
not be 0, which marks what is unclaimed (`WaitsInOrder`).  A wait for a checkpoint alone
has no targets and is owed nothing.

A result held with a paused runtime is exempt.  The child may have ended and its result be
pending when its runtime is paused; then "A stopped target still settles a wait when its
notification ... cannot arrive because its runtime was paused" (`waits.go:147-149`,
`SPEC.md:376`).  `Admission` reaches that in seventeen steps, and `Delivery`, which
pauses nothing, shows the property where no result is held.

**Thread control: the stop that is owed.**  `StopRetained` speaks of a turn that executes
while its own wait is committed; whether a handler can break it depends on *late* reports.  The host
may report the end of an old turn, or the start of the present one, at any time after a
newer wait was registered, and each of these clears the stop or makes the member execute
again.  So the inductive form follows the reports: with `k` of the thread's notifications
reduced (two for each turn),

    Retains(m, k) == Dated(m, k) /\ Backed(m)
    StopInv == \A t : Retains(MemberOf(t), host[t].reduced)

`Dated`: a registered wait, and the continuation behind it, belongs to a turn whose end
has been reduced or to the one that executes, and to a generation that was reserved.  A
turn that starts is therefore never the turn of an old wait, and a turn whose end is
reduced leaves its waits dated.  `Backed`: a committed registered wait of the present
generation has its stop, when its turn executes or when none does and the work is still
reserved; the second case is what a start, or the installation of a continuation
(`settleRecovery`), falls back on.  Most handlers keep `Retains` whatever has been
reported (`Calm`); most of these because their registered waits were registered before
and the rest of the member changed in the harmless direction only (`Eases`).  Started,
completed and checkpointed turns are the exceptions, and each has a lemma with the number
of reports before and after it.

**Command segments.**  `ReportInv`: an item waits once and has no report while it waits
(`WaitsOnce`); a live claim is the item's report unless presentation let go of the item
(`ClaimsHeld`); serials separate what started before a window from what it saw
(`WindowsSee`).  `SoleEvidence` then holds because a window that has a match has seen
one item only, or calls it ambiguous.

**Native views.**  The invariant follows an event through the two queues.  `Chained` says
that each event of a queue decodes the frame before it to the published frame of its
number; `QueuesChained` chains the client's queue to its screen and the session's queue
to that.  The key lemma is `CoalesceDecodes`: folding two chained events gives one that
decodes to what the second gave after the first, for full snapshots, patches and deltas
that refer to entries the first one brought.  `LinkFold` adds that an event passes over
at most one replacement of the thread, as `nativeQueue` never folds a second.
`OutputsKept` and `ConsequencesRun` say where an output and a consequence are; output a
queue had to drop is stood for by a mark (`StandsFor`), and the consequences of an event
are a run that begins no later than the first one not applied.

The proof corrected the model's statement of `CaughtUp`.  It said that the
subscription's queue and then the session's decode, whatever became of the view.  After
a refused admission that is false on histories longer than the run's bounds: the
subscription has ended, and what the session still has queued refers to frames the
client will never get.  `CaughtUp` and `OutputAccounted` are now about what is on its way
(`OnItsWay`), which excludes what a closed subscription will not take.

**History store.**  `CacheCoherent` is about a process that sleeps while others write: it
must recognize by the revision alone that its sizes and catalogue are old.  `Coherent`
relates one process's caches to a directory and says besides that none is stamped with
a later revision; `Follows` says of two directories that the second is under a later
revision or differs in nothing a cache is about.  `Working` carries both through a
transaction, for what it has done so far and for every state in which a failing effect
would leave the files, so that the same lemma (`SettleKept`) covers commit and failure.
Each effect has its lemma: `WriteWorks` needs that what is carried over of the views
does not depend on the file replaced (`Apart`), and a prune that nothing is cached
after the revision has advanced (`Late`).  No finiteness of records is used, and no
bound on batches.

`ActiveKept` and `NoDangling` are about a plan that is drawn up in one transaction, carried
out in others, and decides what to delete by counts it lowers as it goes.  `KeepInv` adds
to the caches' invariant three parts.  `Whole`: what is stored has what it refers to.
`Holding`: what a process holds is stored and listed by its session's catalogue, and what
it has read is stored.  `Drafted`: a plan whose revision is still the directory's sees the
directory as it is, its counts are those of the catalogues through dependencies
(`Counted`: every stored record has an owner, and what owns a record owns what that refers
to), and every session but the one being retired is still counted for what its catalogue
lists (`Guarded`).  A record goes only when its last owner is the one being retired, so
what refers to it goes before or with it, and no active session's catalogue lists it.
`Contents` names the states a transaction may leave when one of its effects fails, so that
commit and failure have one lemma (`Within`); `RestCovers`, that the rest of a candidate
covers what is left to refer, is where a circle of references must be excluded
(`Ordered`).  `Guarded` is lost by one step, which `Abandons` names: a plan drops a
candidate whose session has become active after a batch of it has been committed, and
keeps the lowered counts.  That is the step `PartialRetirement` needs, so the theorems have
its absence as hypothesis, and the corollaries show that it is absent where `Fits` holds:
the code's batch is 16 records (`retention.go:74`), so a store of no more than that
retires each candidate at once.  TLC checked `KeepInv` with `Batch` 1 and 2 and on a chain of three.

`IndexRepairable` is about what a failed batch leaves: the index still names records that
are gone, and the next cleanup can drop the names only while some catalogue lists them.
Its invariant needs neither `Holding` nor `Guarded`, so it has no hypothesis on what a plan
abandons.  `RepairInv` adds to the caches' invariant `Repairable`, that what the index
names, and what is stored of what it may name, was there before any catalogue or is listed
by one; and `Accounted`, that the owners a fresh plan counts for such a record are at least
one, and are sessions whose catalogues list it (`Tallied`).  A batch that removes a
candidate's catalogue removes the record and its name first, unless another owner is
counted, whose catalogue then still lists it (`OwnerLeft`).  That an owner lists the record
itself, and does not merely refer to it, is `Unreferenced` (`ClosureListed`): in the code
what the index names are calls, and calls refer to snapshots only
(`legacycall/read.go:120`), trees to imports, and instruction records to one another.
TLC checked `RepairInv` with `Batch = 1`, with and without a failure.

**Call cache.**  `LeaseAccounted` says that the held leases are exactly those kept for a
thread or on their way, and that no two threads keep one.  For the step that binds a
lease it must be known that the thread's kept lease, if any, is held, and that each
request at work has its thread leased (`WorkLeased`), or a request that finds its lease
redundant would dispose of the only one.  `HandoffKept` adds that the newest request is
the current one of its lease.  Together they are `CallInv`.

**Control start-up.**  `StartInv` ties what each process is at to the locks: a server
between binding and unlinking holds the lifetime lock and the socket is its own; a
client between its lock and its end holds the startup lock; and a client that starts a
server has, under that lock, found none, so that an earlier one has died, has been given
up, or is seen by the second probe.

**Registry of runtimes.**  `ThreadOwnedOnce` needs both directions between registrations
and the runtimes' own threads (`Registered`) and that what is opened is nobody else's
(`OpenedOnce`).  `JoinedLast` needs an argument on ancestry without induction: whoever
is above a member is so through a child of its own that is still a member (`Linked`).
As a runtime leaves only when all children it found have left, and none is admitted
under it once its context has ended (`Joining`), it is then above nobody.

**Connections: release.**  `ReleasedAtRest` speaks of empty channels only, so its
invariant has to say what a message on its way still stands for.  `ReleaseInv` does, per
subscription: its one call goes up before its release (`Begun`); a view exists only once
its request is past acceptance (`Staged`); what the client holds, or will hold once it
reads the acknowledgement, is present or its end is on its way (`Upheld`); what it has
released is on its way to be released, gone, given up, or came early (`Released`); a caller that
still waits has an answer coming once its request has answered (`Replied`); and what is
reported as ended stays gone (`EndsOnce`).  Emptying the channels leaves the property.

**Connections: streams.**  Three invariants add up to `StreamsWhole`.  `CreditInv` follows
a datum from the writer to whoever consumes it: with one delivery outstanding there is one
page or event in the channel, or one event in one subscription's buffer, or a receipt with
its number, and never two of these.  `OrderInv` is about the channel: before an event its
acknowledgement, where the client has not read it; after an end no event.  `ContentInv`
relates the ends of the stream: what is newest of what the client was sent, and the queue
that replaces what it was not sent, together reach the session's version (`Behind`), so
that a patch written next follows on.  `StreamsWhole` is stated of a channel's positions
and of any number of outstanding events; that there is one is `CreditInv`'s to show.

### What is model-checked only

- Liveness (`WaitEnds`, `FinalArrives`, `PressureServed`, `FeedDelivered`,
  `ServerReached`, `CreditReturns`) is under fairness and outside the prover's reach.
- `WaitingHasWake` is not claimed where wakes may be refused: a refused wake leaves its
  wait `failed` and the thread waiting on nothing (listed as a hazard).  The run that
  checks it refuses none, so it is not a consequence of the assumptions.
- `ActiveKept` and `NoDangling` of the store are theorems only of behaviours without the
  step `PartialRetirement` shows to break the first.
- `FactsKept` of the call cache needs how many calls `SelectSeq` leaves of a history.  The
  library's facts about it take the test as an operator: an induction over data.

## Not modelled

Most of the repository's lines parse, render, encode and lay out: command analysis,
terminal views, tokenizers, projections of activity and review, provider protocols.
They hold no state that actors contend for, and a model of them would restate them.
Of the stateful rest:

- peers, foreign waits, imports, root selection and rewind of thread control: a second
  tree and a relay, whose product with the first is beyond TLC's reach here;
- failed publications of the driver and the durable tree beside the one in memory;
- change history: its steps are decided by three-way merges of file contents;
- the request ledger of `sessioncontrol`, the connector's rotation, resumable children
  of the hub and the drain of connections: smaller state machines not reached yet.

## Plan

1. `ThreadDriver`: the observation worker with publications that can fail, and an
   abstract `IntentDelivery` that `ThreadControl` implements.
2. The request ledger of `sessioncontrol`; loss of connections in `ControlConnection`.
3. Command reports: one report for each item, as a property beside `SoleEvidence`.

## Running

    tlc -workers 2 -config MCDelivery.cfg MCThreadControl
    tlc -workers 2 -config MCStore.cfg MCHistoryStore
    tlc -workers 2 -config MCParts.cfg MCParts
    tlc -workers 2 -config MCLive.cfg MCLive
    tlapm ControlServer_proofs.tla
