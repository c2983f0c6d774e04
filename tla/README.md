# Fluxerly.js: a formal model of the SDK's runtime

The SDK (`projects/sdk` of the repository) connects bots to Fluxer: it sends REST requests,
keeps gateway sessions for its shards, delivers events to handlers and caches what it learned.
This directory models the parts that schedule, retry, order and bound that work, checks them
with TLC on small instances, and proves the most important facts with TLAPS.

Contents: [inventory](#inventory), [plan](#plan), [modules](#modules-and-the-code),
[runs](#runs), [bounds](#bounds), [fairness](#fairness), [proofs](#proofs),
[mutants](#mutants), [divergences](#two-divergences-found), [not modelled](#not-modelled).

All source paths below are relative to `projects/sdk/src/internal/`.

## Inventory

| Component | State it keeps | Operations | Interacts with | What makes it correct |
|---|---|---|---|---|
| REST admission, `rest/admission.ts` | queue, its bytes, two slot counters, client pause, probe, timers | acquire, interrupt, release, close, scaleConcurrency, pauseGlobal, pauseClient, responded, pump | RestExchange (callers), RateLimits, LogicalScheduler | queue and counters exact however pumps nest; no lost wakeup; one probe |
| Learned rate limits, `rate-limits.ts` | routes, buckets shared by alias, refill probes | wait, reserve, observe, pause, clear | admission, exchange | older observations never loosen newer ones; a bucket sends one refill probe; bounded memory without forgetting an active wait |
| REST exchange, `rest/owner.ts`, `rest/attempt.ts`, `rest/classify.ts` | operations in flight, upload bytes, closed | execute, attempt, retry, withDeadline, stop, shutdown | admission, transport | a mutation is never resent after its outcome became unknown; `notSent` means never sent; reserved bytes and slots come back; shutdown waits for every operation |
| Transfers, `rest/download.ts`, `transfer-source.ts` | one open source or response | read, relay, cancel | exchange | bounded bytes, source closed once |
| Event delivery, `events.ts` | per subscription: queue, its bytes, events per key, readiness of keys, running handlers; sealed | on, offer, evict, partitionReady, handle, seal, close, drain | gateway intake, caches, bot code | order per key, bounded queue, fair eviction, no key or event stranded, a drain ends with the work |
| Logical scheduler, `logical-scheduler.ts` | entries by deadline and sequence | schedule, cancel, run, close | everything that waits | due callbacks in order, cancelled ones never run |
| Gateway session, `gateway/session.ts`, `gateway/commands.ts`, `gateway/frames.ts` | socket, sequence, heartbeat, command budget | connect, identify, resume, heartbeat, send, close | shard loop, intake | a resumed session misses no dispatch; the send budget is kept; heartbeats keep their share |
| Shard loop, `client/shard-loop.ts`, `client/backoff.ts` | session id, resume state, attempt, readiness | connect, retry, stop | session, supervisor permits | one live session per shard; backoff; identify within the permits |
| Client owner, `client.ts`, `client/lifetime.ts`, `client/drain.ts`, `client/intake.ts` | plan, shards, lifetime | start, adopt plan, drain, stop | all of the above | ordered shutdown, bounded by the drain time |
| Supervisor, `supervisor.ts` | children, shard plans, identify permits, relayed pauses | spawn, restart, reshard, stop | child processes (messages) | no shard owned twice; permits global; relayed pause reaches every child |
| Member chunks, `member-chunks.ts`, `counts.ts`, `gateway-requests.ts` | outstanding requests by nonce | request, chunk, timeout, disconnect | session, events | each request completes once; chunks complete exactly |
| Caches, `cache.ts`, `guild-cache.ts`, `channel-cache.ts`, `user-cache.ts`, `cache-changes.ts`, `expiry-queue.ts` | entities by id, expiry | upsert, delete, expire, evict | intake | bounded; a stale dispatch does not resurrect a deleted entity |
| Scheduled tasks, `scheduled-tasks.ts` | waits, runs, what stop records | schedule, close, seal, stop | logical scheduler, drain | a due task runs; none ends unrecorded |
| Bot services, `collector.ts`, `reaction-collector.ts`, `bot-runner.ts`, `commands.ts`, `message-cleanup.ts`, `pagination.ts`, `instance.ts`, `oauth.ts` | one workflow each | start, step, cancel | client owner | end once, release what they hold |
| Failures, `failures.ts`, `rejection-scope.ts` | unhandled failure reports | report, adopt | all | each failure reported once |

Fibers of one process interleave only where they wait. The hard behaviours are therefore:
callbacks that run a waiting fiber synchronously (the pump), state used again after a wait,
interruption at each wait, timers racing answers, retries of requests whose outcome is unknown,
shutdown during all of this, and, between processes, messages to children that restart.

## Plan

The order follows what loses or repeats a bot's work first. **Done** is checked and, where named,
proved; what is left follows, in its order.

| Part | Modules | Questions | Theorems |
|---|---|---|---|
| **done** REST admission | `AdmissionGate` (abstract), `RestAdmission` | exact accounting under nested pumps, wakeups, one probe, implements the gate | `Typing`, `QueueIsExact`, `SlotsAreExact`, `OneProbe`, `BytesAreExact`, `WaitsAreServed`, `GateImplemented` |
| **done** REST exchange over the gate | `RestExchange` (composes `AdmissionGate`) | at most once, true outcomes, slots, uploads, shutdown, deadlines | `AppliedAtMostOnce`, `OutcomesAreTrue`, `SlotsAreOwned`, `BudgetIsExact`, `ShutdownIsComplete`, `StreamsAreReadOnce` |
| **done** learned limits | `RateLimits` | no loosened wait, one refill probe, bounded tables | `TablesStaySound`, `DenialsAreKept`, `NewestMappingsKept` |
| **done** one shard over process restarts | `GatewayShard` | order over Resume, caches, saved sessions, shutdown | `DispatchesInOrder`, `ResumesWhatWasKept`, `RestartsLoseNothing`, `CachesFollowTheSession` |
| **done** paced commands | `CommandPacer` | rolling budget, order, limits, settlement | `BudgetKept`, `CountersAreExact`, `SentInOrder`, `Typing` |
| **done** event delivery and drain | `EventDelivery`, `ScheduledTasks`, `ClientDrain` (composes both) | eviction plan, order per key, readiness, a drain ends with the work and not before | `EventsStartInOrder`, `EvictionIsFair`, `WorkIsExact`, `NothingIsStranded`, `DrainLeavesNothing` |
| **done** scheduler and tasks | `LogicalScheduler`, `TaskTimers` (composes it with `ScheduledTasks`) | due callbacks in order, no orphaned timer, none starved | `TimersFireInOrder`, `SleepsNoLonger`, `WaitsOwnTimers`, `TaskTimersFireInOrder` |
| **done** supervisor's permits | `IdentifyPermits` | spacing, crossing messages, no permit lost with a child | `SpacingKept`, `CrossingsAreUnderstood` |
| member slots | `MemberSlots` (`supervisor.ts`) | a slot granted to nobody comes back | |
| heartbeat | `GatewayHeartbeat` (`gateway/session.ts`) | silent peers found, live peers kept | |
| member requests | `MemberChunks` | a request completes once; chunks against deadline, detach and close | |
| caches | `ExpiryQueue`, `GuildCache` | expiry and eviction keep indices and bounds together | |
| transfers, collectors | one module each | a source is closed once; a collector ends once | |
| compositions | `RestExchange` with `RateLimits`; `GatewayShard` with `CommandPacer` | the waits and the budget seen by whole operations and whole shards | |

## Modules and the code

Every module names the source's functions and fields. PROJECT.json maps each definition to lines.

**`RestAdmission`** is `rest/admission.ts`. `acquire` is `AcquireClosed`, `AcquireBusy` and
`AcquireQueued`, its interruption `Cancel`, the release it hands out `Release`. `#pump` is a stack
of frames (`PumpSkipBlocked`, `PumpSkipEarly`, `PumpDeny`, `PumpAdmit`, `PumpReturns`, `PumpEnds`)
because `item.resume` runs the resumed fiber before it returns: while a frame is `calling`, that
fiber may acquire, release, close or pause, and so push a frame. Timers are `timer`, the current
one, and `stray`, those the code overwrote without clearing. The waits of `rate-limits.ts` are two
instants per route that responses move. The client pause grows as `pauseClient` computes it; the
jitter is a choice within its bound. `answered` and `tested` are history.

**`AdmissionGate`** says what callers may rely on: a request waits, enters one of a bounded number
of slots or is refused, and leaves; nothing enters after closure; while an unidentified limit is
tested, one request is the tester. `ImplementsGate` maps `stage`, `probe` and `probeAttempt` to it.

**`RestExchange`** is `#execute`, `#exchange` and `runAttempt`, with the classification of answers,
over the actions of `AdmissionGate`. Its gate is the one the admission implements, so what it shows
needs nothing more of admission than that. An operation's plan is a sequence of exchanges
(`prepare`, `upload`, `send`); each attempt goes `ready`, `waiting`, `admitted`, `sending`,
`reading`, `closing`, and the operation ends through `cleaning`, which is the `ensuring` that
returns its bytes. The network (`wire`, `Serve`, `Lose`) is external: a copy of a request may take
effect after the operation that sent it has ended. What an answer says of the request is the
environment's assumption `EffectsOf`: a 429 and the busy upload slots mean that nothing was applied,
which is what the SDK sends again on; a refusal may have applied a part first (`errors.ts` says "a
rejection does not prove rollback", and a channel reorder of several entries is such a request), and a
5xx leaves everything open. `OutcomeTrue` therefore claims of a rejection only that no copy of the
request is under way, so that its effect is final, and not that there was none.

**`RateLimits`** is `rate-limits.ts`. `Observe` applies the headers of a response, `Pause` the body
of its 429, in any order over the attempts; `Enter` is `reserve` and `begin`, which admission calls
without a wait in between. `bucket` and `alias` are the two maps; a bucket whose instant has passed
is the same as an absent one. Which entry a full map drops depends on insertion order, and is left
open among those the code may drop. `DenialKept` makes one exception besides time, closure and a
response that may decide: an alias that has been idle, and nobody asked for since, is dropped when
next looked at, unless a 429 closes its bucket first, and then the wait it shows is that bucket's.
`NewestMappingKept` does not speak of a route whose alias was dropped for idleness.

**`GatewayShard`** is `runShardLoop`, `runGatewaySession`, `performShutdown` and `#saveSessions`,
for one shard and up to `MaxRuns` processes, with Fluxer's gateway and the session store as its
environment. `wire` holds frames of the open socket in order; `store` is the saved snapshot and
`lateSave` a write the client gave up on that may still happen. `loop` and `attempt` are the locals
of the two functions. Time is left out: a deadline, a backoff, a healthy connection, a missed
heartbeat and the age of a snapshot are choices. Frames that follow a failure in the same read are
still processed, as `processMessage` does, and `onReady` may run after such a failure. While the
client drains, the event bus is sealed: `session.sequence` advances though no event is offered.
The sequence check refuses only a number smaller than the last, so a dispatch that comes again under
the last number is handed out again, and RESUMED may carry the number of its own or the last one:
`again` marks a frame the gateway numbered so, `Repeat` sends any number it has used, and
`OfferedInOrder` says that nothing else is ever handed out twice. `closedAs` remembers over all
processes how the last socket of a session was closed; only a gateway that resumes the session
opens it again. A failure, or a reset that `Close` overtakes before its interruption arrives, may
have closed a session for good that the shutdown then saves (`SavedAfter`): `ResumesKeptSession` and
`SavedIsSound` except those, and the divergence below is about them.

**`CommandPacer`** is `gateway/commands.ts`. `SendNow` and `Wait` are the two ends of `enqueue`,
`Refuse` is `submit` over its limit, `Cancel` withdraws, `Wake`, `Look` and `Slept` are the loop
`run`, with one dispatch per `Look` because a command's settled callback runs between two. `Close`
fails everything that waits at once: a callback that withdraws another command during closure ends
with the same counters. `Reconnect` gives the next socket a pacer and keeps the history of sends
exactly when it resumes the session. `replace`, which only swaps the data of a waiting presence, is
left out; so are heartbeats, Identify and Resume, which are not paced.

**`EventDelivery`** is one handler subscription of `events.ts`: `EventSource` and the worker that
`EventBus.on` forks. An arriving event is taken at once by a worker that waits for one, queued, or
meets a full queue (`OfferTaken`, `OfferQueued`, `OfferEvicting`, `OfferDropped`,
`OfferOverflows`); the last three are the policies `dropOldest`, `dropNewest` and `stop`. `Plan` is
`#plan`: the victims of an eviction are chosen over indices before any is removed, from the longest
backlog of another key or from the arrival's own. The worker is `loop`, from its fork through
`Begin`, `StartReadiness`, `Deliver` and `Wait`; what it does between two waits is one step, except
that between starting hooks and scanning the queue it may yield. `readiness`, `unstarted` and
`attempts` are the `partitionReady` hooks, whose answers (`HookSucceeds`, `HookFails`,
`HookIgnored`) may come for a key that was forgotten and tracked again, which the tokens tell
apart. `setup` is the subscription's kind, fixed by `Init`.

**`ScheduledTasks`** is `scheduled-tasks.ts` without its clock: a task waits, runs, waits again or
ends; `CloseTask`, `SealTasks` and `StopTasks` are the three ways it is cut short, and `recorded`
is the count `stop` reports. What ends a wait is left to the modules that extend it.

**`ClientDrain`** is `drainWork` of `client/drain.ts` and the shutdown around it in `client.ts`,
over `EventDelivery`, `ScheduledTasks` and the requests in flight. `DrainLooks` is one turn of the
loop: it reads the three sources of work in order and waits for the signal of the first that has
some; `DrainExpires` is the deadline; `Close` is the ordinary shutdown that follows a drain,
interrupts one or comes without one. The engine's forced yield of a fiber cannot fall between
reading a source's state and taking its signal, as both are plain calls.

**`LogicalScheduler`** is `logical-scheduler.ts`. The fiber captures the current wake (`Look`),
sleeps, throws its plan away when the wake was replaced (`LookAgain`), or fires a snapshot of the
due timers one callback at a time (`Snapshot`, `Fire`, `Skip`, `Fired`), between which callbacks
set and clear others. **`TaskTimers`** composes it with `ScheduledTasks`: a task's wait is one
`set`, an interrupted wait one `clear`, and a timer that fires makes its task due in the same step;
timers of another owner come and go beside them.

**`IdentifyPermits`** is both sides of the Identify permits in `supervisor.ts`: `SupervisorOwner`
with its queue, outstanding request and timers, and the `ChildBridge` of each child, joined by two
channels of messages in order. `Schedule` is `#scheduleGrant` and `#grant`; `BeginsShutdown` is
what `#fail` and `#beginShutdown` share; `Exits` is `#exit` with its restart. The coordinator is
external and answers late, out of order or for a request nobody waits for. A supervisor either has
one, and then no spacing of its own, or spaces the Identifys itself (`FromIdentify`: with a
coordinator the spacing is over at once, as the code takes 0 for it). A child asks for one
permit at a time: a client of more than one shard makes its shards' Identifys share one
semaphore. `process` is how far a child is: its bridge opens with a hello (`Greets`), the assignment
tells it its generation (`TakesAssignment`), its client runs (`Boots`), and a stop may come at each of
these points (`ToldToStop`, `MistakesShutdown`). Times are ages, how much of the spacing has passed,
and stop at the spacing. Left out are send errors, the reset of `restarts` after a healthy while,
resharding, and the other messages of the channel.

**`DataLemmas`** holds the facts the proofs share: about sequences, cardinalities, least numbers and
the sums of `SumFunction`.

## Runs

| Run | Question | Result |
|---|---|---|
| `admission_mixed` | API, signed storage, media and discovery requests share one queue, two pumps deep: are queue, slots and bytes exact, does each waiting request have a wakeup or a report, does it implement the gate? | holds |
| `admission_live` | with unidentified 429s, retries and closure: one probe at a time; every queued request leaves | holds |
| `exchange_server` | a write and a read, 429s, lost answers, a silent server, stop and shutdown: at most once, true outcomes, slots, everything ends | holds |
| `exchange_upload` | two uploads that do not fit together, one from a stream: bytes bounded and returned, the stream read once | holds |
| `rate_limits` | two routes share and change buckets in full tables while answers of old and new attempts arrive in any order: `TablesSound` (capacity, one refill probe, firm waits are earlier), no known wait loosened, newer mappings stand | holds |
| `shard_recovery` | one process, two sessions: order, caches and Resume over every failure | holds |
| `shard_restart` | three processes, a store that fails, is late or silent, and crashes: saved sessions unused and closed, no dispatch twice and no session revived by the next process (`RestartsAreSound`), attempts settle, shutdown ends | holds |
| `shard_save_after_failure` | is a session saved only when no permanent failure ended it? | violated, see below |
| `pacer` | commands of both kinds over two sockets: rolling budget, limits, order, settlement | holds |
| `drain` | four kinds of subscription, a repeating task and a request while the client drains and closes at any point: exact accounts (`WorkExact`), order per key, fair eviction, nothing stranded, the drain ends with the work and leaves nothing to start | holds |
| `task_timers` | two tasks and another owner set and clear timers while a snapshot fires, and the tasks are closed, sealed and stopped: order, ownership and record, due tasks run | holds |
| `permits` | two children start, ask, withdraw, freeze, lose their channel, crash, restart and are stopped, with and without a coordinator: without one Identifys are spaced; crossing messages of handshake, request and stop are understood, but for the case below; no request waits forever | holds |

A module's type invariant is a conjunct of one property of its run, named there: of `TablesSound`,
`RestartsAreSound`, `WorkExact`, `TimersOwned` and `Understood`; those of the admission, the exchange
and the pacer are proved instead. The other properties are stated over several steps or several
parts of the state; each has a comment above it in its module that says which behaviour of the code
it is about.

Deadlock is not checked: a client may be closed, a shard's worker may end, every command may be
settled and the clock stops at its bound, so each system really stops.

## Bounds

- Requests, operations and commands: two to four. Two requests of a class are enough to compete
  for a slot, a third waits behind them, and `admission_mixed` has one of each class. A pump nests
  two deep: the second pump's splices disturb the first one's index, and a third would only disturb
  the second in the same way.
- Attempts: two per exchange, the first of which may be limited, lost, refused or transient.
- `Horizon` bounds logical time; a deadline, a pause, a backoff and a retry are one or two ticks, so
  that each can fall before, at and after the others. `pacer` runs to nine so that a window can be
  filled, pass and be filled again for all its commands.
- `MaxSequence` of `RateLimits` is three attempts: the one whose answer is late, the newer one, and
  the one that probes. Two routes, one place for aliases and two for buckets let both routes share,
  part and meet while something has to be dropped; a response says one remaining or refuses, and
  none remain once it was spent.
- `GatewayShard` has two sessions, three dispatches each, two frames in flight and two failed
  attempts in `shard_recovery`, and one session over three processes in `shard_restart`: save,
  use and crash, and the process after. `Tried` divides what the gateway does to a connection between
  them: reconnects, invalid data and refused sessions in the first, invalidations and closures, the
  permanent one too, in the second. The gateway repeats a dispatch while fewer than `MaxOffered` of
  its session are handed out or under way. `MaxRuns`, `MaxFrames`, `MaxAttempts`, `MaxSequence` and `MaxOffered` appear in guards only.
- `drain` has two keys and the bucket of failed partitions, three events of one or two bytes in a
  queue of two, and two handlers at a time: a queue can be full by number or by bytes, an eviction
  can need two victims, and one key can be busy while another starts. One repeating task and one
  request are enough for each source to have work when the others have none.
- `task_timers` has a task that repeats, one that does not and one foreign timer; of its three
  timers two can be due at one instant while the third is set between their callbacks. Delays are
  negative, none and one tick.
- `permits` has two children, one restart each and two requests: one is outstanding while the other
  waits, is withdrawn, or comes from the child's next process. A spacing of one tick separates
  "since" from "not since"; every comparison in the code is with the spacing itself. It is the spacing
  of a supervisor without a coordinator; `Coordinated` has both kinds (432,623 states).
- `MaxDepth`, `Horizon`, `Asked`, `RouteWaits`, `MaxAttempts` and the bounds above are the only ones;
  each is declared under "bounds of the exploration" or "bound of the exploration" in its module,
  except the limits the code itself has.

## Fairness

- `RestAdmission`: a pump runs to its end (it is synchronous), timers fire, time passes however
  often the queue is pumped (strong fairness: a pump does not stop the clock), and every admitted
  request releases, because its owner bounds it by a deadline and releases in a finalizer.
- `RestExchange`: the deadline of an operation interrupts it, an aborted attempt breaks, fibers that
  can run do. Nothing is assumed of the server or the network.
- `GatewayShard`: the client's deadline and fibers run; an interruption is delivered at some point
  that can be interrupted (strong fairness: the loop enters and leaves such points). Nothing is
  assumed of the gateway, the store or the socket. Attempts end in uninterruptible regions, and
  `ShutdownEnds` shows that these are bounded by themselves.
- `CommandPacer`: the loop's fiber runs and its timer fires, and the clock does not run ahead of a
  step that is due, as a timer's callback does not outlast a whole window. `Settles` speaks of
  commands queued early enough for the clock's bound.
- `ClientDrain`: the worker, the drain and the closing of a source run when they can, and handlers,
  hooks, task runs and requests end, some one of them whenever one can. Nothing makes the drain's
  deadline pass, so `DrainEnds` is owed without it; a handler that never ends is what the deadline
  is for.
- `TaskTimers`: the scheduler's fiber runs when it can and time passes. Nothing is assumed of task
  runs or of the other owner.
- `IdentifyPermits`: one weak fairness over what the supervisor's process owes: time passes, its
  timers fire, its event loop reads what arrived, the coordinator answers, and a child that was
  asked to stop is killed in the end, which is what the stop timer does. Nothing is assumed of a
  child: it may freeze with the permit in hand. One condition over all of these is weaker than one
  for each, and enough because nothing else can go on forever within the bounds.

## Proofs

All are for every value of the constants the modules' assumptions allow (finite `Requests`,
`Commands`, `Tasks`, `Children` and `Counts`; positive budgets, windows, spacings and concurrency; total
attribute functions). Two assumptions name what the code guarantees and a proof needs: no request of
`RestAdmission` waits for an instant after `Horizon` (a wait is finite, and `Never` is none), and
`StreamsAssumption` of `RestExchange`: what is repeated like a read has no files (`encodeBody`), an
upload's parts come after its preparation, and files sent inline are not uploaded. No liveness is
proved.

**Admission** (`RestAdmissionProofs`). `IInv` is `TypeOK`, `QueueExact`, `SlotsExact`,
`SingleProbe` and `HistoryExact`, which ties the histories `answered` and `tested` to the stages
and is needed because `SingleProbe` counts attempts that are out and unanswered. None of them is
inductive alone: a pump admits the request under its index only because the queue holds exactly the
waiting requests, so `SlotsExact` needs `QueueExact`, and `SingleProbe` needs to know that an
attempt admitted during a recovery was not out before. There is one lemma per action
(`AcquireInv`, `CancelInv`, ..., `TimerInv`), `StepInv` puts them together, and `Invariance`,
`Typing`, `QueueIsExact`, `SlotsAreExact` and `OneProbe` follow. `BytesInv` adds that `#bytes` is the
sum of what the waiting requests were charged, for `BytesAreExact`: one enters, one leaves, or all do
(`QueueMoves`). `WaitsAreServed` needs `WakeInv`. That every wait has something that will pump for it
is false while pumps are in progress, so `Attended` says what the frames on the stack still owe: a
wait not attended otherwise is at an index the top frame has yet to visit, or is in the `earliest`
that some frame will set the timer to. `Timely` bounds the instants, and `NoSilentHold` says that a
limit that holds the queue is timed or was reported.

**The gate is implemented** (in the same module). `InitGate` and `StepGate` show that each step of
the admission is a step of `AdmissionGate` or a stutter, from `IInv` and `ShutEmpty` (nothing waits
once the admission is closed); `GateImplemented` is the refinement for every number of requests,
slots, routes and nested pumps. `RestExchange` uses the same gate.

**The exchange** (`RestExchangeProofs`). `AtMostOnce` counts the effects and the copies under way;
whether another copy may be sent depends on what the operation knows, so `Truthful` says for each
phase what it may conclude there.
Before its request is dispatched nothing happened (`Untouched`); a 429 or busy slots mean that nothing
did either; after a refusal, or with any outcome other than `unknown`, no copy is out any more
(`Settled`); a success was applied; and at most one copy is ever out (`Single`). A retry is then harmless because every verdict that
leads to one implies `Untouched`. `AppliedAtMostOnce` and `OutcomesAreTrue` follow. `SlotsInv` adds
`Owned`, which ties the stages of the gate's calls to the phases of operations, for `SlotsAreOwned`.
`BudgetInv` adds that the reserved bytes are the sum over the operations that run, and that a shutdown
that returned left none and a closed gate; `BudgetIsExact` and `ShutdownIsComplete` follow.
`StreamInv` says for each phase and step whether a body that can be read once is still closed
(`Unread`), which depends on what the operation has learnt: only an answer that the route is disabled
leads from a preparation to inline files, and only a rate limit repeats a step that carries the body,
before the body was opened. `StreamsAreReadOnce` follows.

**The learned limits** (`RateLimitsProofs`). That one request at most tests a refill is not
inductive: what a bucket remembers of its probe and who is out are different tables. `Probing` joins
them: an attempt that is out and was sent on a live, drained bucket has the number the bucket knows as
its probe's, so that while one is out `BucketWait` closes the bucket to every other. `Numbered` says
that each attempt has a number of its own, which no alias and no 429 under way has while the attempt
is out; a newer mapping is then strictly newer (`NewestMappingsKept`). `Bounded` counts both tables.
The steps that apply an answer come down to two facts: what it may do to a bucket (`Answers`, from
`Store` and from the changes in place) and to an alias (`AliasMoves`). `TablesStaySound` follows.
`DenialsAreKept` is a step from the same invariant: an answer that may not decide over a drained
bucket leaves it denying as long and as strictly (`Tightened`), a route that learns another bucket
takes along what it waited for under the old one (`LearntIs`), an alias with a wait is neither dropped
for another route nor idle (`RouteStays`), and time ends only waits that are over (`TimeKeeps`).
`Counts` is assumed finite, as the code reads safe integers: `Unlimited` is more than the greatest.

**The shard** (`GatewayShardProofs`). `ShardInv` has two halves beside types. `Line` is about the
socket: the dispatches on the wire are of one session and numbered by the gateway; each goes
forward of all before it, stays at the number of one of them and says that it comes again, or is
behind one of them; the last one sent is on the wire or was read;
and `Expected` says which frames may be under way at each point of an attempt, so that the only
surprise a client meets is a sequence that goes backwards, which it refuses. `Books` is about
memory: a session is remembered in one place only (the client, the store or a late write), up to
its last dispatch that was handed out, and the code that closed its socket allows what the loop
does next, over all processes. Both are needed for each theorem: that a Resume asks for nothing
that was handed out (`DispatchesInOrder`) needs the store to hold the last word, and that a stored
session is in nobody's use (`RestartsLoseNothing`) needs to know that no READY on the wire names it.
`CacheInv` adds that the wire leaves out no dispatch after what the client has (`NoGap`) and that a
snapshot is loaded while the caches are empty (`LoadedFirst`), for `CachesFollowTheSession`.

**The pacer** (`CommandPacerProofs`), four invariants one after another:
`BudgetInv` says that the history the session keeps is the end of the history of all its sends and
that what it has forgotten is a window old (`Tracks`); then a command that finds fewer than
`Budget` sends in the kept history is the last of at most `Budget` in its window (`BudgetKept`).
`QueueInv` says the queue holds each waiting command once and the counters count them
(`CountersAreExact`). `OrderInv` says that the queue is in the order of `accepted` (`Ordered`), so
the head of the queue has nothing waiting before it (`SentInOrder`). `TypeInv` adds the rest
(`Typing`).

**The scheduler and its tasks** (`ClientProofs`, for `LogicalScheduler` and `TaskTimers`). Order is
not inductive by itself: a snapshot is taken once and timers are set between its callbacks.
`SnapshotInOrder` says that what is left of the snapshot is due, sorted, and before every timer not
in it; a timer set now is due now at the earliest and has a later number, so it comes after.
`SleepsNoLonger` is what makes the wake-ups suffice. `TimersInv` adds which timer belongs to which
task and that `stop` counts each task cut short once; its steps are the scheduler's and the tasks'
own, several timers at once for `stop`.

**Events and the drain** (in the same module), over the composed `DrainSpec`. First what the queue's
operators compute: `LastFirst` lists the indices of a plan falling (`LastFirstIs`), removing them one
after the other keeps the rest in order (`FoldRemoves`, `KeptIs`), and a plan takes from another key
its oldest events only, while that key's backlog exceeds the arrival's by more than one (`VictimIs`,
`PlanIs`, by induction over the indices left). `QueueInv` is then inductive by itself: order, bytes,
counts and history of the queue (`QueueSound`), whose steps are one event more, some less, or none
left (`QueueReceives`, `QueueLoses`, `QueueEmpties`). `EvictionIsFair` is a step from it. `StartInv`
ties `busyKeys` to `running` and says that what waits is younger than what runs of the same key; a
worker that waits for the next event has an empty queue, or an arrival could overtake
(`EventsStartInOrder`). `ReadyInv` is about keys and hooks: `KeysInv` gives the phase of each key for
what waits and runs of it, and each attempt the token its key has, so that an answer that is not
current comes only after the subscription closed; `LoopInv` says what holds in each phase of the
worker: before it begins nothing is tracked, a tracked key is in `unstarted`, and a worker that waits
has neither a key to start nor an event it could (`NothingIsStranded`). `WorkIsExact` adds the types
of tasks and drain; `DrainLeavesNothing` needs that a drain seals events and tasks before it looks
(`IdleInv`, `NoNewEvents`, `NoNewRuns`).

**The permits** (`IdentifyPermitsProofs`). `Good` is stated over sets of messages, because what is
under way matters for the spacing and its order does not. A grant on its way to the request that waits for it is
the outstanding one's (`GrantsCurrent`); while the outstanding request may not have identified yet,
or was withdrawn before it could, the last Identify is a spacing ago (`Unsent`); and with none
outstanding the parent's own count is no older than the socket's (`Counted`), which is why `#exit`
must restart it for a child that dies with the permit. What a child reported or withdrew it does
not wait for any more (`NotWaiting`). `SpacingKept` is the step from `Unsent`.
With a coordinator the spacing is always over, so the theorem speaks of supervisors without one.

`Understood` depends on the order too. `UnderstoodInv` adds the order in which each side may
find messages of one request (`UpOrder`, `DownOrder`), and `Fit`: a request is open at one place at
most (on its way, queued, or outstanding and not granted), and while it is, its child expects an
answer and none is on its way, so the one answer it gets is expected too. `Reported` says that an
Identify on its way to the parent is the outstanding one's, because a withdrawal of it comes later in
the channel or never; `Handshaken` that a child is greeted and ready before anything else of it is
read; `Handed` that a child without a client has neither requests nor the permit, and finds its
assignment first in its channel unless the supervisor stopped before it read the hello; `Sized` the
rest of the types. `CrossingsAreUnderstood` follows.

**`DataLemmas`** has the facts that several of these cite. The library's induction theorems take an
operator and cannot be used here, so `InEveryNumber` and `InEverySubset` state induction over the
numbers and over the subsets of a finite set for sets instead, and are proved from
`LeastNumber`. With them the sums of `SumFunction` (`Total`) are proved to be what they should:
`TotalMore`, `TotalLess`, `TotalWithout`.

Only model-checked: every liveness property (fairness is out of this prover's reach).

## Mutants

For each property of a passing run, PROJECT.json names a definition of the model and a variant of
it, defined beside it, that is what a plausible slip in the code would be: a slot given back to the
other class (`FreeOtherSlot`), a splice of the wrong index (`DequeueOldest`), a timer shortened
without chaining (`ArmShortTimer`), a write repeated as if it were a read (`RepeatAny`), the outcome
set after the request left (`DispatchedLate`), a snapshot left resumable while in use
(`StillFresh`), a deadline that starts with HELLO (`TimedAfterHello`), a history of sends that
starts again on Resume (`NeverKept`), victims of an eviction removed in the order they were planned
(`FirstFirst`), a drain that looks at running handlers only (`RunningOnly`), an interrupted wait
that leaves its timer (`ForgetFor`), a coordinator's answer taken for whatever request is
outstanding (`CurrentWhatever`), the turn of a child that died kept (`TurnKept`). Under each, TLC
finds the property violated in the same run.

## Two divergences found

`SessionStore`'s documentation says that snapshots are saved "only during shutdown ... and not
after a permanent connection failure" (`projects/sdk/src/sharding.ts:145-146`). A permanent failure
leaves the shard's state at `Connected` while its socket closes, which takes up to five seconds; a
shutdown that begins in that window decides by that state which sessions to save
(`client.ts:2383-2387`) and saves the one the failure has just destroyed with close code 1000. The
run `shard_save_after_failure` shows the steps. The next process offers a Resume that the gateway is
expected to refuse, and starts a new session: a start is slower but nothing is lost. A reset that a
shutdown overtakes can leave its session saved in the same way.

A supervisor that stops before it has read a child's hello never answers it with the assignment
(`supervisor.ts:1368`), but sends the shutdown (`supervisor.ts:1906`), which carries the slot's
generation. The child learns its generation from the assignment, so it compares that number with
`undefined`, does not recognise the message (`supervisor.ts:2349-2356`), and `#protocol` ends the
bridge: `child.run` fails with a protocol error where
`projects/sdk/tests/client/supervisor/supervisor-child-run.test.ts:360-373` expects it to return.
That test replaces the bridge by one whose stop needs no message. The supervisor is stopping anyway
and takes the exit of the child as it takes any, so nothing but the child's own outcome differs.
`IdentifyPermits` has the step (`MistakesShutdown`), and `Understood` states it as its one exception.

## Not modelled

Parts of the plan above that have no module yet are listed in PROJECT.json as `not_modelled`, and
three hazards have no property for that reason: the heartbeat's own clock
(`gateway/session.ts:667`; the shard model lets a silent peer end an attempt at any time), the
Identify spacing of shards in one process (`client.ts:598`; the spacing over processes is
`IdentifiesSpaced`), and a member slot granted to nobody (`supervisor.ts:2137`).

Most of the repository is not state but data: generated routes and payload types, decoding,
builders, permissions, masking and message formatting are pure conversions, and the web site, the
release tooling and the test support are not part of the runtime. Also left out for good: logging
and metrics, which no modelled decision reads; and the failure reporter's use of the engine's
asynchronous hooks.

Inside modelled parts: TLS, compression, HTTP details and the wording of errors; the cache guards
and downloads of an exchange; the validation of a restored snapshot, which is a choice; what the
numbers of a response are, which are small choices; the rounding of refill instants; streams,
waiters, middleware and instruction handlers of the event bus, and its dispatch over several
subscriptions, each of which has a queue of its own; planning, resharding, member slots and the
relay of pauses between a supervisor and its children.
