--------------------------- MODULE EventDelivery ---------------------------
(***************************************************************************)
(* One handler subscription of the event bus: EventSource, EventBus and the *)
(* worker that EventBus.on forks (projects/sdk/src/internal/events.ts).     *)
(* Events arrive in receive order, wait in a bounded queue and start one     *)
(* invocation each, at most one at a time per partition key, and with a      *)
(* partitionReady hook only once the hook of their key succeeded.           *)
(*                                                                         *)
(* Code that does not wait is one step: a completed Deferred resumes the    *)
(* worker at once, and the worker runs until it waits or yields, which it    *)
(* may between starting hooks and scanning the queue.                       *)
(***************************************************************************)
EXTENDS Integers, Sequences, FiniteSets, SequencesExt

CONSTANTS
    Keys,           \* partition keys
    Failed,         \* the bucket of events whose partition function failed
    Unkeyed,        \* the group of every event of a source without a partition
    Setups,         \* subscriptions: [partitioned, hooked, overflow], whether limits.partition and
                    \* a partitionReady hook are given and what a full queue does
    MaxPending,     \* maxPendingMessages
    MaxBytes,       \* maxPendingBytes
    Sizes,          \* frame sizes of arriving events
    Concurrency,    \* limits.concurrency
    MaxEvents       \* bound of the exploration: events offered

Groups == Keys \cup {Failed}

ASSUME DeliveryAssumption ==
    /\ IsFiniteSet(Keys) /\ Failed \notin Keys /\ Unkeyed \notin Groups
    /\ Setups \subseteq [partitioned : BOOLEAN, hooked : BOOLEAN,
                          overflow : {"stop", "dropOldest", "dropNewest"}]
    /\ \A s \in Setups : s.hooked => s.partitioned
    /\ MaxPending \in Nat \ {0} /\ MaxBytes \in Nat /\ Sizes \subseteq Nat \ {0}
    /\ Concurrency \in Nat \ {0} /\ MaxEvents \in Nat

VARIABLES
    setup,       \* the subscription, one of Setups
    pending,     \* #pending: events [receipt, group, bytes] in receive order
    used,        \* #bytes
    waiting,     \* #waiting: events per group, kept only for a partitioned source
    source,      \* "open", "stopped", or "finished" once its release ran
    sealed,      \* bus #sealed
    loop,        \* the worker: "forked", "start", "scan", "latched", "taking" or "ended"
    busyKeys,    \* keys with a running invocation
    running,     \* events with a running invocation: both active and bus #running
    readiness,   \* key -> [token, phase]: "none", "tracked", "asked" or "ready"
    unstarted,   \* keys whose attempt has not started its hook
    attempts,    \* hooks in progress, by key and token
    awaited,     \* somebody waits on the bus's current #progress
    receipts,    \* #receipts: events accepted so far
    gone         \* history: receipts of events that were started, reported or dropped

queue == <<pending, used, waiting>>
ready == <<readiness, unstarted, attempts>>
history == <<receipts, gone>>
deliveryVars == <<setup, queue, source, sealed, loop, busyKeys, running, ready, awaited, history>>

Partitioned == setup.partitioned
Hooked == setup.hooked
Overflow == setup.overflow
Arriving == IF Partitioned THEN Groups ELSE {Unkeyed}

Absent == [token |-> 0, phase |-> "none"]

DeliveryInit ==
    /\ setup \in Setups
    /\ pending = <<>> /\ used = 0 /\ waiting = [g \in Groups |-> 0]
    /\ source = "open" /\ sealed = FALSE /\ loop = "forked"
    /\ busyKeys = {} /\ running = {}
    /\ readiness = [k \in Keys |-> Absent] /\ unstarted = {} /\ attempts = {}
    /\ awaited = FALSE /\ receipts = 0 /\ gone = {}

-----------------------------------------------------------------------------
(* The queue *)

Bytes(events) == SumFunction([e \in events |-> e.bytes])
CountOf(group, events) == Cardinality({i \in DOMAIN events : events[i].group = group})
Oldest(indices) == CHOOSE i \in indices : \A j \in indices : i <= j

\* Mutant of Victim: another key's backlog is taken from when it is longer by one only.
VictimOfLonger(group, taken) ==
    LET left == DOMAIN pending \ taken
        count(g) == waiting[g] - Cardinality({i \in taken : pending[i].group = g})
        own == {i \in left : pending[i].group = group}
        longest == {i \in left \ own : \A j \in left \ own :
                        count(pending[j].group) <= count(pending[i].group)}
    IN CASE ~Partitioned -> {Oldest(left)}
         [] Partitioned /\ longest # {} /\ count(pending[Oldest(longest)].group) > count(group) ->
                {Oldest(longest)}
         [] OTHER -> IF own = {} THEN {} ELSE {Oldest(own)}
\* #victim: the waiting event to discard for an arrival of this group, once the events at taken
\* are; none when the arrival itself goes
Victim(group, taken) ==
    LET left == DOMAIN pending \ taken
        count(g) == waiting[g] - Cardinality({i \in taken : pending[i].group = g})
        own == {i \in left : pending[i].group = group}
        longest == {i \in left \ own : \A j \in left \ own :
                        count(pending[j].group) <= count(pending[i].group)}
    IN CASE ~Partitioned -> {Oldest(left)}
         [] Partitioned /\ longest # {} /\ count(pending[Oldest(longest)].group) > count(group) + 1 ->
                {Oldest(longest)}
         [] OTHER -> IF own = {} THEN {} ELSE {Oldest(own)}

\* #plan: the indices to discard so that an arrival fits, or NoPlan when it goes itself
NoPlan == {0}
Plan(group, bytes) ==
    LET plan[taken \in SUBSET DOMAIN pending] ==
            LET left == Len(pending) - Cardinality(taken)
                usedBytes == used - Bytes({pending[i] : i \in taken})
            IN IF (left < MaxPending /\ bytes <= MaxBytes - usedBytes) \/ left = 0 THEN taken
               ELSE LET victim == Victim(group, taken)
                    IN IF victim = {} THEN NoPlan ELSE plan[taken \cup victim]
    IN plan[{}]

\* Mutant of LastFirst: victims are removed in the order they were planned.
FirstFirst(indices) ==
    CHOOSE order \in [1..Cardinality(indices) -> indices] :
        \A m, n \in DOMAIN order : m < n => order[m] < order[n]
\* The indices of a plan, last first, so that a removal moves no index still to remove
LastFirst(indices) ==
    CHOOSE order \in [1..Cardinality(indices) -> indices] :
        \A m, n \in DOMAIN order : m < n => order[m] > order[n]
Without(indices) == FoldLeft(RemoveAt, pending, LastFirst(indices))

\* #forget, for each of these events
Forget(events) ==
    IF Partitioned
    THEN [g \in Groups |-> waiting[g] - Cardinality({e \in events : e.group = g})]
    ELSE waiting
Recount(count, group) == IF Partitioned THEN [count EXCEPT ![group] = @ + 1] ELSE count

Full(bytes) == Len(pending) >= MaxPending \/ bytes > MaxBytes - used

\* takeFirst or takeDelivery: this event leaves the queue
Take(i) ==
    /\ pending' = RemoveAt(pending, i)
    /\ used' = used - pending[i].bytes
    /\ waiting' = Forget({pending[i]})

\* stop empties the queue
Empty == pending' = <<>> /\ used' = 0 /\ waiting' = [g \in Groups |-> 0]
Receipts(events) == {e.receipt : e \in events}

-----------------------------------------------------------------------------
(* Readiness of keys *)

\* track, for the key of an event that entered the queue
Track(group, receipt) ==
    IF Hooked /\ group \in Keys /\ readiness[group].phase = "none"
    THEN /\ readiness' = [readiness EXCEPT ![group] = [token |-> receipt, phase |-> "tracked"]]
         /\ unstarted' = unstarted \cup {group}
         /\ UNCHANGED attempts
    ELSE UNCHANGED ready

\* Mutant of ForgetIdle: a key is forgotten with its last invocation, while events of it wait.
ForgetAnyway(entries, key, busy, count) ==
    IF key \in Keys /\ entries[key].phase = "ready" THEN [entries EXCEPT ![key] = Absent] ELSE entries
\* forgetIdle: a ready key without waiting or running events is forgotten
ForgetIdle(entries, key, busy, count) ==
    IF key \in Keys /\ entries[key].phase = "ready" /\ key \notin busy /\ count[key] = 0
    THEN [entries EXCEPT ![key] = Absent] ELSE entries

IsReady(key) == Hooked => readiness[key].phase = "ready"
\* Mutant of Eligible: the second event of a key starts beside the first.
EligibleBeside(e) == e.group \in Keys => IsReady(e.group)
Eligible(e) == e.group \in Keys => e.group \notin busyKeys /\ IsReady(e.group)

-----------------------------------------------------------------------------
(* Signals *)

\* wake releases the latch the worker waits on
Woken == IF loop = "latched" THEN "start" ELSE loop
\* Mutant of SignalProgress: nobody is told.
TellNobody == UNCHANGED awaited
\* #signalProgress releases who waits on the bus
SignalProgress == awaited' = FALSE

\* The worker starts the invocation of an event
Start(e) ==
    /\ running' = running \cup {e}
    /\ busyKeys' = busyKeys \cup (IF e.group \in Keys THEN {e.group} ELSE {})
    /\ loop' = "start"

-----------------------------------------------------------------------------
(* Arrivals *)

Arrival(group, bytes) == [receipt |-> receipts + 1, group |-> group, bytes |-> bytes]
Arrives(group, bytes) ==
    /\ source = "open" /\ ~sealed /\ receipts < MaxEvents
    /\ group \in Arriving /\ bytes \in Sizes
    /\ receipts' = receipts + 1
\* The arrival does not wait.
Passes == gone' = gone \cup {receipts + 1}

\* A worker that waits for the next event gets it directly.
OfferTaken(group, bytes) ==
    /\ Arrives(group, bytes) /\ loop = "taking"
    /\ Passes
    /\ Start(Arrival(group, bytes))
    /\ UNCHANGED <<queue, source, sealed, ready, awaited>>

\* #push: the event waits, and the worker of a partitioned source is told.
Push(kept, keptBytes, keptCount, e) ==
    /\ pending' = Append(kept, e)
    /\ used' = keptBytes + e.bytes
    /\ waiting' = Recount(keptCount, e.group)
    /\ IF Partitioned /\ loop # "forked"
       THEN Track(e.group, e.receipt) /\ loop' = Woken
       ELSE UNCHANGED <<ready, loop>>

OfferQueued(group, bytes) ==
    /\ Arrives(group, bytes) /\ loop # "taking" /\ ~Full(bytes)
    /\ Push(pending, used, waiting, Arrival(group, bytes))
    /\ UNCHANGED <<source, sealed, busyKeys, running, awaited, gone>>

\* dropOldest: the planned victims go, or the arrival when nothing it displaces is worth less.
OfferEvicting(group, bytes) ==
    /\ Arrives(group, bytes) /\ loop # "taking" /\ Full(bytes)
    /\ Overflow = "dropOldest" /\ bytes <= MaxBytes
    /\ LET plan == Plan(group, bytes)
           victims == {pending[i] : i \in plan \ NoPlan}
       IN IF plan = NoPlan
          THEN /\ Passes
               /\ UNCHANGED <<queue, ready, loop>>
          ELSE /\ Push(Without(plan), used - Bytes(victims), Forget(victims),
                       Arrival(group, bytes))
               /\ gone' = gone \cup Receipts(victims)
    /\ UNCHANGED <<source, sealed, busyKeys, running, awaited>>

OfferDropped(group, bytes) ==
    /\ Arrives(group, bytes) /\ loop # "taking" /\ Full(bytes)
    /\ Overflow # "stop" /\ (Overflow = "dropNewest" \/ bytes > MaxBytes)
    /\ Passes
    /\ UNCHANGED <<queue, source, sealed, loop, busyKeys, running, ready, awaited>>

\* stop: no intake, an empty queue and an interrupted worker. Invocations and hooks still end.
Stop ==
    /\ source = "open" /\ source' = "stopped"
    /\ Empty
    /\ loop' = "ended"
    /\ gone' = 1..receipts'
    /\ UNCHANGED <<sealed, busyKeys, running, ready, awaited>>

OfferOverflows(group, bytes) ==
    /\ Arrives(group, bytes) /\ loop # "taking" /\ Full(bytes) /\ Overflow = "stop"
    /\ Stop

\* The application closes the subscription, or the bus stops with its client.
StopSource == UNCHANGED receipts /\ Stop

\* Draining and shutdown refuse every further event.
Seal == ~sealed /\ sealed' = TRUE

-----------------------------------------------------------------------------
(* The worker *)

\* The program begins: keys of events that came earlier are tracked, and arrivals are heard.
Begin ==
    LET first(k) == pending[Oldest({i \in DOMAIN pending : pending[i].group = k})].receipt
        waitingKeys == {k \in Keys : Hooked /\ waiting[k] > 0}
    IN /\ loop = "forked" /\ loop' = "start"
       /\ readiness' = [k \in Keys |-> IF k \in waitingKeys
                            THEN [token |-> first(k), phase |-> "tracked"] ELSE readiness[k]]
       /\ unstarted' = waitingKeys
       /\ UNCHANGED <<queue, source, sealed, busyKeys, running, attempts, awaited, history>>

\* startReadiness: the hook of every key that has none yet is forked.
StartReadiness ==
    LET hooked == {k \in unstarted : readiness[k].phase = "tracked"}
    IN /\ loop = "start" /\ loop' = "scan"
       /\ attempts' = attempts \cup {[key |-> k, token |-> readiness[k].token] : k \in hooked}
       /\ readiness' = [k \in Keys |-> IF k \in hooked
                            THEN [readiness[k] EXCEPT !.phase = "asked"] ELSE readiness[k]]
       /\ unstarted' = {}
       /\ UNCHANGED <<queue, source, sealed, busyKeys, running, awaited, history>>

\* A key admitted since needs its hook first.
Rescan ==
    /\ loop = "scan" /\ unstarted # {} /\ loop' = "start"
    /\ UNCHANGED <<queue, source, sealed, busyKeys, running, ready, awaited, history>>

AtCapacity == Cardinality(running) >= Concurrency
Selected == {i \in DOMAIN pending : Partitioned => Eligible(pending[i])}

\* Nothing can start: the worker waits for the latch, or for the next event.
Wait ==
    /\ loop = "scan" /\ unstarted = {} /\ (AtCapacity \/ Selected = {})
    /\ loop' = IF AtCapacity \/ Partitioned THEN "latched" ELSE "taking"
    /\ UNCHANGED <<queue, source, sealed, busyKeys, running, ready, awaited, history>>

\* The first event that may start does, or is reported when it has no key.
Deliver ==
    /\ loop = "scan" /\ unstarted = {} /\ ~AtCapacity /\ Selected # {}
    /\ LET i == Oldest(Selected)
           e == pending[i]
       IN /\ Take(i)
          /\ gone' = gone \cup {e.receipt}
          /\ IF e.group = Failed
             THEN loop' = "start" /\ SignalProgress /\ UNCHANGED <<busyKeys, running>>
             ELSE Start(e) /\ UNCHANGED awaited
    /\ UNCHANGED <<source, sealed, ready, receipts>>

\* finished: an invocation ends, by itself or interrupted when its subscription stopped.
HandlerEnds(e) ==
    LET busy == busyKeys \ {e.group}
    IN /\ e \in running /\ running' = running \ {e}
       /\ busyKeys' = busy
       /\ readiness' = ForgetIdle(readiness, e.group, busy, waiting)
       /\ SignalProgress
       /\ loop' = Woken
       /\ UNCHANGED <<queue, source, sealed, unstarted, attempts, history>>

Settles(a) == a \in attempts /\ attempts' = attempts \ {a}
Current(a) == source = "open" /\ readiness[a.key].token = a.token

\* settle: the hook of a key succeeded.
HookSucceeds(a) ==
    /\ Settles(a) /\ Current(a)
    /\ readiness' = ForgetIdle([readiness EXCEPT ![a.key].phase = "ready"], a.key, busyKeys, waiting)
    /\ loop' = Woken
    /\ UNCHANGED <<queue, source, sealed, busyKeys, running, unstarted, awaited, history>>

\* settle: it failed, and every waiting event of the key is reported.
HookFails(a) ==
    LET of == {i \in DOMAIN pending : pending[i].group = a.key}
        held == {pending[i] : i \in of}
    IN /\ Settles(a) /\ Current(a)
       /\ readiness' = [readiness EXCEPT ![a.key] = Absent]
       /\ pending' = Without(of)
       /\ used' = used - Bytes(held)
       /\ waiting' = Forget(held)
       /\ gone' = gone \cup Receipts(held)
       /\ SignalProgress
       /\ loop' = Woken
       /\ UNCHANGED <<source, sealed, busyKeys, running, unstarted, receipts>>

\* The hook of a stopped subscription, or of an attempt that is not current, is ignored.
HookIgnored(a) ==
    /\ Settles(a) /\ ~Current(a)
    /\ UNCHANGED <<queue, source, sealed, loop, busyKeys, running, readiness, unstarted, awaited, history>>

\* finish: the stopped worker's scope has closed, and the bus forgets the source.
Finish ==
    /\ source = "stopped" /\ running = {} /\ attempts = {}
    /\ source' = "finished"
    /\ SignalProgress
    /\ UNCHANGED <<queue, sealed, loop, busyKeys, running, ready, history>>

Offer == \E g \in Arriving, b \in Sizes :
    OfferTaken(g, b) \/ OfferQueued(g, b) \/ OfferEvicting(g, b) \/ OfferDropped(g, b)
    \/ OfferOverflows(g, b)
Work == Begin \/ StartReadiness \/ Rescan \/ Wait \/ Deliver
HandlersEnd == \E e \in running : HandlerEnds(e)
HooksSettle == \E a \in attempts : HookSucceeds(a) \/ HookFails(a) \/ HookIgnored(a)

DeliveryNext ==
    UNCHANGED setup /\ (Offer \/ Work \/ HandlersEnd \/ HooksSettle \/ StopSource \/ Finish)

-----------------------------------------------------------------------------
(* Properties *)

Phases == {"none", "tracked", "asked", "ready"}
Tokens == 0..MaxEvents
Events == [receipt : 1..MaxEvents, group : Arriving, bytes : Sizes]

DeliveryTypeOK ==
    /\ setup \in Setups
    /\ pending \in Seq(Events) /\ used \in Nat /\ waiting \in [Groups -> Nat]
    /\ source \in {"open", "stopped", "finished"} /\ sealed \in BOOLEAN
    /\ loop \in {"forked", "start", "scan", "latched", "taking", "ended"}
    /\ busyKeys \subseteq Keys /\ running \subseteq Events
    /\ readiness \in [Keys -> [token : Tokens, phase : Phases]]
    /\ unstarted \subseteq Keys /\ attempts \subseteq [key : Keys, token : Tokens]
    /\ awaited \in BOOLEAN /\ receipts \in Nat /\ gone \subseteq 1..receipts

\* The accounting of the queue is exact and its bounds hold, whatever was evicted, taken by key or
\* reported in between: bytes, events per group (which decide the next eviction), and that an
\* event waits exactly while it was not started, reported or dropped.
QueueExact ==
    /\ Len(pending) <= MaxPending /\ used = Bytes(ToSet(pending)) /\ used <= MaxBytes
    /\ Partitioned => \A g \in Groups : waiting[g] = CountOf(g, pending)
    /\ Receipts(ToSet(pending)) = 1..receipts \ gone

Same(e, f) == ~Partitioned \/ (e.group = f.group /\ e.group \in Keys)

\* Events of one key start in receive order and one at a time: none waits behind a later one that
\* runs, and no two run together. Without a partition all events start in receive order.
StartsInOrder ==
    /\ \A e \in running : \A i \in DOMAIN pending : Same(e, pending[i]) => e.receipt < pending[i].receipt
    /\ \A i, j \in DOMAIN pending : i < j => pending[i].receipt < pending[j].receipt
    /\ Partitioned => \A e, f \in running : e.group = f.group => e = f
    /\ Cardinality(running) <= Concurrency

\* "An arriving event never evicts the last waiting event of another key" (events.ts:1476-1479),
\* and more: an arrival takes from another key only its oldest events and only while that key's
\* backlog stays as long as the arrival's own.
FairEviction ==
    [][\A g \in Groups : Partitioned /\ source' = "open" /\ receipts' > receipts =>
        LET goneOf(k) == {i \in DOMAIN pending : pending[i].group = k /\ pending[i].receipt \in gone'}
            arrival == IF Len(pending') = 0 THEN Failed ELSE pending'[Len(pending')].group
        IN g # arrival /\ goneOf(g) # {} =>
            /\ CountOf(g, pending') >= CountOf(arrival, pending')
            /\ \A i \in goneOf(g) : \A j \in DOMAIN pending' :
                   pending'[j].group = g => pending[i].receipt < pending'[j].receipt]_deliveryVars

\* A key's handler runs only while the key is ready; a key that is not ready yet has an event
\* waiting for its one attempt; and the map holds only keys with waiting or running events, so it
\* does not grow (events.ts:1474-1500).
ReadinessExact ==
    Hooked /\ source = "open" /\ loop # "forked" =>
        /\ \A k \in busyKeys : readiness[k].phase = "ready"
        /\ \A k \in Keys :
              /\ waiting[k] > 0 => readiness[k].phase # "none"
              /\ readiness[k].phase \in {"tracked", "asked"} => waiting[k] > 0
              /\ readiness[k].phase = "ready" => waiting[k] > 0 \/ k \in busyKeys
              /\ readiness[k].phase = "asked" <=> \E a \in attempts : a.key = k
        /\ \A a, b \in attempts : a.key = b.key => a = b

\* A worker that waits has nothing it could do: no wakeup is spent before the wait it was for.
NoLostWakeup ==
    loop \in {"latched", "taking"} =>
        /\ \A k \in Keys : readiness[k].phase # "tracked"
        /\ AtCapacity \/ Selected = {}

\* No key and no event is stranded: what the hooks' attempts, the map of keys and the waiting worker
\* each know of the queue agrees, however events, evictions, hooks and invocations interleave.
NothingStranded == ReadinessExact /\ NoLostWakeup

=============================================================================
