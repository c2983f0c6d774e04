--------------------------- MODULE RestAdmission ---------------------------
(***************************************************************************)
(* REST admission of one client (projects/sdk/src/internal/rest/admission.ts): *)
(* the bounded request queue, the API and media slots, the client-wide     *)
(* pause, and the probe that ends a pause set by a 429 which named no      *)
(* limiter.                                                                *)
(*                                                                         *)
(* The pump is modelled step by step, because resuming a waiting request   *)
(* runs that request's fiber before item.resume returns: the fiber may     *)
(* acquire, release, cancel or close, and so start a second pump, while    *)
(* the first still holds an index into the queue.  "frames" is the stack   *)
(* of pumps in progress; only the top one moves.                           *)
(*                                                                         *)
(* The learned waits of rate-limits.ts are abstracted to two times per     *)
(* route: routeUntil, before which the route may not send, and routeFirm,  *)
(* the same wait without the hold of an outstanding refill probe.          *)
(***************************************************************************)
EXTENDS Integers, FiniteSets, Sequences, SequencesExt

CONSTANTS
    Requests,       \* the calls of acquire, each made at most once
    Nobody,         \* no request
    Routes,         \* rate-limit route keys
    RouteOf,        \* request -> the route it reserves
    Bytes,          \* request -> JSON bytes it is charged in the queue
    NotBefore,      \* request -> "until" of its AdmissionRequest
    Deadline,       \* request -> "deadline" of its AdmissionRequest
    RateLimited,    \* requests that learned waits apply to
    Media,          \* requests that use a media slot
    MayProbe,       \* requests whose answer may end a recovery
    MaxQueued, MaxBytes,
    InitialConcurrency, MediaConcurrency,
    ConcurrencyScales,        \* rest.concurrency was not configured
    ConcurrencyPerShard, MaximumConcurrency,
    ShardCounts,              \* local shard counts a plan may bring
    MaxUnidentifiedPause,     \* maximumUnidentifiedPauseMs
    MaxJitter,                \* most ticks of jitter
    JitterShare,              \* jitter is at most a JitterShare-th of the pause
    TimerSpan,                \* maximumTimerMs
    HoldReport,               \* rateLimitHoldReportMs
    \* bounds of the exploration
    Horizon,                  \* last instant of logical time
    RouteWaits,               \* instants a route wait may end at
    Asked,                    \* pauses a 429 may ask for, in ticks
    MaxDepth                  \* pumps nested in one another

Never == Horizon + 1          \* Infinity: no instant of this model
NoTimer == -1

ASSUME RequestsAssumption == IsFiniteSet(Requests) /\ Nobody \notin Requests
ASSUME AttributesAssumption ==
    /\ RouteOf \in [Requests -> Routes]
    /\ Bytes \in [Requests -> Nat]
    /\ NotBefore \in [Requests -> 0..Horizon]     \* a finite time, before Never
    /\ Deadline \in [Requests -> Nat]
    /\ RateLimited \subseteq Requests
    /\ Media \subseteq Requests
    /\ MayProbe \subseteq Requests
ASSUME LimitsAssumption ==
    /\ MaxQueued \in Nat \ {0} /\ MaxBytes \in Nat
    /\ MaximumConcurrency \in Nat \ {0} /\ ConcurrencyPerShard \in Nat \ {0}
    /\ InitialConcurrency \in 1..MaximumConcurrency /\ MediaConcurrency \in Nat \ {0}
    /\ ConcurrencyScales \in BOOLEAN /\ ShardCounts \subseteq Nat
    /\ MaxUnidentifiedPause \in Nat /\ MaxJitter \in Nat /\ JitterShare \in Nat \ {0}
    /\ TimerSpan \in Nat \ {0} /\ HoldReport \in Nat \ {0}
    /\ Horizon \in Nat /\ RouteWaits \subseteq 0..Horizon /\ 0 \in RouteWaits
    /\ Asked \subseteq Nat /\ MaxDepth \in Nat \ {0}

VARIABLES
    now,            \* logical time
    pending,        \* #pending, oldest first
    bytes,          \* #bytes
    active, activeMedia, concurrency,
    globalUntil, pauseKind,
    unidentified, probe, probeAttempt,
    routeUntil, routeFirm,    \* rates
    timer, stray,   \* #timer, and timers no longer held by #timer that still run
    holdReason, holdTimer,
    closed,
    frames,         \* pumps in progress
    stage,          \* how far each call of acquire has come
    answered,       \* history: attempts whose response was reported
    tested          \* history: probe-capable attempts admitted since the recovery began

queueVars == <<pending, bytes>>
slotVars == <<active, activeMedia>>
pauseVars == <<globalUntil, pauseKind>>
probeVars == <<unidentified, probe, probeAttempt, tested>>
rateVars == <<routeUntil, routeFirm>>
timerVars == <<timer, stray>>
holdVars == <<holdReason, holdTimer>>
vars == <<now, queueVars, slotVars, concurrency, pauseVars, probeVars, rateVars,
          timerVars, holdVars, closed, frames, stage, answered>>

Later(s, t) == IF s >= t THEN s ELSE t
Earlier(s, t) == IF s <= t THEN s ELSE t

-----------------------------------------------------------------------------
(* Who may run.  Fibers run one at a time: when no pump is in progress, or  *)
(* while the top pump waits for the fiber it resumed.                       *)

Idle == frames = <<>>
Top == frames[Len(frames)]
Below == SubSeq(frames, 1, Len(frames) - 1)
Callable == IF Idle THEN TRUE ELSE Top.calling
MayPump == Callable /\ Len(frames) < MaxDepth
Scanning == ~Idle /\ ~Top.calling

\* The call of #pump at the end of an operation. "own" is the request whose acquire
\* runs the pump: its fiber has not suspended yet, so resuming it runs nothing.
Pump(own) ==
    /\ timer' = NoTimer
    /\ UNCHANGED stray
    /\ frames' = IF closed THEN frames
                 ELSE Append(frames, [index |-> 1, earliest |-> Never, own |-> own, calling |-> FALSE])

-----------------------------------------------------------------------------
(* What a queued request waits for *)

RouteUntil(r) == IF routeUntil[RouteOf[r]] > now THEN routeUntil[RouteOf[r]] ELSE 0
RouteFirm(r) == IF routeFirm[RouteOf[r]] > now THEN routeFirm[RouteOf[r]] ELSE 0
Held(r) == IF r \in RateLimited THEN Later(globalUntil, RouteFirm(r)) ELSE 0
Limited(r) == IF r \in RateLimited THEN Later(globalUntil, RouteUntil(r)) ELSE 0
EntersAt(r) == Later(NotBefore[r], Limited(r))
SlotsFull(r) == IF r \in Media THEN activeMedia >= MediaConcurrency ELSE active >= concurrency
AwaitsProbe(r) == r \in RateLimited /\ probe = "inFlight"
HasRoom(r) == Len(pending) < MaxQueued /\ Bytes[r] <= MaxBytes - bytes

\* rateLimitHold, reduced to its reason
RateLimitHold ==
    LET holds == {r \in Range(pending) \cap RateLimited :
                    globalUntil > now \/ probe = "inFlight" \/ RouteUntil(r) # 0}
    IN IF holds = {} THEN "none"
       ELSE IF globalUntil > now THEN pauseKind
       ELSE IF probe = "inFlight" THEN "client" ELSE "route"

TrackHold(reason) ==
    /\ holdReason' = reason
    /\ holdTimer' = IF reason = holdReason THEN holdTimer
                    ELSE IF reason = "none" THEN NoTimer ELSE now + HoldReport

-----------------------------------------------------------------------------
Init ==
    /\ now = 0
    /\ pending = <<>> /\ bytes = 0
    /\ active = 0 /\ activeMedia = 0 /\ concurrency = InitialConcurrency
    /\ globalUntil = 0 /\ pauseKind = "global"
    /\ unidentified = 0 /\ probe = "none" /\ probeAttempt = Nobody
    /\ routeUntil = [t \in Routes |-> 0] /\ routeFirm = [t \in Routes |-> 0]
    /\ timer = NoTimer /\ stray = {}
    /\ holdReason = "none" /\ holdTimer = NoTimer
    /\ closed = FALSE
    /\ frames = <<>>
    /\ stage = [r \in Requests |-> "idle"]
    /\ answered = {} /\ tested = {}

-----------------------------------------------------------------------------
(* Operations of callers *)

AcquireClosed(r) ==
    /\ Callable /\ stage[r] = "idle" /\ closed
    /\ stage' = [stage EXCEPT ![r] = "shut"]
    /\ UNCHANGED <<now, queueVars, slotVars, concurrency, pauseVars, probeVars, rateVars,
                   timerVars, holdVars, closed, frames, answered>>

AcquireBusy(r) ==
    /\ Callable /\ stage[r] = "idle" /\ ~closed /\ ~HasRoom(r)
    /\ stage' = [stage EXCEPT ![r] = "busy"]
    /\ UNCHANGED <<now, queueVars, slotVars, concurrency, pauseVars, probeVars, rateVars,
                   timerVars, holdVars, closed, frames, answered>>

AcquireQueued(r) ==
    /\ MayPump /\ stage[r] = "idle" /\ ~closed /\ HasRoom(r)
    /\ stage' = [stage EXCEPT ![r] = "queued"]
    /\ pending' = Append(pending, r)
    /\ bytes' = bytes + Bytes[r]
    /\ Pump(r)
    /\ UNCHANGED <<now, slotVars, concurrency, pauseVars, probeVars, rateVars, holdVars, closed, answered>>

\* Mutants of Dequeue: the oldest request is removed instead; the bytes are not given back.
DequeueOldest(i) == pending' = Tail(pending) /\ bytes' = bytes - Bytes[pending[i]]
DequeueKeepingBytes(i) == pending' = RemoveAt(pending, i) /\ UNCHANGED bytes
Dequeue(i) == pending' = RemoveAt(pending, i) /\ bytes' = bytes - Bytes[pending[i]]

\* The fiber of a queued request is interrupted: by its caller, or by its deadline.
Cancel(r) ==
    /\ MayPump
    /\ \A f \in 1..Len(frames) : frames[f].own # r
    /\ \E i \in 1..Len(pending) : pending[i] = r /\ Dequeue(i)
    /\ stage' = [stage EXCEPT ![r] = "cancelled"]
    /\ Pump(Nobody)
    /\ UNCHANGED <<now, slotVars, concurrency, pauseVars, probeVars, rateVars, holdVars, closed, answered>>

\* Mutant of PassProbeOn: an unanswered probe keeps the probe when it ends.
KeepProbe(r) == UNCHANGED probeVars
\* A probe that ends unanswered passes the probe on.
PassProbeOn(r) ==
    IF probe = "inFlight" /\ probeAttempt = r
    THEN probe' = "needed" /\ probeAttempt' = Nobody /\ UNCHANGED <<unidentified, tested>>
    ELSE UNCHANGED probeVars

\* Mutant of FreeSlot: the slot of the other class is freed.
FreeOtherSlot(r) == activeMedia' = activeMedia - 1 /\ UNCHANGED active
FreeSlot(r) ==
    IF r \in Media THEN activeMedia' = activeMedia - 1 /\ UNCHANGED active
                   ELSE active' = active - 1 /\ UNCHANGED activeMedia
TakeSlot(r) ==
    IF r \in Media THEN activeMedia' = activeMedia + 1 /\ UNCHANGED active
                   ELSE active' = active + 1 /\ UNCHANGED activeMedia

Release(r) ==
    /\ MayPump /\ stage[r] = "admitted"
    /\ stage' = [stage EXCEPT ![r] = "released"]
    /\ FreeSlot(r)
    /\ PassProbeOn(r)
    /\ Pump(Nobody)
    /\ UNCHANGED <<now, queueVars, concurrency, pauseVars, rateVars, holdVars, closed, answered>>

Close ==
    /\ Callable /\ ~closed
    /\ closed' = TRUE
    /\ timer' = NoTimer /\ holdTimer' = NoTimer
    /\ pending' = <<>> /\ bytes' = 0
    /\ routeUntil' = [t \in Routes |-> 0] /\ routeFirm' = [t \in Routes |-> 0]
    /\ stage' = [r \in Requests |-> IF stage[r] = "queued" THEN "shut" ELSE stage[r]]
    /\ UNCHANGED <<now, slotVars, concurrency, pauseVars, probeVars, stray, holdReason, frames, answered>>

ScaleConcurrency ==
    /\ Idle /\ ConcurrencyScales
    /\ \E shards \in ShardCounts :
        concurrency' = Earlier(MaximumConcurrency, ConcurrencyPerShard * Later(1, shards))
    /\ Pump(Nobody)
    /\ UNCHANGED <<now, queueVars, slotVars, pauseVars, probeVars, rateVars, holdVars, closed, stage, answered>>

-----------------------------------------------------------------------------
(* Responses.  They arrive in tasks of the event loop, so never inside a pump. *)

\* A 429 or another process declares a global limit.
PauseGlobal ==
    /\ Idle
    /\ \E asked \in Asked :
        /\ now + asked <= Horizon
        /\ now + asked > globalUntil
        /\ globalUntil' = now + asked
    /\ pauseKind' = "global"
    /\ Pump(Nobody)
    /\ UNCHANGED <<now, queueVars, slotVars, concurrency, probeVars, rateVars, holdVars, closed, stage, answered>>

MayAnswer(r) == Idle /\ stage[r] = "admitted" /\ r \in RateLimited \ answered

\* The waits rates.observe, pause and reserve may leave behind.
LearnRoutes ==
    /\ routeUntil' \in [Routes -> RouteWaits]
    /\ routeFirm' \in [Routes -> RouteWaits]
    /\ \A t \in Routes : routeFirm'[t] <= routeUntil'[t]

\* A response that is not an unidentified 429.
Responded(r) ==
    /\ MayAnswer(r)
    /\ answered' = answered \cup {r}
    /\ LearnRoutes
    /\ IF probe = "inFlight" /\ probeAttempt = r
       THEN /\ probe' = "none" /\ probeAttempt' = Nobody /\ unidentified' = 0 /\ tested' = {}
            /\ Pump(Nobody)
       ELSE UNCHANGED <<probeVars, timerVars, frames>>
    /\ UNCHANGED <<now, queueVars, slotVars, concurrency, pauseVars, holdVars, closed, stage>>

PauseUnidentified(until) ==
    IF until <= globalUntil THEN UNCHANGED pauseVars
    ELSE globalUntil' = until /\ pauseKind' = "client"

\* The pause a repeated unidentified 429 sets: doubled for each repeat, up to the maximum.
Grown(asked) ==
    IF unidentified = 0 THEN asked
    ELSE Later(asked, Earlier(MaxUnidentifiedPause, asked * 2^unidentified))
Jitters(grown) ==
    IF unidentified = 0 THEN {0} ELSE 0..Earlier(MaxJitter, grown \div JitterShare)

RecoveryUnderWay(r) == probe # "none" /\ r # probeAttempt

\* An unidentified 429 to a request sent before the pause: it only extends the pause.
PauseClientExtend(r) ==
    /\ MayAnswer(r) /\ RecoveryUnderWay(r)
    /\ \E asked \in Asked : now + asked <= Horizon /\ PauseUnidentified(now + asked)
    /\ answered' = answered \cup {r}
    /\ UNCHANGED <<now, queueVars, slotVars, concurrency, probeVars, rateVars, timerVars,
                   holdVars, closed, frames, stage>>

\* The first unidentified 429, or one that answers the probe: a recovery (re)starts.
PauseClientStart(r) ==
    /\ MayAnswer(r) /\ ~RecoveryUnderWay(r)
    /\ \E asked \in Asked : \E jitter \in Jitters(Grown(asked)) :
        /\ now + Grown(asked) + jitter <= Horizon
        /\ PauseUnidentified(now + Grown(asked) + jitter)
    /\ unidentified' = unidentified + 1
    /\ probe' = "needed" /\ probeAttempt' = Nobody
    /\ answered' = answered \cup {r}
    /\ UNCHANGED <<now, queueVars, slotVars, concurrency, tested, rateVars, timerVars,
                   holdVars, closed, frames, stage>>

-----------------------------------------------------------------------------
(* Steps of #pump *)

Candidate == pending[Top.index]
AtCandidate == Scanning /\ Top.index <= Len(pending)
Denied(r) == Held(r) > now /\ Held(r) >= Deadline[r]

\* The resumed fiber runs now, unless it is still inside its own call of acquire.
Resumed(r) ==
    [frames EXCEPT ![Len(frames)].calling = \A f \in 1..Len(frames) : frames[f].own # r]

PumpDeny ==
    /\ AtCandidate /\ Denied(Candidate)
    /\ Dequeue(Top.index)
    /\ stage' = [stage EXCEPT ![Candidate] = "denied"]
    /\ frames' = Resumed(Candidate)
    /\ UNCHANGED <<now, slotVars, concurrency, pauseVars, probeVars, rateVars, timerVars,
                   holdVars, closed, answered>>

PumpSkipBlocked ==
    /\ AtCandidate /\ ~Denied(Candidate)
    /\ SlotsFull(Candidate) \/ AwaitsProbe(Candidate)
    /\ frames' = [frames EXCEPT ![Len(frames)].index = @ + 1]
    /\ UNCHANGED <<now, queueVars, slotVars, concurrency, pauseVars, probeVars, rateVars,
                   timerVars, holdVars, closed, stage, answered>>

MayEnterSoon(r) == ~Denied(r) /\ ~SlotsFull(r) /\ ~AwaitsProbe(r)

SoonestEntry(earliest, r) == Earlier(earliest, EntersAt(r))

PumpSkipEarly ==
    /\ AtCandidate /\ MayEnterSoon(Candidate) /\ EntersAt(Candidate) > now
    /\ frames' = [frames EXCEPT ![Len(frames)] =
                    [index |-> Top.index + 1, earliest |-> SoonestEntry(Top.earliest, Candidate),
                     own |-> Top.own, calling |-> FALSE]]
    /\ UNCHANGED <<now, queueVars, slotVars, concurrency, pauseVars, probeVars, rateVars,
                   timerVars, holdVars, closed, stage, answered>>

\* rates.reserve takes the route's last known permit or becomes its refill probe, or neither.
Reserve(r) ==
    \/ UNCHANGED rateVars
    \/ /\ r \in RateLimited
       /\ \E until \in {w \in RouteWaits : w > now} :
            /\ routeUntil' = [routeUntil EXCEPT ![RouteOf[r]] = until]
            /\ \/ UNCHANGED routeFirm
               \/ routeFirm' = [routeFirm EXCEPT ![RouteOf[r]] = until]

\* Mutant of BecomesProbe: any rate-limited request becomes the probe, a non-API one too.
AnyBecomesProbe(r) == r \in RateLimited /\ probe = "needed"
BecomesProbe(r) == r \in RateLimited /\ r \in MayProbe /\ probe = "needed"

PumpAdmit ==
    LET r == Candidate IN
    /\ AtCandidate /\ MayEnterSoon(r) /\ EntersAt(r) <= now
    /\ Dequeue(Top.index)
    /\ TakeSlot(r)
    /\ Reserve(r)
    /\ IF BecomesProbe(r)
       THEN probe' = "inFlight" /\ probeAttempt' = r
       ELSE UNCHANGED <<probe, probeAttempt>>
    /\ tested' = IF probe # "none" /\ r \in RateLimited \cap MayProbe THEN tested \cup {r} ELSE tested
    /\ stage' = [stage EXCEPT ![r] = "admitted"]
    /\ frames' = Resumed(r)
    /\ UNCHANGED <<now, concurrency, pauseVars, unidentified, timerVars, holdVars, closed, answered>>

\* The resumed fiber suspends or ends, and the pump goes on with its old index.
PumpReturns ==
    /\ ~Idle /\ Top.calling
    /\ frames' = [frames EXCEPT ![Len(frames)].calling = FALSE]
    /\ UNCHANGED <<now, queueVars, slotVars, concurrency, pauseVars, probeVars, rateVars,
                   timerVars, holdVars, closed, stage, answered>>

\* Mutant of ArmTimer: no timer is set for a wait longer than one timer can last.
ArmShortTimer(due) ==
    IF due - now > TimerSpan THEN UNCHANGED timerVars
    ELSE timer' = due /\ stray' = stray \cup ({timer} \ {NoTimer})
ArmTimer(due) ==
    /\ timer' = now + Earlier(TimerSpan, Later(1, due - now))
    /\ stray' = stray \cup ({timer} \ {NoTimer})

\* A nested pump may have armed #timer meanwhile: its timer is overwritten, not cleared.
PumpEnds ==
    /\ Scanning /\ Top.index > Len(pending)
    /\ frames' = Below
    /\ IF Top.earliest = Never THEN UNCHANGED timerVars ELSE ArmTimer(Top.earliest)
    /\ TrackHold(RateLimitHold)
    /\ UNCHANGED <<now, queueVars, slotVars, concurrency, pauseVars, probeVars, rateVars,
                   closed, stage, answered>>

PumpStep ==
    PumpDeny \/ PumpSkipBlocked \/ PumpSkipEarly \/ PumpAdmit \/ PumpReturns \/ PumpEnds

-----------------------------------------------------------------------------
(* Timers and time *)

TimerFires ==
    /\ Idle /\ timer # NoTimer /\ timer <= now
    /\ Pump(Nobody)
    /\ UNCHANGED <<now, queueVars, slotVars, concurrency, pauseVars, probeVars, rateVars,
                   holdVars, closed, stage, answered>>

StrayTimerFires ==
    /\ Idle
    /\ \E due \in stray :
        /\ due <= now
        /\ stray' = stray \ {due}
    /\ timer' = NoTimer
    /\ frames' = IF closed THEN frames
                 ELSE Append(frames, [index |-> 1, earliest |-> Never, own |-> Nobody, calling |-> FALSE])
    /\ UNCHANGED <<now, queueVars, slotVars, concurrency, pauseVars, probeVars, rateVars,
                   holdVars, closed, stage, answered>>

\* The report itself is a log record; a changed reason starts its own second.
HoldTimerFires ==
    /\ Idle /\ holdTimer # NoTimer /\ holdTimer <= now
    /\ IF closed \/ RateLimitHold = holdReason
       THEN holdTimer' = NoTimer /\ UNCHANGED holdReason
       ELSE /\ holdReason' = RateLimitHold
            /\ holdTimer' = IF RateLimitHold = "none" THEN NoTimer ELSE now + HoldReport
    /\ UNCHANGED <<now, queueVars, slotVars, concurrency, pauseVars, probeVars, rateVars,
                   timerVars, closed, frames, stage, answered>>

Tick ==
    /\ Idle /\ now < Horizon
    /\ now' = now + 1
    /\ UNCHANGED <<queueVars, slotVars, concurrency, pauseVars, probeVars, rateVars,
                   timerVars, holdVars, closed, frames, stage, answered>>

Next ==
    \/ \E r \in Requests :
        \/ AcquireClosed(r) \/ AcquireBusy(r) \/ AcquireQueued(r)
        \/ Cancel(r) \/ Release(r)
        \/ Responded(r) \/ PauseClientExtend(r) \/ PauseClientStart(r)
    \/ Close \/ ScaleConcurrency \/ PauseGlobal
    \/ PumpStep
    \/ TimerFires \/ StrayTimerFires \/ HoldTimerFires \/ Tick

Spec == Init /\ [][Next]_vars

\* A pump runs to its end, time passes however often the queue is pumped, due timers fire,
\* and every admitted request releases its slot: its owner bounds it by a deadline and
\* releases in a finalizer.
Fairness ==
    /\ WF_vars(PumpStep) /\ SF_vars(Tick)
    /\ WF_vars(TimerFires) /\ WF_vars(StrayTimerFires)
    /\ \A r \in Requests : SF_vars(Release(r))

FairSpec == Spec /\ Fairness

-----------------------------------------------------------------------------
Stages == {"idle", "queued", "admitted", "released", "busy", "denied", "cancelled", "shut"}
FrameType == [index : Nat \ {0}, earliest : Nat, own : Requests \cup {Nobody}, calling : BOOLEAN]

\* Every variable has its type.
TypeOK ==
    /\ now \in Nat
    /\ pending \in Seq(Requests) /\ bytes \in Int
    /\ active \in Nat /\ activeMedia \in Nat /\ concurrency \in 1..MaximumConcurrency
    /\ globalUntil \in Nat /\ pauseKind \in {"global", "client"}
    /\ unidentified \in Nat /\ probe \in {"none", "needed", "inFlight"}
    /\ probeAttempt \in Requests \cup {Nobody}
    /\ routeUntil \in [Routes -> Nat] /\ routeFirm \in [Routes -> Nat]
    /\ timer \in Nat \cup {NoTimer} /\ stray \subseteq Nat
    /\ holdReason \in {"none", "global", "client", "route"} /\ holdTimer \in Nat \cup {NoTimer}
    /\ closed \in BOOLEAN
    /\ frames \in Seq(FrameType)
    /\ stage \in [Requests -> Stages]
    /\ answered \subseteq Requests /\ tested \subseteq Requests

Queued == {r \in Requests : stage[r] = "queued"}
Admitted == {r \in Requests : stage[r] = "admitted"}

\* The queue holds each waiting request once and nothing else, whatever pumps nested: a
\* request removed twice, or left behind after its fiber was resumed, breaks it (pump,
\* cancel and close all splice #pending, with indices taken before a fiber ran).
QueueExact ==
    /\ IsInjective(pending)
    /\ Range(pending) = Queued

\* The slot counters equal the admitted requests that have not released, so no slot leaks
\* and none is freed twice.
SlotsExact ==
    /\ active = Cardinality(Admitted \ Media)
    /\ activeMedia = Cardinality(Admitted \cap Media)

\* The byte budget equals what the queued requests were charged.
BytesExact == bytes = MapThenSumSet(LAMBDA r : Bytes[r], Range(pending))

\* The attempts that could still be the recovery's probe.
Testing == {r \in tested : stage[r] = "admitted" /\ r \notin answered}

\* During a recovery the queue is tested by one request at a time, and the admission knows
\* which: "inFlight" means exactly the owning attempt is out and unanswered, "needed" that
\* none is.  Otherwise a probe that ended would leave the queue shut for good, or a second
\* burst would reach an unidentified limit.
SingleProbe ==
    /\ probe = "inFlight" => Testing = {probeAttempt}
    /\ probe # "inFlight" => Testing = {} /\ probeAttempt = Nobody
    /\ probe = "none" <=> unidentified = 0

\* Somebody will pump again for a waiting request: a timer due by the time it may enter,
\* a slot of its class that will be released, or an attempt that answered but still has to
\* release.
Wakes(r) ==
    \/ \E t \in {timer} \cup stray : t # NoTimer /\ t <= Later(EntersAt(r), now)
    \/ SlotsFull(r) /\ \E a \in Admitted : a \in Media <=> r \in Media
    \/ AwaitsProbe(r) /\ probeAttempt \in Admitted
    \/ Admitted \cap answered # {}

NoLostWakeup == Idle => \A r \in Queued : Wakes(r)

\* A rate limit that holds queued requests is being timed or was reported, unless the
\* response that set it has not released its slot yet.
NoSilentHold ==
    Idle /\ RateLimitHold # "none" /\ holdReason = "none" => Admitted \cap answered # {}

\* Nothing waits unattended: every queued request has somebody who will pump for it, and a rate
\* limit that holds the queue is timed or was reported.  A wakeup skipped by a pump strands the
\* queue until an unrelated call, and a report skipped hides why.
WaitsServed == NoLostWakeup /\ NoSilentHold

\* Every waiting request leaves the queue: it is admitted, denied, cancelled or shut.
LeavesQueue == \A r \in Requests : stage[r] = "queued" ~> stage[r] # "queued"

-----------------------------------------------------------------------------
(* The admission implements AdmissionGate *)

GateCall(s) ==
    CASE s = "idle" -> "new"
      [] s = "queued" -> "waiting"
      [] s = "admitted" -> "entered"
      [] s = "released" -> "left"
      [] OTHER -> "refused"
GateLimit(p) == IF p = "none" THEN "clear" ELSE IF p = "needed" THEN "held" ELSE "testing"

Gate == INSTANCE AdmissionGate WITH
    ApiSlots <- MaximumConcurrency, MediaSlots <- MediaConcurrency,
    call <- [r \in Requests |-> GateCall(stage[r])],
    limit <- GateLimit(probe), tester <- probeAttempt, shut <- closed

\* Whatever the pump does in between, callers see the gate of AdmissionGate.
ImplementsGate == Gate!Spec

=============================================================================
