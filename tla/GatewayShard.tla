---------------------------- MODULE GatewayShard ----------------------------
(***************************************************************************)
(* One shard of a client across restarts of its process: the connection   *)
(* loop (projects/sdk/src/internal/client/shard-loop.ts), the gateway     *)
(* session of each attempt (gateway/session.ts), shutdown and the saved    *)
(* session (client.ts).  Fluxer's gateway is external: it numbers the      *)
(* dispatches of a session, keeps a session for a while after its socket   *)
(* is gone, and replays what a Resume asks for.                            *)
(*                                                                         *)
(* Time is left out: a deadline, a backoff delay, the age of a snapshot    *)
(* and a healthy connection are choices, and so is a missed heartbeat.     *)
(***************************************************************************)
EXTENDS Integers, Sequences, FiniteSets

CONSTANTS
    MaxStartupAttempts,    \* connection.maxStartupAttempts
    ProtocolFailureLimit,  \* protocolFailureLimit
    Persistent,            \* a session store is configured
    Terminates,            \* onMalformedDispatch is "terminate"
    \* bounds of the exploration
    MaxSessions, MaxSequence, MaxRuns, MaxFrames, MaxAttempts,
    MaxOffered,            \* dispatches of a session handed out before the gateway stops repeating
    Tried                  \* disturbances the gateway tries

ASSUME CountsAssumption ==
    /\ {MaxStartupAttempts, ProtocolFailureLimit, MaxSessions, MaxSequence} \subseteq Nat \ {0}
    /\ {MaxRuns, MaxFrames, MaxAttempts, MaxOffered} \subseteq Nat
    /\ Persistent \in BOOLEAN /\ Terminates \in BOOLEAN

Ids == 1..MaxSessions
NoId == 0
NoSession == [id |-> NoId, sequence |-> 0]
NoSnapshot == NoSession      \* nothing saved, or only the copy that marks a snapshot as used
NoEnd == [end |-> "none", retry |-> FALSE, reset |-> FALSE]
NoCommand == [op |-> "none"]

VARIABLES
    \* Fluxer's gateway
    bound,      \* the session of the open socket
    last,       \* last sequence of each session
    \* the socket
    wire,       \* frames on their way to the client
    up,         \* the Identify or Resume on its way to the gateway
    \* the client
    runs,       \* processes started so far
    lifetime,   \* "down", "on", "draining" or "closing"
    saving,     \* #saveOnClose holds this shard
    state,      \* shard.state
    session,    \* shard.session
    loop,       \* locals of runShardLoop
    attempt,    \* locals of runGatewaySession
    \* the session store
    store, lateSave,
    \* what the process does with dispatches
    cached,     \* dispatches its caches reflect
    \* history
    offered,    \* session -> dispatches handed to the event bus, over all processes
    closedAs    \* session -> how its last socket was closed, whichever process did it

gateway == <<bound, last>>
socket == <<wire, up>>
client == <<runs, lifetime, saving, state, session, loop, attempt>>
stored == <<store, lateSave>>
history == <<offered, closedAs>>
vars == <<gateway, socket, client, stored, cached, history>>

Fresh == [known |-> FALSE, loaded |-> ~Persistent, restored |-> FALSE, established |-> FALSE,
          connected |-> FALSE, attempts |-> 0, anomalies |-> 0]
\* Phases: idle, marking (its snapshot), connecting, starting, running, closing, off
Idle == [phase |-> "idle", resuming |-> FALSE, hello |-> FALSE, sent |-> FALSE,
         ready |-> FALSE, inTime |-> FALSE, ended |-> NoEnd]
Resumable == session.id # NoId

Init ==
    /\ bound = NoId /\ last = [i \in Ids |-> 0]
    /\ wire = <<>> /\ up = NoCommand
    /\ runs = 0 /\ lifetime = "down" /\ saving = FALSE /\ state = "Disconnected" /\ session = NoSession
    /\ loop = Fresh /\ attempt = Idle
    /\ store = NoSnapshot /\ lateSave = <<>>
    /\ cached = {}
    /\ offered = [i \in Ids |-> <<>>] /\ closedAs = [i \in Ids |-> "open"]

-----------------------------------------------------------------------------
(* Fluxer's gateway.  Its frames arrive in order while the socket lives. *)

Send(frames) == Len(wire \o frames) <= MaxFrames /\ wire' = wire \o frames
Frame(type, id, sequence) == [type |-> type, id |-> id, sequence |-> sequence, again |-> FALSE]
\* A frame with a number the gateway gave to a dispatch before, and not because of a replay
Again(type, id, sequence) == [type |-> type, id |-> id, sequence |-> sequence, again |-> TRUE]
Control(type) == Frame(type, NoId, 0)
Reachable == attempt.phase \in {"starting", "running"}

\* Identify starts a session; its READY is the first dispatch.
AnswerIdentify(i) ==
    /\ Reachable /\ up.op = "identify" /\ last[i] = 0 /\ \A j \in 1..(i - 1) : last[j] > 0
    /\ bound' = i /\ last' = [last EXCEPT ![i] = 1]
    /\ Send(<<Frame("ready", i, 1)>>) /\ up' = NoCommand
    /\ UNCHANGED <<client, stored, cached, history>>

\* What followed the sequence of a Resume
Replay(resume) ==
    [n \in 1..(last[resume.id] - resume.sequence) |-> Frame("dispatch", resume.id, resume.sequence + n)]

\* Resume replays, then sends RESUMED under a number of its own or under the last one; a session
\* it no longer holds is refused.
AnswerResume ==
    /\ Reachable /\ up.op = "resume"
    /\ up' = NoCommand
    /\ \/ /\ bound' = up.id
          /\ closedAs' = [closedAs EXCEPT ![up.id] = "open"]
          /\ \/ /\ last[up.id] < MaxSequence
                /\ last' = [last EXCEPT ![up.id] = @ + 1]
                /\ Send(Replay(up) \o <<Frame("resumed", up.id, last[up.id] + 1)>>)
             \/ /\ Send(Replay(up) \o <<Again("resumed", up.id, last[up.id])>>)
                /\ UNCHANGED last
       \/ Send(<<Control("invalid")>>) /\ UNCHANGED <<bound, last, closedAs>>
    /\ UNCHANGED <<client, stored, cached, offered>>

Dispatch ==
    /\ bound # NoId /\ last[bound] < MaxSequence
    /\ last' = [last EXCEPT ![bound] = @ + 1]
    /\ Send(<<Frame("dispatch", bound, last[bound] + 1)>>)
    /\ UNCHANGED <<bound, up, client, stored, cached, history>>

\* The last dispatch, or an older one, comes again.
Repeat ==
    /\ bound # NoId /\ Len(offered[bound]) + Len(wire) < MaxOffered
    /\ \E n \in 1..last[bound] : Send(<<Again("dispatch", bound, n)>>)
    /\ UNCHANGED <<gateway, up, client, stored, cached, history>>

\* It asks for a reconnect, sends invalid data ("local": data the client refuses by its own
\* policy), invalidates the session or closes.
Disturbances == {"reconnect", "odd", "local", "invalid", "close", "refuse", "forbid"}
Disturb(type) ==
    /\ Reachable /\ type \in Tried /\ Send(<<Control(type)>>)
    /\ bound' = IF type \in {"invalid", "close", "refuse", "forbid"} THEN NoId ELSE bound
    /\ UNCHANGED <<last, up, client, stored, cached, history>>

-----------------------------------------------------------------------------
(* The loop up to the socket *)

\* connect or run
Start ==
    /\ lifetime = "down" /\ runs < MaxRuns
    /\ runs' = runs + 1 /\ lifetime' = "on" /\ saving' = FALSE
    /\ state' = "Connecting" /\ session' = NoSession /\ loop' = Fresh /\ attempt' = Idle
    /\ cached' = {}
    /\ UNCHANGED <<gateway, socket, stored, history>>

Discover ==
    /\ lifetime # "down" /\ attempt.phase = "idle" /\ ~loop.known
    /\ loop' = [loop EXCEPT !.known = TRUE]
    /\ UNCHANGED <<gateway, socket, runs, lifetime, saving, state, session, attempt, stored, cached, history>>

\* loadSession, up to marking the snapshot as used; an unusable one is ignored.
LoadSession ==
    /\ attempt.phase = "idle" /\ loop.known /\ ~loop.loaded
    /\ loop' = [loop EXCEPT !.loaded = TRUE]
    /\ \/ UNCHANGED attempt
       \/ store # NoSnapshot /\ attempt' = [Idle EXCEPT !.phase = "marking"]
    /\ UNCHANGED <<gateway, socket, runs, lifetime, saving, state, session, stored, cached, history>>

\* Mutant of UsedSnapshot: the stored snapshot stays as it is.
StillFresh(snapshot) == snapshot
UsedSnapshot(snapshot) == NoSnapshot

\* A save succeeds, fails, or is given up and may still be written later.
Saved(snapshot) == store' = snapshot /\ UNCHANGED lateSave
NotSaved(snapshot) == UNCHANGED store /\ lateSave' \in {lateSave, <<snapshot>>}

MarkUsed ==
    /\ attempt.phase = "marking"
    /\ attempt' = Idle
    /\ \/ /\ store # NoSnapshot
          /\ Saved(UsedSnapshot(store))
          /\ session' = store /\ loop' = [loop EXCEPT !.restored = TRUE]
       \/ NotSaved(UsedSnapshot(store)) /\ UNCHANGED <<session, loop>>
    /\ UNCHANGED <<gateway, socket, runs, lifetime, saving, state, cached, history>>

\* The write of a save that was given up.
LateWrite ==
    /\ lateSave # <<>>
    /\ store' = lateSave[1] /\ lateSave' = <<>>
    /\ UNCHANGED <<gateway, socket, client, cached, history>>

\* runGatewaySession opens its socket.
Connect ==
    /\ attempt.phase = "idle" /\ loop.known /\ loop.loaded /\ loop.attempts < MaxAttempts
    /\ attempt' = [Idle EXCEPT !.phase = "connecting", !.resuming = Resumable]
    /\ UNCHANGED <<gateway, socket, runs, lifetime, saving, state, session, loop, stored, cached, history>>

Opened ==
    /\ attempt.phase = "connecting"
    /\ attempt' = [attempt EXCEPT !.phase = "starting"]
    /\ wire' = <<Control("hello")>>
    /\ UNCHANGED <<gateway, up, runs, lifetime, saving, state, session, loop, stored, cached, history>>

-----------------------------------------------------------------------------
(* The session *)

\* AttemptFailure; its end only matters for "protocol".
Failure(end, retry, reset) == [end |-> end, retry |-> retry, reset |-> reset]
Retryable == Failure("other", TRUE, FALSE)
Reset == Failure("other", TRUE, TRUE)
ProtocolAnomaly == Failure("protocol", TRUE, TRUE)
Permanent == Failure("other", FALSE, FALSE)

\* setShardState; a client that closes keeps its state.
ShardState(value) == IF lifetime = "closing" THEN state ELSE value

\* fail: the first failure ends the attempt, and a ready shard recovers at once.
Fail(failure) ==
    /\ attempt' = [attempt EXCEPT !.ended = IF @ = NoEnd THEN failure ELSE @]
    /\ state' = IF attempt.ended = NoEnd /\ attempt.ready /\ failure.retry THEN ShardState("Recovering") ELSE state

\* A failing transport or a closure without a frame; the gateway may keep the session.
Lose ==
    /\ attempt.phase \in {"connecting", "starting", "running"} /\ attempt.ended = NoEnd
    /\ Fail(Retryable)
    /\ bound' = NoId /\ wire' = <<>> /\ up' = NoCommand
    /\ UNCHANGED <<last, runs, lifetime, saving, session, loop, stored, cached, history>>

\* A heartbeat is not acknowledged or a send fails: the socket is still there.
Unresponsive ==
    /\ attempt.phase \in {"starting", "running"} /\ attempt.hello /\ attempt.ended = NoEnd
    /\ Fail(Retryable)
    /\ UNCHANGED <<gateway, socket, runs, lifetime, saving, session, loop, stored, cached, history>>

\* authenticate, once HELLO came; a fresh Identify waits for its permit.
Authenticate ==
    /\ attempt.phase = "starting" /\ attempt.hello /\ ~attempt.sent /\ attempt.ended = NoEnd
    /\ attempt' = [attempt EXCEPT !.sent = TRUE]
    /\ up' = IF attempt.resuming THEN [op |-> "resume", id |-> session.id, sequence |-> session.sequence]
             ELSE [op |-> "identify"]
    /\ UNCHANGED <<gateway, wire, runs, lifetime, saving, state, session, loop, stored, cached, history>>

\* Mutant of DeadlineRuns: only authentication is timed.
TimedAfterHello == attempt.phase = "starting" /\ attempt.hello /\ ~attempt.ready
DeadlineRuns == attempt.phase \in {"connecting", "starting"} /\ ~attempt.ready

\* The deadline passes before readiness, or the permit to Identify is refused.
StartupFails ==
    /\ DeadlineRuns /\ attempt.ended = NoEnd
    /\ attempt' = [attempt EXCEPT !.ended = Retryable]
    /\ UNCHANGED <<gateway, socket, runs, lifetime, saving, state, session, loop, stored, cached, history>>

\* Mutant of Backwards: a replayed dispatch is not recognised.
NeverBackwards(frame) == FALSE
Backwards(frame) == frame.sequence < session.sequence

\* A dispatch this attempt may not receive now.
Unexpected(frame) ==
    \/ ~attempt.hello
    \/ frame.type = "ready" /\ (attempt.ready \/ attempt.resuming)
    \/ frame.type = "resumed" /\ (attempt.ready \/ ~attempt.resuming)
    \/ frame.type = "dispatch" /\ ~attempt.resuming /\ ~attempt.ready
    \/ frame.type # "ready" /\ Backwards(frame)

\* Mutant of CachedAfter: a new session keeps what the old one left.
KeepCached(frame) == cached \cup {<<frame.id, frame.sequence>>}
\* onSessionStart releases the caches before the new session's dispatches are applied.
CachedAfter(frame) ==
    (IF frame.type = "ready" THEN {} ELSE cached) \cup {<<frame.id, frame.sequence>>}

Handed(frame) == [sequence |-> frame.sequence, again |-> frame.again]

\* A dispatch, READY and RESUMED included: raw subscribers see them all, unless events are refused.
ReceiveDispatch(frame) ==
    /\ frame.type \in {"ready", "resumed", "dispatch"}
    /\ IF Unexpected(frame)
       THEN Fail(ProtocolAnomaly) /\ UNCHANGED <<session, cached, offered>>
       ELSE /\ session' = [id |-> IF frame.type = "ready" THEN frame.id ELSE session.id, sequence |-> frame.sequence]
            /\ cached' = CachedAfter(frame)
            /\ offered' = IF lifetime = "on"
                          THEN [offered EXCEPT ![frame.id] = Append(@, Handed(frame))] ELSE offered
            /\ IF frame.type # "dispatch" THEN /\ attempt' = [attempt EXCEPT !.ready = TRUE, !.inTime = attempt.ended = NoEnd]
                    /\ UNCHANGED state
               ELSE \/ UNCHANGED <<attempt, state>>
                    \/ Terminates /\ Fail(Permanent)      \* malformed

Meaning(type) ==
    CASE type \in {"reconnect", "close"} -> Retryable
      [] type = "invalid" -> Reset
      [] type = "odd" -> ProtocolAnomaly
      \* a close code that asks for Identify
      [] type = "refuse" -> IF attempt.resuming /\ ~attempt.ready THEN Reset ELSE Retryable
      [] type \in {"local", "forbid"} -> Permanent

\* processMessage and onClose, until the attempt stops
Receive ==
    /\ Reachable /\ wire # <<>>
    /\ wire' = Tail(wire)
    /\ LET frame == Head(wire) IN
       \/ /\ frame.type = "hello"
          /\ attempt' = [attempt EXCEPT !.hello = TRUE]
          /\ UNCHANGED <<state, session, cached, offered>>
       \/ ReceiveDispatch(frame)
       \/ /\ frame.type \in Disturbances
          /\ Fail(Meaning(frame.type))
          /\ UNCHANGED <<session, cached, offered>>
    /\ UNCHANGED <<gateway, up, runs, lifetime, saving, loop, stored, closedAs>>

\* onReady runs on the loop's fiber, some time after the frame, and even if a failure followed it.
BecomeReady ==
    /\ attempt.phase = "starting" /\ attempt.inTime
    /\ attempt' = [attempt EXCEPT !.phase = "running"]
    /\ loop' = [loop EXCEPT !.restored = FALSE, !.established = TRUE, !.connected = TRUE]
    /\ state' = ShardState("Connected")
    /\ UNCHANGED <<gateway, socket, runs, lifetime, saving, session, stored, cached, history>>

-----------------------------------------------------------------------------
(* The end of an attempt *)

\* preserveSession: close with 4000, which keeps the session, instead of 1000, which destroys it
Preserves(wanted) == Resumable /\ wanted

\* The socket is closed; it may be gone already, or be terminated before the gateway reads the code.
CloseSocket(preserve, reason) ==
    /\ wire' = <<>> /\ up' = NoCommand /\ bound' = NoId
    /\ closedAs' = [i \in Ids |-> IF i # session.id THEN closedAs[i] ELSE IF preserve THEN "kept" ELSE reason]

EndAttempt ==
    /\ attempt.phase \in {"connecting", "starting", "running"} /\ attempt.ended # NoEnd
    /\ CloseSocket(Preserves(attempt.ended.retry /\ ~attempt.ended.reset),
                   IF attempt.ended.retry THEN "reset" ELSE "failed")
    /\ attempt' = [attempt EXCEPT !.phase = "closing"]
    /\ UNCHANGED <<last, runs, lifetime, saving, state, session, loop, stored, cached, offered>>

\* Mutant of AfterReset: the loop offers the same session again.
NeverReset(failure) == session
AfterReset(failure) == IF failure.reset THEN NoSession ELSE session

MayRetry(failure, anomalies, attempts) ==
    /\ failure.retry /\ anomalies < ProtocolFailureLimit
    /\ loop.established \/ attempts < MaxStartupAttempts

\* recordAttemptEnd, stopRetrying, enterRecovery.  It may also stop for a deadline or a recovery schedule.
AfterFailure(failure, attempts) ==
    \E healthy \in {FALSE, loop.connected} : \E goesOn \in BOOLEAN :
        LET anomalies == (IF healthy THEN 0 ELSE loop.anomalies) + (IF failure.end = "protocol" THEN 1 ELSE 0)
        IN
        /\ goesOn => MayRetry(failure, anomalies, attempts)
        /\ session' = AfterReset(failure)
        /\ cached' = IF (loop.established \/ loop.restored) /\ session'.id = NoId THEN {} ELSE cached
        /\ loop' = [loop EXCEPT !.attempts = attempts, !.anomalies = anomalies,
                                !.connected = IF goesOn /\ loop.established THEN FALSE ELSE @]
        /\ state' = IF goesOn /\ loop.established THEN ShardState("Recovering") ELSE state
        /\ attempt' = IF goesOn THEN Idle ELSE [Idle EXCEPT !.phase = "off"]

\* The socket has closed.  A pending interruption takes over from the failure.
Closed ==
    /\ attempt.phase = "closing"
    /\ \/ /\ attempt.ended # NoEnd
          /\ AfterFailure(attempt.ended, loop.attempts + 1)
       \/ /\ lifetime = "closing"
          /\ attempt' = [Idle EXCEPT !.phase = "off"]
          /\ UNCHANGED <<state, session, loop, cached>>
    /\ UNCHANGED <<gateway, socket, runs, lifetime, saving, stored, history>>

\* Discovery fails; a rate limit with a wait does not count as an attempt.
DiscoveryFails(failure) ==
    /\ lifetime # "down" /\ attempt.phase = "idle" /\ ~loop.known /\ loop.attempts < MaxAttempts
    /\ \E counted \in IF failure.retry THEN {0, 1} ELSE {1} : AfterFailure(failure, loop.attempts + counted)
    /\ UNCHANGED <<gateway, socket, runs, lifetime, saving, stored, history>>

-----------------------------------------------------------------------------
(* Shutdown, saving and crashes *)

\* A draining shutdown refuses events while the connection stays.
Drain ==
    /\ lifetime = "on"
    /\ lifetime' = "draining"
    /\ UNCHANGED <<gateway, socket, runs, saving, state, session, loop, attempt, stored, cached, history>>

SavesOnClose == Persistent /\ state = "Connected"

\* #closeAfterDrain
Close ==
    /\ lifetime \in {"on", "draining"}
    /\ lifetime' = "closing" /\ saving' = SavesOnClose /\ state' = "Closing"
    /\ UNCHANGED <<gateway, socket, runs, session, loop, attempt, stored, cached, history>>

\* Mutant of Interruptible: a call of the store is waited for.
StoreIsWaitedFor == {"idle", "connecting", "starting", "running"}
Interruptible == {"idle", "marking", "connecting", "starting", "running"}

\* The worker's interruption reaches the shard.
Interrupt ==
    /\ lifetime = "closing" /\ attempt.phase \in Interruptible
    /\ \/ /\ attempt.phase \in {"idle", "marking"}
          /\ attempt' = [Idle EXCEPT !.phase = "off"]
          /\ UNCHANGED <<bound, socket, closedAs>>
       \/ /\ attempt.phase \in {"connecting", "starting", "running"}
          /\ CloseSocket(Preserves(saving), "shutdown")
          /\ attempt' = [attempt EXCEPT !.phase = "closing", !.ended = NoEnd]
    /\ UNCHANGED <<last, runs, lifetime, saving, state, session, loop, stored, cached, offered>>

\* History of a session saved although a failure had closed its socket for good.
SavedAfter(code) == CASE code = "reset" -> "resetSaved" [] code = "failed" -> "failedSaved" [] OTHER -> code

\* The worker is over: #saveSessions after a shutdown, nothing after a permanent failure.
Finish ==
    /\ attempt.phase = "off"
    /\ IF lifetime = "closing" /\ saving /\ Resumable
       THEN /\ Saved(session) \/ NotSaved(session)
            /\ closedAs' = [closedAs EXCEPT ![session.id] = SavedAfter(@)]
       ELSE UNCHANGED <<stored, closedAs>>
    /\ lifetime' = "down" /\ saving' = FALSE /\ state' = "Disconnected"
    /\ session' = NoSession /\ loop' = Fresh /\ attempt' = Idle /\ cached' = {}
    /\ UNCHANGED <<gateway, socket, runs, offered>>

\* The process dies.  The gateway sees an abrupt end and keeps the session.
Crash ==
    /\ lifetime # "down"
    /\ bound' = NoId /\ wire' = <<>> /\ up' = NoCommand
    /\ lifetime' = "down" /\ saving' = FALSE /\ state' = "Disconnected"
    /\ session' = NoSession /\ loop' = Fresh /\ attempt' = Idle /\ cached' = {}
    /\ UNCHANGED <<last, runs, stored, history>>

GatewayStep ==
    \/ \E i \in Ids : AnswerIdentify(i)
    \/ AnswerResume \/ Dispatch \/ Repeat
    \/ \E type \in Disturbances : Disturb(type)

ClientStep ==
    \/ Discover \/ LoadSession \/ MarkUsed \/ Connect \/ Opened
    \/ Authenticate \/ StartupFails \/ Receive \/ BecomeReady
    \/ EndAttempt \/ Closed \/ Interrupt \/ Finish
    \/ \E failure \in {Retryable, Permanent} : DiscoveryFails(failure)

Next == GatewayStep \/ ClientStep \/ Start \/ Lose \/ Unresponsive \/ LateWrite \/ Drain \/ Close \/ Crash

Spec == Init /\ [][Next]_vars
\* The client's timers and fibers run, and a pending interruption is delivered at the next point
\* that can be interrupted.  The gateway, the store and the network promise nothing.
FairSpec ==
    /\ Spec
    /\ WF_vars(StartupFails) /\ WF_vars(BecomeReady)
    /\ WF_vars(EndAttempt) /\ WF_vars(Closed) /\ WF_vars(Finish)
    /\ SF_vars(Interrupt)

-----------------------------------------------------------------------------
(* Properties *)

Sessions == [id : 0..MaxSessions, sequence : 0..MaxSequence]
Ends == [end : {"none", "other", "protocol"}, retry : BOOLEAN, reset : BOOLEAN]

\* Every variable has its type, of the gateway's record to the attempt's locals.
TypeOk ==
    /\ bound \in 0..MaxSessions /\ last \in [Ids -> 0..MaxSequence]
    /\ runs \in 0..MaxRuns /\ lifetime \in {"down", "on", "draining", "closing"} /\ saving \in BOOLEAN
    /\ state \in {"Disconnected", "Connecting", "Connected", "Recovering", "Closing"}
    /\ session \in Sessions /\ store \in Sessions
    /\ attempt.phase \in {"idle", "marking", "connecting", "starting", "running", "closing", "off"}
    /\ attempt.ended \in Ends
    /\ loop.attempts \in 0..MaxAttempts /\ loop.anomalies \in 0..ProtocolFailureLimit
    /\ cached \subseteq Ids \X (1..MaxSequence)
    /\ \A i \in Ids : closedAs[i] \in {"open", "kept", "reset", "failed", "shutdown", "resetSaved", "failedSaved"}

\* Dispatches are never handed to the subscribers out of order, and one that was handed out comes
\* again only when the gateway gave its number to another frame: no Resume asks for it a second
\* time, in the process that received it or in one that resumes what an earlier one saved.
OfferedInOrder ==
    \A i \in Ids : \A m, n \in DOMAIN offered[i] : m < n =>
        \/ offered[i][m].sequence < offered[i][n].sequence
        \/ offered[i][m].sequence = offered[i][n].sequence /\ offered[i][n].again

\* The caches reflect one unbroken run of the current session's dispatches, up to the sequence a
\* Resume would ask from: nothing of an earlier session survives and no dispatch is skipped.
CacheCurrent ==
    Resumable /\ lifetime # "down" =>
        \E from \in 1..(session.sequence + 1) :
            cached = {session.id} \X (from..session.sequence)

\* A resumable snapshot is the last word on its session: no later dispatch of it was handed out,
\* and no client uses it.
SavedIsFinal ==
    store # NoSnapshot =>
        /\ \A n \in DOMAIN offered[store.id] : offered[store.id][n].sequence <= store.sequence
        /\ session.id # store.id

\* A session whose socket was closed with the code that destroys it, after an anomaly, a permanent
\* failure or by a shutdown, is never offered to the gateway again, in the process that closed it
\* or in a later one.  The exception is a session whose shutdown saved it although a failure had
\* closed it: a later process offers it until it closes a socket of that session itself.
ResumesKeptSession == up.op = "resume" => closedAs[up.id] \in {"open", "kept", "resetSaved", "failedSaved"}

\* What a shutdown saves has no open socket, and the shutdown did not close it with the code that
\* destroys it.  A failure may have: see NotSavedAfterFailure.
SavedIsClosed == store # NoSnapshot => closedAs[store.id] \in {"kept", "resetSaved", "failedSaved"}

\* Across runs, crashes and late writes of the store, a snapshot names a session that ended with
\* it, whose socket is closed, and with the code that keeps it if the shutdown closed it; a session
\* that a failure closed for good can still be saved.
SavedIsSound == TypeOk /\ SavedIsFinal /\ SavedIsClosed

\* Restarts lose nothing of the above: what one process saves, a crash leaves behind or a late
\* write brings back is sound, and what the next process makes of it repeats no dispatch by
\* itself and revives no session.
RestartsAreSound == SavedIsSound /\ OfferedInOrder /\ ResumesKeptSession

\* "Resumable snapshots are saved only during shutdown ... and not after a permanent connection
\* failure" (projects/sdk/src/sharding.ts:145).
NotSavedAfterFailure == store # NoSnapshot => closedAs[store.id] # "failedSaved"

\* A shutdown ends, whatever the gateway, the store and a half-open connection do.
ShutdownEnds == lifetime = "closing" ~> lifetime = "down"

\* No attempt waits forever for readiness.
AttemptSettles == attempt.phase \in {"connecting", "starting"} ~> attempt.phase \notin {"connecting", "starting"}

=============================================================================
