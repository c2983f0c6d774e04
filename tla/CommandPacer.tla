---------------------------- MODULE CommandPacer ----------------------------
(***************************************************************************)
(* The paced path of outbound gateway commands                             *)
(* (projects/sdk/src/internal/gateway/commands.ts): at most Budget sends in *)
(* any rolling Window of one gateway session, in submission order.  The     *)
(* send history belongs to the session and outlives a socket; the queue and *)
(* its loop belong to one socket.                                           *)
(*                                                                         *)
(* Time is the monotonic clock in whole units.  A command's settled callback *)
(* is the last thing its dispatch does, so a command it submits is the next  *)
(* Submit.  Heartbeat, Identify and Resume are not paced and not here.       *)
(***************************************************************************)
EXTENDS Integers, Sequences, FiniteSets, SequencesExt

CONSTANTS
    Commands,      \* each is submitted at most once
    Application,   \* those of gateway.send; the others are internal
    Budget,        \* applicationCommandBudget
    Window,        \* commandWindowMs
    MaxPending,    \* maxPendingApplicationCommands and maxPendingInternalCommands
    Horizon        \* bound of the exploration: the clock stops here

ASSUME PacerAssumption ==
    /\ IsFiniteSet(Commands) /\ Application \subseteq Commands
    /\ Budget \in Nat \ {0} /\ Window \in Nat \ {0} /\ MaxPending \in Nat /\ Horizon \in Nat

VARIABLES
    now,                  \* the clock
    sentAt,               \* session.commandSentAt
    queue,                \* unsent commands in submission order
    pendingApplication,   \* counters of the limits
    pendingInternal,
    closed,               \* the pacer takes no more commands
    open,                 \* the socket is open
    loop, wake, wakeAt,   \* run: "waiting", "looking" or "sleeping" until wakeAt
    fate,                 \* command -> "new", "queued", "sent", "refused", "withdrawn" or "failed"
    accepted,             \* history: commands the pacer took, in order
    log                   \* history: when the session's commands were sent

counters == <<pendingApplication, pendingInternal>>
looping == <<loop, wake, wakeAt>>
vars == <<now, sentAt, queue, counters, closed, open, looping, fate, accepted, log>>

Init ==
    /\ now = 0 /\ sentAt = <<>> /\ queue = <<>>
    /\ pendingApplication = 0 /\ pendingInternal = 0
    /\ closed = FALSE /\ open = TRUE
    /\ loop = "waiting" /\ wake = FALSE /\ wakeAt = 0
    /\ fate = [c \in Commands |-> "new"]
    /\ accepted = <<>> /\ log = <<>>

-----------------------------------------------------------------------------

Expired(time) == time + Window <= now

\* prune: what remains of the send history once the expired sends at its front are gone
Rests ==
    {SubSeq(sentAt, n + 1, Len(sentAt)) : n \in
        {k \in 0..Len(sentAt) : /\ \A i \in 1..k : Expired(sentAt[i])
                                /\ k < Len(sentAt) => ~Expired(sentAt[k + 1])}}

\* release and cancel: the counter of a command's kind
Count(c, change) ==
    /\ pendingApplication' = pendingApplication + (IF c \in Application THEN change ELSE 0)
    /\ pendingInternal' = pendingInternal + (IF c \in Application THEN 0 ELSE change)

\* send and settled.  A socket that is not open takes nothing.
Transmit(c, history) ==
    IF open
    THEN /\ sentAt' = Append(history, now) /\ log' = Append(log, now)
         /\ fate' = [fate EXCEPT ![c] = "sent"]
    ELSE sentAt' = history /\ fate' = [fate EXCEPT ![c] = "failed"] /\ UNCHANGED log

-----------------------------------------------------------------------------
(* Submission *)

\* Mutant of MaySendNow: a command overtakes those that wait.
Overtakes(history) == Len(history) < Budget
MaySendNow(history) == queue = <<>> /\ Len(history) < Budget

\* Mutant of WakesLoop: queueing does not wake the loop.
NeverWakes == FALSE
WakesLoop == TRUE

Pending(c) == IF c \in Application THEN pendingApplication ELSE pendingInternal

Refuse(c) ==
    /\ fate[c] = "new" /\ (closed \/ Pending(c) >= MaxPending)
    /\ fate' = [fate EXCEPT ![c] = "refused"]
    /\ UNCHANGED <<now, sentAt, queue, counters, closed, open, looping, accepted, log>>

\* enqueue: history is pruned only if nothing waits.
SendNow(c) ==
    /\ fate[c] = "new" /\ ~closed /\ Pending(c) < MaxPending
    /\ \E rest \in Rests :
        /\ MaySendNow(rest)
        /\ Transmit(c, rest)
    /\ accepted' = Append(accepted, c)
    /\ UNCHANGED <<now, queue, counters, closed, open, looping>>

Wait(c) ==
    /\ fate[c] = "new" /\ ~closed /\ Pending(c) < MaxPending
    /\ \E rest \in Rests :
        /\ ~MaySendNow(rest)
        /\ sentAt' = IF queue = <<>> THEN rest ELSE sentAt
    /\ queue' = Append(queue, c) /\ Count(c, 1)
    /\ fate' = [fate EXCEPT ![c] = "queued"] /\ accepted' = Append(accepted, c)
    /\ wake' = (wake \/ WakesLoop)
    /\ UNCHANGED <<now, closed, open, loop, wakeAt, log>>

\* Mutant of Cancellable: a command that is no longer pending is released again.
AnyTaken(c) == fate[c] \in {"queued", "failed"}
Cancellable(c) == fate[c] = "queued"

\* The owner withdraws a command, or the caller of submit is interrupted.
Cancel(c) ==
    /\ Cancellable(c)
    /\ queue' = IF \E i \in 1..Len(queue) : queue[i] = c
                THEN RemoveAt(queue, CHOOSE i \in 1..Len(queue) : queue[i] = c) ELSE queue
    /\ Count(c, -1) /\ fate' = [fate EXCEPT ![c] = "withdrawn"]
    /\ UNCHANGED <<now, sentAt, closed, open, looping, accepted, log>>

-----------------------------------------------------------------------------
(* The loop of the socket: run *)

Wake ==
    /\ loop = "waiting" /\ wake
    /\ wake' = FALSE /\ loop' = "looking"
    /\ UNCHANGED <<now, sentAt, queue, counters, closed, open, wakeAt, fate, accepted, log>>

Look ==
    /\ loop = "looking"
    /\ IF queue = <<>> \/ closed
       THEN loop' = "waiting" /\ UNCHANGED <<sentAt, queue, counters, wakeAt, fate, log>>
       ELSE \E rest \in Rests :
            /\ \/ /\ Len(rest) < Budget
                  /\ Transmit(Head(queue), rest)
                  /\ queue' = Tail(queue) /\ Count(Head(queue), -1)
                  /\ UNCHANGED <<loop, wakeAt>>
               \/ /\ Len(rest) >= Budget
                  /\ sentAt' = rest
                  /\ loop' = "sleeping" /\ wakeAt' = rest[1] + Window
                  /\ UNCHANGED <<queue, counters, fate, log>>
    /\ UNCHANGED <<now, closed, open, wake, accepted>>

Slept ==
    /\ loop = "sleeping" /\ now >= wakeAt
    /\ loop' = "looking"
    /\ UNCHANGED <<now, sentAt, queue, counters, closed, open, wake, wakeAt, fate, accepted, log>>

-----------------------------------------------------------------------------
(* The attempt *)

SocketCloses ==
    /\ open /\ open' = FALSE
    /\ UNCHANGED <<now, sentAt, queue, counters, closed, looping, fate, accepted, log>>

\* close: the attempt ends and what waits fails.
Close ==
    /\ ~closed /\ closed' = TRUE
    /\ fate' = [c \in Commands |-> IF fate[c] = "queued" THEN "failed" ELSE fate[c]]
    /\ queue' = <<>> /\ pendingApplication' = 0 /\ pendingInternal' = 0
    /\ UNCHANGED <<now, sentAt, open, looping, accepted, log>>

\* Mutant of Kept: the history starts again with every socket.
NeverKept(resuming) == <<>>
Kept(resuming) == IF resuming THEN sentAt ELSE <<>>

\* The next socket of the shard has a pacer of its own; Identify starts a new session.
Reconnect(resuming) ==
    /\ closed /\ closed' = FALSE /\ open' = TRUE
    /\ sentAt' = Kept(resuming)
    /\ log' = IF resuming THEN log ELSE <<>>
    /\ loop' = "waiting" /\ wake' = FALSE /\ wakeAt' = 0
    /\ accepted' = <<>>
    /\ UNCHANGED <<now, queue, counters, fate>>

Tick ==
    /\ now < Horizon /\ now' = now + 1
    /\ UNCHANGED <<sentAt, queue, counters, closed, open, looping, fate, accepted, log>>

Next ==
    \/ \E c \in Commands : Refuse(c) \/ SendNow(c) \/ Wait(c) \/ Cancel(c)
    \/ Wake \/ Look \/ Slept
    \/ SocketCloses \/ Close \/ Reconnect(TRUE) \/ Reconnect(FALSE)
    \/ Tick

Spec == Init /\ [][Next]_vars

\* The loop has a step to take now.
Due ==
    \/ loop = "waiting" /\ wake
    \/ loop = "looking"
    \/ loop = "sleeping" /\ now >= wakeAt
\* For liveness: the loop's fiber runs, its timer fires, and time passes but not ahead of them.
FairSpec ==
    /\ Init /\ [][Next /\ (Due => now' = now)]_vars
    /\ WF_vars(Wake) /\ WF_vars(Look) /\ WF_vars(Slept) /\ WF_vars(Tick /\ ~Due)

-----------------------------------------------------------------------------
(* Properties *)

Fates == {"new", "queued", "sent", "refused", "withdrawn", "failed"}

\* Every variable has its type.
TypeOk ==
    /\ now \in Nat /\ sentAt \in Seq(Nat) /\ queue \in Seq(Commands)
    /\ pendingApplication \in 0..MaxPending /\ pendingInternal \in 0..MaxPending
    /\ closed \in BOOLEAN /\ open \in BOOLEAN
    /\ loop \in {"waiting", "looking", "sleeping"} /\ wake \in BOOLEAN /\ wakeAt \in Nat
    /\ fate \in [Commands -> Fates] /\ accepted \in Seq(Commands) /\ log \in Seq(Nat)

\* "One per-session budget of applicationCommandBudget sends in any rolling commandWindowMs
\* window, retained across Resume" (commands.ts:6-8): Budget sends later, a Window has passed.
WithinBudget ==
    \A i \in 1..Len(log) : i + Budget <= Len(log) => log[i] + Window <= log[i + Budget]

\* The counters that refuse a submission count exactly the waiting commands of their kind.
CountersExact ==
    /\ pendingApplication = Cardinality({c \in Commands : fate[c] = "queued" /\ c \in Application})
    /\ pendingInternal = Cardinality({c \in Commands : fate[c] = "queued" /\ c \notin Application})

\* Commands are sent in submission order: while one waits, none that was taken later is sent.
SubmissionOrder ==
    \A m, n \in 1..Len(accepted) : m < n /\ fate[accepted[m]] = "queued" => fate[accepted[n]] # "sent"

\* A command that waits is sent, withdrawn or failed, if the clock still runs long enough for
\* those before it.
Settles ==
    \A c \in Commands :
        fate[c] = "queued" /\ now + Window * (Cardinality(Commands) + 1) <= Horizon ~> fate[c] # "queued"

=============================================================================
