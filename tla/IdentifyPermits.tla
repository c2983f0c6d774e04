-------------------------- MODULE IdentifyPermits --------------------------
(***************************************************************************)
(* The permits with which a supervisor lets its child processes start new   *)
(* gateway sessions, one account-wide Identify at a time and spaced          *)
(* (SupervisorOwner and ChildBridge in                                      *)
(* projects/sdk/src/internal/supervisor.ts): messages in both directions,    *)
(* an application coordinator that answers late, children that cancel,       *)
(* freeze, lose their channel, exit and are restarted.                       *)
(*                                                                         *)
(* A request has one number over all children and generations, where the     *)
(* code has a slot, a generation and a number: a message carries it, and      *)
(* the channels of a process go with it.  Time is counted in ages that stop   *)
(* at Spacing.                                                              *)
(***************************************************************************)
EXTENDS Integers, Sequences, FiniteSets, SequencesExt

CONSTANTS
    Children,       \* child processes, one slot each
    None,           \* no outstanding request
    Coordinated,    \* which supervisors there are: with (TRUE) or without a coordinator
    Spacing,        \* minimumSpacingMs of a supervisor without a coordinator
    MaxAttempts,    \* restart.maxAttempts
    MaxRequests     \* bound of the exploration: permits asked for

ASSUME PermitsAssumption ==
    /\ IsFiniteSet(Children) /\ Coordinated \subseteq BOOLEAN
    /\ Spacing \in Nat \ {0} /\ MaxAttempts \in Nat /\ MaxRequests \in Nat
    /\ None \notin [child : Children, request : Nat, granted : BOOLEAN, muted : BOOLEAN, stalled : BOOLEAN]

VARIABLES
    \* the parent
    coordinated,    \* configuration.coordinator is given
    stopping,       \* #stopping: shutdown or failure began
    pending,        \* #pending: [child, request]
    outstanding,    \* #outstanding: [child, request, granted, muted, stalled], or None
    grantTimer,     \* #grantTimer is set
    age,            \* how much of the spacing passed since #lastIdentifyAt
    permits,        \* requests whose coordinator promise has not settled
    slot,           \* child -> "starting", "greeted" (hello), "running" (ready), "restarting" or "over"
    restarts,       \* child -> slot.restarts
    lost,           \* children whose disconnectTimer is set
    stopTimer,      \* children asked to stop, with the timer that kills them
    \* the children and the channels
    process,        \* child -> "none", "booting", "greeting" (bridge open), "assigned", "on" (ready),
                    \*          "stopping" or "ended" (bridge closed)
    linked,         \* children whose channel is open
    up, down,       \* child -> messages [type, request] to and from the parent
    asking,         \* child -> the request its client waits on, 0 when none
    cancelled,      \* child -> requests it withdrew and the parent did not confirm
    \* history
    requests,       \* requests made
    socketAge       \* how much of the spacing passed since the last Identify

parentVars == <<coordinated, stopping, slot, restarts, lost, stopTimer>>
grantVars == <<pending, outstanding, grantTimer, permits>>
childVars == <<process, linked, asking, cancelled>>
history == <<requests, socketAge>>
vars == <<parentVars, grantVars, age, childVars, up, down, history>>

Message(type, request) == [type |-> type, request |-> request]

\* The first start is over and every child is ready; a restarted one starts again.
Init ==
    /\ coordinated \in Coordinated /\ stopping = FALSE
    /\ pending = <<>> /\ outstanding = None /\ grantTimer = FALSE /\ age = Spacing /\ permits = {}
    /\ slot = [c \in Children |-> "running"] /\ restarts = [c \in Children |-> 0]
    /\ lost = {} /\ stopTimer = {} /\ linked = Children
    /\ process = [c \in Children |-> "on"]
    /\ up = [c \in Children |-> <<>>] /\ down = [c \in Children |-> <<>>]
    /\ asking = [c \in Children |-> 0] /\ cancelled = [c \in Children |-> {}]
    /\ requests = 0 /\ socketAge = Spacing

\* The spacing from an Identify on. With a coordinator it is 0, so it is over at once.
FromIdentify == IF coordinated THEN Spacing ELSE 0

Alive(c) == process[c] # "none"
Holds(c) == outstanding # None /\ outstanding.child = c
HoldsRequest(c, r) == Holds(c) /\ outstanding.request = r

\* #send to a child: nothing reaches one without a channel, or whose bridge closed.
Reached == {c \in linked : process[c] # "ended"}
Sent(channels, c, message) ==
    IF c \in Reached THEN [channels EXCEPT ![c] = Append(@, message)] ELSE channels

\* #pending.filter: the queue without these entries, as the one choice of kept places in order
RequestsOf(c) == {p \in ToSet(pending) : p.child = c}
Left(gone) ==
    LET kept == {i \in DOMAIN pending : pending[i] \notin gone}
        places == {at \in [1..Cardinality(kept) -> kept] : \A i, j \in DOMAIN at : i < j => at[i] < at[j]}
    IN {[i \in DOMAIN at |-> pending[at[i]]] : at \in places}

-----------------------------------------------------------------------------
(* Granting *)

\* #scheduleGrant and #grant, over the queue and the channels the caller left: the next request
\* becomes outstanding once the spacing since the last Identify is over.
Schedule(queue, current, timer, since, unsettled, channels) ==
    IF timer \/ current # None \/ queue = <<>> \/ since < Spacing
    THEN /\ pending' = queue /\ outstanding' = current /\ permits' = unsettled /\ down' = channels
         /\ grantTimer' = (timer \/ (current = None /\ queue # <<>>))
    ELSE LET next == Head(queue)
         IN /\ pending' = Tail(queue) /\ grantTimer' = FALSE
            /\ outstanding' = [child |-> next.child, request |-> next.request,
                               granted |-> ~coordinated, muted |-> FALSE, stalled |-> FALSE]
            /\ IF coordinated
               THEN permits' = unsettled \cup {next.request} /\ down' = channels
               ELSE /\ permits' = unsettled
                    /\ down' = Sent(channels, next.child, Message("grant", next.request))

GrantTimerFires ==
    /\ grantTimer /\ age = Spacing
    /\ Schedule(pending, outstanding, FALSE, age, permits, down)
    /\ UNCHANGED <<parentVars, age, childVars, up, history>>

\* The coordinator answers; nobody listens when the permit was aborted or the request is not the
\* outstanding one any more.
Settles(r) == r \in permits
\* Mutant of Current: an answer is taken for whatever request is outstanding when it comes.
CurrentWhatever(r) == outstanding # None /\ ~outstanding.muted
Current(r) == outstanding # None /\ outstanding.request = r /\ ~outstanding.muted

PermitGiven(r) ==
    /\ Settles(r) /\ permits' = permits \ {r}
    /\ IF Current(r)
       THEN /\ outstanding' = [outstanding EXCEPT !.granted = TRUE]
            /\ down' = Sent(down, outstanding.child, Message("grant", r))
       ELSE UNCHANGED <<outstanding, down>>
    /\ UNCHANGED <<parentVars, pending, grantTimer, age, childVars, up, history>>

PermitRefused(r) ==
    /\ Settles(r)
    /\ IF Current(r)
       THEN Schedule(pending, None, grantTimer, age, permits \ {r},
                     Sent(down, outstanding.child, Message("denied", r)))
       ELSE permits' = permits \ {r} /\ UNCHANGED <<pending, outstanding, grantTimer, down>>
    /\ UNCHANGED <<parentVars, age, childVars, up, history>>

-----------------------------------------------------------------------------
(* Stopping *)

\* #requestStop of these children, over the channels the caller left: each is told once.
Stops(children, channels) ==
    LET told == children \ stopTimer
    IN /\ stopTimer' = stopTimer \cup told
       /\ down' = [c \in Children |-> IF c \in told \cap Reached
                        THEN Append(channels[c], Message("shutdown", 0)) ELSE channels[c]]

\* #fail and #beginShutdown: nothing is granted any more and every child stops; these are running.
BeginsShutdown(left, current, channels) ==
    /\ stopping' = TRUE
    /\ pending' = <<>> /\ grantTimer' = FALSE
    /\ outstanding' = IF current = None \/ left = {} THEN None ELSE [current EXCEPT !.muted = TRUE]
    /\ slot' = [c \in Children |-> IF c \in left THEN slot[c] ELSE "over"]
    /\ lost' = {} /\ up' = [c \in Children |-> <<>>]
    /\ Stops(left, channels)
    /\ UNCHANGED <<coordinated, permits>>

Running == {c \in Children : Alive(c)}

\* The application shuts the supervisor down.
ShutDown ==
    /\ ~stopping
    /\ BeginsShutdown(Running, outstanding, down)
    /\ UNCHANGED <<restarts, age, childVars, history>>

\* startupTimeoutMs passes before the child is ready.
StartupExpires(c) ==
    /\ ~stopping /\ slot[c] \in {"starting", "greeted"} /\ Alive(c) /\ c \notin lost
    /\ BeginsShutdown(Running, outstanding, down)
    /\ UNCHANGED <<restarts, age, childVars, history>>

\* The child did not confirm its Identify in time: it is stopped, and stays outstanding until it exits.
AckExpires ==
    /\ ~stopping /\ outstanding # None
    /\ outstanding.granted /\ ~outstanding.muted /\ ~outstanding.stalled
    /\ outstanding' = [outstanding EXCEPT !.stalled = TRUE]
    /\ Stops({outstanding.child}, down)
    /\ UNCHANGED <<coordinated, stopping, slot, restarts, lost, pending, grantTimer, permits, age,
                   childVars, up, history>>

\* #disconnect: the channel closes, with what the child had sent last. Its requests are dropped, and
\* what it was granted stays outstanding, because it may still identify.
Disconnects(c) ==
    /\ c \in linked /\ linked' = linked \ {c}
    /\ up' = [up EXCEPT ![c] = <<>>]
    /\ IF stopping THEN UNCHANGED <<lost, pending, outstanding>>
       ELSE /\ lost' = lost \cup {c}
            /\ pending' \in Left(RequestsOf(c))
            /\ outstanding' = IF Holds(c) THEN [outstanding EXCEPT !.muted = TRUE] ELSE outstanding
    /\ UNCHANGED <<coordinated, stopping, slot, restarts, stopTimer, grantTimer, permits, age,
                   process, asking, cancelled, down, history>>

\* It still runs when shutdownTimeoutMs passed: the supervisor fails and kills it.
DisconnectExpires(c) ==
    /\ c \in lost
    /\ BeginsShutdown(Running, outstanding, down)
    /\ UNCHANGED <<restarts, age, childVars, history>>

\* Mutant of AfterExit: the turn of a child that exits stays taken.
TurnKept(c) == outstanding
\* #exit gives the turn of the child up,
AfterExit(c) == IF Holds(c) THEN None ELSE outstanding
\* Mutant of SinceExit: the Identify that may just have been sent is not counted.
SinceLastSent(c) == age
\* and counts an Identify the child may just have sent.
SinceExit(c) == IF Holds(c) THEN FromIdentify ELSE age

\* #exit: whatever the child had is gone; it starts again later, or the supervisor stops.
Exits(c) ==
    LET rest == [down EXCEPT ![c] = <<>>]
        current == AfterExit(c)
        since == SinceExit(c)
        left == Running \ {c}
    IN /\ Alive(c)
       /\ process' = [process EXCEPT ![c] = "none"]
       /\ linked' = linked \ {c}
       /\ asking' = [asking EXCEPT ![c] = 0] /\ cancelled' = [cancelled EXCEPT ![c] = {}]
       /\ age' = since
       /\ \/ /\ stopping
             /\ slot' = [slot EXCEPT ![c] = "over"]
             /\ outstanding' = (IF left = {} THEN None ELSE current)
             /\ down' = rest /\ stopTimer' = stopTimer \ {c} /\ lost' = lost \ {c}
             /\ UNCHANGED <<coordinated, stopping, restarts, pending, grantTimer, permits, up>>
          \/ /\ ~stopping /\ restarts[c] >= MaxAttempts
             /\ BeginsShutdown(left, current, rest)
             /\ UNCHANGED restarts
          \/ /\ ~stopping /\ restarts[c] < MaxAttempts
             /\ restarts' = [restarts EXCEPT ![c] = @ + 1]
             /\ slot' = [slot EXCEPT ![c] = "restarting"]
             /\ stopTimer' = stopTimer \ {c} /\ lost' = lost \ {c}
             /\ up' = [up EXCEPT ![c] = <<>>]
             /\ \E queue \in Left(RequestsOf(c)) :
                    Schedule(queue, current, grantTimer, since, permits, rest)
             /\ UNCHANGED <<coordinated, stopping>>
       /\ UNCHANGED history

\* The restart delay is over: #spawn.
Spawns(c) ==
    /\ ~stopping /\ slot[c] = "restarting"
    /\ slot' = [slot EXCEPT ![c] = "starting"]
    /\ process' = [process EXCEPT ![c] = "booting"] /\ linked' = linked \cup {c}
    /\ UNCHANGED <<coordinated, stopping, restarts, lost, stopTimer, grantVars, age, asking,
                   cancelled, up, down, history>>

-----------------------------------------------------------------------------
(* Messages to the parent *)

First(channels, c) == Head(channels[c])
Takes(c) == up' = [up EXCEPT ![c] = Tail(@)]
Listens(c) == up[c] # <<>> /\ c \notin lost
Hears(c, type) == Listens(c) /\ First(up, c).type = type

\* The child is told what to run.
HearsHello(c) ==
    /\ Hears(c, "hello") /\ slot[c] = "starting" /\ Takes(c)
    /\ slot' = [slot EXCEPT ![c] = "greeted"]
    /\ down' = Sent(down, c, Message("assignment", 0))
    /\ UNCHANGED <<coordinated, stopping, restarts, lost, stopTimer, grantVars, age, childVars, history>>

HearsReady(c) ==
    /\ Hears(c, "ready") /\ slot[c] = "greeted" /\ Takes(c)
    /\ slot' = [slot EXCEPT ![c] = "running"]
    /\ UNCHANGED <<coordinated, stopping, restarts, lost, stopTimer, grantVars, age, childVars, down, history>>

HearsIdentify(c) ==
    /\ Hears(c, "identify") /\ slot[c] = "running" /\ Takes(c)
    /\ Schedule(Append(pending, [child |-> c, request |-> First(up, c).request]),
                outstanding, grantTimer, age, permits, down)
    /\ UNCHANGED <<parentVars, age, childVars, history>>

\* A withdrawn request gives its turn up, unless its child is being stopped for not confirming it.
HearsCancel(c) ==
    LET r == First(up, c).request
        reply == Sent(down, c, Message("cancelled", r))
    IN /\ Hears(c, "cancel") /\ Takes(c)
       /\ IF HoldsRequest(c, r)
          THEN IF outstanding.stalled THEN UNCHANGED <<grantVars, down>>
               ELSE Schedule(pending, None, grantTimer, age, permits, reply)
          ELSE /\ pending' \in Left({[child |-> c, request |-> r]})
               /\ down' = reply
               /\ UNCHANGED <<outstanding, grantTimer, permits>>
       /\ UNCHANGED <<parentVars, age, childVars, history>>

HearsSent(c) ==
    /\ Hears(c, "sent") /\ HoldsRequest(c, First(up, c).request) /\ outstanding.granted /\ Takes(c)
    /\ IF outstanding.stalled THEN UNCHANGED <<grantVars, age, down>>
       ELSE /\ Schedule(pending, None, grantTimer, FromIdentify, permits, down)
            /\ age' = FromIdentify
    /\ UNCHANGED <<parentVars, childVars, history>>

\* "closed" or "failed": the client of the child ended.
HearsEnd(c) ==
    /\ Hears(c, "closed") /\ Takes(c)
    /\ Stops({c}, down)
    /\ UNCHANGED <<coordinated, stopping, slot, restarts, lost, grantVars, age, childVars, history>>

-----------------------------------------------------------------------------
(* A child *)

ChildUnchanged == UNCHANGED <<parentVars, grantVars, age>>
\* A stopping parent ignores what a child tells it, so nothing of it is kept.
Tells(c, messages) ==
    up' = IF c \in linked /\ ~stopping THEN [up EXCEPT ![c] = @ \o messages] ELSE up

\* open: the process has started, and reads messages from now on.
Greets(c) ==
    /\ process[c] = "booting" /\ process' = [process EXCEPT ![c] = "greeting"]
    /\ Tells(c, <<Message("hello", 0)>>)
    /\ UNCHANGED <<linked, asking, cancelled, down, history>> /\ ChildUnchanged

\* ready: the client of the assignment runs.
Boots(c) ==
    /\ process[c] = "assigned" /\ process' = [process EXCEPT ![c] = "on"]
    /\ Tells(c, <<Message("ready", 0)>>)
    /\ UNCHANGED <<linked, asking, cancelled, down, history>> /\ ChildUnchanged

\* permit: a shard of the child's client wants to identify; its client asks for one at a time. What
\* it asks of a stopping parent is never answered, and left out.
Asks(c) ==
    /\ process[c] = "on" /\ asking[c] = 0 /\ c \in linked /\ ~stopping /\ requests < MaxRequests
    /\ requests' = requests + 1
    /\ asking' = [asking EXCEPT ![c] = requests']
    /\ Tells(c, <<Message("identify", requests')>>)
    /\ UNCHANGED <<process, linked, cancelled, down, socketAge>> /\ ChildUnchanged

\* The attempt that waits is interrupted.
Withdraws(c) ==
    /\ process[c] \in {"on", "stopping"} /\ asking[c] # 0
    /\ asking' = [asking EXCEPT ![c] = 0]
    /\ cancelled' = [cancelled EXCEPT ![c] = @ \cup {asking[c]}]
    /\ Tells(c, <<Message("cancel", asking[c])>>)
    /\ UNCHANGED <<process, linked, down, history>> /\ ChildUnchanged

\* The bridge is open.
Bridged(c) == process[c] \in {"greeting", "assigned", "on", "stopping"}

\* #cleanup: the bridge closes, and what it waited for goes.
Ends(c) ==
    /\ process' = [process EXCEPT ![c] = "ended"]
    /\ asking' = [asking EXCEPT ![c] = 0] /\ cancelled' = [cancelled EXCEPT ![c] = {}]
    /\ down' = [down EXCEPT ![c] = <<>>]
    /\ UNCHANGED linked

\* close: the client ended, by itself or because the parent asked. Without an assignment there is
\* no generation to tell the parent of.
Closes(c) ==
    /\ Bridged(c) /\ Ends(c)
    /\ IF process[c] = "greeting" THEN UNCHANGED up
       ELSE Tells(c, <<Message("closed", 0)>> \o
                     IF asking[c] = 0 THEN <<>> ELSE <<Message("cancel", asking[c])>>)
    /\ UNCHANGED history /\ ChildUnchanged

\* The child notices that its channel is gone, or finds it gone as it starts.
LosesParent(c) ==
    /\ Bridged(c) \/ process[c] = "booting"
    /\ c \notin linked /\ Ends(c)
    /\ UNCHANGED <<up, history>> /\ ChildUnchanged

Reads(c, type) == Bridged(c) /\ down[c] # <<>> /\ First(down, c).type = type
Told(c, type) ==
    /\ Reads(c, type)
    /\ down' = [down EXCEPT ![c] = Tail(@)]
    /\ UNCHANGED <<parentVars, pending, outstanding, grantTimer, permits, age, linked>>

TakesAssignment(c) ==
    /\ Told(c, "assignment") /\ process[c] = "greeting"
    /\ process' = [process EXCEPT ![c] = "assigned"]
    /\ UNCHANGED <<asking, cancelled, up, history>>

\* A grant: the waiting request identifies and reports it; one that was withdrawn is forgotten.
Identifies(c) ==
    LET r == First(down, c).request
    IN /\ Told(c, "grant") /\ asking[c] = r /\ process[c] = "on"
       /\ asking' = [asking EXCEPT ![c] = 0]
       /\ socketAge' = FromIdentify
       /\ Tells(c, <<Message("sent", r)>>)
       /\ UNCHANGED <<process, cancelled, requests>>

\* Any other answer to a request
Answered(c) ==
    LET r == First(down, c).request
    IN /\ \/ Told(c, "grant") /\ asking[c] = r /\ process[c] = "stopping"
          \/ Told(c, "denied") /\ asking[c] = r
          \/ Told(c, "grant") /\ r \in cancelled[c]
          \/ Told(c, "denied") /\ r \in cancelled[c]
          \/ Told(c, "cancelled")
       /\ asking' = IF asking[c] = r THEN [asking EXCEPT ![c] = 0] ELSE asking
       /\ cancelled' = [cancelled EXCEPT ![c] = @ \ {r}]
       /\ UNCHANGED <<process, up, history>>

ToldToStop(c) ==
    /\ Told(c, "shutdown") /\ process[c] # "greeting"
    /\ process' = [process EXCEPT ![c] = "stopping"]
    /\ UNCHANGED <<asking, cancelled, up, history>>

\* A shutdown that comes before the assignment is not of the child's generation, which it does not
\* know yet: #protocol closes the bridge.
MistakesShutdown(c) ==
    /\ Reads(c, "shutdown") /\ process[c] = "greeting" /\ Ends(c)
    /\ UNCHANGED <<up, history>> /\ ChildUnchanged

Tick ==
    /\ age < Spacing \/ socketAge < Spacing
    /\ age' = IF age < Spacing THEN age + 1 ELSE age
    /\ socketAge' = IF socketAge < Spacing THEN socketAge + 1 ELSE socketAge
    /\ UNCHANGED <<parentVars, grantVars, childVars, up, down, requests>>

-----------------------------------------------------------------------------

Hearing(c) ==
    \/ HearsHello(c) \/ HearsReady(c)
    \/ HearsIdentify(c) \/ HearsCancel(c) \/ HearsSent(c) \/ HearsEnd(c)
Settling(r) == PermitGiven(r) \/ PermitRefused(r)
ChildMoves(c) ==
    \/ Greets(c) \/ TakesAssignment(c) \/ Boots(c) \/ Asks(c) \/ Withdraws(c) \/ Closes(c)
    \/ LosesParent(c) \/ Identifies(c) \/ Answered(c) \/ ToldToStop(c) \/ MistakesShutdown(c)

Next ==
    \/ GrantTimerFires \/ ShutDown \/ AckExpires \/ Tick
    \/ \E r \in permits : Settling(r)
    \/ \E c \in Children :
          \/ StartupExpires(c) \/ Disconnects(c) \/ DisconnectExpires(c)
          \/ Exits(c) \/ Spawns(c) \/ Hearing(c) \/ ChildMoves(c)

Spec == Init /\ [][Next]_vars

\* Time passes, the parent's timers fire and its event loop reads what arrived, the coordinator
\* answers, and a process that was asked to stop is killed in the end. A child may freeze forever.
Duties ==
    \/ Tick \/ GrantTimerFires \/ AckExpires
    \/ \E r \in permits : Settling(r)
    \/ \E c \in Children : Hearing(c) \/ DisconnectExpires(c) \/ (c \in stopTimer /\ Exits(c))

FairSpec == Spec /\ WF_vars(Duties)

-----------------------------------------------------------------------------
(* Properties *)

Requests == 1..MaxRequests
Outstanding == [child : Children, request : Requests, granted : BOOLEAN, muted : BOOLEAN, stalled : BOOLEAN]
Messages == [type : {"hello", "ready", "identify", "cancel", "sent", "closed", "assignment", "grant",
                     "denied", "cancelled", "shutdown"}, request : 0..MaxRequests]
Slots == {"starting", "greeted", "running", "restarting", "over"}
Processes == {"none", "booting", "greeting", "assigned", "on", "stopping", "ended"}

PermitsTypeOK ==
    /\ coordinated \in BOOLEAN /\ stopping \in BOOLEAN
    /\ pending \in Seq([child : Children, request : Requests])
    /\ outstanding \in Outstanding \cup {None}
    /\ grantTimer \in BOOLEAN /\ age \in 0..Spacing /\ permits \subseteq Requests
    /\ slot \in [Children -> Slots]
    /\ restarts \in [Children -> 0..MaxAttempts]
    /\ lost \subseteq Children /\ stopTimer \subseteq Children
    /\ linked \subseteq Children
    /\ process \in [Children -> Processes]
    /\ up \in [Children -> Seq(Messages)] /\ down \in [Children -> Seq(Messages)]
    /\ asking \in [Children -> 0..MaxRequests] /\ cancelled \in [Children -> SUBSET Requests]
    /\ requests \in 0..MaxRequests /\ socketAge \in 0..Spacing

\* Without a coordinator, which spaces them itself, two Identifys of one account are at least the
\* spacing apart on the sockets, over all children and generations: one that a cancel, a lost channel
\* or a crash crossed is counted, not forgotten.
IdentifiesSpaced == [][\A c \in Children : Identifies(c) /\ ~coordinated => socketAge = Spacing]_vars

\* Neither side takes a message of the other for a protocol failure, which would stop every child,
\* in whatever order the messages of the handshake, of a request and of a stop cross; but for one
\* case: a child whose hello the supervisor had not read when it began to stop gets the shutdown
\* without an assignment, and fails. In every state each variable has its type.
Understood ==
    /\ PermitsTypeOK
    /\ \A c \in Children :
           /\ Listens(c) =>
                 LET m == First(up, c)
                 IN CASE m.type = "hello" -> slot[c] = "starting"
                      [] m.type = "ready" -> slot[c] = "greeted"
                      [] m.type = "identify" -> slot[c] = "running"
                      [] m.type = "sent" -> HoldsRequest(c, m.request) /\ outstanding.granted
                      [] m.type = "closed" -> slot[c] # "starting"
                      [] OTHER -> TRUE
           /\ down[c] # <<>> /\ Bridged(c) =>
                 LET m == First(down, c)
                 IN CASE m.type = "assignment" -> process[c] = "greeting"
                      [] m.type = "shutdown" -> process[c] = "greeting" => stopping /\ slot[c] = "starting"
                      [] m.type = "cancelled" -> process[c] # "greeting"
                      [] m.type \in {"grant", "denied"} ->
                             /\ process[c] # "greeting"
                             /\ m.request = asking[c] \/ m.request \in cancelled[c]
                      [] OTHER -> TRUE

\* A request does not wait forever, whatever its siblings do: one that freezes with the permit, loses
\* its channel or exits gives the turn up, or the supervisor stops.
NobodyStarves ==
    \A r \in Requests :
        (\E i \in DOMAIN pending : pending[i].request = r) ~> ~\E i \in DOMAIN pending : pending[i].request = r

=============================================================================
