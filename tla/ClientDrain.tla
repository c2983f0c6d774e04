---------------------------- MODULE ClientDrain ----------------------------
(***************************************************************************)
(* A draining shutdown (drainWork in projects/sdk/src/internal/client/drain.ts *)
(* and #performShutdown, #closeAfterDrain and #closeServices in client.ts)   *)
(* over a handler subscription, the scheduled tasks and the REST requests in *)
(* flight: it seals intake, then looks at the three sources of work in turn   *)
(* and waits for a signal of the first that has some, until none has any or   *)
(* the deadline passes. The ordinary shutdown that follows cancels the rest.  *)
(***************************************************************************)
EXTENDS EventDelivery, ScheduledTasks

CONSTANTS Requests    \* REST requests, each made at most once

ASSUME DrainAssumption == IsFiniteSet(Requests)

VARIABLES
    made,        \* requests made so far
    inFlight,    \* rest.inFlight: requests admitted and not ended
    drain,       \* "off", "looking", waiting on "events", "tasks" or "requests", "done" or "expired"
    heldFor,     \* the requests in flight when the drain began to wait for them
    closed       \* the ordinary shutdown stopped events, requests and tasks

workVars == <<deliveryVars, taskVars, made, inFlight>>
drainVars == <<workVars, drain, heldFor, closed>>

DrainInit ==
    /\ DeliveryInit /\ TasksInit
    /\ made = {} /\ inFlight = {} /\ drain = "off" /\ heldFor = {} /\ closed = FALSE

Draining == drain \in {"looking", "events", "tasks", "requests"}

-----------------------------------------------------------------------------
(* Work, which continues during a drain *)

Delivers == DeliveryNext /\ UNCHANGED <<taskVars, made, inFlight, drain, heldFor, closed>>

TaskMoves(t) ==
    /\ StartTask(t) \/ TaskDue(t) \/ CloseTask(t)
    /\ UNCHANGED <<deliveryVars, made, inFlight, drain, heldFor, closed>>

RunReturns ==
    /\ \E t \in Tasks : RunEnds(t)
    /\ UNCHANGED <<deliveryVars, made, inFlight, drain, heldFor, closed>>

\* A drain leaves REST admission as it was: handlers, tasks and the application still make requests.
RequestStarts(r) ==
    /\ r \notin made /\ ~closed
    /\ made' = made \cup {r} /\ inFlight' = inFlight \cup {r}
    /\ UNCHANGED <<deliveryVars, taskVars, drain, heldFor, closed>>

RequestEnds ==
    /\ \E r \in inFlight : inFlight' = inFlight \ {r}
    /\ UNCHANGED <<deliveryVars, taskVars, made, drain, heldFor, closed>>

-----------------------------------------------------------------------------
(* The drain *)

\* Mutant of HandlerWork: only running handlers are looked at, not the events that wait for one.
RunningOnly == running # {}
HandlerWork == running # {} \/ pending # <<>>
Idle == ~HandlerWork /\ TasksRunning = {} /\ inFlight = {}

\* drainWork: seal, and return at once without work.
DrainBegins ==
    /\ drain = "off" /\ ~closed
    /\ Seal /\ SealTasks
    /\ drain' = IF Idle THEN "done" ELSE "looking"
    /\ UNCHANGED <<setup, queue, source, loop, busyKeys, running, ready, awaited, history, task, closedTasks,
                   stopped, endedTasks, recorded, tasksAwaited, cut, made, inFlight, heldFor, closed>>

\* The signal the drain waits for came.
Signalled ==
    \/ drain = "looking"
    \/ drain = "events" /\ ~awaited
    \/ drain = "tasks" /\ ~tasksAwaited
    \/ drain = "requests" /\ heldFor \cap inFlight = {}

\* One round of the loop: read the state of the three and wait for the first that has work.
DrainLooks ==
    /\ Signalled
    /\ drain' = CASE HandlerWork -> "events"
                  [] ~HandlerWork /\ TasksRunning # {} -> "tasks"
                  [] ~HandlerWork /\ TasksRunning = {} /\ inFlight # {} -> "requests"
                  [] OTHER -> "done"
    /\ awaited' = (awaited \/ drain' = "events")
    /\ tasksAwaited' = (tasksAwaited \/ drain' = "tasks")
    /\ heldFor' = IF drain' = "requests" THEN inFlight ELSE {}
    /\ UNCHANGED <<setup, queue, source, sealed, loop, busyKeys, running, ready, history, task, closedTasks,
                   closing, stopped, endedTasks, recorded, cut, made, inFlight, closed>>

DrainExpires ==
    /\ Draining /\ drain' = "expired" /\ heldFor' = {}
    /\ UNCHANGED <<workVars, closed>>

\* The ordinary shutdown: after a drain, without one, or because the connection ended during one.
\* It stops the three together; what they had in progress still ends.
Close ==
    /\ ~closed /\ closed' = TRUE
    /\ IF source = "open" THEN StopSource /\ UNCHANGED setup ELSE UNCHANGED deliveryVars
    /\ StopTasks
    /\ UNCHANGED <<made, inFlight, drain, heldFor>>

DrainNext ==
    \/ Delivers \/ (\E t \in Tasks : TaskMoves(t)) \/ RunReturns
    \/ (\E r \in Requests : RequestStarts(r)) \/ RequestEnds
    \/ DrainBegins \/ DrainLooks \/ DrainExpires \/ Close

DrainSpec == DrainInit /\ [][DrainNext]_drainVars

\* Fibers run when they can; handlers, hooks, runs and requests end. Nothing makes the deadline
\* pass, so what a drain owes is owed without it.
Running == (Work \/ Finish) /\ UNCHANGED <<setup, taskVars, made, inFlight, drain, heldFor, closed>>
Ending == (HandlersEnd \/ HooksSettle) /\ UNCHANGED <<setup, taskVars, made, inFlight, drain, heldFor, closed>>
DrainFairSpec ==
    /\ DrainSpec
    /\ WF_drainVars(Running) /\ WF_drainVars(Ending)
    /\ WF_drainVars(RunReturns) /\ WF_drainVars(RequestEnds) /\ WF_drainVars(DrainLooks)

-----------------------------------------------------------------------------
(* Properties *)

DrainTypeOK ==
    /\ DeliveryTypeOK /\ TasksTypeOK
    /\ made \subseteq Requests /\ inFlight \subseteq made /\ heldFor \subseteq made
    /\ drain \in {"off", "looking", "events", "tasks", "requests", "done", "expired"}
    /\ closed \in BOOLEAN

\* What the drain reads is exact while it drains and after: the queue's counts and bytes, the
\* readiness of its keys and the tasks, each with its type.
WorkExact == DrainTypeOK /\ QueueExact

\* A drain ends when the work does, without its deadline: no signal is lost between its look at
\* one source of work and its wait, whatever starts or stops on another meanwhile.
DrainEnds == drain # "off" ~> drain \in {"done", "expired"}

\* A drain that finished found nothing running, and nothing starts after it: "shutdown continues
\* without cancelling any" (client/drain.ts:126) of the handlers, waiting events and runs.
DrainedStaysIdle == drain = "done" => ~HandlerWork /\ TasksRunning = {}

=============================================================================
