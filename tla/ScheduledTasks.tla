--------------------------- MODULE ScheduledTasks ---------------------------
(***************************************************************************)
(* The tasks of client.schedule                                            *)
(* (projects/sdk/src/internal/scheduled-tasks.ts): each waits for its timer, *)
(* runs and, when it repeats, waits again.  A drain lets runs in progress    *)
(* end and starts none; shutdown interrupts the rest and records how many    *)
(* tasks it cut short.  What makes a wait end is left to who extends this.   *)
(***************************************************************************)
EXTENDS Integers, FiniteSets

CONSTANTS
    Tasks,       \* each is scheduled at most once
    Repeating    \* those with an intervalMs

ASSUME TasksAssumption == IsFiniteSet(Tasks) /\ Repeating \subseteq Tasks

VARIABLES
    task,           \* "new", "waiting", "running", "stopping" (interrupted) or "over"
    closedTasks,    \* tasks whose close function the application called
    closing,        \* #closing: no further run and no further task
    stopped,        \* #stopped
    endedTasks,     \* #ended: tasks that ended during a drain with runs still to come
    recorded,       \* the count in the record that stop writes
    tasksAwaited,   \* somebody waits on the current #progress
    cut             \* history: tasks that lost a run to the shutdown

taskVars == <<task, closedTasks, closing, stopped, endedTasks, recorded, tasksAwaited, cut>>

TasksInit ==
    /\ task = [t \in Tasks |-> "new"] /\ closedTasks = {}
    /\ closing = FALSE /\ stopped = FALSE
    /\ endedTasks = 0 /\ recorded = 0 /\ tasksAwaited = FALSE /\ cut = {}

TasksRunning == {t \in Tasks : task[t] \in {"running", "stopping"}}

StartTask(t) ==
    /\ task[t] = "new" /\ ~closing
    /\ task' = [task EXCEPT ![t] = "waiting"]
    /\ UNCHANGED <<closedTasks, closing, stopped, endedTasks, recorded, tasksAwaited, cut>>

\* A drain leaves this task no later run.
EndsEarly(t) ==
    /\ task' = [task EXCEPT ![t] = "over"]
    /\ endedTasks' = endedTasks + 1
    /\ cut' = cut \cup {t}

\* The wait of a task ends.
TaskDue(t) ==
    /\ task[t] = "waiting"
    /\ IF closing THEN EndsEarly(t)
       ELSE task' = [task EXCEPT ![t] = "running"] /\ UNCHANGED <<endedTasks, cut>>
    /\ UNCHANGED <<closedTasks, closing, stopped, recorded, tasksAwaited>>

Repeats(t) == t \in Repeating /\ t \notin closedTasks /\ task[t] = "running"

\* A run ends, by itself or interrupted; a repeating task then waits again.
RunEnds(t) ==
    /\ t \in TasksRunning
    /\ tasksAwaited' = FALSE
    /\ IF Repeats(t) /\ closing THEN EndsEarly(t)
       ELSE /\ task' = [task EXCEPT ![t] = IF Repeats(t) THEN "waiting" ELSE "over"]
            /\ UNCHANGED <<endedTasks, cut>>
    /\ UNCHANGED <<closedTasks, closing, stopped, recorded>>

\* The application closes a task: a waiting one ends, a run in progress finishes first.
CloseTask(t) ==
    /\ task[t] \in {"waiting", "running", "stopping"} /\ t \notin closedTasks
    /\ closedTasks' = closedTasks \cup {t}
    /\ task' = IF task[t] = "waiting" THEN [task EXCEPT ![t] = "over"] ELSE task
    /\ UNCHANGED <<closing, stopped, endedTasks, recorded, tasksAwaited, cut>>

SealTasks == ~closing /\ closing' = TRUE

\* stop: interrupt every task and record how many had a run waiting or in progress.
StopTasks ==
    LET alive == {t \in Tasks : task[t] = "waiting"} \cup TasksRunning
        cancelled == {t \in alive : t \in TasksRunning \/ t \notin closedTasks}
    IN /\ ~stopped /\ stopped' = TRUE /\ closing' = TRUE
       /\ recorded' = endedTasks + Cardinality(cancelled)
       /\ cut' = cut \cup alive
       /\ task' = [t \in Tasks |-> CASE task[t] = "waiting" -> "over"
                                     [] task[t] = "running" -> "stopping"
                                     [] OTHER -> task[t]]
       /\ UNCHANGED <<closedTasks, endedTasks, tasksAwaited>>

-----------------------------------------------------------------------------
(* Properties *)

TasksTypeOK ==
    /\ task \in [Tasks -> {"new", "waiting", "running", "stopping", "over"}]
    /\ closedTasks \subseteq Tasks /\ cut \subseteq Tasks
    /\ closing \in BOOLEAN /\ stopped \in BOOLEAN /\ tasksAwaited \in BOOLEAN
    /\ endedTasks \in Nat /\ recorded \in Nat

\* "None ends unrecorded" (scheduled-tasks.ts:237): what the record of stop says is the number of
\* tasks that lost a run, whether the drain ended them or stop did, before or after they were closed.
NoneUnrecorded == stopped => recorded = Cardinality(cut)

=============================================================================
