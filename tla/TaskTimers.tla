----------------------------- MODULE TaskTimers -----------------------------
(***************************************************************************)
(* Scheduled tasks over the logical scheduler: a task waits in              *)
(* LogicalScheduler.set for a callback that resumes its fiber, and an       *)
(* interrupted wait clears its timer (scheduled-tasks.ts:126-130).  Other    *)
(* owners of the client set and clear timers of their own beside them.       *)
(***************************************************************************)
EXTENDS LogicalScheduler, ScheduledTasks

CONSTANTS MaxForeign    \* bound of the exploration: timers of other owners

VARIABLES
    timerOf,    \* task -> the timer of its wait, 0 when it does not wait
    foreign     \* timers of other owners

timerVars == <<schedulerVars, taskVars, timerOf, foreign>>

TimersInit == SchedulerInit /\ TasksInit /\ timerOf = [t \in Tasks |-> 0] /\ foreign = {}

-----------------------------------------------------------------------------

\* logical.set, for the wait of a task: a closed scheduler hands out a timer that never fires.
SetFor(t, delay) ==
    IF over
    THEN UNCHANGED <<schedulerVars, timerOf>>
    ELSE Set(delay) /\ timerOf' = [timerOf EXCEPT ![t] = timers + 1]

\* Mutant of ClearFor: an interrupted wait leaves its timer.
ForgetFor(tasks) ==
    /\ timerOf' = [t \in Tasks |-> IF t \in tasks THEN 0 ELSE timerOf[t]]
    /\ UNCHANGED schedulerVars
\* The waits of these tasks are interrupted: their timers are cleared.
ClearFor(tasks) ==
    LET theirs == {timerOf[t] : t \in tasks} \cap entries
    IN /\ entries' = entries \ theirs
       /\ IF theirs = {} THEN UNCHANGED woken ELSE Signal
       /\ timerOf' = [t \in Tasks |-> IF t \in tasks THEN 0 ELSE timerOf[t]]
       /\ UNCHANGED <<now, timers, deadline, over, run, until, due>>

Schedule(t, delay) == StartTask(t) /\ SetFor(t, delay) /\ UNCHANGED foreign

\* A timer fires: the task that waits for it is due, in the same step.
TimerFires(s) ==
    /\ Fire(s)
    /\ foreign' = foreign \ {s}
    /\ IF s \in foreign THEN UNCHANGED <<taskVars, timerOf>>
       ELSE \E t \in Tasks : /\ timerOf[t] = s /\ TaskDue(t)
                             /\ timerOf' = [timerOf EXCEPT ![t] = 0]

RunEnded(t, interval) ==
    /\ RunEnds(t) /\ UNCHANGED foreign
    /\ IF task'[t] = "waiting" THEN SetFor(t, interval) ELSE UNCHANGED <<schedulerVars, timerOf>>

TaskClosed(t) ==
    /\ CloseTask(t) /\ UNCHANGED foreign
    /\ IF task[t] = "waiting" THEN ClearFor({t}) ELSE UNCHANGED <<schedulerVars, timerOf>>

TasksStopped == StopTasks /\ ClearFor({t \in Tasks : task[t] = "waiting"}) /\ UNCHANGED foreign
TasksSealed == SealTasks /\ UNCHANGED <<task, closedTasks, stopped, endedTasks, recorded,
                                        tasksAwaited, cut, schedulerVars, timerOf, foreign>>

ForeignSet(delay) ==
    /\ Cardinality(foreign) < MaxForeign
    /\ Set(delay) /\ foreign' = foreign \cup {timers + 1} /\ UNCHANGED <<taskVars, timerOf>>
ForeignCleared(s) ==
    /\ s \in foreign /\ Clear(s) /\ foreign' = foreign \ {s} /\ UNCHANGED <<taskVars, timerOf>>
SchedulerClosed == CloseScheduler /\ foreign' = {} /\ UNCHANGED <<taskVars, timerOf>>

FiberRuns ==
    \/ /\ Look \/ LookAgain \/ Snapshot \/ Skip \/ Fired
       /\ UNCHANGED <<taskVars, timerOf, foreign>>
    \/ \E s \in entries : TimerFires(s)
TimePasses == Tick /\ UNCHANGED <<taskVars, timerOf, foreign>>

TimersNext ==
    \/ \E t \in Tasks, d \in Delays : Schedule(t, d) \/ RunEnded(t, d)
    \/ \E t \in Tasks : TaskClosed(t)
    \/ TasksStopped \/ TasksSealed
    \/ \E d \in Delays : ForeignSet(d)
    \/ \E s \in foreign : ForeignCleared(s)
    \/ SchedulerClosed \/ FiberRuns \/ TimePasses

TimersSpec == TimersInit /\ [][TimersNext]_timerVars
\* The scheduler's fiber runs when it can, and time passes.
TimersFairSpec == TimersSpec /\ WF_timerVars(FiberRuns) /\ WF_timerVars(TimePasses)

-----------------------------------------------------------------------------
(* Properties *)

\* No wait is orphaned and no timer leaks: a task waits exactly when the open scheduler holds its
\* timer, and every other timer has another owner; a task that loses a run to the shutdown is
\* recorded.  In every state each variable has its type.
TimersOwned ==
    /\ SchedulerTypeOK /\ TasksTypeOK
    /\ \A t \in Tasks : ~over => (task[t] = "waiting" <=> timerOf[t] \in entries)
    /\ \A s \in entries : s \in foreign \/ \E t \in Tasks : timerOf[t] = s
    /\ NoneUnrecorded

\* A task whose deadline the clock reaches stops waiting, however many timers are set and cleared
\* meanwhile: a discarded snapshot of due timers is taken again.
DueTasksRun ==
    \A t \in Tasks : task[t] = "waiting" /\ ~over /\ deadline[timerOf[t]] <= Horizon
        ~> task[t] # "waiting" \/ over

=============================================================================
