-------------------------- MODULE LogicalScheduler --------------------------
(***************************************************************************)
(* LogicalScheduler (projects/sdk/src/internal/logical-scheduler.ts): timers *)
(* over the client's clock, fired by one fiber that sleeps until the         *)
(* earliest deadline, looks again whenever a timer is set or cleared, and    *)
(* runs the callbacks of a snapshot of due timers one after the other.       *)
(*                                                                         *)
(* A timer is the number of its set, which the code keeps as its sequence.  *)
(* What a callback does to the timers is the set and clear steps after it,   *)
(* before the fiber fires the next one.  A callback that fails is reported   *)
(* and ends like any other.                                                 *)
(***************************************************************************)
EXTENDS Integers, Sequences, FiniteSets

CONSTANTS
    Delays,        \* delays asked for; a negative one counts as none
    MaxTimers,     \* bound of the exploration: timers set
    Horizon        \* bound of the exploration: the clock stops here

ASSUME SchedulerAssumption == Delays \subseteq Int /\ MaxTimers \in Nat /\ Horizon \in Nat

VARIABLES
    now,         \* the clock
    timers,      \* #sequence: how many timers were set
    deadline,    \* timer -> its deadline
    entries,     \* #entries: timers neither fired nor cleared
    over,        \* #closed
    run,         \* the fiber: "looking", "asleep", "firing" or "done"
    until,       \* asleep: the instant it sleeps to, Forever without a timer
    woken,       \* asleep: #wake was replaced since it was captured
    due          \* firing: the timers of the snapshot still to fire

schedulerVars == <<now, timers, deadline, entries, over, run, until, woken, due>>

Forever == -1

SchedulerInit ==
    /\ now = 0 /\ timers = 0 /\ deadline = <<>> /\ entries = {}
    /\ over = FALSE /\ run = "looking" /\ until = Forever /\ woken = FALSE
    /\ due = <<>>

\* Mutant of Signal: the fiber is not told.
SignalNobody == UNCHANGED woken
\* #signal; a wake that nobody captured yet is as good as a new one
Signal == woken' = (run = "asleep")

\* Mutant of DeadlineOf: a negative delay is taken as it is.
DeadlineBefore(delay) == now + delay
\* The instant a timer set now with this delay is due
DeadlineOf(delay) == now + (IF delay > 0 THEN delay ELSE 0)

\* Timers fire by deadline, those of one deadline in the order they were set.
Before(s, t) == deadline[s] < deadline[t] \/ (deadline[s] = deadline[t] /\ s < t)

Set(delay) ==
    /\ ~over /\ timers < MaxTimers
    /\ timers' = timers + 1
    /\ deadline' = Append(deadline, DeadlineOf(delay))
    /\ entries' = entries \cup {timers + 1}
    /\ Signal
    /\ UNCHANGED <<now, over, run, until, due>>

\* clear; a timer that fired or was cleared before is left alone.
Clear(t) ==
    /\ t \in entries
    /\ entries' = entries \ {t}
    /\ Signal
    /\ UNCHANGED <<now, timers, deadline, over, run, until, due>>

CloseScheduler ==
    /\ ~over /\ over' = TRUE
    /\ entries' = {}
    /\ Signal
    /\ UNCHANGED <<now, timers, deadline, run, until, due>>

\* run: capture the wake and sleep until the earliest deadline.
Look ==
    /\ run = "looking"
    /\ run' = IF over THEN "done" ELSE "asleep"
    /\ woken' = FALSE
    /\ IF entries = {} THEN until' = Forever
       ELSE \E t \in entries : /\ \A s \in entries : deadline[t] <= deadline[s]
                               /\ until' = deadline[t]
    /\ UNCHANGED <<now, timers, deadline, entries, over, due>>

Reached == until # Forever /\ now >= until

\* A replaced wake: what was due is computed afresh.
LookAgain ==
    /\ run = "asleep" /\ woken
    /\ run' = "looking"
    /\ UNCHANGED <<now, timers, deadline, entries, over, until, woken, due>>

\* The sleep is over: the due timers, in order.
InOrder(order) ==
    /\ \A i \in 1..Len(order) : order[i] \in entries /\ deadline[order[i]] <= now
    /\ \A t \in entries : deadline[t] <= now => \E i \in 1..Len(order) : order[i] = t
    /\ \A i, j \in 1..Len(order) : i < j => Before(order[i], order[j])
Snapshots == UNION {[1..n -> entries] : n \in 0..Cardinality(entries)}
Snapshot ==
    /\ run = "asleep" /\ ~woken /\ Reached
    /\ run' = "firing"
    /\ \E order \in Snapshots : InOrder(order) /\ due' = order
    /\ UNCHANGED <<now, timers, deadline, entries, over, until, woken>>

\* The next timer of the snapshot, unless it was cleared since.
Fire(t) ==
    /\ run = "firing" /\ due # <<>> /\ t = Head(due) /\ t \in entries
    /\ entries' = entries \ {t} /\ due' = Tail(due)
    /\ UNCHANGED <<now, timers, deadline, over, run, until, woken>>

Skip ==
    /\ run = "firing" /\ due # <<>> /\ Head(due) \notin entries
    /\ due' = Tail(due)
    /\ UNCHANGED <<now, timers, deadline, entries, over, run, until, woken>>

Fired ==
    /\ run = "firing" /\ due = <<>>
    /\ run' = "looking"
    /\ UNCHANGED <<now, timers, deadline, entries, over, until, woken, due>>

Tick ==
    /\ now < Horizon /\ now' = now + 1
    /\ UNCHANGED <<timers, deadline, entries, over, run, until, woken, due>>

FiberSteps == Look \/ LookAgain \/ Snapshot \/ (\E t \in entries : Fire(t)) \/ Skip \/ Fired

SchedulerNext ==
    \/ \E d \in Delays : Set(d)
    \/ \E t \in entries : Clear(t)
    \/ CloseScheduler \/ FiberSteps \/ Tick

SchedulerSpec == SchedulerInit /\ [][SchedulerNext]_schedulerVars

-----------------------------------------------------------------------------
(* Properties *)

SchedulerTypeOK ==
    /\ now \in Nat /\ timers \in Nat /\ deadline \in Seq(Nat) /\ Len(deadline) = timers
    /\ entries \subseteq 1..timers /\ over \in BOOLEAN
    /\ run \in {"looking", "asleep", "firing", "done"}
    /\ until \in Nat \cup {Forever} /\ woken \in BOOLEAN
    /\ due \in Seq(1..timers)

\* The timer that fires next was due before every other that is set, also before those that
\* callbacks of the same snapshot set in between, and never before its deadline.
FiresInOrder ==
    run = "firing" /\ due # <<>> /\ Head(due) \in entries =>
        /\ deadline[Head(due)] <= now
        /\ \A t \in entries \ {Head(due)} : Before(Head(due), t)

\* The fiber never sleeps past a deadline: what it sleeps to is no later than any timer that is
\* set, or it has been told to look again.
NeverOversleeps ==
    run = "asleep" /\ ~woken => \A t \in entries : until # Forever /\ until <= deadline[t]

=============================================================================
