\* A repeating task, one that runs once and timers of another owner while the client drains and stops
CONSTANTS
  once = once
  again = again
  Tasks = {once, again}
  Repeating = {again}
  Delays <- Waits
  MaxTimers = 3
  MaxForeign = 1
  Horizon = 2
SPECIFICATION TimersFairSpec
INVARIANTS FiresInOrder TimersOwned
PROPERTIES DueTasksRun
CHECK_DEADLOCK FALSE
