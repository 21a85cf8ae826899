SPECIFICATION TimersSpec
CONSTANT MaxTimers = 3
INVARIANTS ScheduleAgrees
PROPERTY ServiceSpec
CHECK_DEADLOCK FALSE
