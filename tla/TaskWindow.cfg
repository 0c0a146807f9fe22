SPECIFICATION Spec
CONSTANTS
    MaxTasks = 3
    SCHEDULE_INTERVAL = 2
    WindowTicks = TRUE
INVARIANTS StackAlive
