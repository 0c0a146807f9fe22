SPECIFICATION Spec
CONSTANTS
    MaxTasks = 3
    SCHEDULE_INTERVAL = 2
    WindowTicks = FALSE
INVARIANTS TypeOK RingIntact ContextSaved StackAlive ExitNeverReturns BoundedWait
PROPERTIES NoStarvation 
