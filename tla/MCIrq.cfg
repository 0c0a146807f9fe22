SPECIFICATION Spec
CONSTANTS
    MaxTask = 2
    Lines = {0, 1, 8}
    SCHEDULE_INTERVAL = 2
INVARIANTS TypeOK EnabledMeansServed
PROPERTIES EoiEndsOwn TimerKeepsFiring
