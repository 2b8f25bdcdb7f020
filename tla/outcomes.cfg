CONSTANTS
    Bars <- SomeBars
    StopDistance = 3
    TargetDistance = 5
    MaxBars = 4
SPECIFICATION Spec
PROPERTIES SettledSoundly
CHECK_DEADLOCK FALSE
