\* Ticks of 60 seconds; two process lives, blocked loops and file errors.
SPECIFICATION Spec
CONSTANTS
    FileLimit = 2
    ActivityLimit = 5
    WatchdogInterval = 1
    CollectThreshold = 5
    BeatThreshold = 2
    MaxFailures = 2
    MaxBeatFailures = 2
    MaxStarts = 2
    FileErrors = TRUE
INVARIANTS SilenceIsSeen NoFalseAlarm WatchdogReports HealthCheckIsStricter
