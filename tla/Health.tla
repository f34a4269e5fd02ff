------------------------------- MODULE Health -------------------------------
(***************************************************************************)
(* How a collector's health is judged (main.py, Dockerfile): the file it   *)
(* touches whenever metrics come in, the marker its watchdog sets, Docker's *)
(* look at both, and health_check() with the counters behind it            *)
(* (core/scheduler.py, core/heartbeat.py).                                 *)
(*                                                                         *)
(* Time passes in ticks; every age is in ticks and stops at Old, beyond    *)
(* every limit.  The files outlive the process.                            *)
(***************************************************************************)
EXTENDS Naturals

CONSTANTS
    FileLimit,          \* Docker: "age > 120"; also of activity_age
    ActivityLimit,      \* ACTIVITY_TIMEOUT, 300 s
    WatchdogInterval,   \* WATCHDOG_INTERVAL, 60 s
    CollectThreshold,   \* HEALTH_THRESHOLD of the scheduler, 300 s
    BeatThreshold,      \* HEALTH_THRESHOLD of the heartbeats, 90 s
    MaxFailures,        \* "_consecutive_failures < 5"
    MaxBeatFailures,    \* "_consecutive_failures < 3"
    MaxStarts,          \* bound on the process starts of a behaviour
    FileErrors          \* whether the file system may fail

Old == ActivityLimit + WatchdogInterval + 1
Never == Old + 1        \* no file, or no success yet
Age == 0 .. Old

ASSUME HealthAssumption ==
    /\ {FileLimit, ActivityLimit, WatchdogInterval, CollectThreshold,
        BeatThreshold, MaxFailures, MaxBeatFailures} \subseteq Nat \ {0}
    /\ FileLimit <= ActivityLimit
    /\ CollectThreshold <= Old /\ BeatThreshold <= Old
    /\ MaxStarts \in Nat /\ FileErrors \in BOOLEAN

VARIABLES
    phase,              \* of the process: "down", "starting" or "up"
    frozen,             \* something blocks the event loop
    marker,             \* the file collector_unhealthy exists
    fileAge,            \* since collector_heartbeat was touched, or Never
    activityAge,        \* since _last_activity
    sleeping,           \* ticks since the watchdog went to sleep
    collecting,         \* the scheduler runs
    successAge,         \* since _last_successful_collection, or Never
    failures,           \* the scheduler's _consecutive_failures, up to the limit
    beatAge,            \* since _last_successful_heartbeat, or Never
    beatFailures,       \* the heartbeats' _consecutive_failures, up to the limit
    silent,             \* history: since metrics came in, or since start() ended
    untouched,          \* history: the file system has failed since then
    starts              \* process starts so far

files == <<marker, fileAge, activityAge>>
collections == <<successAge, failures>>
heartbeats == <<beatAge, beatFailures>>
vars == <<phase, frozen, files, sleeping, collecting, collections, heartbeats,
          silent, untouched, starts>>

Flags ==
    /\ frozen \in BOOLEAN /\ marker \in BOOLEAN
    /\ collecting \in BOOLEAN /\ untouched \in BOOLEAN

Ages ==
    /\ fileAge \in Age \cup {Never} /\ activityAge \in Age /\ silent \in Age
    /\ successAge \in Age \cup {Never} /\ beatAge \in Age \cup {Never}
    /\ sleeping \in Age
    /\ failures \in 0 .. MaxFailures /\ beatFailures \in 0 .. MaxBeatFailures
    /\ starts \in 0 .. MaxStarts

TypeOK == phase \in {"down", "starting", "up"} /\ Flags /\ Ages

Init ==
    /\ phase = "down" /\ frozen = FALSE
    /\ marker = FALSE /\ fileAge = Never /\ activityAge = Old
    /\ sleeping = 0
    /\ collecting = FALSE /\ successAge = Never /\ failures = 0
    /\ beatAge = Never /\ beatFailures = 0
    /\ silent = Old /\ untouched = FALSE
    /\ starts = 0

-----------------------------------------------------------------------------
(* The files *)

\* Mutant of Touch: the marker stays.
TouchKeepsMarker ==
    /\ fileAge' = 0 /\ activityAge' = 0
    /\ untouched' = FALSE
    /\ UNCHANGED marker

\* _touch_health_file(): the file, then _last_activity, then the marker; an
\* error of the file system ends it after any of them.
Touch ==
    \/ /\ fileAge' = 0 /\ activityAge' = 0
       /\ marker' = FALSE
       /\ untouched' = FALSE
    \/ /\ FileErrors
       /\ untouched' = TRUE
       /\ \/ UNCHANGED files
          \/ fileAge' = 0 /\ activityAge' = 0 /\ UNCHANGED marker

-----------------------------------------------------------------------------
(* start() and the end of the process *)

\* "Clean up any stale health files from previous runs": the marker alone.
CleanMarker ==
    \/ marker' = FALSE /\ UNCHANGED untouched
    \/ FileErrors /\ untouched' = TRUE /\ UNCHANGED marker

\* A new process: its counters are new, the files are not.
StartBegin ==
    /\ phase = "down"
    /\ starts < MaxStarts
    /\ phase' = "starting"
    /\ starts' = starts + 1
    /\ CleanMarker
    /\ activityAge' = 0
    /\ successAge' = Never /\ failures' = 0
    /\ beatAge' = Never /\ beatFailures' = 0
    /\ UNCHANGED <<frozen, fileAge, sleeping, collecting, silent>>

\* The watchdog starts, and the file is touched.
StartEnds ==
    /\ phase = "starting" /\ ~ frozen
    /\ phase' = "up"
    /\ sleeping' = 0
    /\ Touch
    /\ silent' = 0
    /\ UNCHANGED <<frozen, collecting, collections, heartbeats, starts>>

\* start() raises, stop() ends or the process dies.
ProcessEnds ==
    /\ phase # "down"
    /\ phase' = "down"
    /\ frozen' = FALSE /\ collecting' = FALSE
    /\ UNCHANGED <<files, sleeping, collections, heartbeats, silent, untouched, starts>>

-----------------------------------------------------------------------------
(* What the collector does while its process lives *)

Runs == phase # "down" /\ ~ frozen

\* start() starts the scheduler of a collector that is to collect, and the role
\* monitor starts or stops it.
RoleChanges ==
    /\ Runs
    /\ collecting' = ~ collecting
    /\ UNCHANGED <<phase, frozen, files, sleeping, collections, heartbeats,
                   silent, untouched, starts>>

\* A collection that yields metrics: _on_metrics() touches the file.
MetricsCollected ==
    /\ Runs /\ collecting
    /\ successAge' = 0 /\ failures' = 0
    /\ Touch
    /\ silent' = 0
    /\ UNCHANGED <<phase, frozen, sleeping, collecting, heartbeats, starts>>

\* Mutant of NothingCollected: an empty list counts as an activity.
NothingIsActivity ==
    /\ Runs /\ collecting
    /\ successAge' = 0 /\ failures' = 0
    /\ activityAge' = 0
    /\ UNCHANGED <<phase, frozen, marker, fileAge, sleeping, collecting, heartbeats,
                   silent, untouched, starts>>

\* A device that cannot be reached: an empty list, which counts as a success and
\* does not reach _on_metrics().
NothingCollected ==
    /\ Runs /\ collecting
    /\ successAge' = 0 /\ failures' = 0
    /\ UNCHANGED <<phase, frozen, files, sleeping, collecting, heartbeats,
                   silent, untouched, starts>>

\* COLLECTION_TIMEOUT, or an exception of the plugin.
CollectionFails ==
    /\ Runs /\ collecting
    /\ failures' = IF failures < MaxFailures THEN failures + 1 ELSE failures
    /\ UNCHANGED <<phase, frozen, files, sleeping, collecting, successAge,
                   heartbeats, silent, untouched, starts>>

HeartbeatOk ==
    /\ Runs
    /\ beatAge' = 0 /\ beatFailures' = 0
    /\ UNCHANGED <<phase, frozen, files, sleeping, collecting, collections,
                   silent, untouched, starts>>

HeartbeatFails ==
    /\ Runs
    /\ beatFailures' = IF beatFailures < MaxBeatFailures THEN beatFailures + 1
                       ELSE beatFailures
    /\ UNCHANGED <<phase, frozen, files, sleeping, collecting, collections,
                   beatAge, silent, untouched, starts>>

WatchdogDue == phase = "up" /\ sleeping >= WatchdogInterval

\* _watchdog() wakes: a long silence sets the marker, unless the file system
\* refuses.
WatchdogChecks ==
    /\ Runs /\ WatchdogDue
    /\ sleeping' = 0
    /\ \/ activityAge > ActivityLimit /\ marker' = TRUE /\ UNCHANGED untouched
       \/ activityAge > ActivityLimit /\ FileErrors /\ untouched' = TRUE /\ UNCHANGED marker
       \/ activityAge <= ActivityLimit /\ UNCHANGED <<marker, untouched>>
    /\ UNCHANGED <<phase, frozen, fileAge, activityAge, collecting, collections,
                   heartbeats, silent, starts>>

-----------------------------------------------------------------------------
(* The environment *)

\* A blocking call holds up the event loop, and returns.
LoopBlocks ==
    /\ phase # "down"
    /\ frozen' = ~ frozen
    /\ UNCHANGED <<phase, files, sleeping, collecting, collections, heartbeats,
                   silent, untouched, starts>>

Older(age) == IF age < Old THEN age + 1 ELSE age

\* Time passes; a watchdog that is due runs first, unless the loop is blocked.
Tick ==
    /\ ~ (Runs /\ WatchdogDue)
    /\ fileAge' = Older(fileAge) /\ activityAge' = Older(activityAge)
    /\ successAge' = Older(successAge) /\ beatAge' = Older(beatAge)
    /\ silent' = Older(silent)
    /\ sleeping' = IF phase = "up" THEN Older(sleeping) ELSE 0
    /\ UNCHANGED <<phase, frozen, marker, collecting, failures, beatFailures,
                   untouched, starts>>

Next ==
    \/ StartBegin \/ StartEnds \/ ProcessEnds
    \/ RoleChanges \/ MetricsCollected \/ NothingCollected \/ CollectionFails
    \/ HeartbeatOk \/ HeartbeatFails
    \/ WatchdogChecks
    \/ LoopBlocks \/ Tick

Spec == Init /\ [][Next]_vars

-----------------------------------------------------------------------------
(* The judges *)

\* Mutant of DockerHealthy: the marker alone is looked at.
MarkerAlone == ~ marker

\* HEALTHCHECK of the Dockerfile.
DockerHealthy == ~ marker /\ fileAge <= FileLimit

\* CollectionScheduler.is_healthy(), with devices to poll.
SchedulerHealthy ==
    /\ collecting
    /\ successAge = Never \/ (successAge < CollectThreshold /\ failures < MaxFailures)

\* HeartbeatManager.is_healthy().
BeatsHealthy ==
    beatAge = Never \/ (beatAge < BeatThreshold /\ beatFailures < MaxBeatFailures)

\* Mutant of HealthCheck: the age of the last activity is not looked at.
HealthCheckWithoutAge ==
    phase # "down" /\ BeatsHealthy /\ SchedulerHealthy /\ ~ marker

\* Collector.health_check()["healthy"].
HealthCheck ==
    phase # "down" /\ activityAge < FileLimit /\ BeatsHealthy /\ SchedulerHealthy /\ ~ marker

-----------------------------------------------------------------------------
(* Properties *)

\* Docker never holds a collector for healthy that has been silent for longer
\* than the limit: not a blocked one, whose watchdog cannot run, nor one whose
\* files cannot be written, nor one that was restarted.
SilenceIsSeen == phase = "up" /\ DockerHealthy => silent <= FileLimit

\* Nor does it hold a collector for unhealthy that brings metrics in time: a
\* marker does not outlive the silence it was set for, nor the process that set
\* it, as long as the files can be written.
NoFalseAlarm == phase = "up" /\ silent <= FileLimit /\ ~ untouched => DockerHealthy

\* The watchdog leaves its marker a WatchdogInterval after the limit at the
\* latest, be the heartbeats and the empty collections as good as they may.
WatchdogReports ==
    phase = "up" /\ Runs /\ ~ WatchdogDue /\ ~ untouched =>
        (silent > ActivityLimit + WatchdogInterval => marker)

\* health_check() is never content with a collector that Docker holds for
\* unhealthy, once start() is through: the scheduler's own judgement, which a
\* scheduler that never had a success or collects empty lists passes, does not
\* decide alone.  Only a file system that fails sets the two apart.
HealthCheckIsStricter ==
    phase = "up" /\ HealthCheck /\ ~ untouched => DockerHealthy

=============================================================================
