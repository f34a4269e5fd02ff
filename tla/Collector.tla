------------------------------ MODULE Collector ------------------------------
(***************************************************************************)
(* The control tasks of the collector in database mode (main.py,           *)
(* core/heartbeat.py), composed with CollectionScheduler: the start-up,    *)
(* the heartbeats that bring the role and the config_changed flag, the     *)
(* role monitor that starts and stops the scheduler, and the config        *)
(* refresh that schedules and unschedules devices.                         *)
(*                                                                         *)
(* The server is external: it holds the current device configuration and   *)
(* decides whether this collector should collect.  Its configuration       *)
(* stands for its own version hash.                                        *)
(***************************************************************************)
EXTENDS Naturals, Sequences, SequencesExt, FiniteSets

CONSTANTS
    Device,
    Groups,             \* the devices of each plugin, in the server's order
    Configs,            \* the configurations the server may have
    NoVersion,          \* version hash before the first configuration
    NoPlugin,           \* devices whose plugin cannot be instantiated
    ShortInterval,      \* devices whose poll_interval // 2 is 0
    MaxConcurrent,
    MaxStarts,          \* bound on the starts of the scheduler
    MaxChanges,         \* bound on the changes of the server's configuration
    MaxRoleChanges      \* bound on the changes of the assigned role

\* What the server says of a device; "off" is a disabled one.
Setting == {"absent", "off", "on"}

ASSUME ConfigAssumption ==
    /\ Groups \in Seq(Seq(Device))
    /\ \A d \in Device : \E i \in 1 .. Len(Groups) : d \in ToSet(Groups[i])
    /\ Configs \subseteq [Device -> Setting]
    /\ NoVersion \notin Configs
    /\ MaxChanges \in Nat /\ MaxRoleChanges \in Nat
\* A plugin that was not found is not found later: discover_plugins() runs once.
ASSUME PluginAssumption ==
    /\ NoPlugin \subseteq Device
    /\ \A i \in 1 .. Len(Groups) :
          ToSet(Groups[i]) \subseteq NoPlugin \/ ToSet(Groups[i]) \cap NoPlugin = {}
ASSUME SchedulerAssumption ==
    /\ MaxConcurrent \in Nat \ {0}
    /\ MaxStarts \in Nat

VARIABLES
    running, state, closing, tasks, jobs, pending, pc, slots, queue,
    starts,
    main,               \* Collector.start(): "heartbeat", "load", "schedule", "up"
                        \* or, when it raised, "exited"; Collector.stop():
                        \* "stopping", "cancelling", "draining", "stopped"
    startCollecting,    \* its local should_collect
    schedulerRunning,   \* Collector._scheduler_running
    known,              \* _known_device_ids
    shouldCollect,      \* HeartbeatManager._should_collect
    configChanged,      \* HeartbeatManager._config_changed
    version,            \* HeartbeatManager._config_version_hash
    beats,              \* the heartbeat in flight of each sender
    refresh,            \* of _refresh_config: "sleep", "fetch" or "apply"
    fetched,            \* the configuration of the fetch in progress
    server              \* external: current configuration, role and changes made

Plugins == {<<d>> : d \in Device}
Scheduler == INSTANCE CollectionScheduler

collection == <<pc, slots, queue>>
sched == <<running, state, closing, tasks, jobs, pending, collection, starts>>
manager == <<shouldCollect, configChanged, version, beats>>
startup == <<main, startCollecting>>
refreshing == <<refresh, fetched>>
own == <<startup, schedulerRunning, known, manager, refreshing, server>>
vars == <<sched, own>>

\* The loop's own heartbeats, and send_immediate() of the start-up.
Sender == {"loop", "immediate"}
Idle == [at |-> "idle"]
Beat ==
    {Idle} \cup [at : {"sent"}, version : Configs \cup {NoVersion}]
           \cup [at : {"answered"}, collect : BOOLEAN, changed : BOOLEAN]

TypeOK ==
    /\ Scheduler!TypeOK
    /\ main \in {"heartbeat", "load", "schedule", "up", "exited",
                 "stopping", "cancelling", "draining", "stopped"}
    /\ startCollecting \in BOOLEAN /\ schedulerRunning \in BOOLEAN
    /\ known \subseteq Device
    /\ shouldCollect \in BOOLEAN /\ configChanged \in BOOLEAN
    /\ version \in Configs \cup {NoVersion}
    /\ beats \in [Sender -> Beat]
    /\ refresh \in {"sleep", "fetch", "apply"}
    /\ fetched \in Configs
    /\ server \in [config : Configs, collect : BOOLEAN,
                   changes : 0 .. MaxChanges, roles : 0 .. MaxRoleChanges]

\* start() has fetched the configuration and started the heartbeat loop;
\* send_immediate() is in flight beside the loop's first heartbeat.
Init ==
    /\ Scheduler!Init
    /\ main = "heartbeat"
    /\ startCollecting = TRUE /\ schedulerRunning = FALSE
    /\ known = {}
    /\ shouldCollect = TRUE /\ configChanged = FALSE
    /\ version = NoVersion
    /\ beats = [s \in Sender |-> [at |-> "sent", version |-> NoVersion]]
    /\ refresh = "sleep"
    /\ server \in [config : Configs, collect : BOOLEAN, changes : {0}, roles : {0}]
    /\ fetched = server.config

-----------------------------------------------------------------------------
(* The server (external) *)

ServerChanges ==
    /\ server.changes < MaxChanges
    /\ \E config \in Configs \ {server.config} :
          server' = [server EXCEPT !.config = config, !.changes = @ + 1]
    /\ UNCHANGED <<sched, startup, schedulerRunning, known, manager,
                   refreshing>>

\* An operator, or the server's own failover.
ServerAssigns ==
    /\ server.roles < MaxRoleChanges
    /\ server' = [server EXCEPT !.collect = ~ @, !.roles = @ + 1]
    /\ UNCHANGED <<sched, startup, schedulerRunning, known, manager,
                   refreshing>>

ServerAnswers(s) ==
    /\ beats[s].at = "sent"
    /\ beats' = [beats EXCEPT ![s] =
          [at |-> "answered", collect |-> server.collect,
           changed |-> beats[s].version # server.config]]
    /\ UNCHANGED <<sched, startup, schedulerRunning, known, shouldCollect,
                   configChanged, version, refreshing, server>>

-----------------------------------------------------------------------------
(* HeartbeatManager *)

\* The loop sends at once and then every HEARTBEAT_INTERVAL, one at a time.
SendHeartbeat ==
    /\ main \notin {"exited", "stopped"}
    /\ beats["loop"] = Idle
    /\ beats' = [beats EXCEPT !["loop"] = [at |-> "sent", version |-> version]]
    /\ UNCHANGED <<sched, startup, schedulerRunning, known, shouldCollect,
                   configChanged, version, refreshing, server>>

\* Whoever answers last decides the role: nothing orders the two senders.
TakeAnswer(s) ==
    /\ beats[s].at = "answered"
    /\ shouldCollect' = beats[s].collect
    /\ configChanged' = beats[s].changed
    /\ beats' = [beats EXCEPT ![s] = Idle]

\* Mutant of LoopAnswered: the role of the answer is dropped.
LoopIgnoresRole ==
    /\ beats["loop"].at = "answered"
    /\ configChanged' = beats["loop"].changed
    /\ beats' = [beats EXCEPT !["loop"] = Idle]
    /\ UNCHANGED <<sched, startup, schedulerRunning, known, shouldCollect,
                   version, refreshing, server>>

LoopAnswered ==
    /\ TakeAnswer("loop")
    /\ UNCHANGED <<sched, startup, schedulerRunning, known, version,
                   refreshing, server>>

\* A timeout or an error only counts a failure.
LoopFails ==
    /\ beats["loop"] # Idle
    /\ beats' = [beats EXCEPT !["loop"] = Idle]
    /\ UNCHANGED <<sched, startup, schedulerRunning, known, shouldCollect,
                   configChanged, version, refreshing, server>>

-----------------------------------------------------------------------------
(* Collector.start() *)

\* The first answer, or "assume primary if can't reach server"; the version of
\* the configuration fetched before is reported from now on.
StartAnswered ==
    /\ main = "heartbeat"
    /\ TakeAnswer("immediate")
    /\ startCollecting' = beats["immediate"].collect
    /\ version' = fetched
    /\ main' = "load"
    /\ UNCHANGED <<sched, schedulerRunning, known, refreshing, server>>

StartUnanswered ==
    /\ main = "heartbeat"
    /\ beats["immediate"] # Idle
    /\ beats' = [beats EXCEPT !["immediate"] = Idle]
    /\ startCollecting' = TRUE
    /\ version' = fetched
    /\ main' = "load"
    /\ UNCHANGED <<sched, schedulerRunning, known, shouldCollect,
                   configChanged, refreshing, server>>

Present(config) == {d \in Device : config[d] # "absent"}

Enabled(config) == {d \in Device : config[d] = "on"}

\* instantiate_plugin() returns None for a plugin that is not found or whose
\* constructor raises: `if plugin` then schedules nothing of it.
Pollable(config) == Enabled(config) \ NoPlugin

\* _load_plugins_from_config(): every device is known, the enabled ones of each plugin
\* that can be instantiated are scheduled; none of them is refused.
LoadPlugins ==
    /\ main = "load"
    /\ Pollable(fetched) \cap ShortInterval = {}
    /\ known' = Present(fetched)
    /\ tasks' = tasks \cup Pollable(fetched)
    /\ Scheduler!SetJobs(Pollable(fetched), {})
    /\ main' = "schedule"
    /\ UNCHANGED <<running, closing, collection, starts,
                   startCollecting, schedulerRunning, manager, refreshing, server>>

\* add_job() raises, start() with it, and the process exits.  initialize() does not
\* raise: no plugin overrides BasePlugin's, which only logs.
LoadRaises ==
    /\ main = "load"
    /\ Pollable(fetched) \cap ShortInterval # {}
    /\ main' = "exited"
    /\ UNCHANGED <<sched, startCollecting, schedulerRunning, known, manager,
                   refreshing, server>>

\* The scheduler starts only if this collector should collect.
StartScheduler ==
    /\ main = "schedule"
    /\ main' = "up"
    /\ schedulerRunning' = startCollecting
    /\ \/ startCollecting /\ Scheduler!Start
       \/ ~ startCollecting /\ UNCHANGED sched
    /\ UNCHANGED <<startCollecting, known, manager, refreshing, server>>

-----------------------------------------------------------------------------
(* _monitor_role() *)

\* Mutant of RoleMonitored: stop() does not cancel the role monitor.
RoleAlwaysMonitored ==
    main \in {"up", "stopping", "cancelling", "draining", "stopped"}

\* From the end of start() until stop() has cancelled it, the monitor looks at
\* the role after each sleep.
RoleMonitored == main \in {"up", "stopping", "cancelling"}

Promote ==
    /\ RoleMonitored
    /\ shouldCollect /\ ~ schedulerRunning
    /\ Scheduler!Start
    /\ schedulerRunning' = TRUE
    /\ UNCHANGED <<startup, known, manager, refreshing, server>>

\* Mutant of Demote: the scheduler's own flag is all that changes.
DemoteFlagOnly ==
    /\ RoleMonitored
    /\ ~ shouldCollect /\ schedulerRunning
    /\ schedulerRunning' = FALSE
    /\ UNCHANGED <<sched, startup, known, manager, refreshing, server>>

Demote ==
    /\ RoleMonitored
    /\ ~ shouldCollect /\ schedulerRunning
    /\ Scheduler!Stop
    /\ schedulerRunning' = FALSE
    /\ UNCHANGED <<startup, known, manager, refreshing, server>>

-----------------------------------------------------------------------------
(* _refresh_config() *)

\* Only when the last heartbeat said that the configuration has changed.
RefreshBegin ==
    /\ main \in {"up", "stopping"} /\ refresh = "sleep"
    /\ configChanged
    /\ refresh' = "fetch"
    /\ UNCHANGED <<sched, startup, schedulerRunning, known, manager,
                   fetched, server>>

RefreshFetches ==
    /\ refresh = "fetch"
    /\ fetched' = server.config
    /\ refresh' = "apply"
    /\ UNCHANGED <<sched, startup, schedulerRunning, known, manager, server>>

\* fetch_config() or build_plugin_configs() raises.
RefreshFails ==
    /\ refresh = "fetch"
    /\ refresh' = "sleep"
    /\ UNCHANGED <<sched, startup, schedulerRunning, known, manager,
                   fetched, server>>

\* Mutant of Removed: the devices that are disabled, not those that are gone.
RemovedDisabled == {d \in known : fetched[d] = "off"}

Removed == known \ Present(fetched)

\* The devices of a plugin that are new, and those of them that are to be scheduled.
NewIn(g) == {d \in ToSet(g) : fetched[d] # "absent" /\ d \notin known}
PollableIn(g) == NewIn(g) \cap Pollable(fetched)
RefusedIn(g) == PollableIn(g) \cap ShortInterval

\* The devices of PollableIn(g) before the first that add_job() refuses.
AddedIn(g) ==
    PollableIn(g) \cap
        {g[i] : i \in {j \in 1 .. Len(g) : \A k \in 1 .. j : g[k] \notin RefusedIn(g)}}

\* Without an await in between: the new version is reported, devices that are
\* gone are unscheduled, new ones become known and, if their plugin can be
\* instantiated, are scheduled, plugin by plugin.  A known device is left as it is,
\* whatever changed about it, also if it was not scheduled.  An exception ends the
\* pass: the plugins after it are not looked at.
RefreshApplies ==
    /\ refresh = "apply"
    /\ version' = fetched
    /\ refresh' = "sleep"
    /\ \E k \in 0 .. Len(Groups) :
          /\ \A i \in 1 .. k - 1 : RefusedIn(Groups[i]) = {}
          /\ k = Len(Groups) \/ (k > 0 /\ RefusedIn(Groups[k]) # {})
          /\ LET seen  == UNION {NewIn(Groups[i]) : i \in 1 .. k}
                 added == UNION {AddedIn(Groups[i]) : i \in 1 .. k} IN
             /\ known' = (known \ Removed) \cup seen
             /\ tasks' = (tasks \ Removed) \cup added
             /\ Scheduler!SetJobs(added, Removed \cap tasks)
    /\ UNCHANGED <<running, closing, collection, starts,
                   startup, schedulerRunning, shouldCollect, configChanged, beats,
                   fetched, server>>

-----------------------------------------------------------------------------
(* Collector.stop(), called by run() once start() has returned *)

\* The signal: the watchdog is cancelled first.
StopBegin ==
    /\ main = "up"
    /\ main' = "stopping"
    /\ UNCHANGED <<sched, startCollecting, schedulerRunning, known, manager,
                   refreshing, server>>

\* The refresh is cancelled in its sleep or in its fetch, so nothing of the
\* configuration it was fetching is applied.
CancelRefresh ==
    /\ main = "stopping"
    /\ main' = "cancelling"
    /\ refresh' = "sleep"
    /\ UNCHANGED <<sched, startCollecting, schedulerRunning, known, manager,
                   fetched, server>>

\* Then the role monitor; the syslog components stop while the scheduler and
\* the heartbeats go on.
CancelRoleMonitor ==
    /\ main = "cancelling"
    /\ main' = "draining"
    /\ UNCHANGED <<sched, startCollecting, schedulerRunning, known, manager,
                   refreshing, server>>

\* The heartbeats stop, then the scheduler, whose shutdown is only queued.  The
\* monitor's flag is left as it is.
StopScheduler ==
    /\ main = "draining"
    /\ main' = "stopped"
    /\ beats' = [beats EXCEPT !["loop"] = Idle]
    /\ \/ running /\ Scheduler!Stop
       \/ ~ running /\ UNCHANGED sched
    /\ UNCHANGED <<startCollecting, schedulerRunning, known, shouldCollect,
                   configChanged, version, refreshing, server>>

StopStep == CancelRefresh \/ CancelRoleMonitor \/ StopScheduler

-----------------------------------------------------------------------------

SchedulerStep ==
    /\ \/ Scheduler!Shutdown
       \/ \E d \in Device :
             Scheduler!Fire(d) \/ Scheduler!CollectEnds(d)
    /\ UNCHANGED own

HeartbeatStep ==
    \/ SendHeartbeat \/ LoopAnswered \/ LoopFails
    \/ \E s \in Sender : ServerAnswers(s)

StartStep ==
    StartAnswered \/ StartUnanswered \/ LoadPlugins \/ LoadRaises \/ StartScheduler

\* Nothing is left to happen: not a deadlock.
Exited == main \in {"exited", "stopped"} /\ UNCHANGED vars

RefreshStep == RefreshBegin \/ RefreshFetches \/ RefreshFails \/ RefreshApplies

Next ==
    \/ ServerChanges \/ ServerAssigns
    \/ HeartbeatStep \/ StartStep
    \/ Promote \/ Demote
    \/ RefreshStep
    \/ SchedulerStep
    \/ StopBegin \/ StopStep
    \/ Exited

Spec == Init /\ [][Next]_vars

(***************************************************************************)
(* The loops of main.py and of the heartbeat manager run for ever; a       *)
(* heartbeat and a fetch may fail, but not every time (strong fairness of  *)
(* their success).  Nothing says that the collector is told to stop; once  *)
(* it is, each wait of stop() is for a task it has cancelled.              *)
(***************************************************************************)
FairSpec ==
    /\ Spec
    /\ WF_vars(StartStep) /\ WF_vars(Promote) /\ WF_vars(Demote)
    /\ WF_vars(SendHeartbeat)
    /\ SF_vars(ServerAnswers("loop"))
    /\ SF_vars(LoopAnswered)
    /\ WF_vars(RefreshStep) /\ SF_vars(RefreshFetches)
    /\ WF_vars(Scheduler!Shutdown /\ UNCHANGED own)
    /\ WF_vars(StopStep)

-----------------------------------------------------------------------------
(* Properties *)

\* The flag of the role monitor is the flag of the scheduler: the one never
\* believes the other to run when it does not, until stop() ends both.
FlagsAgree == main # "stopped" => schedulerRunning = running

\* start() has raised, or stop() has begun: the server's wishes no longer count.
Ending == main \notin {"heartbeat", "load", "schedule", "up"}

\* A device the server adds or drops is noticed once the configuration rests,
\* however many heartbeats and fetches fail.  A configuration with a device that
\* APScheduler refuses is excepted: it may never be applied as a whole.
MembershipConverges ==
    <>[](\/ Ending
         \/ Pollable(server.config) \cap ShortInterval # {}
         \/ known = Present(server.config))

\* Whatever the order of the first answers, the collector ends in its role.
RoleConverges == <>[](Ending \/ running = server.collect)

\* What stop() has stopped stays so: in the end no collection runs and none will
\* start, although heartbeats bring new roles until the scheduler is stopped.
StoppedForGood ==
    main = "stopped" ~>
        [](state = "stopped" /\ jobs = {} /\ \A d \in Device : pc[d] = "none")

\* "Periodically check for device changes and update the scheduler": in the
\* end a running scheduler polls the devices that the server has enabled.
EnabledDevicesPolled ==
    <>[](running /\ ~ Ending => tasks = Enabled(server.config))

=============================================================================
