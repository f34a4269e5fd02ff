-------------------------- MODULE Collector_proofs --------------------------
(***************************************************************************)
(* Theorems about Collector, for any devices, configurations and bounds.   *)
(* What CollectionScheduler_proofs shows of the scheduler on its own is    *)
(* shown again of the composition, where start(), stop() and the devices   *)
(* come from the tasks of main.py: a theorem about Scheduler!Next says     *)
(* nothing of the steps that bypass it, the load and the refresh.          *)
(***************************************************************************)
EXTENDS Collector, SequenceTheorems, FiniteSetTheorems, TLAPS

USE DEF Sender, Idle

-----------------------------------------------------------------------------
(* The types of what the control tasks keep *)

OwnInv ==
    /\ main \in {"heartbeat", "load", "schedule", "up", "exited",
                 "stopping", "cancelling", "draining", "stopped"}
    /\ startCollecting \in BOOLEAN /\ schedulerRunning \in BOOLEAN
    /\ known \subseteq Device
    /\ shouldCollect \in BOOLEAN /\ configChanged \in BOOLEAN
    /\ version \in Configs \cup {NoVersion}
    /\ beats \in [Sender -> Beat]
    /\ refresh \in {"sleep", "fetch", "apply"}
    /\ fetched \in Configs
    /\ server \in [config : Configs, collect : BOOLEAN,
                   changes : 0 .. MaxChanges, roles : 0 .. MaxRoleChanges]

LEMMA OwnInit == Init => OwnInv
<1> SUFFICES ASSUME Init PROVE OwnInv
  OBVIOUS
<1>1. server \in [config : Configs, collect : BOOLEAN,
                 changes : 0 .. MaxChanges, roles : 0 .. MaxRoleChanges]
  <2>1. 0 \in 0 .. MaxChanges /\ 0 \in 0 .. MaxRoleChanges
    BY ConfigAssumption
  <2>2. server \in [config : Configs, collect : BOOLEAN, changes : {0}, roles : {0}]
    BY DEF Init
  <2> QED
    BY <2>1, <2>2
<1>2. beats \in [Sender -> Beat]
  <2>1. [at |-> "sent", version |-> NoVersion] \in Beat
    BY DEF Beat
  <2> QED
    BY <2>1 DEF Init
<1>3. fetched \in Configs
  BY <1>1 DEF Init
<1> QED
  BY <1>1, <1>2, <1>3 DEF Init, OwnInv

\* Only a heartbeat that has been answered brings a role and a flag.
LEMMA AnswerTypes ==
    ASSUME OwnInv, NEW s \in Sender, TakeAnswer(s)
    PROVE  /\ beats[s].collect \in BOOLEAN
           /\ shouldCollect' \in BOOLEAN /\ configChanged' \in BOOLEAN
           /\ beats' \in [Sender -> Beat]
<1>1. beats[s] \in [at : {"answered"}, collect : BOOLEAN, changed : BOOLEAN]
  <2>1. beats[s] \in Beat /\ beats[s].at = "answered"
    BY DEF OwnInv, TakeAnswer
  <2> QED
    BY <2>1 DEF Beat
<1>2. Idle \in Beat
  BY DEF Beat
<1> QED
  BY <1>1, <1>2 DEF TakeAnswer, OwnInv

\* A heartbeat that is sent, answered or given up.
LEMMA BeatTypes ==
    ASSUME OwnInv, NEW s \in Sender, NEW b \in Beat, beats' = [beats EXCEPT ![s] = b]
    PROVE  beats' \in [Sender -> Beat]
  BY DEF OwnInv

\* The devices of a refresh: the groups name no others.
LEMMA RefreshTypes ==
    ASSUME OwnInv, RefreshApplies
    PROVE  /\ known' \subseteq Device
           /\ \E added, removed \in SUBSET Device :
                  /\ tasks' = (tasks \ Removed) \cup added
                  /\ Scheduler!SetJobs(added, removed)
<1>1. PICK k \in 0 .. Len(Groups) :
        LET seen  == UNION {NewIn(Groups[i]) : i \in 1 .. k}
            added == UNION {AddedIn(Groups[i]) : i \in 1 .. k} IN
        /\ known' = (known \ Removed) \cup seen
        /\ tasks' = (tasks \ Removed) \cup added
        /\ Scheduler!SetJobs(added, Removed \cap tasks)
  BY Zenon DEF RefreshApplies
<1> DEFINE seen  == UNION {NewIn(Groups[i]) : i \in 1 .. k}
           added == UNION {AddedIn(Groups[i]) : i \in 1 .. k}
<1>2. \A i \in 1 .. k : Groups[i] \in Seq(Device)
  BY ConfigAssumption
<1>3. \A i \in 1 .. k : NewIn(Groups[i]) \subseteq Device /\ AddedIn(Groups[i]) \subseteq Device
  <2>1. \A g \in Seq(Device) : ToSet(g) \subseteq Device
    BY DEF ToSet
  <2> QED
    BY <1>2, <2>1 DEF NewIn, AddedIn, PollableIn
<1>4. seen \subseteq Device /\ added \subseteq Device
  BY <1>3
<1>5. Removed \cap tasks \subseteq Device
  BY DEF OwnInv, Removed
<1>6. /\ known' = (known \ Removed) \cup seen
      /\ tasks' = (tasks \ Removed) \cup added
      /\ Scheduler!SetJobs(added, Removed \cap tasks)
  BY <1>1
<1> HIDE DEF seen, added
<1> QED
  BY <1>4, <1>5, <1>6 DEF OwnInv

LEMMA OwnNext == OwnInv /\ [Next]_vars => OwnInv'
<1> SUFFICES ASSUME OwnInv, [Next]_vars PROVE OwnInv'
  OBVIOUS
<1>1. CASE ServerChanges
  <2>1. PICK config \in Configs :
            server' = [server EXCEPT !.config = config, !.changes = @ + 1]
    BY <1>1 DEF ServerChanges
  <2>2. server.changes + 1 \in 0 .. MaxChanges
    BY <1>1, ConfigAssumption DEF ServerChanges, OwnInv
  <2>3. server' \in [config : Configs, collect : BOOLEAN,
                    changes : 0 .. MaxChanges, roles : 0 .. MaxRoleChanges]
    BY <2>1, <2>2 DEF OwnInv
  <2> QED
    BY <1>1, <2>3 DEF ServerChanges, OwnInv, startup, manager, refreshing
<1>2. CASE ServerAssigns
  <2>1. /\ server.roles + 1 \in 0 .. MaxRoleChanges
        /\ (~ server.collect) \in BOOLEAN
    BY <1>2, ConfigAssumption DEF ServerAssigns, OwnInv
  <2>2. server' = [server EXCEPT !.collect = ~ @, !.roles = @ + 1]
    BY <1>2 DEF ServerAssigns
  <2> QED
    BY <1>2, <2>1, <2>2 DEF ServerAssigns, OwnInv, startup, manager, refreshing
<1>3. ASSUME NEW s \in Sender, ServerAnswers(s) PROVE OwnInv'
  <2> DEFINE b == [at |-> "answered", collect |-> server.collect,
                   changed |-> beats[s].version # server.config]
  <2>1. b \in Beat /\ beats' = [beats EXCEPT ![s] = b]
    BY <1>3 DEF ServerAnswers, OwnInv, Beat
  <2> HIDE DEF b
  <2>2. beats' \in [Sender -> Beat]
    BY <2>1, BeatTypes
  <2> QED
    BY <1>3, <2>2 DEF ServerAnswers, OwnInv, startup, refreshing
<1>4. CASE SendHeartbeat
  <2> DEFINE b == [at |-> "sent", version |-> version]
  <2>1. b \in Beat /\ beats' = [beats EXCEPT !["loop"] = b]
    BY <1>4 DEF SendHeartbeat, OwnInv, Beat
  <2> HIDE DEF b
  <2>2. beats' \in [Sender -> Beat]
    BY <2>1, BeatTypes
  <2> QED
    BY <1>4, <2>2 DEF SendHeartbeat, OwnInv, startup, refreshing
<1>5. CASE LoopAnswered
  BY <1>5, AnswerTypes DEF LoopAnswered, OwnInv, startup, refreshing
<1>i. Idle \in Beat
  BY DEF Beat
<1>6. CASE LoopFails
  BY <1>6, <1>i, BeatTypes DEF LoopFails, OwnInv, startup, refreshing
<1>7. CASE StartAnswered
  BY <1>7, AnswerTypes DEF StartAnswered, OwnInv, refreshing
<1>8. CASE StartUnanswered
  BY <1>8, <1>i, BeatTypes DEF StartUnanswered, OwnInv, refreshing
<1>9. CASE LoadPlugins \/ LoadRaises
  BY <1>9 DEF LoadPlugins, LoadRaises, OwnInv, manager, refreshing, Present
<1>10. CASE StartScheduler \/ Promote \/ Demote
  BY <1>10 DEF StartScheduler, Promote, Demote, OwnInv, startup, manager, refreshing
<1>11. CASE RefreshBegin \/ RefreshFails
  BY <1>11 DEF RefreshBegin, RefreshFails, OwnInv, startup, manager
<1>12. CASE RefreshFetches
  <2>1. server.config \in Configs
    BY DEF OwnInv
  <2> QED
    BY <1>12, <2>1 DEF RefreshFetches, OwnInv, startup, manager
<1>13. CASE RefreshApplies
  BY <1>13, RefreshTypes DEF RefreshApplies, OwnInv, startup
<1>14. CASE StopBegin \/ CancelRefresh \/ CancelRoleMonitor
  BY <1>14 DEF StopBegin, CancelRefresh, CancelRoleMonitor, OwnInv, manager, refreshing
<1>15. CASE StopScheduler
  BY <1>15, <1>i, BeatTypes DEF StopScheduler, OwnInv, refreshing
<1>16. CASE UNCHANGED own
  BY <1>16 DEF own, startup, manager, refreshing, OwnInv
<1> QED
  BY <1>1, <1>2, <1>3, <1>4, <1>5, <1>6, <1>7, <1>8, <1>9, <1>10, <1>11, <1>12, <1>13,
     <1>14, <1>15, <1>16
     DEF Next, HeartbeatStep, StartStep, RefreshStep, SchedulerStep, StopStep, Exited, vars

-----------------------------------------------------------------------------
(* The flags of the role monitor and of the scheduler *)

\* The scheduler is started by start() at the earliest, which looks at its own
\* variable and not at the scheduler.
StartInv == main \in {"heartbeat", "load", "schedule", "exited"} => running = FALSE

FlagInv == OwnInv /\ StartInv /\ FlagsAgree

LEMMA FlagInit == Init => FlagInv
  BY OwnInit DEF Init, FlagInv, StartInv, FlagsAgree, Scheduler!Init

LEMMA FlagNext == FlagInv /\ [Next]_vars => FlagInv'
<1> SUFFICES ASSUME FlagInv, [Next]_vars PROVE (StartInv /\ FlagsAgree)'
  BY OwnNext DEF FlagInv
<1> USE DEF FlagInv, StartInv, FlagsAgree
<1>1. CASE ServerChanges \/ ServerAssigns \/ HeartbeatStep
  <2>1. UNCHANGED <<running, main, schedulerRunning>>
    BY <1>1 DEF ServerChanges, ServerAssigns, HeartbeatStep, SendHeartbeat, LoopAnswered,
        LoopFails, ServerAnswers, sched, startup
  <2> QED
    BY <2>1
<1>2. CASE StartAnswered \/ StartUnanswered \/ LoadPlugins \/ LoadRaises
  <2>1. /\ main \in {"heartbeat", "load"} /\ main' \in {"load", "schedule", "exited"}
        /\ UNCHANGED <<running, schedulerRunning>>
    BY <1>2 DEF StartAnswered, StartUnanswered, LoadPlugins, LoadRaises, sched
  <2> QED
    BY <2>1
<1>3. CASE StartScheduler
  BY <1>3 DEF StartScheduler, Scheduler!Start, sched, OwnInv
<1>4. CASE Promote \/ Demote
  BY <1>4 DEF Promote, Demote, RoleMonitored, Scheduler!Start, Scheduler!Stop, startup
<1>5. CASE RefreshStep
  <2>1. UNCHANGED <<running, main, schedulerRunning>>
    BY <1>5 DEF RefreshStep, RefreshBegin, RefreshFetches, RefreshFails, RefreshApplies,
        sched, startup
  <2> QED
    BY <2>1
<1>6. CASE SchedulerStep
  <2>1. UNCHANGED <<running, main, schedulerRunning>>
    BY <1>6 DEF SchedulerStep, own, startup, Scheduler!Shutdown, Scheduler!Fire,
        Scheduler!CollectEnds
  <2> QED
    BY <2>1
<1>7. CASE StopBegin \/ StopStep
  BY <1>7 DEF StopBegin, StopStep, CancelRefresh, CancelRoleMonitor, StopScheduler, sched
<1>8. CASE UNCHANGED vars
  BY <1>8 DEF vars, sched, own, startup
<1> QED
  BY <1>1, <1>2, <1>3, <1>4, <1>5, <1>6, <1>7, <1>8 DEF Next, StartStep, Exited

\* Whatever roles come in whatever order, the role monitor never takes the
\* scheduler for running or stopped when it is not, until stop() (FlagsAgree).
THEOREM MonitorKnows == Spec => []FlagsAgree
<1>1. FlagInv => FlagsAgree
  BY DEF FlagInv
<1> QED
  BY <1>1, FlagInit, FlagNext, PTL DEF Spec

-----------------------------------------------------------------------------
(* The jobs of the scheduler.  The refresh schedules and unschedules in one   *)
(* pass, whether APScheduler runs or not.                                     *)

JobInv ==
    /\ state \in {"running", "stopped"}
    /\ state = "running" => pending = {}
    /\ state = "stopped" => jobs = {}
    /\ Scheduler!NoOrphanJob

LEMMA JobInit == Init => JobInv
  BY DEF Init, JobInv, Scheduler!Init, Scheduler!NoOrphanJob

LEMMA SetJobsKeepsJobs ==
    ASSUME JobInv, NEW added, NEW removed, Scheduler!SetJobs(added, removed),
           (tasks \ removed) \cup added \subseteq tasks'
    PROVE  JobInv'
  BY DEF JobInv, Scheduler!SetJobs, Scheduler!NoOrphanJob

LEMMA LoadKeepsJobs == JobInv /\ LoadPlugins => JobInv'
  BY SetJobsKeepsJobs DEF LoadPlugins

LEMMA RefreshKeepsJobs == JobInv /\ RefreshApplies => JobInv'
<1> SUFFICES ASSUME JobInv, RefreshApplies PROVE JobInv'
  OBVIOUS
<1>1. PICK k \in 0 .. Len(Groups) :
        LET added == UNION {AddedIn(Groups[i]) : i \in 1 .. k} IN
        /\ tasks' = (tasks \ Removed) \cup added
        /\ Scheduler!SetJobs(added, Removed \cap tasks)
  BY Zenon DEF RefreshApplies
<1> DEFINE added == UNION {AddedIn(Groups[i]) : i \in 1 .. k}
<1>2. tasks' = (tasks \ Removed) \cup added /\ Scheduler!SetJobs(added, Removed \cap tasks)
  BY <1>1
<1> HIDE DEF added
<1>3. (tasks \ (Removed \cap tasks)) \cup added \subseteq tasks'
  BY <1>2
<1> QED
  BY <1>2, <1>3, SetJobsKeepsJobs

LEMMA JobNext == JobInv /\ [Next]_vars => JobInv'
<1> SUFFICES ASSUME JobInv, [Next]_vars PROVE JobInv'
  OBVIOUS
<1>1. CASE LoadPlugins \/ RefreshApplies
  BY <1>1, LoadKeepsJobs, RefreshKeepsJobs
<1>2. CASE Scheduler!Start
  BY <1>2 DEF Scheduler!Start, JobInv, Scheduler!NoOrphanJob
<1>3. CASE Scheduler!Stop
  BY <1>3 DEF Scheduler!Stop, Scheduler!library, JobInv, Scheduler!NoOrphanJob
<1>4. CASE SchedulerStep
  <2>1. CASE Scheduler!Shutdown
    BY <2>1 DEF Scheduler!Shutdown, Scheduler!StoreAfterShutdown, JobInv, Scheduler!NoOrphanJob
  <2>2. ASSUME NEW d \in Device, Scheduler!Fire(d) \/ Scheduler!CollectEnds(d)
        PROVE  JobInv'
    BY <2>2 DEF Scheduler!Fire, Scheduler!CollectEnds, Scheduler!library, JobInv,
        Scheduler!NoOrphanJob
  <2> QED
    BY <1>4, <2>1, <2>2 DEF SchedulerStep
<1>5. CASE UNCHANGED <<state, pending, jobs, tasks>>
  BY <1>5 DEF JobInv, Scheduler!NoOrphanJob
<1>6. CASE ServerChanges \/ ServerAssigns \/ HeartbeatStep
  <2>1. UNCHANGED sched
    BY <1>6 DEF ServerChanges, ServerAssigns, HeartbeatStep, SendHeartbeat, LoopAnswered,
        LoopFails, ServerAnswers
  <2> QED
    BY <1>5, <2>1 DEF sched
<1>7. CASE StartStep
  BY <1>1, <1>2, <1>5, <1>7 DEF StartStep, StartAnswered, StartUnanswered, LoadRaises,
      StartScheduler, sched
<1>8. CASE Promote \/ Demote
  BY <1>2, <1>3, <1>8 DEF Promote, Demote
<1>9. CASE RefreshStep
  BY <1>1, <1>5, <1>9 DEF RefreshStep, RefreshBegin, RefreshFetches, RefreshFails, sched
<1>10. CASE StopBegin \/ StopStep
  BY <1>3, <1>5, <1>10 DEF StopBegin, StopStep, CancelRefresh, CancelRoleMonitor,
      StopScheduler, sched
<1>11. CASE UNCHANGED vars
  BY <1>5, <1>11 DEF vars, sched
<1> QED
  BY <1>4, <1>6, <1>7, <1>8, <1>9, <1>10, <1>11 DEF Next, Exited

\* However starts, refreshes, roles and the stop interleave, no job polls a device
\* that the scheduler does not know of.
THEOREM RefreshLeavesNoOrphan == Spec => []Scheduler!NoOrphanJob
<1>1. JobInv => Scheduler!NoOrphanJob
  BY DEF JobInv
<1> QED
  BY <1>1, JobInit, JobNext, PTL DEF Spec

-----------------------------------------------------------------------------
(* The semaphore, under the starts and stops of the control tasks.            *)

\* Nothing is collected while APScheduler is stopped, and it is stopped only
\* when the shutdown that stop() queued has run.
RunInv ==
    /\ state = "running" <=> running \/ closing
    /\ ~ (running /\ closing)
    /\ state = "stopped" => queue = <<>> /\ \A d \in Device : pc[d] = "none"

Queued(d) == \E i \in 1 .. Len(queue) : queue[i] = d

QueueInv ==
    /\ queue # <<>> => slots = 0
    /\ \A d \in Device : pc[d] = "queued" <=> Queued(d)
    /\ \A i, j \in 1 .. Len(queue) : queue[i] = queue[j] => i = j

SlotsInv ==
    /\ IsFiniteSet(Scheduler!Collecting)
    /\ state = "running" => slots + Cardinality(Scheduler!Collecting) = MaxConcurrent

SInv == Scheduler!TypeOK /\ RunInv /\ QueueInv /\ SlotsInv

LEMMA SInvInit == Init => SInv
<1> SUFFICES ASSUME Init PROVE SInv
  OBVIOUS
<1>1. Scheduler!TypeOK
  <2>1. /\ 0 \in 0 .. MaxConcurrent /\ 0 \in 0 .. MaxStarts
        /\ \A d \in Device : pc[d] = "none"
    BY SchedulerAssumption DEF Init, Scheduler!Init
  <2>2. queue \in Seq(Device) /\ pc \in [Device -> {"none", "queued", "collecting"}]
    BY EmptySeq DEF Init, Scheduler!Init
  <2> QED
    BY <2>1, <2>2 DEF Init, Scheduler!Init, Scheduler!TypeOK
<1>2. Scheduler!Collecting = {}
  BY DEF Init, Scheduler!Init, Scheduler!Collecting
<1> QED
  BY <1>1, <1>2, FS_EmptySet
     DEF Init, Scheduler!Init, SInv, RunInv, QueueInv, Queued, SlotsInv

\* A step that touches neither the semaphore nor the collections.
LEMMA SInvStays ==
    ASSUME SInv, UNCHANGED <<pc, slots, queue>>, UNCHANGED state, Scheduler!TypeOK', RunInv'
    PROVE  SInv'
  BY DEF SInv, QueueInv, Queued, SlotsInv, Scheduler!Collecting

\* Scheduling and unscheduling, by the load or by the refresh.
LEMMA JobsKeepSlots ==
    ASSUME SInv, NEW added \in SUBSET Device, NEW removed, Scheduler!SetJobs(added, removed),
           tasks' \subseteq Device, UNCHANGED <<running, closing, starts>>,
           UNCHANGED <<pc, slots, queue>>
    PROVE  SInv'
<1>1. Scheduler!TypeOK' /\ UNCHANGED state
  BY DEF SInv, Scheduler!TypeOK, Scheduler!SetJobs
<1>2. RunInv'
  BY <1>1 DEF SInv, RunInv
<1> QED
  BY <1>1, <1>2, SInvStays

\* start() makes a new semaphore, which is right only because no collection
\* survives a shutdown.
LEMMA StartKeepsSlots == ASSUME SInv, Scheduler!Start PROVE SInv'
<1>1. /\ state = "stopped" /\ queue' = <<>> /\ slots' = MaxConcurrent
      /\ UNCHANGED pc /\ state' = "running" /\ running' = TRUE
  BY DEF Scheduler!Start, SInv, RunInv, Scheduler!TypeOK
<1>2. Scheduler!TypeOK' /\ RunInv'
  BY <1>1, SchedulerAssumption, EmptySeq DEF Scheduler!Start, SInv, Scheduler!TypeOK, RunInv
<1>3. Scheduler!Collecting' = {}
  BY <1>1 DEF SInv, RunInv, Scheduler!Collecting
<1>4. QueueInv' /\ SlotsInv'
  BY <1>1, <1>3, FS_EmptySet, SchedulerAssumption
     DEF SInv, RunInv, QueueInv, Queued, SlotsInv
<1> QED
  BY <1>2, <1>4 DEF SInv

LEMMA StopKeepsSlots == ASSUME SInv, Scheduler!Stop PROVE SInv'
<1>1. Scheduler!TypeOK' /\ RunInv' /\ UNCHANGED state /\ UNCHANGED <<pc, slots, queue>>
  BY DEF Scheduler!Stop, SInv, Scheduler!TypeOK, RunInv, Scheduler!library,
         Scheduler!collection
<1> QED
  BY <1>1, SInvStays

LEMMA ShutdownKeepsSlots == ASSUME SInv, Scheduler!Shutdown PROVE SInv'
<1>1. Scheduler!TypeOK'
  <2>1. /\ MaxConcurrent \in 0 .. MaxConcurrent /\ <<>> \in Seq(Device)
        /\ [d \in Device |-> "none"] \in [Device -> {"none", "queued", "collecting"}]
    BY SchedulerAssumption, EmptySeq
  <2> QED
    BY <2>1 DEF Scheduler!Shutdown, Scheduler!StoreAfterShutdown, SInv, Scheduler!TypeOK
<1>2. RunInv'
  <2>1. closing /\ ~ closing' /\ running' = running /\ state' = "stopped"
    BY DEF Scheduler!Shutdown, SInv, Scheduler!TypeOK
  <2>2. queue' = <<>> /\ \A d \in Device : pc'[d] = "none"
    BY DEF Scheduler!Shutdown
  <2> QED
    BY <2>1, <2>2, Zenon DEF SInv, RunInv
<1>3. Scheduler!Collecting' = {}
  BY DEF Scheduler!Shutdown, Scheduler!Collecting
<1>4. QueueInv' /\ SlotsInv'
  BY <1>3, FS_EmptySet DEF Scheduler!Shutdown, QueueInv, Queued, SlotsInv
<1> QED
  BY <1>1, <1>2, <1>4 DEF SInv

\* A job that is due takes a slot or waits for one.
LEMMA FireKeepsSlots ==
    ASSUME SInv, NEW d \in Device, Scheduler!Fire(d)
    PROVE  SInv'
<1>t. /\ pc \in [Device -> {"none", "queued", "collecting"}]
      /\ queue \in Seq(Device) /\ slots \in 0 .. MaxConcurrent /\ MaxConcurrent \in Nat
  BY SchedulerAssumption DEF SInv, Scheduler!TypeOK
<1>1. CASE slots > 0 /\ slots' = slots - 1 /\ pc' = [pc EXCEPT ![d] = "collecting"]
           /\ UNCHANGED queue
  <2>1. Scheduler!TypeOK' /\ RunInv'
    BY <1>t, <1>1 DEF Scheduler!Fire, SInv, Scheduler!TypeOK, RunInv, Scheduler!library
  <2>2. QueueInv'
    BY <1>t, <1>1 DEF Scheduler!Fire, SInv, QueueInv, Queued
  <2>3. Scheduler!Collecting' = Scheduler!Collecting \cup {d} /\ d \notin Scheduler!Collecting
    BY <1>t, <1>1 DEF Scheduler!Fire, Scheduler!Collecting
  <2>4. SlotsInv'
    <3>1. /\ IsFiniteSet(Scheduler!Collecting')
          /\ Cardinality(Scheduler!Collecting') = Cardinality(Scheduler!Collecting) + 1
          /\ Cardinality(Scheduler!Collecting) \in Nat
      BY <2>3, FS_AddElement, FS_CardinalityType DEF SInv, SlotsInv
    <3> QED
      BY <1>t, <1>1, <3>1 DEF Scheduler!Fire, SInv, SlotsInv, Scheduler!library
  <2> QED
    BY <2>1, <2>2, <2>4 DEF SInv
<1>2. CASE slots = 0 /\ queue' = Append(queue, d) /\ pc' = [pc EXCEPT ![d] = "queued"]
           /\ UNCHANGED slots
  <2>1. Scheduler!TypeOK' /\ RunInv'
    BY <1>t, <1>2, AppendProperties
       DEF Scheduler!Fire, SInv, Scheduler!TypeOK, RunInv, Scheduler!library
  <2>2. /\ Len(queue') = Len(queue) + 1 /\ Len(queue) \in Nat
        /\ \A i \in 1 .. Len(queue) : queue'[i] = queue[i]
        /\ queue'[Len(queue) + 1] = d
    BY <1>t, <1>2
  <2>3. \A e \in Device : Queued(e)' <=> Queued(e) \/ e = d
    BY <2>2 DEF Queued
  <2>4. QueueInv'
    <3>1. ~ Queued(d)
      BY DEF Scheduler!Fire, SInv, QueueInv
    <3>2. \A i, j \in 1 .. Len(queue') : queue'[i] = queue'[j] => i = j
      BY <2>2, <3>1 DEF SInv, QueueInv, Queued
    <3> QED
      BY <1>t, <1>2, <2>3, <3>2 DEF SInv, QueueInv
  <2>5. Scheduler!Collecting' = Scheduler!Collecting
    BY <1>t, <1>2 DEF Scheduler!Fire, Scheduler!Collecting
  <2> QED
    BY <1>2, <2>1, <2>4, <2>5 DEF Scheduler!Fire, SInv, SlotsInv, Scheduler!library
<1> QED
  BY <1>1, <1>2 DEF Scheduler!Fire

\* The slot of a collection that ends goes back, or to the first in the queue.
LEMMA EndKeepsSlots ==
    ASSUME SInv, NEW d \in Device, Scheduler!CollectEnds(d)
    PROVE  SInv'
<1>t. /\ pc \in [Device -> {"none", "queued", "collecting"}]
      /\ queue \in Seq(Device) /\ slots \in 0 .. MaxConcurrent /\ MaxConcurrent \in Nat
  BY SchedulerAssumption DEF SInv, Scheduler!TypeOK
<1>c. /\ pc[d] = "collecting" /\ d \in Scheduler!Collecting /\ state = "running"
      /\ Cardinality(Scheduler!Collecting) \in Nat
  BY FS_CardinalityType
     DEF Scheduler!CollectEnds, Scheduler!Collecting, SInv, RunInv, Scheduler!TypeOK, SlotsInv
<1>u. UNCHANGED <<running, closing, tasks, starts>> /\ UNCHANGED <<state, jobs, pending>>
  BY DEF Scheduler!CollectEnds, Scheduler!library
<1>r. /\ IsFiniteSet(Scheduler!Collecting \ {d})
      /\ Cardinality(Scheduler!Collecting \ {d}) = Cardinality(Scheduler!Collecting) - 1
  BY <1>c, FS_RemoveElement DEF SInv, SlotsInv
<1>1. CASE queue = <<>> /\ slots' = slots + 1 /\ pc' = [pc EXCEPT ![d] = "none"]
           /\ UNCHANGED queue
  <2>1. Scheduler!Collecting' = Scheduler!Collecting \ {d}
    BY <1>t, <1>1 DEF Scheduler!Collecting
  <2>2. SlotsInv' /\ slots' \in 0 .. MaxConcurrent
    <3>1. Cardinality(Scheduler!Collecting \ {d}) \in Nat
      BY <1>r, FS_CardinalityType
    <3> QED
      BY <1>t, <1>c, <1>u, <1>r, <1>1, <2>1, <3>1 DEF SInv, SlotsInv
  <2>3. Scheduler!TypeOK' /\ RunInv'
    BY <1>t, <1>c, <1>u, <1>1, <2>2 DEF SInv, Scheduler!TypeOK, RunInv
  <2>4. QueueInv'
    BY <1>t, <1>c, <1>1 DEF SInv, QueueInv, Queued
  <2> QED
    BY <2>2, <2>3, <2>4 DEF SInv
<1>2. CASE /\ queue # <<>> /\ queue' = Tail(queue) /\ UNCHANGED slots
           /\ pc' = [pc EXCEPT ![d] = "none", ![Head(queue)] = "collecting"]
  <2> DEFINE h == Head(queue)
  <2>1. /\ h = queue[1] /\ h \in Device /\ Len(queue) \in Nat \ {0}
        /\ queue' \in Seq(Device) /\ Len(queue') = Len(queue) - 1
        /\ \A i \in 1 .. Len(queue) - 1 : queue'[i] = queue[i + 1]
    BY <1>t, <1>2, HeadTailProperties
  <2>2. pc[h] = "queued" /\ h # d
    BY <1>c, <2>1 DEF SInv, QueueInv, Queued
  <2> HIDE DEF h
  <2>3. /\ pc'[h] = "collecting" /\ pc'[d] = "none"
        /\ \A e \in Device : e # h /\ e # d => pc'[e] = pc[e]
        /\ pc' \in [Device -> {"none", "queued", "collecting"}]
    BY <1>t, <1>2, <2>1, <2>2 DEF h
  <2>4. /\ Scheduler!Collecting' = (Scheduler!Collecting \ {d}) \cup {h}
        /\ h \notin Scheduler!Collecting \ {d}
    BY <2>1, <2>2, <2>3 DEF Scheduler!Collecting
  <2>5. SlotsInv'
    <3>1. /\ IsFiniteSet(Scheduler!Collecting')
          /\ Cardinality(Scheduler!Collecting') = Cardinality(Scheduler!Collecting \ {d}) + 1
      BY <1>r, <2>4, FS_AddElement
    <3> QED
      BY <1>c, <1>u, <1>r, <1>2, <3>1 DEF SInv, SlotsInv
  <2>6. Scheduler!TypeOK' /\ RunInv'
    BY <1>c, <1>u, <1>2, <2>1, <2>3 DEF SInv, Scheduler!TypeOK, RunInv
  <2>7. \A e \in Device : Queued(e)' <=> Queued(e) /\ e # h
    <3>1. ASSUME NEW e \in Device, NEW i \in 1 .. Len(queue) - 1, queue'[i] = e
          PROVE  Queued(e) /\ e # h
      <4>1. i + 1 \in 1 .. Len(queue) /\ 1 \in 1 .. Len(queue) /\ i + 1 # 1
            /\ queue[i + 1] = e
        BY <2>1, <3>1
      <4> QED
        BY <2>1, <4>1 DEF SInv, QueueInv, Queued
    <3>2. ASSUME NEW e \in Device, NEW i \in 1 .. Len(queue), queue[i] = e, e # h
          PROVE  Queued(e)'
      <4>1. i - 1 \in 1 .. Len(queue') /\ queue'[i - 1] = e
        BY <2>1, <3>2
      <4> QED
        BY <4>1 DEF Queued
    <3> QED
      BY <2>1, <3>1, <3>2 DEF Queued
  <2>8. QueueInv'
    <3>1. ASSUME NEW i \in 1 .. Len(queue'), NEW j \in 1 .. Len(queue'),
                 queue'[i] = queue'[j]
          PROVE  i = j
      <4>1. /\ i + 1 \in 1 .. Len(queue) /\ j + 1 \in 1 .. Len(queue)
            /\ queue[i + 1] = queue[j + 1]
        BY <2>1, <3>1
      <4>2. i + 1 = j + 1
        BY <4>1 DEF SInv, QueueInv
      <4> QED
        BY <2>1, <4>2
    <3> QED
      BY <1>c, <1>2, <2>1, <2>2, <2>3, <2>7, <3>1 DEF SInv, QueueInv
  <2> QED
    BY <2>5, <2>6, <2>8 DEF SInv
<1> QED
  BY <1>1, <1>2 DEF Scheduler!CollectEnds, Scheduler!LeaveSemaphore

LEMMA SInvNext == OwnInv /\ SInv /\ [Next]_vars => SInv'
<1> SUFFICES ASSUME OwnInv, SInv, [Next]_vars PROVE SInv'
  OBVIOUS
<1>1. CASE UNCHANGED sched
  BY <1>1 DEF sched, collection, SInv, Scheduler!TypeOK, RunInv, QueueInv, Queued, SlotsInv,
              Scheduler!Collecting
<1>2. CASE ServerChanges \/ ServerAssigns \/ HeartbeatStep
  BY <1>1, <1>2 DEF ServerChanges, ServerAssigns, HeartbeatStep, SendHeartbeat, LoopAnswered,
      LoopFails, ServerAnswers
<1>3. CASE LoadPlugins
  <2>1. Pollable(fetched) \subseteq Device /\ tasks \subseteq Device
    BY DEF Pollable, Enabled, SInv, Scheduler!TypeOK
  <2> QED
    BY <1>3, <2>1, JobsKeepSlots DEF LoadPlugins, collection
<1>4. CASE RefreshApplies
  <2>1. PICK added \in SUBSET Device, removed \in SUBSET Device :
            /\ tasks' = (tasks \ Removed) \cup added
            /\ Scheduler!SetJobs(added, removed)
    BY <1>4, RefreshTypes
  <2>2. tasks' \subseteq Device
    BY <2>1 DEF SInv, Scheduler!TypeOK
  <2> QED
    BY <1>4, <2>1, <2>2, JobsKeepSlots DEF RefreshApplies, collection
<1>5. CASE StartStep
  BY <1>1, <1>3, <1>5, StartKeepsSlots
     DEF StartStep, StartAnswered, StartUnanswered, LoadRaises, StartScheduler
<1>6. CASE Promote \/ Demote
  BY <1>6, StartKeepsSlots, StopKeepsSlots DEF Promote, Demote
<1>7. CASE RefreshStep
  BY <1>1, <1>4, <1>7 DEF RefreshStep, RefreshBegin, RefreshFetches, RefreshFails
<1>8. CASE SchedulerStep
  BY <1>8, ShutdownKeepsSlots, FireKeepsSlots, EndKeepsSlots DEF SchedulerStep
<1>9. CASE StopBegin \/ StopStep
  BY <1>1, <1>9, StopKeepsSlots
     DEF StopBegin, StopStep, CancelRefresh, CancelRoleMonitor, StopScheduler
<1>10. CASE UNCHANGED vars
  BY <1>1, <1>10 DEF vars
<1> QED
  BY <1>2, <1>5, <1>6, <1>7, <1>8, <1>9, <1>10 DEF Next, Exited

LEMMA CInvAlways == Spec => [](OwnInv /\ SInv)
<1>1. Init => OwnInv /\ SInv
  BY OwnInit, SInvInit
<1>2. OwnInv /\ SInv /\ [Next]_vars => (OwnInv /\ SInv)'
  BY OwnNext, SInvNext
<1> QED
  BY <1>1, <1>2, PTL DEF Spec

\* Whatever the server configures and assigns, and however the load, the refresh,
\* the role monitor and the stop interleave, each variable of the collector and of
\* its scheduler keeps to its values; in particular no job is for a device that no
\* plugin has, and the semaphore never holds more than max_concurrent_devices
\* slots, although each start() makes a new one (TypeOK).
THEOREM TypeCorrect == Spec => []TypeOK
<1>1. OwnInv /\ SInv => TypeOK
  BY DEF OwnInv, SInv, TypeOK
<1> QED
  BY <1>1, CInvAlways, PTL

\* No slot of the semaphore is leaked or minted by the demotions and promotions of
\* the role monitor, by a refresh or by the stop.
THEOREM RolesKeepSlots == Spec => []Scheduler!SlotsConserved
<1>1. SInv => Scheduler!SlotsConserved
  <2>1. Scheduler!Cardinality(Scheduler!Collecting) = Cardinality(Scheduler!Collecting)
    BY Zenon DEF Cardinality, Scheduler!Cardinality
  <2> QED
    BY <2>1 DEF SInv, SlotsInv, QueueInv, Queued, Scheduler!SlotsConserved
<1> QED
  BY <1>1, CInvAlways, PTL

-----------------------------------------------------------------------------
(* Devices that are gone, and the end of stop()                               *)

\* Only devices of a configuration that was applied are scheduled; nothing is
\* before the load, and the refresh begins after it.
KnownInv ==
    /\ tasks \subseteq known
    /\ main \in {"heartbeat", "load"} => tasks = {}
    /\ main \in {"heartbeat", "load", "schedule", "exited"} => refresh = "sleep"

\* A refresh first unschedules what is gone; what it schedules is there.
LEMMA RefreshSchedules ==
    ASSUME KnownInv, RefreshApplies
    PROVE  tasks' \subseteq known' /\ tasks' \subseteq Present(fetched)
<1>1. PICK k \in 0 .. Len(Groups) :
        LET seen  == UNION {NewIn(Groups[i]) : i \in 1 .. k}
            added == UNION {AddedIn(Groups[i]) : i \in 1 .. k} IN
        /\ known' = (known \ Removed) \cup seen
        /\ tasks' = (tasks \ Removed) \cup added
  BY Zenon DEF RefreshApplies
<1> DEFINE seen  == UNION {NewIn(Groups[i]) : i \in 1 .. k}
           added == UNION {AddedIn(Groups[i]) : i \in 1 .. k}
<1>2. \A i \in 1 .. k : AddedIn(Groups[i]) \subseteq NewIn(Groups[i])
  BY DEF AddedIn, PollableIn
<1>3. added \subseteq seen
  BY <1>2
<1>4. \A i \in 1 .. k : NewIn(Groups[i]) \subseteq Present(fetched)
  <2>1. \A i \in 1 .. k : Groups[i] \in Seq(Device)
    BY ConfigAssumption
  <2>2. \A g \in Seq(Device) : NewIn(g) \subseteq Present(fetched)
    BY DEF NewIn, ToSet, Present
  <2> QED
    BY <2>1, <2>2
<1>5. seen \subseteq Present(fetched)
  BY <1>4
<1>6. known' = (known \ Removed) \cup seen /\ tasks' = (tasks \ Removed) \cup added
  BY <1>1
<1> HIDE DEF seen, added
<1>7. known \ Removed \subseteq Present(fetched)
  BY DEF Removed
<1> QED
  BY <1>3, <1>5, <1>6, <1>7 DEF KnownInv

LEMMA KnownInit == Init => KnownInv
  BY DEF Init, Scheduler!Init, KnownInv

LEMMA KnownNext == KnownInv /\ [Next]_vars => KnownInv'
<1> SUFFICES ASSUME KnownInv, [Next]_vars PROVE KnownInv'
  OBVIOUS
<1>1. CASE UNCHANGED <<tasks, known, main, refresh>>
  BY <1>1 DEF KnownInv
<1>2. CASE ServerChanges \/ ServerAssigns \/ HeartbeatStep
  BY <1>1, <1>2 DEF ServerChanges, ServerAssigns, HeartbeatStep, SendHeartbeat, LoopAnswered,
      LoopFails, ServerAnswers, sched, startup, refreshing
<1>3. CASE StartAnswered \/ StartUnanswered
  BY <1>3 DEF StartAnswered, StartUnanswered, sched, refreshing, KnownInv
<1>4. CASE LoadPlugins
  BY <1>4 DEF LoadPlugins, Pollable, Enabled, Present, refreshing, KnownInv
<1>5. CASE LoadRaises
  BY <1>5 DEF LoadRaises, sched, refreshing, KnownInv
<1>6. CASE StartScheduler
  BY <1>6 DEF StartScheduler, Scheduler!Start, sched, refreshing, KnownInv
<1>7. CASE Promote \/ Demote
  BY <1>1, <1>7 DEF Promote, Demote, Scheduler!Start, Scheduler!Stop, startup, refreshing
<1>8. CASE RefreshBegin \/ RefreshFetches \/ RefreshFails
  BY <1>8 DEF RefreshBegin, RefreshFetches, RefreshFails, sched, startup, KnownInv
<1>9. CASE RefreshApplies
  BY <1>9, RefreshSchedules DEF RefreshApplies, startup, KnownInv
<1>10. CASE SchedulerStep
  BY <1>1, <1>10 DEF SchedulerStep, own, startup, refreshing, Scheduler!Shutdown,
      Scheduler!Fire, Scheduler!CollectEnds
<1>11. CASE StopBegin \/ CancelRefresh \/ CancelRoleMonitor
  BY <1>11 DEF StopBegin, CancelRefresh, CancelRoleMonitor, sched, refreshing, KnownInv
<1>12. CASE StopScheduler
  BY <1>12 DEF StopScheduler, Scheduler!Stop, sched, refreshing, KnownInv
<1>13. CASE UNCHANGED vars
  BY <1>1, <1>13 DEF vars, sched, own, startup, refreshing
<1> QED
  BY <1>2, <1>3, <1>4, <1>5, <1>6, <1>7, <1>8, <1>9, <1>10, <1>11, <1>12, <1>13
     DEF Next, StartStep, RefreshStep, StopStep, Exited

\* "Periodically check for device changes and update the scheduler": once a
\* refresh has applied a configuration, no job polls a device that is not in it,
\* whatever happened before and even if a device of it is refused.
THEOREM GoneIsNotPolled ==
    Spec => [][RefreshApplies => jobs' \cup pending' \subseteq Present(fetched)]_vars
<1>1. KnownInv /\ JobInv' /\ RefreshApplies => jobs' \cup pending' \subseteq Present(fetched)
  BY RefreshSchedules DEF JobInv, Scheduler!NoOrphanJob
<1>2. KnownInv /\ JobInv'
        => [RefreshApplies => jobs' \cup pending' \subseteq Present(fetched)]_vars
  BY <1>1
<1> QED
  BY <1>2, KnownInit, KnownNext, JobInit, JobNext, PTL DEF Spec

\* A refresh that APScheduler does not interrupt looks at every group.
LEMMA RefreshSeesAll ==
    ASSUME OwnInv, KnownInv, RefreshApplies, Pollable(fetched) \cap ShortInterval = {}
    PROVE  /\ known' = Present(fetched)
           /\ tasks' = (tasks \cap Present(fetched)) \cup (Pollable(fetched) \ known)
<1>1. PICK k \in 0 .. Len(Groups) :
        LET seen  == UNION {NewIn(Groups[i]) : i \in 1 .. k}
            added == UNION {AddedIn(Groups[i]) : i \in 1 .. k} IN
        /\ k = Len(Groups) \/ (k > 0 /\ RefusedIn(Groups[k]) # {})
        /\ known' = (known \ Removed) \cup seen
        /\ tasks' = (tasks \ Removed) \cup added
  BY Zenon DEF RefreshApplies
<1> DEFINE seen  == UNION {NewIn(Groups[i]) : i \in 1 .. k}
           added == UNION {AddedIn(Groups[i]) : i \in 1 .. k}
<1>2. /\ known' = (known \ Removed) \cup seen /\ tasks' = (tasks \ Removed) \cup added
      /\ k = Len(Groups) \/ (k > 0 /\ RefusedIn(Groups[k]) # {})
  BY <1>1
<1>3. /\ Groups \in Seq(Seq(Device)) /\ fetched \in [Device -> Setting] /\ known \subseteq Device
      /\ \A d \in Device : \E i \in 1 .. Len(Groups) : d \in ToSet(Groups[i])
  BY ConfigAssumption DEF OwnInv
<1>4. \A g \in Seq(Device) :
          /\ NewIn(g) \subseteq Present(fetched)
          /\ RefusedIn(g) = {} /\ AddedIn(g) = PollableIn(g)
  <2> TAKE g \in Seq(Device)
  <2>1. ToSet(g) = {g[i] : i \in 1 .. Len(g)} /\ \A i \in 1 .. Len(g) : g[i] \in Device
    BY DEF ToSet
  <2>2. NewIn(g) \subseteq Present(fetched)
    BY <2>1 DEF NewIn, Present
  <2>3. PollableIn(g) \subseteq Pollable(fetched)
    BY DEF PollableIn
  <2>4. RefusedIn(g) = {}
    BY <2>3 DEF RefusedIn
  <2>5. PollableIn(g) \subseteq {g[i] : i \in 1 .. Len(g)}
    BY <2>1 DEF PollableIn, NewIn
  <2>6. {j \in 1 .. Len(g) : \A i \in 1 .. j : g[i] \notin RefusedIn(g)} = 1 .. Len(g)
    BY <2>4
  <2> QED
    BY <2>2, <2>4, <2>5, <2>6 DEF AddedIn
<1>5. k = Len(Groups)
  <2>1. k > 0 => Groups[k] \in Seq(Device)
    BY <1>3
  <2> QED
    BY <1>2, <1>4, <2>1
<1>6. seen = Present(fetched) \ known
  <2>1. ASSUME NEW d \in Present(fetched) \ known PROVE d \in seen
    <3>1. PICK i \in 1 .. Len(Groups) : d \in ToSet(Groups[i])
      BY <1>3, <2>1 DEF Present
    <3>2. d \in NewIn(Groups[i])
      BY <2>1, <3>1 DEF NewIn, Present
    <3> QED
      BY <1>5, <3>2
  <2>2. ASSUME NEW i \in 1 .. k PROVE NewIn(Groups[i]) \subseteq Present(fetched) \ known
    <3>1. Groups[i] \in Seq(Device)
      BY <1>3, <1>5
    <3>2. NewIn(Groups[i]) \cap known = {}
      BY DEF NewIn
    <3> QED
      BY <1>4, <3>1, <3>2
  <2> QED
    BY <2>1, <2>2
<1>7. added = Pollable(fetched) \ known
  <2>1. ASSUME NEW d \in Pollable(fetched) \ known PROVE d \in added
    <3>0. d \in Device /\ fetched[d] = "on"
      BY <2>1 DEF Pollable, Enabled
    <3>1. PICK i \in 1 .. Len(Groups) : d \in ToSet(Groups[i])
      BY <1>3, <3>0
    <3>2. d \in PollableIn(Groups[i]) /\ Groups[i] \in Seq(Device)
      BY <1>3, <2>1, <3>0, <3>1 DEF PollableIn, NewIn
    <3>3. d \in AddedIn(Groups[i])
      BY <1>4, <3>2
    <3> QED
      BY <1>5, <3>3
  <2>2. ASSUME NEW i \in 1 .. k PROVE AddedIn(Groups[i]) \subseteq Pollable(fetched) \ known
    BY DEF AddedIn, PollableIn, NewIn
  <2> QED
    BY <2>1, <2>2
<1> HIDE DEF seen, added
<1> QED
  BY <1>2, <1>6, <1>7 DEF Removed, KnownInv

\* APScheduler refuses no device of the configuration that is applied.  Its devices
\* are the known ones afterwards; scheduled are those that were and are still there,
\* and the new ones that are enabled and whose plugin can be instantiated.
NoneRefused == Pollable(fetched) \cap ShortInterval = {}
AllNoticed ==
    /\ known' = Present(fetched)
    /\ tasks' = (tasks \cap Present(fetched)) \cup (Pollable(fetched) \ known)

\* The safety half of MembershipConverges: one refresh that is not interrupted is
\* enough for every device that came or went, whatever earlier ones left undone, and
\* it changes the schedule of no other.  A device that is known and was not scheduled,
\* because it was disabled, refused or its plugin was not found, stays so.
THEOREM OneRefreshSuffices == Spec => [][RefreshApplies /\ NoneRefused => AllNoticed]_vars
<1>1. OwnInv /\ KnownInv => [RefreshApplies /\ NoneRefused => AllNoticed]_vars
  BY RefreshSeesAll DEF NoneRefused, AllNoticed
<1> QED
  BY <1>1, OwnInit, OwnNext, KnownInit, KnownNext, PTL DEF Spec

\* Nothing is polled, and no job is left that could be.
Quiet == state = "stopped" /\ jobs = {} /\ \A d \in Device : pc[d] = "none"

\* Once stop() has returned, only the shutdown it has queued may be left to run.
StopInv == main = "stopped" => ~ running

LEMMA StopNext == StopInv /\ [Next]_vars => StopInv'
<1> SUFFICES ASSUME StopInv, [Next]_vars PROVE StopInv'
  OBVIOUS
<1>1. CASE UNCHANGED <<running, main>>
  BY <1>1 DEF StopInv
<1>2. CASE ServerChanges \/ ServerAssigns \/ HeartbeatStep
  BY <1>1, <1>2 DEF ServerChanges, ServerAssigns, HeartbeatStep, SendHeartbeat, LoopAnswered,
      LoopFails, ServerAnswers, sched, startup
<1>3. CASE StartStep
  BY <1>3 DEF StartStep, StartAnswered, StartUnanswered, LoadPlugins, LoadRaises,
      StartScheduler, StopInv
<1>4. CASE Promote \/ Demote
  BY <1>4 DEF Promote, Demote, RoleMonitored, startup, StopInv
<1>5. CASE RefreshStep
  BY <1>1, <1>5 DEF RefreshStep, RefreshBegin, RefreshFetches, RefreshFails, RefreshApplies,
      sched, startup
<1>6. CASE SchedulerStep
  BY <1>1, <1>6 DEF SchedulerStep, own, startup, Scheduler!Shutdown, Scheduler!Fire,
      Scheduler!CollectEnds
<1>7. CASE StopBegin \/ CancelRefresh \/ CancelRoleMonitor
  BY <1>7 DEF StopBegin, CancelRefresh, CancelRoleMonitor, StopInv
<1>8. CASE StopScheduler
  BY <1>8 DEF StopScheduler, Scheduler!Stop, sched, StopInv
<1>9. CASE UNCHANGED vars
  BY <1>1, <1>9 DEF vars, sched, own, startup
<1> QED
  BY <1>2, <1>3, <1>4, <1>5, <1>6, <1>7, <1>8, <1>9 DEF Next, StopStep, Exited

\* After stop(), no step starts anything or queues another shutdown.
LEMMA StoppedStep ==
    ASSUME main = "stopped", [Next]_vars
    PROVE  main' = "stopped" /\ (closing' => closing)
<1>1. CASE UNCHANGED <<closing, main>>
  BY <1>1
<1>2. CASE ServerChanges \/ ServerAssigns \/ HeartbeatStep
  BY <1>1, <1>2 DEF ServerChanges, ServerAssigns, HeartbeatStep, SendHeartbeat, LoopAnswered,
      LoopFails, ServerAnswers, sched, startup
<1>3. ~ StartStep /\ ~ Promote /\ ~ Demote /\ ~ StopBegin /\ ~ StopStep
  BY DEF StartStep, StartAnswered, StartUnanswered, LoadPlugins, LoadRaises, StartScheduler,
     Promote, Demote, RoleMonitored, StopBegin, StopStep, CancelRefresh, CancelRoleMonitor,
     StopScheduler
<1>4. CASE RefreshStep
  BY <1>1, <1>4 DEF RefreshStep, RefreshBegin, RefreshFetches, RefreshFails, RefreshApplies,
      sched, startup
<1>5. CASE SchedulerStep
  BY <1>5 DEF SchedulerStep, own, startup, Scheduler!Shutdown, Scheduler!Fire,
      Scheduler!CollectEnds
<1>6. CASE UNCHANGED vars
  BY <1>1, <1>6 DEF vars, sched, own, startup
<1> QED
  BY <1>2, <1>3, <1>4, <1>5, <1>6 DEF Next, Exited

\* The safety half of StoppedForGood: a collector whose stop() has returned is
\* quiet but for the shutdown that is still queued, and nothing, no heartbeat, role
\* or job that is due, wakes it up again.  That the queued shutdown runs is left to
\* fairness, and to TLC.
THEOREM StopIsFinal ==
    Spec => /\ [](main = "stopped" => closing \/ Quiet)
            /\ [][main = "stopped" => main' = "stopped" /\ (Quiet => Quiet')]_vars
<1> DEFINE Inv == SInv /\ JobInv /\ StopInv
<1>1. Inv => (main = "stopped" => closing \/ Quiet)
  BY DEF SInv, Scheduler!TypeOK, RunInv, JobInv, StopInv, Quiet
<1>2. Inv /\ Inv' /\ [Next]_vars
        => [main = "stopped" => main' = "stopped" /\ (Quiet => Quiet')]_vars
  <2> SUFFICES ASSUME Inv, Inv', [Next]_vars, main = "stopped"
               PROVE  main' = "stopped" /\ (Quiet => Quiet')
    OBVIOUS
  <2>1. main' = "stopped" /\ (closing' => closing)
    BY StoppedStep
  <2>2. Quiet => ~ closing
    BY DEF SInv, RunInv, Quiet
  <2>3. closing' \/ Quiet'
    BY <2>1 DEF SInv, Scheduler!TypeOK, RunInv, JobInv, StopInv, Quiet
  <2> QED
    BY <2>1, <2>2, <2>3
<1>3. Init => Inv
  BY SInvInit, JobInit DEF Init, Scheduler!Init, StopInv
<1>4. OwnInv /\ Inv /\ [Next]_vars => Inv'
  BY SInvNext, JobNext, StopNext
<1> HIDE DEF Inv
<1> QED
  BY <1>1, <1>2, <1>3, <1>4, OwnInit, OwnNext, PTL DEF Spec

=============================================================================
