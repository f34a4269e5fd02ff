-------------------- MODULE CollectionScheduler_proofs ---------------------
(***************************************************************************)
(* Theorems about CollectionScheduler, for any devices, plugins and bounds.*)
(***************************************************************************)
EXTENDS CollectionScheduler, SequenceTheorems, FiniteSetTheorems, TLAPS

\* Jobs are where add_job() and remove_job() look for them: in the store while
\* APScheduler runs and in the pending list while it does not.
JobInv ==
    /\ state \in {"running", "stopped"}
    /\ state = "running" => pending = {}
    /\ state = "stopped" => jobs = {}
    /\ NoOrphanJob

LEMMA JobInit == Init => JobInv
  BY DEF Init, JobInv, NoOrphanJob

\* What add_job() and remove_job() do to the jobs.
LEMMA SetJobsKeepsJobs ==
    ASSUME JobInv, NEW added, NEW removed, SetJobs(added, removed),
           (tasks \ removed) \cup added \subseteq tasks'
    PROVE  JobInv'
  BY DEF JobInv, SetJobs, NoOrphanJob

LEMMA JobNext == JobInv /\ [Next]_vars => JobInv'
<1> SUFFICES ASSUME JobInv, [Next]_vars PROVE JobInv'
  OBVIOUS
<1>1. CASE Start
  BY <1>1 DEF JobInv, NoOrphanJob, Start
<1>2. CASE Stop
  BY <1>2 DEF JobInv, NoOrphanJob, Stop, library
<1>3. CASE Shutdown
  BY <1>3 DEF JobInv, NoOrphanJob, Shutdown, StoreAfterShutdown
<1>4. ASSUME NEW ds \in Plugins, SchedulePlugin(ds) PROVE JobInv'
  <2>1. PICK n \in 0 .. Len(ds) :
          LET added   == {ds[i] : i \in 1 .. n}
              raising == {ds[i] : i \in {n + 1} \cap 1 .. Len(ds)} IN
          /\ tasks' = (tasks \ raising) \cup added
          /\ SetJobs(added, raising \cap tasks)
    BY <1>4, Zenon DEF SchedulePlugin
  <2> DEFINE added   == {ds[i] : i \in 1 .. n}
             raising == {ds[i] : i \in {n + 1} \cap 1 .. Len(ds)}
  <2>2. tasks' = (tasks \ raising) \cup added /\ SetJobs(added, raising \cap tasks)
    BY <2>1
  <2> HIDE DEF added, raising
  <2>3. (tasks \ (raising \cap tasks)) \cup added \subseteq tasks'
    BY <2>2
  <2> QED
    BY <2>2, <2>3, SetJobsKeepsJobs
<1>5. ASSUME NEW d \in Device, Unschedule(d) PROVE JobInv'
  <2>1. SetJobs({}, {d}) /\ (tasks \ {d}) \cup {} \subseteq tasks'
    BY <1>5 DEF Unschedule
  <2> QED
    BY <2>1, SetJobsKeepsJobs
<1>6. ASSUME NEW d \in Device, Fire(d) \/ CollectEnds(d) PROVE JobInv'
  BY <1>6 DEF JobInv, NoOrphanJob, Fire, CollectEnds, library
<1>7. CASE UNCHANGED vars
  BY <1>7 DEF JobInv, NoOrphanJob, vars, library
<1> QED
  BY <1>1, <1>2, <1>3, <1>4, <1>5, <1>6, <1>7 DEF Next

\* However devices are scheduled, refused and unscheduled between starts and
\* stops, no job polls a device the scheduler does not know of (NoOrphanJob).
THEOREM EveryJobIsKnown == Spec => []NoOrphanJob
<1>1. JobInv => NoOrphanJob
  BY DEF JobInv
<1> QED
  BY <1>1, JobInit, JobNext, PTL DEF Spec

-----------------------------------------------------------------------------
(* The semaphore.  SlotsConserved is not inductive: start() makes a new       *)
(* semaphore, which is right only because no collection survives a shutdown,  *)
(* and the first in the queue gets a slot without being asked.               *)

\* Nothing is collected while APScheduler is stopped, and it is stopped only
\* when the shutdown that stop() queued has run.
RunInv ==
    /\ state = "running" <=> running \/ closing
    /\ ~ (running /\ closing)
    /\ state = "stopped" => queue = <<>> /\ \A d \in Device : pc[d] = "none"

Queued(d) == \E i \in 1 .. Len(queue) : queue[i] = d

QueueInv ==
    /\ queue # <<>> => slots = 0
    /\ \A d \in Device : pc[d] = "queued" <=> Queued(d)
    /\ \A i, j \in 1 .. Len(queue) : queue[i] = queue[j] => i = j

SlotsInv ==
    /\ IsFiniteSet(Collecting)
    /\ state = "running" => slots + Cardinality(Collecting) = MaxConcurrent

SInv == TypeOK /\ RunInv /\ QueueInv /\ SlotsInv

LEMMA SInvInit == Init => SInv
<1> SUFFICES ASSUME Init PROVE SInv
  OBVIOUS
<1>1. TypeOK
  <2>1. /\ 0 \in 0 .. MaxConcurrent /\ 0 \in 0 .. MaxStarts
        /\ \A d \in Device : pc[d] = "none"
    BY SchedulerBoundAssumption DEF Init
  <2>2. queue \in Seq(Device) /\ pc \in [Device -> {"none", "queued", "collecting"}]
    BY EmptySeq DEF Init
  <2> QED
    BY <2>1, <2>2 DEF Init, TypeOK
<1>2. Collecting = {}
  BY DEF Init, Collecting
<1> QED
  BY <1>1, <1>2, FS_EmptySet DEF Init, SInv, RunInv, QueueInv, Queued, SlotsInv

\* Where the devices of a plugin end up.
LEMMA PluginTypes ==
    ASSUME TypeOK, NEW ds \in Plugins, SchedulePlugin(ds)
    PROVE  /\ tasks' \subseteq Device /\ jobs' \subseteq Device
           /\ pending' \subseteq Device /\ UNCHANGED <<running, closing, state, starts>>
           /\ UNCHANGED collection
<1>1. PICK n \in 0 .. Len(ds) :
        LET added   == {ds[i] : i \in 1 .. n}
            raising == {ds[i] : i \in {n + 1} \cap 1 .. Len(ds)} IN
        /\ tasks' = (tasks \ raising) \cup added
        /\ SetJobs(added, raising \cap tasks)
  BY Zenon DEF SchedulePlugin
<1> DEFINE added   == {ds[i] : i \in 1 .. n}
           raising == {ds[i] : i \in {n + 1} \cap 1 .. Len(ds)}
<1>2. tasks' = (tasks \ raising) \cup added /\ SetJobs(added, raising \cap tasks)
  BY <1>1
<1>3. added \subseteq Device
  BY DeviceAssumption
<1> HIDE DEF added, raising
<1>4. UNCHANGED <<running, closing, starts>> /\ UNCHANGED collection
  BY DEF SchedulePlugin
<1> QED
  BY <1>2, <1>3, <1>4 DEF TypeOK, SetJobs

\* A step that touches neither the semaphore nor the collections.
LEMMA SInvStays ==
    ASSUME SInv, UNCHANGED collection, UNCHANGED state, TypeOK', RunInv'
    PROVE  SInv'
  BY DEF SInv, collection, QueueInv, Queued, SlotsInv, Collecting

\* A job that is due takes a slot or waits for one.
LEMMA FireKeepsSlots ==
    ASSUME SInv, NEW d \in Device, Fire(d)
    PROVE  SInv'
<1>t. /\ pc \in [Device -> {"none", "queued", "collecting"}]
      /\ queue \in Seq(Device) /\ slots \in 0 .. MaxConcurrent /\ MaxConcurrent \in Nat
  BY SchedulerBoundAssumption DEF SInv, TypeOK
<1>1. CASE slots > 0 /\ slots' = slots - 1 /\ pc' = [pc EXCEPT ![d] = "collecting"]
           /\ UNCHANGED queue
  <2>1. TypeOK' /\ RunInv'
    BY <1>t, <1>1 DEF Fire, SInv, TypeOK, RunInv, library
  <2>2. QueueInv'
    BY <1>t, <1>1 DEF Fire, SInv, QueueInv, Queued
  <2>3. Collecting' = Collecting \cup {d} /\ d \notin Collecting
    BY <1>t, <1>1 DEF Fire, Collecting
  <2>4. SlotsInv'
    <3>1. /\ IsFiniteSet(Collecting')
          /\ Cardinality(Collecting') = Cardinality(Collecting) + 1
          /\ Cardinality(Collecting) \in Nat
      BY <2>3, FS_AddElement, FS_CardinalityType DEF SInv, SlotsInv
    <3> QED
      BY <1>t, <1>1, <3>1 DEF Fire, SInv, SlotsInv, library
  <2> QED
    BY <2>1, <2>2, <2>4 DEF SInv
<1>2. CASE slots = 0 /\ queue' = Append(queue, d) /\ pc' = [pc EXCEPT ![d] = "queued"]
           /\ UNCHANGED slots
  <2>1. TypeOK' /\ RunInv'
    BY <1>t, <1>2, AppendProperties DEF Fire, SInv, TypeOK, RunInv, library
  <2>2. /\ Len(queue') = Len(queue) + 1 /\ Len(queue) \in Nat
        /\ \A i \in 1 .. Len(queue) : queue'[i] = queue[i]
        /\ queue'[Len(queue) + 1] = d
    BY <1>t, <1>2
  <2>3. \A e \in Device : Queued(e)' <=> Queued(e) \/ e = d
    BY <2>2 DEF Queued
  <2>4. QueueInv'
    <3>1. ~ Queued(d)
      BY DEF Fire, SInv, QueueInv
    <3>2. \A i, j \in 1 .. Len(queue') : queue'[i] = queue'[j] => i = j
      BY <2>2, <3>1 DEF SInv, QueueInv, Queued
    <3> QED
      BY <1>t, <1>2, <2>3, <3>2 DEF SInv, QueueInv
  <2>5. Collecting' = Collecting
    BY <1>t, <1>2 DEF Fire, Collecting
  <2> QED
    BY <1>2, <2>1, <2>4, <2>5 DEF Fire, SInv, SlotsInv, library
<1> QED
  BY <1>1, <1>2 DEF Fire

\* The slot of a collection that ends goes back, or to the first in the queue.
LEMMA EndKeepsSlots ==
    ASSUME SInv, NEW d \in Device, CollectEnds(d)
    PROVE  SInv'
<1>t. /\ pc \in [Device -> {"none", "queued", "collecting"}]
      /\ queue \in Seq(Device) /\ slots \in 0 .. MaxConcurrent /\ MaxConcurrent \in Nat
  BY SchedulerBoundAssumption DEF SInv, TypeOK
<1>c. /\ pc[d] = "collecting" /\ d \in Collecting /\ state = "running"
      /\ Cardinality(Collecting) \in Nat
  BY FS_CardinalityType DEF CollectEnds, Collecting, SInv, RunInv, TypeOK, SlotsInv
<1>u. UNCHANGED <<running, closing, tasks, starts>> /\ UNCHANGED <<state, jobs, pending>>
  BY DEF CollectEnds, library
<1>r. /\ IsFiniteSet(Collecting \ {d})
      /\ Cardinality(Collecting \ {d}) = Cardinality(Collecting) - 1
  BY <1>c, FS_RemoveElement DEF SInv, SlotsInv
<1>1. CASE queue = <<>> /\ slots' = slots + 1 /\ pc' = [pc EXCEPT ![d] = "none"]
           /\ UNCHANGED queue
  <2>1. Collecting' = Collecting \ {d}
    BY <1>t, <1>1 DEF Collecting
  <2>2. SlotsInv' /\ slots' \in 0 .. MaxConcurrent
    <3>1. Cardinality(Collecting \ {d}) \in Nat
      BY <1>r, FS_CardinalityType
    <3> QED
      BY <1>t, <1>c, <1>u, <1>r, <1>1, <2>1, <3>1 DEF SInv, SlotsInv
  <2>3. TypeOK' /\ RunInv'
    BY <1>t, <1>c, <1>u, <1>1, <2>2 DEF SInv, TypeOK, RunInv
  <2>4. QueueInv'
    BY <1>t, <1>c, <1>1 DEF SInv, QueueInv, Queued
  <2> QED
    BY <2>2, <2>3, <2>4 DEF SInv
<1>2. CASE /\ queue # <<>> /\ queue' = Tail(queue) /\ UNCHANGED slots
           /\ pc' = [pc EXCEPT ![d] = "none", ![Head(queue)] = "collecting"]
  <2> DEFINE h == Head(queue)
  <2>1. /\ h = queue[1] /\ h \in Device /\ Len(queue) \in Nat \ {0}
        /\ queue' \in Seq(Device) /\ Len(queue') = Len(queue) - 1
        /\ \A i \in 1 .. Len(queue) - 1 : queue'[i] = queue[i + 1]
    BY <1>t, <1>2, HeadTailProperties
  <2>2. pc[h] = "queued" /\ h # d
    BY <1>c, <2>1 DEF SInv, QueueInv, Queued
  <2> HIDE DEF h
  <2>3. /\ pc'[h] = "collecting" /\ pc'[d] = "none"
        /\ \A e \in Device : e # h /\ e # d => pc'[e] = pc[e]
        /\ pc' \in [Device -> {"none", "queued", "collecting"}]
    BY <1>t, <1>2, <2>1, <2>2 DEF h
  <2>4. Collecting' = (Collecting \ {d}) \cup {h} /\ h \notin Collecting \ {d}
    BY <2>1, <2>2, <2>3 DEF Collecting
  <2>5. SlotsInv'
    <3>1. /\ IsFiniteSet(Collecting')
          /\ Cardinality(Collecting') = Cardinality(Collecting \ {d}) + 1
      BY <1>r, <2>4, FS_AddElement
    <3> QED
      BY <1>c, <1>u, <1>r, <1>2, <3>1 DEF SInv, SlotsInv
  <2>6. TypeOK' /\ RunInv'
    BY <1>c, <1>u, <1>2, <2>1, <2>3 DEF SInv, TypeOK, RunInv
  <2>7. \A e \in Device : Queued(e)' <=> Queued(e) /\ e # h
    <3>1. ASSUME NEW e \in Device, NEW i \in 1 .. Len(queue) - 1, queue'[i] = e
          PROVE  Queued(e) /\ e # h
      <4>1. i + 1 \in 1 .. Len(queue) /\ 1 \in 1 .. Len(queue) /\ i + 1 # 1
            /\ queue[i + 1] = e
        BY <2>1, <3>1
      <4> QED
        BY <2>1, <4>1 DEF SInv, QueueInv, Queued
    <3>2. ASSUME NEW e \in Device, NEW i \in 1 .. Len(queue), queue[i] = e, e # h
          PROVE  Queued(e)'
      <4>1. i - 1 \in 1 .. Len(queue') /\ queue'[i - 1] = e
        BY <2>1, <3>2
      <4> QED
        BY <4>1 DEF Queued
    <3> QED
      BY <2>1, <3>1, <3>2 DEF Queued
  <2>8. QueueInv'
    <3>1. ASSUME NEW i \in 1 .. Len(queue'), NEW j \in 1 .. Len(queue'),
                 queue'[i] = queue'[j]
          PROVE  i = j
      <4>1. /\ i + 1 \in 1 .. Len(queue) /\ j + 1 \in 1 .. Len(queue)
            /\ queue[i + 1] = queue[j + 1]
        BY <2>1, <3>1
      <4>2. i + 1 = j + 1
        BY <4>1 DEF SInv, QueueInv
      <4> QED
        BY <2>1, <4>2
    <3> QED
      BY <1>c, <1>2, <2>1, <2>2, <2>3, <2>7, <3>1 DEF SInv, QueueInv
  <2> QED
    BY <2>5, <2>6, <2>8 DEF SInv
<1> QED
  BY <1>1, <1>2 DEF CollectEnds, LeaveSemaphore

LEMMA SInvNext == SInv /\ [Next]_vars => SInv'
<1> SUFFICES ASSUME SInv, [Next]_vars PROVE SInv'
  OBVIOUS
<1>1. CASE Start
  <2>1. /\ state = "stopped" /\ queue' = <<>> /\ slots' = MaxConcurrent
        /\ UNCHANGED pc /\ state' = "running" /\ running' = TRUE
    BY <1>1 DEF Start, SInv, RunInv, TypeOK
  <2>2. TypeOK' /\ RunInv'
    BY <1>1, <2>1, SchedulerBoundAssumption, EmptySeq DEF Start, SInv, TypeOK, RunInv
  <2>3. Collecting' = {}
    BY <2>1 DEF SInv, RunInv, Collecting
  <2>4. QueueInv' /\ SlotsInv'
    BY <2>1, <2>3, FS_EmptySet, SchedulerBoundAssumption
       DEF SInv, RunInv, QueueInv, Queued, SlotsInv
  <2> QED
    BY <2>2, <2>4 DEF SInv
<1>2. CASE Stop
  <2>1. TypeOK' /\ RunInv' /\ UNCHANGED state
    BY <1>2 DEF Stop, SInv, TypeOK, RunInv, library, collection
  <2> QED
    BY <1>2, <2>1, SInvStays DEF Stop
<1>3. CASE Shutdown
  <2>1. TypeOK'
    <3>1. /\ MaxConcurrent \in 0 .. MaxConcurrent /\ <<>> \in Seq(Device)
          /\ [d \in Device |-> "none"] \in [Device -> {"none", "queued", "collecting"}]
      BY SchedulerBoundAssumption, EmptySeq
    <3> QED
      BY <1>3, <3>1 DEF Shutdown, StoreAfterShutdown, SInv, TypeOK
  <2>r. RunInv'
    <3>1. closing /\ ~ closing' /\ running' = running /\ state' = "stopped"
      BY <1>3 DEF Shutdown, SInv, TypeOK
    <3>2. queue' = <<>> /\ \A d \in Device : pc'[d] = "none"
      BY <1>3 DEF Shutdown
    <3> QED
      BY <3>1, <3>2, Zenon DEF SInv, RunInv
  <2>2. Collecting' = {}
    BY <1>3 DEF Shutdown, Collecting
  <2>3. QueueInv' /\ SlotsInv'
    BY <1>3, <2>2, FS_EmptySet DEF Shutdown, QueueInv, Queued, SlotsInv
  <2> QED
    BY <2>1, <2>r, <2>3 DEF SInv
<1>4. ASSUME NEW ds \in Plugins, SchedulePlugin(ds) PROVE SInv'
  <2>1. TypeOK' /\ RunInv' /\ UNCHANGED state /\ UNCHANGED collection
    BY <1>4, PluginTypes DEF SInv, TypeOK, RunInv, collection
  <2> QED
    BY <2>1, SInvStays
<1>5. ASSUME NEW d \in Device, Unschedule(d) PROVE SInv'
  <2>1. TypeOK' /\ RunInv' /\ UNCHANGED state /\ UNCHANGED collection
    BY <1>5 DEF Unschedule, SetJobs, SInv, TypeOK, RunInv, collection
  <2> QED
    BY <2>1, SInvStays
<1>6. CASE UNCHANGED vars
  BY <1>6 DEF vars, library, collection, SInv, TypeOK, RunInv, QueueInv, Queued,
              SlotsInv, Collecting
<1> QED
  BY <1>1, <1>2, <1>3, <1>4, <1>5, <1>6, FireKeepsSlots, EndKeepsSlots DEF Next

\* Whatever ends a collection gives its slot back, to the first in the queue if
\* there is one, and no slot is minted or lost by stop(), the queued shutdown and
\* start() (SlotsConserved).
THEOREM SlotsComeBack == Spec => [](TypeOK /\ SlotsConserved)
<1>1. SInv => TypeOK /\ SlotsConserved
  BY DEF SInv, SlotsInv, QueueInv, Queued, SlotsConserved
<1> QED
  BY <1>1, SInvInit, SInvNext, PTL DEF Spec

-----------------------------------------------------------------------------
(* The restart is the only step that loses a job.                             *)

\* Before the first start() every device that is scheduled waits for it in the
\* pending list; until the first stop() it has a job in the store.
FirstRun ==
    /\ starts = 0 => ~ running /\ ~ closing /\ state = "stopped" /\ tasks \subseteq pending
    /\ starts = 1 /\ running => tasks \subseteq jobs

LEMMA FirstRunNext == SInv /\ FirstRun /\ [Next]_vars => FirstRun'
<1> SUFFICES ASSUME SInv, FirstRun, [Next]_vars PROVE FirstRun'
  OBVIOUS
<1>t. starts \in Nat
  BY SchedulerBoundAssumption DEF SInv, TypeOK
<1>1. CASE Start
  BY <1>t, <1>1 DEF Start, FirstRun
<1>2. CASE Stop
  BY <1>2 DEF Stop, library, FirstRun
<1>3. CASE Shutdown
  BY <1>3 DEF Shutdown, FirstRun, SInv, RunInv
<1>4. ASSUME NEW added, NEW removed, SetJobs(added, removed),
             tasks' \subseteq (tasks \ removed) \cup added,
             UNCHANGED <<running, closing, starts>>
      PROVE  FirstRun'
  <2>1. running => state = "running"
    BY DEF SInv, RunInv
  <2> QED
    BY <1>4, <2>1 DEF SetJobs, FirstRun
<1>5. ASSUME NEW ds \in Plugins, SchedulePlugin(ds) PROVE FirstRun'
  <2>1. PICK n \in 0 .. Len(ds) :
          LET added   == {ds[i] : i \in 1 .. n}
              raising == {ds[i] : i \in {n + 1} \cap 1 .. Len(ds)} IN
          /\ tasks' = (tasks \ raising) \cup added
          /\ SetJobs(added, raising \cap tasks)
    BY <1>5, Zenon DEF SchedulePlugin
  <2> DEFINE added   == {ds[i] : i \in 1 .. n}
             raising == {ds[i] : i \in {n + 1} \cap 1 .. Len(ds)}
  <2>2. tasks' = (tasks \ raising) \cup added /\ SetJobs(added, raising \cap tasks)
    BY <2>1
  <2> HIDE DEF added, raising
  <2>3. UNCHANGED <<running, closing, starts>>
    BY <1>5 DEF SchedulePlugin
  <2> QED
    BY <2>2, <2>3, <1>4
<1>6. ASSUME NEW d \in Device, Unschedule(d) PROVE FirstRun'
  <2>1. SetJobs({}, {d}) /\ tasks' \subseteq (tasks \ {d}) \cup {}
    BY <1>6 DEF Unschedule
  <2> QED
    BY <1>4, <1>6, <2>1 DEF Unschedule
<1>7. ASSUME NEW d \in Device, Fire(d) \/ CollectEnds(d) PROVE FirstRun'
  BY <1>7 DEF Fire, CollectEnds, library, FirstRun
<1>8. CASE UNCHANGED vars
  BY <1>8 DEF vars, library, FirstRun
<1> QED
  BY <1>1, <1>2, <1>3, <1>5, <1>6, <1>7, <1>8 DEF Next

\* ScheduledHasJob fails, but only after a restart: as long as start() has been
\* called once, no order of scheduling, refusing and unscheduling devices, before
\* it or after it, leaves a device in get_scheduled_devices() without a job.
THEOREM FirstRunPollsAll == Spec => [](starts <= 1 => ScheduledHasJob)
<1>1. SInv /\ FirstRun => (starts <= 1 => ScheduledHasJob)
  <2>1. SInv => starts \in Nat
    BY SchedulerBoundAssumption DEF SInv, TypeOK
  <2> QED
    BY <2>1 DEF FirstRun, ScheduledHasJob
<1>2. Init => FirstRun
  BY DEF Init, FirstRun
<1> QED
  BY <1>1, <1>2, SInvInit, SInvNext, FirstRunNext, PTL DEF Spec

=============================================================================
