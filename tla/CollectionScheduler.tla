------------------------- MODULE CollectionScheduler -------------------------
(***************************************************************************)
(* The collection scheduler (core/scheduler.py): which devices are polled, *)
(* by which APScheduler jobs, and the semaphore that bounds the polls in   *)
(* progress.  APScheduler 3.x is a library: what is modelled of it is the  *)
(* part this code relies on (its state, its in-memory job store, its list  *)
(* of jobs pending until it starts, and max_instances = 1 per job).        *)
(*                                                                         *)
(* start(), stop() and the scheduling of devices are called by the tasks   *)
(* of main.py; here they are environment actions.                          *)
(***************************************************************************)
EXTENDS Naturals, Sequences, FiniteSets

CONSTANTS
    Device,             \* device ids
    Plugins,            \* sequences of enabled devices, as schedule_plugin() gets them
    ShortInterval,      \* devices whose poll_interval // 2 is 0
    MaxConcurrent,      \* max_concurrent_devices
    MaxStarts           \* bound on the calls of start() that take effect

ASSUME DeviceAssumption ==
    /\ Plugins \subseteq Seq(Device)
    /\ ShortInterval \subseteq Device
ASSUME SchedulerBoundAssumption ==
    /\ MaxConcurrent \in Nat \ {0}
    /\ MaxStarts \in Nat

VARIABLES
    running,        \* CollectionScheduler._running
    state,          \* of APScheduler: "stopped" or "running"
    closing,        \* a shutdown is queued on the event loop
    tasks,          \* keys of _collection_tasks
    jobs,           \* devices with a job in the job store
    pending,        \* devices with a job that waits for APScheduler to start
    pc,             \* the collection of each device: "none", "queued", "collecting"
    slots,          \* value of _collection_semaphore
    queue,          \* devices whose collection waits for the semaphore
    starts          \* calls of start() so far

library    == <<state, jobs, pending>>
collection == <<pc, slots, queue>>
vars == <<running, closing, tasks, library, collection, starts>>

TypeOK ==
    /\ running \in BOOLEAN /\ closing \in BOOLEAN
    /\ state \in {"stopped", "running"}
    /\ tasks \subseteq Device /\ jobs \subseteq Device /\ pending \subseteq Device
    /\ pc \in [Device -> {"none", "queued", "collecting"}]
    /\ slots \in 0 .. MaxConcurrent
    /\ queue \in Seq(Device)
    /\ starts \in 0 .. MaxStarts

Init ==
    /\ running = FALSE /\ closing = FALSE
    /\ state = "stopped"
    /\ tasks = {} /\ jobs = {} /\ pending = {}
    /\ pc = [d \in Device |-> "none"]
    /\ slots = 0 /\ queue = <<>>
    /\ starts = 0

-----------------------------------------------------------------------------
(* start() and stop() *)

\* A new semaphore; APScheduler moves the pending jobs to its store.  The role
\* monitor sleeps between a stop and a start, so no shutdown is still queued.
Start ==
    /\ ~ running /\ ~ closing
    /\ starts < MaxStarts
    /\ running' = TRUE
    /\ state' = "running"
    /\ jobs' = jobs \cup pending
    /\ pending' = {}
    /\ slots' = MaxConcurrent /\ queue' = <<>>
    /\ starts' = starts + 1
    /\ UNCHANGED <<closing, tasks, pc>>

\* AsyncIOScheduler.shutdown() only queues the shutdown on the event loop.
Stop ==
    /\ running
    /\ running' = FALSE
    /\ closing' = TRUE
    /\ UNCHANGED <<tasks, library, collection, starts>>

\* Mutant of StoreAfterShutdown: a store that survives the shutdown.
StoreKept == jobs

\* MemoryJobStore.shutdown() removes every job.
StoreAfterShutdown == {}

\* The queued shutdown: the executor cancels the collections in progress and
\* the job store is closed.
Shutdown ==
    /\ closing
    /\ closing' = FALSE
    /\ state' = "stopped"
    /\ jobs' = StoreAfterShutdown
    /\ pc' = [d \in Device |-> "none"]
    /\ slots' = MaxConcurrent /\ queue' = <<>>
    /\ UNCHANGED <<running, tasks, pending, starts>>

-----------------------------------------------------------------------------
(* schedule_plugin(), schedule_device() and unschedule_device() *)

\* add_job() and remove_job() work on the store of a running APScheduler and on
\* the pending list of a stopped one; a job that is not there is not an error.
SetJobs(added, removed) ==
    \/ /\ state = "running"
       /\ jobs' = (jobs \ removed) \cup added
       /\ UNCHANGED <<state, pending>>
    \/ /\ state = "stopped"
       /\ pending' = (pending \ removed) \cup added
       /\ UNCHANGED <<state, jobs>>

\* schedule_device() for each device in turn: the old job goes, the new one
\* comes.  add_job() refuses a misfire_grace_time of 0: the exception leaves
\* that device without a job and ends the loop.
SchedulePlugin(ds) ==
    \E n \in 0 .. Len(ds) :
        /\ \A i \in 1 .. n : ds[i] \notin ShortInterval
        /\ n < Len(ds) => ds[n + 1] \in ShortInterval
        /\ LET added   == {ds[i] : i \in 1 .. n}
               raising == {ds[i] : i \in {n + 1} \cap 1 .. Len(ds)} IN
           /\ tasks' = (tasks \ raising) \cup added
           /\ SetJobs(added, raising \cap tasks)
        /\ UNCHANGED <<running, closing, collection, starts>>

\* Mutant of Unschedule: the job id is forgotten and the job stays.
UnscheduleTask(d) ==
    /\ d \in tasks
    /\ tasks' = tasks \ {d}
    /\ UNCHANGED <<running, closing, library, collection, starts>>

\* A collection in progress goes on.
Unschedule(d) ==
    /\ d \in tasks
    /\ tasks' = tasks \ {d}
    /\ SetJobs({}, {d})
    /\ UNCHANGED <<running, closing, collection, starts>>

-----------------------------------------------------------------------------
(* A job that is due, and the collection it runs *)

\* max_instances = 1: a job that is due while its collection lasts is skipped.
Fire(d) ==
    /\ state = "running" /\ d \in jobs
    /\ pc[d] = "none"
    /\ \/ /\ slots > 0
          /\ slots' = slots - 1
          /\ pc' = [pc EXCEPT ![d] = "collecting"]
          /\ UNCHANGED queue
       \/ /\ slots = 0
          /\ queue' = Append(queue, d)
          /\ pc' = [pc EXCEPT ![d] = "queued"]
          /\ UNCHANGED slots
    /\ UNCHANGED <<running, closing, tasks, library, starts>>

\* Mutant of LeaveSemaphore: the slot is not given back when a task waits.
LeakSlot(d) ==
    /\ pc' = [pc EXCEPT ![d] = "none"]
    /\ slots' = IF queue = <<>> THEN slots + 1 ELSE slots
    /\ UNCHANGED queue

\* Mutant of LeaveSemaphore: release() is called again by hand.
ReleaseTwice(d) ==
    /\ slots' = slots + 2
    /\ pc' = [pc EXCEPT ![d] = "none"]
    /\ UNCHANGED queue

\* The collection of d leaves the semaphore: the first in the queue enters.
LeaveSemaphore(d) ==
    \/ /\ queue = <<>>
       /\ slots' = slots + 1
       /\ pc' = [pc EXCEPT ![d] = "none"]
       /\ UNCHANGED queue
    \/ /\ queue # <<>>
       /\ pc' = [pc EXCEPT ![d] = "none", ![Head(queue)] = "collecting"]
       /\ queue' = Tail(queue)
       /\ UNCHANGED slots

\* The plugin answers, raises or is stopped by COLLECTION_TIMEOUT.
CollectEnds(d) ==
    /\ pc[d] = "collecting"
    /\ LeaveSemaphore(d)
    /\ UNCHANGED <<running, closing, tasks, library, starts>>

-----------------------------------------------------------------------------

Next ==
    \/ Start \/ Stop \/ Shutdown
    \/ \E ds \in Plugins : SchedulePlugin(ds)
    \/ \E d \in Device :
          Unschedule(d) \/ Fire(d) \/ CollectEnds(d)

Spec == Init /\ [][Next]_vars

(***************************************************************************)
(* APScheduler's timer fires every job it holds again and again, every     *)
(* collection ends (wait_for bounds it) and the event loop runs what is    *)
(* queued on it.  Firing needs strong fairness: a job may be refused while *)
(* its previous collection lasts, and is due again later.                  *)
(***************************************************************************)
FairSpec ==
    /\ Spec
    /\ WF_vars(Shutdown)
    /\ \A d \in Device : SF_vars(Fire(d)) /\ WF_vars(CollectEnds(d))

-----------------------------------------------------------------------------
(* Properties *)

Collecting == {d \in Device : pc[d] = "collecting"}

\* The slots of the semaphore are never leaked nor minted: whatever ends a
\* collection gives its slot back, to the first in the queue if there is one.
SlotsConserved ==
    /\ state = "running" => slots + Cardinality(Collecting) = MaxConcurrent
    /\ queue # <<>> => slots = 0
    /\ \A d \in Device : pc[d] = "queued" <=> \E i \in 1 .. Len(queue) : queue[i] = d
    /\ \A i, j \in 1 .. Len(queue) : queue[i] = queue[j] => i = j

\* No device is polled on a schedule that the scheduler does not know of: such
\* a job could never be removed again.
NoOrphanJob == jobs \cup pending \subseteq tasks

\* A device in get_scheduled_devices() has a job while the scheduler runs.
ScheduledHasJob == running => tasks \subseteq jobs

\* Each device is polled again and again for as long as it is scheduled on a
\* running scheduler: neither slow nor failing devices starve it.
EveryDevicePolled ==
    \A d \in Device :
        d \in jobs ~> pc[d] = "collecting" \/ d \notin jobs

=============================================================================
