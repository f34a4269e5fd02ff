# Station Master Collector: a formal model

TLA+ modules of the collector in `src/collector/`, the TLC configurations that
check them on small instances, and TLAPS proofs of the properties that matter
most. Paths below are relative to `src/`.

## 1. The system

The collector is one Python process. Everything runs on one asyncio event
loop: a task is interrupted only at an `await`, so a step of the models is what
a task does between two awaits. What goes wrong, goes wrong between them.

| Component | State it keeps | Operations | Talks to |
|---|---|---|---|
| Metric transport (`collector/core/transport.py`) | `_buffer`, `_buffer_lock`, flush task, the SQLite table `metric_buffer` | `start`, `stop`, `enqueue`, `flush`, `_periodic_flush` and what they call | called by `main.py` (one task per callback, never awaited); POSTs to the server |
| Collection scheduler (`collector/core/scheduler.py`) | `_running`, `_collection_tasks`, the semaphore, times and failures | `start`, `stop`, `schedule_plugin`, `schedule_device`, `unschedule_device`, `_collect_metrics`, `is_healthy` | drives APScheduler; calls plugins; hands metrics to `main.py` |
| Control (`collector/main.py`, `collector/core/db_loader.py`) | `_scheduler_running`, `_known_device_ids`, `_current_config_version`, monitored tasks | `start`, `_monitor_role`, `_refresh_config`, `stop` | reads the heartbeat manager, fetches the configuration, drives the scheduler |
| Heartbeat manager (`collector/core/heartbeat.py`) | role, `_should_collect`, `_config_changed`, version hash, failures | `_heartbeat_loop`, `send_immediate` | POSTs to the server |
| Remote log handler (`collector/core/remote_logging.py`) | a bounded deque, a lock, the flush task | `start`, `stop`, `add_log`, `_flush_loop` | POSTs to the server |
| Syslog transport (`collector/core/syslog_transport.py`) | as the metric transport | as the metric transport, `fetch_allowed_sources` | called for every message; POSTs to the server |
| Syslog server, trap receiver (`collector/core/syslog_server.py`, `collector/core/snmp_trap_receiver.py`) | allow list, source map, TCP line buffers | datagram and stream callbacks, `set_allowed_sources`, `start`, `stop` | callbacks into `main.py` |
| Syslog parser (`collector/core/syslog_parser.py`) | none | pure functions | called by the server |
| Health (`collector/main.py`, `collector/core/heartbeat.py`) | two marker files, `_last_activity` | `_touch_health_file`, `_task_done_callback`, `_watchdog`, `health_check` | read by Docker |
| Plugins (`collector/plugins/`, `collector/core/plugin_manager.py`) | almost none | `collect` | four speak SNMP to their devices; the others report placeholder zeros and reach no device |
| The station: two collectors, one server | each its role | heartbeats, `_monitor_role` | the server names the one that collects |
| Configuration (`collector/core/config.py`) | immutable | validation | read by all |

What makes each correct, in a sentence:

- *Metric transport*: a batch given to `enqueue()` is delivered, or kept on
  disk until it is, and is never in two places; flushes and `stop()` end.
- *Scheduler*: exactly the scheduled devices are polled, none starves, no slot
  is lost, and bad health is seen.
- *Control and heartbeat*: in the end the collector polls the devices and plays
  the role the server wants.
- *Remote log handler*: entries keep their order, and `stop()` returns.
- *Syslog*: as the transport; only configured sources are heard; a message is
  a line.
- *Health*: a silent collector is reported, one that brings metrics is not.
- *SNMP plugins*: a reading is what its own OID held while it was collected.
- *Station*: in the end exactly one collector collects.

The hard parts: tasks that interleave around the two locks and the SQLite
write lock; cancellation (by `stop()` and by timeouts), which `except Exception`
does not catch; crashes and restarts with a table that survives them; repeated
and failing requests; configuration and role answers that arrive late or out of
order; APScheduler's own state, which `stop()` and `start()` do not leave alone.
`PROJECT.json` lists each hazard at its line, with the properties aimed at it.

## 2. The modules

### AsyncioLock (external)

`asyncio.Lock`: first come first served, not reentrant; a cancelled task gives
up the lock or its place in the queue (`LeaveLock`). Used by SecureTransport
and RemoteLogHandler.

### StoreAndForward (abstract) and SecureTransport

`StoreAndForward` is what the transport promises of each batch: *new* ->
*memory* -> *acked*, *disk* or *lost*, and *disk* -> *acked* or *lost*.
`SecureTransport` is the code, and `Promise == INSTANCE StoreAndForward WITH
Batch <- Batch, status <- Standing` is the promise seen in it: `Standing` says
of each batch where it is. One constant `Batch` element is one device's
metrics of one `enqueue()` call; a payload is the set of batches one flush took.

| TLA+ | Code |
|---|---|
| `buffer`, `holder`, `waiters` | `_buffer`, `_buffer_lock` |
| `payload[t]`, `tries[t]` | the local `payload` of a task, tenacity's attempts |
| `rows`, `nextId` | committed rows of `metric_buffer` |
| `todo`, `deleted`, `failed` | the fetched rows not sent yet, uncommitted DELETEs and UPDATEs |
| `acked`, `lost` | history: batches with a 2xx answer, batches dropped, by cause |
| `EnqueueCall`, `EnqueueBuffers`, `EnqueueFlushes` | `enqueue` before the lock, and under it |
| `SendOk`, `SendRetries`, `SendFails` | `_send_with_retry` and the handlers of `_flush_buffer` |
| `PersistOk`, `PersistFails` | `_persist_to_disk` |
| `FlushBegin`, `FlushTakesBuffer`, `FlushFindsNothing` | `flush` up to `_flush_persisted` |
| `Select`, `RowOk`, `RowRetries`, `RowFails`, `Commit`, `Clean`, `FlushPersistedError` | `_flush_persisted` |
| `FlushTimeout`, `Stop`, `ProcessEnds`, `Start` | FLUSH_TIMEOUT, `stop`, exit or crash, `start` |

Abstractions. Time is not modelled: a timeout may fire at any moment at which
the code allows it (FLUSH_TIMEOUT is twice SEND_TIMEOUT, hence `waited`), and
the rows that have reached 24 hours are the oldest ones, for a cutoff chosen at
each cleanup. Persisting is one step that either commits or fails. SQLite's
rule that one connection at a time holds the write lock is the guard
`WriteLocked`; a writer that meets a lock kept over a POST gives up after the
busy timeout. Rows are inserted under `_buffer_lock`, so ids follow
`created_at`. A cancellation that comes after the INSERT has been committed is
`PersistOk` followed by the cancellation.

### CollectionScheduler

Jobs of APScheduler live in its job store (`jobs`) while it runs and in its
pending list (`pending`) while it is stopped; `AsyncIOScheduler.shutdown` only
queues the real shutdown (`Shutdown`), which cancels the collections and, with
`MemoryJobStore.shutdown`, removes every job. A job is refused while its
previous collection lasts (`max_instances=1`). The semaphore is `slots` and
`queue`. How a collection ends makes no difference here; what `is_healthy()`
reads of it is in Health.

### Collector

`Collector.start()` in database mode, the heartbeat loop, `_monitor_role` and
`_refresh_config`, with `Scheduler == INSTANCE CollectionScheduler`: every
change of the scheduler is an action of that module, called from an action of
this one. The server is external; its configuration stands for its own version
hash. `_refresh_config` without its awaits is one step (`RefreshApplies`),
including the exception that ends it half way; so is the load of the first
configuration (`LoadPlugins`), whose exception ends `start()` and with it the
process (`LoadRaises`, `main = "exited"`). A device whose plugin cannot be
instantiated (`NoPlugin`: `instantiate_plugin` returns None, for a plugin name this
version does not have or a class that failed to load) becomes known like any other and
is never scheduled, then or later; `Pollable` are the enabled devices without these.
No built-in plugin overrides `initialize()`, so that it does not raise in `LoadRaises`.

`Collector.stop()` is a sequence of cancellations, with awaits between them in
which everything not yet cancelled goes on: `StopBegin` (the watchdog),
`CancelRefresh`, `CancelRoleMonitor` (then the syslog components stop) and
`StopScheduler` (heartbeats and scheduler). A refresh is cancelled at its fetch,
before any of it is applied.

### RemoteLogHandler

Entries are numbered in the order of their append. The calls of `add_log` are
those `StructlogProcessor` would make; `main.py` starts the handler but does not
install that processor.

The server stores any part of a batch (`ServerStores`), whatever it answers. After
an error the batch is put back (`PostFails`, `PutBack`); after a 2xx it is settled:
if `stored` is not the number that was sent, the code prints a warning, and the
rest is gone (`PostOk`). `dropped` says which entries the handler gave up and why:
`"short"` for these, `"stop"` for those lost with the flush that `stop()` cancels,
`"full"` for those pushed out of a full deque, which the sizes in the code rule out
(`DequeNeverFull`).

The call that fills a batch waits for the lock it holds itself
(`collector/core/remote_logging.py:106`): it is at `relock` for ever (`Stuck`), the
buffer stays as it is, and `stop()` does not return unless it was already sending
(`FullBatchBlocks`). `StopReturns` excepts that case.

### SyslogServer

The UDP, TCP and trap receivers, the two checks an address has to pass (the
list of the protocol, where an empty list admits everyone, and in `main.py` the
lookup of the source id) and the refresh of the lists from the API.

| TLA+ | Code |
|---|---|
| `allowed` | `SyslogServer._allowed_ips` and the keys of `_source_map` |
| `trapAllowed` | `SNMPTrapReceiver._allowed_ips` |
| `udp` | the `allowed_ips` the UDP protocol was built with; empty when unbound |
| `conns[c]` | a `SyslogTCPProtocol`: `_source_ip`, `_buffer`, and what was sent to it |
| `FetchInitial`, `FetchRaises`, `Bind` | `_start_syslog_server` and `SyslogServer.start` |
| `RefreshOk`, `RefreshFails` | `_refresh_syslog_sources`; a failed fetch is an empty list |
| `DatagramReceived`, `TrapReceived`, `ConnectionMade`, `DataReceived`, `ConnectionLost` | the protocol callbacks |
| `OnSyslogMessage` | `Collector._on_syslog_message` |

A stream is a sequence of characters and newlines, a message the line it came
from: parsing gives a message for every line, and its text plays no role here.
The loop that splits a buffer is `Lines`: the k-th message is the k-th line that
is not empty, counted by the newline that ends it (`Ends`, `Nth`), which says what
the loop does without a recursion, so that it can be proved about. What is
forwarded goes to the syslog transport.

### SyslogTransport

The twin of the metric transport, as an extension of SecureTransport: its steps
are those of SecureTransport that the code of `syslog_transport.py` has, under a
next-state relation of its own without FLUSH_TIMEOUT and SEND_TIMEOUT. A call
brings one event, and may begin while `stop()` runs and after it (`late`): the
trap receiver stops after the transport, and open TCP connections are left
open.

### SyslogParser

Priorities and the guessed year of RFC 3164 timestamps as functions; a message
is what the patterns find in it.

### SnmpReadings and SnmpCollection

`SnmpReadings` is the table of the four SNMP plugins (`Table[plugin]`, one row
per metric: its OID, how the answer is read, its scale, its name) and the
parsing functions over answers; an answer is what the regular expressions find
in it. `SnmpCollection` is one `collect()` after the other of one device: every
OID is asked for at once (`Asks`), answered, lost, repeated or given up on its
own (`Answers`, `FetchOk`, `FetchRetries`, `FetchFails`), gathered in a
dictionary (`Values`) and read (`Collected`), or all are cancelled by
COLLECTION_TIMEOUT (`CollectionTimeout`). A behaviour follows a few OIDs of one
plugin, because OIDs meet only in the dictionary.

An SNMPv2c agent answers for an OID it does not have with a text
(`Missing`), which the plugins read like any other: no number, level or uptime
comes of it (`AbsentIsNotMeasured`), but flags and states are reported as 0.

### Health

| TLA+ | Code |
|---|---|
| `marker`, `fileAge` | `/tmp/collector_unhealthy`, the age of `/tmp/collector_heartbeat` |
| `activityAge`, `sleeping` | `_last_activity`, the sleep of `_watchdog` |
| `successAge`, `failures`, `beatAge`, `beatFailures` | what the two `is_healthy()` read |
| `silent`, `untouched` | history: since metrics came in, whether the file system failed since |
| `StartBegin`, `CleanMarker`, `StartEnds`, `Touch` | `start()`, `_touch_health_file` |
| `MetricsCollected`, `NothingCollected`, `CollectionFails` | `_do_collect` with metrics, with an empty list, with a timeout or an exception |
| `WatchdogChecks` | `_watchdog` |
| `DockerHealthy`, `HealthCheck` | HEALTHCHECK of the Dockerfile, `health_check()` |

Time is in ticks. The event loop may be blocked (`frozen`), the file system may
fail, the process may die and come back over the old files. The watchdog runs
within the tick it is due, unless the loop is blocked. Two things the model
shows are as written rather than wrong, and not stated as properties: a backup
collector, one whose devices are all unreachable (an empty list is a success
that touches nothing) and one whose poll interval exceeds 120 s are unhealthy
for Docker, however well they do.

### Station

The collectors of a station reduced to who collects: the heartbeat loop and
`send_immediate` (two senders whose answers come in any order), the start that
assumes to be primary when unanswered, and the role monitor. The server names
one collector at a time and may name another whenever it likes; an answer is
the number of the choice it was given under (`heard`, `basis`). `collecting` is
that the scheduler runs; whether it then polls is CollectionScheduler's matter
(`ScheduledHasJob`: not after a demotion). That the server can tell two
collectors apart is assumed, although both take the host name "<station> -
Collector" (`collector/core/heartbeat.py:105`) unless one is configured.

## 3. What the runs check

| Run | Result | Shows |
|---|---|---|
| TransportFaults | pass | Safety under all faults (slow flushes, disk errors, expiry, `stop()`, crash and restart): `Conservation`, `OneCopy`, `OldestTriedMost`, `RowsAreDurable`, and `StoresAndForwards`, the refinement of StoreAndForward |
| SyslogTransport | pass | Without slow flushes: `DeleteOnSuccess`, memory and disk drain, `stop()` returns, and `OnlyLateEventsRemain`: what is left in memory came after `stop()` began. The server may fail as it likes |
| TransportOffline | violation | `OfflineResilience`: a payload is dropped when the table is locked by a flush that awaits its next POST |
| Scheduler | pass | Slots are conserved, no job is orphaned and no scheduled device starves, over restarts and reconfiguration |
| SchedulerRestart | violation | `ScheduledHasJob`: after `stop()` and `start()` nothing is polled |
| Collector | pass | The flags of role monitor and scheduler agree; in the end devices that come or go are noticed and the scheduler runs exactly when the server wants it; `StoppedForGood`: what `stop()` has stopped stays so, although roles change while it runs |
| CollectorSwitch | violation | `EnabledDevicesPolled`: settings of a known device are never looked at again |
| Station | pass | `OverlapHasCause`: two collect at once only on different choices of the server or on none; `OneCollects`: in the end the chosen one alone collects |
| Health | pass | `SilenceIsSeen` and `NoFalseAlarm` of Docker's check, `WatchdogReports`, `HealthCheckIsStricter` |
| Readings | pass | A metric is what its own OID held during the collection, failures stay local, nothing is measured on an absent OID, documented uptimes are read, every collection ends |
| RemoteLogs | pass | Entries are in order and accounted for, whatever part of a batch the server stores; `FullBatchBlocks`: the call that fills a batch blocks the handler for good; `stop()` returns otherwise |
| Syslog | pass | `Framed`: messages do not depend on how a stream is cut into chunks; `OnlyListedSources`: nothing is forwarded for an address that was never listed, although a failed fetch empties the lists; `RefreshConverges`: the lists of both receivers follow the API |

The violations are disagreements between the code and what its own comments
and README say; `PROJECT.json` quotes the lines under "findings".
`MembershipConverges` excepts configurations with a device APScheduler refuses
(a `poll_interval` of 1 makes `misfire_grace_time` 0): the exception ends a
refresh whose version hash has been reported already, so the server never asks
for the rest to be applied. It is about the devices that are known; which of them are
scheduled is said by the theorem `OneRefreshSuffices`. `RoleConverges` passing and `ScheduledHasJob` failing belong together: after a
demotion and a promotion the scheduler does run, and polls nothing.

Each property of a passing run has a mutant, an operator beside the definition
it replaces, that TLC must find violating it; it is named in a comment there.

Four more disagreements show in the models and have no run of their own.
A full batch of log entries is never flushed, since the flush waits for the lock of
its caller ("Flush if buffer is full", `collector/core/remote_logging.py:104`);
`FullBatchBlocks` passing is that disagreement.
`stop()` cancels a periodic flush that is sending, and its payload is dropped
(`lost["cancel"]`, `collector/core/transport.py:130`; its docstring promises to
"flush remaining metrics"). FLUSH_TIMEOUT between two rows rolls back the
DELETEs of rows that were delivered (`collector/core/transport.py:212`), which
is why `DeleteOnSuccess` is checked on the twin that has no such timeout. The UDP
receiver keeps the set of allowed addresses it was built with
(`collector/core/syslog_server.py:172`), and never hears a source that is listed
later; in the model, `udp` never changes after `Bind`.

### Bounds

- Transport: up to three calls with one batch each, a batch size of two, two
  attempts per send, two attempts per row, two rows per SELECT, up to two
  process starts. Three batches allow a payload of two, a row, and a batch that
  waits; two rows allow a flush that fails at one and delivers the other, and
  two starts a restart over a table with rows. The code's 3, 10 and 10 are
  longer repetitions of the same.
- Scheduler: four devices, one of which APScheduler refuses, for one slot, so
  that two may have to wait in the queue; `MaxStarts` calls of `start()`.
- Collector: three devices in three plugins, one of which APScheduler refuses and
  one whose plugin is not found;
  two changes of the configuration and one of the role, enough for a change
  during each phase of a refresh and, as the first heartbeat may go unanswered,
  for a demotion followed by a promotion.
- Station: two collectors, three choices of the server (a change of roles and
  back), a crash and restart.
- Health: ticks of a minute with the real proportions (2, 5 and 1 for Docker,
  activity and watchdog; a heartbeat threshold of two), two starts of the
  process, failure counters up to two; ages stop where every limit is passed.
- Readings: a pair of OIDs of every two ways of reading a value, for every
  plugin, two collections, one change of a value (also between two fetches), one
  retry.
- Syslog transport: as the transport, with one process life.
- Remote logs: three calls, batches of two in a buffer of four, so that a batch can be
  in flight, put back and filled.
- Syslog: two addresses, a list that changes twice (an address can come and go
  between two refreshes), one connection of five bytes whose buffer holds two:
  an empty line, two lines, a rest at the end and a line that is too long all
  occur, in every division into chunks. Connections do not influence each other.

`MaxStarts`, `MaxChanges`, `MaxRoleChanges`, `MaxListChanges`, `MaxSent`,
`MaxChoices`, `MaxCrashes`, `MaxCollections`, `MaxDeviceChanges` and the
numbers of calls and connections are the only bounds of the models that the
code does not have.

`CHECK_DEADLOCK FALSE` is set where the model may stop: RemoteLogHandler makes
a finite number of calls, and stops with them. Elsewhere the end of a behaviour
is an explicit stuttering action (`Finished`, `Exited`).

### Fairness

asyncio runs every ready task in turn: each task's steps are weakly fair. Every
await in them is bounded: httpx has timeouts of 30 s, SQLite's busy timeout is
5 s, a collection is under `wait_for`. Strong fairness is used where the step is
enabled again and again and not for ever: persisting while the table is locked
and unlocked, firing a job that is refused during its previous collection, and
the success of a heartbeat or of a fetch (of devices or of syslog sources),
which may fail but not every time. It
is never assumed that a call, a stop, a crash, a timeout or a delivery happens,
that a process is started, or that a device answers. The liveness of the
transport is checked on SyslogTransport, whose fair behaviours include those of the
metric transport in which no flush is slow and no disk error occurs.

## 4. What is proved

Each component has a module of its theorems, `X_proofs`; `Transport_proofs` is
that of both transports, and the theorems about SyslogParser's functions are at
the end of `SyslogServer_proofs`. They hold for every value of the constants that
the ASSUMEs of the models allow: any calls, batches, devices, limits, bounds and
faults. An extra hypothesis is named below. TLC has checked every strengthened
invariant on the instances of section 3 (the three-call instance of
RemoteLogHandler was enlarged to six) before it was proved.

### The transports

| Theorem | States | Inductive invariant |
|---|---|---|
| `TypeCorrect` | `Spec => []TypeOK` | `TypeOK`, with what the lock's operators do to its types |
| `NothingVanishes`, `DiskIsDurable` | `[]Conservation`, `RowsAreDurable` | `CInv` |
| `NeverTwice` | `[]OneCopy` | `UInv` |
| `OldestFirst` | `[]OldestTriedMost` | itself, with `OldestHeld` and `TInv` |
| `TransportRefines` | `Spec => StoresAndForwards` | `TInv` |
| `OneSender` | one task at a time sends the buffer or writes it to disk | `LockInv` |
| `SentIsDeleted` | `[](starts <= 1 => DeleteOnSuccess)` | `DelInv` |
| `EventsAreKept`, `SyslogRefines` | the same of `SyslogSpec` | `EInv` |
| `StopLeavesOnlyLate` | `SyslogSpec => []OnlyLateEventsRemain` | `LateInv`, with `LockInv` |
| `SentEventIsDeleted` | `SyslogSpec => [](starts <= 1 => DeleteOnSuccess)` | `DelInv` |

*Nothing vanishes.* `Conservation` is not inductive: that a batch stays accounted
for when a transaction is committed needs to know that its deleted rows were
acknowledged (`DeletedInv`), that a process that is down has no task with a
payload (`PhaseInv`), and that a task holds a payload only where its handler
will deliver, persist or drop it (`PayloadInv`). `CInv` is these three and
`KeptInv`, the property itself; `RowsAreDurable` follows action by action.

*Where batches move.* The other facts about batches are proved once per effect
and not once per action: `Effect` says that a step puts a new batch in the
buffer or in a call's hands, lets a task take the buffer, deliver its payload,
store it or drop it, answers a row, commits, forgets a transaction, expires rows,
ends the process, or leaves the data alone; `TInvNext` shows it of every step of
`Next`. `UInv` is `OneCopy` one batch at a time (`Unique`) with what a step could
break it by: a batch that comes anew is nowhere yet (`Fresh`), a settled one is
held nowhere (`Settled`), ids given are below the next one (`IdsInv`).
`OldestTriedMost` needs to know whose attempts are counted: the rows of a
transaction are the oldest that have attempts left (`OldestHeld`), and no other
task takes them from the table meanwhile (`HeldInv`). The refinement maps every
effect to a step of `StoreAndForward` or to a stutter.

*The lock.* It is handed over to the first in the queue without asking it, so
that two tasks never work at once needs to know who is queued: nobody twice, nor
for the lock it holds, nor for a free lock (`QueueInv`), and only tasks that wait
for it (`LockInv`). `OnlyLateEventsRemain` then follows from the queue's order:
what is behind the final flush came after `stop()` began (`LateInv`).

*Delivered rows.* `DeleteOnSuccess` is proved under the conditions on which it
holds: the disk works and no flush is cut short by FLUSH_TIMEOUT (for the syslog
transport, which has no such timeout, that the disk works), in the first life of
the process. A second life may find rows again whose DELETE the end of the first
rolled back. TLC checks it over the restart-free instance.

### Scheduler, control and station

`SlotsComeBack` (`[](TypeOK /\ SlotsConserved)`): `start()` makes a new
semaphore, which is right only because APScheduler is stopped by then and no
collection outlives its shutdown (`RunInv`); the first in the queue gets the slot
of the one that leaves (`QueueInv`), so that slots and collections add up
(`SlotsInv`). `EveryJobIsKnown` (`[]NoOrphanJob`) needs to know where the jobs
are (`JobInv`): nothing is pending while APScheduler runs and its store is empty
while it does not, so that removing a job from the one place `remove_job()`
looks at removes it.

`FirstRunPollsAll` (`[](starts <= 1 => ScheduledHasJob)`) bounds what run
SchedulerRestart finds: before the first `start()` every scheduled device waits
in the pending list, until the first `stop()` it has a job in the store
(`FirstRun`), so a restart is the only way to lose one.

`MonitorKnows` (`[]FlagsAgree`): until the last step of `start()` the scheduler is
down (`StartInv`), and the role it then looks at is a role (`OwnInv`), which is all
that `_scheduler_running` is ever set from.

The control tasks bypass the scheduler's own next-state relation (the load and the
refresh schedule and unschedule many devices in one step), so what was shown of
CollectionScheduler is shown again of the composition:
`RefreshLeavesNoOrphan` (`NoOrphanJob`), and `TypeCorrect` and `RolesKeepSlots`
(`SlotsConserved`) from `OwnInv`, the types of what the tasks keep, and `SInv`,
which needs that a refresh schedules only devices some plugin has.

Three theorems state what the composition adds. `GoneIsNotPolled`
(`[][RefreshApplies => jobs' \cup pending' \subseteq Present(fetched)]_vars`): after
a refresh no job polls a device that the applied configuration does not have,
even if the pass ends in an exception, because the removals come first and every
scheduled device is known (`KnownInv`). `OneRefreshSuffices` is the safety half of
`MembershipConverges`: a refresh in which no device is refused (`NoneRefused`)
leaves exactly the devices of the configuration known, keeps scheduled those that
were and are still there, and adds the new ones that are enabled and whose plugin can
be instantiated, and no other (`AllNoticed`); every device must be in a group
(`ConfigAssumption`). That a device left out here is never tried again is part of
the same equation. `StopIsFinal` is the safety half of
`StoppedForGood`: after `stop()` the scheduler is quiet or its shutdown is queued
(`RunInv`, `JobInv`, `StopInv`), and no step queues another or wakes it up.

`OverlapsPass` (`[]OverlapHasCause`), for any number of collectors: `Judged` says
that a scheduler runs, or is about to, only as its basis says; two that run on
one choice would both be chosen by it.

### Remote logs

`TypeCorrect` counts: what is stored, dropped, taken and buffered was added by
calls that were made (`CountInv`), and one flusher at most holds a batch
(`TaskInv`). `LoggedInOrder` (`[]InOrder`) adds that everything waiting is older
than the next entry (`OrderInv`); `NothingUnaccounted` (`[]EntriesKept`) goes
entry by entry (`KeptInv`), with three ways to give an entry up: it says that there
is no fourth, not that nothing is lost.

`FilledBatchIsFinal` (`FullBatchBlocks`): a call at `relock` holds the
lock (`TaskInv`), so whoever needs the lock waits, and the buffer it filled is not
empty (`FullInv`), so a `stop()` that comes now needs the lock too. For the same
reason `DequeNeverFull` holds, which assumes `MaxBufferSize >= 2 * BatchSize` (1000
and 100 in `collector/core/remote_logging.py:24`): at most two batches are ever in
memory (`RoomInv`), and nothing is dropped from the deque.

### Syslog server, SNMP plugins, health

`ForwardedWasListed` (`[]OnlyListedSources`): `ListInv` adds that the list the
source ids come from, and the API's own, never hold more than was listed; the
lists of the protocols do not appear in it, since the first check does not
contribute. `PriorityIsRead` is for every priority the patterns accept,
`YearIsGuessed` for every month of every year.

`StreamsAreFramed` (`[]Framed`, with `TypeCorrect`): the buffer of an open
connection is what follows the last newline of what was sent, and its messages
are the lines of all that was sent (`FrameInv`). That a chunk keeps this so is
`LinesOfConcat`: the lines of `s \o t` are those of `s`, then those of `Rest(s) \o t`.
It is proved without an induction over streams: the newlines of `s \o t` are those
of `s` and those of `Rest(s) \o t` moved along (`EndsOfConcat`), the line each ends
is the same (`LineStays`, `LineMoves`), and the k-th of two sets of positions, one
below the other, is the k-th of the first or the (k - n)-th of the second
(`NthOfUnion`). A last newline exists because a set of numbers that is not empty
has a least one (`MaxIs`), a k-th position because counting is injective on a
finite set and hence onto (`NthIs`). `LongLinesDoNotMix` covers what `Framed` leaves
open, connections with a line that was too long: the buffer is always the end of
what was sent, without a newline (`BufferInv`), so every message is a run of bytes
of one line (`MessagesArePieces`).

`MetricsAreCurrent`, `AnsweredIsReported` and `TypeCorrect` share `RInv`: an
answer is a value its OID has had since the collection began (`AnswerInv`), and
between collections no fetch is under way while during one nothing is reported
(`PhaseInv`), so that what is reported was made of what the fetches still hold.
`NothingInvented` (`[]AbsentIsNotMeasured`) follows from `ReadingsAreCurrent`
because no two rows of a plugin's table have the same name (`NamesAreUnique`, a
fact about all rows of the four plugins) and because the text of an absent
instance holds no number (`NothingMeasured`). `EveryUptimeIsRead` is for all
numbers what `UptimesAreRead` samples.

The four theorems of `Health_proofs` rest on `AgesTell`, which relates what the
judges look at to the silence itself: the file is never younger than the
silence; while the file system works, both ages are the silence, a marker tells
of a long one, and a silence without a marker exceeds ACTIVITY_TIMEOUT by no
more than the watchdog has slept.

### Only model-checked

- Liveness (`MemoryDrains`, `DiskDrains`, `StopCompletes`, `EveryDevicePolled`,
  `StopReturns`, `CollectionEnds`, `StoppedForGood`, `OneCollects`, the convergence
  properties): fairness is out of the prover's reach. Of `StoppedForGood` and
  `MembershipConverges` the safety halves are the theorems above.
- `DeleteOnSuccess` of the syslog transport beyond the hypotheses above.

## 5. Not modelled

- The server beyond its answers. Whether it recognises a payload it has stored
  already is not in this repository.
- TLS, compression, serialisation, logging: no property depends on them.
- Plugins that do not speak SNMP: nautel, omnia, axia and zetta report
  placeholder zeros where their protocol is still to be written, and reach no
  device. In database mode their `http` settings never reach them.
- The plugin manager, but for the plugins it cannot instantiate (`NoPlugin`): it
  imports and instantiates plugins once. A plugin that
  first appears in a refresh is scheduled without having been initialised;
  the SNMP plugins do not mind.
- The dispatcher of the trap receiver and the decoding of traps, which pysnmp
  does; an error of the dispatcher leaves `_running` set.
- `_task_done_callback` as a source of the marker: the loops of `main.py` catch
  every `Exception` themselves.
- Config-file mode, which has no roles and no refresh.
- Configuration models and packaging.

## 6. Plan

Every safety property that a passing run checks is proved, with the hypotheses
named above for `DeleteOnSuccess`. What could follow: the refinement of Station by
several Collectors, so that "collects" there is "polls" here, and config-file mode.
