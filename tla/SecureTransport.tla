--------------------------- MODULE SecureTransport ---------------------------
(***************************************************************************)
(* The metric transport of the collector (core/transport.py): an in-memory *)
(* buffer behind an asyncio.Lock, a send with retries to the server, and a *)
(* SQLite table that keeps the payloads the server did not take.           *)
(*                                                                         *)
(* A Batch is one device's metrics of one enqueue call.  A payload is the  *)
(* set of batches taken from the buffer by one flush: their order and      *)
(* encoding do not matter to any property.  The tasks are the enqueue      *)
(* calls (main.py starts one asyncio task per callback and never waits for *)
(* it), the periodic flush task and the final flush that stop() runs.      *)
(* asyncio is cooperative: a step below is what a task does between two    *)
(* awaits.                                                                 *)
(***************************************************************************)
EXTENDS AsyncioLock, FiniteSets

CONSTANTS
    Calls,          \* the calls of enqueue()
    Batch,          \* the batches those calls make
    BatchesOf,      \* the batches of each call, one per device
    Flusher,        \* the task of _periodic_flush
    Stopper,        \* the task that awaits stop()
    BatchSize,      \* config.batch_size
    SendAttempts,   \* stop_after_attempt(3)
    MaxAttempts,    \* "attempts < 10" of the SELECT
    RowLimit,       \* "LIMIT 10" of the SELECT
    MaxStarts,      \* bound on the process starts of a behaviour
    Faults          \* which of AllFaults the environment may inject

AllFaults ==
    { "slow",       \* a flush lasts longer than FLUSH_TIMEOUT
      "disk",       \* SQLite raises for a reason other than a held lock
      "expiry",     \* rows reach the age of 24 hours
      "stop",       \* stop() is awaited
      "crash" }     \* the process dies

Flushers == {Flusher, Stopper}
Task == Calls \cup Flushers
Cause == {"persist", "cancel", "timeout", "expired", "exit"}

ASSUME TaskAssumption ==
    /\ Flusher # Stopper
    /\ Flusher \notin Calls /\ Stopper \notin Calls
    /\ NoTask \notin Task
ASSUME BatchAssumption ==
    /\ BatchesOf \in [Calls -> SUBSET Batch]
    /\ \A c \in Calls : BatchesOf[c] # {}
    /\ \A c, d \in Calls : c # d => BatchesOf[c] \cap BatchesOf[d] = {}
ASSUME BoundAssumption ==
    /\ BatchSize \in Nat \ {0} /\ SendAttempts \in Nat \ {0}
    /\ MaxAttempts \in Nat \ {0} /\ RowLimit \in Nat \ {0}
    /\ MaxStarts \in Nat
ASSUME FaultAssumption == Faults \subseteq AllFaults

VARIABLES
    phase,          \* of the process: "down", "up", "stopping" or "closed"
    pc,             \* where each task stands
    buffer,         \* _buffer
    payload,        \* the batches a task holds in a local variable
    tries,          \* POSTs a task made of the payload it is sending
    waited,         \* the running flush found the lock taken
    rows,           \* the committed rows of metric_buffer
    nextId,         \* the AUTOINCREMENT id of the next row
    todo,           \* fetched rows that _flush_persisted has yet to send
    deleted,        \* rows whose DELETE is executed and not committed
    failed,         \* rows whose UPDATE of attempts is not committed
    acked,          \* batches the client saw a 2xx answer for
    lost,           \* batches dropped without one, by cause
    starts          \* process starts so far

txn   == <<todo, deleted, failed>>
table == <<rows, nextId>>
vars  == <<phase, pc, lock, buffer, payload, tries, waited, table, txn,
           acked, lost, starts>>

CallPC    == {"idle", "lock", "send", "persist", "done"}
FlusherPC == {"off", "ready", "lock", "send", "persist", "select", "row", "clean"}
Row == [id : Nat \ {0}, batches : SUBSET Batch, attempts : Nat]

TypeOK ==
    /\ phase \in {"down", "up", "stopping", "closed"}
    /\ pc \in [Task -> CallPC \cup FlusherPC]
    /\ \A c \in Calls : pc[c] \in CallPC
    /\ \A f \in Flushers : pc[f] \in FlusherPC
    /\ holder \in Task \cup {NoTask}
    /\ waiters \in Seq(Task)
    /\ buffer \subseteq Batch
    /\ payload \in [Task -> SUBSET Batch]
    /\ tries \in [Task -> 0 .. SendAttempts - 1]
    /\ waited \in BOOLEAN
    /\ rows \subseteq Row
    /\ nextId \in Nat \ {0}
    /\ todo \subseteq Row /\ deleted \subseteq Row /\ failed \subseteq Row
    /\ acked \subseteq Batch
    /\ lost \in [Cause -> SUBSET Batch]
    /\ starts \in 0 .. MaxStarts

Init ==
    /\ phase = "down"
    /\ pc = [t \in Task |-> IF t \in Calls THEN "idle" ELSE "off"]
    /\ LockInit
    /\ buffer = {}
    /\ payload = [t \in Task |-> {}]
    /\ tries = [t \in Task |-> 0]
    /\ waited = FALSE
    /\ rows = {} /\ nextId = 1
    /\ todo = {} /\ deleted = {} /\ failed = {}
    /\ acked = {}
    /\ lost = [x \in Cause |-> {}]
    /\ starts = 0

-----------------------------------------------------------------------------
Goto(t, label) == pc' = [pc EXCEPT ![t] = label]

\* Where a task goes on once _flush_buffer has returned.
AfterBuffer(t) == IF t \in Calls THEN "done" ELSE "select"

\* flush() returns: the periodic task sleeps again, stop() closes the client.
Finish(f) ==
    /\ Goto(f, IF f = Flusher THEN "ready" ELSE "off")
    /\ phase' = IF f = Stopper THEN "closed" ELSE phase

-----------------------------------------------------------------------------
(* enqueue() *)

\* The call groups its metrics by device, then asks for the lock.  main.py
\* creates the task before stop() begins, so it may start to run after it.
EnqueueCall(c) ==
    /\ phase \in {"up", "stopping"}
    /\ pc[c] = "idle"
    /\ Goto(c, "lock")
    /\ payload' = [payload EXCEPT ![c] = BatchesOf[c]]
    /\ Acquire(c)
    /\ UNCHANGED <<phase, buffer, tries, waited, table, txn, acked, lost, starts>>

Full(bs) == Cardinality(bs) >= BatchSize

\* Mutant of TakeBuffer: the buffer is copied and not cleared.
CopyBuffer(t) ==
    /\ payload' = [payload EXCEPT ![t] = @ \cup buffer]
    /\ UNCHANGED buffer

\* batches = self._buffer.copy(); self._buffer.clear()
TakeBuffer(t) ==
    /\ payload' = [payload EXCEPT ![t] = @ \cup buffer]
    /\ buffer' = {}

\* Under the lock: append, and return when the buffer is below the threshold.
EnqueueBuffers(c) ==
    /\ pc[c] = "lock" /\ holder = c
    /\ ~ Full(buffer \cup payload[c])
    /\ buffer' = buffer \cup payload[c]
    /\ payload' = [payload EXCEPT ![c] = {}]
    /\ Goto(c, "done")
    /\ Release
    /\ UNCHANGED <<phase, tries, waited, table, txn, acked, lost, starts>>

\* Under the lock: append, then _flush_buffer takes the whole buffer.
EnqueueFlushes(c) ==
    /\ pc[c] = "lock" /\ holder = c
    /\ Full(buffer \cup payload[c])
    /\ TakeBuffer(c)
    /\ Goto(c, "send")
    /\ UNCHANGED <<phase, lock, tries, waited, table, txn, acked, lost, starts>>

-----------------------------------------------------------------------------
(* _flush_buffer(): send, and keep on disk what could not be sent.  A        *)
(* payload leaves the task when the server answers 2xx or a row is committed.*)

SendOk(t) ==
    /\ pc[t] = "send"
    /\ phase # "closed"
    /\ acked' = acked \cup payload[t]
    /\ payload' = [payload EXCEPT ![t] = {}]
    /\ tries' = [tries EXCEPT ![t] = 0]
    /\ Goto(t, AfterBuffer(t))
    /\ Release
    /\ UNCHANGED <<phase, buffer, waited, table, txn, lost, starts>>

\* Mutant of MaySendAgain: one attempt too many.
MaySendOnceMore(t) == tries[t] + 1 <= SendAttempts

\* A transport error or timeout of httpx, with an attempt left: the POST is
\* repeated, whether or not the server had stored the first one.
MaySendAgain(t) == tries[t] + 1 < SendAttempts

\* Mutant of SendRetries: the attempts are counted anew after the last one.
RetriesForever(t) ==
    /\ pc[t] = "send"
    /\ tries' = [tries EXCEPT ![t] = (@ + 1) % SendAttempts]
    /\ UNCHANGED <<phase, pc, lock, buffer, payload, waited, table, txn, acked,
                   lost, starts>>

SendRetries(t) ==
    /\ pc[t] = "send"
    /\ MaySendAgain(t)
    /\ tries' = [tries EXCEPT ![t] = @ + 1]
    /\ UNCHANGED <<phase, pc, lock, buffer, payload, waited, table, txn, acked,
                   lost, starts>>

\* Attempts exhausted, a status that is not retried, SEND_TIMEOUT, or a client
\* that stop() has closed.
SendFails(t) ==
    /\ pc[t] = "send"
    /\ tries' = [tries EXCEPT ![t] = 0]
    /\ Goto(t, "persist")
    /\ UNCHANGED <<phase, lock, buffer, payload, waited, table, txn, acked, lost,
                   starts>>

\* Python's sqlite3 opens a transaction at the first DML statement, and
\* SQLite lets one connection at a time hold one.
WriteLocked == deleted \cup failed # {}

PersistOk(t) ==
    /\ pc[t] = "persist"
    /\ ~ WriteLocked
    /\ rows' = rows \cup {[id |-> nextId, batches |-> payload[t], attempts |-> 0]}
    /\ nextId' = nextId + 1
    /\ payload' = [payload EXCEPT ![t] = {}]
    /\ Goto(t, AfterBuffer(t))
    /\ Release
    /\ UNCHANGED <<phase, buffer, tries, waited, txn, acked, lost, starts>>

\* "database is locked" after SQLite's 5 s busy timeout, because the flush of
\* persisted rows awaits its next POST inside its transaction; or another disk
\* error.  _persist_to_disk logs the exception and drops the payload.
PersistRaises == (WriteLocked /\ todo # {}) \/ "disk" \in Faults

PersistFails(t) ==
    /\ pc[t] = "persist"
    /\ PersistRaises
    /\ lost' = [lost EXCEPT !["persist"] = @ \cup payload[t]]
    /\ payload' = [payload EXCEPT ![t] = {}]
    /\ Goto(t, AfterBuffer(t))
    /\ Release
    /\ UNCHANGED <<phase, buffer, tries, waited, table, txn, acked, starts>>

-----------------------------------------------------------------------------
(* flush(): the buffer first, then the persisted rows. *)

FlushBegin(f) ==
    /\ pc[f] = "ready"
    /\ Goto(f, "lock")
    /\ waited' = (holder # NoTask)
    /\ Acquire(f)
    /\ UNCHANGED <<phase, buffer, payload, tries, table, txn, acked, lost, starts>>

FlushTakesBuffer(f) ==
    /\ pc[f] = "lock" /\ holder = f
    /\ buffer # {}
    /\ TakeBuffer(f)
    /\ Goto(f, "send")
    /\ UNCHANGED <<phase, lock, tries, waited, table, txn, acked, lost, starts>>

FlushFindsNothing(f) ==
    /\ pc[f] = "lock" /\ holder = f
    /\ buffer = {}
    /\ Goto(f, "select")
    /\ Release
    /\ UNCHANGED <<phase, buffer, payload, tries, waited, table, txn, acked, lost,
                   starts>>

(* _flush_persisted(): runs outside the lock.  Rows are inserted under the  *)
(* lock, so the order of created_at is the order of the ids.                *)

\* Mutant of Older: the newest rows are selected first.
Newer(r) == {s \in rows : s.attempts < MaxAttempts /\ s.id > r.id}

Sendable(r) == r.attempts < MaxAttempts
Older(r) == {s \in rows : Sendable(s) /\ s.id < r.id}
Selected == {r \in rows : Sendable(r) /\ Cardinality(Older(r)) < RowLimit}

Select(f) ==
    /\ pc[f] = "select"
    /\ todo' = Selected
    /\ Goto(f, "row")
    /\ UNCHANGED <<phase, lock, buffer, payload, tries, waited, table, deleted,
                   failed, acked, lost, starts>>

IsNext(r) == r \in todo /\ \A s \in todo : r.id <= s.id

RowOk(f, r) ==
    /\ pc[f] = "row" /\ IsNext(r)
    /\ acked' = acked \cup r.batches
    /\ deleted' = deleted \cup {r}
    /\ todo' = todo \ {r}
    /\ tries' = [tries EXCEPT ![f] = 0]
    /\ UNCHANGED <<phase, pc, lock, buffer, payload, waited, table, failed, lost,
                   starts>>

RowRetries(f, r) ==
    /\ pc[f] = "row" /\ IsNext(r)
    /\ MaySendAgain(f)
    /\ tries' = [tries EXCEPT ![f] = @ + 1]
    /\ UNCHANGED <<phase, pc, lock, buffer, payload, waited, table, txn, acked,
                   lost, starts>>

\* The POST failed; or it succeeded and the DELETE raised.
RowFails(f, r) ==
    /\ pc[f] = "row" /\ IsNext(r)
    /\ \/ UNCHANGED acked
       \/ "disk" \in Faults /\ acked' = acked \cup r.batches
    /\ failed' = failed \cup {r}
    /\ todo' = todo \ {r}
    /\ tries' = [tries EXCEPT ![f] = 0]
    /\ UNCHANGED <<phase, pc, lock, buffer, payload, waited, table, deleted, lost,
                   starts>>

\* Mutant of Tried: the attempt is not counted.
Untried(r) == r

Tried(r) == [id |-> r.id, batches |-> r.batches, attempts |-> r.attempts + 1]

\* Mutants of Committed: a failed row is deleted like a sent one, or the
\* deletes are lost.
CommittedWithoutFailed == rows \ (deleted \cup failed)
CommittedUpdatesOnly == (rows \ failed) \cup {Tried(r) : r \in failed}

\* The one commit after the loop makes every DELETE and UPDATE visible.
Committed == (rows \ (deleted \cup failed)) \cup {Tried(r) : r \in failed}

Commit(f) ==
    /\ pc[f] = "row" /\ todo = {}
    /\ rows' = Committed
    /\ deleted' = {} /\ failed' = {}
    /\ Goto(f, "clean")
    /\ UNCHANGED <<phase, lock, buffer, payload, tries, waited, nextId, todo, acked,
                   lost, starts>>

BatchesIn(rs) == UNION {r.batches : r \in rs}

\* The rows before the cutoff go, whatever their attempts; then flush returns.
Clean(f) ==
    /\ pc[f] = "clean"
    /\ \E cutoff \in 1 .. (IF "expiry" \in Faults THEN nextId ELSE 1) :
          LET old == {r \in rows : r.id < cutoff} IN
          /\ rows' = rows \ old
          /\ lost' = [lost EXCEPT !["expired"] = @ \cup (BatchesIn(old) \ acked)]
    /\ Finish(f)
    /\ UNCHANGED <<lock, buffer, payload, tries, waited, nextId, txn, acked, starts>>

\* The outer except: the connection closes and the transaction rolls back.
FlushPersistedError(f) ==
    /\ "disk" \in Faults
    /\ pc[f] \in {"select", "row", "clean"}
    /\ todo' = {} /\ deleted' = {} /\ failed' = {}
    /\ tries' = [tries EXCEPT ![f] = 0]
    /\ Finish(f)
    /\ UNCHANGED <<lock, buffer, payload, waited, table, acked, lost, starts>>

-----------------------------------------------------------------------------
(* Cancellation of a flush, by its timeout or by stop().  CancelledError is  *)
(* no Exception: nothing persists the payload that was taken from the buffer.*)

Interrupt(f, cause) ==
    /\ lost' = [lost EXCEPT ![cause] = @ \cup payload[f]]
    /\ payload' = [payload EXCEPT ![f] = {}]
    /\ tries' = [tries EXCEPT ![f] = 0]
    /\ todo' = {} /\ deleted' = {} /\ failed' = {}
    /\ LeaveLock(f)

\* FLUSH_TIMEOUT is twice SEND_TIMEOUT, so it can only hit the send of the
\* buffer when the flush had to wait for the lock.  The sends of the rows have
\* no timeout of their own.
FlushTimeout(f) ==
    /\ "slow" \in Faults
    /\ \/ pc[f] = "lock" /\ holder # f
       \/ pc[f] \in {"send", "persist"} /\ waited
       \/ pc[f] \in {"select", "row", "clean"}
    /\ Interrupt(f, "timeout")
    /\ Finish(f)
    /\ UNCHANGED <<buffer, waited, table, acked, starts>>

-----------------------------------------------------------------------------
(* start(), stop() and the end of the process *)

Start ==
    /\ phase = "down"
    /\ starts < MaxStarts
    /\ phase' = "up"
    /\ starts' = starts + 1
    /\ Goto(Flusher, "ready")
    /\ UNCHANGED <<lock, buffer, payload, tries, waited, table, txn, acked, lost>>

Stop ==
    /\ "stop" \in Faults
    /\ phase = "up"
    /\ phase' = "stopping"
    /\ Interrupt(Flusher, "cancel")
    /\ pc' = [pc EXCEPT ![Flusher] = "off", ![Stopper] = "ready"]
    /\ UNCHANGED <<buffer, waited, table, acked, starts>>

\* The process exits after stop(), or dies.  Tasks and memory go, rows stay.
ProcessEnds ==
    /\ phase = "closed" \/ (phase # "down" /\ "crash" \in Faults)
    /\ phase' = "down"
    /\ pc' = [t \in Task |-> IF t \in Flushers THEN "off"
                             ELSE IF pc[t] = "idle" THEN "idle" ELSE "done"]
    /\ lost' = [lost EXCEPT !["exit"] =
                    @ \cup buffer \cup UNION {payload[t] : t \in Task}]
    /\ buffer' = {}
    /\ payload' = [t \in Task |-> {}]
    /\ tries' = [t \in Task |-> 0]
    /\ waited' = FALSE
    /\ holder' = NoTask /\ waiters' = <<>>
    /\ todo' = {} /\ deleted' = {} /\ failed' = {}
    /\ UNCHANGED <<table, acked, starts>>

\* Nothing is left to happen within the bounds: not a deadlock.
Finished ==
    /\ phase = "down" /\ starts = MaxStarts
    /\ UNCHANGED vars

-----------------------------------------------------------------------------

Sends(t)    == SendOk(t) \/ SendRetries(t) \/ SendFails(t)
Persists(t) == PersistOk(t) \/ PersistFails(t)

CallStep(c) == EnqueueBuffers(c) \/ EnqueueFlushes(c) \/ Sends(c) \/ Persists(c)

RowStep(f) == \E r \in todo : RowOk(f, r) \/ RowRetries(f, r) \/ RowFails(f, r)

FlushStep(f) ==
    \/ FlushBegin(f) \/ FlushTakesBuffer(f) \/ FlushFindsNothing(f)
    \/ Sends(f) \/ Persists(f)
    \/ Select(f) \/ RowStep(f) \/ Commit(f) \/ Clean(f)

Environment ==
    \/ Start \/ Stop \/ ProcessEnds
    \/ \E c \in Calls : EnqueueCall(c)
    \/ \E f \in Flushers : FlushTimeout(f) \/ FlushPersistedError(f)

Next ==
    \/ \E c \in Calls : CallStep(c)
    \/ \E f \in Flushers : FlushStep(f)
    \/ Environment
    \/ Finished

Spec == Init /\ [][Next]_vars

-----------------------------------------------------------------------------
(* Properties *)

Memory == buffer \cup UNION {payload[t] : t \in Task}
Disk == BatchesIn(rows)
Lost == UNION {lost[x] : x \in Cause}

\* No batch given to enqueue() vanishes unnoticed: it is in memory, on disk,
\* acknowledged, or it was dropped at one of the places that drop batches.
Conservation ==
    \A c \in Calls : pc[c] # "idle" =>
        BatchesOf[c] \subseteq Memory \cup Disk \cup acked \cup Lost

\* A batch is held once: in the buffer, in one task's payload or in one row.
\* The copy-and-clear of _flush_buffer and the retries never fork a payload.
OneCopy ==
    /\ \A t \in Task : payload[t] \cap (buffer \cup Disk) = {}
    /\ \A t, u \in Task : t # u => payload[t] \cap payload[u] = {}
    /\ buffer \cap Disk = {}
    /\ \A r, s \in rows : r # s => r.id # s.id /\ r.batches \cap s.batches = {}

\* "Delete on success": while the collector runs, a row whose payload was
\* acknowledged has its DELETE executed, or is gone.
DeleteOnSuccess ==
    phase = "up" => \A r \in rows : r.batches \cap acked # {} => r \in deleted

\* A committed row leaves the table only when its payload was acknowledged or
\* when it expired: neither a crash nor a roll back nor stop() loses one.
RowsAreDurable ==
    [][\A b \in Disk : b \in Disk' \/ b \in acked \/ b \in lost["expired"]']_vars

\* The oldest rows are tried first: no row has had more attempts than an older
\* one, so a stream of new rows cannot starve an old one of its attempts.
OldestTriedMost ==
    \A r, s \in rows : r.id < s.id => r.attempts >= s.attempts

\* The "local SQLite buffer for network outages" keeps what was not sent.
OfflineResilience == lost["persist"] = {}

\* A batch does not stay in memory while the process lives.
MemoryDrains ==
    \A b \in Batch : b \in Memory ~> b \notin Memory \/ phase # "up"

Exhausted == BatchesIn({r \in rows : ~ Sendable(r)})

\* A persisted batch is acknowledged in the end, or its row has had all its
\* attempts, or the process stops.
DiskDrains ==
    \A b \in Batch :
        b \in Disk ~> b \in acked \cup Exhausted \cup Lost \/ phase # "up"

\* Where each batch stands, for the abstract specification.
Standing ==
    [b \in Batch |-> CASE b \in acked -> "acked"
                      [] b \in Lost \ acked -> "lost"
                      [] b \in Disk \ (acked \cup Lost) -> "disk"
                      [] b \in Memory \ (Disk \cup acked \cup Lost) -> "memory"
                      [] OTHER -> "new"]

Promise == INSTANCE StoreAndForward WITH Batch <- Batch, status <- Standing

\* The transport implements StoreAndForward: a batch on disk is only ever
\* acknowledged or expired, and what is acknowledged or lost stays so.
StoresAndForwards == Promise!Spec

\* stop() returns, whatever the server and the other tasks do.
StopCompletes == phase = "stopping" ~> phase \in {"closed", "down"}

=============================================================================
