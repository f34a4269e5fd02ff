--------------------------- MODULE SyslogTransport ---------------------------
(***************************************************************************)
(* The transport of syslog events and traps (core/syslog_transport.py), a  *)
(* twin of the metric transport without any timeout of its own: neither a  *)
(* send nor a flush is cut short by the clock.  A call of enqueue() brings *)
(* one event, and each callback starts such a call as a task.              *)
(*                                                                         *)
(* Collector.stop() stops the syslog server before this transport and the  *)
(* trap receiver after it, and leaves open TCP connections as they are: a  *)
(* call may begin while stop() runs and when it is over.                   *)
(***************************************************************************)
EXTENDS SecureTransport

VARIABLE late       \* history: events whose call began after stop() did

svars == <<vars, late>>

ASSUME OneEventPerCall == \A c \in Calls : Cardinality(BatchesOf[c]) = 1

SyslogInit == Init /\ late = {}

-----------------------------------------------------------------------------
(* enqueue() *)

\* enqueue() formats the event and asks for the lock.
EnqueueEvent(c) ==
    /\ phase # "down"
    /\ pc[c] = "idle"
    /\ Goto(c, "lock")
    /\ payload' = [payload EXCEPT ![c] = BatchesOf[c]]
    /\ Acquire(c)
    /\ late' = IF phase = "up" THEN late ELSE late \cup BatchesOf[c]
    /\ UNCHANGED <<phase, buffer, tries, waited, table, txn, acked, lost, starts>>

\* Under the lock: append, and flush at the threshold.
EnqueueAppends(c) == EnqueueBuffers(c) \/ EnqueueFlushes(c)

-----------------------------------------------------------------------------
(* flush() and what it calls *)

PeriodicFlush == FlushBegin(Flusher)

FinalFlush == FlushBegin(Stopper)

FlushBuffer(f) == FlushTakesBuffer(f) \/ FlushFindsNothing(f)

\* Three attempts for transport errors and timeouts, one for a bad status.
SendWithRetry(t) == SendOk(t) \/ SendRetries(t) \/ SendFails(t)

PersistToDisk(t) == PersistOk(t) \/ PersistFails(t)

FlushPersisted(f) ==
    Select(f) \/ RowStep(f) \/ Commit(f) \/ Clean(f) \/ FlushPersistedError(f)

EnqueueStep(c) == EnqueueAppends(c) \/ SendWithRetry(c) \/ PersistToDisk(c)

FlusherStep(f) ==
    \/ f = Flusher /\ PeriodicFlush
    \/ f = Stopper /\ FinalFlush
    \/ FlushBuffer(f) \/ SendWithRetry(f) \/ PersistToDisk(f) \/ FlushPersisted(f)

-----------------------------------------------------------------------------
(* start() and stop() *)

StartTransport == Start

\* Mutant of StopTransport: the final flush is left out.
StopUnflushed ==
    /\ "stop" \in Faults
    /\ phase = "up"
    /\ phase' = "closed"
    /\ Interrupt(Flusher, "cancel")
    /\ Goto(Flusher, "off")
    /\ UNCHANGED <<buffer, waited, table, acked, starts>>

StopTransport == Stop

-----------------------------------------------------------------------------

SyslogNext ==
    \/ \E c \in Calls : EnqueueEvent(c)
    \/ /\ \/ \E c \in Calls : EnqueueStep(c)
          \/ \E f \in Flushers : FlusherStep(f)
          \/ StartTransport \/ StopTransport \/ ProcessEnds
          \/ Finished
       /\ UNCHANGED late

SyslogSpec == SyslogInit /\ [][SyslogNext]_svars

(***************************************************************************)
(* As for the metric transport: ready tasks run, and a persist that finds  *)
(* the table locked again and again is let through in the end.             *)
(***************************************************************************)
SyslogFairness ==
    /\ \A c \in Calls :
          /\ WF_svars(EnqueueStep(c) /\ UNCHANGED late)
          /\ SF_svars(PersistToDisk(c) /\ UNCHANGED late)
    /\ \A f \in Flushers :
          /\ WF_svars(FlusherStep(f) /\ UNCHANGED late)
          /\ SF_svars(PersistToDisk(f) /\ UNCHANGED late)

FairSyslogSpec == SyslogSpec /\ SyslogFairness

-----------------------------------------------------------------------------
(* Properties; DeleteOnSuccess, MemoryDrains, DiskDrains and StopCompletes   *)
(* are those of SecureTransport.                                             *)

\* "Stop transport and flush remaining events": stop() leaves nothing in memory
\* whose enqueue() had begun before it, however many calls were queued for the
\* lock when it began.
OnlyLateEventsRemain == phase = "closed" => Memory \subseteq late

=============================================================================
