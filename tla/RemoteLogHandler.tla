-------------------------- MODULE RemoteLogHandler --------------------------
(***************************************************************************)
(* The remote log handler (core/remote_logging.py): a bounded deque of log *)
(* entries behind an asyncio.Lock, a periodic flush that takes a batch and *)
(* puts it back in front when the server does not take it, and the flush   *)
(* that add_log() makes when the buffer is full.  An entry is the number   *)
(* of its append.  The calls of add_log() are those StructlogProcessor     *)
(* makes, one task each; main.py does not install that processor.          *)
(***************************************************************************)
EXTENDS AsyncioLock, FiniteSets

CONSTANTS
    Calls,          \* the calls of add_log()
    Loop,           \* the task of _flush_loop
    Stopper,        \* the task that awaits stop()
    BatchSize,      \* BATCH_SIZE
    MaxBufferSize   \* MAX_BUFFER_SIZE, the maxlen of the deque

Flushers == {Loop, Stopper}
Task == Calls \cup Flushers

ASSUME LogTaskAssumption ==
    /\ Loop # Stopper /\ Loop \notin Calls /\ Stopper \notin Calls
    /\ NoTask \notin Task
    /\ IsFiniteSet(Calls)
ASSUME LogBoundAssumption ==
    /\ BatchSize \in Nat \ {0}
    /\ MaxBufferSize \in Nat /\ MaxBufferSize >= BatchSize

VARIABLES
    phase,      \* "up", "stopping" or "stopped"
    pc,         \* where each task stands
    buffer,     \* _buffer
    taken,      \* the batch of the flush in progress
    added,      \* number of entries appended so far
    stored,     \* entries the server stored
    dropped     \* entries the handler gave up, by cause

vars == <<phase, pc, lock, buffer, taken, added, stored, dropped>>

Entry == 1 .. Cardinality(Calls)

\* Pushed out of a full deque, lost with a cancelled flush, or part of a batch the
\* server accepted and did not store.
Cause == {"full", "stop", "short"}

TypeOK ==
    /\ phase \in {"up", "stopping", "stopped"}
    /\ pc \in [Task -> {"idle", "lock", "relock", "done",
                        "off", "sleep", "take", "send", "putback"}]
    /\ holder \in Task \cup {NoTask}
    /\ waiters \in Seq(Task)
    /\ buffer \in Seq(Entry) /\ Len(buffer) <= MaxBufferSize
    /\ taken \in Seq(Entry) /\ Len(taken) <= BatchSize
    /\ added \in 0 .. Cardinality(Calls)
    /\ stored \subseteq Entry
    /\ dropped \in [Cause -> SUBSET Entry]

Init ==
    /\ phase = "up"
    /\ pc = [t \in Task |-> IF t \in Calls THEN "idle"
                            ELSE IF t = Loop THEN "sleep" ELSE "off"]
    /\ LockInit
    /\ buffer = <<>> /\ taken = <<>>
    /\ added = 0
    /\ stored = {} /\ dropped = [k \in Cause |-> {}]

-----------------------------------------------------------------------------
Goto(t, label) == pc' = [pc EXCEPT ![t] = label]

Drop(cause, entries) == dropped' = [dropped EXCEPT ![cause] = @ \cup entries]

Lost == UNION {dropped[k] : k \in Cause}

-----------------------------------------------------------------------------
(* add_log() *)

AddLog(c) ==
    /\ pc[c] = "idle"
    /\ Goto(c, "lock")
    /\ Acquire(c)
    /\ UNCHANGED <<phase, buffer, taken, added, stored, dropped>>

\* A full deque drops its oldest entry.
AppendEntry ==
    /\ added' = added + 1
    /\ IF Len(buffer) < MaxBufferSize
       THEN /\ buffer' = Append(buffer, added + 1)
            /\ UNCHANGED dropped
       ELSE /\ buffer' = Append(Tail(buffer), added + 1)
            /\ Drop("full", {Head(buffer)})
    /\ UNCHANGED <<phase, taken, stored>>

AddBelowBatch(c) ==
    /\ pc[c] = "lock" /\ holder = c
    /\ AppendEntry
    /\ Len(buffer') < BatchSize
    /\ Goto(c, "done")
    /\ Release

\* Mutant of AddFillsBatch: the lock is released before the flush.
AddThenFlush(c) ==
    /\ pc[c] = "lock" /\ holder = c
    /\ AppendEntry
    /\ Len(buffer') >= BatchSize
    /\ Goto(c, "relock")
    /\ Release

\* The flush of a full buffer asks for the lock that its caller holds.
AddFillsBatch(c) ==
    /\ pc[c] = "lock" /\ holder = c
    /\ AppendEntry
    /\ Len(buffer') >= BatchSize
    /\ Goto(c, "relock")
    /\ waiters' = Append(waiters, c)
    /\ UNCHANGED holder

-----------------------------------------------------------------------------
(* _flush(), by the periodic task and by stop() *)

\* The flush returns: the loop sleeps, stop() closes the client.
Finish(f) ==
    /\ Goto(f, IF f = Loop THEN "sleep" ELSE "off")
    /\ phase' = IF f = Stopper THEN "stopped" ELSE phase

FlushBegin(f) ==
    /\ pc[f] = "sleep"
    /\ buffer # <<>>
    /\ Goto(f, "take")
    /\ Acquire(f)
    /\ UNCHANGED <<phase, buffer, taken, added, stored, dropped>>

\* stop() finds an empty buffer.
NothingToFlush ==
    /\ pc[Stopper] = "sleep"
    /\ buffer = <<>>
    /\ Finish(Stopper)
    /\ UNCHANGED <<lock, buffer, taken, added, stored, dropped>>

\* Mutant of BatchLength: everything is taken.
WholeBuffer == Len(buffer)

BatchLength == IF Len(buffer) < BatchSize THEN Len(buffer) ELSE BatchSize

Take(f) ==
    /\ pc[f] = "take" /\ holder = f
    /\ taken' = SubSeq(buffer, 1, BatchLength)
    /\ buffer' = SubSeq(buffer, BatchLength + 1, Len(buffer))
    /\ Goto(f, "send")
    /\ Release
    /\ UNCHANGED <<phase, added, stored, dropped>>

\* The server stores what it likes of the batch.
ServerStores == \E es \in SUBSET ToSet(taken) : stored' = stored \cup es

\* A 2xx answer settles the batch: that the server stored fewer entries than were
\* sent is only printed, and what it did not store is given up.
PostOk(f) ==
    /\ pc[f] = "send"
    /\ ServerStores
    /\ Drop("short", ToSet(taken) \ stored')
    /\ taken' = <<>>
    /\ Finish(f)
    /\ UNCHANGED <<lock, buffer, added>>

\* No answer, an error status or an answer that is no JSON: the server may have
\* stored the batch all the same, or a part of it.
PostFails(f) ==
    /\ pc[f] = "send"
    /\ ServerStores
    /\ Goto(f, "putback")
    /\ Acquire(f)
    /\ UNCHANGED <<phase, buffer, taken, added, dropped>>

\* Mutants of PutBackInFront: the batch without reversed(), or not at all.
PutBackReversed == Reverse(taken) \o buffer
PutBackNothing == buffer

\* appendleft() of each entry, the last one first.
PutBackInFront == taken \o buffer

\* A deque that is full drops its newest entries for those put back in front.
PutBack(f) ==
    /\ pc[f] = "putback" /\ holder = f
    /\ LET all == PutBackInFront
           n   == IF Len(all) < MaxBufferSize THEN Len(all) ELSE MaxBufferSize IN
       /\ buffer' = SubSeq(all, 1, n)
       /\ Drop("full", ToSet(SubSeq(all, n + 1, Len(all))))
    /\ taken' = <<>>
    /\ Finish(f)
    /\ Release
    /\ UNCHANGED <<added, stored>>

-----------------------------------------------------------------------------

\* stop() cancels the periodic task, and with it the batch it has taken.
Stop ==
    /\ phase = "up"
    /\ phase' = "stopping"
    /\ pc' = [pc EXCEPT ![Loop] = "off", ![Stopper] = "sleep"]
    /\ Drop("stop", ToSet(taken) \ stored)
    /\ taken' = <<>>
    /\ LeaveLock(Loop)
    /\ UNCHANGED <<buffer, added, stored>>

CallStep(c) == AddBelowBatch(c) \/ AddFillsBatch(c)

FlushStep(f) ==
    \/ FlushBegin(f) \/ Take(f) \/ PostOk(f) \/ PostFails(f) \/ PutBack(f)

Next ==
    \/ \E c \in Calls : AddLog(c) \/ CallStep(c)
    \/ \E f \in Flushers : FlushStep(f)
    \/ NothingToFlush
    \/ Stop

Spec == Init /\ [][Next]_vars

\* Every task whose await is over runs on; httpx bounds every POST.
FairSpec ==
    /\ Spec
    /\ \A c \in Calls : WF_vars(CallStep(c))
    /\ \A f \in Flushers : WF_vars(FlushStep(f))
    /\ WF_vars(NothingToFlush)

-----------------------------------------------------------------------------
(* Properties *)

\* What waits to be sent is in the order it was logged, oldest first, even when
\* entries are added between the take and the put back of a batch.
InOrder ==
    LET unsent == taken \o buffer IN
    \A i, j \in 1 .. Len(unsent) : i < j => unsent[i] < unsent[j]

\* No entry disappears unaccounted for: until the server has stored it, an entry is
\* in the buffer or in the batch of a flush, or it was given up in one of three ways
\* (a full deque, a cancelled flush, a server that accepts a batch and stores less).
EntriesKept ==
    1 .. added \subseteq ToSet(buffer) \cup ToSet(taken) \cup stored \cup Lost

\* A call of add_log() that has filled a batch waits for the lock it holds itself.
Stuck == \E c \in Calls : pc[c] = "relock"

\* The call that fills a batch blocks the handler for good: nothing is added to the
\* buffer or taken from it any more, and a stop() that has no batch in its hands does
\* not return, whatever the other calls, the periodic flush and the server do
\* (add_log() calls _flush() under _buffer_lock).
FullBatchBlocks ==
    [][Stuck => /\ Stuck'
                /\ UNCHANGED <<buffer, added>>
                /\ phase' = phase \/ phase' = "stopping" \/ pc[Stopper] = "send"]_vars

\* stop() returns, and with it the shutdown sequence of the collector goes on,
\* unless a call has filled a batch and keeps the lock for ever (FullBatchBlocks).
StopReturns == phase = "stopping" ~> phase = "stopped" \/ Stuck

=============================================================================
