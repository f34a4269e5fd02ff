-------------------------- MODULE Transport_proofs --------------------------
(***************************************************************************)
(* Theorems about the two transports, for every set of calls, every        *)
(* grouping of their batches, every bound and every choice of faults:      *)
(* first SecureTransport, then SyslogTransport, whose steps are those of   *)
(* SecureTransport but for the calls that begin when stop() is over.       *)
(***************************************************************************)
EXTENDS SyslogTransport, SequenceTheorems, FiniteSetTheorems, TLAPS

\* The two flushers are tasks and are not calls.
LEMMA FlushersAreTasks ==
    /\ Flusher \in Task /\ Stopper \in Task
    /\ Flusher \notin Calls /\ Stopper \notin Calls
    /\ Flusher # Stopper
    /\ Calls \subseteq Task /\ Flushers \subseteq Task
  BY TaskAssumption DEF Task, Flushers

\* A lock handed over, or left by a cancelled task, keeps its type.
LEMMA LockTypes ==
    ASSUME holder \in Task \cup {NoTask}, waiters \in Seq(Task)
    PROVE  /\ Release => holder' \in Task \cup {NoTask} /\ waiters' \in Seq(Task)
           /\ \A t \in Task : Acquire(t) \/ LeaveLock(t)
                 => holder' \in Task \cup {NoTask} /\ waiters' \in Seq(Task)
<1>1. Release => holder' \in Task \cup {NoTask} /\ waiters' \in Seq(Task)
  BY HeadTailProperties DEF Release
<1>2. ASSUME NEW t \in Task, Acquire(t)
      PROVE  holder' \in Task \cup {NoTask} /\ waiters' \in Seq(Task)
  BY <1>2, AppendProperties DEF Acquire
<1>3. ASSUME NEW i \in 1 .. Len(waiters)
      PROVE  RemoveAt(waiters, i) \in Seq(Task)
  BY DEF RemoveAt
<1>4. ASSUME NEW t \in Task, LeaveLock(t)
      PROVE  holder' \in Task \cup {NoTask} /\ waiters' \in Seq(Task)
  BY <1>1, <1>3, <1>4 DEF LeaveLock, lock
<1> QED
  BY <1>1, <1>2, <1>4

\* Type correctness: TypeOK is inductive.
LEMMA TypeInit == Init => TypeOK
<1> SUFFICES ASSUME Init PROVE TypeOK
  OBVIOUS
<1>1. /\ pc \in [Task -> CallPC \cup FlusherPC]
      /\ \A c \in Calls : pc[c] \in CallPC
      /\ \A f \in Flushers : pc[f] \in FlusherPC
  BY TaskAssumption DEF Init, Task, Flushers, CallPC, FlusherPC
<1>2. waiters \in Seq(Task) /\ tries \in [Task -> 0 .. SendAttempts - 1]
  BY EmptySeq, BoundAssumption DEF Init, LockInit
<1>3. starts \in 0 .. MaxStarts /\ nextId \in Nat \ {0}
  BY BoundAssumption DEF Init
<1>4. /\ payload \in [Task -> SUBSET Batch] /\ lost \in [Cause -> SUBSET Batch]
      /\ holder \in Task \cup {NoTask} /\ waited \in BOOLEAN
  BY DEF Init, LockInit
<1>5. /\ rows \subseteq Row /\ todo \subseteq Row /\ deleted \subseteq Row
      /\ failed \subseteq Row /\ buffer \subseteq Batch /\ acked \subseteq Batch
      /\ phase \in {"down", "up", "stopping", "closed"}
  BY DEF Init
<1> QED
  BY <1>1, <1>2, <1>3, <1>4, <1>5 DEF TypeOK

LEMMA TypeNext == TypeOK /\ [Next]_vars => TypeOK'
<1> SUFFICES ASSUME TypeOK, [Next]_vars PROVE TypeOK'
  OBVIOUS
<1> USE FlushersAreTasks DEF TypeOK
<1>1. ASSUME NEW c \in Calls, EnqueueCall(c) PROVE TypeOK'
  <2>1. holder' \in Task \cup {NoTask} /\ waiters' \in Seq(Task)
    BY <1>1, LockTypes DEF EnqueueCall
  <2>2. payload' \in [Task -> SUBSET Batch]
    BY <1>1, BatchAssumption DEF EnqueueCall
  <2> QED
    BY <1>1, <2>1, <2>2 DEF EnqueueCall, Goto, table, txn, CallPC, Flushers
<1>2. ASSUME NEW c \in Calls, EnqueueBuffers(c) PROVE TypeOK'
  <2>1. holder' \in Task \cup {NoTask} /\ waiters' \in Seq(Task)
    BY <1>2, LockTypes DEF EnqueueBuffers
  <2> QED
    BY <1>2, <2>1 DEF EnqueueBuffers, Goto, table, txn, CallPC, Flushers
<1>3. ASSUME NEW c \in Calls, EnqueueFlushes(c) PROVE TypeOK'
  BY <1>3 DEF EnqueueFlushes, TakeBuffer, Goto, table, txn, lock, CallPC, Flushers
<1>4. ASSUME NEW t \in Task, Sends(t) PROVE TypeOK'
  <2>1. CASE SendOk(t)
    <3>1. holder' \in Task \cup {NoTask} /\ waiters' \in Seq(Task)
      BY <2>1, LockTypes DEF SendOk
    <3> QED
      BY <2>1, <3>1, BoundAssumption
         DEF SendOk, Goto, AfterBuffer, table, txn, CallPC, FlusherPC, Flushers
  <2>2. CASE SendRetries(t)
    BY <2>2, BoundAssumption DEF SendRetries, MaySendAgain, table, txn, lock
  <2>3. CASE SendFails(t)
    BY <2>3, BoundAssumption
       DEF SendFails, Goto, table, txn, lock, CallPC, FlusherPC, Flushers
  <2> QED
    BY <1>4, <2>1, <2>2, <2>3 DEF Sends
<1>5. ASSUME NEW t \in Task, Persists(t) PROVE TypeOK'
  <2>1. CASE PersistOk(t)
    <3>1. holder' \in Task \cup {NoTask} /\ waiters' \in Seq(Task)
      BY <2>1, LockTypes DEF PersistOk
    <3>2. rows' \subseteq Row /\ nextId' \in Nat \ {0}
      BY <2>1 DEF PersistOk, Row
    <3> QED
      BY <2>1, <3>1, <3>2
         DEF PersistOk, Goto, AfterBuffer, table, txn, CallPC, FlusherPC, Flushers
  <2>2. CASE PersistFails(t)
    <3>1. holder' \in Task \cup {NoTask} /\ waiters' \in Seq(Task)
      BY <2>2, LockTypes DEF PersistFails
    <3> QED
      BY <2>2, <3>1
         DEF PersistFails, Goto, AfterBuffer, table, txn, CallPC, FlusherPC,
             Flushers, Cause
  <2> QED
    BY <1>5, <2>1, <2>2 DEF Persists
<1>6. ASSUME NEW f \in Flushers, FlushBegin(f) PROVE TypeOK'
  <2>1. holder' \in Task \cup {NoTask} /\ waiters' \in Seq(Task)
    BY <1>6, LockTypes DEF FlushBegin
  <2> QED
    BY <1>6, <2>1 DEF FlushBegin, Goto, table, txn, FlusherPC, Flushers
<1>7. ASSUME NEW f \in Flushers, FlushTakesBuffer(f) PROVE TypeOK'
  BY <1>7 DEF FlushTakesBuffer, TakeBuffer, Goto, table, txn, lock, FlusherPC,
              Flushers
<1>8. ASSUME NEW f \in Flushers, FlushFindsNothing(f) PROVE TypeOK'
  <2>1. holder' \in Task \cup {NoTask} /\ waiters' \in Seq(Task)
    BY <1>8, LockTypes DEF FlushFindsNothing
  <2> QED
    BY <1>8, <2>1 DEF FlushFindsNothing, Goto, table, txn, FlusherPC, Flushers
<1>9. ASSUME NEW f \in Flushers, Select(f) PROVE TypeOK'
  BY <1>9 DEF Select, Selected, Goto, table, lock, FlusherPC, Flushers
<1>10. ASSUME NEW f \in Flushers, RowStep(f) PROVE TypeOK'
  <2>1. PICK r \in todo : RowOk(f, r) \/ RowRetries(f, r) \/ RowFails(f, r)
    BY <1>10 DEF RowStep
  <2>2. CASE RowOk(f, r)
    BY <2>2, BoundAssumption DEF RowOk, IsNext, Row, table, lock
  <2>3. CASE RowRetries(f, r)
    BY <2>3, BoundAssumption DEF RowRetries, MaySendAgain, table, txn, lock
  <2>4. CASE RowFails(f, r)
    BY <2>4, BoundAssumption DEF RowFails, IsNext, Row, table, lock
  <2> QED
    BY <2>1, <2>2, <2>3, <2>4
<1>11. ASSUME NEW f \in Flushers, Commit(f) PROVE TypeOK'
  <2>1. rows' \subseteq Row
    BY <1>11 DEF Commit, Committed, Tried, Row
  <2> QED
    BY <1>11, <2>1 DEF Commit, Goto, lock, FlusherPC, Flushers
<1>12. ASSUME NEW f \in Flushers, Clean(f) PROVE TypeOK'
  <2>1. rows' \subseteq Row /\ lost' \in [Cause -> SUBSET Batch]
    BY <1>12 DEF Clean, BatchesIn, Row, Cause
  <2> QED
    BY <1>12, <2>1 DEF Clean, Finish, Goto, lock, txn, FlusherPC, Flushers
<1>13. ASSUME NEW f \in Flushers, FlushPersistedError(f) PROVE TypeOK'
  BY <1>13, BoundAssumption
     DEF FlushPersistedError, Finish, Goto, table, lock, FlusherPC, Flushers
<1>14. ASSUME NEW f \in Flushers, NEW cause \in Cause, Interrupt(f, cause)
       PROVE  /\ lost' \in [Cause -> SUBSET Batch]
              /\ payload' \in [Task -> SUBSET Batch]
              /\ tries' \in [Task -> 0 .. SendAttempts - 1]
              /\ todo' \subseteq Row /\ deleted' \subseteq Row /\ failed' \subseteq Row
              /\ holder' \in Task \cup {NoTask} /\ waiters' \in Seq(Task)
  BY <1>14, BoundAssumption, LockTypes DEF Interrupt
<1>15. ASSUME NEW f \in Flushers, FlushTimeout(f) PROVE TypeOK'
  <2>1. Interrupt(f, "timeout") /\ "timeout" \in Cause
    BY <1>15 DEF FlushTimeout, Cause
  <2> QED
    BY <1>14, <1>15, <2>1 DEF FlushTimeout, Finish, Goto, table, FlusherPC, Flushers
<1>16. CASE Start
  BY <1>16, BoundAssumption DEF Start, Goto, lock, table, txn, FlusherPC, Flushers
<1>17. CASE Stop
  <2>1. Interrupt(Flusher, "cancel") /\ "cancel" \in Cause /\ Flusher \in Flushers
    BY <1>17 DEF Stop, Cause, Flushers
  <2> QED
    BY <1>14, <1>17, <2>1 DEF Stop, table, FlusherPC, Flushers
<1>18. CASE ProcessEnds
  <2>1. lost' \in [Cause -> SUBSET Batch]
    BY <1>18 DEF ProcessEnds, Cause
  <2>2. holder' \in Task \cup {NoTask} /\ waiters' \in Seq(Task)
    BY <1>18, EmptySeq DEF ProcessEnds
  <2>3. /\ pc' \in [Task -> CallPC \cup FlusherPC]
        /\ \A c \in Calls : pc'[c] \in CallPC
        /\ \A f \in Flushers : pc'[f] \in FlusherPC
    BY <1>18 DEF ProcessEnds, Task, CallPC, FlusherPC, Flushers
  <2>4. tries' \in [Task -> 0 .. SendAttempts - 1]
    BY <1>18, BoundAssumption DEF ProcessEnds
  <2> QED
    BY <1>18, <2>1, <2>2, <2>3, <2>4 DEF ProcessEnds, table
<1>19. CASE UNCHANGED vars
  BY <1>19 DEF vars, table, txn, lock
<1> HIDE DEF TypeOK
<1>20. ASSUME NEW c \in Calls, CallStep(c) PROVE TypeOK'
  BY <1>2, <1>3, <1>4, <1>5, <1>20 DEF CallStep
<1>21. ASSUME NEW f \in Flushers, FlushStep(f) PROVE TypeOK'
  BY <1>4, <1>5, <1>6, <1>7, <1>8, <1>9, <1>10, <1>11, <1>12, <1>21 DEF FlushStep
<1>22. CASE Environment
  BY <1>1, <1>13, <1>15, <1>16, <1>17, <1>18, <1>22 DEF Environment
<1> QED
  BY <1>19, <1>20, <1>21, <1>22 DEF Next, Finished

\* Every reachable state of the transport is well typed.
THEOREM TypeCorrect == Spec => []TypeOK
  BY TypeInit, TypeNext, PTL DEF Spec

-----------------------------------------------------------------------------
(* Conservation.  It is not inductive: EnqueueFlushes could overwrite a      *)
(* payload if a task held one elsewhere than where it sends it, and Commit   *)
(* could drop a row whose DELETE was executed for no acknowledged payload.   *)

\* The periodic task runs in phase "up", the final flush in "stopping": never
\* both.
PhaseInv ==
    /\ phase # "up" => pc[Flusher] = "off"
    /\ phase # "stopping" => pc[Stopper] = "off"

\* A task holds a payload only while it waits for the lock with the batches of
\* its call, sends it or persists it.
PayloadInv ==
    \A t \in Task : payload[t] # {} =>
        pc[t] \in {"send", "persist"} \/ (t \in Calls /\ pc[t] = "lock")

\* A DELETE is executed only for a row whose payload was acknowledged.
DeletedInv == \A r \in deleted : r.batches \subseteq acked

\* Conservation, one batch at a time and without UNION.
Kept(b) ==
    \/ b \in buffer \/ b \in acked
    \/ \E t \in Task : b \in payload[t]
    \/ \E r \in rows : b \in r.batches
    \/ \E x \in Cause : b \in lost[x]

KeptInv ==
    \A c \in Calls : pc[c] # "idle" => \A b \in BatchesOf[c] : Kept(b)

CInv == PhaseInv /\ PayloadInv /\ DeletedInv /\ KeptInv

LEMMA KeptIsConserved == KeptInv => Conservation
<1>1. ASSUME NEW b, Kept(b) PROVE b \in Memory \cup Disk \cup acked \cup Lost
  BY <1>1 DEF Kept, Memory, Disk, BatchesIn, Lost
<1> QED
  BY <1>1 DEF KeptInv, Conservation

LEMMA PhaseNext == TypeOK /\ PhaseInv /\ [Next]_vars => PhaseInv'
<1> SUFFICES ASSUME TypeOK, PhaseInv, [Next]_vars PROVE PhaseInv'
  OBVIOUS
<1> USE FlushersAreTasks DEF PhaseInv, Goto
<1>t. pc \in [Task -> CallPC \cup FlusherPC] /\ Flushers = {Flusher, Stopper}
  BY DEF TypeOK, Flushers
<1>1. ASSUME NEW c \in Calls, CallStep(c) PROVE PhaseInv'
  BY <1>t, <1>1
     DEF CallStep, EnqueueBuffers, EnqueueFlushes, Sends, SendOk, SendRetries,
         SendFails, Persists, PersistOk, PersistFails
<1>2. ASSUME NEW f \in Flushers, Sends(f) \/ Persists(f) PROVE PhaseInv'
  BY <1>t, <1>2
     DEF Sends, SendOk, SendRetries, SendFails, Persists, PersistOk, PersistFails
<1>3. ASSUME NEW f \in Flushers, FlushStep(f) PROVE PhaseInv'
  <2>1. CASE Clean(f)
    BY <1>t, <2>1 DEF Clean, Finish
  <2>2. CASE RowStep(f)
    BY <1>t, <2>2 DEF RowStep, RowOk, RowRetries, RowFails
  <2>3. CASE \/ FlushBegin(f) \/ FlushTakesBuffer(f) \/ FlushFindsNothing(f)
             \/ Select(f) \/ Commit(f)
    BY <1>t, <2>3
       DEF FlushBegin, FlushTakesBuffer, FlushFindsNothing, Select, Commit
  <2> QED
    BY <1>2, <1>3, <2>1, <2>2, <2>3 DEF FlushStep
<1>4. CASE Environment
  <2>1. CASE Start \/ Stop \/ ProcessEnds
    BY <1>t, <2>1 DEF Start, Stop, ProcessEnds
  <2>2. ASSUME NEW c \in Calls, EnqueueCall(c) PROVE PhaseInv'
    BY <1>t, <2>2 DEF EnqueueCall
  <2>3. ASSUME NEW f \in Flushers, FlushTimeout(f) \/ FlushPersistedError(f)
        PROVE  PhaseInv'
    BY <1>t, <2>3 DEF FlushTimeout, FlushPersistedError, Finish
  <2> QED
    BY <1>4, <2>1, <2>2, <2>3 DEF Environment
<1>5. CASE UNCHANGED vars
  BY <1>5 DEF vars
<1> QED
  BY <1>1, <1>3, <1>4, <1>5 DEF Next, Finished

\* Where a payload lies: each step keeps PayloadInv.
LEMMA PayloadNext == TypeOK /\ PhaseInv /\ PayloadInv /\ [Next]_vars => PayloadInv'
<1> SUFFICES ASSUME TypeOK, PhaseInv, PayloadInv, [Next]_vars PROVE PayloadInv'
  OBVIOUS
<1> USE FlushersAreTasks DEF PayloadInv, Goto
<1>t. pc \in [Task -> CallPC \cup FlusherPC] /\ payload \in [Task -> SUBSET Batch]
  BY DEF TypeOK
<1>1. ASSUME NEW c \in Calls, EnqueueCall(c) PROVE PayloadInv'
  BY <1>t, <1>1 DEF EnqueueCall
<1>2. ASSUME NEW c \in Calls, EnqueueBuffers(c) PROVE PayloadInv'
  BY <1>t, <1>2 DEF EnqueueBuffers
<1>3. ASSUME NEW c \in Calls, EnqueueFlushes(c) PROVE PayloadInv'
  BY <1>t, <1>3 DEF EnqueueFlushes, TakeBuffer
<1>4. ASSUME NEW t \in Task, Sends(t) PROVE PayloadInv'
  BY <1>t, <1>4 DEF Sends, SendOk, SendRetries, SendFails
<1>5. ASSUME NEW t \in Task, Persists(t) PROVE PayloadInv'
  BY <1>t, <1>5 DEF Persists, PersistOk, PersistFails
<1>6. ASSUME NEW f \in Flushers, FlushStep(f) PROVE PayloadInv'
  <2>1. CASE Sends(f) \/ Persists(f)
    BY <1>4, <1>5, <2>1
  <2>2. CASE FlushBegin(f) \/ FlushFindsNothing(f) \/ Select(f) \/ Commit(f)
    BY <1>t, <2>2 DEF FlushBegin, FlushFindsNothing, Select, Commit, Flushers
  <2>3. CASE FlushTakesBuffer(f)
    BY <1>t, <2>3 DEF FlushTakesBuffer, TakeBuffer
  <2>4. CASE RowStep(f)
    BY <1>t, <2>4 DEF RowStep, RowOk, RowRetries, RowFails
  <2>5. CASE Clean(f)
    BY <1>t, <2>5 DEF Clean, Finish
  <2> QED
    BY <1>6, <2>1, <2>2, <2>3, <2>4, <2>5 DEF FlushStep
<1>7. CASE Environment
  <2>1. CASE Start
    BY <1>t, <2>1 DEF Start, PhaseInv
  <2>2. CASE Stop
    BY <1>t, <2>2 DEF Stop, Interrupt, PhaseInv
  <2>3. CASE ProcessEnds
    BY <1>t, <2>3 DEF ProcessEnds
  <2>4. ASSUME NEW f \in Flushers, FlushTimeout(f) PROVE PayloadInv'
    BY <1>t, <2>4 DEF FlushTimeout, Interrupt, Finish
  <2>5. ASSUME NEW f \in Flushers, FlushPersistedError(f) PROVE PayloadInv'
    BY <1>t, <2>5 DEF FlushPersistedError, Finish
  <2> QED
    BY <1>1, <1>7, <2>1, <2>2, <2>3, <2>4, <2>5 DEF Environment
<1>8. CASE UNCHANGED vars
  BY <1>8 DEF vars
<1>9. ASSUME NEW c \in Calls, CallStep(c) PROVE PayloadInv'
  BY <1>2, <1>3, <1>4, <1>5, <1>9 DEF CallStep
<1> QED
  BY <1>6, <1>7, <1>8, <1>9 DEF Next, Finished

\* What is acknowledged stays so, so DeletedInv is disturbed by RowOk alone.
LEMMA DeletedNext == TypeOK /\ DeletedInv /\ [Next]_vars => DeletedInv'
<1> SUFFICES ASSUME TypeOK, DeletedInv, [Next]_vars PROVE DeletedInv'
  OBVIOUS
<1>1. CASE deleted' \subseteq deleted /\ acked \subseteq acked'
  BY <1>1 DEF DeletedInv
<1>2. ASSUME NEW f \in Flushers, RowStep(f) PROVE DeletedInv'
  BY <1>2 DEF RowStep, RowOk, RowRetries, RowFails, DeletedInv, txn
<1>3. ASSUME NEW c \in Calls, CallStep(c) PROVE DeletedInv'
  BY <1>1, <1>3 DEF CallStep, EnqueueBuffers, EnqueueFlushes, Sends, SendOk,
                    SendRetries, SendFails, Persists, PersistOk, PersistFails, txn
<1>4. ASSUME NEW f \in Flushers, FlushStep(f) PROVE DeletedInv'
  BY <1>1, <1>2, <1>4
     DEF FlushStep, FlushBegin, FlushTakesBuffer, FlushFindsNothing, Sends, SendOk,
         SendRetries, SendFails, Persists, PersistOk, PersistFails, Select, Commit,
         Clean, txn
<1>5. CASE Environment
  BY <1>1, <1>5
     DEF Environment, Start, Stop, ProcessEnds, EnqueueCall, FlushTimeout,
         FlushPersistedError, Interrupt, txn
<1>6. CASE UNCHANGED vars
  BY <1>1, <1>6 DEF vars, txn
<1> QED
  BY <1>3, <1>4, <1>5, <1>6 DEF Next, Finished

\* A call leaves "idle" only by being made.
LEMMA OnlyEnqueueLeavesIdle ==
    ASSUME TypeOK, PhaseInv, [Next]_vars,
           NEW c \in Calls, pc[c] = "idle", pc'[c] # "idle"
    PROVE  EnqueueCall(c)
<1> USE FlushersAreTasks DEF Goto
<1>t. pc \in [Task -> CallPC \cup FlusherPC] /\ Flushers = {Flusher, Stopper}
  BY DEF TypeOK, Flushers
<1>1. ASSUME NEW d \in Calls, CallStep(d) PROVE FALSE
  BY <1>t, <1>1
     DEF CallStep, EnqueueBuffers, EnqueueFlushes, Sends, SendOk, SendRetries,
         SendFails, Persists, PersistOk, PersistFails
<1>2. ASSUME NEW f \in Flushers, FlushStep(f) PROVE FALSE
  BY <1>t, <1>2
     DEF FlushStep, FlushBegin, FlushTakesBuffer, FlushFindsNothing, Sends, SendOk,
         SendRetries, SendFails, Persists, PersistOk, PersistFails, Select, Commit,
         RowStep, RowOk, RowRetries, RowFails, Clean, Finish
<1>3. ASSUME Environment, ~ EnqueueCall(c) PROVE FALSE
  <2>1. ASSUME NEW d \in Calls, EnqueueCall(d) PROVE FALSE
    BY <1>t, <1>3, <2>1 DEF EnqueueCall
  <2>2. ASSUME NEW f \in Flushers, FlushTimeout(f) \/ FlushPersistedError(f)
        PROVE  FALSE
    BY <1>t, <2>2 DEF FlushTimeout, FlushPersistedError, Finish
  <2>3. CASE Start \/ Stop \/ ProcessEnds
    BY <1>t, <2>3 DEF Start, Stop, ProcessEnds
  <2> QED
    BY <1>3, <2>1, <2>2, <2>3 DEF Environment
<1>4. ~ UNCHANGED vars
  BY DEF vars
<1> QED
  BY <1>1, <1>2, <1>3, <1>4 DEF Next, Finished

\* No step forgets a batch.
LEMMA KeptNext ==
    ASSUME TypeOK, PayloadInv, DeletedInv, [Next]_vars, NEW b, Kept(b)
    PROVE  Kept(b)'
<1> USE FlushersAreTasks DEF Kept
<1>t. /\ payload \in [Task -> SUBSET Batch] /\ lost \in [Cause -> SUBSET Batch]
      /\ Cause = {"persist", "cancel", "timeout", "expired", "exit"}
  BY DEF TypeOK, Cause
<1>1. ASSUME NEW c \in Calls, EnqueueCall(c) PROVE Kept(b)'
  <2>1. payload[c] = {}
    BY <1>1, FlushersAreTasks DEF EnqueueCall, PayloadInv
  <2> QED
    BY <1>t, <1>1, <2>1 DEF EnqueueCall, table
<1>2. ASSUME NEW c \in Calls, EnqueueBuffers(c) PROVE Kept(b)'
  BY <1>t, <1>2 DEF EnqueueBuffers, table
<1>3. ASSUME NEW c \in Calls, EnqueueFlushes(c) PROVE Kept(b)'
  BY <1>t, <1>3 DEF EnqueueFlushes, TakeBuffer, table
<1>4. ASSUME NEW t \in Task, Sends(t) PROVE Kept(b)'
  BY <1>t, <1>4 DEF Sends, SendOk, SendRetries, SendFails, table
<1>5. ASSUME NEW t \in Task, Persists(t) PROVE Kept(b)'
  <2>1. CASE PersistOk(t)
    <3> DEFINE new == [id |-> nextId, batches |-> payload[t], attempts |-> 0]
    <3>1. new \in rows' /\ new.batches = payload[t] /\ rows \subseteq rows'
      BY <2>1 DEF PersistOk
    <3>2. \A u \in Task : u # t => payload'[u] = payload[u]
      BY <1>t, <2>1 DEF PersistOk
    <3> HIDE DEF new
    <3> QED
      BY <1>t, <2>1, <3>1, <3>2 DEF PersistOk
  <2>2. CASE PersistFails(t)
    BY <1>t, <2>2 DEF PersistFails, table
  <2> QED
    BY <1>5, <2>1, <2>2 DEF Persists
<1>6. ASSUME NEW f \in Flushers, FlushTakesBuffer(f) PROVE Kept(b)'
  BY <1>t, <1>6 DEF FlushTakesBuffer, TakeBuffer, table
<1>7. ASSUME NEW f \in Flushers, RowStep(f) PROVE Kept(b)'
  BY <1>t, <1>7 DEF RowStep, RowOk, RowRetries, RowFails, table
<1>8. ASSUME NEW f \in Flushers, Commit(f) PROVE Kept(b)'
  <2>1. ASSUME NEW r \in rows, b \in r.batches
        PROVE  b \in acked \/ \E s \in rows' : b \in s.batches
    <3>1. CASE r \in deleted
      BY <2>1, <3>1 DEF DeletedInv
    <3>2. CASE r \in failed
      <4>1. Tried(r) \in rows' /\ Tried(r).batches = r.batches
        BY <1>8, <3>2 DEF Commit, Committed, Tried
      <4> QED
        BY <2>1, <4>1
    <3>3. CASE r \notin deleted \cup failed
      BY <1>8, <2>1, <3>3 DEF Commit, Committed
    <3> QED
      BY <3>1, <3>2, <3>3
  <2> QED
    BY <1>t, <1>8, <2>1 DEF Commit
<1>9. ASSUME NEW f \in Flushers, Clean(f) PROVE Kept(b)'
  BY <1>t, <1>9 DEF Clean, BatchesIn
<1>10. ASSUME NEW f \in Flushers, FlushStep(f) PROVE Kept(b)'
  <2>1. CASE FlushBegin(f) \/ FlushFindsNothing(f) \/ Select(f)
    BY <2>1 DEF FlushBegin, FlushFindsNothing, Select, table
  <2> QED
    BY <1>4, <1>5, <1>6, <1>7, <1>8, <1>9, <1>10, <2>1 DEF FlushStep
<1>11. ASSUME NEW f \in Flushers, NEW cause \in Cause, Interrupt(f, cause),
              UNCHANGED <<buffer, rows, acked>>
       PROVE  Kept(b)'
  BY <1>t, <1>11 DEF Interrupt
<1>12. CASE Environment
  <2>1. CASE Start
    BY <2>1 DEF Start, table
  <2>2. CASE Stop
    BY <1>11, <1>t, <2>2 DEF Stop, table, Flushers
  <2>3. CASE ProcessEnds
    BY <1>t, <2>3 DEF ProcessEnds, table
  <2>4. ASSUME NEW f \in Flushers, FlushTimeout(f) PROVE Kept(b)'
    BY <1>11, <1>t, <2>4 DEF FlushTimeout, table
  <2>5. ASSUME NEW f \in Flushers, FlushPersistedError(f) PROVE Kept(b)'
    BY <2>5 DEF FlushPersistedError, table
  <2> QED
    BY <1>1, <1>12, <2>1, <2>2, <2>3, <2>4, <2>5 DEF Environment
<1>13. CASE UNCHANGED vars
  BY <1>13 DEF vars, table
<1>14. ASSUME NEW c \in Calls, CallStep(c) PROVE Kept(b)'
  BY <1>2, <1>3, <1>4, <1>5, <1>14 DEF CallStep
<1> QED
  BY <1>10, <1>12, <1>13, <1>14 DEF Next, Finished

LEMMA CInvInit == Init => CInv
  BY TaskAssumption
     DEF Init, CInv, PhaseInv, PayloadInv, DeletedInv, KeptInv, Task, Flushers

LEMMA CInvNext == TypeOK /\ CInv /\ [Next]_vars => CInv'
<1> SUFFICES ASSUME TypeOK, CInv, [Next]_vars PROVE CInv'
  OBVIOUS
<1>1. PhaseInv' /\ PayloadInv' /\ DeletedInv'
  BY PhaseNext, PayloadNext, DeletedNext DEF CInv
<1>2. ASSUME NEW c \in Calls, pc'[c] # "idle", NEW b \in BatchesOf[c]
      PROVE  Kept(b)'
  <2>1. CASE pc[c] # "idle"
    BY <1>2, <2>1, KeptNext DEF CInv, KeptInv
  <2>2. CASE pc[c] = "idle"
    <3>1. EnqueueCall(c)
      BY <1>2, <2>2, OnlyEnqueueLeavesIdle DEF CInv
    <3>2. payload'[c] = BatchesOf[c] /\ c \in Task
      BY <3>1, FlushersAreTasks DEF EnqueueCall, TypeOK
    <3> QED
      BY <1>2, <3>2 DEF Kept
  <2> QED
    BY <2>1, <2>2
<1>3. KeptInv'
  BY <1>2 DEF KeptInv
<1> QED
  BY <1>1, <1>3 DEF CInv

\* No batch given to enqueue() vanishes unnoticed (Conservation).
THEOREM NothingVanishes == Spec => []Conservation
<1>1. Init => CInv
  BY CInvInit
<1>2. TypeOK /\ CInv /\ [Next]_vars => CInv'
  BY CInvNext
<1>3. Spec => []CInv
  BY <1>1, <1>2, TypeCorrect, PTL DEF Spec
<1> QED
  BY <1>3, KeptIsConserved, PTL DEF CInv

\* A row leaves the disk only acknowledged or expired: by the commit of a
\* DELETE whose payload was acknowledged, or by the clean-up.
LEMMA DurableNext ==
    ASSUME TypeOK, DeletedInv, [Next]_vars, NEW b \in Disk
    PROVE  b \in Disk' \/ b \in acked \/ b \in lost'["expired"]
<1> DEFINE Safe == b \in Disk' \/ b \in acked \/ b \in lost'["expired"]
<1>1. PICK r \in rows : b \in r.batches
  BY DEF Disk, BatchesIn
<1>2. CASE r \in rows'
  BY <1>1, <1>2 DEF Disk, BatchesIn
<1>3. ASSUME NEW f \in Flushers, Commit(f) PROVE Safe
  <2>1. CASE r \in deleted
    BY <1>1, <2>1 DEF DeletedInv
  <2>2. CASE r \in failed
    <3>1. Tried(r) \in rows' /\ Tried(r).batches = r.batches
      BY <1>3, <2>2 DEF Commit, Committed, Tried
    <3> QED
      BY <1>1, <3>1 DEF Disk, BatchesIn
  <2>3. CASE r \notin deleted \cup failed
    BY <1>2, <1>3, <2>3 DEF Commit, Committed
  <2> QED
    BY <2>1, <2>2, <2>3
<1>4. ASSUME NEW f \in Flushers, Clean(f) PROVE Safe
  <2>1. PICK cutoff \in 1 .. (IF "expiry" \in Faults THEN nextId ELSE 1) :
           LET old == {s \in rows : s.id < cutoff} IN
           /\ rows' = rows \ old
           /\ lost' = [lost EXCEPT !["expired"] = @ \cup (BatchesIn(old) \ acked)]
    BY <1>4 DEF Clean
  <2>2. CASE r.id < cutoff
    <3>1. b \in BatchesIn({s \in rows : s.id < cutoff})
      BY <1>1, <2>2 DEF BatchesIn
    <3>2. lost \in [Cause -> SUBSET Batch] /\ "expired" \in Cause
      BY DEF TypeOK, Cause
    <3> QED
      BY <2>1, <3>1, <3>2
  <2>3. CASE ~ r.id < cutoff
    BY <1>1, <1>2, <2>1, <2>3
  <2> QED
    BY <2>2, <2>3
<1>5. ASSUME NEW t \in Task, Sends(t) \/ Persists(t) PROVE Safe
  BY <1>1, <1>2, <1>5
     DEF Sends, SendOk, SendRetries, SendFails, Persists, PersistOk, PersistFails,
         table
<1>6. ASSUME NEW f \in Flushers, FlushStep(f) PROVE Safe
  <2>1. CASE \/ FlushBegin(f) \/ FlushTakesBuffer(f) \/ FlushFindsNothing(f)
             \/ Select(f) \/ RowStep(f)
    BY <1>1, <1>2, <2>1
       DEF FlushBegin, FlushTakesBuffer, FlushFindsNothing, Select, RowStep, RowOk,
           RowRetries, RowFails, table
  <2> QED
    BY <1>3, <1>4, <1>5, <1>6, <2>1, FlushersAreTasks DEF FlushStep
<1>7. ASSUME NEW c \in Calls, CallStep(c) PROVE Safe
  BY <1>1, <1>2, <1>5, <1>7, FlushersAreTasks
     DEF CallStep, EnqueueBuffers, EnqueueFlushes, table
<1>8. CASE Environment
  BY <1>1, <1>2, <1>8
     DEF Environment, Start, Stop, ProcessEnds, EnqueueCall, FlushTimeout,
         FlushPersistedError, table
<1>9. CASE UNCHANGED vars
  BY <1>1, <1>2, <1>9 DEF vars, table
<1> QED
  BY <1>6, <1>7, <1>8, <1>9 DEF Next, Finished

\* Neither a crash, a roll back, a cancellation nor a failed send takes a
\* payload from the table (RowsAreDurable).
THEOREM DiskIsDurable == Spec => RowsAreDurable
<1>1. TypeOK /\ DeletedInv /\ [Next]_vars
         => [\A b \in Disk : b \in Disk' \/ b \in acked \/ b \in lost["expired"]']_vars
  BY DurableNext
<1>2. Spec => []CInv
  BY CInvInit, CInvNext, TypeCorrect, PTL DEF Spec
<1> QED
  BY <1>1, <1>2, TypeCorrect, PTL DEF Spec, CInv, RowsAreDurable

-----------------------------------------------------------------------------
(* Where batches move.  Every step has one of the effects below on the data; *)
(* what follows is proved once per effect instead of once per action.        *)

data == <<buffer, payload, rows, nextId, acked, lost>>

Accepts(c) ==
    /\ pc[c] = "idle" /\ pc'[c] # "idle" /\ payload[c] = {}
    /\ payload' = [payload EXCEPT ![c] = BatchesOf[c]]
    /\ UNCHANGED <<buffer, rows, nextId, acked, lost>>
Puts(c) ==
    /\ buffer' = buffer \cup payload[c]
    /\ payload' = [payload EXCEPT ![c] = {}]
    /\ UNCHANGED <<rows, nextId, acked, lost>>
Takes(t) ==
    /\ payload' = [payload EXCEPT ![t] = @ \cup buffer]
    /\ buffer' = {}
    /\ UNCHANGED <<rows, nextId, acked, lost>>
Delivers(t) ==
    /\ acked' = acked \cup payload[t]
    /\ payload' = [payload EXCEPT ![t] = {}]
    /\ UNCHANGED <<buffer, rows, nextId, lost>>
Stores(t) ==
    /\ rows' = rows \cup {[id |-> nextId, batches |-> payload[t], attempts |-> 0]}
    /\ nextId' = nextId + 1
    /\ payload' = [payload EXCEPT ![t] = {}]
    /\ UNCHANGED <<buffer, acked, lost>>
Drops(t, x) ==
    /\ lost' = [lost EXCEPT ![x] = @ \cup payload[t]]
    /\ payload' = [payload EXCEPT ![t] = {}]
    /\ UNCHANGED <<buffer, rows, nextId, acked>>
Answers(r) ==
    /\ acked' = acked \cup r.batches
    /\ UNCHANGED <<buffer, payload, rows, nextId, lost>>
Commits ==
    /\ todo = {}
    /\ rows' = Committed
    /\ UNCHANGED <<buffer, payload, nextId, acked, lost>>
Expires(cutoff) ==
    /\ rows' = rows \ {r \in rows : r.id < cutoff}
    /\ lost' = [lost EXCEPT !["expired"] =
                    @ \cup (BatchesIn({r \in rows : r.id < cutoff}) \ acked)]
    /\ UNCHANGED <<buffer, payload, nextId, acked>>
Forgets ==
    /\ lost' = [lost EXCEPT !["exit"] =
                    @ \cup buffer \cup UNION {payload[t] : t \in Task}]
    /\ buffer' = {}
    /\ payload' = [t \in Task |-> {}]
    /\ UNCHANGED <<rows, nextId, acked>>

Effect ==
    \/ \E c \in Calls : Accepts(c) \/ Puts(c)
    \/ \E t \in Task : Takes(t) \/ Delivers(t) \/ Stores(t)
    \/ \E t \in Task : \E x \in Cause : Drops(t, x)
    \/ \E r \in todo : Answers(r)
    \/ Commits \/ Forgets
    \/ \E cutoff \in Nat : Expires(cutoff)
    \/ UNCHANGED data

\* A call that is idle has always been idle.
IdleStays == \A c \in Calls : pc'[c] = "idle" => pc[c] = "idle"

LEMMA StepEffect ==
    ASSUME TypeOK, PhaseInv, PayloadInv, [Next]_vars
    PROVE  Effect /\ IdleStays
<1> USE FlushersAreTasks DEF Goto, table
<1>t. /\ pc \in [Task -> CallPC \cup FlusherPC] /\ payload \in [Task -> SUBSET Batch]
      /\ nextId \in Nat \ {0} /\ Flushers = {Flusher, Stopper}
  BY DEF TypeOK, Flushers
<1>1. ASSUME NEW c \in Calls, EnqueueCall(c) PROVE Effect /\ IdleStays
  <2>1. payload[c] = {}
    BY <1>1 DEF EnqueueCall, PayloadInv
  <2>2. Accepts(c) /\ IdleStays
    BY <1>t, <1>1, <2>1 DEF EnqueueCall, Accepts, IdleStays
  <2> QED
    BY <2>2 DEF Effect
<1>2. ASSUME NEW c \in Calls, EnqueueBuffers(c) PROVE Effect /\ IdleStays
  <2>1. Puts(c) /\ IdleStays
    BY <1>t, <1>2 DEF EnqueueBuffers, Puts, IdleStays
  <2> QED
    BY <2>1 DEF Effect
<1>3. ASSUME NEW t \in Task, TakeBuffer(t), Goto(t, "send"),
             UNCHANGED <<table, acked, lost>>
      PROVE  Effect /\ IdleStays
  <2>1. Takes(t) /\ IdleStays
    BY <1>t, <1>3 DEF TakeBuffer, Takes, IdleStays
  <2> QED
    BY <2>1 DEF Effect
<1>4. ASSUME NEW t \in Task, Sends(t) PROVE Effect /\ IdleStays
  <2>1. Delivers(t) \/ UNCHANGED data
    BY <1>4 DEF Sends, SendOk, SendRetries, SendFails, Delivers, data
  <2>2. IdleStays
    BY <1>t, <1>4 DEF Sends, SendOk, SendRetries, SendFails, AfterBuffer, IdleStays
  <2> QED
    BY <2>1, <2>2 DEF Effect
<1>5. ASSUME NEW t \in Task, Persists(t) PROVE Effect /\ IdleStays
  <2>1. Stores(t) \/ Drops(t, "persist")
    BY <1>5 DEF Persists, PersistOk, PersistFails, Stores, Drops
  <2>2. IdleStays
    BY <1>t, <1>5 DEF Persists, PersistOk, PersistFails, AfterBuffer, IdleStays
  <2> QED
    BY <2>1, <2>2 DEF Effect, Cause
<1>6. ASSUME NEW f \in Flushers, FlushStep(f) PROVE Effect /\ IdleStays
  <2>1. CASE FlushBegin(f) \/ FlushFindsNothing(f) \/ Select(f)
    <3>1. UNCHANGED data /\ IdleStays
      BY <1>t, <2>1 DEF FlushBegin, FlushFindsNothing, Select, data, IdleStays
    <3> QED
      BY <3>1 DEF Effect
  <2>2. CASE FlushTakesBuffer(f)
    BY <1>3, <2>2 DEF FlushTakesBuffer
  <2>3. CASE RowStep(f)
    <3>1. (\E r \in todo : Answers(r)) \/ UNCHANGED data
      BY <2>3 DEF RowStep, RowOk, RowRetries, RowFails, Answers, data, IsNext
    <3>2. IdleStays
      BY <2>3 DEF RowStep, RowOk, RowRetries, RowFails, IdleStays
    <3> QED
      BY <3>1, <3>2 DEF Effect
  <2>4. CASE Commit(f)
    <3>1. Commits /\ IdleStays
      BY <1>t, <2>4 DEF Commit, Commits, IdleStays
    <3> QED
      BY <3>1 DEF Effect
  <2>5. CASE Clean(f)
    <3>1. \E cutoff \in Nat : Expires(cutoff)
      <4>1. \A k \in 1 .. (IF "expiry" \in Faults THEN nextId ELSE 1) : k \in Nat
        BY <1>t
      <4> QED
        BY <4>1, <2>5, Zenon DEF Clean, Expires
    <3>2. IdleStays
      BY <1>t, <2>5 DEF Clean, Finish, IdleStays
    <3> QED
      BY <3>1, <3>2 DEF Effect
  <2> QED
    BY <1>4, <1>5, <1>6, <2>1, <2>2, <2>3, <2>4, <2>5 DEF FlushStep
<1>7. CASE Environment
  <2>1. CASE Start
    <3>1. UNCHANGED data /\ IdleStays
      BY <1>t, <2>1 DEF Start, data, IdleStays
    <3> QED
      BY <3>1 DEF Effect
  <2>2. CASE Stop
    <3>1. Drops(Flusher, "cancel") /\ IdleStays
      BY <1>t, <2>2 DEF Stop, Interrupt, Drops, IdleStays
    <3> QED
      BY <3>1 DEF Effect, Cause
  <2>3. CASE ProcessEnds
    <3>1. Forgets
      BY <2>3 DEF ProcessEnds, Forgets
    <3>2. IdleStays
      BY <1>t, <2>3 DEF ProcessEnds, IdleStays
    <3> QED
      BY <3>1, <3>2 DEF Effect
  <2>4. ASSUME NEW f \in Flushers, FlushTimeout(f) PROVE Effect /\ IdleStays
    <3>1. Drops(f, "timeout") /\ IdleStays
      BY <1>t, <2>4 DEF FlushTimeout, Interrupt, Finish, Drops, IdleStays
    <3> QED
      BY <3>1 DEF Effect, Cause
  <2>5. ASSUME NEW f \in Flushers, FlushPersistedError(f) PROVE Effect /\ IdleStays
    <3>1. UNCHANGED data /\ IdleStays
      BY <1>t, <2>5 DEF FlushPersistedError, Finish, data, IdleStays
    <3> QED
      BY <3>1 DEF Effect
  <2> QED
    BY <1>1, <1>7, <2>1, <2>2, <2>3, <2>4, <2>5 DEF Environment
<1>8. CASE UNCHANGED vars
  BY <1>8 DEF vars, data, Effect, IdleStays
<1>9. ASSUME NEW c \in Calls, CallStep(c) PROVE Effect /\ IdleStays
  BY <1>2, <1>3, <1>4, <1>5, <1>9 DEF CallStep, EnqueueFlushes
<1> QED
  BY <1>6, <1>7, <1>8, <1>9 DEF Next, Finished

-----------------------------------------------------------------------------
(* OneCopy.  It is not inductive: a call that begins could bring a batch that *)
(* is held already, and a new row could take the id of another.              *)

\* OneCopy, one batch at a time.
Unique ==
    /\ \A t \in Task : \A b \in payload[t] :
          /\ b \notin buffer
          /\ \A r \in rows : b \notin r.batches
          /\ \A u \in Task : u # t => b \notin payload[u]
    /\ \A b \in buffer : \A r \in rows : b \notin r.batches
    /\ \A r, s \in rows : r # s =>
          r.id # s.id /\ \A b \in r.batches : b \notin s.batches

\* What is settled is held nowhere; a row may outlive its acknowledgement, when
\* its DELETE is rolled back.
Settled ==
    /\ \A b \in buffer : b \notin acked /\ \A x \in Cause : b \notin lost[x]
    /\ \A t \in Task : \A b \in payload[t] :
          b \notin acked /\ \A x \in Cause : b \notin lost[x]
    /\ \A r \in rows : \A b \in r.batches : \A x \in Cause : b \notin lost[x]

\* The batches of a call that was not made are nowhere.
Fresh == \A c \in Calls : pc[c] = "idle" => \A b \in BatchesOf[c] : ~ Kept(b)

\* The ids given so far are below the next one.
IdsInv == \A r \in rows : r.id < nextId

UInv == Unique /\ Settled /\ Fresh /\ IdsInv

LEMMA UInvIsOneCopy == UInv => OneCopy
  BY DEF UInv, Unique, OneCopy, Disk, BatchesIn

LEMMA UInvInit == Init => UInv
  BY TaskAssumption
     DEF Init, UInv, Unique, Settled, Fresh, IdsInv, Kept, Task, Flushers

LEMMA UInvNext ==
    ASSUME TypeOK, todo \cup deleted \cup failed \subseteq rows, UInv, Effect, IdleStays
    PROVE  UInv'
<1> USE FlushersAreTasks DEF UInv
<1>t. /\ payload \in [Task -> SUBSET Batch] /\ lost \in [Cause -> SUBSET Batch]
      /\ nextId \in Nat \ {0} /\ rows \subseteq Row
      /\ \A r \in rows : r.id \in Nat /\ r.attempts \in Nat
  BY DEF TypeOK, Row
<1>1. ASSUME NEW c \in Calls, Accepts(c) PROVE UInv'
  <2>1. \A b \in BatchesOf[c] : ~ Kept(b)
    BY <1>1 DEF Accepts, Fresh
  <2>2. \A d \in Calls : d # c => BatchesOf[c] \cap BatchesOf[d] = {}
    BY BatchAssumption
  <2>3. Unique'
    BY <1>t, <1>1, <2>1 DEF Accepts, Unique, Kept
  <2>4. Settled'
    BY <1>t, <1>1, <2>1 DEF Accepts, Settled, Kept
  <2>5. Fresh'
    BY <1>t, <1>1, <2>2 DEF Accepts, Fresh, Kept, IdleStays
  <2> QED
    BY <1>1, <2>3, <2>4, <2>5 DEF Accepts, IdsInv
<1>2. ASSUME NEW c \in Calls, Puts(c) PROVE UInv'
  BY <1>t, <1>2 DEF Puts, Unique, Settled, Fresh, Kept, IdsInv, IdleStays
<1>3. ASSUME NEW t \in Task, Takes(t) PROVE UInv'
  BY <1>t, <1>3 DEF Takes, Unique, Settled, Fresh, Kept, IdsInv, IdleStays
<1>4. ASSUME NEW t \in Task, Delivers(t) PROVE UInv'
  BY <1>t, <1>4 DEF Delivers, Unique, Settled, Fresh, Kept, IdsInv, IdleStays
<1>5. ASSUME NEW t \in Task, Stores(t) PROVE UInv'
  <2> DEFINE new == [id |-> nextId, batches |-> payload[t], attempts |-> 0]
  <2>1. rows' = rows \cup {new} /\ new.id = nextId /\ new.batches = payload[t]
    BY <1>5 DEF Stores
  <2> HIDE DEF new
  <2>2. Unique'
    BY <1>t, <1>5, <2>1 DEF Stores, Unique, IdsInv
  <2>3. Settled'
    BY <1>t, <1>5, <2>1 DEF Stores, Settled
  <2>4. Fresh'
    BY <1>t, <1>5, <2>1 DEF Stores, Fresh, Kept, IdleStays
  <2>5. IdsInv'
    BY <1>t, <1>5, <2>1 DEF Stores, IdsInv
  <2> QED
    BY <2>2, <2>3, <2>4, <2>5
<1>6. ASSUME NEW t \in Task, NEW x \in Cause, Drops(t, x) PROVE UInv'
  BY <1>t, <1>6 DEF Drops, Unique, Settled, Fresh, Kept, IdsInv, IdleStays
<1>7. ASSUME NEW r \in todo, Answers(r) PROVE UInv'
  <2>1. r \in rows
    OBVIOUS
  <2> QED
    BY <1>t, <1>7, <2>1
       DEF Answers, Unique, Settled, Fresh, Kept, IdsInv, IdleStays
<1>8. CASE Commits
  <2>1. \A r \in rows' : \E s \in rows : r.id = s.id /\ r.batches = s.batches
                                         /\ (r = s \/ r = Tried(s))
    BY <1>8 DEF Commits, Committed, Tried
  <2>2. \A s \in rows : ~ (s \in rows' /\ Tried(s) \in rows' /\ s # Tried(s))
    BY <1>8, <1>t DEF Commits, Committed, Tried, Unique
  <2>3. Unique'
    BY <1>8, <2>1, <2>2 DEF Commits, Unique
  <2>4. Settled' /\ Fresh' /\ IdsInv'
    BY <1>8, <2>1 DEF Commits, Settled, Fresh, Kept, IdsInv, IdleStays
  <2> QED
    BY <2>3, <2>4
<1>9. CASE Forgets
  BY <1>t, <1>9 DEF Forgets, Unique, Settled, Fresh, Kept, IdsInv, IdleStays
<1>10. ASSUME NEW cutoff \in Nat, Expires(cutoff) PROVE UInv'
  <2>1. \A b : b \in BatchesIn({r \in rows : r.id < cutoff})
                  <=> \E r \in rows : r.id < cutoff /\ b \in r.batches
    BY DEF BatchesIn
  <2>2. rows' \subseteq rows /\ UNCHANGED <<buffer, payload, nextId, acked>>
    BY <1>10 DEF Expires
  <2>3. Unique' /\ IdsInv'
    BY <2>2 DEF Unique, IdsInv
  <2>4. Settled'
    BY <1>t, <1>10, <2>1 DEF Expires, Unique, Settled
  <2>5. Fresh'
    BY <1>t, <1>10, <2>1 DEF Expires, Fresh, Kept, IdleStays
  <2> QED
    BY <2>3, <2>4, <2>5
<1>11. CASE UNCHANGED data
  BY <1>11 DEF data, Unique, Settled, Fresh, Kept, IdsInv, IdleStays
<1> QED
  BY <1>1, <1>2, <1>3, <1>4, <1>5, <1>6, <1>7, <1>8, <1>9, <1>10, <1>11 DEF Effect

-----------------------------------------------------------------------------
(* The transaction of a flush, and the order in which rows are tried.        *)

Held == todo \cup deleted \cup failed

\* Rows are fetched, deleted and updated by the one flush that goes through
\* them, and no other task takes them from the table meanwhile.
HeldInv ==
    /\ Held # {} => pc[Flusher] = "row" \/ pc[Stopper] = "row"
    /\ Held \subseteq rows

\* A flush goes through the oldest rows that have attempts left.
OldestHeld ==
    \A s \in Held :
        /\ Sendable(s)
        /\ \A r \in rows : r.id < s.id => r \in Held \/ ~ Sendable(r)

LEMMA HeldNext ==
    ASSUME TypeOK, PhaseInv, HeldInv, [Next]_vars
    PROVE  HeldInv'
<1> USE FlushersAreTasks DEF HeldInv, Held, Goto, table, txn
<1>t. pc \in [Task -> CallPC \cup FlusherPC] /\ Flushers = {Flusher, Stopper}
  BY DEF TypeOK, Flushers
<1>1. CASE Held' = {}
  BY <1>1
<1>2. ASSUME NEW t \in Task, pc[t] # "row", \/ \E l : Goto(t, l)
                                            \/ UNCHANGED pc,
             UNCHANGED txn, rows \subseteq rows'
      PROVE  HeldInv'
  BY <1>t, <1>2
<1>3. ASSUME NEW c \in Calls, CallStep(c) PROVE HeldInv'
  <2>1. c \in Task /\ pc[c] # "row"
    BY <1>t DEF TypeOK, CallPC
  <2>2. UNCHANGED txn /\ rows \subseteq rows' /\ ((\E l : Goto(c, l)) \/ UNCHANGED pc)
    BY <1>3 DEF CallStep, EnqueueBuffers, EnqueueFlushes, Sends, SendOk, SendRetries,
                SendFails, Persists, PersistOk, PersistFails
  <2> QED
    BY <1>2, <2>1, <2>2
<1>4. ASSUME NEW f \in Flushers, FlushStep(f) PROVE HeldInv'
  <2>1. CASE \/ FlushBegin(f) \/ FlushTakesBuffer(f) \/ FlushFindsNothing(f)
             \/ Sends(f) \/ Persists(f)
    <3>1. /\ UNCHANGED txn /\ rows \subseteq rows' /\ pc[f] # "row"
          /\ (\E l : Goto(f, l)) \/ UNCHANGED pc
      BY <2>1
         DEF FlushBegin, FlushTakesBuffer, FlushFindsNothing, Sends, SendOk,
             SendRetries, SendFails, Persists, PersistOk, PersistFails
    <3> QED
      BY <1>2, <3>1
  <2>2. CASE Select(f)
    <3>1. deleted = {} /\ failed = {}
      BY <2>2, <1>t DEF Select, PhaseInv
    <3>2. Held' \subseteq rows /\ rows' = rows /\ pc'[f] = "row"
      BY <1>t, <2>2, <3>1 DEF Select, Selected
    <3> QED
      BY <1>t, <3>2
  <2>3. CASE RowStep(f)
    BY <2>3 DEF RowStep, RowOk, RowRetries, RowFails, IsNext
  <2>4. CASE Commit(f)
    BY <1>1, <2>4 DEF Commit
  <2>5. CASE Clean(f)
    <3>1. Held = {}
      BY <1>t, <2>5 DEF Clean, PhaseInv
    <3> QED
      BY <1>1, <2>5, <3>1 DEF Clean
  <2> QED
    BY <1>4, <2>1, <2>2, <2>3, <2>4, <2>5 DEF FlushStep
<1>5. CASE Environment
  <2>1. CASE Start
    BY <1>t, <1>2, <2>1 DEF Start, PhaseInv
  <2>2. ASSUME NEW c \in Calls, EnqueueCall(c) PROVE HeldInv'
    BY <1>t, <1>2, <2>2 DEF EnqueueCall
  <2>3. CASE Stop \/ ProcessEnds
    BY <1>1, <2>3 DEF Stop, ProcessEnds, Interrupt
  <2>4. ASSUME NEW f \in Flushers, FlushTimeout(f) \/ FlushPersistedError(f)
        PROVE  HeldInv'
    BY <1>1, <2>4 DEF FlushTimeout, FlushPersistedError, Interrupt
  <2> QED
    BY <1>5, <2>1, <2>2, <2>3, <2>4 DEF Environment
<1>6. CASE UNCHANGED vars
  BY <1>6 DEF vars
<1> QED
  BY <1>3, <1>4, <1>5, <1>6 DEF Next, Finished

TInv == CInv /\ HeldInv /\ UInv

LEMMA TInvInit == Init => TInv
  BY CInvInit, UInvInit DEF Init, TInv, HeldInv, Held

LEMMA TInvNext == TypeOK /\ TInv /\ [Next]_vars => TInv' /\ Effect
<1> SUFFICES ASSUME TypeOK, TInv, [Next]_vars PROVE TInv' /\ Effect
  OBVIOUS
<1>1. CInv' /\ HeldInv'
  BY CInvNext, HeldNext DEF TInv, CInv
<1>2. Effect /\ IdleStays
  BY StepEffect DEF TInv, CInv
<1>3. UInv'
  BY <1>2, UInvNext DEF TInv, HeldInv, Held
<1> QED
  BY <1>1, <1>2, <1>3 DEF TInv

LEMMA TInvHolds == Spec => [](TypeOK /\ TInv)
  BY TInvInit, TInvNext, TypeCorrect, PTL DEF Spec

\* A batch is held once, whatever is retried, cancelled, rolled back or restarted
\* (OneCopy).
THEOREM NeverTwice == Spec => []OneCopy
  BY TInvHolds, UInvIsOneCopy, PTL DEF TInv

\* The table is finite, so that its rows can be counted.
LEMMA RowsAreFinite == ASSUME TypeOK, UInv PROVE IsFiniteSet(rows)
<1>1. [r \in rows |-> r.id] \in Injection(rows, 1 .. nextId - 1)
  BY DEF TypeOK, Row, UInv, IdsInv, Unique, Injection, IsInjective
<1>2. IsFiniteSet(1 .. nextId - 1)
  BY FS_Interval DEF TypeOK
<1> QED
  BY <1>1, <1>2, FS_Injection

\* LIMIT leaves out no row that is older than one it takes.
LEMMA SelectedAreOldest ==
    ASSUME TypeOK, UInv, NEW s \in Selected, NEW r \in rows, r.id < s.id, Sendable(r)
    PROVE  r \in Selected
<1>1. Older(r) \subseteq Older(s) /\ Older(s) \subseteq rows
  BY DEF Older, Selected, TypeOK, Row
<1>2. IsFiniteSet(Older(s))
  BY <1>1, RowsAreFinite, FS_Subset
<1>3. Cardinality(Older(r)) <= Cardinality(Older(s))
  BY <1>1, <1>2, FS_Subset
<1>4. Cardinality(Older(r)) \in Nat /\ Cardinality(Older(s)) \in Nat
  BY <1>1, <1>2, FS_Subset, FS_CardinalityType
<1> QED
  BY <1>3, <1>4, BoundAssumption DEF Selected

\* Rows inserted while a flush goes through the table are newer than its rows.
LEMMA OldestHeldNext ==
    ASSUME TypeOK, TInv, OldestHeld, [Next]_vars
    PROVE  OldestHeld'
<1> USE DEF OldestHeld, Held, Sendable
<1>t. /\ nextId \in Nat \ {0} /\ todo \cup deleted \cup failed \subseteq rows
      /\ \A r \in rows : r.id \in Nat
      /\ deleted \cup failed \cup todo # {} =>
             pc[Flusher] = "row" \/ pc[Stopper] = "row"
  BY DEF TypeOK, Row, TInv, HeldInv
<1>1. CASE Held' = {}
  BY <1>1
<1>2. CASE Held' = Held /\ rows' = rows
  BY <1>2
<1>3. ASSUME NEW t \in Task, Persists(t) PROVE OldestHeld'
  <2>1. CASE PersistFails(t)
    BY <1>2, <2>1 DEF PersistFails, table, txn
  <2>2. CASE PersistOk(t)
    <3> DEFINE new == [id |-> nextId, batches |-> payload[t], attempts |-> 0]
    <3>1. rows' = rows \cup {new} /\ new.id = nextId /\ UNCHANGED txn
      BY <2>2 DEF PersistOk
    <3>2. \A s \in rows : s.id < nextId
      BY DEF TInv, UInv, IdsInv
    <3> HIDE DEF new
    <3> QED
      BY <1>t, <3>1, <3>2 DEF txn
  <2> QED
    BY <1>3, <2>1, <2>2 DEF Persists
<1>4. ASSUME NEW f \in Flushers, Select(f) PROVE OldestHeld'
  <2>1. deleted = {} /\ failed = {}
    BY <1>4, <1>t, FlushersAreTasks DEF Select, TInv, CInv, PhaseInv, Flushers
  <2>2. Held' = Selected /\ rows' = rows
    BY <1>4, <2>1 DEF Select, table
  <2>3. \A s \in Selected : Sendable(s)
    BY DEF Selected
  <2> QED
    BY <2>2, <2>3, SelectedAreOldest DEF TInv
<1>5. ASSUME NEW f \in Flushers, RowStep(f) PROVE OldestHeld'
  BY <1>2, <1>5 DEF RowStep, RowOk, RowRetries, RowFails, IsNext, table, txn
<1>6. ASSUME NEW f \in Flushers, FlushStep(f) PROVE OldestHeld'
  <2>1. CASE \/ FlushBegin(f) \/ FlushTakesBuffer(f) \/ FlushFindsNothing(f)
             \/ Sends(f)
    BY <1>2, <2>1
       DEF FlushBegin, FlushTakesBuffer, FlushFindsNothing, Sends, SendOk,
           SendRetries, SendFails, table, txn
  <2>2. CASE Commit(f)
    BY <1>1, <2>2 DEF Commit
  <2>3. CASE Clean(f)
    <3>1. Held = {}
      BY <1>t, <2>3, FlushersAreTasks DEF Clean, TInv, CInv, PhaseInv, Flushers
    <3> QED
      BY <1>1, <2>3, <3>1 DEF Clean, txn
  <2> QED
    BY <1>3, <1>4, <1>5, <1>6, <2>1, <2>2, <2>3, FlushersAreTasks DEF FlushStep
<1>7. CASE Environment
  BY <1>1, <1>2, <1>7
     DEF Environment, Start, Stop, ProcessEnds, EnqueueCall, FlushTimeout,
         FlushPersistedError, Interrupt, table, txn
<1>8. CASE UNCHANGED vars
  BY <1>2, <1>8 DEF vars, table, txn
<1>9. ASSUME NEW c \in Calls, CallStep(c) PROVE OldestHeld'
  BY <1>2, <1>3, <1>9, FlushersAreTasks
     DEF CallStep, EnqueueBuffers, EnqueueFlushes, Sends, SendOk, SendRetries,
         SendFails, table, txn
<1> QED
  BY <1>6, <1>7, <1>8, <1>9 DEF Next, Finished

\* The commit counts an attempt of the oldest rows that have any left, so it
\* never puts a newer row ahead of an older one.
LEMMA OldestTriedNext ==
    ASSUME TypeOK, TInv, OldestHeld, OldestTriedMost, Effect
    PROVE  OldestTriedMost'
<1> USE DEF OldestTriedMost
<1>t. /\ nextId \in Nat \ {0} /\ MaxAttempts \in Nat
      /\ \A r \in rows : r.id \in Nat /\ r.attempts \in Nat
  BY BoundAssumption DEF TypeOK, Row
<1>1. ASSUME NEW t \in Task, Stores(t) PROVE OldestTriedMost'
  <2> DEFINE new == [id |-> nextId, batches |-> payload[t], attempts |-> 0]
  <2>1. rows' = rows \cup {new} /\ new.id = nextId /\ new.attempts = 0
    BY <1>1 DEF Stores
  <2>2. \A s \in rows : s.id < nextId
    BY DEF TInv, UInv, IdsInv
  <2> HIDE DEF new
  <2> QED
    BY <1>t, <2>1, <2>2
<1>2. CASE Commits
  <2>1. SUFFICES ASSUME NEW r \in rows', NEW s \in rows', r.id < s.id
                 PROVE  r.attempts >= s.attempts
    OBVIOUS
  <2>2. failed \subseteq rows
    BY DEF TInv, HeldInv, Held
  <2>3. PICK p \in rows : /\ r.id = p.id
                          /\ \/ r = p /\ p \notin deleted /\ p \notin failed
                             \/ p \in failed /\ r.attempts = p.attempts + 1
    BY <1>2, <2>2 DEF Commits, Committed, Tried
  <2>4. PICK q \in rows : /\ s.id = q.id
                          /\ \/ s = q /\ q \notin deleted /\ q \notin failed
                             \/ q \in failed /\ s.attempts = q.attempts + 1
    BY <1>2, <2>2 DEF Commits, Committed, Tried
  <2>5. p.attempts >= q.attempts
    BY <2>1, <2>3, <2>4
  <2>6. CASE q \in failed /\ p \notin failed
    <3>1. p \notin deleted /\ r = p
      BY <2>3, <2>6
    <3>2. q.attempts < MaxAttempts /\ ~ p.attempts < MaxAttempts
      BY <1>2, <2>1, <2>3, <2>4, <2>6, <3>1 DEF Commits, OldestHeld, Held,
                                               Sendable
    <3> QED
      BY <1>t, <2>4, <2>6, <3>1, <3>2
  <2>7. CASE q \notin failed \/ p \in failed
    BY <1>t, <2>3, <2>4, <2>5, <2>7
  <2> QED
    BY <2>6, <2>7
<1>3. CASE rows' \subseteq rows
  BY <1>3
<1> QED
  BY <1>1, <1>2, <1>3
     DEF Effect, Accepts, Puts, Takes, Delivers, Drops, Answers, Forgets, Expires, data

\* Stopping a flush half way rolls its updates back together, and only a whole
\* pass counts: the oldest rows are always the most tried (OldestTriedMost).
THEOREM OldestFirst == Spec => []OldestTriedMost
<1>1. Init => OldestHeld /\ OldestTriedMost
  BY DEF Init, OldestHeld, OldestTriedMost, Held
<1>2. TypeOK /\ TInv /\ OldestHeld /\ OldestTriedMost /\ [Next]_vars
        => OldestHeld' /\ OldestTriedMost'
  BY TInvNext, OldestHeldNext, OldestTriedNext
<1> QED
  BY <1>1, <1>2, TInvHolds, PTL DEF Spec

-----------------------------------------------------------------------------
(* The transport implements StoreAndForward.  Each effect moves a set of      *)
(* batches from one status to another, or none.                              *)

IsLost(b)   == \E x \in Cause : b \in lost[x]
OnDisk(b)   == \E r \in rows : b \in r.batches
InMemory(b) == b \in buffer \/ \E t \in Task : b \in payload[t]

\* Where a batch stands, without UNION.
StatusOf(b) ==
    IF b \in acked THEN "acked"
    ELSE IF IsLost(b) THEN "lost"
    ELSE IF OnDisk(b) THEN "disk"
    ELSE IF InMemory(b) THEN "memory" ELSE "new"

LEMMA StandingIs ==
    /\ Standing = [b \in Batch |-> StatusOf(b)]
    /\ Standing' = [b \in Batch |-> StatusOf(b)']
<1>1. ASSUME NEW b PROVE /\ b \in Lost <=> IsLost(b)
                         /\ b \in Disk <=> OnDisk(b)
                         /\ b \in Memory <=> InMemory(b)
  BY DEF Lost, IsLost, Disk, BatchesIn, OnDisk, Memory, InMemory
<1>2. ASSUME NEW b PROVE /\ b \in Lost' <=> IsLost(b)'
                         /\ b \in Disk' <=> OnDisk(b)'
                         /\ b \in Memory' <=> InMemory(b)'
  BY DEF Lost, IsLost, Disk, BatchesIn, OnDisk, Memory, InMemory
<1>3. Standing = [b \in Batch |-> StatusOf(b)]
  BY <1>1 DEF Standing, StatusOf
<1>4. Standing' = [b \in Batch |-> StatusOf(b)']
  BY <1>2 DEF Standing, StatusOf
<1> QED
  BY <1>3, <1>4

LEMMA SetMoves ==
    ASSUME NEW S \in SUBSET Batch, NEW from, NEW to,
           \A b \in S : StatusOf(b) = from /\ StatusOf(b)' = to,
           \A b \in Batch \ S : StatusOf(b)' = StatusOf(b)
    PROVE  Promise!Moves(from, to) \/ Standing' = Standing
<1>1. CASE S = {}
  BY <1>1, StandingIs
<1>2. CASE S # {}
  <2>1. S \in (SUBSET {b \in Batch : Standing[b] = from}) \ {{}}
    BY <1>2, StandingIs
  <2>2. Standing' = [b \in Batch |-> IF b \in S THEN to ELSE Standing[b]]
    BY StandingIs
  <2> QED
    BY <2>1, <2>2 DEF Promise!Moves
<1> QED
  BY <1>1, <1>2

LEMMA EffectImplements ==
    ASSUME TypeOK, TInv, Effect
    PROVE  [Promise!Next]_Standing
<1> USE FlushersAreTasks DEF TInv, UInv
<1> SUFFICES Promise!Next \/ Standing' = Standing
  OBVIOUS
<1>t. /\ payload \in [Task -> SUBSET Batch] /\ lost \in [Cause -> SUBSET Batch]
      /\ buffer \subseteq Batch /\ rows \subseteq Row
      /\ \A r \in rows : r.batches \subseteq Batch
  BY DEF TypeOK, Row
<1>0. ASSUME \A b \in Batch : StatusOf(b)' = StatusOf(b)
      PROVE  Standing' = Standing
  BY <1>0, StandingIs DEF StatusOf, IsLost, OnDisk, InMemory
<1>1. ASSUME NEW c \in Calls, Accepts(c)
      PROVE  Promise!Accept \/ Standing' = Standing
  <2>1. BatchesOf[c] \in SUBSET Batch
    BY BatchAssumption
  <2>2. ASSUME NEW b \in BatchesOf[c]
        PROVE  StatusOf(b) = "new" /\ StatusOf(b)' = "memory"
    BY <1>t, <1>1, <2>2 DEF Accepts, Fresh, Kept,
       StatusOf, IsLost, OnDisk, InMemory
  <2>3. ASSUME NEW b \in Batch \ BatchesOf[c] PROVE StatusOf(b)' = StatusOf(b)
    BY <1>t, <1>1, <2>3 DEF Accepts, StatusOf, IsLost, OnDisk, InMemory
  <2> QED
    BY <2>1, <2>2, <2>3, SetMoves DEF Promise!Accept
<1>2. ASSUME NEW c \in Calls, Puts(c) PROVE Standing' = Standing
  BY <1>0, <1>t, <1>2 DEF Puts, StatusOf, IsLost, OnDisk, InMemory
<1>3. ASSUME NEW t \in Task, Takes(t) PROVE Standing' = Standing
  BY <1>0, <1>t, <1>3 DEF Takes, StatusOf, IsLost, OnDisk, InMemory
<1>4. ASSUME NEW t \in Task, Delivers(t)
      PROVE  Promise!Moves("memory", "acked") \/ Standing' = Standing
  <2>1. ASSUME NEW b \in payload[t]
        PROVE  StatusOf(b) = "memory" /\ StatusOf(b)' = "acked"
    BY <1>t, <1>4, <2>1 DEF Delivers, Unique, Settled,
       StatusOf, IsLost, OnDisk, InMemory
  <2>2. ASSUME NEW b \in Batch \ payload[t] PROVE StatusOf(b)' = StatusOf(b)
    BY <1>t, <1>4, <2>2 DEF Delivers, StatusOf, IsLost, OnDisk, InMemory
  <2> QED
    BY <1>t, <2>1, <2>2, SetMoves
<1>5. ASSUME NEW t \in Task, Stores(t)
      PROVE  Promise!Store \/ Standing' = Standing
  <2> DEFINE new == [id |-> nextId, batches |-> payload[t], attempts |-> 0]
  <2>0. rows' = rows \cup {new} /\ new.batches = payload[t]
    BY <1>5 DEF Stores
  <2> HIDE DEF new
  <2>1. ASSUME NEW b \in payload[t]
        PROVE  StatusOf(b) = "memory" /\ StatusOf(b)' = "disk"
    BY <1>t, <1>5, <2>0, <2>1 DEF Stores, Unique, Settled,
       StatusOf, IsLost, OnDisk, InMemory
  <2>2. ASSUME NEW b \in Batch \ payload[t] PROVE StatusOf(b)' = StatusOf(b)
    BY <1>t, <1>5, <2>0, <2>2 DEF Stores, StatusOf, IsLost, OnDisk, InMemory
  <2> QED
    BY <1>t, <2>1, <2>2, SetMoves DEF Promise!Store
<1>6. ASSUME NEW t \in Task, NEW x \in Cause, Drops(t, x)
      PROVE  Promise!Drop \/ Standing' = Standing
  <2>1. ASSUME NEW b \in payload[t]
        PROVE  StatusOf(b) = "memory" /\ StatusOf(b)' = "lost"
    BY <1>t, <1>6, <2>1 DEF Drops, Unique, Settled,
       StatusOf, IsLost, OnDisk, InMemory
  <2>2. ASSUME NEW b \in Batch \ payload[t] PROVE StatusOf(b)' = StatusOf(b)
    BY <1>t, <1>6, <2>2 DEF Drops, StatusOf, IsLost, OnDisk, InMemory
  <2> QED
    BY <1>t, <2>1, <2>2, SetMoves DEF Promise!Drop
<1>7. ASSUME NEW r \in todo, Answers(r)
      PROVE  Promise!Moves("disk", "acked") \/ Standing' = Standing
  <2>1. r \in rows
    BY DEF HeldInv, Held
  <2>2. ASSUME NEW b \in r.batches \ acked
        PROVE  StatusOf(b) = "disk" /\ StatusOf(b)' = "acked"
    BY <1>t, <1>7, <2>1, <2>2 DEF Answers, Settled,
       StatusOf, IsLost, OnDisk, InMemory
  <2>3. ASSUME NEW b \in Batch \ (r.batches \ acked)
        PROVE  StatusOf(b)' = StatusOf(b)
    BY <1>t, <1>7, <2>3 DEF Answers, StatusOf, IsLost, OnDisk, InMemory
  <2> QED
    BY <1>t, <2>1, <2>2, <2>3, SetMoves
<1>8. CASE Commits
  <2>1. ASSUME NEW b \in Batch, b \notin acked PROVE OnDisk(b)' <=> OnDisk(b)
    <3>1. \A r \in deleted : b \notin r.batches
      BY <2>1 DEF CInv, DeletedInv
    <3>2. ASSUME NEW r \in failed
          PROVE  Tried(r) \in rows' /\ Tried(r).batches = r.batches
      BY <1>8, <3>2 DEF Commits, Committed, Tried
    <3>3. ASSUME NEW r \in rows \ (deleted \cup failed) PROVE r \in rows'
      BY <1>8, <3>3 DEF Commits, Committed
    <3>4. ASSUME NEW r \in rows' PROVE \E s \in rows : r.batches = s.batches
      BY <1>8, <3>4 DEF Commits, Committed, Tried, HeldInv, Held
    <3> QED
      BY <3>1, <3>2, <3>3, <3>4 DEF OnDisk
  <2> QED
    BY <1>0, <1>8, <2>1 DEF Commits, StatusOf, IsLost, OnDisk, InMemory
<1>9. CASE Forgets
  <2> DEFINE S == {b \in Batch : InMemory(b)}
  <2>1. ASSUME NEW b \in S PROVE StatusOf(b) = "memory" /\ StatusOf(b)' = "lost"
    BY <1>t, <1>9, <2>1 DEF Forgets, Unique, Settled, Cause,
       StatusOf, IsLost, OnDisk, InMemory
  <2>2. ASSUME NEW b \in Batch \ S PROVE StatusOf(b)' = StatusOf(b)
    BY <1>t, <1>9, <2>2 DEF Forgets, StatusOf, IsLost, OnDisk, InMemory
  <2>3. Promise!Drop \/ Standing' = Standing
    <3>1. S \in SUBSET Batch
      OBVIOUS
    <3> HIDE DEF S
    <3> QED
      BY <2>1, <2>2, <3>1, SetMoves DEF Promise!Drop
  <2> QED
    BY <2>3 DEF Promise!Next
<1>10. ASSUME NEW cutoff \in Nat, Expires(cutoff)
       PROVE  Promise!Expire \/ Standing' = Standing
  <2> DEFINE S == BatchesIn({r \in rows : r.id < cutoff}) \ acked
  <2>1. /\ rows' = {r \in rows : ~ r.id < cutoff}
        /\ lost' = [lost EXCEPT !["expired"] = @ \cup S]
        /\ UNCHANGED <<buffer, payload, acked>>
    BY <1>10 DEF Expires
  <2>2. \A b : b \in S <=> b \notin acked
                           /\ \E r \in rows : r.id < cutoff /\ b \in r.batches
    BY DEF BatchesIn
  <2>3. S \in SUBSET Batch
    BY <1>t, <2>2
  <2> HIDE DEF S
  <2>4. ASSUME NEW b \in S PROVE StatusOf(b) = "disk" /\ StatusOf(b)' = "lost"
    BY <1>t, <2>1, <2>2, <2>4 DEF Settled, Cause,
       StatusOf, IsLost, OnDisk, InMemory
  <2>5. ASSUME NEW b \in Batch \ S PROVE StatusOf(b)' = StatusOf(b)
    BY <1>t, <2>1, <2>2, <2>5 DEF StatusOf, IsLost, OnDisk, InMemory
  <2> QED
    BY <2>3, <2>4, <2>5, SetMoves DEF Promise!Expire
<1>11. CASE UNCHANGED data
  BY <1>0, <1>11 DEF data, StatusOf, IsLost, OnDisk, InMemory
<1> QED
  BY <1>1, <1>2, <1>3, <1>4, <1>5, <1>6, <1>7, <1>8, <1>9, <1>10, <1>11
     DEF Effect, Promise!Next, Promise!Acknowledge

LEMMA InitImplements == Init => Promise!Init
  BY StandingIs DEF Init, Promise!Init, StatusOf, IsLost, OnDisk, InMemory

\* The transport implements what StoreAndForward promises of each batch
\* (StoresAndForwards).
THEOREM TransportRefines == Spec => StoresAndForwards
<1>1. TypeOK /\ TInv /\ [Next]_vars => [Promise!Next]_Standing
  BY TInvNext, EffectImplements
<1> QED
  BY <1>1, InitImplements, TInvHolds, PTL
     DEF Spec, StoresAndForwards, Promise!Spec

-----------------------------------------------------------------------------
(* The lock.  That two payloads are never sent or persisted at once needs to *)
(* know who is queued: the lock is handed over to a task without asking it.  *)

Busy == {"lock", "send", "persist"}

Queued(t) == \E i \in 1 .. Len(waiters) : waiters[i] = t

\* t has asked for the lock before u.
Before(t, u) ==
    \E i, j \in 1 .. Len(waiters) : i < j /\ waiters[i] = t /\ waiters[j] = u

\* No task is queued twice, nor for the lock it holds, nor for a free lock.
QueueInv ==
    /\ holder = NoTask => waiters = <<>>
    /\ ~ Queued(holder)
    /\ \A t \in Task : ~ Before(t, t)

\* Who works on a payload holds the lock, and who waits for it will have it.
LockInv ==
    /\ QueueInv
    /\ \A t \in Task : pc[t] \in {"send", "persist"} => t = holder
    /\ \A t \in Task : pc[t] = "lock" => t = holder \/ Queued(t)
    /\ \A t \in Task : Queued(t) => pc[t] = "lock"
    /\ holder # NoTask => pc[holder] \in Busy

\* A task that asks for the lock is the last of the queue.
LEMMA AcquireQueues ==
    ASSUME TypeOK, QueueInv, NEW t \in Task, t # holder, ~ Queued(t), Acquire(t)
    PROVE  /\ QueueInv'
           /\ \A u \in Task : Queued(u)' <=> Queued(u) \/ (u = t /\ t # holder')
           /\ \A u, v \in Task : Before(u, v)' => Before(u, v) \/ v = t
           /\ holder' # NoTask
           /\ holder' = holder \/ holder' = t
<1>t. waiters \in Seq(Task) /\ holder \in Task \cup {NoTask} /\ NoTask \notin Task
  BY TaskAssumption DEF TypeOK
<1>1. CASE holder = NoTask
  BY <1>t, <1>1 DEF Acquire, QueueInv, Queued, Before
<1>2. CASE holder # NoTask
  <2>1. /\ waiters' = Append(waiters, t) /\ holder' = holder
        /\ Len(waiters') = Len(waiters) + 1 /\ Len(waiters) \in Nat
        /\ \A i \in 1 .. Len(waiters) : waiters'[i] = waiters[i]
        /\ waiters'[Len(waiters) + 1] = t
    BY <1>t, <1>2 DEF Acquire
  <2> HIDE DEF Acquire
  <2>2. \A u \in Task : Queued(u)' <=> Queued(u) \/ u = t
    BY <2>1 DEF Queued
  <2>3. \A u, v \in Task : Before(u, v)' => Before(u, v) \/ (v = t /\ Queued(u))
    BY <2>1 DEF Before, Queued
  <2>4. holder \in Task /\ waiters' # <<>>
    BY <1>t, <1>2, <2>1
  <2>5. QueueInv'
    BY <1>2, <2>1, <2>2, <2>3, <2>4 DEF QueueInv
  <2> QED
    BY <1>2, <2>1, <2>2, <2>3, <2>5
<1> QED
  BY <1>1, <1>2

\* A task that releases the lock, or leaves its place in the queue, moves no
\* other task but the first of the queue, which may get the lock.
LetsGo(t) ==
    /\ QueueInv'
    /\ t # holder' /\ ~ Queued(t)'
    /\ \A u \in Task : u # t =>
          (u = holder \/ Queued(u) <=> u = holder' \/ Queued(u)')
    /\ \A u \in Task : Queued(u)' => Queued(u)
    /\ \A u, v \in Task : Before(u, v)' => Before(u, v)
    /\ holder' \in Task \cup {NoTask}
    /\ holder' # holder /\ holder' # NoTask =>
          /\ holder = t /\ Queued(holder')
          /\ \A u \in Task : Queued(u)' => Before(holder', u)
    /\ holder' = NoTask => holder \in {t, NoTask}

LEMMA ReleaseHandsOver ==
    ASSUME TypeOK, QueueInv, NEW t \in Task, holder = t, Release
    PROVE  LetsGo(t)
<1>t. waiters \in Seq(Task) /\ holder \in Task /\ NoTask \notin Task
  BY TaskAssumption DEF TypeOK
<1>1. CASE waiters = <<>>
  BY <1>t, <1>1 DEF Release, LetsGo, QueueInv, Queued, Before
<1>2. CASE waiters # <<>>
  <2>1. /\ holder' = waiters[1] /\ Len(waiters) \in Nat \ {0}
        /\ waiters' \in Seq(Task) /\ Len(waiters') = Len(waiters) - 1
        /\ \A i \in 1 .. Len(waiters) - 1 : waiters'[i] = waiters[i + 1]
    BY <1>t, <1>2, HeadTailProperties DEF Release
  <2>2. holder' \in Task /\ Queued(holder')
    BY <1>t, <2>1 DEF Queued
  <2>3. \A u, v \in Task : Before(u, v)' => Before(u, v)
    <3> SUFFICES ASSUME NEW u \in Task, NEW v \in Task,
                        NEW i \in 1 .. Len(waiters) - 1,
                        NEW j \in 1 .. Len(waiters) - 1,
                        i < j, waiters'[i] = u, waiters'[j] = v
                 PROVE  Before(u, v)
      BY <2>1 DEF Before
    <3>1. /\ i + 1 \in 1 .. Len(waiters) /\ j + 1 \in 1 .. Len(waiters)
          /\ i + 1 < j + 1 /\ waiters[i + 1] = u /\ waiters[j + 1] = v
      BY <2>1
    <3> QED
      BY <3>1 DEF Before
  <2>4. \A u \in Task : Queued(u)' => Queued(u) /\ Before(holder', u)
    <3> SUFFICES ASSUME NEW u \in Task, NEW i \in 1 .. Len(waiters) - 1,
                        waiters'[i] = u
                 PROVE  Queued(u) /\ Before(holder', u)
      BY <2>1 DEF Queued
    <3>1. /\ i + 1 \in 1 .. Len(waiters) /\ waiters[i + 1] = u
          /\ 1 \in 1 .. Len(waiters) /\ 1 < i + 1
      BY <2>1
    <3> QED
      BY <2>1, <3>1 DEF Queued, Before
  <2>5. \A u \in Task : Queued(u) => u = holder' \/ Queued(u)'
    <3> SUFFICES ASSUME NEW u \in Task, NEW i \in 1 .. Len(waiters),
                        waiters[i] = u, u # holder'
                 PROVE  Queued(u)'
      BY DEF Queued
    <3>1. i - 1 \in 1 .. Len(waiters') /\ waiters'[i - 1] = u
      BY <2>1
    <3> QED
      BY <3>1 DEF Queued
  <2>6. (\A u \in Task : Queued(u)' => u # holder') /\ ~ Queued(t)' /\ t # holder'
    BY <2>2, <2>4 DEF QueueInv
  <2>7. QueueInv'
    BY <1>t, <2>2, <2>3, <2>6 DEF QueueInv
  <2> QED
    BY <1>t, <2>2, <2>3, <2>4, <2>5, <2>6, <2>7 DEF LetsGo
<1> QED
  BY <1>1, <1>2

LEMMA LeaveLetsGo ==
    ASSUME TypeOK, QueueInv, NEW t \in Task, LeaveLock(t)
    PROVE  LetsGo(t)
<1>t. waiters \in Seq(Task) /\ holder \in Task \cup {NoTask} /\ NoTask \notin Task
  BY TaskAssumption DEF TypeOK
<1>1. CASE holder = t /\ Release
  BY <1>1, ReleaseHandsOver
<1>2. ASSUME holder # t, NEW k \in 1 .. Len(waiters), waiters[k] = t,
             waiters' = RemoveAt(waiters, k), holder' = holder
      PROVE  LetsGo(t)
  <2> DEFINE Old(i) == IF i < k THEN i ELSE i + 1
  <2>1. /\ Len(waiters) \in Nat
        /\ Len(waiters') = Len(waiters) - 1
        /\ \A i \in 1 .. Len(waiters) - 1 : waiters'[i] = waiters[Old(i)]
    <3> DEFINE a == SubSeq(waiters, 1, k - 1)
               z == SubSeq(waiters, k + 1, Len(waiters))
    <3>1. Len(waiters) \in Nat
      BY <1>t
    <3>2. /\ a \in Seq(Task) /\ Len(a) = k - 1
          /\ \A i \in 1 .. k - 1 : a[i] = waiters[i]
      BY <1>t, <3>1, SubSeqProperties
    <3>3. /\ z \in Seq(Task) /\ Len(z) = Len(waiters) - k
          /\ \A i \in 1 .. Len(waiters) - k : z[i] = waiters[k + i]
      BY <1>t, <3>1, SubSeqProperties
    <3>4. waiters' = a \o z
      BY <1>2 DEF RemoveAt
    <3> HIDE DEF a, z
    <3>5. /\ Len(waiters') = Len(waiters) - 1
          /\ \A i \in 1 .. Len(waiters) - 1 :
                waiters'[i] = IF i <= k - 1 THEN a[i] ELSE z[i - (k - 1)]
      <4>1. /\ Len(a \o z) = Len(a) + Len(z)
            /\ \A i \in 1 .. Len(a) + Len(z) :
                  (a \o z)[i] = IF i <= Len(a) THEN a[i] ELSE z[i - Len(a)]
        BY <3>2, <3>3, ConcatProperties
      <4>2. Len(a) + Len(z) = Len(waiters) - 1
        BY <3>1, <3>2, <3>3
      <4> QED
        BY <3>2, <3>4, <4>1, <4>2
    <3>6. ASSUME NEW i \in 1 .. Len(waiters) - 1 PROVE waiters'[i] = waiters[Old(i)]
      <4>1. CASE i < k
        BY <3>1, <3>2, <3>5, <4>1
      <4>2. CASE ~ i < k
        <5>1. i - (k - 1) \in 1 .. Len(waiters) - k /\ ~ i <= k - 1
          BY <3>1, <4>2
        <5>2. waiters'[i] = z[i - (k - 1)] /\ z[i - (k - 1)] = waiters[k + (i - (k - 1))]
          BY <3>3, <3>5, <5>1
        <5>3. k + (i - (k - 1)) = i + 1
          BY <3>1
        <5> QED
          BY <4>2, <5>2, <5>3
      <4> QED
        BY <4>1, <4>2
    <3> QED
      BY <3>1, <3>5, <3>6
  <2>2. \A i \in 1 .. Len(waiters) - 1 : Old(i) \in 1 .. Len(waiters) /\ Old(i) # k
    BY <2>1
  <2>3. \A i, j \in 1 .. Len(waiters) - 1 : i < j => Old(i) < Old(j)
    BY <2>1
  <2>4. \A i \in 1 .. Len(waiters) : i # k =>
            \E j \in 1 .. Len(waiters) - 1 : Old(j) = i
    <3> SUFFICES ASSUME NEW i \in 1 .. Len(waiters), i # k
                 PROVE  \E j \in 1 .. Len(waiters) - 1 : Old(j) = i
      OBVIOUS
    <3>1. CASE i < k
      <4>1. i \in 1 .. Len(waiters) - 1 /\ Old(i) = i
        BY <2>1, <3>1
      <4> QED
        BY <4>1
    <3>2. CASE i > k
      <4>1. i - 1 \in 1 .. Len(waiters) - 1 /\ Old(i - 1) = i
        BY <2>1, <3>2
      <4> QED
        BY <4>1
    <3> QED
      BY <3>1, <3>2
  <2> HIDE DEF Old
  <2>5. \A u, v \in Task : Before(u, v)' => Before(u, v)
    <3> SUFFICES ASSUME NEW u \in Task, NEW v \in Task,
                        NEW i \in 1 .. Len(waiters) - 1,
                        NEW j \in 1 .. Len(waiters) - 1,
                        i < j, waiters'[i] = u, waiters'[j] = v
                 PROVE  Before(u, v)
      BY <2>1 DEF Before
    <3>1. /\ Old(i) \in 1 .. Len(waiters) /\ Old(j) \in 1 .. Len(waiters)
          /\ Old(i) < Old(j) /\ waiters[Old(i)] = u /\ waiters[Old(j)] = v
      BY <2>1, <2>2, <2>3
    <3> QED
      BY <3>1 DEF Before
  <2>6. \A u \in Task : Queued(u)' => Queued(u)
    BY <2>1, <2>2 DEF Queued
  <2>7. \A u \in Task : u # t /\ Queued(u) => Queued(u)'
    BY <1>2, <2>1, <2>4 DEF Queued
  <2>8. ~ Queued(t)'
    <3> SUFFICES ASSUME NEW i \in 1 .. Len(waiters) - 1, waiters[Old(i)] = t
                 PROVE  FALSE
      BY <2>1 DEF Queued
    <3>1. Old(i) < k \/ k < Old(i)
      BY <2>1, <2>2
    <3>2. Before(t, t)
      BY <1>2, <2>1, <2>2, <3>1 DEF Before
    <3> QED
      BY <3>2 DEF QueueInv
  <2>9. QueueInv'
    <3>1. holder # NoTask
      BY <1>2 DEF QueueInv
    <3> QED
      BY <1>t, <1>2, <2>5, <2>6, <3>1 DEF QueueInv
  <2> QED
    BY <1>t, <1>2, <2>5, <2>6, <2>7, <2>8, <2>9 DEF LetsGo
<1>3. CASE holder # t /\ UNCHANGED lock /\ \A i \in 1 .. Len(waiters) : waiters[i] # t
  BY <1>t, <1>3 DEF lock, LetsGo, QueueInv, Queued, Before
<1> QED
  BY <1>1, <1>2, <1>3 DEF LeaveLock

\* The three ways in which a step can touch the lock keep LockInv.
LEMMA AcquireKeepsLock ==
    ASSUME TypeOK, LockInv, NEW t \in Task, pc[t] \notin Busy, Acquire(t),
           Goto(t, "lock")
    PROVE  LockInv'
<1>1. t # holder /\ ~ Queued(t)
  BY TaskAssumption DEF LockInv, Busy
<1>2. pc \in [Task -> CallPC \cup FlusherPC] /\ holder \in Task \cup {NoTask}
  BY DEF TypeOK
<1>3. /\ QueueInv'
      /\ \A u \in Task : Queued(u)' <=> Queued(u) \/ (u = t /\ t # holder')
      /\ holder' = holder \/ holder' = t
      /\ holder' # NoTask
  BY <1>1, AcquireQueues DEF LockInv
<1>4. /\ pc'[t] = "lock" /\ \A u \in Task : u # t => pc'[u] = pc[u]
      /\ t # NoTask
  BY <1>2, TaskAssumption DEF Goto
<1>5. \A u \in Task : pc[u] \in Busy => u = holder \/ Queued(u)
  BY DEF LockInv, Busy
<1>6. holder' # holder => holder = NoTask
  BY DEF Acquire
<1> QED
  BY <1>1, <1>2, <1>3, <1>4, <1>5, <1>6, TaskAssumption DEF LockInv, Busy

LEMMA LetsGoKeepsLock ==
    ASSUME TypeOK, LockInv, NEW t \in Task, LetsGo(t), pc'[t] \notin Busy,
           \A u \in Task : u # t =>
               pc'[u] = pc[u] \/ (pc[u] \notin Busy /\ pc'[u] \notin Busy)
    PROVE  LockInv'
  BY TaskAssumption DEF LockInv, LetsGo, TypeOK, Busy

LEMMA StaysKeepsLock ==
    ASSUME TypeOK, LockInv, UNCHANGED lock,
           \A u \in Task : \/ pc'[u] = pc[u]
                           \/ pc[u] \notin Busy /\ pc'[u] \notin Busy
                           \/ u = holder /\ pc'[u] \in Busy
    PROVE  LockInv'
<1>1. UNCHANGED <<holder, waiters>>
  BY DEF lock
<1>2. holder \in Task \cup {NoTask}
  BY DEF TypeOK
<1>3. /\ QueueInv'
      /\ \A u \in Task : Queued(u)' <=> Queued(u)
      /\ ~ Queued(holder)
  BY <1>1 DEF LockInv, QueueInv, Queued, Before
<1> QED
  BY <1>1, <1>2, <1>3 DEF LockInv, Busy

LEMMA LockNext == TypeOK /\ PhaseInv /\ LockInv /\ [Next]_vars => LockInv'
<1> SUFFICES ASSUME TypeOK, PhaseInv, LockInv, [Next]_vars PROVE LockInv'
  OBVIOUS
<1> USE FlushersAreTasks DEF Goto
<1>t. /\ pc \in [Task -> CallPC \cup FlusherPC] /\ Flushers = {Flusher, Stopper}
      /\ NoTask \notin Task
  BY TaskAssumption DEF TypeOK, Flushers
<1>q. QueueInv
  BY DEF LockInv
<1>1. ASSUME NEW t \in Task, Sends(t) \/ Persists(t) PROVE LockInv'
  <2>1. holder = t
    BY <1>1 DEF LockInv, Sends, SendOk, SendRetries, SendFails, Persists, PersistOk,
                PersistFails
  <2>2. CASE SendRetries(t) \/ SendFails(t)
    BY <1>t, <2>1, <2>2, StaysKeepsLock DEF SendRetries, SendFails, Busy
  <2>3. CASE SendOk(t) \/ PersistOk(t) \/ PersistFails(t)
    <3>1. LetsGo(t)
      BY <1>q, <2>1, <2>3, ReleaseHandsOver DEF SendOk, PersistOk, PersistFails
    <3>2. pc' = [pc EXCEPT ![t] = AfterBuffer(t)] /\ AfterBuffer(t) \notin Busy
      BY <2>3 DEF SendOk, PersistOk, PersistFails, AfterBuffer, Busy
    <3> QED
      BY <1>t, <3>1, <3>2, LetsGoKeepsLock
  <2> QED
    BY <1>1, <2>2, <2>3 DEF Sends, Persists
<1>2. ASSUME NEW c \in Calls, CallStep(c) PROVE LockInv'
  <2>1. CASE EnqueueBuffers(c)
    BY <1>t, <1>q, <2>1, ReleaseHandsOver, LetsGoKeepsLock DEF EnqueueBuffers, Busy
  <2>2. CASE EnqueueFlushes(c)
    BY <1>t, <2>2, StaysKeepsLock DEF EnqueueFlushes, Busy
  <2> QED
    BY <1>1, <1>2, <2>1, <2>2 DEF CallStep
<1>3. ASSUME NEW f \in Flushers, FlushStep(f) PROVE LockInv'
  <2>1. CASE FlushBegin(f)
    BY <2>1, AcquireKeepsLock DEF FlushBegin, Busy
  <2>2. CASE FlushTakesBuffer(f)
    BY <1>t, <2>2, StaysKeepsLock DEF FlushTakesBuffer, Busy
  <2>3. CASE FlushFindsNothing(f)
    BY <1>t, <1>q, <2>3, ReleaseHandsOver, LetsGoKeepsLock DEF FlushFindsNothing, Busy
  <2>4. CASE Select(f) \/ Commit(f)
    BY <1>t, <2>4, StaysKeepsLock DEF Select, Commit, Busy
  <2>5. CASE RowStep(f)
    BY <2>5, StaysKeepsLock DEF RowStep, RowOk, RowRetries, RowFails
  <2>6. CASE Clean(f)
    BY <1>t, <2>6, StaysKeepsLock DEF Clean, Finish, Busy
  <2> QED
    BY <1>1, <1>3, <2>1, <2>2, <2>3, <2>4, <2>5, <2>6 DEF FlushStep
<1>4. CASE Environment
  <2>1. CASE Start
    <3>1. pc[Flusher] \notin Busy
      BY <2>1 DEF Start, PhaseInv, Busy
    <3> QED
      BY <1>t, <2>1, <3>1, StaysKeepsLock DEF Start, Busy
  <2>2. CASE Stop
    <3>1. LetsGo(Flusher)
      BY <1>q, <2>2, LeaveLetsGo DEF Stop, Interrupt
    <3>2. pc[Stopper] \notin Busy
      BY <2>2 DEF Stop, PhaseInv, Busy
    <3>3. pc' = [pc EXCEPT ![Flusher] = "off", ![Stopper] = "ready"]
      BY <2>2 DEF Stop
    <3> QED
      BY <1>t, <3>1, <3>2, <3>3, LetsGoKeepsLock DEF Busy
  <2>3. CASE ProcessEnds
    <3>1. \A t \in Task : pc'[t] \notin Busy
      BY <1>t, <2>3 DEF ProcessEnds, Busy
    <3>2. holder' = NoTask /\ waiters' = <<>>
      BY <2>3 DEF ProcessEnds
    <3> QED
      BY <3>1, <3>2 DEF LockInv, QueueInv, Queued, Before, Busy
  <2>4. ASSUME NEW c \in Calls, EnqueueCall(c) PROVE LockInv'
    BY <2>4, AcquireKeepsLock DEF EnqueueCall, Busy
  <2>5. ASSUME NEW f \in Flushers, FlushTimeout(f) PROVE LockInv'
    <3>1. LetsGo(f)
      BY <1>q, <2>5, LeaveLetsGo DEF FlushTimeout, Interrupt
    <3> QED
      BY <1>t, <2>5, <3>1, LetsGoKeepsLock DEF FlushTimeout, Finish, Busy
  <2>6. ASSUME NEW f \in Flushers, FlushPersistedError(f) PROVE LockInv'
    BY <1>t, <2>6, StaysKeepsLock DEF FlushPersistedError, Finish, Busy
  <2> QED
    BY <1>4, <2>1, <2>2, <2>3, <2>4, <2>5, <2>6 DEF Environment
<1>5. CASE UNCHANGED vars
  BY <1>5, StaysKeepsLock DEF vars, lock
<1> QED
  BY <1>2, <1>3, <1>4, <1>5 DEF Next, Finished

LEMMA LockStarts == Init => LockInv
<1> SUFFICES ASSUME Init PROVE LockInv
  OBVIOUS
<1>1. \A t \in Task : pc[t] \notin Busy
  BY DEF Init, Busy
<1>2. holder = NoTask /\ waiters = <<>>
  BY DEF Init, LockInit
<1> QED
  BY <1>1, <1>2 DEF LockInv, QueueInv, Queued, Before, Busy

\* At most one task sends the buffer or writes it to disk, whatever is cancelled
\* or handed over meanwhile: payloads reach the server one at a time.
THEOREM OneSender ==
    Spec => [](\A t, u \in Task :
                   pc[t] \in {"send", "persist"} /\ pc[u] \in {"send", "persist"}
                       => t = u)
<1>1. Spec => []LockInv
  BY LockStarts, LockNext, CInvInit, CInvNext, TypeCorrect, PTL DEF Spec, CInv
<1>2. LockInv => \A t, u \in Task :
          pc[t] \in {"send", "persist"} /\ pc[u] \in {"send", "persist"} => t = u
  BY DEF LockInv
<1> QED
  BY <1>1, <1>2, PTL

-----------------------------------------------------------------------------
(* DeleteOnSuccess, in the first life of a process whose disk works and whose *)
(* flushes are not cut short.  A second life finds again the rows whose       *)
(* DELETE was rolled back at the end of the first.                            *)

Acknowledged(r) == \E b \in r.batches : b \in acked

\* A row of the transaction has one fate.
Parted ==
    /\ todo \cap deleted = {} /\ todo \cap failed = {}
    /\ deleted \cap failed = {}

DelInv ==
    /\ starts = 0 => phase = "down" /\ rows = {}
    /\ phase = "down" => \A t \in Task : pc[t] \in {"idle", "done", "off"}
    /\ Parted
    /\ phase = "up" /\ starts <= 1 =>
          \A r \in rows : Acknowledged(r) => r \in deleted

\* The steps but those of FLUSH_TIMEOUT.
Untimed ==
    \/ \E c \in Calls : CallStep(c) \/ EnqueueCall(c)
    \/ \E f \in Flushers : FlushStep(f) \/ FlushPersistedError(f)
    \/ Start \/ Stop \/ ProcessEnds
    \/ UNCHANGED vars

\* The process has started, and a task that does something keeps it so.
LEMMA LivesOn ==
    ASSUME TypeOK, DelInv, NEW t \in Task, pc[t] \notin {"idle", "done", "off"}
    PROVE  phase # "down" /\ starts # 0
  BY DEF DelInv

LEMMA DelNext ==
    ASSUME TypeOK, TInv, DelInv, "disk" \notin Faults, Untimed
    PROVE  DelInv'
<1> USE FlushersAreTasks DEF Goto
<1>t. /\ pc \in [Task -> CallPC \cup FlusherPC] /\ payload \in [Task -> SUBSET Batch]
      /\ Flushers = {Flusher, Stopper} /\ starts \in Nat
  BY BoundAssumption DEF TypeOK, Flushers
<1>q. Unique /\ Settled /\ HeldInv /\ PhaseInv
  BY DEF TInv, UInv, CInv
<1>d. Parted
  BY DEF DelInv
<1> DEFINE Clear == phase = "up" /\ starts <= 1
           Stands == \A r \in rows : Acknowledged(r) => r \in deleted
<1>c. Clear => Stands
  BY DEF DelInv
<1> HIDE DEF Stands
\* A task that works does so while the process lives.
<1>1. ASSUME NEW t \in Task, pc[t] \notin {"idle", "done", "off"},
             UNCHANGED starts, phase' \in {phase, "closed"},
             Parted', Clear => Stands'
      PROVE  DelInv'
  BY <1>1, LivesOn DEF DelInv, Stands
<1>2. ASSUME UNCHANGED <<rows, acked, deleted>> PROVE Stands' <=> Stands
  BY <1>2 DEF Stands, Acknowledged
<1>3. ASSUME NEW t \in Task, Sends(t) \/ Persists(t) PROVE DelInv'
  <2>1. /\ pc[t] \notin {"idle", "done", "off"} /\ UNCHANGED <<starts, phase>>
        /\ UNCHANGED txn
    BY <1>3 DEF Sends, SendOk, SendRetries, SendFails, Persists, PersistOk,
                PersistFails
  <2>2. Stands => Stands'
    <3>1. CASE SendRetries(t) \/ SendFails(t) \/ PersistFails(t)
      BY <1>2, <3>1 DEF SendRetries, SendFails, PersistFails, table, txn
    <3>2. CASE SendOk(t)
      <4>1. \A r \in rows : \A b \in payload[t] : b \notin r.batches
        BY <1>q DEF Unique
      <4>2. /\ UNCHANGED <<rows, deleted>>
            /\ \A b : b \in acked' => b \in acked \/ b \in payload[t]
        BY <3>2 DEF SendOk, table, txn
      <4> QED
        BY <4>1, <4>2 DEF Stands, Acknowledged
    <3>3. CASE PersistOk(t)
      <4> DEFINE new == [id |-> nextId, batches |-> payload[t], attempts |-> 0]
      <4>1. /\ rows' = rows \cup {new} /\ new.batches = payload[t]
            /\ UNCHANGED <<acked, deleted>>
        BY <3>3 DEF PersistOk, txn
      <4>2. \A b \in payload[t] : b \notin acked
        BY <1>q DEF Settled
      <4> HIDE DEF new
      <4> QED
        BY <4>1, <4>2 DEF Stands, Acknowledged
    <3> QED
      BY <1>3, <3>1, <3>2, <3>3 DEF Sends, Persists
  <2> QED
    BY <1>1, <1>c, <1>d, <2>1, <2>2 DEF txn, Parted
<1>4. ASSUME NEW c \in Calls, CallStep(c) PROVE DelInv'
  <2>1. CASE EnqueueBuffers(c) \/ EnqueueFlushes(c)
    <3>1. /\ pc[c] \notin {"idle", "done", "off"} /\ UNCHANGED <<starts, phase>>
          /\ UNCHANGED txn /\ UNCHANGED <<rows, acked, deleted>>
      BY <2>1 DEF EnqueueBuffers, EnqueueFlushes, table, txn
    <3> QED
      BY <1>1, <1>2, <1>c, <1>d, <3>1 DEF txn, Parted
  <2> QED
    BY <1>3, <1>4, <2>1 DEF CallStep
<1>5. ASSUME NEW f \in Flushers, FlushStep(f) PROVE DelInv'
  <2>1. CASE FlushBegin(f) \/ FlushTakesBuffer(f) \/ FlushFindsNothing(f)
    <3>1. /\ pc[f] \notin {"idle", "done", "off"} /\ UNCHANGED <<starts, phase>>
          /\ UNCHANGED txn /\ UNCHANGED <<rows, acked, deleted>>
      BY <2>1 DEF FlushBegin, FlushTakesBuffer, FlushFindsNothing, table, txn
    <3> QED
      BY <1>1, <1>2, <1>c, <1>d, <3>1 DEF txn, Parted
  <2>2. CASE Select(f)
    <3>1. deleted = {} /\ failed = {}
      BY <1>q, <1>t, <2>2 DEF Select, PhaseInv, HeldInv, Held
    <3>2. /\ pc[f] \notin {"idle", "done", "off"} /\ UNCHANGED <<starts, phase>>
          /\ UNCHANGED <<rows, acked, deleted, failed>>
      BY <2>2 DEF Select, table, txn
    <3> QED
      BY <1>1, <1>2, <1>c, <3>1, <3>2 DEF Parted
  <2>3. ASSUME NEW r \in todo, RowOk(f, r) PROVE DelInv'
    <3>1. \A s \in rows : s # r => \A b \in r.batches : b \notin s.batches
      BY <1>q DEF Unique, HeldInv, Held
    <3>2. /\ \A b : b \in acked' => b \in acked \/ b \in r.batches
          /\ deleted' = deleted \cup {r} /\ todo' = todo \ {r} /\ failed' = failed
          /\ UNCHANGED <<starts, phase, rows>> /\ pc[f] = "row"
      BY <2>3 DEF RowOk, table
    <3>3. Stands => Stands'
      BY <3>1, <3>2 DEF Stands, Acknowledged
    <3> QED
      BY <1>1, <1>c, <1>d, <3>2, <3>3 DEF Parted
  <2>4. ASSUME NEW r \in todo, RowRetries(f, r) \/ RowFails(f, r) PROVE DelInv'
    <3>1. /\ UNCHANGED <<starts, phase, rows, acked, deleted>> /\ pc[f] = "row"
          /\ \/ todo' = todo /\ failed' = failed
             \/ todo' = todo \ {r} /\ failed' = failed \cup {r}
      BY <2>4 DEF RowRetries, RowFails, table, txn
    <3> QED
      BY <1>1, <1>2, <1>c, <1>d, <3>1 DEF Parted
  <2>5. CASE Commit(f)
    <3>1. \A r \in failed : r \in rows /\ r \notin deleted
      BY <1>q, <1>d DEF HeldInv, Held, Parted
    <3>2. /\ rows' = Committed /\ deleted' = {} /\ failed' = {} /\ pc[f] = "row"
          /\ UNCHANGED <<starts, phase, acked>>
      BY <2>5 DEF Commit
    <3>3. Stands => Stands'
      BY <3>1, <3>2 DEF Stands, Acknowledged, Committed, Tried
    <3> QED
      BY <1>1, <1>c, <1>d, <3>2, <3>3 DEF Parted
  <2>6. CASE Clean(f)
    <3>1. /\ rows' \subseteq rows /\ UNCHANGED <<acked, starts>> /\ UNCHANGED txn
          /\ phase' \in {phase, "closed"} /\ pc[f] = "clean"
      BY <2>6 DEF Clean, Finish
    <3>2. Stands => Stands'
      BY <3>1 DEF Stands, Acknowledged, txn
    <3> QED
      BY <1>1, <1>c, <1>d, <3>1, <3>2 DEF txn, Parted
  <2> QED
    BY <1>3, <1>5, <2>1, <2>2, <2>3, <2>4, <2>5, <2>6 DEF FlushStep, RowStep
<1>6. ASSUME NEW c \in Calls, EnqueueCall(c) PROVE DelInv'
  <2>1. /\ phase # "down" /\ UNCHANGED <<phase, starts, rows, acked>> /\ UNCHANGED txn
    BY <1>6 DEF EnqueueCall, table
  <2> QED
    BY <2>1 DEF DelInv, Acknowledged, txn, Parted
<1>7. CASE Start
  <2>1. /\ phase' = "up" /\ starts' = starts + 1 /\ phase = "down"
        /\ UNCHANGED <<rows, acked>> /\ UNCHANGED txn
    BY <1>7 DEF Start, table
  <2>2. starts' <= 1 => rows = {}
    BY <1>t, <2>1 DEF DelInv
  <2> QED
    BY <1>t, <1>d, <2>1, <2>2 DEF DelInv, txn, Parted
<1>8. CASE Stop \/ ProcessEnds
  <2>1. starts # 0 /\ UNCHANGED starts
    BY <1>8 DEF Stop, ProcessEnds, DelInv
  <2>2. phase' # "up" /\ Parted'
    BY <1>8 DEF Stop, ProcessEnds, Interrupt, Parted
  <2>3. phase' = "down" => \A t \in Task : pc'[t] \in {"idle", "done", "off"}
    BY <1>8 DEF Stop, ProcessEnds
  <2> QED
    BY <2>1, <2>2, <2>3 DEF DelInv
<1>9. CASE UNCHANGED vars
  BY <1>9 DEF vars, table, txn, DelInv, Acknowledged, Parted
<1>10. ASSUME NEW f \in Flushers, FlushPersistedError(f) PROVE DelInv'
  BY <1>10 DEF FlushPersistedError
<1> QED
  BY <1>4, <1>5, <1>6, <1>7, <1>8, <1>9, <1>10 DEF Untimed

LEMMA DelInit == Init => DelInv
  BY DEF Init, DelInv, Parted

\* A row whose payload was acknowledged has its DELETE executed, or is gone
\* (DeleteOnSuccess): with a disk that works and no flush cut short, in the first
\* life of the process.
THEOREM SentIsDeleted ==
    ASSUME "disk" \notin Faults, "slow" \notin Faults
    PROVE  Spec => [](starts <= 1 => DeleteOnSuccess)
<1>1. TypeOK /\ TInv /\ DelInv /\ [Next]_vars => DelInv'
  <2> SUFFICES ASSUME TypeOK, TInv, DelInv, [Next]_vars PROVE DelInv'
    OBVIOUS
  <2>1. Untimed
    BY DEF Next, Environment, FlushTimeout, Finished, Untimed
  <2> QED
    BY <2>1, DelNext
<1>2. DelInv => (starts <= 1 => DeleteOnSuccess)
  BY DEF DelInv, DeleteOnSuccess, Acknowledged
<1> QED
  BY <1>1, <1>2, DelInit, TInvHolds, PTL DEF Spec

-----------------------------------------------------------------------------
(* SyslogTransport: what is proved of a step of the metric transport is used  *)
(* for the steps it shares.                                                  *)

\* Every step begins a call or is one of the metric transport's; no flush is cut
\* short by a timeout.
LEMMA SyslogCases ==
    ASSUME [SyslogNext]_svars
    PROVE  \/ \E c \in Calls : EnqueueEvent(c)
           \/ /\ UNCHANGED late
              /\ \/ \E c \in Calls : CallStep(c)
                 \/ \E f \in Flushers : FlushStep(f) \/ FlushPersistedError(f)
                 \/ Start \/ Stop \/ ProcessEnds
                 \/ UNCHANGED vars
<1>1. ASSUME NEW c \in Calls, EnqueueStep(c) PROVE CallStep(c)
  BY <1>1 DEF EnqueueStep, EnqueueAppends, SendWithRetry, PersistToDisk, CallStep,
              Sends, Persists
<1>2. ASSUME NEW f \in Flushers, FlusherStep(f)
      PROVE  FlushStep(f) \/ FlushPersistedError(f)
  BY <1>2 DEF FlusherStep, PeriodicFlush, FinalFlush, FlushBuffer, SendWithRetry,
              PersistToDisk, FlushPersisted, FlushStep, Sends, Persists
<1>3. CASE UNCHANGED svars
  BY <1>3 DEF svars
<1> QED
  BY <1>1, <1>2, <1>3 DEF SyslogNext, StartTransport, StopTransport, Finished

LEMMA SyslogSteps ==
    ASSUME [SyslogNext]_svars
    PROVE  (\E c \in Calls : EnqueueEvent(c)) \/ ([Next]_vars /\ UNCHANGED late)
  BY SyslogCases DEF Next, Environment

\* A call that begins, at whatever time, keeps what the metric transport keeps.
LEMMA EventStep ==
    ASSUME TypeOK, TInv, OldestHeld, NEW c \in Calls, EnqueueEvent(c)
    PROVE  TypeOK' /\ TInv' /\ OldestHeld' /\ Effect
<1> USE FlushersAreTasks DEF Goto
<1>t. pc \in [Task -> CallPC \cup FlusherPC] /\ payload \in [Task -> SUBSET Batch]
  BY DEF TypeOK
<1>1. TypeOK'
  <2>1. holder' \in Task \cup {NoTask} /\ waiters' \in Seq(Task)
    BY LockTypes DEF EnqueueEvent, TypeOK
  <2>2. payload' \in [Task -> SUBSET Batch]
    BY <1>t, BatchAssumption DEF EnqueueEvent
  <2> QED
    BY <2>1, <2>2 DEF EnqueueEvent, TypeOK, table, txn, CallPC, Flushers
<1>2. Accepts(c) /\ IdleStays
  <2>1. payload[c] = {}
    BY DEF EnqueueEvent, TInv, CInv, PayloadInv
  <2> QED
    BY <1>t, <2>1 DEF EnqueueEvent, Accepts, IdleStays, table
<1>3. Effect
  BY <1>2 DEF Effect
<1>4. HeldInv' /\ OldestHeld'
  <2>1. UNCHANGED <<rows, txn>>
    BY DEF EnqueueEvent, table
  <2>2. pc'[Flusher] = pc[Flusher] /\ pc'[Stopper] = pc[Stopper]
    BY <1>t DEF EnqueueEvent
  <2> QED
    BY <2>1, <2>2 DEF TInv, HeldInv, OldestHeld, Held, Sendable, txn
<1>5. UInv'
  BY <1>2, <1>3, UInvNext DEF TInv, HeldInv, Held
<1>6. PhaseInv' /\ PayloadInv' /\ DeletedInv'
  BY <1>t DEF EnqueueEvent, TInv, CInv, PhaseInv, PayloadInv, DeletedInv, txn
<1>7. KeptInv'
  <2>1. ASSUME NEW b, Kept(b) PROVE Kept(b)'
    BY <1>t, <1>2, <2>1 DEF Accepts, Kept
  <2>2. \A b \in BatchesOf[c] : Kept(b)'
    BY <1>t, <1>2 DEF Accepts, Kept
  <2> QED
    BY <1>t, <2>1, <2>2 DEF EnqueueEvent, TInv, CInv, KeptInv
<1> QED
  BY <1>1, <1>3, <1>4, <1>5, <1>6, <1>7 DEF TInv, CInv

EInv == TypeOK /\ TInv /\ OldestHeld

LEMMA EInvInit == SyslogInit => EInv
  BY TypeInit, TInvInit DEF SyslogInit, EInv, Init, OldestHeld, Held

LEMMA EInvNext == EInv /\ [SyslogNext]_svars => EInv' /\ Effect
<1> SUFFICES ASSUME EInv, [SyslogNext]_svars PROVE EInv' /\ Effect
  OBVIOUS
<1>1. ASSUME NEW c \in Calls, EnqueueEvent(c) PROVE EInv' /\ Effect
  BY <1>1, EventStep DEF EInv
<1>2. CASE [Next]_vars
  BY <1>2, TypeNext, TInvNext, OldestHeldNext DEF EInv
<1> QED
  BY <1>1, <1>2, SyslogSteps

LEMMA EInvHolds == SyslogSpec => []EInv
  BY EInvInit, EInvNext, PTL DEF SyslogSpec

\* As for the metric transport, no event vanishes unnoticed (Conservation), none
\* is held twice (OneCopy), and the oldest rows are the most tried.
THEOREM EventsAreKept ==
    SyslogSpec => [](TypeOK /\ Conservation /\ OneCopy /\ OldestTriedMost)
<1>1. EInv => TypeOK /\ Conservation /\ OneCopy
  BY KeptIsConserved, UInvIsOneCopy DEF EInv, TInv, CInv
<1>2. SyslogInit => OldestTriedMost
  BY DEF SyslogInit, Init, OldestTriedMost
<1>3. EInv /\ OldestTriedMost /\ [SyslogNext]_svars => OldestTriedMost'
  BY EInvNext, OldestTriedNext DEF EInv
<1> QED
  BY <1>1, <1>2, <1>3, EInvHolds, PTL DEF SyslogSpec

\* The syslog transport, too, implements StoreAndForward (StoresAndForwards).
THEOREM SyslogRefines == SyslogSpec => StoresAndForwards
<1>1. EInv /\ [SyslogNext]_svars => [Promise!Next]_Standing
  BY EInvNext, EffectImplements DEF EInv
<1>2. SyslogInit => Promise!Init
  BY InitImplements DEF SyslogInit
<1> QED
  BY <1>1, <1>2, EInvHolds, PTL DEF SyslogSpec, StoresAndForwards, Promise!Spec

-----------------------------------------------------------------------------
(* OnlyLateEventsRemain.  The final flush of stop() waits for the lock behind *)
(* the calls that came before it; the calls behind it began after stop() did. *)

\* The call comes to the lock after the final flush.
Behind(c) == holder = Stopper \/ Before(Stopper, c)

\* The final flush has emptied the buffer.
Passed == phase = "closed" \/ pc[Stopper] \in {"select", "row", "clean"}

LateInv ==
    /\ \A c \in Calls : Behind(c) \/ Passed => payload[c] \subseteq late
    /\ Passed => buffer \subseteq late
    /\ pc[Stopper] \in {"send", "persist"} => buffer = {}

SInv == EInv /\ LockInv

\* Until the final flush asks for the lock, nothing is behind it.
NotYet == pc[Stopper] \in {"off", "ready"} /\ phase # "closed"

LEMMA NothingBehindYet == LockInv /\ NotYet => LateInv
<1> SUFFICES ASSUME LockInv, NotYet PROVE LateInv
  OBVIOUS
<1> USE DEF NotYet
<1>1. Stopper # holder /\ ~ Queued(Stopper)
  BY FlushersAreTasks, TaskAssumption DEF LockInv, Busy
<1>2. \A c \in Calls : ~ Behind(c)
  BY <1>1 DEF Behind, Before, Queued
<1> QED
  BY <1>2 DEF LateInv, Passed

LEMMA NothingBehindNext == LockInv' /\ NotYet' => LateInv'
  BY NothingBehindYet, PTL

\* A call that holds events has the lock or waits for it.
LEMMA HoldersQueue ==
    ASSUME TypeOK, PayloadInv, LockInv, NEW c \in Calls, payload[c] # {}
    PROVE  c = holder \/ Queued(c)
  BY FlushersAreTasks DEF PayloadInv, LockInv

\* When a call hands the lock over to the final flush, the calls left in the
\* queue were behind it.
LEMMA HandsOverInOrder ==
    ASSUME TypeOK, PayloadInv, LockInv, LateInv, NEW c \in Calls, LetsGo(c),
           NEW d \in Calls, d # c, Behind(d)'
    PROVE  payload[d] \subseteq late
<1> USE FlushersAreTasks
<1>1. CASE Before(Stopper, d)' \/ holder = Stopper
  BY <1>1 DEF LetsGo, LateInv, Behind
<1>2. CASE holder' = Stopper /\ holder # Stopper /\ payload[d] # {}
  <2>1. Queued(d)'
    BY <1>2, HoldersQueue DEF LetsGo
  <2>2. Before(Stopper, d)
    BY <1>2, <2>1, TaskAssumption DEF LetsGo
  <2> QED
    BY <2>2 DEF LateInv, Behind
<1> QED
  BY <1>1, <1>2 DEF Behind

\* Once every call that holds events is late, it is enough to look at the buffer.
LEMMA AllLate ==
    ASSUME \A c \in Calls : payload'[c] \subseteq late',
           \/ buffer' = {}
           \/ buffer' \subseteq late' /\ pc'[Stopper] \notin {"send", "persist"}
    PROVE  LateInv'
  BY DEF LateInv

\* A call that begins when stop() has begun is late itself.
LEMMA EventLate ==
    ASSUME SInv, LateInv, NEW c \in Calls, EnqueueEvent(c)
    PROVE  LateInv'
<1> USE FlushersAreTasks DEF SInv, EInv
<1>t. /\ pc \in [Task -> CallPC \cup FlusherPC] /\ payload \in [Task -> SUBSET Batch]
      /\ QueueInv /\ PhaseInv
  BY DEF TypeOK, LockInv, TInv, CInv
<1>1. LockInv'
  BY AcquireKeepsLock DEF EnqueueEvent, Busy
<1>2. pc'[Stopper] = pc[Stopper] /\ UNCHANGED <<phase, buffer>> /\ late \subseteq late'
  BY <1>t DEF EnqueueEvent, Goto
<1>3. CASE phase = "up"
  BY <1>t, <1>1, <1>2, <1>3, NothingBehindNext DEF PhaseInv, NotYet
<1>4. CASE phase # "up"
  <2>1. /\ holder' = Stopper => holder = Stopper
        /\ \A d \in Calls : Before(Stopper, d)' => Before(Stopper, d) \/ d = c
    <3>1. c # holder /\ ~ Queued(c)
      BY TaskAssumption DEF EnqueueEvent, LockInv, Busy
    <3> QED
      BY <1>t, <3>1, AcquireQueues DEF EnqueueEvent
  <2>2. \A d \in Calls : payload'[d] = IF d = c THEN BatchesOf[c] ELSE payload[d]
    BY <1>t DEF EnqueueEvent
  <2>3. BatchesOf[c] \subseteq late'
    BY <1>4 DEF EnqueueEvent
  <2>4. ASSUME NEW d \in Calls, Behind(d)' \/ Passed' PROVE payload'[d] \subseteq late'
    BY <1>2, <2>1, <2>2, <2>3, <2>4 DEF LateInv, Behind, Passed
  <2> QED
    BY <1>2, <2>4 DEF LateInv, Passed
<1> QED
  BY <1>3, <1>4

\* A call that goes on brings nothing to the buffer that was not behind the final
\* flush, once that flush has taken the rest.
LEMMA CallLate ==
    ASSUME SInv, LateInv, NEW c \in Calls, CallStep(c), UNCHANGED late
    PROVE  LateInv'
<1> USE FlushersAreTasks DEF SInv, EInv
<1>t. /\ pc \in [Task -> CallPC \cup FlusherPC] /\ payload \in [Task -> SUBSET Batch]
      /\ QueueInv /\ PayloadInv /\ holder = c
  BY DEF TypeOK, LockInv, TInv, CInv, CallStep, EnqueueBuffers, EnqueueFlushes,
         Sends, SendOk, SendRetries, SendFails, Persists, PersistOk, PersistFails
<1>1. /\ pc'[Stopper] = pc[Stopper] /\ UNCHANGED phase
      /\ pc[Stopper] \notin {"send", "persist"}
  BY <1>t DEF LockInv, CallStep, EnqueueBuffers, EnqueueFlushes, Sends, SendOk,
              SendRetries, SendFails, Persists, PersistOk, PersistFails, Goto
<1>2. ASSUME LetsGo(c), payload' = [payload EXCEPT ![c] = {}],
             buffer' \subseteq buffer \cup payload[c]
      PROVE  LateInv'
  <2>1. ASSUME NEW d \in Calls, Behind(d)' \/ Passed' PROVE payload'[d] \subseteq late'
    <3>1. CASE d = c
      BY <1>t, <1>2, <3>1
    <3>2. CASE d # c
      <4>1. payload'[d] = payload[d]
        BY <1>t, <1>2, <3>2
      <4>2. payload[d] \subseteq late
        BY <1>t, <1>1, <1>2, <2>1, <3>2, HandsOverInOrder DEF LateInv, Passed
      <4> QED
        BY <4>1, <4>2
    <3> QED
      BY <3>1, <3>2
  <2>2. Passed' => buffer' \subseteq late'
    BY <1>1, <1>2 DEF LateInv, Passed
  <2> QED
    BY <1>1, <2>1, <2>2 DEF LateInv
<1>3. CASE EnqueueBuffers(c)
  BY <1>t, <1>2, <1>3, ReleaseHandsOver DEF EnqueueBuffers
<1>4. CASE SendOk(c) \/ PersistOk(c) \/ PersistFails(c)
  BY <1>t, <1>2, <1>4, ReleaseHandsOver DEF SendOk, PersistOk, PersistFails
<1>5. CASE EnqueueFlushes(c)
  <2>1. ~ Behind(c)
    BY <1>t DEF Behind, Before, QueueInv, Queued
  <2>2. \A d \in Calls : Behind(d)' <=> Behind(d)
    BY <1>5 DEF EnqueueFlushes, lock, Behind, Before
  <2>3. /\ buffer' = {}
        /\ \A d \in Calls : d # c => payload'[d] = payload[d]
        /\ payload'[c] = payload[c] \cup buffer
    BY <1>t, <1>5 DEF EnqueueFlushes, TakeBuffer
  <2> QED
    BY <1>1, <2>1, <2>2, <2>3 DEF LateInv, Passed
<1>6. CASE SendRetries(c) \/ SendFails(c)
  <2>1. \A d \in Calls : Behind(d)' <=> Behind(d)
    BY <1>6 DEF SendRetries, SendFails, lock, Behind, Before
  <2>2. UNCHANGED <<payload, buffer>>
    BY <1>6 DEF SendRetries, SendFails
  <2> QED
    BY <1>1, <2>1, <2>2 DEF LateInv, Passed
<1> QED
  BY <1>3, <1>4, <1>5, <1>6 DEF CallStep, Sends, Persists

\* The final flush goes on: what it does not take is late.
LEMMA FinalFlushLate ==
    ASSUME SInv, LateInv, UNCHANGED late,
           FlushStep(Stopper) \/ FlushPersistedError(Stopper)
    PROVE  LateInv'
<1> USE FlushersAreTasks DEF SInv, EInv, Goto
<1>t. /\ pc \in [Task -> CallPC \cup FlusherPC] /\ payload \in [Task -> SUBSET Batch]
      /\ QueueInv /\ PayloadInv /\ Stopper # NoTask
  BY TaskAssumption DEF TypeOK, LockInv, TInv, CInv
<1>1. CASE FlushBegin(Stopper)
  <2>1. Stopper # holder /\ ~ Queued(Stopper) /\ UNCHANGED <<payload, buffer, phase>>
    BY <1>1, <1>t DEF FlushBegin, LockInv, Busy
  <2>2. \A d \in Calls : ~ Before(Stopper, d)'
    <3>1. \A d \in Calls : Before(Stopper, d)' => Before(Stopper, d)
      BY <1>1, <1>t, <2>1, AcquireQueues DEF FlushBegin
    <3> QED
      BY <2>1, <3>1 DEF Before, Queued
  <2>3. ASSUME NEW d \in Calls, holder' = Stopper PROVE payload[d] = {}
    <3>1. holder = NoTask /\ waiters = <<>>
      BY <1>1, <1>t, <2>1, <2>3 DEF FlushBegin, Acquire, QueueInv
    <3>2. d # holder /\ ~ Queued(d)
      BY <3>1, TaskAssumption DEF Queued
    <3> QED
      BY <1>t, <3>2, HoldersQueue
  <2>4. pc'[Stopper] = "lock" /\ phase # "closed"
    BY <1>1, <1>t DEF FlushBegin, TInv, CInv, PhaseInv
  <2> QED
    BY <2>1, <2>2, <2>3, <2>4 DEF LateInv, Behind, Passed
<1>2. CASE holder = Stopper
  <2>1. \A c \in Calls : payload[c] \subseteq late
    BY <1>2 DEF LateInv, Behind
  <2>2. CASE FlushTakesBuffer(Stopper)
    BY <1>t, <2>1, <2>2, AllLate DEF FlushTakesBuffer, TakeBuffer
  <2>3. CASE FlushFindsNothing(Stopper)
    BY <1>t, <2>1, <2>3, AllLate DEF FlushFindsNothing
  <2>4. CASE Sends(Stopper) \/ Persists(Stopper)
    <3>1. buffer' = {}
      BY <2>4 DEF LateInv, Sends, SendOk, SendRetries, SendFails, Persists, PersistOk,
                  PersistFails
    <3>2. \A c \in Calls : payload'[c] = payload[c]
      BY <1>t, <2>4 DEF Sends, SendOk, SendRetries, SendFails, Persists, PersistOk,
                        PersistFails
    <3> QED
      BY <2>1, <3>1, <3>2, AllLate
  <2>5. pc[Stopper] \in Busy
    BY <1>t, <1>2 DEF LockInv
  <2> QED
    BY <1>1, <2>2, <2>3, <2>4, <2>5
       DEF FlushStep, Select, RowStep, RowOk, RowRetries, RowFails, Commit, Clean,
           FlushPersistedError, Busy
<1>3. CASE Passed
  <2>1. UNCHANGED <<payload, buffer>> /\ pc'[Stopper] \notin {"send", "persist"}
    BY <1>3, <1>t
       DEF Passed, TInv, CInv, PhaseInv, FlushStep, FlushBegin, FlushTakesBuffer,
           FlushFindsNothing, Sends, SendOk, SendRetries, SendFails, Persists,
           PersistOk, PersistFails, Select, RowStep, RowOk, RowRetries, RowFails,
           Commit, Clean, Finish, FlushPersistedError
  <2> QED
    BY <1>3, <2>1, AllLate DEF LateInv
<1>4. FlushBegin(Stopper) \/ holder = Stopper \/ Passed
  BY DEF Passed, LockInv, FlushStep, FlushTakesBuffer, FlushFindsNothing, Sends,
         SendOk, SendRetries, SendFails, Persists, PersistOk, PersistFails, Select,
         RowStep, RowOk, RowRetries, RowFails, Commit, Clean, FlushPersistedError
<1> QED
  BY <1>1, <1>2, <1>3, <1>4

LEMMA LateNext == SInv /\ LateInv /\ [SyslogNext]_svars => SInv' /\ LateInv'
<1> SUFFICES ASSUME SInv, LateInv, [SyslogNext]_svars PROVE SInv' /\ LateInv'
  OBVIOUS
<1> USE FlushersAreTasks DEF SInv
<1>t. pc \in [Task -> CallPC \cup FlusherPC] /\ PhaseInv /\ LockInv
  BY DEF EInv, TypeOK, TInv, CInv
<1>1. EInv' /\ PhaseInv'
  BY EInvNext DEF EInv, TInv, CInv
<1>2. LockInv'
  <2>1. ASSUME NEW c \in Calls, EnqueueEvent(c) PROVE LockInv'
    BY <2>1, AcquireKeepsLock DEF EInv, EnqueueEvent, Busy
  <2> QED
    BY <2>1, SyslogSteps, LockNext DEF EInv, TInv, CInv
<1>3. CASE phase' \in {"up", "down"}
  BY <1>1, <1>2, <1>3, NothingBehindNext DEF PhaseInv, NotYet
<1>4. ASSUME NEW f \in Flushers, FlushStep(f) \/ FlushPersistedError(f),
             UNCHANGED late
      PROVE  LateInv'
  <2>1. CASE f = Stopper
    BY <1>4, <2>1, FinalFlushLate
  <2>2. CASE f = Flusher
    <3>1. phase = "up" /\ phase' = "up"
      BY <1>4, <2>2, <1>t
         DEF PhaseInv, FlushStep, FlushBegin, FlushTakesBuffer, FlushFindsNothing,
             Sends, SendOk, SendRetries, SendFails, Persists, PersistOk, PersistFails,
             Select, RowStep, RowOk, RowRetries, RowFails, Commit, Clean, Finish,
             FlushPersistedError
    <3> QED
      BY <1>3, <3>1
  <2> QED
    BY <2>1, <2>2 DEF Flushers
<1>5. CASE Start \/ ProcessEnds
  BY <1>3, <1>5 DEF Start, ProcessEnds
<1>6. ASSUME Stop PROVE LateInv'
  <2>1. pc'[Stopper] = "ready" /\ phase' = "stopping"
    BY <1>t, <1>6 DEF Stop
  <2> QED
    BY <1>2, <2>1, NothingBehindNext DEF NotYet
<1>7. ASSUME UNCHANGED vars, UNCHANGED late PROVE LateInv'
  BY <1>7 DEF vars, lock, LateInv, Behind, Before, Passed
<1> QED
  BY <1>1, <1>2, <1>4, <1>5, <1>6, <1>7, SyslogCases, EventLate, CallLate

\* stop() leaves nothing in memory whose enqueue() had begun before it
\* (OnlyLateEventsRemain).
THEOREM StopLeavesOnlyLate == SyslogSpec => []OnlyLateEventsRemain
<1>1. SyslogInit => SInv /\ LateInv
  <2> SUFFICES ASSUME SyslogInit PROVE SInv /\ LateInv
    OBVIOUS
  <2>1. EInv /\ LockInv
    BY EInvInit, LockStarts DEF SyslogInit
  <2>2. NotYet
    BY FlushersAreTasks DEF SyslogInit, Init, NotYet
  <2> QED
    BY <2>1, <2>2, NothingBehindYet DEF SInv
<1>2. SInv /\ LateInv => OnlyLateEventsRemain
  <2> SUFFICES ASSUME SInv, LateInv, phase = "closed" PROVE Memory \subseteq late
    BY DEF OnlyLateEventsRemain
  <2>1. payload[Flusher] = {} /\ payload[Stopper] = {}
    BY FlushersAreTasks DEF SInv, EInv, TInv, CInv, PhaseInv, PayloadInv
  <2>2. buffer \subseteq late /\ \A c \in Calls : payload[c] \subseteq late
    BY DEF LateInv, Passed
  <2> QED
    BY <2>1, <2>2 DEF Memory, Task, Flushers
<1> QED
  BY <1>1, <1>2, LateNext, PTL DEF SyslogSpec

-----------------------------------------------------------------------------
(* DeleteOnSuccess.  No flush of events is cut short, so a disk that works is *)
(* all it takes.                                                             *)

\* An event that was sent has its row's DELETE executed, or the row is gone
\* (DeleteOnSuccess), in the first life of the process.
THEOREM SentEventIsDeleted ==
    ASSUME "disk" \notin Faults
    PROVE  SyslogSpec => [](starts <= 1 => DeleteOnSuccess)
<1>1. EInv /\ DelInv /\ [SyslogNext]_svars => DelInv'
  <2> SUFFICES ASSUME EInv, DelInv, [SyslogNext]_svars PROVE DelInv'
    OBVIOUS
  <2>1. CASE Untimed
    BY <2>1, DelNext DEF EInv
  <2>2. ASSUME NEW c \in Calls, EnqueueEvent(c) PROVE DelInv'
    <3>1. /\ phase # "down" /\ UNCHANGED <<phase, starts, rows, acked>>
          /\ UNCHANGED txn
      BY <2>2 DEF EnqueueEvent, table
    <3> QED
      BY <3>1 DEF DelInv, Acknowledged, Parted, txn
  <2> QED
    BY <2>1, <2>2, SyslogCases DEF Untimed
<1>2. DelInv => (starts <= 1 => DeleteOnSuccess)
  BY DEF DelInv, DeleteOnSuccess, Acknowledged
<1>3. SyslogInit => DelInv
  BY DelInit DEF SyslogInit
<1> QED
  BY <1>1, <1>2, <1>3, EInvHolds, PTL DEF SyslogSpec

=============================================================================
