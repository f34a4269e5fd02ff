----------------------------- MODULE AsyncioLock -----------------------------
(***************************************************************************)
(* asyncio.Lock, which the transports and the remote log handler put       *)
(* around their buffers: not reentrant, first come first served.  Release  *)
(* hands the lock to the task that has waited longest, and a cancelled     *)
(* task gives up the lock or its place in the queue.                       *)
(***************************************************************************)
EXTENDS Naturals, Sequences, SequencesExt

CONSTANT NoTask     \* holder of a free lock

VARIABLES
    holder,         \* the task that holds the lock, or NoTask
    waiters         \* the tasks queued for it, oldest first

lock == <<holder, waiters>>

LockInit == holder = NoTask /\ waiters = <<>>

Acquire(t) ==
    \/ /\ holder = NoTask
       /\ holder' = t
       /\ UNCHANGED waiters
    \/ /\ holder # NoTask
       /\ waiters' = Append(waiters, t)
       /\ UNCHANGED holder

Release ==
    \/ /\ waiters = <<>>
       /\ holder' = NoTask
       /\ UNCHANGED waiters
    \/ /\ waiters # <<>>
       /\ holder' = Head(waiters)
       /\ waiters' = Tail(waiters)

\* Mutant of LeaveLock: a cancelled task never lets go of the lock.
KeepLock(t) == t # NoTask /\ UNCHANGED lock

LeaveLock(t) ==
    \/ holder = t /\ Release
    \/ /\ holder # t
       /\ \E i \in 1 .. Len(waiters) :
             waiters[i] = t /\ waiters' = RemoveAt(waiters, i)
       /\ UNCHANGED holder
    \/ /\ holder # t
       /\ \A i \in 1 .. Len(waiters) : waiters[i] # t
       /\ UNCHANGED lock

=============================================================================
