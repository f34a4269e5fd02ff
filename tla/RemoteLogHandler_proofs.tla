----------------------- MODULE RemoteLogHandler_proofs -----------------------
(***************************************************************************)
(* Theorems about RemoteLogHandler, for any number of calls of add_log()   *)
(* and any sizes of batch and buffer.                                      *)
(***************************************************************************)
EXTENDS RemoteLogHandler, SequenceTheorems, FiniteSetTheorems, TLAPS

LEMMA FlushersAreTasks ==
    /\ Loop \in Task /\ Stopper \in Task /\ Loop # Stopper
    /\ Loop \notin Calls /\ Stopper \notin Calls
    /\ Calls \subseteq Task /\ Flushers \subseteq Task
    /\ Flushers = {Loop, Stopper} /\ NoTask \notin Task
  BY LogTaskAssumption DEF Task, Flushers

\* A lock handed over, or left by a cancelled task, keeps its type.
LEMMA LockTypes ==
    ASSUME holder \in Task \cup {NoTask}, waiters \in Seq(Task)
    PROVE  /\ Release => holder' \in Task \cup {NoTask} /\ waiters' \in Seq(Task)
           /\ \A t \in Task : Acquire(t) \/ LeaveLock(t)
                 => holder' \in Task \cup {NoTask} /\ waiters' \in Seq(Task)
<1>1. Release => holder' \in Task \cup {NoTask} /\ waiters' \in Seq(Task)
  BY HeadTailProperties DEF Release
<1>2. ASSUME NEW t \in Task, Acquire(t)
      PROVE  holder' \in Task \cup {NoTask} /\ waiters' \in Seq(Task)
  BY <1>2, AppendProperties DEF Acquire
<1>3. ASSUME NEW i \in 1 .. Len(waiters)
      PROVE  RemoveAt(waiters, i) \in Seq(Task)
  BY DEF RemoveAt
<1>4. ASSUME NEW t \in Task, LeaveLock(t)
      PROVE  holder' \in Task \cup {NoTask} /\ waiters' \in Seq(Task)
  BY <1>1, <1>3, <1>4 DEF LeaveLock, lock
<1> QED
  BY <1>1, <1>2, <1>4

\* What is given up is added to what was given up before.
LEMMA DropAdds ==
    ASSUME dropped \in [Cause -> SUBSET Entry], NEW k \in Cause,
           NEW es \in SUBSET Entry, Drop(k, es)
    PROVE  dropped' \in [Cause -> SUBSET Entry] /\ Lost' = Lost \cup es
<1>1. dropped' = [dropped EXCEPT ![k] = @ \cup es]
  BY DEF Drop
<1>2. /\ dropped' \in [Cause -> SUBSET Entry] /\ dropped'[k] = dropped[k] \cup es
      /\ \A j \in Cause : j # k => dropped'[j] = dropped[j]
  BY <1>1
<1>3. \A e : (e \in Lost <=> \E j \in Cause : e \in dropped[j])
              /\ (e \in Lost' <=> \E j \in Cause : e \in dropped'[j])
  BY Zenon DEF Lost
<1>4. \A e : e \in Lost' <=> e \in Lost \/ e \in es
  BY <1>2, <1>3
<1> QED
  BY <1>2, <1>4

-----------------------------------------------------------------------------
(* What the operations do to the two sequences, entry by entry.              *)

BothTyped ==
    /\ buffer \in Seq(Entry) /\ taken \in Seq(Entry)
    /\ Len(buffer) <= MaxBufferSize /\ Len(taken) <= BatchSize

\* An entry that comes to a deque with room, or pushes out the oldest one.
LEMMA AppendIs ==
    ASSUME BothTyped, added + 1 \in Entry, AppendEntry
    PROVE  /\ BothTyped'
           /\ added' = added + 1 /\ taken' = taken
           /\ \/ /\ Len(buffer') = Len(buffer) + 1
                 /\ Len(buffer) < MaxBufferSize
                 /\ \A i \in 1 .. Len(buffer) : buffer'[i] = buffer[i]
                 /\ dropped' = dropped
              \/ /\ Len(buffer') = Len(buffer) /\ Len(buffer) = MaxBufferSize
                 /\ Len(buffer) > 0
                 /\ \A i \in 1 .. Len(buffer) - 1 : buffer'[i] = buffer[i + 1]
                 /\ Drop("full", {buffer[1]}) /\ buffer[1] \in Entry
           /\ buffer'[Len(buffer')] = added + 1
<1>t. Len(buffer) \in Nat /\ MaxBufferSize \in Nat /\ MaxBufferSize > 0
  BY LogBoundAssumption DEF BothTyped
<1>1. CASE Len(buffer) < MaxBufferSize
  <2>1. /\ buffer' = Append(buffer, added + 1) /\ taken' = taken
        /\ added' = added + 1 /\ dropped' = dropped
    BY <1>1 DEF AppendEntry
  <2>2. /\ buffer' \in Seq(Entry) /\ Len(buffer') = Len(buffer) + 1
        /\ buffer'[Len(buffer) + 1] = added + 1
        /\ \A i \in 1 .. Len(buffer) : buffer'[i] = buffer[i]
    BY <2>1, AppendProperties DEF BothTyped
  <2> QED
    BY <1>t, <1>1, <2>1, <2>2 DEF BothTyped
<1>2. CASE Len(buffer) = MaxBufferSize
  <2> DEFINE rest == Tail(buffer)
  <2>1. /\ rest \in Seq(Entry) /\ Len(rest) = Len(buffer) - 1
        /\ \A i \in 1 .. Len(buffer) - 1 : rest[i] = buffer[i + 1]
        /\ Head(buffer) = buffer[1] /\ buffer[1] \in Entry
    BY <1>t, <1>2, HeadTailProperties DEF BothTyped
  <2>2. /\ buffer' = Append(rest, added + 1) /\ taken' = taken /\ added' = added + 1
        /\ Drop("full", {Head(buffer)})
    BY <1>2 DEF AppendEntry
  <2> HIDE DEF rest
  <2>3. /\ buffer' \in Seq(Entry) /\ Len(buffer') = Len(rest) + 1
        /\ buffer'[Len(rest) + 1] = added + 1
        /\ \A i \in 1 .. Len(rest) : buffer'[i] = rest[i]
    BY <2>1, <2>2, AppendProperties
  <2> QED
    BY <1>t, <1>2, <2>1, <2>2, <2>3 DEF BothTyped
<1> QED
  BY <1>t, <1>1, <1>2 DEF BothTyped

\* A batch is the front of the buffer.
LEMMA TakeIs ==
    ASSUME BothTyped, NEW f, Take(f)
    PROVE  /\ BothTyped'
           /\ \E n \in 0 .. Len(buffer) :
                 /\ Len(taken') = n /\ Len(buffer') = Len(buffer) - n
                 /\ \A i \in 1 .. n : taken'[i] = buffer[i]
                 /\ \A i \in 1 .. Len(buffer) - n : buffer'[i] = buffer[n + i]
<1> DEFINE n == BatchLength
<1>1. /\ Len(buffer) \in Nat /\ n \in 0 .. Len(buffer) /\ n <= BatchSize
      /\ BatchSize \in Nat
  BY LogBoundAssumption DEF BothTyped, BatchLength
<1>2. taken' = SubSeq(buffer, 1, n) /\ buffer' = SubSeq(buffer, n + 1, Len(buffer))
  BY DEF Take
<1> HIDE DEF n
<1>3. /\ \A i \in 1 .. n : buffer[i] \in Entry
      /\ \A i \in n + 1 .. Len(buffer) : buffer[i] \in Entry
  BY <1>1 DEF BothTyped
<1>4. /\ taken' \in Seq(Entry) /\ Len(taken') = n
      /\ \A i \in 1 .. n : taken'[i] = buffer[i]
  BY <1>1, <1>2, <1>3, SubSeqProperties
<1>5. /\ buffer' \in Seq(Entry) /\ Len(buffer') = Len(buffer) - n
      /\ \A i \in 1 .. Len(buffer) - n : buffer'[i] = buffer[n + i]
  BY <1>1, <1>2, <1>3, SubSeqProperties
<1>6. BothTyped'
  <2>1. Len(buffer') <= MaxBufferSize
    BY <1>1, <1>5, LogBoundAssumption DEF BothTyped
  <2>2. Len(taken') <= BatchSize
    BY <1>1, <1>4
  <2> QED
    BY <1>4, <1>5, <2>1, <2>2 DEF BothTyped
<1>7. n \in 0 .. Len(buffer)
  BY <1>1
<1> QED
  BY <1>4, <1>5, <1>6, <1>7

\* Where an entry of the batch or of the buffer comes to lie once the batch is
\* put back in front.
Unsent(i) == IF i <= Len(taken) THEN taken[i] ELSE buffer[i - Len(taken)]

LEMMA PutBackIs ==
    ASSUME BothTyped, NEW f, PutBack(f)
    PROVE  /\ BothTyped' /\ taken' = <<>>
           /\ LET total == Len(taken) + Len(buffer)
                  n     == IF total < MaxBufferSize THEN total ELSE MaxBufferSize IN
              /\ Len(buffer') = n
              /\ \A i \in 1 .. n : buffer'[i] = Unsent(i)
              /\ Drop("full", {Unsent(i) : i \in n + 1 .. total})
           /\ \A i \in 1 .. Len(taken) + Len(buffer) : Unsent(i) \in Entry
<1> DEFINE all   == taken \o buffer
           total == Len(taken) + Len(buffer)
           n     == IF total < MaxBufferSize THEN total ELSE MaxBufferSize
<1>1. /\ Len(taken) \in Nat /\ Len(buffer) \in Nat /\ MaxBufferSize \in Nat
      /\ BatchSize \in Nat
  BY LogBoundAssumption DEF BothTyped
<1>2. /\ all \in Seq(Entry) /\ Len(all) = total
      /\ \A i \in 1 .. total : all[i] = Unsent(i)
  BY ConcatProperties DEF BothTyped, Unsent
<1>3. /\ buffer' = SubSeq(all, 1, n) /\ taken' = <<>>
      /\ Drop("full", ToSet(SubSeq(all, n + 1, Len(all))))
  BY <1>2 DEF PutBack, PutBackInFront
<1>4. n \in 0 .. total /\ n <= MaxBufferSize /\ total \in Nat
  BY <1>1
<1>5. \A i \in 1 .. total : all[i] \in Entry
  BY <1>2
<1> HIDE DEF all, total, n
<1>6. /\ buffer' \in Seq(Entry) /\ Len(buffer') = n
      /\ \A i \in 1 .. n : buffer'[i] = all[i]
  BY <1>3, <1>4, <1>5, SubSeqProperties
<1>7. ToSet(SubSeq(all, n + 1, total)) = {Unsent(i) : i \in n + 1 .. total}
  <2> DEFINE s == SubSeq(all, n + 1, total)
  <2>1. /\ s \in Seq(Entry) /\ Len(s) = total - n
        /\ \A i \in 1 .. total - n : s[i] = all[n + i]
    BY <1>4, <1>5, SubSeqProperties
  <2>2. ToSet(s) = {s[i] : i \in 1 .. total - n}
    BY <1>4, <2>1 DEF ToSet
  <2> HIDE DEF s
  <2>3. \A i \in 1 .. total - n : s[i] = Unsent(n + i) /\ n + i \in n + 1 .. total
    BY <1>2, <1>4, <2>1
  <2>4. \A i \in n + 1 .. total : i - n \in 1 .. total - n /\ s[i - n] = Unsent(i)
    BY <1>4, <2>3
  <2>5. {s[i] : i \in 1 .. total - n} = {Unsent(i) : i \in n + 1 .. total}
    BY <2>3, <2>4
  <2> QED
    BY <2>2, <2>5 DEF s
<1>8. BothTyped'
  BY <1>1, <1>3, <1>4, <1>6, EmptySeq DEF BothTyped
<1>9. \A i \in 1 .. n : buffer'[i] = Unsent(i)
  BY <1>2, <1>4, <1>6
<1> QED
  BY <1>2, <1>3, <1>5, <1>6, <1>7, <1>8, <1>9 DEF total, n

-----------------------------------------------------------------------------
(* Who flushes, and how many entries were appended.                          *)

\* The periodic task and the flush of stop() follow each other, a batch is in
\* the hands of one of them, and a call that has filled a batch has the lock
\* for ever.
TaskInv ==
    /\ phase # "up" => pc[Loop] = "off"
    /\ phase = "up" => pc[Stopper] = "off"
    /\ taken # <<>> => \E f \in Flushers : pc[f] \in {"send", "putback"}
    /\ \A t \in Task : pc[t] = "relock" => t \in Calls /\ t = holder

\* The calls that have appended their entry.
Appended == {c \in Calls : pc[c] \in {"relock", "done"}}

CountInv == added = Cardinality(Appended)

LInv == TypeOK /\ TaskInv /\ CountInv

LEMMA LInvInit == Init => LInv
<1> SUFFICES ASSUME Init PROVE LInv
  OBVIOUS
<1> USE FlushersAreTasks
<1>1. Appended = {}
  BY DEF Init, Appended
<1>2. Cardinality({}) = 0 /\ Cardinality(Calls) \in Nat
  BY LogTaskAssumption, FS_EmptySet, FS_CardinalityType
<1>3. TypeOK
  <2>1. <<>> \in Seq(Entry) /\ <<>> \in Seq(Task) /\ Len(<<>>) = 0
    BY EmptySeq
  <2>2. pc \in [Task -> {"idle", "lock", "relock", "done",
                         "off", "sleep", "take", "send", "putback"}]
    BY DEF Init
  <2>3. 0 <= MaxBufferSize /\ 0 <= BatchSize
    BY LogBoundAssumption
  <2>4. dropped \in [Cause -> SUBSET Entry]
    BY DEF Init
  <2> QED
    BY <1>2, <2>1, <2>2, <2>3, <2>4 DEF Init, LockInit, TypeOK
<1>4. TaskInv
  BY DEF Init, TaskInv
<1> QED
  BY <1>1, <1>2, <1>3, <1>4 DEF Init, LInv, CountInv

LEMMA TypedSequences == TypeOK => BothTyped
  BY DEF TypeOK, BothTyped

\* An append is numbered by the calls that appended before.
LEMMA AppendCounts ==
    ASSUME LInv, NEW c \in Calls, pc[c] = "lock", AppendEntry,
           pc' = [pc EXCEPT ![c] = "done"] \/ pc' = [pc EXCEPT ![c] = "relock"]
    PROVE  added + 1 \in Entry /\ added' = Cardinality(Appended')
<1>1. Appended' = Appended \cup {c} /\ c \notin Appended
  BY FlushersAreTasks DEF LInv, TypeOK, Appended
<1>2. /\ IsFiniteSet(Appended) /\ Appended' \subseteq Calls
      /\ Cardinality(Appended) \in Nat
  BY LogTaskAssumption, FS_Subset, FS_CardinalityType DEF Appended
<1>3. Cardinality(Appended') = Cardinality(Appended) + 1
  BY <1>1, <1>2, FS_AddElement
<1>4. Cardinality(Appended') <= Cardinality(Calls) /\ Cardinality(Calls) \in Nat
  BY <1>2, LogTaskAssumption, FS_Subset, FS_CardinalityType
<1> QED
  BY <1>2, <1>3, <1>4 DEF LInv, CountInv, AppendEntry, Entry

\* A step of another kind appends nothing.
LEMMA NothingAppended ==
    ASSUME LInv, UNCHANGED added,
           \A c \in Calls : pc'[c] = pc[c] \/ (pc[c] = "idle" /\ pc'[c] = "lock")
    PROVE  CountInv'
<1>1. Appended' = Appended
  BY FlushersAreTasks DEF Appended
<1> QED
  BY <1>1 DEF LInv, CountInv

LEMMA EntriesAre ==
    ASSUME BothTyped
    PROVE  ToSet(taken) \in SUBSET Entry
  BY DEF BothTyped, ToSet

\* What the server stores, and what a 2xx answer leaves out, are entries of the batch.
LEMMA StoresBatch ==
    ASSUME TypeOK, NEW f
    PROVE  /\ ServerStores => stored \subseteq stored' /\ stored' \subseteq Entry
           /\ PostOk(f) \/ PostFails(f) => stored \subseteq stored' /\ stored' \subseteq Entry
           /\ PostOk(f) => /\ dropped' \in [Cause -> SUBSET Entry]
                           /\ Lost' = Lost \cup (ToSet(taken) \ stored')
<1>1. /\ ToSet(taken) \in SUBSET Entry /\ dropped \in [Cause -> SUBSET Entry]
      /\ stored \subseteq Entry /\ "short" \in Cause
  BY EntriesAre DEF TypeOK, BothTyped, Cause
<1>2. ServerStores => stored \subseteq stored' /\ stored' \subseteq Entry
  BY <1>1 DEF ServerStores
<1>3. ASSUME PostOk(f)
      PROVE  /\ dropped' \in [Cause -> SUBSET Entry]
             /\ Lost' = Lost \cup (ToSet(taken) \ stored')
  <2>1. Drop("short", ToSet(taken) \ stored') /\ ToSet(taken) \ stored' \in SUBSET Entry
    BY <1>1, <1>3 DEF PostOk
  <2> QED
    BY <1>1, <2>1, DropAdds
<1> QED
  BY <1>2, <1>3 DEF PostOk, PostFails

\* What does not fit into the deque any more is given up.
LEMMA PutBackDrops ==
    ASSUME TypeOK, NEW f, PutBack(f)
    PROVE  /\ dropped' \in [Cause -> SUBSET Entry]
           /\ LET total == Len(taken) + Len(buffer)
                  n     == IF total < MaxBufferSize THEN total ELSE MaxBufferSize IN
              Lost' = Lost \cup {Unsent(i) : i \in n + 1 .. total}
<1> DEFINE total == Len(taken) + Len(buffer)
           n     == IF total < MaxBufferSize THEN total ELSE MaxBufferSize
           rest  == {Unsent(i) : i \in n + 1 .. total}
<1>1. BothTyped /\ n \in 0 .. total /\ total \in Nat
  BY TypedSequences, LogBoundAssumption DEF BothTyped
<1>2. Drop("full", rest) /\ \A i \in 1 .. total : Unsent(i) \in Entry
  BY <1>1, PutBackIs
<1> HIDE DEF n, total
<1>3. rest \in SUBSET Entry
  <2>1. \A i \in n + 1 .. total : i \in 1 .. total
    BY <1>1
  <2> QED
    BY <1>2, <2>1
<1>4. dropped \in [Cause -> SUBSET Entry] /\ "full" \in Cause
  BY DEF TypeOK, Cause
<1> HIDE DEF rest
<1>5. dropped' \in [Cause -> SUBSET Entry] /\ Lost' = Lost \cup rest
  BY <1>2, <1>3, <1>4, DropAdds
<1> QED
  BY <1>5 DEF rest, n, total

LEMMA LInvNext == LInv /\ [Next]_vars => LInv'
<1> SUFFICES ASSUME LInv, [Next]_vars PROVE LInv'
  OBVIOUS
<1> USE FlushersAreTasks DEF Goto
<1> DEFINE Labels == {"idle", "lock", "relock", "done",
                      "off", "sleep", "take", "send", "putback"}
<1>t. /\ pc \in [Task -> Labels] /\ holder \in Task \cup {NoTask}
      /\ waiters \in Seq(Task) /\ BothTyped /\ Cardinality(Calls) \in Nat
      /\ TypeOK /\ TaskInv
  BY TypedSequences, LogTaskAssumption, FS_CardinalityType DEF LInv, TypeOK
<1>1. ASSUME NEW c \in Calls, AddLog(c) PROVE LInv'
  <2>1. TypeOK'
    BY <1>t, <1>1, LockTypes DEF AddLog, TypeOK
  <2>2. TaskInv'
    BY <1>t, <1>1 DEF AddLog, TaskInv, Acquire
  <2>3. CountInv'
    BY <1>t, <1>1, NothingAppended DEF AddLog
  <2> QED
    BY <2>1, <2>2, <2>3 DEF LInv
<1>2. ASSUME NEW c \in Calls, CallStep(c) PROVE LInv'
  <2>1. /\ pc[c] = "lock" /\ holder = c /\ AppendEntry
        /\ \/ pc' = [pc EXCEPT ![c] = "done"] /\ Release
           \/ /\ pc' = [pc EXCEPT ![c] = "relock"] /\ UNCHANGED holder
              /\ waiters' = Append(waiters, c)
    BY <1>2 DEF CallStep, AddBelowBatch, AddFillsBatch
  <2>2. added + 1 \in Entry /\ CountInv'
    BY <2>1, AppendCounts DEF CountInv
  <2>3. BothTyped' /\ dropped' \in [Cause -> SUBSET Entry]
    <3>1. \/ dropped' = dropped
          \/ Drop("full", {buffer[1]}) /\ buffer[1] \in Entry
      BY <1>t, <2>1, <2>2, AppendIs
    <3>2. dropped \in [Cause -> SUBSET Entry] /\ "full" \in Cause
      BY <1>t DEF TypeOK, Cause
    <3>3. dropped' \in [Cause -> SUBSET Entry]
      <4>1. CASE dropped' = dropped
        BY <3>2, <4>1
      <4>2. CASE Drop("full", {buffer[1]}) /\ buffer[1] \in Entry
        <5>1. {buffer[1]} \in SUBSET Entry
          BY <4>2
        <5> QED
          BY <3>2, <4>2, <5>1, DropAdds
      <4> QED
        BY <3>1, <4>1, <4>2
    <3> QED
      BY <1>t, <2>1, <2>2, <3>3, AppendIs
  <2>4. UNCHANGED <<phase, taken, stored>>
    BY <2>1 DEF AppendEntry
  <2>5. holder' \in Task \cup {NoTask} /\ waiters' \in Seq(Task)
    BY <1>t, <2>1, LockTypes, AppendProperties
  <2>6. TypeOK'
    <3>1. added' \in 0 .. Cardinality(Calls)
      BY <1>t, <2>1, <2>2 DEF AppendEntry, Entry, TypeOK
    <3> QED
      BY <1>t, <2>1, <2>3, <2>4, <2>5, <3>1 DEF TypeOK, BothTyped
  <2>7. TaskInv'
    BY <1>t, <2>1, <2>4 DEF TaskInv
  <2> QED
    BY <2>2, <2>6, <2>7 DEF LInv
<1>3. ASSUME NEW f \in Flushers, FlushStep(f) PROVE LInv'
  <2>0. CountInv'
    BY <1>t, <1>3, NothingAppended
       DEF FlushStep, FlushBegin, Take, PostOk, PostFails, PutBack, Finish
  <2>1. CASE FlushBegin(f)
    <3>1. TypeOK'
      BY <1>t, <2>1, LockTypes DEF FlushBegin, TypeOK
    <3>2. TaskInv'
      BY <1>t, <2>1 DEF FlushBegin, TaskInv, Acquire
    <3> QED
      BY <2>0, <3>1, <3>2 DEF LInv
  <2>2. CASE Take(f)
    <3>1. TypeOK'
      BY <1>t, <2>2, LockTypes, TakeIs DEF Take, TypeOK, BothTyped
    <3>2. TaskInv'
      BY <1>t, <2>2 DEF Take, TaskInv
    <3> QED
      BY <2>0, <3>1, <3>2 DEF LInv
  <2>3. CASE PostOk(f)
    <3>1. stored' \subseteq Entry /\ dropped' \in [Cause -> SUBSET Entry]
      BY <1>t, <2>3, StoresBatch
    <3>2. TypeOK'
      BY <1>t, <2>3, <3>1, EmptySeq, LogBoundAssumption DEF PostOk, Finish, TypeOK, lock
    <3>3. TaskInv'
      BY <1>t, <2>3 DEF PostOk, Finish, TaskInv, lock
    <3> QED
      BY <2>0, <3>2, <3>3 DEF LInv
  <2>4. CASE PostFails(f)
    <3>1. stored' \subseteq Entry
      BY <1>t, <2>4, StoresBatch
    <3>2. TypeOK'
      BY <1>t, <2>4, <3>1, LockTypes DEF PostFails, TypeOK
    <3>3. TaskInv'
      BY <1>t, <2>4 DEF PostFails, TaskInv, Acquire
    <3> QED
      BY <2>0, <3>2, <3>3 DEF LInv
  <2>5. CASE PutBack(f)
    <3>1. BothTyped' /\ dropped' \in [Cause -> SUBSET Entry]
      BY <1>t, <2>5, PutBackIs, PutBackDrops
    <3>2. TypeOK'
      BY <1>t, <2>5, <3>1, LockTypes DEF PutBack, Finish, TypeOK, BothTyped
    <3>3. TaskInv'
      BY <1>t, <2>5 DEF PutBack, Finish, TaskInv
    <3> QED
      BY <2>0, <3>2, <3>3 DEF LInv
  <2> QED
    BY <1>3, <2>1, <2>2, <2>3, <2>4, <2>5 DEF FlushStep
<1>4. CASE NothingToFlush
  <2>1. TypeOK'
    BY <1>t, <1>4 DEF NothingToFlush, Finish, TypeOK, lock
  <2>2. TaskInv'
    BY <1>t, <1>4 DEF NothingToFlush, Finish, TaskInv, lock
  <2>3. CountInv'
    BY <1>t, <1>4, NothingAppended DEF NothingToFlush, Finish
  <2> QED
    BY <2>1, <2>2, <2>3 DEF LInv
<1>5. CASE Stop
  <2>1. dropped' \in [Cause -> SUBSET Entry]
    <3>1. ToSet(taken) \ stored \in SUBSET Entry /\ "stop" \in Cause
      BY <1>t, EntriesAre DEF Cause
    <3> QED
      BY <1>t, <1>5, <3>1, DropAdds DEF Stop, TypeOK
  <2>2. TypeOK'
    BY <1>t, <1>5, <2>1, LockTypes, EmptySeq, LogBoundAssumption DEF Stop, TypeOK
  <2>3. TaskInv'
    BY <1>t, <1>5 DEF Stop, TaskInv, LeaveLock, lock
  <2>4. CountInv'
    BY <1>t, <1>5, NothingAppended DEF Stop
  <2> QED
    BY <2>2, <2>3, <2>4 DEF LInv
<1>6. CASE UNCHANGED vars
  BY <1>6 DEF vars, lock, LInv, TypeOK, TaskInv, CountInv, Appended
<1> QED
  BY <1>1, <1>2, <1>3, <1>4, <1>5, <1>6 DEF Next

\* Type correctness, with entries that are numbered in the order of their calls.
THEOREM TypeCorrect == Spec => []TypeOK
<1>1. LInv => TypeOK
  BY DEF LInv
<1> QED
  BY <1>1, LInvInit, LInvNext, PTL DEF Spec

-----------------------------------------------------------------------------
(* The order of the entries.  InOrder is not inductive: the next entry has to *)
(* be newer than all that waits.                                             *)

OrderInv ==
    /\ \A i, j \in 1 .. Len(taken) : i < j => taken[i] < taken[j]
    /\ \A i, j \in 1 .. Len(buffer) : i < j => buffer[i] < buffer[j]
    /\ \A i \in 1 .. Len(taken), j \in 1 .. Len(buffer) : taken[i] < buffer[j]
    /\ \A i \in 1 .. Len(taken) : taken[i] <= added
    /\ \A i \in 1 .. Len(buffer) : buffer[i] <= added

\* No flusher takes a batch while another batch is out.
LEMMA OneBatch ==
    ASSUME LInv, NEW f \in Flushers, Take(f)
    PROVE  taken = <<>>
  BY FlushersAreTasks DEF LInv, TaskInv, Take

\* What a step does to the sequences.
LEMMA SequencesChange ==
    ASSUME LInv, [Next]_vars
    PROVE  \/ \E c \in Calls : CallStep(c) /\ added + 1 \in Entry
           \/ \E f \in Flushers : Take(f) \/ PutBack(f)
           \/ taken' = <<>> /\ UNCHANGED <<buffer, added>>
           \/ UNCHANGED <<buffer, taken, added>>
<1>1. ASSUME NEW c \in Calls, CallStep(c) PROVE added + 1 \in Entry
  BY <1>1, AppendCounts DEF CallStep, AddBelowBatch, AddFillsBatch, Goto
<1> QED
  BY <1>1 DEF Next, AddLog, FlushStep, FlushBegin, PostOk, PostFails, NothingToFlush,
              Stop, vars

LEMMA OrderNext ==
    ASSUME LInv, OrderInv, [Next]_vars
    PROVE  OrderInv'
<1>t. /\ Len(taken) \in Nat /\ Len(buffer) \in Nat /\ added \in Nat /\ BothTyped
      /\ \A i \in 1 .. Len(taken) : taken[i] \in Nat
      /\ \A i \in 1 .. Len(buffer) : buffer[i] \in Nat
  BY LogTaskAssumption, FS_CardinalityType DEF LInv, TypeOK, BothTyped, Entry
<1>1. ASSUME NEW c \in Calls, CallStep(c), added + 1 \in Entry PROVE OrderInv'
  <2>1. AppendEntry
    BY <1>1 DEF CallStep, AddBelowBatch, AddFillsBatch
  <2>2. added' = added + 1 /\ taken' = taken /\ buffer'[Len(buffer')] = added + 1
    BY <1>t, <1>1, <2>1, AppendIs
  <2>3. CASE /\ Len(buffer') = Len(buffer) + 1
             /\ \A i \in 1 .. Len(buffer) : buffer'[i] = buffer[i]
    <3>1. /\ buffer'[Len(buffer) + 1] = added + 1
          /\ \A i \in 1 .. Len(buffer') : i \in 1 .. Len(buffer) \/ i = Len(buffer) + 1
          /\ \A i \in 1 .. Len(buffer) : i < Len(buffer) + 1
      BY <1>t, <2>2, <2>3
    <3>2. \A i \in 1 .. Len(taken) : taken'[i] = taken[i] /\ taken[i] <= added
      BY <2>2 DEF OrderInv
    <3>3. \A i \in 1 .. Len(buffer) : buffer'[i] = buffer[i] /\ buffer[i] <= added
      BY <2>3 DEF OrderInv
    <3>4. \A i, j \in 1 .. Len(buffer') : i < j => buffer'[i] < buffer'[j]
      <4>1. ASSUME NEW i \in 1 .. Len(buffer'), NEW j \in 1 .. Len(buffer'), i < j
            PROVE  buffer'[i] < buffer'[j]
        <5>1. i \in 1 .. Len(buffer)
          BY <1>t, <2>3, <4>1
        <5>2. CASE j \in 1 .. Len(buffer)
          BY <2>3, <4>1, <5>1, <5>2 DEF OrderInv
        <5>3. CASE j = Len(buffer) + 1
          <6>1. buffer'[i] <= added /\ buffer'[i] \in Nat /\ buffer'[j] = added + 1
            BY <1>t, <3>1, <3>3, <5>1, <5>3
          <6> QED
            BY <1>t, <6>1
        <5> QED
          BY <3>1, <5>2, <5>3
      <4> QED
        BY <4>1
    <3>5. \A i \in 1 .. Len(taken'), j \in 1 .. Len(buffer') : taken'[i] < buffer'[j]
      <4>1. ASSUME NEW i \in 1 .. Len(taken'), NEW j \in 1 .. Len(buffer')
            PROVE  taken'[i] < buffer'[j]
        <5>1. i \in 1 .. Len(taken) /\ taken'[i] = taken[i]
          BY <2>2
        <5>2. CASE j \in 1 .. Len(buffer)
          BY <2>3, <5>1, <5>2 DEF OrderInv
        <5>3. CASE j = Len(buffer) + 1
          <6>1. taken'[i] <= added /\ taken'[i] \in Nat /\ buffer'[j] = added + 1
            BY <1>t, <3>1, <3>2, <5>1, <5>3
          <6> QED
            BY <1>t, <6>1
        <5> QED
          BY <3>1, <5>2, <5>3
      <4> QED
        BY <4>1
    <3>6. \A i \in 1 .. Len(buffer') : buffer'[i] <= added'
      <4>1. ASSUME NEW i \in 1 .. Len(buffer') PROVE buffer'[i] <= added + 1
        <5>1. CASE i \in 1 .. Len(buffer)
          BY <1>t, <3>3, <5>1
        <5>2. CASE i = Len(buffer) + 1
          BY <1>t, <3>1, <5>2
        <5> QED
          BY <3>1, <5>1, <5>2
      <4> QED
        BY <2>2, <4>1
    <3>7. /\ \A i, j \in 1 .. Len(taken') : i < j => taken'[i] < taken'[j]
          /\ \A i \in 1 .. Len(taken') : taken'[i] <= added'
      BY <1>t, <2>2 DEF OrderInv
    <3> QED
      BY <3>4, <3>5, <3>6, <3>7 DEF OrderInv
  <2>4. CASE /\ Len(buffer') = Len(buffer) /\ Len(buffer) > 0
             /\ \A i \in 1 .. Len(buffer) - 1 : buffer'[i] = buffer[i + 1]
    <3>1. ASSUME NEW i \in 1 .. Len(buffer) - 1
          PROVE  /\ i + 1 \in 1 .. Len(buffer) /\ buffer'[i] = buffer[i + 1]
                 /\ buffer'[i] <= added /\ buffer'[i] \in Nat
                 /\ \A k \in 1 .. Len(taken) : taken[k] < buffer'[i]
      <4>1. i + 1 \in 1 .. Len(buffer) /\ buffer'[i] = buffer[i + 1]
        BY <1>t, <2>4
      <4> QED
        BY <1>t, <4>1 DEF OrderInv
    <3>2. ASSUME NEW i \in 1 .. Len(buffer) - 1, NEW j \in 1 .. Len(buffer) - 1, i < j
          PROVE  buffer'[i] < buffer'[j]
      <4>1. i + 1 < j + 1
        BY <3>2
      <4> QED
        BY <3>1, <4>1 DEF OrderInv
    <3>3. \A i \in 1 .. Len(buffer') : i \in 1 .. Len(buffer) - 1 \/ i = Len(buffer)
      BY <1>t, <2>4
    <3>4. \A k \in 1 .. Len(taken) : taken[k] <= added /\ taken[k] \in Nat
      BY <1>t DEF OrderInv
    <3>5. Len(buffer') \in Nat /\ buffer'[Len(buffer)] = added + 1
      BY <1>t, <2>2, <2>4
    <3>6. \A i \in 1 .. Len(buffer') : /\ buffer'[i] <= added + 1
                                       /\ \A k \in 1 .. Len(taken) : taken[k] < buffer'[i]
      <4>1. ASSUME NEW i \in 1 .. Len(buffer')
            PROVE  /\ buffer'[i] <= added + 1
                   /\ \A k \in 1 .. Len(taken) : taken[k] < buffer'[i]
        <5>1. CASE i \in 1 .. Len(buffer) - 1
          BY <1>t, <3>1, <5>1
        <5>2. CASE i = Len(buffer)
          BY <1>t, <3>4, <3>5, <5>2
        <5> QED
          BY <3>3, <5>1, <5>2
      <4> QED
        BY <4>1
    <3>7. \A i, j \in 1 .. Len(buffer') : i < j => buffer'[i] < buffer'[j]
      <4>1. ASSUME NEW i \in 1 .. Len(buffer'), NEW j \in 1 .. Len(buffer'), i < j
            PROVE  buffer'[i] < buffer'[j]
        <5>1. i \in 1 .. Len(buffer) - 1
          BY <1>t, <2>4, <4>1
        <5>2. CASE j \in 1 .. Len(buffer) - 1
          BY <3>2, <4>1, <5>1, <5>2
        <5>3. CASE j = Len(buffer)
          BY <1>t, <3>1, <3>5, <5>1, <5>3
        <5> QED
          BY <3>3, <5>2, <5>3
      <4> QED
        BY <4>1
    <3>8. \A i \in 1 .. Len(taken) : taken[i] <= added + 1
      BY <1>t, <3>4
    <3> QED
      BY <2>2, <3>6, <3>7, <3>8 DEF OrderInv
  <2> QED
    BY <1>t, <1>1, <2>1, <2>3, <2>4, AppendIs
<1>2. ASSUME NEW f \in Flushers, Take(f) PROVE OrderInv'
  <2>1. PICK n \in 0 .. Len(buffer) :
           /\ Len(taken') = n /\ Len(buffer') = Len(buffer) - n
           /\ \A i \in 1 .. n : taken'[i] = buffer[i]
           /\ \A i \in 1 .. Len(buffer) - n : buffer'[i] = buffer[n + i]
    BY <1>t, <1>2, TakeIs
  <2>2. added' = added
    BY <1>2 DEF Take
  <2>3. \A i \in 1 .. Len(taken') : i \in 1 .. Len(buffer) /\ taken'[i] = buffer[i]
    BY <1>t, <2>1
  <2>4. \A i \in 1 .. Len(buffer') : n + i \in 1 .. Len(buffer) /\ buffer'[i] = buffer[n + i]
    BY <1>t, <2>1
  <2>5. /\ \A i, j \in 1 .. Len(buffer') : i < j => n + i < n + j
        /\ \A i \in 1 .. Len(taken'), j \in 1 .. Len(buffer') : i < n + j
    BY <1>t, <2>1
  <2> QED
    BY <2>2, <2>3, <2>4, <2>5 DEF OrderInv
<1>3. ASSUME NEW f \in Flushers, PutBack(f) PROVE OrderInv'
  <2> DEFINE total == Len(taken) + Len(buffer)
             n     == IF total < MaxBufferSize THEN total ELSE MaxBufferSize
  <2>1. /\ taken' = <<>> /\ Len(taken') = 0 /\ added' = added /\ Len(buffer') = n
        /\ \A i \in 1 .. n : buffer'[i] = Unsent(i)
    BY <1>t, <1>3, PutBackIs DEF PutBack
  <2>2. n \in 0 .. total
    BY <1>t, LogBoundAssumption
  <2> HIDE DEF n
  <2>3. ASSUME NEW i \in 1 .. total, NEW j \in 1 .. total, i < j
        PROVE  Unsent(i) < Unsent(j)
    <3>1. CASE j <= Len(taken)
      <4>1. i \in 1 .. Len(taken) /\ j \in 1 .. Len(taken) /\ i <= Len(taken)
        BY <1>t, <2>3, <3>1
      <4> QED
        BY <2>3, <3>1, <4>1 DEF OrderInv, Unsent
    <3>2. CASE i <= Len(taken) /\ ~ (j <= Len(taken))
      <4>1. i \in 1 .. Len(taken) /\ j - Len(taken) \in 1 .. Len(buffer)
        BY <1>t, <2>3, <3>2
      <4> QED
        BY <3>2, <4>1 DEF OrderInv, Unsent
    <3>3. CASE ~ (i <= Len(taken)) /\ ~ (j <= Len(taken))
      <4>1. /\ i - Len(taken) \in 1 .. Len(buffer) /\ j - Len(taken) \in 1 .. Len(buffer)
            /\ i - Len(taken) < j - Len(taken)
        BY <1>t, <2>3, <3>3
      <4> QED
        BY <3>3, <4>1 DEF OrderInv, Unsent
    <3> QED
      BY <1>t, <2>3, <3>1, <3>2, <3>3
  <2>4. \A i \in 1 .. total : Unsent(i) <= added
    BY <1>t DEF OrderInv, Unsent
  <2>5. \A i \in 1 .. Len(buffer') : i \in 1 .. total /\ buffer'[i] = Unsent(i)
    BY <1>t, <2>1, <2>2
  <2>6. \A i \in 1 .. Len(taken') : FALSE
    BY <2>1
  <2> HIDE DEF total
  <2> QED
    BY <2>1, <2>3, <2>4, <2>5, <2>6 DEF OrderInv
<1>4. CASE taken' = <<>> /\ UNCHANGED <<buffer, added>>
  BY <1>4 DEF OrderInv
<1>5. CASE UNCHANGED <<buffer, taken, added>>
  BY <1>5 DEF OrderInv
<1> QED
  BY <1>1, <1>2, <1>3, <1>4, <1>5, SequencesChange

\* What waits to be sent is in the order it was logged, across every take, failed
\* POST and put back of a batch (InOrder).
THEOREM LoggedInOrder == Spec => []InOrder
<1>1. Init => OrderInv
  BY DEF Init, OrderInv
<1>2. LInv /\ OrderInv => InOrder
  <2> SUFFICES ASSUME LInv, OrderInv PROVE InOrder
    OBVIOUS
  <2>1. taken \in Seq(Entry) /\ buffer \in Seq(Entry)
    BY DEF LInv, TypeOK
  <2>2. /\ Len(taken \o buffer) = Len(taken) + Len(buffer)
        /\ \A i \in 1 .. Len(taken) + Len(buffer) : (taken \o buffer)[i] = Unsent(i)
    BY <2>1, ConcatProperties DEF Unsent
  <2>3. \A i, j \in 1 .. Len(taken) + Len(buffer) : i < j => Unsent(i) < Unsent(j)
    BY <2>1 DEF OrderInv, Unsent
  <2> QED
    BY <2>2, <2>3 DEF InOrder
<1>3. LInv /\ OrderInv /\ [Next]_vars => OrderInv'
  BY OrderNext
<1> QED
  BY <1>1, <1>2, <1>3, LInvInit, LInvNext, PTL DEF Spec

-----------------------------------------------------------------------------
(* Where the entries are.                                                    *)

In(e, s) == \E i \in 1 .. Len(s) : s[i] = e

KeptInv ==
    \A e \in 1 .. added : \/ In(e, buffer) \/ In(e, taken)
                          \/ e \in stored \/ e \in Lost

LEMMA KeptNext ==
    ASSUME LInv, KeptInv, [Next]_vars
    PROVE  KeptInv'
<1>t. /\ Len(taken) \in Nat /\ Len(buffer) \in Nat /\ added \in Nat /\ BothTyped
      /\ MaxBufferSize \in Nat
  BY LogTaskAssumption, LogBoundAssumption, FS_CardinalityType
     DEF LInv, TypeOK, BothTyped, Entry
<1>s. ASSUME NEW e, In(e, taken) PROVE e \in ToSet(taken)
  BY <1>t, <1>s DEF In, ToSet, BothTyped
<1>d. /\ dropped \in [Cause -> SUBSET Entry] /\ "full" \in Cause /\ "stop" \in Cause
      /\ ToSet(taken) \in SUBSET Entry /\ TypeOK
  BY <1>t, EntriesAre DEF LInv, TypeOK, Cause
<1>l. dropped' = dropped => Lost' = Lost
  BY Zenon DEF Lost
<1>1. ASSUME NEW c \in Calls, CallStep(c), added + 1 \in Entry PROVE KeptInv'
  <2>1. AppendEntry
    BY <1>1 DEF CallStep, AddBelowBatch, AddFillsBatch
  <2>2. /\ added' = added + 1 /\ taken' = taken /\ buffer'[Len(buffer')] = added + 1
        /\ stored' = stored
    BY <1>t, <1>1, <2>1, AppendIs DEF AppendEntry
  <2>3. CASE /\ Len(buffer') = Len(buffer) + 1
             /\ \A i \in 1 .. Len(buffer) : buffer'[i] = buffer[i]
             /\ dropped' = dropped
    <3> Lost' = Lost
      BY <1>l, <2>3
    <3>1. \A e : In(e, buffer) => In(e, buffer')
      BY <1>t, <2>3 DEF In
    <3>2. In(added + 1, buffer')
      BY <1>t, <2>2, <2>3 DEF In
    <3> QED
      <4>1. \A e \in 1 .. added' : e \in 1 .. added \/ e = added + 1
        BY <1>t, <2>2
      <4> QED
        BY <2>2, <2>3, <3>1, <3>2, <4>1 DEF KeptInv
  <2>4. CASE /\ Len(buffer') = Len(buffer) /\ Len(buffer) > 0
             /\ \A i \in 1 .. Len(buffer) - 1 : buffer'[i] = buffer[i + 1]
             /\ Drop("full", {buffer[1]}) /\ buffer[1] \in Entry
    <3>0. Lost' = Lost \cup {buffer[1]}
      BY <1>d, <2>4, DropAdds
    <3>1. ASSUME NEW i \in 1 .. Len(buffer)
          PROVE  In(buffer[i], buffer') \/ buffer[i] \in Lost'
      <4>1. CASE i = 1
        BY <3>0, <4>1
      <4>2. CASE i # 1
        <5>1. i - 1 \in 1 .. Len(buffer) - 1 /\ buffer'[i - 1] = buffer[i]
          BY <1>t, <2>4, <4>2
        <5> QED
          BY <1>t, <2>4, <5>1 DEF In
      <4> QED
        BY <4>1, <4>2
    <3>2. In(added + 1, buffer')
      BY <1>t, <2>2, <2>4 DEF In
    <3> QED
      <4>1. \A e \in 1 .. added' : e \in 1 .. added \/ e = added + 1
        BY <1>t, <2>2
      <4>2. \A e : In(e, buffer) => In(e, buffer') \/ e \in Lost'
        BY <3>1 DEF In
      <4>3. Lost \subseteq Lost'
        BY <3>0
      <4> QED
        BY <2>2, <3>2, <4>1, <4>2, <4>3 DEF KeptInv
  <2> QED
    BY <1>t, <1>1, <2>1, <2>3, <2>4, AppendIs
<1>2. ASSUME NEW f \in Flushers, Take(f) PROVE KeptInv'
  <2>1. PICK n \in 0 .. Len(buffer) :
           /\ Len(taken') = n /\ Len(buffer') = Len(buffer) - n
           /\ \A i \in 1 .. n : taken'[i] = buffer[i]
           /\ \A i \in 1 .. Len(buffer) - n : buffer'[i] = buffer[n + i]
    BY <1>t, <1>2, TakeIs
  <2>2. UNCHANGED <<added, stored>> /\ Lost' = Lost /\ ~ \E e : In(e, taken)
    BY <1>2, <1>l, OneBatch DEF Take, In
  <2>3. ASSUME NEW i \in 1 .. Len(buffer)
        PROVE  In(buffer[i], taken') \/ In(buffer[i], buffer')
    <3>1. CASE i <= n
      BY <1>t, <2>1, <3>1 DEF In
    <3>2. CASE i > n
      <4>1. i - n \in 1 .. Len(buffer) - n /\ buffer'[i - n] = buffer[i]
        BY <1>t, <2>1, <3>2
      <4> QED
        BY <2>1, <4>1 DEF In
    <3> QED
      BY <1>t, <2>1, <3>1, <3>2
  <2> QED
    BY <2>2, <2>3 DEF KeptInv, In
<1>3. ASSUME NEW f \in Flushers, PutBack(f) PROVE KeptInv'
  <2> DEFINE total == Len(taken) + Len(buffer)
             n     == IF total < MaxBufferSize THEN total ELSE MaxBufferSize
  <2>1. /\ UNCHANGED <<added, stored>> /\ Len(buffer') = n
        /\ \A i \in 1 .. n : buffer'[i] = Unsent(i)
        /\ Lost' = Lost \cup {Unsent(i) : i \in n + 1 .. total}
    BY <1>t, <1>d, <1>3, PutBackIs, PutBackDrops DEF PutBack
  <2>2. n \in 0 .. total /\ total \in Nat
    BY <1>t
  <2> HIDE DEF n
  <2>3. \A i \in 1 .. total : In(Unsent(i), buffer') \/ Unsent(i) \in Lost'
    <3>1. \A i \in 1 .. total : i \in 1 .. n \/ i \in n + 1 .. total
      BY <2>2
    <3> QED
      BY <2>1, <3>1 DEF In
  <2>4. \A i \in 1 .. Len(taken) : i \in 1 .. total /\ Unsent(i) = taken[i]
    BY <1>t DEF Unsent
  <2>5. \A i \in 1 .. Len(buffer) : /\ Len(taken) + i \in 1 .. total
                                    /\ Unsent(Len(taken) + i) = buffer[i]
    BY <1>t DEF Unsent
  <2>6. \A e : In(e, taken) \/ In(e, buffer) => In(e, buffer') \/ e \in Lost'
    BY <2>3, <2>4, <2>5 DEF In
  <2> QED
    BY <2>1, <2>6 DEF KeptInv
<1>4. ASSUME NEW f \in Flushers, PostOk(f) PROVE KeptInv'
  <2>1. /\ stored \subseteq stored' /\ Lost' = Lost \cup (ToSet(taken) \ stored')
        /\ UNCHANGED <<buffer, added>>
    BY <1>d, <1>4, StoresBatch DEF PostOk
  <2> QED
    BY <1>s, <2>1 DEF KeptInv
<1>5. CASE Stop
  <2>1. Lost' = Lost \cup (ToSet(taken) \ stored) /\ UNCHANGED <<buffer, added, stored>>
    <3>1. Drop("stop", ToSet(taken) \ stored) /\ ToSet(taken) \ stored \in SUBSET Entry
      BY <1>d, <1>5 DEF Stop
    <3> QED
      BY <1>d, <1>5, <3>1, DropAdds DEF Stop
  <2> QED
    BY <1>s, <2>1 DEF KeptInv
<1>6. ASSUME UNCHANGED <<buffer, taken, added, dropped>>, stored \subseteq stored'
      PROVE  KeptInv'
  <2>1. Lost' = Lost
    BY <1>6, <1>l
  <2> QED
    BY <1>6, <2>1 DEF KeptInv
<1>7. ASSUME NEW f \in Flushers, PostFails(f) PROVE KeptInv'
  BY <1>6, <1>7, <1>d, StoresBatch DEF PostFails
<1> QED
  <2>1. ASSUME NEW c \in Calls, CallStep(c) PROVE added + 1 \in Entry
    BY <2>1, AppendCounts DEF CallStep, AddBelowBatch, AddFillsBatch, Goto
  <2> QED
    BY <1>1, <1>2, <1>3, <1>4, <1>5, <1>6, <1>7, <2>1
       DEF Next, AddLog, FlushStep, FlushBegin, NothingToFlush, vars

\* Every entry appended is in the buffer, in the batch of a flush, stored by the
\* server, or given up in one of the three ways the code has: pushed out of the
\* deque, lost with the flush that stop() cancels, or left out by a server that
\* accepted the batch (EntriesKept).
THEOREM NothingUnaccounted == Spec => []EntriesKept
<1>1. Init => KeptInv
  BY DEF Init, KeptInv
<1>2. LInv /\ KeptInv => EntriesKept
  <2> SUFFICES ASSUME LInv, KeptInv PROVE EntriesKept
    OBVIOUS
  <2>1. \A e : (In(e, taken) => e \in ToSet(taken)) /\ (In(e, buffer) => e \in ToSet(buffer))
    BY DEF LInv, TypeOK, In, ToSet
  <2> QED
    BY <2>1 DEF KeptInv, EntriesKept
<1> QED
  BY <1>1, <1>2, KeptNext, LInvInit, LInvNext, PTL DEF Spec

-----------------------------------------------------------------------------
(* The call that fills a batch.                                              *)

\* Who has the lock and does not wait for it again is not stuck, nor is another.
LEMMA HolderIsFree ==
    ASSUME LInv, NEW t \in Task, holder = t, pc[t] # "relock"
    PROVE  ~ Stuck
  BY FlushersAreTasks DEF LInv, TaskInv, Stuck

\* A batch was filled, and nobody can take it.
FullInv == Stuck => buffer # <<>>

\* No step of any task gets a stuck handler going again.
LEMMA StuckStays ==
    ASSUME LInv, FullInv, Stuck, [Next]_vars
    PROVE  /\ Stuck' /\ UNCHANGED <<buffer, added>>
           /\ phase' = phase \/ phase' = "stopping" \/ pc[Stopper] = "send"
<1> USE FlushersAreTasks DEF Goto
<1>t. pc \in [Task -> {"idle", "lock", "relock", "done",
                       "off", "sleep", "take", "send", "putback"}]
  BY DEF LInv, TypeOK
<1>1. PICK c \in Calls : pc[c] = "relock"
  BY DEF Stuck
<1>h. ASSUME NEW t \in Task, holder = t PROVE pc[t] = "relock"
  BY <1>h, HolderIsFree
<1>2. ASSUME NEW a \in Calls, AddLog(a)
      PROVE  pc'[c] = "relock" /\ UNCHANGED <<buffer, added, phase>>
  BY <1>t, <1>1, <1>2 DEF AddLog
<1>3. ASSUME NEW a \in Calls, CallStep(a) PROVE FALSE
  BY <1>h, <1>3 DEF CallStep, AddBelowBatch, AddFillsBatch
<1>4. ASSUME NEW f \in Flushers, FlushStep(f)
      PROVE  /\ pc'[c] = "relock" /\ UNCHANGED <<buffer, added>>
             /\ phase' = phase \/ pc[Stopper] = "send"
  <2>1. ~ Take(f) /\ ~ PutBack(f)
    BY <1>h DEF Take, PutBack
  <2>2. CASE FlushBegin(f)
    BY <1>t, <1>1, <2>2 DEF FlushBegin
  <2>3. CASE PostOk(f)
    BY <1>t, <1>1, <2>3 DEF PostOk, Finish
  <2>4. CASE PostFails(f)
    BY <1>t, <1>1, <2>4 DEF PostFails
  <2> QED
    BY <1>4, <2>1, <2>2, <2>3, <2>4 DEF FlushStep
<1>5. ~ NothingToFlush
  BY DEF FullInv, NothingToFlush
<1>6. CASE Stop
  BY <1>t, <1>1, <1>6 DEF Stop, Stuck
<1>7. CASE UNCHANGED vars
  BY <1>1, <1>7 DEF vars, Stuck
<1> QED
  BY <1>2, <1>3, <1>4, <1>5, <1>6, <1>7 DEF Next, Stuck

\* The call that fills a batch blocks the handler for good, whatever the other tasks
\* and the server do (FullBatchBlocks).
THEOREM FilledBatchIsFinal == Spec => FullBatchBlocks
<1>1. Init => FullInv
  BY FlushersAreTasks DEF Init, FullInv, Stuck
<1>2. LInv /\ FullInv /\ [Next]_vars => FullInv'
  <2> SUFFICES ASSUME LInv, FullInv, [Next]_vars, Stuck' PROVE buffer' # <<>>
    BY DEF FullInv
  <2>1. CASE Stuck
    BY <2>1, StuckStays DEF FullInv
  <2>2. CASE ~ Stuck
    <3>1. PICK c \in Calls : AddFillsBatch(c)
      BY <2>2, FlushersAreTasks
         DEF LInv, TypeOK, Stuck, Next, AddLog, CallStep, AddBelowBatch, FlushStep,
             FlushBegin, Take, PostOk, PostFails, PutBack, NothingToFlush, Stop,
             Finish, Goto, vars
    <3> QED
      BY <3>1, EmptySeq, LogBoundAssumption DEF AddFillsBatch
  <2> QED
    BY <2>1, <2>2
<1>3. LInv /\ FullInv /\ [Next]_vars
        => [Stuck => /\ Stuck'
                     /\ UNCHANGED <<buffer, added>>
                     /\ phase' = phase \/ phase' = "stopping" \/ pc[Stopper] = "send"]_vars
  BY StuckStays
<1> QED
  BY <1>1, <1>2, <1>3, LInvInit, LInvNext, PTL DEF Spec, FullBatchBlocks

-----------------------------------------------------------------------------
(* The deque is never full: below the batch size there is room for another    *)
(* batch, and the call that reaches it keeps the lock.                        *)

DequeHasRoom == Len(buffer) + Len(taken) <= 2 * BatchSize /\ dropped["full"] = {}

RoomInv ==
    /\ DequeHasRoom
    /\ ~ Stuck => Len(buffer) + Len(taken) < 2 * BatchSize

LEMMA RoomNext ==
    ASSUME MaxBufferSize >= 2 * BatchSize, LInv, RoomInv, [Next]_vars
    PROVE  RoomInv'
<1> USE FlushersAreTasks DEF Goto
<1>t. /\ Len(taken) \in Nat /\ Len(buffer) \in Nat /\ BatchSize \in Nat \ {0}
      /\ BothTyped /\ MaxBufferSize \in Nat /\ TaskInv
      /\ dropped \in [Cause -> SUBSET Entry] /\ "full" \in Cause
      /\ pc \in [Task -> {"idle", "lock", "relock", "done",
                          "off", "sleep", "take", "send", "putback"}]
  BY LogBoundAssumption DEF LInv, TypeOK, BothTyped, Cause
\* Who has the lock and does not wait for it again is not stuck, nor is another.
<1>h. ASSUME NEW t \in Task, holder = t, pc[t] # "relock" PROVE ~ Stuck
  BY <1>h, HolderIsFree
<1>1. ASSUME NEW c \in Calls, CallStep(c) PROVE RoomInv'
  <2>1. /\ AppendEntry /\ added + 1 \in Entry /\ ~ Stuck
        /\ \/ Len(buffer') < BatchSize
           \/ pc' = [pc EXCEPT ![c] = "relock"]
    BY <1>1, <1>h, AppendCounts
       DEF CallStep, AddBelowBatch, AddFillsBatch, AppendEntry
  <2>2. Len(buffer) + Len(taken) < 2 * BatchSize
    BY <2>1 DEF RoomInv, DequeHasRoom
  <2>3. taken' = taken /\ Len(buffer') = Len(buffer) + 1 /\ dropped' = dropped
    BY <1>t, <2>1, <2>2, AppendIs
  <2>4. Len(taken) <= BatchSize
    BY <1>t DEF BothTyped
  <2>5. Len(buffer') < BatchSize \/ Stuck'
    BY <1>t, <2>1 DEF Stuck
  <2> QED
    BY <1>t, <2>1, <2>2, <2>3, <2>4, <2>5 DEF RoomInv, DequeHasRoom
<1>2. ASSUME NEW f \in Flushers, Take(f) PROVE RoomInv'
  <2>1. taken = <<>> /\ Len(taken) = 0 /\ UNCHANGED dropped /\ ~ Stuck
    <3>1. taken = <<>> /\ UNCHANGED dropped
      BY <1>2, OneBatch DEF Take
    <3>2. holder = f /\ pc[f] # "relock" /\ f \in Task
      BY <1>2 DEF Take
    <3> QED
      BY <1>h, <3>1, <3>2, EmptySeq
  <2>2. PICK n \in 0 .. Len(buffer) :
           Len(taken') = n /\ Len(buffer') = Len(buffer) - n
    BY <1>t, <1>2, TakeIs
  <2> QED
    BY <1>t, <2>1, <2>2 DEF RoomInv, DequeHasRoom
<1>3. ASSUME NEW f \in Flushers, PutBack(f) PROVE RoomInv'
  <2> DEFINE total == Len(taken) + Len(buffer)
             n     == IF total < MaxBufferSize THEN total ELSE MaxBufferSize
  <2>1. ~ Stuck
    BY <1>3, <1>h DEF PutBack
  <2>2. total < MaxBufferSize /\ total < 2 * BatchSize
    BY <1>t, <2>1 DEF RoomInv, DequeHasRoom
  <2>3. /\ taken' = <<>> /\ Len(taken') = 0 /\ Len(buffer') = n
        /\ Drop("full", {Unsent(i) : i \in n + 1 .. total})
    BY <1>t, <1>3, PutBackIs
  <2>4. n = total /\ n + 1 .. total = {}
    BY <1>t, <2>2
  <2>5. dropped'["full"] = dropped["full"]
    BY <1>t, <2>3, <2>4 DEF Drop
  <2> QED
    BY <1>t, <2>1, <2>2, <2>3, <2>4, <2>5 DEF RoomInv, DequeHasRoom
<1>4. ASSUME UNCHANGED buffer, taken' = <<>> \/ taken' = taken,
             dropped'["full"] = dropped["full"], Stuck => Stuck'
      PROVE  RoomInv'
  BY <1>t, <1>4 DEF RoomInv, DequeHasRoom
<1>5. ASSUME NEW f \in Flushers, FlushBegin(f) \/ PostOk(f) \/ PostFails(f)
      PROVE  RoomInv'
  <2>2. dropped'["full"] = dropped["full"]
    BY <1>t, <1>5 DEF FlushBegin, PostOk, PostFails, Drop
  <2>1. Stuck => Stuck'
    BY <1>t, <1>5 DEF Stuck, FlushBegin, PostOk, PostFails, Finish
  <2> QED
    BY <1>4, <1>5, <2>1, <2>2 DEF FlushBegin, PostOk, PostFails
<1>6. ASSUME NEW c \in Calls, AddLog(c) PROVE RoomInv'
  <2>1. Stuck => Stuck'
    BY <1>t, <1>6 DEF Stuck, AddLog
  <2> QED
    BY <1>4, <1>6, <2>1 DEF AddLog
<1>7. CASE NothingToFlush \/ Stop
  <2>2. dropped'["full"] = dropped["full"]
    BY <1>t, <1>7 DEF NothingToFlush, Stop, Drop
  <2>1. Stuck => Stuck'
    BY <1>t, <1>7 DEF Stuck, NothingToFlush, Finish, Stop
  <2> QED
    BY <1>4, <1>7, <2>1, <2>2 DEF NothingToFlush, Finish, Stop
<1>8. CASE UNCHANGED vars
  BY <1>4, <1>8 DEF vars, Stuck
<1> QED
  BY <1>1, <1>2, <1>3, <1>5, <1>6, <1>7, <1>8 DEF Next, FlushStep

\* No more than two batches are ever in memory, so that a deque with room for them
\* drops nothing (BATCH_SIZE is 100 and MAX_BUFFER_SIZE 1000), because the call that
\* fills a batch blocks the handler.
THEOREM DequeNeverFull ==
    ASSUME MaxBufferSize >= 2 * BatchSize
    PROVE  Spec => []DequeHasRoom
<1>1. Init => RoomInv
  <2> SUFFICES ASSUME Init PROVE RoomInv
    OBVIOUS
  <2>1. Len(buffer) = 0 /\ Len(taken) = 0 /\ dropped["full"] = {} /\ 0 < 2 * BatchSize
    BY LogBoundAssumption DEF Init, Cause
  <2> QED
    BY <2>1, LogBoundAssumption DEF RoomInv, DequeHasRoom
<1>2. LInv /\ RoomInv /\ [Next]_vars => RoomInv'
  BY RoomNext
<1>3. RoomInv => DequeHasRoom
  BY DEF RoomInv
<1> QED
  BY <1>1, <1>2, <1>3, LInvInit, LInvNext, PTL DEF Spec

=============================================================================
