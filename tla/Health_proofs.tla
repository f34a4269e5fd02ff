---------------------------- MODULE Health_proofs ----------------------------
(***************************************************************************)
(* The judges of a collector's health, for any limits that satisfy         *)
(* HealthAssumption, any counters and any number of process starts.        *)
(***************************************************************************)
EXTENDS Health, TLAPS

\* The limits are numbers in the order that Docker and the watchdog need.
LEMMA Limits ==
    /\ Old \in Nat /\ Never \in Nat /\ Never = Old + 1
    /\ FileLimit \in Nat /\ FileLimit <= ActivityLimit
    /\ ActivityLimit \in Nat /\ WatchdogInterval \in Nat
    /\ ActivityLimit < Old
    /\ MaxFailures \in Nat /\ MaxBeatFailures \in Nat /\ MaxStarts \in Nat
BY HealthAssumption DEF Old, Never

\* The types of every variable hold in every state.
THEOREM TypeCorrect == Spec => []TypeOK
<1> USE Limits
<1>1. Init => TypeOK
  <2>1. Init => Flags
    BY Zenon DEF Init, Flags
  <2>2. Init => Ages
    BY DEF Init, Ages, Age
  <2> QED
    BY <2>1, <2>2 DEF Init, TypeOK
<1>2. TypeOK /\ [Next]_vars => TypeOK'
  <2> SUFFICES ASSUME TypeOK, [Next]_vars PROVE TypeOK'
    OBVIOUS
  <2> USE DEF TypeOK, Age
  <2>1. CASE StartBegin
    <3>1. Flags'
      BY <2>1, Zenon DEF StartBegin, CleanMarker, Flags
    <3>2. Ages' /\ phase' \in {"down", "starting", "up"}
      BY <2>1 DEF StartBegin, CleanMarker, Ages
    <3> QED
      BY <3>1, <3>2
  <2>2. CASE StartEnds
    <3>1. Flags'
      BY <2>2, Zenon DEF StartEnds, Touch, files, collections, heartbeats, Flags
    <3>2. Ages' /\ phase' \in {"down", "starting", "up"}
      BY <2>2 DEF StartEnds, Touch, files, collections, heartbeats, Ages
    <3> QED
      BY <3>1, <3>2
  <2>3. CASE ProcessEnds
    BY <2>3 DEF Flags, Ages, ProcessEnds, files, collections, heartbeats
  <2>4. CASE RoleChanges
    BY <2>4 DEF Flags, Ages, RoleChanges, files, collections, heartbeats
  <2>5. CASE MetricsCollected
    <3>1. Flags'
      BY <2>5, Zenon DEF MetricsCollected, Touch, files, heartbeats, Flags
    <3>2. Ages' /\ phase' \in {"down", "starting", "up"}
      BY <2>5 DEF MetricsCollected, Touch, files, heartbeats, Ages
    <3> QED
      BY <3>1, <3>2
  <2>6. CASE NothingCollected
    BY <2>6 DEF Flags, Ages, NothingCollected, files, heartbeats
  <2>7. CASE CollectionFails
    BY <2>7 DEF Flags, Ages, CollectionFails, files, heartbeats
  <2>8. CASE HeartbeatOk
    BY <2>8 DEF Flags, Ages, HeartbeatOk, files, collections
  <2>9. CASE HeartbeatFails
    BY <2>9 DEF Flags, Ages, HeartbeatFails, files, collections
  <2>10. CASE WatchdogChecks
    <3>1. Flags'
      BY <2>10, Zenon DEF WatchdogChecks, collections, heartbeats, Flags
    <3>2. Ages' /\ phase' \in {"down", "starting", "up"}
      BY <2>10 DEF WatchdogChecks, collections, heartbeats, Ages
    <3> QED
      BY <3>1, <3>2
  <2>11. CASE LoopBlocks
    BY <2>11 DEF Flags, Ages, LoopBlocks, files, collections, heartbeats
  <2>12. CASE Tick
    BY <2>12 DEF Flags, Ages, Tick, Older
  <2>13. CASE UNCHANGED vars
    BY <2>13 DEF Flags, Ages, vars, files, collections, heartbeats
  <2> QED
    BY <2>1, <2>2, <2>3, <2>4, <2>5, <2>6, <2>7, <2>8, <2>9, <2>10, <2>11,
       <2>12, <2>13 DEF Next
<1> QED
  BY <1>1, <1>2, PTL DEF Spec

-----------------------------------------------------------------------------

\* What the judges look at, against the silence they are to judge: no file is
\* younger than the silence, and as long as the file system works every age is
\* the silence, a marker tells of a long one, and a silence without a marker has
\* grown since the watchdog looked last.
AgesTell ==
    phase = "up" =>
        /\ silent <= fileAge
        /\ ~ untouched =>
              /\ fileAge = silent /\ activityAge = silent
              /\ marker => silent > ActivityLimit
              /\ ~ marker => silent <= ActivityLimit + sleeping

\* Every step of the collector, of its watchdog and of the clock keeps to that.
LEMMA AgesTellInvariant == Spec => []AgesTell
<1> USE Limits
<1>1. Init => AgesTell
  BY DEF Init, AgesTell
<1>2. TypeOK /\ AgesTell /\ [Next]_vars => AgesTell'
  <2> SUFFICES ASSUME TypeOK, AgesTell, [Next]_vars PROVE AgesTell'
    OBVIOUS
  <2> USE DEF TypeOK, Flags, Ages, AgesTell, Age
  <2>1. CASE StartBegin
    BY <2>1 DEF StartBegin
  <2>2. CASE StartEnds
    BY <2>2 DEF StartEnds, Touch, files
  <2>3. CASE ProcessEnds
    BY <2>3 DEF ProcessEnds
  <2>4. CASE RoleChanges \/ NothingCollected \/ CollectionFails \/ HeartbeatOk
              \/ HeartbeatFails \/ LoopBlocks \/ UNCHANGED vars
    BY <2>4 DEF RoleChanges, NothingCollected, CollectionFails, HeartbeatOk,
                HeartbeatFails, LoopBlocks, vars, files
  <2>5. CASE MetricsCollected
    BY <2>5 DEF MetricsCollected, Touch, files
  <2>6. CASE WatchdogChecks
    BY <2>6 DEF WatchdogChecks
  <2>7. CASE Tick
    BY <2>7 DEF Tick, Older
  <2> QED
    BY <2>1, <2>2, <2>3, <2>4, <2>5, <2>6, <2>7 DEF Next
<1> QED
  BY <1>1, <1>2, TypeCorrect, PTL DEF Spec

\* Docker is right about every silence beyond the limit, whatever blocks the
\* event loop and whatever the file system refuses.
THEOREM DockerSeesSilence == Spec => []SilenceIsSeen
<1>1. TypeOK /\ AgesTell => SilenceIsSeen
  BY Limits DEF TypeOK, Ages, AgesTell, SilenceIsSeen, DockerHealthy, Age
<1> QED
  BY <1>1, TypeCorrect, AgesTellInvariant, PTL

\* Docker is never alarmed by a collector that brings metrics in time, as long as
\* its files can be written.
THEOREM DockerIsNotAlarmed == Spec => []NoFalseAlarm
<1>1. TypeOK /\ AgesTell => NoFalseAlarm
  BY Limits DEF TypeOK, Ages, AgesTell, NoFalseAlarm, DockerHealthy, Age
<1> QED
  BY <1>1, TypeCorrect, AgesTellInvariant, PTL

\* The watchdog marks every silence longer than its two limits together.
THEOREM WatchdogMarksSilence == Spec => []WatchdogReports
<1>1. TypeOK /\ AgesTell => WatchdogReports
  BY Limits DEF TypeOK, Ages, AgesTell, WatchdogReports, WatchdogDue, Age
<1> QED
  BY <1>1, TypeCorrect, AgesTellInvariant, PTL

\* health_check() never contradicts an alarm of Docker's.
THEOREM HealthChecksAgree == Spec => []HealthCheckIsStricter
<1>1. TypeOK /\ AgesTell => HealthCheckIsStricter
  BY Limits DEF TypeOK, Ages, AgesTell, HealthCheckIsStricter, HealthCheck, DockerHealthy, Age
<1> QED
  BY <1>1, TypeCorrect, AgesTellInvariant, PTL

=============================================================================
