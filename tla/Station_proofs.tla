---------------------------- MODULE Station_proofs ----------------------------
(***************************************************************************)
(* For any collectors, choices and crashes: the types, and what it takes   *)
(* for two to collect at once.                                             *)
(***************************************************************************)
EXTENDS Station, SequenceTheorems, TLAPS

USE DEF Unheard, Sender, Idle, Sent

\* The types of every variable hold initially and through every step of a
\* collector, of the server and of the network.
THEOREM TypeCorrect == Spec => []TypeOK
<1>1. Init => TypeOK
  <2> SUFFICES ASSUME Init PROVE TypeOK
    OBVIOUS
  <2>1. PICK c \in Collectors : choices = <<c>>
    BY DEF Init
  <2>2. choices \in Seq(Collectors) /\ Len(choices) = 1
    BY <2>1
  <2>3. Len(choices) \in 1 .. MaxChoices /\ crashes \in 0 .. MaxCrashes
    BY <2>2, StationAssumption DEF Init
  <2> QED
    BY <2>2, <2>3 DEF Init, TypeOK, Beat
<1>2. TypeOK /\ [Next]_vars => TypeOK'
  <2> SUFFICES ASSUME TypeOK, [Next]_vars PROVE TypeOK'
    OBVIOUS
  <2> USE DEF TypeOK, Choice, Beat
  <2> Len(choices) \in Nat
    OBVIOUS
  <2>1. CASE ServerChooses
    <3>1. PICK c \in Collectors : choices' = Append(choices, c)
      BY <2>1 DEF ServerChooses
    <3>2. choices' \in Seq(Collectors) /\ Len(choices') = Len(choices) + 1
      BY <3>1
    <3>3. Len(choices') \in 1 .. MaxChoices
      BY <2>1, <3>2, StationAssumption DEF ServerChooses
    <3>4. Choice \subseteq Choice'
      BY <3>2
    <3>5. /\ heard' \in [Collectors -> {Unheard} \cup Choice']
          /\ basis' \in [Collectors -> {Unheard} \cup Choice']
      BY <2>1, <3>4 DEF ServerChooses, own, told
    <3>6. Beat \subseteq Beat'
      BY <3>4
    <3>7. beats' \in [Collectors -> [Sender -> Beat']]
      BY <2>1, <3>6 DEF ServerChooses, told
    <3> QED
      BY <2>1, <3>2, <3>3, <3>5, <3>7 DEF ServerChooses, own
  <2>2. ASSUME NEW c \in Collectors, CollectorStep(c) PROVE TypeOK'
    <3>1. CASE Start(c)
      BY <3>1 DEF Start, own
    <3>2. CASE StartAnswered(c)
      BY <3>2 DEF StartAnswered, TakeAnswer, ShouldCollect
    <3>3. CASE StartUnanswered(c)
      BY <3>3 DEF StartUnanswered
    <3>4. CASE StartScheduler(c)
      BY <3>4 DEF StartScheduler, told
    <3>5. CASE SendHeartbeat(c)
      BY <3>5 DEF SendHeartbeat, own
    <3>6. CASE LoopAnswered(c)
      BY <3>6 DEF LoopAnswered, TakeAnswer, own
    <3>7. CASE LoopFails(c)
      BY <3>7 DEF LoopFails, own
    <3>8. CASE MonitorLooks(c)
      BY <3>8 DEF MonitorLooks, ShouldCollect, told
    <3>9. CASE Crash(c)
      BY <3>9, StationAssumption DEF Crash
    <3>10. ASSUME NEW s \in Sender, ServerAnswers(c, s) PROVE TypeOK'
      BY <3>10 DEF ServerAnswers, own
    <3> QED
      BY <2>2, <3>1, <3>2, <3>3, <3>4, <3>5, <3>6, <3>7, <3>8, <3>9, <3>10
      DEF CollectorStep, StartStep
  <2>3. CASE UNCHANGED vars
    BY <2>3 DEF vars, own, told
  <2> QED
    BY <2>1, <2>2, <2>3 DEF Next
<1> QED
  BY <1>1, <1>2, PTL DEF Spec

-----------------------------------------------------------------------------

\* What a collector does follows from what it was last judged by: the scheduler
\* of one that is up, and the decision of one that still loads its plugins.
Judged ==
    \A c \in Collectors :
        /\ phase[c] = "load" /\ startCollecting[c] => ShouldCollect(c, basis[c])
        /\ collecting[c] => phase[c] = "up" /\ ShouldCollect(c, basis[c])

\* start() and the role monitor keep to that through every order of answers.
LEMMA JudgedInvariant == Spec => []Judged
<1>1. Init => Judged
  BY DEF Init, Judged
<1>2. TypeOK /\ TypeOK' /\ Judged /\ [Next]_vars => Judged'
  <2> SUFFICES ASSUME TypeOK, Judged, [Next]_vars PROVE Judged'
    OBVIOUS
  <2> USE DEF TypeOK, Judged, ShouldCollect, Choice
  <2> Len(choices) \in Nat
    OBVIOUS
  <2>1. CASE ServerChooses
    <3>1. PICK c \in Collectors : choices' = Append(choices, c)
      BY <2>1 DEF ServerChooses
    <3>2. \A n \in Choice : choices'[n] = choices[n]
      BY <3>1
    <3> QED
      BY <2>1, <3>2 DEF ServerChooses, own, told
  <2>2. ASSUME NEW c \in Collectors, CollectorStep(c) PROVE Judged'
    <3>1. CASE Start(c)
      BY <3>1 DEF Start, own
    <3>2. CASE StartAnswered(c)
      BY <3>2 DEF StartAnswered
    <3>3. CASE StartUnanswered(c)
      BY <3>3 DEF StartUnanswered
    <3>4. CASE StartScheduler(c)
      BY <3>4 DEF StartScheduler, told
    <3>5. CASE SendHeartbeat(c)
      BY <3>5 DEF SendHeartbeat, own
    <3>6. CASE LoopAnswered(c)
      BY <3>6 DEF LoopAnswered, own
    <3>7. CASE LoopFails(c)
      BY <3>7 DEF LoopFails, own
    <3>8. CASE MonitorLooks(c)
      BY <3>8 DEF MonitorLooks, told
    <3>9. CASE Crash(c)
      BY <3>9 DEF Crash
    <3>10. ASSUME NEW s \in Sender, ServerAnswers(c, s) PROVE Judged'
      BY <3>10 DEF ServerAnswers, own
    <3> QED
      BY <2>2, <3>1, <3>2, <3>3, <3>4, <3>5, <3>6, <3>7, <3>8, <3>9, <3>10
      DEF CollectorStep, StartStep
  <2>3. CASE UNCHANGED vars
    BY <2>3 DEF vars, own, told
  <2> QED
    BY <2>1, <2>2, <2>3 DEF Next
<1> QED
  BY <1>1, <1>2, TypeCorrect, PTL DEF Spec

\* No two collectors collect on the strength of one choice of the server, for
\* any number of collectors, choices and crashes.
THEOREM OverlapsPass == Spec => []OverlapHasCause
<1>1. TypeOK /\ Judged => OverlapHasCause
  BY DEF TypeOK, Judged, OverlapHasCause, ShouldCollect
<1> QED
  BY <1>1, TypeCorrect, JudgedInvariant, PTL
=============================================================================
