------------------------------- MODULE Station -------------------------------
(***************************************************************************)
(* The collectors of one station and the server that decides which of them *)
(* collects (core/heartbeat.py, main.py: start() and _monitor_role()).     *)
(* Collector models one of them with its devices; here only what bears on  *)
(* who collects is left.                                                   *)
(*                                                                         *)
(* The server is external: it names one collector at a time, and may name  *)
(* another whenever it likes.  The history of its choices is kept, so that *)
(* an answer is the number of the choice it was given under.               *)
(***************************************************************************)
EXTENDS Naturals, Sequences

CONSTANTS
    Collectors,         \* the collectors of the station
    MaxChoices,         \* bound on the choices of the server
    MaxCrashes          \* bound on the processes that die

ASSUME StationAssumption ==
    /\ Collectors # {}
    /\ MaxChoices \in Nat \ {0} /\ MaxCrashes \in Nat

VARIABLES
    choices,            \* history: whom the server has chosen, the last one counts
    phase,              \* of each process: "down", "first" (send_immediate() is
                        \* in flight), "load" or "up"
    startCollecting,    \* should_collect, the local variable of start()
    collecting,         \* _scheduler_running
    heard,              \* history: the choice behind _should_collect, or Unheard
    basis,              \* history: the one the scheduler was last judged by
    beats,              \* the heartbeats in flight of each collector
    crashes

told == <<heard, beats>>
own == <<startCollecting, collecting, basis>>
vars == <<choices, phase, own, told, crashes>>

Unheard == 0            \* no answer yet: _should_collect is True
Choice == 1 .. Len(choices)
Sender == {"loop", "immediate"}
Idle == [at |-> "idle", choice |-> Unheard]
Sent == [at |-> "sent", choice |-> Unheard]
Beat == [at : {"idle", "sent", "answered"}, choice : {Unheard} \cup Choice]

TypeOK ==
    /\ choices \in Seq(Collectors) /\ Len(choices) \in 1 .. MaxChoices
    /\ phase \in [Collectors -> {"down", "first", "load", "up"}]
    /\ startCollecting \in [Collectors -> BOOLEAN]
    /\ collecting \in [Collectors -> BOOLEAN]
    /\ heard \in [Collectors -> {Unheard} \cup Choice]
    /\ basis \in [Collectors -> {Unheard} \cup Choice]
    /\ beats \in [Collectors -> [Sender -> Beat]]
    /\ crashes \in 0 .. MaxCrashes

Init ==
    /\ choices \in {<<c>> : c \in Collectors}
    /\ phase = [c \in Collectors |-> "down"]
    /\ startCollecting = [c \in Collectors |-> FALSE]
    /\ collecting = [c \in Collectors |-> FALSE]
    /\ heard = [c \in Collectors |-> Unheard]
    /\ basis = [c \in Collectors |-> Unheard]
    /\ beats = [c \in Collectors |-> [s \in Sender |-> Idle]]
    /\ crashes = 0

Chosen == choices[Len(choices)]

\* What a collector was told by choice n; before any answer, to collect.
ShouldCollect(c, n) == n = Unheard \/ choices[n] = c

-----------------------------------------------------------------------------
(* The server and the network *)

ServerChooses ==
    /\ Len(choices) < MaxChoices
    /\ \E c \in Collectors \ {Chosen} : choices' = Append(choices, c)
    /\ UNCHANGED <<phase, own, told, crashes>>

ServerAnswers(c, s) ==
    /\ beats[c][s] = Sent
    /\ beats' = [beats EXCEPT ![c][s] = [at |-> "answered", choice |-> Len(choices)]]
    /\ UNCHANGED <<choices, phase, own, heard, crashes>>

-----------------------------------------------------------------------------
(* HeartbeatManager *)

SendHeartbeat(c) ==
    /\ phase[c] # "down"
    /\ beats[c]["loop"] = Idle
    /\ beats' = [beats EXCEPT ![c]["loop"] = Sent]
    /\ UNCHANGED <<choices, phase, own, heard, crashes>>

\* Mutant of TakeAnswer: a role, once heard, is kept.
KeepRole(c, s) ==
    /\ beats[c][s].at = "answered"
    /\ heard' = [heard EXCEPT ![c] = IF @ = Unheard THEN beats[c][s].choice ELSE @]
    /\ beats' = [beats EXCEPT ![c][s] = Idle]

\* _should_collect is that of the answer that comes last.
TakeAnswer(c, s) ==
    /\ beats[c][s].at = "answered"
    /\ heard' = [heard EXCEPT ![c] = beats[c][s].choice]
    /\ beats' = [beats EXCEPT ![c][s] = Idle]

LoopAnswered(c) ==
    /\ TakeAnswer(c, "loop")
    /\ UNCHANGED <<choices, phase, own, crashes>>

\* A timeout or an error: the role stays.
LoopFails(c) ==
    /\ beats[c]["loop"] # Idle
    /\ beats' = [beats EXCEPT ![c]["loop"] = Idle]
    /\ UNCHANGED <<choices, phase, own, heard, crashes>>

-----------------------------------------------------------------------------
(* Collector.start() and _monitor_role() *)

\* A new process knows nothing of the last one; the loop and send_immediate()
\* both send.
Start(c) ==
    /\ phase[c] = "down"
    /\ phase' = [phase EXCEPT ![c] = "first"]
    /\ heard' = [heard EXCEPT ![c] = Unheard]
    /\ beats' = [beats EXCEPT ![c] = [s \in Sender |-> Sent]]
    /\ UNCHANGED <<choices, own, crashes>>

StartAnswered(c) ==
    /\ phase[c] = "first"
    /\ TakeAnswer(c, "immediate")
    /\ startCollecting' = [startCollecting EXCEPT
          ![c] = ShouldCollect(c, beats[c]["immediate"].choice)]
    /\ basis' = [basis EXCEPT ![c] = beats[c]["immediate"].choice]
    /\ phase' = [phase EXCEPT ![c] = "load"]
    /\ UNCHANGED <<choices, collecting, crashes>>

\* "Assume primary if can't reach server".
StartUnanswered(c) ==
    /\ phase[c] = "first"
    /\ beats[c]["immediate"] # Idle
    /\ beats' = [beats EXCEPT ![c]["immediate"] = Idle]
    /\ startCollecting' = [startCollecting EXCEPT ![c] = TRUE]
    /\ basis' = [basis EXCEPT ![c] = Unheard]
    /\ phase' = [phase EXCEPT ![c] = "load"]
    /\ UNCHANGED <<choices, collecting, heard, crashes>>

\* The plugins are loaded; the scheduler starts as it was decided before.
StartScheduler(c) ==
    /\ phase[c] = "load"
    /\ phase' = [phase EXCEPT ![c] = "up"]
    /\ collecting' = [collecting EXCEPT ![c] = startCollecting[c]]
    /\ UNCHANGED <<choices, startCollecting, basis, told, crashes>>

\* Mutant of MonitorLooks: a collector that lost its role goes on.
PromoteOnly(c) ==
    /\ phase[c] = "up"
    /\ basis' = [basis EXCEPT ![c] = heard[c]]
    /\ collecting' = [collecting EXCEPT ![c] = @ \/ ShouldCollect(c, heard[c])]
    /\ UNCHANGED <<choices, phase, startCollecting, told, crashes>>

\* Every ROLE_CHECK_INTERVAL: the scheduler is started or stopped, or left.
MonitorLooks(c) ==
    /\ phase[c] = "up"
    /\ basis' = [basis EXCEPT ![c] = heard[c]]
    /\ collecting' = [collecting EXCEPT ![c] = ShouldCollect(c, heard[c])]
    /\ UNCHANGED <<choices, phase, startCollecting, told, crashes>>

Crash(c) ==
    /\ phase[c] # "down" /\ crashes < MaxCrashes
    /\ crashes' = crashes + 1
    /\ phase' = [phase EXCEPT ![c] = "down"]
    /\ startCollecting' = [startCollecting EXCEPT ![c] = FALSE]
    /\ collecting' = [collecting EXCEPT ![c] = FALSE]
    /\ heard' = [heard EXCEPT ![c] = Unheard]
    /\ basis' = [basis EXCEPT ![c] = Unheard]
    /\ beats' = [beats EXCEPT ![c] = [s \in Sender |-> Idle]]
    /\ UNCHANGED choices

-----------------------------------------------------------------------------

StartStep(c) == StartAnswered(c) \/ StartUnanswered(c) \/ StartScheduler(c)

CollectorStep(c) ==
    \/ Start(c) \/ StartStep(c)
    \/ SendHeartbeat(c) \/ LoopAnswered(c) \/ LoopFails(c)
    \/ MonitorLooks(c)
    \/ Crash(c)
    \/ \E s \in Sender : ServerAnswers(c, s)

Next == ServerChooses \/ \E c \in Collectors : CollectorStep(c)

Spec == Init /\ [][Next]_vars

(***************************************************************************)
(* start() and the loops go on; a heartbeat may fail, but not every time.  *)
(* Nothing is fair about the start of a process.                           *)
(***************************************************************************)
FairSpec ==
    /\ Spec
    /\ \A c \in Collectors :
          /\ WF_vars(StartStep(c))
          /\ WF_vars(SendHeartbeat(c)) /\ WF_vars(MonitorLooks(c))
          /\ SF_vars(ServerAnswers(c, "loop")) /\ SF_vars(LoopAnswered(c))

-----------------------------------------------------------------------------
(* Properties *)

\* Two collect at once only with a cause that passes: one of them was last
\* judged before the server answered it, or by another choice of the server.
OverlapHasCause ==
    \A c, d \in Collectors :
        c # d /\ collecting[c] /\ collecting[d] =>
            \/ Unheard \in {basis[c], basis[d]}
            \/ basis[c] # basis[d]

\* "Primary/backup": however the collectors started, whatever they assumed and
\* in whatever order answers came, in the end the one the server has chosen
\* collects and the others do not.
OneCollects ==
    <>[](\A c \in Collectors : phase[c] # "down" => collecting[c] = (c = Chosen))

=============================================================================
