--------------------------- MODULE SnmpCollection ---------------------------
(***************************************************************************)
(* One device's collections by an SNMP plugin, under the scheduler's       *)
(* COLLECTION_TIMEOUT (core/scheduler.py): every OID is asked for in a     *)
(* datagram of its own, all at once; what comes back becomes the metrics.  *)
(* The four plugins share this code, word for word.                        *)
(*                                                                         *)
(* OIDs do not influence one another but through the dictionary of values, *)
(* so a behaviour follows a few OIDs of one plugin (its target) and lets   *)
(* the others be.  The device is external: its values change at any time,  *)
(* also while an answer is on its way.                                     *)
(***************************************************************************)
EXTENDS SnmpReadings

CONSTANTS
    Targets,            \* [plugin, oids, host] of the behaviours
    AnswersOf(_, _),    \* the values a device may have for a plugin's OID
    Retries,            \* snmp.retries
    MaxCollections,     \* bound on the collections of a behaviour
    MaxDeviceChanges    \* bound on the changes of the device's values

\* Whether timeout * (retries + 1) may exceed COLLECTION_TIMEOUT: the two come
\* from the configuration, which bounds neither.
CONSTANT MayTimeOut

ASSUME TargetAssumption ==
    \A t \in Targets : t.plugin \in Plugin /\ t.oids \subseteq Oids(t.plugin)
ASSUME CollectionBounds ==
    /\ Retries \in Nat /\ MaxCollections \in Nat /\ MaxDeviceChanges \in Nat
    /\ MayTimeOut \in BOOLEAN

VARIABLES
    target,         \* the device: its plugin, the OIDs followed, a host or none
    device,         \* external: the current value of each OID
    changes,        \* changes of the device's values so far
    seen,           \* history: the values each OID had during the collection
    pc,             \* "idle" or "fetching"
    fetch,          \* the _fetch_single_oid of each OID
    result,         \* the metrics of the last collection
    outcome,        \* how it ended: "none", "list" or "timeout"
    rounds          \* collections so far

vars == <<target, device, changes, seen, pc, fetch, result, outcome, rounds>>

Asked == target.oids

TypeOK ==
    /\ target \in Targets
    /\ device \in [Asked -> UNION {AnswersOf(target.plugin, o) : o \in Asked}]
    /\ changes \in 0 .. MaxDeviceChanges
    /\ \A o \in Asked : seen[o] \subseteq AnswersOf(target.plugin, o)
    /\ pc \in {"idle", "fetching"}
    /\ \A o \in Asked :
          \/ fetch[o].at \in {"off", "none"}
          \/ fetch[o].at = "sent" /\ fetch[o].tries \in 0 .. Retries
          \/ fetch[o].at \in {"reply", "got"}
             /\ fetch[o].value \in AnswersOf(target.plugin, o)
    /\ \A m \in result : \E r \in Table[target.plugin] : m.name = r.name
    /\ outcome \in {"none", "list", "timeout"}
    /\ rounds \in 0 .. MaxCollections

Init ==
    /\ target \in Targets
    /\ device \in [Asked -> UNION {AnswersOf(target.plugin, o) : o \in Asked}]
    /\ \A o \in Asked : device[o] \in AnswersOf(target.plugin, o)
    /\ changes = 0
    /\ seen = [o \in Asked |-> {}]
    /\ pc = "idle"
    /\ fetch = [o \in Asked |-> [at |-> "off"]]
    /\ result = {} /\ outcome = "none"
    /\ rounds = 0

-----------------------------------------------------------------------------
(* The device (external) *)

DeviceChanges ==
    /\ changes < MaxDeviceChanges
    /\ \E o \in Asked : \E a \in AnswersOf(target.plugin, o) \ {device[o]} :
          /\ device' = [device EXCEPT ![o] = a]
          /\ seen' = IF pc = "fetching" THEN [seen EXCEPT ![o] = @ \cup {a}] ELSE seen
    /\ changes' = changes + 1
    /\ UNCHANGED <<target, pc, fetch, result, outcome, rounds>>

\* The agent answers with a value, or with an error status.
Answers(o) ==
    /\ fetch[o].at = "sent"
    /\ fetch' = [fetch EXCEPT ![o] =
          [at |-> "reply", tries |-> fetch[o].tries, value |-> device[o]]]
    /\ UNCHANGED <<target, device, changes, seen, pc, result, outcome, rounds>>

-----------------------------------------------------------------------------
(* collect() *)

\* Mutant of Asks: values of the previous collection are still in the dictionary.
AsksAgain ==
    [o \in Asked |-> IF fetch[o].at = "got" THEN fetch[o] ELSE [at |-> "sent", tries |-> 0]]

\* A new dictionary, engine and socket: nothing is left of the last collection.
Asks == [o \in Asked |-> [at |-> "sent", tries |-> 0]]

\* The scheduler's job is due.  A device without a host yields no metrics.
CollectBegin ==
    /\ pc = "idle"
    /\ rounds < MaxCollections
    /\ rounds' = rounds + 1
    /\ result' = {}
    /\ \/ /\ target.host
          /\ pc' = "fetching"
          /\ fetch' = Asks
          /\ seen' = [o \in Asked |-> {device[o]}]
          /\ outcome' = "none"
       \/ /\ ~ target.host
          /\ outcome' = "list"
          /\ UNCHANGED <<pc, fetch, seen>>
    /\ UNCHANGED <<target, device, changes>>

\* The answer arrives in time.
FetchOk(o) ==
    /\ fetch[o].at = "reply"
    /\ fetch' = [fetch EXCEPT ![o] = [at |-> "got", value |-> fetch[o].value]]
    /\ UNCHANGED <<target, device, changes, seen, pc, result, outcome, rounds>>

\* Mutants of FetchRetries: one retry too many, or the retries are not counted.
AsksOnceMore(o) ==
    /\ fetch[o].at \in {"sent", "reply"}
    /\ fetch[o].tries <= Retries
    /\ fetch' = [fetch EXCEPT ![o] = [at |-> "sent", tries |-> fetch[o].tries + 1]]
    /\ UNCHANGED <<target, device, changes, seen, pc, result, outcome, rounds>>
AsksForever(o) ==
    /\ fetch[o].at \in {"sent", "reply"}
    /\ fetch' = [fetch EXCEPT ![o] = [at |-> "sent", tries |-> 1 - fetch[o].tries]]
    /\ UNCHANGED <<target, device, changes, seen, pc, result, outcome, rounds>>

\* The question or its answer is lost, and asked again as long as there are
\* retries left.
FetchRetries(o) ==
    /\ fetch[o].at \in {"sent", "reply"}
    /\ fetch[o].tries < Retries
    /\ fetch' = [fetch EXCEPT ![o] = [at |-> "sent", tries |-> fetch[o].tries + 1]]
    /\ UNCHANGED <<target, device, changes, seen, pc, result, outcome, rounds>>

\* No answer after the retries, an error status, or an exception: None.
FetchFails(o) ==
    /\ fetch[o].at \in {"sent", "reply"}
    /\ fetch' = [fetch EXCEPT ![o] = [at |-> "none"]]
    /\ UNCHANGED <<target, device, changes, seen, pc, result, outcome, rounds>>

Got == {o \in Asked : fetch[o].at = "got"}

\* Mutant of Values: one failed fetch spoils them all.
AllOrNothing == [o \in {q \in Asked : Got = Asked} |-> fetch[o].value]

\* The dictionary that gather() fills: results that are None are left out.
Values == [o \in Got |-> fetch[o].value]

\* All fetches have ended: the metrics are parsed and handed to the callback.
\* No metric at all is an empty list, and a collection like any other.
Collected ==
    /\ pc = "fetching"
    /\ \A o \in Asked : fetch[o].at \in {"got", "none"}
    /\ result' = ParseMetrics(target.plugin, Values)
    /\ outcome' = "list"
    /\ pc' = "idle"
    /\ UNCHANGED <<target, device, changes, seen, fetch, rounds>>

\* wait_for() cancels the fetches; what was answered so far is lost with them.
CollectionTimeout ==
    /\ MayTimeOut
    /\ pc = "fetching"
    /\ fetch' = [o \in Asked |-> [at |-> "off"]]
    /\ outcome' = "timeout"
    /\ pc' = "idle"
    /\ UNCHANGED <<target, device, changes, seen, result, rounds>>

Finished == pc = "idle" /\ rounds = MaxCollections /\ UNCHANGED vars

Fetch(o) == FetchOk(o) \/ FetchRetries(o) \/ FetchFails(o)

Next ==
    \/ DeviceChanges
    \/ \E o \in Asked : Answers(o) \/ Fetch(o)
    \/ CollectBegin \/ Collected \/ CollectionTimeout
    \/ Finished

Spec == Init /\ [][Next]_vars

(***************************************************************************)
(* Each wait for an answer ends, by the answer or by its timeout, and      *)
(* gather() returns when all have.  Nothing says that the device answers.  *)
(***************************************************************************)
FairSpec == Spec /\ WF_vars((\E o \in Asked : Fetch(o)) \/ Collected)

-----------------------------------------------------------------------------
(* Properties *)

\* A metric tells of a value its own OID had while the collection lasted: it is
\* never taken from another OID whose fetch failed beside it, nor from the
\* collection before.
ReadingsAreCurrent ==
    \A m \in result : \E r \in Table[target.plugin] :
        r.oid \in Asked /\ \E a \in seen[r.oid] : m \in MetricsOf(r, a)

\* What was answered is reported, whichever of the other fetches failed.
FailuresAreLocal ==
    outcome = "list" /\ target.host =>
        \A r \in Table[target.plugin] :
            r.oid \in Got => MetricsOf(r, fetch[r.oid].value) \subseteq result

\* The uptimes that _parse_uptime_string documents are read as what they say,
\* with and without days, as a clock, in units and as a bare number.
Times == (0 .. 1) \X {0, 2} \X {0, 30} \X {0, 45}
Seconds(t) == t[1] * 86400 + t[2] * 3600 + t[3] * 60 + t[4]
InUnits(t) == << <<t[1], "d">>, <<t[2], "h">>, <<t[3], "m">>, <<t[4], "s">> >>
AsClock(t) ==
    (IF t[1] = 0 THEN <<>> ELSE << <<t[1], "d">> >>)
        \o << <<t[2], ":">>, <<t[3], ":">>, <<t[4], "none">> >>
UptimesAreRead ==
    target.plugin = "omnia_volt" =>
        \A t \in Times :
            /\ ParseUptime(Uptime(AsClock(t))) = {Seconds(t)}
            /\ Seconds(t) > 0 => ParseUptime(Uptime(InUnits(t))) = {Seconds(t)}
            /\ ParseUptime(Number(Seconds(t))) = {Seconds(t)}

\* No measurement is invented for what the device does not have: a number, a
\* level or an uptime is reported only for an OID that had a value.
Measurement == {"number", "reading", "db", "uptime"}
AbsentIsNotMeasured ==
    \A r \in Table[target.plugin] :
        r.kind \in Measurement /\ r.oid \in Asked /\ seen[r.oid] = {Missing} =>
            \A m \in result : m.name # r.name

\* A collection ends, whatever the device answers or does not answer.
CollectionEnds == pc = "fetching" ~> pc = "idle"

=============================================================================
