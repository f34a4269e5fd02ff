------------------------ MODULE SnmpCollection_proofs ------------------------
(***************************************************************************)
(* Theorems about SnmpCollection, for any devices and answers, any number  *)
(* of retries, collections and changes.                                    *)
(***************************************************************************)
EXTENDS SnmpCollection, SequenceTheorems, TLAPS

-----------------------------------------------------------------------------
(* The table and the dictionary *)

\* A metric has the name of the row it comes from.
LEMMA MetricIsNamed ==
    ASSUME NEW r, NEW a, NEW m \in MetricsOf(r, a)
    PROVE  m.name = r.name
  BY DEF MetricsOf

\* No two rows of a plugin report under the same name.
LEMMA NamesAreUnique ==
    ASSUME NEW p \in Plugin, NEW q \in Table[p], NEW r \in Table[p], q.name = r.name
    PROVE  q = r
<1>1. \A x, y \in Sg9System \cup Sg9Input \cup Sg9Output : x.name = y.name => x = y
  BY DEF Sg9System, Sg9Input, Sg9Output, Rows, Row
<1>2. \A x, y \in MpxNumbers \cup MpxFlags : x.name = y.name => x = y
  BY DEF MpxNumbers, MpxFlags, Rows, Row
<1>3. \A x, y \in DecoderNumbers \cup DecoderStreams : x.name = y.name => x = y
  BY DEF DecoderNumbers, DecoderStreams, Rows, Row
<1>4. \A x, y \in VoltMetrics : x.name = y.name => x = y
  BY DEF VoltMetrics, Rows, Row
<1> QED
  BY <1>1, <1>2, <1>3, <1>4 DEF Plugin, Table

\* The text of an instance that does not exist holds no number and no time.
LEMMA NothingMeasured ==
    ASSUME NEW r, r.kind \in Measurement
    PROVE  MetricsOf(r, Missing) = {}
<1>1. Missing.number = {} /\ Missing.time = <<>>
  BY DEF Missing, Word
<1>2. ParseUptime(Missing) = {}
  <2>1. ClockAt(<<>>) = {}
    BY DEF ClockAt
  <2>2. \A units : First(<<>>, units) = 0
    BY DEF First
  <2> QED
    BY <1>1, <2>1, <2>2 DEF ParseUptime
<1>3. ParseNumeric(Missing) = {} /\ ParseDb(Missing) = {}
  BY <1>1 DEF ParseNumeric, ParseDb
<1>4. Reported(r, Missing) = {}
  BY <1>2, <1>3 DEF Reported, Measurement
<1> QED
  BY <1>4 DEF MetricsOf

\* What a collection reports comes from the rows whose OIDs were answered, and
\* all of it.
LEMMA ParsedRows ==
    ASSUME NEW p, NEW S, NEW values, DOMAIN values = S
    PROVE  /\ \A m \in ParseMetrics(p, values) : \E r \in Table[p] :
                  r.oid \in S /\ m \in MetricsOf(r, values[r.oid])
           /\ \A r \in Table[p] : r.oid \in S =>
                  MetricsOf(r, values[r.oid]) \subseteq ParseMetrics(p, values)
  BY DEF ParseMetrics

-----------------------------------------------------------------------------
(* Uptimes *)

\* The first number with one of these units, where it is known which it is.
LEMMA FirstAt ==
    ASSUME NEW ts, NEW units, Len(ts) \in Nat, NEW i \in 1 .. Len(ts), ts[i][2] \in units,
           \A j \in 1 .. Len(ts) : j < i => ts[j][2] \notin units
    PROVE  First(ts, units) = ts[i][1]
<1> DEFINE at == {j \in 1 .. Len(ts) : ts[j][2] \in units}
<1>1. i \in at /\ \A j \in at : i <= j
  OBVIOUS
<1>2. (CHOOSE k \in at : \A j \in at : k <= j) = i
  BY <1>1
<1> QED
  BY <1>1, <1>2 DEF First

\* A unit that does not occur counts for nothing.
LEMMA FirstNone ==
    ASSUME NEW ts, NEW units, \A j \in 1 .. Len(ts) : ts[j][2] \notin units
    PROVE  First(ts, units) = 0
<1>1. {j \in 1 .. Len(ts) : ts[j][2] \in units} = {}
  OBVIOUS
<1> QED
  BY <1>1 DEF First

\* The one clock of an uptime is read with the days.
LEMMA ClockIsRead ==
    ASSUME NEW ts, NEW i, NEW j, NEW k, j = i + 1, k = i + 2,
           Len(ts) # 1, ClockAt(ts) = {i}, i \in Nat
    PROVE  ParseUptime(Uptime(ts)) =
               {ts[i][1] * 3600 + ts[j][1] * 60 + ts[k][1] + First(ts, {"d"}) * 86400}
<1>1. FirstClock(ts) = i
  BY DEF FirstClock
<1>2. Uptime(ts).time = ts
  BY DEF Uptime
<1> QED
  BY <1>1, <1>2 DEF ParseUptime, ClockTime, Clock

\* A bare number is itself.
LEMMA NumberIsRead == ASSUME NEW n PROVE ParseUptime(Number(n)) = {n}
  BY DEF ParseUptime, Number

\* The three forms of UptimesAreRead, whatever their numbers.
Numbered(ts, n) == Len(ts) = n /\ \A i \in 1 .. n : ts[i][1] \in Nat
IsClock(ts) ==
    Numbered(ts, 3) /\ ts[1][2] = ":" /\ ts[2][2] = ":" /\ ts[3][2] = "none"
IsClockAfterDays(ts) ==
    /\ Numbered(ts, 4)
    /\ ts[1][2] = "d" /\ ts[2][2] = ":" /\ ts[3][2] = ":" /\ ts[4][2] = "none"
IsInUnits(ts) ==
    /\ Numbered(ts, 4)
    /\ ts[1][2] = "d" /\ ts[2][2] = "h" /\ ts[3][2] = "m" /\ ts[4][2] = "s"

LEMMA ClockAlone ==
    ASSUME NEW ts, IsClock(ts)
    PROVE  ParseUptime(Uptime(ts)) = {ts[1][1] * 3600 + ts[2][1] * 60 + ts[3][1]}
<1>1. Len(ts) = 3 /\ ts[1][2] = ":" /\ ts[2][2] = ":" /\ ts[3][2] = "none"
  BY DEF IsClock, Numbered
<1>2. \A j \in 1 .. Len(ts) : j = 1 \/ j = 2 \/ j = 3
  BY <1>1
<1>3. ClockAt(ts) = {1}
  <2>1. \A n \in 1 .. Len(ts) - 2 : ts[n][2] = ":" /\ ts[n + 1][2] = ":" <=> n = 1
    BY <1>1, <1>2
  <2>2. 1 \in 1 .. Len(ts) - 2
    BY <1>1
  <2> QED
    BY <2>1, <2>2 DEF ClockAt
<1>4. First(ts, {"d"}) = 0
  <2>1. \A j \in 1 .. Len(ts) : ts[j][2] \notin {"d"}
    BY <1>1, <1>2
  <2> QED
    BY <2>1, FirstNone
<1>5. ParseUptime(Uptime(ts)) =
          {ts[1][1] * 3600 + ts[2][1] * 60 + ts[3][1] + First(ts, {"d"}) * 86400}
  <2>1. Len(ts) # 1 /\ 2 = 1 + 1 /\ 3 = 1 + 2 /\ 1 \in Nat
    BY <1>1
  <2> QED
    BY <1>3, <2>1, ClockIsRead
<1> QED
  <2>1. ts[1][1] \in Nat /\ ts[2][1] \in Nat /\ ts[3][1] \in Nat
    BY DEF IsClock, Numbered
  <2> QED
    BY <1>4, <1>5, <2>1

LEMMA ClockAfterDays ==
    ASSUME NEW ts, IsClockAfterDays(ts)
    PROVE  ParseUptime(Uptime(ts)) =
               {ts[1][1] * 86400 + ts[2][1] * 3600 + ts[3][1] * 60 + ts[4][1]}
<1>1. /\ Len(ts) = 4
      /\ ts[1][2] = "d" /\ ts[2][2] = ":" /\ ts[3][2] = ":" /\ ts[4][2] = "none"
  BY DEF IsClockAfterDays, Numbered
<1>2. \A j \in 1 .. Len(ts) : j = 1 \/ j = 2 \/ j = 3 \/ j = 4
  BY <1>1
<1>3. ClockAt(ts) = {2}
  <2>1. \A n \in 1 .. Len(ts) - 2 : ts[n][2] = ":" /\ ts[n + 1][2] = ":" <=> n = 2
    BY <1>1, <1>2
  <2>2. 2 \in 1 .. Len(ts) - 2
    BY <1>1
  <2> QED
    BY <2>1, <2>2 DEF ClockAt
<1>4. First(ts, {"d"}) = ts[1][1]
  <2>1. Len(ts) \in Nat /\ 1 \in 1 .. Len(ts) /\ ts[1][2] \in {"d"}
    BY <1>1
  <2>2. \A j \in 1 .. Len(ts) : j < 1 => ts[j][2] \notin {"d"}
    BY <1>1
  <2> QED
    BY <2>1, <2>2, FirstAt
<1>5. ParseUptime(Uptime(ts)) =
          {ts[2][1] * 3600 + ts[3][1] * 60 + ts[4][1] + First(ts, {"d"}) * 86400}
  <2>1. Len(ts) # 1 /\ 3 = 2 + 1 /\ 4 = 2 + 2 /\ 2 \in Nat
    BY <1>1
  <2> QED
    BY <1>3, <2>1, ClockIsRead
<1> QED
  <2>1. ts[1][1] \in Nat /\ ts[2][1] \in Nat /\ ts[3][1] \in Nat /\ ts[4][1] \in Nat
    BY DEF IsClockAfterDays, Numbered
  <2> QED
    BY <1>4, <1>5, <2>1

LEMMA InUnitsIsRead ==
    ASSUME NEW ts, IsInUnits(ts),
           ts[1][1] * 86400 + ts[2][1] * 3600 + ts[3][1] * 60 + ts[4][1] > 0
    PROVE  ParseUptime(Uptime(ts)) =
               {ts[1][1] * 86400 + ts[2][1] * 3600 + ts[3][1] * 60 + ts[4][1]}
<1>1. /\ Len(ts) = 4
      /\ ts[1][2] = "d" /\ ts[2][2] = "h" /\ ts[3][2] = "m" /\ ts[4][2] = "s"
  BY DEF IsInUnits, Numbered
<1>2. /\ Len(ts) \in Nat
      /\ \A j \in 1 .. Len(ts) : j = 1 \/ j = 2 \/ j = 3 \/ j = 4
      /\ 1 \in 1 .. Len(ts) /\ 2 \in 1 .. Len(ts) /\ 3 \in 1 .. Len(ts) /\ 4 \in 1 .. Len(ts)
  BY <1>1
<1>3. ClockAt(ts) = {}
  BY <1>1, <1>2 DEF ClockAt
<1>4. First(ts, {"d"}) = ts[1][1]
  <2>1. ts[1][2] \in {"d"} /\ \A j \in 1 .. Len(ts) : j < 1 => ts[j][2] \notin {"d"}
    BY <1>1, <1>2
  <2> QED
    BY <1>2, <2>1, FirstAt
<1>5. First(ts, {"h", ":"}) = ts[2][1]
  <2>1. ts[2][2] \in {"h", ":"} /\ \A j \in 1 .. Len(ts) : j < 2 => ts[j][2] \notin {"h", ":"}
    BY <1>1, <1>2
  <2> QED
    BY <1>2, <2>1, FirstAt
<1>6. First(ts, {"m"}) = ts[3][1]
  <2>1. ts[3][2] \in {"m"} /\ \A j \in 1 .. Len(ts) : j < 3 => ts[j][2] \notin {"m"}
    BY <1>1, <1>2
  <2> QED
    BY <1>2, <2>1, FirstAt
<1>7. First(ts, {"s"}) = ts[4][1]
  <2>1. ts[4][2] \in {"s"} /\ \A j \in 1 .. Len(ts) : j < 4 => ts[j][2] \notin {"s"}
    BY <1>1, <1>2
  <2> QED
    BY <1>2, <2>1, FirstAt
<1>8. Uptime(ts).time = ts
  BY DEF Uptime
<1> QED
  BY <1>1, <1>3, <1>4, <1>5, <1>6, <1>7, <1>8 DEF ParseUptime

\* An uptime in any of the forms that _parse_uptime_string documents is read as
\* what it says, whatever its days, hours, minutes and seconds.
THEOREM EveryUptimeIsRead ==
    ASSUME NEW t \in Nat \X Nat \X Nat \X Nat
    PROVE  /\ ParseUptime(Uptime(AsClock(t))) = {Seconds(t)}
           /\ Seconds(t) > 0 => ParseUptime(Uptime(InUnits(t))) = {Seconds(t)}
           /\ ParseUptime(Number(Seconds(t))) = {Seconds(t)}
<1>1. t[1] \in Nat /\ t[2] \in Nat /\ t[3] \in Nat /\ t[4] \in Nat
  OBVIOUS
<1>2. Seconds(t) = t[1] * 86400 + t[2] * 3600 + t[3] * 60 + t[4]
  BY DEF Seconds
<1>3. ParseUptime(Uptime(AsClock(t))) = {Seconds(t)}
  <2> DEFINE ts == AsClock(t)
             clock == << <<t[2], ":">>, <<t[3], ":">>, <<t[4], "none">> >>
  <2>1. CASE t[1] = 0
    <3>1. ts = clock
      BY <2>1 DEF AsClock
    <3>2. /\ Len(ts) = 3 /\ ts[1][1] = t[2] /\ ts[2][1] = t[3] /\ ts[3][1] = t[4]
          /\ ts[1][2] = ":" /\ ts[2][2] = ":" /\ ts[3][2] = "none"
      BY <3>1
    <3> HIDE DEF ts
    <3>3. ParseUptime(Uptime(ts)) = {t[2] * 3600 + t[3] * 60 + t[4]}
      BY <1>1, <3>2, ClockAlone DEF IsClock, Numbered
    <3>4. Seconds(t) = t[2] * 3600 + t[3] * 60 + t[4]
      BY <1>1, <1>2, <2>1
    <3> QED
      BY <3>3, <3>4 DEF ts
  <2>2. CASE t[1] # 0
    <3>1. ts = << <<t[1], "d">> >> \o clock
      BY <2>2 DEF AsClock
    <3>2. /\ Len(clock) = 3
          /\ clock \in Seq(Nat \X {"d", ":", "none"})
          /\ << <<t[1], "d">> >> \in Seq(Nat \X {"d", ":", "none"})
          /\ clock[1][1] = t[2] /\ clock[2][1] = t[3] /\ clock[3][1] = t[4]
          /\ clock[1][2] = ":" /\ clock[2][2] = ":" /\ clock[3][2] = "none"
      BY <1>1
    <3> HIDE DEF ts, clock
    <3>3. /\ Len(ts) = 4 /\ ts[1] = <<t[1], "d">>
          /\ ts[2] = clock[1] /\ ts[3] = clock[2] /\ ts[4] = clock[3]
      <4> DEFINE days == << <<t[1], "d">> >>
      <4>1. Len(days) = 1 /\ days[1] = <<t[1], "d">>
        OBVIOUS
      <4> HIDE DEF days
      <4>2. /\ Len(days \o clock) = Len(days) + Len(clock)
            /\ \A i \in 1 .. Len(days) + Len(clock) :
                   (days \o clock)[i] = IF i <= Len(days) THEN days[i] ELSE clock[i - Len(days)]
        BY <3>2, ConcatProperties DEF days
      <4> QED
        BY <3>1, <3>2, <4>1, <4>2 DEF days
    <3>4. /\ ts[1][1] = t[1] /\ ts[2][1] = t[2] /\ ts[3][1] = t[3] /\ ts[4][1] = t[4]
          /\ ts[1][2] = "d" /\ ts[2][2] = ":" /\ ts[3][2] = ":" /\ ts[4][2] = "none"
      BY <3>2, <3>3
    <3>5. IsClockAfterDays(ts)
      <4>1. \A i \in 1 .. 4 : i = 1 \/ i = 2 \/ i = 3 \/ i = 4
        OBVIOUS
      <4> QED
        BY <1>1, <3>3, <3>4, <4>1 DEF IsClockAfterDays, Numbered
    <3>6. ParseUptime(Uptime(ts)) =
              {ts[1][1] * 86400 + ts[2][1] * 3600 + ts[3][1] * 60 + ts[4][1]}
      BY <3>5, ClockAfterDays
    <3> QED
      BY <1>2, <3>4, <3>6 DEF ts
  <2> QED
    BY <2>1, <2>2
<1>4. ASSUME Seconds(t) > 0 PROVE ParseUptime(Uptime(InUnits(t))) = {Seconds(t)}
  <2> DEFINE ts == InUnits(t)
  <2>1. /\ Len(ts) = 4
        /\ ts[1][1] = t[1] /\ ts[2][1] = t[2] /\ ts[3][1] = t[3] /\ ts[4][1] = t[4]
        /\ ts[1][2] = "d" /\ ts[2][2] = "h" /\ ts[3][2] = "m" /\ ts[4][2] = "s"
    BY DEF InUnits
  <2> HIDE DEF ts
  <2>2. IsInUnits(ts)
    <3>1. \A i \in 1 .. 4 : i = 1 \/ i = 2 \/ i = 3 \/ i = 4
      OBVIOUS
    <3> QED
      BY <1>1, <2>1, <3>1 DEF IsInUnits, Numbered
  <2>3. ts[1][1] * 86400 + ts[2][1] * 3600 + ts[3][1] * 60 + ts[4][1] = Seconds(t)
    BY <1>2, <2>1
  <2>4. ParseUptime(Uptime(ts)) =
            {ts[1][1] * 86400 + ts[2][1] * 3600 + ts[3][1] * 60 + ts[4][1]}
    BY <1>4, <2>2, <2>3, InUnitsIsRead
  <2> QED
    BY <2>3, <2>4 DEF ts
<1>5. ParseUptime(Number(Seconds(t))) = {Seconds(t)}
  BY NumberIsRead
<1> QED
  BY <1>3, <1>4, <1>5

-----------------------------------------------------------------------------
(* A collection *)

Waiting == {"sent", "reply"}

\* What is known of each OID, whether or not a collection runs.
ShapeInv ==
    /\ target \in Targets
    /\ DOMAIN device = Asked /\ DOMAIN seen = Asked /\ DOMAIN fetch = Asked
    /\ \A o \in Asked : device[o] \in AnswersOf(target.plugin, o)
    /\ \A o \in Asked : fetch[o].at \in Waiting => fetch[o].tries \in 0 .. Retries

\* An answer is a value its OID has had since the collection began.
AnswerInv ==
    /\ pc = "fetching" => \A o \in Asked : device[o] \in seen[o]
    /\ \A o \in Asked : fetch[o].at \in {"reply", "got"} => fetch[o].value \in seen[o]

\* Between collections no fetch is under way, and while one runs nothing is
\* reported: what result holds was made of what fetch still holds.
PhaseInv ==
    /\ pc = "idle" => \A o \in Asked : fetch[o].at \notin Waiting
    /\ pc = "fetching" => result = {} /\ outcome = "none"

RInv == TypeOK /\ ShapeInv /\ AnswerInv /\ PhaseInv /\ ReadingsAreCurrent /\ FailuresAreLocal

LEMMA RInit == Init => RInv
<1> SUFFICES ASSUME Init PROVE RInv
  OBVIOUS
<1>1. TypeOK
  BY CollectionBounds DEF Init, TypeOK
<1>2. ShapeInv /\ AnswerInv /\ PhaseInv
  BY DEF Init, ShapeInv, AnswerInv, PhaseInv, Waiting
<1>3. ReadingsAreCurrent /\ FailuresAreLocal
  BY DEF Init, ReadingsAreCurrent, FailuresAreLocal
<1> QED
  BY <1>1, <1>2, <1>3 DEF RInv

\* What a fetch does concerns its own OID, and nothing that was reported.
FetchStep(o, f) ==
    /\ fetch' = [fetch EXCEPT ![o] = f]
    /\ UNCHANGED <<target, device, changes, seen, pc, result, outcome, rounds>>

\* The possible ends of a step of a fetch that was waiting.
Sound(o, f) ==
    /\ f.at \in Waiting \cup {"got", "none"}
    /\ f.at \in Waiting => f.tries \in 0 .. Retries
    /\ f.at \in {"reply", "got"} => f.value \in seen[o]

LEMMA FetchKeeps ==
    ASSUME RInv, NEW o \in Asked, NEW f, fetch[o].at \in Waiting, Sound(o, f), FetchStep(o, f)
    PROVE  RInv'
<1> USE DEF RInv, FetchStep, Asked
<1>1. pc = "fetching" /\ result = {} /\ outcome = "none"
  BY DEF PhaseInv, TypeOK
<1>2. fetch'[o] = f /\ \A q \in Asked \ {o} : fetch'[q] = fetch[q]
  BY DEF ShapeInv
<1>3. TypeOK'
  BY <1>2 DEF TypeOK, Sound, Waiting
<1>4. ShapeInv'
  BY <1>2 DEF ShapeInv, Sound
<1>5. AnswerInv'
  BY <1>2 DEF AnswerInv, Sound
<1>6. PhaseInv' /\ ReadingsAreCurrent' /\ FailuresAreLocal'
  BY <1>1 DEF PhaseInv, ReadingsAreCurrent, FailuresAreLocal
<1> QED
  BY <1>3, <1>4, <1>5, <1>6

LEMMA FetchNext ==
    ASSUME RInv, NEW o \in Asked, Answers(o) \/ Fetch(o)
    PROVE  RInv'
<1> USE DEF RInv
<1>1. CASE Answers(o)
  <2> DEFINE f == [at |-> "reply", tries |-> fetch[o].tries, value |-> device[o]]
  <2>1. fetch[o].at \in Waiting /\ FetchStep(o, f)
    BY <1>1 DEF Answers, FetchStep, Waiting
  <2>2. device[o] \in seen[o]
    BY <2>1 DEF PhaseInv, AnswerInv, TypeOK
  <2>3. Sound(o, f)
    BY <2>1, <2>2 DEF Sound, ShapeInv, Waiting
  <2> QED
    BY <2>1, <2>3, FetchKeeps
<1>2. CASE FetchOk(o)
  <2> DEFINE f == [at |-> "got", value |-> fetch[o].value]
  <2>1. fetch[o].at = "reply" /\ FetchStep(o, f)
    BY <1>2 DEF FetchOk, FetchStep
  <2>2. Sound(o, f)
    BY <2>1 DEF Sound, AnswerInv, Waiting
  <2> QED
    BY <2>1, <2>2, FetchKeeps DEF Waiting
<1>3. CASE FetchRetries(o)
  <2> DEFINE f == [at |-> "sent", tries |-> fetch[o].tries + 1]
  <2>1. fetch[o].at \in Waiting /\ fetch[o].tries < Retries /\ FetchStep(o, f)
    BY <1>3 DEF FetchRetries, FetchStep, Waiting
  <2>2. fetch[o].tries \in Nat
    BY <2>1, CollectionBounds DEF ShapeInv
  <2>3. Sound(o, f)
    BY <2>1, <2>2, CollectionBounds DEF Sound, Waiting
  <2> QED
    BY <2>1, <2>3, FetchKeeps
<1>4. CASE FetchFails(o)
  <2>1. fetch[o].at \in Waiting /\ FetchStep(o, [at |-> "none"])
    BY <1>4 DEF FetchFails, FetchStep, Waiting
  <2>2. Sound(o, [at |-> "none"])
    BY DEF Sound, Waiting
  <2> QED
    BY <2>1, <2>2, FetchKeeps
<1> QED
  BY <1>1, <1>2, <1>3, <1>4 DEF Fetch

\* What the device does changes what an answer may be, and nothing answered.
LEMMA DeviceNext == RInv /\ DeviceChanges => RInv'
<1> SUFFICES ASSUME RInv, DeviceChanges PROVE RInv'
  OBVIOUS
<1> USE DEF RInv, Asked
<1>1. PICK o \in Asked : \E a \in AnswersOf(target.plugin, o) :
          /\ device' = [device EXCEPT ![o] = a]
          /\ seen' = IF pc = "fetching" THEN [seen EXCEPT ![o] = @ \cup {a}] ELSE seen
  BY DEF DeviceChanges
<1>2. PICK a \in AnswersOf(target.plugin, o) :
          /\ device' = [device EXCEPT ![o] = a]
          /\ seen' = IF pc = "fetching" THEN [seen EXCEPT ![o] = @ \cup {a}] ELSE seen
  BY <1>1
<1>3. /\ changes < MaxDeviceChanges /\ changes' = changes + 1
      /\ UNCHANGED <<target, pc, fetch, result, outcome, rounds>>
  BY DEF DeviceChanges
<1>4. /\ device'[o] = a
      /\ \A q \in Asked \ {o} : device'[q] = device[q]
      /\ DOMAIN device' = Asked
  BY <1>2 DEF ShapeInv
<1>5. /\ DOMAIN seen' = Asked
      /\ pc = "fetching" => a \in seen'[o]
      /\ pc = "idle" => seen' = seen
      /\ \A q \in Asked : /\ seen[q] \subseteq seen'[q]
                           /\ seen'[q] \subseteq AnswersOf(target.plugin, q)
  BY <1>2 DEF ShapeInv, TypeOK
<1>6. TypeOK'
  <2>1. device' \in [Asked -> UNION {AnswersOf(target.plugin, q) : q \in Asked}]
    BY <1>2, <1>4 DEF TypeOK
  <2>2. changes' \in 0 .. MaxDeviceChanges
    BY <1>3, CollectionBounds DEF TypeOK
  <2> QED
    BY <1>3, <1>5, <2>1, <2>2 DEF TypeOK
<1>7. ShapeInv'
  BY <1>3, <1>4, <1>5 DEF ShapeInv
<1>8. AnswerInv'
  BY <1>3, <1>4, <1>5 DEF AnswerInv
<1>9. PhaseInv' /\ FailuresAreLocal'
  BY <1>3 DEF PhaseInv, FailuresAreLocal, Got
<1>10. ReadingsAreCurrent'
  BY <1>3, <1>5 DEF ReadingsAreCurrent
<1> QED
  BY <1>6, <1>7, <1>8, <1>9, <1>10

\* A collection begins with nothing of the last one.
LEMMA BeginNext == RInv /\ CollectBegin => RInv'
<1> SUFFICES ASSUME RInv, CollectBegin PROVE RInv'
  OBVIOUS
<1> USE DEF RInv, Asked
<1>1. /\ pc = "idle" /\ rounds < MaxCollections /\ rounds' = rounds + 1 /\ result' = {}
      /\ UNCHANGED <<target, device, changes>>
  BY DEF CollectBegin
<1>2. rounds' \in 0 .. MaxCollections
  BY <1>1, CollectionBounds DEF TypeOK
<1>3. CASE target.host
  <2>1. /\ pc' = "fetching" /\ outcome' = "none"
        /\ fetch' = [o \in Asked |-> [at |-> "sent", tries |-> 0]]
        /\ seen' = [o \in Asked |-> {device[o]}]
    BY <1>3 DEF CollectBegin, Asks
  <2>2. TypeOK'
    BY <1>1, <1>2, <2>1, CollectionBounds DEF TypeOK, ShapeInv
  <2>3. ShapeInv'
    BY <1>1, <2>1, CollectionBounds DEF ShapeInv
  <2>4. AnswerInv'
    BY <1>1, <2>1 DEF AnswerInv
  <2>5. PhaseInv' /\ ReadingsAreCurrent' /\ FailuresAreLocal'
    BY <1>1, <2>1 DEF PhaseInv, ReadingsAreCurrent, FailuresAreLocal
  <2> QED
    BY <2>2, <2>3, <2>4, <2>5
<1>4. CASE ~ target.host
  <2>1. outcome' = "list" /\ UNCHANGED <<pc, fetch, seen>>
    BY <1>4 DEF CollectBegin
  <2>2. TypeOK'
    BY <1>1, <1>2, <2>1 DEF TypeOK
  <2>3. ShapeInv' /\ AnswerInv' /\ PhaseInv'
    BY <1>1, <2>1 DEF ShapeInv, AnswerInv, PhaseInv
  <2>4. ReadingsAreCurrent' /\ FailuresAreLocal'
    BY <1>1, <1>4 DEF ReadingsAreCurrent, FailuresAreLocal
  <2> QED
    BY <2>2, <2>3, <2>4
<1> QED
  BY <1>3, <1>4

\* What is reported is made of what was answered.
LEMMA CollectedNext == RInv /\ Collected => RInv'
<1> SUFFICES ASSUME RInv, Collected PROVE RInv'
  OBVIOUS
<1> USE DEF RInv, Asked
<1>1. /\ pc = "fetching" /\ pc' = "idle" /\ outcome' = "list"
      /\ \A o \in Asked : fetch[o].at \in {"got", "none"}
      /\ result' = ParseMetrics(target.plugin, Values)
      /\ UNCHANGED <<target, device, changes, seen, fetch, rounds>>
  BY DEF Collected
<1>2. DOMAIN Values = Got /\ \A o \in Got : o \in Asked /\ Values[o] = fetch[o].value
  BY DEF Values, Got
<1>3. \A m \in result' : \E r \in Table[target.plugin] :
          r.oid \in Got /\ m \in MetricsOf(r, Values[r.oid])
  BY <1>1, <1>2, ParsedRows
<1>4. \A r \in Table[target.plugin] : r.oid \in Got =>
          MetricsOf(r, Values[r.oid]) \subseteq result'
  BY <1>1, <1>2, ParsedRows
<1>5. TypeOK'
  <2>1. \A m \in result' : \E r \in Table[target.plugin] : m.name = r.name
    BY <1>3, MetricIsNamed
  <2> QED
    BY <1>1, <2>1 DEF TypeOK
<1>6. ShapeInv' /\ AnswerInv' /\ PhaseInv'
  BY <1>1 DEF ShapeInv, AnswerInv, PhaseInv, Waiting
<1>7. ReadingsAreCurrent'
  <2>1. \A o \in Got : o \in Asked /\ Values[o] \in seen[o]
    BY <1>2 DEF AnswerInv, Got
  <2> QED
    BY <1>1, <1>3, <2>1 DEF ReadingsAreCurrent
<1>8. FailuresAreLocal'
  BY <1>1, <1>2, <1>4 DEF FailuresAreLocal, Got
<1> QED
  BY <1>5, <1>6, <1>7, <1>8

\* What a timeout cancels is lost, and reported by nothing.
LEMMA TimeoutNext == RInv /\ CollectionTimeout => RInv'
<1> SUFFICES ASSUME RInv, CollectionTimeout PROVE RInv'
  OBVIOUS
<1> USE DEF RInv, Asked
<1>1. /\ pc = "fetching" /\ pc' = "idle" /\ outcome' = "timeout"
      /\ fetch' = [o \in Asked |-> [at |-> "off"]]
      /\ UNCHANGED <<target, device, changes, seen, result, rounds>>
  BY DEF CollectionTimeout
<1>2. TypeOK'
  BY <1>1 DEF TypeOK
<1>3. ShapeInv' /\ AnswerInv' /\ PhaseInv'
  BY <1>1 DEF ShapeInv, AnswerInv, PhaseInv, Waiting
<1>4. ReadingsAreCurrent' /\ FailuresAreLocal'
  BY <1>1 DEF PhaseInv, ReadingsAreCurrent, FailuresAreLocal
<1> QED
  BY <1>2, <1>3, <1>4

LEMMA RNext == RInv /\ [Next]_vars => RInv'
<1> SUFFICES ASSUME RInv, [Next]_vars PROVE RInv'
  OBVIOUS
<1>1. CASE UNCHANGED vars
  BY <1>1 DEF RInv, vars, TypeOK, ShapeInv, AnswerInv, PhaseInv, ReadingsAreCurrent,
      FailuresAreLocal, Got, Asked
<1>2. ASSUME NEW o \in Asked, Answers(o) \/ Fetch(o) PROVE RInv'
  BY <1>2, FetchNext
<1> QED
  BY <1>1, <1>2, DeviceNext, BeginNext, CollectedNext, TimeoutNext DEF Next, Finished

-----------------------------------------------------------------------------
(* Theorems *)

\* The states of a device's collections have their types.
THEOREM TypeCorrect == Spec => []TypeOK
<1>1. RInv => TypeOK
  BY DEF RInv
<1> QED
  BY <1>1, RInit, RNext, PTL DEF Spec

\* However answers, losses, retries, changes of the device and timeouts
\* interleave, a metric tells of a value its own OID had while the collection
\* lasted (ReadingsAreCurrent).
THEOREM MetricsAreCurrent == Spec => []ReadingsAreCurrent
<1>1. RInv => ReadingsAreCurrent
  BY DEF RInv
<1> QED
  BY <1>1, RInit, RNext, PTL DEF Spec

\* A fetch that fails takes nothing from what the others report
\* (FailuresAreLocal).
THEOREM AnsweredIsReported == Spec => []FailuresAreLocal
<1>1. RInv => FailuresAreLocal
  BY DEF RInv
<1> QED
  BY <1>1, RInit, RNext, PTL DEF Spec

\* What the device does not have is not measured (AbsentIsNotMeasured): a metric
\* of that name could only come from the row of that name, and its OID never had
\* a value.
THEOREM NothingInvented == Spec => []AbsentIsNotMeasured
<1>1. RInv => AbsentIsNotMeasured
  <2> SUFFICES ASSUME RInv, NEW r \in Table[target.plugin],
                      r.kind \in Measurement, r.oid \in Asked, seen[r.oid] = {Missing},
                      NEW m \in result, m.name = r.name
               PROVE  FALSE
    BY DEF AbsentIsNotMeasured
  <2>1. PICK q \in Table[target.plugin] :
            q.oid \in Asked /\ \E a \in seen[q.oid] : m \in MetricsOf(q, a)
    BY DEF RInv, ReadingsAreCurrent
  <2>2. q.name = r.name
    BY <2>1, MetricIsNamed
  <2>3. target.plugin \in Plugin
    BY TargetAssumption DEF RInv, TypeOK
  <2>4. q = r
    BY <2>2, <2>3, NamesAreUnique
  <2> QED
    BY <2>1, <2>4, NothingMeasured
<1> QED
  BY <1>1, RInit, RNext, PTL DEF Spec

\* The uptimes of the plugin that has them are read as what they say
\* (UptimesAreRead).
THEOREM UptimesRead == Spec => []UptimesAreRead
<1>1. Times \subseteq Nat \X Nat \X Nat \X Nat
  BY DEF Times
<1>2. UptimesAreRead
  BY <1>1, EveryUptimeIsRead DEF UptimesAreRead
<1> QED
  BY <1>2, PTL

=============================================================================
