---------------------------- MODULE SnmpReadings ----------------------------
(***************************************************************************)
(* What the four SNMP plugins make of a device's answers: the OIDs each    *)
(* asks for and the metric it derives from each (plugins/omnia_9sg,        *)
(* omnia_mpx, omnia_mpx_decoder, omnia_volt).                              *)
(*                                                                         *)
(* An answer is what the parsing functions find in its text: the number    *)
(* the regular expression matches first, if there is one, the text as a    *)
(* word, and, for an uptime, its numbers each with the unit that follows,  *)
(* "none" if none does.                                                    *)
(* A value is a pair <<x, per>> for x / per.                               *)
(***************************************************************************)
EXTENDS Naturals, Integers, Sequences

Number(x)  == [number |-> {x}, word |-> "number", time |-> << <<x, "none">> >>]
Word(w)    == [number |-> {}, word |-> w, time |-> <<>>]
Uptime(ts) == [number |-> {ts[1][1]}, word |-> "uptime", time |-> ts]

\* "No Such Instance currently exists at this OID", a value like any other in
\* an answer of SNMPv2c.
Missing == Word("no such instance")

\* A row of a plugin: from which OID it derives which metric, and how.
Row(kind, per, oid, name) == [kind |-> kind, per |-> per, oid |-> oid, name |-> name]
Rows(kind, per, pairs) == {Row(kind, per, p[1], p[2]) : p \in pairs}

-----------------------------------------------------------------------------
(* Omnia.9sg *)

Sg9System ==
    { Row("number", 100, "sys_uptime", "system.uptime"),
      Row("number", 1, "cpu_utilization", "system.cpu_utilization"),
      Row("number", 1, "ram_available", "system.ram_available") }
    \cup Rows("reading", 1,
        { <<"cpu_temperature", "system.cpu_temperature">>,
          <<"chassis_temperature", "system.chassis_temperature">>,
          <<"cpu_fan_speed", "system.cpu_fan_speed">> })
    \cup Rows("status", 1,
        { <<"engine_status", "system.engine_status">>,
          <<"ref_rate_status", "system.ref_rate_status">>,
          <<"psu1_status", "system.psu1_status">>,
          <<"psu2_status", "system.psu2_status">>,
          <<"cpu_status", "system.cpu_status">>,
          <<"ram_status", "system.ram_status">>,
          <<"cpu_temp_status", "system.cpu_temp_status">>,
          <<"chassis_temp_status", "system.chassis_temp_status">>,
          <<"cpu_fan_status", "system.cpu_fan_status">> })

Sg9Input ==
    {Row("number", 1, "input_ch_balance", "input.channel_balance")}
    \cup Rows("status", 1,
        { <<"backup_input_status", "input.backup_active">>,
          <<"local_input_status", "input.local_active">>,
          <<"input_silent_status", "input.silent">>,
          <<"internal_player_status", "input.internal_player_active">>,
          <<"input_overload_status", "input.overload">>,
          <<"digital_input_status", "input.digital_available">>,
          <<"reference_input_status", "input.reference_ok">>,
          <<"primary_silent_status", "input.primary_silent">> })
    \cup Rows("number", 100,
        { <<"local_input_loudness", "audio.input_loudness">>,
          <<"pre_clip_loudness", "audio.pre_clip_loudness">>,
          <<"mpx_out_loudness", "audio.mpx_output_loudness">> })

Sg9Output ==
    { Row("reading", 1000, "mpx_out_voltage_1", "output.mpx_voltage_1"),
      Row("reading", 1000, "mpx_out_voltage_2", "output.mpx_voltage_2"),
      Row("number", 100, "mpx_power_limit", "output.mpx_power_limit"),
      Row("number", 10, "pilot_level", "output.pilot_level"),
      Row("number", 1, "pre_emphasis", "output.pre_emphasis"),
      Row("status", 1, "kantar_status", "output.kantar_status"),
      Row("reading", 10, "rds_injection_level", "rds.injection_level"),
      Row("status", 1, "rds_ta_status", "rds.ta_active"),
      Row("text", 1, "rds_current_ps", "rds.ps_present"),
      Row("text", 1, "rds_current_rt", "rds.rt_present") }

\* OIDs that are read for the tags only, or for nothing.
Sg9Tags ==
    { "sys_descr", "sys_name", "model_name", "software_version",
      "firmware_version", "sg_preset", "local_proc_preset", "hp_mon_preset",
      "spk_mon_preset", "aux_mon_preset" }

-----------------------------------------------------------------------------
(* Omnia MPX encoder *)

MpxNumbers ==
    {Row("number", 100, "sys_uptime", "system.uptime_ticks")}
    \cup Rows("number", 1,
        { <<"uptime", "system.uptime">>,
          <<"active_time", "system.active_time">>,
          <<"temperature", "system.temperature">>,
          <<"cpu_usage", "system.cpu_usage">>,
          <<"audio_level", "audio.level">> })

MpxFlags ==
    {Row("state", 1, "encoder_status", "encoder.status")}
    \cup Rows("boolean", 1,
        { <<"is_audio_clipping", "audio.clipping">>,
          <<"input_audio_clipping", "audio.input_clipping">>,
          <<"encoder_enabled", "encoder.enabled">>,
          <<"network_one_up", "network.port1_up">>,
          <<"network_two_up", "network.port2_up">> })

MpxTags == {"sys_descr", "sys_name", "hostname", "firmware_version", "umpx_app_version"}

-----------------------------------------------------------------------------
(* Omnia MPX decoder *)

DecoderNumbers ==
    {Row("number", 100, "sys_uptime", "system.uptime_ticks")}
    \cup Rows("number", 1,
        { <<"uptime", "system.uptime">>,
          <<"temperature", "system.temperature">>,
          <<"cpu_usage", "system.cpu_usage">>,
          <<"mpx_output_level", "audio.output_level">>,
          <<"stream_delay", "stream.delay">> })

DecoderStreams ==
    {Row("state", 1, "decoder_status", "decoder.status")}
    \cup Rows("boolean", 1,
        { <<"decoder_enabled", "decoder.enabled">>,
          <<"input_stream_received", "stream.input_receiving">>,
          <<"output_stream_playing", "stream.output_playing">>,
          <<"network_one_up", "network.port1_up">>,
          <<"network_two_up", "network.port2_up">> })
    \cup Rows("number", 1,
        { <<"packets_received", "stream.packets_received">>,
          <<"packets_recovered", "stream.packets_recovered">>,
          <<"packets_silence", "stream.packets_silence">>,
          <<"umpx_connection_time", "stream.connection_time">> })

DecoderTags ==
    { "sys_descr", "sys_name", "hostname", "firmware_version", "umpx_app_version",
      "net1_connect_time", "net2_connect_time", "umpx_data_stream", "umpx_output",
      "keyframes_received" }

-----------------------------------------------------------------------------
(* Omnia VOLT *)

VoltMetrics ==
    { Row("number", 100, "sys_uptime", "system.uptime"),
      Row("uptime", 1, "uptime", "system.volt_uptime"),
      Row("number", 1, "failover_state", "input.failover_state"),
      Row("text", 1, "input_mode", "input.mode_active") }
    \cup Rows("db", 1,
        { <<"analog_input_level", "input.analog_level">>,
          <<"aes_input_level", "input.aes_level">>,
          <<"composite_out_1", "output.composite_1_level">>,
          <<"composite_out_2", "output.composite_2_level">>,
          <<"pilot_level", "output.pilot_level">> })

VoltTags == {"sys_descr", "sys_name", "software_version", "current_input", "current_preset"}

-----------------------------------------------------------------------------

Table ==
    [ omnia_9sg         |-> Sg9System \cup Sg9Input \cup Sg9Output,
      omnia_mpx         |-> MpxNumbers \cup MpxFlags,
      omnia_mpx_decoder |-> DecoderNumbers \cup DecoderStreams,
      omnia_volt        |-> VoltMetrics ]
Tags ==
    [ omnia_9sg         |-> Sg9Tags,
      omnia_mpx         |-> MpxTags,
      omnia_mpx_decoder |-> DecoderTags,
      omnia_volt        |-> VoltTags ]

Plugin == DOMAIN Table
Oids(p) == Tags[p] \cup {r.oid : r \in Table[p]}

-----------------------------------------------------------------------------
(* The parsing functions; the set of a value, or empty for None *)

\* Mutant of ParseNumeric: what is no number counts as zero.
NumberOrZero(a) == IF a.number = {} THEN {0} ELSE a.number

ParseNumeric(a) == a.number

\* Without the "db" in it, the first number of the text.
ParseDb(a) == a.number

ParseStatus(a) ==
    IF a.number = {1} \/ a.word \in {"ok", "true", "yes", "active", "enabled"}
    THEN {1} ELSE {0}

ParseBoolean(a) ==
    IF a.number = {1} \/ a.word \in {"true", "yes", "on", "enabled"}
    THEN {1} ELSE {0}

ParseState(a) == IF a.word \in {"ok", "running", "active", "enabled"} THEN {1} ELSE {0}

ParseText(a) == IF a.word = "" THEN {} ELSE {1}

\* The number before the first of these units, 0 if there is none.
First(ts, units) ==
    LET at == {i \in 1 .. Len(ts) : ts[i][2] \in units} IN
    IF at = {} THEN 0 ELSE ts[CHOOSE i \in at : \A j \in at : i <= j][1]

\* Where h:mm:ss begins.
ClockAt(ts) == {i \in 1 .. Len(ts) - 2 : ts[i][2] = ":" /\ ts[i + 1][2] = ":"}
FirstClock(ts) == CHOOSE i \in ClockAt(ts) : \A j \in ClockAt(ts) : i <= j

Clock(ts) ==
    LET i == FirstClock(ts) IN ts[i][1] * 3600 + ts[i + 1][1] * 60 + ts[i + 2][1]

\* Mutant of ClockTime: the clock pattern replaces the days found before.
ClockOnly(ts) == Clock(ts)

ClockTime(ts) == Clock(ts) + First(ts, {"d"}) * 86400

\* A bare number, a clock with the days before it, or the sum of the units;
\* an uptime of zero in units is no uptime.
ParseUptime(a) ==
    LET ts  == a.time
        sum == First(ts, {"d"}) * 86400 + First(ts, {"h", ":"}) * 3600
               + First(ts, {"m"}) * 60 + First(ts, {"s"}) IN
    IF Len(ts) = 1 /\ ts[1][2] = "none" THEN {ts[1][1]}
    ELSE IF ClockAt(ts) # {} THEN {ClockTime(ts)}
    ELSE {x \in {sum} : x > 0}

\* The values a row reports for an answer: one, or none.
Reported(r, a) ==
    CASE r.kind = "number"  -> {<<x, r.per>> : x \in ParseNumeric(a)}
      [] r.kind = "reading" -> {<<x, r.per>> : x \in {y \in ParseNumeric(a) : y >= 0}}
      [] r.kind = "db"      -> {<<x, r.per>> : x \in ParseDb(a)}
      [] r.kind = "status"  -> {<<x, r.per>> : x \in ParseStatus(a)}
      [] r.kind = "boolean" -> {<<x, r.per>> : x \in ParseBoolean(a)}
      [] r.kind = "state"   -> {<<x, r.per>> : x \in ParseState(a)}
      [] r.kind = "text"    -> {<<x, r.per>> : x \in ParseText(a)}
      [] r.kind = "uptime"  -> {<<x, r.per>> : x \in ParseUptime(a)}

\* The metrics of a row for the answer to its OID.
MetricsOf(r, a) == {[name |-> r.name, value |-> x] : x \in Reported(r, a)}

\* Every row whose OID was answered contributes; a missing one does not matter
\* to the others.
ParseMetrics(p, values) ==
    UNION {MetricsOf(r, values[r.oid]) : r \in {q \in Table[p] : q.oid \in DOMAIN values}}

=============================================================================
