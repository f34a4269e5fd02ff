-------------------------- MODULE MCSnmpCollection --------------------------
(* Small instances of SnmpCollection for TLC. *)
EXTENDS SnmpCollection, FiniteSets

\* How a plugin uses an OID.
KindOf(p, o) ==
    IF \E r \in Table[p] : r.oid = o THEN (CHOOSE r \in Table[p] : r.oid = o).kind
    ELSE "tag"

\* One OID of each kind, and the pairs of them; and a device without a host.
Samples(p) ==
    {CHOOSE o \in Oids(p) : KindOf(p, o) = k : k \in {KindOf(p, q) : q \in Oids(p)}}
MCTargets ==
    UNION {[plugin : {p}, oids : {s \in SUBSET Samples(p) : Cardinality(s) = 2},
            host : {TRUE}] : p \in Plugin}
    \cup {[plugin |-> "omnia_volt", oids |-> {"uptime"}, host |-> FALSE]}

\* A value of each sort the kind tells apart, and none.
MCAnswers(p, o) ==
    {Missing} \cup
    CASE KindOf(p, o) = "uptime" -> {Uptime(<< <<1, "d">>, <<2, ":">>, <<30, ":">>, <<45, "none">> >>)}
      [] KindOf(p, o) \in {"text", "tag"} -> {Word("KQED"), Word("")}
      [] KindOf(p, o) = "state" -> {Word("running"), Word("failed")}
      [] KindOf(p, o) \in {"status", "boolean"} -> {Number(1), Number(2)}
      [] OTHER -> {Number(-1), Number(7)}

=============================================================================
