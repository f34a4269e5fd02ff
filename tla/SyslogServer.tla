---------------------------- MODULE SyslogServer ----------------------------
(***************************************************************************)
(* The syslog server (core/syslog_server.py) and the SNMP trap receiver    *)
(* (core/snmp_trap_receiver.py) with the part of main.py that starts them, *)
(* keeps their lists of allowed sources up to date and forwards what they  *)
(* receive.  An address is forwarded when it passes two checks: the list   *)
(* of the protocol, where an empty list lets every address pass, and the   *)
(* lookup of its source id, where it does not.                             *)
(*                                                                         *)
(* The API that lists the sources is external.  What it answers is applied *)
(* in the same step: nothing else here depends on the time in between.     *)
(***************************************************************************)
EXTENDS Naturals, Sequences, SequencesExt, FiniteSets, FiniteSetsExt

CONSTANTS
    Address,
    Connection,         \* TCP connections, each made once
    Char, Newline,      \* the bytes of a stream
    MaxTcpSize,         \* MAX_TCP_SIZE
    MaxSent,            \* bound on the bytes of a connection
    MaxListChanges      \* bound on the changes of the list of sources

ASSUME StreamAssumption ==
    /\ Char # Newline
    /\ MaxTcpSize \in Nat /\ MaxSent \in Nat
ASSUME ListAssumption == MaxListChanges \in Nat

VARIABLES
    phase,          \* "fetch", "bind", "up", "stopping", "stopped" or "exited"
    listed,         \* external: addresses of the enabled sources
    everListed,     \* history: addresses that were in listed
    changes,        \* changes of listed so far
    allowed,        \* SyslogServer._allowed_ips, the keys of _source_map
    trapAllowed,    \* SNMPTrapReceiver._allowed_ips
    udp,            \* SyslogUDPProtocol.allowed_ips, of the protocol if it is bound
    tcp,            \* the TCP port is bound
    conns,          \* the connections: peer, buffer and history
    heard           \* history: addresses a message of which was forwarded

api   == <<listed, everListed, changes>>
lists == <<allowed, trapAllowed>>
ports == <<udp, tcp>>
vars  == <<phase, api, lists, ports, conns, heard>>

Byte == {Char, Newline}
Conn == [at : {"new", "open", "closed"}, from : Address, buffer : Seq(Byte),
         sent : Seq(Byte), messages : Seq(Seq(Byte)), overflowed : BOOLEAN]

TypeOK ==
    /\ phase \in {"fetch", "bind", "up", "stopping", "stopped", "exited"}
    /\ listed \subseteq Address /\ everListed \subseteq Address
    /\ changes \in 0 .. MaxListChanges
    /\ allowed \subseteq Address /\ trapAllowed \subseteq Address
    /\ udp \subseteq SUBSET Address /\ tcp \in BOOLEAN
    /\ conns \in [Connection -> Conn]
    /\ \A c \in Connection : Len(conns[c].buffer) <= MaxTcpSize
    /\ heard \subseteq Address

\* The syslog transport has been started.
Init ==
    /\ phase = "fetch"
    /\ listed \in SUBSET Address
    /\ everListed = listed
    /\ changes = 0
    /\ allowed = {} /\ trapAllowed = {}
    /\ udp = {} /\ tcp = FALSE
    /\ conns \in [Connection ->
          [at : {"new"}, from : Address, buffer : {<<>>}, sent : {<<>>},
           messages : {<<>>}, overflowed : {FALSE}]]
    /\ heard = {}

-----------------------------------------------------------------------------
(* The list of sources *)

\* External: a source is added, removed, enabled or disabled.
ApiChanges ==
    /\ changes < MaxListChanges
    /\ changes' = changes + 1
    /\ \E l \in SUBSET Address \ {listed} :
          /\ listed' = l
          /\ everListed' = everListed \cup l
    /\ UNCHANGED <<phase, lists, ports, conns, heard>>

\* What fetch_allowed_sources() may return: an error is an empty list.
FetchResults == {listed, {}}

FetchInitial ==
    /\ phase = "fetch"
    /\ phase' = "bind"
    /\ allowed' \in FetchResults
    /\ trapAllowed' = allowed'
    /\ UNCHANGED <<api, ports, conns, heard>>

\* An answer that lacks a field ends Collector.start().
FetchRaises ==
    /\ phase = "fetch"
    /\ phase' = "exited"
    /\ UNCHANGED <<api, lists, ports, conns, heard>>

\* The UDP protocol is given the set that is current now.  A port that cannot
\* be bound is only logged.
Bind ==
    /\ phase = "bind"
    /\ phase' = "up"
    /\ udp' \in {{allowed}, {}}
    /\ tcp' \in BOOLEAN
    /\ UNCHANGED <<api, lists, conns, heard>>

\* Mutant of SetAllowedSources: the trap receiver is forgotten.
SetServerSources(l) == allowed' = l /\ UNCHANGED trapAllowed

\* set_allowed_sources() replaces the sets of both receivers.
SetAllowedSources(l) == allowed' = l /\ trapAllowed' = l

\* The refresh; an answer that lacks a field leaves the lists as they are.
RefreshOk ==
    /\ phase = "up"
    /\ SetAllowedSources(listed)
    /\ UNCHANGED <<phase, api, ports, conns, heard>>

RefreshFails ==
    /\ phase = "up"
    /\ SetAllowedSources({})
    /\ UNCHANGED <<phase, api, ports, conns, heard>>

-----------------------------------------------------------------------------
(* What is received *)

\* The check of the protocols.
Passes(a, list) == list = {} \/ a \in list

\* Mutant of OnSyslogMessage: the check of the protocol is relied upon.
ForwardAll(a) == heard' = heard \cup {a}

\* An address without a source id is dropped, whatever let it pass before.
OnSyslogMessage(a) ==
    \/ a \in allowed /\ heard' = heard \cup {a}
    \/ a \notin allowed /\ UNCHANGED heard

DatagramReceived(a) ==
    /\ \E list \in udp : Passes(a, list)
    /\ OnSyslogMessage(a)
    /\ UNCHANGED <<phase, api, lists, ports, conns>>

TrapReceived(a) ==
    /\ phase \in {"up", "stopping"}
    /\ Passes(a, trapAllowed)
    /\ OnSyslogMessage(a)
    /\ UNCHANGED <<phase, api, lists, ports, conns>>

\* The list is consulted when the connection is made, and never again.
ConnectionMade(c) ==
    /\ tcp
    /\ conns[c].at = "new"
    /\ conns' = [conns EXCEPT ![c].at =
          IF Passes(conns[c].from, allowed) THEN "open" ELSE "closed"]
    /\ UNCHANGED <<phase, api, lists, ports, heard>>

Breaks(s) == {i \in 1 .. Len(s) : s[i] = Newline}

\* What follows the last newline.
Rest(s) == SubSeq(s, Max(Breaks(s) \cup {0}) + 1, Len(s))

\* The line that the newline at position e ends.
Line(s, e) == Rest(SubSeq(s, 1, e - 1))

\* Empty lines are left out.
Ends(s) == {e \in Breaks(s) : Line(s, e) # <<>>}

\* The k-th smallest of a set of positions.
Nth(S, k) == CHOOSE e \in S : Cardinality({i \in S : i <= e}) = k

\* The lines of a stream that are complete, in their order.
Lines(s) == [k \in 1 .. Cardinality(Ends(s)) |-> Line(s, Nth(Ends(s), k))]

\* Mutant of Received: the rest of an earlier chunk is overwritten.
ChunkOnly(c, chunk) == chunk

Received(c, chunk) == conns[c].buffer \o chunk

TooLong(s) == Len(s) > MaxTcpSize

\* Mutant of Kept: the buffer grows as long as no newline comes.
KeptWhole(s) == s

\* A rest that is too long is thrown away.
Kept(s) == IF TooLong(s) THEN <<>> ELSE s

\* Each complete line is a message.
DataReceived(c, chunk) ==
    LET all == Received(c, chunk) IN
    /\ conns[c].at = "open"
    /\ conns' = [conns EXCEPT
          ![c].sent = @ \o chunk,
          ![c].messages = @ \o Lines(all),
          ![c].buffer = Kept(Rest(all)),
          ![c].overflowed = @ \/ TooLong(Rest(all))]
    /\ \/ Lines(all) = <<>> /\ UNCHANGED heard
       \/ Lines(all) # <<>> /\ OnSyslogMessage(conns[c].from)
    /\ UNCHANGED <<phase, api, lists, ports>>

\* What is left in the buffer is a message too.
Remainder(c) ==
    IF conns[c].buffer = <<>> THEN <<>> ELSE <<conns[c].buffer>>

ConnectionLost(c) ==
    /\ conns[c].at = "open"
    /\ conns' = [conns EXCEPT ![c].at = "closed", ![c].buffer = <<>>,
                              ![c].messages = @ \o Remainder(c)]
    /\ \/ Remainder(c) = <<>> /\ UNCHANGED heard
       \/ Remainder(c) # <<>> /\ OnSyslogMessage(conns[c].from)
    /\ UNCHANGED <<phase, api, lists, ports>>

-----------------------------------------------------------------------------
(* Collector.stop() *)

\* The refresh is cancelled and the ports are closed; connections stay open
\* (wait_closed() of Python 3.11 does not wait for them).
Stop ==
    /\ phase = "up"
    /\ phase' = "stopping"
    /\ udp' = {} /\ tcp' = FALSE
    /\ UNCHANGED <<api, lists, conns, heard>>

\* The syslog transport and then the trap receiver have stopped.
StopReceiver ==
    /\ phase = "stopping"
    /\ phase' = "stopped"
    /\ UNCHANGED <<api, lists, ports, conns, heard>>

-----------------------------------------------------------------------------

Chunks(c) ==
    {s \in BoundedSeq(Byte, MaxSent - Len(conns[c].sent)) : s # <<>>}

Finished == phase \in {"stopped", "exited"} /\ UNCHANGED vars

Next ==
    \/ ApiChanges
    \/ FetchInitial \/ FetchRaises \/ Bind
    \/ RefreshOk \/ RefreshFails
    \/ \E a \in Address : DatagramReceived(a) \/ TrapReceived(a)
    \/ \E c \in Connection :
          \/ ConnectionMade(c) \/ ConnectionLost(c)
          \/ \E chunk \in Chunks(c) : DataReceived(c, chunk)
    \/ Stop \/ StopReceiver
    \/ Finished

Spec == Init /\ [][Next]_vars

\* The refresh is made again and again, and does not fail every time.
FairSpec == Spec /\ WF_vars(FetchInitial) /\ WF_vars(Bind) /\ SF_vars(RefreshOk)

-----------------------------------------------------------------------------
(* Properties *)

\* How a stream is cut into chunks does not change its messages: they are its
\* lines in order, and at the end of the connection what follows the last
\* newline, unless a line was too long.
Framed ==
    \A c \in Connection : ~ conns[c].overflowed =>
        LET s == conns[c].sent IN
        conns[c].messages =
            IF conns[c].at = "closed" THEN Lines(Append(s, Newline)) ELSE Lines(s)

\* Only addresses that were once listed are forwarded, even though a failed
\* fetch empties the list and so opens every port to all of them.
OnlyListedSources == heard \subseteq everListed

\* While the server is up, both receivers come to agree with the API again and
\* again, whatever fetches fail.
RefreshConverges ==
    []<>(phase # "up" \/ (allowed = listed /\ trapAllowed = listed))

=============================================================================
