-------------------------- MODULE MCSyslogTransport --------------------------
(* Small instances of SyslogTransport for TLC. *)
EXTENDS SyslogTransport

CONSTANTS c1, c2, c3, b1, b2, b3

\* One device per call.
MCBatchesOf3 == c1 :> {b1} @@ c2 :> {b2} @@ c3 :> {b3}

=============================================================================
