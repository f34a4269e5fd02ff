-------------------------- MODULE MCSecureTransport --------------------------
(* Small instances of SecureTransport for TLC. *)
EXTENDS SecureTransport

CONSTANTS c1, c2, c3, b1, b2, b3

\* One device per call.
MCBatchesOf3 == c1 :> {b1} @@ c2 :> {b2} @@ c3 :> {b3}

=============================================================================
