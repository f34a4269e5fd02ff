--------------------------- MODULE StoreAndForward ---------------------------
(***************************************************************************)
(* What the metric transport promises of each batch: it is accepted into   *)
(* memory, from where it is acknowledged by the server, written to disk or *)
(* dropped; on disk it is safe from everything but its age.  A batch that  *)
(* was acknowledged or dropped stays so.                                   *)
(***************************************************************************)
CONSTANT Batch

VARIABLE status

Statuses == {"new", "memory", "disk", "acked", "lost"}

Init == status = [b \in Batch |-> "new"]

\* A non-empty set of batches with status "from" moves to status "to".
Moves(from, to) ==
    \E S \in (SUBSET {b \in Batch : status[b] = from}) \ {{}} :
        status' = [b \in Batch |-> IF b \in S THEN to ELSE status[b]]

Accept      == Moves("new", "memory")
Acknowledge == Moves("memory", "acked") \/ Moves("disk", "acked")
Store       == Moves("memory", "disk")
Drop        == Moves("memory", "lost")
Expire      == Moves("disk", "lost")

Next == Accept \/ Acknowledge \/ Store \/ Drop \/ Expire

Spec == Init /\ [][Next]_status

=============================================================================
