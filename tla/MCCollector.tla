----------------------------- MODULE MCCollector -----------------------------
(* Small instances of Collector for TLC. *)
EXTENDS Collector, TLC

CONSTANTS d1, d2, d3

\* Three plugins with a device each, and two of them.
MCGroups == <<<<d1>>, <<d2>>, <<d3>>>>
MCTwoGroups == <<<<d1>>, <<d2>>>>

\* A device comes or goes.
MCComings ==
    { d1 :> "on" @@ d2 :> "absent" @@ d3 :> "absent",
      d1 :> "on" @@ d2 :> "on" @@ d3 :> "on",
      d1 :> "absent" @@ d2 :> "on" @@ d3 :> "absent",
      d1 :> "absent" @@ d2 :> "off" @@ d3 :> "on" }

\* A device is enabled or disabled.
MCSwitches == { d1 :> "on" @@ d2 :> "off", d1 :> "on" @@ d2 :> "on" }

=============================================================================
