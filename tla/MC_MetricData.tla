--------------------------- MODULE MC_MetricData ----------------------------
(* A small instance of MetricData for TLC.                                 *)
EXTENDS MetricData, TLC

\* One query is narrowed to a group, one switched off, one left as it is.
Narrowed ==
    << "load" :> "open" @@ "old" :> "open" @@ "disk" :> "open",
       "load" :> "staff" @@ "old" :> "disabled" @@ "disk" :> "open" >>

\* The reader is in the other group.
Guests == [u \in Readers |-> {"guests"}]
=============================================================================
