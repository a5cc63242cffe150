----------------------------- MODULE MCReaders -----------------------------
(* One request thread and two segments beside a collector of three ticks.   *)
EXTENDS Readers

MCEvery == [s \in {"process", "connection", "disk"} |->
               CASE s = "process" -> 2 [] s = "connection" -> 1 [] s = "disk" -> 10]

=============================================================================
