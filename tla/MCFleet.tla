------------------------------ MODULE MCFleet ------------------------------
(* A fleet sink beside a collector that reads its processes every second    *)
(* tick, its connections every tick, and its disks on the warm-up only.     *)
EXTENDS Fleet

MCEvery == [s \in {"process", "connection", "disk"} |->
               CASE s = "process" -> 2 [] s = "connection" -> 1 [] s = "disk" -> 10]

=============================================================================
