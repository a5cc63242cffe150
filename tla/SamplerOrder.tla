---------------------------- MODULE SamplerOrder ----------------------------
(***************************************************************************)
(* In which order the sampler serves the segments that several clients keep *)
(* asking for (run's choice of the most overdue segment,                    *)
(* src/src/http_server/sampler.rs).  A history variable is added to         *)
(* Sampler; it watches its steps and changes none.                          *)
(***************************************************************************)
EXTENDS Sampler

VARIABLE
    overtaken   \* history: passes begun over each waiting segment, for each other

orderVars == <<vars, overtaken>>

\* Wanted within its idle window, and due.
Waits(s) == s \in Due(taken)

\* The step begins a pass of the segment.
Begins(s) == tpc # "pass" /\ tpc' = "pass" /\ seg' = s

NoteOvertaken ==
    overtaken' = [s \in Segments |-> [t \in Segments |->
        IF ~Waits(s)' \/ Begins(s) THEN 0
        ELSE IF Begins(t) THEN overtaken[s][t] + 1 ELSE overtaken[s][t]]]

OrderInit ==
    /\ Init
    /\ overtaken = [s \in Segments |-> [t \in Segments |-> 0]]

OrderNext == Next /\ NoteOvertaken

OrderSpec == OrderInit /\ [][OrderNext]_orderVars /\ Fairness

-----------------------------------------------------------------------------

(* A segment that is wanted and due is overtaken at most once by each       *)
(* other, however the clients poll and however long the passes take: it     *)
(* waits for one round at most (run's "most overdue wanted segment").  It   *)
(* needs samples that stay fresh for a while, ResampleEvery > 0.            *)
OvertakenOnceByEach ==
    \A s \in Segments : \A t \in Segments : overtaken[s][t] <= 1

=============================================================================
