------------------------------- MODULE Fleet -------------------------------
(***************************************************************************)
(* A collector whose publish hook rings a fleet sink's doorbell             *)
(* (FleetSink::from_handle with FleetSink::publish_hook as the collector's  *)
(* CollectorConfig::on_publish).  The two run on threads of their own and   *)
(* share the snapshot slot and the doorbell.                                *)
(***************************************************************************)
EXTENDS FleetSink

CONSTANTS Every, Configured, MaxGen

VARIABLES pc, gen, monitors, cache, draft, stop, readerPass

C == INSTANCE Collector

ASSUME FleetAssumption == C!CollectorAssumption

VARIABLE published  \* history: the snapshots published, without their tables

sinkOwn == <<bell, kpc, held, counters, rows, stopAsked>>
collectorOwn == <<pc, gen, monitors, cache, draft, stop, readerPass>>
vars == <<slot, sinkOwn, collectorOwn, published>>

TypeOK == SinkTypeOK /\ C!TypeOK

Init ==
    /\ C!Init
    /\ SinkInit
    /\ published = {}

\* The steps of the collector that touch neither the slot nor the doorbell.
CollectorAlone ==
    /\ C!Acquire \/ C!Collect \/ C!Build \/ C!Loop \/ C!Sleep \/ C!RequestStop
    /\ UNCHANGED <<sinkOwn, published>>

CollectorPublishes ==
    /\ C!Store
    /\ published' = published \cup {[gen |-> draft.gen, warmup |-> draft.warmup, dated |-> draft.dated]}
    /\ UNCHANGED sinkOwn

\* The hook runs after the store, and does nothing but ring.
CollectorRings ==
    /\ C!Hook
    /\ Ring
    /\ UNCHANGED published

SinkSteps ==
    /\ AskStop \/ Task
    /\ UNCHANGED <<collectorOwn, published>>

Next == CollectorAlone \/ CollectorPublishes \/ CollectorRings \/ SinkSteps

\* Both threads run, an append ends, and nothing obliges anyone to ask for a stop.
Fairness ==
    /\ WF_vars(CollectorPublishes) /\ WF_vars(CollectorRings)
    /\ WF_vars((C!Acquire \/ C!Collect \/ C!Build \/ C!Loop \/ C!Sleep) /\ UNCHANGED <<sinkOwn, published>>)
    /\ WF_vars((Wake \/ Read \/ Commit \/ Count) /\ UNCHANGED <<collectorOwn, published>>)

Spec == Init /\ [][Next]_vars /\ Fairness

-----------------------------------------------------------------------------

(* What the table holds was published, by a pass that was not the warm-up   *)
(* and that could read the clock: a warm-up row would assert a machine      *)
(* without accelerators, an undated one a reading at the epoch.             *)
RowsWerePublished ==
    \A g \in rows : \E s \in published : s.gen = g /\ ~s.warmup /\ s.dated

(* No snapshot is lost at the end of a burst: the newest storable one is    *)
(* stored, replaced by a newer one, or the sink has stopped or failed, even *)
(* when it was published while an append was in flight and never again      *)
(* rung for.                                                                *)
NewestIsStored ==
    \A g \in 1..MaxGen :
        (slot.gen = g /\ Storable(slot)) ~>
            (g \in rows \/ slot.gen > g \/ kpc \in {"stopped", "failed"})

(* The properties of the collector, with the sink beside it.                *)
ProcessTableNeverRegresses == C!ProcessTableNeverRegresses
SampledProcessesAreCurrent == C!SampledProcessesAreCurrent
StopEndsTheThread == C!StopEndsTheThread

(* The collector is one of the surroundings the sink is proved for: above    *)
(* all, each snapshot it publishes is newer than the last, the sink's only  *)
(* means to tell a new snapshot from one it has stored.                     *)
RunsTheOpenSink == SinkSpec

=============================================================================
