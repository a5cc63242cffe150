------------------------------ MODULE Readers ------------------------------
(***************************************************************************)
(* The two sides of one process that read the hardware in passes: the HTTP  *)
(* sampler and the background collector, which take READER_PASS             *)
(* (pipeline/mod.rs reader_pass).                                           *)
(***************************************************************************)
EXTENDS Sampler

CONSTANTS Every, Configured, MaxGen

VARIABLES pc, gen, monitors, cache, draft, slot, stop

C == INSTANCE Collector

ASSUME ReadersAssumption == C!CollectorAssumption

samplerOwn == <<now, state, thread, clients, history>>
collectorOwn == <<pc, gen, monitors, cache, draft, slot, stop>>
allVars == <<samplerOwn, collectorOwn, readerPass>>

ReadersTypeOK ==
    /\ TypeOK
    /\ C!TypeOK
    /\ readerPass \in {"free", "sampler", "collector"}

ReadersInit ==
    /\ Init
    /\ C!Init

SamplerSteps == Next /\ UNCHANGED collectorOwn
CollectorSteps == C!Next /\ UNCHANGED samplerOwn

ReadersNext == SamplerSteps \/ CollectorSteps

(* Safety only: std's Mutex does not say who gets it next, so nothing here  *)
(* promises either side its turn.                                           *)
ReadersSpec == ReadersInit /\ [][ReadersNext]_allVars

-----------------------------------------------------------------------------

(* "their passes must never overlap": no sampler pass and collector pass    *)
(* are inside the readers together, also after a reader panicked in a pass  *)
(* and its poisoned lock was taken over.                                    *)
PassesNeverOverlap == ~(tpc = "reading" /\ pc = "collect")

=============================================================================
