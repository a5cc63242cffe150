----------------------------- MODULE FleetSink -----------------------------
(***************************************************************************)
(* The fleet sink (src/src/fleet_store/sink.rs, and FleetStore::append in   *)
(* store.rs): a task that appends the newest published snapshot to a table  *)
(* each time the collector's publish hook rings a doorbell.  The doorbell   *)
(* carries no data and holds one permit, so rings coalesce while an append  *)
(* is in flight, and the snapshot read after a ring may be newer than the   *)
(* one that rang it.                                                        *)
(*                                                                          *)
(* The task is open to its surroundings: Publish and Ring are what the      *)
(* collector does to it, AskStop what its owner does.                       *)
(***************************************************************************)
EXTENDS Naturals, FiniteSets

VARIABLES
    slot,        \* the published snapshot
    bell,        \* Notify: whether the one permit is held
    kpc,         \* where the task is in run and append_latest
    held,        \* the generation of the snapshot being appended
    lastStored,  \* last_stored
    stored,      \* stored
    skipped,     \* skipped
    rows,        \* the generations committed to the table
    stopAsked    \* whether the stop channel has resolved

counters == <<lastStored, stored, skipped>>
sinkVars == <<slot, bell, kpc, held, counters, rows, stopAsked>>

SinkTypeOK ==
    /\ slot.gen \in Nat /\ slot.warmup \in BOOLEAN /\ slot.dated \in BOOLEAN
    /\ bell \in BOOLEAN
    /\ kpc \in {"select", "woken", "append", "count", "stopped", "failed"}
    /\ held \in Nat
    /\ lastStored \in Nat /\ stored \in Nat /\ skipped \in Nat
    /\ rows \subseteq Nat /\ IsFiniteSet(rows)
    /\ stopAsked \in BOOLEAN

SinkInit ==
    /\ slot.gen = 0 /\ slot.warmup = FALSE /\ slot.dated = FALSE
    /\ bell = FALSE
    /\ kpc = "select"
    /\ held = 0
    /\ lastStored = 0 /\ stored = 0 /\ skipped = 0
    /\ rows = {}
    /\ stopAsked = FALSE

-----------------------------------------------------------------------------
(* The surroundings                                                         *)

Publish ==
    /\ slot'.gen \in Nat /\ slot'.warmup \in BOOLEAN /\ slot'.dated \in BOOLEAN
    /\ slot'.gen > slot.gen
    /\ UNCHANGED <<bell, kpc, held, counters, rows, stopAsked>>

\* notify_one.  The slip is notify_waiters, which leaves no permit behind.
RingWaiters ==
    /\ bell' = (bell \/ kpc = "select")
    /\ UNCHANGED <<slot, kpc, held, counters, rows, stopAsked>>
Ring ==
    /\ bell' = TRUE
    /\ UNCHANGED <<slot, kpc, held, counters, rows, stopAsked>>

AskStop ==
    /\ ~stopAsked
    /\ stopAsked' = TRUE
    /\ UNCHANGED <<slot, bell, kpc, held, counters, rows>>

-----------------------------------------------------------------------------
(* The task                                                                 *)

\* append writes nothing of a warm-up pass, and a snapshot without a time has
\* no rows.  The slip recognises the warm-up only.
StorableUndated(s) == ~s.warmup
Storable(s) == ~s.warmup /\ s.dated

\* The duplicate check of append_latest.  The slip ignores it.
NeverStored(g) == FALSE
AlreadyStored(g) == g # 0 /\ g <= lastStored

\* The select loop takes the permit, or the stop: both may be ready.
Wake ==
    /\ kpc = "select"
    /\ bell
    /\ bell' = FALSE
    /\ kpc' = "woken"
    /\ UNCHANGED <<slot, held, counters, rows, stopAsked>>

Stop ==
    /\ kpc = "select"
    /\ stopAsked
    /\ kpc' = "stopped"
    /\ UNCHANGED <<slot, bell, held, counters, rows, stopAsked>>

\* The newest snapshot is read, whichever ring this is.
Read ==
    /\ kpc = "woken"
    /\ IF AlreadyStored(slot.gen) \/ ~Storable(slot)
       THEN /\ kpc' = "select"
            /\ UNCHANGED held
       ELSE /\ kpc' = "append"
            /\ held' = slot.gen
    /\ UNCHANGED <<slot, bell, counters, rows, stopAsked>>

Commit ==
    /\ kpc = "append"
    /\ rows' = rows \cup {held}
    /\ kpc' = "count"
    /\ UNCHANGED <<slot, bell, held, counters, stopAsked>>

\* An error of the catalog or of the writer ends the task.
Fail ==
    /\ kpc = "append"
    /\ kpc' = "failed"
    /\ UNCHANGED <<slot, bell, held, counters, rows, stopAsked>>

\* The gap between two stored generations.  The slip counts the newer one too.
GapWithNewer(previous, g) == IF previous # 0 /\ g > previous + 1 THEN g - previous ELSE 0
Gap(previous, g) == IF previous # 0 /\ g > previous + 1 THEN g - previous - 1 ELSE 0

Count ==
    /\ kpc = "count"
    /\ lastStored' = held
    /\ skipped' = skipped + Gap(lastStored, held)
    /\ stored' = stored + 1
    /\ held' = 0
    /\ kpc' = "select"
    /\ UNCHANGED <<slot, bell, rows, stopAsked>>

Task == Wake \/ Stop \/ Read \/ Commit \/ Fail \/ Count
SinkNext == Publish \/ Ring \/ AskStop \/ Task
SinkSpec == SinkInit /\ [][SinkNext]_sinkVars

-----------------------------------------------------------------------------

\* The rows the counters speak for: not one committed and not yet counted.
CountedRows == IF kpc = "count" THEN rows \ {held} ELSE rows

Promise == INSTANCE GapCountedTable WITH latest <- slot.gen, rows <- CountedRows

(* "The count is the difference between 'this machine reported nothing' and *)
(* 'this machine was too busy to write'": whatever was coalesced, read late *)
(* or read twice, the two counters are exactly the generations in the table *)
(* and the holes between them.                                              *)
AccountingExact ==
    /\ stored = Cardinality(CountedRows)
    /\ skipped = Cardinality(Promise!Holes(CountedRows))

(* The sink keeps its promise: rows appear in order, once, only of published *)
(* generations, and are counted with their holes in one step.               *)
KeepsPromise == Promise!Spec

=============================================================================
