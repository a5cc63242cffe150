----------------------------- MODULE Collector -----------------------------
(***************************************************************************)
(* The background collector (src/src/pipeline/mod.rs): one thread that runs *)
(* a pass over the hardware readers per tick and replaces the one published *)
(* snapshot by the result.  Generation 1 is the warm-up pass, run before    *)
(* the process and connection monitors exist.                               *)
(*                                                                          *)
(* A table of the snapshot is represented by the generation whose pass read *)
(* it, 0 for an empty table: what the properties distinguish is how old a   *)
(* published table is and whether it was blanked.                           *)
(***************************************************************************)
EXTENDS Naturals

CONSTANTS
    Every,       \* process_, connection_ and disk_every_n_ticks, by stage
    Configured,  \* the stages collect_processes and collect_connections enable
    MaxGen       \* bound of the model: the generations of one collector

Stages == {"process", "connection", "disk"}

\* What the modules that instantiate this one assume of its constants.
CollectorAssumption ==
    /\ Every \in [Stages -> Nat]
    /\ Configured \subseteq {"process", "connection"}
    /\ MaxGen \in Nat \ {0}

VARIABLES
    pc,          \* where the collector thread is
    gen,         \* the generation counter of collector_loop
    monitors,    \* the monitors in Sources
    cache,       \* cached_processes, cached_connections, cached_disks
    draft,       \* the snapshot collect_once is about to return
    slot,        \* the published snapshot
    stop,        \* the stop flag
    readerPass   \* who holds READER_PASS

own == <<pc, gen, monitors, cache, draft, slot, stop>>
vars == <<own, readerPass>>

Tables == [Stages -> 0..MaxGen]
Snapshots == [gen : 0..MaxGen, warmup : BOOLEAN, dated : BOOLEAN,
              sampled : SUBSET Stages, tables : Tables]

TypeOK ==
    /\ pc \in {"acquire", "collect", "store", "hook", "build", "loop", "sleep", "exited"}
    /\ gen \in 1..MaxGen
    /\ monitors \subseteq Configured
    /\ cache \in Tables
    /\ draft \in Snapshots
    /\ slot \in Snapshots
    /\ stop \in BOOLEAN
    /\ pc = "collect" <=> readerPass = "collector"

\* Snapshot::default.
NoSnapshot == [gen |-> 0, warmup |-> FALSE, dated |-> FALSE, sampled |-> {},
               tables |-> [s \in Stages |-> 0]]

\* The thread may not be spawned, which leaves the default snapshot for good.
Init ==
    /\ pc \in {"acquire", "exited"}
    /\ gen = 1
    /\ monitors = {}
    /\ cache = NoSnapshot.tables
    /\ draft = NoSnapshot
    /\ slot = NoSnapshot
    /\ stop = FALSE
    /\ readerPass = "free"

-----------------------------------------------------------------------------
(* collect_once                                                             *)

\* The closure due.
IsDue(s) == gen = 1 \/ gen % (IF Every[s] = 0 THEN 1 ELSE Every[s]) = 0

\* What a stage hands back: "read" its table, "blank" an empty one, or "none",
\* which leaves the cached table as it is.  A panic counts as "none"; a failing
\* disk enumeration is an empty list; without a monitor there are no processes
\* to report, but there is an empty list of connections.
StageResults(s) ==
    IF ~IsDue(s) THEN {"none"}
    ELSE CASE s = "process"    -> IF s \in monitors THEN {"read", "none"} ELSE {"none"}
           [] s = "connection" -> IF s \in monitors THEN {"read", "none"} ELSE {"blank"}
           [] s = "disk"       -> {"read", "blank", "none"}

Results == {r \in [Stages -> {"read", "blank", "none"}] :
                \A s \in Stages : r[s] \in StageResults(s)}

\* A slip: a stage without a result empties its table.
EmptiedBy(r) == [s \in Stages |-> IF r[s] = "read" THEN gen ELSE 0]
CacheAfter(r) ==
    [s \in Stages |-> CASE r[s] = "read" -> gen [] r[s] = "blank" -> 0 [] OTHER -> cache[s]]

\* process_sampled and connections_sampled.  The slip: set by being due.
SampledIfDue(r) == {s \in {"process", "connection"} : IsDue(s)}
SampledBy(r) == {s \in {"process", "connection"} : r[s] # "none"}

\* A slip: the pass runs without the reader lock.
AcquireNothing ==
    /\ pc = "acquire"
    /\ pc' = "collect"
    /\ UNCHANGED <<gen, monitors, cache, draft, slot, stop, readerPass>>

Acquire ==
    /\ pc = "acquire"
    /\ readerPass = "free"
    /\ readerPass' = "collector"
    /\ pc' = "collect"
    /\ UNCHANGED <<gen, monitors, cache, draft, slot, stop>>

\* The clock may be unreadable: the snapshot then has no collected_at.
Collect ==
    /\ pc = "collect"
    /\ \E r \in Results, dated \in BOOLEAN :
          /\ cache' = CacheAfter(r)
          /\ draft' = [gen |-> gen, warmup |-> gen = 1, dated |-> dated,
                       sampled |-> SampledBy(r), tables |-> cache']
    /\ readerPass' = "free"
    /\ pc' = "store"
    /\ UNCHANGED <<gen, monitors, slot, stop>>

-----------------------------------------------------------------------------
(* collector_loop                                                           *)

Store ==
    /\ pc = "store"
    /\ slot' = draft
    /\ draft' = NoSnapshot
    /\ pc' = "hook"
    /\ UNCHANGED <<gen, monitors, cache, stop, readerPass>>

\* The hook runs on the collector thread after the store.  Only the warm-up's
\* is followed by a check of the stop flag of its own.
Hook ==
    /\ pc = "hook"
    /\ pc' = IF gen = 1 THEN IF stop THEN "exited" ELSE "build" ELSE "sleep"
    /\ UNCHANGED <<gen, monitors, cache, draft, slot, stop, readerPass>>

\* A configured monitor may fail to open.
Build ==
    /\ pc = "build"
    /\ monitors' \in SUBSET Configured
    /\ pc' = "loop"
    /\ UNCHANGED <<gen, cache, draft, slot, stop, readerPass>>

\* A slip: the flag is read only while sleeping.
LoopUnchecked ==
    /\ pc = "loop"
    /\ gen < MaxGen
    /\ gen' = gen + 1
    /\ pc' = "acquire"
    /\ UNCHANGED <<monitors, cache, draft, slot, stop, readerPass>>

\* A slip: the next pass is of the same generation.
LoopRecounts ==
    /\ pc = "loop"
    /\ pc' = IF stop THEN "exited" ELSE "acquire"
    /\ UNCHANGED <<gen, monitors, cache, draft, slot, stop, readerPass>>

Loop ==
    /\ pc = "loop"
    /\ \/ /\ stop
          /\ pc' = "exited"
          /\ UNCHANGED gen
       \/ /\ ~stop
          /\ gen < MaxGen
          /\ gen' = gen + 1
          /\ pc' = "acquire"
    /\ UNCHANGED <<monitors, cache, draft, slot, stop, readerPass>>

\* The sleep, cut into slices, ends with the period or with the stop flag.
Sleep ==
    /\ pc = "sleep"
    /\ pc' = "loop"
    /\ UNCHANGED <<gen, monitors, cache, draft, slot, stop, readerPass>>

\* request_stop, also the first half of dropping the Collector, which then joins.
RequestStop ==
    /\ ~stop
    /\ stop' = TRUE
    /\ UNCHANGED <<pc, gen, monitors, cache, draft, slot, readerPass>>

\* The steps the thread takes on its own; Acquire waits for others.
Run == Collect \/ Store \/ Hook \/ Build \/ Loop \/ Sleep
Next == Acquire \/ Run \/ RequestStop

\* The scheduler runs the thread, every reader returns, sleeps end.
Fairness == WF_vars(Run) /\ SF_vars(Acquire)

Spec == Init /\ [][Next]_vars /\ Fairness

-----------------------------------------------------------------------------

(* The published process table never goes back: once one has been read it   *)
(* is replaced by a later reading only, and a pass that did not run the     *)
(* stage, or failed to read it, does not blank it (cached_processes).       *)
ProcessTableNeverRegresses ==
    [][slot'.tables["process"] >= slot.tables["process"]]_vars

(* "Whether the process stage read the process table this tick": the flag   *)
(* and the age of the published table agree, on ticks where the stage was   *)
(* not due, found no monitor, or failed.                                    *)
SampledProcessesAreCurrent ==
    slot.gen # 0 =>
        ("process" \in slot.sampled <=> slot.tables["process"] = slot.gen)

(* A stop request ends the thread, so the join in Drop returns.             *)
StopEndsTheThread == stop ~> pc = "exited"

=============================================================================
