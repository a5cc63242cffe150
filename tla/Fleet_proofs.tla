---------------------------- MODULE Fleet_proofs ----------------------------
(***************************************************************************)
(* Proofs about the fleet sink, for every sequence of generations that its  *)
(* surroundings may publish, and then about the collector and the sink      *)
(* together (Fleet.tla), for every cadence of the stages, every set of      *)
(* monitors and every bound on the generations.                             *)
(*                                                                          *)
(* The collector owes the sink one thing, generations that grow, and the    *)
(* invariant of the second part says where in a tick the growth is: from    *)
(* the moment the loop counts a new generation to its store, the slot is    *)
(* behind.  With it every step of the composition is a step of SinkSpec, so *)
(* the theorems about the sink alone carry over.                            *)
(***************************************************************************)
EXTENDS Fleet, FiniteSetTheorems, TLAPS

-----------------------------------------------------------------------------
(* The sink, in any surroundings: its counters account exactly for the      *)
(* table, and it keeps the promise of GapCountedTable.                      *)

(* The facts about holes.                                                   *)

(* A hole lies between two members and is not one.                          *)
LEMMA HoleMembers ==
    ASSUME NEW S, S \subseteq Nat
    PROVE  /\ Promise!Holes(S) \subseteq Nat
           /\ \A x \in Nat : x \in Promise!Holes(S) <=>
                  x \notin S /\ \E a, b \in S : a < x /\ x <= b
<1>1. \A x : x \in UNION {0..b : b \in S} <=> \E b \in S : x \in 0..b
  OBVIOUS
<1>2. \A b \in S : \A x : x \in 0..b <=> x \in Nat /\ x <= b
  BY SMT
<1>3. \A x : x \in Promise!Holes(S) <=>
            x \in UNION {0..b : b \in S} /\ x \notin S /\ \E a \in S : a < x
  BY DEF Promise!Holes
<1>. QED  BY <1>1, <1>2, <1>3

(* A new largest member adds the gap below it to the holes.                 *)
LEMMA HolesOfAppend ==
    ASSUME NEW S, S \subseteq Nat, NEW m \in S, \A x \in S : x <= m,
           NEW g \in Nat, g > m
    PROVE  Promise!Holes(S \cup {g}) = Promise!Holes(S) \cup ((m+1)..(g-1))
<1>. DEFINE T == S \cup {g}
<1>1. T \subseteq Nat
  OBVIOUS
<1>2. ASSUME NEW x \in Nat
      PROVE  (x \notin T /\ \E a, b \in T : a < x /\ x <= b)
             <=> ((x \notin S /\ \E a, b \in S : a < x /\ x <= b) \/ x \in (m+1)..(g-1))
  <2>1. CASE x <= m
    BY <2>1, SMT
  <2>2. CASE x > m
    BY <2>2, SMT
  <2>. QED  BY <2>1, <2>2
<1>3. /\ Promise!Holes(T) \subseteq Nat
      /\ \A x \in Nat : x \in Promise!Holes(T) <=>
             x \notin T /\ \E a, b \in T : a < x /\ x <= b
  <2>. HIDE DEF T
  <2>. QED  BY <1>1, HoleMembers
<1>4. /\ Promise!Holes(S) \subseteq Nat
      /\ \A x \in Nat : x \in Promise!Holes(S) <=>
             x \notin S /\ \E a, b \in S : a < x /\ x <= b
  BY HoleMembers
<1>5. \A x \in (m+1)..(g-1) : x \in Nat
  BY SMT
<1>6. ASSUME NEW x
      PROVE  x \in Promise!Holes(T) <=> x \in Promise!Holes(S) \cup ((m+1)..(g-1))
  <2>. HIDE DEF T
  <2>1. CASE x \in Nat
    BY <1>2, <1>3, <1>4, <2>1
  <2>2. CASE x \notin Nat
    BY <1>3, <1>4, <1>5, <2>2
  <2>. QED  BY <2>1, <2>2
<1>. QED  BY <1>6

(* How many holes there are after an append: those there were, and the gap. *)
LEMMA CountOfHoles ==
    ASSUME NEW S, S \subseteq Nat, NEW m \in S, \A x \in S : x <= m,
           NEW g \in Nat, g > m
    PROVE  /\ Cardinality(Promise!Holes(S)) \in Nat
           /\ Cardinality(Promise!Holes(S \cup {g})) = Cardinality(Promise!Holes(S)) + (g - m - 1)
<1>. DEFINE H == Promise!Holes(S)
            G == (m+1)..(g-1)
<1>1. H \subseteq Nat /\ \A x \in H : x <= m
  <2>1. \A x \in H : x \in Nat /\ \E b \in S : x <= b
    BY HoleMembers
  <2>. HIDE DEF H
  <2>. QED  BY <2>1, SMT
<1>2. IsFiniteSet(H) /\ Cardinality(H) \in Nat
  <2>. HIDE DEF H
  <2>. QED  BY <1>1, FS_BoundedSetOfNaturals, FS_CardinalityType, m \in Nat
<1>3. IsFiniteSet(G) /\ Cardinality(G) = g - m - 1
  <2>1. m + 1 \in Int /\ g - 1 \in Int
    BY SMT
  <2>2. /\ IsFiniteSet(G)
        /\ Cardinality(G) = IF m + 1 > g - 1 THEN 0 ELSE (g - 1) - (m + 1) + 1
    BY <2>1, FS_Interval
  <2>. HIDE DEF G
  <2>. QED  BY <2>2, SMT
<1>4. H \cap G = {}
  <2>. HIDE DEF H
  <2>. QED  BY <1>1, SMT
<1>5. Cardinality(H \cup G) = Cardinality(H) + Cardinality(G)
  <2>. HIDE DEF H, G
  <2>1. Cardinality(H \cup G) = Cardinality(H) + Cardinality(G) - Cardinality({})
    BY <1>2, <1>3, <1>4, FS_Union
  <2>2. Cardinality(G) \in Nat
    BY <1>3, FS_CardinalityType
  <2>. QED  BY <1>2, <2>1, <2>2, FS_EmptySet, SMT
<1>6. Promise!Holes(S \cup {g}) = H \cup G
  BY HolesOfAppend
<1>. HIDE DEF H, G
<1>7. Cardinality(Promise!Holes(S \cup {g})) = Cardinality(H) + (g - m - 1)
  BY <1>3, <1>5, <1>6
<1>. QED  BY <1>2, <1>7 DEF H

(* With one member, or none, there is no hole.                              *)
LEMMA NoHoles ==
    /\ Promise!Holes({}) = {}
    /\ \A g \in Nat : Promise!Holes({g}) = {}
<1>1. Promise!Holes({}) = {}
  BY DEF Promise!Holes
<1>2. ASSUME NEW g \in Nat
      PROVE  Promise!Holes({g}) = {}
  <2>1. {g} \subseteq Nat
    OBVIOUS
  <2>2. \A x \in Promise!Holes({g}) : x \in Nat /\ \E a, b \in {g} : a < x /\ x <= b
    BY <2>1, HoleMembers
  <2>3. \A x \in Nat : ~(g < x /\ x <= g)
    BY SMT
  <2>. QED  BY <2>2, <2>3
<1>. QED  BY <1>1, <1>2

-----------------------------------------------------------------------------
(* The inductive invariant.  AccountingExact alone is not inductive: the    *)
(* gap that Count adds is the right one because lastStored is the largest   *)
(* row counted and the snapshot being appended is newer than it.            *)

LastIsLargest ==
    /\ \A r \in CountedRows : 0 < r /\ r <= lastStored
    /\ IF lastStored = 0 THEN CountedRows = {} ELSE lastStored \in CountedRows

HeldIsNewer ==
    /\ lastStored <= slot.gen
    /\ slot.gen = 0 => ~slot.dated
    /\ kpc \in {"append", "count"} => lastStored < held /\ held <= slot.gen
    /\ kpc = "count" => held \in rows

SinkInv == SinkTypeOK /\ LastIsLargest /\ HeldIsNewer /\ AccountingExact

(* What counting a committed row does to the two counters.                  *)
LEMMA CountKeepsAccounts ==
    ASSUME SinkInv, Count
    PROVE  AccountingExact' /\ stored' \in Nat /\ skipped' \in Nat
<1>. DEFINE S == CountedRows
<1>. USE DEF SinkInv, Count
<1>1. /\ CountedRows' = S \cup {held}
      /\ S \subseteq Nat /\ IsFiniteSet(S)
      /\ held \notin S
      /\ held \in Nat /\ lastStored \in Nat /\ lastStored < held
  <2>1. S = rows \ {held} /\ CountedRows' = rows /\ held \in rows
    BY DEF CountedRows, HeldIsNewer
  <2>2. IsFiniteSet(S)
    BY <2>1, FS_RemoveElement DEF SinkTypeOK
  <2>. QED  BY <2>1, <2>2 DEF SinkTypeOK, HeldIsNewer
<1>2. stored' = Cardinality(CountedRows') /\ stored' \in Nat
  <2>1. Cardinality(S \cup {held}) = Cardinality(S) + 1
    BY <1>1, FS_AddElement
  <2>. QED  BY <1>1, <2>1 DEF AccountingExact, SinkTypeOK
<1>3. skipped' = Cardinality(Promise!Holes(CountedRows')) /\ skipped' \in Nat
  <2>1. CASE lastStored = 0
    <3>1. CountedRows' = {held} /\ S = {}
      BY <1>1, <2>1 DEF LastIsLargest
    <3>2. skipped' = skipped + 0 /\ skipped = Cardinality(Promise!Holes({}))
      BY <2>1, <3>1 DEF Gap, AccountingExact
    <3>3. skipped = 0 /\ Cardinality(Promise!Holes({held})) = 0
      BY <1>1, <3>2, NoHoles, FS_EmptySet
    <3>. QED  BY <3>1, <3>2, <3>3
  <2>2. CASE lastStored # 0
    <3>1. lastStored \in S /\ \A x \in S : x <= lastStored
      BY <2>2 DEF LastIsLargest
    <3>. HIDE DEF S
    <3>2. /\ Cardinality(Promise!Holes(S)) \in Nat
          /\ Cardinality(Promise!Holes(S \cup {held}))
                = Cardinality(Promise!Holes(S)) + (held - lastStored - 1)
      BY <1>1, <3>1, CountOfHoles
    <3>3. Gap(lastStored, held) = held - lastStored - 1
      BY <1>1, <2>2 DEF Gap
    <3>4. skipped = Cardinality(Promise!Holes(S))
      BY DEF AccountingExact, S
    <3>5. skipped' = skipped + (held - lastStored - 1)
      BY <3>3
    <3>. QED  BY <1>1, <3>2, <3>4, <3>5
  <2>. QED  BY <2>1, <2>2
<1>. QED  BY <1>2, <1>3 DEF AccountingExact

(* The invariant holds of every behaviour of the sink.                      *)
THEOREM SinkInvariant == SinkSpec => []SinkInv
<1>1. SinkInit => SinkInv
  <2>. SUFFICES ASSUME SinkInit
                PROVE  SinkInv
    OBVIOUS
  <2>1. CountedRows = {}
    BY DEF SinkInit, CountedRows
  <2>2. SinkTypeOK /\ LastIsLargest
    <3>1. slot.warmup \in BOOLEAN /\ slot.dated \in BOOLEAN /\ bell \in BOOLEAN /\ stopAsked \in BOOLEAN
      BY Zenon DEF SinkInit
    <3>2. LastIsLargest
      BY <2>1 DEF SinkInit, LastIsLargest
    <3>3. IsFiniteSet(rows) /\ rows \subseteq Nat
      BY FS_EmptySet DEF SinkInit
    <3>4. slot.gen \in Nat /\ held \in Nat /\ lastStored \in Nat /\ stored \in Nat /\ skipped \in Nat
      BY DEF SinkInit
    <3>. QED  BY <3>1, <3>2, <3>3, <3>4 DEF SinkInit, SinkTypeOK
  <2>3. HeldIsNewer
    <3>1. ~slot.dated
      BY Zenon DEF SinkInit
    <3>. QED  BY <3>1 DEF SinkInit, HeldIsNewer
  <2>4. Cardinality(CountedRows) = 0 /\ Cardinality(Promise!Holes(CountedRows)) = 0
    BY <2>1, FS_EmptySet, NoHoles
  <2>5. AccountingExact
    BY <2>4 DEF SinkInit, AccountingExact
  <2>. QED  BY <2>2, <2>3, <2>5 DEF SinkInv
<1>2. SinkInv /\ [SinkNext]_sinkVars => SinkInv'
  <2>. SUFFICES ASSUME SinkInv, [SinkNext]_sinkVars
                PROVE  SinkInv'
    OBVIOUS
  <2>. USE DEF SinkInv
  <2>. DEFINE Same == CountedRows' = CountedRows /\ UNCHANGED counters
  <2>1. Same => LastIsLargest' /\ AccountingExact'
    BY DEF LastIsLargest, AccountingExact, counters
  <2>2. CASE Publish
    <3>1. SinkTypeOK' /\ HeldIsNewer'
      BY <2>2 DEF Publish, SinkTypeOK, HeldIsNewer, counters
    <3>2. Same
      BY <2>2 DEF Publish, CountedRows
    <3>. QED  BY <2>1, <3>1, <3>2
  <2>3. CASE Ring \/ AskStop \/ Wake \/ Stop \/ Fail
    <3>1. SinkTypeOK' /\ HeldIsNewer'
      BY <2>3 DEF Ring, AskStop, Wake, Stop, Fail, SinkTypeOK, HeldIsNewer, counters
    <3>2. Same
      BY <2>3 DEF Ring, AskStop, Wake, Stop, Fail, CountedRows
    <3>. QED  BY <2>1, <3>1, <3>2
  <2>4. CASE Read
    <3>1. SinkTypeOK' /\ HeldIsNewer'
      BY <2>4 DEF Read, AlreadyStored, Storable, SinkTypeOK, HeldIsNewer, counters
    <3>2. Same
      BY <2>4 DEF Read, CountedRows
    <3>. QED  BY <2>1, <3>1, <3>2
  <2>5. CASE Commit
    <3>1. IsFiniteSet(rows')
      BY <2>5, FS_AddElement DEF Commit, SinkTypeOK
    <3>2. SinkTypeOK' /\ HeldIsNewer'
      BY <2>5, <3>1 DEF Commit, SinkTypeOK, HeldIsNewer, counters
    <3>3. held \notin rows
      BY <2>5 DEF Commit, SinkTypeOK, HeldIsNewer, LastIsLargest, CountedRows
    <3>4. Same
      BY <2>5, <3>3 DEF Commit, CountedRows
    <3>. QED  BY <2>1, <3>2, <3>4
  <2>6. CASE Count
    <3>1. AccountingExact' /\ stored' \in Nat /\ skipped' \in Nat
      BY <2>6, CountKeepsAccounts
    <3>2. SinkTypeOK' /\ HeldIsNewer'
      BY <2>6, <3>1 DEF Count, SinkTypeOK, HeldIsNewer
    <3>3. LastIsLargest'
      BY <2>6 DEF Count, SinkTypeOK, HeldIsNewer, LastIsLargest, CountedRows
    <3>. QED  BY <3>1, <3>2, <3>3
  <2>7. CASE UNCHANGED sinkVars
    <3>1. SinkTypeOK' /\ HeldIsNewer' /\ Same
      BY <2>7 DEF sinkVars, counters, SinkTypeOK, HeldIsNewer, CountedRows
    <3>. QED  BY <2>1, <3>1
  <2>. QED  BY <2>2, <2>3, <2>4, <2>5, <2>6, <2>7 DEF SinkNext, Task
<1>. QED  BY <1>1, <1>2, PTL DEF SinkSpec

(* The counters are exactly the rows and the holes between them, for every  *)
(* generation sequence the collector may publish (FleetSink::stats).        *)
THEOREM AccountingIsExact == SinkSpec => []AccountingExact
<1>1. SinkInv => AccountingExact
  BY DEF SinkInv
<1>. QED  BY <1>1, SinkInvariant, PTL

(* The sink implements GapCountedTable: a row and its count are one step of  *)
(* the promise, the step Count; every other step of the task leaves it.     *)
THEOREM SinkKeepsPromise == SinkSpec => KeepsPromise
<1>1. SinkInit => Promise!Init
  BY DEF SinkInit, Promise!Init, CountedRows
<1>2. SinkInv /\ SinkInv' /\ [SinkNext]_sinkVars => [Promise!Next]_Promise!vars
  <2>. SUFFICES ASSUME SinkInv, SinkInv', [SinkNext]_sinkVars
                PROVE  [Promise!Next]_Promise!vars
    OBVIOUS
  <2>1. CASE Publish
    <3>1. Promise!Publish
      BY <2>1 DEF Publish, Promise!Publish, CountedRows, counters
    <3>. QED  BY <3>1 DEF Promise!Next
  <2>2. CASE Ring \/ AskStop \/ Wake \/ Stop \/ Fail \/ Read \/ UNCHANGED sinkVars
    BY <2>2 DEF Ring, AskStop, Wake, Stop, Fail, Read, sinkVars, counters, CountedRows, Promise!vars
  <2>3. CASE Commit
    <3>1. held \notin rows
      BY <2>3 DEF Commit, SinkInv, SinkTypeOK, HeldIsNewer, LastIsLargest, CountedRows
    <3>2. CountedRows' = CountedRows
      BY <2>3, <3>1 DEF Commit, CountedRows
    <3>. QED  BY <2>3, <3>2 DEF Commit, counters, Promise!vars
  <2>4. CASE Count
    <3>1. /\ held \in 1..slot.gen
          /\ \A r \in CountedRows : r < held
      BY <2>4 DEF Count, CountedRows, SinkInv, SinkTypeOK, HeldIsNewer, LastIsLargest
    <3>2. CountedRows' = CountedRows \cup {held}
      BY <2>4 DEF Count, CountedRows, SinkInv, HeldIsNewer
    <3>3. /\ stored' = Cardinality(CountedRows')
          /\ skipped' = Cardinality(Promise!Holes(CountedRows'))
      BY DEF SinkInv, AccountingExact
    <3>4. UNCHANGED slot.gen
      BY <2>4 DEF Count
    <3>5. Promise!Append(held)
      BY <3>1, <3>2, <3>3, <3>4 DEF Promise!Append, Promise!Cardinality, Cardinality
    <3>. QED  BY <3>1, <3>5 DEF Promise!Next
  <2>. QED  BY <2>1, <2>2, <2>3, <2>4 DEF SinkNext, Task
<1>. QED  BY <1>1, <1>2, SinkInvariant, PTL DEF SinkSpec, KeepsPromise, Promise!Spec

-----------------------------------------------------------------------------
(* The collector is such a surrounding                                      *)


\* Before its store a pass is newer than the slot.
SlotIsBehind ==
    /\ slot.gen <= gen
    /\ pc \in {"acquire", "collect", "store"} => slot.gen < gen

\* The process table in the cache is at least as new as the published one, and older
\* than the pass that may replace it.
CacheIsBetween ==
    /\ slot.tables["process"] <= cache["process"]
    /\ cache["process"] <= gen
    /\ pc \in {"acquire", "collect"} => cache["process"] < gen

\* A snapshot not yet stored is of this generation and carries the cache.
DraftIsCurrent ==
    pc = "store" =>
        /\ draft.gen = gen
        /\ draft.tables["process"] = cache["process"]
        /\ "process" \in draft.sampled <=> draft.tables["process"] = draft.gen

CollectorInv ==
    /\ C!TypeOK
    /\ SlotIsBehind
    /\ CacheIsBetween
    /\ DraftIsCurrent
    /\ SampledProcessesAreCurrent

-----------------------------------------------------------------------------

(* The process stage never hands back a blank table (collect_processes).    *)
LEMMA ProcessIsReadOrKept ==
    ASSUME NEW r \in C!Results
    PROVE  /\ r \in [C!Stages -> {"read", "blank", "none"}]
           /\ r["process"] \in {"read", "none"}
<1>1. r \in [C!Stages -> {"read", "blank", "none"}] /\ r["process"] \in C!StageResults("process")
  BY DEF C!Results, C!Stages
<1>2. C!StageResults("process") \subseteq {"read", "none"}
  BY DEF C!StageResults
<1>. QED  BY <1>1, <1>2

(* A pass leaves the cache well typed, its process table as it was or of    *)
(* this generation, and the sampled flag tells which.                       *)
LEMMA CacheOfAPass ==
    ASSUME CollectorInv, pc = "collect", NEW r \in C!Results
    PROVE  /\ C!CacheAfter(r) \in C!Tables
           /\ C!SampledBy(r) \subseteq C!Stages
           /\ IF "process" \in C!SampledBy(r)
              THEN C!CacheAfter(r)["process"] = gen
              ELSE C!CacheAfter(r)["process"] = cache["process"]
<1>. /\ r \in [C!Stages -> {"read", "blank", "none"}]
     /\ r["process"] \in {"read", "none"}
  BY ProcessIsReadOrKept
<1>. gen \in 1..MaxGen /\ cache \in [C!Stages -> 0..MaxGen] /\ MaxGen \in Nat
  BY FleetAssumption DEF C!CollectorAssumption, CollectorInv, C!TypeOK, C!Tables
<1>1. C!CacheAfter(r) \in C!Tables
  BY DEF C!CacheAfter, C!Tables, C!Stages
<1>2. C!SampledBy(r) \subseteq C!Stages /\ ("process" \in C!SampledBy(r) <=> r["process"] = "read")
  BY DEF C!SampledBy, C!Stages
<1>3. /\ r["process"] = "read" => C!CacheAfter(r)["process"] = gen
      /\ r["process"] = "none" => C!CacheAfter(r)["process"] = cache["process"]
  BY DEF C!CacheAfter, C!Stages
<1>. QED  BY <1>1, <1>2, <1>3

(* The collector's invariant holds of the composition: the sink changes     *)
(* nothing the collector reads.                                             *)
LEMMA CollectorInvariant == Spec => []CollectorInv
<1>1. Init => CollectorInv
  <2>. SUFFICES ASSUME Init PROVE CollectorInv  OBVIOUS
  <2>1. C!Init  BY DEF Init
  <2>. MaxGen \in Nat \ {0}  BY FleetAssumption DEF C!CollectorAssumption
  <2>2. C!NoSnapshot \in C!Snapshots
    BY DEF C!NoSnapshot, C!Snapshots, C!Tables
  <2>3. C!NoSnapshot.gen = 0 /\ C!NoSnapshot.tables = [s \in C!Stages |-> 0]
    BY DEF C!NoSnapshot
  <2>4. C!TypeOK
    <3>1. /\ pc \in {"acquire", "exited"} /\ gen = 1 /\ monitors = {} /\ stop = FALSE
          /\ cache = C!NoSnapshot.tables /\ draft = C!NoSnapshot /\ slot = C!NoSnapshot
          /\ readerPass = "free"
      BY <2>1 DEF C!Init
    <3>2. cache \in C!Tables
      BY <2>3, <3>1 DEF C!Tables
    <3>3. draft \in C!Snapshots /\ slot \in C!Snapshots
      BY <2>2, <3>1, Zenon
    <3>4. stop \in BOOLEAN
      BY <3>1
    <3>5. gen \in 1..MaxGen
      BY <3>1
    <3>. QED  BY <3>1, <3>2, <3>3, <3>4, <3>5 DEF C!TypeOK
  <2>5. SlotIsBehind /\ CacheIsBetween /\ DraftIsCurrent /\ SampledProcessesAreCurrent
    BY <2>1, <2>3 DEF C!Init, SlotIsBehind, CacheIsBetween, DraftIsCurrent,
                      SampledProcessesAreCurrent, C!SampledProcessesAreCurrent, C!Stages
  <2>. QED  BY <2>4, <2>5 DEF CollectorInv
<1>2. CollectorInv /\ [Next]_vars => CollectorInv'
  <2>. SUFFICES ASSUME CollectorInv, [Next]_vars PROVE CollectorInv'  OBVIOUS
  <2>. /\ C!TypeOK /\ SlotIsBehind /\ CacheIsBetween /\ DraftIsCurrent
       /\ SampledProcessesAreCurrent
    BY DEF CollectorInv
  <2>. MaxGen \in Nat \ {0}  BY FleetAssumption DEF C!CollectorAssumption
  <2>. /\ gen \in Nat /\ slot.gen \in Nat
       /\ cache["process"] \in Nat /\ slot.tables["process"] \in Nat
    BY DEF C!TypeOK, C!Snapshots, C!Tables, C!Stages
  <2>1. CASE C!Acquire
    BY <2>1 DEF C!Acquire, CollectorInv, C!TypeOK, SlotIsBehind, CacheIsBetween, DraftIsCurrent,
                SampledProcessesAreCurrent, C!SampledProcessesAreCurrent
  <2>2. CASE C!Collect
    <3>1. PICK r \in C!Results, dated \in BOOLEAN :
             /\ cache' = C!CacheAfter(r)
             /\ draft' = [gen |-> gen, warmup |-> gen = 1, dated |-> dated,
                          sampled |-> C!SampledBy(r), tables |-> cache']
      BY <2>2 DEF C!Collect
    <3>2. /\ pc = "collect" /\ pc' = "store" /\ readerPass' = "free"
          /\ UNCHANGED <<gen, monitors, slot, stop>>
      BY <2>2 DEF C!Collect
    <3>3. /\ C!CacheAfter(r) \in C!Tables
          /\ C!SampledBy(r) \subseteq C!Stages
          /\ IF "process" \in C!SampledBy(r)
             THEN C!CacheAfter(r)["process"] = gen
             ELSE C!CacheAfter(r)["process"] = cache["process"]
      BY <3>2, CacheOfAPass
    <3>4. (gen = 1) \in BOOLEAN /\ gen \in 0..MaxGen
      BY DEF C!TypeOK
    <3>5. draft' \in C!Snapshots
      BY <3>1, <3>3, <3>4, Zenon DEF C!Snapshots
    <3>6. C!TypeOK'
      BY <3>1, <3>2, <3>3, <3>5 DEF C!TypeOK
    <3>7. /\ draft'.gen = gen /\ draft'.tables = cache'
          /\ draft'.sampled = C!SampledBy(r)
      BY <3>1, Zenon
    <3>8. SlotIsBehind' /\ CacheIsBetween' /\ DraftIsCurrent'
      BY <3>1, <3>2, <3>3, <3>7 DEF SlotIsBehind, CacheIsBetween, DraftIsCurrent
    <3>9. SampledProcessesAreCurrent'
      BY <3>2 DEF SampledProcessesAreCurrent, C!SampledProcessesAreCurrent
    <3>. QED  BY <3>6, <3>8, <3>9 DEF CollectorInv
  <2>3. CASE C!Store
    <3>1. /\ pc = "store" /\ slot' = draft /\ draft' = C!NoSnapshot /\ pc' = "hook"
          /\ UNCHANGED <<gen, monitors, cache, stop, readerPass>>
      BY <2>3 DEF C!Store
    <3>2. draft'.gen = 0 /\ draft' \in C!Snapshots
      BY <3>1 DEF C!NoSnapshot, C!Snapshots, C!Tables
    <3>3. C!TypeOK'
      BY <3>1, <3>2 DEF C!TypeOK
    <3>. QED
      BY <3>1, <3>3 DEF CollectorInv, SlotIsBehind, CacheIsBetween, DraftIsCurrent,
                        SampledProcessesAreCurrent, C!SampledProcessesAreCurrent
  <2>4. CASE C!Hook
    BY <2>4 DEF C!Hook, CollectorInv, C!TypeOK, SlotIsBehind, CacheIsBetween, DraftIsCurrent,
                SampledProcessesAreCurrent, C!SampledProcessesAreCurrent
  <2>5. CASE C!Build
    BY <2>5 DEF C!Build, CollectorInv, C!TypeOK, SlotIsBehind, CacheIsBetween, DraftIsCurrent,
                SampledProcessesAreCurrent, C!SampledProcessesAreCurrent
  <2>6. CASE C!Loop
    BY <2>6 DEF C!Loop, CollectorInv, C!TypeOK, SlotIsBehind, CacheIsBetween, DraftIsCurrent,
                SampledProcessesAreCurrent, C!SampledProcessesAreCurrent
  <2>7. CASE C!Sleep
    BY <2>7 DEF C!Sleep, CollectorInv, C!TypeOK, SlotIsBehind, CacheIsBetween, DraftIsCurrent,
                SampledProcessesAreCurrent, C!SampledProcessesAreCurrent
  <2>8. CASE C!RequestStop
    BY <2>8 DEF C!RequestStop, CollectorInv, C!TypeOK, SlotIsBehind, CacheIsBetween,
                DraftIsCurrent, SampledProcessesAreCurrent, C!SampledProcessesAreCurrent
  <2>9. CASE UNCHANGED <<slot, collectorOwn>>
    BY <2>9 DEF collectorOwn, CollectorInv, C!TypeOK, SlotIsBehind, CacheIsBetween,
                DraftIsCurrent, SampledProcessesAreCurrent, C!SampledProcessesAreCurrent
  <2>10. SinkSteps \/ UNCHANGED vars => UNCHANGED <<slot, collectorOwn>>
    BY DEF SinkSteps, AskStop, Task, Wake, Stop, Read, Commit, Fail, Count, vars
  <2>. QED
    BY <2>1, <2>2, <2>3, <2>4, <2>5, <2>6, <2>7, <2>8, <2>9, <2>10
    DEF Next, CollectorAlone, CollectorPublishes, CollectorRings
<1>. QED  BY <1>1, <1>2, PTL DEF Spec

(* The composition runs the sink in surroundings it is proved for: every    *)
(* step is the sink's, a publish of a newer snapshot, a ring, or none of    *)
(* its concern.                                                             *)
THEOREM FleetRunsTheOpenSink == Spec => RunsTheOpenSink
<1>1. Init => SinkInit
  BY DEF Init
<1>2. CollectorInv /\ [Next]_vars => [SinkNext]_sinkVars
  <2>. SUFFICES ASSUME CollectorInv, [Next]_vars PROVE [SinkNext]_sinkVars  OBVIOUS
  <2>1. CASE CollectorAlone
    BY <2>1 DEF CollectorAlone, sinkOwn, sinkVars, C!Acquire, C!Collect, C!Build, C!Loop,
                C!Sleep, C!RequestStop
  <2>2. CASE CollectorPublishes
    <3>1. slot' = draft /\ pc = "store" /\ UNCHANGED sinkOwn
      BY <2>2 DEF CollectorPublishes, C!Store
    <3>2. draft.gen \in Nat /\ draft.warmup \in BOOLEAN /\ draft.dated \in BOOLEAN
      BY FleetAssumption DEF C!CollectorAssumption, CollectorInv, C!TypeOK, C!Snapshots
    <3>3. draft.gen > slot.gen
      BY <3>1, <3>2 DEF CollectorInv, C!TypeOK, C!Snapshots, SlotIsBehind, DraftIsCurrent
    <3>4. Publish
      BY <3>1, <3>2, <3>3, Zenon DEF Publish, sinkOwn
    <3>. QED  BY <3>4 DEF SinkNext
  <2>3. CASE CollectorRings
    BY <2>3 DEF CollectorRings, SinkNext
  <2>4. CASE SinkSteps
    BY <2>4 DEF SinkSteps, SinkNext
  <2>5. CASE UNCHANGED vars
    BY <2>5 DEF vars, sinkOwn, sinkVars
  <2>. QED  BY <2>1, <2>2, <2>3, <2>4, <2>5 DEF Next
<1>. QED  BY <1>1, <1>2, CollectorInvariant, PTL DEF Spec, SinkSpec, RunsTheOpenSink

(* So the sink's counters account for its table beside the real collector.  *)
THEOREM FleetAccounting == Spec => []AccountingExact
  BY FleetRunsTheOpenSink, AccountingIsExact DEF RunsTheOpenSink

(* So does the abstract promise hold of the sink beside the collector.      *)
THEOREM FleetKeepsPromise == Spec => KeepsPromise
  BY FleetRunsTheOpenSink, SinkKeepsPromise DEF RunsTheOpenSink

(* The types of collector and sink together.                                *)
THEOREM FleetTypes == Spec => []TypeOK
  BY CollectorInvariant, FleetRunsTheOpenSink, SinkInvariant, PTL
  DEF RunsTheOpenSink, TypeOK, CollectorInv, SinkInv

(* The sampled flag and the age of the published process table agree.       *)
THEOREM FleetSampledProcesses == Spec => []SampledProcessesAreCurrent
  BY CollectorInvariant, PTL DEF CollectorInv

(* The published process table never goes back.                             *)
THEOREM FleetProcessTable == Spec => ProcessTableNeverRegresses
<1>1. CollectorInv /\ [Next]_vars => [slot'.tables["process"] >= slot.tables["process"]]_(C!vars)
  <2>. SUFFICES ASSUME CollectorInv, [Next]_vars
       PROVE  slot'.tables["process"] >= slot.tables["process"]
    OBVIOUS
  <2>. /\ slot.tables["process"] \in Nat /\ draft.tables["process"] \in Nat
       /\ cache["process"] \in Nat
    BY FleetAssumption DEF C!CollectorAssumption, CollectorInv, C!TypeOK, C!Snapshots, C!Tables, C!Stages
  <2>1. CASE C!Store
    BY <2>1 DEF C!Store, CollectorInv, CacheIsBetween, DraftIsCurrent
  <2>2. C!Store \/ slot' = slot
    BY DEF Next, CollectorAlone, CollectorPublishes, CollectorRings, SinkSteps, vars, collectorOwn,
           C!Acquire, C!Collect, C!Build, C!Loop, C!Sleep, C!RequestStop, C!Hook,
           AskStop, Task, Wake, Stop, Read, Commit, Fail, Count
  <2>. QED  BY <2>1, <2>2
<1>. QED
  BY <1>1, CollectorInvariant, PTL
  DEF Spec, ProcessTableNeverRegresses, C!ProcessTableNeverRegresses

-----------------------------------------------------------------------------

\* A published generation of a pass that is not the warm-up, with a time.
Published(g) == \E s \in published : s.gen = g /\ ~s.warmup /\ s.dated

\* What is on its way to the table has been published: the snapshot in the slot, unless
\* it is the default one, and the one being appended.
RowsInv ==
    /\ slot.dated /\ ~slot.warmup => Published(slot.gen)
    /\ kpc \in {"append", "count"} => Published(held)
    /\ RowsWerePublished

(* Only published, dated readings of full passes reach the table.           *)
THEOREM FleetRowsWerePublished == Spec => []RowsWerePublished
<1>1. Init => RowsInv
  <2>. SUFFICES ASSUME Init PROVE RowsInv  OBVIOUS
  <2>1. slot.dated = FALSE /\ kpc = "select" /\ rows = {}
    BY DEF Init, SinkInit
  <2>. QED  BY <2>1 DEF RowsInv, RowsWerePublished
<1>2. RowsInv /\ [Next]_vars => RowsInv'
  <2>. SUFFICES ASSUME RowsInv, [Next]_vars PROVE RowsInv'  OBVIOUS
  <2>1. CASE CollectorPublishes
    <3>1. /\ slot' = draft
          /\ published' = published \cup
                 {[gen |-> draft.gen, warmup |-> draft.warmup, dated |-> draft.dated]}
          /\ UNCHANGED <<kpc, held, rows>>
      BY <2>1 DEF CollectorPublishes, C!Store, sinkOwn
    <3>2. ASSUME slot'.dated, ~slot'.warmup PROVE Published(slot.gen)'
      <4>. DEFINE s == [gen |-> draft.gen, warmup |-> draft.warmup, dated |-> draft.dated]
      <4>1. s \in published'  BY <3>1
      <4>2. s.gen = slot'.gen /\ s.warmup = slot'.warmup /\ s.dated = slot'.dated  BY <3>1, Zenon
      <4>3. ~s.warmup /\ s.dated  BY <3>2, <4>2, Zenon
      <4>. HIDE DEF s
      <4>. QED  BY <4>1, <4>2, <4>3, Zenon DEF Published
    <3>3. ASSUME NEW g, Published(g) PROVE Published(g)'
      BY <3>1, <3>3, Zenon DEF Published
    <3>. QED  BY <3>1, <3>2, <3>3, Zenon DEF RowsInv, RowsWerePublished, Published
  <2>2. CASE Read /\ UNCHANGED published
    <3>1. /\ UNCHANGED <<slot, rows, published>>
          /\ kpc' = "append" => held' = slot.gen /\ Storable(slot)
          /\ kpc' \in {"append", "select"}
      BY <2>2 DEF Read, counters
    <3>. QED  BY <3>1 DEF RowsInv, RowsWerePublished, Published, Storable
  <2>3. CASE Commit /\ UNCHANGED published
    BY <2>3 DEF Commit, RowsInv, RowsWerePublished, Published
  <2>4. CASE Count /\ UNCHANGED published
    BY <2>4 DEF Count, RowsInv, RowsWerePublished, Published
  <2>5. CASE UNCHANGED <<slot, rows, held, published>> /\ (kpc' = kpc \/ kpc' \notin {"append", "count"})
    BY <2>5 DEF RowsInv, RowsWerePublished, Published
  <2>6. \/ CollectorPublishes
        \/ (Read \/ Commit \/ Count) /\ UNCHANGED published
        \/ UNCHANGED <<slot, rows, held, published>> /\ (kpc' = kpc \/ kpc' \notin {"append", "count"})
    BY DEF Next, CollectorAlone, CollectorRings, SinkSteps, vars, sinkOwn, collectorOwn,
           C!Acquire, C!Collect, C!Build, C!Loop, C!Sleep, C!RequestStop, C!Hook,
           Ring, AskStop, Task, Wake, Stop, Fail
  <2>. QED  BY <2>1, <2>2, <2>3, <2>4, <2>5, <2>6
<1>3. RowsInv => RowsWerePublished
  BY DEF RowsInv
<1>. QED  BY <1>1, <1>2, <1>3, PTL DEF Spec

=============================================================================
