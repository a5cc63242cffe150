--------------------------- MODULE Readers_proofs ---------------------------
(***************************************************************************)
(* Proofs about the sampler and the collector in one process (Readers.tla), *)
(* for every number of requests, segments and generations.                  *)
(*                                                                          *)
(* Each is inside the readers exactly when it holds READER_PASS, and the    *)
(* lock has one holder to name.  A step of the collector changes no other   *)
(* part of the sampler's state, so the sampler's invariant, which names the *)
(* lock too, survives it.                                                   *)
(***************************************************************************)
EXTENDS Readers, Sampler_proofs

CollectorIsInside == pc = "collect" <=> readerPass = "collector"

ReadersInv == SamplerInv /\ CollectorIsInside

(* The sampler takes the lock from nobody, and gives back its own.          *)
LEMMA SamplerLeavesTheCollector ==
    ASSUME ReadersInv, Next, pc' = pc PROVE CollectorIsInside'
<1>1. readerPass' = readerPass \/ (readerPass = "free" /\ readerPass' = "sampler")
      \/ (readerPass = "sampler" /\ readerPass' = "free")
  BY DEF Next, Thread, Client, Tick, Begin, TakeReaders, EndRead, Panic, Publish, ThreadWaitEnds,
         Resume, Call, Mark, Recheck, ClientWaitEnds, ReadersInv, SamplerInv, TypeOK
<1>. QED  BY <1>1 DEF ReadersInv, CollectorIsInside

(* The collector takes the lock when it is free, and gives back its own.    *)
LEMMA CollectorLeavesTheSampler ==
    ASSUME ReadersInv, C!Next, UNCHANGED samplerOwn PROVE ReadersInv'
<1>1. \/ readerPass' = readerPass /\ (pc' = pc \/ {pc, pc'} \cap {"collect"} = {})
      \/ readerPass = "free" /\ readerPass' = "collector" /\ pc' = "collect"
      \/ pc = "collect" /\ readerPass' = "free" /\ pc' = "store"
  BY DEF C!Next, C!Run, C!Acquire, C!Collect, C!Store, C!Hook, C!Build, C!Loop, C!Sleep,
         C!RequestStop
<1>2. CollectorIsInside'
  BY <1>1 DEF ReadersInv, CollectorIsInside
<1>3. UNCHANGED <<now, wanted, taken, started, tpc, seg, stamp, wakeAt, cpc, need, deadline, calls,
                  readFrom, readAt>>
  BY DEF samplerOwn, state, thread, clients, history
<1>4. tpc' = "reading" <=> readerPass' = "sampler"
  BY <1>1, <1>3 DEF ReadersInv, SamplerInv, TypeOK, CollectorIsInside
<1>5. TypeOK'
  BY <1>3, <1>4 DEF ReadersInv, SamplerInv, TypeOK
<1>6. SamplerInv'
  BY <1>3, <1>5 DEF ReadersInv, SamplerInv, StartedOnce, StampIsBeforeReading,
                    ParkedThreadMissesNothing, WaitingClientLacksASample, NeverFresherThanRead,
                    Missing, Live
<1>. QED  BY <1>2, <1>6 DEF ReadersInv

LEMMA ReadersStep == ReadersInv /\ [ReadersNext]_allVars => ReadersInv'
<1>. SUFFICES ASSUME ReadersInv, [ReadersNext]_allVars PROVE ReadersInv'  OBVIOUS
<1>1. CASE SamplerSteps
  <2>1. Next /\ pc' = pc
    BY <1>1 DEF SamplerSteps, collectorOwn
  <2>. QED  BY <2>1, SamplerStep, SamplerLeavesTheCollector DEF ReadersInv
<1>2. CASE CollectorSteps
  BY <1>2, CollectorLeavesTheSampler DEF CollectorSteps
<1>3. CASE UNCHANGED allVars
  <2>1. UNCHANGED vars /\ pc' = pc
    BY <1>3 DEF allVars, samplerOwn, collectorOwn, vars
  <2>2. SamplerInv'
    BY <2>1, SamplerStep DEF ReadersInv
  <2>3. readerPass' = readerPass
    BY <2>1 DEF vars
  <2>. QED  BY <2>1, <2>2, <2>3 DEF ReadersInv, CollectorIsInside
<1>4. \/ SamplerSteps \/ CollectorSteps
      \/ UNCHANGED allVars
  BY DEF ReadersNext, allVars
<1>. QED  BY <1>1, <1>2, <1>3, <1>4

LEMMA ReadersInvariant == ReadersSpec => []ReadersInv
<1>1. ReadersInit => ReadersInv
  <2>. SUFFICES ASSUME ReadersInit PROVE ReadersInv  OBVIOUS
  <2>1. SamplerInv
    BY SamplerInit DEF ReadersInit
  <2>2. CollectorIsInside
    BY DEF ReadersInit, C!Init, CollectorIsInside
  <2>. QED  BY <2>1, <2>2 DEF ReadersInv
<1>. QED  BY <1>1, ReadersStep, PTL DEF ReadersSpec

(* No sampler pass and collector pass are inside the readers together.      *)
THEOREM ReaderPassExcludes == ReadersSpec => []PassesNeverOverlap
<1>1. ReadersInv => PassesNeverOverlap
  BY DEF ReadersInv, SamplerInv, TypeOK, CollectorIsInside, PassesNeverOverlap
<1>. QED  BY <1>1, ReadersInvariant, PTL

(* The sampler loses no wake-up beside the collector either.                *)
THEOREM ThreadMissesNothingBeside == ReadersSpec => []ParkedThreadMissesNothing
  BY ReadersInvariant, PTL DEF ReadersInv, SamplerInv

-----------------------------------------------------------------------------
(* The collector's types                                                    *)

LEMMA CollectorTypesAtFirst == C!Init => C!TypeOK
<1>. SUFFICES ASSUME C!Init PROVE C!TypeOK  OBVIOUS
<1>. MaxGen \in Nat \ {0}  BY ReadersAssumption DEF C!CollectorAssumption
<1>1. /\ pc \in {"acquire", "exited"} /\ gen = 1 /\ monitors = {} /\ stop = FALSE
      /\ cache = C!NoSnapshot.tables /\ draft = C!NoSnapshot /\ slot = C!NoSnapshot
      /\ readerPass = "free"
  BY DEF C!Init
<1>2. C!NoSnapshot \in C!Snapshots /\ C!NoSnapshot.tables \in C!Tables
  BY DEF C!NoSnapshot, C!Snapshots, C!Tables
<1>3. draft \in C!Snapshots /\ slot \in C!Snapshots /\ cache \in C!Tables
  BY <1>1, <1>2, Zenon
<1>4. stop \in BOOLEAN
  BY <1>1
<1>5. gen \in 1..MaxGen
  BY <1>1
<1>. QED  BY <1>1, <1>3, <1>4, <1>5 DEF C!TypeOK

LEMMA CollectorTypesKept ==
    ASSUME C!TypeOK, C!Next PROVE C!TypeOK'
<1>. MaxGen \in Nat \ {0}  BY ReadersAssumption DEF C!CollectorAssumption
<1>1. CASE C!Collect
  <2>1. PICK r \in C!Results, dated \in BOOLEAN :
           /\ cache' = C!CacheAfter(r)
           /\ draft' = [gen |-> gen, warmup |-> gen = 1, dated |-> dated,
                        sampled |-> C!SampledBy(r), tables |-> cache']
    BY <1>1 DEF C!Collect
  <2>2. /\ pc = "collect" /\ pc' = "store" /\ readerPass' = "free"
        /\ UNCHANGED <<gen, monitors, slot, stop>>
    BY <1>1 DEF C!Collect
  <2>3. C!CacheAfter(r) \in C!Tables
    BY DEF C!TypeOK, C!Tables, C!CacheAfter
  <2>4. C!SampledBy(r) \subseteq C!Stages
    BY DEF C!SampledBy, C!Stages
  <2>5. (gen = 1) \in BOOLEAN /\ gen \in 0..MaxGen
    BY DEF C!TypeOK
  <2>6. draft' \in C!Snapshots
    BY <2>1, <2>3, <2>4, <2>5, Zenon DEF C!Snapshots
  <2>. QED  BY <2>1, <2>2, <2>3, <2>6 DEF C!TypeOK
<1>2. CASE C!Store
  <2>1. C!NoSnapshot \in C!Snapshots
    BY DEF C!NoSnapshot, C!Snapshots, C!Tables
  <2>. QED  BY <1>2, <2>1 DEF C!Store, C!TypeOK
<1>3. CASE C!Acquire \/ C!Hook \/ C!Build \/ C!Sleep
  BY <1>3 DEF C!Acquire, C!Hook, C!Build, C!Sleep, C!TypeOK
<1>4. CASE C!Loop
  BY <1>4 DEF C!Loop, C!TypeOK
<1>5. CASE C!RequestStop
  BY <1>5 DEF C!RequestStop, C!TypeOK
<1>. QED  BY <1>1, <1>2, <1>3, <1>4, <1>5 DEF C!Next, C!Run

\* What the sampler's types leave to say.
RestTyped ==
    /\ C!TypeOK
    /\ readerPass \in {"free", "sampler", "collector"}

(* The sampler's state and the collector's are of their types in one        *)
(* process, and the lock names the side that is inside.              *)
THEOREM ReadersTypes == ReadersSpec => []ReadersTypeOK
<1>1. ReadersInit => RestTyped
  BY CollectorTypesAtFirst DEF ReadersInit, C!Init, RestTyped
<1>2. ReadersInv /\ RestTyped /\ [ReadersNext]_allVars => RestTyped'
  <2>. SUFFICES ASSUME ReadersInv, RestTyped, [ReadersNext]_allVars, ReadersInv'
                PROVE  RestTyped'
    BY ReadersStep
  <2>1. CASE CollectorSteps
    <3>1. C!TypeOK' 
      BY <2>1, CollectorTypesKept DEF CollectorSteps, RestTyped
    <3>2. readerPass' \in {"free", "collector", readerPass}
      BY <2>1 DEF CollectorSteps, C!Next, C!Run, C!Acquire, C!Collect, C!Store, C!Hook, C!Build, C!Loop,
                  C!Sleep, C!RequestStop
    <3>. QED  BY <3>1, <3>2 DEF RestTyped
  <2>2. CASE UNCHANGED collectorOwn /\ ~CollectorSteps
    <3>1. C!TypeOK'
      BY <2>2 DEF collectorOwn, C!TypeOK, ReadersInv, CollectorIsInside, RestTyped
    <3>3. readerPass' \in {"free", "sampler", readerPass}
      BY <2>2 DEF ReadersNext, SamplerSteps, allVars,
                  Next, Thread, Client, Tick, Begin, TakeReaders, EndRead, Panic, Publish, ThreadWaitEnds,
                  Resume, Call, Mark, Recheck, ClientWaitEnds
    <3>. QED  BY <3>1, <3>3 DEF RestTyped
  <2>3. CollectorSteps \/ UNCHANGED collectorOwn
    BY DEF ReadersNext, SamplerSteps, allVars
  <2>. QED  BY <2>1, <2>2, <2>3
<1>3. ReadersInv /\ RestTyped => ReadersTypeOK
  BY DEF ReadersInv, SamplerInv, RestTyped, ReadersTypeOK
<1>. QED  BY <1>1, <1>2, <1>3, ReadersInvariant, PTL DEF ReadersSpec

=============================================================================
