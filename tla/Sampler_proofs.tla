--------------------------- MODULE Sampler_proofs ---------------------------
(***************************************************************************)
(* Proofs about the HTTP sampler (Sampler.tla), for every number of         *)
(* requests and segments and every timing.                                  *)
(*                                                                          *)
(* The two wake-up invariants hold because a thread decides whether to wait *)
(* under the lock, on all that is known (WhatDecideLeaves), and because     *)
(* whatever could change that decision wakes it in the same critical        *)
(* section.  They need that only a started thread parks, since a request    *)
(* that starts the thread does not look whether one is parked.              *)
(***************************************************************************)
EXTENDS SamplerOrder, TLAPS

\* The thread exists once it was started, and not before.
StartedOnce == started <=> tpc # "none"

\* The stamp of a running pass is no later than its reading.
StampIsBeforeReading ==
    /\ tpc = "pass" => stamp <= now
    /\ tpc \in {"reading", "publish"} => stamp <= readFrom

SamplerInv ==
    /\ TypeOK
    /\ StartedOnce
    /\ StampIsBeforeReading
    /\ ParkedThreadMissesNothing
    /\ WaitingClientLacksASample
    /\ NeverFresherThanRead

-----------------------------------------------------------------------------

(* What one turn of the loop leaves, whatever samples it saw: a pass over a *)
(* segment, stamped now, or a wait with nothing due before its timer.       *)
LEMMA WhatDecideLeaves ==
    ASSUME now \in Nat, wanted \in [Segments -> Instants],
           NEW tk \in [Segments -> Instants], Decide(tk)
    PROVE  /\ \/ tpc' = "pass" /\ seg' \in Segments /\ stamp' = now
              \/ tpc' = "parked" /\ seg' = None /\ stamp' = None
           /\ wakeAt' \in Instants
           /\ tpc' = "parked" =>
                \A s \in Segments : Live(s) =>
                    /\ tk[s] # None
                    /\ wakeAt' # None /\ wakeAt' <= tk[s] + ResampleEvery
<1>. None \notin Nat /\ ResampleEvery \in Nat /\ IdleAfter \in Nat
  BY SamplerAssumption
<1>1. CASE StartPass(tk)
  BY <1>1 DEF StartPass, MostOverdue, Due, Instants
<1>2. CASE Park(tk)
  <2>1. /\ tpc' = "parked" /\ seg' = None /\ stamp' = None
        /\ Due(tk) = {} /\ wakeAt' \in EarliestWake(tk)
    BY <1>2 DEF Park
  <2>2. \A s \in Segments : DueAt(tk, s) \in Nat
    BY DEF DueAt, Instants
  <2>3. wakeAt' \in Instants
    BY <2>1, <2>2 DEF EarliestWake, DueLater, Instants
  <2>4. ASSUME NEW s \in Segments, Live(s)
        PROVE  /\ tk[s] # None
               /\ wakeAt' # None /\ wakeAt' <= tk[s] + ResampleEvery
    <3>1. s \in DueLater(tk)
      BY <2>1, <2>2, <2>4 DEF Due, DueLater
    <3>2. tk[s] # None /\ DueAt(tk, s) = tk[s] + ResampleEvery
      BY <3>1 DEF DueLater, DueAt
    <3>. DEFINE times == {DueAt(tk, t) : t \in DueLater(tk)}
    <3>3. DueAt(tk, s) \in times
      BY <3>1
    <3>4. wakeAt' \in times /\ wakeAt' <= DueAt(tk, s)
      BY <2>1, <3>3 DEF EarliestWake
    <3>5. wakeAt' \in Nat
      BY <2>2, <3>4 DEF DueLater
    <3>. QED  BY <3>2, <3>4, <3>5
  <2>. QED  BY <2>1, <2>3, <2>4
<1>. QED  BY <1>1, <1>2 DEF Decide

(* What one turn of a client's wait loop leaves: its answer, or a wait for  *)
(* a sample that is missing.                                                *)
LEMMA WhatAnswerLeaves ==
    ASSUME NEW c \in Clients, need \in [Clients -> SUBSET Segments],
           deadline \in [Clients -> Instants],
           NEW others \in [Clients -> {"idle", "called", "waiting", "woken"}],
           Answer(c, others)
    PROVE  /\ cpc' \in [Clients -> {"idle", "called", "waiting", "woken"}]
           /\ need' \in [Clients -> SUBSET Segments]
           /\ deadline' \in [Clients -> Instants]
           /\ \A d \in Clients \ {c} : cpc'[d] = others[d] /\ need'[d] = need[d]
           /\ cpc'[c] = "waiting" => Missing(taken, need[c]) # {} /\ need' = need
<1>1. CASE Answered(c)
  BY <1>1 DEF Answer, Instants
<1>2. CASE ~Answered(c)
  <2>1. Missing(taken, need[c]) # {}
    BY <1>2 DEF Answered
  <2>. QED  BY <1>2, <2>1 DEF Answer
<1>. QED  BY <1>1, <1>2

-----------------------------------------------------------------------------

LEMMA SamplerInit == Init => SamplerInv
<1>. SUFFICES ASSUME Init PROVE SamplerInv  OBVIOUS
<1>. None \notin Nat  BY SamplerAssumption
<1>1. TypeOK
  BY DEF Init, TypeOK, Instants
<1>2. StartedOnce
  BY Zenon DEF Init, StartedOnce
<1>3. /\ StampIsBeforeReading /\ ParkedThreadMissesNothing
      /\ WaitingClientLacksASample /\ NeverFresherThanRead
  BY DEF Init, StampIsBeforeReading, ParkedThreadMissesNothing, WaitingClientLacksASample,
         NeverFresherThanRead
<1>. QED  BY <1>1, <1>2, <1>3 DEF SamplerInv

(* A request that gets the lock wakes the thread and its fellow clients.    *)
LEMMA MarkKeeps == ASSUME SamplerInv, NEW c \in Clients, Mark(c) PROVE SamplerInv'
<1>. None \notin Nat  BY SamplerAssumption
<1>. /\ TypeOK /\ StartedOnce /\ StampIsBeforeReading /\ ParkedThreadMissesNothing
     /\ WaitingClientLacksASample /\ NeverFresherThanRead
  BY DEF SamplerInv
<1>1. /\ wanted' = [s \in Segments |-> IF s \in need[c] THEN now ELSE wanted[s]]
      /\ EnsureThread /\ Answer(c, WakeClients)
      /\ UNCHANGED <<now, taken, seg, stamp, wakeAt, calls, readerPass, readFrom, readAt>>
  BY DEF Mark, history
<1>2. WakeClients \in [Clients -> {"idle", "called", "woken"}]
  BY DEF WakeClients, TypeOK
<1>3. /\ cpc' \in [Clients -> {"idle", "called", "waiting", "woken"}]
      /\ need' \in [Clients -> SUBSET Segments]
      /\ deadline' \in [Clients -> Instants]
      /\ \A d \in Clients \ {c} : cpc'[d] = WakeClients[d]
      /\ cpc'[c] = "waiting" => Missing(taken, need[c]) # {} /\ need' = need
  <2>. HIDE DEF SamplerInv
  <2>1. WakeClients \in [Clients -> {"idle", "called", "waiting", "woken"}]
    BY <1>2
  <2>. QED  BY <1>1, <2>1, WhatAnswerLeaves DEF TypeOK
<1>4. /\ started' \in BOOLEAN
      /\ tpc' = tpc \/ tpc' \in {"new", "woken"}
      /\ tpc' # "parked"
      /\ started' <=> tpc' # "none"
  <2>1. CASE started
    <3>1. tpc' = WakeThread /\ started' = TRUE /\ tpc # "none"
      BY <1>1, <2>1, Zenon DEF EnsureThread, StartedOnce, TypeOK
    <3>. QED  BY <3>1 DEF WakeThread
  <2>2. CASE ~started
    <3>1. tpc = "none"
      BY <2>2, Zenon DEF StartedOnce
    <3>2. \/ started' = TRUE /\ tpc' = "new"
          \/ started' = FALSE /\ tpc' = "none"
      BY <1>1, <2>2, <3>1, Zenon DEF EnsureThread, TypeOK
    <3>. QED  BY <3>1, <3>2
  <2>. QED  BY <2>1, <2>2
<1>5. wanted' \in [Segments -> Instants]
  BY <1>1 DEF TypeOK, Instants
<1>6. tpc' = "reading" <=> tpc = "reading"
  BY <1>1, <1>4 DEF EnsureThread, WakeThread, StartedOnce
<1>7. /\ tpc' = "pass" => tpc = "pass"
      /\ tpc' \in {"pass", "reading", "publish"} => tpc' = tpc
  BY <1>4
<1>8. TypeOK'
  BY <1>1, <1>3, <1>4, <1>5, <1>6, <1>7 DEF TypeOK
<1>9. StartedOnce' /\ StampIsBeforeReading' /\ ParkedThreadMissesNothing' /\ NeverFresherThanRead'
  BY <1>1, <1>4, <1>7
  DEF StartedOnce, StampIsBeforeReading, ParkedThreadMissesNothing, NeverFresherThanRead
<1>10. WaitingClientLacksASample'
  <2>. SUFFICES ASSUME NEW d \in Clients, cpc'[d] = "waiting"
       PROVE  Missing(taken', need'[d]) # {}
    BY DEF WaitingClientLacksASample
  <2>1. d = c
    BY <1>2, <1>3
  <2>. QED  BY <1>1, <1>3, <2>1 DEF Missing
<1>. QED  BY <1>8, <1>9, <1>10 DEF SamplerInv

(* A client that looks again waits on for a missing sample only.            *)
LEMMA RecheckKeeps == ASSUME SamplerInv, NEW c \in Clients, Recheck(c) PROVE SamplerInv'
<1>1. /\ Answer(c, cpc)
      /\ UNCHANGED <<now, wanted, taken, started, tpc, seg, stamp, wakeAt, calls, readerPass,
                     readFrom, readAt>>
  BY DEF Recheck, state, thread, history
<1>2. /\ cpc' \in [Clients -> {"idle", "called", "waiting", "woken"}]
      /\ need' \in [Clients -> SUBSET Segments]
      /\ deadline' \in [Clients -> Instants]
      /\ \A d \in Clients \ {c} : cpc'[d] = cpc[d] /\ need'[d] = need[d]
      /\ cpc'[c] = "waiting" => Missing(taken, need[c]) # {} /\ need' = need
  BY <1>1, WhatAnswerLeaves DEF SamplerInv, TypeOK
<1>3. TypeOK'
  BY <1>1, <1>2 DEF SamplerInv, TypeOK
<1>4. WaitingClientLacksASample'
  BY <1>1, <1>2 DEF SamplerInv, WaitingClientLacksASample, Missing
<1>. QED
  BY <1>1, <1>3, <1>4 DEF SamplerInv, StartedOnce, StampIsBeforeReading,
                          ParkedThreadMissesNothing, NeverFresherThanRead, Live

(* The thread begins, or has woken, and looks at all that is known.         *)
LEMMA DecideKeeps ==
    ASSUME SamplerInv, tpc \in {"new", "woken"}, Decide(taken),
           UNCHANGED <<now, state, clients, readerPass, history>>
    PROVE  SamplerInv'
<1>1. /\ \/ tpc' = "pass" /\ seg' \in Segments /\ stamp' = now
         \/ tpc' = "parked" /\ seg' = None /\ stamp' = None
      /\ wakeAt' \in Instants
      /\ tpc' = "parked" =>
           \A s \in Segments : Live(s) =>
               /\ taken[s] # None
               /\ wakeAt' # None /\ wakeAt' <= taken[s] + ResampleEvery
  BY WhatDecideLeaves DEF SamplerInv, TypeOK
<1>2. UNCHANGED <<now, wanted, taken, started, cpc, need, deadline, calls, readerPass,
                  readFrom, readAt>>
  BY DEF state, clients, history
<1>3. TypeOK'
  BY <1>1, <1>2 DEF SamplerInv, TypeOK, Instants
<1>4. ParkedThreadMissesNothing'
  BY <1>1, <1>2 DEF ParkedThreadMissesNothing, Live
<1>. QED
  BY <1>1, <1>2, <1>3, <1>4 DEF SamplerInv, StartedOnce, StampIsBeforeReading, TypeOK,
                                WaitingClientLacksASample, NeverFresherThanRead, Missing

(* A sample is stored and everyone is told, before the thread looks again.  *)
LEMMA PublishKeeps == ASSUME SamplerInv, Publish PROVE SamplerInv'
<1>. None \notin Nat  BY SamplerAssumption
<1>1. /\ tpc = "publish"
      /\ taken' = [taken EXCEPT ![seg] = stamp]
      /\ readAt' = [readAt EXCEPT ![seg] = readFrom]
      /\ readFrom' = None /\ cpc' = WakeClients /\ Decide(taken')
      /\ UNCHANGED <<now, wanted, started, need, deadline, calls, readerPass>>
  BY DEF Publish
<1>2. seg \in Segments /\ stamp \in Nat /\ readFrom \in Nat /\ stamp <= readFrom
  BY <1>1 DEF SamplerInv, TypeOK, StampIsBeforeReading
<1>3. taken' \in [Segments -> Instants] /\ readAt' \in [Segments -> Instants]
  BY <1>1, <1>2 DEF SamplerInv, TypeOK, Instants
<1>4. /\ \/ tpc' = "pass" /\ seg' \in Segments /\ stamp' = now
         \/ tpc' = "parked" /\ seg' = None /\ stamp' = None
      /\ wakeAt' \in Instants
      /\ tpc' = "parked" =>
           \A s \in Segments : Live(s) =>
               /\ taken'[s] # None
               /\ wakeAt' # None /\ wakeAt' <= taken'[s] + ResampleEvery
  BY <1>1, <1>3, WhatDecideLeaves DEF SamplerInv, TypeOK
<1>5. cpc' \in [Clients -> {"idle", "called", "woken"}]
  BY <1>1 DEF WakeClients, SamplerInv, TypeOK
<1>6. TypeOK'
  BY <1>1, <1>3, <1>4, <1>5 DEF SamplerInv, TypeOK, Instants
<1>7. ParkedThreadMissesNothing'
  BY <1>1, <1>4 DEF ParkedThreadMissesNothing, Live
<1>8. NeverFresherThanRead'
  BY <1>1, <1>2, <1>3 DEF SamplerInv, NeverFresherThanRead, TypeOK
<1>9. WaitingClientLacksASample'
  BY <1>5 DEF WaitingClientLacksASample
<1>10. StartedOnce' /\ StampIsBeforeReading'
  BY <1>1, <1>4 DEF SamplerInv, StartedOnce, StampIsBeforeReading, TypeOK
<1>. QED  BY <1>6, <1>7, <1>8, <1>9, <1>10 DEF SamplerInv

(* The other steps of the thread, and what its parts of the state become.   *)
LEMMA PassKeeps ==
    ASSUME SamplerInv, TakeReaders \/ EndRead \/ Panic \/ ThreadWaitEnds
    PROVE  SamplerInv'
<1>. None \notin Nat  BY SamplerAssumption
<1>1. CASE TakeReaders
  BY <1>1 DEF TakeReaders, SamplerInv, TypeOK, StartedOnce, StampIsBeforeReading, Instants,
              ParkedThreadMissesNothing, WaitingClientLacksASample, NeverFresherThanRead,
              Missing, state, clients
<1>2. CASE EndRead
  BY <1>2 DEF EndRead, SamplerInv, TypeOK, StartedOnce, StampIsBeforeReading, Instants,
              ParkedThreadMissesNothing, WaitingClientLacksASample, NeverFresherThanRead,
              Missing, state, clients, history
<1>3. CASE Panic
  BY <1>3 DEF Panic, SamplerInv, TypeOK, StartedOnce, StampIsBeforeReading, Instants,
              ParkedThreadMissesNothing, WaitingClientLacksASample, NeverFresherThanRead,
              Missing, state, clients
<1>4. CASE ThreadWaitEnds
  BY <1>4 DEF ThreadWaitEnds, SamplerInv, TypeOK, StartedOnce, StampIsBeforeReading, Instants,
              ParkedThreadMissesNothing, WaitingClientLacksASample, NeverFresherThanRead,
              Missing, state, clients, history
<1>. QED  BY <1>1, <1>2, <1>3, <1>4

(* The clock: what is wanted can only stop being wanted.                    *)
LEMMA TickKeeps == ASSUME SamplerInv, Tick PROVE SamplerInv'
<1>. None \notin Nat /\ IdleAfter \in Nat  BY SamplerAssumption
<1>1. /\ now' = now + 1
      /\ UNCHANGED <<wanted, taken, started, tpc, seg, stamp, wakeAt, cpc, need, deadline, calls,
                     readerPass, readFrom, readAt>>
  BY DEF Tick, state, thread, clients, history
<1>2. \A s \in Segments : Live(s)' => Live(s)
  BY <1>1 DEF Live, SamplerInv, TypeOK, Instants
<1>3. ParkedThreadMissesNothing'
  BY <1>1, <1>2 DEF SamplerInv, ParkedThreadMissesNothing
<1>. QED
  BY <1>1, <1>3 DEF SamplerInv, TypeOK, StartedOnce, StampIsBeforeReading, Instants,
                    WaitingClientLacksASample, NeverFresherThanRead, Missing

(* The other steps of a client.                                             *)
LEMMA ClientKeeps ==
    ASSUME SamplerInv, NEW c \in Clients, Call(c) \/ ClientWaitEnds(c)
    PROVE  SamplerInv'
<1>. None \notin Nat /\ Bound \in Nat  BY SamplerAssumption
<1>1. CASE Call(c)
  <2>1. /\ UNCHANGED <<now, wanted, taken, started, tpc, seg, stamp, wakeAt, readerPass,
                       readFrom, readAt>>
        /\ cpc' = [cpc EXCEPT ![c] = "called"]
        /\ calls' = calls + 1
        /\ deadline' = [deadline EXCEPT ![c] = now + Bound]
    BY <1>1 DEF Call, state, thread, history
  <2>2. PICK S \in Requests : need' = [need EXCEPT ![c] = S]
    BY <1>1 DEF Call
  <2>3. S \subseteq Segments
    BY <2>2 DEF Requests
  <2>4. TypeOK'
    BY <2>1, <2>2, <2>3 DEF SamplerInv, TypeOK, Instants
  <2>5. WaitingClientLacksASample'
    BY <2>1, <2>2 DEF SamplerInv, TypeOK, WaitingClientLacksASample, Missing
  <2>. QED
    BY <2>1, <2>4, <2>5 DEF SamplerInv, StartedOnce, StampIsBeforeReading,
                            ParkedThreadMissesNothing, NeverFresherThanRead, Live
<1>2. CASE ClientWaitEnds(c)
  BY <1>2 DEF ClientWaitEnds, SamplerInv, TypeOK, StartedOnce, StampIsBeforeReading, Instants,
              ParkedThreadMissesNothing, WaitingClientLacksASample, NeverFresherThanRead,
              Missing, Live, state, thread, history
<1>. QED  BY <1>1, <1>2

(* A step of the sampler keeps its invariant.                               *)
LEMMA SamplerStep == SamplerInv /\ [Next]_vars => SamplerInv'
<1>. SUFFICES ASSUME SamplerInv, [Next]_vars PROVE SamplerInv'  OBVIOUS
<1>1. CASE Next
  BY <1>1, MarkKeeps, RecheckKeeps, DecideKeeps, PublishKeeps, PassKeeps, TickKeeps, ClientKeeps
  DEF Next, Thread, Client, Begin, Resume
<1>2. CASE UNCHANGED vars
  BY <1>2 DEF vars, SamplerInv, TypeOK, StartedOnce, StampIsBeforeReading,
              ParkedThreadMissesNothing, WaitingClientLacksASample, NeverFresherThanRead,
              Missing, Live, state, thread, clients, history
<1>. QED  BY <1>1, <1>2

(* The invariant of the sampler.                                            *)
THEOREM SamplerInvariant == Spec => []SamplerInv
  BY SamplerInit, SamplerStep, PTL DEF Spec

(* The sampler's state keeps its types.                                     *)
THEOREM SamplerTypes == Spec => []TypeOK
  BY SamplerInvariant, PTL DEF SamplerInv

(* No wake-up is lost to the thread.                                        *)
THEOREM ThreadMissesNothing == Spec => []ParkedThreadMissesNothing
  BY SamplerInvariant, PTL DEF SamplerInv

(* No wake-up is lost to a client.                                          *)
THEOREM ClientsLackASample == Spec => []WaitingClientLacksASample
  BY SamplerInvariant, PTL DEF SamplerInv

(* No sample appears fresher than it is.                                    *)
THEOREM SamplesAreNotFresher == Spec => []NeverFresherThanRead
  BY SamplerInvariant, PTL DEF SamplerInv

-----------------------------------------------------------------------------

\* The running pass was due when it began, and no sample of its segment has come since.
PassIsDue ==
    tpc \in {"pass", "reading", "publish"} /\ taken[seg] # None =>
        stamp >= taken[seg] + ResampleEvery

\* A step that neither begins a pass nor ends one with a sample.
PassKept ==
    /\ UNCHANGED <<taken, seg, stamp>>
    /\ \/ tpc' = tpc
       \/ tpc' \in {"new", "woken", "none"}
       \/ tpc \in {"pass", "reading"}

(* A pass that begins is one that is due.                                   *)
LEMMA DecideTakesWhatIsDue ==
    ASSUME NEW tk, Decide(tk), tpc' \in {"pass", "reading", "publish"}, tk[seg'] # None
    PROVE  stamp' >= tk[seg'] + ResampleEvery
<1>1. seg' \in MostOverdue(tk) /\ stamp' = now
  BY DEF Decide, StartPass, Park
<1>2. DueAt(tk, seg') <= now
  BY <1>1 DEF MostOverdue, Due
<1>3. DueAt(tk, seg') = tk[seg'] + ResampleEvery
  BY DEF DueAt
<1>. QED  BY <1>1, <1>2, <1>3

(* Every step leaves the running pass due: only its own publication stores  *)
(* a sample of its segment.                                                 *)
LEMMA PassStaysDue == SamplerInv /\ PassIsDue /\ [Next]_vars => PassIsDue'
<1>. SUFFICES ASSUME SamplerInv, PassIsDue, [Next]_vars PROVE PassIsDue'  OBVIOUS
<1>1. CASE Begin \/ Resume
  <2>1. Decide(taken) /\ taken' = taken
    BY <1>1 DEF Begin, Resume, state
  <2>. QED  BY <2>1, DecideTakesWhatIsDue DEF PassIsDue
<1>2. CASE Publish
  <2>1. Decide(taken')
    BY <1>2 DEF Publish
  <2>. QED  BY <2>1, DecideTakesWhatIsDue DEF PassIsDue
<1>3. CASE PassKept
  BY <1>3 DEF PassIsDue, PassKept
<1>4. CASE Panic
  BY <1>4 DEF Panic, PassIsDue
<1>5. Begin \/ Resume \/ Publish \/ Panic \/ PassKept
  BY DEF PassKept, Next, Thread, Client, Tick, TakeReaders, EndRead, ThreadWaitEnds, Call, Mark, Recheck,
         ClientWaitEnds, EnsureThread, WakeThread, vars, state, thread
<1>. QED  BY <1>1, <1>2, <1>3, <1>4, <1>5

(* Two successive samples of a segment are a resample interval apart.       *)
THEOREM SamplesAreSpaced == Spec => ResampleSpacing
<1>1. Init => PassIsDue
  BY DEF Init, PassIsDue
<1>2. SamplerInv /\ PassIsDue /\ [Next]_vars =>
        [\A s \in Segments : taken'[s] # taken[s] /\ taken[s] # None
            => taken'[s] >= taken[s] + ResampleEvery]_vars
  <2>. SUFFICES ASSUME SamplerInv, PassIsDue, Next, NEW s \in Segments,
                       taken'[s] # taken[s], taken[s] # None
       PROVE  taken'[s] >= taken[s] + ResampleEvery
    OBVIOUS
  <2>1. Publish
    BY DEF Next, Thread, Client, Tick, Begin, TakeReaders, EndRead, Panic, ThreadWaitEnds,
           Resume, Call, Mark, Recheck, ClientWaitEnds, state
  <2>2. s = seg /\ taken'[s] = stamp
    BY <2>1 DEF Publish, SamplerInv, TypeOK
  <2>. QED  BY <2>1, <2>2 DEF Publish, PassIsDue
<1>. QED  BY <1>1, <1>2, PassStaysDue, SamplerInvariant, PTL DEF Spec, ResampleSpacing

-----------------------------------------------------------------------------
(* The order of the passes (SamplerOrder.tla).                              *)

Passing == tpc \in {"pass", "reading", "publish"}

\* A pass of the other segment, begun while this one waited, leaves it with a sample
\* newer than this one's, or will.
LaterThan(x, s) == taken[s] = None \/ x > taken[s]
Passed(s, t) ==
    \/ Passing /\ seg = t /\ LaterThan(stamp, s)
    \/ taken[t] # None /\ LaterThan(taken[t], s)

Counted ==
    /\ overtaken \in [Segments -> [Segments -> Nat]]
    /\ \A s \in Segments : \A t \in Segments : overtaken[s][t] # 0 =>
          /\ overtaken[s][t] = 1
          /\ tpc = "dead" \/ Passed(s, t)
          /\ ~(Passing /\ seg = s)

OrderInv == SamplerInv /\ PassIsDue /\ Counted

(* A pass begins where the loop chose it, on the samples it then has.       *)
LEMMA BeginsWhereChosen ==
    ASSUME SamplerInv, Next, NEW t, Begins(t)
    PROVE  /\ tpc \in {"new", "woken", "publish"}
           /\ t \in MostOverdue(taken') /\ stamp' = now
           /\ UNCHANGED <<now, wanted>>
           /\ tpc # "publish" => taken' = taken
           /\ tpc = "publish" => taken' = [taken EXCEPT ![seg] = stamp]
<1>1. CASE Begin \/ Resume
  <2>1. StartPass(taken)
    BY <1>1 DEF Begin, Resume, Decide, Park, Begins
  <2>. QED  BY <1>1, <2>1 DEF Begin, Resume, StartPass, Begins, state
<1>2. CASE Publish
  <2>1. StartPass(taken')
    BY <1>2 DEF Publish, Decide, Park, Begins
  <2>. QED  BY <1>2, <2>1 DEF Publish, StartPass, Begins
<1>3. Begin \/ Resume \/ Publish
  <2>1. ~(Tick \/ TakeReaders \/ EndRead \/ Panic \/ ThreadWaitEnds)
    BY DEF Begins, Tick, TakeReaders, EndRead, Panic, ThreadWaitEnds, thread
  <2>2. ASSUME NEW c \in Clients PROVE ~(Call(c) \/ Mark(c) \/ Recheck(c) \/ ClientWaitEnds(c))
    BY DEF Begins, Call, Mark, Recheck, ClientWaitEnds, EnsureThread, WakeThread, thread
  <2>. QED  BY <2>1, <2>2 DEF Next, Thread, Client
<1>. QED  BY <1>1, <1>2, <1>3

(* What a step that begins no pass does to the running one and the samples. *)
LEMMA NothingBegins ==
    ASSUME SamplerInv, Next, \A t \in Segments : ~Begins(t)
    PROVE  \/ /\ tpc = "publish"
              /\ ~Passing'
              /\ taken' = [taken EXCEPT ![seg] = stamp]
           \/ tpc \in {"pass", "reading"} /\ tpc' = "dead" /\ taken' = taken
           \/ taken' = taken /\ UNCHANGED <<seg, stamp>> /\ (Passing' <=> Passing)
              /\ (tpc = "dead" => tpc' = "dead")
           \/ ~Passing /\ ~Passing' /\ taken' = taken /\ tpc # "dead"
<1>. TypeOK /\ StartedOnce  BY DEF SamplerInv
<1>1. CASE Begin \/ Resume
  <2>1. tpc' = "pass" => seg' \in Segments
    BY <1>1 DEF Begin, Resume, Decide, StartPass, Park, MostOverdue, Due
  <2>2. tpc' = "parked" /\ taken' = taken /\ tpc \in {"new", "woken"}
    BY <1>1, <2>1 DEF Begin, Resume, Decide, StartPass, Park, Begins, state
  <2>. QED  BY <2>2 DEF Passing
<1>2. CASE Publish
  <2>1. tpc' = "pass" => seg' \in Segments
    BY <1>2 DEF Publish, Decide, StartPass, Park, MostOverdue, Due
  <2>2. tpc' = "parked"
    BY <1>2, <2>1 DEF Publish, Decide, StartPass, Park, Begins
  <2>. QED  BY <1>2, <2>2 DEF Publish, Passing
<1>3. CASE Tick \/ TakeReaders \/ EndRead \/ ThreadWaitEnds
  BY <1>3 DEF Tick, TakeReaders, EndRead, ThreadWaitEnds, Passing, state, thread
<1>4. CASE Panic
  BY <1>4 DEF Panic, state
<1>5. ASSUME NEW c \in Clients, Call(c) \/ Recheck(c) \/ ClientWaitEnds(c)
      PROVE  taken' = taken /\ UNCHANGED <<tpc, seg, stamp>>
  BY <1>5 DEF Call, Recheck, ClientWaitEnds, state, thread
<1>6. ASSUME NEW c \in Clients, Mark(c)
      PROVE  /\ taken' = taken /\ UNCHANGED <<seg, stamp>>
             /\ tpc' = tpc \/ (tpc \in {"none", "parked"} /\ tpc' \in {"new", "woken"})
  <2>1. taken' = taken /\ UNCHANGED <<seg, stamp>> /\ EnsureThread
    BY <1>6 DEF Mark
  <2>2. CASE started
    BY <2>1, <2>2 DEF EnsureThread, WakeThread
  <2>3. CASE ~started
    <3>1. tpc = "none"
      BY <2>3, Zenon DEF StartedOnce
    <3>. QED  BY <2>1, <2>3, <3>1 DEF EnsureThread
  <2>. QED  BY <2>1, <2>2, <2>3
<1>. QED
  BY <1>1, <1>2, <1>3, <1>4, <1>5, <1>6 DEF Next, Thread, Client, Passing

(* A step that begins no pass raises no count, and leaves what was passed.  *)
LEMMA CountedWithoutAPass ==
    ASSUME OrderInv, OrderNext, \A t \in Segments : ~Begins(t) PROVE Counted'
<1>. /\ SamplerInv /\ TypeOK /\ PassIsDue /\ Counted /\ Next /\ NoteOvertaken
     /\ None \notin Nat /\ ResampleEvery \in Nat
  BY SamplerAssumption DEF OrderInv, SamplerInv, OrderNext
<1>1. ASSUME NEW s \in Segments, NEW t \in Segments
      PROVE  overtaken'[s][t] \in {0, overtaken[s][t]}
  BY DEF NoteOvertaken
<1>2. overtaken' \in [Segments -> [Segments -> Nat]]
  BY DEF NoteOvertaken, Counted
<1>3. ASSUME NEW s \in Segments, NEW t \in Segments, overtaken'[s][t] # 0
      PROVE  /\ overtaken'[s][t] = 1
             /\ (tpc = "dead" \/ Passed(s, t))'
             /\ ~(Passing /\ seg = s)'
  <2>1. /\ overtaken[s][t] = 1 /\ overtaken'[s][t] = 1
        /\ tpc = "dead" \/ Passed(s, t)
        /\ ~(Passing /\ seg = s)
    BY <1>1, <1>3 DEF Counted
  <2>2. CASE tpc = "publish" /\ ~Passing' /\ taken' = [taken EXCEPT ![seg] = stamp]
    <3>1. seg \in Segments /\ stamp \in Nat /\ seg # s
      BY <2>1, <2>2 DEF TypeOK, Passing
    <3>2. taken'[s] = taken[s] /\ Passed(s, t)
      BY <2>1, <2>2, <3>1 DEF TypeOK
    <3>3. CASE seg = t
      <4>1. taken'[t] = stamp /\ stamp # None
        BY <2>2, <3>1, <3>3 DEF TypeOK
      <4>2. taken[t] # None => stamp >= taken[t]
        BY <2>2, <3>1, <3>3 DEF PassIsDue, TypeOK, Instants
      <4>3. taken[s] = None \/ stamp > taken[s]
        BY <3>1, <3>2, <4>2 DEF Passed, LaterThan, TypeOK, Instants
      <4>. QED  BY <2>1, <2>2, <3>2, <4>1, <4>3 DEF Passed, LaterThan
    <3>4. CASE seg # t
      <4>1. taken'[t] = taken[t]
        BY <2>2, <3>1, <3>4 DEF TypeOK
      <4>. QED  BY <2>1, <2>2, <3>2, <3>4, <4>1 DEF Passed, LaterThan
    <3>. QED  BY <3>3, <3>4
  <2>3. CASE tpc' = "dead"
    BY <2>1, <2>3 DEF Passing
  <2>4. CASE /\ taken' = taken /\ UNCHANGED <<seg, stamp>> /\ (Passing' <=> Passing)
             /\ (tpc = "dead" => tpc' = "dead")
    <3>1. Passed(s, t)' <=> Passed(s, t)
      BY <2>4, Zenon DEF Passed, LaterThan
    <3>2. ~(Passing /\ seg = s)'
      BY <2>1, <2>4, Zenon
    <3>. QED  BY <2>1, <2>4, <3>1, <3>2, Zenon
  <2>5. CASE ~Passing /\ ~Passing' /\ taken' = taken /\ tpc # "dead"
    BY <2>1, <2>5 DEF Passed, LaterThan
  <2>. QED  BY <2>2, <2>3, <2>4, <2>5, NothingBegins
<1>. QED  BY <1>2, <1>3 DEF Counted

(* A pass that begins is of the most overdue segment, which has not passed  *)
(* a waiting one before: it would have the newer sample.                    *)
LEMMA CountedWithAPass ==
    ASSUME ResampleEvery > 0, OrderInv, OrderNext, NEW t \in Segments, Begins(t)
    PROVE  Counted'
<1>. /\ SamplerInv /\ TypeOK /\ PassIsDue /\ Counted /\ Next /\ NoteOvertaken
     /\ None \notin Nat /\ ResampleEvery \in Nat
  BY SamplerAssumption DEF OrderInv, SamplerInv, OrderNext
<1>1. /\ tpc \in {"new", "woken", "publish"}
      /\ t \in MostOverdue(taken') /\ stamp' = now /\ UNCHANGED <<now, wanted>>
      /\ tpc # "publish" => taken' = taken
      /\ tpc = "publish" => taken' = [taken EXCEPT ![seg] = stamp]
  BY BeginsWhereChosen
<1>2. tpc' = "pass" /\ seg' = t
  BY DEF Begins
<1>3. tpc = "publish" => seg \in Segments /\ stamp \in Nat
  BY DEF TypeOK
<1>4. taken' \in [Segments -> Instants] /\ now \in Nat
  BY <1>1, <1>3 DEF TypeOK, Instants
<1>5. overtaken' \in [Segments -> [Segments -> Nat]]
  BY DEF NoteOvertaken, Counted
<1>6. ASSUME NEW s \in Segments, NEW u \in Segments, overtaken'[s][u] # 0
      PROVE  /\ overtaken'[s][u] = 1
             /\ (tpc = "dead" \/ Passed(s, u))'
             /\ ~(Passing /\ seg = s)'
  <2>1. /\ Waits(s)' /\ s # t
        /\ overtaken'[s][u] = IF u = t THEN overtaken[s][u] + 1 ELSE overtaken[s][u]
    BY <1>6 DEF NoteOvertaken, Begins
  <2>2. s \in Due(taken')
    BY <1>1, <2>1 DEF Waits, Due, Live, DueAt
  <2>3. taken'[s] = None \/ now > taken'[s]
    BY <1>4, <2>2 DEF Due, DueAt, Instants
  <2>4. Precedes(taken', t, s)
    BY <1>1, <2>1, <2>2 DEF MostOverdue
  <2>5. ASSUME overtaken[s][u] # 0
        PROVE  overtaken[s][u] = 1 /\ taken'[u] # None /\ (taken'[s] = None \/ taken'[u] > taken'[s])
    <3>1. overtaken[s][u] = 1 /\ Passed(s, u) /\ ~(Passing /\ seg = s)
      BY <1>1, <2>5 DEF Counted
    <3>2. CASE tpc # "publish"
      BY <1>1, <3>1, <3>2 DEF Passed, LaterThan, Passing
    <3>3. CASE tpc = "publish" /\ seg = u
      <4>1. taken'[s] = taken[s] /\ taken'[u] = stamp
        BY <1>1, <1>3, <3>1, <3>3 DEF Passing, TypeOK
      <4>2. taken[u] # None => stamp >= taken[u]
        BY <1>3, <3>3 DEF PassIsDue, TypeOK, Instants
      <4>. QED  BY <1>3, <3>1, <3>3, <4>1, <4>2 DEF Passed, LaterThan, TypeOK, Instants
    <3>4. CASE tpc = "publish" /\ seg # u
      <4>1. taken'[s] = taken[s] /\ taken'[u] = taken[u]
        BY <1>1, <1>3, <3>1, <3>4 DEF Passing, TypeOK
      <4>. QED  BY <3>1, <3>4, <4>1 DEF Passed, LaterThan
    <3>. QED  BY <3>2, <3>3, <3>4
  <2>6. u = t => overtaken[s][u] = 0
    <3>. SUFFICES ASSUME u = t, overtaken[s][u] # 0 PROVE FALSE  OBVIOUS
    <3>1. taken'[t] # None /\ (taken'[s] = None \/ taken'[t] > taken'[s])
      BY <2>5
    <3>2. taken'[s] \in Instants /\ taken'[t] \in Nat
      BY <1>4, <3>1 DEF Instants
    <3>3. taken'[s] # None => taken'[s] \in Nat
      BY <3>2 DEF Instants
    <3>. QED  BY <2>4, <3>1, <3>2, <3>3 DEF Precedes
  <2>7. overtaken'[s][u] = 1
    BY <1>6, <2>1, <2>5, <2>6
  <2>8. Passed(s, u)'
    <3>1. CASE u = t
      BY <1>1, <1>2, <2>3, <3>1 DEF Passed, LaterThan, Passing
    <3>2. CASE u # t
      BY <1>6, <2>1, <2>5, <3>2 DEF Passed, LaterThan
    <3>. QED  BY <3>1, <3>2
  <2>. QED  BY <1>2, <2>1, <2>7, <2>8
<1>. QED  BY <1>5, <1>6 DEF Counted

(* A step keeps what the counts say.                                        *)
LEMMA OrderStep ==
    ASSUME ResampleEvery > 0 PROVE OrderInv /\ [OrderNext]_orderVars => OrderInv'
<1>. SUFFICES ASSUME OrderInv, [OrderNext]_orderVars PROVE OrderInv'  OBVIOUS
<1>1. SamplerInv' /\ PassIsDue'
  BY SamplerStep, PassStaysDue DEF OrderInv, OrderNext, orderVars
<1>2. CASE OrderNext
  BY <1>1, <1>2, CountedWithAPass, CountedWithoutAPass DEF OrderInv
<1>3. CASE UNCHANGED orderVars
  BY <1>1, <1>3 DEF orderVars, vars, thread, state, OrderInv, Counted, Passed, LaterThan, Passing
<1>. QED  BY <1>2, <1>3

LEMMA OrderStarts == OrderInit => OrderInv
<1>. SUFFICES ASSUME OrderInit PROVE OrderInv  OBVIOUS
<1>1. Counted /\ PassIsDue
  BY DEF OrderInit, Init, Counted, PassIsDue
<1>. QED  BY <1>1, SamplerInit DEF OrderInit, OrderInv

(* A waiting segment is overtaken at most once by each other, whatever the  *)
(* clients ask for and however long passes take, if a sample stays fresh    *)
(* for at least one tick of the clock.                                      *)
THEOREM NobodyOvertakesTwice ==
    ASSUME ResampleEvery > 0 PROVE OrderSpec => []OvertakenOnceByEach
<1>1. OrderInv => OvertakenOnceByEach
  BY DEF OrderInv, Counted, OvertakenOnceByEach
<1>. QED  BY <1>1, OrderStarts, OrderStep, PTL DEF OrderSpec
=============================================================================
