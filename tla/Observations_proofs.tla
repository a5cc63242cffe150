------------------------- MODULE Observations_proofs -------------------------
(***************************************************************************)
(* What TLAPS proves of the observation service, for every number of         *)
(* threads, size of the log and of a page, cadence and bound.                *)
(***************************************************************************)
EXTENDS Observations, FiniteSetTheorems, SequenceTheorems, TLAPS

\* Nothing a thread has is newer than what is published.
Behind == \A a \in Actors : held[a].gen <= slot.gen

TypeInv == TypeOK /\ Behind

\* Of two snapshots, or of one and the store, the newer has the newer tables; a table is
\* never of a later pass than its snapshot, and one that the pass is said to have read is
\* of that pass.
Older(x, y) == x.gen <= y.gen => \A t \in Tables : x.tables[t].gen <= y.tables[t].gen
NotLater(x) == \A t \in Tables : x.tables[t].gen <= x.gen
ReadBy(s) == \A t \in Tables : IsFresh(s, t) => s.tables[t].gen = s.gen

OfThePass ==
    \A t \in Tables : /\ slot.tables[t].gen <= cached[t].gen /\ cached[t].gen <= gen
                      /\ t \in sampled /\ gen > 1 => cached[t].gen = gen

TablesInOrder ==
    /\ Older(store, slot) /\ Older(slot, store)
    /\ NotLater(store) /\ NotLater(slot) /\ ReadBy(slot)
    /\ \A a \in Actors :
          /\ Older(held[a], slot) /\ Older(slot, held[a])
          /\ Older(held[a], store) /\ Older(store, held[a])
          /\ NotLater(held[a]) /\ ReadBy(held[a])
          /\ \A b \in Actors : Older(held[a], held[b])
    /\ OfThePass

\* A time beside a generation is the second in which its pass was over: here with the
\* seconds of the passes, and the number of births, as parameters.
TimeOf(g, n, p) == g \in 1..Len(p) /\ n = p[g]
Timed(x, p) == x.gen # 0 => TimeOf(x.gen, x.at, p)
Known(x, n) == \A t \in Tables : x[t].owner \in 0..n

\* Start times are a second early at most, and passes end in the past and in order.
ClockTrue ==
    /\ \A o \in 1..Len(births) : births[o].at <= births[o].start + 1
    /\ \A i \in 1..Len(published) : published[i] <= now
    /\ \A i, j \in 1..Len(published) : i <= j => published[i] <= published[j]

\* Tables name a process that was born, and times are those of the passes they are said
\* to be of.
TimesTrue ==
    /\ Known(cached, Len(births)) /\ Known(slot.tables, Len(births)) /\ Known(store.tables, Len(births))
    /\ \A a \in Actors : Known(held[a].tables, Len(births)) /\ Timed(held[a], published)
    /\ Timed(slot, published)
    /\ \A t \in Tables : store.stamps[t] # None =>
                         TimeOf(store.stamps[t].gen, store.stamps[t].at, published)

\* What the reader has seen it has passed; what is lost to it is no longer in the log.
ReaderInv ==
    /\ EveryEventSeenOrAnnounced
    /\ reader.seen \subseteq 1..reader.cursor
    /\ reader.lost \subseteq 1..(sequence - Len(log))

-----------------------------------------------------------------------------
(* The operators of the model                                               *)

LEMMA Numbers ==
    /\ Every \in Nat \ {0} /\ MaxEvents \in Nat \ {0} /\ Limit \in Nat \ {0}
    /\ MaxGen \in Nat \ {0} /\ MaxOwners \in Nat \ {0} /\ MaxTime \in Nat \ {0}
BY ObservationsAssumption

LEMMA EmptyTypes == NoTable \in Table /\ NoSnapshot \in Snapshot
BY Numbers, ObservationsAssumption DEF NoTable, NoSnapshot, Table, Snapshot

\* What `ingest` makes of a snapshot belongs in the store.
LEMMA StoredType ==
    ASSUME NEW s \in Snapshot, TypeOK
    PROVE  /\ Stored(s) \in Store /\ Stored(s).gen = s.gen /\ Stored(s).tables = s.tables
           /\ \A t \in Tables : Stored(s).stamps[t] =
                 IF IsFresh(s, t) THEN [at |-> s.at, gen |-> s.gen] ELSE store.stamps[t]
<1>1. store.stamps \in [Tables -> Stamp \cup {None}]
  BY DEF TypeOK, Store
<1>2. [at |-> s.at, gen |-> s.gen] \in Stamp
  BY DEF Stamp, Snapshot
<1>3. s.gen \in 0..MaxGen /\ s.reading \in [Ids -> Readings] /\ s.tables \in [Tables -> Table]
  BY DEF Snapshot
<1>4. QED
  BY <1>1, <1>2, <1>3 DEF Stored, Store

\* The log with events of a generation that is not earlier is in order.
LEMMA PushedInOrder ==
    ASSUME TypeOK, NEW g \in 0..MaxGen, NEW k \in Nat, NEW f \in 0..MaxGen,
           f >= store.gen, k > 0 => g = f
    PROVE  LET new == Pushed(g, k)
           IN  /\ new \in Seq(Event) /\ Len(new) \in 0..MaxEvents
               /\ Len(new) = 0 => sequence + k = 0
               /\ (sequence + k) - Len(new) >= sequence - Len(log)
               /\ \A i \in 1..Len(new) :
                     /\ new[i].sequence = (sequence + k) - Len(new) + i
                     /\ new[i].gen <= f
                     /\ i > 1 => new[i - 1].gen <= new[i].gen
<1> DEFINE more == [j \in 1..k |-> [sequence |-> sequence + j, gen |-> g]]
           all == log \o more
           new == Pushed(g, k)
<1>1. /\ log \in Seq(Event) /\ sequence \in Nat /\ Len(log) \in Nat /\ Len(log) <= MaxEvents
      /\ store.gen \in Nat /\ (Len(log) = 0 => sequence = 0) /\ MaxEvents \in Nat \ {0}
      /\ f \in Nat /\ g \in Nat
      /\ \A i \in 1..Len(log) :
            /\ log[i] \in Event
            /\ log[i].sequence = sequence - Len(log) + i
            /\ log[i].gen <= store.gen
            /\ i > 1 => log[i - 1].gen <= log[i].gen
  <2>1. log \in Seq(Event) /\ sequence \in Nat /\ store \in Store /\ LogIsInOrder
    BY DEF TypeOK
  <2>2. store.gen \in Nat
    BY <2>1, Numbers DEF Store
  <2>3. QED
    BY <2>1, <2>2, Numbers DEF LogIsInOrder
<1>2. /\ more \in Seq(Event) /\ Len(more) = k
      /\ \A j \in 1..k : more[j].sequence = sequence + j /\ more[j].gen = g
  <2>1. \A j \in 1..k : [sequence |-> sequence + j, gen |-> g] \in Event
    BY <1>1 DEF Event
  <2>2. QED
    BY <2>1
<1> HIDE DEF more
<1>3. /\ all \in Seq(Event) /\ Len(all) = Len(log) + k
      /\ \A i \in 1..Len(log) : all[i] = log[i]
      /\ \A j \in 1..k : all[Len(log) + j] = more[j]
  <2>1. /\ all \in Seq(Event) /\ Len(all) = Len(log) + Len(more)
        /\ \A i \in 1..Len(log) + Len(more) :
              all[i] = IF i <= Len(log) THEN log[i] ELSE more[i - Len(log)]
    BY <1>1, <1>2, ConcatProperties
  <2> HIDE DEF all
  <2>2. \A i \in 1..Len(log) : i \in 1..Len(log) + k /\ i <= Len(log)
    BY <1>1
  <2>3. \A j \in 1..k : Len(log) + j \in 1..Len(log) + k /\ ~(Len(log) + j <= Len(log)) /\ (Len(log) + j) - Len(log) = j
    BY <1>1
  <2>4. \A i \in 1..Len(log) : all[i] = log[i]
    BY <1>2, <2>1, <2>2
  <2>5. \A j \in 1..k : all[Len(log) + j] = more[j]
    BY <1>2, <2>1, <2>3, Zenon
  <2>6. QED
    BY <1>2, <2>1, <2>4, <2>5
<1> HIDE DEF all
<1>4. PICK l : l = Len(log)
  OBVIOUS
<1>5. \A i \in 1..l + k : i \in 1..l \/ (i - l \in 1..k /\ i = l + (i - l))
  BY <1>1, <1>4
\* What holds of all the events, those that are dropped included.
<1>6. \A i \in 1..l + k :
         all[i] \in Event /\ all[i].sequence = sequence - l + i /\ all[i].gen <= f /\ all[i].gen \in Nat
  <2> TAKE i \in 1..l + k
  <2>1. all[i] \in Event
    BY <1>3, <1>4
  <2>2. all[i].gen \in Nat
    BY <2>1, Numbers DEF Event
  <2>3. CASE i \in 1..l
    <3>1. all[i] = log[i] /\ log[i].sequence = sequence - l + i /\ log[i].gen <= store.gen
      BY <1>1, <1>3, <1>4, <2>3
    <3>2. PICK x : x = log[i].gen
      OBVIOUS
    <3>3. x \in Nat /\ x <= store.gen
      BY <2>2, <3>1, <3>2
    <3>4. x <= f
      BY <1>1, <3>3
    <3>5. QED
      BY <2>1, <2>2, <3>1, <3>2, <3>4
  <2>4. CASE i - l \in 1..k /\ i = l + (i - l)
    <3>1. PICK j \in 1..k : i = l + j
      BY <2>4
    <3>2. all[i].sequence = sequence + j /\ all[i].gen = g /\ g = f
      BY <1>2, <1>3, <1>4, <3>1
    <3>3. sequence + j = sequence - l + i
      BY <1>1, <1>4, <3>1
    <3>4. QED
      BY <1>1, <2>1, <2>2, <3>2, <3>3
  <2>5. QED
    BY <1>5, <2>3, <2>4
<1>7. \A i \in 1..l + k : i > 1 => all[i - 1].gen <= all[i].gen
  <2> SUFFICES ASSUME NEW i \in 1..l + k, i > 1
               PROVE  all[i - 1].gen <= all[i].gen
    OBVIOUS
  <2>1. i - 1 \in 1..l + k
    BY <1>1, <1>4
  <2>2. CASE i \in 1..l
    <3>1. i - 1 \in 1..l
      BY <1>1, <1>4, <2>2
    <3>2. QED
      BY <1>1, <1>3, <1>4, <2>2, <3>1
  <2>3. CASE i - l \in 1..k /\ i = l + (i - l)
    <3>1. PICK j \in 1..k : i = l + j
      BY <2>3
    <3>2. all[i].gen = f
      <4>1. all[i] = more[j] /\ more[j].gen = g
        BY <1>2, <1>3, <1>4, <3>1
      <4>2. k > 0
        BY <3>1
      <4>3. QED
        BY <4>1, <4>2
    <3>3. QED
      BY <1>6, <2>1, <3>2
  <2>4. QED
    BY <1>5, <2>2, <2>3
<1>8. PICK d : d = IF l + k > MaxEvents THEN (l + k) - MaxEvents ELSE 0
  OBVIOUS
<1>9. /\ d \in Nat /\ d <= l + k /\ (l + k) - d <= MaxEvents /\ (l + k = 0 \/ (l + k) - d >= 1)
      /\ d <= k /\ l \in Nat
  BY <1>1, <1>4, <1>8
<1>10. new = SubSeq(all, d + 1, l + k)
  <2>1. new = SubSeq(all, IF Len(all) > MaxEvents THEN Len(all) - MaxEvents + 1 ELSE 1, Len(all))
    BY DEF Pushed, new, all, more
  <2>2. (IF l + k > MaxEvents THEN (l + k) - MaxEvents + 1 ELSE 1) = d + 1
    BY <1>1, <1>8, <1>9
  <2>3. QED
    BY <1>3, <1>4, <2>1, <2>2
<1> HIDE DEF new
<1>11. /\ new \in Seq(Event) /\ Len(new) = (l + k) - d
       /\ \A i \in 1..(l + k) - d : new[i] = all[i + d]
  <2>1. /\ all \in Seq(Event) /\ Len(all) = l + k
    BY <1>3, <1>4
  <2>2. \A i \in d + 1..l + k : i \in 1..Len(all)
    BY <1>9, <2>1
  <2>3. new \in Seq(Event)
    BY <1>9, <1>10, <2>1, <2>2
  <2>4. Len(new) = (l + k) - d
    BY <1>9, <1>10, <2>1
  <2>5. \A i \in 1..(l + k) - d : new[i] = all[i + d]
    <3> TAKE i \in 1..(l + k) - d
    <3>1. new[i] = all[(d + 1) + i - 1]
      BY <1>9, <1>10, <2>1
    <3>2. (d + 1) + i - 1 = i + d
      BY <1>9
    <3>3. QED
      BY <3>1, <3>2
  <2>6. QED
    BY <2>3, <2>4, <2>5
<1>12. \A i \in 1..Len(new) :
          /\ new[i].sequence = (sequence + k) - Len(new) + i
          /\ new[i].gen <= f
          /\ i > 1 => new[i - 1].gen <= new[i].gen
  <2> TAKE i \in 1..Len(new)
  <2>1. i + d \in 1..l + k /\ i \in 1..(l + k) - d /\ Len(new) \in Nat
    BY <1>9, <1>11
  <2>2. new[i] = all[i + d]
    BY <1>11, <2>1
  <2>3. sequence - l + (i + d) = (sequence + k) - Len(new) + i
    BY <1>1, <1>9, <1>11
  <2>4. i > 1 => i - 1 \in 1..(l + k) - d /\ (i - 1) + d = (i + d) - 1 /\ i + d > 1
    BY <1>9, <2>1
  <2>5. i > 1 => new[i - 1] = all[(i + d) - 1]
    BY <1>11, <2>4
  <2>6. QED
    BY <1>6, <1>7, <2>1, <2>2, <2>3, <2>4, <2>5
<1>13. /\ Len(new) \in 0..MaxEvents
       /\ Len(new) = 0 => sequence + k = 0
       /\ (sequence + k) - Len(new) >= sequence - Len(log)
  BY <1>1, <1>4, <1>9, <1>11
<1>14. QED
  BY <1>11, <1>12, <1>13 DEF new

\* The log holds the last sequence numbers, all of them.
LEMMA RetainedIsTheEnd ==
    ASSUME TypeOK
    PROVE  /\ Retained = (sequence - Len(log) + 1)..sequence
           /\ sequence \in Nat /\ Len(log) \in Nat /\ Retained \subseteq 1..sequence
           /\ Retained = {} => sequence = 0
<1>1. /\ log \in Seq(Event) /\ sequence \in Nat /\ Len(log) \in Nat
      /\ Len(log) = 0 => sequence = 0
      /\ \A i \in 1..Len(log) : log[i].sequence = sequence - Len(log) + i /\ log[i] \in Event
  BY DEF TypeOK, LogIsInOrder
<1>2. Retained = (sequence - Len(log) + 1)..sequence
  <2>1. ASSUME NEW n \in (sequence - Len(log) + 1)..sequence
        PROVE  n \in Retained
    <3> DEFINE i == n - (sequence - Len(log))
    <3>1. i \in 1..Len(log) /\ log[i].sequence = n
      BY <1>1
    <3>2. QED
      BY <3>1 DEF Retained
  <2>2. ASSUME NEW n \in Retained
        PROVE  n \in (sequence - Len(log) + 1)..sequence
    <3>1. PICK i \in 1..Len(log) : n = log[i].sequence
      BY DEF Retained
    <3>2. n = sequence - Len(log) + i
      BY <1>1, <3>1
    <3>3. QED
      BY <1>1, <3>2
  <2>3. QED
    BY <2>1, <2>2
<1>3. Retained \subseteq 1..sequence
  <2>1. Len(log) > 0 => log[1].sequence \in Nat \ {0} /\ log[1].sequence = sequence - Len(log) + 1
    BY <1>1 DEF Event
  <2>2. QED
    BY <1>1, <1>2, <2>1
<1>4. ASSUME Len(log) > 0
      PROVE  sequence \in Retained
  BY <1>1, <1>2, <1>4
<1>5. QED
  BY <1>1, <1>2, <1>3, <1>4

\* The number of events that an ingest makes is a number.
LEMMA EventsAreNumbered == \A s : Cardinality(Changed(s)) \in Nat
<1>1. \A s : Changed(s) \subseteq Ids /\ IsFiniteSet(Ids)
  BY ObservationsAssumption DEF Changed
<1>2. QED
  BY <1>1, FS_Subset, FS_CardinalityType

\* The log l in order: numbered up to q, of generations up to g, and at least
\* `lost` of the q events no longer in it.
InOrder(l, q, g, lost) ==
    /\ l \in Seq(Event) /\ Len(l) \in 0..MaxEvents
    /\ Len(l) = 0 => q = 0
    /\ q - Len(l) >= lost
    /\ \A i \in 1..Len(l) :
          /\ l[i].sequence = q - Len(l) + i
          /\ l[i].gen <= g
          /\ i > 1 => l[i - 1].gen <= l[i].gen

\* What `ingest` does to the store and the log.
LEMMA IngestTypes ==
    ASSUME TypeInv, NEW a \in Actors, Ingest(a)
    PROVE  /\ store' \in Store /\ store.gen <= store'.gen /\ store'.gen <= slot.gen
           /\ sequence' \in Nat /\ sequence <= sequence'
           /\ log' \in Seq(Event) /\ LogIsInOrder'
           /\ sequence' - Len(log') >= sequence - Len(log) /\ Len(log) \in Nat /\ Len(log') \in Nat
<1> DEFINE s == held[a]
<1>1. /\ s \in Snapshot /\ s.gen \in 0..MaxGen /\ s.gen <= slot.gen /\ slot.gen \in Nat
      /\ store \in Store /\ store.gen \in 0..MaxGen /\ store.gen <= slot.gen
      /\ sequence \in Nat /\ log \in Seq(Event) /\ Len(log) \in Nat
  BY Numbers DEF TypeInv, TypeOK, Behind, Snapshot, Store
<1>2. /\ Stored(s) \in Store /\ Stored(s).gen = s.gen
  BY <1>1, StoredType DEF TypeInv
<1>3. PICK k : k = IF s.gen <= store.gen \/ s.warmup THEN 0 ELSE Cardinality(Changed(s))
  OBVIOUS
<1>4. k \in Nat /\ (k > 0 => ~(s.gen <= store.gen))
  BY <1>3, EventsAreNumbered
<1>5. /\ store' = IF s.gen <= store.gen THEN store ELSE Stored(s)
      /\ sequence' = sequence + k /\ log' = Pushed(s.gen, k)
  BY <1>3 DEF Ingest, Emit
<1> HIDE DEF s
<1>6. PICK f : f = store'.gen
  OBVIOUS
<1>7. /\ store' \in Store /\ f \in 0..MaxGen /\ f >= store.gen /\ f <= slot.gen /\ (k > 0 => s.gen = f)
  BY <1>1, <1>2, <1>4, <1>5, <1>6, Numbers
<1>8. InOrder(Pushed(s.gen, k), sequence + k, f, sequence - Len(log))
  <2>1. LET new == Pushed(s.gen, k)
        IN  /\ new \in Seq(Event) /\ Len(new) \in 0..MaxEvents
            /\ Len(new) = 0 => sequence + k = 0
            /\ (sequence + k) - Len(new) >= sequence - Len(log)
            /\ \A i \in 1..Len(new) :
                  /\ new[i].sequence = (sequence + k) - Len(new) + i
                  /\ new[i].gen <= f
                  /\ i > 1 => new[i - 1].gen <= new[i].gen
    BY <1>1, <1>4, <1>7, PushedInOrder DEF TypeInv
  <2>2. QED
    BY <2>1, Zenon DEF InOrder
<1>8a. InOrder(log', sequence', store'.gen, sequence - Len(log))
  BY <1>5, <1>6, <1>8, Zenon
<1>9. /\ log' \in Seq(Event) /\ Len(log') \in 0..MaxEvents
      /\ Len(log') = 0 => sequence' = 0
      /\ sequence' - Len(log') >= sequence - Len(log)
      /\ \A i \in 1..Len(log') :
            /\ log'[i].sequence = sequence' - Len(log') + i
            /\ log'[i].gen <= store'.gen
            /\ i > 1 => log'[i - 1].gen <= log'[i].gen
  BY <1>8a, Zenon DEF InOrder
<1>10. Len(log') \in Nat /\ Len(log') <= MaxEvents
  BY <1>9, Numbers
<1>11. LogIsInOrder'
  BY <1>9, <1>10 DEF LogIsInOrder
<1>12. QED
  BY <1>1, <1>4, <1>5, <1>6, <1>7, <1>9, <1>10, <1>11

\* A page ends within the log, and shows nothing that is not in it.
LEMMA PageTypes ==
    ASSUME TypeInv
    PROVE  /\ Page \subseteq Matching /\ Matching \subseteq Retained
           /\ \A n \in Matching : n > reader.cursor /\ n \in 1..sequence
           /\ LostBefore(reader.cursor) \subseteq 1..sequence
<1>1. QED
  BY RetainedIsTheEnd DEF TypeInv, Page, Matching, LostBefore

\* When there is more the page ends with its last event, which there is.
LEMMA NextInRange ==
    ASSUME TypeInv
    PROVE  /\ NextCursor \in reader.cursor..sequence
           /\ reader.cursor \in Nat /\ sequence \in Nat
           /\ HasMore => NextCursor \in Page
           /\ HasMore => \A k \in Page : k <= NextCursor
           /\ ~HasMore => NextCursor = sequence
<1>1. /\ sequence \in Nat /\ Len(log) \in Nat /\ reader.cursor \in 0..sequence
      /\ Retained = (sequence - Len(log) + 1)..sequence /\ Retained \subseteq 1..sequence
  BY RetainedIsTheEnd DEF TypeInv, TypeOK
<1> DEFINE lo == IF reader.cursor < sequence - Len(log) + 1 THEN sequence - Len(log) + 1
                 ELSE reader.cursor + 1
           hi == IF lo + Limit - 1 < sequence THEN lo + Limit - 1 ELSE sequence
<1>2. lo \in Int /\ Matching = lo..sequence
  <2>1. lo \in Int
    BY <1>1
  <2>2. \A n \in Matching : n \in lo..sequence
    BY <1>1 DEF Matching
  <2>3. \A n \in lo..sequence : n \in Matching
    BY <1>1 DEF Matching
  <2>4. QED
    BY <2>1, <2>2, <2>3
<1>3. ASSUME NEW n \in lo..sequence
      PROVE  Cardinality({k \in Matching : k < n}) = n - lo
  <2>1. {k \in Matching : k < n} = lo..(n - 1)
    BY <1>1, <1>2
  <2>2. n - 1 \in Int /\ (n - 1) - lo + 1 = n - lo
    BY <1>1, <1>2
  <2>3. Cardinality(lo..(n - 1)) = IF lo > n - 1 THEN 0 ELSE (n - 1) - lo + 1
    BY <1>2, <2>2, FS_Interval
  <2>4. lo > n - 1 => n - lo = 0
    BY <1>1, <1>2
  <2>5. QED
    BY <2>1, <2>2, <2>3, <2>4
<1>4. Page = {n \in lo..sequence : n - lo < Limit}
  BY <1>2, <1>3 DEF Page
<1> HIDE DEF lo
<1>5. CASE HasMore
  <2>1. lo <= sequence
    BY <1>1, <1>2, <1>4, <1>5 DEF HasMore
  <2>2. hi \in Page /\ \A k \in Page : k <= hi
    BY <1>1, <1>2, <1>4, <2>1, Numbers
  <2>3. NextCursor = CHOOSE n \in Page : \A k \in Page : k <= n
    BY <1>5 DEF NextCursor
  <2>4. NextCursor \in Page /\ \A k \in Page : k <= NextCursor
    BY <2>2, <2>3
  <2>5. NextCursor \in 1..sequence /\ NextCursor > reader.cursor
    BY <2>4, PageTypes
  <2>6. QED
    BY <1>1, <1>5, <2>4, <2>5
<1>6. CASE ~HasMore
  BY <1>1, <1>6 DEF NextCursor
<1>7. QED
  BY <1>5, <1>6

-----------------------------------------------------------------------------
(* Types                                                                    *)

LEMMA TypesBegin == Init => TypeInv
<1> SUFFICES ASSUME Init
             PROVE  TypeInv
  OBVIOUS
<1> USE Numbers, EmptyTypes
<1>1. births \in Seq([at : Nat, start : Nat]) /\ Len(births) = 1 /\ published \in Seq(1..MaxTime) /\ Len(published) = 0
  BY DEF Init
<1>2. /\ cached \in [Tables -> Table] /\ slot \in Snapshot /\ slot.gen = 0
      /\ held \in [Actors -> Snapshot] /\ \A a \in Actors : held[a].gen = 0
  BY DEF Init, NoSnapshot, Snapshot
<1>3. store \in Store /\ store.gen = 0
  BY <1>2 DEF Init, Store, NoSnapshot, Snapshot
<1>4. log \in Seq(Event) /\ sequence = 0 /\ LogIsInOrder
  BY DEF Init, LogIsInOrder
<1>5. reader \in [cursor : 0..sequence, seen : SUBSET (1..sequence), lost : SUBSET (1..sequence)]
  BY DEF Init
<1>6. TypeOK
  BY <1>1, <1>2, <1>3, <1>4, <1>5 DEF TypeOK, Init
<1>7. QED
  BY <1>2, <1>3, <1>4, <1>6 DEF TypeInv, Behind

\* Steps of the machine and the collector leave the service alone.
LEMMA TypesOfTheMachine == TypeInv /\ (Tick \/ Reuse) => TypeInv'
<1> SUFFICES ASSUME TypeInv, Tick \/ Reuse
             PROVE  TypeInv'
  OBVIOUS
<1> DEFINE Birth == [at : Nat, start : Nat]
<1>1. /\ now \in 1..MaxTime /\ births \in Seq(Birth) /\ Len(births) \in 1..MaxOwners
      /\ now \in Nat /\ now >= 1 /\ Len(births) \in Nat
  BY Numbers DEF TypeInv, TypeOK
<1>2. /\ UNCHANGED <<gen, todo, sampled, cached, slot, published>>
      /\ UNCHANGED <<held, turn, store, sequence, log, reader>>
  BY DEF Tick, Reuse, collector, service
<1>3. now' \in 1..MaxTime /\ births' \in Seq(Birth) /\ Len(births') \in 1..MaxOwners
  <2>1. CASE Tick
    <3>1. now' \in 1..MaxTime /\ births' = births
      BY <1>1, <2>1, Numbers DEF Tick
    <3>2. QED
      BY <1>1, <3>1
  <2>2. CASE Reuse
    <3>1. PICK start \in {now - 1, now} : births' = Append(births, [at |-> now, start |-> start])
      BY <2>2 DEF Reuse
    <3>2. now' = now /\ Len(births) < MaxOwners
      BY <2>2 DEF Reuse
    <3>3. [at |-> now, start |-> start] \in Birth
      BY <1>1, <3>1
    <3> HIDE DEF Birth
    <3>4. births' \in Seq(Birth) /\ Len(births') = Len(births) + 1
      BY <1>1, <3>1, <3>3
    <3>5. QED
      BY <1>1, <3>2, <3>4, Numbers
  <2>3. QED
    BY <2>1, <2>2
<1>4. QED
  BY <1>2, <1>3 DEF TypeInv, TypeOK, Behind, LogIsInOrder

LEMMA TypesOfTheCollector ==
    TypeInv /\ (BeginPass \/ PublishPass \/ \E t \in Tables : RunStage(t)) => TypeInv'
<1> SUFFICES ASSUME TypeInv, BeginPass \/ PublishPass \/ \E t \in Tables : RunStage(t)
             PROVE  TypeInv'
  OBVIOUS
<1>1. /\ now \in Nat /\ now \in 1..MaxTime /\ Len(births) \in 0..MaxOwners /\ gen \in 0..MaxGen
      /\ published \in Seq(1..MaxTime) /\ Len(published) = slot.gen
      /\ todo \in SUBSET Tables /\ sampled \in SUBSET Tables /\ cached \in [Tables -> Table]
      /\ slot \in Snapshot /\ slot.gen \in {gen - 1, gen} \cap Nat
      /\ store \in Store /\ store.gen \in 0..MaxGen /\ store.gen <= slot.gen
      /\ \A a \in Actors : held[a].gen \in 0..MaxGen /\ held[a].gen <= slot.gen
  BY Numbers DEF TypeInv, TypeOK, Behind, Store, Snapshot
<1>2. UNCHANGED <<now, births>> /\ UNCHANGED <<held, turn, store, sequence, log, reader>>
  BY DEF BeginPass, PublishPass, RunStage, machine, service
<1> DEFINE Goal == /\ gen' \in 0..MaxGen /\ todo' \in SUBSET Tables /\ sampled' \in SUBSET Tables
                   /\ cached' \in [Tables -> Table] /\ slot' \in Snapshot
                   /\ slot'.gen \in {gen' - 1, gen'} \cap Nat /\ slot.gen <= slot'.gen
                   /\ published' \in Seq(1..MaxTime) /\ Len(published') = slot'.gen
<1>3. Goal
  <2>1. CASE BeginPass
    <3>1. gen' = gen + 1 /\ gen < MaxGen /\ gen = slot.gen /\ UNCHANGED <<cached, slot, published>>
      BY <2>1 DEF BeginPass
    <3>2. todo' \in SUBSET Tables
      BY <2>1 DEF BeginPass
    <3>3. sampled' \in SUBSET Tables
      BY <2>1 DEF BeginPass, Tables
    <3>4. gen' \in 0..MaxGen /\ slot'.gen = gen' - 1 /\ slot'.gen \in Nat /\ slot.gen <= slot'.gen
      BY <1>1, <3>1, Numbers
    <3>5. slot'.gen \in {gen' - 1, gen'} \cap Nat
      BY <3>4
    <3>6. QED
      BY <1>1, <3>1, <3>2, <3>3, <3>4, <3>5
  <2>2. CASE PublishPass
    <3>1. PICK reading \in [Ids -> Readings] :
            slot' = [gen |-> gen, warmup |-> gen = 1, at |-> now, reading |-> reading,
                     sampled |-> sampled, tables |-> cached]
      BY <2>2 DEF PublishPass
    <3>2. slot' \in Snapshot /\ slot'.gen = gen
      BY <1>1, <3>1 DEF Snapshot
    <3>3. UNCHANGED <<gen, todo, sampled, cached>> /\ gen > slot.gen /\ published' = Append(published, now)
      BY <2>2 DEF PublishPass
    <3>4. slot.gen \in Nat /\ gen \in Nat /\ gen = slot.gen + 1
      BY <1>1, <3>3
    <3>5. published' \in Seq(1..MaxTime) /\ Len(published') = slot.gen + 1
      BY <1>1, <3>3
    <3>6. slot'.gen \in {gen' - 1, gen'} \cap Nat /\ slot.gen <= slot'.gen /\ Len(published') = slot'.gen
      BY <3>2, <3>3, <3>4, <3>5
    <3>7. QED
      BY <1>1, <3>2, <3>3, <3>5, <3>6
  <2>3. ASSUME NEW t \in Tables, RunStage(t)
        PROVE  Goal
    <3>1. UNCHANGED <<gen, slot, published>> /\ todo' \in SUBSET Tables
      BY <1>1, <2>3 DEF RunStage
    <3>2. \A owner \in {0, Len(births)} : [owner |-> owner, gen |-> gen] \in Table
      BY <1>1, Numbers DEF Table
    <3>3. cached' \in [Tables -> Table] /\ sampled' \in SUBSET Tables
      BY <1>1, <2>3, <3>2 DEF RunStage
    <3>4. QED
      BY <1>1, <3>1, <3>3, Numbers
  <2>4. QED
    BY <2>1, <2>2, <2>3
<1>4. store.gen <= slot'.gen /\ \A a \in Actors : held[a].gen <= slot'.gen
  <2>1. slot.gen \in Nat /\ slot'.gen \in Nat /\ slot.gen <= slot'.gen
    BY <1>1, <1>3
  <2>2. /\ store.gen \in Nat /\ store.gen <= slot.gen
        /\ \A a \in Actors : held[a].gen \in Nat /\ held[a].gen <= slot.gen
    BY <1>1, Numbers
  <2>3. QED
    BY <2>1, <2>2
<1>5. QED
  BY <1>2, <1>3, <1>4 DEF TypeInv, TypeOK, Behind, LogIsInOrder

LEMMA TypesOfTheService ==
    TypeInv /\ (\E a \in Actors : Take(a) \/ Ingest(a) \/ Answer(a) \/ ReadEvents(a)) => TypeInv'
<1> SUFFICES ASSUME TypeInv, NEW a \in Actors, Take(a) \/ Ingest(a) \/ Answer(a) \/ ReadEvents(a)
             PROVE  TypeInv'
  OBVIOUS
<1>1. UNCHANGED <<now, births>> /\ UNCHANGED <<gen, todo, sampled, cached, slot, published>>
  BY DEF Take, Ingest, Answer, ReadEvents, machine, collector
<1>2. /\ held \in [Actors -> Snapshot] /\ turn \in [Actors -> {"idle", "ingest", "answer"}]
      /\ slot \in Snapshot /\ slot.gen \in Nat /\ Behind /\ NoSnapshot.gen = 0
  BY Numbers DEF TypeInv, TypeOK, Snapshot, NoSnapshot
<1>3. CASE Take(a)
  <2>1. /\ held' \in [Actors -> Snapshot] /\ turn' \in [Actors -> {"idle", "ingest", "answer"}]
        /\ \A b \in Actors : held'[b] = IF b = a THEN slot ELSE held[b]
    BY <1>2, <1>3 DEF Take
  <2>2. UNCHANGED <<store, sequence, log, reader>>
    BY <1>3 DEF Take
  <2>3. Behind'
    BY <1>1, <1>2, <2>1, <2>2 DEF Behind
  <2>4. QED
    BY <1>1, <2>1, <2>2, <2>3 DEF TypeInv, TypeOK, LogIsInOrder
<1>4. CASE Ingest(a)
  <2>1. /\ held' \in [Actors -> Snapshot] /\ turn' \in [Actors -> {"idle", "ingest", "answer"}]
        /\ \A b \in Actors : held'[b] = IF b = a THEN NoSnapshot ELSE held[b]
        /\ reader' = reader
    BY <1>2, <1>4, EmptyTypes DEF Ingest
  <2>2. /\ store' \in Store /\ store'.gen <= slot.gen /\ sequence' \in Nat /\ sequence <= sequence'
        /\ log' \in Seq(Event) /\ LogIsInOrder'
    BY <1>4, IngestTypes
  <2>3. Behind' /\ store'.gen <= slot'.gen
    BY <1>1, <1>2, <2>1, <2>2 DEF Behind
  <2>5. reader' \in [cursor : 0..sequence', seen : SUBSET (1..sequence'), lost : SUBSET (1..sequence')]
    <3>1. /\ reader \in [cursor : 0..sequence, seen : SUBSET (1..sequence), lost : SUBSET (1..sequence)]
          /\ sequence \in Nat
      BY DEF TypeInv, TypeOK
    <3>2. 0..sequence \subseteq 0..sequence' /\ 1..sequence \subseteq 1..sequence'
      BY <2>2, <3>1
    <3>3. QED
      BY <2>1, <3>1, <3>2
  <2>6. QED
    BY <1>1, <2>1, <2>2, <2>3, <2>5 DEF TypeInv, TypeOK
<1>5. CASE Answer(a)
  <2>1. turn' \in [Actors -> {"idle", "ingest", "answer"}]
    BY <1>2, <1>5 DEF Answer
  <2>2. UNCHANGED <<held, store, sequence, log, reader>>
    BY <1>5 DEF Answer
  <2>3. QED
    BY <1>1, <2>1, <2>2 DEF TypeInv, TypeOK, Behind, LogIsInOrder
<1>6. CASE ReadEvents(a)
  <2>1. turn' \in [Actors -> {"idle", "ingest", "answer"}]
    BY <1>2, <1>6 DEF ReadEvents
  <2>2. UNCHANGED <<held, store, sequence, log>>
    BY <1>6 DEF ReadEvents
  <2>3. reader' \in [cursor : 0..sequence, seen : SUBSET (1..sequence), lost : SUBSET (1..sequence)]
    <3>1. reader \in [cursor : 0..sequence, seen : SUBSET (1..sequence), lost : SUBSET (1..sequence)]
      BY DEF TypeInv, TypeOK
    <3>2. NextCursor \in 0..sequence
      BY NextInRange
    <3>3. Page \subseteq 1..sequence /\ LostBefore(reader.cursor) \subseteq 1..sequence
      BY PageTypes
    <3>4. QED
      BY <1>6, <3>1, <3>2, <3>3 DEF ReadEvents
  <2>4. QED
    BY <1>1, <2>1, <2>2, <2>3 DEF TypeInv, TypeOK, Behind, LogIsInOrder
<1>7. QED
  BY <1>3, <1>4, <1>5, <1>6

LEMMA TypesKept == TypeInv /\ [Next]_vars => TypeInv'
<1>1. TypeInv /\ UNCHANGED vars => TypeInv'
  BY DEF TypeInv, TypeOK, Behind, LogIsInOrder, vars, machine, collector, service
<1>2. QED
  BY <1>1, TypesOfTheMachine, TypesOfTheCollector, TypesOfTheService DEF Next

\* The service keeps its types and its log in order.
THEOREM ObservationTypes == Spec => []TypeOK
<1>1. TypeInv => TypeOK
  BY DEF TypeInv
<1>2. QED
  BY <1>1, TypesBegin, TypesKept, PTL DEF Spec

-----------------------------------------------------------------------------
(* The reader                                                               *)

\* What a page and the loss announced with it cover, and what they do not.
LEMMA PageCovers ==
    ASSUME TypeInv
    PROVE  /\ LostBefore(reader.cursor) \subseteq 1..(sequence - Len(log))
           /\ \A n \in LostBefore(reader.cursor) : n > reader.cursor
           /\ \A n \in Page : n > sequence - Len(log) /\ n \in 1..NextCursor
           /\ \A n \in 1..NextCursor : n > reader.cursor => n \in Page \cup LostBefore(reader.cursor)
<1>1. /\ sequence \in Nat /\ Len(log) \in Nat /\ reader.cursor \in Nat
      /\ Retained = (sequence - Len(log) + 1)..sequence /\ Retained \subseteq 1..sequence
      /\ Retained = {} => sequence = 0
      /\ NextCursor \in Nat /\ NextCursor <= sequence
  BY RetainedIsTheEnd, NextInRange DEF TypeInv
<1>2. Retained # {} => sequence - Len(log) + 1 \in Retained
  BY <1>1
<1>3. LostBefore(reader.cursor) \subseteq 1..(sequence - Len(log))
  BY <1>1, <1>2 DEF LostBefore
<1>4. \A n \in LostBefore(reader.cursor) : n > reader.cursor
  BY DEF LostBefore
<1>5. ASSUME NEW n \in Page
      PROVE  n > sequence - Len(log) /\ n \in 1..NextCursor
  <2>1. n \in Retained /\ n \in 1..sequence
    BY <1>1, PageTypes
  <2>2. n <= NextCursor
    BY <2>1, NextInRange
  <2>3. QED
    BY <1>1, <2>1, <2>2
<1>6. ASSUME NEW n \in 1..NextCursor, n > reader.cursor
      PROVE  n \in Page \cup LostBefore(reader.cursor)
  <2>1. n \in 1..sequence /\ Retained # {}
    BY <1>1
  <2>2. CASE n <= sequence - Len(log)
    BY <1>1, <1>6, <2>1, <2>2 DEF LostBefore
  <2>3. CASE n > sequence - Len(log)
    <3>1. n \in Matching
      BY <1>1, <1>6, <2>1, <2>3 DEF Matching
    <3>2. CASE ~HasMore
      BY <3>1, <3>2 DEF HasMore
    <3>3. CASE HasMore
      <4> DEFINE upTo(m) == {k \in Matching : k < m}
      <4>1. NextCursor \in Page
        BY <3>3, NextInRange
      <4>2. IsFiniteSet(1..sequence)
        BY <1>1, FS_Interval
      <4>3. IsFiniteSet(upTo(NextCursor))
        <5>1. upTo(NextCursor) \subseteq 1..sequence
          BY PageTypes
        <5>2. QED
          BY <4>2, <5>1, FS_Subset
      <4>4. upTo(n) \subseteq upTo(NextCursor)
        <5>1. \A k \in Matching : k \in Int
          BY PageTypes
        <5>2. QED
          BY <1>1, <5>1
      <4>5. /\ Cardinality(upTo(n)) \in Nat /\ Cardinality(upTo(NextCursor)) \in Nat
            /\ Cardinality(upTo(n)) <= Cardinality(upTo(NextCursor))
        BY <4>3, <4>4, FS_Subset, FS_CardinalityType
      <4>6. Cardinality(upTo(NextCursor)) < Limit
        BY <4>1 DEF Page
      <4>7. Cardinality(upTo(n)) < Limit
        BY <4>5, <4>6, Numbers
      <4>8. QED
        BY <3>1, <4>7 DEF Page
    <3>4. QED
      BY <3>2, <3>3
  <2>4. QED
    BY <1>1, <2>2, <2>3
<1>7. QED
  BY <1>3, <1>4, <1>5, <1>6

\* Asking for events keeps what the reader knows complete and consistent.
LEMMA ReaderReads ==
    ASSUME TypeInv, ReaderInv, NEW a \in Actors, ReadEvents(a)
    PROVE  ReaderInv'
<1> DEFINE c == reader.cursor
           floor == sequence - Len(log)
<1>1. /\ c \in Nat /\ sequence \in Nat /\ Len(log) \in Nat /\ NextCursor \in c..sequence
  BY NextInRange, RetainedIsTheEnd DEF TypeInv
<1>2. /\ reader'.cursor = NextCursor /\ reader'.seen = reader.seen \cup Page
      /\ reader'.lost = reader.lost \cup LostBefore(c)
      /\ UNCHANGED <<sequence, log>>
  BY DEF ReadEvents
<1>3. /\ 1..c \subseteq reader.seen \cup reader.lost /\ reader.seen \cap reader.lost = {}
      /\ reader.seen \subseteq 1..c /\ reader.lost \subseteq 1..floor
  BY DEF ReaderInv, EveryEventSeenOrAnnounced
<1>4. /\ LostBefore(c) \subseteq 1..floor /\ \A n \in LostBefore(c) : n > c
      /\ \A n \in Page : n > floor /\ n \in 1..NextCursor
      /\ \A n \in 1..NextCursor : n > c => n \in Page \cup LostBefore(c)
  BY PageCovers
<1>5. floor \in Int
  BY <1>1
<1> HIDE DEF c, floor
<1>6. 1..NextCursor \subseteq reader'.seen \cup reader'.lost
  <2>1. ASSUME NEW n \in 1..NextCursor
        PROVE  n \in reader'.seen \cup reader'.lost
    <3>1. n \in 1..c \/ n > c
      BY <1>1
    <3>2. QED
      BY <1>2, <1>3, <1>4, <3>1
  <2>2. QED
    BY <2>1
<1>7. reader'.seen \subseteq 1..NextCursor
  BY <1>1, <1>2, <1>3, <1>4
<1>8. reader'.lost \subseteq 1..floor
  BY <1>2, <1>3, <1>4
<1>9. reader'.seen \cap reader'.lost = {}
  <2>1. ASSUME NEW n \in Page, n \in 1..floor
        PROVE  FALSE
    BY <1>4, <1>5, <2>1
  <2>2. ASSUME NEW n \in reader.seen, n \in LostBefore(c)
        PROVE  FALSE
    BY <1>1, <1>3, <1>4, <2>2
  <2>3. QED
    BY <1>2, <1>3, <1>8, <2>1, <2>2
<1>10. floor = sequence' - Len(log')
  BY <1>2 DEF floor
<1>11. QED
  BY <1>2, <1>6, <1>7, <1>8, <1>9, <1>10 DEF ReaderInv, EveryEventSeenOrAnnounced

LEMMA ReaderKept == TypeInv /\ ReaderInv /\ [Next]_vars => ReaderInv'
<1> SUFFICES ASSUME TypeInv, ReaderInv, [Next]_vars
             PROVE  ReaderInv'
  OBVIOUS
<1>1. ASSUME UNCHANGED <<sequence, log, reader>>
      PROVE  ReaderInv'
  BY <1>1 DEF ReaderInv, EveryEventSeenOrAnnounced
<1>2. ASSUME NEW a \in Actors, Ingest(a)
      PROVE  ReaderInv'
  <2>1. sequence' - Len(log') >= sequence - Len(log) /\ {Len(log), Len(log'), sequence, sequence'} \subseteq Nat
    BY <1>2, IngestTypes, RetainedIsTheEnd DEF TypeInv
  <2>2. reader' = reader
    BY <1>2 DEF Ingest
  <2>3. 1..(sequence - Len(log)) \subseteq 1..(sequence' - Len(log'))
    BY <2>1
  <2>4. QED
    BY <2>2, <2>3 DEF ReaderInv, EveryEventSeenOrAnnounced
<1>3. ASSUME NEW a \in Actors, Take(a) \/ Answer(a)
      PROVE  ReaderInv'
  BY <1>1, <1>3 DEF Take, Answer
<1>4. CASE Tick \/ Reuse \/ BeginPass \/ PublishPass \/ \E t \in Tables : RunStage(t)
  BY <1>1, <1>4 DEF Tick, Reuse, BeginPass, PublishPass, RunStage, service
<1>5. CASE UNCHANGED vars
  BY <1>1, <1>5 DEF vars, service
<1>6. QED
  BY <1>2, <1>3, <1>4, <1>5, ReaderReads DEF Next

\* A client that passes on its cursor has seen every event up to it, or knows it is lost.
THEOREM EventsSeenOrAnnounced == Spec => []EveryEventSeenOrAnnounced
<1>1. Init => ReaderInv
  <2>1. SUFFICES ASSUME Init
                 PROVE  ReaderInv
    OBVIOUS
  <2>2. reader.cursor = 0 /\ reader.seen = {} /\ reader.lost = {}
    BY <2>1 DEF Init
  <2>3. QED
    BY <2>2 DEF ReaderInv, EveryEventSeenOrAnnounced
<1>2. ReaderInv => EveryEventSeenOrAnnounced
  BY DEF ReaderInv
<1>3. QED
  BY <1>1, <1>2, TypesBegin, TypesKept, ReaderKept, PTL DEF Spec

-----------------------------------------------------------------------------
(* The process behind a connection                                          *)

-----------------------------------------------------------------------------
(* The time beside a table                                                  *)

\* The generations the invariant speaks of are numbers.
LEMMA Generations ==
    ASSUME TypeInv
    PROVE  /\ gen \in Nat /\ slot.gen \in Nat /\ store.gen \in Nat
           /\ slot.gen <= gen /\ store.gen <= slot.gen
           /\ \A t \in Tables : /\ cached[t].gen \in Nat /\ slot.tables[t].gen \in Nat
                                /\ store.tables[t].gen \in Nat
           /\ \A a \in Actors : /\ held[a] \in Snapshot
                                /\ held[a].gen \in Nat /\ held[a].gen <= slot.gen
                                /\ \A t \in Tables : held[a].tables[t].gen \in Nat
<1>1. /\ gen \in 0..MaxGen /\ cached \in [Tables -> Table] /\ slot \in Snapshot /\ store \in Store
      /\ slot.gen \in {gen - 1, gen} \cap Nat /\ store.gen <= slot.gen
      /\ \A a \in Actors : held[a] \in Snapshot /\ held[a].gen <= slot.gen
  BY DEF TypeInv, TypeOK, Behind
<1>2. \A x \in Table : x.gen \in Nat
  BY Numbers DEF Table
<1>3. \A x \in Snapshot : x.gen \in Nat /\ \A t \in Tables : x.tables[t] \in Table
  BY Numbers DEF Snapshot
<1>4. store.gen \in Nat /\ \A t \in Tables : store.tables[t] \in Table
  BY <1>1, Numbers DEF Store
<1>5. slot.gen <= gen /\ gen \in Nat
  BY <1>1, Numbers
<1>6. QED
  BY <1>1, <1>2, <1>3, <1>4, <1>5

LEMMA OrderBegins == Init => TablesInOrder /\ StampsNotFresher
<1> SUFFICES ASSUME Init
             PROVE  TablesInOrder /\ StampsNotFresher
  OBVIOUS
<1>1. /\ \A t \in Tables : /\ cached[t].gen = 0 /\ slot.tables[t].gen = 0
                           /\ store.tables[t].gen = 0 /\ store.stamps[t] = None
      /\ \A a \in Actors, t \in Tables : held[a].tables[t].gen = 0
  BY DEF Init, NoSnapshot, NoTable
<1>2. /\ slot.gen = 0 /\ store.gen = 0 /\ gen = 0 /\ slot.sampled = {}
      /\ \A a \in Actors : held[a].gen = 0 /\ held[a].sampled = {}
  BY DEF Init, NoSnapshot
<1>3. QED
  BY <1>1, <1>2 DEF TablesInOrder, OfThePass, Older, NotLater, ReadBy, IsFresh, StampsNotFresher

\* Steps of the collector keep the order.
LEMMA OrderOfTheCollector ==
    ASSUME TypeInv, TablesInOrder, BeginPass \/ PublishPass \/ \E t \in Tables : RunStage(t)
    PROVE  TablesInOrder'
<1>1. UNCHANGED <<store, held>>
  BY DEF BeginPass, PublishPass, RunStage, service
<1>2. ASSUME slot' = slot, OfThePass'
      PROVE  TablesInOrder'
  BY <1>1, <1>2 DEF TablesInOrder, Older, NotLater, ReadBy, IsFresh
<1>3. CASE BeginPass
  <2>1. /\ gen' = gen + 1 /\ UNCHANGED <<cached, slot>>
        /\ gen' > 1 => sampled' = {}
    BY <1>3, Generations DEF BeginPass
  <2>2. OfThePass'
    BY <2>1, Generations DEF TablesInOrder, OfThePass
  <2>3. QED
    BY <1>2, <2>1, <2>2
<1>4. ASSUME NEW t \in Tables, RunStage(t)
      PROVE  TablesInOrder'
  <2>1. UNCHANGED <<gen, slot>>
    BY <1>4 DEF RunStage
  <2>2. \/ UNCHANGED <<cached, sampled>>
        \/ /\ sampled' = sampled \cup {t} /\ cached'[t].gen = gen
           /\ \A u \in Tables \ {t} : cached'[u] = cached[u]
    <3>1. cached \in [Tables -> Table]
      BY DEF TypeInv, TypeOK
    <3>2. QED
      BY <1>4, <3>1 DEF RunStage
  <2>3. \A u \in Tables : slot.tables[u].gen <= gen
    BY Generations DEF TablesInOrder, OfThePass
  <2>4. OfThePass'
    BY <2>1, <2>2, <2>3, Generations DEF TablesInOrder, OfThePass
  <2>5. QED
    BY <1>2, <2>1, <2>4
<1>5. CASE PublishPass
  <2>1. /\ UNCHANGED <<gen, sampled, cached>> /\ gen > slot.gen
        /\ slot'.gen = gen /\ slot'.tables = cached /\ slot'.sampled = sampled
        /\ slot'.warmup = (gen = 1)
    BY <1>5 DEF PublishPass
  <2>2. OfThePass /\ \A t \in Tables : slot.tables[t].gen <= cached[t].gen
    BY DEF TablesInOrder, OfThePass
  <2>3. OfThePass' /\ NotLater(slot)' /\ ReadBy(slot)'
    <3>1. \A t \in Tables : slot'.tables[t] = cached[t]
      BY <2>1
    <3>2. OfThePass'
      BY <2>1, <2>2, <3>1, Generations DEF OfThePass
    <3>3. NotLater(slot)'
      BY <2>1, <2>2, <3>1 DEF OfThePass, NotLater
    <3>4. ReadBy(slot)'
      <4>1. ASSUME NEW t \in Tables, t \in slot'.sampled, ~slot'.warmup
            PROVE  slot'.tables[t].gen = slot'.gen
        <5>1. gen # 1
          BY <2>1, <4>1, Zenon
        <5>2. t \in sampled /\ gen > 1
          BY <2>1, <4>1, <5>1, Generations
        <5>3. QED
          BY <2>1, <2>2, <3>1, <5>2 DEF OfThePass
      <4>2. QED
        BY <4>1 DEF ReadBy, IsFresh
    <3>5. QED
      BY <3>2, <3>3, <3>4
  <2>4. Older(store, slot)' /\ Older(slot, store)'
    BY <1>1, <2>1, <2>2, Generations DEF TablesInOrder, Older
  <2>5. ASSUME NEW a \in Actors
        PROVE  Older(held[a], slot)' /\ Older(slot, held[a])'
    BY <1>1, <2>1, <2>2, Generations DEF TablesInOrder, Older
  <2>6. NotLater(store)' /\ \A a \in Actors :
           /\ Older(held[a], store)' /\ Older(store, held[a])'
           /\ NotLater(held[a])' /\ ReadBy(held[a])'
           /\ \A b \in Actors : Older(held[a], held[b])'
    BY <1>1 DEF TablesInOrder, Older, NotLater, ReadBy, IsFresh
  <2>7. QED
    BY <2>3, <2>4, <2>5, <2>6 DEF TablesInOrder
<1>6. QED
  BY <1>3, <1>4, <1>5

\* Whichever thread takes a snapshot, and whenever it ingests it, the order is kept.
LEMMA OrderOfTheService ==
    ASSUME TypeInv, TablesInOrder, NEW a \in Actors, Take(a) \/ Ingest(a)
    PROVE  TablesInOrder'
<1>1. UNCHANGED <<gen, sampled, cached, slot>> /\ OfThePass'
  BY DEF Take, Ingest, collector, TablesInOrder, OfThePass
<1>2. held \in [Actors -> Snapshot] /\ Older(slot, slot)
  BY Generations DEF TypeInv, TypeOK, Older
<1>3. \A b \in Actors : Older(held[b], held[b])
  BY DEF TablesInOrder
<1>4. CASE Take(a)
  <2>1. store' = store /\ \A b \in Actors : held'[b] = IF b = a THEN slot ELSE held[b]
    BY <1>2, <1>4 DEF Take
  <2>2. QED
    BY <1>1, <1>2, <2>1 DEF TablesInOrder, Older, NotLater, ReadBy, IsFresh
<1>5. CASE Ingest(a)
  <2>1. \A b \in Actors : held'[b] = IF b = a THEN NoSnapshot ELSE held[b]
    BY <1>2, <1>5 DEF Ingest
  <2>2. /\ NoSnapshot.gen = 0 /\ \A t \in Tables : NoSnapshot.tables[t].gen = 0
        /\ NoSnapshot.sampled = {}
    BY DEF NoSnapshot, NoTable
  <2>3. \/ store'.gen = store.gen /\ store'.tables = store.tables
        \/ store'.gen = held[a].gen /\ store'.tables = held[a].tables
    BY <1>5 DEF Ingest, Stored
  <2> HIDE DEF NoSnapshot
  <2>4. /\ Older(store, slot)' /\ Older(slot, store)' /\ NotLater(store)'
        /\ \A b \in Actors : Older(held[b], store') /\ Older(store', held[b])
    <3>1. CASE store'.gen = store.gen /\ store'.tables = store.tables
      BY <1>1, <3>1 DEF TablesInOrder, Older, NotLater
    <3>2. CASE store'.gen = held[a].gen /\ store'.tables = held[a].tables
      BY <1>1, <3>2 DEF TablesInOrder, Older, NotLater
    <3>3. QED
      BY <2>3, <3>1, <3>2
  <2>5. /\ NotLater(NoSnapshot) /\ ReadBy(NoSnapshot) /\ Older(NoSnapshot, NoSnapshot)
        /\ Older(NoSnapshot, slot) /\ Older(slot, NoSnapshot)
        /\ Older(NoSnapshot, store') /\ Older(store', NoSnapshot)
        /\ \A b \in Actors : Older(NoSnapshot, held[b]) /\ Older(held[b], NoSnapshot)
    <3>1. ASSUME NEW y, y.gen \in Nat, \A t \in Tables : y.tables[t].gen \in Nat, NotLater(y)
          PROVE  Older(NoSnapshot, y) /\ Older(y, NoSnapshot)
      BY <2>2, <3>1 DEF Older, NotLater
    <3>2. NotLater(NoSnapshot) /\ ReadBy(NoSnapshot) /\ Older(NoSnapshot, NoSnapshot)
      BY <2>2 DEF NotLater, ReadBy, IsFresh, Older
    <3>3. NotLater(slot) /\ \A b \in Actors : NotLater(held[b])
      BY DEF TablesInOrder
    <3>4. store'.gen \in Nat /\ (\A t \in Tables : store'.tables[t].gen \in Nat) /\ NotLater(store')
      BY <2>3, <2>4, Generations DEF NotLater
    <3>5. QED
      BY <3>1, <3>2, <3>3, <3>4, Generations
  <2>6. ASSUME NEW b \in Actors
        PROVE  /\ Older(held[b], slot)' /\ Older(slot, held[b])'
               /\ Older(held[b], store)' /\ Older(store, held[b])'
               /\ NotLater(held[b])' /\ ReadBy(held[b])'
               /\ \A c \in Actors : Older(held[b], held[c])'
    <3>1. /\ Older(held[b], slot) /\ Older(slot, held[b]) /\ NotLater(held[b]) /\ ReadBy(held[b])
          /\ \A c \in Actors : Older(held[b], held[c])
      BY DEF TablesInOrder
    <3>2. QED
      BY <1>1, <2>1, <2>4, <2>5, <3>1 DEF Older, NotLater, ReadBy, IsFresh
  <2>7. ReadBy(slot)' /\ NotLater(slot)'
    BY <1>1 DEF TablesInOrder, ReadBy, NotLater, IsFresh
  <2>8. QED
    BY <1>1, <2>4, <2>6, <2>7 DEF TablesInOrder
<1>6. QED
  BY <1>4, <1>5

LEMMA OrderKept ==
    TypeInv /\ TablesInOrder /\ StampsNotFresher /\ [Next]_vars => (TablesInOrder /\ StampsNotFresher)'
<1> SUFFICES ASSUME TypeInv, TablesInOrder, StampsNotFresher, [Next]_vars
             PROVE  TablesInOrder' /\ StampsNotFresher'
  OBVIOUS
<1>1. ASSUME UNCHANGED <<gen, sampled, cached, slot, store, held>>
      PROVE  TablesInOrder' /\ StampsNotFresher'
  BY <1>1 DEF TablesInOrder, OfThePass, Older, NotLater, ReadBy, IsFresh, StampsNotFresher
<1>2. CASE Tick \/ Reuse \/ UNCHANGED vars \/ \E a \in Actors : Answer(a) \/ ReadEvents(a)
  BY <1>1, <1>2 DEF Tick, Reuse, Answer, ReadEvents, vars, collector, service
<1>3. CASE BeginPass \/ PublishPass \/ \E t \in Tables : RunStage(t)
  <2>1. store' = store
    BY <1>3 DEF BeginPass, PublishPass, RunStage, service
  <2>2. QED
    BY <1>3, <2>1, OrderOfTheCollector DEF StampsNotFresher
<1>4. ASSUME NEW a \in Actors, Take(a)
      PROVE  TablesInOrder' /\ StampsNotFresher'
  <2>1. store' = store
    BY <1>4 DEF Take
  <2>2. QED
    BY <1>4, <2>1, OrderOfTheService DEF StampsNotFresher
<1>5. ASSUME NEW a \in Actors, Ingest(a)
      PROVE  TablesInOrder' /\ StampsNotFresher'
  <2>1. CASE held[a].gen <= store.gen
    <3>1. store' = store
      BY <1>5, <2>1 DEF Ingest
    <3>2. QED
      BY <1>5, <3>1, OrderOfTheService DEF StampsNotFresher
  <2>2. CASE ~(held[a].gen <= store.gen)
    <3>1. store' = Stored(held[a])
      BY <1>5, <2>2 DEF Ingest
    <3>2. /\ store'.tables = held[a].tables
          /\ \A t \in Tables : store'.stamps[t] =
                IF IsFresh(held[a], t) THEN [at |-> held[a].at, gen |-> held[a].gen]
                ELSE store.stamps[t]
      BY <3>1, Generations, StoredType DEF TypeInv
    <3>3. Older(store, held[a]) /\ ReadBy(held[a]) /\ store.gen <= held[a].gen
      BY <2>2, Generations DEF TablesInOrder
    <3>4. ASSUME NEW t \in Tables, store'.stamps[t] # None
          PROVE  store'.stamps[t].gen <= store'.tables[t].gen
      <4>1. CASE IsFresh(held[a], t)
        <5>1. store'.stamps[t].gen = held[a].gen /\ store'.tables[t].gen = held[a].gen
          BY <3>2, <3>3, <4>1 DEF ReadBy
        <5>2. QED
          BY <5>1, Generations
      <4>2. CASE ~IsFresh(held[a], t)
        <5>1. /\ store'.stamps[t] = store.stamps[t] /\ store.stamps[t] # None
              /\ store.stamps[t].gen <= store.tables[t].gen
              /\ store.tables[t].gen <= store'.tables[t].gen
          BY <3>2, <3>3, <3>4, <4>2 DEF StampsNotFresher, Older
        <5>2. store.stamps[t] \in Stamp
          BY <5>1 DEF TypeInv, TypeOK, Store
        <5>3. store.stamps[t].gen \in Nat
          BY <5>2, Numbers DEF Stamp
        <5>4. QED
          BY <3>2, <5>1, <5>3, Generations
      <4>3. QED
        BY <4>1, <4>2
    <3>5. QED
      BY <1>5, <3>4, OrderOfTheService DEF StampsNotFresher
  <2>3. QED
    BY <2>1, <2>2
<1>6. QED
  BY <1>2, <1>3, <1>4, <1>5 DEF Next

\* A table is never said to be fresher than it is.
THEOREM TablesNotFresher == Spec => []StampsNotFresher
BY TypesBegin, TypesKept, OrderBegins, OrderKept, PTL DEF Spec

-----------------------------------------------------------------------------
(* The process behind a connection                                          *)

\* The numbers of the machine and of the passes.
LEMMA Clocks ==
    ASSUME TypeInv
    PROVE  /\ now \in Nat /\ births \in Seq([at : Nat, start : Nat]) /\ Len(births) \in Nat
           /\ published \in Seq(1..MaxTime) /\ Len(published) \in Nat /\ Len(published) = slot.gen
           /\ (\A i \in 1..Len(published) : published[i] \in Nat)
           /\ (\A o \in 1..Len(births) : births[o].at \in Nat /\ births[o].start \in Nat)
<1>1. /\ now \in 1..MaxTime /\ births \in Seq([at : Nat, start : Nat])
      /\ published \in Seq(1..MaxTime) /\ Len(published) = slot.gen
  BY DEF TypeInv, TypeOK
<1>2. \A i \in 1..Len(published) : published[i] \in 1..MaxTime
  BY <1>1, ElementOfSeq
<1>3. \A o \in 1..Len(births) : births[o] \in [at : Nat, start : Nat]
  BY <1>1, ElementOfSeq
<1>4. QED
  BY <1>1, <1>2, <1>3, Numbers

LEMMA TimesBegin == Init => ClockTrue /\ TimesTrue
<1> SUFFICES ASSUME Init
             PROVE  ClockTrue /\ TimesTrue
  OBVIOUS
<1>1. Len(births) = 1 /\ births[1] = [at |-> 0, start |-> 0] /\ Len(published) = 0
  BY DEF Init
<1>2. ClockTrue
  <2>1. \A o \in 1..1 : o = 1
    OBVIOUS
  <2>2. births[1].at <= births[1].start + 1
    BY <1>1
  <2>3. QED
    BY <1>1, <2>1, <2>2 DEF ClockTrue
<1>3. /\ \A t \in Tables : /\ cached[t].owner = 0 /\ slot.tables[t].owner = 0
                           /\ store.tables[t].owner = 0 /\ store.stamps[t] = None
      /\ \A a \in Actors, t \in Tables : held[a].tables[t].owner = 0
      /\ slot.gen = 0 /\ \A a \in Actors : held[a].gen = 0
  BY DEF Init, NoSnapshot, NoTable
<1>4. 0 \in 0..Len(births)
  BY <1>1
<1>5. TimesTrue
  BY <1>3, <1>4 DEF TimesTrue, Known, Timed
<1>6. QED
  BY <1>2, <1>5

\* The clock goes on, processes are born, and passes end.
LEMMA ClockKept == TypeInv /\ ClockTrue /\ [Next]_vars => ClockTrue'
<1> SUFFICES ASSUME TypeInv, ClockTrue, [Next]_vars
             PROVE  ClockTrue'
  OBVIOUS
<1>1. /\ \A o \in 1..Len(births) : births[o].at <= births[o].start + 1
      /\ \A i \in 1..Len(published) : published[i] <= now
      /\ \A i, j \in 1..Len(published) : i <= j => published[i] <= published[j]
  BY DEF ClockTrue
<1>2. ASSUME UNCHANGED <<now, births, published>>
      PROVE  ClockTrue'
  BY <1>1, <1>2 DEF ClockTrue
<1>3. CASE Tick
  <2>1. now' = now + 1 /\ UNCHANGED <<births, published>>
    BY <1>3 DEF Tick, collector
  <2>2. \A i \in 1..Len(published) : published[i] <= now'
    BY <1>1, <2>1, Clocks
  <2>3. QED
    BY <1>1, <2>1, <2>2 DEF ClockTrue
<1>4. CASE Reuse
  <2>1. PICK start \in {now - 1, now} : births' = Append(births, [at |-> now, start |-> start])
    BY <1>4 DEF Reuse
  <2>2. UNCHANGED <<now, published>>
    BY <1>4 DEF Reuse, collector
  <2>3. PICK new : new = [at |-> now, start |-> start]
    OBVIOUS
  <2>4. new.at <= new.start + 1
    BY <2>1, <2>3, Clocks
  <2>5. /\ Len(births') = Len(births) + 1 /\ births'[Len(births) + 1] = new
        /\ \A o \in 1..Len(births) : births'[o] = births[o]
    BY <2>1, <2>3, Clocks
  <2>6. \A o \in 1..Len(births) + 1 : o \in 1..Len(births) \/ o = Len(births) + 1
    BY Clocks
  <2>7. \A o \in 1..Len(births') : births'[o].at <= births'[o].start + 1
    BY <1>1, <2>4, <2>5, <2>6
  <2>8. QED
    BY <1>1, <2>2, <2>7 DEF ClockTrue
<1>5. CASE PublishPass
  <2>1. published' = Append(published, now) /\ UNCHANGED <<now, births>>
    BY <1>5 DEF PublishPass, machine
  <2>2. PICK l : l = Len(published)
    OBVIOUS
  <2>3. /\ l \in Nat /\ Len(published') = l + 1 /\ published'[l + 1] = now
        /\ \A i \in 1..l : published'[i] = published[i]
    BY <2>1, <2>2, Clocks
  <2>4. \A i \in 1..l + 1 : i \in 1..l \/ i = l + 1
    BY <2>3
  <2>5. \A i \in 1..l + 1 : published'[i] <= now
    <3>1. now <= now
      BY Clocks
    <3>2. QED
      BY <1>1, <2>2, <2>3, <2>4, <3>1
  <2>6. ASSUME NEW i \in 1..l + 1, NEW j \in 1..l + 1, i <= j
        PROVE  published'[i] <= published'[j]
    <3>1. CASE j = l + 1
      BY <2>3, <2>5, <3>1
    <3>2. CASE j \in 1..l
      <4>1. i \in 1..l
        BY <2>3, <2>6, <3>2
      <4>2. QED
        BY <1>1, <2>2, <2>3, <2>6, <3>2, <4>1
    <3>3. QED
      BY <2>4, <3>1, <3>2
  <2>7. QED
    BY <1>1, <2>1, <2>3, <2>5, <2>6 DEF ClockTrue
<1>6. CASE BeginPass \/ UNCHANGED vars \/ \E t \in Tables : RunStage(t)
  BY <1>2, <1>6 DEF BeginPass, RunStage, vars, machine, collector
<1>7. CASE \E a \in Actors : Take(a) \/ Ingest(a) \/ Answer(a) \/ ReadEvents(a)
  BY <1>2, <1>7 DEF Take, Ingest, Answer, ReadEvents, machine, collector
<1>8. QED
  BY <1>3, <1>4, <1>5, <1>6, <1>7 DEF Next

\* What is known of tables and times stays known.
LEMMA TimesKept == TypeInv /\ ClockTrue /\ TimesTrue /\ [Next]_vars => TimesTrue'
<1> SUFFICES ASSUME TypeInv, ClockTrue, TimesTrue, [Next]_vars
             PROVE  TimesTrue'
  OBVIOUS
<1>1. /\ Known(cached, Len(births)) /\ Known(slot.tables, Len(births)) /\ Known(store.tables, Len(births))
      /\ \A a \in Actors : Known(held[a].tables, Len(births)) /\ Timed(held[a], published)
      /\ Timed(slot, published)
      /\ \A t \in Tables : store.stamps[t] # None =>
                           TimeOf(store.stamps[t].gen, store.stamps[t].at, published)
  BY DEF TimesTrue
<1>2. held \in [Actors -> Snapshot] /\ cached \in [Tables -> Table]
  BY DEF TypeInv, TypeOK
<1>3. ASSUME UNCHANGED <<births, published, cached, slot, store, held>>
      PROVE  TimesTrue'
  BY <1>1, <1>3 DEF TimesTrue
<1>4. CASE Tick \/ BeginPass \/ UNCHANGED vars \/ \E a \in Actors : Answer(a) \/ ReadEvents(a)
  BY <1>3, <1>4 DEF Tick, BeginPass, Answer, ReadEvents, vars, machine, collector, service
<1>5. CASE Reuse
  <2>1. UNCHANGED <<published, cached, slot, store, held>>
    BY <1>5 DEF Reuse, collector, service
  <2>2. Len(births') = Len(births) + 1 /\ Len(births) \in Nat
    BY <1>5, Clocks DEF Reuse
  <2>3. ASSUME NEW x, Known(x, Len(births))
        PROVE  Known(x, Len(births'))
    <3>1. 0..Len(births) \subseteq 0..Len(births')
      BY <2>2
    <3>2. QED
      BY <2>3, <3>1 DEF Known
  <2>4. QED
    BY <1>1, <2>1, <2>3 DEF TimesTrue
<1>6. ASSUME NEW t \in Tables, RunStage(t)
      PROVE  TimesTrue'
  <2>1. UNCHANGED <<births, published, slot, store, held>>
    BY <1>6 DEF RunStage, machine, service
  <2>2. \/ cached' = cached
        \/ \E owner \in {0, Len(births)} : cached' = [cached EXCEPT ![t] = [owner |-> owner, gen |-> gen]]
    BY <1>6 DEF RunStage
  <2>3. {0, Len(births)} \subseteq 0..Len(births)
    BY Clocks
  <2>4. \A u \in Tables : cached'[u].owner \in 0..Len(births)
    BY <1>1, <1>2, <2>2, <2>3 DEF Known
  <2>5. Known(cached', Len(births))
    BY <2>4 DEF Known
  <2>6. QED
    BY <1>1, <2>1, <2>5 DEF TimesTrue
<1>7. CASE PublishPass
  <2>1. UNCHANGED <<births, cached, store, held>>
    BY <1>7 DEF PublishPass, machine, service
  <2>2. /\ slot'.tables = cached /\ slot'.gen = gen /\ slot'.at = now
        /\ published' = Append(published, now) /\ gen > slot.gen
    BY <1>7 DEF PublishPass
  <2>3. /\ Len(published') = Len(published) + 1 /\ published'[Len(published) + 1] = now
        /\ \A i \in 1..Len(published) : published'[i] = published[i]
    BY <2>2, Clocks
  <2>4. gen = Len(published) + 1 /\ gen \in 1..Len(published) + 1
    <3>1. slot.gen \in {gen - 1, gen} /\ gen \in Nat /\ slot.gen = Len(published) /\ Len(published) \in Nat
      BY Generations, Clocks DEF TypeInv, TypeOK
    <3>2. QED
      BY <2>2, <3>1
  <2>5. Timed(slot', published')
    BY <2>2, <2>3, <2>4 DEF Timed, TimeOf
  <2>6. ASSUME NEW g, NEW n, TimeOf(g, n, published)
        PROVE  TimeOf(g, n, published')
    <3>1. 1..Len(published) \subseteq 1..Len(published')
      BY <2>3, Clocks
    <3>2. QED
      BY <2>3, <2>6, <3>1 DEF TimeOf
  <2>7. \A a \in Actors : Timed(held[a], published')
    BY <1>1, <2>6 DEF Timed
  <2>8. QED
    BY <1>1, <2>1, <2>2, <2>5, <2>6, <2>7 DEF TimesTrue
<1>8. ASSUME NEW a \in Actors, Take(a)
      PROVE  TimesTrue'
  <2>1. UNCHANGED <<births, published, cached, slot, store>>
    BY <1>8 DEF Take, machine, collector
  <2>2. \A b \in Actors : held'[b] = held[b] \/ held'[b] = slot
    BY <1>2, <1>8 DEF Take
  <2>3. \A b \in Actors : Known(held'[b].tables, Len(births)) /\ Timed(held'[b], published)
    BY <1>1, <2>2
  <2>4. QED
    BY <1>1, <2>1, <2>3 DEF TimesTrue
<1>9. ASSUME NEW a \in Actors, Ingest(a)
      PROVE  TimesTrue'
  <2>1. UNCHANGED <<births, published, cached, slot>>
    BY <1>9 DEF Ingest, machine, collector
  <2>2. \A b \in Actors : held'[b] = held[b] \/ held'[b] = NoSnapshot
    BY <1>2, <1>9 DEF Ingest
  <2>3. Known(NoSnapshot.tables, Len(births)) /\ Timed(NoSnapshot, published)
    <3>1. NoSnapshot.gen = 0 /\ \A t \in Tables : NoSnapshot.tables[t].owner = 0
      BY DEF NoSnapshot, NoTable
    <3>2. 0 \in 0..Len(births)
      BY Clocks
    <3>3. QED
      BY <3>1, <3>2 DEF Known, Timed
  <2>4. \A b \in Actors : Known(held'[b].tables, Len(births)) /\ Timed(held'[b], published)
    BY <1>1, <2>2, <2>3
  <2>5. /\ Known(store'.tables, Len(births))
        /\ \A t \in Tables : store'.stamps[t] # None =>
                             TimeOf(store'.stamps[t].gen, store'.stamps[t].at, published)
    <3>1. CASE held[a].gen <= store.gen
      <4>1. store' = store
        BY <1>9, <3>1 DEF Ingest
      <4>2. QED
        BY <1>1, <4>1
    <3>2. CASE ~(held[a].gen <= store.gen)
      <4>1. store' = Stored(held[a])
        BY <1>9, <3>2 DEF Ingest
      <4>2. /\ store'.tables = held[a].tables
            /\ \A t \in Tables : store'.stamps[t] =
                  IF IsFresh(held[a], t) THEN [at |-> held[a].at, gen |-> held[a].gen]
                  ELSE store.stamps[t]
        BY <4>1, Generations, StoredType DEF TypeInv
      <4>3. held[a].gen # 0
        BY <3>2, Generations
      <4>4. TimeOf(held[a].gen, held[a].at, published)
        BY <1>1, <4>3 DEF Timed
      <4>5. ASSUME NEW t \in Tables, store'.stamps[t] # None
            PROVE  TimeOf(store'.stamps[t].gen, store'.stamps[t].at, published)
        <5>1. CASE IsFresh(held[a], t)
          <6>1. store'.stamps[t].gen = held[a].gen /\ store'.stamps[t].at = held[a].at
            BY <4>2, <5>1
          <6>2. QED
            BY <4>4, <6>1
        <5>2. CASE ~IsFresh(held[a], t)
          <6>1. store'.stamps[t] = store.stamps[t]
            BY <4>2, <5>2
          <6>2. QED
            BY <1>1, <4>5, <6>1
        <5>3. QED
          BY <5>1, <5>2
      <4>6. QED
        BY <1>1, <4>2, <4>5
    <3>3. QED
      BY <3>1, <3>2
  <2>6. QED
    BY <1>1, <2>1, <2>4, <2>5 DEF TimesTrue
<1>10. QED
  BY <1>4, <1>5, <1>6, <1>7, <1>8, <1>9 DEF Next

\* A process whose connections are called verified was there by the end of the second in
\* which the pass that read them was over, with its start time a second early or not.
THEOREM VerifiedProcessWasBorn == Spec => []VerifiedWasBorn
<1>1. ASSUME TypeInv, ClockTrue, TimesTrue, TablesInOrder, StampsNotFresher
      PROVE  VerifiedWasBorn
  <2> DEFINE owner == store.tables["process"].owner
             conns == store.tables["connection"]
             stamp == store.stamps["connection"]
  <2>1. SUFFICES ASSUME stamp # None, births[owner].start + 1 <= stamp.at, owner # 0
                 PROVE  births[owner].at <= published[conns.gen]
    BY DEF VerifiedWasBorn, IsVerified, Verified
  <2>2. "connection" \in Tables /\ "process" \in Tables
    BY DEF Tables
  <2>3. owner \in 1..Len(births)
    <3>1. owner \in 0..Len(births)
      BY <1>1, <2>2 DEF TimesTrue, Known
    <3>2. QED
      BY <1>1, <2>1, <3>1, Clocks
  <2>4. /\ births[owner].at <= births[owner].start + 1
        /\ births[owner].at \in Nat /\ births[owner].start \in Nat
    BY <1>1, <2>3, Clocks DEF ClockTrue
  <2>5. stamp.gen \in 1..Len(published) /\ stamp.at = published[stamp.gen] /\ stamp.at \in Nat
    <3>1. stamp.gen \in 1..Len(published) /\ stamp.at = published[stamp.gen]
      BY <1>1, <2>1, <2>2 DEF TimesTrue, TimeOf
    <3>2. QED
      BY <1>1, <3>1, Clocks
  <2>6. stamp.gen <= conns.gen
    BY <1>1, <2>1, <2>2 DEF StampsNotFresher
  <2>7. conns.gen \in 1..Len(published)
    <3>1. conns.gen \in Nat /\ conns.gen <= store.gen /\ store.gen <= slot.gen /\ slot.gen = Len(published)
          /\ store.gen \in Nat /\ Len(published) \in Nat
      BY <1>1, <2>2, Generations, Clocks DEF TablesInOrder, NotLater
    <3>2. stamp.gen \in Nat /\ stamp.gen >= 1
      BY <1>1, <2>5, Clocks
    <3>3. QED
      BY <2>6, <3>1, <3>2
  <2>8. published[stamp.gen] <= published[conns.gen] /\ published[conns.gen] \in Nat
    BY <1>1, <2>5, <2>6, <2>7, Clocks DEF ClockTrue
  <2>9. PICK a, b, c, d : a = births[owner].at /\ b = births[owner].start /\ c = stamp.at /\ d = published[conns.gen]
    OBVIOUS
  <2>10. {a, b, c, d} \subseteq Nat /\ a <= b + 1 /\ b + 1 <= c /\ c <= d
    BY <2>1, <2>4, <2>5, <2>8, <2>9
  <2>11. a <= d
    BY <2>10
  <2>12. QED
    BY <2>9, <2>11
<1>2. TypeInv /\ ClockTrue /\ TimesTrue /\ TablesInOrder /\ StampsNotFresher => VerifiedWasBorn
  BY <1>1
<1>3. QED
  BY <1>2, TypesBegin, TypesKept, TimesBegin, ClockKept, TimesKept, OrderBegins, OrderKept, PTL DEF Spec
=============================================================================
