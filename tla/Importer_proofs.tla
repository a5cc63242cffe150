-------------------------- MODULE Importer_proofs --------------------------
(***************************************************************************)
(* What TLAPS proves of the agents import, for every number of producers and *)
(* every timing.  Types, watermarks and saves need no exclusion, and hold   *)
(* for any number of windows; that imports exclude each other is proved for *)
(* two, and is false for three.                                             *)
(***************************************************************************)
EXTENDS Importer, FiniteSetTheorems, TLAPS

\* A window inside an import has a producer.
Importing(w) ==
    \/ wpc[w] \in {"run", "read"}
    \/ wpc[w] \in InSave /\ then[w] = "run"
Producing == \A w \in Windows : Importing(w) => producer[w] \in Producers
TypeInv == TypeOK /\ Producing

\* Imports begin, and sessions are written, in the past.
InThePast ==
    /\ \A w \in Windows : started[w] <= now
    /\ \A p \in Producers : mtime[p] <= now

\* A write that an import owes; a cache that would have it selected, whenever it is loaded.
Pending(p) == unread[p] /\ ~waived[p]
UpTo(c, p, t) == c[p].watermark # None => c[p].watermark <= t
Selects(c) ==
    c \in Caches => \A p \in Producers : UpTo(c, p, now) /\ (Pending(p) => UpTo(c, p, mtime[p]))
AllSelect == Selects(disk) /\ Selects(tmp) /\ \A w \in Windows : Selects(mem[w])

\* What is still owed once ironobs has read was written after the import began.
ReadAfterStart ==
    \A w \in Windows : wpc[w] = "read" /\ Pending(producer[w]) => started[w] <= mtime[producer[w]]

WatermarkInv == TypeInv /\ InThePast /\ AllSelect /\ ReadAfterStart

\* Without overlap one window at a time has the temporary file, and renames a whole one.
Saving(w) == wpc[w] \in {"write", "rename"}
SavesAlone == ~overlap =>
    /\ \A w, v \in Windows : Saving(w) /\ Saving(v) => w = v
    /\ \A w \in Windows : (wpc[w] = "write" => file[w] = "tmp") /\ (wpc[w] = "rename" => tmp # Torn)
    /\ disk # Torn

-----------------------------------------------------------------------------

LEMMA Constants ==
    /\ NP \in Nat \ {0} /\ {Deadline, Stale, Gap, Margin, FirstWindow} \subseteq Nat
    /\ None \notin Nat /\ Torn # None /\ Torn \notin Caches /\ None \notin Caches
    /\ 1 \in Producers /\ NP + 1 \notin Producers
    /\ \A p \in Producers : p \in Nat /\ p + 1 \in Producers \cup {NP + 1}
BY ImporterAssumption, ContentAssumption DEF Producers

LEMMA NoCacheOK == NoCache \in Caches /\ \A p \in Producers : NoCache[p].watermark = None
BY DEF NoCache, Caches, Times

WithWatermark(m, w, p, t) == [m EXCEPT ![w][p].watermark = t]
WithFirst(m, w, p, t) == [m EXCEPT ![w][p].first = t]

(* What an assignment to a field of one window's cache leaves.              *)
LEMMA SetWatermark ==
    ASSUME NEW m \in [Windows -> Caches], NEW w \in Windows, NEW p \in Producers, NEW t \in Times
    PROVE  /\ WithWatermark(m, w, p, t) \in [Windows -> Caches]
           /\ \A v \in Windows \ {w} : WithWatermark(m, w, p, t)[v] = m[v]
           /\ \A q \in Producers :
                 WithWatermark(m, w, p, t)[w][q].watermark = IF q = p THEN t ELSE m[w][q].watermark
<1>1. m[w] \in Caches /\ m[w][p] \in [watermark : Times, first : Times]
  BY DEF Caches
<1>2. [m[w][p] EXCEPT !.watermark = t] \in [watermark : Times, first : Times]
      /\ [m[w][p] EXCEPT !.watermark = t].watermark = t
  BY <1>1
<1>3. [m[w] EXCEPT ![p] = [m[w][p] EXCEPT !.watermark = t]] \in Caches
  BY <1>1, <1>2 DEF Caches
<1>4. WithWatermark(m, w, p, t)
         = [m EXCEPT ![w] = [m[w] EXCEPT ![p] = [m[w][p] EXCEPT !.watermark = t]]]
  BY DEF WithWatermark
<1>5. QED
  BY <1>1, <1>2, <1>3, <1>4 DEF Caches

LEMMA SetFirst ==
    ASSUME NEW m \in [Windows -> Caches], NEW w \in Windows, NEW p \in Producers, NEW t \in Times
    PROVE  /\ WithFirst(m, w, p, t) \in [Windows -> Caches]
           /\ \A v \in Windows \ {w} : WithFirst(m, w, p, t)[v] = m[v]
           /\ \A q \in Producers : WithFirst(m, w, p, t)[w][q].watermark = m[w][q].watermark
<1>1. m[w] \in Caches /\ m[w][p] \in [watermark : Times, first : Times]
  BY DEF Caches
<1>2. [m[w][p] EXCEPT !.first = t] \in [watermark : Times, first : Times]
      /\ [m[w][p] EXCEPT !.first = t].watermark = m[w][p].watermark
  BY <1>1
<1>3. [m[w] EXCEPT ![p] = [m[w][p] EXCEPT !.first = t]] \in Caches
  BY <1>1, <1>2 DEF Caches
<1>4. WithFirst(m, w, p, t)
         = [m EXCEPT ![w] = [m[w] EXCEPT ![p] = [m[w][p] EXCEPT !.first = t]]]
  BY DEF WithFirst
<1>5. QED
  BY <1>1, <1>2, <1>3, <1>4 DEF Caches

(* The caches an import's begin and end leave in its window.                *)
LEMMA FirstIsKept ==
    ASSUME TypeInv, NEW w \in Windows, BeginImport(w)
    PROVE  /\ mem' \in [Windows -> Caches] /\ \A v \in Windows \ {w} : mem'[v] = mem[v]
           /\ \A q \in Producers : mem'[w][q].watermark = mem[w][q].watermark
<1> DEFINE p == producer[w]
           f == IF mem[w][p].watermark = None /\ mem[w][p].first = None
                THEN Before(now, FirstWindow) ELSE mem[w][p].first
<1>1. p \in Producers /\ mem \in [Windows -> Caches]
  BY Constants DEF TypeInv, TypeOK, BeginImport, Producers
<1>2. f \in Times
  BY <1>1, Constants DEF Before, Times, TypeInv, TypeOK, Caches
<1>3. mem' = [mem EXCEPT ![w][p].first = f]
  BY DEF BeginImport
<1> HIDE DEF f, p
<1>4. QED
  <2>1. mem \in [Windows -> Caches] /\ p \in Producers /\ f \in Times
    BY <1>1, <1>2
  <2>2. mem' = WithFirst(mem, w, p, f)
    BY <1>3 DEF WithFirst
  <2> HIDE DEF p
  <2>3. QED
    BY <2>1, <2>2, SetFirst

LEMMA WatermarkMoves ==
    ASSUME TypeInv, NEW w \in Windows, ImportEnds(w)
    PROVE  /\ mem' \in [Windows -> Caches] /\ \A v \in Windows \ {w} : mem'[v] = mem[v]
           /\ \A q \in Producers :
                 \/ mem'[w][q].watermark = mem[w][q].watermark
                 \/ q = producer[w] /\ mem'[w][q].watermark <= started[w]
<1> DEFINE p == producer[w]
           t == Advanced(w, mem[w][p].watermark)
<1>1. p \in Producers /\ mem \in [Windows -> Caches] /\ started[w] \in Nat
      /\ mem[w][p].watermark \in Times
  BY DEF TypeInv, Producing, Importing, TypeOK, ImportEnds, Caches
<1>2. NewWatermark(w) \in Nat /\ NewWatermark(w) <= started[w]
  BY <1>1, Constants DEF NewWatermark, Before
<1>3. t \in Times /\ (t = mem[w][p].watermark \/ t <= started[w])
  BY <1>1, <1>2 DEF Advanced, Times
<1>4. mem' = [mem EXCEPT ![w][p].watermark = t]
  BY DEF ImportEnds
<1> HIDE DEF t
<1>5. /\ mem' \in [Windows -> Caches] /\ \A v \in Windows \ {w} : mem'[v] = mem[v]
      /\ \A q \in Producers : mem'[w][q].watermark = IF q = p THEN t ELSE mem[w][q].watermark
  <2>1. mem \in [Windows -> Caches] /\ p \in Producers /\ t \in Times
    BY <1>1, <1>3
  <2>2. mem' = WithWatermark(mem, w, p, t)
    BY <1>4 DEF WithWatermark
  <2> HIDE DEF p
  <2>3. QED
    BY <2>1, <2>2, SetWatermark
<1>6. QED
  BY <1>3, <1>5

-----------------------------------------------------------------------------
(* Types                                                                    *)

LEMMA TypesAtFirst == Init => TypeInv
<1>1. NoCache \in Caches
  BY NoCacheOK
<1>2. SUFFICES ASSUME Init PROVE TypeOK /\ Producing
  BY DEF TypeInv
<1>3. unread \in [Producers -> BOOLEAN] /\ waived \in [Producers -> BOOLEAN] /\ overlap \in BOOLEAN
  BY <1>2, Zenon DEF Init
<1>4. Producing
  BY <1>2 DEF Init, Producing, Importing, InSave
<1>5. QED
  BY <1>1, <1>2, <1>3, <1>4, Constants DEF Init, TypeOK, Times

LEMMA TypesKept == TypeInv /\ [Next]_vars => TypeInv'
<1> SUFFICES ASSUME TypeInv, [Next]_vars PROVE TypeInv'
  OBVIOUS
<1> USE Constants DEF TypeInv, Producing
<1>0. TypeOK /\ Producing
  OBVIOUS
<1>1. ASSUME NEW w \in Windows, Start(w) PROVE TypeInv'
  <2>1. Load(disk) \in Caches /\ mem' \in [Windows -> Caches]
    BY <1>1, NoCacheOK DEF Load, TypeOK, Start
  <2>2. due' \in [Windows -> Nat]
    BY <1>1 DEF TypeOK, Start
  <2>3. QED
    BY <1>1, <2>1, <2>2 DEF Start, TypeOK, Importing, InSave, Goto, files, source
<1>2. ASSUME NEW w \in Windows, ScanSave(w) \/ EndCycle(w) \/ Skip(w) PROVE TypeInv'
  BY <1>2, ImporterAssumption
     DEF ScanSave, EndCycle, Skip, NextProducer, SaveThen, TypeOK, Importing, InSave, Goto, files, source
<1>3. ASSUME NEW w \in Windows, Open(w) PROVE TypeInv'
  <2>1. overlap' \in BOOLEAN
    <3>1. overlap \in BOOLEAN
      BY DEF TypeOK
    <3>2. QED
      BY <1>3, <3>1, Zenon DEF Open
  <2>2. {disk', tmp'} \subseteq Caches \cup {Torn, None} /\ file' \in [Windows -> {"tmp", "disk", "gone"}]
    BY <1>3 DEF Open, TypeOK
  <2>3. /\ wpc' \in [Windows -> {"off", "idle", "found", "remove", "retry",
                                 "begin", "run", "read", "drop"} \cup InSave]
        /\ then' \in [Windows -> {"idle", "run", "begin", "drop"}]
        /\ \A v \in Windows : Importing(v)' => Importing(v)
    BY <1>3 DEF Open, SaveEnds, TypeOK, Importing, InSave, Goto
  <2>4. UNCHANGED <<now, lockFile, disk, mem, due, producer, started, source, crashes, faults, scans>>
    BY <1>3 DEF Open
  <2>5. QED
    BY <2>1, <2>2, <2>3, <2>4 DEF TypeOK, source
<1>4. ASSUME NEW w \in Windows, Write(w) PROVE TypeInv'
  <2>1. {disk', tmp'} \subseteq Caches \cup {Torn, None}
    BY <1>4 DEF Write, TypeOK
  <2>2. QED
    BY <1>4, <2>1 DEF Write, SaveEnds, TypeOK, Importing, InSave, Goto, source
<1>5. ASSUME NEW w \in Windows, Rename(w) PROVE TypeInv'
  <2>1. {disk', tmp'} \subseteq Caches \cup {Torn, None} /\ file' \in [Windows -> {"tmp", "disk", "gone"}]
    BY <1>5 DEF Rename, TypeOK
  <2>2. QED
    BY <1>5, <2>1 DEF Rename, SaveEnds, TypeOK, Importing, InSave, Goto, source
<1>6. ASSUME NEW w \in Windows, Lock(w) PROVE TypeInv'
  <2>1. CASE LockState(w) \/ RemoveStale(w) \/ DropLock(w)
    BY <2>1 DEF LockState, RemoveStale, DropLock, RemoveLock, Fault, Postpone, TypeOK, Times, Importing, InSave, Goto, source
  <2>2. CASE TryLock(w) \/ RetryLock(w)
    BY <2>2 DEF TryLock, RetryLock, Locked, Postpone, TypeOK, Times, Importing, InSave, Goto, source
  <2>3. QED
    BY <1>6, <2>1, <2>2 DEF Lock
<1>7. ASSUME NEW w \in Windows, BeginImport(w) PROVE TypeInv'
  <2>1. mem' \in [Windows -> Caches]
    BY <1>7, FirstIsKept
  <2>2. producer[w] \in Producers
    BY <1>7 DEF BeginImport, TypeOK, Producers
  <2>3. QED
    BY <1>7, <2>1, <2>2 DEF BeginImport, SaveThen, TypeOK, Importing, InSave, Goto, files, source
<1>8. ASSUME NEW w \in Windows, Import(w) PROVE TypeInv'
  <2>1. producer[w] \in Producers
    BY <1>8 DEF Import, Importing
  <2>2. unread' \in [Producers -> BOOLEAN] /\ waived' \in [Producers -> BOOLEAN]
    BY <1>8, <2>1, Zenon DEF Import, TypeOK
  <2>3. wpc' = [wpc EXCEPT ![w] = "read"]
        /\ UNCHANGED <<now, files, mem, due, then, file, producer, started, mtime, crashes, faults, scans, overlap>>
    BY <1>8 DEF Import, Goto
  <2>4. QED
    BY <2>1, <2>2, <2>3 DEF TypeOK, Importing, InSave, files
<1>9. ASSUME NEW w \in Windows, ImportEnds(w) \/ ImportFails(w) PROVE TypeInv'
  <2>1. mem' \in [Windows -> Caches]
    BY <1>9, WatermarkMoves DEF ImportFails, TypeOK
  <2>2. producer[w] \in Producers /\ RunOver(w)
    BY <1>9 DEF ImportEnds, ImportFails, Importing
  <2>3. QED
    BY <2>1, <2>2 DEF RunOver, NextProducer, SaveThen, TypeOK, Importing, InSave, Goto, files, source
<1>10. ASSUME NEW w \in Windows, Crash(w) PROVE TypeInv'
  BY <1>10, NoCacheOK DEF Crash, TypeOK, Importing, InSave, Goto, files, source
<1>11. ASSUME NEW p \in Producers, Work(p) PROVE TypeInv'
  BY <1>11 DEF Work, TypeOK, Importing, files, locals
<1>12. CASE Tick
  BY <1>12 DEF Tick, TypeOK, Importing, files, locals, source
<1>13. CASE UNCHANGED vars
  BY <1>13 DEF TypeOK, Importing, vars, files, locals, source
<1>14. QED
  BY <1>1, <1>2, <1>3, <1>4, <1>5, <1>6, <1>7, <1>8, <1>9, <1>10, <1>11, <1>12, <1>13
     DEF Next, Window, Save, Cycle

(* The windows' state, their files and the sources are always of their      *)
(* types, and an import always has a producer (run_cycle).                  *)
THEOREM ImporterTypes == Spec => []TypeOK
<1>1. TypeInv => TypeOK
  BY DEF TypeInv
<1>2. QED
  BY <1>1, TypesAtFirst, TypesKept, PTL DEF Spec

-----------------------------------------------------------------------------
(* Watermarks                                                               *)

\* What a step makes of the sessions: one is owed that was before, or is written now.
SessionsMove ==
    \A p \in Producers : Pending(p)' => mtime'[p] = now \/ (Pending(p) /\ mtime'[p] = mtime[p])
SelectsNext(c) ==
    c \in Caches =>
       \A p \in Producers : UpTo(c, p, now') /\ (Pending(p)' => UpTo(c, p, mtime'[p]))

(* A cache that selected every owed write still does.                       *)
LEMMA StillSelects ==
    ASSUME TypeOK, now' \in Nat, now' >= now, SessionsMove
    PROVE  \A c : Selects(c) => SelectsNext(c)
<1> SUFFICES ASSUME NEW c \in Caches, Selects(c), NEW p \in Producers
             PROVE  UpTo(c, p, now') /\ (Pending(p)' => UpTo(c, p, mtime'[p]))
  BY DEF SelectsNext
<1>1. UpTo(c, p, now) /\ (Pending(p) => UpTo(c, p, mtime[p]))
  BY DEF Selects
<1>2. c[p].watermark \in Nat \cup {None} /\ now \in Nat
  BY DEF Caches, Times, TypeOK
<1>3. Pending(p)' => mtime'[p] = now \/ (Pending(p) /\ mtime'[p] = mtime[p])
  BY DEF SessionsMove
<1> HIDE DEF Pending
<1>4. QED
  BY <1>1, <1>2, <1>3 DEF UpTo

LEMMA EmptySelects == TypeOK' => SelectsNext(NoCache)
BY NoCacheOK DEF SelectsNext, UpTo

(* An import leaves nothing owed of its producer: it read it, reported that *)
(* it could not, or the window's cache had not selected it.                 *)
LEMMA ImportPays ==
    ASSUME WatermarkInv, NEW w \in Windows, Import(w)
    PROVE  /\ producer[w] \in Producers
           /\ \A q \in Producers : Pending(q)' => q # producer[w] /\ Pending(q)
<1> DEFINE p == producer[w]
           r == mem[w][p]
           selected == mtime[p] >= Since(r)
<1>1. p \in Producers
  BY DEF Import, Importing, WatermarkInv, TypeInv, Producing
<1>2. unread \in [Producers -> BOOLEAN] /\ waived \in [Producers -> BOOLEAN]
  BY DEF WatermarkInv, TypeInv, TypeOK
<1>3. \/ /\ unread' = [unread EXCEPT ![p] = @ /\ ~selected]
         /\ waived' = [waived EXCEPT ![p] = @ \/ (unread[p] /\ ~selected /\ r.watermark = None)]
      \/ /\ waived' = [waived EXCEPT ![p] = unread[p]]
         /\ unread' = unread
  BY DEF Import
<1>4. Pending(p) /\ r.watermark # None => selected
  <2>1. mem[w] \in Caches /\ Selects(mem[w]) /\ mtime[p] \in Nat
    BY <1>1 DEF WatermarkInv, AllSelect, TypeInv, TypeOK
  <2>2. Pending(p) => UpTo(mem[w], p, mtime[p])
    BY <1>1, <2>1 DEF Selects
  <2>3. r.watermark \in Nat \cup {None}
    BY <1>1, <2>1 DEF Caches, Times
  <2> HIDE DEF Pending, p
  <2>4. QED
    BY <2>1, <2>2, <2>3 DEF UpTo, Since
<1>5. ~(unread'[p] /\ ~waived'[p])
  <2> HIDE DEF selected, p, r
  <2>1. CASE waived' = [waived EXCEPT ![p] = unread[p]] /\ unread' = unread
    <3>1. waived'[p] = unread[p] /\ unread'[p] = unread[p]
      BY <1>1, <1>2, <2>1, Zenon
    <3>2. QED
      BY <3>1, Zenon
  <2>2. CASE /\ unread' = [unread EXCEPT ![p] = @ /\ ~selected]
             /\ waived' = [waived EXCEPT ![p] = @ \/ (unread[p] /\ ~selected /\ r.watermark = None)]
    <3>1. unread'[p] = (unread[p] /\ ~selected)
          /\ waived'[p] = (waived[p] \/ (unread[p] /\ ~selected /\ r.watermark = None))
      BY <1>1, <1>2, <2>2, Zenon
    <3>2. QED
      BY <3>1, <1>4, Zenon DEF Pending
  <2>3. QED
    BY <1>3, <2>1, <2>2
<1>6. ASSUME NEW q \in Producers, Pending(q)' PROVE q # p /\ Pending(q)
  <2> HIDE DEF selected, p, r
  <2>1. q # p
    BY <1>5, <1>6 DEF Pending
  <2>2. unread'[q] = unread[q] /\ waived'[q] = waived[q]
    BY <1>2, <1>3, <1>6, <2>1, Zenon
  <2>3. QED
    BY <1>6, <2>1, <2>2 DEF Pending
<1>7. QED
  BY <1>1, <1>5, <1>6

LEMMA SessionsStep ==
    ASSUME WatermarkInv, [Next]_vars
    PROVE  now' \in Nat /\ now' >= now /\ SessionsMove /\ \A p \in Producers : mtime'[p] <= now'
<1>1. /\ now \in Nat /\ mtime \in [Producers -> Nat] /\ \A p \in Producers : mtime[p] <= now
  BY DEF WatermarkInv, TypeInv, TypeOK, InThePast
<1>2. ASSUME now' = now \/ now' = now + 1, UNCHANGED source
      PROVE  now' \in Nat /\ now' >= now /\ SessionsMove /\ \A p \in Producers : mtime'[p] <= now'
  <2>1. SessionsMove
    BY <1>2 DEF SessionsMove, source, Pending
  <2>2. QED
    BY <1>1, <1>2, <2>1 DEF source
<1>3. ASSUME NEW p \in Producers, Work(p)
      PROVE  now' \in Nat /\ now' >= now /\ SessionsMove /\ \A q \in Producers : mtime'[q] <= now'
  <2>1. /\ now' = now /\ mtime' = [mtime EXCEPT ![p] = now]
        /\ unread' = [unread EXCEPT ![p] = TRUE] /\ waived' = [waived EXCEPT ![p] = FALSE]
    BY <1>3 DEF Work
  <2>2. ASSUME NEW q \in Producers, Pending(q)'
        PROVE  mtime'[q] = now \/ (Pending(q) /\ mtime'[q] = mtime[q])
    <3>1. unread \in [Producers -> BOOLEAN] /\ waived \in [Producers -> BOOLEAN]
      BY DEF WatermarkInv, TypeInv, TypeOK
    <3>2. CASE q = p
      BY <1>1, <2>1, <3>2
    <3>3. CASE q # p
      BY <1>1, <2>1, <2>2, <3>1, <3>3 DEF Pending
    <3>4. QED
      BY <3>2, <3>3
  <2>3. QED
    BY <1>1, <2>1, <2>2 DEF SessionsMove
<1>4. ASSUME NEW w \in Windows, Import(w)
      PROVE  now' \in Nat /\ now' >= now /\ SessionsMove /\ \A p \in Producers : mtime'[p] <= now'
  <2>1. now' = now /\ mtime' = mtime
    BY <1>4 DEF Import
  <2>2. SessionsMove
    BY <1>4, <2>1, ImportPays DEF SessionsMove
  <2>3. QED
    BY <1>1, <2>1, <2>2
<1>5. CASE Tick
  BY <1>2, <1>5 DEF Tick
<1>6. CASE UNCHANGED vars
  BY <1>2, <1>6 DEF vars
<1>7. ASSUME NEW w \in Windows, Window(w), ~Import(w) PROVE UNCHANGED <<now, source>>
  BY <1>7 DEF Window, Start, ScanSave, Save, Open, Write, Rename, Lock, TryLock, LockState, RemoveStale,
              RetryLock, DropLock, Cycle, Skip, EndCycle, BeginImport, ImportEnds, ImportFails, RunOver, Crash
<1>8. QED
  BY <1>2, <1>3, <1>4, <1>5, <1>6, <1>7 DEF Next

(* A step that copies caches only, or forgets one.                          *)
LEMMA CopiesSelect ==
    ASSUME AllSelect, \A c : Selects(c) => SelectsNext(c), TypeOK', mem' \in [Windows -> Caches],
           {disk', tmp'} \subseteq {disk, tmp, None, Torn} \cup {mem[w] : w \in Windows},
           \A w \in Windows : mem'[w] \in {mem[w], disk, NoCache}
    PROVE  AllSelect'
<1>1. SelectsNext(disk) /\ SelectsNext(tmp) /\ \A w \in Windows : SelectsNext(mem[w])
  BY DEF AllSelect
<1>2. SelectsNext(None) /\ SelectsNext(Torn) /\ SelectsNext(NoCache)
  BY EmptySelects, Constants DEF SelectsNext
<1>3. SelectsNext(disk') /\ SelectsNext(tmp')
  BY <1>1, <1>2
<1>4. \A w \in Windows : SelectsNext(mem'[w])
  BY <1>1, <1>2
<1>5. QED
  BY <1>3, <1>4 DEF AllSelect, Selects, SelectsNext

LEMMA CachesStep ==
    ASSUME WatermarkInv, [Next]_vars, TypeOK'
    PROVE  AllSelect'
<1>0. /\ AllSelect /\ TypeOK /\ mem' \in [Windows -> Caches] /\ mem \in [Windows -> Caches]
      /\ now' \in Nat /\ now' >= now
  BY SessionsStep DEF WatermarkInv, TypeInv, TypeOK
<1>1. \A c : Selects(c) => SelectsNext(c)
  BY <1>0, SessionsStep, StillSelects DEF WatermarkInv
<1>2. ASSUME UNCHANGED <<disk, tmp, mem>> PROVE AllSelect'
  BY <1>0, <1>1, <1>2, CopiesSelect
<1>3. ASSUME NEW w \in Windows, Start(w) \/ Crash(w) PROVE AllSelect'
  <2>1. \A v \in Windows : mem'[v] \in {mem[v], disk, NoCache}
    BY <1>0, <1>3 DEF Start, Crash, Load
  <2>2. disk' = disk /\ tmp' = tmp
    BY <1>3 DEF Start, Crash, files
  <2>3. QED
    BY <1>0, <1>1, <2>1, <2>2, CopiesSelect
<1>4. ASSUME NEW w \in Windows, Save(w) PROVE AllSelect'
  <2>1. {disk', tmp'} \subseteq {disk, tmp, None, Torn, mem[w]} /\ mem' = mem
    BY <1>4 DEF Save, Open, Write, Rename
  <2>2. QED
    BY <1>0, <1>1, <2>1, CopiesSelect
<1>5. ASSUME NEW w \in Windows, BeginImport(w) PROVE AllSelect'
  <2>1. /\ \A v \in Windows \ {w} : mem'[v] = mem[v]
        /\ \A q \in Producers : mem'[w][q].watermark = mem[w][q].watermark
    BY <1>5, FirstIsKept DEF WatermarkInv
  <2>2. SelectsNext(mem[w]) /\ mem[w] \in Caches
    BY <1>0, <1>1 DEF AllSelect
  <2>3. SelectsNext(mem'[w])
    BY <2>1, <2>2 DEF SelectsNext, UpTo
  <2>4. \A v \in Windows : SelectsNext(mem'[v])
    BY <1>0, <1>1, <2>1, <2>3 DEF AllSelect
  <2>5. SelectsNext(disk') /\ SelectsNext(tmp')
    BY <1>0, <1>1, <1>5 DEF AllSelect, BeginImport, files
  <2>6. QED
    BY <2>4, <2>5 DEF AllSelect, Selects, SelectsNext
<1>6. ASSUME NEW w \in Windows, ImportEnds(w) PROVE AllSelect'
  <2>1. /\ \A v \in Windows \ {w} : mem'[v] = mem[v]
        /\ \A q \in Producers :
              \/ mem'[w][q].watermark = mem[w][q].watermark
              \/ q = producer[w] /\ mem'[w][q].watermark <= started[w]
    BY <1>6, WatermarkMoves DEF WatermarkInv
  <2>2. SelectsNext(mem[w]) /\ mem[w] \in Caches /\ mem'[w] \in Caches
    BY <1>0, <1>1 DEF AllSelect
  <2>3. /\ started[w] \in Nat /\ started[w] <= now /\ now' = now /\ UNCHANGED source
        /\ Pending(producer[w]) => started[w] <= mtime[producer[w]]
        /\ now \in Nat /\ mtime \in [Producers -> Nat]
    BY <1>0, <1>6 DEF WatermarkInv, InThePast, ReadAfterStart, ImportEnds, RunOver, TypeOK
  <2>4. ASSUME NEW q \in Producers
        PROVE  UpTo(mem'[w], q, now') /\ (Pending(q)' => UpTo(mem'[w], q, mtime'[q]))
    <3>1. UpTo(mem[w], q, now') /\ (Pending(q)' => UpTo(mem[w], q, mtime'[q]))
      BY <2>2 DEF SelectsNext
    <3>2. CASE mem'[w][q].watermark = mem[w][q].watermark
      BY <3>1, <3>2 DEF UpTo
    <3>3. CASE q = producer[w] /\ mem'[w][q].watermark <= started[w]
      <4>1. mem'[w][q].watermark \in Nat \cup {None}
        BY <2>2 DEF Caches, Times
      <4>2. Pending(q)' <=> Pending(q)
        BY <2>3 DEF Pending, source
      <4>3. mtime'[q] = mtime[q] /\ mtime[q] \in Nat
        BY <2>3 DEF source
      <4> HIDE DEF Pending
      <4>4. QED
        BY <2>3, <3>3, <4>1, <4>2, <4>3 DEF UpTo
    <3>4. QED
      BY <2>1, <3>2, <3>3
  <2>5. \A v \in Windows : SelectsNext(mem'[v])
    BY <1>0, <1>1, <2>1, <2>4 DEF AllSelect, SelectsNext
  <2>6. SelectsNext(disk') /\ SelectsNext(tmp')
    BY <1>0, <1>1, <1>6 DEF AllSelect, ImportEnds, RunOver, files
  <2>7. QED
    BY <2>5, <2>6 DEF AllSelect, Selects, SelectsNext
<1>7. ASSUME NEW w \in Windows,
             ScanSave(w) \/ Lock(w) \/ Skip(w) \/ EndCycle(w) \/ Import(w) \/ ImportFails(w)
      PROVE  AllSelect'
  <2>1. UNCHANGED <<disk, tmp, mem>>
    BY <1>7 DEF ScanSave, Lock, TryLock, LockState, RemoveStale, RetryLock, DropLock, Skip, EndCycle,
                Import, ImportFails, RunOver, files
  <2>2. QED
    BY <1>2, <2>1
<1>8. ASSUME NEW p \in Producers, Work(p) PROVE AllSelect'
  BY <1>2, <1>8 DEF Work, files, locals
<1>9. CASE Tick \/ UNCHANGED vars
  BY <1>2, <1>9 DEF Tick, vars, files, locals
<1>10. QED
  BY <1>3, <1>4, <1>5, <1>6, <1>7, <1>8, <1>9 DEF Next, Window, Cycle

(* A window past its reading has just read, or was there before.            *)
LEMMA WhoHasRead ==
    ASSUME TypeOK, [Next]_vars, NEW v \in Windows, wpc'[v] = "read"
    PROVE  Import(v) \/ (wpc[v] = "read" /\ producer'[v] = producer[v] /\ started'[v] = started[v])
<1>1. ASSUME NEW w \in Windows, Window(w), ~Import(w)
      PROVE  wpc[v] = "read" /\ producer'[v] = producer[v] /\ started'[v] = started[v]
  <2>1. wpc = [u \in Windows |-> wpc[u]] /\ producer \in [Windows -> Producers \cup {NP + 1}]
        /\ started \in [Windows -> Nat] /\ then[w] # "read"
    BY DEF TypeOK, InSave
  <2>2. CASE Start(w) \/ ScanSave(w) \/ Crash(w)
    BY <1>1, <2>1, <2>2 DEF Start, ScanSave, Crash, SaveThen, Goto
  <2>3. CASE Save(w)
    BY <1>1, <2>1, <2>3 DEF Save, Open, Write, Rename, SaveEnds, Goto
  <2>4. CASE Lock(w)
    BY <1>1, <2>1, <2>4 DEF Lock, TryLock, LockState, RemoveStale, RetryLock, DropLock, Locked, Postpone, Goto
  <2>5. CASE Cycle(w)
    BY <1>1, <2>1, <2>5 DEF Cycle, Skip, EndCycle, BeginImport, ImportEnds, ImportFails, RunOver,
                            NextProducer, SaveThen, Goto
  <2>6. QED
    BY <1>1, <2>2, <2>3, <2>4, <2>5 DEF Window
<1>2. ASSUME NEW w \in Windows, Import(w), w # v
      PROVE  wpc[v] = "read" /\ producer'[v] = producer[v] /\ started'[v] = started[v]
  BY <1>2 DEF Import, Goto, TypeOK
<1>3. CASE Tick \/ (\E p \in Producers : Work(p)) \/ UNCHANGED vars
  BY <1>3 DEF Tick, Work, vars, locals
<1>4. QED
  BY <1>1, <1>2, <1>3 DEF Next

LEMMA WatermarksKept == WatermarkInv /\ [Next]_vars => WatermarkInv'
<1> SUFFICES ASSUME WatermarkInv, [Next]_vars PROVE WatermarkInv'
  OBVIOUS
<1>1. TypeInv' /\ TypeOK /\ TypeOK'
  BY TypesKept DEF WatermarkInv, TypeInv
<1>2. AllSelect'
  BY <1>1, CachesStep
<1>3. now' \in Nat /\ now' >= now /\ SessionsMove /\ \A p \in Producers : mtime'[p] <= now'
  BY SessionsStep
<1>4. InThePast'
  <2>1. ASSUME NEW w \in Windows PROVE started'[w] <= now'
    <3>1. started[w] \in Nat /\ now \in Nat /\ started[w] <= now
      BY <1>1 DEF TypeOK, WatermarkInv, InThePast
    <3>2. started'[w] \in {started[w], now, 0}
      <4>1. ASSUME NEW v \in Windows, Window(v) PROVE started'[w] \in {started[w], now, 0}
        BY <1>1, <4>1 DEF TypeOK, Window, Start, ScanSave, Save, Open, Write, Rename, Lock, TryLock, LockState,
              RemoveStale, RetryLock, DropLock, Cycle, Skip, EndCycle, BeginImport, Import, ImportEnds,
              ImportFails, RunOver, Crash
      <4>2. QED
        BY <4>1 DEF Next, Tick, Work, vars, locals
    <3>3. QED
      BY <1>3, <3>1, <3>2
  <2>2. QED
    BY <1>3, <2>1 DEF InThePast
<1>5. ReadAfterStart'
  <2>1. SUFFICES ASSUME NEW v \in Windows, wpc'[v] = "read", Pending(producer[v])'
                 PROVE  started'[v] <= mtime'[producer'[v]]
    BY DEF ReadAfterStart
  <2>2. producer'[v] \in Producers
    BY <1>1, <2>1 DEF TypeInv, Producing, Importing
  <2>3. ~Import(v)
    <3>1. SUFFICES ASSUME Import(v) PROVE FALSE
      OBVIOUS
    <3>2. producer' = producer
      BY <3>1 DEF Import
    <3>3. QED
      BY <2>1, <2>2, <3>1, <3>2, ImportPays DEF Pending
  <2>4. wpc[v] = "read" /\ producer'[v] = producer[v] /\ started'[v] = started[v]
    BY <1>1, <2>1, <2>3, WhoHasRead
  <2>5. mtime'[producer[v]] = now \/ (Pending(producer[v]) /\ mtime'[producer[v]] = mtime[producer[v]])
    BY <1>3, <2>1, <2>2, <2>4 DEF SessionsMove, Pending
  <2>6. started[v] <= now /\ (Pending(producer[v]) => started[v] <= mtime[producer[v]])
    BY <2>4 DEF WatermarkInv, InThePast, ReadAfterStart
  <2>7. QED
    BY <2>4, <2>5, <2>6
<1>6. QED
  BY <1>1, <1>2, <1>4, <1>5 DEF WatermarkInv

LEMMA WatermarksAtFirst == Init => WatermarkInv
<1> SUFFICES ASSUME Init PROVE WatermarkInv
  OBVIOUS
<1>1. TypeInv
  BY TypesAtFirst
<1>2. InThePast
  BY DEF Init, InThePast
<1>3. AllSelect
  <2>1. Selects(NoCache) /\ Selects(None)
    BY NoCacheOK, Constants DEF Selects, UpTo
  <2>2. disk = None /\ tmp = None /\ \A w \in Windows : mem[w] = NoCache
    BY DEF Init
  <2>3. QED
    BY <2>1, <2>2 DEF AllSelect
<1>4. ReadAfterStart
  BY DEF Init, ReadAfterStart
<1>5. QED
  BY <1>1, <1>2, <1>3, <1>4 DEF WatermarkInv

(* No session is skipped, by any number of windows with any number of       *)
(* producers and also when imports overlap: every write ironobs has not read *)
(* would be selected by each watermark in use or on disk (advance_watermark, *)
(* cache::load, cache::save).                                               *)
THEOREM SessionsSelected == Spec => []NoSessionSkipped
<1>1. WatermarkInv => NoSessionSkipped
  <2>1. SUFFICES ASSUME WatermarkInv, NEW p \in Producers, unread[p], ~waived[p]
                 PROVE  /\ \A w \in Windows : mem[w][p].watermark # None => mem[w][p].watermark <= mtime[p]
                        /\ disk \notin {None, Torn} /\ disk[p].watermark # None
                              => disk[p].watermark <= mtime[p]
    BY DEF NoSessionSkipped
  <2>2. AllSelect /\ disk \in Caches \cup {None, Torn} /\ mem \in [Windows -> Caches] /\ Pending(p)
    BY <2>1 DEF WatermarkInv, TypeInv, TypeOK, Pending
  <2>3. QED
    BY <2>2 DEF AllSelect, Selects, UpTo
<1>2. QED
  BY <1>1, WatermarksAtFirst, WatermarksKept, PTL DEF Spec

-----------------------------------------------------------------------------
(* Saves                                                                    *)

SavesInv == TypeInv /\ SavesAlone

LEMMA SavesKept == SavesInv /\ [Next]_vars => SavesInv'
<1> SUFFICES ASSUME SavesInv, [Next]_vars, ~overlap' PROVE SavesAlone'
  BY TypesKept DEF SavesInv, SavesAlone
<1>0. /\ TypeOK /\ TypeOK' /\ SavesAlone /\ wpc = [u \in Windows |-> wpc[u]]
      /\ file = [u \in Windows |-> file[u]]
      /\ Torn # None /\ \A w \in Windows : mem[w] # Torn /\ then[w] \notin {"write", "rename"}
  <2>1. TypeOK /\ TypeOK' /\ SavesAlone
    BY TypesKept DEF SavesInv, TypeInv
  <2>2. \A w \in Windows : mem[w] # Torn
    BY <2>1, Constants DEF TypeOK
  <2>3. QED
    BY <2>1, <2>2, Constants DEF TypeOK
<1>1. ASSUME NEW w \in Windows, Open(w) PROVE SavesAlone'
  <2>1. CASE UNCHANGED <<tmp, file, overlap>> /\ wpc' = [wpc EXCEPT ![w] = then[w]]
    BY <1>0, <1>1, <2>1 DEF Open, SavesAlone, Saving
  <2>2. CASE /\ file' = [file EXCEPT ![w] = "tmp"] /\ wpc' = [wpc EXCEPT ![w] = "write"]
             /\ overlap' = (overlap \/ \E v \in Windows \ {w} : wpc[v] \in {"write", "rename"})
    <3>1. ~overlap /\ \A v \in Windows \ {w} : ~Saving(v)
      BY <2>2, Zenon DEF Saving
    <3>2. disk' = disk
      BY <1>1 DEF Open
    <3>3. QED
      BY <1>0, <2>2, <3>1, <3>2 DEF SavesAlone, Saving
  <2>3. QED
    BY <1>1, <2>1, <2>2 DEF Open, SaveEnds, Goto
<1>2. ASSUME NEW w \in Windows, Write(w) PROVE SavesAlone'
  <2>1. /\ ~overlap /\ Saving(w) /\ file[w] = "tmp" /\ disk # Torn
        /\ \A v \in Windows \ {w} : ~Saving(v)
    BY <1>0, <1>2 DEF Write, SavesAlone, Saving
  <2>2. disk' = disk /\ (tmp' = mem[w] \/ wpc'[w] \notin {"write", "rename"})
    BY <1>0, <1>2, <2>1 DEF Write, SaveEnds, Goto
  <2>3. \A v \in Windows : v # w => wpc'[v] = wpc[v]
    BY <1>0, <1>2 DEF Write, SaveEnds, Goto
  <2>4. wpc'[w] # "write"
    BY <1>0, <1>2 DEF Write, SaveEnds, Goto
  <2>5. QED
    BY <1>0, <2>1, <2>2, <2>3, <2>4 DEF SavesAlone, Saving
<1>3. ASSUME NEW w \in Windows, Rename(w) PROVE SavesAlone'
  <2>1. /\ ~overlap /\ Saving(w) /\ tmp # Torn /\ disk # Torn
        /\ \A v \in Windows \ {w} : ~Saving(v)
    BY <1>0, <1>3 DEF Rename, SavesAlone, Saving
  <2>2. /\ disk' \in {disk, tmp} /\ wpc'[w] \notin {"write", "rename"}
        /\ \A v \in Windows : v # w => wpc'[v] = wpc[v]
    BY <1>0, <1>3 DEF Rename, SaveEnds, Goto
  <2>3. QED
    BY <2>1, <2>2 DEF SavesAlone, Saving
<1>4. ASSUME UNCHANGED <<disk, tmp, overlap>>,
             \A v \in Windows : Saving(v)' => wpc'[v] = wpc[v] /\ file'[v] = file[v]
      PROVE  SavesAlone'
  BY <1>0, <1>4 DEF SavesAlone, Saving
<1>5. ASSUME NEW w \in Windows, Window(w), ~Save(w) PROVE SavesAlone'
  <2>1. UNCHANGED <<disk, tmp, overlap>>
    BY <1>5 DEF Window, Start, ScanSave, Lock, TryLock, LockState, RemoveStale, RetryLock, DropLock, Cycle,
                Skip, EndCycle, BeginImport, Import, ImportEnds, ImportFails, RunOver, Crash, files
  <2>2. \A v \in Windows : Saving(v)' => wpc'[v] = wpc[v] /\ file'[v] = file[v]
    <3>1. CASE Start(w) \/ ScanSave(w) \/ Crash(w)
      BY <1>0, <3>1 DEF Start, ScanSave, Crash, SaveThen, Goto, Saving
    <3>2. CASE Lock(w)
      BY <1>0, <3>2 DEF Lock, TryLock, LockState, RemoveStale, RetryLock, DropLock, Locked, Postpone, Goto,
                        Saving
    <3>3. CASE Cycle(w)
      BY <1>0, <3>3 DEF Cycle, Skip, EndCycle, BeginImport, Import, ImportEnds, ImportFails, RunOver,
                        SaveThen, Goto, Saving
    <3>4. QED
      BY <1>5, <3>1, <3>2, <3>3 DEF Window
  <2>3. QED
    BY <1>4, <2>1, <2>2
<1>6. CASE Tick \/ (\E p \in Producers : Work(p)) \/ UNCHANGED vars
  BY <1>4, <1>6 DEF Tick, Work, vars, files, locals
<1>7. QED
  BY <1>1, <1>2, <1>3, <1>5, <1>6 DEF Next, Save

LEMMA SavesAtFirst == Init => SavesInv
BY TypesAtFirst, Constants DEF Init, SavesInv, SavesAlone, Saving

(* A window that crashes in the middle of a save never leaves half a cache, *)
(* nor does a write or rename that fails: only saves that overlap can       *)
(* (cache::save, which writes the temporary file and renames it).           *)
THEOREM SavesAreWhole == Spec => []TornByOverlapOnly
<1>1. SavesInv => TornByOverlapOnly
  BY DEF SavesInv, SavesAlone, TornByOverlapOnly
<1>2. QED
  BY <1>1, SavesAtFirst, SavesKept, PTL DEF Spec

-----------------------------------------------------------------------------
(* The lock, for two windows                                                *)

\* The time producers before the p-th can take.
Spent(p) == (p - 1) * Deadline

\* A live cycle is no older than the deadlines of its imports.
Timely(w) ==
    IF Importing(w)
    THEN started[w] <= lockFile + Spent(producer[w]) /\ now <= started[w] + Deadline
    ELSE now <= lockFile + Spent(producer[w])

\* A window that does not try the lock before the clock moves.
Resting(w) == due[w] > now /\ (wpc[w] = "idle" \/ (wpc[w] \in InSave /\ then[w] = "idle"))

\* What holds of a window and the other one.  Who looks at the lock, or removes it, has
\* the other in its cycle or at rest after it.
Side(w, v) ==
    /\ Holding(w) => /\ lockFile # None /\ Timely(w)
                     /\ ~Holding(v) /\ wpc[v] \notin {"remove", "retry"}
    /\ wpc[w] \in {"found", "remove", "retry"} => Holding(v) \/ Resting(v)
Unfailed == crashes = 0 /\ faults = 0
LockInv(w, v) ==
    Unfailed => Side(w, v) /\ Side(v, w) /\ (lockFile # None => Holding(w) \/ Holding(v))

LEMMA SpentGrows ==
    /\ Spent(1) = 0
    /\ \A p \in Producers : Spent(p) \in Nat /\ Spent(p + 1) = Spent(p) + Deadline
    /\ \A p \in Producers \cup {NP + 1} : Spent(p) \in Nat /\ Spent(p) <= Stale
<1>0. NP \in Nat \ {0} /\ Deadline \in Nat /\ Stale \in Nat /\ NP * Deadline <= Stale
  BY ImporterAssumption
<1>1. \A d \in Nat, k \in Nat : k * d \in Nat /\ (k + 1) * d = k * d + d
  BY SMT
<1>2. \A d \in Nat, k \in Nat, n \in Nat : k <= n => k * d <= n * d
  BY SMT
<1>3. ASSUME NEW p \in Producers PROVE p - 1 \in Nat /\ (p + 1) - 1 = (p - 1) + 1
  BY <1>0 DEF Producers
<1>4. ASSUME NEW p \in Producers PROVE Spent(p) \in Nat /\ Spent(p + 1) = Spent(p) + Deadline
  <2>1. p - 1 \in Nat /\ (p + 1) - 1 = (p - 1) + 1
    BY <1>3
  <2>2. (p - 1) * Deadline \in Nat /\ ((p - 1) + 1) * Deadline = (p - 1) * Deadline + Deadline
    BY <1>0, <1>1, <2>1
  <2>3. QED
    BY <2>1, <2>2 DEF Spent
<1>5. \A p \in Producers \cup {NP + 1} : Spent(p) \in Nat /\ Spent(p) <= Stale
  BY <1>0, <1>1, <1>2 DEF Spent, Producers
<1>6. QED
  BY <1>0, <1>4, <1>5 DEF Spent

LEMMA LockStep ==
    ASSUME TypeInv, TypeInv', NEW w, NEW v, w # v, Windows = {w, v}, LockInv(w, v), Window(w)
    PROVE  LockInv(w, v)'
<1> SUFFICES ASSUME Unfailed'
             PROVE  /\ Side(w, v)' /\ Side(v, w)'
                    /\ lockFile' # None => Holding(w)' \/ Holding(v)'
  BY DEF LockInv
<1>0. /\ TypeOK /\ TypeOK' /\ w \in Windows /\ v \in Windows
      /\ wpc = [u \in Windows |-> wpc[u]] /\ then = [u \in Windows |-> then[u]]
      /\ due = [u \in Windows |-> due[u]] /\ started = [u \in Windows |-> started[u]]
      /\ producer = [u \in Windows |-> producer[u]]
      /\ now \in Nat /\ lockFile \in Nat \cup {None} /\ None \notin Nat
      /\ \A u \in Windows : /\ due[u] \in Nat /\ started[u] \in Nat
                            /\ then[u] \in {"idle", "run", "begin", "drop"}
                            /\ producer[u] \in Producers \cup {NP + 1}
  BY Constants DEF TypeInv, TypeOK, Times
<1>1. /\ wpc'[v] = wpc[v] /\ then'[v] = then[v] /\ due'[v] = due[v] /\ started'[v] = started[v]
      /\ producer'[v] = producer[v] /\ now' = now
  <2>1. CASE Start(w) \/ ScanSave(w) \/ Crash(w)
    BY <1>0, <2>1 DEF Start, ScanSave, Crash, SaveThen, Goto
  <2>2. CASE Save(w)
    BY <1>0, <2>2 DEF Save, Open, Write, Rename, SaveEnds, Goto
  <2>3. CASE Lock(w)
    BY <1>0, <2>3 DEF Lock, TryLock, LockState, RemoveStale, RetryLock, DropLock, Locked, Postpone, Goto
  <2>4. CASE Cycle(w)
    BY <1>0, <2>4 DEF Cycle, Skip, EndCycle, BeginImport, Import, ImportEnds, ImportFails, RunOver,
                      NextProducer, SaveThen, Goto
  <2>5. QED
    BY <2>1, <2>2, <2>3, <2>4 DEF Window
<1>2. /\ Holding(v)' <=> Holding(v)
      /\ Resting(v)' <=> Resting(v)
      /\ lockFile' = lockFile => (Timely(v)' <=> Timely(v))
  BY <1>1 DEF Holding, Resting, Timely, Importing
<1>3. ~Crash(w) /\ ~Fault /\ Unfailed
  <2>1. /\ crashes \in Nat /\ faults \in Nat
        /\ crashes' = crashes \/ Crash(w)
        /\ faults' = faults \/ Fault
    <3>1. CASE Start(w) \/ ScanSave(w) \/ Save(w)
      BY <1>0, <3>1 DEF Start, ScanSave, Save, Open, Write, Rename, TypeOK
    <3>2. CASE Lock(w)
      BY <1>0, <3>2 DEF Lock, TryLock, LockState, RemoveStale, RetryLock, DropLock, RemoveLock, TypeOK
    <3>3. CASE Cycle(w)
      BY <1>0, <3>3 DEF Cycle, Skip, EndCycle, BeginImport, Import, ImportEnds, ImportFails, RunOver, TypeOK
    <3>4. QED
      BY <1>0, <3>1, <3>2, <3>3 DEF Window, Crash, TypeOK
  <2>2. (Crash(w) => crashes' = crashes + 1) /\ (Fault => faults' = faults + 1)
    BY DEF Crash, Fault
  <2>3. QED
    BY <2>1, <2>2 DEF Unfailed
<1>4. Side(w, v) /\ Side(v, w) /\ (lockFile # None => Holding(w) \/ Holding(v))
  BY <1>3 DEF LockInv

\* A step within a cycle, or at rest.
<1>5. ASSUME lockFile' = lockFile, Holding(w) => Holding(w)' /\ Timely(w)', Holding(w)' => Holding(w),
             Resting(w) => Resting(w)', wpc'[w] \notin {"found", "remove", "retry"}
      PROVE  /\ Side(w, v)' /\ Side(v, w)'
             /\ lockFile' # None => Holding(w)' \/ Holding(v)'
  BY <1>1, <1>2, <1>4, <1>5 DEF Side
<1>6. CASE Start(w) \/ ScanSave(w)
  <2>1. /\ lockFile' = lockFile /\ ~Holding(w) /\ ~Holding(w)' /\ wpc'[w] \in {"idle", "open"}
        /\ Resting(w) => Resting(w)'
    BY <1>0, <1>6 DEF Start, ScanSave, SaveThen, Goto, Holding, Resting, InSave, files
  <2>2. QED
    BY <1>5, <2>1
<1>7. CASE Save(w)
  <2>1. /\ lockFile' = lockFile /\ wpc[w] \in InSave /\ due'[w] = due[w] /\ started'[w] = started[w]
        /\ producer'[w] = producer[w]
        /\ \/ wpc'[w] \in InSave /\ then'[w] = then[w]
           \/ wpc'[w] = then[w]
    BY <1>0, <1>7 DEF Save, Open, Write, Rename, SaveEnds, Goto, InSave
  <2>2. /\ Holding(w)' <=> Holding(w)
        /\ Importing(w)' <=> Importing(w)
        /\ Resting(w) => Resting(w)'
    BY <1>0, <1>1, <2>1 DEF Holding, Importing, Resting, InSave
  <2>3. Timely(w)' <=> Timely(w)
    BY <1>1, <2>1, <2>2 DEF Timely
  <2>4. wpc'[w] \notin {"found", "remove", "retry"}
    BY <1>0, <2>1 DEF InSave
  <2>5. QED
    BY <1>4, <1>5, <2>1, <2>2, <2>3, <2>4 DEF Side
<1>8. CASE Cycle(w)
  <2>1. lockFile' = lockFile /\ Holding(w) /\ wpc'[w] \notin {"found", "remove", "retry"}
    BY <1>0, <1>8 DEF Cycle, Skip, EndCycle, BeginImport, Import, ImportEnds, ImportFails, RunOver,
                      SaveThen, Goto, Holding, files
  <2>2. Holding(w)'
    BY <1>0, <1>8 DEF Cycle, Skip, EndCycle, BeginImport, Import, ImportEnds, ImportFails, RunOver,
                      SaveThen, Goto, Holding, InSave
  <2>3. ~Resting(w)
    BY <2>1 DEF Resting, Holding, InSave
  <2>4. Timely(w) /\ lockFile \in Nat
    BY <1>0, <1>4, <2>1 DEF Side
  <2>5. Timely(w)'
    <3>1. CASE Skip(w)
      <4>1. /\ wpc'[w] = "begin" /\ ~Importing(w) /\ ~Importing(w)' /\ producer[w] \in Producers
            /\ producer'[w] = producer[w] + 1
        BY <1>0, <3>1, Constants DEF Skip, NextProducer, Importing, InSave, Producers
      <4>2. now <= lockFile + Spent(producer[w])
        BY <2>4, <4>1 DEF Timely
      <4>3. Spent(producer'[w]) = Spent(producer[w]) + Deadline /\ Deadline \in Nat
            /\ Spent(producer[w]) \in Nat
        BY <4>1, SpentGrows, Constants
      <4>4. QED
        BY <1>0, <1>1, <2>1, <2>4, <4>1, <4>2, <4>3 DEF Timely
    <3>2. CASE EndCycle(w)
      <4>1. ~Importing(w) /\ ~Importing(w)' /\ producer'[w] = producer[w]
        BY <1>0, <3>2 DEF EndCycle, SaveThen, Goto, Importing, InSave
      <4>2. QED
        BY <1>1, <2>1, <2>4, <4>1 DEF Timely
    <3>3. CASE BeginImport(w)
      <4>1. /\ ~Importing(w) /\ Importing(w)' /\ producer'[w] = producer[w] /\ started'[w] = now
        BY <1>0, <3>3 DEF BeginImport, SaveThen, Goto, Importing, InSave
      <4>2. QED
        BY <1>0, <1>1, <2>1, <2>4, <4>1, Constants DEF Timely
    <3>4. CASE Import(w)
      <4>1. Importing(w) /\ Importing(w)' /\ producer'[w] = producer[w] /\ started'[w] = started[w]
        BY <1>0, <3>4 DEF Import, Goto, Importing
      <4>2. QED
        BY <1>1, <2>1, <2>4, <4>1 DEF Timely
    <3>5. CASE ImportEnds(w) \/ ImportFails(w)
      <4>1. /\ Importing(w) /\ ~Importing(w)' /\ producer[w] \in Producers
            /\ producer'[w] = producer[w] + 1
        BY <1>0, <3>5 DEF ImportEnds, ImportFails, RunOver, NextProducer, SaveThen, Goto, Importing, InSave,
                          TypeInv, Producing
      <4>2. started[w] <= lockFile + Spent(producer[w]) /\ now <= started[w] + Deadline
        BY <2>4, <4>1 DEF Timely
      <4>3. Spent(producer'[w]) = Spent(producer[w]) + Deadline /\ Deadline \in Nat
            /\ Spent(producer[w]) \in Nat
        BY <4>1, SpentGrows, Constants
      <4>4. now <= lockFile + (Spent(producer[w]) + Deadline)
        BY <1>0, <2>4, <4>2, <4>3
      <4>5. QED
        BY <1>1, <2>1, <4>1, <4>3, <4>4 DEF Timely
    <3>6. QED
      BY <1>8, <3>1, <3>2, <3>3, <3>4, <3>5 DEF Cycle
  <2>6. QED
    BY <1>5, <2>1, <2>2, <2>3, <2>5
<1>9. CASE DropLock(w)
  <2>1. /\ Holding(w) /\ lockFile' = None /\ wpc'[w] = "idle" /\ due'[w] = now + Gap
    BY <1>0, <1>3, <1>9 DEF DropLock, RemoveLock, Goto, Holding
  <2>2. ~Holding(w)' /\ Resting(w)'
    BY <1>0, <1>1, <2>1, ImporterAssumption DEF Holding, Resting, InSave
  <2>3. ~Holding(v)
    BY <1>4, <2>1 DEF Side
  <2>4. QED
    BY <1>1, <1>2, <2>1, <2>2, <2>3 DEF Side

\* The window takes the lock: nobody has it, and nobody is about to remove it.
<1>10. ASSUME Locked(w), lockFile = None, wpc[v] \notin {"remove", "retry"}
       PROVE  /\ Side(w, v)' /\ Side(v, w)'
              /\ lockFile' # None => Holding(w)' \/ Holding(v)'
  <2>1. lockFile' = now /\ producer'[w] = 1 /\ wpc'[w] = "begin" /\ ~Holding(v)
    BY <1>0, <1>4, <1>10 DEF Locked, Goto, Side
  <2>2. Holding(w)' /\ ~Importing(w)' /\ lockFile' # None
    BY <1>0, <2>1 DEF Holding, Importing, InSave
  <2>3. Timely(w)'
    BY <1>0, <1>1, <2>1, <2>2, SpentGrows DEF Timely
  <2>4. QED
    BY <1>1, <1>2, <1>10, <2>1, <2>2, <2>3 DEF Side

\* The window puts its cycle off.
<1>11. ASSUME Postpone(w), ~Holding(w)
       PROVE  /\ Side(w, v)' /\ Side(v, w)'
              /\ lockFile' # None => Holding(w)' \/ Holding(v)'
  <2>1. lockFile' = lockFile /\ wpc'[w] = "idle" /\ due'[w] = now + Gap
    BY <1>0, <1>11 DEF Postpone, Goto
  <2>2. ~Holding(w)' /\ Resting(w)'
    BY <1>0, <1>1, <2>1, ImporterAssumption DEF Holding, Resting, InSave
  <2>3. QED
    BY <1>5, <1>11, <2>1, <2>2
<1>12. CASE TryLock(w)
  <2>1. ~Holding(w) /\ wpc[w] = "idle" /\ ~Resting(w)
    BY <1>0, <1>12 DEF TryLock, Holding, InSave, Resting
  <2>2. CASE lockFile # None /\ Goto(w, "found") /\ UNCHANGED <<lockFile, due, producer>>
    <3>1. Holding(v)
      BY <1>4, <2>1, <2>2
    <3>2. wpc'[w] = "found" /\ ~Holding(w)'
      BY <1>0, <2>2 DEF Goto, Holding, InSave
    <3>3. wpc[v] \notin {"found", "remove", "retry"}
      BY <3>1 DEF Holding, InSave
    <3>4. QED
      BY <1>1, <1>2, <1>4, <2>2, <3>1, <3>2, <3>3 DEF Side
  <2>3. CASE lockFile = None /\ Locked(w)
    <3>1. wpc[v] \notin {"remove", "retry"}
      BY <1>4, <2>1 DEF Side
    <3>2. QED
      BY <1>10, <2>3, <3>1
  <2>4. QED
    BY <1>11, <1>12, <2>1, <2>2, <2>3 DEF TryLock
<1>13. CASE LockState(w)
  <2>1. ~Holding(w) /\ wpc[w] = "found" /\ (Holding(v) \/ Resting(v))
    BY <1>0, <1>4, <1>13 DEF LockState, Holding, InSave, Side
  <2>2. CASE lockFile # None
    <3>1. Holding(v) /\ Timely(v) /\ lockFile \in Nat
      BY <1>0, <1>4, <2>1, <2>2 DEF Side
    <3>2. now <= lockFile + Stale
      <4>1. /\ Spent(producer[v]) \in Nat /\ Spent(producer[v]) <= Stale
            /\ Stale \in Nat /\ Deadline \in Nat
        BY <1>0, SpentGrows, ImporterAssumption
      <4>2. CASE Importing(v)
        <5>1. producer[v] \in Producers
          BY <1>0, <4>2 DEF TypeInv, Producing
        <5>2. producer[v] + 1 \in Producers \cup {NP + 1}
          BY <5>1, Constants
        <5>3. Spent(producer[v]) + Deadline <= Stale
          BY <5>1, <5>2, SpentGrows
        <5>4. started[v] <= lockFile + Spent(producer[v]) /\ now <= started[v] + Deadline
          BY <3>1, <4>2 DEF Timely
        <5>5. QED
          BY <1>0, <3>1, <4>1, <5>3, <5>4
      <4>3. CASE ~Importing(v)
        <5>1. now <= lockFile + Spent(producer[v])
          BY <3>1, <4>3 DEF Timely
        <5>2. QED
          BY <1>0, <3>1, <4>1, <5>1
      <4>4. QED
        BY <4>2, <4>3
    <3>3. ~IsStale(lockFile)
      BY <1>0, <3>1, <3>2, Constants DEF IsStale
    <3>4. QED
      BY <1>3, <1>11, <1>13, <2>1, <2>2, <3>3 DEF LockState, IsFree
  <2>3. CASE lockFile = None
    <3>1. Resting(v) /\ ~Holding(v)
      BY <1>4, <2>1, <2>3 DEF Side
    <3>2. wpc'[w] = "remove" /\ lockFile' = None /\ ~Holding(w)'
      BY <1>0, <1>3, <1>13, <2>3 DEF LockState, IsFree, Goto, Holding, InSave
    <3>3. wpc[v] \notin {"found", "remove", "retry"}
      BY <3>1 DEF Resting, InSave
    <3>4. QED
      BY <1>1, <1>2, <3>1, <3>2, <3>3 DEF Side
  <2>4. QED
    BY <2>2, <2>3
<1>14. CASE RemoveStale(w) \/ RetryLock(w)
  <2>1. ~Holding(w) /\ wpc[w] \in {"remove", "retry"} /\ Resting(v) /\ ~Holding(v) /\ lockFile = None
    BY <1>0, <1>4, <1>14 DEF RemoveStale, RetryLock, Holding, InSave, Side
  <2>2. wpc[v] \notin {"found", "remove", "retry"}
    BY <2>1 DEF Resting, InSave
  <2>3. CASE RemoveStale(w)
    <3>1. wpc'[w] = "retry" /\ lockFile' = None /\ ~Holding(w)'
      BY <1>0, <1>3, <2>1, <2>3 DEF RemoveStale, RemoveLock, Goto, Holding, InSave
    <3>2. QED
      BY <1>1, <1>2, <2>1, <2>2, <3>1 DEF Side
  <2>4. CASE RetryLock(w)
    BY <1>10, <2>1, <2>2, <2>4 DEF RetryLock
  <2>5. QED
    BY <1>14, <2>3, <2>4
<1>15. QED
  BY <1>3, <1>6, <1>7, <1>8, <1>9, <1>12, <1>13, <1>14 DEF Window, Lock

LEMMA TimelyTick ==
    ASSUME TypeInv, Tick, NEW u \in Windows
    PROVE  /\ Holding(u)' <=> Holding(u)
           /\ wpc[u] \notin {"found", "remove", "retry"}
           /\ Holding(u) /\ Timely(u) => Timely(u)'
<1>0. /\ now \in Nat /\ now' = now + 1 /\ lockFile \in Nat \cup {None} /\ None \notin Nat /\ Deadline \in Nat
      /\ UNCHANGED <<lockFile, wpc, then, producer, started>>
      /\ started[u] \in Nat /\ Prompt(u)
  BY Constants DEF Tick, files, locals, TypeInv, TypeOK, Times
<1>1. (Holding(u)' <=> Holding(u)) /\ (Importing(u)' <=> Importing(u))
  BY <1>0 DEF Holding, Importing
<1>2. wpc[u] \notin {"found", "remove", "retry"}
      /\ (Holding(u) => wpc[u] \in {"run", "read"} /\ now < started[u] + Deadline)
  BY <1>0 DEF Prompt
<1>3. ASSUME Holding(u), Timely(u) PROVE Timely(u)'
  <2>1. Importing(u) /\ Importing(u)'
    BY <1>1, <1>2, <1>3 DEF Importing
  <2>2. started[u] <= lockFile + Spent(producer[u])
    BY <1>3, <2>1 DEF Timely
  <2>3. now + 1 <= started[u] + Deadline
    BY <1>0, <1>2, <1>3
  <2>4. QED
    BY <1>0, <2>1, <2>2, <2>3 DEF Timely
<1>4. QED
  BY <1>1, <1>2, <1>3

LEMMA LockTick ==
    ASSUME TypeInv, NEW w, NEW v, w # v, Windows = {w, v}, LockInv(w, v), Tick
    PROVE  LockInv(w, v)'
<1>0. UNCHANGED <<lockFile, wpc, crashes, faults>>
  BY DEF Tick, files, locals
<1>2. SUFFICES ASSUME Unfailed PROVE LockInv(w, v)'
  BY <1>0 DEF LockInv, Unfailed
<1>3. Side(w, v) /\ Side(v, w) /\ (lockFile # None => Holding(w) \/ Holding(v))
  BY <1>2 DEF LockInv
<1>4. /\ Holding(w)' <=> Holding(w)
      /\ wpc[w] \notin {"found", "remove", "retry"}
      /\ Holding(w) /\ Timely(w) => Timely(w)'
  BY TimelyTick
<1>5. /\ Holding(v)' <=> Holding(v)
      /\ wpc[v] \notin {"found", "remove", "retry"}
      /\ Holding(v) /\ Timely(v) => Timely(v)'
  BY TimelyTick
<1>6. Side(w, v)' /\ Side(v, w)'
  BY <1>0, <1>3, <1>4, <1>5 DEF Side
<1>7. QED
  BY <1>0, <1>3, <1>4, <1>5, <1>6 DEF LockInv

(* Two windows are never in a cycle together, whatever the deadline, the    *)
(* number of producers and the timing of their cycles, until one ends       *)
(* without warning or a call on the lock file fails: the lock of a live     *)
(* cycle is never taken for stale, and who removes a lock has seen the      *)
(* other one end its cycle (try_lock, lock_state, ImportLock::drop).        *)
THEOREM TwoWindowsExclude ==
    ASSUME NEW a, NEW b, a # b, Windows = {a, b}
    PROVE  Spec => []ExclusiveUntilAFault
<1>1. Init => TypeInv /\ LockInv(a, b)
  <2>1. Init => LockInv(a, b)
    BY DEF Init, LockInv, Side, Holding, InSave
  <2>2. QED
    BY <2>1, TypesAtFirst
<1>2. TypeInv /\ LockInv(a, b) /\ [Next]_vars => (TypeInv /\ LockInv(a, b))'
  <2> SUFFICES ASSUME TypeInv, LockInv(a, b), [Next]_vars PROVE TypeInv' /\ LockInv(a, b)'
    OBVIOUS
  <2>1. TypeInv'
    BY TypesKept
  <2>2. CASE Window(a)
    BY <2>1, <2>2, LockStep
  <2>3. CASE Window(b)
    <3>1. LockInv(b, a)
      BY DEF LockInv
    <3>2. LockInv(b, a)'
      BY <2>1, <2>3, <3>1, LockStep
    <3>3. QED
      BY <2>1, <3>2 DEF LockInv
  <2>4. CASE Tick
    BY <2>1, <2>4, LockTick
  <2>5. CASE (\E p \in Producers : Work(p)) \/ UNCHANGED vars
    <3>1. UNCHANGED <<now, files, locals, crashes, faults>>
      BY <2>5 DEF Work, vars
    <3>2. LockInv(a, b)'
      BY <3>1 DEF LockInv, Unfailed, Side, Holding, Resting, Timely, Importing, files, locals
    <3>3. QED
      BY <2>1, <3>2
  <2>6. QED
    BY <2>2, <2>3, <2>4, <2>5 DEF Next
<1>3. LockInv(a, b) => ExclusiveUntilAFault
  <2> SUFFICES ASSUME LockInv(a, b), Unfailed PROVE Cardinality(Holders) <= 1
    BY DEF ExclusiveUntilAFault, Unfailed
  <2>1. ~(Holding(a) /\ Holding(b))
    BY DEF LockInv, Side
  <2>2. Holders = {} \/ Holders = {a} \/ Holders = {b}
    BY <2>1 DEF Holders
  <2>3. Cardinality({}) = 0 /\ Cardinality({a}) = 1 /\ Cardinality({b}) = 1
    BY FS_EmptySet, FS_Singleton
  <2>4. QED
    BY <2>2, <2>3
<1>4. QED
  BY <1>1, <1>2, <1>3, PTL DEF Spec

=============================================================================
