------------------------------ MODULE Importer ------------------------------
(***************************************************************************)
(* The agents import (src/src/agents/ironobs.rs and agents/cache.rs): every  *)
(* IronMonitor window runs a poller thread that loads the scan cache, saves  *)
(* it after scans, and runs import cycles under a lock file.  Windows are    *)
(* processes: what they share is the recordings directory, that is the lock  *)
(* file, the cache file and its temporary file.                              *)
(*                                                                           *)
(* Each file-system call is a step.  The sources are represented by one      *)
(* session file per producer: its last write, and whether ironobs has        *)
(* imported it since.                                                        *)
(***************************************************************************)
EXTENDS Naturals, FiniteSets

CONSTANTS
    Windows,      \* the IronMonitor processes
    NP,           \* the producers, Importer::ALL, are 1..NP
    None,         \* Option::None, a missing file
    Torn,         \* the content of a file written in part
    Deadline,     \* IMPORT_DEADLINE
    Stale,        \* STALE_LOCK
    Gap,          \* IMPORT_GAP
    Margin,       \* WATERMARK_MARGIN_SECS
    FirstWindow,  \* FIRST_WINDOW_DAYS
    LastWrite,    \* bound of the model: no session is written after this time
    MaxMishaps,   \* bound of the model: windows that end without warning, and
                  \* calls on the lock file that fail
    MaxScans,     \* bound of the model: saves after a scan
    MaxNow        \* bound of the model: the clock stops here

Producers == 1..NP

\* STALE_LOCK "must exceed the two producer deadlines of one cycle".
ASSUME ImporterAssumption ==
    /\ NP \in Nat \ {0}
    /\ Deadline \in Nat /\ Stale \in Nat /\ Margin \in Nat /\ FirstWindow \in Nat
    /\ NP * Deadline <= Stale
    /\ Gap \in Nat \ {0}
    /\ {LastWrite, MaxMishaps, MaxScans, MaxNow} \subseteq Nat
    /\ None \notin Nat /\ Torn # None

VARIABLES
    now,
    lockFile,  \* .import.lock: when it was created, None without one
    disk,      \* .scan-cache: a cache, Torn or None
    tmp,       \* .scan-cache.tmp
    wpc,       \* where each window's poller is
    mem,       \* each window's cache, of which the imports are kept
    due,       \* when each window's next cycle is due
    then,      \* where the poller goes once a save is done
    file,      \* the file a window's open handle is on: "tmp", "disk" or "gone"
    producer,  \* the producer whose import runs
    started,   \* when that import began
    mtime,     \* each producer's session: its last write
    unread,    \* whether that write is yet to be imported
    waived,    \* history: unread, but reported failed or older than the window
    crashes,   \* windows ended without warning so far
    faults,    \* calls on the lock file that failed so far
    scans,     \* saves after a scan so far
    overlap    \* history: a save was begun while another was under way

files == <<lockFile, disk, tmp>>
locals == <<wpc, mem, due, then, file, producer, started>>
source == <<mtime, unread, waived>>
vars == <<now, files, locals, source, crashes, faults, scans, overlap>>

Times == Nat \cup {None}

\* A cache is an ImportRecord per producer: its watermark and its first_since.
Caches == [Producers -> [watermark : Times, first : Times]]
NoCache == [p \in Producers |-> [watermark |-> None, first |-> None]]

ASSUME ContentAssumption == Torn \notin Caches /\ None \notin Caches

\* A poller inside a cycle holds an ImportLock, and drops it at its end.
InSave == {"open", "write", "rename"}
Holding(w) ==
    \/ wpc[w] \in {"begin", "run", "read", "drop"}
    \/ wpc[w] \in InSave /\ then[w] \in {"run", "begin", "drop"}

TypeOK ==
    /\ now \in Nat
    /\ lockFile \in Times
    /\ {disk, tmp} \subseteq Caches \cup {Torn, None}
    /\ wpc \in [Windows -> {"off", "idle", "found", "remove", "retry",
                            "begin", "run", "read", "drop"} \cup InSave]
    /\ mem \in [Windows -> Caches]
    /\ due \in [Windows -> Nat]
    /\ then \in [Windows -> {"idle", "run", "begin", "drop"}]
    /\ file \in [Windows -> {"tmp", "disk", "gone"}]
    /\ producer \in [Windows -> Producers \cup {NP + 1}]
    /\ started \in [Windows -> Nat]
    /\ mtime \in [Producers -> Nat]
    /\ unread \in [Producers -> BOOLEAN] /\ waived \in [Producers -> BOOLEAN]
    /\ crashes \in Nat /\ faults \in Nat /\ scans \in Nat /\ overlap \in BOOLEAN

Init ==
    /\ now = 0
    /\ lockFile = None /\ disk = None /\ tmp = None
    /\ wpc = [w \in Windows |-> "off"]
    /\ mem = [w \in Windows |-> NoCache]
    /\ due = [w \in Windows |-> 0]
    /\ then = [w \in Windows |-> "idle"]
    /\ file = [w \in Windows |-> "gone"]
    /\ producer = [w \in Windows |-> 1]
    /\ started = [w \in Windows |-> 0]
    /\ mtime = [p \in Producers |-> 0]
    /\ unread = [p \in Producers |-> TRUE]
    /\ waived = [p \in Producers |-> FALSE]
    /\ crashes = 0 /\ faults = 0 /\ scans = 0 /\ overlap = FALSE

Goto(w, l) == wpc' = [wpc EXCEPT ![w] = l]

-----------------------------------------------------------------------------
(* cache::load and cache::save                                              *)

\* A missing or damaged file is an empty cache.  The slip trusts what it finds.
LoadUnchecked(content) == IF content = None THEN NoCache ELSE content
Load(content) == IF content \in {None, Torn} THEN NoCache ELSE content

\* refresh_loop begins with the cache on disk, and never reads it again.  Its first
\* cycle is due at once, or at the next_at saved there, which is not modelled.
Start(w) ==
    /\ wpc[w] = "off"
    /\ mem' = [mem EXCEPT ![w] = Load(disk)]
    /\ \E t \in now..now + Gap : due' = [due EXCEPT ![w] = t]
    /\ Goto(w, "idle")
    /\ UNCHANGED <<now, files, then, file, producer, started, source, crashes, faults, scans, overlap>>

\* The save after a scan, or the point of a cycle that saves.
SaveThen(w, l) ==
    /\ Goto(w, "open")
    /\ then' = [then EXCEPT ![w] = l]

ScanSave(w) ==
    /\ wpc[w] = "idle"
    /\ scans < MaxScans
    /\ scans' = scans + 1
    /\ SaveThen(w, "idle")
    /\ UNCHANGED <<now, files, mem, due, file, producer, started, source, crashes, faults, overlap>>

SaveEnds(w) ==
    /\ Goto(w, then[w])
    /\ then' = [then EXCEPT ![w] = "idle"]

\* A slip: the cache file is written in place.
OpenInPlace(w) ==
    /\ wpc[w] = "open"
    /\ disk' = Torn
    /\ file' = [file EXCEPT ![w] = "disk"]
    /\ Goto(w, "write")
    /\ overlap' = (overlap \/ \E v \in Windows \ {w} : wpc[v] \in {"write", "rename"})
    /\ UNCHANGED <<now, lockFile, tmp, mem, due, then, producer, started, source, crashes, faults, scans>>

\* fs::write creates or truncates the temporary file, then fills it; a call that
\* fails ends the save, and its error is ignored.
Open(w) ==
    /\ wpc[w] = "open"
    /\ \/ /\ tmp' = Torn
          /\ file' = [file EXCEPT ![w] = "tmp"]
          /\ Goto(w, "write")
          /\ overlap' = (overlap \/ \E v \in Windows \ {w} : wpc[v] \in {"write", "rename"})
          /\ UNCHANGED then
       \/ /\ SaveEnds(w)
          /\ UNCHANGED <<tmp, file, overlap>>
    /\ UNCHANGED <<now, lockFile, disk, mem, due, producer, started, source, crashes, faults, scans>>

\* What is written follows the open file, also when another window has renamed it.
\* A write that fails leaves the file as it is.
Write(w) ==
    /\ wpc[w] = "write"
    /\ \/ /\ tmp' = IF file[w] = "tmp" THEN mem[w] ELSE tmp
          /\ disk' = IF file[w] = "disk" THEN mem[w] ELSE disk
          /\ Goto(w, "rename")
          /\ UNCHANGED then
       \/ /\ SaveEnds(w)
          /\ UNCHANGED <<tmp, disk>>
    /\ file' = [file EXCEPT ![w] = "gone"]
    /\ UNCHANGED <<now, lockFile, mem, due, producer, started, source, crashes, faults, scans, overlap>>

\* The temporary file, whoever wrote it, becomes the cache file; a rename that fails
\* removes it.
Rename(w) ==
    /\ wpc[w] = "rename"
    /\ \/ /\ tmp # None
          /\ disk' = tmp
          /\ file' = [v \in Windows |-> IF file[v] = "tmp" THEN "disk" ELSE "gone"]
       \/ /\ file' = [v \in Windows |-> IF file[v] = "tmp" THEN "gone" ELSE file[v]]
          /\ UNCHANGED disk
    /\ tmp' = None
    /\ SaveEnds(w)
    /\ UNCHANGED <<now, lockFile, mem, due, producer, started, source, crashes, faults, scans, overlap>>

-----------------------------------------------------------------------------
(* try_lock and lock_state                                                  *)

\* The ImportLock is held, and the cycle begins with the first producer.  Its end
\* decides when the next one is due.
Locked(w) ==
    /\ lockFile' = now
    /\ producer' = [producer EXCEPT ![w] = 1]
    /\ due' = [due EXCEPT ![w] = 0]
    /\ Goto(w, "begin")

Mishap == crashes + faults < MaxMishaps

\* A call on the lock file fails.
Fault == Mishap /\ faults' = faults + 1

\* A cycle that could not begin is put off.
Postpone(w) ==
    /\ due' = [due EXCEPT ![w] = now + Gap]
    /\ Goto(w, "idle")
    /\ UNCHANGED <<lockFile, producer>>

\* Creating the file fails because it is there, or for another reason.
TryLock(w) ==
    /\ wpc[w] = "idle"
    /\ now >= due[w]
    /\ \/ lockFile = None /\ Locked(w)
       \/ lockFile # None /\ Goto(w, "found") /\ UNCHANGED <<lockFile, due, producer>>
       \/ Postpone(w)
    /\ UNCHANGED <<now, disk, tmp, mem, then, file, started, source, crashes, faults, scans, overlap>>

\* lock_state reads the age of the file there now.  The slip takes any lock to be
\* stale.
IsThere(t) == now >= t
IsStale(t) == now > t + Stale

IsFree == lockFile # None => IsStale(lockFile)

\* Metadata that cannot be read makes any lock a free one.
LockState(w) ==
    /\ wpc[w] = "found"
    /\ \/ /\ (IsFree /\ UNCHANGED faults) \/ (~IsFree /\ Fault)
          /\ Goto(w, "remove")
          /\ UNCHANGED <<lockFile, due, producer>>
       \/ /\ ~IsFree
          /\ Postpone(w)
          /\ UNCHANGED faults
    /\ UNCHANGED <<now, disk, tmp, mem, then, file, started, source, crashes, scans, overlap>>

\* remove_file removes the file of that name, whichever it is, or fails, which is
\* ignored.
RemoveLock == (lockFile' = None /\ UNCHANGED faults) \/ (UNCHANGED lockFile /\ Fault)

RemoveStale(w) ==
    /\ wpc[w] = "remove"
    /\ RemoveLock
    /\ Goto(w, "retry")
    /\ UNCHANGED <<now, disk, tmp, mem, due, then, file, producer, started, source, crashes, scans, overlap>>

RetryLock(w) ==
    /\ wpc[w] = "retry"
    /\ IF lockFile = None THEN Locked(w) ELSE Postpone(w)
    /\ UNCHANGED <<now, disk, tmp, mem, then, file, started, source, crashes, faults, scans, overlap>>

\* ImportLock::drop removes the file of that name too, at the end of the cycle.
DropLock(w) ==
    /\ wpc[w] = "drop"
    /\ RemoveLock
    /\ due' = [due EXCEPT ![w] = now + Gap]
    /\ producer' = [producer EXCEPT ![w] = 1]
    /\ Goto(w, "idle")
    /\ UNCHANGED <<now, disk, tmp, mem, then, file, started, source, crashes, scans, overlap>>

-----------------------------------------------------------------------------
(* run_cycle                                                                *)

\* A producer whose source folder is absent is skipped.  After the last one the
\* cache is saved, and the lock dropped.
NextProducer(w) == producer' = [producer EXCEPT ![w] = @ + 1]

Skip(w) ==
    /\ wpc[w] = "begin"
    /\ producer[w] <= NP
    /\ NextProducer(w)
    /\ UNCHANGED <<now, files, wpc, mem, due, then, file, started, source, crashes, faults, scans, overlap>>

EndCycle(w) ==
    /\ wpc[w] = "begin"
    /\ producer[w] > NP
    /\ SaveThen(w, "drop")
    /\ UNCHANGED <<now, files, mem, due, file, producer, started, source, crashes, faults, scans, overlap>>

Before(t, d) == IF t < d THEN 0 ELSE t - d

\* The import's selection: from the watermark, or from the first import's window,
\* which is fixed when that import first runs.
Since(r) == IF r.watermark # None THEN r.watermark ELSE r.first

BeginImport(w) ==
    /\ wpc[w] = "begin"
    /\ producer[w] <= NP
    /\ started' = [started EXCEPT ![w] = now]
    /\ mem' = [mem EXCEPT ![w][producer[w]].first =
                  IF mem[w][producer[w]].watermark = None /\ @ = None
                  THEN Before(now, FirstWindow) ELSE @]
    /\ SaveThen(w, "run")
    /\ UNCHANGED <<now, files, due, file, producer, source, crashes, faults, scans, overlap>>

\* ironobs reads the session when it is modified at or after `since`, or reports
\* that it could not.  A session older than the first import's window is left for
\* good.
Import(w) ==
    LET p == producer[w]
        r == mem[w][p]
        selected == mtime[p] >= Since(r)
    IN  /\ wpc[w] = "run"
        /\ \/ /\ unread' = [unread EXCEPT ![p] = @ /\ ~selected]
              /\ waived' = [waived EXCEPT ![p] = @ \/ (unread[p] /\ ~selected /\ r.watermark = None)]
           \/ /\ selected
              /\ waived' = [waived EXCEPT ![p] = unread[p]]
              /\ UNCHANGED unread
        /\ Goto(w, "read")
        /\ UNCHANGED <<now, files, mem, due, then, file, producer, started, mtime, crashes, faults, scans, overlap>>

\* advance_watermark: "the run's start time minus the margin".  The slip
\* takes the run's end.
EndWatermark(w) == now
NewWatermark(w) == Before(started[w], Margin)

Advanced(w, old) ==
    LET next == NewWatermark(w)
    IN  IF old = None \/ old < next THEN next ELSE old

\* The run is over: the next producer's turn, after a save.
RunOver(w) ==
    /\ SaveThen(w, "begin")
    /\ NextProducer(w)
    /\ started' = [started EXCEPT ![w] = 0]
    /\ UNCHANGED <<now, files, due, file, source, crashes, faults, scans, overlap>>

\* Exit 0 or 1 with a summary.
ImportEnds(w) ==
    /\ wpc[w] = "read"
    /\ mem' = [mem EXCEPT ![w][producer[w]].watermark = Advanced(w, @)]
    /\ RunOver(w)

\* Refused, failed, or killed at the deadline, before or after it read anything.
\* The slip moves the watermark all the same.
MoveAnyway(w) ==
    /\ wpc[w] \in {"run", "read"}
    /\ mem' = [mem EXCEPT ![w][producer[w]].watermark = Advanced(w, @)]
    /\ RunOver(w)
ImportFails(w) ==
    /\ wpc[w] \in {"run", "read"}
    /\ UNCHANGED mem
    /\ RunOver(w)

-----------------------------------------------------------------------------
(* The surroundings                                                         *)

\* A window's process ends: closed in the middle of a cycle, or crashed.  Its
\* files stay as they are.
Crash(w) ==
    /\ wpc[w] # "off"
    /\ Mishap
    /\ crashes' = crashes + 1
    /\ Goto(w, "off")
    /\ mem' = [mem EXCEPT ![w] = NoCache]
    /\ due' = [due EXCEPT ![w] = 0]
    /\ then' = [then EXCEPT ![w] = "idle"]
    /\ file' = [file EXCEPT ![w] = "gone"]
    /\ producer' = [producer EXCEPT ![w] = 1]
    /\ started' = [started EXCEPT ![w] = 0]
    /\ UNCHANGED <<now, files, source, faults, scans, overlap>>

\* An agent writes to its session, which is then to be imported (again).
Work(p) ==
    /\ now <= LastWrite
    /\ ~unread[p] \/ mtime[p] # now \/ waived[p]
    /\ mtime' = [mtime EXCEPT ![p] = now]
    /\ unread' = [unread EXCEPT ![p] = TRUE]
    /\ waived' = [waived EXCEPT ![p] = FALSE]
    /\ UNCHANGED <<now, files, locals, crashes, faults, scans, overlap>>

\* What the model assumes of the windows' speed: a cycle takes time while ironobs
\* runs only, which the deadline ends, and taking the lock takes none.
Prompt(w) ==
    /\ Holding(w) => wpc[w] \in {"run", "read"} /\ now < started[w] + Deadline
    /\ wpc[w] \notin {"found", "remove", "retry"}
Tick ==
    /\ now < MaxNow
    /\ \A w \in Windows : Prompt(w)
    /\ now' = now + 1
    /\ UNCHANGED <<files, locals, source, crashes, faults, scans, overlap>>

Save(w) == Open(w) \/ Write(w) \/ Rename(w)
Lock(w) == TryLock(w) \/ LockState(w) \/ RemoveStale(w) \/ RetryLock(w) \/ DropLock(w)
Cycle(w) == Skip(w) \/ EndCycle(w) \/ BeginImport(w) \/ Import(w) \/ ImportEnds(w) \/ ImportFails(w)
Window(w) == Start(w) \/ ScanSave(w) \/ Save(w) \/ Lock(w) \/ Cycle(w) \/ Crash(w)
Next == Tick \/ (\E p \in Producers : Work(p)) \/ \E w \in Windows : Window(w)

Spec == Init /\ [][Next]_vars

-----------------------------------------------------------------------------

Holders == {w \in Windows : Holding(w)}

(* Two windows are never in a cycle together, as long as none has ended    *)
(* inside one and every call on the lock file did what it was asked: the    *)
(* age at which a lock is taken for stale exceeds what a live cycle can     *)
(* last, and a window that finds the lock does not replace it.  After one   *)
(* failed call, or with a third window, this fails too (SingleInstance).    *)
ExclusiveUntilAFault == crashes = 0 /\ faults = 0 => Cardinality(Holders) <= 1

(* "Single instance: a cycle holds .import.lock", and a second window that   *)
(* finds it does not start its own, however many windows there are.         *)
SingleInstance == Cardinality(Holders) <= 1

(* No session is skipped: a write that is not imported yet is selected by   *)
(* every watermark in use or on disk, whatever runs were killed, windows    *)
(* crashed, caches lost or restored, and lagging windows caught up; unless  *)
(* the import reported it could not read it, or it is older than the first  *)
(* import's window.                                                         *)
NoSessionSkipped ==
    \A p \in Producers : unread[p] /\ ~waived[p] =>
        /\ \A w \in Windows : wpc[w] # "off" /\ mem[w][p].watermark # None
                                 => mem[w][p].watermark <= mtime[p]
        /\ disk \notin {None, Torn} /\ disk[p].watermark # None
              => disk[p].watermark <= mtime[p]

(* The cache file is torn by two windows that save at once only: a window   *)
(* that ends in the middle of a save leaves the old cache or the new one.   *)
TornByOverlapOnly == disk = Torn => overlap

=============================================================================
