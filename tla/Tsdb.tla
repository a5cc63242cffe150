-------------------------------- MODULE Tsdb --------------------------------
(***************************************************************************)
(* The time-series database (src/src/tsdb/mod.rs): one file, a header and   *)
(* after it the records, written by a recorder (`ironmon record`) and       *)
(* opened by viewers (its info, query and export).  Every write to the file *)
(* is a step; a recorder may end between any two of them.                   *)
(*                                                                          *)
(* The data is a sequence of cells.  The first cell of a record is its type *)
(* and length, the others are its body: a record that is partly overwritten *)
(* is one whose cells do not follow each other.                             *)
(***************************************************************************)
EXTENDS Naturals, Sequences

CONSTANTS
    Viewers,     \* processes that open the file to read it
    Sizes,       \* the sizes a record may have, in cells
    Limit,       \* max_size without HEADER_SIZE, in cells
    None,        \* Option::None, a header that is not there
    MaxRecords,  \* bound of the model: records in all
    MaxCrashes   \* bound of the model: recorders that end before they close

ASSUME TsdbAssumption ==
    /\ Sizes \subseteq Nat \ {0} /\ Sizes # {}
    /\ {Limit, MaxRecords, MaxCrashes} \subseteq Nat

VARIABLES
    exists,   \* whether the file is there
    hdr,      \* the header in the file, None while it is truncated
    data,     \* the cells after it
    rpc,      \* where the recorder is
    mem,      \* the recorder's header
    todo,     \* the records it is writing: those a rotation keeps, and the new one
    seen,     \* each viewer's header, None without the file open
    next,     \* the record that is accepted next
    crashes,  \* recorders that ended before they closed
    hdrOk,    \* history: the header in the file is not one a viewer put back
    memOk,    \* history: neither is the one the recorder started from
    lost      \* history: a rotation was cut short, or a recorder started from
              \* a header that a viewer had put back

vars == <<exists, hdr, data, rpc, mem, todo, seen, next, crashes, hdrOk, memOk, lost>>

Headers == [size : Nat, count : Nat]
NoData == [size |-> 0, count |-> 0]

\* Zeros, which a file that is written past its end is filled with, read as an
\* empty record of no type.
Zeros == [id |-> 0, size |-> 1, part |-> 1]
Cell == {Zeros} \cup [id : 1..MaxRecords, size : Sizes, part : Nat \ {0}]

\* A record to be written; rotated, once its check has failed.
Item == [id : 1..MaxRecords, size : Sizes, rotated : BOOLEAN]

TypeOK ==
    /\ exists \in BOOLEAN
    /\ hdr \in Headers \cup {None} /\ (hdr # None => exists)
    /\ data \in Seq(Cell)
    /\ rpc \in {"off", "create", "idle", "check", "head", "body", "flush"}
    /\ mem \in Headers
    /\ todo \in Seq(Item)
    /\ rpc \in {"off", "idle"} => todo = <<>>
    /\ rpc \in {"check", "head", "body", "flush"} => todo # <<>>
    /\ seen \in [Viewers -> Headers \cup {None}]
    /\ next \in 1..MaxRecords + 1 /\ crashes \in 0..MaxCrashes
    /\ hdrOk \in BOOLEAN /\ memOk \in BOOLEAN /\ lost \in BOOLEAN

Init ==
    /\ exists = FALSE /\ hdr = None /\ data = <<>>
    /\ rpc = "off" /\ mem = NoData /\ todo = <<>>
    /\ seen = [v \in Viewers |-> None]
    /\ next = 1 /\ crashes = 0
    /\ hdrOk = TRUE /\ memOk = TRUE /\ lost = FALSE

-----------------------------------------------------------------------------
(* What the file holds                                                      *)

Cells(r) == [i \in 1..r.size |-> [id |-> r.id, size |-> r.size, part |-> i]]

\* Cells written at an offset replace what is there.
Put(d, offset, cells) ==
    [i \in 1..(IF offset + Len(cells) > Len(d) THEN offset + Len(cells) ELSE Len(d)) |->
        IF i \in offset + 1..offset + Len(cells) THEN cells[i - offset]
        ELSE IF i <= Len(d) THEN d[i] ELSE Zeros]

\* read_all_system_snapshots: the records that can be parsed, each with its offset.
\* Reading ends with the size the header states, or with the file, or in a cell that
\* begins no record; one whose body is another's cannot be parsed.
ReadBack(d, h) ==
    LET read[o \in Nat] ==
            IF o >= h.size \/ o >= Len(d) THEN <<>>
            ELSE LET c == d[o + 1]
                 IN  IF c.part # 1 \/ o + c.size > Len(d) THEN <<>>
                     ELSE IF c.id # 0 /\ \A j \in 1..c.size : d[o + j] = Cells(c)[j]
                     THEN <<[id |-> c.id, size |-> c.size, at |-> o]>> \o read[o + c.size]
                     ELSE read[o + c.size]
    IN  read[0]

-----------------------------------------------------------------------------
(* The recorder                                                             *)

\* open_or_create.  A file without a whole header is refused.
Create ==
    /\ rpc = "off"
    /\ ~exists
    /\ exists' = TRUE
    /\ data' = <<>>
    /\ mem' = NoData /\ memOk' = TRUE
    /\ rpc' = "create"
    /\ UNCHANGED <<hdr, todo, seen, next, crashes, hdrOk, lost>>

OpenExisting ==
    /\ rpc = "off"
    /\ hdr # None
    /\ mem' = hdr /\ memOk' = hdrOk
    /\ lost' = (lost \/ ~hdrOk)
    /\ rpc' = "idle"
    /\ UNCHANGED <<exists, hdr, data, todo, seen, next, crashes, hdrOk>>

\* record_system.
Record ==
    /\ rpc = "idle"
    /\ next <= MaxRecords
    /\ \E n \in Sizes : todo' = <<[id |-> next, size |-> n, rotated |-> FALSE]>>
    /\ rpc' = "check"
    /\ UNCHANGED <<exists, hdr, data, mem, seen, next, crashes, hdrOk, memOk, lost>>

\* The size check that write_record makes once, before it rotates.
Fits(r) == mem.size + r.size <= Limit

\* What a rotation keeps: the most recent half, to be written like any record.  The
\* slip keeps the other half.
KeptFirst(rs) == SubSeq(rs, 1, Len(rs) \div 2)
Kept(rs) == SubSeq(rs, Len(rs) - Len(rs) \div 2 + 1, Len(rs))

\* rotate, up to create_new's open, which truncates the file and may fail as Crash
\* does.  Keeping a record may rotate once more; the record whose check failed is not
\* checked again.
Rotate ==
    /\ rpc = "check"
    /\ ~Fits(Head(todo))
    /\ LET kept == Kept(ReadBack(data, mem))
       IN  todo' = [i \in DOMAIN kept |-> [id |-> kept[i].id, size |-> kept[i].size, rotated |-> FALSE]]
                   \o <<[Head(todo) EXCEPT !.rotated = TRUE]>> \o Tail(todo)
    /\ data' = <<>> /\ hdr' = None
    /\ mem' = NoData /\ memOk' = TRUE
    /\ rpc' = "create"
    /\ UNCHANGED <<exists, seen, next, crashes, hdrOk, lost>>

\* The record that comes next in `td`, or none.  The slip checks it once more after
\* its rotation.
ProceedChecking(td) == rpc' = IF td = <<>> THEN "idle" ELSE "check"
Proceed(td) ==
    rpc' = IF td = <<>> THEN "idle" ELSE IF Head(td).rotated THEN "head" ELSE "check"

CreateHeader ==
    /\ rpc = "create"
    /\ hdr' = mem /\ hdrOk' = memOk
    /\ Proceed(todo)
    /\ UNCHANGED <<exists, data, mem, todo, seen, next, crashes, memOk, lost>>

Check ==
    /\ rpc = "check"
    /\ Fits(Head(todo))
    /\ rpc' = "head"
    /\ UNCHANGED <<exists, hdr, data, mem, todo, seen, next, crashes, hdrOk, memOk, lost>>

\* Where write_record seeks to.  The slip appends to the file.
EndOfFile == Len(data)
EndOfData == mem.size

\* The type and the length, and then the body.
WriteHead ==
    /\ rpc = "head"
    /\ data' = Put(data, EndOfData, SubSeq(Cells(Head(todo)), 1, 1))
    /\ rpc' = "body"
    /\ UNCHANGED <<exists, hdr, mem, todo, seen, next, crashes, hdrOk, memOk, lost>>

WriteBody ==
    /\ rpc = "body"
    /\ data' = Put(data, EndOfData + 1, Tail(Cells(Head(todo))))
    /\ rpc' = "flush"
    /\ UNCHANGED <<exists, hdr, mem, todo, seen, next, crashes, hdrOk, memOk, lost>>

\* The header in memory, then flush_header.  The record it is for, if it is not one
\* that a rotation kept, is thereby accepted.
Flush ==
    /\ rpc = "flush"
    /\ mem' = [size |-> mem.size + Head(todo).size, count |-> mem.count + 1]
    /\ hdr' = mem' /\ hdrOk' = memOk
    /\ todo' = Tail(todo)
    /\ next' = IF todo' = <<>> THEN next + 1 ELSE next
    /\ Proceed(todo')
    /\ UNCHANGED <<exists, data, seen, crashes, memOk, lost>>

\* A slip: a closed recorder still has its record to write.
CloseEarly ==
    /\ rpc \in {"idle", "check"}
    /\ hdr' = mem /\ hdrOk' = memOk
    /\ mem' = NoData
    /\ rpc' = "off"
    /\ UNCHANGED <<exists, data, todo, seen, next, crashes, memOk, lost>>

\* close writes the header.
Close ==
    /\ rpc = "idle"
    /\ hdr' = mem /\ hdrOk' = memOk
    /\ mem' = NoData /\ memOk' = TRUE
    /\ rpc' = "off"
    /\ UNCHANGED <<exists, data, todo, seen, next, crashes, lost>>

\* The recorder is gone, with what it was writing.
Gone ==
    /\ rpc # "off"
    /\ crashes < MaxCrashes
    /\ crashes' = crashes + 1
    /\ lost' = (lost \/ \E i \in DOMAIN todo : todo[i].rotated)
    /\ todo' = <<>>
    /\ mem' = NoData /\ memOk' = TRUE
    /\ rpc' = "off"
    /\ UNCHANGED <<exists, data, seen, next>>

Crash == Gone /\ UNCHANGED <<hdr, hdrOk>>

\* An error of a read or a write ends the recorder, and dropping the database closes
\* it.  One of flush_header is a Flush that this, a Crash or a Close follows: the header
\* in memory is changed before.
Fail ==
    /\ rpc \in {"check", "head", "body"}
    /\ hdr' = mem /\ hdrOk' = memOk
    /\ Gone

-----------------------------------------------------------------------------
(* The viewers, which open the database as the recorder does and change nothing; *)
(* but dropping it writes the header, as it was when they opened it.             *)

OpenViewer(v) ==
    /\ seen[v] = None
    /\ hdr # None
    /\ seen' = [seen EXCEPT ![v] = hdr]
    /\ UNCHANGED <<exists, hdr, data, rpc, mem, todo, next, crashes, hdrOk, memOk, lost>>

CloseViewer(v) ==
    /\ seen[v] # None
    /\ hdr' = seen[v]
    /\ hdrOk' = (hdrOk /\ hdr' = hdr)
    /\ seen' = [seen EXCEPT ![v] = None]
    /\ UNCHANGED <<exists, data, rpc, mem, todo, next, crashes, memOk, lost>>

Write == CreateHeader \/ Check \/ Rotate \/ WriteHead \/ WriteBody \/ Flush
Recorder == Create \/ OpenExisting \/ Record \/ Write \/ Close \/ Crash \/ Fail
Next == Recorder \/ \E v \in Viewers : OpenViewer(v) \/ CloseViewer(v)

\* A recorder that has begun to write goes on.
Spec == Init /\ [][Next]_vars /\ WF_vars(Write)

-----------------------------------------------------------------------------

\* Where the i-th record ends.
EndOf(rs, i) == IF i = 0 THEN 0 ELSE rs[i].at + rs[i].size

\* A header describes whole records that follow each other, and counts them.
Describes(d, h) ==
    LET rs == ReadBack(d, h)
    IN  /\ Len(rs) = h.count
        /\ \A i \in DOMAIN rs : rs[i].at = EndOf(rs, i - 1)
        /\ EndOf(rs, Len(rs)) = h.size

(* Wherever a recorder ends, also in a record or a rotation, the header it  *)
(* leaves describes whole records.  So it does after a viewer has put an    *)
(* old header back, from the recorder's next write of its own.              *)
HeaderDescribesRecords == hdr # None /\ hdrOk => Describes(data, hdr)

\* The recorder is not in a rotation.
Settled == rpc # "create" /\ \A i \in DOMAIN todo : ~todo[i].rotated

(* "Remove oldest 50% of records": what a rotation, or one rotation inside  *)
(* another, removes is the oldest.  The records read back are consecutive   *)
(* and end with the last one accepted, across restarts and crashes outside  *)
(* rotations.                                                               *)
OnlyTheOldestGo ==
    Settled /\ hdr # None /\ hdrOk /\ ~lost =>
        LET rs == ReadBack(data, hdr)
        IN  \A i \in DOMAIN rs : rs[i].id + Len(rs) = next - 1 + i

(* Every record ends: rotations inside rotations come to an end, also when  *)
(* what they keep, or the record itself, does not fit.                      *)
RecordingEnds == rpc # "idle" ~> rpc \in {"idle", "off"}

=============================================================================
