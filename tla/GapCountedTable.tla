-------------------------- MODULE GapCountedTable --------------------------
(***************************************************************************)
(* What a FleetSink promises (src/src/fleet_store/sink.rs, the header):     *)
(* rows are appended in the order of their generations, each at most once,  *)
(* only of generations that were published, and at every moment the two     *)
(* counts it reports account exactly for the table: one for the generations *)
(* written, one for the holes between them.                                 *)
(***************************************************************************)
EXTENDS Naturals, FiniteSets

VARIABLES
    latest,   \* the newest generation published
    rows,     \* the generations in the table
    stored,   \* the reported count of generations written
    skipped   \* the reported count of generations missed

vars == <<latest, rows, stored, skipped>>

\* The generations missing between two that are in the table.
Holes(S) == {g \in UNION {0..b : b \in S} : g \notin S /\ \E a \in S : a < g}

Init ==
    /\ latest = 0
    /\ rows = {}
    /\ stored = 0
    /\ skipped = 0

Publish ==
    /\ latest' \in Nat
    /\ latest' > latest
    /\ UNCHANGED <<rows, stored, skipped>>

Append(g) ==
    /\ \A r \in rows : r < g
    /\ rows' = rows \cup {g}
    /\ stored' = Cardinality(rows')
    /\ skipped' = Cardinality(Holes(rows'))
    /\ UNCHANGED latest

Next == Publish \/ \E g \in 1..latest : Append(g)

Spec == Init /\ [][Next]_vars

=============================================================================
