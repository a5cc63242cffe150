---------------------------- MODULE Observations ----------------------------
(***************************************************************************)
(* The agent's observation service                                          *)
(* (src/src/ai_api/observation_tools.rs): a poller and the calls of tools    *)
(* take the collector's published snapshot and put it into one store, under  *)
(* the store's lock but in whatever order they come to it.  The store keeps  *)
(* when the process and connection tables were read, and a log of events     *)
(* (EventManager, src/src/observability/events.rs) that a reader pages       *)
(* through with a cursor.                                                   *)
(*                                                                         *)
(* A few readings stand for all; one PID, which changes hands, for every row *)
(* of the two tables.  The collector is Collector.tla with the two stages of *)
(* a pass as steps of their own and the clock, in seconds, beside them.      *)
(***************************************************************************)
EXTENDS Integers, Sequences, FiniteSets

CONSTANTS
    Callers,      \* threads that call tools
    Poller,       \* the thread agent-observations
    Ids,          \* the readings that a snapshot lists
    Readings,     \* what may be read: "missing", "low" (below 90) or "high"
    Every,        \* process_ and connection_every_n_ticks: 2
    MaxEvents,    \* MAX_EVENTS
    Limit,        \* EventParams.limit
    MaxGen,       \* bound of the model: the collector's passes
    MaxOwners,    \* bound of the model: the processes that have the PID in turn
    MaxTime,      \* bound of the model: the clock, in seconds
    None

Actors == Callers \cup {Poller}
Tables == {"process", "connection"}

ASSUME ObservationsAssumption ==
    /\ Poller \notin Callers
    /\ IsFiniteSet(Ids)
    /\ Readings \subseteq {"missing", "low", "high"} /\ "missing" \in Readings
    /\ {Every, MaxEvents, Limit, MaxGen, MaxOwners} \subseteq Nat \ {0} /\ MaxTime \in Nat \ {0}
    /\ None \notin [gen : Nat, at : Nat]

VARIABLES
    now,      \* the clock of the machine, in seconds
    births,   \* the processes that have had the PID, in order: born in the second `at`,
              \* with a start time that may be a second less
    gen,      \* the collector: the generation of the pass under way or done
    todo,     \* stages of the pass that have not run
    sampled,  \* process_sampled, connections_sampled of the pass
    cached,   \* the tables as last read
    slot,     \* the published snapshot
    published, \* history: the second in which each pass was over
    held,     \* what each thread has taken from the slot and not yet ingested
    turn,     \* what each thread does next
    store,    \* Store without its log: the latest snapshot, and when its tables were read
    sequence, \* Store.event_sequence
    log,      \* EventManager.events
    reader    \* the client that pages: its cursor, what it saw, what it was told is lost

machine == <<now, births>>
collector == <<gen, todo, sampled, cached, slot, published>>
service == <<held, turn, store, sequence, log, reader>>
vars == <<machine, collector, service>>

\* A table holds the owner that the PID had when it was read, 0 if the PID is not in it,
\* and, as history, the generation of the pass that read it.
Table == [owner : 0..MaxOwners, gen : 0..MaxGen]
Snapshot == [gen : 0..MaxGen, warmup : BOOLEAN, at : Nat, reading : [Ids -> Readings],
             sampled : SUBSET Tables, tables : [Tables -> Table]]

\* process_at_ms and connections_at_ms, with the generation they come from as history.
Stamp == [at : Nat, gen : 0..MaxGen]
Store == [gen : 0..MaxGen, reading : [Ids -> Readings \cup {"absent"}], tables : [Tables -> Table],
          stamps : [Tables -> Stamp \cup {None}]]
Event == [sequence : Nat \ {0}, gen : 0..MaxGen]

(***************************************************************************)
(* The types, and the shape of the log: it ends with the last sequence       *)
(* number, has no gap, is never longer than its bound, and never goes back   *)
(* to an earlier generation, although threads take snapshots outside the     *)
(* lock.                                                                    *)
(***************************************************************************)
LogIsInOrder ==
    /\ Len(log) <= MaxEvents
    /\ Len(log) = 0 => sequence = 0
    /\ \A i \in 1..Len(log) :
          /\ log[i].sequence = sequence - Len(log) + i
          /\ log[i].gen <= store.gen
          /\ i > 1 => log[i - 1].gen <= log[i].gen

TypeOK ==
    /\ now \in 1..MaxTime
    /\ births \in Seq([at : Nat, start : Nat]) /\ Len(births) \in 1..MaxOwners
    /\ gen \in 0..MaxGen /\ todo \in SUBSET Tables /\ sampled \in SUBSET Tables
    /\ cached \in [Tables -> Table]
    /\ slot \in Snapshot /\ slot.gen \in {gen - 1, gen} \cap Nat
    /\ published \in Seq(1..MaxTime) /\ Len(published) = slot.gen
    /\ held \in [Actors -> Snapshot]
    /\ turn \in [Actors -> {"idle", "ingest", "answer"}]
    /\ store \in Store /\ store.gen <= slot.gen
    /\ sequence \in Nat /\ log \in Seq(Event) /\ LogIsInOrder
    /\ reader \in [cursor : 0..sequence, seen : SUBSET (1..sequence), lost : SUBSET (1..sequence)]

NoTable == [owner |-> 0, gen |-> 0]
NoSnapshot == [gen |-> 0, warmup |-> FALSE, at |-> 0, reading |-> [i \in Ids |-> "missing"], sampled |-> {},
               tables |-> [t \in Tables |-> NoTable]]

\* The PID's first owner has been there for a while.
Init ==
    /\ now = 1 /\ births = <<[at |-> 0, start |-> 0]>>
    /\ gen = 0 /\ todo = {} /\ sampled = {}
    /\ cached = NoSnapshot.tables /\ slot = NoSnapshot /\ published = <<>>
    /\ held = [a \in Actors |-> NoSnapshot] /\ turn = [a \in Actors |-> "idle"]
    /\ store = [gen |-> 0, reading |-> [i \in Ids |-> "absent"], tables |-> NoSnapshot.tables,
                stamps |-> [t \in Tables |-> None]]
    /\ sequence = 0 /\ log = <<>>
    /\ reader = [cursor |-> 0, seen |-> {}, lost |-> {}]

-----------------------------------------------------------------------------
(* The machine and the collector                                            *)

Tick == now < MaxTime /\ now' = now + 1 /\ UNCHANGED <<births, collector, service>>

\* The process ends, and its PID is given to a new one.  Its start time is the second of
\* the boot and the seconds from there, each of them rounded down.
Reuse ==
    /\ Len(births) < MaxOwners
    /\ \E start \in {now - 1, now} : births' = Append(births, [at |-> now, start |-> start])
    /\ UNCHANGED <<now, collector, service>>

\* The warm-up, generation 1, has no monitors: an empty list of connections, no processes.
BeginPass ==
    /\ gen < MaxGen /\ gen = slot.gen
    /\ gen' = gen + 1
    /\ todo' = IF gen' > 1 /\ gen' % Every = 0 THEN Tables ELSE {}
    /\ sampled' = IF gen' = 1 THEN {"connection"} ELSE {}
    /\ UNCHANGED <<cached, slot, published, machine, service>>

\* The stages run on threads of their own; one that ends in a panic leaves the table as it
\* was, and so does an error of the processes.  One of the connections does not: what has
\* been read replaces the table and counts as sampled.  A table may lack the row.
RunStage(t) ==
    /\ t \in todo
    /\ todo' = todo \ {t}
    /\ \/ /\ \E owner \in {0, Len(births)} :
                cached' = [cached EXCEPT ![t] = [owner |-> owner, gen |-> gen]]
          /\ sampled' = sampled \cup {t}
       \/ UNCHANGED <<cached, sampled>>
    /\ UNCHANGED <<gen, slot, published, machine, service>>

\* collected_at is the time at which the pass is over.
PublishPass ==
    /\ gen > slot.gen /\ todo = {}
    /\ published' = Append(published, now)
    /\ \E reading \in [Ids -> Readings] :
          slot' = [gen |-> gen, warmup |-> gen = 1, at |-> now, reading |-> reading,
                   sampled |-> sampled, tables |-> cached]
    /\ UNCHANGED <<gen, todo, sampled, cached, machine, service>>

-----------------------------------------------------------------------------
(* The service                                                              *)

\* refresh, first half: source.latest(), outside the lock.
Take(a) ==
    /\ turn[a] = "idle"
    /\ held' = [held EXCEPT ![a] = slot]
    /\ turn' = [turn EXCEPT ![a] = "ingest"]
    /\ UNCHANGED <<store, sequence, log, reader, machine, collector>>

\* Those of which an event is made: the reading has come or gone, or has risen to 90.
Changed(s) ==
    {i \in Ids :
        \/ store.reading[i] # "absent" /\ (store.reading[i] = "missing") # (s.reading[i] = "missing")
        \/ s.reading[i] = "high" /\ store.reading[i] # "high"}

\* EventManager::emit, for each of them: the oldest go.
Pushed(g, k) ==
    LET all == log \o [j \in 1..k |-> [sequence |-> sequence + j, gen |-> g]]
    IN  SubSeq(all, IF Len(all) > MaxEvents THEN Len(all) - MaxEvents + 1 ELSE 1, Len(all))

\* The table was read by the pass of this snapshot.  The slip takes any table for fresh.
FreshIfThere(s, t) == s.tables[t].owner # 0
IsFresh(s, t) == t \in s.sampled /\ ~s.warmup

Stored(s) ==
    [gen |-> s.gen, reading |-> s.reading, tables |-> s.tables,
     stamps |-> [t \in Tables |-> IF IsFresh(s, t) THEN [at |-> s.at, gen |-> s.gen]
                                  ELSE store.stamps[t]]]

\* The events of an ingest.
Emit(s, k) ==
    /\ sequence' = sequence + k
    /\ log' = Pushed(s.gen, k)

\* ingest, under the lock of the store.  The slip takes what it is given.
IngestAny(a) ==
    LET s == held[a] IN
    /\ turn[a] = "ingest"
    /\ turn' = [turn EXCEPT ![a] = IF a = Poller THEN "idle" ELSE "answer"]
    /\ held' = [held EXCEPT ![a] = NoSnapshot]
    /\ store' = Stored(s)
    /\ Emit(s, IF s.warmup THEN 0 ELSE Cardinality(Changed(s)))
    /\ UNCHANGED <<reader, machine, collector>>
Ingest(a) ==
    LET s == held[a] IN
    /\ turn[a] = "ingest"
    /\ turn' = [turn EXCEPT ![a] = IF a = Poller THEN "idle" ELSE "answer"]
    /\ held' = [held EXCEPT ![a] = NoSnapshot]
    /\ store' = IF s.gen <= store.gen THEN store ELSE Stored(s)
    /\ Emit(s, IF s.gen <= store.gen \/ s.warmup THEN 0 ELSE Cardinality(Changed(s)))
    /\ UNCHANGED <<reader, machine, collector>>

\* An answer out of the store; `wait` may look at it several times.
Answer(a) ==
    /\ turn[a] = "answer"
    /\ turn' = [turn EXCEPT ![a] = "idle"]
    /\ UNCHANGED <<held, store, sequence, log, reader, machine, collector>>

-----------------------------------------------------------------------------
(* query_events                                                             *)

Retained == {log[i].sequence : i \in 1..Len(log)}
Matching == {n \in Retained : n > reader.cursor}
Page == {n \in Matching : Cardinality({k \in Matching : k < n}) < Limit}
HasMore == Matching # Page

\* next_cursor.  The slip goes to the end.
NextSkips == sequence
NextCursor == IF HasMore THEN CHOOSE n \in Page : \A k \in Page : k <= n ELSE sequence

\* events_lost, from which the client knows that what precedes the log is gone.
LostBefore(after) ==
    {n \in 1..sequence : n > after /\ Retained # {} /\ \A k \in Retained : n < k}

ReadEvents(a) ==
    /\ turn[a] = "answer"
    /\ reader' = [cursor |-> NextCursor, seen |-> reader.seen \cup Page,
                  lost |-> reader.lost \cup LostBefore(reader.cursor)]
    /\ turn' = [turn EXCEPT ![a] = "idle"]
    /\ UNCHANGED <<held, store, sequence, log, machine, collector>>

-----------------------------------------------------------------------------
Next ==
    \/ Tick \/ Reuse
    \/ BeginPass \/ PublishPass \/ \E t \in Tables : RunStage(t)
    \/ \E a \in Actors : Take(a) \/ Ingest(a) \/ Answer(a) \/ ReadEvents(a)

Spec == Init /\ [][Next]_vars

-----------------------------------------------------------------------------
(* Properties                                                               *)

(***************************************************************************)
(* A client that always passes on the cursor it was given has, at any time,  *)
(* seen every event up to the cursor or been told that it is lost, whatever  *)
(* the pages, the overflows of the log and the refreshes in between.         *)
(***************************************************************************)
EveryEventSeenOrAnnounced ==
    /\ 1..reader.cursor \subseteq reader.seen \cup reader.lost
    /\ reader.seen \cap reader.lost = {}

(***************************************************************************)
(* A table is never said to be fresher than it is: the time beside the       *)
(* process table or the connections is that of the pass that read it or of   *)
(* an earlier one, never of a pass that only carried it over.                *)
(***************************************************************************)
StampsNotFresher ==
    \A t \in Tables : store.stamps[t] # None => store.stamps[t].gen <= store.tables[t].gen

\* connection_identity_verified.
Verified(start, at) == start + 1 <= at

\* What an answer about the PID says of its connections.
IsVerified ==
    LET stamp == store.stamps["connection"]
    IN  /\ store.tables["process"].owner # 0 /\ stamp # None
        /\ Verified(births[store.tables["process"].owner].start, stamp.at)

(***************************************************************************)
(* "A table from the same second could precede process creation, so it       *)
(* cannot establish identity": one that is said to establish it lists the    *)
(* connections of the process that is named.                                *)
(***************************************************************************)
IdentityHolds ==
    LET conns == store.tables["connection"]
    IN  IsVerified /\ conns.owner # 0 => store.tables["process"].owner = conns.owner

(***************************************************************************)
(* What it does establish: the process was there by the end of the second    *)
(* in which the pass that read the connections was over, although its start  *)
(* time may be a second early, snapshots are missed and tables carried over. *)
(***************************************************************************)
VerifiedWasBorn ==
    IsVerified =>
        births[store.tables["process"].owner].at <= published[store.tables["connection"].gen]

=============================================================================
