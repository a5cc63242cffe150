------------------------------ MODULE Sampler ------------------------------
(***************************************************************************)
(* The HTTP sampler (src/src/http_server/sampler.rs).  Requests mark the    *)
(* segments they read as wanted and wait, for a bounded time, on one        *)
(* condition variable; a single background thread runs one pass at a time   *)
(* over the most overdue wanted segment and publishes its sample.           *)
(*                                                                          *)
(* Every critical section of the state mutex is one action.  The mutex is   *)
(* released while a thread waits on the condition variable and while a pass *)
(* runs, and these are the places where steps interleave.                   *)
(***************************************************************************)
EXTENDS Naturals

CONSTANTS
    Clients,        \* threads that call sample_for
    Segments,       \* the segments, numbered in the order of their names
    None,           \* Option::None
    IdleAfter,      \* Timing::idle_after
    ResampleEvery,  \* Timing::resample_every
    Bound,          \* SAMPLE_BOUND, how long a request may wait
    LastCall,       \* bound of the model: the last request gets the lock by then
    MaxCalls,       \* bound of the model: requests in all
    MaxNow          \* bound of the model: the clock stops here

ASSUME SamplerAssumption ==
    /\ Segments \subseteq Nat
    /\ None \notin Nat
    /\ IdleAfter \in Nat /\ ResampleEvery \in Nat /\ Bound \in Nat
    /\ LastCall \in Nat /\ MaxCalls \in Nat /\ MaxNow \in Nat

VARIABLES
    now,         \* the monotonic clock
    wanted,      \* Slot::wanted_at of each segment
    taken,       \* Sample::taken of each segment's sample, None without one
    started,     \* State::started
    tpc,         \* where the sampler thread is
    seg,         \* the segment of the pass being run
    stamp,       \* the instant taken before the pass, to be its sample's stamp
    wakeAt,      \* when a parked thread's timed wait ends, None for no timer
    cpc,         \* where each client is in sample_for
    need,        \* the segments each client asked for
    deadline,    \* when each client's wait ends
    calls,       \* requests made so far, for the bound MaxCalls
    readerPass,  \* who holds READER_PASS: "free", "sampler" or another reader
    readFrom,    \* history: when the running pass began to read the hardware
    readAt       \* history: the same, for the sample each segment holds

state == <<wanted, taken, started>>
thread == <<tpc, seg, stamp, wakeAt>>
clients == <<cpc, need, deadline, calls>>
history == <<readFrom, readAt>>
vars == <<now, state, thread, clients, readerPass, history>>

Instants == Nat \cup {None}

TypeOK ==
    /\ now \in Nat
    /\ wanted \in [Segments -> Instants]
    /\ taken \in [Segments -> Instants]
    /\ started \in BOOLEAN
    /\ tpc \in {"none", "new", "pass", "reading", "publish", "parked", "woken", "dead"}
    /\ seg \in Segments \cup {None}
    /\ stamp \in Instants
    /\ wakeAt \in Instants
    /\ cpc \in [Clients -> {"idle", "called", "waiting", "woken"}]
    /\ need \in [Clients -> SUBSET Segments]
    /\ deadline \in [Clients -> Instants]
    /\ calls \in Nat
    /\ readFrom \in Instants
    /\ readAt \in [Segments -> Instants]
    /\ tpc \in {"pass", "reading", "publish"} => seg \in Segments /\ stamp \in Nat
    /\ tpc \in {"reading", "publish"} => readFrom \in Nat
    /\ tpc = "reading" <=> readerPass = "sampler"

Init ==
    /\ now = 0
    /\ wanted = [s \in Segments |-> None]
    /\ taken = [s \in Segments |-> None]
    /\ started = FALSE
    /\ tpc = "none"
    /\ seg = None
    /\ stamp = None
    /\ wakeAt = None
    /\ cpc = [c \in Clients |-> "idle"]
    /\ need = [c \in Clients |-> {}]
    /\ deadline = [c \in Clients |-> None]
    /\ calls = 0
    /\ readerPass = "free"
    /\ readFrom = None
    /\ readAt = [s \in Segments |-> None]

-----------------------------------------------------------------------------
(* Which segment the thread serves next, from the samples `tk`.             *)

\* A slip: a segment once wanted is wanted for ever.
WantedOnce(s) == wanted[s] # None

\* The segment was wanted within its idle window.
Live(s) == wanted[s] # None /\ now < wanted[s] + IdleAfter

\* A slip: a sample is due again from the moment it was taken.
DueAtTaken(tk, s) == IF tk[s] = None THEN now ELSE tk[s]
DueAt(tk, s) == IF tk[s] = None THEN now ELSE tk[s] + ResampleEvery

\* The wanted segments whose sample is due now, and those due later.
Due(tk) == {s \in Segments : Live(s) /\ DueAt(tk, s) <= now}
DueLater(tk) == {s \in Segments : Live(s) /\ DueAt(tk, s) > now}

\* A slip: the segments are served in the order of their names.
ByName(tk, s, t) == s < t

\* Never sampled before sampled, then the earlier instant, then the name.
Precedes(tk, s, t) ==
    LET key(x) == IF tk[x] = None THEN wanted[x] ELSE tk[x]
    IN  \/ tk[s] = None /\ tk[t] # None
        \/ /\ (tk[s] = None) = (tk[t] = None)
           /\ \/ key(s) < key(t)
              \/ key(s) = key(t) /\ s < t

MostOverdue(tk) == {s \in Due(tk) : \A t \in Due(tk) \ {s} : Precedes(tk, s, t)}

\* A plausible slip: the timer is armed for the segment due last.
LatestWake(tk) ==
    LET times == {DueAt(tk, s) : s \in DueLater(tk)}
    IN  IF times = {} THEN {None} ELSE {w \in times : \A v \in times : v <= w}

EarliestWake(tk) ==
    LET times == {DueAt(tk, s) : s \in DueLater(tk)}
    IN  IF times = {} THEN {None} ELSE {w \in times : \A v \in times : w <= v}

\* One turn of the thread's loop under the lock: begin a pass, or wait.
StartPass(tk) ==
    /\ \E s \in MostOverdue(tk) : seg' = s
    /\ tpc' = "pass"
    /\ stamp' = now
    /\ wakeAt' = None

Park(tk) ==
    /\ Due(tk) = {}
    /\ tpc' = "parked"
    /\ wakeAt' \in EarliestWake(tk)
    /\ seg' = None
    /\ stamp' = None

Decide(tk) == StartPass(tk) \/ Park(tk)

-----------------------------------------------------------------------------
(* sample_for.  A client is "called" before it has the lock, "waiting" on   *)
(* the condition variable, "woken" when its wait has returned and the lock  *)
(* is not yet its own, and "idle" again once it has its answer, the samples *)
(* or the list of the segments without one.                                 *)

Missing(tk, S) == {s \in S : tk[s] = None}

\* notify_all: every waiting client, and the parked thread, wakes.  The slips:
\* one of the two is not told.
ClientsNotTold == cpc
WakeClients == [c \in Clients |-> IF cpc[c] = "waiting" THEN "woken" ELSE cpc[c]]
ThreadNotTold == tpc
WakeThread == IF tpc = "parked" THEN "woken" ELSE tpc

\* The wait loop answers when no sample is missing or the deadline has passed.
\* The slip: only samples end the wait.
AnsweredBySamples(c) == Missing(taken, need[c]) = {}
Answered(c) == Missing(taken, need[c]) = {} \/ now >= deadline[c]

\* One turn of the wait loop, the lock held: return, the deadline and the segments
\* being locals, or wait on.
Answer(c, others) ==
    IF Answered(c)
    THEN /\ cpc' = [others EXCEPT ![c] = "idle"]
         /\ need' = [need EXCEPT ![c] = {}]
         /\ deadline' = [deadline EXCEPT ![c] = None]
    ELSE /\ cpc' = [others EXCEPT ![c] = "waiting"]
         /\ UNCHANGED <<need, deadline>>

\* A request for one segment (get) or for all of them (snapshot).
Requests == {{s} : s \in Segments} \cup {Segments}

\* The deadline is fixed before the lock is asked for.
Call(c) ==
    /\ cpc[c] = "idle"
    /\ now <= LastCall /\ calls < MaxCalls
    /\ calls' = calls + 1
    /\ \E S \in Requests : need' = [need EXCEPT ![c] = S]
    /\ deadline' = [deadline EXCEPT ![c] = now + Bound]
    /\ cpc' = [cpc EXCEPT ![c] = "called"]
    /\ UNCHANGED <<now, state, thread, readerPass, history>>

\* ensure_thread: the spawn may fail, and is then tried by the next request.
EnsureThread ==
    \/ /\ started
       /\ tpc' = WakeThread
       /\ UNCHANGED started
    \/ /\ ~started
       /\ started' = TRUE
       /\ tpc' = "new"
    \/ /\ ~started
       /\ UNCHANGED <<started, tpc>>

Mark(c) ==
    /\ cpc[c] = "called"
    /\ wanted' = [s \in Segments |-> IF s \in need[c] THEN now ELSE wanted[s]]
    /\ EnsureThread
    /\ Answer(c, WakeClients)
    /\ UNCHANGED <<now, taken, seg, stamp, wakeAt, calls, readerPass, history>>

Recheck(c) ==
    /\ cpc[c] = "woken"
    /\ Answer(c, cpc)
    /\ UNCHANGED <<now, state, thread, calls, readerPass, history>>

\* wait_timeout may return at any time, and does once the deadline has passed.
ClientWaitEnds(c) ==
    /\ cpc[c] = "waiting"
    /\ cpc' = [cpc EXCEPT ![c] = "woken"]
    /\ UNCHANGED <<now, state, thread, need, deadline, calls, readerPass, history>>

ClientTimesOut(c) == cpc[c] = "waiting" /\ now >= deadline[c] /\ ClientWaitEnds(c)

-----------------------------------------------------------------------------
(* run.  The thread is "new" until it first has the lock; in "pass" it      *)
(* waits for READER_PASS, in "reading" it holds it, in "publish" it waits   *)
(* for the state lock.                                                      *)

Begin ==
    /\ tpc = "new"
    /\ Decide(taken)
    /\ UNCHANGED <<now, state, clients, readerPass, history>>

\* A slip: the readers are read without their lock.
ReadersNotTaken ==
    /\ tpc = "pass"
    /\ tpc' = "reading"
    /\ readFrom' = now
    /\ UNCHANGED <<now, state, seg, stamp, wakeAt, clients, readerPass, readAt>>

TakeReaders ==
    /\ tpc = "pass"
    /\ readerPass = "free"
    /\ readerPass' = "sampler"
    /\ tpc' = "reading"
    /\ readFrom' = now
    /\ UNCHANGED <<now, state, seg, stamp, wakeAt, clients, readAt>>

EndRead ==
    /\ tpc = "reading"
    /\ readerPass' = "free"
    /\ tpc' = "publish"
    /\ UNCHANGED <<now, state, seg, stamp, wakeAt, clients, history>>

\* A reader panics: the guard of READER_PASS is dropped, its poison is ignored
\* by the next holder, and the sampler thread is gone.
Panic ==
    /\ tpc = "reading"
    /\ readerPass' = "free"
    /\ tpc' = "dead"
    /\ seg' = None
    /\ stamp' = None
    /\ readFrom' = None
    /\ UNCHANGED <<now, state, wakeAt, clients, readAt>>

\* A slip: the sample is stamped with the end of its pass.
PublishStampedAtEnd ==
    /\ tpc = "publish"
    /\ taken' = [taken EXCEPT ![seg] = now]
    /\ readAt' = [readAt EXCEPT ![seg] = readFrom]
    /\ readFrom' = None
    /\ cpc' = WakeClients
    /\ Decide(taken')
    /\ UNCHANGED <<now, wanted, started, need, deadline, calls, readerPass>>

\* The sample is stored under the lock, everyone is woken, and the loop turns
\* without giving the lock up.
Publish ==
    /\ tpc = "publish"
    /\ taken' = [taken EXCEPT ![seg] = stamp]
    /\ readAt' = [readAt EXCEPT ![seg] = readFrom]
    /\ readFrom' = None
    /\ cpc' = WakeClients
    /\ Decide(taken')
    /\ UNCHANGED <<now, wanted, started, need, deadline, calls, readerPass>>

ThreadWaitEnds ==
    /\ tpc = "parked"
    /\ tpc' = "woken"
    /\ UNCHANGED <<now, state, seg, stamp, wakeAt, clients, readerPass, history>>

TimerFires == wakeAt # None /\ now >= wakeAt /\ ThreadWaitEnds

Resume ==
    /\ tpc = "woken"
    /\ Decide(taken)
    /\ UNCHANGED <<now, state, clients, readerPass, history>>

Tick ==
    /\ now < MaxNow
    /\ now < LastCall \/ \A c \in Clients : cpc[c] # "called"
    /\ now' = now + 1
    /\ UNCHANGED <<state, thread, clients, readerPass, history>>

Client(c) == Call(c) \/ Mark(c) \/ Recheck(c) \/ ClientWaitEnds(c)
Thread == Begin \/ TakeReaders \/ EndRead \/ Panic \/ Publish \/ ThreadWaitEnds \/ Resume
Next == Tick \/ Thread \/ \E c \in Clients : Client(c)

(* The clock runs, every thread that can take a step of its own takes it,   *)
(* and a timed wait returns.  Requests, panics and early wakes owe nothing. *)
Fairness ==
    /\ WF_vars(Tick)
    /\ WF_vars(Begin) /\ WF_vars(EndRead) /\ WF_vars(Publish) /\ WF_vars(Resume)
    /\ WF_vars(TimerFires) /\ WF_vars(TakeReaders)
    /\ \A c \in Clients :
          WF_vars(Mark(c)) /\ WF_vars(Recheck(c)) /\ WF_vars(ClientTimesOut(c))

Spec == Init /\ [][Next]_vars /\ Fairness

-----------------------------------------------------------------------------

(* No wake-up is lost to the thread: while it is parked, its timer covers   *)
(* every segment somebody still wants, whatever requests, samples and       *)
(* clock steps came since it looked (run and sample_for's notify_all).      *)
ParkedThreadMissesNothing ==
    tpc = "parked" =>
        \A s \in Segments : Live(s) =>
            /\ taken[s] # None
            /\ wakeAt # None /\ wakeAt <= taken[s] + ResampleEvery

(* No wake-up is lost to a client: one that is still waiting on the         *)
(* condition variable lacks a sample (the notify_all after each pass).      *)
WaitingClientLacksASample ==
    \A c \in Clients : cpc[c] = "waiting" => Missing(taken, need[c]) # {}

(* A sample never appears fresher than it is: its stamp is no later than    *)
(* the moment the hardware began to be read for it, however long the pass   *)
(* waited for READER_PASS or ran ("stamped with the start of the pass").    *)
NeverFresherThanRead ==
    \A s \in Segments : taken[s] # None => readAt[s] # None /\ taken[s] <= readAt[s]

(* Concurrent requests share passes: two successive samples of a segment    *)
(* are a resample interval apart, however many requests asked for it.       *)
ResampleSpacing ==
    [][\A s \in Segments :
          taken'[s] # taken[s] /\ taken[s] # None => taken'[s] >= taken[s] + ResampleEvery]_vars

(* Every request is answered, by its deadline or soon after: even when the  *)
(* thread could not be started, died, or is stuck in a long pass.           *)
EveryRequestAnswered ==
    \A c \in Clients : cpc[c] = "called" ~> cpc[c] = "idle"

(* Once requests stop, the thread ends parked with no timer and no pass     *)
(* pending, unless it never ran or died: an idle server does no work.       *)
IdleServerIsQuiet ==
    <>[](tpc \in {"none", "dead"} \/ (tpc = "parked" /\ wakeAt = None)
         \/ (tpc = "woken" /\ wakeAt = None /\ \A s \in Segments : ~Live(s)))

(* "A panicking reader must not wedge every later request": a wanted        *)
(* segment is sampled, unless it stops being wanted first.                  *)
LaterRequestsAreServed ==
    \A s \in Segments : (started /\ wanted[s] # None) ~> (taken[s] # None \/ ~Live(s))

=============================================================================
