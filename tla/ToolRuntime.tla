---------------------------- MODULE ToolRuntime ----------------------------
(***************************************************************************)
(* The agent's bounded, model-directed tool calls                           *)
(* (src/src/agent/tool_runtime.rs): runs of a conversation that ask a model  *)
(* over HTTP and call read-only tools, on workers that every run of the      *)
(* process shares.  Each worker is one thread behind a short queue.  A run   *)
(* waits for a job no longer than the job's deadline; the job stays where it *)
(* is, and what it says later has nobody to hear it.                         *)
(***************************************************************************)
EXTENDS Integers, Sequences, FiniteSets

CONSTANTS
    Runs,         \* runs of a conversation, one after or beside the other
    Backends,     \* Backends[r]: what run r may talk to, a set of kinds of backend
    Cancellable,  \* runs whose RunControl somebody holds: the window's, not the command line's
    Tools,        \* calls of registered tools with valid arguments
    ToolWorker,   \* which worker a tool runs on
    Refused,      \* a call of an unregistered tool or with invalid arguments
    Batches,      \* what a model may ask for in one message
    MaxRounds,    \* MAX_ROUNDS
    MaxCalls,     \* MAX_CALLS
    ResultBytes,  \* RESULT_BYTES
    TotalBytes,   \* TOTAL_BYTES
    Sizes,        \* sizes of a tool's result
    NoteBytes,    \* the longest output the runtime writes itself
    Capacity,     \* of a worker's queue: 2
    Budget, ToolTime, MetaTime, \* a run's time, a tool's, a metadata request's
    MaxTime,      \* bound of the model: the clock
    None

Workers == {"http", "tool", "legacy"}   \* HTTP_WORK, TOOL_WORK, LEGACY_WORK
Kinds == {"ollama", "local", "remote", "cli"}

ASSUME ToolRuntimeAssumption ==
    /\ {MaxRounds, MaxCalls, ResultBytes, NoteBytes, Capacity, Budget, ToolTime, MetaTime, MaxTime}
         \subseteq Nat
    /\ TotalBytes \in Nat /\ TotalBytes > 0 /\ Sizes \subseteq Nat
    /\ Backends \in [Runs -> SUBSET Kinds]
    /\ ToolWorker \in [Tools -> {"tool", "legacy"}]
    /\ Refused \notin Tools /\ None \notin Tools
    /\ Batches \subseteq Seq(Tools \cup {Refused})

VARIABLES
    now,        \* Instant::now()
    cancelled,  \* RunControl.cancelled of each run
    run,        \* the locals of query_with_tools_and_history of each run
    reply,      \* what a run's reply channel holds
    queue,      \* the jobs queued for each worker
    running,    \* the job each worker has in hand
    finished    \* history: the tool calls of each run that a worker has answered

vars == <<now, cancelled, run, reply, queue, running, finished>>

Min(a, b) == IF a < b THEN a ELSE b

\* Where a run is: "model" .. "text" wait for a job, each for its own purpose.
Waiting == {"model", "meta", "tool", "snapshot", "text"}
Places == {"idle", "round", "tools", "cli", "ended"} \cup Waiting

Run == [pc : Places, kind : Kinds, explaining : BOOLEAN, deadline : Nat, until : Nat,
        round : 0..MaxRounds, pending : Seq(Tools \cup {Refused}), used : 0..MaxCalls,
        bytes : Nat, asked : SUBSET (Tools \cup {Refused}), final : BOOLEAN, retried : BOOLEAN,
        calls : Nat, shown : SUBSET Nat, result : {None, "answer", "error"}]
Job == [run : Runs, call : Nat, purpose : Waiting, until : Nat]

\* What a job answers: a model its message, a tool that it succeeded or not; or an error.
Value == [kind : {"failed", "text", "empty", "thinking", "calls", "success", "failure"},
          batch : Seq(Tools \cup {Refused}), size : Nat]
ASSUME NoneAssumption ==
    None \notin {"answer", "error"} /\ None \notin Value /\ None \notin Job

Said(k) == [kind |-> k, batch |-> <<>>, size |-> 0]
Failed == Said("failed")

(***************************************************************************)
(* The types.  The bytes of tool output that a conversation holds pass the   *)
(* budget by less than one note of the runtime's own, so that what is left   *)
(* of it, computed before every call, is never negative.                     *)
(***************************************************************************)
TypeOK ==
    /\ now \in 0..MaxTime
    /\ cancelled \in [Runs -> BOOLEAN]
    /\ run \in [Runs -> Run]
    /\ \A r \in Runs : run[r].bytes <= TotalBytes + NoteBytes - 1 \/ run[r].bytes <= TotalBytes
    /\ reply \in [Runs -> Value \cup {None}]
    /\ queue \in [Workers -> Seq(Job)] /\ \A w \in Workers : Len(queue[w]) <= Capacity
    /\ running \in [Workers -> Job \cup {None}]
    /\ finished \in [Runs -> SUBSET Nat]

Fresh == [pc |-> "idle", kind |-> "remote", explaining |-> FALSE, deadline |-> 0, until |-> 0,
          round |-> 0, pending |-> <<>>, used |-> 0, bytes |-> 0, asked |-> {}, final |-> FALSE,
          retried |-> FALSE, calls |-> 0, shown |-> {}, result |-> None]

Init ==
    /\ now = 0
    /\ cancelled = [r \in Runs |-> FALSE]
    /\ run = [r \in Runs |-> Fresh]
    /\ reply = [r \in Runs |-> None]
    /\ queue = [w \in Workers |-> <<>>]
    /\ running = [w \in Workers |-> None]
    /\ finished = [r \in Runs |-> {}]

-----------------------------------------------------------------------------
(* A run's record from one step to the next                                 *)

\* RunControl::check fails.  The slip forgets the deadline.
OverIfCancelled(r, until) == cancelled[r]
Over(r, until) == cancelled[r] \/ now >= until

\* The run returns: of its locals the properties need three.
Ended(s, how) == [Fresh EXCEPT !.pc = "ended", !.result = how,
                               !.kind = s.kind, !.used = s.used, !.shown = s.shown]
NextRound(s) == [s EXCEPT !.pc = "round", !.round = @ + 1]

\* The output of a call goes into the conversation, or into the prompt of a CLI.
Output(s, bytes) ==
    IF s.pc = "snapshot" THEN [s EXCEPT !.pc = "cli"]
    ELSE [s EXCEPT !.pc = "tools", !.bytes = @ + bytes]

\* What a tool has said, when there is room for it; only its success is evidence.
Room(s) == IF s.pc = "snapshot" THEN ResultBytes ELSE Min(ResultBytes, TotalBytes - s.bytes)
Result(s, v) ==
    IF v.size > Room(s) THEN Output(s, NoteBytes)
    ELSE [Output(s, v.size) EXCEPT !.shown = IF v.kind = "success" THEN @ \cup {s.calls} ELSE @]

\* `work` has returned an error: metadata is done without, a tool's error is its output.
AfterError(r, s) ==
    IF s.pc = "meta" THEN NextRound(s)
    ELSE IF s.pc \in {"tool", "snapshot"} /\ ~Over(r, s.deadline) THEN Output(s, NoteBytes)
    ELSE Ended(s, "error")

\* `work` as far as the queue: s is the run's record, its pc the purpose of the job.
Work(r, w, s) ==
    IF Over(r, s.until) \/ Len(queue[w]) = Capacity
    THEN /\ run' = [run EXCEPT ![r] = AfterError(r, s)]
         /\ UNCHANGED queue
    ELSE /\ run' = [run EXCEPT ![r] = [s EXCEPT !.calls = @ + 1]]
         /\ queue' = [queue EXCEPT ![w] = Append(@,
                [run |-> r, call |-> s.calls + 1, purpose |-> s.pc, until |-> s.until])]

Becomes(r, s) == run' = [run EXCEPT ![r] = s] /\ UNCHANGED queue

-----------------------------------------------------------------------------
(* A run                                                                    *)

\* query_with_tools_and_history as far as the loop: a question that is too long, or a
\* backend that is off the host in offline mode, is refused.
Start(r) ==
    /\ run[r].pc = "idle" /\ now + Budget <= MaxTime
    /\ \/ Becomes(r, Ended(run[r], "error"))
       \/ \E kind \in Backends[r], explaining \in BOOLEAN :
              LET s == [run[r] EXCEPT !.kind = kind, !.explaining = explaining /\ kind # "cli",
                                      !.deadline = now + Budget]
              IN  IF kind # "cli" THEN Becomes(r, [s EXCEPT !.pc = "round"])
                  ELSE Work(r, "tool", [s EXCEPT !.pc = "snapshot", !.until = Min(now + Budget, now + ToolTime)])
    /\ UNCHANGED <<now, cancelled, reply, running, finished>>

\* The head of the loop, and the request of the model.
Ask(r) ==
    LET s == run[r] IN
    /\ s.pc = "round"
    /\ IF s.round = MaxRounds THEN Becomes(r, Ended(s, "error"))
       ELSE Work(r, "http", [s EXCEPT !.pc = "model", !.until = s.deadline])
    /\ UNCHANGED <<now, cancelled, reply, running, finished>>

\* The text backend is asked once.
AskText(r) ==
    /\ run[r].pc = "cli"
    /\ Work(r, "http", [run[r] EXCEPT !.pc = "text", !.until = run[r].deadline])
    /\ UNCHANGED <<now, cancelled, reply, running, finished>>

\* One tool call of the model's message.  The slip looks at the budget too late.
CallToolUnbudgeted(r) ==
    LET s == run[r] IN
    /\ s.pc = "tools" /\ s.pending # <<>>
    /\ LET c == Head(s.pending)
           t == [s EXCEPT !.pending = Tail(@), !.final = @ \/ c \in s.asked, !.asked = @ \cup {c}]
       IN IF c = Refused THEN Becomes(r, Output(t, NoteBytes))
          ELSE Work(r, ToolWorker[c], [t EXCEPT !.pc = "tool", !.until = Min(s.deadline, now + ToolTime)])
    /\ UNCHANGED <<now, cancelled, reply, running, finished>>
CallTool(r) ==
    LET s == run[r] IN
    /\ s.pc = "tools" /\ s.pending # <<>>
    /\ LET c == Head(s.pending)
           t == [s EXCEPT !.pending = Tail(@), !.final = @ \/ c \in s.asked, !.asked = @ \cup {c}]
       IN IF s.bytes >= TotalBytes THEN Becomes(r, Ended(s, "error"))
          ELSE IF c = Refused THEN Becomes(r, Output(t, NoteBytes))
          ELSE Work(r, ToolWorker[c], [t EXCEPT !.pc = "tool", !.until = Min(s.deadline, now + ToolTime)])
    /\ UNCHANGED <<now, cancelled, reply, running, finished>>

\* The calls are done; the conversation may have grown too long.
EndRound(r) ==
    /\ run[r].pc = "tools" /\ run[r].pending = <<>>
    /\ Becomes(r, NextRound(run[r])) \/ Becomes(r, Ended(run[r], "error"))
    /\ UNCHANGED <<now, cancelled, reply, running, finished>>

\* From some backends nothing but an answer is taken after a repeated request or in the
\* last round; from no backend when the question only asks to explain the last answer.
AnswerOnly(s) ==
    \/ s.explaining
    \/ s.kind \in {"ollama", "local"} /\ (s.final \/ s.round + 1 = MaxRounds)

\* An empty message: Ollama is asked once more, after its metadata when it has thought.
AfterEmpty(r, s, thought) ==
    IF s.kind = "ollama" /\ ~s.retried /\ s.round + 1 < MaxRounds
    THEN IF thought
         THEN Work(r, "http", [s EXCEPT !.pc = "meta", !.retried = TRUE,
                                        !.until = Min(s.deadline, now + MetaTime)])
         ELSE Becomes(r, NextRound([s EXCEPT !.retried = TRUE]))
    ELSE Becomes(r, Ended(s, "error"))

\* An answer without calls.  The slip counts a call as evidence whatever came of it.
AfterTextUnbacked(s) == Ended(s, "answer")
AfterText(s) == Ended(s, IF s.used > 0 /\ s.shown = {} THEN "error" ELSE "answer")

AfterCalls(s, batch) ==
    IF AnswerOnly(s) \/ s.used + Len(batch) > MaxCalls THEN Ended(s, "error")
    ELSE [s EXCEPT !.pc = "tools", !.used = @ + Len(batch), !.pending = batch]

\* `work` returns a value that came in time.
Hear(r) ==
    LET s == run[r]
        v == reply[r]
    IN
    /\ s.pc \in Waiting /\ v # None /\ v # Failed /\ ~Over(r, s.until)
    /\ \/ s.pc = "model" /\ v.kind = "text" /\ Becomes(r, AfterText(s))
       \/ s.pc = "model" /\ v.kind \in {"empty", "thinking"} /\ AfterEmpty(r, s, v.kind = "thinking")
       \/ s.pc = "model" /\ v.kind = "calls" /\ Becomes(r, AfterCalls(s, v.batch))
       \/ s.pc = "meta" /\ Becomes(r, NextRound(s))
       \/ s.pc \in {"tool", "snapshot"} /\ Becomes(r, Result(s, v))
       \/ s.pc = "text" /\ Becomes(r, Ended(s, "answer"))
    /\ reply' = [reply EXCEPT ![r] = None]
    /\ UNCHANGED <<now, cancelled, running, finished>>

\* `work` returns an error: the job has failed, or the run is cancelled or its time is up.
GiveUp(r) ==
    /\ run[r].pc \in Waiting
    /\ reply[r] = Failed \/ Over(r, run[r].until)
    /\ Becomes(r, AfterError(r, run[r]))
    /\ reply' = [reply EXCEPT ![r] = None]
    /\ UNCHANGED <<now, cancelled, running, finished>>

Cancel(r) ==
    /\ r \in Cancellable /\ ~cancelled[r] /\ run[r].pc \notin {"idle", "ended"}
    /\ cancelled' = [cancelled EXCEPT ![r] = TRUE]
    /\ UNCHANGED <<now, run, reply, queue, running, finished>>

-----------------------------------------------------------------------------
(* A worker                                                                 *)

\* The job's reply channel has a receiver.  The slip has one channel for a whole run.
HeededByRun(j) == run[j.run].pc \in Waiting
Heeded(j) == run[j.run].pc \in Waiting /\ run[j.run].calls = j.call

Answer(j, v) == reply' = [reply EXCEPT ![j.run] = IF Heeded(j) THEN v ELSE @]

\* The job at the head of the queue is not worth starting.  The slip starts any.
NeverDead(j) == FALSE
Dead(j) == cancelled[j.run] \/ now >= j.until

Skip(w) ==
    /\ running[w] = None /\ queue[w] # <<>> /\ Dead(Head(queue[w]))
    /\ queue' = [queue EXCEPT ![w] = Tail(@)]
    /\ Answer(Head(queue[w]), Failed)
    /\ UNCHANGED <<now, cancelled, run, running, finished>>

Begin(w) ==
    /\ running[w] = None /\ queue[w] # <<>> /\ ~Dead(Head(queue[w]))
    /\ queue' = [queue EXCEPT ![w] = Tail(@)]
    /\ running' = [running EXCEPT ![w] = Head(queue[w])]
    /\ UNCHANGED <<now, cancelled, run, reply, finished>>

Messages == {Said("text"), Said("empty"), Said("thinking")} \cup
            {[kind |-> "calls", batch |-> b, size |-> 0] : b \in Batches}
Results == {[kind |-> k, batch |-> <<>>, size |-> n] : k \in {"success", "failure"}, n \in Sizes}

\* What the job, were it to end now, could say; the task may panic, a request be answered
\* with an error, or with a message that the runtime cannot read: all end the run alike.
MaySay(j) ==
    {Failed} \cup IF j.purpose = "model" THEN Messages
                  ELSE IF j.purpose \in {"tool", "snapshot"} THEN Results ELSE {Said("text")}

\* The task ends, early or late.
Finish(w) ==
    /\ running[w] # None
    /\ \E v \in MaySay(running[w]) :
          /\ Answer(running[w], v)
          /\ finished' = IF v.kind = "success" /\ running[w].purpose = "tool"
                         THEN [finished EXCEPT ![running[w].run] = @ \cup {running[w].call}]
                         ELSE finished
    /\ running' = [running EXCEPT ![w] = None]
    /\ UNCHANGED <<now, cancelled, run, queue>>

Tick ==
    /\ now < MaxTime
    /\ now' = now + 1
    /\ UNCHANGED <<cancelled, run, reply, queue, running, finished>>

-----------------------------------------------------------------------------
RunStep(r) == Ask(r) \/ AskText(r) \/ CallTool(r) \/ EndRound(r) \/ Hear(r) \/ GiveUp(r)

Next ==
    \/ \E r \in Runs : Start(r) \/ Cancel(r) \/ RunStep(r)
    \/ \E w \in Workers : Skip(w) \/ Begin(w) \/ Finish(w)
    \/ Tick

\* A thread that waits polls every 50 ms, and time passes.  A worker owes nothing: a task
\* may never end.
Spec == Init /\ [][Next]_vars /\ (\A r \in Runs : WF_vars(RunStep(r))) /\ WF_vars(Tick)

-----------------------------------------------------------------------------
(* Properties                                                               *)

(***************************************************************************)
(* The evidence of an answer is real: each result that a conversation counts *)
(* as one is what a worker said of that very call, and not the late answer   *)
(* of a call given up before; and a run whose model has asked for tools      *)
(* answers only when at least one such result is in front of the model.      *)
(***************************************************************************)
EvidenceIsReal ==
    \A r \in Runs : LET s == run[r] IN
        /\ s.kind # "cli" => s.shown \subseteq finished[r]
        /\ s.result = "answer" /\ s.used > 0 => s.shown # {}

(***************************************************************************)
(* A worker never starts a job that nobody waits for any more: a run that    *)
(* gives up leaves its job in the queue, and by the time it is that job's    *)
(* turn the worker finds the same cancellation or the same deadline passed.  *)
(***************************************************************************)
AbandonedWorkNotStarted ==
    [][\A w \in Workers : running[w] = None /\ running'[w] # None => Heeded(running'[w])]_vars

(***************************************************************************)
(* A run that has started ends, with an answer or an error, although the     *)
(* task it waits for never ends and the queues stay full.                    *)
(***************************************************************************)
EveryRunEnds == \A r \in Runs : run[r].pc # "idle" ~> run[r].pc = "ended"
=============================================================================
