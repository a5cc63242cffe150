------------------------- MODULE ToolRuntime_proofs -------------------------
(***************************************************************************)
(* What TLAPS proves of the agent's tool runtime, for every number of runs,  *)
(* tools and workers' queues and all bounds.                                *)
(***************************************************************************)
EXTENDS ToolRuntime, TLAPS

\* A run by itself.  Within a round there is a round left to count; a tool is called only
\* when there is budget; a command-line backend is never asked for tools; an answer out of
\* tools has evidence.
RunOK(s) ==
    /\ s \in Run
    /\ s.bytes <= TotalBytes + NoteBytes - 1 \/ s.bytes <= TotalBytes
    /\ s.pc \in {"model", "meta", "tool", "tools"} => s.round < MaxRounds
    /\ s.pc = "tool" => s.bytes < TotalBytes
    /\ IF s.kind = "cli" THEN s.used = 0 /\ s.pc \in {"snapshot", "cli", "text", "ended"}
       ELSE s.pc \notin {"snapshot", "cli", "text"}
    /\ s.pc # "ended" => s.result = None
    /\ s.pc = "idle" => s.shown = {} /\ s.used = 0
    /\ s.result = "answer" /\ s.used > 0 => s.shown # {}

\* The results it counts as evidence are real.
Backed(r, s) == s.kind # "cli" => s.shown \subseteq finished[r]

RunsOK == \A r \in Runs : RunOK(run[r]) /\ Backed(r, run[r])

\* The jobs of a worker: the one in hand at place 0, the queue behind it.
InUse(w, i) == IF i = 0 THEN running[w] # None ELSE i <= Len(queue[w])
JobAt(w, i) == IF i = 0 THEN running[w] ELSE queue[w][i]

\* A job is one of the past, or the one its run waits for, which has no reply yet.
Known(j) ==
    /\ run[j.run].pc = "ended" \/ j.call <= run[j.run].calls
    /\ Heeded(j) => /\ j.purpose = run[j.run].pc /\ j.until = run[j.run].until
                    /\ reply[j.run] = None
JobsKnown ==
    \A w \in Workers, i \in Nat : InUse(w, i) =>
       /\ Known(JobAt(w, i))
       /\ i # 0 => Heeded(JobAt(w, i)) \/ Dead(JobAt(w, i))

JobsDistinct ==
    \A w, v \in Workers, i, k \in Nat :
       InUse(w, i) /\ InUse(v, k) /\ JobAt(w, i).run = JobAt(v, k).run
       /\ JobAt(w, i).call = JobAt(v, k).call => w = v /\ i = k

\* Who has a reply waits for it, and a tool's success is that of the call it waits for.
Replies ==
    \A r \in Runs : reply[r] # None =>
       /\ run[r].pc \in Waiting
       /\ reply[r].kind = "success" /\ run[r].pc = "tool" => run[r].calls \in finished[r]

Inv == TypeOK /\ RunsOK /\ JobsKnown /\ JobsDistinct /\ Replies

-----------------------------------------------------------------------------
(* The record of a run                                                      *)

LEMMA Numbers ==
    /\ {MaxRounds, MaxCalls, ResultBytes, NoteBytes, Capacity, Budget, ToolTime, MetaTime, MaxTime,
        TotalBytes} \subseteq Nat
    /\ TotalBytes > 0 /\ Sizes \subseteq Nat /\ Batches \subseteq Seq(Tools \cup {Refused})
    /\ Backends \in [Runs -> SUBSET Kinds] /\ ToolWorker \in [Tools -> {"tool", "legacy"}]
    /\ None # "answer" /\ None # "error" /\ None \notin Value /\ None \notin Job
BY ToolRuntimeAssumption, NoneAssumption

LEMMA FreshOK == RunOK(Fresh) /\ Fresh \in Run
BY Numbers DEF RunOK, Fresh, Run, Places, Waiting, Kinds

\* A run that returns, with an error or with an answer that has its evidence.
LEMMA EndedOK ==
    ASSUME NEW s \in Run, NEW how \in {"answer", "error"}, s.kind = "cli" => s.used = 0,
           how = "answer" /\ s.used > 0 => s.shown # {}
    PROVE  /\ RunOK(Ended(s, how)) /\ Ended(s, how).pc = "ended"
           /\ Ended(s, how).kind = s.kind /\ Ended(s, how).shown = s.shown
<1>1. Ended(s, how) \in Run
  BY FreshOK DEF Ended, Run, Places
<1>2. /\ Ended(s, how).pc = "ended" /\ Ended(s, how).result = how /\ Ended(s, how).kind = s.kind
      /\ Ended(s, how).used = s.used /\ Ended(s, how).shown = s.shown /\ Ended(s, how).bytes = 0
  BY FreshOK DEF Ended, Run, Fresh
<1>3. QED
  BY <1>1, <1>2, Numbers DEF RunOK

\* The output of a call leaves the budget as the type invariant says.
LEMMA OutputOK ==
    ASSUME NEW s, RunOK(s), s.pc \in {"tool", "snapshot"}, NEW n \in Nat,
           n <= NoteBytes \/ s.bytes + n <= TotalBytes
    PROVE  /\ RunOK(Output(s, n)) /\ Output(s, n).pc \in {"tools", "cli"}
           /\ Output(s, n).kind = s.kind /\ Output(s, n).shown = s.shown
           /\ Output(s, n).calls = s.calls
<1>1. s \in Run /\ s.bytes \in Nat /\ s.pc # "ended" /\ s.pc # "idle"
  BY DEF RunOK, Run
<1>2. CASE s.pc = "snapshot"
  <2>1. Output(s, n) = [s EXCEPT !.pc = "cli"]
    BY <1>2 DEF Output
  <2>2. Output(s, n) \in Run
    BY <1>1, <2>1 DEF Run, Places
  <2>3. /\ Output(s, n).pc = "cli" /\ Output(s, n).kind = s.kind /\ Output(s, n).shown = s.shown
        /\ Output(s, n).calls = s.calls /\ Output(s, n).bytes = s.bytes
        /\ Output(s, n).used = s.used /\ Output(s, n).result = s.result
    BY <1>1, <2>1 DEF Run
  <2>4. QED
    BY <1>1, <1>2, <2>2, <2>3 DEF RunOK
<1>3. CASE s.pc = "tool"
  <2>1. Output(s, n) = [s EXCEPT !.pc = "tools", !.bytes = @ + n]
    BY <1>3 DEF Output
  <2>2. Output(s, n) \in Run
    <3>1. s.bytes + n \in Nat /\ "tools" \in Places
      BY <1>1 DEF Places
    <3>2. QED
      BY <1>1, <2>1, <3>1 DEF Run
  <2>3. /\ Output(s, n).pc = "tools" /\ Output(s, n).kind = s.kind /\ Output(s, n).shown = s.shown
        /\ Output(s, n).calls = s.calls /\ Output(s, n).bytes = s.bytes + n
        /\ Output(s, n).used = s.used /\ Output(s, n).result = s.result
        /\ Output(s, n).round = s.round
    BY <1>1, <2>1 DEF Run
  <2>4. \/ Output(s, n).bytes <= TotalBytes + NoteBytes - 1
        \/ Output(s, n).bytes <= TotalBytes
    BY <1>1, <1>3, <2>3, Numbers DEF RunOK
  <2>5. QED
    BY <1>1, <1>3, <2>2, <2>3, <2>4 DEF RunOK
<1>4. QED
  BY <1>2, <1>3

LEMMA NextRoundOK ==
    ASSUME NEW s, RunOK(s), s.pc \in {"model", "meta", "tools"}
    PROVE  /\ RunOK(NextRound(s)) /\ NextRound(s).pc = "round"
           /\ NextRound(s).kind = s.kind /\ NextRound(s).shown = s.shown
           /\ NextRound(s).calls = s.calls
<1>1. s \in Run /\ s.round \in Nat /\ s.round < MaxRounds
  BY Numbers DEF RunOK, Run
<1>2. NextRound(s) \in Run
  <2>1. s.round + 1 \in 0..MaxRounds /\ "round" \in Places
    BY <1>1, Numbers DEF Places
  <2>2. QED
    BY <1>1, <2>1 DEF NextRound, Run
<1>3. /\ NextRound(s).pc = "round" /\ NextRound(s).kind = s.kind /\ NextRound(s).shown = s.shown
      /\ NextRound(s).calls = s.calls /\ NextRound(s).bytes = s.bytes
      /\ NextRound(s).used = s.used /\ NextRound(s).result = s.result
  BY <1>1 DEF NextRound, Run
<1>4. QED
  BY <1>2, <1>3 DEF RunOK

\* What a run becomes when `work` fails.
LEMMA AfterErrorOK ==
    ASSUME NEW r \in Runs, NEW s, RunOK(s), s.pc \in Waiting
    PROVE  /\ RunOK(AfterError(r, s)) /\ AfterError(r, s).pc \notin Waiting
           /\ AfterError(r, s).kind = s.kind /\ AfterError(r, s).shown = s.shown
           /\ AfterError(r, s).pc = "ended" \/ AfterError(r, s).calls = s.calls
<1>1. CASE s.pc = "meta"
  BY <1>1, NextRoundOK DEF AfterError, Waiting
<1>2. CASE s.pc \in {"tool", "snapshot"} /\ ~Over(r, s.deadline)
  <2>1. NoteBytes \in Nat /\ NoteBytes <= NoteBytes
    BY Numbers
  <2>2. QED
    BY <1>2, <2>1, OutputOK DEF AfterError, Waiting
<1>3. CASE s.pc # "meta" /\ ~(s.pc \in {"tool", "snapshot"} /\ ~Over(r, s.deadline))
  <2>1. s \in Run /\ (s.kind = "cli" => s.used = 0)
    BY DEF RunOK
  <2>2. AfterError(r, s) = Ended(s, "error")
    BY <1>3 DEF AfterError
  <2>3. QED
    BY <2>1, <2>2, EndedOK, Zenon DEF Waiting
<1>4. QED
  BY <1>1, <1>2, <1>3

-----------------------------------------------------------------------------
(* A step of a run                                                          *)

\* The step ends a wait, or none was: the queues stay.  Or it sends a job to a worker.
Leaves(r, t) ==
    /\ run' = [run EXCEPT ![r] = t] /\ queue' = queue
    /\ t.pc \notin Waiting /\ (t.pc = "ended" \/ t.calls = run[r].calls)
Sends(r, w, t) ==
    /\ run' = [run EXCEPT ![r] = t] /\ Len(queue[w]) # Capacity
    /\ t.pc \in Waiting /\ t.calls = run[r].calls + 1
    /\ queue' = [queue EXCEPT ![w] = Append(@,
          [run |-> r, call |-> t.calls, purpose |-> t.pc, until |-> t.until])]
Goes(r) ==
    \E t : /\ RunOK(t) /\ Backed(r, t)
           /\ Leaves(r, t) \/ \E w \in Workers : Sends(r, w, t)

LEMMA BecomesGoes ==
    ASSUME NEW r \in Runs, NEW t, Becomes(r, t), RunOK(t), Backed(r, t), t.pc \notin Waiting,
           t.pc = "ended" \/ t.calls = run[r].calls
    PROVE  Goes(r)
BY DEF Becomes, Goes, Leaves

LEMMA WorkGoes ==
    ASSUME NEW r \in Runs, NEW w \in Workers, NEW s, Work(r, w, s), RunOK(s), Backed(r, s),
           s.pc \in Waiting, s.calls = run[r].calls
    PROVE  Goes(r)
<1>1. CASE Over(r, s.until) \/ Len(queue[w]) = Capacity
  <2> DEFINE t == AfterError(r, s)
  <2>1. run' = [run EXCEPT ![r] = t] /\ queue' = queue
    BY <1>1 DEF Work
  <2>2. /\ RunOK(t) /\ t.pc \notin Waiting /\ t.kind = s.kind /\ t.shown = s.shown
        /\ t.pc = "ended" \/ t.calls = s.calls
    BY AfterErrorOK
  <2> HIDE DEF t
  <2>3. QED
    BY <2>1, <2>2 DEF Goes, Leaves, Backed
<1>2. CASE ~(Over(r, s.until) \/ Len(queue[w]) = Capacity)
  <2> DEFINE t == [s EXCEPT !.calls = @ + 1]
  <2>1. s \in Run /\ s.calls \in Nat
    BY DEF RunOK, Run
  <2>2. /\ run' = [run EXCEPT ![r] = t] /\ Len(queue[w]) # Capacity
        /\ queue' = [queue EXCEPT ![w] = Append(@,
              [run |-> r, call |-> s.calls + 1, purpose |-> s.pc, until |-> s.until])]
    BY <1>2 DEF Work
  <2>3. t \in Run
    BY <2>1 DEF Run
  <2>4. /\ t.pc = s.pc /\ t.kind = s.kind /\ t.shown = s.shown /\ t.calls = s.calls + 1
        /\ t.bytes = s.bytes /\ t.round = s.round /\ t.used = s.used /\ t.result = s.result
        /\ t.until = s.until
    BY <2>1 DEF Run
  <2> HIDE DEF t
  <2>5. RunOK(t) /\ Backed(r, t)
    BY <2>3, <2>4 DEF RunOK, Backed
  <2>6. Sends(r, w, t)
    BY <2>2, <2>4 DEF Sends
  <2>7. QED
    BY <2>5, <2>6 DEF Goes
<1>3. QED
  BY <1>1, <1>2

\* The parts of a record that a run sets before it waits.
LEMMA Prepared ==
    ASSUME NEW s \in Run, RunOK(s), NEW pc \in Waiting, NEW until \in Nat,
           NEW t \in Run, t.pc = pc, t.kind = s.kind, t.used = s.used, t.shown = s.shown,
           t.result = s.result, t.bytes = s.bytes, t.round = s.round, t.calls = s.calls,
           s.pc # "ended", s.pc # "idle",
           pc \in {"model", "meta", "tool"} => s.kind # "cli" /\ s.round < MaxRounds,
           pc \in {"snapshot", "text"} => s.kind = "cli",
           pc = "tool" => s.bytes < TotalBytes
    PROVE  RunOK(t)
BY DEF RunOK, Waiting

LEMMA StartGoes ==
    ASSUME TypeOK, RunsOK, NEW r \in Runs, Start(r)
    PROVE  Goes(r)
<1> DEFINE s == run[r]
<1>1. /\ s \in Run /\ RunOK(s) /\ Backed(r, s) /\ s.pc = "idle" /\ now \in Nat
      /\ s.kind # "cli" /\ s.shown = {} /\ s.used = 0 /\ s.result = None /\ s.bytes \in Nat
  <2>1. now \in Nat /\ s.pc = "idle" /\ s \in Run /\ RunOK(s) /\ Backed(r, s)
    <3>1. now \in Nat /\ s.pc = "idle"
      <4>1. now \in Nat
        BY Numbers DEF TypeOK
      <4>2. s.pc = "idle"
        BY DEF Start
      <4>3. QED
        BY <4>1, <4>2
    <3>2. RunOK(s) /\ Backed(r, s)
      BY DEF RunsOK
    <3>3. QED
      BY <3>1, <3>2 DEF RunOK
  <2>2. QED
    BY <2>1 DEF RunOK, Run
<1>2. CASE Becomes(r, Ended(s, "error"))
  <2> DEFINE t == Ended(s, "error")
  <2>1. RunOK(t) /\ t.pc = "ended" /\ t.kind = s.kind /\ t.shown = s.shown
    BY <1>1, EndedOK
  <2> HIDE DEF t
  <2>2. Backed(r, t) /\ t.pc \notin Waiting
    BY <1>1, <2>1 DEF Backed, Waiting
  <2>3. QED
    BY <1>2, <2>1, <2>2, BecomesGoes DEF t
<1>3. ASSUME NEW kind \in Backends[r], NEW explaining \in BOOLEAN,
             LET u == [run[r] EXCEPT !.kind = kind, !.explaining = explaining /\ kind # "cli",
                                     !.deadline = now + Budget]
             IN  IF kind # "cli" THEN Becomes(r, [u EXCEPT !.pc = "round"])
                 ELSE Work(r, "tool", [u EXCEPT !.pc = "snapshot",
                                                !.until = Min(now + Budget, now + ToolTime)])
      PROVE  Goes(r)
  <2> DEFINE u == [s EXCEPT !.kind = kind, !.explaining = explaining /\ kind # "cli",
                            !.deadline = now + Budget]
  <2>1. kind \in Kinds /\ now + Budget \in Nat /\ Min(now + Budget, now + ToolTime) \in Nat
    BY <1>1, Numbers DEF Min
  <2>2. u \in Run
    BY <1>1, <2>1 DEF Run
  <2>3. /\ u.kind = kind /\ u.shown = {} /\ u.calls = s.calls /\ u.bytes = s.bytes
        /\ u.used = s.used /\ u.result = None /\ u.round = s.round
    BY <1>1 DEF Run
  <2>4. CASE kind # "cli"
    <3> DEFINE v == [u EXCEPT !.pc = "round"]
    <3>1. v \in Run
      BY <2>2 DEF Run, Places
    <3>2. /\ v.pc = "round" /\ v.kind = kind /\ v.shown = {} /\ v.calls = s.calls
          /\ v.bytes = s.bytes /\ v.used = s.used /\ v.result = None /\ v.round = s.round
      BY <2>2, <2>3 DEF Run
    <3>3. Becomes(r, v)
      BY <1>3, <2>4
    <3> HIDE DEF v
    <3>4. RunOK(v) /\ Backed(r, v) /\ v.pc \notin Waiting
      BY <1>1, <2>4, <3>1, <3>2, Numbers DEF RunOK, Backed, Waiting
    <3>5. QED
      BY <3>2, <3>3, <3>4, BecomesGoes
  <2>5. CASE kind = "cli"
    <3> DEFINE v == [u EXCEPT !.pc = "snapshot", !.until = Min(now + Budget, now + ToolTime)]
    <3>1. v \in Run
      <4>1. "snapshot" \in Places
        BY DEF Places, Waiting
      <4> HIDE DEF u
      <4>2. QED
        BY <2>1, <2>2, <4>1 DEF Run
    <3>2. /\ v.pc = "snapshot" /\ v.kind = kind /\ v.shown = {} /\ v.calls = s.calls
          /\ v.bytes = s.bytes /\ v.used = s.used /\ v.result = None /\ v.round = s.round
      BY <2>2, <2>3 DEF Run
    <3>3. Work(r, "tool", v)
      BY <1>3, <2>5
    <3> HIDE DEF v
    <3>4. RunOK(v) /\ Backed(r, v) /\ v.pc \in Waiting
      BY <1>1, <2>5, <3>1, <3>2, Numbers DEF RunOK, Backed, Waiting
    <3>5. QED
      BY <3>2, <3>3, <3>4, WorkGoes DEF Workers
  <2>6. QED
    BY <2>4, <2>5
<1>4. QED
  BY <1>2, <1>3 DEF Start

\* What the steps of a run that has started have in common.
LEMMA AtWork ==
    ASSUME TypeOK, RunsOK, NEW r \in Runs
    PROVE  /\ run[r] \in Run /\ RunOK(run[r]) /\ Backed(r, run[r]) /\ now \in Nat
           /\ run[r].kind = "cli" => run[r].used = 0
           /\ run[r].deadline \in Nat /\ run[r].bytes \in Nat /\ run[r].round \in 0..MaxRounds
           /\ run[r].calls \in Nat /\ run[r].used \in 0..MaxCalls
<1> DEFINE s == run[r]
<1>1. now \in Nat
  BY Numbers DEF TypeOK
<1>2. RunOK(s) /\ Backed(r, s)
  BY DEF RunsOK
<1> HIDE DEF s
<1>3. s \in Run /\ (s.kind = "cli" => s.used = 0)
  BY <1>2 DEF RunOK
<1>4. s.deadline \in Nat /\ s.bytes \in Nat /\ s.round \in 0..MaxRounds /\ s.calls \in Nat /\ s.used \in 0..MaxCalls
  BY <1>3 DEF Run
<1>5. QED
  BY <1>1, <1>2, <1>3, <1>4 DEF s

LEMMA EndedGoes ==
    ASSUME TypeOK, RunsOK, NEW r \in Runs, NEW how \in {"answer", "error"},
           how = "answer" /\ run[r].used > 0 => run[r].shown # {}, Becomes(r, Ended(run[r], how))
    PROVE  Goes(r)
<1> DEFINE t == Ended(run[r], how)
<1>1. RunOK(t) /\ t.pc = "ended" /\ t.kind = run[r].kind /\ t.shown = run[r].shown
  BY AtWork, EndedOK
<1>2. Becomes(r, t)
  OBVIOUS
<1> HIDE DEF t
<1>3. Backed(r, t) /\ t.pc \notin Waiting
  BY <1>1, AtWork DEF Backed, Waiting
<1>4. QED
  BY <1>1, <1>2, <1>3, BecomesGoes

LEMMA AskGoes ==
    ASSUME TypeOK, RunsOK, NEW r \in Runs, Ask(r) \/ AskText(r)
    PROVE  Goes(r)
<1> DEFINE s == run[r]
           t(pc) == [s EXCEPT !.pc = pc, !.until = s.deadline]
<1>1. ASSUME NEW pc \in {"model", "text"}
      PROVE  /\ t(pc) \in Run /\ t(pc).pc = pc /\ t(pc).kind = s.kind /\ t(pc).shown = s.shown
             /\ t(pc).calls = s.calls /\ t(pc).bytes = s.bytes /\ t(pc).used = s.used
             /\ t(pc).result = s.result /\ t(pc).round = s.round
  BY AtWork DEF Run, Places, Waiting
<1>2. CASE Ask(r) /\ s.round = MaxRounds
  <2>1. Becomes(r, Ended(s, "error"))
    BY <1>2 DEF Ask
  <2>2. QED
    BY <2>1, EndedGoes
<1>3. CASE Ask(r) /\ s.round # MaxRounds
  <2> DEFINE u == t("model")
  <2>1. Work(r, "http", u) /\ s.pc = "round"
    BY <1>3 DEF Ask
  <2>2. /\ u \in Run /\ u.pc = "model" /\ u.kind = s.kind /\ u.shown = s.shown
        /\ u.calls = s.calls /\ u.bytes = s.bytes /\ u.used = s.used
        /\ u.result = s.result /\ u.round = s.round
    BY <1>1
  <2> HIDE DEF u, t
  <2>3. u.round < MaxRounds
    BY <1>3, <2>2, AtWork, Numbers
  <2>4. RunOK(u) /\ Backed(r, u) /\ u.pc \in Waiting
    BY <2>1, <2>2, <2>3, AtWork DEF RunOK, Backed, Waiting
  <2>5. QED
    BY <2>1, <2>2, <2>4, WorkGoes DEF Workers
<1>4. CASE AskText(r)
  <2> DEFINE u == t("text")
  <2>1. Work(r, "http", u) /\ s.pc = "cli"
    BY <1>4 DEF AskText
  <2>2. /\ u \in Run /\ u.pc = "text" /\ u.kind = s.kind /\ u.shown = s.shown
        /\ u.calls = s.calls /\ u.bytes = s.bytes /\ u.used = s.used
        /\ u.result = s.result /\ u.round = s.round
    BY <1>1
  <2> HIDE DEF u, t
  <2>3. RunOK(u) /\ Backed(r, u) /\ u.pc \in Waiting
    BY <2>1, <2>2, AtWork DEF RunOK, Backed, Waiting
  <2>4. QED
    BY <2>1, <2>2, <2>3, WorkGoes DEF Workers
<1>5. QED
  BY <1>2, <1>3, <1>4

LEMMA CallGoes ==
    ASSUME TypeOK, RunsOK, NEW r \in Runs, CallTool(r)
    PROVE  Goes(r)
<1> DEFINE s == run[r]
           c == Head(s.pending)
           until == Min(s.deadline, now + ToolTime)
           t == [s EXCEPT !.pending = Tail(@), !.final = @ \/ c \in s.asked, !.asked = @ \cup {c}]
<1>1. /\ s \in Run /\ RunOK(s) /\ Backed(r, s) /\ s.pc = "tools" /\ s.pending # <<>>
      /\ s.bytes \in Nat /\ s.pending \in Seq(Tools \cup {Refused})
  BY AtWork DEF CallTool, Run
<1>2. c \in Tools \cup {Refused} /\ Tail(s.pending) \in Seq(Tools \cup {Refused}) /\ until \in Nat
  <2>1. until \in Nat
    BY AtWork, Numbers DEF Min
  <2>2. QED
    BY <1>1, <2>1
<1>3. t \in Run
  <2>1. (s.final \/ c \in s.asked) \in BOOLEAN /\ s.asked \cup {c} \subseteq Tools \cup {Refused}
    BY <1>1, <1>2 DEF Run
  <2>2. QED
    BY <1>1, <1>2, <2>1 DEF Run
<1>4. /\ t.pc = "tools" /\ t.kind = s.kind /\ t.shown = s.shown /\ t.calls = s.calls
      /\ t.bytes = s.bytes /\ t.used = s.used /\ t.result = s.result /\ t.round = s.round
  BY <1>1 DEF Run
<1>5. CASE s.bytes >= TotalBytes
  <2>1. Becomes(r, Ended(s, "error"))
    BY <1>5 DEF CallTool
  <2>2. QED
    BY <2>1, EndedGoes
<1>6. CASE ~(s.bytes >= TotalBytes) /\ c = Refused
  <2> DEFINE u == Output(t, NoteBytes)
  <2>1. Becomes(r, u)
    BY <1>6 DEF CallTool
  <2>2. u = [t EXCEPT !.pc = "tools", !.bytes = @ + NoteBytes]
    BY <1>4 DEF Output
  <2> HIDE DEF u, t
  <2>3. t.bytes + NoteBytes \in Nat /\ "tools" \in Places
    BY <1>1, <1>4, Numbers DEF Places
  <2>4. u \in Run
    BY <1>3, <2>2, <2>3 DEF Run
  <2>5. /\ u.pc = "tools" /\ u.kind = s.kind /\ u.shown = s.shown /\ u.calls = s.calls
        /\ u.bytes = s.bytes + NoteBytes /\ u.used = s.used /\ u.result = s.result
        /\ u.round = s.round
    BY <1>3, <1>4, <2>2 DEF Run
  <2>6. u.bytes <= TotalBytes + NoteBytes - 1
    <3>1. TotalBytes \in Nat /\ NoteBytes \in Nat /\ s.bytes \in Nat /\ s.bytes < TotalBytes
      BY <1>1, <1>6, Numbers
    <3>2. u.bytes = s.bytes + NoteBytes
      BY <2>5
    <3> HIDE DEF s
    <3>3. QED
      BY <3>1, <3>2
  <2>7. RunOK(u) /\ Backed(r, u) /\ u.pc \notin Waiting
    BY <1>1, <2>4, <2>5, <2>6 DEF RunOK, Backed, Waiting
  <2>8. QED
    BY <2>1, <2>5, <2>7, BecomesGoes
<1>7. CASE ~(s.bytes >= TotalBytes) /\ c # Refused
  <2> DEFINE u == [t EXCEPT !.pc = "tool", !.until = until]
  <2>1. Work(r, ToolWorker[c], u)
    BY <1>7 DEF CallTool
  <2> HIDE DEF t, until
  <2>2. u \in Run
    BY <1>2, <1>3 DEF Run, Places, Waiting
  <2>3. /\ u.pc = "tool" /\ u.kind = s.kind /\ u.shown = s.shown /\ u.calls = s.calls
        /\ u.bytes = s.bytes /\ u.used = s.used /\ u.result = s.result /\ u.round = s.round
    BY <1>3, <1>4 DEF Run
  <2> HIDE DEF u
  <2>4. u.bytes < TotalBytes
    BY <1>1, <1>7, <2>3, Numbers
  <2>5. RunOK(u) /\ Backed(r, u) /\ u.pc \in Waiting
    BY <1>1, <2>2, <2>3, <2>4 DEF RunOK, Backed, Waiting
  <2>6. ToolWorker[c] \in Workers
    BY <1>2, <1>7, Numbers DEF Workers
  <2>7. QED
    BY <2>1, <2>3, <2>5, <2>6, WorkGoes
<1>8. QED
  BY <1>5, <1>6, <1>7

LEMMA EndRoundGoes ==
    ASSUME TypeOK, RunsOK, NEW r \in Runs, EndRound(r)
    PROVE  Goes(r)
<1>1. CASE Becomes(r, Ended(run[r], "error"))
  BY <1>1, EndedGoes
<1>2. CASE Becomes(r, NextRound(run[r]))
  <2> DEFINE t == NextRound(run[r])
  <2>1. /\ RunOK(t) /\ t.pc = "round" /\ t.kind = run[r].kind /\ t.shown = run[r].shown
        /\ t.calls = run[r].calls
    BY AtWork, NextRoundOK DEF EndRound
  <2>2. Becomes(r, t)
    BY <1>2
  <2> HIDE DEF t
  <2>3. Backed(r, t) /\ t.pc \notin Waiting
    BY <2>1, AtWork DEF Backed, Waiting
  <2>4. QED
    BY <2>1, <2>2, <2>3, BecomesGoes
<1>3. QED
  BY <1>1, <1>2 DEF EndRound

LEMMA GiveUpGoes ==
    ASSUME TypeOK, RunsOK, NEW r \in Runs, GiveUp(r)
    PROVE  Goes(r)
<1> DEFINE t == AfterError(r, run[r])
<1>1. /\ RunOK(t) /\ t.pc \notin Waiting /\ t.kind = run[r].kind /\ t.shown = run[r].shown
      /\ t.pc = "ended" \/ t.calls = run[r].calls
  BY AtWork, AfterErrorOK DEF GiveUp
<1>2. Becomes(r, t)
  BY DEF GiveUp
<1> HIDE DEF t
<1>3. Backed(r, t)
  BY <1>1, AtWork DEF Backed
<1>4. QED
  BY <1>1, <1>2, <1>3, BecomesGoes

\* The model's message was empty.
LEMMA AfterEmptyGoes ==
    ASSUME TypeOK, RunsOK, NEW r \in Runs, NEW thought \in BOOLEAN, run[r].pc = "model",
           AfterEmpty(r, run[r], thought)
    PROVE  Goes(r)
<1> DEFINE s == run[r]
           again == s.kind = "ollama" /\ ~s.retried /\ s.round + 1 < MaxRounds
<1>1. s \in Run /\ RunOK(s) /\ Backed(r, s) /\ s.round \in Nat /\ s.pc = "model"
  BY AtWork
<1>2. CASE ~again
  <2>1. Becomes(r, Ended(s, "error"))
    BY <1>2 DEF AfterEmpty
  <2>2. QED
    BY <2>1, EndedGoes
<1>3. CASE again /\ thought
  <2> DEFINE until == Min(s.deadline, now + MetaTime)
             u == [s EXCEPT !.pc = "meta", !.retried = TRUE, !.until = until]
  <2>1. Work(r, "http", u)
    BY <1>3 DEF AfterEmpty
  <2>2. until \in Nat /\ "meta" \in Places
    BY AtWork, Numbers DEF Min, Places, Waiting
  <2> HIDE DEF until
  <2>3. u \in Run
    BY <1>1, <2>2 DEF Run
  <2>4. /\ u.pc = "meta" /\ u.kind = s.kind /\ u.shown = s.shown /\ u.calls = s.calls
        /\ u.bytes = s.bytes /\ u.used = s.used /\ u.result = s.result /\ u.round = s.round
    BY <1>1 DEF Run
  <2> HIDE DEF u
  <2>5. RunOK(u) /\ Backed(r, u) /\ u.pc \in Waiting
    BY <1>1, <2>3, <2>4 DEF RunOK, Backed, Waiting
  <2>6. QED
    BY <2>1, <2>4, <2>5, WorkGoes DEF Workers
<1>4. CASE again /\ ~thought
  <2> DEFINE u == [s EXCEPT !.retried = TRUE]
             v == NextRound(u)
  <2>1. Becomes(r, v)
    BY <1>4 DEF AfterEmpty
  <2>2. u \in Run
    BY <1>1 DEF Run
  <2>3. /\ u.pc = "model" /\ u.kind = s.kind /\ u.shown = s.shown /\ u.calls = s.calls
        /\ u.bytes = s.bytes /\ u.used = s.used /\ u.result = s.result /\ u.round = s.round
    BY <1>1 DEF Run
  <2>4. RunOK(u)
    <3> HIDE DEF u
    <3>1. QED
      BY <1>1, <2>2, <2>3 DEF RunOK
  <2> HIDE DEF u
  <2>5. RunOK(v) /\ v.pc = "round" /\ v.kind = s.kind /\ v.shown = s.shown /\ v.calls = s.calls
    BY <2>3, <2>4, NextRoundOK
  <2> HIDE DEF v
  <2>6. Backed(r, v) /\ v.pc \notin Waiting
    BY <1>1, <2>5 DEF Backed, Waiting
  <2>7. QED
    BY <2>1, <2>5, <2>6, BecomesGoes
<1>5. QED
  BY <1>2, <1>3, <1>4

\* The model asks for tools.
LEMMA AfterCallsGoes ==
    ASSUME TypeOK, RunsOK, NEW r \in Runs, NEW batch \in Seq(Tools \cup {Refused}),
           run[r].pc = "model", Becomes(r, AfterCalls(run[r], batch))
    PROVE  Goes(r)
<1> DEFINE s == run[r]
           t == [s EXCEPT !.pc = "tools", !.used = @ + Len(batch), !.pending = batch]
<1>1. s \in Run /\ RunOK(s) /\ Backed(r, s) /\ s.pc = "model" /\ s.used \in Nat /\ Len(batch) \in Nat
  BY AtWork, Numbers
<1>2. CASE AnswerOnly(s) \/ s.used + Len(batch) > MaxCalls
  <2>1. Becomes(r, Ended(s, "error"))
    BY <1>2 DEF AfterCalls
  <2>2. QED
    BY <2>1, EndedGoes
<1>3. CASE ~(AnswerOnly(s) \/ s.used + Len(batch) > MaxCalls)
  <2>1. Becomes(r, t)
    BY <1>3 DEF AfterCalls
  <2>2. s.used + Len(batch) \in 0..MaxCalls /\ "tools" \in Places
    <3>1. MaxCalls \in Nat /\ "tools" \in Places
      BY Numbers DEF Places
    <3>2. ~(s.used + Len(batch) > MaxCalls)
      BY <1>3
    <3> HIDE DEF s
    <3>3. QED
      BY <1>1, <3>1, <3>2
  <2>3. t \in Run
    BY <1>1, <2>2 DEF Run
  <2>4. /\ t.pc = "tools" /\ t.kind = s.kind /\ t.shown = s.shown /\ t.calls = s.calls
        /\ t.bytes = s.bytes /\ t.result = s.result /\ t.round = s.round
    BY <1>1 DEF Run
  <2> HIDE DEF t
  <2>5. s.kind # "cli" /\ s.result = None
    BY <1>1 DEF RunOK
  <2>6. RunOK(t) /\ Backed(r, t) /\ t.pc \notin Waiting
    BY <1>1, <2>3, <2>4, <2>5, Numbers DEF RunOK, Backed, Waiting
  <2>7. QED
    BY <2>1, <2>4, <2>6, BecomesGoes
<1>4. QED
  BY <1>2, <1>3

\* A tool has said something: only a success of this very call becomes evidence.
LEMMA ResultGoes ==
    ASSUME TypeOK, RunsOK, Replies, NEW r \in Runs, run[r].pc \in {"tool", "snapshot"},
           reply[r] # None, reply[r] \in Value, Becomes(r, Result(run[r], reply[r]))
    PROVE  Goes(r)
<1> DEFINE s == run[r]
           v == reply[r]
           full == v.size > Room(s)
           t == [Output(s, v.size) EXCEPT !.shown = IF v.kind = "success" THEN @ \cup {s.calls} ELSE @]
<1>1. /\ s \in Run /\ RunOK(s) /\ Backed(r, s) /\ s.pc \in {"tool", "snapshot"}
      /\ s.bytes \in Nat /\ s.calls \in Nat /\ v.size \in Nat
  BY AtWork DEF Value
<1>2. CASE full
  <2> DEFINE u == Output(s, NoteBytes)
  <2>1. Becomes(r, u)
    BY <1>2 DEF Result
  <2>2. NoteBytes \in Nat /\ NoteBytes <= NoteBytes
    BY Numbers
  <2>3. /\ RunOK(u) /\ u.pc \in {"tools", "cli"} /\ u.kind = s.kind /\ u.shown = s.shown
        /\ u.calls = s.calls
    BY <1>1, <2>2, OutputOK
  <2> HIDE DEF u
  <2>4. Backed(r, u) /\ u.pc \notin Waiting
    BY <1>1, <2>3 DEF Backed, Waiting
  <2>5. QED
    BY <2>1, <2>3, <2>4, BecomesGoes
<1>3. CASE ~full
  <2> DEFINE u == Output(s, v.size)
  <2>1. Becomes(r, t)
    BY <1>3 DEF Result
  <2>2. s.pc = "tool" => s.bytes + v.size <= TotalBytes
    <3>1. ResultBytes \in Nat /\ TotalBytes \in Nat
      BY Numbers
    <3>2. s.pc = "tool" => ~(v.size > Min(ResultBytes, TotalBytes - s.bytes))
      BY <1>3 DEF Room
    <3> HIDE DEF s, v
    <3>3. QED
      BY <1>1, <3>1, <3>2 DEF Min
  <2>3. u = [s EXCEPT !.pc = "cli"] \/ s.pc = "tool"
    BY <1>1 DEF Output
  <2>4. /\ RunOK(u) /\ u.pc \in {"tools", "cli"} /\ u.kind = s.kind /\ u.shown = s.shown
        /\ u.calls = s.calls /\ u.used = s.used /\ u.result = s.result
    <3>1. CASE s.pc = "tool"
      <4>1. RunOK(u) /\ u.pc \in {"tools", "cli"} /\ u.kind = s.kind /\ u.shown = s.shown /\ u.calls = s.calls
        BY <1>1, <2>2, <3>1, OutputOK
      <4>2. u.used = s.used /\ u.result = s.result
        BY <1>1, <3>1 DEF Output, Run
      <4>3. QED
        BY <4>1, <4>2
    <3>2. CASE s.pc = "snapshot"
      <4>1. u = [s EXCEPT !.pc = "cli"]
        BY <3>2 DEF Output
      <4>2. u \in Run
        BY <1>1, <4>1 DEF Run, Places
      <4>3. /\ u.pc = "cli" /\ u.kind = s.kind /\ u.shown = s.shown /\ u.calls = s.calls
            /\ u.used = s.used /\ u.result = s.result /\ u.bytes = s.bytes
        BY <1>1, <4>1 DEF Run
      <4> HIDE DEF u
      <4>4. RunOK(u)
        BY <1>1, <3>2, <4>2, <4>3 DEF RunOK
      <4>5. QED
        BY <4>3, <4>4
    <3>3. QED
      BY <1>1, <3>1, <3>2
  <2> HIDE DEF u
  <2>5. u \in Run /\ t = [u EXCEPT !.shown = IF v.kind = "success" THEN @ \cup {s.calls} ELSE @]
    BY <2>4 DEF RunOK, u
  <2> HIDE DEF t
  <2>6. t \in Run
    BY <1>1, <2>5 DEF Run
  <2>7. /\ t.pc = u.pc /\ t.kind = u.kind /\ t.calls = u.calls /\ t.bytes = u.bytes
        /\ t.used = u.used /\ t.result = u.result /\ t.round = u.round
        /\ t.shown = IF v.kind = "success" THEN u.shown \cup {s.calls} ELSE u.shown
    BY <2>5 DEF Run
  <2>8. RunOK(t) /\ t.pc \notin Waiting
    <3>1. u.pc # "ended" /\ u.result = None /\ u.pc # "idle"
      BY <2>4 DEF RunOK
    <3>2. QED
      BY <2>4, <2>6, <2>7, <3>1, Numbers DEF RunOK, Waiting
  <2>9. Backed(r, t)
    <3>1. SUFFICES ASSUME s.kind # "cli"
                   PROVE  t.shown \subseteq finished[r]
      BY <2>4, <2>7 DEF Backed
    <3>2. s.pc = "tool" /\ s.shown \subseteq finished[r]
      BY <1>1, <3>1 DEF RunOK, Backed
    <3>3. v.kind = "success" => s.calls \in finished[r]
      BY <3>2 DEF Replies
    <3>4. QED
      BY <2>4, <2>7, <3>2, <3>3
  <2>10. QED
    BY <2>1, <2>4, <2>7, <2>8, <2>9, BecomesGoes
<1>4. QED
  BY <1>2, <1>3

LEMMA HearGoes ==
    ASSUME TypeOK, RunsOK, Replies, NEW r \in Runs, Hear(r)
    PROVE  Goes(r)
<1> DEFINE s == run[r]
           v == reply[r]
<1>1. v # None /\ v \in Value
  BY DEF Hear, TypeOK
<1>2. CASE s.pc = "model" /\ v.kind = "text" /\ Becomes(r, AfterText(s))
  <2> DEFINE how == IF s.used > 0 /\ s.shown = {} THEN "error" ELSE "answer"
  <2>1. Becomes(r, Ended(s, how)) /\ how \in {"answer", "error"}
    BY <1>2 DEF AfterText
  <2>2. how = "answer" /\ s.used > 0 => s.shown # {}
    OBVIOUS
  <2> HIDE DEF how
  <2>3. QED
    BY <2>1, <2>2, EndedGoes
<1>3. CASE s.pc = "model" /\ v.kind \in {"empty", "thinking"} /\ AfterEmpty(r, s, v.kind = "thinking")
  BY <1>3, AfterEmptyGoes
<1>4. CASE s.pc = "model" /\ v.kind = "calls" /\ Becomes(r, AfterCalls(s, v.batch))
  <2>1. v.batch \in Seq(Tools \cup {Refused})
    BY <1>1 DEF Value
  <2>2. QED
    BY <1>4, <2>1, AfterCallsGoes
<1>5. CASE s.pc = "meta" /\ Becomes(r, NextRound(s))
  <2> DEFINE t == NextRound(s)
  <2>1. RunOK(t) /\ t.pc = "round" /\ t.kind = s.kind /\ t.shown = s.shown /\ t.calls = s.calls
    BY <1>5, AtWork, NextRoundOK
  <2>2. Becomes(r, t)
    BY <1>5
  <2> HIDE DEF t
  <2>3. Backed(r, t) /\ t.pc \notin Waiting
    BY <2>1, AtWork DEF Backed, Waiting
  <2>4. QED
    BY <2>1, <2>2, <2>3, BecomesGoes
<1>6. CASE s.pc \in {"tool", "snapshot"} /\ Becomes(r, Result(s, v))
  BY <1>1, <1>6, ResultGoes
<1>7. CASE s.pc = "text" /\ Becomes(r, Ended(s, "answer"))
  <2>1. s.used = 0
    BY <1>7, AtWork DEF RunOK
  <2>2. QED
    BY <1>7, <2>1, EndedGoes
<1>8. QED
  BY <1>2, <1>3, <1>4, <1>5, <1>6, <1>7 DEF Hear

-----------------------------------------------------------------------------
(* Types, and the runs by themselves                                        *)

\* What a step of a run, whichever it is, does.
LEMMA RunGoes ==
    ASSUME Inv, NEW r \in Runs, Start(r) \/ RunStep(r)
    PROVE  /\ Goes(r) /\ run[r].pc # "ended"
           /\ UNCHANGED <<now, cancelled, running, finished>>
           /\ \/ run[r].pc \notin Waiting /\ reply' = reply
              \/ /\ run[r].pc \in Waiting /\ reply' = [reply EXCEPT ![r] = None]
                 /\ reply[r] # None \/ Over(r, run[r].until)
<1>1. TypeOK /\ RunsOK /\ Replies
  BY DEF Inv
<1>2. CASE Start(r)
  BY <1>1, <1>2, StartGoes DEF Start, Waiting
<1>3. CASE Ask(r) \/ AskText(r)
  BY <1>1, <1>3, AskGoes DEF Ask, AskText, Waiting
<1>4. CASE CallTool(r)
  BY <1>1, <1>4, CallGoes DEF CallTool, Waiting
<1>5. CASE EndRound(r)
  BY <1>1, <1>5, EndRoundGoes DEF EndRound, Waiting
<1>6. CASE Hear(r)
  <2>1. Goes(r)
    BY <1>1, <1>6, HearGoes
  <2>2. QED
    BY <1>6, <2>1 DEF Hear, Waiting
<1>7. CASE GiveUp(r)
  <2>1. Goes(r)
    BY <1>1, <1>7, GiveUpGoes
  <2>2. reply[r] # None \/ Over(r, run[r].until)
    <3>1. Failed \in Value
      BY DEF Failed, Said, Value
    <3>2. QED
      BY <1>7, <3>1, Numbers DEF GiveUp
  <2>3. QED
    BY <1>7, <2>1, <2>2 DEF GiveUp, Waiting
<1>8. QED
  BY <1>2, <1>3, <1>4, <1>5, <1>6, <1>7 DEF RunStep

LEMMA InvBegins == Init => Inv
<1> SUFFICES ASSUME Init
             PROVE  Inv
  OBVIOUS
<1>1. /\ now = 0 /\ cancelled = [r \in Runs |-> FALSE] /\ run = [r \in Runs |-> Fresh]
      /\ reply = [r \in Runs |-> None] /\ queue = [w \in Workers |-> <<>>]
      /\ running = [w \in Workers |-> None] /\ finished = [r \in Runs |-> {}]
  BY DEF Init
<1>2. Fresh.bytes = 0 /\ Fresh.shown = {}
  BY DEF Fresh
<1>3. \A w \in Workers : queue[w] \in Seq(Job) /\ Len(queue[w]) = 0 /\ running[w] = None
  BY <1>1
<1>4. TypeOK
  <2>1. now \in 0..MaxTime /\ cancelled \in [Runs -> BOOLEAN] /\ run \in [Runs -> Run]
    BY <1>1, FreshOK, Numbers
  <2>2. \A r \in Runs : run[r].bytes <= TotalBytes + NoteBytes - 1 \/ run[r].bytes <= TotalBytes
    BY <1>1, <1>2, Numbers
  <2>3. /\ reply \in [Runs -> Value \cup {None}] /\ running \in [Workers -> Job \cup {None}]
        /\ finished \in [Runs -> SUBSET Nat]
    BY <1>1
  <2>4. queue \in [Workers -> Seq(Job)] /\ \A w \in Workers : Len(queue[w]) <= Capacity
    BY <1>1, <1>3, Numbers
  <2>5. QED
    BY <2>1, <2>2, <2>3, <2>4 DEF TypeOK
<1>5. RunsOK
  BY <1>1, <1>2, FreshOK DEF RunsOK, Backed
<1>6. \A w \in Workers, i \in Nat : ~InUse(w, i)
  BY <1>3 DEF InUse
<1>7. Replies
  BY <1>1 DEF Replies
<1>8. QED
  BY <1>4, <1>5, <1>6, <1>7 DEF Inv, JobsKnown, JobsDistinct

LEMMA RunTypes ==
    ASSUME Inv, NEW r \in Runs, Start(r) \/ RunStep(r)
    PROVE  TypeOK' /\ RunsOK'
<1>1. /\ Goes(r) /\ UNCHANGED <<now, cancelled, running, finished>>
      /\ reply' = reply \/ reply' = [reply EXCEPT ![r] = None]
  BY RunGoes
<1>2. PICK t : /\ RunOK(t) /\ Backed(r, t)
               /\ Leaves(r, t) \/ \E w \in Workers : Sends(r, w, t)
  BY <1>1 DEF Goes
<1>3. TypeOK /\ RunsOK
  BY DEF Inv
<1>4. t \in Run /\ (t.bytes <= TotalBytes + NoteBytes - 1 \/ t.bytes <= TotalBytes)
  BY <1>2 DEF RunOK
<1>5. /\ run' = [run EXCEPT ![r] = t] /\ run' \in [Runs -> Run]
      /\ \A q \in Runs : run'[q] = IF q = r THEN t ELSE run[q]
  BY <1>2, <1>3, <1>4 DEF Leaves, Sends, TypeOK
<1>6. queue' \in [Workers -> Seq(Job)] /\ \A w \in Workers : Len(queue'[w]) <= Capacity
  <2>1. CASE Leaves(r, t)
    BY <1>3, <2>1 DEF Leaves, TypeOK
  <2>2. ASSUME NEW w \in Workers, Sends(r, w, t)
        PROVE  queue' \in [Workers -> Seq(Job)] /\ \A v \in Workers : Len(queue'[v]) <= Capacity
    <3> DEFINE j == [run |-> r, call |-> t.calls, purpose |-> t.pc, until |-> t.until]
    <3>1. j \in Job
      BY <1>4, <2>2 DEF Sends, Job, Run
    <3>2. /\ queue \in [Workers -> Seq(Job)] /\ Len(queue[w]) # Capacity
          /\ queue' = [queue EXCEPT ![w] = Append(queue[w], j)]
          /\ \A v \in Workers : Len(queue[v]) <= Capacity
      BY <1>3, <2>2 DEF Sends, TypeOK
    <3> HIDE DEF j
    <3>3. /\ Append(queue[w], j) \in Seq(Job) /\ Len(Append(queue[w], j)) = Len(queue[w]) + 1
          /\ Len(queue[w]) \in Nat
      BY <3>1, <3>2
    <3>4. Len(queue[w]) + 1 <= Capacity
      BY <3>2, <3>3, Numbers
    <3>5. QED
      BY <3>2, <3>3, <3>4
  <2>3. QED
    BY <1>2, <2>1, <2>2
<1>7. TypeOK'
  <2>1. reply' \in [Runs -> Value \cup {None}]
    BY <1>1, <1>3 DEF TypeOK
  <2>2. \A q \in Runs : run'[q].bytes <= TotalBytes + NoteBytes - 1 \/ run'[q].bytes <= TotalBytes
    BY <1>3, <1>4, <1>5 DEF TypeOK
  <2>3. /\ now' \in 0..MaxTime /\ cancelled' \in [Runs -> BOOLEAN]
        /\ running' \in [Workers -> Job \cup {None}] /\ finished' \in [Runs -> SUBSET Nat]
    BY <1>1, <1>3 DEF TypeOK
  <2>4. QED
    BY <1>5, <1>6, <2>1, <2>2, <2>3 DEF TypeOK
<1>8. RunsOK'
  <2> SUFFICES ASSUME NEW q \in Runs
               PROVE  RunOK(run[q])' /\ Backed(q, run[q])'
    BY DEF RunsOK
  <2>1. finished' = finished /\ ((run'[q] = t /\ q = r) \/ run'[q] = run[q])
    BY <1>1, <1>5
  <2>2. RunOK(run[q]) /\ Backed(q, run[q])
    BY <1>3 DEF RunsOK
  <2>3. RunOK(run'[q])
    BY <1>2, <2>1, <2>2
  <2>4. run'[q].kind # "cli" => run'[q].shown \subseteq finished'[q]
    BY <1>2, <2>1, <2>2 DEF Backed
  <2>5. RunOK(run[q])'
    BY <2>3 DEF RunOK
  <2>6. Backed(q, run[q])'
    BY <2>4 DEF Backed
  <2>7. QED
    BY <2>5, <2>6
<1>9. QED
  BY <1>7, <1>8

-----------------------------------------------------------------------------
(* The jobs when a run takes a step                                         *)

LEMMA JobTypes ==
    ASSUME TypeOK, NEW w \in Workers, NEW i \in Nat, InUse(w, i)
    PROVE  JobAt(w, i) \in Job
BY DEF TypeOK, InUse, JobAt

\* A job that is there when its run moves on is one of the past from then on.
LEMMA JobWhenRunMoves ==
    ASSUME Inv, NEW r \in Runs, Start(r) \/ RunStep(r), NEW t, Leaves(r, t) \/ \E w \in Workers : Sends(r, w, t),
           NEW j \in Job, Known(j)
    PROVE  /\ run'[j.run].pc = "ended" \/ j.call <= run'[j.run].calls
           /\ run'[j.run].pc \in Waiting /\ run'[j.run].calls = j.call =>
                 /\ j.run # r /\ Heeded(j) /\ run'[j.run] = run[j.run] /\ reply'[j.run] = reply[j.run]
           /\ (Heeded(j) \/ Dead(j)) =>
                 \/ run'[j.run].pc \in Waiting /\ run'[j.run].calls = j.call
                 \/ cancelled'[j.run] \/ now' >= j.until
           /\ j.run = r /\ (\E w \in Workers : Sends(r, w, t)) => j.call < t.calls
<1>1. /\ run' = [run EXCEPT ![r] = t] /\ run \in [Runs -> Run] /\ reply \in [Runs -> Value \cup {None}]
      /\ run[r].pc # "ended" /\ UNCHANGED <<now, cancelled>> /\ j.run \in Runs /\ j.call \in Nat
      /\ reply' = reply \/ reply' = [reply EXCEPT ![r] = None]
      /\ run[r].pc \in Waiting => reply[r] # None \/ Over(r, run[r].until)
  BY RunGoes DEF Leaves, Sends, Inv, TypeOK, Job
<1>2. CASE j.run # r
  <2>1. run'[j.run] = run[j.run] /\ reply'[j.run] = reply[j.run]
    BY <1>1, <1>2
  <2>2. QED
    BY <1>1, <1>2, <2>1 DEF Known, Heeded, Dead
<1>3. CASE j.run = r
  <2>1. run'[r] = t /\ j.call <= run[r].calls /\ run[r].calls \in Nat
    BY <1>1, <1>3 DEF Known, Run
  <2>2. \/ t.pc \notin Waiting /\ (t.pc = "ended" \/ t.calls = run[r].calls)
        \/ t.calls = run[r].calls + 1
    BY DEF Leaves, Sends
  <2>3. ~(t.pc \in Waiting /\ t.calls = j.call) /\ (t.pc = "ended" \/ j.call <= t.calls)
    BY <1>1, <2>1, <2>2
  <2>4. Heeded(j) \/ Dead(j) => cancelled'[r] \/ now' >= j.until
    <3>1. ASSUME Heeded(j)
          PROVE  cancelled[r] \/ now >= j.until
      <4>1. run[r].pc \in Waiting /\ reply[r] = None /\ j.until = run[r].until
        BY <1>3, <3>1 DEF Heeded, Known
      <4>2. QED
        BY <1>1, <4>1 DEF Over
    <3>2. QED
      BY <1>1, <1>3, <3>1 DEF Dead
  <2>5. (\E w \in Workers : Sends(r, w, t)) => j.call < t.calls
    BY <1>1, <2>1 DEF Sends
  <2>6. QED
    BY <1>3, <2>1, <2>3, <2>4, <2>5
<1>4. QED
  BY <1>2, <1>3

\* Where the jobs are after a step of a run: where they were, and perhaps one at an end.
LEMMA PlacesWhenRunMoves ==
    ASSUME Inv, NEW r \in Runs, NEW t, running' = running, Leaves(r, t) \/ \E w \in Workers : Sends(r, w, t)
    PROVE  \A v \in Workers, i \in Nat : InUse(v, i)' =>
              \/ InUse(v, i) /\ JobAt(v, i)' = JobAt(v, i)
              \/ \E w \in Workers :
                    /\ Sends(r, w, t) /\ v = w /\ i = Len(queue[w]) + 1 /\ i # 0
                    /\ JobAt(v, i)' = [run |-> r, call |-> t.calls, purpose |-> t.pc, until |-> t.until]
<1> TAKE v \in Workers, i \in Nat
<1>1. queue \in [Workers -> Seq(Job)]
  BY DEF Inv, TypeOK
<1>2. CASE queue' = queue
  BY <1>2 DEF InUse, JobAt
<1>3. ASSUME NEW w \in Workers, Sends(r, w, t), InUse(v, i)'
      PROVE  \/ InUse(v, i) /\ JobAt(v, i)' = JobAt(v, i)
             \/ /\ v = w /\ i = Len(queue[w]) + 1 /\ i # 0
                /\ JobAt(v, i)' = [run |-> r, call |-> t.calls, purpose |-> t.pc, until |-> t.until]
  <2> DEFINE j == [run |-> r, call |-> t.calls, purpose |-> t.pc, until |-> t.until]
  <2>1. queue' = [queue EXCEPT ![w] = Append(queue[w], j)]
    BY <1>3 DEF Sends
  <2> HIDE DEF j
  <2>2. CASE i = 0
    BY <1>3, <2>2 DEF InUse, JobAt
  <2>3. CASE i # 0 /\ v # w
    <3>1. queue'[v] = queue[v]
      BY <1>1, <2>1, <2>3
    <3>2. QED
      BY <1>3, <2>3, <3>1 DEF InUse, JobAt
  <2>4. CASE i # 0 /\ v = w
    <3>1. /\ queue'[w] = Append(queue[w], j) /\ queue[w] \in Seq(Job) /\ Len(queue[w]) \in Nat
      BY <1>1, <2>1
    <3>2. /\ Len(queue'[w]) = Len(queue[w]) + 1 /\ queue'[w][Len(queue[w]) + 1] = j
          /\ \A k \in 1..Len(queue[w]) : queue'[w][k] = queue[w][k]
      BY <3>1
    <3>3. i <= Len(queue'[w])
      BY <1>3, <2>4 DEF InUse
    <3>4. i \in 1..Len(queue[w]) \/ i = Len(queue[w]) + 1
      BY <2>4, <3>1, <3>2, <3>3
    <3>5. QED
      BY <2>4, <3>1, <3>2, <3>4 DEF InUse, JobAt, j
  <2>5. QED
    BY <2>2, <2>3, <2>4 DEF j
<1>4. QED
  BY <1>2, <1>3 DEF Leaves

LEMMA JobsWhenRunMoves ==
    ASSUME Inv, NEW r \in Runs, Start(r) \/ RunStep(r)
    PROVE  JobsKnown' /\ JobsDistinct' /\ Replies'
<1>1. /\ Goes(r) /\ UNCHANGED <<now, cancelled, running, finished>>
      /\ \/ run[r].pc \notin Waiting /\ reply' = reply
         \/ run[r].pc \in Waiting /\ reply' = [reply EXCEPT ![r] = None]
  BY RunGoes
<1>2. PICK t : Leaves(r, t) \/ \E w \in Workers : Sends(r, w, t)
  BY <1>1 DEF Goes
<1>3. /\ TypeOK /\ JobsKnown /\ JobsDistinct /\ Replies
      /\ run \in [Runs -> Run] /\ reply \in [Runs -> Value \cup {None}]
  BY DEF Inv, TypeOK
<1>4. run' = [run EXCEPT ![r] = t] /\ reply'[r] = None
  BY <1>1, <1>2, <1>3 DEF Leaves, Sends, Replies
<1> DEFINE new == [run |-> r, call |-> t.calls, purpose |-> t.pc, until |-> t.until]
           IsNew(v, i) == \E w \in Workers :
              /\ Sends(r, w, t) /\ v = w /\ i = Len(queue[w]) + 1 /\ i # 0 /\ JobAt(v, i)' = new
<1>5. \A v \in Workers, i \in Nat :
         InUse(v, i)' => \/ InUse(v, i) /\ JobAt(v, i)' = JobAt(v, i)
                         \/ IsNew(v, i)
  BY <1>1, <1>2, PlacesWhenRunMoves
<1>6. \A v \in Workers, i \in Nat : InUse(v, i) =>
         /\ JobAt(v, i) \in Job /\ Known(JobAt(v, i))
         /\ i # 0 => Heeded(JobAt(v, i)) \/ Dead(JobAt(v, i))
  BY <1>3, JobTypes DEF JobsKnown
<1>7. JobsKnown'
  <2>1. SUFFICES ASSUME NEW v \in Workers, NEW i \in Nat, InUse(v, i)'
                 PROVE  Known(JobAt(v, i))' /\ (i # 0 => Heeded(JobAt(v, i))' \/ Dead(JobAt(v, i))')
    BY DEF JobsKnown
  <2>2. CASE InUse(v, i) /\ JobAt(v, i)' = JobAt(v, i)
    <3> DEFINE j == JobAt(v, i)
    <3>1. j \in Job /\ Known(j) /\ (i # 0 => Heeded(j) \/ Dead(j)) /\ JobAt(v, i)' = j
      BY <1>6, <2>2
    <3>2. /\ run'[j.run].pc = "ended" \/ j.call <= run'[j.run].calls
          /\ run'[j.run].pc \in Waiting /\ run'[j.run].calls = j.call =>
                /\ j.run # r /\ Heeded(j) /\ run'[j.run] = run[j.run] /\ reply'[j.run] = reply[j.run]
          /\ (Heeded(j) \/ Dead(j)) =>
                \/ run'[j.run].pc \in Waiting /\ run'[j.run].calls = j.call
                \/ cancelled'[j.run] \/ now' >= j.until
      BY <1>2, <3>1, JobWhenRunMoves
    <3> HIDE DEF j
    <3>3. Known(JobAt(v, i))'
      BY <3>1, <3>2 DEF Known, Heeded
    <3>4. i # 0 => Heeded(JobAt(v, i))' \/ Dead(JobAt(v, i))'
      BY <3>1, <3>2 DEF Heeded, Dead
    <3>5. QED
      BY <3>3, <3>4
  <2>3. CASE IsNew(v, i)
    <3>1. JobAt(v, i)' = new /\ t.pc \in Waiting /\ t.calls = run[r].calls + 1
      BY <2>3 DEF Sends
    <3>2. run'[r] = t /\ run[r].calls \in Nat
      BY <1>3, <1>4 DEF Run
    <3>3. new.run = r /\ new.call = t.calls /\ new.purpose = t.pc /\ new.until = t.until
      OBVIOUS
    <3> HIDE DEF new
    <3>4. Known(JobAt(v, i))' /\ Heeded(JobAt(v, i))'
      BY <1>4, <3>1, <3>2, <3>3 DEF Known, Heeded
    <3>5. QED
      BY <3>4
  <2>4. QED
    BY <1>5, <2>1, <2>2, <2>3
<1>8. JobsDistinct'
  <2>1. SUFFICES ASSUME NEW v \in Workers, NEW i \in Nat, NEW u \in Workers, NEW k \in Nat,
                        InUse(v, i)', InUse(u, k)', JobAt(v, i)'.run = JobAt(u, k)'.run,
                        JobAt(v, i)'.call = JobAt(u, k)'.call
                 PROVE  v = u /\ i = k
    BY DEF JobsDistinct
  <2>2. ASSUME NEW x \in Workers, NEW n \in Nat, InUse(x, n), JobAt(x, n).run = r,
               \E w \in Workers : Sends(r, w, t)
        PROVE  JobAt(x, n).call # t.calls
    <3>1. JobAt(x, n) \in Job /\ Known(JobAt(x, n))
      BY <1>6, <2>2
    <3>2. JobAt(x, n).call < t.calls
      BY <2>2, <3>1, JobWhenRunMoves
    <3>3. JobAt(x, n).call \in Nat
      BY <3>1 DEF Job
    <3>4. QED
      BY <3>2, <3>3
  <2>3. CASE InUse(v, i) /\ JobAt(v, i)' = JobAt(v, i) /\ InUse(u, k) /\ JobAt(u, k)' = JobAt(u, k)
    BY <1>3, <2>1, <2>3 DEF JobsDistinct
  <2>4. CASE IsNew(v, i) /\ InUse(u, k) /\ JobAt(u, k)' = JobAt(u, k)
    BY <2>1, <2>2, <2>4
  <2>5. CASE IsNew(u, k) /\ InUse(v, i) /\ JobAt(v, i)' = JobAt(v, i)
    BY <2>1, <2>2, <2>5
  <2>6. CASE IsNew(v, i) /\ IsNew(u, k)
    <3>1. PICK w \in Workers : Sends(r, w, t) /\ v = w /\ i = Len(queue[w]) + 1
      BY <2>6
    <3>2. PICK x \in Workers : Sends(r, x, t) /\ u = x /\ k = Len(queue[x]) + 1
      BY <2>6
    <3>3. w = x
      <4>1. queue \in [Workers -> Seq(Job)]
        BY <1>3 DEF TypeOK
      <4>2. /\ queue' = [queue EXCEPT ![w] = Append(queue[w], new)]
            /\ queue' = [queue EXCEPT ![x] = Append(queue[x], new)]
        BY <3>1, <3>2 DEF Sends
      <4> HIDE DEF new
      <4>3. Len(Append(queue[w], new)) = Len(queue[w]) + 1 /\ Len(queue[w]) \in Nat
        BY <4>1
      <4>4. w # x => queue'[w] = queue[w]
        BY <4>1, <4>2
      <4>5. queue'[w] = Append(queue[w], new)
        BY <4>1, <4>2
      <4>6. QED
        BY <4>3, <4>4, <4>5
    <3>4. QED
      BY <3>1, <3>2, <3>3
  <2>7. QED
    BY <1>5, <2>1, <2>3, <2>4, <2>5, <2>6
<1>9. Replies'
  <2>1. SUFFICES ASSUME NEW q \in Runs, reply'[q] # None
                 PROVE  /\ run'[q].pc \in Waiting
                        /\ reply'[q].kind = "success" /\ run'[q].pc = "tool"
                              => run'[q].calls \in finished'[q]
    BY DEF Replies
  <2>2. q # r /\ reply'[q] = reply[q] /\ run'[q] = run[q] /\ finished' = finished
    BY <1>1, <1>3, <1>4, <2>1
  <2>3. QED
    BY <1>3, <2>1, <2>2 DEF Replies
<1>10. QED
  BY <1>7, <1>8, <1>9

-----------------------------------------------------------------------------
(* The jobs when a worker takes a step                                      *)

\* What a job answers is a value.
LEMMA SaysValues == \A j : MaySay(j) \subseteq Value
<1>1. Failed \in Value /\ Said("text") \in Value /\ Messages \subseteq Value
  <2>1. <<>> \in Seq(Tools \cup {Refused}) /\ Batches \subseteq Seq(Tools \cup {Refused})
    BY Numbers
  <2>2. \A k \in {"failed", "text", "empty", "thinking"} : Said(k) \in Value
    BY <2>1 DEF Said, Value
  <2>3. \A b \in Batches : [kind |-> "calls", batch |-> b, size |-> 0] \in Value
    BY <2>1 DEF Value
  <2>4. QED
    BY <2>2, <2>3 DEF Failed, Messages
<1>2. Results \subseteq Value
  <2>1. ASSUME NEW k \in {"success", "failure"}, NEW n \in Sizes
        PROVE  [kind |-> k, batch |-> <<>>, size |-> n] \in Value
    <3>1. <<>> \in Seq(Tools \cup {Refused}) /\ n \in Nat
      BY Numbers
    <3>2. QED
      BY <3>1 DEF Value
  <2>2. QED
    BY <2>1 DEF Results
<1>3. QED
  BY <1>1, <1>2 DEF MaySay

\* Skip and Begin move the jobs of the worker forward by one place.
LEMMA PlacesWhenWorkerTakes ==
    ASSUME Inv, NEW w \in Workers, Skip(w) \/ Begin(w)
    PROVE  /\ InUse(w, 1) /\ JobAt(w, 1) = Head(queue[w]) /\ queue' \in [Workers -> Seq(Job)]
           /\ \A v \in Workers : Len(queue'[v]) <= Capacity
           /\ \A i \in Nat : InUse(w, i)' => InUse(w, i + 1) /\ JobAt(w, i)' = JobAt(w, i + 1)
           /\ Skip(w) => ~InUse(w, 0)'
           /\ \A v \in Workers \ {w}, i \in Nat :
                 InUse(v, i)' => InUse(v, i) /\ JobAt(v, i)' = JobAt(v, i)
<1>1. /\ queue \in [Workers -> Seq(Job)] /\ running \in [Workers -> Job \cup {None}]
      /\ \A v \in Workers : Len(queue[v]) <= Capacity
  BY DEF Inv, TypeOK
<1> DEFINE q == queue[w]
<1>2. /\ q \in Seq(Job) /\ q # <<>> /\ running[w] = None
      /\ queue' = [queue EXCEPT ![w] = Tail(q)]
      /\ \/ Skip(w) /\ running' = running
         \/ running' = [running EXCEPT ![w] = Head(q)]
  BY <1>1 DEF Skip, Begin
<1>3. queue'[w] = Tail(q) /\ \A v \in Workers \ {w} : queue'[v] = queue[v] /\ running'[v] = running[v]
  BY <1>1, <1>2
<1>4. /\ Tail(q) \in Seq(Job) /\ Len(Tail(q)) = Len(q) - 1 /\ Len(q) \in Nat /\ Len(q) >= 1
      /\ Head(q) = q[1] /\ Head(q) \in Job
      /\ \A i \in 1..Len(Tail(q)) : Tail(q)[i] = q[i + 1]
  <2> HIDE DEF q
  <2>1. QED
    BY <1>2
<1>5. InUse(w, 1) /\ JobAt(w, 1) = Head(queue[w])
  BY <1>4 DEF InUse, JobAt
<1>6. queue' \in [Workers -> Seq(Job)] /\ \A v \in Workers : Len(queue'[v]) <= Capacity
  <2>1. queue' \in [Workers -> Seq(Job)]
    BY <1>1, <1>2, <1>4
  <2>2. Len(queue'[w]) <= Capacity
    BY <1>1, <1>3, <1>4, Numbers
  <2>3. QED
    BY <1>1, <1>3, <2>1, <2>2
<1>7. ASSUME NEW i \in Nat, InUse(w, i)'
      PROVE  InUse(w, i + 1) /\ JobAt(w, i)' = JobAt(w, i + 1) /\ (i = 0 => ~Skip(w))
  <2>1. CASE i = 0
    <3>1. running'[w] # None
      BY <1>7, <2>1 DEF InUse
    <3>2. running'[w] = Head(q) /\ ~Skip(w)
      BY <1>1, <1>2, <3>1 DEF Skip
    <3>3. QED
      BY <1>4, <2>1, <3>2 DEF InUse, JobAt
  <2>2. CASE i # 0
    <3>1. i \in 1..Len(Tail(q))
      BY <1>3, <1>4, <1>7, <2>2 DEF InUse
    <3>2. i + 1 <= Len(q) /\ i + 1 # 0 /\ Tail(q)[i] = q[i + 1]
      BY <1>4, <3>1
    <3>3. QED
      BY <1>3, <2>2, <3>2 DEF InUse, JobAt
  <2>3. QED
    BY <2>1, <2>2
<1>8. ASSUME NEW v \in Workers \ {w}, NEW i \in Nat, InUse(v, i)'
      PROVE  InUse(v, i) /\ JobAt(v, i)' = JobAt(v, i)
  BY <1>3, <1>8 DEF InUse, JobAt
<1>9. ASSUME Skip(w)
      PROVE  ~InUse(w, 0)'
  BY <1>2, <1>9 DEF InUse, Skip
<1>10. QED
  BY <1>5, <1>6, <1>7, <1>8, <1>9

\* After Skip and Begin each job is one that was there, and no two are the same.
LEMMA JobsWhenWorkerTakes ==
    ASSUME Inv, NEW w \in Workers, Skip(w) \/ Begin(w)
    PROVE  JobsKnown' /\ JobsDistinct'
<1>1. /\ TypeOK /\ JobsKnown /\ JobsDistinct /\ reply \in [Runs -> Value \cup {None}]
      /\ UNCHANGED <<now, cancelled, run>>
  BY DEF Inv, TypeOK, Skip, Begin
<1> DEFINE From(v, i) == IF v = w THEN i + 1 ELSE i
           first == JobAt(w, 1)
<1>2. ASSUME NEW v \in Workers, NEW i \in Nat, InUse(v, i)'
      PROVE  /\ From(v, i) \in Nat /\ InUse(v, From(v, i)) /\ JobAt(v, i)' = JobAt(v, From(v, i))
             /\ Skip(w) => ~(v = w /\ From(v, i) = 1)
  <2>1. CASE v = w
    BY <1>2, <2>1, PlacesWhenWorkerTakes
  <2>2. CASE v # w
    BY <1>2, <2>2, PlacesWhenWorkerTakes
  <2>3. QED
    BY <2>1, <2>2
<1>3. JobsDistinct'
  <2>1. SUFFICES ASSUME NEW v \in Workers, NEW i \in Nat, NEW u \in Workers, NEW k \in Nat,
                        InUse(v, i)', InUse(u, k)', JobAt(v, i)'.run = JobAt(u, k)'.run,
                        JobAt(v, i)'.call = JobAt(u, k)'.call
                 PROVE  v = u /\ i = k
    BY DEF JobsDistinct
  <2>2. v = u /\ From(v, i) = From(u, k)
    <3>1. /\ From(v, i) \in Nat /\ InUse(v, From(v, i)) /\ JobAt(v, i)' = JobAt(v, From(v, i))
          /\ From(u, k) \in Nat /\ InUse(u, From(u, k)) /\ JobAt(u, k)' = JobAt(u, From(u, k))
      BY <1>2, <2>1
    <3> HIDE DEF From
    <3>2. QED
      BY <1>1, <2>1, <3>1 DEF JobsDistinct
  <2>3. QED
    BY <2>2
<1>4. JobsKnown'
  <2>1. SUFFICES ASSUME NEW v \in Workers, NEW i \in Nat, InUse(v, i)'
                 PROVE  Known(JobAt(v, i))' /\ (i # 0 => Heeded(JobAt(v, i))' \/ Dead(JobAt(v, i))')
    BY DEF JobsKnown
  <2> DEFINE k == From(v, i)
             j == JobAt(v, k)
  <2>2. /\ k \in Nat /\ InUse(v, k) /\ JobAt(v, i)' = j /\ (i # 0 => k # 0)
        /\ Skip(w) => ~(v = w /\ k = 1)
    BY <1>2, <2>1
  <2>3. j \in Job /\ Known(j) /\ (k # 0 => Heeded(j) \/ Dead(j))
    <3> HIDE DEF k
    <3>1. QED
      BY <1>1, <2>2, JobTypes DEF JobsKnown
  <2>4. Skip(w) => InUse(w, 1) /\ first \in Job /\ ~(j.run = first.run /\ j.call = first.call)
    <3>1. InUse(w, 1) /\ first \in Job
      BY <1>1, PlacesWhenWorkerTakes, JobTypes
    <3> HIDE DEF k
    <3>2. QED
      BY <1>1, <2>2, <3>1 DEF JobsDistinct
  <2>5. Heeded(j) => reply'[j.run] = reply[j.run]
    <3>1. CASE Begin(w)
      BY <3>1 DEF Begin
    <3>2. CASE Skip(w)
      <4>1. reply' = [reply EXCEPT ![first.run] = IF Heeded(first) THEN Failed ELSE @]
        BY <3>2, PlacesWhenWorkerTakes DEF Skip, Answer
      <4>2. j.run \in Runs
        BY <2>3 DEF Job
      <4> HIDE DEF j, first
      <4>3. Heeded(j) /\ Heeded(first) => j.run # first.run
        BY <2>4, <3>2 DEF Heeded
      <4>4. QED
        BY <1>1, <4>1, <4>2, <4>3
    <3>3. QED
      BY <3>1, <3>2
  <2> HIDE DEF j, k
  <2>6. Known(JobAt(v, i))'
    BY <1>1, <2>2, <2>3, <2>5 DEF Known, Heeded
  <2>7. i # 0 => Heeded(JobAt(v, i))' \/ Dead(JobAt(v, i))'
    BY <1>1, <2>2, <2>3 DEF Heeded, Dead
  <2>8. QED
    BY <2>6, <2>7
<1>5. QED
  BY <1>3, <1>4

LEMMA WorkerTakes ==
    ASSUME Inv, NEW w \in Workers, Skip(w) \/ Begin(w)
    PROVE  Inv'
<1>1. /\ TypeOK /\ RunsOK /\ Replies /\ JobsKnown /\ run \in [Runs -> Run]
      /\ reply \in [Runs -> Value \cup {None}]
      /\ UNCHANGED <<now, cancelled, run, finished>>
  BY DEF Inv, TypeOK, Skip, Begin
<1> DEFINE j == JobAt(w, 1)
<1>2. InUse(w, 1) /\ j = Head(queue[w]) /\ j \in Job /\ j.run \in Runs
  <2>1. InUse(w, 1) /\ j = Head(queue[w])
    BY PlacesWhenWorkerTakes
  <2>2. j \in Job
    BY <1>1, <2>1, JobTypes
  <2>3. QED
    BY <2>1, <2>2 DEF Job
<1>3. \/ reply' = reply
      \/ Heeded(j) /\ reply' = [reply EXCEPT ![j.run] = Failed]
  <2>1. CASE Begin(w)
    BY <2>1 DEF Begin
  <2>2. CASE Skip(w)
    <3>1. reply' = [reply EXCEPT ![j.run] = IF Heeded(j) THEN Failed ELSE @]
      BY <1>2, <2>2 DEF Skip, Answer
    <3> HIDE DEF j
    <3>2. QED
      BY <1>1, <1>2, <3>1
  <2>3. QED
    BY <2>1, <2>2
<1>4. running' \in [Workers -> Job \cup {None}]
  BY <1>1, <1>2 DEF Skip, Begin, TypeOK
<1> HIDE DEF j
<1>5. Failed \in Value /\ Failed.kind # "success" /\ reply' \in [Runs -> Value \cup {None}]
  <2>1. Failed \in Value /\ Failed.kind # "success"
    BY DEF Failed, Said, Value
  <2>2. QED
    BY <1>1, <1>2, <1>3, <2>1
<1>6. TypeOK'
  BY <1>1, <1>4, <1>5, PlacesWhenWorkerTakes DEF TypeOK
<1>7. RunsOK'
  BY <1>1 DEF RunsOK, RunOK, Backed
<1>8. Replies'
  BY <1>1, <1>2, <1>3, <1>5 DEF Replies, Heeded
<1>9. QED
  BY <1>6, <1>7, <1>8, JobsWhenWorkerTakes DEF Inv

LEMMA WorkerFinishes ==
    ASSUME Inv, NEW w \in Workers, Finish(w)
    PROVE  Inv'
<1> DEFINE j == running[w]
<1>1. PICK v \in MaySay(j) :
         /\ Answer(j, v)
         /\ finished' = IF v.kind = "success" /\ j.purpose = "tool"
                        THEN [finished EXCEPT ![j.run] = @ \cup {j.call}]
                        ELSE finished
  BY DEF Finish
<1>2. /\ TypeOK /\ RunsOK /\ Replies /\ JobsKnown /\ JobsDistinct /\ run \in [Runs -> Run]
      /\ reply \in [Runs -> Value \cup {None}] /\ finished \in [Runs -> SUBSET Nat]
      /\ running' = [running EXCEPT ![w] = None] /\ running \in [Workers -> Job \cup {None}]
      /\ UNCHANGED <<now, cancelled, run, queue>>
  BY DEF Inv, TypeOK, Finish
<1>3. j # None /\ j \in Job /\ j.run \in Runs /\ j.call \in Nat
  BY <1>2 DEF Finish, Job
<1>4. InUse(w, 0) /\ JobAt(w, 0) = j /\ Known(j)
  <2>1. InUse(w, 0) /\ JobAt(w, 0) = j
    BY <1>3 DEF InUse, JobAt
  <2>2. QED
    BY <1>2, <2>1 DEF JobsKnown
<1>5. \/ reply' = reply /\ ~Heeded(j)
      \/ Heeded(j) /\ reply' = [reply EXCEPT ![j.run] = v]
  BY <1>1, <1>2, <1>3 DEF Answer
<1>6. v \in Value
  BY <1>1, SaysValues
<1>7. \A u \in Workers, i \in Nat : InUse(u, i)' =>
         InUse(u, i) /\ JobAt(u, i)' = JobAt(u, i) /\ ~(u = w /\ i = 0)
  BY <1>2 DEF InUse, JobAt
<1> HIDE DEF j
<1>8. /\ finished' \in [Runs -> SUBSET Nat] /\ \A r \in Runs : finished[r] \subseteq finished'[r]
      /\ v.kind = "success" /\ j.purpose = "tool" => j.call \in finished'[j.run]
  BY <1>1, <1>2, <1>3
<1>9. TypeOK'
  <2>1. reply' \in [Runs -> Value \cup {None}]
    BY <1>2, <1>3, <1>5, <1>6
  <2>2. running' \in [Workers -> Job \cup {None}]
    BY <1>2
  <2>3. QED
    BY <1>2, <1>8, <2>1, <2>2 DEF TypeOK
<1>10. RunsOK'
  <2>1. \A r \in Runs : RunOK(run[r]) /\ (run[r].kind # "cli" => run[r].shown \subseteq finished'[r])
    BY <1>2, <1>8 DEF RunsOK, Backed
  <2>2. QED
    BY <1>2, <2>1 DEF RunsOK, RunOK, Backed
<1>11. JobsDistinct'
  BY <1>2, <1>7 DEF JobsDistinct
<1>12. JobsKnown'
  <2>1. SUFFICES ASSUME NEW u \in Workers, NEW i \in Nat, InUse(u, i)'
                 PROVE  Known(JobAt(u, i))' /\ (i # 0 => Heeded(JobAt(u, i))' \/ Dead(JobAt(u, i))')
    BY DEF JobsKnown
  <2> DEFINE k == JobAt(u, i)
  <2>2. InUse(u, i) /\ JobAt(u, i)' = k /\ ~(u = w /\ i = 0)
    BY <1>7, <2>1
  <2>3. k \in Job /\ Known(k) /\ (i # 0 => Heeded(k) \/ Dead(k)) /\ k.run \in Runs
    <3>1. k \in Job /\ Known(k) /\ (i # 0 => Heeded(k) \/ Dead(k))
      BY <1>2, <2>2, JobTypes DEF JobsKnown
    <3>2. QED
      BY <3>1 DEF Job
  <2>4. ~(k.run = j.run /\ k.call = j.call)
    BY <1>2, <1>4, <2>2 DEF JobsDistinct
  <2> HIDE DEF k
  <2>5. Heeded(k) => reply'[k.run] = reply[k.run]
    <3>1. Heeded(k) /\ Heeded(j) => k.run # j.run
      BY <2>4 DEF Heeded
    <3>2. QED
      BY <1>2, <1>3, <1>5, <2>3, <3>1
  <2>6. Known(JobAt(u, i))'
    BY <1>2, <2>2, <2>3, <2>5 DEF Known, Heeded
  <2>7. i # 0 => Heeded(JobAt(u, i))' \/ Dead(JobAt(u, i))'
    BY <1>2, <2>2, <2>3 DEF Heeded, Dead
  <2>8. QED
    BY <2>6, <2>7
<1>13. Replies'
  <2>1. SUFFICES ASSUME NEW r \in Runs, reply'[r] # None
                 PROVE  /\ run[r].pc \in Waiting
                        /\ reply'[r].kind = "success" /\ run[r].pc = "tool"
                              => run[r].calls \in finished'[r]
    BY <1>2 DEF Replies
  <2>2. CASE reply'[r] = reply[r]
    BY <1>2, <1>8, <2>1, <2>2 DEF Replies
  <2>3. CASE reply'[r] # reply[r]
    <3>1. Heeded(j) /\ r = j.run /\ reply'[r] = v
      BY <1>2, <1>3, <1>5, <2>3
    <3>2. run[r].pc \in Waiting /\ run[r].calls = j.call /\ j.purpose = run[r].pc
      BY <1>4, <3>1 DEF Heeded, Known
    <3>3. QED
      BY <1>8, <3>1, <3>2
  <2>4. QED
    BY <2>2, <2>3
<1>14. QED
  BY <1>9, <1>10, <1>11, <1>12, <1>13 DEF Inv

\* A cancellation and the clock only make jobs die.
LEMMA OthersKeep ==
    ASSUME Inv, Tick \/ (\E r \in Runs : Cancel(r)) \/ UNCHANGED vars
    PROVE  Inv'
<1>1. /\ UNCHANGED <<run, reply, queue, running, finished>>
      /\ TypeOK /\ RunsOK /\ JobsKnown /\ JobsDistinct /\ Replies
  BY DEF Inv, Tick, Cancel, vars
<1>2. /\ now' \in 0..MaxTime /\ cancelled' \in [Runs -> BOOLEAN]
      /\ \A j \in Job : Dead(j) => cancelled'[j.run] \/ now' >= j.until
  <2>1. now \in Nat /\ MaxTime \in Nat /\ now \in 0..MaxTime /\ cancelled \in [Runs -> BOOLEAN]
    BY <1>1, Numbers DEF TypeOK
  <2>2. CASE Tick
    <3>1. now' = now + 1 /\ cancelled' = cancelled /\ now < MaxTime
      BY <2>2 DEF Tick
    <3>2. \A j \in Job : j.until \in Nat
      BY DEF Job
    <3>3. QED
      BY <2>1, <3>1, <3>2 DEF Dead
  <2>3. ASSUME NEW r \in Runs, Cancel(r)
        PROVE  /\ now' \in 0..MaxTime /\ cancelled' \in [Runs -> BOOLEAN]
               /\ \A j \in Job : Dead(j) => cancelled'[j.run] \/ now' >= j.until
    <3>1. now' = now /\ cancelled' = [cancelled EXCEPT ![r] = TRUE]
      BY <2>3 DEF Cancel
    <3>2. \A j \in Job : j.run \in Runs
      BY DEF Job
    <3>3. \A q \in Runs : cancelled[q] => cancelled'[q]
      BY <2>1, <3>1
    <3>4. QED
      BY <2>1, <3>1, <3>2, <3>3 DEF Dead
  <2>4. CASE UNCHANGED vars
    BY <2>1, <2>4 DEF vars, Dead
  <2>5. QED
    BY <2>2, <2>3, <2>4
<1>3. TypeOK'
  BY <1>1, <1>2 DEF TypeOK
<1>4. RunsOK' /\ JobsDistinct' /\ Replies'
  BY <1>1 DEF RunsOK, RunOK, Backed, JobsDistinct, InUse, JobAt, Replies
<1>5. JobsKnown'
  <2>1. SUFFICES ASSUME NEW w \in Workers, NEW i \in Nat, InUse(w, i)'
                 PROVE  Known(JobAt(w, i))' /\ (i # 0 => Heeded(JobAt(w, i))' \/ Dead(JobAt(w, i))')
    BY DEF JobsKnown
  <2> DEFINE j == JobAt(w, i)
  <2>2. InUse(w, i) /\ JobAt(w, i)' = j
    BY <1>1, <2>1 DEF InUse, JobAt
  <2>3. j \in Job /\ Known(j) /\ (i # 0 => Heeded(j) \/ Dead(j))
    BY <1>1, <2>2, JobTypes DEF JobsKnown
  <2> HIDE DEF j
  <2>4. Known(JobAt(w, i))'
    BY <1>1, <2>2, <2>3 DEF Known, Heeded
  <2>5. i # 0 => Heeded(JobAt(w, i))' \/ Dead(JobAt(w, i))'
    BY <1>1, <1>2, <2>2, <2>3 DEF Heeded, Dead
  <2>6. QED
    BY <2>4, <2>5
<1>6. QED
  BY <1>3, <1>4, <1>5 DEF Inv

-----------------------------------------------------------------------------
(* The theorems                                                             *)

LEMMA InvKept == Inv /\ [Next]_vars => Inv'
<1> SUFFICES ASSUME Inv, [Next]_vars
             PROVE  Inv'
  OBVIOUS
<1>1. ASSUME NEW r \in Runs, Start(r) \/ RunStep(r)
      PROVE  Inv'
  BY <1>1, RunTypes, JobsWhenRunMoves DEF Inv
<1>2. ASSUME NEW w \in Workers, Skip(w) \/ Begin(w) \/ Finish(w)
      PROVE  Inv'
  BY <1>2, WorkerTakes, WorkerFinishes
<1>3. QED
  BY <1>1, <1>2, OthersKeep DEF Next

\* The invariant that the properties follow from.
THEOREM RuntimeInvariant == Spec => []Inv
BY InvBegins, InvKept, PTL DEF Spec

\* The runtime keeps its types, and its budget of tool output.
THEOREM RuntimeTypes == Spec => []TypeOK
<1>1. Inv => TypeOK
  BY DEF Inv
<1>2. QED
  BY <1>1, RuntimeInvariant, PTL

\* The evidence of an answer is what a worker said of that very call.
THEOREM EvidenceReal == Spec => []EvidenceIsReal
<1>1. Inv => EvidenceIsReal
  BY DEF Inv, RunsOK, RunOK, Backed, EvidenceIsReal
<1>2. QED
  BY <1>1, RuntimeInvariant, PTL

\* A worker starts no job that nobody waits for.
THEOREM AbandonedNotStarted == Spec => AbandonedWorkNotStarted
<1>1. ASSUME Inv, [Next]_vars, NEW w \in Workers, running[w] = None, running'[w] # None
      PROVE  Heeded(running'[w])
  <2>1. ASSUME running' = running
        PROVE  FALSE
    BY <1>1, <2>1
  <2>2. ASSUME NEW r \in Runs, Start(r) \/ RunStep(r)
        PROVE  FALSE
    BY <1>1, <2>1, <2>2, RunGoes
  <2>3. ASSUME Tick \/ (\E r \in Runs : Cancel(r)) \/ (\E v \in Workers : Skip(v)) \/ UNCHANGED vars
        PROVE  FALSE
    BY <2>1, <2>3 DEF Tick, Cancel, Skip, vars
  <2>4. running \in [Workers -> Job \cup {None}]
    BY <1>1 DEF Inv, TypeOK
  <2>5. ASSUME NEW v \in Workers, Finish(v)
        PROVE  FALSE
    BY <1>1, <2>4, <2>5 DEF Finish
  <2>6. PICK v \in Workers : Begin(v)
    BY <1>1, <2>2, <2>3, <2>5 DEF Next
  <2>7. v = w /\ running'[w] = Head(queue[w]) /\ ~Dead(Head(queue[w]))
    BY <1>1, <2>4, <2>6 DEF Begin
  <2>8. InUse(w, 1) /\ JobAt(w, 1) = Head(queue[w])
    BY <1>1, <2>6, <2>7, PlacesWhenWorkerTakes
  <2>9. Heeded(JobAt(w, 1)) \/ Dead(JobAt(w, 1))
    BY <1>1, <2>8 DEF Inv, JobsKnown
  <2>10. QED
    BY <2>7, <2>8, <2>9
<1>2. Inv /\ [Next]_vars =>
        [\A w \in Workers : running[w] = None /\ running'[w] # None => Heeded(running'[w])]_vars
  BY <1>1
<1>3. QED
  BY <1>2, RuntimeInvariant, PTL DEF Spec, AbandonedWorkNotStarted

-----------------------------------------------------------------------------
(* How long a run is: for the promise that it ends, what makes it come true *)

\* The steps a run may still take, at place `p` with `q` rounds left and `n` calls of its
\* model's message: in a round no more than RoundSteps.
RoundSteps == 2 * MaxCalls + 5
StepsAt(p, q, n) ==
    IF p = "round" THEN RoundSteps * q + 1
    ELSE IF p = "model" THEN RoundSteps * q
    ELSE IF p = "tool" THEN RoundSteps * (q - 1) + 2 * n + 3
    ELSE IF p = "tools" THEN RoundSteps * (q - 1) + 2 * n + 2
    ELSE IF p = "meta" THEN RoundSteps * (q - 1) + 2
    ELSE IF p = "snapshot" THEN 3
    ELSE IF p = "cli" THEN 2
    ELSE IF p = "text" THEN 1
    ELSE 0
StepsLeft(s) == StepsAt(s.pc, MaxRounds - s.round, Len(s.pending))

\* A round that is under way is one of those left.
Counted(s) == s \in Run /\ (s.pc \in {"model", "meta", "tool", "tools"} => s.round < MaxRounds)

\* The numbers of one place after another.
LEMMA StepsFall ==
    ASSUME NEW q \in Nat, NEW n \in Nat
    PROVE  /\ \A p \in {"round", "idle", "ended", "snapshot", "cli", "text"} : StepsAt(p, q, n) \in Nat
           /\ \A p \in {"round", "snapshot", "cli", "text"} : StepsAt(p, q, n) > 0
           /\ q >= 1 => \A p \in {"model", "meta", "tool", "tools"} :
                            StepsAt(p, q, n) \in Nat /\ StepsAt(p, q, n) > 0
           /\ q >= 1 => \A m \in Nat :
                 /\ StepsAt("model", q, m) < StepsAt("round", q, n)
                 /\ m <= MaxCalls => StepsAt("tools", q, m) < StepsAt("model", q, n)
                 /\ m + 1 = n => StepsAt("tools", q, m) < StepsAt("tools", q, n)
                                 /\ StepsAt("tool", q, m) < StepsAt("tools", q, n)
                 /\ StepsAt("tools", q, n) < StepsAt("tool", q, n)
                 /\ StepsAt("meta", q, m) < StepsAt("model", q, n)
                 /\ \A p \in {"model", "meta", "tools"} : StepsAt("round", q - 1, m) < StepsAt(p, q, n)
<1>1. MaxCalls \in Nat
  BY Numbers
<1>2. RoundSteps \in Nat /\ RoundSteps = 2 * MaxCalls + 5
  BY <1>1 DEF RoundSteps
<1> HIDE DEF RoundSteps
<1>3. \A k, i \in Nat : k * i \in Nat
  OBVIOUS
<1>4. \A k, i \in Nat : i >= 1 => i - 1 \in Nat /\ k * i = k * (i - 1) + k
  OBVIOUS
<1>5. PICK a : a = RoundSteps * q
  OBVIOUS
<1>6. PICK b : b = RoundSteps * (q - 1)
  OBVIOUS
<1>7. a \in Nat /\ (q >= 1 => b \in Nat /\ a = b + RoundSteps)
  BY <1>2, <1>3, <1>4, <1>5, <1>6
<1>8. /\ \A m : StepsAt("round", q, m) = a + 1
      /\ \A m : StepsAt("model", q, m) = a
      /\ \A m : StepsAt("tool", q, m) = b + 2 * m + 3
      /\ \A m : StepsAt("tools", q, m) = b + 2 * m + 2
      /\ \A m : StepsAt("meta", q, m) = b + 2
      /\ \A m : StepsAt("round", q - 1, m) = b + 1
  BY <1>5, <1>6 DEF StepsAt
<1>9. /\ StepsAt("snapshot", q, n) = 3 /\ StepsAt("cli", q, n) = 2 /\ StepsAt("text", q, n) = 1
      /\ StepsAt("idle", q, n) = 0 /\ StepsAt("ended", q, n) = 0
  BY DEF StepsAt
<1> HIDE DEF StepsAt
<1>10. \A p \in {"round", "idle", "ended", "snapshot", "cli", "text"} : StepsAt(p, q, n) \in Nat
  BY <1>7, <1>8, <1>9
<1>11. \A p \in {"round", "snapshot", "cli", "text"} : StepsAt(p, q, n) > 0
  BY <1>7, <1>8, <1>9
<1>12. ASSUME q >= 1
       PROVE  \A p \in {"model", "meta", "tool", "tools"} : StepsAt(p, q, n) \in Nat /\ StepsAt(p, q, n) > 0
  BY <1>1, <1>2, <1>7, <1>8, <1>12
<1>13. ASSUME q >= 1, NEW m \in Nat
       PROVE  /\ StepsAt("model", q, m) < StepsAt("round", q, n)
              /\ m <= MaxCalls => StepsAt("tools", q, m) < StepsAt("model", q, n)
              /\ m + 1 = n => StepsAt("tools", q, m) < StepsAt("tools", q, n)
                              /\ StepsAt("tool", q, m) < StepsAt("tools", q, n)
              /\ StepsAt("tools", q, n) < StepsAt("tool", q, n)
              /\ StepsAt("meta", q, m) < StepsAt("model", q, n)
              /\ \A p \in {"model", "meta", "tools"} : StepsAt("round", q - 1, m) < StepsAt(p, q, n)
  <2>1. StepsAt("model", q, m) < StepsAt("round", q, n)
    BY <1>7, <1>8
  <2>2. m <= MaxCalls => StepsAt("tools", q, m) < StepsAt("model", q, n)
    BY <1>1, <1>2, <1>7, <1>8, <1>13
  <2>3. m + 1 = n => StepsAt("tools", q, m) < StepsAt("tools", q, n)
                     /\ StepsAt("tool", q, m) < StepsAt("tools", q, n)
    BY <1>7, <1>8, <1>13
  <2>4. StepsAt("tools", q, n) < StepsAt("tool", q, n)
    BY <1>7, <1>8, <1>13
  <2>5. StepsAt("meta", q, m) < StepsAt("model", q, n)
    BY <1>1, <1>2, <1>7, <1>8, <1>13
  <2>6. \A p \in {"model", "meta", "tools"} : StepsAt("round", q - 1, m) < StepsAt(p, q, n)
    BY <1>1, <1>2, <1>7, <1>8, <1>13
  <2> QED BY <2>1, <2>2, <2>3, <2>4, <2>5, <2>6
<1> QED BY <1>10, <1>11, <1>12, <1>13

\* What is left is a number, and something while the run is not over.
LEMMA LeftTypes ==
    ASSUME NEW s, Counted(s)
    PROVE  /\ MaxRounds - s.round \in Nat /\ Len(s.pending) \in Nat /\ StepsLeft(s) \in Nat
           /\ s.pc \in {"model", "meta", "tool", "tools"} => MaxRounds - s.round >= 1
           /\ s.pc \notin {"idle", "ended"} => StepsLeft(s) > 0
<1>1. s.round \in 0..MaxRounds /\ MaxRounds \in Nat /\ s.pending \in Seq(Tools \cup {Refused})
      /\ s.pc \in Places
  BY Numbers DEF Counted, Run
<1>2. MaxRounds - s.round \in Nat /\ Len(s.pending) \in Nat
  BY <1>1
<1>3. s.pc \in {"model", "meta", "tool", "tools"} => MaxRounds - s.round >= 1
  BY <1>1 DEF Counted
<1>4. /\ StepsLeft(s) \in Nat
      /\ s.pc \notin {"idle", "ended"} => StepsLeft(s) > 0
  <2>1. PICK q, n, p : q = MaxRounds - s.round /\ n = Len(s.pending) /\ p = s.pc
    OBVIOUS
  <2>2. StepsLeft(s) = StepsAt(p, q, n)
    BY <2>1 DEF StepsLeft
  <2>3. p \in Places /\ q \in Nat /\ n \in Nat /\ (p \in {"model", "meta", "tool", "tools"} => q >= 1)
    BY <1>1, <1>2, <1>3, <2>1
  <2>4. StepsAt(p, q, n) \in Nat /\ (p \notin {"idle", "ended"} => StepsAt(p, q, n) > 0)
    BY <2>3, StepsFall DEF Places, Waiting
  <2> QED BY <2>1, <2>2, <2>4
<1> QED BY <1>2, <1>3, <1>4

\* A run that has become `t` is nearer its end, waits no longer than it may, and keeps its
\* own deadline until it ends.
Punctual(s) == s.pc \in Waiting => s.until <= s.deadline
Nearer(t, s) ==
    /\ StepsLeft(t) < StepsLeft(s) /\ Counted(t) /\ Punctual(t)
    /\ t.pc = "ended" \/ (t.deadline = s.deadline /\ s.pc # "idle")

LEMMA EndedNearer ==
    ASSUME NEW s, Counted(s), s.pc \notin {"idle", "ended"}, NEW how \in {"answer", "error"}
    PROVE  Nearer(Ended(s, how), s)
<1> DEFINE t == Ended(s, how)
<1>1. s \in Run
  BY DEF Counted
<1>2. t \in Run /\ t.pc = "ended"
  <2>1. t \in Run
    BY <1>1, FreshOK DEF Ended, Run, Places
  <2> QED BY <2>1, FreshOK DEF Ended, Run, Fresh
<1> HIDE DEF t
<1>3. StepsLeft(t) = 0
  BY <1>2 DEF StepsLeft, StepsAt
<1>4. StepsLeft(s) \in Nat /\ StepsLeft(s) > 0
  BY LeftTypes
<1>5. Counted(t) /\ Punctual(t)
  BY <1>2 DEF Counted, Punctual, Waiting
<1> QED BY <1>2, <1>3, <1>4, <1>5 DEF Nearer, t

LEMMA NextRoundNearer ==
    ASSUME NEW s, Counted(s), s.pc \in {"model", "meta", "tools"}
    PROVE  Nearer(NextRound(s), s)
<1> DEFINE t == NextRound(s)
<1>1. s \in Run /\ s.round \in Nat /\ s.round < MaxRounds /\ MaxRounds \in Nat
  BY Numbers DEF Counted, Run
<1>2. t \in Run
  <2>1. s.round + 1 \in 0..MaxRounds /\ "round" \in Places
    BY <1>1 DEF Places
  <2> QED BY <1>1, <2>1 DEF NextRound, Run
<1>3. t.pc = "round" /\ t.round = s.round + 1 /\ t.pending = s.pending /\ t.deadline = s.deadline
  BY <1>1 DEF NextRound, Run
<1> HIDE DEF t
<1>4. PICK q, n, p : q = MaxRounds - s.round /\ n = Len(s.pending) /\ p = s.pc
  OBVIOUS
<1>5. q \in Nat /\ q >= 1 /\ n \in Nat /\ p \in {"model", "meta", "tools"}
  BY <1>4, LeftTypes
<1>6. MaxRounds - t.round = q - 1
  BY <1>1, <1>3, <1>4
<1>7. StepsLeft(t) = StepsAt("round", q - 1, n) /\ StepsLeft(s) = StepsAt(p, q, n)
  BY <1>3, <1>4, <1>6 DEF StepsLeft
<1>8. StepsAt("round", q - 1, n) < StepsAt(p, q, n)
  BY <1>5, StepsFall
<1>9. Counted(t) /\ Punctual(t) /\ s.pc # "idle"
  BY <1>2, <1>3 DEF Counted, Punctual, Waiting
<1> QED BY <1>3, <1>7, <1>8, <1>9 DEF Nearer, t

\* The output of a call that a tool has answered or failed.
LEMMA OutputNearer ==
    ASSUME NEW s, Counted(s), s.pc \in {"tool", "snapshot"}, NEW n \in Nat
    PROVE  Nearer(Output(s, n), s) /\ Output(s, n) \in Run
<1> DEFINE t == Output(s, n)
<1>1. s \in Run /\ s.bytes \in Nat /\ s.pc # "idle"
  BY DEF Counted, Run
<1>2. t \in Run
  <2>1. s.bytes + n \in Nat /\ {"tools", "cli"} \subseteq Places
    BY <1>1 DEF Places
  <2> QED BY <1>1, <2>1 DEF Output, Run
<1>3. /\ t.pc = IF s.pc = "snapshot" THEN "cli" ELSE "tools"
      /\ t.round = s.round /\ t.pending = s.pending /\ t.deadline = s.deadline
  BY <1>1 DEF Output, Run
<1> HIDE DEF t
<1>4. PICK q, m : q = MaxRounds - s.round /\ m = Len(s.pending)
  OBVIOUS
<1>5. q \in Nat /\ m \in Nat /\ (s.pc = "tool" => q >= 1)
  BY <1>4, LeftTypes
<1>6. StepsLeft(t) = StepsAt(t.pc, q, m) /\ StepsLeft(s) = StepsAt(s.pc, q, m)
  BY <1>3, <1>4 DEF StepsLeft
<1>7. CASE s.pc = "tool"
  <2>1. StepsLeft(t) < StepsLeft(s)
    BY <1>3, <1>5, <1>6, <1>7, StepsFall
  <2>2. Counted(t) /\ Punctual(t)
    BY <1>2, <1>3, <1>7 DEF Counted, Punctual, Waiting
  <2> QED BY <1>1, <1>2, <1>3, <2>1, <2>2 DEF Nearer, t
<1>8. CASE s.pc = "snapshot"
  <2>1. StepsLeft(t) = 2 /\ StepsLeft(s) = 3
    BY <1>3, <1>6, <1>8 DEF StepsAt
  <2>2. Counted(t) /\ Punctual(t)
    BY <1>2, <1>3, <1>8 DEF Counted, Punctual, Waiting
  <2> QED BY <1>1, <1>2, <1>3, <2>1, <2>2 DEF Nearer, t
<1> QED BY <1>7, <1>8

LEMMA ErrorNearer ==
    ASSUME NEW r, NEW s, Counted(s), s.pc \in Waiting
    PROVE  Nearer(AfterError(r, s), s)
<1>1. CASE s.pc = "meta"
  BY <1>1, NextRoundNearer DEF AfterError
<1>2. CASE s.pc \in {"tool", "snapshot"} /\ ~Over(r, s.deadline)
  <2>1. NoteBytes \in Nat
    BY Numbers
  <2> QED BY <1>2, <2>1, OutputNearer DEF AfterError
<1>3. CASE s.pc # "meta" /\ ~(s.pc \in {"tool", "snapshot"} /\ ~Over(r, s.deadline))
  <2>1. s.pc \notin {"idle", "ended"} /\ "error" \in {"answer", "error"}
    BY DEF Waiting
  <2>2. Nearer(Ended(s, "error"), s)
    BY <2>1, EndedNearer
  <2>3. AfterError(r, s) = Ended(s, "error")
    BY <1>3 DEF AfterError
  <2> QED BY <2>2, <2>3
<1> QED BY <1>1, <1>2, <1>3

\* `work` as far as the queue: the run waits for the job, or has had its error.
LEMMA WorkNears ==
    ASSUME NEW r, NEW w, NEW s, Work(r, w, s), Counted(s), s.pc \in Waiting, Punctual(s)
    PROVE  \E t : /\ run' = [run EXCEPT ![r] = t]
                  /\ Counted(t) /\ Punctual(t) /\ StepsLeft(t) <= StepsLeft(s)
                  /\ t.pc = "ended" \/ t.deadline = s.deadline
<1>1. CASE Over(r, s.until) \/ Len(queue[w]) = Capacity
  <2> DEFINE t == AfterError(r, s)
  <2>1. run' = [run EXCEPT ![r] = t]
    BY <1>1 DEF Work
  <2>2. Nearer(t, s)
    BY ErrorNearer
  <2> HIDE DEF t
  <2>3. StepsLeft(t) \in Nat /\ StepsLeft(s) \in Nat
    BY <2>2, LeftTypes DEF Nearer
  <2>4. StepsLeft(t) <= StepsLeft(s)
    BY <2>2, <2>3 DEF Nearer
  <2>5. Counted(t) /\ Punctual(t) /\ (t.pc = "ended" \/ t.deadline = s.deadline)
    BY <2>2 DEF Nearer
  <2> QED BY <2>1, <2>4, <2>5
<1>2. CASE ~(Over(r, s.until) \/ Len(queue[w]) = Capacity)
  <2> DEFINE t == [s EXCEPT !.calls = @ + 1]
  <2>1. run' = [run EXCEPT ![r] = t]
    BY <1>2 DEF Work
  <2>2. s \in Run /\ s.calls + 1 \in Nat
    BY DEF Counted, Run
  <2>3. /\ t \in Run /\ t.pc = s.pc /\ t.until = s.until /\ t.deadline = s.deadline
        /\ t.round = s.round /\ t.pending = s.pending
    BY <2>2 DEF Run
  <2> HIDE DEF t
  <2>4. StepsLeft(t) = StepsLeft(s) /\ StepsLeft(s) \in Nat
    BY <2>3, LeftTypes DEF StepsLeft
  <2>5. Counted(t) /\ Punctual(t)
    BY <2>3 DEF Counted, Punctual
  <2>6. StepsLeft(t) <= StepsLeft(s)
    BY <2>4
  <2>7. t.deadline = s.deadline
    BY <2>3
  <2> QED BY <2>1, <2>5, <2>6, <2>7
<1> QED BY <1>1, <1>2

\* What the next lemmas say of each step of a run that has started.
GoesNearer(r) == \E t : run' = [run EXCEPT ![r] = t] /\ Nearer(t, run[r])

LEMMA WorkNearer ==
    ASSUME NEW r, NEW w, NEW s, Work(r, w, s), Counted(s), s.pc \in Waiting, Punctual(s),
           StepsLeft(s) < StepsLeft(run[r]), Counted(run[r]), run[r].pc # "idle",
           s.deadline = run[r].deadline
    PROVE  GoesNearer(r)
<1>1. PICK t : /\ run' = [run EXCEPT ![r] = t]
               /\ Counted(t) /\ Punctual(t) /\ StepsLeft(t) <= StepsLeft(s)
               /\ t.pc = "ended" \/ t.deadline = s.deadline
  BY WorkNears
<1>2. StepsLeft(t) \in Nat /\ StepsLeft(s) \in Nat /\ StepsLeft(run[r]) \in Nat
  BY <1>1, LeftTypes
<1>3. StepsLeft(t) < StepsLeft(run[r])
  BY <1>1, <1>2
<1> QED BY <1>1, <1>3 DEF GoesNearer, Nearer

\* The shorter ways to say so.
LEMMA BecomesNearer ==
    ASSUME NEW r, NEW t, Becomes(r, t), Nearer(t, run[r])
    PROVE  GoesNearer(r)
BY DEF Becomes, GoesNearer

LEMMA EndsNearer ==
    ASSUME NEW r, NEW how \in {"answer", "error"}, Becomes(r, Ended(run[r], how)),
           Counted(run[r]), run[r].pc \notin {"idle", "ended"}
    PROVE  GoesNearer(r)
BY EndedNearer, BecomesNearer

\* What the steps of a run that has started have in common here.
LEMMA AtWorkCounted ==
    ASSUME TypeOK, RunsOK, NEW r \in Runs
    PROVE  Counted(run[r]) /\ run[r].deadline \in Nat /\ now \in Nat
BY AtWork DEF RunOK, Counted

\* The requests: of a model, and of a text backend.
LEMMA AskNearer ==
    ASSUME TypeOK, RunsOK, NEW r \in Runs, Ask(r) \/ AskText(r)
    PROVE  GoesNearer(r)
<1> DEFINE s == run[r]
           t(pc) == [s EXCEPT !.pc = pc, !.until = s.deadline]
<1>0. Counted(s) /\ s \in Run /\ s.deadline \in Nat /\ s.round \in 0..MaxRounds
  BY AtWork, AtWorkCounted
<1>1. ASSUME NEW pc \in {"model", "text"}
      PROVE  /\ t(pc) \in Run /\ t(pc).pc = pc /\ t(pc).round = s.round /\ t(pc).pending = s.pending
             /\ t(pc).deadline = s.deadline /\ t(pc).until = s.deadline
  BY <1>0 DEF Run, Places, Waiting
<1> DEFINE q == MaxRounds - s.round
           n == Len(s.pending)
<1>2. q \in Nat /\ n \in Nat
  BY <1>0, LeftTypes
<1>3. CASE Ask(r) /\ s.round = MaxRounds
  <2>1. Becomes(r, Ended(s, "error")) /\ s.pc = "round"
    BY <1>3 DEF Ask
  <2> QED BY <1>0, <2>1, EndsNearer
<1>4. CASE Ask(r) /\ s.round # MaxRounds
  <2> DEFINE u == t("model")
  <2>1. Work(r, "http", u) /\ s.pc = "round"
    BY <1>4 DEF Ask
  <2>2. /\ u \in Run /\ u.pc = "model" /\ u.round = s.round /\ u.pending = s.pending
        /\ u.deadline = s.deadline /\ u.until = s.deadline
    BY <1>1
  <2> HIDE DEF u, t
  <2>3. s.round < MaxRounds /\ q >= 1
    BY <1>0, <1>4, Numbers
  <2>4. Counted(u) /\ Punctual(u) /\ u.pc \in Waiting
    <3>1. u.until <= u.deadline
      BY <1>0, <2>2
    <3> QED BY <2>2, <2>3, <3>1 DEF Counted, Punctual, Waiting
  <2>5. StepsLeft(u) = StepsAt("model", q, n) /\ StepsLeft(s) = StepsAt("round", q, n)
    BY <2>1, <2>2 DEF StepsLeft
  <2>6. StepsLeft(u) < StepsLeft(s)
    <3> HIDE DEF q, n
    <3> QED BY <1>2, <2>3, <2>5, StepsFall
  <2> QED BY <1>0, <2>1, <2>2, <2>4, <2>6, WorkNearer
<1>5. CASE AskText(r)
  <2> DEFINE u == t("text")
  <2>1. Work(r, "http", u) /\ s.pc = "cli"
    BY <1>5 DEF AskText
  <2>2. /\ u \in Run /\ u.pc = "text" /\ u.round = s.round /\ u.pending = s.pending
        /\ u.deadline = s.deadline /\ u.until = s.deadline
    BY <1>1
  <2> HIDE DEF u, t
  <2>3. Counted(u) /\ Punctual(u) /\ u.pc \in Waiting
    <3>1. u.until <= u.deadline
      BY <1>0, <2>2
    <3> QED BY <2>2, <3>1 DEF Counted, Punctual, Waiting
  <2>4. StepsLeft(u) = 1 /\ StepsLeft(s) = 2
    BY <2>1, <2>2 DEF StepsLeft, StepsAt
  <2> QED BY <1>0, <2>1, <2>2, <2>3, <2>4, WorkNearer
<1> QED BY <1>3, <1>4, <1>5

\* One call of the message.
LEMMA CallNearer ==
    ASSUME TypeOK, RunsOK, NEW r \in Runs, CallTool(r)
    PROVE  GoesNearer(r)
<1> DEFINE s == run[r]
           c == Head(s.pending)
           until == Min(s.deadline, now + ToolTime)
           t == [s EXCEPT !.pending = Tail(@), !.final = @ \/ c \in s.asked, !.asked = @ \cup {c}]
           q == MaxRounds - s.round
           n == Len(s.pending)
           m == Len(Tail(s.pending))
<1>1. /\ Counted(s) /\ s \in Run /\ s.pc = "tools" /\ s.pending # <<>>
      /\ s.bytes \in Nat /\ s.pending \in Seq(Tools \cup {Refused}) /\ s.deadline \in Nat
  BY AtWork, AtWorkCounted DEF CallTool, Run
<1>2. c \in Tools \cup {Refused} /\ Tail(s.pending) \in Seq(Tools \cup {Refused})
  BY <1>1
<1>3. until \in Nat /\ until <= s.deadline
  <2>1. now + ToolTime \in Nat
    BY AtWork, Numbers
  <2> QED BY <1>1, <2>1 DEF Min
<1>4. n \in Nat /\ m \in Nat /\ m + 1 = n
  BY <1>1
<1>5. q \in Nat /\ q >= 1 /\ s.round < MaxRounds
  BY <1>1, LeftTypes DEF Counted
<1>6. t \in Run
  <2>1. (s.final \/ c \in s.asked) \in BOOLEAN /\ s.asked \cup {c} \subseteq Tools \cup {Refused}
    BY <1>1, <1>2 DEF Run
  <2> QED BY <1>1, <1>2, <2>1 DEF Run
<1>7. /\ t.pc = "tools" /\ t.round = s.round /\ t.pending = Tail(s.pending) /\ t.deadline = s.deadline
      /\ t.bytes = s.bytes
  BY <1>1 DEF Run
<1>8. StepsLeft(s) = StepsAt("tools", q, n)
  BY <1>1 DEF StepsLeft
<1>9. StepsAt("tools", q, m) < StepsAt("tools", q, n) /\ StepsAt("tool", q, m) < StepsAt("tools", q, n)
  <2> HIDE DEF q, n, m
  <2> QED BY <1>4, <1>5, StepsFall
<1>10. CASE s.bytes >= TotalBytes
  <2>1. Becomes(r, Ended(s, "error"))
    BY <1>10 DEF CallTool
  <2> QED BY <1>1, <2>1, EndsNearer
<1>11. CASE ~(s.bytes >= TotalBytes) /\ c = Refused
  <2> DEFINE u == Output(t, NoteBytes)
  <2>1. Becomes(r, u)
    BY <1>11 DEF CallTool
  <2>2. u = [t EXCEPT !.pc = "tools", !.bytes = @ + NoteBytes]
    BY <1>7 DEF Output
  <2> HIDE DEF u, t
  <2>3. t.bytes + NoteBytes \in Nat /\ "tools" \in Places
    BY <1>1, <1>7, Numbers DEF Places
  <2>4. u \in Run
    BY <1>6, <2>2, <2>3 DEF Run
  <2>5. u.pc = "tools" /\ u.round = s.round /\ u.pending = Tail(s.pending) /\ u.deadline = s.deadline
    BY <1>6, <1>7, <2>2 DEF Run
  <2>6. StepsLeft(u) = StepsAt("tools", q, m)
    BY <2>5 DEF StepsLeft
  <2>7. Counted(u) /\ Punctual(u)
    BY <1>5, <2>4, <2>5 DEF Counted, Punctual, Waiting
  <2>8. Nearer(u, s)
    BY <1>1, <1>8, <1>9, <2>5, <2>6, <2>7 DEF Nearer
  <2> QED BY <2>1, <2>8, BecomesNearer
<1>12. CASE ~(s.bytes >= TotalBytes) /\ c # Refused
  <2> DEFINE u == [t EXCEPT !.pc = "tool", !.until = until]
  <2>1. Work(r, ToolWorker[c], u)
    BY <1>12 DEF CallTool
  <2> HIDE DEF t, until
  <2>2. u \in Run
    BY <1>3, <1>6 DEF Run, Places, Waiting
  <2>3. /\ u.pc = "tool" /\ u.round = s.round /\ u.pending = Tail(s.pending)
        /\ u.deadline = s.deadline /\ u.until = until
    BY <1>6, <1>7 DEF Run
  <2> HIDE DEF u
  <2>4. StepsLeft(u) = StepsAt("tool", q, m)
    BY <2>3 DEF StepsLeft
  <2>5. Counted(u) /\ Punctual(u) /\ u.pc \in Waiting
    BY <1>3, <1>5, <2>2, <2>3 DEF Counted, Punctual, Waiting
  <2>6. StepsLeft(u) < StepsLeft(s)
    BY <1>8, <1>9, <2>4
  <2> QED BY <1>1, <2>1, <2>3, <2>5, <2>6, WorkNearer
<1> QED BY <1>10, <1>11, <1>12

LEMMA EndRoundNearer ==
    ASSUME TypeOK, RunsOK, NEW r \in Runs, EndRound(r)
    PROVE  GoesNearer(r)
<1>1. Counted(run[r]) /\ run[r].pc = "tools"
  BY AtWorkCounted DEF EndRound
<1>2. Becomes(r, NextRound(run[r])) \/ Becomes(r, Ended(run[r], "error"))
  BY DEF EndRound
<1>3. CASE Becomes(r, NextRound(run[r]))
  BY <1>1, <1>3, NextRoundNearer, BecomesNearer
<1>4. CASE Becomes(r, Ended(run[r], "error"))
  BY <1>1, <1>4, EndsNearer
<1> QED BY <1>2, <1>3, <1>4

LEMMA GiveUpNearer ==
    ASSUME TypeOK, RunsOK, NEW r \in Runs, GiveUp(r)
    PROVE  GoesNearer(r)
<1>1. Counted(run[r]) /\ run[r].pc \in Waiting /\ Becomes(r, AfterError(r, run[r]))
  BY AtWorkCounted DEF GiveUp
<1> QED BY <1>1, ErrorNearer, BecomesNearer

\* An empty message.
LEMMA AfterEmptyNearer ==
    ASSUME TypeOK, RunsOK, NEW r \in Runs, NEW thought \in BOOLEAN, run[r].pc = "model",
           AfterEmpty(r, run[r], thought)
    PROVE  GoesNearer(r)
<1> DEFINE s == run[r]
           again == s.kind = "ollama" /\ ~s.retried /\ s.round + 1 < MaxRounds
           q == MaxRounds - s.round
           n == Len(s.pending)
<1>1. Counted(s) /\ s \in Run /\ s.pc = "model" /\ s.deadline \in Nat /\ s.round < MaxRounds
  BY AtWork, AtWorkCounted DEF Counted
<1>2. q \in Nat /\ n \in Nat /\ q >= 1
  BY <1>1, LeftTypes
<1>3. CASE ~again
  <2>1. Becomes(r, Ended(s, "error"))
    BY <1>3 DEF AfterEmpty
  <2> QED BY <1>1, <2>1, EndsNearer
<1>4. CASE again /\ thought
  <2> DEFINE until == Min(s.deadline, now + MetaTime)
             u == [s EXCEPT !.pc = "meta", !.retried = TRUE, !.until = until]
  <2>1. Work(r, "http", u)
    BY <1>4 DEF AfterEmpty
  <2>2. until \in Nat /\ until <= s.deadline /\ "meta" \in Places
    <3>1. now + MetaTime \in Nat
      BY AtWork, Numbers
    <3> QED BY <1>1, <3>1 DEF Min, Places, Waiting
  <2> HIDE DEF until
  <2>3. u \in Run
    BY <1>1, <2>2 DEF Run
  <2>4. /\ u.pc = "meta" /\ u.round = s.round /\ u.pending = s.pending
        /\ u.deadline = s.deadline /\ u.until = until
    BY <1>1 DEF Run
  <2> HIDE DEF u
  <2>5. Counted(u) /\ Punctual(u) /\ u.pc \in Waiting
    BY <1>1, <2>2, <2>3, <2>4 DEF Counted, Punctual, Waiting
  <2>6. StepsLeft(u) = StepsAt("meta", q, n) /\ StepsLeft(s) = StepsAt("model", q, n)
    BY <1>1, <2>4 DEF StepsLeft
  <2>7. StepsLeft(u) < StepsLeft(s)
    <3> HIDE DEF q, n
    <3> QED BY <1>2, <2>6, StepsFall
  <2> QED BY <1>1, <2>1, <2>4, <2>5, <2>7, WorkNearer
<1>5. CASE again /\ ~thought
  <2> DEFINE u == [s EXCEPT !.retried = TRUE]
             v == NextRound(u)
  <2>1. Becomes(r, v)
    BY <1>5 DEF AfterEmpty
  <2>2. u \in Run
    BY <1>1 DEF Run
  <2>3. /\ u.pc = "model" /\ u.round = s.round /\ u.pending = s.pending
        /\ u.deadline = s.deadline
    BY <1>1 DEF Run
  <2> HIDE DEF u
  <2>4. Counted(u) /\ StepsLeft(u) = StepsLeft(s)
    BY <1>1, <2>2, <2>3 DEF Counted, StepsLeft
  <2>5. Nearer(v, u)
    BY <2>3, <2>4, NextRoundNearer
  <2> HIDE DEF v
  <2>6. Nearer(v, s)
    BY <1>1, <2>3, <2>4, <2>5 DEF Nearer
  <2> QED BY <2>1, <2>6, BecomesNearer
<1> QED BY <1>3, <1>4, <1>5

\* The model asks for tools, and for no more than are left to it.
LEMMA AfterCallsNearer ==
    ASSUME TypeOK, RunsOK, NEW r \in Runs, NEW batch \in Seq(Tools \cup {Refused}),
           run[r].pc = "model", Becomes(r, AfterCalls(run[r], batch))
    PROVE  GoesNearer(r)
<1> DEFINE s == run[r]
           t == [s EXCEPT !.pc = "tools", !.used = @ + Len(batch), !.pending = batch]
           q == MaxRounds - s.round
           n == Len(s.pending)
           m == Len(batch)
<1>1. Counted(s) /\ s \in Run /\ s.pc = "model" /\ s.used \in Nat /\ m \in Nat /\ s.round < MaxRounds
  BY AtWork, AtWorkCounted, Numbers DEF Counted
<1>2. q \in Nat /\ n \in Nat /\ q >= 1
  BY <1>1, LeftTypes
<1>3. CASE AnswerOnly(s) \/ s.used + m > MaxCalls
  <2>1. Becomes(r, Ended(s, "error"))
    BY <1>3 DEF AfterCalls
  <2> QED BY <1>1, <2>1, EndsNearer
<1>4. CASE ~(AnswerOnly(s) \/ s.used + m > MaxCalls)
  <2>1. Becomes(r, t)
    BY <1>4 DEF AfterCalls
  <2>2. s.used + m \in 0..MaxCalls /\ m <= MaxCalls /\ "tools" \in Places
    <3>1. MaxCalls \in Nat /\ "tools" \in Places
      BY Numbers DEF Places
    <3>2. ~(s.used + m > MaxCalls)
      BY <1>4
    <3> HIDE DEF s, m
    <3> QED BY <1>1, <3>1, <3>2
  <2>3. t \in Run
    BY <1>1, <2>2 DEF Run
  <2>4. t.pc = "tools" /\ t.round = s.round /\ t.pending = batch /\ t.deadline = s.deadline
    BY <1>1 DEF Run
  <2> HIDE DEF t
  <2>5. Counted(t) /\ Punctual(t)
    BY <1>1, <2>3, <2>4 DEF Counted, Punctual, Waiting
  <2>6. StepsLeft(t) = StepsAt("tools", q, m) /\ StepsLeft(s) = StepsAt("model", q, n)
    BY <1>1, <2>4 DEF StepsLeft
  <2>7. StepsLeft(t) < StepsLeft(s)
    <3> HIDE DEF q, n, m
    <3> QED BY <1>1, <1>2, <2>2, <2>6, StepsFall
  <2>8. Nearer(t, s)
    BY <1>1, <2>4, <2>5, <2>7 DEF Nearer
  <2> QED BY <2>1, <2>8, BecomesNearer
<1> QED BY <1>3, <1>4

LEMMA ResultNearer ==
    ASSUME NEW s, Counted(s), s.pc \in {"tool", "snapshot"}, NEW v \in Value
    PROVE  Nearer(Result(s, v), s)
<1>1. v.size \in Nat /\ NoteBytes \in Nat /\ s \in Run /\ s.calls \in Nat
  BY Numbers DEF Value, Counted, Run
<1>2. CASE v.size > Room(s)
  BY <1>1, <1>2, OutputNearer DEF Result
<1>3. CASE ~(v.size > Room(s))
  <2> DEFINE u == Output(s, v.size)
             t == [u EXCEPT !.shown = IF v.kind = "success" THEN @ \cup {s.calls} ELSE @]
  <2>1. Result(s, v) = t
    BY <1>3 DEF Result
  <2>2. u \in Run /\ Nearer(u, s)
    BY <1>1, OutputNearer
  <2> HIDE DEF u
  <2>3. /\ t \in Run /\ t.pc = u.pc /\ t.round = u.round /\ t.pending = u.pending
        /\ t.deadline = u.deadline /\ t.until = u.until
    BY <1>1, <2>2 DEF Run
  <2> HIDE DEF t
  <2>4. StepsLeft(t) = StepsLeft(u)
    BY <2>3 DEF StepsLeft
  <2> QED BY <2>1, <2>2, <2>3, <2>4 DEF Nearer, Counted, Punctual
<1> QED BY <1>2, <1>3

LEMMA HearNearer ==
    ASSUME TypeOK, RunsOK, NEW r \in Runs, Hear(r)
    PROVE  GoesNearer(r)
<1> DEFINE s == run[r]
           v == reply[r]
<1>1. v # None /\ v \in Value /\ Counted(s)
  BY AtWorkCounted DEF Hear, TypeOK
<1>2. CASE s.pc = "model" /\ v.kind = "text" /\ Becomes(r, AfterText(s))
  <2> DEFINE how == IF s.used > 0 /\ s.shown = {} THEN "error" ELSE "answer"
  <2>1. Becomes(r, Ended(s, how)) /\ how \in {"answer", "error"}
    BY <1>2 DEF AfterText
  <2> HIDE DEF how
  <2> QED BY <1>1, <1>2, <2>1, EndsNearer
<1>3. CASE s.pc = "model" /\ v.kind \in {"empty", "thinking"} /\ AfterEmpty(r, s, v.kind = "thinking")
  BY <1>3, AfterEmptyNearer
<1>4. CASE s.pc = "model" /\ v.kind = "calls" /\ Becomes(r, AfterCalls(s, v.batch))
  <2>1. v.batch \in Seq(Tools \cup {Refused})
    BY <1>1 DEF Value
  <2> QED BY <1>4, <2>1, AfterCallsNearer
<1>5. CASE s.pc = "meta" /\ Becomes(r, NextRound(s))
  BY <1>1, <1>5, NextRoundNearer, BecomesNearer
<1>6. CASE s.pc \in {"tool", "snapshot"} /\ Becomes(r, Result(s, v))
  BY <1>1, <1>6, ResultNearer, BecomesNearer
<1>7. CASE s.pc = "text" /\ Becomes(r, Ended(s, "answer"))
  BY <1>1, <1>7, EndsNearer
<1> QED BY <1>2, <1>3, <1>4, <1>5, <1>6, <1>7 DEF Hear

\* What a run is allowed when it starts, in steps.
MaxSteps == RoundSteps * MaxRounds + 3

\* A run has a number of steps left, and of time: it waits for nothing beyond its deadline,
\* which is never further away than its budget.
Bounded(r) ==
    /\ StepsLeft(run[r]) \in 0..MaxSteps /\ Punctual(run[r])
    /\ run[r].pc \notin {"idle", "ended"} => run[r].deadline <= now + Budget
Short == \A r \in Runs : Bounded(r)

LEMMA StartShort ==
    ASSUME TypeOK, RunsOK, NEW r \in Runs, Start(r)
    PROVE  \E t : /\ run' = [run EXCEPT ![r] = t]
                  /\ Counted(t) /\ Punctual(t) /\ StepsLeft(t) <= MaxSteps
                  /\ t.pc = "ended" \/ t.deadline = now + Budget
<1> DEFINE s == run[r]
<1>1. s \in Run /\ RunOK(s) /\ now \in Nat /\ s.kind # "cli" /\ s.used = 0 /\ Counted(s) /\ s.pc = "idle"
  BY AtWork, AtWorkCounted DEF Start, RunOK
<1>2. MaxCalls \in Nat /\ MaxRounds \in Nat /\ Budget \in Nat /\ ToolTime \in Nat
  BY Numbers
<1>3. PICK a : a = RoundSteps * MaxRounds
  OBVIOUS
<1>4. a \in Nat /\ MaxSteps = a + 3
  <2>1. RoundSteps \in Nat
    BY <1>2 DEF RoundSteps
  <2>2. \A k, i \in Nat : k * i \in Nat
    OBVIOUS
  <2>3. a \in Nat
    BY <1>2, <1>3, <2>1, <2>2, Zenon
  <2> QED BY <1>3, <2>3 DEF MaxSteps
<1>5. CASE Becomes(r, Ended(s, "error"))
  <2> DEFINE t == Ended(s, "error")
  <2>1. t \in Run /\ t.pc = "ended"
    BY <1>1, EndedOK DEF RunOK
  <2>2. run' = [run EXCEPT ![r] = t]
    BY <1>5 DEF Becomes
  <2> HIDE DEF t
  <2>3. StepsLeft(t) = 0
    BY <2>1 DEF StepsLeft, StepsAt
  <2>4. Counted(t) /\ Punctual(t)
    BY <2>1 DEF Counted, Punctual, Waiting
  <2>5. StepsLeft(t) <= MaxSteps
    BY <1>4, <2>3
  <2> QED BY <2>1, <2>2, <2>4, <2>5
<1>6. ASSUME NEW kind \in Backends[r], NEW explaining \in BOOLEAN,
             LET u == [run[r] EXCEPT !.kind = kind, !.explaining = explaining /\ kind # "cli",
                                     !.deadline = now + Budget]
             IN  IF kind # "cli" THEN Becomes(r, [u EXCEPT !.pc = "round"])
                 ELSE Work(r, "tool", [u EXCEPT !.pc = "snapshot",
                                                !.until = Min(now + Budget, now + ToolTime)])
      PROVE  \E t : /\ run' = [run EXCEPT ![r] = t]
                    /\ Counted(t) /\ Punctual(t) /\ StepsLeft(t) <= MaxSteps
                    /\ t.pc = "ended" \/ t.deadline = now + Budget
  <2> DEFINE until == Min(now + Budget, now + ToolTime)
             u == [s EXCEPT !.kind = kind, !.explaining = explaining /\ kind # "cli",
                            !.deadline = now + Budget]
  <2>1. kind \in Kinds /\ now + Budget \in Nat /\ until \in Nat /\ until <= now + Budget
    <3>1. kind \in Kinds
      BY Numbers
    <3>2. now + Budget \in Nat /\ now + ToolTime \in Nat
      BY <1>1, <1>2
    <3> QED BY <3>1, <3>2 DEF Min
  <2>2. u \in Run
    BY <1>1, <2>1 DEF Run
  <2>3. u.deadline = now + Budget /\ u.round = s.round /\ u.pending = s.pending
    BY <1>1 DEF Run
  <2> HIDE DEF until
  <2>4. CASE kind # "cli"
    <3> DEFINE v == [u EXCEPT !.pc = "round"]
    <3>1. Becomes(r, v)
      BY <1>6, <2>4
    <3> HIDE DEF u
    <3>2. v \in Run
      BY <2>2 DEF Run, Places
    <3>3. v.pc = "round" /\ v.deadline = now + Budget /\ v.round \in 0..MaxRounds
      BY <2>2, <2>3 DEF Run
    <3> HIDE DEF v
    <3>4. Counted(v) /\ Punctual(v)
      BY <3>2, <3>3 DEF Counted, Punctual, Waiting
    <3>5. StepsLeft(v) <= MaxSteps
      <4>1. PICK q : q = MaxRounds - v.round
        OBVIOUS
      <4>2. q \in Nat /\ q <= MaxRounds
        BY <1>2, <3>3, <4>1
      <4>3. StepsLeft(v) = RoundSteps * q + 1
        BY <3>3, <4>1 DEF StepsLeft, StepsAt
      <4>4. \A k, m, n \in Nat : m <= n => k * m \in Nat /\ k * n \in Nat /\ k * m <= k * n
        <5> TAKE k, m, n \in Nat
        <5> HAVE m <= n
        <5>1. PICK d \in Nat : n = m + d
          <6> WITNESS n - m \in Nat
          <6> QED OBVIOUS
        <5>2. k * n = k * m + k * d /\ k * d \in Nat /\ k * m \in Nat
          BY <5>1
        <5> QED BY <5>2
      <4>5. RoundSteps \in Nat
        BY <1>2 DEF RoundSteps
      <4>6. RoundSteps * q \in Nat /\ RoundSteps * q <= a
        BY <1>2, <1>3, <4>2, <4>4, <4>5, Zenon
      <4> QED BY <1>4, <4>3, <4>6
    <3>6. run' = [run EXCEPT ![r] = v]
      BY <3>1 DEF Becomes
    <3> QED BY <3>3, <3>4, <3>5, <3>6
  <2>5. CASE kind = "cli"
    <3> DEFINE v == [u EXCEPT !.pc = "snapshot", !.until = until]
    <3>1. Work(r, "tool", v)
      BY <1>6, <2>5 DEF until
    <3> HIDE DEF u
    <3>2. v \in Run
      BY <2>1, <2>2 DEF Run, Places, Waiting
    <3>3. v.pc = "snapshot" /\ v.deadline = now + Budget /\ v.until = until
      BY <2>2, <2>3 DEF Run
    <3> HIDE DEF v
    <3>4. Counted(v) /\ Punctual(v) /\ v.pc \in Waiting
      BY <2>1, <3>2, <3>3 DEF Counted, Punctual, Waiting
    <3>5. StepsLeft(v) = 3
      BY <3>3 DEF StepsLeft, StepsAt
    <3>6. PICK t : /\ run' = [run EXCEPT ![r] = t]
                   /\ Counted(t) /\ Punctual(t) /\ StepsLeft(t) <= StepsLeft(v)
                   /\ t.pc = "ended" \/ t.deadline = v.deadline
      BY <3>1, <3>4, WorkNears
    <3>7. StepsLeft(t) \in Nat
      BY <3>6, LeftTypes
    <3>8. StepsLeft(t) <= MaxSteps
      BY <1>4, <3>5, <3>6, <3>7
    <3> QED BY <3>3, <3>6, <3>8
  <2> QED BY <2>4, <2>5
<1> QED BY <1>5, <1>6 DEF Start

LEMMA RunNears ==
    ASSUME Inv, NEW r \in Runs, RunStep(r)
    PROVE  GoesNearer(r)
<1>1. TypeOK /\ RunsOK
  BY DEF Inv
<1> QED BY <1>1, AskNearer, CallNearer, EndRoundNearer, HearNearer, GiveUpNearer DEF RunStep

\* A step takes a run nearer its end, or starts it, or is not its own.
LEMMA OneRunMoves ==
    ASSUME Inv, [Next]_vars, NEW r \in Runs
    PROVE  /\ now \in Nat /\ now' \in Nat /\ now <= now'
           /\ \/ run'[r] = run[r]
              \/ run[r].pc = "idle" /\ Counted(run'[r]) /\ Punctual(run'[r])
                 /\ StepsLeft(run'[r]) <= MaxSteps
                 /\ (run'[r].pc = "ended" \/ run'[r].deadline = now + Budget)
              \/ Nearer(run'[r], run[r])
<1>1. TypeOK /\ RunsOK /\ run \in [Runs -> Run] /\ now \in Nat
  BY Numbers DEF Inv, TypeOK
<1>2. ASSUME NEW q \in Runs, Start(q)
      PROVE  /\ now' = now
             /\ \/ run'[r] = run[r]
                \/ run[r].pc = "idle" /\ Counted(run'[r]) /\ Punctual(run'[r])
                   /\ StepsLeft(run'[r]) <= MaxSteps
                   /\ (run'[r].pc = "ended" \/ run'[r].deadline = now + Budget)
  <2>1. PICK t : /\ run' = [run EXCEPT ![q] = t]
                 /\ Counted(t) /\ Punctual(t) /\ StepsLeft(t) <= MaxSteps
                 /\ t.pc = "ended" \/ t.deadline = now + Budget
    BY <1>1, <1>2, StartShort
  <2>2. now' = now /\ run[q].pc = "idle"
    BY <1>2 DEF Start
  <2>3. run'[r] = IF r = q THEN t ELSE run[r]
    BY <1>1, <2>1
  <2> QED BY <2>1, <2>2, <2>3
<1>3. ASSUME NEW q \in Runs, RunStep(q)
      PROVE  now' = now /\ (run'[r] = run[r] \/ Nearer(run'[r], run[r]))
  <2>1. PICK t : run' = [run EXCEPT ![q] = t] /\ Nearer(t, run[q])
    BY <1>3, RunNears DEF GoesNearer
  <2>2. run'[r] = IF r = q THEN t ELSE run[r]
    BY <1>1, <2>1
  <2>3. now' = now
    BY <1>3, RunGoes
  <2> QED BY <2>1, <2>2, <2>3
<1>4. \/ \E q \in Runs : Start(q)
      \/ \E q \in Runs : RunStep(q)
      \/ (\E q \in Runs : Cancel(q)) \/ (\E w \in Workers : Skip(w) \/ Begin(w) \/ Finish(w))
           \/ UNCHANGED vars
      \/ Tick
  BY DEF Next
<1>5. CASE \E q \in Runs : Start(q)
  BY <1>1, <1>2, <1>5
<1>6. CASE \E q \in Runs : RunStep(q)
  BY <1>1, <1>3, <1>6
<1>7. CASE (\E q \in Runs : Cancel(q)) \/ (\E w \in Workers : Skip(w) \/ Begin(w) \/ Finish(w))
           \/ UNCHANGED vars
  <2>1. now' = now /\ run' = run
    BY <1>7 DEF Cancel, Skip, Begin, Finish, vars
  <2> QED BY <1>1, <2>1
<1>8. CASE Tick
  <2>1. now' = now + 1 /\ run' = run
    BY <1>8 DEF Tick
  <2> QED BY <1>1, <2>1
<1> QED BY <1>4, <1>5, <1>6, <1>7, <1>8

LEMMA ShortKept == Inv /\ Short /\ [Next]_vars => Short'
<1> SUFFICES ASSUME Inv, Short, [Next]_vars, NEW r \in Runs
             PROVE  Bounded(r)'
  BY DEF Short
<1>1. Bounded(r) /\ Counted(run[r])
  BY AtWorkCounted DEF Short, Inv
<1>2. PICK s, t, n, m : s = run[r] /\ t = run'[r] /\ n = now /\ m = now'
  OBVIOUS
<1>3. /\ StepsLeft(s) \in 0..MaxSteps /\ Punctual(s)
      /\ s.pc \notin {"idle", "ended"} => s.deadline <= n + Budget
  BY <1>1, <1>2 DEF Bounded
<1>4. /\ n \in Nat /\ m \in Nat /\ n <= m /\ Budget \in Nat
      /\ \/ t = s
         \/ /\ Counted(t) /\ Punctual(t) /\ StepsLeft(t) <= MaxSteps
            /\ t.pc = "ended" \/ t.deadline = n + Budget
         \/ Nearer(t, s)
  BY <1>2, OneRunMoves, Numbers
<1>5. s.deadline \in Nat /\ StepsLeft(s) \in Nat /\ MaxSteps \in Int
  <2>1. s \in Run
    BY <1>1, <1>2 DEF Counted
  <2>2. StepsLeft(s) \in Nat
    BY <1>1, <1>2, LeftTypes
  <2>3. RoundSteps \in Nat /\ MaxRounds \in Nat
    BY Numbers DEF RoundSteps
  <2>4. \A k, i \in Nat : k * i + 3 \in Int
    OBVIOUS
  <2>5. MaxSteps \in Int
    BY <2>3, <2>4, Zenon DEF MaxSteps
  <2> QED BY <2>1, <2>2, <2>5 DEF Run
<1>6. /\ StepsLeft(t) \in 0..MaxSteps /\ Punctual(t)
      /\ t.pc \notin {"idle", "ended"} => t.deadline <= m + Budget
  <2>1. CASE t = s
    BY <1>3, <1>4, <1>5, <2>1
  <2>2. CASE /\ Counted(t) /\ Punctual(t) /\ StepsLeft(t) <= MaxSteps
             /\ t.pc = "ended" \/ t.deadline = n + Budget
    <3>1. StepsLeft(t) \in Nat
      BY <2>2, LeftTypes
    <3> QED BY <1>4, <1>5, <2>2, <3>1
  <2>3. CASE Nearer(t, s)
    <3>1. StepsLeft(t) \in Nat /\ Punctual(t) /\ StepsLeft(t) < StepsLeft(s)
      BY <2>3, LeftTypes DEF Nearer
    <3>2. StepsLeft(t) \in 0..MaxSteps
      BY <1>3, <1>5, <3>1
    <3>3. t.pc # "ended" => t.deadline = s.deadline /\ s.pc # "idle"
      BY <2>3 DEF Nearer
    <3>4. s.pc # "ended"
      <4>1. s.pc = "ended" => StepsLeft(s) = 0
        BY DEF StepsLeft, StepsAt
      <4> QED BY <3>1, <4>1
    <3> QED BY <1>3, <1>4, <1>5, <3>1, <3>2, <3>3, <3>4
  <2> QED BY <1>4, <2>1, <2>2, <2>3
<1>7. (StepsLeft(run[r]))' = StepsLeft(t) /\ (Punctual(run[r]))' = Punctual(t)
  BY <1>2 DEF StepsLeft, Punctual
<1> QED BY <1>2, <1>6, <1>7 DEF Bounded, MaxSteps, RoundSteps

LEMMA RunsFall ==
    Inv /\ [Next]_vars =>
      [\A r \in Runs : /\ RunStep(r) => StepsLeft(run'[r]) < StepsLeft(run[r])
                       /\ run[r].pc # "idle" => StepsLeft(run'[r]) <= StepsLeft(run[r])]_vars
<1> SUFFICES ASSUME Inv, [Next]_vars, NEW r \in Runs
             PROVE  /\ RunStep(r) => StepsLeft(run'[r]) < StepsLeft(run[r])
                    /\ run[r].pc # "idle" => StepsLeft(run'[r]) <= StepsLeft(run[r])
  OBVIOUS
<1>1. StepsLeft(run[r]) \in Nat /\ run \in [Runs -> Run]
  BY AtWorkCounted, LeftTypes DEF Inv, TypeOK
<1>2. ASSUME RunStep(r)
      PROVE  StepsLeft(run'[r]) < StepsLeft(run[r])
  <2>1. PICK t : run' = [run EXCEPT ![r] = t] /\ Nearer(t, run[r])
    BY <1>2, RunNears DEF GoesNearer
  <2>2. run'[r] = t
    BY <1>1, <2>1
  <2> QED BY <2>1, <2>2 DEF Nearer
<1>3. ASSUME run[r].pc # "idle"
      PROVE  StepsLeft(run'[r]) <= StepsLeft(run[r])
  <2>1. run'[r] = run[r] \/ Nearer(run'[r], run[r])
    BY <1>3, OneRunMoves
  <2>2. CASE run'[r] = run[r]
    BY <1>1, <2>2
  <2>3. CASE Nearer(run'[r], run[r])
    <3>1. StepsLeft(run'[r]) \in Nat /\ StepsLeft(run'[r]) < StepsLeft(run[r])
      BY <2>3, LeftTypes DEF Nearer
    <3> QED BY <1>1, <3>1
  <2> QED BY <2>1, <2>2, <2>3
<1> QED BY <1>2, <1>3

LEMMA ShortBegins == Init => Short
<1> SUFFICES ASSUME Init, NEW r \in Runs
             PROVE  Bounded(r)
  BY DEF Short
<1>1. run[r] = Fresh
  BY DEF Init
<1>2. run[r].pc = "idle"
  BY <1>1 DEF Fresh
<1>3. StepsLeft(run[r]) = 0
  BY <1>2 DEF StepsLeft, StepsAt
<1>4. MaxSteps \in Nat
  <2>1. RoundSteps \in Nat /\ MaxRounds \in Nat
    BY Numbers DEF RoundSteps
  <2>2. \A k, i \in Nat : k * i + 3 \in Nat
    OBVIOUS
  <2> QED BY <2>1, <2>2, Zenon DEF MaxSteps
<1> QED BY <1>2, <1>3, <1>4 DEF Bounded, Punctual, Waiting

\* A run that has started ends within so many steps of its own, and while it waits it is
\* for no longer than its budget.
THEOREM RunsAreShort ==
    Spec => /\ []Short
            /\ [][\A r \in Runs :
                    /\ RunStep(r) => StepsLeft(run'[r]) < StepsLeft(run[r])
                    /\ run[r].pc # "idle" => StepsLeft(run'[r]) <= StepsLeft(run[r])]_vars
BY ShortBegins, ShortKept, RunsFall, RuntimeInvariant, PTL DEF Spec
=============================================================================
