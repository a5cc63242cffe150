---------------------------- MODULE Tuning_proofs ----------------------------
(***************************************************************************)
(* What TLAPS proves of the tuning loop, for every number of settings, every *)
(* policy, metric, noise and number of disturbances.                         *)
(***************************************************************************)
EXTENDS Tuning, TLAPS

\* Where the loop can be: between two settings, at one, or on the way back; and what
\* the cycle has not come to has no outcome yet.
Place ==
    /\ pc \in {"next"} \cup Writing => at > 0
    /\ pc = "revert" => at <= NumSettings
    /\ pc \in {"next"} \cup Writing => \A s \in Settings : s >= at => applied[s] = None
    /\ pc \in Writing => at \in Settings

\* What the write in progress knows of its setting, while nobody else has written it:
\* the reading of the metric before it, the value to go back to, what is there now.
WorkIsTrue ==
    pc \in Writing =>
        /\ mode.verified => ~Skips(at)
        /\ work.before.kind # "none" \/ pc = "baseline" => mode.verified
        /\ pc \in {"settle", "undo"} => work.before.kind # "none"
        /\ work.clean =>
            /\ machine[at] = IF pc \in {"settle", "undo"} THEN work.value ELSE work.prior
            /\ work.previous \in {None, work.prior}
            /\ work.before.kind = "most" =>
                /\ work.before.median <= Quality[work.prior] + work.before.mad
                /\ work.before.median >= Quality[work.prior] - work.before.mad
            /\ pc = "undo" => Quality[work.value] <= Quality[work.prior]

\* What the cycle remembers of a setting that nobody else has written, and what the
\* way back has made of the settings behind it.
Back ==
    /\ \A s \in Settings :
        applied[s] # None /\ applied[s].clean =>
            /\ applied[s].previous \in {None, applied[s].prior}
            /\ applied[s].undone => machine[s] = applied[s].prior
    /\ pc \in {"revert", "reverted"} =>
        \A s \in Settings :
            applied[s] # None /\ applied[s].clean /\ (s > at \/ pc = "reverted") =>
                \/ machine[s] = applied[s].prior
                \/ report[s] = "Refused"
                \/ applied[s].verdict = "Regressed" /\ ~applied[s].undone

Inv == TypeOK /\ Place /\ WorkIsTrue /\ VerdictsAreEarned /\ Back

-----------------------------------------------------------------------------
(* The operators of the model                                               *)

\* A setting that somebody else has written keeps its entry, but for `clean`.
LEMMA StaleTypes ==
    ASSUME TypeOK, NEW t \in Settings
    PROVE  /\ Stale(t, ledger) \in [Settings -> Entry \cup {None}]
           /\ \A s \in Settings : s # t => Stale(t, ledger)[s] = ledger[s]
           /\ Stale(t, ledger)[t] # None => Stale(t, ledger)[t].clean = FALSE
           /\ Stale(t, applied) \in [Settings -> Outcome \cup {None}]
           /\ \A s \in Settings : s # t => Stale(t, applied)[s] = applied[s]
           /\ Stale(t, applied)[t] # None => Stale(t, applied)[t].clean = FALSE
           /\ applied[t] = None => Stale(t, applied)[t] = None
<1>1. \A e \in Entry : [e EXCEPT !.clean = FALSE] \in Entry
  BY DEF Entry
<1>2. \A e \in Outcome : [e EXCEPT !.clean = FALSE] \in Outcome
  BY DEF Outcome
<1>3. ledger[t] \in Entry \cup {None} /\ applied[t] \in Outcome \cup {None}
  BY DEF TypeOK
<1>4. /\ ledger[t] # None => [ledger[t] EXCEPT !.clean = FALSE].clean = FALSE
      /\ applied[t] # None => [applied[t] EXCEPT !.clean = FALSE].clean = FALSE
  BY <1>3 DEF Entry, Outcome
<1>5. ledger \in [Settings -> Entry \cup {None}] /\ applied \in [Settings -> Outcome \cup {None}]
  BY DEF TypeOK
<1>6. /\ Stale(t, ledger) \in [Settings -> Entry \cup {None}]
      /\ \A s \in Settings : s # t => Stale(t, ledger)[s] = ledger[s]
      /\ Stale(t, ledger)[t] = IF ledger[t] = None THEN None ELSE [ledger[t] EXCEPT !.clean = FALSE]
  BY <1>1, <1>5 DEF Stale
<1>7. /\ Stale(t, applied) \in [Settings -> Outcome \cup {None}]
      /\ \A s \in Settings : s # t => Stale(t, applied)[s] = applied[s]
      /\ Stale(t, applied)[t] = IF applied[t] = None THEN None ELSE [applied[t] EXCEPT !.clean = FALSE]
  BY <1>2, <1>5 DEF Stale
<1>8. QED
  BY <1>4, <1>6, <1>7

\* A window of the metric is one, and no further from the truth than its noise.
LEMMA WindowIsNear ==
    ASSUME NEW v \in Values, NEW w \in WindowsOf(v)
    PROVE  /\ w \in Windows
           /\ w.kind = "most" => w.median <= Quality[v] + w.mad /\ w.median >= Quality[v] - w.mad
BY TuningAssumption DEF WindowsOf, Windows, NotRead, FewRead

\* What two windows disagree by in themselves is never taken for an effect.
LEMMA VerdictIsTrue ==
    ASSUME NEW p \in Values, NEW v \in Values, NEW b \in Windows, NEW a \in Windows,
           b.kind = "most" => b.median <= Quality[p] + b.mad /\ b.median >= Quality[p] - b.mad,
           a.kind = "most" => a.median <= Quality[v] + a.mad /\ a.median >= Quality[v] - a.mad,
           b.kind # "none", a.kind # "none"
    PROVE  /\ Compare(b, a) \in Verdicts
           /\ Compare(b, a) = "Improved" => Quality[v] >= Quality[p]
           /\ Compare(b, a) = "Regressed" => Quality[v] <= Quality[p]
<1>1. Quality[p] \in Int /\ Quality[v] \in Int /\ MinEffect \in Nat /\ MaxNoise \in Nat
  BY TuningAssumption
<1>2. /\ b.kind \in {"few", "most"} /\ b.median \in Int /\ b.mad \in 0..MaxNoise
      /\ a.kind \in {"few", "most"} /\ a.median \in Int /\ a.mad \in 0..MaxNoise
  BY DEF Windows
<1>3. Threshold(b, a) \in Int /\ Threshold(b, a) >= b.mad + a.mad
  BY <1>1, <1>2 DEF Threshold
<1>4. CASE b.kind = "few" \/ a.kind = "few"
  BY <1>4 DEF Compare, Verdicts
<1>5. CASE b.kind = "most" /\ a.kind = "most"
  <2> DEFINE delta == a.median - b.median
  <2>1. delta > 0 /\ delta >= b.mad + a.mad => Quality[v] >= Quality[p]
    BY <1>1, <1>2, <1>5
  <2>2. -delta >= b.mad + a.mad => Quality[v] <= Quality[p]
    BY <1>1, <1>2, <1>5
  <2>3. QED
    BY <1>1, <1>2, <1>3, <1>5, <2>1, <2>2 DEF Compare, Verdicts
<1>6. QED
  BY <1>2, <1>4, <1>5

-----------------------------------------------------------------------------
(* Types                                                                    *)

LEMMA Numbers == NumSettings \in Nat /\ MaxDisturbances \in Nat /\ MaxNoise \in Nat
BY TuningAssumption

\* The write in progress, as any step at a setting finds it.
LEMMA WorkType ==
    ASSUME TypeOK, pc \in Writing
    PROVE  /\ work \in Work /\ work.id = at /\ at \in Settings
           /\ work.value \in Values /\ work.previous \in Values \cup {None}
           /\ work.prior \in Values /\ work.clean \in BOOLEAN /\ work.before \in Windows
           /\ machine[at] \in Values
BY DEF TypeOK, Work

\* Concluding a write keeps the types of what it assigns.
LEMMA ConcludeTypes ==
    ASSUME TypeOK, pc \in Writing, NEW status \in {"Applied", "Refused"}, NEW verdict \in Verdicts,
           NEW undone \in BOOLEAN, Conclude(status, verdict, undone)
    PROVE  /\ ledger' \in [Settings -> Entry \cup {None}]
           /\ applied' \in [Settings -> Outcome \cup {None}]
           /\ at' \in 0..NumSettings + 1 /\ at' = at + 1
           /\ pc' = "next" /\ work' = None
<1>1. /\ [verdict |-> verdict, value |-> work.value, prior |-> work.prior,
           clean |-> work.clean, undone |-> undone] \in Entry
      /\ [status |-> status, previous |-> work.previous,
           verdict |-> IF mode.verified THEN verdict ELSE None,
           prior |-> work.prior, clean |-> work.clean, undone |-> undone] \in Outcome
  BY WorkType DEF Entry, Outcome
<1>2. at \in Settings /\ at + 1 \in 0..NumSettings + 1
  BY WorkType, Numbers DEF Settings
<1>3. QED
  BY <1>1, <1>2, StaleTypes DEF Conclude, TypeOK

LEMMA TypesInit ==
    ASSUME Init
    PROVE  TypeOK
<1>1. mode \in Modes
  BY DEF Init, Modes
<1>2. Nothing \in [Settings -> {None}]
  BY DEF Nothing
<1>3. pc = "idle" /\ pc \notin Writing /\ at \in 0..NumSettings + 1 /\ disturbed \in 0..MaxDisturbances
  BY Numbers DEF Init, Writing
<1>4. QED
  BY <1>1, <1>2, <1>3 DEF Init, TypeOK

LEMMA TypesStep ==
    ASSUME TypeOK, Place, [Next]_vars
    PROVE  TypeOK'
<1> USE Numbers
<1>1. CASE BeginCycle
  <2>1. plan' \in [Settings -> Values \cup {None}]
    <3>1. Target[useCase] \in [Settings -> Values \cup {None}]
      BY TuningAssumption DEF TypeOK
    <3>2. QED
      BY <1>1, <3>1 DEF BeginCycle
  <2>2. QED
    BY <1>1, <2>1 DEF BeginCycle, TypeOK, Nothing, Writing
<1>2. CASE Pass
  BY <1>2 DEF Pass, TypeOK, Writing, Settings
<1>3. CASE Choose
  <2>1. at \in Settings /\ pc = "next"
    BY <1>3 DEF Choose, TypeOK, Place, Settings
  <2>2. plan[at] \in Values /\ machine[at] \in Values
    BY <1>3, <2>1 DEF Choose, TypeOK
  <2>3. NotRead \in Windows
    BY DEF NotRead, Windows
  <2>4. work' \in Work /\ work'.id = at /\ work'.value = plan[at]
    BY <1>3, <2>1, <2>2, <2>3 DEF Choose, Work
  <2>5. pc' \in Writing
    BY <1>3 DEF Choose, Writing
  <2>6. QED
    BY <1>3, <2>4, <2>5 DEF Choose, TypeOK
<1>4. CASE EndCycle
  BY <1>4 DEF EndCycle, TypeOK, Nothing, Writing
<1>5. CASE MeasureBefore
  <2>1. pc \in Writing /\ pc' \in Writing
    BY <1>5 DEF MeasureBefore, Writing
  <2>2. PICK w \in WindowsOf(machine[at]) : work' = [work EXCEPT !.before = w]
    BY <1>5 DEF MeasureBefore
  <2>3. w \in Windows
    BY <2>1, <2>2, WorkType, WindowIsNear
  <2>4. work' \in Work /\ work'.id = at /\ work'.value = plan[at]
    BY <2>1, <2>2, <2>3, WorkType DEF Work, TypeOK
  <2>5. QED
    BY <1>5, <2>1, <2>4 DEF MeasureBefore, TypeOK
<1>6. CASE RefuseWrite
  <2>1. pc \in Writing /\ "Unverifiable" \in Verdicts
    BY <1>6 DEF RefuseWrite, Writing, Verdicts
  <2>2. QED
    BY <1>6, <2>1, ConcludeTypes DEF RefuseWrite, TypeOK, Writing
<1>7. CASE ReadPrevious
  <2>1. pc \in Writing /\ pc' \in Writing
    BY <1>7 DEF ReadPrevious, Writing
  <2>2. work' \in Work /\ work'.id = at /\ work'.value = plan[at]
    BY <1>7, <2>1, WorkType DEF ReadPrevious, Work, TypeOK
  <2>3. QED
    BY <1>7, <2>1, <2>2 DEF ReadPrevious, TypeOK
<1>8. CASE WriteFails
  <2>1. pc \in Writing /\ "Unverifiable" \in Verdicts
    BY <1>8 DEF WriteFails, Writing, Verdicts
  <2>2. QED
    BY <1>8, <2>1, ConcludeTypes DEF WriteFails, TypeOK, Writing
<1>9. CASE WriteAccepted
  <2>1. pc \in Writing /\ "Unverifiable" \in Verdicts /\ "settle" \in Writing
    BY <1>9 DEF WriteAccepted, Writing, Verdicts
  <2>2. machine' \in [Settings -> Values]
    BY <1>9, <2>1, WorkType DEF WriteAccepted, TypeOK
  <2>3. CASE work.before.kind = "none"
    BY <1>9, <2>1, <2>2, <2>3, ConcludeTypes DEF WriteAccepted, TypeOK, Writing
  <2>4. CASE work.before.kind # "none"
    BY <1>9, <2>1, <2>2, <2>4 DEF WriteAccepted, TypeOK
  <2>5. QED
    BY <2>3, <2>4
<1>10. CASE MeasureAfter
  <2>1. pc \in Writing /\ "undo" \in Writing
    BY <1>10 DEF MeasureAfter, Writing
  <2>2. \A w : Compare(work.before, w) \in Verdicts /\ "Unverifiable" \in Verdicts
    BY DEF Compare, Verdicts
  <2>3. \/ pc' = "undo" /\ UNCHANGED <<ledger, at, work, applied>>
        \/ \E verdict \in Verdicts : Conclude("Applied", verdict, FALSE)
    BY <1>10, <2>2 DEF MeasureAfter
  <2>4. UNCHANGED <<machine, useCase, mode, plan, report, disturbed>>
    BY <1>10 DEF MeasureAfter
  <2>5. QED
    BY <2>1, <2>3, <2>4, ConcludeTypes DEF TypeOK, Writing
<1>11. CASE UndoRegression
  <2>1. pc \in Writing /\ "Regressed" \in Verdicts
    BY <1>11 DEF UndoRegression, Writing, Verdicts
  <2>2. machine' \in [Settings -> Values]
    BY <1>11, <2>1, WorkType DEF UndoRegression, TypeOK
  <2>3. QED
    BY <1>11, <2>1, <2>2, ConcludeTypes DEF UndoRegression, TypeOK, Writing
<1>12. CASE UndoFails
  <2>1. pc \in Writing /\ "Regressed" \in Verdicts
    BY <1>12 DEF UndoFails, Writing, Verdicts
  <2>2. QED
    BY <1>12, <2>1, ConcludeTypes DEF UndoFails, TypeOK, Writing
<1>13. CASE SkipRevert
  BY <1>13 DEF SkipRevert, TypeOK, Writing
<1>14. CASE Revert
  <2>1. at \in Settings /\ at - 1 \in 0..NumSettings + 1
    BY <1>14 DEF Revert, TypeOK, Place, Settings
  <2>2. report' \in [Settings -> {None, "Applied", "Refused"}]
    BY <1>14 DEF Revert, TypeOK
  <2>3. applied[at] \in Outcome
    BY <1>14, <2>1 DEF Revert, TypeOK
  <2>4. machine' \in [Settings -> Values] /\ ledger' \in [Settings -> Entry \cup {None}]
    <3>1. Stale(at, ledger) \in [Settings -> Entry \cup {None}]
      BY <2>1, StaleTypes
    <3>2. applied[at].previous # None => [machine EXCEPT ![at] = applied[at].previous] \in [Settings -> Values]
      BY <2>3 DEF TypeOK, Outcome
    <3>3. \/ /\ applied[at].previous # None
             /\ machine' = [machine EXCEPT ![at] = applied[at].previous]
             /\ ledger' = Stale(at, ledger)
          \/ machine' = machine /\ ledger' = ledger
      BY <1>14 DEF Revert
    <3>4. QED
      BY <3>1, <3>2, <3>3 DEF TypeOK
  <2>5. QED
    BY <1>14, <2>1, <2>2, <2>4 DEF Revert, TypeOK, Writing
<1>15. CASE EndRevert
  BY <1>15 DEF EndRevert, TypeOK, Writing
<1>16. CASE BeginRevert
  <2>1. mode' \in Modes
    BY <1>16 DEF BeginRevert, TypeOK, Modes
  <2>2. QED
    BY <1>16, <2>1 DEF BeginRevert, TypeOK, Nothing, Writing
<1>17. CASE OtherWriter
  <2>1. PICK s \in Settings, v \in Values :
            /\ machine' = [machine EXCEPT ![s] = v]
            /\ ledger' = Stale(s, ledger) /\ applied' = Stale(s, applied)
            /\ work' = IF pc \in Writing /\ at = s THEN [work EXCEPT !.clean = FALSE] ELSE work
    BY <1>17 DEF OtherWriter
  <2>2. /\ machine' \in [Settings -> Values] /\ ledger' \in [Settings -> Entry \cup {None}]
        /\ applied' \in [Settings -> Outcome \cup {None}]
    BY <2>1, StaleTypes DEF TypeOK
  <2>3. pc \in Writing => work' \in Work /\ work'.id = at /\ work'.value = plan[at]
    BY <2>1 DEF TypeOK, Work
  <2>4. QED
    BY <1>17, <2>1, <2>2, <2>3 DEF OtherWriter, TypeOK
<1>18. CASE UseCaseChanges
  BY <1>18 DEF UseCaseChanges, TypeOK
<1>19. CASE Forget
  BY <1>19 DEF Forget, TypeOK
<1>20. CASE Restart
  BY <1>20 DEF Restart, TypeOK, Nothing, Writing
<1>21. CASE UNCHANGED vars
  BY <1>21 DEF vars, TypeOK
<1>22. QED
  BY <1>1, <1>2, <1>3, <1>4, <1>5, <1>6, <1>7, <1>8, <1>9, <1>10, <1>11, <1>12, <1>13,
     <1>14, <1>15, <1>16, <1>17, <1>18, <1>19, <1>20, <1>21 DEF Next, Loop

-----------------------------------------------------------------------------
(* Where the loop is                                                        *)

\* A write that is concluded leaves an outcome behind, and the loop ahead of it.
LEMMA ConcludePlace ==
    ASSUME TypeOK, Place, pc \in Writing, NEW status, NEW verdict, NEW undone,
           Conclude(status, verdict, undone)
    PROVE  Place'
<1>1. /\ pc' = "next" /\ at \in Settings /\ at' = at + 1
      /\ \A s \in Settings : s # at => applied'[s] = applied[s]
  BY WorkType DEF Conclude, TypeOK
<1>2. QED
  BY <1>1 DEF Place, Settings, Writing

LEMMA PlaceStep ==
    ASSUME TypeOK, Place, [Next]_vars
    PROVE  Place'
<1> USE Numbers DEF Settings
<1>1. CASE BeginCycle
  BY <1>1 DEF BeginCycle, Place, Nothing, Writing
<1>2. CASE Pass
  BY <1>2 DEF Pass, Place, TypeOK, Writing
<1>3. CASE Choose
  BY <1>3 DEF Choose, Place, TypeOK, Writing
<1>4. CASE EndCycle
  BY <1>4 DEF EndCycle, Place, Writing
<1>5. CASE MeasureBefore \/ ReadPrevious
  BY <1>5 DEF MeasureBefore, ReadPrevious, Place, Writing
<1>6. CASE RefuseWrite \/ WriteFails \/ UndoRegression \/ UndoFails
  BY <1>6, ConcludePlace DEF RefuseWrite, WriteFails, UndoRegression, UndoFails, Writing
<1>7. CASE WriteAccepted
  <2>1. CASE work.before.kind = "none"
    BY <1>7, <2>1, ConcludePlace DEF WriteAccepted, Writing
  <2>2. CASE work.before.kind # "none"
    BY <1>7, <2>2 DEF WriteAccepted, Place, Writing
  <2>3. QED
    BY <2>1, <2>2
<1>8. CASE MeasureAfter
  <2>1. \/ pc' = "undo" /\ UNCHANGED <<at, applied>>
        \/ \E verdict : Conclude("Applied", verdict, FALSE)
    BY <1>8 DEF MeasureAfter
  <2>2. pc = "settle"
    BY <1>8 DEF MeasureAfter
  <2>3. QED
    BY <2>1, <2>2, ConcludePlace DEF Place, Writing
<1>9. CASE SkipRevert \/ Revert
  BY <1>9 DEF SkipRevert, Revert, Place, TypeOK, Writing
<1>10. CASE EndRevert
  BY <1>10 DEF EndRevert, Place, Writing
<1>11. CASE BeginRevert
  BY <1>11 DEF BeginRevert, Place, Writing
<1>12. CASE OtherWriter
  <2>1. PICK t \in Settings : applied' = Stale(t, applied)
    BY <1>12 DEF OtherWriter
  <2>2. \A s \in Settings : applied[s] = None => applied'[s] = None
    BY <2>1, StaleTypes
  <2>3. UNCHANGED <<pc, at>>
    BY <1>12 DEF OtherWriter
  <2>4. QED
    BY <2>2, <2>3 DEF Place
<1>13. CASE UseCaseChanges \/ Forget
  BY <1>13 DEF UseCaseChanges, Forget, Place
<1>14. CASE Restart
  BY <1>14 DEF Restart, Place, Writing
<1>15. CASE UNCHANGED vars
  BY <1>15 DEF vars, Place
<1>16. QED
  BY <1>1, <1>2, <1>3, <1>4, <1>5, <1>6, <1>7, <1>8, <1>9, <1>10, <1>11, <1>12, <1>13,
     <1>14, <1>15 DEF Next, Loop

-----------------------------------------------------------------------------
(* The write in progress                                                    *)

LEMMA WorkStep ==
    ASSUME Inv, [Next]_vars
    PROVE  WorkIsTrue'
<1> USE DEF Inv
<1>1. CASE Choose
  <2>1. at \in Settings /\ pc = "next" /\ ~Withheld(at)
    BY <1>1 DEF Choose, TypeOK, Place, Settings
  <2>2. /\ work'.before.kind = "none" /\ work'.previous = None /\ work'.prior = machine[at]
        /\ pc' \in {"baseline", "check"} /\ (pc' = "baseline" => mode.verified)
        /\ UNCHANGED <<machine, mode, at, ledger>>
    BY <1>1 DEF Choose, NotRead
  <2>3. mode.verified => ~Skips(at)
    BY <2>1 DEF Withheld
  <2>4. QED
    BY <2>2, <2>3 DEF WorkIsTrue, Skips
<1>2. CASE MeasureBefore
  <2>1. pc = "baseline" /\ pc \in Writing /\ pc' = "check"
    BY <1>2 DEF MeasureBefore, Writing
  <2>2. PICK w \in WindowsOf(machine[at]) : work' = [work EXCEPT !.before = w]
    BY <1>2 DEF MeasureBefore
  <2>3. w.kind = "most" => w.median <= Quality[machine[at]] + w.mad /\ w.median >= Quality[machine[at]] - w.mad
    BY <2>1, <2>2, WorkType, WindowIsNear
  <2>4. /\ work'.before = w /\ work'.previous = work.previous /\ work'.prior = work.prior
        /\ work'.value = work.value /\ work'.clean = work.clean
    BY <2>1, <2>2, WorkType DEF Work
  <2>5. UNCHANGED <<machine, mode, at, ledger>>
    BY <1>2 DEF MeasureBefore
  <2>6. mode.verified
    BY <2>1 DEF WorkIsTrue
  <2>7. QED
    BY <2>1, <2>3, <2>4, <2>5, <2>6 DEF WorkIsTrue, Skips
<1>3. CASE ReadPrevious
  <2>1. pc = "check" /\ pc \in Writing /\ pc' = "write"
    BY <1>3 DEF ReadPrevious, Writing
  <2>2. PICK previous \in {machine[at], None} : work' = [work EXCEPT !.previous = previous]
    BY <1>3 DEF ReadPrevious
  <2>3. /\ work'.previous = previous /\ work'.before = work.before /\ work'.prior = work.prior
        /\ work'.value = work.value /\ work'.clean = work.clean
    BY <2>1, <2>2, WorkType DEF Work
  <2>4. UNCHANGED <<machine, mode, at, ledger>>
    BY <1>3 DEF ReadPrevious
  <2>5. QED
    BY <2>1, <2>2, <2>3, <2>4 DEF WorkIsTrue, Skips
<1>4. CASE WriteAccepted
  <2>1. pc = "write" /\ pc \in Writing
    BY <1>4 DEF WriteAccepted, Writing
  <2>2. CASE work.before.kind = "none"
    BY <1>4, <2>2 DEF WriteAccepted, Conclude, WorkIsTrue, Writing
  <2>3. CASE work.before.kind # "none"
    <3>1. pc' = "settle" /\ UNCHANGED <<ledger, at, work, mode>> /\ machine'[at] = work.value
      BY <1>4, <2>1, <2>3, WorkType DEF WriteAccepted, TypeOK
    <3>2. QED
      BY <2>1, <2>3, <3>1 DEF WorkIsTrue, Skips
  <2>4. QED
    BY <2>2, <2>3
<1>5. CASE MeasureAfter
  <2>1. pc = "settle" /\ pc \in Writing /\ UNCHANGED <<machine, mode>>
    BY <1>5 DEF MeasureAfter, Writing
  <2>2. PICK w \in WindowsOf(machine[at]) :
            LET verdict == IF w.kind = "none" THEN "Unverifiable" ELSE Compare(work.before, w)
            IN  IF verdict = "Regressed"
                THEN pc' = "undo" /\ UNCHANGED <<ledger, at, work, applied>>
                ELSE Conclude("Applied", verdict, FALSE)
    BY <1>5 DEF MeasureAfter
  <2>3. CASE w.kind # "none" /\ Compare(work.before, w) = "Regressed"
    <3>1. pc' = "undo" /\ UNCHANGED <<ledger, at, work>>
      BY <2>2, <2>3
    <3>2. work.clean => Quality[work.value] <= Quality[work.prior]
      <4> SUFFICES ASSUME work.clean PROVE Quality[work.value] <= Quality[work.prior]
        OBVIOUS
      <4>1. machine[at] = work.value
        BY <2>1 DEF WorkIsTrue
      <4>2. w \in Windows /\ (w.kind = "most" =>
                w.median <= Quality[work.value] + w.mad /\ w.median >= Quality[work.value] - w.mad)
        BY <2>1, <2>2, <4>1, WorkType, WindowIsNear
      <4>3. work.before.kind # "none" /\ (work.before.kind = "most" =>
                /\ work.before.median <= Quality[work.prior] + work.before.mad
                /\ work.before.median >= Quality[work.prior] - work.before.mad)
        BY <2>1 DEF WorkIsTrue
      <4>4. QED
        BY <2>1, <2>3, <4>2, <4>3, WorkType, VerdictIsTrue
    <3>3. QED
      BY <2>1, <3>1, <3>2 DEF WorkIsTrue, Skips
  <2>4. CASE ~(w.kind # "none" /\ Compare(work.before, w) = "Regressed")
    BY <2>2, <2>4 DEF Conclude, WorkIsTrue, Writing
  <2>5. QED
    BY <2>3, <2>4
<1>6. CASE OtherWriter
  <2>1. PICK t \in Settings, v \in Values :
            /\ machine' = [machine EXCEPT ![t] = v]
            /\ ledger' = Stale(t, ledger)
            /\ work' = IF pc \in Writing /\ at = t THEN [work EXCEPT !.clean = FALSE] ELSE work
    BY <1>6 DEF OtherWriter
  <2>2. UNCHANGED <<pc, mode, at>>
    BY <1>6 DEF OtherWriter
  <2>3. SUFFICES ASSUME pc \in Writing PROVE WorkIsTrue'
    BY <2>2 DEF WorkIsTrue
  <2>4. ~Skips(at) => ~Skips(at)'
    <3>1. at \in Settings
      BY <2>3, WorkType
    <3>2. ledger[at] # None => ledger[at] \in Entry
      BY <3>1 DEF TypeOK
    <3>3. ledger'[at] # None => ledger[at] # None /\ ledger'[at].verdict = ledger[at].verdict
      BY <2>1, <3>1, <3>2 DEF TypeOK, Stale, Entry
    <3>4. QED
      BY <2>2, <3>3 DEF Skips
  <2>5. CASE at = t
    <3>1. work'.clean = FALSE /\ work'.before = work.before
      BY <2>1, <2>3, <2>5, WorkType DEF Work
    <3>2. QED
      BY <2>2, <2>3, <2>4, <3>1 DEF WorkIsTrue
  <2>6. CASE at # t
    <3>1. work' = work /\ machine'[at] = machine[at]
      BY <2>1, <2>3, <2>6, WorkType DEF TypeOK
    <3>2. QED
      BY <2>2, <2>3, <2>4, <3>1 DEF WorkIsTrue
  <2>7. QED
    BY <2>5, <2>6
<1>7. CASE UseCaseChanges
  BY <1>7 DEF UseCaseChanges, WorkIsTrue, Skips
<1>8. CASE \/ RefuseWrite \/ WriteFails \/ UndoRegression \/ UndoFails
  BY <1>8 DEF RefuseWrite, WriteFails, UndoRegression, UndoFails, Conclude, WorkIsTrue, Writing
<1>9. CASE BeginCycle \/ Pass \/ EndCycle \/ SkipRevert \/ Revert \/ EndRevert \/ BeginRevert \/ Forget \/ Restart
  BY <1>9 DEF BeginCycle, Pass, EndCycle, SkipRevert, Revert, EndRevert, BeginRevert, Forget, Restart, WorkIsTrue, Writing
<1>10. CASE UNCHANGED vars
  BY <1>10 DEF vars, WorkIsTrue, Skips
<1>11. QED
  BY <1>1, <1>2, <1>3, <1>4, <1>5, <1>6, <1>7, <1>8, <1>9, <1>10 DEF Next, Loop

-----------------------------------------------------------------------------
(* The ledger                                                               *)

\* What a verdict says of its setting, whose value is v.
Earned(e, v) ==
    e # None /\ e.clean =>
        /\ e.verdict = "Improved" => Quality[e.value] >= Quality[e.prior] /\ v = e.value
        /\ e.verdict = "Regressed" =>
            Quality[e.value] <= Quality[e.prior] /\ (e.undone => v = e.prior)

\* A step that leaves the other settings alone only has to earn its own verdict.
LEMMA OneVerdict ==
    ASSUME VerdictsAreEarned, NEW t \in Settings, Earned(ledger'[t], machine'[t]),
           \A s \in Settings : s # t => ledger'[s] = ledger[s] /\ machine'[s] = machine[s]
    PROVE  VerdictsAreEarned'
BY DEF VerdictsAreEarned, Earned

\* A write that is concluded without a measured effect, or not at all.
LEMMA ConcludeNothing ==
    ASSUME Inv, pc \in Writing, NEW status \in {"Applied", "Refused"}, NEW verdict \in {"Unverifiable", "Unchanged"},
           Conclude(status, verdict, FALSE),
           \A s \in Settings : s # at => machine'[s] = machine[s],
           status = "Refused" => machine' = machine
    PROVE  VerdictsAreEarned'
<1>1. at \in Settings
  BY WorkType DEF Inv
<1>2. ledger \in [Settings -> Entry \cup {None}]
  BY DEF Inv, TypeOK
<1>3. CASE mode.verified
  <2>1. ledger'[at] = [verdict |-> verdict, value |-> work.value, prior |-> work.prior,
                       clean |-> work.clean, undone |-> FALSE]
    BY <1>1, <1>2, <1>3 DEF Conclude
  <2>2. \A s \in Settings : s # at => ledger'[s] = ledger[s]
    BY <1>2, <1>3 DEF Conclude
  <2>3. QED
    BY <1>1, <2>1, <2>2, OneVerdict DEF Earned, Inv
<1>4. CASE ~mode.verified /\ status = "Applied"
  <2>1. ledger' = Stale(at, ledger)
    BY <1>4 DEF Conclude
  <2>2. (ledger'[at] # None => ledger'[at].clean = FALSE) /\ \A s \in Settings : s # at => ledger'[s] = ledger[s]
    BY <1>1, <2>1, StaleTypes DEF Inv
  <2>3. QED
    BY <1>1, <2>2, OneVerdict DEF Earned, Inv
<1>5. CASE ~mode.verified /\ status = "Refused"
  BY <1>5 DEF Conclude, VerdictsAreEarned, Inv
<1>6. QED
  BY <1>3, <1>4, <1>5

LEMMA VerdictsStep ==
    ASSUME Inv, [Next]_vars
    PROVE  VerdictsAreEarned'
<1> USE DEF Inv
<1>1. CASE RefuseWrite \/ WriteFails
  <2>1. pc \in Writing /\ Conclude("Refused", "Unverifiable", FALSE) /\ machine' = machine
    BY <1>1 DEF RefuseWrite, WriteFails, Writing
  <2>2. QED
    BY <2>1, ConcludeNothing
<1>2. CASE WriteAccepted
  <2>1. pc = "write" /\ pc \in Writing
    BY <1>2 DEF WriteAccepted, Writing
  <2>2. at \in Settings /\ \A s \in Settings : s # at => machine'[s] = machine[s]
    BY <1>2, <2>1, WorkType DEF WriteAccepted, TypeOK
  <2>3. CASE work.before.kind = "none"
    <3>1. Conclude("Applied", "Unverifiable", FALSE)
      BY <1>2, <2>3 DEF WriteAccepted
    <3>2. QED
      BY <2>1, <2>2, <3>1, ConcludeNothing
  <2>4. CASE work.before.kind # "none"
    <3>1. ledger' = ledger /\ ~Skips(at)
      BY <1>2, <2>1, <2>4 DEF WriteAccepted, WorkIsTrue
    <3>2. Earned(ledger'[at], machine'[at])
      BY <3>1, <1>2 DEF Earned, Skips, WriteAccepted
    <3>3. QED
      BY <2>2, <3>1, <3>2, OneVerdict
  <2>5. QED
    BY <2>3, <2>4
<1>3. CASE MeasureAfter
  <2>1. pc = "settle" /\ pc \in Writing /\ UNCHANGED <<machine, mode>> /\ at \in Settings
    BY <1>3, WorkType DEF MeasureAfter, Writing
  <2>2. PICK w \in WindowsOf(machine[at]) :
            LET verdict == IF w.kind = "none" THEN "Unverifiable" ELSE Compare(work.before, w)
            IN  IF verdict = "Regressed"
                THEN pc' = "undo" /\ UNCHANGED <<ledger, at, work, applied>>
                ELSE Conclude("Applied", verdict, FALSE)
    BY <1>3 DEF MeasureAfter
  <2>3. CASE w.kind = "none"
    BY <2>1, <2>2, <2>3, ConcludeNothing
  <2>4. CASE w.kind # "none" /\ Compare(work.before, w) = "Regressed"
    BY <2>1, <2>2, <2>4 DEF VerdictsAreEarned
  <2>5. CASE w.kind # "none" /\ Compare(work.before, w) \in {"Unverifiable", "Unchanged"}
    BY <2>1, <2>2, <2>5, ConcludeNothing
  <2>6. CASE w.kind # "none" /\ Compare(work.before, w) = "Improved"
    <3>1. Conclude("Applied", "Improved", FALSE)
      BY <2>2, <2>6
    <3>2. mode.verified /\ work.before.kind # "none"
      BY <2>1 DEF WorkIsTrue
    <3>3. work.clean => machine[at] = work.value /\ Quality[work.value] >= Quality[work.prior]
      <4> SUFFICES ASSUME work.clean
                   PROVE  machine[at] = work.value /\ Quality[work.value] >= Quality[work.prior]
        OBVIOUS
      <4>1. machine[at] = work.value
        BY <2>1 DEF WorkIsTrue
      <4>2. w \in Windows /\ (w.kind = "most" =>
                w.median <= Quality[work.value] + w.mad /\ w.median >= Quality[work.value] - w.mad)
        BY <2>1, <2>2, <4>1, WorkType, WindowIsNear
      <4>3. work.before.kind = "most" =>
                /\ work.before.median <= Quality[work.prior] + work.before.mad
                /\ work.before.median >= Quality[work.prior] - work.before.mad
        BY <2>1 DEF WorkIsTrue
      <4>4. QED
        BY <2>1, <2>6, <3>2, <4>1, <4>2, <4>3, WorkType, VerdictIsTrue
    <3>4. /\ ledger'[at] = [verdict |-> "Improved", value |-> work.value, prior |-> work.prior,
                            clean |-> work.clean, undone |-> FALSE]
          /\ \A s \in Settings : s # at => ledger'[s] = ledger[s]
      BY <2>1, <3>1, <3>2 DEF Conclude, TypeOK
    <3>5. QED
      BY <2>1, <3>3, <3>4 DEF VerdictsAreEarned
  <2>7. QED
    <3>1. w.kind # "none" => Compare(work.before, w) \in {"Improved", "Unchanged", "Regressed", "Unverifiable"}
      BY DEF Compare
    <3>2. QED
      BY <2>3, <2>4, <2>5, <2>6, <3>1
<1>4. CASE UndoRegression \/ UndoFails
  <2>1. pc = "undo" /\ pc \in Writing /\ at \in Settings /\ mode.verified
    BY <1>4, WorkType DEF UndoRegression, UndoFails, Writing, WorkIsTrue
  <2>2. PICK undone \in BOOLEAN :
            /\ Conclude("Applied", "Regressed", undone)
            /\ undone => machine' = [machine EXCEPT ![at] = work.previous] /\ work.previous # None
            /\ ~undone => machine' = machine
    BY <1>4 DEF UndoRegression, UndoFails
  <2>3. /\ ledger'[at] = [verdict |-> "Regressed", value |-> work.value, prior |-> work.prior,
                          clean |-> work.clean, undone |-> undone]
        /\ \A s \in Settings : s # at => ledger'[s] = ledger[s] /\ machine'[s] = machine[s]
        /\ undone => machine'[at] = work.previous
    BY <2>1, <2>2 DEF Conclude, TypeOK
  <2>4. work.clean => /\ Quality[work.value] <= Quality[work.prior]
                      /\ undone => machine'[at] = work.prior
    BY <2>1, <2>2, <2>3 DEF WorkIsTrue
  <2>5. QED
    BY <2>1, <2>3, <2>4 DEF VerdictsAreEarned
<1>5. CASE Revert
  <2>1. at \in Settings
    BY <1>5 DEF Revert, Place, TypeOK, Settings
  <2>2. CASE machine' = machine /\ ledger' = ledger
    BY <2>2 DEF VerdictsAreEarned
  <2>3. CASE machine' = [machine EXCEPT ![at] = applied[at].previous] /\ ledger' = Stale(at, ledger)
    <3>1. /\ ledger'[at] # None => ledger'[at].clean = FALSE
          /\ \A s \in Settings : s # at => ledger'[s] = ledger[s] /\ machine'[s] = machine[s]
      BY <2>1, <2>3, StaleTypes DEF TypeOK
    <3>2. QED
      BY <2>1, <3>1 DEF VerdictsAreEarned
  <2>4. QED
    BY <1>5, <2>2, <2>3 DEF Revert
<1>6. CASE OtherWriter
  <2>1. PICK t \in Settings, v \in Values :
            machine' = [machine EXCEPT ![t] = v] /\ ledger' = Stale(t, ledger)
    BY <1>6 DEF OtherWriter
  <2>2. /\ ledger'[t] # None => ledger'[t].clean = FALSE
        /\ \A s \in Settings : s # t => ledger'[s] = ledger[s] /\ machine'[s] = machine[s]
    BY <2>1, StaleTypes DEF TypeOK
  <2>3. QED
    BY <2>2 DEF VerdictsAreEarned
<1>7. CASE Forget \/ Restart
  <2>1. machine' = machine /\ \A s \in Settings : ledger'[s] \in {ledger[s], None}
    BY <1>7 DEF Forget, Restart, Nothing, TypeOK
  <2>2. QED
    BY <2>1 DEF VerdictsAreEarned
<1>8. CASE \/ BeginCycle \/ Pass \/ Choose \/ EndCycle \/ MeasureBefore \/ ReadPrevious
           \/ SkipRevert \/ EndRevert \/ BeginRevert \/ UseCaseChanges \/ UNCHANGED vars
  <2>1. UNCHANGED <<machine, ledger>>
    BY <1>8 DEF BeginCycle, Pass, Choose, EndCycle, MeasureBefore, ReadPrevious,
                SkipRevert, EndRevert, BeginRevert, UseCaseChanges, vars
  <2>2. QED
    BY <2>1 DEF VerdictsAreEarned
<1>9. QED
  BY <1>1, <1>2, <1>3, <1>4, <1>5, <1>6, <1>7, <1>8 DEF Next, Loop

-----------------------------------------------------------------------------
(* The way back                                                             *)

\* A step that concludes the write in progress, having changed no other setting.
LEMMA ConcludeBack ==
    ASSUME Inv, pc \in Writing, NEW status, NEW verdict, NEW undone \in BOOLEAN,
           Conclude(status, verdict, undone),
           \A s \in Settings : s # at => machine'[s] = machine[s],
           work.clean /\ undone => machine'[at] = work.prior
    PROVE  Back'
<1>1. at \in Settings /\ applied \in [Settings -> Outcome \cup {None}]
  BY WorkType DEF Inv, TypeOK
<1>2. /\ applied'[at].previous = work.previous /\ applied'[at].prior = work.prior
      /\ applied'[at].clean = work.clean /\ applied'[at].undone = undone
      /\ \A s \in Settings : s # at => applied'[s] = applied[s]
      /\ pc' = "next"
  BY <1>1 DEF Conclude
<1>3. work.clean => work.previous \in {None, work.prior}
  BY DEF Inv, WorkIsTrue
<1>4. QED
  BY <1>1, <1>2, <1>3 DEF Inv, Back

LEMMA BackStep ==
    ASSUME Inv, [Next]_vars
    PROVE  Back'
<1> USE Numbers DEF Inv
<1>1. CASE RefuseWrite \/ WriteFails \/ UndoFails
  <2>1. /\ pc \in Writing /\ machine' = machine
        /\ \E status, verdict : Conclude(status, verdict, FALSE)
    BY <1>1 DEF RefuseWrite, WriteFails, UndoFails, Writing
  <2>2. QED
    BY <2>1, ConcludeBack
<1>2. CASE WriteAccepted
  <2>1. pc = "write" /\ pc \in Writing
    BY <1>2 DEF WriteAccepted, Writing
  <2>2. at \in Settings /\ \A s \in Settings : s # at => machine'[s] = machine[s]
    BY <1>2, <2>1, WorkType DEF WriteAccepted, TypeOK
  <2>3. CASE work.before.kind = "none"
    BY <1>2, <2>1, <2>2, <2>3, ConcludeBack DEF WriteAccepted
  <2>4. CASE work.before.kind # "none"
    <3>1. pc' = "settle" /\ applied' = applied /\ applied[at] = None
      BY <1>2, <2>1, <2>2, <2>4 DEF WriteAccepted, Place, Settings
    <3>2. QED
      BY <2>2, <3>1 DEF Back
  <2>5. QED
    BY <2>3, <2>4
<1>3. CASE MeasureAfter
  <2>1. pc = "settle" /\ pc \in Writing /\ machine' = machine
    BY <1>3 DEF MeasureAfter, Writing
  <2>2. \/ pc' = "undo" /\ applied' = applied
        \/ \E verdict : Conclude("Applied", verdict, FALSE)
    BY <1>3 DEF MeasureAfter
  <2>3. QED
    BY <2>1, <2>2, ConcludeBack DEF Back
<1>4. CASE UndoRegression
  <2>1. pc = "undo" /\ pc \in Writing
    BY <1>4 DEF UndoRegression, Writing
  <2>2. /\ \A s \in Settings : s # at => machine'[s] = machine[s]
        /\ machine'[at] = work.previous /\ work.previous # None
    BY <1>4, <2>1, WorkType DEF UndoRegression, TypeOK
  <2>3. work.clean => machine'[at] = work.prior
    BY <2>1, <2>2 DEF WorkIsTrue
  <2>4. Conclude("Applied", "Regressed", TRUE)
    BY <1>4 DEF UndoRegression
  <2>5. QED
    BY <2>1, <2>2, <2>3, <2>4, ConcludeBack
<1>5. CASE SkipRevert
  <2>1. /\ pc = "revert" /\ pc' = "revert" /\ at \in Settings /\ at' = at - 1
        /\ UNCHANGED <<machine, applied, report>>
    BY <1>5 DEF SkipRevert, TypeOK, Place, Settings
  <2>2. applied[at] # None => applied[at] \in Outcome /\ applied[at].verdict = "Regressed"
    BY <1>5, <2>1 DEF SkipRevert, SaidUndone, TypeOK
  <2>3. applied[at] # None /\ applied[at].clean =>
            \/ machine[at] = applied[at].prior
            \/ applied[at].verdict = "Regressed" /\ ~applied[at].undone
    BY <2>1, <2>2 DEF Back, Outcome
  <2>4. \A s \in Settings : s > at' => s > at \/ s = at
    BY <2>1 DEF Settings
  <2>5. QED
    BY <2>1, <2>3, <2>4 DEF Back
<1>6. CASE Revert
  <2>1. /\ pc = "revert" /\ pc' = "revert" /\ at \in Settings /\ at' = at - 1 /\ applied' = applied
        /\ applied[at] # None
    BY <1>6 DEF Revert, TypeOK, Place, Settings
  <2>2. \A s \in Settings : s > at' => s > at \/ s = at
    BY <2>1 DEF Settings
  <2>3. CASE applied[at].previous # None /\ machine' = [machine EXCEPT ![at] = applied[at].previous]
             /\ report' = [report EXCEPT ![at] = "Applied"]
    <3>1. /\ machine'[at] = applied[at].previous
          /\ \A s \in Settings : s # at => machine'[s] = machine[s] /\ report'[s] = report[s]
      BY <2>1, <2>3 DEF TypeOK
    <3>2. applied[at].clean => machine'[at] = applied[at].prior
      BY <2>1, <2>3, <3>1 DEF Back
    <3>3. QED
      BY <2>1, <2>2, <3>1, <3>2 DEF Back, Settings
  <2>4. CASE machine' = machine /\ report' = [report EXCEPT ![at] = "Refused"]
    <3>1. report'[at] = "Refused" /\ \A s \in Settings : s # at => report'[s] = report[s]
      BY <2>1, <2>4 DEF TypeOK
    <3>2. QED
      BY <2>1, <2>2, <2>4, <3>1 DEF Back
  <2>5. QED
    BY <1>6, <2>3, <2>4 DEF Revert
<1>7. CASE EndRevert
  BY <1>7 DEF EndRevert, Back, Settings
<1>8. CASE BeginRevert
  BY <1>8 DEF BeginRevert, Back, Settings
<1>9. CASE OtherWriter
  <2>1. PICK t \in Settings, v \in Values :
            machine' = [machine EXCEPT ![t] = v] /\ applied' = Stale(t, applied)
    BY <1>9 DEF OtherWriter
  <2>2. /\ applied'[t] # None => applied'[t].clean = FALSE
        /\ \A s \in Settings : s # t => applied'[s] = applied[s] /\ machine'[s] = machine[s]
    BY <2>1, StaleTypes DEF TypeOK
  <2>3. UNCHANGED <<pc, at, report>>
    BY <1>9 DEF OtherWriter
  <2>4. QED
    BY <2>2, <2>3 DEF Back
<1>10. CASE BeginCycle \/ Restart
  BY <1>10 DEF BeginCycle, Restart, Back, Nothing
<1>11. CASE Pass \/ Choose \/ EndCycle \/ MeasureBefore \/ ReadPrevious
  BY <1>11 DEF Pass, Choose, EndCycle, MeasureBefore, ReadPrevious, Back
<1>12. CASE UseCaseChanges \/ Forget \/ UNCHANGED vars
  BY <1>12 DEF UseCaseChanges, Forget, vars, Back
<1>13. QED
  BY <1>1, <1>2, <1>3, <1>4, <1>5, <1>6, <1>7, <1>8, <1>9, <1>10, <1>11, <1>12 DEF Next, Loop

-----------------------------------------------------------------------------
(* The theorems                                                             *)

\* The inductive invariant: where the loop is, what it knows of the setting it is
\* writing, what the ledger and the cycle remember, and how far the way back has come.
THEOREM TuningInvariant == Spec => []Inv
<1>1. Init => Inv
  <2> SUFFICES ASSUME Init PROVE Inv
    OBVIOUS
  <2>1. TypeOK
    BY TypesInit
  <2>2. Place /\ WorkIsTrue /\ VerdictsAreEarned /\ Back
    BY DEF Init, Place, WorkIsTrue, VerdictsAreEarned, Back, Nothing, Writing
  <2>3. QED
    BY <2>1, <2>2 DEF Inv
<1>2. Inv /\ [Next]_vars => Inv'
  BY TypesStep, PlaceStep, WorkStep, VerdictsStep, BackStep DEF Inv
<1>3. QED
  BY <1>1, <1>2, PTL DEF Spec

\* The loop's state keeps its types.
THEOREM TuningTypes == Spec => []TypeOK
<1>1. Inv => TypeOK
  BY DEF Inv
<1>2. QED
  BY <1>1, TuningInvariant, PTL

\* A verdict in the ledger is true of the machine while nobody else writes the setting:
\* noise is never taken for an effect, and what was undone is gone (verify.rs).
THEOREM VerdictsEarned == Spec => []VerdictsAreEarned
<1>1. Inv => VerdictsAreEarned
  BY DEF Inv
<1>2. QED
  BY <1>1, TuningInvariant, PTL

\* revert_cycle brings every setting back or says that it has not, but for the failed
\* undoing of a regression (serve.rs:127).
THEOREM SilentOfFailedUndosOnly == Spec => []OnlyFailedUndosAreSilent
<1>1. Inv => OnlyFailedUndosAreSilent
  BY DEF Inv, Back, OnlyFailedUndosAreSilent
<1>2. QED
  BY <1>1, TuningInvariant, PTL

-----------------------------------------------------------------------------
(* How often the loop writes a setting                                      *)

\* What the machine's use case wants of a setting, and how often cycles may still change
\* it: a verified one, which may then undo what it did, and one without a ledger after
\* it; or the latter alone.
Wanted(s) == Target[useCase][s]
More(s) == IF Skips(s) THEN 1 ELSE 3

\* Of a setting `s` with value `m` where `w` is wanted and `v` is planned, with the loop at
\* place `p` and setting `a`: the changes that the loop may still make.
Changes(p, a, s, w, m, n, v) ==
    IF p = "revert" /\ s <= a THEN 1 + n
    ELSE IF p = "settle" /\ s = a THEN IF m = w THEN 2 ELSE 3
    ELSE IF p = "undo" /\ s = a THEN 2
    ELSE IF p \in {"next"} \cup Writing /\ a <= s /\ v # None THEN IF v = w THEN n ELSE 1 + n
    ELSE IF w \in {None, m} THEN 0 ELSE n
Rest(s) == Changes(pc, at, s, Wanted(s), machine[s], More(s), plan[s])

\* No more than four in all.
LEMMA FewChanges ==
    ASSUME NEW s PROVE Rest(s) \in 0..4 /\ More(s) \in {1, 3}
BY DEF Rest, Changes, More

\* A setting that a step leaves alone, and one whose changes it counts.
Same(s) == /\ machine'[s] = machine[s] /\ More(s)' = More(s)
           /\ plan'[s] = plan[s] /\ Wanted(s)' = Wanted(s)
Falls(s) == Rest(s)' <= Rest(s) /\ (machine'[s] # machine[s] => Rest(s)' < Rest(s))

\* Where the loop is not, nothing changes: before it and behind it, forwards and on the
\* way back.
LEMMA Elsewhere ==
    ASSUME TypeOK, NEW s \in Settings, s # at, Same(s),
           \/ pc \in {"next"} \cup Writing /\ pc' \in {"next"} \cup Writing /\ (at' = at \/ (pc' = "next" /\ at' = at + 1))
           \/ pc = "revert" /\ pc' = "revert" /\ at' = at - 1
    PROVE  Falls(s)
<1>1. at \in Int /\ s \in Int
  BY Numbers DEF TypeOK, Settings
<1>2. Rest(s)' = Changes(pc', at', s, Wanted(s), machine[s], More(s), plan[s])
  BY DEF Rest, Same
<1>3. Rest(s) = Changes(pc, at, s, Wanted(s), machine[s], More(s), plan[s])
  BY DEF Rest
<1>4. Rest(s)' = Rest(s)
  <2>1. ASSUME NEW w, NEW m, NEW n, NEW v
        PROVE  Changes(pc', at', s, w, m, n, v) = Changes(pc, at, s, w, m, n, v)
    <3>1. CASE pc \in {"next"} \cup Writing /\ pc' \in {"next"} \cup Writing /\ (at' = at \/ (pc' = "next" /\ at' = at + 1))
      <4>1. (at' <= s) <=> (at <= s)
        BY <1>1, <3>1
      <4>2. s = at' /\ pc' \in {"settle", "undo"} => FALSE
        BY <1>1, <3>1
      <4> QED BY <3>1, <4>1, <4>2 DEF Changes, Writing
    <3>2. CASE pc = "revert" /\ pc' = "revert" /\ at' = at - 1
      <4>1. (s <= at') <=> (s <= at)
        BY <1>1, <3>2
      <4> QED BY <3>2, <4>1 DEF Changes, Writing
    <3> QED BY <3>1, <3>2
  <2> QED BY <1>2, <1>3, <2>1, Zenon
<1>5. Rest(s) \in 0..4
  BY FewChanges
<1> QED BY <1>4, <1>5 DEF Falls, Same

\* The ledger after a write, and after somebody else's.
LEMMA StaleMore ==
    ASSUME TypeOK, NEW t \in Settings, NEW s, ledger' = Stale(t, ledger), s \in Settings
    PROVE  More(s)' = More(s)
<1>1. ledger[s] \in Entry \cup {None} /\ ledger \in [Settings -> Entry \cup {None}]
  BY DEF TypeOK
<1>2. ledger'[s] = IF s = t THEN IF ledger[s] = None THEN None ELSE [ledger[s] EXCEPT !.clean = FALSE]
                  ELSE ledger[s]
  BY <1>1 DEF Stale
<1>3. ledger[s] # None => [ledger[s] EXCEPT !.clean = FALSE].verdict = ledger[s].verdict
                          /\ [ledger[s] EXCEPT !.clean = FALSE] \in Entry
  BY <1>1 DEF Entry
<1>4. ledger[s] # None => ledger'[s] # None /\ ledger'[s].verdict = ledger[s].verdict
  BY <1>2, <1>3, NoneAssumption
<1>5. ledger[s] = None => ledger'[s] = None
  BY <1>2
<1> QED BY <1>4, <1>5 DEF More, Skips

\* The setting at which a write is concluded counts from then on like any other.
LEMMA ConcludeFalls ==
    ASSUME TypeOK, pc \in Writing, NEW status \in {"Applied", "Refused"}, NEW verdict \in Verdicts,
           NEW undone \in BOOLEAN, Conclude(status, verdict, undone), UNCHANGED <<useCase, plan, mode>>,
           \A s \in Settings : s # at => machine'[s] = machine[s],
           mode.verified => ~Skips(at),
           LET n == IF ~mode.verified THEN More(at) ELSE IF verdict = "Unverifiable" THEN 3 ELSE 1
               c == IF Wanted(at) \in {None, machine'[at]} THEN 0 ELSE n
           IN  c <= Rest(at) /\ (machine'[at] # machine[at] => c < Rest(at))
    PROVE  \A s \in Settings : Falls(s)
<1>1. at \in Settings /\ pc' = "next" /\ at' = at + 1 /\ ledger \in [Settings -> Entry \cup {None}]
  BY WorkType DEF Conclude, TypeOK
<1>2. ASSUME NEW s \in Settings, s # at PROVE Falls(s)
  <2>1. ledger'[s] = ledger[s]
    BY <1>1, <1>2, StaleTypes DEF Conclude
  <2>2. Same(s)
    BY <1>2, <2>1 DEF Same, More, Skips, Wanted
  <2> QED BY <1>1, <1>2, <2>2, Elsewhere
<1>3. ASSUME NEW t \in Settings, t = at PROVE Falls(t)
  <2> DEFINE n == IF ~mode.verified THEN More(t) ELSE IF verdict = "Unverifiable" THEN 3 ELSE 1
  <2>1. More(t)' = n
    <3>1. CASE ~mode.verified
      <4>1. ledger' = ledger \/ ledger' = Stale(t, ledger)
        BY <1>3, <3>1 DEF Conclude
      <4>2. CASE ledger' = ledger
        BY <3>1, <4>2 DEF More, Skips
      <4>3. CASE ledger' = Stale(t, ledger)
        BY <3>1, <4>3, StaleMore
      <4> QED BY <4>1, <4>2, <4>3
    <3>2. CASE mode.verified
      <4>1. ledger'[t] = [verdict |-> verdict, value |-> work.value, prior |-> work.prior,
                          clean |-> work.clean, undone |-> undone]
        BY <1>1, <1>3, <3>2 DEF Conclude
      <4>2. ledger'[t] \in Entry /\ ledger'[t].verdict = verdict
        BY <4>1, WorkType DEF Entry
      <4>3. ledger'[t] # None
        BY <4>2, NoneAssumption
      <4>4. Skips(t)' <=> verdict # "Unverifiable"
        BY <4>2, <4>3 DEF Skips, Verdicts
      <4> QED BY <3>2, <4>4 DEF More
    <3> QED BY <3>1, <3>2
  <2> HIDE DEF n
  <2>2. Rest(t)' = Changes(pc', at', t, Wanted(t)', machine'[t], More(t)', plan'[t])
    BY DEF Rest
  <2>3. Wanted(t)' = Wanted(t) /\ plan' = plan
    BY DEF Wanted
  <2>4. pc' = "next" /\ ~(at' <= t)
    BY <1>1, <1>3, Numbers DEF Settings
  <2>5. Rest(t)' = IF Wanted(t) \in {None, machine'[t]} THEN 0 ELSE n
    BY <2>1, <2>2, <2>3, <2>4 DEF Changes, Writing
  <2> QED BY <1>3, <2>5 DEF Falls, n
<1> QED BY <1>2, <1>3

\* A step that concludes no write, at the setting where the loop is.
LEMMA HereFalls ==
    ASSUME TypeOK, Place, NEW s \in Settings, s = at,
           Pass \/ Choose \/ MeasureBefore \/ ReadPrevious
    PROVE  Falls(s)
<1>1. Same(s) /\ at \in Settings
  BY DEF Same, More, Skips, Wanted, Pass, Choose, MeasureBefore, ReadPrevious
<1>2. Rest(s)' = Changes(pc', at', s, Wanted(s), machine[s], More(s), plan[s])
  BY <1>1 DEF Rest, Same
<1>3. Rest(s) = Changes(pc, at, s, Wanted(s), machine[s], More(s), plan[s])
  BY DEF Rest
<1>4. at \in Int /\ at <= at /\ ~(at + 1 <= at)
  BY <1>1 DEF Settings
<1>5. More(s) \in {1, 3}
  BY FewChanges
<1>6. CASE Pass
  <2>1. pc = "next" /\ pc' = "next" /\ at' = at + 1
    BY <1>6 DEF Pass
  <2> QED BY <1>1, <1>2, <1>3, <1>4, <1>5, <2>1 DEF Changes, Falls, Same, Writing
<1>7. CASE Choose \/ MeasureBefore \/ ReadPrevious
  <2>1. /\ pc \in {"next", "baseline", "check"} /\ pc' \in {"baseline", "check", "write"}
        /\ at' = at
    BY <1>7 DEF Choose, MeasureBefore, ReadPrevious
  <2>2. Rest(s)' = Rest(s)
    BY <1>2, <1>3, <1>4, <2>1 DEF Changes, Writing
  <2>3. Rest(s) \in 0..4
    BY FewChanges
  <2> QED BY <1>1, <2>2, <2>3 DEF Falls, Same
<1> QED BY <1>6, <1>7

\* Whatever the loop does, every setting's changes are counted.
LEMMA LoopFalls ==
    ASSUME Inv, Loop
    PROVE  \A s \in Settings : Falls(s)
<1> USE DEF Inv
<1>2. CASE BeginCycle
  <2> SUFFICES ASSUME NEW s \in Settings PROVE Falls(s)
    OBVIOUS
  <2>1. /\ pc \in {"idle", "reverted"} /\ pc' = "next" /\ at' = 1
        /\ plan'[s] # None => plan'[s] = Wanted(s) /\ Wanted(s) # machine[s]
        /\ UNCHANGED <<machine, useCase, ledger>>
    BY <1>2 DEF BeginCycle, Wanted
  <2>2. More(s)' = More(s) /\ Wanted(s)' = Wanted(s)
    BY <2>1 DEF More, Skips, Wanted
  <2>3. Rest(s)' = Changes("next", 1, s, Wanted(s), machine[s], More(s), plan'[s])
    BY <2>1, <2>2 DEF Rest
  <2>4. Rest(s) = IF Wanted(s) \in {None, machine[s]} THEN 0 ELSE More(s)
    BY <2>1 DEF Rest, Changes, Writing
  <2>5. Rest(s)' = Rest(s)
    BY <2>1, <2>3, <2>4 DEF Changes, Writing, Settings
  <2>6. Rest(s) \in 0..4
    BY FewChanges
  <2> QED BY <2>1, <2>5, <2>6 DEF Falls
<1>3. CASE Pass \/ Choose \/ MeasureBefore \/ ReadPrevious
  <2> SUFFICES ASSUME NEW s \in Settings PROVE Falls(s)
    OBVIOUS
  <2>1. CASE s = at
    BY <1>3, <2>1, HereFalls
  <2>2. CASE s # at
    <3>1. Same(s)
      BY <1>3 DEF Same, More, Skips, Wanted, Pass, Choose, MeasureBefore, ReadPrevious
    <3>2. /\ pc \in {"next"} \cup Writing /\ pc' \in {"next"} \cup Writing
          /\ at' = at \/ (pc' = "next" /\ at' = at + 1)
      <4>1. CASE Pass
        BY <4>1 DEF Pass
      <4>2. CASE Choose \/ MeasureBefore \/ ReadPrevious
        BY <4>2 DEF Choose, MeasureBefore, ReadPrevious, Writing
      <4> QED BY <1>3, <4>1, <4>2
    <3> QED BY <2>2, <3>1, <3>2, Elsewhere
  <2> QED BY <2>1, <2>2
<1>4. CASE EndCycle
  <2> SUFFICES ASSUME NEW s \in Settings PROVE Falls(s)
    OBVIOUS
  <2>1. /\ pc = "next" /\ pc' = "idle" /\ at' = at /\ ~(at <= s)
        /\ UNCHANGED <<machine, useCase, ledger>>
    BY <1>4, Numbers DEF EndCycle, TypeOK, Settings
  <2>2. More(s)' = More(s) /\ Wanted(s)' = Wanted(s)
    BY <2>1 DEF More, Skips, Wanted
  <2>3. Rest(s)' = IF Wanted(s) \in {None, machine[s]} THEN 0 ELSE More(s)
    BY <2>1, <2>2 DEF Rest, Changes, Writing
  <2>4. Rest(s) = IF Wanted(s) \in {None, machine[s]} THEN 0 ELSE More(s)
    BY <2>1 DEF Rest, Changes, Writing
  <2>5. Rest(s) \in 0..4
    BY FewChanges
  <2> QED BY <2>1, <2>3, <2>4, <2>5 DEF Falls
<1>5. pc \in Writing => /\ at \in Settings /\ work.value = plan[at] /\ plan[at] # None
                        /\ mode.verified => More(at) = 3
  <2>1. pc \in Writing => work.value \in Values /\ at \in Settings /\ work.value = plan[at]
    BY WorkType DEF TypeOK
  <2>2. pc \in Writing /\ mode.verified => More(at) = 3
    BY DEF WorkIsTrue, More
  <2> QED BY <2>1, <2>2, TuningAssumption
<1>6. More(at) \in {1, 3}
  BY FewChanges
<1>7. pc \in {"baseline", "check", "write"} =>
          Rest(at) = IF plan[at] = Wanted(at) THEN More(at) ELSE 1 + More(at)
  <2>1. pc \in {"baseline", "check", "write"} => at <= at /\ plan[at] # None
    BY <1>5 DEF Writing, Settings
  <2> QED BY <2>1 DEF Rest, Changes, Writing
<1>8. CASE RefuseWrite \/ WriteFails
  <2>1. /\ pc \in {"check", "write"} /\ pc \in Writing /\ "Unverifiable" \in Verdicts
        /\ Conclude("Refused", "Unverifiable", FALSE) /\ UNCHANGED <<machine, useCase, plan, mode>>
    BY <1>8 DEF RefuseWrite, WriteFails, Writing, Verdicts
  <2>2. mode.verified => ~Skips(at)
    BY <2>1 DEF WorkIsTrue
  <2> DEFINE n == IF ~mode.verified THEN More(at) ELSE IF "Unverifiable" = "Unverifiable" THEN 3 ELSE 1
             c == IF Wanted(at) \in {None, machine'[at]} THEN 0 ELSE n
  <2>3. c <= Rest(at) /\ (machine'[at] # machine[at] => c < Rest(at))
    BY <1>5, <1>6, <1>7, <2>1
  <2> HIDE DEF n, c
  <2> QED BY <2>1, <2>2, <2>3, ConcludeFalls DEF n, c
<1>9. CASE WriteAccepted
  <2>1. /\ pc = "write" /\ pc \in Writing /\ UNCHANGED <<useCase, plan, mode>>
        /\ machine' = [machine EXCEPT ![at] = work.value] /\ "Unverifiable" \in Verdicts
    BY <1>9 DEF WriteAccepted, Writing, Verdicts
  <2>2. /\ machine'[at] = plan[at] /\ plan[at] # None
        /\ \A s \in Settings : s # at => machine'[s] = machine[s]
    BY <1>5, <2>1 DEF TypeOK
  <2>3. mode.verified => ~Skips(at)
    BY <2>1 DEF WorkIsTrue
  <2>4. CASE work.before.kind = "none"
    <3>1. Conclude("Applied", "Unverifiable", FALSE)
      BY <1>9, <2>4 DEF WriteAccepted
    <3> DEFINE n == IF ~mode.verified THEN More(at) ELSE IF "Unverifiable" = "Unverifiable" THEN 3 ELSE 1
               c == IF Wanted(at) \in {None, machine'[at]} THEN 0 ELSE n
    <3>2. c <= Rest(at) /\ (machine'[at] # machine[at] => c < Rest(at))
      BY <1>5, <1>6, <1>7, <2>1, <2>2
    <3> HIDE DEF n, c
    <3> QED BY <2>1, <2>2, <2>3, <3>1, <3>2, ConcludeFalls DEF n, c
  <2>5. CASE work.before.kind # "none"
    <3>1. pc' = "settle" /\ UNCHANGED <<ledger, at>>
      BY <1>9, <2>5 DEF WriteAccepted
    <3>2. mode.verified
      BY <2>1, <2>5 DEF WorkIsTrue
    <3>3. ASSUME NEW s \in Settings, s # at PROVE Falls(s)
      <4>1. Same(s)
        BY <2>1, <2>2, <3>1, <3>3 DEF Same, More, Skips, Wanted
      <4>2. pc \in {"next"} \cup Writing /\ pc' \in {"next"} \cup Writing /\ at' = at
        BY <2>1, <3>1 DEF Writing
      <4> QED BY <3>3, <4>1, <4>2, Elsewhere
    <3>4. ASSUME NEW s \in Settings, s = at PROVE Falls(s)
      <4>1. Rest(s)' = IF plan[s] = Wanted(s) THEN 2 ELSE 3
        <5>1. Wanted(s)' = Wanted(s) /\ machine'[s] = plan[s]
          BY <2>1, <2>2, <3>4 DEF Wanted
        <5> QED BY <3>1, <3>4, <5>1 DEF Rest, Changes
      <4>2. Rest(s) = IF plan[s] = Wanted(s) THEN 3 ELSE 4
        BY <1>5, <1>7, <2>1, <3>2, <3>4
      <4> QED BY <4>1, <4>2 DEF Falls
    <3> QED BY <3>3, <3>4
  <2> QED BY <2>4, <2>5
<1>10. CASE MeasureAfter
  <2>1. pc = "settle" /\ pc \in Writing /\ UNCHANGED <<machine, useCase, plan, mode>>
    BY <1>10 DEF MeasureAfter, Writing
  <2>2. mode.verified /\ ~Skips(at)
    BY <2>1 DEF WorkIsTrue
  <2>3. Rest(at) = IF machine[at] = Wanted(at) THEN 2 ELSE 3
    BY <2>1 DEF Rest, Changes
  <2>4. \/ pc' = "undo" /\ UNCHANGED <<ledger, at>>
        \/ \E verdict \in Verdicts : Conclude("Applied", verdict, FALSE)
    <3>1. \A w : Compare(work.before, w) \in Verdicts /\ "Unverifiable" \in Verdicts
      BY DEF Compare, Verdicts
    <3> QED BY <1>10, <3>1 DEF MeasureAfter
  <2>5. CASE pc' = "undo" /\ UNCHANGED <<ledger, at>>
    <3>1. ASSUME NEW s \in Settings, s # at PROVE Falls(s)
      <4>1. Same(s)
        BY <2>1, <2>5 DEF Same, More, Skips, Wanted
      <4>2. pc \in {"next"} \cup Writing /\ pc' \in {"next"} \cup Writing /\ at' = at
        BY <2>1, <2>5 DEF Writing
      <4> QED BY <3>1, <4>1, <4>2, Elsewhere
    <3>2. ASSUME NEW s \in Settings, s = at PROVE Falls(s)
      <4>1. Rest(s)' = 2
        BY <2>5, <3>2 DEF Rest, Changes
      <4> QED BY <2>1, <2>3, <3>2, <4>1 DEF Falls
    <3> QED BY <3>1, <3>2
  <2>6. CASE \E verdict \in Verdicts : Conclude("Applied", verdict, FALSE)
    <3>1. PICK verdict \in Verdicts : Conclude("Applied", verdict, FALSE)
      BY <2>6
    <3> DEFINE n == IF ~mode.verified THEN More(at) ELSE IF verdict = "Unverifiable" THEN 3 ELSE 1
               c == IF Wanted(at) \in {None, machine'[at]} THEN 0 ELSE n
    <3>2. c <= Rest(at) /\ (machine'[at] # machine[at] => c < Rest(at))
      BY <2>1, <2>2, <2>3
    <3> HIDE DEF n, c
    <3> QED BY <2>1, <2>2, <3>1, <3>2, ConcludeFalls DEF n, c
  <2> QED BY <2>4, <2>5, <2>6
<1>11. CASE UndoRegression \/ UndoFails
  <2>1. /\ pc = "undo" /\ pc \in Writing /\ UNCHANGED <<useCase, plan, mode>> /\ "Regressed" \in Verdicts
        /\ machine' = machine \/ machine' = [machine EXCEPT ![at] = work.previous]
    BY <1>11 DEF UndoRegression, UndoFails, Writing, Verdicts
  <2>2. mode.verified /\ ~Skips(at)
    BY <2>1 DEF WorkIsTrue
  <2>3. Rest(at) = 2
    BY <2>1 DEF Rest, Changes
  <2>4. \A s \in Settings : s # at => machine'[s] = machine[s]
    BY <2>1 DEF TypeOK
  <2>5. PICK undone \in BOOLEAN : Conclude("Applied", "Regressed", undone)
    BY <1>11 DEF UndoRegression, UndoFails
  <2> DEFINE n == IF ~mode.verified THEN More(at) ELSE IF "Regressed" = "Unverifiable" THEN 3 ELSE 1
             c == IF Wanted(at) \in {None, machine'[at]} THEN 0 ELSE n
  <2>6. c <= Rest(at) /\ (machine'[at] # machine[at] => c < Rest(at))
    BY <2>2, <2>3
  <2> HIDE DEF n, c
  <2> QED BY <2>1, <2>2, <2>4, <2>5, <2>6, ConcludeFalls DEF n, c
<1>12. CASE SkipRevert \/ Revert
  <2>1. /\ pc = "revert" /\ pc' = "revert" /\ at' = at - 1 /\ at \in Settings
        /\ UNCHANGED <<useCase, plan>>
    BY <1>12 DEF SkipRevert, Revert, TypeOK, Place, Settings
  <2>2. ledger' = ledger \/ ledger' = Stale(at, ledger)
    BY <1>12 DEF SkipRevert, Revert
  <2>3. \A s \in Settings : s # at => machine'[s] = machine[s]
    BY <1>12 DEF SkipRevert, Revert, TypeOK
  <2>4. ASSUME NEW s \in Settings PROVE More(s)' = More(s) /\ Wanted(s)' = Wanted(s)
    <3>1. CASE ledger' = ledger
      BY <2>1, <3>1 DEF More, Skips, Wanted
    <3>2. CASE ledger' = Stale(at, ledger)
      BY <2>1, <3>2, StaleMore DEF Wanted
    <3> QED BY <2>2, <3>1, <3>2
  <2>5. ASSUME NEW s \in Settings, s # at PROVE Falls(s)
    <3>1. Same(s)
      BY <2>1, <2>3, <2>4, <2>5 DEF Same
    <3> QED BY <2>1, <2>5, <3>1, Elsewhere
  <2>6. ASSUME NEW s \in Settings, s = at PROVE Falls(s)
    <3>1. s <= at /\ ~(s <= at')
      BY <2>1, <2>6 DEF Settings
    <3>2. Rest(s) = 1 + More(s)
      BY <2>1, <3>1 DEF Rest, Changes
    <3>3. Rest(s)' = IF Wanted(s) \in {None, machine'[s]} THEN 0 ELSE More(s)
      BY <2>1, <2>4, <3>1 DEF Rest, Changes, Writing
    <3>4. More(s) \in {1, 3}
      BY FewChanges
    <3> QED BY <3>2, <3>3, <3>4 DEF Falls
  <2> QED BY <2>5, <2>6
<1>13. CASE EndRevert
  <2> SUFFICES ASSUME NEW s \in Settings PROVE Falls(s)
    OBVIOUS
  <2>1. /\ pc = "revert" /\ pc' = "reverted" /\ at' = at /\ ~(s <= at)
        /\ UNCHANGED <<machine, useCase, ledger>>
    BY <1>13 DEF EndRevert, Settings
  <2>2. More(s)' = More(s) /\ Wanted(s)' = Wanted(s)
    BY <2>1 DEF More, Skips, Wanted
  <2>3. Rest(s)' = IF Wanted(s) \in {None, machine[s]} THEN 0 ELSE More(s)
    BY <2>1, <2>2 DEF Rest, Changes, Writing
  <2>4. Rest(s) = IF Wanted(s) \in {None, machine[s]} THEN 0 ELSE More(s)
    BY <2>1 DEF Rest, Changes, Writing
  <2>5. Rest(s) \in 0..4
    BY FewChanges
  <2> QED BY <2>1, <2>3, <2>4, <2>5 DEF Falls
<1> QED BY <1>2, <1>3, <1>4, <1>8, <1>9, <1>10, <1>11, <1>12, <1>13 DEF Loop

\* Between two disturbances the loop changes a setting four times at most, whatever it
\* measures and however its writes end: each change leaves fewer, and no step more.
THEOREM LoopWritesAreNumbered ==
    Spec => /\ [](\A s \in Settings : Rest(s) \in 0..4)
            /\ [][disturbed' = disturbed => \A s \in Settings : Falls(s)]_vars
<1>1. \A s \in Settings : Rest(s) \in 0..4
  BY FewChanges
<1>2. Inv /\ [Next]_vars => [disturbed' = disturbed => \A s \in Settings : Falls(s)]_vars
  <2>1. SUFFICES ASSUME Inv, Next, disturbed' = disturbed PROVE \A s \in Settings : Falls(s)
    OBVIOUS
  <2>2. disturbed \in Nat
    BY <2>1, Numbers DEF Inv, TypeOK
  <2>3. disturbed + 1 # disturbed
    BY <2>2
  <2>4. Loop
    BY <2>1, <2>3 DEF Next, BeginRevert, OtherWriter, UseCaseChanges, Forget, Restart
  <2> QED BY <2>1, <2>4, LoopFalls
<1> QED BY TuningInvariant, <1>1, <1>2, PTL DEF Spec

=============================================================================
