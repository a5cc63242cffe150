------------------------------- MODULE Tuning -------------------------------
(***************************************************************************)
(* The tuning loop (src/src/tuning/serve.rs, verify.rs, ledger.rs) over the  *)
(* writes of a setting (src/src/profile/apply.rs): a caller that runs one    *)
(* cycle after the other with a ledger, and may take the last one back.      *)
(* Every reading and every write of the machine is a step, and other writers *)
(* (`ironmon profile set`, the AI tool) write between any two of them.       *)
(*                                                                         *)
(* The settings are numbered in the order in which the inspector lists them. *)
(* A metric is higher-is-better; a lower one is its negative.                *)
(***************************************************************************)
EXTENDS Integers

CONSTANTS
    NumSettings,   \* settings that a policy names, each listed once
    Values,        \* values a setting may have
    UseCases,      \* what a classification may answer
    Target,        \* policy_for and choose_value: a use case's value, or None
    Risk,          \* SettingRisk, 0 (Informational) to 3 (Dangerous)
    Ceilings,      \* the ceilings a caller asks for
    Measured,      \* settings with a metric: metric_for, an empty registry today
    Quality,       \* what the metric reads under a value
    MinEffect,     \* MetricSpec.min_effect
    MaxNoise,      \* bound of the model: the noise of a window
    None,          \* Option::None
    MaxDisturbances \* bound of the model: what happens beside the cycles

Settings == 1..NumSettings
Moderate == 2      \* UNATTENDED_CEILING

ASSUME TuningAssumption ==
    /\ {NumSettings, MinEffect, MaxNoise, MaxDisturbances} \subseteq Nat
    /\ None \notin Values
    /\ Target \in [UseCases -> [Settings -> Values \cup {None}]]
    /\ Risk \in [Settings -> 0..3] /\ Ceilings \subseteq 0..3
    /\ Measured \subseteq Settings
    /\ Quality \in [Values -> Int]

VARIABLES
    machine,   \* the value of each setting
    useCase,   \* what the machine is used for
    ledger,    \* Ledger.entries: the last verdict on each setting
    pc,        \* where the loop is
    mode,      \* of the cycle: whether it verifies, `confirm`, its ceiling
    plan,      \* Plan.recommendations: the value proposed for each setting
    at,        \* the setting the cycle, or the revert, has reached
    work,      \* the write in progress
    applied,   \* Cycle.applied: the outcome for each setting
    report,    \* what revert_cycle answered for each setting
    disturbed  \* disturbances so far

vars == <<machine, useCase, ledger, pc, mode, plan, at, work, applied, report, disturbed>>

Verdicts == {"Improved", "Unchanged", "Regressed", "Unverifiable"}
NotRead == [kind |-> "none", median |-> 0, mad |-> 0]
FewRead == [NotRead EXCEPT !.kind = "few"]
Windows == [kind : {"none", "few", "most"}, median : Int, mad : 0..MaxNoise]

Modes == [verified : BOOLEAN, confirm : BOOLEAN, ceiling : Ceilings]

\* `prior`, `clean` and `undone` are history: the value before the loop came to the
\* setting, whether it alone has written since, and whether verification put it back.
Work == [id : Settings, value : Values, previous : Values \cup {None},
         before : Windows, prior : Values, clean : BOOLEAN]
Entry == [verdict : Verdicts, value : Values, prior : Values, clean : BOOLEAN, undone : BOOLEAN]
Outcome == [status : {"Applied", "Refused"}, previous : Values \cup {None},
            verdict : Verdicts \cup {None}, prior : Values, clean : BOOLEAN, undone : BOOLEAN]

ASSUME NoneAssumption == None \notin Entry

Writing == {"baseline", "check", "write", "settle", "undo"}

TypeOK ==
    /\ machine \in [Settings -> Values] /\ useCase \in UseCases
    /\ ledger \in [Settings -> Entry \cup {None}]
    /\ pc \in {"idle", "next", "revert", "reverted"} \cup Writing
    /\ mode \in Modes
    /\ plan \in [Settings -> Values \cup {None}]
    /\ at \in 0..NumSettings + 1
    /\ IF pc \in Writing THEN work \in Work /\ work.id = at /\ work.value = plan[at] ELSE work = None
    /\ applied \in [Settings -> Outcome \cup {None}]
    /\ report \in [Settings -> {None, "Applied", "Refused"}]
    /\ disturbed \in 0..MaxDisturbances

Nothing == [s \in Settings |-> None]

Init ==
    /\ machine \in [Settings -> Values] /\ useCase \in UseCases
    /\ ledger = Nothing /\ pc = "idle"
    /\ mode \in [verified : {FALSE}, confirm : {FALSE}, ceiling : Ceilings]
    /\ plan = Nothing /\ at = 0 /\ work = None
    /\ applied = Nothing /\ report = Nothing /\ disturbed = 0

-----------------------------------------------------------------------------
(* What the loop has learned                                                *)

\* Ledger::skip.  The slip takes a regression for no result.
SkipsButRegressed(s) == ledger[s] # None /\ ledger[s].verdict \in {"Unchanged", "Improved"}
Skips(s) == ledger[s] # None /\ ledger[s].verdict \in {"Regressed", "Unchanged", "Improved"}

\* What a window of the metric may measure while a setting has value v.
WindowsOf(v) ==
    {NotRead, FewRead} \cup
    {w \in [kind : {"most"}, median : Quality[v] - MaxNoise .. Quality[v] + MaxNoise, mad : 0..MaxNoise] :
        w.median \in Quality[v] - w.mad .. Quality[v] + w.mad}

\* The move that compare believes.  The slip forgets the noise.
ThresholdWithoutNoise(before, after) == MinEffect
Threshold(before, after) ==
    IF before.mad + after.mad > MinEffect THEN before.mad + after.mad ELSE MinEffect

Compare(before, after) ==
    LET delta == after.median - before.median
    IN  IF before.kind = "few" \/ after.kind = "few" THEN "Unverifiable"
        ELSE IF -delta < Threshold(before, after) /\ delta < Threshold(before, after) THEN "Unchanged"
        ELSE IF delta > 0 THEN "Improved" ELSE "Regressed"

\* Somebody else has written the setting: history only.
Stale(s, f) == [f EXCEPT ![s] = IF @ = None THEN @ ELSE [@ EXCEPT !.clean = FALSE]]

-----------------------------------------------------------------------------
(* A cycle: cycle_inner                                                     *)

\* The plan holds what the inspector read, may be written and has not the wanted
\* value yet.  A cycle that only recommends is one without a plan.
BeginCycle ==
    /\ pc \in {"idle", "reverted"}
    /\ mode' \in Modes
    /\ \E seen \in SUBSET Settings :
        plan' = [s \in Settings |->
                    IF s \in seen /\ Target[useCase][s] # machine[s] THEN Target[useCase][s] ELSE None]
    /\ pc' = "next" /\ at' = 1
    /\ applied' = Nothing /\ report' = Nothing
    /\ UNCHANGED <<machine, useCase, ledger, work, disturbed>>

\* min_risk, and the ledger, which only a verified cycle has.
Withheld(s) ==
    \/ Risk[s] > mode.ceiling \/ Risk[s] > Moderate
    \/ mode.verified /\ Skips(s)

Pass ==
    /\ pc = "next" /\ at <= NumSettings
    /\ plan[at] = None \/ Withheld(at)
    /\ at' = at + 1
    /\ UNCHANGED <<machine, useCase, ledger, pc, mode, plan, work, applied, report, disturbed>>

\* A metric that needs load is not measured on a machine that is idle, or may be.
Choose ==
    /\ pc = "next" /\ at <= NumSettings
    /\ plan[at] # None /\ ~Withheld(at)
    /\ work' = [id |-> at, value |-> plan[at], previous |-> None, before |-> NotRead,
                prior |-> machine[at], clean |-> TRUE]
    /\ \/ mode.verified /\ at \in Measured /\ pc' = "baseline"
       \/ pc' = "check"
    /\ UNCHANGED <<machine, useCase, ledger, mode, plan, at, applied, report, disturbed>>

EndCycle ==
    /\ pc = "next" /\ at > NumSettings
    /\ pc' = "idle" /\ plan' = Nothing
    /\ UNCHANGED <<machine, useCase, ledger, mode, at, work, applied, report, disturbed>>

\* The slip leaves the write in progress where it was.
ConcludeKeeping(status, verdict, undone) ==
    /\ applied' = applied /\ ledger' = ledger
    /\ work' = work /\ pc' = "next" /\ at' = at + 1

\* The write in progress is over: Ledger::record, and the cycle's own record.
Conclude(status, verdict, undone) ==
    /\ applied' = [applied EXCEPT ![at] =
                    [status |-> status, previous |-> work.previous,
                     verdict |-> IF mode.verified THEN verdict ELSE None,
                     prior |-> work.prior, clean |-> work.clean, undone |-> undone]]
    /\ ledger' = IF mode.verified
                 THEN [ledger EXCEPT ![at] =
                        [verdict |-> verdict, value |-> work.value, prior |-> work.prior,
                         clean |-> work.clean, undone |-> undone]]
                 ELSE IF status = "Applied" THEN Stale(at, ledger) ELSE ledger
    /\ work' = None /\ pc' = "next" /\ at' = at + 1

-----------------------------------------------------------------------------
(* A write and its verdict: apply_verified, verify_around, and               *)
(* apply_setting_reversible                                                  *)

MeasureBefore ==
    /\ pc = "baseline"
    /\ \E w \in WindowsOf(machine[at]) : work' = [work EXCEPT !.before = w]
    /\ pc' = "check"
    /\ UNCHANGED <<machine, useCase, ledger, mode, plan, at, applied, report, disturbed>>

\* apply_setting_reversible refuses a setting it cannot read, and apply_setting one it
\* may not write.
RefuseWrite ==
    /\ pc = "check"
    /\ Conclude("Refused", "Unverifiable", FALSE)
    /\ UNCHANGED <<machine, useCase, mode, plan, report, disturbed>>

\* It could be read.  apply_setting reads it once more, for the outcome, and that
\* reading may fail.
ReadPrevious ==
    /\ pc = "check" /\ mode.confirm
    /\ \E previous \in {machine[at], None} : work' = [work EXCEPT !.previous = previous]
    /\ pc' = "write"
    /\ UNCHANGED <<machine, useCase, ledger, mode, plan, at, applied, report, disturbed>>

WriteFails ==
    /\ pc = "write"
    /\ Conclude("Refused", "Unverifiable", FALSE)
    /\ UNCHANGED <<machine, useCase, mode, plan, report, disturbed>>

WriteAccepted ==
    /\ pc = "write"
    /\ machine' = [machine EXCEPT ![at] = work.value]
    /\ IF work.before.kind = "none"
       THEN Conclude("Applied", "Unverifiable", FALSE)
       ELSE pc' = "settle" /\ UNCHANGED <<ledger, at, work, applied>>
    /\ UNCHANGED <<useCase, mode, plan, report, disturbed>>

MeasureAfter ==
    /\ pc = "settle"
    /\ \E w \in WindowsOf(machine[at]) :
        LET verdict == IF w.kind = "none" THEN "Unverifiable" ELSE Compare(work.before, w)
        IN  IF verdict = "Regressed"
            THEN pc' = "undo" /\ UNCHANGED <<ledger, at, work, applied>>
            ELSE Conclude("Applied", verdict, FALSE)
    /\ UNCHANGED <<machine, useCase, mode, plan, report, disturbed>>

\* revert_setting, by verify_around.
UndoRegression ==
    /\ pc = "undo"
    /\ work.previous # None
    /\ machine' = [machine EXCEPT ![at] = work.previous]
    /\ Conclude("Applied", "Regressed", TRUE)
    /\ UNCHANGED <<useCase, mode, plan, report, disturbed>>

\* There is no previous value, or its write fails; the cycle does not say so.
UndoFails ==
    /\ pc = "undo"
    /\ Conclude("Applied", "Regressed", FALSE)
    /\ UNCHANGED <<machine, useCase, mode, plan, report, disturbed>>

-----------------------------------------------------------------------------
(* The way back: revert_cycle, the last setting first                        *)

BeginRevert ==
    /\ pc \in {"idle", "reverted"}
    /\ disturbed < MaxDisturbances /\ disturbed' = disturbed + 1
    /\ applied # Nothing
    /\ \E c \in BOOLEAN : mode' = [mode EXCEPT !.confirm = c]
    /\ pc' = "revert" /\ at' = NumSettings /\ report' = Nothing
    /\ UNCHANGED <<machine, useCase, ledger, plan, work, applied>>

\* What verification is said to have put back is not reverted.  The slip takes what was
\* not verified for it.
SaidUnverified(o) == o # None /\ o.verdict \in {"Regressed", "Unverifiable"}
SaidUndone(o) == o # None /\ o.verdict = "Regressed"

SkipRevert ==
    /\ pc = "revert" /\ at > 0
    /\ applied[at] = None \/ SaidUndone(applied[at])
    /\ at' = at - 1
    /\ UNCHANGED <<machine, useCase, ledger, pc, mode, plan, work, applied, report, disturbed>>

Revert ==
    /\ pc = "revert" /\ at > 0
    /\ applied[at] # None /\ ~SaidUndone(applied[at])
    /\ \/ /\ applied[at].status = "Applied" /\ applied[at].previous # None /\ mode.confirm
          /\ machine' = [machine EXCEPT ![at] = applied[at].previous]
          /\ report' = [report EXCEPT ![at] = "Applied"]
          /\ ledger' = Stale(at, ledger)
       \/ /\ report' = [report EXCEPT ![at] = "Refused"]
          /\ UNCHANGED <<machine, ledger>>
    /\ at' = at - 1
    /\ UNCHANGED <<useCase, pc, mode, plan, work, applied, disturbed>>

EndRevert ==
    /\ pc = "revert" /\ at = 0
    /\ pc' = "reverted"
    /\ UNCHANGED <<machine, useCase, ledger, mode, plan, at, work, applied, report, disturbed>>

-----------------------------------------------------------------------------
(* What happens beside the cycles                                           *)

OtherWriter ==
    /\ disturbed < MaxDisturbances /\ disturbed' = disturbed + 1
    /\ \E s \in Settings, v \in Values :
        /\ machine' = [machine EXCEPT ![s] = v]
        /\ ledger' = Stale(s, ledger) /\ applied' = Stale(s, applied)
        /\ work' = IF pc \in Writing /\ at = s THEN [work EXCEPT !.clean = FALSE] ELSE work
    /\ UNCHANGED <<useCase, pc, mode, plan, at, report>>

UseCaseChanges ==
    /\ disturbed < MaxDisturbances /\ disturbed' = disturbed + 1
    /\ useCase' \in UseCases
    /\ UNCHANGED <<machine, ledger, pc, mode, plan, at, work, applied, report>>

\* Ledger::forget, by the caller that owns it.
Forget ==
    /\ pc \in {"idle", "reverted"}
    /\ disturbed < MaxDisturbances /\ disturbed' = disturbed + 1
    /\ \E s \in Settings : ledger' = [ledger EXCEPT ![s] = None]
    /\ UNCHANGED <<machine, useCase, pc, mode, plan, at, work, applied, report>>

\* The process ends at any step, and starts again with an empty ledger.
Restart ==
    /\ disturbed < MaxDisturbances /\ disturbed' = disturbed + 1
    /\ pc' = "idle" /\ work' = None
    /\ ledger' = Nothing /\ plan' = Nothing /\ applied' = Nothing /\ report' = Nothing
    /\ UNCHANGED <<machine, useCase, mode, at>>

Loop ==
    \/ BeginCycle \/ Pass \/ Choose \/ EndCycle
    \/ MeasureBefore \/ RefuseWrite \/ ReadPrevious \/ WriteFails \/ WriteAccepted
    \/ MeasureAfter \/ UndoRegression \/ UndoFails
    \/ SkipRevert \/ Revert \/ EndRevert

Next == Loop \/ BeginRevert \/ OtherWriter \/ UseCaseChanges \/ Forget \/ Restart

\* The loop's caller goes on; what happens beside it may or may not.
Spec == Init /\ [][Next]_vars /\ WF_vars(Loop)

-----------------------------------------------------------------------------
(* Properties                                                               *)

\* "Reported as un-revertible rather than skipped silently": after revert_cycle every
\* setting the cycle wrote is where the cycle found it, or the report names it as one
\* that is not, unless another writer has written it.
WayBackIsReported ==
    pc = "reverted" =>
        \A s \in Settings :
            applied[s] # None /\ applied[s].clean =>
                machine[s] = applied[s].prior \/ report[s] = "Refused"

\* The report is silent of one kind only: what verification tried to put back and could
\* not.  Refusals, one-way writes and every undo that succeeded are accounted for.
OnlyFailedUndosAreSilent ==
    pc = "reverted" =>
        \A s \in Settings :
            applied[s] # None /\ applied[s].clean =>
                \/ machine[s] = applied[s].prior
                \/ report[s] = "Refused"
                \/ applied[s].verdict = "Regressed" /\ ~applied[s].undone

\* While nobody else has written a setting since the loop came to it, a verdict of the
\* ledger is true of the machine: an improvement is in effect and no value that is worse,
\* a regression was no value that is better and is gone, if it could be put back.
VerdictsAreEarned ==
    \A s \in Settings :
        LET e == ledger[s]
        IN  e # None /\ e.clean =>
                /\ e.verdict = "Improved" =>
                    Quality[e.value] >= Quality[e.prior] /\ machine[s] = e.value
                /\ e.verdict = "Regressed" =>
                    Quality[e.value] <= Quality[e.prior] /\ (e.undone => machine[s] = e.prior)

\* The loop comes to rest: with a ledger it does not flap between the value it proposes
\* and the one it puts back, however its writes and measurements end (cycle_verified_with).
LoopSettles == <>[][UNCHANGED machine]_vars

=============================================================================
