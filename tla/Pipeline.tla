------------------------------ MODULE Pipeline ------------------------------
(***************************************************************************)
(* One run of runGenerationPipeline, from the first AI call to the save:   *)
(* which code survives the three stages, their fallbacks and the quality   *)
(* loop, which validation and which QC report are saved with it, and how   *)
(* long the run takes under its timers.                                    *)
(*                                                                         *)
(* A code is known by what the pipeline's decisions read of it: the AI     *)
(* answer it comes from (gen), how often the auto-fix rewrote it (fixes),  *)
(* its two scores, whether it has a functional issue and whether it fails  *)
(* the security validation.  An AI call may answer with any code, fail, or *)
(* not answer at all; a browser check may report anything or nothing.      *)
(* Time is counted from the start of the run.                              *)
(***************************************************************************)
EXTENDS Integers

CONSTANTS
  Score,             \* values of structuralScore and mobileScore
  QualityMin,        \* QC_THRESHOLDS.QUALITY
  MobileMin,         \* QC_THRESHOLDS.MOBILE
  PolishedStructure, \* 80: with PolishedMobile, Stage 3 is skipped
  PolishedMobile,    \* 70
  QcScore,           \* values of a QC report's overallScore
  FastPass,          \* QC_THRESHOLDS.FAST_PASS
  QcEnabled,         \* ENABLE_RENDERING_QC
  StrictAdoption,    \* QUALITY_LOOP_STRICT_ADOPTION
  MaxIterations,     \* QUALITY_LOOP_MAX_ITERATIONS, after clamping
  Budget,            \* PIPELINE_MAX_DURATION_MS
  AbortMargin,       \* 20 s
  IterationTimeout,  \* QUALITY_LOOP_ITERATION_TIMEOUT_MS
  QcTimeout,         \* QC_FAST_TIMEOUT_MS
  AbortLag,          \* how long a provider's back-off sleep sits out an abort
  Stage1Limit        \* what the SDK's timeout and retries allow stages 0 and 1

ASSUME ScoresAreIntegers ==
  /\ Score \subseteq Int
  /\ QcScore \subseteq Int
  /\ {QualityMin, MobileMin, PolishedStructure, PolishedMobile, FastPass} \subseteq Int
ASSUME SwitchesAreBooleans == {QcEnabled, StrictAdoption} \subseteq BOOLEAN
ASSUME IterationsAreClamped == MaxIterations \in 0..3
ASSUME TimesAreNaturals ==
  /\ {Budget, AbortMargin, AbortLag, Stage1Limit} \subseteq Nat
  /\ {IterationTimeout, QcTimeout} \subseteq Nat \ {0}
  /\ AbortMargin <= Budget

VARIABLES
  pc,         \* the call the pipeline awaits, or how it ended
  now,        \* time since the start
  since,      \* when the awaited call began
  code,       \* the current result: stageNResult.parsed, then state.parsed
  needs2,     \* needsStage2
  report,     \* state.qcReport
  candidate,  \* retryParsed, while its QC runs
  used,       \* state.qualityLoopUsed
  attempt,    \* iterations of the quality loop begun
  validated,  \* name of the code whose validateAll result is kept to be saved
  answers,    \* AI answers so far (numbers the codes)
  stage1End   \* when Stage 1 answered (history)

vars == <<pc, now, since, code, needs2, report, candidate, used, attempt,
          validated, answers, stage1End>>

AbortAt == Budget - AbortMargin

Metrics == [issue : BOOLEAN, structural : Score, mobile : Score, unsafe : BOOLEAN]
MaxAnswers == 3 + MaxIterations
Code == [gen : 1..MaxAnswers, fixes : 0..MaxIterations, metrics : Metrics]
NoCode == [gen |-> 0]
Name(c) == [gen |-> c.gen, fixes |-> c.fixes]
NoName == [gen |-> 0, fixes |-> 0]
NoReport == [gen |-> 0]
Report == [gen : 1..MaxAnswers, score : QcScore, blocked : BOOLEAN]

Awaiting == {"stage1", "stage1qc", "stage2", "stage3", "finalqc", "retry", "retryqc"}
Ended == {"saved", "failed"}
PC == Awaiting \cup Ended \cup {"validate", "loop", "save"}

Init ==
  /\ pc = "stage1"
  /\ now = 0
  /\ since = 0
  /\ code = NoCode
  /\ needs2 = FALSE
  /\ report = NoReport
  /\ candidate = NoCode
  /\ used = FALSE
  /\ attempt = 0
  /\ validated = NoName
  /\ answers = 0
  /\ stage1End = 0

-----------------------------------------------------------------------------
(* Judging a code.                                                         *)

\* The retry condition: scores below their thresholds, a blocking check of
\* the QC report that failed, or a functional issue.
ShouldRetry(c, q) ==
  \/ c.metrics.structural < QualityMin
  \/ c.metrics.mobile < MobileMin
  \/ q # NoReport /\ q.blocked
  \/ c.metrics.issue

Cures(a, b) == a.metrics.issue /\ ~b.metrics.issue

\* b's scores improve on a's: one rises and, under strict adoption, the
\* other does not fall.
Improves(a, b) ==
  LET up == b.metrics.structural > a.metrics.structural
      mobileUp == b.metrics.mobile > a.metrics.mobile
  IN IF StrictAdoption
     THEN \/ up /\ b.metrics.mobile >= a.metrics.mobile
          \/ mobileUp /\ b.metrics.structural >= a.metrics.structural
     ELSE up \/ mobileUp

ReportImproves(q, r) == q # NoReport /\ r # NoReport /\ r.score > q.score

ShouldAdopt(a, b, q, r) == Cures(a, b) \/ Improves(a, b) \/ ReportImproves(q, r)

\* The auto-fix deletes or replaces text.  Any measure of the code may move,
\* but text that passed the security validation still does.
AutoFixes(c) ==
  {[c EXCEPT !.fixes = @ + 1, !.metrics = m] :
     m \in {n \in Metrics : n.unsafe => c.metrics.unsafe}}

\* What a browser check of c may find; nothing if it fails, times out or the
\* page cannot be assembled.
Reports(c) ==
  {NoReport} \cup [gen : {c.gen}, score : QcScore, blocked : BOOLEAN]

Answers == [gen : {answers + 1}, fixes : {0}, metrics : Metrics]

-----------------------------------------------------------------------------
(* The stages.                                                             *)

Await(l) == pc' = l /\ since' = now

\* Stage 2 if it is needed, else Stage 3 unless the code is polished already.
AfterStage1(c, needed) ==
  /\ needs2' = needed
  /\ Await(IF needed THEN "stage2"
           ELSE IF /\ c.metrics.structural >= PolishedStructure
                   /\ c.metrics.mobile >= PolishedMobile
                THEN "validate"
                ELSE "stage3")

\* Static issues send the code to Stage 2; without any, the browser decides.
Stage1Answers ==
  /\ pc = "stage1"
  /\ \E c \in Answers :
       /\ code' = c
       /\ IF QcEnabled /\ ~c.metrics.issue
          THEN Await("stage1qc") /\ UNCHANGED needs2
          ELSE AfterStage1(c, c.metrics.issue)
  /\ answers' = answers + 1
  /\ stage1End' = now
  /\ UNCHANGED <<now, report, candidate, used, attempt, validated>>

Stage1Fails ==
  /\ pc = "stage1"
  /\ pc' = "failed"
  /\ UNCHANGED <<now, since, code, needs2, report, candidate, used, attempt,
                 validated, answers, stage1End>>

Stage1QcReturns ==
  /\ pc = "stage1qc"
  /\ \E r \in Reports(code) :
       AfterStage1(code, r # NoReport /\ r.score < FastPass)
  /\ UNCHANGED <<now, code, report, candidate, used, attempt, validated,
                 answers, stage1End>>

AfterStage == [stage2 |-> "stage3", stage3 |-> "validate"]

StageAnswers ==
  /\ pc \in {"stage2", "stage3"}
  /\ code' \in Answers
  /\ answers' = answers + 1
  /\ Await(AfterStage[pc])
  /\ UNCHANGED <<now, needs2, report, candidate, used, attempt, validated, stage1End>>

\* The call failed, or was aborted: the previous stage's result stands.
StageFallsBack ==
  /\ pc \in {"stage2", "stage3"}
  /\ Await(AfterStage[pc])
  /\ UNCHANGED <<now, code, needs2, report, candidate, used, attempt,
                 validated, answers, stage1End>>

\* validateAll: a code with errors ends the run.
Validate ==
  /\ pc = "validate"
  /\ IF code.metrics.unsafe
     THEN pc' = "failed" /\ UNCHANGED <<since, validated>>
     ELSE /\ validated' = Name(code)
          /\ Await(IF QcEnabled THEN "finalqc" ELSE "loop")
  /\ UNCHANGED <<now, code, needs2, report, candidate, used, attempt, answers, stage1End>>

FinalQcReturns ==
  /\ pc = "finalqc"
  /\ report' \in Reports(code)
  /\ Await("loop")
  /\ UNCHANGED <<now, code, needs2, candidate, used, attempt, validated, answers, stage1End>>

-----------------------------------------------------------------------------
(* The quality loop.                                                       *)

\* Mutant: the result of the loop is saved without another validation.
LeaveLoop_Unchecked(c, u) ==
  /\ code' = c
  /\ used' = u
  /\ validated' = Name(c)
  /\ pc' = "save"

\* The loop returns c.  Its result is validated again only if the loop says
\* it has been used.
LeaveLoop(c, u) ==
  /\ code' = c
  /\ used' = u
  /\ IF ~u THEN pc' = "save" /\ UNCHANGED validated
     ELSE IF c.metrics.unsafe THEN pc' = "failed" /\ UNCHANGED validated
     ELSE pc' = "save" /\ validated' = Name(c)

IterationsLeft == attempt < MaxIterations

LoopEnds ==
  /\ pc = "loop"
  /\ ~IterationsLeft \/ ~ShouldRetry(code, report)
  /\ LeaveLoop(code, used)
  /\ UNCHANGED <<now, since, needs2, report, candidate, attempt, answers, stage1End>>

\* Mutant: the guard does not count the iteration it lets in.
FitsBudget_Elapsed == now <= Budget

FitsBudget == now + IterationTimeout <= Budget

\* One turn of the loop up to its AI call: auto-fix, which may settle it,
\* then the budget guard, then the call.
Iterate ==
  /\ pc = "loop"
  /\ IterationsLeft
  /\ ShouldRetry(code, report)
  /\ \E c \in AutoFixes(code) \cup {code} :
       IF c # code /\ ~ShouldRetry(c, report)
       THEN LeaveLoop(c, TRUE) /\ UNCHANGED <<since, attempt>>
       ELSE IF ~FitsBudget
       THEN LeaveLoop(c, used) /\ UNCHANGED <<since, attempt>>
       ELSE /\ code' = c
            /\ attempt' = attempt + 1
            /\ Await("retry")
            /\ UNCHANGED <<used, validated>>
  /\ UNCHANGED <<now, needs2, report, candidate, answers, stage1End>>

\* Mutant: without a report of the new code, the old one is kept.
Adopt_KeepsReport(c, r) ==
  /\ code' = c
  /\ report' = IF r = NoReport THEN report ELSE r
  /\ used' = TRUE

Adopt(c, r) ==
  /\ code' = c
  /\ report' = r
  /\ used' = TRUE

\* The candidate, with the report r of it, replaces the best code or is dropped.
Judge(c, r) ==
  /\ IF ShouldAdopt(code, c, report, r)
     THEN Adopt(c, r)
     ELSE UNCHANGED <<code, report, used>>
  /\ candidate' = NoCode
  /\ Await("loop")

RetryAnswers ==
  /\ pc = "retry"
  /\ \E c \in Answers :
       IF QcEnabled
       THEN /\ candidate' = c
            /\ Await("retryqc")
            /\ UNCHANGED <<code, report, used>>
       ELSE Judge(c, NoReport)
  /\ answers' = answers + 1
  /\ UNCHANGED <<now, needs2, attempt, validated, stage1End>>

\* The call failed, timed out or answered without any html.
RetryFails ==
  /\ pc = "retry"
  /\ Await("loop")
  /\ UNCHANGED <<now, code, needs2, report, candidate, used, attempt,
                 validated, answers, stage1End>>

RetryQcReturns ==
  /\ pc = "retryqc"
  /\ \E r \in Reports(candidate) : Judge(candidate, r)
  /\ UNCHANGED <<now, needs2, attempt, validated, answers, stage1End>>

Save ==
  /\ pc = "save"
  /\ pc' = "saved"
  /\ UNCHANGED <<now, since, code, needs2, report, candidate, used, attempt,
                 validated, answers, stage1End>>

-----------------------------------------------------------------------------
(* Time.                                                                   *)

\* Mutant: the abort signal is not handed to the later stages, so that
\* nothing ends a call that does not answer.
Deadline_NoAbort(l) ==
  CASE l = "stage1" -> Stage1Limit
    [] l \in {"stage2", "stage3"} -> -1
    [] l \in {"stage1qc", "finalqc", "retryqc"} -> since + QcTimeout
    [] l = "retry" -> since + IterationTimeout
    [] OTHER -> now

\* When the awaited call is given up; what is not awaited takes no time.  A
\* stage that begins after the abort is refused at once.
Deadline(l) ==
  CASE l = "stage1" -> Stage1Limit
    [] l \in {"stage2", "stage3"} -> IF since < AbortAt THEN AbortAt + AbortLag ELSE since
    [] l \in {"stage1qc", "finalqc", "retryqc"} -> since + QcTimeout
    [] l = "retry" -> since + IterationTimeout
    [] OTHER -> now

Tick ==
  /\ now < Deadline(pc)
  /\ now' = now + 1
  /\ UNCHANGED <<pc, since, code, needs2, report, candidate, used, attempt,
                 validated, answers, stage1End>>

Stopped == pc \in Ended /\ UNCHANGED vars

Step ==
  \/ Stage1Answers \/ Stage1Fails \/ Stage1QcReturns
  \/ StageAnswers \/ StageFallsBack
  \/ Validate \/ FinalQcReturns
  \/ LoopEnds \/ Iterate
  \/ RetryAnswers \/ RetryFails \/ RetryQcReturns
  \/ Save

Next == Step \/ Tick \/ Stopped

Spec == Init /\ [][Next]_vars

\* Timers fire and synchronous code goes on; no call owes an answer, but a
\* call whose time is up is given up.
Fairness == WF_vars(Tick) /\ WF_vars(Step /\ now = Deadline(pc))

LiveSpec == Spec /\ Fairness

-----------------------------------------------------------------------------
(* Properties.                                                             *)

TypeOK ==
  /\ pc \in PC
  /\ now \in Nat
  /\ since \in Nat
  /\ code \in Code \cup {NoCode}
  /\ needs2 \in BOOLEAN
  /\ report \in Report \cup {NoReport}
  /\ candidate \in Code \cup {NoCode}
  /\ used \in BOOLEAN
  /\ attempt \in 0..MaxIterations
  /\ validated \in [gen : 0..MaxAnswers, fixes : 0..MaxIterations]
  /\ answers \in 0..MaxAnswers
  /\ stage1End \in Nat

\* No code that fails the security validation is saved, whichever mix of
\* fallbacks, auto-fixes and retries produced it.
SavedIsSafe == pc \in {"save", "saved"} => code # NoCode /\ ~code.metrics.unsafe

\* The QC report that is kept is a report of the code that is kept, up to
\* auto-fixes, which by design are not checked in the browser again.
ReportIsOfCode == report # NoReport => report.gen = code.gen

\* A run fails only if Stage 1 gave it no code or if the code it has settled
\* on is unsafe (the loop may settle on an unsafe retry although it was given
\* a safe code): a Stage 2, Stage 3, QC or retry that fails or is aborted
\* never costs the user the generation.
FailsOnlyOnUnsafeCode == pc = "failed" => code = NoCode \/ code.metrics.unsafe

\* A run is ready to save within its budget and one QC check more, unless a
\* stage sat out the abort in a back-off, or Stage 1, which nothing aborts,
\* used the time up; then it does nothing more than the QC checks due.
ReadyInTime ==
  pc \in {"save", "saved"} =>
    \/ now <= Budget + QcTimeout
    \/ now <= AbortAt + AbortLag + QcTimeout
    \/ now <= stage1End + 2 * QcTimeout

\* However the AI and the browser behave after Stage 1, the run ends.
EndsEventually == <>(pc \in Ended)

\* Stated by generationPipeline.ts on saving "the recomputed result": the
\* validation saved with a code is the validation of that code.
ValidationIsOfSavedCode == pc = "saved" => validated = Name(code)
=============================================================================
