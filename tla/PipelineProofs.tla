---------------------------- MODULE PipelineProofs ----------------------------
(***************************************************************************)
(* What is proved of one pipeline run, for every score scale, threshold,   *)
(* number of iterations and timing: the types, that no unsafe code is      *)
(* saved and that no run fails holding a safe one, that the QC report      *)
(* kept belongs to the code kept, and when a run is ready to save.         *)
(***************************************************************************)
EXTENDS Pipeline, TLAPS

\* How far a run has come bounds the AI answers it has had and the auto-fixes
\* its code carries; from Stage 1's answer on there is a code.
Counts ==
  /\ pc = "stage1" => answers = 0
  /\ pc \in {"stage1qc", "stage2"} => answers = 1
  /\ pc = "stage3" => answers <= 2
  /\ pc \in {"validate", "finalqc"} => answers <= 3
  /\ pc \in {"loop", "retryqc"} => answers <= 3 + attempt
  /\ pc = "retry" => answers < 3 + attempt
  /\ pc \in {"stage1qc", "stage2", "stage3", "validate", "finalqc"} =>
       attempt = 0 /\ code.fixes = 0
  /\ pc = "stage1" => attempt = 0
  /\ pc \in {"loop", "retry", "retryqc"} => code.fixes <= attempt
  /\ pc \notin {"stage1", "failed"} => code \in Code
  /\ pc = "retryqc" => candidate \in Code /\ candidate.fixes = 0
  /\ pc = "stage1" => code = NoCode

TypeInv == TypeOK /\ Counts

-----------------------------------------------------------------------------
(* What an AI answer, an auto-fix and a browser check hand to the pipeline. *)

\* A numbered answer is a code that no auto-fix has touched.
LEMMA AnswersAreCodes ==
  ASSUME answers \in 0..MaxAnswers, answers < MaxAnswers, NEW c \in Answers
  PROVE  c \in Code /\ c.fixes = 0 /\ c.gen = answers + 1
  BY IterationsAreClamped DEF Answers, Code, MaxAnswers

\* An auto-fixed code keeps its origin and does not become unsafe.
LEMMA FixesAreCodes ==
  ASSUME NEW c \in Code, c.fixes < MaxIterations, NEW f \in AutoFixes(c)
  PROVE  /\ f \in Code
         /\ f.gen = c.gen
         /\ f.fixes = c.fixes + 1
         /\ f.metrics.unsafe => c.metrics.unsafe
<1>1. PICK m \in Metrics : /\ m.unsafe => c.metrics.unsafe
                           /\ f = [c EXCEPT !.fixes = @ + 1, !.metrics = m]
  BY DEF AutoFixes
<1>2. f = [gen |-> c.gen, fixes |-> c.fixes + 1, metrics |-> m]
  BY <1>1 DEF Code
<1>3. c.fixes + 1 \in 0..MaxIterations
  BY IterationsAreClamped DEF Code
<1> QED
  BY <1>1, <1>2, <1>3 DEF Code

\* A browser check reports on the code it was given, or not at all.
LEMMA ReportsAreOfTheirCode ==
  ASSUME NEW c \in Code, NEW r \in Reports(c)
  PROVE  r = NoReport \/ (r \in Report /\ r.gen = c.gen)
  BY DEF Reports, Report, Code

\* What replaces nothing is no code: codes are numbered from one.
LEMMA CodesAreNotNoCode ==
  ASSUME NEW c \in Code
  PROVE  c # NoCode
  BY DEF Code, NoCode

\* A name of a code is of the type names have.
LEMMA NamesAreTyped ==
  ASSUME NEW c \in Code
  PROVE  Name(c) \in [gen : 0..MaxAnswers, fixes : 0..MaxIterations]
  BY IterationsAreClamped DEF Name, Code, MaxAnswers

-----------------------------------------------------------------------------
(* Types.                                                                  *)

\* The initial state is typed.
LEMMA InitTypes == Init => TypeInv
<1> SUFFICES ASSUME Init PROVE TypeInv
  OBVIOUS
<1>1. 0 \in 0..MaxAnswers /\ 0 \in 0..MaxIterations
  BY IterationsAreClamped DEF MaxAnswers
<1>2. NoName \in [gen : 0..MaxAnswers, fixes : 0..MaxIterations]
  BY <1>1 DEF NoName
<1>3. TypeOK
  BY <1>1, <1>2 DEF Init, TypeOK, PC, Awaiting
<1>4. Counts
  BY DEF Init, Counts
<1> QED
  BY <1>3, <1>4 DEF TypeInv

\* Every step keeps the types.
LEMMA StepTypes == TypeInv /\ [Next]_vars => TypeInv'
<1> SUFFICES ASSUME TypeInv, [Next]_vars PROVE TypeInv'
  OBVIOUS
<1> USE IterationsAreClamped DEF TypeInv, TypeOK, Counts, PC, Awaiting, Ended, MaxAnswers
<1>1. CASE Stage1Answers
  <2>1. PICK c \in Answers :
          /\ code' = c
          /\ IF QcEnabled /\ ~c.metrics.issue
             THEN Await("stage1qc") /\ UNCHANGED needs2
             ELSE AfterStage1(c, c.metrics.issue)
    BY <1>1 DEF Stage1Answers
  <2>2. c \in Code /\ c.fixes = 0
    BY <1>1, AnswersAreCodes DEF Stage1Answers
  <2>3. c.metrics.issue \in BOOLEAN
    BY <2>2 DEF Code, Metrics
  <2>4. /\ pc' \in {"stage1qc", "stage2", "stage3", "validate"}
        /\ since' = now /\ needs2' \in BOOLEAN
    BY <2>1, <2>3 DEF Await, AfterStage1
  <2>5. pc' \in {"stage1qc", "stage2", "stage3", "validate"} /\ answers' = 1
    BY <1>1, <2>4 DEF Stage1Answers
  <2> QED
    BY <1>1, <2>1, <2>2, <2>4, <2>5 DEF Stage1Answers
<1>2. CASE Stage1Fails
  BY <1>2 DEF Stage1Fails
<1>3. CASE Stage1QcReturns
  <2>1. /\ pc' \in {"stage2", "stage3", "validate"}
        /\ since' = now /\ needs2' \in BOOLEAN
    BY <1>3 DEF Stage1QcReturns, AfterStage1, Await
  <2> QED
    BY <1>3, <2>1 DEF Stage1QcReturns
<1>4. CASE StageAnswers
  <2>1. code' \in Code /\ code'.fixes = 0
    BY <1>4, AnswersAreCodes DEF StageAnswers
  <2>2. since' = now /\ \/ pc = "stage2" /\ pc' = "stage3"
                        \/ pc = "stage3" /\ pc' = "validate"
    BY <1>4 DEF StageAnswers, AfterStage, Await
  <2> QED
    BY <1>4, <2>1, <2>2 DEF StageAnswers
<1>5. CASE StageFallsBack
  <2>1. since' = now /\ \/ pc = "stage2" /\ pc' = "stage3"
                        \/ pc = "stage3" /\ pc' = "validate"
    BY <1>5 DEF StageFallsBack, AfterStage, Await
  <2> QED
    BY <1>5, <2>1 DEF StageFallsBack
<1>6. CASE Validate
  <2>1. Name(code) \in [gen : 0..MaxAnswers, fixes : 0..MaxIterations]
    BY <1>6, NamesAreTyped DEF Validate
  <2>2. CASE code.metrics.unsafe
    BY <1>6, <2>2 DEF Validate
  <2>3. CASE ~code.metrics.unsafe
    <3>1. since' = now /\ pc' \in {"finalqc", "loop"} /\ validated' = Name(code)
      BY <1>6, <2>3 DEF Validate, Await
    <3> QED
      BY <1>6, <2>1, <3>1 DEF Validate
  <2> QED
    BY <2>2, <2>3
<1>7. CASE FinalQcReturns
  <2>1. report' = NoReport \/ report' \in Report
    BY <1>7, ReportsAreOfTheirCode DEF FinalQcReturns
  <2> QED
    BY <1>7, <2>1 DEF FinalQcReturns, Await
<1>8. CASE LoopEnds
  <2>1. Name(code) \in [gen : 0..MaxAnswers, fixes : 0..MaxIterations]
    BY <1>8, NamesAreTyped DEF LoopEnds
  <2>2. /\ code' = code /\ used' = used
        /\ pc' \in {"save", "failed"}
        /\ validated' = validated \/ validated' = Name(code)
    BY <1>8 DEF LoopEnds, LeaveLoop
  <2> QED
    BY <1>8, <2>1, <2>2 DEF LoopEnds
<1>9. CASE Iterate
  <2>1. PICK c \in AutoFixes(code) \cup {code} :
          IF c # code /\ ~ShouldRetry(c, report)
          THEN LeaveLoop(c, TRUE) /\ UNCHANGED <<since, attempt>>
          ELSE IF ~FitsBudget
          THEN LeaveLoop(c, used) /\ UNCHANGED <<since, attempt>>
          ELSE /\ code' = c
               /\ attempt' = attempt + 1
               /\ Await("retry")
               /\ UNCHANGED <<used, validated>>
    BY <1>9 DEF Iterate
  <2>2. c \in Code /\ c.fixes <= attempt + 1
    BY <1>9, FixesAreCodes DEF Iterate, IterationsLeft, Code
  <2>3. Name(c) \in [gen : 0..MaxAnswers, fixes : 0..MaxIterations]
    BY <2>2, NamesAreTyped
  <2>4. \/ /\ code' = c /\ used' \in BOOLEAN
           /\ pc' \in {"save", "failed"}
           /\ validated' = validated \/ validated' = Name(c)
           /\ UNCHANGED <<since, attempt>>
        \/ /\ code' = c /\ attempt' = attempt + 1 /\ pc' = "retry" /\ since' = now
           /\ UNCHANGED <<used, validated>>
    BY <2>1 DEF LeaveLoop, Await
  <2> QED
    BY <1>9, <2>2, <2>3, <2>4 DEF Iterate, IterationsLeft
<1>10. CASE RetryAnswers
  <2>1. PICK c \in Answers :
          IF QcEnabled
          THEN candidate' = c /\ Await("retryqc") /\ UNCHANGED <<code, report, used>>
          ELSE Judge(c, NoReport)
    BY <1>10 DEF RetryAnswers
  <2>2. c \in Code /\ c.fixes = 0
    BY <1>10, AnswersAreCodes DEF RetryAnswers
  <2>3. CASE QcEnabled
    BY <1>10, <2>1, <2>2, <2>3 DEF RetryAnswers, Await
  <2>4. CASE ~QcEnabled
    <3>1. /\ pc' = "loop" /\ since' = now /\ candidate' = NoCode
          /\ code' \in {code, c} /\ report' \in {report, NoReport} /\ used' \in BOOLEAN
      BY <2>1, <2>4 DEF Judge, Adopt, Await
    <3> QED
      BY <1>10, <2>2, <3>1 DEF RetryAnswers
  <2> QED
    BY <2>3, <2>4
<1>11. CASE RetryFails
  BY <1>11 DEF RetryFails, Await
<1>12. CASE RetryQcReturns
  <2>1. PICK r \in Reports(candidate) : Judge(candidate, r)
    BY <1>12 DEF RetryQcReturns
  <2>2. r = NoReport \/ r \in Report
    BY <1>12, ReportsAreOfTheirCode DEF RetryQcReturns
  <2>3. /\ pc' = "loop" /\ since' = now /\ candidate' = NoCode
        /\ code' \in {code, candidate} /\ report' \in {report, r} /\ used' \in BOOLEAN
    BY <2>1 DEF Judge, Adopt, Await
  <2> QED
    BY <1>12, <2>2, <2>3 DEF RetryQcReturns
<1>13. CASE Save
  BY <1>13 DEF Save
<1>14. CASE Tick
  BY <1>14 DEF Tick
<1>15. CASE UNCHANGED vars
  BY <1>15 DEF vars
<1> QED
  BY <1>1, <1>2, <1>3, <1>4, <1>5, <1>6, <1>7, <1>8, <1>9, <1>10, <1>11, <1>12,
     <1>13, <1>14, <1>15 DEF Next, Step, Stopped

\* Every state of a run is typed.
THEOREM TypeOKAlways == Spec => []TypeOK
<1>1. Spec => []TypeInv
  BY InitTypes, StepTypes, PTL DEF Spec
<1>2. TypeInv => TypeOK
  BY DEF TypeInv
<1> QED
  BY <1>1, <1>2, PTL

-----------------------------------------------------------------------------
(* What is saved.                                                          *)

\* A result that no later validation covers has passed the one before the
\* quality loop, or is an auto-fix of one that has; only a result the loop
\* says it has used may be unsafe, and that one is validated again.
Vetted ==
  /\ pc \in {"finalqc", "loop", "retry", "retryqc"} /\ ~used => ~code.metrics.unsafe
  /\ pc \notin {"loop", "retry", "retryqc", "save", "saved", "failed"} =>
       ~used /\ report = NoReport

SafetyInv == Vetted /\ SavedIsSafe /\ ReportIsOfCode /\ FailsOnlyOnUnsafeCode

\* Leaving the loop with a code that is safe unless the loop has been used,
\* saves a safe code or fails for an unsafe one.
LEMMA LeavingIsSafe ==
  ASSUME NEW c, NEW u, u \/ ~c.metrics.unsafe, LeaveLoop(c, u)
  PROVE  /\ code' = c
         /\ \/ pc' = "save" /\ ~c.metrics.unsafe
            \/ pc' = "failed" /\ c.metrics.unsafe
<1>1. code' = c
  BY DEF LeaveLoop
<1>2. CASE ~u
  <2>1. pc' = "save"
    BY <1>2 DEF LeaveLoop
  <2> QED
    BY <1>1, <1>2, <2>1
<1>3. CASE u
  <2>1. IF c.metrics.unsafe THEN pc' = "failed" ELSE pc' = "save"
    BY <1>3 DEF LeaveLoop
  <2> QED
    BY <1>1, <2>1
<1> QED
  BY <1>2, <1>3

\* Judging a candidate with a report of it keeps report and code together.
LEMMA JudgingKeepsReport ==
  ASSUME NEW c, NEW r, r = NoReport \/ r.gen = c.gen, ReportIsOfCode, Judge(c, r)
  PROVE  /\ ReportIsOfCode' /\ pc' = "loop"
         /\ ~used' => code' = code /\ ~used
<1>1. CASE ShouldAdopt(code, c, report, r)
  BY <1>1 DEF Judge, Adopt, ReportIsOfCode, Await
<1>2. CASE ~ShouldAdopt(code, c, report, r)
  BY <1>2 DEF Judge, ReportIsOfCode, Await
<1> QED
  BY <1>1, <1>2

\* A run starts with nothing to judge.
LEMMA InitSafety == Init => SafetyInv
  BY DEF Init, SafetyInv, Vetted, SavedIsSafe, ReportIsOfCode, FailsOnlyOnUnsafeCode

\* Every step keeps what is saved safe and reported on.
LEMMA StepSafety == TypeInv /\ SafetyInv /\ [Next]_vars => SafetyInv'
<1> SUFFICES ASSUME TypeInv, SafetyInv, [Next]_vars PROVE SafetyInv'
  OBVIOUS
<1> USE DEF SafetyInv, Vetted, SavedIsSafe, ReportIsOfCode, FailsOnlyOnUnsafeCode
<1>0. /\ pc \in PC /\ used \in BOOLEAN
      /\ pc \notin {"stage1", "failed"} => code \in Code
      /\ code \in Code => code # NoCode /\ code.metrics.unsafe \in BOOLEAN
  BY CodesAreNotNoCode DEF TypeInv, TypeOK, Counts, Code, Metrics
<1>1. CASE Stage1Answers
  <2>1. pc' \in {"stage1qc", "stage2", "stage3", "validate"}
    BY <1>1 DEF Stage1Answers, AfterStage1, Await
  <2> QED
    BY <1>1, <2>1 DEF Stage1Answers
<1>2. CASE Stage1Fails
  BY <1>2 DEF Stage1Fails, TypeInv, Counts
<1>3. CASE Stage1QcReturns
  <2>1. pc' \in {"stage2", "stage3", "validate"}
    BY <1>3 DEF Stage1QcReturns, AfterStage1, Await
  <2> QED
    BY <1>3, <2>1 DEF Stage1QcReturns
<1>4. CASE StageAnswers
  <2>1. pc' \in {"stage3", "validate"}
    BY <1>4 DEF StageAnswers, AfterStage, Await
  <2> QED
    BY <1>4, <2>1 DEF StageAnswers
<1>5. CASE StageFallsBack
  <2>1. pc' \in {"stage3", "validate"}
    BY <1>5 DEF StageFallsBack, AfterStage, Await
  <2> QED
    BY <1>5, <2>1 DEF StageFallsBack
<1>6. CASE Validate
  <2>1. CASE code.metrics.unsafe
    BY <1>6, <2>1 DEF Validate
  <2>2. CASE ~code.metrics.unsafe
    BY <1>6, <2>2 DEF Validate, Await
  <2> QED
    BY <2>1, <2>2
<1>7. CASE FinalQcReturns
  <2>1. report' = NoReport \/ report'.gen = code.gen
    BY <1>0, <1>7, ReportsAreOfTheirCode DEF FinalQcReturns
  <2> QED
    BY <1>0, <1>7, <2>1 DEF FinalQcReturns, Await
<1>8. CASE LoopEnds
  <2>1. code \in Code /\ (used \/ ~code.metrics.unsafe)
    BY <1>0, <1>8 DEF LoopEnds
  <2>2. /\ code' = code
        /\ \/ pc' = "save" /\ ~code.metrics.unsafe
           \/ pc' = "failed" /\ code.metrics.unsafe
    BY <1>0, <1>8, <2>1, LeavingIsSafe DEF LoopEnds
  <2> QED
    BY <1>0, <1>8, <2>1, <2>2 DEF LoopEnds
<1>9. CASE Iterate
  <2>1. PICK c \in AutoFixes(code) \cup {code} :
          IF c # code /\ ~ShouldRetry(c, report)
          THEN LeaveLoop(c, TRUE) /\ UNCHANGED <<since, attempt>>
          ELSE IF ~FitsBudget
          THEN LeaveLoop(c, used) /\ UNCHANGED <<since, attempt>>
          ELSE /\ code' = c
               /\ attempt' = attempt + 1
               /\ Await("retry")
               /\ UNCHANGED <<used, validated>>
    BY <1>9 DEF Iterate
  <2>2. code \in Code /\ code.fixes < MaxIterations
    BY <1>0, <1>9, IterationsAreClamped
    DEF Iterate, IterationsLeft, TypeInv, TypeOK, Counts, Code
  <2>3. c \in Code /\ c.gen = code.gen /\ (c.metrics.unsafe => code.metrics.unsafe)
    BY <2>2, FixesAreCodes
  <2>4. c # NoCode /\ c.metrics.unsafe \in BOOLEAN /\ (used \/ ~c.metrics.unsafe)
    BY <1>0, <1>9, <2>3, CodesAreNotNoCode DEF Iterate, Code, Metrics
  <2>5. /\ code' = c
        /\ \/ pc' = "save" /\ ~c.metrics.unsafe
           \/ pc' = "failed" /\ c.metrics.unsafe
           \/ pc' = "retry" /\ used' = used
    <3>1. CASE LeaveLoop(c, TRUE)
      BY <2>3, <3>1, LeavingIsSafe
    <3>2. CASE LeaveLoop(c, used)
      BY <1>0, <2>3, <2>4, <3>2, LeavingIsSafe
    <3>3. CASE code' = c /\ Await("retry") /\ UNCHANGED used
      BY <3>3 DEF Await
    <3> QED
      BY <2>1, <3>1, <3>2, <3>3
  <2> QED
    BY <1>9, <2>3, <2>4, <2>5 DEF Iterate
<1>10. CASE RetryAnswers
  <2>1. CASE QcEnabled
    BY <1>10, <2>1 DEF RetryAnswers, Await
  <2>2. CASE ~QcEnabled
    <3>1. PICK c \in Answers : Judge(c, NoReport)
      BY <1>10, <2>2 DEF RetryAnswers
    <3>2. ReportIsOfCode' /\ pc' = "loop" /\ (~used' => code' = code /\ ~used)
      BY <3>1, JudgingKeepsReport
    <3> QED
      BY <1>10, <3>2 DEF RetryAnswers
  <2> QED
    BY <2>1, <2>2
<1>11. CASE RetryFails
  BY <1>11 DEF RetryFails, Await
<1>12. CASE RetryQcReturns
  <2>1. PICK r \in Reports(candidate) : Judge(candidate, r)
    BY <1>12 DEF RetryQcReturns
  <2>2. r = NoReport \/ r.gen = candidate.gen
    BY <1>12, ReportsAreOfTheirCode DEF RetryQcReturns, TypeInv, Counts
  <2>3. ReportIsOfCode' /\ pc' = "loop" /\ (~used' => code' = code /\ ~used)
    BY <2>1, <2>2, JudgingKeepsReport
  <2> QED
    BY <1>12, <2>3 DEF RetryQcReturns
<1>13. CASE Save
  BY <1>13 DEF Save
<1>14. CASE Tick
  BY <1>14 DEF Tick
<1>15. CASE UNCHANGED vars
  BY <1>15 DEF vars
<1> QED
  BY <1>1, <1>2, <1>3, <1>4, <1>5, <1>6, <1>7, <1>8, <1>9, <1>10, <1>11, <1>12,
     <1>13, <1>14, <1>15 DEF Next, Step, Stopped

\* The types and the safety invariant hold throughout a run.
LEMMA SafetyInvAlways == Spec => [](TypeInv /\ SafetyInv)
<1>1. Init => TypeInv /\ SafetyInv
  BY InitTypes, InitSafety
<1>2. TypeInv /\ SafetyInv /\ [Next]_vars => (TypeInv /\ SafetyInv)'
  BY StepTypes, StepSafety
<1> QED
  BY <1>1, <1>2, PTL DEF Spec

\* Only code that passes the security validation is saved.
THEOREM OnlySafeCodeIsSaved == Spec => []SavedIsSafe
<1>1. TypeInv /\ SafetyInv => SavedIsSafe
  BY DEF SafetyInv
<1> QED
  BY <1>1, SafetyInvAlways, PTL

\* The QC report kept is always one of the code kept.
THEOREM ReportsStayWithTheirCode == Spec => []ReportIsOfCode
<1>1. TypeInv /\ SafetyInv => ReportIsOfCode
  BY DEF SafetyInv
<1> QED
  BY <1>1, SafetyInvAlways, PTL

\* A run never fails while it holds a safe code.
THEOREM FailuresHaveUnsafeCode == Spec => []FailsOnlyOnUnsafeCode
<1>1. TypeInv /\ SafetyInv => FailsOnlyOnUnsafeCode
  BY DEF SafetyInv
<1> QED
  BY <1>1, SafetyInvAlways, PTL

-----------------------------------------------------------------------------
(* How far the validation that is saved is one of the code that is saved.  *)

\* Until the loop has used a result, the validation kept is one of the same
\* answer, whatever auto-fixes came after it; a result the loop has used is
\* saved with its own.
Covered ==
  /\ pc \in {"finalqc", "loop", "retry", "retryqc", "save", "saved"} /\ ~used
       => validated.gen = code.gen
  /\ pc \in {"save", "saved"} /\ used => validated = Name(code)

\* The loop leaves with a result that is covered,
LEMMA LeavingCovers ==
  ASSUME Covered, pc = "loop", NEW c, NEW u, c.gen = code.gen, u = TRUE \/ u = used,
         used \in BOOLEAN, LeaveLoop(c, u)
  PROVE  Covered'
<1>1. code' = c /\ used' = u /\ pc' \in {"save", "failed"}
  BY DEF LeaveLoop
<1>2. CASE u
  BY <1>1, <1>2 DEF LeaveLoop, Covered
<1>3. CASE ~u
  BY <1>1, <1>3 DEF LeaveLoop, Covered
<1> QED
  BY <1>2, <1>3

\* and the judgement of a candidate keeps the result covered.
LEMMA JudgingCovers ==
  ASSUME Covered, pc \in {"retry", "retryqc"}, NEW c, NEW r, Judge(c, r), validated' = validated
  PROVE  Covered'
<1>1. pc' = "loop" /\ (~used' => code' = code /\ ~used)
  <2>1. CASE ShouldAdopt(code, c, report, r)
    BY <2>1 DEF Judge, Adopt, Await
  <2>2. CASE ~ShouldAdopt(code, c, report, r)
    BY <2>2 DEF Judge, Await
  <2> QED
    BY <2>1, <2>2
<1> QED
  BY <1>1 DEF Covered

\* Every step keeps it covered.
LEMMA StepCovered == TypeInv /\ SafetyInv /\ Covered /\ [Next]_vars => Covered'
<1> SUFFICES ASSUME TypeInv, SafetyInv, Covered, [Next]_vars PROVE Covered'
  OBVIOUS
<1>0. pc \in PC /\ used \in BOOLEAN
  BY DEF TypeInv, TypeOK
<1>1. ASSUME pc' \notin {"finalqc", "loop", "retry", "retryqc", "save", "saved"} PROVE Covered'
  BY <1>1 DEF Covered
<1>2. CASE Stage1Answers \/ Stage1Fails \/ Stage1QcReturns \/ StageAnswers \/ StageFallsBack
  <2>1. pc' \in {"stage1qc", "stage2", "stage3", "validate", "failed"}
    BY <1>2 DEF Stage1Answers, Stage1Fails, Stage1QcReturns, StageAnswers, StageFallsBack,
       AfterStage1, AfterStage, Await
  <2> QED
    BY <1>1, <2>1
<1>3. CASE Validate
  <2>1. CASE code.metrics.unsafe
    BY <1>1, <1>3, <2>1 DEF Validate
  <2>2. CASE ~code.metrics.unsafe
    <3>1. pc' \in {"finalqc", "loop"} /\ validated' = Name(code) /\ code' = code
      BY <1>3, <2>2 DEF Validate, Await
    <3> QED
      BY <3>1 DEF Covered, Name
  <2> QED
    BY <2>1, <2>2
<1>4. CASE FinalQcReturns
  BY <1>4 DEF FinalQcReturns, Await, Covered
<1>5. CASE LoopEnds
  BY <1>0, <1>5, LeavingCovers DEF LoopEnds
<1>6. CASE Iterate
  <2>1. PICK c \in AutoFixes(code) \cup {code} :
          \/ LeaveLoop(c, TRUE)
          \/ LeaveLoop(c, used)
          \/ code' = c /\ Await("retry") /\ UNCHANGED <<used, validated>>
    BY <1>6 DEF Iterate
  <2>2. pc = "loop" /\ code \in Code /\ code.fixes < MaxIterations
    BY <1>0, <1>6, IterationsAreClamped
    DEF Iterate, IterationsLeft, TypeInv, TypeOK, Counts, Code
  <2>3. c.gen = code.gen
    BY <2>2, FixesAreCodes
  <2>4. CASE LeaveLoop(c, TRUE) \/ LeaveLoop(c, used)
    BY <1>0, <2>2, <2>3, <2>4, LeavingCovers
  <2>5. CASE code' = c /\ Await("retry") /\ UNCHANGED <<used, validated>>
    BY <2>2, <2>3, <2>5 DEF Await, Covered
  <2> QED
    BY <2>1, <2>4, <2>5
<1>7. CASE RetryAnswers
  <2>1. CASE QcEnabled
    BY <1>7, <2>1 DEF RetryAnswers, Await, Covered
  <2>2. CASE ~QcEnabled
    BY <1>7, <2>2, JudgingCovers DEF RetryAnswers
  <2> QED
    BY <2>1, <2>2
<1>8. CASE RetryFails
  BY <1>8 DEF RetryFails, Await, Covered
<1>9. CASE RetryQcReturns
  BY <1>9, JudgingCovers DEF RetryQcReturns
<1>10. CASE Save
  BY <1>10 DEF Save, Covered
<1>11. CASE Tick
  BY <1>11 DEF Tick, Covered
<1>12. CASE UNCHANGED vars
  BY <1>12 DEF vars, Covered, Name
<1> QED
  BY <1>2, <1>3, <1>4, <1>5, <1>6, <1>7, <1>8, <1>9, <1>10, <1>11, <1>12 DEF Next, Step, Stopped

\* The validation saved with a code is always one of the same AI answer, and
\* of the very code if the loop has used its result: what it may miss are
\* auto-fixes of a result that the loop did not use.
THEOREM ValidationIsOfSavedAnswer ==
  Spec => [](pc = "saved" => /\ validated.gen = code.gen
                             /\ used => validated = Name(code))
<1>1. Init => Covered
  BY DEF Init, Covered
<1>2. TypeInv /\ SafetyInv /\ Covered /\ [Next]_vars => Covered'
  BY StepCovered
<1>3. Covered => (pc = "saved" => /\ validated.gen = code.gen
                                  /\ used => validated = Name(code))
  BY DEF Covered, Name
<1> QED
  BY <1>1, <1>2, <1>3, SafetyInvAlways, PTL DEF Spec

\* So without a quality loop the validation saved is, as generationPipeline.ts
\* says, that of the code saved.
THEOREM ValidationIsOfSavedCodeWithoutLoop ==
  ASSUME MaxIterations = 0
  PROVE  Spec => []ValidationIsOfSavedCode
<1>1. TypeInv /\ (pc = "saved" => /\ validated.gen = code.gen
                                  /\ used => validated = Name(code))
        => ValidationIsOfSavedCode
  <2> SUFFICES ASSUME TypeInv, pc = "saved", validated.gen = code.gen
               PROVE  validated = Name(code)
    BY DEF ValidationIsOfSavedCode
  <2>1. validated \in [gen : 0..MaxAnswers, fixes : 0..MaxIterations] /\ code \in Code
    BY DEF TypeInv, TypeOK, Counts
  <2>2. validated.fixes = 0 /\ code.fixes = 0
    BY <2>1 DEF Code
  <2>3. validated = [gen |-> validated.gen, fixes |-> validated.fixes]
    BY <2>1
  <2> QED
    BY <2>2, <2>3 DEF Name
<1> QED
  BY <1>1, ValidationIsOfSavedAnswer, SafetyInvAlways, PTL

-----------------------------------------------------------------------------
(* Time.                                                                   *)

\* When the stages are over, at the latest.
StagesOverBy(t) == t <= stage1End + QcTimeout \/ t <= AbortAt + AbortLag

\* When a run is ready to save, at the latest.
ReadyBy(t) ==
  \/ t <= Budget + QcTimeout
  \/ t <= AbortAt + AbortLag + QcTimeout
  \/ t <= stage1End + 2 * QcTimeout

\* Each wait began early enough and has not outlived its deadline.
Timely ==
  /\ pc = "stage1qc" => since = stage1End /\ now <= since + QcTimeout
  /\ pc \in {"stage2", "stage3"} => StagesOverBy(since) /\ now <= Deadline(pc)
  /\ pc = "validate" => StagesOverBy(now)
  /\ pc = "finalqc" => StagesOverBy(since) /\ now <= since + QcTimeout
  /\ pc = "retry" => since + IterationTimeout <= Budget /\ now <= since + IterationTimeout
  /\ pc = "retryqc" => since <= Budget /\ now <= since + QcTimeout
  /\ pc \in {"loop", "save", "saved"} => ReadyBy(now)

\* A stage that is still awaited has not outlived the abort by more than the
\* back-off, unless it began after it.
LEMMA StageDeadline ==
  ASSUME pc \in {"stage2", "stage3"}, Timely, now \in Nat, since \in Nat, stage1End \in Nat
  PROVE  StagesOverBy(now)
  BY TimesAreNaturals DEF Timely, Deadline, StagesOverBy, AbortAt

\* A call that begins now is within its deadline.
LEMMA AwaitingStartsInTime ==
  ASSUME NEW l \in {"stage2", "stage3"}, Await(l), now' = now, now \in Nat
  PROVE  now' <= Deadline(l)'
  BY TimesAreNaturals DEF Await, Deadline, AbortAt

\* A run starts on time.
LEMMA InitTimely == Init => Timely
  BY DEF Init, Timely

\* Every step keeps the waits on time.
LEMMA StepTimely == TypeInv /\ Timely /\ [Next]_vars => Timely'
<1> SUFFICES ASSUME TypeInv, Timely, [Next]_vars PROVE Timely'
  OBVIOUS
<1>0. /\ now \in Nat /\ since \in Nat /\ stage1End \in Nat
      /\ Budget \in Nat /\ AbortAt \in Int /\ AbortLag \in Nat /\ QcTimeout \in Nat
      /\ IterationTimeout \in Nat /\ AbortAt <= Budget
  BY TimesAreNaturals DEF TypeInv, TypeOK, AbortAt
<1>1. CASE Stage1Answers
  <2>1. /\ stage1End' = now /\ now' = now
        /\ \/ Await("stage1qc") \/ Await("stage2") \/ Await("stage3") \/ Await("validate")
    BY <1>1 DEF Stage1Answers, AfterStage1
  <2>2. CASE Await("stage1qc")
    BY <1>0, <2>1, <2>2 DEF Await, Timely
  <2>3. CASE Await("validate")
    BY <1>0, <2>1, <2>3 DEF Await, Timely, StagesOverBy
  <2>4. ASSUME NEW l \in {"stage2", "stage3"}, Await(l) PROVE Timely'
    <3>1. now' <= Deadline(l)'
      BY <1>0, <2>1, <2>4, AwaitingStartsInTime
    <3> QED
      BY <1>0, <2>1, <2>4, <3>1 DEF Await, Timely, StagesOverBy
  <2> QED
    BY <2>1, <2>2, <2>3, <2>4
<1>2. CASE Stage1Fails
  BY <1>2 DEF Stage1Fails, Timely
<1>3. CASE Stage1QcReturns
  <2>1. /\ stage1End' = stage1End /\ now' = now /\ now <= stage1End + QcTimeout
        /\ \/ Await("stage2") \/ Await("stage3") \/ Await("validate")
    BY <1>3 DEF Stage1QcReturns, AfterStage1, Timely
  <2>2. CASE Await("validate")
    BY <1>0, <2>1, <2>2 DEF Await, Timely, StagesOverBy
  <2>3. ASSUME NEW l \in {"stage2", "stage3"}, Await(l) PROVE Timely'
    <3>1. now' <= Deadline(l)'
      BY <1>0, <2>1, <2>3, AwaitingStartsInTime
    <3> QED
      BY <1>0, <2>1, <2>3, <3>1 DEF Await, Timely, StagesOverBy
  <2> QED
    BY <2>1, <2>2, <2>3
<1>4. ASSUME StageAnswers \/ StageFallsBack PROVE Timely'
  <2>1. /\ StagesOverBy(now) /\ stage1End' = stage1End /\ now' = now
        /\ Await("stage3") \/ Await("validate")
    BY <1>0, <1>4, StageDeadline DEF StageAnswers, StageFallsBack, AfterStage
  <2>2. CASE Await("validate")
    BY <2>1, <2>2 DEF Await, Timely, StagesOverBy
  <2>3. CASE Await("stage3")
    <3>1. now' <= Deadline("stage3")'
      BY <1>0, <2>1, <2>3, AwaitingStartsInTime
    <3> QED
      BY <2>1, <2>3, <3>1 DEF Await, Timely, StagesOverBy
  <2> QED
    BY <2>1, <2>2, <2>3
<1>5. CASE Validate
  <2>1. StagesOverBy(now) /\ stage1End' = stage1End /\ now' = now
    BY <1>5 DEF Validate, Timely
  <2>2. \/ pc' = "failed"
        \/ Await("finalqc")
        \/ Await("loop")
    BY <1>5 DEF Validate
  <2> QED
    BY <1>0, <2>1, <2>2 DEF Await, Timely, StagesOverBy, ReadyBy
<1>6. CASE FinalQcReturns
  <2>1. ReadyBy(now)
    BY <1>0, <1>6 DEF FinalQcReturns, Timely, StagesOverBy, ReadyBy
  <2> QED
    BY <1>6, <2>1 DEF FinalQcReturns, Await, Timely, ReadyBy
<1>7. CASE LoopEnds
  <2>1. pc' \in {"save", "failed"} /\ ReadyBy(now)
    BY <1>7 DEF LoopEnds, LeaveLoop, Timely
  <2> QED
    BY <1>7, <2>1 DEF LoopEnds, Timely, ReadyBy
<1>8. CASE Iterate
  <2>1. /\ ReadyBy(now) /\ now' = now /\ stage1End' = stage1End
        /\ pc' \in {"save", "failed"} \/ (FitsBudget /\ Await("retry"))
    BY <1>8 DEF Iterate, LeaveLoop, Timely
  <2> QED
    BY <1>0, <2>1 DEF FitsBudget, Await, Timely, ReadyBy
<1>9. CASE RetryAnswers
  <2>1. /\ now <= Budget /\ now' = now /\ stage1End' = stage1End
        /\ Await("retryqc") \/ Await("loop")
    BY <1>0, <1>9 DEF RetryAnswers, Judge, Timely
  <2> QED
    BY <1>0, <2>1 DEF Await, Timely, ReadyBy
<1>10. CASE RetryFails
  BY <1>0, <1>10 DEF RetryFails, Await, Timely, ReadyBy
<1>11. CASE RetryQcReturns
  <2>1. /\ now <= Budget + QcTimeout /\ now' = now /\ stage1End' = stage1End
        /\ Await("loop")
    BY <1>0, <1>11 DEF RetryQcReturns, Judge, Timely
  <2> QED
    BY <2>1 DEF Await, Timely, ReadyBy
<1>12. CASE Save
  BY <1>12 DEF Save, Timely, ReadyBy
<1>13. CASE Tick
  <2>1. /\ now < Deadline(pc) /\ now' = now + 1
        /\ UNCHANGED <<pc, since, stage1End>>
    BY <1>13 DEF Tick
  <2>2. Deadline(pc)' = Deadline(pc) \/ pc \notin Awaiting
    BY <2>1 DEF Deadline, Awaiting
  <2>3. pc \in Awaiting /\ Deadline(pc) \in Int
    BY <1>0, <2>1, TimesAreNaturals DEF Deadline, Awaiting
  <2>4. now' <= Deadline(pc)
    BY <1>0, <2>1, <2>3
  <2> QED
    BY <1>0, <2>1, <2>2, <2>3, <2>4 DEF Timely, StagesOverBy, ReadyBy, Deadline, Awaiting
<1>14. CASE UNCHANGED vars
  BY <1>14 DEF vars, Timely, Deadline, StagesOverBy, ReadyBy
<1> QED
  BY <1>1, <1>2, <1>3, <1>4, <1>5, <1>6, <1>7, <1>8, <1>9, <1>10, <1>11, <1>12,
     <1>13, <1>14 DEF Next, Step, Stopped

\* However slow the AI and the browser are, a run is ready to save by its
\* budget and one QC check, the abort and a back-off and one QC check, or
\* two QC checks after Stage 1.
THEOREM RunsAreReadyInTime == Spec => []ReadyInTime
<1>1. Init => TypeInv /\ Timely
  BY InitTypes, InitTimely
<1>2. TypeInv /\ Timely /\ [Next]_vars => (TypeInv /\ Timely)'
  BY StepTypes, StepTimely
<1>3. TypeInv /\ Timely => ReadyInTime
  BY DEF Timely, ReadyBy, ReadyInTime
<1> QED
  BY <1>1, <1>2, <1>3, PTL DEF Spec
=============================================================================
