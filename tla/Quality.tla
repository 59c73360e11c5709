-------------------------------- MODULE Quality --------------------------------
(***************************************************************************)
(* How a generated page is measured and which of several versions the      *)
(* quality loop keeps: the static scores of codeValidator.ts, the fast     *)
(* browser report of renderingQc.ts and the retry and adoption rules of    *)
(* qualityLoop.ts.  Pipeline has the same loop with free scores, its time  *)
(* limits and what surrounds it; here the scores are the ones the code     *)
(* computes, so that a score is only reached by a page that has it.        *)
(*                                                                         *)
(* A code is the set of traits the validator's patterns find in it; its    *)
(* page is what a browser sees of it, which an external API and the        *)
(* network decide too.                                                     *)
(***************************************************************************)
EXTENDS Integers, FiniteSets, FiniteSetsExt

CONSTANTS
    Version,         \* the codes an AI may answer with, each a set of traits
    Rendering,       \* what a browser may see of a page
    QualityAtLeast,  \* QC_THRESHOLDS.QUALITY
    MobileAtLeast,   \* QC_THRESHOLDS.MOBILE
    Erasable,        \* traits that text an auto-fix deletes may give or take
    Strict,          \* QUALITY_LOOP_STRICT_ADOPTION
    Rounds           \* QUALITY_LOOP_MAX_ITERATIONS, after clamping

Bound == {"fetch", "json", "noPlaceholder"}
Structured == {"semantic", "footer", "imgAlt", "transitions", "korean", "grid"}
Interactive == {"domReady", "listeners"}
Mobile == {"responsive", "dense", "noFixedWidth", "imagesFit", "mobileNav"}
Trait == Bound \cup Structured \cup Interactive \cup Mobile \cup {"proxied", "noArrays"}

BlockingChecks == {"consoleErrors", "horizontalScroll", "footerVisible", "noLayoutOverlap"}
FastChecks == BlockingChecks \cup {"noRuntimePlaceholder"}

ASSUME QualityAssumption ==
    /\ Version \subseteq SUBSET Trait
    /\ Rendering \subseteq
         [errors : BOOLEAN, overflow : BOOLEAN, footer : {"none", "hidden", "shown"},
          overlap : BOOLEAN, placeholders : Nat, slow : SUBSET FastChecks]
    /\ {QualityAtLeast, MobileAtLeast} \subseteq Nat
    /\ Erasable \subseteq Trait
    /\ Strict \in BOOLEAN
    /\ Rounds \in 0..3

VARIABLES
    best,        \* state.parsed and state.qcReport: [code, report]
    retry,       \* retryParsed, while its QC runs; else NoVersion
    round,       \* attempt
    over,        \* the loop has returned
    replaced     \* history: every best version given up for a retry

qualityVars == <<best, retry, round, over, replaced>>

-----------------------------------------------------------------------------
(* evaluateQuality                                                         *)

(* Math.round of n / d, for n >= 0 and d > 0. *)
Rounded(n, d) == (2 * n + d) \div (2 * d)

Points(c, S) == Cardinality(c \cap S)

StructuralScore(c) ==
    Rounded(100 * (Points(c, Bound) + Points(c, Structured)
                   + Points(c, Interactive) + Points(c, Mobile)), 16)

MobileScore(c) == Rounded(100 * Points(c, Mobile), 5)

(* hasFunctionalIssue: no API call, a placeholder, a call that bypasses    *)
(* the proxy, or mock data.                                                *)
HasFunctionalIssue(c) == ~ {"fetch", "noPlaceholder", "proxied", "noArrays"} \subseteq c

-----------------------------------------------------------------------------
(* The fast browser report.                                                *)

Scored(ok, score) == [passed |-> ok, score |-> IF ok THEN 100 ELSE score]

CheckConsoleErrors(p) == Scored(~p.errors, 0)
CheckHorizontalScroll(p) == Scored(~p.overflow, 0)
CheckFooterVisible(p) == Scored(p.footer = "shown", IF p.footer = "hidden" THEN 50 ELSE 0)
CheckNoLayoutOverlap(p) == Scored(~p.overlap, 0)
CheckNoRuntimePlaceholder(p) ==
    Scored(p.placeholders = 0, IF p.placeholders < 4 THEN 100 - 25 * p.placeholders ELSE 0)

(* A check that does not settle within CHECK_MS counts as failed with 0;   *)
(* the console errors are at hand and are never late.                      *)
InTime(p, name, v) == IF name \in p.slow THEN Scored(FALSE, 0) ELSE v

FastResults(p) ==
    [name \in FastChecks |->
        CASE name = "consoleErrors" -> CheckConsoleErrors(p)
          [] name = "horizontalScroll" -> InTime(p, name, CheckHorizontalScroll(p))
          [] name = "footerVisible" -> InTime(p, name, CheckFooterVisible(p))
          [] name = "noLayoutOverlap" -> InTime(p, name, CheckNoLayoutOverlap(p))
          [] name = "noRuntimePlaceholder" -> InTime(p, name, CheckNoRuntimePlaceholder(p))]

(* QC_WEIGHTS *)
Weight(name) ==
    CASE name \in {"consoleErrors", "noRuntimePlaceholder", "networkActivity"} -> 3
      [] name \in {"horizontalScroll", "footerVisible", "interactiveBehavior",
                   "loadingStateDisappears"} -> 2
      [] OTHER -> 1

(* calculateWeightedScore *)
WeightedScore(results) ==
    Rounded(MapThenSumSet(LAMBDA n : results[n].score * Weight(n), DOMAIN results),
            MapThenSumSet(Weight, DOMAIN results))

NoFastReport == [overall |-> -1, blocked |-> FALSE]

(* runFastQc, of which the loop reads the overall score and whether a      *)
(* blocking check failed.                                                  *)
FastReport(p) ==
    LET results == FastResults(p)
    IN  [overall |-> WeightedScore(results),
         blocked |-> \E name \in BlockingChecks : ~results[name].passed]

(* Scores are weighted means of scores up to 100. *)
ASSUME ReportsAreScored == \A p \in Rendering : FastReport(p).overall \in 0..100

(* What QC may give: the report of some page, or none when the page cannot *)
(* be assembled, the browser fails or the time limit runs out.             *)
FastReports == {NoFastReport} \cup {FastReport(p) : p \in Rendering}

-----------------------------------------------------------------------------
(* The rules of the loop.                                                  *)

ShouldRetryGeneration(b) ==
    \/ StructuralScore(b.code) < QualityAtLeast
    \/ MobileScore(b.code) < MobileAtLeast
    \/ b.report.blocked
    \/ HasFunctionalIssue(b.code)

CodeImproved(a, b) ==
    LET structDelta == StructuralScore(b) - StructuralScore(a)
        mobileDelta == MobileScore(b) - MobileScore(a)
    IN  \/ HasFunctionalIssue(a) /\ ~HasFunctionalIssue(b)
        \/ IF Strict
           THEN (structDelta > 0 /\ mobileDelta >= 0) \/ (mobileDelta > 0 /\ structDelta >= 0)
           ELSE structDelta > 0 \/ mobileDelta > 0

QcImproved(q, r) == NoFastReport \notin {q, r} /\ r.overall > q.overall

ShouldAdoptRetry(b, c, r) == CodeImproved(b.code, c) \/ QcImproved(b.report, r)

(* applyAutoFix: it deletes placeholder words, of which some are not on    *)
(* its list and stay, and TODO comments to their end, with whatever the    *)
(* patterns of other traits found in them: an API call, a footer, a list   *)
(* of mock data.  So it may raise and lower the scores.                    *)
AutoFixed(c) ==
    {c} \cup {(c \ lost) \cup won : lost \in SUBSET Erasable,
                                   won \in SUBSET (Erasable \cup {"noPlaceholder"})}

-----------------------------------------------------------------------------
NoVersion == {"none"}

QualityInit ==
    /\ best \in [code : Version, report : FastReports]
    /\ retry = NoVersion
    /\ round = 0
    /\ over = FALSE
    /\ replaced = {}

Return == over' = TRUE

Adopt(b) == best' = b /\ replaced' = replaced \cup {best}

(* The head of the loop: it ends when the rounds are used up or nothing is *)
(* left to improve.                                                        *)
LoopEnds == round = Rounds \/ ~ShouldRetryGeneration(best)

LeaveLoop ==
    /\ ~over /\ retry = NoVersion
    /\ LoopEnds
    /\ Return
    /\ UNCHANGED <<best, retry, round, replaced>>

(* An iteration: the auto-fix overwrites the best version, for better or   *)
(* worse, while its report stays, and may resolve everything; else, within *)
(* the time budget, an AI answers with another version or does not answer  *)
(* in time.                                                                *)
BeginRound ==
    /\ ~over /\ retry = NoVersion
    /\ ~LoopEnds
    /\ \E c \in AutoFixed(best.code) :
         /\ best' = [best EXCEPT !.code = c]
         /\ \/ c # best.code /\ ~ShouldRetryGeneration(best') /\ Return
               /\ UNCHANGED <<retry, round>>
            \/ Return /\ UNCHANGED <<retry, round>>
            \/ round' = round + 1 /\ UNCHANGED <<retry, over>>
            \/ retry' \in Version /\ UNCHANGED <<round, over>>
    /\ UNCHANGED replaced

(* The candidate's QC is over and it is adopted, with its report, or not.  *)
JudgeRetry ==
    /\ retry # NoVersion
    /\ \E r \in FastReports :
         IF ShouldAdoptRetry(best, retry, r) THEN Adopt([code |-> retry, report |-> r])
         ELSE UNCHANGED <<best, replaced>>
    /\ retry' = NoVersion
    /\ round' = round + 1
    /\ UNCHANGED over

QualityNext == LeaveLoop \/ BeginRound \/ JudgeRetry

QualitySpec == QualityInit /\ [][QualityNext]_qualityVars

-----------------------------------------------------------------------------
(* Every variable has its type. *)
QualityTypeOK ==
    /\ best \in [code : SUBSET Trait, report : FastReports]
    /\ retry \in Version \cup {NoVersion}
    /\ round \in 0..Rounds
    /\ over \in BOOLEAN
    /\ replaced \subseteq [code : SUBSET Trait, report : FastReports]

(* b is at least as good as a in every measure the loop takes, and better  *)
(* in one; reports are compared when both are there.                       *)
Dominates(a, b) ==
    /\ StructuralScore(b.code) >= StructuralScore(a.code)
    /\ MobileScore(b.code) >= MobileScore(a.code)
    /\ HasFunctionalIssue(b.code) => HasFunctionalIssue(a.code)
    /\ NoFastReport \notin {a.report, b.report} /\ b.report.overall >= a.report.overall
    /\ \/ StructuralScore(b.code) > StructuralScore(a.code)
       \/ MobileScore(b.code) > MobileScore(a.code)
       \/ HasFunctionalIssue(a.code) /\ ~HasFunctionalIssue(b.code)
       \/ b.report.overall > a.report.overall

(* The loop returns the best version it has held: none it gave up for a    *)
(* retry is at least as good in every measure and better in one.           *)
ReturnsBest == over => \A b \in replaced : ~Dominates(best, b)
================================================================================
