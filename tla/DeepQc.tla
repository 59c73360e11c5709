-------------------------------- MODULE DeepQc --------------------------------
(***************************************************************************)
(* The deep browser check of a saved code (runDeepQc in renderingQc.ts, the *)
(* checks of qcChecks.ts, and deepQcRunner.ts that starts it and stores    *)
(* its report): a page is loaded, seven checks read it at the width of a   *)
(* phone, one changes the width, two act on it.  Every check races a limit *)
(* of its own and the whole run races another; what loses a race is not    *)
(* stopped but goes on in the background.                                  *)
(*                                                                         *)
(* A page is what the checks can see of it.  Time is counted in units of   *)
(* CHECK_MS or a part of it.                                               *)
(***************************************************************************)
EXTENDS Quality

CONSTANTS
    DeepPage,      \* the pages to check
    FixedChecks,   \* the checks of the first step that the model runs
    CheckLimit,    \* QC_CHECK_TIMEOUT_MS
    ContentLimit,  \* QC_DEEP_CONTENT_TIMEOUT_MS
    DeepLimit,     \* QC_DEEP_TIMEOUT_MS
    ClickWait,     \* 1.5 s: checkInteractiveBehavior after it clicked a button
    TabWait,       \* 0.8 s: the same after a tab
    SkeletonWait   \* 3 s: checkLoadingStateDisappears, when it sees a skeleton

Widths == {375, 768, 1280}
ActingChecks == {"interactiveBehavior", "loadingStateDisappears"}
PageChecks == {"horizontalScroll", "footerVisible", "noLayoutOverlap", "imageLoading",
               "touchTargets", "accessibility", "noRuntimePlaceholder"}
Breakpoints == "responsiveBreakpoints"
DeepChecks == FixedChecks \cup ActingChecks \cup {Breakpoints}

ASSUME DeepQcAssumption ==
    /\ FixedChecks \subseteq PageChecks
    /\ {CheckLimit, ContentLimit, DeepLimit} \subseteq Nat \ {0}
    /\ {ClickWait, TabWait, SkeletonWait} \subseteq Nat

VARIABLES
    deepPage,     \* the page under test
    stage,        \* the step of runDeepQcInternal
    deepClock,    \* time since the run began
    stageBegan,   \* when the present step began
    width,        \* of the viewport
    open,         \* checks of the present step that have neither settled nor lost
    going,        \* checks that run, the late ones of earlier steps among them
    readAt,       \* history: the widths the page had while a check ran
    results,      \* the settled results of the run
    given,        \* what the caller of runDeepQc got: "pending", "report" or "null"
    codeRow,      \* the saved code has a row
    stored        \* the results its metadata show

deepVars == <<deepPage, stage, deepClock, stageBegan, width, open, going, readAt, results,
              given, codeRow, stored>>

-----------------------------------------------------------------------------
(* The checks: what each finds when it is not late.                        *)

(* The share of a page's n parts that are not bad, all when there is none. *)
Share(n, bad) ==
    [passed |-> bad = 0, score |-> IF n = 0 THEN 100 ELSE Rounded(100 * (n - bad), n)]

CheckImageLoading(p) == Share(p.images, p.broken)
CheckTouchTargets(p) == Share(p.targets, p.small)
CheckResponsiveBreakpoints(p) == Share(3, Cardinality(p.overflowAt))

CheckNetworkActivity(p) == Scored(p.requests, 20)

(* Two of its three parts decide whether it passes, all three the score.   *)
CheckAccessibility(p) ==
    [passed |-> p.h1 /\ p.main,
     score |-> Rounded(100 * Cardinality({f \in {"h1", "main", "ordered"} : p[f]}), 3)]

(* The input with its button and the tabs, each absent, dead or working.   *)
CheckInteractiveBehavior(p) ==
    LET working == {part \in {"input", "tabs"} : p[part] = "works"}
        found   == {part \in {"input", "tabs"} : p[part] # "none"}
    IN  [passed |-> working = found,
         score |-> CASE found = {} -> 70
                     [] Cardinality(found) = 2 /\ working = found -> 100
                     [] Cardinality(found) = 1 /\ working = found -> 80
                     [] Cardinality(found) = 2 /\ working = {} -> 0
                     [] OTHER -> 40]

CheckLoadingStateDisappears(p) == Scored(p.skeleton # "stays", 40)

Finding(c, p) ==
    CASE c = "horizontalScroll" -> Scored(375 \notin p.overflowAt, 0)
      [] c = "footerVisible" -> CheckFooterVisible(p)
      [] c = "noLayoutOverlap" -> CheckNoLayoutOverlap(p)
      [] c = "imageLoading" -> CheckImageLoading(p)
      [] c = "touchTargets" -> CheckTouchTargets(p)
      [] c = "accessibility" -> CheckAccessibility(p)
      [] c = "noRuntimePlaceholder" -> CheckNoRuntimePlaceholder(p)
      [] c = Breakpoints -> CheckResponsiveBreakpoints(p)
      [] c = "interactiveBehavior" -> CheckInteractiveBehavior(p)
      [] c = "loadingStateDisappears" -> CheckLoadingStateDisappears(p)

(* How long a check waits by itself at least, whatever the browser does.   *)
(* An input or a tab counts as dead with no wait when its button is absent *)
(* or not visible, or the click fails.                                     *)
OwnWait(c, p) ==
    CASE c = "interactiveBehavior" ->
           (IF p.input = "works" THEN ClickWait ELSE 0) + (IF p.tabs = "works" THEN TabWait ELSE 0)
      [] c = "loadingStateDisappears" /\ p.skeleton # "none" -> SkeletonWait
      [] OTHER -> 0

-----------------------------------------------------------------------------
DeepInit ==
    /\ deepPage \in DeepPage
    /\ stage = "content"
    /\ deepClock = 0 /\ stageBegan = 0
    /\ width = 375
    /\ open = {} /\ going = {}
    /\ readAt = [c \in DeepChecks |-> {}]
    /\ results = <<>>
    /\ given = "pending"
    /\ codeRow = TRUE
    /\ stored = <<>>

Elapsed == deepClock - stageBegan

(* A step of the run begins: its checks start at the present width. *)
Launch(s, S) ==
    /\ stage' = s
    /\ stageBegan' = deepClock
    /\ open' = S
    /\ going' = going \cup S
    /\ readAt' = [c \in DeepChecks |-> IF c \in S THEN {width} ELSE readAt[c]]

(* The caller is given v, once: what comes after the time limit is dropped. *)
Give(v) == given' = IF given = "pending" THEN v ELSE given

(* The page is closed, and what still runs on it ends. *)
ClosePage == stage' = "ended" /\ open' = {} /\ going' = {}

(* No browser, no free page, or the content does not load. *)
PageFails ==
    /\ stage = "content"
    /\ ClosePage
    /\ Give("null")
    /\ UNCHANGED <<deepPage, deepClock, stageBegan, width, readAt, results, codeRow, stored>>

ContentLoads ==
    /\ stage = "content"
    /\ Launch("fixed", FixedChecks)
    /\ UNCHANGED <<deepPage, deepClock, width, results, given, codeRow, stored>>

(* A result joins the others, in place of one of the same check.           *)
Joined(f, c, r) == [d \in DOMAIN f \cup {c} |-> IF d = c THEN r ELSE f[d]]

(* A check has its finding, no sooner than its own waits allow; it counts  *)
(* if its limit has not run out.                                           *)
Recorded_Late(c) == TRUE
Recorded(c) == c \in open

Settle(c) ==
    /\ c \in going
    /\ OwnWait(c, deepPage) > 0 => Elapsed > OwnWait(c, deepPage)
    /\ c = Breakpoints => width = 1280
    /\ going' = going \ {c}
    /\ open' = open \ {c}
    /\ results' = IF Recorded(c)
                  THEN Joined(results, c, [verdict |-> Finding(c, deepPage), at |-> readAt[c]])
                  ELSE results
    /\ UNCHANGED <<deepPage, stage, deepClock, stageBegan, width, readAt, given, codeRow, stored>>

(* The result of a check that has found nothing out. *)
Failed == [verdict |-> Scored(FALSE, 0), at |-> {}]

(* The browser refuses what the check asks of it: it has failed, at once,  *)
(* and the breakpoints leave the page at the width they came to.           *)
CheckThrows(c) ==
    /\ c \in going
    /\ going' = going \ {c}
    /\ open' = open \ {c}
    /\ results' = IF Recorded(c) THEN Joined(results, c, Failed) ELSE results
    /\ UNCHANGED <<deepPage, stage, deepClock, stageBegan, width, readAt, given, codeRow, stored>>

(* Its limit runs out first: it counts as failed, and goes on. *)
RunLate(c) ==
    /\ c \in open
    /\ Elapsed >= CheckLimit
    /\ open' = open \ {c}
    /\ results' = Joined(results, c, Failed)
    /\ UNCHANGED <<deepPage, stage, deepClock, stageBegan, width, going, readAt, given, codeRow,
                   stored>>

(* checkResponsiveBreakpoints sets the next width, under whatever runs. *)
SetWidth ==
    /\ Breakpoints \in going
    /\ width < 1280
    /\ width' = IF width = 375 THEN 768 ELSE 1280
    /\ readAt' = [c \in DeepChecks |->
                     IF c \in going THEN readAt[c] \cup {width'} ELSE readAt[c]]
    /\ UNCHANGED <<deepPage, stage, deepClock, stageBegan, open, going, results, given, codeRow,
                   stored>>

(* A step ends when each of its checks has settled or lost. *)
StepOver == open = {}

NextStep ==
    /\ StepOver
    /\ \/ stage = "fixed" /\ Launch("breakpoints", {Breakpoints})
       \/ stage = "breakpoints" /\ Launch("acting", ActingChecks)
    /\ UNCHANGED <<deepPage, deepClock, width, results, given, codeRow, stored>>

(* The console errors and the requests, collected all along, join the      *)
(* results; the report is built and the page closed.  If the caller still  *)
(* waits, it announces the report and merges it into the code's metadata,  *)
(* if the code is still there.                                             *)
Collected ==
    Joined(Joined(results, "consoleErrors", [verdict |-> CheckConsoleErrors(deepPage), at |-> {}]),
           "networkActivity", [verdict |-> CheckNetworkActivity(deepPage), at |-> {}])

Finish ==
    /\ stage = "acting"
    /\ open = {}
    /\ ClosePage
    /\ Give("report")
    /\ results' = Collected
    /\ stored' = IF given = "pending" /\ codeRow THEN results' ELSE stored
    /\ UNCHANGED <<deepPage, deepClock, stageBegan, width, readAt, codeRow>>

(* The whole run's limit: the caller gets nothing. *)
DeepTimesOut ==
    /\ given = "pending"
    /\ deepClock >= DeepLimit
    /\ given' = "null"
    /\ UNCHANGED <<deepPage, stage, deepClock, stageBegan, width, open, going, readAt, results,
                   codeRow, stored>>

(* The code's row goes: pruned for newer versions, or with its project. *)
CodeGoes ==
    /\ codeRow
    /\ codeRow' = FALSE
    /\ UNCHANGED <<deepPage, stage, deepClock, stageBegan, width, open, going, readAt, results,
                   given, stored>>

(* Timers are prompt, and a step whose checks are over ends at once. *)
DeepTick ==
    /\ \/ stage = "content" /\ deepClock < ContentLimit
       \/ open # {} /\ Elapsed < CheckLimit
    /\ given = "pending" => deepClock < DeepLimit
    /\ deepClock' = deepClock + 1
    /\ UNCHANGED <<deepPage, stage, stageBegan, width, open, going, readAt, results, given,
                   codeRow, stored>>

DeepNext ==
    \/ PageFails \/ ContentLoads
    \/ \E c \in DeepChecks : Settle(c) \/ CheckThrows(c) \/ RunLate(c)
    \/ SetWidth \/ NextStep \/ Finish \/ DeepTimesOut \/ CodeGoes \/ DeepTick

DeepSpec == DeepInit /\ [][DeepNext]_deepVars

-----------------------------------------------------------------------------
(* Every variable has its type. *)
DeepTypeOK ==
    /\ deepPage \in DeepPage
    /\ stage \in {"content", "fixed", "breakpoints", "acting", "ended"}
    /\ deepClock \in 0..(ContentLimit + 3 * CheckLimit)
    /\ stageBegan \in 0..deepClock
    /\ width \in Widths
    /\ open \subseteq going /\ going \subseteq DeepChecks
    /\ readAt \in [DeepChecks -> SUBSET Widths]
    /\ given \in {"pending", "report", "null"}
    /\ codeRow \in BOOLEAN

(* Checks that lost their race go on under those of the next step, and the *)
(* widths change under them; even so, what the metadata show of a check    *)
(* that read the page at a phone's width was read at that width alone, and *)
(* the breakpoints at all three, unless the check has failed unread.       *)
ReadAtItsWidth ==
    stored # <<>> =>
        /\ \A c \in FixedChecks : stored[c].at \subseteq {375}
        /\ Breakpoints \in DOMAIN stored /\ stored[Breakpoints].at \in {{}, Widths}
================================================================================
