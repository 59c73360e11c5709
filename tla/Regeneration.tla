----------------------------- MODULE Regeneration -----------------------------
(***************************************************************************)
(* The panel that changes a finished service by a prompt (RePromptPanel),  *)
(* on the page of a project or below the preview of the builder, with      *)
(* runClientRegeneration, the session it shares with no generation, and    *)
(* what the server keeps of a run: the lock, the tracker entry, the        *)
(* versions.  The project has a version before any run: where the tracker  *)
(* has lost a run, the status route answers with that one.                 *)
(*                                                                         *)
(* Stream and poll loop are ClientGeneration's, without their clock: here  *)
(* polling may give up whenever it waits.  One panel is shown at a time;   *)
(* a panel that has been closed is never shown again.                      *)
(***************************************************************************)
EXTENDS Integers, FiniteSets, FiniteSetsExt

CONSTANTS
    Service,     \* projects with a panel
    MaxRegen,    \* bound on the runs
    MaxNumber,   \* bound on the version numbers
    NoService    \* no panel is shown

ASSUME RegenerationAssumption ==
    NoService \notin Service /\ {MaxRegen, MaxNumber} \subseteq Nat \ {0}

VARIABLES
    panel,      \* its project, status and runIdRef
    regenSession, \* the run of currentController, 0 if none
    cut,        \* the runs whose own controller is aborted
    phase,      \* phase[i]: where runClientRegeneration is
    subject,    \* subject[i]: the project of run i
    events,     \* events[i]: what the client reads next from the response
    work,       \* work[i]: the pipeline of run i
    made,       \* made[i]: the version it saved, 0 if none
    numbers,    \* numbers[p]: the versions in the database
    reported,   \* reported[p]: the tracker entry
    announced,  \* the last version onRegenerationComplete was called with, and its project
    fresh,      \* history: the versions of the panel's project saved since its run began
    forgot      \* history: the panel's run, if it lost its tracker entry without having completed

regenClient == <<panel, regenSession, cut, phase, subject, announced>>
regenServer == <<work, made, numbers, reported, fresh, forgot>>
regenVars == <<regenClient, regenServer, events>>

Regen == 1..MaxRegen
Afoot == {"posting", "reading", "polling", "waiting"}
Nothing == [project |-> NoService, version |-> 0]
NoReport == [st |-> "none", version |-> 0]

NoPanel == [project |-> NoService, status |-> "idle", run |-> 0]

RegenerationInit ==
    /\ panel = NoPanel
    /\ regenSession = 0
    /\ cut = {}
    /\ phase = [i \in Regen |-> "unused"]
    /\ subject = [i \in Regen |-> NoService]
    /\ events = [i \in Regen |-> "none"]
    /\ work = [i \in Regen |-> "none"]
    /\ made = [i \in Regen |-> 0]
    /\ numbers = [p \in Service |-> {1}]
    /\ reported = [p \in Service |-> NoReport]
    /\ announced = Nothing
    /\ fresh = {} /\ forgot = {}

-----------------------------------------------------------------------------
(* The panel.                                                              *)

OpenPanel(p) ==
    /\ panel = NoPanel
    /\ panel' = [NoPanel EXCEPT !.project = p]
    /\ UNCHANGED <<regenSession, cut, phase, subject, announced, regenServer, events>>

(* What is remembered of the panel's run goes with it. *)
Forgetting == announced' = Nothing /\ fresh' = {} /\ forgot' = {}

(* Aborts the run the session belongs to. *)
Aborting == cut' = cut \cup ({regenSession} \ {0})

(* Unmounted: abortRegenerationSession. *)
ClosePanel ==
    /\ panel # NoPanel
    /\ panel' = NoPanel
    /\ Aborting
    /\ regenSession' = 0
    /\ Forgetting
    /\ UNCHANGED <<phase, subject, work, made, numbers, reported, events>>

Pressable == panel # NoPanel /\ panel.status \in {"idle", "error"}

(* fetchSuggestions, asked for or because the text is too short. *)
AskHints ==
    /\ Pressable
    /\ panel' = [panel EXCEPT !.status = "suggesting"]
    /\ UNCHANGED <<regenSession, cut, phase, subject, announced, regenServer, events>>

HintsArrive ==
    /\ panel # NoPanel /\ panel.status = "suggesting"
    /\ panel' = [panel EXCEPT !.status = "idle"]
    /\ UNCHANGED <<regenSession, cut, phase, subject, announced, regenServer, events>>

HandleReset ==
    /\ panel # NoPanel /\ panel.status = "done"
    /\ panel' = [panel EXCEPT !.status = "idle"]
    /\ UNCHANGED <<regenSession, cut, phase, subject, announced, regenServer, events>>

(* handleRegenerate, once the text is long enough or suggestions are shown, *)
(* and beginRegenerationSession.                                           *)
Regenerate(i) ==
    /\ phase[i] = "unused" /\ \A j \in Regen : j < i => phase[j] # "unused"
    /\ Pressable
    /\ panel' = [panel EXCEPT !.status = "generating", !.run = i]
    /\ Aborting
    /\ regenSession' = i
    /\ phase' = [phase EXCEPT ![i] = "posting"]
    /\ subject' = [subject EXCEPT ![i] = panel.project]
    /\ Forgetting
    /\ UNCHANGED <<work, made, numbers, reported, events>>

(* guardWrite lets run i through: it is the panel's, and not ended yet. *)
Shown(i) == panel.run = i /\ panel.status = "generating"

-----------------------------------------------------------------------------
(* runClientRegeneration.                                                  *)

Over(i) ==
    /\ phase' = [phase EXCEPT ![i] = "over"]
    /\ events' = [events EXCEPT ![i] = "none"]
    /\ UNCHANGED <<regenSession, subject>>

WriteComplete(i, v) ==
    /\ panel' = IF Shown(i) THEN [panel EXCEPT !.status = "done"] ELSE panel
    /\ announced' = IF Shown(i) THEN [project |-> subject[i], version |-> v] ELSE announced
    /\ Over(i)
    /\ UNCHANGED regenServer

WriteFail(i) ==
    /\ panel' = IF Shown(i) THEN [panel EXCEPT !.status = "error"] ELSE panel
    /\ Over(i)
    /\ UNCHANGED <<announced, regenServer>>

(* Refused, or no answer, or a stream that says error: the catch aborts    *)
(* the run's own controller, and reports.                                  *)
RegenFails(i) ==
    /\ i \notin cut
    /\ \/ phase[i] = "posting"
       \/ phase[i] = "reading" /\ events[i] = "error"
    /\ cut' = cut \cup {i}
    /\ WriteFail(i)

RegenOpens(i) ==
    /\ i \notin cut
    /\ phase[i] = "posting" /\ events[i] # "none"
    /\ phase' = [phase EXCEPT ![i] = "reading"]
    /\ UNCHANGED <<panel, regenSession, cut, subject, announced, regenServer, events>>

RegenReadsComplete(i) ==
    /\ i \notin cut
    /\ phase[i] = "reading" /\ events[i] = "complete"
    /\ cut' = cut \cup {i}
    /\ WriteComplete(i, made[i])

(* The stream ends without a verdict, or the page comes back to the front: *)
(* what was not read is lost, and polling begins.                          *)
RegenStreamCut(i) ==
    /\ i \notin cut
    /\ phase[i] = "reading"
    /\ phase' = [phase EXCEPT ![i] = "polling"]
    /\ events' = [events EXCEPT ![i] = "none"]
    /\ UNCHANGED <<panel, regenSession, cut, subject, announced, regenServer>>

(* The request, the read or the poll rejects, and nobody is told. *)
RegenAborted(i) ==
    /\ i \in cut /\ phase[i] \in Afoot
    /\ Over(i)
    /\ UNCHANGED <<panel, cut, announced, regenServer>>

(* The answer of the status route. *)
Told(p) ==
    IF reported[p] # NoReport THEN reported[p]
    ELSE [st |-> "completed", version |-> Max(numbers[p])]

PollTold(i) ==
    /\ i \notin cut /\ phase[i] = "polling"
    /\ \A j \in Regen : work[j] # "saved"    \* saving and reporting are one turn
    /\ UNCHANGED cut
    /\ LET answer == Told(subject[i]) IN
       CASE answer.st = "generating" ->
              /\ phase' = [phase EXCEPT ![i] = "waiting"]
              /\ UNCHANGED <<panel, regenSession, subject, announced, regenServer, events>>
         [] answer.st = "completed" -> WriteComplete(i, answer.version)
         [] OTHER -> WriteFail(i)

(* No answer: another attempt, or the last one, or an HTTP error. *)
PollUnanswered(i) ==
    /\ i \notin cut /\ phase[i] = "polling"
    /\ UNCHANGED cut
    /\ \/ /\ phase' = [phase EXCEPT ![i] = "waiting"]
          /\ UNCHANGED <<panel, regenSession, subject, announced, regenServer, events>>
       \/ WriteFail(i)

PollAfterDelay(i) ==
    /\ i \notin cut /\ phase[i] = "waiting"
    /\ UNCHANGED cut
    /\ \/ /\ phase' = [phase EXCEPT ![i] = "polling"]
          /\ UNCHANGED <<panel, regenSession, subject, announced, regenServer, events>>
       \/ WriteFail(i)

-----------------------------------------------------------------------------
(* The server.                                                             *)

Laboring(i) == work[i] \in {"running", "saved"}
Unmade(p) == {i \in Regen : subject[i] = p /\ work[i] \in {"running", "saved", "failed"}}

\* Mutant: an entry of an earlier run is kept.
RegenStarts_KeepsVerdict(i) ==
    /\ phase[i] # "unused" /\ work[i] = "none"
    /\ \A j \in Regen : subject[j] = subject[i] => ~Laboring(j)
    /\ work' = [work EXCEPT ![i] = "running"]
    /\ reported' = [reported EXCEPT ![subject[i]] =
                      IF @ = NoReport THEN [st |-> "generating", version |-> 0] ELSE @]
    /\ events' = [events EXCEPT ![i] = IF phase[i] = "posting" THEN "open" ELSE @]
    /\ UNCHANGED <<regenClient, made, numbers, fresh, forgot>>

(* The route has taken the lock, made the tracker entry anew and opened    *)
(* the stream, whose reader may have left.  (A dead run's lock is taken    *)
(* over; a refusal is not told from an answer that is lost.)               *)
RegenStarts(i) ==
    /\ phase[i] # "unused" /\ work[i] = "none"
    /\ \A j \in Regen : subject[j] = subject[i] => ~Laboring(j)
    /\ work' = [work EXCEPT ![i] = "running"]
    /\ reported' = [reported EXCEPT ![subject[i]] = [st |-> "generating", version |-> 0]]
    /\ events' = [events EXCEPT ![i] = IF phase[i] = "posting" THEN "open" ELSE @]
    /\ UNCHANGED <<regenClient, made, numbers, fresh, forgot>>

Entered(i, r) == reported' = [reported EXCEPT ![subject[i]] = IF @ = NoReport THEN @ ELSE r]

Sent(i, e) == events' = [events EXCEPT ![i] = IF @ = "open" THEN e ELSE @]

Saved(p, v) ==
    /\ numbers' = [numbers EXCEPT ![p] = @ \cup {v}]
    /\ fresh' = IF panel.project = p THEN fresh \cup {v} ELSE fresh

RegenSaves(i) ==
    /\ work[i] = "running"
    /\ LET v == Max(numbers[subject[i]]) + 1 IN
       /\ v <= MaxNumber
       /\ made' = [made EXCEPT ![i] = v]
       /\ Saved(subject[i], v)
    /\ work' = [work EXCEPT ![i] = "saved"]
    /\ UNCHANGED <<regenClient, reported, forgot, events>>

RegenCompletes(i) ==
    /\ work[i] = "saved"
    /\ work' = [work EXCEPT ![i] = "completed"]
    /\ Entered(i, [st |-> "completed", version |-> made[i]])
    /\ Sent(i, "complete")
    /\ UNCHANGED <<regenClient, made, numbers, fresh, forgot>>

(* A version that was saved is taken back, or stays if that fails too. *)
RegenBreaks(i) ==
    /\ Laboring(i)
    /\ work' = [work EXCEPT ![i] = "failed"]
    /\ numbers' \in {numbers, [numbers EXCEPT ![subject[i]] = @ \ {made[i]}]}
    /\ Entered(i, [st |-> "failed", version |-> 0])
    /\ Sent(i, "error")
    /\ UNCHANGED <<regenClient, made, fresh, forgot>>

(* The owner goes back to an older version, which becomes the newest. *)
RollBack(p) ==
    /\ Max(numbers[p]) < MaxNumber
    /\ Saved(p, Max(numbers[p]) + 1)
    /\ UNCHANGED <<regenClient, work, made, reported, forgot, events>>

Disconnects(i) ==
    /\ events[i] \in {"open", "complete", "error"}
    /\ events' = [events EXCEPT ![i] = "cut"]
    /\ UNCHANGED <<regenClient, regenServer>>

EntryLost(p) ==
    /\ reported[p] # NoReport
    /\ reported' = [reported EXCEPT ![p] = NoReport]
    /\ forgot' = forgot \cup (Unmade(p) \cap {panel.run})
    /\ UNCHANGED <<regenClient, work, made, numbers, fresh, events>>

ServerDies ==
    /\ \E i \in Regen : Laboring(i)
    /\ work' = [i \in Regen |-> IF Laboring(i) THEN "dead" ELSE work[i]]
    /\ forgot' = forgot \cup ((UNION {Unmade(p) : p \in Service}) \cap {panel.run})
    /\ reported' = [p \in Service |-> NoReport]
    /\ events' = [i \in Regen |-> IF events[i] = "open" THEN "cut" ELSE events[i]]
    /\ UNCHANGED <<regenClient, made, numbers, fresh>>

-----------------------------------------------------------------------------
RegenerationNext ==
    \/ \E p \in Service : OpenPanel(p) \/ RollBack(p) \/ EntryLost(p)
    \/ ClosePanel \/ AskHints \/ HintsArrive \/ HandleReset \/ ServerDies
    \/ \E i \in Regen :
         \/ Regenerate(i) \/ RegenFails(i) \/ RegenOpens(i) \/ RegenReadsComplete(i)
         \/ RegenStreamCut(i) \/ RegenAborted(i)
         \/ PollTold(i) \/ PollUnanswered(i) \/ PollAfterDelay(i)
         \/ RegenStarts(i) \/ RegenSaves(i) \/ RegenCompletes(i) \/ RegenBreaks(i)
         \/ Disconnects(i)

RegenerationSpec == RegenerationInit /\ [][RegenerationNext]_regenVars

(* Every variable has its type. *)
RegenerationTypeOK ==
    /\ panel \in [project : Service \cup {NoService},
                  status : {"idle", "suggesting", "generating", "done", "error"},
                  run : 0..MaxRegen]
    /\ regenSession \in 0..MaxRegen
    /\ cut \subseteq Regen /\ forgot \subseteq Regen /\ fresh \subseteq 1..MaxNumber
    /\ phase \in [Regen -> {"unused", "over"} \cup Afoot]
    /\ subject \in [Regen -> Service \cup {NoService}]
    /\ events \in [Regen -> {"none", "open", "complete", "error", "cut"}]
    /\ work \in [Regen -> {"none", "running", "saved", "completed", "failed", "dead"}]
    /\ made \in [Regen -> 0..MaxNumber]
    /\ numbers \in [Service -> SUBSET (1..MaxNumber)]
    /\ reported \in [Service -> [st : {"none", "generating", "completed", "failed"},
                                 version : 0..MaxNumber]]
    /\ announced \in [project : Service \cup {NoService}, version : 0..MaxNumber]

(* The panel turns its spinner exactly while one run that may still speak  *)
(* works for it, and what it calls done is a version saved since the       *)
(* button was pressed, whether stream, tracker or database said so.  (When *)
(* the tracker loses the entry of a run at work or failed, by a crash say, *)
(* the status route answers with the newest version before it, and the     *)
(* panel calls that done.)                                                 *)
PanelTellsTheTruth ==
    /\ \A i \in Regen : phase[i] \in Afoot /\ i \notin cut <=> Shown(i)
    /\ panel.status = "done" =>
         /\ announced.project = panel.project
         /\ panel.run \notin forgot => announced.version \in fresh
===============================================================================
