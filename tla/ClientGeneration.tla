--------------------------- MODULE ClientGeneration ---------------------------
(***************************************************************************)
(* The builder page's side of a generation: create a project, ask the      *)
(* server to generate, read its event stream, and poll the status route    *)
(* when the stream is cut or the page comes back to the foreground.  The   *)
(* result is shown by one store for the whole page, while a run that the   *)
(* user has abandoned may go on for minutes behind it.                     *)
(*                                                                         *)
(* Every run has a project of its own, so the server's state is kept per   *)
(* run.  The server's pipeline is the outcome that Generation and Pipeline *)
(* give it.  Time counts in polling intervals.                             *)
(***************************************************************************)
EXTENDS Integers, FiniteSets

CONSTANTS
  Run,          \* calls of runClientGeneration, each made at most once
  None,         \* no run
  MaxAttempts,  \* maxAttempts of the poll loop
  ServerTime    \* intervals within which a pipeline gives its verdict

ASSUME NoneIsNoRun == None \notin Run
ASSUME BoundsAreNaturals == MaxAttempts \in Nat \ {0} /\ ServerTime \in Nat

VARIABLES
  \* The page.
  status,    \* generationStore.status
  current,   \* generationStore.runId, or None
  session,   \* the run that currentController belongs to, or None
  selected,  \* the builder's context and APIs: "nothing" yet, "made" (chosen),
             \* or "cleared" by a completion, which leaves the page at its step
  \* The runs.
  pc,        \* pc[r]: where the run is
  aborted,   \* the runs whose local controller is aborted
  attempt,   \* attempt[r]: poll requests that have been answered
  outcome,   \* outcome[r]: how the run ended (history)
  \* The server, per run.
  job,       \* job[r]: the pipeline
  entry,     \* entry[r]: the tracker entry
  coded,     \* the runs whose project has a code
  stream,    \* stream[r]: what the client reads next from the response
  elapsed    \* elapsed[r]: intervals since the pipeline started, 0 once it ended

page == <<status, current, session, selected>>
client == <<pc, aborted, attempt, outcome>>
server == <<job, entry, coded, elapsed>>
vars == <<page, client, server, stream>>

Status == {"idle", "generating", "completed", "failed"}
Polling == {"polling", "waiting", "due"}
Alive == {"creating", "refused", "requesting", "streaming"} \cup Polling
Working == {"running", "saved"}
Outcome == {"none", "completed", "failed", "exhausted", "silent"}

Init ==
  /\ status = "idle"
  /\ current = None
  /\ session = None
  /\ selected = "nothing"
  /\ pc = [r \in Run |-> "idle"]
  /\ aborted = {}
  /\ attempt = [r \in Run |-> 0]
  /\ outcome = [r \in Run |-> "none"]
  /\ job = [r \in Run |-> "none"]
  /\ entry = [r \in Run |-> "none"]
  /\ coded = {}
  /\ stream = [r \in Run |-> "none"]
  /\ elapsed = [r \in Run |-> 0]

-----------------------------------------------------------------------------
(* generationStore: only the run on display may end it, and only once.     *)

Displayed(r) == status = "generating" /\ current = r

\* Mutant: without the runId guard.
Report_AnyRun(r, s) ==
  status' = IF status = "generating" THEN s ELSE status

\* completeGeneration and failGeneration.
Report(r, s) == status' = IF Displayed(r) THEN s ELSE status

\* The run returns after a terminal callback, or silently.
Return(r, how) ==
  /\ pc' = [pc EXCEPT ![r] = "done"]
  /\ outcome' = [outcome EXCEPT ![r] = how]
  /\ attempt' = [attempt EXCEPT ![r] = 0]
  /\ stream' = [stream EXCEPT ![r] = "none"]

\* Mutant: the catch aborts the page's session instead of its own run.
Fail_AbortsSession(r) ==
  /\ aborted' = aborted \cup ({session} \ {None})
  /\ Report(r, "failed")
  /\ Return(r, "failed")
  /\ UNCHANGED <<current, session, selected>>

\* runClientGeneration's catch: stop the own poller, report.
Fail(r) ==
  /\ aborted' = aborted \cup {r}
  /\ Report(r, "failed")
  /\ Return(r, "failed")
  /\ UNCHANGED <<current, session, selected>>

\* completeGeneration, then onCompleted, which asks nobody.
Complete(r) ==
  /\ Report(r, "completed")
  /\ selected' = IF selected = "made" THEN "cleared" ELSE selected
  /\ Return(r, "completed")
  /\ UNCHANGED <<current, session>>

-----------------------------------------------------------------------------
(* What the user does.                                                     *)

Select ==
  /\ selected' = "made"
  /\ UNCHANGED <<status, current, session, client, server, stream>>

\* Aborting a session aborts the controller of the run that opened it.
AbortSession == aborted' = aborted \cup ({session} \ {None})

\* beginGenerationSession.
BeginSession(r) == session' = r /\ AbortSession

\* Generate, or retry after a failure.  The button of the last step is there
\* although a completion has cleared the selection; such a run is refused.
Start(r) ==
  /\ pc[r] = "idle"
  /\ selected # "nothing"
  /\ status \in {"idle", "failed"}
  /\ BeginSession(r)
  /\ status' = "generating"
  /\ current' = r
  /\ pc' = [pc EXCEPT ![r] = IF selected = "made" THEN "creating" ELSE "refused"]
  /\ UNCHANGED <<selected, attempt, outcome, server, stream>>

\* "Generate anew" on the page of a finished generation.
ClearResult ==
  /\ status = "completed"
  /\ status' = "idle"
  /\ current' = None
  /\ UNCHANGED <<session, selected, client, server, stream>>

\* handleResetMode: back to the choice of mode, even while generating.
LeaveMode ==
  /\ selected' = "nothing"
  /\ AbortSession
  /\ session' = None
  /\ status' = "idle"
  /\ current' = None
  /\ UNCHANGED <<pc, attempt, outcome, server, stream>>

-----------------------------------------------------------------------------
(* The two requests; neither carries the signal.                           *)

ProjectCreated(r) ==
  /\ pc[r] = "creating"
  /\ pc' = [pc EXCEPT ![r] = "requesting"]
  /\ UNCHANGED <<page, aborted, attempt, outcome, server, stream>>

StreamOpens(r) ==
  /\ pc[r] = "requesting"
  /\ stream[r] # "none"
  /\ pc' = [pc EXCEPT ![r] = "streaming"]
  /\ UNCHANGED <<page, aborted, attempt, outcome, server, stream>>

\* Refused, or no answer; the server may have started all the same.
RequestFails(r) ==
  /\ pc[r] \in {"creating", "refused", "requesting"}
  /\ Fail(r)
  /\ UNCHANGED server

-----------------------------------------------------------------------------
(* consumeGenerationStream.                                                *)

ReadComplete(r) ==
  /\ pc[r] = "streaming"
  /\ stream[r] = "complete"
  /\ aborted' = aborted \cup {r}
  /\ Complete(r)
  /\ UNCHANGED server

ReadError(r) ==
  /\ pc[r] = "streaming"
  /\ stream[r] = "error"
  /\ Fail(r)
  /\ UNCHANGED server

\* Polling starts for the runs of S, or ends at once under an aborted signal.
HandOff(S) ==
  /\ pc' = [r \in Run |-> IF r \notin S THEN pc[r]
                          ELSE IF r \in aborted THEN "done" ELSE "polling"]
  /\ outcome' = [r \in Run |-> IF r \in S \cap aborted THEN "silent" ELSE outcome[r]]
  /\ stream' = [r \in Run |-> IF r \in S THEN "none" ELSE stream[r]]
  /\ UNCHANGED <<page, aborted, attempt>>

\* The stream ended without a verdict, or the read failed.
StreamCut(r) ==
  /\ pc[r] = "streaming"
  /\ stream[r] = "cut"
  /\ HandOff({r})
  /\ UNCHANGED server

\* visibilitychange: every stream that is being read is cancelled.
Foreground ==
  /\ \E r \in Run : pc[r] = "streaming"
  /\ HandOff({r \in Run : pc[r] = "streaming"})
  /\ UNCHANGED server

-----------------------------------------------------------------------------
(* pollGenerationStatus.                                                   *)

\* Nobody is between saving a code and reporting it.
ServerAnswers == \A r \in Run : job[r] # "saved"

\* Mutant: an entry that is gone counts as completed.
Answer_AssumesCode(r) == IF entry[r] # "none" THEN entry[r] ELSE "completed"

\* The status route: the tracker's entry, else what the database knows.
Answer(r) ==
  IF entry[r] # "none" THEN entry[r]
  ELSE IF r \in coded THEN "completed" ELSE "not_found"

\* An answer that counts: the signal is checked after every await.
Answered(r) ==
  /\ pc[r] = "polling"
  /\ r \notin aborted
  /\ ServerAnswers

PollAgain(r) ==
  /\ pc' = [pc EXCEPT ![r] = "waiting"]
  /\ attempt' = [attempt EXCEPT ![r] = @ + 1]
  /\ UNCHANGED <<page, aborted, outcome, server, stream>>

PollGenerating(r) ==
  /\ Answered(r)
  /\ Answer(r) = "generating"
  /\ PollAgain(r)

PollCompleted(r) ==
  /\ Answered(r)
  /\ Answer(r) = "completed"
  /\ Complete(r)
  /\ UNCHANGED <<aborted, server>>

\* failGeneration from the poll loop; the controller is left alone.
PollReports(r, how) ==
  /\ Report(r, "failed")
  /\ Return(r, how)
  /\ UNCHANGED <<current, session, selected, aborted, server>>

PollFailed(r) ==
  /\ Answered(r)
  /\ Answer(r) \in {"failed", "not_found"}
  /\ PollReports(r, "failed")

\* An HTTP error breaks out of the loop.
PollRefused(r) ==
  /\ Answered(r)
  /\ PollReports(r, "failed")

\* Mutant: an error ends the loop as if it were the last attempt.
PollThrows_GivesUp(r) ==
  /\ pc[r] = "polling"
  /\ r \notin aborted
  /\ PollReports(r, "exhausted")

\* No answer at all.
PollThrows(r) ==
  /\ pc[r] = "polling"
  /\ r \notin aborted
  /\ \/ attempt[r] + 1 < MaxAttempts /\ PollAgain(r)
     \/ attempt[r] + 1 >= MaxAttempts /\ PollReports(r, "exhausted")

\* The delay is over: next attempt, or the loop's end.
PollDue(r) ==
  /\ pc[r] = "due"
  /\ r \notin aborted
  /\ \/ /\ attempt[r] < MaxAttempts
        /\ pc' = [pc EXCEPT ![r] = "polling"]
        /\ UNCHANGED <<page, aborted, attempt, outcome, server, stream>>
     \/ attempt[r] >= MaxAttempts /\ PollReports(r, "exhausted")

\* An aborted poller returns without a word, after its delay if it is in one.
PollAborted(r) ==
  /\ pc[r] \in {"polling", "due"}
  /\ r \in aborted
  /\ Return(r, "silent")
  /\ UNCHANGED <<page, aborted, server>>

-----------------------------------------------------------------------------
(* The server.                                                             *)

\* The route has locked the project and answers with a stream.
ServerStarts(r) ==
  /\ pc[r] = "requesting"
  /\ job[r] = "none"
  /\ job' = [job EXCEPT ![r] = "running"]
  /\ entry' = [entry EXCEPT ![r] = "generating"]
  /\ stream' = [stream EXCEPT ![r] = "open"]
  /\ UNCHANGED <<page, client, coded, elapsed>>

\* The pipeline is over.
End(r, how) ==
  /\ job' = [job EXCEPT ![r] = how]
  /\ elapsed' = [elapsed EXCEPT ![r] = 0]

\* An event reaches the stream if it is still open.
SendLast(r, e) == stream' = [stream EXCEPT ![r] = IF @ = "open" THEN e ELSE @]

\* A tracker entry that is gone is not made anew.
Track(r, s) == entry' = [entry EXCEPT ![r] = IF @ = "none" THEN @ ELSE s]

ServerSaves(r) ==
  /\ job[r] = "running"
  /\ job' = [job EXCEPT ![r] = "saved"]
  /\ coded' = coded \cup {r}
  /\ UNCHANGED <<page, client, entry, stream, elapsed>>

ServerCompletes(r) ==
  /\ job[r] = "saved"
  /\ End(r, "completed")
  /\ Track(r, "completed")
  /\ SendLast(r, "complete")
  /\ UNCHANGED <<page, client, coded>>

\* A failed save takes its code back, or fails to.
ServerFails(r) ==
  /\ job[r] \in Working
  /\ End(r, "failed")
  /\ coded' \in {coded, coded \ {r}}
  /\ Track(r, "failed")
  /\ SendLast(r, "error")
  /\ UNCHANGED <<page, client>>

\* The entry falls out of the tracker.
Evict(r) ==
  /\ entry[r] # "none"
  /\ entry' = [entry EXCEPT ![r] = "none"]
  /\ UNCHANGED <<page, client, job, coded, stream, elapsed>>

\* The connection is lost with everything that was not read yet.
Disconnect(r) ==
  /\ stream[r] \in {"open", "complete", "error"}
  /\ stream' = [stream EXCEPT ![r] = "cut"]
  /\ UNCHANGED <<page, client, server>>

Crash ==
  /\ \E r \in Run : job[r] \in Working \/ entry[r] # "none"
  /\ job' = [r \in Run |-> IF job[r] \in Working THEN "dead" ELSE job[r]]
  /\ entry' = [r \in Run |-> "none"]
  /\ elapsed' = [r \in Run |-> 0]
  /\ stream' = [r \in Run |-> IF stream[r] = "open" THEN "cut" ELSE stream[r]]
  /\ UNCHANGED <<page, client, coded>>

\* Delays end; a pipeline gives its verdict within ServerTime.
Tick ==
  /\ \A r \in Run : job[r] \in Working => elapsed[r] < ServerTime
  /\ elapsed' = [r \in Run |-> IF job[r] \in Working THEN elapsed[r] + 1 ELSE elapsed[r]]
  /\ pc' = [r \in Run |-> IF pc[r] = "waiting" THEN "due" ELSE pc[r]]
  /\ UNCHANGED <<page, aborted, attempt, outcome, job, entry, coded, stream>>

-----------------------------------------------------------------------------
ClientStep(r) ==
  \/ ProjectCreated(r) \/ StreamOpens(r) \/ RequestFails(r)
  \/ ReadComplete(r) \/ ReadError(r) \/ StreamCut(r)
  \/ PollGenerating(r) \/ PollCompleted(r) \/ PollFailed(r) \/ PollRefused(r)
  \/ PollThrows(r) \/ PollDue(r) \/ PollAborted(r)

ServerStep(r) ==
  \/ ServerStarts(r) \/ ServerSaves(r) \/ ServerCompletes(r) \/ ServerFails(r)
  \/ Evict(r) \/ Disconnect(r)

Next ==
  \/ Select \/ ClearResult \/ LeaveMode \/ Foreground \/ Crash \/ Tick
  \/ \E r \in Run : Start(r) \/ ClientStep(r) \/ ServerStep(r)

Spec == Init /\ [][Next]_vars

\* Requests settle, streams are read, timers fire, and pipelines end.
Fairness ==
  /\ WF_vars(Tick)
  /\ \A r \in Run :
       /\ WF_vars(ClientStep(r))
       /\ WF_vars(ServerCompletes(r) \/ ServerFails(r))

FairSpec == Spec /\ Fairness

-----------------------------------------------------------------------------
\* The poll loop's budget exceeds the server's; the last attempt has no delay.
PollingOutlastsServer == ServerTime + 1 < MaxAttempts

TypeOK ==
  /\ status \in Status
  /\ current \in Run \cup {None}
  /\ session \in Run \cup {None}
  /\ selected \in {"nothing", "made", "cleared"}
  /\ pc \in [Run -> {"idle", "done"} \cup Alive]
  /\ aborted \subseteq Run
  /\ attempt \in [Run -> 0..MaxAttempts]
  /\ outcome \in [Run -> Outcome]
  /\ job \in [Run -> {"none", "completed", "failed", "dead"} \cup Working]
  /\ entry \in [Run -> {"none", "generating", "completed", "failed"}]
  /\ coded \subseteq Run
  /\ stream \in [Run -> {"none", "open", "complete", "error", "cut"}]
  /\ elapsed \in [Run -> 0..ServerTime]

\* The page shows a spinner exactly while one run that may still speak drives
\* it: a reset or a new run silences the run before it, and nothing silences
\* the run on display.
OneSpeaker ==
  \A r \in Run : pc[r] \in Alive /\ r \notin aborted <=> Displayed(r)

\* The verdict on display is the displayed run's own, never that of a run the
\* user has left behind.
VerdictIsOwn ==
  /\ status = "completed" => current # None /\ outcome[current] = "completed"
  /\ status = "failed" => current # None /\ outcome[current] \in {"failed", "exhausted"}

\* A success on display has a code in the database, whichever of the stream,
\* the tracker and the database reported it.
SuccessIsReal == status = "completed" => current \in coded

\* Polling gives up for lack of attempts only after the pipeline has given
\* its verdict: the budget of the poll loop covers that of the server.
PatienceOutlastsServer ==
  \A r \in Run : outcome[r] = "exhausted" => job[r] \notin Working

\* A poller that was abandoned leaves the page as it is.
AbandonedPollerIsSilent ==
  [][\A r \in Run : pc[r] \in Polling /\ pc'[r] = "done" /\ ~Displayed(r)
                      => UNCHANGED page]_vars

\* The comment of the store: callbacks of another run are ignored.  What the
\* user has selected is cleared by leaving the mode or by the run on display.
SelectionIsOwn ==
  [][selected = "made" /\ selected' # "made" =>
       LeaveMode \/ (status = "generating" /\ status' = "completed")]_vars

\* Every generation on display ends.
GenerationEnds ==
  status = "generating" ~> status # "generating"

\* No run goes on for ever behind the page.
RunsEnd == \A r \in Run : pc[r] # "idle" ~> pc[r] = "done"
===============================================================================
