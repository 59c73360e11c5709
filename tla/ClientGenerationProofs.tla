------------------------ MODULE ClientGenerationProofs ------------------------
(***************************************************************************)
(* What is proved of the client of a generation, for any number of runs    *)
(* and every bound: who may speak on the page, whose verdict it shows,     *)
(* that a success is real, and that the client's patience suffices.        *)
(***************************************************************************)
EXTENDS ClientGeneration, TLAPS

-----------------------------------------------------------------------------
(* The inductive invariant, in four parts.                                 *)

\* The poll loop stays within its attempts, and a run ends with its outcome.
LoopInv ==
  \A r \in Run :
    /\ pc[r] = "polling" => attempt[r] < MaxAttempts
    /\ pc[r] \notin Polling => attempt[r] = 0
    /\ outcome[r] = "none" <=> pc[r] # "done"

\* A run that may speak holds the session, so that whoever takes the session
\* silences it; a run that has not begun is known nowhere.
SessionInv ==
  \A r \in Run :
    /\ pc[r] \in Alive /\ r \notin aborted => session = r
    /\ pc[r] = "idle" => r \notin aborted /\ session # r /\ current # r

\* A verdict is shown only of a run that is over.
Settled == status \in {"completed", "failed"} => current # None /\ pc[current] = "done"

PageInv == SessionInv /\ OneSpeaker /\ Settled /\ VerdictIsOwn

\* What the server stores and reports agrees with what its pipeline did.
Books ==
  \A r \in Run :
    /\ job[r] \in {"saved", "completed"} => r \in coded
    /\ job[r] \in {"none", "running"} => r \notin coded
    /\ entry[r] = "completed" \/ stream[r] = "complete" => job[r] = "completed"

\* The code of a success on display is final: its pipeline is over.
SuccessIsFinal == status = "completed" => current \in coded /\ job[current] \notin Working

ServerInv == Books /\ SuccessIsFinal

\* A poller has not asked more often than its pipeline is old, but for the
\* question whose delay is not over.
PaceInv ==
  \A r \in Run : job[r] \in Working =>
    /\ pc[r] \in {"polling", "due"} => attempt[r] <= elapsed[r]
    /\ pc[r] = "waiting" => attempt[r] <= elapsed[r] + 1

\* Every step keeps the types, the loop's bound and the outcome of a run.
LEMMA TypeStep ==
  ASSUME TypeOK, LoopInv, [Next]_vars
  PROVE  TypeOK' /\ LoopInv'
<1> USE BoundsAreNaturals, NoneIsNoRun DEF TypeOK, Status, Polling, Alive, Working, Outcome, LoopInv
<1> USE DEF page, client, server, vars
<1>1. CASE Select
  BY <1>1 DEF Select
<1>2. CASE ClearResult
  BY <1>2 DEF ClearResult
<1>3. CASE LeaveMode
  BY ZenonT(60), <1>3 DEF LeaveMode, AbortSession
<1>4. CASE Foreground
  BY <1>4 DEF Foreground, HandOff
<1>5. CASE Crash
  BY <1>5 DEF Crash
<1>6. CASE Tick
  BY <1>6 DEF Tick
<1>7. ASSUME NEW r \in Run, Start(r) PROVE TypeOK' /\ LoopInv'
  BY <1>7 DEF Start, BeginSession, AbortSession
<1>8. ASSUME NEW r \in Run, ProjectCreated(r) PROVE TypeOK' /\ LoopInv'
  BY <1>8 DEF ProjectCreated
<1>9. ASSUME NEW r \in Run, StreamOpens(r) PROVE TypeOK' /\ LoopInv'
  BY <1>9 DEF StreamOpens
<1>10. ASSUME NEW r \in Run, RequestFails(r) PROVE TypeOK' /\ LoopInv'
  BY <1>10 DEF RequestFails, Fail, Report, Return, Displayed
<1>11. ASSUME NEW r \in Run, ReadComplete(r) PROVE TypeOK' /\ LoopInv'
  <2>1. TypeOK'
    <3>1. Complete(r) /\ aborted' = aborted \cup {r} /\ UNCHANGED server
      BY <1>11 DEF ReadComplete
    <3>2. status' \in Status /\ selected' \in {"nothing", "made", "cleared"} /\ UNCHANGED <<current, session>>
      BY <3>1 DEF Complete, Report
    <3>3. /\ pc' \in [Run -> {"idle", "done"} \cup Alive]
          /\ outcome' \in [Run -> Outcome]
          /\ attempt' \in [Run -> 0..MaxAttempts]
          /\ stream' \in [Run -> {"none", "open", "complete", "error", "cut"}]
      BY <3>1 DEF Complete, Return
    <3> QED
      BY <3>1, <3>2, <3>3
  <2>2. LoopInv'
    BY <1>11 DEF ReadComplete, Complete, Return
  <2> QED
    BY <2>1, <2>2
<1>12. ASSUME NEW r \in Run, ReadError(r) PROVE TypeOK' /\ LoopInv'
  BY <1>12 DEF ReadError, Fail, Report, Return, Displayed
<1>13. ASSUME NEW r \in Run, StreamCut(r) PROVE TypeOK' /\ LoopInv'
  BY <1>13 DEF StreamCut, HandOff
<1>14. ASSUME NEW r \in Run, PollGenerating(r) PROVE TypeOK' /\ LoopInv'
  BY <1>14 DEF PollGenerating, Answered, PollAgain
<1>15. ASSUME NEW r \in Run, PollCompleted(r) PROVE TypeOK' /\ LoopInv'
  <2>1. TypeOK'
    <3>1. Complete(r) /\ UNCHANGED <<aborted, job, entry, coded, elapsed>>
      BY <1>15 DEF PollCompleted
    <3>2. status' \in Status /\ selected' \in {"nothing", "made", "cleared"} /\ UNCHANGED <<current, session>>
      BY <3>1 DEF Complete, Report
    <3>3. /\ pc' \in [Run -> {"idle", "done"} \cup Alive]
          /\ outcome' \in [Run -> Outcome]
          /\ attempt' \in [Run -> 0..MaxAttempts]
          /\ stream' \in [Run -> {"none", "open", "complete", "error", "cut"}]
      BY <3>1 DEF Complete, Return
    <3> QED
      BY <3>1, <3>2, <3>3
  <2>2. LoopInv'
    BY <1>15 DEF PollCompleted, Answered, Complete, Return
  <2> QED
    BY <2>1, <2>2
<1>16. ASSUME NEW r \in Run, PollFailed(r) PROVE TypeOK' /\ LoopInv'
  BY <1>16 DEF PollFailed, Answered, PollReports, Report, Return, Displayed
<1>17. ASSUME NEW r \in Run, PollRefused(r) PROVE TypeOK' /\ LoopInv'
  BY <1>17 DEF PollRefused, Answered, PollReports, Report, Return, Displayed
<1>18. ASSUME NEW r \in Run, PollThrows(r) PROVE TypeOK' /\ LoopInv'
  BY <1>18 DEF PollThrows, PollAgain, PollReports, Report, Return, Displayed
<1>19. ASSUME NEW r \in Run, PollDue(r) PROVE TypeOK' /\ LoopInv'
  BY <1>19 DEF PollDue, PollReports, Report, Return, Displayed
<1>20. ASSUME NEW r \in Run, PollAborted(r) PROVE TypeOK' /\ LoopInv'
  BY <1>20 DEF PollAborted, Return
<1>21. ASSUME NEW r \in Run, ServerStarts(r) PROVE TypeOK' /\ LoopInv'
  BY <1>21 DEF ServerStarts
<1>22. ASSUME NEW r \in Run, ServerSaves(r) PROVE TypeOK' /\ LoopInv'
  BY <1>22 DEF ServerSaves
<1>23. ASSUME NEW r \in Run, ServerCompletes(r) PROVE TypeOK' /\ LoopInv'
  BY <1>23 DEF ServerCompletes, End, Track, SendLast
<1>24. ASSUME NEW r \in Run, ServerFails(r) PROVE TypeOK' /\ LoopInv'
  BY <1>24 DEF ServerFails, End, Track, SendLast
<1>25. ASSUME NEW r \in Run, Evict(r) PROVE TypeOK' /\ LoopInv'
  BY <1>25 DEF Evict
<1>26. ASSUME NEW r \in Run, Disconnect(r) PROVE TypeOK' /\ LoopInv'
  BY <1>26 DEF Disconnect
<1>27. CASE UNCHANGED vars
  BY <1>27
<1> QED
  BY <1>1, <1>2, <1>3, <1>4, <1>5, <1>6, <1>7, <1>8, <1>9, <1>10, <1>11, <1>12, <1>13, <1>14, <1>15, <1>16, <1>17, <1>18, <1>19, <1>20, <1>21, <1>22, <1>23, <1>24, <1>25, <1>26, <1>27 DEF Next, ClientStep, ServerStep

\* Every step keeps one speaker on the page and the verdict its own: a start or
\* a reset silences the session before it, a run ends as it reports, and an
\* abandoned run has nothing to report to.
LEMMA PageStep ==
  ASSUME TypeOK, LoopInv, PageInv, [Next]_vars
  PROVE  PageInv'
<1> USE BoundsAreNaturals, NoneIsNoRun DEF TypeOK, Status, Polling, Alive, LoopInv, PageInv, SessionInv, OneSpeaker, Settled, VerdictIsOwn, Displayed
<1> USE DEF page, client, server, vars
<1>1. CASE Select
  BY <1>1 DEF Select
<1>2. CASE ClearResult
  BY <1>2 DEF ClearResult
<1>3. CASE LeaveMode
  BY <1>3 DEF LeaveMode, AbortSession
<1>4. CASE Foreground
  BY <1>4 DEF Foreground, HandOff
<1>5. CASE Crash
  BY <1>5 DEF Crash
<1>6. CASE Tick
  BY <1>6 DEF Tick
<1>7. ASSUME NEW r \in Run, Start(r) PROVE PageInv'
  BY <1>7 DEF Start, BeginSession, AbortSession
<1>8. ASSUME NEW r \in Run, ProjectCreated(r) PROVE PageInv'
  BY <1>8 DEF ProjectCreated
<1>9. ASSUME NEW r \in Run, StreamOpens(r) PROVE PageInv'
  BY <1>9 DEF StreamOpens
<1>10. ASSUME NEW r \in Run, RequestFails(r) PROVE PageInv'
  BY <1>10 DEF RequestFails, Fail, Report, Return, Displayed
<1>11. ASSUME NEW r \in Run, ReadComplete(r) PROVE PageInv'
  BY <1>11 DEF ReadComplete, Complete, Report, Return, Displayed
<1>12. ASSUME NEW r \in Run, ReadError(r) PROVE PageInv'
  BY <1>12 DEF ReadError, Fail, Report, Return, Displayed
<1>13. ASSUME NEW r \in Run, StreamCut(r) PROVE PageInv'
  BY <1>13 DEF StreamCut, HandOff
<1>14. ASSUME NEW r \in Run, PollGenerating(r) PROVE PageInv'
  BY <1>14 DEF PollGenerating, Answered, PollAgain
<1>15. ASSUME NEW r \in Run, PollCompleted(r) PROVE PageInv'
  BY <1>15 DEF PollCompleted, Answered, Complete, Report, Return, Displayed
<1>16. ASSUME NEW r \in Run, PollFailed(r) PROVE PageInv'
  BY <1>16 DEF PollFailed, Answered, PollReports, Report, Return, Displayed
<1>17. ASSUME NEW r \in Run, PollRefused(r) PROVE PageInv'
  BY <1>17 DEF PollRefused, Answered, PollReports, Report, Return, Displayed
<1>18. ASSUME NEW r \in Run, PollThrows(r) PROVE PageInv'
  BY <1>18 DEF PollThrows, PollAgain, PollReports, Report, Return, Displayed
<1>19. ASSUME NEW r \in Run, PollDue(r) PROVE PageInv'
  BY <1>19 DEF PollDue, PollReports, Report, Return, Displayed
<1>20. ASSUME NEW r \in Run, PollAborted(r) PROVE PageInv'
  BY <1>20 DEF PollAborted, Return
<1>21. ASSUME NEW r \in Run, ServerStarts(r) PROVE PageInv'
  BY <1>21 DEF ServerStarts
<1>22. ASSUME NEW r \in Run, ServerSaves(r) PROVE PageInv'
  BY <1>22 DEF ServerSaves
<1>23. ASSUME NEW r \in Run, ServerCompletes(r) PROVE PageInv'
  BY <1>23 DEF ServerCompletes, End, Track, SendLast
<1>24. ASSUME NEW r \in Run, ServerFails(r) PROVE PageInv'
  BY <1>24 DEF ServerFails, End, Track, SendLast
<1>25. ASSUME NEW r \in Run, Evict(r) PROVE PageInv'
  BY <1>25 DEF Evict
<1>26. ASSUME NEW r \in Run, Disconnect(r) PROVE PageInv'
  BY <1>26 DEF Disconnect
<1>27. CASE UNCHANGED vars
  BY <1>27
<1> QED
  BY <1>1, <1>2, <1>3, <1>4, <1>5, <1>6, <1>7, <1>8, <1>9, <1>10, <1>11, <1>12, <1>13, <1>14, <1>15, <1>16, <1>17, <1>18, <1>19, <1>20, <1>21, <1>22, <1>23, <1>24, <1>25, <1>26, <1>27 DEF Next, ClientStep, ServerStep

\* Every step keeps the server's books and the success on display covered.
LEMMA ServerInvStep ==
  ASSUME TypeOK, PageInv, ServerInv, [Next]_vars
  PROVE  ServerInv'
<1> USE BoundsAreNaturals, NoneIsNoRun DEF TypeOK, Polling, Alive, Working, PageInv, SessionInv, OneSpeaker, Settled, ServerInv, Books, SuccessIsFinal, Displayed
<1> USE DEF page, client, server, vars
<1>1. CASE Select
  BY <1>1 DEF Select
<1>2. CASE ClearResult
  BY <1>2 DEF ClearResult
<1>3. CASE LeaveMode
  BY <1>3 DEF LeaveMode, AbortSession
<1>4. CASE Foreground
  BY <1>4 DEF Foreground, HandOff
<1>5. CASE Crash
  BY <1>5 DEF Crash
<1>6. CASE Tick
  BY <1>6 DEF Tick
<1>7. ASSUME NEW r \in Run, Start(r) PROVE ServerInv'
  BY <1>7 DEF Start, BeginSession, AbortSession
<1>8. ASSUME NEW r \in Run, ProjectCreated(r) PROVE ServerInv'
  BY <1>8 DEF ProjectCreated
<1>9. ASSUME NEW r \in Run, StreamOpens(r) PROVE ServerInv'
  BY <1>9 DEF StreamOpens
<1>10. ASSUME NEW r \in Run, RequestFails(r) PROVE ServerInv'
  BY <1>10 DEF RequestFails, Fail, Report, Return, Displayed
<1>11. ASSUME NEW r \in Run, ReadComplete(r) PROVE ServerInv'
  BY <1>11 DEF ReadComplete, Complete, Report, Return, Displayed
<1>12. ASSUME NEW r \in Run, ReadError(r) PROVE ServerInv'
  BY <1>12 DEF ReadError, Fail, Report, Return, Displayed
<1>13. ASSUME NEW r \in Run, StreamCut(r) PROVE ServerInv'
  BY <1>13 DEF StreamCut, HandOff
<1>14. ASSUME NEW r \in Run, PollGenerating(r) PROVE ServerInv'
  BY <1>14 DEF PollGenerating, Answered, PollAgain
<1>15. ASSUME NEW r \in Run, PollCompleted(r) PROVE ServerInv'
  BY <1>15 DEF PollCompleted, Answered, ServerAnswers, Answer, Complete, Report, Return, Displayed
<1>16. ASSUME NEW r \in Run, PollFailed(r) PROVE ServerInv'
  BY <1>16 DEF PollFailed, Answered, PollReports, Report, Return, Displayed
<1>17. ASSUME NEW r \in Run, PollRefused(r) PROVE ServerInv'
  BY <1>17 DEF PollRefused, Answered, PollReports, Report, Return, Displayed
<1>18. ASSUME NEW r \in Run, PollThrows(r) PROVE ServerInv'
  BY <1>18 DEF PollThrows, PollAgain, PollReports, Report, Return, Displayed
<1>19. ASSUME NEW r \in Run, PollDue(r) PROVE ServerInv'
  BY <1>19 DEF PollDue, PollReports, Report, Return, Displayed
<1>20. ASSUME NEW r \in Run, PollAborted(r) PROVE ServerInv'
  BY <1>20 DEF PollAborted, Return
<1>21. ASSUME NEW r \in Run, ServerStarts(r) PROVE ServerInv'
  BY <1>21 DEF ServerStarts
<1>22. ASSUME NEW r \in Run, ServerSaves(r) PROVE ServerInv'
  BY <1>22 DEF ServerSaves
<1>23. ASSUME NEW r \in Run, ServerCompletes(r) PROVE ServerInv'
  BY <1>23 DEF ServerCompletes, End, Track, SendLast
<1>24. ASSUME NEW r \in Run, ServerFails(r) PROVE ServerInv'
  BY <1>24 DEF ServerFails, End, Track, SendLast
<1>25. ASSUME NEW r \in Run, Evict(r) PROVE ServerInv'
  BY <1>25 DEF Evict
<1>26. ASSUME NEW r \in Run, Disconnect(r) PROVE ServerInv'
  BY <1>26 DEF Disconnect
<1>27. CASE UNCHANGED vars
  BY <1>27
<1> QED
  BY <1>1, <1>2, <1>3, <1>4, <1>5, <1>6, <1>7, <1>8, <1>9, <1>10, <1>11, <1>12, <1>13, <1>14, <1>15, <1>16, <1>17, <1>18, <1>19, <1>20, <1>21, <1>22, <1>23, <1>24, <1>25, <1>26, <1>27 DEF Next, ClientStep, ServerStep

\* Every step keeps a poller behind the age of its pipeline, and the last
\* attempt beyond the pipeline's time.
LEMMA PaceStep ==
  ASSUME TypeOK, LoopInv, PaceInv, PatienceOutlastsServer, PollingOutlastsServer, [Next]_vars
  PROVE  PaceInv' /\ PatienceOutlastsServer'
<1> USE BoundsAreNaturals, NoneIsNoRun DEF TypeOK, Polling, Alive, Working, LoopInv, PaceInv, PatienceOutlastsServer, PollingOutlastsServer
<1> USE DEF page, client, server, vars
<1>1. CASE Select
  BY <1>1 DEF Select
<1>2. CASE ClearResult
  BY <1>2 DEF ClearResult
<1>3. CASE LeaveMode
  BY <1>3 DEF LeaveMode, AbortSession
<1>4. CASE Foreground
  BY <1>4 DEF Foreground, HandOff
<1>5. CASE Crash
  BY <1>5 DEF Crash
<1>6. CASE Tick
  BY <1>6 DEF Tick
<1>7. ASSUME NEW r \in Run, Start(r) PROVE PaceInv' /\ PatienceOutlastsServer'
  BY <1>7 DEF Start, BeginSession, AbortSession
<1>8. ASSUME NEW r \in Run, ProjectCreated(r) PROVE PaceInv' /\ PatienceOutlastsServer'
  BY <1>8 DEF ProjectCreated
<1>9. ASSUME NEW r \in Run, StreamOpens(r) PROVE PaceInv' /\ PatienceOutlastsServer'
  BY <1>9 DEF StreamOpens
<1>10. ASSUME NEW r \in Run, RequestFails(r) PROVE PaceInv' /\ PatienceOutlastsServer'
  BY <1>10 DEF RequestFails, Fail, Report, Return, Displayed
<1>11. ASSUME NEW r \in Run, ReadComplete(r) PROVE PaceInv' /\ PatienceOutlastsServer'
  BY <1>11 DEF ReadComplete, Complete, Report, Return, Displayed
<1>12. ASSUME NEW r \in Run, ReadError(r) PROVE PaceInv' /\ PatienceOutlastsServer'
  BY <1>12 DEF ReadError, Fail, Report, Return, Displayed
<1>13. ASSUME NEW r \in Run, StreamCut(r) PROVE PaceInv' /\ PatienceOutlastsServer'
  BY <1>13 DEF StreamCut, HandOff
<1>14. ASSUME NEW r \in Run, PollGenerating(r) PROVE PaceInv' /\ PatienceOutlastsServer'
  BY <1>14 DEF PollGenerating, Answered, PollAgain
<1>15. ASSUME NEW r \in Run, PollCompleted(r) PROVE PaceInv' /\ PatienceOutlastsServer'
  BY <1>15 DEF PollCompleted, Answered, Complete, Report, Return, Displayed
<1>16. ASSUME NEW r \in Run, PollFailed(r) PROVE PaceInv' /\ PatienceOutlastsServer'
  BY <1>16 DEF PollFailed, Answered, PollReports, Report, Return, Displayed
<1>17. ASSUME NEW r \in Run, PollRefused(r) PROVE PaceInv' /\ PatienceOutlastsServer'
  BY <1>17 DEF PollRefused, Answered, PollReports, Report, Return, Displayed
<1>18. ASSUME NEW r \in Run, PollThrows(r) PROVE PaceInv' /\ PatienceOutlastsServer'
  BY <1>18 DEF PollThrows, PollAgain, PollReports, Report, Return, Displayed
<1>19. ASSUME NEW r \in Run, PollDue(r) PROVE PaceInv' /\ PatienceOutlastsServer'
  BY <1>19 DEF PollDue, PollReports, Report, Return, Displayed
<1>20. ASSUME NEW r \in Run, PollAborted(r) PROVE PaceInv' /\ PatienceOutlastsServer'
  BY <1>20 DEF PollAborted, Return
<1>21. ASSUME NEW r \in Run, ServerStarts(r) PROVE PaceInv' /\ PatienceOutlastsServer'
  BY <1>21 DEF ServerStarts
<1>22. ASSUME NEW r \in Run, ServerSaves(r) PROVE PaceInv' /\ PatienceOutlastsServer'
  BY <1>22 DEF ServerSaves
<1>23. ASSUME NEW r \in Run, ServerCompletes(r) PROVE PaceInv' /\ PatienceOutlastsServer'
  BY <1>23 DEF ServerCompletes, End, Track, SendLast
<1>24. ASSUME NEW r \in Run, ServerFails(r) PROVE PaceInv' /\ PatienceOutlastsServer'
  BY <1>24 DEF ServerFails, End, Track, SendLast
<1>25. ASSUME NEW r \in Run, Evict(r) PROVE PaceInv' /\ PatienceOutlastsServer'
  BY <1>25 DEF Evict
<1>26. ASSUME NEW r \in Run, Disconnect(r) PROVE PaceInv' /\ PatienceOutlastsServer'
  BY <1>26 DEF Disconnect
<1>27. CASE UNCHANGED vars
  BY <1>27
<1> QED
  BY <1>1, <1>2, <1>3, <1>4, <1>5, <1>6, <1>7, <1>8, <1>9, <1>10, <1>11, <1>12, <1>13, <1>14, <1>15, <1>16, <1>17, <1>18, <1>19, <1>20, <1>21, <1>22, <1>23, <1>24, <1>25, <1>26, <1>27 DEF Next, ClientStep, ServerStep

-----------------------------------------------------------------------------
(* The theorems.                                                           *)

ClientInv == TypeOK /\ LoopInv /\ PageInv /\ ServerInv

\* The parts hold at the start and every step keeps them.
LEMMA ClientInvariant == Spec => []ClientInv
<1>1. Init => ClientInv
  <2> SUFFICES ASSUME Init PROVE ClientInv
    OBVIOUS
  <2> USE BoundsAreNaturals, NoneIsNoRun DEF Init, Alive, Polling
  <2>1. TypeOK
    <3>1. attempt \in [Run -> 0..MaxAttempts] /\ elapsed \in [Run -> 0..ServerTime]
      OBVIOUS
    <3>2. /\ pc \in [Run -> {"idle", "done"} \cup Alive]
          /\ outcome \in [Run -> Outcome]
          /\ job \in [Run -> {"none", "completed", "failed", "dead"} \cup Working]
      BY DEF Outcome
    <3>3. /\ entry \in [Run -> {"none", "generating", "completed", "failed"}]
          /\ stream \in [Run -> {"none", "open", "complete", "error", "cut"}]
      OBVIOUS
    <3> QED
      BY <3>1, <3>2, <3>3 DEF TypeOK, Status
  <2>2. LoopInv
    BY DEF LoopInv
  <2>3. PageInv
    BY DEF PageInv, SessionInv, OneSpeaker, Settled, VerdictIsOwn, Displayed
  <2>4. ServerInv
    BY DEF ServerInv, Books, SuccessIsFinal
  <2> QED
    BY <2>1, <2>2, <2>3, <2>4 DEF ClientInv
<1>2. ClientInv /\ [Next]_vars => ClientInv'
  BY TypeStep, PageStep, ServerInvStep DEF ClientInv
<1> QED
  BY <1>1, <1>2, PTL DEF Spec

\* Type correctness of the client and its server.
THEOREM TypeOKAlways == Spec => []TypeOK
  BY ClientInvariant, PTL DEF ClientInv

\* A spinner has exactly one run behind it, and that run may speak: no order
\* of starts, resets, retries and late answers leaves the page waiting for a
\* run that has been silenced, or two runs speaking.
THEOREM OneSpeakerAlways == Spec => []OneSpeaker
<1>1. ClientInv => OneSpeaker
  BY DEF ClientInv, PageInv
<1> QED
  BY <1>1, ClientInvariant, PTL

\* The verdict on display is that of the run on display.
THEOREM VerdictIsAlwaysOwn == Spec => []VerdictIsOwn
<1>1. ClientInv => VerdictIsOwn
  BY DEF ClientInv, PageInv
<1> QED
  BY <1>1, ClientInvariant, PTL

\* Whoever reported a success, the project has a code.
THEOREM SuccessIsAlwaysReal == Spec => []SuccessIsReal
<1>1. ClientInv => SuccessIsReal
  BY DEF ClientInv, ServerInv, SuccessIsFinal, SuccessIsReal
<1> QED
  BY <1>1, ClientInvariant, PTL

\* A poll loop longer than the server's time never runs out under a pipeline
\* that is still working, whatever share of its requests fails.
THEOREM PatienceSuffices ==
  PollingOutlastsServer => (Spec => []PatienceOutlastsServer)
<1> SUFFICES ASSUME PollingOutlastsServer PROVE Spec => []PatienceOutlastsServer
  OBVIOUS
<1> DEFINE Pace == PaceInv /\ PatienceOutlastsServer
<1>1. Init => Pace
  BY DEF Init, PaceInv, PatienceOutlastsServer
<1>2. ClientInv /\ Pace /\ [Next]_vars => Pace'
  BY PaceStep DEF ClientInv
<1> QED
  BY <1>1, <1>2, ClientInvariant, PTL DEF Spec

\* A poller left behind ends without touching the page: one that is not on
\* display is aborted, by OneSpeaker, and an aborted poller only returns.
THEOREM AbandonedPollersAreSilent == Spec => AbandonedPollerIsSilent
<1> DEFINE A == \A r \in Run : pc[r] \in Polling /\ pc'[r] = "done" /\ ~Displayed(r)
                                => UNCHANGED page
<1>1. ClientInv /\ [Next]_vars => A
  <2> SUFFICES ASSUME ClientInv, [Next]_vars, NEW s \in Run,
                      pc[s] \in Polling, pc'[s] = "done", ~Displayed(s)
               PROVE  UNCHANGED page
    OBVIOUS
  <2> USE DEF ClientInv, TypeOK, Alive, Polling, Working
  <2>1. s \in aborted
    BY DEF PageInv, OneSpeaker
  <2>2. ASSUME NEW r \in Run, Start(r) \/ ProjectCreated(r) \/ StreamOpens(r)
        PROVE  FALSE
    BY <2>2 DEF Start, ProjectCreated, StreamOpens
  <2>3. ASSUME NEW r \in Run, RequestFails(r) \/ ReadComplete(r) \/ ReadError(r)
        PROVE  FALSE
    BY <2>3 DEF RequestFails, ReadComplete, ReadError, Fail, Complete, Return
  <2>4. ASSUME NEW r \in Run, PollGenerating(r) \/ PollCompleted(r) \/ PollFailed(r) \/ PollRefused(r)
        PROVE  FALSE
    BY <2>1, <2>4
    DEF PollGenerating, PollCompleted, PollFailed, PollRefused, Answered,
        PollAgain, PollReports, Complete, Return
  <2>5. ASSUME NEW r \in Run, PollThrows(r) \/ PollDue(r)
        PROVE  FALSE
    BY <2>1, <2>5 DEF PollThrows, PollDue, PollAgain, PollReports, Return
  <2>6. ASSUME NEW r \in Run, StreamCut(r) \/ PollAborted(r)
        PROVE  UNCHANGED page
    BY <2>6 DEF StreamCut, HandOff, PollAborted
  <2>7. ASSUME NEW r \in Run, ServerStep(r)
        PROVE  UNCHANGED page
    BY <2>7 DEF ServerStep, ServerStarts, ServerSaves, ServerCompletes, ServerFails,
        Evict, Disconnect
  <2>8. CASE Select \/ ClearResult \/ LeaveMode
    BY <2>8 DEF Select, ClearResult, LeaveMode, client
  <2>9. CASE Foreground \/ Crash \/ Tick
    BY <2>9 DEF Foreground, HandOff, Crash, Tick
  <2>10. CASE UNCHANGED vars
    BY <2>10 DEF vars
  <2> QED
    BY <2>2, <2>3, <2>4, <2>5, <2>6, <2>7, <2>8, <2>9, <2>10 DEF Next, ClientStep
<1>2. ClientInv /\ [Next]_vars => [A]_vars
  BY <1>1
<1>3. Spec => [][A]_vars
  BY <1>2, ClientInvariant, PTL DEF Spec
<1> QED
  BY <1>3 DEF AbandonedPollerIsSilent

\* The other half of what SelectionIsOwn refutes: besides leaving the mode and
\* the completion of the run on display, only a run that was aborted and whose
\* stream still delivers its last event can clear what the user has selected.
\* Neither a poller nor a failure, of whichever run, ever does.
OnlyStreamsTakeTheSelection ==
  [][selected = "made" /\ selected' # "made" =>
       \/ LeaveMode
       \/ status = "generating" /\ status' = "completed"
       \/ \E r \in aborted : ReadComplete(r)]_vars

\* What the user has selected is safe from everything but streams of old runs.
THEOREM SelectionIsTakenByStreams == Spec => OnlyStreamsTakeTheSelection
<1> DEFINE A == selected = "made" /\ selected' # "made" =>
                  \/ LeaveMode
                  \/ status = "generating" /\ status' = "completed"
                  \/ \E r \in aborted : ReadComplete(r)
<1>1. ClientInv /\ [Next]_vars => A
  <2> SUFFICES ASSUME ClientInv, [Next]_vars, selected = "made", selected' # "made", ~LeaveMode
               PROVE  \/ status = "generating" /\ status' = "completed"
                      \/ \E r \in aborted : ReadComplete(r)
    OBVIOUS
  <2>1. ASSUME NEW r \in Run, ReadComplete(r), r \notin aborted
        PROVE  status = "generating" /\ status' = "completed"
    <3>1. Displayed(r)
      BY <2>1 DEF ClientInv, PageInv, OneSpeaker, ReadComplete, Alive
    <3>. QED
      BY <2>1, <3>1 DEF ReadComplete, Complete, Report, Displayed
  <2>2. ASSUME NEW r \in Run, PollCompleted(r)
        PROVE  status = "generating" /\ status' = "completed"
    <3>1. Displayed(r)
      BY <2>2 DEF ClientInv, PageInv, OneSpeaker, PollCompleted, Answered, Alive, Polling
    <3>. QED
      BY <2>2, <3>1 DEF PollCompleted, Complete, Report, Displayed
  <2>3. ASSUME NEW r \in Run, Start(r) \/ ProjectCreated(r) \/ StreamOpens(r)
        PROVE  FALSE
    BY <2>3 DEF Start, ProjectCreated, StreamOpens, page
  <2>4. ASSUME NEW r \in Run, RequestFails(r) \/ ReadError(r) \/ StreamCut(r)
        PROVE  FALSE
    BY <2>4 DEF RequestFails, ReadError, StreamCut, Fail, HandOff, page
  <2>5. ASSUME NEW r \in Run,
               \/ PollGenerating(r) \/ PollFailed(r) \/ PollRefused(r)
               \/ PollThrows(r) \/ PollDue(r) \/ PollAborted(r)
        PROVE  FALSE
    BY <2>5 DEF PollGenerating, PollFailed, PollRefused, PollThrows, PollDue, PollAborted,
       PollAgain, PollReports, page
  <2>6. ASSUME NEW r \in Run, ServerStep(r)
        PROVE  FALSE
    BY <2>6 DEF ServerStep, ServerStarts, ServerSaves, ServerCompletes, ServerFails,
       Evict, Disconnect, page
  <2>7. CASE Select \/ ClearResult
    BY <2>7 DEF Select, ClearResult
  <2>8. CASE Foreground \/ Crash \/ Tick
    BY <2>8 DEF Foreground, HandOff, Crash, Tick, page
  <2>9. CASE UNCHANGED vars
    BY <2>9 DEF vars, page
  <2>. QED
    BY <2>1, <2>2, <2>3, <2>4, <2>5, <2>6, <2>7, <2>8, <2>9 DEF Next, ClientStep
<1>2. ClientInv /\ [Next]_vars => [A]_vars
  BY <1>1
<1>3. Spec => [][A]_vars
  BY <1>2, ClientInvariant, PTL DEF Spec
<1>. QED
  BY <1>3 DEF OnlyStreamsTakeTheSelection

===============================================================================
