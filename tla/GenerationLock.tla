--------------------------- MODULE GenerationLock ---------------------------
(***************************************************************************)
(* The durable per-project generation lock: the row of generation_locks,   *)
(* the requests that acquire it, the interval timer that keeps it alive    *)
(* while a pipeline runs, the release in the pipeline's finally block, and *)
(* what time, a crash and a deletion do to it.                             *)
(*                                                                         *)
(* Time is kept as ages, which makes the state finite without a bound on   *)
(* the clock: age[p] is "now - heartbeat_at" of p's row, so that the SQL   *)
(* condition heartbeat_at < now - staleMs reads age[p] > Stale, and an age *)
(* is not told apart any further once it exceeds Stale.                    *)
(***************************************************************************)
EXTENDS Integers

CONSTANTS
  Project,      \* project ids
  Run,          \* request slots: one POST generate/regenerate at a time each
  None,         \* no run
  Heartbeat,    \* GENERATION_LOCK_HEARTBEAT_MS, in ticks
  RawStale,     \* the configured GENERATION_LOCK_STALE_MS, in ticks
  Lateness,     \* how late the event loop may run a due timer, in ticks
  MaxMisses     \* how many heartbeat writes of a pipeline may fail in a row

ASSUME NoneIsNoRun == None \notin Run \cup Project
ASSUME TicksAreNaturals ==
  /\ Heartbeat \in Nat \ {0}
  /\ RawStale \in Nat \ {0}
  /\ Lateness \in Nat
  /\ MaxMisses \in Nat

VARIABLES
  exists,   \* the projects that have a row in projects
  age,      \* age[p]: age of the heartbeat of p's lock row, or Absent
  holder,   \* holder[p]: the run whose acquire wrote the row (history)
  pc,       \* pc[r]: where request r is
  proj,     \* proj[r]: the project request r is about
  timer,    \* timer[r]: the heartbeat interval of r is armed
  since,    \* since[r]: time since that interval was last armed
  misses    \* misses[r]: heartbeat writes of r that failed in a row

rowVars == <<age, holder>>
timerVars == <<timer, since, misses>>
vars == <<exists, age, holder, pc, proj, timer, since, misses>>

Absent == -1

\* A configured staleness that does not exceed the heartbeat is corrected.
Stale == IF RawStale > Heartbeat THEN RawStale ELSE 2 * Heartbeat

\* The longest time between two firings of an armed interval.
Period == Heartbeat + Lateness

PC == {"idle", "checked", "running"}

Init ==
  /\ exists = Project
  /\ age = [p \in Project |-> Absent]
  /\ holder = [p \in Project |-> None]
  /\ pc = [r \in Run |-> "idle"]
  /\ proj \in [Run -> Project]
  /\ timer = [r \in Run |-> FALSE]
  /\ since = [r \in Run |-> 0]
  /\ misses = [r \in Run |-> 0]

-----------------------------------------------------------------------------
(* The repository's single-statement test-and-set.                         *)

\* Mutant: heartbeat_at <= now - staleMs.
Acquirable_AtStale(p) == age[p] = Absent \/ age[p] >= Stale

\* Mutant: a plain INSERT, no takeover of a stale row.
Acquirable_InsertOnly(p) == age[p] = Absent

Acquirable(p) == age[p] = Absent \/ age[p] > Stale

WriteRow(r, p) ==
  /\ Acquirable(p)
  /\ age' = [age EXCEPT ![p] = 0]
  /\ holder' = [holder EXCEPT ![p] = r]

DeleteRow(p) ==
  /\ age' = [age EXCEPT ![p] = Absent]
  /\ holder' = [holder EXCEPT ![p] = None]

-----------------------------------------------------------------------------
(* A request.                                                              *)

\* getById found the caller's project; the lock comes some awaits later.
FindProject(r, p) ==
  /\ pc[r] = "idle"
  /\ p \in exists
  /\ pc' = [pc EXCEPT ![r] = "checked"]
  /\ proj' = [proj EXCEPT ![r] = p]
  /\ UNCHANGED <<exists, rowVars, timerVars>>

\* The lock is ours: from here to the pipeline's first await nothing else
\* runs, so acquiring and arming the heartbeat interval are one step.
AcquireAndStart(r) ==
  /\ pc[r] = "checked"
  /\ WriteRow(r, proj[r])
  /\ pc' = [pc EXCEPT ![r] = "running"]
  /\ timer' = [timer EXCEPT ![r] = TRUE]
  /\ since' = [since EXCEPT ![r] = 0]
  /\ misses' = [misses EXCEPT ![r] = 0]
  /\ UNCHANGED <<exists, proj>>

\* The prompt builders between the lock and the stream throw: the route's
\* catch refunds the quota but nothing releases the row.
AcquireAndThrow(r) ==
  /\ pc[r] = "checked"
  /\ WriteRow(r, proj[r])
  /\ pc' = [pc EXCEPT ![r] = "idle"]
  /\ UNCHANGED <<exists, proj, timerVars>>

\* 409 GENERATION_IN_PROGRESS, or an error before or at the acquire.
Refuse(r) ==
  /\ pc[r] = "checked"
  /\ pc' = [pc EXCEPT ![r] = "idle"]
  /\ UNCHANGED <<exists, rowVars, proj, timerVars>>

-----------------------------------------------------------------------------
(* The heartbeat interval.  The update names only the project, so it        *)
(* renews whatever row is there.                                           *)

Due(r) == timer[r] /\ since[r] >= Heartbeat

\* Mutant: the row is looked at and not written.
HeartbeatRenews_ReadOnly(r) ==
  /\ Due(r)
  /\ age[proj[r]] # Absent
  /\ since' = [since EXCEPT ![r] = 0]
  /\ misses' = [misses EXCEPT ![r] = 0]
  /\ UNCHANGED <<exists, rowVars, pc, proj, timer>>

HeartbeatRenews(r) ==
  /\ Due(r)
  /\ age[proj[r]] # Absent
  /\ age' = [age EXCEPT ![proj[r]] = 0]
  /\ since' = [since EXCEPT ![r] = 0]
  /\ misses' = [misses EXCEPT ![r] = 0]
  /\ UNCHANGED <<exists, holder, pc, proj, timer>>

HeartbeatFindsNoRow(r) ==
  /\ Due(r)
  /\ age[proj[r]] = Absent
  /\ timer' = [timer EXCEPT ![r] = FALSE]
  /\ UNCHANGED <<exists, rowVars, pc, proj, since, misses>>

\* The write throws; the error is logged and the interval goes on.
HeartbeatFails(r) ==
  /\ Due(r)
  /\ misses[r] < MaxMisses
  /\ since' = [since EXCEPT ![r] = 0]
  /\ misses' = [misses EXCEPT ![r] = @ + 1]
  /\ UNCHANGED <<exists, rowVars, pc, proj, timer>>

-----------------------------------------------------------------------------
(* The end of a pipeline: stop the interval, then delete the row.          *)

StopHeartbeat(r) ==
  /\ timer' = [timer EXCEPT ![r] = FALSE]
  /\ UNCHANGED <<since, misses>>

Finish(r) ==
  /\ pc[r] = "running"
  /\ pc' = [pc EXCEPT ![r] = "idle"]
  /\ StopHeartbeat(r)
  /\ DeleteRow(proj[r])
  /\ UNCHANGED <<exists, proj>>

\* The delete throws; the error is swallowed and staleness is the backstop.
FinishWithoutRelease(r) ==
  /\ pc[r] = "running"
  /\ pc' = [pc EXCEPT ![r] = "idle"]
  /\ StopHeartbeat(r)
  /\ UNCHANGED <<exists, rowVars, proj>>

-----------------------------------------------------------------------------
(* The rest of the world.                                                  *)

\* DELETE of the project (or of its owner's account) also deletes the row.
DeleteProject(p) ==
  /\ p \in exists
  /\ exists' = exists \ {p}
  /\ DeleteRow(p)
  /\ UNCHANGED <<pc, proj, timerVars>>

\* The process dies and restarts: rows survive, requests and timers do not.
Crash ==
  /\ pc' = [r \in Run |-> "idle"]
  /\ timer' = [r \in Run |-> FALSE]
  /\ UNCHANGED <<exists, rowVars, proj, since, misses>>

TimePasses ==
  /\ \A r \in Run : timer[r] => since[r] < Period
  /\ age' = [p \in Project |->
               IF age[p] = Absent \/ age[p] > Stale THEN age[p] ELSE age[p] + 1]
  /\ since' = [r \in Run |-> IF timer[r] THEN since[r] + 1 ELSE since[r]]
  /\ UNCHANGED <<exists, holder, pc, proj, timer, misses>>

Fire(r) == HeartbeatRenews(r) \/ HeartbeatFindsNoRow(r) \/ HeartbeatFails(r)

End(r) == Finish(r) \/ FinishWithoutRelease(r)

Next ==
  \/ \E r \in Run, p \in Project : FindProject(r, p)
  \/ \E r \in Run : AcquireAndStart(r)
  \/ \E r \in Run : AcquireAndThrow(r)
  \/ \E r \in Run : Refuse(r)
  \/ \E r \in Run : HeartbeatRenews(r)
  \/ \E r \in Run : HeartbeatFindsNoRow(r)
  \/ \E r \in Run : HeartbeatFails(r)
  \/ \E r \in Run : Finish(r)
  \/ \E r \in Run : FinishWithoutRelease(r)
  \/ \E p \in Project : DeleteProject(p)
  \/ Crash
  \/ TimePasses

Spec == Init /\ [][Next]_vars

\* Clocks advance, due timers run, and a pipeline comes to its end: every
\* await in it is an AI or browser call with a timeout of its own.
Fairness ==
  /\ WF_vars(TimePasses)
  /\ \A r \in Run : WF_vars(Fire(r)) /\ WF_vars(End(r))

FairSpec == Spec /\ Fairness

-----------------------------------------------------------------------------
(* Properties.                                                             *)

TypeOK ==
  /\ exists \in SUBSET Project
  /\ age \in [Project -> Nat \cup {Absent}]
  /\ holder \in [Project -> Run \cup {None}]
  /\ pc \in [Run -> PC]
  /\ proj \in [Run -> Project]
  /\ timer \in [Run -> BOOLEAN]
  /\ since \in [Run -> Nat]
  /\ misses \in [Run -> Nat]

\* The lock protects as long as the heartbeats that may be late or fail in a
\* row still fit into the staleness window.
HeartbeatsOutpaceStaleness == (MaxMisses + 1) * Period <= Stale

RunningOn(r, p) == pc[r] = "running" /\ proj[r] = p

\* Two pipelines never run for the same existing project: no double Opus
\* charge and no two pipelines saving the same next version.
MutualExclusion ==
  \A r, s \in Run :
    /\ pc[r] = "running"
    /\ pc[s] = "running"
    /\ proj[r] = proj[s]
    /\ proj[r] \in exists
    => r = s

\* A running pipeline of an existing project holds the row and its heartbeats
\* keep the row out of any other request's reach.
LiveLockNotStealable ==
  \A r \in Run : \A p \in exists :
    RunningOn(r, p) => holder[p] = r /\ ~Acquirable(p)

\* The reason, as an inductive invariant: the age of a live pipeline's row is
\* paid for by the beats it missed and the time since its timer last fired.
HeartbeatDebt ==
  \A r \in Run :
    /\ timer[r] => /\ pc[r] = "running"
                   /\ since[r] <= Period
                   /\ misses[r] <= MaxMisses
    /\ (pc[r] = "running" /\ proj[r] \in exists) =>
         /\ timer[r]
         /\ holder[proj[r]] = r
         /\ age[proj[r]] # Absent
         /\ age[proj[r]] <= misses[r] * Period + since[r]

\* The row of an existing project is removed, renewed or rewritten only on
\* behalf of the run that wrote it, or once no live pipeline stands behind it.
OnlyHolderTouchesRow ==
  [][\A p \in exists' :
       \A r \in Run :
         (RunningOn(r, p) /\ (age'[p] < age[p] \/ holder'[p] # holder[p]))
           => (holder[p] = r
               /\ (holder'[p] = r \/ pc'[r] = "idle"))]_vars

\* Whatever happened to the pipeline that took a lock (it ended, its release
\* failed, it threw before the stream, it crashed), the project does not stay
\* locked: a later request finds the row gone or stale.
LockComesFree == \A p \in Project : (age[p] # Absent) ~> Acquirable(p)

\* The lock implements the abstract single-flight guarantee.
Flight == [r \in Run |-> IF pc[r] = "running" THEN proj[r] ELSE None]
SF == INSTANCE SingleFlight WITH flight <- Flight, alive <- exists
ImplementsSingleFlight == SF!Spec
=============================================================================
