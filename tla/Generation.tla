----------------------------- MODULE Generation -----------------------------
(***************************************************************************)
(* The life of a generation request: the daily quota it is charged to, the *)
(* project lock it takes, the pipeline it runs, the code version it saves, *)
(* the project status, the in-memory progress tracker, and everything that *)
(* interferes with it: rollbacks, publishing, deletion, crashes, midnight. *)
(*                                                                         *)
(* One user is modelled (quotas of users are independent and only the      *)
(* owner of a project reaches it).  Every awaited call that reads or       *)
(* changes state is a step of its own, and the process may die between any *)
(* two.  Whether another request may run between two of them is Yielding:  *)
(* the repositories are asynchronous interfaces over a synchronous driver, *)
(* so a chain of repository calls in fact runs in one turn of the event    *)
(* loop, and only AI, browser and network calls let others run.            *)
(*                                                                         *)
(* The lock's timing is not repeated: GenerationLock shows that a live     *)
(* pipeline's row cannot be taken, and a row left behind can.              *)
(***************************************************************************)
EXTENDS Integers, FiniteSets

CONSTANTS
  Project,            \* project ids
  Run,                \* generate/regenerate requests in flight at a time
  Undo,               \* rollback requests in flight at a time
  None,               \* no run
  Limit,              \* maxDailyGenerations
  Yielding,           \* may others run between two awaited repository calls
  Keep,               \* maxCodeVersionsPerProject
  MaxRegenerations,   \* maxRegenerationsPerProject
  MaxDay,             \* bound: days modelled
  MaxVersion          \* bound: code versions modelled

ASSUME NoneIsNoRunOrProject == None \notin Run \cup Project
ASSUME RunsAreNoRollbacks == Run \cap Undo = {}
ASSUME YieldingIsBoolean == Yielding \in BOOLEAN
ASSUME LimitsAreNaturals ==
  /\ Limit \in Nat
  /\ Keep \in Nat \ {0}
  /\ MaxRegenerations \in Nat
  /\ MaxDay \in Nat \ {0}
  /\ MaxVersion \in Nat
ASSUME FinitelyManyRuns == IsFiniteSet(Run)

VARIABLES
  exists,     \* the projects that have a row
  status,     \* status[p]: the project's status column
  codes,      \* codes[p]: the versions in generated_codes
  lockBy,     \* lockBy[p]: the run that wrote p's lock row, or None
  day,        \* today
  count,      \* count[d]: generation_count of the user's row of day d
  tracker,    \* tracker[p]: status of p's in-memory progress entry
  pc,         \* pc[r]: where request r is
  proj,       \* proj[r]: its project
  kind,       \* kind[r]: generate or regenerate
  chargedOn,  \* chargedOn[r]: day of its unrefunded charge, 0 if none
  next,       \* next[r]: the version number it has read
  upc,        \* upc[u]: where rollback u is
  uproj,      \* uproj[u]: its project
  unext,      \* unext[u]: the version number it has read
  delivered,  \* delivered[d]: charges of day d that paid for a generation
  carried,    \* carried[d]: refunds of other days' charges taken from day d
  lost,       \* lost[d]: charges of day d neither delivered nor refunded to d
  acked,      \* acked[p]: versions reported to the user as created
  regens      \* regens[p]: regenerations delivered

project == <<exists, status, codes>>
quota == <<day, count, chargedOn, delivered, carried, lost>>
request == <<pc, proj, kind, next>>
rollback == <<upc, uproj, unext>>
history == <<acked, regens>>
vars == <<project, lockBy, quota, tracker, request, rollback, history>>

Day == 1..MaxDay
Version == 1..MaxVersion
Status == {"draft", "generated", "published", "unpublished"}
Publishable == {"generated", "unpublished"}

\* Between the lock and the end of runGenerationPipeline.
InPipeline == {"running", "saving", "created", "compensating",
               "stored", "saved", "failing", "closing"}
PC == {"idle", "quota", "checked"} \cup InPipeline

\* Where a request is between two repository calls of one turn.
MidTurn == PC \ {"idle", "running"}
UndoMidTurn == {"numbered", "created"}

Init ==
  /\ exists = Project
  /\ status = [p \in Project |-> "draft"]
  /\ codes = [p \in Project |-> {}]
  /\ lockBy = [p \in Project |-> None]
  /\ day = 1
  /\ count = [d \in Day |-> 0]
  /\ tracker = [p \in Project |-> "none"]
  /\ pc = [r \in Run |-> "idle"]
  /\ proj = [r \in Run |-> None]
  /\ kind = [r \in Run |-> "none"]
  /\ chargedOn = [r \in Run |-> 0]
  /\ next = [r \in Run |-> 0]
  /\ upc = [u \in Undo |-> "idle"]
  /\ uproj = [u \in Undo |-> None]
  /\ unext = [u \in Undo |-> 0]
  /\ delivered = [d \in Day |-> 0]
  /\ carried = [d \in Day |-> 0]
  /\ lost = [d \in Day |-> 0]
  /\ acked = [p \in Project |-> {}]
  /\ regens = [p \in Project |-> 0]

\* Nobody but a is in the middle of a turn.
MayRun(a) ==
  \/ Yielding
  \/ /\ \A r \in Run \ {a} : pc[r] \notin MidTurn
     /\ \A u \in Undo \ {a} : upc[u] \notin UndoMidTurn

At(r, l) == pc[r] = l /\ MayRun(r)
UndoAt(u, l) == upc[u] = l /\ MayRun(u)

-----------------------------------------------------------------------------
(* The repositories.                                                       *)

\* The greatest of a set of version numbers, 0 when there is none.
Greatest(S) == IF S = {} THEN 0 ELSE CHOOSE v \in S : \A w \in S : w <= v

Newest(p) == Greatest(codes[p])

NextVersion(p) == Newest(p) + 1

\* INSERT: the foreign key needs the project, UNIQUE a fresh number.
Insertable(p, v) == p \in exists /\ v \notin codes[p]

\* Mutant: ordered the wrong way round.
Prune_KeepsOldest(S) == {v \in S : Cardinality({w \in S : w < v}) < Keep}

\* pruneOldVersions keeps the newest Keep versions.
Prune(S) == {v \in S : Cardinality({w \in S : w > v}) < Keep}

WithCode(p, v) == [codes EXCEPT ![p] = @ \cup {v}]

SetStatus(p, s) == status' = [status EXCEPT ![p] = s]

\* The lock row of p stands for a pipeline that is still running.
LiveLock(p) ==
  /\ lockBy[p] # None
  /\ pc[lockBy[p]] \in InPipeline
  /\ proj[lockBy[p]] = p

-----------------------------------------------------------------------------
(* The daily quota.                                                        *)

\* checkAndIncrementDailyLimit: test-and-set on today's row.
Charge(r) ==
  /\ count[day] < Limit
  /\ count' = [count EXCEPT ![day] = @ + 1]
  /\ chargedOn' = [chargedOn EXCEPT ![r] = day]
  /\ UNCHANGED <<day, delivered, carried, lost>>

\* A bypass user or a database error: let through and not charged.
FailOpen == UNCHANGED quota

\* The days whose row the refund of r's charge will not restore.
Missed(r, restored) ==
  [d \in Day |-> IF d = chargedOn[r] /\ d # restored THEN lost[d] + 1 ELSE lost[d]]

\* decrementDailyLimit takes one from TODAY's row, not from the row charged.
DecrementToday(r) ==
  /\ chargedOn[r] # 0
  /\ count' = [count EXCEPT ![day] = IF @ > 0 THEN @ - 1 ELSE 0]
  /\ carried' = [carried EXCEPT ![day] =
                   IF chargedOn[r] # day /\ count[day] > 0 THEN @ + 1 ELSE @]
  /\ lost' = Missed(r, day)
  /\ chargedOn' = [chargedOn EXCEPT ![r] = 0]
  /\ UNCHANGED <<day, delivered>>

\* The decrement throws, which is swallowed.
DecrementFails(r) ==
  /\ chargedOn[r] # 0
  /\ lost' = Missed(r, 0)
  /\ chargedOn' = [chargedOn EXCEPT ![r] = 0]
  /\ UNCHANGED <<day, count, delivered, carried>>

\* Mutant: the charged flag is ignored.
Refund_Uncharged(r) ==
  \/ /\ chargedOn[r] = 0
     /\ count' = [count EXCEPT ![day] = IF @ > 0 THEN @ - 1 ELSE 0]
     /\ UNCHANGED <<day, chargedOn, delivered, carried, lost>>
  \/ DecrementToday(r)
  \/ DecrementFails(r)

\* Mutant: the pending decrement is cleared and never called.
Refund_Dropped(r) ==
  /\ chargedOn' = [chargedOn EXCEPT ![r] = 0]
  /\ UNCHANGED <<day, count, delivered, carried, lost>>

\* Only a charged request has something to give back.
Refund(r) ==
  \/ chargedOn[r] = 0 /\ UNCHANGED quota
  \/ DecrementToday(r)
  \/ DecrementFails(r)

-----------------------------------------------------------------------------
(* The route: quota, lookups, lock.                                        *)

Arrive(r, p, k) ==
  /\ At(r, "idle")
  /\ Charge(r) \/ FailOpen
  /\ pc' = [pc EXCEPT ![r] = "quota"]
  /\ proj' = [proj EXCEPT ![r] = p]
  /\ kind' = [kind EXCEPT ![r] = k]
  /\ UNCHANGED <<project, lockBy, tracker, next, rollback, history>>

OverCap(p) == NextVersion(p) - 1 >= MaxRegenerations

\* getById, and for a regeneration the version cap and the previous code.
Lookup(r) ==
  /\ At(r, "quota")
  /\ proj[r] \in exists
  /\ kind[r] = "regenerate" => ~OverCap(proj[r]) /\ codes[proj[r]] # {}
  /\ pc' = [pc EXCEPT ![r] = "checked"]
  /\ UNCHANGED <<project, lockBy, quota, tracker, proj, kind, next, rollback, history>>

\* The handler returns and its local variables with it.
Leave(r) ==
  /\ pc' = [pc EXCEPT ![r] = "idle"]
  /\ proj' = [proj EXCEPT ![r] = None]
  /\ kind' = [kind EXCEPT ![r] = "none"]
  /\ next' = [next EXCEPT ![r] = 0]

Reject(r) ==
  /\ Leave(r)
  /\ Refund(r)
  /\ UNCHANGED <<project, rollback, history>>

\* Not found, no API selected, no previous code, or an error on the way.
LookupFails(r) ==
  /\ At(r, "quota")
  /\ ~(kind[r] = "regenerate" /\ proj[r] \in exists /\ OverCap(proj[r]))
  /\ Reject(r)
  /\ UNCHANGED <<lockBy, tracker>>

RefuseOverCap(r) ==
  /\ At(r, "quota")
  /\ kind[r] = "regenerate"
  /\ proj[r] \in exists
  /\ OverCap(proj[r])
  /\ Reject(r)
  /\ UNCHANGED <<lockBy, tracker>>

\* Mutant: an entry that is there is kept.
TakeLock_KeepsVerdict(r) ==
  /\ At(r, "checked")
  /\ ~LiveLock(proj[r])
  /\ lockBy' = [lockBy EXCEPT ![proj[r]] = r]
  /\ tracker' = [tracker EXCEPT ![proj[r]] = IF @ = "none" THEN "generating" ELSE @]

TakeLock(r) ==
  /\ At(r, "checked")
  /\ ~LiveLock(proj[r])
  /\ lockBy' = [lockBy EXCEPT ![proj[r]] = r]
  /\ tracker' = [tracker EXCEPT ![proj[r]] = "generating"]

Acquire(r) ==
  /\ TakeLock(r)
  /\ pc' = [pc EXCEPT ![r] = "running"]
  /\ UNCHANGED <<project, quota, proj, kind, next, rollback, history>>

\* Between the lock and the pipeline's own try a builder throws: the request
\* ends, lock and tracker entry stay.  In the handler the catch refunds (or
\* fails to); in the start() of the response stream nothing does, and the
\* charge is lost as with a decrement that fails.
AcquireThenThrow(r) ==
  /\ TakeLock(r)
  /\ Reject(r)

\* 409 while a row is there, stale or not yet; or the acquire itself throws.
AcquireFails(r) ==
  /\ At(r, "checked")
  /\ Reject(r)
  /\ UNCHANGED <<lockBy, tracker>>

-----------------------------------------------------------------------------
(* The pipeline.                                                           *)

Goto(r, l) ==
  /\ pc' = [pc EXCEPT ![r] = l]
  /\ UNCHANGED <<proj, kind>>

\* All stages, validation and quality loop passed; read the next number.
StagesSucceed(r) ==
  /\ At(r, "running")
  /\ NextVersion(proj[r]) <= MaxVersion
  /\ next' = [next EXCEPT ![r] = NextVersion(proj[r])]
  /\ Goto(r, "saving")
  /\ UNCHANGED <<project, lockBy, quota, tracker, rollback, history>>

StagesFail(r) ==
  /\ At(r, "running")
  /\ Goto(r, "failing")
  /\ UNCHANGED <<project, lockBy, quota, tracker, next, rollback, history>>

CreateCode(r) ==
  /\ At(r, "saving")
  /\ Insertable(proj[r], next[r])
  /\ codes' = WithCode(proj[r], next[r])
  /\ Goto(r, "created")
  /\ UNCHANGED <<exists, status, lockBy, quota, tracker, next, rollback, history>>

\* Mutant: only a duplicate number is caught, not a project that is gone.
CreateCodeFails_DuplicateOnly(r) ==
  /\ At(r, "saving")
  /\ next[r] \in codes[proj[r]]
  /\ Goto(r, "failing")
  /\ UNCHANGED <<project, lockBy, quota, tracker, next, rollback, history>>

\* Constraint violation or any other error of the insert.
CreateCodeFails(r) ==
  /\ At(r, "saving")
  /\ Goto(r, "failing")
  /\ UNCHANGED <<project, lockBy, quota, tracker, next, rollback, history>>

UpdateStatus(r) ==
  /\ At(r, "created")
  /\ proj[r] \in exists
  /\ SetStatus(proj[r], "generated")
  /\ Goto(r, "stored")
  /\ UNCHANGED <<exists, codes, lockBy, quota, tracker, next, rollback, history>>

\* The project is gone, or the update throws.
UpdateStatusFails(r) ==
  /\ At(r, "created")
  /\ Goto(r, "compensating")
  /\ UNCHANGED <<project, lockBy, quota, tracker, next, rollback, history>>

\* Mutant: delete by project instead of by id.
Compensate_WholeProject(r) ==
  /\ At(r, "compensating")
  /\ codes' = [codes EXCEPT ![proj[r]] = {}]
  /\ Goto(r, "failing")
  /\ UNCHANGED <<exists, status, lockBy, quota, tracker, next, rollback, history>>

\* Delete the code just created, by its id.
Compensate(r) ==
  /\ At(r, "compensating")
  /\ codes' = [codes EXCEPT ![proj[r]] = @ \ {next[r]}]
  /\ Goto(r, "failing")
  /\ UNCHANGED <<exists, status, lockBy, quota, tracker, next, rollback, history>>

CompensateFails(r) ==
  /\ At(r, "compensating")
  /\ Goto(r, "failing")
  /\ UNCHANGED <<project, lockBy, quota, tracker, next, rollback, history>>

-----------------------------------------------------------------------------
(* The end of the pipeline.                                                *)

Deliver(r) ==
  /\ delivered' = [d \in Day |->
       IF d = chargedOn[r] THEN delivered[d] + 1 ELSE delivered[d]]
  /\ chargedOn' = [chargedOn EXCEPT ![r] = 0]
  /\ UNCHANGED <<day, count, carried, lost>>

\* pruneOldVersions; a failure is logged and changes nothing.
PruneOld(r) ==
  /\ At(r, "stored")
  /\ \/ codes' = [codes EXCEPT ![proj[r]] = Prune(@)]
     \/ UNCHANGED codes
  /\ Goto(r, "saved")
  /\ UNCHANGED <<exists, status, lockBy, quota, tracker, next, rollback, history>>

\* Tracker and SSE report the version, if the entry is still there.
Complete(r) ==
  /\ At(r, "saved")
  /\ tracker' = [tracker EXCEPT ![proj[r]] =
                   IF @ = "none" THEN "none" ELSE "completed"]
  /\ acked' = [acked EXCEPT ![proj[r]] = @ \cup {next[r]}]
  /\ regens' = [regens EXCEPT ![proj[r]] =
                  IF kind[r] = "regenerate" THEN @ + 1 ELSE @]
  /\ Deliver(r)
  /\ Goto(r, "closing")
  /\ UNCHANGED <<project, lockBy, next, rollback>>

\* Mutant: the failure is sent to the stream only.
HandleFailure_StreamOnly(r) ==
  /\ At(r, "failing")
  /\ Refund(r)
  /\ Goto(r, "closing")
  /\ UNCHANGED <<project, lockBy, tracker, next, rollback, history>>

\* handlePipelineFailure: refund, then tracker and SSE report the failure.
HandleFailure(r) ==
  /\ At(r, "failing")
  /\ Refund(r)
  /\ tracker' = [tracker EXCEPT ![proj[r]] = IF @ = "none" THEN "none" ELSE "failed"]
  /\ Goto(r, "closing")
  /\ UNCHANGED <<project, lockBy, next, rollback, history>>

\* finally: delete the project's lock row; an error is swallowed.
Release(r) ==
  /\ At(r, "closing")
  /\ \/ lockBy' = [lockBy EXCEPT ![proj[r]] = None]
     \/ UNCHANGED lockBy
  /\ Leave(r)
  /\ UNCHANGED <<project, quota, tracker, rollback, history>>

-----------------------------------------------------------------------------
(* Rollback: a new version with the content of an old one.  It takes no    *)
(* lock and it can fail at any of its awaits.                              *)

UndoFind(u, p) ==
  /\ UndoAt(u, "idle")
  /\ p \in exists
  /\ upc' = [upc EXCEPT ![u] = "found"]
  /\ uproj' = [uproj EXCEPT ![u] = p]
  /\ UNCHANGED <<project, lockBy, quota, tracker, request, unext, history>>

\* The body has been read: the target version is there, number a new one.
UndoNumber(u) ==
  /\ UndoAt(u, "found")
  /\ codes[uproj[u]] # {}
  /\ NextVersion(uproj[u]) <= MaxVersion
  /\ unext' = [unext EXCEPT ![u] = NextVersion(uproj[u])]
  /\ upc' = [upc EXCEPT ![u] = "numbered"]
  /\ UNCHANGED <<project, lockBy, quota, tracker, request, uproj, history>>

UndoCreate(u) ==
  /\ UndoAt(u, "numbered")
  /\ Insertable(uproj[u], unext[u])
  /\ codes' = WithCode(uproj[u], unext[u])
  /\ upc' = [upc EXCEPT ![u] = "created"]
  /\ UNCHANGED <<exists, status, lockBy, quota, tracker, request, uproj, unext, history>>

UndoLeave(u) ==
  /\ upc' = [upc EXCEPT ![u] = "idle"]
  /\ uproj' = [uproj EXCEPT ![u] = None]
  /\ unext' = [unext EXCEPT ![u] = 0]

UndoStatus(u) ==
  /\ UndoAt(u, "created")
  /\ uproj[u] \in exists
  /\ SetStatus(uproj[u], "generated")
  /\ acked' = [acked EXCEPT ![uproj[u]] = @ \cup {unext[u]}]
  /\ UndoLeave(u)
  /\ UNCHANGED <<exists, codes, lockBy, quota, tracker, request, regens>>

UndoFails(u) ==
  /\ upc[u] # "idle"
  /\ MayRun(u)
  /\ UndoLeave(u)
  /\ UNCHANGED <<project, lockBy, quota, tracker, request, history>>

-----------------------------------------------------------------------------
(* The owner's other requests, each one turn, and the environment.         *)

Publish(p) ==
  /\ MayRun(None)
  /\ p \in exists
  /\ status[p] \in Publishable
  /\ SetStatus(p, "published")
  /\ UNCHANGED <<exists, codes, lockBy, quota, tracker, request, rollback, history>>

Unpublish(p) ==
  /\ MayRun(None)
  /\ p \in exists
  /\ status[p] = "published"
  /\ SetStatus(p, "unpublished")
  /\ UNCHANGED <<exists, codes, lockBy, quota, tracker, request, rollback, history>>

\* One transaction: codes, lock row and project.  Pipelines are not stopped.
DeleteProject(p) ==
  /\ MayRun(None)
  /\ p \in exists
  /\ exists' = exists \ {p}
  /\ codes' = [codes EXCEPT ![p] = {}]
  /\ lockBy' = [lockBy EXCEPT ![p] = None]
  /\ UNCHANGED <<status, quota, tracker, request, rollback, history>>

\* The process dies and restarts: requests and tracker entries are gone,
\* the database, lock rows and charges included, is as it was.
Crash ==
  /\ tracker' = [p \in Project |-> "none"]
  /\ pc' = [r \in Run |-> "idle"]
  /\ proj' = [r \in Run |-> None]
  /\ kind' = [r \in Run |-> "none"]
  /\ next' = [r \in Run |-> 0]
  /\ upc' = [u \in Undo |-> "idle"]
  /\ uproj' = [u \in Undo |-> None]
  /\ unext' = [u \in Undo |-> 0]
  /\ chargedOn' = [r \in Run |-> 0]
  /\ lost' = [d \in Day |-> lost[d] + Cardinality({r \in Run : chargedOn[r] = d})]
  /\ UNCHANGED <<project, lockBy, day, count, delivered, carried, history>>

NextDay ==
  /\ day < MaxDay
  /\ day' = day + 1
  /\ UNCHANGED <<project, lockBy, count, chargedOn, delivered, carried, lost,
                 tracker, request, rollback, history>>

\* The LRU bound or a TTL drops a progress entry, even of a live pipeline.
\* Nothing promises when: a start() or an update begins the TTL again.
Evict(p) ==
  /\ MayRun(None)
  /\ tracker[p] # "none"
  /\ tracker' = [tracker EXCEPT ![p] = "none"]
  /\ UNCHANGED <<project, lockBy, quota, request, rollback, history>>

-----------------------------------------------------------------------------
RunStep(r) ==
  \/ Lookup(r) \/ LookupFails(r) \/ RefuseOverCap(r)
  \/ Acquire(r) \/ AcquireThenThrow(r) \/ AcquireFails(r)
  \/ StagesSucceed(r) \/ StagesFail(r)
  \/ CreateCode(r) \/ CreateCodeFails(r)
  \/ UpdateStatus(r) \/ UpdateStatusFails(r)
  \/ Compensate(r) \/ CompensateFails(r)
  \/ PruneOld(r) \/ Complete(r) \/ HandleFailure(r) \/ Release(r)

UndoStep(u) == UndoNumber(u) \/ UndoCreate(u) \/ UndoStatus(u) \/ UndoFails(u)

OwnerStep(p) == Publish(p) \/ Unpublish(p) \/ DeleteProject(p)

Next ==
  \/ \E r \in Run, p \in Project, k \in {"generate", "regenerate"} : Arrive(r, p, k)
  \/ \E r \in Run : RunStep(r)
  \/ \E u \in Undo, p \in Project : UndoFind(u, p)
  \/ \E u \in Undo : UndoStep(u)
  \/ \E p \in Project : OwnerStep(p) \/ Evict(p)
  \/ Crash
  \/ NextDay

Spec == Init /\ [][Next]_vars

\* A request that has arrived runs on to its end: its awaits are database
\* calls and AI or browser calls with timeouts, and the event loop does not
\* pass over a callback that is ready again and again.
Fairness ==
  /\ \A r \in Run : SF_vars(RunStep(r))
  /\ \A u \in Undo : SF_vars(UndoStep(u))

FairSpec == Spec /\ Fairness

-----------------------------------------------------------------------------
(* Properties.                                                             *)

TypeOK ==
  /\ exists \in SUBSET Project
  /\ status \in [Project -> Status]
  /\ codes \in [Project -> SUBSET Version]
  /\ lockBy \in [Project -> Run \cup {None}]
  /\ day \in Day
  /\ count \in [Day -> Nat]
  /\ tracker \in [Project -> {"none", "generating", "completed", "failed"}]
  /\ pc \in [Run -> PC]
  /\ proj \in [Run -> Project \cup {None}]
  /\ kind \in [Run -> {"none", "generate", "regenerate"}]
  /\ chargedOn \in [Run -> Day \cup {0}]
  /\ next \in [Run -> Version \cup {0}]
  /\ upc \in [Undo -> {"idle", "found", "numbered", "created"}]
  /\ uproj \in [Undo -> Project \cup {None}]
  /\ unext \in [Undo -> Version \cup {0}]
  /\ delivered \in [Day -> Nat]
  /\ carried \in [Day -> Nat]
  /\ lost \in [Day -> Nat]
  /\ acked \in [Project -> SUBSET Version]
  /\ regens \in [Project -> Nat]

\* The charges of day d that are still out with a request.
InFlight(d) == {r \in Run : chargedOn[r] = d}

\* What the counter must account for: no day pays for more generations than
\* its limit and the refunds it was handed from other days allow.  Refunding
\* an uncharged request, or refunding twice, would break this.
QuotaHolds ==
  \A d \in Day :
    delivered[d] + Cardinality(InFlight(d)) <= Limit + carried[d]

\* A failed request costs nothing: what a day's counter shows beyond the
\* generations delivered and in flight was lost to a crash, to a failed
\* decrement or to a refund after midnight.
FailuresAreFree ==
  \A d \in Day :
    count[d] <= delivered[d] + Cardinality(InFlight(d)) + lost[d]

\* At most one pipeline of an existing project, against abstract SingleFlight.
Flight == [r \in Run |-> IF pc[r] \in InPipeline THEN proj[r] ELSE None]
SF == INSTANCE SingleFlight WITH flight <- Flight, alive <- exists
ImplementsSingleFlight == SF!Spec

\* What a status or publish button promises: a project that has left draft
\* has code to show, whatever compensations, prunes and rollbacks crossed.
StatusHasCode ==
  \A p \in exists : status[p] # "draft" => codes[p] # {}

\* A version reported to the user is never replaced by an older one.
AcknowledgedSurvives ==
  \A p \in exists : \A v \in acked[p] : Newest(p) >= v

\* Versions are reported in ascending order and never twice, and what is
\* shown is never older, against abstract VersionHistory.
VH == INSTANCE VersionHistory WITH
        newest <- [p \in exists |-> Newest(p)],
        reported <- [p \in exists |-> acked[p]]
ImplementsHistory == VH!Spec

\* A poll never shows the verdict of an earlier pipeline for the one that is
\* running, as long as the progress entry is there.
NoStaleVerdict ==
  \A r \in Run :
    (proj[r] \in exists /\ pc[r] \in InPipeline \ {"closing"})
      => tracker[proj[r]] \in {"none", "generating"}

\* A progress display that goes on is of a pipeline still at work, or stands
\* beside a lock row left behind, by the one throw that leaves both: whoever
\* may take that row starts the entry afresh.  No pipeline ends, by success,
\* failure, deletion of its project or crash, and leaves its display running.
ProgressHasOwner ==
  \A p \in exists :
    tracker[p] = "generating" =>
      \/ \E r \in Run : proj[r] = p /\ pc[r] \in InPipeline \ {"closing"}
      \/ lockBy[p] # None /\ ~LiveLock(p)

\* Every request that arrives is answered.
RequestEnds == \A r \in Run : (pc[r] # "idle") ~> (pc[r] = "idle")

-----------------------------------------------------------------------------
(* What the documentation says and the code does otherwise.                *)

\* env-vars.md: MAX_DAILY_GENERATIONS is the number of generations of a day.
DailyLimit == \A d \in Day : delivered[d] <= Limit

\* api-endpoints.md: a project can be regenerated MaxRegenerations times.
RegenerationsAllowed ==
  [][\A r \in Run : RefuseOverCap(r) => regens[proj[r]] >= MaxRegenerations]_vars
=============================================================================
