-------------------------- MODULE GenerationProofs --------------------------
(***************************************************************************)
(* The generation request is correct for every number of projects,         *)
(* requests, rollbacks, days and versions, every limit, and whether or not *)
(* the event loop runs others between two repository calls.                *)
(***************************************************************************)
EXTENDS Generation, FiniteSetTheorems, WellFoundedInduction, TLAPS

-----------------------------------------------------------------------------
(* Version numbers.                                                        *)

\* A non-empty set of version numbers has a greatest one.
LEMMA HasGreatest ==
  ASSUME NEW S \in SUBSET Version, S # {}
  PROVE  \E v \in S : \A w \in S : w <= v
<1> DEFINE T == {MaxVersion - v : v \in S}
<1>1. S \subseteq Nat /\ MaxVersion \in Nat /\ \A v \in S : v <= MaxVersion
  BY LimitsAreNaturals DEF Version
<1>2. T \subseteq Nat /\ T # {}
  <2>1. \A v \in S : v \in Nat /\ MaxVersion - v \in Nat
    BY <1>1
  <2>2. PICK v \in S : TRUE
    OBVIOUS
  <2>3. MaxVersion - v \in T
    OBVIOUS
  <2>. QED
    BY <2>1, <2>3
<1>3. PICK x \in T : \A y \in T : ~(<<y, x>> \in OpToRel(<, Nat))
  BY <1>2, NatLessThanWellFounded, WFMin, Zenon
<1>4. \A y \in T : x <= y
  <2> SUFFICES ASSUME NEW y \in T PROVE x <= y
    OBVIOUS
  <2>1. x \in Nat /\ y \in Nat
    BY <1>2
  <2>2. ~(<<y, x>> \in OpToRel(<, Nat))
    BY <1>3
  <2>3. ~(y < x)
    BY <2>1, <2>2 DEF OpToRel
  <2>. QED
    BY <2>1, <2>3
<1>5. PICK v \in S : x = MaxVersion - v
  OBVIOUS
<1>6. \A w \in S : MaxVersion - w \in T
  OBVIOUS
<1> HIDE DEF T
<1>7. \A w \in S : w <= v
  <2> SUFFICES ASSUME NEW w \in S PROVE w <= v
    OBVIOUS
  <2>1. x <= MaxVersion - w
    BY <1>4, <1>6
  <2>. QED
    BY <2>1, <1>5, <1>1
<1>. QED
  BY <1>7

\* Greatest is the greatest version of a set that has one.
LEMMA GreatestIsGreatest ==
  ASSUME NEW S \in SUBSET Version, S # {}
  PROVE  Greatest(S) \in S /\ \A w \in S : w <= Greatest(S)
<1>1. \E v \in S : \A w \in S : w <= v
  BY HasGreatest
<1>. QED
  BY <1>1 DEF Greatest

\* It is a version, or 0 of none.
LEMMA GreatestType ==
  ASSUME NEW S \in SUBSET Version
  PROVE  Greatest(S) \in Version \cup {0}
<1>1. CASE S = {}
  BY <1>1 DEF Greatest
<1>2. CASE S # {}
  BY <1>2, GreatestIsGreatest
<1>. QED
  BY <1>1, <1>2

\* So is Newest of a project.
LEMMA NewestIsGreatest ==
  ASSUME NEW p \in Project, codes[p] \in SUBSET Version, codes[p] # {}
  PROVE  Newest(p) \in codes[p] /\ \A w \in codes[p] : w <= Newest(p)
  BY GreatestIsGreatest DEF Newest

\* The next version number is a positive natural.
LEMMA NextVersionType ==
  ASSUME NEW p \in Project, codes[p] \in SUBSET Version
  PROVE  NextVersion(p) \in Nat \ {0}
<1>1. CASE codes[p] = {}
  BY <1>1 DEF NextVersion, Newest, Greatest
<1>2. CASE codes[p] # {}
  BY <1>2, NewestIsGreatest DEF NextVersion, Version
<1>. QED
  BY <1>1, <1>2

\* Pruning keeps the greatest version.
LEMMA GreatestIsKept ==
  ASSUME NEW S \in SUBSET Version, NEW v \in S, \A w \in S : w <= v
  PROVE  v \in Prune(S)
<1>1. \A w \in S : ~(w > v)
  BY DEF Version
<1>2. {w \in S : w > v} = {}
  BY <1>1
<1>3. Cardinality({w \in S : w > v}) < Keep
  BY <1>2, FS_EmptySet, LimitsAreNaturals
<1>. QED
  BY <1>3 DEF Prune

\* Pruning drops versions and never all of them.
LEMMA PruneKeepsOne ==
  ASSUME NEW S \in SUBSET Version, S # {}
  PROVE  Prune(S) \subseteq S /\ Prune(S) # {}
<1>1. PICK v \in S : \A w \in S : w <= v
  BY HasGreatest
<1>2. v \in Prune(S)
  BY <1>1, GreatestIsKept
<1>. QED
  BY <1>2 DEF Prune

-----------------------------------------------------------------------------
(* Type correctness.                                                       *)

\* The quota part of the type invariant, by the operators that change it.
QuotaTypeOK ==
  /\ day \in Day
  /\ count \in [Day -> Nat]
  /\ chargedOn \in [Run -> Day \cup {0}]
  /\ delivered \in [Day -> Nat]
  /\ carried \in [Day -> Nat]
  /\ lost \in [Day -> Nat]

\* The rest of it.
RequestTypeOK ==
  /\ exists \in SUBSET Project
  /\ status \in [Project -> Status]
  /\ codes \in [Project -> SUBSET Version]
  /\ lockBy \in [Project -> Run \cup {None}]
  /\ tracker \in [Project -> {"none", "generating", "completed", "failed"}]
  /\ pc \in [Run -> PC]
  /\ proj \in [Run -> Project \cup {None}]
  /\ kind \in [Run -> {"none", "generate", "regenerate"}]
  /\ next \in [Run -> Version \cup {0}]
  /\ upc \in [Undo -> {"idle", "found", "numbered", "created"}]
  /\ uproj \in [Undo -> Project \cup {None}]
  /\ unext \in [Undo -> Version \cup {0}]
  /\ acked \in [Project -> SUBSET Version]
  /\ regens \in [Project -> Nat]

\* The days are naturals from 1 on.
LEMMA DaysArePositive == Day \subseteq Nat \ {0} /\ 1 \in Day /\ MaxDay \in Nat
  BY LimitsAreNaturals DEF Day

\* A decrement, successful or not, keeps the quota typed.
LEMMA RefundType ==
  ASSUME QuotaTypeOK, NEW r \in Run, Refund(r)
  PROVE  QuotaTypeOK'
<1>1. CASE UNCHANGED quota
  BY <1>1 DEF quota, QuotaTypeOK
<1>2. CASE DecrementToday(r)
  BY <1>2, DaysArePositive DEF DecrementToday, Missed, QuotaTypeOK
<1>3. CASE DecrementFails(r)
  BY <1>3, DaysArePositive DEF DecrementFails, Missed, QuotaTypeOK
<1>. QED
  BY <1>1, <1>2, <1>3 DEF Refund

\* A number of requests is a natural.
LEMMA RunsAreCountable ==
  ASSUME NEW S \in SUBSET Run
  PROVE  IsFiniteSet(S) /\ Cardinality(S) \in Nat
  BY FinitelyManyRuns, FS_Subset, FS_CardinalityType

\* Every step keeps the quota part of the state typed.
LEMMA QuotaTypeStep ==
  ASSUME QuotaTypeOK, [Next]_vars
  PROVE  QuotaTypeOK'
<1> USE DEF quota
<1>u. ASSUME UNCHANGED quota PROVE QuotaTypeOK'
  BY <1>u DEF QuotaTypeOK
<1>1. ASSUME NEW r \in Run, NEW p \in Project, NEW k \in {"generate", "regenerate"},
             Arrive(r, p, k)
      PROVE  QuotaTypeOK'
  <2>1. CASE Charge(r)
    BY <2>1, DaysArePositive DEF Charge, QuotaTypeOK
  <2>2. CASE FailOpen
    BY <2>2, <1>u DEF FailOpen
  <2>. QED
    BY <1>1, <2>1, <2>2 DEF Arrive
<1>2. ASSUME NEW r \in Run, RunStep(r) PROVE QuotaTypeOK'
  <2>1. CASE Refund(r)
    BY <2>1, RefundType
  <2>2. CASE Complete(r)
    BY <2>2, DaysArePositive DEF Complete, Deliver, QuotaTypeOK
  <2>3. Refund(r) \/ Complete(r) \/ UNCHANGED quota
    BY <1>2 DEF RunStep, Lookup, LookupFails, RefuseOverCap, Acquire, AcquireThenThrow,
                AcquireFails, Reject, StagesSucceed, StagesFail, CreateCode,
                CreateCodeFails, UpdateStatus, UpdateStatusFails, Compensate,
                CompensateFails, PruneOld, HandleFailure, Release
  <2>. QED
    BY <2>1, <2>2, <2>3, <1>u
<1>3. ASSUME NEW u \in Undo, NEW p \in Project, UndoFind(u, p) PROVE QuotaTypeOK'
  BY <1>3, <1>u DEF UndoFind
<1>4. ASSUME NEW u \in Undo, UndoStep(u) PROVE QuotaTypeOK'
  BY <1>4, <1>u DEF UndoStep, UndoNumber, UndoCreate, UndoStatus, UndoFails
<1>5. ASSUME NEW p \in Project, OwnerStep(p) \/ Evict(p) PROVE QuotaTypeOK'
  BY <1>5, <1>u DEF OwnerStep, Publish, Unpublish, DeleteProject, Evict
<1>6. CASE Crash
  <2> DEFINE C(d) == Cardinality({r \in Run : chargedOn[r] = d})
  <2>1. \A d \in Day : C(d) \in Nat
    <3> TAKE d \in Day
    <3>1. {r \in Run : chargedOn[r] = d} \in SUBSET Run
      OBVIOUS
    <3>. QED
      BY <3>1, RunsAreCountable
  <2>2. /\ lost' = [d \in Day |-> lost[d] + C(d)]
        /\ chargedOn' = [r \in Run |-> 0]
        /\ UNCHANGED <<day, count, delivered, carried>>
    BY <1>6 DEF Crash
  <2> HIDE DEF C
  <2>3. lost' \in [Day -> Nat]
    BY <2>1, <2>2 DEF QuotaTypeOK
  <2>. QED
    BY <2>2, <2>3 DEF QuotaTypeOK
<1>7. CASE NextDay
  <2>1. day' \in Day
    BY <1>7, LimitsAreNaturals DEF NextDay, QuotaTypeOK, Day
  <2>. QED
    BY <1>7, <2>1 DEF NextDay, QuotaTypeOK
<1>8. CASE UNCHANGED vars
  BY <1>8, <1>u DEF vars
<1>. QED
  BY <1>1, <1>2, <1>3, <1>4, <1>5, <1>6, <1>7, <1>8 DEF Next

\* A request that is under way has a project, one that saves has a number.
UnderWay ==
  /\ \A r \in Run :
       /\ pc[r] # "idle" => proj[r] \in Project
       /\ pc[r] \in {"saving", "created", "compensating", "stored", "saved"} => next[r] \in Version
  /\ \A u \in Undo :
       /\ upc[u] # "idle" => uproj[u] \in Project
       /\ upc[u] \in UndoMidTurn => unext[u] \in Version

WellFormed == RequestTypeOK /\ UnderWay

\* The steps of the route, up to the lock, keep requests well formed.
LEMMA RouteWellFormed ==
  ASSUME WellFormed, NEW r \in Run,
         \/ Lookup(r) \/ LookupFails(r) \/ RefuseOverCap(r)
         \/ Acquire(r) \/ AcquireThenThrow(r) \/ AcquireFails(r)
  PROVE  WellFormed'
<1> USE DEF WellFormed, RequestTypeOK, UnderWay, project, rollback, history,
            PC, InPipeline, UndoMidTurn, At, Leave, Reject, TakeLock
<1>1. CASE Lookup(r)
  BY <1>1 DEF Lookup
<1>2. CASE LookupFails(r) \/ RefuseOverCap(r) \/ AcquireFails(r)
  BY <1>2 DEF LookupFails, RefuseOverCap, AcquireFails
<1>3. CASE Acquire(r)
  BY <1>3 DEF Acquire
<1>4. CASE AcquireThenThrow(r)
  BY <1>4 DEF AcquireThenThrow
<1>. QED
  BY <1>1, <1>2, <1>3, <1>4

\* So do the steps of the pipeline up to the saved version,
LEMMA SaveWellFormed ==
  ASSUME WellFormed, NEW r \in Run,
         \/ StagesSucceed(r) \/ StagesFail(r)
         \/ CreateCode(r) \/ CreateCodeFails(r)
         \/ UpdateStatus(r) \/ UpdateStatusFails(r)
         \/ Compensate(r) \/ CompensateFails(r)
  PROVE  WellFormed'
<1> USE DEF WellFormed, RequestTypeOK, UnderWay, project, rollback, history,
            PC, InPipeline, UndoMidTurn, At, Goto
<1>1. CASE StagesSucceed(r)
  <2>1. proj[r] \in Project
    BY <1>1 DEF StagesSucceed
  <2>2. NextVersion(proj[r]) \in Version
    BY <1>1, <2>1, NextVersionType, LimitsAreNaturals DEF StagesSucceed, Version
  <2>. QED
    BY <1>1, <2>1, <2>2 DEF StagesSucceed
<1>2. CASE StagesFail(r) \/ CreateCodeFails(r) \/ UpdateStatusFails(r) \/ CompensateFails(r)
  BY <1>2 DEF StagesFail, CreateCodeFails, UpdateStatusFails, CompensateFails
<1>3. CASE CreateCode(r)
  BY <1>3 DEF CreateCode, WithCode
<1>4. CASE UpdateStatus(r)
  BY <1>4 DEF UpdateStatus, SetStatus, Status
<1>5. CASE Compensate(r)
  BY <1>5 DEF Compensate
<1>. QED
  BY <1>1, <1>2, <1>3, <1>4, <1>5

\* those that report, refund and release,
LEMMA EndWellFormed ==
  ASSUME WellFormed, NEW r \in Run,
         PruneOld(r) \/ Complete(r) \/ HandleFailure(r) \/ Release(r)
  PROVE  WellFormed'
<1> USE DEF WellFormed, RequestTypeOK, UnderWay, project, rollback, history,
            PC, InPipeline, UndoMidTurn, At, Goto, Leave
<1>0. CASE PruneOld(r)
  <2>1. proj[r] \in Project /\ Prune(codes[proj[r]]) \in SUBSET Version
    BY <1>0 DEF PruneOld, Prune
  <2>2. codes' \in [Project -> SUBSET Version]
    BY <1>0, <2>1 DEF PruneOld
  <2>. QED
    BY <1>0, <2>2 DEF PruneOld
<1>1. CASE Complete(r)
  <2>1. proj[r] \in Project
    BY <1>1 DEF Complete
  <2>2. /\ acked' \in [Project -> SUBSET Version]
        /\ regens' \in [Project -> Nat]
        /\ tracker' \in [Project -> {"none", "generating", "completed", "failed"}]
    BY <1>1, <2>1 DEF Complete
  <2>. QED
    BY <1>1, <2>2 DEF Complete
<1>2. CASE HandleFailure(r)
  BY <1>2 DEF HandleFailure
<1>3. CASE Release(r)
  BY <1>3 DEF Release
<1>. QED
  BY <1>0, <1>1, <1>2, <1>3

\* the steps of a rollback,
LEMMA UndoWellFormed ==
  ASSUME WellFormed, NEW u \in Undo,
         (\E p \in Project : UndoFind(u, p)) \/ UndoStep(u)
  PROVE  WellFormed'
<1> USE DEF WellFormed, RequestTypeOK, UnderWay, project, request, history,
            UndoMidTurn, UndoAt, UndoLeave
<1>1. CASE \E p \in Project : UndoFind(u, p)
  BY <1>1 DEF UndoFind
<1>2. CASE UndoNumber(u)
  <2>1. uproj[u] \in Project
    BY <1>2 DEF UndoNumber
  <2>2. NextVersion(uproj[u]) \in Version
    BY <1>2, <2>1, NextVersionType, LimitsAreNaturals DEF UndoNumber, Version
  <2>. QED
    BY <1>2, <2>1, <2>2 DEF UndoNumber
<1>3. CASE UndoCreate(u)
  BY <1>3 DEF UndoCreate, WithCode
<1>4. CASE UndoStatus(u)
  BY <1>4 DEF UndoStatus, SetStatus, Status
<1>5. CASE UndoFails(u)
  BY <1>5 DEF UndoFails
<1>. QED
  BY <1>1, <1>2, <1>3, <1>4, <1>5 DEF UndoStep

\* and every other step.
LEMMA WellFormedStep ==
  ASSUME WellFormed, [Next]_vars
  PROVE  WellFormed'
<1>1. ASSUME NEW r \in Run, NEW p \in Project, NEW k \in {"generate", "regenerate"},
             Arrive(r, p, k)
      PROVE  WellFormed'
  BY <1>1 DEF Arrive, WellFormed, RequestTypeOK, UnderWay, project, rollback, history,
              PC, InPipeline, UndoMidTurn, At
<1>2. ASSUME NEW r \in Run, RunStep(r) PROVE WellFormed'
  BY <1>2, RouteWellFormed, SaveWellFormed, EndWellFormed DEF RunStep
<1>3. ASSUME NEW u \in Undo, (\E p \in Project : UndoFind(u, p)) \/ UndoStep(u)
      PROVE  WellFormed'
  BY <1>3, UndoWellFormed
<1>4. ASSUME NEW p \in Project, OwnerStep(p) \/ Evict(p) PROVE WellFormed'
  <2> USE DEF WellFormed, RequestTypeOK, UnderWay, project, request, rollback, history
  <2>1. CASE Publish(p) \/ Unpublish(p)
    BY <2>1 DEF Publish, Unpublish, SetStatus, Status
  <2>2. CASE DeleteProject(p)
    BY <2>2 DEF DeleteProject
  <2>3. CASE Evict(p)
    BY <2>3 DEF Evict
  <2>. QED
    BY <1>4, <2>1, <2>2, <2>3 DEF OwnerStep
<1>5. CASE Crash
  BY <1>5 DEF Crash, WellFormed, RequestTypeOK, UnderWay, project, history, PC, UndoMidTurn
<1>6. CASE NextDay
  BY <1>6 DEF NextDay, WellFormed, RequestTypeOK, UnderWay, project, request, rollback, history
<1>7. CASE UNCHANGED vars
  BY <1>7 DEF vars, WellFormed, RequestTypeOK, UnderWay, project, request, rollback, history
<1>. QED
  BY <1>1, <1>2, <1>3, <1>4, <1>5, <1>6, <1>7 DEF Next

\* The initial state is well typed.
LEMMA InitWellFormed == Init => QuotaTypeOK /\ WellFormed
  BY DaysArePositive DEF Init, QuotaTypeOK, WellFormed, RequestTypeOK, UnderWay,
     Status, PC, UndoMidTurn, Day

\* Every reachable state is well typed and every request well formed.
THEOREM AlwaysWellFormed == Spec => [](QuotaTypeOK /\ WellFormed)
<1>1. QuotaTypeOK /\ WellFormed /\ [Next]_vars => (QuotaTypeOK /\ WellFormed)'
  BY QuotaTypeStep, WellFormedStep
<1>. QED
  BY <1>1, InitWellFormed, PTL DEF Spec

\* The type invariant of the generation request.
THEOREM TypeCorrect == Spec => []TypeOK
<1>1. QuotaTypeOK /\ WellFormed => TypeOK
  BY DEF QuotaTypeOK, WellFormed, RequestTypeOK, TypeOK
<1>. QED
  BY <1>1, AlwaysWellFormed, PTL

-----------------------------------------------------------------------------
(* At most one pipeline of an existing project.                            *)

InPipelineOn(r, p) == pc[r] \in InPipeline /\ proj[r] = p

\* The lock row of an existing project names the pipeline that runs on it.
HoldersHold ==
  \A r \in Run : \A p \in exists : InPipelineOn(r, p) => lockBy[p] = r

\* Steps that neither start nor end a pipeline nor touch a lock row.
LEMMA LockFrame ==
  ASSUME HoldersHold, exists' \subseteq exists, UNCHANGED lockBy,
         \A r \in Run : pc'[r] \in InPipeline => pc[r] \in InPipeline /\ proj'[r] = proj[r]
  PROVE  HoldersHold'
  BY DEF HoldersHold, InPipelineOn

\* The row is free for a request only when no other pipeline of an existing
\* project is running.
LEMMA LockIsFree ==
  ASSUME WellFormed, HoldersHold, NEW r \in Run, TakeLock(r), proj[r] \in exists
  PROVE  \A s \in Run : ~InPipelineOn(s, proj[r])
<1> SUFFICES ASSUME NEW s \in Run, InPipelineOn(s, proj[r]) PROVE FALSE
  OBVIOUS
<1>1. lockBy[proj[r]] = s
  BY DEF HoldersHold
<1>2. LiveLock(proj[r])
  BY <1>1, NoneIsNoRunOrProject DEF LiveLock, InPipelineOn
<1>. QED
  BY <1>2 DEF TakeLock

\* Every step keeps the lock rows with the pipelines they protect.
LEMMA HoldersHoldStep ==
  ASSUME WellFormed, HoldersHold, [Next]_vars
  PROVE  HoldersHold'
<1> USE DEF WellFormed, RequestTypeOK, UnderWay, project, request
<1>1. ASSUME NEW r \in Run, NEW p \in Project, NEW k \in {"generate", "regenerate"},
             Arrive(r, p, k)
      PROVE  HoldersHold'
  BY <1>1, LockFrame DEF Arrive, At, InPipeline
<1>2. ASSUME NEW r \in Run, TakeLock(r), exists' = exists, proj'[r] \in {proj[r], None},
             pc'[r] \in InPipeline => proj'[r] = proj[r],
             \A s \in Run \ {r} : pc'[s] = pc[s] /\ proj'[s] = proj[s]
      PROVE  HoldersHold'
  <2> SUFFICES ASSUME NEW s \in Run, NEW p \in exists, InPipelineOn(s, p)'
               PROVE  lockBy'[p] = s
    BY <1>2 DEF HoldersHold
  <2>1. proj[r] \in Project /\ p \in Project
    BY <1>2 DEF TakeLock, At
  <2>2. CASE s = r
    BY <1>2, <2>1, <2>2 DEF InPipelineOn, TakeLock
  <2>3. CASE s # r
    <3>1. InPipelineOn(s, p) /\ lockBy[p] = s
      BY <1>2, <2>3 DEF InPipelineOn, HoldersHold
    <3>2. p # proj[r]
      BY <1>2, <3>1, LockIsFree
    <3>. QED
      BY <1>2, <2>1, <3>1, <3>2 DEF TakeLock
  <2>. QED
    BY <2>2, <2>3
<1>3. ASSUME NEW r \in Run,
             \/ Lookup(r) \/ LookupFails(r) \/ RefuseOverCap(r)
             \/ Acquire(r) \/ AcquireThenThrow(r) \/ AcquireFails(r)
      PROVE  HoldersHold'
  <2>1. CASE Lookup(r)
    BY <2>1, LockFrame DEF Lookup, At, InPipeline
  <2>2. CASE LookupFails(r) \/ RefuseOverCap(r) \/ AcquireFails(r)
    BY <2>2, LockFrame DEF LookupFails, RefuseOverCap, AcquireFails, Reject, Leave, At, InPipeline
  <2>3. CASE Acquire(r)
    BY <2>3, <1>2 DEF Acquire
  <2>4. CASE AcquireThenThrow(r)
    BY <2>4, <1>2 DEF AcquireThenThrow, Reject, Leave, InPipeline
  <2>. QED
    BY <1>3, <2>1, <2>2, <2>3, <2>4
<1>4. ASSUME NEW r \in Run,
             \/ StagesSucceed(r) \/ StagesFail(r)
             \/ CreateCode(r) \/ CreateCodeFails(r)
             \/ UpdateStatus(r) \/ UpdateStatusFails(r)
             \/ Compensate(r) \/ CompensateFails(r)
             \/ PruneOld(r) \/ Complete(r) \/ HandleFailure(r)
      PROVE  HoldersHold'
  <2>1. /\ exists' = exists /\ lockBy' = lockBy /\ proj' = proj
        /\ pc[r] \in InPipeline
        /\ \A s \in Run \ {r} : pc'[s] = pc[s]
    BY <1>4 DEF StagesSucceed, StagesFail, CreateCode, CreateCodeFails, UpdateStatus,
       UpdateStatusFails, Compensate, CompensateFails, PruneOld, Complete, HandleFailure, Goto,
       At, InPipeline
  <2>. QED
    BY <2>1, LockFrame
<1>5. ASSUME NEW r \in Run, Release(r) PROVE HoldersHold'
  <2> SUFFICES ASSUME NEW s \in Run, NEW p \in exists, InPipelineOn(s, p)'
               PROVE  lockBy'[p] = s
    BY <1>5 DEF HoldersHold, Release
  <2>1. s # r /\ InPipelineOn(s, p)
    BY <1>5 DEF Release, Leave, InPipelineOn, InPipeline
  <2>2. InPipelineOn(r, proj[r])
    BY <1>5 DEF Release, At, InPipelineOn, InPipeline
  <2>3. lockBy[p] = s /\ p # proj[r]
    BY <2>1, <2>2 DEF HoldersHold
  <2>. QED
    BY <1>5, <2>3 DEF Release
<1>6. ASSUME NEW u \in Undo, (\E p \in Project : UndoFind(u, p)) \/ UndoStep(u)
      PROVE  HoldersHold'
  BY <1>6, LockFrame DEF UndoFind, UndoStep, UndoNumber, UndoCreate, UndoStatus, UndoFails
<1>7. ASSUME NEW p \in Project, OwnerStep(p) \/ Evict(p) PROVE HoldersHold'
  <2>1. CASE Publish(p) \/ Unpublish(p) \/ Evict(p)
    BY <2>1, LockFrame DEF Publish, Unpublish, Evict
  <2>2. CASE DeleteProject(p)
    BY <2>2 DEF DeleteProject, HoldersHold, InPipelineOn
  <2>. QED
    BY <1>7, <2>1, <2>2 DEF OwnerStep
<1>8. CASE Crash
  BY <1>8, LockFrame DEF Crash, InPipeline
<1>9. CASE NextDay \/ UNCHANGED vars
  BY <1>9, LockFrame DEF NextDay, vars
<1>. QED
  BY <1>1, <1>3, <1>4, <1>5, <1>6, <1>7, <1>8, <1>9 DEF Next, RunStep

\* The lock row of an existing project always names its running pipeline.
THEOREM HoldersAlwaysHold == Spec => [](WellFormed /\ HoldersHold)
<1>1. Init => WellFormed /\ HoldersHold
  BY InitWellFormed DEF Init, HoldersHold, InPipelineOn, InPipeline
<1>2. WellFormed /\ HoldersHold /\ [Next]_vars => (WellFormed /\ HoldersHold)'
  BY WellFormedStep, HoldersHoldStep
<1>. QED
  BY <1>1, <1>2, PTL DEF Spec

\* Steps of a request outside its pipeline leave every flight as it is.
LEMMA SameFlight ==
  ASSUME exists' = exists,
         \A s \in Run :
           \/ pc'[s] = pc[s] /\ proj'[s] = proj[s]
           \/ pc[s] \notin InPipeline /\ pc'[s] \notin InPipeline
           \/ pc[s] \in InPipeline /\ pc'[s] \in InPipeline /\ proj'[s] = proj[s]
  PROVE  exists' = exists /\ Flight' = Flight
  BY DEF Flight

\* Every step is a step of SingleFlight or leaves its variables unchanged.
LEMMA SingleFlightStep ==
  ASSUME WellFormed, HoldersHold, [Next]_vars
  PROVE  [SF!Next]_SF!sfVars
<1> USE DEF WellFormed, RequestTypeOK, UnderWay, project, request
<1> DEFINE Same == exists' = exists /\ Flight' = Flight
<1>1. ASSUME NEW r \in Run, NEW p \in Project, NEW k \in {"generate", "regenerate"},
             Arrive(r, p, k)
      PROVE  Same
  BY <1>1, SameFlight DEF Arrive, At, InPipeline
<1>2. ASSUME NEW r \in Run,
             \/ Lookup(r) \/ LookupFails(r) \/ RefuseOverCap(r)
             \/ AcquireThenThrow(r) \/ AcquireFails(r)
      PROVE  Same
  BY <1>2, SameFlight DEF Lookup, LookupFails, RefuseOverCap, AcquireThenThrow,
     AcquireFails, TakeLock, Reject, Leave, At, InPipeline
<1>3. ASSUME NEW r \in Run, Acquire(r) PROVE SF!Next
  <2>1. Flight[r] = None /\ proj[r] \in Project
    BY <1>3 DEF Acquire, TakeLock, At, Flight, InPipeline
  <2>2. proj[r] \in exists => \A s \in Run : Flight[s] # proj[r]
    BY <1>3, <2>1, LockIsFree, NoneIsNoRunOrProject DEF Acquire, Flight, InPipelineOn
  <2>3. Flight' = [Flight EXCEPT ![r] = proj[r]]
    BY <1>3 DEF Acquire, TakeLock, Flight, InPipeline
  <2>4. SF!Start(r, proj[r])
    BY <1>3, <2>1, <2>2, <2>3 DEF Acquire, SF!Start
  <2>. QED
    BY <2>1, <2>4 DEF SF!Next
<1>4. ASSUME NEW r \in Run,
             \/ StagesSucceed(r) \/ StagesFail(r)
             \/ CreateCode(r) \/ CreateCodeFails(r)
             \/ UpdateStatus(r) \/ UpdateStatusFails(r)
             \/ Compensate(r) \/ CompensateFails(r)
             \/ PruneOld(r) \/ Complete(r) \/ HandleFailure(r)
      PROVE  Same
  <2>1. /\ exists' = exists /\ proj' = proj
        /\ pc[r] \in InPipeline /\ pc'[r] \in InPipeline
        /\ \A s \in Run \ {r} : pc'[s] = pc[s]
    BY <1>4 DEF StagesSucceed, StagesFail, CreateCode, CreateCodeFails, UpdateStatus,
       UpdateStatusFails, Compensate, CompensateFails, PruneOld, Complete, HandleFailure, Goto,
       At, InPipeline
  <2>. QED
    BY <2>1, SameFlight
<1>5. ASSUME NEW r \in Run, Release(r) PROVE SF!Next
  <2>1. Flight' = [s \in Run |-> IF s \in {r} THEN None ELSE Flight[s]]
    BY <1>5 DEF Release, Leave, Flight, InPipeline
  <2>2. SF!Stop({r})
    BY <1>5, <2>1 DEF Release, SF!Stop
  <2>. QED
    BY <2>2 DEF SF!Next
<1>6. ASSUME NEW u \in Undo, (\E p \in Project : UndoFind(u, p)) \/ UndoStep(u) PROVE Same
  BY <1>6, SameFlight DEF UndoFind, UndoStep, UndoNumber, UndoCreate, UndoStatus, UndoFails
<1>7. ASSUME NEW p \in Project, OwnerStep(p) \/ Evict(p) PROVE Same \/ SF!Next
  <2>1. CASE Publish(p) \/ Unpublish(p) \/ Evict(p)
    BY <2>1, SameFlight DEF Publish, Unpublish, Evict
  <2>2. CASE DeleteProject(p)
    <3>1. Flight' = Flight
      BY <2>2 DEF DeleteProject, Flight
    <3>. QED
      BY <2>2, <3>1 DEF DeleteProject, SF!Next, SF!Retire
  <2>. QED
    BY <1>7, <2>1, <2>2 DEF OwnerStep
<1>8. ASSUME Crash PROVE SF!Next
  <2>1. Flight' = [s \in Run |-> IF s \in Run THEN None ELSE Flight[s]]
    BY <1>8 DEF Crash, Flight, InPipeline
  <2>2. SF!Stop(Run)
    BY <1>8, <2>1 DEF Crash, SF!Stop
  <2>. QED
    BY <2>2 DEF SF!Next
<1>9. ASSUME NextDay \/ UNCHANGED vars PROVE Same
  BY <1>9, SameFlight DEF NextDay, vars
<1>10. Same \/ SF!Next
  BY <1>1, <1>2, <1>3, <1>4, <1>5, <1>6, <1>7, <1>8, <1>9 DEF Next, RunStep
<1>. QED
  BY <1>10 DEF SF!sfVars

\* The requests implement SingleFlight: at most one pipeline of an existing
\* project is in flight, whatever crashes, deletions and failures happen.
THEOREM RefinesSingleFlight == Spec => ImplementsSingleFlight
<1>1. Init => SF!Init
  BY DEF Init, SF!Init, Flight, InPipeline
<1>2. WellFormed /\ HoldersHold /\ [Next]_vars => [SF!Next]_SF!sfVars
  BY SingleFlightStep
<1>. QED
  BY <1>1, <1>2, HoldersAlwaysHold, PTL DEF Spec, ImplementsSingleFlight, SF!Spec

-----------------------------------------------------------------------------
(* The progress entry shown while a pipeline runs is its own.              *)

\* A step that restarts no entry with a verdict and starts no pipeline.
LEMMA VerdictFrame ==
  ASSUME NoStaleVerdict, exists' \subseteq exists,
         \A p \in Project : tracker'[p] \in {tracker[p], "none"},
         \A r \in Run : pc'[r] \in InPipeline \ {"closing"} =>
                       /\ pc[r] \in InPipeline \ {"closing"}
                       /\ proj'[r] = proj[r]
                       /\ proj[r] \in Project
  PROVE  NoStaleVerdict'
  BY DEF NoStaleVerdict

\* Only the pipeline that ends writes a verdict, and no other is running.
LEMMA VerdictIsOwn ==
  ASSUME WellFormed, HoldersHold, NoStaleVerdict, NEW r \in Run,
         Complete(r) \/ HandleFailure(r)
  PROVE  NoStaleVerdict'
<1> USE DEF WellFormed, RequestTypeOK, UnderWay, project, At, Goto
<1> SUFFICES ASSUME NEW s \in Run, pc'[s] \in InPipeline \ {"closing"}, proj'[s] \in exists'
             PROVE  tracker'[proj'[s]] \in {"none", "generating"}
  BY DEF NoStaleVerdict
<1>1. /\ exists' = exists /\ proj' = proj /\ s # r /\ pc'[s] = pc[s]
      /\ pc[r] \in InPipeline
      /\ \A p \in Project \ {proj[r]} : tracker'[p] = tracker[p]
  BY DEF Complete, HandleFailure, InPipeline
<1>2. proj[s] \in Project /\ proj[s] # proj[r]
  BY <1>1 DEF HoldersHold, InPipelineOn
<1>. QED
  BY <1>1, <1>2 DEF NoStaleVerdict

\* Every step keeps the progress entry of a pipeline free of other verdicts.
LEMMA VerdictStep ==
  ASSUME WellFormed, HoldersHold, NoStaleVerdict, [Next]_vars
  PROVE  NoStaleVerdict'
<1> USE DEF WellFormed, RequestTypeOK, UnderWay, project, request
<1>1. ASSUME NEW r \in Run, NEW p \in Project, NEW k \in {"generate", "regenerate"},
             Arrive(r, p, k)
      PROVE  NoStaleVerdict'
  BY <1>1, VerdictFrame DEF Arrive, At, InPipeline
<1>2. ASSUME NEW r \in Run,
             Lookup(r) \/ LookupFails(r) \/ RefuseOverCap(r) \/ AcquireFails(r)
      PROVE  NoStaleVerdict'
  BY <1>2, VerdictFrame DEF Lookup, LookupFails, RefuseOverCap, AcquireFails, Reject,
     Leave, At, InPipeline
<1>3. ASSUME NEW r \in Run, Acquire(r) \/ AcquireThenThrow(r) PROVE NoStaleVerdict'
  <2>1. /\ exists' = exists
        /\ tracker' = [tracker EXCEPT ![proj[r]] = "generating"]
        /\ \A s \in Run \ {r} : pc'[s] = pc[s] /\ proj'[s] = proj[s]
        /\ pc'[r] \in InPipeline => proj'[r] = proj[r]
        /\ proj[r] \in Project
    BY <1>3 DEF Acquire, AcquireThenThrow, TakeLock, Reject, Leave, At, InPipeline
  <2>. QED
    BY <2>1 DEF NoStaleVerdict
<1>4. ASSUME NEW r \in Run,
             \/ StagesSucceed(r) \/ StagesFail(r)
             \/ CreateCode(r) \/ CreateCodeFails(r)
             \/ UpdateStatus(r) \/ UpdateStatusFails(r)
             \/ Compensate(r) \/ CompensateFails(r) \/ PruneOld(r)
      PROVE  NoStaleVerdict'
  <2>1. /\ exists' = exists /\ tracker' = tracker /\ proj' = proj
        /\ pc[r] \in InPipeline \ {"closing"}
        /\ \A s \in Run \ {r} : pc'[s] = pc[s]
    BY <1>4 DEF StagesSucceed, StagesFail, CreateCode, CreateCodeFails, UpdateStatus,
       UpdateStatusFails, Compensate, CompensateFails, PruneOld, Goto, At, InPipeline
  <2>. QED
    BY <2>1, VerdictFrame DEF InPipeline
<1>5. ASSUME NEW r \in Run, Release(r) PROVE NoStaleVerdict'
  BY <1>5, VerdictFrame DEF Release, Leave, At, InPipeline
<1>6. ASSUME NEW u \in Undo, (\E p \in Project : UndoFind(u, p)) \/ UndoStep(u)
      PROVE  NoStaleVerdict'
  BY <1>6, VerdictFrame DEF UndoFind, UndoStep, UndoNumber, UndoCreate, UndoStatus,
     UndoFails, InPipeline
<1>7. ASSUME NEW p \in Project, OwnerStep(p) \/ Evict(p) PROVE NoStaleVerdict'
  BY <1>7, VerdictFrame DEF OwnerStep, Publish, Unpublish, DeleteProject, Evict, InPipeline
<1>8. CASE Crash
  BY <1>8, VerdictFrame DEF Crash, InPipeline
<1>9. CASE NextDay \/ UNCHANGED vars
  BY <1>9, VerdictFrame DEF NextDay, vars, InPipeline
<1>. QED
  BY <1>1, <1>2, <1>3, <1>4, <1>5, <1>6, <1>7, <1>8, <1>9, VerdictIsOwn DEF Next, RunStep

\* While a pipeline of an existing project runs, polling never shows it the
\* verdict of an earlier one.
THEOREM VerdictIsNeverStale == Spec => []NoStaleVerdict
<1>1. Init => NoStaleVerdict
  BY DEF Init, NoStaleVerdict, InPipeline
<1>2. WellFormed /\ HoldersHold /\ NoStaleVerdict /\ [Next]_vars => NoStaleVerdict'
  BY VerdictStep
<1>. QED
  BY <1>1, <1>2, HoldersAlwaysHold, PTL DEF Spec

-----------------------------------------------------------------------------
(* A progress display that goes on has a pipeline, or a row left behind.   *)

\* A pipeline that has not reported yet.
AtWork(r, p) == pc[r] \in InPipeline \ {"closing"} /\ proj[r] = p

\* Steps that start no display, end no work that has one and touch no row.
LEMMA OwnerFrame ==
  ASSUME ProgressHasOwner, exists' \subseteq exists,
         \A p \in exists' :
           /\ lockBy'[p] = lockBy[p]
           /\ tracker'[p] = "generating" =>
                /\ tracker[p] = "generating"
                /\ \A r \in Run : AtWork(r, p) => AtWork(r, p)'
                /\ \A r \in Run : InPipelineOn(r, p)' => InPipelineOn(r, p),
         \A p \in exists' : lockBy[p] \in Run \cup {None}
  PROVE  ProgressHasOwner'
<1> SUFFICES ASSUME NEW p \in exists', tracker'[p] = "generating",
                    ~ \E r \in Run : AtWork(r, p)'
             PROVE  lockBy'[p] # None /\ ~LiveLock(p)'
  BY DEF ProgressHasOwner, AtWork
<1>1. p \in exists /\ tracker[p] = "generating" /\ lockBy'[p] = lockBy[p]
  OBVIOUS
<1>2. ~ \E r \in Run : AtWork(r, p)
  OBVIOUS
<1>3. lockBy[p] # None /\ ~LiveLock(p)
  BY <1>1, <1>2 DEF ProgressHasOwner, AtWork
<1>4. lockBy[p] \in Run
  BY <1>3
<1>5. ~InPipelineOn(lockBy[p], p)
  BY <1>3 DEF LiveLock, InPipelineOn
<1>6. ~InPipelineOn(lockBy[p], p)'
  BY <1>1, <1>4, <1>5 DEF InPipelineOn
<1>. QED
  BY <1>1, <1>3, <1>6 DEF LiveLock, InPipelineOn

\* Whoever takes the row runs beside its fresh display, or leaves the row.
LEMMA OwnerTakes ==
  ASSUME WellFormed, ProgressHasOwner, NEW r \in Run, Acquire(r) \/ AcquireThenThrow(r)
  PROVE  ProgressHasOwner'
<1> USE DEF WellFormed, RequestTypeOK, UnderWay, project, request
<1>1. /\ pc[r] = "checked" /\ proj[r] \in Project /\ exists' = exists
      /\ lockBy' = [lockBy EXCEPT ![proj[r]] = r]
      /\ tracker' = [tracker EXCEPT ![proj[r]] = "generating"]
      /\ \A s \in Run \ {r} : pc'[s] = pc[s] /\ proj'[s] = proj[s]
      /\ \/ pc'[r] = "running" /\ proj'[r] = proj[r]
         \/ pc'[r] = "idle"
  BY DEF Acquire, AcquireThenThrow, TakeLock, At, Reject, Leave
<1> SUFFICES ASSUME NEW p \in exists, tracker'[p] = "generating"
             PROVE  \/ \E s \in Run : proj'[s] = p /\ pc'[s] \in InPipeline \ {"closing"}
                    \/ lockBy'[p] # None /\ ~LiveLock(p)'
  BY <1>1 DEF ProgressHasOwner
<1>2. CASE p = proj[r]
  <2>1. lockBy'[p] = r /\ r # None
    BY <1>1, <1>2, NoneIsNoRunOrProject
  <2>2. CASE pc'[r] = "running" /\ proj'[r] = proj[r]
    BY <1>2, <2>2 DEF InPipeline
  <2>3. CASE pc'[r] = "idle"
    BY <2>1, <2>3 DEF LiveLock, InPipeline
  <2>. QED
    BY <1>1, <2>2, <2>3
<1>3. CASE p # proj[r]
  <2>1. lockBy'[p] = lockBy[p] /\ tracker[p] = "generating"
    BY <1>1, <1>3
  <2>2. CASE \E s \in Run : proj[s] = p /\ pc[s] \in InPipeline \ {"closing"}
    BY <1>1, <2>2 DEF InPipeline
  <2>3. CASE lockBy[p] # None /\ ~LiveLock(p)
    BY <1>1, <1>3, <2>1, <2>3 DEF LiveLock, InPipeline
  <2>. QED
    BY <2>1, <2>2, <2>3 DEF ProgressHasOwner
<1>. QED
  BY <1>2, <1>3

\* A pipeline that reports ends its display,
LEMMA OwnerReports ==
  ASSUME WellFormed, ProgressHasOwner, NEW r \in Run, Complete(r) \/ HandleFailure(r)
  PROVE  ProgressHasOwner'
<1> USE DEF WellFormed, RequestTypeOK, UnderWay, project
<1>1. /\ pc[r] \in InPipeline /\ pc'[r] = "closing" /\ proj[r] \in Project
      /\ UNCHANGED <<exists, lockBy, proj>>
      /\ tracker'[proj[r]] # "generating"
      /\ \A p \in Project \ {proj[r]} : tracker'[p] = tracker[p]
      /\ \A s \in Run \ {r} : pc'[s] = pc[s]
  BY DEF Complete, HandleFailure, Goto, At, InPipeline
<1>. QED
  BY <1>1, OwnerFrame DEF AtWork, InPipelineOn, InPipeline

\* so that the one that releases the row leaves none running.
LEMMA OwnerReleases ==
  ASSUME WellFormed, HoldersHold, ProgressHasOwner, NEW r \in Run, Release(r)
  PROVE  ProgressHasOwner'
<1> USE DEF WellFormed, RequestTypeOK, UnderWay, project
<1>1. /\ pc[r] = "closing" /\ pc'[r] = "idle" /\ proj[r] \in Project
      /\ UNCHANGED <<exists, tracker>>
      /\ \A p \in Project \ {proj[r]} : lockBy'[p] = lockBy[p]
      /\ \A s \in Run \ {r} : pc'[s] = pc[s] /\ proj'[s] = proj[s]
  BY DEF Release, Leave, At
<1>2. proj[r] \in exists => tracker[proj[r]] # "generating"
  <2> SUFFICES ASSUME proj[r] \in exists PROVE tracker[proj[r]] # "generating"
    OBVIOUS
  <2>1. InPipelineOn(r, proj[r])
    BY <1>1 DEF InPipelineOn, InPipeline
  <2>2. LiveLock(proj[r])
    BY <2>1, NoneIsNoRunOrProject DEF HoldersHold, LiveLock, InPipelineOn
  <2>3. \A s \in Run : ~AtWork(s, proj[r])
    BY <1>1, <2>1 DEF HoldersHold, InPipelineOn, AtWork
  <2>. QED
    BY <2>2, <2>3 DEF ProgressHasOwner, AtWork
<1> SUFFICES ASSUME NEW p \in exists, tracker'[p] = "generating"
             PROVE  \/ \E s \in Run : proj'[s] = p /\ pc'[s] \in InPipeline \ {"closing"}
                    \/ lockBy'[p] # None /\ ~LiveLock(p)'
  BY <1>1 DEF ProgressHasOwner
<1>3. p # proj[r] /\ tracker[p] = "generating" /\ lockBy'[p] = lockBy[p]
  BY <1>1, <1>2
<1>4. CASE \E s \in Run : proj[s] = p /\ pc[s] \in InPipeline \ {"closing"}
  BY <1>1, <1>3, <1>4
<1>5. CASE lockBy[p] # None /\ ~LiveLock(p)
  BY <1>1, <1>3, <1>5 DEF LiveLock, InPipeline
<1>. QED
  BY <1>3, <1>4, <1>5 DEF ProgressHasOwner

\* Every step keeps each running display beside its pipeline or its row.
LEMMA OwnerStaysStep ==
  ASSUME WellFormed, HoldersHold, ProgressHasOwner, [Next]_vars
  PROVE  ProgressHasOwner'
<1> USE DEF WellFormed, RequestTypeOK, UnderWay, project, request, AtWork, InPipelineOn,
            InPipeline
<1>1. ASSUME NEW r \in Run, NEW p \in Project, NEW k \in {"generate", "regenerate"},
             Arrive(r, p, k)
      PROVE  ProgressHasOwner'
  BY <1>1, OwnerFrame DEF Arrive, At
<1>2. ASSUME NEW r \in Run,
             Lookup(r) \/ LookupFails(r) \/ RefuseOverCap(r) \/ AcquireFails(r)
      PROVE  ProgressHasOwner'
  BY <1>2, OwnerFrame DEF Lookup, LookupFails, RefuseOverCap, AcquireFails, Reject, Leave, At
<1>3. ASSUME NEW r \in Run,
             \/ StagesSucceed(r) \/ StagesFail(r)
             \/ CreateCode(r) \/ CreateCodeFails(r)
             \/ UpdateStatus(r) \/ UpdateStatusFails(r)
             \/ Compensate(r) \/ CompensateFails(r) \/ PruneOld(r)
      PROVE  ProgressHasOwner'
  <2>1. /\ UNCHANGED <<exists, lockBy, tracker, proj>>
        /\ pc[r] \in InPipeline /\ pc'[r] \in InPipeline \ {"closing"}
        /\ \A s \in Run \ {r} : pc'[s] = pc[s]
    BY <1>3 DEF StagesSucceed, StagesFail, CreateCode, CreateCodeFails, UpdateStatus,
       UpdateStatusFails, Compensate, CompensateFails, PruneOld, Goto, At
  <2>. QED
    BY <2>1, OwnerFrame
<1>4. ASSUME NEW u \in Undo, (\E p \in Project : UndoFind(u, p)) \/ UndoStep(u)
      PROVE  ProgressHasOwner'
  BY <1>4, OwnerFrame DEF UndoFind, UndoStep, UndoNumber, UndoCreate, UndoStatus, UndoFails
<1>5. ASSUME NEW p \in Project, OwnerStep(p) \/ Evict(p) PROVE ProgressHasOwner'
  BY <1>5, OwnerFrame DEF OwnerStep, Publish, Unpublish, DeleteProject, Evict
<1>6. CASE Crash
  BY <1>6 DEF Crash, ProgressHasOwner
<1>7. CASE NextDay \/ UNCHANGED vars
  BY <1>7, OwnerFrame DEF NextDay, vars
<1>. QED
  BY <1>1, <1>2, <1>3, <1>4, <1>5, <1>6, <1>7, OwnerTakes, OwnerReports, OwnerReleases
  DEF Next, RunStep

\* No pipeline ends, however it ends, and leaves its progress display running:
\* a display without one stands beside a lock row that a throw left behind.
THEOREM ProgressAlwaysHasOwner == Spec => []ProgressHasOwner
<1>1. Init => ProgressHasOwner
  BY DEF Init, ProgressHasOwner
<1>2. WellFormed /\ HoldersHold /\ ProgressHasOwner /\ [Next]_vars => ProgressHasOwner'
  BY OwnerStaysStep
<1>. QED
  BY <1>1, <1>2, HoldersAlwaysHold, PTL DEF Spec

-----------------------------------------------------------------------------
(* A project that has left draft has code.                                 *)

Saving(r, p) == pc[r] \in {"created", "compensating", "stored"} /\ proj[r] = p

\* A version no pipeline is about to take back.
Settled(p, v) ==
  \A r \in Run :
    pc[r] \in {"created", "compensating"} /\ proj[r] = p => next[r] # v

\* What a pipeline has inserted is there until it ends or takes it back, and
\* a project that has left draft, or is about to, has a settled version.
SettledCode ==
  /\ \A r \in Run : \A p \in exists : Saving(r, p) => next[r] \in codes[p]
  /\ \A p \in exists :
       (status[p] # "draft" \/ \E u \in Undo : upc[u] = "created" /\ uproj[u] = p)
         => \E v \in codes[p] : Settled(p, v)

\* Steps that change no code, status or saving request.
LEMMA SettledFrame ==
  ASSUME SettledCode, exists' \subseteq exists,
         UNCHANGED <<codes, status>>,
         \A r \in Run : pc'[r] \in {"created", "compensating", "stored"} =>
           /\ pc[r] \in {"created", "compensating", "stored"}
           /\ pc'[r] \in {"created", "compensating"} => pc[r] \in {"created", "compensating"}
           /\ proj'[r] = proj[r]
           /\ next'[r] = next[r],
         \A u \in Undo : upc'[u] = "created" => upc[u] = "created" /\ uproj'[u] = uproj[u]
  PROVE  SettledCode'
<1>1. \A p, v : Settled(p, v) => Settled(p, v)'
  BY DEF Settled
<1>2. \A r \in Run : \A p \in exists' : Saving(r, p)' => next'[r] \in codes'[p]
  BY DEF SettledCode, Saving
<1>3. ASSUME NEW p \in exists',
             status'[p] # "draft" \/ \E u \in Undo : upc'[u] = "created" /\ uproj'[u] = p
      PROVE  \E v \in codes'[p] : Settled(p, v)'
  <2>1. status[p] # "draft" \/ \E u \in Undo : upc[u] = "created" /\ uproj[u] = p
    BY <1>3
  <2>2. PICK v \in codes[p] : Settled(p, v)
    BY <2>1 DEF SettledCode
  <2>. QED
    BY <2>2, <1>1
<1>. QED
  BY <1>2, <1>3 DEF SettledCode

\* Another request that is saving is saving for another project.
LEMMA SaversApart ==
  ASSUME WellFormed, HoldersHold, NEW r \in Run, NEW s \in Run, s # r,
         pc[r] \in InPipeline, pc[s] \in InPipeline, proj[r] \in exists
  PROVE  proj[s] # proj[r]
  BY DEF HoldersHold, InPipelineOn

\* Inserting a version settles nothing and unsettles nothing.
LEMMA CreateSettled ==
  ASSUME WellFormed, HoldersHold, SettledCode, NEW r \in Run, CreateCode(r)
  PROVE  SettledCode'
<1> USE DEF WellFormed, RequestTypeOK, UnderWay, project, request, rollback
<1>1. /\ pc[r] = "saving" /\ proj[r] \in exists /\ proj[r] \in Project
      /\ next[r] \notin codes[proj[r]] /\ next[r] \in Version
      /\ codes' = [codes EXCEPT ![proj[r]] = @ \cup {next[r]}]
      /\ pc' = [pc EXCEPT ![r] = "created"]
      /\ UNCHANGED <<exists, status, proj, next, upc, uproj>>
  BY DEF CreateCode, At, Goto, Insertable, WithCode
<1>2. ASSUME NEW s \in Run, NEW p \in exists, Saving(s, p)'
      PROVE  next'[s] \in codes'[p]
  <2>1. p \in Project
    OBVIOUS
  <2>2. CASE s = r
    BY <1>1, <1>2, <2>2 DEF Saving
  <2>3. CASE s # r
    BY <1>1, <1>2, <2>1, <2>3 DEF Saving, SettledCode
  <2>. QED
    BY <2>2, <2>3
<1>3. ASSUME NEW p \in exists,
             status[p] # "draft" \/ \E u \in Undo : upc[u] = "created" /\ uproj[u] = p
      PROVE  \E v \in codes'[p] : Settled(p, v)'
  <2>1. PICK v \in codes[p] : Settled(p, v)
    BY <1>3 DEF SettledCode
  <2>2. v \in codes'[p]
    BY <1>1
  <2>3. Settled(p, v)'
    BY <1>1, <2>1 DEF Settled
  <2>. QED
    BY <2>2, <2>3
<1>. QED
  BY <1>1, <1>2, <1>3 DEF SettledCode

\* A status update settles the version that has just been inserted.
LEMMA UpdateSettled ==
  ASSUME WellFormed, HoldersHold, SettledCode, NEW r \in Run, UpdateStatus(r)
  PROVE  SettledCode'
<1> USE DEF WellFormed, RequestTypeOK, UnderWay, project, request, rollback
<1>1. /\ pc[r] = "created" /\ proj[r] \in exists /\ proj[r] \in Project
      /\ status' = [status EXCEPT ![proj[r]] = "generated"]
      /\ pc' = [pc EXCEPT ![r] = "stored"]
      /\ UNCHANGED <<exists, codes, proj, next, upc, uproj>>
  BY DEF UpdateStatus, At, Goto, SetStatus
<1>2. \A s \in Run : \A p \in exists : Saving(s, p)' => next'[s] \in codes'[p]
  BY <1>1 DEF SettledCode, Saving
<1>3. next[r] \in codes[proj[r]]
  BY <1>1 DEF SettledCode, Saving
<1>4. Settled(proj[r], next[r])'
  <2>1. \A s \in Run \ {r} : pc[s] \in {"created", "compensating"} => proj[s] # proj[r]
    BY <1>1, SaversApart DEF InPipeline
  <2>. QED
    BY <1>1, <2>1 DEF Settled
<1>5. ASSUME NEW p \in exists, p # proj[r],
             status[p] # "draft" \/ \E u \in Undo : upc[u] = "created" /\ uproj[u] = p
      PROVE  \E v \in codes[p] : Settled(p, v)'
  <2>1. PICK v \in codes[p] : Settled(p, v)
    BY <1>5 DEF SettledCode
  <2>. QED
    BY <1>1, <2>1 DEF Settled
<1>6. ASSUME NEW p \in exists,
             status'[p] # "draft" \/ \E u \in Undo : upc'[u] = "created" /\ uproj'[u] = p
      PROVE  \E v \in codes'[p] : Settled(p, v)'
  <2>1. CASE p = proj[r]
    BY <1>1, <1>3, <1>4, <2>1
  <2>2. CASE p # proj[r]
    BY <1>1, <1>5, <1>6, <2>2
  <2>. QED
    BY <2>1, <2>2
<1>. QED
  BY <1>1, <1>2, <1>6 DEF SettledCode

\* A compensation deletes its own version, which is not settled.
LEMMA CompensateSettled ==
  ASSUME WellFormed, HoldersHold, SettledCode, NEW r \in Run, Compensate(r)
  PROVE  SettledCode'
<1> USE DEF WellFormed, RequestTypeOK, UnderWay, project, request, rollback
<1>1. /\ pc[r] = "compensating" /\ proj[r] \in Project
      /\ codes' = [codes EXCEPT ![proj[r]] = @ \ {next[r]}]
      /\ pc' = [pc EXCEPT ![r] = "failing"]
      /\ UNCHANGED <<exists, status, proj, next, upc, uproj>>
  BY DEF Compensate, At, Goto
<1>2. ASSUME NEW s \in Run, NEW p \in exists, Saving(s, p)'
      PROVE  next'[s] \in codes'[p]
  <2>1. s # r /\ Saving(s, p) /\ next[s] \in codes[p] /\ p \in Project
    BY <1>1, <1>2 DEF Saving, SettledCode
  <2>2. p # proj[r]
    BY <1>1, <2>1, SaversApart DEF Saving, InPipeline
  <2>. QED
    BY <1>1, <2>1, <2>2
<1>3. ASSUME NEW p \in exists,
             status[p] # "draft" \/ \E u \in Undo : upc[u] = "created" /\ uproj[u] = p
      PROVE  \E v \in codes'[p] : Settled(p, v)'
  <2>1. PICK v \in codes[p] : Settled(p, v)
    BY <1>3 DEF SettledCode
  <2>2. v \in codes'[p]
    BY <1>1, <2>1 DEF Settled
  <2>3. Settled(p, v)'
    BY <1>1, <2>1 DEF Settled
  <2>. QED
    BY <2>2, <2>3
<1>. QED
  BY <1>1, <1>2, <1>3 DEF SettledCode

\* Pruning leaves a settled version.
LEMMA PruneSettled ==
  ASSUME WellFormed, HoldersHold, SettledCode, NEW r \in Run, PruneOld(r)
  PROVE  SettledCode'
<1> USE DEF WellFormed, RequestTypeOK, UnderWay, project, request, rollback
<1>1. /\ pc[r] = "stored" /\ proj[r] \in Project
      /\ \/ codes' = [codes EXCEPT ![proj[r]] = Prune(codes[proj[r]])]
         \/ codes' = codes
      /\ pc' = [pc EXCEPT ![r] = "saved"]
      /\ UNCHANGED <<exists, status, proj, next, upc, uproj>>
  BY DEF PruneOld, At, Goto
<1>2. \A p \in Project \ {proj[r]} : codes'[p] = codes[p]
  BY <1>1
<1>3. ASSUME proj[r] \in exists,
             NEW s \in Run, pc'[s] \in {"created", "compensating", "stored"}
      PROVE  proj'[s] # proj[r]
  <2>1. s # r /\ pc[s] \in InPipeline /\ pc[r] \in InPipeline
    BY <1>1, <1>3 DEF InPipeline
  <2>. QED
    BY <1>1, <1>3, <2>1, SaversApart
<1>4. ASSUME NEW s \in Run, NEW p \in exists, Saving(s, p)'
      PROVE  next'[s] \in codes'[p]
  <2>1. p # proj[r] /\ p \in Project
    BY <1>3, <1>4 DEF Saving
  <2>2. Saving(s, p)
    BY <1>1, <1>4 DEF Saving
  <2>. QED
    BY <1>1, <1>2, <2>1, <2>2 DEF SettledCode
<1>5. ASSUME NEW p \in exists,
             status[p] # "draft" \/ \E u \in Undo : upc[u] = "created" /\ uproj[u] = p
      PROVE  \E v \in codes'[p] : Settled(p, v)'
  <2>1. CASE p = proj[r]
    <3>1. codes[p] # {} /\ codes[p] \in SUBSET Version
      BY <1>1, <2>1 DEF SettledCode, Saving
    <3>2. codes'[p] # {}
      BY <1>1, <2>1, <3>1, PruneKeepsOne
    <3>3. \A v : Settled(p, v)'
      BY <1>3, <2>1 DEF Settled
    <3>. QED
      BY <3>2, <3>3
  <2>2. CASE p # proj[r]
    <3>1. PICK v \in codes[p] : Settled(p, v)
      BY <1>5 DEF SettledCode
    <3>2. Settled(p, v)'
      BY <1>1, <3>1 DEF Settled
    <3>. QED
      BY <1>2, <2>2, <3>1, <3>2
  <2>. QED
    BY <2>1, <2>2
<1>. QED
  BY <1>1, <1>4, <1>5 DEF SettledCode

\* A rollback settles the version it inserts.
LEMMA UndoSettled ==
  ASSUME WellFormed, SettledCode, NEW u \in Undo, UndoCreate(u) \/ UndoStatus(u)
  PROVE  SettledCode'
<1> USE DEF WellFormed, RequestTypeOK, UnderWay, project, request, rollback
<1>1. CASE UndoCreate(u)
  <2>1. /\ uproj[u] \in exists /\ uproj[u] \in Project
        /\ unext[u] \notin codes[uproj[u]]
        /\ codes' = [codes EXCEPT ![uproj[u]] = @ \cup {unext[u]}]
        /\ upc' = [upc EXCEPT ![u] = "created"]
        /\ UNCHANGED <<exists, status, pc, proj, next, uproj, unext>>
    BY <1>1 DEF UndoCreate, UndoAt, Insertable, WithCode
  <2>2. \A p \in exists : codes[p] \subseteq codes'[p]
    BY <2>1
  <2>3. \A p, v : Settled(p, v) => Settled(p, v)'
    BY <2>1 DEF Settled
  <2>4. Settled(uproj[u], unext[u])
    BY <2>1 DEF SettledCode, Settled, Saving
  <2>5. ASSUME NEW p \in exists, p # uproj[u],
               status[p] # "draft" \/ \E w \in Undo : upc'[w] = "created" /\ uproj[w] = p
        PROVE  \E v \in codes'[p] : Settled(p, v)'
    <3>1. status[p] # "draft" \/ \E w \in Undo : upc[w] = "created" /\ uproj[w] = p
      BY <2>1, <2>5
    <3>. QED
      BY <2>2, <2>3, <3>1 DEF SettledCode
  <2>6. unext[u] \in codes'[uproj[u]]
    BY <2>1
  <2>7. \A r \in Run : \A p \in exists : Saving(r, p)' => next'[r] \in codes'[p]
    BY <2>1, <2>2 DEF SettledCode, Saving
  <2>. QED
    BY <2>1, <2>3, <2>4, <2>5, <2>6, <2>7 DEF SettledCode
<1>2. CASE UndoStatus(u)
  <2>1. /\ upc[u] = "created" /\ uproj[u] \in exists
        /\ status' = [status EXCEPT ![uproj[u]] = "generated"]
        /\ upc' = [upc EXCEPT ![u] = "idle"]
        /\ uproj' = [uproj EXCEPT ![u] = None]
        /\ UNCHANGED <<exists, codes, pc, proj, next>>
    BY <1>2 DEF UndoStatus, UndoAt, UndoLeave, SetStatus
  <2>2. \A r \in Run : \A p \in exists : Saving(r, p)' => next'[r] \in codes'[p]
    BY <2>1 DEF SettledCode, Saving
  <2>3. \A p, v : Settled(p, v) => Settled(p, v)'
    BY <2>1 DEF Settled
  <2>4. ASSUME NEW p \in exists,
               status'[p] # "draft" \/ \E w \in Undo : upc'[w] = "created" /\ uproj'[w] = p
        PROVE  \E v \in codes[p] : Settled(p, v)
    <3>1. status[p] # "draft" \/ \E w \in Undo : upc[w] = "created" /\ uproj[w] = p
      BY <2>1, <2>4
    <3>. QED
      BY <3>1 DEF SettledCode
  <2>. QED
    BY <2>1, <2>2, <2>3, <2>4 DEF SettledCode
<1>. QED
  BY <1>1, <1>2

\* Publishing, unpublishing and deletion leave settled versions alone.
LEMMA OwnerSettled ==
  ASSUME WellFormed, SettledCode, NEW p \in Project, OwnerStep(p)
  PROVE  SettledCode'
<1> USE DEF WellFormed, RequestTypeOK, UnderWay, project, request, rollback
<1>1. /\ exists' \subseteq exists
      /\ \A q \in exists' : codes'[q] = codes[q] /\ (status'[q] # "draft" => status[q] # "draft")
      /\ UNCHANGED <<pc, proj, next, upc, uproj>>
  BY DEF OwnerStep, Publish, Unpublish, DeleteProject, SetStatus, Publishable
<1>2. \A q, v : Settled(q, v) => Settled(q, v)'
  BY <1>1 DEF Settled
<1>3. \A r \in Run : \A q \in exists' : Saving(r, q)' => next'[r] \in codes'[q]
  BY <1>1 DEF SettledCode, Saving
<1>4. ASSUME NEW q \in exists',
             status'[q] # "draft" \/ \E w \in Undo : upc'[w] = "created" /\ uproj'[w] = q
      PROVE  \E v \in codes[q] : Settled(q, v)
  BY <1>1, <1>4 DEF SettledCode
<1>. QED
  BY <1>1, <1>2, <1>3, <1>4 DEF SettledCode

\* Every step keeps a settled version for each project that needs one.
LEMMA SettledStep ==
  ASSUME WellFormed, HoldersHold, SettledCode, [Next]_vars
  PROVE  SettledCode'
<1> USE DEF project, request, rollback
<1>1. ASSUME NEW r \in Run, NEW p \in Project, NEW k \in {"generate", "regenerate"},
             Arrive(r, p, k)
      PROVE  SettledCode'
  BY <1>1, SettledFrame DEF Arrive, At, WellFormed, RequestTypeOK
<1>2. ASSUME NEW r \in Run,
             \/ Lookup(r) \/ LookupFails(r) \/ RefuseOverCap(r)
             \/ Acquire(r) \/ AcquireThenThrow(r) \/ AcquireFails(r) \/ Release(r)
      PROVE  SettledCode'
  BY <1>2, SettledFrame DEF Lookup, LookupFails, RefuseOverCap, Acquire, AcquireThenThrow,
     AcquireFails, Release, TakeLock, Reject, Leave, At, WellFormed, RequestTypeOK
<1>3. ASSUME NEW r \in Run,
             \/ StagesSucceed(r) \/ StagesFail(r) \/ CreateCodeFails(r)
             \/ UpdateStatusFails(r) \/ CompensateFails(r) \/ Complete(r)
             \/ HandleFailure(r)
      PROVE  SettledCode'
  BY <1>3, SettledFrame DEF StagesSucceed, StagesFail, CreateCodeFails, UpdateStatusFails,
     CompensateFails, Complete, HandleFailure, Goto, At, WellFormed, RequestTypeOK
<1>4. ASSUME NEW u \in Undo,
             (\E p \in Project : UndoFind(u, p)) \/ UndoNumber(u) \/ UndoFails(u)
      PROVE  SettledCode'
  BY <1>4, SettledFrame DEF UndoFind, UndoNumber, UndoFails, UndoLeave, UndoAt,
     WellFormed, RequestTypeOK
<1>5. ASSUME NEW p \in Project, Evict(p) PROVE SettledCode'
  BY <1>5, SettledFrame DEF Evict
<1>6. CASE Crash
  BY <1>6, SettledFrame DEF Crash
<1>7. CASE NextDay \/ UNCHANGED vars
  BY <1>7, SettledFrame DEF NextDay, vars
<1>. QED
  BY <1>1, <1>2, <1>3, <1>4, <1>5, <1>6, <1>7, CreateSettled, UpdateSettled,
     CompensateSettled, PruneSettled, UndoSettled, OwnerSettled
  DEF Next, RunStep, UndoStep

\* A project that has left draft has code to show, whatever compensations,
\* prunes, rollbacks and crashes cross.
THEOREM StatusAlwaysHasCode == Spec => []StatusHasCode
<1>1. Init => SettledCode
  BY DEF Init, SettledCode, Saving
<1>2. WellFormed /\ HoldersHold /\ SettledCode /\ [Next]_vars => SettledCode'
  BY SettledStep
<1>3. SettledCode => StatusHasCode
  BY DEF SettledCode, StatusHasCode
<1>. QED
  BY <1>1, <1>2, <1>3, HoldersAlwaysHold, PTL DEF Spec

-----------------------------------------------------------------------------
(* A version that was reported is not replaced by an older one.            *)

\* A version the user was told of, or is about to be.
Promised(p, v) ==
  \/ v \in acked[p]
  \/ \E r \in Run : pc[r] \in {"stored", "saved"} /\ proj[r] = p /\ next[r] = v
  \/ \E u \in Undo : upc[u] = "created" /\ uproj[u] = p /\ unext[u] = v

\* For each of them there is one as new that no pipeline is about to take back.
PromisesKept ==
  \A p \in exists : \A v \in Version :
    Promised(p, v) => \E w \in codes[p] : w >= v /\ Settled(p, w)

\* Steps that promise nothing and take no settled version away.
LEMMA PromisesFrame ==
  ASSUME PromisesKept, exists' \subseteq exists,
         \A p \in exists' : \A v \in Version : Promised(p, v)' => Promised(p, v),
         \A p \in exists' : \A w \in codes[p] : Settled(p, w) => w \in codes'[p] /\ Settled(p, w)'
  PROVE  PromisesKept'
<1> SUFFICES ASSUME NEW p \in exists', NEW v \in Version, Promised(p, v)'
             PROVE  \E w \in codes'[p] : w >= v /\ Settled(p, w)'
  BY DEF PromisesKept, Version
<1>1. PICK w \in codes[p] : w >= v /\ Settled(p, w)
  BY DEF PromisesKept
<1>. QED
  BY <1>1

\* Such are the steps that change no code and lead no request to a promise,
LEMMA PromisesQuiet ==
  ASSUME PromisesKept, exists' \subseteq exists, UNCHANGED <<codes, acked>>,
         \A r \in Run : pc'[r] \in {"created", "compensating", "stored", "saved"} =>
           /\ pc'[r] \in {"stored", "saved"} => pc[r] \in {"stored", "saved"}
           /\ pc'[r] \notin {"stored", "saved"} => pc[r] \in {"created", "compensating"}
           /\ proj'[r] = proj[r]
           /\ next'[r] = next[r],
         \A u \in Undo : upc'[u] = "created" =>
           upc[u] = "created" /\ uproj'[u] = uproj[u] /\ unext'[u] = unext[u]
  PROVE  PromisesKept'
<1>1. \A p, v : Settled(p, v) => Settled(p, v)'
  BY DEF Settled
<1>2. \A p, v : Promised(p, v)' => Promised(p, v)
  BY DEF Promised
<1>. QED
  BY <1>1, <1>2, PromisesFrame

\* the insertion of a version and its compensation,
LEMMA PromisesSave ==
  ASSUME WellFormed, PromisesKept, NEW r \in Run, CreateCode(r) \/ Compensate(r)
  PROVE  PromisesKept'
<1> USE DEF WellFormed, RequestTypeOK, UnderWay, project, request, rollback, history
<1>1. CASE CreateCode(r)
  <2>1. /\ pc[r] = "saving" /\ proj[r] \in Project /\ next[r] \notin codes[proj[r]]
        /\ codes' = [codes EXCEPT ![proj[r]] = @ \cup {next[r]}]
        /\ pc' = [pc EXCEPT ![r] = "created"]
        /\ UNCHANGED <<exists, proj, next, upc, uproj, unext, acked>>
    BY <1>1 DEF CreateCode, At, Goto, Insertable, WithCode
  <2>2. \A p \in exists : \A v \in Version : Promised(p, v)' => Promised(p, v)
    BY <2>1 DEF Promised
  <2>3. \A p \in exists : \A w \in codes[p] : Settled(p, w) => w \in codes'[p] /\ Settled(p, w)'
    BY <2>1 DEF Settled
  <2>. QED
    BY <2>1, <2>2, <2>3, PromisesFrame
<1>2. CASE Compensate(r)
  <2>1. /\ pc[r] = "compensating" /\ proj[r] \in Project
        /\ codes' = [codes EXCEPT ![proj[r]] = @ \ {next[r]}]
        /\ pc' = [pc EXCEPT ![r] = "failing"]
        /\ UNCHANGED <<exists, proj, next, upc, uproj, unext, acked>>
    BY <1>2 DEF Compensate, At, Goto
  <2>2. \A p \in exists : \A v \in Version : Promised(p, v)' => Promised(p, v)
    BY <2>1 DEF Promised
  <2>3. \A p \in exists : \A w \in codes[p] : Settled(p, w) => w \in codes'[p] /\ Settled(p, w)'
    BY <2>1 DEF Settled
  <2>. QED
    BY <2>1, <2>2, <2>3, PromisesFrame
<1>. QED
  BY <1>1, <1>2

\* and what the owner does.
LEMMA PromisesOwner ==
  ASSUME WellFormed, PromisesKept, NEW p \in Project, OwnerStep(p)
  PROVE  PromisesKept'
<1> USE DEF WellFormed, RequestTypeOK, UnderWay, project, request, rollback, history
<1>1. /\ exists' \subseteq exists
      /\ \A q \in exists' : codes'[q] = codes[q]
      /\ UNCHANGED <<pc, proj, next, upc, uproj, unext, acked>>
  BY DEF OwnerStep, Publish, Unpublish, DeleteProject, SetStatus
<1>2. \A q, v : (Settled(q, v) => Settled(q, v)') /\ (Promised(q, v)' => Promised(q, v))
  BY <1>1 DEF Settled, Promised
<1>. QED
  BY <1>1, <1>2, PromisesFrame

\* A status update promises the version that it settles.
LEMMA PromisesUpdate ==
  ASSUME WellFormed, HoldersHold, SettledCode, PromisesKept, NEW r \in Run, UpdateStatus(r)
  PROVE  PromisesKept'
<1> USE DEF WellFormed, RequestTypeOK, UnderWay, project, request, rollback, history
<1>1. /\ pc[r] = "created" /\ proj[r] \in exists /\ proj[r] \in Project /\ next[r] \in Version
      /\ pc' = [pc EXCEPT ![r] = "stored"]
      /\ UNCHANGED <<exists, codes, proj, next, upc, uproj, unext, acked>>
  BY DEF UpdateStatus, At, Goto
<1>2. next[r] \in codes[proj[r]]
  BY <1>1 DEF SettledCode, Saving
<1>3. Settled(proj[r], next[r])'
  <2>1. \A s \in Run \ {r} : pc[s] \in {"created", "compensating"} => proj[s] # proj[r]
    BY <1>1, SaversApart DEF InPipeline
  <2>. QED
    BY <1>1, <2>1 DEF Settled
<1> SUFFICES ASSUME NEW p \in exists, NEW v \in Version, Promised(p, v)'
             PROVE  \E w \in codes[p] : w >= v /\ Settled(p, w)'
  BY <1>1 DEF PromisesKept
<1>4. CASE Promised(p, v)
  <2>1. PICK w \in codes[p] : w >= v /\ Settled(p, w)
    BY <1>4 DEF PromisesKept
  <2>2. Settled(p, w)'
    BY <1>1, <2>1 DEF Settled
  <2>. QED
    BY <2>1, <2>2
<1>5. CASE ~Promised(p, v)
  <2>1. p = proj[r] /\ v = next[r]
    BY <1>1, <1>5 DEF Promised
  <2>2. v >= v
    BY DEF Version
  <2>. QED
    BY <1>1, <1>2, <1>3, <2>1, <2>2
<1>. QED
  BY <1>4, <1>5

\* Pruning goes down to the newest version, which no other pipeline can be
\* about to take back.
LEMMA PromisesPrune ==
  ASSUME WellFormed, HoldersHold, PromisesKept, NEW r \in Run, PruneOld(r)
  PROVE  PromisesKept'
<1> USE DEF WellFormed, RequestTypeOK, UnderWay, project, request, rollback, history
<1>1. /\ pc[r] = "stored" /\ proj[r] \in Project /\ next[r] \in Version
      /\ \/ codes' = [codes EXCEPT ![proj[r]] = Prune(codes[proj[r]])]
         \/ codes' = codes
      /\ pc' = [pc EXCEPT ![r] = "saved"]
      /\ UNCHANGED <<exists, proj, next, upc, uproj, unext, acked>>
  BY DEF PruneOld, At, Goto
<1> SUFFICES ASSUME NEW p \in exists, NEW v \in Version, Promised(p, v)'
             PROVE  \E w \in codes'[p] : w >= v /\ Settled(p, w)'
  BY <1>1 DEF PromisesKept
<1>2. Promised(p, v)
  BY <1>1 DEF Promised
<1>3. PICK w \in codes[p] : w >= v /\ Settled(p, w)
  BY <1>2 DEF PromisesKept
<1>4. Settled(p, w)'
  BY <1>1, <1>3 DEF Settled
<1>5. CASE p # proj[r]
  <2>1. codes'[p] = codes[p]
    BY <1>1, <1>5
  <2>. QED
    BY <1>3, <1>4, <2>1
<1>6. CASE p = proj[r]
  <2>1. codes[p] \in SUBSET Version
    OBVIOUS
  <2>2. PICK n \in codes[p] : \A x \in codes[p] : x <= n
    BY <1>3, <2>1, HasGreatest
  <2>3. n \in Prune(codes[p])
    BY <2>1, <2>2, GreatestIsKept
  <2>4. n \in codes'[p]
    BY <1>1, <1>6, <2>2, <2>3
  <2>5. n >= v
    BY <1>3, <2>1, <2>2 DEF Version
  <2>6. Settled(p, n)'
    <3>1. \A s \in Run : pc'[s] \in {"created", "compensating"} => proj'[s] # p
      BY <1>1, <1>6, SaversApart DEF InPipeline
    <3>. QED
      BY <3>1 DEF Settled
  <2>. QED
    BY <2>4, <2>5, <2>6
<1>. QED
  BY <1>5, <1>6

\* A report reports what was promised.
LEMMA PromisesReport ==
  ASSUME WellFormed, PromisesKept, NEW r \in Run, Complete(r)
  PROVE  PromisesKept'
<1> USE DEF WellFormed, RequestTypeOK, UnderWay, project, request, rollback
<1>1. /\ pc[r] = "saved" /\ proj[r] \in Project
      /\ pc' = [pc EXCEPT ![r] = "closing"]
      /\ acked' = [acked EXCEPT ![proj[r]] = @ \cup {next[r]}]
      /\ UNCHANGED <<exists, codes, proj, next, upc, uproj, unext>>
  BY DEF Complete, At, Goto
<1>2. \A p, v : Settled(p, v) => Settled(p, v)'
  BY <1>1 DEF Settled
<1>3. \A p \in exists : \A v \in Version : Promised(p, v)' => Promised(p, v)
  BY <1>1 DEF Promised
<1>. QED
  BY <1>1, <1>2, <1>3, PromisesFrame

\* A rollback promises the version it inserts, which is settled, and reports
\* what it promised.
LEMMA PromisesUndo ==
  ASSUME WellFormed, SettledCode, PromisesKept, NEW u \in Undo, UndoCreate(u) \/ UndoStatus(u)
  PROVE  PromisesKept'
<1> USE DEF WellFormed, RequestTypeOK, UnderWay, project, request, rollback
<1>1. CASE UndoCreate(u)
  <2>1. /\ uproj[u] \in exists /\ uproj[u] \in Project
        /\ unext[u] \notin codes[uproj[u]] /\ unext[u] \in Version
        /\ codes' = [codes EXCEPT ![uproj[u]] = @ \cup {unext[u]}]
        /\ upc' = [upc EXCEPT ![u] = "created"]
        /\ UNCHANGED <<exists, pc, proj, next, uproj, unext, acked>>
    BY <1>1 DEF UndoCreate, UndoAt, Insertable, WithCode, UndoMidTurn, history
  <2>2. \A p, v : Settled(p, v) => Settled(p, v)'
    BY <2>1 DEF Settled
  <2>3. Settled(uproj[u], unext[u])'
    BY <2>1 DEF SettledCode, Settled, Saving
  <2> SUFFICES ASSUME NEW p \in exists, NEW v \in Version, Promised(p, v)'
               PROVE  \E w \in codes'[p] : w >= v /\ Settled(p, w)'
    BY <2>1 DEF PromisesKept
  <2>4. CASE Promised(p, v)
    <3>1. PICK w \in codes[p] : w >= v /\ Settled(p, w)
      BY <2>4 DEF PromisesKept
    <3>2. w \in codes'[p]
      BY <2>1
    <3>. QED
      BY <2>2, <3>1, <3>2
  <2>5. CASE ~Promised(p, v)
    <3>1. p = uproj[u] /\ v = unext[u]
      BY <2>1, <2>5 DEF Promised
    <3>2. v >= v /\ v \in codes'[p]
      BY <2>1, <3>1 DEF Version
    <3>. QED
      BY <2>1, <2>3, <3>1, <3>2
  <2>. QED
    BY <2>4, <2>5
<1>2. CASE UndoStatus(u)
  <2>1. /\ upc[u] = "created" /\ uproj[u] \in Project
        /\ acked' = [acked EXCEPT ![uproj[u]] = @ \cup {unext[u]}]
        /\ upc' = [upc EXCEPT ![u] = "idle"]
        /\ uproj' = [uproj EXCEPT ![u] = None]
        /\ unext' = [unext EXCEPT ![u] = 0]
        /\ UNCHANGED <<exists, codes, pc, proj, next>>
    BY <1>2 DEF UndoStatus, UndoAt, UndoLeave
  <2>2. \A p, v : Settled(p, v) => Settled(p, v)'
    BY <2>1 DEF Settled
  <2>3. \A p \in exists : \A v \in Version : Promised(p, v)' => Promised(p, v)
    BY <2>1 DEF Promised
  <2>. QED
    BY <2>1, <2>2, <2>3, PromisesFrame
<1>. QED
  BY <1>1, <1>2

\* Every step keeps the promises.
LEMMA PromisesStep ==
  ASSUME WellFormed, HoldersHold, SettledCode, PromisesKept, [Next]_vars
  PROVE  PromisesKept'
<1> USE DEF project, request, rollback, history
<1>1. ASSUME NEW r \in Run, NEW p \in Project, NEW k \in {"generate", "regenerate"},
             Arrive(r, p, k)
      PROVE  PromisesKept'
  BY <1>1, PromisesQuiet DEF Arrive, At, WellFormed, RequestTypeOK
<1>2. ASSUME NEW r \in Run,
             \/ Lookup(r) \/ LookupFails(r) \/ RefuseOverCap(r)
             \/ Acquire(r) \/ AcquireThenThrow(r) \/ AcquireFails(r) \/ Release(r)
      PROVE  PromisesKept'
  BY <1>2, PromisesQuiet DEF Lookup, LookupFails, RefuseOverCap, Acquire, AcquireThenThrow,
     AcquireFails, Release, TakeLock, Reject, Leave, At, WellFormed, RequestTypeOK
<1>3. ASSUME NEW r \in Run,
             \/ StagesSucceed(r) \/ StagesFail(r) \/ CreateCodeFails(r)
             \/ UpdateStatusFails(r) \/ CompensateFails(r) \/ HandleFailure(r)
      PROVE  PromisesKept'
  BY <1>3, PromisesQuiet DEF StagesSucceed, StagesFail, CreateCodeFails, UpdateStatusFails,
     CompensateFails, HandleFailure, Goto, At, WellFormed, RequestTypeOK
<1>4. ASSUME NEW u \in Undo,
             (\E p \in Project : UndoFind(u, p)) \/ UndoNumber(u) \/ UndoFails(u)
      PROVE  PromisesKept'
  BY <1>4, PromisesQuiet DEF UndoFind, UndoNumber, UndoFails, UndoLeave, UndoAt,
     WellFormed, RequestTypeOK
<1>5. ASSUME NEW p \in Project, Evict(p) PROVE PromisesKept'
  BY <1>5, PromisesQuiet DEF Evict
<1>6. CASE Crash
  BY <1>6, PromisesQuiet DEF Crash
<1>7. CASE NextDay \/ UNCHANGED vars
  BY <1>7, PromisesQuiet DEF NextDay, vars
<1>. QED
  BY <1>1, <1>2, <1>3, <1>4, <1>5, <1>6, <1>7, PromisesSave, PromisesUpdate,
     PromisesPrune, PromisesReport, PromisesUndo, PromisesOwner
  DEF Next, RunStep, UndoStep

\* A version that was reported to the user is never replaced by an older one:
\* not by a compensation, a prune, a rollback or a crash that crosses it.
THEOREM AcknowledgedAlwaysSurvives == Spec => []AcknowledgedSurvives
<1>1. Init => SettledCode /\ PromisesKept
  BY DEF Init, SettledCode, Saving, PromisesKept, Promised
<1>2. WellFormed /\ HoldersHold /\ SettledCode /\ PromisesKept /\ [Next]_vars
        => SettledCode' /\ PromisesKept'
  BY SettledStep, PromisesStep
<1>3. WellFormed /\ PromisesKept => AcknowledgedSurvives
  <2> SUFFICES ASSUME WellFormed, PromisesKept, NEW p \in exists, NEW v \in acked[p]
               PROVE  Newest(p) >= v
    BY DEF AcknowledgedSurvives
  <2>1. p \in Project /\ codes[p] \in SUBSET Version /\ v \in Version
    BY DEF WellFormed, RequestTypeOK
  <2>2. PICK w \in codes[p] : w >= v
    BY <2>1 DEF PromisesKept, Promised
  <2>3. Newest(p) \in codes[p] /\ w <= Newest(p)
    BY <2>1, <2>2, NewestIsGreatest
  <2>. QED
    BY <2>1, <2>2, <2>3 DEF Version
<1>. QED
  BY <1>1, <1>2, <1>3, HoldersAlwaysHold, PTL DEF Spec

-----------------------------------------------------------------------------
(* Versions are reported in ascending order.  Unlike the results above     *)
(* this one needs the turns of the event loop: if others ran between the   *)
(* read of the next number and the insert, a version reported and pruned   *)
(* in the meantime could be numbered again.                                *)

\* The requests and rollbacks that are between two repository calls.
InTurn == {r \in Run : pc[r] \in MidTurn} \cup {u \in Undo : upc[u] \in UndoMidTurn}

\* A number above every version reported so far.
Fresh(p, v) == \A w \in acked[p] : w < v

\* What a request or a rollback has numbered is still to be reported.
NumbersAreFresh ==
  /\ \A r \in Run :
       pc[r] \in {"saving", "created", "compensating", "stored", "saved"} /\ proj[r] \in exists
         => Fresh(proj[r], next[r])
  /\ \A u \in Undo :
       upc[u] \in UndoMidTurn /\ uproj[u] \in exists => Fresh(uproj[u], unext[u])

\* Who may run finds nobody else in the middle of a turn.
LEMMA AloneInTurn ==
  ASSUME Yielding = FALSE, NEW a, MayRun(a)
  PROVE  InTurn \subseteq {a}
  BY DEF MayRun, InTurn

\* The number read next is above every version reported so far.
LEMMA NextIsFresh ==
  ASSUME WellFormed, AcknowledgedSurvives, NEW p \in exists
  PROVE  Fresh(p, NextVersion(p))
<1>1. p \in Project /\ codes[p] \in SUBSET Version /\ acked[p] \in SUBSET Version
  BY DEF WellFormed, RequestTypeOK
<1>2. NextVersion(p) \in Nat
  BY <1>1, NextVersionType
<1>3. ASSUME NEW w \in acked[p] PROVE w < NextVersion(p)
  <2>1. Newest(p) >= w /\ w \in Nat
    BY <1>1 DEF AcknowledgedSurvives, Version
  <2>2. Newest(p) \in Nat
    BY <1>1, GreatestType DEF Newest, Version
  <2>. QED
    BY <2>1, <2>2 DEF NextVersion
<1>. QED
  BY <1>3 DEF Fresh

\* Steps that number nothing and report nothing.
LEMMA FreshFrame ==
  ASSUME NumbersAreFresh, exists' \subseteq exists, UNCHANGED acked,
         \A r \in Run : pc'[r] \in {"saving", "created", "compensating", "stored", "saved"} =>
           /\ pc[r] \in {"saving", "created", "compensating", "stored", "saved"}
           /\ proj'[r] = proj[r]
           /\ next'[r] = next[r],
         \A u \in Undo : upc'[u] \in UndoMidTurn =>
           upc[u] \in UndoMidTurn /\ uproj'[u] = uproj[u] /\ unext'[u] = unext[u]
  PROVE  NumbersAreFresh'
  BY DEF NumbersAreFresh, Fresh, UndoMidTurn

\* Who numbers a version, or reports one, is alone in its turn.
LEMMA FreshAlone ==
  ASSUME Yielding = FALSE, WellFormed, AcknowledgedSurvives, NumbersAreFresh,
         \/ \E r \in Run : StagesSucceed(r) \/ Complete(r)
         \/ \E u \in Undo : UndoNumber(u) \/ UndoStatus(u)
  PROVE  NumbersAreFresh'
<1> USE DEF WellFormed, RequestTypeOK, UnderWay, project, request, rollback, history
<1>1. ASSUME NEW r \in Run, StagesSucceed(r) PROVE NumbersAreFresh'
  <2>1. /\ pc[r] = "running" /\ proj[r] \in Project
        /\ next' = [next EXCEPT ![r] = NextVersion(proj[r])]
        /\ pc' = [pc EXCEPT ![r] = "saving"]
        /\ UNCHANGED <<exists, proj, upc, uproj, unext, acked>>
    BY <1>1 DEF StagesSucceed, At, Goto
  <2>2. proj[r] \in exists => Fresh(proj[r], NextVersion(proj[r]))
    BY NextIsFresh
  <2> DEFINE v == NextVersion(proj[r])
  <2> HIDE DEF v
  <2>3. next'[r] = v /\ (proj[r] \in exists => Fresh(proj[r], v))
    BY <2>1, <2>2 DEF v
  <2>. QED
    BY <2>1, <2>3 DEF NumbersAreFresh, Fresh
<1>2. ASSUME NEW r \in Run, Complete(r) PROVE NumbersAreFresh'
  <2>1. /\ pc' = [pc EXCEPT ![r] = "closing"]
        /\ MayRun(r)
        /\ UNCHANGED <<upc, uproj, unext>>
    BY <1>2 DEF Complete, At, Goto
  <2>2. InTurn \subseteq {r}
    BY <2>1, AloneInTurn
  <2>3. \A s \in Run : pc'[s] \notin {"saving", "created", "compensating", "stored", "saved"}
    BY <2>1, <2>2 DEF InTurn, MidTurn, PC, InPipeline
  <2>4. \A u \in Undo : upc'[u] \notin UndoMidTurn
    BY <2>1, <2>2, RunsAreNoRollbacks DEF InTurn
  <2>. QED
    BY <2>3, <2>4 DEF NumbersAreFresh, UndoMidTurn
<1>3. ASSUME NEW u \in Undo, UndoNumber(u) PROVE NumbersAreFresh'
  <2>1. /\ upc[u] = "found" /\ uproj[u] \in Project
        /\ unext' = [unext EXCEPT ![u] = NextVersion(uproj[u])]
        /\ upc' = [upc EXCEPT ![u] = "numbered"]
        /\ UNCHANGED <<exists, pc, proj, next, uproj, acked>>
    BY <1>3 DEF UndoNumber, UndoAt
  <2>2. uproj[u] \in exists => Fresh(uproj[u], NextVersion(uproj[u]))
    BY NextIsFresh
  <2> DEFINE v == NextVersion(uproj[u])
  <2> HIDE DEF v
  <2>3. unext'[u] = v /\ (uproj[u] \in exists => Fresh(uproj[u], v))
    BY <2>1, <2>2 DEF v
  <2>. QED
    BY <2>1, <2>3 DEF NumbersAreFresh, Fresh, UndoMidTurn
<1>4. ASSUME NEW u \in Undo, UndoStatus(u) PROVE NumbersAreFresh'
  <2>1. /\ upc' = [upc EXCEPT ![u] = "idle"]
        /\ MayRun(u)
        /\ UNCHANGED <<pc, proj, next>>
    BY <1>4 DEF UndoStatus, UndoAt, UndoLeave
  <2>2. InTurn \subseteq {u}
    BY <2>1, AloneInTurn
  <2>3. \A s \in Run : pc'[s] \notin {"saving", "created", "compensating", "stored", "saved"}
    BY <2>1, <2>2, RunsAreNoRollbacks DEF InTurn, MidTurn, PC, InPipeline
  <2>4. \A w \in Undo : upc'[w] \notin UndoMidTurn
    BY <2>1, <2>2 DEF InTurn, UndoMidTurn
  <2>. QED
    BY <2>3, <2>4 DEF NumbersAreFresh, UndoMidTurn
<1>. QED
  BY <1>1, <1>2, <1>3, <1>4

\* Every step leaves the numbers in flight above the versions reported.
LEMMA FreshStep ==
  ASSUME Yielding = FALSE, WellFormed, AcknowledgedSurvives, NumbersAreFresh, [Next]_vars
  PROVE  NumbersAreFresh'
<1> USE DEF project, request, rollback, history
<1>1. ASSUME NEW r \in Run, NEW p \in Project, NEW k \in {"generate", "regenerate"},
             Arrive(r, p, k)
      PROVE  NumbersAreFresh'
  BY <1>1, FreshFrame DEF Arrive, At, WellFormed, RequestTypeOK
<1>2. ASSUME NEW r \in Run,
             \/ Lookup(r) \/ LookupFails(r) \/ RefuseOverCap(r)
             \/ Acquire(r) \/ AcquireThenThrow(r) \/ AcquireFails(r) \/ Release(r)
      PROVE  NumbersAreFresh'
  BY <1>2, FreshFrame DEF Lookup, LookupFails, RefuseOverCap, Acquire, AcquireThenThrow,
     AcquireFails, Release, TakeLock, Reject, Leave, At, WellFormed, RequestTypeOK
<1>3. ASSUME NEW r \in Run,
             \/ StagesFail(r) \/ CreateCode(r) \/ CreateCodeFails(r) \/ UpdateStatus(r)
             \/ UpdateStatusFails(r) \/ Compensate(r) \/ CompensateFails(r) \/ PruneOld(r)
             \/ HandleFailure(r)
      PROVE  NumbersAreFresh'
  BY <1>3, FreshFrame DEF StagesFail, CreateCode, CreateCodeFails, UpdateStatus,
     UpdateStatusFails, Compensate, CompensateFails, PruneOld, HandleFailure, Goto, At,
     WellFormed, RequestTypeOK
<1>4. ASSUME NEW u \in Undo,
             (\E p \in Project : UndoFind(u, p)) \/ UndoCreate(u) \/ UndoFails(u)
      PROVE  NumbersAreFresh'
  BY <1>4, FreshFrame DEF UndoFind, UndoCreate, UndoFails, UndoLeave, UndoAt, UndoMidTurn,
     WellFormed, RequestTypeOK
<1>5. ASSUME NEW p \in Project, OwnerStep(p) \/ Evict(p) PROVE NumbersAreFresh'
  BY <1>5, FreshFrame DEF OwnerStep, Publish, Unpublish, DeleteProject, Evict, UndoMidTurn
<1>6. CASE Crash
  BY <1>6, FreshFrame DEF Crash, UndoMidTurn
<1>7. CASE NextDay \/ UNCHANGED vars
  BY <1>7, FreshFrame DEF NextDay, vars, UndoMidTurn
<1>. QED
  BY <1>1, <1>2, <1>3, <1>4, <1>5, <1>6, <1>7, FreshAlone DEF Next, RunStep, UndoStep

\* Steps that leave codes and reports of every existing project alone.
LEMMA SameHistory ==
  ASSUME exists' = exists, \A p \in exists : codes'[p] = codes[p] /\ acked'[p] = acked[p]
  PROVE  UNCHANGED VH!historyVars
<1>1. \A p \in exists : Newest(p)' = Newest(p)
  BY DEF Newest
<1>. QED
  BY <1>1 DEF VH!historyVars

\* Steps that change the code of one project and report nothing.
LEMMA MoveHistory ==
  ASSUME WellFormed', AcknowledgedSurvives', NEW p \in Project,
         UNCHANGED <<exists, acked>>, \A q \in exists \ {p} : codes'[q] = codes[q]
  PROVE  [VH!Next]_VH!historyVars
<1>1. CASE p \notin exists
  <2>1. UNCHANGED VH!historyVars
    BY <1>1, SameHistory
  <2>. QED
    BY <2>1
<1>2. CASE p \in exists
  <2>1. codes'[p] \in SUBSET Version
    BY DEF WellFormed, RequestTypeOK
  <2>2. Newest(p)' \in Version \cup {0}
    BY <2>1, GreatestType DEF Newest
  <2>3. PICK v \in Version \cup {0} : v = Newest(p)'
    BY <2>2
  <2>4. \A w \in acked[p] : w <= v
    <3>1. \A w \in acked'[p] : Newest(p)' >= w
      BY <1>2 DEF AcknowledgedSurvives
    <3>2. \A w \in acked'[p] : w \in Version
      BY DEF WellFormed, RequestTypeOK
    <3>. QED
      BY <2>3, <3>1, <3>2 DEF Version
  <2>5. [q \in exists |-> Newest(q)]' = [[q \in exists |-> Newest(q)] EXCEPT ![p] = v]
    <3>1. \A q \in exists \ {p} : Newest(q)' = Newest(q)
      BY DEF Newest
    <3>. QED
      BY <1>2, <2>3, <3>1
  <2>6. VH!Move(p, v)
    BY <1>2, <2>4, <2>5 DEF VH!Move
  <2>. QED
    BY <1>2, <2>6 DEF VH!Next
<1>. QED
  BY <1>1, <1>2

\* Steps that report a fresh version of one project and keep every newest one.
LEMMA ReportHistory ==
  ASSUME WellFormed, NEW p \in Project, NEW v \in Version, UNCHANGED exists,
         p \in exists => Fresh(p, v) /\ v <= Newest(p),
         \A q \in exists : Newest(q)' = Newest(q),
         acked' = [acked EXCEPT ![p] = @ \cup {v}]
  PROVE  [VH!Next]_VH!historyVars
<1>0. acked \in [Project -> SUBSET Version] /\ exists \subseteq Project
  BY DEF WellFormed, RequestTypeOK
<1>1. [q \in exists |-> Newest(q)]' = [q \in exists |-> Newest(q)]
  OBVIOUS
<1>2. CASE p \notin exists
  <2>1. [q \in exists |-> acked[q]]' = [q \in exists |-> acked[q]]
    BY <1>0, <1>2
  <2>. QED
    BY <1>1, <2>1 DEF VH!historyVars
<1>3. CASE p \in exists
  <2>1. [q \in exists |-> acked[q]]' = [[q \in exists |-> acked[q]] EXCEPT ![p] = @ \cup {v}]
    BY <1>0, <1>3
  <2>2. VH!Report(p, v)
    BY <1>1, <1>3, <2>1 DEF VH!Report, Fresh
  <2>. QED
    BY <1>3, <2>2 DEF VH!Next
<1>. QED
  BY <1>2, <1>3

\* A pipeline's report and a rollback's are such steps,
LEMMA ReportSteps ==
  ASSUME WellFormed, HoldersHold, PromisesKept, NumbersAreFresh,
         \/ \E r \in Run : Complete(r)
         \/ \E u \in Undo : UndoStatus(u)
  PROVE  [VH!Next]_VH!historyVars
<1> USE DEF WellFormed, RequestTypeOK, UnderWay, project, request, rollback
<1>0. ASSUME NEW p \in exists, NEW v \in Version, Promised(p, v) PROVE v <= Newest(p)
  <2>1. PICK w \in codes[p] : w >= v
    BY <1>0 DEF PromisesKept
  <2>2. codes[p] \in SUBSET Version /\ p \in Project
    OBVIOUS
  <2>3. Newest(p) \in codes[p] /\ w <= Newest(p)
    BY <2>1, <2>2, NewestIsGreatest
  <2>. QED
    BY <2>1, <2>2, <2>3 DEF Version
<1>1. ASSUME NEW r \in Run, Complete(r) PROVE [VH!Next]_VH!historyVars
  <2>1. /\ pc[r] = "saved" /\ proj[r] \in Project /\ next[r] \in Version
        /\ acked' = [acked EXCEPT ![proj[r]] = @ \cup {next[r]}]
        /\ UNCHANGED <<exists, codes>>
    BY <1>1 DEF Complete, At, Goto
  <2>2. proj[r] \in exists => Fresh(proj[r], next[r]) /\ next[r] <= Newest(proj[r])
    BY <1>0, <2>1 DEF NumbersAreFresh, Promised
  <2>3. \A q \in exists : Newest(q)' = Newest(q)
    BY <2>1 DEF Newest
  <2>. QED
    BY <2>1, <2>2, <2>3, ReportHistory
<1>2. ASSUME NEW u \in Undo, UndoStatus(u) PROVE [VH!Next]_VH!historyVars
  <2>1. /\ upc[u] = "created" /\ uproj[u] \in Project /\ unext[u] \in Version
        /\ acked' = [acked EXCEPT ![uproj[u]] = @ \cup {unext[u]}]
        /\ UNCHANGED <<exists, codes>>
    BY <1>2 DEF UndoStatus, UndoAt, UndoMidTurn
  <2>2. uproj[u] \in exists => Fresh(uproj[u], unext[u]) /\ unext[u] <= Newest(uproj[u])
    BY <1>0, <2>1 DEF NumbersAreFresh, Promised, UndoMidTurn
  <2>3. \A q \in exists : Newest(q)' = Newest(q)
    BY <2>1 DEF Newest
  <2>. QED
    BY <2>1, <2>2, <2>3, ReportHistory
<1>. QED
  BY <1>1, <1>2

\* and every other step leaves the history alone, moves one project's newest
\* version or deletes a project.
LEMMA HistoryStep ==
  ASSUME WellFormed, WellFormed', AcknowledgedSurvives', HoldersHold, PromisesKept,
         NumbersAreFresh, [Next]_vars
  PROVE  [VH!Next]_VH!historyVars
<1> USE DEF project, request, rollback, history
<1> DEFINE Same == UNCHANGED <<exists, codes, acked>>
           Moves(p) == /\ UNCHANGED <<exists, acked>>
                       /\ \A q \in exists \ {p} : codes'[q] = codes[q]
<1>1. Same => [VH!Next]_VH!historyVars
  BY SameHistory
<1>2. ASSUME NEW p \in Project, Moves(p) PROVE [VH!Next]_VH!historyVars
  BY <1>2, MoveHistory
<1>3. ASSUME NEW r \in Run, NEW p \in Project, NEW k \in {"generate", "regenerate"},
             Arrive(r, p, k)
      PROVE  Same
  BY <1>3 DEF Arrive
<1>4. ASSUME NEW r \in Run, RunStep(r), ~Complete(r)
      PROVE  Same \/ \E p \in Project : Moves(p)
  <2>1. CASE CreateCode(r) \/ Compensate(r) \/ PruneOld(r)
    <3>1. proj[r] \in Project
      BY <2>1 DEF CreateCode, Compensate, PruneOld, At, WellFormed, UnderWay
    <3>2. Moves(proj[r])
      BY <2>1, <3>1 DEF CreateCode, Compensate, PruneOld, WithCode, WellFormed, RequestTypeOK
    <3>. QED
      BY <3>1, <3>2
  <2>2. CASE ~(CreateCode(r) \/ Compensate(r) \/ PruneOld(r))
    BY <1>4, <2>2 DEF RunStep, Lookup, LookupFails, RefuseOverCap, Acquire, AcquireThenThrow,
       AcquireFails, StagesSucceed, StagesFail, CreateCodeFails, UpdateStatus,
       UpdateStatusFails, CompensateFails, HandleFailure, Release, Reject
  <2>. QED
    BY <2>1, <2>2
<1>5. ASSUME NEW u \in Undo, (\E p \in Project : UndoFind(u, p)) \/ UndoStep(u), ~UndoStatus(u)
      PROVE  Same \/ \E p \in Project : Moves(p)
  <2>1. CASE UndoCreate(u)
    <3>1. uproj[u] \in Project
      BY <2>1 DEF UndoCreate, UndoAt, WellFormed, UnderWay
    <3>2. Moves(uproj[u])
      BY <2>1, <3>1 DEF UndoCreate, WithCode, WellFormed, RequestTypeOK
    <3>. QED
      BY <3>1, <3>2
  <2>2. CASE ~UndoCreate(u)
    BY <1>5, <2>2 DEF UndoStep, UndoFind, UndoNumber, UndoFails
  <2>. QED
    BY <2>1, <2>2
<1>6. ASSUME NEW p \in Project, DeleteProject(p) PROVE [VH!Next]_VH!historyVars
  <2>1. /\ p \in exists /\ exists' = exists \ {p} /\ acked' = acked
        /\ \A q \in exists' : codes'[q] = codes[q]
    BY <1>6 DEF DeleteProject, WellFormed, RequestTypeOK
  <2>2. \A q \in exists' : Newest(q)' = Newest(q)
    BY <2>1 DEF Newest
  <2>3. VH!Remove(p)
    BY <2>1, <2>2 DEF VH!Remove
  <2>. QED
    BY <2>1, <2>3 DEF VH!Next
<1>7. ASSUME NEW p \in Project, Publish(p) \/ Unpublish(p) \/ Evict(p) PROVE Same
  BY <1>7 DEF Publish, Unpublish, Evict
<1>8. CASE Crash \/ NextDay \/ UNCHANGED vars
  BY <1>8, SameHistory DEF Crash, NextDay, vars
<1> HIDE DEF Same, Moves
<1>. QED
  BY <1>1, <1>2, <1>3, <1>4, <1>5, <1>6, <1>7, <1>8, ReportSteps DEF Next, UndoStep, OwnerStep

\* Where a chain of repository calls is one turn of the event loop, as the
\* synchronous driver makes it, the versions reported of a project ascend,
\* none is reported twice, and what it shows is never older: whatever was
\* pruned, taken back, rolled back or lost with the process in between.
THEOREM RefinesVersionHistory ==
  ASSUME Yielding = FALSE
  PROVE  Spec => ImplementsHistory
<1>1. Init => VH!Init
  BY DEF Init, VH!Init, Newest, Greatest
<1>2. Init => SettledCode /\ PromisesKept /\ NumbersAreFresh
  BY DEF Init, SettledCode, Saving, PromisesKept, Promised, NumbersAreFresh, UndoMidTurn
<1>3. WellFormed /\ HoldersHold /\ SettledCode /\ PromisesKept /\ [Next]_vars
        => SettledCode' /\ PromisesKept'
  BY SettledStep, PromisesStep
<1>4. WellFormed /\ AcknowledgedSurvives /\ NumbersAreFresh /\ [Next]_vars => NumbersAreFresh'
  BY FreshStep
<1>5. WellFormed /\ WellFormed' /\ AcknowledgedSurvives' /\ HoldersHold /\ PromisesKept
        /\ NumbersAreFresh /\ [Next]_vars => [VH!Next]_VH!historyVars
  BY HistoryStep
<1>. QED
  BY <1>1, <1>2, <1>3, <1>4, <1>5, HoldersAlwaysHold, AcknowledgedAlwaysSurvives, PTL
  DEF Spec, ImplementsHistory, VH!Spec

-----------------------------------------------------------------------------
(* The regeneration cap.  It compares a version number and refuses too     *)
(* early; here is that it never refuses too late.                          *)

\* Code that a pipeline has inserted is of an existing project.
SaversExist ==
  \A r \in Run : pc[r] \in {"created", "compensating", "stored", "saved"} => proj[r] \in exists

\* Regenerations are versions reported, and the first version is none.
RegensAreReported == \A p \in exists : regens[p] <= Cardinality(acked[p] \ {1})

\* From the version cap to the report.
Bound == {"checked"} \cup (InPipeline \ {"closing"})

\* A regeneration that passed the cap leaves room for itself below it, finds
\* the code it changes, and will not be the first version.
RegensFit ==
  \A r \in Run :
    kind[r] = "regenerate" /\ proj[r] \in exists =>
      /\ pc[r] \in Bound => regens[proj[r]] + 1 < MaxRegenerations
      /\ pc[r] \in {"checked", "running"} => codes[proj[r]] # {}
      /\ pc[r] \in {"saving", "created", "compensating", "stored", "saved"} => next[r] > 1

\* No project is regenerated as often as the cap says.
RegensUnderCap == \A p \in Project : regens[p] = 0 \/ regens[p] < MaxRegenerations

\* Nobody deletes a project between the insert and the end of its turn.
LEMMA SaversExistStep ==
  ASSUME Yielding = FALSE, WellFormed, SaversExist, [Next]_vars
  PROVE  SaversExist'
<1> USE DEF SaversExist, WellFormed, RequestTypeOK, project, request
<1>1. ASSUME NEW r \in Run, NEW p \in Project, NEW k \in {"generate", "regenerate"},
             Arrive(r, p, k)
      PROVE  SaversExist'
  BY <1>1 DEF Arrive, At
<1>2. ASSUME NEW r \in Run,
             \/ Lookup(r) \/ LookupFails(r) \/ RefuseOverCap(r)
             \/ Acquire(r) \/ AcquireThenThrow(r) \/ AcquireFails(r) \/ Release(r)
      PROVE  SaversExist'
  BY <1>2 DEF Lookup, LookupFails, RefuseOverCap, Acquire, AcquireThenThrow,
     AcquireFails, Release, TakeLock, Reject, Leave, At
<1>3. ASSUME NEW r \in Run, CreateCode(r) PROVE SaversExist'
  BY <1>3 DEF CreateCode, Insertable, Goto, At
<1>4. ASSUME NEW r \in Run,
             \/ StagesSucceed(r) \/ StagesFail(r) \/ CreateCodeFails(r) \/ UpdateStatus(r)
             \/ UpdateStatusFails(r) \/ Compensate(r) \/ CompensateFails(r) \/ PruneOld(r)
             \/ Complete(r) \/ HandleFailure(r)
      PROVE  SaversExist'
  BY <1>4 DEF StagesSucceed, StagesFail, CreateCodeFails, UpdateStatus, UpdateStatusFails,
     Compensate, CompensateFails, PruneOld, Complete, HandleFailure, Goto, At
<1>5. ASSUME NEW u \in Undo, (\E p \in Project : UndoFind(u, p)) \/ UndoStep(u)
      PROVE  SaversExist'
  BY <1>5 DEF UndoStep, UndoFind, UndoNumber, UndoCreate, UndoStatus, UndoFails
<1>6. ASSUME NEW p \in Project, DeleteProject(p) PROVE SaversExist'
  <2>1. InTurn \subseteq {None}
    BY <1>6, AloneInTurn DEF DeleteProject
  <2>2. \A r \in Run : pc[r] \notin {"created", "compensating", "stored", "saved"}
    BY <2>1, NoneIsNoRunOrProject DEF InTurn, MidTurn, PC, InPipeline
  <2>. QED
    BY <1>6, <2>2 DEF DeleteProject
<1>7. ASSUME NEW p \in Project, Publish(p) \/ Unpublish(p) \/ Evict(p) PROVE SaversExist'
  BY <1>7 DEF Publish, Unpublish, Evict
<1>8. CASE Crash
  BY <1>8 DEF Crash
<1>9. CASE NextDay \/ UNCHANGED vars
  BY <1>9 DEF NextDay, vars
<1>. QED
  BY <1>1, <1>2, <1>3, <1>4, <1>5, <1>6, <1>7, <1>8, <1>9 DEF Next, RunStep, OwnerStep

\* The numbers of the versions reported of a project are few: all but the
\* first are below its newest version.
LEMMA ReportsAreFew ==
  ASSUME WellFormed, AcknowledgedSurvives, NEW p \in exists, codes[p] # {}
  PROVE  Cardinality(acked[p] \ {1}) <= Newest(p) - 1
<1>1. p \in Project /\ codes[p] \in SUBSET Version /\ acked[p] \in SUBSET Version
  BY DEF WellFormed, RequestTypeOK
<1>2. Newest(p) \in Nat \ {0}
  BY <1>1, NewestIsGreatest DEF Version
<1>3. acked[p] \ {1} \subseteq 2..Newest(p)
  BY <1>1, <1>2 DEF AcknowledgedSurvives, Version
<1>4. IsFiniteSet(2..Newest(p)) /\ Cardinality(2..Newest(p)) = Newest(p) - 1
  <2>1. /\ IsFiniteSet(2..Newest(p))
        /\ Cardinality(2..Newest(p)) = IF 2 > Newest(p) THEN 0 ELSE Newest(p) - 2 + 1
    BY <1>2, FS_Interval
  <2>. QED
    BY <1>2, <2>1
<1>. QED
  BY ZenonT(60), <1>3, <1>4, FS_Subset

\* The versions reported of a project can be counted.
LEMMA ReportsAreCountable ==
  ASSUME NEW S \in SUBSET Version
  PROVE  IsFiniteSet(S \ {1}) /\ Cardinality(S \ {1}) \in Nat
<1>1. IsFiniteSet(Version)
  BY FS_Interval, LimitsAreNaturals DEF Version
<1>2. S \ {1} \subseteq Version
  OBVIOUS
<1>. QED
  BY <1>1, <1>2, FS_Subset, FS_CardinalityType

\* A version reported for the first time adds one to those reported.
LEMMA ReportsGrow ==
  ASSUME NEW S \in SUBSET Version, NEW v \in Version
  PROVE  /\ Cardinality(S \ {1}) \in Nat
         /\ Cardinality(S \ {1}) <= Cardinality((S \cup {v}) \ {1})
         /\ v \notin S /\ v > 1
              => Cardinality((S \cup {v}) \ {1}) = Cardinality(S \ {1}) + 1
<1>1. S \cup {v} \in SUBSET Version
  OBVIOUS
<1>2. IsFiniteSet(S \ {1}) /\ IsFiniteSet((S \cup {v}) \ {1})
  BY <1>1, ReportsAreCountable
<1>3. Cardinality(S \ {1}) \in Nat
  BY ReportsAreCountable
<1>4. Cardinality(S \ {1}) <= Cardinality((S \cup {v}) \ {1})
  <2>1. S \ {1} \subseteq (S \cup {v}) \ {1}
    OBVIOUS
  <2>. QED
    BY <1>2, <2>1, FS_Subset
<1>5. ASSUME v \notin S, v > 1
      PROVE  Cardinality((S \cup {v}) \ {1}) = Cardinality(S \ {1}) + 1
  <2>1. (S \cup {v}) \ {1} = (S \ {1}) \cup {v} /\ v \notin S \ {1}
    BY <1>5
  <2>. QED
    BY <1>2, <2>1, FS_AddElement
<1>. QED
  BY <1>3, <1>4, <1>5

\* Steps that deliver no regeneration and take no code away.
LEMMA RegensFrame ==
  ASSUME RegensFit, exists' \subseteq exists, UNCHANGED regens,
         \A r \in Run :
           /\ pc'[r] \in Bound =>
                pc[r] \in Bound /\ proj'[r] = proj[r] /\ kind'[r] = kind[r]
           /\ pc'[r] \in {"checked", "running"} =>
                /\ pc[r] \in {"checked", "running"}
                /\ proj[r] \in exists' /\ codes[proj[r]] # {} => codes'[proj[r]] # {}
           /\ pc'[r] \in {"saving", "created", "compensating", "stored", "saved"} =>
                /\ pc[r] \in {"saving", "created", "compensating", "stored", "saved"}
                /\ next'[r] = next[r]
  PROVE  RegensFit'
  BY DEF RegensFit, Bound, InPipeline

\* While one request compensates or completes, nobody else is about to change
\* its project's code.
LEMMA NobodyElseBound ==
  ASSUME Yielding = FALSE, WellFormed, HoldersHold, NEW r \in Run, NEW s \in Run \ {r},
         MayRun(r), pc[r] \in {"compensating", "stored", "saved"}, pc[s] \in Bound, proj[s] \in exists
  PROVE  proj[s] # proj[r]
<1>1. s \notin InTurn
  BY AloneInTurn
<1>2. pc[s] # "checked"
  BY <1>1 DEF InTurn, MidTurn, PC
<1>3. pc[s] \in InPipeline /\ pc[r] \in InPipeline
  BY <1>2 DEF Bound, InPipeline
<1>. QED
  BY <1>3, SaversApart

\* A regeneration is let through only below the cap, which its own version
\* does not reach.
LEMMA LookupFits ==
  ASSUME WellFormed, AcknowledgedSurvives, RegensAreReported, RegensFit,
         NEW r \in Run, Lookup(r)
  PROVE  RegensFit'
<1> USE DEF WellFormed, RequestTypeOK, project, request, history
<1>1. /\ proj[r] \in exists /\ exists' = exists /\ regens' = regens /\ codes' = codes
      /\ kind' = kind /\ proj' = proj /\ next' = next /\ pc' = [pc EXCEPT ![r] = "checked"]
  BY DEF Lookup
<1>2. ASSUME kind[r] = "regenerate"
      PROVE  regens[proj[r]] + 1 < MaxRegenerations /\ codes[proj[r]] # {}
  <2> DEFINE p == proj[r]
  <2>1. p \in exists /\ p \in Project /\ ~OverCap(p) /\ codes[p] # {}
    BY <1>1, <1>2 DEF Lookup
  <2> HIDE DEF p
  <2>2. Cardinality(acked[p] \ {1}) <= Newest(p) - 1
    BY <2>1, ReportsAreFew
  <2>3. regens[p] <= Cardinality(acked[p] \ {1}) /\ regens[p] \in Nat
    BY <2>1 DEF RegensAreReported
  <2>4. Newest(p) \in Nat
    BY <2>1, GreatestType DEF Newest, Version
  <2>5. Cardinality(acked[p] \ {1}) \in Nat
    BY <2>1, ReportsAreCountable
  <2>6. Newest(p) < MaxRegenerations
    BY <2>1, <2>4, LimitsAreNaturals DEF OverCap, NextVersion
  <2>. QED
    BY <2>1, <2>2, <2>3, <2>4, <2>5, <2>6, LimitsAreNaturals DEF p
<1>. QED
  BY <1>1, <1>2 DEF RegensFit

\* The version a regeneration adds is not the first.
LEMMA StagesFit ==
  ASSUME WellFormed, RegensFit, NEW r \in Run, StagesSucceed(r)
  PROVE  RegensFit'
<1> USE DEF WellFormed, RequestTypeOK, UnderWay, project, request, history
<1> DEFINE v == NextVersion(proj[r])
<1>1. /\ pc[r] = "running" /\ proj[r] \in Project
      /\ exists' = exists /\ regens' = regens /\ codes' = codes
      /\ kind' = kind /\ proj' = proj /\ pc' = [pc EXCEPT ![r] = "saving"]
      /\ next' = [next EXCEPT ![r] = v]
  BY DEF StagesSucceed, At, Goto
<1>2. codes[proj[r]] # {} => v > 1
  BY <1>1, NewestIsGreatest DEF NextVersion, Version
<1> HIDE DEF v
<1>. QED
  BY <1>1, <1>2 DEF RegensFit, Bound, InPipeline

\* A regeneration that completes leaves what others of its project need.
LEMMA EndFits ==
  ASSUME Yielding = FALSE, WellFormed, HoldersHold, RegensFit,
         NEW r \in Run, Complete(r) \/ PruneOld(r) \/ Compensate(r)
  PROVE  RegensFit'
<1> USE DEF WellFormed, RequestTypeOK, UnderWay, project, request, history
<1>1. /\ MayRun(r) /\ pc[r] \in {"compensating", "stored", "saved"} /\ proj[r] \in Project
      /\ exists' = exists /\ kind' = kind /\ proj' = proj /\ next' = next
      /\ \A p \in Project \ {proj[r]} : codes'[p] = codes[p] /\ regens'[p] = regens[p]
      /\ \A s \in Run \ {r} : pc'[s] = pc[s]
  BY DEF Complete, PruneOld, Compensate, At, Goto
<1>2. \/ pc'[r] = "closing"
      \/ pc[r] = "stored" /\ pc'[r] = "saved" /\ regens' = regens
      \/ pc[r] = "compensating" /\ pc'[r] = "failing" /\ regens' = regens
  BY DEF Complete, PruneOld, Compensate, At, Goto
<1>3. ASSUME NEW s \in Run \ {r}, pc[s] \in Bound, proj[s] \in exists
      PROVE  /\ proj[s] \in Project \ {proj[r]}
             /\ codes'[proj[s]] = codes[proj[s]] /\ regens'[proj[s]] = regens[proj[s]]
  BY <1>1, <1>3, NobodyElseBound
<1>. QED
  BY <1>1, <1>2, <1>3 DEF RegensFit, Bound, InPipeline

\* Every step leaves the regenerations under way the room they were given.
LEMMA RegensFitStep ==
  ASSUME Yielding = FALSE, WellFormed, HoldersHold, AcknowledgedSurvives,
         RegensAreReported, RegensFit, [Next]_vars
  PROVE  RegensFit'
<1> USE DEF WellFormed, RequestTypeOK, UnderWay, project, request, rollback, history,
            Bound, InPipeline
<1>1. ASSUME NEW r \in Run, NEW p \in Project, NEW k \in {"generate", "regenerate"},
             Arrive(r, p, k)
      PROVE  RegensFit'
  BY <1>1, RegensFrame DEF Arrive, At
<1>2. ASSUME NEW r \in Run,
             \/ LookupFails(r) \/ RefuseOverCap(r)
             \/ Acquire(r) \/ AcquireThenThrow(r) \/ AcquireFails(r) \/ Release(r)
      PROVE  RegensFit'
  BY <1>2, RegensFrame DEF LookupFails, RefuseOverCap, Acquire, AcquireThenThrow,
     AcquireFails, Release, TakeLock, Reject, Leave, At
<1>3. ASSUME NEW r \in Run,
             \/ StagesFail(r) \/ CreateCodeFails(r) \/ UpdateStatus(r)
             \/ UpdateStatusFails(r) \/ CompensateFails(r) \/ HandleFailure(r)
      PROVE  RegensFit'
  BY <1>3, RegensFrame DEF StagesFail, CreateCodeFails, UpdateStatus,
     UpdateStatusFails, CompensateFails, HandleFailure, Goto, At
<1>4. ASSUME NEW r \in Run, CreateCode(r) PROVE RegensFit'
  BY <1>4, RegensFrame DEF CreateCode, WithCode, Goto, At
<1>5. ASSUME NEW u \in Undo, (\E p \in Project : UndoFind(u, p)) \/ UndoStep(u)
      PROVE  RegensFit'
  <2>1. CASE UndoCreate(u)
    BY <2>1, RegensFrame DEF UndoCreate, UndoAt, WithCode
  <2>2. CASE ~UndoCreate(u)
    BY <1>5, <2>2, RegensFrame DEF UndoStep, UndoFind, UndoNumber, UndoStatus, UndoFails
  <2>. QED
    BY <2>1, <2>2
<1>6. ASSUME NEW p \in Project, OwnerStep(p) \/ Evict(p) PROVE RegensFit'
  <2>1. CASE DeleteProject(p)
    BY <2>1, RegensFrame DEF DeleteProject
  <2>2. CASE Publish(p) \/ Unpublish(p) \/ Evict(p)
    BY <2>2, RegensFrame DEF Publish, Unpublish, Evict
  <2>. QED
    BY <1>6, <2>1, <2>2 DEF OwnerStep
<1>7. CASE Crash
  BY <1>7, RegensFrame DEF Crash
<1>8. CASE NextDay \/ UNCHANGED vars
  BY <1>8, RegensFrame DEF NextDay, vars
<1>. QED
  BY <1>1, <1>2, <1>3, <1>4, <1>5, <1>6, <1>7, <1>8, LookupFits, StagesFit, EndFits
  DEF Next, RunStep

\* Every regeneration is counted by a version of its own.
LEMMA RegensReportedStep ==
  ASSUME WellFormed, WellFormed', NumbersAreFresh, RegensAreReported, RegensFit,
         SaversExist, [Next]_vars
  PROVE  RegensAreReported'
<1> USE DEF WellFormed, RequestTypeOK, UnderWay, project, request, history
<1>1. ASSUME NEW r \in Run, Complete(r) PROVE RegensAreReported'
  <2>1. /\ pc[r] = "saved" /\ proj[r] \in Project /\ next[r] \in Version
        /\ exists' = exists
        /\ acked' = [acked EXCEPT ![proj[r]] = @ \cup {next[r]}]
        /\ regens' = [regens EXCEPT ![proj[r]] = IF kind[r] = "regenerate" THEN @ + 1 ELSE @]
    BY <1>1 DEF Complete, At, Goto
  <2>2. proj[r] \in exists /\ \A w \in acked[proj[r]] : w < next[r]
    BY <2>1 DEF SaversExist, NumbersAreFresh, Fresh
  <2>3. next[r] \notin acked[proj[r]]
    BY <2>1, <2>2 DEF Version
  <2>4. kind[r] = "regenerate" => next[r] > 1
    BY <2>1, <2>2 DEF RegensFit
  <2> SUFFICES ASSUME NEW p \in exists PROVE regens'[p] <= Cardinality(acked'[p] \ {1})
    BY <2>1 DEF RegensAreReported
  <2>5. /\ p \in Project /\ acked[p] \in SUBSET Version /\ regens[p] \in Nat
        /\ regens[p] <= Cardinality(acked[p] \ {1})
    BY DEF RegensAreReported
  <2>6. CASE p = proj[r]
    <3>1. /\ Cardinality(acked[p] \ {1}) \in Nat
          /\ Cardinality(acked[p] \ {1}) <= Cardinality((acked[p] \cup {next[r]}) \ {1})
          /\ next[r] > 1 => Cardinality((acked[p] \cup {next[r]}) \ {1})
                              = Cardinality(acked[p] \ {1}) + 1
      BY <2>1, <2>3, <2>5, <2>6, ReportsGrow
    <3>2. Cardinality((acked[p] \cup {next[r]}) \ {1}) \in Nat
      BY ZenonT(60), <2>1, <2>5, ReportsAreCountable
    <3>3. acked'[p] = acked[p] \cup {next[r]}
      BY <2>1, <2>5, <2>6
    <3>4. CASE kind[r] = "regenerate"
      BY <2>1, <2>4, <2>5, <2>6, <3>1, <3>3, <3>4
    <3>5. CASE kind[r] # "regenerate"
      BY <2>1, <2>5, <2>6, <3>1, <3>2, <3>3, <3>5
    <3>. QED
      BY <3>4, <3>5
  <2>7. CASE p # proj[r]
    BY <2>1, <2>5, <2>7
  <2>. QED
    BY <2>6, <2>7
<1>2. ASSUME NEW u \in Undo, UndoStatus(u) PROVE RegensAreReported'
  <2>1. /\ uproj[u] \in Project /\ unext[u] \in Version
        /\ exists' = exists /\ regens' = regens
        /\ acked' = [acked EXCEPT ![uproj[u]] = @ \cup {unext[u]}]
    BY <1>2 DEF UndoStatus, UndoAt, UndoMidTurn
  <2> SUFFICES ASSUME NEW p \in exists PROVE regens[p] <= Cardinality(acked'[p] \ {1})
    BY <2>1 DEF RegensAreReported
  <2>2. /\ p \in Project /\ acked[p] \in SUBSET Version /\ regens[p] \in Nat
        /\ regens[p] <= Cardinality(acked[p] \ {1})
    BY DEF RegensAreReported
  <2>3. CASE p = uproj[u]
    <3>1. /\ Cardinality(acked[p] \ {1}) \in Nat
          /\ Cardinality(acked[p] \ {1}) <= Cardinality((acked[p] \cup {unext[u]}) \ {1})
      BY <2>1, <2>2, ReportsGrow
    <3>2. Cardinality((acked[p] \cup {unext[u]}) \ {1}) \in Nat
      BY ZenonT(60), <2>1, <2>2, ReportsAreCountable
    <3>. QED
      BY <2>1, <2>2, <2>3, <3>1, <3>2
  <2>4. CASE p # uproj[u]
    BY <2>1, <2>2, <2>4
  <2>. QED
    BY <2>3, <2>4
<1>3. CASE /\ ~ \E r \in Run : Complete(r)
           /\ ~ \E u \in Undo : UndoStatus(u)
  <2>1. exists' \subseteq exists /\ acked' = acked /\ regens' = regens
    BY <1>3 DEF Next, RunStep, UndoStep, OwnerStep, vars, Arrive, Lookup, LookupFails,
       RefuseOverCap, Acquire, AcquireThenThrow, AcquireFails, StagesSucceed, StagesFail,
       CreateCode, CreateCodeFails, UpdateStatus, UpdateStatusFails, Compensate,
       CompensateFails, PruneOld, HandleFailure, Release, Reject, UndoFind, UndoNumber, UndoCreate,
       UndoFails, Publish, Unpublish, DeleteProject, Evict, Crash, NextDay
  <2>. QED
    BY <2>1 DEF RegensAreReported
<1>. QED
  BY <1>1, <1>2, <1>3

\* Only a regeneration with room below the cap is delivered.
LEMMA UnderCapStep ==
  ASSUME WellFormed, RegensFit, SaversExist, RegensUnderCap, [Next]_vars
  PROVE  RegensUnderCap'
<1> USE DEF WellFormed, RequestTypeOK, UnderWay, project, request, history
<1>1. ASSUME NEW r \in Run, Complete(r) PROVE RegensUnderCap'
  <2>1. /\ pc[r] = "saved" /\ proj[r] \in Project
        /\ regens' = [regens EXCEPT ![proj[r]] = IF kind[r] = "regenerate" THEN @ + 1 ELSE @]
    BY <1>1 DEF Complete, At
  <2>2. kind[r] = "regenerate" => regens[proj[r]] + 1 < MaxRegenerations
    BY <2>1 DEF RegensFit, SaversExist, Bound, InPipeline
  <2>. QED
    BY <2>1, <2>2 DEF RegensUnderCap
<1>2. CASE ~ \E r \in Run : Complete(r)
  <2>1. regens' = regens
    BY <1>2 DEF Next, RunStep, UndoStep, OwnerStep, vars, Arrive, Lookup, LookupFails,
       RefuseOverCap, Acquire, AcquireThenThrow, AcquireFails, StagesSucceed, StagesFail,
       CreateCode, CreateCodeFails, UpdateStatus, UpdateStatusFails, Compensate,
       CompensateFails, PruneOld, HandleFailure, Release, Reject, UndoFind, UndoNumber, UndoCreate,
       UndoStatus, UndoFails, Publish, Unpublish, DeleteProject, Evict, Crash, NextDay
  <2>. QED
    BY <2>1 DEF RegensUnderCap
<1>. QED
  BY <1>1, <1>2

\* The cap on regenerations errs on one side only.  It compares the newest
\* version number, which the first generation and every rollback raise as
\* well, so no project is ever regenerated MaxRegenerations times: the last of
\* the regenerations promised is refused even where nothing was rolled back.
THEOREM RegenerationsStayUnderCap ==
  ASSUME Yielding = FALSE
  PROVE  Spec => []RegensUnderCap
<1> DEFINE Inv == NumbersAreFresh /\ SaversExist /\ RegensAreReported /\ RegensFit /\ RegensUnderCap
<1>1. Init => Inv
  <2> SUFFICES ASSUME Init PROVE Inv
    OBVIOUS
  <2>1. NumbersAreFresh /\ SaversExist
    BY DEF Init, NumbersAreFresh, UndoMidTurn, SaversExist
  <2>2. RegensFit /\ RegensUnderCap
    BY DEF Init, RegensFit, RegensUnderCap, Bound, InPipeline
  <2>3. ASSUME NEW p \in exists PROVE regens[p] <= Cardinality(acked[p] \ {1})
    <3>1. regens[p] = 0 /\ acked[p] \ {1} = {}
      BY DEF Init
    <3>. QED
      BY <3>1, FS_EmptySet
  <2>. QED
    BY <2>1, <2>2, <2>3 DEF RegensAreReported
<1>2. WellFormed /\ WellFormed' /\ HoldersHold /\ AcknowledgedSurvives /\ Inv /\ [Next]_vars => Inv'
  BY FreshStep, SaversExistStep, RegensReportedStep, RegensFitStep, UnderCapStep
<1>. QED
  BY <1>1, <1>2, HoldersAlwaysHold, AcknowledgedAlwaysSurvives, PTL DEF Spec

-----------------------------------------------------------------------------
(* The daily quota is accounted for under every limit, whatever refunds    *)
(* fail, cross midnight or die with the process.                           *)

\* A request that has not arrived, or that has reported, owes no refund.
NothingOwed == \A r \in Run : pc[r] \in {"idle", "closing"} => chargedOn[r] = 0

\* The books of day d: what it delivered and has in flight is covered by its
\* counter and the refunds it was handed, its counter is within the limit,
\* and the counter is explained by deliveries, flights and losses.
Books(d) ==
  /\ count[d] <= Limit
  /\ delivered[d] + Cardinality(InFlight(d)) <= count[d] + carried[d]
  /\ count[d] <= delivered[d] + Cardinality(InFlight(d)) + lost[d]

Accounts == \A d \in Day : Books(d)

\* The charges in flight of a day are finitely many.
LEMMA FlightsAreCountable ==
  ASSUME NEW d
  PROVE  IsFiniteSet(InFlight(d)) /\ Cardinality(InFlight(d)) \in Nat
<1>1. InFlight(d) \in SUBSET Run
  BY DEF InFlight
<1>. QED
  BY <1>1, RunsAreCountable

\* Charging a request that owes nothing adds one flight to the day.
LEMMA ChargeAddsFlight ==
  ASSUME QuotaTypeOK, NEW r \in Run, chargedOn[r] = 0, NEW c \in Day, NEW d \in Day,
         chargedOn' = [chargedOn EXCEPT ![r] = c]
  PROVE  Cardinality(InFlight(d))' = Cardinality(InFlight(d)) + (IF d = c THEN 1 ELSE 0)
<1>1. c # 0 /\ d # 0
  BY DaysArePositive
<1>2. Cardinality(InFlight(d)) \in Nat /\ IsFiniteSet(InFlight(d))
  BY FlightsAreCountable
<1>3. CASE d = c
  <2>1. InFlight(d)' = InFlight(d) \cup {r} /\ r \notin InFlight(d)
    BY <1>1, <1>3 DEF InFlight, QuotaTypeOK
  <2>2. Cardinality(InFlight(d) \cup {r}) = Cardinality(InFlight(d)) + 1
    BY <1>2, <2>1, FS_AddElement
  <2>. QED
    BY <1>3, <2>1, <2>2
<1>4. CASE d # c
  <2>1. InFlight(d)' = InFlight(d)
    BY <1>1, <1>4 DEF InFlight, QuotaTypeOK
  <2>. QED
    BY <1>2, <1>4, <2>1
<1>. QED
  BY <1>3, <1>4

\* Clearing a request's charge takes one flight from the day it was made.
LEMMA ClearDropsFlight ==
  ASSUME QuotaTypeOK, NEW r \in Run, NEW d \in Day,
         chargedOn' = [chargedOn EXCEPT ![r] = 0]
  PROVE  /\ Cardinality(InFlight(d))'
              = Cardinality(InFlight(d)) - (IF d = chargedOn[r] THEN 1 ELSE 0)
         /\ d = chargedOn[r] => Cardinality(InFlight(d)) > 0
<1>1. d # 0
  BY DaysArePositive
<1>2. Cardinality(InFlight(d)) \in Nat /\ IsFiniteSet(InFlight(d))
  BY FlightsAreCountable
<1>3. CASE d = chargedOn[r]
  <2>1. InFlight(d)' = InFlight(d) \ {r} /\ r \in InFlight(d)
    BY <1>1, <1>3 DEF InFlight, QuotaTypeOK
  <2>2. Cardinality(InFlight(d) \ {r}) = Cardinality(InFlight(d)) - 1
    BY <1>2, <2>1, FS_RemoveElement
  <2>3. Cardinality(InFlight(d)) # 0
    BY <1>2, <2>1, FS_EmptySet
  <2>. QED
    BY <1>2, <1>3, <2>1, <2>2, <2>3
<1>4. CASE d # chargedOn[r]
  <2>1. InFlight(d)' = InFlight(d)
    BY <1>1, <1>4 DEF InFlight, QuotaTypeOK
  <2>. QED
    BY <1>2, <1>4, <2>1
<1>. QED
  BY <1>3, <1>4

-----------------------------------------------------------------------------
(* The operators that write the books keep them.                           *)

\* No quota variable changes.
LEMMA BooksFrame ==
  ASSUME Accounts, UNCHANGED quota
  PROVE  Accounts'
  BY DEF Accounts, Books, InFlight, quota

\* A charge is within the limit and puts one request in flight.
LEMMA ChargeKeepsBooks ==
  ASSUME QuotaTypeOK, Accounts, NEW r \in Run, chargedOn[r] = 0, Charge(r)
  PROVE  Accounts'
<1> SUFFICES ASSUME NEW d \in Day PROVE Books(d)'
  BY DEF Accounts
<1> DEFINE n == Cardinality(InFlight(d))
<1>1. n \in Nat /\ n' = n + (IF d = day THEN 1 ELSE 0)
  BY FlightsAreCountable, ChargeAddsFlight DEF Charge, QuotaTypeOK
<1>2. Books(d)
  BY DEF Accounts
<1> HIDE DEF n
<1>3. /\ count'[d] <= Limit
      /\ delivered'[d] + n' <= count'[d] + carried'[d]
      /\ count'[d] <= delivered'[d] + n' + lost'[d]
  BY <1>1, <1>2, LimitsAreNaturals DEF Charge, QuotaTypeOK, Books, n
<1>. QED
  BY <1>3 DEF Books, n

\* A refund lands in today's counter, is carried from another day, or is lost.
LEMMA RefundKeepsBooks ==
  ASSUME QuotaTypeOK, Accounts, NEW r \in Run, Refund(r)
  PROVE  Accounts'
<1>1. CASE UNCHANGED quota
  BY <1>1, BooksFrame
<1>2. CASE DecrementToday(r) \/ DecrementFails(r)
  <2> SUFFICES ASSUME NEW d \in Day PROVE Books(d)'
    BY DEF Accounts
  <2> DEFINE n == Cardinality(InFlight(d))
             m == Cardinality(InFlight(d))'
  <2>1. /\ n \in Nat /\ m = n - (IF d = chargedOn[r] THEN 1 ELSE 0)
        /\ d = chargedOn[r] => n > 0
    BY <1>2, FlightsAreCountable, ClearDropsFlight DEF DecrementToday, DecrementFails
  <2>2. /\ count[d] <= Limit
        /\ delivered[d] + n <= count[d] + carried[d]
        /\ count[d] <= delivered[d] + n + lost[d]
    BY DEF Accounts, Books
  <2>t. /\ count[d] \in Nat /\ delivered[d] \in Nat /\ carried[d] \in Nat /\ lost[d] \in Nat
        /\ Limit \in Nat
    BY LimitsAreNaturals DEF QuotaTypeOK
  <2> HIDE DEF n, m
  <2>3. CASE DecrementToday(r)
    <3>1. /\ count'[d] = IF d = day /\ count[d] > 0 THEN count[d] - 1 ELSE count[d]
          /\ carried'[d] = IF d = day /\ chargedOn[r] # day /\ count[d] > 0
                             THEN carried[d] + 1 ELSE carried[d]
          /\ lost'[d] = IF d = chargedOn[r] /\ d # day THEN lost[d] + 1 ELSE lost[d]
          /\ delivered'[d] = delivered[d]
      BY <2>3, <2>t DEF DecrementToday, Missed, QuotaTypeOK
    <3>. QED
      BY <2>1, <2>2, <2>t, <3>1 DEF Books, n, m
  <2>4. CASE DecrementFails(r)
    <3>1. /\ count'[d] = count[d] /\ carried'[d] = carried[d] /\ delivered'[d] = delivered[d]
          /\ lost'[d] = IF d = chargedOn[r] THEN lost[d] + 1 ELSE lost[d]
      BY <2>4, DaysArePositive DEF DecrementFails, Missed
    <3>. QED
      BY <2>1, <2>2, <2>t, <3>1 DEF Books, n, m
  <2>. QED
    BY <1>2, <2>3, <2>4
<1>. QED
  BY <1>1, <1>2 DEF Refund

\* A delivery turns a charge in flight into a generation of its day.
LEMMA DeliverKeepsBooks ==
  ASSUME QuotaTypeOK, Accounts, NEW r \in Run, Deliver(r)
  PROVE  Accounts'
<1> SUFFICES ASSUME NEW d \in Day PROVE Books(d)'
  BY DEF Accounts
<1> DEFINE n == Cardinality(InFlight(d))
           m == Cardinality(InFlight(d))'
<1>1. n \in Nat /\ m = n - (IF d = chargedOn[r] THEN 1 ELSE 0)
  BY FlightsAreCountable, ClearDropsFlight DEF Deliver
<1>2. /\ count[d] <= Limit
      /\ delivered[d] + n <= count[d] + carried[d]
      /\ count[d] <= delivered[d] + n + lost[d]
  BY DEF Accounts, Books
<1>3. /\ count[d] \in Nat /\ delivered[d] \in Nat /\ carried[d] \in Nat /\ lost[d] \in Nat
      /\ UNCHANGED <<count, carried, lost>>
      /\ delivered'[d] = IF d = chargedOn[r] THEN delivered[d] + 1 ELSE delivered[d]
  BY DEF QuotaTypeOK, Deliver
<1> HIDE DEF n, m
<1>. QED
  BY <1>1, <1>2, <1>3 DEF Books, n, m

\* A crash loses exactly the charges in flight.
LEMMA CrashKeepsBooks ==
  ASSUME QuotaTypeOK, Accounts, Crash
  PROVE  Accounts'
<1> SUFFICES ASSUME NEW d \in Day PROVE Books(d)'
  BY DEF Accounts
<1> DEFINE n == Cardinality(InFlight(d))
           m == Cardinality(InFlight(d))'
<1>1. n \in Nat
  BY FlightsAreCountable
<1>2. m = 0
  <2>1. InFlight(d)' = {}
    BY DaysArePositive DEF InFlight, Crash
  <2>. QED
    BY <2>1, FS_EmptySet
<1>3. lost'[d] = lost[d] + n
  BY DEF Crash, InFlight
<1>4. /\ count[d] <= Limit
      /\ delivered[d] + n <= count[d] + carried[d]
      /\ count[d] <= delivered[d] + n + lost[d]
  BY DEF Accounts, Books
<1>5. /\ count[d] \in Nat /\ delivered[d] \in Nat /\ carried[d] \in Nat /\ lost[d] \in Nat
      /\ UNCHANGED <<count, carried, delivered>>
  BY DEF QuotaTypeOK, Crash
<1> HIDE DEF n, m
<1>. QED
  BY <1>1, <1>2, <1>3, <1>4, <1>5 DEF Books, n, m

-----------------------------------------------------------------------------
(* Every step keeps the books.                                             *)

\* What a step of a request may do to the quota.
LEMMA RunStepQuota ==
  ASSUME NEW r \in Run, RunStep(r)
  PROVE  Refund(r) \/ Deliver(r) \/ UNCHANGED quota
  BY DEF RunStep, Lookup, LookupFails, RefuseOverCap, Acquire, AcquireThenThrow,
     AcquireFails, Reject, StagesSucceed, StagesFail, CreateCode, CreateCodeFails,
     UpdateStatus, UpdateStatusFails, Compensate, CompensateFails, PruneOld, Complete,
     HandleFailure, Release

\* A request that leaves or reports has settled its charge first.
LEMMA NothingOwedStep ==
  ASSUME QuotaTypeOK, WellFormed, NothingOwed, [Next]_vars
  PROVE  NothingOwed'
<1> USE DEF WellFormed, RequestTypeOK, request, quota
<1>1. ASSUME NEW r \in Run, NEW p \in Project, NEW k \in {"generate", "regenerate"},
             Arrive(r, p, k)
      PROVE  NothingOwed'
  BY <1>1 DEF Arrive, Charge, FailOpen, NothingOwed, QuotaTypeOK
<1>r. ASSUME NEW r \in Run, Refund(r) PROVE /\ chargedOn'[r] = 0
                                            /\ \A s \in Run \ {r} : chargedOn'[s] = chargedOn[s]
  BY <1>r DEF Refund, DecrementToday, DecrementFails, QuotaTypeOK
<1>2. ASSUME NEW r \in Run, LookupFails(r) \/ RefuseOverCap(r) \/ AcquireThenThrow(r)
                              \/ AcquireFails(r) \/ HandleFailure(r)
      PROVE  NothingOwed'
  <2>1. Refund(r) /\ \A s \in Run \ {r} : pc'[s] = pc[s]
    BY <1>2 DEF LookupFails, RefuseOverCap, AcquireThenThrow, AcquireFails, HandleFailure,
       Reject, Leave, Goto
  <2>. QED
    BY <2>1, <1>r DEF NothingOwed
<1>3. ASSUME NEW r \in Run, Complete(r) PROVE NothingOwed'
  BY <1>3 DEF Complete, Deliver, Goto, NothingOwed, QuotaTypeOK
<1>4. ASSUME NEW r \in Run, Release(r) PROVE NothingOwed'
  BY <1>4 DEF Release, Leave, At, NothingOwed
<1>5. ASSUME NEW r \in Run,
             \/ Lookup(r) \/ Acquire(r) \/ StagesSucceed(r) \/ StagesFail(r)
             \/ CreateCode(r) \/ CreateCodeFails(r)
             \/ UpdateStatus(r) \/ UpdateStatusFails(r)
             \/ Compensate(r) \/ CompensateFails(r) \/ PruneOld(r)
      PROVE  NothingOwed'
  <2>1. /\ chargedOn' = chargedOn
        /\ pc'[r] \notin {"idle", "closing"}
        /\ \A s \in Run \ {r} : pc'[s] = pc[s]
    BY <1>5 DEF Lookup, Acquire, StagesSucceed, StagesFail, CreateCode, CreateCodeFails,
       UpdateStatus, UpdateStatusFails, Compensate, CompensateFails, PruneOld, Goto, At, TakeLock
  <2>. QED
    BY <2>1 DEF NothingOwed
<1>6. ASSUME NEW u \in Undo, (\E p \in Project : UndoFind(u, p)) \/ UndoStep(u)
      PROVE  NothingOwed'
  BY <1>6 DEF UndoFind, UndoStep, UndoNumber, UndoCreate, UndoStatus, UndoFails, NothingOwed
<1>7. ASSUME NEW p \in Project, OwnerStep(p) \/ Evict(p) PROVE NothingOwed'
  BY <1>7 DEF OwnerStep, Publish, Unpublish, DeleteProject, Evict, NothingOwed
<1>8. CASE Crash
  BY <1>8 DEF Crash, NothingOwed
<1>9. CASE NextDay \/ UNCHANGED vars
  BY <1>9 DEF NextDay, vars, NothingOwed
<1>. QED
  BY <1>1, <1>2, <1>3, <1>4, <1>5, <1>6, <1>7, <1>8, <1>9 DEF Next, RunStep

\* The books of every day stay right.
LEMMA AccountsStep ==
  ASSUME QuotaTypeOK, NothingOwed, Accounts, [Next]_vars
  PROVE  Accounts'
<1> USE DEF quota
<1>1. ASSUME NEW r \in Run, NEW p \in Project, NEW k \in {"generate", "regenerate"},
             Arrive(r, p, k)
      PROVE  Accounts'
  <2>1. chargedOn[r] = 0
    BY <1>1 DEF Arrive, At, NothingOwed
  <2>2. Charge(r) \/ UNCHANGED quota
    BY <1>1 DEF Arrive, FailOpen
  <2>. QED
    BY <2>1, <2>2, ChargeKeepsBooks, BooksFrame
<1>2. ASSUME NEW r \in Run, RunStep(r) PROVE Accounts'
  BY <1>2, RunStepQuota, RefundKeepsBooks, DeliverKeepsBooks, BooksFrame
<1>3. ASSUME NEW u \in Undo, (\E p \in Project : UndoFind(u, p)) \/ UndoStep(u)
      PROVE  Accounts'
  BY <1>3, BooksFrame DEF UndoFind, UndoStep, UndoNumber, UndoCreate, UndoStatus, UndoFails
<1>4. ASSUME NEW p \in Project, OwnerStep(p) \/ Evict(p) PROVE Accounts'
  BY <1>4, BooksFrame DEF OwnerStep, Publish, Unpublish, DeleteProject, Evict
<1>5. CASE NextDay
  BY <1>5 DEF NextDay, Accounts, Books, InFlight
<1>6. CASE UNCHANGED vars
  BY <1>6, BooksFrame DEF vars
<1>. QED
  BY <1>1, <1>2, <1>3, <1>4, <1>5, <1>6, CrashKeepsBooks DEF Next

\* On the first day nothing has been charged.
LEMMA InitAccounts == Init => NothingOwed /\ Accounts
<1> SUFFICES ASSUME Init PROVE NothingOwed /\ Accounts
  OBVIOUS
<1>1. NothingOwed
  BY DEF Init, NothingOwed
<1>2. ASSUME NEW d \in Day PROVE Books(d)
  <2>1. InFlight(d) = {}
    BY DaysArePositive DEF Init, InFlight
  <2>2. Cardinality(InFlight(d)) = 0
    BY <2>1, FS_EmptySet
  <2>3. count[d] = 0 /\ delivered[d] = 0 /\ carried[d] = 0 /\ lost[d] = 0
    BY DEF Init
  <2>. QED
    BY <2>2, <2>3, LimitsAreNaturals DEF Books
<1>. QED
  BY <1>1, <1>2 DEF Accounts

\* The books of every day are right in every reachable state.
THEOREM AccountsAlwaysHold == Spec => [](QuotaTypeOK /\ Accounts)
<1>1. QuotaTypeOK /\ WellFormed /\ NothingOwed /\ Accounts /\ [Next]_vars
        => (NothingOwed /\ Accounts)'
  BY NothingOwedStep, AccountsStep
<1>. QED
  BY <1>1, InitAccounts, AlwaysWellFormed, PTL DEF Spec

\* No day pays for more generations than its limit and the refunds it was
\* handed from other days, whatever fails, dies or crosses midnight.
THEOREM QuotaAlwaysHolds == Spec => []QuotaHolds
<1>1. QuotaTypeOK /\ Accounts => QuotaHolds
  <2> SUFFICES ASSUME QuotaTypeOK, Accounts, NEW d \in Day
               PROVE  delivered[d] + Cardinality(InFlight(d)) <= Limit + carried[d]
    BY DEF QuotaHolds
  <2> DEFINE n == Cardinality(InFlight(d))
  <2>1. n \in Nat
    BY FlightsAreCountable
  <2>2. count[d] <= Limit /\ delivered[d] + n <= count[d] + carried[d]
    BY DEF Accounts, Books
  <2>3. count[d] \in Nat /\ delivered[d] \in Nat /\ carried[d] \in Nat /\ Limit \in Nat
    BY LimitsAreNaturals DEF QuotaTypeOK
  <2> HIDE DEF n
  <2>4. delivered[d] + n <= Limit + carried[d]
    BY <2>1, <2>2, <2>3
  <2>. QED
    BY <2>4 DEF n
<1>. QED
  BY <1>1, AccountsAlwaysHold, PTL

\* What a day's counter shows beyond deliveries and flights was lost to a
\* crash, a failed decrement or midnight: failures are otherwise free.
THEOREM FailuresAreAlwaysFree == Spec => []FailuresAreFree
<1>1. Accounts => FailuresAreFree
  BY DEF Accounts, Books, FailuresAreFree
<1>. QED
  BY <1>1, AccountsAlwaysHold, PTL

-----------------------------------------------------------------------------
(* Where the documented limit does hold.  The counter is exceeded by       *)
(* refunds that are taken from another day than they were charged to, and  *)
(* by nothing else.                                                        *)

\* No charge is of a day to come, and the first day was handed no refund.
NothingCarried == (\A r \in Run : chargedOn[r] <= day) /\ carried[1] = 0

\* A refund on the first day is of a charge of that day.
LEMMA NothingCarriedStep ==
  ASSUME QuotaTypeOK, NothingCarried, [Next]_vars
  PROVE  NothingCarried'
<1> USE DEF quota
<1>0. /\ day \in Nat /\ day >= 1 /\ 1 \in Day
      /\ \A r \in Run : chargedOn[r] \in Nat
  <2>1. day \in Nat \ {0} /\ 1 \in Day
    BY DaysArePositive DEF QuotaTypeOK
  <2>2. Day \cup {0} \subseteq Nat
    BY DaysArePositive
  <2>3. \A r \in Run : chargedOn[r] \in Day \cup {0}
    BY DEF QuotaTypeOK
  <2>4. \A r \in Run : chargedOn[r] \in Nat
    BY <2>2, <2>3
  <2>. QED
    BY <2>1, <2>4
<1>1. ASSUME NEW r \in Run, Charge(r) PROVE NothingCarried'
  BY <1>0, <1>1 DEF Charge, NothingCarried, QuotaTypeOK
<1>2. ASSUME NEW r \in Run, Refund(r) PROVE NothingCarried'
  <2>1. CASE DecrementToday(r)
    <3>1. chargedOn' = [chargedOn EXCEPT ![r] = 0] /\ day' = day
      BY <2>1 DEF DecrementToday
    <3>2. day = 1 => chargedOn[r] = day
      BY <1>0, <2>1 DEF DecrementToday, NothingCarried
    <3>3. carried'[1] = carried[1]
      BY <1>0, <2>1, <3>2 DEF DecrementToday, QuotaTypeOK
    <3>. QED
      BY <1>0, <3>1, <3>3 DEF NothingCarried, QuotaTypeOK
  <2>2. CASE DecrementFails(r)
    BY <1>0, <2>2 DEF DecrementFails, NothingCarried, QuotaTypeOK
  <2>3. CASE UNCHANGED quota
    BY <2>3 DEF NothingCarried
  <2>. QED
    BY <1>2, <2>1, <2>2, <2>3 DEF Refund
<1>3. ASSUME NEW r \in Run, Deliver(r) PROVE NothingCarried'
  BY <1>0, <1>3 DEF Deliver, NothingCarried, QuotaTypeOK
<1>4. ASSUME UNCHANGED quota PROVE NothingCarried'
  BY <1>4 DEF NothingCarried
<1>5. CASE Crash
  BY <1>0, <1>5 DEF Crash, NothingCarried
<1>6. CASE NextDay
  BY <1>0, <1>6 DEF NextDay, NothingCarried
<1>7. ASSUME NEW r \in Run, NEW p \in Project, NEW k \in {"generate", "regenerate"},
             Arrive(r, p, k)
      PROVE  NothingCarried'
  BY <1>1, <1>4, <1>7 DEF Arrive, FailOpen
<1>8. ASSUME NEW r \in Run, RunStep(r) PROVE NothingCarried'
  BY <1>2, <1>3, <1>4, <1>8, RunStepQuota
<1>9. ASSUME NEW u \in Undo, (\E p \in Project : UndoFind(u, p)) \/ UndoStep(u)
      PROVE  NothingCarried'
  BY <1>4, <1>9 DEF UndoFind, UndoStep, UndoNumber, UndoCreate, UndoStatus, UndoFails
<1>10. ASSUME NEW p \in Project, OwnerStep(p) \/ Evict(p) PROVE NothingCarried'
  BY <1>4, <1>10 DEF OwnerStep, Publish, Unpublish, DeleteProject, Evict
<1>11. CASE UNCHANGED vars
  BY <1>4, <1>11 DEF vars
<1>. QED
  BY <1>5, <1>6, <1>7, <1>8, <1>9, <1>10, <1>11 DEF Next

\* On a day that no request was carried into, here the first, no more
\* generations are delivered than the limit allows.
THEOREM FirstDayKeepsItsLimit == Spec => [](delivered[1] <= Limit)
<1>1. Init => NothingCarried
  BY DaysArePositive DEF Init, NothingCarried
<1>2. QuotaTypeOK /\ NothingCarried /\ [Next]_vars => NothingCarried'
  BY NothingCarriedStep
<1>3. QuotaTypeOK /\ Accounts /\ NothingCarried => delivered[1] <= Limit
  <2> SUFFICES ASSUME QuotaTypeOK, Accounts, NothingCarried PROVE delivered[1] <= Limit
    OBVIOUS
  <2> DEFINE n == Cardinality(InFlight(1))
  <2>1. n \in Nat /\ 1 \in Day
    BY FlightsAreCountable, DaysArePositive
  <2>2. count[1] <= Limit /\ delivered[1] + n <= count[1] + carried[1] /\ carried[1] = 0
    BY <2>1 DEF Accounts, Books, NothingCarried
  <2>3. count[1] \in Nat /\ delivered[1] \in Nat /\ Limit \in Nat
    BY <2>1, LimitsAreNaturals DEF QuotaTypeOK
  <2> HIDE DEF n
  <2>. QED
    BY <2>1, <2>2, <2>3
<1>. QED
  BY <1>1, <1>2, <1>3, AccountsAlwaysHold, PTL DEF Spec

\* So a server whose requests cross no midnight delivers no more generations
\* than the documented limit, whatever fails, is deleted or dies.
THEOREM LimitHoldsWithoutMidnight ==
  ASSUME MaxDay = 1
  PROVE  Spec => []DailyLimit
<1>1. delivered[1] <= Limit => DailyLimit
  <2>1. Day = {1}
    BY DEF Day
  <2>. QED
    BY <2>1 DEF DailyLimit
<1>. QED
  BY <1>1, FirstDayKeepsItsLimit, PTL

=============================================================================
