------------------------- MODULE GenerationLockProofs -------------------------
(***************************************************************************)
(* The generation lock is correct for every number of projects and         *)
(* requests and every timing in which the heartbeats outpace staleness.    *)
(***************************************************************************)
EXTENDS GenerationLock, TLAPS

\* The corrected staleness and the heartbeat period are natural numbers.
LEMMA DurationsAreNaturals == Stale \in Nat /\ Period \in Nat \ {0}
  BY TicksAreNaturals DEF Stale, Period

\* A debt of at most MaxMisses periods and one more partial period never
\* exceeds the staleness window.
LEMMA DebtWithinStaleness ==
  ASSUME HeartbeatsOutpaceStaleness,
         NEW m \in Nat, m <= MaxMisses,
         NEW s \in Nat, s <= Period
  PROVE  m * Period + s <= Stale
<1>1. Period \in Nat /\ Stale \in Nat /\ MaxMisses \in Nat
  BY DurationsAreNaturals, TicksAreNaturals
<1>2. m * Period <= MaxMisses * Period
  BY <1>1
<1>3. (MaxMisses + 1) * Period = MaxMisses * Period + Period
  BY <1>1
<1>4. m * Period \in Nat /\ MaxMisses * Period \in Nat
  BY <1>1
<1>. QED
  BY <1>1, <1>2, <1>3, <1>4 DEF HeartbeatsOutpaceStaleness

-----------------------------------------------------------------------------
(* Type correctness needs no assumption on the timing.                     *)

\* Every reachable state is well typed.
THEOREM TypeCorrect == Spec => []TypeOK
<1>1. Init => TypeOK
  BY DEF Init, TypeOK, PC, Absent
<1>2. TypeOK /\ [Next]_vars => TypeOK'
  <2> SUFFICES ASSUME TypeOK, [Next]_vars PROVE TypeOK'
    OBVIOUS
  <2> USE DEF TypeOK, PC, Absent, rowVars, timerVars, WriteRow, DeleteRow, StopHeartbeat
  <2>1. ASSUME NEW r \in Run, NEW p \in Project, FindProject(r, p) PROVE TypeOK'
    BY <2>1 DEF FindProject
  <2>2. ASSUME NEW r \in Run, AcquireAndStart(r) PROVE TypeOK'
    BY <2>2 DEF AcquireAndStart
  <2>3. ASSUME NEW r \in Run, AcquireAndThrow(r) PROVE TypeOK'
    BY <2>3 DEF AcquireAndThrow
  <2>4. ASSUME NEW r \in Run, Refuse(r) PROVE TypeOK'
    BY <2>4 DEF Refuse
  <2>5. ASSUME NEW r \in Run, HeartbeatRenews(r) PROVE TypeOK'
    BY <2>5 DEF HeartbeatRenews
  <2>6. ASSUME NEW r \in Run, HeartbeatFindsNoRow(r) PROVE TypeOK'
    BY <2>6 DEF HeartbeatFindsNoRow
  <2>7. ASSUME NEW r \in Run, HeartbeatFails(r) PROVE TypeOK'
    BY <2>7 DEF HeartbeatFails
  <2>8. ASSUME NEW r \in Run, Finish(r) PROVE TypeOK'
    BY <2>8 DEF Finish
  <2>9. ASSUME NEW r \in Run, FinishWithoutRelease(r) PROVE TypeOK'
    BY <2>9 DEF FinishWithoutRelease
  <2>10. ASSUME NEW p \in Project, DeleteProject(p) PROVE TypeOK'
    BY <2>10 DEF DeleteProject
  <2>11. CASE Crash
    BY <2>11 DEF Crash
  <2>12. CASE TimePasses
    <3>1. age' \in [Project -> Nat \cup {Absent}]
      BY <2>12 DEF TimePasses
    <3>2. since' \in [Run -> Nat]
      BY <2>12 DEF TimePasses
    <3>. QED
      BY <2>12, <3>1, <3>2 DEF TimePasses
  <2>13. CASE UNCHANGED vars
    BY <2>13 DEF vars
  <2>. QED
    BY <2>1, <2>2, <2>3, <2>4, <2>5, <2>6, <2>7, <2>8, <2>9, <2>10, <2>11,
       <2>12, <2>13 DEF Next
<1>. QED
  BY <1>1, <1>2, PTL DEF Spec

-----------------------------------------------------------------------------
(* The inductive step: HeartbeatDebt is preserved by every action.         *)

\* A row of a live pipeline is out of every other request's reach.
LEMMA LiveRowNotAcquirable ==
  ASSUME HeartbeatsOutpaceStaleness, TypeOK, HeartbeatDebt,
         NEW r \in Run, pc[r] = "running", proj[r] \in exists
  PROVE  ~Acquirable(proj[r])
<1>1. /\ timer[r] /\ age[proj[r]] # Absent
      /\ age[proj[r]] <= misses[r] * Period + since[r]
      /\ since[r] <= Period /\ misses[r] <= MaxMisses
  BY DEF HeartbeatDebt
<1>2. misses[r] \in Nat /\ since[r] \in Nat /\ age[proj[r]] \in Nat
  BY <1>1 DEF TypeOK
<1>3. misses[r] * Period + since[r] <= Stale
  BY <1>1, <1>2, DebtWithinStaleness
<1>4. misses[r] * Period + since[r] \in Nat
  BY <1>2, DurationsAreNaturals
<1>. QED
  BY <1>1, <1>2, <1>3, <1>4, DurationsAreNaturals DEF Acquirable

\* Every step keeps the age of a live row paid for.
LEMMA DebtStep ==
  ASSUME HeartbeatsOutpaceStaleness, TypeOK, HeartbeatDebt, [Next]_vars
  PROVE  HeartbeatDebt'
<1> DEFINE Armed(r) == /\ pc[r] = "running"
                       /\ since[r] <= Period
                       /\ misses[r] <= MaxMisses
           Live(r) == pc[r] = "running" /\ proj[r] \in exists
           Paid(r) == /\ timer[r]
                      /\ holder[proj[r]] = r
                      /\ age[proj[r]] # Absent
                      /\ age[proj[r]] <= misses[r] * Period + since[r]
           DebtOf(r) == (timer[r] => Armed(r)) /\ (Live(r) => Paid(r))
<1>0. \A r \in Run : DebtOf(r)
  BY DEF HeartbeatDebt
<1> SUFFICES ASSUME NEW r \in Run PROVE DebtOf(r)'
  BY DEF HeartbeatDebt
<1> USE DEF rowVars, timerVars, WriteRow, DeleteRow, StopHeartbeat
<1>t. /\ Period \in Nat \ {0} /\ Stale \in Nat /\ MaxMisses \in Nat
      /\ Heartbeat \in Nat /\ Lateness \in Nat
  BY DurationsAreNaturals, TicksAreNaturals
<1>z. 0 * Period + 0 = 0 /\ 0 <= Period /\ 0 <= MaxMisses
  BY <1>t
<1>1. ASSUME NEW s \in Run, NEW p \in Project, FindProject(s, p) PROVE DebtOf(r)'
  BY <1>0, <1>1 DEF FindProject, TypeOK
<1>2. ASSUME NEW s \in Run, AcquireAndStart(s) PROVE DebtOf(r)'
  <2>1. CASE r = s
    BY <1>2, <1>z, <2>1 DEF AcquireAndStart, TypeOK, Absent
  <2>2. CASE r # s
    <3>1. Live(r) => proj[r] # proj[s]
      BY <1>2, LiveRowNotAcquirable DEF AcquireAndStart
    <3>. QED
      BY <1>0, <1>2, <2>2, <3>1 DEF AcquireAndStart, TypeOK
  <2>. QED
    BY <2>1, <2>2
<1>3. ASSUME NEW s \in Run, AcquireAndThrow(s) PROVE DebtOf(r)'
  <2>1. Live(r) => proj[r] # proj[s]
    BY <1>3, LiveRowNotAcquirable DEF AcquireAndThrow
  <2>2. ~timer[s]
    BY <1>0, <1>3 DEF AcquireAndThrow
  <2>. QED
    BY <1>0, <1>3, <2>1, <2>2 DEF AcquireAndThrow, TypeOK
<1>4. ASSUME NEW s \in Run, Refuse(s) PROVE DebtOf(r)'
  BY <1>0, <1>4 DEF Refuse, TypeOK
<1>5. ASSUME NEW s \in Run, HeartbeatRenews(s) PROVE DebtOf(r)'
  <2>1. CASE r = s
    BY <1>0, <1>5, <1>z, <2>1 DEF HeartbeatRenews, Due, TypeOK, Absent
  <2>2. CASE r # s
    <3>1. Live(r) => proj[r] # proj[s]
      BY <1>0, <1>5, <2>2 DEF HeartbeatRenews, Due
    <3>. QED
      BY <1>0, <1>5, <2>2, <3>1 DEF HeartbeatRenews, Due, TypeOK
  <2>. QED
    BY <2>1, <2>2
<1>6. ASSUME NEW s \in Run, HeartbeatFindsNoRow(s) PROVE DebtOf(r)'
  BY <1>0, <1>6 DEF HeartbeatFindsNoRow, Due, TypeOK
<1>7. ASSUME NEW s \in Run, HeartbeatFails(s) PROVE DebtOf(r)'
  <2>1. CASE r = s
    <3>1. misses[r] \in Nat /\ since[r] \in Nat
      BY DEF TypeOK
    <3>2. (misses[r] + 1) * Period + 0 = misses[r] * Period + Period
      BY <3>1, <1>t
    <3>3. misses'[r] = misses[r] + 1 /\ since'[r] = 0 /\ misses[r] < MaxMisses
      BY <1>7, <2>1 DEF HeartbeatFails, TypeOK
    <3>4. misses[r] * Period \in Nat
      BY <3>1, <1>t
    <3>5. timer[r] /\ Armed(r)
      BY <1>0, <1>7, <2>1 DEF HeartbeatFails, Due
    <3>6. age[proj[r]] \in Int
      BY DEF TypeOK, Absent
    <3>7. Live(r) => age[proj[r]] <= misses'[r] * Period + since'[r]
      BY <1>0, <1>t, <3>1, <3>2, <3>3, <3>4, <3>5, <3>6
    <3>8. /\ timer' = timer /\ pc' = pc /\ proj' = proj /\ exists' = exists
          /\ age' = age /\ holder' = holder
      BY <1>7 DEF HeartbeatFails
    <3>9. since'[r] <= Period /\ misses'[r] <= MaxMisses
      BY <1>t, <3>1, <3>3
    <3>. QED
      BY <1>0, <3>5, <3>7, <3>8, <3>9
  <2>2. CASE r # s
    BY <1>0, <1>7, <2>2 DEF HeartbeatFails, TypeOK
  <2>. QED
    BY <2>1, <2>2
<1>8. ASSUME NEW s \in Run, Finish(s) PROVE DebtOf(r)'
  <2>1. CASE r = s
    BY <1>8, <2>1 DEF Finish, TypeOK
  <2>2. CASE r # s
    <3>1. Live(r) => proj[r] # proj[s]
      BY <1>0, <1>8, <2>2 DEF Finish
    <3>. QED
      BY <1>0, <1>8, <2>2, <3>1 DEF Finish, TypeOK
  <2>. QED
    BY <2>1, <2>2
<1>9. ASSUME NEW s \in Run, FinishWithoutRelease(s) PROVE DebtOf(r)'
  BY <1>0, <1>9 DEF FinishWithoutRelease, TypeOK
<1>10. ASSUME NEW p \in Project, DeleteProject(p) PROVE DebtOf(r)'
  BY <1>0, <1>10 DEF DeleteProject, TypeOK
<1>11. CASE Crash
  BY <1>11 DEF Crash
<1>12. CASE TimePasses
  <2>1. misses[r] \in Nat /\ since[r] \in Nat /\ age[proj[r]] \in Int
    BY DEF TypeOK, Absent
  <2>2. /\ timer' = timer /\ pc' = pc /\ proj' = proj /\ exists' = exists
        /\ holder' = holder /\ misses' = misses
    BY <1>12 DEF TimePasses
  <2>3. timer[r] => since'[r] = since[r] + 1 /\ since[r] < Period
    BY <1>12 DEF TimePasses
  <2>4. age[proj[r]] # Absent =>
          age'[proj[r]] # Absent /\ age'[proj[r]] <= age[proj[r]] + 1
    BY <1>12, <2>1 DEF TimePasses, TypeOK, Absent
  <2>5. age'[proj[r]] \in Int
    BY <1>12, <2>1 DEF TimePasses, TypeOK, Absent
  <2>6. misses[r] * Period \in Nat
    BY <1>t, <2>1
  <2>7. timer[r] => since'[r] <= Period
    BY <1>t, <2>1, <2>3
  <2>8. Live(r) => age'[proj[r]] <= misses[r] * Period + since'[r]
    BY <1>0, <2>1, <2>3, <2>4, <2>5, <2>6
  <2>. QED
    BY <1>0, <2>2, <2>4, <2>7, <2>8
<1>13. CASE UNCHANGED vars
  BY <1>0, <1>13 DEF vars
<1>. QED
  BY <1>1, <1>2, <1>3, <1>4, <1>5, <1>6, <1>7, <1>8, <1>9, <1>10, <1>11,
     <1>12, <1>13 DEF Next

\* While heartbeats outpace staleness, the debt of every live row stays paid.
THEOREM DebtInvariant == HeartbeatsOutpaceStaleness => (Spec => []HeartbeatDebt)
<1> SUFFICES ASSUME HeartbeatsOutpaceStaleness PROVE Spec => []HeartbeatDebt
  OBVIOUS
<1>1. Init => HeartbeatDebt
  BY DEF Init, HeartbeatDebt
<1>2. TypeOK /\ HeartbeatDebt /\ [Next]_vars => HeartbeatDebt'
  BY DebtStep
<1>. QED
  BY <1>1, <1>2, TypeCorrect, PTL DEF Spec

-----------------------------------------------------------------------------
(* What follows from the invariant.                                        *)

\* What the invariant gives: live rows are out of reach and rule out a second pipeline.
LEMMA DebtImpliesSafety ==
  ASSUME HeartbeatsOutpaceStaleness, TypeOK, HeartbeatDebt
  PROVE  MutualExclusion /\ LiveLockNotStealable
<1>1. MutualExclusion
  <2> SUFFICES ASSUME NEW r \in Run, NEW s \in Run,
                      pc[r] = "running", pc[s] = "running",
                      proj[r] = proj[s], proj[r] \in exists
               PROVE  r = s
    BY DEF MutualExclusion
  <2>. QED
    BY DEF HeartbeatDebt
<1>2. LiveLockNotStealable
  <2> SUFFICES ASSUME NEW r \in Run, NEW p \in exists, RunningOn(r, p)
               PROVE  holder[p] = r /\ ~Acquirable(p)
    BY DEF LiveLockNotStealable
  <2>1. pc[r] = "running" /\ proj[r] = p /\ p \in exists
    BY DEF RunningOn
  <2>. QED
    BY <2>1, LiveRowNotAcquirable DEF HeartbeatDebt
<1>. QED
  BY <1>1, <1>2

\* Two pipelines never run for the same existing project.
THEOREM MutualExclusionHolds ==
  HeartbeatsOutpaceStaleness => (Spec => []MutualExclusion)
<1> SUFFICES ASSUME HeartbeatsOutpaceStaleness PROVE Spec => []MutualExclusion
  OBVIOUS
<1>1. TypeOK /\ HeartbeatDebt => MutualExclusion
  BY DebtImpliesSafety
<1>2. Spec => []HeartbeatDebt
  BY DebtInvariant
<1>. QED
  BY <1>1, <1>2, TypeCorrect, PTL

\* No request can take over the lock of a pipeline that is still running.
THEOREM LiveLockIsNotStolen ==
  HeartbeatsOutpaceStaleness => (Spec => []LiveLockNotStealable)
<1> SUFFICES ASSUME HeartbeatsOutpaceStaleness PROVE Spec => []LiveLockNotStealable
  OBVIOUS
<1>1. TypeOK /\ HeartbeatDebt => LiveLockNotStealable
  BY DebtImpliesSafety
<1>2. Spec => []HeartbeatDebt
  BY DebtInvariant
<1>. QED
  BY <1>1, <1>2, TypeCorrect, PTL

-----------------------------------------------------------------------------
(* The refinement of the abstract single-flight specification.             *)

\* The lock implements the single-flight guarantee: every step of a request,
\* a timer, a deletion or a crash is a step SingleFlight allows, or none.
THEOREM RefinesSingleFlight ==
  HeartbeatsOutpaceStaleness => (Spec => ImplementsSingleFlight)
<1> SUFFICES ASSUME HeartbeatsOutpaceStaleness
             PROVE  Spec => ImplementsSingleFlight
  OBVIOUS
<1>1. Init => SF!Init
  BY DEF Init, SF!Init, Flight
<1>2. TypeOK /\ HeartbeatDebt /\ [Next]_vars => [SF!Next]_SF!sfVars
  <2> SUFFICES ASSUME TypeOK, HeartbeatDebt, [Next]_vars
               PROVE  [SF!Next]_SF!sfVars
    OBVIOUS
  <2> DEFINE Same == UNCHANGED SF!sfVars
  <2>s. ASSUME exists' = exists, pc' = pc, proj' = proj PROVE Same
    BY <2>s DEF SF!sfVars, Flight
  <2>1. ASSUME NEW r \in Run, NEW p \in Project, FindProject(r, p) PROVE Same
    <3>1. \A s \in Run : Flight'[s] = Flight[s]
      BY <2>1 DEF FindProject, Flight, TypeOK
    <3>. QED
      BY <2>1, <3>1 DEF FindProject, SF!sfVars, Flight
  <2>2. ASSUME NEW r \in Run, AcquireAndStart(r) PROVE SF!Next
    <3>1. Flight[r] = None /\ proj[r] \in Project
      BY <2>2 DEF AcquireAndStart, Flight, TypeOK
    <3>2. proj[r] \in exists => \A s \in Run : Flight[s] # proj[r]
      <4> SUFFICES ASSUME proj[r] \in exists, NEW s \in Run, Flight[s] = proj[r]
                   PROVE  FALSE
        OBVIOUS
      <4>1. pc[s] = "running" /\ proj[s] = proj[r]
        BY NoneIsNoRun, <3>1 DEF Flight
      <4>2. ~Acquirable(proj[r])
        BY <4>1, LiveRowNotAcquirable
      <4>. QED
        BY <2>2, <4>2 DEF AcquireAndStart, WriteRow
    <3>3. Flight' = [Flight EXCEPT ![r] = proj[r]]
      BY <2>2 DEF AcquireAndStart, Flight, TypeOK
    <3>4. SF!Start(r, proj[r])
      BY <2>2, <3>1, <3>2, <3>3 DEF AcquireAndStart, SF!Start
    <3>. QED
      BY <3>1, <3>4 DEF SF!Next
  <2>3. ASSUME NEW r \in Run, AcquireAndThrow(r) \/ Refuse(r) PROVE Same
    <3>1. \A s \in Run : Flight'[s] = Flight[s]
      BY <2>3 DEF AcquireAndThrow, Refuse, Flight, TypeOK
    <3>. QED
      BY <2>3, <3>1 DEF AcquireAndThrow, Refuse, SF!sfVars, Flight
  <2>4. ASSUME NEW r \in Run,
               HeartbeatRenews(r) \/ HeartbeatFindsNoRow(r) \/ HeartbeatFails(r)
        PROVE  Same
    BY <2>4, <2>s DEF HeartbeatRenews, HeartbeatFindsNoRow, HeartbeatFails
  <2>5. ASSUME NEW r \in Run, Finish(r) \/ FinishWithoutRelease(r) PROVE SF!Next
    <3>1. Flight' = [s \in Run |-> IF s \in {r} THEN None ELSE Flight[s]]
      BY <2>5 DEF Finish, FinishWithoutRelease, Flight, TypeOK
    <3>2. SF!Stop({r})
      BY <2>5, <3>1 DEF Finish, FinishWithoutRelease, SF!Stop
    <3>. QED
      BY <3>2 DEF SF!Next
  <2>6. ASSUME NEW p \in Project, DeleteProject(p) PROVE SF!Next
    BY <2>6 DEF DeleteProject, SF!Next, SF!Retire, Flight
  <2>7. CASE Crash
    <3>1. Flight' = [s \in Run |-> IF s \in Run THEN None ELSE Flight[s]]
      BY <2>7 DEF Crash, Flight
    <3>2. SF!Stop(Run)
      BY <2>7, <3>1 DEF Crash, SF!Stop
    <3>. QED
      BY <3>2 DEF SF!Next
  <2>8. CASE TimePasses
    BY <2>8, <2>s DEF TimePasses
  <2>9. CASE UNCHANGED vars
    BY <2>9, <2>s DEF vars
  <2>. QED
    BY <2>1, <2>2, <2>3, <2>4, <2>5, <2>6, <2>7, <2>8, <2>9 DEF Next
<1>3. Spec => []HeartbeatDebt
  BY DebtInvariant
<1>. QED
  BY <1>1, <1>2, <1>3, TypeCorrect, PTL DEF Spec, ImplementsSingleFlight, SF!Spec

-----------------------------------------------------------------------------
(* The action property.                                                    *)

\* A step leaves the row of a running pipeline to the run that wrote it, or is
\* the end of that run.
LEMMA HolderStep ==
  ASSUME HeartbeatsOutpaceStaleness, TypeOK, HeartbeatDebt, [Next]_vars,
         NEW p \in exists', NEW r \in Run, RunningOn(r, p)
  PROVE  holder[p] = r /\ (holder'[p] = r \/ pc'[r] = "idle")
<1>1. exists' \subseteq exists
  BY DEF Next, vars, FindProject, AcquireAndStart, AcquireAndThrow, Refuse,
         HeartbeatRenews, HeartbeatFindsNoRow, HeartbeatFails, Finish,
         FinishWithoutRelease, DeleteProject, Crash, TimePasses
<1>2. /\ p \in exists /\ p \in Project
      /\ pc[r] = "running" /\ proj[r] = p
      /\ holder[p] = r /\ ~Acquirable(p)
  BY <1>1, LiveRowNotAcquirable DEF RunningOn, HeartbeatDebt, TypeOK
<1>s. ASSUME holder' = holder PROVE holder'[p] = r
  BY <1>2, <1>s
<1> USE DEF rowVars, WriteRow, DeleteRow
<1>3. ASSUME NEW s \in Run, NEW q \in Project, FindProject(s, q) PROVE holder'[p] = r
  BY <1>3, <1>s DEF FindProject
<1>4. ASSUME NEW s \in Run, AcquireAndStart(s) \/ AcquireAndThrow(s) PROVE holder'[p] = r
  <2>1. proj[s] # p
    BY <1>2, <1>4 DEF AcquireAndStart, AcquireAndThrow
  <2>. QED
    BY <1>2, <1>4, <2>1 DEF AcquireAndStart, AcquireAndThrow, TypeOK
<1>5. ASSUME NEW s \in Run,
             Refuse(s) \/ HeartbeatRenews(s) \/ HeartbeatFindsNoRow(s)
               \/ HeartbeatFails(s) \/ FinishWithoutRelease(s)
      PROVE  holder'[p] = r
  BY <1>5, <1>s DEF Refuse, HeartbeatRenews, HeartbeatFindsNoRow, HeartbeatFails,
                    FinishWithoutRelease
<1>6. ASSUME NEW s \in Run, Finish(s) PROVE holder'[p] = r \/ pc'[r] = "idle"
  <2>1. CASE s = r
    BY <1>6, <2>1 DEF Finish, TypeOK
  <2>2. CASE s # r
    <3>1. proj[s] # p
      BY <1>2, <1>6, <2>2 DEF Finish, HeartbeatDebt
    <3>. QED
      BY <1>2, <1>6, <3>1 DEF Finish, TypeOK
  <2>. QED
    BY <2>1, <2>2
<1>7. ASSUME NEW q \in Project, DeleteProject(q) PROVE holder'[p] = r
  <2>1. q # p
    BY <1>7 DEF DeleteProject
  <2>. QED
    BY <1>2, <1>7, <2>1 DEF DeleteProject, TypeOK
<1>8. CASE Crash
  BY <1>8, <1>s DEF Crash
<1>9. CASE TimePasses
  BY <1>9, <1>s DEF TimePasses
<1>10. CASE UNCHANGED vars
  BY <1>10, <1>s DEF vars
<1>. QED
  BY <1>2, <1>3, <1>4, <1>5, <1>6, <1>7, <1>8, <1>9, <1>10 DEF Next

\* The row of an existing project is removed, renewed or rewritten only on
\* behalf of the run that wrote it, or once no live pipeline stands behind it.
THEOREM OnlyTheHolderTouchesTheRow ==
  HeartbeatsOutpaceStaleness => (Spec => OnlyHolderTouchesRow)
<1> SUFFICES ASSUME HeartbeatsOutpaceStaleness PROVE Spec => OnlyHolderTouchesRow
  OBVIOUS
<1> DEFINE Kept == \A p \in exists' : \A r \in Run :
             (RunningOn(r, p) /\ (age'[p] < age[p] \/ holder'[p] # holder[p]))
               => (holder[p] = r /\ (holder'[p] = r \/ pc'[r] = "idle"))
<1>1. TypeOK /\ HeartbeatDebt /\ [Next]_vars => [Kept]_vars
  BY HolderStep
<1>2. Spec => []HeartbeatDebt
  BY DebtInvariant
<1>. QED
  BY <1>1, <1>2, TypeCorrect, PTL DEF Spec, OnlyHolderTouchesRow

=============================================================================
