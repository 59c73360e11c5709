---------------------------- MODULE PartsProofs ----------------------------
(***************************************************************************)
(* What is proved of the browser pool, for every number of calls and every *)
(* limit: of its semaphore, crashes, failed launches and slow closes       *)
(* included, and of its one browser, slow closes excluded.  And of the sum *)
(* that MCParts makes of the parts: that it keeps the types of them all.   *)
(***************************************************************************)
EXTENDS MCParts, ServerProofs, PagesProofs, LimitersProofs, FiniteSetTheorems,
        SequenceTheorems, TLAPS

-----------------------------------------------------------------------------
(* The browser pool.                                                       *)

\* The queue's live entries are calls that wait, each queued once: handing a
\* permit to the first of them makes exactly one new holder.
QueueWaits ==
  /\ \A i \in DOMAIN waitQueue : waitQueue[i] \in Call => pc[waitQueue[i]] = "waiting"
  /\ \A i, j \in DOMAIN waitQueue :
       waitQueue[i] = waitQueue[j] /\ waitQueue[i] \in Call => i = j

PoolInv == TypeOK /\ QueueWaits /\ PermitsAccounted /\ NoLostWakeup

-----------------------------------------------------------------------------
(* Counting holders.                                                       *)

\* There are finitely many holders.
LEMMA HoldersAreFinite ==
  /\ IsFiniteSet(Holders)
  /\ Cardinality(Holders) \in Nat
  BY CallsAreFinite, FS_Subset, FS_CardinalityType DEF Holders

\* A step that moves no call across the line keeps the holders.
LEMMA SameHolders ==
  ASSUME \A c \in Call : pc'[c] \in HasPermit <=> pc[c] \in HasPermit
  PROVE  Holders' = Holders
  BY DEF Holders

\* A call that gets a permit makes one holder more.
LEMMA HolderJoins ==
  ASSUME NEW c \in Call, pc[c] \notin HasPermit, pc'[c] \in HasPermit,
         \A d \in Call \ {c} : pc'[d] \in HasPermit <=> pc[d] \in HasPermit
  PROVE  Cardinality(Holders') = Cardinality(Holders) + 1
<1>1. Holders' = Holders \cup {c} /\ c \notin Holders
  BY DEF Holders
<1> QED
  BY <1>1, HoldersAreFinite, FS_AddElement

\* A call that gives its permit back makes one holder fewer.
LEMMA HolderLeaves ==
  ASSUME NEW c \in Call, pc[c] \in HasPermit, pc'[c] \notin HasPermit,
         \A d \in Call \ {c} : pc'[d] \in HasPermit <=> pc[d] \in HasPermit
  PROVE  Cardinality(Holders') = Cardinality(Holders) - 1
<1>1. Holders' = Holders \ {c} /\ c \in Holders
  BY DEF Holders
<1> QED
  BY <1>1, HoldersAreFinite, FS_RemoveElement

\* A permit handed over changes the holder and not their number.
LEMMA HolderHandsOver ==
  ASSUME NEW c \in Call, NEW h \in Call,
         pc[c] \in HasPermit, pc'[c] \notin HasPermit,
         pc[h] \notin HasPermit, pc'[h] \in HasPermit,
         \A d \in Call \ {c, h} : pc'[d] \in HasPermit <=> pc[d] \in HasPermit
  PROVE  Cardinality(Holders') = Cardinality(Holders)
<1>1. Holders' = (Holders \ {c}) \cup {h} /\ c \in Holders /\ h \notin Holders \ {c}
  BY DEF Holders
<1>2. IsFiniteSet(Holders \ {c}) /\ Cardinality(Holders \ {c}) = Cardinality(Holders) - 1
  BY <1>1, HoldersAreFinite, FS_RemoveElement
<1>3. Cardinality((Holders \ {c}) \cup {h}) = Cardinality(Holders \ {c}) + 1
  BY <1>1, <1>2, FS_AddElement
<1> QED
  BY <1>1, <1>2, <1>3, HoldersAreFinite

-----------------------------------------------------------------------------
(* The operations that several actions share.                              *)

\* The pool starts well.
LEMMA InitPool == Init => PoolInv
<1> SUFFICES ASSUME Init PROVE PoolInv
  OBVIOUS
<1>1. Holders = {}
  BY DEF Init, Holders, HasPermit, PC
<1>2. TypeOK
  <2>1. activePages \in Int /\ activePages <= MaxPages
    BY MaxPagesIsPositive DEF Init
  <2>2. waitQueue \in Seq(Call \cup {Expired})
    BY DEF Init
  <2>3. pc \in [Call -> PC] /\ inBrowser \in [Call -> Nat]
    BY DEF Init, PC
  <2> QED
    BY <2>1, <2>2, <2>3 DEF Init, TypeOK
<1>3. QueueWaits /\ NoLostWakeup
  BY DEF Init, QueueWaits, NoLostWakeup
<1>4. PermitsAccounted
  BY <1>1, FS_EmptySet DEF Init, PermitsAccounted
<1> QED
  BY <1>2, <1>3, <1>4 DEF PoolInv

\* The permit that a call gives back goes to one waiter, to an expired entry
\* or to the count.
LEMMA ReleaseKeepsPool ==
  ASSUME PoolInv, NEW c \in Call, pc[c] \in HasPermit, Release(c),
         UNCHANGED <<browser, forgotten>>, inBrowser' \in [Call -> Nat]
  PROVE  PoolInv'
<1> USE DEF PoolInv, TypeOK, PC, HasPermit, browser
<1>1. CASE /\ waitQueue = <<>>
           /\ activePages' = activePages - 1
           /\ Goto(c, "idle")
           /\ UNCHANGED <<waitQueue, leaked>>
  <2>1. /\ pc' = [pc EXCEPT ![c] = "idle"] /\ pc'[c] = "idle"
        /\ \A d \in Call \ {c} : pc'[d] = pc[d]
    BY <1>1 DEF Goto
  <2>2. Cardinality(Holders') = Cardinality(Holders) - 1
    BY <2>1, HolderLeaves
  <2>3. TypeOK'
    BY <1>1, <2>1, MaxPagesIsPositive
  <2>4. PermitsAccounted'
    BY SMTT(30), <1>1, <2>2, HoldersAreFinite DEF PermitsAccounted
  <2>5. QueueWaits' /\ NoLostWakeup'
    BY <1>1 DEF QueueWaits, NoLostWakeup
  <2> QED
    BY <2>3, <2>4, <2>5
<1>2. CASE /\ waitQueue # <<>>
           /\ waitQueue' = Tail(waitQueue)
           /\ IF Head(waitQueue) = Expired
              THEN Goto(c, "idle") /\ leaked' = leaked + 1
              ELSE /\ pc' = [pc EXCEPT ![c] = "idle", ![Head(waitQueue)] = "acquired"]
                   /\ UNCHANGED leaked
           /\ UNCHANGED activePages
  <2> DEFINE h == Head(waitQueue)
  <2>1. /\ h \in Call \cup {Expired}
        /\ waitQueue' \in Seq(Call \cup {Expired})
        /\ Len(waitQueue') = Len(waitQueue) - 1
        /\ \A i \in 1..Len(waitQueue') : waitQueue'[i] = waitQueue[i + 1]
    BY <1>2, HeadTailProperties
  <2>2. /\ DOMAIN waitQueue = 1..Len(waitQueue) /\ DOMAIN waitQueue' = 1..Len(waitQueue')
        /\ Len(waitQueue) \in Nat /\ Len(waitQueue') \in Nat
    BY <2>1, LenProperties
  <2>3. 1 \in DOMAIN waitQueue /\ h = waitQueue[1]
    BY <1>2, <2>1, <2>2
  <2>4. \A i \in DOMAIN waitQueue' : i + 1 \in DOMAIN waitQueue /\ i + 1 # 1
    BY <2>1, <2>2
  <2>5. NoLostWakeup'
    <3>1. activePages' >= MaxPages
      BY <1>2 DEF NoLostWakeup
    <3> QED
      BY <3>1 DEF NoLostWakeup
  <2>6. \A i, j \in DOMAIN waitQueue' :
          waitQueue'[i] = waitQueue'[j] /\ waitQueue'[i] \in Call => i = j
    <3> SUFFICES ASSUME NEW i \in DOMAIN waitQueue', NEW j \in DOMAIN waitQueue',
                        waitQueue'[i] = waitQueue'[j], waitQueue'[i] \in Call
                 PROVE  i = j
      OBVIOUS
    <3>1. waitQueue[i + 1] = waitQueue[j + 1] /\ waitQueue[i + 1] \in Call
      BY <2>1, <2>2
    <3>2. i + 1 = j + 1
      BY <2>4, <3>1 DEF QueueWaits
    <3> QED
      BY <2>2, <3>2
  <2>7. CASE h = Expired
    <3>1. /\ pc' = [pc EXCEPT ![c] = "idle"] /\ pc'[c] = "idle" /\ leaked' = leaked + 1
          /\ \A d \in Call \ {c} : pc'[d] = pc[d]
      BY <1>2, <2>7 DEF Goto
    <3>2. Cardinality(Holders') = Cardinality(Holders) - 1
      BY <3>1, HolderLeaves
    <3>3. TypeOK'
      BY <1>2, <2>1, <3>1
    <3>4. PermitsAccounted'
      BY <1>2, <3>1, <3>2, HoldersAreFinite DEF PermitsAccounted
    <3>5. \A i \in DOMAIN waitQueue' : waitQueue'[i] \in Call => pc[waitQueue'[i]] = "waiting"
      BY <2>1, <2>2, <2>4 DEF QueueWaits
    <3>6. \A i \in DOMAIN waitQueue' : waitQueue'[i] \in Call => pc'[waitQueue'[i]] = "waiting"
      BY <3>1, <3>5
    <3>7. QueueWaits'
      BY <2>6, <3>6 DEF QueueWaits
    <3> QED
      BY <2>5, <3>3, <3>4, <3>7
  <2>8. CASE h # Expired
    <3>1. h \in Call /\ pc[h] = "waiting" /\ h # c
      BY <2>1, <2>3, <2>8 DEF QueueWaits
    <3>2. /\ pc' = [pc EXCEPT ![c] = "idle", ![h] = "acquired"] /\ leaked' = leaked
          /\ pc'[c] = "idle" /\ pc'[h] = "acquired"
          /\ \A d \in Call \ {c, h} : pc'[d] = pc[d]
      BY <1>2, <2>8, <3>1
    <3>3. Cardinality(Holders') = Cardinality(Holders)
      BY <3>1, <3>2, HolderHandsOver
    <3>4. TypeOK'
      BY <1>2, <2>1, <3>2
    <3>5. PermitsAccounted'
      BY <1>2, <3>2, <3>3 DEF PermitsAccounted
    <3>6. \A i \in DOMAIN waitQueue' :
            waitQueue'[i] \in Call => waitQueue'[i] # h /\ pc[waitQueue'[i]] = "waiting"
      BY <2>1, <2>2, <2>3, <2>4, <3>1 DEF QueueWaits
    <3>7. \A i \in DOMAIN waitQueue' : waitQueue'[i] \in Call => pc'[waitQueue'[i]] = "waiting"
      BY <3>2, <3>6
    <3>8. QueueWaits'
      BY <2>6, <3>7 DEF QueueWaits
    <3> QED
      BY <2>5, <3>4, <3>5, <3>8
  <2> QED
    BY <2>7, <2>8
<1> QED
  BY <1>1, <1>2 DEF Release

\* A step that leaves the semaphore and the queued calls alone, and moves
\* holders only to where holders are.
LEMMA ElsewhereKeepsPool ==
  ASSUME PoolInv, TypeOK', UNCHANGED <<semaphore, history>>,
         \A c \in Call : /\ pc'[c] \in HasPermit <=> pc[c] \in HasPermit
                         /\ pc[c] = "waiting" => pc'[c] = "waiting"
  PROVE  PoolInv'
<1>1. Holders' = Holders
  BY SameHolders
<1>2. PermitsAccounted' /\ NoLostWakeup'
  BY <1>1 DEF PoolInv, PermitsAccounted, NoLostWakeup, semaphore, history
<1>3. QueueWaits'
  BY DEF PoolInv, QueueWaits, semaphore
<1> QED
  BY <1>2, <1>3 DEF PoolInv

-----------------------------------------------------------------------------
(* Every step.                                                             *)

\* Every step keeps the invariant.
LEMMA StepPool == PoolInv /\ [Next]_vars => PoolInv'
<1> SUFFICES ASSUME PoolInv, [Next]_vars PROVE PoolInv'
  OBVIOUS
<1> USE DEF TypeOK, PC, HasPermit, Goto, semaphore, browser, history
<1>1. TypeOK
  BY DEF PoolInv
<1>2. CASE LaunchSucceeds
  <2>1. launched' \in Nat /\ browserInstance' \in Nat /\ connected' \subseteq Nat
    BY <1>1, <1>2 DEF LaunchSucceeds
  <2>2. pc' \in [Call -> PC] /\ inBrowser' \in [Call -> Nat]
    BY <1>1, <1>2 DEF LaunchSucceeds
  <2>3. TypeOK'
    BY <1>1, <1>2, <2>1, <2>2 DEF LaunchSucceeds
  <2> QED
    BY <1>1, <1>2, <2>3, ElsewhereKeepsPool DEF LaunchSucceeds
<1>3. CASE LaunchFails
  <2>1. TypeOK'
    BY <1>1, <1>3 DEF LaunchFails
  <2> QED
    BY <1>1, <1>3, <2>1, ElsewhereKeepsPool DEF LaunchFails
<1>4. CASE Crash
  <2>1. TypeOK'
    BY <1>1, <1>4 DEF Crash
  <2> QED
    BY <1>1, <1>4, <2>1, ElsewhereKeepsPool DEF Crash
<1>5. ASSUME NEW c \in Call, Acquire(c) PROVE PoolInv'
  <2>1. /\ pc[c] = "idle" /\ pc'[c] = "acquired"
        /\ \A d \in Call \ {c} : pc'[d] = pc[d]
    BY <1>1, <1>5 DEF Acquire
  <2>2. Cardinality(Holders') = Cardinality(Holders) + 1
    BY <2>1, HolderJoins
  <2>3. TypeOK'
    BY <1>1, <1>5, MaxPagesIsPositive DEF Acquire
  <2>4. PermitsAccounted'
    BY <1>1, <1>5, <2>2, HoldersAreFinite DEF Acquire, PoolInv, PermitsAccounted
  <2>5. NoLostWakeup'
    BY <1>1, <1>5, MaxPagesIsPositive DEF Acquire, PoolInv, NoLostWakeup
  <2>6. QueueWaits'
    BY <1>5, <2>1 DEF Acquire, PoolInv, QueueWaits
  <2> QED
    BY <2>3, <2>4, <2>5, <2>6 DEF PoolInv
<1>6. ASSUME NEW c \in Call, Queue(c) PROVE PoolInv'
  <2>1. /\ pc[c] = "idle" /\ pc'[c] = "waiting"
        /\ \A d \in Call \ {c} : pc'[d] = pc[d]
    BY <1>1, <1>6 DEF Queue
  <2>2. Holders' = Holders
    BY <2>1, SameHolders
  <2>3. /\ waitQueue' \in Seq(Call \cup {Expired})
        /\ Len(waitQueue') = Len(waitQueue) + 1
        /\ \A i \in 1..Len(waitQueue) : waitQueue'[i] = waitQueue[i]
        /\ waitQueue'[Len(waitQueue) + 1] = c
    BY <1>1, <1>6, AppendProperties DEF Queue
  <2>4. /\ DOMAIN waitQueue = 1..Len(waitQueue) /\ DOMAIN waitQueue' = 1..Len(waitQueue')
        /\ Len(waitQueue) \in Nat
    BY <1>1, <2>3, LenProperties
  <2>5. TypeOK'
    BY <1>1, <1>6, <2>3 DEF Queue
  <2>6. PermitsAccounted' /\ NoLostWakeup'
    BY <1>6, <2>2 DEF Queue, PoolInv, PermitsAccounted, NoLostWakeup
  <2>7. \A i \in DOMAIN waitQueue : waitQueue[i] # c
    BY <1>1, <2>1 DEF PoolInv, QueueWaits
  <2>8. \A i \in DOMAIN waitQueue' : i = Len(waitQueue) + 1 \/ i \in DOMAIN waitQueue
    BY <2>3, <2>4
  <2>9. \A i \in DOMAIN waitQueue' : waitQueue'[i] \in Call => pc'[waitQueue'[i]] = "waiting"
    BY <2>1, <2>3, <2>4, <2>8 DEF PoolInv, QueueWaits
  <2>10. \A i, j \in DOMAIN waitQueue' :
           waitQueue'[i] = waitQueue'[j] /\ waitQueue'[i] \in Call => i = j
    <3> SUFFICES ASSUME NEW i \in DOMAIN waitQueue', NEW j \in DOMAIN waitQueue',
                        waitQueue'[i] = waitQueue'[j], waitQueue'[i] \in Call
                 PROVE  i = j
      OBVIOUS
    <3>1. CASE i \in DOMAIN waitQueue /\ j \in DOMAIN waitQueue
      BY <2>3, <2>4, <3>1 DEF PoolInv, QueueWaits
    <3>2. CASE i = Len(waitQueue) + 1 \/ j = Len(waitQueue) + 1
      BY <2>3, <2>4, <2>7, <2>8, <3>2
    <3> QED
      BY <2>8, <3>1, <3>2
  <2>11. QueueWaits'
    BY <2>9, <2>10 DEF QueueWaits
  <2> QED
    BY <2>5, <2>6, <2>11 DEF PoolInv
<1>7. ASSUME NEW c \in Call, GiveUp(c) PROVE PoolInv'
  <2>1. /\ pc[c] = "waiting" /\ pc'[c] = "idle"
        /\ \A d \in Call \ {c} : pc'[d] = pc[d]
    BY <1>1, <1>7 DEF GiveUp
  <2>2. Holders' = Holders
    BY <2>1, SameHolders
  <2>3. /\ DOMAIN waitQueue = 1..Len(waitQueue) /\ Len(waitQueue) \in Nat
        /\ \A i \in 1..Len(waitQueue) : waitQueue[i] \in Call \cup {Expired}
    BY <1>1, LenProperties, ElementOfSeq
  <2>4. waitQueue' \in [1..Len(waitQueue) -> Call \cup {Expired}]
    BY <1>7, <2>3 DEF GiveUp
  <2>5. waitQueue' \in Seq(Call \cup {Expired}) /\ DOMAIN waitQueue' = DOMAIN waitQueue
    BY <2>3, <2>4
  <2>6. \A i \in DOMAIN waitQueue :
          waitQueue'[i] \in Call => waitQueue'[i] = waitQueue[i] /\ waitQueue'[i] # c
    BY <1>7, <2>3, ExpiredIsNoCall DEF GiveUp
  <2>7. TypeOK'
    BY <1>1, <1>7, <2>5 DEF GiveUp
  <2>8. PermitsAccounted'
    BY <1>7, <2>2 DEF GiveUp, PoolInv, PermitsAccounted
  <2>9. NoLostWakeup'
    BY <1>1, <1>7, <2>3, <2>5 DEF GiveUp, PoolInv, NoLostWakeup
  <2>10. QueueWaits'
    BY <2>1, <2>5, <2>6 DEF PoolInv, QueueWaits
  <2> QED
    BY <2>7, <2>8, <2>9, <2>10 DEF PoolInv
<1>8. ASSUME NEW c \in Call, GetBrowser(c) PROVE PoolInv'
  <2>1. pc[c] = "acquired"
    BY <1>8 DEF GetBrowser
  <2>2. CASE Alive /\ Goto(c, "opening")
             /\ inBrowser' = [inBrowser EXCEPT ![c] = browserInstance]
             /\ UNCHANGED <<semaphore, browser, history>>
    <3>1. TypeOK'
      BY <1>1, <2>2
    <3> QED
      BY <1>1, <2>1, <2>2, <3>1, ElsewhereKeepsPool
  <2>3. CASE JoinLaunch(c) /\ UNCHANGED <<semaphore, inBrowser, history>>
    <3>1. TypeOK'
      BY <1>1, <2>3 DEF JoinLaunch
    <3> QED
      BY <1>1, <2>1, <2>3, <3>1, ElsewhereKeepsPool DEF JoinLaunch
  <2>4. CASE ResetSemaphore(c) /\ UNCHANGED <<browser, inBrowser>>
    <3>1. TypeOK'
      BY <1>1, <2>4, MaxPagesIsPositive DEF ResetSemaphore
    <3>2. \A d \in Call : pc'[d] \in HasPermit <=> pc[d] \in HasPermit
      BY <1>1, <2>1, <2>4 DEF ResetSemaphore
    <3>3. Holders' = Holders
      BY <3>2, SameHolders
    <3>4. PermitsAccounted'
      BY <1>1, <2>4, <3>3, HoldersAreFinite DEF ResetSemaphore, PoolInv, PermitsAccounted
    <3>5. QueueWaits' /\ NoLostWakeup'
      BY <2>4 DEF ResetSemaphore, QueueWaits, NoLostWakeup
    <3> QED
      BY <3>1, <3>4, <3>5 DEF PoolInv
  <2> QED
    BY <1>8, <2>2, <2>3, <2>4 DEF GetBrowser
<1>9. ASSUME NEW c \in Call, Closed(c) PROVE PoolInv'
  <2>1. TypeOK'
    BY <1>1, <1>9 DEF Closed, JoinLaunch
  <2> QED
    BY <1>1, <1>9, <2>1, ElsewhereKeepsPool DEF Closed, JoinLaunch
<1>10. ASSUME NEW c \in Call, Refuse(c) PROVE PoolInv'
  BY <1>1, <1>10, ReleaseKeepsPool DEF Refuse
<1>11. ASSUME NEW c \in Call, OpenSucceeds(c) PROVE PoolInv'
  <2>1. TypeOK'
    BY <1>1, <1>11 DEF OpenSucceeds
  <2> QED
    BY <1>1, <1>11, <2>1, ElsewhereKeepsPool DEF OpenSucceeds
<1>12. ASSUME NEW c \in Call, OpenFails(c) PROVE PoolInv'
  BY <1>1, <1>12, ReleaseKeepsPool DEF OpenFails
<1>13. ASSUME NEW c \in Call, ReleasePage(c) PROVE PoolInv'
  BY <1>1, <1>13, ReleaseKeepsPool DEF ReleasePage
<1>14. CASE UNCHANGED vars
  <2>1. TypeOK'
    BY <1>1, <1>14 DEF vars
  <2> QED
    BY <1>1, <1>14, <2>1, ElsewhereKeepsPool DEF vars
<1> QED
  BY <1>2, <1>3, <1>4, <1>5, <1>6, <1>7, <1>8, <1>9, <1>10, <1>11, <1>12, <1>13, <1>14
     DEF Next

\* PoolInv holds of every reachable state.
LEMMA PoolInvariant == Spec => []PoolInv
<1>1. Init => PoolInv
  BY InitPool
<1>2. PoolInv /\ [Next]_vars => PoolInv'
  BY StepPool
<1> QED
  BY <1>1, <1>2, PTL DEF Spec

-----------------------------------------------------------------------------
(* The results.                                                            *)

\* The pool's state is typed, and the count never exceeds the limit.
THEOREM TypeOKAlways == Spec => []TypeOK
<1>1. PoolInv => TypeOK
  BY DEF PoolInv
<1> QED
  BY <1>1, PoolInvariant, PTL

\* No path through a failed launch, a failed page, a crash or a hand-over
\* loses or doubles a permit: the count is off by the permits forgotten in
\* resets and handed to expired waiters, and by nothing else.
THEOREM PermitsAlwaysAccounted == Spec => []PermitsAccounted
<1>1. PoolInv => PermitsAccounted
  BY DEF PoolInv
<1> QED
  BY <1>1, PoolInvariant, PTL

\* Until a crashed browser is replaced, the page limit is kept.
THEOREM LimitHoldsUntilReset == Spec => []BoundedUntilReset
<1>1. PoolInv => BoundedUntilReset
  BY HoldersAreFinite, MaxPagesIsPositive DEF PoolInv, TypeOK, PermitsAccounted, BoundedUntilReset
<1> QED
  BY <1>1, PoolInvariant, PTL

\* Nobody queues while a permit is free.
THEOREM WakeupsAreNeverLost == Spec => []NoLostWakeup
<1>1. PoolInv => NoLostWakeup
  BY DEF PoolInv
<1> QED
  BY <1>1, PoolInvariant, PTL

-----------------------------------------------------------------------------
(* One browser.                                                            *)

\* What runs is the shared instance, and nothing runs while a browser is
\* launched or a dead one is closed.
SharedInstance ==
  /\ connected \subseteq {browserInstance} \ {0}
  /\ launching \/ (\E c \in Call : pc[c] = "closing") => connected = {}

\* A step of the semaphore begins no closing and leaves the browser alone.
LEMMA SemaphoreKeepsInstance ==
  ASSUME SharedInstance, UNCHANGED browser,
         \A d \in Call : pc'[d] = "closing" => pc[d] = "closing"
  PROVE  SharedInstance'
BY DEF SharedInstance, browser

\* The release of a permit is such a step.
LEMMA ReleaseBeginsNoClosing ==
  ASSUME TypeOK, NEW c \in Call, Release(c)
  PROVE  \A d \in Call : pc'[d] = "closing" => pc[d] = "closing"
BY DEF Release, Goto, TypeOK

\* Only a slow close can forget an instance that was launched meanwhile.
LEMMA StepInstance ==
  ASSUME ~SlowClose, TypeOK, SharedInstance, [Next]_vars
  PROVE  SharedInstance'
<1>1. CASE UNCHANGED vars
  BY <1>1 DEF vars, SharedInstance, semaphore, browser, history
<1>2. CASE LaunchSucceeds
  <2>1. connected = {} /\ \A c \in Call : pc[c] # "closing"
    BY <1>2 DEF LaunchSucceeds, SharedInstance
  <2>2. /\ browserInstance' = launched + 1 /\ connected' = {launched + 1} /\ launching' = FALSE
        /\ launched + 1 # 0
    BY <1>2, <2>1 DEF LaunchSucceeds, TypeOK
  <2>3. \A c \in Call : pc'[c] # "closing"
    BY <1>2, <2>1 DEF LaunchSucceeds
  <2> QED BY <2>2, <2>3 DEF SharedInstance
<1>3. CASE LaunchFails
  <2>1. /\ browserInstance' = browserInstance /\ connected' = connected /\ launching' = FALSE
        /\ \A c \in Call : pc'[c] = "closing" => pc[c] = "closing"
    BY <1>3 DEF LaunchFails
  <2> QED BY <2>1 DEF SharedInstance
<1>4. CASE Crash
  <2>1. connected' = {} /\ browserInstance' = browserInstance
    BY <1>4 DEF Crash, SharedInstance
  <2> QED BY <2>1 DEF SharedInstance
<1>5. ASSUME NEW c \in Call, GetBrowser(c)
      PROVE  SharedInstance'
  <2>1. CASE Alive
    <3>1. UNCHANGED browser /\ pc' = [pc EXCEPT ![c] = "opening"]
      BY <1>5, <2>1 DEF GetBrowser, Goto, Alive, SharedInstance
    <3>2. \A d \in Call : pc'[d] = "closing" => pc[d] = "closing"
      BY <3>1 DEF TypeOK
    <3> QED BY <3>1, <3>2, SemaphoreKeepsInstance
  <2>2. CASE ~Alive
    <3>1. connected = {} /\ connected' = connected
      BY <1>5, <2>2 DEF GetBrowser, Alive, SharedInstance, JoinLaunch, browser
    <3> QED BY <3>1 DEF SharedInstance
  <2> QED BY <2>1, <2>2
<1>6. ASSUME NEW c \in Call, Closed(c)
      PROVE  SharedInstance'
  <2>1. connected = {} /\ connected' = connected
    BY <1>6 DEF Closed, JoinLaunch, SharedInstance
  <2> QED BY <2>1 DEF SharedInstance
<1>7. ASSUME NEW c \in Call, Acquire(c) \/ Queue(c) \/ GiveUp(c) \/ OpenSucceeds(c)
      PROVE  SharedInstance'
  <2>1. UNCHANGED browser
    BY <1>7 DEF Acquire, Queue, GiveUp, OpenSucceeds
  <2>2. \A d \in Call : pc'[d] = "closing" => pc[d] = "closing"
    BY <1>7 DEF Acquire, Queue, GiveUp, OpenSucceeds, Goto, TypeOK
  <2> QED BY <2>1, <2>2, SemaphoreKeepsInstance
<1>8. ASSUME NEW c \in Call, Refuse(c) \/ OpenFails(c) \/ ReleasePage(c)
      PROVE  SharedInstance'
  <2>1. UNCHANGED browser /\ Release(c)
    BY <1>8 DEF Refuse, OpenFails, ReleasePage
  <2> QED BY <2>1, ReleaseBeginsNoClosing, SemaphoreKeepsInstance
<1> QED BY <1>1, <1>2, <1>3, <1>4, <1>5, <1>6, <1>7, <1>8 DEF Next

(* Where closing a dead browser is over before the next one is launched,   *)
(* at most one Chromium runs, however many calls find none or a dead one   *)
(* (getBrowser's shared launch promise).                                   *)
THEOREM OneBrowserAlways ==
  ASSUME ~SlowClose
  PROVE  Spec => []OneBrowser
<1>1. Init => SharedInstance
  BY DEF Init, SharedInstance
<1>2. SharedInstance => OneBrowser
  <2> SUFFICES ASSUME SharedInstance
               PROVE  OneBrowser
    OBVIOUS
  <2>1. connected = {} \/ connected = {browserInstance}
    BY DEF SharedInstance
  <2>2. Cardinality({}) = 0
    BY FS_EmptySet
  <2>3. Cardinality({browserInstance}) = 1
    BY FS_Singleton
  <2> QED BY <2>1, <2>2, <2>3 DEF OneBrowser
<1>3. TypeOK /\ SharedInstance /\ [Next]_vars => SharedInstance'
  BY StepInstance
<1>4. Spec => []TypeOK
  BY TypeOKAlways
<1> QED BY <1>1, <1>2, <1>3, <1>4, PTL DEF Spec

-----------------------------------------------------------------------------
(* What a waiter that gives up costs.                                      *)

\* Every permit is gone and no call has one.
Starved == activePages = MaxPages /\ Holders = {}

\* Every permit handed to a waiter that had given up is one page fewer, as
\* long as no crash has reset the count; when as many are gone as there are
\* pages, no call has one, and from then on no call ever gets one: only a
\* release lowers the count and only a call with a permit notices a crash, so
\* neither time nor a crash of the browser brings the pool back.
THEOREM LeaksStarveThePool ==
  Spec => /\ [](forgotten = 0 => Cardinality(Holders) + leaked <= MaxPages)
          /\ [](forgotten = 0 /\ leaked = MaxPages => Starved)
          /\ [][Starved => Starved']_vars
<1>1. PoolInv => (forgotten = 0 => Cardinality(Holders) + leaked <= MaxPages)
  BY HoldersAreFinite, MaxPagesIsPositive DEF PoolInv, TypeOK, PermitsAccounted
<1>2. PoolInv => (forgotten = 0 /\ leaked = MaxPages => Starved)
  <2> SUFFICES ASSUME PoolInv, forgotten = 0, leaked = MaxPages PROVE Starved
    OBVIOUS
  <2>1. Cardinality(Holders) = 0 /\ activePages = MaxPages
    BY HoldersAreFinite, MaxPagesIsPositive DEF PoolInv, TypeOK, PermitsAccounted
  <2>2. Holders = {}
    BY <2>1, HoldersAreFinite, FS_EmptySet
  <2>. QED
    BY <2>1, <2>2 DEF Starved
<1>3. TypeOK /\ [Next]_vars => [Starved => Starved']_vars
  <2> SUFFICES ASSUME TypeOK, [Next]_vars, Starved PROVE Starved'
    OBVIOUS
  <2>1. \A c \in Call : pc[c] \in {"idle", "waiting"}
    BY DEF Starved, Holders, HasPermit, TypeOK, PC
  <2>2. ASSUME activePages' = activePages,
               \A c \in Call : pc'[c] \in HasPermit => pc[c] \in HasPermit
        PROVE  Starved'
    BY <2>2 DEF Starved, Holders
  <2> USE DEF TypeOK, HasPermit, PC, semaphore
  <2>3. ASSUME NEW c \in Call, Acquire(c) PROVE FALSE
    BY <2>3, MaxPagesIsPositive DEF Acquire, Starved
  <2>4. ASSUME NEW c \in Call, Queue(c) \/ GiveUp(c) PROVE Starved'
    BY <2>2, <2>4 DEF Queue, GiveUp, Goto
  <2>5. ASSUME NEW c \in Call,
               \/ GetBrowser(c) \/ Closed(c) \/ Refuse(c)
               \/ OpenSucceeds(c) \/ OpenFails(c) \/ ReleasePage(c)
        PROVE  FALSE
    BY <2>1, <2>5 DEF GetBrowser, Closed, Refuse, OpenSucceeds, OpenFails, ReleasePage
  <2>6. CASE LaunchSucceeds \/ LaunchFails \/ Crash
    BY <2>1, <2>2, <2>6 DEF LaunchSucceeds, LaunchFails, Crash
  <2>7. CASE UNCHANGED vars
    BY <2>2, <2>7 DEF vars
  <2>. QED
    BY <2>3, <2>4, <2>5, <2>6, <2>7 DEF Next
<1>. QED
  BY <1>1, <1>2, <1>3, PoolInvariant, TypeOKAlways, PTL DEF Spec

-----------------------------------------------------------------------------
(* The launch that calls share.                                            *)

\* The first in the queue is a call that waits, or has given up.
LEMMA HeadWaits ==
  ASSUME PoolInv, waitQueue # <<>>
  PROVE  Head(waitQueue) = Expired \/ pc[Head(waitQueue)] = "waiting"
<1>1. waitQueue \in Seq(Call \cup {Expired})
  BY DEF PoolInv, TypeOK
<1>2. /\ Head(waitQueue) = waitQueue[1] /\ Head(waitQueue) \in Call \cup {Expired}
      /\ 1 \in DOMAIN waitQueue
  BY <1>1, LenProperties, EmptySeq, HeadTailProperties
<1>. QED
  BY <1>2 DEF PoolInv, QueueWaits

\* A failed launch is never left behind for later calls to join.
THEOREM LaunchIsAlwaysAwaited == Spec => []LaunchIsAwaited
<1>1. Init => LaunchIsAwaited
  BY DEF Init, LaunchIsAwaited
<1>2. PoolInv /\ LaunchIsAwaited /\ [Next]_vars => LaunchIsAwaited'
  <2> SUFFICES ASSUME PoolInv, TypeOK, LaunchIsAwaited, [Next]_vars PROVE LaunchIsAwaited'
    BY DEF PoolInv
  <2> USE DEF TypeOK, browser
  <2>1. ASSUME launching' = launching,
               \A c \in Call : pc[c] = "launching" => pc'[c] = "launching"
        PROVE  LaunchIsAwaited'
    BY <2>1 DEF LaunchIsAwaited
  <2>2. ASSUME NEW c \in Call, JoinLaunch(c) PROVE LaunchIsAwaited'
    BY <2>2 DEF LaunchIsAwaited, JoinLaunch, Goto
  <2>3. ASSUME NEW c \in Call, GetBrowser(c) \/ Closed(c) PROVE LaunchIsAwaited'
    BY <2>1, <2>2, <2>3 DEF GetBrowser, Closed, ResetSemaphore, Goto
  <2>4. ASSUME NEW c \in Call, Acquire(c) \/ Queue(c) \/ GiveUp(c) \/ OpenSucceeds(c)
        PROVE  LaunchIsAwaited'
    BY <2>1, <2>4 DEF Acquire, Queue, GiveUp, OpenSucceeds, Goto
  <2>5. ASSUME NEW c \in Call, Release(c), pc[c] # "launching", UNCHANGED browser,
               waitQueue # <<>> => Head(waitQueue) = Expired \/ pc[Head(waitQueue)] = "waiting"
        PROVE  LaunchIsAwaited'
    BY <2>1, <2>5 DEF Release, Goto
  <2>6. ASSUME NEW c \in Call, Refuse(c) \/ OpenFails(c) \/ ReleasePage(c)
        PROVE  LaunchIsAwaited'
    BY <2>5, <2>6, HeadWaits DEF Refuse, OpenFails, ReleasePage
  <2>7. CASE LaunchSucceeds \/ LaunchFails
    BY <2>7 DEF LaunchSucceeds, LaunchFails, LaunchIsAwaited
  <2>8. CASE Crash \/ UNCHANGED vars
    BY <2>1, <2>8 DEF Crash, vars
  <2>. QED
    BY <2>3, <2>4, <2>6, <2>7, <2>8 DEF Next
<1>. QED
  BY <1>1, <1>2, PoolInvariant, PTL DEF Spec

-----------------------------------------------------------------------------
(* The sum of the parts that MCParts gives to TLC.                         *)

\* A behaviour of the sum is one of the part it names: the part is never
\* changed, and every step is a step of it or leaves it alone.
LEMMA StepOfPart ==
  ASSUME [PartsNext]_partsVars
  PROVE  /\ part' = part
         /\ part = "pool" => [Next]_vars
         /\ part = "proxy" => [ProxyNext]_proxyVars
         /\ part = "limits" => [AuthLimitsNext]_limitsVars
         /\ part = "publishing" => [PublishingNext]_publishingVars
         /\ part = "accounts" => [AccountsNext]_accountsVars
         /\ part = "catalog" => [CatalogNext]_catalogVars
         /\ part = "switch" => [KillSwitchNext]_killVars
         /\ part = "audit" => [AuditNext]_auditVars
         /\ part = "backups" => [BackupsNext]_backupVars
         /\ part = "quality" => [QualityNext]_qualityVars
         /\ part = "deep" => [DeepNext]_deepVars
         /\ part = "builder" => [BuilderNext]_builderVars
         /\ part = "panel" => [RegenerationNext]_regenVars
         /\ part = "suggestions" => [SuggestionsNext]_suggestionVars
BY DEF PartsNext, partsVars, Rest

\* Every part that the run checks keeps its types, for all values of its
\* constants: the proofs are the parts' own.
THEOREM PartsAreTyped == PartsSpec => []PartsTypeOK
<1>1. PartsSpec => [](part = "pool" => TypeOK)
  <2>1. PartsInit => Init
    BY DEF PartsInit
  <2>2. [PartsNext]_partsVars /\ part = "pool" => [Next]_vars /\ (part = "pool")'
    BY StepOfPart
  <2>3. [PartsNext]_partsVars /\ ~(part = "pool") => ~(part = "pool")'
    BY StepOfPart
  <2>. QED
    BY <2>1, <2>2, <2>3, TypeOKAlways, PTL DEF PartsSpec, partsVars, Spec
<1>2. PartsSpec => [](part = "proxy" => ProxyTypeOK)
  <2>1. PartsInit => ProxyInit
    BY DEF PartsInit
  <2>2. [PartsNext]_partsVars /\ part = "proxy" => [ProxyNext]_proxyVars /\ (part = "proxy")'
    BY StepOfPart
  <2>3. [PartsNext]_partsVars /\ ~(part = "proxy") => ~(part = "proxy")'
    BY StepOfPart
  <2>. QED
    BY <2>1, <2>2, <2>3, ProxyIsTyped, PTL DEF PartsSpec, partsVars, ProxySpec
<1>3. PartsSpec => [](part = "limits" => AuthLimitsTypeOK)
  <2>1. PartsInit => AuthLimitsInit
    BY DEF PartsInit
  <2>2. [PartsNext]_partsVars /\ part = "limits" => [AuthLimitsNext]_limitsVars /\ (part = "limits")'
    BY StepOfPart
  <2>3. [PartsNext]_partsVars /\ ~(part = "limits") => ~(part = "limits")'
    BY StepOfPart
  <2>. QED
    BY <2>1, <2>2, <2>3, LimitersAreTyped, PTL DEF PartsSpec, partsVars, AuthLimitsSpec
<1>4. PartsSpec => [](part = "publishing" => PublishingTypeOK)
  <2>1. PartsInit => PublishingInit
    BY DEF PartsInit
  <2>2. [PartsNext]_partsVars /\ part = "publishing" => [PublishingNext]_publishingVars /\ (part = "publishing")'
    BY StepOfPart
  <2>3. [PartsNext]_partsVars /\ ~(part = "publishing") => ~(part = "publishing")'
    BY StepOfPart
  <2>. QED
    BY <2>1, <2>2, <2>3, PublishingIsTyped, PTL DEF PartsSpec, partsVars, PublishingSpec
<1>5. PartsSpec => [](part = "accounts" => AccountsTypeOK)
  <2>1. PartsInit => AccountsInit
    BY DEF PartsInit
  <2>2. [PartsNext]_partsVars /\ part = "accounts" => [AccountsNext]_accountsVars /\ (part = "accounts")'
    BY StepOfPart
  <2>3. [PartsNext]_partsVars /\ ~(part = "accounts") => ~(part = "accounts")'
    BY StepOfPart
  <2>. QED
    BY <2>1, <2>2, <2>3, AccountsAreTyped, PTL DEF PartsSpec, partsVars, AccountsSpec
<1>6. PartsSpec => [](part = "catalog" => CatalogTypeOK)
  <2>1. PartsInit => CatalogInit
    BY DEF PartsInit
  <2>2. [PartsNext]_partsVars /\ part = "catalog" => [CatalogNext]_catalogVars /\ (part = "catalog")'
    BY StepOfPart
  <2>3. [PartsNext]_partsVars /\ ~(part = "catalog") => ~(part = "catalog")'
    BY StepOfPart
  <2>. QED
    BY <2>1, <2>2, <2>3, CatalogIsTyped, PTL DEF PartsSpec, partsVars, CatalogSpec
<1>7. PartsSpec => [](part = "switch" => KillSwitchTypeOK)
  <2>1. PartsInit => KillSwitchInit
    BY DEF PartsInit
  <2>2. [PartsNext]_partsVars /\ part = "switch" => [KillSwitchNext]_killVars /\ (part = "switch")'
    BY StepOfPart
  <2>3. [PartsNext]_partsVars /\ ~(part = "switch") => ~(part = "switch")'
    BY StepOfPart
  <2>. QED
    BY <2>1, <2>2, <2>3, SwitchesAreTyped, PTL DEF PartsSpec, partsVars, KillSwitchSpec
<1>8. PartsSpec => [](part = "audit" => AuditTypeOK)
  <2>1. PartsInit => AuditInit
    BY DEF PartsInit
  <2>2. [PartsNext]_partsVars /\ part = "audit" => [AuditNext]_auditVars /\ (part = "audit")'
    BY StepOfPart
  <2>3. [PartsNext]_partsVars /\ ~(part = "audit") => ~(part = "audit")'
    BY StepOfPart
  <2>. QED
    BY <2>1, <2>2, <2>3, LogIsTyped, PTL DEF PartsSpec, partsVars, AuditSpec
<1>9. PartsSpec => [](part = "backups" => BackupsTypeOK)
  <2>1. PartsInit => BackupsInit
    BY DEF PartsInit
  <2>2. [PartsNext]_partsVars /\ part = "backups" => [BackupsNext]_backupVars /\ (part = "backups")'
    BY StepOfPart
  <2>3. [PartsNext]_partsVars /\ ~(part = "backups") => ~(part = "backups")'
    BY StepOfPart
  <2>. QED
    BY <2>1, <2>2, <2>3, BackupsAreTyped, PTL DEF PartsSpec, partsVars, BackupsSpec
<1>10. PartsSpec => [](part = "quality" => QualityTypeOK)
  <2>1. PartsInit => QualityInit
    BY DEF PartsInit
  <2>2. [PartsNext]_partsVars /\ part = "quality" => [QualityNext]_qualityVars /\ (part = "quality")'
    BY StepOfPart
  <2>3. [PartsNext]_partsVars /\ ~(part = "quality") => ~(part = "quality")'
    BY StepOfPart
  <2>. QED
    BY <2>1, <2>2, <2>3, QualityIsTyped, PTL DEF PartsSpec, partsVars, QualitySpec
<1>11. PartsSpec => [](part = "deep" => DeepTypeOK)
  <2>1. PartsInit => DeepInit
    BY DEF PartsInit
  <2>2. [PartsNext]_partsVars /\ part = "deep" => [DeepNext]_deepVars /\ (part = "deep")'
    BY StepOfPart
  <2>3. [PartsNext]_partsVars /\ ~(part = "deep") => ~(part = "deep")'
    BY StepOfPart
  <2>. QED
    BY <2>1, <2>2, <2>3, DeepCheckIsTyped, PTL DEF PartsSpec, partsVars, DeepSpec
<1>12. PartsSpec => [](part = "builder" => BuilderTypeOK)
  <2>1. PartsInit => BuilderInit
    BY DEF PartsInit
  <2>2. [PartsNext]_partsVars /\ part = "builder" => [BuilderNext]_builderVars /\ (part = "builder")'
    BY StepOfPart
  <2>3. [PartsNext]_partsVars /\ ~(part = "builder") => ~(part = "builder")'
    BY StepOfPart
  <2>. QED
    BY <2>1, <2>2, <2>3, BuilderIsTyped, PTL DEF PartsSpec, partsVars, BuilderSpec
<1>13. PartsSpec => [](part = "panel" => RegenerationTypeOK)
  <2>1. PartsInit => RegenerationInit
    BY DEF PartsInit
  <2>2. [PartsNext]_partsVars /\ part = "panel" => [RegenerationNext]_regenVars /\ (part = "panel")'
    BY StepOfPart
  <2>3. [PartsNext]_partsVars /\ ~(part = "panel") => ~(part = "panel")'
    BY StepOfPart
  <2>. QED
    BY <2>1, <2>2, <2>3, RegenerationIsTyped, PTL DEF PartsSpec, partsVars, RegenerationSpec
<1>14. PartsSpec => [](part = "suggestions" => SuggestionsTypeOK)
  <2>1. PartsInit => SuggestionsInit
    BY DEF PartsInit
  <2>2. [PartsNext]_partsVars /\ part = "suggestions" => [SuggestionsNext]_suggestionVars /\ (part = "suggestions")'
    BY StepOfPart
  <2>3. [PartsNext]_partsVars /\ ~(part = "suggestions") => ~(part = "suggestions")'
    BY StepOfPart
  <2>. QED
    BY <2>1, <2>2, <2>3, SuggestionsAreTyped, PTL DEF PartsSpec, partsVars
<1> DEFINE A == /\ part = "pool" => TypeOK
                /\ part = "proxy" => ProxyTypeOK
                /\ part = "limits" => AuthLimitsTypeOK
                /\ part = "publishing" => PublishingTypeOK
                /\ part = "accounts" => AccountsTypeOK
           B == /\ part = "catalog" => CatalogTypeOK
                /\ part = "switch" => KillSwitchTypeOK
                /\ part = "audit" => AuditTypeOK
                /\ part = "backups" => BackupsTypeOK
                /\ part = "quality" => QualityTypeOK
           C == /\ part = "deep" => DeepTypeOK
                /\ part = "builder" => BuilderTypeOK
                /\ part = "panel" => RegenerationTypeOK
                /\ part = "suggestions" => SuggestionsTypeOK
<1>15. PartsSpec => []A
  BY <1>1, <1>2, <1>3, <1>4, <1>5, PTL
<1>16. PartsSpec => []B
  BY <1>6, <1>7, <1>8, <1>9, <1>10, PTL
<1>17. PartsSpec => []C
  BY <1>11, <1>12, <1>13, <1>14, PTL
<1>18. A /\ B /\ C => PartsTypeOK
  BY DEF PartsTypeOK
<1> HIDE DEF A, B, C
<1>. QED
  BY <1>15, <1>16, <1>17, <1>18, PTL
=============================================================================
