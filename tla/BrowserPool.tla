----------------------------- MODULE BrowserPool -----------------------------
(***************************************************************************)
(* The pool of browser pages the rendering QC draws from: a counting       *)
(* semaphore with a queue of waiters and a waiting time limit, and one     *)
(* shared Chromium that is launched on demand and replaced after a crash.  *)
(*                                                                         *)
(* The semaphore's operations are synchronous; launching, closing and      *)
(* opening pages are awaited, so other calls, timers and crashes fall      *)
(* between them.  A call is one getPage, the checks, and the releasePage.  *)
(***************************************************************************)
EXTENDS Integers, Sequences, FiniteSets

CONSTANTS
  Call,        \* QC runs in flight at a time
  Expired,     \* a queue entry whose waiter has given up
  MaxPages,    \* MAX_CONCURRENT_PAGES
  SlowClose,   \* may closing a crashed browser outlast launching a new one
  MaxBrowsers, \* bound: browsers launched
  MaxQueue     \* bound: queue entries

ASSUME ExpiredIsNoCall == Expired \notin Call
ASSUME CallsAreFinite == IsFiniteSet(Call)
ASSUME MaxPagesIsPositive == MaxPages \in Nat \ {0}
ASSUME SlowCloseIsBoolean == SlowClose \in BOOLEAN
ASSUME BoundsAreNaturals == {MaxBrowsers, MaxQueue} \subseteq Nat

VARIABLES
  activePages,     \* the semaphore's count
  waitQueue,       \* its queue: who each entry wakes
  browserInstance, \* the shared browser, 0 if none
  launching,       \* browserLaunchPromise is pending
  connected,       \* browsers alive
  launched,        \* browsers launched so far (numbers them)
  pc,              \* where each call is
  inBrowser,       \* the browser each call opens its page in, 0 if none
  forgotten,       \* permits held when the count was reset (history)
  leaked           \* permits handed to waiters who had given up (history)

semaphore == <<activePages, waitQueue>>
browser == <<browserInstance, launching, connected, launched>>
history == <<forgotten, leaked>>
vars == <<semaphore, browser, pc, inBrowser, history>>

PC == {"idle", "waiting", "acquired", "closing", "launching", "refused", "opening", "open"}

\* The calls that have a permit and have not given it back.
HasPermit == PC \ {"idle", "waiting"}
Holders == {c \in Call : pc[c] \in HasPermit}

Init ==
  /\ activePages = 0
  /\ waitQueue = <<>>
  /\ browserInstance = 0
  /\ launching = FALSE
  /\ connected = {}
  /\ launched = 0
  /\ pc = [c \in Call |-> "idle"]
  /\ inBrowser = [c \in Call |-> 0]
  /\ forgotten = 0
  /\ leaked = 0

Goto(c, l) == pc' = [pc EXCEPT ![c] = l]

-----------------------------------------------------------------------------
(* The semaphore.                                                          *)

\* Mutant: one page more than the limit.
Acquire_OneMore(c) ==
  /\ pc[c] = "idle"
  /\ activePages <= MaxPages
  /\ activePages' = activePages + 1
  /\ Goto(c, "acquired")
  /\ UNCHANGED <<waitQueue, browser, inBrowser, history>>

Acquire(c) ==
  /\ pc[c] = "idle"
  /\ activePages < MaxPages
  /\ activePages' = activePages + 1
  /\ Goto(c, "acquired")
  /\ UNCHANGED <<waitQueue, browser, inBrowser, history>>

Queue(c) ==
  /\ pc[c] = "idle"
  /\ activePages >= MaxPages
  /\ Len(waitQueue) < MaxQueue
  /\ waitQueue' = Append(waitQueue, c)
  /\ Goto(c, "waiting")
  /\ UNCHANGED <<activePages, browser, inBrowser, history>>

\* The time limit: the call gets no page.  The queue holds a wrapper of
\* resolve, which indexOf(resolve) does not find, so the entry stays.
GiveUp(c) ==
  /\ pc[c] = "waiting"
  /\ waitQueue' = [i \in DOMAIN waitQueue |->
                     IF waitQueue[i] = c THEN Expired ELSE waitQueue[i]]
  /\ Goto(c, "idle")
  /\ UNCHANGED <<activePages, browser, inBrowser, history>>

\* c is done: its permit goes to the first in the queue, or back to the
\* count.  An entry that has expired takes it and does nothing with it.
Release(c) ==
  \/ /\ waitQueue = <<>>
     /\ activePages' = activePages - 1
     /\ Goto(c, "idle")
     /\ UNCHANGED <<waitQueue, leaked>>
  \/ /\ waitQueue # <<>>
     /\ waitQueue' = Tail(waitQueue)
     /\ IF Head(waitQueue) = Expired
        THEN Goto(c, "idle") /\ leaked' = leaked + 1
        ELSE /\ pc' = [pc EXCEPT ![c] = "idle", ![Head(waitQueue)] = "acquired"]
             /\ UNCHANGED leaked
     /\ UNCHANGED activePages

-----------------------------------------------------------------------------
(* The browser.                                                            *)

Alive == browserInstance \in connected

\* The browser has gone: the count restarts from zero and everybody in the
\* queue is told that there is no page.
ResetSemaphore(c) ==
  /\ activePages' = 0
  /\ waitQueue' = <<>>
  /\ forgotten' = forgotten + activePages
  /\ pc' = [d \in Call |-> IF d = c THEN "closing"
                           ELSE IF pc[d] = "waiting" THEN "idle" ELSE pc[d]]
  /\ UNCHANGED leaked

\* Share the launch in progress, or begin one.
JoinLaunch(c) ==
  /\ launching' = TRUE
  /\ browserInstance' = 0
  /\ Goto(c, "launching")
  /\ UNCHANGED <<connected, launched>>

GetBrowser(c) ==
  /\ pc[c] = "acquired"
  /\ \/ /\ Alive
        /\ Goto(c, "opening")
        /\ inBrowser' = [inBrowser EXCEPT ![c] = browserInstance]
        /\ UNCHANGED <<semaphore, browser, history>>
     \/ /\ browserInstance = 0
        /\ JoinLaunch(c)
        /\ UNCHANGED <<semaphore, inBrowser, history>>
     \/ /\ browserInstance # 0 /\ ~Alive
        /\ ResetSemaphore(c)
        /\ UNCHANGED <<browser, inBrowser>>

\* close() of the dead browser returns.  It forgets the shared instance,
\* whichever that is by now.
Closed(c) ==
  /\ pc[c] = "closing"
  /\ JoinLaunch(c)
  /\ UNCHANGED <<semaphore, inBrowser, history>>

\* Mutant: the promise is not shared, every caller launches a browser.
LaunchSucceeds_Unshared ==
  /\ launching
  /\ launched < MaxBrowsers
  /\ SlowClose \/ \A c \in Call : pc[c] # "closing"
  /\ launched' = launched + 1
  /\ browserInstance' = launched + 1
  /\ connected' = connected \cup {launched + 1}
  /\ \E c \in Call :
       /\ pc[c] = "launching"
       /\ launching' = \E d \in Call \ {c} : pc[d] = "launching"
       /\ Goto(c, "opening")
       /\ inBrowser' = [inBrowser EXCEPT ![c] = launched + 1]
  /\ UNCHANGED <<semaphore, history>>

\* The calls that share the launch all go on with the new browser.
LaunchSucceeds ==
  /\ launching
  /\ launched < MaxBrowsers
  /\ SlowClose \/ \A c \in Call : pc[c] # "closing"
  /\ launched' = launched + 1
  /\ browserInstance' = launched + 1
  /\ connected' = connected \cup {launched + 1}
  /\ launching' = FALSE
  /\ pc' = [c \in Call |-> IF pc[c] = "launching" THEN "opening" ELSE pc[c]]
  /\ inBrowser' = [c \in Call |-> IF pc[c] = "launching" THEN launched + 1 ELSE inBrowser[c]]
  /\ UNCHANGED <<semaphore, history>>

\* No page for any of them; the promise is dropped so that the next call
\* tries again.
LaunchFails ==
  /\ launching
  /\ launching' = FALSE
  /\ pc' = [c \in Call |-> IF pc[c] = "launching" THEN "refused" ELSE pc[c]]
  /\ UNCHANGED <<semaphore, browserInstance, connected, launched, inBrowser, history>>

\* getPage returns null to a call that could not have a browser.
Refuse(c) ==
  /\ pc[c] = "refused"
  /\ Release(c)
  /\ UNCHANGED <<browser, inBrowser, forgotten>>

OpenSucceeds(c) ==
  /\ pc[c] = "opening"
  /\ inBrowser[c] \in connected
  /\ Goto(c, "open")
  /\ UNCHANGED <<semaphore, browser, inBrowser, history>>

\* Mutant: the error is caught and the permit forgotten.
OpenFails_KeepsPermit(c) ==
  /\ pc[c] = "opening"
  /\ Goto(c, "idle")
  /\ inBrowser' = [inBrowser EXCEPT ![c] = 0]
  /\ UNCHANGED <<semaphore, browser, history>>

OpenFails(c) ==
  /\ pc[c] = "opening"
  /\ Release(c)
  /\ inBrowser' = [inBrowser EXCEPT ![c] = 0]
  /\ UNCHANGED <<browser, forgotten>>

\* The checks are over, or the page has gone with its browser: releasePage
\* gives the permit back in either case.
ReleasePage(c) ==
  /\ pc[c] = "open"
  /\ Release(c)
  /\ inBrowser' = [inBrowser EXCEPT ![c] = 0]
  /\ UNCHANGED <<browser, forgotten>>

Crash ==
  /\ Alive
  /\ connected' = connected \ {browserInstance}
  /\ UNCHANGED <<semaphore, browserInstance, launching, launched, pc, inBrowser, history>>

Next ==
  \/ LaunchSucceeds \/ LaunchFails \/ Crash
  \/ \E c \in Call :
       \/ Acquire(c) \/ Queue(c) \/ GiveUp(c)
       \/ GetBrowser(c) \/ Closed(c)
       \/ Refuse(c) \/ OpenSucceeds(c) \/ OpenFails(c) \/ ReleasePage(c)

Spec == Init /\ [][Next]_vars

-----------------------------------------------------------------------------
(* Properties.                                                             *)

TypeOK ==
  /\ activePages \in Int /\ activePages <= MaxPages
  /\ waitQueue \in Seq(Call \cup {Expired})
  /\ browserInstance \in Nat
  /\ launching \in BOOLEAN
  /\ connected \subseteq Nat
  /\ launched \in Nat
  /\ pc \in [Call -> PC]
  /\ inBrowser \in [Call -> Nat]
  /\ forgotten \in Int
  /\ leaked \in Nat

\* The semaphore's count, wrong as resets and expired waiters make it, is off
\* by exactly the permits they account for: no other path through a failed
\* launch, a failed page, a crash or a hand-over loses or doubles a permit.
PermitsAccounted == activePages + forgotten = Cardinality(Holders) + leaked

\* Until a crashed browser is replaced for the first time, no more calls have
\* a page, or are about to, than QC_MAX_CONCURRENT_PAGES.
BoundedUntilReset == forgotten = 0 => Cardinality(Holders) <= MaxPages

\* Nobody queues while a permit is free: no release or reset forgets to wake
\* the queue.
NoLostWakeup == waitQueue # <<>> => activePages >= MaxPages

\* A launch is pending only while some call awaits it: a failed launch is
\* never left behind for later calls to join.
LaunchIsAwaited == launching => \E c \in Call : pc[c] = "launching"

\* At most one Chromium runs, however many calls find none or a dead one.
OneBrowser == Cardinality(connected) <= 1

\* Stated in acquireSemaphore ("Remove from queue"): a waiter that has timed
\* out is no longer queued.
TimedOutLeavesQueue == \A i \in DOMAIN waitQueue : waitQueue[i] # Expired
=============================================================================
