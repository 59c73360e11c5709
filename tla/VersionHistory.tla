--------------------------- MODULE VersionHistory ---------------------------
(***************************************************************************)
(* What a project's owner may rely on about its code, without saying how   *)
(* generations, rollbacks, compensations and pruning arrive at it: each    *)
(* version reported is newer than every one reported before, and what the  *)
(* project shows is never older than what was reported.  Of a project that *)
(* is deleted nothing is promised any more.                                *)
(***************************************************************************)
EXTENDS Integers

CONSTANTS Project, Version

VARIABLES
  newest,    \* newest[p]: the newest version of existing project p, or 0
  reported   \* reported[p]: the versions its owner was told of

historyVars == <<newest, reported>>

Init ==
  /\ newest = [p \in Project |-> 0]
  /\ reported = [p \in Project |-> {}]

\* The owner is told of a version.
Report(p, v) ==
  /\ v <= newest[p]
  /\ \A w \in reported[p] : w < v
  /\ reported' = [reported EXCEPT ![p] = @ \cup {v}]
  /\ UNCHANGED newest

\* A version is added, or one that nobody was told of is taken back.
Move(p, v) ==
  /\ \A w \in reported[p] : w <= v
  /\ newest' = [newest EXCEPT ![p] = v]
  /\ UNCHANGED reported

Remove(p) ==
  /\ newest' = [q \in DOMAIN newest \ {p} |-> newest[q]]
  /\ reported' = [q \in DOMAIN newest \ {p} |-> reported[q]]

Next ==
  \E p \in DOMAIN newest :
    \/ \E v \in Version : Report(p, v)
    \/ \E v \in Version \cup {0} : Move(p, v)
    \/ Remove(p)

Spec == Init /\ [][Next]_historyVars
=============================================================================
