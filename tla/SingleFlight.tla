---------------------------- MODULE SingleFlight ----------------------------
(***************************************************************************)
(* What the generation lock promises, without saying how: while a project  *)
(* exists, at most one generation pipeline of it is in flight.  Pipelines  *)
(* may stop in any number at once (one ends, or the process crashes), and  *)
(* a project may be deleted at any time, after which nothing is promised   *)
(* of it any more.                                                         *)
(***************************************************************************)
CONSTANTS Project, Run, None

VARIABLES
  flight,   \* flight[r]: the project run r is generating, or None
  alive     \* the projects that exist

sfVars == <<flight, alive>>

Init ==
  /\ flight = [r \in Run |-> None]
  /\ alive = Project

\* A pipeline may start on a live project only when it is the only one.
Start(r, p) ==
  /\ flight[r] = None
  /\ p \in alive => \A s \in Run : flight[s] # p
  /\ flight' = [flight EXCEPT ![r] = p]
  /\ UNCHANGED alive

Stop(S) ==
  /\ flight' = [r \in Run |-> IF r \in S THEN None ELSE flight[r]]
  /\ UNCHANGED alive

Retire(p) ==
  /\ alive' = alive \ {p}
  /\ UNCHANGED flight

Next ==
  \/ \E r \in Run, p \in Project : Start(r, p)
  \/ \E S \in SUBSET Run : Stop(S)
  \/ \E p \in Project : Retire(p)

Spec == Init /\ [][Next]_sfVars
=============================================================================
