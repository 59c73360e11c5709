----------------------------- MODULE KillSwitch -----------------------------
(***************************************************************************)
(* The switches an operator stops generation and sign-up with              *)
(* (lib/config/featureFlags.ts): rows of the database, read by every       *)
(* process through a cache of its own, which lives CACHE_TTL_MS.  During a *)
(* deployment the old process and the new one serve requests over the same *)
(* database; the new one brings the rows in step with the bundle at boot   *)
(* (db/sqlite/ensureFeatureFlags.ts).                                      *)
(*                                                                         *)
(* The clock is Date.now() of one machine, taken to go forward only.       *)
(***************************************************************************)
EXTENDS Naturals

CONSTANTS
    Flag,      \* FEATURE_FLAGS
    Process,
    FlagTtl,   \* CACHE_TTL_MS
    MaxTime    \* bound on the clock

ASSUME KillSwitchAssumption == FlagTtl \in Nat \ {0} /\ MaxTime \in Nat

VARIABLES
    flags,    \* flags[f]: "on" or "off", "none" without a row
    running,  \* the processes that serve requests
    fcache,   \* fcache[i]: what process i has cached: [at, values], or Nothing
    now,
    offBy,    \* history: offBy[f]: when, and by which process, f was last switched off
    passed    \* history: the request the last step let through, Nothing when it let none

killVars == <<flags, running, fcache, now, offBy, passed>>

Unset == [is |-> FALSE]
Values == [Flag -> {"on", "off", "none"}]
Cached == [is : {TRUE}, at : 0..MaxTime, values : Values]

(* Every variable has its type. *)
KillSwitchTypeOK ==
    /\ flags \in Values
    /\ running \subseteq Process
    /\ fcache \in [Process -> Cached \cup {Unset}]
    /\ now \in 0..MaxTime
    /\ offBy \in [Flag -> [is : {TRUE}, at : 0..MaxTime, by : Process] \cup {Unset}]
    /\ passed \in [is : {TRUE}, flag : Flag, by : Process, blind : BOOLEAN] \cup {Unset}

KillSwitchInit ==
    /\ flags = [f \in Flag |-> "none"]
    /\ running = {}
    /\ fcache = [i \in Process |-> Unset]
    /\ now = 0
    /\ offBy = [f \in Flag |-> Unset]
    /\ passed = Unset

-----------------------------------------------------------------------------
(* bootstrap: a flag of the bundle without a row gets one, switched on; a  *)
(* row that is there keeps its value.                                      *)
EnsureFeatureFlags == [f \in Flag |-> IF flags[f] = "none" THEN "on" ELSE flags[f]]

Start(i) ==
    /\ i \notin running
    /\ running' = running \cup {i}
    /\ flags' = EnsureFeatureFlags
    /\ fcache' = [fcache EXCEPT ![i] = Unset]
    /\ passed' = Unset
    /\ UNCHANGED <<now, offBy>>

Stop(i) ==
    /\ i \in running
    /\ running' = running \ {i}
    /\ passed' = Unset
    /\ UNCHANGED <<flags, fcache, now, offBy>>

Fresh(i) == fcache[i].is /\ now - fcache[i].at < FlagTtl

Through(f, i, value, blind) ==
    passed' = IF value = "off" THEN Unset
              ELSE [is |-> TRUE, flag |-> f, by |-> i, blind |-> blind]

(* A request of generate, regenerate or signup asks process i whether f is *)
(* on: from the cache while it is fresh, from the database otherwise.      *)
AskCache(f, i) ==
    /\ i \in running /\ Fresh(i)
    /\ Through(f, i, fcache[i].values[f], FALSE)
    /\ UNCHANGED <<flags, running, fcache, now, offBy>>

AskDatabase(f, i) ==
    /\ i \in running /\ ~Fresh(i)
    /\ fcache' = [fcache EXCEPT ![i] = [is |-> TRUE, at |-> now, values |-> flags]]
    /\ Through(f, i, flags[f], FALSE)
    /\ UNCHANGED <<flags, running, now, offBy>>

(* The read fails: open, and nothing is remembered of it.                  *)
AskFails_Caches(f, i) ==
    /\ i \in running /\ ~Fresh(i)
    /\ fcache' = [fcache EXCEPT ![i] =
          [is |-> TRUE, at |-> now, values |-> [g \in Flag |-> "none"]]]
    /\ Through(f, i, "none", TRUE)
    /\ UNCHANGED <<flags, running, now, offBy>>
AskFails(f, i) ==
    /\ i \in running /\ ~Fresh(i)
    /\ Through(f, i, "none", TRUE)
    /\ UNCHANGED <<flags, running, fcache, now, offBy>>

(* setFeatureFlag: written, inserted where there is no row, and the cache  *)
(* of the process that was asked is dropped.                               *)
SetFeatureFlag(f, i, value) ==
    /\ i \in running
    /\ flags' = [flags EXCEPT ![f] = value]
    /\ fcache' = [fcache EXCEPT ![i] = Unset]
    /\ offBy' = IF value = "on" THEN [offBy EXCEPT ![f] = Unset]
                ELSE [offBy EXCEPT ![f] = [is |-> TRUE, at |-> now, by |-> i]]
    /\ passed' = Unset
    /\ UNCHANGED <<running, now>>

PassTime ==
    /\ now < MaxTime
    /\ now' = now + 1
    /\ passed' = Unset
    /\ UNCHANGED <<flags, running, fcache, offBy>>

KillSwitchNext ==
    \/ \E i \in Process : Start(i) \/ Stop(i)
    \/ \E f \in Flag, i \in Process : AskCache(f, i) \/ AskDatabase(f, i) \/ AskFails(f, i)
    \/ \E f \in Flag, i \in Process, value \in {"on", "off"} : SetFeatureFlag(f, i, value)
    \/ PassTime

KillSwitchSpec == KillSwitchInit /\ [][KillSwitchNext]_killVars

-----------------------------------------------------------------------------
(* What a switch promises: once it is off, requests stop at once in the    *)
(* process it was switched off in and within FlagTtl in every other one,   *)
(* through restarts and failing reads; only a request whose own read of    *)
(* the database fails is let through.                                      *)
SwitchedOffStops ==
    passed.is /\ offBy[passed.flag].is =>
        \/ passed.blind
        \/ /\ passed.by # offBy[passed.flag].by
           /\ now - offBy[passed.flag].at < FlagTtl
=============================================================================
