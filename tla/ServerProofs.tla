----------------------------- MODULE ServerProofs -----------------------------
(***************************************************************************)
(* Five smaller parts of the server, for every number of processes, users, *)
(* APIs, calls and backups: what is switched off stops (KillSwitch), who   *)
(* has left is forgotten (AuditLog), what is deactivated stays so          *)
(* (Catalog), suggestions are paid for (Suggestions), and a whole backup   *)
(* remains (Backups).                                                      *)
(***************************************************************************)
EXTENDS KillSwitch, AuditLog, Catalog, Suggestions, Backups, FiniteSetTheorems,
        WellFoundedInduction, TLAPS

-----------------------------------------------------------------------------
(* Feature flags.                                                          *)

\* A switch that is off is off in the database, and a cache that does not
\* know it yet is another process's and was filled before.
CachesLag ==
    /\ \A i \in Process : fcache[i].is => fcache[i].at <= now
    /\ \A f \in Flag : offBy[f].is =>
          /\ flags[f] = "off"
          /\ offBy[f].at <= now
          /\ \A i \in Process : fcache[i].is /\ fcache[i].values[f] # "off" =>
                i # offBy[f].by /\ fcache[i].at <= offBy[f].at

KillSwitchInv == KillSwitchTypeOK /\ CachesLag /\ SwitchedOffStops

\* The times that are compared are numbers.
LEMMA TimesAreNumbers ==
  ASSUME KillSwitchTypeOK
  PROVE  /\ now \in Nat /\ FlagTtl \in Nat /\ MaxTime \in Nat
         /\ \A i \in Process : fcache[i].is => fcache[i].at \in Nat
         /\ \A f \in Flag : offBy[f].is => offBy[f].at \in Nat
<1>1. now \in Nat /\ FlagTtl \in Nat /\ MaxTime \in Nat /\ 0..MaxTime \subseteq Nat
  BY KillSwitchAssumption DEF KillSwitchTypeOK
<1>2. ASSUME NEW i \in Process, fcache[i].is PROVE fcache[i].at \in Nat
  <2>1. fcache[i] \in Cached \cup {Unset}
    BY DEF KillSwitchTypeOK
  <2>2. fcache[i] \in Cached
    BY <1>2, <2>1 DEF Unset
  <2>. QED
    BY <1>1, <2>2 DEF Cached
<1>3. ASSUME NEW f \in Flag, offBy[f].is PROVE offBy[f].at \in Nat
  <2>1. offBy[f] \in [is : {TRUE}, at : 0..MaxTime, by : Process] \cup {Unset}
    BY DEF KillSwitchTypeOK
  <2>2. offBy[f] # Unset
    BY <1>3 DEF Unset
  <2>. QED
    BY <1>1, <2>1, <2>2
<1>. QED
  BY <1>1, <1>2, <1>3

\* A process that starts has nothing cached, and no switch exists.
LEMMA KillSwitchBegins == KillSwitchInit => KillSwitchInv
BY KillSwitchAssumption
DEF KillSwitchInit, KillSwitchInv, KillSwitchTypeOK, CachesLag, SwitchedOffStops, Unset, Values,
    Cached

\* A process starts: rows that are off are left alone.
LEMMA StartKeepsSwitches ==
  ASSUME KillSwitchInv, NEW i \in Process, Start(i)
  PROVE  KillSwitchInv'
<1>1. KillSwitchTypeOK'
  BY DEF KillSwitchInv, KillSwitchTypeOK, Start, EnsureFeatureFlags, Unset, Values
<1>2. CachesLag'
  BY DEF KillSwitchInv, KillSwitchTypeOK, CachesLag, Start, EnsureFeatureFlags, Unset
<1>3. SwitchedOffStops'
  BY DEF Start, SwitchedOffStops, Unset
<1>. QED
  BY <1>1, <1>2, <1>3 DEF KillSwitchInv

\* A read of the database: what is remembered is what is there.
LEMMA ReadsKeepSwitches ==
  ASSUME KillSwitchInv, NEW f \in Flag, NEW i \in Process, AskDatabase(f, i)
  PROVE  KillSwitchInv'
<1>1. KillSwitchTypeOK'
  BY DEF KillSwitchInv, KillSwitchTypeOK, AskDatabase, Through, Unset, Values, Cached
<1>2. CachesLag'
  <2>1. \A j \in Process : fcache'[j] =
          IF j = i THEN [is |-> TRUE, at |-> now, values |-> flags] ELSE fcache[j]
    BY DEF KillSwitchInv, KillSwitchTypeOK, AskDatabase
  <2>. QED
    BY <2>1 DEF KillSwitchInv, KillSwitchTypeOK, CachesLag, AskDatabase, Unset
<1>3. SwitchedOffStops'
  BY DEF KillSwitchInv, CachesLag, AskDatabase, Through, SwitchedOffStops, Unset
<1>. QED
  BY <1>1, <1>2, <1>3 DEF KillSwitchInv

\* An answer from the cache: one that lags is younger than the time to live,
\* and so is the switch it does not know.
LEMMA CacheKeepsSwitches ==
  ASSUME KillSwitchInv, NEW f \in Flag, NEW i \in Process, AskCache(f, i)
  PROVE  KillSwitchInv'
<1>1. KillSwitchTypeOK'
  BY DEF KillSwitchInv, KillSwitchTypeOK, AskCache, Through, Unset
<1>2. CachesLag'
  BY DEF KillSwitchInv, CachesLag, AskCache
<1>3. SwitchedOffStops'
  <2>1. CASE fcache[i].values[f] = "off"
    BY <2>1 DEF AskCache, Through, SwitchedOffStops, Unset
  <2>2. CASE fcache[i].values[f] # "off"
    <3>1. passed' = [is |-> TRUE, flag |-> f, by |-> i, blind |-> FALSE]
      BY <2>2 DEF AskCache, Through
    <3>2. offBy[f].is => i # offBy[f].by /\ now - offBy[f].at < FlagTtl
      <4>1. SUFFICES ASSUME offBy[f].is PROVE i # offBy[f].by /\ now - offBy[f].at < FlagTtl
        OBVIOUS
      <4>2. i # offBy[f].by /\ fcache[i].at <= offBy[f].at /\ now - fcache[i].at < FlagTtl
        BY <2>2, <4>1 DEF KillSwitchInv, CachesLag, AskCache, Fresh
      <4>3. fcache[i].at \in Nat /\ offBy[f].at \in Nat /\ now \in Nat /\ FlagTtl \in Nat
        BY <2>2, <4>1, TimesAreNumbers DEF AskCache, Fresh, KillSwitchInv
      <4>. QED
        BY <4>2, <4>3
    <3>. QED
      BY <3>1, <3>2 DEF SwitchedOffStops, AskCache
  <2>. QED
    BY <2>1, <2>2
<1>. QED
  BY <1>1, <1>2, <1>3 DEF KillSwitchInv

\* A switch is set: its process forgets what it had cached.
LEMMA SettingKeepsSwitches ==
  ASSUME KillSwitchInv, NEW f \in Flag, NEW i \in Process, NEW value \in {"on", "off"},
         SetFeatureFlag(f, i, value)
  PROVE  KillSwitchInv'
<1>1. KillSwitchTypeOK'
  BY DEF KillSwitchInv, KillSwitchTypeOK, SetFeatureFlag, Unset, Values
<1>2. CachesLag'
  <2>1. \A j \in Process : fcache'[j] = IF j = i THEN Unset ELSE fcache[j]
    BY DEF KillSwitchInv, KillSwitchTypeOK, SetFeatureFlag
  <2>2. \A g \in Flag \ {f} : offBy'[g] = offBy[g] /\ flags'[g] = flags[g]
    BY DEF KillSwitchInv, KillSwitchTypeOK, SetFeatureFlag, Values
  <2>3. value = "on" => ~offBy'[f].is
    BY DEF KillSwitchInv, KillSwitchTypeOK, SetFeatureFlag, Unset
  <2>4. value = "off" => offBy'[f] = [is |-> TRUE, at |-> now, by |-> i] /\ flags'[f] = "off"
    BY DEF KillSwitchInv, KillSwitchTypeOK, SetFeatureFlag, Values
  <2>5. now \in Nat /\ now' = now
    BY DEF KillSwitchInv, KillSwitchTypeOK, SetFeatureFlag
  <2>. QED
    BY <2>1, <2>2, <2>3, <2>4, <2>5 DEF KillSwitchInv, CachesLag, Unset
<1>3. SwitchedOffStops'
  BY DEF SetFeatureFlag, SwitchedOffStops, Unset
<1>. QED
  BY <1>1, <1>2, <1>3 DEF KillSwitchInv

\* Every step keeps the invariant.
LEMMA SwitchesStep == KillSwitchInv /\ [KillSwitchNext]_killVars => KillSwitchInv'
<1>. SUFFICES ASSUME KillSwitchInv, [KillSwitchNext]_killVars PROVE KillSwitchInv'
  OBVIOUS
<1>1. ASSUME NEW i \in Process, Stop(i) PROVE KillSwitchInv'
  BY <1>1 DEF KillSwitchInv, KillSwitchTypeOK, CachesLag, SwitchedOffStops, Stop, Unset
<1>2. ASSUME NEW f \in Flag, NEW i \in Process, AskFails(f, i) PROVE KillSwitchInv'
  BY <1>2 DEF KillSwitchInv, KillSwitchTypeOK, CachesLag, SwitchedOffStops, AskFails, Through, Unset
<1>3. CASE PassTime
  <2>1. KillSwitchTypeOK'
    <3>1. now' \in 0..MaxTime
      BY <1>3, TimesAreNumbers DEF KillSwitchInv, PassTime
    <3>. QED
      BY <1>3, <3>1 DEF KillSwitchInv, KillSwitchTypeOK, PassTime
  <2>2. CachesLag'
    BY <1>3, TimesAreNumbers DEF KillSwitchInv, CachesLag, PassTime
  <2>. QED
    BY <1>3, <2>1, <2>2 DEF KillSwitchInv, SwitchedOffStops, PassTime, Unset
<1>4. CASE UNCHANGED killVars
  BY <1>4 DEF killVars, KillSwitchInv, KillSwitchTypeOK, CachesLag, SwitchedOffStops
<1>. QED
  BY <1>1, <1>2, <1>3, <1>4, StartKeepsSwitches, ReadsKeepSwitches, CacheKeepsSwitches,
     SettingKeepsSwitches DEF KillSwitchNext

\* Once a switch is off, its process lets nothing through and every other one
\* stops within the time its cache lives, for every number of processes.
THEOREM SwitchedOffAlwaysStops == KillSwitchSpec => []SwitchedOffStops
<1>1. KillSwitchInv => SwitchedOffStops
  BY DEF KillSwitchInv
<1>. QED
  BY <1>1, KillSwitchBegins, SwitchesStep, PTL DEF KillSwitchSpec

\* The switches, the caches and the clock keep their types.
THEOREM SwitchesAreTyped == KillSwitchSpec => []KillSwitchTypeOK
<1>1. KillSwitchInv => KillSwitchTypeOK
  BY DEF KillSwitchInv
<1>. QED
  BY <1>1, KillSwitchBegins, SwitchesStep, PTL DEF KillSwitchSpec

-----------------------------------------------------------------------------
(* The audit log.                                                          *)

\* Every row that names a user in its payload belongs to that user until it is
\* made anonymous, and rows belong only to users who are there.
RowsBelong ==
    \A r \in log :
        /\ r.user_id # NoId => member[r.user_id] = "in"
        /\ r.userId # NoId => r.userId = r.user_id
        /\ r.slug # NoId => r.slug = r.user_id

\* A project that is there has an owner who is there.
OwnersStay == \A p \in Creation : project[p] = "in" => member[OwnedBy[p]] = "in"

\* As long as records are kept, a deletion's own is there with its day.
DeletionsRecorded ==
    \A u \in Person : member[u] = "gone" /\ day <= left[u] + Keep =>
        \E r \in log : r.deleted = u /\ r.at = left[u]

AuditInv == AuditTypeOK /\ RowsBelong /\ OwnersStay /\ DeletionsRecorded

\* What the invariant gives is the property.
LEMMA BelongingIsForgetting == AuditInv => DeletedUsersAreForgotten
<1>. SUFFICES ASSUME AuditInv, NEW u \in Person, member[u] = "gone"
              PROVE  /\ \A r \in log : u \notin {r.user_id, r.userId, r.slug}
                     /\ day <= left[u] + Keep => \E r \in log : r.deleted = u
  BY DEF DeletedUsersAreForgotten
<1>1. u # NoId
  BY AuditAssumption
<1>. QED
  BY <1>1 DEF AuditInv, RowsBelong, DeletionsRecorded

\* The days are numbers.
LEMMA DaysAreNumbers ==
  ASSUME AuditTypeOK
  PROVE  /\ day \in Nat /\ Keep \in Nat \ {0} /\ MaxDay \in Nat
         /\ \A u \in Person : left[u] \in Nat
         /\ \A r \in log : r.at \in Nat
<1>. QED
  BY AuditAssumption DEF AuditTypeOK, Row

\* A row that is emitted while a user who is there does something, or about
\* nobody, does no harm, and removes none.
LEMMA EmittingKeeps ==
  ASSUME AuditInv, NEW r \in Row,
         r.user_id # NoId => r.userId \in {NoId, r.user_id} /\ r.slug \in {NoId, r.user_id},
         r.user_id = NoId => r.userId = NoId /\ r.slug = NoId,
         member' \in [Person -> {"never", "in", "gone"}],
         project' \in [Creation -> {"never", "in", "gone"}],
         \A u \in Person : member'[u] # member[u] => member[u] = "never" /\ member'[u] = "in",
         OwnersStay', UNCHANGED <<day, left>>, Emit(r)
  PROVE  AuditInv'
<1>1. log \subseteq log' /\ log' \subseteq log \cup {r}
  BY DEF Emit, Persisted
<1>2. r \in log' /\ r \notin log => r.user_id = NoId \/ member'[r.user_id] = "in"
  BY DEF Emit, Persisted
<1>3. AuditTypeOK'
  BY <1>1 DEF AuditInv, AuditTypeOK
<1>4. \A u \in Person : member[u] = "in" => member'[u] = "in"
  BY DEF AuditInv, AuditTypeOK
<1>5. RowsBelong'
  <2>1. ASSUME NEW q \in log PROVE /\ q.user_id # NoId => member'[q.user_id] = "in"
                                   /\ q.userId # NoId => q.userId = q.user_id
                                   /\ q.slug # NoId => q.slug = q.user_id
    <3>1. q.user_id \in Person \cup {NoId}
      BY DEF AuditInv, AuditTypeOK, Row
    <3>. QED
      BY <1>4, <3>1 DEF AuditInv, RowsBelong
  <2>. QED
    BY <1>1, <1>2, <2>1 DEF RowsBelong
<1>6. DeletionsRecorded'
  <2>1. ASSUME NEW u \in Person, member'[u] = "gone", day <= left[u] + Keep
        PROVE  \E q \in log' : q.deleted = u /\ q.at = left[u]
    <3>1. member[u] = "gone"
      BY <2>1
    <3>. QED
      BY <1>1, <2>1, <3>1 DEF AuditInv, DeletionsRecorded
  <2>. QED
    BY <2>1 DEF DeletionsRecorded
<1>. QED
  BY <1>3, <1>5, <1>6 DEF AuditInv

\* The payloads are rows.
LEMMA PayloadsAreRows ==
  ASSUME AuditTypeOK
  PROVE  /\ \A type \in {"PROJECT_DELETED", "USER_DELETED", "CATALOG_API_DEACTIVATED"} :
              Blank(type) \in Row
         /\ \A u \in Person : ByUser("USER_SIGNED_UP", u) \in Row /\ UserDeleted(u) \in Row
         /\ \A p \in Creation :
              /\ OwnedBy[p] \in Person
              /\ Published(p) \in Row /\ InProject("CODE_GENERATED", p) \in Row
              /\ \A type \in {"PROJECT_CREATED", "PROJECT_UNPUBLISHED"} : OfProject(type, p) \in Row
BY AuditAssumption DEF AuditTypeOK, Row, Blank, ByUser, UserDeleted, Published, InProject, OfProject

\* What the domain reports keeps the invariant.
LEMMA ReportsKeepLog ==
  ASSUME AuditInv,
         \/ \E u \in Person : Join(u)
         \/ \E p \in Creation : CreateProject(p) \/ PublishProject(p) \/ WorkReports(p)
         \/ OperatorActs
  PROVE  AuditInv'
<1>0. AuditTypeOK /\ OwnersStay
  BY DEF AuditInv
<1>1. ASSUME NEW u \in Person, Join(u) PROVE AuditInv'
  <2>1. OwnersStay'
    BY <1>0, <1>1, AuditAssumption DEF Join, OwnersStay, AuditTypeOK
  <2>. DEFINE r == ByUser("USER_SIGNED_UP", u)
  <2>2. r \in Row /\ r.user_id = u /\ r.userId = u /\ r.slug = NoId
    BY <1>0, PayloadsAreRows DEF ByUser, Blank
  <2>3. /\ member' \in [Person -> {"never", "in", "gone"}]
        /\ project' \in [Creation -> {"never", "in", "gone"}]
        /\ \A v \in Person : member'[v] # member[v] => member[v] = "never" /\ member'[v] = "in"
    BY <1>0, <1>1 DEF Join, AuditTypeOK
  <2>4. u # NoId /\ UNCHANGED <<day, left>> /\ Emit(r)
    BY <1>1, AuditAssumption DEF Join
  <2>. HIDE DEF r
  <2>. QED
    BY <2>1, <2>2, <2>3, <2>4, EmittingKeeps
<1>2. ASSUME NEW p \in Creation, NEW r \in Row, Emit(r),
             r.user_id \in {NoId, OwnedBy[p]}, r.userId = r.user_id, r.slug \in {NoId, r.user_id},
             project' = project \/ (project' = [project EXCEPT ![p] = "in"]
                                    /\ member[OwnedBy[p]] = "in"),
             UNCHANGED <<member, day, left>>
      PROVE  AuditInv'
  <2>1. OwnersStay'
    BY <1>0, <1>2 DEF OwnersStay, AuditTypeOK
  <2>2. /\ member' \in [Person -> {"never", "in", "gone"}]
        /\ project' \in [Creation -> {"never", "in", "gone"}]
    BY <1>0, <1>2 DEF AuditTypeOK
  <2>. QED
    BY <1>2, <2>1, <2>2, EmittingKeeps
<1>3. ASSUME NEW p \in Creation, CreateProject(p) PROVE AuditInv'
  <2>. DEFINE r == OfProject("PROJECT_CREATED", p)
  <2>1. r \in Row /\ r.user_id = OwnedBy[p] /\ r.userId = r.user_id /\ r.slug = NoId
    BY <1>0, PayloadsAreRows DEF OfProject, ByUser, Blank
  <2>2. /\ Emit(r) /\ UNCHANGED <<member, day, left>> /\ member[OwnedBy[p]] = "in"
        /\ project' = [project EXCEPT ![p] = "in"]
    BY <1>3 DEF CreateProject
  <2>. HIDE DEF r
  <2>. QED
    BY <1>2, <2>1, <2>2
<1>4. ASSUME NEW p \in Creation, PublishProject(p) PROVE AuditInv'
  <2>. DEFINE r == Published(p)
              q == OfProject("PROJECT_UNPUBLISHED", p)
  <2>1. r \in Row /\ r.user_id = OwnedBy[p] /\ r.userId = r.user_id /\ r.slug = r.user_id
    BY <1>0, PayloadsAreRows DEF Published, OfProject, ByUser, Blank
  <2>2. q \in Row /\ q.user_id = OwnedBy[p] /\ q.userId = q.user_id /\ q.slug = NoId
    BY <1>0, PayloadsAreRows DEF OfProject, ByUser, Blank
  <2>3. (Emit(r) \/ Emit(q)) /\ UNCHANGED <<member, project, day, left>>
    BY <1>4 DEF PublishProject
  <2>. HIDE DEF r, q
  <2>. QED
    BY <1>2, <2>1, <2>2, <2>3
<1>5. ASSUME NEW p \in Creation, WorkReports(p) PROVE AuditInv'
  <2>. DEFINE r == InProject("CODE_GENERATED", p)
  <2>1. r \in Row /\ r.user_id = NoId /\ r.userId = NoId /\ r.slug = NoId
    BY <1>0, PayloadsAreRows DEF InProject, Blank
  <2>2. Emit(r) /\ UNCHANGED <<member, project, day, left>>
    BY <1>5 DEF WorkReports
  <2>. HIDE DEF r
  <2>. QED
    BY <1>2, <2>1, <2>2
<1>6. CASE OperatorActs
  <2>. DEFINE r == Blank("CATALOG_API_DEACTIVATED")
  <2>1. r \in Row /\ r.user_id = NoId /\ r.userId = NoId /\ r.slug = NoId
    BY <1>0, PayloadsAreRows DEF Blank
  <2>2. Emit(r) /\ UNCHANGED <<member, project, day, left>>
    BY <1>6 DEF OperatorActs
  <2>3. OwnersStay' /\ member' \in [Person -> {"never", "in", "gone"}]
                    /\ project' \in [Creation -> {"never", "in", "gone"}]
    BY <1>0, <2>2 DEF OwnersStay, AuditTypeOK
  <2>. HIDE DEF r
  <2>. QED
    BY <2>1, <2>2, <2>3, EmittingKeeps
<1>. QED
  BY <1>1, <1>3, <1>4, <1>5, <1>6

\* Detaching changes nothing but the reference to the project.
LEMMA DetachingIsHarmless ==
  ASSUME AuditTypeOK, NEW ps
  PROVE  /\ \A q \in Detached(log, ps) :
              /\ q \in Row
              /\ \E r \in log : q.user_id = r.user_id /\ q.userId = r.userId /\ q.slug = r.slug
         /\ \A r \in log : \E q \in Detached(log, ps) : q.deleted = r.deleted /\ q.at = r.at
<1>1. ASSUME NEW r \in log
      PROVE  [r EXCEPT !.project_id = NoId] \in
               {x \in Row : /\ x.user_id = r.user_id /\ x.userId = r.userId /\ x.slug = r.slug
                            /\ x.deleted = r.deleted /\ x.at = r.at}
  BY DEF AuditTypeOK, Row
<1>2. ASSUME NEW q \in Detached(log, ps)
      PROVE  /\ q \in Row
             /\ \E r \in log : q.user_id = r.user_id /\ q.userId = r.userId /\ q.slug = r.slug
  <2>1. PICK r \in log : q = IF r.project_id \in ps THEN [r EXCEPT !.project_id = NoId] ELSE r
    BY DEF Detached
  <2>2. r \in Row
    BY DEF AuditTypeOK
  <2>. QED
    BY <1>1, <2>1, <2>2
<1>3. ASSUME NEW r \in log
      PROVE  \E q \in Detached(log, ps) : q.deleted = r.deleted /\ q.at = r.at
  <2>. DEFINE q == IF r.project_id \in ps THEN [r EXCEPT !.project_id = NoId] ELSE r
  <2>1. q \in Detached(log, ps)
    BY DEF Detached
  <2>2. q.deleted = r.deleted /\ q.at = r.at
    BY <1>1
  <2>. QED
    BY <2>1, <2>2
<1>. QED
  BY <1>2, <1>3

\* A project's deletion keeps the invariant.
LEMMA DeletedProjectKeepsLog ==
  ASSUME AuditInv, NEW p \in Creation, DeleteProject(p)
  PROVE  AuditInv'
<1>. DEFINE kept == Detached(log, {p})
            r == Blank("PROJECT_DELETED")
<1>0. AuditTypeOK /\ RowsBelong /\ OwnersStay /\ DeletionsRecorded
  BY DEF AuditInv
<1>1. log' = kept \cup {r} /\ UNCHANGED <<member, day, left>>
  BY DEF DeleteProject, Persisted, Blank
<1>2. r \in Row /\ r.user_id = NoId /\ r.userId = NoId /\ r.slug = NoId
  BY <1>0, PayloadsAreRows DEF Blank
<1>3. /\ \A q \in kept :
           /\ q \in Row
           /\ \E o \in log : q.user_id = o.user_id /\ q.userId = o.userId /\ q.slug = o.slug
      /\ \A o \in log : \E q \in kept : q.deleted = o.deleted /\ q.at = o.at
  BY <1>0, DetachingIsHarmless
<1>4. AuditTypeOK' /\ OwnersStay'
  BY <1>0, <1>1, <1>2, <1>3 DEF AuditTypeOK, OwnersStay, DeleteProject
<1>. HIDE DEF kept, r
<1>5. RowsBelong'
  BY <1>0, <1>1, <1>2, <1>3 DEF RowsBelong
<1>6. DeletionsRecorded'
  BY <1>0, <1>1, <1>3 DEF DeletionsRecorded
<1>. QED
  BY <1>4, <1>5, <1>6 DEF AuditInv

\* The rows of a deleted account: those that were its user's name nobody,
\* the others are what they were.
LEMMA CascadeForgets ==
  ASSUME AuditInv, NEW u \in Person, NEW ps
  PROVE  /\ \A q \in CascadeDelete(log, u, ps) :
              /\ q \in Row
              /\ \/ q.user_id = NoId /\ q.userId = NoId /\ q.slug = NoId
                 \/ /\ q.user_id # u
                    /\ \E r \in log :
                         q.user_id = r.user_id /\ q.userId = r.userId /\ q.slug = r.slug
         /\ \A r \in log : \E q \in CascadeDelete(log, u, ps) : q.deleted = r.deleted /\ q.at = r.at
<1>. DEFINE kept == Detached(log, ps)
            Anonymous(r) == [Scrub(r, u) EXCEPT !.user_id = NoId]
            Image(r) == IF r.user_id = u THEN Anonymous(r) ELSE r
<1>0. AuditTypeOK /\ RowsBelong /\ u # NoId
  BY AuditAssumption DEF AuditInv
<1>1. /\ \A q \in kept :
           /\ q \in Row
           /\ \E o \in log : q.user_id = o.user_id /\ q.userId = o.userId /\ q.slug = o.slug
      /\ \A o \in log : \E q \in kept : q.deleted = o.deleted /\ q.at = o.at
  BY <1>0, DetachingIsHarmless
<1>2. ASSUME NEW r \in kept, r.user_id = u
      PROVE  /\ Anonymous(r) \in Row
             /\ Anonymous(r).user_id = NoId /\ Anonymous(r).slug = NoId
             /\ Anonymous(r).userId = NoId
             /\ Anonymous(r).deleted = r.deleted /\ Anonymous(r).at = r.at
  <2>1. r \in Row
    BY <1>1
  <2>2. r.userId \in {NoId, u}
    BY <1>0, <1>1, <1>2 DEF RowsBelong
  <2>3. Scrub(r, u) = [r EXCEPT !.userId = NoId, !.slug = NoId]
    BY <2>1, <2>2 DEF Scrub, Row
  <2>. QED
    BY <2>1, <2>3 DEF Row
<1>3. CascadeDelete(log, u, ps) = {Image(r) : r \in kept}
  BY DEF CascadeDelete
<1>. HIDE DEF kept, Anonymous
<1>4. ASSUME NEW q \in CascadeDelete(log, u, ps)
      PROVE  /\ q \in Row
             /\ \/ q.user_id = NoId /\ q.userId = NoId /\ q.slug = NoId
                \/ /\ q.user_id # u
                   /\ \E r \in log :
                        q.user_id = r.user_id /\ q.userId = r.userId /\ q.slug = r.slug
  <2>1. PICK r \in kept : q = Image(r)
    BY <1>3
  <2>. QED
    BY <1>1, <1>2, <2>1
<1>5. ASSUME NEW o \in log
      PROVE  \E q \in CascadeDelete(log, u, ps) : q.deleted = o.deleted /\ q.at = o.at
  <2>1. PICK r \in kept : r.deleted = o.deleted /\ r.at = o.at
    BY <1>1
  <2>2. Image(r).deleted = r.deleted /\ Image(r).at = r.at
    BY <1>2
  <2>3. Image(r) \in CascadeDelete(log, u, ps)
    BY <1>3
  <2>. QED
    BY <2>1, <2>2, <2>3
<1>. QED
  BY <1>4, <1>5

\* An account's deletion keeps the invariant.
LEMMA DeletedPersonKeepsLog ==
  ASSUME AuditInv, NEW u \in Person, DeletePerson(u)
  PROVE  AuditInv'
<1>. DEFINE theirs == {p \in Creation : OwnedBy[p] = u /\ project[p] = "in"}
            kept == CascadeDelete(log, u, theirs)
            r == UserDeleted(u)
<1>0. AuditTypeOK /\ RowsBelong /\ OwnersStay /\ DeletionsRecorded
  BY DEF AuditInv
<1>1. /\ member' = [member EXCEPT ![u] = "gone"] /\ left' = [left EXCEPT ![u] = day]
      /\ project' = [p \in Creation |-> IF p \in theirs THEN "gone" ELSE project[p]]
      /\ day' = day
      /\ log' = kept \cup {r}
  BY DEF DeletePerson, Persisted, UserDeleted, Blank
<1>2. /\ r \in Row /\ r.user_id = NoId /\ r.userId = NoId /\ r.slug = NoId
      /\ r.deleted = u /\ r.at = day
  BY <1>0, PayloadsAreRows DEF UserDeleted, Blank
<1>3. /\ \A q \in kept :
           /\ q \in Row
           /\ \/ q.user_id = NoId /\ q.userId = NoId /\ q.slug = NoId
              \/ /\ q.user_id # u
                 /\ \E o \in log : q.user_id = o.user_id /\ q.userId = o.userId /\ q.slug = o.slug
      /\ \A o \in log : \E q \in kept : q.deleted = o.deleted /\ q.at = o.at
  BY CascadeForgets
<1>4. OwnersStay'
  BY <1>0, <1>1, AuditAssumption DEF OwnersStay, AuditTypeOK
<1>. HIDE DEF kept, r
<1>5. AuditTypeOK'
  BY <1>0, <1>1, <1>2, <1>3 DEF AuditTypeOK
<1>6. RowsBelong'
  <2>1. ASSUME NEW q \in kept PROVE /\ q.user_id # NoId => member'[q.user_id] = "in"
                                    /\ q.userId # NoId => q.userId = q.user_id
                                    /\ q.slug # NoId => q.slug = q.user_id
    <3>1. CASE q.user_id = NoId /\ q.userId = NoId /\ q.slug = NoId
      BY <3>1
    <3>2. CASE /\ q.user_id # u
               /\ \E o \in log : q.user_id = o.user_id /\ q.userId = o.userId /\ q.slug = o.slug
      <4>1. q.user_id \in Person \cup {NoId}
        BY <1>3 DEF Row
      <4>2. q.user_id \in Person => member'[q.user_id] = member[q.user_id]
        BY <1>0, <1>1, <3>2 DEF AuditTypeOK
      <4>. QED
        BY <1>0, <3>2, <4>1, <4>2 DEF RowsBelong
    <3>. QED
      BY <1>3, <3>1, <3>2
  <2>. QED
    BY <1>1, <1>2, <2>1 DEF RowsBelong
<1>7. DeletionsRecorded'
  <2>1. ASSUME NEW v \in Person, member'[v] = "gone", day' <= left'[v] + Keep
        PROVE  \E q \in log' : q.deleted = v /\ q.at = left'[v]
    <3>1. CASE v = u
      <4>1. left'[u] = day
        BY <1>0, <1>1 DEF AuditTypeOK
      <4>. QED
        BY <1>1, <1>2, <3>1, <4>1
    <3>2. CASE v # u
      <4>1. member[v] = "gone" /\ left'[v] = left[v] /\ day <= left[v] + Keep
        BY <1>0, <1>1, <2>1, <3>2 DEF AuditTypeOK
      <4>. QED
        BY <1>0, <1>1, <1>3, <4>1 DEF DeletionsRecorded
    <3>. QED
      BY <3>1, <3>2
  <2>. QED
    BY <2>1 DEF DeletionsRecorded
<1>. QED
  BY <1>4, <1>5, <1>6, <1>7 DEF AuditInv

\* The nightly job keeps the invariant: it drops no record that is due.
LEMMA RetentionKeepsLog ==
  ASSUME AuditInv, NextDay
  PROVE  AuditInv'
<1>0. AuditTypeOK /\ RowsBelong /\ OwnersStay /\ DeletionsRecorded
  BY DEF AuditInv
<1>1. log' = {r \in log : r.at + Keep >= day + 1} /\ day' = day + 1 /\ day < MaxDay
      /\ UNCHANGED <<member, project, left>>
  BY DEF NextDay
<1>2. day' \in 0..MaxDay
  BY <1>0, <1>1, DaysAreNumbers
<1>3. AuditTypeOK' /\ RowsBelong' /\ OwnersStay'
  BY <1>0, <1>1, <1>2 DEF AuditTypeOK, RowsBelong, OwnersStay
<1>4. DeletionsRecorded'
  <2>1. ASSUME NEW u \in Person, member[u] = "gone", day + 1 <= left[u] + Keep
        PROVE  \E q \in log' : q.deleted = u /\ q.at = left[u]
    <3>1. day <= left[u] + Keep
      BY <1>0, <2>1, DaysAreNumbers
    <3>2. PICK q \in log : q.deleted = u /\ q.at = left[u]
      BY <1>0, <2>1, <3>1 DEF DeletionsRecorded
    <3>3. q.at + Keep >= day + 1
      BY <1>0, <2>1, <3>2, DaysAreNumbers
    <3>. QED
      BY <1>1, <3>2, <3>3
  <2>. QED
    BY <1>1, <2>1 DEF DeletionsRecorded
<1>. QED
  BY <1>3, <1>4 DEF AuditInv

\* The log's invariant, for every number of users and projects.
LEMMA AuditAlways == AuditSpec => []AuditInv
<1>1. AuditInit => AuditInv
  BY AuditAssumption
  DEF AuditInit, AuditInv, AuditTypeOK, RowsBelong, OwnersStay, DeletionsRecorded
<1>2. AuditInv /\ [AuditNext]_auditVars => AuditInv'
  <2>1. AuditInv /\ AuditNext => AuditInv'
    BY ReportsKeepLog, DeletedProjectKeepsLog, DeletedPersonKeepsLog, RetentionKeepsLog
    DEF AuditNext
  <2>2. AuditInv /\ UNCHANGED auditVars => AuditInv'
    BY DEF auditVars, AuditInv, AuditTypeOK, RowsBelong, OwnersStay, DeletionsRecorded
  <2>. QED
    BY <2>1, <2>2
<1>. QED
  BY <1>1, <1>2, PTL DEF AuditSpec

\* Every row of the log and everybody it may name keeps its type.
THEOREM LogIsTyped == AuditSpec => []AuditTypeOK
<1>1. AuditInv => AuditTypeOK
  BY DEF AuditInv
<1>. QED
  BY <1>1, AuditAlways, PTL

\* Who has left is named by no row, and the departure is on record: for every
\* number of users and projects and every period of retention.
THEOREM DeletedUsersStayForgotten == AuditSpec => []DeletedUsersAreForgotten
  BY AuditAlways, BelongingIsForgetting, PTL

-----------------------------------------------------------------------------
(* The catalog.                                                            *)

ApiEntry == [present : BOOLEAN, active : BOOLEAN, status : VerificationStatus,
             deprecated : BOOLEAN]
ActivationRecord == [todo : SUBSET Keyed, api : Keyed \cup {NoApi}, ok : Nat, dry : BOOLEAN,
                     row : Nat]
Probed == [left : Nat, seen : SUBSET Health]
VerificationRecord == [waiting : SUBSET Api, lost : Nat, prev : [Api -> VerificationStatus],
                       probed : [Api -> Probed]]
EvidenceRecord == [by : {"none", "seed", "verification", "activation", "correction"},
                   seen : SUBSET Health, row : Nat]

CatalogShapes ==
    /\ entry \in [Api -> ApiEntry]
    /\ activation \in [Activation -> ActivationRecord]
    /\ verification \in [Verification -> VerificationRecord]
    /\ off \subseteq Api
    /\ evidence \in [Api -> EvidenceRecord]

\* An activation has seen as many valid answers in a row as it counts, and
\* has not yet seen enough.
CountsAreRows ==
    \A x \in Activation : activation[x].row = activation[x].ok /\ activation[x].ok < Samples

\* What is off has a row, is not active, and no activation is about to come
\* to it.
OffIsLeftAlone ==
    \A a \in off : /\ entry[a].present /\ ~entry[a].active
                   /\ \A x \in Activation : a \notin activation[x].todo \cup {activation[x].api}

CatalogInv == CatalogShapes /\ CountsAreRows /\ OffIsLeftAlone /\ StatusHasEvidence

\* What a set of probes is summed up to is one of them, and the worst.
LEMMA SummaryIsWorst ==
  ASSUME NEW seen \in SUBSET Health, seen # {}
  PROVE  /\ SummarizeApi(seen) \in seen
         /\ \A o \in seen : Rank[o] <= Rank[SummarizeApi(seen)]
<1>1. \E h \in seen : \A o \in seen : Rank[o] <= Rank[h]
  <2>1. CASE "broken" \in seen
    BY <2>1 DEF Rank, Health
  <2>2. CASE "broken" \notin seen /\ "degraded" \in seen
    BY <2>2 DEF Rank, Health
  <2>3. CASE "broken" \notin seen /\ "degraded" \notin seen /\ "working" \in seen
    BY <2>3 DEF Rank, Health
  <2>4. CASE seen \subseteq {"key_gated", "unknown"} /\ "key_gated" \in seen
    BY <2>4 DEF Rank, Health
  <2>5. CASE seen = {"unknown"}
    BY <2>5 DEF Rank, Health
  <2>. QED
    BY <2>1, <2>2, <2>3, <2>4, <2>5 DEF Health
<1>. QED
  BY <1>1 DEF SummarizeApi

\* What is written after a verification is what it saw.
LEMMA WrittenStatusIsSeen ==
  ASSUME NEW seen \in SUBSET Health, seen # {}
  PROVE  LET next == ToVerificationStatus(SummarizeApi(seen))
         IN  \/ next = {}
             \/ next = {"broken"} /\ "broken" \in seen
             \/ next = {"verified"} /\ "broken" \notin seen
                                    /\ seen \cap {"working", "degraded"} # {}
<1>. DEFINE h == SummarizeApi(seen)
<1>1. h \in seen /\ \A o \in seen : Rank[o] <= Rank[h]
  BY SummaryIsWorst
<1>2. CASE h = "broken"
  BY <1>1, <1>2 DEF ToVerificationStatus
<1>3. CASE h \in {"working", "degraded"}
  <2>1. "broken" \notin seen
    <3>1. Rank["broken"] = 5 /\ Rank["working"] = 3 /\ Rank["degraded"] = 4
      BY DEF Rank
    <3>2. "broken" \in seen => Rank["broken"] <= Rank[h]
      BY <1>1
    <3>. QED
      BY <1>3, <3>1, <3>2
  <2>. QED
    BY <1>1, <1>3, <2>1 DEF ToVerificationStatus
<1>4. CASE h \in {"key_gated", "unknown"}
  BY <1>4 DEF ToVerificationStatus
<1>. QED
  BY <1>1, <1>2, <1>3, <1>4 DEF Health

\* The probes of an endpoint come to one of the healths.
LEMMA HealthsAreHealths ==
  ASSUME NEW a \in Api
  PROVE  Healths[a] \subseteq Health
BY CatalogAssumption DEF Healths, ClassifyResponse, Health

\* A deployment keeps the invariant.
LEMMA BootKeepsCatalog ==
  ASSUME CatalogInv,
         NEW b \in [Api -> [present : BOOLEAN, deprecated : BOOLEAN]], Boot(b)
  PROVE  CatalogInv'
<1>. DEFINE after(a) == ApplyStructuralPatch(a, Correct(a, Inserted(a, b)), b)
<1>1. /\ activation' = [x \in Activation |-> NoActivation]
      /\ verification' = [v \in Verification |-> NoVerification]
      /\ off' = off \ Corrected
  BY DEF Boot
<1>2. ASSUME NEW a \in Api
      PROVE  /\ entry'[a] \in ApiEntry
             /\ entry[a].present /\ a \notin Corrected =>
                  /\ entry'[a].present /\ entry'[a].active = entry[a].active
                  /\ entry'[a].status = entry[a].status
  <2>1. entry'[a] = after(a) /\ entry[a] \in ApiEntry
    BY DEF Boot, CatalogInv, CatalogShapes
  <2>2. Inserted(a, b) \in ApiEntry /\ (entry[a].present => Inserted(a, b) = entry[a])
    BY <2>1 DEF Inserted, ApiEntry, VerificationStatus
  <2>3. /\ Correct(a, Inserted(a, b)) \in ApiEntry
        /\ a \notin Corrected => Correct(a, Inserted(a, b)) = Inserted(a, b)
    BY <2>2 DEF Correct, ApiEntry, VerificationStatus
  <2>4. ASSUME NEW e \in ApiEntry
        PROVE  LET q == ApplyStructuralPatch(a, e, b)
               IN  /\ q \in ApiEntry /\ q.present = e.present /\ q.active = e.active
                   /\ q.status = e.status
    BY DEF ApplyStructuralPatch, ApiEntry
  <2>. QED
    BY <2>1, <2>2, <2>3, <2>4
<1>3. evidence' \in [Api -> EvidenceRecord]
  BY DEF Boot, CatalogInv, CatalogShapes, EvidenceRecord, Unseen
<1>4. CatalogShapes'
  <2>1. NoActivation \in ActivationRecord
    BY DEF NoActivation, ActivationRecord
  <2>2. NoVerification \in VerificationRecord
    BY DEF NoVerification, VerificationRecord, VerificationStatus, Probed
  <2>3. entry' \in [Api -> ApiEntry]
    BY <1>2 DEF Boot
  <2>4. off' \subseteq Api
    BY <1>1 DEF CatalogInv, CatalogShapes
  <2>. QED
    BY <1>1, <1>3, <2>1, <2>2, <2>3, <2>4 DEF CatalogShapes
<1>5. CountsAreRows'
  BY <1>1, CatalogAssumption DEF CountsAreRows, NoActivation
<1>6. OffIsLeftAlone'
  <2>1. NoActivation.todo = {} /\ NoActivation.api = NoApi
    BY DEF NoActivation
  <2>. QED
    BY <1>1, <1>2, <2>1, CatalogAssumption DEF OffIsLeftAlone, CatalogInv, CatalogShapes
<1>7. StatusHasEvidence'
  <2>1. ASSUME NEW a \in Api, evidence'[a].by \in {"verification", "activation"}
        PROVE  evidence'[a] = evidence[a] /\ entry'[a].status = entry[a].status
    <3>1. evidence'[a] =
            IF a \in Corrected /\ entry'[a].present /\ entry'[a] # entry[a]
            THEN [Unseen EXCEPT !.by = "correction"]
            ELSE IF ~entry[a].present /\ entry'[a].present THEN [Unseen EXCEPT !.by = "seed"]
            ELSE evidence[a]
      BY DEF Boot
    <3>2. [Unseen EXCEPT !.by = "correction"].by = "correction" /\ [Unseen EXCEPT !.by = "seed"].by = "seed"
      BY DEF Unseen
    <3>3. /\ evidence'[a] = evidence[a]
          /\ ~(a \in Corrected /\ entry'[a].present /\ entry'[a] # entry[a])
          /\ ~(~entry[a].present /\ entry'[a].present)
      BY <2>1, <3>1, <3>2
    <3>4. CASE entry'[a].present /\ a \in Corrected
      BY <3>3, <3>4
    <3>5. CASE entry'[a].present /\ a \notin Corrected
      <4>1. entry[a].present
        BY <3>3, <3>5 DEF CatalogInv, CatalogShapes, ApiEntry
      <4>. QED
        BY <1>2, <3>3, <3>5, <4>1
    <3>6. CASE ~entry'[a].present
      <4>1. entry[a] \in ApiEntry /\ entry'[a] = after(a)
        BY DEF Boot, CatalogInv, CatalogShapes
      <4>2. Inserted(a, b) = entry[a]
        <5>1. CASE entry[a].present \/ ~b[a].present
          BY <5>1 DEF Inserted
        <5>2. CASE ~entry[a].present /\ b[a].present
          <6>1. Inserted(a, b).present /\ Inserted(a, b) \in ApiEntry
            BY <5>2 DEF Inserted, ApiEntry, VerificationStatus
          <6>2. Correct(a, Inserted(a, b)).present /\ Correct(a, Inserted(a, b)) \in ApiEntry
            BY <6>1 DEF Correct, ApiEntry, VerificationStatus
          <6>3. after(a).present
            BY <6>2 DEF ApplyStructuralPatch, ApiEntry
          <6>. QED
            BY <3>6, <4>1, <6>3
        <5>. QED
          BY <5>1, <5>2
      <4>3. ASSUME NEW e \in ApiEntry
            PROVE  LET q == ApplyStructuralPatch(a, e, b)
                   IN  q.present = e.present /\ q.status = e.status
        BY DEF ApplyStructuralPatch, ApiEntry
      <4>4. Correct(a, entry[a]) = entry[a] \/ Correct(a, entry[a]).present
        BY <4>1 DEF Correct, ApiEntry
      <4>5. Correct(a, entry[a]) \in ApiEntry
        BY <4>1 DEF Correct, ApiEntry, VerificationStatus
      <4>. QED
        BY <3>3, <3>6, <4>1, <4>2, <4>3, <4>4, <4>5
    <3>. QED
      BY <3>4, <3>5, <3>6
  <2>. QED
    BY <2>1 DEF CatalogInv, StatusHasEvidence
<1>. QED
  BY <1>4, <1>5, <1>6, <1>7 DEF CatalogInv

\* An activation that goes on has the invariant, and is after no other API.
LEMMA NextTargetIsOneOfThem ==
  ASSUME CatalogShapes, CountsAreRows, NEW x \in Activation, NextTarget(x)
  PROVE  /\ activation' \in [Activation -> ActivationRecord]
         /\ CountsAreRows'
         /\ \A y \in Activation : activation'[y].todo \cup {activation'[y].api} \subseteq
                                    activation[y].todo \cup {activation[y].api, NoApi}
<1>. DEFINE me == activation[x]
<1>1. me \in ActivationRecord /\ activation \in [Activation -> ActivationRecord]
  BY DEF CatalogShapes
<1>2. CASE me.todo = {}
  <2>1. activation' = [activation EXCEPT ![x] = NoActivation]
    BY <1>2 DEF NextTarget
  <2>2. NoActivation \in ActivationRecord /\ NoActivation.todo = {} /\ NoActivation.api = NoApi
        /\ NoActivation.ok = 0 /\ NoActivation.row = 0
    BY DEF NoActivation, ActivationRecord
  <2>. QED
    BY <1>1, <2>1, <2>2, CatalogAssumption DEF CountsAreRows
<1>3. CASE me.todo # {}
  <2>1. PICK a \in me.todo :
          activation' = [activation EXCEPT ![x] =
              [me EXCEPT !.todo = me.todo \ {a}, !.api = a, !.ok = 0, !.row = 0]]
    BY <1>3 DEF NextTarget
  <2>. DEFINE new == [me EXCEPT !.todo = me.todo \ {a}, !.api = a, !.ok = 0, !.row = 0]
  <2>2. new \in ActivationRecord /\ new.todo = me.todo \ {a} /\ new.api = a
        /\ new.ok = 0 /\ new.row = 0
    BY <1>1, <2>1 DEF ActivationRecord
  <2>. HIDE DEF new
  <2>3. \A y \in Activation : activation'[y] = IF y = x THEN new ELSE activation[y]
    BY <1>1, <2>1 DEF new
  <2>4. activation' \in [Activation -> ActivationRecord]
    BY <1>1, <2>1, <2>2 DEF new
  <2>5. CountsAreRows'
    BY <2>2, <2>3, CatalogAssumption DEF CountsAreRows
  <2>. QED
    BY <2>1, <2>2, <2>3, <2>4, <2>5
<1>. QED
  BY <1>2, <1>3

\* A request for activation takes its targets out of those that are off.
LEMMA RequestKeepsCatalog ==
  ASSUME CatalogInv, NEW x \in Activation, NEW wanted \in SUBSET Api, NEW dry \in BOOLEAN,
         StartActivation(x, wanted, dry)
  PROVE  CatalogInv'
<1>. DEFINE targets == {a \in Keyed \cap wanted : entry[a].present /\ ~entry[a].active}
<1>0. CatalogShapes /\ CountsAreRows /\ OffIsLeftAlone /\ StatusHasEvidence
  BY DEF CatalogInv
<1>1. PICK first \in targets :
        activation' = [activation EXCEPT ![x] =
            [NoActivation EXCEPT !.todo = targets \ {first}, !.api = first, !.dry = dry]]
  BY DEF StartActivation
<1>2. off' = off \ targets /\ UNCHANGED <<entry, verification, evidence>>
  BY DEF StartActivation
<1>. DEFINE new == [NoActivation EXCEPT !.todo = targets \ {first}, !.api = first, !.dry = dry]
<1>3. new \in ActivationRecord /\ new.todo = targets \ {first} /\ new.api = first
      /\ new.ok = 0 /\ new.row = 0
  BY DEF NoActivation, ActivationRecord
<1>. HIDE DEF new
<1>4. \A y \in Activation : activation'[y] = IF y = x THEN new ELSE activation[y]
  BY <1>0, <1>1 DEF CatalogShapes, new
<1>5. CatalogShapes'
  BY <1>0, <1>1, <1>2, <1>3 DEF CatalogShapes, new
<1>6. CountsAreRows'
  BY <1>0, <1>3, <1>4, CatalogAssumption DEF CountsAreRows
<1>7. OffIsLeftAlone'
  <2>1. ASSUME NEW a \in off' PROVE a \in off /\ a \notin targets
    BY <1>2, <2>1
  <2>2. new.todo \cup {new.api} \subseteq targets
    BY <1>1, <1>3
  <2>. HIDE DEF targets
  <2>. QED
    BY <1>0, <1>2, <1>4, <2>1, <2>2 DEF OffIsLeftAlone
<1>8. StatusHasEvidence'
  BY <1>0, <1>2 DEF StatusHasEvidence
<1>. QED
  BY <1>5, <1>6, <1>7, <1>8 DEF CatalogInv

\* A probe of a key keeps the invariant: what it switches on is not off, and
\* its status rests on enough valid answers.
LEMMA KeyProbeKeepsCatalog ==
  ASSUME CatalogInv, NEW x \in Activation, ProbeKey(x)
  PROVE  CatalogInv'
<1>. DEFINE me == activation[x]
            a == me.api
<1>0. CatalogShapes /\ CountsAreRows /\ OffIsLeftAlone /\ StatusHasEvidence
  BY DEF CatalogInv
<1>1. me \in ActivationRecord /\ a # NoApi /\ a \in Keyed /\ a \in Api /\ a \notin off
      /\ UNCHANGED <<verification, off>>
  BY <1>0, CatalogAssumption
  DEF ProbeKey, CatalogShapes, ActivationRecord, OffIsLeftAlone
<1>2. me.ok \in Nat /\ me.row = me.ok /\ me.ok < Samples /\ Samples \in Nat
  BY <1>0, <1>1, CatalogAssumption DEF ActivationRecord, CountsAreRows
<1>3. \/ NextTarget(x) /\ UNCHANGED <<entry, evidence>>
      \/ /\ me.ok + 1 < Samples
         /\ activation' = [activation EXCEPT ![x].ok = me.ok + 1, ![x].row = me.row + 1]
         /\ UNCHANGED <<entry, evidence>>
      \/ /\ ~(me.ok + 1 < Samples) /\ ~me.dry /\ NextTarget(x)
         /\ entry' = [entry EXCEPT ![a].active = TRUE, ![a].status = "verified"]
         /\ evidence' = [evidence EXCEPT ![a] =
                          [by |-> "activation", seen |-> {}, row |-> me.row + 1]]
  BY DEF ProbeKey
<1>4. CASE NextTarget(x) /\ UNCHANGED <<entry, evidence>>
  <2>1. CatalogShapes' /\ CountsAreRows'
    BY <1>0, <1>1, <1>4, NextTargetIsOneOfThem DEF CatalogShapes
  <2>2. OffIsLeftAlone'
    BY <1>0, <1>1, <1>4, NextTargetIsOneOfThem, CatalogAssumption
    DEF OffIsLeftAlone, CatalogShapes
  <2>3. StatusHasEvidence'
    BY <1>0, <1>4 DEF StatusHasEvidence
  <2>. QED
    BY <2>1, <2>2, <2>3 DEF CatalogInv
<1>5. CASE /\ me.ok + 1 < Samples
           /\ activation' = [activation EXCEPT ![x].ok = me.ok + 1, ![x].row = me.row + 1]
           /\ UNCHANGED <<entry, evidence>>
  <2>. DEFINE new == [me EXCEPT !.ok = me.ok + 1, !.row = me.row + 1]
  <2>1. new \in ActivationRecord /\ new.todo = me.todo /\ new.api = a
        /\ new.ok = me.ok + 1 /\ new.row = me.row + 1
    <3>1. me.ok + 1 \in Nat /\ me.row + 1 \in Nat
      BY <1>2
    <3>. QED
      BY <1>1, <3>1 DEF ActivationRecord
  <2>2. activation' \in [Activation -> ActivationRecord]
        /\ \A y \in Activation : activation'[y] = IF y = x THEN new ELSE activation[y]
    BY <1>0, <1>5, <2>1 DEF CatalogShapes
  <2>. HIDE DEF new
  <2>3. CatalogShapes'
    BY <1>0, <1>1, <1>5, <2>2 DEF CatalogShapes
  <2>4. CountsAreRows'
    BY <1>0, <1>2, <1>5, <2>1, <2>2 DEF CountsAreRows
  <2>5. OffIsLeftAlone'
    BY <1>0, <1>1, <1>5, <2>1, <2>2 DEF OffIsLeftAlone
  <2>6. StatusHasEvidence'
    BY <1>0, <1>5 DEF StatusHasEvidence
  <2>. QED
    BY <2>3, <2>4, <2>5, <2>6 DEF CatalogInv
<1>6. CASE /\ ~(me.ok + 1 < Samples) /\ ~me.dry /\ NextTarget(x)
           /\ entry' = [entry EXCEPT ![a].active = TRUE, ![a].status = "verified"]
           /\ evidence' = [evidence EXCEPT ![a] =
                            [by |-> "activation", seen |-> {}, row |-> me.row + 1]]
  <2>. DEFINE on == [entry[a] EXCEPT !.active = TRUE, !.status = "verified"]
              seen == [by |-> "activation", seen |-> {}, row |-> me.row + 1]
  <2>1. on \in ApiEntry /\ on.status = "verified"
    BY <1>0, <1>1 DEF CatalogShapes, ApiEntry, VerificationStatus
  <2>2. seen \in EvidenceRecord /\ seen.by = "activation" /\ seen.row = Samples
    BY <1>2, <1>6 DEF EvidenceRecord
  <2>3. /\ entry' \in [Api -> ApiEntry] /\ evidence' \in [Api -> EvidenceRecord]
        /\ \A b \in Api : /\ entry'[b] = IF b = a THEN on ELSE entry[b]
                          /\ evidence'[b] = IF b = a THEN seen ELSE evidence[b]
    BY <1>0, <1>1, <1>6, <2>1, <2>2 DEF CatalogShapes
  <2>. HIDE DEF on, seen
  <2>4. CatalogShapes' /\ CountsAreRows'
    BY <1>0, <1>1, <1>6, <2>3, NextTargetIsOneOfThem DEF CatalogShapes
  <2>5. OffIsLeftAlone'
    BY <1>0, <1>1, <1>6, <2>3, NextTargetIsOneOfThem, CatalogAssumption
    DEF OffIsLeftAlone, CatalogShapes
  <2>6. StatusHasEvidence'
    BY <1>0, <2>1, <2>2, <2>3 DEF StatusHasEvidence
  <2>. QED
    BY <2>4, <2>5, <2>6 DEF CatalogInv
<1>. QED
  BY <1>3, <1>4, <1>5, <1>6

\* A request that ends with an error leaves what it wrote, and takes no more
\* of the APIs it was asked for.
LEMMA ThrowKeepsCatalog ==
  ASSUME CatalogInv, NEW x \in Activation, ActivationThrows(x)
  PROVE  CatalogInv'
<1>0. CatalogShapes /\ CountsAreRows /\ OffIsLeftAlone /\ StatusHasEvidence
  BY DEF CatalogInv
<1>1. /\ NoActivation \in ActivationRecord /\ NoActivation.todo = {} /\ NoActivation.api = NoApi
      /\ NoActivation.ok = 0 /\ NoActivation.row = 0
  BY DEF NoActivation, ActivationRecord
<1>2. /\ UNCHANGED <<entry, verification, off, evidence>>
      /\ activation' = [activation EXCEPT ![x] = NoActivation]
  BY DEF ActivationThrows
<1>3. \A y \in Activation : activation'[y] = IF y = x THEN NoActivation ELSE activation[y]
  BY <1>0, <1>2 DEF CatalogShapes
<1>4. CatalogShapes' /\ StatusHasEvidence'
  BY <1>0, <1>1, <1>2 DEF CatalogShapes, StatusHasEvidence
<1>5. CountsAreRows'
  BY <1>0, <1>1, <1>3, CatalogAssumption DEF CountsAreRows
<1>6. OffIsLeftAlone'
  BY <1>0, <1>1, <1>2, <1>3, CatalogAssumption DEF OffIsLeftAlone, CatalogShapes
<1>. QED
  BY <1>4, <1>5, <1>6 DEF CatalogInv

\* Switching off keeps the status, and what its evidence is.
LEMMA DeactivationKeepsCatalog ==
  ASSUME CatalogInv, NEW a \in Api, Deactivate(a)
  PROVE  CatalogInv'
<1>0. CatalogShapes /\ CountsAreRows /\ OffIsLeftAlone /\ StatusHasEvidence
  BY DEF CatalogInv
<1>. DEFINE down == [entry[a] EXCEPT !.active = FALSE]
<1>1. down \in ApiEntry /\ down.present /\ ~down.active /\ down.status = entry[a].status
  BY <1>0 DEF Deactivate, CatalogShapes, ApiEntry
<1>2. /\ entry' \in [Api -> ApiEntry]
      /\ \A b \in Api : entry'[b] = IF b = a THEN down ELSE entry[b]
      /\ UNCHANGED <<activation, verification, evidence>>
      /\ off' = off \/ (off' = off \cup {a} /\ ~Activating(a))
  BY <1>0, <1>1 DEF Deactivate, CatalogShapes
<1>. HIDE DEF down
<1>3. CatalogShapes' /\ CountsAreRows'
  BY <1>0, <1>2 DEF CatalogShapes, CountsAreRows
<1>4. OffIsLeftAlone'
  BY <1>0, <1>1, <1>2 DEF OffIsLeftAlone, Activating, CatalogShapes
<1>5. StatusHasEvidence'
  BY <1>0, <1>1, <1>2 DEF StatusHasEvidence
<1>. QED
  BY <1>3, <1>4, <1>5 DEF CatalogInv

\* An endpoint's answer keeps the invariant: the status that is written after
\* the last one is what was seen, whatever was written meanwhile.
LEMMA EndpointProbeKeepsCatalog ==
  ASSUME CatalogInv, NEW v \in Verification, NEW a \in Api, ProbeEndpoint(v, a)
  PROVE  CatalogInv'
<1>. DEFINE me == verification[v]
            mine == me.probed[a]
<1>0. CatalogShapes /\ CountsAreRows /\ OffIsLeftAlone /\ StatusHasEvidence
  BY DEF CatalogInv
<1>1. me \in VerificationRecord /\ mine \in Probed
  BY <1>0 DEF CatalogShapes, VerificationRecord
<1>2. PICK health \in Healths[a] :
        LET seen == mine.seen \cup {health}
            next == ToVerificationStatus(SummarizeApi(seen))
            writes == mine.left = 1 /\ next \ {me.prev[a]} # {}
        IN  /\ verification' = [verification EXCEPT ![v].probed[a] =
                  IF mine.left = 1 THEN [left |-> 0, seen |-> {}]
                  ELSE [left |-> mine.left - 1, seen |-> seen]]
            /\ entry' = IF writes THEN [entry EXCEPT ![a].status = CHOOSE s \in next : TRUE]
                        ELSE entry
            /\ evidence' = IF writes
                           THEN [evidence EXCEPT ![a] =
                                   [by |-> "verification", seen |-> seen, row |-> 0]]
                           ELSE evidence
  BY DEF ProbeEndpoint
<1>. DEFINE seen == mine.seen \cup {health}
            next == ToVerificationStatus(SummarizeApi(seen))
            rest == IF mine.left = 1 THEN [left |-> 0, seen |-> {}]
                    ELSE [left |-> mine.left - 1, seen |-> seen]
<1>3. seen \in SUBSET Health /\ seen # {}
  BY <1>1, HealthsAreHealths DEF Probed
<1>4. mine.left > 0 /\ UNCHANGED <<activation, off>>
  BY DEF ProbeEndpoint
<1>5. rest \in Probed
  BY <1>1, <1>3, <1>4 DEF Probed
<1>6. verification' \in [Verification -> VerificationRecord]
  <2>1. verification' = [verification EXCEPT ![v] = [me EXCEPT !.probed = [me.probed EXCEPT ![a] = rest]]]
    BY <1>0, <1>2 DEF CatalogShapes
  <2>2. [me EXCEPT !.probed = [me.probed EXCEPT ![a] = rest]] \in VerificationRecord
    BY <1>1, <1>5 DEF VerificationRecord
  <2>. QED
    BY <1>0, <2>1, <2>2 DEF CatalogShapes
<1>7. \/ next = {}
      \/ next = {"broken"} /\ "broken" \in seen
      \/ next = {"verified"} /\ "broken" \notin seen /\ seen \cap {"working", "degraded"} # {}
  BY <1>3, WrittenStatusIsSeen
<1>8. CASE UNCHANGED <<entry, evidence>>
  <2>1. CatalogShapes' /\ CountsAreRows' /\ OffIsLeftAlone' /\ StatusHasEvidence'
    BY <1>0, <1>4, <1>6, <1>8 DEF CatalogShapes, CountsAreRows, OffIsLeftAlone, StatusHasEvidence
  <2>. QED
    BY <2>1 DEF CatalogInv
<1>9. ASSUME NEW s \in {"broken", "verified"}, next = {s},
             entry' = [entry EXCEPT ![a].status = s],
             evidence' = [evidence EXCEPT ![a] = [by |-> "verification", seen |-> seen, row |-> 0]]
      PROVE  CatalogInv'
  <2>. DEFINE row == [entry[a] EXCEPT !.status = s]
              shown == [by |-> "verification", seen |-> seen, row |-> 0]
  <2>1. row \in ApiEntry /\ row.status = s /\ row.present = entry[a].present
        /\ row.active = entry[a].active
    BY <1>0, <1>9 DEF CatalogShapes, ApiEntry, VerificationStatus
  <2>2. shown \in EvidenceRecord /\ shown.by = "verification" /\ shown.seen = seen
    BY <1>3 DEF EvidenceRecord
  <2>3. /\ entry' \in [Api -> ApiEntry] /\ evidence' \in [Api -> EvidenceRecord]
        /\ \A b \in Api : /\ entry'[b] = IF b = a THEN row ELSE entry[b]
                          /\ evidence'[b] = IF b = a THEN shown ELSE evidence[b]
    BY <1>0, <1>9, <2>1, <2>2 DEF CatalogShapes
  <2>. HIDE DEF row, shown
  <2>4. CatalogShapes' /\ CountsAreRows'
    BY <1>0, <1>4, <1>6, <2>3 DEF CatalogShapes, CountsAreRows
  <2>5. OffIsLeftAlone'
    BY <1>0, <1>4, <2>1, <2>3 DEF OffIsLeftAlone, CatalogShapes
  <2>. HIDE DEF next, seen
  <2>6. \/ s = "broken" /\ "broken" \in seen
        \/ s = "verified" /\ "broken" \notin seen /\ seen \cap {"working", "degraded"} # {}
    <3>1. s \in next
      BY <1>9
    <3>. QED
      BY <1>7, <3>1
  <2>7. StatusHasEvidence'
    BY <1>0, <2>1, <2>2, <2>3, <2>6 DEF StatusHasEvidence
  <2>. QED
    BY <2>4, <2>5, <2>7 DEF CatalogInv
<1>10. \/ UNCHANGED <<entry, evidence>>
       \/ /\ next # {}
          /\ entry' = [entry EXCEPT ![a].status = CHOOSE s \in next : TRUE]
          /\ evidence' = [evidence EXCEPT ![a] = [by |-> "verification", seen |-> seen, row |-> 0]]
  BY <1>2
<1>11. next = {"broken"} => (CHOOSE s \in next : TRUE) = "broken"
  OBVIOUS
<1>12. next = {"verified"} => (CHOOSE s \in next : TRUE) = "verified"
  OBVIOUS
<1>. HIDE DEF next, seen
<1>. QED
  BY <1>7, <1>8, <1>9, <1>10, <1>11, <1>12

\* The other steps of a verification touch nothing but its own records.
LEMMA VerificationKeepsCatalog ==
  ASSUME CatalogInv, NEW v \in Verification,
         \/ StartVerification(v) \/ EndVerification(v)
         \/ \E a \in Api : TakeApi(v, a) \/ WorkerThrows(v, a)
  PROVE  CatalogInv'
<1>0. CatalogShapes /\ CountsAreRows /\ OffIsLeftAlone /\ StatusHasEvidence
  BY DEF CatalogInv
<1>1. verification[v] \in VerificationRecord
  BY <1>0 DEF CatalogShapes
<1>2. CASE StartVerification(v)
  <2>1. [verification[v] EXCEPT !.waiting = {a \in Api : entry[a].present /\ entry[a].active},
                                !.prev = [a \in Api |-> entry[a].status]] \in VerificationRecord
    BY <1>0, <1>1 DEF VerificationRecord, CatalogShapes, ApiEntry
  <2>. QED
    BY <1>0, <1>2, <2>1
    DEF StartVerification, CatalogInv, CatalogShapes, CountsAreRows, OffIsLeftAlone,
        StatusHasEvidence
<1>3. CASE EndVerification(v)
  <2>1. NoVerification \in VerificationRecord
    BY DEF NoVerification, VerificationRecord, VerificationStatus, Probed
  <2>. QED
    BY <1>0, <1>3, <2>1
    DEF EndVerification, CatalogInv, CatalogShapes, CountsAreRows, OffIsLeftAlone,
        StatusHasEvidence
<1>4. ASSUME NEW a \in Api, TakeApi(v, a) PROVE CatalogInv'
  <2>1. [left |-> GetEndpoints[a], seen |-> {}] \in Probed
    BY CatalogAssumption DEF Probed
  <2>2. [verification[v].probed EXCEPT ![a] = [left |-> GetEndpoints[a], seen |-> {}]]
          \in [Api -> Probed]
    BY <1>1, <2>1 DEF VerificationRecord
  <2>3. verification' \in [Verification -> VerificationRecord]
    BY <1>0, <1>1, <1>4, <2>2 DEF TakeApi, CatalogShapes, VerificationRecord
  <2>. QED
    BY <1>0, <1>4, <2>3
    DEF TakeApi, CatalogInv, CatalogShapes, CountsAreRows, OffIsLeftAlone, StatusHasEvidence
<1>5. ASSUME NEW a \in Api, WorkerThrows(v, a) PROVE CatalogInv'
  <2>1. [left |-> 0, seen |-> {}] \in Probed
    BY DEF Probed
  <2>2. [verification[v].probed EXCEPT ![a] = [left |-> 0, seen |-> {}]] \in [Api -> Probed]
    BY <1>1, <2>1 DEF VerificationRecord
  <2>. DEFINE rest == [verification[v].probed EXCEPT ![a] = [left |-> 0, seen |-> {}]]
              new  == [verification[v] EXCEPT !.lost = verification[v].lost + 1, !.probed = rest]
  <2>3. new \in VerificationRecord
    <3>1. verification[v].lost + 1 \in Nat /\ rest \in [Api -> Probed]
      BY <1>1, <2>2 DEF VerificationRecord
    <3>. HIDE DEF rest
    <3>. QED
      BY <1>1, <3>1 DEF VerificationRecord
  <2>4. verification' = [verification EXCEPT ![v] = new]
    BY <1>0, <1>1, <1>5 DEF WorkerThrows, CatalogShapes, VerificationRecord
  <2>5. verification' \in [Verification -> VerificationRecord]
    BY <1>0, <2>3, <2>4 DEF CatalogShapes
  <2>. QED
    BY <1>0, <1>5, <2>5
    DEF WorkerThrows, CatalogInv, CatalogShapes, CountsAreRows, OffIsLeftAlone, StatusHasEvidence
<1>. QED
  BY <1>2, <1>3, <1>4, <1>5

\* The catalog's invariant, for every number of APIs, requests and deployments.
LEMMA CatalogAlways == CatalogSpec => []CatalogInv
<1>1. CatalogInit => CatalogInv
  <2>. SUFFICES ASSUME CatalogInit PROVE CatalogInv
    OBVIOUS
  <2>1. Absent \in ApiEntry /\ NoActivation \in ActivationRecord
        /\ NoVerification \in VerificationRecord /\ Unseen \in EvidenceRecord
    BY DEF Absent, ApiEntry, NoActivation, ActivationRecord, NoVerification, VerificationRecord,
           Probed, Unseen, EvidenceRecord, VerificationStatus
  <2>2. NoActivation.ok = 0 /\ NoActivation.row = 0 /\ Unseen.by = "none"
    BY DEF NoActivation, Unseen
  <2>. QED
    BY <2>1, <2>2, CatalogAssumption
    DEF CatalogInit, CatalogInv, CatalogShapes, CountsAreRows, OffIsLeftAlone, StatusHasEvidence
<1>2. CatalogInv /\ [CatalogNext]_catalogVars => CatalogInv'
  <2>. SUFFICES ASSUME CatalogInv, [CatalogNext]_catalogVars PROVE CatalogInv'
    OBVIOUS
  <2>1. ASSUME NEW deprecated \in SUBSET Patched,
               Boot([a \in Api |-> [present |-> TRUE, deprecated |-> a \in deprecated]])
        PROVE  CatalogInv'
    <3>1. [a \in Api |-> [present |-> TRUE, deprecated |-> a \in deprecated]]
            \in [Api -> [present : BOOLEAN, deprecated : BOOLEAN]]
      OBVIOUS
    <3>. QED
      BY <2>1, <3>1, BootKeepsCatalog
  <2>2. CASE UNCHANGED catalogVars
    BY <2>2 DEF catalogVars, CatalogInv, CatalogShapes, CountsAreRows, OffIsLeftAlone,
                StatusHasEvidence
  <2>. QED
    BY <2>1, <2>2, RequestKeepsCatalog, KeyProbeKeepsCatalog, ThrowKeepsCatalog,
       DeactivationKeepsCatalog, EndpointProbeKeepsCatalog, VerificationKeepsCatalog
    DEF CatalogNext
<1>. QED
  BY <1>1, <1>2, PTL DEF CatalogSpec

\* What an operator has switched off stays off, through every deployment.
THEOREM OffAlwaysStaysOff == CatalogSpec => []OffStaysOff
<1>1. CatalogInv => OffStaysOff
  BY DEF CatalogInv, OffIsLeftAlone, OffStaysOff
<1>. QED
  BY <1>1, CatalogAlways, PTL

\* A status always rests on what was seen, however many requests overlap.
THEOREM StatusAlwaysHasEvidence == CatalogSpec => []StatusHasEvidence
<1>1. CatalogInv => StatusHasEvidence
  BY DEF CatalogInv
<1>. QED
  BY <1>1, CatalogAlways, PTL

\* An activation counts no further than the answers it asks for, and the
\* bundle is as a deployment brings it.
LEMMA CatalogRowsBounded ==
  CatalogSpec => []( /\ bundled \in [Api -> [present : BOOLEAN, deprecated : BOOLEAN]]
                     /\ \A a \in Api : evidence[a].row <= Samples )
<1> DEFINE Inv == /\ bundled \in [Api -> [present : BOOLEAN, deprecated : BOOLEAN]]
                  /\ \A a \in Api : evidence[a].row <= Samples
<1>0. Samples \in Nat
  BY CatalogAssumption
<1>1. CatalogInit => Inv
  BY <1>0 DEF CatalogInit, Unseen
<1>2. CatalogInv /\ Inv /\ [CatalogNext]_catalogVars => Inv'
  <2>. SUFFICES ASSUME CatalogInv, Inv, [CatalogNext]_catalogVars PROVE Inv'
    OBVIOUS
  <2>0. CatalogShapes /\ CountsAreRows
    BY DEF CatalogInv
  <2>1. ASSUME NEW b \in [Api -> [present : BOOLEAN, deprecated : BOOLEAN]], Boot(b)
        PROVE  Inv'
    BY <1>0, <2>1 DEF Boot, Unseen
  <2>2. ASSUME NEW x \in Activation, ProbeKey(x) PROVE Inv'
    <3>1. /\ bundled' = bundled
          /\ \/ evidence' = evidence
             \/ \E r : /\ activation[x].ok + 1 >= Samples
                       /\ r \in {0, activation[x].row + 1}
                       /\ evidence' = [evidence EXCEPT ![activation[x].api] =
                                         [by |-> "activation", seen |-> {}, row |-> r]]
      <4>1. activation[x].ok \in Nat
        BY <2>0 DEF CatalogShapes, ActivationRecord
      <4>2. ~(activation[x].ok + 1 < Samples) => activation[x].ok + 1 >= Samples
        BY <1>0, <4>1
      <4>. QED
        BY <2>2, <4>2, Zenon DEF ProbeKey
    <3>2. /\ activation[x].ok < Samples
          /\ activation[x].row = activation[x].ok
          /\ activation[x].ok \in Nat
      BY <2>0 DEF CountsAreRows, CatalogShapes, ActivationRecord
    <3>3. ASSUME NEW r \in {0, activation[x].row + 1} PROVE r <= Samples
      BY <1>0, <3>2
    <3>4. CASE evidence' = evidence
      BY <3>1, <3>4
    <3>5. ASSUME NEW r, r \in {0, activation[x].row + 1},
                 evidence' = [evidence EXCEPT ![activation[x].api] =
                                [by |-> "activation", seen |-> {}, row |-> r]]
          PROVE  \A a \in Api : evidence'[a].row <= Samples
      <4>1. r <= Samples
        BY <3>3, <3>5
      <4>. QED
        BY <2>0, <3>5, <4>1 DEF CatalogShapes
    <3>. QED
      BY <3>1, <3>4, <3>5
  <2>3. ASSUME NEW v \in Verification, NEW a \in Api, ProbeEndpoint(v, a) PROVE Inv'
    <3>1. /\ bundled' = bundled
          /\ \/ evidence' = evidence
             \/ \E seen : evidence' = [evidence EXCEPT ![a] =
                                         [by |-> "verification", seen |-> seen, row |-> 0]]
      BY <2>3 DEF ProbeEndpoint
    <3>. QED
      BY <1>0, <2>0, <3>1 DEF CatalogShapes
  <2>4. ASSUME UNCHANGED <<bundled, evidence>> PROVE Inv'
    BY <2>4
  <2>5. ASSUME NEW deprecated \in SUBSET Patched PROVE
          [a \in Api |-> [present |-> TRUE, deprecated |-> a \in deprecated]]
            \in [Api -> [present : BOOLEAN, deprecated : BOOLEAN]]
    OBVIOUS
  <2>. HIDE DEF Inv
  <2>. QED
    BY <2>1, <2>2, <2>3, <2>4, <2>5
    DEF CatalogNext, StartActivation, ActivationThrows, Deactivate, StartVerification,
        EndVerification, TakeApi, WorkerThrows, catalogVars
<1>. HIDE DEF Inv
<1>3. CatalogSpec => []Inv
  BY <1>1, <1>2, CatalogAlways, PTL DEF CatalogSpec
<1>. QED
  BY <1>3 DEF Inv

\* The catalog, its activations, verifications and evidence keep their types.
THEOREM CatalogIsTyped == CatalogSpec => []CatalogTypeOK
<1> DEFINE Rest == /\ bundled \in [Api -> [present : BOOLEAN, deprecated : BOOLEAN]]
                   /\ \A a \in Api : evidence[a].row <= Samples
<1>1. CatalogInv /\ Rest => CatalogTypeOK
  <2>. SUFFICES ASSUME CatalogInv, Rest PROVE CatalogTypeOK
    OBVIOUS
  <2>1. CatalogShapes /\ CountsAreRows /\ Samples \in Nat
    BY CatalogAssumption DEF CatalogInv
  <2>2. ASSUME NEW x \in Activation
        PROVE  /\ activation[x].todo \subseteq Keyed /\ activation[x].api \in Keyed \cup {NoApi}
               /\ activation[x].ok \in 0..Samples /\ activation[x].row \in 0..Samples
    BY <2>1 DEF CatalogShapes, CountsAreRows, ActivationRecord
  <2>3. ASSUME NEW v \in Verification
        PROVE  /\ verification[v].waiting \subseteq Api /\ verification[v].lost \in Nat
               /\ verification[v].prev \in [Api -> VerificationStatus]
               /\ verification[v].probed \in [Api -> [left : Nat, seen : SUBSET Health]]
    BY <2>1 DEF CatalogShapes, VerificationRecord, Probed
  <2>4. ASSUME NEW a \in Api
        PROVE  evidence[a] \in [by : {"none", "seed", "verification", "activation", "correction"},
                                seen : SUBSET Health, row : 0..Samples]
    BY <2>1 DEF CatalogShapes, EvidenceRecord
  <2>5. evidence \in [Api -> [by : {"none", "seed", "verification", "activation", "correction"},
                              seen : SUBSET Health, row : 0..Samples]]
    BY <2>1, <2>4 DEF CatalogShapes
  <2>. QED
    BY <2>1, <2>2, <2>3, <2>5 DEF CatalogTypeOK, CatalogShapes, ApiEntry
<1>2. CatalogSpec => []Rest
  BY CatalogRowsBounded
<1>. HIDE DEF Rest
<1>. QED
  BY <1>1, <1>2, CatalogAlways, PTL

-----------------------------------------------------------------------------
(* Suggestions.                                                            *)

\* The books of a day: its row is within the limit, covers what was answered
\* and is under way but for what other days' refunds took, and holds nothing
\* for anything else.
BooksOf(d) ==
    /\ used[d] <= SuggestionLimit
    /\ answered[d] + Under(d) <= used[d] + taken[d]
    /\ used[d] <= answered[d] + Under(d) + lost[d]

\* A call that is not under way has no charge.
NoChargeOutside == \A c \in Caller : at[c] = "out" => charge[c] = 0

SuggestionBooks == \A d \in Date : BooksOf(d)

SuggestionInv == SuggestionsTypeOK /\ NoChargeOutside /\ SuggestionBooks

\* The limits are positive, the calls finitely many, and no day is day 0.
LEMMA LimitsOfSuggestions ==
  /\ SuggestionLimit \in Nat \ {0} /\ MaxDate \in Nat \ {0} /\ IsFiniteSet(Caller)
  /\ Date \subseteq Nat /\ 0 \notin Date
BY SuggestionsAssumption DEF Date

\* The calls charged on a day are finitely many, and so they have a number.
LEMMA UnderIsCountable ==
  ASSUME NEW d
  PROVE  IsFiniteSet({c \in Caller : charge[c] = d})
BY LimitsOfSuggestions, FS_Subset

\* The calls charged on a day have a number.
LEMMA UnderIsNumber ==
  \A d \in Date : Under(d) \in Nat
BY UnderIsCountable, FS_CardinalityType DEF Under

\* A charge adds a call to its day, an end takes one away.
LEMMA ChargeCounts ==
  ASSUME SuggestionsTypeOK, NEW c \in Caller, NEW d \in Date, NEW e \in 0..MaxDate,
         charge' = [charge EXCEPT ![c] = e]
  PROVE  Under(d)' = Under(d) - (IF charge[c] = d THEN 1 ELSE 0) + (IF e = d THEN 1 ELSE 0)
<1>. DEFINE S == {x \in Caller : charge[x] = d}
            T == S \ {c}
<1>1. IsFiniteSet(S) /\ Under(d) = Cardinality(S) /\ Cardinality(S) \in Nat
  BY UnderIsCountable, FS_CardinalityType DEF Under
<1>2. IsFiniteSet(T) /\ Cardinality(T) = Cardinality(S) - (IF charge[c] = d THEN 1 ELSE 0)
  <2>1. c \in S <=> charge[c] = d
    OBVIOUS
  <2>. HIDE DEF S
  <2>2. IsFiniteSet(T) /\ Cardinality(T) = IF c \in S THEN Cardinality(S) - 1 ELSE Cardinality(S)
    BY <1>1, FS_RemoveElement
  <2>. QED
    BY <1>1, <2>1, <2>2
<1>3. {x \in Caller : charge'[x] = d} = IF e = d THEN T \cup {c} ELSE T
  BY DEF SuggestionsTypeOK
<1>4. Cardinality(T \cup {c}) = Cardinality(T) + 1
  BY <1>2, FS_AddElement
<1>5. Under(d)' = Cardinality({x \in Caller : charge'[x] = d})
  BY DEF Under
<1>6. Cardinality(T) \in Int
  BY <1>1, <1>2
<1>. HIDE DEF S, T
<1>7. CASE e = d
  BY <1>1, <1>2, <1>3, <1>4, <1>5, <1>6, <1>7
<1>8. CASE e # d
  BY <1>1, <1>2, <1>3, <1>5, <1>6, <1>8
<1>. QED
  BY <1>7, <1>8

\* A call is charged within the limit or let through.
LEMMA AskingKeepsBooks ==
  ASSUME SuggestionInv, NEW c \in Caller, NEW r \in Route, AskFor(c, r)
  PROVE  SuggestionInv'
<1>0. SuggestionsTypeOK /\ NoChargeOutside /\ SuggestionBooks
  BY DEF SuggestionInv
<1>1. at[c] = "out" /\ charge[c] = 0 /\ UNCHANGED <<date, answered, taken, lost>>
  BY <1>0 DEF AskFor, NoChargeOutside
<1>2. /\ at' \in [Caller -> {"out", "asking", "recommending"} \cup Route]
      /\ \A x \in Caller : x # c => at'[x] = at[x]
      /\ at'[c] # "out"
  BY <1>0 DEF AskFor, SuggestionsTypeOK, Route
<1>3. CASE Charged(c)
  <2>1. used[date] < SuggestionLimit /\ used' = [used EXCEPT ![date] = @ + 1]
        /\ charge' = [charge EXCEPT ![c] = date] /\ date \in Date
    BY <1>0, <1>3 DEF Charged, SuggestionsTypeOK
  <2>2. used[date] \in Nat /\ SuggestionLimit \in Nat /\ date \in 0..MaxDate
    BY <1>0, <2>1, LimitsOfSuggestions DEF SuggestionsTypeOK, Date
  <2>3. SuggestionsTypeOK'
    BY <1>0, <1>1, <1>2, <2>1, <2>2 DEF SuggestionsTypeOK
  <2>4. NoChargeOutside'
    BY <1>0, <1>2, <2>1 DEF NoChargeOutside, SuggestionsTypeOK
  <2>5. ASSUME NEW d \in Date PROVE BooksOf(d)'
    <3>1. Under(d)' = Under(d) + (IF date = d THEN 1 ELSE 0)
      <4>1. 0 # d /\ Under(d) \in Nat
        BY LimitsOfSuggestions, UnderIsNumber
      <4>2. PICK e \in 0..MaxDate : e = date
        BY <2>2
      <4>3. Under(d)' = Under(d) - (IF charge[c] = d THEN 1 ELSE 0) + (IF e = d THEN 1 ELSE 0)
        BY <1>0, <2>1, <4>2, ChargeCounts
      <4>. QED
        BY <1>1, <4>1, <4>2, <4>3
    <3>2. used'[d] = used[d] + (IF date = d THEN 1 ELSE 0)
      BY <1>0, <2>1, <2>2 DEF SuggestionsTypeOK
    <3>3. /\ used[d] \in Nat /\ answered[d] \in Nat /\ taken[d] \in Nat /\ lost[d] \in Nat
          /\ Under(d) \in Nat
      BY <1>0, UnderIsNumber DEF SuggestionsTypeOK
    <3>. QED
      BY <1>0, <1>1, <2>1, <2>2, <3>1, <3>2, <3>3 DEF SuggestionBooks, BooksOf
  <2>. QED
    BY <2>3, <2>4, <2>5 DEF SuggestionInv, SuggestionBooks
<1>4. CASE UNCHANGED <<used, charge>>
  <2>1. SuggestionsTypeOK' /\ NoChargeOutside'
    BY <1>0, <1>1, <1>2, <1>4 DEF SuggestionsTypeOK, NoChargeOutside
  <2>2. SuggestionBooks'
    BY <1>0, <1>1, <1>4 DEF SuggestionBooks, BooksOf, Under
  <2>. QED
    BY <2>1, <2>2 DEF SuggestionInv
<1>. QED
  BY <1>3, <1>4 DEF AskFor

\* What every call that ends does to its own state.
LEMMA OutIsUncharged ==
  ASSUME SuggestionInv, NEW c \in Caller, SuggestionOut(c)
  PROVE  /\ at' \in [Caller -> {"out", "asking", "recommending"} \cup Route]
         /\ charge' \in [Caller -> 0..MaxDate]
         /\ NoChargeOutside'
         /\ charge[c] \in 0..MaxDate
         /\ charge[c] # 0 => charge[c] \in Date
         /\ \A d \in Date : /\ Under(d) \in Nat
                            /\ Under(d)' = Under(d) - (IF charge[c] = d THEN 1 ELSE 0)
<1>0. SuggestionsTypeOK /\ NoChargeOutside
  BY DEF SuggestionInv
<1>1. at' = [at EXCEPT ![c] = "out"] /\ charge' = [charge EXCEPT ![c] = 0] /\ 0 \in 0..MaxDate
  BY LimitsOfSuggestions DEF SuggestionOut
<1>2. ASSUME NEW d \in Date
      PROVE  Under(d) \in Nat /\ Under(d)' = Under(d) - (IF charge[c] = d THEN 1 ELSE 0)
  <2>1. d # 0 /\ Under(d) \in Nat
    BY LimitsOfSuggestions, UnderIsNumber
  <2>2. Under(d)' = Under(d) - (IF charge[c] = d THEN 1 ELSE 0) + (IF 0 = d THEN 1 ELSE 0)
    BY <1>0, <1>1, ChargeCounts
  <2>. QED
    BY <2>1, <2>2
<1>3. charge[c] \in 0..MaxDate /\ (charge[c] # 0 => charge[c] \in Date)
  BY <1>0, LimitsOfSuggestions DEF SuggestionsTypeOK, Date
<1>. QED
  BY <1>0, <1>1, <1>2, <1>3 DEF SuggestionsTypeOK, NoChargeOutside

\* An answer moves a charge from those under way to those answered.
LEMMA AnsweringKeepsBooks ==
  ASSUME SuggestionInv, NEW c \in Caller, SuggestionAnswers(c)
  PROVE  SuggestionInv'
<1>0. SuggestionsTypeOK /\ SuggestionBooks
  BY DEF SuggestionInv
<1>1. /\ SuggestionOut(c) /\ UNCHANGED <<date, used, taken, lost>>
      /\ answered' = IF charge[c] # 0 THEN [answered EXCEPT ![charge[c]] = @ + 1] ELSE answered
  BY DEF SuggestionAnswers, AddTo, rows
<1>2. SuggestionsTypeOK' /\ NoChargeOutside'
  BY <1>0, <1>1, OutIsUncharged DEF SuggestionsTypeOK
<1>3. ASSUME NEW d \in Date PROVE BooksOf(d)'
  <2>1. Under(d)' = Under(d) - (IF charge[c] = d THEN 1 ELSE 0) /\ Under(d) \in Nat
    BY <1>1, OutIsUncharged
  <2>2. answered'[d] = answered[d] + (IF charge[c] = d THEN 1 ELSE 0)
    BY <1>0, <1>1, LimitsOfSuggestions DEF SuggestionsTypeOK
  <2>3. used[d] \in Nat /\ answered[d] \in Nat /\ taken[d] \in Nat /\ lost[d] \in Nat
    BY <1>0 DEF SuggestionsTypeOK
  <2>. QED
    BY <1>0, <1>1, <2>1, <2>2, <2>3 DEF SuggestionBooks, BooksOf
<1>. QED
  BY <1>2, <1>3 DEF SuggestionInv, SuggestionBooks

\* A refund takes a charge from its own day, or leaves a loss there and takes
\* from today what today's books then show as taken.
LEMMA FailingKeepsBooks ==
  ASSUME SuggestionInv, NEW c \in Caller, SuggestionFails(c)
  PROVE  SuggestionInv'
<1>0. SuggestionsTypeOK /\ SuggestionBooks
  BY DEF SuggestionInv
<1>1. SuggestionOut(c) /\ UNCHANGED <<date, answered>>
  BY DEF SuggestionFails
<1>2. CASE charge[c] = 0
  <2>1. UNCHANGED <<used, taken, lost>>
    BY <1>2 DEF SuggestionFails
  <2>2. SuggestionsTypeOK' /\ NoChargeOutside'
    BY <1>0, <1>1, <2>1, OutIsUncharged DEF SuggestionsTypeOK
  <2>3. ASSUME NEW d \in Date PROVE BooksOf(d)'
    <3>1. Under(d)' = Under(d)
      BY <1>1, <1>2, OutIsUncharged, LimitsOfSuggestions
    <3>. QED
      BY <1>0, <1>1, <2>1, <3>1 DEF SuggestionBooks, BooksOf
  <2>. QED
    BY <2>2, <2>3 DEF SuggestionInv, SuggestionBooks
<1>3. CASE charge[c] # 0
  <2>. DEFINE x == charge[c]
              taking == used[date] > 0
              misses == x # date \/ ~taking
  <2>1. x \in Date /\ date \in Date /\ GiveBack(c)
    BY <1>0, <1>1, <1>3, OutIsUncharged DEF SuggestionFails, SuggestionsTypeOK
  <2>2. \A d \in Date : /\ used[d] \in Nat /\ used[d] <= SuggestionLimit
                        /\ answered[d] \in Nat /\ taken[d] \in Nat /\ lost[d] \in Nat
                        /\ Under(d) \in Nat
                        /\ Under(d)' = Under(d) - (IF x = d THEN 1 ELSE 0)
    BY <1>0, <1>1, OutIsUncharged, LimitsOfSuggestions DEF SuggestionsTypeOK
  <2>3. CASE /\ used' = [used EXCEPT ![date] = IF taking THEN @ - 1 ELSE 0]
             /\ taken' = IF taking /\ x # date THEN [taken EXCEPT ![date] = @ + 1] ELSE taken
             /\ lost' = IF misses THEN [lost EXCEPT ![x] = @ + 1] ELSE lost
    <3>1. \A d \in Date :
            /\ used'[d] = IF d = date THEN (IF taking THEN used[d] - 1 ELSE 0) ELSE used[d]
            /\ taken'[d] = taken[d] + (IF taking /\ x # date /\ d = date THEN 1 ELSE 0)
            /\ lost'[d] = lost[d] + (IF misses /\ d = x THEN 1 ELSE 0)
      BY <1>0, <2>1, <2>2, <2>3 DEF SuggestionsTypeOK
    <3>2. SuggestionsTypeOK' /\ NoChargeOutside'
      <4>1. (IF taking THEN used[date] - 1 ELSE 0) \in 0..SuggestionLimit
        BY <2>1, <2>2, LimitsOfSuggestions
      <4>2. used' \in [Date -> 0..SuggestionLimit]
        BY <1>0, <2>3, <4>1 DEF SuggestionsTypeOK
      <4>3. taken' \in [Date -> Nat] /\ lost' \in [Date -> Nat]
        BY <1>0, <2>1, <2>2, <2>3 DEF SuggestionsTypeOK
      <4>. QED
        BY <1>0, <1>1, <4>2, <4>3, OutIsUncharged DEF SuggestionsTypeOK
    <3>3. ASSUME NEW d \in Date PROVE BooksOf(d)'
      <4>1. BooksOf(d)
        BY <1>0 DEF SuggestionBooks
      <4>2. d = date => (taking <=> used[d] > 0)
        OBVIOUS
      <4>3. answered'[d] = answered[d] /\ SuggestionLimit \in Nat
        BY <1>1, LimitsOfSuggestions
      <4>4. x = d => Under(d) >= 1
        <5>1. SUFFICES ASSUME x = d PROVE Under(d) # 0
          BY <2>2
        <5>2. c \in {y \in Caller : charge[y] = d}
          BY <5>1
        <5>. QED
          BY <5>2, UnderIsCountable, FS_EmptySet DEF Under
      <4>. QED
        BY <2>2, <3>1, <4>1, <4>2, <4>3, <4>4 DEF BooksOf
    <3>. QED
      BY <3>2, <3>3 DEF SuggestionInv, SuggestionBooks
  <2>4. CASE lost' = [lost EXCEPT ![x] = @ + 1] /\ UNCHANGED <<used, taken>>
    <3>1. SuggestionsTypeOK' /\ NoChargeOutside'
      BY <1>0, <1>1, <2>1, <2>4, OutIsUncharged DEF SuggestionsTypeOK
    <3>2. ASSUME NEW d \in Date PROVE BooksOf(d)'
      <4>1. lost'[d] = lost[d] + (IF x = d THEN 1 ELSE 0)
        BY <1>0, <2>2, <2>4 DEF SuggestionsTypeOK
      <4>. QED
        BY <1>0, <1>1, <2>2, <2>4, <4>1, LimitsOfSuggestions DEF SuggestionBooks, BooksOf
    <3>. QED
      BY <3>1, <3>2 DEF SuggestionInv, SuggestionBooks
  <2>. QED
    BY <2>1, <2>3, <2>4 DEF GiveBack, AddTo
<1>. QED
  BY <1>2, <1>3

\* A crash loses what was charged and not answered.
LEMMA DyingKeepsBooks ==
  ASSUME SuggestionInv, SuggestionsDie
  PROVE  SuggestionInv'
<1>0. SuggestionsTypeOK /\ SuggestionBooks
  BY DEF SuggestionInv
<1>1. /\ at' = [c \in Caller |-> "out"] /\ charge' = [c \in Caller |-> 0]
      /\ lost' = [d \in Date |-> lost[d] + Under(d)]
      /\ UNCHANGED <<date, used, answered, taken>>
  BY DEF SuggestionsDie, rows
<1>2. \A d \in Date : Under(d) \in Nat /\ used[d] \in Nat /\ answered[d] \in Nat
                      /\ taken[d] \in Nat /\ lost[d] \in Nat
  BY <1>0, UnderIsNumber DEF SuggestionsTypeOK
<1>3. SuggestionsTypeOK' /\ NoChargeOutside'
  BY <1>0, <1>1, <1>2, LimitsOfSuggestions DEF SuggestionsTypeOK, NoChargeOutside
<1>4. ASSUME NEW d \in Date PROVE BooksOf(d)'
  <2>1. {c \in Caller : charge'[c] = d} = {}
    BY <1>1, LimitsOfSuggestions
  <2>2. Under(d)' = 0
    BY <2>1, FS_EmptySet DEF Under
  <2>. QED
    BY <1>0, <1>1, <1>2, <2>2, LimitsOfSuggestions DEF SuggestionBooks, BooksOf
<1>. QED
  BY <1>3, <1>4 DEF SuggestionInv, SuggestionBooks

\* The books are in order, for every number of calls and days and any limit.
LEMMA SuggestionBooksAlways ==
  SuggestionsInit /\ [][SuggestionsNext]_suggestionVars => []SuggestionInv
<1>1. SuggestionsInit => SuggestionInv
  <2>. SUFFICES ASSUME SuggestionsInit PROVE SuggestionInv
    OBVIOUS
  <2>1. SuggestionsTypeOK /\ NoChargeOutside
    BY LimitsOfSuggestions, SuggestionsAssumption
    DEF SuggestionsInit, SuggestionsTypeOK, NoChargeOutside, Date
  <2>2. ASSUME NEW d \in Date PROVE BooksOf(d)
    <3>1. {c \in Caller : charge[c] = d} = {}
      BY LimitsOfSuggestions DEF SuggestionsInit
    <3>2. Under(d) = 0
      BY <3>1, FS_EmptySet DEF Under
    <3>. QED
      BY <3>2, LimitsOfSuggestions DEF SuggestionsInit, BooksOf
  <2>. QED
    BY <2>1, <2>2 DEF SuggestionInv, SuggestionBooks
<1>2. SuggestionInv /\ [SuggestionsNext]_suggestionVars => SuggestionInv'
  <2>. SUFFICES ASSUME SuggestionInv, [SuggestionsNext]_suggestionVars PROVE SuggestionInv'
    OBVIOUS
  <2>1. ASSUME NEW c \in Caller, ModelAsked(c) PROVE SuggestionInv'
    <3>1. SuggestionsTypeOK' /\ NoChargeOutside'
      BY <2>1 DEF SuggestionInv, ModelAsked, SuggestionsTypeOK, NoChargeOutside, Route, rows
    <3>. QED
      BY <2>1, <3>1 DEF SuggestionInv, ModelAsked, SuggestionBooks, BooksOf, Under, rows
  <2>2. CASE AfterMidnight
    <3>1. date' \in Date
      BY <2>2, LimitsOfSuggestions DEF AfterMidnight, SuggestionInv, SuggestionsTypeOK, Date
    <3>2. SuggestionsTypeOK' /\ NoChargeOutside' /\ SuggestionBooks'
      BY <2>2, <3>1 DEF AfterMidnight, SuggestionInv, SuggestionsTypeOK, NoChargeOutside,
                        SuggestionBooks, BooksOf, Under
    <3>. QED
      BY <3>2 DEF SuggestionInv
  <2>3. CASE UNCHANGED suggestionVars
    BY <2>3 DEF suggestionVars, rows, SuggestionInv, SuggestionsTypeOK, NoChargeOutside,
                SuggestionBooks, BooksOf, Under
  <2>. QED
    BY <2>1, <2>2, <2>3, AskingKeepsBooks, AnsweringKeepsBooks, FailingKeepsBooks,
       DyingKeepsBooks DEF SuggestionsNext
<1>. QED
  BY <1>1, <1>2, PTL

\* A day never answers more suggestions than its limit and what refunds of
\* other days' charges freed: for every number of calls, days and any limit.
THEOREM SuggestionsAreAlwaysPaid ==
  SuggestionsInit /\ [][SuggestionsNext]_suggestionVars => []SuggestionsArePaid
<1>1. SuggestionInv => SuggestionsArePaid
  <2>. SUFFICES ASSUME SuggestionInv, NEW d \in Date
                PROVE  /\ answered[d] + Under(d) <= SuggestionLimit + taken[d]
                       /\ used[d] <= answered[d] + Under(d) + lost[d]
    BY DEF SuggestionsArePaid
  <2>1. used[d] \in Nat /\ answered[d] \in Nat /\ taken[d] \in Nat /\ Under(d) \in Nat
        /\ SuggestionLimit \in Nat
    BY UnderIsNumber, LimitsOfSuggestions DEF SuggestionInv, SuggestionsTypeOK
  <2>. QED
    BY <2>1 DEF SuggestionInv, SuggestionBooks, BooksOf
<1>. QED
  BY <1>1, SuggestionBooksAlways, PTL

\* The rows, the calls and their charges keep their types.
THEOREM SuggestionsAreTyped ==
  SuggestionsInit /\ [][SuggestionsNext]_suggestionVars => []SuggestionsTypeOK
<1>1. SuggestionInv => SuggestionsTypeOK
  BY DEF SuggestionInv
<1>. QED
  BY <1>1, SuggestionBooksAlways, PTL

-----------------------------------------------------------------------------
(* Backups.                                                                *)

Dumping == {n \in Name : backup[n] = "dump"}
Ended == {n \in Name : backup[n] = "over"}

\* A backup that has not started has no file.
Unstarted == \A n \in Name : n > started => backup[n] = "none" /\ file[n] = "absent"

\* A backup that uploads stands behind a whole file, its own or a newer one.
UploadsAreCovered ==
    \A n \in Name : backup[n] = "upload" => \E w \in Name : w >= n /\ file[w] = "whole"

\* No more dumps overlap than may, none has a whole file yet, and whatever
\* is partial after a backup under way is a dump under way.
DumpsAreFew ==
    /\ Cardinality(Dumping) <= Dumps
    /\ \A n \in Name : backup[n] = "dump" => file[n] # "whole"
    /\ \A n, m \in Name :
          backup[n] \in {"dump", "upload"} /\ m > n /\ file[m] = "partial" => backup[m] = "dump"

\* Each failure in a row is of a backup of its own.
FailuresAreOver == failures <= Cardinality(Ended)

BackupsInv ==
    /\ BackupsTypeOK /\ Unstarted /\ UploadsAreCovered /\ DumpsAreFew /\ FailuresAreOver
    /\ WholeBackupRemains

\* The constants of the backups are numbers.
LEMMA BackupNumbers ==
  /\ Retention \in Nat /\ Dumps \in Nat \ {0} /\ MaxBackup \in Nat /\ Dumps < Retention
  /\ Name \subseteq Nat
<1>1. Retention \in Nat /\ Dumps \in Nat \ {0} /\ MaxBackup \in Nat /\ Dumps < Retention
  BY BackupsAssumption
<1>. QED
  BY <1>1 DEF Name

\* Any backups are finitely many.
LEMMA BackupsAreCountable ==
  ASSUME NEW S, S \subseteq Name
  PROVE  IsFiniteSet(S) /\ Cardinality(S) \in Nat /\ Cardinality(S) <= MaxBackup
<1>1. IsFiniteSet(Name) /\ Cardinality(Name) = MaxBackup
  BY BackupNumbers, FS_Interval DEF Name
<1>. QED
  BY <1>1, FS_Subset, FS_CardinalityType

\* A set of backups has a newest one.
LEMMA HasNewest ==
  ASSUME NEW S \in SUBSET Name, S # {}
  PROVE  \E v \in S : \A w \in S : w <= v
<1> DEFINE T == {MaxBackup - v : v \in S}
<1>1. S \subseteq Nat /\ MaxBackup \in Nat /\ \A v \in S : v <= MaxBackup
  BY BackupNumbers DEF Name
<1>2. T \subseteq Nat /\ T # {}
  <2>1. \A v \in S : v \in Nat /\ MaxBackup - v \in Nat
    BY <1>1
  <2>2. PICK v \in S : TRUE
    OBVIOUS
  <2>3. MaxBackup - v \in T
    OBVIOUS
  <2>. QED
    BY <2>1, <2>3
<1>3. PICK x \in T : \A y \in T : ~(<<y, x>> \in OpToRel(<, Nat))
  BY <1>2, NatLessThanWellFounded, WFMin, Zenon
<1>4. \A y \in T : x <= y
  <2> SUFFICES ASSUME NEW y \in T PROVE x <= y
    OBVIOUS
  <2>1. x \in Nat /\ y \in Nat
    BY <1>2
  <2>2. ~(y < x)
    BY <1>3, <2>1 DEF OpToRel
  <2>. QED
    BY <2>1, <2>2
<1>5. PICK v \in S : x = MaxBackup - v
  OBVIOUS
<1>6. \A w \in S : MaxBackup - w \in T
  OBVIOUS
<1> HIDE DEF T
<1>7. \A w \in S : w <= v
  BY <1>1, <1>4, <1>5, <1>6
<1>. QED
  BY <1>7

\* While a backup uploads, pruning spares the newest whole file: only dumps
\* under way are newer, and they are fewer than the files that are kept.
LEMMA PruningSparesNewest ==
  ASSUME BackupsInv, NEW n \in Name, backup[n] = "upload"
  PROVE  \E v \in Name :
            /\ v >= n /\ file[v] = "whole"
            /\ \A w \in Name : file[w] = "whole" => w <= v
            /\ v \notin SelectBackupsToPrune(file)
<1> DEFINE S == {w \in Name : file[w] = "whole"}
<1>1. PICK x \in Name : x >= n /\ file[x] = "whole"
  BY DEF BackupsInv, UploadsAreCovered
<1>2. PICK v \in S : \A w \in S : w <= v
  BY <1>1, HasNewest
<1>3. v \in Name /\ v >= n /\ file[v] = "whole"
  <2>1. v \in Nat /\ x \in Nat /\ n \in Nat /\ x <= v
    BY <1>1, <1>2, BackupNumbers
  <2>. QED
    BY <1>1, <1>2, <2>1
<1>4. {m \in Listed(file) : m >= v} \subseteq Dumping \cup {v}
  <2> SUFFICES ASSUME NEW m \in Listed(file), m >= v, m # v PROVE m \in Dumping
    OBVIOUS
  <2>1. m \in Name /\ file[m] # "absent" /\ m > v /\ m > n
    BY <1>3, BackupNumbers DEF Listed
  <2>2. file[m] # "whole"
    <3>1. m \in S => m <= v
      BY <1>2
    <3>. QED
      BY <1>3, <2>1, <3>1, BackupNumbers
  <2>3. file[m] = "partial"
    BY <2>1, <2>2 DEF BackupsInv, BackupsTypeOK
  <2>. QED
    BY <2>1, <2>3 DEF BackupsInv, DumpsAreFew, Dumping
<1>5. IsFiniteSet(Dumping) /\ Cardinality(Dumping) \in Nat /\ Cardinality(Dumping) <= Dumps
  <2>1. Dumping \subseteq Name
    BY DEF Dumping
  <2>2. Cardinality(Dumping) <= Dumps
    BY DEF BackupsInv, DumpsAreFew
  <2>. QED
    BY <2>1, <2>2, BackupsAreCountable
<1>6. v \notin Dumping
  BY <1>3 DEF Dumping, BackupsInv, DumpsAreFew
<1>7. IsFiniteSet(Dumping \cup {v}) /\ Cardinality(Dumping \cup {v}) = Cardinality(Dumping) + 1
  BY <1>5, <1>6, FS_AddElement
<1>8. Cardinality({m \in Listed(file) : m >= v}) <= Cardinality(Dumping) + 1
      /\ Cardinality({m \in Listed(file) : m >= v}) \in Nat
  BY <1>4, <1>7, FS_Subset, FS_CardinalityType
<1>9. ~(Cardinality({m \in Listed(file) : m >= v}) > Retention)
  BY <1>5, <1>8, BackupNumbers
<1>10. v \notin SelectBackupsToPrune(file)
  BY <1>9 DEF SelectBackupsToPrune
<1>. QED
  BY <1>2, <1>3, <1>10

\* Backups begin in the invariant.
LEMMA BackupsBegin == BackupsInit => BackupsInv
<1> SUFFICES ASSUME BackupsInit PROVE BackupsInv
  OBVIOUS
<1>1. Dumping = {} /\ Cardinality({}) = 0
  BY FS_EmptySet DEF BackupsInit, Dumping
<1>2. Ended \subseteq Name
  BY DEF Ended
<1>3. BackupsTypeOK
  <2>1. 0 \in 0..MaxBackup
    BY BackupNumbers
  <2>. QED
    BY <2>1 DEF BackupsInit, BackupsTypeOK
<1>4. Unstarted /\ UploadsAreCovered /\ WholeBackupRemains
  BY DEF BackupsInit, Unstarted, UploadsAreCovered, WholeBackupRemains
<1>5. DumpsAreFew
  BY <1>1, BackupNumbers DEF BackupsInit, DumpsAreFew
<1>6. FailuresAreOver
  BY <1>2, BackupsAreCountable DEF BackupsInit, FailuresAreOver
<1>. QED
  BY <1>3, <1>4, <1>5, <1>6 DEF BackupsInv

\* A dump under way ends one way or another: the dumps become fewer.
LEMMA DumpLeaves ==
  ASSUME BackupsInv, NEW n \in Name, backup[n] = "dump", NEW to \in {"over", "upload"},
         backup' = [backup EXCEPT ![n] = to],
         file'[n] # "partial" /\ \A m \in Name : m # n => file'[m] = file[m]
  PROVE  DumpsAreFew'
<1>0. backup \in [Name -> {"none", "dump", "upload", "over"}]
  BY DEF BackupsInv, BackupsTypeOK
<1>1. Dumping' \subseteq Dumping /\ Dumping \subseteq Name
  BY <1>0 DEF Dumping
<1>2. Cardinality(Dumping') <= Cardinality(Dumping) /\ Cardinality(Dumping') \in Nat
      /\ Cardinality(Dumping) \in Nat /\ Cardinality(Dumping) <= Dumps
  BY <1>1, BackupsAreCountable, FS_Subset DEF BackupsInv, DumpsAreFew
<1>3. Cardinality(Dumping') <= Dumps
  BY <1>2, BackupNumbers
<1>4. \A m \in Name : backup'[m] = "dump" => m # n /\ backup[m] = "dump"
  BY <1>0
<1>5. \A m \in Name : backup'[m] = "dump" => file'[m] # "whole"
  BY <1>4 DEF BackupsInv, DumpsAreFew
<1>6. ASSUME NEW k \in Name, NEW m \in Name, backup'[k] \in {"dump", "upload"}, m > k,
             file'[m] = "partial"
      PROVE  backup'[m] = "dump"
  <2>1. backup[k] \in {"dump", "upload"} /\ m # n /\ file[m] = "partial"
    BY <1>0, <1>6
  <2>. QED
    BY <1>0, <1>6, <2>1 DEF BackupsInv, DumpsAreFew
<1>. QED
  BY <1>3, <1>5, <1>6 DEF DumpsAreFew

\* A backup begins as one more dump, after all others.
LEMMA DumpBegins ==
  ASSUME BackupsInv, NEW b \in [Name -> {"none", "dump", "upload", "over"}],
         Begin(b, file),
         \A n \in Name : b[n] \in {"dump", "upload"} => b[n] = backup[n],
         \A n \in Name : backup[n] = "none" => b[n] = "none",
         \A n \in Name : backup[n] = "dump" /\ b[n] # "dump"
            => \A m \in Name : b[m] \notin {"dump", "upload"},
         Cardinality({n \in Name : b[n] = "dump"}) < Dumps
  PROVE  /\ started' \in 0..MaxBackup
         /\ file' \in [Name -> {"absent", "partial", "whole"}]
         /\ backup' \in [Name -> {"none", "dump", "upload", "over"}]
         /\ Unstarted' /\ UploadsAreCovered' /\ DumpsAreFew'
         /\ \A n \in Name : file[n] = "whole" => file'[n] = "whole"
<1> DEFINE k == started + 1
           D == {n \in Name : b[n] = "dump"}
<1>0. /\ file \in [Name -> {"absent", "partial", "whole"}] /\ started \in 0..MaxBackup
      /\ started < MaxBackup /\ started' = k /\ MaxBackup \in Nat
      /\ backup' = [b EXCEPT ![k] = "dump"] /\ file' = [file EXCEPT ![k] = "partial"]
  BY BackupNumbers DEF BackupsInv, BackupsTypeOK, Begin
<1>1. k \in Name /\ k > started /\ k \in Nat
  BY <1>0 DEF Name
<1>2. file[k] = "absent" /\ b[k] = "none" /\ \A m \in Name : m > k => file[m] = "absent"
      /\ b[m] = "none"
  <2>1. \A m \in Name : m >= k => m > started
    BY <1>0, BackupNumbers
  <2>. QED
    BY <1>1, <2>1, BackupNumbers DEF BackupsInv, Unstarted
<1> HIDE DEF k
<1>3. started' \in 0..MaxBackup
  BY <1>0, BackupNumbers DEF k
<1>4. /\ file' \in [Name -> {"absent", "partial", "whole"}]
      /\ backup' \in [Name -> {"none", "dump", "upload", "over"}]
  BY <1>0
<1>5. Unstarted'
  <2> SUFFICES ASSUME NEW n \in Name, n > k PROVE backup'[n] = "none" /\ file'[n] = "absent"
    BY <1>0 DEF Unstarted
  <2>. QED
    BY <1>0, <1>1, <1>2, BackupNumbers
<1>6. \A n \in Name : file[n] = "whole" => file'[n] = "whole"
  BY <1>0, <1>2
<1>7. UploadsAreCovered'
  <2> SUFFICES ASSUME NEW n \in Name, backup'[n] = "upload"
               PROVE  \E w \in Name : w >= n /\ file'[w] = "whole"
    BY DEF UploadsAreCovered
  <2>1. backup[n] = "upload"
    BY <1>0, <1>1
  <2>. QED
    BY <1>6, <2>1 DEF BackupsInv, UploadsAreCovered
<1>8. Cardinality(Dumping') <= Dumps
  <2>1. Dumping' = D \cup {k} /\ k \notin D /\ D \subseteq Name
    BY <1>0, <1>1, <1>2 DEF Dumping
  <2> HIDE DEF D
  <2>2. Cardinality(Dumping') = Cardinality(D) + 1 /\ Cardinality(D) \in Nat
    BY <2>1, BackupsAreCountable, FS_AddElement
  <2>3. Cardinality(D) < Dumps
    BY DEF D
  <2>. QED
    BY <2>2, <2>3, BackupNumbers
<1>9. \A n \in Name : backup'[n] = "dump" => file'[n] # "whole"
  <2> SUFFICES ASSUME NEW n \in Name, backup'[n] = "dump" PROVE file'[n] # "whole"
    OBVIOUS
  <2>1. CASE n = k
    BY <1>0, <1>1, <2>1
  <2>2. CASE n # k
    <3>1. b[n] = "dump" /\ file'[n] = file[n]
      BY <1>0, <2>2
    <3>2. backup[n] = "dump"
      BY <3>1
    <3>. QED
      BY <3>1, <3>2 DEF BackupsInv, DumpsAreFew
  <2>. QED
    BY <2>1, <2>2
<1>10. ASSUME NEW n \in Name, NEW m \in Name, backup'[n] \in {"dump", "upload"}, m > n,
              file'[m] = "partial"
       PROVE  backup'[m] = "dump"
  <2>1. CASE m = k
    BY <1>0, <1>1, <2>1
  <2>2. CASE m # k
    <3>1. file[m] = "partial" /\ ~(m > k)
      BY <1>0, <1>2, <1>10, <2>2
    <3>2. n # k
      BY <1>10, <3>1
    <3>3. b[n] \in {"dump", "upload"} /\ b[n] = backup[n]
      BY <1>0, <1>10, <3>2
    <3>4. backup[m] = "dump"
      BY <1>10, <3>1, <3>3 DEF BackupsInv, DumpsAreFew
    <3>5. b[m] = "dump"
      BY <3>3, <3>4
    <3>. QED
      BY <1>0, <2>2, <3>5
  <2>. QED
    BY <2>1, <2>2
<1>11. DumpsAreFew'
  BY <1>8, <1>9, <1>10 DEF DumpsAreFew
<1>. QED
  BY <1>3, <1>4, <1>5, <1>6, <1>7, <1>11

\* The end of an upload prunes, and the newest whole file stays.
LEMMA UploadEndKeeps ==
  ASSUME BackupsInv, NEW n \in Name, UploadEnds(n)
  PROVE  BackupsInv'
<1>0. /\ file \in [Name -> {"absent", "partial", "whole"}]
      /\ backup \in [Name -> {"none", "dump", "upload", "over"}]
      /\ backup[n] = "upload" /\ backup' = [backup EXCEPT ![n] = "over"]
      /\ started' = started /\ failures' = 0 /\ secured' = TRUE
      /\ healthy' = "yes" /\ alert' \in {alert, "info"} /\ offsite' \in {offsite, "ok", "failed"}
  BY DEF BackupsInv, BackupsTypeOK, UploadEnds, Settled
<1>1. PICK v \in Name :
          /\ v >= n /\ file[v] = "whole"
          /\ \A w \in Name : file[w] = "whole" => w <= v
          /\ v \notin SelectBackupsToPrune(file)
  BY <1>0, PruningSparesNewest
<1>2. PICK gone \in SUBSET SelectBackupsToPrune(file) :
          file' = [m \in Name |-> IF m \in gone THEN "absent" ELSE file[m]]
  BY DEF UploadEnds, Pruned
<1>3. file'[v] = "whole"
  BY <1>1, <1>2
<1>4. \A m \in Name : file'[m] \in {"absent", file[m]}
  BY <1>2
<1>5. BackupsTypeOK'
  <2>1. file' \in [Name -> {"absent", "partial", "whole"}]
    BY <1>0, <1>2
  <2>2. backup' \in [Name -> {"none", "dump", "upload", "over"}]
    BY <1>0
  <2>3. started' \in 0..MaxBackup /\ failures' \in 0..MaxBackup
    BY <1>0, BackupNumbers DEF BackupsInv, BackupsTypeOK
  <2>4. healthy' \in {"unknown", "yes", "no"} /\ alert' \in {"none", "error", "info"}
        /\ offsite' \in {"none", "ok", "failed"} /\ secured' \in BOOLEAN
    BY <1>0 DEF BackupsInv, BackupsTypeOK
  <2>. QED
    BY <2>1, <2>2, <2>3, <2>4 DEF BackupsTypeOK
<1>6. Unstarted'
  BY <1>0, <1>4 DEF BackupsInv, Unstarted
<1>7. UploadsAreCovered'
  <2> SUFFICES ASSUME NEW k \in Name, backup'[k] = "upload"
               PROVE  \E w \in Name : w >= k /\ file'[w] = "whole"
    BY DEF UploadsAreCovered
  <2>1. backup[k] = "upload"
    BY <1>0
  <2>2. PICK w \in Name : w >= k /\ file[w] = "whole"
    BY <2>1 DEF BackupsInv, UploadsAreCovered
  <2>3. v >= k
    BY <1>1, <2>2, BackupNumbers
  <2>. QED
    BY <1>3, <2>3
<1>8. DumpsAreFew'
  <2>1. Dumping' = Dumping
    BY <1>0 DEF Dumping
  <2>2. \A m \in Name : backup'[m] = "dump" <=> backup[m] = "dump"
    BY <1>0
  <2>3. \A m \in Name : backup'[m] = "upload" => backup[m] = "upload"
    BY <1>0
  <2>4. \A m \in Name : file'[m] # "absent" => file'[m] = file[m]
    BY <1>4
  <2>5. Cardinality(Dumping') <= Dumps
    BY <2>1 DEF BackupsInv, DumpsAreFew
  <2>6. \A m \in Name : backup'[m] = "dump" => file'[m] # "whole"
    BY <2>2, <2>4 DEF BackupsInv, DumpsAreFew
  <2>7. \A k, m \in Name : backup'[k] \in {"dump", "upload"} /\ m > k /\ file'[m] = "partial"
           => backup'[m] = "dump"
    BY <2>2, <2>3, <2>4 DEF BackupsInv, DumpsAreFew
  <2>. QED
    BY <2>5, <2>6, <2>7 DEF DumpsAreFew
<1>9. FailuresAreOver'
  <2>1. Ended' \subseteq Name
    BY DEF Ended
  <2>. QED
    BY <1>0, <2>1, BackupsAreCountable DEF FailuresAreOver
<1>10. WholeBackupRemains'
  BY <1>3 DEF WholeBackupRemains
<1>. QED
  BY <1>5, <1>6, <1>7, <1>8, <1>9, <1>10 DEF BackupsInv

\* A dump fails: no whole file is lost, and one more backup is over.
LEMMA DumpFailureKeeps ==
  ASSUME BackupsInv, NEW n \in Name, DumpFails(n)
  PROVE  BackupsInv'
<1>0. /\ file \in [Name -> {"absent", "partial", "whole"}]
      /\ backup \in [Name -> {"none", "dump", "upload", "over"}]
      /\ backup[n] = "dump" /\ backup' = [backup EXCEPT ![n] = "over"]
      /\ started' = started /\ failures' = failures + 1 /\ secured' = (secured \/ FALSE)
      /\ healthy' = "no" /\ alert' \in {alert, "error"} /\ offsite' = offsite
  BY DEF BackupsInv, BackupsTypeOK, DumpFails, Settled
<1>1. PICK f \in {"absent", "whole"} : file' = [file EXCEPT ![n] = f]
  BY DEF DumpFails
<1>2. file[n] # "whole"
  BY <1>0 DEF BackupsInv, DumpsAreFew
<1>3. \A m \in Name : file[m] = "whole" => file'[m] = "whole"
  BY <1>0, <1>1, <1>2
<1>4. Cardinality(Ended') = Cardinality(Ended) + 1 /\ Cardinality(Ended) \in Nat
      /\ Cardinality(Ended') <= MaxBackup
  <2>1. Ended' = Ended \cup {n} /\ n \notin Ended /\ Ended \subseteq Name
        /\ Ended' \subseteq Name
    BY <1>0 DEF Ended
  <2>. QED
    BY <2>1, BackupsAreCountable, FS_AddElement
<1>5. failures \in Nat /\ failures' <= Cardinality(Ended') /\ failures' \in 0..MaxBackup
  BY <1>0, <1>4, BackupNumbers DEF BackupsInv, BackupsTypeOK, FailuresAreOver
<1>6. BackupsTypeOK'
  <2>1. file' \in [Name -> {"absent", "partial", "whole"}]
    BY <1>0, <1>1
  <2>2. backup' \in [Name -> {"none", "dump", "upload", "over"}]
    BY <1>0
  <2>3. healthy' \in {"unknown", "yes", "no"} /\ alert' \in {"none", "error", "info"}
        /\ offsite' \in {"none", "ok", "failed"} /\ secured' \in BOOLEAN
        /\ started' \in 0..MaxBackup
    BY <1>0 DEF BackupsInv, BackupsTypeOK
  <2>. QED
    BY <1>5, <2>1, <2>2, <2>3 DEF BackupsTypeOK
<1>7. Unstarted'
  BY <1>0, <1>1 DEF BackupsInv, Unstarted
<1>8. UploadsAreCovered'
  BY <1>0, <1>3 DEF BackupsInv, UploadsAreCovered
<1>9. DumpsAreFew'
  <2>1. file'[n] # "partial" /\ \A m \in Name : m # n => file'[m] = file[m]
    BY <1>0, <1>1
  <2>. QED
    BY <1>0, <2>1, DumpLeaves
<1>10. FailuresAreOver'
  BY <1>5 DEF FailuresAreOver
<1>11. WholeBackupRemains'
  BY <1>0, <1>3 DEF BackupsInv, WholeBackupRemains
<1>. QED
  BY <1>6, <1>7, <1>8, <1>9, <1>10, <1>11 DEF BackupsInv

\* A dump ends: its own file is whole while it uploads.
LEMMA DumpEndKeeps ==
  ASSUME BackupsInv, NEW n \in Name, DumpEnds(n)
  PROVE  BackupsInv'
<1>0. /\ file \in [Name -> {"absent", "partial", "whole"}]
      /\ backup \in [Name -> {"none", "dump", "upload", "over"}]
      /\ backup[n] = "dump" /\ backup' = [backup EXCEPT ![n] = "upload"]
      /\ file' = [file EXCEPT ![n] = "whole"]
      /\ UNCHANGED <<started, healthy, failures, alert, offsite, secured>>
  BY DEF BackupsInv, BackupsTypeOK, DumpEnds
<1>1. \A m \in Name : file[m] = "whole" => file'[m] = "whole"
  BY <1>0
<1>2. BackupsTypeOK'
  <2>1. file' \in [Name -> {"absent", "partial", "whole"}]
        /\ backup' \in [Name -> {"none", "dump", "upload", "over"}]
    BY <1>0
  <2>. QED
    BY <1>0, <2>1 DEF BackupsInv, BackupsTypeOK
<1>3. Unstarted'
  BY <1>0 DEF BackupsInv, Unstarted
<1>4. UploadsAreCovered'
  <2> SUFFICES ASSUME NEW k \in Name, backup'[k] = "upload"
               PROVE  \E w \in Name : w >= k /\ file'[w] = "whole"
    BY DEF UploadsAreCovered
  <2>1. CASE k = n
    BY <1>0, <2>1, BackupNumbers
  <2>2. CASE k # n
    BY <1>0, <1>1, <2>2 DEF BackupsInv, UploadsAreCovered
  <2>. QED
    BY <2>1, <2>2
<1>5. DumpsAreFew'
  <2>1. file'[n] # "partial" /\ \A m \in Name : m # n => file'[m] = file[m]
    BY <1>0
  <2>. QED
    BY <1>0, <2>1, DumpLeaves
<1>6. FailuresAreOver'
  <2>1. Ended' = Ended
    BY <1>0 DEF Ended
  <2>. QED
    BY <1>0, <2>1 DEF BackupsInv, FailuresAreOver
<1>7. WholeBackupRemains'
  BY <1>0, <1>1 DEF BackupsInv, WholeBackupRemains
<1>. QED
  BY <1>2, <1>3, <1>4, <1>5, <1>6, <1>7 DEF BackupsInv

\* Each step of the backups keeps the invariant.
LEMMA BackupsStep == BackupsInv /\ [BackupsNext]_backupVars => BackupsInv'
<1> SUFFICES ASSUME BackupsInv, [BackupsNext]_backupVars PROVE BackupsInv'
  OBVIOUS
<1>0. backup \in [Name -> {"none", "dump", "upload", "over"}]
  BY DEF BackupsInv, BackupsTypeOK
<1>1. CASE BackupTick
  <2>1. /\ Begin(backup, file)
        /\ Cardinality({n \in Name : backup[n] = "dump"}) < Dumps
        /\ UNCHANGED <<healthy, failures, alert, offsite, secured>>
    BY <1>1 DEF BackupTick
  <2>2. /\ started' \in 0..MaxBackup
        /\ file' \in [Name -> {"absent", "partial", "whole"}]
        /\ backup' \in [Name -> {"none", "dump", "upload", "over"}]
        /\ Unstarted' /\ UploadsAreCovered' /\ DumpsAreFew'
        /\ \A n \in Name : file[n] = "whole" => file'[n] = "whole"
    BY <1>0, <2>1, DumpBegins
  <2>3. BackupsTypeOK'
    BY <2>1, <2>2 DEF BackupsInv, BackupsTypeOK
  <2>4. Ended' = Ended
    <3>1. started + 1 \in Name => backup[started + 1] = "none"
      BY BackupNumbers DEF BackupsInv, BackupsTypeOK, Unstarted
    <3>2. backup' = [backup EXCEPT ![started + 1] = "dump"]
      BY <2>1 DEF Begin
    <3>. QED
      BY <1>0, <3>1, <3>2 DEF Ended
  <2>5. FailuresAreOver'
    BY <2>1, <2>4 DEF BackupsInv, FailuresAreOver
  <2>6. WholeBackupRemains'
    BY <2>1, <2>2 DEF BackupsInv, WholeBackupRemains
  <2>. QED
    BY <2>2, <2>3, <2>5, <2>6 DEF BackupsInv
<1>2. CASE Reboot
  <2> DEFINE b == [n \in Name |-> IF backup[n] = "none" THEN "none" ELSE "over"]
  <2>1. Begin(b, file) /\ healthy' = "unknown" /\ failures' = 0 /\ alert' = "none"
        /\ offsite' = "none" /\ secured' = secured
    BY <1>2 DEF Reboot
  <2>2. /\ b \in [Name -> {"none", "dump", "upload", "over"}]
        /\ \A n \in Name : b[n] \notin {"dump", "upload"}
        /\ \A n \in Name : backup[n] = "none" => b[n] = "none"
    OBVIOUS
  <2>3. Cardinality({n \in Name : b[n] = "dump"}) < Dumps
    <3>1. {n \in Name : b[n] = "dump"} = {}
      OBVIOUS
    <3> HIDE DEF b
    <3>. QED
      BY <3>1, FS_EmptySet, BackupNumbers
  <2> HIDE DEF b
  <2>4. /\ started' \in 0..MaxBackup
        /\ file' \in [Name -> {"absent", "partial", "whole"}]
        /\ backup' \in [Name -> {"none", "dump", "upload", "over"}]
        /\ Unstarted' /\ UploadsAreCovered' /\ DumpsAreFew'
        /\ \A n \in Name : file[n] = "whole" => file'[n] = "whole"
    BY <2>1, <2>2, <2>3, DumpBegins
  <2>5. BackupsTypeOK'
    BY <2>1, <2>4, BackupNumbers DEF BackupsInv, BackupsTypeOK
  <2>6. FailuresAreOver'
    <3>1. Ended' \subseteq Name
      BY DEF Ended
    <3>. QED
      BY <2>1, <3>1, BackupsAreCountable DEF FailuresAreOver
  <2>7. WholeBackupRemains'
    BY <2>1, <2>4 DEF BackupsInv, WholeBackupRemains
  <2>. QED
    BY <2>4, <2>5, <2>6, <2>7 DEF BackupsInv
<1>3. ASSUME NEW n \in Name, DumpFails(n) PROVE BackupsInv'
  BY <1>3, DumpFailureKeeps
<1>4. ASSUME NEW n \in Name, DumpEnds(n) PROVE BackupsInv'
  BY <1>4, DumpEndKeeps
<1>5. ASSUME NEW n \in Name, UploadEnds(n) PROVE BackupsInv'
  BY <1>5, UploadEndKeeps
<1>6. CASE UNCHANGED backupVars
  BY <1>6 DEF backupVars, BackupsInv, BackupsTypeOK, Unstarted, UploadsAreCovered, DumpsAreFew,
              Dumping, FailuresAreOver, Ended, WholeBackupRemains
<1>. QED
  BY <1>1, <1>2, <1>3, <1>4, <1>5, <1>6 DEF BackupsNext

\* Every variable of the backups keeps its type.
THEOREM BackupsAreTyped == BackupsSpec => []BackupsTypeOK
<1>1. BackupsInv => BackupsTypeOK
  BY DEF BackupsInv
<1>. QED
  BY <1>1, BackupsBegin, BackupsStep, PTL DEF BackupsSpec

\* Once a backup has succeeded there is a whole one on the volume, whatever
\* crashes, fails, overlaps or is pruned, as long as fewer dumps overlap than
\* files are kept (runBackup, pruneBackups).
THEOREM WholeBackupAlwaysRemains == BackupsSpec => []WholeBackupRemains
<1>1. BackupsInv => WholeBackupRemains
  BY DEF BackupsInv
<1>. QED
  BY <1>1, BackupsBegin, BackupsStep, PTL DEF BackupsSpec

===============================================================================
