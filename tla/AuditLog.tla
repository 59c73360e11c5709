------------------------------ MODULE AuditLog ------------------------------
(***************************************************************************)
(* The audit log, platform_events.  Whatever happens in the domain is      *)
(* emitted on the event bus and written down by one subscriber             *)
(* (lib/events); a row refers to the user and the project that the payload *)
(* names, by foreign keys, and outlives both: deleting a project or an     *)
(* account detaches the rows, and makes those of a deleted user anonymous. *)
(* Background work (the pipeline, deep QC) emits long after the request it *)
(* began with, when the project or the account may be gone.                *)
(*                                                                         *)
(* An emitted event is persisted in the turn that emits it.  A row the     *)
(* foreign keys do not admit is logged as lost and nobody fails; that the  *)
(* database fails otherwise is left out.                                   *)
(***************************************************************************)
EXTENDS Naturals, FiniteSets

CONSTANTS
    Person,
    Creation,
    OwnedBy,  \* OwnedBy[p]: who creates p
    NoId,
    Keep,     \* eventDays
    MaxDay    \* bound on the clock

ASSUME AuditAssumption ==
    /\ OwnedBy \in [Creation -> Person]
    /\ NoId \notin Person \cup Creation
    /\ Keep \in Nat \ {0} /\ MaxDay \in Nat

VARIABLES
    member,   \* member[u]: "never", "in" or "gone"
    project,  \* project[p]: "never", "in" or "gone"
    log,      \* the rows
    day,
    left      \* history: left[u]: the day u's account was deleted

auditVars == <<member, project, log, day, left>>

(* A row: what happened, the two columns, and what of the payload is about *)
(* a person: whose userId it has, whose slug, which account it says was    *)
(* deleted.                                                                *)
Row == [type : {"USER_SIGNED_UP", "PROJECT_CREATED", "PROJECT_PUBLISHED", "PROJECT_UNPUBLISHED",
                "CODE_GENERATED", "PROJECT_DELETED", "USER_DELETED", "CATALOG_API_DEACTIVATED"},
        user_id : Person \cup {NoId}, project_id : Creation \cup {NoId},
        userId : Person \cup {NoId}, slug : Person \cup {NoId}, deleted : Person \cup {NoId},
        at : 0..MaxDay]

(* Every variable has its type. *)
AuditTypeOK ==
    /\ member \in [Person -> {"never", "in", "gone"}]
    /\ project \in [Creation -> {"never", "in", "gone"}]
    /\ log \subseteq Row
    /\ day \in 0..MaxDay
    /\ left \in [Person -> 0..MaxDay]

AuditInit ==
    /\ member = [u \in Person |-> "never"]
    /\ project = [p \in Creation |-> "never"]
    /\ log = {}
    /\ day = 0
    /\ left = [u \in Person |-> 0]

-----------------------------------------------------------------------------
(* The payloads.                                                           *)
Blank(type) == [type |-> type, user_id |-> NoId, project_id |-> NoId, userId |-> NoId,
                slug |-> NoId, deleted |-> NoId, at |-> day]
ByUser(type, u) == [Blank(type) EXCEPT !.user_id = u, !.userId = u]
InProject(type, p) == [Blank(type) EXCEPT !.project_id = p]
OfProject(type, p) == [ByUser(type, OwnedBy[p]) EXCEPT !.project_id = p]

Published(p) == [OfProject("PROJECT_PUBLISHED", p) EXCEPT !.slug = OwnedBy[p]]

UserDeleted(u) == [Blank("USER_DELETED") EXCEPT !.deleted = u]

(* persist: the rows and the new one, if its columns refer to rows that    *)
(* exist once the tables are ms and ps.                                    *)
Persisted(rows, r, ms, ps) ==
    IF /\ r.user_id = NoId \/ ms[r.user_id] = "in"
       /\ r.project_id = NoId \/ ps[r.project_id] = "in"
    THEN rows \cup {r} ELSE rows

Emit(r) == log' = Persisted(log, r, member', project')

-----------------------------------------------------------------------------
(* What happens in the domain.                                             *)
Join(u) ==
    /\ member[u] = "never"
    /\ member' = [member EXCEPT ![u] = "in"]
    /\ UNCHANGED <<project, day, left>>
    /\ Emit(ByUser("USER_SIGNED_UP", u))

CreateProject(p) ==
    /\ project[p] = "never" /\ member[OwnedBy[p]] = "in"
    /\ project' = [project EXCEPT ![p] = "in"]
    /\ UNCHANGED <<member, day, left>>
    /\ Emit(OfProject("PROJECT_CREATED", p))

PublishProject(p) ==
    /\ project[p] = "in"
    /\ UNCHANGED <<member, project, day, left>>
    /\ Emit(Published(p)) \/ Emit(OfProject("PROJECT_UNPUBLISHED", p))

(* Generation, quality control, rollback: by the project's id alone, and   *)
(* late, if it is work in the background.                                  *)
WorkReports(p) ==
    /\ project[p] # "never"
    /\ UNCHANGED <<member, project, day, left>>
    /\ Emit(InProject("CODE_GENERATED", p))

(* An operator's actions refer to nobody. *)
OperatorActs ==
    /\ UNCHANGED <<member, project, day, left>>
    /\ Emit(Blank("CATALOG_API_DEACTIVATED"))

-----------------------------------------------------------------------------
(* Deletions.                                                              *)
Detached(rows, ps) ==
    {IF r.project_id \in ps THEN [r EXCEPT !.project_id = NoId] ELSE r : r \in rows}

DeleteProject(p) ==
    /\ project[p] = "in"
    /\ project' = [project EXCEPT ![p] = "gone"]
    /\ UNCHANGED <<member, day, left>>
    /\ log' = Persisted(Detached(log, {p}), Blank("PROJECT_DELETED"), member', project')

(* scrubEventPayload: the user's id is overwritten, a slug left out. *)
Scrub(r, u) ==
    [r EXCEPT !.userId = IF @ = u THEN NoId ELSE @, !.slug = NoId]

(* The transaction of an account's deletion: the rows of its projects are  *)
(* detached, its own made anonymous, then the rest of the account goes.    *)
CascadeDelete_ByProjects(rows, u, ps) ==
    {IF r.user_id = u /\ r.project_id \in ps
     THEN [Scrub(r, u) EXCEPT !.user_id = NoId, !.project_id = NoId]
     ELSE IF r.user_id = u THEN [r EXCEPT !.user_id = NoId] ELSE r : r \in rows}
CascadeDelete(rows, u, ps) ==
    {IF r.user_id = u THEN [Scrub(r, u) EXCEPT !.user_id = NoId] ELSE r : r \in Detached(rows, ps)}

(* DELETE /auth/account: the event is emitted once the transaction is over.*)
DeletePerson(u) ==
    LET theirs == {p \in Creation : OwnedBy[p] = u /\ project[p] = "in"}
    IN  /\ member[u] = "in"
        /\ member' = [member EXCEPT ![u] = "gone"]
        /\ project' = [p \in Creation |-> IF p \in theirs THEN "gone" ELSE project[p]]
        /\ left' = [left EXCEPT ![u] = day]
        /\ log' = Persisted(CascadeDelete(log, u, theirs), UserDeleted(u), member', project')
        /\ day' = day

(* The retention job: rows older than eventDays go.  It runs once a day.   *)
NextDay ==
    /\ day < MaxDay
    /\ day' = day + 1
    /\ log' = {r \in log : r.at + Keep >= day + 1}
    /\ UNCHANGED <<member, project, left>>

AuditNext ==
    \/ \E u \in Person : Join(u) \/ DeletePerson(u)
    \/ \E p \in Creation : \/ CreateProject(p) \/ PublishProject(p)
                           \/ WorkReports(p) \/ DeleteProject(p)
    \/ OperatorActs \/ NextDay

AuditSpec == AuditInit /\ [][AuditNext]_auditVars

-----------------------------------------------------------------------------
(* Once an account is gone no row of the log names its user, by id or by   *)
(* an address the user chose, whenever it was written and whatever became  *)
(* of its project, and no work in the background brings a name back; and   *)
(* the deletion itself is on record as long as records are kept.           *)
DeletedUsersAreForgotten ==
    \A u \in Person : member[u] = "gone" =>
        /\ \A r \in log : u \notin {r.user_id, r.userId, r.slug}
        /\ day <= left[u] + Keep => \E r \in log : r.deleted = u
=============================================================================
