------------------------------- MODULE Catalog -------------------------------
(***************************************************************************)
(* The catalog of external APIs: which are active, and what is known of    *)
(* their health.  The process puts the bundled catalog in at boot          *)
(* (db/sqlite/seedCatalog.ts, ensureCatalog.ts), an administrator has the  *)
(* active ones probed (catalog/verifyRunner.ts, healthCheck.ts), activates *)
(* those whose platform key works (catalog/keyCheck.ts, the activate       *)
(* route) and deactivates others.  Probes take seconds each, so the        *)
(* requests overlap; the database is written between two of them.          *)
(***************************************************************************)
EXTENDS Naturals, FiniteSets

CONSTANTS
    Api,
    Keyed,         \* APIs that need a platform key: api_key, env_var, no default_key
    NoAuth,        \* those with authType 'none'; the others that are not Keyed have a default
                   \* key, or a login of the user's
    Prefixed,      \* those whose key is sent in a header with a prefix
    Corrected,     \* CORRECTIONS
    Patched,       \* STRUCTURAL_PATCH_IDS
    SeedActive,    \* is_active in the bundled catalog
    GetEndpoints,  \* GetEndpoints[a]: how many GET endpoints a has
    Response,      \* what an API may answer to a probe
    Activation,    \* activation requests that can be under way at once
    Verification,  \* verification requests that can be under way at once
    Samples,       \* how many VALID probes in a row activate: 3
    Concurrency,   \* APIs a verification probes at once: 6
    NoApi

ASSUME CatalogAssumption ==
    /\ Keyed \cup NoAuth \cup Corrected \cup Patched \cup SeedActive \subseteq Api
    /\ Prefixed \subseteq Keyed /\ NoAuth \cap Keyed = {}
    /\ GetEndpoints \in [Api -> Nat]
    /\ \A r \in Response : r.code \in {"2xx", "denied", "429", "4xx", "5xx"}
    /\ Samples \in Nat \ {0} /\ Concurrency \in Nat \ {0}
    /\ NoApi \notin Api

VARIABLES
    entry,        \* entry[a]: the row of a in api_catalog
    bundled,      \* bundled[a]: a in the deployed apiCatalog.json
    activation,   \* activation[x]: the state of an activation request
    verification, \* verification[v]: the state of a verification request
    off,          \* history: APIs switched off with no activation of them under way or asked since
    evidence      \* history: evidence[a]: what was seen by the one who wrote a's status last

catalogVars == <<entry, bundled, activation, verification, off, evidence>>

-----------------------------------------------------------------------------
(* healthCheck.ts.  A response is                                          *)
(*   [net, code, json, xml, deprecated, flag, slow]                        *)
(* where json and xml are what the data.go.kr envelopes in it say (shapes  *)
(* A, A' and B, in this order): "err", "ok" or "none"; flag says that the  *)
(* JSON carries one of the usual marks of an error.                        *)
Health == {"working", "degraded", "broken", "key_gated", "unknown"}

FirstOf(shapes) ==
    IF \E i \in 1..3 : shapes[i] # "none"
    THEN shapes[CHOOSE i \in 1..3 : shapes[i] # "none" /\ \A j \in 1..(i - 1) : shapes[j] = "none"]
    ELSE "none"

Envelope(r) == IF FirstOf(r.json) # "none" THEN FirstOf(r.json) ELSE FirstOf(r.xml)

LooksLikeErrorBody(r) ==
    \/ r.deprecated
    \/ Envelope(r) = "err"
    \/ Envelope(r) = "none" /\ r.flag

ClassifyResponse(a, r) ==
    IF ~r.net THEN "broken"
    ELSE CASE r.code = "denied" -> IF a \in NoAuth THEN "broken" ELSE "key_gated"
           [] r.code = "429" -> "degraded"
           [] r.code = "5xx" -> "broken"
           [] r.code = "4xx" -> "unknown"
           [] r.code = "2xx" -> IF LooksLikeErrorBody(r) THEN "broken"
                                ELSE IF r.slow THEN "degraded" ELSE "working"

Rank == [broken |-> 5, degraded |-> 4, working |-> 3, key_gated |-> 2, unknown |-> 1]

SummarizeApi(seen) ==
    IF seen = {} THEN "unknown" ELSE CHOOSE h \in seen : \A o \in seen : Rank[o] <= Rank[h]

VerificationStatus == {"unverified", "verified", "broken"}

(* The status a health is written down as, {} when it is not. *)
ToVerificationStatus(health) ==
    CASE health \in {"working", "degraded"} -> {"verified"}
      [] health = "broken" -> {"broken"}
      [] OTHER -> {}

(* keyCheck.ts: the verdict of one probe, and of a probe of the raw key    *)
(* followed, when it is refused, by one of the key with its prefix.        *)
ClassifyKeyResponse(r) ==
    IF ~r.net THEN "ERROR"
    ELSE CASE r.code = "denied" -> "INVALID"
           [] r.code = "429" -> "RATE_LIMITED"
           [] r.code = "2xx" -> IF LooksLikeErrorBody(r) THEN "INVALID" ELSE "VALID"
           [] OTHER -> "ERROR"

VerifyApiKey(a, raw, prefixed) ==
    IF /\ ClassifyKeyResponse(raw) = "INVALID" /\ a \in Prefixed
       /\ ClassifyKeyResponse(prefixed) \in {"VALID", "RATE_LIMITED"}
    THEN ClassifyKeyResponse(prefixed) ELSE ClassifyKeyResponse(raw)

(* What a probe of each API can come to; MISSING stands for the verdicts   *)
(* without a probe (no key, no endpoint).                                  *)
KeyVerdicts == [a \in Keyed |->
    {VerifyApiKey(a, raw, prefixed) : raw, prefixed \in Response} \cup {"MISSING"}]
Healths == [a \in Api |-> {ClassifyResponse(a, r) : r \in Response}]

-----------------------------------------------------------------------------
Absent == [present |-> FALSE, active |-> FALSE, status |-> "unverified", deprecated |-> FALSE]
NoActivation == [todo |-> {}, api |-> NoApi, ok |-> 0, dry |-> FALSE, row |-> 0]
NoVerification == [waiting |-> {}, lost |-> 0, prev |-> [a \in Api |-> "unverified"],
                   probed |-> [a \in Api |-> [left |-> 0, seen |-> {}]]]

(* Every variable has its type. *)
CatalogTypeOK ==
    /\ entry \in [Api -> [present : BOOLEAN, active : BOOLEAN, status : VerificationStatus,
                           deprecated : BOOLEAN]]
    /\ bundled \in [Api -> [present : BOOLEAN, deprecated : BOOLEAN]]
    /\ \A x \in Activation :
          /\ activation[x].todo \subseteq Keyed /\ activation[x].api \in Keyed \cup {NoApi}
          /\ activation[x].ok \in 0..Samples /\ activation[x].row \in 0..Samples
    /\ \A v \in Verification :
          /\ verification[v].waiting \subseteq Api /\ verification[v].lost \in Nat
          /\ verification[v].prev \in [Api -> VerificationStatus]
          /\ verification[v].probed \in [Api -> [left : Nat, seen : SUBSET Health]]
    /\ off \subseteq Api
    /\ evidence \in [Api -> [by : {"none", "seed", "verification", "activation", "correction"},
                             seen : SUBSET Health, row : 0..Samples]]

Unseen == [by |-> "none", seen |-> {}, row |-> 0]

CatalogInit ==
    /\ entry = [a \in Api |-> Absent]
    /\ bundled = [a \in Api |-> [present |-> FALSE, deprecated |-> FALSE]]
    /\ activation = [x \in Activation |-> NoActivation]
    /\ verification = [v \in Verification |-> NoVerification]
    /\ off = {}
    /\ evidence = [a \in Api |-> Unseen]

-----------------------------------------------------------------------------
(* Boot of a deployment: rows that are missing are inserted, the corrected *)
(* APIs are switched on, the patched ones take their structure, here       *)
(* whether they are deprecated, from the bundle.  An operator's switch and *)
(* a status found by probes are not touched otherwise.                     *)
Inserted(a, b) ==
    IF entry[a].present \/ ~b[a].present THEN entry[a]
    ELSE [present |-> TRUE, active |-> a \in SeedActive, status |-> "unverified",
          deprecated |-> b[a].deprecated]

Correct(a, e) == IF a \in Corrected /\ e.present
                 THEN [e EXCEPT !.active = TRUE, !.status = "verified"]
                 ELSE e

ApplyStructuralPatch_Whole(a, e, b) ==
    IF a \in Patched /\ e.present /\ b[a].present /\ e.deprecated # b[a].deprecated
    THEN [e EXCEPT !.deprecated = b[a].deprecated, !.active = a \in SeedActive] ELSE e
ApplyStructuralPatch(a, e, b) ==
    IF a \in Patched /\ e.present /\ b[a].present
    THEN [e EXCEPT !.deprecated = b[a].deprecated] ELSE e

(* The bundle of a new deployment; the requests under way end.             *)
Boot(b) ==
    /\ bundled' = b
    /\ entry' = [a \in Api |-> ApplyStructuralPatch(a, Correct(a, Inserted(a, b)), b)]
    /\ activation' = [x \in Activation |-> NoActivation]
    /\ verification' = [v \in Verification |-> NoVerification]
    /\ off' = off \ Corrected
    /\ evidence' = [a \in Api |->
          IF a \in Corrected /\ entry'[a].present /\ entry'[a] # entry[a]
          THEN [Unseen EXCEPT !.by = "correction"]
          ELSE IF ~entry[a].present /\ entry'[a].present THEN [Unseen EXCEPT !.by = "seed"]
          ELSE evidence[a]]

-----------------------------------------------------------------------------
(* POST /admin/catalog/activate.                                           *)
Activating(a) == \E x \in Activation : a \in activation[x].todo \cup {activation[x].api}

(* The inactive APIs with a platform key, or those of them that are named. *)
StartActivation(x, wanted, dry) ==
    LET targets == {a \in Keyed \cap wanted : entry[a].present /\ ~entry[a].active}
    IN  /\ activation[x] = NoActivation
        /\ targets # {}
        /\ \E first \in targets :
             activation' = [activation EXCEPT ![x] =
                 [NoActivation EXCEPT !.todo = targets \ {first}, !.api = first, !.dry = dry]]
        /\ off' = off \ targets
        /\ UNCHANGED <<entry, bundled, verification, evidence>>

(* The request goes on to the next API, or ends. *)
NextTarget(x) ==
    LET me == activation[x]
    IN  IF me.todo = {} THEN activation' = [activation EXCEPT ![x] = NoActivation]
        ELSE \E a \in me.todo :
               activation' = [activation EXCEPT ![x] =
                   [me EXCEPT !.todo = @ \ {a}, !.api = a, !.ok = 0, !.row = 0]]

(* One probe of the key: the Samples-th VALID one in a row activates, any  *)
(* other verdict ends the API's turn.  MISSING and NO_ENDPOINT come        *)
(* without a probe.                                                        *)
ProbeKey_GoesOn(x) ==
    LET me == activation[x]
        a  == me.api
    IN  /\ a # NoApi
        /\ \E verdict \in KeyVerdicts[a] :
             LET row == IF verdict = "VALID" THEN me.row + 1 ELSE 0
             IN  IF me.ok + 1 = Samples /\ verdict # "INVALID"
                 THEN /\ entry' = IF me.dry THEN entry
                                  ELSE [entry EXCEPT ![a].active = TRUE, ![a].status = "verified"]
                      /\ evidence' = IF me.dry THEN evidence
                                     ELSE [evidence EXCEPT ![a] =
                                             [by |-> "activation", seen |-> {}, row |-> row]]
                      /\ NextTarget(x)
                 ELSE /\ activation' = [activation EXCEPT ![x].ok = me.ok + 1, ![x].row = row]
                      /\ UNCHANGED <<entry, evidence>>
        /\ UNCHANGED <<bundled, verification, off>>
ProbeKey(x) ==
    LET me == activation[x]
        a  == me.api
    IN  /\ a # NoApi
        /\ \E verdict \in KeyVerdicts[a] :
             LET row == IF verdict = "VALID" THEN me.row + 1 ELSE 0
             IN  IF verdict # "VALID" THEN NextTarget(x) /\ UNCHANGED <<entry, evidence>>
                 ELSE IF me.ok + 1 < Samples
                 THEN /\ activation' = [activation EXCEPT ![x].ok = me.ok + 1, ![x].row = row]
                      /\ UNCHANGED <<entry, evidence>>
                 ELSE /\ entry' = IF me.dry THEN entry
                                  ELSE [entry EXCEPT ![a].active = TRUE, ![a].status = "verified"]
                      /\ evidence' = IF me.dry THEN evidence
                                     ELSE [evidence EXCEPT ![a] =
                                             [by |-> "activation", seen |-> {}, row |-> row]]
                      /\ NextTarget(x)
        /\ UNCHANGED <<bundled, verification, off>>

(* A probe's address cannot be built, or the row cannot be written: the    *)
(* request ends with an error, and what it activated before stays.         *)
ActivationThrows(x) ==
    /\ activation[x].api # NoApi
    /\ activation' = [activation EXCEPT ![x] = NoActivation]
    /\ UNCHANGED <<entry, bundled, verification, off, evidence>>

(* POST /admin/catalog/deactivate: active ones only, the status is kept.   *)
Deactivate(a) ==
    /\ entry[a].present
    /\ entry' = [entry EXCEPT ![a].active = FALSE]
    /\ off' = IF Activating(a) THEN off ELSE off \cup {a}
    /\ UNCHANGED <<bundled, activation, verification, evidence>>

-----------------------------------------------------------------------------
(* POST /admin/verify-catalog.                                             *)
NotVerifying(v) == verification[v] = NoVerification
Probing(v) == {a \in Api : verification[v].probed[a].left > 0}

(* The active APIs and their status are read once, at the start.           *)
StartVerification(v) ==
    /\ NotVerifying(v)
    /\ verification' = [verification EXCEPT
          ![v].waiting = {a \in Api : entry[a].present /\ entry[a].active},
          ![v].prev = [a \in Api |-> entry[a].status]]
    /\ UNCHANGED <<entry, bundled, activation, off, evidence>>

(* A worker takes the next API; one without a GET endpoint is skipped.     *)
TakeApi(v, a) ==
    /\ a \in verification[v].waiting
    /\ Cardinality(Probing(v)) + verification[v].lost < Concurrency
    /\ verification' =
         [verification EXCEPT ![v].waiting = @ \ {a},
                              ![v].probed[a] = [left |-> GetEndpoints[a], seen |-> {}]]
    /\ UNCHANGED <<entry, bundled, activation, off, evidence>>

(* An endpoint answers.  After the last one the summary is written, if it  *)
(* says anything and differs from the status read at the start.            *)
ProbeEndpoint(v, a) ==
    LET mine == verification[v].probed[a]
    IN  /\ mine.left > 0
        /\ \E health \in Healths[a] :
             LET seen == mine.seen \cup {health}
                 next == ToVerificationStatus(SummarizeApi(seen))
                 writes == mine.left = 1 /\ next \ {verification[v].prev[a]} # {}
             IN  /\ verification' = [verification EXCEPT ![v].probed[a] =
                       IF mine.left = 1 THEN [left |-> 0, seen |-> {}]
                       ELSE [left |-> mine.left - 1, seen |-> seen]]
                 /\ entry' = IF writes THEN [entry EXCEPT ![a].status = CHOOSE s \in next : TRUE]
                             ELSE entry
                 /\ evidence' = IF writes
                                THEN [evidence EXCEPT ![a] =
                                        [by |-> "verification", seen |-> seen, row |-> 0]]
                                ELSE evidence
        /\ UNCHANGED <<bundled, activation, off>>

(* An address cannot be built or the status cannot be written: the request *)
(* ends with an error and one worker with it, the others go on.            *)
WorkerThrows(v, a) ==
    /\ a \in Probing(v)
    /\ verification' =
         [verification EXCEPT ![v].lost = @ + 1,
                              ![v].probed[a] = [left |-> 0, seen |-> {}]]
    /\ UNCHANGED <<entry, bundled, activation, off, evidence>>

EndVerification(v) ==
    /\ ~NotVerifying(v) /\ Probing(v) = {}
    /\ verification[v].waiting = {} \/ verification[v].lost = Concurrency
    /\ verification' = [verification EXCEPT ![v] = NoVerification]
    /\ UNCHANGED <<entry, bundled, activation, off, evidence>>

CatalogNext ==
    \/ \E deprecated \in SUBSET Patched :
           Boot([a \in Api |-> [present |-> TRUE, deprecated |-> a \in deprecated]])
    \/ \E x \in Activation, wanted \in SUBSET Api, dry \in BOOLEAN : StartActivation(x, wanted, dry)
    \/ \E x \in Activation : ProbeKey(x) \/ ActivationThrows(x)
    \/ \E a \in Api : Deactivate(a)
    \/ \E v \in Verification : StartVerification(v) \/ EndVerification(v)
    \/ \E v \in Verification, a \in Api : TakeApi(v, a) \/ ProbeEndpoint(v, a) \/ WorkerThrows(v, a)

CatalogSpec == CatalogInit /\ [][CatalogNext]_catalogVars

-----------------------------------------------------------------------------
(* What an operator has switched off stays off through deployments,        *)
(* verifications and activations of other APIs, until its activation is    *)
(* asked for again; only the APIs the boot corrects come back by           *)
(* themselves.  (An activation that was already under way when the API was *)
(* switched off may still switch it on.)                                   *)
OffStaysOff == \A a \in off : ~entry[a].active

(* A status says what somebody saw: "broken" a broken endpoint, "verified" *)
(* a working one and no broken one, or Samples valid answers in a row to   *)
(* the platform key, however many requests probe and write at once.        *)
StatusHasEvidence ==
    \A a \in Api :
        /\ evidence[a].by = "verification" =>
              CASE entry[a].status = "broken" -> "broken" \in evidence[a].seen
                [] entry[a].status = "verified" ->
                       /\ "broken" \notin evidence[a].seen
                       /\ evidence[a].seen \cap {"working", "degraded"} # {}
                [] OTHER -> FALSE
        /\ evidence[a].by = "activation" =>
             entry[a].status = "verified" /\ evidence[a].row = Samples
=============================================================================
