-------------------------------- MODULE Proxy --------------------------------
(***************************************************************************)
(* The API proxy (app/api/v1/proxy/route.ts): a generated page calls an    *)
(* external API through it, on a published site without a session or in    *)
(* the builder with one.  A request is authorised, counted against its     *)
(* limits and looks the API up in one turn of the event loop; it then      *)
(* waits for DNS, resolves the key and looks in the response cache in a    *)
(* second turn; it then waits for the external API and stores the answer.  *)
(* Between these turns projects are unpublished, keys are replaced, the    *)
(* API is deactivated and accounts are deleted.                            *)
(*                                                                         *)
(* One API and one set of parameters stand for all: responses of different *)
(* APIs and parameters never share a cache entry, those of different keys  *)
(* are what the properties are about.                                      *)
(***************************************************************************)
EXTENDS RateBuckets

CONSTANTS
    Request,       \* the requests that can be in flight at once
    Visitor,       \* client addresses of anonymous visitors
    User,
    Site,
    SiteOwner,     \* SiteOwner[p]: the user a project belongs to
    Nobody,
    Platform,      \* whether the API names a platform key (env_var) that is set
    IpLimit,       \* SITE_PROXY_RATE_LIMIT_PER_MIN
    ProjectLimit,  \* SITE_PROXY_PROJECT_LIMIT_PER_MIN
    UserLimit,     \* RATE_LIMIT_PER_MIN
    MaxBuckets,    \* MAX_SITE_RATE_LIMIT_BUCKETS, MAX_CONCURRENT_RATE_LIMIT_USERS
    Window,        \* RATE_LIMIT_WINDOW_MS
    Ttl,           \* cacheTtlSeconds of the API
    MaxEntries,    \* PROXY_CACHE_MAX_ENTRIES
    MaxKey,        \* bound on the keys a user registers
    MaxNow         \* bound on the clock

ASSUME ProxyAssumption ==
    /\ SiteOwner \in [Site -> User]
    /\ Platform \in BOOLEAN
    /\ {IpLimit, ProjectLimit, UserLimit, MaxBuckets, Window, Ttl, MaxEntries}
         \subseteq Nat \ {0}
    /\ {MaxKey, MaxNow} \subseteq Nat
    /\ Nobody \notin User \cup Site

VARIABLES
    published,     \* projects whose status is 'published'
    existing,      \* projects that have a row
    linked,        \* projects the API is linked to in project_apis
    active,        \* isActive of the API
    userKey,       \* userKey[u]: [n |-> keys registered so far, held |-> one is stored]
    cache,         \* proxyCache: entries [key, val, expiresAt], the least recently used first
    ipBuckets, projectBuckets, userBuckets,
    request,       \* request[r]: the state of a request's handler
    clock,
    reply,         \* history: the response the last step gave, None when it gave none
    admitted       \* history: admitted[p], when the site limiter let a request through lately

database == <<published, existing, linked, active, userKey>>
siteBuckets == <<ipBuckets, projectBuckets>>
proxyVars == <<database, cache, siteBuckets, userBuckets, request, clock, reply, admitted>>

-----------------------------------------------------------------------------
(* The identity under which a response is cached: the fingerprint of the   *)
(* injected key, or NO_KEY_IDENTITY.                                       *)
NoKey == <<"none", 0>>
Fallback == IF Platform THEN <<"platform", 0>> ELSE NoKey
Identity == {NoKey, Fallback} \cup (User \X (1..MaxKey))

(* The keys a request on behalf of u may be sent with: the stored one, or  *)
(* the platform's when there is none, or when reading or decrypting it     *)
(* fails.                                                                  *)
Usable(u) ==
    {Fallback} \cup (IF u # Nobody /\ userKey[u].held THEN {<<u, userKey[u].n>>} ELSE {})

Value == [ident : Identity, born : 0..MaxNow]
Entry == [key : Identity, val : Value, expiresAt : Nat]

(* "seen" is history: the identities usable for the request since it was   *)
(* admitted, until it takes one.                                           *)
NoRequest == [pc |-> "idle", owner |-> Nobody, ident |-> NoKey, seen |-> {}]

Handler == [pc : {"idle", "dns", "fetch"}, owner : User \cup {Nobody}, ident : Identity,
            seen : SUBSET Identity]

Given == [ident : Identity, born : 0..MaxNow, seen : SUBSET Identity]

Bucket == [count : Nat \ {0}, resetAt : Nat]
IsBuckets(m, K) == DOMAIN m \subseteq K /\ m \in [DOMAIN m -> Bucket]

(* Every variable has its type. *)
ProxyTypeOK ==
    /\ published \subseteq existing
    /\ existing \subseteq Site
    /\ linked \subseteq Site
    /\ active \in BOOLEAN
    /\ userKey \in [User -> [n : 0..MaxKey, held : BOOLEAN]]
    /\ cache \in Seq(Entry)
    /\ IsBuckets(ipBuckets, Visitor \X Site)
    /\ IsBuckets(projectBuckets, Site)
    /\ IsBuckets(userBuckets, User)
    /\ request \in [Request -> Handler]
    /\ clock \in 0..MaxNow
    /\ reply \in Given \cup {Nobody}
    /\ admitted \in [Site -> Seq(0..MaxNow)]

ProxyInit ==
    /\ published = Site
    /\ existing = Site
    /\ \E p \in Site : linked \in {Site, Site \ {p}}
    /\ active = TRUE
    /\ userKey = [u \in User |-> [n |-> 0, held |-> FALSE]]
    /\ cache = <<>>
    /\ ipBuckets = NoBuckets /\ projectBuckets = NoBuckets /\ userBuckets = NoBuckets
    /\ request = [r \in Request |-> NoRequest]
    /\ clock = 0
    /\ reply = Nobody
    /\ admitted = [p \in Site |-> <<>>]

-----------------------------------------------------------------------------
(* The response cache: an LRU map, with one entry for a key.               *)
At(c, k) == {i \in DOMAIN c : c[i].key = k}
Removed(c, i) == SubSeq(c, 1, i - 1) \o SubSeq(c, i + 1, Len(c))
Without(c, k) == IF At(c, k) = {} THEN c ELSE Removed(c, CHOOSE i \in At(c, k) : TRUE)

Trimmed(c) == IF Len(c) > MaxEntries THEN Tail(c) ELSE c

(* ProxyCache.get: an entry that is not past its time, moved to the end;   *)
(* one that is past it is deleted.                                         *)
Hits(k) == {i \in At(cache, k) : clock <= cache[i].expiresAt}
Touched(k) ==
    IF Hits(k) = {} THEN Without(cache, k)
    ELSE Append(Without(cache, k), cache[CHOOSE i \in Hits(k) : TRUE])

(* ProxyCache.set: the new entry last, the oldest one dropped. *)
Stored(k, v) ==
    Trimmed(Append(Without(cache, k), [key |-> k, val |-> v, expiresAt |-> clock + Ttl]))

(* buildCacheKey: of what the request is made of, only the identity varies. *)
CacheKey_NoIdentity(id) == NoKey
CacheKey(id) == id

-----------------------------------------------------------------------------
(* Authorisation and limits.                                               *)

(* A request is answered without data: 401, 403, 404, 429, 502.            *)
Decline(r) == request' = [request EXCEPT ![r] = NoRequest]

(* The handler goes on to the DNS lookup, or, the API being inactive or    *)
(* the catalog failing, answers 404 or 502 with the limits already used.   *)
LookUpApi(r, owner) ==
    \/ /\ active
       /\ request' = [request EXCEPT ![r] =
                         [NoRequest EXCEPT !.pc = "dns", !.owner = owner, !.seen = Usable(owner)]]
    \/ Decline(r)

(* An anonymous request for a published site that the API is linked to:    *)
(* the address's bucket is consumed first, the project's after it.         *)
SiteAdmits_IpOnly(v, p) == Allows(ipBuckets, <<v, p>>, IpLimit, MaxBuckets, clock)
SiteAdmits(v, p) ==
    /\ Allows(ipBuckets, <<v, p>>, IpLimit, MaxBuckets, clock)
    /\ Allows(projectBuckets, p, ProjectLimit, MaxBuckets, clock)

SiteCharges(v, p) ==
    /\ ipBuckets' = Consumed(ipBuckets, <<v, p>>, IpLimit, MaxBuckets, Window, clock)
    /\ projectBuckets' =
         IF Allows(ipBuckets, <<v, p>>, IpLimit, MaxBuckets, clock)
         THEN Consumed(projectBuckets, p, ProjectLimit, MaxBuckets, Window, clock)
         ELSE projectBuckets

SiteRequest(r, v, p) ==
    /\ request[r].pc = "idle"
    /\ IF p \in published /\ p \in linked
       THEN /\ SiteCharges(v, p)
            /\ IF SiteAdmits(v, p)
               THEN /\ admitted' = [admitted EXCEPT ![p] = Append(@, clock)]
                    /\ LookUpApi(r, SiteOwner[p])
               ELSE admitted' = admitted /\ Decline(r)
       ELSE Decline(r) /\ UNCHANGED <<siteBuckets, admitted>>
    /\ reply' = Nobody
    /\ UNCHANGED <<database, cache, userBuckets, clock>>

(* A request with a session, for a project of the user's or for none.      *)
AppAllowed(u, p) == p = Nobody \/ (p \in existing /\ SiteOwner[p] = u /\ p \in linked)

AppRequest(r, u, p) ==
    /\ request[r].pc = "idle"
    /\ IF AppAllowed(u, p)
       THEN /\ userBuckets' = Consumed(userBuckets, u, UserLimit, MaxBuckets, Window, clock)
            /\ IF Allows(userBuckets, u, UserLimit, MaxBuckets, clock)
               THEN LookUpApi(r, IF p = Nobody THEN Nobody ELSE SiteOwner[p])
               ELSE Decline(r)
       ELSE Decline(r) /\ UNCHANGED userBuckets
    /\ reply' = Nobody
    /\ UNCHANGED <<database, cache, siteBuckets, clock, admitted>>

-----------------------------------------------------------------------------
(* The rest of the handler.                                                *)

(* The response, cached or fetched, is given to the caller.                *)
Answer(r, v, seen) ==
    /\ request' = [request EXCEPT ![r] = NoRequest]
    /\ reply' = [ident |-> v.ident, born |-> v.born, seen |-> seen]

(* No answer: the host does not resolve or resolves to a forbidden         *)
(* address, the external API refuses, or the 30 seconds run out.           *)
Fail(r) ==
    /\ request[r].pc \in {"dns", "fetch"}
    /\ Decline(r)
    /\ reply' = Nobody
    /\ UNCHANGED <<database, cache, siteBuckets, userBuckets, clock, admitted>>

(* The host resolves: the key is resolved, then a GET looks in the cache   *)
(* and a POST does not.                                                    *)
LookUpCache(r) ==
    /\ request[r].pc = "dns"
    /\ \E id \in Usable(request[r].owner), get \in BOOLEAN :
         /\ cache' = IF get THEN Touched(CacheKey(id)) ELSE cache
         /\ IF get /\ Hits(CacheKey(id)) # {}
            THEN Answer(r, cache[CHOOSE i \in Hits(CacheKey(id)) : TRUE].val, request[r].seen)
            ELSE /\ request' =
                      [request EXCEPT ![r] = [NoRequest EXCEPT !.pc = "fetch", !.ident = id]]
                 /\ reply' = Nobody
    /\ UNCHANGED <<database, siteBuckets, userBuckets, clock, admitted>>

(* The external API has answered and the body is read, which is not under  *)
(* the time limit: the answer of a GET, when it is 2xx, is cached under    *)
(* the key it was sent with; any other is passed on as it is.              *)
BodyArrives(r) ==
    /\ request[r].pc = "fetch"
    /\ LET id == request[r].ident
           v  == [ident |-> id, born |-> clock]
       IN  /\ Answer(r, v, {id})
           /\ cache' \in {cache, Stored(CacheKey(id), v)}
    /\ UNCHANGED <<database, siteBuckets, userBuckets, clock, admitted>>

-----------------------------------------------------------------------------
(* What the rest of the server does meanwhile.                             *)

(* The identities usable for a request in flight include a new key. *)
Noticed(u, n) ==
    [r \in Request |->
        IF request[r].pc = "dns" /\ request[r].owner = u
        THEN [request[r] EXCEPT !.seen = @ \cup {<<u, n>>}] ELSE request[r]]

(* POST /user-api-keys: only while the API is active. *)
SaveKey(u) ==
    /\ active
    /\ userKey[u].n < MaxKey
    /\ userKey' = [userKey EXCEPT ![u] = [n |-> @.n + 1, held |-> TRUE]]
    /\ request' = Noticed(u, userKey[u].n + 1)
    /\ reply' = Nobody
    /\ UNCHANGED <<published, existing, linked, active, cache, siteBuckets, userBuckets, clock,
                   admitted>>

(* The rows of the database change and no handler takes a step. *)
Elsewhere ==
    reply' = Nobody /\ UNCHANGED <<cache, siteBuckets, userBuckets, request, clock, admitted>>

(* DELETE /user-api-keys *)
DeleteKey(u) ==
    /\ userKey[u].held
    /\ userKey' = [userKey EXCEPT ![u].held = FALSE]
    /\ Elsewhere /\ UNCHANGED <<published, existing, linked, active>>

(* A project is published, or is no longer: its owner takes it down, or a  *)
(* generation or a rollback sets its status back.                          *)
TogglePublished(p) ==
    /\ p \in existing
    /\ published' = IF p \in published THEN published \ {p} ELSE published \cup {p}
    /\ Elsewhere /\ UNCHANGED <<existing, linked, active, userKey>>

(* cascadeDeleteUser: the projects, their links and the keys go. *)
OwnerLeaves(u) ==
    LET theirs == {p \in Site : SiteOwner[p] = u}
    IN  /\ theirs \cap existing # {}
        /\ existing' = existing \ theirs
        /\ published' = published \ theirs
        /\ linked' = linked \ theirs
        /\ userKey' = [userKey EXCEPT ![u].held = FALSE]
        /\ Elsewhere /\ UNCHANGED active

(* An administrator deactivates the API, or activates it again. *)
ToggleActive ==
    /\ active' = ~active
    /\ Elsewhere /\ UNCHANGED <<published, existing, linked, userKey>>

(* The process restarts: the cache, the counters and the requests in       *)
(* flight are gone, the database stays.                                    *)
Restart ==
    /\ cache' = <<>>
    /\ ipBuckets' = NoBuckets /\ projectBuckets' = NoBuckets /\ userBuckets' = NoBuckets
    /\ request' = [r \in Request |-> NoRequest]
    /\ reply' = Nobody
    /\ admitted' = [p \in Site |-> <<>>]
    /\ UNCHANGED <<database, clock>>

ProxyTick ==
    /\ clock < MaxNow
    /\ clock' = clock + 1
    /\ reply' = Nobody
    /\ admitted' = [p \in Site |-> Recent(admitted[p], Window, clock + 1)]
    /\ UNCHANGED <<database, cache, siteBuckets, userBuckets, request>>

HandlerSteps(r) ==
    \/ \E p \in Site : \E v \in Visitor : SiteRequest(r, v, p)
    \/ \E u \in User : \E p \in Site \cup {Nobody} : AppRequest(r, u, p)
    \/ Fail(r) \/ LookUpCache(r) \/ BodyArrives(r)

ProxyNext ==
    \/ \E r \in Request : HandlerSteps(r)
    \/ \E u \in User : SaveKey(u) \/ DeleteKey(u) \/ OwnerLeaves(u)
    \/ \E p \in Site : TogglePublished(p)
    \/ ToggleActive \/ Restart \/ ProxyTick

-----------------------------------------------------------------------------
(* A page is answered with data of a key that the request's own side had:  *)
(* the key of the response, cached or not, was usable for the request at   *)
(* some moment since it was admitted.  No response crosses from one key to *)
(* another through the cache, and a replaced or deleted key's responses    *)
(* end with the requests that began before.  Nor is it older than one ttl, *)
(* however often its entry was used: a hit makes it no younger.            *)
AnswersAreCurrent ==
    reply # Nobody => reply.ident \in reply.seen /\ clock - reply.born <= Ttl

(* What protects the owner's key: in any span of one window a site gets    *)
(* fewer than twice its limit of requests through, whoever sends them and  *)
(* however full the limiter is.                                            *)
SiteLimitHolds == \A p \in Site : Len(admitted[p]) < 2 * ProjectLimit

ProxySpec == ProxyInit /\ [][ProxyNext]_proxyVars
=============================================================================
