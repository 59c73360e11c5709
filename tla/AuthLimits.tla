----------------------------- MODULE AuthLimits -----------------------------
(***************************************************************************)
(* The limiters of the account routes (lib/auth/rateLimit.ts) and of the   *)
(* administrator's routes (lib/utils/adminAuth.ts).  Login counts failures *)
(* only, by client address and by the address typed in, in the map in      *)
(* which the other account routes count their calls.  A handler checks,    *)
(* compares the password and counts in one turn.                           *)
(***************************************************************************)
EXTENDS RateBuckets

CONSTANTS
    Ip,            \* client addresses
    Account,       \* addresses typed in on the login page
    IpFails,       \* LOGIN_IP_FAIL_LIMIT
    AccountFails,  \* LOGIN_ACCOUNT_FAIL_LIMIT
    CallLimit,     \* the limit of signup, forgot-password, ..., and of the administrator
    IpWindow,      \* LOGIN_IP_WINDOW_MS; the other routes' windows are as long here
    AccountWindow, \* LOGIN_ACCOUNT_WINDOW_MS
    MaxAuth,       \* MAX_AUTH_RATE_LIMIT_BUCKETS
    MaxAdmin,      \* MAX_CONCURRENT_RATE_LIMIT_USERS
    MaxClock       \* bound on the clock

ASSUME AuthLimitsAssumption ==
    /\ {IpFails, AccountFails, CallLimit, IpWindow, AccountWindow, MaxAuth, MaxAdmin}
         \subseteq Nat \ {0}
    /\ MaxClock \in Nat

VARIABLES
    auth,      \* the shared map of the account routes
    admin,     \* the administrator's map
    time,
    guesses    \* history: guesses[a], when wrong passwords for a were counted lately

limitsVars == <<auth, admin, time, guesses>>

Key == ({"login:ip", "signup", "forgot"} \X Ip) \cup ({"login:email"} \X Account)

(* Every variable has its type. *)
AuthLimitsTypeOK ==
    /\ DOMAIN auth \subseteq Key /\ Cardinality(DOMAIN auth) <= MaxAuth
    /\ DOMAIN admin \subseteq Ip /\ Cardinality(DOMAIN admin) <= MaxAdmin
    /\ time \in 0..MaxClock
    /\ guesses \in [Account -> Seq(0..MaxClock)]

AuthLimitsInit ==
    /\ auth = NoBuckets
    /\ admin = NoBuckets
    /\ time = 0
    /\ guesses = [a \in Account |-> <<>>]

-----------------------------------------------------------------------------
(* isLimited: reads the counter of a key.  A dead one is deleted, and a    *)
(* key without one is limited when the map is full of live ones.           *)
Forgotten(m, k) == [j \in DOMAIN m \ {k} |-> m[j]]

Buried(m, k) == IF k \in DOMAIN m /\ ~Live(m, k, time) THEN Forgotten(m, k) ELSE m

Read(m, k) == MadeRoom(Buried(m, k), k, MaxAuth, time)

IsLimited(m, k, limit) ==
    IF Live(m, k, time) THEN m[k].count >= limit ELSE NoRoom(Buried(m, k), k, MaxAuth, time)

(* recordFailure: counts without a limit, if there is room for the key.    *)
RecordFailure(m, k, window) ==
    IF Live(m, k, time) THEN Put(m, k, [m[k] EXCEPT !.count = @ + 1])
    ELSE Consumed(m, k, 1, MaxAuth, window, time)

Counts(m, k) == Live(m, k, time) \/ ~NoRoom(m, k, MaxAuth, time)

(* authorizeWithLoginRateLimit: past both limits the password is compared; *)
(* a right one clears the account's counter, a wrong one counts for both.  *)
SignIn(v, a) ==
    LET ip == <<"login:ip", v>>
        mail == <<"login:email", a>>
        read == Read(auth, ip)
        both == Read(read, mail)
        failed == RecordFailure(both, ip, IpWindow)
    IN  IF IsLimited(auth, ip, IpFails)
        THEN auth' = read /\ UNCHANGED guesses
        ELSE IF IsLimited(read, mail, AccountFails)
        THEN auth' = both /\ UNCHANGED guesses
        ELSE \/ auth' = Forgotten(both, mail) /\ guesses' = [guesses EXCEPT ![a] = <<>>]
             \/ /\ auth' = RecordFailure(failed, mail, AccountWindow)
                /\ guesses' = IF Counts(failed, mail)
                              THEN [guesses EXCEPT ![a] = Append(@, time)] ELSE guesses

(* enforceRateLimit of the other account routes, whatever the answer.      *)
CallRoute(k) ==
    /\ auth' = Consumed(auth, k, CallLimit, MaxAuth, IpWindow, time)
    /\ UNCHANGED guesses

LimitedCall ==
    /\ \/ \E v \in Ip, a \in Account : SignIn(v, a)
       \/ \E op \in {"signup", "forgot"}, v \in Ip : CallRoute(<<op, v>>)
    /\ UNCHANGED <<admin, time>>

(* verifyAdminKey counts before it looks at the key. *)
AdminCall(v) ==
    /\ admin' = Consumed(admin, v, CallLimit, MaxAdmin, IpWindow, time)
    /\ UNCHANGED <<auth, time, guesses>>

TimePasses ==
    /\ time < MaxClock
    /\ time' = time + 1
    /\ guesses' = [a \in Account |-> Recent(guesses[a], AccountWindow, time + 1)]
    /\ UNCHANGED <<auth, admin>>

(* The process restarts: all counters are gone. *)
LimitersRestart ==
    /\ auth' = NoBuckets /\ admin' = NoBuckets
    /\ guesses' = [a \in Account |-> <<>>]
    /\ time' = time

AuthLimitsNext ==
    \/ LimitedCall \/ TimePasses \/ LimitersRestart
    \/ \E v \in Ip : AdminCall(v)

AuthLimitsSpec == AuthLimitsInit /\ [][AuthLimitsNext]_limitsVars

-----------------------------------------------------------------------------
(* From wherever they come and however full the shared map is, in any span *)
(* of one account window, and without a right one between them, fewer than *)
(* twice the limit of wrong passwords are counted for an account: its      *)
(* counter is not dropped for another key, nor restarted while it lives.   *)
GuessesBounded == \A a \in Account : Len(guesses[a]) < 2 * AccountFails
=============================================================================
