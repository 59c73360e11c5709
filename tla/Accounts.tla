------------------------------ MODULE Accounts ------------------------------
(***************************************************************************)
(* Accounts and the links mailed to their owners: services/authService.ts, *)
(* the routes under api/v1/auth, and the pages that call them.             *)
(*                                                                         *)
(* A handler touches the database in one turn and then waits for the mail  *)
(* service, which may fail: the handler then answers with an error for     *)
(* what the database keeps.  All users of the model have one address, as   *)
(* accounts of different addresses share nothing.                          *)
(***************************************************************************)
EXTENDS Naturals, FiniteSets

CONSTANTS
    Holder,      \* the ids that accounts of the address can have, one after another
    Token,     \* the tokens that can ever be issued
    NoOne

ASSUME AccountsAssumption == NoOne \notin Holder \cup Token

VARIABLES
    user,      \* user[u]: the row of u: status, the link its password is from, verified
    token,     \* token[t]: the row of t: status, user, type
    latest,    \* history: latest[u], the reset link that was mailed to u last
    session,   \* the user the browser's JWT names
    form       \* the page shown: which, the link it was opened with, how far its call is

accountsVars == <<user, token, latest, session, form>>

Active(u) == user[u].st = "active"

NoUser == [st |-> "none", pw |-> NoOne, verified |-> FALSE]
NoToken == [st |-> "free", u |-> NoOne, type |-> "none"]
NoForm == [page |-> "none", link |-> NoOne, st |-> "idle"]

Page == {"signup", "login", "forgot", "reset", "verify"}

(* Every variable has its type. *)
AccountsTypeOK ==
    /\ user \in [Holder -> [st : {"none", "active", "deleted"}, pw : Token \cup {NoOne},
                          verified : BOOLEAN]]
    /\ token \in [Token -> [st : {"free", "live", "consumed", "expired"},
                            u : Holder \cup {NoOne}, type : {"none", "verify", "reset"}]]
    /\ latest \in [Holder -> Token \cup {NoOne}]
    /\ session \in Holder \cup {NoOne}
    /\ form \in [page : Page \cup {"none"}, link : Token \cup {NoOne},
                 st : {"idle", "sent", "ok", "refused", "lost", "done", "error"}]

AccountsInit ==
    /\ user = [u \in Holder |-> NoUser]
    /\ token = [t \in Token |-> NoToken]
    /\ latest = [u \in Holder |-> NoOne]
    /\ session = NoOne
    /\ form = NoForm

-----------------------------------------------------------------------------
(* Tokens.                                                                 *)

(* invalidateByUserAndType and consumeValid on a table of tokens. *)
Invalidated(table, u) ==
    [t \in Token |-> IF table[t] = [st |-> "live", u |-> u, type |-> "reset"]
                     THEN [table[t] EXCEPT !.st = "consumed"] ELSE table[t]]

Consumable(t, type) == token[t].st = "live" /\ token[t].type = type

(* issueToken: a token that was never given out before; which one makes no *)
(* difference.                                                             *)
Issued(table, t, u, type) == [table EXCEPT ![t] = [st |-> "live", u |-> u, type |-> type]]
Unissued == {t \in Token : token[t].st = "free"}
NewToken == CHOOSE t \in Unissued : TRUE

(* A verification link is good for a day, a reset link for an hour. *)
Expire(t) ==
    /\ token[t].st = "live"
    /\ token' = [token EXCEPT ![t].st = "expired"]
    /\ UNCHANGED <<user, latest, session, form>>

-----------------------------------------------------------------------------
(* What a call does to the database, and whether it is answered with       *)
(* success.  Every handler may refuse without an effect: the request limit,*)
(* a malformed body, the switch that closes signup.                        *)
NoEffect == UNCHANGED <<user, token, latest>>

(* The address is free: an account and its first link.  The answer, here   *)
(* and below, says success if the mail service took the mail.              *)
SignUp(ok) ==
    /\ \A u \in Holder : ~Active(u)
    /\ \E u \in Holder : user[u].st = "none"
    /\ Unissued # {}
    /\ LET u == CHOOSE v \in Holder : user[v].st = "none"
       IN  /\ user' = [user EXCEPT ![u] = [st |-> "active", pw |-> NoOne, verified |-> FALSE]]
           /\ token' = Issued(token, NewToken, u, "verify")
    /\ latest' = latest

(* For an unknown address the answer is success, too. *)
RequestReset_KeepsOlder(ok) ==
    IF \A u \in Holder : ~Active(u) THEN ok /\ NoEffect
    ELSE \E u \in Holder :
           /\ Active(u) /\ Unissued # {}
           /\ token' = Issued(token, NewToken, u, "reset")
           /\ latest' = [latest EXCEPT ![u] = NewToken]
           /\ user' = user
RequestReset(ok) ==
    IF \A u \in Holder : ~Active(u) THEN ok /\ NoEffect
    ELSE \E u \in Holder :
           /\ Active(u) /\ Unissued # {}
           /\ token' = Issued(Invalidated(token, u), NewToken, u, "reset")
           /\ latest' = [latest EXCEPT ![u] = NewToken]
           /\ user' = user

ResetPassword(t, ok) ==
    IF t \in Token /\ Consumable(t, "reset")
    THEN LET u == token[t].u
         IN  /\ ok
             /\ user' = [user EXCEPT ![u].pw = t]
             /\ token' = Invalidated([token EXCEPT ![t].st = "consumed"], u)
             /\ latest' = latest
    ELSE ~ok /\ NoEffect

VerifyEmail(t, ok) ==
    IF t \in Token /\ Consumable(t, "verify")
    THEN /\ ok
         /\ user' = [user EXCEPT ![token[t].u].verified = TRUE]
         /\ token' = [token EXCEPT ![t].st = "consumed"]
         /\ latest' = latest
    ELSE ~ok /\ NoEffect

(* What the page on show asks of the server. *)
Effect(page, t, ok) ==
    \/ ~ok /\ NoEffect
    \/ page = "signup" /\ SignUp(ok)
    \/ page = "forgot" /\ RequestReset(ok)
    \/ page = "reset" /\ ResetPassword(t, ok)
    \/ page = "verify" /\ VerifyEmail(t, ok)
    \/ page = "login" /\ ok /\ (\E u \in Holder : Active(u)) /\ NoEffect

-----------------------------------------------------------------------------
(* The pages.  A submit button is disabled while its call is under way;    *)
(* the verification page sends its call as soon as it is shown.            *)
Open(page, t) ==
    /\ page \in {"reset", "verify"} \/ t = NoOne
    /\ t # NoOne => token[t].st # "free"
    /\ form' = [page |-> page, link |-> t,
                st |-> IF page # "verify" THEN "idle" ELSE IF t = NoOne THEN "error" ELSE "sent"]
    /\ UNCHANGED <<user, token, latest, session>>

Submit ==
    /\ form.page \notin {"none", "verify"} /\ form.st \in {"idle", "error"}
    /\ form.page = "reset" => form.link # NoOne
    /\ form' = [form EXCEPT !.st = "sent"]
    /\ UNCHANGED <<user, token, latest, session>>

(* The server takes the page's call; the connection may break after that.  *)
Served ==
    /\ form.st = "sent"
    /\ \E ok \in BOOLEAN :
         /\ Effect(form.page, form.link, ok)
         /\ form' \in {[form EXCEPT !.st = IF ok THEN "ok" ELSE "refused"],
                       [form EXCEPT !.st = "lost"]}
    /\ UNCHANGED session

(* The same calls come from other browsers, or from a page that was left.  *)
AskedElsewhere(page, t) ==
    /\ \E ok \in BOOLEAN : Effect(page, t, ok)
    /\ UNCHANGED <<session, form>>

(* The call never reaches the server. *)
Unreached ==
    /\ form.st = "sent"
    /\ form' = [form EXCEPT !.st = "lost"]
    /\ UNCHANGED <<user, token, latest, session>>

(* The answer of a login carries the session, and the page is left.        *)
Answered ==
    /\ form.st \in {"ok", "refused", "lost"}
    /\ IF form.st # "ok"
       THEN form' = [form EXCEPT !.st = "error"] /\ session' = session
       ELSE IF form.page = "login"
       THEN form' = NoForm /\ \E u \in Holder : user[u].st # "none" /\ session' = u
       ELSE form' = [form EXCEPT !.st = "done"] /\ session' = session
    /\ UNCHANGED <<user, token, latest>>

-----------------------------------------------------------------------------
(* With a session, which outlives the account it names in other browsers.  *)

(* POST /auth/resend-verification: nothing for an account that is verified *)
(* or gone.                                                                *)
Resend ==
    /\ session # NoOne
    /\ Active(session) /\ ~user[session].verified
    /\ Unissued # {} /\ token' = Issued(token, NewToken, session, "verify")
    /\ UNCHANGED <<user, latest, session, form>>

(* DELETE /auth/account with the right password: one transaction, then the *)
(* cookies of the session are cleared.                                     *)
DeleteOwnAccount(cleared) ==
    /\ session # NoOne /\ Active(session)
    /\ user' = [user EXCEPT ![session] = [NoUser EXCEPT !.st = "deleted"]]
    /\ token' = [t \in Token |-> IF token[t].u = session
                                 THEN [NoToken EXCEPT !.st = "consumed"] ELSE token[t]]
    /\ session' = IF cleared THEN NoOne ELSE session
    /\ UNCHANGED <<latest, form>>

SignOut ==
    /\ session # NoOne
    /\ session' = NoOne
    /\ UNCHANGED <<user, token, latest, form>>

AccountsNext ==
    \/ \E t \in Token : Expire(t)
    \/ \E page \in Page, t \in Token \cup {NoOne} : Open(page, t) \/ AskedElsewhere(page, t)
    \/ Submit \/ Served \/ Unreached \/ Answered
    \/ Resend \/ SignOut
    \/ \E cleared \in BOOLEAN : DeleteOwnAccount(cleared)

AccountsSpec == AccountsInit /\ [][AccountsNext]_accountsVars

-----------------------------------------------------------------------------
(* The only link that can change a password is the one mailed last: asking *)
(* again takes the power of the links before, a use takes that of all, and *)
(* an account's links go with it.  What the reset page calls done has been *)
(* done, by the link it shows or a later one.                              *)
LatestLinkOnly ==
    /\ \A t \in Token : Consumable(t, "reset") => Active(token[t].u) /\ latest[token[t].u] = t
    /\ \A t \in Token : token[t].st \in {"live", "expired"} => Active(token[t].u)
    /\ \A u, v \in Holder : Active(u) /\ Active(v) => u = v
    /\ form.page = "reset" /\ form.st = "done" => token[form.link].st = "consumed"
=============================================================================
