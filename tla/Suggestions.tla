------------------------------ MODULE Suggestions ------------------------------
(***************************************************************************)
(* The daily quota of suggestions, one user's: the four suggest-* routes,  *)
(* RateLimitService and the suggestion_count column.  A call is charged    *)
(* once its body is read and its project is its owner's; what throws after *)
(* that is refunded, from the row of the day on which it throws.  Failures *)
(* of the model are no failures of suggest-preferences, which answers its  *)
(* fallback, nor are unreadable answers of any route: they are paid for.   *)
(***************************************************************************)
EXTENDS Integers, FiniteSets

CONSTANTS
    Caller,      \* calls of the routes
    SuggestionLimit, \* limits.maxDailySuggestions
    MaxDate      \* bound on the days

ASSUME SuggestionsAssumption ==
    {SuggestionLimit, MaxDate} \subseteq Nat \ {0} /\ IsFiniteSet(Caller)

VARIABLES
    date,
    used,        \* used[d]: suggestion_count of the user's row of day d
    at,          \* at[c]: where call c is
    charge,      \* charge[c]: the day c was charged on, 0 if charged is false
    answered,    \* history: answered[d]: calls charged on day d that were answered
    taken,       \* history: taken[d]: what refunds of other days' charges took from day d
    lost         \* history: lost[d]: charges of day d neither answered nor given back to it

rows == <<date, used>>
suggestionVars == <<rows, at, charge, answered, taken, lost>>

Route == {"suggest-apis", "suggest-context", "suggest-modification", "suggest-preferences"}
Date == 1..MaxDate

SuggestionsInit ==
    /\ date = 1
    /\ used = [d \in Date |-> 0]
    /\ at = [c \in Caller |-> "out"]
    /\ charge = [c \in Caller |-> 0]
    /\ answered = [d \in Date |-> 0]
    /\ taken = [d \in Date |-> 0]
    /\ lost = [d \in Date |-> 0]

(* The test-and-set on today's row. *)
Charged(c) ==
    /\ used[date] < SuggestionLimit
    /\ used' = [used EXCEPT ![date] = @ + 1]
    /\ charge' = [charge EXCEPT ![c] = date]

(* Charged, or let through by a bypass or a failing database.  The route   *)
(* looks up its APIs, or asks the model at once.                           *)
AskFor(c, r) ==
    /\ at[c] = "out"
    /\ at' = [at EXCEPT ![c] = IF r = "suggest-context" THEN "asking" ELSE r]
    /\ Charged(c) \/ UNCHANGED <<used, charge>>
    /\ UNCHANGED <<date, answered, taken, lost>>

ModelAsked(c) ==
    /\ at[c] \in Route
    /\ at' = [at EXCEPT ![c] = IF @ = "suggest-preferences" THEN "recommending" ELSE "asking"]
    /\ UNCHANGED <<rows, charge, answered, taken, lost>>

SuggestionOut(c) ==
    /\ at' = [at EXCEPT ![c] = "out"]
    /\ charge' = [charge EXCEPT ![c] = 0]

AddTo(f, d) == [f EXCEPT ![d] = @ + 1]

(* With suggestions, with none that could be read, or with the fallback. *)
SuggestionAnswers(c) ==
    /\ at[c] \in {"asking", "recommending"}
    /\ SuggestionOut(c)
    /\ answered' = IF charge[c] # 0 THEN AddTo(answered, charge[c]) ELSE answered
    /\ UNCHANGED <<rows, taken, lost>>

(* decrementDailySuggestionLimit takes one from today's row, unless another *)
(* day's refund has emptied it, or fails, which is swallowed.              *)
GiveBack(c) ==
    LET taking == used[date] > 0
        misses == charge[c] # date \/ ~taking
    IN  \/ /\ used' = [used EXCEPT ![date] = IF taking THEN @ - 1 ELSE 0]
           /\ taken' = IF taking /\ charge[c] # date THEN AddTo(taken, date) ELSE taken
           /\ lost' = IF misses THEN AddTo(lost, charge[c]) ELSE lost
        \/ /\ lost' = AddTo(lost, charge[c])
           /\ UNCHANGED <<used, taken>>

\* Mutant: what was let through uncharged is refunded.
SuggestionFails_Uncharged(c) ==
    /\ at[c] \in Route \cup {"asking"}
    /\ SuggestionOut(c)
    /\ IF charge[c] # 0 THEN GiveBack(c)
       ELSE /\ used' = [used EXCEPT ![date] = IF @ > 0 THEN @ - 1 ELSE 0]
            /\ UNCHANGED <<taken, lost>>
    /\ UNCHANGED <<date, answered>>

(* The lookup throws, or the model's provider does. *)
SuggestionFails(c) ==
    /\ at[c] \in Route \cup {"asking"}
    /\ SuggestionOut(c)
    /\ IF charge[c] # 0 THEN GiveBack(c) ELSE UNCHANGED <<used, taken, lost>>
    /\ UNCHANGED <<date, answered>>

AfterMidnight ==
    /\ date < MaxDate
    /\ date' = date + 1
    /\ UNCHANGED <<used, at, charge, answered, taken, lost>>

Under(d) == Cardinality({c \in Caller : charge[c] = d})

(* The process dies with the calls it was at. *)
SuggestionsDie ==
    /\ \E c \in Caller : at[c] # "out"
    /\ at' = [c \in Caller |-> "out"]
    /\ charge' = [c \in Caller |-> 0]
    /\ lost' = [d \in Date |-> lost[d] + Under(d)]
    /\ UNCHANGED <<rows, answered, taken>>

SuggestionsNext ==
    \/ \E c \in Caller :
         \/ \E r \in Route : AskFor(c, r)
         \/ ModelAsked(c) \/ SuggestionAnswers(c) \/ SuggestionFails(c)
    \/ AfterMidnight
    \/ SuggestionsDie

(* Every variable has its type. *)
SuggestionsTypeOK ==
    /\ date \in Date
    /\ used \in [Date -> 0..SuggestionLimit]
    /\ at \in [Caller -> {"out", "asking", "recommending"} \cup Route]
    /\ charge \in [Caller -> 0..MaxDate]
    /\ answered \in [Date -> Nat] /\ taken \in [Date -> Nat] /\ lost \in [Date -> Nat]

(* A day answers no more suggestions at a charge than its limit and what   *)
(* refunds of other days' charges freed, and its row holds nothing for a   *)
(* call that failed and was refunded on the same day.                      *)
SuggestionsArePaid ==
    \A d \in Date :
        /\ answered[d] + Under(d) <= SuggestionLimit + taken[d]
        /\ used[d] <= answered[d] + Under(d) + lost[d]
===============================================================================
