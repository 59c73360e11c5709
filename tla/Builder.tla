-------------------------------- MODULE Builder --------------------------------
(***************************************************************************)
(* The builder page (app/(main)/builder/page.tsx) with the stores it writes *)
(* and the panel that regenerates: the user picks a mode, describes a      *)
(* service and chooses APIs, in the order the mode asks for; the page      *)
(* meanwhile asks the server for suggested descriptions, for recommended   *)
(* APIs and, some time after the last change, for preferences.  Answers    *)
(* come late, in any order, and after the user has gone back and begun     *)
(* again.                                                                  *)
(*                                                                         *)
(* A visit is what lies between two returns to the choice of the mode.     *)
(* The run of a generation itself is ClientGeneration's.  React's effects  *)
(* run within the turn that changes their inputs, and a promise's          *)
(* continuations within the turn that settles it.                          *)
(***************************************************************************)
EXTENDS Integers, FiniteSets, Functions

CONSTANTS
    Context,      \* descriptions long enough to go on with
    Brief,        \* shorter ones, long enough to ask about preferences
    TooShort,     \* the empty one, or one that is too short for that
    BuilderApi,   \* APIs to choose from
    MaxApis,      \* LIMITS.maxApisPerProject
    MaxVisit,     \* bound on visits,
    MaxCalls,     \* on the calls made,
    MaxGenerated, \* on the projects generated,
    MaxVersions,  \* on the versions of each, none of which is pruned yet,
    MaxDeeds,     \* and on calls and versions together
    NoSet         \* no recommendation is there

ASSUME BuilderAssumption ==
    /\ TooShort \notin Context \cup Brief
    /\ NoSet \notin Context \cup Brief \cup {TooShort}
    /\ Brief \cap Context = {}
    /\ IsFiniteSet(BuilderApi)
    /\ {MaxApis, MaxVisit, MaxCalls, MaxGenerated, MaxVersions, MaxDeeds} \subseteq Nat \ {0}

VARIABLES
    visit,
    mode,        \* useBuilderModeStore.mode, or "none" while it is not confirmed
    step,
    context,     \* useContextStore.context
    chosen,      \* useApiSelectionStore.selectedApis
    suggested,   \* suggestions: the visit they were asked for in, 0 when there are none
    recommended, \* apiRecommendations: the same
    lastContext, \* lastRecommendedContext
    calls,       \* the requests in flight
    newest,      \* suggestionsReqIdRef, recommendationsReqIdRef, preferenceReqIdRef
    spinner,     \* isSuggestionsLoading, isRecommendationsLoading, isPreferenceLoading
    due,         \* the preference timer is set
    gate,        \* relevanceScore and gateResolved
    generation,  \* of the generation store: its status and its project, numbered
    regen,       \* regen: the version of the last regeneration and its project
    versions     \* versions[p]: how many versions the server has of project p

inputs == <<context, chosen, due, gate>>
answers == <<suggested, recommended, lastContext>>
requests == <<calls, newest, spinner>>
builderVars == <<visit, mode, step, inputs, answers, requests, generation, regen, versions>>

Text == Context \cup Brief \cup {TooShort}
Mode == {"api-first", "context-first"}
Kind == {"suggestion", "recommendation", "preference"}
Exclusive == {"suggestion", "recommendation"}   \* those that share aiRequestAbortRef

CallRecord == [kind : Kind, id : 1..MaxCalls, visit : 1..MaxVisit,
               context : Text, aborted : BOOLEAN]

NoGate == [score |-> "none", resolved |-> FALSE]
NoRegen == [project |-> 0, version |-> 0]

BuilderInit ==
    /\ visit = 1
    /\ mode = "none"
    /\ step = 1
    /\ context \in Text   \* kept in the browser
    /\ chosen = {}
    /\ suggested = 0 /\ recommended = 0
    /\ lastContext = NoSet
    /\ calls = {}
    /\ newest = [k \in Kind |-> 0]
    /\ spinner = [k \in Kind |-> FALSE]
    /\ due = FALSE
    /\ gate = NoGate
    /\ generation = [status |-> "idle", project |-> 0]
    /\ regen = NoRegen
    /\ versions = [p \in 1..MaxGenerated |-> 0]

-----------------------------------------------------------------------------
(* Requests and inputs.                                                    *)

Aborted(cs, kinds) ==
    {IF c.kind \in kinds THEN [c EXCEPT !.aborted = TRUE] ELSE c : c \in cs}

(* context and chosen become c and s, gate would become g, and cs is what  *)
(* is in flight.  If either changed, the effect that depends on them runs: *)
(* it aborts the preference call, and sets the timer again if there is     *)
(* enough to ask about (20 characters will do, where going on takes        *)
(* LIMITS.contextMinLength) or clears the suggestion if there is not.      *)
Becomes(c, s, g, cs) ==
    LET changed == c # context \/ s # chosen
        enough  == c # TooShort /\ s # {}
    IN  /\ context' = c /\ chosen' = s
        /\ calls' = IF changed THEN Aborted(cs, {"preference"}) ELSE cs
        /\ due' = IF changed THEN enough ELSE due
        /\ gate' = IF changed /\ ~enough THEN NoGate ELSE g

KeepInputs == UNCHANGED <<context, chosen, due, gate>>

Made == newest["suggestion"] + newest["recommendation"] + newest["preference"]
Deeds == Made + FoldFunction(+, 0, versions)

New(k) == [kind |-> k, id |-> newest[k] + 1, visit |-> visit, context |-> context,
           aborted |-> FALSE]

(* fetchSuggestions, fetchApiRecommendations: the call in flight of either *)
(* kind is aborted; the loading flag is set by its newest owner.           *)
Ask(k) ==
    /\ Made < MaxCalls /\ Deeds < MaxDeeds
    /\ calls' = Aborted(calls, Exclusive) \cup {New(k)}
    /\ newest' = [newest EXCEPT ![k] = @ + 1]
    /\ spinner' = [spinner EXCEPT ![k] = TRUE]

FetchSuggestions ==
    IF chosen = {} THEN UNCHANGED <<answers, requests>>
    ELSE Ask("suggestion") /\ suggested' = 0 /\ UNCHANGED <<recommended, lastContext>>

FetchApiRecommendations ==
    IF context \notin Context THEN UNCHANGED <<answers, requests>>
    ELSE Ask("recommendation") /\ recommended' = 0 /\ UNCHANGED <<suggested, lastContext>>

-----------------------------------------------------------------------------
(* The user.                                                               *)

Cleared == suggested' = 0 /\ recommended' = 0 /\ lastContext' = NoSet

AbortAiRequests_No == calls
AbortAiRequests == Aborted(calls, Exclusive)

HandleModeSelect(m) ==
    /\ mode = "none"
    /\ mode' = m /\ step' = 1
    /\ Becomes(TooShort, {}, NoGate, Aborted(calls, Exclusive))
    /\ Cleared
    /\ UNCHANGED <<visit, newest, spinner, generation, regen, versions>>

(* The way back to the choice of the mode, from the toggle or from before  *)
(* the first step: the visit ends, and its generation is abandoned.        *)
HandleResetMode ==
    /\ mode # "none"
    /\ ~(step = 3 /\ generation.status = "generating")
    /\ visit < MaxVisit
    /\ visit' = visit + 1
    /\ mode' = "none" /\ step' = 1
    /\ Becomes(TooShort, {}, NoGate, AbortAiRequests)
    /\ Cleared
    /\ generation' = [generation EXCEPT !.status = "idle"]
    /\ UNCHANGED <<newest, spinner, regen, versions>>

CanProceed ==
    IF (step = 1) = (mode = "api-first") THEN chosen # {} ELSE context \in Context

HandleNextStep ==
    /\ mode # "none" /\ step < 3 /\ CanProceed
    /\ step' = step + 1
    /\ IF step = 1 /\ mode = "api-first" THEN FetchSuggestions
       ELSE IF step = 1 /\ context # lastContext THEN FetchApiRecommendations
       ELSE UNCHANGED <<answers, requests>>
    /\ KeepInputs
    /\ UNCHANGED <<visit, mode, generation, regen, versions>>

HandlePrevStep ==
    /\ mode # "none" /\ step > 1
    /\ step' = step - 1
    /\ UNCHANGED <<visit, mode, inputs, answers, requests, generation, regen, versions>>

(* The lists' refresh buttons. *)
Refresh ==
    /\ step = 2
    /\ \/ mode = "api-first" /\ FetchSuggestions
       \/ mode = "context-first" /\ FetchApiRecommendations
    /\ KeepInputs
    /\ UNCHANGED <<visit, mode, step, generation, regen, versions>>

Describing == mode # "none" /\ step = (IF mode = "api-first" THEN 2 ELSE 1)
Choosing == mode # "none" /\ step = (IF mode = "api-first" THEN 1 ELSE 2)

GateShown == gate.score = "low" /\ ~gate.resolved

(* Typing, a suggestion, a template, a guide question, or one of the       *)
(* gate's ways out that rewrite the description: as it is, merged or       *)
(* skipped, which resolves the gate, or another one, which clears it.      *)
Describe(c) ==
    /\ Describing
    /\ \E g \in {gate} \cup (IF GateShown THEN {[gate EXCEPT !.resolved = TRUE], NoGate} ELSE {}) :
         Becomes(c, chosen, g, calls)
    /\ UNCHANGED <<visit, mode, step, answers, newest, spinner, generation, regen, versions>>

AddApi(S, a) == IF Cardinality(S) < MaxApis THEN S \cup {a} ELSE S

ToggleApi(a) ==
    /\ Choosing
    /\ Becomes(context, IF a \in chosen THEN chosen \ {a} ELSE AddApi(chosen, a), gate, calls)
    /\ UNCHANGED <<visit, mode, step, answers, newest, spinner, generation, regen, versions>>

ClearApis ==
    /\ Choosing
    /\ Becomes(context, {}, gate, calls)
    /\ UNCHANGED <<visit, mode, step, answers, newest, spinner, generation, regen, versions>>

(* A popular service brings its description and those of its APIs that the *)
(* catalog has, as many as may be chosen; if it has none, the description  *)
(* alone.                                                                  *)
HandleSelectPopularService(c, S) ==
    /\ mode = "context-first" /\ step = 1 /\ context \notin Context
    /\ Cardinality(S) <= MaxApis
    /\ Becomes(c, IF S = {} THEN chosen ELSE S, gate, calls)
    /\ IF S = {} THEN UNCHANGED answers
       ELSE recommended' = visit /\ lastContext' = c /\ UNCHANGED suggested
    /\ UNCHANGED <<visit, mode, step, newest, spinner, generation, regen, versions>>

-----------------------------------------------------------------------------
(* Answers.                                                                *)

(* 600 ms after the last change of the inputs. *)
PreferenceTimer ==
    /\ due
    /\ Made < MaxCalls /\ Deeds < MaxDeeds
    /\ due' = FALSE
    /\ calls' = calls \cup {New("preference")}
    /\ newest' = [newest EXCEPT !["preference"] = @ + 1]
    /\ spinner' = [spinner EXCEPT !["preference"] = TRUE]
    /\ UNCHANGED <<visit, mode, step, context, chosen, answers, gate, generation, regen, versions>>

(* The finally of every call: the flag falls if the call still owns it. *)
Released_Unaborted(c) == IF ~c.aborted THEN [spinner EXCEPT ![c.kind] = FALSE] ELSE spinner
Released(c) == IF newest[c.kind] = c.id THEN [spinner EXCEPT ![c.kind] = FALSE] ELSE spinner

(* An aborted call settles and writes nothing, but that an error answer to *)
(* suggestions, whose body was being read, clears the list.                *)
SettleAborted(c) ==
    /\ c.aborted
    /\ calls' = calls \ {c}
    /\ suggested' \in (IF c.kind = "suggestion" THEN {suggested, 0} ELSE {suggested})
    /\ spinner' = Released(c)
    /\ UNCHANGED <<visit, mode, step, inputs, recommended, lastContext, newest, generation,
                   regen, versions>>

SuggestionsArrive(c) ==
    /\ c.kind = "suggestion" /\ ~c.aborted
    /\ suggested' \in {0, c.visit}
    /\ calls' = calls \ {c}
    /\ spinner' = Released(c)
    /\ UNCHANGED <<visit, mode, step, inputs, recommended, lastContext, newest, generation,
                   regen, versions>>

(* The recommended APIs are shown and selected, in place of what is; when  *)
(* the call fails, an error is shown.                                      *)
RecommendationsArrive(c) ==
    /\ c.kind = "recommendation" /\ ~c.aborted
    /\ \/ /\ recommended' = c.visit
          /\ lastContext' = c.context
          /\ \E S \in SUBSET BuilderApi :
               Cardinality(S) <= MaxApis /\ Becomes(context, S, gate, calls \ {c})
       \/ /\ recommended' = 0
          /\ lastContext' = NoSet
          /\ Becomes(context, chosen, gate, calls \ {c})
    /\ spinner' = Released(c)
    /\ UNCHANGED <<visit, mode, step, suggested, newest, generation, regen, versions>>

(* A verdict sets the score, and resolves the gate when it is high. *)
PreferencesArrive(c) ==
    /\ c.kind = "preference" /\ ~c.aborted
    /\ gate' \in {gate, [gate EXCEPT !.score = "low"], [score |-> "high", resolved |-> TRUE]}
    /\ calls' = calls \ {c}
    /\ spinner' = Released(c)
    /\ UNCHANGED <<visit, mode, step, context, chosen, due, answers, newest, generation, regen,
                   versions>>

-----------------------------------------------------------------------------
(* Generating and regenerating.                                            *)

HandleGenerate ==
    /\ mode # "none" /\ step = 3
    /\ generation.status \in {"idle", "failed"}
    /\ generation.project < MaxGenerated /\ Deeds < MaxDeeds
    /\ generation' = [generation EXCEPT !.status = "generating"]
    /\ UNCHANGED <<visit, mode, step, inputs, answers, requests, regen, versions>>

(* It completes, with a project of its own, and the inputs are reset. *)
GenerationCompletes ==
    /\ generation.status = "generating"
    /\ generation' = [status |-> "completed", project |-> generation.project + 1]
    /\ versions' = [versions EXCEPT ![generation.project + 1] = 1]
    /\ Becomes(TooShort, {}, NoGate, calls)
    /\ UNCHANGED <<visit, mode, step, answers, newest, spinner, regen>>

GenerationFails ==
    /\ generation.status = "generating"
    /\ generation' = [generation EXCEPT !.status = "failed"]
    /\ UNCHANGED <<visit, mode, step, inputs, answers, requests, regen, versions>>

(* "Generate anew" *)
ResetGeneration ==
    /\ step = 3 /\ generation.status = "completed"
    /\ generation' = [generation EXCEPT !.status = "idle"]
    /\ UNCHANGED <<visit, mode, step, inputs, answers, requests, regen, versions>>

(* The panel's regeneration of project p ends, with a version more on the  *)
(* server or with none, and the panel passes on the number it is told: the *)
(* new one, none (0), or, from a status route that has lost the run's      *)
(* entry and looks at the versions, one that was the newest when it was    *)
(* asked.  The panel that began the run may be gone: its abort stops the   *)
(* network, and an end that is already on its way still comes.             *)
RegenerationCompletes(p) ==
    /\ p <= generation.project
    /\ \/ UNCHANGED versions
       \/ /\ versions[p] < MaxVersions /\ Deeds < MaxDeeds
          /\ versions' = [versions EXCEPT ![p] = @ + 1]
    /\ regen' \in [project : {p}, version : 0..(versions'[p])]
    /\ UNCHANGED <<visit, mode, step, inputs, answers, requests, generation>>

(* The version PreviewFrame asks for: the regenerated one if it is of the  *)
(* project shown, else the first; 0 is the newest.                         *)
PreviewVersion_Unpaired == IF regen # NoRegen THEN regen.version ELSE 1
PreviewVersion ==
    IF regen # NoRegen /\ regen.project = generation.project THEN regen.version ELSE 1

BuilderNext ==
    \/ \E m \in Mode : HandleModeSelect(m)
    \/ HandleResetMode \/ HandleNextStep \/ HandlePrevStep \/ Refresh
    \/ \E c \in Text : Describe(c)
    \/ \E a \in BuilderApi : ToggleApi(a)
    \/ ClearApis
    \/ \E c \in Context, S \in SUBSET BuilderApi : HandleSelectPopularService(c, S)
    \/ PreferenceTimer
    \/ \E c \in calls : \/ SettleAborted(c) \/ SuggestionsArrive(c)
                        \/ RecommendationsArrive(c) \/ PreferencesArrive(c)
    \/ HandleGenerate \/ GenerationCompletes \/ GenerationFails \/ ResetGeneration
    \/ \E p \in 1..MaxGenerated : RegenerationCompletes(p)

BuilderSpec == BuilderInit /\ [][BuilderNext]_builderVars

-----------------------------------------------------------------------------
(* Every variable has its type. *)
BuilderTypeOK ==
    /\ visit \in 1..MaxVisit
    /\ mode \in Mode \cup {"none"}
    /\ step \in 1..3
    /\ context \in Text
    /\ chosen \subseteq BuilderApi /\ Cardinality(chosen) <= MaxApis
    /\ {suggested, recommended} \subseteq 0..MaxVisit
    /\ lastContext \in Context \cup {NoSet}
    /\ calls \subseteq CallRecord
    /\ newest \in [Kind -> 0..MaxCalls]
    /\ spinner \in [Kind -> BOOLEAN]
    /\ due \in BOOLEAN
    /\ gate \in [score : {"none", "low", "high"}, resolved : BOOLEAN]

(* Nothing an earlier visit asked for is shown in the present one, and     *)
(* none of its calls can still write: beginning again aborts them all.     *)
NothingOfAnEarlierVisit ==
    /\ {suggested, recommended} \subseteq {0, visit}
    /\ \A c \in calls : c.visit < visit => c.aborted

(* A spinner turns exactly while the newest call of its kind is in flight: *)
(* no abort leaves it turning, no older call stops it.                     *)
SpinnersTellTheTruth ==
    \A k \in Kind : spinner[k] <=> \E c \in calls : c.kind = k /\ c.id = newest[k]

(* The preview asks for a version its project has, whatever was generated  *)
(* and regenerated before, of this project or of others.                   *)
PreviewExists ==
    generation.status = "completed" => PreviewVersion <= versions[generation.project]
================================================================================
