------------------------------- MODULE MCParts -------------------------------
(***************************************************************************)
(* The parts of the server and of its pages that share no state, checked   *)
(* by one run of TLC: "part" names the one whose steps a behaviour takes,  *)
(* the others stay as they begin.  Every behaviour of every part is there, *)
(* and the number of states is the sum of theirs, not the product.         *)
(***************************************************************************)
EXTENDS BrowserPool, Proxy, AuthLimits, Publishing, Accounts, Catalog, KillSwitch, AuditLog,
        Backups, DeepQc, Builder, Regeneration, Suggestions,
        MCQuality, TLC

CONSTANTS c1, c2, c3, r1, r2, u1, u2, p1, p2, a1, a2

VARIABLE part

-----------------------------------------------------------------------------
(* Values of the constants.                                                *)

TheOwner == p1 :> u1

TwoAndOne == (a1 :> 2) @@ (a2 :> 1)

(* Answers an API may give: the ordinary one, and one for each way the     *)
(* classification can go.                                                  *)
NoPatterns == <<"none", "none", "none">>
Ordinary == [net |-> TRUE, code |-> "2xx", json |-> NoPatterns, xml |-> NoPatterns,
             deprecated |-> FALSE, flag |-> FALSE, slow |-> FALSE]
Answers ==
    {Ordinary, [Ordinary EXCEPT !.net = FALSE], [Ordinary EXCEPT !.slow = TRUE],
     [Ordinary EXCEPT !.deprecated = TRUE],
     [Ordinary EXCEPT !.json = <<"none", "ok", "none">>, !.flag = TRUE],
     [Ordinary EXCEPT !.xml = <<"none", "none", "err">>]}
    \cup {[Ordinary EXCEPT !.code = c] : c \in {"denied", "429", "4xx", "5xx"}}

(* A page whose tabs work and that waits for nothing, and one with an      *)
(* input, a skeleton that leaves and an overflow on tablets.               *)
Plain == [errors |-> FALSE, overflowAt |-> {}, footer |-> "shown", overlap |-> FALSE,
          placeholders |-> 0, images |-> 3, broken |-> 0, targets |-> 4, small |-> 1,
          requests |-> TRUE, h1 |-> TRUE, main |-> TRUE, ordered |-> FALSE,
          input |-> "none", tabs |-> "works", skeleton |-> "none"]
DeepPages ==
    {Plain, [Plain EXCEPT !.input = "works", !.skeleton = "leaves", !.overflowAt = {768}]}

-----------------------------------------------------------------------------
(* The sum.                                                                *)

Part == {"pool", "proxy", "limits", "publishing", "accounts", "catalog", "switch", "audit",
         "backups", "quality", "deep", "builder", "panel",
         "suggestions"}

PartsInit ==
    /\ part \in Part
    /\ Init /\ ProxyInit /\ AuthLimitsInit /\ PublishingInit /\ AccountsInit /\ CatalogInit
    /\ KillSwitchInit /\ AuditInit /\ BackupsInit /\ QualityInit /\ DeepInit /\ BuilderInit
    /\ RegenerationInit /\ SuggestionsInit
    /\ part # "proxy" => linked = Site
    /\ part # "quality" =>
         best = [code |-> Sound \cup Structured \cup Interactive \cup Mobile,
                 report |-> NoFastReport]
    /\ part # "deep" => deepPage = Plain
    /\ part # "builder" => context = TooShort

Rest(p) ==
    /\ UNCHANGED part
    /\ p # "pool" => UNCHANGED vars
    /\ p # "proxy" => UNCHANGED proxyVars
    /\ p # "limits" => UNCHANGED limitsVars
    /\ p # "publishing" => UNCHANGED publishingVars
    /\ p # "accounts" => UNCHANGED accountsVars
    /\ p # "catalog" => UNCHANGED catalogVars
    /\ p # "switch" => UNCHANGED killVars
    /\ p # "audit" => UNCHANGED auditVars
    /\ p # "backups" => UNCHANGED backupVars
    /\ p # "quality" => UNCHANGED qualityVars
    /\ p # "deep" => UNCHANGED deepVars
    /\ p # "builder" => UNCHANGED builderVars
    /\ p # "panel" => UNCHANGED regenVars
    /\ p # "suggestions" => UNCHANGED suggestionVars

PartsNext ==
    \/ part = "pool" /\ Next /\ Rest("pool")
    \/ part = "proxy" /\ ProxyNext /\ Rest("proxy")
    \/ part = "limits" /\ AuthLimitsNext /\ Rest("limits")
    \/ part = "publishing" /\ PublishingNext /\ Rest("publishing")
    \/ part = "accounts" /\ AccountsNext /\ Rest("accounts")
    \/ part = "catalog" /\ CatalogNext /\ Rest("catalog")
    \/ part = "switch" /\ KillSwitchNext /\ Rest("switch")
    \/ part = "audit" /\ AuditNext /\ Rest("audit")
    \/ part = "backups" /\ BackupsNext /\ Rest("backups")
    \/ part = "quality" /\ QualityNext /\ Rest("quality")
    \/ part = "deep" /\ DeepNext /\ Rest("deep")
    \/ part = "builder" /\ BuilderNext /\ Rest("builder")
    \/ part = "panel" /\ RegenerationNext /\ Rest("panel")
    \/ part = "suggestions" /\ SuggestionsNext /\ Rest("suggestions")

partsVars == <<part, vars, proxyVars, limitsVars, publishingVars, accountsVars, catalogVars,
               killVars, auditVars, backupVars, qualityVars, deepVars, builderVars, regenVars,
               suggestionVars>>

PartsSpec == PartsInit /\ [][PartsNext]_partsVars

(* Every variable of every part has its type. *)
PartsTypeOK ==
    /\ part = "pool" => TypeOK
    /\ part = "proxy" => ProxyTypeOK
    /\ part = "limits" => AuthLimitsTypeOK
    /\ part = "publishing" => PublishingTypeOK
    /\ part = "accounts" => AccountsTypeOK
    /\ part = "catalog" => CatalogTypeOK
    /\ part = "switch" => KillSwitchTypeOK
    /\ part = "audit" => AuditTypeOK
    /\ part = "backups" => BackupsTypeOK
    /\ part = "quality" => QualityTypeOK
    /\ part = "deep" => DeepTypeOK
    /\ part = "builder" => BuilderTypeOK
    /\ part = "panel" => RegenerationTypeOK
    /\ part = "suggestions" => SuggestionsTypeOK
==============================================================================
