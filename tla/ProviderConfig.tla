--------------------------- MODULE ProviderConfig ---------------------------
(***************************************************************************)
(* The provider settings of the process, config.py and llm_provider.py:     *)
(* one active provider, model, key and address shared by every session, and *)
(* the provider object built from them.  Every public operation holds the   *)
(* module's lock from its first read to its last write, so it is one action.*)
(***************************************************************************)
EXTENDS Integers, Sequences, FiniteSets

CONSTANTS
    Providers,
    ModelList,     \* provider -> its models, the default first
    Customizable,  \* the providers whose base_url may be changed
    DefaultUrl,    \* provider -> base_url
    EnvKey,        \* provider -> the key its environment variables give, or None
    KeysFor,       \* provider -> the keys users have for it
    UrlsFor,       \* provider -> the addresses users have for it
    CustomModels,  \* the free model names users type for "custom"
    NoKey,         \* "EMPTY_API_KEY"
    Slashes,       \* an address that is nothing but slashes
    Blank,         \* the empty string
    None,
    MaxSwitches    \* bound: changes of the settings

ASSUME ModelListIsTotal == \A p \in Providers : Len(ModelList[p]) > 0
ASSUME CustomizableAreProviders == Customizable \subseteq Providers
ASSUME SwitchBoundIsNatural == MaxSwitches \in Nat

VARIABLES
    active,   \* _active_provider, _active_model, _active_api_key,
              \* _active_base_url and _custom_model_name
    built,    \* _active_llm_provider: None until it is first needed
    switches

configVars == <<active, built, switches>>

Models(p) == {ModelList[p][i] : i \in DOMAIN ModelList[p]}
DefaultModel(p) == ModelList[p][1]

------------------------------------------------------------------------------
(* Building a provider: _build_active_provider and ProviderRegistry.        *)

EffectiveUrl(p, url) == IF url \in {None, Blank} THEN DefaultUrl[p] ELSE url

EffectiveKey(p, key) ==
    IF key # None THEN key
    ELSE IF EnvKey[p] # None THEN EnvKey[p] ELSE NoKey

ModelConfig(p, model, url) ==
    [provider |-> p,
     model |-> IF model = Blank THEN DefaultModel(p) ELSE model,
     url |-> EffectiveUrl(p, url)]

\* create_model_config and create_provider refuse another address for a
\* provider that does not allow one.
UrlAllowed(p, url) == p \in Customizable \/ EffectiveUrl(p, url) = DefaultUrl[p]

BuiltFrom(state) ==
    [config |-> ModelConfig(state.provider, state.model, state.url),
     key |-> EffectiveKey(state.provider, state.key)]

\* get_models_for_provider: what a user can choose from.
ModelChoices(p) ==
    Models(p) \cup (IF p = "custom" /\ active.custom # None THEN {active.custom} ELSE {})

------------------------------------------------------------------------------
(* Module import: the environment's PROVIDER, MODEL, BASE_URL and           *)
(* CUSTOM_MODEL_NAME.  An unknown provider or model gives the default.      *)
ConfigInit ==
    /\ \E p \in Providers : \E m \in Models(p) :
       \E url \in {None} \cup (IF p \in Customizable THEN UrlsFor[p] ELSE {}) :
       \E custom \in {None} \cup (IF p = "custom" THEN CustomModels ELSE {}) :
           active = [provider |-> p, model |-> m, key |-> None, url |-> url, custom |-> custom]
    /\ built = None
    /\ switches = 0

\* Builds first and commits afterwards; an unknown provider, or a client that
\* cannot be constructed, leaves the settings as they were.
Commit(candidate) ==
    /\ switches < MaxSwitches
    /\ switches' = switches + 1
    /\ UrlAllowed(candidate.provider, candidate.url)
    /\ active' = candidate
    /\ built' = BuiltFrom(candidate)

Refused ==
    /\ switches < MaxSwitches
    /\ switches' = switches + 1
    /\ UNCHANGED <<active, built>>

Stripped(url) == IF url = Slashes THEN Blank ELSE url

\* Fault: the key of the provider before is kept.
KeptAnyway(p, key) ==
    IF key = None THEN active.key ELSE IF key = Blank THEN None ELSE key

\* A missing key keeps the current one, but never across providers.
NextKey(p, key) ==
    IF key = None THEN (IF p # active.provider THEN None ELSE active.key)
    ELSE IF key = Blank THEN None ELSE key

NextUrl(p, url) ==
    IF p \notin Customizable THEN None
    ELSE IF url = None THEN (IF p # active.provider THEN None ELSE active.url)
    ELSE IF url = Blank THEN None ELSE Stripped(url)

\* A blank model keeps the model of whatever provider was active before.
NextModel(p, model, custom) ==
    IF p = "custom" /\ custom # None THEN custom
    ELSE IF model \notin {None, Blank} THEN model
    ELSE IF model = None /\ p # active.provider THEN DefaultModel(p)
    ELSE active.model

SwitchProvider(p, model, key, url, custom) ==
    Commit([provider |-> p,
            model |-> NextModel(p, model, custom),
            key |-> NextKey(p, key),
            url |-> NextUrl(p, url),
            custom |-> IF p = "custom" /\ custom # None THEN custom ELSE active.custom])

SetApiKey(key) == Commit([active EXCEPT !.key = IF key = Blank THEN None ELSE key])

SetCustomBaseUrl(url) ==
    /\ active.provider \in Customizable
    /\ Commit([active EXCEPT !.url = IF url \in {None, Blank} THEN None ELSE Stripped(url)])

\* get_active_llm_provider, get_active_client and get_active_model_config: the
\* first of them to be called builds the provider.
ActiveProvider == IF built = None THEN BuiltFrom(active) ELSE built
BuildIfNeeded == built' = ActiveProvider /\ UNCHANGED <<active, switches>>

\* The settings form sends a key or an address only if one is typed in, and
\* people type those of the provider the form shows.
Configure ==
    \/ \E p \in Providers : \E model \in ModelChoices(p) \cup {None, Blank},
             key \in KeysFor[p] \cup {None, Blank},
             url \in UrlsFor[p] \cup {None, Blank, Slashes},
             custom \in CustomModels \cup {None} :
          SwitchProvider(p, model, key, url, custom)
    \/ \E key \in KeysFor[active.provider] \cup {Blank} : SetApiKey(key)
    \/ \E url \in UrlsFor[active.provider] \cup {None, Blank, Slashes} : SetCustomBaseUrl(url)
    \/ Refused

\* A key or an address goes only to the provider it was entered for.
MeantFor(provider) ==
    LET p == provider.config.provider
    IN  /\ provider.key \in KeysFor[p] \cup {EnvKey[p], NoKey}
        /\ provider.config.url \in UrlsFor[p] \cup {DefaultUrl[p]}
=============================================================================
