------------------------------ MODULE Routing ------------------------------
(***************************************************************************)
(* The provider registry (internal/provider/registry.go) as start-up fills *)
(* it (buildProviders in cmd/gateway/main.go), and the router that serves  *)
(* requests from it (internal/router): resolve the name, drop the          *)
(* candidates whose breaker is open, let the strategy pick one.            *)
(*                                                                         *)
(* Providers are registered in the random order of a Go map, aliases in    *)
(* the order of their names; after that the registry does not change.      *)
(* Requests run concurrently.  filterHealthy asks one breaker after the    *)
(* other, and breakers open and close in between.                          *)
(***************************************************************************)
EXTENDS Strategies, FiniteSets

CONSTANTS Providers,       \* the configured providers with an API key
          ModelsOf,        \* the models each of them lists
          Aliases,         \* model_aliases as <<alias, target>>, sorted by alias
          Groups,          \* model_groups: name -> sequence of candidates
          StrategyOf,      \* the strategy of each group (its own or the default)
          DefaultStrategy, \* the strategy of requests that name no group
          Unknown,         \* a name nobody configured
          Ewmas,           \* the latencies measured so far: provider -> value
          Draws,           \* resolution of the weighted strategy's random number
          Requests,        \* request identifiers
          MaxFlips         \* bound on the times a breaker opens or closes

ASSUME RoutingAssumption ==
    /\ DOMAIN ModelsOf = Providers
    /\ DOMAIN StrategyOf = DOMAIN Groups
    /\ Draws \in Nat \ {0} /\ MaxFlips \in Nat

VARIABLES todo,      \* providers buildProviders has not reached
          nextAlias, \* the alias to register next
          models,    \* Registry.models: name -> provider
          aliases,   \* Registry.aliases: alias -> target
          down,      \* providers whose breaker is open
          flips,     \* how often a breaker has opened or closed
          counters,  \* RoundRobin.counters: group -> requests so far
          pc,        \* "idle", "filter", "select" or "answered", per request
          name,      \* the model field of the request
          cands,     \* the candidates the name stands for
          asked,     \* how many of them filterHealthy has asked about
          healthy,   \* the ones it has kept
          answer,    \* Route's result
          seenDown,  \* ghost: providers that were down at some moment of the request
          someUp     \* ghost: at every moment of the request a candidate was up

registryVars == <<todo, nextAlias, models, aliases>>
requestVars == <<pc, name, cands, asked, healthy, answer, seenDown, someUp>>
vars == <<registryVars, down, flips, counters, requestVars>>

Models == UNION {ModelsOf[p] : p \in Providers}
AliasNames == {Aliases[i][1] : i \in DOMAIN Aliases}
Names == Models \cup AliasNames \cup DOMAIN Groups \cup {Unknown}

\* RequestMeta.Group: requests that name no group share the key "".
Keys == DOMAIN Groups \cup {""}

\* Mutant: all groups share a counter.
KeyShared(n) == ""

Key(n) == IF n \in DOMAIN Groups THEN n ELSE ""

NoAnswer == [status |-> "none"]

Init ==
    /\ todo = Providers /\ nextAlias = 1
    /\ models = <<>> /\ aliases = <<>>
    /\ down = {} /\ flips = 0
    /\ counters = [k \in Keys |-> 0]
    /\ pc = [r \in Requests |-> "idle"]
    /\ name = [r \in Requests |-> Unknown]
    /\ cands = [r \in Requests |-> <<>>]
    /\ asked = [r \in Requests |-> 0]
    /\ healthy = [r \in Requests |-> <<>>]
    /\ answer = [r \in Requests |-> NoAnswer]
    /\ seenDown = [r \in Requests |-> {}]
    /\ someUp = [r \in Requests |-> TRUE]

-----------------------------------------------------------------------------
(* The registry, filled once at start-up.                                  *)

\* Every model the provider lists becomes its own, whoever had it before.
Register(p) ==
    /\ p \in todo
    /\ models' = [m \in DOMAIN models \cup ModelsOf[p] |->
                    IF m \in ModelsOf[p] THEN p ELSE models[m]]
    /\ todo' = todo \ {p}
    /\ UNCHANGED <<nextAlias, aliases, down, flips, counters, requestVars>>

\* Fails, leaving the registry alone, for an alias that is taken or whose target nobody
\* registered; buildProviders then goes on with the next one.
AddAlias(alias, target) ==
    IF alias \notin DOMAIN models /\ target \in DOMAIN models
    THEN /\ models' = [m \in DOMAIN models \cup {alias} |->
                         IF m = alias THEN models[target] ELSE models[m]]
         /\ aliases' = [a \in DOMAIN aliases \cup {alias} |->
                          IF a = alias THEN target ELSE aliases[a]]
    ELSE UNCHANGED <<models, aliases>>

\* Mutant: aliases are registered before all the providers are.
RegisterAliasEarly ==
    /\ nextAlias <= Len(Aliases)
    /\ AddAlias(Aliases[nextAlias][1], Aliases[nextAlias][2])
    /\ nextAlias' = nextAlias + 1
    /\ UNCHANGED <<todo, down, flips, counters, requestVars>>

RegisterAlias ==
    /\ todo = {} /\ nextAlias <= Len(Aliases)
    /\ AddAlias(Aliases[nextAlias][1], Aliases[nextAlias][2])
    /\ nextAlias' = nextAlias + 1
    /\ UNCHANGED <<todo, down, flips, counters, requestVars>>

CanonicalModel(n) == IF n \in DOMAIN aliases THEN aliases[n] ELSE n

\* Mutant: the server does not wait for the aliases.
ServingEarly == todo = {}

\* main starts the server when buildProviders has returned.
Serving == todo = {} /\ nextAlias > Len(Aliases)

-----------------------------------------------------------------------------
(* The router.                                                             *)

\* A group's candidates in the order of the configuration.  One whose model is not
\* registered is skipped; the provider is the one the registry has for the model.
expandGroup(g) ==
    LET known == SelectSeq(Groups[g], LAMBDA c : c.model \in DOMAIN models)
    IN  [i \in DOMAIN known |-> [known[i] EXCEPT !.provider = models[known[i].model]]]

\* The prices of a single candidate do not matter: the choice is forced.
resolveCandidates(n) ==
    IF n \in DOMAIN Groups THEN expandGroup(n)
    ELSE <<[provider |-> models[n], model |-> CanonicalModel(n), costIn |-> 0,
            costOut |-> 0, priority |-> 0, weight |-> 1]>>

\* The request has reached Route: a name that is neither a group nor registered is 400
\* invalid_model.
Resolve(r, n) ==
    /\ Serving /\ pc[r] = "idle"
    /\ name' = [name EXCEPT ![r] = n]
    /\ IF n \in DOMAIN Groups \cup DOMAIN models
       THEN /\ cands' = [cands EXCEPT ![r] = resolveCandidates(n)]
            /\ pc' = [pc EXCEPT ![r] = "filter"]
            /\ seenDown' = [seenDown EXCEPT ![r] = down]
            /\ someUp' = [someUp EXCEPT ![r] =
                            \E c \in Range(resolveCandidates(n)) : c.provider \notin down]
            /\ UNCHANGED answer
       ELSE /\ answer' = [answer EXCEPT ![r] = [status |-> "400"]]
            /\ pc' = [pc EXCEPT ![r] = "answered"]
            /\ UNCHANGED <<cands, seenDown, someUp>>
    /\ UNCHANGED <<registryVars, down, flips, counters, asked, healthy>>

\* Mutant: the scan ends at the first candidate that is down.
filterHealthyBreaks(r) ==
    /\ pc[r] = "filter" /\ asked[r] < Len(cands[r])
    /\ LET c == cands[r][asked[r] + 1] IN
       IF c.provider \in down
       THEN /\ asked' = [asked EXCEPT ![r] = Len(cands[r])]
            /\ UNCHANGED healthy
       ELSE /\ asked' = [asked EXCEPT ![r] = @ + 1]
            /\ healthy' = [healthy EXCEPT ![r] = Append(@, c)]
    /\ UNCHANGED <<registryVars, down, flips, counters, pc, name, cands, answer, seenDown,
                   someUp>>

\* One turn of filterHealthy's loop: IsHealthy takes and releases this breaker's lock.
filterHealthy(r) ==
    /\ pc[r] = "filter" /\ asked[r] < Len(cands[r])
    /\ asked' = [asked EXCEPT ![r] = @ + 1]
    /\ LET c == cands[r][asked[r] + 1] IN
       healthy' = IF c.provider \in down THEN healthy
                  ELSE [healthy EXCEPT ![r] = Append(@, c)]
    /\ UNCHANGED <<registryVars, down, flips, counters, pc, name, cands, answer, seenDown,
                   someUp>>

\* The loop is over: without candidates the answer is 503 all_providers_down.
Filtered(r) ==
    /\ pc[r] = "filter" /\ asked[r] = Len(cands[r])
    /\ IF healthy[r] = <<>>
       THEN /\ answer' = [answer EXCEPT ![r] = [status |-> "503"]]
            /\ pc' = [pc EXCEPT ![r] = "answered"]
       ELSE /\ pc' = [pc EXCEPT ![r] = "select"]
            /\ UNCHANGED answer
    /\ UNCHANGED <<registryVars, down, flips, counters, name, cands, asked, healthy, seenDown,
                   someUp>>

\* Route: a group has its own strategy or the default one.
strategyFor(n) == IF n \in DOMAIN Groups THEN StrategyOf[n] ELSE DefaultStrategy

\* The strategy, for want of anything to rank by, turns to the group's counter.
Rotates(strategy, list) ==
    \/ strategy = "round_robin"
    \/ strategy = "cost_optimized" /\ \A c \in Range(list) : ~priced(c)
    \/ strategy = "latency_optimized" /\ \A c \in Range(list) : c.provider \notin DOMAIN Ewmas

\* The indices the strategy may return, over its random numbers.
Selectable(strategy, list, counter) ==
    CASE strategy = "priority" -> {SelectPriority(list)}
      [] strategy = "round_robin" -> {SelectRoundRobin(list, counter)}
      [] strategy = "weighted" -> {SelectWeighted(list, d, Draws) : d \in 0 .. Draws}
      [] strategy = "cost_optimized" -> {SelectCost(list, 1, 1, counter)}
      [] strategy = "latency_optimized" -> {SelectLatency(list, Ewmas, counter)}

\* The counter is read and advanced in one atomic operation.
Select(r) ==
    /\ pc[r] = "select"
    /\ LET k == Key(name[r])
           strategy == strategyFor(name[r])
       IN  /\ \E i \in Selectable(strategy, healthy[r], counters[k]) :
                answer' = [answer EXCEPT ![r] =
                             [status |-> "200", provider |-> healthy[r][i].provider,
                              model |-> healthy[r][i].model, index |-> i]]
           /\ counters' = IF Rotates(strategy, healthy[r])
                          THEN [counters EXCEPT ![k] = @ + 1] ELSE counters
    /\ pc' = [pc EXCEPT ![r] = "answered"]
    /\ UNCHANGED <<registryVars, down, flips, name, cands, asked, healthy, seenDown, someUp>>

\* The breaker of p opens or closes (module ProviderHealth).
Flip(p) ==
    /\ Serving /\ flips < MaxFlips
    /\ flips' = flips + 1
    /\ down' = IF p \in down THEN down \ {p} ELSE down \cup {p}
    /\ seenDown' = [r \in Requests |->
                      IF pc[r] = "filter" THEN seenDown[r] \cup down' ELSE seenDown[r]]
    /\ someUp' = [r \in Requests |->
                    IF pc[r] = "filter"
                    THEN someUp[r] /\ \E c \in Range(cands[r]) : c.provider \notin down'
                    ELSE someUp[r]]
    /\ UNCHANGED <<registryVars, counters, pc, name, cands, asked, healthy, answer>>

Next ==
    \/ \E p \in Providers : Register(p) \/ Flip(p)
    \/ RegisterAlias
    \/ \E r \in Requests : \/ \E n \in Names : Resolve(r, n)
                           \/ filterHealthy(r) \/ Filtered(r) \/ Select(r)

Spec == Init /\ [][Next]_vars

-----------------------------------------------------------------------------

\* The registry maps names to configured providers, a request keeps only candidates it
\* has asked about, and an answer is there exactly when Route has returned.
TypeOK ==
    /\ todo \subseteq Providers /\ nextAlias \in 1 .. Len(Aliases) + 1
    /\ DOMAIN models \subseteq Names /\ Range(models) \subseteq Providers
    /\ DOMAIN aliases \subseteq AliasNames /\ DOMAIN aliases \subseteq DOMAIN models
    /\ down \subseteq Providers /\ flips \in 0 .. MaxFlips
    /\ counters \in [Keys -> 0 .. Cardinality(Requests)]
    /\ \A r \in Requests :
         /\ pc[r] \in {"idle", "filter", "select", "answered"}
         /\ name[r] \in Names
         /\ asked[r] \in 0 .. Len(cands[r])
         /\ Len(healthy[r]) <= asked[r]
         /\ answer[r].status \in {"none", "200", "400", "503"}
         /\ (answer[r] = NoAnswer) = (pc[r] # "answered")

\* An alias and its target are always served by the same provider: buildProviders
\* registers the aliases when no Register can move the target any more.
AliasFollowsTarget ==
    \A a \in DOMAIN aliases : models[a] = models[aliases[a]]

\* The names the configuration gives a meaning to: the listed models, and the aliases
\* whose target is one of them or an alias with a meaning that sorts before.
Meaningful ==
    LET upTo[i \in 0 .. Len(Aliases)] ==
            IF i = 0 THEN Models
            ELSE upTo[i - 1] \cup (IF Aliases[i][2] \in upTo[i - 1] THEN {Aliases[i][1]} ELSE {})
    IN  upTo[Len(Aliases)]

\* What the configuration writes for a name: the models of a group, an alias's target.
WrittenFor(n) ==
    IF n \in DOMAIN Groups THEN {c.model : c \in Range(Groups[n])}
    ELSE {Aliases[i][2] : i \in {j \in DOMAIN Aliases : Aliases[j][1] = n}}

\* A configured name is served, whatever order the providers were registered in: 400
\* invalid_model is the answer to a name that is no group and has no meaning, and to no
\* other, for no request is served while start-up still fills the registry.  The model
\* sent upstream is one the chosen provider lists; only where the configuration itself
\* writes an alias, as an alias's target or in a group, it is that alias, unresolved.
ConfiguredNameIsServed ==
    \A r \in Requests :
        /\ pc[r] = "answered" =>
              (answer[r].status = "400" <=> name[r] \notin DOMAIN Groups \cup Meaningful)
        /\ answer[r].status = "200" =>
              \/ answer[r].model \in ModelsOf[answer[r].provider]
              \/ answer[r].model \in (Meaningful \ Models) \cap WrittenFor(name[r])

\* A request is refused with 503 only if it saw every candidate's breaker open, each at
\* some moment while Route was running.
RefusedOnlySeenDown ==
    \A r \in Requests : answer[r].status = "503" =>
        \A c \in Range(cands[r]) : c.provider \in seenDown[r]

\* Round robin shares a group evenly: as long as no request to the group lost a
\* candidate, the numbers of requests any two candidates got differ by at most one, with
\* requests to other groups and to single models interleaved anywhere.
RoundRobinEven ==
    \A g \in DOMAIN Groups : StrategyOf[g] = "round_robin" =>
        LET served == {r \in Requests : name[r] = g /\ answer[r].status = "200"}
            share(i) == Cardinality({r \in served : answer[r].index = i})
        IN  (\A r \in served : healthy[r] = cands[r]) =>
                \A i, j \in DOMAIN expandGroup(g) : share(i) <= share(j) + 1

-----------------------------------------------------------------------------
(* Claims of the documentation.                                            *)

\* CanonicalModel's comment: it returns the "canonical (upstream-recognised) model name".
CanonicalIsUpstream ==
    \A n \in DOMAIN models : CanonicalModel(n) \in ModelsOf[models[n]]

\* routing-strategies.md on Candidate.Model: the "canonical model name (post-alias
\* resolution)".
CandidateIsCanonical ==
    \A r \in Requests : \A c \in Range(cands[r]) : c.model \notin DOMAIN aliases

\* routing-strategies.md: a group is resolved "to a list of (provider, model, cost,
\* weight, priority) candidates"; each keeps the provider it is configured with.
CandidateKeepsProvider ==
    \A r \in Requests : name[r] \in DOMAIN Groups =>
        \A c \in Range(cands[r]) : c \in Range(Groups[name[r]])

\* api-spec.md: 503 all_providers_down is returned with all provider circuit breakers
\* open, so at some moment of the request no candidate was up.
RefusedWhenAllDown ==
    \A r \in Requests : answer[r].status = "503" => ~someUp[r]
=============================================================================
