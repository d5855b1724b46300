----------------------------- MODULE MCRouting -----------------------------
(* Configurations of Routing for TLC.  Both providers list "m2", as two     *)
(* providers of the same open model do.                                     *)
EXTENDS Routing

Symmetry == Permutations(Requests)

MCProviders == {"openai", "google"}
MCModelsOf == [openai |-> {"m1", "m2"}, google |-> {"m2", "m3"}]
MCEwmas == [openai |-> 2, google |-> 1]

Entry(p, m, price, prio) ==
    [provider |-> p, model |-> m, costIn |-> price, costOut |-> price, priority |-> prio,
     weight |-> prio]

\* "a2" is an alias of a model both list, "b2" an alias of that one; "a1" names an alias
\* that sorts behind it, and so dangles; "m3" is taken.
MCAliases == << <<"a1", "b2">>, <<"a2", "m2">>, <<"b2", "a2">>, <<"m3", "m1">> >>

\* "m9" is a model of a provider without a key; without it "other" has no prices, and
\* the cost strategy rotates; "a2" is listed by its alias.
MCGroups == [spread |-> <<Entry("openai", "m1", 0, 0), Entry("google", "m3", 0, 0)>>,
             other |-> <<Entry("google", "m9", 1, 0), Entry("google", "a2", 0, 1),
                         Entry("openai", "m1", 0, 2)>>]
MCStrategyOf == [spread |-> "round_robin", other |-> "cost_optimized"]

\* An alias of an alias, which RegisterAlias accepts.
ChainAliases == << <<"a2", "m2">>, <<"b2", "a2">> >>

\* A group candidate named by its alias, which NewRouter accepts.
AliasGroups == [spread |-> <<Entry("openai", "m1", 0, 0), Entry("google", "a3", 0, 0)>>]
AliasAliases == << <<"a3", "m3">> >>

\* A group candidate whose model both providers list.
SharedGroups == [spread |-> <<Entry("openai", "m2", 0, 0), Entry("google", "m3", 0, 0)>>]

SpreadStrategyOf == [spread |-> "round_robin"]
=============================================================================
