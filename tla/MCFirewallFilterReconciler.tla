--------------------- MODULE MCFirewallFilterReconciler ---------------------
(* Small instances of FirewallFilterReconciler. *)
EXTENDS FirewallFilterReconciler

CONSTANTS K1, K2   \* credentials, of which only equality matters
CredSymmetry == Permutations({K1, K2})

Row(comment) == [comment |-> comment]
Dynamic      == [comment |-> "dyn", dynamic |-> "true", packets |-> "0"]
MCDefaults   == [dynamic |-> "false", packets |-> "0"]
MCCanonical  == [v \in {} |-> v]
MCCounters   == {"packets"}
NoCounters   == {}
MCSelectors  == {[dynamic |-> "true"], [dynamic |-> "yes"]}

OneRouter  == {"r1"}
Found(comment) == Stored(Row(comment))
HandMade   == {<<Found("h"), Found("a")>>}
Mixed      == {<<Dynamic, Found("h")>>}
HandOnly   == {<<Found("h")>>}
HandRowSet == {Row("g")}
None       == {}

OneMenu    == {"m1"}
TwoMenus   == {"m1", "m2"}
ByName     == [m \in {"m1", "m2"} |-> IF m = "m1" THEN 1 ELSE 2]
Sole       == [m \in {"m1"} |-> 1]
OneConfig  == {"c1"}
TwoConfigs == {"c1", "c2"}

Obj(unlisted, policy, config, rows) ==
  [unlisted |-> unlisted, policy |-> policy, config |-> config, rows |-> rows]
Resolves(target, cred, ok) == [target |-> target, cred |-> cred, ok |-> ok]

\* Adoption: a prune that deletes and creates, and an object that tolerates all.
AdoptionSpecs == {Obj("prune", "Orphan", "c1", <<Row("a")>>), Obj("tolerate", "Orphan", "c1", <<>>)}
AdoptionConfs == {Resolves("r1", K1, TRUE), Resolves("r1", K2, TRUE)}

\* Ownership: two objects for one router through two ProviderConfigs.
OwnershipSpecs == {Obj("prune", "Delete", "c1", <<Row("a")>>),
                   Obj("tolerate", "Orphan", "c2", <<Row("b")>>)}
WaitingSpecs == {Obj("prune", "Delete", c, <<Row("a")>>) : c \in TwoConfigs}
OwnershipConfs == {Resolves("r1", K1, TRUE)}

\* One object, adopted or deleted under traffic.
LiveSpecs == {Obj("prune", "Delete", "c1", <<Row("a")>>)}
LiveConfs == {Resolves("r1", K1, TRUE), Resolves("r1", K1, FALSE)}
=============================================================================
