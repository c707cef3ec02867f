----------------------------- MODULE MCIdentity -----------------------------
(* Small instances of Identity for TLC: two brokers share a topic.         *)
EXTENDS Identity, TLC

CONSTANTS e1, e2, b1, b2, b3

MCEntries == {e1, e2}
MCBrokers == {b1, b2, b3}
MCTopicOf == b1 :> "stack" @@ b2 :> "stack" @@ b3 :> "plant_stack"

Symmetries ==
  {f @@ g : f \in Permutations(MCEntries), g \in Permutations({b1, b2})}
=============================================================================
