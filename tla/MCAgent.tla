------------------------------- MODULE MCAgent -------------------------------
(* An instance of Agent for TLC. *)
EXTENDS Agent, TLC

CONSTANTS a1, a2, e1, e2, g1, g2

TwoApps == {a1, a2}
TwoEndpoints == {e1, e2}
TwoGateways == {g1, g2}

\* Applications, endpoints and gateways are interchangeable.
Alike == Permutations(IDs) \cup Permutations(Endpoints) \cup Permutations(Gateways)
=============================================================================
