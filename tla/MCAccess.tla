------------------------------ MODULE MCAccess ------------------------------
(* An instance of Access for TLC. *)
EXTENDS Access

CONSTANTS h1, h2, s1, s2, c0, c1

TwoHandlers == {h1, h2}
TwoSessions == {s1, s2}
ThreeTokens == {0, 1, 2}
TwoIDs == {1, 2}
TwoConfigs == {c0, c1}
=============================================================================
