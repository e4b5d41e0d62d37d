--------------------------- MODULE MCAgentDriver ---------------------------
(* Instances of AgentDriver for TLC. *)
EXTENDS AgentDriver, TLC

CONSTANTS m1, m2, m3
MCParkedNone == <<>>
MCParkedOne == <<m1>>
Interchangeable == Permutations(Messages)
=============================================================================
