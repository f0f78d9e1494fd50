------------------------- MODULE MCPolicyGovernance -------------------------
(* PolicyGovernance for TLC: requests, principals and plans are interchangeable. *)
EXTENDS PolicyGovernance, TLC

Symmetry == Permutations(Slots) \cup Permutations(Principals) \cup Permutations(Plans)
=============================================================================
