---------------------------- MODULE MCPolicyImports ----------------------------
(* Instances of the policy lane small enough for TLC. *)
EXTENDS PolicyImports, TLC

(* Every import is a document of its own. *)
OwnSources == [i \in Imports |-> i]

PolicySymmetry ==
    Permutations(ImportWorkers) \cup Permutations(Calls) \cup Permutations(Admins)
================================================================================
