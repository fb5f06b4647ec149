------------------------------ MODULE MCDriver ------------------------------
(* Two modules, two addresses, memory for two nodes and three descriptors:  *)
(* a module may turn up at the address of the other, a freed node can stay  *)
(* free while its module is adopted again, or be handed out while main      *)
(* still points to it.                                                      *)
EXTENDS Driver, TLC

Symmetry ==
    Permutations(Modules) \union Permutations(Ips) \union Permutations(Nodes) \union Permutations(Fds)
=============================================================================
