------------------------------ MODULE MCScanner ------------------------------
(***************************************************************************)
(* Model-checking instances of Scanner.  Modules, addresses and            *)
(* descriptors are interchangeable, which the safety runs exploit.         *)
(***************************************************************************)
EXTENDS Scanner, TLC

Symmetry == Permutations(Modules) \union Permutations(Ips) \union Permutations(Fds)
=============================================================================
