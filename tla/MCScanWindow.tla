---------------------------- MODULE MCScanWindow ----------------------------
(* Instances of ScanWindow: module a is steady and prompt, b is prompt, and  *)
(* c announces itself less than once per window.                             *)
EXTENDS ScanWindow

CONSTANTS a, b, c

Shortest == [m \in Modules |-> IF m = c THEN 4 ELSE 2]
Longest  == [m \in Modules |-> CASE m = a -> 3 [] m = b -> 3 [] m = c -> 6]
=============================================================================
