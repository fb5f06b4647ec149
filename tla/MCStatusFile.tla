---------------------------- MODULE MCStatusFile ----------------------------
(***************************************************************************)
(* Model-checking instance of StatusFile: values of one and of four digits *)
(* are 1 and 1000; a torn write may leave any one or two members.          *)
(***************************************************************************)
EXTENDS StatusFile, TLC

MCSplices == UNION {[1..n -> [key : Sids \union {TestSid}, val : {0, 1}]] : n \in 1..2}
Symmetry == Permutations(Sids)
=============================================================================
