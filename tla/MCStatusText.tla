---------------------------- MODULE MCStatusText ----------------------------
(***************************************************************************)
(* Model-checking instance of StatusText: the sids are "A", "b" and one of *)
(* a quotation mark and a control character; the test sid is "t".  Behind  *)
(* the buffer there is a zero, a closing brace, or one after a digit.      *)
(***************************************************************************)
EXTENDS StatusText

MCNames == {<<65>>, <<98>>, <<34, 1>>}
MCTestName == <<116>>
MCBeyond == {<<>>, <<125>>, <<48, 125>>}
=============================================================================
