----------------------------- MODULE StatusSize -----------------------------
(***************************************************************************)
(* How long the text of the status file is, from the members of its        *)
(* object alone, [key, val]: what StatusFile has in place of the text.     *)
(***************************************************************************)
EXTENDS Naturals, Sequences

CONSTANT TestSid

Json == INSTANCE CJson

\* cJSON_Print() makes braces, and per member a line with tabs, quotes, colon, comma, the key
\* (16 characters; "test_sid" has 8) and a decimal number.
Digits(v) == Len(Json!PrintNumber(v))
Line(m) == (IF m.key = TestSid THEN 15 ELSE 23) + Digits(m.val)
Size(o) == 2 + Json!Total([k \in DOMAIN o |-> Line(o[k])])
=============================================================================
