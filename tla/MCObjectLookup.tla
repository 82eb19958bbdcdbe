--------------------------- MODULE MCObjectLookup ---------------------------
(* ObjectLookup for TLC: nothing expires before the clock's last value. *)
EXTENDS ObjectLookup

CONSTANTS a, b, r1, r2

MCObjects == {a, b}
NoKeeps == {{}}
=============================================================================
