--------------------------- MODULE MCSecurityKeys ---------------------------
(***************************************************************************)
(* Two windows of a user without keys: two presses in the first, one in    *)
(* the second.                                                             *)
(***************************************************************************)
EXTENDS SecurityKeys, TLC

CONSTANTS w1, w2

MCWindows    == {w1, w2}
MCCallsOf(w) == IF w = w1 THEN {1, 2} ELSE {3}
=============================================================================
