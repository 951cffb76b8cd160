------------------------------ MODULE MCU2fApi ------------------------------
(***************************************************************************)
(* Two registrations and a signature, answered with success or a timeout,  *)
(* with one stray message of the extension.                               *)
(***************************************************************************)
EXTENDS U2fApi, TLC

CONSTANTS r1, r2, s1

MCCalls     == {r1, r2, s1}
MCSignCalls == {s1}
MCCodes     == {"OK", "TIMEOUT"}
=============================================================================
