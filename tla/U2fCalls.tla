------------------------------ MODULE U2fCalls ------------------------------
(***************************************************************************)
(* What the U2F library of the browser promises to the scripts that call   *)
(* u2f.register and u2f.sign, with nothing of the port, the request ids or *)
(* the table of callbacks: a call is made once, and its callback runs at   *)
(* most once, with an answer to the very request of the call.              *)
(*                                                                         *)
(* U2fApi is shown to implement this specification; SecurityKeys builds    *)
(* the registration page on top of it.                                     *)
(***************************************************************************)
EXTENDS Sequences

CONSTANTS
  Calls,      \* the calls of u2f.register and u2f.sign
  Codes       \* the outcomes an answer carries ("OK" or an error code)

VARIABLES
  asked,      \* the calls made so far
  got         \* got[c]: the answers the callback of c has been run with

callsVars == <<asked, got>>

\* The answers to the request of call c.
AnswersTo(c) == [to : {c}, code : Codes]

Init ==
  /\ asked = {}
  /\ got   = [c \in Calls |-> << >>]

Ask(c) ==
  /\ c \notin asked
  /\ asked' = asked \cup {c}
  /\ UNCHANGED got

Answer(c, a) ==
  /\ c \in asked
  /\ got[c] = << >>
  /\ got' = [got EXCEPT ![c] = <<a>>]
  /\ UNCHANGED asked

Next == \E c \in Calls : Ask(c) \/ \E a \in AnswersTo(c) : Answer(c, a)

Spec == Init /\ [][Next]_callsVars
=============================================================================
