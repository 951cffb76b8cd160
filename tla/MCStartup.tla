----------------------------- MODULE MCStartup -----------------------------
(* Instances of Startup for TLC. *)
EXTENDS Startup

CONSTANT otp

\* A complete answer, that of a server that is still starting, and one without
\* any acr.
MCAnswers == {{Default, otp}, {otp}, {}}
=============================================================================
