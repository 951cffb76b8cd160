----------------------------- MODULE MCOtpPage -----------------------------
(* Three codes, shown for one or two seconds. *)
EXTENDS OtpPage
=============================================================================
