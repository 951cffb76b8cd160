--------------------------- MODULE MCEnrollment ---------------------------
(* Instances of Enrollment for TLC. *)
EXTENDS Enrollment, TLC

CONSTANTS ann, bob, plus, bare

\* "+1 555" and "1555": a number with and without punctuation.
MCBare(n) == bare
MCRegistered == (ann :> {bare}) @@ (bob :> {})
Symmetry == Permutations(Requests)
=============================================================================
