--------------------------- MODULE VerifiedPhones ---------------------------
(***************************************************************************)
(* What the enrolment of phones promises, with nothing of its codes, their *)
(* expiration, the requests that run in parallel and what they hold: a     *)
(* user gains one phone at a time, to which a code for this user was sent, *)
(* and loses none.  The exception is a user whose enrolments overlap, or   *)
(* whose phones could not be read: until these are over, the user's phones *)
(* may be replaced by others that were verified.                           *)
(*                                                                         *)
(* Enrollment is shown to implement this specification.                    *)
(***************************************************************************)
CONSTANTS
  Users,
  Numbers,
  Registered   \* the phones of each user to begin with

VARIABLES
  phones,      \* attribute "mobile" of each user's entry
  issued,      \* the numbers to which a code for a user was sent
  disturbed    \* users whose enrolments overlap

phonesVars == <<phones, issued, disturbed>>

\* The phones a user may have at all.
Verified(u) == Registered[u] \cup {n \in Numbers : <<u, n>> \in issued}

Init ==
  /\ phones = Registered
  /\ issued = {}
  /\ disturbed = {}

Send(u, n) ==
  /\ issued' = issued \cup {<<u, n>>}
  /\ UNCHANGED <<phones, disturbed>>

Enroll(u, n) ==
  /\ <<u, n>> \in issued
  /\ u \notin disturbed
  /\ phones' = [phones EXCEPT ![u] = @ \cup {n}]
  /\ UNCHANGED <<issued, disturbed>>

Overlap(u) ==
  /\ disturbed' = disturbed \cup {u}
  /\ UNCHANGED <<phones, issued>>

\* The last of the overlapping enrolments may end here, or by failing (Settle).
Replace(u, n, others) ==
  /\ u \in disturbed
  /\ <<u, n>> \in issued
  /\ others \subseteq Verified(u)
  /\ phones' = [phones EXCEPT ![u] = others \cup {n}]
  /\ disturbed' \in {disturbed, disturbed \ {u}}
  /\ UNCHANGED issued

Settle(u) ==
  /\ disturbed' = disturbed \ {u}
  /\ UNCHANGED <<phones, issued>>

Next ==
  \E u \in Users :
    \/ Overlap(u) \/ Settle(u)
    \/ \E n \in Numbers :
         \/ Send(u, n) \/ Enroll(u, n)
         \/ \E others \in SUBSET Numbers : Replace(u, n, others)

Spec == Init /\ [][Next]_phonesVars
=============================================================================
