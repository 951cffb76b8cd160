------------------------- MODULE Enrollment_Proofs -------------------------
(***************************************************************************)
(* Proofs about Enrollment, for any users, numbers, codes and number of    *)
(* requests, any life time of codes and any limit of entries.              *)
(***************************************************************************)
EXTENDS Enrollment, TLAPS

\* A code for the user was sent to every number that is stored, about to be
\* enrolled, or in a list of phones that will be written.
NumbersWereSent ==
  /\ \A k \in Stored : <<k[1], codes[k].number>> \in issued
  /\ \A r \in Requests :
       /\ req[r].pc \in {"read", "write"} => <<req[r].key[1], req[r].number>> \in issued
       /\ req[r].pc = "write" => \A n \in req[r].mobiles :
            n \in Registered[req[r].key[1]] \/ <<req[r].key[1], n>> \in issued

\* No code was put in the future.
ClockIsAhead == \A k \in Stored : codes[k].at <= now

\* No cleaning began in the future, ...
BeganBefore(r) == req[r].pc \in {"clean", "scan", "drop"} => req[r].since <= now

\* ... what it is to remove had expired when it began, or was put since, ...
StaleAreOldOrNew(r) ==
  req[r].pc \in {"scan", "drop"} => \A k \in req[r].stale \cap Stored :
    Expired(k, req[r].since) \/ codes[k].at >= req[r].since

\* ... and what it has looked at, and will not remove, had not expired.
TheRestIsFresh(r) ==
  \A k \in Stored :
    /\ req[r].pc = "scan" /\ k \in req[r].seen \ req[r].stale /\ k # req[r].held
         => ~Expired(k, req[r].since)
    /\ req[r].pc = "drop" /\ k \notin req[r].stale => ~Expired(k, req[r].since)

CleansWell(r) == BeganBefore(r) /\ StaleAreOldOrNew(r) /\ TheRestIsFresh(r)

\* An undisturbed user has one writer at most, which holds the user's phones.
OneWriter ==
  \A r \in Requests : req[r].pc = "write" /\ req[r].key[1] \notin disturbed =>
    /\ WritersOf(req[r].key[1]) = {r}
    /\ req[r].mobiles = phones[req[r].key[1]]

\* What a request may be.
Phases == {Idle} \cup Putting \cup Reducing \cup Cleaning \cup Scanning \cup Dropping
            \cup Reading \cup Writing \cup Removing

-----------------------------------------------------------------------------
\* What a request holds in each of its phases.
LEMMA PhaseOfRequest ==
  ASSUME TypeOK, NEW r \in Requests
  PROVE  /\ req[r].pc = "put" => req[r] \in Putting
         /\ req[r].pc = "clean" => req[r] \in Cleaning
         /\ req[r].pc = "scan" => req[r] \in Scanning
         /\ req[r].pc = "drop" => req[r] \in Dropping
         /\ req[r].pc = "read" => req[r] \in Reading
         /\ req[r].pc = "write" => req[r] \in Writing
         /\ req[r].pc = "remove" => req[r] \in Removing
BY DEF TypeOK, Idle, Putting, Reducing, Cleaning, Scanning, Dropping, Reading, Writing, Removing

\* What is stored is a code with its number and time.
LEMMA StoredAreEntries ==
  ASSUME TypeOK, NEW k \in Stored
  PROVE  k \in Keys /\ codes[k] \in Entries /\ codes[k].number \in Numbers /\ codes[k].at \in Time
BY DEF TypeOK, Stored, Entries, Time

LEMMA KeysArePairs ==
  ASSUME NEW k \in Keys
  PROVE  k[1] \in Users /\ k[2] \in Codes
BY DEF Keys

\* A step of the type invariant that only moves a request.
LEMMA MoveTypeOK ==
  ASSUME TypeOK, NEW r \in Requests, NEW q \in Phases,
         req' = [req EXCEPT ![r] = q],
         UNCHANGED <<now, codes, lastCleaning, phones, history>>
  PROVE  TypeOK'
BY DEF TypeOK, Phases, history, Time

LEMMA InitTypeOK == Init => TypeOK
BY TimeAssumption, RegisteredAssumption DEF Init, TypeOK, Time

LEMMA TickTypeOK == TypeOK /\ Tick => TypeOK'
BY TimeAssumption DEF Tick, TypeOK, Time, history

LEMMA SendCodeTypeOK ==
  ASSUME TypeOK, NEW r \in Requests, SendCode(r)
  PROVE  TypeOK'
<1>1. PICK u \in Users, n \in Numbers, c \in Codes :
        req' = [req EXCEPT ![r] = [pc |-> "put", key |-> <<u, c>>, number |-> n]]
  BY DEF SendCode
<1>2. [pc |-> "put", key |-> <<u, c>>, number |-> n] \in Phases
  BY DEF Phases, Putting, Keys
<1> QED
  BY <1>1, <1>2, MoveTypeOK DEF SendCode

LEMMA PutTypeOK ==
  ASSUME TypeOK, NEW r \in Requests, Put(r)
  PROVE  TypeOK'
<1> DEFINE k == req[r].key
           n == req[r].number
<1>1. k \in Keys /\ n \in Numbers /\ k[1] \in Users
  BY PhaseOfRequest, KeysArePairs DEF Put, Putting
<1>2. [number |-> n, at |-> now] \in Entries
  BY <1>1 DEF Entries, TypeOK, Time
<1>3. codes' \in [Keys -> Entries \cup {None}]
  BY <1>2 DEF Put, TypeOK
<1>4. issued' \in SUBSET (Users \X Numbers) /\ served' \in [Keys -> SUBSET Requests]
  BY <1>1 DEF Put, TypeOK
<1>5. req' \in [Requests -> Phases]
  BY DEF Put, TypeOK, Phases, Reducing
<1> QED
  BY <1>3, <1>4, <1>5 DEF Put, TypeOK, Phases, Time

LEMMA ReduceMapTypeOK ==
  ASSUME TypeOK, NEW r \in Requests, ReduceMap(r)
  PROVE  TypeOK'
<1>1. Idle \in Phases /\ [pc |-> "clean", since |-> now] \in Phases
  BY DEF Phases, Cleaning, TypeOK
<1>2. CASE req' = [req EXCEPT ![r] = Idle]
  BY <1>1, <1>2, MoveTypeOK DEF ReduceMap
<1>3. CASE req' = [req EXCEPT ![r] = [pc |-> "clean", since |-> now]]
  BY <1>1, <1>3, MoveTypeOK DEF ReduceMap
<1> QED
  BY <1>2, <1>3 DEF ReduceMap, End

LEMMA StartCleaningTypeOK ==
  ASSUME TypeOK, NEW r \in Requests, StartCleaning(r)
  PROVE  TypeOK'
<1>1. req[r].since \in Time
  BY PhaseOfRequest DEF StartCleaning, Cleaning
<1>2. [pc |-> "scan", since |-> req[r].since, held |-> None, seen |-> {}, stale |-> {}] \in Phases
  BY <1>1 DEF Phases, Scanning
<1> QED
  BY <1>1, <1>2 DEF StartCleaning, TypeOK, Phases, Time, history

LEMMA NextKeyTypeOK ==
  ASSUME TypeOK, NEW r \in Requests, NextKey(r)
  PROVE  TypeOK'
<1>1. req[r] \in Scanning
  BY PhaseOfRequest DEF NextKey
<1>2. PICK k \in Stored \ req[r].seen :
        req' = [req EXCEPT ![r].held = k, ![r].seen = @ \cup {k}]
  BY DEF NextKey
<1> DEFINE q == [req[r] EXCEPT !.held = k, !.seen = @ \cup {k}]
<1>3. q \in Scanning
  BY <1>1 DEF Scanning, Stored
<1>4. req' = [req EXCEPT ![r] = q]
  BY <1>1, <1>2 DEF Scanning, TypeOK
<1>5. q \in Phases
  BY <1>3 DEF Phases
<1> HIDE DEF q
<1> QED
  BY <1>4, <1>5, MoveTypeOK DEF NextKey

LEMMA LookAtKeyTypeOK ==
  ASSUME TypeOK, NEW r \in Requests, LookAtKey(r)
  PROVE  TypeOK'
<1>1. req[r] \in Scanning
  BY PhaseOfRequest DEF LookAtKey
<1> DEFINE more == IF Expired(req[r].held, req[r].since)
                   THEN req[r].stale \cup {req[r].held} ELSE req[r].stale
           q == [req[r] EXCEPT !.held = None, !.stale = more]
<1>2. CASE End(r)
  <2>1. Idle \in Phases
    BY DEF Phases
  <2> QED
    BY <1>2, <2>1, MoveTypeOK DEF LookAtKey, End
<1>3. CASE req' = [req EXCEPT ![r] = q]
  <2>1. req[r].held \in Keys
    BY <1>1 DEF Scanning, LookAtKey
  <2>2. more \in SUBSET Keys
    BY <1>1, <2>1 DEF Scanning
  <2> HIDE DEF more
  <2>3. q \in Scanning
    BY <1>1, <2>2 DEF Scanning
  <2>4. q \in Phases
    BY <2>3 DEF Phases
  <2> HIDE DEF q
  <2> QED
    BY <1>3, <2>4, MoveTypeOK DEF LookAtKey
<1>4. End(r) \/ req' = [req EXCEPT ![r] = q]
  BY <1>1 DEF LookAtKey, TypeOK, Scanning
<1> QED
  BY <1>2, <1>3, <1>4

LEMMA EndScanTypeOK ==
  ASSUME TypeOK, NEW r \in Requests, EndScan(r)
  PROVE  TypeOK'
<1>1. req[r] \in Scanning
  BY PhaseOfRequest DEF EndScan
<1>2. [pc |-> "drop", since |-> req[r].since, stale |-> req[r].stale] \in Phases
  BY <1>1 DEF Phases, Scanning, Dropping
<1> QED
  BY <1>2, MoveTypeOK DEF EndScan

LEMMA DropTypeOK ==
  ASSUME TypeOK, NEW r \in Requests, Drop(r)
  PROVE  TypeOK'
<1>1. req[r] \in Dropping
  BY PhaseOfRequest DEF Drop
<1>2. CASE End(r) /\ UNCHANGED codes
  <2>1. Idle \in Phases
    BY DEF Phases
  <2> QED
    BY <1>2, <2>1, MoveTypeOK DEF Drop, End
<1>3. ASSUME NEW k \in req[r].stale,
             codes' = [codes EXCEPT ![k] = None],
             req' = [req EXCEPT ![r].stale = @ \ {k}]
      PROVE  TypeOK'
  <2> DEFINE q == [req[r] EXCEPT !.stale = @ \ {k}]
  <2>1. q \in Dropping
    BY <1>1 DEF Dropping
  <2>2. q \in Phases
    BY <2>1 DEF Phases
  <2>3. req' = [req EXCEPT ![r] = q]
    BY <1>1, <1>3 DEF Dropping, TypeOK
  <2> HIDE DEF q
  <2>4. req' \in [Requests -> Phases]
    BY <2>2, <2>3 DEF TypeOK, Phases
  <2>5. codes' \in [Keys -> Entries \cup {None}]
    BY <1>3 DEF TypeOK
  <2> QED
    BY <2>4, <2>5 DEF Drop, TypeOK, Phases, Time, history
<1> QED
  BY <1>2, <1>3 DEF Drop

LEMMA FinishEnrollmentTypeOK ==
  ASSUME TypeOK, NEW r \in Requests, FinishEnrollment(r)
  PROVE  TypeOK'
<1>1. PICK k \in Stored :
        req' = [req EXCEPT ![r] = [pc |-> "read", key |-> k, number |-> codes[k].number]]
  BY DEF FinishEnrollment
<1>2. [pc |-> "read", key |-> k, number |-> codes[k].number] \in Phases
  BY StoredAreEntries DEF Phases, Reading
<1> QED
  BY <1>1, <1>2, MoveTypeOK DEF FinishEnrollment

LEMMA GetVerifiedPhonesTypeOK ==
  ASSUME TypeOK, NEW r \in Requests, GetVerifiedPhones(r)
  PROVE  TypeOK'
<1> DEFINE u == req[r].key[1]
           q(read) == [pc |-> "write", key |-> req[r].key, number |-> req[r].number,
                       mobiles |-> IF read THEN phones[u] ELSE {}]
<1>1. req[r] \in Reading
  BY PhaseOfRequest DEF GetVerifiedPhones
<1>2. u \in Users
  BY <1>1, KeysArePairs DEF Reading
<1>3. \A read \in BOOLEAN : q(read) \in Phases
  BY <1>1, <1>2 DEF Reading, Writing, Phases, TypeOK
<1>4. \E read \in BOOLEAN : req' = [req EXCEPT ![r] = q(read)]
  BY DEF GetVerifiedPhones
<1>5. disturbed' \in SUBSET Users
  BY <1>2 DEF GetVerifiedPhones, TypeOK
<1> HIDE DEF q
<1>6. req' \in [Requests -> Phases]
  BY <1>3, <1>4 DEF TypeOK, Phases
<1> QED
  BY <1>5, <1>6 DEF GetVerifiedPhones, TypeOK, Phases, Time

LEMMA UpdateMobilePhonesAddTypeOK ==
  ASSUME TypeOK, NEW r \in Requests, UpdateMobilePhonesAdd(r)
  PROVE  TypeOK'
<1> DEFINE u == req[r].key[1]
<1>1. req[r] \in Writing
  BY PhaseOfRequest DEF UpdateMobilePhonesAdd
<1>2. u \in Users
  BY <1>1, KeysArePairs DEF Writing
<1>3. req[r].mobiles \cup {req[r].number} \in SUBSET Numbers
  BY <1>1 DEF Writing
<1>4. phones' \in [Users -> SUBSET Numbers]
  BY <1>3 DEF UpdateMobilePhonesAdd, TypeOK
<1>5. Idle \in Phases /\ [pc |-> "remove", key |-> req[r].key] \in Phases
  BY <1>1 DEF Phases, Writing, Removing
<1>6. req' \in [Requests -> Phases]
  BY <1>5 DEF UpdateMobilePhonesAdd, End, TypeOK, Phases
<1>7. disturbed' \in SUBSET Users
  BY DEF UpdateMobilePhonesAdd, TypeOK
<1>8. served' \in [Keys -> SUBSET Requests]
  BY DEF UpdateMobilePhonesAdd, TypeOK
<1> QED
  BY <1>4, <1>6, <1>7, <1>8 DEF UpdateMobilePhonesAdd, TypeOK, Phases, Time

LEMMA RemoveCodeTypeOK ==
  ASSUME TypeOK, NEW r \in Requests, RemoveCode(r)
  PROVE  TypeOK'
<1>1. req[r].key \in Keys
  BY PhaseOfRequest DEF RemoveCode, Removing
<1>2. codes' \in [Keys -> Entries \cup {None}]
  BY <1>1 DEF RemoveCode, TypeOK
<1>3. req' \in [Requests -> Phases]
  BY DEF RemoveCode, End, TypeOK, Phases
<1> QED
  BY <1>2, <1>3 DEF RemoveCode, TypeOK, Phases, Time, history

LEMMA StepTypeOK == TypeOK /\ [Next]_vars => TypeOK'
<1> SUFFICES ASSUME TypeOK, [Next]_vars PROVE TypeOK'
  OBVIOUS
<1>1. CASE UNCHANGED vars
  BY <1>1 DEF vars, TypeOK, Time
<1>2. CASE Tick
  BY <1>2, TickTypeOK
<1>3. ASSUME NEW r \in Requests, SendCode(r) \/ FinishEnrollment(r)
      PROVE  TypeOK'
  BY <1>3, SendCodeTypeOK, FinishEnrollmentTypeOK
<1>4. ASSUME NEW r \in Requests, Step(r)
      PROVE  TypeOK'
  BY <1>4, PutTypeOK, ReduceMapTypeOK, StartCleaningTypeOK, NextKeyTypeOK, LookAtKeyTypeOK,
     EndScanTypeOK, DropTypeOK, GetVerifiedPhonesTypeOK, UpdateMobilePhonesAddTypeOK,
     RemoveCodeTypeOK DEF Step
<1> QED
  BY <1>1, <1>2, <1>3, <1>4 DEF Next

\* Codes, requests, phones and clock keep their types: codes never hold a time
\* ahead of the clock's range, whatever interleaving put them.
THEOREM TypeCorrect == Spec => []TypeOK
<1>1. Init => TypeOK
  BY InitTypeOK
<1>2. TypeOK /\ [Next]_vars => TypeOK'
  BY StepTypeOK
<1> QED
  BY <1>1, <1>2, PTL DEF Spec

-----------------------------------------------------------------------------
(* What a step does to the request that takes it, and to the others.         *)

LEMMA OthersStay ==
  ASSUME TypeOK, NEW r \in Requests, SendCode(r) \/ FinishEnrollment(r) \/ Step(r)
  PROVE  \A s \in Requests \ {r} : req'[s] = req[s]
<1> DEFINE stay == \A s \in Requests \ {r} : req'[s] = req[s]
<1>1. SendCode(r) \/ FinishEnrollment(r) => stay
  BY DEF TypeOK, SendCode, FinishEnrollment
<1>2. Put(r) \/ ReduceMap(r) \/ StartCleaning(r) => stay
  BY DEF TypeOK, Put, ReduceMap, StartCleaning, End
<1>3. NextKey(r) \/ LookAtKey(r) => stay
  BY DEF TypeOK, NextKey, LookAtKey, End
<1>4. EndScan(r) \/ Drop(r) => stay
  BY DEF TypeOK, EndScan, Drop, End
<1>5. GetVerifiedPhones(r) => stay
  BY DEF TypeOK, GetVerifiedPhones
<1>6. UpdateMobilePhonesAdd(r) \/ RemoveCode(r) => stay
  BY DEF TypeOK, UpdateMobilePhonesAdd, RemoveCode, End
<1> QED
  BY <1>1, <1>2, <1>3, <1>4, <1>5, <1>6 DEF Step

LEMMA Sending ==
  ASSUME TypeOK, NEW r \in Requests
  PROVE  /\ SendCode(r) => req'[r].pc = "put"
         /\ Put(r) => req'[r].pc = "reduce"
BY DEF TypeOK, SendCode, Put

LEMMA Beginning ==
  ASSUME TypeOK, NEW r \in Requests
  PROVE  /\ ReduceMap(r) => \/ req'[r].pc = "idle"
                            \/ req'[r].pc = "clean" /\ req'[r].since = now
         /\ StartCleaning(r) =>
              /\ req'[r].pc = "scan"
              /\ req'[r].since = req[r].since
              /\ req'[r].held = None /\ req'[r].seen = {} /\ req'[r].stale = {}
BY DEF TypeOK, ReduceMap, StartCleaning, End, Idle

LEMMA Meeting ==
  ASSUME TypeOK, NEW r \in Requests, NextKey(r)
  PROVE  \E k \in Stored \ req[r].seen :
           /\ req'[r].pc = "scan"
           /\ req'[r].since = req[r].since
           /\ req'[r].held = k
           /\ req'[r].seen = req[r].seen \cup {k}
           /\ req'[r].stale = req[r].stale
<1>1. req[r] \in Scanning
  BY PhaseOfRequest DEF NextKey
<1>2. PICK k \in Stored \ req[r].seen :
        req' = [req EXCEPT ![r].held = k, ![r].seen = @ \cup {k}]
  BY DEF NextKey
<1>3. req'[r] = [req[r] EXCEPT !.held = k, !.seen = @ \cup {k}]
  BY <1>1, <1>2 DEF TypeOK, Scanning
<1> QED
  BY <1>1, <1>3 DEF Scanning

LEMMA Looking ==
  ASSUME TypeOK, NEW r \in Requests, LookAtKey(r)
  PROVE  \/ req'[r].pc = "idle"
         \/ /\ codes[req[r].held] # None
            /\ req'[r].pc = "scan"
            /\ req'[r].since = req[r].since
            /\ req'[r].held = None
            /\ req'[r].seen = req[r].seen
            /\ req'[r].stale = IF Expired(req[r].held, req[r].since)
                               THEN req[r].stale \cup {req[r].held} ELSE req[r].stale
<1>1. req[r] \in Scanning
  BY PhaseOfRequest DEF LookAtKey
<1> DEFINE more == IF Expired(req[r].held, req[r].since)
                   THEN req[r].stale \cup {req[r].held} ELSE req[r].stale
           q == [req[r] EXCEPT !.held = None, !.stale = more]
<1>2. CASE codes[req[r].held] = None
  BY <1>2 DEF LookAtKey, End, Idle, TypeOK
<1>3. CASE codes[req[r].held] # None
  <2>1. req' = [req EXCEPT ![r] = q]
    BY <1>1, <1>3 DEF LookAtKey, TypeOK, Scanning
  <2> HIDE DEF more
  <2>2. req'[r] = q
    BY <2>1 DEF TypeOK
  <2>3. /\ q.pc = "scan" /\ q.since = req[r].since /\ q.held = None
        /\ q.seen = req[r].seen /\ q.stale = more
    BY <1>1 DEF Scanning
  <2> QED
    BY <1>3, <2>2, <2>3 DEF more
<1> QED
  BY <1>2, <1>3

LEMMA Leaving ==
  ASSUME TypeOK, NEW r \in Requests, EndScan(r)
  PROVE  /\ req'[r].pc = "drop"
         /\ req'[r].since = req[r].since
         /\ req'[r].stale = req[r].stale
BY DEF TypeOK, EndScan

LEMMA Dropped ==
  ASSUME TypeOK, NEW r \in Requests, Drop(r)
  PROVE  \/ req'[r].pc = "idle" /\ codes' = codes /\ req[r].stale = {}
         \/ \E k \in req[r].stale :
              /\ codes' = [codes EXCEPT ![k] = None]
              /\ req'[r].pc = "drop"
              /\ req'[r].since = req[r].since
              /\ req'[r].stale = req[r].stale \ {k}
<1>1. req[r] \in Dropping
  BY PhaseOfRequest DEF Drop
<1>2. CASE req[r].stale = {}
  BY <1>2 DEF Drop, End, Idle, TypeOK
<1>3. CASE req[r].stale # {}
  <2>1. PICK k \in req[r].stale :
          /\ codes' = [codes EXCEPT ![k] = None]
          /\ req' = [req EXCEPT ![r].stale = @ \ {k}]
    BY <1>3 DEF Drop
  <2>2. req'[r] = [req[r] EXCEPT !.stale = @ \ {k}]
    BY <1>1, <2>1 DEF TypeOK, Dropping
  <2>3. /\ req'[r].pc = "drop"
        /\ req'[r].since = req[r].since
        /\ req'[r].stale = req[r].stale \ {k}
    BY <1>1, <2>2 DEF Dropping
  <2> QED
    BY <2>1, <2>3
<1> QED
  BY <1>2, <1>3

LEMMA Finishing ==
  ASSUME TypeOK, NEW r \in Requests, FinishEnrollment(r)
  PROVE  \E k \in Stored :
           /\ ~Expired(k, now)
           /\ req'[r].pc = "read"
           /\ req'[r].key = k
           /\ req'[r].number = codes[k].number
BY DEF TypeOK, FinishEnrollment

LEMMA Enrolling ==
  ASSUME TypeOK, NEW r \in Requests
  PROVE  /\ GetVerifiedPhones(r) =>
              /\ req'[r].pc = "write"
              /\ req'[r].key = req[r].key
              /\ req'[r].number = req[r].number
              /\ \/ req'[r].mobiles = phones[req[r].key[1]]
                 \/ /\ req'[r].mobiles = {}
                    /\ req[r].key[1] \in disturbed'
              /\ disturbed \subseteq disturbed'
              /\ req[r].key[1] \in disturbed' \/ WritersOf(req[r].key[1]) = {}
         /\ UpdateMobilePhonesAdd(r) => req'[r].pc \in {"idle", "remove"}
         /\ RemoveCode(r) => req'[r].pc = "idle"
<1>1. ASSUME GetVerifiedPhones(r)
      PROVE  /\ req'[r].pc = "write"
             /\ req'[r].key = req[r].key
             /\ req'[r].number = req[r].number
             /\ \/ req'[r].mobiles = phones[req[r].key[1]]
                \/ /\ req'[r].mobiles = {}
                   /\ req[r].key[1] \in disturbed'
             /\ disturbed \subseteq disturbed'
             /\ req[r].key[1] \in disturbed' \/ WritersOf(req[r].key[1]) = {}
  <2> DEFINE u == req[r].key[1]
  <2>1. PICK read \in BOOLEAN :
          /\ req' = [req EXCEPT ![r] = [pc |-> "write", key |-> req[r].key,
                                        number |-> req[r].number,
                                        mobiles |-> IF read THEN phones[u] ELSE {}]]
          /\ disturbed' = IF WritersOf(u) # {} \/ ~read THEN disturbed \cup {u} ELSE disturbed
    BY <1>1 DEF GetVerifiedPhones
  <2>2. req'[r] = [pc |-> "write", key |-> req[r].key, number |-> req[r].number,
                   mobiles |-> IF read THEN phones[u] ELSE {}]
    BY <2>1 DEF TypeOK
  <2> QED
    BY <2>1, <2>2
<1>2. UpdateMobilePhonesAdd(r) => req'[r].pc \in {"idle", "remove"}
  BY DEF UpdateMobilePhonesAdd, End, Idle, TypeOK
<1>3. RemoveCode(r) => req'[r].pc = "idle"
  BY DEF RemoveCode, End, Idle, TypeOK
<1> QED
  BY <1>1, <1>2, <1>3

-----------------------------------------------------------------------------
(* Numbers are enrolled only if a code for their user was sent to them.      *)

\* Nothing changes for a request that does not carry a number afterwards.
LEMMA NumbersKept ==
  ASSUME NumbersWereSent, VerifiedNumbersOnly, NEW r \in Requests,
         \A s \in Requests \ {r} : req'[s] = req[s],
         req'[r].pc \notin {"read", "write"},
         \A k \in Stored' : k \in Stored /\ codes'[k] = codes[k],
         issued \subseteq issued', phones' = phones
  PROVE  NumbersWereSent' /\ VerifiedNumbersOnly'
<1>1. \A k \in Stored' : <<k[1], codes'[k].number>> \in issued'
  BY DEF NumbersWereSent
<1>2. \A s \in Requests :
        /\ req'[s].pc \in {"read", "write"} => <<req'[s].key[1], req'[s].number>> \in issued'
        /\ req'[s].pc = "write" => \A n \in req'[s].mobiles :
             n \in Registered[req'[s].key[1]] \/ <<req'[s].key[1], n>> \in issued'
  <2> TAKE s \in Requests
  <2>1. CASE s = r
    BY <2>1
  <2>2. CASE s # r
    BY <2>2 DEF NumbersWereSent
  <2> QED
    BY <2>1, <2>2
<1>3. VerifiedNumbersOnly'
  BY DEF VerifiedNumbersOnly
<1> QED
  BY <1>1, <1>2, <1>3 DEF NumbersWereSent

LEMMA NumbersStep ==
  ASSUME TypeOK, NumbersWereSent, VerifiedNumbersOnly, [Next]_vars
  PROVE  NumbersWereSent' /\ VerifiedNumbersOnly'
<1>1. CASE UNCHANGED vars \/ Tick
  BY <1>1 DEF vars, Tick, history, NumbersWereSent, VerifiedNumbersOnly, Stored
<1>2. ASSUME NEW r \in Requests, SendCode(r) \/ ReduceMap(r) \/ StartCleaning(r)
                                \/ NextKey(r) \/ LookAtKey(r) \/ EndScan(r)
      PROVE  NumbersWereSent' /\ VerifiedNumbersOnly'
  <2>1. \A s \in Requests \ {r} : req'[s] = req[s]
    BY <1>2, OthersStay DEF Step
  <2>2. req'[r].pc \notin {"read", "write"}
    BY <1>2, Sending, Beginning, Meeting, Looking, Leaving
  <2>3. UNCHANGED <<codes, phones, issued>>
    BY <1>2 DEF SendCode, ReduceMap, StartCleaning, NextKey, LookAtKey, EndScan, history
  <2> QED
    BY <2>1, <2>2, <2>3, NumbersKept DEF Stored
<1>3. ASSUME NEW r \in Requests, Put(r)
      PROVE  NumbersWereSent' /\ VerifiedNumbersOnly'
  <2> DEFINE k == req[r].key
             n == req[r].number
  <2>1. k \in Keys
    BY <1>3, PhaseOfRequest DEF Put, Putting
  <2>2. /\ codes' = [codes EXCEPT ![k] = [number |-> n, at |-> now]]
        /\ issued' = issued \cup {<<k[1], n>>}
        /\ phones' = phones
    BY <1>3 DEF Put
  <2>3. /\ \A s \in Requests \ {r} : req'[s] = req[s]
        /\ req'[r].pc = "reduce"
    BY <1>3, OthersStay, Sending DEF Step
  <2>4. codes'[k] = [number |-> n, at |-> now] /\ \A l \in Keys \ {k} : codes'[l] = codes[l]
    BY <2>1, <2>2 DEF TypeOK
  <2> HIDE DEF k, n
  <2>5. \A l \in Stored' : <<l[1], codes'[l].number>> \in issued'
    BY <2>2, <2>4 DEF Stored, NumbersWereSent
  <2>6. \A s \in Requests :
          /\ req'[s].pc \in {"read", "write"} => <<req'[s].key[1], req'[s].number>> \in issued'
          /\ req'[s].pc = "write" => \A m \in req'[s].mobiles :
               m \in Registered[req'[s].key[1]] \/ <<req'[s].key[1], m>> \in issued'
    <3> TAKE s \in Requests
    <3>1. CASE s = r
      BY <2>3, <3>1
    <3>2. CASE s # r
      BY <2>2, <2>3, <3>2 DEF NumbersWereSent
    <3> QED
      BY <3>1, <3>2
  <2>7. VerifiedNumbersOnly'
    BY <2>2 DEF VerifiedNumbersOnly
  <2> QED
    BY <2>5, <2>6, <2>7 DEF NumbersWereSent
<1>4. ASSUME NEW r \in Requests, Drop(r) \/ RemoveCode(r)
      PROVE  NumbersWereSent' /\ VerifiedNumbersOnly'
  <2>1. \A s \in Requests \ {r} : req'[s] = req[s]
    BY <1>4, OthersStay DEF Step
  <2>2. req'[r].pc \notin {"read", "write"}
    BY <1>4, Dropped, Enrolling
  <2>3. UNCHANGED <<phones, issued>>
    BY <1>4 DEF Drop, RemoveCode, history
  <2>4. \A k \in Stored' : k \in Stored /\ codes'[k] = codes[k]
    BY <1>4 DEF Drop, RemoveCode, Stored, TypeOK
  <2> QED
    BY <2>1, <2>2, <2>3, <2>4, NumbersKept
<1>5. ASSUME NEW r \in Requests, FinishEnrollment(r)
      PROVE  NumbersWereSent' /\ VerifiedNumbersOnly'
  <2>1. \A s \in Requests \ {r} : req'[s] = req[s]
    BY <1>5, OthersStay
  <2>2. UNCHANGED <<codes, phones, issued>>
    BY <1>5 DEF FinishEnrollment, history
  <2>3. req'[r].pc = "read" /\ <<req'[r].key[1], req'[r].number>> \in issued
    BY <1>5, Finishing DEF NumbersWereSent
  <2> QED
    BY <2>1, <2>2, <2>3 DEF NumbersWereSent, VerifiedNumbersOnly, Stored
<1>6. ASSUME NEW r \in Requests, GetVerifiedPhones(r)
      PROVE  NumbersWereSent' /\ VerifiedNumbersOnly'
  <2> DEFINE u == req[r].key[1]
  <2>1. \A s \in Requests \ {r} : req'[s] = req[s]
    BY <1>6, OthersStay DEF Step
  <2>2. UNCHANGED <<codes, phones, issued>>
    BY <1>6 DEF GetVerifiedPhones
  <2>3. u \in Users /\ <<u, req[r].number>> \in issued
    BY <1>6, PhaseOfRequest, KeysArePairs DEF GetVerifiedPhones, Reading, NumbersWereSent
  <2>4. /\ req'[r].pc = "write" /\ req'[r].key = req[r].key /\ req'[r].number = req[r].number
        /\ req'[r].mobiles \subseteq phones[u]
    BY <1>6, Enrolling
  <2>5. \A n \in req'[r].mobiles : n \in Registered[u] \/ <<u, n>> \in issued
    BY <2>3, <2>4 DEF VerifiedNumbersOnly
  <2> QED
    BY <2>1, <2>2, <2>3, <2>4, <2>5 DEF NumbersWereSent, VerifiedNumbersOnly, Stored
<1>7. ASSUME NEW r \in Requests, UpdateMobilePhonesAdd(r)
      PROVE  NumbersWereSent' /\ VerifiedNumbersOnly'
  <2> DEFINE u == req[r].key[1]
             new == req[r].mobiles \cup {req[r].number}
  <2>1. \A s \in Requests \ {r} : req'[s] = req[s]
    BY <1>7, OthersStay DEF Step
  <2>2. req'[r].pc \notin {"read", "write"}
    BY <1>7, Enrolling
  <2>3. UNCHANGED <<codes, issued>>
    BY <1>7 DEF UpdateMobilePhonesAdd
  <2>4. phones' = phones \/ phones' = [phones EXCEPT ![u] = new]
    BY <1>7 DEF UpdateMobilePhonesAdd
  <2>5. \A n \in new : n \in Registered[u] \/ <<u, n>> \in issued
    BY <1>7 DEF NumbersWereSent, UpdateMobilePhonesAdd
  <2> HIDE DEF u, new
  <2>6. VerifiedNumbersOnly'
    BY <2>3, <2>4, <2>5 DEF VerifiedNumbersOnly, TypeOK
  <2>7. NumbersWereSent'
    BY <2>1, <2>2, <2>3 DEF NumbersWereSent, Stored
  <2> QED
    BY <2>6, <2>7
<1> QED
  BY <1>1, <1>2, <1>3, <1>4, <1>5, <1>6, <1>7 DEF Next, Step

\* No interleaving of requests, cleanings and lost updates enrols a number for a
\* user to whom no code was sent there (finishEnrollment).
THEOREM NumbersAreVerified == Spec => []VerifiedNumbersOnly
<1> DEFINE Inv == TypeOK /\ NumbersWereSent /\ VerifiedNumbersOnly
<1>1. Init => Inv
  <2>1. Init => NumbersWereSent /\ VerifiedNumbersOnly
    BY DEF Init, NumbersWereSent, VerifiedNumbersOnly, Stored, Idle
  <2> QED
    BY <2>1, InitTypeOK
<1>2. Inv /\ [Next]_vars => Inv'
  BY StepTypeOK, NumbersStep
<1>3. Inv => VerifiedNumbersOnly
  OBVIOUS
<1> QED
  BY <1>1, <1>2, <1>3, PTL DEF Spec

-----------------------------------------------------------------------------
(* A code serves those only that found it before it was forgotten.           *)

\* A step of a request that neither looks a code up nor forgets one, while codes
\* at most go.
LEMMA ServedKept ==
  ASSUME CodesServeOverlappingRequests, NEW r \in Requests,
         \A s \in Requests \ {r} : req'[s] = req[s],
         req[r].pc # "remove", req'[r].pc \notin {"read", "write"},
         Stored' \subseteq Stored,
         \A k \in Keys : served'[k] \subseteq served[k],
         \A k \in Keys : served[k] \subseteq Requests
  PROVE  CodesServeOverlappingRequests'
<1> SUFFICES ASSUME NEW k \in Keys, NEW s \in served'[k]
             PROVE  /\ k \in Stored' => req'[s].pc = "remove" /\ req'[s].key = k
                    /\ req'[s].pc \in {"read", "write"} => req'[s].key # k
  BY DEF CodesServeOverlappingRequests
<1>1. /\ s \in Requests
      /\ k \in Stored => req[s].pc = "remove" /\ req[s].key = k
      /\ req[s].pc \in {"read", "write"} => req[s].key # k
  BY DEF CodesServeOverlappingRequests
<1>2. CASE s = r
  BY <1>1, <1>2
<1>3. CASE s # r
  BY <1>1, <1>3
<1> QED BY <1>2, <1>3

LEMMA ServedStep ==
  ASSUME TypeOK, CodesServeOverlappingRequests, [Next]_vars
  PROVE  CodesServeOverlappingRequests'
<1>t. \A k \in Keys : served[k] \subseteq Requests
  BY DEF TypeOK
<1>1. CASE UNCHANGED vars \/ Tick
  BY <1>1 DEF vars, Tick, history, CodesServeOverlappingRequests, Stored
<1>2. ASSUME NEW r \in Requests, SendCode(r) \/ ReduceMap(r) \/ StartCleaning(r)
                                \/ NextKey(r) \/ LookAtKey(r) \/ EndScan(r) \/ Drop(r)
      PROVE  CodesServeOverlappingRequests'
  <2>1. \A s \in Requests \ {r} : req'[s] = req[s]
    BY <1>2, OthersStay DEF Step
  <2>2. req'[r].pc \notin {"read", "write"}
    BY <1>2, Sending, Beginning, Meeting, Looking, Leaving, Dropped
  <2>3. req[r].pc # "remove" /\ served' = served
    BY <1>2 DEF SendCode, ReduceMap, StartCleaning, NextKey, LookAtKey, EndScan, Drop, Idle,
                history
  <2>4. Stored' \subseteq Stored
    BY <1>2 DEF SendCode, ReduceMap, StartCleaning, NextKey, LookAtKey, EndScan, Drop, Stored,
                TypeOK
  <2> QED BY <1>t, <2>1, <2>2, <2>3, <2>4, ServedKept
<1>3. ASSUME NEW r \in Requests, Put(r)
      PROVE  CodesServeOverlappingRequests'
  <2> DEFINE put == req[r].key
  <2>1. put \in Keys /\ req[r].pc = "put"
    BY <1>3, PhaseOfRequest DEF Put, Putting
  <2>2. /\ served'[put] = {}
        /\ \A k \in Keys \ {put} : served'[k] = served[k] /\ (k \in Stored' => k \in Stored)
    BY <1>3, <2>1 DEF Put, TypeOK, Stored
  <2>3. /\ \A s \in Requests \ {r} : req'[s] = req[s]
        /\ req'[r].pc = "reduce"
    BY <1>3, OthersStay, Sending DEF Step
  <2> SUFFICES ASSUME NEW k \in Keys \ {put}, NEW s \in served[k]
               PROVE  /\ k \in Stored' => req'[s].pc = "remove" /\ req'[s].key = k
                      /\ req'[s].pc \in {"read", "write"} => req'[s].key # k
    BY <2>2 DEF CodesServeOverlappingRequests
  <2>4. /\ s \in Requests
        /\ k \in Stored => req[s].pc = "remove" /\ req[s].key = k
        /\ req[s].pc \in {"read", "write"} => req[s].key # k
    BY <1>t DEF CodesServeOverlappingRequests
  <2>5. CASE s = r
    BY <2>1, <2>2, <2>3, <2>4, <2>5
  <2>6. CASE s # r
    BY <2>2, <2>3, <2>4, <2>6
  <2> QED BY <2>5, <2>6
<1>4. ASSUME NEW r \in Requests, FinishEnrollment(r) \/ GetVerifiedPhones(r)
      PROVE  CodesServeOverlappingRequests'
  <2>1. \A s \in Requests \ {r} : req'[s] = req[s]
    BY <1>4, OthersStay DEF Step
  <2>2. UNCHANGED <<codes, served>> /\ req[r].pc # "remove"
    BY <1>4 DEF FinishEnrollment, GetVerifiedPhones, Idle, history
  <2>3. /\ req'[r].pc \in {"read", "write"}
        /\ req'[r].key \in Stored \/ (req[r].pc = "read" /\ req'[r].key = req[r].key)
    BY <1>4, Finishing, Enrolling DEF GetVerifiedPhones
  <2> SUFFICES ASSUME NEW k \in Keys, NEW s \in served[k]
               PROVE  /\ k \in Stored => req'[s].pc = "remove" /\ req'[s].key = k
                      /\ req'[s].pc \in {"read", "write"} => req'[s].key # k
    BY <2>2 DEF CodesServeOverlappingRequests, Stored
  <2>4. /\ s \in Requests
        /\ k \in Stored => req[s].pc = "remove" /\ req[s].key = k
        /\ req[s].pc \in {"read", "write"} => req[s].key # k
    BY <1>t DEF CodesServeOverlappingRequests
  <2>5. CASE s = r
    BY <2>2, <2>3, <2>4, <2>5
  <2>6. CASE s # r
    BY <2>1, <2>4, <2>6
  <2> QED BY <2>5, <2>6
<1>5. ASSUME NEW r \in Requests, UpdateMobilePhonesAdd(r)
      PROVE  CodesServeOverlappingRequests'
  <2> DEFINE used == req[r].key
  <2>1. used \in Keys /\ req[r].pc = "write"
    BY <1>5, PhaseOfRequest DEF UpdateMobilePhonesAdd, Writing
  <2>2. \A s \in Requests \ {r} : req'[s] = req[s]
    BY <1>5, OthersStay DEF Step
  <2>3. codes' = codes /\ req'[r].pc \in {"idle", "remove"}
    BY <1>5, Enrolling DEF UpdateMobilePhonesAdd
  <2>4. CASE served' = served
    BY <1>t, <2>1, <2>2, <2>3, <2>4, ServedKept DEF Stored
  <2>5. CASE /\ req' = [req EXCEPT ![r] = [pc |-> "remove", key |-> used]]
             /\ served' = [served EXCEPT ![used] = @ \cup {r}]
    <3>1. req'[r].pc = "remove" /\ req'[r].key = used
      BY <2>5 DEF TypeOK
    <3>2. \A k \in Keys : \A s \in served'[k] : s \in served[k] \/ (s = r /\ k = used)
      BY <2>1, <2>5 DEF TypeOK
    <3> HIDE DEF used
    <3> SUFFICES ASSUME NEW k \in Keys, NEW s \in served'[k]
                 PROVE  /\ k \in Stored => req'[s].pc = "remove" /\ req'[s].key = k
                        /\ req'[s].pc \in {"read", "write"} => req'[s].key # k
      BY <2>3 DEF CodesServeOverlappingRequests, Stored
    <3>3. CASE s = r /\ k = used
      BY <3>1, <3>3
    <3>4. CASE s \in served[k]
      <4>1. /\ s \in Requests
            /\ k \in Stored => req[s].pc = "remove" /\ req[s].key = k
            /\ req[s].pc \in {"read", "write"} => req[s].key # k
        BY <1>t, <3>4 DEF CodesServeOverlappingRequests
      <4>2. CASE s = r
        BY <2>1, <3>1, <4>1, <4>2
      <4>3. CASE s # r
        BY <2>2, <4>1, <4>3
      <4> QED BY <4>2, <4>3
    <3> QED BY <3>2, <3>3, <3>4
  <2> QED BY <1>5, <2>4, <2>5 DEF UpdateMobilePhonesAdd
<1>6. ASSUME NEW r \in Requests, RemoveCode(r)
      PROVE  CodesServeOverlappingRequests'
  <2>1. \A s \in Requests \ {r} : req'[s] = req[s]
    BY <1>6, OthersStay DEF Step
  <2>2. /\ req[r].pc = "remove" /\ req'[r].pc = "idle"
        /\ served' = served
        /\ \A k \in Stored' : k \in Stored /\ k # req[r].key
    BY <1>6, Enrolling DEF RemoveCode, Stored, TypeOK, history
  <2> SUFFICES ASSUME NEW k \in Keys, NEW s \in served[k]
               PROVE  /\ k \in Stored' => req'[s].pc = "remove" /\ req'[s].key = k
                      /\ req'[s].pc \in {"read", "write"} => req'[s].key # k
    BY <2>2 DEF CodesServeOverlappingRequests
  <2>3. /\ s \in Requests
        /\ k \in Stored => req[s].pc = "remove" /\ req[s].key = k
        /\ req[s].pc \in {"read", "write"} => req[s].key # k
    BY <1>t DEF CodesServeOverlappingRequests
  <2>4. CASE s = r
    BY <2>2, <2>3, <2>4
  <2>5. CASE s # r
    BY <2>1, <2>2, <2>3, <2>5
  <2> QED BY <2>4, <2>5
<1> QED
  BY <1>1, <1>2, <1>3, <1>4, <1>5, <1>6 DEF Next, Step

\* However requests and cleanings interleave, a code that was sent once enrols
\* phones, as their users are told, for those requests only that found it before
\* the first of them forgot it (finishEnrollment, ExpirationMap).
THEOREM CodesServeOnce == Spec => []CodesServeOverlappingRequests
<1>1. Init => TypeOK /\ CodesServeOverlappingRequests
  BY InitTypeOK DEF Init, CodesServeOverlappingRequests
<1>2. TypeOK /\ CodesServeOverlappingRequests /\ [Next]_vars
        => (TypeOK /\ CodesServeOverlappingRequests)'
  BY StepTypeOK, ServedStep
<1> QED
  BY <1>1, <1>2, PTL DEF Spec

-----------------------------------------------------------------------------
(* Cleanings remove what has expired and nothing else.                       *)

LEMMA TimesAreNumbers ==
  ASSUME TypeOK
  PROVE  /\ now \in Int /\ Window \in Int /\ Window >= 0
         /\ \A k \in Stored : codes[k].at \in Int
         /\ \A r \in Requests : req[r].pc \in {"clean", "scan", "drop"} => req[r].since \in Int
<1>1. \A k \in Stored : codes[k].at \in Int
  BY StoredAreEntries DEF Time
<1>2. \A r \in Requests : req[r].pc \in {"clean", "scan", "drop"} => req[r].since \in Int
  BY PhaseOfRequest DEF Time, Cleaning, Scanning, Dropping
<1> QED
  BY <1>1, <1>2, TimeAssumption DEF TypeOK, Time

\* The map changes by removals and by codes put at this time.
CodesAdvance == \A k \in Stored' : codes'[k].at = now \/ (k \in Stored /\ codes'[k] = codes[k])

LEMMA CodesChange ==
  ASSUME TypeOK, [Next]_vars
  PROVE  CodesAdvance
<1>1. UNCHANGED codes => CodesAdvance
  BY DEF CodesAdvance, Stored
<1>2. ASSUME NEW r \in Requests, Put(r)
      PROVE  CodesAdvance
  BY <1>2 DEF Put, CodesAdvance, Stored, TypeOK
<1>3. ASSUME NEW r \in Requests, Drop(r) \/ RemoveCode(r)
      PROVE  CodesAdvance
  BY <1>3 DEF Drop, RemoveCode, CodesAdvance, Stored, TypeOK
<1>4. ASSUME NEW r \in Requests, SendCode(r) \/ ReduceMap(r) \/ StartCleaning(r) \/ NextKey(r)
                                \/ LookAtKey(r) \/ EndScan(r) \/ FinishEnrollment(r)
                                \/ GetVerifiedPhones(r) \/ UpdateMobilePhonesAdd(r)
      PROVE  UNCHANGED codes
  BY <1>4 DEF SendCode, ReduceMap, StartCleaning, NextKey, LookAtKey, EndScan, FinishEnrollment,
              GetVerifiedPhones, UpdateMobilePhonesAdd
<1>5. UNCHANGED vars \/ Tick => UNCHANGED codes
  BY DEF vars, Tick
<1> QED
  BY <1>1, <1>2, <1>3, <1>4, <1>5 DEF Next, Step

LEMMA ClockStep ==
  ASSUME TypeOK, ClockIsAhead, [Next]_vars
  PROVE  ClockIsAhead' /\ now' >= now /\ now' \in Int
<1>1. UNCHANGED now \/ now' = now + 1
  BY DEF Next, Step, vars, Tick, SendCode, Put, ReduceMap, StartCleaning, NextKey, LookAtKey,
         EndScan, Drop, FinishEnrollment, GetVerifiedPhones, UpdateMobilePhonesAdd, RemoveCode
<1>2. now' >= now /\ now' \in Int
  BY <1>1, TimesAreNumbers
<1>3. ClockIsAhead'
  BY <1>2, CodesChange, TimesAreNumbers DEF ClockIsAhead, CodesAdvance
<1> QED
  BY <1>2, <1>3

\* A cleaning that takes no step stays good, whatever others put or remove.
LEMMA CleaningWaits ==
  ASSUME TypeOK, ClockIsAhead, [Next]_vars, NEW s \in Requests, CleansWell(s), req'[s] = req[s]
  PROVE  CleansWell(s)'
<1>1. BeganBefore(s)'
  BY ClockStep, TimesAreNumbers DEF BeganBefore, CleansWell
<1>2. StaleAreOldOrNew(s)'
  <2> SUFFICES ASSUME req[s].pc \in {"scan", "drop"}, NEW k \in req[s].stale, k \in Stored'
               PROVE  Expired(k, req[s].since)' \/ codes'[k].at >= req[s].since
    BY DEF StaleAreOldOrNew, Expired
  <2>1. CASE codes'[k].at = now
    BY <2>1, TimesAreNumbers DEF CleansWell, BeganBefore
  <2>2. CASE k \in Stored /\ codes'[k] = codes[k]
    BY <2>2 DEF CleansWell, StaleAreOldOrNew, Expired
  <2> QED
    BY <2>1, <2>2, CodesChange DEF CodesAdvance
<1>3. TheRestIsFresh(s)'
  <2> SUFFICES ASSUME NEW k \in Stored', req[s].pc \in {"scan", "drop"},
                      req[s].pc = "scan" => k \in req[s].seen \ req[s].stale /\ k # req[s].held,
                      req[s].pc = "drop" => k \notin req[s].stale
               PROVE  ~(req[s].since - codes'[k].at > Window)
    BY DEF TheRestIsFresh, Expired
  <2>1. CASE codes'[k].at = now
    BY <2>1, TimesAreNumbers DEF CleansWell, BeganBefore
  <2>2. CASE k \in Stored /\ codes'[k] = codes[k]
    BY <2>2 DEF CleansWell, TheRestIsFresh, Expired
  <2> QED
    BY <2>1, <2>2, CodesChange DEF CodesAdvance
<1> QED
  BY <1>1, <1>2, <1>3 DEF CleansWell

LEMMA NotCleaning ==
  ASSUME NEW r \in Requests, req'[r].pc \notin {"clean", "scan", "drop"}
  PROVE  CleansWell(r)'
BY DEF CleansWell, BeganBefore, StaleAreOldOrNew, TheRestIsFresh

\* The request that takes a step of its cleaning.
LEMMA CleaningWorks ==
  ASSUME TypeOK, ClockIsAhead, [Next]_vars, NEW r \in Requests, CleansWell(r),
         ReduceMap(r) \/ StartCleaning(r) \/ NextKey(r) \/ LookAtKey(r) \/ EndScan(r) \/ Drop(r)
  PROVE  CleansWell(r)'
<1> USE DEF CleansWell
<1>1. CASE ReduceMap(r)
  <2>1. CASE req'[r].pc = "clean" /\ req'[r].since = now
    BY <2>1, ClockStep DEF BeganBefore, StaleAreOldOrNew, TheRestIsFresh
  <2> QED
    BY <1>1, <2>1, Beginning, NotCleaning
<1>2. CASE StartCleaning(r)
  <2>1. /\ req'[r].pc = "scan" /\ req'[r].since = req[r].since
        /\ req'[r].seen = {} /\ req'[r].stale = {}
    BY <1>2, Beginning
  <2>2. req[r].pc = "clean" /\ now' = now
    BY <1>2 DEF StartCleaning
  <2> QED
    BY <2>1, <2>2 DEF BeganBefore, StaleAreOldOrNew, TheRestIsFresh
<1>3. CASE NextKey(r)
  <2>1. PICK k \in Stored \ req[r].seen :
          /\ req'[r].pc = "scan"
          /\ req'[r].since = req[r].since
          /\ req'[r].held = k
          /\ req'[r].seen = req[r].seen \cup {k}
          /\ req'[r].stale = req[r].stale
    BY <1>3, Meeting
  <2>2. req[r].pc = "scan" /\ req[r].held = None /\ now' = now /\ codes' = codes
    BY <1>3 DEF NextKey
  <2>3. \A l \in Stored : l # None
    BY NoneAssumption DEF Stored
  <2>4. Stored' = Stored /\ \A l \in Stored : Expired(l, req[r].since)' <=> Expired(l, req'[r].since)
    BY <2>1, <2>2 DEF Stored, Expired
  <2>5. BeganBefore(r)' /\ StaleAreOldOrNew(r)'
    BY <2>1, <2>2 DEF BeganBefore, StaleAreOldOrNew, Stored, Expired
  <2>6. TheRestIsFresh(r)'
    BY <2>1, <2>2, <2>3 DEF TheRestIsFresh, Stored, Expired
  <2> QED
    BY <2>5, <2>6
<1>4. CASE LookAtKey(r)
  <2> DEFINE held == req[r].held
  <2>1. CASE req'[r].pc = "idle"
    BY <2>1, NotCleaning
  <2>2. CASE /\ req'[r].pc = "scan"
             /\ req'[r].since = req[r].since
             /\ req'[r].held = None
             /\ req'[r].seen = req[r].seen
             /\ req'[r].stale = IF Expired(held, req[r].since)
                                THEN req[r].stale \cup {held} ELSE req[r].stale
    <3>1. req[r].pc = "scan" /\ now' = now /\ codes' = codes
      BY <1>4 DEF LookAtKey
    <3>2. BeganBefore(r)'
      BY <2>2, <3>1 DEF BeganBefore
    <3>3. StaleAreOldOrNew(r)'
      BY <2>2, <3>1 DEF StaleAreOldOrNew, Stored, Expired
    <3>4. TheRestIsFresh(r)'
      BY <2>2, <3>1 DEF TheRestIsFresh, Stored, Expired
    <3> QED
      BY <3>2, <3>3, <3>4
  <2> QED
    BY <1>4, <2>1, <2>2, Looking
<1>5. CASE EndScan(r)
  <2>1. req'[r].pc = "drop" /\ req'[r].since = req[r].since /\ req'[r].stale = req[r].stale
    BY <1>5, Leaving
  <2>2. /\ req[r].pc = "scan" /\ req[r].held = None /\ now' = now /\ codes' = codes
        /\ \A k \in Stored \ req[r].seen : ~Expired(k, req[r].since)
    BY <1>5 DEF EndScan
  <2>3. \A k \in Stored : k # None
    BY NoneAssumption DEF Stored
  <2>4. BeganBefore(r)' /\ StaleAreOldOrNew(r)'
    BY <2>1, <2>2 DEF BeganBefore, StaleAreOldOrNew, Stored, Expired
  <2>5. TheRestIsFresh(r)'
    BY <2>1, <2>2, <2>3 DEF TheRestIsFresh, Stored, Expired
  <2> QED
    BY <2>4, <2>5
<1>6. CASE Drop(r)
  <2>1. CASE req'[r].pc = "idle"
    BY <2>1, NotCleaning
  <2>2. ASSUME NEW k \in req[r].stale,
               codes' = [codes EXCEPT ![k] = None],
               req'[r].pc = "drop",
               req'[r].since = req[r].since,
               req'[r].stale = req[r].stale \ {k}
        PROVE  CleansWell(r)'
    <3>1. req[r].pc = "drop" /\ now' = now
      BY <1>6 DEF Drop
    <3>2. \A l \in Stored' : l \in Stored /\ l # k /\ codes'[l] = codes[l]
      BY <2>2 DEF Stored, TypeOK
    <3>3. BeganBefore(r)' /\ StaleAreOldOrNew(r)'
      BY <2>2, <3>1, <3>2 DEF BeganBefore, StaleAreOldOrNew, Expired
    <3>4. TheRestIsFresh(r)'
      BY <2>2, <3>1, <3>2 DEF TheRestIsFresh, Expired
    <3> QED
      BY <3>3, <3>4
  <2> QED
    BY <1>6, <2>1, <2>2, Dropped
<1> QED
  BY <1>1, <1>2, <1>3, <1>4, <1>5, <1>6

CleaningInv == ClockIsAhead /\ \A r \in Requests : CleansWell(r)

LEMMA CleaningStep ==
  ASSUME TypeOK, CleaningInv, [Next]_vars
  PROVE  CleaningInv'
<1> USE DEF CleaningInv
<1>1. ClockIsAhead'
  BY ClockStep
<1>2. CASE UNCHANGED vars \/ Tick
  <2>1. req' = req
    BY <1>2 DEF vars, Tick
  <2> QED
    BY <1>1, <2>1, CleaningWaits
<1>3. ASSUME NEW r \in Requests, SendCode(r) \/ FinishEnrollment(r) \/ Step(r), NEW s \in Requests
      PROVE  CleansWell(s)'
  <2>1. CASE s # r
    <3>1. req'[s] = req[s]
      BY <1>3, <2>1, OthersStay
    <3> QED
      BY <3>1, CleaningWaits
  <2>2. CASE s = r /\ (ReduceMap(r) \/ StartCleaning(r) \/ NextKey(r) \/ LookAtKey(r)
                        \/ EndScan(r) \/ Drop(r))
    BY <2>2, CleaningWorks
  <2>3. CASE s = r /\ (SendCode(r) \/ FinishEnrollment(r) \/ Put(r) \/ GetVerifiedPhones(r)
                        \/ UpdateMobilePhonesAdd(r) \/ RemoveCode(r))
    <3>1. req'[r].pc \notin {"clean", "scan", "drop"}
      BY <2>3, Sending, Finishing, Enrolling
    <3> QED
      BY <2>3, <3>1, NotCleaning
  <2> QED
    BY <1>3, <2>1, <2>2, <2>3 DEF Step
<1> QED
  BY <1>1, <1>2, <1>3 DEF Next

LEMMA InitCleaningInv == Init => CleaningInv
BY DEF Init, CleaningInv, ClockIsAhead, CleansWell, BeganBefore, StaleAreOldOrNew, TheRestIsFresh,
       Stored, Idle

LEMMA CleaningHolds == Spec => [](TypeOK /\ CleaningInv)
<1>1. Init => TypeOK /\ CleaningInv
  BY InitTypeOK, InitCleaningInv
<1>2. TypeOK /\ CleaningInv /\ [Next]_vars => (TypeOK /\ CleaningInv)'
  BY StepTypeOK, CleaningStep
<1> QED
  BY <1>1, <1>2, PTL DEF Spec

\* Only a removal takes a code out of the map.
LEMMA Removal ==
  ASSUME TypeOK, [Next]_vars, NEW k \in Stored, codes'[k] = None
  PROVE  \E r \in Requests :
           \/ req[r].pc = "remove" /\ req[r].key = k
           \/ req[r].pc = "drop" /\ k \in req[r].stale
<1>1. codes' # codes
  BY DEF Stored
<1>2. ASSUME NEW r \in Requests, Put(r)
      PROVE  FALSE
  <2>1. [number |-> req[r].number, at |-> now] \in Entries
    BY <1>2, PhaseOfRequest DEF Put, Putting, Entries, TypeOK, Time
  <2> QED
    BY <1>2, <2>1, NoneAssumption DEF Put, TypeOK, Stored
<1>3. ASSUME NEW r \in Requests, Drop(r)
      PROVE  req[r].pc = "drop" /\ k \in req[r].stale
  BY <1>1, <1>3 DEF Drop, TypeOK, Stored
<1>4. ASSUME NEW r \in Requests, RemoveCode(r)
      PROVE  req[r].pc = "remove" /\ req[r].key = k
  BY <1>1, <1>4 DEF RemoveCode, TypeOK, Stored
<1>5. ASSUME NEW r \in Requests, SendCode(r) \/ ReduceMap(r) \/ StartCleaning(r) \/ NextKey(r)
                                \/ LookAtKey(r) \/ EndScan(r) \/ FinishEnrollment(r)
                                \/ GetVerifiedPhones(r) \/ UpdateMobilePhonesAdd(r)
      PROVE  FALSE
  BY <1>1, <1>5 DEF SendCode, ReduceMap, StartCleaning, NextKey, LookAtKey, EndScan,
                    FinishEnrollment, GetVerifiedPhones, UpdateMobilePhonesAdd
<1>6. ~(UNCHANGED vars \/ Tick)
  BY <1>1 DEF vars, Tick
<1> QED
  BY <1>2, <1>3, <1>4, <1>5, <1>6 DEF Next, Step

\* A code whose time has not passed goes only when it was used, or when a
\* cleaning had found an expired one under its key (ExpirationMap.reduceMap).
THEOREM FreshCodesSurvive == Spec => FreshCodesStay
<1>1. ASSUME TypeOK, CleaningInv, [Next]_vars,
             NEW k \in Stored, now - codes[k].at <= Window, codes'[k] = None
      PROVE  ForgetsOnlyFor(k)
  <2>1. PICK r \in Requests :
          \/ req[r].pc = "remove" /\ req[r].key = k
          \/ req[r].pc = "drop" /\ k \in req[r].stale
    BY <1>1, Removal
  <2>2. CASE req[r].pc = "remove" /\ req[r].key = k
    BY <2>2 DEF ForgetsOnlyFor
  <2>3. CASE req[r].pc = "drop" /\ k \in req[r].stale
    <3>1. req[r].since <= now
      BY <1>1, <2>3 DEF CleaningInv, CleansWell, BeganBefore
    <3>2. ~Expired(k, req[r].since)
      BY <1>1, <2>3, <3>1, TimesAreNumbers DEF Expired
    <3>3. codes[k].at >= req[r].since
      BY <1>1, <2>3, <3>2 DEF CleaningInv, CleansWell, StaleAreOldOrNew
    <3> QED
      BY <2>3, <3>3 DEF ForgetsOnlyFor
  <2> QED
    BY <2>1, <2>2, <2>3
<1>2. TypeOK /\ CleaningInv /\ [Next]_vars =>
        [\A k \in Stored : now - codes[k].at <= Window /\ codes'[k] = None
           => ForgetsOnlyFor(k)]_vars
  BY <1>1
<1> QED
  BY <1>2, CleaningHolds, PTL DEF Spec, FreshCodesStay

\* A cleaning that ends normally leaves nothing that had expired when it began
\* (ExpirationMap.reduceMap).
THEOREM CleaningsAreComplete == Spec => CleaningIsComplete
<1>1. ASSUME TypeOK, CleaningInv, [Next]_vars,
             NEW r \in Requests, req[r].pc = "drop", req'[r] = Idle,
             NEW k \in Stored, codes'[k] # None
      PROVE  req[r].since - codes[k].at <= Window
  <2>1. req'[r] # req[r]
    BY <1>1 DEF Idle
  <2>2. Drop(r)
    <3>1. \E s \in Requests : SendCode(s) \/ FinishEnrollment(s) \/ Step(s)
      BY <1>1, <2>1 DEF Next, vars, Tick
    <3>2. SendCode(r) \/ FinishEnrollment(r) \/ Step(r)
      BY <1>1, <2>1, <3>1, OthersStay
    <3> QED
      BY <1>1, <3>2 DEF SendCode, FinishEnrollment, Step, Put, ReduceMap, StartCleaning, NextKey,
           LookAtKey, EndScan, GetVerifiedPhones, UpdateMobilePhonesAdd, RemoveCode, Idle
  <2>3. req[r].stale = {}
    BY <1>1, <2>2, Dropped DEF Idle
  <2>4. ~Expired(k, req[r].since)
    BY <1>1, <2>3 DEF CleaningInv, CleansWell, TheRestIsFresh
  <2> QED
    BY <1>1, <2>4, TimesAreNumbers DEF Expired
<1>2. TypeOK /\ CleaningInv /\ [Next]_vars =>
        [\A r \in Requests : req[r].pc = "drop" /\ req'[r] = Idle
           => \A k \in Stored : codes'[k] # None => req[r].since - codes[k].at <= Window]_vars
  BY <1>1
<1> QED
  BY <1>2, CleaningHolds, PTL DEF Spec, CleaningIsComplete

-----------------------------------------------------------------------------
(* Phones are lost only to overlapping enrolments and failed reads.          *)

\* A step that neither begins nor ends a write.
LEMMA WritersKept ==
  ASSUME OneWriter, NEW r \in Requests,
         \A s \in Requests \ {r} : req'[s] = req[s],
         req[r].pc # "write", req'[r].pc # "write",
         UNCHANGED <<phones, disturbed>>
  PROVE  OneWriter'
<1>1. ASSUME NEW s \in Requests, req'[s].pc = "write", req'[s].key[1] \notin disturbed'
      PROVE  /\ {q \in Requests : req'[q].pc = "write" /\ req'[q].key[1] = req'[s].key[1]} = {s}
             /\ req'[s].mobiles = phones'[req'[s].key[1]]
  <2>1. s # r /\ req'[s] = req[s]
    BY <1>1
  <2>2. WritersOf(req[s].key[1]) = {s} /\ req[s].mobiles = phones[req[s].key[1]]
    BY <1>1, <2>1 DEF OneWriter
  <2> QED
    BY <2>1, <2>2 DEF WritersOf
<1> QED
  BY <1>1 DEF OneWriter, WritersOf

LEMMA ReadKeepsOneWriter ==
  ASSUME TypeOK, OneWriter, NEW r \in Requests, GetVerifiedPhones(r)
  PROVE  OneWriter'
<1> DEFINE u == req[r].key[1]
<1>1. \A s \in Requests \ {r} : req'[s] = req[s]
  BY OthersStay DEF Step
<1>2. /\ req'[r].pc = "write" /\ req'[r].key[1] = u
      /\ req'[r].mobiles = phones[u] \/ u \in disturbed'
      /\ disturbed \subseteq disturbed'
      /\ u \in disturbed' \/ WritersOf(u) = {}
  BY Enrolling
<1>3. phones' = phones
  BY DEF GetVerifiedPhones
<1>4. ASSUME NEW s \in Requests, req'[s].pc = "write", req'[s].key[1] \notin disturbed'
      PROVE  /\ {q \in Requests : req'[q].pc = "write" /\ req'[q].key[1] = req'[s].key[1]} = {s}
             /\ req'[s].mobiles = phones'[req'[s].key[1]]
  <2>1. CASE s = r
    BY <1>1, <1>2, <1>3, <1>4, <2>1 DEF WritersOf
  <2>2. CASE s # r
    <3> DEFINE v == req[s].key[1]
    <3>1. req'[s] = req[s] /\ v \notin disturbed
      BY <1>1, <1>2, <1>4, <2>2
    <3>2. WritersOf(v) = {s} /\ req[s].mobiles = phones[v]
      BY <1>4, <3>1 DEF OneWriter
    <3>3. v # u
      BY <1>2, <1>4, <3>1, <3>2
    <3> QED
      BY <1>1, <1>2, <1>3, <3>1, <3>2, <3>3 DEF WritersOf
  <2> QED
    BY <2>1, <2>2
<1> QED
  BY <1>4 DEF OneWriter, WritersOf

LEMMA WriteKeepsOneWriter ==
  ASSUME TypeOK, OneWriter, NEW r \in Requests, UpdateMobilePhonesAdd(r)
  PROVE  OneWriter'
<1> DEFINE u == req[r].key[1]
<1>1. \A s \in Requests \ {r} : req'[s] = req[s]
  BY OthersStay DEF Step
<1>2. req'[r].pc # "write"
  BY Enrolling
<1>3. /\ req[r].pc = "write"
      /\ \A v \in Users \ {u} : phones'[v] = phones[v]
      /\ disturbed' = IF WritersOf(u) = {r} THEN disturbed \ {u} ELSE disturbed
  BY DEF UpdateMobilePhonesAdd, TypeOK
<1>4. ASSUME NEW s \in Requests, req'[s].pc = "write", req'[s].key[1] \notin disturbed'
      PROVE  /\ {q \in Requests : req'[q].pc = "write" /\ req'[q].key[1] = req'[s].key[1]} = {s}
             /\ req'[s].mobiles = phones'[req'[s].key[1]]
  <2> DEFINE v == req[s].key[1]
  <2>1. s # r /\ req'[s] = req[s]
    BY <1>1, <1>2, <1>4
  <2>2. v \in Users
    BY <1>4, <2>1, PhaseOfRequest, KeysArePairs DEF Writing
  <2>3. v # u
    <3> SUFFICES ASSUME v = u PROVE FALSE
      OBVIOUS
    <3>1. s \in WritersOf(u) /\ r \in WritersOf(u)
      BY <1>3, <1>4, <2>1 DEF WritersOf
    <3>2. disturbed' = disturbed
      BY <1>3, <2>1, <3>1
    <3>3. WritersOf(u) = {s}
      BY <1>4, <2>1, <3>2 DEF OneWriter
    <3> QED
      BY <2>1, <3>1, <3>3
  <2>4. v \notin disturbed
    BY <1>3, <1>4, <2>1, <2>3
  <2>5. WritersOf(v) = {s} /\ req[s].mobiles = phones[v]
    BY <1>4, <2>1, <2>4 DEF OneWriter
  <2> QED
    BY <1>1, <1>2, <1>3, <2>1, <2>2, <2>3, <2>5 DEF WritersOf
<1> QED
  BY <1>4 DEF OneWriter, WritersOf

LEMMA OneWriterStep ==
  ASSUME TypeOK, OneWriter, [Next]_vars
  PROVE  OneWriter'
<1>1. CASE UNCHANGED vars \/ Tick
  BY <1>1 DEF vars, Tick, history, OneWriter, WritersOf
<1>2. ASSUME NEW r \in Requests, GetVerifiedPhones(r) \/ UpdateMobilePhonesAdd(r)
      PROVE  OneWriter'
  BY <1>2, ReadKeepsOneWriter, WriteKeepsOneWriter
<1>3. ASSUME NEW r \in Requests, SendCode(r) \/ FinishEnrollment(r) \/ Put(r) \/ ReduceMap(r)
                                \/ StartCleaning(r) \/ NextKey(r) \/ LookAtKey(r) \/ EndScan(r)
                                \/ Drop(r) \/ RemoveCode(r)
      PROVE  OneWriter'
  <2>1. \A s \in Requests \ {r} : req'[s] = req[s]
    BY <1>3, OthersStay DEF Step
  <2>2. req'[r].pc # "write"
    BY <1>3, Sending, Beginning, Meeting, Looking, Leaving, Dropped, Finishing, Enrolling
  <2>3. req[r].pc # "write" /\ UNCHANGED <<phones, disturbed>>
    BY <1>3 DEF SendCode, FinishEnrollment, Put, ReduceMap, StartCleaning, NextKey, LookAtKey,
                EndScan, Drop, RemoveCode, Idle, history
  <2> QED
    BY <2>1, <2>2, <2>3, WritersKept
<1> QED
  BY <1>1, <1>2, <1>3 DEF Next, Step

\* The directory is written by the last step of an enrolment alone.
LEMMA OthersKeepPhones ==
  ASSUME [Next]_vars
  PROVE  phones' = phones \/ \E r \in Requests : UpdateMobilePhonesAdd(r)
BY DEF Next, Step, vars, Tick, SendCode, FinishEnrollment, Put, ReduceMap, StartCleaning,
       NextKey, LookAtKey, EndScan, Drop, GetVerifiedPhones, RemoveCode, history

\* An enrolment overwrites a phone only if it could not read the user's phones,
\* or another enrolment of this user ran between its read and its write
\* (MobilePhoneService.updateMobilePhonesAdd).
THEOREM PhonesAreKept == Spec => PhonesAreLostOnlyByOverlap
<1> DEFINE Inv == TypeOK /\ OneWriter
<1>1. Init => Inv
  BY InitTypeOK DEF Init, OneWriter, Idle
<1>2. Inv /\ [Next]_vars => Inv'
  BY StepTypeOK, OneWriterStep
<1>3. ASSUME Inv, [Next]_vars, NEW u \in Users \ disturbed
      PROVE  phones[u] \subseteq phones'[u]
  <2>1. phones' = phones \/ \E r \in Requests : UpdateMobilePhonesAdd(r)
    BY <1>3, OthersKeepPhones
  <2>2. ASSUME NEW r \in Requests, UpdateMobilePhonesAdd(r)
        PROVE  phones[u] \subseteq phones'[u]
    <3>1. CASE req[r].key[1] = u
      <4>1. req[r].mobiles = phones[u]
        BY <1>3, <2>2, <3>1 DEF OneWriter, UpdateMobilePhonesAdd
      <4> QED
        BY <1>3, <2>2, <3>1, <4>1 DEF UpdateMobilePhonesAdd, TypeOK
    <3>2. CASE req[r].key[1] # u
      BY <1>3, <2>2, <3>2 DEF UpdateMobilePhonesAdd, TypeOK
    <3> QED
      BY <3>1, <3>2
  <2> QED
    BY <2>1, <2>2
<1>4. Inv /\ [Next]_vars => [\A u \in Users \ disturbed : phones[u] \subseteq phones'[u]]_vars
  BY <1>3
<1> QED
  BY <1>1, <1>2, <1>4, PTL DEF Spec, PhonesAreLostOnlyByOverlap

-----------------------------------------------------------------------------
(* The enrolment of phones implements VerifiedPhones.                        *)

\* A code is sent when it is stored.
LEMMA PutSends ==
  ASSUME TypeOK, NEW r \in Requests, Put(r)
  PROVE  Promise!Next
<1>1. req[r].key[1] \in Users /\ req[r].number \in Numbers
  BY PhaseOfRequest, KeysArePairs DEF Put, Putting
<1>2. Promise!Send(req[r].key[1], req[r].number)
  BY DEF Put, Promise!Send
<1> QED BY <1>1, <1>2 DEF Promise!Next

\* Reading the phones begins an overlap, or shows nothing.
LEMMA ReadOverlaps ==
  ASSUME TypeOK, NEW r \in Requests, GetVerifiedPhones(r)
  PROVE  Promise!Next \/ UNCHANGED Promise!phonesVars
<1> DEFINE u == req[r].key[1]
<1>1. u \in Users
  BY PhaseOfRequest, KeysArePairs DEF GetVerifiedPhones, Reading
<1>2. /\ UNCHANGED <<phones, issued>>
      /\ disturbed' = disturbed \cup {u} \/ disturbed' = disturbed
  BY DEF GetVerifiedPhones
<1>3. disturbed' = disturbed \cup {u} => Promise!Overlap(u)
  BY <1>2 DEF Promise!Overlap
<1> QED BY <1>1, <1>2, <1>3 DEF Promise!Next, Promise!phonesVars

\* The write adds the number to the phones of a user whose enrolments do not
\* overlap, and replaces the phones of another one by verified phones.
LEMMA WriteEnrolls ==
  ASSUME TypeOK, NumbersWereSent, OneWriter, NEW r \in Requests, UpdateMobilePhonesAdd(r)
  PROVE  Promise!Next \/ UNCHANGED Promise!phonesVars
<1> DEFINE u == req[r].key[1]
           n == req[r].number
           held == req[r].mobiles
<1>1. /\ req[r].pc = "write" /\ issued' = issued
      /\ phones' = [phones EXCEPT ![u] = held \cup {n}] \/ phones' = phones
      /\ disturbed' \in {disturbed, disturbed \ {u}}
  BY DEF UpdateMobilePhonesAdd
<1>2. u \in Users /\ n \in Numbers /\ held \in SUBSET Numbers
  BY <1>1, PhaseOfRequest, KeysArePairs DEF Writing
<1>3. <<u, n>> \in issued /\ held \subseteq Promise!Verified(u)
  BY <1>1, <1>2 DEF NumbersWereSent, Promise!Verified
<1>4. u \notin disturbed => held = phones[u]
  BY <1>1 DEF OneWriter
<1>5. u \in Users /\ phones \in [Users -> SUBSET Numbers]
  BY <1>2 DEF TypeOK
<1> HIDE DEF u, n, held
<1>6. CASE phones' = phones
  <2>1. CASE disturbed' = disturbed
    BY <1>1, <1>6, <2>1 DEF Promise!phonesVars
  <2>2. CASE disturbed' = disturbed \ {u}
    <3>1. Promise!Settle(u)
      BY <1>1, <1>6, <2>2 DEF Promise!Settle
    <3> QED BY <1>2, <3>1 DEF Promise!Next
  <2> QED BY <1>1, <2>1, <2>2
<1>7. CASE phones' = [phones EXCEPT ![u] = held \cup {n}] /\ u \notin disturbed
  <2>1. disturbed' = disturbed
    BY <1>1, <1>7
  <2>2. Promise!Enroll(u, n)
    BY <1>1, <1>3, <1>4, <1>7, <2>1 DEF Promise!Enroll
  <2> QED BY <1>2, <2>2 DEF Promise!Next
<1>8. CASE phones' = [phones EXCEPT ![u] = held \cup {n}] /\ u \in disturbed
  <2>1. Promise!Replace(u, n, held)
    BY <1>1, <1>3, <1>8 DEF Promise!Replace
  <2> QED BY <1>2, <2>1 DEF Promise!Next
<1> QED BY <1>1, <1>6, <1>7, <1>8

LEMMA NextImplements ==
  ASSUME TypeOK, NumbersWereSent, OneWriter, [Next]_vars
  PROVE  [Promise!Next]_(Promise!phonesVars)
<1>1. ASSUME NEW r \in Requests, SendCode(r) \/ FinishEnrollment(r) \/ ReduceMap(r)
                                \/ StartCleaning(r) \/ NextKey(r) \/ LookAtKey(r) \/ EndScan(r)
                                \/ Drop(r) \/ RemoveCode(r)
      PROVE  UNCHANGED <<phones, issued, disturbed>>
  BY <1>1 DEF SendCode, FinishEnrollment, ReduceMap, StartCleaning, NextKey, LookAtKey, EndScan,
              Drop, RemoveCode, history
<1>2. CASE UNCHANGED vars \/ Tick
  BY <1>2 DEF vars, Tick, history, Promise!phonesVars
<1>3. ASSUME NEW r \in Requests, SendCode(r) \/ FinishEnrollment(r) \/ Step(r)
      PROVE  Promise!Next \/ UNCHANGED Promise!phonesVars
  BY <1>1, <1>3, PutSends, ReadOverlaps, WriteEnrolls DEF Step, Promise!phonesVars
<1> QED BY <1>2, <1>3 DEF Next

\* Whatever requests, cleanings, lost updates and failing calls of the directory
\* interleave, what happens to the phones of the users is what VerifiedPhones
\* allows (finishEnrollment, MobilePhoneService.updateMobilePhonesAdd).
THEOREM ImplementsPromise == Spec => ImplementsVerifiedPhones
<1> DEFINE Inv == TypeOK /\ NumbersWereSent /\ VerifiedNumbersOnly /\ OneWriter
<1>1. Init => Inv
  <2>1. ASSUME Init PROVE Stored = {} /\ \A r \in Requests : req[r].pc = "idle"
    BY <2>1 DEF Init, Stored, Idle
  <2> QED BY <2>1, InitTypeOK DEF Init, NumbersWereSent, VerifiedNumbersOnly, OneWriter
<1>2. Inv /\ [Next]_vars => Inv'
  BY StepTypeOK, NumbersStep, OneWriterStep
<1>3. Init => Promise!Init
  BY DEF Init, Promise!Init
<1>4. Inv /\ [Next]_vars => [Promise!Next]_(Promise!phonesVars)
  BY NextImplements
<1> HIDE DEF Inv
<1> QED BY <1>1, <1>2, <1>3, <1>4, PTL DEF Spec, ImplementsVerifiedPhones, Promise!Spec

\* VerifiedPhones says all there is to say about the phones of the users: what
\* it allows has verified phones only, and loses phones by overlaps only.
THEOREM PromiseIsEnough == Promise!Spec => []VerifiedNumbersOnly /\ PhonesAreLostOnlyByOverlap
<1> DEFINE PInv == phones \in [Users -> SUBSET Numbers] /\ VerifiedNumbersOnly
<1>1. Promise!Init => PInv
  BY RegisteredAssumption DEF Promise!Init, VerifiedNumbersOnly
<1>2. ASSUME PInv, NEW u \in Users,
             \/ Promise!Overlap(u) \/ Promise!Settle(u)
             \/ \E n \in Numbers :
                  \/ Promise!Send(u, n) \/ Promise!Enroll(u, n)
                  \/ \E others \in SUBSET Numbers : Promise!Replace(u, n, others)
      PROVE  PInv' /\ \A v \in Users \ disturbed : phones[v] \subseteq phones'[v]
  <2>1. CASE Promise!Overlap(u) \/ Promise!Settle(u)
    BY <1>2, <2>1 DEF Promise!Overlap, Promise!Settle, VerifiedNumbersOnly
  <2>2. ASSUME NEW n \in Numbers, Promise!Send(u, n)
        PROVE  PInv' /\ \A v \in Users \ disturbed : phones[v] \subseteq phones'[v]
    BY <1>2, <2>2 DEF Promise!Send, VerifiedNumbersOnly
  <2>3. ASSUME NEW n \in Numbers, Promise!Enroll(u, n)
        PROVE  PInv' /\ \A v \in Users \ disturbed : phones[v] \subseteq phones'[v]
    BY <1>2, <2>3 DEF Promise!Enroll, VerifiedNumbersOnly
  <2>4. ASSUME NEW n \in Numbers, NEW others \in SUBSET Numbers, Promise!Replace(u, n, others)
        PROVE  PInv' /\ \A v \in Users \ disturbed : phones[v] \subseteq phones'[v]
    BY <1>2, <2>4 DEF Promise!Replace, Promise!Verified, VerifiedNumbersOnly
  <2> QED BY <1>2, <2>1, <2>2, <2>3, <2>4
<1>3. PInv /\ [Promise!Next]_(Promise!phonesVars)
        => PInv' /\ [\A u \in Users \ disturbed : phones[u] \subseteq phones'[u]]_vars
  <2>1. CASE Promise!Next
    BY <1>2, <2>1 DEF Promise!Next
  <2>2. CASE UNCHANGED Promise!phonesVars
    BY <2>2 DEF Promise!phonesVars, VerifiedNumbersOnly
  <2> QED BY <2>1, <2>2
<1>4. PInv => VerifiedNumbersOnly
  OBVIOUS
<1> HIDE DEF PInv
<1> QED BY <1>1, <1>3, <1>4, PTL DEF Promise!Spec, PhonesAreLostOnlyByOverlap

=============================================================================
