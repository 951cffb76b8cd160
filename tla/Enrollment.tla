---------------------------- MODULE Enrollment ----------------------------
(***************************************************************************)
(* Enrolling a phone (MobilePhoneEnrollingWS, MobilePhoneService) with     *)
(* codes that expire (ExpirationMap).                                      *)
(*                                                                         *)
(* "send" texts a code to a number and remembers it under the user and the *)
(* code; "finish" looks a code up, adds its number to the user's entry and *)
(* forgets the code.  Requests run in parallel: each step below is what a  *)
(* request does between two accesses to what they share, that is, the map  *)
(* (a ConcurrentHashMap, atomic per call) and the directory.               *)
(***************************************************************************)
EXTENDS Integers, FiniteSets

CONSTANTS
  Users,
  Numbers,
  Codes,       \* the random codes
  Bare(_),     \* a number without hyphens, blanks and plus signs
  Requests,    \* requests the server works on at a time
  Registered,  \* the phones of each user to begin with
  Window,      \* how long codes live
  MaxEntries,  \* MAX_STORED_ENTRIES
  MaxTime,     \* bound of the clock
  None         \* no code

Keys == Users \X Codes
Entries == [number : Numbers, at : 0 .. MaxTime]

ASSUME BareAssumption == \A n \in Numbers : Bare(n) \in Numbers
ASSUME RegisteredAssumption == Registered \in [Users -> SUBSET Numbers]
ASSUME TimeAssumption == Window \in Nat /\ MaxTime \in Nat
ASSUME NoneAssumption == None \notin Entries \cup Keys

VARIABLES
  now,           \* System.currentTimeMillis
  codes,         \* ExpirationMap.map: a number and when it was put, by key
  lastCleaning,  \* ExpirationMap.lastCleaning
  phones,        \* attribute "mobile" of each user's entry
  req,           \* what each request does, and its local variables
  issued,        \* history: the numbers to which a code for a user was sent
  served,        \* history: requests that enrolled a phone by a code since it was sent
  disturbed      \* history: users with a writer whose list of phones is not theirs

history == <<issued, served, disturbed>>
vars == <<now, codes, lastCleaning, phones, req, issued, served, disturbed>>

Time == 0 .. MaxTime
Idle == [pc |-> "idle"]
Putting == [pc : {"put"}, key : Keys, number : Numbers]
Reducing == [pc : {"reduce"}]
Cleaning == [pc : {"clean"}, since : Time]
Scanning == [pc : {"scan"}, since : Time, held : Keys \cup {None},
             seen : SUBSET Keys, stale : SUBSET Keys]
Dropping == [pc : {"drop"}, since : Time, stale : SUBSET Keys]
Reading == [pc : {"read"}, key : Keys, number : Numbers]
Writing == [pc : {"write"}, key : Keys, number : Numbers, mobiles : SUBSET Numbers]
Removing == [pc : {"remove"}, key : Keys]

TypeOK ==
  /\ now \in Time
  /\ codes \in [Keys -> Entries \cup {None}]
  /\ lastCleaning \in Time
  /\ phones \in [Users -> SUBSET Numbers]
  /\ req \in [Requests -> {Idle} \cup Putting \cup Reducing \cup Cleaning \cup Scanning
                            \cup Dropping \cup Reading \cup Writing \cup Removing]
  /\ issued \in SUBSET (Users \X Numbers)
  /\ served \in [Keys -> SUBSET Requests]
  /\ disturbed \in SUBSET Users

Stored == {k \in Keys : codes[k] # None}

\* Mutant: a code has expired as soon as its time has passed.
ExpiredEarly(k, instant) == instant - codes[k].at >= Window

\* getWithExpired and reduceMap agree on what has expired at an instant.
Expired(k, instant) == instant - codes[k].at > Window

End(r) == req' = [req EXCEPT ![r] = Idle]

\* Time passes.
Tick ==
  /\ now < MaxTime
  /\ now' = now + 1
  /\ UNCHANGED <<codes, lastCleaning, phones, req, history>>

-----------------------------------------------------------------------------
(* sendCode *)

\* Some user's entry has the number, as it is or without punctuation.
IsNumberRegistered(n) == \E u \in Users : {n, Bare(n)} \cap phones[u] # {}

\* A code is sent if the number is found: the condition of the code is the
\* opposite of what the name of its answer, NUMBER_ALREADY_ENROLLED, says.  A
\* number that is not found, a search that fails (no result), an organization
\* that cannot be read and a message that cannot be sent end the request and
\* change nothing, so that they are no steps here.
SendCode(r) ==
  /\ req[r] = Idle
  /\ \E u \in Users, n \in Numbers, c \in Codes :
       /\ IsNumberRegistered(n)
       /\ req' = [req EXCEPT ![r] = [pc |-> "put", key |-> <<u, c>>, number |-> n]]
  /\ UNCHANGED <<now, codes, lastCleaning, phones, history>>

\* Mutant: the entry holds the time when it expires.
PutDeadline(r) ==
  /\ req[r].pc = "put"
  /\ LET k == req[r].key
         n == req[r].number IN
     /\ codes' = [codes EXCEPT ![k] = [number |-> n, at |-> now + Window]]
     /\ issued' = issued \cup {<<k[1], n>>}
     /\ served' = [served EXCEPT ![k] = {}]
  /\ req' = [req EXCEPT ![r] = [pc |-> "reduce"]]
  /\ UNCHANGED <<now, lastCleaning, phones, disturbed>>

Put(r) ==
  /\ req[r].pc = "put"
  /\ LET k == req[r].key
         n == req[r].number IN
     /\ codes' = [codes EXCEPT ![k] = [number |-> n, at |-> now]]
     /\ issued' = issued \cup {<<k[1], n>>}
     /\ served' = [served EXCEPT ![k] = {}]
  /\ req' = [req EXCEPT ![r] = [pc |-> "reduce"]]
  /\ UNCHANGED <<now, lastCleaning, phones, disturbed>>

\* reduceMap cleans once the time of a code has passed since the last cleaning
\* and the map is too large.  Two requests may find so before either of them
\* takes note of the cleaning.
ReduceMap(r) ==
  /\ req[r].pc = "reduce"
  /\ IF now - lastCleaning > Window /\ Cardinality(Stored) > MaxEntries
     THEN req' = [req EXCEPT ![r] = [pc |-> "clean", since |-> now]]
     ELSE End(r)
  /\ UNCHANGED <<now, codes, lastCleaning, phones, history>>

StartCleaning(r) ==
  /\ req[r].pc = "clean"
  /\ lastCleaning' = req[r].since
  /\ req' = [req EXCEPT ![r] = [pc |-> "scan", since |-> req[r].since, held |-> None,
                                seen |-> {}, stale |-> {}]]
  /\ UNCHANGED <<now, codes, phones, history>>

\* The iterator comes to a key of the map.
NextKey(r) ==
  /\ req[r].pc = "scan"
  /\ req[r].held = None
  /\ \E k \in Stored \ req[r].seen :
       req' = [req EXCEPT ![r].held = k, ![r].seen = @ \cup {k}]
  /\ UNCHANGED <<now, codes, lastCleaning, phones, history>>

\* The key may have been removed meanwhile; then map.get(key) is null, and the
\* request answers WS_SERVICE_ERROR though the code was sent and stored.
LookAtKey(r) ==
  /\ req[r].pc = "scan"
  /\ req[r].held # None
  /\ IF codes[req[r].held] = None
     THEN End(r)
     ELSE req' = [req EXCEPT ![r].held = None,
                             ![r].stale = IF Expired(req[r].held, req[r].since)
                                          THEN @ \cup {req[r].held} ELSE @]
  /\ UNCHANGED <<now, codes, lastCleaning, phones, history>>

\* The iterator meets every key that has been in the map since it was created,
\* those that have expired among them; it may or may not meet later ones.
EndScan(r) ==
  /\ req[r].pc = "scan"
  /\ req[r].held = None
  /\ \A k \in Stored \ req[r].seen : ~Expired(k, req[r].since)
  /\ req' = [req EXCEPT ![r] = [pc |-> "drop", since |-> req[r].since,
                                stale |-> req[r].stale]]
  /\ UNCHANGED <<now, codes, lastCleaning, phones, history>>

\* Mutant: only the first key that has expired is removed.
DropOne(r) ==
  /\ req[r].pc = "drop"
  /\ \E k \in req[r].stale : codes' = [codes EXCEPT ![k] = None]
  /\ End(r)
  /\ UNCHANGED <<now, lastCleaning, phones, history>>

\* Removes what was found, one by one and without another look.
Drop(r) ==
  /\ req[r].pc = "drop"
  /\ IF req[r].stale = {}
     THEN End(r) /\ UNCHANGED codes
     ELSE \E k \in req[r].stale :
            /\ codes' = [codes EXCEPT ![k] = None]
            /\ req' = [req EXCEPT ![r].stale = @ \ {k}]
  /\ UNCHANGED <<now, lastCleaning, phones, history>>

-----------------------------------------------------------------------------
(* finishEnrollment *)

\* Mutant: codes are looked up without their user.
FinishWithAnyCode(r) ==
  /\ req[r] = Idle
  /\ \E k \in Stored, u \in Users :
       /\ ~Expired(k, now)
       /\ req' = [req EXCEPT ![r] = [pc |-> "read", key |-> <<u, k[2]>>,
                                     number |-> codes[k].number]]
  /\ UNCHANGED <<now, codes, lastCleaning, phones, history>>

\* A code that is unknown or has expired ends the request (NO_MATCH, EXPIRED).
FinishEnrollment(r) ==
  /\ req[r] = Idle
  /\ \E k \in Stored :
       /\ ~Expired(k, now)
       /\ req' = [req EXCEPT ![r] = [pc |-> "read", key |-> k,
                                     number |-> codes[k].number]]
  /\ UNCHANGED <<now, codes, lastCleaning, phones, history>>

WritersOf(u) == {s \in Requests : req[s].pc = "write" /\ req[s].key[1] = u}

\* getVerifiedPhones: a read that fails yields no phones at all.
GetVerifiedPhones(r) ==
  /\ req[r].pc = "read"
  /\ LET u == req[r].key[1] IN
     \E read \in BOOLEAN :
       /\ req' = [req EXCEPT ![r] = [pc |-> "write", key |-> req[r].key,
                                     number |-> req[r].number,
                                     mobiles |-> IF read THEN phones[u] ELSE {}]]
       /\ disturbed' = IF WritersOf(u) # {} \/ ~read THEN disturbed \cup {u} ELSE disturbed
  /\ UNCHANGED <<now, codes, lastCleaning, phones, issued, served>>

\* Mutant: the attribute is replaced by the new phone alone.
WriteNewPhoneOnly(r) ==
  /\ req[r].pc = "write"
  /\ LET k == req[r].key IN
     /\ phones' = [phones EXCEPT ![k[1]] = {req[r].number}]
     /\ req' = [req EXCEPT ![r] = [pc |-> "remove", key |-> k]]
     /\ served' = [served EXCEPT ![k] = @ \cup {r}]
     /\ disturbed' = IF WritersOf(k[1]) = {r} THEN disturbed \ {k[1]} ELSE disturbed
  /\ UNCHANGED <<now, codes, lastCleaning, issued>>

\* updateMobilePhonesAdd replaces the whole attribute.  It fails (FAILED) when
\* the entry cannot be read or modified, and also when the directory applied the
\* modification but the answer was lost.
UpdateMobilePhonesAdd(r) ==
  /\ req[r].pc = "write"
  /\ LET k == req[r].key
         u == k[1] IN
     /\ \/ /\ phones' = [phones EXCEPT ![u] = req[r].mobiles \cup {req[r].number}]
           /\ \/ /\ req' = [req EXCEPT ![r] = [pc |-> "remove", key |-> k]]
                 /\ served' = [served EXCEPT ![k] = @ \cup {r}]
              \/ End(r) /\ UNCHANGED served
        \/ End(r) /\ UNCHANGED <<phones, served>>
     /\ disturbed' = IF WritersOf(u) = {r} THEN disturbed \ {u} ELSE disturbed
  /\ UNCHANGED <<now, codes, lastCleaning, issued>>

\* Mutant: the code stays until it expires.
KeepCode(r) ==
  /\ req[r].pc = "remove"
  /\ End(r)
  /\ UNCHANGED <<now, codes, lastCleaning, phones, history>>

\* The code is forgotten, and the enrolment answered with SUCCESS.
RemoveCode(r) ==
  /\ req[r].pc = "remove"
  /\ codes' = [codes EXCEPT ![req[r].key] = None]
  /\ End(r)
  /\ UNCHANGED <<now, lastCleaning, phones, history>>

-----------------------------------------------------------------------------
Init ==
  /\ now = 0
  /\ codes = [k \in Keys |-> None]
  /\ lastCleaning = 0
  /\ phones = Registered
  /\ req = [r \in Requests |-> Idle]
  /\ issued = {}
  /\ served = [k \in Keys |-> {}]
  /\ disturbed = {}

\* What a request does once it has begun.
Step(r) ==
  \/ Put(r) \/ ReduceMap(r) \/ StartCleaning(r) \/ NextKey(r) \/ LookAtKey(r)
  \/ EndScan(r) \/ Drop(r)
  \/ GetVerifiedPhones(r) \/ UpdateMobilePhonesAdd(r) \/ RemoveCode(r)

Next == Tick \/ \E r \in Requests : SendCode(r) \/ FinishEnrollment(r) \/ Step(r)

\* The threads of the server run, and calls to the directory return.
Spec == Init /\ [][Next]_vars /\ \A r \in Requests : WF_vars(Step(r))

-----------------------------------------------------------------------------
(* Safety *)

\* A phone is in a user's entry only if it was there to begin with or a code for
\* this very user was sent to it: no interleaving of requests, cleanings and
\* lost updates enrols a number by the code of another user
\* (MobilePhoneEnrollingWS.finishEnrollment).
VerifiedNumbersOnly ==
  \A u \in Users : \A n \in phones[u] : n \in Registered[u] \/ <<u, n>> \in issued

\* Once a request has enrolled a phone by a code, the code serves those only that
\* found it before it was forgotten: while it can be found, each request it has
\* served is on its way to forget it, and a request that was answered comes back
\* with the code only when it has been sent again.  So as many requests enrol by a
\* code sent once as run in parallel, at most, whatever cleanings do meanwhile
\* (finishEnrollment).  A request whose answer from the directory was lost has not
\* been served by the code, which stays: the user was told that it failed.
CodesServeOverlappingRequests ==
  \A k \in Keys : \A r \in served[k] :
    /\ k \in Stored => req[r].pc = "remove" /\ req[r].key = k
    /\ req[r].pc \in {"read", "write"} => req[r].key # k

-----------------------------------------------------------------------------
(* Action properties *)

\* A code is forgotten before its time only by a request that has enrolled a
\* phone with it, or by a cleaning that had begun when it was put, which took it
\* for the expired one it replaced (ExpirationMap.reduceMap).
ForgetsOnlyFor(k) ==
  \E r \in Requests :
    \/ req[r].pc = "remove" /\ req[r].key = k
    \/ req[r].pc = "drop" /\ k \in req[r].stale /\ codes[k].at >= req[r].since

FreshCodesStay ==
  [][\A k \in Stored : now - codes[k].at <= Window /\ codes'[k] = None => ForgetsOnlyFor(k)]_vars

\* When a cleaning ends normally, no code is left that had expired when it began,
\* whatever was put, used or cleaned meanwhile (ExpirationMap.reduceMap).
CleaningIsComplete ==
  [][\A r \in Requests : req[r].pc = "drop" /\ req'[r] = Idle
       => \A k \in Stored : codes'[k] # None => req[r].since - codes[k].at <= Window]_vars

\* The enrolment of phones implements VerifiedPhones: whatever requests, cleanings
\* and failures interleave, a user gains one phone at a time, to which a code for
\* this user was sent, and loses none unless enrolments of this user overlapped
\* (finishEnrollment, MobilePhoneService.updateMobilePhonesAdd).
Promise == INSTANCE VerifiedPhones

ImplementsVerifiedPhones == Promise!Spec

\* No phone of a user is lost, except to a request that could not read the
\* user's phones or read them while another enrolment of this user was about to
\* write (MobilePhoneService.updateMobilePhonesAdd).
PhonesAreLostOnlyByOverlap ==
  [][\A u \in Users \ disturbed : phones[u] \subseteq phones'[u]]_vars

\* A code is sent only to a number that nobody has enrolled, as the answer
\* NUMBER_ALREADY_ENROLLED of SendCode says: "The phone number supplied is
\* already enrolled and should not receive a SMS".
SendsOnlyToNewNumbers ==
  [][\A r \in Requests : req[r] = Idle /\ req'[r].pc = "put"
       => ~IsNumberRegistered(req'[r].number)]_vars

=============================================================================
