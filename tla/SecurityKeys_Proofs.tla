------------------------ MODULE SecurityKeys_Proofs ------------------------
(***************************************************************************)
(* The safety of registering security keys, for any windows, presses and   *)
(* keys and any number of failures: types, which key a window offers, when *)
(* a registration is refused, and which keys are removed or forgotten.     *)
(***************************************************************************)
EXTENDS SecurityKeys, TLAPS, FiniteSetTheorems, SequenceTheorems, WellFoundedInduction

\* A key is entered once, for a press whose challenge is not open any more,
\* and a window holds only keys that were entered.
Fresh ==
  /\ \A i \in 1..Len(created) :
       created[i] \in Calls => /\ created[i] \in pressed
                               /\ created[i] \notin starting
                               /\ created[i] \notin open
  /\ \A n \in starting : n \notin open
  /\ \A w \in Windows : newDevice[w] \in Keys =>
       \E i \in 1..Len(created) : created[i] = newDevice[w]

\* What the browser side of a window holds was pressed in this window.
Own ==
  \A w \in Windows :
    /\ register_request[w] # Null => register_request[w] \in CallsOf(w) \cap pressed
    /\ \A n \in CallsOf(w) : carried[n] # Null => carried[n] \in CallsOf(w) \cap pressed
    /\ \A i \in 1..Len(onData[w]) : onData[w][i].challenge \in CallsOf(w) \cap pressed

Base == TypeOK /\ Fresh /\ Own

-----------------------------------------------------------------------------
(* Sequences and numbers.                                                  *)

LEMMA Least ==
  ASSUME NEW S \in SUBSET Nat, S # {}
  PROVE  \E x \in S : \A y \in S : x <= y
<1> DEFINE R == {ss \in Nat \X Nat : ss[1] < ss[2]}
<1>1. IsWellFoundedOn(R, Nat)
  BY NatLessThanWellFounded DEF OpToRel
<1>2. PICK x \in S : \A y \in S : ~(<<y, x>> \in R)
  BY <1>1, WFMin
<1>3. ASSUME NEW y \in S PROVE x <= y
  <2>1. x \in Nat /\ y \in Nat /\ <<y, x>> \in Nat \X Nat
    OBVIOUS
  <2>2. <<y, x>> \notin R
    BY <1>2
  <2>3. ~(y < x)
    BY <2>1, <2>2
  <2> QED BY <2>1, <2>3
<1> QED BY <1>3

LEMMA MaxOf ==
  ASSUME NEW N \in Nat, NEW S \in SUBSET (1..N), S # {}
  PROVE  Max(S) \in S /\ \A y \in S : y <= Max(S)
<1> DEFINE D == {N - x : x \in S}
<1>1. D \in SUBSET Nat /\ D # {}
  <2>1. \A x \in S : x \in 1..N /\ N - x \in Nat
    OBVIOUS
  <2>2. PICK x \in S : TRUE
    OBVIOUS
  <2> QED BY <2>1, <2>2
<1>2. PICK d \in D : \A e \in D : d <= e
  BY <1>1, Least
<1>3. PICK x \in S : d = N - x
  OBVIOUS
<1>4. \A y \in S : x >= y
  <2> TAKE y \in S
  <2>1. N - x <= N - y
    BY <1>2, <1>3
  <2>2. x \in Int /\ y \in Int
    OBVIOUS
  <2> QED BY <2>1, <2>2
<1>5. \E z \in S : \A y \in S : z >= y
  BY <1>4
<1>6. Max(S) \in S /\ \A y \in S : Max(S) >= y
  BY <1>5 DEF Max
<1> QED BY <1>6

\* created as a function on its positions.
LEMMA Positions ==
  ASSUME TypeOK
  PROVE  /\ Len(created) \in Nat
         /\ DOMAIN created = 1..Len(created)
         /\ \A i \in 1..Len(created) : created[i] \in Keys
         /\ \A i, j \in 1..Len(created) : created[i] = created[j] => i = j
         /\ \A m \in live : \E i \in 1..Len(created) : created[i] = m
         /\ live \subseteq Keys
<1>1. /\ Len(created) \in Nat
      /\ DOMAIN created = 1..Len(created)
      /\ \A i \in 1..Len(created) : created[i] \in Keys
  BY DEF TypeOK
<1>2. \A i, j \in 1..Len(created) : created[i] = created[j] => i = j
  BY <1>1 DEF TypeOK, IsInjective
<1>3. \A m \in live : \E i \in 1..Len(created) : created[i] = m
  BY <1>1 DEF TypeOK, ToSet
<1> QED BY <1>1, <1>2, <1>3

LEMMA PositionOf ==
  ASSUME TypeOK, NEW m, NEW i \in 1..Len(created), created[i] = m
  PROVE  Position(m) = i
BY Positions DEF Position

LEMMA Specials ==
  /\ \A w \in Windows : CallsOf(w) \subseteq Calls
  /\ \A v, w \in Windows : v # w => CallsOf(v) \cap CallsOf(w) = {}
  /\ Null \notin Keys /\ Blank \notin Keys /\ Blank # Null
  /\ Calls \subseteq Keys /\ OldKeys \subseteq Keys
  /\ MaxTrouble \in Nat
BY SKAssumption DEF Keys

-----------------------------------------------------------------------------
(* The steps that change created, or pick from it.                         *)

\* A key that is entered comes last and is new.
LEMMA Entering ==
  ASSUME Base, NEW w \in Windows, RegistrationFinished(w)
  PROVE  \E n \in CallsOf(w) \cap pressed :
           /\ n \in open /\ open' = open \ {n}
           /\ live' = live \cup {n}
           /\ n \notin live
           /\ created' \in Seq(Keys)
           /\ Len(created') = Len(created) + 1
           /\ created'[Len(created) + 1] = n
           /\ \A i \in 1..Len(created) : created'[i] = created[i] /\ created[i] # n
           /\ n = Head(onData[w]).challenge
<1> DEFINE n == Head(onData[w]).challenge
<1>1. onData[w] # << >> /\ onData[w] \in Seq([challenge : Calls, code : Codes])
  BY DEF RegistrationFinished, Incoming, Base, TypeOK
<1>2. n = onData[w][1].challenge /\ 1 \in 1..Len(onData[w])
  BY <1>1
<1>3. n \in CallsOf(w) \cap pressed
  BY <1>2 DEF Base, Own
<1>4. /\ n \in open /\ open' = open \ {n}
      /\ live' = live \cup {n}
      /\ created' = Append(created, n)
  BY DEF RegistrationFinished
<1>5. n \in Calls /\ n \in Keys
  BY <1>3, Specials
<1>6. \A i \in 1..Len(created) : created[i] # n
  BY <1>4, <1>5 DEF Base, Fresh
<1>7. n \notin live
  BY <1>6, Positions DEF Base
<1>8. created \in Seq(Keys)
  BY DEF Base, TypeOK
<1>9. /\ created' \in Seq(Keys)
      /\ Len(created') = Len(created) + 1
      /\ created'[Len(created) + 1] = n
      /\ \A i \in 1..Len(created) : created'[i] = created[i]
  BY <1>4, <1>5, <1>8
<1> QED BY <1>3, <1>4, <1>6, <1>7, <1>9

\* What is picked has no name, exists, and is in created; of all that exist
\* it comes last when the clocks agree.
LEMMA Picked ==
  ASSUME Base, NEW ahead \in Nat, ahead <= Len(created)
  PROVE  LET d == GetLatestSecurityKey(ahead) IN
           \/ d = Null
           \/ \E i \in 1..Len(created) :
                /\ d = created[i] /\ d \in live
                /\ ahead = 0 =>
                     \A j \in 1..Len(created) : created[j] \in live => j <= i
<1> DEFINE N == Len(created) - ahead
           past == {i \in 1..N : created[i] \in live}
<1>1. Len(created) \in Nat /\ N \in Nat /\ N <= Len(created)
      /\ (ahead = 0 => N = Len(created))
  <2>1. Len(created) \in Nat
    BY Positions DEF Base
  <2> QED BY <2>1
<1>2. past \in SUBSET (1..N)
  OBVIOUS
<1>3. past # {} => Max(past) \in past /\ \A j \in past : j <= Max(past)
  BY <1>1, <1>2, MaxOf
<1>4. GetLatestSecurityKey(ahead)
        = IF past = {} \/ created[Max(past)] \in named THEN Null ELSE created[Max(past)]
  BY DEF GetLatestSecurityKey
<1> HIDE DEF past
<1>5. CASE past = {} \/ created[Max(past)] \in named
  BY <1>4, <1>5
<1>6. CASE past # {} /\ created[Max(past)] \notin named
  <2>1. GetLatestSecurityKey(ahead) = created[Max(past)]
    BY <1>4, <1>6
  <2>2. Max(past) \in 1..N /\ created[Max(past)] \in live
    BY <1>3, <1>6 DEF past
  <2>3. Max(past) \in 1..Len(created)
    BY <2>2, <1>1
  <2>4. ASSUME ahead = 0, NEW j \in 1..Len(created), created[j] \in live
        PROVE  j <= Max(past)
    <3>1. j \in past
      BY <2>4, <1>1 DEF past
    <3> QED BY <3>1, <1>3, <1>6
  <2> QED BY <2>1, <2>2, <2>3, <2>4
<1> QED BY <1>5, <1>6

-----------------------------------------------------------------------------
(* Types, freshness and ownership, step by step.                           *)

LEMMA OldKeysInOrder ==
  LET s == SetToSeq(OldKeys) IN
    /\ s \in Seq(Keys) /\ IsInjective(s)
    /\ OldKeys \subseteq ToSet(s)
    /\ \A i \in 1..Len(s) : s[i] \in OldKeys
<1> DEFINE s == SetToSeq(OldKeys)
           N == Cardinality(OldKeys)
<1>1. N \in Nat /\ Bijection(1..N, OldKeys) # {}
  BY SKAssumption, FS_CardinalityType DEF ExistsBijection
<1>2. \E f \in [1..N -> OldKeys] : IsInjective(f)
  BY <1>1 DEF Bijection, Injection
<1>3. s \in [1..N -> OldKeys] /\ IsInjective(s)
  BY <1>2 DEF SetToSeq
<1>4. IsFiniteSet(1..N) /\ Cardinality(1..N) = N
  BY <1>1, FS_Interval
<1>5. s \in Surjection(1..N, OldKeys)
  <2>1. s \in Injection(1..N, OldKeys)
    BY <1>3 DEF Injection
  <2> QED BY <2>1, <1>4, SKAssumption, FS_Injection
<1>6. \A m \in OldKeys : \E i \in 1..N : s[i] = m
  BY <1>5 DEF Surjection
<1> HIDE DEF s, N
<1>7. s \in Seq(Keys) /\ Len(s) = N
  BY <1>1, <1>3 DEF Keys
<1>8. OldKeys \subseteq ToSet(s)
  BY <1>6, <1>3 DEF ToSet
<1> QED BY <1>3, <1>7, <1>8 DEF s

LEMMA Troubles ==
  ASSUME TypeOK, Fault
  PROVE  faults' \in 0..MaxTrouble /\ faults' = faults + 1 /\ faults' # 0 /\ faults' > faults
BY Specials DEF TypeOK, Fault

LEMMA InitBase == Init => Base
<1> SUFFICES ASSUME Init PROVE Base
  OBVIOUS
<1> USE DEF Init
<1>1. TypeOK
  BY OldKeysInOrder, Specials DEF TypeOK, Keys, U2f!Init
<1>2. Fresh
  <2>1. \A i \in 1..Len(created) : created[i] \notin Calls
    BY OldKeysInOrder, SKAssumption
  <2>2. \A w \in Windows : newDevice[w] \notin Keys
    BY Specials
  <2> QED BY <2>1, <2>2 DEF Fresh
<1>3. Own
  BY Specials DEF Own
<1> QED BY <1>1, <1>2, <1>3 DEF Base

LEMMA BaseTrigger ==
  ASSUME Base, NEW w \in Windows, TriggerU2fRegisterRequest(w)
  PROVE  Base'
<1> USE DEF TriggerU2fRegisterRequest, library, Base
<1>0. code' \in Calls \cup {Null} /\ faults' \in 0..MaxTrouble
  BY Troubles, Specials DEF TypeOK
<1>1. TypeOK'
  BY <1>0, Specials DEF TypeOK, Keys
<1>2. Fresh'
  BY Specials DEF Fresh, TypeOK
<1>3. Own'
  BY DEF Own
<1> QED BY <1>1, <1>2, <1>3

LEMMA BaseChallenge ==
  ASSUME Base, NEW n \in Calls, Challenge(n)
  PROVE  Base'
<1> USE DEF Base
<1>1. CASE ChallengeGiven(n)
  <2> USE <1>1 DEF ChallengeGiven, viewModel, library, budget
  <2>1. n \in pressed /\ n \in Keys
    BY Specials DEF TypeOK
  <2>2. TypeOK'
    BY <2>1 DEF TypeOK
  <2>3. Fresh'
    BY DEF Fresh, TypeOK
  <2>4. Own'
    BY <2>1, Specials DEF Own
  <2> QED BY <2>2, <2>3, <2>4
<1>2. CASE ChallengeRefused(n)
  <2> USE <1>2 DEF ChallengeRefused, directory, viewModel, browser, library
  <2>1. TypeOK'
    <3>1. faults' \in 0..MaxTrouble
      <4>1. CASE code = n
        BY <4>1, Troubles
      <4>2. CASE code # n
        BY <4>2 DEF TypeOK
      <4> QED BY <4>1, <4>2
    <3> QED BY <3>1 DEF TypeOK
  <2>2. Fresh'
    BY DEF Fresh, TypeOK
  <2>3. Own'
    BY DEF Own
  <2> QED BY <2>1, <2>2, <2>3
<1> QED BY <1>1, <1>2 DEF Challenge

LEMMA BaseStart ==
  ASSUME Base, NEW w \in Windows, NEW n \in Calls, StartRegistration(w, n)
  PROVE  Base'
<1> USE DEF Base, StartRegistration, U2f!Ask, directory, viewModel, budget
<1>1. TypeOK'
  BY DEF TypeOK
<1>2. Fresh'
  BY DEF Fresh, TypeOK
<1>3. Own'
  <2>1. \A m \in Calls : carried'[m] = IF m = n THEN register_request[w] ELSE carried[m]
    BY DEF TypeOK
  <2>2. ASSUME NEW v \in Windows, NEW m \in CallsOf(v), carried'[m] # Null
        PROVE  carried'[m] \in CallsOf(v) \cap pressed
    <3>1. CASE m = n
      <4>1. v = w
        BY <3>1, Specials
      <4> QED BY <3>1, <4>1, <2>1, <2>2 DEF Own
    <3>2. CASE m # n
      BY <3>2, <2>1, <2>2, Specials DEF Own
    <3> QED BY <3>1, <3>2
  <2> QED BY <2>2 DEF Own
<1> QED BY <1>1, <1>2, <1>3

LEMMA BaseSendBack ==
  ASSUME Base, NEW w \in Windows, NEW n \in Calls, SendBack(w, n)
  PROVE  Base'
<1> USE DEF Base, SendBack, U2f!Answer, U2f!AnswersTo, directory, viewModel, budget
<1>1. PICK a \in U2f!AnswersTo(n) :
        /\ U2f!Answer(n, a)
        /\ onData' = [onData EXCEPT ![w] =
                        Append(@, [challenge |-> carried[n], code |-> a.code])]
  OBVIOUS
<1> DEFINE e == [challenge |-> carried[n], code |-> a.code]
<1>2. /\ carried[n] \in Calls /\ a.code \in Codes
      /\ carried[n] \in CallsOf(w) \cap pressed
      /\ e \in [challenge : Calls, code : Codes]
  BY Specials DEF Own, TypeOK
<1>3. /\ onData[w] \in Seq([challenge : Calls, code : Codes])
      /\ onData'[w] = Append(onData[w], e)
      /\ \A v \in Windows \ {w} : onData'[v] = onData[v]
      /\ onData' \in [Windows -> Seq([challenge : Calls, code : Codes])]
  <2>1. onData \in [Windows -> Seq([challenge : Calls, code : Codes])]
    BY DEF TypeOK
  <2> HIDE DEF e
  <2>2. Append(onData[w], e) \in Seq([challenge : Calls, code : Codes])
    BY <2>1, <1>2, AppendProperties
  <2>3. onData' = [onData EXCEPT ![w] = Append(@, e)]
    BY <1>1 DEF e
  <2> QED BY <2>1, <2>2, <2>3
<1>4. got' \in [Calls -> Seq([to : Calls, code : Codes])]
  <2>1. a \in [to : Calls, code : Codes] /\ <<a>> \in Seq([to : Calls, code : Codes])
    OBVIOUS
  <2> QED BY <1>1, <2>1 DEF TypeOK
<1>5. TypeOK'
  <2>1. asked' = asked /\ carried' = [carried EXCEPT ![n] = Null]
    BY <1>1
  <2> QED BY <1>3, <1>4, <2>1 DEF TypeOK
<1>6. Fresh'
  BY DEF Fresh, TypeOK
<1>7. Own'
  <2>1. \A i \in 1..Len(onData'[w]) : onData'[w][i].challenge \in CallsOf(w) \cap pressed
    <3>1. \A i \in 1..Len(onData[w]) :
            onData[w][i].challenge \in CallsOf(w) \cap pressed
      BY DEF Own
    <3> HIDE DEF e
    <3>2. e.challenge \in CallsOf(w) \cap pressed
      BY <1>2 DEF e
    <3> QED BY <1>2, <1>3, <3>1, <3>2
  <2>2. \A v \in Windows : \A m \in CallsOf(v) :
          carried'[m] # Null => carried'[m] \in CallsOf(v) \cap pressed
    BY Specials DEF Own, TypeOK
  <2> QED BY <1>3, <2>1, <2>2 DEF Own
<1> QED BY <1>5, <1>6, <1>7

\* An event is taken: it was the first, and the others move up.
LEMMA Consumed ==
  ASSUME Base, NEW w \in Windows, Incoming(w), NextEvent(w)
  PROVE  /\ Head(onData[w]) \in [challenge : Calls, code : Codes]
         /\ Head(onData[w]).challenge \in CallsOf(w) \cap pressed
         /\ Len(onData[w]) \in Nat \ {0}
         /\ Len(onData'[w]) = Len(onData[w]) - 1
         /\ \A i \in 1..Len(onData'[w]) : onData'[w][i].challenge \in CallsOf(w) \cap pressed
         /\ \A v \in Windows \ {w} : onData'[v] = onData[v]
         /\ onData' \in [Windows -> Seq([challenge : Calls, code : Codes])]
<1> DEFINE R == [challenge : Calls, code : Codes]
<1>1. /\ onData \in [Windows -> Seq(R)]
      /\ onData[w] # << >> /\ onData' = [onData EXCEPT ![w] = Tail(@)]
  BY DEF Base, TypeOK, Incoming, NextEvent
<1>2. \A i \in 1..Len(onData[w]) : onData[w][i].challenge \in CallsOf(w) \cap pressed
  BY DEF Base, Own
<1> HIDE DEF R
<1>3. /\ onData[w] \in Seq(R) /\ onData'[w] = Tail(onData[w])
      /\ \A v \in Windows \ {w} : onData'[v] = onData[v]
  BY <1>1
<1>4. /\ Tail(onData[w]) \in Seq(R)
      /\ Len(onData[w]) \in Nat \ {0}
      /\ Len(Tail(onData[w])) = Len(onData[w]) - 1
      /\ \A i \in 1..Len(Tail(onData[w])) :
           i + 1 \in 1..Len(onData[w]) /\ Tail(onData[w])[i] = onData[w][i + 1]
      /\ Head(onData[w]) = onData[w][1] /\ 1 \in 1..Len(onData[w])
      /\ Head(onData[w]) \in R
  BY <1>1, <1>3
<1>5. onData' \in [Windows -> Seq(R)]
  BY <1>1, <1>4
<1> QED BY <1>2, <1>3, <1>4, <1>5 DEF R

LEMMA BaseNotified ==
  ASSUME Base, NEW w \in Windows, Notified(w)
  PROVE  Base'
<1> USE DEF NotifiedOf, viewModel, library
<1>1. Incoming(w) /\ NextEvent(w)
  BY DEF Notified, RegistrationFinished, RegistrationThrows, ErrorReported
<1>2. Own'
  BY <1>1, Consumed DEF Notified, RegistrationFinished, RegistrationThrows, ErrorReported, Base, Own
<1>3. CASE RegistrationFinished(w)
  <2>1. PICK n \in CallsOf(w) \cap pressed :
           /\ n \in open /\ open' = open \ {n}
           /\ live' = live \cup {n}
           /\ created' \in Seq(Keys)
           /\ Len(created') = Len(created) + 1
           /\ created'[Len(created) + 1] = n
           /\ \A i \in 1..Len(created) : created'[i] = created[i] /\ created[i] # n
    BY <1>3, Entering
  <2>2. /\ Len(created) \in Nat
        /\ \A i, j \in 1..Len(created) : created[i] = created[j] => i = j
        /\ \A m \in live : \E i \in 1..Len(created) : created[i] = m
    BY Positions DEF Base
  <2>3. \A i \in 1..Len(created') : i \in 1..Len(created) \/ i = Len(created) + 1
    BY <2>1, <2>2
  <2>4. IsInjective(created') /\ live' \subseteq ToSet(created')
    <3>1. DOMAIN created' = 1..Len(created')
      BY <2>1
    <3>2. \A i, j \in 1..Len(created') : created'[i] = created'[j] => i = j
      BY <2>1, <2>2, <2>3
    <3>3. \A m \in live' : \E i \in 1..Len(created') : created'[i] = m
      <4> TAKE m \in live'
      <4>1. CASE m = n
        BY <4>1, <2>1, <2>2
      <4>2. CASE m \in live
        <5>1. PICK i \in 1..Len(created) : created[i] = m
          BY <4>2, <2>2
        <5>2. i \in 1..Len(created') /\ created'[i] = m
          BY <5>1, <2>1, <2>2
        <5> QED BY <5>2
      <4> QED BY <4>1, <4>2, <2>1
    <3> QED BY <3>1, <3>2, <3>3 DEF IsInjective, ToSet
  <2>5. TypeOK'
    BY <1>1, <1>3, <2>1, <2>4, Consumed DEF RegistrationFinished, Base, TypeOK
  <2>6. Fresh'
    <3>1. \A i \in 1..Len(created') : created'[i] \in Calls =>
            created'[i] \in pressed /\ created'[i] \notin starting /\ created'[i] \notin open'
      BY <2>1, <2>3 DEF Base, Fresh
    <3>2. \A v \in Windows : newDevice[v] \in Keys =>
            \E i \in 1..Len(created') : created'[i] = newDevice[v]
      <4> SUFFICES ASSUME NEW v \in Windows, newDevice[v] \in Keys
                   PROVE  \E i \in 1..Len(created') : created'[i] = newDevice[v]
        OBVIOUS
      <4>1. PICK i \in 1..Len(created) : created[i] = newDevice[v]
        BY DEF Base, Fresh
      <4> QED BY <4>1, <2>1, <2>2
    <3> QED BY <1>3, <2>1, <3>1, <3>2 DEF RegistrationFinished, Base, Fresh
  <2> QED BY <1>2, <2>5, <2>6 DEF Base
<1>4. CASE RegistrationThrows(w)
  <2> USE <1>4 DEF RegistrationThrows
  <2>1. faults' \in 0..MaxTrouble
    BY Troubles DEF Base, TypeOK
  <2>2. TypeOK'
    BY <1>1, <2>1, Consumed DEF Base, TypeOK
  <2>3. Fresh'
    BY DEF Base, Fresh
  <2> QED BY <1>2, <2>2, <2>3 DEF Base
<1>5. CASE ErrorReported(w)
  <2> USE <1>5 DEF ErrorReported
  <2>1. TypeOK'
    BY <1>1, Consumed DEF Base, TypeOK
  <2>2. Fresh'
    BY DEF Base, Fresh
  <2> QED BY <1>2, <2>1, <2>2 DEF Base
<1> QED BY <1>3, <1>4, <1>5 DEF Notified

\* What the three picks have in common.
LEMMA Picking ==
  ASSUME Base, NEW w \in Windows, Pick(w)
  PROVE  /\ finishing[w] = "pick"
         /\ faults' \in 0..MaxTrouble
         /\ faults' = 0 => faults = 0
         /\ \E d \in Keys \cup {Null} :
              /\ Offer(w, d)
              /\ d # Null => \E i \in 1..Len(created) :
                               /\ d = created[i] /\ d \in live
                               /\ faults' = 0 => \A j \in 1..Len(created) :
                                                   created[j] \in live => j <= i
<1>1. Len(created) \in Nat /\ (\A i \in 1..Len(created) : created[i] \in Keys)
  BY Positions DEF Base
<1>2. CASE PickLatest(w)
  <2> DEFINE d == GetLatestSecurityKey(0)
  <2>1. \/ d = Null
        \/ \E i \in 1..Len(created) :
             /\ d = created[i] /\ d \in live
             /\ \A j \in 1..Len(created) : created[j] \in live => j <= i
    BY <1>1, Picked
  <2>2. d \in Keys \cup {Null}
    BY <2>1, <1>1
  <2> QED BY <1>2, <2>1, <2>2 DEF PickLatest, Base, TypeOK
<1>3. CASE PickSkewed(w)
  <2>1. PICK ahead \in 1..MaxSkew : ahead <= Len(created) /\ Offer(w, GetLatestSecurityKey(ahead))
    BY <1>3 DEF PickSkewed
  <2> DEFINE d == GetLatestSecurityKey(ahead)
  <2>2. d = Null \/ \E i \in 1..Len(created) : d = created[i] /\ d \in live
    <3>1. ahead \in Nat
      BY SKAssumption
    <3> QED BY <3>1, <2>1, Picked
  <2>3. d \in Keys \cup {Null}
    BY <2>2, <1>1
  <2>4. Fault /\ finishing[w] = "pick"
    BY <1>3 DEF PickSkewed
  <2>5. faults' \in 0..MaxTrouble /\ faults' # 0
    BY <2>4, Troubles DEF Base
  <2> QED BY <2>1, <2>2, <2>3, <2>4, <2>5
<1>4. CASE PickFails(w)
  BY <1>4, Troubles DEF PickFails, Base
<1> QED BY <1>2, <1>3, <1>4 DEF Pick

LEMMA BasePick ==
  ASSUME Base, NEW w \in Windows, Pick(w)
  PROVE  Base'
<1>1. PICK d \in Keys \cup {Null} :
        /\ Offer(w, d)
        /\ d # Null => \E i \in 1..Len(created) : d = created[i]
  BY Picking
<1> USE <1>1 DEF Base, Offer, directory, browser, library
<1>2. TypeOK'
  BY Picking DEF TypeOK
<1>3. Fresh'
  BY Specials DEF Fresh, TypeOK
<1>4. Own'
  BY DEF Own
<1> QED BY <1>2, <1>3, <1>4

LEMMA BaseClean ==
  ASSUME Base, NEW w \in Windows, CleanRandEnrollmentCode(w)
  PROVE  Base'
<1> USE DEF Base, CleanRandEnrollmentCode, browser, library
<1>1. faults' \in 0..MaxTrouble
  BY Troubles DEF TypeOK
<1>2. TypeOK'
  BY <1>1 DEF TypeOK
<1>3. Fresh' /\ Own'
  BY DEF Fresh, Own
<1> QED BY <1>2, <1>3

-----------------------------------------------------------------------------
(* What the user does.                                                     *)

LEMMA FoundLive ==
  /\ \A d : Found(d) \subseteq live
  /\ \A d : \A s \in Searches(d) : s \subseteq live
BY DEF Found, Searches

LEMMA BaseAdd ==
  ASSUME Base, NEW w \in Windows, Add(w) \/ AddFails(w)
  PROVE  Base'
<1> USE DEF Base, AddTo, ResetAddSettings, browser, library
<1>1. AddTo(w)
  BY DEF Add, AddFails
<1>2. named' \subseteq Keys
  BY FoundLive, Positions DEF TypeOK, Add, AddFails
<1>3. faults' \in 0..MaxTrouble
  BY Troubles DEF TypeOK, Add, AddFails
<1>4. TypeOK'
  BY <1>1, <1>2, <1>3 DEF TypeOK
<1>5. Fresh'
  BY <1>1, Specials DEF Fresh, TypeOK
<1>6. Own'
  BY <1>1 DEF Own
<1> QED BY <1>4, <1>5, <1>6

LEMMA BaseCancel ==
  ASSUME Base, NEW w \in Windows, Cancel(w) \/ CancelFails(w)
  PROVE  Base'
<1> USE DEF Base, ResetAddSettings, directory, browser, library, budget
<1>1. live' \subseteq live
  BY DEF Cancel, CancelFails
<1>2. faults' \in 0..MaxTrouble
  BY Troubles DEF TypeOK, Cancel, CancelFails
<1>3. TypeOK'
  BY <1>1, <1>2 DEF TypeOK, Cancel, CancelFails
<1>4. Fresh'
  <2>1. \A v \in Windows : newDevice'[v] \in Keys => newDevice'[v] = newDevice[v]
    BY Specials DEF TypeOK, Cancel, CancelFails
  <2>2. UNCHANGED <<created, pressed, starting, open>>
    BY DEF Cancel, CancelFails
  <2> QED BY <2>1, <2>2 DEF Fresh
<1>5. Own'
  BY DEF Own, Cancel, CancelFails
<1> QED BY <1>3, <1>4, <1>5

LEMMA BaseUpdate ==
  ASSUME Base, NEW w \in Windows, PrepareForUpdate(w) \/ CancelUpdate(w) \/ Update(w)
  PROVE  Base'
<1> USE DEF Base, CloseDialog, directory, browser, library, budget
<1>1. CASE PrepareForUpdate(w)
  <2> USE <1>1 DEF PrepareForUpdate
  <2>1. editingId' \in [Windows -> Keys \cup {Null}]
    BY DEF TypeOK
  <2>2. TypeOK'
    BY <2>1 DEF TypeOK
  <2>3. Fresh'
    <3>1. \A v \in Windows : newDevice'[v] \in Keys => newDevice'[v] = newDevice[v]
      BY Specials DEF TypeOK
    <3> QED BY <3>1 DEF Fresh
  <2>4. Own'
    BY DEF Own
  <2> QED BY <2>2, <2>3, <2>4
<1>2. CASE CancelUpdate(w) \/ Update(w)
  <2>1. CloseDialog(w)
    BY <1>2 DEF CancelUpdate, Update
  <2>2. named' \subseteq Keys
    BY <1>2, FoundLive, Positions DEF TypeOK, CancelUpdate, Update
  <2>3. faults' \in 0..MaxTrouble
    BY <1>2, Troubles DEF TypeOK, CancelUpdate, Update
  <2>4. TypeOK'
    BY <2>1, <2>2, <2>3 DEF TypeOK
  <2>5. Fresh' /\ Own'
    BY <2>1 DEF Fresh, Own
  <2> QED BY <2>4, <2>5
<1> QED BY <1>1, <1>2

LEMMA BaseReload ==
  ASSUME Base, NEW w \in Windows, Reload(w)
  PROVE  Base'
<1> USE DEF Base, Reload, ResetAddSettings, directory, library
<1>1. reloads' \in 0..MaxTrouble
  BY Specials DEF TypeOK
<1>2. live \subseteq Keys
  BY Positions
<1>3. onData' \in [Windows -> Seq([challenge : Calls, code : Codes])]
      /\ onData'[w] = << >> /\ \A v \in Windows \ {w} : onData'[v] = onData[v]
  <2> DEFINE R == [challenge : Calls, code : Codes]
  <2>1. onData \in [Windows -> Seq(R)]
    BY DEF TypeOK
  <2>2. onData' = [onData EXCEPT ![w] = << >>]
    OBVIOUS
  <2> HIDE DEF R
  <2>3. onData' \in [Windows -> Seq(R)]
        /\ onData'[w] = << >> /\ \A v \in Windows \ {w} : onData'[v] = onData[v]
    BY <2>1, <2>2
  <2> QED BY <2>3 DEF R
<1>4. TypeOK'
  BY <1>1, <1>2, <1>3, Specials DEF TypeOK
<1>5. Fresh'
  BY Specials DEF Fresh, TypeOK
<1>6. Own'
  <2>1. \A n \in Calls : carried'[n] # Null => carried'[n] = carried[n] /\ n \notin CallsOf(w)
    OBVIOUS
  <2>2. \A v \in Windows : register_request'[v] # Null => register_request'[v] = register_request[v]
    BY DEF TypeOK
  <2>3. \A v \in Windows : \A i \in 1..Len(onData'[v]) :
           onData'[v][i].challenge \in CallsOf(v) \cap pressed
    BY <1>3 DEF Own
  <2> QED BY <2>1, <2>2, <2>3, Specials DEF Own
<1> QED BY <1>4, <1>5, <1>6

LEMMA BaseStutter == Base /\ UNCHANGED vars => Base'
BY DEF Base, TypeOK, Fresh, Own, vars, directory, viewModel, browser, library, budget

LEMMA StepBase == Base /\ [Next]_vars => Base'
<1> SUFFICES ASSUME Base, Next PROVE Base'
  BY BaseStutter
<1> QED BY BaseTrigger, BaseChallenge, BaseStart, BaseSendBack, BaseNotified, BasePick,
           BaseClean, BaseAdd, BaseCancel, BaseUpdate, BaseReload DEF Next, Due

-----------------------------------------------------------------------------
(* The key a window offers is the newest of its own.                       *)

\* A step that neither enters nor picks a key.
CalmStep ==
  /\ created' = created
  /\ live' \subseteq live
  /\ faults' = 0 => faults = 0
  /\ \A w \in Windows :
       /\ finishing'[w] # "pick" => finishing[w] # "pick"
       /\ enrolled'[w] => enrolled[w]
       /\ newDevice'[w] \in Keys => newDevice'[w] = newDevice[w]

EntersOrPicks == \E w \in Windows : RegistrationFinished(w) \/ Pick(w)

LEMMA OtherStepsAreCalm ==
  ASSUME Base, Next, ~EntersOrPicks
  PROVE  CalmStep
<1> USE DEF CalmStep, Base, TypeOK
<1>1. ASSUME NEW n \in Calls, Challenge(n) PROVE CalmStep
  BY <1>1, Specials DEF Challenge, ChallengeGiven, ChallengeRefused, Fault, directory,
     viewModel, browser, library, budget
<1>2. ASSUME NEW w \in Windows, NEW n \in Calls, StartRegistration(w, n) \/ SendBack(w, n)
      PROVE  CalmStep
  BY <1>2 DEF StartRegistration, SendBack, directory, viewModel, budget
<1>3. ASSUME NEW w \in Windows, Notified(w) PROVE CalmStep
  BY <1>3, Troubles DEF Notified, EntersOrPicks, RegistrationThrows, ErrorReported, NotifiedOf,
     Incoming, Busy, viewModel
<1>4. ASSUME NEW w \in Windows, CleanRandEnrollmentCode(w) PROVE CalmStep
  BY <1>4, Troubles DEF CleanRandEnrollmentCode
<1>5. ASSUME NEW w \in Windows, TriggerU2fRegisterRequest(w) PROVE CalmStep
  BY <1>5, Troubles DEF TriggerU2fRegisterRequest
<1>6. ASSUME NEW w \in Windows, Add(w) \/ AddFails(w) PROVE CalmStep
  BY <1>6, Troubles, Specials DEF Add, AddFails, AddTo, ResetAddSettings
<1>7. ASSUME NEW w \in Windows, Cancel(w) \/ CancelFails(w) PROVE CalmStep
  BY <1>7, Troubles, Specials DEF Cancel, CancelFails, ResetAddSettings, directory, budget
<1>8. ASSUME NEW w \in Windows, PrepareForUpdate(w) \/ CancelUpdate(w) \/ Update(w)
      PROVE  CalmStep
  BY <1>8, Troubles, Specials DEF PrepareForUpdate, CancelUpdate, Update, CloseDialog,
     directory, budget
<1>9. ASSUME NEW w \in Windows, Reload(w) PROVE CalmStep
  BY <1>9, Specials DEF Reload, ResetAddSettings, directory
<1> HIDE DEF CalmStep, Base, TypeOK
<1> QED BY <1>1, <1>2, <1>3, <1>4, <1>5, <1>6, <1>7, <1>8, <1>9 DEF Next, Due, EntersOrPicks

LEMMA NewestCalm ==
  ASSUME OfferedIsNewest, CalmStep
  PROVE  OfferedIsNewest'
<1>1. \A w \in Windows : Offered(w)' \subseteq Offered(w)
  BY DEF Offered, CalmStep
<1>2. \A n : Position(n)' = Position(n)
  BY DEF Position, CalmStep
<1> QED BY <1>1, <1>2 DEF OfferedIsNewest, CalmStep

LEMMA OfferedPosition ==
  ASSUME Base, NEW w \in Windows, NEW d \in Offered(w)
  PROVE  d \in Keys /\ d = newDevice[w] /\ enrolled[w]
         /\ \E i \in 1..Len(created) : created[i] = d
BY DEF Base, Fresh, Offered

LEMMA NewestEnters ==
  ASSUME Base, Base', OfferedIsNewest, NEW w \in Windows, RegistrationFinished(w)
  PROVE  OfferedIsNewest'
<1>1. PICK n \in CallsOf(w) \cap pressed :
        /\ live' = live \cup {n} /\ n \notin live
        /\ Len(created') = Len(created) + 1
        /\ \A i \in 1..Len(created) : created'[i] = created[i]
  BY Entering
<1>2. Len(created) \in Nat /\ (\A i \in 1..Len(created) : i \in 1..Len(created'))
  <2>1. Len(created) \in Nat
    BY Positions DEF Base
  <2> QED BY <2>1, <1>1
<1>3. /\ \A v \in Windows : Offered(v)' = Offered(v)
      /\ faults' = faults
      /\ finishing' = [finishing EXCEPT ![w] = "pick"]
  BY DEF RegistrationFinished, NotifiedOf, Offered, viewModel
<1>4. /\ \A i, j \in 1..Len(created') : created'[i] = created'[j] => i = j
  <2>1. DOMAIN created' = 1..Len(created')
    BY DEF Base, TypeOK
  <2> QED BY <2>1 DEF Base, TypeOK, IsInjective
<1>5. ASSUME NEW m, NEW i \in 1..Len(created), created[i] = m
      PROVE  Position(m)' = i /\ Position(m) = i
  <2>1. i \in 1..Len(created') /\ created'[i] = m
    BY <1>1, <1>2, <1>5
  <2>2. Position(m)' = i
    BY <2>1, <1>4 DEF Position
  <2>3. Position(m) = i
    BY <1>5, PositionOf DEF Base
  <2> QED BY <2>2, <2>3
<1>6. SUFFICES ASSUME faults' = 0, NEW v \in Windows, NEW d \in Offered(v)', NEW m \in CallsOf(v),
                      finishing'[v] # "pick", m \in live'
               PROVE  Position(m)' <= Position(d)'
  BY DEF OfferedIsNewest
<1>7. v # w /\ m # n
  <2>1. finishing'[w] = "pick"
    BY <1>3 DEF Base, TypeOK
  <2> QED BY <2>1, <1>1, <1>6, Specials
<1>8. m \in live /\ d \in Offered(v) /\ finishing[v] # "pick"
  BY <1>1, <1>3, <1>6, <1>7 DEF Base, TypeOK
<1>9. Position(m) <= Position(d)
  BY <1>3, <1>6, <1>8 DEF OfferedIsNewest
<1>10. PICK i \in 1..Len(created) : created[i] = m
  BY <1>8, Positions DEF Base
<1>11. PICK j \in 1..Len(created) : created[j] = d
  BY <1>8, OfferedPosition
<1> QED BY <1>5, <1>9, <1>10, <1>11

LEMMA NewestPicked ==
  ASSUME Base, OfferedIsNewest, NEW w \in Windows, Pick(w)
  PROVE  OfferedIsNewest'
<1>1. PICK d \in Keys \cup {Null} :
        /\ Offer(w, d)
        /\ d # Null => \E i \in 1..Len(created) :
                         /\ d = created[i] /\ d \in live
                         /\ faults' = 0 => \A j \in 1..Len(created) :
                                             created[j] \in live => j <= i
  BY Picking
<1>2. /\ created' = created /\ live' = live
      /\ faults' = 0 => faults = 0
      /\ \A v \in Windows \ {w} : Offered(v)' = Offered(v) /\ finishing'[v] = finishing[v]
      /\ Offered(w)' \subseteq {d} \ {Null}
  <2>1. faults' = 0 => faults = 0
    BY Picking
  <2> QED BY <1>1, <2>1, Specials DEF Offer, directory, Offered, Base, TypeOK
<1>3. \A m : Position(m)' = Position(m)
  BY <1>2 DEF Position
<1>4. SUFFICES ASSUME faults' = 0, NEW v \in Windows, NEW e \in Offered(v)', NEW m \in CallsOf(v),
                      finishing'[v] # "pick", m \in live'
               PROVE  Position(m) <= Position(e)
  BY <1>3 DEF OfferedIsNewest
<1>5. CASE v = w
  <2>1. e = d /\ d # Null
    BY <1>2, <1>4, <1>5
  <2>2. PICK i \in 1..Len(created) :
           d = created[i] /\ \A j \in 1..Len(created) : created[j] \in live => j <= i
    BY <1>1, <1>4, <2>1
  <2>3. PICK j \in 1..Len(created) : created[j] = m
    BY <1>2, <1>4, Positions DEF Base
  <2>4. Position(m) = j /\ Position(e) = i
    BY <2>1, <2>2, <2>3, PositionOf DEF Base
  <2> QED BY <1>2, <1>4, <2>2, <2>3, <2>4
<1>6. CASE v # w
  BY <1>2, <1>4, <1>6 DEF OfferedIsNewest
<1> QED BY <1>5, <1>6

\* OfferedIsNewest: with clocks that agree, getLatestSecurityKey never makes a
\* window offer a key older than one of its own that exists.
THEOREM KeyOfferedIsNewest == Spec => []OfferedIsNewest
<1>1. Init => OfferedIsNewest
  BY DEF Init, OfferedIsNewest, Offered
<1>2. Base /\ OfferedIsNewest /\ [Next]_vars => OfferedIsNewest'
  <2> SUFFICES ASSUME Base, OfferedIsNewest, [Next]_vars PROVE OfferedIsNewest'
    OBVIOUS
  <2>1. CASE UNCHANGED vars
    <3>1. CalmStep
      BY <2>1 DEF vars, directory, viewModel, budget, CalmStep
    <3> QED BY <3>1, NewestCalm
  <2>2. CASE Next
    BY <2>2, StepBase, OtherStepsAreCalm, NewestCalm, NewestEnters, NewestPicked DEF EntersOrPicks
  <2> QED BY <2>1, <2>2
<1> QED BY <1>1, <1>2, InitBase, StepBase, PTL DEF Spec

\* All variables keep their types, no key is created twice, and what exists
\* was created (U2fService, FidoService, SecurityKeyViewModel).
THEOREM TypeCorrect == Spec => []TypeOK
<1>1. Base => TypeOK
  BY DEF Base
<1> QED BY <1>1, InitBase, StepBase, PTL DEF Spec

-----------------------------------------------------------------------------
(* When a key is forgotten.                                                *)

\* What ForgottenOnlyWhen allows a step to do to key n.
Forgets(n) ==
  \/ n \in Remembered' \/ n \notin Nameless'
  \/ \E w \in Windows : /\ n \in Offered(w)
                        /\ \/ finishing[w] = "pick"
                           \/ newDevice'[w] = Blank /\ enrolled'[w]
                           \/ reloads' > reloads
                           \/ faults' > faults

LEMMA StillOffered ==
  ASSUME NEW n, NEW v \in Windows, n \in Offered(v),
         enrolled'[v] = enrolled[v], newDevice'[v] = newDevice[v]
  PROVE  Forgets(n)
<1>1. n \in Offered(v)'
  BY DEF Offered
<1> QED BY <1>1 DEF Forgets, Remembered

LEMMA StepForgets ==
  ASSUME Base, Next, NEW n \in Nameless, NEW v \in Windows, n \in Offered(v)
  PROVE  Forgets(n)
<1>1. n \in Keys /\ n = newDevice[v] /\ enrolled[v] /\ n \in live /\ n \notin named
  BY OfferedPosition DEF Nameless
<1> USE DEF Base, TypeOK
<1>2. CASE enrolled'[v] = enrolled[v] /\ newDevice'[v] = newDevice[v]
  BY <1>2, StillOffered
<1>3. ASSUME NEW m \in Calls, Challenge(m) PROVE Forgets(n)
  BY <1>2, <1>3 DEF Challenge, ChallengeGiven, ChallengeRefused, viewModel
<1>4. ASSUME NEW w \in Windows, NEW m \in Calls, StartRegistration(w, m) \/ SendBack(w, m)
      PROVE  Forgets(n)
  BY <1>2, <1>4 DEF StartRegistration, SendBack, viewModel
<1>5. ASSUME NEW w \in Windows,
             Notified(w) \/ CleanRandEnrollmentCode(w) \/ TriggerU2fRegisterRequest(w)
               \/ CancelUpdate(w) \/ Update(w)
      PROVE  Forgets(n)
  BY <1>2, <1>5 DEF Notified, RegistrationFinished, RegistrationThrows, ErrorReported, NotifiedOf,
     viewModel, CleanRandEnrollmentCode, TriggerU2fRegisterRequest, CancelUpdate, Update, CloseDialog
<1>6. ASSUME NEW w \in Windows, Pick(w) PROVE Forgets(n)
  <2>1. CASE v = w
    BY <1>6, <2>1, Picking DEF Forgets
  <2>2. CASE v # w
    <3>1. PICK d : Offer(w, d)
      BY <1>6, Picking
    <3> QED BY <1>2, <2>2, <3>1 DEF Offer
  <2> QED BY <2>1, <2>2
<1>7. ASSUME NEW w \in Windows, Add(w) \/ AddFails(w) PROVE Forgets(n)
  <2>1. AddTo(w)
    BY <1>7 DEF Add, AddFails
  <2>2. CASE v # w
    BY <1>2, <2>1, <2>2 DEF AddTo, ResetAddSettings
  <2>3. CASE v = w /\ Add(w)
    <3>1. Searches(n) = {{n}}
      BY <1>1, Specials DEF Searches, Found
    <3>2. n \in named'
      BY <1>1, <2>3, <3>1 DEF Add
    <3> QED BY <3>2 DEF Forgets, Nameless
  <2>4. CASE v = w /\ AddFails(w)
    <3>1. faults' > faults
      BY <2>4, Troubles DEF AddFails
    <3> QED BY <2>4, <3>1 DEF Forgets
  <2> QED BY <1>7, <2>2, <2>3, <2>4
<1>8. ASSUME NEW w \in Windows, Cancel(w) \/ CancelFails(w) PROVE Forgets(n)
  <2>1. CASE v # w
    BY <1>2, <1>8, <2>1 DEF Cancel, CancelFails, ResetAddSettings
  <2>2. CASE v = w /\ Cancel(w)
    <3>1. Searches(n) = {{n}}
      BY <1>1, Specials DEF Searches, Found
    <3>2. n \notin live'
      BY <1>1, <2>2, <3>1 DEF Cancel
    <3> QED BY <3>2 DEF Forgets, Nameless
  <2>3. CASE v = w /\ CancelFails(w)
    <3>1. faults' > faults
      BY <2>3, Troubles DEF CancelFails
    <3> QED BY <2>3, <3>1 DEF Forgets
  <2> QED BY <1>8, <2>1, <2>2, <2>3
<1>9. ASSUME NEW w \in Windows, PrepareForUpdate(w) PROVE Forgets(n)
  <2>1. CASE v # w
    BY <1>2, <1>9, <2>1 DEF PrepareForUpdate
  <2>2. CASE v = w
    <3>1. newDevice'[v] = Blank /\ enrolled'[v]
      BY <1>1, <1>9, <2>2 DEF PrepareForUpdate
    <3> QED BY <3>1 DEF Forgets
  <2> QED BY <2>1, <2>2
<1>10. ASSUME NEW w \in Windows, Reload(w) PROVE Forgets(n)
  <2>1. CASE v # w
    BY <1>2, <1>10, <2>1 DEF Reload, ResetAddSettings
  <2>2. CASE v = w
    <3>1. reloads' > reloads
      BY <1>10, Specials DEF Reload
    <3> QED BY <2>2, <3>1 DEF Forgets
  <2> QED BY <2>1, <2>2
<1> HIDE DEF Base, TypeOK
<1> QED BY <1>3, <1>4, <1>5, <1>6, <1>7, <1>8, <1>9, <1>10 DEF Next, Due

\* ForgottenOnlyWhen: a key that is offered without a name stays offered until
\* it is named or removed, unless prepareForUpdate, another notified, a page
\* opened again or a failure comes between.
THEOREM KeysForgotten == Spec => ForgottenOnlyWhen
<1> DEFINE Step == \A n \in Nameless \cap Remembered :
       n \in Remembered' \/ n \notin Nameless'
       \/ \E w \in Windows : /\ n \in Offered(w)
                             /\ \/ finishing[w] = "pick"
                                \/ newDevice'[w] = Blank /\ enrolled'[w]
                                \/ reloads' > reloads
                                \/ faults' > faults
<1>1. Base /\ [Next]_vars => [Step]_vars
  BY StepForgets DEF Remembered, Forgets
<1>2. Spec => [][Step]_vars
  BY <1>1, InitBase, StepBase, PTL DEF Spec
<1> QED BY <1>2 DEF ForgottenOnlyWhen

-----------------------------------------------------------------------------
(* A single registration is not refused.                                   *)

Undisturbed == faults = 0 /\ \A m, n \in pressed : m = n

Quiet == /\ \A m \in Calls : carried[m] = Null
         /\ \A w \in Windows : onData[w] = << >>

\* The one press there is has one thing to do at a time, and until its key
\* is entered its code or its challenge is known to the server.
Lone ==
  Undisturbed =>
    /\ refused = {}
    /\ \A n \in starting : /\ code = n /\ Quiet /\ timers = {}
                           /\ \A w \in Windows : finishing[w] = "no"
    /\ \A n \in timers : n \in open /\ Quiet
    /\ \A m \in Calls : carried[m] # Null =>
         m \in pressed /\ carried[m] \in open /\ \A w \in Windows : onData[w] = << >>
    /\ \A w \in Windows : finishing[w] # "no" => pressed # {}
    /\ \A w \in Windows : onData[w] # << >> =>
         Len(onData[w]) = 1 /\ Head(onData[w]).challenge \in open

LEMMA StaysUndisturbed ==
  ASSUME Base, Base', Next, Undisturbed'
  PROVE  Undisturbed /\ pressed \subseteq pressed'
<1>1. faults \in Nat /\ pressed \subseteq Calls /\ faults' = 0
  BY DEF Base, TypeOK, Undisturbed
<1>2. pressed \subseteq pressed' /\ faults <= faults'
  <2> USE <1>1 DEF Fault, browser, budget
  <2>1. ASSUME NEW n \in Calls, Challenge(n) PROVE pressed \subseteq pressed' /\ faults <= faults'
    BY <2>1 DEF Challenge, ChallengeGiven, ChallengeRefused
  <2>2. ASSUME NEW w \in Windows, NEW n \in Calls, StartRegistration(w, n) \/ SendBack(w, n)
        PROVE  pressed \subseteq pressed' /\ faults <= faults'
    BY <2>2 DEF StartRegistration, SendBack
  <2>3. ASSUME NEW w \in Windows, Notified(w) PROVE pressed \subseteq pressed' /\ faults <= faults'
    BY <2>3 DEF Notified, RegistrationFinished, RegistrationThrows, ErrorReported, NotifiedOf
  <2>4. ASSUME NEW w \in Windows, Pick(w) PROVE pressed \subseteq pressed' /\ faults <= faults'
    BY <2>4, Picking DEF Offer
  <2>5. ASSUME NEW w \in Windows, CleanRandEnrollmentCode(w)
        PROVE  pressed \subseteq pressed' /\ faults <= faults'
    BY <2>5 DEF CleanRandEnrollmentCode
  <2>6. ASSUME NEW w \in Windows, TriggerU2fRegisterRequest(w)
        PROVE  pressed \subseteq pressed' /\ faults <= faults'
    BY <2>6 DEF TriggerU2fRegisterRequest
  <2>7. ASSUME NEW w \in Windows, Add(w) \/ AddFails(w) \/ Cancel(w) \/ CancelFails(w)
        PROVE  pressed \subseteq pressed' /\ faults <= faults'
    BY <2>7 DEF Add, AddFails, AddTo, Cancel, CancelFails
  <2>8. ASSUME NEW w \in Windows, PrepareForUpdate(w) \/ CancelUpdate(w) \/ Update(w) \/ Reload(w)
        PROVE  pressed \subseteq pressed' /\ faults <= faults'
    BY <2>8 DEF PrepareForUpdate, CancelUpdate, Update, CloseDialog, Reload
  <2> QED BY <2>1, <2>2, <2>3, <2>4, <2>5, <2>6, <2>7, <2>8 DEF Next, Due
<1> QED BY <1>1, <1>2 DEF Undisturbed

LEMMA StepLone ==
  ASSUME Base, Base', Lone, Next
  PROVE  Lone'
<1>1. SUFFICES ASSUME Undisturbed' PROVE Lone'
  BY DEF Lone
<1>2. Undisturbed
  BY <1>1, StaysUndisturbed
<1>3. /\ refused = {}
      /\ \A n \in starting : /\ code = n /\ Quiet /\ timers = {}
                             /\ \A w \in Windows : finishing[w] = "no"
      /\ \A n \in timers : n \in open /\ Quiet
      /\ \A m \in Calls : carried[m] # Null =>
           m \in pressed /\ carried[m] \in open /\ \A w \in Windows : onData[w] = << >>
      /\ \A w \in Windows : finishing[w] # "no" => pressed # {}
      /\ \A w \in Windows : onData[w] # << >> =>
           Len(onData[w]) = 1 /\ Head(onData[w]).challenge \in open
  BY <1>2 DEF Lone
<1>4. faults' = faults /\ faults = 0 /\ ~(Fault /\ faults' # 0)
  BY <1>1, <1>2 DEF Undisturbed
<1>5. ~Fault
  BY <1>4, Troubles DEF Base
<1>6. ASSUME NEW m \in pressed, NEW n \in pressed PROVE m = n
  BY <1>2 DEF Undisturbed
<1>7. /\ starting \subseteq pressed /\ timers \subseteq pressed /\ open \subseteq pressed
      /\ pressed \subseteq Calls
  BY DEF Base, TypeOK
<1>8. \A w \in Windows :
        /\ register_request[w] # Null => register_request[w] \in CallsOf(w) \cap pressed
        /\ \A n \in CallsOf(w) : carried[n] # Null => carried[n] \in CallsOf(w) \cap pressed
        /\ \A i \in 1..Len(onData[w]) : onData[w][i].challenge \in CallsOf(w) \cap pressed
  BY DEF Base, Own
<1>9. ASSUME NEW n \in Calls, Challenge(n) PROVE Lone'
  <2>1. CASE ChallengeGiven(n)
    <3>1. starting = {n}
      BY <2>1, <1>6, <1>7 DEF ChallengeGiven
    <3> QED BY <2>1, <3>1, <1>3 DEF ChallengeGiven, Lone, Quiet, viewModel, library, budget
  <2>2. CASE ChallengeRefused(n)
    BY <2>2, <1>3, <1>5 DEF ChallengeRefused
  <2> QED BY <1>9, <2>1, <2>2 DEF Challenge
<1>10. ASSUME NEW w \in Windows, NEW n \in Calls, StartRegistration(w, n) PROVE Lone'
  <2> USE <1>10 DEF StartRegistration, directory, viewModel, budget
  <2>1. /\ starting = {} /\ timers = {n} /\ n \in open /\ Quiet
        /\ register_request[w] # Null => register_request[w] = n
    BY <1>3, <1>6, <1>7, <1>8
  <2>2. timers' = {}
    BY <2>1
  <2>3. \A m \in Calls : carried'[m] # Null => m = n /\ carried'[m] = n
    BY <2>1 DEF Base, TypeOK, Quiet
  <2>4. /\ n \in pressed /\ UNCHANGED <<refused, open, pressed, starting, finishing, onData>>
        /\ \A v \in Windows : onData[v] = << >>
    BY <2>1, <1>7 DEF Quiet
  <2> HIDE <1>10 DEF StartRegistration
  <2> QED BY <2>1, <2>2, <2>3, <2>4, <1>3 DEF Lone
<1>11. ASSUME NEW w \in Windows, NEW n \in Calls, SendBack(w, n) PROVE Lone'
  <2> USE DEF SendBack, directory, viewModel, budget
  <2>1. /\ n \in pressed /\ carried[n] \in open /\ (\A v \in Windows : onData[v] = << >>)
        /\ starting = {} /\ timers = {}
    BY <1>3, <1>11 DEF Quiet
  <2>2. PICK a : onData' = [onData EXCEPT ![w] =
                              Append(@, [challenge |-> carried[n], code |-> a.code])]
    BY <1>11
  <2> DEFINE e == [challenge |-> carried[n], code |-> a.code]
  <2>3. onData'[w] = <<e>> /\ \A v \in Windows \ {w} : onData'[v] = << >>
    <3> HIDE DEF e
    <3>1. onData' = [onData EXCEPT ![w] = Append(@, e)]
      BY <2>2 DEF e
    <3>2. Append(<< >>, e) = <<e>>
      OBVIOUS
    <3> QED BY <2>1, <3>1, <3>2 DEF Base, TypeOK
  <2>4. Len(<<e>>) = 1 /\ Head(<<e>>).challenge = carried[n]
    OBVIOUS
  <2> HIDE DEF e
  <2>5. \A m \in Calls : carried'[m] = Null
    BY <1>3, <1>6, <1>11, <2>1 DEF Base, TypeOK
  <2>6. UNCHANGED <<refused, open, pressed, finishing, starting, timers>>
    BY <1>11
  <2> HIDE DEF SendBack
  <2> QED BY <1>3, <2>1, <2>3, <2>4, <2>5, <2>6 DEF Lone
<1>12. ASSUME NEW w \in Windows, Notified(w) PROVE Lone'
  <2>1. Incoming(w) /\ NextEvent(w) /\ NotifiedOf(w)
    BY <1>12 DEF Notified, NotifiedOf, RegistrationFinished, RegistrationThrows, ErrorReported
  <2>2. /\ onData[w] # << >> /\ starting = {} /\ timers = {}
        /\ \A m \in Calls : carried[m] = Null
        /\ Head(onData[w]).challenge \in CallsOf(w) \cap pressed
        /\ Head(onData[w]).challenge \in open
        /\ Len(onData[w]) = 1
    BY <1>3, <2>1, Consumed DEF Incoming, Quiet
  <2>3. ASSUME NEW v \in Windows PROVE onData'[v] = << >>
    <3>1. CASE v = w
      <4> DEFINE R == [challenge : Calls, code : Codes]
      <4>1. Len(onData'[w]) = 0 /\ onData' \in [Windows -> Seq(R)]
        <5>1. Len(onData'[w]) = Len(onData[w]) - 1 /\ onData' \in [Windows -> Seq(R)]
          BY <2>1, Consumed
        <5> HIDE DEF R
        <5> QED BY <2>2, <5>1
      <4> HIDE DEF R
      <4>2. onData'[w] \in Seq(R)
        BY <4>1
      <4>3. onData'[w] = << >>
        BY <4>1, <4>2
      <4> QED BY <3>1, <4>3
    <3>2. CASE v # w
      <4>1. onData'[v] = onData[v]
        BY <2>1, <3>2, Consumed
      <4>2. SUFFICES ASSUME onData[v] # << >> PROVE FALSE
        BY <4>1
      <4>3. 1 \in 1..Len(onData[v])
        BY <1>3, <4>2
      <4>4. onData[v][1].challenge \in CallsOf(v) \cap pressed
        BY <1>8, <4>3
      <4> QED BY <1>6, <2>2, <3>2, <4>4, Specials
    <3> QED BY <3>1, <3>2
  <2>4. refused' = refused
    BY <1>5, <1>12, <2>2 DEF Notified, RegistrationFinished, RegistrationThrows, ErrorReported
  <2>5. UNCHANGED <<pressed, starting, timers, carried>>
    BY <2>1 DEF NotifiedOf
  <2>6. pressed # {}
    BY <2>2
  <2> QED BY <1>3, <2>2, <2>3, <2>4, <2>5, <2>6 DEF Lone
<1>13. ASSUME NEW w \in Windows, Pick(w) \/ CleanRandEnrollmentCode(w) PROVE Lone'
  <2>1. /\ finishing[w] # "no"
        /\ finishing' = [finishing EXCEPT ![w] = IF finishing[w] = "pick" THEN "clean" ELSE "no"]
        /\ UNCHANGED <<refused, open, pressed, starting, timers, carried, onData>>
    BY <1>13, Picking DEF Offer, CleanRandEnrollmentCode, directory, browser
  <2>2. starting = {} /\ pressed # {}
    BY <1>3, <2>1
  <2> QED BY <1>3, <2>1, <2>2 DEF Lone, Quiet
<1>14. ASSUME NEW w \in Windows, TriggerU2fRegisterRequest(w) PROVE Lone'
  <2>1. PICK n \in CallsOf(w) \ pressed :
          pressed' = pressed \cup {n} /\ starting' = starting \cup {n} /\ code' = n
    BY <1>5, <1>14 DEF TriggerU2fRegisterRequest
  <2>2. pressed = {}
    BY <1>1, <2>1 DEF Undisturbed
  <2>3. /\ starting = {} /\ timers = {} /\ (\A m \in Calls : carried[m] = Null)
        /\ \A v \in Windows : finishing[v] = "no"
    BY <1>3, <1>7, <2>2
  <2>4. \A v \in Windows : onData[v] = << >>
    <3> SUFFICES ASSUME NEW v \in Windows, onData[v] # << >> PROVE FALSE
      OBVIOUS
    <3>1. 1 \in 1..Len(onData[v])
      BY <1>3
    <3> QED BY <1>8, <2>2, <3>1
  <2>5. UNCHANGED <<refused, open, timers, carried, onData, finishing>>
    BY <1>14 DEF TriggerU2fRegisterRequest
  <2> QED BY <1>3, <2>1, <2>3, <2>4, <2>5 DEF Lone, Quiet
<1>15. ASSUME NEW w \in Windows, \/ Add(w) \/ AddFails(w) \/ Cancel(w) \/ CancelFails(w)
                                \/ PrepareForUpdate(w) \/ CancelUpdate(w) \/ Update(w)
       PROVE  Lone'
  <2>1. UNCHANGED <<code, open, starting, finishing, pressed, timers, carried, onData, refused>>
    BY <1>15 DEF Add, AddFails, AddTo, Cancel, CancelFails, PrepareForUpdate, CancelUpdate, Update,
       CloseDialog, directory, browser
  <2> QED BY <1>3, <2>1 DEF Lone, Quiet
<1>16. ASSUME NEW w \in Windows, Reload(w) PROVE Lone'
  <2>1. /\ UNCHANGED <<code, open, starting, finishing, pressed, refused>>
        /\ timers' \subseteq timers
        /\ \A m \in Calls : carried'[m] # Null => carried'[m] = carried[m]
        /\ \A v \in Windows : onData'[v] # << >> => onData'[v] = onData[v]
    BY <1>16 DEF Reload, directory, Base, TypeOK
  <2> QED BY <1>3, <2>1 DEF Lone, Quiet
<1> QED BY <1>9, <1>10, <1>11, <1>12, <1>13, <1>14, <1>15, <1>16 DEF Next, Due

\* RefusedOnlyWhenDisturbed: without failures, the U2F server refuses nothing
\* of the only press of the ready button (triggerU2fRegisterRequest, notified).
THEOREM RefusalsAreDisturbed == Spec => []RefusedOnlyWhenDisturbed
<1>1. Init => Lone
  BY Specials DEF Init, Lone, Quiet
<1>2. Base /\ Lone /\ UNCHANGED vars => Lone'
  BY DEF vars, directory, browser, budget, Lone, Quiet, Undisturbed
<1>3. Base /\ Lone /\ [Next]_vars => Lone'
  BY <1>2, StepBase, StepLone
<1>4. Lone => RefusedOnlyWhenDisturbed
  BY DEF Lone, Undisturbed, RefusedOnlyWhenDisturbed
<1> QED BY <1>1, <1>3, <1>4, InitBase, StepBase, PTL DEF Spec

-----------------------------------------------------------------------------
(* Only keys that are offered are removed.                                 *)

\* Windows that hold a key, or have one entered that they have to pick.
Holders == {w \in Windows : enrolled[w] \/ finishing[w] = "pick"}

\* Without failures there is a key for each of them, and one more as soon as
\* a device is listed; so a search without an id, which takes a listed device
\* that is edited, finds more than one.
Enough ==
  faults = 0 /\ reloads = 0 =>
    /\ IsFiniteSet(Holders)
    /\ Cardinality(live) >= Cardinality(Holders)
    /\ (\E w \in Windows : devices[w] # {}) => Cardinality(live) > Cardinality(Holders)
    /\ \A w \in Windows : enrolled[w] /\ newDevice[w] = Blank => devices[w] # {}

LEMMA LiveFinite ==
  ASSUME TypeOK
  PROVE  IsFiniteSet(live) /\ Cardinality(live) \in Nat
<1> DEFINE N == Len(created)
<1>1. N \in Nat /\ created \in [1..N -> Keys] /\ DOMAIN created = 1..N
  BY LenProperties DEF TypeOK
<1>2. created \in Surjection(1..N, ToSet(created))
  BY <1>1 DEF Surjection, ToSet
<1>3. IsFiniteSet(1..N)
  BY <1>1, FS_Interval
<1>4. IsFiniteSet(ToSet(created))
  BY <1>2, <1>3, FS_Surjection
<1>5. live \subseteq ToSet(created)
  BY DEF TypeOK
<1> QED BY <1>4, <1>5, FS_Subset, FS_CardinalityType

\* The step leaves the count alone, or makes it easier.
LEMMA EnoughCalm ==
  ASSUME Enough, TypeOK, TypeOK',
         faults' = 0 /\ reloads' = 0 =>
           /\ faults = 0 /\ reloads = 0
           /\ live' = live /\ devices' = devices
           /\ Holders' \subseteq Holders
           /\ \A w \in Windows : enrolled'[w] /\ newDevice'[w] = Blank => devices[w] # {}
  PROVE  Enough'
<1>1. SUFFICES ASSUME faults' = 0 /\ reloads' = 0
               PROVE  /\ IsFiniteSet(Holders')
                      /\ Cardinality(live') >= Cardinality(Holders')
                      /\ (\E w \in Windows : devices'[w] # {}) => Cardinality(live') > Cardinality(Holders')
                      /\ \A w \in Windows : enrolled'[w] /\ newDevice'[w] = Blank => devices'[w] # {}
  BY DEF Enough
<1>2. /\ IsFiniteSet(Holders)
      /\ Cardinality(live) >= Cardinality(Holders)
      /\ (\E w \in Windows : devices[w] # {}) => Cardinality(live) > Cardinality(Holders)
  BY <1>1 DEF Enough
<1>3. /\ live' = live /\ devices' = devices /\ Holders' \subseteq Holders
      /\ \A w \in Windows : enrolled'[w] /\ newDevice'[w] = Blank => devices[w] # {}
  BY <1>1
<1>4. /\ IsFiniteSet(Holders') /\ Cardinality(Holders') <= Cardinality(Holders)
      /\ Cardinality(Holders') \in Nat /\ Cardinality(Holders) \in Nat
  BY <1>2, <1>3, FS_Subset, FS_CardinalityType
<1>5. Cardinality(live) \in Nat
  BY LiveFinite
<1> QED BY <1>2, <1>3, <1>4, <1>5

\* A window gives its place up, for one key at most.
LEMMA EnoughReleased ==
  ASSUME Enough, TypeOK, NEW w \in Holders, NEW s \in SUBSET live,
         faults = 0, reloads = 0,
         Holders' = Holders \ {w},
         live' = live \ s, \A m, n \in s : m = n,
         \A v \in Windows : devices[v] # {} => devices'[v] # {},
         (\E v \in Windows : devices'[v] # {}) =>
            (\E v \in Windows : devices[v] # {}) \/ s = {},
         \A v \in Windows : enrolled'[v] /\ newDevice'[v] = Blank =>
            enrolled[v] /\ newDevice[v] = Blank
  PROVE  Enough'
<1>1. /\ IsFiniteSet(Holders)
      /\ Cardinality(live) >= Cardinality(Holders)
      /\ (\E v \in Windows : devices[v] # {}) => Cardinality(live) > Cardinality(Holders)
      /\ \A v \in Windows : enrolled[v] /\ newDevice[v] = Blank => devices[v] # {}
  BY DEF Enough
<1>2. /\ IsFiniteSet(Holders') /\ Cardinality(Holders') = Cardinality(Holders) - 1
      /\ Cardinality(Holders) \in Nat /\ Cardinality(Holders') \in Nat
  BY <1>1, FS_RemoveElement, FS_CardinalityType
<1>3. Cardinality(live) \in Nat /\ IsFiniteSet(live)
  BY LiveFinite
<1>4. \A v \in Windows : enrolled'[v] /\ newDevice'[v] = Blank => devices'[v] # {}
  BY <1>1
<1>5. SUFFICES /\ Cardinality(live') >= Cardinality(Holders')
               /\ (\E v \in Windows : devices'[v] # {}) => Cardinality(live') > Cardinality(Holders')
  BY <1>2, <1>4 DEF Enough
<1>6. CASE s = {}
  <2>1. Cardinality(live') = Cardinality(live)
    BY <1>6
  <2> QED BY <1>1, <1>2, <1>3, <2>1
<1>7. CASE s # {}
  <2>1. PICK m \in s : s = {m}
    BY <1>7
  <2>2. Cardinality(live') = Cardinality(live) - 1
    BY <1>3, <2>1, FS_RemoveElement
  <2>3. Cardinality(live') >= Cardinality(Holders')
    BY <1>1, <1>2, <1>3, <2>2
  <2>4. ASSUME \E v \in Windows : devices'[v] # {}
        PROVE  Cardinality(live') > Cardinality(Holders')
    <3>1. Cardinality(live) > Cardinality(Holders)
      BY <1>1, <1>7, <2>4
    <3> QED BY <1>2, <1>3, <2>2, <3>1
  <2> QED BY <2>3, <2>4
<1> QED BY <1>6, <1>7

LEMMA EnoughEntered ==
  ASSUME Base, Base', Enough, NEW w \in Windows, RegistrationFinished(w)
  PROVE  Enough'
<1>1. PICK n : live' = live \cup {n} /\ n \notin live
  BY Entering
<1>2. /\ UNCHANGED <<faults, reloads, devices, enrolled, newDevice>>
      /\ finishing' = [finishing EXCEPT ![w] = "pick"]
  BY DEF RegistrationFinished, NotifiedOf, viewModel
<1>3. SUFFICES ASSUME faults = 0 /\ reloads = 0 PROVE Enough'
  BY <1>2 DEF Enough
<1>4. /\ IsFiniteSet(Holders)
      /\ Cardinality(live) >= Cardinality(Holders)
      /\ (\E v \in Windows : devices[v] # {}) => Cardinality(live) > Cardinality(Holders)
      /\ \A v \in Windows : enrolled[v] /\ newDevice[v] = Blank => devices[v] # {}
  BY <1>3 DEF Enough
<1>5. Holders' = Holders \cup {w}
  BY <1>2 DEF Holders, Base, TypeOK
<1>6. /\ IsFiniteSet(Holders') /\ Cardinality(Holders') <= Cardinality(Holders) + 1
      /\ Cardinality(Holders) \in Nat /\ Cardinality(Holders') \in Nat
  <2>1. Cardinality(Holders) \in Nat
    BY <1>4, FS_CardinalityType
  <2>2. CASE w \in Holders
    <3>1. Holders' = Holders
      BY <1>5, <2>2
    <3> QED BY <1>4, <2>1, <3>1
  <2>3. CASE w \notin Holders
    <3>1. IsFiniteSet(Holders') /\ Cardinality(Holders') = Cardinality(Holders) + 1
      BY <1>4, <1>5, <2>3, FS_AddElement
    <3> QED BY <2>1, <3>1
  <2> QED BY <2>2, <2>3
<1>7. Cardinality(live') = Cardinality(live) + 1 /\ Cardinality(live) \in Nat
  BY <1>1, LiveFinite, FS_AddElement DEF Base
<1> QED BY <1>2, <1>4, <1>6, <1>7 DEF Enough

\* The steps of which the counting must know, without failures.
LEMMA EnoughStays ==
  ASSUME Base, Base', Enough, [Next]_vars
  PROVE  Enough'
<1> USE DEF Base
<1>0. SUFFICES ASSUME faults' = 0, reloads' = 0 PROVE Enough'
  BY DEF Enough
<1>1. ASSUME NEW n \in Calls, Challenge(n) PROVE Enough'
  <2>1. /\ UNCHANGED <<live, devices, enrolled, newDevice, finishing, reloads>>
        /\ faults = 0
    BY <1>0, <1>1, Troubles DEF Challenge, ChallengeGiven, ChallengeRefused, directory, viewModel, budget
  <2> QED BY <1>0, <2>1, EnoughCalm DEF Holders, Enough
<1>2. ASSUME NEW w \in Windows, NEW n \in Calls, StartRegistration(w, n) \/ SendBack(w, n)
      PROVE  Enough'
  <2>1. UNCHANGED <<live, devices, enrolled, newDevice, finishing, reloads, faults>>
    BY <1>2 DEF StartRegistration, SendBack, directory, viewModel, budget
  <2> QED BY <1>0, <2>1, EnoughCalm DEF Holders, Enough
<1>3. ASSUME NEW w \in Windows, Notified(w) PROVE Enough'
  <2>1. CASE RegistrationFinished(w)
    BY <2>1, EnoughEntered
  <2>2. CASE RegistrationThrows(w)
    <3>1. UNCHANGED <<live, devices, enrolled, newDevice, finishing, reloads>> /\ faults = 0
      BY <1>0, <2>2, Troubles DEF RegistrationThrows, NotifiedOf, viewModel
    <3> QED BY <1>0, <3>1, EnoughCalm DEF Holders, Enough
  <2>3. CASE ErrorReported(w)
    <3>1. /\ UNCHANGED <<live, devices, enrolled, newDevice, reloads, faults>>
          /\ finishing' = [finishing EXCEPT ![w] = "clean"]
      BY <2>3 DEF ErrorReported, NotifiedOf, viewModel
    <3>2. Holders' \subseteq Holders
      BY <3>1 DEF Holders, TypeOK
    <3> QED BY <1>0, <3>1, <3>2, EnoughCalm DEF Enough
  <2> QED BY <1>3, <2>1, <2>2, <2>3 DEF Notified
<1>4. ASSUME NEW w \in Windows, Pick(w) PROVE Enough'
  <2>1. PickLatest(w) /\ UNCHANGED faults
    BY <1>0, <1>4, Troubles DEF Pick, PickLatest, PickSkewed, PickFails
  <2>2. PICK d \in Keys \cup {Null} :
          /\ finishing[w] = "pick"
          /\ newDevice' = [newDevice EXCEPT ![w] = d]
          /\ enrolled'  = [enrolled EXCEPT ![w] = @ \/ d # Null]
          /\ finishing' = [finishing EXCEPT ![w] = "clean"]
          /\ UNCHANGED <<live, devices, reloads>>
    <3> DEFINE d == GetLatestSecurityKey(0)
    <3>1. /\ finishing[w] = "pick"
          /\ newDevice' = [newDevice EXCEPT ![w] = d]
          /\ enrolled'  = [enrolled EXCEPT ![w] = @ \/ d # Null]
          /\ finishing' = [finishing EXCEPT ![w] = "clean"]
          /\ UNCHANGED <<live, devices, reloads>>
      BY <2>1 DEF PickLatest, Offer, directory
    <3>2. d \in Keys \cup {Null}
      <4>1. newDevice'[w] \in Keys \cup {Blank, Null}
        BY DEF TypeOK
      <4>2. Len(created) \in Nat /\ 0 <= Len(created)
        BY Positions
      <4>3. d = Null \/ d \in live
        BY <4>2, Picked
      <4> QED BY <4>3, Positions
    <3> QED BY <3>1, <3>2
  <2>3. Holders' \subseteq Holders
    BY <2>2 DEF Holders, TypeOK
  <2>4. \A v \in Windows : enrolled'[v] /\ newDevice'[v] = Blank =>
          enrolled[v] /\ newDevice[v] = Blank
    BY <2>2, Specials DEF TypeOK
  <2> QED BY <1>0, <2>1, <2>2, <2>3, <2>4, EnoughCalm DEF Enough
<1>5. ASSUME NEW w \in Windows, CleanRandEnrollmentCode(w) PROVE Enough'
  <2>1. /\ UNCHANGED <<live, devices, enrolled, newDevice, reloads>> /\ faults = 0
        /\ finishing' = [finishing EXCEPT ![w] = "no"]
    BY <1>0, <1>5, Troubles DEF CleanRandEnrollmentCode
  <2>2. Holders' \subseteq Holders
    BY <2>1 DEF Holders, TypeOK
  <2> QED BY <1>0, <2>1, <2>2, EnoughCalm DEF Enough
<1>6. ASSUME NEW w \in Windows, TriggerU2fRegisterRequest(w) PROVE Enough'
  <2>1. UNCHANGED <<live, devices, enrolled, newDevice, finishing, reloads, faults>>
    BY <1>0, <1>6, Troubles DEF TriggerU2fRegisterRequest
  <2> QED BY <1>0, <2>1, EnoughCalm DEF Holders, Enough
<1>7. ASSUME NEW w \in Windows, Add(w) \/ AddFails(w) PROVE Enough'
  <2>1. /\ UNCHANGED <<live, finishing, reloads, faults>>
        /\ enrolled[w] /\ finishing[w] = "no"
        /\ devices' = [devices EXCEPT ![w] = @ \cup {newDevice[w]}]
        /\ enrolled'  = [enrolled EXCEPT ![w] = FALSE]
        /\ newDevice' = [newDevice EXCEPT ![w] = Blank]
    BY <1>0, <1>7, Troubles DEF Add, AddFails, AddTo, ResetAddSettings, Idle, Busy
  <2>2. w \in Holders /\ Holders' = Holders \ {w}
    BY <2>1 DEF Holders, TypeOK
  <2>3. \A v \in Windows : devices[v] # {} => devices'[v] # {}
    BY <2>1 DEF TypeOK
  <2>4. \A v \in Windows : enrolled'[v] /\ newDevice'[v] = Blank =>
          enrolled[v] /\ newDevice[v] = Blank
    BY <2>1 DEF TypeOK
  <2> DEFINE s == {}
  <2>5. s \in SUBSET live /\ live' = live \ s
    BY <2>1
  <2>6. faults = 0 /\ reloads = 0
    BY <1>0, <2>1
  <2> QED BY <2>2, <2>3, <2>4, <2>5, <2>6, EnoughReleased
<1>8. ASSUME NEW w \in Windows, Cancel(w) \/ CancelFails(w) PROVE Enough'
  <2>1. /\ Cancel(w)
        /\ UNCHANGED <<devices, finishing, reloads, faults>>
        /\ enrolled[w] /\ finishing[w] = "no"
        /\ enrolled'  = [enrolled EXCEPT ![w] = FALSE]
        /\ newDevice' = [newDevice EXCEPT ![w] = Blank]
    BY <1>0, <1>8, Troubles DEF Cancel, CancelFails, ResetAddSettings, budget, Idle, Busy
  <2>2. PICK s \in Searches(newDevice[w]) : live' = live \ s
    BY <2>1 DEF Cancel
  <2>3. s \in SUBSET live /\ \A m, n \in s : m = n
    BY <2>2 DEF Searches, Found
  <2>4. w \in Holders /\ Holders' = Holders \ {w}
    BY <2>1 DEF Holders, TypeOK
  <2>5. \A v \in Windows : enrolled'[v] /\ newDevice'[v] = Blank =>
          enrolled[v] /\ newDevice[v] = Blank
    BY <2>1 DEF TypeOK
  <2>6. faults = 0 /\ reloads = 0
    BY <1>0, <2>1
  <2> QED BY <2>1, <2>2, <2>3, <2>4, <2>5, <2>6, EnoughReleased
<1>9. ASSUME NEW w \in Windows, PrepareForUpdate(w) \/ CancelUpdate(w) \/ Update(w)
      PROVE  Enough'
  <2>1. UNCHANGED <<live, devices, enrolled, finishing, reloads>> /\ faults = 0
    BY <1>0, <1>9, Troubles DEF PrepareForUpdate, CancelUpdate, Update, CloseDialog, directory, budget
  <2>2. \A v \in Windows : newDevice'[v] = newDevice[v] \/ devices[v] # {}
    BY <1>9 DEF PrepareForUpdate, CancelUpdate, Update, CloseDialog, TypeOK
  <2>3. Holders' = Holders
    BY <2>1 DEF Holders
  <2> QED BY <1>0, <2>1, <2>2, <2>3, EnoughCalm DEF Enough
<1>10. ASSUME NEW w \in Windows, Reload(w) PROVE Enough'
  BY <1>0, <1>10 DEF Reload, TypeOK
<1>11. ASSUME UNCHANGED vars PROVE Enough'
  <2>1. UNCHANGED <<live, devices, enrolled, newDevice, finishing, reloads, faults>>
    BY <1>11 DEF vars, directory, viewModel, budget
  <2> QED BY <1>0, <2>1, EnoughCalm DEF Holders, Enough
<1> QED BY <1>1, <1>2, <1>3, <1>4, <1>5, <1>6, <1>7, <1>8, <1>9, <1>10, <1>11 DEF Next, Due

\* Only a cancel takes an entry away.
LEMMA OthersRemoveNothing ==
  ASSUME [Next]_vars, NEW n \in live, n \notin live'
  PROVE  \E w \in Windows : Cancel(w)
<1> SUFFICES ASSUME \A w \in Windows : ~Cancel(w) PROVE FALSE
  OBVIOUS
<1>1. ASSUME NEW m \in Calls, Challenge(m) PROVE FALSE
  BY <1>1 DEF Challenge, ChallengeGiven, ChallengeRefused, directory
<1>2. ASSUME NEW w \in Windows, NEW m \in Calls, StartRegistration(w, m) \/ SendBack(w, m)
      PROVE  FALSE
  BY <1>2 DEF StartRegistration, SendBack, directory
<1>3. ASSUME NEW w \in Windows, Notified(w) PROVE FALSE
  BY <1>3 DEF Notified, RegistrationFinished, RegistrationThrows, ErrorReported
<1>4. ASSUME NEW w \in Windows, Pick(w) PROVE FALSE
  BY <1>4 DEF Pick, PickLatest, PickSkewed, PickFails, Offer, directory
<1>5. ASSUME NEW w \in Windows, CleanRandEnrollmentCode(w) \/ TriggerU2fRegisterRequest(w)
      PROVE  FALSE
  BY <1>5 DEF CleanRandEnrollmentCode, TriggerU2fRegisterRequest
<1>6. ASSUME NEW w \in Windows, \/ Add(w) \/ AddFails(w) \/ CancelFails(w) \/ Reload(w)
                                \/ PrepareForUpdate(w) \/ CancelUpdate(w) \/ Update(w)
      PROVE  FALSE
  BY <1>6 DEF Add, AddFails, AddTo, CancelFails, Reload, PrepareForUpdate, CancelUpdate, Update,
     CloseDialog, directory
<1>7. ASSUME UNCHANGED vars PROVE FALSE
  BY <1>7 DEF vars, directory
<1> QED BY <1>1, <1>2, <1>3, <1>4, <1>5, <1>6, <1>7 DEF Next, Due

\* A cancel of a device without an id finds more keys than one, as long as
\* nothing failed and no page was opened again.
LEMMA CancelRemoves ==
  ASSUME Base, Enough, NEW w \in Windows, Cancel(w), NEW n \in live, n \notin live'
  PROVE  n \in Offered(w) \/ (live = {n} /\ faults + reloads > 0)
<1>1. PICK s \in Searches(newDevice[w]) : live' = live \ s
  BY DEF Cancel
<1>2. n \in s /\ enrolled[w] /\ n \in Keys
  BY <1>1, Positions DEF Cancel, Base
<1>3. CASE newDevice[w] # Blank
  BY <1>1, <1>2, <1>3 DEF Searches, Found, Offered
<1>4. CASE newDevice[w] = Blank
  <2>1. live = {n}
    BY <1>1, <1>2, <1>4 DEF Searches, Found
  <2>2. faults \in Nat /\ reloads \in Nat
    BY Specials DEF Base, TypeOK
  <2>3. CASE faults = 0 /\ reloads = 0
    <3>1. /\ IsFiniteSet(Holders) /\ Cardinality(live) > Cardinality(Holders)
      BY <1>2, <1>4, <2>3 DEF Enough
    <3>2. Cardinality(live) = 1
      BY <2>1, FS_Singleton
    <3>3. Cardinality(Holders) \in Nat
      BY <3>1, FS_CardinalityType
    <3>4. Holders = {}
      BY <3>1, <3>2, <3>3, FS_EmptySet
    <3> QED BY <1>2, <3>4 DEF Holders
  <2> QED BY <2>1, <2>2, <2>3
<1> QED BY <1>3, <1>4

LEMMA InitEnough == Init => Enough
<1> SUFFICES ASSUME Init PROVE Enough
  OBVIOUS
<1>1. Holders = {} /\ live = OldKeys /\ \A w \in Windows : devices[w] = OldKeys /\ ~enrolled[w]
  BY DEF Init, Holders
<1>2. /\ IsFiniteSet(Holders) /\ Cardinality(Holders) = 0
      /\ Cardinality(OldKeys) \in Nat /\ (OldKeys # {} => Cardinality(OldKeys) # 0)
  BY <1>1, SKAssumption, FS_EmptySet, FS_CardinalityType
<1>3. /\ Cardinality(live) >= Cardinality(Holders)
      /\ OldKeys # {} => Cardinality(live) > Cardinality(Holders)
  BY <1>1, <1>2
<1> QED BY <1>1, <1>2, <1>3 DEF Enough

\* OnlyOfferedIsRemoved: removeDevice of FidoService, called by cancel, never
\* takes away the entry of a key that no window offered, unless something
\* failed or a page was opened again and it is the only registration left.
THEOREM OnlyOfferedRemoved == Spec => OnlyOfferedIsRemoved
<1> DEFINE Step == \A n \in live \ live' :
       \/ \E w \in Windows : n \in Offered(w)
       \/ live = {n} /\ faults + reloads > 0
<1>1. Base /\ Enough /\ [Next]_vars => [Step]_vars
  BY OthersRemoveNothing, CancelRemoves
<1>2. Base /\ Enough /\ [Next]_vars => Enough'
  BY StepBase, EnoughStays
<1>3. Spec => [][Step]_vars
  BY <1>1, <1>2, InitBase, InitEnough, StepBase, PTL DEF Spec
<1> QED BY <1>3 DEF OnlyOfferedIsRemoved

-----------------------------------------------------------------------------
(* What AwaitingEnds rests on: the wait of a window is always in somebody's  *)
(* hands.                                                                    *)

\* Something of the window is due: a press to be given its challenge, a timer
\* to fire, a call the library has not answered, an event, or the rest of one.
Pending(w) ==
  \/ starting \cap CallsOf(w) # {}
  \/ timers \cap CallsOf(w) # {}
  \/ \E n \in CallsOf(w) : carried[n] # Null
  \/ onData[w] # << >>
  \/ finishing[w] # "no"

\* The same, with what it takes to run: the call of a timer was not made, and
\* has a request to carry; a call that was made has no answer yet.
Runnable(w) ==
  \/ starting \cap CallsOf(w) # {}
  \/ \E n \in timers \cap CallsOf(w) : n \notin asked /\ register_request[w] # Null
  \/ \E n \in CallsOf(w) : carried[n] # Null /\ n \in asked /\ got[n] = << >>
  \/ onData[w] # << >>
  \/ finishing[w] # "no"

\* A window that shows it waits has a handler, a timer, a call or an event to
\* wait for, unless the server refused it a challenge or a key: what other
\* windows do to the code of the user, and what is left of earlier presses
\* and of a page that was opened again, never takes the last one away.
WaitingHasReason ==
  \A w \in Windows : awaiting[w] => Runnable(w) \/ refused \cap CallsOf(w) # {}

WaitsForSomething ==
  \A w \in Windows : awaiting[w] => Pending(w) \/ refused \cap CallsOf(w) # {}

\* A press passes through the timer and the library once: no call is made
\* twice, and what waits for an answer was asked.
Handed ==
  /\ asked \subseteq pressed
  /\ starting \cap timers = {}
  /\ (starting \cup timers) \cap asked = {}
  /\ \A n \in Calls : n \notin asked => got[n] = << >>
  /\ \A n \in Calls : carried[n] # Null => n \in asked /\ got[n] = << >>
  /\ \A w \in Windows : timers \cap CallsOf(w) # {} => register_request[w] # Null

WaitInv == Handed /\ WaitsForSomething

\* What the handlers that only look at keys leave alone.
handing == <<awaiting, refused, pressed, starting, timers, carried, onData, finishing,
             asked, got, register_request>>

LEMMA WaitUnchanged == WaitInv /\ UNCHANGED handing => WaitInv'
BY DEF WaitInv, Handed, WaitsForSomething, Pending, handing

LEMMA WaitTrigger ==
  ASSUME Base, WaitInv, NEW w \in Windows, TriggerU2fRegisterRequest(w)
  PROVE  WaitInv'
<1>1. PICK n \in CallsOf(w) \ pressed :
        pressed' = pressed \cup {n} /\ starting' = starting \cup {n}
  BY DEF TriggerU2fRegisterRequest
<1>2. /\ awaiting' = [awaiting EXCEPT ![w] = TRUE]
      /\ UNCHANGED <<refused, timers, carried, onData, finishing, asked, got, register_request>>
  BY DEF TriggerU2fRegisterRequest, library
<1>3. Handed'
  BY <1>1, <1>2 DEF WaitInv, Handed, Base, TypeOK
<1>4. \A v \in Windows : Pending(v) => Pending(v)'
  BY <1>1, <1>2 DEF Pending
<1>5. Pending(w)'
  BY <1>1 DEF Pending
<1>6. \A v \in Windows : v # w => awaiting'[v] = awaiting[v]
  BY <1>2 DEF Base, TypeOK
<1>7. WaitsForSomething'
  BY <1>2, <1>4, <1>5, <1>6 DEF WaitInv, WaitsForSomething
<1> QED BY <1>3, <1>7 DEF WaitInv

LEMMA WaitChallenge ==
  ASSUME Base, WaitInv, NEW n \in Calls, Challenge(n)
  PROVE  WaitInv'
<1>1. /\ n \in starting /\ starting' = starting \ {n}
      /\ UNCHANGED <<awaiting, pressed, carried, onData, finishing, asked, got>>
  BY DEF Challenge, ChallengeGiven, ChallengeRefused, viewModel, library, browser
<1>2. \/ /\ timers' = timers \cup {n} /\ refused' = refused
         /\ register_request' = [w \in Windows |-> IF n \in CallsOf(w) THEN n ELSE register_request[w]]
      \/ /\ refused' = refused \cup {n} /\ UNCHANGED <<timers, register_request>>
  BY DEF Challenge, ChallengeGiven, ChallengeRefused, browser
<1>3. Handed'
  <2>1. \A w \in Windows : timers' \cap CallsOf(w) # {} => register_request'[w] # Null
    BY <1>2, Specials DEF WaitInv, Handed, Keys
  <2> QED BY <1>1, <1>2, <2>1 DEF WaitInv, Handed
<1>4. ASSUME NEW w \in Windows, Pending(w)
      PROVE  Pending(w)' \/ refused' \cap CallsOf(w) # {}
  <2>1. CASE n \in CallsOf(w)
    BY <1>2, <2>1 DEF Pending
  <2>2. CASE n \notin CallsOf(w)
    BY <1>1, <1>2, <1>4, <2>2 DEF Pending
  <2> QED BY <2>1, <2>2
<1>5. refused \subseteq refused'
  BY <1>2
<1> QED BY <1>1, <1>3, <1>4, <1>5 DEF WaitInv, WaitsForSomething

LEMMA WaitStart ==
  ASSUME Base, WaitInv, NEW w \in Windows, NEW n \in Calls, StartRegistration(w, n)
  PROVE  WaitInv'
<1>1. /\ n \in timers \cap CallsOf(w) /\ timers' = timers \ {n}
      /\ carried' = [carried EXCEPT ![n] = register_request[w]]
      /\ n \notin asked /\ asked' = asked \cup {n} /\ got' = got
      /\ UNCHANGED <<awaiting, refused, pressed, starting, onData, finishing, register_request>>
  BY DEF StartRegistration, U2f!Ask, viewModel
<1>2. \A m \in Calls : carried'[m] = IF m = n THEN register_request[w] ELSE carried[m]
  BY <1>1 DEF Base, TypeOK
<1>3. register_request[w] # Null /\ got[n] = << >> /\ n \in pressed
  BY <1>1 DEF WaitInv, Handed, Base, TypeOK
<1>4. Handed'
  BY <1>1, <1>2, <1>3 DEF WaitInv, Handed
<1>5. \A v \in Windows : Pending(v) => Pending(v)'
  <2>1. Pending(w)'
    BY <1>1, <1>2, <1>3 DEF Pending
  <2>2. ASSUME NEW v \in Windows, v # w, Pending(v) PROVE Pending(v)'
    <3>1. n \notin CallsOf(v) /\ CallsOf(v) \subseteq Calls
      BY <1>1, <2>2, Specials
    <3> QED BY <1>1, <1>2, <2>2, <3>1 DEF Pending
  <2> QED BY <2>1, <2>2
<1> QED BY <1>1, <1>4, <1>5 DEF WaitInv, WaitsForSomething

LEMMA WaitSendBack ==
  ASSUME Base, WaitInv, NEW w \in Windows, NEW n \in Calls, SendBack(w, n)
  PROVE  WaitInv'
<1>1. PICK a \in U2f!AnswersTo(n) :
        /\ U2f!Answer(n, a)
        /\ onData' = [onData EXCEPT ![w] =
                        Append(@, [challenge |-> carried[n], code |-> a.code])]
  BY DEF SendBack
<1>2. /\ n \in CallsOf(w) /\ n \in asked /\ asked' = asked
      /\ got' = [got EXCEPT ![n] = <<a>>]
      /\ carried' = [carried EXCEPT ![n] = Null]
      /\ UNCHANGED <<awaiting, refused, pressed, starting, timers, finishing, register_request>>
  BY <1>1 DEF SendBack, U2f!Answer, viewModel
<1>3. \A m \in Calls : m # n => got'[m] = got[m] /\ carried'[m] = carried[m]
  BY <1>2 DEF Base, TypeOK
<1>4. carried'[n] = Null
  BY <1>2 DEF Base, TypeOK
<1>5. Handed'
  BY <1>2, <1>3, <1>4 DEF WaitInv, Handed
<1>6. onData'[w] # << >> /\ \A v \in Windows : v # w => onData'[v] = onData[v]
  <2> DEFINE e == [challenge |-> carried[n], code |-> a.code]
  <2>1. onData' = [onData EXCEPT ![w] = Append(@, e)]
    BY <1>1
  <2> HIDE DEF e
  <2>2. onData \in [Windows -> Seq([challenge : Calls, code : Codes])]
    BY DEF Base, TypeOK
  <2>3. onData[w] \in Seq([challenge : Calls, code : Codes])
    BY <2>2
  <2>4. Append(onData[w], e) # << >>
    BY <2>3
  <2> QED BY <2>1, <2>2, <2>4
<1>7. \A v \in Windows : Pending(v) => Pending(v)'
  <2>1. Pending(w)'
    BY <1>6 DEF Pending
  <2>2. ASSUME NEW v \in Windows, v # w, Pending(v) PROVE Pending(v)'
    <3>1. n \notin CallsOf(v) /\ CallsOf(v) \subseteq Calls
      BY <1>2, <2>2, Specials
    <3> QED BY <1>2, <1>3, <1>6, <2>2, <3>1 DEF Pending
  <2> QED BY <2>1, <2>2
<1> QED BY <1>2, <1>5, <1>7 DEF WaitInv, WaitsForSomething

LEMMA WaitNotified ==
  ASSUME Base, WaitInv, NEW w \in Windows, Notified(w)
  PROVE  WaitInv'
<1>1. /\ Incoming(w) /\ NextEvent(w)
      /\ UNCHANGED <<awaiting, pressed, starting, timers, carried, asked, got, register_request>>
  BY DEF Notified, RegistrationFinished, RegistrationThrows, ErrorReported, NotifiedOf,
         viewModel, library
<1>2. \A v \in Windows : v # w => onData'[v] = onData[v]
  BY <1>1, Consumed
<1>3. \/ refused' = refused /\ \E r \in {"pick", "clean"} : finishing' = [finishing EXCEPT ![w] = r]
      \/ refused' = refused \cup {Head(onData[w]).challenge} /\ finishing' = finishing
  BY DEF Notified, RegistrationFinished, RegistrationThrows, ErrorReported
<1>4. \A v \in Windows : v # w => finishing'[v] = finishing[v]
  BY <1>3 DEF Base, TypeOK
<1>5. Head(onData[w]).challenge \in CallsOf(w)
  BY <1>1, Consumed
<1>6. finishing'[w] # "no" \/ refused' \cap CallsOf(w) # {}
  BY <1>3, <1>5 DEF Base, TypeOK
<1>7. Handed'
  BY <1>1 DEF WaitInv, Handed
<1>8. \A v \in Windows : v # w => (Pending(v) => Pending(v)')
  BY <1>1, <1>2, <1>4 DEF Pending
<1>9. refused \subseteq refused'
  BY <1>3
<1>10. WaitsForSomething'
  BY <1>1, <1>6, <1>8, <1>9 DEF WaitInv, WaitsForSomething, Pending
<1> QED BY <1>7, <1>10 DEF WaitInv

LEMMA WaitPick ==
  ASSUME Base, WaitInv, NEW w \in Windows, Pick(w)
  PROVE  WaitInv'
<1>1. /\ finishing' = [finishing EXCEPT ![w] = "clean"]
      /\ UNCHANGED <<awaiting, refused, pressed, starting, timers, carried, onData, asked, got,
                     register_request>>
  BY DEF Pick, PickLatest, PickSkewed, PickFails, Offer, browser, library
<1>2. \A v \in Windows : finishing[v] # "no" => finishing'[v] # "no"
  BY <1>1 DEF Base, TypeOK
<1> QED BY <1>1, <1>2 DEF WaitInv, Handed, WaitsForSomething, Pending

LEMMA WaitClean ==
  ASSUME Base, WaitInv, NEW w \in Windows, CleanRandEnrollmentCode(w)
  PROVE  WaitInv'
<1>1. /\ finishing' = [finishing EXCEPT ![w] = "no"]
      /\ awaiting' = [awaiting EXCEPT ![w] = FALSE]
      /\ UNCHANGED <<refused, pressed, starting, timers, carried, onData, asked, got,
                     register_request>>
  BY DEF CleanRandEnrollmentCode, browser, library
<1>2. /\ ~awaiting'[w]
      /\ \A v \in Windows : v # w => finishing'[v] = finishing[v] /\ awaiting'[v] = awaiting[v]
  BY <1>1 DEF Base, TypeOK
<1>3. \A v \in Windows : v # w => (Pending(v) => Pending(v)')
  BY <1>1, <1>2 DEF Pending
<1> QED BY <1>1, <1>2, <1>3 DEF WaitInv, Handed, WaitsForSomething

LEMMA WaitReload ==
  ASSUME Base, WaitInv, NEW w \in Windows, Reload(w)
  PROVE  WaitInv'
<1>1. /\ awaiting' = [awaiting EXCEPT ![w] = FALSE]
      /\ register_request' = [register_request EXCEPT ![w] = Null]
      /\ timers' = timers \ CallsOf(w)
      /\ carried' = [n \in Calls |-> IF n \in CallsOf(w) THEN Null ELSE carried[n]]
      /\ onData' = [onData EXCEPT ![w] = << >>]
      /\ UNCHANGED <<refused, pressed, starting, finishing, asked, got>>
  BY DEF Reload, library
<1>2. /\ ~awaiting'[w]
      /\ \A v \in Windows : v # w => /\ awaiting'[v] = awaiting[v]
                                     /\ register_request'[v] = register_request[v]
                                     /\ onData'[v] = onData[v]
  BY <1>1 DEF Base, TypeOK
<1>3. Handed'
  BY <1>1, <1>2 DEF WaitInv, Handed
<1>4. ASSUME NEW v \in Windows, v # w, Pending(v) PROVE Pending(v)'
  <2>1. CallsOf(v) \cap CallsOf(w) = {} /\ CallsOf(v) \subseteq Calls
    BY <1>4, Specials
  <2>2. \A n \in CallsOf(v) : carried'[n] = carried[n]
    BY <1>1, <2>1
  <2> QED BY <1>1, <1>2, <1>4, <2>1, <2>2 DEF Pending
<1> QED BY <1>1, <1>2, <1>3, <1>4 DEF WaitInv, WaitsForSomething

LEMMA WaitStep ==
  ASSUME Base, WaitInv, [Next]_vars
  PROVE  WaitInv'
<1>1. ASSUME NEW w \in Windows,
             \/ Add(w) \/ AddFails(w)
             \/ Cancel(w) \/ CancelFails(w)
             \/ PrepareForUpdate(w) \/ CancelUpdate(w) \/ Update(w)
      PROVE  WaitInv'
  <2>1. UNCHANGED handing
    BY <1>1 DEF Add, AddFails, AddTo, Cancel, CancelFails, PrepareForUpdate, CancelUpdate,
                Update, CloseDialog, handing, browser, library
  <2> QED BY <2>1, WaitUnchanged
<1>2. CASE UNCHANGED vars
  BY <1>2, WaitUnchanged DEF vars, viewModel, browser, library, handing
<1> QED
  BY <1>1, <1>2, WaitTrigger, WaitChallenge, WaitStart, WaitSendBack, WaitNotified, WaitPick,
     WaitClean, WaitReload
  DEF Next, Due

\* For any windows, presses and failures: the safety half of AwaitingEnds.
THEOREM WaitsHaveReasons == Spec => []WaitingHasReason
<1>1. Init => WaitInv
  BY DEF Init, U2f!Init, WaitInv, Handed, WaitsForSomething
<1>2. Spec => []Base
  BY InitBase, StepBase, PTL DEF Spec
<1>3. Spec => []WaitInv
  BY <1>1, <1>2, WaitStep, PTL DEF Spec
<1>4. Base /\ WaitInv => WaitingHasReason
  <2> SUFFICES ASSUME WaitInv, NEW w \in Windows, Pending(w) PROVE Runnable(w)
    BY DEF WaitInv, WaitsForSomething, WaitingHasReason
  <2>1. CallsOf(w) \subseteq Calls
    BY Specials
  <2> QED BY <2>1 DEF WaitInv, Handed, Pending, Runnable
<1> QED BY <1>2, <1>3, <1>4, PTL

=============================================================================
