---------------------------- MODULE OtpPage_Proofs ----------------------------
(***************************************************************************)
(* The safety of the pages with QR codes, for any timeouts and any number  *)
(* of codes: types, how fast the time of a code runs, how often the server *)
(* is told of a timeout, and what stopPolling stops.                       *)
(***************************************************************************)
EXTENDS OtpPage, TLAPS, FiniteSetTheorems

Counted ==
  /\ starts + requests = presses
  /\ presses <= MaxStarts
  /\ pollOverlaps <= starts

\* The bar that runs is that of the last code.
Bar ==
  /\ ~container => timer = Null
  /\ container => /\ timer = starts
                  /\ timer \in workers
                  /\ value < maxValue
                  /\ value >= elapsed
                  /\ overlaps = 0 => value = elapsed

LeftBehind == Cardinality(workers \ {timer}) <= overlaps

\* What the intervals that are left behind have still to count in this round
\* has its place in the bound already.
Pace ==
  container =>
    value + Cardinality(due \ {timer})
      <= elapsed + overlaps * (elapsed + (IF timer \in due THEN 2 ELSE 1))

PollsKnown == Cardinality(polls \ {timerID}) <= pollOverlaps

IInv == TypeOK /\ Counted /\ OneTimeoutEach /\ Bar /\ LeftBehind /\ Pace /\ PollsKnown

-----------------------------------------------------------------------------
(* Finite sets of intervals.                                               *)

LEMMA Numbers ==
  ASSUME TypeOK, Counted, OneTimeoutEach
  PROVE  /\ starts \in Nat /\ requests \in Nat /\ presses \in Nat
         /\ overlaps \in Nat /\ timeouts \in Nat /\ pollOverlaps \in Nat
         /\ MaxStarts \in Nat /\ elapsed \in Nat /\ value \in Nat /\ maxValue \in Nat
         /\ starts <= MaxStarts /\ overlaps <= starts /\ timeouts <= starts
         /\ \A i \in 1..starts : i \in Ids /\ i # Null /\ i # starts + 1
<1>1. /\ starts \in Nat /\ requests \in Nat /\ presses \in Nat
      /\ overlaps \in Nat /\ timeouts \in Nat /\ pollOverlaps \in Nat
      /\ MaxStarts \in Nat /\ elapsed \in Nat /\ value \in Nat
  BY OtpAssumption DEF TypeOK
<1>2. maxValue \in Nat
  BY OtpAssumption DEF TypeOK
<1> QED BY <1>1, <1>2, OtpAssumption DEF Counted, OneTimeoutEach, Ids

LEMMA Finite ==
  ASSUME TypeOK
  PROVE  /\ IsFiniteSet(workers) /\ IsFiniteSet(due) /\ IsFiniteSet(polls)
         /\ \A x : IsFiniteSet(workers \ {x}) /\ IsFiniteSet(due \ {x})
                  /\ IsFiniteSet(polls \ {x})
<1>1. starts \in Nat
  BY OtpAssumption DEF TypeOK
<1>2. IsFiniteSet(1..starts)
  BY <1>1, FS_Interval
<1>3. IsFiniteSet(workers) /\ IsFiniteSet(polls)
  BY <1>2, FS_Subset DEF TypeOK
<1>4. IsFiniteSet(due)
  BY <1>3, FS_Subset DEF TypeOK
<1> QED BY <1>3, <1>4, FS_Subset

\* A set without one of its elements is smaller by one; a set is at most one
\* larger than what is left of it.
LEMMA WithoutOne ==
  ASSUME NEW S, IsFiniteSet(S), NEW x
  PROVE  /\ Cardinality(S) \in Nat /\ Cardinality(S \ {x}) \in Nat
         /\ Cardinality(S \ {x}) <= Cardinality(S)
         /\ Cardinality(S) <= Cardinality(S \ {x}) + 1
         /\ x \in S => Cardinality(S) = Cardinality(S \ {x}) + 1
  BY FS_RemoveElement, FS_CardinalityType, FS_Subset

-----------------------------------------------------------------------------
(* Initially.                                                              *)

LEMMA InitIInv == Init => IInv
<1> SUFFICES ASSUME Init PROVE IInv
  OBVIOUS
<1>1. TypeOK
  <2>1. value \in Nat /\ value <= maxValue
    BY DEF Init
  <2>4. maxValue \in {4 * t : t \in Timeouts} \cup {4 * 60}
    BY DEF Init
  <2>5. container \in BOOLEAN /\ polled \in BOOLEAN
    BY DEF Init
  <2>2. /\ timer \in Ids \cup {Null} /\ timerID \in Ids \cup {Null}
        /\ codes \subseteq 1..starts /\ workers \subseteq 1..starts /\ due \subseteq workers
        /\ polls \subseteq 1..starts
    BY DEF Init
  <2>3. /\ requests \in 0..MaxStarts /\ elapsed \in Nat
        /\ {presses, starts, timeouts, overlaps, pollOverlaps} \subseteq 0..MaxStarts
    BY OtpAssumption DEF Init
  <2> QED BY <2>1, <2>2, <2>3, <2>4, <2>5 DEF TypeOK
<1>2. {} \ {Null} = {}
  OBVIOUS
<1>3. LeftBehind /\ PollsKnown
  BY <1>2, FS_EmptySet DEF Init, LeftBehind, PollsKnown
<1>4. Counted /\ Bar /\ Pace
  <2>1. ~container
    BY DEF Init
  <2> QED BY <2>1, OtpAssumption DEF Init, Counted, Bar, Pace
<1>5. OneTimeoutEach
  <2>1. ~container /\ timeouts = 0 /\ overlaps = 0 /\ starts = 0 /\ codes = {}
    BY DEF Init
  <2>2. (IF container THEN 1 ELSE 0) = 0
    BY <2>1
  <2> QED BY <2>1, <2>2 DEF OneTimeoutEach
<1> QED BY <1>1, <1>3, <1>4, <1>5 DEF IInv

-----------------------------------------------------------------------------
(* A code is shown.                                                        *)

LEMMA Products ==
  ASSUME NEW o \in Nat, NEW e \in Nat
  PROVE  /\ o * (e + 1) \in Nat /\ o * (e + 2) \in Nat
         /\ o * (e + 1) + o = o * (e + 2)
         /\ o * ((e + 1) + 1) = o * (e + 2)
         /\ (o + 1) * (0 + 1) = o + 1
         /\ o * (0 + 1) = o
  OBVIOUS

LEMMA StartNext ==
  ASSUME IInv, NEW t \in Timeouts, NEW p \in BOOLEAN, StartQR(t, p)
  PROVE  IInv'
<1> USE DEF progress
<1>n. /\ starts \in Nat /\ requests \in Nat /\ presses \in Nat
      /\ overlaps \in Nat /\ timeouts \in Nat /\ pollOverlaps \in Nat
      /\ MaxStarts \in Nat /\ elapsed \in Nat
      /\ starts <= MaxStarts /\ overlaps <= starts /\ timeouts <= starts
      /\ \A i \in 1..starts : i # starts + 1
  BY Numbers DEF IInv
<1>1. /\ requests > 0 /\ requests' = requests - 1 /\ starts' = starts + 1
      /\ presses' = presses /\ timeouts' = timeouts /\ due' = due /\ polled' = polled
      /\ codes' = codes \cup {starts + 1}
      /\ value' = 0 /\ maxValue' = 4 * t /\ container' = TRUE /\ timer' = starts + 1
      /\ workers' = workers \cup {starts + 1} /\ elapsed' = 0
      /\ overlaps' = IF container THEN overlaps + 1 ELSE overlaps
  BY DEF StartQR, StartProgressBar, RenderQrCode
<1>2. \/ /\ timerID' = starts + 1 /\ polls' = polls \cup {starts + 1}
         /\ pollOverlaps' = IF polls # {} THEN pollOverlaps + 1 ELSE pollOverlaps
      \/ timerID' = timerID /\ polls' = polls /\ pollOverlaps' = pollOverlaps
  BY DEF StartQR, StartPolling
<1>3. starts + 1 \in Ids /\ starts + 1 <= MaxStarts
  BY <1>n, <1>1 DEF IInv, Counted, Ids
<1>4. t \in Nat /\ t > 0
  BY OtpAssumption
<1>5. Counted'
  BY <1>n, <1>1, <1>2 DEF IInv, Counted
<1>6. OneTimeoutEach'
  BY <1>n, <1>1 DEF IInv, OneTimeoutEach
<1>7. Bar'
  BY <1>n, <1>1, <1>4 DEF Bar
<1>8. /\ 1..starts \subseteq 1..(starts + 1) /\ starts + 1 \in 1..(starts + 1)
  BY <1>n
<1>9. TypeOK'
  <2>1. /\ codes' \subseteq 1..starts' /\ workers' \subseteq 1..starts'
        /\ polls' \subseteq 1..starts' /\ due' \subseteq workers'
    BY <1>1, <1>2, <1>8 DEF IInv, TypeOK
  <2>2. /\ value' \in Nat /\ maxValue' \in {4 * x : x \in Timeouts} \cup {4 * 60}
        /\ value' <= maxValue' /\ elapsed' \in Nat
    BY <1>1, <1>4
  <2>3. requests' \in 0..MaxStarts
    BY <1>n, <1>1 DEF IInv, TypeOK
  <2>4. overlaps' \in 0..MaxStarts /\ timeouts' \in 0..MaxStarts
    BY <1>n, <1>1, <1>3
  <2>5. pollOverlaps' \in 0..MaxStarts /\ starts' \in 0..MaxStarts /\ presses' \in 0..MaxStarts
    BY <1>n, <1>1, <1>2, <1>3 DEF IInv, Counted
  <2>6. timer' \in Ids \cup {Null} /\ timerID' \in Ids \cup {Null}
        /\ container' \in BOOLEAN /\ polled' \in BOOLEAN
    BY <1>1, <1>2, <1>3 DEF IInv, TypeOK
  <2> QED BY <2>1, <2>2, <2>3, <2>4, <2>5, <2>6 DEF TypeOK
<1>10. starts + 1 \notin workers /\ starts + 1 \notin due /\ starts + 1 \notin polls
  BY <1>n DEF IInv, TypeOK
<1>11. Cardinality(workers) <= overlaps' /\ Cardinality(workers) \in Nat
  <2>1. IsFiniteSet(workers)
    BY Finite DEF IInv
  <2>2. /\ Cardinality(workers) \in Nat /\ Cardinality(workers \ {timer}) \in Nat
        /\ Cardinality(workers) <= Cardinality(workers \ {timer}) + 1
    BY <2>1, WithoutOne
  <2>3. CASE container
    BY <1>n, <1>1, <2>2, <2>3 DEF IInv, LeftBehind
  <2>4. CASE ~container
    <3>1. workers \ {timer} = workers
      BY <1>n, <2>4, OtpAssumption DEF IInv, Bar, TypeOK
    <3> QED BY <1>n, <1>1, <2>2, <2>4, <3>1 DEF IInv, LeftBehind
  <2> QED BY <2>3, <2>4
<1>12. LeftBehind'
  <2>1. workers' \ {timer'} = workers
    BY <1>1, <1>10
  <2> QED BY <1>11, <2>1 DEF LeftBehind
<1>13. Pace'
  <2>1. due' \ {timer'} = due /\ timer' \notin due'
    BY <1>1, <1>10
  <2>2. Cardinality(due) <= Cardinality(workers) /\ Cardinality(due) \in Nat
    BY Finite, FS_Subset, FS_CardinalityType DEF IInv, TypeOK
  <2>3. overlaps' \in Nat
    BY <1>n, <1>1
  <2>4. overlaps' * (0 + 1) = overlaps'
    BY <2>3, Products
  <2>5. Cardinality(due' \ {timer'}) = Cardinality(due)
    BY <2>1
  <2>6. (IF timer' \in due' THEN 2 ELSE 1) = 1
    BY <2>1
  <2>7. value' + Cardinality(due' \ {timer'}) <= elapsed' + overlaps' * (elapsed' + 1)
    BY <1>1, <1>11, <2>2, <2>3, <2>4, <2>5
  <2>8. value' + Cardinality(due' \ {timer'})
          <= elapsed' + overlaps' * (elapsed' + (IF timer' \in due' THEN 2 ELSE 1))
    BY <2>6, <2>7, Zenon
  <2> QED BY <2>8 DEF Pace
<1>14. PollsKnown'
  <2>1. CASE timerID' = timerID /\ polls' = polls /\ pollOverlaps' = pollOverlaps
    BY <2>1 DEF IInv, PollsKnown
  <2>2. CASE /\ timerID' = starts + 1 /\ polls' = polls \cup {starts + 1}
             /\ pollOverlaps' = IF polls # {} THEN pollOverlaps + 1 ELSE pollOverlaps
    <3>1. polls' \ {timerID'} = polls
      BY <1>10, <2>2
    <3>2. /\ Cardinality(polls) \in Nat /\ Cardinality(polls \ {timerID}) \in Nat
          /\ Cardinality(polls) <= Cardinality(polls \ {timerID}) + 1
      BY Finite, WithoutOne DEF IInv
    <3>3. polls = {} => Cardinality(polls) = 0
      BY FS_EmptySet
    <3> QED BY <1>n, <2>2, <3>1, <3>2, <3>3 DEF IInv, PollsKnown
  <2> QED BY <1>2, <2>1, <2>2
<1> QED BY <1>5, <1>6, <1>7, <1>9, <1>12, <1>13, <1>14 DEF IInv

-----------------------------------------------------------------------------
(* The intervals fire.                                                     *)

LEMMA RoundNext == IInv /\ NextRound => IInv'
<1> SUFFICES ASSUME IInv, NextRound PROVE IInv'
  OBVIOUS
<1>1. /\ due = {} /\ due' = workers
      /\ UNCHANGED <<value, maxValue, container, timer, timerID, codes, workers, polls,
                     requests, polled, presses, starts, elapsed, timeouts, overlaps,
                     pollOverlaps>>
  BY DEF NextRound, progress
<1>2. TypeOK' /\ Counted' /\ OneTimeoutEach' /\ Bar' /\ LeftBehind' /\ PollsKnown'
  BY <1>1 DEF IInv, TypeOK, Counted, OneTimeoutEach, Bar, LeftBehind, PollsKnown
<1>3. Pace'
  <2>1. SUFFICES ASSUME container
                 PROVE  value + Cardinality(workers \ {timer}) <= elapsed + overlaps * (elapsed + 2)
    BY <1>1 DEF IInv, Bar, Pace
  <2>2. value \in Nat /\ elapsed \in Nat /\ overlaps \in Nat
    BY Numbers DEF IInv
  <2>3. due \ {timer} = {} /\ timer \notin due
    BY <1>1
  <2>4. value + 0 <= elapsed + overlaps * (elapsed + 1)
    BY <2>1, <2>3, FS_EmptySet DEF IInv, Pace
  <2>5. /\ overlaps * (elapsed + 1) \in Nat /\ overlaps * (elapsed + 2) \in Nat
        /\ overlaps * (elapsed + 1) + overlaps = overlaps * (elapsed + 2)
    BY <2>2, Products
  <2>6. Cardinality(workers \ {timer}) \in Nat
    BY Finite, FS_CardinalityType DEF IInv
  <2> HIDE DEF IInv
  <2>7. Cardinality(workers \ {timer}) <= overlaps
    BY DEF IInv, LeftBehind
  <2> QED BY <2>2, <2>4, <2>5, <2>6, <2>7
<1> QED BY <1>2, <1>3 DEF IInv

\* What the fire of interval i does to the pace: nobody else has fired.
LEMMA Fired ==
  ASSUME IInv, NEW i \in Ids, Fires(i), container, due' = due \ {i},
         UNCHANGED <<timer, overlaps>>
  PROVE  value + 1 + Cardinality(due' \ {timer})
           <= elapsed' + overlaps * (elapsed' + (IF timer \in due' THEN 2 ELSE 1))
<1>1. /\ value \in Nat /\ elapsed \in Nat /\ overlaps \in Nat
  BY Numbers DEF IInv
<1>2. /\ timer = starts /\ i \in due
      /\ elapsed' = IF i = starts THEN elapsed + 1 ELSE elapsed
  BY DEF IInv, Bar, Fires
<1>3. /\ overlaps * (elapsed + 1) \in Nat /\ overlaps * (elapsed + 2) \in Nat
      /\ overlaps * ((elapsed + 1) + 1) = overlaps * (elapsed + 2)
  BY <1>1, Products
<1>4. value + Cardinality(due \ {timer})
        <= elapsed + overlaps * (elapsed + (IF timer \in due THEN 2 ELSE 1))
  BY DEF IInv, Pace
<1>5. CASE i = timer
  <2>1. due' \ {timer} = due \ {timer} /\ timer \notin due' /\ timer \in due
    BY <1>2, <1>5
  <2>2. elapsed' = elapsed + 1
    BY <1>2, <1>5
  <2>3. (IF timer \in due' THEN 2 ELSE 1) = 1 /\ (IF timer \in due THEN 2 ELSE 1) = 2
    BY <2>1
  <2>4. Cardinality(due \ {timer}) \in Nat
    BY Finite, FS_CardinalityType DEF IInv
  <2>5. value + Cardinality(due \ {timer}) <= elapsed + overlaps * (elapsed + 2)
    BY <1>4, <2>3
  <2>6. overlaps * (elapsed' + 1) = overlaps * (elapsed + 2)
    BY <1>3, <2>2
  <2>8. Cardinality(due' \ {timer}) = Cardinality(due \ {timer})
    BY <2>1
  <2>9. value + 1 + Cardinality(due \ {timer}) <= elapsed + 1 + overlaps * (elapsed + 2)
    BY <1>1, <1>3, <2>4, <2>5
  <2>7. value + 1 + Cardinality(due' \ {timer}) <= elapsed' + overlaps * (elapsed' + 1)
    BY <2>2, <2>6, <2>8, <2>9
  <2> QED BY <2>3, <2>7
<1>6. CASE i # timer
  <2>1. due' \ {timer} = (due \ {timer}) \ {i} /\ i \in due \ {timer}
        /\ (timer \in due' <=> timer \in due)
    BY <1>2, <1>6
  <2>2. elapsed' = elapsed
    BY <1>2, <1>6
  <2>3. /\ Cardinality(due \ {timer}) \in Nat /\ Cardinality(due' \ {timer}) \in Nat
        /\ Cardinality(due \ {timer}) = Cardinality(due' \ {timer}) + 1
    <3>1. IsFiniteSet(due \ {timer})
      BY Finite DEF IInv
    <3>2. /\ Cardinality(due \ {timer}) \in Nat
          /\ Cardinality((due \ {timer}) \ {i}) \in Nat
          /\ Cardinality(due \ {timer}) = Cardinality((due \ {timer}) \ {i}) + 1
      BY <2>1, <3>1, WithoutOne
    <3> QED BY <2>1, <3>2
  <2>4. value + 1 + Cardinality(due' \ {timer}) = value + Cardinality(due \ {timer})
    BY <1>1, <2>3
  <2>5. (IF timer \in due' THEN 2 ELSE 1) = (IF timer \in due THEN 2 ELSE 1)
    BY <2>1
  <2> QED BY <1>4, <2>2, <2>4, <2>5
<1> QED BY <1>5, <1>6

LEMMA CountsNext ==
  ASSUME IInv, NEW i \in Ids, WorkerCounts(i)
  PROVE  IInv'
<1>n. /\ value \in Nat /\ maxValue \in Nat /\ elapsed \in Nat /\ overlaps \in Nat
  BY Numbers DEF IInv
<1>1. /\ container /\ value + 1 < maxValue /\ value' = value + 1
      /\ Fires(i) /\ i \in due /\ due' = due \ {i}
      /\ elapsed' = IF i = starts THEN elapsed + 1 ELSE elapsed
      /\ UNCHANGED <<maxValue, container, timer, timerID, codes, workers, polls,
                     requests, polled, presses, starts, timeouts, overlaps, pollOverlaps>>
  BY DEF WorkerCounts, Fires
<1>2. Counted' /\ OneTimeoutEach' /\ LeftBehind' /\ PollsKnown'
  BY <1>1 DEF IInv, Counted, OneTimeoutEach, LeftBehind, PollsKnown
<1>3. TypeOK'
  BY <1>n, <1>1 DEF IInv, TypeOK
<1>4. Bar'
  <2>1. timer = starts /\ timer \in workers /\ value >= elapsed
        /\ (overlaps = 0 => value = elapsed)
    BY <1>1 DEF IInv, Bar
  <2>2. overlaps = 0 => i = timer
    <3>1. SUFFICES ASSUME overlaps = 0 PROVE i = timer
      OBVIOUS
    <3>4. Cardinality(workers \ {timer}) \in Nat
      BY Finite, FS_CardinalityType DEF IInv
    <3>5. Cardinality(workers \ {timer}) <= overlaps
      BY DEF IInv, LeftBehind
    <3>2. Cardinality(workers \ {timer}) = 0
      BY <1>n, <3>1, <3>4, <3>5
    <3>3. workers \ {timer} = {}
      BY <3>2, Finite, FS_EmptySet DEF IInv
    <3> QED BY <1>1, <3>3 DEF IInv, TypeOK
  <2> QED BY <1>n, <1>1, <2>1, <2>2 DEF Bar
<1>5. Pace'
  <2>1. value + 1 + Cardinality(due' \ {timer})
          <= elapsed' + overlaps * (elapsed' + (IF timer \in due' THEN 2 ELSE 1))
    BY <1>1, Fired
  <2>2. value' + Cardinality(due' \ {timer'})
          <= elapsed' + overlaps' * (elapsed' + (IF timer' \in due' THEN 2 ELSE 1))
    BY <1>1, <2>1
  <2> QED BY <2>2 DEF Pace
<1> QED BY <1>2, <1>3, <1>4, <1>5 DEF IInv

LEMMA ExpiresNext ==
  ASSUME IInv, NEW i \in Ids, WorkerExpires(i)
  PROVE  IInv'
<1>n. /\ value \in Nat /\ maxValue \in Nat /\ elapsed \in Nat /\ overlaps \in Nat
      /\ starts \in Nat /\ timeouts \in Nat /\ MaxStarts \in Nat /\ starts <= MaxStarts
  BY Numbers DEF IInv
<1>1. /\ container /\ value' = value + 1 /\ value + 1 <= maxValue
      /\ elapsed' = IF i = starts THEN elapsed + 1 ELSE elapsed
      /\ workers' = workers \ {timer} /\ due' = due \ {i, timer}
      /\ timer' = Null /\ container' = FALSE
      /\ timeouts' = timeouts + 1 /\ codes' = {}
      /\ UNCHANGED <<maxValue, timerID, polls, requests, polled, presses, starts,
                     overlaps, pollOverlaps>>
  BY <1>n DEF WorkerExpires, Fires, Callback, IInv, Bar
<1>2. Counted' /\ PollsKnown' /\ Bar' /\ Pace'
  BY <1>1 DEF IInv, Counted, PollsKnown, Bar, Pace
<1>3. OneTimeoutEach'
  <2>1. (IF container THEN 1 ELSE 0) = 1 /\ (IF container' THEN 1 ELSE 0) = 0
    BY <1>1
  <2>2. timeouts + overlaps + 1 = starts
    BY <2>1 DEF IInv, OneTimeoutEach
  <2> QED BY <1>n, <1>1, <2>1, <2>2 DEF OneTimeoutEach
<1>4. LeftBehind'
  <2>1. workers' \ {timer'} \subseteq workers \ {timer}
    BY <1>1
  <2>2. IsFiniteSet(workers \ {timer}) /\ Cardinality(workers \ {timer}) \in Nat
    BY Finite, FS_CardinalityType DEF IInv
  <2>3. /\ Cardinality(workers' \ {timer'}) <= Cardinality(workers \ {timer})
        /\ Cardinality(workers' \ {timer'}) \in Nat
    BY <2>1, <2>2, FS_Subset, FS_CardinalityType
  <2> QED BY <1>n, <1>1, <2>2, <2>3 DEF IInv, LeftBehind
<1>5. TypeOK'
  <2>1. timeouts + 1 <= MaxStarts
    BY <1>n, <1>1, <1>3 DEF OneTimeoutEach
  <2>2. /\ value' \in Nat /\ value' <= maxValue' /\ elapsed' \in Nat
        /\ timeouts' \in 0..MaxStarts
    BY <1>n, <1>1, <2>1
  <2>3. /\ codes' \subseteq 1..starts' /\ workers' \subseteq 1..starts'
        /\ due' \subseteq workers' /\ timer' \in Ids \cup {Null} /\ container' \in BOOLEAN
    BY <1>1 DEF IInv, TypeOK
  <2>4. {presses', starts', overlaps', pollOverlaps'} \subseteq 0..MaxStarts
    BY <1>1 DEF IInv, TypeOK
  <2>5. /\ maxValue' \in {4 * t : t \in Timeouts} \cup {4 * 60}
        /\ timerID' \in Ids \cup {Null} /\ polls' \subseteq 1..starts'
        /\ requests' \in 0..MaxStarts /\ polled' \in BOOLEAN
    BY <1>1 DEF IInv, TypeOK
  <2> QED BY <2>2, <2>3, <2>4, <2>5 DEF TypeOK
<1> QED BY <1>2, <1>3, <1>4, <1>5 DEF IInv

LEMMA ThrowsNext ==
  ASSUME IInv, NEW i \in Ids, WorkerThrows(i)
  PROVE  IInv'
<1>1. /\ ~container /\ due' = due \ {i}
      /\ elapsed' = IF i = starts THEN elapsed + 1 ELSE elapsed
      /\ UNCHANGED <<value, maxValue, container, timer, timerID, codes, workers, polls,
                     requests, polled, presses, starts, timeouts, overlaps, pollOverlaps>>
  BY DEF WorkerThrows, Fires, progress
<1>2. elapsed' \in Nat
  BY <1>1 DEF IInv, TypeOK
<1> QED BY <1>1, <1>2 DEF IInv, TypeOK, Counted, OneTimeoutEach, Bar, LeftBehind, Pace,
                          PollsKnown

-----------------------------------------------------------------------------
(* The server and polling.                                                 *)

LEMMA RestNext ==
  ASSUME IInv, \/ Initialize \/ NotScanned \/ StopPolling \/ UNCHANGED vars
               \/ \E i \in Ids : Poll(i)
  PROVE  IInv'
<1>n. /\ starts \in Nat /\ requests \in Nat /\ presses \in Nat /\ MaxStarts \in Nat
  BY Numbers DEF IInv
<1>1. UNCHANGED <<value, maxValue, container, timer, timerID, workers, due, starts, elapsed,
                  timeouts, overlaps, pollOverlaps>>
  BY DEF Initialize, NotScanned, StopPolling, Clean, Poll, vars, progress
<1>2. (codes' = codes \/ codes' = {}) /\ (polls' = polls \/ polls' = polls \ {timerID})
      /\ polled' \in BOOLEAN
  BY DEF IInv, TypeOK, Initialize, NotScanned, StopPolling, Clean, Poll, vars
<1>3. \/ presses < MaxStarts /\ presses' = presses + 1 /\ requests' = requests + 1
      \/ presses' = presses /\ requests' = requests
  BY DEF Initialize, NotScanned, StopPolling, Clean, Poll, vars
<1>4. OneTimeoutEach' /\ Bar' /\ LeftBehind' /\ Pace'
  BY <1>1, <1>2 DEF IInv, OneTimeoutEach, Bar, LeftBehind, Pace
<1>5. Counted'
  BY <1>n, <1>1, <1>3 DEF IInv, Counted
<1>6. PollsKnown'
  <2>1. polls' \ {timerID'} = polls \ {timerID}
    BY <1>1, <1>2
  <2> QED BY <1>1, <2>1 DEF IInv, PollsKnown
<1>7. TypeOK'
  <2>1. presses' \in 0..MaxStarts /\ requests' \in 0..MaxStarts
    BY <1>n, <1>3, <1>5, <1>1 DEF IInv, Counted
  <2>2. codes' \subseteq 1..starts' /\ polls' \subseteq 1..starts'
    BY <1>1, <1>2 DEF IInv, TypeOK
  <2> QED BY <1>1, <1>2, <2>1, <2>2 DEF IInv, TypeOK
<1> QED BY <1>4, <1>5, <1>6, <1>7 DEF IInv

-----------------------------------------------------------------------------
(* Theorems.                                                               *)

LEMMA Invariance == Spec => []IInv
<1>1. IInv /\ [Next]_vars => IInv'
  BY StartNext, RoundNext, CountsNext, ExpiresNext, ThrowsNext, RestNext DEF Next, Worker
<1> QED BY <1>1, InitIInv, PTL DEF Spec

\* All variables keep their types: the value of the bar is within its maximum,
\* and intervals are those of codes that were shown (startProgressBar).
THEOREM TypeCorrect == Spec => []TypeOK
<1>1. IInv => TypeOK
  BY DEF IInv
<1> QED BY <1>1, Invariance, PTL

\* However many bars were left behind, and whatever the order in which their
\* intervals fire, the time of a code runs that many times faster at most
\* (startProgressBar).
THEOREM TimeCounted == Spec => []TimeIsCounted
<1>1. IInv => TimeIsCounted
  <2> SUFFICES ASSUME IInv, container PROVE value <= elapsed + overlaps * (elapsed + 2)
    BY DEF IInv, TimeIsCounted, LeftBehind, Bar
  <2>1. value \in Nat /\ elapsed \in Nat /\ overlaps \in Nat
    BY Numbers DEF IInv
  <2>2. /\ overlaps * (elapsed + 1) \in Nat /\ overlaps * (elapsed + 2) \in Nat
        /\ overlaps * (elapsed + 1) + overlaps = overlaps * (elapsed + 2)
    BY <2>1, Products
  <2>3. Cardinality(due \ {timer}) \in Nat
    BY Finite, FS_CardinalityType DEF IInv
  <2>4. \/ value + Cardinality(due \ {timer}) <= elapsed + overlaps * (elapsed + 1)
        \/ value + Cardinality(due \ {timer}) <= elapsed + overlaps * (elapsed + 2)
    <3>1. (IF timer \in due THEN 2 ELSE 1) = 1 \/ (IF timer \in due THEN 2 ELSE 1) = 2
      OBVIOUS
    <3> QED BY <3>1 DEF IInv, Pace
  <2> QED BY <2>1, <2>2, <2>3, <2>4
<1> QED BY <1>1, Invariance, PTL

\* The server is told of one timeout for each code but those whose bar was
\* taken over (otp-util.js, callback).
THEOREM OneTimeout == Spec => []OneTimeoutEach
<1>1. IInv => OneTimeoutEach
  BY DEF IInv
<1> QED BY <1>1, Invariance, PTL

\* stopPolling leaves no more intervals polling than were started over one
\* another (stopPolling).
THEOREM PollingStops == Spec => StopPollingStops
<1>1. IInv /\ StopPolling => Cardinality(polls') <= pollOverlaps
  BY DEF IInv, PollsKnown, StopPolling
<1>2. IInv /\ [Next]_vars => [StopPolling => Cardinality(polls') <= pollOverlaps]_vars
  BY <1>1
<1>3. Spec => [][StopPolling => Cardinality(polls') <= pollOverlaps]_vars
  BY <1>2, Invariance, PTL DEF Spec
<1> QED BY <1>3 DEF StopPollingStops
=============================================================================
