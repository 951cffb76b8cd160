---------------------------- MODULE U2fApi_Proofs ----------------------------
(***************************************************************************)
(* The safety of the U2F library for any set of calls and any number of    *)
(* stray messages, and that it implements U2fCalls.                        *)
(***************************************************************************)
EXTENDS U2fApi, TLAPS, SequenceTheorems

\* A port is being obtained only for a call that waits, and only once.
AttemptHasWaiters == acquiring # "none" => waiting # << >> /\ port = NoPort

\* The extension owes one answer for an id at most, and none for an id it has
\* answered.
OweOnce ==
  /\ \A m \in requests : m = RequestOf(m.call, m.requestId)
  /\ \A m \in requests, r \in answered : r.requestId # m.requestId
  /\ \A m \in requests, k \in 1..Len(inbox) : inbox[k].requestId # m.requestId

Callbacks ==
  /\ \A i, j \in 1..reqCounter :
       callbackMap[i] = callbackMap[j] /\ callbackMap[i] # NoCall => i = j
  /\ \A i \in 1..reqCounter : callbackMap[i] # NoCall => got[callbackMap[i]] = << >>

WaitingApart ==
  /\ \A k, l \in 1..Len(waiting) : waiting[k] = waiting[l] => k = l
  /\ \A k \in 1..Len(waiting) :
       /\ got[waiting[k]] = << >>
       /\ \A i \in 1..reqCounter : callbackMap[i] # waiting[k]

IInv ==
  /\ TypeOK
  /\ Callbacks
  /\ WaitingApart
  /\ AnswersFindTheirCall
  /\ OweOnce
  /\ AttemptHasWaiters
  /\ WaitingIsServed

LEMMA PlacesSplit == OnePlace <=> Callbacks /\ WaitingApart
  BY DEF OnePlace, Callbacks, WaitingApart

-----------------------------------------------------------------------------
(* Opening the requests of a queue s of calls that are not entered yet.    *)

LEMMA Entered ==
  ASSUME TypeOK, NEW s \in Seq(Calls), EnterCallbacks(s)
  PROVE  /\ reqCounter' = reqCounter + Len(s)
         /\ reqCounter' \in Nat
         /\ callbackMap' \in [1..reqCounter' -> Calls \cup {NoCall}]
         /\ \A i \in 1..reqCounter : i \in 1..reqCounter' /\ callbackMap'[i] = callbackMap[i]
         /\ \A k \in 1..Len(s) : /\ reqCounter + k \in 1..reqCounter'
                                 /\ callbackMap'[reqCounter + k] = s[k]
         /\ \A i \in 1..reqCounter' : i \notin 1..reqCounter =>
              \E k \in 1..Len(s) : i = reqCounter + k /\ callbackMap'[i] = s[k]
<1> USE DEF EnterCallbacks
<1>1. /\ reqCounter \in Nat
      /\ callbackMap \in [1..reqCounter -> Calls \cup {NoCall}]
      /\ Len(s) \in Nat
      /\ \A k \in 1..Len(s) : s[k] \in Calls
  BY DEF TypeOK
<1>2. reqCounter' = reqCounter + Len(s) /\ reqCounter' \in Nat
  BY <1>1
<1>3. \A i \in 1..reqCounter : i \in 1..reqCounter' /\ callbackMap'[i] = callbackMap[i]
  BY <1>1
<1>4. \A k \in 1..Len(s) : /\ reqCounter + k \in 1..reqCounter'
                           /\ callbackMap'[reqCounter + k] = s[k]
  <2> TAKE k \in 1..Len(s)
  <2>1. reqCounter + k \in 1..(reqCounter + Len(s)) /\ ~(reqCounter + k <= reqCounter)
    BY <1>1
  <2>2. (reqCounter + k) - reqCounter = k
    BY <1>1
  <2> QED BY <2>1, <2>2, <1>2
<1>5. ASSUME NEW i \in 1..reqCounter', i \notin 1..reqCounter
      PROVE  \E k \in 1..Len(s) : i = reqCounter + k /\ callbackMap'[i] = s[k]
  <2>1. i - reqCounter \in 1..Len(s) /\ i = reqCounter + (i - reqCounter)
    BY <1>1, <1>2, <1>5
  <2> QED BY <2>1, <1>4
<1>6. callbackMap' \in [1..reqCounter' -> Calls \cup {NoCall}]
  <2>1. \A i \in 1..reqCounter' : callbackMap'[i] \in Calls \cup {NoCall}
    BY <1>1, <1>3, <1>5
  <2> QED BY <2>1, <1>2
<1> QED BY <1>2, <1>3, <1>4, <1>5, <1>6

LEMMA Opened ==
  ASSUME TypeOK, Callbacks, AnswersFindTheirCall, OweOnce,
         NEW s \in Seq(Calls),
         \A k, l \in 1..Len(s) : s[k] = s[l] => k = l,
         \A k \in 1..Len(s) : /\ got[s[k]] = << >>
                              /\ \A i \in 1..reqCounter : callbackMap[i] # s[k],
         EnterCallbacks(s), PostMessages(s), UNCHANGED <<got, answered, inbox>>
  PROVE  requests' \subseteq Request /\ Callbacks' /\ AnswersFindTheirCall' /\ OweOnce'
<1>1. /\ reqCounter' = reqCounter + Len(s)
      /\ reqCounter' \in Nat
      /\ \A i \in 1..reqCounter : i \in 1..reqCounter' /\ callbackMap'[i] = callbackMap[i]
      /\ \A k \in 1..Len(s) : /\ reqCounter + k \in 1..reqCounter'
                              /\ callbackMap'[reqCounter + k] = s[k]
      /\ \A i \in 1..reqCounter' : i \notin 1..reqCounter =>
           \E k \in 1..Len(s) : i = reqCounter + k /\ callbackMap'[i] = s[k]
  BY Entered
<1>2. reqCounter \in Nat /\ Len(s) \in Nat /\ requests \subseteq Request
      /\ \A k \in 1..Len(s) : s[k] \in Calls
  BY DEF TypeOK
<1>3. \A m \in requests' :
        \/ m \in requests
        \/ \E k \in 1..Len(s) : m = RequestOf(s[k], reqCounter + k)
  BY DEF PostMessages
<1>4. \A k \in 1..Len(s) : LET m == RequestOf(s[k], reqCounter + k) IN
        /\ m \in Request
        /\ m.requestId = reqCounter + k
        /\ m.call = s[k]
        /\ m = RequestOf(m.call, m.requestId)
  BY <1>2 DEF RequestOf, Request, MessageTypes
<1>5. requests' \subseteq Request
  BY <1>2, <1>3, <1>4
<1>6. Callbacks'
  <2>1. ASSUME NEW i \in 1..reqCounter', NEW j \in 1..reqCounter',
               callbackMap'[i] = callbackMap'[j], callbackMap'[i] # NoCall
        PROVE  i = j
    <3>1. CASE i \in 1..reqCounter /\ j \in 1..reqCounter
      BY <1>1, <2>1, <3>1 DEF Callbacks
    <3>2. CASE i \in 1..reqCounter /\ j \notin 1..reqCounter
      BY <1>1, <2>1, <3>2
    <3>3. CASE i \notin 1..reqCounter /\ j \in 1..reqCounter
      BY <1>1, <2>1, <3>3
    <3>4. CASE i \notin 1..reqCounter /\ j \notin 1..reqCounter
      BY <1>1, <2>1, <3>4
    <3> QED BY <3>1, <3>2, <3>3, <3>4
  <2>2. ASSUME NEW i \in 1..reqCounter', callbackMap'[i] # NoCall
        PROVE  got'[callbackMap'[i]] = << >>
    BY <1>1, <2>2 DEF Callbacks
  <2> QED BY <2>1, <2>2 DEF Callbacks
<1>7. ASSUME NEW id, NEW c, MatchesRequest(id, c)
      PROVE  id \in 1..reqCounter' /\ callbackMap'[id] \in {c, NoCall}
  BY <1>1, <1>7 DEF MatchesRequest
<1>8. AnswersFindTheirCall'
  <2>1. ASSUME NEW m \in requests'
        PROVE  m.requestId \in 1..reqCounter' /\ callbackMap'[m.requestId] = m.call
    BY <1>1, <1>3, <1>4 DEF AnswersFindTheirCall
  <2>2. ASSUME NEW r \in answered'
        PROVE  /\ r.requestId \in 1..reqCounter'
               /\ callbackMap'[r.requestId] \in {r.responseData.to, NoCall}
    BY <1>7 DEF AnswersFindTheirCall
  <2>3. ASSUME NEW k \in 1..Len(inbox'), inbox'[k].requestId # 0
        PROVE  /\ inbox'[k].requestId \in 1..reqCounter'
               /\ callbackMap'[inbox'[k].requestId] \in {inbox'[k].responseData.to, NoCall}
    BY <1>7, <2>3 DEF AnswersFindTheirCall
  <2> QED BY <2>1, <2>2, <2>3 DEF AnswersFindTheirCall, MatchesRequest
<1>9. OweOnce'
  <2>1. ASSUME NEW m \in requests' PROVE m = RequestOf(m.call, m.requestId)
    BY <1>3, <1>4 DEF OweOnce
  <2>2. \A id \in 1..reqCounter, k \in 1..Len(s) : id # reqCounter + k
    BY <1>2
  <2>3. \A k \in 1..Len(s) : reqCounter + k # 0
    BY <1>2
  <2>4. ASSUME NEW m \in requests', NEW r \in answered PROVE r.requestId # m.requestId
    BY <1>3, <1>4, <2>2 DEF OweOnce, AnswersFindTheirCall, MatchesRequest
  <2>5. ASSUME NEW m \in requests', NEW k \in 1..Len(inbox)
        PROVE  inbox[k].requestId # m.requestId
    BY <1>3, <1>4, <2>2, <2>3 DEF OweOnce, AnswersFindTheirCall, MatchesRequest
  <2>6. answered' = answered /\ inbox' = inbox
    OBVIOUS
  <2> QED BY <2>1, <2>4, <2>5, <2>6 DEF OweOnce, RequestOf
<1> QED BY <1>5, <1>6, <1>8, <1>9

-----------------------------------------------------------------------------
(* The inductive invariant.                                                *)

LEMMA Initially == Init => IInv
  BY CallsAssumption DEF Init, IInv, TypeOK, Callbacks, WaitingApart, AnswersFindTheirCall,
     OweOnce, AttemptHasWaiters, WaitingIsServed, NoPort, Ports, Stages

\* A call that is not known waits nowhere, has no callback and no answer.
LEMMA Unknown ==
  ASSUME NEW c \in Calls, c \notin Asked
  PROVE  /\ got[c] = << >>
         /\ \A k \in 1..Len(waiting) : waiting[k] # c
         /\ \A i \in 1..reqCounter : callbackMap[i] # c
  BY DEF Asked

LEMMA CallWithPortKeeps ==
  ASSUME IInv, NEW c \in Calls, CallWithPort(c)
  PROVE  IInv'
<1> USE DEF IInv, CallWithPort
<1> DEFINE s == <<c>>
<1>1. s \in Seq(Calls) /\ Len(s) = 1 /\ \A k \in 1..Len(s) : s[k] = c
  OBVIOUS
<1>2. /\ got[c] = << >>
      /\ \A k \in 1..Len(waiting) : waiting[k] # c
      /\ \A i \in 1..reqCounter : callbackMap[i] # c
  BY Unknown
<1>3. /\ \A k, l \in 1..Len(s) : s[k] = s[l] => k = l
      /\ \A k \in 1..Len(s) : /\ got[s[k]] = << >>
                              /\ \A i \in 1..reqCounter : callbackMap[i] # s[k]
  BY <1>1, <1>2
<1>4. EnterCallbacks(s) /\ PostMessages(s) /\ UNCHANGED <<got, answered, inbox>>
  OBVIOUS
<1>5. requests' \subseteq Request /\ Callbacks' /\ AnswersFindTheirCall' /\ OweOnce'
  <2> HIDE DEF s
  <2> QED BY <1>1, <1>3, <1>4, Opened
<1>6. /\ reqCounter' \in Nat
      /\ callbackMap' \in [1..reqCounter' -> Calls \cup {NoCall}]
      /\ \A i \in 1..reqCounter : i \in 1..reqCounter' /\ callbackMap'[i] = callbackMap[i]
      /\ \A i \in 1..reqCounter' : i \notin 1..reqCounter =>
           \E k \in 1..Len(s) : callbackMap'[i] = s[k]
  <2> HIDE DEF s
  <2> QED BY <1>1, <1>4, Entered
<1>7. TypeOK'
  BY <1>5, <1>6 DEF TypeOK
<1>8. WaitingApart'
  <2>1. \A i \in 1..reqCounter' : i \in 1..reqCounter \/ callbackMap'[i] = c
    BY <1>1, <1>6
  <2> QED BY <1>2, <1>6, <2>1 DEF WaitingApart
<1>9. AttemptHasWaiters' /\ WaitingIsServed'
  BY DEF AttemptHasWaiters, WaitingIsServed, PostThrows
<1> QED BY <1>5, <1>7, <1>8, <1>9

LEMMA CallWithoutPortKeeps ==
  ASSUME IInv, NEW c \in Calls, CallWithoutPort(c)
  PROVE  IInv'
<1> USE DEF IInv, CallWithoutPort, ext
<1>1. /\ waiting \in Seq(Calls) /\ Len(waiting) \in Nat
      /\ waiting' \in Seq(Calls) /\ waiting' # << >>
      /\ Len(waiting') = Len(waiting) + 1
      /\ \A k \in 1..Len(waiting) : waiting'[k] = waiting[k]
      /\ waiting'[Len(waiting) + 1] = c
  <2>1. waiting \in Seq(Calls) /\ waiting' = Append(waiting, c)
    BY DEF TypeOK
  <2> QED BY <2>1, AppendProperties
<1>2. \A k \in 1..Len(waiting') :
        \/ k \in 1..Len(waiting) /\ waiting'[k] = waiting[k]
        \/ k = Len(waiting) + 1 /\ waiting'[k] = c
  BY <1>1
<1>3. /\ got[c] = << >>
      /\ \A k \in 1..Len(waiting) : waiting[k] # c
      /\ \A i \in 1..reqCounter : callbackMap[i] # c
  BY Unknown
<1>4. acquiring' \in Stages /\ acquiring' # "none"
  BY DEF TypeOK, GetMessagePort, Stages, WaitingIsServed, PostThrows, NoPort
<1>5. TypeOK'
  BY <1>1, <1>4 DEF TypeOK
<1>6. WaitingApart'
  <2>1. ASSUME NEW k \in 1..Len(waiting'), NEW l \in 1..Len(waiting'), waiting'[k] = waiting'[l]
        PROVE  k = l
    BY <1>2, <1>3, <2>1 DEF WaitingApart
  <2>2. ASSUME NEW k \in 1..Len(waiting')
        PROVE  /\ got'[waiting'[k]] = << >>
               /\ \A i \in 1..reqCounter' : callbackMap'[i] # waiting'[k]
    BY <1>2, <1>3 DEF WaitingApart
  <2> QED BY <2>1, <2>2 DEF WaitingApart
<1>7. Callbacks' /\ AnswersFindTheirCall' /\ OweOnce'
  BY DEF Callbacks, AnswersFindTheirCall, MatchesRequest, OweOnce, RequestOf
<1>8. AttemptHasWaiters' /\ WaitingIsServed'
  BY <1>1, <1>4 DEF AttemptHasWaiters, WaitingIsServed
<1> QED BY <1>5, <1>6, <1>7, <1>8

\* What the loop over the waiting calls serves and what it leaves.
Served(p) == IF PostThrows(p) THEN SubSeq(waiting, 1, 1) ELSE waiting
Left(p)   == IF PostThrows(p) THEN Tail(waiting) ELSE << >>

LEMMA ServedAndLeft ==
  ASSUME TypeOK, waiting # << >>, NEW p \in Ports
  PROVE  /\ Served(p) \in Seq(Calls) /\ Left(p) \in Seq(Calls)
         /\ \A k \in 1..Len(Served(p)) : k \in 1..Len(waiting) /\ Served(p)[k] = waiting[k]
         /\ \A k \in 1..Len(Left(p)) : /\ Len(Served(p)) + k \in 1..Len(waiting)
                                       /\ Left(p)[k] = waiting[Len(Served(p)) + k]
         /\ Len(Served(p)) \in Nat /\ Len(Left(p)) \in Nat
<1>1. waiting \in Seq(Calls) /\ Len(waiting) \in Nat /\ Len(waiting) >= 1
  BY DEF TypeOK
<1>2. CASE PostThrows(p)
  <2>1. Served(p) = SubSeq(waiting, 1, 1) /\ Left(p) = Tail(waiting)
    BY <1>2 DEF Served, Left
  <2>2. /\ SubSeq(waiting, 1, 1) \in Seq(Calls) /\ Len(SubSeq(waiting, 1, 1)) = 1
        /\ SubSeq(waiting, 1, 1)[1] = waiting[1]
    BY <1>1, SubSeqProperties
  <2>3. /\ Tail(waiting) \in Seq(Calls) /\ Len(Tail(waiting)) = Len(waiting) - 1
        /\ \A k \in 1..(Len(waiting) - 1) : Tail(waiting)[k] = waiting[k + 1]
    BY <1>1
  <2> QED BY <1>1, <2>1, <2>2, <2>3
<1>3. CASE ~PostThrows(p)
  BY <1>1, <1>3 DEF Served, Left
<1> QED BY <1>2, <1>3

LEMMA PortObtainedKeeps ==
  ASSUME IInv, NEW p \in Ports, acquiring # "none", PortObtained(p)
  PROVE  IInv'
<1> USE DEF IInv
<1> DEFINE served == Served(p)
           left   == Left(p)
<1>1. /\ EnterCallbacks(served) /\ PostMessages(served) /\ waiting' = left
      /\ port' = p /\ acquiring' = "none"
      /\ UNCHANGED <<got, browser, extension, answered, inbox, strays>>
  BY DEF PortObtained, Served, Left
<1>2. waiting # << >>
  BY DEF AttemptHasWaiters
<1>3. /\ served \in Seq(Calls) /\ left \in Seq(Calls)
      /\ \A k \in 1..Len(served) : k \in 1..Len(waiting) /\ served[k] = waiting[k]
      /\ \A k \in 1..Len(left) : /\ Len(served) + k \in 1..Len(waiting)
                                 /\ left[k] = waiting[Len(served) + k]
      /\ Len(served) \in Nat /\ Len(left) \in Nat
  BY <1>2, ServedAndLeft
<1>9. ~PostThrows(p) => left = << >>
  BY DEF Left
<1> HIDE DEF served, left
<1>4. /\ \A k, l \in 1..Len(served) : served[k] = served[l] => k = l
      /\ \A k \in 1..Len(served) : /\ got[served[k]] = << >>
                                   /\ \A i \in 1..reqCounter : callbackMap[i] # served[k]
  BY <1>3 DEF WaitingApart
<1>5. requests' \subseteq Request /\ Callbacks' /\ AnswersFindTheirCall' /\ OweOnce'
  BY <1>1, <1>3, <1>4, Opened
<1>6. /\ reqCounter' \in Nat
      /\ callbackMap' \in [1..reqCounter' -> Calls \cup {NoCall}]
      /\ \A i \in 1..reqCounter : i \in 1..reqCounter' /\ callbackMap'[i] = callbackMap[i]
      /\ \A i \in 1..reqCounter' : i \notin 1..reqCounter =>
           \E k \in 1..Len(served) : callbackMap'[i] = served[k]
  BY <1>1, <1>3, Entered
<1>7. TypeOK'
  BY <1>1, <1>3, <1>5, <1>6 DEF TypeOK, Stages
<1>8. WaitingApart'
  <2>1. ASSUME NEW k \in 1..Len(left), NEW l \in 1..Len(left), left[k] = left[l]
        PROVE  k = l
    <3>1. Len(served) + k = Len(served) + l
      BY <1>3, <2>1 DEF WaitingApart
    <3> QED BY <1>3, <3>1
  <2>2. ASSUME NEW k \in 1..Len(left)
        PROVE  got[left[k]] = << >> /\ \A i \in 1..reqCounter' : callbackMap'[i] # left[k]
    <3>1. \A l \in 1..Len(served) : l # Len(served) + k
      BY <1>3
    <3>2. \A l \in 1..Len(served) : served[l] # left[k]
      BY <1>3, <3>1 DEF WaitingApart
    <3>3. /\ got[left[k]] = << >>
          /\ \A i \in 1..reqCounter : callbackMap[i] # left[k]
      BY <1>3 DEF WaitingApart
    <3>4. ASSUME NEW i \in 1..reqCounter' PROVE callbackMap'[i] # left[k]
      BY <1>6, <3>2, <3>3
    <3> QED BY <3>3, <3>4
  <2> QED BY <1>1, <2>1, <2>2 DEF WaitingApart
<1>10. AttemptHasWaiters' /\ WaitingIsServed'
  BY <1>1, <1>9 DEF AttemptHasWaiters, WaitingIsServed, PostThrows
<1> QED BY <1>5, <1>7, <1>8, <1>10

LEMMA AcquiringKeeps ==
  ASSUME IInv, ProbeReplied \/ IframeLoaded
  PROVE  IInv'
<1>1. /\ acquiring # "none" /\ acquiring' \in {"connect", "load", "init"}
      /\ UNCHANGED <<port, waiting, reqCounter, callbackMap, got, browser, extension,
                     requests, answered, inbox, strays>>
  BY DEF ProbeReplied, IframeLoaded, ext
<1> QED
  BY <1>1 DEF IInv, TypeOK, Stages, Callbacks, WaitingApart, AnswersFindTheirCall,
     MatchesRequest, OweOnce, RequestOf, AttemptHasWaiters, WaitingIsServed

\* The head of the inbox and what remains of it.
LEMMA InboxTail ==
  ASSUME TypeOK, inbox # << >>, inbox' = Tail(inbox)
  PROVE  /\ Head(inbox) \in Response
         /\ Head(inbox) = inbox[1] /\ 1 \in 1..Len(inbox)
         /\ inbox' \in Seq(Response)
         /\ \A k \in 1..Len(inbox') : k + 1 \in 1..Len(inbox) /\ inbox'[k] = inbox[k + 1]
  BY DEF TypeOK

LEMMA ResponseHandledKeeps ==
  ASSUME IInv, ResponseHandled
  PROVE  IInv'
<1> USE DEF IInv, ResponseHandled
<1> DEFINE id == Head(inbox).requestId
           a  == Head(inbox).responseData
<1>1. /\ Head(inbox) \in Response
      /\ Head(inbox) = inbox[1] /\ 1 \in 1..Len(inbox)
      /\ inbox' \in Seq(Response)
      /\ \A k \in 1..Len(inbox') : k + 1 \in 1..Len(inbox) /\ inbox'[k] = inbox[k + 1]
  BY InboxTail
<1>2. /\ id \in 1..reqCounter /\ callbackMap[id] \in Calls /\ a \in Answers
      /\ callbackMap' = [callbackMap EXCEPT ![id] = NoCall]
      /\ got' = [got EXCEPT ![callbackMap[id]] = Append(@, a)]
  BY <1>1 DEF TypeOK, Response
<1>3. \A m \in requests : m.requestId # id
  BY <1>1 DEF OweOnce
<1> HIDE DEF id, a
<1>4. /\ callbackMap' \in [1..reqCounter -> Calls \cup {NoCall}]
      /\ callbackMap'[id] = NoCall
      /\ \A i \in 1..reqCounter : i # id => callbackMap'[i] = callbackMap[i]
  BY <1>2 DEF TypeOK
<1>5. /\ got' \in [Calls -> Seq(Answers)]
      /\ \A c \in Calls : c # callbackMap[id] => got'[c] = got[c]
  <2>1. Append(got[callbackMap[id]], a) \in Seq(Answers)
    BY <1>2 DEF TypeOK
  <2> QED BY <1>2, <2>1 DEF TypeOK
<1>6. TypeOK'
  BY <1>1, <1>4, <1>5 DEF TypeOK
<1>7. Callbacks'
  <2>1. ASSUME NEW i \in 1..reqCounter, callbackMap'[i] # NoCall
        PROVE  /\ callbackMap'[i] = callbackMap[i]
               /\ callbackMap[i] \in Calls /\ callbackMap[i] # callbackMap[id]
               /\ got'[callbackMap'[i]] = << >>
    <3>1. i # id /\ callbackMap'[i] = callbackMap[i]
      BY <1>4, <2>1
    <3>2. callbackMap[i] \in Calls /\ callbackMap[i] # callbackMap[id]
      BY <1>2, <2>1, <3>1 DEF Callbacks, TypeOK
    <3> QED BY <1>5, <2>1, <3>1, <3>2 DEF Callbacks
  <2> QED BY <2>1 DEF Callbacks
<1>8. WaitingApart'
  <2>1. ASSUME NEW k \in 1..Len(waiting)
        PROVE  /\ waiting[k] \in Calls /\ waiting[k] # callbackMap[id]
               /\ got'[waiting[k]] = << >>
               /\ \A i \in 1..reqCounter : callbackMap'[i] # waiting[k]
    <3>1. waiting[k] \in Calls /\ waiting[k] # callbackMap[id]
      BY <1>2 DEF WaitingApart, TypeOK
    <3>2. got'[waiting[k]] = << >>
      BY <1>5, <3>1 DEF WaitingApart
    <3>3. \A i \in 1..reqCounter : callbackMap'[i] # waiting[k]
      BY <1>4, <3>1, CallsAssumption DEF WaitingApart
    <3> QED BY <3>1, <3>2, <3>3
  <2> QED BY <2>1 DEF WaitingApart
<1>9. AnswersFindTheirCall'
  <2>1. ASSUME NEW i, NEW c, i \in 1..reqCounter, callbackMap[i] \in {c, NoCall}
        PROVE  callbackMap'[i] \in {c, NoCall}
    BY <1>4, <2>1
  <2>2. ASSUME NEW m \in requests
        PROVE  m.requestId \in 1..reqCounter /\ callbackMap'[m.requestId] = m.call
    BY <1>3, <1>4 DEF AnswersFindTheirCall
  <2>3. ASSUME NEW r \in answered
        PROVE  /\ r.requestId \in 1..reqCounter
               /\ callbackMap'[r.requestId] \in {r.responseData.to, NoCall}
    BY <2>1 DEF AnswersFindTheirCall, MatchesRequest
  <2>4. ASSUME NEW k \in 1..Len(inbox'), inbox'[k].requestId # 0
        PROVE  /\ inbox'[k].requestId \in 1..reqCounter
               /\ callbackMap'[inbox'[k].requestId] \in {inbox'[k].responseData.to, NoCall}
    <3>1. k + 1 \in 1..Len(inbox) /\ inbox'[k] = inbox[k + 1]
      BY <1>1
    <3> QED BY <2>1, <2>4, <3>1 DEF AnswersFindTheirCall, MatchesRequest
  <2> QED BY <2>2, <2>3, <2>4 DEF AnswersFindTheirCall, MatchesRequest
<1>10. OweOnce'
  BY <1>1 DEF OweOnce, RequestOf
<1>11. AttemptHasWaiters' /\ WaitingIsServed'
  BY DEF AttemptHasWaiters, WaitingIsServed, PostThrows
<1> QED BY <1>6, <1>7, <1>8, <1>9, <1>10, <1>11

LEMMA ResponseDroppedKeeps ==
  ASSUME IInv, ResponseDropped
  PROVE  IInv'
<1> USE DEF IInv, ResponseDropped, api
<1>1. /\ inbox' \in Seq(Response)
      /\ \A k \in 1..Len(inbox') : k + 1 \in 1..Len(inbox) /\ inbox'[k] = inbox[k + 1]
  BY InboxTail
<1>2. TypeOK'
  BY <1>1 DEF TypeOK
<1>3. Callbacks' /\ WaitingApart' /\ AttemptHasWaiters' /\ WaitingIsServed'
  BY DEF Callbacks, WaitingApart, AttemptHasWaiters, WaitingIsServed, PostThrows
<1>4. AnswersFindTheirCall'
  <2>1. ASSUME NEW k \in 1..Len(inbox'), inbox'[k].requestId # 0
        PROVE  /\ inbox'[k].requestId \in 1..reqCounter
               /\ callbackMap[inbox'[k].requestId] \in {inbox'[k].responseData.to, NoCall}
    BY <1>1, <2>1 DEF AnswersFindTheirCall, MatchesRequest
  <2> QED BY <2>1 DEF AnswersFindTheirCall, MatchesRequest
<1>5. OweOnce'
  BY <1>1 DEF OweOnce, RequestOf
<1> QED BY <1>2, <1>3, <1>4, <1>5

LEMMA ExtensionAnswersKeeps ==
  ASSUME IInv, ExtensionAnswers
  PROVE  IInv'
<1> USE DEF IInv, ExtensionAnswers, api
<1>1. PICK m \in requests, code \in Codes :
        /\ requests' = requests \ {m}
        /\ answered' = answered \cup {ResponseTo(m, code)}
        /\ inbox' = Append(inbox, ResponseTo(m, code))
  OBVIOUS
<1> DEFINE r == ResponseTo(m, code)
<1>2. /\ r \in Response /\ r.requestId = m.requestId /\ r.responseData.to = m.call
      /\ m.requestId \in 1..reqCounter /\ callbackMap[m.requestId] = m.call
  BY DEF ResponseTo, Response, Answers, TypeOK, Request, AnswersFindTheirCall
<1>3. /\ inbox' = Append(inbox, r) /\ answered' = answered \cup {r}
  BY <1>1
<1> HIDE DEF r
<1>4. /\ inbox' \in Seq(Response)
      /\ \A k \in 1..Len(inbox') : \/ k \in 1..Len(inbox) /\ inbox'[k] = inbox[k]
                                   \/ inbox'[k] = r
  BY <1>2, <1>3, AppendProperties DEF TypeOK
<1>5. TypeOK'
  BY <1>1, <1>2, <1>3, <1>4 DEF TypeOK
<1>6. Callbacks' /\ WaitingApart' /\ AttemptHasWaiters' /\ WaitingIsServed'
  BY DEF Callbacks, WaitingApart, AttemptHasWaiters, WaitingIsServed, PostThrows
<1>7. AnswersFindTheirCall'
  <2>1. ASSUME NEW k \in 1..Len(inbox'), inbox'[k].requestId # 0
        PROVE  /\ inbox'[k].requestId \in 1..reqCounter
               /\ callbackMap[inbox'[k].requestId] \in {inbox'[k].responseData.to, NoCall}
    BY <1>2, <1>4, <2>1 DEF AnswersFindTheirCall, MatchesRequest
  <2>2. ASSUME NEW q \in answered'
        PROVE  q.requestId \in 1..reqCounter /\ callbackMap[q.requestId] \in {q.responseData.to, NoCall}
    BY <1>2, <1>3 DEF AnswersFindTheirCall, MatchesRequest
  <2> QED BY <1>1, <2>1, <2>2 DEF AnswersFindTheirCall, MatchesRequest
<1>8. OweOnce'
  <2>1. ASSUME NEW n \in requests' PROVE n \in requests /\ n.requestId # m.requestId
    BY <1>1 DEF OweOnce, AnswersFindTheirCall
  <2> QED BY <1>2, <1>3, <1>4, <2>1 DEF OweOnce, RequestOf
<1> QED BY <1>5, <1>6, <1>7, <1>8

LEMMA ExtensionStraysKeeps ==
  ASSUME IInv, ExtensionStrays
  PROVE  IInv'
<1> USE DEF IInv, ExtensionStrays, api
<1>0. PICK r \in answered : \E id \in {0, r.requestId} :
        inbox' = Append(inbox, [requestId |-> id, responseData |-> r.responseData])
  OBVIOUS
<1>1. PICK id \in {0, r.requestId} : inbox' = Append(inbox, [requestId |-> id, responseData |-> r.responseData])
  BY <1>0
<1> DEFINE q == [requestId |-> id, responseData |-> r.responseData]
<1>2. /\ q \in Response /\ q.requestId \in {0, r.requestId}
      /\ q.responseData.to = r.responseData.to
      /\ r.requestId \in 1..reqCounter /\ callbackMap[r.requestId] \in {r.responseData.to, NoCall}
  BY DEF Response, TypeOK, AnswersFindTheirCall, MatchesRequest
<1>3. inbox' = Append(inbox, q)
  BY <1>1
<1> HIDE DEF q
<1>4. /\ inbox' \in Seq(Response)
      /\ \A k \in 1..Len(inbox') : \/ k \in 1..Len(inbox) /\ inbox'[k] = inbox[k]
                                   \/ inbox'[k] = q
  BY <1>2, <1>3, AppendProperties DEF TypeOK
<1>5. TypeOK'
  BY <1>4, CallsAssumption DEF TypeOK
<1>6. Callbacks' /\ WaitingApart' /\ AttemptHasWaiters' /\ WaitingIsServed'
  BY DEF Callbacks, WaitingApart, AttemptHasWaiters, WaitingIsServed, PostThrows
<1>7. AnswersFindTheirCall'
  <2>1. ASSUME NEW k \in 1..Len(inbox'), inbox'[k].requestId # 0
        PROVE  /\ inbox'[k].requestId \in 1..reqCounter
               /\ callbackMap[inbox'[k].requestId] \in {inbox'[k].responseData.to, NoCall}
    BY <1>2, <1>4, <2>1 DEF AnswersFindTheirCall, MatchesRequest
  <2> QED BY <2>1 DEF AnswersFindTheirCall, MatchesRequest
<1>8. OweOnce'
  <2>1. \A m \in requests : m.requestId # q.requestId
    BY <1>2 DEF OweOnce, AnswersFindTheirCall, TypeOK, Request
  <2> QED BY <1>4, <2>1 DEF OweOnce, RequestOf
<1> QED BY <1>5, <1>6, <1>7, <1>8

LEMMA ExtensionStopsKeeps ==
  ASSUME IInv, ExtensionStops
  PROVE  IInv'
  BY DEF IInv, ExtensionStops, api, TypeOK, Callbacks, WaitingApart, AnswersFindTheirCall,
     MatchesRequest, OweOnce, RequestOf, AttemptHasWaiters, WaitingIsServed, PostThrows

LEMMA NextKeeps == IInv /\ [Next]_vars => IInv'
<1> SUFFICES ASSUME IInv, [Next]_vars PROVE IInv'
  OBVIOUS
<1>1. ASSUME NEW c \in Calls, Register(c) \/ Sign(c) PROVE IInv'
  BY <1>1, CallWithPortKeeps, CallWithoutPortKeeps DEF Register, Sign, GetPortSingleton
<1>2. CASE ProbeReplied \/ IframeLoaded
  BY <1>2, AcquiringKeeps
<1>3. CASE ChromePortReady \/ IframeReady
  BY <1>3, PortObtainedKeeps DEF ChromePortReady, IframeReady, Ports
<1>4. CASE ResponseHandled \/ ResponseDropped
  BY <1>4, ResponseHandledKeeps, ResponseDroppedKeeps
<1>5. CASE ExtensionAnswers \/ ExtensionStrays \/ ExtensionStops
  BY <1>5, ExtensionAnswersKeeps, ExtensionStraysKeeps, ExtensionStopsKeeps
<1>6. CASE UNCHANGED vars
  BY <1>6 DEF vars, IInv, TypeOK, Callbacks, WaitingApart, AnswersFindTheirCall,
     MatchesRequest, OweOnce, RequestOf, AttemptHasWaiters, WaitingIsServed, PostThrows
<1> QED BY <1>1, <1>2, <1>3, <1>4, <1>5, <1>6 DEF Next

LEMMA Invariance == Spec => []IInv
  BY Initially, NextKeeps, PTL DEF Spec

-----------------------------------------------------------------------------
(* The theorems.                                                           *)

\* Every variable keeps its type: in particular the table of callbacks has an
\* entry for each id given so far and no other.
THEOREM TypeCorrect == Spec => []TypeOK
<1>1. IInv => TypeOK
  BY DEF IInv
<1> QED BY <1>1, Invariance, PTL

\* No callback is lost by being entered over another or kept to run twice, for
\* any number of calls made before and after there is a port.
THEOREM CallbacksInOnePlace == Spec => []OnePlace
<1>1. IInv => OnePlace
  BY PlacesSplit DEF IInv
<1> QED BY <1>1, Invariance, PTL

\* In whatever order the extension answers, and whatever it repeats, an answer
\* leads to the call it is for.
THEOREM AnswersMatch == Spec => []AnswersFindTheirCall
<1>1. IInv => AnswersFindTheirCall
  BY DEF IInv
<1> QED BY <1>1, Invariance, PTL

\* A call waits only while a port is being obtained.
THEOREM WaitingServed == Spec => []WaitingIsServed
<1>1. IInv => WaitingIsServed
  BY DEF IInv
<1> QED BY <1>1, Invariance, PTL

-----------------------------------------------------------------------------
(* The library implements U2fCalls.                                        *)

LEMMA CallAsks ==
  ASSUME IInv, NEW c \in Calls, GetPortSingleton(c)
  PROVE  Promise!Ask(c)
<1> USE DEF IInv
<1>1. c \notin Asked /\ got' = got
  BY DEF GetPortSingleton, CallWithPort, CallWithoutPort
<1>2. CASE CallWithPort(c)
  <2> DEFINE s == <<c>>
  <2>1. s \in Seq(Calls) /\ Len(s) = 1 /\ s[1] = c /\ \A k \in 1..Len(s) : s[k] = c
    OBVIOUS
  <2>2. EnterCallbacks(s) /\ waiting' = waiting
    BY <1>2 DEF CallWithPort
  <2> HIDE DEF s
  <2>3. /\ \A i \in 1..reqCounter : i \in 1..reqCounter' /\ callbackMap'[i] = callbackMap[i]
        /\ \A i \in 1..reqCounter' : i \notin 1..reqCounter => callbackMap'[i] = c
        /\ \E i \in 1..reqCounter' : callbackMap'[i] = c
    <3>1. 1 \in 1..Len(s)
      BY <2>1
    <3> QED BY <2>1, <2>2, <3>1, Entered
  <2>4. Asked' = Asked \cup {c}
    BY <1>1, <2>2, <2>3 DEF Asked
  <2> QED BY <1>1, <2>4 DEF Promise!Ask
<1>3. CASE CallWithoutPort(c)
  <2>1. /\ waiting \in Seq(Calls) /\ waiting' = Append(waiting, c)
        /\ UNCHANGED <<reqCounter, callbackMap>>
    BY <1>3 DEF CallWithoutPort, TypeOK
  <2>2. /\ Len(waiting') \in Nat /\ Len(waiting) \in Nat /\ Len(waiting') = Len(waiting) + 1
        /\ \A k \in 1..Len(waiting) : waiting'[k] = waiting[k]
        /\ waiting'[Len(waiting) + 1] = c
    BY <2>1, AppendProperties
  <2>3. \A d : (\E k \in 1..Len(waiting') : waiting'[k] = d)
                <=> (\E k \in 1..Len(waiting) : waiting[k] = d) \/ d = c
    <3>1. ASSUME NEW d, NEW k \in 1..Len(waiting'), waiting'[k] = d
          PROVE  (\E l \in 1..Len(waiting) : waiting[l] = d) \/ d = c
      BY <2>2, <3>1
    <3>2. ASSUME NEW d, NEW k \in 1..Len(waiting), waiting[k] = d
          PROVE  \E l \in 1..Len(waiting') : waiting'[l] = d
      BY <2>2, <3>2
    <3>3. \E l \in 1..Len(waiting') : waiting'[l] = c
      BY <2>2
    <3> QED BY <3>1, <3>2, <3>3
  <2>4. Asked' = Asked \cup {c}
    BY <1>1, <2>1, <2>3 DEF Asked
  <2> QED BY <1>1, <2>4 DEF Promise!Ask
<1> QED BY <1>2, <1>3 DEF GetPortSingleton

LEMMA PortObtainedStutters ==
  ASSUME IInv, NEW p \in Ports, acquiring # "none", PortObtained(p)
  PROVE  UNCHANGED <<Asked, got>>
<1> USE DEF IInv
<1> DEFINE served == Served(p)
           left   == Left(p)
<1>1. EnterCallbacks(served) /\ waiting' = left /\ got' = got
  BY DEF PortObtained, Served, Left
<1>2. waiting # << >>
  BY DEF AttemptHasWaiters
<1>3. /\ served \in Seq(Calls) /\ left \in Seq(Calls)
      /\ \A k \in 1..Len(served) : k \in 1..Len(waiting) /\ served[k] = waiting[k]
      /\ \A k \in 1..Len(left) : /\ Len(served) + k \in 1..Len(waiting)
                                 /\ left[k] = waiting[Len(served) + k]
      /\ Len(served) \in Nat /\ Len(left) \in Nat
  BY <1>2, ServedAndLeft
<1>4. \A k \in 1..Len(waiting) : \/ k \in 1..Len(served)
                                 \/ \E l \in 1..Len(left) : left[l] = waiting[k]
  <2>1. CASE PostThrows(p)
    <3>1. waiting \in Seq(Calls) /\ served = SubSeq(waiting, 1, 1) /\ left = Tail(waiting)
      BY <2>1 DEF TypeOK, Served, Left
    <3>2. Len(waiting) \in Nat /\ Len(waiting) >= 1
      BY <1>2, <3>1
    <3>3. Len(served) = 1
      BY <3>1, <3>2, SubSeqProperties
    <3>4. /\ Len(left) = Len(waiting) - 1
          /\ \A l \in 1..(Len(waiting) - 1) : left[l] = waiting[l + 1]
      BY <1>2, <3>1
    <3>5. ASSUME NEW k \in 1..Len(waiting), k # 1
          PROVE  k - 1 \in 1..Len(left) /\ left[k - 1] = waiting[k]
      BY <3>2, <3>4, <3>5
    <3> HIDE DEF served, left
    <3> QED BY <3>2, <3>3, <3>5
  <2>2. CASE ~PostThrows(p)
    BY <2>2 DEF Served
  <2> QED BY <2>1, <2>2
<1> HIDE DEF served, left
<1>5. /\ \A i \in 1..reqCounter : i \in 1..reqCounter' /\ callbackMap'[i] = callbackMap[i]
      /\ \A k \in 1..Len(served) : /\ reqCounter + k \in 1..reqCounter'
                                   /\ callbackMap'[reqCounter + k] = served[k]
      /\ \A i \in 1..reqCounter' : i \notin 1..reqCounter =>
           \E k \in 1..Len(served) : callbackMap'[i] = served[k]
  BY <1>1, <1>3, Entered
<1>6. ASSUME NEW c \in Asked PROVE c \in Asked'
  <2>1. CASE got[c] # << >>
    BY <1>1, <2>1 DEF Asked
  <2>2. ASSUME NEW i \in 1..reqCounter, callbackMap[i] = c PROVE c \in Asked'
    BY <1>5, <2>2 DEF Asked
  <2>3. ASSUME NEW k \in 1..Len(waiting), waiting[k] = c PROVE c \in Asked'
    BY <1>1, <1>3, <1>4, <1>5, <2>3 DEF Asked
  <2> QED BY <2>1, <2>2, <2>3 DEF Asked
<1>7. ASSUME NEW c \in Asked' PROVE c \in Asked
  <2>1. CASE got'[c] # << >>
    BY <1>1, <2>1 DEF Asked
  <2>4. c \in Calls
    BY DEF Asked
  <2>2. ASSUME NEW i \in 1..reqCounter', callbackMap'[i] = c PROVE c \in Asked
    <3>1. \/ i \in 1..reqCounter /\ callbackMap[i] = c
          \/ \E k \in 1..Len(waiting) : waiting[k] = c
      BY <1>3, <1>5, <2>2
    <3> QED BY <2>4, <3>1 DEF Asked
  <2>3. ASSUME NEW k \in 1..Len(left), left[k] = c PROVE c \in Asked
    BY <1>3, <2>3, <2>4 DEF Asked
  <2> QED BY <1>1, <2>1, <2>2, <2>3 DEF Asked
<1> QED BY <1>1, <1>6, <1>7

LEMMA ResponseAnswers ==
  ASSUME IInv, ResponseHandled
  PROVE  \E c \in Calls : \E a \in Promise!AnswersTo(c) : Promise!Answer(c, a)
<1> USE DEF IInv, ResponseHandled
<1> DEFINE id == Head(inbox).requestId
           a  == Head(inbox).responseData
           c  == callbackMap[id]
<1>1. Head(inbox) \in Response /\ Head(inbox) = inbox[1] /\ 1 \in 1..Len(inbox)
  BY InboxTail
<1>2. /\ id \in 1..reqCounter /\ c \in Calls /\ a \in Answers
      /\ callbackMap' = [callbackMap EXCEPT ![id] = NoCall]
      /\ got' = [got EXCEPT ![c] = Append(@, a)]
      /\ UNCHANGED <<waiting, reqCounter>>
  BY <1>1 DEF TypeOK, Response
<1>3. a.to = c
  BY <1>1, <1>2 DEF AnswersFindTheirCall, MatchesRequest, TypeOK
<1>4. got[c] = << >>
  BY <1>2 DEF Callbacks
<1> HIDE DEF id, a, c
<1>5. a \in Promise!AnswersTo(c)
  BY <1>2, <1>3 DEF Answers, Promise!AnswersTo
<1>6. got' = [got EXCEPT ![c] = <<a>>]
  <2>1. Append(got[c], a) = <<a>>
    BY <1>4
  <2> QED BY <1>2, <2>1
<1>7. c \in Asked /\ Asked' = Asked
  <2>1. /\ callbackMap'[id] = NoCall
        /\ \A i \in 1..reqCounter : i # id => callbackMap'[i] = callbackMap[i]
    BY <1>2 DEF TypeOK
  <2>2. /\ got'[c] # << >>
        /\ \A d \in Calls : d # c => got'[d] = got[d]
    BY <1>2, <1>6 DEF TypeOK
  <2>3. callbackMap[id] = c
    BY DEF c
  <2>4. c \in Asked /\ c \in Asked'
    BY <1>2, <2>2, <2>3 DEF Asked
  <2>5. ASSUME NEW d \in Calls, d # c PROVE d \in Asked <=> d \in Asked'
    <3>1. (\E i \in 1..reqCounter : callbackMap[i] = d)
            <=> (\E i \in 1..reqCounter' : callbackMap'[i] = d)
      BY <1>2, <2>1, <2>3, <2>5, CallsAssumption
    <3> QED BY <1>2, <2>2, <2>5, <3>1 DEF Asked
  <2>6. Asked \subseteq Calls /\ Asked' \subseteq Calls
    BY DEF Asked
  <2>7. \A d : d \in Asked <=> d \in Asked'
    BY <2>4, <2>5, <2>6
  <2> QED BY <2>4, <2>7
<1> QED BY <1>2, <1>4, <1>5, <1>6, <1>7 DEF Promise!Answer

LEMMA NextImplements == IInv /\ [Next]_vars => [Promise!Next]_(Promise!callsVars)
<1> SUFFICES ASSUME IInv, [Next]_vars PROVE [Promise!Next]_(Promise!callsVars)
  OBVIOUS
<1>1. ASSUME NEW c \in Calls, Register(c) \/ Sign(c) PROVE Promise!Next
  BY <1>1, CallAsks DEF Register, Sign, Promise!Next
<1>2. CASE ChromePortReady \/ IframeReady
  BY <1>2, PortObtainedStutters DEF ChromePortReady, IframeReady, Ports, Promise!callsVars
<1>3. CASE ResponseHandled
  BY <1>3, ResponseAnswers DEF Promise!Next
<1>4. CASE \/ ProbeReplied \/ IframeLoaded \/ ResponseDropped \/ ExtensionAnswers
           \/ ExtensionStrays \/ ExtensionStops \/ UNCHANGED vars
  BY <1>4 DEF ProbeReplied, IframeLoaded, ResponseDropped, ExtensionAnswers,
     ExtensionStrays, ExtensionStops, api, ext, vars, Asked, Promise!callsVars
<1> QED BY <1>1, <1>2, <1>3, <1>4 DEF Next

\* In every kind of browser, and whenever the calls are made, a callback runs
\* at most once, after its call, with an answer to its own request.
THEOREM ImplementsU2fCalls == Spec => ImplementsCalls
<1>1. Init => Promise!Init
  BY DEF Init, Promise!Init, Asked
<1> QED BY <1>1, NextImplements, Invariance, PTL DEF Spec, ImplementsCalls, Promise!Spec

-----------------------------------------------------------------------------
(* What AskedIsAnswered rests on: while the extension is there, somebody     *)
(* still has to do something for each call that was not answered.            *)

Heard(i) == \E k \in 1..Len(inbox) : inbox[k].requestId = i

\* The extension owes the request of every callback that is entered, or its
\* answer is on its way.
OpenCallsAreOwed ==
  extension = "up" =>
    \A i \in 1..reqCounter :
      callbackMap[i] # NoCall => Heard(i) \/ \E m \in requests : m.requestId = i

\* Requests, and so answers, exist only once there is a port that listens.
AnswersAreListenedTo ==
  /\ reqCounter # 0 => port # NoPort
  /\ inbox # << >> => reqCounter # 0

\* While the extension is there, a call that was made and has no answer waits
\* for a port somebody is obtaining, or its request is with the extension, or
\* its answer is on its way to a port that listens.
NoCallIsForgotten ==
  extension = "up" =>
    \A c \in Asked :
      \/ got[c] # << >>
      \/ acquiring # "none" /\ \E k \in 1..Len(waiting) : waiting[k] = c
      \/ /\ port # NoPort
         /\ \E i \in 1..reqCounter :
              callbackMap[i] = c /\ (Heard(i) \/ \E m \in requests : m.requestId = i)

OwedInv == OpenCallsAreOwed /\ AnswersAreListenedTo

LEMMA OpenedOwed ==
  ASSUME IInv, OwedInv, NEW s \in Seq(Calls), EnterCallbacks(s), PostMessages(s),
         port' # NoPort, UNCHANGED <<extension, inbox>>
  PROVE  OwedInv'
<1>1. /\ \A i \in 1..reqCounter : callbackMap'[i] = callbackMap[i]
      /\ \A i \in 1..reqCounter' : i \notin 1..reqCounter =>
           \E k \in 1..Len(s) : i = reqCounter + k
      /\ reqCounter' = reqCounter + Len(s)
  BY Entered DEF IInv
<1>2. reqCounter \in Nat /\ Len(s) \in Nat
  BY DEF IInv, TypeOK
<1>3. OpenCallsAreOwed'
  <2> SUFFICES ASSUME extension = "up", NEW i \in 1..reqCounter', callbackMap'[i] # NoCall
               PROVE  Heard(i)' \/ \E m \in requests' : m.requestId = i
    BY DEF OpenCallsAreOwed
  <2>1. requests' = requests \cup {RequestOf(s[k], reqCounter + k) : k \in 1..Len(s)}
    BY DEF PostMessages
  <2>2. CASE i \in 1..reqCounter
    BY <1>1, <2>1, <2>2 DEF OwedInv, OpenCallsAreOwed, Heard
  <2>3. CASE i \notin 1..reqCounter
    <3>1. PICK k \in 1..Len(s) : i = reqCounter + k
      BY <1>1, <2>3
    <3>2. RequestOf(s[k], reqCounter + k).requestId = i
      BY <3>1 DEF RequestOf
    <3> QED BY <2>1, <3>1, <3>2
  <2> QED BY <2>2, <2>3
<1>4. AnswersAreListenedTo'
  BY <1>1, <1>2 DEF OwedInv, AnswersAreListenedTo
<1> QED BY <1>3, <1>4 DEF OwedInv

LEMMA CallsOwed ==
  ASSUME IInv, OwedInv, NEW c \in Calls, GetPortSingleton(c)
  PROVE  OwedInv'
<1>1. CASE CallWithPort(c)
  <2>1. <<c>> \in Seq(Calls)
    OBVIOUS
  <2> QED BY <1>1, <2>1, OpenedOwed DEF CallWithPort
<1>2. CASE CallWithoutPort(c)
  BY <1>2 DEF CallWithoutPort, ext, OwedInv, OpenCallsAreOwed, AnswersAreListenedTo, Heard
<1> QED BY <1>1, <1>2 DEF GetPortSingleton

LEMMA PortObtainedOwed ==
  ASSUME IInv, OwedInv, NEW p \in Ports, acquiring # "none", PortObtained(p)
  PROVE  OwedInv'
<1>1. /\ EnterCallbacks(Served(p)) /\ PostMessages(Served(p))
      /\ port' = p /\ UNCHANGED <<extension, inbox>>
  BY DEF PortObtained, Served
<1>2. waiting # << >>
  BY DEF IInv, AttemptHasWaiters
<1>3. Served(p) \in Seq(Calls)
  BY <1>2, ServedAndLeft DEF IInv
<1> QED BY <1>1, <1>3, OpenedOwed DEF Ports, NoPort

\* The message that is read is the one for its id, so that the others keep
\* theirs.
LEMMA ResponsesOwed ==
  ASSUME IInv, OwedInv, ResponseHandled \/ ResponseDropped
  PROVE  OwedInv'
<1> DEFINE id == Head(inbox).requestId
<1>1. /\ inbox # << >> /\ inbox' = Tail(inbox)
      /\ UNCHANGED <<port, reqCounter, extension, requests>>
  BY DEF ResponseHandled, ResponseDropped, api
<1>2. Head(inbox) = inbox[1]
  BY <1>1, InboxTail DEF IInv
<1>3. /\ Len(inbox) \in Nat /\ Len(inbox') = Len(inbox) - 1
      /\ \A k \in 1..(Len(inbox) - 1) : inbox'[k] = inbox[k + 1]
  BY <1>1 DEF IInv, TypeOK
<1>4. ASSUME NEW i \in 1..reqCounter, callbackMap'[i] # NoCall
      PROVE  i # id /\ callbackMap[i] # NoCall
  BY <1>4 DEF ResponseHandled, ResponseDropped, api, IInv, TypeOK
<1>5. ASSUME NEW i, i # id, Heard(i)
      PROVE  Heard(i)'
  <2>1. PICK k \in 1..Len(inbox) : inbox[k].requestId = i
    BY <1>5 DEF Heard
  <2>2. k # 1
    BY <1>2, <1>5, <2>1
  <2>3. k - 1 \in 1..(Len(inbox) - 1) /\ (k - 1) + 1 = k
    BY <1>3, <2>2
  <2>4. inbox'[k - 1].requestId = i /\ k - 1 \in 1..Len(inbox')
    BY <1>3, <2>1, <2>3
  <2> QED BY <2>4 DEF Heard
<1>6. OpenCallsAreOwed'
  BY <1>1, <1>4, <1>5 DEF OwedInv, OpenCallsAreOwed
<1>7. AnswersAreListenedTo'
  BY <1>1 DEF OwedInv, AnswersAreListenedTo
<1> QED BY <1>6, <1>7 DEF OwedInv

LEMMA AppendedHeard ==
  ASSUME TypeOK, NEW q \in Response, inbox' = Append(inbox, q)
  PROVE  /\ \A i : Heard(i) => Heard(i)'
         /\ Heard(q.requestId)'
<1>1. /\ Len(inbox) \in Nat /\ Len(inbox') = Len(inbox) + 1
      /\ \A k \in 1..Len(inbox) : inbox'[k] = inbox[k]
      /\ inbox'[Len(inbox) + 1] = q
  BY AppendProperties DEF TypeOK
<1>2. Len(inbox) + 1 \in 1..Len(inbox') /\ \A k \in 1..Len(inbox) : k \in 1..Len(inbox')
  BY <1>1
<1> QED BY <1>1, <1>2 DEF Heard

LEMMA ExtensionOwes ==
  ASSUME IInv, OwedInv, ExtensionAnswers
  PROVE  OwedInv'
<1>1. PICK m \in requests, code \in Codes :
        /\ requests' = requests \ {m}
        /\ inbox' = Append(inbox, ResponseTo(m, code))
  BY DEF ExtensionAnswers
<1>2. /\ ResponseTo(m, code) \in Response /\ ResponseTo(m, code).requestId = m.requestId
      /\ m.requestId \in 1..reqCounter
  BY DEF IInv, ResponseTo, Response, Answers, TypeOK, Request, AnswersFindTheirCall
<1>3. UNCHANGED <<port, reqCounter, callbackMap, extension>>
  BY DEF ExtensionAnswers, api
<1>4. (\A i : Heard(i) => Heard(i)') /\ Heard(m.requestId)'
  BY <1>1, <1>2, AppendedHeard DEF IInv
<1>5. OpenCallsAreOwed'
  BY <1>1, <1>3, <1>4 DEF OwedInv, OpenCallsAreOwed
<1>6. reqCounter # 0
  BY <1>2 DEF IInv, TypeOK
<1> QED BY <1>3, <1>5, <1>6 DEF OwedInv, AnswersAreListenedTo

LEMMA StraysOwed ==
  ASSUME IInv, OwedInv, ExtensionStrays
  PROVE  OwedInv'
<1>1. PICK r \in answered : \E id \in {0, r.requestId} :
        inbox' = Append(inbox, [requestId |-> id, responseData |-> r.responseData])
  BY DEF ExtensionStrays
<1>2. PICK id \in {0, r.requestId} :
        inbox' = Append(inbox, [requestId |-> id, responseData |-> r.responseData])
  BY <1>1
<1>3. [requestId |-> id, responseData |-> r.responseData] \in Response
  BY DEF IInv, TypeOK, Response
<1>4. UNCHANGED <<port, reqCounter, callbackMap, extension, requests>>
  BY DEF ExtensionStrays, api
<1>5. OpenCallsAreOwed'
  BY <1>2, <1>3, <1>4, AppendedHeard DEF IInv, OwedInv, OpenCallsAreOwed
<1>6. reqCounter # 0
  BY DEF IInv, AnswersFindTheirCall, MatchesRequest, TypeOK
<1> QED BY <1>4, <1>5, <1>6 DEF OwedInv, AnswersAreListenedTo

LEMMA OwedStep ==
  ASSUME IInv, OwedInv, [Next]_vars
  PROVE  OwedInv'
<1>1. CASE ProbeReplied \/ IframeLoaded \/ ExtensionStops \/ UNCHANGED vars
  <2>1. UNCHANGED <<port, reqCounter, callbackMap, inbox>>
    BY <1>1 DEF ProbeReplied, IframeLoaded, ExtensionStops, ext, api, vars
  <2>2. extension' = "up" => UNCHANGED <<extension, requests>>
    BY <1>1 DEF ProbeReplied, IframeLoaded, ExtensionStops, ext, api, vars
  <2> QED BY <2>1, <2>2 DEF OwedInv, OpenCallsAreOwed, AnswersAreListenedTo, Heard
<1>2. ASSUME NEW c \in Calls, Register(c) \/ Sign(c)
      PROVE  OwedInv'
  BY <1>2, CallsOwed DEF Register, Sign
<1>3. CASE ChromePortReady \/ IframeReady
  BY <1>3, PortObtainedOwed DEF ChromePortReady, IframeReady, Ports
<1> QED
  BY <1>1, <1>2, <1>3, ResponsesOwed, ExtensionOwes, StraysOwed DEF Next

\* For any number of calls: a call the page made is not forgotten while the
\* extension is there, be it made before there was a port, queued behind
\* others, or answered out of turn among repeated answers.
THEOREM CallsNeverForgotten == Spec => []NoCallIsForgotten
<1>1. Init => OwedInv
  BY DEF Init, OwedInv, OpenCallsAreOwed, AnswersAreListenedTo
<1>2. Spec => []OwedInv
  BY <1>1, OwedStep, Invariance, PTL DEF Spec
<1>3. IInv /\ OwedInv => NoCallIsForgotten
  <2> SUFFICES ASSUME IInv, OwedInv, extension = "up", NEW c \in Asked, got[c] = << >>
               PROVE  \/ acquiring # "none" /\ \E k \in 1..Len(waiting) : waiting[k] = c
                      \/ /\ port # NoPort
                         /\ \E i \in 1..reqCounter :
                              callbackMap[i] = c /\ (Heard(i) \/ \E m \in requests : m.requestId = i)
    BY DEF NoCallIsForgotten
  <2>1. CASE \E k \in 1..Len(waiting) : waiting[k] = c
    BY <2>1 DEF IInv, WaitingIsServed, PostThrows
  <2>2. ASSUME NEW i \in 1..reqCounter, callbackMap[i] = c
        PROVE  /\ port # NoPort
               /\ callbackMap[i] = c /\ (Heard(i) \/ \E m \in requests : m.requestId = i)
    <3>1. c # NoCall /\ reqCounter # 0
      BY <2>2, CallsAssumption DEF Asked, IInv, TypeOK
    <3> QED BY <2>2, <3>1 DEF OwedInv, OpenCallsAreOwed, AnswersAreListenedTo
  <2> QED BY <2>1, <2>2 DEF Asked
<1> QED BY <1>2, <1>3, Invariance, PTL

=============================================================================
