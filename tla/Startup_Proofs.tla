--------------------------- MODULE Startup_Proofs ---------------------------
(***************************************************************************)
(* Proofs about Startup, for any number of firings and any answers.        *)
(***************************************************************************)
EXTENDS Startup, Integers, TLAPS

\* Unless answers are slow, only the last firing may be at work.
OneAtATime ==
  /\ \A f \in Jobs : f > fired => pc[f] = "waiting"
  /\ ~slow => \A f \in Jobs : f < fired => Over(f)

\* A firing that has started has been counted.
StartedAreCounted == \A f \in Jobs : pc[f] # "waiting" => f <= fired

\* A firing is past its decision to go on only if there is a set of acrs.
AcrsDecided ==
  \A f \in Jobs : pc[f] \in {"fill", "scan", "operate", "refuse"} => serverAcrs # Null

\* Once the outcome is known, no firing will go on: there is a set of acrs, so
\* that each finds nothing to do, or there is no firing left.
NothingLeft ==
  ~slow /\ appState # "LOADING" =>
    /\ \A f \in Jobs : pc[f] \in {"waiting", "check", "switch", "done", "threw"}
    /\ serverAcrs # Null \/ (fired = Firings /\ \A f \in Jobs : pc[f] # "check")

\* There is a set of acrs only if the server has answered, and the application
\* fails only with such a set or at the last firing.
FailureHasReason ==
  /\ serverAcrs # Null => \E f \in Jobs : values[f] # Null
  /\ appState = "FAIL" => serverAcrs # Null \/ fired = Firings

\* Unless answers are slow, the set is the answer to the firing at work.
SetIsTheAnswer ==
  ~slow => \A f \in Jobs :
    /\ pc[f] = "fetch" => serverAcrs = Null
    /\ pc[f] = "fill" => serverAcrs \cup todo[f] = values[f]
    /\ pc[f] = "decide" => serverAcrs \in {Null, values[f]}
    /\ pc[f] = "refuse" => values[f] # Null /\ Default \notin values[f]

IInv ==
  /\ TypeOK
  /\ OneAtATime
  /\ StartedAreCounted
  /\ AcrsDecided
  /\ NothingLeft
  /\ FailureHasReason
  /\ SetIsTheAnswer

\* Unless answers are slow, a firing at work is the last one.
AtWorkIsLast(f) ==
  ~slow => f = fired /\ \A g \in Jobs \ {f} : pc[g] \in {"waiting", "done", "threw"}

-----------------------------------------------------------------------------
\* An answer of the server is a set of acrs, and as such not Null.
LEMMA AnswersAreSets ==
  /\ {} \in SUBSET Acrs
  /\ \A answer \in Answers : answer \in SUBSET Acrs
  /\ \A acrs \in SUBSET Acrs : acrs # Null
<1>1. \A answer \in Answers : answer \in SUBSET Acrs
  BY DEF Acrs
<1> QED
  BY <1>1, NullAssumption DEF Acrs

LEMMA CountersAreNumbers ==
  ASSUME TypeOK
  PROVE  fired \in Int /\ Firings \in Int /\ \A f \in Jobs : f \in Int /\ f <= Firings
BY FiringsAssumption DEF TypeOK, Jobs

LEMMA OneAtWork ==
  ASSUME IInv, NEW f \in Jobs, ~Over(f), pc[f] # "waiting"
  PROVE  AtWorkIsLast(f)
<1>1. f <= fired
  BY DEF IInv, StartedAreCounted
<1>2. ~slow => f = fired
  BY <1>1, CountersAreNumbers DEF IInv, OneAtATime
<1>3. ASSUME ~slow, NEW g \in Jobs \ {f}
      PROVE  pc[g] \in {"waiting", "done", "threw"}
  <2>1. g < fired \/ g > fired
    BY <1>2, <1>3, CountersAreNumbers DEF IInv
  <2> QED
    BY <1>3, <2>1 DEF IInv, OneAtATime, Over
<1> QED
  BY <1>2, <1>3 DEF AtWorkIsLast

-----------------------------------------------------------------------------
(* The invariant holds initially and is kept by every step.                  *)

LEMMA InitIInv == Init => IInv
<1> SUFFICES ASSUME Init PROVE IInv
  OBVIOUS
<1> USE DEF Init
<1>1. fired \in 0 .. Firings /\ \A f \in Jobs : f \in Int
  BY FiringsAssumption DEF Jobs
<1>2. TypeOK
  BY <1>1, AnswersAreSets DEF TypeOK, Points
<1>3. OneAtATime
  BY <1>1, FiringsAssumption DEF OneAtATime, Over, Jobs
<1>4. StartedAreCounted
  BY DEF StartedAreCounted
<1>5. AcrsDecided
  BY DEF AcrsDecided
<1>6. NothingLeft
  BY DEF NothingLeft
<1>7. FailureHasReason /\ SetIsTheAnswer
  BY DEF FailureHasReason, SetIsTheAnswer
<1> QED
  BY <1>2, <1>3, <1>4, <1>5, <1>6, <1>7 DEF IInv

LEMMA FireIInv == IInv /\ Fire => IInv'
<1> SUFFICES ASSUME IInv, Fire PROVE IInv'
  OBVIOUS
<1> DEFINE f == fired + 1
<1>1. /\ f \in Jobs
      /\ fired' = f
      /\ pc' = [pc EXCEPT ![f] = "check"]
      /\ UNCHANGED <<appState, serverAcrs, values, todo, slow, sweeper>>
      /\ slow \/ \A g \in 1 .. fired : Over(g)
  BY DEF Fire
<1>2. fired \in Int /\ Firings \in Int /\ \A g \in Jobs : g \in Int /\ g >= 1 /\ g <= Firings
  BY FiringsAssumption DEF IInv, TypeOK, Jobs
<1>3. pc \in [Jobs -> Points] /\ \A g \in Jobs : pc'[g] = IF g = f THEN "check" ELSE pc[g]
  BY <1>1 DEF IInv, TypeOK
<1> HIDE DEF f
<1>4. TypeOK'
  <2>1. fired' \in 0 .. Firings
    BY <1>1, <1>2
  <2>2. pc' \in [Jobs -> Points]
    BY <1>1, <1>3 DEF Points
  <2> QED
    BY <1>1, <2>1, <2>2 DEF IInv, TypeOK
<1>5. OneAtATime'
  <2>1. ASSUME NEW g \in Jobs, g > fired' PROVE pc'[g] = "waiting"
    BY <1>1, <1>2, <1>3, <2>1 DEF IInv, OneAtATime, f
  <2>2. ASSUME ~slow', NEW g \in Jobs, g < fired' PROVE pc'[g] \in {"done", "threw"}
    BY <1>1, <1>2, <1>3, <2>2 DEF Over, f
  <2> QED
    BY <2>1, <2>2 DEF OneAtATime, Over
<1>6. StartedAreCounted'
  <2> SUFFICES ASSUME NEW g \in Jobs, pc'[g] # "waiting" PROVE g <= fired'
    BY DEF StartedAreCounted
  <2> QED
    BY <1>1, <1>2, <1>3 DEF IInv, StartedAreCounted, f
<1>7. AcrsDecided'
  BY <1>1, <1>3 DEF IInv, AcrsDecided
<1>8. NothingLeft'
  <2> SUFFICES ASSUME ~slow, appState # "LOADING" PROVE NothingLeft'
    BY <1>1 DEF NothingLeft
  <2>1. serverAcrs # Null
    BY <1>1, <1>2 DEF IInv, NothingLeft, f
  <2> QED
    BY <1>1, <1>3, <2>1 DEF IInv, NothingLeft
<1>9. FailureHasReason'
  BY <1>1, <1>2, <1>3 DEF IInv, FailureHasReason, f
<1>10. SetIsTheAnswer'
  BY <1>1, <1>3 DEF IInv, SetIsTheAnswer
<1> QED
  BY <1>4, <1>5, <1>6, <1>7, <1>8, <1>9, <1>10 DEF IInv

\* What every step of a firing has in common: it changes the place of that
\* firing alone, and does not start one.
LEMMA JobSteps ==
  ASSUME IInv, NEW f \in Jobs, Job(f)
  PROVE  /\ pc[f] \notin {"waiting", "done", "threw"}
         /\ pc' = [pc EXCEPT ![f] = pc'[f]]
         /\ pc'[f] \in Points \ {"waiting"}
         /\ fired' = fired /\ slow' = slow
         /\ serverAcrs' = Null => serverAcrs = Null
<1>1. pc \in [Jobs -> Points]
  BY DEF IInv, TypeOK
<1>2. CASE Check(f)
  BY <1>1, <1>2 DEF Check, Points
<1>3. CASE Fetch(f)
  BY <1>1, <1>3, AnswersAreSets DEF Fetch, Points
<1>4. CASE Fill(f)
  <2>1. serverAcrs' = serverAcrs \/ \E acr \in todo[f] : serverAcrs' = serverAcrs \cup {acr}
    BY <1>4 DEF Fill
  <2>2. serverAcrs \in SUBSET Acrs /\ todo[f] \in SUBSET Acrs
    BY <1>4 DEF Fill, IInv, TypeOK, AcrsDecided
  <2>3. serverAcrs' # Null
    BY <2>1, <2>2, AnswersAreSets
  <2> QED
    BY <1>1, <1>4, <2>3 DEF Fill, Points
<1>5. CASE Decide(f)
  BY <1>1, <1>5 DEF Decide, Points
<1>6. CASE Refuse(f)
  BY <1>1, <1>6 DEF Refuse, Points
<1>7. CASE ScanPlugins(f)
  BY <1>1, <1>7 DEF ScanPlugins, Points
<1>8. CASE Operate(f)
  BY <1>1, <1>8 DEF Operate, Points
<1>9. CASE Switch(f)
  BY <1>1, <1>9 DEF Switch, Points
<1> QED
  BY <1>2, <1>3, <1>4, <1>5, <1>6, <1>7, <1>8, <1>9 DEF Job

LEMMA JobTypes ==
  ASSUME IInv, NEW f \in Jobs, Job(f)
  PROVE  TypeOK'
<1>1. pc' \in [Jobs -> Points] /\ fired' \in 0 .. Firings /\ slow' \in BOOLEAN
  BY JobSteps DEF IInv, TypeOK
<1>2. /\ appState' \in {"LOADING", "OPERATING", "FAIL"}
      /\ sweeper' \in BOOLEAN
  BY DEF IInv, TypeOK, Job, Check, Fetch, Fill, Decide, Refuse, ScanPlugins, Operate, Switch
<1>3. /\ serverAcrs' \in {Null} \cup SUBSET Acrs
      /\ values' \in [Jobs -> {Null} \cup SUBSET Acrs]
      /\ todo' \in [Jobs -> SUBSET Acrs]
  <2>1. CASE Fetch(f)
    BY <2>1, AnswersAreSets DEF IInv, TypeOK, Fetch
  <2>2. CASE Fill(f)
    <3>1. serverAcrs \in SUBSET Acrs /\ todo[f] \in SUBSET Acrs
      BY <2>2 DEF Fill, IInv, TypeOK, AcrsDecided
    <3> QED
      BY <2>2, <3>1 DEF IInv, TypeOK, Fill
  <2>3. CASE ~Fetch(f) /\ ~Fill(f)
    BY <2>3 DEF IInv, TypeOK, Job, Check, Decide, Refuse, ScanPlugins, Operate, Switch
  <2> QED
    BY <2>1, <2>2, <2>3
<1> QED
  BY <1>1, <1>2, <1>3 DEF TypeOK

\* A firing goes on past its decision only with a set of acrs.
LEMMA JobDecides ==
  ASSUME IInv, NEW f \in Jobs, Job(f)
  PROVE  AcrsDecided'
<1>1. pc'[f] \in {"fill", "scan", "operate", "refuse"} => serverAcrs' # Null
  BY JobSteps, AnswersAreSets
  DEF IInv, TypeOK, AcrsDecided, Job, Check, Fetch, Fill, Decide, Refuse, ScanPlugins, Operate, Switch
<1> QED
  BY <1>1, JobSteps DEF IInv, TypeOK, AcrsDecided

\* The outcome is known only after the firing that brings it about, which is
\* then the last one at work.
LEMMA JobSettles ==
  ASSUME IInv, NEW f \in Jobs, Job(f)
  PROVE  NothingLeft'
<1> SUFFICES ASSUME ~slow, appState' # "LOADING"
             PROVE  NothingLeft'
  BY JobSteps DEF NothingLeft
<1>1. /\ f = fired
      /\ \A g \in Jobs \ {f} : pc'[g] \in {"waiting", "done", "threw"}
  BY JobSteps, OneAtWork DEF AtWorkIsLast, Over, IInv, TypeOK
<1>2. CASE appState # "LOADING"
  <2>1. pc[f] \in {"check", "switch"} /\ (pc[f] = "check" => serverAcrs # Null)
    BY <1>2, JobSteps DEF IInv, NothingLeft
  <2>2. Check(f) \/ Switch(f)
    BY <2>1 DEF Job, Check, Fetch, Fill, Decide, Refuse, ScanPlugins, Operate, Switch
  <2>3. pc'[f] = "done" /\ serverAcrs' = serverAcrs /\ fired' = fired
    BY <2>1, <2>2 DEF Check, Switch, IInv, TypeOK
  <2> QED
    BY <1>1, <1>2, <2>3 DEF IInv, NothingLeft
<1>3. CASE appState = "LOADING"
  <2>1. Decide(f) \/ Refuse(f) \/ Operate(f)
    BY <1>3 DEF Job, Check, Fetch, Fill, Decide, Refuse, ScanPlugins, Operate, Switch
  <2>2. pc'[f] = "switch" /\ fired' = fired
    BY <1>3, <2>1 DEF Decide, Refuse, Operate, IInv, TypeOK
  <2>3. serverAcrs' # Null \/ fired' = Firings
    BY <1>1, <1>3, <2>1 DEF Decide, Refuse, Operate, IInv, AcrsDecided
  <2> QED
    BY <1>1, <2>2, <2>3 DEF NothingLeft
<1> QED
  BY <1>2, <1>3

\* A set of acrs comes from an answer, and only the last firing gives up
\* without one.
LEMMA JobFails ==
  ASSUME IInv, NEW f \in Jobs, Job(f)
  PROVE  FailureHasReason'
<1>1. ASSUME serverAcrs' # Null PROVE \E g \in Jobs : values'[g] # Null
  <2>1. CASE Fetch(f)
    <3>1. CASE UNCHANGED <<serverAcrs, values>>
      BY <1>1, <3>1 DEF IInv, FailureHasReason
    <3>2. CASE \E answer \in Answers : values' = [values EXCEPT ![f] = answer]
      BY <3>2, AnswersAreSets DEF IInv, TypeOK
    <3> QED
      BY <2>1, <3>1, <3>2 DEF Fetch
  <2>2. CASE Fill(f)
    <3>1. serverAcrs # Null /\ values' = values
      BY <2>2 DEF Fill, IInv, AcrsDecided
    <3> QED
      BY <3>1 DEF IInv, FailureHasReason
  <2>3. CASE ~Fetch(f) /\ ~Fill(f)
    <3>1. UNCHANGED <<serverAcrs, values>>
      BY <2>3 DEF Job, Check, Decide, Refuse, ScanPlugins, Operate, Switch
    <3> QED
      BY <1>1, <3>1 DEF IInv, FailureHasReason
  <2> QED
    BY <2>1, <2>2, <2>3
<1>2. ASSUME appState' = "FAIL" PROVE serverAcrs' # Null \/ fired' = Firings
  <2>1. CASE appState = "FAIL"
    BY <2>1, JobSteps DEF IInv, FailureHasReason
  <2>2. CASE appState # "FAIL"
    <3>1. Decide(f) \/ Refuse(f)
      BY <1>2, <2>2 DEF Job, Check, Fetch, Fill, ScanPlugins, Operate, Switch
    <3>2. CASE Refuse(f)
      BY <3>2 DEF Refuse, IInv, AcrsDecided
    <3>3. CASE Decide(f)
      <4>1. f = Firings /\ pc[f] # "waiting"
        BY <1>2, <2>2, <3>3 DEF Decide
      <4>2. fired = Firings
        BY <4>1, CountersAreNumbers DEF IInv, StartedAreCounted, TypeOK
      <4> QED
        BY <4>2, JobSteps
    <3> QED
      BY <3>1, <3>2, <3>3
  <2> QED
    BY <2>1, <2>2
<1> QED
  BY <1>1, <1>2 DEF FailureHasReason

\* Unless answers are slow nobody else touches the set, so that it becomes the
\* answer of the server.
LEMMA JobFills ==
  ASSUME IInv, NEW f \in Jobs, Job(f)
  PROVE  SetIsTheAnswer'
<1> SUFFICES ASSUME ~slow PROVE SetIsTheAnswer'
  BY JobSteps DEF SetIsTheAnswer
<1>1. \A g \in Jobs \ {f} : pc[g] \in {"waiting", "done", "threw"} /\ pc'[g] = pc[g]
  BY JobSteps, OneAtWork DEF AtWorkIsLast, Over, IInv, TypeOK
<1>2. /\ pc'[f] = "fetch" => serverAcrs' = Null
      /\ pc'[f] = "fill" => serverAcrs' \cup todo'[f] = values'[f]
      /\ pc'[f] = "decide" => serverAcrs' \in {Null, values'[f]}
      /\ pc'[f] = "refuse" => values'[f] # Null /\ Default \notin values'[f]
  <2>1. CASE Fetch(f)
    BY <2>1 DEF Fetch, IInv, TypeOK, SetIsTheAnswer
  <2>2. CASE Fill(f)
    <3>1. \A g \in Jobs \ {f} : pc[g] # "fill"
      BY <1>1
    <3>2. serverAcrs \cup todo[f] = values[f]
      BY <2>2 DEF Fill, IInv, SetIsTheAnswer
    <3>3. CASE todo[f] = {}
      BY <2>2, <3>2, <3>3 DEF Fill, IInv, TypeOK
    <3>4. CASE todo[f] # {}
      <4>1. PICK acr \in todo[f] : /\ todo' = [todo EXCEPT ![f] = @ \ {acr}]
                                  /\ serverAcrs' = serverAcrs \cup {acr}
        BY <2>2, <3>1, <3>4 DEF Fill
      <4>2. serverAcrs' \cup todo'[f] = values'[f]
        BY <2>2, <3>2, <4>1 DEF Fill, IInv, TypeOK
      <4> QED
        BY <2>2, <3>4, <4>2 DEF Fill
    <3> QED
      BY <3>3, <3>4
  <2>3. CASE Decide(f)
    BY <2>3 DEF Decide, IInv, TypeOK, SetIsTheAnswer
  <2>4. CASE Check(f)
    BY <2>4 DEF Check, IInv, TypeOK
  <2>5. CASE Refuse(f) \/ ScanPlugins(f) \/ Operate(f) \/ Switch(f)
    BY <2>5 DEF Refuse, ScanPlugins, Operate, Switch, IInv, TypeOK
  <2> QED
    BY <2>1, <2>2, <2>3, <2>4, <2>5 DEF Job
<1> QED
  BY <1>1, <1>2 DEF SetIsTheAnswer

LEMMA JobIInv ==
  ASSUME IInv, NEW f \in Jobs, Job(f)
  PROVE  IInv'
<1>1. OneAtATime'
  <2>1. ASSUME NEW g \in Jobs, g > fired PROVE pc'[g] = "waiting"
    BY <2>1, JobSteps DEF IInv, TypeOK, OneAtATime
  <2>2. ASSUME ~slow, NEW g \in Jobs, g < fired PROVE pc'[g] \in {"done", "threw"}
    BY <2>2, JobSteps DEF IInv, TypeOK, OneAtATime, Over
  <2> QED
    BY <2>1, <2>2, JobSteps DEF OneAtATime, Over
<1>2. StartedAreCounted'
  BY JobSteps DEF IInv, TypeOK, StartedAreCounted
<1> QED
  BY <1>1, <1>2, JobTypes, JobDecides, JobSettles, JobFails, JobFills DEF IInv

LEMMA NextIInv == IInv /\ [Next]_vars => IInv'
<1> SUFFICES ASSUME IInv, [Next]_vars PROVE IInv'
  OBVIOUS
<1>1. CASE Fire
  BY <1>1, FireIInv
<1>2. ASSUME NEW f \in Jobs, Job(f) PROVE IInv'
  BY <1>2, JobIInv
<1>3. CASE UNCHANGED vars
  BY <1>3 DEF vars, IInv, TypeOK, OneAtATime, Over, StartedAreCounted, AcrsDecided, NothingLeft,
              FailureHasReason, SetIsTheAnswer
<1> QED
  BY <1>1, <1>2, <1>3 DEF Next

THEOREM Invariance == Spec => []IInv
<1> QED
  BY InitIInv, NextIInv, PTL DEF Spec

-----------------------------------------------------------------------------
\* Type correctness of startup: no firing goes past the last one, and whatever
\* two overlapping firings do to the shared set, it holds acrs of the server.
THEOREM TypeCorrect == Spec => []TypeOK
<1>1. IInv => TypeOK
  BY DEF IInv
<1> QED
  BY <1>1, Invariance, PTL

\* Users are never let in while plugins are being loaded, if every answer
\* arrives within the interval.
THEOREM NoScanWithUsers == Spec => []NoScanWhileOperating
<1>1. IInv => NoScanWhileOperating
  BY DEF IInv, NothingLeft, NoScanWhileOperating
<1> QED
  BY <1>1, Invariance, PTL

\* The application never gives up before the last attempt while the server has
\* not answered, whether or not firings overlap.
THEOREM AllAttemptsAreUsed == Spec => []AttemptsAreUsed
<1>1. IInv => AttemptsAreUsed
  BY CountersAreNumbers DEF IInv, FailureHasReason, AttemptsAreUsed
<1> QED
  BY <1>1, Invariance, PTL

\* The application never fails for an acr the server has reported, if every
\* answer arrives within the interval.
THEOREM MissingAcrsAreMissing == Spec => []MissingAcrIsMissingUnlessSlow
<1>1. IInv => MissingAcrIsMissingUnlessSlow
  BY DEF IInv, SetIsTheAnswer, MissingAcrIsMissing, MissingAcrIsMissingUnlessSlow
<1> QED
  BY <1>1, Invariance, PTL

\* An application that operates or has failed does not change its mind when
\* the timer fires again, if every answer arrives within the interval.
THEOREM OutcomesAreFinal == Spec => OutcomeIsFinal
<1>1. ASSUME IInv, [Next]_vars, ~slow, appState # "LOADING"
      PROVE  appState' = appState
  <2>1. CASE Fire
    BY <2>1 DEF Fire
  <2>2. ASSUME NEW f \in Jobs, Job(f)
        PROVE  appState' = appState
    BY <1>1, <2>2
    DEF IInv, NothingLeft, Job, Check, Fetch, Fill, Decide, Refuse, ScanPlugins, Operate, Switch
  <2> QED
    BY <1>1, <2>1, <2>2 DEF Next, vars
<1>2. IInv /\ [Next]_vars => [~slow /\ appState # "LOADING" => appState' = appState]_vars
  BY <1>1
<1> QED
  BY <1>2, Invariance, PTL DEF Spec, OutcomeIsFinal

-----------------------------------------------------------------------------
(* What the liveness of startup rests on: in no reachable state is there     *)
(* nobody left to bring it about.                                            *)

AtWork(f) == pc[f] \notin {"waiting", "done", "threw"}

\* Without acrs the last firing has not decided yet.
LastFiringDecides ==
  appState = "LOADING" /\ serverAcrs = Null /\ fired = Firings
    => pc[Firings] \in {"check", "fetch", "decide"}

\* With acrs some firing is on its way to an outcome, or threw: one that finds
\* the acrs there may leave, the one that brought them may not.
SomeFiringDecides ==
  appState = "LOADING" /\ serverAcrs # Null
    => \E f \in Jobs : pc[f] \in {"fill", "decide", "refuse", "scan", "operate", "threw"}

\* While the application is loading, the timer has firings left, a firing is
\* at work, or one threw: overlapping firings never leave the decision to
\* each other until nobody is left to take it.
StartupIsNeverForgotten ==
  appState = "LOADING" => \/ fired < Firings
                          \/ \E f \in Jobs : AtWork(f) \/ pc[f] = "threw"

\* An application that operates has its sweeper, or a firing is about to look
\* at the state of the application.
SweeperIsComing == appState = "OPERATING" => sweeper \/ \E f \in Jobs : pc[f] = "switch"

LEMMA FireDecides ==
  ASSUME IInv, LastFiringDecides, SomeFiringDecides, SweeperIsComing, Fire
  PROVE  LastFiringDecides' /\ SomeFiringDecides' /\ SweeperIsComing'
<1> DEFINE f == fired + 1
<1>1. /\ f \in Jobs /\ fired' = f /\ pc' = [pc EXCEPT ![f] = "check"]
      /\ UNCHANGED <<appState, serverAcrs, sweeper>>
  BY DEF Fire
<1>2. pc \in [Jobs -> Points] /\ pc[f] = "waiting"
  BY <1>1, CountersAreNumbers DEF IInv, TypeOK, OneAtATime
<1> HIDE DEF f
<1>3. \A g \in Jobs : pc[g] # "waiting" => pc'[g] = pc[g]
  BY <1>1, <1>2
<1> QED BY <1>1, <1>2, <1>3 DEF LastFiringDecides, SomeFiringDecides, SweeperIsComing

LEMMA JobDecidesLast ==
  ASSUME IInv, LastFiringDecides, SomeFiringDecides, SweeperIsComing, NEW f \in Jobs, Job(f)
  PROVE  LastFiringDecides' /\ SomeFiringDecides' /\ SweeperIsComing'
<1>1. /\ pc \in [Jobs -> Points] /\ fired' = fired
      /\ \A g \in Jobs \ {f} : pc'[g] = pc[g]
      /\ serverAcrs' = Null => serverAcrs = Null
  BY JobSteps DEF IInv, TypeOK
<1>2. LastFiringDecides'
  <2> SUFFICES ASSUME appState' = "LOADING", serverAcrs' = Null, fired = Firings
               PROVE  pc'[Firings] \in {"check", "fetch", "decide"}
    BY <1>1 DEF LastFiringDecides
  <2>1. appState = "LOADING"
    <3>1. CASE appState = "LOADING"
      BY <3>1
    <3>2. CASE appState # "LOADING"
      BY <3>2 DEF Job, Check, Fetch, Fill, Decide, Refuse, ScanPlugins, Operate, Switch
    <3> QED BY <3>1, <3>2
  <2>2. Firings \in Jobs
    BY FiringsAssumption DEF Jobs
  <2>3. pc[Firings] \in {"check", "fetch", "decide"}
    BY <1>1, <2>1 DEF LastFiringDecides
  <2>4. CASE f = Firings
    BY <1>1, <2>2, <2>3, <2>4, AnswersAreSets
    DEF Job, Check, Fetch, Fill, Decide, Refuse, ScanPlugins, Operate, Switch
  <2> QED BY <1>1, <2>2, <2>3, <2>4
<1>3. SomeFiringDecides'
  <2> DEFINE Deciding == {"fill", "decide", "refuse", "scan", "operate", "threw"}
  <2> SUFFICES ASSUME appState' = "LOADING", serverAcrs' # Null
               PROVE  \E g \in Jobs : pc'[g] \in Deciding
    BY DEF SomeFiringDecides
  <2>1. pc'[f] \in Deciding \/ (pc[f] \notin Deciding /\ serverAcrs' = serverAcrs)
    BY <1>1 DEF Job, Check, Fetch, Fill, Decide, Refuse, ScanPlugins, Operate, Switch
  <2>2. appState = "LOADING"
    <3>1. CASE appState = "LOADING"
      BY <3>1
    <3>2. CASE appState # "LOADING"
      BY <3>2 DEF Job, Check, Fetch, Fill, Decide, Refuse, ScanPlugins, Operate, Switch
    <3> QED BY <3>1, <3>2
  <2>3. CASE pc[f] \notin Deciding /\ serverAcrs' = serverAcrs
    <3>1. PICK g \in Jobs : pc[g] \in Deciding
      BY <2>2, <2>3 DEF SomeFiringDecides
    <3> QED BY <1>1, <2>3, <3>1
  <2> QED BY <2>1, <2>3
<1>4. SweeperIsComing'
  <2> SUFFICES ASSUME appState' = "OPERATING", ~sweeper'
               PROVE  \E g \in Jobs : pc'[g] = "switch"
    BY DEF SweeperIsComing
  <2>1. CASE Switch(f)
    BY <2>1 DEF Switch
  <2>2. CASE Operate(f)
    BY <1>1, <2>2 DEF Operate
  <2>3. CASE ~Switch(f) /\ ~Operate(f)
    <3>1. appState = "OPERATING" /\ ~sweeper /\ pc[f] # "switch"
      BY <2>3 DEF Job, Check, Fetch, Fill, Decide, Refuse, ScanPlugins
    <3>2. PICK g \in Jobs : pc[g] = "switch"
      BY <3>1 DEF SweeperIsComing
    <3> QED BY <1>1, <3>1, <3>2
  <2> QED BY <2>1, <2>2, <2>3
<1> QED BY <1>2, <1>3, <1>4

LEMMA Decisions == Spec => [](LastFiringDecides /\ SomeFiringDecides /\ SweeperIsComing)
<1>1. Init => LastFiringDecides /\ SomeFiringDecides /\ SweeperIsComing
  BY FiringsAssumption DEF Init, LastFiringDecides, SomeFiringDecides, SweeperIsComing
<1>2. ASSUME IInv, LastFiringDecides, SomeFiringDecides, SweeperIsComing, [Next]_vars
      PROVE  LastFiringDecides' /\ SomeFiringDecides' /\ SweeperIsComing'
  <2>1. CASE UNCHANGED vars
    BY <1>2, <2>1 DEF vars, LastFiringDecides, SomeFiringDecides, SweeperIsComing
  <2> QED BY <1>2, <2>1, FireDecides, JobDecidesLast DEF Next
<1> QED BY <1>1, <1>2, Invariance, PTL DEF Spec

\* The safety half of StartupDecides, for any number of firings, however late
\* answers arrive: an application is never left loading with no firing to come,
\* none at work and none that threw.
THEOREM StartupNeverForgotten == Spec => []StartupIsNeverForgotten
<1>1. IInv /\ LastFiringDecides /\ SomeFiringDecides => StartupIsNeverForgotten
  <2> SUFFICES ASSUME IInv, LastFiringDecides, SomeFiringDecides,
                      appState = "LOADING", ~(fired < Firings)
               PROVE  \E f \in Jobs : AtWork(f) \/ pc[f] = "threw"
    BY DEF StartupIsNeverForgotten
  <2>1. fired = Firings
    BY FiringsAssumption DEF IInv, TypeOK
  <2>2. Firings \in Jobs
    BY FiringsAssumption DEF Jobs
  <2> QED BY <2>1, <2>2 DEF LastFiringDecides, SomeFiringDecides, AtWork
<1> QED BY <1>1, Invariance, Decisions, PTL

\* The safety half of SweeperIsScheduled: whichever firing brought the
\* application up, and whatever slower ones did to its state, the sweeper is
\* there or a firing that will schedule it is.
THEOREM SweeperNeverForgotten == Spec => []SweeperIsComing
<1> QED BY Decisions, PTL

-----------------------------------------------------------------------------
(* Why the plugins administration may take the loading of plugins for one    *)
(* step that happens once (PluginAdmin!StartupJob and scanned).              *)

\* After a firing threw, the others find the acrs there and leave.
NoneAfterThrow ==
  ~slow => \A f \in Jobs : pc[f] = "threw" =>
    /\ serverAcrs # Null
    /\ \A g \in Jobs \ {f} : pc[g] \in {"waiting", "check", "done"}

\* When every answer arrives within the interval, a firing begins to load the
\* plugins only in an application that is loading, and when no firing is
\* loading them or has tried in vain: they are loaded once at most.
LoadsOnce ==
  [][~slow => \A f \in Jobs : pc[f] # "scan" /\ pc'[f] = "scan" =>
       /\ appState = "LOADING"
       /\ \A g \in Jobs : pc[g] \notin {"scan", "operate", "threw"}]_vars

LEMMA ThrowStep ==
  ASSUME IInv, NoneAfterThrow, [Next]_vars
  PROVE  NoneAfterThrow'
<1>1. CASE UNCHANGED vars
  BY <1>1 DEF vars, NoneAfterThrow
<1>2. CASE Fire
  <2>1. /\ fired + 1 \in Jobs /\ pc' = [pc EXCEPT ![fired + 1] = "check"]
        /\ UNCHANGED <<serverAcrs, slow>>
    BY <1>2 DEF Fire
  <2>2. \A g \in Jobs : pc'[g] \in {pc[g], "check"}
    BY <2>1 DEF IInv, TypeOK
  <2> QED BY <2>1, <2>2 DEF NoneAfterThrow
<1>3. ASSUME NEW f \in Jobs, Job(f)
      PROVE  NoneAfterThrow'
  <2> SUFFICES ASSUME ~slow, NEW h \in Jobs, pc'[h] = "threw"
               PROVE  /\ serverAcrs' # Null
                      /\ \A g \in Jobs \ {h} : pc'[g] \in {"waiting", "check", "done"}
    BY <1>3, JobSteps DEF NoneAfterThrow
  <2>1. /\ \A g \in Jobs \ {f} : pc'[g] = pc[g] /\ pc[g] \in {"waiting", "done", "threw"}
        /\ pc[f] \notin {"waiting", "done", "threw"}
        /\ serverAcrs' = Null => serverAcrs = Null
    BY <1>3, JobSteps, OneAtWork DEF AtWorkIsLast, Over, IInv, TypeOK
  <2>2. CASE h = f
    <3>1. ScanPlugins(f)
      BY <1>3, <2>2 DEF Job, Check, Fetch, Fill, Decide, Refuse, Operate, Switch, IInv, TypeOK
    <3>2. pc[f] = "scan" /\ serverAcrs # Null
      BY <3>1 DEF ScanPlugins, IInv, AcrsDecided
    <3>3. \A g \in Jobs \ {f} : pc[g] # "threw"
      BY <3>2 DEF NoneAfterThrow
    <3> QED BY <2>1, <2>2, <3>2, <3>3
  <2>3. CASE h # f
    <3>1. pc[h] = "threw" /\ pc[f] = "check" /\ serverAcrs # Null
      BY <2>1, <2>3 DEF NoneAfterThrow
    <3>2. Check(f) /\ pc'[f] = "done"
      BY <1>3, <3>1
      DEF Job, Check, Fetch, Fill, Decide, Refuse, ScanPlugins, Operate, Switch, IInv, TypeOK
    <3> QED BY <2>1, <2>3, <3>1, <3>2 DEF NoneAfterThrow
  <2> QED BY <2>2, <2>3
<1> QED BY <1>1, <1>2, <1>3 DEF Next

\* If every answer arrives within the interval, the plugins are loaded by one
\* firing at most, before the outcome of startup is known.
THEOREM PluginsLoadOnce == Spec => LoadsOnce
<1>1. Init => NoneAfterThrow
  BY DEF Init, NoneAfterThrow
<1>2. ASSUME IInv, NoneAfterThrow, [Next]_vars, ~slow,
             NEW f \in Jobs, pc[f] # "scan", pc'[f] = "scan"
      PROVE  /\ appState = "LOADING"
             /\ \A g \in Jobs : pc[g] \notin {"scan", "operate", "threw"}
  <2>1. Job(f)
    <3>1. ~Fire /\ ~UNCHANGED vars
      BY <1>2 DEF Fire, vars, IInv, TypeOK
    <3>2. ASSUME NEW g \in Jobs, Job(g) PROVE g = f
      BY <1>2, <3>2, JobSteps DEF IInv, TypeOK
    <3> QED BY <1>2, <3>1, <3>2 DEF Next
  <2>2. pc[f] = "decide"
    BY <1>2, <2>1
    DEF Job, Check, Fetch, Fill, Decide, Refuse, ScanPlugins, Operate, Switch, IInv, TypeOK
  <2>3. \A g \in Jobs \ {f} : pc[g] \in {"waiting", "done", "threw"}
    BY <1>2, <2>2, OneAtWork DEF AtWorkIsLast, Over
  <2>4. \A g \in Jobs \ {f} : pc[g] # "threw"
    BY <1>2, <2>2 DEF NoneAfterThrow
  <2> QED BY <1>2, <2>2, <2>3, <2>4 DEF IInv, NothingLeft
<1>3. IInv /\ NoneAfterThrow /\ [Next]_vars =>
        [~slow => \A f \in Jobs : pc[f] # "scan" /\ pc'[f] = "scan" =>
           /\ appState = "LOADING"
           /\ \A g \in Jobs : pc[g] \notin {"scan", "operate", "threw"}]_vars
  BY <1>2
<1> QED BY <1>1, <1>3, ThrowStep, Invariance, PTL DEF Spec, LoadsOnce

=============================================================================
