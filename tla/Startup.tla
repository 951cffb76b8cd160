------------------------------ MODULE Startup ------------------------------
(***************************************************************************)
(* How the application comes up (ConfigurationHandler and TimerService).   *)
(*                                                                         *)
(* A timer fires a job every RETRY_INTERVAL seconds, a fixed number of     *)
(* times, until the authorization server has answered with the acrs it     *)
(* supports; the firing that gets an answer loads the plugins, revises the *)
(* method mapping and lets users in.  Nothing keeps two firings apart when *)
(* the server takes longer to answer than the interval: they share the     *)
(* set of acrs (a plain HashSet that is published before it is filled) and *)
(* the state of the application.                                           *)
(***************************************************************************)
EXTENDS Naturals, FiniteSets

CONSTANTS
  Firings,  \* how often the timer fires: RETRIES + 1
  Answers,  \* the sets of acrs the server may answer with
  Default,  \* DEFAULT_ACR, without which the application does not operate
  Null      \* no set of acrs yet

ASSUME FiringsAssumption == Firings \in Nat \ {0}
ASSUME AnswersAssumption == \A answer \in Answers : IsFiniteSet(answer)
ASSUME NullAssumption == \A acrs \in SUBSET UNION Answers : acrs # Null

VARIABLES
  appState,    \* ConfigurationHandler.appState
  serverAcrs,  \* ConfigurationHandler.serverAcrs
  fired,       \* how often the timer has fired
  pc,          \* where each firing of the job is
  values,      \* what the server answered to each firing
  todo,        \* the part of it that is not in serverAcrs yet
  slow,        \* an answer may take longer than RETRY_INTERVAL
  sweeper      \* the sweeper of trusted devices is scheduled

vars == <<appState, serverAcrs, fired, pc, values, todo, slow, sweeper>>

Jobs == 1 .. Firings
Acrs == UNION Answers

\* "threw" is the end of a firing whose exception was logged.
Points == {"waiting", "check", "fetch", "fill", "decide", "refuse", "scan",
           "operate", "switch", "done", "threw"}

TypeOK ==
  /\ appState \in {"LOADING", "OPERATING", "FAIL"}
  /\ serverAcrs \in {Null} \cup SUBSET Acrs
  /\ fired \in 0 .. Firings
  /\ pc \in [Jobs -> Points]
  /\ values \in [Jobs -> {Null} \cup SUBSET Acrs]
  /\ todo \in [Jobs -> SUBSET Acrs]
  /\ slow \in BOOLEAN
  /\ sweeper \in BOOLEAN

Over(f) == pc[f] \in {"done", "threw"}

-----------------------------------------------------------------------------
(* One firing of the job *)

\* Mutant: the timer repeats forever.
FireForever ==
  /\ \A g \in Jobs : Over(g) \/ g > fired
  /\ fired' = fired + 1
  /\ pc' = [f \in Jobs |-> IF f = fired' THEN "check" ELSE pc[f]]
  /\ UNCHANGED <<appState, serverAcrs, values, todo, slow, sweeper>>

\* The next firing starts on time.  Those before it are over, unless answers
\* are slow: the job allows concurrent execution.
Fire ==
  LET f == fired + 1 IN
  /\ f \in Jobs
  /\ slow \/ \A g \in 1 .. fired : Over(g)
  /\ fired' = f
  /\ pc' = [pc EXCEPT ![f] = "check"]
  /\ UNCHANGED <<appState, serverAcrs, values, todo, slow, sweeper>>

\* Mutant: every firing asks the server.
AlwaysFetch(f) ==
  /\ pc[f] = "check"
  /\ pc' = [pc EXCEPT ![f] = "fetch"]
  /\ UNCHANGED <<appState, serverAcrs, fired, values, todo, slow, sweeper>>

Check(f) ==
  /\ pc[f] = "check"
  /\ pc' = [pc EXCEPT ![f] = IF serverAcrs = Null THEN "fetch" ELSE "done"]
  /\ UNCHANGED <<appState, serverAcrs, fired, values, todo, slow, sweeper>>

\* retrieveAcrs: the request fails, or its answer replaces the set, which is
\* still empty at that moment.
Fetch(f) ==
  /\ pc[f] = "fetch"
  /\ \/ /\ pc' = [pc EXCEPT ![f] = "decide"]
        /\ UNCHANGED <<serverAcrs, values, todo>>
     \/ \E answer \in Answers :
          /\ serverAcrs' = {}
          /\ values' = [values EXCEPT ![f] = answer]
          /\ todo' = [todo EXCEPT ![f] = answer]
          /\ pc' = [pc EXCEPT ![f] = "fill"]
  /\ UNCHANGED <<appState, fired, slow, sweeper>>

\* Mutant: the set is used before it is filled.
FillLater(f) ==
  /\ pc[f] = "fill"
  /\ pc' = [pc EXCEPT ![f] = "decide"]
  /\ UNCHANGED <<appState, serverAcrs, fired, values, todo, slow, sweeper>>

\* Adds to whatever set the field holds now.  HashSet is not synchronized: of
\* two firings that add at a time one may lose its element.
Fill(f) ==
  /\ pc[f] = "fill"
  /\ IF todo[f] = {}
     THEN /\ pc' = [pc EXCEPT ![f] = "decide"]
          /\ UNCHANGED <<serverAcrs, todo>>
     ELSE \E acr \in todo[f] :
            /\ todo' = [todo EXCEPT ![f] = @ \ {acr}]
            /\ \/ serverAcrs' = serverAcrs \cup {acr}
               \/ /\ \E g \in Jobs \ {f} : pc[g] = "fill"
                  /\ UNCHANGED serverAcrs
            /\ UNCHANGED pc
  /\ UNCHANGED <<appState, fired, values, slow, sweeper>>

\* Mutant: the firings that remain are forgotten at the first failure.
GivesUpEarly(f) ==
  /\ pc[f] = "decide"
  /\ pc' = [pc EXCEPT ![f] = "switch"]
  /\ appState' = IF serverAcrs = Null THEN "FAIL" ELSE appState
  /\ UNCHANGED <<serverAcrs, fired, values, todo, slow, sweeper>>

\* Mutant: running out of attempts is only logged.
NeverGivesUp(f) ==
  /\ pc[f] = "decide"
  /\ pc' = [pc EXCEPT ![f] = IF serverAcrs = Null THEN "switch"
                              ELSE IF Default \in serverAcrs THEN "scan" ELSE "refuse"]
  /\ UNCHANGED <<appState, serverAcrs, fired, values, todo, slow, sweeper>>

\* Without acrs: retry, or give up at the last firing (getNextFireTime is null
\* there).
Decide(f) ==
  /\ pc[f] = "decide"
  /\ IF serverAcrs = Null
     THEN /\ appState' = IF f = Firings THEN "FAIL" ELSE appState
          /\ pc' = [pc EXCEPT ![f] = "switch"]
     ELSE /\ pc' = [pc EXCEPT ![f] = IF Default \in serverAcrs THEN "scan" ELSE "refuse"]
          /\ UNCHANGED appState
  /\ UNCHANGED <<serverAcrs, fired, values, todo, slow, sweeper>>

Refuse(f) ==
  /\ pc[f] = "refuse"
  /\ appState' = "FAIL"
  /\ pc' = [pc EXCEPT ![f] = "switch"]
  /\ UNCHANGED <<serverAcrs, fired, values, todo, slow, sweeper>>

\* Mutant: the state changes before the plugins are loaded.
OperateAndScan(f) ==
  /\ pc[f] = "scan"
  /\ appState' = "OPERATING"
  /\ pc' = [pc EXCEPT ![f] = "operate"]
  /\ UNCHANGED <<serverAcrs, fired, values, todo, slow, sweeper>>

\* Loads plugins and revises the mapping: an exception ends the firing.
ScanPlugins(f) ==
  /\ pc[f] = "scan"
  /\ pc' \in {[pc EXCEPT ![f] = "operate"], [pc EXCEPT ![f] = "threw"]}
  /\ UNCHANGED <<appState, serverAcrs, fired, values, todo, slow, sweeper>>

Operate(f) ==
  /\ pc[f] = "operate"
  /\ appState' = "OPERATING"
  /\ pc' = [pc EXCEPT ![f] = "switch"]
  /\ UNCHANGED <<serverAcrs, fired, values, todo, slow, sweeper>>

\* Mutant: nobody schedules the sweeper.
NoSweeper(f) ==
  /\ pc[f] = "switch"
  /\ pc' = [pc EXCEPT ![f] = "done"]
  /\ UNCHANGED <<appState, serverAcrs, fired, values, todo, slow, sweeper>>

\* Looks at the state of the application, whoever changed it last.  Scheduling
\* the sweeper a second time fails, and is logged.
Switch(f) ==
  /\ pc[f] = "switch"
  /\ sweeper' = (sweeper \/ appState = "OPERATING")
  /\ pc' = [pc EXCEPT ![f] = "done"]
  /\ UNCHANGED <<appState, serverAcrs, fired, values, todo, slow>>

Job(f) ==
  \/ Check(f)
  \/ Fetch(f)
  \/ Fill(f)
  \/ Decide(f)
  \/ Refuse(f)
  \/ ScanPlugins(f)
  \/ Operate(f)
  \/ Switch(f)

-----------------------------------------------------------------------------
\* The timer is scheduled when the directory answers; otherwise the
\* application has failed and nothing fires.
Init ==
  /\ \/ appState = "LOADING" /\ fired = 0
     \/ appState = "FAIL" /\ fired = Firings
  /\ serverAcrs = Null
  /\ pc = [f \in Jobs |-> IF f <= fired THEN "done" ELSE "waiting"]
  /\ values = [f \in Jobs |-> Null]
  /\ todo = [f \in Jobs |-> {}]
  /\ slow \in BOOLEAN
  /\ sweeper = FALSE

Next == Fire \/ \E f \in Jobs : Job(f)

\* The scheduler fires on time, and its threads run: a request ends with an
\* answer or an exception.
Spec == Init /\ [][Next]_vars /\ WF_vars(Fire) /\ \A f \in Jobs : WF_vars(Job(f))

-----------------------------------------------------------------------------
(* Properties *)

\* When every answer arrives within the interval, startup has one outcome: an
\* application that operates or has failed does not change its mind when the
\* timer fires again.
OutcomeIsFinal ==
  [][~slow /\ appState # "LOADING" => appState' = appState]_vars

\* When every answer arrives within the interval, users are let in only when
\* all plugins are loaded: no firing loads them while the application
\* operates.
NoScanWhileOperating ==
  ~slow /\ appState = "OPERATING" => \A f \in Jobs : pc[f] \notin {"scan", "operate"}

\* The application fails for a missing acr only when some answer of the server
\* lacks it, as the log then says.  (A firing whose request failed goes on
\* with the set another firing is filling.)
MissingAcrIsMissing ==
  (\E f \in Jobs : pc[f] = "refuse")
    => \E f \in Jobs : values[f] # Null /\ Default \notin values[f]

\* The same, when every answer arrives within the interval.
MissingAcrIsMissingUnlessSlow == ~slow => MissingAcrIsMissing

\* A failure is final only after the last attempt or an answer: while the
\* server has answered to nobody, the attempts that remain are made.
AttemptsAreUsed ==
  appState = "FAIL" /\ fired < Firings => \E f \in Jobs : values[f] # Null

\* Startup comes to an end, however late answers arrive, with one exception:
\* the loading of plugins threw.
StartupDecides ==
  appState = "LOADING" ~> (appState # "LOADING" \/ \E f \in Jobs : pc[f] = "threw")

\* In an application that operates the sweeper gets scheduled, whichever
\* firing brought the application up, unless a later firing makes it fail.
SweeperIsScheduled == appState = "OPERATING" ~> (sweeper \/ appState = "FAIL")

=============================================================================
