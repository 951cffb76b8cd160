---------------------------- MODULE SecurityKeys ----------------------------
(***************************************************************************)
(* Registering a security key (SecurityKeyViewModel, u2f-util.js,          *)
(* U2fService and FidoService): the page asks the U2F server for a         *)
(* challenge, the script of the page hands it to the U2F library, the      *)
(* answer comes back as an event, the server enters the key, and the page  *)
(* offers the latest key of the user to be named or cancelled.             *)
(*                                                                         *)
(* One user has several windows on the page.  The requests of a window are *)
(* handled one at a time, those of different windows interleave, so a      *)
(* handler is split where it calls the directory or the U2F server.  The   *)
(* library is known by its promise, U2fCalls.  Call n is the n-th press of *)
(* the ready button, its challenge, and the key entered for it.            *)
(***************************************************************************)
EXTENDS Naturals, FiniteSets, Sequences, SequencesExt

CONSTANTS
  Windows,    \* windows the user has on the page
  Calls,      \* presses of the ready button
  CallsOf(_), \* those made in a window
  OldKeys,    \* keys registered before, with their names
  Codes,      \* outcomes the browser reports
  Null,       \* no key, no challenge
  Blank,      \* a SecurityKey without an id
  MaxTrouble, \* bound: failures of the directory or the U2F server, clocks
              \* that disagree, and pages opened again, together
  MaxSkew     \* bound: newest keys whose date the page's clock has not reached

ASSUME SKAssumption ==
  /\ \A w \in Windows : CallsOf(w) \subseteq Calls
  /\ \A v, w \in Windows : v # w => CallsOf(v) \cap CallsOf(w) = {}
  /\ Null \notin Calls \cup OldKeys
  /\ Blank \notin Calls \cup OldKeys \cup {Null}
  /\ OldKeys \cap Calls = {} /\ IsFiniteSet(OldKeys)
  /\ "OK" \in Codes
  /\ {MaxTrouble, MaxSkew} \subseteq Nat

VARIABLES
  \* the directory and the U2F server
  created,    \* keys in the order of their creation dates
  live,       \* those whose entry exists
  named,      \* those whose entry has a name
  code,       \* the enrollment code in the user's entry
  open,       \* challenges not yet answered
  \* the page's server side, for every window
  starting,   \* presses whose code was generated, no challenge yet
  finishing,  \* finishing[w]: what notified has left to do
  awaiting, enrolled, newDevice, editingId, devices,
  \* the page's browser side
  pressed,    \* presses made
  register_request,  \* the variable of u2f-util.js, for every window
  timers,     \* calls whose setTimeout has not fired
  carried,    \* carried[n]: the challenge of call n while its callback waits
  onData,     \* onData[w]: answers on their way to the server
  asked, got, \* the U2F library
  \* bookkeeping
  refused,    \* calls the server refused a challenge or a key
  faults, reloads

directory == <<created, live, named, code, open>>
viewModel == <<awaiting, enrolled, newDevice, editingId, devices>>
browser   == <<pressed, register_request, timers, carried, onData>>
library   == <<asked, got>>
budget    == <<faults, reloads>>
vars == <<directory, viewModel, browser, library, starting, finishing, refused, budget>>

Keys == Calls \cup OldKeys

U2f == INSTANCE U2fCalls

TypeOK ==
  /\ created \in Seq(Keys) /\ IsInjective(created)
  /\ live \subseteq ToSet(created)
  /\ named \subseteq Keys
  /\ code \in Calls \cup {Null}
  /\ open \subseteq pressed
  /\ starting \subseteq pressed
  /\ finishing \in [Windows -> {"no", "pick", "clean"}]
  /\ awaiting \in [Windows -> BOOLEAN]
  /\ enrolled \in [Windows -> BOOLEAN]
  /\ newDevice \in [Windows -> Keys \cup {Blank, Null}]
  /\ editingId \in [Windows -> Keys \cup {Null}]
  /\ devices \in [Windows -> SUBSET (Keys \cup {Blank})]
  /\ pressed \subseteq Calls
  /\ register_request \in [Windows -> Calls \cup {Null}]
  /\ timers \subseteq pressed
  /\ carried \in [Calls -> Calls \cup {Null}]
  /\ onData \in [Windows -> Seq([challenge : Calls, code : Codes])]
  /\ asked \subseteq Calls
  /\ got \in [Calls -> Seq([to : Calls, code : Codes])]
  /\ refused \subseteq pressed
  /\ faults \in 0..MaxTrouble
  /\ reloads \in 0..MaxTrouble

-----------------------------------------------------------------------------
(* Helpers.                                                                *)

\* A window's requests wait while one of them is being handled.
Busy(w) == finishing[w] # "no" \/ starting \cap CallsOf(w) # {}

\* What the user can press: the edit dialog is modal.
Idle(w) == ~Busy(w) /\ editingId[w] = Null

Fault == faults + reloads < MaxTrouble /\ faults' = faults + 1

\* getDeviceRegistrationFor: the entry with the id of device d if there is
\* exactly one.  Without an id the directory library either refuses the
\* search or every registration there is matches.
Found(d) ==
  IF d = Blank THEN {m \in live : live = {m}} ELSE {d} \cap live

Searches(d) == IF d = Blank THEN {{}, Found(d)} ELSE {Found(d)}

-----------------------------------------------------------------------------
(* Asking for a challenge.                                                 *)

\* Mutant: the new code is not yet stored when the server is asked.
StaleCode(w) ==
  /\ Idle(w)
  /\ \E n \in CallsOf(w) \ pressed :
       /\ pressed'  = pressed \cup {n}
       /\ starting' = starting \cup {n}
  /\ awaiting' = [awaiting EXCEPT ![w] = TRUE]
  /\ UNCHANGED <<directory, enrolled, newDevice, editingId, devices, register_request,
                 timers, carried, onData, library, finishing, refused, budget>>

\* The ready button: the page shows it waits, and a new code is entered.  When
\* the directory fails, the server is asked without a code all the same.
TriggerU2fRegisterRequest(w) ==
  /\ Idle(w)
  /\ \E n \in CallsOf(w) \ pressed :
       /\ pressed'  = pressed \cup {n}
       /\ starting' = starting \cup {n}
       /\ \/ code' = n /\ UNCHANGED faults
          \/ Fault /\ UNCHANGED code
  /\ awaiting' = [awaiting EXCEPT ![w] = TRUE]
  /\ UNCHANGED <<created, live, named, open, enrolled, newDevice, editingId,
                 devices, register_request, timers, carried, onData, library,
                 finishing, refused, reloads>>

\* The U2F server wants the code that is in the entry now.  The response
\* runs triggerU2fRegistration: the request is kept in the one variable of
\* the page and a timer is set.
ChallengeGiven(n) ==
  /\ n \in starting
  /\ code = n
  /\ open' = open \cup {n}
  /\ starting' = starting \ {n}
  /\ timers' = timers \cup {n}
  /\ register_request' = [w \in Windows |->
                            IF n \in CallsOf(w) THEN n ELSE register_request[w]]
  /\ UNCHANGED <<created, live, named, code, viewModel, pressed, carried, onData,
                 library, finishing, refused, budget>>

\* A refusal is only reported: the page goes on waiting.
ChallengeRefused(n) ==
  /\ n \in starting
  /\ code = n => Fault
  /\ code # n => UNCHANGED faults
  /\ starting' = starting \ {n}
  /\ refused' = refused \cup {n}
  /\ UNCHANGED <<directory, viewModel, browser, library, finishing, reloads>>

-----------------------------------------------------------------------------
(* In the browser.                                                         *)

\* The timer of a press fires: u2f.register is called with the request that
\* is in the variable now.
StartRegistration(w, n) ==
  /\ n \in timers \cap CallsOf(w)
  /\ timers' = timers \ {n}
  /\ carried' = [carried EXCEPT ![n] = register_request[w]]
  /\ U2f!Ask(n)
  /\ UNCHANGED <<directory, viewModel, pressed, register_request, onData,
                 starting, finishing, refused, budget>>

\* The library runs the callback: the answer is sent to the server as it is.
SendBack(w, n) ==
  /\ n \in CallsOf(w)
  /\ carried[n] # Null
  /\ \E a \in U2f!AnswersTo(n) :
       /\ U2f!Answer(n, a)
       /\ onData' = [onData EXCEPT ![w] =
                       Append(@, [challenge |-> carried[n], code |-> a.code])]
  /\ carried' = [carried EXCEPT ![n] = Null]
  /\ UNCHANGED <<directory, viewModel, pressed, register_request, timers,
                 starting, finishing, refused, budget>>

-----------------------------------------------------------------------------
(* The answer at the server (notified).                                    *)

Incoming(w) == onData[w] # << >> /\ ~Busy(w)

NextEvent(w) == onData' = [onData EXCEPT ![w] = Tail(@)]

NotifiedOf(w) ==
  /\ NextEvent(w)
  /\ UNCHANGED <<named, code, viewModel, pressed, register_request, timers,
                 carried, library, starting, reloads>>

\* Mutant: a challenge can be answered again.
KeepsChallenge(w) ==
  /\ Incoming(w)
  /\ Head(onData[w]).code = "OK"
  /\ LET n == Head(onData[w]).challenge IN
     /\ n \in open
     /\ created' = Append(created, n)
     /\ live' = live \cup {n}
  /\ finishing' = [finishing EXCEPT ![w] = "pick"]
  /\ NotifiedOf(w)
  /\ UNCHANGED <<open, refused, faults>>

\* finishRegistration: the server enters the key of an open challenge.
RegistrationFinished(w) ==
  /\ Incoming(w)
  /\ Head(onData[w]).code = "OK"
  /\ LET n == Head(onData[w]).challenge IN
     /\ n \in open
     /\ open' = open \ {n}
     /\ created' = Append(created, n)
     /\ live' = live \cup {n}
  /\ finishing' = [finishing EXCEPT ![w] = "pick"]
  /\ NotifiedOf(w)
  /\ UNCHANGED <<refused, faults>>

\* It throws when there is no such challenge or the server fails, and the
\* event ends there: the page goes on waiting, the code stays.
RegistrationThrows(w) ==
  /\ Incoming(w)
  /\ Head(onData[w]).code = "OK"
  /\ Head(onData[w]).challenge \in open => Fault
  /\ Head(onData[w]).challenge \notin open => UNCHANGED faults
  /\ refused' = refused \cup {Head(onData[w]).challenge}
  /\ NotifiedOf(w)
  /\ UNCHANGED <<created, live, open, finishing>>

\* An error code of the browser is shown.
ErrorReported(w) ==
  /\ Incoming(w)
  /\ Head(onData[w]).code # "OK"
  /\ finishing' = [finishing EXCEPT ![w] = "clean"]
  /\ NotifiedOf(w)
  /\ UNCHANGED <<created, live, open, refused, faults>>

\* Mutant: the first key of the list is taken for the latest.
GetOldestSecurityKey(ahead) ==
  LET past == {i \in 1..(Len(created) - ahead) : created[i] \in live}
  IN IF past = {} \/ created[Min(past)] \in named THEN Null ELSE created[Min(past)]

\* The latest key, when it has no name, of those created before now by the
\* page's clock: all but the newest ones, as many as the clocks differ by.
GetLatestSecurityKey(ahead) ==
  LET past == {i \in 1..(Len(created) - ahead) : created[i] \in live}
  IN IF past = {} \/ created[Max(past)] \in named THEN Null ELSE created[Max(past)]

Offer(w, d) ==
  /\ newDevice' = [newDevice EXCEPT ![w] = d]
  /\ enrolled'  = [enrolled EXCEPT ![w] = @ \/ d # Null]
  /\ finishing' = [finishing EXCEPT ![w] = "clean"]
  /\ UNCHANGED <<directory, awaiting, editingId, devices, browser, library,
                 starting, refused, reloads>>

PickLatest(w) ==
  /\ finishing[w] = "pick"
  /\ Offer(w, GetLatestSecurityKey(0))
  /\ UNCHANGED faults

\* The dates are given by the U2F server, whose clock may be ahead.
PickSkewed(w) ==
  /\ finishing[w] = "pick"
  /\ Fault
  /\ \E ahead \in 1..MaxSkew : ahead <= Len(created) /\ Offer(w, GetLatestSecurityKey(ahead))

PickFails(w) ==
  /\ finishing[w] = "pick"
  /\ Fault
  /\ Offer(w, Null)

\* Mutant: only a page that offers a key stops waiting.
WaitsAfterError(w) ==
  /\ finishing[w] = "clean"
  /\ finishing' = [finishing EXCEPT ![w] = "no"]
  /\ awaiting'  = [awaiting EXCEPT ![w] = ~enrolled[w]]
  /\ \/ code' = Null /\ UNCHANGED faults
     \/ Fault /\ UNCHANGED code
  /\ UNCHANGED <<created, live, named, open, enrolled, newDevice, editingId,
                 devices, browser, library, starting, refused, reloads>>

\* The end of notified: the page waits no more, the code is removed (or not,
\* when the directory fails).
CleanRandEnrollmentCode(w) ==
  /\ finishing[w] = "clean"
  /\ finishing' = [finishing EXCEPT ![w] = "no"]
  /\ awaiting'  = [awaiting EXCEPT ![w] = FALSE]
  /\ \/ code' = Null /\ UNCHANGED faults
     \/ Fault /\ UNCHANGED code
  /\ UNCHANGED <<created, live, named, open, enrolled, newDevice, editingId,
                 devices, browser, library, starting, refused, reloads>>

-----------------------------------------------------------------------------
(* What the user does with the key offered.                                *)

ResetAddSettings(w) ==
  /\ enrolled'  = [enrolled EXCEPT ![w] = FALSE]
  /\ newDevice' = [newDevice EXCEPT ![w] = Blank]

AddTo(w) ==
  /\ Idle(w) /\ enrolled[w]
  /\ newDevice[w] # Null
  /\ devices' = [devices EXCEPT ![w] = @ \cup {newDevice[w]}]
  /\ ResetAddSettings(w)
  /\ UNCHANGED <<created, live, code, open, awaiting, editingId, browser, library,
                 starting, finishing, refused, reloads>>

\* Add, with a nickname typed.  Whether updateDevice found and changed an
\* entry is not looked at: the key is listed and success reported.  Without
\* newDevice nothing happens.
Add(w) ==
  /\ AddTo(w)
  /\ \E s \in Searches(newDevice[w]) : named' = named \cup s
  /\ UNCHANGED faults

AddFails(w) == AddTo(w) /\ Fault /\ UNCHANGED named

\* Mutant: the settings are reset before the key is removed.
ResetsFirst(w) ==
  /\ Idle(w) /\ enrolled[w]
  /\ \E s \in Searches(Blank) : live' = live \ s
  /\ ResetAddSettings(w)
  /\ UNCHANGED <<created, named, code, open, awaiting, editingId, devices,
                 browser, library, starting, finishing, refused, budget>>

\* Mutant: the panel of the key stays open.
StaysEnrolled(w) ==
  /\ Idle(w) /\ enrolled[w]
  /\ newDevice' = [newDevice EXCEPT ![w] = Blank]
  /\ \E s \in Searches(newDevice[w]) : live' = live \ s
  /\ UNCHANGED <<created, named, code, open, awaiting, enrolled, editingId, devices,
                 browser, library, starting, finishing, refused, budget>>

\* Cancel: the entry of the key is removed.
Cancel(w) ==
  /\ Idle(w) /\ enrolled[w]
  /\ \E s \in Searches(newDevice[w]) : live' = live \ s
  /\ ResetAddSettings(w)
  /\ UNCHANGED <<created, named, code, open, awaiting, editingId, devices,
                 browser, library, starting, finishing, refused, budget>>

\* The message of a failure is shown, and the page is reset all the same.
CancelFails(w) ==
  /\ Idle(w) /\ enrolled[w]
  /\ Fault
  /\ ResetAddSettings(w)
  /\ UNCHANGED <<directory, awaiting, editingId, devices, browser, library,
                 starting, finishing, refused, reloads>>

-----------------------------------------------------------------------------
(* Renaming a listed key.                                                  *)

\* The dialog borrows newDevice, whatever that holds.  A listed device
\* without an id does not open it.
PrepareForUpdate(w) ==
  /\ Idle(w)
  /\ \E d \in devices[w] :
       editingId' = [editingId EXCEPT ![w] = IF d = Blank THEN Null ELSE d]
  /\ newDevice' = [newDevice EXCEPT ![w] = Blank]
  /\ UNCHANGED <<directory, awaiting, enrolled, devices, browser, library,
                 starting, finishing, refused, budget>>

\* Both buttons of the dialog use newDevice: without it they do nothing, and
\* the dialog stays.
CloseDialog(w) ==
  /\ ~Busy(w) /\ editingId[w] # Null
  /\ newDevice[w] # Null
  /\ editingId' = [editingId EXCEPT ![w] = Null]
  /\ UNCHANGED <<created, live, code, open, awaiting, enrolled, newDevice, devices,
                 browser, library, starting, finishing, refused, reloads>>

CancelUpdate(w) == CloseDialog(w) /\ UNCHANGED <<named, faults>>

\* The update of the entry may fail; the dialog is closed before.  (A device
\* without an id that is listed before the edited one makes the search for it
\* throw, and nothing happens.)
Update(w) ==
  /\ CloseDialog(w)
  /\ \/ named' = named \cup Found(editingId[w]) /\ UNCHANGED faults
     \/ Fault /\ UNCHANGED named

-----------------------------------------------------------------------------
\* The page is opened again: its script and its view model start over, with
\* the keys of the user as they are now.  What was pending is gone.
Reload(w) ==
  /\ ~Busy(w)
  /\ faults + reloads < MaxTrouble
  /\ reloads'   = reloads + 1
  /\ awaiting'  = [awaiting EXCEPT ![w] = FALSE]
  /\ editingId' = [editingId EXCEPT ![w] = Null]
  /\ devices'   = [devices EXCEPT ![w] = live]
  /\ ResetAddSettings(w)
  /\ register_request' = [register_request EXCEPT ![w] = Null]
  /\ timers'  = timers \ CallsOf(w)
  /\ carried' = [n \in Calls |-> IF n \in CallsOf(w) THEN Null ELSE carried[n]]
  /\ onData'  = [onData EXCEPT ![w] = << >>]
  /\ UNCHANGED <<directory, pressed, library, starting, finishing, refused, faults>>

Init ==
  /\ created = SetToSeq(OldKeys)
  /\ live = OldKeys
  /\ named = OldKeys
  /\ code = Null
  /\ open = {}
  /\ starting = {}
  /\ finishing = [w \in Windows |-> "no"]
  /\ awaiting = [w \in Windows |-> FALSE]
  /\ enrolled = [w \in Windows |-> FALSE]
  /\ newDevice = [w \in Windows |-> Blank]
  /\ editingId = [w \in Windows |-> Null]
  /\ devices = [w \in Windows |-> OldKeys]
  /\ pressed = {}
  /\ register_request = [w \in Windows |-> Null]
  /\ timers = {}
  /\ carried = [n \in Calls |-> Null]
  /\ onData = [w \in Windows |-> << >>]
  /\ U2f!Init
  /\ refused = {}
  /\ faults = 0
  /\ reloads = 0

\* What is done without the user.
Challenge(n) == ChallengeGiven(n) \/ ChallengeRefused(n)
Notified(w)  == RegistrationFinished(w) \/ RegistrationThrows(w) \/ ErrorReported(w)
Pick(w)      == PickLatest(w) \/ PickSkewed(w) \/ PickFails(w)

\* As long as a handler, a timer or an answer is due, one of them is run; each
\* is run once, so none is put off for ever.  That a call is answered is what
\* U2fApi!AskedIsAnswered says while the browser's extension stays.
Due ==
  \/ \E n \in Calls : Challenge(n)
  \/ \E w \in Windows :
       \/ \E n \in Calls : StartRegistration(w, n) \/ SendBack(w, n)
       \/ Notified(w)
       \/ Pick(w)
       \/ CleanRandEnrollmentCode(w)

Next ==
  \/ Due
  \/ \E w \in Windows :
       \/ TriggerU2fRegisterRequest(w)
       \/ Add(w) \/ AddFails(w)
       \/ Cancel(w) \/ CancelFails(w)
       \/ PrepareForUpdate(w) \/ CancelUpdate(w) \/ Update(w)
       \/ Reload(w)

Spec == Init /\ [][Next]_vars /\ WF_vars(Due)
-----------------------------------------------------------------------------
(* Properties.                                                             *)

Position(n) == CHOOSE i \in 1..Len(created) : created[i] = n

\* The key a window offers, to be named or cancelled.
Offered(w) == IF enrolled[w] /\ newDevice[w] \in Keys THEN {newDevice[w]} ELSE {}

\* "The most suitable entry" for what was registered is found by its date
\* alone.  With clocks that agree, a window never offers a key older than one
\* of its own that exists: the key just registered, or one that another window
\* registered in between.
OfferedIsNewest ==
  faults = 0 =>
    \A w \in Windows : \A d \in Offered(w), n \in CallsOf(w) :
      /\ finishing[w] # "pick"
      /\ n \in live
      => Position(n) <= Position(d)

\* Nothing but a cancel removes an entry, and only that of a key offered in
\* a window, whatever keys were offered, listed and edited before.  After a
\* page was opened again or something failed, a cancel of a device without an
\* id may take another one: the single registration that is left.
OnlyOfferedIsRemoved ==
  [][\A n \in live \ live' :
       \/ \E w \in Windows : n \in Offered(w)
       \/ live = {n} /\ faults + reloads > 0]_vars

\* A key that is offered stays so until it gets its name or is removed.  It
\* is forgotten, with its entry left active and nameless, only when another
\* key is picked meanwhile, when a listed device is edited, when the page is
\* opened again, or when the directory fails.
Nameless == live \ named
Remembered == UNION {Offered(w) : w \in Windows}

ForgottenOnlyWhen ==
  [][\A n \in Nameless \cap Remembered :
       n \in Remembered' \/ n \notin Nameless'
       \/ \E w \in Windows : /\ n \in Offered(w)
                             /\ \/ finishing[w] = "pick"
                                \/ newDevice'[w] = Blank /\ enrolled'[w]
                                \/ reloads' > reloads
                                \/ faults' > faults]_vars

\* A registration the server refuses was disturbed: by a failure, or by
\* another press of the button that took the code of the user's entry or the
\* variable of the page.  A single registration is never refused.
RefusedOnlyWhenDisturbed ==
  refused # {} /\ faults = 0 => \E m, n \in pressed : m # n

\* A page that shows it waits comes to an end of it, unless a handler of the
\* window was refused by the server and ended before it could say so.
AwaitingEnds ==
  \A w \in Windows : awaiting[w] ~> ~awaiting[w] \/ refused \cap CallsOf(w) # {}
=============================================================================
