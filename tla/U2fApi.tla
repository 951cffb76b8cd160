------------------------------- MODULE U2fApi -------------------------------
(***************************************************************************)
(* The U2F library of the registration page (scripts/u2f-api.js): how it   *)
(* obtains the one message port to the browser's U2F extension, what it    *)
(* does with the calls made before there is a port, and how it matches the *)
(* answers of the extension with the callbacks of the calls.               *)
(*                                                                         *)
(* The script is single threaded: each action is one turn of the browser's *)
(* event loop (a call of the page, the callback of chrome.runtime, a timer,*)
(* the events of the iframe, a message on the port).  The extension is     *)
(* external: it answers the requests in any order, may repeat an answer or *)
(* send one without an id, and may be disabled or updated at any time.     *)
(***************************************************************************)
EXTENDS Naturals, Sequences

CONSTANTS
  Calls,      \* the calls of u2f.register and u2f.sign, each made once
  SignCalls,  \* those of u2f.sign
  Codes,      \* u2f.ErrorCodes the extension uses
  NoCall,     \* what an id without a callback yields (undefined)
  MaxStray    \* bound: answers the extension repeats or sends without an id

ASSUME CallsAssumption ==
  /\ SignCalls \subseteq Calls
  /\ NoCall \notin Calls
  /\ MaxStray \in Nat

VARIABLES
  port,        \* u2f.port_, NoPort while it is null
  acquiring,   \* how far getMessagePort is
  waiting,     \* u2f.waitingForPort_
  reqCounter,  \* u2f.reqCounter_
  callbackMap, \* u2f.callbackMap_, for the ids given so far
  got,         \* got[c]: the data the callback of c has been run with
  browser,     \* what the browser grants the origin of the page
  extension,   \* "up", or "gone" once it is missing
  requests,    \* requests the extension has received and not answered
  answered,    \* the answers the extension has given
  inbox,       \* messages of the extension on their way to the page
  strays       \* how many of them were repeated or had no id

api  == <<port, acquiring, waiting, reqCounter, callbackMap, got>>
ext  == <<browser, extension, requests, answered, inbox, strays>>
vars == <<port, acquiring, waiting, reqCounter, callbackMap, got,
          browser, extension, requests, answered, inbox, strays>>

NoPort == "null"
Ports  == {"chrome", "iframe"}

\* No attempt; the probe was sent; a port was opened; the iframe is loading;
\* the iframe has its end of the channel.
Stages == {"none", "probe", "connect", "load", "init"}

MessageTypes == {"u2f_register_request", "u2f_sign_request"}

Answers  == [to : Calls, code : Codes]
Request  == [type : MessageTypes, requestId : Nat, call : Calls]
Response == [requestId : Nat, responseData : Answers]

TypeOK ==
  /\ port \in Ports \cup {NoPort}
  /\ acquiring \in Stages
  /\ waiting \in Seq(Calls)
  /\ reqCounter \in Nat
  /\ callbackMap \in [1..reqCounter -> Calls \cup {NoCall}]
  /\ got \in [Calls -> Seq(Answers)]
  /\ browser \in {"allowed", "denied", "none"}
  /\ extension \in {"up", "gone"}
  /\ requests \subseteq Request
  /\ answered \subseteq Response
  /\ inbox \in Seq(Response)
  /\ strays \in 0..MaxStray

-----------------------------------------------------------------------------
(* Posting requests.                                                       *)

\* Mutant: the counter is moved once for a whole queue.
CountsOnce(s) ==
  /\ reqCounter' = reqCounter + 1
  /\ callbackMap' = [i \in 1..(reqCounter + Len(s)) |->
                       IF i <= reqCounter THEN callbackMap[i] ELSE s[i - reqCounter]]

\* Opening a request of the calls of s in their order: each gets the next id
\* and its callback is entered under it.
EnterCallbacks(s) ==
  /\ reqCounter' = reqCounter + Len(s)
  /\ callbackMap' = [i \in 1..(reqCounter + Len(s)) |->
                       IF i <= reqCounter THEN callbackMap[i]
                       ELSE s[i - reqCounter]]

\* Mutant: the message carries the counter as it was before.
PostIncrement(c, id) ==
  [type |-> IF c \in SignCalls THEN "u2f_sign_request" ELSE "u2f_register_request",
   requestId |-> id - 1, call |-> c]

RequestOf(c, id) ==
  [type |-> IF c \in SignCalls THEN "u2f_sign_request" ELSE "u2f_register_request",
   requestId |-> id, call |-> c]

\* The messages reach the extension as long as it is there.
PostMessages(s) ==
  requests' = IF extension = "up"
              THEN requests \cup {RequestOf(s[k], reqCounter + k) : k \in 1..Len(s)}
              ELSE requests

\* postMessage on a port of chrome.runtime whose other end is gone throws; on
\* the port of a channel the message is lost silently.
PostThrows(p) == p = "chrome" /\ extension = "gone"

-----------------------------------------------------------------------------
(* Obtaining the port.                                                     *)

\* chrome.runtime is probed with an empty sign request; without it an iframe
\* of the extension is loaded.
GetMessagePort ==
  acquiring' = IF browser = "none" THEN "load" ELSE "probe"

\* The probe was answered: without lastError a port is opened, otherwise the
\* iframe is tried.
ProbeReplied ==
  /\ acquiring = "probe"
  /\ acquiring' = IF browser = "allowed" /\ extension = "up" THEN "connect" ELSE "load"
  /\ UNCHANGED <<port, waiting, reqCounter, callbackMap, got, ext>>

\* The iframe is loaded and is sent "init" and its end of the channel.
IframeLoaded ==
  /\ acquiring = "load"
  /\ acquiring' = "init"
  /\ UNCHANGED <<port, waiting, reqCounter, callbackMap, got, ext>>

\* Mutant: the callbacks are run and stay in the queue.
KeepsWaiting(p) ==
  /\ port' = p
  /\ acquiring' = "none"
  /\ EnterCallbacks(waiting)
  /\ PostMessages(waiting)
  /\ UNCHANGED <<waiting, got, browser, extension, answered, inbox, strays>>

\* Mutant: an "if" for the "while" of the loop.
ServesOne(p) ==
  /\ port' = p
  /\ acquiring' = "none"
  /\ EnterCallbacks(SubSeq(waiting, 1, 1))
  /\ PostMessages(SubSeq(waiting, 1, 1))
  /\ waiting' = Tail(waiting)
  /\ UNCHANGED <<got, browser, extension, answered, inbox, strays>>

\* The callback of getPortSingleton_ for a new port p: it is kept, gets its
\* listener, and every waiting call is opened on it.  A post that throws
\* leaves the loop after the first.
PortObtained(p) ==
  /\ port' = p
  /\ acquiring' = "none"
  /\ LET served == IF PostThrows(p) THEN SubSeq(waiting, 1, 1) ELSE waiting
     IN /\ EnterCallbacks(served)
        /\ PostMessages(served)
  /\ waiting' = IF PostThrows(p) THEN Tail(waiting) ELSE << >>
  /\ UNCHANGED <<got, browser, extension, answered, inbox, strays>>

\* The timer of getChromeRuntimePort_.
ChromePortReady == acquiring = "connect" /\ PortObtained("chrome")

\* The iframe says "ready"; any other first message is only logged.
IframeReady ==
  /\ acquiring = "init"
  /\ extension = "up"
  /\ PortObtained("iframe")

-----------------------------------------------------------------------------
(* The calls of the page.                                                  *)

\* The calls the library knows of.
Asked ==
  {c \in Calls : \/ \E k \in 1..Len(waiting) : waiting[k] = c
                 \/ \E i \in 1..reqCounter : callbackMap[i] = c
                 \/ got[c] # << >>}

\* With a port the request is opened at once.
CallWithPort(c) ==
  /\ c \notin Asked
  /\ port # NoPort
  /\ EnterCallbacks(<<c>>)
  /\ PostMessages(<<c>>)
  /\ UNCHANGED <<port, acquiring, waiting, got, browser, extension, answered,
                 inbox, strays>>

\* Mutant: the call is queued before the length of the queue is looked at.
PushesFirst(c) ==
  /\ c \notin Asked
  /\ port = NoPort
  /\ waiting' = Append(waiting, c)
  /\ IF waiting' = << >> THEN GetMessagePort ELSE UNCHANGED acquiring
  /\ UNCHANGED <<port, reqCounter, callbackMap, got, ext>>

\* Without one the call waits, and the first to wait starts obtaining it.
CallWithoutPort(c) ==
  /\ c \notin Asked
  /\ port = NoPort
  /\ IF waiting = << >> THEN GetMessagePort ELSE UNCHANGED acquiring
  /\ waiting' = Append(waiting, c)
  /\ UNCHANGED <<port, reqCounter, callbackMap, got, ext>>

GetPortSingleton(c) == CallWithPort(c) \/ CallWithoutPort(c)

\* The two differ in the type of the request only.
Register(c) == c \notin SignCalls /\ GetPortSingleton(c)
Sign(c)     == c \in SignCalls /\ GetPortSingleton(c)

-----------------------------------------------------------------------------
(* The answers.                                                            *)

\* Mutant: the callback is run and not removed.
KeepsCallback ==
  /\ port # NoPort
  /\ inbox # << >>
  /\ LET id == Head(inbox).requestId IN
     /\ id \in 1..reqCounter
     /\ callbackMap[id] # NoCall
     /\ got' = [got EXCEPT ![callbackMap[id]] = Append(@, Head(inbox).responseData)]
  /\ inbox' = Tail(inbox)
  /\ UNCHANGED <<port, acquiring, waiting, reqCounter, callbackMap, browser,
                 extension, requests, answered, strays>>

\* An answer whose id has a callback: the callback is removed, then run.
ResponseHandled ==
  /\ port # NoPort
  /\ inbox # << >>
  /\ LET id == Head(inbox).requestId IN
     /\ id \in 1..reqCounter
     /\ callbackMap[id] # NoCall
     /\ callbackMap' = [callbackMap EXCEPT ![id] = NoCall]
     /\ got' = [got EXCEPT ![callbackMap[id]] = Append(@, Head(inbox).responseData)]
  /\ inbox' = Tail(inbox)
  /\ UNCHANGED <<port, acquiring, waiting, reqCounter, browser, extension,
                 requests, answered, strays>>

\* An answer with an unknown or missing id is logged and dropped.
ResponseDropped ==
  /\ port # NoPort
  /\ inbox # << >>
  /\ LET id == Head(inbox).requestId
     IN id \in 1..reqCounter => callbackMap[id] = NoCall
  /\ inbox' = Tail(inbox)
  /\ UNCHANGED <<api, browser, extension, requests, answered, strays>>

-----------------------------------------------------------------------------
(* The extension.                                                          *)

ResponseTo(m, code) ==
  [requestId |-> m.requestId, responseData |-> [to |-> m.call, code |-> code]]

\* The user touched a key, or the request's timeoutSeconds are over.
ExtensionAnswers ==
  /\ extension = "up"
  /\ \E m \in requests, code \in Codes :
       /\ requests' = requests \ {m}
       /\ answered' = answered \cup {ResponseTo(m, code)}
       /\ inbox' = Append(inbox, ResponseTo(m, code))
  /\ UNCHANGED <<api, browser, extension, strays>>

\* An answer is sent again, or without its id.
ExtensionStrays ==
  /\ extension = "up"
  /\ strays < MaxStray
  /\ strays' = strays + 1
  /\ \E r \in answered : \E id \in {0, r.requestId} :
       inbox' = Append(inbox, [requestId |-> id, responseData |-> r.responseData])
  /\ UNCHANGED <<api, browser, extension, requests, answered>>

\* The extension is disabled, updated or crashes: it forgets what it was asked.
ExtensionStops ==
  /\ extension = "up"
  /\ extension' = "gone"
  /\ requests' = {}
  /\ UNCHANGED <<api, browser, answered, inbox, strays>>

-----------------------------------------------------------------------------
Init ==
  /\ port = NoPort
  /\ acquiring = "none"
  /\ waiting = << >>
  /\ reqCounter = 0
  /\ callbackMap = << >>
  /\ got = [c \in Calls |-> << >>]
  /\ browser \in {"allowed", "denied", "none"}
  /\ extension \in {"up", "gone"}
  /\ requests = {}
  /\ answered = {}
  /\ inbox = << >>
  /\ strays = 0

Next ==
  \/ \E c \in Calls : Register(c)
  \/ \E c \in Calls : Sign(c)
  \/ ProbeReplied
  \/ ChromePortReady
  \/ IframeLoaded
  \/ IframeReady
  \/ ResponseHandled
  \/ ResponseDropped
  \/ ExtensionAnswers
  \/ ExtensionStrays
  \/ ExtensionStops

\* The event loop runs what is queued, and an extension that is there answers:
\* it applies the timeoutSeconds of every request itself.  The page need not
\* call, and the extension need not stop or stray.
Fairness ==
  /\ WF_vars(ProbeReplied)
  /\ WF_vars(ChromePortReady)
  /\ WF_vars(IframeLoaded)
  /\ WF_vars(IframeReady)
  /\ WF_vars(ResponseHandled)
  /\ WF_vars(ResponseDropped)
  /\ WF_vars(ExtensionAnswers)

Spec == Init /\ [][Next]_vars /\ Fairness

-----------------------------------------------------------------------------
(* Properties.                                                             *)

\* A call is in one place: it waits for the port once, or its callback is
\* under one id, or its callback has been run.  So no callback is lost by
\* being entered over another, and none is left behind to run again.
OnePlace ==
  /\ \A k, l \in 1..Len(waiting) : waiting[k] = waiting[l] => k = l
  /\ \A i, j \in 1..reqCounter :
       callbackMap[i] = callbackMap[j] /\ callbackMap[i] # NoCall => i = j
  /\ \A k \in 1..Len(waiting) :
       /\ got[waiting[k]] = << >>
       /\ \A i \in 1..reqCounter : callbackMap[i] # waiting[k]
  /\ \A i \in 1..reqCounter : callbackMap[i] # NoCall => got[callbackMap[i]] = << >>

\* Whatever the extension still owes, has sent or repeats, its id leads to the
\* callback of the call it is for, or to none: an answer is never handed to
\* another call, in whatever order the answers come.
MatchesRequest(id, c) == id \in 1..reqCounter /\ callbackMap[id] \in {c, NoCall}

AnswersFindTheirCall ==
  /\ \A m \in requests :
       m.requestId \in 1..reqCounter /\ callbackMap[m.requestId] = m.call
  /\ \A r \in answered : MatchesRequest(r.requestId, r.responseData.to)
  /\ \A k \in 1..Len(inbox) :
       inbox[k].requestId # 0 => MatchesRequest(inbox[k].requestId, inbox[k].responseData.to)

\* A call waits only while a port is being obtained, the length of the queue
\* being the only sign the code has that an attempt is under way; the one
\* exception is an extension that goes while chrome's port is handed over.
WaitingIsServed ==
  waiting # << >> => acquiring # "none" \/ PostThrows(port)

\* The library implements the promise of U2fCalls: a call is known once it
\* waits, has its callback entered or was answered.
Promise == INSTANCE U2fCalls WITH asked <- Asked, got <- got

ImplementsCalls == Promise!Spec

\* A call made is answered unless the extension goes: neither a call made
\* before there was a port nor one whose answer overtook another's is
\* forgotten.  (The library sets no timer of its own.)
AskedIsAnswered ==
  \A c \in Calls : c \in Asked ~> (got[c] # << >> \/ extension = "gone")
=============================================================================
