------------------------------ MODULE OtpPage ------------------------------
(***************************************************************************)
(* The scripts of the pages that show a QR code to be scanned (otp-util.js *)
(* and the progress bar of gluu-auth.js): the code is shown with a bar     *)
(* that counts its time, the page may poll the server meanwhile, and the   *)
(* server is told when the time is over.                                   *)
(*                                                                         *)
(* The page is single threaded; each action is one turn of its event loop. *)
(* The intervals of the bar fire at the same rate, so in rounds: each of   *)
(* them once, in any order.  The server is external: it answers the ready  *)
(* button with a code, and a poll with stopPolling once the code was       *)
(* scanned.  Codes are numbered in the order they are shown, and so are    *)
(* their intervals.                                                        *)
(***************************************************************************)
EXTENDS Naturals, FiniteSets

CONSTANTS
  Timeouts,   \* seconds a code may be shown
  Null,       \* no interval
  MaxStarts   \* bound: presses of the ready button

ASSUME OtpAssumption ==
  /\ Timeouts \subseteq Nat \ {0}
  /\ MaxStarts \in Nat
  /\ Null \notin Nat

VARIABLES
  \* gluu_auth.progress
  value, maxValue, container, timer,
  \* otp-util.js
  timerID,    \* the interval that polls
  \* the page and the browser
  codes,      \* the codes drawn in the page
  workers,    \* intervals of the bar that are running
  due,        \* those of them that have still to fire in this round
  polls,      \* intervals that poll
  \* the server
  requests,   \* presses of the ready button it has not answered
  polled,     \* a poll it has not looked at
  \* bookkeeping
  presses, starts,
  elapsed,    \* how often the interval of the last code has fired
  timeouts,   \* how often the server was told of a timeout
  overlaps,   \* starts while the bar of another code was running
  pollOverlaps \* starts of polling while another interval polled

progress == <<value, maxValue, container, timer>>
vars == <<progress, timerID, codes, workers, due, polls, requests, polled,
          presses, starts, elapsed, timeouts, overlaps, pollOverlaps>>

Ids == 1..MaxStarts

TypeOK ==
  /\ value \in Nat
  /\ maxValue \in {4 * t : t \in Timeouts} \cup {4 * 60}
  /\ value <= maxValue
  /\ container \in BOOLEAN
  /\ timer \in Ids \cup {Null}
  /\ timerID \in Ids \cup {Null}
  /\ codes \subseteq 1..starts
  /\ workers \subseteq 1..starts
  /\ due \subseteq workers
  /\ polls \subseteq 1..starts
  /\ requests \in 0..MaxStarts
  /\ polled \in BOOLEAN
  /\ {presses, starts, timeouts, overlaps, pollOverlaps} \subseteq 0..MaxStarts
  /\ elapsed \in Nat

-----------------------------------------------------------------------------
\* The ready button: the widget is kept and the server is asked for a code.
Initialize ==
  /\ presses < MaxStarts
  /\ presses' = presses + 1
  /\ requests' = requests + 1
  /\ UNCHANGED <<progress, timerID, codes, workers, due, polls, polled, starts,
                 elapsed, timeouts, overlaps, pollOverlaps>>

\* Mutant: the bar goes on from where it was.
KeepsValue(timeout) ==
  /\ value' = value
  /\ maxValue' = 4 * timeout
  /\ container' = TRUE
  /\ timer' = starts + 1
  /\ workers' = workers \cup {starts + 1}
  /\ elapsed' = 0
  /\ overlaps' = IF container THEN overlaps + 1 ELSE overlaps

\* startProgressBar: the one progress object is set up for the new code and
\* gets a new interval; one that is running is not looked at.
StartProgressBar(timeout) ==
  /\ value' = 0
  /\ maxValue' = 4 * timeout
  /\ container' = TRUE
  /\ timer' = starts + 1
  /\ workers' = workers \cup {starts + 1}
  /\ elapsed' = 0
  /\ overlaps' = IF container THEN overlaps + 1 ELSE overlaps

StartPolling ==
  /\ timerID' = starts + 1
  /\ polls' = polls \cup {starts + 1}
  /\ pollOverlaps' = IF polls # {} THEN pollOverlaps + 1 ELSE pollOverlaps

\* renderQrCode: the code is drawn beside what the page shows already.
RenderQrCode == codes' = codes \cup {starts + 1}

\* startQR
StartQR(timeout, poll) ==
  /\ requests > 0
  /\ requests' = requests - 1
  /\ starts' = starts + 1
  /\ RenderQrCode
  /\ StartProgressBar(timeout)
  /\ IF poll THEN StartPolling ELSE UNCHANGED <<timerID, polls, pollOverlaps>>
  /\ UNCHANGED <<due, polled, presses, timeouts>>

\* Mutant: the interval of the bar is cleared as well.
ClearsInterval ==
  /\ codes' = {}
  /\ workers' = workers \ {timer}
  /\ due' = due \ {timer}
  /\ UNCHANGED progress

\* clean: the codes are removed.  The "original value" it gives the bar is
\* the object the bar has been using all the time, so the bar goes on.
Clean ==
  /\ codes' = {}
  /\ UNCHANGED <<progress, workers, due>>

-----------------------------------------------------------------------------
(* The interval of a bar.                                                  *)

NextRound ==
  /\ due = {}
  /\ workers # {}
  /\ due' = workers
  /\ UNCHANGED <<progress, timerID, codes, workers, polls, requests, polled,
                 presses, starts, elapsed, timeouts, overlaps, pollOverlaps>>

Fires(i) ==
  /\ i \in due
  /\ elapsed' = IF i = starts THEN elapsed + 1 ELSE elapsed

\* Mutant: the last count is not yet the end.
CountsPast(i) ==
  /\ Fires(i)
  /\ container
  /\ value + 1 <= maxValue
  /\ value' = value + 1
  /\ due' = due \ {i}
  /\ UNCHANGED <<maxValue, container, timer, timerID, codes, workers, polls,
                 requests, polled, presses, starts, timeouts, overlaps, pollOverlaps>>

\* It counts.
WorkerCounts(i) ==
  /\ Fires(i)
  /\ container
  /\ value + 1 < maxValue
  /\ value' = value + 1
  /\ due' = due \ {i}
  /\ UNCHANGED <<maxValue, container, timer, timerID, codes, workers, polls,
                 requests, polled, presses, starts, timeouts, overlaps, pollOverlaps>>

\* callback: the server is told of the timeout, and the codes are removed.
Callback ==
  /\ timeouts' = timeouts + 1
  /\ codes' = {}

\* Mutant: the container is kept.
KeepsContainer(i) ==
  /\ Fires(i)
  /\ container
  /\ value + 1 >= maxValue
  /\ value' = value + 1
  /\ workers' = workers \ {timer}
  /\ due' = due \ {i, timer}
  /\ timer' = Null
  /\ Callback
  /\ UNCHANGED <<maxValue, container, timerID, polls, requests, polled, presses,
                 starts, overlaps, pollOverlaps>>

\* The time is over: the interval of the last code is cleared, whichever
\* fired, the server is told and the codes are removed.
WorkerExpires(i) ==
  /\ Fires(i)
  /\ container
  /\ value + 1 >= maxValue
  /\ value' = value + 1
  /\ workers' = workers \ {timer}
  /\ due' = due \ {i, timer}
  /\ timer' = Null
  /\ container' = FALSE
  /\ Callback
  /\ UNCHANGED <<maxValue, timerID, polls, requests, polled, presses, starts,
                 overlaps, pollOverlaps>>

\* An interval that outlived its bar has no container, and throws.
WorkerThrows(i) ==
  /\ Fires(i)
  /\ ~container
  /\ due' = due \ {i}
  /\ UNCHANGED <<progress, timerID, codes, workers, polls, requests, polled,
                 presses, starts, timeouts, overlaps, pollOverlaps>>

-----------------------------------------------------------------------------
(* Polling.                                                                *)

\* tellServer("poll")
Poll(i) ==
  /\ i \in polls
  /\ polled' = TRUE
  /\ UNCHANGED <<progress, timerID, codes, workers, due, polls, requests, presses,
                 starts, elapsed, timeouts, overlaps, pollOverlaps>>

NotScanned ==
  /\ polled
  /\ polled' = FALSE
  /\ UNCHANGED <<progress, timerID, codes, workers, due, polls, requests, presses,
                 starts, elapsed, timeouts, overlaps, pollOverlaps>>

\* Mutant: the interval is not cleared.
OnlyCleans ==
  /\ polled
  /\ polled' = FALSE
  /\ Clean
  /\ UNCHANGED <<timerID, polls, requests, presses, starts, elapsed, timeouts,
                 overlaps, pollOverlaps>>

\* The server has found the device and ends polling.
StopPolling ==
  /\ polled
  /\ polled' = FALSE
  /\ polls' = polls \ {timerID}
  /\ Clean
  /\ UNCHANGED <<timerID, requests, presses, starts, elapsed, timeouts,
                 overlaps, pollOverlaps>>

-----------------------------------------------------------------------------
Init ==
  /\ value = 0
  /\ maxValue = 4 * 60
  /\ container = FALSE
  /\ timer = Null
  /\ timerID = Null
  /\ codes = {}
  /\ workers = {}
  /\ due = {}
  /\ polls = {}
  /\ requests = 0
  /\ polled = FALSE
  /\ presses = 0
  /\ starts = 0
  /\ elapsed = 0
  /\ timeouts = 0
  /\ overlaps = 0
  /\ pollOverlaps = 0

Worker(i) == WorkerCounts(i) \/ WorkerExpires(i) \/ WorkerThrows(i)

Next ==
  \/ Initialize
  \/ \E t \in Timeouts, p \in BOOLEAN : StartQR(t, p)
  \/ NextRound
  \/ \E i \in Ids : Worker(i)
  \/ \E i \in Ids : Poll(i)
  \/ NotScanned
  \/ StopPolling

\* The browser runs its intervals.  Nothing else need happen.
Spec == Init /\ [][Next]_vars /\ WF_vars(NextRound) /\ WF_vars(\E i \in Ids : Worker(i))

-----------------------------------------------------------------------------
(* Properties.                                                             *)

\* A code is shown as long as its timeout says: the bar has counted what the
\* interval of the code has fired.  Every start over a running bar, be the
\* code of that scanned already, leaves an interval behind that nothing can
\* clear, and for all later codes of the page the time runs that much faster,
\* never more.
TimeIsCounted ==
  /\ Cardinality(workers \ {timer}) <= overlaps
  /\ container => /\ timer = starts /\ timer \in workers
                  /\ value >= elapsed
                  /\ value <= elapsed + overlaps * (elapsed + 2)
                  /\ overlaps = 0 => value = elapsed

\* The server is told of one timeout for each code, be it scanned or not,
\* except for those whose bar a later code took over; and what is drawn goes
\* with the bar that is running.
OneTimeoutEach ==
  /\ timeouts + overlaps + (IF container THEN 1 ELSE 0) = starts
  /\ codes # {} => container

\* stopPolling stops all polling, but for intervals that were still running
\* when polling was started again: a timeout does not stop them, and only the
\* last one is known.
StopPollingStops == [][StopPolling => Cardinality(polls') <= pollOverlaps]_vars

\* Every code goes away, and so does every bar.
CodesGo == (codes # {} ~> codes = {}) /\ (container ~> ~container)
=============================================================================
