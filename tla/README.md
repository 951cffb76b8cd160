# A TLA+ model of cred-manager

cred-manager is a web application in which the users of a Gluu server manage the
credentials of their second factor (security keys, Super Gluu, OTP devices,
phones) and in which administrators decide which methods are offered and by
which plugins. Java code under `src/app/src/main/java/org/gluu/credmanager`
keeps most of the state this project models; short names below are relative to
it. The rest is kept by scripts in the browser, under
`src/app/src/main/webapp/scripts`.

The modules are written to be checked by TLC on small instances and proved about
with TLAPS for every instance. `PROJECT.json` lists components, runs, mutants
(plausible bugs that the properties must catch), the source lines every
definition stands for, findings, hazards and theorems.

## 1. Inventory

| component | state it keeps | operations | what is hard | what makes it correct |
|---|---|---|---|---|
| Plugin administration: `ui/vm/admin/PluginViewModel`, `core/ExtensionsManager`, `core/RSRegistryHandler`, `core/ZKService` | pf4j's plugins and their states; `plugExtensionMap`; bound REST classes and labels; jar files; `knownPlugins`; the list of each page | upload, add, cancel, start, stop, delete; scan and purge at startup | pages with old lists, two admins, saves that fail after the framework acted, restarts in between | a mapped method has a running plugin; registrations follow the state; no entry without its jar |
| Authentication methods: `ui/vm/admin/AuthnMethodsViewModel`, `core/ConfigurationHandler` | `acrPluginMap`; the statuses on a page | check, uncheck, save; revision at startup | the page's mapping is old when saved; exceptions out of lookups | mapping and running plugins agree |
| Settings: `conf/MainSettings`, `conf/MainSettingsProducer`, `ui/vm/admin/MainViewModel` | one object in memory, one JSON file | load, change, save | memory changes before the save; the file is written in place | memory and file agree unless a failure was reported |
| Startup: `core/ConfigurationHandler`, `core/TimerService`, `core/init/ZKInitializer` | `appState`, `serverAcrs`, the timer | init, one firing of the job | retries, overlapping firings, a set shared while it is filled | one outcome, for the right reason; no attempt is wasted; users come after the plugins |
| Enrollment of phones and OTP devices: `plugins/authnmethod/rs/*EnrollingWS`, `misc/ExpirationMap`, `service/MobilePhoneService`, `service/OTPService` | codes that expire; the user's lists in the directory | send, validate, finish | a code used twice, expiry between check and use, cleaning that races with puts, read-modify-write | one code enrols one device; codes die; no enrolment is lost |
| U2F browser library: `scripts/u2f-api.js` | the port, the calls that wait for it, the request counter, the table of callbacks | register, sign, obtaining the port, handling an answer | calls before there is a port, answers in any order, an extension that vanishes | each call's callback runs once at most, with its own answer |
| Security keys and Super Gluu: `ui/vm/user/SecurityKeyViewModel`, `service/U2fService`, `FidoService`, `scripts/u2f-util.js` | a dialogue per page, entries in the directory | request, browser's answer, add, cancel, rename | late answers, two windows, guessing the new entry | the key that is named or cancelled is the one just registered |
| QR code pages: `scripts/otp-util.js`, `scripts/gluu-auth.js` | the progress bar, two intervals | show a code, count, time out, poll, stop polling | a code over another, intervals nobody can clear | the time of a code is counted, its timeout told once |
| Preferences, policies and trusted devices: `core/UserService`, `UserPreferenceViewModel`, `PolicyViewModel`, `PreferenceResetViewModel`, `service/LdapService` | a user's entry, and what each session has read of it | choose, reset, delete a device | several writers of one entry, lost answers | a page shows what is stored; no device is lost |
| Other settings pages: LDAP, oxd, strong authentication, password reset, log level | live services and settings | test, apply, revert, save | several steps, one fails | service and settings agree |
| Interception scripts: `src/assets/*.py` | the working parameters of a login | prepare, authenticate, count steps | steps out of order, missing credentials | no login without the second factor the policy demands |
| OpenID client, branding, resources and labels, class loading patches, reloading of scripts, sweeper of trusted devices | little or none | I/O | | not modelled, see section 7 |

How they interact: `MainSettingsProducer` reads the file and hands one
`MainSettings` to everybody. `ConfigurationHandler` waits for the server,
calls `ExtensionsManager.scan`, revises the mapping and turns the state to
OPERATING, upon which pages are served and the sweeper is scheduled. Each
administration page holds a copy of what it showed when it was opened; its
commands act on the framework first, on the settings next and on the file last.
User pages and services meet in the directory, each of them reading an entry,
changing it and writing it back. A page that registers a security key asks the
U2F server for a challenge and hands it to `u2f-util.js`, which calls the U2F
library; the library's answer returns to the page as an event.

## 2. Modules

| module | content |
|---|---|
| `PluginAdmin` | plugins, method mapping, settings object and file, pages, crashes and restarts |
| `Startup` | the startup job, its firings and the answers of the server |
| `Enrollment` | enrolling phones: requests in parallel, codes that expire, the cleaning of their map, the user's entry; it implements `VerifiedPhones` |
| `VerifiedPhones` | abstract: what may happen to the phones of the users |
| `U2fCalls` | abstract: what the U2F library promises to those who call it |
| `U2fApi` | the U2F library, which implements `U2fCalls` |
| `SecurityKeys` | registering security keys, composed of the pages, the server, the directory and the library as `U2fCalls` has it |
| `OtpPage` | the pages that show a QR code, with progress bar and polling |
| `UserEntry` | the entry of a user and all who write its preference, policies and trusted devices |
| `MC...` | instances of these for TLC |
| `..._Proofs` | inductive invariants and theorems |

### PluginAdmin

State follows the code's three copies of the truth.

* Framework: `pstate` and `pjar` are what pf4j knows of a plugin id (its state
  and the jar it was loaded from); `extMap` is `plugExtensionMap` without its
  null key (the system extensions, a constant); `registered` is the record of
  `RSRegistryHandler` and of the labels per plugin id, `endpoints` what RestEasy
  has bound. The latter two differ because a record can be overwritten.
* Settings: `known` and `acrMap` are the fields of `MainSettings`, `savedKnown`
  and `savedAcrMap` the file, `fileOk` whether it parses, `saveFailed` whether
  the admin was told (or, at startup, the log) that the last save failed.
* Pages: `page`, `rows` (what the grid shows, a row that is "gone" included: the
  browser keeps it when a deletion throws after it has taken the plugin from the
  list), `pending` (the uploaded plugin that waits for "add" or "cancel") and
  `methods`, per admin.

One action is one command of a page, one firing of the startup job, or a
restart. Commands of one page never overlap (the user interface library
serializes the events of a desktop), and those of different pages do in any
order; a command is one step because each one's calls are local and
the hazards lie in what pages remember from one command to the next.
`UpdateMainSettings` is the assignment and the save together: it succeeds, fails
leaving the file alone, or fails having truncated it. `Restart` may come after
any step: a crash in the middle of a save is a save that truncated the file and
then the restart. What is nondeterministic in the model because the code leaves
it open: which known plugins load and start, whether a save succeeds, whether
`findAny` picks one of two entries or another, whether users prefer a method
(`zeroPreferences`), and whether the framework accepts a second jar of a loaded
id (`DuplicateIdsLoad`; the runs allow it, which is the wider behaviour).

Exceptions are part of it: `ExtensionListThrows`, `MethodListThrows`,
`SaveThrows` and `LookupThrows` say when the code throws, and the actions what it
has done by then.

### Startup

`fired` counts the timer, `pc` is where each firing is in
`jobToBeExecuted`, `values` and `todo` what the server answered to it and what
of that it has not added to `serverAcrs` yet. `Fetch` publishes the empty set and
`Fill` adds one acr at a time, as `retrieveAcrs` does. `slow` is chosen at the
beginning and says whether answers may take longer than the interval of the
timer; then firings overlap, since nothing forbids concurrent execution. The
loading of plugins and the revision of the mapping are one step here, which
`PluginAdmin` details (it starts from the firing that got a complete answer). That
`PluginAdmin` may take the loading for one step that happens once is the theorem
`PluginsLoadOnce` about `Startup`, for answers that arrive within the interval.

### VerifiedPhones and Enrollment

`VerifiedPhones` knows the phones of each user, the numbers that were sent a code,
and the users whose enrolments overlap: a user gains one phone at a time, to which
a code for this user was sent, and loses none; only while enrolments of the user
overlap (or after a failed read) may the phones be replaced, and then by verified
ones. It knows neither codes nor times nor requests. `ImplementsVerifiedPhones` is
its specification over the variables of `Enrollment` of the same names.


`codes` is the map of `ExpirationMap`, keyed by user and code, with the number and
the time it was put; `lastCleaning` its field; `phones` the attribute "mobile" of
each user's entry. `req` says what each request is doing and holds its local
variables, so that a request is a record whose `pc` names its phase:

* `SendCode` (the check, and the message), `Put`, `ReduceMap` (the check whether to
  clean), `StartCleaning`, `NextKey` and `LookAtKey` (one turn of the loop: the
  iterator meets a key, `map.get` looks at it, and throws when it is gone),
  `EndScan`, `Drop` (one removal);
* `FinishEnrollment` (the lookup), `GetVerifiedPhones`, `UpdateMobilePhonesAdd`,
  `RemoveCode`.

Every access to the map or to the directory is a step of its own; two exceptions
are the two searches of `SendCode`, which only read, and the read of the entry
right before its modification, whose result is only compared with what is
written. Requests that end without a change (missing parameters, NO_MATCH,
EXPIRED, `validateCode`, a message that is not sent) are no steps. The iterator of
a ConcurrentHashMap meets every key that is there from the beginning to the end
and perhaps later ones: `EndScan` needs only the expired ones to have been met,
since meeting others leaves no trace. A modification may fail, or be applied
while its answer is lost. A number with and without punctuation are two numbers,
related by `Bare`. The history variables `issued`, `served` (the requests that enrolled
by a code, with success, since it was sent) and `disturbed` serve properties only
and guard nothing.

### U2fCalls and U2fApi

`U2fCalls` knows only which calls were made and which answers their callbacks were
run with: a call is made once, its callback runs once at most, with an answer to
the request of this call. `U2fApi` is the library as written: `port`, `waiting`,
`reqCounter` and `callbackMap` are its variables, `acquiring` how far
`getMessagePort` is (in a browser with `chrome.runtime`, allowed for the page or
not, or in one without). One action is one turn of the browser's event loop.
`PortObtained` runs the whole queue of calls in one turn, as the loop in
`getPortSingleton_` does, and stops at the first one when posting throws because
chrome's extension has gone (`PostThrows`). A call is represented by itself, its
callback included. The extension answers in any order, may repeat an answer or
send one without an id (`ExtensionStrays`), and may vanish (`ExtensionStops`).

`ImplementsCalls` is `U2fCalls`' specification with `asked` replaced by the calls
that wait, are entered or were answered, and `got` by `got`.

### SecurityKeys

Call `n` is the n-th press of the ready button and stands for its challenge and for
the key it registers. The presses of a window are handled at its server side one
event at a time; those of different windows interleave, so a handler is split
where it calls the directory or the U2F server: `TriggerU2fRegisterRequest` (the
code enters the user's entry) and `ChallengeGiven` or `ChallengeRefused` (the
server compares the code there is now; the write of the code may fail, and the call
goes on without it); `RegistrationFinished`,
`RegistrationThrows` or `ErrorReported`, then `PickLatest`, `PickSkewed` or
`PickFails`, then `CleanRandEnrollmentCode`. In the browser a press keeps its
request in one variable of the page, `register_request`, and a timer reads it
(`StartRegistration`), which asks `U2fCalls`; `SendBack` is the callback.
`created` orders keys by their dates; `PickSkewed` is a page whose clock is behind
the U2F server's. `Blank` is a `SecurityKey` without an id, which the fields of the
page hold between uses: what a search without an id finds is left open
(`Searches`), as it depends on the directory library. `Reload` opens a page again.

### OtpPage

Codes are numbered in the order they are shown, and so are the intervals of the
progress bar and of the polls. `workers` and `polls` are the intervals that run,
`timer` and `timerID` the ones the scripts remember, which is why others can be
left behind. The intervals of the bar fire at the same rate, so they fire in
rounds (`due`). `StartQR` is the server's answer to the ready button; `Clean`,
`Callback`, `StopPolling` follow the script, the progress object that `clean`
"resets" to itself included. `Poll` and `NotScanned` are the poll and the server's
answer to it.

### UserEntry

`pref`, `policy` and `trusted` are the entry; each session has its user object
(`preferredMethod`), the page it is at, and that page's fields, named as in the view
models. A write is two steps, `Get` (the entry is read and one attribute set) and
`ModifyDone` or `ModifyFails`; anybody may write in between. `LdapService.modify`
sends an attribute when it differs from what was read and reports failure when
nothing does (`differs`); a write may also be made and its answer lost. Writing
trusted devices replaces the whole attribute. Reads fail too: `get2FAPolicyData`
catches the exception (`UserService.java:207`), so that the page shows every login and
no devices, and pressing update then writes that; a search that fails finds
nobody. `encrypted` says whether the server has a key; with one,
`get2FAPolicyData` decodes with the encrypting operation and shows no devices
(`UserService.java:199`), although the page announces a list of the devices used to
login (`user.properties:32`). The model has this as it is, and no property claims
that such a list is right. `current` and `changed` are bookkeeping that guards
nothing: what a session has read or written with nobody writing since, and which
devices came or went since it read their list. A session has one request at a
time, as it has one tab. Which methods a user may choose is abstracted to all.

## 3. Runs

| run | question | result |
|---|---|---|
| `plugin_admin` | can two admins with old pages, failing saves and restarts break the agreement of mapping, framework, files and settings? | no (115,565 states) |
| `plugin_admin_single` | is what stops recorded as stopped, and does startup end? | yes, with the exceptions the properties name (127,117 states) |
| `plugin_admin_unhandled` | does startup remove an acr that nobody handles, as it logs? | no, it throws |
| `plugin_admin_ids` | are plugin ids unique in the settings, as the upload's message says? | no |
| `startup` | does startup decide, once, for the right reason, and not too early? | yes (147,504 states) |
| `startup_slow` | is an acr that is reported as missing really missing when answers are late? | no |
| `enrollment` | can requests in parallel, cleanings and failures enrol a wrong number, use a code twice, lose one, or lose phones? | only as the properties except (1,670,710 states) |
| `u2f_api` | does the library forget, repeat or mix up calls, and does it implement `U2fCalls`? | only what goes with the extension is lost (83,190 states) |
| `security_keys` | which key does a window offer, name and remove when presses, answers and windows interleave? | the newest one; exceptions as the properties say (411,281 states) |
| `otp_page` | how fast does the time of a code run, and how often is its end told? | right unless codes were shown over one another (11,406 states) |
| `user_entry` | do pages show what the entry holds, failed reads included, and what can a deletion cost? | what was read or written and nobody changed since is shown; only devices that came or went since the list was read (1,455,445 states) |
| `enrollment_send` | are codes sent only to numbers that nobody has enrolled, as the answer's documentation says? | no |

Properties of the passing runs:

* `MappedPluginServes`: a mapped method has a running plugin with an extension.
  It is not what `stopPlugin` checks: that check reads the mapping when the
  button is pressed, and the rest depends on what pages listed earlier, on which
  rows have a delete button, and on the methods page not opening while a plugin
  runs.
* `RegistrationFollowsState`, `ListedJarsExist`, `SavedUnlessFailed`: framework
  against registrations, settings against directory, memory against file.
* `StopsAreRecorded`: a plugin that ceases to run is not recorded as started.
  For one page: with two pages, one admin can delete the entry in between, and
  for ids with one entry: with two, the code changes any of them.
* `StartupEnds`: startup is over some time after the acrs are known, unless a
  method is mapped to a plugin without registered extensions.
* `OutcomeIsFinal`, `NoScanWhileOperating`, `MissingAcrIsMissingUnlessSlow`:
  for answers that arrive within the interval; late answers refute them, and the
  run `startup_slow` shows the case a log message contradicts.
* `AttemptsAreUsed`, `StartupDecides`, `SweeperIsScheduled`: late answers or not.
* `VerifiedNumbersOnly`: every phone of a user was there to begin with or was sent
  a code for this user, also when stale lists of phones are written back.
* `CodesServeOverlappingRequests`: a code sent once serves, as users are told, only
  requests that found it before the first of them removed it. The lookup and the
  removal are apart (`MobilePhoneEnrollingWS.java:156`), so two requests that
  overlap do enrol by one code; no third one comes later. An enrolment that is
  answered as failed does not count: if only its answer was lost the phone is
  there and the code still works.
* `FreshCodesStay`: a code goes before its time only when used, or when the same
  code is sent to the same user during a cleaning that found the expired one.
* `CleaningIsComplete`: a cleaning that does not throw removes all that had expired.
* `ImplementsVerifiedPhones`: all that happens to the phones of users is what
  `VerifiedPhones` allows. What it excepts is real: two enrolments of a user at a
  time, and a failed read, which counts as an empty list that is then written
  (`MobilePhoneService.java:179`).
* `OnePlace`, `AnswersFindTheirCall`, `ImplementsCalls`: a call is in one place, an
  answer leads to its own call or to none, and so the library keeps its promise.
* `WaitingIsServed`, `AskedIsAnswered`: no call waits for a port nobody obtains,
  and each is answered, unless the extension goes.
* `OfferedIsNewest`: with clocks that agree a window never offers a key older than
  one of its own; it may well be another window's.
* `OnlyOfferedIsRemoved`: a cancel removes a key that is offered, however the
  fields of the page were used before; the exception is a search without an id.
* `ForgottenOnlyWhen`: when a registered key stays behind without a name.
* `RefusedOnlyWhenDisturbed`, `AwaitingEnds`: a single registration is not refused;
  a page waits for ever only when the server refused one of its calls, as the
  exception then leaves the handler (`SecurityKeyViewModel.java:126`).
* `TimeIsCounted`, `OneTimeoutEach`, `StopPollingStops`, `CodesGo`: each start over a
  running bar leaves an interval behind that makes all later time run faster by
  one; the properties say by how much at most, and that nothing else goes wrong.
* `PagesAgree`: what a session has read or written, and nobody since, is what the
  entry holds; the devices a page lists differ from those of the entry by no more
  than came or went since they were read. It holds with reads that fail, after
  which a page shows every login and no devices: the policies it shows are then
  not taken for those of the entry, and neither is an empty list.
* `DevicesChangeOnlyBy`: apart from logins only a deletion changes the devices, and
  besides the chosen one it takes out, or brings back, only what came or went
  since the page read its list.

Several properties state an exception because the code makes it happen: they say
that nothing else does. `FreshCodesStay` excepts a code sent again while a cleaning
or a second request is about to remove the old one; `CleaningIsComplete` a cleaning
that throws; `RefusedOnlyWhenDisturbed` a second press; `ForgottenOnlyWhen` the key
of another window and the edit dialog; `StopPollingStops` an interval that was
overwritten; `StartupDecides` an exception while plugins are loaded; `OutcomeIsFinal`
and `NoScanWhileOperating` late answers. These are hazards the properties bound,
not hazards they exclude, and the notes under `PROJECT.json`'s hazards say so.

Bounds. Plugin administration: two pages are enough for one to act between two
commands of the other; two jars of one id (one with, one without an extension)
are needed for second uploads; the single-page run adds a second plugin id whose
method is that of a system extension. The file the application starts with is
empty or maps a method to a plugin. Startup: three firings give a first one, one
in between and a last one, and let two overlap before the last; the answers are a
complete one, one without the default acr, and an empty one (also what remains of
an answer without the list). Pages and firings beyond that repeat these roles,
and the theorems cover any number.

Enrollment: two requests let one act between any two steps of the other; two
users share a directory and the only code there is, so that codes of different
users coincide and a code is sent again; the map is cleaned when it holds more
than one entry; a life time of one tick and a clock of three values make codes
that are new, at the limit and expired, and let one cleaning begin, or two that
passed the check at a time. Later cleanings start from states like these, and the
theorems cover any number and time. Requests are symmetric.

U2F library: three calls let one wait before and one behind another, of both
kinds, and answers overtake; one stray message is a repeated answer or one without
an id; all three kinds of browsers. Security keys: two windows, three presses (two
of one window, so that one variable serves both), and one failure, skewed clock or
reload, each alone being enough for every exception; the user begins without keys,
as keys that were there take part only as the ones registered first do. QR codes:
three codes, since the second is shown over the first and the third suffers; life
times of one and two seconds are four and eight ticks. User's entry: two sessions,
two methods, policies and devices, two modifications and one lost answer; a third
modification adds nothing (five million states, no violation), and the theorems
cover any number. Methods other than the placeholder, and devices, are symmetric.

Fairness. `StartupJob` is weakly fair because quartz fires it while the server
runs; nothing is assumed of admins. In `Startup` the timer fires on time and each
firing is weakly fair: the threads of the scheduler run and a request ends with
an answer or an exception. The code sets no timeout on that request, so the
latter is a promise of the network; `slow` keeps the model honest about how long
it may take.

In `Enrollment` the steps of a request are weakly fair: a thread works on it, and
the directory answers or fails; nothing is assumed of users. No property of the
passing run needs it.

In `U2fApi` the browser runs what is queued, and an extension that is there
answers, as it applies the timeout each request carries; that it stays is not
assumed. `SecurityKeys` takes handlers, timers and answers that are due to be run
(`Due`), the answer of the library by `AskedIsAnswered` of `U2fApi`; the user is
free. In `OtpPage` the browser fires its intervals; neither presses, nor polls,
nor scans are assumed. `UserEntry` states no liveness.

`CHECK_DEADLOCK FALSE` in the startup runs: the timer stops after its last firing.
In the enrollment runs: the clock ends, and users need not send anything. In the
runs of the scripts and of the security keys: presses and calls are bounded.

## 4. Findings

1. `plugin_admin_unhandled`: one mapped plugin that does not start keeps the
   whole application in LOADING (`ConfigurationHandler.java:357`,
   `ExtensionsManager.java:156`).
2. `plugin_admin_ids`: a plugin that failed to load can be added again, and the
   settings then hold two entries of one id (`PluginViewModel.java:109`).
3. `startup_slow`: the application fails for a "missing" acr that the server
   reported (`ConfigurationHandler.java:143`).
4. `enrollment_send`: a code is sent exactly to the numbers that somebody has
   enrolled, and NUMBER_ALREADY_ENROLLED answered for the others
   (`MobilePhoneEnrollingWS.java:69`).

## 5. Proofs

`PluginAdmin_Proofs` proves for any plugins, jars, methods and number of pages,
from the assumptions on the constants that `PluginAdmin` names (special values
are none of the others, jars have an id, an installation's file is well-formed):
`TypeOK`, `MappedPluginServes`, `RegistrationFollowsState`, `ListedJarsExist`
and `SavedUnlessFailed`. None is inductive alone. `IInv` adds:

* `JarsKeepTheirId`: a jar is recorded, loaded and registered only under its own
  id, else stopping one plugin would touch another's registrations;
* `NothingBeforeScan`: before the acrs are known no page is open and memory is
  the file, so that the purge looks at what the file lists;
* `PendingJarsExist`: an uploaded jar is there when it is added;
* `PagesSpareServingPlugins`: every page, however old, lists the plugins that
  serve a method as started, holds no upload of their id, and has no method to
  map to a plugin. This is the reason why stale pages are harmless, and it rests on
  `StopPlugin`'s check together with the methods page that cannot be opened
  while a plugin runs (`AuthnMethodsViewModel.java:82`). Correcting that line
  without a check in `save` would break `MappedPluginServes`.

Three theorems say more about it:

* `StopsRecorded` is `StopsAreRecorded` for one page at a time (the hypothesis that
  any two pages are the same one), and any plugins, jars and saves that fail.
  `PageKnowsRunning` carries it: a page that is open lists every running plugin that
  has an entry as started, has lost only rows of plugins without one, and lists
  nothing of the id it holds for adding. With a second page it is false.
* `IdsUniqueWhenAllLoad` turns the finding of `plugin_admin_ids` round: no two
  entries have one id if there is one page at a time, the file has no duplicates
  to begin with, and each startup loads every plugin that has an entry
  (`StartupLoadsAll`, a hypothesis about what the framework does that the code
  cannot enforce). `ListedAreLoaded` carries it: what has an entry is loaded and
  has a row in every open page, and what waits to be added has no entry. TLC
  finds duplicates as soon as one of the hypotheses on pages or startups is
  dropped; that the framework refuses an id twice (`DuplicateIdsLoad`) is neither
  enough without them nor needed with them.
* `OnlyLookupHoldsStartup`: see section 6.

`Startup_Proofs` proves, for any number of firings and any answers, `TypeOK`,
`NoScanWhileOperating`, `AttemptsAreUsed`, `MissingAcrIsMissingUnlessSlow` and
`OutcomeIsFinal`. Its `IInv` adds: only the last firing works unless answers are
slow (`OneAtATime`, `StartedAreCounted`), a firing past its decision has a set of
acrs (`AcrsDecided`), after the outcome nobody has anything to do (`NothingLeft`),
the set comes from an answer (`FailureHasReason`) and, unless answers are slow,
is the answer to the firing at work (`SetIsTheAnswer`). Unless answers are slow
plugins are loaded once, before the outcome is known (`PluginsLoadOnce`, with
`NoneAfterThrow`: after a firing threw while loading, none gets as far as that).
`StartupNeverForgotten` and `SweeperNeverForgotten` are explained in section 6.

`Enrollment_Proofs` proves, for any users, numbers, codes and number of requests,
`TypeOK`, `VerifiedNumbersOnly`, `CodesServeOverlappingRequests`, `FreshCodesStay`,
`CleaningIsComplete`, `PhonesAreLostOnlyByOverlap` and the refinement
`Spec => ImplementsVerifiedPhones`, from the assumptions that
`Bare` and `Registered` are about the numbers, that times are natural numbers and
that `None` is no code. Three strengthenings carry them: `NumbersWereSent` (what
requests carry, lists of phones included, was sent a code), `CleansWell` (for each
cleaning: it began in the past, what it is to remove is old or newer than it, and
what it has passed over is fresh; `CodesAdvance` says why others cannot break
this) and `OneWriter` (an undisturbed user has one writer, whose list is the
user's). `CodesServeOverlappingRequests` is inductive with the types, because a request
keeps the code it has found until it removes it. The refinement needs them all: a code that is put is a number sent, a read
begins an overlap or shows nothing (`ReadOverlaps`), and a write enrols a phone of
an undisturbed user by `OneWriter`, or replaces the phones of another one by
verified ones by `NumbersWereSent` (`WriteEnrolls`); every other step stutters.
`PromiseIsEnough` proves of `VerifiedPhones` itself that it has verified phones only
and loses phones by overlaps only. The lemmas from `OthersStay` to `Enrolling` say once what each step makes
of the request that takes it.

`U2fApi_Proofs` proves, for any calls and any number of stray messages, `TypeOK`,
`OnePlace`, `AnswersFindTheirCall` and `WaitingIsServed`, and the refinement
`Spec => ImplementsCalls`: initial states are initial, and each step is a call, an
answer or a stutter of `U2fCalls`. Its `IInv` adds `OweOnce` (the extension owes one
answer for an id, and none for one it has answered, without which an id could lead
to a removed callback) and `AttemptHasWaiters` (a port is being obtained only while
there is none and a call waits, so that obtaining it empties the queue once).

`OtpPage_Proofs` proves, for any life times and number of codes, `TypeOK`,
`TimeIsCounted`, `OneTimeoutEach` and `StopPollingStops`. `IInv` adds `Bar` (the bar
that runs is that of the last code) and `Pace`, which counts within a round: what
intervals left behind have still to count has its place in the bound already. The
facts about cardinalities are lemmas on finite sets.

`UserEntry_Proofs` proves, for any sessions, methods, policies and devices,
`TypeOK`, `PagesAgree` and `DevicesChangeOnlyBy`. `IInv` adds `PoliciesExclusive`
(where every login is chosen nothing else is), `PageShape` (what a page that is not
open shows) and `OpShape` (an operation writes what the page of its session shows,
so that a page and a modification that succeeds agree). With `changed` in the
statement the theorem on devices needs no exception for old lists: what a deletion
writes is the list of the page without the chosen device, and by `PagesAgree` that
list is the entry's up to `changed`.

`SecurityKeys_Proofs` proves, for any windows, presses, old keys (finitely many)
and number of failures, all safety properties of `SecurityKeys`: `TypeOK`,
`OfferedIsNewest`, `RefusedOnlyWhenDisturbed`, `OnlyOfferedIsRemoved` and
`ForgottenOnlyWhen`. They rest on `Base`: a key is entered once, for a press whose
challenge is then not open (`Fresh`), and the browser side of a window holds only
what was pressed there (`Own`). `Lone` follows the only press through its steps:
until it is answered, the code of the entry and the challenge are its own.
`Enough` counts: without failures there is a key for each window that holds one
or is about to pick one, and one more as soon as a device is listed. This is why
a cancel after the edit dialog, which searches without an id, finds several keys
and removes none; a failure breaks the count, as the exception of the property
says.

The invariants were first checked by TLC on the instances of the runs. Each proof
has one lemma per action or per conjunct, and the temporal theorems combine the
initial, the step and the implication lemma.

## 6. Only model-checked

Every invariant, action property and refinement of the passing runs is a theorem,
`StopsAreRecorded` with its hypothesis of one page. What only TLC checks is
liveness: the prover does not handle fairness and ENABLED. For each such property
the invariant it rests on is proved, so that what TLC adds for the instances is
that fair steps get on with what the invariant says is there to be done:

| liveness | proved for all constants |
|---|---|
| `StartupEnds` | `OnlyLookupHoldsStartup`: a startup that has done its work and still loads is held by the lookup that throws |
| `StartupDecides` | `StartupNeverForgotten`: while nothing is decided a firing is due or at work, or one threw |
| `SweeperIsScheduled` | `SweeperNeverForgotten`: an application that operates has its sweeper, or a firing about to schedule it |
| `AskedIsAnswered` | `CallsNeverForgotten`: a call not yet answered waits for a port that is being obtained, or is entered under an id whose request or answer is on its way |
| `AwaitingEnds` | `WaitsHaveReasons`: a window waits for a handler, timer, answer or event that is due, or a call of it was refused |
| `CodesGo` | `OneTimeout` and `TimeCounted`: a code that is drawn has a running bar, and the bar its own interval, which counts |

The violations are shown by the shortest behaviours TLC finds: they are statements
the code refutes, and for `MissingAcrIsMissing` and `KnownIdsUnique` what holds
instead is proved (`MissingAcrsAreMissing`, `IdsUniqueWhenAllLoad`). Induction over
data and RECURSIVE operators are out of the prover's reach; no module needs either.

## 7. Not modelled, and why

* Contents of jars, labels, resources, wording of pages: no property depends on
  them beyond the jar they come from. Several AuthnMethods of one plugin are the
  set of their acrs; that `getExtensionForAcr` returns the first of them
  (`ExtensionsManager.java:147`) changes no state.
* A plugin whose own REST classes RestEasy refuses with an exception
  (`ExtensionsManager.java:342`): started from a page it runs with a part of its
  classes bound and the start unrecorded; at startup the exception ends the firing,
  and the application stays in LOADING. `RegistrationFollowsState` and `StartupEnds`
  are about plugins whose classes can be registered. Failures to extract files
  are logged and change nothing here.
* Enrolling OTP devices: `addDevice` reads the entry by the user's id where its name
  is due and always fails (`OTPService.java:110`).
* Super Gluu: phone and server do the enrolment; the page starts and names it.
* `TrustedDevicesSweeper`: it discards what its search finds (line 138) and sweeps an
  empty list, so it changes nothing.
* The pages of other settings (LDAP, oxd, strong authentication, password reset,
  log level): what a service accepts, and the state it keeps after a failed
  change, is decided outside of the repository; their saves are those of
  `PluginAdmin`'s settings. The migration of the old list of methods in
  `MainSettingsProducer` happens once per installation.
* Interception scripts: they run inside the authorization server, which keeps
  their parameters between steps and decides their order; of what they do,
  adding trusted devices is an external action of `UserEntry`.
* Which methods a page offers to a user, and the minimum of credentials: `UserEntry`
  lets any method be chosen.
* The session checker of `gluu-auth.js`, which no page starts; helpers for views,
  and vendored scripts.
* Data races on `plugExtensionMap` and the settings lists when two pages act at
  the very same moment: commands are atomic here.
* `retrieveAcrs` called by pages while the application operates replaces the set
  as a firing does; only the startup is modelled.
* Branding (text processing and files), class loading patches (byte code at
  deployment), `OxdService` (requests to another service) and the reloading of
  scripts (never initialized by the present code).
