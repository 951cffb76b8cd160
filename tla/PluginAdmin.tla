---------------------------- MODULE PluginAdmin ----------------------------
(***************************************************************************)
(* Administration of plugins ("credlets") and of the mapping from          *)
(* authentication methods (acrs) to the plugins that implement them.       *)
(*                                                                         *)
(* Three copies of the truth have to agree and are updated one after the   *)
(* other: what the plugin framework runs (ExtensionsManager and the        *)
(* services it registers plugins with), what the settings object in memory *)
(* says (MainSettings) and what the settings file says.  Administrators    *)
(* work from pages (PluginViewModel, AuthnMethodsViewModel) that were      *)
(* filled when they were opened and are not refreshed by what others do.   *)
(* The server may stop at any moment and starts again from the file.       *)
(***************************************************************************)
EXTENDS Naturals, FiniteSets

CONSTANTS
  Plugins,           \* plugin ids
  Jars,              \* jar files, each stored under a name of its own
  Acrs,              \* authentication methods
  Admins,            \* administration pages opened by admins
  JarId,             \* the Plugin-Id in the manifest of a jar
  JarAcrs,           \* the acrs the AuthnMethod extensions of a jar handle
  SystemAcrs,        \* the acrs handled by the extensions shipped with the app
  ServerAcrs,        \* the acrs the authorization server reports a level for
  System,            \* plays null, the "plugin" of the system extensions
  Unmapped,          \* the acr is no key of acrPluginMap
  None,              \* no jar
  DuplicateIdsLoad,  \* may the framework load a jar whose id is loaded already?
  InitialConfigs     \* settings files the application may be installed with

PluginInfo == [id: Plugins, jar: Jars, state: {"STARTED", "STOPPED"}]
Mapping == [Acrs -> Plugins \cup {System, Unmapped}]

ASSUME SentinelsAssumption ==
  /\ System \notin Plugins
  /\ Unmapped \notin Plugins \cup {System}
  /\ None \notin Jars

ASSUME JarsAssumption ==
  /\ JarId \in [Jars -> Plugins]
  /\ JarAcrs \in [Jars -> SUBSET Acrs]

ASSUME AcrsAssumption ==
  /\ SystemAcrs \subseteq Acrs
  /\ ServerAcrs \subseteq Acrs

ASSUME LoadingAssumption == DuplicateIdsLoad \in BOOLEAN

ASSUME ConfigsAssumption ==
  \A cfg \in InitialConfigs : /\ cfg.known \subseteq PluginInfo
                              /\ \A info \in cfg.known : JarId[info.jar] = info.id
                              /\ cfg.acrMap \in Mapping

VARIABLES
  (* Volatile: lost when the server stops. *)
  appState,    \* ConfigurationHandler.appState
  scanned,     \* the startup job got the server's acrs, and will do no more
  pstate,      \* pf4j: the state of each plugin, "ABSENT" when not loaded
  pjar,        \* pf4j: the jar a plugin was loaded from
  extMap,      \* plugExtensionMap: the jar whose AuthnMethods serve a plugin id
  registered,  \* registeredResources and labelLocators, by plugin id
  endpoints,   \* REST classes bound in RestEasy, named by their jar
  known,       \* MainSettings.knownPlugins
  acrMap,      \* MainSettings.acrPluginMap
  saveFailed,  \* the last save was reported (or logged) as failed
  page,        \* the subpage an admin's window shows
  rows,        \* PluginViewModel.pluginList, as the browser shows it
  pending,     \* PluginViewModel.pluginToShow while uiAdding
  methods,     \* AuthnMethodsViewModel.methods
  (* Durable. *)
  files,       \* jar files in the plugins directory
  fileOk,      \* the settings file can be parsed
  savedKnown,  \* the "plugins" of the settings file
  savedAcrMap  \* the "acr_plugin_mapping" of the settings file

framework == <<pstate, pjar, extMap, registered, endpoints>>
settings == <<known, acrMap, saveFailed, fileOk, savedKnown, savedAcrMap>>
startup == <<appState, scanned>>
vars == <<startup, framework, settings, page, rows, pending, methods, files>>

-----------------------------------------------------------------------------
(* Derived notions *)

\* "gone": a row the browser still shows as stopped after the plugin was taken
\* from the list of the page.
RowStates == {"none", "started", "stopped", "gone"}
NoRows == [p \in Plugins |-> "none"]
NoMethods == [listed |-> {}, on |-> {}, plugin |-> [acr \in Acrs |-> System]]
NothingMapped == [acr \in Acrs |-> Unmapped]

StartupTypeOK ==
  /\ appState \in {"LOADING", "OPERATING", "FAIL"}
  /\ scanned \in BOOLEAN

FrameworkTypeOK ==
  /\ pstate \in [Plugins -> {"ABSENT", "RESOLVED", "STARTED", "STOPPED"}]
  /\ pjar \in [Plugins -> Jars \cup {None}]
  /\ extMap \in [Plugins -> Jars \cup {None}]
  /\ registered \in [Plugins -> Jars \cup {None}]
  /\ endpoints \subseteq Jars

SettingsTypeOK ==
  /\ known \subseteq PluginInfo
  /\ savedKnown \subseteq PluginInfo
  /\ acrMap \in Mapping
  /\ savedAcrMap \in Mapping
  /\ saveFailed \in BOOLEAN
  /\ fileOk \in BOOLEAN
  /\ files \subseteq Jars

MethodStatuses == [listed: SUBSET Acrs, on: SUBSET Acrs,
                   plugin: [Acrs -> Plugins \cup {System}]]

PagesTypeOK ==
  /\ page \in [Admins -> {"other", "plugins", "methods", "error"}]
  /\ rows \in [Admins -> [Plugins -> RowStates]]
  /\ pending \in [Admins -> Jars \cup {None}]
  /\ methods \in [Admins -> MethodStatuses]

TypeOK == StartupTypeOK /\ FrameworkTypeOK /\ SettingsTypeOK /\ PagesTypeOK

\* plugExtensionMap.get(p) holds an AuthnMethod for acr
Implements(ext, p, acr) == ext[p] # None /\ acr \in JarAcrs[ext[p]]

JarsOf(infos) == {info.jar : info \in infos}
InfosOf(infos, p) == {info \in infos : info.id = p}

-----------------------------------------------------------------------------
(* MainSettings: one object in memory, written whole to one file. *)

\* Mutant: a failing save is not reported.
SaveErrorSwallowed(k, m) ==
  /\ known' = k
  /\ acrMap' = m
  /\ saveFailed' = FALSE
  /\ \/ fileOk' = TRUE /\ savedKnown' = k /\ savedAcrMap' = m
     \/ fileOk' \in {fileOk, FALSE} /\ UNCHANGED <<savedKnown, savedAcrMap>>

\* Gives the settings object the plugins k and the mapping m and saves it.  A
\* failing save has replaced the object's contents already; it either left
\* the file alone or truncated it (the file is written in place).  A crash in
\* the middle of a save is a save of the second kind followed by Restart.
UpdateMainSettings(k, m) ==
  /\ known' = k
  /\ acrMap' = m
  /\ \/ /\ saveFailed' = FALSE
        /\ fileOk' = TRUE
        /\ savedKnown' = k
        /\ savedAcrMap' = m
     \/ /\ saveFailed' = TRUE
        /\ fileOk' \in {fileOk, FALSE}
        /\ UNCHANGED <<savedKnown, savedAcrMap>>

-----------------------------------------------------------------------------
(* ExtensionsManager: operations on the framework that pages call. *)

\* plugExtensionMap.put is skipped for a plugin without AuthnMethods; labels
\* and REST classes are registered in any case.  Left out: a plugin whose own
\* REST classes RestEasy refuses with an exception.  It is left started with
\* some of its classes bound, its start is not recorded, and at startup nothing
\* after it is done.
StartInFramework(p) ==
  LET jar == pjar[p] IN
  /\ pstate' = [pstate EXCEPT ![p] = "STARTED"]
  /\ extMap' = [extMap EXCEPT ![p] = IF JarAcrs[jar] # {} THEN jar ELSE @]
  /\ registered' = [registered EXCEPT ![p] = jar]
  /\ endpoints' = endpoints \cup {jar}
  /\ UNCHANGED pjar

\* Mutant: stopping forgets the labels and REST classes, not the AuthnMethods.
StopKeepsExtensions(p) ==
  /\ pstate' = [pstate EXCEPT ![p] = "STOPPED"]
  /\ registered' = [registered EXCEPT ![p] = None]
  /\ endpoints' = endpoints \ {registered[p]}
  /\ UNCHANGED <<pjar, extMap>>

\* pf4j stops a plugin that was only resolved too.
StopInFramework(p) ==
  /\ pstate' = [pstate EXCEPT ![p] = "STOPPED"]
  /\ extMap' = [extMap EXCEPT ![p] = None]
  /\ registered' = [registered EXCEPT ![p] = None]
  /\ endpoints' = endpoints \ {registered[p]}
  /\ UNCHANGED pjar

\* Stops and forgets the plugin inside pf4j alone: what ExtensionsManager has
\* registered for it stays.
UnloadInFramework(p) ==
  /\ pstate' = [pstate EXCEPT ![p] = "ABSENT"]
  /\ pjar' = [pjar EXCEPT ![p] = None]
  /\ UNCHANGED <<extMap, registered, endpoints>>

\* Mutant: the plugin is loaded, but never resolved.
LoadOnly(jar) ==
  /\ pstate' = [pstate EXCEPT ![JarId[jar]] = "CREATED"]
  /\ pjar' = [pjar EXCEPT ![JarId[jar]] = jar]
  /\ UNCHANGED <<extMap, registered, endpoints>>

\* Leaves the plugin RESOLVED, or returns no id: the jar is invalid, or its id
\* is taken and the framework refuses that.
LoadInFramework(jar) ==
  LET p == JarId[jar] IN
  /\ pstate[p] = "ABSENT" \/ DuplicateIdsLoad
  /\ pstate' = [pstate EXCEPT ![p] = "RESOLVED"]
  /\ pjar' = [pjar EXCEPT ![p] = jar]
  /\ UNCHANGED <<extMap, registered, endpoints>>

-----------------------------------------------------------------------------
(* Startup *)

\* Mutant: startup purges the jars of the plugins that are stopped as well.
StartedFiles == files \cap JarsOf({info \in known : info.state = "STARTED"})

KnownFiles == files \cap JarsOf(known)

\* The jar of each known plugin after the loading loop of scan: None when no
\* known jar of that id could be loaded.
Loadings ==
  {load \in [Plugins -> Jars \cup {None}] :
     \A p \in Plugins : load[p] \in JarsOf(InfosOf(known, p)) \cup {None}}

\* The plugins scan tries to start.
ToStart(load) ==
  {p \in Plugins : /\ load[p] # None
                   /\ \E info \in InfosOf(known, p) : info.state = "STARTED"}

\* extensions of the plugins in up, after scan
Scanned(load, up) ==
  [p \in Plugins |-> IF p \in up /\ JarAcrs[load[p]] # {} THEN load[p] ELSE None]

Scan(load, up) ==
  /\ files' = KnownFiles
  /\ pstate' = [p \in Plugins |-> IF load[p] = None THEN "ABSENT"
                                   ELSE IF p \in up THEN "STARTED"
                                   ELSE "RESOLVED"]
  /\ pjar' = load
  /\ extMap' = Scanned(load, up)
  /\ registered' = [p \in Plugins |-> IF p \in up THEN load[p] ELSE None]
  /\ endpoints' = {load[p] : p \in up}

DefaultMapping == [acr \in Acrs |-> IF acr \in SystemAcrs THEN System ELSE Unmapped]

\* pluginImplementsAuthnMethod dereferences the list of the mapped plugin: it
\* throws when plugExtensionMap has none.
LookupThrows(ext) ==
  \E acr \in Acrs : acrMap[acr] \in Plugins /\ ext[acrMap[acr]] = None

Handled(ext, acr) ==
  IF acrMap[acr] = System THEN acr \in SystemAcrs
                          ELSE Implements(ext, acrMap[acr], acr)

KeptMapping(ext) ==
  [acr \in Acrs |-> IF acrMap[acr] # Unmapped /\ Handled(ext, acr)
                    THEN acrMap[acr] ELSE Unmapped]

\* Mutant: startup is over only when the mapping could be saved.
OperatingWhenSaved(ext) ==
  \/ /\ acrMap # NothingMapped
     /\ ~LookupThrows(ext)
     /\ UpdateMainSettings(known, KeptMapping(ext))
     /\ appState' = IF saveFailed' THEN appState ELSE "OPERATING"
  \/ /\ acrMap = NothingMapped \/ LookupThrows(ext)
     /\ UNCHANGED <<settings, appState>>

\* An empty mapping is replaced by the default one, which is not saved;
\* another one is stripped of what nobody handles, and saved.
RefreshAcrPluginMapping(ext) ==
  \/ /\ acrMap = NothingMapped
     /\ acrMap' = DefaultMapping
     /\ appState' = "OPERATING"
     /\ UNCHANGED <<known, saveFailed, fileOk, savedKnown, savedAcrMap>>
  \/ /\ acrMap # NothingMapped
     /\ ~LookupThrows(ext)
     /\ UpdateMainSettings(known, KeptMapping(ext))
     /\ appState' = "OPERATING"
  \/ /\ acrMap # NothingMapped
     /\ LookupThrows(ext)          \* caught and logged by the job
     /\ UNCHANGED <<settings, appState>>

\* The firing of the startup job that gets a complete list of acrs.  The
\* plugins directory is purged when scan first touches ExtensionsManager.
StartupJob ==
  /\ appState = "LOADING"
  /\ ~scanned
  /\ scanned' = TRUE
  /\ \E load \in Loadings : \E up \in SUBSET ToStart(load) :
       /\ Scan(load, up)
       /\ RefreshAcrPluginMapping(Scanned(load, up))
  /\ UNCHANGED <<page, rows, pending, methods>>

\* The server stops at any moment, even between two steps of the startup, and
\* is started again; the settings producer and ConfigurationHandler.init run.
Restart ==
  /\ appState' = IF fileOk THEN "LOADING" ELSE "FAIL"
  /\ scanned' = FALSE
  /\ pstate' = [p \in Plugins |-> "ABSENT"]
  /\ pjar' = [p \in Plugins |-> None]
  /\ extMap' = [p \in Plugins |-> None]
  /\ registered' = [p \in Plugins |-> None]
  /\ endpoints' = {}
  /\ known' = savedKnown
  /\ acrMap' = savedAcrMap
  /\ saveFailed' = FALSE
  /\ page' = [a \in Admins |-> "other"]
  /\ rows' = [a \in Admins |-> NoRows]
  /\ pending' = [a \in Admins |-> None]
  /\ methods' = [a \in Admins |-> NoMethods]
  /\ UNCHANGED <<fileOk, savedKnown, savedAcrMap, files>>

-----------------------------------------------------------------------------
(* The plugins page (PluginViewModel).  A desktop shows one subpage, and     *)
(* pages are served only once the application operates.                      *)

\* buildExtensionList compares mapping.get(acr) with the plugin's id for each
\* AuthnMethod of a started plugin, and throws when get returns null.
ExtensionListThrows ==
  \E p \in Plugins : /\ pstate[p] = "STARTED"
                     /\ \E acr \in JarAcrs[pjar[p]] : acrMap[acr] \in {System, Unmapped}

\* Opens one subpage in an admin's window: what another one kept is dropped.
ShowPage(a, shown, list, status) ==
  /\ page' = [page EXCEPT ![a] = shown]
  /\ rows' = [rows EXCEPT ![a] = list]
  /\ methods' = [methods EXCEPT ![a] = status]
  /\ pending' = [pending EXCEPT ![a] = None]
  /\ UNCHANGED <<startup, framework, settings, files>>

\* RESOLVED shows as stopped.
PluginList == [p \in Plugins |-> CASE pstate[p] = "ABSENT" -> "none"
                                   [] pstate[p] = "STARTED" -> "started"
                                   [] OTHER -> "stopped"]

OpenPluginsPage(a) ==
  /\ appState = "OPERATING"
  /\ IF ExtensionListThrows THEN ShowPage(a, "error", NoRows, NoMethods)
                            ELSE ShowPage(a, "plugins", PluginList, NoMethods)

OnPluginsPage(a) == appState = "OPERATING" /\ page[a] = "plugins"

\* What a command that notifies of the list makes the browser show.
RefreshedRows(list) == [p \in Plugins |-> IF list[p] = "gone" THEN "none" ELSE list[p]]
RowsShowing(a, p, shown) == [rows EXCEPT ![a] = [RefreshedRows(rows[a]) EXCEPT ![p] = shown]]

\* The check is made against the list of the page.  The jar file stays in the
\* plugins directory when it could not be loaded.
Uploaded(a, jar) ==
  /\ OnPluginsPage(a)
  /\ pending[a] = None
  /\ rows[a][JarId[jar]] \in {"none", "gone"}
  /\ jar \notin files
  /\ files' = files \cup {jar}
  /\ \/ /\ LoadInFramework(jar)
        /\ pending' = [pending EXCEPT ![a] = jar]
     \/ UNCHANGED <<framework, pending>>
  /\ UNCHANGED <<startup, settings, page, rows, methods>>

\* A click on a row shows its details in the place of the uploaded plugin,
\* which stays loaded with nobody to add or cancel it.  Starting, stopping or
\* deleting a plugin without success hides it in the same way, and the first
\* two refresh the list.
ShowPlugin(a) ==
  /\ OnPluginsPage(a)
  /\ rows[a] # NoRows
  /\ pending' = [pending EXCEPT ![a] = None]
  /\ rows' \in {rows, [rows EXCEPT ![a] = RefreshedRows(@)]}
  /\ UNCHANGED <<startup, framework, settings, page, methods, files>>

\* Throws, with no effect, when the plugin was unloaded meanwhile; shows an
\* error when it does not start.
AddPlugin(a) ==
  LET jar == pending[a]
      p == JarId[jar]
  IN
  /\ OnPluginsPage(a)
  /\ jar # None
  /\ pstate[p] # "ABSENT"
  /\ StartInFramework(p)
  /\ rows' = RowsShowing(a, p, "started")
  /\ UpdateMainSettings(known \cup {[id |-> p, jar |-> jar, state |-> "STARTED"]}, acrMap)
  /\ pending' = [pending EXCEPT ![a] = None]
  /\ UNCHANGED <<startup, page, methods, files>>

CancelAdd(a) ==
  LET p == JarId[pending[a]] IN
  /\ OnPluginsPage(a)
  /\ pending[a] # None
  /\ IF pstate[p] = "ABSENT" THEN UNCHANGED framework ELSE UnloadInFramework(p)
  /\ pending' = [pending EXCEPT ![a] = None]
  /\ UNCHANGED <<startup, settings, page, rows, methods, files>>

\* Mutant: the new state is shown, and not saved.
StateOnlyShown(a, p, state, shown) ==
  /\ rows' = RowsShowing(a, p, shown)
  /\ pending' = [pending EXCEPT ![a] = None]
  /\ UNCHANGED settings

\* The end of startPlugin and stopPlugin: the state of the row, and of the
\* (first) known entry, is updated, and the settings are saved.  Without a row
\* in the list or an entry in the settings findAny().get() throws after the
\* framework acted: nothing is saved and the details stay.  In the second case
\* the browser shows the old state until some later command refreshes the list.
RecordState(a, p, state, shown) ==
  \/ /\ rows[a][p] # "gone"
     /\ \E info \in InfosOf(known, p) :
          UpdateMainSettings((known \ {info}) \cup {[info EXCEPT !.state = state]}, acrMap)
     /\ rows' = RowsShowing(a, p, shown)
     /\ pending' = [pending EXCEPT ![a] = None]
  \/ /\ rows[a][p] # "gone"
     /\ InfosOf(known, p) = {}
     /\ rows' \in {rows, RowsShowing(a, p, shown)}
     /\ UNCHANGED <<settings, pending>>
  \/ /\ rows[a][p] = "gone"
     /\ UNCHANGED <<settings, rows, pending>>

StartPlugin(a, p) ==
  /\ OnPluginsPage(a)
  /\ rows[a][p] \in {"stopped", "gone"}
  /\ pstate[p] # "ABSENT"
  /\ StartInFramework(p)
  /\ RecordState(a, p, "STARTED", "started")
  /\ UNCHANGED <<startup, page, methods, files>>

\* Mutant: nothing keeps a plugin that serves a method from being stopped.
NeverBound(p) == FALSE

BoundToMethod(p) == \E acr \in Acrs : acrMap[acr] = p

StopPlugin(a, p) ==
  /\ OnPluginsPage(a)
  /\ rows[a][p] = "started"
  /\ ~BoundToMethod(p)
  /\ pstate[p] # "ABSENT"
  /\ StopInFramework(p)
  /\ RecordState(a, p, "STOPPED", "stopped")
  /\ UNCHANGED <<startup, page, methods, files>>

\* The button is enabled by the state the row shows.  The plugin is unloaded,
\* then taken from the list, then from the settings; where it is not found
\* findAny().get() throws, and the browser is not told of the shorter list.
DeletePlugin(a, p) ==
  /\ OnPluginsPage(a)
  /\ pstate[p] # "ABSENT"
  /\ UnloadInFramework(p)
  /\ \/ /\ rows[a][p] = "stopped"
        /\ \E info \in InfosOf(known, p) : UpdateMainSettings(known \ {info}, acrMap)
        /\ rows' = RowsShowing(a, p, "none")
        /\ pending' = [pending EXCEPT ![a] = None]
     \/ /\ rows[a][p] = "stopped"
        /\ InfosOf(known, p) = {}
        /\ rows' = [rows EXCEPT ![a][p] = "gone"]
        /\ UNCHANGED <<settings, pending>>
     \/ /\ rows[a][p] = "gone"
        /\ UNCHANGED <<settings, rows, pending>>
  /\ UNCHANGED <<startup, page, methods, files>>

-----------------------------------------------------------------------------
(* The authentication methods page (AuthnMethodsViewModel) *)

\* acrs known to the server for which plugExtensionMap holds an AuthnMethod
ListedMethods ==
  {acr \in ServerAcrs : acr \in SystemAcrs \/ \E p \in Plugins : Implements(extMap, p, acr)}

\* init passes plugin id and acr to pluginImplementsAuthnMethod in the wrong
\* order: the acr is no key of plugExtensionMap, and the call throws.
MethodListThrows ==
  /\ ListedMethods # {}
  /\ \E p \in Plugins : pstate[p] = "STARTED"

MethodStatus ==
  [listed |-> ListedMethods,
   on |-> {acr \in ListedMethods : acrMap[acr] # Unmapped},
   plugin |-> [acr \in Acrs |-> IF acrMap[acr] = Unmapped THEN System ELSE acrMap[acr]]]

OpenMethodsPage(a) ==
  /\ appState = "OPERATING"
  /\ IF MethodListThrows THEN ShowPage(a, "error", NoRows, NoMethods)
                         ELSE ShowPage(a, "methods", NoRows, MethodStatus)

\* Unchecking sticks when zeroPreferences finds nobody who prefers the method.
\* (selectionChanged has nothing to change: a page that could be opened found
\* no running plugin, and offers the system extensions alone.)
CheckMethod(a, acr, checked) ==
  /\ appState = "OPERATING"
  /\ page[a] = "methods"
  /\ acr \in methods[a].listed
  /\ methods' = [methods EXCEPT ![a].on = IF checked THEN @ \cup {acr} ELSE @ \ {acr}]
  /\ UNCHANGED <<startup, framework, settings, page, rows, pending, files>>

\* Collectors.toMap refuses null values: a checked method of the system
\* extensions makes save throw before it changes anything.
SaveThrows(status) == \E acr \in status.on : status.plugin[acr] = System

SaveMethods(a) ==
  /\ appState = "OPERATING"
  /\ page[a] = "methods"
  /\ ~SaveThrows(methods[a])
  /\ UpdateMainSettings(known,
       [acr \in Acrs |-> IF acr \in methods[a].on THEN methods[a].plugin[acr] ELSE Unmapped])
  /\ UNCHANGED <<startup, framework, page, rows, pending, methods, files>>

-----------------------------------------------------------------------------
Init ==
  /\ appState = "LOADING"
  /\ scanned = FALSE
  /\ pstate = [p \in Plugins |-> "ABSENT"]
  /\ pjar = [p \in Plugins |-> None]
  /\ extMap = [p \in Plugins |-> None]
  /\ registered = [p \in Plugins |-> None]
  /\ endpoints = {}
  /\ \E cfg \in InitialConfigs : /\ savedKnown = cfg.known
                                 /\ savedAcrMap = cfg.acrMap
  /\ known = savedKnown
  /\ acrMap = savedAcrMap
  /\ saveFailed = FALSE
  /\ fileOk = TRUE
  /\ page = [a \in Admins |-> "other"]
  /\ rows = [a \in Admins |-> NoRows]
  /\ pending = [a \in Admins |-> None]
  /\ methods = [a \in Admins |-> NoMethods]
  /\ files = JarsOf(savedKnown)

Next ==
  \/ StartupJob
  \/ Restart
  \/ \E a \in Admins :
       \/ OpenPluginsPage(a)
       \/ \E jar \in Jars : Uploaded(a, jar)
       \/ ShowPlugin(a)
       \/ AddPlugin(a)
       \/ CancelAdd(a)
       \/ \E p \in Plugins : StartPlugin(a, p) \/ StopPlugin(a, p) \/ DeletePlugin(a, p)
       \/ OpenMethodsPage(a)
       \/ \E acr \in Acrs, checked \in BOOLEAN : CheckMethod(a, acr, checked)
       \/ SaveMethods(a)

\* Quartz fires the startup job for as long as there is a server to run it;
\* nothing obliges an admin to do anything.
Spec == Init /\ [][Next]_vars /\ WF_vars(StartupJob)

-----------------------------------------------------------------------------
(* Properties *)

\* A method that is mapped to a plugin has a running plugin with an extension
\* for it, so that ExtensionsManager.getExtensionForAcr finds a list to search
\* (it dereferences it unconditionally).  Pages with stale lists, uploads of
\* another jar of the same id and the unloading of pending plugins may not
\* take the plugin away.
MappedPluginServes ==
  appState = "OPERATING" =>
    \A acr \in Acrs : acrMap[acr] \in Plugins =>
      /\ pstate[acrMap[acr]] = "STARTED"
      /\ Implements(extMap, acrMap[acr], acr)

\* What is registered for a plugin follows its state: a running plugin is
\* fully registered, with the jar it was loaded from, and a stopped one has
\* nothing registered.  (Nothing is promised for plugins that were unloaded.)
RegistrationFollowsState ==
  \A p \in Plugins :
    /\ pstate[p] = "STARTED" =>
         /\ registered[p] = pjar[p]
         /\ pjar[p] \in endpoints
         /\ JarAcrs[pjar[p]] # {} => extMap[p] = pjar[p]
    /\ pstate[p] = "STOPPED" => extMap[p] = None /\ registered[p] = None

\* The jar of every plugin that is listed in memory or in the settings file is
\* in the plugins directory: deleting a plugin, losing the save that records
\* it and restarting in any order never leaves an entry without its jar (the
\* framework throws at a jar that does not exist, and startup with it).
ListedJarsExist == JarsOf(known \cup savedKnown) \subseteq files

\* Between saves memory and file agree: they differ only after a save the
\* admin was told failed, or in the default mapping that startup computes and
\* does not save.
SavedUnlessFailed ==
  (appState # "FAIL" /\ ~saveFailed) =>
    /\ fileOk
    /\ savedKnown = known
    /\ savedAcrMap = acrMap \/ (savedAcrMap = NothingMapped /\ acrMap = DefaultMapping)

\* No two entries of the settings have the same plugin id, so that the entry
\* findAny picks is the plugin's, and a deleted plugin is gone after a restart
\* too: what the "already a plugin with the same ID" message of the upload is
\* for.  (The code compares with the plugins that are loaded, not with the
\* settings, so a plugin that failed to load at startup can be added again.)
KnownIdsUnique ==
  \A one, other \in known : one.id = other.id => one = other

\* With a single page, a plugin that has one entry in the settings and ceases
\* to run while the application operates is no longer recorded as started: the
\* next startup will not bring back what was stopped, deleted or never added.
StopsAreRecorded ==
  [][KnownIdsUnique /\ appState = "OPERATING" /\ appState' = "OPERATING" =>
       \A p \in Plugins : pstate[p] = "STARTED" /\ pstate'[p] # "STARTED"
         => \A info \in InfosOf(known', p) : info.state # "STARTED"]_vars

\* Startup comes to an end once the acrs are known, whatever plugins fail to
\* load or to start, with one exception: a method is mapped to a plugin that
\* has no registered extension, and the lookup throws.
StartupEnds ==
  appState = "LOADING" ~> (appState # "LOADING" \/ (scanned /\ LookupThrows(extMap)))

\* What the startup log announces: an acr nobody handles is removed from the
\* mapping.  (The code throws instead when the mapped plugin has no entry in
\* plugExtensionMap, and the application stays in LOADING.)
UnhandledAcrsRemoved ==
  [][~scanned /\ scanned' =>
       \A acr \in Acrs : acrMap'[acr] \in Plugins => Implements(extMap', acrMap'[acr], acr)]_vars

=============================================================================
