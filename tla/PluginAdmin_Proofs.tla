------------------------- MODULE PluginAdmin_Proofs -------------------------
(***************************************************************************)
(* Proofs about PluginAdmin, for any plugins, jars, methods and number of  *)
(* administration pages.                                                   *)
(***************************************************************************)
EXTENDS PluginAdmin, TLAPS

-----------------------------------------------------------------------------
(* The strengthening that makes the invariants of PluginAdmin inductive.     *)

\* A jar is only ever recorded, loaded or registered under the id in its
\* manifest.
InfosKeepTheirId == \A info \in known \cup savedKnown : JarId[info.jar] = info.id

LoadedKeepTheirId ==
  \A p \in Plugins :
    /\ pstate[p] # "ABSENT" => pjar[p] # None
    /\ pjar[p] # None => JarId[pjar[p]] = p
    /\ registered[p] # None => JarId[registered[p]] = p

JarsKeepTheirId == InfosKeepTheirId /\ LoadedKeepTheirId

\* Until the acrs are known nobody works on the settings, and the plugins the
\* purge looks at are those of the file.
NothingBeforeScan ==
  /\ appState = "OPERATING" => scanned
  /\ ~scanned => /\ known = savedKnown
                 /\ \A a \in Admins : page[a] = "other" /\ pending[a] = None

\* A jar that waits to be added is in the plugins directory.
PendingJarsExist == \A a \in Admins : pending[a] # None => pending[a] \in files

\* No page can take a plugin away from a method: a page lists the plugins that
\* serve a method as started, holds no upload of theirs, and a page of methods
\* has none to enable (it could not be opened while a plugin was running).
PagesSpareServingPlugins ==
  appState = "OPERATING" =>
    \A a \in Admins :
      /\ \A acr \in Acrs : acrMap[acr] \in Plugins =>
           /\ page[a] = "plugins" => rows[a][acrMap[acr]] = "started"
           /\ pending[a] # None => JarId[pending[a]] # acrMap[acr]
      /\ page[a] = "methods" =>
           /\ methods[a].on \subseteq methods[a].listed
           /\ methods[a].listed # {} => \A acr \in Acrs : methods[a].plugin[acr] = System

IInv ==
  /\ TypeOK
  /\ JarsKeepTheirId
  /\ NothingBeforeScan
  /\ PendingJarsExist
  /\ ListedJarsExist
  /\ SavedUnlessFailed
  /\ RegistrationFollowsState
  /\ MappedPluginServes
  /\ PagesSpareServingPlugins

-----------------------------------------------------------------------------
(* The operations of the framework and the settings keep their types.        *)

LEMMA StartTypes ==
  ASSUME FrameworkTypeOK, JarsKeepTheirId, NEW p \in Plugins,
         pstate[p] # "ABSENT", StartInFramework(p)
  PROVE  FrameworkTypeOK'
BY DEF FrameworkTypeOK, JarsKeepTheirId, LoadedKeepTheirId, StartInFramework

LEMMA StopTypes ==
  ASSUME FrameworkTypeOK, NEW p \in Plugins, StopInFramework(p)
  PROVE  FrameworkTypeOK'
BY DEF FrameworkTypeOK, StopInFramework

LEMMA UnloadTypes ==
  ASSUME FrameworkTypeOK, NEW p \in Plugins, UnloadInFramework(p)
  PROVE  FrameworkTypeOK'
BY DEF FrameworkTypeOK, UnloadInFramework

LEMMA LoadTypes ==
  ASSUME FrameworkTypeOK, NEW jar \in Jars, LoadInFramework(jar)
  PROVE  FrameworkTypeOK'
BY JarsAssumption DEF FrameworkTypeOK, LoadInFramework

LEMMA UpdateTypes ==
  ASSUME SettingsTypeOK, NEW k \in SUBSET PluginInfo, NEW m \in Mapping,
         UpdateMainSettings(k, m), files' \in SUBSET Jars
  PROVE  SettingsTypeOK'
BY DEF SettingsTypeOK, UpdateMainSettings

\* A row stays as it is, or goes once the list is refreshed.
RowKept(b, q) ==
  \/ rows'[b][q] = rows[b][q]
  \/ rows[b][q] = "gone" /\ rows'[b][q] = "none"

LEMMA ShowingRows ==
  ASSUME PagesTypeOK, NEW a \in Admins, NEW p \in Plugins, NEW shown \in RowStates,
         rows' = RowsShowing(a, p, shown)
  PROVE  /\ rows' \in [Admins -> [Plugins -> RowStates]]
         /\ rows'[a][p] = shown
         /\ \A b \in Admins, q \in Plugins : b # a \/ q # p => RowKept(b, q)
<1>1. RefreshedRows(rows[a]) \in [Plugins -> RowStates]
  BY DEF PagesTypeOK, RefreshedRows, RowStates
<1>2. /\ rows'[a] = [RefreshedRows(rows[a]) EXCEPT ![p] = shown]
      /\ \A b \in Admins \ {a} : rows'[b] = rows[b]
      /\ rows' \in [Admins -> [Plugins -> RowStates]]
  BY <1>1 DEF PagesTypeOK, RowsShowing
<1>3. \A q \in Plugins \ {p} : rows'[a][q] = RefreshedRows(rows[a])[q]
  BY <1>1, <1>2
<1>4. \A q \in Plugins \ {p} : RowKept(a, q)
  BY <1>3 DEF RowKept, RefreshedRows
<1> QED BY <1>1, <1>2, <1>4 DEF RowKept

\* What a command other than one of a row does to the rows.
LEMMA RefreshingRows ==
  ASSUME PagesTypeOK, NEW a \in Admins,
         rows' \in {rows, [rows EXCEPT ![a] = RefreshedRows(@)]}
  PROVE  /\ rows' \in [Admins -> [Plugins -> RowStates]]
         /\ \A b \in Admins, q \in Plugins : RowKept(b, q)
<1>1. RefreshedRows(rows[a]) \in [Plugins -> RowStates]
  BY DEF PagesTypeOK, RefreshedRows, RowStates
<1>2. CASE rows' = rows
  BY <1>2 DEF PagesTypeOK, RowKept
<1>3. CASE rows' = [rows EXCEPT ![a] = RefreshedRows(@)]
  <2>1. /\ rows' \in [Admins -> [Plugins -> RowStates]]
        /\ rows'[a] = RefreshedRows(rows[a])
        /\ \A b \in Admins \ {a} : rows'[b] = rows[b]
    BY <1>1, <1>3 DEF PagesTypeOK
  <2>2. \A q \in Plugins : RowKept(a, q)
    BY <2>1 DEF RowKept, RefreshedRows
  <2> QED BY <2>1, <2>2 DEF RowKept
<1> QED BY <1>2, <1>3

LEMMA RecordingRows ==
  ASSUME PagesTypeOK, NEW a \in Admins, NEW p \in Plugins,
         NEW state, NEW shown \in RowStates, RecordState(a, p, state, shown)
  PROVE  \A b \in Admins, q \in Plugins : b # a \/ q # p => RowKept(b, q)
<1>1. rows' \in {rows, RowsShowing(a, p, shown)}
  BY DEF RecordState
<1>2. CASE rows' = rows
  BY <1>2 DEF RowKept
<1> QED BY <1>1, <1>2, ShowingRows

LEMMA DeletingRows ==
  ASSUME PagesTypeOK, NEW a \in Admins, NEW p \in Plugins, DeletePlugin(a, p)
  PROVE  /\ rows' \in [Admins -> [Plugins -> RowStates]]
         /\ rows'[a][p] \in {"none", "gone"}
         /\ \A b \in Admins, q \in Plugins : b # a \/ q # p => RowKept(b, q)
<1>1. "none" \in RowStates /\ "gone" \in RowStates
  BY DEF RowStates
<1>2. CASE rows' = RowsShowing(a, p, "none")
  BY <1>1, <1>2, ShowingRows
<1>3. CASE rows' = [rows EXCEPT ![a][p] = "gone"]
  BY <1>1, <1>3 DEF PagesTypeOK, RowKept
<1>4. CASE rows' = rows /\ rows[a][p] = "gone"
  BY <1>4 DEF PagesTypeOK, RowKept
<1> QED BY <1>2, <1>3, <1>4 DEF DeletePlugin

LEMMA RecordTypes ==
  ASSUME SettingsTypeOK, PagesTypeOK, NEW a \in Admins, NEW p \in Plugins,
         NEW state \in {"STARTED", "STOPPED"}, NEW shown \in RowStates,
         RecordState(a, p, state, shown), UNCHANGED <<page, methods, files>>
  PROVE  SettingsTypeOK' /\ PagesTypeOK'
<1>1. ASSUME NEW info \in InfosOf(known, p),
             UpdateMainSettings((known \ {info}) \cup {[info EXCEPT !.state = state]}, acrMap)
      PROVE  SettingsTypeOK'
  <2>1. (known \ {info}) \cup {[info EXCEPT !.state = state]} \in SUBSET PluginInfo
    BY DEF SettingsTypeOK, InfosOf, PluginInfo
  <2> QED BY <1>1, <2>1, UpdateTypes DEF SettingsTypeOK
<1>2. UNCHANGED settings => SettingsTypeOK'
  BY DEF SettingsTypeOK, settings
<1>3. SettingsTypeOK'
  BY <1>1, <1>2 DEF RecordState
<1>4. rows' \in [Admins -> [Plugins -> RowStates]]
  <2>1. rows' \in {rows, RowsShowing(a, p, shown)}
    BY DEF RecordState
  <2> QED BY <2>1, ShowingRows DEF PagesTypeOK
<1>5. pending' \in {pending, [pending EXCEPT ![a] = None]}
  BY DEF RecordState
<1>6. PagesTypeOK'
  BY <1>4, <1>5 DEF PagesTypeOK
<1> QED BY <1>3, <1>6

LEMMA PageTypes ==
  ASSUME PagesTypeOK, NEW a \in Admins,
         NEW shown \in {"other", "plugins", "methods", "error"},
         NEW list \in [Plugins -> RowStates], NEW status \in MethodStatuses,
         ShowPage(a, shown, list, status)
  PROVE  PagesTypeOK'
BY DEF PagesTypeOK, ShowPage

LEMMA ListTypes ==
  ASSUME FrameworkTypeOK, SettingsTypeOK
  PROVE  /\ PluginList \in [Plugins -> RowStates]
         /\ NoRows \in [Plugins -> RowStates]
         /\ NoMethods \in MethodStatuses
         /\ MethodStatus \in MethodStatuses
<1>1. PluginList \in [Plugins -> RowStates] /\ NoRows \in [Plugins -> RowStates]
  BY DEF PluginList, NoRows, RowStates, FrameworkTypeOK
<1>2. NoMethods \in MethodStatuses
  BY DEF NoMethods, MethodStatuses
<1>3. ListedMethods \in SUBSET Acrs
  BY AcrsAssumption DEF ListedMethods
<1>4. [acr \in Acrs |-> IF acrMap[acr] = Unmapped THEN System ELSE acrMap[acr]]
        \in [Acrs -> Plugins \cup {System}]
  BY SentinelsAssumption DEF SettingsTypeOK, Mapping
<1>5. MethodStatus \in MethodStatuses
  BY <1>3, <1>4 DEF MethodStatus, MethodStatuses
<1> QED BY <1>1, <1>2, <1>5

LEMMA StartupTypes ==
  ASSUME TypeOK, StartupJob
  PROVE  TypeOK'
<1>1. PICK load \in Loadings : \E up \in SUBSET ToStart(load) :
             Scan(load, up) /\ RefreshAcrPluginMapping(Scanned(load, up))
  BY DEF StartupJob
<1>2. PICK up \in SUBSET ToStart(load) :
             Scan(load, up) /\ RefreshAcrPluginMapping(Scanned(load, up))
  BY <1>1
<1>3. /\ load \in [Plugins -> Jars \cup {None}]
      /\ up \subseteq Plugins
      /\ \A p \in up : load[p] \in Jars
  BY DEF Loadings, ToStart
<1>4. FrameworkTypeOK' /\ files' \in SUBSET Jars
  BY <1>2, <1>3 DEF Scan, Scanned, FrameworkTypeOK, KnownFiles, TypeOK, SettingsTypeOK
<1>5. StartupTypeOK'
  BY <1>2 DEF RefreshAcrPluginMapping, StartupJob, TypeOK, StartupTypeOK, settings
<1>6. DefaultMapping \in Mapping /\ KeptMapping(Scanned(load, up)) \in Mapping
  BY DEF DefaultMapping, KeptMapping, TypeOK, SettingsTypeOK, Mapping
<1>7. SettingsTypeOK'
  <2>1. CASE UpdateMainSettings(known, KeptMapping(Scanned(load, up)))
    BY <2>1, <1>4, <1>6, UpdateTypes DEF TypeOK, SettingsTypeOK
  <2>2. CASE ~UpdateMainSettings(known, KeptMapping(Scanned(load, up)))
    BY <2>2, <1>2, <1>4, <1>6 DEF RefreshAcrPluginMapping, TypeOK, SettingsTypeOK, settings
  <2> QED BY <2>1, <2>2
<1>8. PagesTypeOK'
  BY DEF StartupJob, TypeOK, PagesTypeOK
<1> QED BY <1>4, <1>5, <1>7, <1>8 DEF TypeOK

LEMMA TypeStep ==
  ASSUME TypeOK, JarsKeepTheirId, [Next]_vars
  PROVE  TypeOK'
<1> USE DEF TypeOK
<1>1. CASE StartupJob
  BY <1>1, StartupTypes
<1>2. CASE Restart
  BY <1>2 DEF Restart, StartupTypeOK, FrameworkTypeOK, SettingsTypeOK, PagesTypeOK,
              NoRows, RowStates, NoMethods, MethodStatuses
<1>3. ASSUME NEW a \in Admins, OpenPluginsPage(a) \/ OpenMethodsPage(a)
      PROVE  TypeOK'
  <2>1. PICK shown \in {"other", "plugins", "methods", "error"},
             list \in [Plugins -> RowStates], status \in MethodStatuses :
               ShowPage(a, shown, list, status)
    BY <1>3, ListTypes, Zenon DEF OpenPluginsPage, OpenMethodsPage
  <2>2. PagesTypeOK'
    BY <2>1, PageTypes
  <2> QED BY <2>1, <2>2 DEF ShowPage, startup, framework, settings,
                            StartupTypeOK, FrameworkTypeOK, SettingsTypeOK
<1>4. ASSUME NEW a \in Admins, NEW jar \in Jars, Uploaded(a, jar)
      PROVE  TypeOK'
  <2>1. FrameworkTypeOK'
    BY <1>4, LoadTypes DEF Uploaded, framework, FrameworkTypeOK
  <2> QED BY <1>4, <2>1 DEF Uploaded, startup, settings, StartupTypeOK, SettingsTypeOK, PagesTypeOK
<1>5. ASSUME NEW a \in Admins, ShowPlugin(a)
      PROVE  TypeOK'
  <2>1. rows' \in [Admins -> [Plugins -> RowStates]]
    BY <1>5, RefreshingRows DEF ShowPlugin
  <2> QED BY <1>5, <2>1 DEF ShowPlugin, startup, framework, settings,
                            StartupTypeOK, FrameworkTypeOK, SettingsTypeOK, PagesTypeOK
<1>6. ASSUME NEW a \in Admins, AddPlugin(a)
      PROVE  TypeOK'
  <2> DEFINE jar == pending[a]
             entry == [id |-> JarId[jar], jar |-> jar, state |-> "STARTED"]
  <2>1. jar \in Jars /\ JarId[jar] \in Plugins
    BY <1>6, JarsAssumption DEF AddPlugin, PagesTypeOK
  <2>2. FrameworkTypeOK'
    BY <1>6, <2>1, StartTypes DEF AddPlugin
  <2>3. known \cup {entry} \in SUBSET PluginInfo
    BY <2>1 DEF PluginInfo, SettingsTypeOK
  <2>4. SettingsTypeOK'
    BY <1>6, <2>3, UpdateTypes DEF AddPlugin, SettingsTypeOK
  <2>5. rows' \in [Admins -> [Plugins -> RowStates]]
    BY <1>6, <2>1, ShowingRows DEF AddPlugin, RowStates
  <2> QED BY <1>6, <2>1, <2>2, <2>4, <2>5 DEF AddPlugin, startup, StartupTypeOK, PagesTypeOK
<1>7. ASSUME NEW a \in Admins, CancelAdd(a)
      PROVE  TypeOK'
  <2>1. JarId[pending[a]] \in Plugins
    BY <1>7, JarsAssumption DEF CancelAdd, PagesTypeOK
  <2>2. FrameworkTypeOK'
    BY <1>7, <2>1, UnloadTypes DEF CancelAdd, framework, FrameworkTypeOK
  <2> QED BY <1>7, <2>2 DEF CancelAdd, startup, settings, StartupTypeOK, SettingsTypeOK, PagesTypeOK
<1>8. ASSUME NEW a \in Admins, NEW p \in Plugins, StartPlugin(a, p) \/ StopPlugin(a, p)
      PROVE  TypeOK'
  <2>1. FrameworkTypeOK'
    BY <1>8, StartTypes, StopTypes DEF StartPlugin, StopPlugin
  <2>2. SettingsTypeOK' /\ PagesTypeOK'
    BY <1>8, RecordTypes DEF StartPlugin, StopPlugin, RowStates
  <2> QED BY <1>8, <2>1, <2>2 DEF StartPlugin, StopPlugin, startup, StartupTypeOK
<1>9. ASSUME NEW a \in Admins, NEW p \in Plugins, DeletePlugin(a, p)
      PROVE  TypeOK'
  <2>1. FrameworkTypeOK'
    BY <1>9, UnloadTypes DEF DeletePlugin
  <2>2. SettingsTypeOK'
    <3>1. CASE \E info \in InfosOf(known, p) : UpdateMainSettings(known \ {info}, acrMap)
      BY <1>9, <3>1, UpdateTypes DEF DeletePlugin, SettingsTypeOK
    <3>2. CASE UNCHANGED settings
      BY <1>9, <3>2 DEF DeletePlugin, SettingsTypeOK, settings
    <3> QED BY <1>9, <3>1, <3>2 DEF DeletePlugin
  <2>3. rows' \in [Admins -> [Plugins -> RowStates]]
    BY <1>9, DeletingRows
  <2>4. pending' \in {pending, [pending EXCEPT ![a] = None]}
    BY <1>9 DEF DeletePlugin
  <2> QED BY <1>9, <2>1, <2>2, <2>3, <2>4 DEF DeletePlugin, startup, StartupTypeOK, PagesTypeOK
<1>10. ASSUME NEW a \in Admins, NEW acr \in Acrs, NEW checked \in BOOLEAN,
              CheckMethod(a, acr, checked)
       PROVE  TypeOK'
  <2>1. methods[a] \in MethodStatuses
    BY DEF PagesTypeOK
  <2>2. PICK on \in SUBSET Acrs : methods' = [methods EXCEPT ![a] = [methods[a] EXCEPT !.on = on]]
    BY <1>10, <2>1 DEF CheckMethod, MethodStatuses
  <2>3. [methods[a] EXCEPT !.on = on] \in MethodStatuses
    BY <2>1 DEF MethodStatuses
  <2> QED BY <1>10, <2>2, <2>3 DEF CheckMethod, startup, framework, settings,
             StartupTypeOK, FrameworkTypeOK, SettingsTypeOK, PagesTypeOK
<1>11. ASSUME NEW a \in Admins, SaveMethods(a)
       PROVE  TypeOK'
  <2> DEFINE mapping == [acr \in Acrs |-> IF acr \in methods[a].on
                                          THEN methods[a].plugin[acr] ELSE Unmapped]
  <2>1. mapping \in Mapping
    BY DEF Mapping, PagesTypeOK, MethodStatuses
  <2>2. SettingsTypeOK'
    BY <1>11, <2>1, UpdateTypes DEF SaveMethods, SettingsTypeOK
  <2> QED BY <1>11, <2>2 DEF SaveMethods, startup, framework,
                             StartupTypeOK, FrameworkTypeOK, PagesTypeOK
<1>12. CASE UNCHANGED vars
  BY <1>12 DEF vars, startup, framework, settings,
               StartupTypeOK, FrameworkTypeOK, SettingsTypeOK, PagesTypeOK
<1> QED
  BY <1>1, <1>2, <1>3, <1>4, <1>5, <1>6, <1>7, <1>8, <1>9, <1>10, <1>11, <1>12 DEF Next

-----------------------------------------------------------------------------
(* Jars keep their id *)

LEMMA RecordedInfos ==
  ASSUME InfosKeepTheirId, NEW a \in Admins, NEW p \in Plugins, NEW state, NEW shown,
         SettingsTypeOK, RecordState(a, p, state, shown)
  PROVE  /\ InfosKeepTheirId'
         /\ JarsOf(known' \cup savedKnown') \subseteq JarsOf(known \cup savedKnown)
<1>1. CASE UNCHANGED settings
  BY <1>1 DEF InfosKeepTheirId, settings
<1>2. ASSUME NEW info \in InfosOf(known, p),
             UpdateMainSettings((known \ {info}) \cup {[info EXCEPT !.state = state]}, acrMap)
      PROVE  /\ InfosKeepTheirId'
             /\ JarsOf(known' \cup savedKnown') \subseteq JarsOf(known \cup savedKnown)
  <2> DEFINE changed == [info EXCEPT !.state = state]
  <2>1. info \in known /\ changed.jar = info.jar /\ changed.id = info.id
    BY DEF InfosOf, SettingsTypeOK, PluginInfo
  <2>2. \A other \in known' \cup savedKnown' : other \in known \cup savedKnown \/ other = changed
    BY <1>2 DEF UpdateMainSettings
  <2> HIDE DEF changed
  <2> QED BY <2>1, <2>2 DEF InfosKeepTheirId, JarsOf
<1> QED BY <1>1, <1>2 DEF RecordState

LEMMA InfosStep ==
  ASSUME TypeOK, InfosKeepTheirId, [Next]_vars
  PROVE  InfosKeepTheirId'
<1>1. ASSUME NEW m, UpdateMainSettings(known, m)
      PROVE  InfosKeepTheirId'
  BY <1>1 DEF UpdateMainSettings, InfosKeepTheirId
<1>2. CASE StartupJob
  BY <1>1, <1>2 DEF StartupJob, RefreshAcrPluginMapping, InfosKeepTheirId, settings
<1>3. CASE Restart
  BY <1>3 DEF Restart, InfosKeepTheirId
<1>4. ASSUME NEW a \in Admins, AddPlugin(a)
      PROVE  InfosKeepTheirId'
  <2>1. PICK entry : /\ entry.jar = pending[a] /\ entry.id = JarId[pending[a]]
                     /\ UpdateMainSettings(known \cup {entry}, acrMap)
    BY <1>4 DEF AddPlugin
  <2> QED BY <2>1 DEF InfosKeepTheirId, UpdateMainSettings
<1>5. ASSUME NEW a \in Admins, NEW p \in Plugins, StartPlugin(a, p) \/ StopPlugin(a, p)
      PROVE  InfosKeepTheirId'
  BY <1>5, RecordedInfos DEF StartPlugin, StopPlugin, TypeOK
<1>6. ASSUME NEW a \in Admins, NEW p \in Plugins, DeletePlugin(a, p)
      PROVE  InfosKeepTheirId'
  BY <1>6 DEF DeletePlugin, UpdateMainSettings, InfosKeepTheirId, settings
<1>7. ASSUME NEW a \in Admins, SaveMethods(a)
      PROVE  InfosKeepTheirId'
  BY <1>1, <1>7 DEF SaveMethods
<1>8. CASE UNCHANGED settings
  BY <1>8 DEF settings, InfosKeepTheirId
<1> QED
  BY <1>2, <1>3, <1>4, <1>5, <1>6, <1>7, <1>8
  DEF Next, vars, OpenPluginsPage, OpenMethodsPage, ShowPage, Uploaded, ShowPlugin,
      CancelAdd, CheckMethod

-----------------------------------------------------------------------------
(* What is registered follows the state of the plugin *)

FrameworkInv == LoadedKeepTheirId /\ RegistrationFollowsState

LEMMA StartFollows ==
  ASSUME FrameworkTypeOK, FrameworkInv, NEW p \in Plugins,
         pstate[p] # "ABSENT", StartInFramework(p)
  PROVE  FrameworkInv'
<1>1. pjar[p] \in Jars /\ JarId[pjar[p]] = p /\ pjar[p] # None
  BY SentinelsAssumption DEF FrameworkTypeOK, FrameworkInv, LoadedKeepTheirId
<1>2. LoadedKeepTheirId'
  BY <1>1 DEF FrameworkTypeOK, FrameworkInv, LoadedKeepTheirId, StartInFramework
<1>3. RegistrationFollowsState'
  BY <1>1 DEF FrameworkTypeOK, FrameworkInv, RegistrationFollowsState, StartInFramework
<1> QED BY <1>2, <1>3 DEF FrameworkInv

\* The REST classes that go with a stopped plugin are not those of another
\* one: the jar they came from has the id of the stopped plugin.
LEMMA StopFollows ==
  ASSUME FrameworkTypeOK, FrameworkInv, NEW p \in Plugins,
         pstate[p] # "ABSENT", StopInFramework(p)
  PROVE  FrameworkInv'
<1>1. LoadedKeepTheirId'
  BY DEF FrameworkTypeOK, FrameworkInv, LoadedKeepTheirId, StopInFramework
<1>2. ASSUME NEW q \in Plugins, pstate'[q] = "STARTED"
      PROVE  /\ registered'[q] = pjar'[q]
             /\ pjar'[q] \in endpoints'
             /\ JarAcrs[pjar'[q]] # {} => extMap'[q] = pjar'[q]
  <2>1. q # p /\ pstate[q] = "STARTED"
    BY <1>2 DEF FrameworkTypeOK, StopInFramework
  <2>2. pjar[q] # registered[p]
    BY <2>1 DEF FrameworkInv, LoadedKeepTheirId
  <2> QED BY <2>1, <2>2 DEF FrameworkTypeOK, FrameworkInv, RegistrationFollowsState, StopInFramework
<1>3. ASSUME NEW q \in Plugins, pstate'[q] = "STOPPED"
      PROVE  extMap'[q] = None /\ registered'[q] = None
  BY <1>3 DEF FrameworkTypeOK, FrameworkInv, RegistrationFollowsState, StopInFramework
<1> QED BY <1>1, <1>2, <1>3 DEF FrameworkInv, RegistrationFollowsState

LEMMA UnloadFollows ==
  ASSUME FrameworkTypeOK, FrameworkInv, NEW p \in Plugins, UnloadInFramework(p)
  PROVE  FrameworkInv'
BY DEF FrameworkTypeOK, FrameworkInv, LoadedKeepTheirId, RegistrationFollowsState,
       UnloadInFramework

LEMMA LoadFollows ==
  ASSUME FrameworkTypeOK, FrameworkInv, NEW jar \in Jars, LoadInFramework(jar)
  PROVE  FrameworkInv'
<1>1. JarId[jar] \in Plugins /\ jar # None
  BY JarsAssumption, SentinelsAssumption
<1> QED BY <1>1 DEF FrameworkTypeOK, FrameworkInv, LoadedKeepTheirId,
                    RegistrationFollowsState, LoadInFramework

LEMMA ScanFollows ==
  ASSUME TypeOK, InfosKeepTheirId, NEW load \in Loadings, NEW up \in SUBSET ToStart(load),
         Scan(load, up)
  PROVE  FrameworkInv'
<1>1. /\ load \in [Plugins -> Jars \cup {None}]
      /\ \A p \in Plugins : load[p] # None => JarId[load[p]] = p
      /\ up \subseteq Plugins /\ \A p \in up : load[p] # None
  BY DEF Loadings, ToStart, InfosKeepTheirId, InfosOf, JarsOf
<1>2. LoadedKeepTheirId'
  BY <1>1 DEF LoadedKeepTheirId, Scan
<1>3. RegistrationFollowsState'
  BY <1>1 DEF RegistrationFollowsState, Scan, Scanned
<1> QED BY <1>2, <1>3 DEF FrameworkInv

LEMMA FrameworkStep ==
  ASSUME TypeOK, InfosKeepTheirId, FrameworkInv, [Next]_vars
  PROVE  FrameworkInv'
<1> USE DEF TypeOK
<1>1. CASE StartupJob
  BY <1>1, ScanFollows DEF StartupJob
<1>2. CASE Restart
  BY <1>2 DEF Restart, FrameworkInv, LoadedKeepTheirId, RegistrationFollowsState
<1>3. CASE UNCHANGED framework
  BY <1>3 DEF framework, FrameworkInv, LoadedKeepTheirId, RegistrationFollowsState
<1>4. ASSUME NEW a \in Admins, NEW jar \in Jars, Uploaded(a, jar)
      PROVE  FrameworkInv'
  BY <1>3, <1>4, LoadFollows DEF Uploaded
<1>5. ASSUME NEW a \in Admins, AddPlugin(a)
      PROVE  FrameworkInv'
  <2>1. JarId[pending[a]] \in Plugins
    BY <1>5, JarsAssumption DEF AddPlugin, PagesTypeOK
  <2> QED BY <1>5, <2>1, StartFollows DEF AddPlugin
<1>6. ASSUME NEW a \in Admins, CancelAdd(a)
      PROVE  FrameworkInv'
  <2>1. JarId[pending[a]] \in Plugins
    BY <1>6, JarsAssumption DEF CancelAdd, PagesTypeOK
  <2> QED BY <1>3, <1>6, <2>1, UnloadFollows DEF CancelAdd
<1>7. ASSUME NEW a \in Admins, NEW p \in Plugins,
             StartPlugin(a, p) \/ StopPlugin(a, p) \/ DeletePlugin(a, p)
      PROVE  FrameworkInv'
  BY <1>7, StartFollows, StopFollows, UnloadFollows DEF StartPlugin, StopPlugin, DeletePlugin
<1> QED
  BY <1>1, <1>2, <1>3, <1>4, <1>5, <1>6, <1>7
  DEF Next, vars, OpenPluginsPage, OpenMethodsPage, ShowPage, ShowPlugin, CheckMethod, SaveMethods

-----------------------------------------------------------------------------
(* Jars and settings *)

LEMMA BeforeScanStep ==
  ASSUME TypeOK, NothingBeforeScan, [Next]_vars
  PROVE  NothingBeforeScan'
<1> USE DEF NothingBeforeScan
<1>1. CASE StartupJob
  BY <1>1 DEF StartupJob
<1>2. CASE Restart
  BY <1>2 DEF Restart
<1>3. CASE appState = "OPERATING" /\ UNCHANGED startup
  BY <1>3 DEF startup
<1>4. CASE UNCHANGED vars
  BY <1>4 DEF vars, startup, settings
<1> QED
  BY <1>1, <1>2, <1>3, <1>4
  DEF Next, OpenPluginsPage, OpenMethodsPage, ShowPage, OnPluginsPage, Uploaded,
      ShowPlugin, AddPlugin, CancelAdd, StartPlugin, StopPlugin, DeletePlugin,
      CheckMethod, SaveMethods

FilesInv == PendingJarsExist /\ ListedJarsExist

\* Only startup deletes files, when nothing is pending and the file's plugins
\* are those in memory; only uploaded jars become listed.
LEMMA FilesStep ==
  ASSUME TypeOK, InfosKeepTheirId, NothingBeforeScan, FilesInv, [Next]_vars
  PROVE  FilesInv'
<1> USE DEF TypeOK
<1>1. CASE StartupJob
  <2>1. known' = known /\ savedKnown' \subseteq known
    BY <1>1 DEF StartupJob, NothingBeforeScan, RefreshAcrPluginMapping, UpdateMainSettings, settings
  <2>2. files' = files \cap JarsOf(known)
    BY <1>1 DEF StartupJob, Scan, KnownFiles
  <2>3. ListedJarsExist'
    BY <2>1, <2>2 DEF FilesInv, ListedJarsExist, JarsOf
  <2>4. PendingJarsExist'
    BY <1>1 DEF StartupJob, NothingBeforeScan, PendingJarsExist
  <2> QED BY <2>3, <2>4 DEF FilesInv
<1>2. CASE Restart
  BY <1>2 DEF Restart, FilesInv, PendingJarsExist, ListedJarsExist, JarsOf
<1>3. ASSUME files \subseteq files',
             JarsOf(known' \cup savedKnown') \subseteq JarsOf(known \cup savedKnown)
      PROVE  ListedJarsExist'
  BY <1>3 DEF FilesInv, ListedJarsExist
<1>4. ASSUME NEW a \in Admins, NEW jar \in Jars, Uploaded(a, jar)
      PROVE  FilesInv'
  <2>1. PendingJarsExist'
    BY <1>4 DEF Uploaded, FilesInv, PendingJarsExist, PagesTypeOK
  <2>2. ListedJarsExist'
    BY <1>3, <1>4 DEF Uploaded, settings
  <2> QED BY <2>1, <2>2 DEF FilesInv
<1>5. ASSUME NEW a \in Admins, AddPlugin(a)
      PROVE  FilesInv'
  <2>1. PendingJarsExist'
    BY <1>5 DEF AddPlugin, FilesInv, PendingJarsExist, PagesTypeOK
  <2>2. pending[a] \in files
    BY <1>5 DEF AddPlugin, FilesInv, PendingJarsExist
  <2>3. PICK entry : entry.jar = pending[a] /\ UpdateMainSettings(known \cup {entry}, acrMap)
    BY <1>5 DEF AddPlugin
  <2>4. \A info \in known' \cup savedKnown' : info \in known \cup savedKnown \/ info = entry
    BY <2>3 DEF UpdateMainSettings
  <2>5. ListedJarsExist'
    BY <1>5, <2>2, <2>3, <2>4 DEF AddPlugin, FilesInv, ListedJarsExist, JarsOf
  <2> QED BY <2>1, <2>5 DEF FilesInv
<1>6. ASSUME NEW a \in Admins, pending' = [pending EXCEPT ![a] = None] \/ UNCHANGED pending,
             UNCHANGED files
      PROVE  PendingJarsExist'
  BY <1>6 DEF FilesInv, PendingJarsExist, PagesTypeOK
<1>7. ASSUME NEW a \in Admins, NEW p \in Plugins, StartPlugin(a, p) \/ StopPlugin(a, p)
      PROVE  FilesInv'
  <2>1. PendingJarsExist'
    BY <1>6, <1>7 DEF StartPlugin, StopPlugin, RecordState
  <2>2. ListedJarsExist'
    BY <1>3, <1>7, RecordedInfos DEF StartPlugin, StopPlugin
  <2> QED BY <2>1, <2>2 DEF FilesInv
<1>8. ASSUME NEW a \in Admins, NEW p \in Plugins, DeletePlugin(a, p)
      PROVE  FilesInv'
  <2>1. PendingJarsExist'
    BY <1>6, <1>8 DEF DeletePlugin
  <2>2. known' \cup savedKnown' \subseteq known \cup savedKnown
    BY <1>8 DEF DeletePlugin, UpdateMainSettings, settings
  <2>3. ListedJarsExist'
    BY <1>8, <2>2 DEF DeletePlugin, FilesInv, ListedJarsExist, JarsOf
  <2> QED BY <2>1, <2>3 DEF FilesInv
<1>9. ASSUME NEW a \in Admins, SaveMethods(a)
      PROVE  FilesInv'
  <2>1. known' \cup savedKnown' \subseteq known \cup savedKnown
    BY <1>9 DEF SaveMethods, UpdateMainSettings
  <2> QED BY <1>9, <2>1 DEF SaveMethods, FilesInv, PendingJarsExist, ListedJarsExist, JarsOf
<1>10. ASSUME NEW a \in Admins, UNCHANGED <<settings, files>>,
              pending' = [pending EXCEPT ![a] = None] \/ UNCHANGED pending
       PROVE  FilesInv'
  BY <1>3, <1>6, <1>10 DEF settings, FilesInv
<1>11. CASE UNCHANGED vars
  BY <1>11 DEF vars, settings, FilesInv, PendingJarsExist, ListedJarsExist, JarsOf
<1> QED
  BY <1>1, <1>2, <1>4, <1>5, <1>7, <1>8, <1>9, <1>10, <1>11
  DEF Next, OpenPluginsPage, OpenMethodsPage, ShowPage, ShowPlugin, CancelAdd, CheckMethod

\* A save either reaches the file or is reported; the application does not
\* leave FAIL but by a restart, which takes over the file.
LEMMA SavedStep ==
  ASSUME TypeOK, SavedUnlessFailed, NothingBeforeScan, [Next]_vars
  PROVE  SavedUnlessFailed'
<1>1. ASSUME NEW k, NEW m, UpdateMainSettings(k, m)
      PROVE  SavedUnlessFailed'
  BY <1>1 DEF UpdateMainSettings, SavedUnlessFailed
<1>2. CASE Restart
  BY <1>2 DEF Restart, SavedUnlessFailed
<1>3. CASE appState # "FAIL" /\ UNCHANGED settings
  BY <1>3 DEF settings, SavedUnlessFailed
<1>4. CASE UNCHANGED vars
  BY <1>4 DEF vars, settings, startup, SavedUnlessFailed, DefaultMapping
<1>5. CASE StartupJob
  <2>1. CASE acrMap = NothingMapped
    BY <1>5, <2>1 DEF StartupJob, RefreshAcrPluginMapping, SavedUnlessFailed
  <2>2. CASE acrMap # NothingMapped
    BY <1>1, <1>3, <1>5, <2>2 DEF StartupJob, RefreshAcrPluginMapping
  <2> QED BY <2>1, <2>2
<1>6. ASSUME NEW a \in Admins, NEW p \in Plugins,
             StartPlugin(a, p) \/ StopPlugin(a, p) \/ DeletePlugin(a, p)
      PROVE  SavedUnlessFailed'
  BY <1>1, <1>3, <1>6 DEF StartPlugin, StopPlugin, DeletePlugin, RecordState, OnPluginsPage
<1> QED
  BY <1>1, <1>2, <1>3, <1>4, <1>5, <1>6
  DEF Next, OpenPluginsPage, OpenMethodsPage, ShowPage, OnPluginsPage, Uploaded,
      ShowPlugin, AddPlugin, CancelAdd, CheckMethod, SaveMethods

-----------------------------------------------------------------------------
(* Plugins that serve a method *)

ServeInv == MappedPluginServes /\ PagesSpareServingPlugins

\* What happens to a plugin no method is mapped to is of no consequence.
LEMMA UnboundSpares ==
  ASSUME TypeOK, MappedPluginServes, NEW p \in Plugins, ~BoundToMethod(p),
         \/ StartInFramework(p)
         \/ StopInFramework(p)
         \/ UnloadInFramework(p)
         \/ \E jar \in Jars : JarId[jar] = p /\ LoadInFramework(jar),
         acrMap' = acrMap, appState' = appState
  PROVE  MappedPluginServes'
<1>1. \A q \in Plugins : q # p => pstate'[q] = pstate[q] /\ extMap'[q] = extMap[q]
  BY DEF TypeOK, FrameworkTypeOK, StartInFramework, StopInFramework, UnloadInFramework,
         LoadInFramework
<1>2. \A acr \in Acrs : acrMap[acr] # p
  BY DEF BoundToMethod
<1> QED BY <1>1, <1>2 DEF MappedPluginServes, Implements

\* Startup keeps a plugin for a method only if it registered an extension for
\* it, that is if it started it.
LEMMA StartupServes ==
  ASSUME TypeOK, NothingBeforeScan, StartupJob
  PROVE  ServeInv'
<1>1. PICK load \in Loadings : \E up \in SUBSET ToStart(load) :
             Scan(load, up) /\ RefreshAcrPluginMapping(Scanned(load, up))
  BY DEF StartupJob
<1>2. PICK up \in SUBSET ToStart(load) :
             Scan(load, up) /\ RefreshAcrPluginMapping(Scanned(load, up))
  BY <1>1
<1>3. load \in [Plugins -> Jars \cup {None}] /\ up \subseteq Plugins
  BY DEF Loadings, ToStart
<1>4. \A p \in Plugins : extMap'[p] # None => pstate'[p] = "STARTED"
  BY <1>2, <1>3 DEF Scan, Scanned, ToStart
<1>5. CASE acrMap' = DefaultMapping
  BY <1>5, SentinelsAssumption DEF DefaultMapping, StartupJob, NothingBeforeScan, ServeInv,
     MappedPluginServes, PagesSpareServingPlugins
<1>6. CASE acrMap' = KeptMapping(Scanned(load, up))
  <2>1. extMap' = Scanned(load, up)
    BY <1>2 DEF Scan
  <2>2. ASSUME NEW acr \in Acrs, acrMap'[acr] \in Plugins
        PROVE  pstate'[acrMap'[acr]] = "STARTED" /\ Implements(extMap', acrMap'[acr], acr)
    <3>1. acrMap'[acr] = acrMap[acr] /\ acrMap[acr] # System /\ Handled(extMap', acr)
      BY <1>6, <2>1, <2>2, SentinelsAssumption DEF KeptMapping
    <3>2. Implements(extMap', acrMap'[acr], acr)
      BY <3>1 DEF Handled
    <3> QED BY <1>4, <2>2, <3>2 DEF Implements
  <2> QED BY <2>2 DEF StartupJob, NothingBeforeScan, ServeInv, MappedPluginServes,
                      PagesSpareServingPlugins
<1>7. CASE appState' = "LOADING"
  BY <1>7 DEF ServeInv, MappedPluginServes, PagesSpareServingPlugins
<1> QED
  BY <1>2, <1>5, <1>6, <1>7
  DEF RefreshAcrPluginMapping, UpdateMainSettings, StartupJob

\* A page of methods that can be opened lists none to enable while a plugin
\* runs, and none but system methods while none runs.
LEMMA OpenPagesSpare ==
  ASSUME TypeOK, ServeInv, NEW a \in Admins, OpenPluginsPage(a) \/ OpenMethodsPage(a)
  PROVE  ServeInv'
<1> USE DEF TypeOK, PagesTypeOK
<1>1. MappedPluginServes'
  BY DEF OpenPluginsPage, OpenMethodsPage, ShowPage, startup, framework, settings, ServeInv,
         MappedPluginServes, Implements
<1>2. \A acr \in Acrs : acrMap[acr] \in Plugins => pstate[acrMap[acr]] = "STARTED"
  BY DEF OpenPluginsPage, OpenMethodsPage, ServeInv, MappedPluginServes
<1>3. \/ ShowPage(a, "error", NoRows, NoMethods)
      \/ ShowPage(a, "plugins", PluginList, NoMethods)
      \/ ShowPage(a, "methods", NoRows, MethodStatus) /\ ~MethodListThrows
  BY Zenon DEF OpenPluginsPage, OpenMethodsPage
<1>4. \A acr \in Acrs : acrMap[acr] \in Plugins => PluginList[acrMap[acr]] = "started"
  BY <1>2 DEF PluginList
<1>5. ASSUME ~MethodListThrows
      PROVE  /\ MethodStatus.on \subseteq MethodStatus.listed
             /\ MethodStatus.listed # {} => \A acr \in Acrs : MethodStatus.plugin[acr] = System
  <2>1. ListedMethods # {} => \A acr \in Acrs : acrMap[acr] \notin Plugins
    BY <1>2, <1>5 DEF MethodListThrows
  <2> QED BY <2>1 DEF MethodStatus, SettingsTypeOK, Mapping
<1>6. PagesSpareServingPlugins'
  BY <1>3, <1>4, <1>5
  DEF ShowPage, startup, settings, ServeInv, PagesSpareServingPlugins
<1> QED BY <1>1, <1>6 DEF ServeInv

\* What a command on the plugins page does to the pages: the row of a plugin
\* that serves no method may change, and details are closed.
LEMMA CommandSpares ==
  ASSUME TypeOK, PagesSpareServingPlugins, NEW a \in Admins, NEW p \in Plugins,
         ~BoundToMethod(p),
         \A b \in Admins, q \in Plugins : b # a \/ q # p => RowKept(b, q),
         pending' = pending \/ pending' = [pending EXCEPT ![a] = None],
         UNCHANGED <<page, methods, acrMap, appState>>
  PROVE  PagesSpareServingPlugins'
<1>1. \A acr \in Acrs : acrMap[acr] # p
  BY DEF BoundToMethod
<1>2. \A b \in Admins : \A q \in Plugins :
        q # p => (rows[b][q] = "started" => rows'[b][q] = "started")
  BY DEF RowKept
<1>3. \A b \in Admins : pending'[b] # None => pending'[b] = pending[b]
  BY DEF TypeOK, PagesTypeOK
<1> QED BY <1>1, <1>2, <1>3 DEF PagesSpareServingPlugins

LEMMA CommandsServe ==
  ASSUME TypeOK, ServeInv, NEW a \in Admins, NEW p \in Plugins,
         StartPlugin(a, p) \/ StopPlugin(a, p) \/ DeletePlugin(a, p)
  PROVE  ServeInv'
<1>1. appState = "OPERATING" /\ page[a] = "plugins" /\ appState' = appState
  BY DEF StartPlugin, StopPlugin, DeletePlugin, OnPluginsPage, startup
<1>2. ~BoundToMethod(p)
  <2>1. StopPlugin(a, p) \/ rows[a][p] \in {"stopped", "gone"}
    BY DEF StartPlugin, DeletePlugin
  <2> QED BY <1>1, <2>1 DEF StopPlugin, ServeInv, PagesSpareServingPlugins, BoundToMethod
<1>3. acrMap' = acrMap
  BY DEF StartPlugin, StopPlugin, DeletePlugin, RecordState, UpdateMainSettings, settings
<1>4. MappedPluginServes'
  BY <1>1, <1>2, <1>3, UnboundSpares DEF StartPlugin, StopPlugin, DeletePlugin, ServeInv
<1>5. \A b \in Admins, q \in Plugins : b # a \/ q # p => RowKept(b, q)
  <2>1. CASE DeletePlugin(a, p)
    BY <2>1, DeletingRows DEF TypeOK
  <2>2. CASE StartPlugin(a, p) \/ StopPlugin(a, p)
    BY <2>2, RecordingRows DEF StartPlugin, StopPlugin, TypeOK, RowStates
  <2> QED BY <2>1, <2>2
<1>6. /\ pending' = pending \/ pending' = [pending EXCEPT ![a] = None]
      /\ UNCHANGED <<page, methods>>
  BY DEF StartPlugin, StopPlugin, DeletePlugin, RecordState
<1>7. PagesSpareServingPlugins'
  BY <1>1, <1>2, <1>3, <1>5, <1>6, CommandSpares DEF ServeInv
<1> QED BY <1>4, <1>7 DEF ServeInv

\* A jar is uploaded only when the page shows no plugin of its id, so that it
\* is not of a plugin that serves a method.
LEMMA UploadServes ==
  ASSUME TypeOK, ServeInv, NEW a \in Admins, NEW jar \in Jars, Uploaded(a, jar)
  PROVE  ServeInv'
<1>1. JarId[jar] \in Plugins
  BY JarsAssumption
<1>2. ~BoundToMethod(JarId[jar])
  BY <1>1 DEF Uploaded, OnPluginsPage, ServeInv, PagesSpareServingPlugins, BoundToMethod
<1>3. acrMap' = acrMap /\ appState' = appState
  BY DEF Uploaded, settings, startup
<1>4. MappedPluginServes'
  <2>1. CASE LoadInFramework(jar)
    BY <1>1, <1>2, <1>3, <2>1, UnboundSpares DEF ServeInv
  <2>2. CASE UNCHANGED framework
    BY <1>3, <2>2 DEF framework, ServeInv, MappedPluginServes, Implements
  <2> QED BY <2>1, <2>2 DEF Uploaded
<1>5. PagesSpareServingPlugins'
  <2>1. UNCHANGED <<page, rows, methods>>
    BY DEF Uploaded
  <2>2. \A b \in Admins : pending'[b] # pending[b] => pending'[b] = jar
    BY DEF Uploaded, TypeOK, PagesTypeOK
  <2>3. \A acr \in Acrs : acrMap[acr] # JarId[jar]
    BY <1>2 DEF BoundToMethod
  <2> QED BY <1>3, <2>1, <2>2, <2>3 DEF ServeInv, PagesSpareServingPlugins
<1> QED BY <1>4, <1>5 DEF ServeInv

LEMMA PendingServes ==
  ASSUME TypeOK, ServeInv, NEW a \in Admins, AddPlugin(a) \/ CancelAdd(a)
  PROVE  ServeInv'
<1> DEFINE p == JarId[pending[a]]
<1>1. p \in Plugins
  BY JarsAssumption DEF AddPlugin, CancelAdd, TypeOK, PagesTypeOK
<1>2. appState = "OPERATING" /\ appState' = appState /\ acrMap' = acrMap
  BY DEF AddPlugin, CancelAdd, OnPluginsPage, startup, settings, UpdateMainSettings
<1>3. ~BoundToMethod(p)
  <2>1. pending[a] # None
    BY DEF AddPlugin, CancelAdd
  <2> QED BY <1>1, <1>2, <2>1 DEF ServeInv, PagesSpareServingPlugins, BoundToMethod
<1>4. MappedPluginServes'
  <2>1. CASE StartInFramework(p) \/ UnloadInFramework(p)
    BY <1>1, <1>2, <1>3, <2>1, UnboundSpares DEF ServeInv
  <2>2. CASE UNCHANGED framework
    BY <1>2, <2>2 DEF framework, ServeInv, MappedPluginServes, Implements
  <2> QED BY <2>1, <2>2 DEF AddPlugin, CancelAdd
<1>5. PagesSpareServingPlugins'
  <2>1. /\ rows' = rows \/ rows' = RowsShowing(a, p, "started")
        /\ pending' = [pending EXCEPT ![a] = None]
        /\ UNCHANGED <<page, methods>>
    BY DEF AddPlugin, CancelAdd
  <2> HIDE DEF p
  <2>2. \A b \in Admins, q \in Plugins : b # a \/ q # p => RowKept(b, q)
    <3>1. CASE rows' = rows
      BY <3>1 DEF RowKept
    <3> QED BY <1>1, <2>1, <3>1, ShowingRows DEF TypeOK, RowStates
  <2> QED BY <1>1, <1>2, <1>3, <2>1, <2>2, CommandSpares DEF ServeInv
<1> QED BY <1>4, <1>5 DEF ServeInv

\* No page of methods has a plugin to map a method to: the saved mapping is
\* empty, or it is not saved at all.
LEMMA SaveServes ==
  ASSUME TypeOK, ServeInv, NEW a \in Admins, SaveMethods(a)
  PROVE  ServeInv'
<1>1. methods[a].on = {}
  BY DEF SaveMethods, SaveThrows, ServeInv, PagesSpareServingPlugins, TypeOK, PagesTypeOK,
         MethodStatuses
<1>2. acrMap' = [acr \in Acrs |-> Unmapped]
  BY <1>1 DEF SaveMethods, UpdateMainSettings
<1>3. \A acr \in Acrs : acrMap'[acr] \notin Plugins
  BY <1>2, SentinelsAssumption
<1> QED BY <1>3 DEF SaveMethods, ServeInv, MappedPluginServes, PagesSpareServingPlugins, startup

LEMMA CheckServes ==
  ASSUME TypeOK, ServeInv, NEW a \in Admins, NEW acr \in Acrs, NEW checked \in BOOLEAN,
         CheckMethod(a, acr, checked)
  PROVE  ServeInv'
<1>1. /\ methods' = [methods EXCEPT ![a].on = IF checked THEN @ \cup {acr} ELSE @ \ {acr}]
      /\ acr \in methods[a].listed /\ page[a] = "methods" /\ appState = "OPERATING"
  BY DEF CheckMethod
<1>2. /\ methods[a] \in MethodStatuses
      /\ methods[a].on \subseteq methods[a].listed
  BY <1>1 DEF ServeInv, PagesSpareServingPlugins, TypeOK, PagesTypeOK
<1>3. /\ \A b \in Admins : b # a => methods'[b] = methods[b]
      /\ methods'[a].listed = methods[a].listed
      /\ methods'[a].plugin = methods[a].plugin
      /\ methods'[a].on \subseteq methods[a].on \cup {acr}
  BY <1>1, <1>2 DEF MethodStatuses, TypeOK, PagesTypeOK
<1>4. UNCHANGED <<appState, acrMap, page, rows, pending, pstate, extMap>>
  BY DEF CheckMethod, startup, settings, framework
<1>5. PagesSpareServingPlugins'
  BY <1>1, <1>2, <1>3, <1>4 DEF ServeInv, PagesSpareServingPlugins
<1> QED BY <1>4, <1>5 DEF ServeInv, MappedPluginServes, Implements

LEMMA ServeStep ==
  ASSUME TypeOK, NothingBeforeScan, ServeInv, [Next]_vars
  PROVE  ServeInv'
<1>1. CASE Restart
  BY <1>1 DEF Restart, ServeInv, MappedPluginServes, PagesSpareServingPlugins
<1>2. ASSUME NEW a \in Admins, ShowPlugin(a)
      PROVE  ServeInv'
  <2>1. \A b \in Admins, q \in Plugins : rows[b][q] = "started" => rows'[b][q] = "started"
    BY <1>2, RefreshingRows DEF ShowPlugin, RowKept, TypeOK
  <2>2. \A b \in Admins : pending'[b] # None => pending'[b] = pending[b]
    BY <1>2 DEF ShowPlugin, TypeOK, PagesTypeOK
  <2>3. UNCHANGED <<appState, pstate, extMap, acrMap, page, methods>>
    BY <1>2 DEF ShowPlugin, startup, framework, settings
  <2> QED BY <2>1, <2>2, <2>3
          DEF ServeInv, MappedPluginServes, PagesSpareServingPlugins, Implements
<1>3. CASE UNCHANGED vars
  BY <1>3 DEF vars, startup, framework, settings,
              ServeInv, MappedPluginServes, PagesSpareServingPlugins, Implements
<1> QED
  BY <1>1, <1>2, <1>3, StartupServes, OpenPagesSpare, UploadServes, PendingServes,
     CommandsServe, CheckServes, SaveServes
  DEF Next

-----------------------------------------------------------------------------
(* The inductive invariant *)

LEMMA InitIInv ==
  ASSUME Init
  PROVE  IInv
<1>1. PICK cfg \in InitialConfigs : savedKnown = cfg.known /\ savedAcrMap = cfg.acrMap
  BY DEF Init
<1>2. /\ savedKnown \subseteq PluginInfo
      /\ \A info \in savedKnown : JarId[info.jar] = info.id
      /\ savedAcrMap \in Mapping
  BY <1>1, ConfigsAssumption
<1>3. files \subseteq Jars /\ JarsOf(known \cup savedKnown) \subseteq files
  BY <1>2 DEF Init, JarsOf, PluginInfo
<1>4. TypeOK
  BY <1>2, <1>3 DEF Init, TypeOK, StartupTypeOK, FrameworkTypeOK, SettingsTypeOK, PagesTypeOK,
                    NoRows, RowStates, NoMethods, MethodStatuses
<1>5. JarsKeepTheirId
  BY <1>2 DEF Init, JarsKeepTheirId, InfosKeepTheirId, LoadedKeepTheirId
<1>6. NothingBeforeScan /\ PendingJarsExist
  BY DEF Init, NothingBeforeScan, PendingJarsExist
<1>7. SavedUnlessFailed /\ RegistrationFollowsState
  BY DEF Init, SavedUnlessFailed, RegistrationFollowsState
<1>8. MappedPluginServes /\ PagesSpareServingPlugins
  BY DEF Init, MappedPluginServes, PagesSpareServingPlugins
<1> QED BY <1>3, <1>4, <1>5, <1>6, <1>7, <1>8 DEF IInv, ListedJarsExist

LEMMA NextIInv ==
  ASSUME IInv, [Next]_vars
  PROVE  IInv'
<1> USE DEF IInv
<1>1. TypeOK'
  BY TypeStep
<1>2. InfosKeepTheirId' /\ NothingBeforeScan'
  BY InfosStep, BeforeScanStep DEF JarsKeepTheirId
<1>3. FrameworkInv'
  BY FrameworkStep DEF JarsKeepTheirId, FrameworkInv
<1>4. FilesInv'
  BY FilesStep DEF JarsKeepTheirId, FilesInv
<1>5. SavedUnlessFailed' /\ ServeInv'
  BY SavedStep, ServeStep DEF ServeInv
<1> QED BY <1>1, <1>2, <1>3, <1>4, <1>5
        DEF JarsKeepTheirId, FrameworkInv, FilesInv, ServeInv

LEMMA Inductive == Spec => []IInv
<1>1. Init => IInv
  BY InitIInv
<1>2. IInv /\ [Next]_vars => IInv'
  BY NextIInv
<1> QED BY <1>1, <1>2, PTL DEF Spec

-----------------------------------------------------------------------------
(* One page: what its list says of the plugins that run.                     *)

\* The list of the page shows a running plugin as started unless the settings
\* do not list it (its start could not be recorded), and lets a plugin that the
\* settings do not list go.  It lists nothing of the id of the jar that waits
\* to be added.
PageKnowsRunning ==
  \A a \in Admins :
    /\ page[a] = "plugins" =>
         \A p \in Plugins :
           /\ pstate[p] = "STARTED" => rows[a][p] = "started" \/ InfosOf(known, p) = {}
           /\ rows[a][p] = "gone" => InfosOf(known, p) = {}
    /\ pending[a] # None =>
         /\ page[a] = "plugins"
         /\ rows[a][JarId[pending[a]]] \in {"none", "gone"}

\* What a command of the page does to the list, the upload and the settings.
LEMMA OtherPluginsUnlisted ==
  ASSUME TypeOK, NEW a \in Admins, NEW p \in Plugins, NEW q \in Plugins, q # p,
         NEW state \in {"STARTED", "STOPPED"}, NEW shown \in RowStates,
         RecordState(a, p, state, shown), InfosOf(known, q) = {}
  PROVE  InfosOf(known', q) = {}
<1>1. ASSUME NEW info \in InfosOf(known, p),
             UpdateMainSettings((known \ {info}) \cup {[info EXCEPT !.state = state]}, acrMap)
      PROVE  InfosOf(known', q) = {}
  <2>1. info \in PluginInfo /\ info.id = p
    BY DEF InfosOf, TypeOK, SettingsTypeOK
  <2>2. [info EXCEPT !.state = state].id = p
    BY <2>1 DEF PluginInfo
  <2> QED BY <1>1, <2>2 DEF InfosOf, UpdateMainSettings
<1> QED BY <1>1 DEF RecordState, settings

LEMMA RecordKnowsRunning ==
  ASSUME \A b, c \in Admins : b = c,
         TypeOK, PageKnowsRunning, NEW a \in Admins, NEW p \in Plugins,
         StartPlugin(a, p) \/ StopPlugin(a, p)
  PROVE  PageKnowsRunning'
<1>1. PICK state \in {"STARTED", "STOPPED"}, shown \in {"started", "stopped"} :
        /\ RecordState(a, p, state, shown)
        /\ state = "STARTED" <=> shown = "started"
        /\ pstate' = [pstate EXCEPT ![p] = state]
  BY DEF StartPlugin, StopPlugin, StartInFramework, StopInFramework
<1>2. /\ page' = page /\ page[a] = "plugins"
      /\ rows[a][p] \in {"started", "stopped", "gone"}
      /\ rows[a][p] = "started" => state = "STOPPED"
  BY <1>1 DEF StartPlugin, StopPlugin, OnPluginsPage, StartInFramework, StopInFramework,
              TypeOK, FrameworkTypeOK
<1>3. rows[a][p] = "gone" => InfosOf(known, p) = {}
  BY <1>2 DEF PageKnowsRunning
<1>4. /\ \/ rows' = RowsShowing(a, p, shown)
         \/ rows' = rows /\ InfosOf(known', p) = {}
      /\ rows[a][p] = "gone" => rows' = rows /\ known' = known
      /\ pending' \in {pending, [pending EXCEPT ![a] = None]}
  BY <1>1, <1>3 DEF RecordState, settings
<1>5. /\ \/ rows'[a][p] = shown
         \/ rows'[a][p] = rows[a][p] /\ InfosOf(known', p) = {}
      /\ \A q \in Plugins : q # p => RowKept(a, q)
  <2>1. CASE rows' = RowsShowing(a, p, shown)
    BY <2>1, ShowingRows DEF TypeOK, RowStates
  <2>2. CASE rows' = rows /\ InfosOf(known', p) = {}
    BY <2>2 DEF RowKept
  <2> QED BY <1>4, <2>1, <2>2
<1>6. \A q \in Plugins : q # p => pstate'[q] = pstate[q]
  BY <1>1 DEF TypeOK, FrameworkTypeOK
<1>7. ASSUME NEW q \in Plugins, pstate'[q] = "STARTED"
      PROVE  rows'[a][q] = "started" \/ InfosOf(known', q) = {}
  <2>1. CASE q = p
    <3>1. state = "STARTED" /\ shown = "started"
      BY <1>1, <1>7, <2>1 DEF TypeOK, FrameworkTypeOK
    <3> QED BY <1>5, <2>1, <3>1
  <2>2. CASE q # p
    <3>1. rows[a][q] = "started" \/ InfosOf(known, q) = {}
      BY <1>2, <1>6, <1>7, <2>2 DEF PageKnowsRunning
    <3>2. rows[a][q] = "started" => rows'[a][q] = "started"
      BY <1>5, <2>2 DEF RowKept
    <3>3. InfosOf(known, q) = {} => InfosOf(known', q) = {}
      BY <1>1, <2>2, OtherPluginsUnlisted DEF RowStates
    <3> QED BY <3>1, <3>2, <3>3
  <2> QED BY <2>1, <2>2
<1>8. ASSUME NEW q \in Plugins, rows'[a][q] = "gone"
      PROVE  InfosOf(known', q) = {}
  <2>1. CASE q = p
    BY <1>1, <1>3, <1>4, <1>5, <1>8, <2>1
  <2>2. CASE q # p
    <3>1. rows[a][q] = "gone"
      BY <1>5, <1>8, <2>2 DEF RowKept
    <3>2. InfosOf(known, q) = {}
      BY <1>2, <3>1 DEF PageKnowsRunning
    <3> QED BY <1>1, <2>2, <3>2, OtherPluginsUnlisted DEF RowStates
  <2> QED BY <2>1, <2>2
<1>9. ASSUME pending'[a] # None
      PROVE  rows'[a][JarId[pending'[a]]] \in {"none", "gone"}
  <2> DEFINE u == JarId[pending[a]]
  <2>1. pending'[a] = pending[a] /\ pending[a] # None
    BY <1>4, <1>9 DEF TypeOK, PagesTypeOK
  <2>2. u \in Plugins
    BY <2>1, JarsAssumption DEF TypeOK, PagesTypeOK
  <2>3. rows[a][u] \in {"none", "gone"}
    BY <2>1 DEF PageKnowsRunning
  <2>4. pending'[a] # None => JarId[pending'[a]] = u
    BY <2>1
  <2> HIDE DEF u
  <2>5. CASE u = p
    BY <1>2, <1>4, <1>9, <2>3, <2>4, <2>5
  <2>6. CASE u # p
    BY <1>5, <1>9, <2>2, <2>3, <2>4, <2>6 DEF RowKept
  <2> QED BY <2>5, <2>6
<1> QED BY <1>2, <1>7, <1>8, <1>9 DEF PageKnowsRunning

LEMMA DeleteKnowsRunning ==
  ASSUME \A b, c \in Admins : b = c,
         TypeOK, PageKnowsRunning, NEW a \in Admins, NEW p \in Plugins, DeletePlugin(a, p)
  PROVE  PageKnowsRunning'
<1>1. /\ page' = page /\ page[a] = "plugins"
      /\ pstate' = [pstate EXCEPT ![p] = "ABSENT"]
      /\ pending' \in {pending, [pending EXCEPT ![a] = None]}
      /\ known' \subseteq known
  BY DEF DeletePlugin, OnPluginsPage, UnloadInFramework, UpdateMainSettings, settings
<1>2. \A q \in Plugins : InfosOf(known', q) \subseteq InfosOf(known, q)
  BY <1>1 DEF InfosOf
<1>3. /\ rows'[a][p] \in {"none", "gone"}
      /\ \A q \in Plugins : q # p => RowKept(a, q)
  BY DeletingRows DEF TypeOK
<1>4. pstate'[p] = "ABSENT" /\ \A q \in Plugins : q # p => pstate'[q] = pstate[q]
  BY <1>1 DEF TypeOK, FrameworkTypeOK
<1>5. ASSUME NEW q \in Plugins, pstate'[q] = "STARTED"
      PROVE  rows'[a][q] = "started" \/ InfosOf(known', q) = {}
  BY <1>1, <1>2, <1>3, <1>4, <1>5 DEF PageKnowsRunning, RowKept
<1>6. ASSUME NEW q \in Plugins, rows'[a][q] = "gone"
      PROVE  InfosOf(known', q) = {}
  <2>1. rows[a][q] = "gone" => InfosOf(known', q) = {}
    BY <1>1, <1>2 DEF PageKnowsRunning
  <2>2. CASE q = p
    <3>1. \/ rows'[a][p] = "none"
          \/ InfosOf(known, p) = {}
          \/ rows[a][p] = "gone"
      <4>1. rows' = RowsShowing(a, p, "none") => rows'[a][p] = "none"
        BY ShowingRows DEF TypeOK, RowStates
      <4> QED BY <4>1 DEF DeletePlugin
    <3> QED BY <1>2, <1>6, <2>1, <2>2, <3>1
  <2>3. CASE q # p
    BY <1>3, <1>6, <2>1, <2>3 DEF RowKept
  <2> QED BY <2>2, <2>3
<1>7. ASSUME pending'[a] # None
      PROVE  rows'[a][JarId[pending'[a]]] \in {"none", "gone"}
  <2>1. pending'[a] = pending[a] /\ pending[a] # None
    BY <1>1, <1>7 DEF TypeOK, PagesTypeOK
  <2>2. JarId[pending[a]] \in Plugins
    BY <2>1, JarsAssumption DEF TypeOK, PagesTypeOK
  <2> QED BY <1>3, <2>1, <2>2 DEF PageKnowsRunning, RowKept
<1> QED BY <1>1, <1>5, <1>6, <1>7 DEF PageKnowsRunning

LEMMA PendingKnowsRunning ==
  ASSUME \A b, c \in Admins : b = c,
         TypeOK, PageKnowsRunning, NEW a \in Admins, AddPlugin(a) \/ CancelAdd(a)
  PROVE  PageKnowsRunning'
<1> DEFINE p == JarId[pending[a]]
<1>1. /\ page' = page /\ page[a] = "plugins" /\ pending[a] # None
      /\ pending' = [pending EXCEPT ![a] = None]
  BY DEF AddPlugin, CancelAdd, OnPluginsPage
<1>2. p \in Plugins /\ pending'[a] = None
  BY <1>1, JarsAssumption DEF TypeOK, PagesTypeOK
<1>3. CASE AddPlugin(a)
  <2> DEFINE entry == [id |-> p, jar |-> pending[a], state |-> "STARTED"]
  <2>1. /\ rows' = RowsShowing(a, p, "started")
        /\ pstate' = [pstate EXCEPT ![p] = "STARTED"]
        /\ known' = known \cup {entry}
    BY <1>3 DEF AddPlugin, StartInFramework, UpdateMainSettings
  <2>2. entry.id = p
    OBVIOUS
  <2> HIDE DEF p, entry
  <2>3. rows'[a][p] = "started" /\ \A q \in Plugins : q # p => RowKept(a, q)
    BY <1>2, <2>1, ShowingRows DEF TypeOK, RowStates
  <2>4. \A q \in Plugins : q # p => pstate'[q] = pstate[q] /\ InfosOf(known', q) = InfosOf(known, q)
    BY <2>1, <2>2 DEF InfosOf, TypeOK, FrameworkTypeOK
  <2>5. ASSUME NEW q \in Plugins
        PROVE  /\ pstate'[q] = "STARTED" => rows'[a][q] = "started" \/ InfosOf(known', q) = {}
               /\ rows'[a][q] = "gone" => InfosOf(known', q) = {}
    <3>1. CASE q = p
      BY <2>3, <3>1
    <3>2. CASE q # p
      BY <1>1, <2>3, <2>4, <3>2 DEF PageKnowsRunning, RowKept
    <3> QED BY <3>1, <3>2
  <2> QED BY <1>1, <1>2, <2>5 DEF PageKnowsRunning
<1>4. CASE CancelAdd(a)
  <2>1. /\ rows' = rows /\ known' = known
        /\ pstate' \in {pstate, [pstate EXCEPT ![p] = "ABSENT"]}
    BY <1>4 DEF CancelAdd, UnloadInFramework, framework, settings
  <2>2. \A q \in Plugins : pstate'[q] = "STARTED" => pstate[q] = "STARTED"
    BY <2>1 DEF TypeOK, FrameworkTypeOK
  <2> QED BY <1>1, <1>2, <2>1, <2>2 DEF PageKnowsRunning
<1> QED BY <1>3, <1>4

LEMMA UploadKnowsRunning ==
  ASSUME \A b, c \in Admins : b = c,
         TypeOK, PageKnowsRunning, NEW a \in Admins, NEW jar \in Jars, Uploaded(a, jar)
  PROVE  PageKnowsRunning'
<1> DEFINE p == JarId[jar]
<1>1. /\ page' = page /\ rows' = rows /\ known' = known
      /\ page[a] = "plugins" /\ pending[a] = None /\ rows[a][p] \in {"none", "gone"}
  BY DEF Uploaded, OnPluginsPage, settings
<1>2. p \in Plugins
  BY JarsAssumption
<1>3. \/ pending' = [pending EXCEPT ![a] = jar] /\ pstate' = [pstate EXCEPT ![p] = "RESOLVED"]
      \/ pending' = pending /\ pstate' = pstate
  BY DEF Uploaded, LoadInFramework, framework
<1>4. /\ \A q \in Plugins : pstate'[q] = "STARTED" => pstate[q] = "STARTED"
      /\ pending'[a] \in {None, jar}
  BY <1>1, <1>2, <1>3 DEF TypeOK, FrameworkTypeOK, PagesTypeOK
<1> QED BY <1>1, <1>2, <1>4 DEF PageKnowsRunning

LEMMA OpenKnowsRunning ==
  ASSUME \A b, c \in Admins : b = c,
         TypeOK, NEW a \in Admins, OpenPluginsPage(a) \/ OpenMethodsPage(a)
  PROVE  PageKnowsRunning'
<1>1. PICK shown \in {"plugins", "methods", "error"},
           list \in {PluginList, NoRows}, status \in {NoMethods, MethodStatus} :
        ShowPage(a, shown, list, status) /\ (shown = "plugins" => list = PluginList)
  BY DEF OpenPluginsPage, OpenMethodsPage
<1>2. /\ page'[a] = shown /\ rows'[a] = list /\ pending'[a] = None /\ pstate' = pstate
  BY <1>1 DEF ShowPage, TypeOK, PagesTypeOK, framework
<1>3. \A q \in Plugins : /\ pstate[q] = "STARTED" => PluginList[q] = "started"
                         /\ PluginList[q] # "gone"
  BY DEF PluginList, TypeOK, FrameworkTypeOK
<1> QED BY <1>1, <1>2, <1>3 DEF PageKnowsRunning

LEMMA KnowsRunningStep ==
  ASSUME \A b, c \in Admins : b = c,
         TypeOK, NothingBeforeScan, PageKnowsRunning, [Next]_vars
  PROVE  PageKnowsRunning'
<1>1. CASE StartupJob
  BY <1>1 DEF StartupJob, NothingBeforeScan, PageKnowsRunning
<1>2. CASE Restart
  BY <1>2 DEF Restart, PageKnowsRunning
<1>3. ASSUME NEW a \in Admins, ShowPlugin(a)
      PROVE  PageKnowsRunning'
  <2>1. pending'[a] = None /\ UNCHANGED <<page, pstate, known>>
    BY <1>3 DEF ShowPlugin, framework, settings, TypeOK, PagesTypeOK
  <2>2. \A q \in Plugins : RowKept(a, q)
    BY <1>3, RefreshingRows DEF ShowPlugin, TypeOK
  <2> QED BY <2>1, <2>2 DEF PageKnowsRunning, RowKept
<1>4. CASE \/ UNCHANGED vars
           \/ \E a \in Admins : \/ SaveMethods(a)
                                \/ \E acr \in Acrs, checked \in BOOLEAN : CheckMethod(a, acr, checked)
  <2>1. UNCHANGED <<page, rows, pending, pstate, known>>
    BY <1>4 DEF vars, framework, settings, SaveMethods, CheckMethod, UpdateMainSettings
  <2> QED BY <2>1 DEF PageKnowsRunning
<1> QED
  BY <1>1, <1>2, <1>3, <1>4, OpenKnowsRunning, UploadKnowsRunning, PendingKnowsRunning,
     RecordKnowsRunning, DeleteKnowsRunning
  DEF Next

\* A plugin that ceases to run is stopped (and the one entry it has is given
\* the new state), or has no entry: nothing else of one page takes a running
\* plugin away.
LEMMA StopRecordsStep ==
  ASSUME \A b, c \in Admins : b = c,
         TypeOK, PageKnowsRunning, [Next]_vars,
         KnownIdsUnique, appState = "OPERATING", appState' = "OPERATING",
         NEW p \in Plugins, pstate[p] = "STARTED", pstate'[p] # "STARTED"
  PROVE  \A info \in InfosOf(known', p) : info.state # "STARTED"
<1>1. ASSUME NEW a \in Admins, NEW q \in Plugins, StopPlugin(a, q)
      PROVE  \A info \in InfosOf(known', p) : info.state # "STARTED"
  <2>1. q = p /\ RecordState(a, q, "STOPPED", "stopped")
    BY <1>1 DEF StopPlugin, StopInFramework, TypeOK, FrameworkTypeOK
  <2>2. CASE InfosOf(known, p) = {} /\ known' = known
    BY <2>2
  <2>3. ASSUME NEW info \in InfosOf(known, p),
               UpdateMainSettings((known \ {info}) \cup {[info EXCEPT !.state = "STOPPED"]}, acrMap)
        PROVE  \A one \in InfosOf(known', p) : one.state # "STARTED"
    <3>1. info \in PluginInfo /\ info \in known /\ info.id = p
      BY DEF InfosOf, TypeOK, SettingsTypeOK
    <3>2. [info EXCEPT !.state = "STOPPED"].state = "STOPPED"
      BY <3>1 DEF PluginInfo
    <3>3. \A one \in known \ {info} : one.id # p
      BY <3>1 DEF KnownIdsUnique
    <3> QED BY <2>3, <3>2, <3>3 DEF InfosOf, UpdateMainSettings
  <2>4. rows[a][q] # "gone"
    BY <1>1 DEF StopPlugin
  <2> QED BY <2>1, <2>2, <2>3, <2>4 DEF RecordState, settings
<1>2. ASSUME NEW a \in Admins, NEW q \in Plugins, DeletePlugin(a, q)
      PROVE  \A info \in InfosOf(known', p) : info.state # "STARTED"
  <2>1. q = p /\ rows[a][p] \in {"stopped", "gone"} /\ page[a] = "plugins"
    BY <1>2 DEF DeletePlugin, UnloadInFramework, OnPluginsPage, TypeOK, FrameworkTypeOK
  <2>2. InfosOf(known, p) = {}
    BY <2>1 DEF PageKnowsRunning
  <2>3. known' \subseteq known
    BY <1>2 DEF DeletePlugin, UpdateMainSettings, settings
  <2> QED BY <2>2, <2>3 DEF InfosOf
<1>3. ASSUME NEW a \in Admins, NEW jar \in Jars, Uploaded(a, jar)
      PROVE  InfosOf(known', p) = {}
  <2>1. /\ rows[a][JarId[jar]] \in {"none", "gone"} /\ page[a] = "plugins"
        /\ JarId[jar] = p /\ known' = known
    BY <1>3, JarsAssumption
    DEF Uploaded, LoadInFramework, OnPluginsPage, framework, settings, TypeOK, FrameworkTypeOK
  <2> QED BY <2>1 DEF PageKnowsRunning
<1>4. ASSUME NEW a \in Admins, CancelAdd(a)
      PROVE  InfosOf(known', p) = {}
  <2>1. pending[a] # None /\ JarId[pending[a]] = p /\ known' = known
    BY <1>4 DEF CancelAdd, UnloadInFramework, framework, settings, TypeOK, FrameworkTypeOK
  <2> QED BY <2>1 DEF PageKnowsRunning
<1>5. ASSUME NEW a \in Admins, AddPlugin(a) \/ \E q \in Plugins : StartPlugin(a, q)
      PROVE  FALSE
  BY <1>5 DEF AddPlugin, StartPlugin, StartInFramework, TypeOK, FrameworkTypeOK
<1>6. pstate' # pstate /\ ~StartupJob /\ ~Restart
  BY DEF StartupJob, Restart
<1> QED
  BY <1>1, <1>2, <1>3, <1>4, <1>5, <1>6
  DEF Next, vars, framework, OpenPluginsPage, OpenMethodsPage, ShowPage, ShowPlugin,
      CheckMethod, SaveMethods

-----------------------------------------------------------------------------
(* Theorems *)

\* Every variable keeps its type, in whatever order startups, crashes, failing
\* saves and the commands of any number of pages come.
THEOREM TypeCorrect == Spec => []TypeOK
<1>1. IInv => TypeOK
  BY DEF IInv
<1> QED BY <1>1, Inductive, PTL

\* While the application operates, the plugin that a method is mapped to runs
\* and has its extension registered: stale pages, uploads of another jar of
\* the same id, cancelled uploads and saved mappings cannot take it away.
THEOREM MappedPluginsServe == Spec => []MappedPluginServes
<1>1. IInv => MappedPluginServes
  BY DEF IInv
<1> QED BY <1>1, Inductive, PTL

\* What the services hold for a plugin is what its state calls for.
THEOREM RegistrationsFollow == Spec => []RegistrationFollowsState
<1>1. IInv => RegistrationFollowsState
  BY DEF IInv
<1> QED BY <1>1, Inductive, PTL

\* Startup never meets a listed plugin whose jar was purged.
THEOREM ListedJarsAreKept == Spec => []ListedJarsExist
<1>1. IInv => ListedJarsExist
  BY DEF IInv
<1> QED BY <1>1, Inductive, PTL

\* Memory and settings file differ only after a save that was reported to have
\* failed, or in the default mapping.
THEOREM SettingsAreSaved == Spec => []SavedUnlessFailed
<1>1. IInv => SavedUnlessFailed
  BY DEF IInv
<1> QED BY <1>1, Inductive, PTL

\* With a single page, a plugin with one entry in the settings that ceases to
\* run is not recorded as started any more: the row that is stopped or deleted
\* tells the state of the plugin, and no upload replaces one that runs.  (The
\* hypothesis is the property's own: a second page's list may be out of date.)
THEOREM StopsRecorded ==
  ASSUME \A a, b \in Admins : a = b
  PROVE  Spec => StopsAreRecorded
<1> DEFINE Stops == KnownIdsUnique /\ appState = "OPERATING" /\ appState' = "OPERATING" =>
                      \A p \in Plugins : pstate[p] = "STARTED" /\ pstate'[p] # "STARTED"
                        => \A info \in InfosOf(known', p) : info.state # "STARTED"
<1>1. Init => PageKnowsRunning
  BY DEF Init, PageKnowsRunning
<1>2. IInv /\ PageKnowsRunning /\ [Next]_vars => PageKnowsRunning'
  BY KnowsRunningStep DEF IInv
<1>3. IInv /\ PageKnowsRunning /\ [Next]_vars => [Stops]_vars
  BY StopRecordsStep DEF IInv
<1>4. Spec => [][Stops]_vars
  BY <1>1, <1>2, <1>3, Inductive, PTL DEF Spec
<1> QED BY <1>4 DEF StopsAreRecorded

\* Startup stays in LOADING after the acrs are known only while some method is
\* mapped to a plugin without registered extensions: whatever the framework
\* loaded and started, nothing but that lookup ends the job early.
StuckInLookupOnly == appState = "LOADING" /\ scanned => LookupThrows(extMap)

\* The one exception StartupEnds makes is the only one, for every set of
\* plugins and every settings file: a scan that neither operates nor throws in
\* the lookup does not exist, and nothing changes the mapping until a restart.
THEOREM OnlyLookupHoldsStartup == Spec => []StuckInLookupOnly
<1>1. Init => StuckInLookupOnly
  BY DEF Init, StuckInLookupOnly
<1>2. ASSUME IInv, StuckInLookupOnly, [Next]_vars
      PROVE  StuckInLookupOnly'
  <2>1. CASE StartupJob
    <3>1. PICK load \in Loadings : \E up \in SUBSET ToStart(load) :
                 Scan(load, up) /\ RefreshAcrPluginMapping(Scanned(load, up))
      BY <2>1 DEF StartupJob
    <3>2. PICK up \in SUBSET ToStart(load) :
                 Scan(load, up) /\ RefreshAcrPluginMapping(Scanned(load, up))
      BY <3>1
    <3>3. appState' = "LOADING" => LookupThrows(extMap') /\ acrMap' = acrMap
      BY <2>1, <3>2 DEF StartupJob, Scan, RefreshAcrPluginMapping, settings
    <3> QED BY <3>3 DEF StuckInLookupOnly, LookupThrows
  <2>2. CASE Restart
    BY <2>2 DEF Restart, StuckInLookupOnly
  <2>3. ASSUME NEW a \in Admins,
               \/ OpenPluginsPage(a)
               \/ \E jar \in Jars : Uploaded(a, jar)
               \/ ShowPlugin(a)
               \/ AddPlugin(a)
               \/ CancelAdd(a)
               \/ \E p \in Plugins : StartPlugin(a, p) \/ StopPlugin(a, p) \/ DeletePlugin(a, p)
               \/ OpenMethodsPage(a)
               \/ \E acr \in Acrs, checked \in BOOLEAN : CheckMethod(a, acr, checked)
               \/ SaveMethods(a)
        PROVE  StuckInLookupOnly'
    <3>1. appState = "OPERATING" /\ UNCHANGED startup
      BY <2>3
      DEF OpenPluginsPage, OpenMethodsPage, ShowPage, Uploaded, ShowPlugin, AddPlugin,
          CancelAdd, StartPlugin, StopPlugin, DeletePlugin, CheckMethod, SaveMethods, OnPluginsPage
    <3> QED BY <3>1 DEF StuckInLookupOnly, startup
  <2>4. CASE UNCHANGED vars
    BY <1>2, <2>4 DEF vars, startup, framework, settings, StuckInLookupOnly, LookupThrows
  <2>5. CASE Next
    BY <2>1, <2>2, <2>3, <2>5 DEF Next
  <2> QED BY <1>2, <2>4, <2>5
<1> QED BY <1>1, <1>2, Inductive, PTL DEF Spec

-----------------------------------------------------------------------------
(* When no two entries of the settings have the same id.                     *)

\* The startup loads every plugin the settings list.
StartupLoadsAll == StartupJob => \A info \in known : pstate'[info.id] # "ABSENT"

\* A plugin with an entry is loaded, and so has a row in every plugins page, which
\* refuses to upload another jar of its id; and the jar that waits to be added is
\* of an id that has no entry.
ListedAreLoaded ==
  /\ scanned => \A info \in known : pstate[info.id] # "ABSENT"
  /\ \A a \in Admins : page[a] = "plugins" =>
       \A info \in known : rows[a][info.id] \notin {"none", "gone"}
  /\ \A a \in Admins : pending[a] # None =>
       scanned /\ InfosOf(known, JarId[pending[a]]) = {}

UniqueIds(infos) == \A one, other \in infos : one.id = other.id => one = other

UniqueInv == UniqueIds(known) /\ UniqueIds(savedKnown) /\ ListedAreLoaded

\* A save leaves the file with the plugins it had, or with those in memory.
LEMMA SavedEither ==
  ASSUME NEW k, NEW m, UpdateMainSettings(k, m)
  PROVE  known' = k /\ savedKnown' \in {k, savedKnown}
BY DEF UpdateMainSettings

LEMMA RecordStaysUnique ==
  ASSUME TypeOK, UniqueInv, NEW a \in Admins, NEW p \in Plugins,
         NEW state \in {"STARTED", "STOPPED"}, NEW shown \in {"started", "stopped"},
         RecordState(a, p, state, shown), page' = page, NEW framed \in {"STARTED", "STOPPED"},
         pstate' = [pstate EXCEPT ![p] = framed], scanned' = scanned
  PROVE  UniqueInv'
<1>1. \A q \in Plugins : pstate'[q] = "ABSENT" => pstate[q] = "ABSENT"
  BY DEF TypeOK, FrameworkTypeOK
<1>4. \A b \in Admins, q \in Plugins :
        rows'[b][q] \in {"none", "gone"} => rows[b][q] \in {"none", "gone"}
  <2>1. rows' = rows \/ rows' = RowsShowing(a, p, shown)
    BY DEF RecordState
  <2>2. CASE rows' = RowsShowing(a, p, shown)
    BY <2>2, ShowingRows DEF RowKept, TypeOK, RowStates
  <2> QED BY <2>1, <2>2
<1>2. ASSUME NEW info \in InfosOf(known, p),
             UpdateMainSettings((known \ {info}) \cup {[info EXCEPT !.state = state]}, acrMap),
             pending' = [pending EXCEPT ![a] = None]
      PROVE  UniqueInv'
  <2> DEFINE entry == [info EXCEPT !.state = state]
  <2>1. /\ known' = (known \ {info}) \cup {entry}
        /\ savedKnown' \in {known', savedKnown}
    BY <1>2, SavedEither
  <2>2. info \in known /\ info \in PluginInfo /\ info.id = p /\ entry.id = p
    BY DEF InfosOf, TypeOK, SettingsTypeOK, PluginInfo
  <2>3. \A one \in known \ {info} : one.id # p
    BY <2>2 DEF UniqueInv, UniqueIds
  <2> HIDE DEF entry
  <2>4. UniqueIds(known')
    BY <2>1, <2>2, <2>3 DEF UniqueInv, UniqueIds
  <2>5. \A one \in known' : \E other \in known : other.id = one.id
    BY <2>1, <2>2
  <2>6. known' \subseteq PluginInfo \cup {entry}
    BY <2>1 DEF TypeOK, SettingsTypeOK
  <2>7. \A one \in known' : one.id \in Plugins
    BY <2>2, <2>6 DEF PluginInfo
  <2>8. ASSUME scanned', NEW one \in known' PROVE pstate'[one.id] # "ABSENT"
    BY <1>1, <2>5, <2>7, <2>8 DEF UniqueInv, ListedAreLoaded
  <2>9. ASSUME NEW b \in Admins, pending'[b] # None
        PROVE  scanned' /\ InfosOf(known', JarId[pending'[b]]) = {}
    <3>1. pending'[b] = pending[b]
      BY <1>2, <2>9 DEF TypeOK, PagesTypeOK
    <3>2. scanned /\ InfosOf(known, JarId[pending[b]]) = {}
      BY <2>9, <3>1 DEF UniqueInv, ListedAreLoaded
    <3> QED BY <2>5, <3>1, <3>2 DEF InfosOf
  <2>11. ASSUME NEW b \in Admins, page'[b] = "plugins", NEW one \in known'
         PROVE  rows'[b][one.id] \notin {"none", "gone"}
    BY <1>4, <2>5, <2>7, <2>11 DEF UniqueInv, ListedAreLoaded
  <2>10. ListedAreLoaded'
    BY <2>8, <2>9, <2>11 DEF ListedAreLoaded
  <2> QED BY <2>1, <2>4, <2>10 DEF UniqueInv
<1>3. CASE UNCHANGED <<settings, pending>>
  <2>1. known' = known /\ savedKnown' = savedKnown /\ pending' = pending
    BY <1>3 DEF settings
  <2>2. \A one \in known : one.id \in Plugins
    BY DEF TypeOK, SettingsTypeOK, PluginInfo
  <2>3. ListedAreLoaded'
    BY <1>1, <1>4, <2>1, <2>2 DEF UniqueInv, ListedAreLoaded
  <2> QED BY <2>1, <2>3 DEF UniqueInv
<1> QED BY <1>2, <1>3 DEF RecordState

LEMMA DeleteStaysUnique ==
  ASSUME TypeOK, UniqueInv, NEW a \in Admins, NEW p \in Plugins, DeletePlugin(a, p)
  PROVE  UniqueInv'
<1>1. /\ scanned' = scanned /\ page' = page
      /\ pending' \in {pending, [pending EXCEPT ![a] = None]}
  BY DEF DeletePlugin, startup
<1>7. /\ known' \subseteq known /\ \A info \in known' : info.id # p
      /\ savedKnown' \in {known', savedKnown}
  <2>1. ASSUME NEW info \in InfosOf(known, p), UpdateMainSettings(known \ {info}, acrMap)
        PROVE  /\ known' \subseteq known /\ \A one \in known' : one.id # p
               /\ savedKnown' \in {known', savedKnown}
    BY <2>1, SavedEither DEF InfosOf, UniqueInv, UniqueIds
  <2>2. CASE InfosOf(known, p) = {} /\ UNCHANGED settings
    BY <2>2 DEF InfosOf, settings
  <2>3. rows[a][p] = "gone" => InfosOf(known, p) = {}
    BY DEF DeletePlugin, OnPluginsPage, UniqueInv, ListedAreLoaded, InfosOf
  <2>4. \/ \E info \in InfosOf(known, p) : UpdateMainSettings(known \ {info}, acrMap)
        \/ InfosOf(known, p) = {} /\ UNCHANGED settings
    BY <2>3 DEF DeletePlugin
  <2> QED BY <2>1, <2>2, <2>4
<1>2. pstate' = [pstate EXCEPT ![p] = "ABSENT"]
  BY DEF DeletePlugin, UnloadInFramework
<1>3. \A info \in known' : info.id \in Plugins /\ pstate'[info.id] = pstate[info.id]
  BY <1>2, <1>7 DEF TypeOK, FrameworkTypeOK, SettingsTypeOK, PluginInfo
<1>8. \A b \in Admins, info \in known' : RowKept(b, info.id)
  BY <1>3, <1>7, DeletingRows DEF TypeOK
<1>4. \A b \in Admins : pending'[b] # None => pending'[b] = pending[b]
  BY <1>1 DEF TypeOK, PagesTypeOK
<1>5. ListedAreLoaded'
  BY <1>1, <1>3, <1>4, <1>7, <1>8 DEF UniqueInv, ListedAreLoaded, InfosOf, RowKept
<1>6. UniqueIds(known') /\ UniqueIds(savedKnown')
  BY <1>7 DEF UniqueInv, UniqueIds
<1> QED BY <1>5, <1>6 DEF UniqueInv

LEMMA PendingStaysUnique ==
  ASSUME \A b, c \in Admins : b = c,
         TypeOK, UniqueInv, NEW a \in Admins, AddPlugin(a) \/ CancelAdd(a)
  PROVE  UniqueInv'
<1> DEFINE p == JarId[pending[a]]
           entry == [id |-> p, jar |-> pending[a], state |-> "STARTED"]
<1>1. /\ pending[a] # None /\ pending' = [pending EXCEPT ![a] = None]
      /\ scanned' = scanned /\ page' = page
  BY DEF AddPlugin, CancelAdd, startup
<1>2. /\ p \in Plugins /\ \A info \in known : info.id # p
      /\ \A b \in Admins : pending'[b] = None
  BY <1>1, JarsAssumption DEF TypeOK, PagesTypeOK, UniqueInv, ListedAreLoaded, InfosOf
<1>3. \A info \in known : info.id \in Plugins
  BY DEF TypeOK, SettingsTypeOK, PluginInfo
<1>4. CASE AddPlugin(a)
  <2>1. /\ known' = known \cup {entry} /\ savedKnown' \in {known', savedKnown}
        /\ pstate' = [pstate EXCEPT ![p] = "STARTED"]
        /\ rows' = RowsShowing(a, p, "started")
    BY <1>4, SavedEither DEF AddPlugin, StartInFramework
  <2>2. entry.id = p
    OBVIOUS
  <2> HIDE DEF p, entry
  <2>3. UniqueIds(known')
    BY <1>2, <2>1, <2>2 DEF UniqueInv, UniqueIds
  <2>4. \A info \in known' : info.id = p \/ info \in known
    BY <2>1, <2>2
  <2>5. pstate'[p] # "ABSENT" /\ \A q \in Plugins : q # p => pstate'[q] = pstate[q]
    BY <1>2, <2>1 DEF TypeOK, FrameworkTypeOK
  <2>7. ASSUME NEW b \in Admins, page'[b] = "plugins", NEW info \in known'
        PROVE  rows'[b][info.id] \notin {"none", "gone"}
    <3>1. b = a /\ page[b] = "plugins"
      BY <1>1, <2>7
    <3>2. rows'[a][p] = "started" /\ \A q \in Plugins : q # p => RowKept(a, q)
      BY <1>2, <2>1, ShowingRows DEF TypeOK, RowStates
    <3> QED BY <1>3, <2>4, <2>7, <3>1, <3>2 DEF UniqueInv, ListedAreLoaded, RowKept
  <2>6. ListedAreLoaded'
    BY <1>1, <1>2, <1>3, <2>4, <2>5, <2>7 DEF UniqueInv, ListedAreLoaded
  <2> QED BY <2>1, <2>3, <2>6 DEF UniqueInv
<1>5. CASE CancelAdd(a)
  <2>1. /\ known' = known /\ savedKnown' = savedKnown /\ rows' = rows
        /\ pstate' \in {pstate, [pstate EXCEPT ![p] = "ABSENT"]}
    BY <1>5 DEF CancelAdd, UnloadInFramework, framework, settings
  <2> HIDE DEF p
  <2>2. \A info \in known : pstate'[info.id] = pstate[info.id]
    BY <1>2, <1>3, <2>1 DEF TypeOK, FrameworkTypeOK
  <2> QED BY <1>1, <1>2, <2>1, <2>2 DEF UniqueInv, ListedAreLoaded
<1> QED BY <1>4, <1>5

\* A jar of an id that has an entry is not uploaded: the page has a row for it.
LEMMA UploadStaysUnique ==
  ASSUME TypeOK, NothingBeforeScan, UniqueInv, NEW a \in Admins, NEW jar \in Jars, Uploaded(a, jar)
  PROVE  UniqueInv'
<1> DEFINE p == JarId[jar]
<1>1. /\ UNCHANGED <<known, savedKnown, scanned, page, rows>> /\ scanned
  BY DEF Uploaded, OnPluginsPage, settings, startup, NothingBeforeScan
<1>2. /\ pstate' \in {pstate, [pstate EXCEPT ![p] = "RESOLVED"]}
      /\ pending' \in {pending, [pending EXCEPT ![a] = jar]}
  BY DEF Uploaded, LoadInFramework, framework
<1>3. p \in Plugins /\ \A info \in known : info.id \in Plugins
  BY JarsAssumption DEF TypeOK, SettingsTypeOK, PluginInfo
<1>4. InfosOf(known, p) = {}
  BY DEF Uploaded, OnPluginsPage, UniqueInv, ListedAreLoaded, InfosOf
<1>5. \A q \in Plugins : pstate'[q] = "ABSENT" => pstate[q] = "ABSENT"
  BY <1>2 DEF TypeOK, FrameworkTypeOK
<1>6. \A b \in Admins : pending'[b] \in {pending[b], jar}
  BY <1>2 DEF TypeOK, PagesTypeOK
<1>7. ASSUME NEW b \in Admins, pending'[b] # None
      PROVE  InfosOf(known, JarId[pending'[b]]) = {}
  BY <1>4, <1>6, <1>7 DEF UniqueInv, ListedAreLoaded
<1>8. ListedAreLoaded'
  BY <1>1, <1>3, <1>5, <1>7 DEF UniqueInv, ListedAreLoaded
<1> QED BY <1>1, <1>8 DEF UniqueInv

LEMMA UniqueStep ==
  ASSUME \A b, c \in Admins : b = c,
         TypeOK, NothingBeforeScan, UniqueInv, [Next]_vars, [StartupLoadsAll]_vars
  PROVE  UniqueInv'
<1>1. CASE StartupJob
  <2>1. known' = known /\ savedKnown' \in {known, savedKnown} /\ scanned'
    <3>1. PICK load \in Loadings, up \in SUBSET Plugins : RefreshAcrPluginMapping(Scanned(load, up))
      BY <1>1 DEF StartupJob, ToStart
    <3> QED BY <1>1, <3>1, SavedEither DEF StartupJob, RefreshAcrPluginMapping, settings
  <2>2. \A info \in known : pstate'[info.id] # "ABSENT"
    BY <1>1 DEF StartupLoadsAll, StartupJob, vars, startup
  <2>3. \A a \in Admins : pending'[a] = None /\ page'[a] # "plugins"
    BY <1>1 DEF StartupJob, NothingBeforeScan
  <2> QED BY <2>1, <2>2, <2>3 DEF UniqueInv, ListedAreLoaded
<1>2. CASE Restart
  BY <1>2 DEF Restart, UniqueInv, ListedAreLoaded
<1>3. ASSUME NEW a \in Admins, NEW p \in Plugins, StartPlugin(a, p) \/ StopPlugin(a, p)
      PROVE  UniqueInv'
  <2>1. CASE StartPlugin(a, p)
    BY <2>1, RecordStaysUnique DEF StartPlugin, StartInFramework, startup
  <2>2. CASE StopPlugin(a, p)
    BY <2>2, RecordStaysUnique DEF StopPlugin, StopInFramework, startup
  <2> QED BY <1>3, <2>1, <2>2
<1>4. ASSUME NEW a \in Admins,
             \/ OpenPluginsPage(a) \/ ShowPlugin(a) \/ OpenMethodsPage(a) \/ SaveMethods(a)
             \/ \E acr \in Acrs, checked \in BOOLEAN : CheckMethod(a, acr, checked)
      PROVE  UniqueInv'
  <2>1. /\ scanned' = scanned /\ pstate' = pstate /\ known' = known
        /\ savedKnown' \in {known, savedKnown}
    BY <1>4, SavedEither
    DEF OpenPluginsPage, ShowPlugin, OpenMethodsPage, ShowPage, SaveMethods, CheckMethod, startup,
        framework, settings
  <2>2. pending' \in {pending, [pending EXCEPT ![a] = None]}
    BY <1>4 DEF OpenPluginsPage, ShowPlugin, OpenMethodsPage, ShowPage, SaveMethods, CheckMethod
  <2>3. \A b \in Admins : pending'[b] # None => pending'[b] = pending[b]
    BY <2>2 DEF TypeOK, PagesTypeOK
  <2>4. ASSUME NEW b \in Admins, page'[b] = "plugins", NEW info \in known
        PROVE  rows'[b][info.id] \notin {"none", "gone"}
    <3>1. info.id \in Plugins
      BY DEF TypeOK, SettingsTypeOK, PluginInfo
    <3>2. CASE page'[b] = page[b] /\ rows'[b] = rows[b]
      BY <2>4, <3>2 DEF UniqueInv, ListedAreLoaded
    <3>3. CASE rows'[b] = PluginList /\ scanned
      <4>1. pstate[info.id] # "ABSENT"
        BY <3>3 DEF UniqueInv, ListedAreLoaded
      <4> QED BY <3>1, <3>3, <4>1 DEF PluginList
    <3>4. CASE OpenPluginsPage(a) \/ OpenMethodsPage(a)
      BY <2>4, <3>2, <3>3, <3>4
      DEF OpenPluginsPage, OpenMethodsPage, ShowPage, TypeOK, PagesTypeOK, NothingBeforeScan
    <3>5. CASE ShowPlugin(a)
      <4>1. RowKept(b, info.id) /\ page' = page
        BY <3>1, <3>5, RefreshingRows DEF ShowPlugin, TypeOK
      <4> QED BY <2>4, <4>1 DEF UniqueInv, ListedAreLoaded, RowKept
    <3>6. CASE UNCHANGED <<page, rows>>
      BY <3>2, <3>6
    <3> QED BY <1>4, <3>4, <3>5, <3>6 DEF SaveMethods, CheckMethod
  <2> QED BY <2>1, <2>3, <2>4 DEF UniqueInv, ListedAreLoaded
<1>5. CASE UNCHANGED vars
  BY <1>5 DEF vars, startup, framework, settings, UniqueInv, ListedAreLoaded
<1> QED
  BY <1>1, <1>2, <1>3, <1>4, <1>5, UploadStaysUnique, PendingStaysUnique, DeleteStaysUnique
  DEF Next

\* What KnownIdsUnique takes: one page at a time, settings files without
\* duplicates to begin with, and startups that load every plugin that has an
\* entry.  The comparison of the upload with the list of the page is enough then,
\* whatever saves fail, whenever the server is restarted, and whether or not the
\* framework refuses a second jar of an id.  (Two pages, or a plugin that does
\* not load at startup, are each enough to record an id twice.)
THEOREM IdsUniqueWhenAllLoad ==
  ASSUME \A a, b \in Admins : a = b,
         \A cfg \in InitialConfigs : UniqueIds(cfg.known)
  PROVE  Spec /\ [][StartupLoadsAll]_vars => []KnownIdsUnique
<1>1. Init => UniqueInv
  BY DEF Init, UniqueInv, ListedAreLoaded, UniqueIds
<1>2. IInv /\ UniqueInv /\ [Next]_vars /\ [StartupLoadsAll]_vars => UniqueInv'
  BY UniqueStep DEF IInv
<1>3. UniqueInv => KnownIdsUnique
  BY DEF UniqueInv, UniqueIds, KnownIdsUnique
<1> QED BY <1>1, <1>2, <1>3, Inductive, PTL DEF Spec

=============================================================================
