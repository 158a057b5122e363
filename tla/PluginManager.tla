----------------------------- MODULE PluginManager -----------------------------
(*****************************************************************************)
(* External plugins: the main process that discovers, verifies, loads and    *)
(* enables them (pluginManager.js, pluginHandler.js), and the renderer that  *)
(* loads their frontends (plugin-loader.service.ts, setting-menu).           *)
(*                                                                           *)
(* A manifest is what the program tells apart: what its top level says, what *)
(* its nested parts say, and its signature.  A plugin declares one invoke    *)
(* channel and one send channel.  npm installs, the wrappers handed to a     *)
(* backend, profile types and entries without a hash, which older versions   *)
(* wrote, are left out.                                                      *)
(*****************************************************************************)
EXTENDS Naturals, FiniteSets, Sequences, SequencesExt

CONSTANTS
  Plugin,     \* the ids of external directories
  Bundled,    \* those that are a bundled plugin's id as well
  Manifest,   \* the manifests: [top, nested, signature : {"none", "good", "bad"}]
  Example,    \* the manifest of the example plugins the application ships
  Loader,     \* the frontend loads that can be under way at once
  MaxOps,     \* bound: what users and disks do, together
  Absent      \* no directory, no entry, not discovered

VARIABLES
  disk,        \* the manifest in each external directory
  enabledList, \* enabled.json and _enabledList: the hash stored with each enabled id
  plugins,     \* pluginManager.plugins, the external ones
  handlers,    \* the plugins whose ipcMain.handle is registered
  listeners,   \* how many ipcMain.on each plugin has registered
  merged,      \* generated-plugin-manifest.json: the plugins it lists
  loader,      \* the frontend loads: where each is, and what it has left
  loadedSet,   \* PluginLoaderService.loadedPlugins
  ran,         \* the plugins whose script has set its window global
  registered,  \* PluginRegistryService.externalPlugins
  ops,         \* how much of MaxOps is used up
  granted,     \* history: enabled for good, and their manifest left alone since
  tainted,     \* history: plugins whose register() failed of its own in this process
  unread       \* history: listed, and no load is to read them

mainButUnread == <<disk, enabledList, plugins, handlers, listeners, merged, granted, tainted>>
mainVars  == <<mainButUnread, unread>>
frontVars == <<loader, loadedSet, ran, registered>>
vars == <<mainVars, frontVars, ops>>

Idle   == [at |-> "idle", todo |-> {}, current |-> Absent, revoked |-> FALSE]

\* JSON.stringify is given the names of the top level as a filter, which
\* applies to the nested objects too and leaves them empty.
ComputeManifestHash(manifest, enabled) == <<manifest.top, enabled>>

\* Only those that are enabled are listed.
Entry == {Absent} \cup {ComputeManifestHash(m, TRUE) : m \in Manifest}
Discovered == [manifest : Manifest, enabled : BOOLEAN, loaded : BOOLEAN]
Loading ==
  [at : {"idle", "reload", "clear", "manifest", "next", "code", "script"},
   todo : SUBSET Plugin, current : Plugin \cup {Absent}, revoked : BOOLEAN]

TypeOK ==
  /\ disk \in [Plugin -> Manifest \cup {Absent}]
  /\ enabledList \in [Plugin -> Entry]
  /\ plugins \in [Plugin -> Discovered \cup {Absent}]
  /\ handlers \subseteq Plugin /\ listeners \in [Plugin -> Nat]
  /\ merged \subseteq Plugin /\ loadedSet \subseteq Plugin
  /\ ran \subseteq Plugin /\ registered \subseteq Plugin
  /\ loader \in [Loader -> Loading]
  /\ ops \in 0..MaxOps
  /\ granted \subseteq Plugin /\ tainted \subseteq Plugin /\ unread \subseteq Plugin

-----------------------------------------------------------------------------
\* What _scanDirectory takes from the external directory.
EnabledIn(list, p) == list[p] # Absent

VerifyManifestIntegrity(dir, list, p) ==
  list[p] = Absent \/ list[p] = ComputeManifestHash(dir[p], EnabledIn(list, p))

Scanned(dir, list) ==
  {p \in Plugin \ Bundled : /\ dir[p] # Absent
                            /\ VerifyManifestIntegrity(dir, list, p)
                            /\ dir[p].signature # "bad"}

\* Mutant: nothing is removed before the plugins are registered again.
KeepHandlers == handlers

\* _removePluginHandlers() for the plugins that are loaded
HandlersLeft == {p \in handlers : plugins[p] = Absent \/ ~plugins[p].loaded}

\* _loadPlugin() for the plugins of load, some of which throw halfway: handle()
\* of a channel that has a handler throws at once.
Register(dir, list, load, left, before, throwing) ==
  LET serving == load \ (left \cup throwing) IN
  /\ plugins' = [p \in Plugin |->
       IF p \notin Scanned(dir, list) THEN Absent
       ELSE [manifest |-> dir[p], enabled |-> EnabledIn(list, p), loaded |-> p \in serving]]
  /\ handlers' = left \cup load
  /\ listeners' = [p \in Plugin |-> IF p \in serving THEN before[p] + 1 ELSE before[p]]
  /\ merged' = Bundled \cup {p \in Scanned(dir, list) : EnabledIn(list, p)}

\* reloadExternal(): whatever was found is loaded, enabled or not.
ReloadExternal(dir, list) ==
  \E throwing \in SUBSET Scanned(dir, list) :
    /\ Register(dir, list, Scanned(dir, list), HandlersLeft, listeners, throwing)
    /\ tainted' = tainted \cup throwing

-----------------------------------------------------------------------------
NothingOn(manifests) ==
  /\ disk = manifests
  /\ enabledList = [p \in Plugin |-> Absent]
  /\ plugins = [p \in Plugin |-> IF manifests[p] = Absent \/ p \in Bundled
                                    \/ manifests[p].signature = "bad" THEN Absent
                                 ELSE [manifest |-> manifests[p], enabled |-> FALSE,
                                       loaded |-> FALSE]]
  /\ handlers = {} /\ listeners = [p \in Plugin |-> 0] /\ merged = Bundled
  /\ granted = {} /\ tainted = {} /\ unread = {}

\* The application has started with no external plugin enabled, and its
\* frontends are loading.
Init ==
  /\ \E manifests \in [Plugin -> Manifest \cup {Absent}] : NothingOn(manifests)
  /\ \E l \in Loader : loader = [[k \in Loader |-> Idle] EXCEPT ![l].at = "manifest"]
  /\ loadedSet = {} /\ ran = {} /\ registered = {} /\ ops = 0

Op == ops < MaxOps /\ ops' = ops + 1

\* plugins.enable: the hash is that of an enabled manifest
EnableHash(p) == ComputeManifestHash(plugins[p].manifest, TRUE)

External(p) == p \notin Bundled /\ plugins[p] # Absent

Enable(p) ==
  LET list == [enabledList EXCEPT ![p] = EnableHash(p)] IN
  /\ External(p)
  /\ enabledList' = list
  /\ ReloadExternal(disk, list)
  /\ granted' = IF disk[p] = plugins[p].manifest THEN granted \cup {p} ELSE granted \ {p}
  /\ UNCHANGED <<disk, unread>>

Disable(p) ==
  LET list == [enabledList EXCEPT ![p] = Absent] IN
  /\ External(p)
  /\ enabledList' = list
  /\ ReloadExternal(disk, list)
  /\ granted' = granted \ {p}
  /\ UNCHANGED <<disk, unread>>

\* togglePluginEnabled(): the list the settings show is fresh, and a toggle
\* that succeeded reloads the frontends.
Toggle(p, l) ==
  /\ Op /\ loader[l] = Idle
  /\ IF External(p) /\ plugins[p].enabled THEN Disable(p) ELSE Enable(p)
  /\ loader' = [loader EXCEPT ![l].at = "reload"]
  /\ UNCHANGED <<loadedSet, ran, registered>>

\* plugins.installExamples: a directory that exists is left alone.  The settings
\* reload no frontends, whatever the reload of main has found and lists now.
InstallExample(p) ==
  LET dir == IF disk[p] = Absent THEN [disk EXCEPT ![p] = Example] ELSE disk IN
  /\ Op
  /\ disk' = dir
  /\ ReloadExternal(dir, enabledList)
  /\ granted' = IF dir = disk THEN granted ELSE granted \ {p}
  /\ unread' = unread \cup (merged' \ merged)
  /\ UNCHANGED <<enabledList, frontVars>>

\* the reload button of the settings
ReloadButton(l) ==
  /\ Op /\ loader[l] = Idle
  /\ loader' = [loader EXCEPT ![l].at = "reload"]
  /\ UNCHANGED <<mainVars, loadedSet, ran, registered>>

\* The user, or an update of the plugin, changes its directory.
EditDisk(p, manifest) ==
  /\ Op /\ disk[p] # manifest
  /\ disk' = [disk EXCEPT ![p] = manifest]
  /\ granted' = granted \ {p}
  /\ UNCHANGED <<enabledList, plugins, handlers, listeners, merged, tainted, unread, frontVars>>

\* A new process: discover, write the manifest, load what is enabled.
Restart ==
  /\ Op
  /\ LET load == {p \in Scanned(disk, enabledList) : EnabledIn(enabledList, p)} IN
     \E throwing \in SUBSET load :
       /\ Register(disk, enabledList, load, {}, [p \in Plugin |-> 0], throwing)
       /\ tainted' = throwing
  /\ \E l \in Loader : loader' = [[k \in Loader |-> Idle] EXCEPT ![l].at = "manifest"]
  /\ loadedSet' = {} /\ ran' = {} /\ registered' = {}
  /\ UNCHANGED <<disk, enabledList, granted, unread>>

-----------------------------------------------------------------------------
\* The frontends: loadExternalPlugins() and reloadExternalPlugins().
LoaderReloads(l) ==
  /\ loader[l].at = "reload"
  /\ ReloadExternal(disk, enabledList)
  /\ loader' = [loader EXCEPT ![l].at = "clear"]
  /\ UNCHANGED <<disk, enabledList, granted, unread, loadedSet, ran, registered, ops>>

\* revokeBlobUrls() takes the scripts of another load with it.
LoaderClears(l) ==
  /\ loader[l].at = "clear"
  /\ loadedSet' = {}
  /\ loader' = [k \in Loader |->
       IF k = l THEN [Idle EXCEPT !.at = "manifest"]
       ELSE [loader[k] EXCEPT !.revoked = @ \/ loader[k].at = "script"]]
  /\ UNCHANGED <<mainVars, ran, registered, ops>>

LoaderReads(l) ==
  /\ loader[l].at = "manifest"
  /\ loader' = [loader EXCEPT ![l].at = "next", ![l].todo = merged \ Bundled]
  /\ unread' = {}
  /\ UNCHANGED <<mainButUnread, loadedSet, ran, registered, ops>>

LoaderNext(l) ==
  /\ loader[l].at = "next"
  /\ IF loader[l].todo = {} THEN loader' = [loader EXCEPT ![l] = Idle]
     ELSE \E p \in loader[l].todo :
            loader' = [loader EXCEPT
              ![l].todo = @ \ {p}, ![l].current = p,
              ![l].at = IF p \in loadedSet THEN "next" ELSE "code"]
  /\ UNCHANGED <<mainVars, loadedSet, ran, registered, ops>>

\* plugins.readFrontend: a known id, and a file that is there
LoaderGetsCode(l) ==
  LET p == loader[l].current IN
  /\ loader[l].at = "code"
  /\ loader' = [loader EXCEPT
       ![l].at = IF plugins[p] # Absent /\ disk[p] # Absent THEN "script" ELSE "next",
       ![l].revoked = FALSE]
  /\ unread' = IF disk[p] = Absent THEN unread \cup {p} ELSE unread
  /\ UNCHANGED <<mainButUnread, loadedSet, ran, registered, ops>>

RegisterFromWindow(l) ==
  LET p == loader[l].current IN
  /\ loader' = [loader EXCEPT ![l].at = "next"]
  /\ loadedSet' = loadedSet \cup {p}
  /\ registered' = IF p \in ran' THEN registered \cup {p} ELSE registered
  /\ UNCHANGED <<mainVars, ops>>

\* the script's onload
ScriptRuns(l) ==
  /\ loader[l].at = "script"
  /\ ran' = ran \cup {loader[l].current}
  /\ RegisterFromWindow(l)

\* the script's onerror: its blob was revoked while it was fetched
ScriptFails(l) ==
  /\ loader[l].at = "script" /\ loader[l].revoked
  /\ loader' = [loader EXCEPT ![l].at = "next"]
  /\ UNCHANGED <<mainVars, loadedSet, ran, registered, ops>>

Next ==
  \/ \E p \in Plugin, l \in Loader : Toggle(p, l)
  \/ \E p \in Plugin : \/ InstallExample(p)
                       \/ \E m \in Manifest \cup {Absent} : EditDisk(p, m)
  \/ Restart
  \/ \E l \in Loader : \/ ReloadButton(l) \/ LoaderReloads(l) \/ LoaderClears(l)
                       \/ LoaderReads(l) \/ LoaderNext(l) \/ LoaderGetsCode(l)
                       \/ ScriptRuns(l) \/ ScriptFails(l)

Spec == Init /\ [][Next]_vars

-----------------------------------------------------------------------------
\* A plugin that was enabled and left alone stays enabled through every
\* reload and restart, is listed to the renderer, and its backend answers as
\* long as its register() has not failed of its own (pluginHandler.js:96: the
\* hash must survive the rewrite of manifest.enabled; handlers must be removed
\* before they are registered again).
EnabledServes ==
  \A p \in granted :
    /\ plugins[p] # Absent /\ plugins[p].enabled /\ p \in merged
    /\ p \notin tainted => p \in handlers /\ plugins[p].loaded

\* When no load is under way, the frontend of every listed plugin is
\* registered, however the loads overlapped: a load that another one robbed of
\* its set or of its scripts is made up for.  Left out, until the next load: what
\* an install of examples lists, and what had no directory when it was read.
FrontendsFollow ==
  (\A l \in Loader : loader[l] = Idle) => merged \ (Bundled \cup unread) \subseteq registered

\* "external plugins are disabled by default and must be explicitly enabled"
\* (docs/plugin-development.md:13): no backend runs that is not enabled.
OnlyEnabledServe == \A p \in handlers : EnabledIn(enabledList, p)

\* Why they hold: nothing but the user changes what was enabled; a channel has
\* the handler of a loaded plugin; and some load is to register what is listed.
LeftAlone ==
  \A p \in granted : /\ p \notin Bundled /\ disk[p] # Absent /\ disk[p].signature # "bad"
                     /\ enabledList[p] = ComputeManifestHash(disk[p], TRUE)

Found ==
  \A p \in Plugin : plugins[p] # Absent => p \notin Bundled /\ plugins[p].manifest.signature # "bad"

HandlersServe == \A p \in handlers \ tainted : plugins[p] # Absent /\ plugins[p].loaded

WillRegister(load, p) ==
  \/ load.at \in {"reload", "clear", "manifest"}
  \/ load.at \in {"next", "code", "script"} /\ p \in load.todo
  \/ load.at = "code" /\ p = load.current
  \/ load.at = "script" /\ p = load.current /\ ~load.revoked

LoadsGoOn ==
  /\ loadedSet \subseteq registered
  /\ \A l \in Loader : loader[l].at \in {"code", "script"} => loader[l].current \in Plugin
  /\ \A p \in merged \ Bundled : plugins[p] # Absent
  /\ \A p \in merged \ (Bundled \cup unread) :
       p \in registered \/ \E l \in Loader : WillRegister(loader[l], p)

IInv ==
  /\ TypeOK /\ LeftAlone /\ Found /\ EnabledServes /\ HandlersServe
  /\ LoadsGoOn /\ FrontendsFollow
==============================================================================
