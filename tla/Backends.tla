-------------------------------- MODULE Backends --------------------------------
(*****************************************************************************)
(* Seven parts behind the panels that share no state: cloud sync, external   *)
(* plugins, requests about remote files, the servers and the commands of the *)
(* command line, the tools of the AI, and what terminals print on its way to *)
(* the model.  A behaviour is a behaviour of one of them.                    *)
(*****************************************************************************)
EXTENDS Slots, Sequences, FiniteSets

CONSTANTS
  SyncItem, SyncReloaded, SyncEchoed, SyncMaxEdits, SyncMaxClicks, \* CloudSync
  Plugin, Bundled, Manifest, Example, Loader, PluginMaxOps, \* PluginManager
  RemoteDir, RemotePart, RemoteRequest, RemoteMaxOps,       \* RemoteFiles
  ClientLine, ProfileEntry, ServerProfiles, LoginSecret, ServerMaxLines, ServerMaxEdits, \* StdioServer
  MasterKey, RepoKey, HeadlessCommand, HeadlessMaxCommands, \* HeadlessSetup
  ToolProfile, ToolSecret, ToolProxy, AiCallId, ToolChat,   \* AiTools
  ShellId, UserSession, AskedTools, ToolPath, DownloadDir, HomeDir, FileSize,
  MinRead, DefaultRead, MaxRead, MaxInline, ToolMaxEdits,
  ContextChat, SessionChat, ContextSettings, PromptOutput,  \* SessionContext
  MaxBuffer, MaxLine, MaxMarks, ContextMaxOutputs, ContextMaxAsks, MaxClock

C == INSTANCE CloudSync WITH
  Item <- SyncItem, Reloaded <- SyncReloaded, Echoed <- SyncEchoed,
  MaxEdits <- SyncMaxEdits, MaxClicks <- SyncMaxClicks,
  store <- v1, loads <- v2, saves <- v3, file <- v4, backup <- v5, clone <- v6,
  repo <- v7, op <- v8, spinner <- v9, clock <- v10, clicks <- v11,
  pulled <- v12, newest <- v13, landed <- v14, raced <- v15

P == INSTANCE PluginManager WITH
  Absent <- None, MaxOps <- PluginMaxOps,
  disk <- v1, enabledList <- v2, plugins <- v3, handlers <- v4,
  listeners <- v5, merged <- v6, loader <- v7, loadedSet <- v8, ran <- v9,
  registered <- v10, ops <- v11, granted <- v12, tainted <- v13, unread <- v14

R == INSTANCE RemoteFiles WITH
  Dir <- RemoteDir, Part <- RemotePart, Request <- RemoteRequest, MaxOps <- RemoteMaxOps,
  renames <- v1, item <- v2, request <- v3, ops <- v4, made <- v5,
  excused <- v6

V == INSTANCE StdioServer WITH
  Line <- ClientLine, Entry <- ProfileEntry, Listed <- ServerProfiles,
  Secret <- LoginSecret, MaxLines <- ServerMaxLines, MaxEdits <- ServerMaxEdits,
  proto <- v1, state <- v2, unread <- v3, read <- v4, running <- v5, out <- v6,
  eof <- v7, sessions <- v8, profiles <- v9, secrets <- v10, edits <- v11,
  reached <- v12

H == INSTANCE HeadlessSetup WITH
  Key <- MasterKey, Command <- HeadlessCommand, MaxCommands <- HeadlessMaxCommands,
  envKey <- v1, exported <- v2, keyring <- v3, keyFile <- v4, file <- v5,
  command <- v6, started <- v7, vouched <- v8, passed <- v9, sealed <- v10

A == INSTANCE AiTools WITH
  Profile <- ToolProfile, Secret <- ToolSecret, Proxy <- ToolProxy, Call <- AiCallId,
  Chat <- ToolChat, Session <- ShellId, Asked <- AskedTools,
  LocalPath <- ToolPath, Base <- DownloadDir,
  Home <- HomeDir, Size <- FileSize, MaxEdits <- ToolMaxEdits,
  mode <- v1, context <- v2, profiles <- v3, secrets <- v4, proxies <- v5,
  registry <- v6, live <- v7, call <- v8, edits <- v9, seen <- v10,
  effects <- v11, readBy <- v12

I == INSTANCE SessionContext WITH
  Chat <- ContextChat, Session <- ShellId, ChatOf <- SessionChat, Settings <- ContextSettings,
  Prompts <- PromptOutput, MaxOutputs <- ContextMaxOutputs, MaxAsks <- ContextMaxAsks,
  settings <- v1, registered <- v2, running <- v3, buffer <- v4,
  lastSent <- v5, order <- v6, clock <- v7, outputs <- v8, asks <- v9, sent <- v10,
  again <- v11, passed <- v12, forgotten <- v13

-----------------------------------------------------------------------------
\* What is reloaded can be synchronised, and the files start with content 1.
ASSUME CloudAssumption ==
  SyncReloaded \subseteq SyncItem /\ SyncMaxEdits \in Nat \ {0, 1} /\ SyncMaxClicks \in Nat

\* A name is either unused, or its directory has a manifest.
ASSUME PluginAssumption ==
  /\ Bundled \subseteq Plugin /\ Example \in Manifest /\ PluginMaxOps \in Nat
  /\ None \notin Manifest /\ None \notin P!Discovered
  /\ \A m \in Manifest : None # P!ComputeManifestHash(m, TRUE)

ASSUME RemoteAssumption ==
  IsFiniteSet(RemoteDir) /\ IsFiniteSet(RemotePart) /\ RemoteMaxOps \in Nat

ASSUME ServerAssumption ==
  ServerProfiles \in Seq(ProfileEntry) /\ ServerMaxLines \in Nat /\ ServerMaxEdits \in Nat

ASSUME KeyAssumption ==
  None \notin MasterKey /\ RepoKey \in MasterKey /\ HeadlessMaxCommands \in Nat

\* A call only asks for tools there are; paths are sequences of names.
ASSUME ToolAssumption ==
  /\ ToolMaxEdits \in Nat /\ UserSession \subseteq ShellId /\ FileSize \subseteq Nat
  /\ \A c \in AiCallId : AskedTools[c] \subseteq A!Tools \cup {A!Bulk}
  /\ MinRead \in Nat /\ DefaultRead \in Nat /\ MaxRead \in Nat /\ MaxInline \in Nat
  /\ DownloadDir \in Seq(STRING) /\ HomeDir \in Seq(STRING)
  /\ \A p \in ToolPath : p.segs \in Seq(STRING)

ASSUME ContextAssumption ==
  /\ ContextMaxOutputs \in Nat /\ ContextMaxAsks \in Nat /\ MaxBuffer \in Nat
  /\ MaxLine \in Nat /\ MaxMarks \in Nat /\ MaxClock \in Nat \ {0}

-----------------------------------------------------------------------------
BackendsInit ==
  \/ part = "cloud"      /\ C!Init /\ Zero16
  \/ part = "plugins"    /\ P!Init /\ Zero15
  \/ part = "requests"   /\ R!Init /\ Zero7
  \/ part = "server"     /\ V!Init /\ Zero13
  \/ part = "headless"   /\ H!Init /\ Zero11
  \/ part = "tools"      /\ A!Init /\ Zero13
  \/ part = "context"    /\ I!Init /\ Zero14

BackendsNext ==
  \/ part = "cloud"      /\ C!Next /\ UNCHANGED rest16
  \/ part = "plugins"    /\ P!Next /\ UNCHANGED rest15
  \/ part = "requests"   /\ R!Next /\ UNCHANGED rest7
  \/ part = "server"     /\ V!Next /\ UNCHANGED rest13
  \/ part = "headless"   /\ H!Next /\ UNCHANGED rest11
  \/ part = "tools"      /\ A!Next /\ UNCHANGED rest13
  \/ part = "context"    /\ I!Next /\ UNCHANGED rest14

BackendsSpec == BackendsInit /\ [][UNCHANGED part /\ BackendsNext]_vars

-----------------------------------------------------------------------------
\* A plugin that was enabled and left alone stays enabled, listed and served
\* through reloads and restarts (pluginManager.js, pluginHandler.js); once no
\* load is under way, the frontend of every plugin that a load was to read is
\* registered, however loads overlapped (plugin-loader.service.ts).
PluginsServe == part = "plugins" => P!EnabledServes /\ P!FrontendsFollow

\* What is copied and moved survives other requests and broken connections
\* (sftp.js, ftp.js, samba.js); a store that cloud.component.ts reloads shows what
\* the download brought once its last reload arrives last, in whatever order
\* reloads and saves arrive or fail, unless an edit or a save raced with it; and
\* what the download has replaced, finished or not, is in the backup, unless it
\* was saved in between (cloudService.js).
NothingLost ==
  /\ part = "requests" => R!NothingLost
  /\ part = "cloud"    => C!ReloadedShowDownload /\ C!ReplacedIsKept

\* The servers of the command line answer every request, in order, and reach the
\* profile that was named (mcp/server.js, acp/server.js, credentialResolver.js);
\* the key and the files that the commands write, or vouch for, open for those
\* that come after them (masterkey, cloud and doctor/command.js).
HeadlessSound ==
  /\ part = "server"   => V!RepliesInOrder /\ V!NamesResolve
  /\ part = "headless" => H!KeyFileOpens /\ H!DoctorTells /\ H!SetupOpens

\* What the tools of the AI do passed the gate; they connect with a secret and
\* a proxy that one record of the profile had while they looked it up, however
\* the user edits it meanwhile (ReadAtOnce, which fails, asks the same of the
\* connector); a chat sees its own sessions, files are saved inside the download
\* directory, answers are capped (toolDefinitions.js, runtimeAPI.js).  What the
\* terminals print is told to the model unless it was passed over for one of the
\* reasons SessionContext names, the cut of a long line among them, and only
\* once while the session's mark is kept (aiChat.js).
ToolEffects ==
  /\ part = "tools"   => /\ A!ChangesPassTheGate /\ A!CredentialsAreBound
                         /\ A!SavedInside /\ A!ChatsApart /\ A!AnswersAreCapped
  /\ part = "context" => I!OutputArrives /\ I!NothingTwice

\* Why they hold: the inductive invariant of the part.
BackendsInv ==
  /\ part = "cloud"      => C!IInv
  /\ part = "plugins"    => P!IInv
  /\ part = "requests"   => R!IInv
  /\ part = "server"     => V!IInv
  /\ part = "headless"   => H!IInv
  /\ part = "tools"      => A!IInv
  /\ part = "context"    => I!IInv
==============================================================================
