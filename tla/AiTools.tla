---------------------------------- MODULE AiTools ----------------------------------
(*****************************************************************************)
(* What the tools of the AI agent do (toolDefinitions.js) through RuntimeAPI *)
(* (runtimeAPI.js), which turns a profile into a connector, and the one      *)
(* other user of RuntimeAPI that lets its caller name secrets, the bulk      *)
(* download of the file explorers (fileExplorerBackendFactory.js).           *)
(*                                                                           *)
(* Calls are suspended at every await: the approval, the two reads of        *)
(* profiles.json by getConnector() and _resolveRemoteConfig(), the dial of   *)
(* the proxy, the operation.  Between them the user edits profiles and       *)
(* secrets, and opens and closes terminals.  How an approval is asked for is *)
(* the subject of AiAgent.                                                   *)
(*****************************************************************************)
EXTENDS Naturals, Sequences, FiniteSets, SequencesExt, FiniteSetsExt

CONSTANTS
  Profile, Secret, Proxy, \* ids
  Call, Chat, Session,    \* calls, chats, ids of terminal sessions
  UserSession,            \* the ids of the sessions the user opens
  Asked,                  \* bound: what each call may be
  LocalPath,              \* the localPath arguments it gives
  Base,                   \* the download directory, as a path
  Home,                   \* the home directory, as a path
  Size,                   \* the sizes of remote files
  MinRead, DefaultRead, MaxRead, MaxInline, \* the caps, in units of their own
  None,
  MaxEdits                \* bound: what the user does

VARIABLES
  mode,      \* safetyRules.mode
  context,   \* what chats may see of sessions: useContext, crossSessionAccess
  profiles,  \* profiles.json
  secrets, proxies, \* allSecrets and allProxies of main
  registry,  \* SessionRegistry
  live,      \* the sessions whose connection is up
  call,
  edits,
  seen,      \* of each call: what its profile was since it looked it up
  effects,   \* what was changed last
  readBy     \* the chats of the sessions that were read last

vars == <<mode, context, profiles, secrets, proxies, registry, live, call, edits,
          seen, effects, readBy>>

-----------------------------------------------------------------------------
\* getToolDefinitions()
FileOp == {"list_files", "read_file", "write_file", "delete_files", "rename_file",
           "copy_files", "move_files", "create_folder", "download_file", "search_files"}

ScpTools == {"scp"} \X FileOp
FtpTools == {"ftp"} \X FileOp
SambaTools == {"samba"} \X FileOp
SessionTools == {"session"} \X {"list", "read", "write"}
OtherTools == {<<"profile", "list">>, <<"local", "execute">>, <<"terminal", "open">>}

Tools == ScpTools \cup FtpTools \cup SambaTools \cup SessionTools \cup OtherTools

FileTools == ScpTools \cup FtpTools \cup SambaTools

\* Mutant of FileMutators: the pattern misses the moves.
MissesMoves == {"write_file", "delete_files", "rename_file", "copy_files",
                "create_folder", "download_file"}

\* DESTRUCTIVE_FILE_TOOL_SUFFIX
FileMutators == {"write_file", "delete_files", "rename_file", "copy_files",
                 "move_files", "create_folder", "download_file"}

SensitiveTools == {<<"local", "execute">>, <<"session", "write">>, <<"terminal", "open">>}

NeedsApproval(t) == t \in SensitiveTools \/ t[2] \in FileMutators

\* _isDangerous(): files and terminals always, a command if a rule matches it.
MayBeHarmless(t) == t \in {<<"local", "execute">>, <<"session", "write">>}

Command == {<<"local", "execute">>, <<"session", "write">>}

\* The bulk download, which is no tool.
Bulk == <<"bulk", "download">>

-----------------------------------------------------------------------------
\* A local path is the way it starts and its segments; a path on disk is
\* segments from the root.
Step(path, seg) ==
  IF seg = ".." THEN SubSeq(path, 1, IF path = <<>> THEN 0 ELSE Len(path) - 1)
  ELSE Append(path, seg)

Normalize(segs) ==
  LET walked[i \in 0..Len(segs)] ==
        IF i = 0 THEN <<>> ELSE Step(walked[i - 1], segs[i])
  IN walked[Len(segs)]

\* resolveSandboxedPath(), before its check.
Resolve(p) ==
  Normalize(IF p.start = "root" THEN p.segs
            ELSE IF p.start = "~" THEN Home \o p.segs ELSE Base \o p.segs)

Sandboxed(path) == IsPrefix(Base, path)

\* clampReadMaxBytes(); 0 stands for an argument that is missing or no number.
ClampRead(n) == Min({MaxRead, Max({MinRead, IF n = 0 THEN DefaultRead ELSE n})})

-----------------------------------------------------------------------------
Type == {"SSH_TERMINAL", "SCP_FILE_EXPLORER", "RDP_REMOTE_DESKTOP", "LOCAL_TERMINAL"}
Terminals == {"SSH_TERMINAL", "LOCAL_TERMINAL"}

Record == [type : Type, secret : Secret \cup {None}, proxy : Proxy \cup {None}]

NoArgs == [secret |-> None, proxy |-> None]
Idle == [at |-> "idle", tool |-> None, chat |-> None, profile |-> None,
         offered |-> NoArgs, gate |-> "none", session |-> None, path |-> None,
         type |-> None, config |-> None, answer |-> 0]

Binding  == [secret : Secret \cup {None}, proxy : Proxy \cup {None}]
ToolCall == [at : {"idle", "asking", "listing", "finding", "resolving", "dialing", "acting", "done"},
             tool : Tools \cup {Bulk, None}, chat : Chat \cup {None},
             profile : Profile \cup {None}, offered : Binding,
             gate : {"none", "off", "harmless", "approved"}, session : Session \cup {None},
             path : LocalPath \cup {None}, type : Type \cup {None},
             config : Binding \cup {None}, answer : Nat]

WorldTyped ==
  /\ mode \in {"off", "auto", "ask"} /\ context \in [use : BOOLEAN, cross : BOOLEAN]
  /\ profiles \in [Profile -> Record \cup {None}]
  /\ secrets \subseteq Secret /\ proxies \subseteq Proxy
  /\ DOMAIN registry \subseteq Session /\ live \subseteq Session
  /\ \A s \in DOMAIN registry : registry[s].chat \in Chat \cup {None}

CallsTyped == call \in [Call -> ToolCall] /\ seen \in [Call -> SUBSET (Record \cup {None})]

EditsTyped == edits \in 0..MaxEdits

TypeOK == WorldTyped /\ CallsTyped /\ EditsTyped

Init ==
  /\ mode \in {"off", "auto", "ask"}
  /\ context \in [use : BOOLEAN, cross : BOOLEAN]
  /\ profiles \in [Profile -> [type : {"SCP_FILE_EXPLORER"},
                               secret : Secret, proxy : {None}]]
  /\ secrets = Secret /\ proxies = Proxy
  /\ registry = [s \in {} |-> None] /\ live = {}
  /\ call = [c \in Call |-> Idle] /\ edits = 0
  /\ seen = [c \in Call |-> {}] /\ effects = {} /\ readBy = {}

settings == <<mode, context>>
disk == <<profiles, secrets, proxies>>
ghosts == <<seen, effects, readBy>>

Goes(c, at) == call' = [call EXCEPT ![c].at = at]
Ends(c) == call' = [call EXCEPT ![c] = [Idle EXCEPT !.at = "done"]]

\* The tools that need a connector.
Connects(t) ==
  t \in FileTools \cup {<<"local", "execute">>, <<"terminal", "open">>}

\* After the gate: terminal_open looks at the type first, session tools and
\* profile_list act at once.
AfterGate(t, p) ==
  IF t = <<"terminal", "open">> /\ p # None THEN "listing"
  ELSE IF Connects(t) THEN "finding" ELSE "acting"

-----------------------------------------------------------------------------
\* What becomes of a call at the gate: it is asked for, unless the gate is off
\* or, by itself, finds it harmless.
Gates(t) ==
  IF ~NeedsApproval(t) THEN {"none"}
  ELSE IF mode = "off" THEN {"off"}
  ELSE {"asking"} \cup {g \in {"harmless"} : mode = "auto" /\ MayBeHarmless(t)}

Called(t, h, p, s, l, gate) ==
  [Idle EXCEPT !.tool = t, !.chat = h, !.profile = p, !.session = s, !.path = l,
               !.gate = IF gate = "asking" THEN "none" ELSE gate,
               !.at = IF gate = "asking" THEN "asking" ELSE AfterGate(t, p)]

\* executeTool() up to its first await.
ExecuteTool(c) ==
  /\ call[c].at = "idle"
  /\ \E t \in Asked[c] \ {Bulk}, h \in Chat, p \in Profile \cup {None} :
       \E s \in IF t[1] = "session" THEN Session ELSE {None},
          l \in IF t[2] = "download_file" THEN LocalPath \cup {None} ELSE {None} :
         /\ t \in FileTools => p # None
         /\ t[1] \in {"session", "profile"} => p = None
         /\ \E gate \in Gates(t) : call' = [call EXCEPT ![c] = Called(t, h, p, s, l, gate)]
  /\ UNCHANGED <<settings, disk, registry, live, edits, ghosts>>

\* The user answers; a minute without an answer is a no.
Answered(c) ==
  /\ call[c].at = "asking"
  /\ \/ call' = [call EXCEPT ![c].gate = "approved",
                             ![c].at = AfterGate(call[c].tool, call[c].profile)]
     \/ Ends(c)
  /\ UNCHANGED <<settings, disk, registry, live, edits, ghosts>>

\* POST /download: the request names a profile, a secret and a proxy.
BulkDownload(c) ==
  /\ Bulk \in Asked[c]
  /\ call[c].at = "idle"
  /\ \E p \in Profile, s \in Secret \cup {None}, x \in Proxy \cup {None} :
       call' = [call EXCEPT ![c] =
         [Idle EXCEPT !.at = "resolving", !.tool = Bulk, !.profile = p,
                      !.type = "SCP_FILE_EXPLORER",
                      !.offered = [secret |-> s, proxy |-> x]]]
  /\ UNCHANGED <<settings, disk, registry, live, edits, ghosts>>

\* terminal_open asks listProfiles() for the type of its profile; a profile
\* that is not there is left to getConnector().
ListProfiles(c) ==
  /\ call[c].at = "listing"
  /\ LET r == profiles[call[c].profile] IN
       IF r # None /\ r.type \notin Terminals THEN Ends(c) ELSE Goes(c, "finding")
  /\ UNCHANGED <<settings, disk, registry, live, edits, ghosts>>

\* getConnector(): profiles.json is read for the type of the connector.
GetConnector(c) ==
  /\ call[c].at = "finding"
  /\ LET p == call[c].profile
         r == IF p = None THEN None ELSE profiles[p]
     IN
     IF p = None \/ (r # None /\ r.type = "LOCAL_TERMINAL")
       THEN call' = [call EXCEPT ![c].at = "acting", ![c].type = "LOCAL_TERMINAL"]
     ELSE IF r = None \/ r.type = "RDP_REMOTE_DESKTOP" THEN Ends(c)
     ELSE call' = [call EXCEPT ![c].at = "resolving", ![c].type = r.type]
  /\ seen' = [seen EXCEPT ![c] = IF call[c].profile = None THEN {}
                                 ELSE {profiles[call[c].profile]}]
  /\ UNCHANGED <<settings, disk, registry, live, edits, effects, readBy>>

\* Only what the profile is bound to; options are ignored.
Bound(r, offered) == [secret |-> r.secret, proxy |-> r.proxy]

\* _resolveRemoteConfig(): profiles.json is read again, the secret taken from
\* memory, the proxy dialled.
ResolveRemoteConfig(c) ==
  /\ call[c].at = "resolving"
  /\ LET r == profiles[call[c].profile]
         b == Bound(r, call[c].offered)
     IN
     IF \/ r = None
        \/ b.secret # None /\ b.secret \notin secrets
        \/ b.proxy # None /\ b.proxy \notin proxies
       THEN Ends(c)
       ELSE call' = [call EXCEPT ![c].config = b,
                                 ![c].at = IF b.proxy = None THEN "acting" ELSE "dialing"]
  /\ seen' = [seen EXCEPT ![c] = @ \cup {profiles[call[c].profile]}]
  /\ UNCHANGED <<settings, disk, registry, live, edits, effects, readBy>>

Dialed(c) ==
  /\ call[c].at = "dialing"
  /\ Goes(c, "acting") \/ Ends(c)
  /\ UNCHANGED <<settings, disk, registry, live, edits, ghosts>>

-----------------------------------------------------------------------------
Changes(c, what, path) ==
  effects' = {[what |-> what, path |-> path, tool |-> call[c].tool, gate |-> call[c].gate]}

\* The connector has the methods of its type: files or a shell.
FileActs(c) ==
  /\ call[c].at = "acting" /\ call[c].tool \in FileTools
  /\ LET op == call[c].tool[2] IN
     \/ /\ call[c].type = "SCP_FILE_EXPLORER"
        /\ op \in {"write_file", "delete_files", "rename_file", "copy_files",
                   "move_files", "create_folder"}
        /\ Changes(c, "server", None) /\ Ends(c)
     \/ /\ op \in {"list_files", "search_files"}
        /\ Ends(c) /\ UNCHANGED effects
     \/ Ends(c) /\ UNCHANGED effects \* the operation fails, or there is none
  /\ UNCHANGED <<settings, disk, registry, live, edits, seen, readBy>>

\* A text is cut at the cap, a binary refused.
ReadFile(c) ==
  /\ call[c].at = "acting" /\ call[c].tool \in FileTools /\ call[c].tool[2] = "read_file"
  /\ call[c].type = "SCP_FILE_EXPLORER"
  /\ \E size \in Size, maxBytes \in Size :
       call' = [call EXCEPT ![c] =
         [Idle EXCEPT !.at = "done", !.tool = call[c].tool,
                      !.answer = Min({size, ClampRead(maxBytes)})]]
  /\ UNCHANGED <<settings, disk, registry, live, edits, ghosts>>

\* With a localPath the file is saved inside the download directory or nowhere;
\* without one a small file is returned.
DownloadFile(c) ==
  /\ call[c].at = "acting" /\ call[c].tool \in FileTools /\ call[c].tool[2] = "download_file"
  /\ call[c].type = "SCP_FILE_EXPLORER"
  /\ \E size \in Size :
       IF call[c].path = None
         THEN /\ call' = [call EXCEPT ![c] =
                   [Idle EXCEPT !.at = "done", !.tool = call[c].tool,
                                !.answer = IF size > MaxInline THEN 0 ELSE size]]
              /\ UNCHANGED effects
         ELSE /\ Ends(c)
              /\ LET target == Resolve(call[c].path) IN
                   IF Sandboxed(target) THEN Changes(c, "disk", target)
                   ELSE UNCHANGED effects
  /\ UNCHANGED <<settings, disk, registry, live, edits, seen, readBy>>

\* The answer of the explorer goes to the browser.
BulkSent(c) ==
  /\ call[c].at = "acting" /\ call[c].tool = Bulk
  /\ Ends(c)
  /\ UNCHANGED <<settings, disk, registry, live, edits, ghosts>>

\* exec(): on this machine, in the directory of the user's terminal if it can
\* be told; on the machine of a profile, if the model names one.
Execute(c) ==
  /\ call[c].at = "acting" /\ call[c].tool = <<"local", "execute">>
  /\ \/ call[c].type \in Terminals /\ Changes(c, "command", None)
     \/ UNCHANGED effects
  /\ Ends(c)
  /\ UNCHANGED <<settings, disk, registry, live, edits, seen, readBy>>

\* terminal_open: connect() and then register() with the chat.
OpenTerminal(c) ==
  /\ call[c].at = "acting" /\ call[c].tool = <<"terminal", "open">>
  /\ \/ /\ call[c].type \in Terminals
        /\ \E s \in Session \ (UserSession \cup DOMAIN registry) :
             /\ registry' = [x \in DOMAIN registry \cup {s} |->
                   IF x = s THEN [owner |-> "ai", chat |-> call[c].chat] ELSE registry[x]]
             /\ live' = live \cup {s}
        /\ Changes(c, "terminal", None)
     \/ UNCHANGED <<registry, live, effects>>
  /\ Ends(c)
  /\ UNCHANGED <<settings, disk, edits, seen, readBy>>

Forgotten(s) == [x \in DOMAIN registry \ {s} |-> registry[x]]

\* session_list
Visible(h) ==
  {s \in DOMAIN registry :
     /\ context.use
     /\ registry[s].owner = "ai"
     /\ context.cross \/ registry[s].chat = h}

\* session_read
MayRead(h, s) ==
  context.cross \/ (registry[s].owner = "ai" /\ registry[s].chat = h)

SessionRead(c) ==
  /\ call[c].at = "acting" /\ call[c].tool = <<"session", "read">>
  /\ LET s == call[c].session
         h == call[c].chat
     IN readBy' = IF s \in DOMAIN registry /\ MayRead(h, s)
                    THEN {[by |-> h, of |-> registry[s].chat]} ELSE readBy
  /\ Ends(c)
  /\ UNCHANGED <<settings, disk, registry, live, edits, seen, effects>>

SessionList(c) ==
  /\ call[c].at = "acting" /\ call[c].tool = <<"session", "list">>
  /\ readBy' = {[by |-> call[c].chat, of |-> registry[s].chat] : s \in Visible(call[c].chat)}
  /\ Ends(c)
  /\ UNCHANGED <<settings, disk, registry, live, edits, seen, effects>>

\* session_write: only to a session of an AI that is still running.
SessionWrite(c) ==
  /\ call[c].at = "acting" /\ call[c].tool = <<"session", "write">>
  /\ LET s == call[c].session IN
       IF s \in DOMAIN registry /\ registry[s].owner = "ai" /\ s \in live
         THEN Changes(c, "terminal", s) ELSE UNCHANGED effects
  /\ Ends(c)
  /\ UNCHANGED <<settings, disk, registry, live, edits, seen, readBy>>

\* profile_list returns names.
ProfileList(c) ==
  /\ call[c].at = "acting" /\ call[c].tool = <<"profile", "list">>
  /\ Ends(c)
  /\ UNCHANGED <<settings, disk, registry, live, edits, ghosts>>

-----------------------------------------------------------------------------
User == edits < MaxEdits /\ edits' = edits + 1

\* What a save makes of a profile: one thing differs.
Edited(r) ==
  IF r = None THEN {}
  ELSE {[r EXCEPT !.type = t] : t \in Type} \cup {[r EXCEPT !.secret = x] : x \in Secret \cup {None}}
       \cup {[r EXCEPT !.proxy = x] : x \in Proxy \cup {None}} \cup {None}

\* A profile is saved, or deleted, while calls are under way.
EditProfile ==
  /\ User
  /\ \E p \in Profile : \E r \in Edited(profiles[p]) \ {profiles[p]} :
       /\ profiles' = [profiles EXCEPT ![p] = r]
       /\ seen' = [c \in Call |-> IF call[c].profile = p /\ call[c].at = "resolving"
                                    THEN seen[c] \cup {r} ELSE seen[c]]
  /\ UNCHANGED <<settings, secrets, proxies, registry, live, call, effects, readBy>>

DeleteSecret ==
  /\ User /\ \E s \in secrets : secrets' = secrets \ {s}
  /\ UNCHANGED <<settings, profiles, proxies, registry, live, call, ghosts>>

UserOpens ==
  /\ User
  /\ \E s \in UserSession \ DOMAIN registry :
       /\ registry' = [x \in DOMAIN registry \cup {s} |->
             IF x = s THEN [owner |-> "user", chat |-> None] ELSE registry[x]]
       /\ live' = live \cup {s}
  /\ UNCHANGED <<settings, disk, call, ghosts>>

\* A connection ends, which unregisters its session.
Disconnects ==
  /\ User
  /\ \E s \in live : live' = live \ {s} /\ registry' = Forgotten(s)
  /\ UNCHANGED <<settings, disk, call, ghosts>>

Next ==
  \/ \E c \in Call :
       \/ ExecuteTool(c) \/ BulkDownload(c) \/ Answered(c) \/ ListProfiles(c)
       \/ GetConnector(c) \/ ResolveRemoteConfig(c) \/ Dialed(c)
       \/ FileActs(c) \/ ReadFile(c) \/ DownloadFile(c) \/ BulkSent(c) \/ Execute(c)
       \/ OpenTerminal(c) \/ SessionRead(c) \/ SessionList(c) \/ SessionWrite(c)
       \/ ProfileList(c)
  \/ EditProfile \/ DeleteSecret \/ UserOpens \/ Disconnects

-----------------------------------------------------------------------------
\* What changes a server, this machine or a terminal passed the gate: approved,
\* or the gate is off, or a command no rule matches.
ChangesPassTheGate ==
  \A e \in effects :
    /\ e.gate # "none"
    /\ e.gate = "harmless" => e.tool \in Command

\* P0-1: a connection uses the secret and the proxy its profile was bound to
\* while the call looked it up, whatever the caller named.
BoundIn(k, records) ==
  k.at \in {"dialing", "acting"} /\ k.config # None =>
    \E r \in records \ {None} : r.secret = k.config.secret /\ r.proxy = k.config.proxy

CredentialsAreBound == \A c \in Call : BoundIn(call[c], seen[c])

\* The same of its connector, whose type the first read gave: all that a call
\* connects with was in the profile at one time. Fails with two edits, because
\* nothing ties the two reads of getConnector() together (runtimeAPI.js:291).
ReadAtOnce ==
  \A c \in Call :
    call[c].at \in {"dialing", "acting"} /\ call[c].config # None /\ call[c].tool # Bulk =>
      BoundIn(call[c], {r \in seen[c] \ {None} : r.type = call[c].type})

\* P0-3: what is saved lies under the download directory.
SavedInside ==
  \A e \in effects :
    e.what = "disk" => IsPrefix(Base, e.path) /\ ".." \notin ToSet(e.path)

\* A chat without access to others sees its own sessions only.
ChatsApart == \A r \in readBy : context.cross \/ r.of = r.by

\* What a read or a download returns is no longer than the larger cap.
AnswersAreCapped ==
  \A c \in Call : call[c].answer <= Max({MaxRead, MaxInline})

\* Why: a gated call went through the gate before it looks anything up; it has a
\* profile where it needs one, and nothing to connect with before it was bound.
WentThrough(k) ==
  /\ k.at = "asking" => k.tool \in Tools
  /\ k.at \in {"listing", "resolving"} => k.profile \in Profile
  /\ k.at \in {"listing", "finding", "resolving", "dialing", "acting"} =>
       \/ k.tool = Bulk
       \/ /\ k.tool \in Tools
          /\ NeedsApproval(k.tool) => k.gate # "none"
          /\ k.gate = "harmless" => k.tool \in Command
  /\ k.at \notin {"dialing", "acting"} => k.config = None

Gated == \A c \in Call : WentThrough(call[c])

IInv ==
  /\ TypeOK /\ Gated
  /\ ChangesPassTheGate /\ CredentialsAreBound /\ SavedInside /\ ChatsApart /\ AnswersAreCapped
====================================================================================
