-------------------------------- MODULE MCServices --------------------------------
(*****************************************************************************)
(* Small instances of parts that share no state, checked by one run: a       *)
(* behaviour is a behaviour of one of them, chosen at the start, over the    *)
(* same variables.  What this checks is the union of their state spaces.     *)
(*****************************************************************************)
EXTENDS Backends, Workspace, TLC

CONSTANTS
  rule1, rule2,                                     \* TunnelMigration
  tab1, tab2, server1, server2, root, sub,          \* Workspace
  local1, outside1, new1, secret1, proxy1, group1, tag1, \* Library
  chat1, chat2, term1, ai1                          \* Backends

\* What Backends and Workspace are given: what manifests say at their top level,
\* and inside
Shipped  == [top |-> 1, nested |-> 1, signature |-> "none"]
Updated  == [top |-> 2, nested |-> 1, signature |-> "none"]
Tampered == [top |-> 1, nested |-> 2, signature |-> "bad"]

MCManifest == {Shipped, Updated, Tampered}

\* CONNECT to an IPv4 address and to a name, a name of length 0, BIND, an
\* unknown address type, and SOCKS4
MCSocksPreambles ==
  { <<<<5, 1, 0>>, <<5, 1, 0, 1, 10, 0, 0, 5, 31, 144>>>>,
    <<<<5, 2, 0, 2>>, <<5, 1, 0, 3, 1, 97, 1, 187>>>>,
    <<<<5, 1, 0>>, <<5, 1, 0, 3, 0, 1, 187>>>>,
    <<<<5, 1, 0>>, <<5, 2, 0, 1, 10, 0, 0, 5, 31, 144>>>>,
    <<<<5, 1, 0>>, <<5, 1, 0, 9>>>>,
    <<<<4, 1, 0>>, <<5, 1, 0, 9>>>> }

MCTunnelPayload == <<1, 2>>

\* the size of a terminal that was never fitted, a wider one, and a higher one
MCTerminalSizes == {<<1, 1>>, <<2, 1>>, <<2, 2>>}
MCXtermSize     == <<1, 1>>

\* names "d", "db" and "de"
D0 == <<1>>
DB == <<1, 2>>
DE == <<1, 3>>

Request(id, method, tool, arg, session) ==
  [id |-> id, method |-> method, tool |-> tool, arg |-> arg, session |-> session]

SshProfile(name, secret) == [name |-> name, secret |-> secret, ssh |-> TRUE]

MCClientLine ==
  { Request(1, "tools/call", "ssh_execute", D0, 0),
    Request(2, "tools/call", "local_execute", D0, 0),
    Request(None, "tools/call", "ssh_execute", DB, 0),
    Request(3, "resources/read", "yaet://profiles", D0, 0),
    Request(4, "initialize", "", D0, 0),
    Request(5, "session/new", "", D0, 0), Request(6, "session/prompt", "", D0, 1),
    Request(7, "session/close", "", D0, 1),
    Request(None, "notifications/initialized", "", D0, 0),
    Request(None, "malformed", "", D0, 0) }

MCProfileEntry   == {SshProfile(D0, None), SshProfile(DB, secret1), SshProfile(DE, None)}
MCServerProfiles == <<SshProfile(DB, secret1), SshProfile(DE, None)>>

\* a file in the download directory, above it, and in one whose name begins alike
MCToolPath ==
  { [start |-> "rel", segs |-> <<"f">>], [start |-> "rel", segs |-> <<"..", "f">>],
    [start |-> "root", segs |-> <<"home", "dl2">>] }

MCAskedTools ==
  << {<<"scp", "read_file">>, <<"ftp", "move_files">>, <<"samba", "download_file">>,
      <<"samba", "list_files">>, <<"session", "list">>, <<"session", "read">>,
      <<"session", "write">>, <<"local", "execute">>, <<"terminal", "open">>,
      <<"profile", "list">>, <<"bulk", "download">>},
     {<<"terminal", "open">>} >>

MCHomeDir     == <<"home">>
MCDownloadDir == <<"home", "dl">>

\* contextOptimization with summaries, and off
MCContextSettings ==
  [enabled : {TRUE}, idleSummary : {TRUE}, incremental : {TRUE}]
    \cup [enabled : {FALSE}, idleSummary : {TRUE}, incremental : {TRUE}]

MCSessionChat == ai1 :> chat1

\* where the tabs of the explorer are, and the temporary folders
MCTabServer  == tab1 :> server1 @@ tab2 :> server2
MCTempFolder == root :> "f1" @@ sub :> "f2"
MCMissing    == {<<server1, sub>>}

-----------------------------------------------------------------------------
M == INSTANCE TunnelMigration WITH
  Rule <- {rule1, rule2}, MaxAsks <- 3,
  opened <- v1, file <- v2, mem <- v3, loaded <- v4, attempted <- v5,
  loads <- v6, saves <- v7, asks <- v8, deleted <- v9, astray <- v10,
  skipped <- v11

L == INSTANCE Library WITH
  Profile <- {local1, outside1, new1}, Secret <- {secret1}, Proxy <- {proxy1},
  Label <- {group1, tag1}, Tag <- {tag1}, External <- {outside1},
  Fresh <- {new1, tag1}, MaxLoads <- 2, MaxOps <- 4,
  file <- v1, store <- v2, loaded <- v3, loads <- v4, saves <- v5, heap <- v6,
  gen <- v7, view <- v8, labels <- v9, removing <- v10, external <- v11,
  unused <- v12, ops <- v13, deleted <- v14, gone <- v15, spared <- v16,
  dropped <- v17

T == INSTANCE TunnelManager WITH
  Tunnel <- {1, 2}, First <- {1}, MaxOps <- 3,
  store <- v1, rows <- v2, statuses <- v3, savings <- v4, wire <- v5,
  replies <- v6, file <- v7, writes <- v8, starts <- v9, entries <- v10,
  ops <- v11, saved <- v12, asked <- v13, raced <- v14, crossed <- v15

N == INSTANCE TunnelForm WITH
  Port <- {0, 22, 65535, 65536}, Profile <- {"p1"},
  tunnel <- v1, saved <- v2, plan <- v3

G == INSTANCE Settings WITH
  MaxOps <- 3,
  file <- v1, writes <- v2, reads <- v3, lastSettings <- v4, wire <- v5,
  replies <- v6, listening <- v7, store <- v8, loaded <- v9, menu <- v10,
  spinner <- v11, due <- v12, flights <- v13, loading <- v14, list <- v15,
  dead <- v16, ops <- v17, latest <- v18, excuses <- v19

B == INSTANCE Tabs WITH
  Layout <- {"vertical", "horizontal"}, MaxTabs <- 3, MaxOps <- 3,
  tabs <- v1, index <- v2, split <- v3, active <- v4, group <- v5, hand <- v6,
  made <- v7, ops <- v8, meant <- v9, astray <- v10

\* the texts of the palette: 0 separates words, 3 is the verb of a tunnel
Fixed(group, label, keywords, does, arg) ==
  [group |-> group, label |-> label, keywords |-> keywords, does |-> does,
   arg |-> arg, stops |-> FALSE]

Y == INSTANCE CommandPalette WITH
  Menu <- {"profiles", "settings"},
  Catalog <-
    [profiles |-> <<Fixed("PROFILE", <<1, 2>>, <<5>>, "connect", "p")>>,
     tabs |-> <<Fixed("TAB", <<1, 0, 2>>, <<5, 1>>, "tab", "t")>>,
     actions |-> <<Fixed("ACTION", <<2, 1>>, <<5, 0, 2>>, "menu", "profiles"),
                   Fixed("ACTION", <<4>>, <<2, 4, 2>>, "help", "h")>>],
  Tunnel <- <<[id |-> "u", name |-> <<0, 1>>, keywords |-> <<5, 2>>]>>,
  Start <- <<3, 1>>, Stop <- <<3, 2>>, Query <- {<<>>, <<1, 2>>},
  MaxHelps <- 2,
  menu <- v1, openStack <- v2, dialogs <- v3, closing <- v4, helpRef <- v5,
  items <- v6, query <- v7, filtered <- v8, selectedIndex <- v9, running <- v10,
  behind <- v11, contrary <- v12

-----------------------------------------------------------------------------
Init ==
  \/ BackendsInit \/ WorkspaceInit
  \/ part = "migration"  /\ M!Init /\ Zero12
  \/ part = "library"    /\ L!Init /\ Zero18
  \/ part = "tunnels"    /\ T!Init /\ Zero16
  \/ part = "form"       /\ N!Init /\ Zero4
  \/ part = "settings"   /\ G!Init
  \/ part = "tabs"       /\ B!Init /\ Zero11
  \/ part = "palette"    /\ Y!Init /\ Zero13

Next ==
  /\ UNCHANGED part
  /\ \/ BackendsNext \/ WorkspaceNext
     \/ part = "migration"  /\ M!Next /\ UNCHANGED rest12
     \/ part = "library"    /\ L!Next /\ UNCHANGED rest18
     \/ part = "tunnels"    /\ T!Next /\ UNCHANGED rest16
     \/ part = "form"       /\ N!Next /\ UNCHANGED rest4
     \/ part = "settings"   /\ G!Next
     \/ part = "tabs"       /\ B!Next /\ UNCHANGED rest11
     \/ part = "palette"    /\ Y!Next /\ UNCHANGED rest13

Spec == Init /\ [][Next]_vars

-----------------------------------------------------------------------------
\* The type invariant of every part, and the inductive invariant of those of
\* Backends and Workspace, of which theirs is a conjunct.
TypesOK ==
  /\ BackendsInv /\ WorkspaceInv
  /\ part = "migration"  => M!TypeOK
  /\ part = "explorer"   => F!TypeOK
  /\ part = "library"    => L!TypeOK
  /\ part = "tunnels"    => T!TypeOK
  /\ part = "form"       => N!TypeOK
  /\ part = "settings"   => G!TypeOK
  /\ part = "tabs"       => B!TypeOK
  /\ part = "palette"    => Y!TypeOK

\* What the user made is on disk or on its way there until the user deletes
\* it: a rule that was embedded in a profile (tunnel.service.ts, maybeMigrate);
\* a profile, secret or proxy, unless a menu saves a copy that never had it
\* (config-store.service.ts, profiles-menu.component.ts); a chat and the name
\* the user gave it, until newer chats push it out (ai-chat-history.service.ts).
RecordsKept ==
  [][/\ part = "migration" => M!RuleKeptByStep
     /\ part = "library"   => L!KeptByStep
     /\ part = "chat"      => W!KeptByStep]_vars


\* Violated: "must either pipe the socket through the SSH connection or destroy
\* it" (socksServer.js:82): what a SOCKS client sends reaches the far side.
NoByteLost == part = "connection" => D!NoByteLost

\* Violated: "Create a safe subfolder name based on current path to minimize
\* collisions" (file-list.component.ts:1006): what is uploaded to a remote file
\* was made from that file.
UploadsGoHome == part = "explorer" => F!UploadsGoHome
==============================================================================
