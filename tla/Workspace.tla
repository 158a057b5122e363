-------------------------------- MODULE Workspace --------------------------------
(*****************************************************************************)
(* Parts of a tab that share no state: its connection (the SOCKS data plane, *)
(* the connectors of sessions and commands, the size of a terminal), its     *)
(* file explorer and what the user asks of that, and the chats beside it.  A *)
(* behaviour is a behaviour of one of them.                                  *)
(*****************************************************************************)
EXTENDS Slots, Sequences, FiniteSets

CONSTANTS
  SocksPreambles, TunnelPayload,                             \* TunnelDataPlane
  TerminalSizes, XtermSize, Retries, MaxResizes, MaxPrompts, \* TerminalSize
  ExplorerTab, ExplorerServer, TabServer, TempFolder,        \* FileExplorer
  MissingFile, LargeDir, WatcherLimit,
  ExplorerDir, ExplorerRoot, ExplorerMaxOps,                 \* and FileOperations
  FileName,                                                  \* FileOperations
  ChatId, ChatRun, MaxChats, ChatMaxText, ChatMaxOps         \* ChatPanel

D == INSTANCE TunnelDataPlane WITH
  Preambles <- SocksPreambles, Payload <- TunnelPayload, NoTarget <- None,
  kind <- v1, preamble <- v2, written <- v3, wire <- v4, stage <- v5,
  pending <- v6, replies <- v7, target <- v8, received <- v9

K == INSTANCE Connectors WITH
  kind <- v1, via <- v2, bastion <- v3, at <- v4, open <- v5, ending <- v6,
  held <- v7, failure <- v8, timer <- v9, result <- v10, listed <- v11,
  closed <- v12

Z == INSTANCE TerminalSize WITH
  Size <- TerminalSizes,
  shown <- v1, pending <- v2, retries <- v3, wire <- v4, entry <- v5,
  backend <- v6, asked <- v7, pty <- v8, resizes <- v9, prompts <- v10,
  missed <- v11

F == INSTANCE FileExplorer WITH
  Tab <- ExplorerTab, Server <- ExplorerServer, Dir <- ExplorerDir,
  Root <- ExplorerRoot, ServerOf <- TabServer, Folder <- TempFolder,
  Large <- LargeDir, Missing <- MissingFile, MaxWatchers <- WatcherLimit,
  MaxOps <- ExplorerMaxOps,
  open <- v1, path <- v2, shown <- v3, reading <- v4, saving <- v5,
  batch <- v6, job <- v7, meta <- v8, watched <- v9, remote <- v10,
  temp <- v11, watchers <- v12, events <- v13, reads <- v14, uploads <- v15,
  ops <- v16, went <- v17, failed <- v18, due <- v19

O == INSTANCE FileOperations WITH
  Dir <- ExplorerDir, Root <- ExplorerRoot, Name <- FileName,
  MaxOps <- ExplorerMaxOps,
  path <- v1, rows <- v2, reading <- v3, selection <- v4, clip <- v5,
  dialogs <- v6, requests <- v7, saving <- v8, uploading <- v9, ops <- v10,
  picked <- v11, copied <- v12, moved <- v13, hasty <- v14, early <- v15

W == INSTANCE ChatPanel WITH
  Chat <- ChatId, Run <- ChatRun, MaxSessions <- MaxChats,
  MaxText <- ChatMaxText, MaxOps <- ChatMaxOps,
  history <- v1, disk <- v2, messages <- v3, text <- v4, isLoading <- v5,
  queue <- v6, live <- v7, listener <- v8, acpListener <- v9, run <- v10,
  home <- v11, sent <- v12, titling <- v13, made <- v14, gone <- v15,
  astray <- v16, stuck <- v17, hasty <- v18, ops <- v19

-----------------------------------------------------------------------------
\* What a client sends are whole messages: a greeting that is complete or none,
\* and a request the server need not wait for the rest of.
ASSUME PreambleAssumption ==
  /\ TunnelPayload \in Seq(D!Byte) /\ None \notin [host : Seq(D!Byte), port : Nat]
  /\ \A pre \in SocksPreambles :
       /\ pre \in Seq(D!Byte) \X Seq(D!Byte)
       /\ LET greeting == D!ParseGreeting(pre[1]) IN
            \/ greeting.status = "error"
            \/ greeting.status = "ok" /\ greeting.consumed = Len(pre[1])
       /\ D!ParseRequest(pre[2]).status # "incomplete"

ASSUME NoneAssumption ==
  None \notin {"jumper", "target", "reply", "error", "hostKey", "timer", "throw"}

ASSUME SizeAssumption ==
  /\ TerminalSizes \subseteq Nat \X Nat /\ XtermSize \in Nat \X Nat
  /\ None \notin Nat \X Nat /\ None \notin Nat
  /\ Retries \in Nat /\ MaxResizes \in Nat /\ MaxPrompts \in Nat

\* None is not the remote file that a temporary file is uploaded to.
ASSUME ExplorerAssumption ==
  /\ ExplorerRoot \in ExplorerDir /\ TabServer \in [ExplorerTab -> ExplorerServer]
  /\ ExplorerMaxOps \in Nat /\ None \notin F!Watch

\* Messages are taken in order, and there are the two chats of the start.
ASSUME ChatAssumption ==
  /\ ChatRun \subseteq Nat /\ IsFiniteSet(ChatRun)
  /\ ChatId \subseteq Nat /\ {1, 2} \subseteq ChatId
  /\ ChatMaxText \in Nat /\ ChatMaxOps \in Nat

-----------------------------------------------------------------------------
WorkspaceInit ==
  \/ part = "connection" /\ D!Init /\ Zero10
  \/ part = "connector"  /\ K!Init /\ Zero13
  \/ part = "size"       /\ Z!Init /\ Zero12
  \/ part = "explorer"   /\ F!Init
  \/ part = "files"      /\ O!Init /\ Zero16
  \/ part = "chat"       /\ W!Init

WorkspaceNext ==
  \/ part = "connection" /\ D!Next /\ UNCHANGED rest10
  \/ part = "connector"  /\ K!Next /\ UNCHANGED rest13
  \/ part = "size"       /\ Z!Next /\ UNCHANGED rest12
  \/ part = "explorer"   /\ F!Next
  \/ part = "files"      /\ O!Next /\ UNCHANGED rest16
  \/ part = "chat"       /\ W!Next

WorkspaceSpec == WorkspaceInit /\ [][UNCHANGED part /\ WorkspaceNext]_vars

-----------------------------------------------------------------------------
\* The SSH connection is asked for what the SOCKS client asked for, however its
\* bytes were cut (socksServer.js); a session that was closed and a command that
\* was answered leave no connection open, and a refused key is told
\* (ssh.connector.js and the other connectors); the pty gets the size on screen,
\* however sizes race the connection (terminal.component.ts).
ConnectionsSound ==
  /\ part = "connection" => D!SocksTarget
  /\ part = "connector"  => K!CommandsLeaveNothing /\ K!SessionsLeaveNothing /\ K!RefusalIsTold
  /\ part = "size"       => Z!PtyFollows

\* A tab shows where its user last went, however slow listings were; its
\* overlay goes when nothing that raised it is left; a save that main saw, of a
\* file it had registered, is read by it (file-list.component.ts; localFile.js).
\* What it asks for is about the files that were pointed at, where they were
\* shown, and what was cut is moved once.
ExplorerSettles ==
  /\ part = "explorer" => F!ListingFollows /\ F!OverlayLifts /\ F!EditsAreSent
  /\ part = "files"    => O!ActsOnRows /\ O!ClipboardKept

\* Answers stay in the chat that asked, however the user switches meanwhile; what
\* an idle panel shows is saved; an answer that is waited for can be stopped; a
\* queued message waits for a run (ai-chat.component.ts, ai-chat-history.service.ts).
ChatsSound ==
  part = "chat" => /\ W!AnswersStayHome /\ W!IdleIsOnDisk
                   /\ W!StopIsOffered /\ W!QueueIsServed

\* Why they hold: the inductive invariant of the part.
WorkspaceInv ==
  /\ part = "connection" => D!IInv
  /\ part = "connector"  => K!IInv
  /\ part = "size"       => Z!IInv
  /\ part = "explorer"   => F!IInv
  /\ part = "files"      => O!IInv
  /\ part = "chat"       => W!IInv
==============================================================================
