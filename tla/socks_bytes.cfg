SPECIFICATION Spec
CONSTANTS
  None = None
  SyncItem = {secret, tunnel}
  SyncReloaded = {secret}
  SyncEchoed = {secret}
  SyncMaxEdits = 3
  SyncMaxClicks = 2
  Plugin = {ours, theirs}
  Bundled = {ours}
  Manifest <- MCManifest
  Example <- Shipped
  Loader = {1, 2}
  PluginMaxOps = 3
  RemoteDir = {root, sub}
  RemotePart = {part1, part2}
  RemoteRequest = {1, 2}
  RemoteMaxOps = 2
  SocksPreambles <- MCSocksPreambles
  TunnelPayload <- MCTunnelPayload
  TerminalSizes <- MCTerminalSizes
  XtermSize <- MCXtermSize
  Retries = 2
  MaxResizes = 2
  MaxPrompts = 1
  ExplorerTab = {tab1, tab2}
  ExplorerServer = {server1, server2}
  TabServer <- MCTabServer
  TempFolder <- MCTempFolder
  MissingFile <- MCMissing
  LargeDir = {sub}
  WatcherLimit = 1
  ExplorerDir = {root, sub}
  ExplorerRoot = root
  ExplorerMaxOps = 3
  FileName = {1, 2}
  ChatId = {1, 2, 3}
  ChatRun = {1, 2}
  MaxChats = 2
  ChatMaxText = 1
  ChatMaxOps = 2
  ClientLine <- MCClientLine
  ProfileEntry <- MCProfileEntry
  ServerProfiles <- MCServerProfiles
  LoginSecret = {secret1}
  ServerMaxLines = 3
  ServerMaxEdits = 1
  MasterKey = {"gui", "other"}
  RepoKey = "gui"
  HeadlessCommand = {1, 2}
  HeadlessMaxCommands = 2
  ToolProfile = {local1}
  ToolSecret = {secret1}
  ToolProxy = {proxy1}
  AiCallId = {1, 2}
  ToolChat = {chat1, chat2}
  ShellId = {term1, ai1}
  UserSession = {term1}
  AskedTools <- MCAskedTools
  ToolPath <- MCToolPath
  DownloadDir <- MCDownloadDir
  HomeDir <- MCHomeDir
  FileSize = {1, 4}
  MinRead = 1
  DefaultRead = 2
  MaxRead = 3
  MaxInline = 2
  ToolMaxEdits = 1
  ContextChat = {chat2}
  SessionChat <- MCSessionChat
  ContextSettings <- MCContextSettings
  PromptOutput = {2}
  MaxBuffer = 2
  MaxLine = 1
  MaxMarks = 1
  ContextMaxOutputs = 3
  ContextMaxAsks = 2
  MaxClock = 2
  rule1 = rule1
  rule2 = rule2
  tab1 = tab1
  tab2 = tab2
  server1 = server1
  server2 = server2
  root = root
  sub = sub
  local1 = local1
  outside1 = outside1
  new1 = new1
  secret1 = secret1
  proxy1 = proxy1
  group1 = group1
  tag1 = tag1
  chat1 = chat1
  chat2 = chat2
  term1 = term1
  ai1 = ai1
CHECK_DEADLOCK FALSE
INVARIANT NoByteLost
