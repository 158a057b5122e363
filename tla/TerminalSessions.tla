------------------------------ MODULE TerminalSessions ------------------------------
(*****************************************************************************)
(* Terminal tabs, the backend sessions behind them and host-key approval:    *)
(*   - renderer: tab.service.ts, terminal.component.ts, PluginSession.ts,    *)
(*     session.service.ts and host-key-approval.service.ts;                  *)
(*   - main: the open and close handlers of the terminal plugins, the        *)
(*     connectors and runtime/sessionRegistry.js.                            *)
(* A message to main is handled in the step that sends it: nothing the       *)
(* renderer does depends on when it arrives except through the events main   *)
(* sends back, and those wait in toUi for as long as they like.  The IPC     *)
(* 'error' event is left out: PluginSession ignores it because the category  *)
(* it compares ('ssh-terminal') is never the one sent ('ssh').               *)
(*****************************************************************************)
EXTENDS KnownHosts, Naturals, Sequences

CONSTANTS
  Tab,          \* a tab and its session share their id
  Conn,         \* backend sessions; their number bounds the opens
  KindOf,       \* "ssh", "telnet", "serial" or "local"
  PathOf,       \* the hosts an ssh session verifies: <<jumper, target>> or <<target>>
  FirstFile,    \* known_hosts when the application starts
  FirstKeys,    \* the keys the hosts may present then
  OtherFiles,   \* files the user may import
  MaxEdits,     \* bound on known-hosts edits and key changes together
  NoConn, NoKey, NoPrompt

ASSUME ConstantsAssumption ==
  /\ NoConn \notin Conn /\ NoKey \notin Key
  /\ NoPrompt \notin [tab: Tab, host: Host, key: Key]
  /\ \A t \in Tab : PathOf[t] \in Seq(Host) /\ Len(PathOf[t]) <= 2
  /\ FirstFile \subseteq Line /\ FirstKeys \subseteq [Host -> Key]
  /\ OtherFiles \subseteq SUBSET Line
  /\ MaxEdits \in Nat

VARIABLES
  tab,          \* "unused", "open" or "removed"
  connected,    \* the flag of an open tab that shows the reconnect button when false
  mounted,      \* tabs whose terminal component exists
  opened,       \* sessions that sent an open (lastOpenData, cleanupFns)
  listening,    \* sessions whose disconnect handler is installed
  hooked,       \* HostKeyApprovalService.sessions
  queue, dialog,\* prompts that wait, and the one the user sees
  saving,       \* prompts whose key is being pinned
  toUi,         \* events from main to the renderer, in order
  conn,         \* each backend session
  registry,     \* SessionRegistry._sessions
  file,         \* known_hosts
  serverKey,    \* the key each host presents now
  edits,        \* known-hosts edits and key changes so far
  granted,      \* history: the pins the user stands behind
  late,         \* history: sessions that came up after their tab was closed
  moved         \* history: tabs whose component was created again

uiVars    == <<tab, connected, mounted, opened, listening, hooked>>
promptVars == <<queue, dialog, saving>>
hostVars  == <<file, serverKey, granted, edits>>
vars == <<uiVars, promptVars, toUi, conn, registry, hostVars, late, moved>>

Phase == {"unused", "dialing", "live", "ending", "stray", "closed"}
Idle(phase) == [tab |-> NoConn, phase |-> phase, leg |-> 1, once |-> NoKey]
Prompt == [tab: Tab, host: Host, key: Key]
Event == [tab: Tab, disconnect: {TRUE}] \cup [tab: Tab, prompt: Prompt]

HostPath(t) == IF KindOf[t] = "ssh" THEN PathOf[t] ELSE << >>
IsPlugin(t) == KindOf[t] # "local"
SameChannel(t, u) == KindOf[t] = KindOf[u]

\* Only these backends forward 'disconnect'; telnet and local emit it to the registry alone.
Forwards(t) == KindOf[t] \in {"ssh", "serial"}

Disconnected(t) == IF Forwards(t) THEN <<[tab |-> t, disconnect |-> TRUE]>> ELSE << >>

TypeOK ==
  /\ tab \in [Tab -> {"unused", "open", "removed"}]
  /\ connected \in [Tab -> BOOLEAN]
  /\ \A S \in {mounted, opened, listening, hooked, moved} : S \subseteq Tab
  /\ queue \in Seq(Prompt)
  /\ dialog \in Prompt \cup {NoPrompt}
  /\ saving \subseteq Prompt
  /\ toUi \in Seq(Event)
  /\ conn \in [Conn -> [tab: Tab \cup {NoConn}, phase: Phase,
                        leg: 1..3, once: Key \cup {NoKey}]]
  /\ registry \in [Tab -> Conn \cup {NoConn}]
  /\ file \subseteq Line
  /\ serverKey \in [Host -> Key]
  /\ granted \subseteq Host \X Key
  /\ edits \in 0..MaxEdits
  /\ late \subseteq Conn

Init ==
  /\ tab = [t \in Tab |-> "unused"]
  /\ connected = [t \in Tab |-> FALSE]
  /\ mounted = {} /\ opened = {} /\ listening = {} /\ hooked = {}
  /\ queue = << >> /\ dialog = NoPrompt /\ saving = {}
  /\ toUi = << >>
  /\ conn = [c \in Conn |-> Idle("unused")]
  /\ registry = [t \in Tab |-> NoConn]
  /\ file = FirstFile
  /\ serverKey \in FirstKeys
  /\ granted = Pins(FirstFile)
  /\ edits = 0
  /\ late = {} /\ moved = {}

-------------------------------------------------------------------------------
(* Tabs *)

\* A connection event or the local terminal of the settings adds a tab.
AddTab(t) ==
  /\ tab[t] = "unused"
  /\ tab' = [tab EXCEPT ![t] = "open"]
  /\ hooked' = IF IsPlugin(t) THEN hooked \cup {t} ELSE hooked
  /\ UNCHANGED <<connected, mounted, opened, listening, promptVars, toUi,
                 conn, registry, hostVars, late, moved>>

\* The open handlers of the backends: a session starts to connect; it is not registered yet.
OpenBackend(t, once) ==
  LET Unused == {c \in Conn : conn[c].phase = "unused"}
      c == CHOOSE c \in Unused : TRUE IN
    /\ Unused # {}
    /\ conn' = [conn EXCEPT ![c] = [tab |-> t, phase |-> "dialing", leg |-> 1, once |-> once]]
    /\ late' = IF tab[t] = "removed" /\ t \notin mounted THEN late \cup {c} ELSE late

\* PluginSession.open: the tab counts as connected as soon as the request is sent.
OpenSession(t) ==
  /\ OpenBackend(t, NoKey)
  /\ opened' = opened \cup {t}
  /\ listening' = IF IsPlugin(t) THEN listening \cup {t} ELSE listening
  /\ connected' = [connected EXCEPT ![t] = TRUE]

\* ngAfterViewInit and initTab.
Mount(t) ==
  /\ tab[t] = "open" /\ t \notin mounted
  /\ mounted' = mounted \cup {t}
  /\ \/ OpenSession(t)
     \/ /\ IsPlugin(t)                       \* the secret could not be resolved
        /\ UNCHANGED <<connected, opened, listening, conn, late>>
  /\ UNCHANGED <<tab, hooked, promptVars, toUi, registry, hostVars, moved>>

\* Moving a tab to the other pane destroys its component and creates it again
\* while the tab exists: the session is not closed, and it is opened again.
MoveTabToPane(t) ==
  /\ tab[t] = "open" /\ t \in mounted
  /\ OpenSession(t)
  /\ moved' = moved \cup {t}
  /\ UNCHANGED <<tab, mounted, hooked, promptVars, toUi, registry, hostVars>>

RemoveTab(t) ==
  /\ tab[t] = "open"
  /\ tab' = [tab EXCEPT ![t] = "removed"]
  /\ connected' = [connected EXCEPT ![t] = FALSE]
  /\ UNCHANGED <<mounted, opened, listening, hooked, promptVars, toUi,
                 conn, registry, hostVars, late, moved>>

\* A disconnected tab is replaced, in place, by a tab with a new session.
Reconnect(t, u) ==
  /\ tab[t] = "open" /\ ~connected[t] /\ tab[u] = "unused" /\ SameChannel(t, u)
  /\ tab' = [tab EXCEPT ![t] = "removed", ![u] = "open"]
  /\ connected' = [connected EXCEPT ![t] = FALSE, ![u] = TRUE]
  /\ hooked' = IF IsPlugin(u) THEN hooked \cup {u} ELSE hooked
  /\ UNCHANGED <<mounted, opened, listening, promptVars, toUi, conn, registry,
                 hostVars, late, moved>>

\* Mutant of CloseBackend: the entry is forgotten, its session is not closed.
ForgetBackend(t) ==
  /\ registry' = [registry EXCEPT ![t] = NoConn]
  /\ UNCHANGED conn

\* The close handlers: what is registered under the id is ended and unregistered.
CloseBackend(t) ==
  /\ registry' = [registry EXCEPT ![t] = NoConn]
  /\ conn' = IF registry[t] = NoConn THEN conn
             ELSE [conn EXCEPT ![registry[t]].phase = "ending"]

\* ngOnDestroy of a tab that is gone: PluginSession.close.  Its cleanup removes
\* every listener of the channel, those of the other sessions included.
Unmount(t) ==
  /\ tab[t] = "removed" /\ t \in mounted
  /\ mounted' = mounted \ {t}
  /\ CloseBackend(t)
  /\ listening' = IF t \in opened THEN {u \in listening : ~SameChannel(t, u)} ELSE listening
  /\ late' = late \cup {c \in Conn : conn[c].tab = t /\ conn[c].phase = "dialing"}
  /\ UNCHANGED <<tab, connected, opened, hooked, promptVars, toUi, hostVars, moved>>

-------------------------------------------------------------------------------
(* Backend sessions *)

Gone(c) == conn' = [conn EXCEPT ![c] = Idle("closed")] /\ late' = late \ {c}

AtTarget(c) == conn[c].leg = Len(HostPath(conn[c].tab))
LegHost(c) == HostPath(conn[c].tab)[conn[c].leg]
Verifying(c) == conn[c].phase = "dialing" /\ conn[c].leg <= Len(HostPath(conn[c].tab))

\* Mutant of Trusted: a key approved once is trusted on whatever leg presents it,
\* and a key that changed counts as one that is known.
LaxTrusted(c) == Verify(file, LegHost(c), serverKey[LegHost(c)]) # "UNKNOWN"

\* The verifier of a leg.  A key trusted once is offered to the target leg only.
Trusted(c) ==
  \/ AtTarget(c) /\ conn[c].once = serverKey[LegHost(c)]
  \/ Verify(file, LegHost(c), serverKey[LegHost(c)]) = "MATCH"

AcceptKey(c) ==
  /\ Verifying(c) /\ Trusted(c)
  /\ conn' = [conn EXCEPT ![c].leg = @ + 1]
  /\ UNCHANGED <<uiVars, promptVars, toUi, registry, hostVars, late, moved>>

\* Fail closed: the handshake is refused and the renderer is told the key.  The
\* target's client also closes; a jumper's close is not listened to.
RejectKey(c) ==
  /\ Verifying(c) /\ ~Trusted(c)
  /\ Gone(c)
  /\ LET t == conn[c].tab
         p == [tab |-> t, host |-> LegHost(c), key |-> serverKey[LegHost(c)]] IN
       \/ toUi' = toUi \o <<[tab |-> t, prompt |-> p]>>
       \/ AtTarget(c) /\ toUi' = toUi \o Disconnected(t) \o <<[tab |-> t, prompt |-> p]>>
  /\ UNCHANGED <<uiVars, promptVars, registry, hostVars, moved>>

\* The session is up: connect() resolves and the handler registers it.
Established(c) ==
  /\ conn[c].phase = "dialing" /\ ~Verifying(c)
  /\ conn' = [conn EXCEPT ![c].phase = "live"]
  /\ registry' = [registry EXCEPT ![conn[c].tab] = c]
  /\ UNCHANGED <<uiVars, promptVars, toUi, hostVars, late, moved>>

\* The proxy, the jumper, the login or the spawn fails, or the peer closes before
\* the session is up; only an ssh client that reached its target reports a close.
ConnectFails(c) ==
  /\ conn[c].phase = "dialing"
  /\ Gone(c)
  /\ \/ UNCHANGED toUi
     \/ /\ KindOf[conn[c].tab] = "ssh"
        /\ conn[c].leg >= Len(HostPath(conn[c].tab))
        /\ toUi' = toUi \o Disconnected(conn[c].tab)
  /\ UNCHANGED <<uiVars, promptVars, registry, hostVars, moved>>

\* The client is ready but the shell is refused: connect() rejects and the client stays up.
ShellFails(c) ==
  /\ conn[c].phase = "dialing" /\ ~Verifying(c) /\ KindOf[conn[c].tab] = "ssh"
  /\ conn' = [conn EXCEPT ![c].phase = "stray"]
  /\ UNCHANGED <<uiVars, promptVars, toUi, registry, hostVars, late, moved>>

\* Mutant of Unregister: the entry stays.
KeepRegistered(c) == UNCHANGED registry

\* 'close' of the client: the registry drops whatever has the id by now.
Unregister(c) ==
  registry' = IF conn[c].phase = "stray" THEN registry
              ELSE [registry EXCEPT ![conn[c].tab] = NoConn]

SessionCloses(c) ==
  /\ conn[c].phase \in {"live", "ending", "stray"}
  /\ Gone(c)
  /\ Unregister(c)
  /\ toUi' = toUi \o Disconnected(conn[c].tab)
  /\ UNCHANGED <<uiVars, promptVars, hostVars, moved>>

-------------------------------------------------------------------------------
(* Host-key approval in the renderer *)

\* Mutant of Pump: the next prompt is shown only when its tab still exists.
PumpOpenTabs(q, d) ==
  IF d = NoPrompt /\ q # << >> /\ tab[Head(q).tab] = "open"
  THEN queue' = Tail(q) /\ dialog' = Head(q)
  ELSE queue' = q /\ dialog' = d

\* pump(): one dialog at a time, first come first served.
Pump(q, d) ==
  IF d = NoPrompt /\ q # << >>
  THEN queue' = Tail(q) /\ dialog' = Head(q)
  ELSE queue' = q /\ dialog' = d

Receive ==
  /\ toUi # << >>
  /\ toUi' = Tail(toUi)
  /\ LET e == Head(toUi) IN
       IF "prompt" \in DOMAIN e
       THEN Pump(Append(queue, e.prompt), dialog) /\ UNCHANGED connected
       ELSE /\ connected' = [connected EXCEPT ![e.tab] = @ /\ e.tab \notin listening]
            /\ UNCHANGED <<queue, dialog>>
  /\ UNCHANGED <<tab, mounted, opened, listening, hooked, saving, conn, registry,
                 hostVars, late, moved>>

\* Mutant of Retry: the whole question travels where its key belongs.
RetryWithPrompt(t, once) ==
  /\ IF t \in opened THEN OpenBackend(t, IF once = NoKey THEN once ELSE dialog)
     ELSE UNCHANGED <<conn, late>>
  /\ UNCHANGED <<tab, connected, hooked>>

\* hooks.retry: the last open request is sent again, with a key to trust once or without.
Retry(t, once) ==
  /\ IF t \in opened THEN OpenBackend(t, once) ELSE UNCHANGED <<conn, late>>
  /\ UNCHANGED <<tab, connected, hooked>>

\* hooks.abort: the tab that waited is closed.
Abort(t) ==
  /\ hooked' = hooked \ {t}
  /\ tab' = [tab EXCEPT ![t] = IF @ = "open" THEN "removed" ELSE @]
  /\ connected' = [connected EXCEPT ![t] = FALSE]
  /\ UNCHANGED <<conn, late>>

\* The user answers the dialog; settle() finds the hooks of the session or drops the choice.
Answer(choice) ==
  /\ dialog # NoPrompt
  /\ Pump(queue, NoPrompt)
  /\ LET t == dialog.tab IN
       \/ /\ t \notin hooked
          /\ UNCHANGED <<tab, connected, hooked, saving, conn, late>>
       \/ /\ t \in hooked /\ choice = "save"
          /\ saving' = saving \cup {dialog}
          /\ UNCHANGED <<tab, connected, hooked, conn, late>>
       \/ /\ t \in hooked /\ choice = "once"
          /\ Retry(t, dialog.key)
          /\ UNCHANGED saving
       \/ /\ t \in hooked /\ choice = "cancel"
          /\ Abort(t)
          /\ UNCHANGED saving
  /\ UNCHANGED <<mounted, opened, listening, toUi, registry, hostVars, moved>>

Others(h, k) == {g \in granted : ~(g[1] = h /\ SameType(g[2], k))}
Rotated(h, k) == Others(h, k) \cup {<<h, k>>}

\* known-hosts.add returned: retry, or abort when it failed.
Saved(p) ==
  /\ p \in saving
  /\ saving' = saving \ {p}
  /\ \/ /\ file' = Add(file, p.host, p.key)
        /\ granted' = Rotated(p.host, p.key)
        /\ Retry(p.tab, NoKey)
     \/ /\ Abort(p.tab)
        /\ UNCHANGED <<file, granted>>
  /\ UNCHANGED <<mounted, opened, listening, queue, dialog, toUi,
                 registry, serverKey, edits, moved>>

-------------------------------------------------------------------------------
(* The known-hosts page, the command line, and the servers *)

Edit == edits < MaxEdits /\ edits' = edits + 1

\* A row of the page stands for a host and a key type.
ForgetHost(h, k) ==
  /\ Edit
  /\ <<h, k>> \in Pins(file)
  /\ file' = Remove(file, h, k)
  /\ granted' = Others(h, k)
  /\ UNCHANGED <<uiVars, promptVars, toUi, conn, registry, serverKey, late, moved>>

\* yaet known-hosts pin: stores the key only when it is the one the user names.
PinFromCli(h, wanted) ==
  /\ Edit
  /\ Verify(file, h, serverKey[h]) # "MATCH" /\ serverKey[h] = wanted
  /\ file' = Add(file, h, wanted)
  /\ granted' = Rotated(h, wanted)
  /\ UNCHANGED <<uiVars, promptVars, toUi, conn, registry, serverKey, late, moved>>

ImportFile(other) ==
  /\ Edit
  /\ file' = ImportOpenSSH(file, other)
  /\ granted' = granted \cup Pins(other)
  /\ UNCHANGED <<uiVars, promptVars, toUi, conn, registry, serverKey, late, moved>>

ChangeServerKey(h, k) ==
  /\ Edit /\ k # serverKey[h]
  /\ serverKey' = [serverKey EXCEPT ![h] = k]
  /\ UNCHANGED <<uiVars, promptVars, toUi, conn, registry, file, granted, late, moved>>

-------------------------------------------------------------------------------

UserAction ==
  \/ \E t \in Tab : AddTab(t) \/ MoveTabToPane(t) \/ RemoveTab(t)
  \/ \E t, u \in Tab : Reconnect(t, u)
  \/ \E h \in Host, k \in Key : ForgetHost(h, k) \/ PinFromCli(h, k)
  \/ \E other \in OtherFiles : ImportFile(other)

Network ==
  \E c \in Conn : AcceptKey(c) \/ RejectKey(c) \/ Established(c) \/ ConnectFails(c)
                  \/ ShellFails(c) \/ SessionCloses(c)

UserAnswers == \E choice \in {"save", "once", "cancel"} : Answer(choice)
SaveReturns == \E p \in saving : Saved(p)

Next ==
  \/ UserAction
  \/ \E t \in Tab : Mount(t) \/ Unmount(t)
  \/ Network
  \/ Receive \/ UserAnswers \/ SaveReturns
  \/ \E h \in Host, k \in Key : ChangeServerKey(h, k)

Spec == Init /\ [][Next]_vars

-------------------------------------------------------------------------------
(* Properties *)

\* A key of known_hosts matches for a host only if the user saved or imported it
\* for that host and has not replaced or removed it since (verify, add, remove
\* and importOpenSSH of knownHostsService.js agree on what a line pins).
MatchMeansGranted ==
  \A h \in Host, k \in Key : Verify(file, h, k) = "MATCH" => <<h, k>> \in granted

\* What the registry holds under an id is a live session of that id: the AI agent
\* and the close handler act on what they find there (sessionRegistry.js:31-51).
RegistryHoldsLive ==
  \A t \in Tab : registry[t] # NoConn =>
    conn[registry[t]].tab = t /\ conn[registry[t]].phase = "live"

\* A live session whose tab is closed was still connecting when the close came, or
\* was opened by a later answer, or belongs to a tab that was moved between panes:
\* a close reaches everything else (ssh-terminal/backend/index.js:106-113).
CloseReachesLive ==
  \A c \in Conn :
    conn[c].phase = "live" /\ tab[conn[c].tab] = "removed" /\ conn[c].tab \notin mounted
      => c \in late \/ conn[c].tab \in moved

\* A tab that is closed takes its session with it (ssh-terminal/backend/index.js:107-113).
\* It fails: a close before the session is registered finds nothing to close.
NoSessionWithoutTab ==
  \A c \in Conn :
    conn[c].phase = "live" => tab[conn[c].tab] # "removed" \/ conn[c].tab \in mounted

\* Host-key questions never wait without a dialog on the screen
\* (host-key-approval.service.ts:79-92).
NoIdlePrompts == queue # << >> => dialog # NoPrompt

\* A connection gets past a host only with a key the user stands behind, and a
\* trust for once comes from the answer to a dialog about that key and that tab.
KeyConsent ==
  [][\A c \in Conn :
       /\ conn'[c].leg > conn[c].leg =>
            \/ <<LegHost(c), serverKey[LegHost(c)]>> \in granted
            \/ AtTarget(c) /\ conn[c].once = serverKey[LegHost(c)]
       /\ conn'[c].once \notin {conn[c].once, NoKey} =>
            /\ dialog # NoPrompt
            /\ dialog.tab = conn'[c].tab /\ dialog.key = conn'[c].once]_vars

\* TestPlanManual.md:37: "after network interruption, reconnect button appears".
\* The session of an open tab is one whose disconnect the tab would hear of.
DropWouldShow ==
  \A c \in Conn : conn[c].phase = "live" /\ tab[conn[c].tab] = "open" /\ Forwards(conn[c].tab)
    => conn[c].tab \in listening
===============================================================================
