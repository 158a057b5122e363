-------------------------- MODULE TerminalSessions_proofs --------------------------
(*****************************************************************************)
(* Proofs about TerminalSessions, for any number of tabs, sessions, hosts    *)
(* and keys, and any known_hosts file.                                       *)
(*****************************************************************************)
EXTENDS TerminalSessions, TLAPS

Session == [tab: Tab \cup {NoConn}, phase: Phase, leg: 1..3, once: Key \cup {NoKey}]

\* A session that was opened and has not ended belongs to a tab.
ConnOK ==
  /\ conn \in [Conn -> Session]
  /\ registry \in [Tab -> Conn \cup {NoConn}]
  /\ \A c \in Conn : conn[c].phase \notin {"unused", "closed"} => conn[c].tab \in Tab

-------------------------------------------------------------------------------
(* Sessions and their registry *)

\* The hosts of a path are hosts, and there are at most two.
LEMMA PathHosts ==
  ASSUME NEW t \in Tab
  PROVE  HostPath(t) \in Seq(Host) /\ Len(HostPath(t)) <= 2
<1>1. PathOf[t] \in Seq(Host) /\ Len(PathOf[t]) <= 2
  BY ConstantsAssumption
<1>2. << >> \in Seq(Host) /\ Len(<< >>) = 0
  OBVIOUS
<1> QED
  BY <1>1, <1>2 DEF HostPath

\* A session that opens takes the place of one that is not in use.
LEMMA OpenKeeps ==
  ASSUME ConnOK, RegistryHoldsLive, NEW t \in Tab, NEW once \in Key \cup {NoKey},
         OpenBackend(t, once), registry' = registry
  PROVE  ConnOK' /\ RegistryHoldsLive'
<1> DEFINE Unused == {c \in Conn : conn[c].phase = "unused"}
           fresh == CHOOSE c \in Unused : TRUE
           new == [tab |-> t, phase |-> "dialing", leg |-> 1, once |-> once]
<1>1. fresh \in Conn /\ conn[fresh].phase = "unused" /\ conn' = [conn EXCEPT ![fresh] = new]
  BY DEF OpenBackend
<1>2. new \in Session /\ new.tab \in Tab /\ new.phase = "dialing"
  BY DEF Session, Phase
<1> HIDE DEF fresh, new
<1>3. ConnOK'
  BY <1>1, <1>2 DEF ConnOK
<1>4. \A c \in Conn : conn[c].phase = "live" => conn'[c] = conn[c]
  BY <1>1 DEF ConnOK
<1>5. \A u \in Tab : registry[u] # NoConn => registry[u] \in Conn
  BY DEF ConnOK
<1> QED
  BY <1>3, <1>4, <1>5 DEF RegistryHoldsLive

\* A session that goes, and was not registered, changes nothing else.
LEMMA GoneKeeps ==
  ASSUME ConnOK, RegistryHoldsLive, NEW c \in Conn, conn[c].phase # "live", Gone(c),
         registry' = registry
  PROVE  ConnOK' /\ RegistryHoldsLive'
<1>1. Idle("closed") \in Session /\ Idle("closed").phase = "closed"
  BY DEF Idle, Session, Phase
<1>2. conn' = [conn EXCEPT ![c] = Idle("closed")]
  BY DEF Gone
<1>3. ConnOK'
  BY <1>1, <1>2 DEF ConnOK
<1>4. \A d \in Conn : conn[d].phase = "live" => conn'[d] = conn[d]
  BY <1>2 DEF ConnOK
<1>5. \A u \in Tab : registry[u] # NoConn => registry[u] \in Conn
  BY DEF ConnOK
<1> QED
  BY <1>3, <1>4, <1>5 DEF RegistryHoldsLive

\* What is closed is taken from the registry, and no other tab has it there.
LEMMA CloseKeeps ==
  ASSUME ConnOK, RegistryHoldsLive, NEW t \in Tab, CloseBackend(t)
  PROVE  ConnOK' /\ RegistryHoldsLive'
<1>1. CASE registry[t] = NoConn
  BY <1>1 DEF CloseBackend, ConnOK, RegistryHoldsLive
<1>2. CASE registry[t] # NoConn
  <2> DEFINE c == registry[t]
  <2>1. c \in Conn /\ conn[c].tab = t /\ conn[c].phase = "live"
    BY <1>2 DEF ConnOK, RegistryHoldsLive
  <2>2. conn' = [conn EXCEPT ![c].phase = "ending"]
        /\ registry' = [registry EXCEPT ![t] = NoConn]
    BY <1>2 DEF CloseBackend
  <2>3. conn'[c] = [conn[c] EXCEPT !.phase = "ending"] /\ conn'[c] \in Session
        /\ conn'[c].tab = t
    BY <2>1, <2>2 DEF ConnOK, Session, Phase
  <2>4. \A d \in Conn : d # c => conn'[d] = conn[d]
    BY <2>2 DEF ConnOK
  <2> HIDE DEF c
  <2>5. ConnOK'
    <3>1. conn' \in [Conn -> Session]
      BY <2>1, <2>2, <2>3, <2>4 DEF ConnOK
    <3>2. registry' \in [Tab -> Conn \cup {NoConn}]
      BY <2>2 DEF ConnOK
    <3> QED
      BY <3>1, <3>2, <2>3, <2>4 DEF ConnOK
  <2>6. ASSUME NEW u \in Tab, registry'[u] # NoConn
        PROVE  conn'[registry'[u]].tab = u /\ conn'[registry'[u]].phase = "live"
    <3>1. u # t /\ registry'[u] = registry[u] /\ registry[u] \in Conn
      BY <2>2, <2>6 DEF ConnOK
    <3>2. conn[registry[u]].tab = u /\ conn[registry[u]].phase = "live"
      BY <3>1, <2>6 DEF RegistryHoldsLive
    <3> QED
      BY <3>1, <3>2, <2>1, <2>4
  <2> QED
    BY <2>5, <2>6 DEF RegistryHoldsLive
<1> QED
  BY <1>1, <1>2

\* A session that comes up is registered under its tab.
LEMMA EstablishedKeeps ==
  ASSUME ConnOK, RegistryHoldsLive, NEW c \in Conn, Established(c)
  PROVE  ConnOK' /\ RegistryHoldsLive'
<1> DEFINE t == conn[c].tab
<1>1. t \in Tab /\ conn[c].phase = "dialing"
  BY DEF Established, ConnOK
<1>2. conn' = [conn EXCEPT ![c].phase = "live"] /\ registry' = [registry EXCEPT ![t] = c]
  BY DEF Established
<1>3. conn'[c] \in Session /\ conn'[c].tab = t /\ conn'[c].phase = "live"
  BY <1>2 DEF ConnOK, Session, Phase
<1>4. \A d \in Conn : d # c => conn'[d] = conn[d]
  BY <1>2 DEF ConnOK
<1> HIDE DEF t
<1>5. ConnOK'
  <2>1. conn' \in [Conn -> Session]
    BY <1>2, <1>3, <1>4 DEF ConnOK
  <2>2. registry' \in [Tab -> Conn \cup {NoConn}]
    BY <1>1, <1>2 DEF ConnOK
  <2> QED
    BY <1>1, <2>1, <2>2, <1>3, <1>4 DEF ConnOK
<1>6. ASSUME NEW u \in Tab, registry'[u] # NoConn
      PROVE  conn'[registry'[u]].tab = u /\ conn'[registry'[u]].phase = "live"
  <2>1. CASE u = t
    BY <2>1, <1>2, <1>3 DEF ConnOK
  <2>2. CASE u # t
    <3>1. registry'[u] = registry[u] /\ registry[u] \in Conn
      BY <1>2, <1>6, <2>2 DEF ConnOK
    <3>2. conn[registry[u]].tab = u /\ conn[registry[u]].phase = "live"
      BY <3>1, <1>6 DEF RegistryHoldsLive
    <3> QED
      BY <3>1, <3>2, <1>1, <1>4
  <2> QED
    BY <2>1, <2>2
<1> QED
  BY <1>5, <1>6 DEF RegistryHoldsLive

\* A session that closes takes its own entry, or a younger one, with it.
LEMMA ClosesKeeps ==
  ASSUME ConnOK, RegistryHoldsLive, NEW c \in Conn, SessionCloses(c)
  PROVE  ConnOK' /\ RegistryHoldsLive'
<1> DEFINE t == conn[c].tab
<1>1. t \in Tab /\ conn[c].phase \in {"live", "ending", "stray"}
  BY DEF SessionCloses, ConnOK
<1>2. conn' = [conn EXCEPT ![c] = Idle("closed")]
  BY DEF SessionCloses, Gone
<1>3. registry' = IF conn[c].phase = "stray" THEN registry ELSE [registry EXCEPT ![t] = NoConn]
  BY DEF SessionCloses, Unregister
<1>4. Idle("closed") \in Session /\ Idle("closed").phase = "closed"
  BY DEF Idle, Session, Phase
<1>5. ConnOK'
  BY <1>1, <1>2, <1>3, <1>4 DEF ConnOK
<1> HIDE DEF t
<1>6. ASSUME NEW u \in Tab, registry'[u] # NoConn
      PROVE  conn'[registry'[u]].tab = u /\ conn'[registry'[u]].phase = "live"
  <2>1. registry'[u] = registry[u] /\ registry[u] \in Conn
    BY <1>3, <1>6 DEF ConnOK
  <2>2. conn[registry[u]].tab = u /\ conn[registry[u]].phase = "live"
    BY <2>1, <1>6 DEF RegistryHoldsLive
  <2>3. registry[u] # c
    <3>1. CASE conn[c].phase = "live"
      BY <3>1, <1>1, <1>3, <1>6, <2>2 DEF ConnOK, t
    <3>2. CASE conn[c].phase # "live"
      BY <3>2, <2>2
    <3> QED
      BY <3>1, <3>2
  <2> QED
    BY <2>1, <2>2, <2>3, <1>2 DEF ConnOK
<1> QED
  BY <1>5, <1>6 DEF RegistryHoldsLive

-------------------------------------------------------------------------------
(* Type correctness, one group of variables at a time *)

UiOK ==
  /\ tab \in [Tab -> {"unused", "open", "removed"}]
  /\ connected \in [Tab -> BOOLEAN]
  /\ \A S \in {mounted, opened, listening, hooked, moved} : S \subseteq Tab
  /\ late \subseteq Conn

PromptsOK ==
  /\ queue \in Seq(Prompt)
  /\ dialog \in Prompt \cup {NoPrompt}
  /\ saving \subseteq Prompt
  /\ toUi \in Seq(Event)

HostsOK ==
  /\ file \subseteq Line
  /\ serverKey \in [Host -> Key]
  /\ granted \subseteq Host \X Key
  /\ edits \in 0..MaxEdits

Typed == UiOK /\ PromptsOK /\ HostsOK /\ ConnOK

\* The leg a session verifies is a host of its path.
LEMMA LegIsHost ==
  ASSUME ConnOK, NEW c \in Conn, Verifying(c)
  PROVE  /\ conn[c].tab \in Tab /\ conn[c].leg \in 1..2
         /\ LegHost(c) \in Host
<1>1. conn[c].tab \in Tab /\ conn[c].leg \in 1..3
  BY DEF Verifying, ConnOK, Session
<1>2. /\ HostPath(conn[c].tab) \in Seq(Host) /\ Len(HostPath(conn[c].tab)) <= 2
      /\ conn[c].leg <= Len(HostPath(conn[c].tab))
  BY <1>1, PathHosts DEF Verifying
<1> QED
  BY <1>1, <1>2 DEF LegHost

\* An open keeps what is typed; it may mark the session as late.
LEMMA OpenLate ==
  ASSUME ConnOK, late \subseteq Conn, NEW t \in Tab, NEW once, OpenBackend(t, once)
  PROVE  late' \subseteq Conn
<1> DEFINE Unused == {c \in Conn : conn[c].phase = "unused"}
<1>1. (CHOOSE c \in Unused : TRUE) \in Conn
  BY DEF OpenBackend
<1> QED
  BY <1>1 DEF OpenBackend

\* The variables of the renderer.
LEMMA UiStep ==
  ASSUME Typed, Next
  PROVE  UiOK'
<1> USE DEF Typed, UiOK
<1>1. ASSUME NEW t \in Tab, AddTab(t) PROVE UiOK'
  BY <1>1 DEF AddTab
<1>2. ASSUME NEW t \in Tab, MoveTabToPane(t) PROVE UiOK'
  BY <1>2, OpenLate DEF MoveTabToPane, OpenSession
<1>3. ASSUME NEW t \in Tab, RemoveTab(t) PROVE UiOK'
  BY <1>3 DEF RemoveTab
<1>4. ASSUME NEW t \in Tab, NEW u \in Tab, Reconnect(t, u) PROVE UiOK'
  BY <1>4 DEF Reconnect
<1>5. ASSUME NEW t \in Tab, Mount(t) PROVE UiOK'
  <2>1. CASE OpenSession(t)
    BY <1>5, <2>1, OpenLate DEF Mount, OpenSession
  <2>2. CASE UNCHANGED <<connected, opened, listening, conn, late>>
    BY <1>5, <2>2 DEF Mount
  <2> QED
    BY <1>5, <2>1, <2>2 DEF Mount
<1>6. ASSUME NEW t \in Tab, Unmount(t) PROVE UiOK'
  BY <1>6 DEF Unmount
<1>7. ASSUME NEW c \in Conn,
             \/ AcceptKey(c) \/ RejectKey(c) \/ Established(c) \/ ConnectFails(c)
             \/ ShellFails(c) \/ SessionCloses(c)
      PROVE  UiOK'
  BY <1>7 DEF AcceptKey, RejectKey, Established, ConnectFails, ShellFails, SessionCloses,
              Gone, uiVars
<1>8. ASSUME Receive PROVE UiOK'
  <2>1. /\ UNCHANGED <<tab, mounted, opened, listening, hooked, late, moved>>
        /\ \/ UNCHANGED connected
           \/ connected' = [connected EXCEPT ![Head(toUi).tab] =
                              @ /\ Head(toUi).tab \notin listening]
    BY <1>8 DEF Receive
  <2>2. connected' \in [Tab -> BOOLEAN]
    BY <2>1
  <2> QED
    BY <2>1, <2>2
<1>9. ASSUME NEW choice \in {"save", "once", "cancel"}, Answer(choice) PROVE UiOK'
  <2>1. dialog.tab \in Tab
    BY <1>9 DEF Answer, PromptsOK, Prompt
  <2>2. CASE UNCHANGED <<tab, connected, hooked, late>>
    BY <1>9, <2>2 DEF Answer
  <2>3. CASE Retry(dialog.tab, dialog.key)
    BY <1>9, <2>1, <2>3, OpenLate DEF Answer, Retry
  <2>4. CASE Abort(dialog.tab)
    BY <1>9, <2>1, <2>4 DEF Answer, Abort
  <2> QED
    BY <1>9, <2>2, <2>3, <2>4 DEF Answer
<1>10. ASSUME NEW p \in saving, Saved(p) PROVE UiOK'
  <2>1. p.tab \in Tab
    BY <1>10 DEF PromptsOK, Prompt
  <2>2. CASE Retry(p.tab, NoKey)
    BY <1>10, <2>1, <2>2, OpenLate DEF Saved, Retry
  <2>3. CASE Abort(p.tab)
    BY <1>10, <2>1, <2>3 DEF Saved, Abort
  <2> QED
    BY <1>10, <2>2, <2>3 DEF Saved
<1>11. ASSUME NEW h \in Host, NEW k \in Key,
              ForgetHost(h, k) \/ PinFromCli(h, k) \/ ChangeServerKey(h, k)
       PROVE  UiOK'
  BY <1>11 DEF ForgetHost, PinFromCli, ChangeServerKey, uiVars
<1>12. ASSUME NEW other \in OtherFiles, ImportFile(other) PROVE UiOK'
  BY <1>12 DEF ImportFile, uiVars
<1> QED
  BY <1>1, <1>2, <1>3, <1>4, <1>5, <1>6, <1>7, <1>8, <1>9, <1>10, <1>11, <1>12
  DEF Next, UserAction, Network, UserAnswers, SaveReturns

\* Only a question carries a prompt.
LEMMA PromptOfEvent ==
  ASSUME NEW e \in Event, "prompt" \in DOMAIN e
  PROVE  e.prompt \in Prompt
<1>1. CASE e \in [tab: Tab, disconnect: {TRUE}]
  <2>1. DOMAIN e = {"tab", "disconnect"}
    BY <1>1
  <2> QED
    BY <2>1
<1>2. CASE e \in [tab: Tab, prompt: Prompt]
  BY <1>2
<1> QED
  BY <1>1, <1>2 DEF Event

\* What main tells the renderer of a session that is gone.
LEMMA DisconnectEvents ==
  ASSUME NEW t \in Tab
  PROVE  Disconnected(t) \in Seq(Event)
<1>1. [tab |-> t, disconnect |-> TRUE] \in Event
  BY DEF Event
<1> QED
  BY <1>1 DEF Disconnected

\* Two sequences over a set make one.
LEMMA Joined ==
  ASSUME NEW S, NEW q \in Seq(S), NEW r \in Seq(S)
  PROVE  q \o r \in Seq(S)
OBVIOUS

\* The next dialog is one of the questions that wait.
LEMMA PumpTyped ==
  ASSUME NEW q \in Seq(Prompt), NEW d \in Prompt \cup {NoPrompt}, Pump(q, d)
  PROVE  queue' \in Seq(Prompt) /\ dialog' \in Prompt \cup {NoPrompt}
<1>1. CASE d = NoPrompt /\ q # << >>
  BY <1>1 DEF Pump
<1>2. CASE ~(d = NoPrompt /\ q # << >>)
  BY <1>2 DEF Pump
<1> QED
  BY <1>1, <1>2

\* The questions and the events that wait.
LEMMA PromptsStep ==
  ASSUME Typed, Next
  PROVE  PromptsOK'
<1> USE DEF Typed, PromptsOK
<1>1. CASE UNCHANGED <<promptVars, toUi>>
  BY <1>1 DEF promptVars
<1>2. ASSUME NEW c \in Conn, RejectKey(c) PROVE PromptsOK'
  <2> DEFINE t == conn[c].tab
             p == [tab |-> t, host |-> LegHost(c), key |-> serverKey[LegHost(c)]]
  <2>1. t \in Tab /\ LegHost(c) \in Host
    BY <1>2, LegIsHost DEF RejectKey
  <2>2. p \in Prompt
    BY <2>1 DEF Prompt, HostsOK
  <2> HIDE DEF t, p
  <2>3. [tab |-> t, prompt |-> p] \in Event
    BY <2>1, <2>2 DEF Event
  <2>4. Disconnected(t) \in Seq(Event)
    BY <2>1, DisconnectEvents
  <2>5. \/ toUi' = toUi \o <<[tab |-> t, prompt |-> p]>>
        \/ toUi' = toUi \o Disconnected(t) \o <<[tab |-> t, prompt |-> p]>>
    BY <1>2 DEF RejectKey, t, p
  <2>6. toUi' \in Seq(Event)
    <3>1. <<[tab |-> t, prompt |-> p]>> \in Seq(Event)
      BY <2>3
    <3>2. toUi \o Disconnected(t) \in Seq(Event)
      BY <2>4, Joined
    <3>3. /\ toUi \o <<[tab |-> t, prompt |-> p]>> \in Seq(Event)
          /\ toUi \o Disconnected(t) \o <<[tab |-> t, prompt |-> p]>> \in Seq(Event)
      BY <3>1, <3>2, Joined, Zenon
    <3> QED
      BY <2>5, <3>3, Zenon
  <2> QED
    BY <1>2, <2>6 DEF RejectKey, promptVars
<1>3. ASSUME NEW c \in Conn, ConnectFails(c) PROVE PromptsOK'
  <2>1. conn[c].tab \in Tab
    BY <1>3 DEF ConnectFails, ConnOK
  <2>2. Disconnected(conn[c].tab) \in Seq(Event)
    BY <2>1, DisconnectEvents
  <2>3. UNCHANGED toUi \/ toUi' = toUi \o Disconnected(conn[c].tab)
    BY <1>3 DEF ConnectFails
  <2>4. toUi \o Disconnected(conn[c].tab) \in Seq(Event)
    BY <2>2, Joined, Zenon
  <2>5. toUi' \in Seq(Event)
    BY <2>3, <2>4, Zenon
  <2> QED
    BY <1>3, <2>5 DEF ConnectFails, promptVars
<1>4. ASSUME NEW c \in Conn, SessionCloses(c) PROVE PromptsOK'
  <2>1. conn[c].tab \in Tab
    BY <1>4 DEF SessionCloses, ConnOK
  <2> QED
    BY <1>4, <2>1, DisconnectEvents DEF SessionCloses, promptVars
<1>5. ASSUME Receive PROVE PromptsOK'
  <2>1. toUi' \in Seq(Event) /\ Head(toUi) \in Event /\ saving' = saving
    BY <1>5 DEF Receive
  <2>2. CASE "prompt" \in DOMAIN Head(toUi)
    <3>1. Append(queue, Head(toUi).prompt) \in Seq(Prompt)
      BY <2>1, <2>2, PromptOfEvent
    <3> QED
      BY <1>5, <2>1, <2>2, <3>1, PumpTyped DEF Receive
  <2>3. CASE "prompt" \notin DOMAIN Head(toUi)
    BY <1>5, <2>1, <2>3 DEF Receive
  <2> QED
    BY <2>2, <2>3
<1>6. ASSUME NEW choice \in {"save", "once", "cancel"}, Answer(choice) PROVE PromptsOK'
  <2>1. queue' \in Seq(Prompt) /\ dialog' \in Prompt \cup {NoPrompt}
    BY <1>6, PumpTyped DEF Answer
  <2>2. saving' \subseteq Prompt /\ toUi' = toUi
    BY <1>6 DEF Answer
  <2> QED
    BY <2>1, <2>2
<1>7. ASSUME NEW p \in saving, Saved(p) PROVE PromptsOK'
  BY <1>7 DEF Saved
<1> QED
  BY <1>1, <1>2, <1>3, <1>4, <1>5, <1>6, <1>7
  DEF Next, UserAction, Network, UserAnswers, SaveReturns, AddTab, MoveTabToPane,
      RemoveTab, Reconnect, Mount, Unmount, AcceptKey, Established, ShellFails,
      ForgetHost, PinFromCli, ImportFile, ChangeServerKey

-------------------------------------------------------------------------------
(* known_hosts *)

\* Whatever a line pins is granted.
Granted == \A l \in file, h \in Host : h \in l.hosts => <<h, l.key>> \in granted

\* The file changes as the grants do when a key replaces those of its type.
LEMMA AddKeeps ==
  ASSUME HostsOK, Granted, NEW h \in Host, NEW k \in Key,
         file' = Add(file, h, k), granted' = Rotated(h, k)
  PROVE  file' \subseteq Line /\ granted' \subseteq Host \X Key /\ Granted'
<1> DEFINE new == [hosts |-> {h}, key |-> k]
<1>1. new \in Line
  BY DEF Line
<1>2. file' \subseteq Line
  BY <1>1 DEF Add, HostsOK
<1>3. granted' \subseteq Host \X Key
  BY DEF Rotated, Others, HostsOK
<1>4. ASSUME NEW l \in file', NEW g \in Host, g \in l.hosts
      PROVE  <<g, l.key>> \in granted'
  <2>1. CASE l = new
    BY <1>4, <2>1 DEF Rotated
  <2>2. CASE l # new
    <3>1. l \in file /\ ~(h \in l.hosts /\ SameType(l.key, k))
      BY <2>2 DEF Add
    <3>2. <<g, l.key>> \in granted
      BY <1>4, <3>1 DEF Granted
    <3>3. ~(<<g, l.key>>[1] = h /\ SameType(<<g, l.key>>[2], k))
      BY <1>4, <3>1
    <3> QED
      BY <3>2, <3>3 DEF Rotated, Others
  <2> QED
    BY <2>1, <2>2
<1> QED
  BY <1>2, <1>3, <1>4 DEF Granted

\* The same when the keys of a type are removed from a host.
LEMMA RemoveKeeps ==
  ASSUME HostsOK, Granted, NEW h \in Host, NEW k \in Key,
         file' = Remove(file, h, k), granted' = Others(h, k)
  PROVE  file' \subseteq Line /\ granted' \subseteq Host \X Key /\ Granted'
<1>1. file' \subseteq Line /\ granted' \subseteq Host \X Key
  BY DEF Remove, Others, HostsOK
<1>2. ASSUME NEW l \in file', NEW g \in Host, g \in l.hosts
      PROVE  <<g, l.key>> \in granted'
  <2>1. l \in file /\ ~(h \in l.hosts /\ SameType(l.key, k))
    BY DEF Remove
  <2>2. <<g, l.key>> \in granted
    BY <1>2, <2>1 DEF Granted
  <2>3. ~(<<g, l.key>>[1] = h /\ SameType(<<g, l.key>>[2], k))
    BY <1>2, <2>1
  <2> QED
    BY <2>2, <2>3 DEF Others
<1> QED
  BY <1>1, <1>2 DEF Granted

\* An import brings the lines of a file and the pins of that file.
LEMMA ImportKeeps ==
  ASSUME HostsOK, Granted, NEW other \in OtherFiles,
         file' = ImportOpenSSH(file, other), granted' = granted \cup Pins(other)
  PROVE  file' \subseteq Line /\ granted' \subseteq Host \X Key /\ Granted'
<1>1. other \subseteq Line
  BY ConstantsAssumption
<1>2. file' \subseteq Line /\ granted' \subseteq Host \X Key
  BY <1>1 DEF ImportOpenSSH, Entries, Pins, HostsOK
<1>3. ASSUME NEW l \in file', NEW g \in Host, g \in l.hosts
      PROVE  <<g, l.key>> \in granted'
  <2>1. CASE l \in file
    BY <1>3, <2>1 DEF Granted
  <2>2. CASE l \in other
    <3>1. <<g, l.key>> \in Host \X Key /\ <<g, l.key>>[1] = g /\ <<g, l.key>>[2] = l.key
      BY <1>1, <2>2 DEF Line
    <3> QED
      BY <1>3, <2>2, <3>1 DEF Pins
  <2> QED
    BY <2>1, <2>2 DEF ImportOpenSSH, Entries
<1> QED
  BY <1>2, <1>3 DEF Granted

\* The file and the grants move together.
LEMMA HostsStep ==
  ASSUME Typed, Granted, Next
  PROVE  HostsOK' /\ Granted'
<1> USE DEF Typed
<1>1. CASE UNCHANGED hostVars
  BY <1>1 DEF hostVars, HostsOK, Granted
<1>2. CASE UNCHANGED <<file, granted, edits, serverKey>>
  BY <1>2 DEF HostsOK, Granted
<1>3. ASSUME NEW p \in saving, Saved(p) PROVE HostsOK' /\ Granted'
  <2>1. p.host \in Host /\ p.key \in Key /\ UNCHANGED <<serverKey, edits>>
    BY <1>3 DEF Saved, PromptsOK, Prompt
  <2>2. CASE file' = Add(file, p.host, p.key) /\ granted' = Rotated(p.host, p.key)
    BY <2>1, <2>2, AddKeeps DEF HostsOK
  <2>3. CASE UNCHANGED <<file, granted>>
    BY <2>1, <2>3 DEF HostsOK, Granted
  <2> QED
    BY <1>3, <2>2, <2>3 DEF Saved
<1>4. ASSUME Edit PROVE edits' \in 0..MaxEdits
  BY <1>4, ConstantsAssumption DEF Edit, HostsOK
<1>5. ASSUME NEW h \in Host, NEW k \in Key, ForgetHost(h, k) PROVE HostsOK' /\ Granted'
  BY <1>4, <1>5, RemoveKeeps DEF ForgetHost, HostsOK
<1>6. ASSUME NEW h \in Host, NEW k \in Key, PinFromCli(h, k) PROVE HostsOK' /\ Granted'
  BY <1>4, <1>6, AddKeeps DEF PinFromCli, HostsOK
<1>7. ASSUME NEW other \in OtherFiles, ImportFile(other) PROVE HostsOK' /\ Granted'
  BY <1>4, <1>7, ImportKeeps DEF ImportFile, HostsOK
<1>8. ASSUME NEW h \in Host, NEW k \in Key, ChangeServerKey(h, k) PROVE HostsOK' /\ Granted'
  BY <1>4, <1>8 DEF ChangeServerKey, HostsOK, Granted
<1> QED
  BY <1>1, <1>2, <1>3, <1>5, <1>6, <1>7, <1>8
  DEF Next, UserAction, Network, UserAnswers, SaveReturns, AddTab, MoveTabToPane,
      RemoveTab, Reconnect, Mount, Unmount, AcceptKey, RejectKey, Established,
      ConnectFails, ShellFails, SessionCloses, Receive, Answer

-------------------------------------------------------------------------------
(* The sessions and their registry, step by step *)

\* Every step keeps the sessions typed and the registry on live sessions.
LEMMA RegistryStep ==
  ASSUME Typed, RegistryHoldsLive, Next
  PROVE  ConnOK' /\ RegistryHoldsLive'
<1> USE DEF Typed
<1>1. CASE UNCHANGED <<conn, registry>>
  BY <1>1 DEF ConnOK, RegistryHoldsLive
<1>2. ASSUME NEW t \in Tab, MoveTabToPane(t) PROVE ConnOK' /\ RegistryHoldsLive'
  BY <1>2, OpenKeeps DEF MoveTabToPane, OpenSession
<1>3. ASSUME NEW t \in Tab, Mount(t) PROVE ConnOK' /\ RegistryHoldsLive'
  <2>1. CASE OpenSession(t)
    BY <1>3, <2>1, OpenKeeps DEF Mount, OpenSession
  <2>2. CASE UNCHANGED conn
    BY <1>1, <1>3, <2>2 DEF Mount
  <2> QED
    BY <1>3, <2>1, <2>2 DEF Mount
<1>4. ASSUME NEW t \in Tab, Unmount(t) PROVE ConnOK' /\ RegistryHoldsLive'
  BY <1>4, CloseKeeps DEF Unmount
<1>5. ASSUME NEW c \in Conn, AcceptKey(c) PROVE ConnOK' /\ RegistryHoldsLive'
  <2>1. conn[c].leg \in 1..2 /\ conn[c].phase = "dialing"
    BY <1>5, LegIsHost DEF AcceptKey, Verifying
  <2>2. conn' = [conn EXCEPT ![c].leg = @ + 1] /\ registry' = registry
    BY <1>5 DEF AcceptKey
  <2>3. /\ conn'[c] \in Session
        /\ conn'[c].tab = conn[c].tab /\ conn'[c].phase = conn[c].phase
    BY <2>1, <2>2 DEF ConnOK, Session
  <2>4. \A d \in Conn : d # c => conn'[d] = conn[d]
    BY <2>2 DEF ConnOK
  <2>5. ConnOK'
    BY <2>2, <2>3, <2>4 DEF ConnOK
  <2> QED
    BY <2>2, <2>3, <2>4, <2>5 DEF ConnOK, RegistryHoldsLive
<1>6. ASSUME NEW c \in Conn, RejectKey(c) PROVE ConnOK' /\ RegistryHoldsLive'
  BY <1>6, GoneKeeps DEF RejectKey, Verifying
<1>7. ASSUME NEW c \in Conn, Established(c) PROVE ConnOK' /\ RegistryHoldsLive'
  BY <1>7, EstablishedKeeps
<1>8. ASSUME NEW c \in Conn, ConnectFails(c) PROVE ConnOK' /\ RegistryHoldsLive'
  BY <1>8, GoneKeeps DEF ConnectFails
<1>9. ASSUME NEW c \in Conn, ShellFails(c) PROVE ConnOK' /\ RegistryHoldsLive'
  <2>1. conn[c].phase = "dialing" /\ registry' = registry
        /\ conn' = [conn EXCEPT ![c].phase = "stray"]
    BY <1>9 DEF ShellFails
  <2>2. conn'[c] \in Session /\ conn'[c].tab = conn[c].tab
    BY <2>1 DEF ConnOK, Session, Phase
  <2>3. \A d \in Conn : d # c => conn'[d] = conn[d]
    BY <2>1 DEF ConnOK
  <2>4. conn[c].tab \in Tab
    BY <2>1 DEF ConnOK
  <2>5. ConnOK'
    BY <2>1, <2>2, <2>3, <2>4 DEF ConnOK
  <2> QED
    BY <2>1, <2>3, <2>5 DEF ConnOK, RegistryHoldsLive
<1>10. ASSUME NEW c \in Conn, SessionCloses(c) PROVE ConnOK' /\ RegistryHoldsLive'
  BY <1>10, ClosesKeeps
<1>11. ASSUME NEW choice \in {"save", "once", "cancel"}, Answer(choice)
       PROVE  ConnOK' /\ RegistryHoldsLive'
  <2>1. dialog.tab \in Tab /\ dialog.key \in Key /\ registry' = registry
    BY <1>11 DEF Answer, PromptsOK, Prompt
  <2>2. CASE UNCHANGED conn
    BY <1>1, <2>1, <2>2
  <2>3. CASE OpenBackend(dialog.tab, dialog.key)
    BY <2>1, <2>3, OpenKeeps
  <2> QED
    BY <1>11, <2>2, <2>3 DEF Answer, Retry, Abort
<1>12. ASSUME NEW p \in saving, Saved(p) PROVE ConnOK' /\ RegistryHoldsLive'
  <2>1. p.tab \in Tab /\ registry' = registry
    BY <1>12 DEF Saved, PromptsOK, Prompt
  <2>2. CASE UNCHANGED conn
    BY <1>1, <2>1, <2>2
  <2>3. CASE OpenBackend(p.tab, NoKey)
    BY <2>1, <2>3, OpenKeeps
  <2> QED
    BY <1>12, <2>2, <2>3 DEF Saved, Retry, Abort
<1> QED
  BY <1>1, <1>2, <1>3, <1>4, <1>5, <1>6, <1>7, <1>8, <1>9, <1>10, <1>11, <1>12
  DEF Next, UserAction, Network, UserAnswers, SaveReturns, AddTab, RemoveTab,
      Reconnect, Receive, ForgetHost, PinFromCli, ImportFile, ChangeServerKey

-------------------------------------------------------------------------------
(* The invariant and what follows from it *)

IInv == Typed /\ RegistryHoldsLive /\ Granted /\ NoIdlePrompts

\* The application starts with no session, no question, and the pins of its file.
LEMMA InitIInv == Init => IInv
<1> SUFFICES ASSUME Init PROVE IInv
  OBVIOUS
<1> USE DEF Init
<1>1. UiOK
  BY DEF UiOK
<1>2. PromptsOK
  BY DEF PromptsOK
<1>3. HostsOK /\ Granted
  <2>1. FirstFile \subseteq Line /\ FirstKeys \subseteq [Host -> Key]
        /\ MaxEdits \in Nat
    BY ConstantsAssumption
  <2>2. HostsOK
    BY <2>1 DEF HostsOK, Pins
  <2>3. ASSUME NEW l \in file, NEW h \in Host, h \in l.hosts
        PROVE  <<h, l.key>> \in granted
    <3>1. /\ <<h, l.key>> \in Host \X Key
          /\ <<h, l.key>>[1] = h /\ <<h, l.key>>[2] = l.key
      BY <2>1 DEF Line
    <3> QED
      BY <2>3, <3>1 DEF Pins
  <2> QED
    BY <2>2, <2>3 DEF Granted
<1>4. ConnOK /\ RegistryHoldsLive
  <2>1. Idle("unused") \in Session /\ Idle("unused").phase = "unused"
    BY DEF Idle, Session, Phase
  <2>2. conn = [c \in Conn |-> Idle("unused")] /\ registry = [t \in Tab |-> NoConn]
    OBVIOUS
  <2> QED
    BY <2>1, <2>2 DEF ConnOK, RegistryHoldsLive
<1>5. NoIdlePrompts
  BY DEF NoIdlePrompts
<1> QED
  BY <1>1, <1>2, <1>3, <1>4, <1>5 DEF IInv, Typed

\* A dialog goes up whenever a question waits.
LEMMA PumpShows ==
  ASSUME NEW q \in Seq(Prompt), NEW d, Pump(q, d)
  PROVE  NoIdlePrompts'
<1>1. CASE d = NoPrompt /\ q # << >>
  <2>1. dialog' = Head(q) /\ Head(q) \in Prompt
    BY <1>1 DEF Pump
  <2> QED
    BY <2>1, ConstantsAssumption DEF NoIdlePrompts, Prompt
<1>2. CASE ~(d = NoPrompt /\ q # << >>)
  BY <1>2 DEF Pump, NoIdlePrompts
<1> QED
  BY <1>1, <1>2

\* Every step that queues a question, or answers one, shows the next.
LEMMA NoIdleStep ==
  ASSUME Typed, NoIdlePrompts, Next
  PROVE  NoIdlePrompts'
<1>1. CASE UNCHANGED <<queue, dialog>>
  BY <1>1 DEF NoIdlePrompts
<1>2. CASE Receive
  <2>1. CASE "prompt" \in DOMAIN Head(toUi)
    <3>1. Head(toUi) \in Event
      BY <1>2 DEF Receive, Typed, PromptsOK
    <3>2. Append(queue, Head(toUi).prompt) \in Seq(Prompt)
      BY <2>1, <3>1, PromptOfEvent DEF Typed, PromptsOK
    <3> QED
      BY <1>2, <2>1, <3>2, PumpShows DEF Receive
  <2>2. CASE "prompt" \notin DOMAIN Head(toUi)
    BY <1>1, <1>2, <2>2 DEF Receive
  <2> QED
    BY <2>1, <2>2
<1>3. ASSUME NEW choice \in {"save", "once", "cancel"}, Answer(choice)
      PROVE  NoIdlePrompts'
  BY <1>3, PumpShows DEF Answer, Typed, PromptsOK
<1> QED
  BY <1>1, <1>2, <1>3
  DEF Next, UserAction, Network, UserAnswers, SaveReturns, AddTab, MoveTabToPane,
      RemoveTab, Reconnect, Mount, Unmount, AcceptKey, RejectKey, Established,
      ConnectFails, ShellFails, SessionCloses, Saved, ForgetHost, PinFromCli,
      ImportFile, ChangeServerKey, promptVars

\* The invariant is inductive.
LEMMA StepIInv == IInv /\ [Next]_vars => IInv'
<1> SUFFICES ASSUME IInv, [Next]_vars PROVE IInv'
  OBVIOUS
<1>1. CASE Next
  BY <1>1, UiStep, PromptsStep, HostsStep, RegistryStep, NoIdleStep DEF IInv, Typed
<1>2. CASE UNCHANGED vars
  BY <1>2 DEF vars, uiVars, promptVars, hostVars, IInv, Typed, UiOK, PromptsOK, HostsOK,
              ConnOK, RegistryHoldsLive, Granted, NoIdlePrompts
<1> QED
  BY <1>1, <1>2

\* The inductive invariant holds in every state (tabs, sessions, known_hosts, prompts).
THEOREM Invariance == Spec => []IInv
BY InitIInv, StepIInv, PTL DEF Spec

\* A key that matches is a key some line pins.
LEMMA MatchIsGranted ==
  ASSUME Granted, NEW h \in Host, NEW k \in Key, Verify(file, h, k) = "MATCH"
  PROVE  <<h, k>> \in granted
<1>1. PICK l \in Entries(file) : h \in l.hosts /\ l.key = k
  BY DEF Verify
<1> QED
  BY <1>1 DEF Granted, Entries

\* The types of the module (TerminalSessions.tla, TypeOK).
THEOREM TypesHold == Spec => []TypeOK
<1>1. IInv => TypeOK
  BY DEF IInv, Typed, UiOK, PromptsOK, HostsOK, ConnOK, TypeOK, Session
<1> QED
  BY <1>1, Invariance, PTL

\* What the registry holds under an id is a live session of that id
\* (sessionRegistry.js:31-51), for any number of tabs and sessions.
THEOREM RegistryIsLive == Spec => []RegistryHoldsLive
<1>1. IInv => RegistryHoldsLive
  BY DEF IInv
<1> QED
  BY <1>1, Invariance, PTL

\* No key of known_hosts matches that the user did not save, import or ship for
\* that host (knownHostsService.js), for any file and any key types.
THEOREM MatchesAreGranted == Spec => []MatchMeansGranted
<1>1. IInv => MatchMeansGranted
  BY MatchIsGranted DEF IInv, MatchMeansGranted
<1> QED
  BY <1>1, Invariance, PTL

\* A host-key question never waits without a dialog (host-key-approval.service.ts:79-92).
THEOREM PromptsAreShown == Spec => []NoIdlePrompts
<1>1. IInv => NoIdlePrompts
  BY DEF IInv
<1> QED
  BY <1>1, Invariance, PTL

-------------------------------------------------------------------------------
(* Consent *)

Consent(c) ==
  /\ conn'[c].leg > conn[c].leg =>
       \/ <<LegHost(c), serverKey[LegHost(c)]>> \in granted
       \/ AtTarget(c) /\ conn[c].once = serverKey[LegHost(c)]
  /\ conn'[c].once \notin {conn[c].once, NoKey} =>
       /\ dialog # NoPrompt
       /\ dialog.tab = conn'[c].tab /\ dialog.key = conn'[c].once

\* An open is one more session on its first leg, with the key it was given.
LEMMA OpenConsent ==
  ASSUME ConnOK, NEW t \in Tab, NEW once \in Key \cup {NoKey}, OpenBackend(t, once),
         once = NoKey \/ (dialog # NoPrompt /\ dialog.tab = t /\ dialog.key = once)
  PROVE  \A c \in Conn : Consent(c)
<1> DEFINE Unused == {c \in Conn : conn[c].phase = "unused"}
           fresh == CHOOSE c \in Unused : TRUE
           new == [tab |-> t, phase |-> "dialing", leg |-> 1, once |-> once]
<1>1. fresh \in Conn /\ conn' = [conn EXCEPT ![fresh] = new]
  BY DEF OpenBackend
<1>2. new.tab = t /\ new.leg = 1 /\ new.once = once
  OBVIOUS
<1> HIDE DEF fresh, new
<1> SUFFICES ASSUME NEW c \in Conn PROVE Consent(c)
  OBVIOUS
<1>3. conn[c].leg \in 1..3
  BY DEF ConnOK, Session
<1>4. CASE c = fresh
  BY <1>1, <1>2, <1>3, <1>4 DEF Consent, ConnOK
<1>5. CASE c # fresh
  BY <1>1, <1>3, <1>5 DEF Consent, ConnOK
<1> QED
  BY <1>4, <1>5

\* A session that goes back to its idle form asks for no consent.
LEMMA GoneConsent ==
  ASSUME ConnOK, NEW c \in Conn, Gone(c)
  PROVE  \A d \in Conn : Consent(d)
<1> SUFFICES ASSUME NEW d \in Conn PROVE Consent(d)
  OBVIOUS
<1>1. conn[d].leg \in 1..3
  BY DEF ConnOK, Session
<1>2. conn' = [conn EXCEPT ![c] = Idle("closed")]
      /\ Idle("closed").leg = 1 /\ Idle("closed").once = NoKey
  BY DEF Gone, Idle
<1>3. CASE d = c
  BY <1>1, <1>2, <1>3 DEF Consent, ConnOK
<1>4. CASE d # c
  BY <1>1, <1>2, <1>4 DEF Consent, ConnOK
<1> QED
  BY <1>3, <1>4

\* A change of phase moves no leg and no key.
LEMMA PhaseConsent ==
  ASSUME ConnOK, NEW c \in Conn, NEW phase, conn' = [conn EXCEPT ![c].phase = phase]
  PROVE  \A d \in Conn : Consent(d)
<1> SUFFICES ASSUME NEW d \in Conn PROVE Consent(d)
  OBVIOUS
<1>1. conn[d].leg \in 1..3 /\ conn[d] \in Session
  BY DEF ConnOK, Session
<1>2. conn'[d].leg = conn[d].leg /\ conn'[d].once = conn[d].once
  <2>1. CASE d = c
    BY <1>1, <2>1 DEF ConnOK, Session
  <2>2. CASE d # c
    BY <2>2 DEF ConnOK
  <2> QED
    BY <2>1, <2>2
<1> QED
  BY <1>1, <1>2 DEF Consent

\* A step that leaves the sessions alone asks for no consent.
LEMMA SameConsent ==
  ASSUME ConnOK, UNCHANGED conn
  PROVE  \A c \in Conn : Consent(c)
<1> SUFFICES ASSUME NEW c \in Conn PROVE Consent(c)
  OBVIOUS
<1>1. conn[c].leg \in 1..3
  BY DEF ConnOK, Session
<1> QED
  BY <1>1 DEF Consent

\* Every step moves a leg, or trusts a key once, with consent only.
LEMMA ConsentStep ==
  ASSUME IInv, Next
  PROVE  \A c \in Conn : Consent(c)
<1> USE DEF IInv, Typed
<1>1. CASE UNCHANGED conn
  BY <1>1, SameConsent
<1>2. ASSUME NEW t \in Tab, MoveTabToPane(t) PROVE \A c \in Conn : Consent(c)
  BY <1>2, OpenConsent DEF MoveTabToPane, OpenSession
<1>3. ASSUME NEW t \in Tab, Mount(t) PROVE \A c \in Conn : Consent(c)
  BY <1>1, <1>3, OpenConsent DEF Mount, OpenSession
<1>4. ASSUME NEW t \in Tab, Unmount(t) PROVE \A c \in Conn : Consent(c)
  <2>1. CASE registry[t] = NoConn
    BY <1>1, <1>4, <2>1 DEF Unmount, CloseBackend
  <2>2. CASE registry[t] # NoConn
    <3>1. registry[t] \in Conn
      BY <2>2 DEF ConnOK
    <3>2. conn' = [conn EXCEPT ![registry[t]].phase = "ending"]
      BY <1>4, <2>2 DEF Unmount, CloseBackend
    <3> QED
      BY <3>1, <3>2, PhaseConsent
  <2> QED
    BY <2>1, <2>2
<1>5. ASSUME NEW c \in Conn, AcceptKey(c) PROVE \A d \in Conn : Consent(d)
  <2> SUFFICES ASSUME NEW d \in Conn PROVE Consent(d)
    OBVIOUS
  <2>1. conn' = [conn EXCEPT ![c].leg = @ + 1]
    BY <1>5 DEF AcceptKey
  <2>2. conn[d].leg \in 1..3 /\ conn[d] \in Session
    BY DEF ConnOK, Session
  <2>3. CASE d # c
    BY <2>1, <2>2, <2>3 DEF Consent, ConnOK
  <2>4. CASE d = c
    <3>1. conn'[c].once = conn[c].once
      BY <2>1, <2>2, <2>4 DEF ConnOK, Session
    <3>2. LegHost(c) \in Host /\ serverKey[LegHost(c)] \in Key
      BY <1>5, LegIsHost DEF AcceptKey, HostsOK
    <3>3. \/ <<LegHost(c), serverKey[LegHost(c)]>> \in granted
          \/ AtTarget(c) /\ conn[c].once = serverKey[LegHost(c)]
      BY <1>5, <3>2, MatchIsGranted DEF AcceptKey, Trusted
    <3> QED
      BY <2>4, <3>1, <3>3 DEF Consent
  <2> QED
    BY <2>3, <2>4
<1>6. ASSUME NEW c \in Conn, RejectKey(c) \/ ConnectFails(c) \/ SessionCloses(c)
      PROVE  \A d \in Conn : Consent(d)
  BY <1>6, GoneConsent DEF RejectKey, ConnectFails, SessionCloses
<1>7. ASSUME NEW c \in Conn, Established(c) \/ ShellFails(c)
      PROVE  \A d \in Conn : Consent(d)
  BY <1>7, PhaseConsent DEF Established, ShellFails
<1>8. ASSUME NEW choice \in {"save", "once", "cancel"}, Answer(choice)
      PROVE  \A c \in Conn : Consent(c)
  <2>1. dialog # NoPrompt /\ dialog.tab \in Tab /\ dialog.key \in Key
    BY <1>8 DEF Answer, PromptsOK, Prompt
  <2>2. CASE OpenBackend(dialog.tab, dialog.key)
    BY <2>1, <2>2, OpenConsent
  <2> QED
    BY <1>1, <1>8, <2>2 DEF Answer, Retry, Abort
<1>9. ASSUME NEW p \in saving, Saved(p) PROVE \A c \in Conn : Consent(c)
  <2>1. p.tab \in Tab
    BY DEF PromptsOK, Prompt
  <2>2. CASE OpenBackend(p.tab, NoKey)
    BY <2>1, <2>2, OpenConsent
  <2> QED
    BY <1>1, <1>9, <2>2 DEF Saved, Retry, Abort
<1> QED
  BY <1>1, <1>2, <1>3, <1>4, <1>5, <1>6, <1>7, <1>8, <1>9
  DEF Next, UserAction, Network, UserAnswers, SaveReturns, AddTab, RemoveTab,
      Reconnect, Receive, ForgetHost, PinFromCli, ImportFile, ChangeServerKey

\* A connection gets past a host only with a key the user stands behind, and a key
\* is trusted once only by the answer to a dialog about it (host-key-approval.service.ts,
\* ssh.connector.js), for any path of at most one jumper and any history of edits.
THEOREM KeysNeedConsent == Spec => KeyConsent
<1>1. IInv /\ [Next]_vars => [\A c \in Conn : Consent(c)]_vars
  BY ConsentStep
<1>2. IInv /\ [\A c \in Conn : Consent(c)]_vars =>
        [\A c \in Conn :
           /\ conn'[c].leg > conn[c].leg =>
                \/ <<LegHost(c), serverKey[LegHost(c)]>> \in granted
                \/ AtTarget(c) /\ conn[c].once = serverKey[LegHost(c)]
           /\ conn'[c].once \notin {conn[c].once, NoKey} =>
                /\ dialog # NoPrompt
                /\ dialog.tab = conn'[c].tab /\ dialog.key = conn'[c].once]_vars
  BY DEF Consent
<1> QED
  BY <1>1, <1>2, Invariance, PTL DEF Spec, KeyConsent

-------------------------------------------------------------------------------
(*****************************************************************************)
(* Closing a terminal tab reaches its live session.  A tab that was not moved *)
(* has one session, or one question about a key of the session to come, in    *)
(* one of five places: what a close must reach is never hidden behind another.*)
(*****************************************************************************)

Single(S) == \A x, y \in S : x = y

\* Where a sequence has members of S.
Positions(q, S) == {i \in 1..Len(q) : q[i] \in S}

\* The events that bring a question about a key of the tab, and the questions.
AskedOf(t) == {e \in Event : "prompt" \in DOMAIN e /\ e.prompt.tab = t}
PromptsOf(t) == {p \in Prompt : p.tab = t}

\* The sessions of a tab and the questions about its keys, wherever they are.
OpenConns(t) == {c \in Conn : conn[c].phase \notin {"unused", "closed"} /\ conn[c].tab = t}
UiAsks(t) == Positions(toUi, AskedOf(t))
QueueAsks(t) == Positions(queue, PromptsOf(t))
DialogAsks(t) == PromptsOf(t) \cap {dialog}
SavingAsks(t) == PromptsOf(t) \cap saving

\* A tab has one session, or one question about the next, or neither.
OneLeft(t) ==
  /\ Single(OpenConns(t)) /\ Single(UiAsks(t)) /\ Single(QueueAsks(t)) /\ Single(SavingAsks(t))
  /\ OpenConns(t) # {} =>
       UiAsks(t) = {} /\ QueueAsks(t) = {} /\ DialogAsks(t) = {} /\ SavingAsks(t) = {}
  /\ UiAsks(t) # {} => QueueAsks(t) = {} /\ DialogAsks(t) = {} /\ SavingAsks(t) = {}
  /\ QueueAsks(t) # {} => DialogAsks(t) = {} /\ SavingAsks(t) = {}
  /\ DialogAsks(t) # {} => SavingAsks(t) = {}

NoneLeft(t) ==
  /\ OpenConns(t) = {} /\ UiAsks(t) = {} /\ QueueAsks(t) = {}
  /\ DialogAsks(t) = {} /\ SavingAsks(t) = {}

\* A tab that has had no component yet.
Fresh(t) == tab[t] # "removed" /\ t \notin mounted

OneEach == \A t \in Tab : (t \notin moved => OneLeft(t)) /\ (Fresh(t) => NoneLeft(t))

\* What is live is what the registry holds.
LiveRegistered ==
  \A c \in Conn : conn[c].phase = "live" /\ conn[c].tab \notin moved => registry[conn[c].tab] = c

\* A session of a closed tab that is not ending came too late for the close.
LateMarked ==
  \A c \in Conn :
    conn[c].phase \in {"dialing", "live"} /\ tab[conn[c].tab] = "removed"
      /\ conn[c].tab \notin mounted
      => c \in late \/ conn[c].tab \in moved

-------------------------------------------------------------------------------
(* Fewer of them *)

Fewer(X, Y) == (Y = {} => X = {}) /\ (Single(Y) => Single(X))

\* A step after which nothing of a tab is left that was not there before.
Kept(t) == (OneLeft(t) => OneLeft(t)') /\ (NoneLeft(t) => NoneLeft(t)')

LEMMA FewerKept ==
  ASSUME NEW t \in Tab,
         Fewer(OpenConns(t)', OpenConns(t)), Fewer(UiAsks(t)', UiAsks(t)),
         Fewer(QueueAsks(t)', QueueAsks(t)), Fewer(DialogAsks(t)', DialogAsks(t)),
         Fewer(SavingAsks(t)', SavingAsks(t))
  PROVE  Kept(t)
BY DEF Fewer, Kept, OneLeft, NoneLeft

LEMMA SubsetFewer ==
  ASSUME NEW X, NEW Y, X \subseteq Y
  PROVE  Fewer(X, Y)
BY DEF Fewer, Single

\* The first of a sequence goes; the others move up.
LEMMA TailPositions ==
  ASSUME NEW T, NEW S, NEW q \in Seq(T), q # << >>
  PROVE  /\ Fewer(Positions(Tail(q), S), Positions(q, S))
         /\ Single(Positions(q, S)) /\ Head(q) \in S => Positions(Tail(q), S) = {}
<1>1. \A i \in Positions(Tail(q), S) : i \in Nat /\ i >= 1 /\ i + 1 \in Positions(q, S)
  BY DEF Positions
<1>2. Head(q) \in S => 1 \in Positions(q, S)
  BY DEF Positions
<1> QED
  BY <1>1, <1>2 DEF Fewer, Single

\* Events that are none of S add none.
LEMMA JoinPositions ==
  ASSUME NEW T, NEW S, NEW q \in Seq(T), NEW r \in Seq(T), \A i \in 1..Len(r) : r[i] \notin S
  PROVE  Positions(q \o r, S) = Positions(q, S)
<1>1. \A i \in 1..Len(q \o r) : (q \o r)[i] = IF i <= Len(q) THEN q[i] ELSE r[i - Len(q)]
  OBVIOUS
<1>2. Len(q \o r) = Len(q) + Len(r) /\ Len(q) \in Nat /\ Len(r) \in Nat
  OBVIOUS
<1>3. \A i \in 1..Len(q \o r) : (q \o r)[i] \in S => i <= Len(q) /\ q[i] \in S
  BY <1>1, <1>2
<1>4. \A i \in 1..Len(q) : i \in 1..Len(q \o r) /\ (q \o r)[i] = q[i]
  BY <1>1, <1>2
<1>5. \A i \in 1..Len(q \o r) : i <= Len(q) => i \in 1..Len(q)
  BY <1>2
<1> QED
  BY <1>3, <1>4, <1>5 DEF Positions

\* One more at the end.
LEMMA AppendPositions ==
  ASSUME NEW T, NEW S, NEW q \in Seq(T), NEW x \in T
  PROVE  /\ x \notin S => Positions(Append(q, x), S) = Positions(q, S)
         /\ Positions(q, S) = {} => Single(Positions(Append(q, x), S))
<1>1. \A i \in 1..Len(q) + 1 : i = Len(q) + 1 \/ i \in 1..Len(q)
  OBVIOUS
<1>2. /\ Append(q, x) \in Seq(T) /\ Len(Append(q, x)) = Len(q) + 1
      /\ \A i \in 1..Len(q) : i \in 1..Len(q) + 1 /\ Append(q, x)[i] = q[i]
      /\ Append(q, x)[Len(q) + 1] = x
  OBVIOUS
<1>3. ASSUME x \notin S PROVE Positions(Append(q, x), S) = Positions(q, S)
  BY <1>1, <1>2, <1>3 DEF Positions
<1>4. ASSUME Positions(q, S) = {}, NEW i \in Positions(Append(q, x), S) PROVE i = Len(q) + 1
  BY <1>1, <1>2, <1>4 DEF Positions
<1> QED
  BY <1>3, <1>4 DEF Single

-------------------------------------------------------------------------------
(* The places, one at a time *)

\* Sessions that change neither tab nor use are the sessions there were.
LEMMA SameConns ==
  ASSUME ConnOK,
         \A c \in Conn : conn'[c].phase \notin {"unused", "closed"} =>
                           /\ conn[c].phase \notin {"unused", "closed"}
                           /\ conn'[c].tab = conn[c].tab
  PROVE  \A t \in Tab : Fewer(OpenConns(t)', OpenConns(t))
<1> SUFFICES ASSUME NEW t \in Tab PROVE OpenConns(t)' \subseteq OpenConns(t)
  BY SubsetFewer
<1> QED
  BY DEF OpenConns

\* A change of phase or leg of an open session opens none.
LEMMA SessionStep ==
  ASSUME ConnOK, NEW c \in Conn, conn[c].phase \notin {"unused", "closed"},
         \/ Gone(c)
         \/ \E phase \in Phase : conn' = [conn EXCEPT ![c].phase = phase]
         \/ conn' = [conn EXCEPT ![c].leg = @ + 1]
  PROVE  \A t \in Tab : Fewer(OpenConns(t)', OpenConns(t))
<1>1. \A d \in Conn : d # c => conn'[d] = conn[d]
  BY DEF Gone, ConnOK
<1>2. conn'[c].tab = conn[c].tab \/ conn'[c].phase = "closed"
  BY DEF Gone, Idle, ConnOK, Session
<1> QED
  BY <1>1, <1>2, SameConns

\* An open adds a session to its tab, and to no other.
LEMMA OpenConn ==
  ASSUME ConnOK, NEW t \in Tab, NEW once, OpenBackend(t, once)
  PROVE  /\ \A u \in Tab : u # t => Fewer(OpenConns(u)', OpenConns(u))
         /\ OpenConns(t) = {} => Single(OpenConns(t)')
<1> DEFINE Unused == {c \in Conn : conn[c].phase = "unused"}
           fresh == CHOOSE c \in Unused : TRUE
           new == [tab |-> t, phase |-> "dialing", leg |-> 1, once |-> once]
<1>1. fresh \in Conn /\ conn[fresh].phase = "unused" /\ conn' = [conn EXCEPT ![fresh] = new]
  BY DEF OpenBackend
<1>2. new.tab = t
  OBVIOUS
<1> HIDE DEF fresh, new
<1>3. conn'[fresh].tab = t /\ \A d \in Conn : d # fresh => conn'[d] = conn[d]
  BY <1>1, <1>2 DEF ConnOK
<1>4. ASSUME NEW u \in Tab, u # t PROVE OpenConns(u)' \subseteq OpenConns(u)
  BY <1>3, <1>4 DEF OpenConns
<1>5. OpenConns(t)' \subseteq OpenConns(t) \cup {fresh}
  BY <1>3 DEF OpenConns
<1> QED
  BY <1>4, <1>5, SubsetFewer DEF Single

\* Places that do not change.
LEMMA SamePrompts ==
  ASSUME UNCHANGED <<queue, dialog, saving>>, NEW t \in Tab
  PROVE  /\ Fewer(QueueAsks(t)', QueueAsks(t)) /\ Fewer(DialogAsks(t)', DialogAsks(t))
         /\ Fewer(SavingAsks(t)', SavingAsks(t))
<1>1. /\ QueueAsks(t)' = QueueAsks(t) /\ DialogAsks(t)' = DialogAsks(t)
      /\ SavingAsks(t)' = SavingAsks(t)
  BY DEF QueueAsks, DialogAsks, SavingAsks
<1> QED
  BY <1>1, SubsetFewer

LEMMA SameUi ==
  ASSUME UNCHANGED toUi, NEW t \in Tab
  PROVE  Fewer(UiAsks(t)', UiAsks(t))
<1>1. UiAsks(t)' = UiAsks(t)
  BY DEF UiAsks
<1> QED
  BY <1>1, SubsetFewer

\* A session that is gone brings no question.
LEMMA DisconnectUi ==
  ASSUME PromptsOK, NEW s \in Tab, NEW t \in Tab
  PROVE  /\ Positions(toUi \o Disconnected(s), AskedOf(t)) = UiAsks(t)
         /\ toUi \o Disconnected(s) \in Seq(Event)
<1> DEFINE gone == [tab |-> s, disconnect |-> TRUE]
<1>1. Disconnected(s) \in Seq(Event)
  BY DisconnectEvents
<1>2. Disconnected(s) = <<gone>> \/ Disconnected(s) = << >>
  BY DEF Disconnected
<1>3. gone \notin AskedOf(t)
  <2>1. DOMAIN gone = {"tab", "disconnect"}
    OBVIOUS
  <2> QED
    BY <2>1 DEF AskedOf
<1> HIDE DEF gone
<1>4. \A i \in 1..Len(Disconnected(s)) : Disconnected(s)[i] \notin AskedOf(t)
  BY <1>2, <1>3
<1>5. toUi \in Seq(Event)
  BY DEF PromptsOK
<1> QED
  BY <1>1, <1>4, <1>5, JoinPositions, Joined, Zenon DEF UiAsks

\* A question among the prompts is one of its tab, and none among the others.
LEMMA EventOfTab ==
  ASSUME NEW p \in Prompt, NEW e \in Event, "prompt" \in DOMAIN e, e.prompt = p, NEW t \in Tab
  PROVE  e \in AskedOf(t) <=> p.tab = t
BY DEF AskedOf

-------------------------------------------------------------------------------
(* The steps, for one tab *)

\* Sessions that move on or go, and events without a question.
LEMMA NetworkKept ==
  ASSUME Typed, NEW c \in Conn,
         \/ AcceptKey(c) \/ Established(c) \/ ConnectFails(c) \/ ShellFails(c)
         \/ SessionCloses(c),
         NEW t \in Tab
  PROVE  Kept(t)
<1> USE DEF Typed
<1>1. conn[c].phase \notin {"unused", "closed"}
  BY DEF AcceptKey, Verifying, Established, ConnectFails, ShellFails, SessionCloses
<1>2. \/ Gone(c)
      \/ \E phase \in Phase : conn' = [conn EXCEPT ![c].phase = phase]
      \/ conn' = [conn EXCEPT ![c].leg = @ + 1]
  <2>1. "live" \in Phase /\ "stray" \in Phase
    BY DEF Phase
  <2> QED
    BY <2>1 DEF AcceptKey, Established, ConnectFails, ShellFails, SessionCloses
<1>3. Fewer(OpenConns(t)', OpenConns(t))
  BY <1>1, <1>2, SessionStep
<1>4. UNCHANGED <<queue, dialog, saving>>
  BY DEF AcceptKey, Established, ConnectFails, ShellFails, SessionCloses, promptVars
<1>5. UNCHANGED toUi \/ toUi' = toUi \o Disconnected(conn[c].tab)
  BY DEF AcceptKey, Established, ConnectFails, ShellFails, SessionCloses
<1>6. conn[c].tab \in Tab
  BY <1>1 DEF ConnOK
<1>7. Fewer(UiAsks(t)', UiAsks(t))
  <2>1. CASE UNCHANGED toUi
    BY <2>1, SameUi
  <2>2. CASE toUi' = toUi \o Disconnected(conn[c].tab)
    <3>1. UiAsks(t)' = UiAsks(t)
      BY <1>6, <2>2, DisconnectUi DEF UiAsks
    <3> QED
      BY <3>1, SubsetFewer
  <2> QED
    BY <1>5, <2>1, <2>2
<1> QED
  BY <1>3, <1>4, <1>7, SamePrompts, FewerKept

\* A refused key: the question takes the place of the session.
LEMMA RejectKept ==
  ASSUME Typed, NEW c \in Conn, RejectKey(c), NEW t \in Tab
  PROVE  Kept(t)
<1> USE DEF Typed
<1> DEFINE s == conn[c].tab
           p == [tab |-> s, host |-> LegHost(c), key |-> serverKey[LegHost(c)]]
           e == [tab |-> s, prompt |-> p]
<1>1. /\ conn[c].phase \notin {"unused", "closed"} /\ Gone(c)
      /\ UNCHANGED <<queue, dialog, saving>>
  BY DEF RejectKey, Verifying, promptVars
<1>2. s \in Tab /\ p \in Prompt /\ p.tab = s
  <2>1. s \in Tab /\ LegHost(c) \in Host
    BY LegIsHost DEF RejectKey
  <2> QED
    BY <2>1 DEF Prompt, HostsOK
<1>3. \/ toUi' = toUi \o <<e>>
      \/ toUi' = toUi \o Disconnected(s) \o <<e>>
  BY DEF RejectKey
<1>4. e \in Event /\ "prompt" \in DOMAIN e /\ e.prompt = p
  BY <1>2 DEF Event
<1> HIDE DEF e, p
<1>5. PICK q \in Seq(Event) : toUi' = Append(q, e) /\ Positions(q, AskedOf(t)) = UiAsks(t)
  <2>1. CASE toUi' = toUi \o <<e>>
    BY <1>4, <2>1 DEF PromptsOK, UiAsks
  <2>2. CASE toUi' = toUi \o Disconnected(s) \o <<e>>
    <3>1. /\ Positions(toUi \o Disconnected(s), AskedOf(t)) = UiAsks(t)
          /\ toUi \o Disconnected(s) \in Seq(Event)
      BY <1>2, DisconnectUi
    <3>2. \A r \in Seq(Event) : r \o <<e>> = Append(r, e)
      BY <1>4
    <3> QED
      BY <2>2, <3>1, <3>2, Zenon
  <2> QED
    BY <1>3, <2>1, <2>2
<1>6. UiAsks(t)' = Positions(Append(q, e), AskedOf(t))
  BY <1>5 DEF UiAsks
<1>7. Fewer(OpenConns(t)', OpenConns(t))
  BY <1>1, SessionStep
<1>8. CASE t # s
  <2>1. e \notin AskedOf(t)
    BY <1>2, <1>4, <1>8, EventOfTab
  <2>2. UiAsks(t)' = UiAsks(t)
    BY <1>4, <1>5, <1>6, <2>1, AppendPositions
  <2> QED
    BY <1>1, <1>7, <2>2, SubsetFewer, SamePrompts, FewerKept
<1>9. CASE t = s
  <2>1. c \in OpenConns(t)
    BY <1>1, <1>9 DEF OpenConns
  <2>2. ASSUME OneLeft(t) PROVE OneLeft(t)'
    <3>1. /\ OpenConns(t) = {c} /\ UiAsks(t) = {} /\ QueueAsks(t) = {} /\ DialogAsks(t) = {}
          /\ SavingAsks(t) = {}
      BY <2>1, <2>2 DEF OneLeft, Single
    <3>2. OpenConns(t)' = {}
      <4>1. conn'[c].phase = "closed" /\ \A d \in Conn : d # c => conn'[d] = conn[d]
        BY <1>1 DEF Gone, Idle, ConnOK
      <4> QED
        BY <3>1, <4>1 DEF OpenConns
    <3>3. Single(UiAsks(t)')
      BY <1>4, <1>5, <1>6, <3>1, AppendPositions
    <3>4. QueueAsks(t)' = {} /\ DialogAsks(t)' = {} /\ SavingAsks(t)' = {}
      BY <1>1, <3>1, SamePrompts DEF Fewer
    <3> QED
      BY <3>2, <3>3, <3>4 DEF OneLeft, Single
  <2>3. ~NoneLeft(t)
    BY <2>1 DEF NoneLeft
  <2> QED
    BY <2>2, <2>3 DEF Kept
<1> QED
  BY <1>8, <1>9

\* The renderer takes an event: a question waits for the dialog, or is shown.
LEMMA ReceiveKept ==
  ASSUME Typed, NoIdlePrompts, Receive, NEW t \in Tab
  PROVE  Kept(t)
<1> USE DEF Typed
<1> DEFINE e == Head(toUi)
           Left == Fewer(UiAsks(t)', UiAsks(t))
<1>1. toUi \in Seq(Event) /\ toUi # << >> /\ toUi' = Tail(toUi) /\ e \in Event
  BY DEF Receive, PromptsOK
<1>2. UNCHANGED <<conn, saving>>
  BY DEF Receive
<1>3. OpenConns(t)' = OpenConns(t) /\ SavingAsks(t)' = SavingAsks(t)
  BY <1>2 DEF OpenConns, SavingAsks
<1>4. /\ Left
      /\ Single(UiAsks(t)) /\ e \in AskedOf(t) => UiAsks(t)' = {}
  BY <1>1, TailPositions DEF UiAsks
<1>5. CASE "prompt" \notin DOMAIN e
  <2>1. UNCHANGED <<queue, dialog, saving>>
    BY <1>2, <1>5 DEF Receive
  <2> QED
    BY <1>3, <1>4, <2>1, SamePrompts, SubsetFewer, FewerKept
<1>6. CASE "prompt" \in DOMAIN e
  <2> DEFINE p == e.prompt
  <2>1. p \in Prompt /\ Pump(Append(queue, p), dialog) /\ queue \in Seq(Prompt)
    BY <1>1, <1>6, PromptOfEvent DEF Receive, PromptsOK
  <2>2. e \in AskedOf(t) <=> p.tab = t
    BY <1>1, <1>6, <2>1, EventOfTab
  <2>3. p \in PromptsOf(t) <=> p.tab = t
    BY <2>1 DEF PromptsOf
  <2> HIDE DEF e, p
  <2>4. \/ dialog = NoPrompt /\ queue = << >> /\ queue' = << >> /\ dialog' = p
        \/ queue' = Append(queue, p) /\ dialog' = dialog
    <3>1. CASE dialog = NoPrompt
      <4>1. queue = << >>
        BY <3>1 DEF NoIdlePrompts
      <4>2. Append(queue, p) # << >> /\ Head(Append(queue, p)) = p
            /\ Tail(Append(queue, p)) = << >>
        BY <2>1, <4>1
      <4> QED
        BY <2>1, <3>1, <4>1, <4>2 DEF Pump
    <3>2. CASE dialog # NoPrompt
      BY <2>1, <3>2 DEF Pump
    <3> QED
      BY <3>1, <3>2
  <2>5. /\ p.tab # t => /\ Fewer(QueueAsks(t)', QueueAsks(t))
                        /\ Fewer(DialogAsks(t)', DialogAsks(t))
        /\ QueueAsks(t) = {} /\ DialogAsks(t) = {} =>
             /\ Single(QueueAsks(t)')
             /\ QueueAsks(t)' # {} => DialogAsks(t)' = {}
    <3>1. CASE queue = << >> /\ queue' = << >> /\ dialog' = p
      <4>1. QueueAsks(t) = {} /\ QueueAsks(t)' = {}
        BY <3>1 DEF QueueAsks, Positions
      <4>2. p.tab # t => DialogAsks(t)' = {}
        BY <2>3, <3>1 DEF DialogAsks
      <4> QED
        BY <4>1, <4>2 DEF Fewer, Single
    <3>2. CASE queue' = Append(queue, p) /\ dialog' = dialog
      <4>1. DialogAsks(t)' = DialogAsks(t)
        BY <3>2 DEF DialogAsks
      <4>2. /\ p.tab # t => QueueAsks(t)' = QueueAsks(t)
            /\ QueueAsks(t) = {} => Single(QueueAsks(t)')
        BY <2>1, <2>3, <3>2, AppendPositions DEF QueueAsks
      <4> QED
        BY <4>1, <4>2, SubsetFewer
    <3> QED
      BY <2>4, <3>1, <3>2
  <2>6. CASE p.tab # t
    BY <1>3, <1>4, <2>5, <2>6, SubsetFewer, FewerKept
  <2>7. CASE p.tab = t
    <3>1. UiAsks(t) # {}
      BY <1>1, <2>2, <2>7 DEF UiAsks, Positions, e
    <3>2. ASSUME OneLeft(t) PROVE OneLeft(t)'
      <4>1. /\ Single(UiAsks(t)) /\ OpenConns(t) = {} /\ QueueAsks(t) = {}
            /\ DialogAsks(t) = {} /\ SavingAsks(t) = {}
        BY <3>1, <3>2 DEF OneLeft
      <4>2. OpenConns(t)' = {} /\ SavingAsks(t)' = {} /\ UiAsks(t)' = {}
        BY <1>3, <1>4, <2>2, <2>7, <4>1
      <4>3. Single(QueueAsks(t)') /\ (QueueAsks(t)' # {} => DialogAsks(t)' = {})
        BY <2>5, <4>1
      <4> QED
        BY <4>2, <4>3 DEF OneLeft, Single
    <3>3. ~NoneLeft(t)
      BY <3>1 DEF NoneLeft
    <3> QED
      BY <3>2, <3>3 DEF Kept
  <2> QED
    BY <2>6, <2>7
<1> QED
  BY <1>5, <1>6

\* The next dialog: its question leaves the queue.
LEMMA NextDialog ==
  ASSUME PromptsOK, Pump(queue, NoPrompt), NEW t \in Tab
  PROVE  \/ /\ Fewer(QueueAsks(t)', QueueAsks(t)) /\ DialogAsks(t)' = {}
         \/ /\ QueueAsks(t) # {}
            /\ Single(QueueAsks(t)) => QueueAsks(t)' = {}
<1>1. queue \in Seq(Prompt)
  BY DEF PromptsOK
<1>2. CASE queue = << >>
  <2>1. queue' = queue /\ dialog' = NoPrompt
    BY <1>2 DEF Pump
  <2>2. NoPrompt \notin PromptsOf(t)
    BY ConstantsAssumption DEF PromptsOf, Prompt
  <2>3. QueueAsks(t)' = QueueAsks(t) /\ DialogAsks(t)' = {}
    BY <2>1, <2>2 DEF QueueAsks, DialogAsks
  <2> QED
    BY <2>3, SubsetFewer
<1>3. CASE queue # << >>
  <2>1. queue' = Tail(queue) /\ dialog' = Head(queue) /\ Head(queue) \in Prompt
    BY <1>1, <1>3 DEF Pump
  <2>2. /\ Fewer(QueueAsks(t)', QueueAsks(t))
        /\ Single(QueueAsks(t)) /\ Head(queue) \in PromptsOf(t) => QueueAsks(t)' = {}
    BY <1>1, <1>3, <2>1, TailPositions DEF QueueAsks
  <2>3. CASE Head(queue) \in PromptsOf(t)
    <3>1. QueueAsks(t) # {}
      BY <1>1, <1>3, <2>3 DEF QueueAsks, Positions
    <3> QED
      BY <2>2, <2>3, <3>1
  <2>4. CASE Head(queue) \notin PromptsOf(t)
    <3>1. DialogAsks(t)' = {}
      BY <2>1, <2>4 DEF DialogAsks
    <3> QED
      BY <2>2, <3>1
  <2> QED
    BY <2>3, <2>4
<1> QED
  BY <1>2, <1>3

\* What the answer to a dialog does to sessions and to keys being saved.
LEMMA AnswerEffect ==
  ASSUME NEW choice \in {"save", "once", "cancel"}, Answer(choice)
  PROVE  /\ dialog # NoPrompt /\ Pump(queue, NoPrompt) /\ UNCHANGED toUi
         /\ \/ UNCHANGED conn /\ saving' \subseteq saving \cup {dialog}
            \/ OpenBackend(dialog.tab, dialog.key) /\ UNCHANGED saving
BY DEF Answer, Retry, Abort

\* An answered question is saved, asked again, or dropped; the next is shown.
LEMMA AnswerKept ==
  ASSUME Typed, NEW choice \in {"save", "once", "cancel"}, Answer(choice), NEW t \in Tab
  PROVE  Kept(t)
<1> USE DEF Typed
<1>1. /\ dialog # NoPrompt /\ Pump(queue, NoPrompt) /\ UNCHANGED toUi
      /\ \/ UNCHANGED conn /\ saving' \subseteq saving \cup {dialog}
         \/ OpenBackend(dialog.tab, dialog.key) /\ UNCHANGED saving
  BY AnswerEffect
<1>2. dialog \in Prompt /\ dialog.tab \in Tab /\ (dialog \in PromptsOf(t) <=> dialog.tab = t)
  BY <1>1 DEF PromptsOK, Prompt, PromptsOf
<1>3. UNCHANGED conn => OpenConns(t)' = OpenConns(t)
  BY DEF OpenConns
<1>4. UiAsks(t)' = UiAsks(t)
  BY <1>1 DEF UiAsks
<1>5. SavingAsks(t)' \subseteq SavingAsks(t) \cup DialogAsks(t)
      /\ (UNCHANGED saving => SavingAsks(t)' = SavingAsks(t))
  BY <1>1 DEF SavingAsks, DialogAsks
<1>6. \/ /\ Fewer(QueueAsks(t)', QueueAsks(t)) /\ DialogAsks(t)' = {}
      \/ /\ QueueAsks(t) # {}
         /\ Single(QueueAsks(t)) => QueueAsks(t)' = {}
  BY <1>1, NextDialog
<1>7. CASE dialog.tab # t
  <2>1. DialogAsks(t) = {}
    BY <1>2, <1>7 DEF DialogAsks
  <2>2. Fewer(OpenConns(t)', OpenConns(t))
    <3>1. CASE UNCHANGED conn
      BY <1>3, <3>1, SubsetFewer
    <3>2. CASE OpenBackend(dialog.tab, dialog.key)
      BY <1>2, <1>7, <3>2, OpenConn
    <3> QED
      BY <1>1, <3>1, <3>2
  <2>3. Fewer(SavingAsks(t)', SavingAsks(t))
    BY <1>5, <2>1, SubsetFewer
  <2>4. CASE Fewer(QueueAsks(t)', QueueAsks(t)) /\ DialogAsks(t)' = {}
    BY <1>4, <2>2, <2>3, <2>4, SubsetFewer, FewerKept
  <2>5. CASE QueueAsks(t) # {} /\ (Single(QueueAsks(t)) => QueueAsks(t)' = {})
    <3>1. ASSUME OneLeft(t) PROVE OneLeft(t)'
      <4>1. OpenConns(t) = {} /\ UiAsks(t) = {} /\ QueueAsks(t)' = {} /\ SavingAsks(t) = {}
        BY <2>5, <3>1 DEF OneLeft
      <4>2. OpenConns(t)' = {} /\ UiAsks(t)' = {} /\ SavingAsks(t)' = {}
        BY <1>4, <2>2, <2>3, <4>1 DEF Fewer
      <4> QED
        BY <4>1, <4>2 DEF OneLeft, Single
    <3>2. ~NoneLeft(t)
      BY <2>5 DEF NoneLeft
    <3> QED
      BY <3>1, <3>2 DEF Kept
  <2> QED
    BY <1>6, <2>4, <2>5
<1>8. CASE dialog.tab = t
  <2>1. DialogAsks(t) = {dialog}
    BY <1>2, <1>8 DEF DialogAsks
  <2>2. ASSUME OneLeft(t) PROVE OneLeft(t)'
    <3>1. OpenConns(t) = {} /\ UiAsks(t) = {} /\ QueueAsks(t) = {} /\ SavingAsks(t) = {}
      BY <2>1, <2>2 DEF OneLeft
    <3>2. UiAsks(t)' = {} /\ QueueAsks(t)' = {} /\ DialogAsks(t)' = {}
      BY <1>4, <1>6, <3>1 DEF Fewer
    <3>3. \/ OpenConns(t)' = {} /\ SavingAsks(t)' \subseteq {dialog}
          \/ Single(OpenConns(t)') /\ SavingAsks(t)' = {}
      <4>1. CASE UNCHANGED conn
        BY <1>3, <1>5, <2>1, <3>1, <4>1
      <4>2. CASE OpenBackend(dialog.tab, dialog.key) /\ UNCHANGED saving
        BY <1>2, <1>5, <1>8, <3>1, <4>2, OpenConn
      <4> QED
        BY <1>1, <4>1, <4>2
    <3> QED
      BY <3>2, <3>3 DEF OneLeft, Single
  <2>3. ~NoneLeft(t)
    BY <2>1 DEF NoneLeft
  <2> QED
    BY <2>2, <2>3 DEF Kept
<1> QED
  BY <1>7, <1>8

\* A saved key: the session is opened again, or the tab is given up.
LEMMA SavedKept ==
  ASSUME Typed, NEW p \in saving, Saved(p), NEW t \in Tab
  PROVE  Kept(t)
<1> USE DEF Typed
<1>1. /\ UNCHANGED <<queue, dialog, toUi>> /\ saving' = saving \ {p}
      /\ UNCHANGED conn \/ OpenBackend(p.tab, NoKey)
  BY DEF Saved, Retry, Abort
<1>2. p \in Prompt /\ p.tab \in Tab /\ (p \in PromptsOf(t) <=> p.tab = t)
  BY DEF PromptsOK, Prompt, PromptsOf
<1>3. UiAsks(t)' = UiAsks(t) /\ QueueAsks(t)' = QueueAsks(t) /\ DialogAsks(t)' = DialogAsks(t)
  BY <1>1 DEF UiAsks, QueueAsks, DialogAsks
<1>4. SavingAsks(t)' = SavingAsks(t) \ {p}
  BY <1>1 DEF SavingAsks
<1>5. UNCHANGED conn => OpenConns(t)' = OpenConns(t)
  BY DEF OpenConns
<1>6. CASE p.tab # t
  <2>1. Fewer(OpenConns(t)', OpenConns(t))
    <3>1. CASE UNCHANGED conn
      BY <1>5, <3>1, SubsetFewer
    <3>2. CASE OpenBackend(p.tab, NoKey)
      BY <1>2, <1>6, <3>2, OpenConn
    <3> QED
      BY <1>1, <3>1, <3>2
  <2> QED
    BY <1>3, <1>4, <2>1, SubsetFewer, FewerKept
<1>7. CASE p.tab = t
  <2>1. p \in SavingAsks(t)
    BY <1>2, <1>7 DEF SavingAsks
  <2>2. ASSUME OneLeft(t) PROVE OneLeft(t)'
    <3>1. /\ SavingAsks(t)' = {} /\ OpenConns(t) = {} /\ UiAsks(t) = {} /\ QueueAsks(t) = {}
          /\ DialogAsks(t) = {}
      BY <1>4, <2>1, <2>2 DEF OneLeft, Single
    <3>2. Single(OpenConns(t)')
      <4>1. CASE UNCHANGED conn
        BY <1>5, <3>1, <4>1 DEF Single
      <4>2. CASE OpenBackend(p.tab, NoKey)
        BY <1>2, <1>7, <3>1, <4>2, OpenConn
      <4> QED
        BY <1>1, <4>1, <4>2
    <3> QED
      BY <1>3, <3>1, <3>2 DEF OneLeft, Single
  <2>3. ~NoneLeft(t)
    BY <2>1 DEF NoneLeft
  <2> QED
    BY <2>2, <2>3 DEF Kept
<1> QED
  BY <1>6, <1>7

\* A close ends what is registered and opens nothing.
LEMMA UnmountKept ==
  ASSUME Typed, RegistryHoldsLive, NEW s \in Tab, Unmount(s), NEW t \in Tab
  PROVE  Kept(t)
<1> USE DEF Typed
<1>1. UNCHANGED <<queue, dialog, saving, toUi>> /\ CloseBackend(s)
  BY DEF Unmount, promptVars
<1>2. Fewer(OpenConns(t)', OpenConns(t))
  <2>1. CASE registry[s] = NoConn
    BY <1>1, <2>1, SubsetFewer DEF CloseBackend, OpenConns
  <2>2. CASE registry[s] # NoConn
    <3>1. registry[s] \in Conn /\ conn[registry[s]].phase = "live" /\ "ending" \in Phase
      BY <2>2 DEF ConnOK, RegistryHoldsLive, Phase
    <3>2. conn' = [conn EXCEPT ![registry[s]].phase = "ending"]
      BY <1>1, <2>2 DEF CloseBackend
    <3> QED
      BY <3>1, <3>2, SessionStep
  <2> QED
    BY <2>1, <2>2
<1> QED
  BY <1>1, <1>2, SamePrompts, SameUi, FewerKept

\* The steps of the tab bar and of the known-hosts page touch neither.
LEMMA OtherKept ==
  ASSUME UNCHANGED <<conn, queue, dialog, saving, toUi>>, NEW t \in Tab
  PROVE  Kept(t)
<1>1. OpenConns(t)' = OpenConns(t)
  BY DEF OpenConns
<1> QED
  BY <1>1, SamePrompts, SameUi, SubsetFewer, FewerKept

-------------------------------------------------------------------------------
(* One of each, step by step *)

\* A tab that has had no component had none before.
LEMMA FreshBefore ==
  ASSUME Typed, Next, NEW t \in Tab, Fresh(t)'
  PROVE  Fresh(t)
<1> USE DEF Typed, UiOK, Fresh
<1>1. CASE UNCHANGED <<tab, mounted>>
  BY <1>1
<1>2. ASSUME NEW s \in Tab, AddTab(s) PROVE Fresh(t)
  BY <1>2 DEF AddTab
<1>3. ASSUME NEW s \in Tab, RemoveTab(s) PROVE Fresh(t)
  BY <1>3 DEF RemoveTab
<1>4. ASSUME NEW s \in Tab, NEW u \in Tab, Reconnect(s, u) PROVE Fresh(t)
  BY <1>4 DEF Reconnect
<1>5. ASSUME NEW s \in Tab, Mount(s) PROVE Fresh(t)
  BY <1>5 DEF Mount
<1>6. ASSUME NEW s \in Tab, Unmount(s) PROVE Fresh(t)
  BY <1>6 DEF Unmount
<1>7. ASSUME NEW s, Abort(s), UNCHANGED mounted PROVE Fresh(t)
  BY <1>7 DEF Abort
<1>8. ASSUME NEW choice \in {"save", "once", "cancel"}, Answer(choice) PROVE Fresh(t)
  BY <1>1, <1>7, <1>8 DEF Answer, Retry
<1>9. ASSUME NEW p \in saving, Saved(p) PROVE Fresh(t)
  BY <1>1, <1>7, <1>9 DEF Saved, Retry
<1> QED
  BY <1>1, <1>2, <1>3, <1>4, <1>5, <1>6, <1>8, <1>9
  DEF Next, UserAction, Network, UserAnswers, SaveReturns, MoveTabToPane, AcceptKey,
      RejectKey, Established, ConnectFails, ShellFails, SessionCloses, Receive,
      ForgetHost, PinFromCli, ImportFile, ChangeServerKey, uiVars

\* A first open comes where nothing is left, and a tab that is opened again was moved.
LEMMA OneEachStep ==
  ASSUME IInv, OneEach, Next
  PROVE  OneEach'
<1> USE DEF IInv
<1>1. ASSUME \A t \in Tab : Kept(t), moved \subseteq moved' PROVE OneEach'
  BY <1>1, FreshBefore DEF OneEach, Kept
<1>2. ASSUME NEW s \in Tab, OpenBackend(s, NoKey), s \in mounted',
             s \notin moved' => NoneLeft(s), moved \subseteq moved',
             UNCHANGED <<queue, dialog, saving, toUi>>
      PROVE  OneEach'
  <2>1. ASSUME NEW t \in Tab, t # s PROVE Kept(t)
    <3>1. Fewer(OpenConns(t)', OpenConns(t))
      BY <1>2, <2>1, OpenConn DEF Typed
    <3> QED
      BY <1>2, <3>1, SamePrompts, SameUi, FewerKept
  <2>2. NoneLeft(s) => OneLeft(s)'
    <3>1. NoneLeft(s) => Single(OpenConns(s)')
      BY <1>2, OpenConn DEF Typed, NoneLeft
    <3>2. NoneLeft(s) => /\ UiAsks(s)' = {} /\ QueueAsks(s)' = {} /\ DialogAsks(s)' = {}
                         /\ SavingAsks(s)' = {}
      BY <1>2, SamePrompts, SameUi DEF Fewer, NoneLeft
    <3> QED
      BY <3>1, <3>2 DEF OneLeft, Single
  <2>3. ~Fresh(s)'
    BY <1>2 DEF Fresh
  <2>4. ASSUME NEW t \in Tab
        PROVE  (t \notin moved' => OneLeft(t)') /\ (Fresh(t)' => NoneLeft(t)')
    <3>1. CASE t = s
      BY <1>2, <2>2, <2>3, <3>1
    <3>2. CASE t # s
      BY <1>2, <2>1, <3>2, FreshBefore DEF OneEach, Kept
    <3> QED
      BY <3>1, <3>2
  <2> QED
    BY <2>4 DEF OneEach
<1>3. ASSUME NEW s \in Tab, Mount(s) PROVE OneEach'
  <2>1. NoneLeft(s)
    BY <1>3 DEF Mount, OneEach, Fresh
  <2>2. CASE OpenSession(s)
    <3>1. /\ OpenBackend(s, NoKey) /\ s \in mounted' /\ moved' = moved
          /\ UNCHANGED <<queue, dialog, saving, toUi>>
      BY <1>3, <2>2 DEF Mount, OpenSession, promptVars
    <3> QED
      BY <1>2, <2>1, <3>1
  <2>3. CASE UNCHANGED <<connected, opened, listening, conn, late>>
    <3>1. UNCHANGED <<conn, queue, dialog, saving, toUi>> /\ moved' = moved
      BY <1>3, <2>3 DEF Mount, promptVars
    <3> QED
      BY <1>1, <3>1, OtherKept
  <2> QED
    BY <1>3, <2>2, <2>3 DEF Mount
<1>4. ASSUME NEW s \in Tab, MoveTabToPane(s) PROVE OneEach'
  <2>1. /\ OpenBackend(s, NoKey) /\ s \in mounted' /\ moved \subseteq moved' /\ s \in moved'
        /\ UNCHANGED <<queue, dialog, saving, toUi>>
    BY <1>4 DEF MoveTabToPane, OpenSession, promptVars
  <2> QED
    BY <1>2, <2>1
<1>5. ASSUME NEW s \in Tab, Unmount(s) PROVE OneEach'
  BY <1>1, <1>5, UnmountKept DEF Unmount
<1>6. ASSUME NEW c \in Conn,
             \/ AcceptKey(c) \/ Established(c) \/ ConnectFails(c) \/ ShellFails(c)
             \/ SessionCloses(c)
      PROVE  OneEach'
  <2>1. moved' = moved
    BY <1>6 DEF AcceptKey, Established, ConnectFails, ShellFails, SessionCloses
  <2> QED
    BY <1>1, <1>6, <2>1, NetworkKept
<1>7. ASSUME NEW c \in Conn, RejectKey(c) PROVE OneEach'
  BY <1>1, <1>7, RejectKept DEF RejectKey
<1>8. ASSUME Receive PROVE OneEach'
  BY <1>1, <1>8, ReceiveKept DEF Receive
<1>9. ASSUME NEW choice \in {"save", "once", "cancel"}, Answer(choice) PROVE OneEach'
  BY <1>1, <1>9, AnswerKept DEF Answer
<1>10. ASSUME NEW p \in saving, Saved(p) PROVE OneEach'
  BY <1>1, <1>10, SavedKept DEF Saved
<1>11. ASSUME UNCHANGED <<conn, queue, dialog, saving, toUi, moved>> PROVE OneEach'
  BY <1>1, <1>11, OtherKept
<1> QED
  BY <1>3, <1>4, <1>5, <1>6, <1>7, <1>8, <1>9, <1>10, <1>11
  DEF Next, UserAction, Network, UserAnswers, SaveReturns, AddTab, RemoveTab, Reconnect,
      ForgetHost, PinFromCli, ImportFile, ChangeServerKey, promptVars

-------------------------------------------------------------------------------
(* What is live is registered *)

\* Two sessions of a tab that was not moved are one.
LEMMA OneSession ==
  ASSUME ConnOK, OneEach, NEW c \in Conn, NEW d \in Conn,
         conn[c].phase \notin {"unused", "closed"}, conn[d].phase \notin {"unused", "closed"},
         conn[c].tab = conn[d].tab, conn[c].tab \notin moved
  PROVE  c = d
<1>1. conn[c].tab \in Tab
  BY DEF ConnOK
<1>2. c \in OpenConns(conn[c].tab) /\ d \in OpenConns(conn[c].tab)
  BY DEF OpenConns
<1> QED
  BY <1>1, <1>2 DEF OneEach, OneLeft, Single

\* A step that brings no session up and takes none from the registry.
LEMMA LiveKept ==
  ASSUME LiveRegistered, moved \subseteq moved', registry' = registry,
         \A c \in Conn : conn'[c].phase = "live" =>
           conn[c].phase = "live" /\ conn'[c].tab = conn[c].tab
  PROVE  LiveRegistered'
BY DEF LiveRegistered

LEMMA LiveStep ==
  ASSUME IInv, OneEach, LiveRegistered, Next
  PROVE  LiveRegistered'
<1> USE DEF IInv, Typed
<1>1. ASSUME UNCHANGED <<conn, registry>>, moved \subseteq moved' PROVE LiveRegistered'
  BY <1>1, LiveKept
<1>2. ASSUME NEW s \in Tab, NEW once, OpenBackend(s, once), UNCHANGED registry,
             moved \subseteq moved'
      PROVE  LiveRegistered'
  <2> DEFINE Unused == {c \in Conn : conn[c].phase = "unused"}
             fresh == CHOOSE c \in Unused : TRUE
             new == [tab |-> s, phase |-> "dialing", leg |-> 1, once |-> once]
  <2>1. fresh \in Conn /\ conn' = [conn EXCEPT ![fresh] = new] /\ new.phase = "dialing"
    BY <1>2 DEF OpenBackend
  <2> HIDE DEF fresh, new
  <2> QED
    BY <1>2, <2>1, LiveKept DEF ConnOK
<1>3. ASSUME NEW s \in Tab, Mount(s) PROVE LiveRegistered'
  BY <1>1, <1>2, <1>3 DEF Mount, OpenSession
<1>4. ASSUME NEW s \in Tab, MoveTabToPane(s) PROVE LiveRegistered'
  BY <1>2, <1>4 DEF MoveTabToPane, OpenSession
<1>5. ASSUME NEW s \in Tab, Unmount(s) PROVE LiveRegistered'
  <2>1. CloseBackend(s) /\ moved' = moved
    BY <1>5 DEF Unmount
  <2>2. CASE registry[s] = NoConn
    <3>1. registry' = registry /\ conn' = conn
      BY <2>1, <2>2 DEF CloseBackend, ConnOK
    <3> QED
      BY <1>1, <2>1, <3>1
  <2>3. CASE registry[s] # NoConn
    <3>1. /\ registry[s] \in Conn /\ registry' = [registry EXCEPT ![s] = NoConn]
          /\ conn' = [conn EXCEPT ![registry[s]].phase = "ending"]
      BY <2>1, <2>3 DEF CloseBackend, ConnOK
    <3>2. ASSUME NEW c \in Conn, conn'[c].phase = "live", conn'[c].tab \notin moved'
          PROVE  registry'[conn'[c].tab] = c
      <4>1. c # registry[s]
        BY <3>1, <3>2 DEF ConnOK, Session
      <4>2. conn'[c] = conn[c] /\ conn[c].tab \in Tab
        BY <3>1, <3>2, <4>1 DEF ConnOK
      <4>3. registry[conn[c].tab] = c
        BY <2>1, <3>2, <4>2 DEF LiveRegistered
      <4> QED
        BY <3>1, <4>1, <4>2, <4>3 DEF ConnOK
    <3> QED
      BY <3>2 DEF LiveRegistered
  <2> QED
    BY <2>2, <2>3
<1>6. ASSUME NEW c \in Conn, AcceptKey(c) PROVE LiveRegistered'
  <2>1. /\ conn' = [conn EXCEPT ![c].leg = @ + 1] /\ registry' = registry /\ moved' = moved
        /\ conn[c].phase = "dialing"
    BY <1>6 DEF AcceptKey, Verifying
  <2>2. conn'[c].phase = "dialing" /\ \A d \in Conn : d # c => conn'[d] = conn[d]
    BY <2>1 DEF ConnOK, Session
  <2> QED
    BY <2>1, <2>2, LiveKept
<1>7. ASSUME NEW c \in Conn, RejectKey(c) \/ ConnectFails(c) PROVE LiveRegistered'
  <2>1. Gone(c) /\ registry' = registry /\ moved' = moved
    BY <1>7 DEF RejectKey, ConnectFails
  <2>2. conn'[c].phase = "closed" /\ \A d \in Conn : d # c => conn'[d] = conn[d]
    BY <2>1 DEF Gone, Idle, ConnOK
  <2> QED
    BY <2>1, <2>2, LiveKept
<1>8. ASSUME NEW c \in Conn, Established(c) PROVE LiveRegistered'
  <2>1. /\ conn[c].phase = "dialing" /\ conn' = [conn EXCEPT ![c].phase = "live"]
        /\ registry' = [registry EXCEPT ![conn[c].tab] = c] /\ moved' = moved
    BY <1>8 DEF Established
  <2>2. /\ conn'[c].tab = conn[c].tab /\ conn[c].tab \in Tab
        /\ \A d \in Conn : d # c => conn'[d] = conn[d]
    BY <2>1 DEF ConnOK, Session
  <2>3. ASSUME NEW d \in Conn, conn'[d].phase = "live", conn'[d].tab \notin moved'
        PROVE  registry'[conn'[d].tab] = d
    <3>1. CASE d = c
      BY <2>1, <2>2, <3>1 DEF ConnOK
    <3>2. CASE d # c
      <4>1. conn'[d] = conn[d] /\ conn[d].tab \in Tab /\ registry[conn[d].tab] = d
        BY <2>1, <2>2, <2>3, <3>2 DEF LiveRegistered, ConnOK
      <4>2. conn[d].tab # conn[c].tab
        BY <2>1, <2>3, <3>2, <4>1, OneSession
      <4> QED
        BY <2>1, <4>1, <4>2 DEF ConnOK
    <3> QED
      BY <3>1, <3>2
  <2> QED
    BY <2>3 DEF LiveRegistered
<1>9. ASSUME NEW c \in Conn, ShellFails(c) PROVE LiveRegistered'
  <2>1. conn' = [conn EXCEPT ![c].phase = "stray"] /\ registry' = registry /\ moved' = moved
    BY <1>9 DEF ShellFails
  <2>2. conn'[c].phase = "stray" /\ \A d \in Conn : d # c => conn'[d] = conn[d]
    BY <2>1 DEF ConnOK, Session
  <2> QED
    BY <2>1, <2>2, LiveKept
<1>10. ASSUME NEW c \in Conn, SessionCloses(c) PROVE LiveRegistered'
  <2>1. /\ conn[c].phase \in {"live", "ending", "stray"} /\ Gone(c) /\ Unregister(c)
        /\ moved' = moved
    BY <1>10 DEF SessionCloses
  <2>2. conn'[c].phase = "closed" /\ \A d \in Conn : d # c => conn'[d] = conn[d]
    BY <2>1 DEF Gone, Idle, ConnOK
  <2>3. ASSUME NEW d \in Conn, conn'[d].phase = "live", conn'[d].tab \notin moved'
        PROVE  registry'[conn'[d].tab] = d
    <3>1. d # c
      BY <2>2, <2>3
    <3>2. conn'[d] = conn[d] /\ conn[d].tab \in Tab /\ registry[conn[d].tab] = d
      BY <2>1, <2>2, <2>3, <3>1 DEF LiveRegistered, ConnOK
    <3>3. conn[d].tab # conn[c].tab
      BY <2>1, <2>3, <3>1, <3>2, OneSession
    <3> QED
      BY <2>1, <3>2, <3>3 DEF Unregister, ConnOK
  <2> QED
    BY <2>3 DEF LiveRegistered
<1>11. ASSUME NEW choice \in {"save", "once", "cancel"}, Answer(choice) PROVE LiveRegistered'
  <2>1. dialog.tab \in Tab /\ registry' = registry /\ moved' = moved
    BY <1>11, AnswerEffect DEF Answer, PromptsOK, Prompt
  <2> QED
    BY <1>1, <1>2, <1>11, <2>1, AnswerEffect
<1>12. ASSUME NEW p \in saving, Saved(p) PROVE LiveRegistered'
  <2>1. p.tab \in Tab /\ registry' = registry /\ moved' = moved
    BY <1>12 DEF Saved, PromptsOK, Prompt
  <2> QED
    BY <1>1, <1>2, <1>12, <2>1 DEF Saved, Retry, Abort
<1> QED
  BY <1>1, <1>3, <1>4, <1>5, <1>6, <1>7, <1>8, <1>9, <1>10, <1>11, <1>12
  DEF Next, UserAction, Network, UserAnswers, SaveReturns, AddTab, RemoveTab, Reconnect,
      Receive, ForgetHost, PinFromCli, ImportFile, ChangeServerKey

-------------------------------------------------------------------------------
(* What a close did not reach was late *)

\* A tab that is closed before it has a component has no session.
LEMMA ClosedFresh ==
  ASSUME ConnOK, OneEach, LateMarked, UNCHANGED <<conn, late, mounted>>, moved \subseteq moved'
  PROVE  LateMarked'
<1> SUFFICES ASSUME NEW c \in Conn, conn[c].phase \in {"dialing", "live"},
                    conn[c].tab \notin mounted
             PROVE  c \in late \/ conn[c].tab \in moved
  BY DEF LateMarked
<1>1. conn[c].tab \in Tab /\ c \in OpenConns(conn[c].tab)
  BY DEF ConnOK, OpenConns
<1>2. ~Fresh(conn[c].tab)
  BY <1>1 DEF OneEach, NoneLeft
<1> QED
  BY <1>2 DEF Fresh, LateMarked

\* A session that goes on stays marked.
LEMMA LateKept ==
  ASSUME LateMarked, UNCHANGED <<tab, mounted, moved>>,
         \A c \in Conn : conn'[c].phase \in {"dialing", "live"} =>
           /\ conn[c].phase \in {"dialing", "live"} /\ conn'[c].tab = conn[c].tab
           /\ c \in late => c \in late'
  PROVE  LateMarked'
BY DEF LateMarked

LEMMA LateStep ==
  ASSUME IInv, OneEach, LiveRegistered, LateMarked, Next
  PROVE  LateMarked'
<1> USE DEF IInv, Typed
<1>1. ASSUME UNCHANGED <<conn, late, mounted>>, moved \subseteq moved' PROVE LateMarked'
  BY <1>1, ClosedFresh
<1>2. ASSUME NEW s \in Tab, NEW once, OpenBackend(s, once), UNCHANGED tab,
             mounted \subseteq mounted', moved \subseteq moved'
      PROVE  LateMarked'
  <2> DEFINE Unused == {c \in Conn : conn[c].phase = "unused"}
             fresh == CHOOSE c \in Unused : TRUE
             new == [tab |-> s, phase |-> "dialing", leg |-> 1, once |-> once]
  <2>1. /\ fresh \in Conn /\ conn' = [conn EXCEPT ![fresh] = new] /\ new.tab = s
        /\ late \subseteq late'
        /\ tab[s] = "removed" /\ s \notin mounted => fresh \in late'
    BY <1>2 DEF OpenBackend
  <2> HIDE DEF fresh, new
  <2>2. conn'[fresh].tab = s /\ \A d \in Conn : d # fresh => conn'[d] = conn[d]
    BY <2>1 DEF ConnOK
  <2> QED
    BY <1>2, <2>1, <2>2 DEF LateMarked
<1>3. ASSUME NEW s \in Tab, Mount(s) PROVE LateMarked'
  <2>1. CASE OpenSession(s)
    BY <1>2, <1>3, <2>1 DEF Mount, OpenSession
  <2>2. CASE UNCHANGED <<conn, late>>
    BY <1>3, <2>2 DEF Mount, LateMarked
  <2> QED
    BY <1>3, <2>1, <2>2 DEF Mount
<1>4. ASSUME NEW s \in Tab, MoveTabToPane(s) PROVE LateMarked'
  BY <1>2, <1>4 DEF MoveTabToPane, OpenSession
<1>5. ASSUME NEW s \in Tab, Unmount(s) PROVE LateMarked'
  <2>1. /\ CloseBackend(s) /\ moved' = moved /\ tab' = tab /\ mounted' = mounted \ {s}
        /\ late' = late \cup {c \in Conn : conn[c].tab = s /\ conn[c].phase = "dialing"}
    BY <1>5 DEF Unmount
  <2>2. /\ registry[s] \in Conn \cup {NoConn}
        /\ conn' = IF registry[s] = NoConn THEN conn
                   ELSE [conn EXCEPT ![registry[s]].phase = "ending"]
    BY <2>1 DEF CloseBackend, ConnOK
  <2>3. \A c \in Conn : conn'[c].tab = conn[c].tab
    BY <2>2 DEF ConnOK, Session
  <2>4. \A c \in Conn : c = registry[s] => conn'[c].phase = "ending"
    BY <2>2, ConstantsAssumption DEF ConnOK, Session
  <2>5. \A c \in Conn : c # registry[s] => conn'[c] = conn[c]
    BY <2>2 DEF ConnOK
  <2>6. ASSUME NEW c \in Conn, conn'[c].phase \in {"dialing", "live"},
               tab'[conn'[c].tab] = "removed", conn'[c].tab \notin mounted'
        PROVE  c \in late' \/ conn'[c].tab \in moved'
    <3>1. c # registry[s] /\ conn'[c] = conn[c]
      BY <2>4, <2>5, <2>6
    <3>2. CASE conn[c].tab # s
      BY <2>1, <2>6, <3>1, <3>2 DEF LateMarked
    <3>3. CASE conn[c].tab = s
      <4>1. CASE conn[c].phase = "dialing"
        BY <2>1, <3>3, <4>1
      <4>2. CASE conn[c].phase = "live"
        BY <2>1, <3>1, <3>3, <4>2 DEF LiveRegistered
      <4> QED
        BY <2>6, <3>1, <4>1, <4>2
    <3> QED
      BY <3>2, <3>3
  <2> QED
    BY <2>6 DEF LateMarked
<1>6. ASSUME NEW c \in Conn, AcceptKey(c) PROVE LateMarked'
  <2>1. /\ conn' = [conn EXCEPT ![c].leg = @ + 1]
        /\ UNCHANGED <<tab, mounted, moved, late>>
    BY <1>6 DEF AcceptKey, uiVars
  <2>2. /\ conn'[c].phase = conn[c].phase /\ conn'[c].tab = conn[c].tab
        /\ \A d \in Conn : d # c => conn'[d] = conn[d]
    BY <2>1 DEF ConnOK, Session
  <2> QED
    BY <2>1, <2>2, LateKept
<1>7. ASSUME NEW c \in Conn, RejectKey(c) \/ ConnectFails(c) \/ SessionCloses(c)
      PROVE  LateMarked'
  <2>1. Gone(c) /\ UNCHANGED <<tab, mounted, moved>>
    BY <1>7 DEF RejectKey, ConnectFails, SessionCloses, uiVars
  <2>2. /\ conn'[c].phase = "closed" /\ late' = late \ {c}
        /\ \A d \in Conn : d # c => conn'[d] = conn[d]
    BY <2>1 DEF Gone, Idle, ConnOK
  <2> QED
    BY <2>1, <2>2, LateKept
<1>8. ASSUME NEW c \in Conn, Established(c) \/ ShellFails(c) PROVE LateMarked'
  <2>1. /\ conn[c].phase = "dialing" /\ UNCHANGED <<tab, mounted, moved, late>>
        /\ \E phase \in Phase : conn' = [conn EXCEPT ![c].phase = phase]
    BY <1>8 DEF Established, ShellFails, uiVars, Phase
  <2>2. conn'[c].tab = conn[c].tab /\ \A d \in Conn : d # c => conn'[d] = conn[d]
    BY <2>1 DEF ConnOK, Session
  <2> QED
    BY <2>1, <2>2, LateKept
<1>9. ASSUME NEW choice \in {"save", "once", "cancel"}, Answer(choice) PROVE LateMarked'
  <2>1. /\ dialog.tab \in Tab /\ UNCHANGED <<mounted, moved>>
        /\ \/ UNCHANGED <<conn, late>>
           \/ OpenBackend(dialog.tab, dialog.key) /\ tab' = tab
    BY <1>9, AnswerEffect DEF Answer, Retry, Abort, PromptsOK, Prompt
  <2> QED
    BY <1>1, <1>2, <2>1
<1>10. ASSUME NEW p \in saving, Saved(p) PROVE LateMarked'
  <2>1. /\ p.tab \in Tab /\ UNCHANGED <<mounted, moved>>
        /\ \/ UNCHANGED <<conn, late>>
           \/ OpenBackend(p.tab, NoKey) /\ tab' = tab
    BY <1>10 DEF Saved, Retry, Abort, PromptsOK, Prompt
  <2> QED
    BY <1>1, <1>2, <2>1
<1> QED
  BY <1>1, <1>3, <1>4, <1>5, <1>6, <1>7, <1>8, <1>9, <1>10
  DEF Next, UserAction, Network, UserAnswers, SaveReturns, AddTab, RemoveTab, Reconnect,
      Receive, ForgetHost, PinFromCli, ImportFile, ChangeServerKey, uiVars

-------------------------------------------------------------------------------
(* The theorem *)

CInv == IInv /\ OneEach /\ LiveRegistered /\ LateMarked

\* The application starts without sessions and questions.
LEMMA InitCInv == Init => CInv
<1> SUFFICES ASSUME Init PROVE CInv
  OBVIOUS
<1>1. \A c \in Conn : conn[c].phase = "unused"
  BY DEF Init, Idle
<1>2. NoPrompt \notin Prompt
  BY ConstantsAssumption DEF Prompt
<1>3. ASSUME NEW t \in Tab PROVE NoneLeft(t)
  <2>1. OpenConns(t) = {}
    BY <1>1 DEF OpenConns
  <2>2. UiAsks(t) = {} /\ QueueAsks(t) = {}
    BY DEF Init, UiAsks, QueueAsks, Positions
  <2>3. DialogAsks(t) = {} /\ SavingAsks(t) = {}
    BY <1>2 DEF Init, DialogAsks, SavingAsks, PromptsOf
  <2> QED
    BY <2>1, <2>2, <2>3 DEF NoneLeft
<1>4. \A t \in Tab : NoneLeft(t) => OneLeft(t)
  BY DEF NoneLeft, OneLeft, Single
<1> QED
  BY <1>1, <1>3, <1>4, InitIInv DEF CInv, OneEach, LiveRegistered, LateMarked

\* The invariant of what a close reaches is inductive.
LEMMA StepCInv == CInv /\ [Next]_vars => CInv'
<1> SUFFICES ASSUME CInv, [Next]_vars PROVE CInv'
  OBVIOUS
<1>1. CASE Next
  BY <1>1, StepIInv, OneEachStep, LiveStep, LateStep DEF CInv
<1>2. CASE UNCHANGED vars
  <2>1. IInv'
    BY StepIInv DEF CInv
  <2>2. UNCHANGED <<conn, queue, dialog, saving, toUi, tab, mounted, moved, registry, late>>
    BY <1>2 DEF vars, uiVars, promptVars
  <2>3. \A t \in Tab : Kept(t) /\ (Fresh(t)' => Fresh(t))
    BY <2>2, OtherKept DEF Fresh
  <2>4. OneEach'
    BY <2>2, <2>3 DEF CInv, OneEach, Kept
  <2>5. LiveRegistered' /\ LateMarked'
    BY <2>2 DEF CInv, LiveRegistered, LateMarked
  <2> QED
    BY <2>1, <2>4, <2>5 DEF CInv
<1> QED
  BY <1>1, <1>2

\* A live session whose tab is closed was still connecting when the close came, or was
\* opened by a later answer, or its tab was moved between panes
\* (ssh-terminal/backend/index.js:106-113, tab.service.ts), for any number of tabs.
THEOREM CloseReaches == Spec => []CloseReachesLive
<1>1. Spec => []CInv
  BY InitCInv, StepCInv, PTL DEF Spec
<1>2. CInv => CloseReachesLive
  BY DEF CInv, LateMarked, CloseReachesLive
<1> QED
  BY <1>1, <1>2, PTL
===============================================================================
