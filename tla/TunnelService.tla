------------------------------ MODULE TunnelService ------------------------------
(*****************************************************************************)
(* The SSH port-forwarding manager of the main process                       *)
(* (src-electron/services/tunnelService.js, wired to IPC by                  *)
(* src-electron/adapter/ipc/tunnels.js).                                     *)
(*                                                                           *)
(* JavaScript runs one callback at a time, so an action is one macrotask: it *)
(* takes a call from one `await` to the next, or runs one event handler to   *)
(* its end.  What interleaves are the suspended start()/_restart() calls,    *)
(* the reconnect timers, the 'error' and 'close' events of connections, and  *)
(* the user.  An entry is one generation of a tunnel: start() replaces the   *)
(* object in the `tunnels` map but suspended calls, timers and connection    *)
(* handlers keep the old one alive.                                          *)
(*                                                                           *)
(* Abstracted: byte counters, error texts, status broadcasts, the contents   *)
(* of the SSH configuration.  Inbound channels and their approval are        *)
(* in TunnelApproval.                                                        *)
(*****************************************************************************)
EXTENDS Naturals, FiniteSets

CONSTANTS
  Tunnel,                \* tunnel ids of tunnels.json
  Entry,                 \* entry objects start() may create (bounds starts)
  Conn,                  \* ssh2 clients that may become ready (bounds connects)
  Call,                  \* start()/_restart() activations that may be suspended
  Port,                  \* local ports of local and dynamic rules
  RemoteRule,            \* a -R rule: no local listener
  NoEntry, NoConn,       \* null
  MaxReconnectAttempts   \* MAX_RECONNECT_ATTEMPTS, 10 in the code

ASSUME ConstantsAssumption ==
  /\ NoEntry \notin Entry
  /\ NoConn \notin Conn
  /\ RemoteRule \notin Port
  /\ MaxReconnectAttempts \in Nat

VARIABLES
  tunnels,           \* this.tunnels: Tunnel -> its current entry
  status,            \* entry.status ("none": not created yet)
  stoppedByUser,     \* entry.stoppedByUser
  conn,              \* entry.conn
  servers,           \* entry.servers: the local ports it listens on
  reconnectAttempt,  \* entry.reconnectAttempt
  reconnectTimer,    \* is entry.reconnectTimer an armed timer?
  strayTimers,       \* armed timers of the entry that nothing refers to
  socket,            \* life of each ssh2 client
  handlers,          \* the entry whose error/close handlers a client carries
  displaced,         \* ghost: clients whose place in entry.conn another one took
  calls,             \* suspended start()/_restart() activations
  running            \* FALSE once the application is quitting

entryVars == <<status, stoppedByUser, conn, servers, reconnectAttempt>>
timerVars == <<reconnectTimer, strayTimers>>
connVars  == <<socket, handlers, displaced>>
vars == <<tunnels, entryVars, timerVars, connVars, calls, running>>

Rule   == Port \cup {RemoteRule}
Status == {"none", "starting", "active", "reconnecting", "error", "stopped"}

\* "unused" -> "open" (ready) -> "ended" (end() called) -> "closed" ('close' emitted)
SocketState == {"unused", "open", "ended", "closed"}

\* The `await` a suspended call waits at, and what it captured before it.
Idle == [at |-> "idle"]
CallState ==
  {Idle}
  \cup [at: {"resolve"}, kind: {"start"}, tunnel: Tunnel, existing: Entry \cup {NoEntry}]
  \cup [at: {"resolve"}, kind: {"restart"}, entry: Entry]
  \cup [at: {"connect"}, kind: {"start", "restart"}, entry: Entry, rule: Rule]
  \cup [at: {"setup"}, kind: {"start", "restart"}, entry: Entry, rule: Rule, conn: Conn]

TypeOK ==
  /\ tunnels \in [Tunnel -> Entry \cup {NoEntry}]
  /\ status \in [Entry -> Status]
  /\ stoppedByUser \in [Entry -> BOOLEAN]
  /\ conn \in [Entry -> Conn \cup {NoConn}]
  /\ servers \in [Entry -> SUBSET Port]
  /\ reconnectAttempt \in [Entry -> 0..MaxReconnectAttempts]
  /\ reconnectTimer \in [Entry -> BOOLEAN]
  /\ strayTimers \in [Entry -> Nat]
  /\ socket \in [Conn -> SocketState]
  /\ handlers \in [Conn -> Entry \cup {NoEntry}]
  /\ displaced \in SUBSET Conn
  /\ calls \in [Call -> CallState]
  /\ running \in BOOLEAN

Init ==
  /\ tunnels = [t \in Tunnel |-> NoEntry]
  /\ status = [e \in Entry |-> "none"]
  /\ stoppedByUser = [e \in Entry |-> FALSE]
  /\ conn = [e \in Entry |-> NoConn]
  /\ servers = [e \in Entry |-> {}]
  /\ reconnectAttempt = [e \in Entry |-> 0]
  /\ reconnectTimer = [e \in Entry |-> FALSE]
  /\ strayTimers = [e \in Entry |-> 0]
  /\ socket = [c \in Conn |-> "unused"]
  /\ handlers = [c \in Conn |-> NoEntry]
  /\ displaced = {}
  /\ calls = [k \in Call |-> Idle]
  /\ running = TRUE

-------------------------------------------------------------------------------
(* The private helpers the handlers share *)

\* _teardown(entry, keepConnHandlers) of every entry in `es`, given the socket
\* states `now` its caller has reached.  end() on a closed client does nothing.
Teardown(es, keepConnHandlers, now) ==
  LET held == {conn[e] : e \in es} IN
  /\ servers' = [e \in Entry |-> IF e \in es THEN {} ELSE servers[e]]
  /\ conn' = [e \in Entry |-> IF e \in es THEN NoConn ELSE conn[e]]
  /\ socket' = [c \in Conn |-> IF c \in held /\ now[c] = "open" THEN "ended" ELSE now[c]]
  /\ handlers' = [c \in Conn |-> IF c \in held /\ ~keepConnHandlers THEN NoEntry ELSE handlers[c]]
  /\ UNCHANGED displaced

\* _fail: tear down, then status 'error'.  An armed timer is left alone.
Fail(e) ==
  /\ Teardown({e}, FALSE, socket)
  /\ status' = [status EXCEPT ![e] = "error"]
  /\ UNCHANGED <<stoppedByUser, reconnectAttempt, timerVars>>

\* _onConnClose does not return at once.
HeedsClose(e) == ~stoppedByUser[e] /\ status[e] \notin {"stopped", "error"}

\* setTimeout into entry.reconnectTimer: a timer already there stays armed,
\* but nothing can clear it any more.
ArmReconnectTimer(e) ==
  /\ reconnectTimer' = [reconnectTimer EXCEPT ![e] = TRUE]
  /\ strayTimers' = [strayTimers EXCEPT ![e] = IF reconnectTimer[e] THEN @ + 1 ELSE @]

\* Mutants of ScheduleReconnect: the limit is off by one; an attempt is not counted.
OneRetryTooMany(e) ==
  \/ /\ reconnectAttempt[e] > MaxReconnectAttempts
     /\ status' = [status EXCEPT ![e] = "error"]
     /\ UNCHANGED <<reconnectAttempt, timerVars>>
  \/ /\ reconnectAttempt[e] <= MaxReconnectAttempts
     /\ status' = [status EXCEPT ![e] = "reconnecting"]
     /\ reconnectAttempt' = [reconnectAttempt EXCEPT ![e] = @ + 1]
     /\ ArmReconnectTimer(e)

UncountedRetry(e) ==
  /\ status' = [status EXCEPT ![e] = "reconnecting"]
  /\ UNCHANGED reconnectAttempt
  /\ ArmReconnectTimer(e)

\* The rest of _onConnClose, after its teardown.
ScheduleReconnect(e) ==
  \/ /\ reconnectAttempt[e] >= MaxReconnectAttempts
     /\ status' = [status EXCEPT ![e] = "error"]
     /\ UNCHANGED <<reconnectAttempt, timerVars>>
  \/ /\ reconnectAttempt[e] < MaxReconnectAttempts
     /\ status' = [status EXCEPT ![e] = "reconnecting"]
     /\ reconnectAttempt' = [reconnectAttempt EXCEPT ![e] = @ + 1]
     /\ ArmReconnectTimer(e)

\* The catch block of _restart: teardown(entry, true), then _onConnClose.
RestartFailed(e) ==
  /\ Teardown({e}, TRUE, socket)
  /\ UNCHANGED stoppedByUser
  /\ \/ /\ ~HeedsClose(e)
        /\ UNCHANGED <<status, reconnectAttempt, timerVars>>
     \/ /\ HeedsClose(e)
        /\ ScheduleReconnect(e)

Return(k) == calls' = [calls EXCEPT ![k] = Idle]

\* A call rejected: start() goes to _fail and rethrows, _restart to its catch.
CallFailed(k) ==
  LET e == calls[k].entry IN
  /\ Return(k)
  /\ \/ calls[k].kind = "start" /\ Fail(e)
     \/ calls[k].kind = "restart" /\ RestartFailed(e)
  /\ UNCHANGED <<tunnels, running>>

-------------------------------------------------------------------------------
(* start(tunnelId) *)

InUse == {"active", "starting", "reconnecting"}

\* Up to `await resolveTunnel`.  A tunnel in use answers with a snapshot: no step.
StartCalled(k, t) ==
  LET e == tunnels[t] IN
  /\ running
  /\ calls[k] = Idle
  /\ ~(e # NoEntry /\ status[e] \in InUse)
  /\ calls' = [calls EXCEPT ![k] =
       [at |-> "resolve", kind |-> "start", tunnel |-> t, existing |-> e]]
  /\ UNCHANGED <<tunnels, entryVars, timerVars, connVars, running>>

\* The tunnel is gone from tunnels.json or invalid: start() rejects.
StartUnresolved(k) ==
  /\ calls[k].at = "resolve" /\ calls[k].kind = "start"
  /\ Return(k)
  /\ UNCHANGED <<tunnels, entryVars, timerVars, connVars, running>>

\* The entry read before the await is torn down and its timer cleared; a new
\* entry takes its place in the map, whatever the map holds by now.
StartResolved(k, e, r) ==
  LET old == {calls[k].existing} \ {NoEntry} IN
  /\ calls[k].at = "resolve" /\ calls[k].kind = "start"
  /\ status[e] = "none"
  /\ Teardown(old, FALSE, socket)
  /\ reconnectTimer' = [x \in Entry |-> x \notin old /\ reconnectTimer[x]]
  /\ tunnels' = [tunnels EXCEPT ![calls[k].tunnel] = e]
  /\ status' = [status EXCEPT ![e] = "starting"]
  /\ calls' = [calls EXCEPT ![k] =
       [at |-> "connect", kind |-> "start", entry |-> e, rule |-> r]]
  /\ UNCHANGED <<stoppedByUser, reconnectAttempt, strayTimers, running>>

-------------------------------------------------------------------------------
(* _restart(entry), called by the reconnect timer *)

\* A timer fires.  Its callback nulls entry.reconnectTimer even if that is
\* another, still armed, timer: firing a stray one makes the other stray.
TimerExpires(e) ==
  \/ /\ reconnectTimer[e]
     /\ reconnectTimer' = [reconnectTimer EXCEPT ![e] = FALSE]
     /\ UNCHANGED strayTimers
  \/ /\ strayTimers[e] > 0
     /\ reconnectTimer' = [reconnectTimer EXCEPT ![e] = FALSE]
     /\ strayTimers' = [strayTimers EXCEPT ![e] = IF reconnectTimer[e] THEN @ ELSE @ - 1]

\* Mutant of ReconnectDue: the callback does not look at stoppedByUser.
ReconnectAnyway(e) ==
  /\ TimerExpires(e)
  /\ \E k \in Call :
       /\ calls[k] = Idle
       /\ calls' = [calls EXCEPT ![k] = [at |-> "resolve", kind |-> "restart", entry |-> e]]
  /\ stoppedByUser' = [stoppedByUser EXCEPT ![e] = FALSE]
  /\ status' = [status EXCEPT ![e] = "starting"]
  /\ UNCHANGED <<tunnels, conn, servers, reconnectAttempt, connVars, running>>

ReconnectDue(e) ==
  /\ ~stoppedByUser[e]
  /\ TimerExpires(e)
  /\ \E k \in Call :
       /\ calls[k] = Idle
       /\ calls' = [calls EXCEPT ![k] = [at |-> "resolve", kind |-> "restart", entry |-> e]]
  /\ stoppedByUser' = [stoppedByUser EXCEPT ![e] = FALSE]
  /\ status' = [status EXCEPT ![e] = "starting"]
  /\ UNCHANGED <<tunnels, conn, servers, reconnectAttempt, connVars, running>>

ReconnectCancelled(e) ==
  /\ stoppedByUser[e]
  /\ TimerExpires(e)
  /\ UNCHANGED <<tunnels, entryVars, connVars, calls, running>>

RestartResolved(k, r) ==
  /\ calls[k].at = "resolve" /\ calls[k].kind = "restart"
  /\ calls' = [calls EXCEPT ![k] =
       [at |-> "connect", kind |-> "restart", entry |-> calls[k].entry, rule |-> r]]
  /\ UNCHANGED <<tunnels, entryVars, timerVars, connVars, running>>

RestartUnresolved(k) ==
  /\ calls[k].at = "resolve" /\ calls[k].kind = "restart"
  /\ CallFailed(k)

-------------------------------------------------------------------------------
(* await createConnection: start() and _restart() alike *)

\* Refused, or CONNECT_TIMEOUT_MS elapsed.
ConnectFailed(k) ==
  /\ calls[k].at = "connect"
  /\ CallFailed(k)

\* Stopped while connecting: the new connection is dropped at once.
ConnectedTooLate(k, c) ==
  /\ calls[k].at = "connect"
  /\ socket[c] = "unused"
  /\ stoppedByUser[calls[k].entry]
  /\ socket' = [socket EXCEPT ![c] = "ended"]
  /\ Return(k)
  /\ UNCHANGED <<tunnels, entryVars, timerVars, handlers, displaced, running>>

\* `entry.conn = conn`: a client that was there is forgotten, not ended.
TakeClient(e, c) ==
  /\ socket' = [socket EXCEPT ![c] = "open"]
  /\ conn' = [conn EXCEPT ![e] = c]
  /\ handlers' = [handlers EXCEPT ![c] = e]
  /\ displaced' = displaced \cup ({conn[e]} \ {NoConn})

\* Mutant of Connected: a stop() that overtook the connection goes unnoticed.
ConnectedUnchecked(k, c) ==
  LET e == calls[k].entry IN
  /\ calls[k].at = "connect"
  /\ socket[c] = "unused"
  /\ TakeClient(e, c)
  /\ calls' = [calls EXCEPT ![k] =
       [at |-> "setup", kind |-> calls[k].kind, entry |-> e, rule |-> calls[k].rule, conn |-> c]]
  /\ UNCHANGED <<tunnels, status, stoppedByUser, servers, reconnectAttempt, timerVars, running>>

Connected(k, c) ==
  LET e == calls[k].entry IN
  /\ calls[k].at = "connect"
  /\ socket[c] = "unused"
  /\ ~stoppedByUser[e]
  /\ TakeClient(e, c)
  /\ calls' = [calls EXCEPT ![k] =
       [at |-> "setup", kind |-> calls[k].kind, entry |-> e, rule |-> calls[k].rule, conn |-> c]]
  /\ UNCHANGED <<tunnels, status, stoppedByUser, servers, reconnectAttempt, timerVars, running>>

-------------------------------------------------------------------------------
(* await _setupForwarding *)

\* A listener binds a port nobody of this process holds; forwardIn needs its client.
CanForward(k) ==
  IF calls[k].rule = RemoteRule
  THEN socket[calls[k].conn] = "open"
  ELSE \A e \in Entry : calls[k].rule \notin servers[e]

\* entry.servers once the listener of this call has been pushed.
Listening(k) == servers[calls[k].entry] \cup ({calls[k].rule} \ {RemoteRule})

\* start() looks again: stop() or a failure won the race, so drop everything.
StartLostRace(k) ==
  LET e == calls[k].entry IN
  /\ calls[k].at = "setup" /\ calls[k].kind = "start"
  /\ CanForward(k)
  /\ stoppedByUser[e] \/ status[e] = "error"
  /\ Teardown({e}, FALSE, socket)
  /\ Return(k)
  /\ UNCHANGED <<tunnels, status, stoppedByUser, reconnectAttempt, timerVars, running>>

StartForwarding(k) ==
  LET e == calls[k].entry IN
  /\ calls[k].at = "setup" /\ calls[k].kind = "start"
  /\ CanForward(k)
  /\ ~stoppedByUser[e] /\ status[e] # "error"
  /\ servers' = [servers EXCEPT ![e] = Listening(k)]
  /\ status' = [status EXCEPT ![e] = "active"]
  /\ Return(k)
  /\ UNCHANGED <<tunnels, stoppedByUser, conn, reconnectAttempt, timerVars, connVars, running>>

\* _restart() does not look again.
RestartForwarding(k) ==
  LET e == calls[k].entry IN
  /\ calls[k].at = "setup" /\ calls[k].kind = "restart"
  /\ CanForward(k)
  /\ servers' = [servers EXCEPT ![e] = Listening(k)]
  /\ status' = [status EXCEPT ![e] = "active"]
  /\ reconnectAttempt' = [reconnectAttempt EXCEPT ![e] = 0]
  /\ Return(k)
  /\ UNCHANGED <<tunnels, stoppedByUser, conn, timerVars, connVars, running>>

\* EADDRINUSE, the server refused forwardIn, or the client died under it.
ForwardingFailed(k) ==
  /\ calls[k].at = "setup"
  /\ CallFailed(k)

-------------------------------------------------------------------------------
(* Events of an ssh2 client *)

\* 'error' matters only while starting; 'close' follows it.
ConnError(c) ==
  LET e == handlers[c] IN
  /\ socket[c] = "open"
  /\ e # NoEntry
  /\ status[e] = "starting"
  /\ Fail(e)
  /\ UNCHANGED <<tunnels, calls, running>>

\* 'close', once per client: the server dropped it, or end() was called.
ConnClose(c) ==
  LET e   == handlers[c]
      now == [socket EXCEPT ![c] = "closed"]
  IN
  /\ socket[c] \in {"open", "ended"}
  /\ \/ /\ ~(e # NoEntry /\ HeedsClose(e))
        /\ socket' = now
        /\ UNCHANGED <<entryVars, timerVars, handlers, displaced>>
     \/ /\ e # NoEntry /\ HeedsClose(e)
        /\ Teardown({e}, TRUE, now)
        /\ ScheduleReconnect(e)
        /\ UNCHANGED stoppedByUser
  /\ UNCHANGED <<tunnels, calls, running>>

-------------------------------------------------------------------------------
(* The user *)

StopEntries(es) ==
  /\ stoppedByUser' = [e \in Entry |-> e \in es \/ stoppedByUser[e]]
  /\ reconnectTimer' = [e \in Entry |-> e \notin es /\ reconnectTimer[e]]
  /\ Teardown(es, FALSE, socket)
  /\ UNCHANGED <<tunnels, reconnectAttempt, strayTimers, calls>>

MarkStopped(es) == status' = [e \in Entry |-> IF e \in es THEN "stopped" ELSE status[e]]

Stop(t) ==
  /\ running
  /\ tunnels[t] # NoEntry
  /\ StopEntries({tunnels[t]})
  /\ MarkStopped({tunnels[t]})
  /\ UNCHANGED running

InMap == {tunnels[t] : t \in Tunnel} \ {NoEntry}

\* stop() never suspends, so the loop of stopAll() runs as one macrotask.
StopAll ==
  /\ running
  /\ InMap # {}
  /\ StopEntries(InMap)
  /\ MarkStopped(InMap)
  /\ UNCHANGED running

\* The 'will-quit' handler: like stopAll() but without the status.  The event
\* loop may still turn before the process exits.
WillQuit ==
  /\ running
  /\ running' = FALSE
  /\ StopEntries(InMap)
  /\ UNCHANGED status

-------------------------------------------------------------------------------

\* One step of a suspended call, or of a reconnect timer, or a client's 'close'.
CallSettles(k) ==
  \/ StartUnresolved(k)
  \/ \E e \in Entry, r \in Rule : StartResolved(k, e, r)
  \/ \E r \in Rule : RestartResolved(k, r)
  \/ RestartUnresolved(k)
  \/ ConnectFailed(k)
  \/ \E c \in Conn : ConnectedTooLate(k, c) \/ Connected(k, c)
  \/ StartLostRace(k)
  \/ StartForwarding(k)
  \/ RestartForwarding(k)
  \/ ForwardingFailed(k)

TimerFires(e) == ReconnectDue(e) \/ ReconnectCancelled(e)

Next ==
  \/ \E k \in Call, t \in Tunnel : StartCalled(k, t)
  \/ \E k \in Call : CallSettles(k)
  \/ \E e \in Entry : TimerFires(e)
  \/ \E c \in Conn : ConnError(c) \/ ConnClose(c)
  \/ \E t \in Tunnel : Stop(t)
  \/ StopAll
  \/ WillQuit

Spec == Init /\ [][Next]_vars

\* An await nothing bounds: _restart() in resolveTunnel, where a proxy may close
\* before it answers (proxyService.js:80-138), and forwardIn on a client that
\* stays open and silent.
Unbounded(k) ==
  \/ calls[k].at = "resolve" /\ calls[k].kind = "restart"
  \/ calls[k].at = "setup" /\ calls[k].rule = RemoteRule /\ socket[calls[k].conn] = "open"

\* createConnection has a timeout, listen() answers, the outstanding requests
\* of a closed client fail, timers fire and an ended client emits 'close'.  A
\* start() that hangs in resolveTunnel has done nothing, as one that is refused.
\* The user need not do anything, and the network may stay up for ever.
Fairness ==
  /\ \A k \in Call : WF_vars(~Unbounded(k) /\ CallSettles(k))
  /\ \A e \in Entry : SF_vars(TimerFires(e))
  /\ \A c \in Conn : WF_vars(socket[c] = "ended" /\ ConnClose(c))

FairSpec == Spec /\ Fairness

-------------------------------------------------------------------------------
(* Properties *)

InFlight(e) ==
  \E k \in Call : calls[k].at # "idle" /\ calls[k].at # "resolve" /\ calls[k].entry = e
Restarting(e) ==
  \E k \in Call : calls[k].at = "resolve" /\ calls[k].kind = "restart" /\ calls[k].entry = e
Quiet(e) == ~InFlight(e) /\ ~Restarting(e)

Down(e) == conn[e] = NoConn /\ servers[e] = {}

\* What the user reads as stopped holds no SSH connection and no listener, at
\* once; what reads as failed holds none once the calls working on it settle;
\* and no client stays open without being the one its entry would end: stop(),
\* a failure or a later start() would leave it behind.  It takes stop() or a
\* failure overtaking a start() at each of its awaits (the rechecks of start(),
\* _teardown from every error path) to break it.  One way a client is left
\* behind is excused, by name: a second _restart() of the entry put its own in
\* its place (displaced; NoClientBehindStopped, which fails, says this of it).
StatusTellsTheTruth ==
  /\ \A e \in Entry :
       /\ status[e] = "stopped" => Down(e)
       /\ status[e] = "error" /\ Quiet(e) => Down(e)
  /\ \A c \in Conn :
       socket[c] = "open" /\ c \notin displaced =>
         handlers[c] # NoEntry /\ conn[handlers[c]] = c

\* Once the user has stopped a tunnel and no call works on it, nothing that is
\* still pending (a timer nobody can clear, the 'close' of an old client, a
\* start() of another generation) makes it acquire a connection, listen again
\* or come back into use.
NoResurrection ==
  [][\A e \in Entry :
       stoppedByUser[e] /\ Quiet(e) =>
         /\ conn'[e] \in {conn[e], NoConn}
         /\ servers'[e] \subseteq servers[e]
         /\ status'[e] # status[e] => status'[e] \notin InUse]_vars

\* The entry the tunnel list shows does not stay in a transient status: it
\* becomes active, fails or is stopped, however often the connection is lost
\* while reconnecting (the retry budget), unless another entry replaces it, or a
\* call of it hangs for ever in an await nothing bounds.  (When all calls of the
\* bounded pool do, the timers of the model find none for the next one.)
TransientStatusEnds ==
  \A t \in Tunnel, e \in Entry :
    (tunnels[t] = e /\ status[e] \in {"starting", "reconnecting"})
      ~> (\/ status[e] \in {"active", "error", "stopped"}
          \/ tunnels[t] # e
          \/ ~running
          \/ \E k \in Call : [](Unbounded(k) /\ calls[k].entry = e)
          \/ [](\A k \in Call : Unbounded(k)))

\* "One dedicated ssh2 connection per tunnel rule" (tunnelService.js:4) and
\* start() "Idempotent while active/starting" (tunnelService.js:117): no two
\* entries of a tunnel hold a client at the same time.
OneConnectionPerTunnel ==
  Cardinality({e \in Entry : conn[e] # NoConn}) <= Cardinality(Tunnel)

\* The test 'stop cancels pending reconnects' (tunnelService.spec.js:258-266)
\* has stop() end with status 'stopped' and no new connection: a tunnel that
\* shows 'stopped' does not become active unless the user starts it again.
StopIsFinal ==
  [][\A e \in Entry : status[e] = "stopped" => status'[e] # "active"]_vars

\* "A failed restart goes back through the close path for another retry"
\* (tunnelService.js:431): one retry, so one armed timer.
OneRetryAtATime ==
  \A e \in Entry : strayTimers[e] = 0

\* "Release sockets/listeners" (_teardown, tunnelService.js:457) and "Never leave
\* listeners/ssh connections behind on quit" (tunnels.js:123): once a tunnel
\* shows as stopped, none of its clients is left open.
NoClientBehindStopped ==
  \A c \in Conn :
    socket[c] = "open" /\ handlers[c] # NoEntry => status[handlers[c]] # "stopped"

===============================================================================
