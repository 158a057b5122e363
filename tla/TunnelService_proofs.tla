--------------------------- MODULE TunnelService_proofs ---------------------------
(*****************************************************************************)
(* Proofs about TunnelService, for any number of tunnels, entries, clients,  *)
(* suspended calls and reconnect attempts.                                   *)
(*****************************************************************************)
EXTENDS TunnelService, TLAPS

\* A call waiting in _setupForwarding for entry e.
SettingUp(e) == \E k \in Call : calls[k].at = "setup" /\ calls[k].entry = e

\* StatusTellsTheTruth is not inductive: a client may become ready for an entry
\* already in error.  Then the call that set entry.conn is still setting up the
\* forwarding and will either drop the client or declare the entry active.
Faithful(e) ==
  /\ status[e] = "stopped" => Down(e) /\ stoppedByUser[e]
  /\ status[e] = "error" => servers[e] = {} /\ (conn[e] # NoConn => SettingUp(e))
  /\ status[e] = "none" => ~stoppedByUser[e]

Strengthening ==
  /\ \A e \in Entry : Faithful(e)
  /\ \A t \in Tunnel : tunnels[t] # NoEntry => status[tunnels[t]] # "none"

\* No client is open that its entry would not end, but those another one replaced.
Owned ==
  \A c \in Conn :
    socket[c] = "open" /\ c \notin displaced =>
      handlers[c] # NoEntry /\ conn[handlers[c]] = c

IInv == TypeOK /\ Strengthening /\ Owned

-------------------------------------------------------------------------------
(* The helpers *)

\* What a suspended call has captured, by the await it waits at.
LEMMA CallFields ==
  ASSUME TypeOK, NEW k \in Call
  PROVE  /\ calls[k].at \in {"idle", "resolve", "connect", "setup"}
         /\ calls[k].at # "idle" => calls[k].kind \in {"start", "restart"}
         /\ calls[k].at = "resolve" /\ calls[k].kind = "start" =>
              calls[k].tunnel \in Tunnel /\ calls[k].existing \in Entry \cup {NoEntry}
         /\ calls[k].at = "resolve" /\ calls[k].kind = "restart" => calls[k].entry \in Entry
         /\ calls[k].at \in {"connect", "setup"} =>
              calls[k].entry \in Entry /\ calls[k].rule \in Rule
         /\ calls[k].at = "setup" => calls[k].conn \in Conn
  BY DEF TypeOK, CallState, Idle

\* Teardown keeps the types, brings down the entries it is given and no other.
LEMMA TeardownEffect ==
  ASSUME TypeOK, NEW es \in SUBSET Entry, NEW keep \in BOOLEAN,
         NEW now \in [Conn -> SocketState],
         Teardown(es, keep, now)
  PROVE  /\ servers' \in [Entry -> SUBSET Port]
         /\ conn' \in [Entry -> Conn \cup {NoConn}]
         /\ socket' \in [Conn -> SocketState]
         /\ handlers' \in [Conn -> Entry \cup {NoEntry}]
         /\ UNCHANGED displaced
         /\ \A e \in es : conn'[e] = NoConn /\ servers'[e] = {}
         /\ \A e \in Entry \ es : conn'[e] = conn[e] /\ servers'[e] = servers[e]
  BY DEF TypeOK, Teardown, SocketState

\* The same of the teardown of a single entry.
LEMMA TeardownOneEffect ==
  ASSUME TypeOK, NEW e \in Entry, NEW keep \in BOOLEAN,
         NEW now \in [Conn -> SocketState],
         Teardown({e}, keep, now)
  PROVE  /\ servers' \in [Entry -> SUBSET Port]
         /\ conn' \in [Entry -> Conn \cup {NoConn}]
         /\ socket' \in [Conn -> SocketState]
         /\ handlers' \in [Conn -> Entry \cup {NoEntry}]
         /\ UNCHANGED displaced
         /\ conn'[e] = NoConn /\ servers'[e] = {}
         /\ \A x \in Entry \ {e} : conn'[x] = conn[x] /\ servers'[x] = servers[x]
<1>1. {e} \in SUBSET Entry OBVIOUS
<1>2. /\ servers' \in [Entry -> SUBSET Port]
      /\ conn' \in [Entry -> Conn \cup {NoConn}]
      /\ socket' \in [Conn -> SocketState]
      /\ handlers' \in [Conn -> Entry \cup {NoEntry}]
      /\ UNCHANGED displaced
  BY <1>1, TeardownEffect
<1>3. conn'[e] = NoConn /\ servers'[e] = {} BY DEF Teardown
<1>4. \A x \in Entry \ {e} : conn'[x] = conn[x] /\ servers'[x] = servers[x]
  BY DEF Teardown
<1>5. QED BY <1>2, <1>3, <1>4

\* _fail leaves the entry in error and down, and touches no other.
LEMMA FailEffect ==
  ASSUME TypeOK, NEW e \in Entry, Fail(e)
  PROVE  /\ servers' \in [Entry -> SUBSET Port]
         /\ conn' \in [Entry -> Conn \cup {NoConn}]
         /\ socket' \in [Conn -> SocketState]
         /\ handlers' \in [Conn -> Entry \cup {NoEntry}]
         /\ UNCHANGED displaced
         /\ conn'[e] = NoConn /\ servers'[e] = {}
         /\ \A x \in Entry \ {e} : conn'[x] = conn[x] /\ servers'[x] = servers[x]
         /\ status' = [status EXCEPT ![e] = "error"]
         /\ UNCHANGED <<stoppedByUser, reconnectAttempt, timerVars>>
<1>1. Teardown({e}, FALSE, socket) BY DEF Fail
<1>2. socket \in [Conn -> SocketState] BY DEF TypeOK
<1>3. QED BY <1>1, <1>2, TeardownOneEffect DEF Fail

\* Scheduling a retry, or giving up, keeps the types; the entry ends in
\* 'reconnecting' or 'error'.
LEMMA ScheduleEffect ==
  ASSUME TypeOK, NEW e \in Entry, ScheduleReconnect(e)
  PROVE  /\ status' \in [Entry -> Status]
         /\ status'[e] \in {"error", "reconnecting"}
         /\ \A x \in Entry \ {e} : status'[x] = status[x]
         /\ reconnectAttempt' \in [Entry -> 0..MaxReconnectAttempts]
         /\ reconnectTimer' \in [Entry -> BOOLEAN]
         /\ strayTimers' \in [Entry -> Nat]
<1>1. CASE reconnectAttempt[e] >= MaxReconnectAttempts
  BY <1>1, ConstantsAssumption DEF TypeOK, ScheduleReconnect, Status, timerVars
<1>2. CASE reconnectAttempt[e] < MaxReconnectAttempts
  <2>1. /\ reconnectTimer \in [Entry -> BOOLEAN]
        /\ strayTimers \in [Entry -> Nat]
        /\ reconnectAttempt[e] \in Nat
    BY ConstantsAssumption DEF TypeOK
  <2>2. ArmReconnectTimer(e)
    BY <1>2, <2>1, ConstantsAssumption DEF ScheduleReconnect
  <2>3. /\ reconnectTimer' \in [Entry -> BOOLEAN]
        /\ strayTimers' \in [Entry -> Nat]
    BY <2>1, <2>2 DEF ArmReconnectTimer
  <2>4. reconnectAttempt' \in [Entry -> 0..MaxReconnectAttempts]
    BY <1>2, ConstantsAssumption DEF TypeOK, ScheduleReconnect
  <2>5. /\ status' \in [Entry -> Status]
        /\ status'[e] \in {"error", "reconnecting"}
        /\ \A x \in Entry \ {e} : status'[x] = status[x]
    BY <1>2, ConstantsAssumption DEF TypeOK, ScheduleReconnect, Status
  <2>6. QED BY <2>3, <2>4, <2>5
<1>3. QED BY <1>1, <1>2, ConstantsAssumption DEF TypeOK

\* A timer that fires leaves timers behind of the right type.
LEMMA TimerEffect ==
  ASSUME TypeOK, NEW e \in Entry, TimerExpires(e)
  PROVE  reconnectTimer' \in [Entry -> BOOLEAN] /\ strayTimers' \in [Entry -> Nat]
<1>1. reconnectTimer' = [reconnectTimer EXCEPT ![e] = FALSE]
  BY DEF TimerExpires
<1>2. reconnectTimer' \in [Entry -> BOOLEAN]
  BY <1>1, Zenon DEF TypeOK
<1>3. CASE UNCHANGED strayTimers
  BY <1>2, <1>3 DEF TypeOK
<1>4. CASE /\ strayTimers[e] > 0
           /\ strayTimers' = [strayTimers EXCEPT ![e] = IF reconnectTimer[e] THEN @ ELSE @ - 1]
  <2>1. strayTimers' \in [Entry -> Nat] BY <1>4 DEF TypeOK
  <2>2. QED BY <1>2, <2>1
<1>5. QED BY <1>3, <1>4 DEF TimerExpires

\* The catch of _restart leaves the entry down, and touches no other.
LEMMA RestartFailedEffect ==
  ASSUME TypeOK, NEW e \in Entry, RestartFailed(e)
  PROVE  /\ servers' \in [Entry -> SUBSET Port]
         /\ conn' \in [Entry -> Conn \cup {NoConn}]
         /\ socket' \in [Conn -> SocketState]
         /\ handlers' \in [Conn -> Entry \cup {NoEntry}]
         /\ UNCHANGED displaced
         /\ status' \in [Entry -> Status]
         /\ reconnectAttempt' \in [Entry -> 0..MaxReconnectAttempts]
         /\ reconnectTimer' \in [Entry -> BOOLEAN]
         /\ strayTimers' \in [Entry -> Nat]
         /\ UNCHANGED stoppedByUser
         /\ conn'[e] = NoConn /\ servers'[e] = {}
         /\ \A x \in Entry \ {e} :
              conn'[x] = conn[x] /\ servers'[x] = servers[x] /\ status'[x] = status[x]
         /\ status'[e] = status[e] \/ status'[e] \in {"error", "reconnecting"}
<1>1. Teardown({e}, TRUE, socket) /\ UNCHANGED stoppedByUser BY DEF RestartFailed
<1>2. socket \in [Conn -> SocketState] BY DEF TypeOK
<1>3. /\ servers' \in [Entry -> SUBSET Port]
      /\ conn' \in [Entry -> Conn \cup {NoConn}]
      /\ socket' \in [Conn -> SocketState]
      /\ handlers' \in [Conn -> Entry \cup {NoEntry}]
      /\ UNCHANGED displaced
      /\ conn'[e] = NoConn /\ servers'[e] = {}
      /\ \A x \in Entry \ {e} : conn'[x] = conn[x] /\ servers'[x] = servers[x]
  BY <1>1, <1>2, TeardownOneEffect
<1>4. CASE HeedsClose(e)
  <2>1. ScheduleReconnect(e) BY <1>4 DEF RestartFailed
  <2>2. QED BY <1>1, <1>3, <2>1, ScheduleEffect
<1>5. CASE ~HeedsClose(e)
  <2>1. UNCHANGED <<status, reconnectAttempt, timerVars>> BY <1>5 DEF RestartFailed
  <2>2. QED BY <1>1, <1>3, <2>1 DEF TypeOK, timerVars
<1>6. QED BY <1>4, <1>5

\* A call that fails after it has an entry leaves that entry down.
LEMMA CallFailedEffect ==
  ASSUME TypeOK, NEW k \in Call, CallFailed(k),
         calls[k].at \in {"resolve", "connect", "setup"},
         calls[k].at = "resolve" => calls[k].kind = "restart"
  PROVE  /\ calls[k].entry \in Entry
         /\ TypeOK'
         /\ conn'[calls[k].entry] = NoConn /\ servers'[calls[k].entry] = {}
         /\ \A x \in Entry \ {calls[k].entry} :
              conn'[x] = conn[x] /\ servers'[x] = servers[x] /\ status'[x] = status[x]
         /\ \/ status'[calls[k].entry] = status[calls[k].entry]
            \/ status'[calls[k].entry] \in {"error", "reconnecting"}
         /\ UNCHANGED <<tunnels, stoppedByUser>>
         /\ calls' = [calls EXCEPT ![k] = Idle]
<1> DEFINE e == calls[k].entry
<1>1. e \in Entry BY CallFields
<1>2. calls' = [calls EXCEPT ![k] = Idle] /\ UNCHANGED <<tunnels, running>>
  BY DEF CallFailed, Return
<1>3. calls' \in [Call -> CallState] BY <1>2 DEF TypeOK, CallState
<1>4. CASE Fail(e)
  <2>1. /\ status' = [status EXCEPT ![e] = "error"]
        /\ UNCHANGED <<stoppedByUser, reconnectAttempt, timerVars>>
        /\ servers' \in [Entry -> SUBSET Port]
        /\ conn' \in [Entry -> Conn \cup {NoConn}]
        /\ socket' \in [Conn -> SocketState]
        /\ handlers' \in [Conn -> Entry \cup {NoEntry}]
        /\ UNCHANGED displaced
        /\ conn'[e] = NoConn /\ servers'[e] = {}
        /\ \A x \in Entry \ {e} : conn'[x] = conn[x] /\ servers'[x] = servers[x]
    BY <1>1, <1>4, FailEffect
  <2>2. TypeOK' BY <1>2, <1>3, <2>1 DEF TypeOK, Status, timerVars
  <2>3. /\ status'[e] = "error"
        /\ \A x \in Entry \ {e} : status'[x] = status[x]
    BY <1>1, <2>1 DEF TypeOK
  <2>4. QED BY <1>1, <1>2, <2>1, <2>2, <2>3
<1>5. CASE RestartFailed(e)
  <2>1. TypeOK' BY <1>1, <1>2, <1>3, <1>5, RestartFailedEffect DEF TypeOK
  <2>2. QED BY <1>1, <1>2, <1>5, <2>1, RestartFailedEffect
<1>6. Fail(e) \/ RestartFailed(e) BY DEF CallFailed
<1>7. QED BY <1>4, <1>5, <1>6

\* Stopping a set of entries brings exactly those down.
LEMMA StopEffect ==
  ASSUME TypeOK, NEW es \in SUBSET Entry, StopEntries(es)
  PROVE  /\ servers' \in [Entry -> SUBSET Port]
         /\ conn' \in [Entry -> Conn \cup {NoConn}]
         /\ socket' \in [Conn -> SocketState]
         /\ handlers' \in [Conn -> Entry \cup {NoEntry}]
         /\ UNCHANGED displaced
         /\ stoppedByUser' \in [Entry -> BOOLEAN]
         /\ reconnectTimer' \in [Entry -> BOOLEAN]
         /\ \A e \in es : conn'[e] = NoConn /\ servers'[e] = {} /\ stoppedByUser'[e]
         /\ \A e \in Entry \ es :
              /\ conn'[e] = conn[e]
              /\ servers'[e] = servers[e]
              /\ stoppedByUser'[e] = stoppedByUser[e]
         /\ UNCHANGED <<tunnels, reconnectAttempt, strayTimers, calls>>
<1>1. Teardown(es, FALSE, socket) BY DEF StopEntries
<1>2. socket \in [Conn -> SocketState] BY DEF TypeOK
<1>3. stoppedByUser' = [e \in Entry |-> e \in es \/ stoppedByUser[e]]
  BY DEF StopEntries
<1>4. /\ stoppedByUser' \in [Entry -> BOOLEAN]
      /\ \A e \in es : stoppedByUser'[e]
      /\ \A e \in Entry \ es : stoppedByUser'[e] = stoppedByUser[e]
  <2>1. stoppedByUser' \in [Entry -> BOOLEAN]
    BY <1>3, Zenon DEF TypeOK
  <2>2. ASSUME NEW e \in es PROVE stoppedByUser'[e]
    BY <1>3, <2>2, Zenon
  <2>3. ASSUME NEW e \in Entry \ es PROVE stoppedByUser'[e] = stoppedByUser[e]
    BY <1>3, <2>3 DEF TypeOK
  <2>4. QED BY <2>1, <2>2, <2>3
<1>5. reconnectTimer' \in [Entry -> BOOLEAN]
  BY Zenon DEF StopEntries
<1>6. UNCHANGED <<tunnels, reconnectAttempt, strayTimers, calls>>
  BY DEF StopEntries
<1>7. QED BY <1>1, <1>2, <1>4, <1>5, <1>6, TeardownEffect

-------------------------------------------------------------------------------
(* Type correctness *)

\* Every step keeps the types.
LEMMA TypeStep == TypeOK /\ [Next]_vars => TypeOK'
<1> SUFFICES ASSUME TypeOK, [Next]_vars PROVE TypeOK'
  OBVIOUS
<1>1. ASSUME NEW k \in Call, NEW t \in Tunnel, StartCalled(k, t) PROVE TypeOK'
  <2>1. [at |-> "resolve", kind |-> "start", tunnel |-> t, existing |-> tunnels[t]] \in CallState
    BY DEF TypeOK, CallState
  <2>2. QED BY <1>1, <2>1 DEF StartCalled, TypeOK, entryVars, timerVars, connVars
<1>2. ASSUME NEW k \in Call, StartUnresolved(k) PROVE TypeOK'
  BY <1>2 DEF StartUnresolved, Return, TypeOK, CallState, entryVars, timerVars, connVars
<1>3. ASSUME NEW k \in Call, NEW e \in Entry, NEW r \in Rule, StartResolved(k, e, r)
      PROVE  TypeOK'
  <2> DEFINE old == {calls[k].existing} \ {NoEntry}
  <2>1. old \in SUBSET Entry /\ calls[k].tunnel \in Tunnel
    BY <1>3, CallFields DEF StartResolved
  <2>2. Teardown(old, FALSE, socket) BY <1>3 DEF StartResolved
  <2>3. socket \in [Conn -> SocketState] BY DEF TypeOK
  <2>4. /\ servers' \in [Entry -> SUBSET Port]
        /\ conn' \in [Entry -> Conn \cup {NoConn}]
        /\ socket' \in [Conn -> SocketState]
        /\ handlers' \in [Conn -> Entry \cup {NoEntry}]
        /\ UNCHANGED displaced
    BY <2>1, <2>2, <2>3, TeardownEffect
  <2>5. [at |-> "connect", kind |-> "start", entry |-> e, rule |-> r] \in CallState
    BY DEF CallState
  <2>6. calls' \in [Call -> CallState] /\ status' \in [Entry -> Status]
    BY <1>3, <2>5 DEF StartResolved, TypeOK, Status
  <2>7. tunnels' \in [Tunnel -> Entry \cup {NoEntry}]
    BY <1>3, <2>1 DEF StartResolved, TypeOK
  <2>8. reconnectTimer' \in [Entry -> BOOLEAN]
    BY <1>3, Zenon DEF StartResolved
  <2>9. QED BY <1>3, <2>4, <2>6, <2>7, <2>8 DEF StartResolved, TypeOK
<1>4. ASSUME NEW e \in Entry, ReconnectDue(e) PROVE TypeOK'
  <2>1. PICK k \in Call :
          calls' = [calls EXCEPT ![k] = [at |-> "resolve", kind |-> "restart", entry |-> e]]
    BY <1>4 DEF ReconnectDue
  <2>2. [at |-> "resolve", kind |-> "restart", entry |-> e] \in CallState
    BY DEF CallState
  <2>3. calls' \in [Call -> CallState] BY <2>1, <2>2 DEF TypeOK
  <2>4. reconnectTimer' \in [Entry -> BOOLEAN] /\ strayTimers' \in [Entry -> Nat]
    BY <1>4, TimerEffect DEF ReconnectDue
  <2>5. stoppedByUser' \in [Entry -> BOOLEAN] /\ status' \in [Entry -> Status]
    BY <1>4 DEF ReconnectDue, TypeOK, Status
  <2>6. QED BY <1>4, <2>3, <2>4, <2>5 DEF ReconnectDue, TypeOK, connVars
<1>5. ASSUME NEW e \in Entry, ReconnectCancelled(e) PROVE TypeOK'
  <2>1. reconnectTimer' \in [Entry -> BOOLEAN] /\ strayTimers' \in [Entry -> Nat]
    BY <1>5, TimerEffect DEF ReconnectCancelled
  <2>2. QED BY <1>5, <2>1 DEF ReconnectCancelled, TypeOK, entryVars, connVars
<1>6. ASSUME NEW k \in Call, NEW r \in Rule, RestartResolved(k, r) PROVE TypeOK'
  <2>1. calls[k].entry \in Entry BY <1>6, CallFields DEF RestartResolved
  <2>2. [at |-> "connect", kind |-> "restart", entry |-> calls[k].entry, rule |-> r] \in CallState
    BY <2>1 DEF CallState
  <2>3. QED BY <1>6, <2>2 DEF RestartResolved, TypeOK, entryVars, timerVars, connVars
<1>7. ASSUME NEW k \in Call, RestartUnresolved(k) PROVE TypeOK'
  BY <1>7, CallFailedEffect DEF RestartUnresolved
<1>8. ASSUME NEW k \in Call, ConnectFailed(k) PROVE TypeOK'
  BY <1>8, CallFailedEffect DEF ConnectFailed
<1>9. ASSUME NEW k \in Call, NEW c \in Conn, ConnectedTooLate(k, c) PROVE TypeOK'
  BY <1>9 DEF ConnectedTooLate, Return, TypeOK, CallState, SocketState, entryVars, timerVars
<1>10. ASSUME NEW k \in Call, NEW c \in Conn, Connected(k, c) PROVE TypeOK'
  <2> DEFINE next == [at |-> "setup", kind |-> calls[k].kind, entry |-> calls[k].entry,
                      rule |-> calls[k].rule, conn |-> c]
  <2>1. /\ calls[k].entry \in Entry /\ calls[k].rule \in Rule
        /\ calls[k].kind \in {"start", "restart"}
    BY <1>10, CallFields DEF Connected
  <2>2. next \in CallState BY <2>1 DEF CallState
  <2>3. calls' \in [Call -> CallState] BY <1>10, <2>2 DEF Connected, TypeOK
  <2>4. TakeClient(calls[k].entry, c) BY <1>10 DEF Connected
  <2>5. /\ socket' \in [Conn -> SocketState]
        /\ conn' \in [Entry -> Conn \cup {NoConn}]
        /\ handlers' \in [Conn -> Entry \cup {NoEntry}]
    BY <2>1, <2>4 DEF TakeClient, TypeOK, SocketState
  <2>6. displaced' \in SUBSET Conn BY <2>1, <2>4 DEF TakeClient, TypeOK
  <2>7. QED BY <1>10, <2>3, <2>5, <2>6 DEF Connected, TypeOK, timerVars
<1>11. ASSUME NEW k \in Call, StartLostRace(k) PROVE TypeOK'
  <2>1. calls[k].entry \in Entry BY <1>11, CallFields DEF StartLostRace
  <2>2. Teardown({calls[k].entry}, FALSE, socket) BY <1>11 DEF StartLostRace
  <2>3. socket \in [Conn -> SocketState] BY DEF TypeOK
  <2>4. calls' \in [Call -> CallState] BY <1>11 DEF StartLostRace, Return, TypeOK, CallState
  <2>5. QED BY <1>11, <2>1, <2>2, <2>3, <2>4, TeardownOneEffect DEF StartLostRace, TypeOK, timerVars
<1>12. ASSUME NEW k \in Call, StartForwarding(k) PROVE TypeOK'
  <2>1. calls[k].entry \in Entry /\ calls[k].rule \in Rule
    BY <1>12, CallFields DEF StartForwarding
  <2>2. Listening(k) \in SUBSET Port BY <2>1 DEF Listening, Rule, TypeOK
  <2>3. QED
    BY <1>12, <2>1, <2>2
    DEF StartForwarding, Return, TypeOK, CallState, Status, timerVars, connVars
<1>13. ASSUME NEW k \in Call, RestartForwarding(k) PROVE TypeOK'
  <2>1. calls[k].entry \in Entry /\ calls[k].rule \in Rule
    BY <1>13, CallFields DEF RestartForwarding
  <2>2. Listening(k) \in SUBSET Port BY <2>1 DEF Listening, Rule, TypeOK
  <2>3. 0 \in 0..MaxReconnectAttempts BY ConstantsAssumption
  <2>4. QED
    BY <1>13, <2>1, <2>2, <2>3
    DEF RestartForwarding, Return, TypeOK, CallState, Status, timerVars, connVars
<1>14. ASSUME NEW k \in Call, ForwardingFailed(k) PROVE TypeOK'
  BY <1>14, CallFailedEffect DEF ForwardingFailed
<1>15. ASSUME NEW c \in Conn, ConnError(c) PROVE TypeOK'
  <2>1. handlers[c] \in Entry BY <1>15 DEF ConnError, TypeOK
  <2>2. Fail(handlers[c]) BY <1>15 DEF ConnError
  <2>3. QED BY <1>15, <2>1, <2>2, FailEffect DEF ConnError, TypeOK, Status, timerVars
<1>16. ASSUME NEW c \in Conn, ConnClose(c) PROVE TypeOK'
  <2> DEFINE e == handlers[c]
             now == [socket EXCEPT ![c] = "closed"]
  <2>1. now \in [Conn -> SocketState] BY DEF TypeOK, SocketState
  <2>2. CASE socket' = now /\ UNCHANGED <<entryVars, timerVars, handlers, displaced>>
    BY <1>16, <2>1, <2>2 DEF ConnClose, TypeOK, entryVars, timerVars
  <2>3. CASE /\ e # NoEntry
             /\ Teardown({e}, TRUE, now)
             /\ ScheduleReconnect(e)
             /\ UNCHANGED stoppedByUser
    <3>1. e \in Entry BY <2>3 DEF TypeOK
    <3>2. QED
      BY <1>16, <2>1, <2>3, <3>1, TeardownOneEffect, ScheduleEffect DEF ConnClose, TypeOK
  <2>4. QED BY <1>16, <2>2, <2>3 DEF ConnClose
<1>17. ASSUME NEW t \in Tunnel, Stop(t) PROVE TypeOK'
  <2>1. {tunnels[t]} \in SUBSET Entry BY <1>17 DEF Stop, TypeOK
  <2>2. status' \in [Entry -> Status] BY <1>17 DEF Stop, MarkStopped, TypeOK, Status
  <2>3. QED BY <1>17, <2>1, <2>2, StopEffect DEF Stop, TypeOK
<1>18. ASSUME StopAll PROVE TypeOK'
  <2>1. InMap \in SUBSET Entry BY DEF InMap, TypeOK
  <2>2. status' \in [Entry -> Status] BY <1>18 DEF StopAll, MarkStopped, TypeOK, Status
  <2>3. QED BY <1>18, <2>1, <2>2, StopEffect DEF StopAll, TypeOK
<1>19. ASSUME WillQuit PROVE TypeOK'
  <2>1. InMap \in SUBSET Entry BY DEF InMap, TypeOK
  <2>2. QED BY <1>19, <2>1, StopEffect DEF WillQuit, TypeOK
<1>20. CASE UNCHANGED vars
  BY <1>20 DEF vars, entryVars, timerVars, connVars, TypeOK
<1>21. QED
  BY <1>1, <1>2, <1>3, <1>4, <1>5, <1>6, <1>7, <1>8, <1>9, <1>10, <1>11, <1>12, <1>13,
     <1>14, <1>15, <1>16, <1>17, <1>18, <1>19, <1>20
  DEF Next, CallSettles, TimerFires

\* The initial state is of the right type.
LEMMA InitType == Init => TypeOK
  BY ConstantsAssumption DEF Init, TypeOK, Status, SocketState, CallState

\* The variables of the tunnel service keep their types.
THEOREM TypeCorrect == Spec => []TypeOK
  BY InitType, TypeStep, PTL DEF Spec

-------------------------------------------------------------------------------
(* What the tunnel list shows is what is held *)

\* A call that moves on is the only one to stop setting up its entry.
LEMMA SettingUpKept ==
  ASSUME TypeOK, NEW k \in Call, NEW v, calls' = [calls EXCEPT ![k] = v],
         NEW x \in Entry, SettingUp(x),
         calls[k].at # "setup" \/ calls[k].entry # x
  PROVE  SettingUp(x)'
<1>1. PICK j \in Call : calls[j].at = "setup" /\ calls[j].entry = x BY DEF SettingUp
<1>2. j # k BY <1>1
<1>3. calls'[j] = calls[j] BY <1>2 DEF TypeOK
<1>4. QED BY <1>1, <1>3 DEF SettingUp

\* An entry whose fields a step leaves alone stays faithful.
LEMMA Undisturbed ==
  ASSUME NEW x \in Entry, Faithful(x),
         status'[x] = status[x], stoppedByUser'[x] = stoppedByUser[x],
         conn'[x] = conn[x], servers'[x] = servers[x],
         SettingUp(x) => SettingUp(x)'
  PROVE  Faithful(x)'
  BY DEF Faithful, Down

\* An entry that is torn down, and whose status the step keeps or replaces by
\* one other than 'none' and 'stopped', stays faithful.
LEMMA LeftDown ==
  ASSUME NEW x \in Entry, Faithful(x),
         conn'[x] = NoConn, servers'[x] = {},
         stoppedByUser'[x] = stoppedByUser[x],
         status'[x] = status[x] \/ status'[x] \in {"error", "reconnecting"}
  PROVE  Faithful(x)'
  BY DEF Faithful, Down

\* A failing call leaves every entry faithful.
LEMMA CallFailedFaithful ==
  ASSUME IInv, NEW k \in Call, CallFailed(k),
         calls[k].at \in {"resolve", "connect", "setup"},
         calls[k].at = "resolve" => calls[k].kind = "restart"
  PROVE  Strengthening'
<1> USE DEF IInv, Strengthening
<1> DEFINE e == calls[k].entry
<1>1. /\ e \in Entry
      /\ conn'[e] = NoConn /\ servers'[e] = {}
      /\ \A x \in Entry \ {e} :
           conn'[x] = conn[x] /\ servers'[x] = servers[x] /\ status'[x] = status[x]
      /\ status'[e] = status[e] \/ status'[e] \in {"error", "reconnecting"}
      /\ UNCHANGED <<tunnels, stoppedByUser>>
      /\ calls' = [calls EXCEPT ![k] = Idle]
  BY CallFailedEffect
<1>2. ASSUME NEW x \in Entry PROVE Faithful(x)'
  <2>1. CASE x = e BY <1>1, <2>1, LeftDown
  <2>2. CASE x # e
    <3>1. SettingUp(x) => SettingUp(x)' BY <1>1, <2>2, SettingUpKept
    <3>2. QED BY <1>1, <2>2, <3>1, Undisturbed
  <2>3. QED BY <2>1, <2>2
<1>3. ASSUME NEW t \in Tunnel, tunnels'[t] # NoEntry PROVE status'[tunnels'[t]] # "none"
  <2>1. tunnels'[t] = tunnels[t] /\ tunnels[t] \in Entry BY <1>1, <1>3 DEF TypeOK
  <2>2. QED BY <1>1, <1>3, <2>1
<1>4. QED BY <1>2, <1>3

\* Stopping what is in the map leaves every entry faithful.
LEMMA StopFaithful ==
  ASSUME IInv, NEW es \in SUBSET Entry, StopEntries(es),
         \/ MarkStopped(es)
         \/ status' = status /\ \A e \in es : status[e] # "none"
  PROVE  Strengthening'
<1> USE DEF IInv, Strengthening
<1>1. /\ \A e \in es : conn'[e] = NoConn /\ servers'[e] = {} /\ stoppedByUser'[e]
      /\ \A e \in Entry \ es :
           /\ conn'[e] = conn[e]
           /\ servers'[e] = servers[e]
           /\ stoppedByUser'[e] = stoppedByUser[e]
      /\ UNCHANGED <<tunnels, calls>>
  BY StopEffect
<1>2. \A x \in Entry : SettingUp(x) => SettingUp(x)' BY <1>1 DEF SettingUp
<1>3. /\ \A e \in es : status'[e] = "stopped" \/ (status'[e] = status[e] /\ status[e] # "none")
      /\ \A e \in Entry \ es : status'[e] = status[e]
  BY DEF MarkStopped
<1>4. ASSUME NEW x \in Entry PROVE Faithful(x)'
  <2>1. CASE x \in es BY <1>1, <1>3, <2>1 DEF Faithful, Down
  <2>2. CASE x \notin es BY <1>1, <1>2, <1>3, <2>2, Undisturbed
  <2>3. QED BY <2>1, <2>2
<1>5. ASSUME NEW t \in Tunnel, tunnels'[t] # NoEntry PROVE status'[tunnels'[t]] # "none"
  <2>1. tunnels'[t] = tunnels[t] /\ tunnels[t] \in Entry BY <1>1, <1>5 DEF TypeOK
  <2>2. QED BY <1>3, <1>5, <2>1
<1>6. QED BY <1>4, <1>5

\* Steps that change neither an entry nor the map, and no call in its setup.
LEMMA EntriesUntouched ==
  ASSUME IInv, UNCHANGED <<tunnels, status, stoppedByUser, conn, servers>>,
         \A x \in Entry : SettingUp(x) => SettingUp(x)'
  PROVE  Strengthening'
<1>1. ASSUME NEW x \in Entry PROVE Faithful(x)'
  BY Undisturbed DEF IInv, Strengthening
<1>2. QED BY <1>1 DEF IInv, Strengthening

\* Every step preserves the strengthening.
LEMMA StrengtheningStep == IInv /\ [Next]_vars => Strengthening'
<1> SUFFICES ASSUME IInv, [Next]_vars PROVE Strengthening'
  OBVIOUS
<1> USE DEF IInv
<1>1. ASSUME NEW k \in Call, NEW t \in Tunnel, StartCalled(k, t) PROVE Strengthening'
  <2>1. calls[k].at # "setup" BY <1>1 DEF StartCalled, Idle
  <2>2. \A x \in Entry : SettingUp(x) => SettingUp(x)'
    BY <1>1, <2>1, SettingUpKept DEF StartCalled
  <2>3. QED BY <1>1, <2>2, EntriesUntouched DEF StartCalled, entryVars
<1>2. ASSUME NEW k \in Call, StartUnresolved(k) PROVE Strengthening'
  <2>1. \A x \in Entry : SettingUp(x) => SettingUp(x)'
    BY <1>2, SettingUpKept DEF StartUnresolved, Return
  <2>2. QED BY <1>2, <2>1, EntriesUntouched DEF StartUnresolved, entryVars
<1>3. ASSUME NEW k \in Call, NEW e \in Entry, NEW r \in Rule, StartResolved(k, e, r)
      PROVE  Strengthening'
  <2> DEFINE old == {calls[k].existing} \ {NoEntry}
  <2>1. old \in SUBSET Entry /\ calls[k].tunnel \in Tunnel
    BY <1>3, CallFields DEF StartResolved
  <2>2. Teardown(old, FALSE, socket) BY <1>3 DEF StartResolved
  <2>3. socket \in [Conn -> SocketState] BY DEF TypeOK
  <2>4. /\ \A x \in old : conn'[x] = NoConn /\ servers'[x] = {}
        /\ \A x \in Entry \ old : conn'[x] = conn[x] /\ servers'[x] = servers[x]
    BY <2>1, <2>2, <2>3, TeardownEffect
  <2>5. /\ \A x \in Entry \ {e} : status'[x] = status[x]
        /\ status'[e] = "starting"
        /\ UNCHANGED stoppedByUser
        /\ tunnels' = [tunnels EXCEPT ![calls[k].tunnel] = e]
    BY <1>3 DEF StartResolved, TypeOK
  <2>6. \A x \in Entry : SettingUp(x) => SettingUp(x)'
    BY <1>3, SettingUpKept DEF StartResolved
  <2>7. ASSUME NEW x \in Entry PROVE Faithful(x)'
    <3>1. CASE x = e BY <2>5, <3>1 DEF Faithful
    <3>2. CASE x # e /\ x \in old BY <2>4, <2>5, <3>2, LeftDown DEF Strengthening
    <3>3. CASE x # e /\ x \notin old BY <2>4, <2>5, <2>6, <3>3, Undisturbed DEF Strengthening
    <3>4. QED BY <3>1, <3>2, <3>3
  <2>8. ASSUME NEW t \in Tunnel, tunnels'[t] # NoEntry PROVE status'[tunnels'[t]] # "none"
    <3>1. CASE t = calls[k].tunnel BY <2>1, <2>5, <3>1 DEF TypeOK
    <3>2. CASE t # calls[k].tunnel
      <4>1. tunnels'[t] = tunnels[t] /\ tunnels[t] \in Entry
        BY <2>1, <2>5, <2>8, <3>2 DEF TypeOK
      <4>2. QED BY <2>5, <2>8, <4>1 DEF Strengthening
    <3>3. QED BY <3>1, <3>2
  <2>9. QED BY <2>7, <2>8 DEF Strengthening
<1>4. ASSUME NEW e \in Entry, ReconnectDue(e) PROVE Strengthening'
  <2>1. PICK k \in Call :
          /\ calls[k] = Idle
          /\ calls' = [calls EXCEPT ![k] = [at |-> "resolve", kind |-> "restart", entry |-> e]]
    BY <1>4 DEF ReconnectDue
  <2>2. calls[k].at # "setup" BY <2>1 DEF Idle
  <2>3. \A x \in Entry : SettingUp(x) => SettingUp(x)' BY <2>1, <2>2, SettingUpKept
  <2>4. /\ status'[e] = "starting"
        /\ \A x \in Entry \ {e} : status'[x] = status[x] /\ stoppedByUser'[x] = stoppedByUser[x]
        /\ UNCHANGED <<tunnels, conn, servers>>
    BY <1>4 DEF ReconnectDue, TypeOK
  <2>5. ASSUME NEW x \in Entry PROVE Faithful(x)'
    <3>1. CASE x = e BY <2>4, <3>1 DEF Faithful
    <3>2. CASE x # e BY <2>3, <2>4, <3>2, Undisturbed DEF Strengthening
    <3>3. QED BY <3>1, <3>2
  <2>6. \A t \in Tunnel : tunnels'[t] # NoEntry => status'[tunnels'[t]] # "none"
    BY <2>4 DEF Strengthening, TypeOK
  <2>7. QED BY <2>5, <2>6 DEF Strengthening
<1>5. ASSUME NEW e \in Entry, ReconnectCancelled(e) PROVE Strengthening'
  <2>1. \A x \in Entry : SettingUp(x) => SettingUp(x)'
    BY <1>5 DEF ReconnectCancelled, SettingUp
  <2>2. QED BY <1>5, <2>1, EntriesUntouched DEF ReconnectCancelled, entryVars
<1>6. ASSUME NEW k \in Call, NEW r \in Rule, RestartResolved(k, r) PROVE Strengthening'
  <2>1. \A x \in Entry : SettingUp(x) => SettingUp(x)'
    BY <1>6, SettingUpKept DEF RestartResolved
  <2>2. QED BY <1>6, <2>1, EntriesUntouched DEF RestartResolved, entryVars
<1>7. ASSUME NEW k \in Call, RestartUnresolved(k) PROVE Strengthening'
  BY <1>7, CallFailedFaithful DEF RestartUnresolved
<1>8. ASSUME NEW k \in Call, ConnectFailed(k) PROVE Strengthening'
  BY <1>8, CallFailedFaithful DEF ConnectFailed
<1>9. ASSUME NEW k \in Call, NEW c \in Conn, ConnectedTooLate(k, c) PROVE Strengthening'
  <2>1. \A x \in Entry : SettingUp(x) => SettingUp(x)'
    BY <1>9, SettingUpKept DEF ConnectedTooLate, Return
  <2>2. QED BY <1>9, <2>1, EntriesUntouched DEF ConnectedTooLate, entryVars
<1>10. ASSUME NEW k \in Call, NEW c \in Conn, Connected(k, c) PROVE Strengthening'
  <2> DEFINE e == calls[k].entry
  <2>1. e \in Entry /\ ~stoppedByUser[e] /\ calls[k].at = "connect"
    BY <1>10, CallFields DEF Connected
  <2>2. /\ UNCHANGED <<tunnels, status, stoppedByUser, servers>>
        /\ \A x \in Entry \ {e} : conn'[x] = conn[x]
    BY <1>10, <2>1 DEF Connected, TakeClient, TypeOK
  <2>3. ASSUME NEW x \in Entry, x = e PROVE SettingUp(x)'
    <3>1. calls'[k].at = "setup" /\ calls'[k].entry = x
      BY <1>10, <2>3 DEF Connected, TypeOK
    <3>2. QED BY <3>1 DEF SettingUp
  <2>4. \A x \in Entry : SettingUp(x) => SettingUp(x)'
    BY <1>10, <2>1, SettingUpKept DEF Connected
  <2>5. ASSUME NEW x \in Entry PROVE Faithful(x)'
    <3>1. CASE x = e BY <2>1, <2>2, <2>3, <3>1 DEF Faithful, Strengthening, Down
    <3>2. CASE x # e BY <2>2, <2>4, <3>2, Undisturbed DEF Strengthening
    <3>3. QED BY <3>1, <3>2
  <2>6. QED BY <2>2, <2>5 DEF Strengthening
<1>11. ASSUME NEW k \in Call, StartLostRace(k) PROVE Strengthening'
  <2> DEFINE e == calls[k].entry
  <2>1. e \in Entry BY <1>11, CallFields DEF StartLostRace
  <2>2. Teardown({e}, FALSE, socket) BY <1>11 DEF StartLostRace
  <2>3. socket \in [Conn -> SocketState] BY DEF TypeOK
  <2>4. /\ conn'[e] = NoConn /\ servers'[e] = {}
        /\ \A x \in Entry \ {e} : conn'[x] = conn[x] /\ servers'[x] = servers[x]
    BY <2>1, <2>2, <2>3, TeardownOneEffect
  <2>5. UNCHANGED <<tunnels, status, stoppedByUser>> BY <1>11 DEF StartLostRace
  <2>6. ASSUME NEW x \in Entry PROVE Faithful(x)'
    <3>1. CASE x = e BY <2>4, <2>5, <3>1, LeftDown DEF Strengthening
    <3>2. CASE x # e
      <4>1. SettingUp(x) => SettingUp(x)'
        BY <1>11, <3>2, SettingUpKept DEF StartLostRace, Return
      <4>2. QED BY <2>4, <2>5, <3>2, <4>1, Undisturbed DEF Strengthening
    <3>3. QED BY <3>1, <3>2
  <2>7. QED BY <2>5, <2>6 DEF Strengthening
<1>12. ASSUME NEW k \in Call, StartForwarding(k) \/ RestartForwarding(k) PROVE Strengthening'
  <2> DEFINE e == calls[k].entry
  <2>1. e \in Entry BY <1>12, CallFields DEF StartForwarding, RestartForwarding
  <2>2. /\ status'[e] = "active"
        /\ \A x \in Entry \ {e} : status'[x] = status[x] /\ servers'[x] = servers[x]
        /\ UNCHANGED <<tunnels, stoppedByUser, conn>>
        /\ calls' = [calls EXCEPT ![k] = Idle]
    BY <1>12, <2>1 DEF StartForwarding, RestartForwarding, Return, TypeOK
  <2>3. ASSUME NEW x \in Entry PROVE Faithful(x)'
    <3>1. CASE x = e BY <2>2, <3>1 DEF Faithful
    <3>2. CASE x # e
      <4>1. SettingUp(x) => SettingUp(x)' BY <2>2, <3>2, SettingUpKept
      <4>2. QED BY <2>2, <3>2, <4>1, Undisturbed DEF Strengthening
    <3>3. QED BY <3>1, <3>2
  <2>4. \A t \in Tunnel : tunnels'[t] # NoEntry => status'[tunnels'[t]] # "none"
    BY <2>2 DEF Strengthening, TypeOK
  <2>5. QED BY <2>3, <2>4 DEF Strengthening
<1>13. ASSUME NEW k \in Call, ForwardingFailed(k) PROVE Strengthening'
  BY <1>13, CallFailedFaithful DEF ForwardingFailed
<1>14. ASSUME NEW c \in Conn, ConnError(c) \/ ConnClose(c) PROVE Strengthening'
  <2> DEFINE e == handlers[c]
  <2>1. UNCHANGED <<tunnels, calls>> BY <1>14 DEF ConnError, ConnClose
  <2>2. \A x \in Entry : SettingUp(x) => SettingUp(x)' BY <2>1 DEF SettingUp
  <2>3. CASE UNCHANGED entryVars
    BY <2>1, <2>2, <2>3, EntriesUntouched DEF entryVars
  <2>4. CASE /\ e \in Entry
             /\ conn'[e] = NoConn /\ servers'[e] = {}
             /\ \A x \in Entry \ {e} :
                  conn'[x] = conn[x] /\ servers'[x] = servers[x] /\ status'[x] = status[x]
             /\ status'[e] \in {"error", "reconnecting"}
             /\ UNCHANGED stoppedByUser
    <3>1. ASSUME NEW x \in Entry PROVE Faithful(x)'
      <4>1. CASE x = e BY <2>4, <4>1, LeftDown DEF Strengthening
      <4>2. CASE x # e BY <2>2, <2>4, <4>2, Undisturbed DEF Strengthening
      <4>3. QED BY <4>1, <4>2
    <3>2. \A t \in Tunnel : tunnels'[t] # NoEntry => status'[tunnels'[t]] # "none"
      BY <2>1, <2>4 DEF Strengthening, TypeOK
    <3>3. QED BY <3>1, <3>2 DEF Strengthening
  <2>5. CASE ConnError(c)
    <3>1. e \in Entry /\ Fail(e) BY <2>5 DEF ConnError, TypeOK
    <3>2. status'[e] = "error" /\ \A x \in Entry \ {e} : status'[x] = status[x]
      BY <3>1, FailEffect DEF TypeOK
    <3>3. QED BY <2>4, <3>1, <3>2, FailEffect
  <2>6. CASE ConnClose(c) /\ ~UNCHANGED entryVars
    <3> DEFINE now == [socket EXCEPT ![c] = "closed"]
    <3>1. e \in Entry /\ Teardown({e}, TRUE, now) /\ ScheduleReconnect(e) /\ UNCHANGED stoppedByUser
      BY <2>6 DEF ConnClose, TypeOK
    <3>2. now \in [Conn -> SocketState] BY DEF TypeOK, SocketState
    <3>3. /\ conn'[e] = NoConn /\ servers'[e] = {}
          /\ \A x \in Entry \ {e} : conn'[x] = conn[x] /\ servers'[x] = servers[x]
      BY <3>1, <3>2, TeardownOneEffect
    <3>4. /\ status'[e] \in {"error", "reconnecting"}
          /\ \A x \in Entry \ {e} : status'[x] = status[x]
      BY <3>1, ScheduleEffect
    <3>5. QED BY <2>4, <3>1, <3>3, <3>4
  <2>7. QED BY <1>14, <2>3, <2>5, <2>6
<1>15. ASSUME NEW t \in Tunnel, Stop(t) PROVE Strengthening'
  <2>1. {tunnels[t]} \in SUBSET Entry BY <1>15 DEF Stop, TypeOK
  <2>2. QED BY <1>15, <2>1, StopFaithful DEF Stop
<1>16. ASSUME StopAll PROVE Strengthening'
  <2>1. InMap \in SUBSET Entry BY DEF InMap, TypeOK
  <2>2. QED BY <1>16, <2>1, StopFaithful DEF StopAll
<1>17. ASSUME WillQuit PROVE Strengthening'
  <2>1. InMap \in SUBSET Entry BY DEF InMap, TypeOK
  <2>2. \A e \in InMap : status[e] # "none" BY DEF InMap, Strengthening
  <2>3. QED BY <1>17, <2>1, <2>2, StopFaithful DEF WillQuit
<1>18. CASE UNCHANGED vars
  <2>1. \A x \in Entry : SettingUp(x) => SettingUp(x)' BY <1>18 DEF vars, SettingUp
  <2>2. QED BY <1>18, <2>1, EntriesUntouched DEF vars, entryVars
<1>19. QED
  BY <1>1, <1>2, <1>3, <1>4, <1>5, <1>6, <1>7, <1>8, <1>9, <1>10, <1>11, <1>12, <1>13,
     <1>14, <1>15, <1>16, <1>17, <1>18
  DEF Next, CallSettles, TimerFires

-------------------------------------------------------------------------------
(* No client is left behind unnoticed *)

\* Steps that leave the clients and what entries hold alone.
LEMMA ClientsUntouched ==
  ASSUME Owned, UNCHANGED <<conn, connVars>>
  PROVE  Owned'
  BY DEF Owned, connVars

\* A teardown ends the clients it takes from their entries.
LEMMA TeardownOwned ==
  ASSUME TypeOK, Owned, NEW es \in SUBSET Entry, NEW keep \in BOOLEAN,
         NEW now \in [Conn -> SocketState],
         \A c \in Conn : now[c] = "open" => socket[c] = "open",
         Teardown(es, keep, now)
  PROVE  Owned'
<1> SUFFICES ASSUME NEW c \in Conn, socket'[c] = "open", c \notin displaced'
             PROVE  handlers'[c] # NoEntry /\ conn'[handlers'[c]] = c
  BY DEF Owned
<1>1. /\ displaced' = displaced
      /\ socket'[c] = IF c \in {conn[e] : e \in es} /\ now[c] = "open" THEN "ended" ELSE now[c]
      /\ handlers'[c] = IF c \in {conn[e] : e \in es} /\ ~keep THEN NoEntry ELSE handlers[c]
  BY DEF Teardown
<1>2. now[c] = "open" /\ c \notin {conn[e] : e \in es} BY <1>1
<1>3. handlers[c] # NoEntry /\ conn[handlers[c]] = c BY <1>1, <1>2 DEF Owned
<1>4. handlers'[c] = handlers[c] /\ handlers[c] \in Entry BY <1>1, <1>2, <1>3 DEF TypeOK
<1>5. handlers[c] \notin es BY <1>2, <1>3
<1>6. conn'[handlers[c]] = conn[handlers[c]] BY <1>4, <1>5 DEF Teardown
<1>7. QED BY <1>3, <1>4, <1>6

\* The same of the teardown of a single entry as its sockets are.
LEMMA TeardownOneOwned ==
  ASSUME TypeOK, Owned, NEW e \in Entry, NEW keep \in BOOLEAN, Teardown({e}, keep, socket)
  PROVE  Owned'
<1>1. {e} \in SUBSET Entry /\ socket \in [Conn -> SocketState] BY DEF TypeOK
<1>2. \A c \in Conn : socket[c] = "open" => socket[c] = "open" OBVIOUS
<1>3. QED BY <1>1, <1>2, TeardownOwned

\* A call that fails leaves no client behind.
LEMMA CallFailedOwned ==
  ASSUME TypeOK, Owned, NEW k \in Call, CallFailed(k),
         calls[k].at \in {"resolve", "connect", "setup"},
         calls[k].at = "resolve" => calls[k].kind = "restart"
  PROVE  Owned'
<1>1. calls[k].entry \in Entry BY CallFields
<1>2. \E keep \in BOOLEAN : Teardown({calls[k].entry}, keep, socket)
  BY DEF CallFailed, Fail, RestartFailed
<1>3. QED BY <1>1, <1>2, TeardownOneOwned

\* Nor does a stop.
LEMMA StopOwned ==
  ASSUME TypeOK, Owned, NEW es \in SUBSET Entry, StopEntries(es)
  PROVE  Owned'
<1>1. Teardown(es, FALSE, socket) /\ socket \in [Conn -> SocketState]
  BY DEF StopEntries, TypeOK
<1>2. \A c \in Conn : socket[c] = "open" => socket[c] = "open" OBVIOUS
<1>3. QED BY <1>1, <1>2, TeardownOwned

\* Every step keeps the clients owned.
LEMMA OwnedStep == IInv /\ [Next]_vars => Owned'
<1> SUFFICES ASSUME IInv, [Next]_vars PROVE Owned'
  OBVIOUS
<1> USE DEF IInv
<1>1. ASSUME NEW k \in Call, NEW t \in Tunnel, StartCalled(k, t) PROVE Owned'
  BY <1>1, ClientsUntouched DEF StartCalled, entryVars
<1>2. ASSUME NEW k \in Call, StartUnresolved(k) PROVE Owned'
  BY <1>2, ClientsUntouched DEF StartUnresolved, entryVars
<1>3. ASSUME NEW k \in Call, NEW e \in Entry, NEW r \in Rule, StartResolved(k, e, r)
      PROVE  Owned'
  <2> DEFINE old == {calls[k].existing} \ {NoEntry}
  <2>1. old \in SUBSET Entry BY <1>3, CallFields DEF StartResolved
  <2>2. Teardown(old, FALSE, socket) /\ socket \in [Conn -> SocketState]
    BY <1>3 DEF StartResolved, TypeOK
  <2>3. \A c \in Conn : socket[c] = "open" => socket[c] = "open" OBVIOUS
  <2>4. QED BY <2>1, <2>2, <2>3, TeardownOwned
<1>4. ASSUME NEW e \in Entry, ReconnectDue(e) \/ ReconnectCancelled(e) PROVE Owned'
  BY <1>4, ClientsUntouched DEF ReconnectDue, ReconnectCancelled, entryVars
<1>5. ASSUME NEW k \in Call, NEW r \in Rule, RestartResolved(k, r) PROVE Owned'
  BY <1>5, ClientsUntouched DEF RestartResolved, entryVars
<1>6. ASSUME NEW k \in Call, RestartUnresolved(k) \/ ConnectFailed(k) \/ ForwardingFailed(k)
      PROVE  Owned'
  BY <1>6, CallFailedOwned DEF RestartUnresolved, ConnectFailed, ForwardingFailed
<1>7. ASSUME NEW k \in Call, NEW c \in Conn, ConnectedTooLate(k, c) PROVE Owned'
  <2>1. /\ socket' = [socket EXCEPT ![c] = "ended"]
        /\ UNCHANGED <<conn, handlers, displaced>>
    BY <1>7 DEF ConnectedTooLate, entryVars
  <2>2. \A d \in Conn : socket'[d] = "open" => socket[d] = "open" BY <2>1 DEF TypeOK
  <2>3. QED BY <2>1, <2>2 DEF Owned
<1>8. ASSUME NEW k \in Call, NEW c \in Conn, Connected(k, c) PROVE Owned'
  <2> DEFINE e == calls[k].entry
  <2>1. e \in Entry /\ TakeClient(e, c) BY <1>8, CallFields DEF Connected
  <2>2. /\ conn'[e] = c /\ handlers'[c] = e
        /\ \A x \in Entry \ {e} : conn'[x] = conn[x]
        /\ \A d \in Conn \ {c} : socket'[d] = socket[d] /\ handlers'[d] = handlers[d]
        /\ displaced' = displaced \cup ({conn[e]} \ {NoConn})
    BY <2>1 DEF TakeClient, TypeOK
  <2>3. ASSUME NEW d \in Conn, socket'[d] = "open", d \notin displaced'
        PROVE  handlers'[d] # NoEntry /\ conn'[handlers'[d]] = d
    <3>1. CASE d = c BY <2>1, <2>2, <3>1, ConstantsAssumption
    <3>2. CASE d # c
      <4>1. socket[d] = "open" /\ d \notin displaced /\ handlers'[d] = handlers[d]
        BY <2>2, <2>3, <3>2
      <4>2. handlers[d] \in Entry /\ conn[handlers[d]] = d
        BY <4>1 DEF Owned, TypeOK
      <4>3. handlers[d] # e BY <2>2, <2>3, <4>2, ConstantsAssumption
      <4>4. QED BY <2>2, <4>1, <4>2, <4>3, ConstantsAssumption
    <3>3. QED BY <3>1, <3>2
  <2>4. QED BY <2>3 DEF Owned
<1>9. ASSUME NEW k \in Call, StartLostRace(k) PROVE Owned'
  <2>1. calls[k].entry \in Entry /\ Teardown({calls[k].entry}, FALSE, socket)
    BY <1>9, CallFields DEF StartLostRace
  <2>2. QED BY <2>1, TeardownOneOwned
<1>10. ASSUME NEW k \in Call, StartForwarding(k) \/ RestartForwarding(k) PROVE Owned'
  BY <1>10, ClientsUntouched DEF StartForwarding, RestartForwarding
<1>11. ASSUME NEW c \in Conn, ConnError(c) PROVE Owned'
  <2>1. handlers[c] \in Entry /\ Teardown({handlers[c]}, FALSE, socket)
    BY <1>11 DEF ConnError, Fail, TypeOK
  <2>2. QED BY <2>1, TeardownOneOwned
<1>12. ASSUME NEW c \in Conn, ConnClose(c) PROVE Owned'
  <2> DEFINE now == [socket EXCEPT ![c] = "closed"]
  <2>1. /\ now \in [Conn -> SocketState]
        /\ \A d \in Conn : now[d] = "open" => socket[d] = "open"
    BY DEF TypeOK, SocketState
  <2>2. CASE socket' = now /\ UNCHANGED <<entryVars, handlers, displaced>>
    BY <2>1, <2>2 DEF Owned, entryVars
  <2>3. CASE handlers[c] # NoEntry /\ Teardown({handlers[c]}, TRUE, now)
    <3>1. {handlers[c]} \in SUBSET Entry BY <2>3 DEF TypeOK
    <3>2. QED BY <2>1, <2>3, <3>1, TeardownOwned
  <2>4. QED BY <1>12, <2>2, <2>3 DEF ConnClose
<1>13. ASSUME NEW t \in Tunnel, Stop(t) PROVE Owned'
  <2>1. {tunnels[t]} \in SUBSET Entry BY <1>13 DEF Stop, TypeOK
  <2>2. QED BY <1>13, <2>1, StopOwned DEF Stop
<1>14. ASSUME StopAll \/ WillQuit PROVE Owned'
  <2>1. InMap \in SUBSET Entry BY DEF InMap, TypeOK
  <2>2. QED BY <1>14, <2>1, StopOwned DEF StopAll, WillQuit
<1>15. CASE UNCHANGED vars
  BY <1>15, ClientsUntouched DEF vars, entryVars
<1>16. QED
  BY <1>1, <1>2, <1>3, <1>4, <1>5, <1>6, <1>7, <1>8, <1>9, <1>10, <1>11, <1>12, <1>13,
     <1>14, <1>15
  DEF Next, CallSettles, TimerFires

\* The inductive invariant holds throughout.
THEOREM InductiveInvariant == Spec => []IInv
<1>1. Init => IInv
  <2>1. Init => Strengthening /\ Owned BY DEF Init, Strengthening, Faithful, Owned
  <2>2. QED BY <2>1, InitType DEF IInv
<1>2. IInv /\ [Next]_vars => IInv' BY TypeStep, StrengtheningStep, OwnedStep DEF IInv
<1>3. QED BY <1>1, <1>2, PTL DEF Spec

\* A tunnel that reads 'stopped' holds nothing, one that reads 'error' holds
\* nothing once its calls have settled (_teardown on every error path of start()
\* and _restart(), and start()'s second look after _setupForwarding), and every
\* open client is the one its entry holds, unless the client of another
\* _restart() took its place.
THEOREM StatusCorrect == Spec => []StatusTellsTheTruth
<1>1. IInv => StatusTellsTheTruth
  <2>1. ASSUME IInv, NEW e \in Entry
        PROVE  /\ status[e] = "stopped" => Down(e)
               /\ status[e] = "error" /\ Quiet(e) => Down(e)
    <3>1. SettingUp(e) => ~Quiet(e) BY DEF SettingUp, Quiet, InFlight
    <3>2. QED BY <2>1, <3>1 DEF IInv, Strengthening, Faithful, Down
  <2>2. QED BY <2>1 DEF StatusTellsTheTruth, IInv, Owned
<1>2. QED BY <1>1, InductiveInvariant, PTL

-------------------------------------------------------------------------------
(* A stopped tunnel stays down *)

\* What a step may not do to a stopped entry no call works on.
Dormant(e) ==
  stoppedByUser[e] /\ Quiet(e) =>
    /\ conn'[e] \in {conn[e], NoConn}
    /\ servers'[e] \subseteq servers[e]
    /\ status'[e] # status[e] => status'[e] \notin InUse

\* A call that works on an entry keeps it from being quiet.
LEMMA BusyEntry ==
  ASSUME TypeOK, NEW k \in Call, NEW x \in Entry,
         \/ calls[k].at \in {"connect", "setup"}
         \/ calls[k].at = "resolve" /\ calls[k].kind = "restart",
         calls[k].entry = x
  PROVE  ~Quiet(x)
  BY DEF Quiet, InFlight, Restarting

\* No step wakes a dormant entry.
LEMMA DormantStep == IInv /\ [Next]_vars => \A x \in Entry : Dormant(x)
<1> SUFFICES ASSUME IInv, [Next]_vars, NEW x \in Entry, stoppedByUser[x], Quiet(x)
             PROVE  /\ conn'[x] \in {conn[x], NoConn}
                    /\ servers'[x] \subseteq servers[x]
                    /\ status'[x] # status[x] => status'[x] \notin InUse
  BY DEF Dormant
<1> USE DEF IInv
<1>1. CASE UNCHANGED <<status, conn, servers>>
  BY <1>1
<1>2. ASSUME NEW k \in Call, CallFailed(k),
             calls[k].at \in {"resolve", "connect", "setup"},
             calls[k].at = "resolve" => calls[k].kind = "restart"
      PROVE  /\ conn'[x] = conn[x] /\ servers'[x] = servers[x]
             /\ status'[x] = status[x]
  <2>1. calls[k].entry # x BY <1>2, BusyEntry
  <2>2. QED BY <1>2, <2>1, CallFailedEffect
<1>3. ASSUME NEW k \in Call, NEW e \in Entry, NEW r \in Rule, StartResolved(k, e, r)
      PROVE  /\ conn'[x] \in {conn[x], NoConn}
             /\ servers'[x] \subseteq servers[x]
             /\ status'[x] = status[x]
  <2>1. x # e BY <1>3 DEF StartResolved, Strengthening, Faithful
  <2>2. status'[x] = status[x] BY <1>3, <2>1 DEF StartResolved, TypeOK
  <2>3. Teardown({calls[k].existing} \ {NoEntry}, FALSE, socket) BY <1>3 DEF StartResolved
  <2>4. conn'[x] \in {conn[x], NoConn} /\ servers'[x] \subseteq servers[x]
    BY <2>3 DEF Teardown
  <2>5. QED BY <2>2, <2>4
<1>4. ASSUME NEW e \in Entry, ReconnectDue(e)
      PROVE  conn' = conn /\ servers' = servers /\ status'[x] = status[x]
  <2>1. x # e BY <1>4 DEF ReconnectDue
  <2>2. QED BY <1>4, <2>1 DEF ReconnectDue, TypeOK
<1>5. ASSUME NEW k \in Call, NEW c \in Conn, Connected(k, c)
      PROVE  conn'[x] = conn[x] /\ servers' = servers /\ status' = status
  BY <1>5 DEF Connected, TakeClient, TypeOK
<1>6. ASSUME NEW k \in Call, StartLostRace(k)
      PROVE  /\ conn'[x] \in {conn[x], NoConn}
             /\ servers'[x] \subseteq servers[x]
             /\ status' = status
  BY <1>6 DEF StartLostRace, Teardown
<1>7. ASSUME NEW k \in Call, StartForwarding(k) \/ RestartForwarding(k)
      PROVE  conn' = conn /\ servers'[x] = servers[x] /\ status'[x] = status[x]
  <2>1. calls[k].entry # x BY <1>7, BusyEntry DEF StartForwarding, RestartForwarding
  <2>2. QED BY <1>7, <2>1 DEF StartForwarding, RestartForwarding, TypeOK
<1>8. ASSUME NEW c \in Conn, ConnError(c)
      PROVE  /\ conn'[x] \in {conn[x], NoConn}
             /\ servers'[x] \subseteq servers[x]
             /\ status'[x] # status[x] => status'[x] \notin InUse
  <2>1. Fail(handlers[c]) BY <1>8 DEF ConnError
  <2>2. conn'[x] \in {conn[x], NoConn} /\ servers'[x] \subseteq servers[x]
    BY <2>1 DEF Fail, Teardown
  <2>3. status'[x] = status[x] \/ status'[x] = "error" BY <2>1 DEF Fail, TypeOK
  <2>4. QED BY <2>2, <2>3 DEF InUse
<1>9. ASSUME NEW c \in Conn, ConnClose(c)
      PROVE  conn'[x] = conn[x] /\ servers'[x] = servers[x] /\ status'[x] = status[x]
  <2>1. CASE UNCHANGED entryVars BY <2>1 DEF entryVars
  <2>2. CASE /\ handlers[c] \in Entry /\ HeedsClose(handlers[c])
             /\ Teardown({handlers[c]}, TRUE, [socket EXCEPT ![c] = "closed"])
             /\ ScheduleReconnect(handlers[c])
    <3>1. handlers[c] # x BY <2>2 DEF HeedsClose
    <3>2. QED BY <2>2, <3>1, ScheduleEffect DEF Teardown
  <2>3. QED BY <1>9, <2>1, <2>2 DEF ConnClose, TypeOK
<1>10. ASSUME NEW es \in SUBSET Entry, StopEntries(es), MarkStopped(es) \/ status' = status
      PROVE  /\ conn'[x] \in {conn[x], NoConn}
             /\ servers'[x] \subseteq servers[x]
             /\ status'[x] # status[x] => status'[x] \notin InUse
  BY <1>10 DEF StopEntries, Teardown, MarkStopped, InUse
<1>11. InMap \in SUBSET Entry BY DEF InMap, TypeOK
<1>12. ASSUME NEW k \in Call, CallSettles(k)
       PROVE  /\ conn'[x] \in {conn[x], NoConn}
              /\ servers'[x] \subseteq servers[x]
              /\ status'[x] = status[x]
  <2>1. CASE StartUnresolved(k) \/ \E r \in Rule : RestartResolved(k, r)
    BY <2>1 DEF StartUnresolved, RestartResolved, entryVars
  <2>2. CASE RestartUnresolved(k) \/ ConnectFailed(k) \/ ForwardingFailed(k)
    BY <1>2, <2>2 DEF RestartUnresolved, ConnectFailed, ForwardingFailed
  <2>3. CASE \E c \in Conn : ConnectedTooLate(k, c)
    BY <2>3 DEF ConnectedTooLate, entryVars
  <2>4. QED BY <1>3, <1>5, <1>6, <1>7, <1>12, <2>1, <2>2, <2>3 DEF CallSettles
<1>13. ASSUME NEW e \in Entry, TimerFires(e)
       PROVE  conn' = conn /\ servers' = servers /\ status'[x] = status[x]
  BY <1>4, <1>13 DEF TimerFires, ReconnectCancelled, entryVars
<1>14. ASSUME NEW k \in Call, NEW t \in Tunnel, StartCalled(k, t)
       PROVE  UNCHANGED <<status, conn, servers>>
  BY <1>14 DEF StartCalled, entryVars
<1>15. ASSUME NEW t \in Tunnel, Stop(t)
       PROVE  \E es \in SUBSET Entry : StopEntries(es) /\ MarkStopped(es)
  <2>1. {tunnels[t]} \in SUBSET Entry BY <1>15 DEF Stop, TypeOK
  <2>2. QED BY <1>15, <2>1 DEF Stop
<1>16. CASE UNCHANGED vars BY <1>16 DEF vars, entryVars
<1>17. CASE StopAll \/ WillQuit
  BY <1>10, <1>11, <1>17 DEF StopAll, WillQuit
<1>18. QED
  BY <1>1, <1>8, <1>9, <1>10, <1>12, <1>13, <1>14, <1>15, <1>16, <1>17 DEF Next

\* Once stopped and with no call at work, an entry acquires no connection, no
\* listener and no status in use: stray timers are cancelled by stoppedByUser,
\* late 'close' events are not heeded, and start() takes a new entry.
THEOREM StoppedStaysDown == Spec => NoResurrection
<1>1. IInv /\ [Next]_vars =>
        [\A e \in Entry :
           stoppedByUser[e] /\ Quiet(e) =>
             /\ conn'[e] \in {conn[e], NoConn}
             /\ servers'[e] \subseteq servers[e]
             /\ status'[e] # status[e] => status'[e] \notin InUse]_vars
  BY DormantStep DEF Dormant
<1>2. QED BY <1>1, InductiveInvariant, PTL DEF Spec, NoResurrection

===============================================================================
