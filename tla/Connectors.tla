---------------------------------- MODULE Connectors ----------------------------------
(*****************************************************************************)
(* One use of a connector: a session of the user, or a command of the AI,    *)
(* with all the connections it opens (ssh.connector.js, telnet.connector.js, *)
(* serial.connector.js, winRM.connector.js, local.js, proxyService.js).      *)
(*                                                                           *)
(* A session is registered by the handler of its plugin when connect() has   *)
(* resolved, and closed by the handler of session.close; when connect()      *)
(* rejects the handler only reports it.  Which session an id means, and the  *)
(* questions about host keys, are the subject of TerminalSessions.           *)
(*****************************************************************************)
EXTENDS Naturals, FiniteSets

CONSTANT None

VARIABLES
  kind,    \* what the connector does
  via,     \* "direct", "http", "socks": the proxy of the profile, which only
           \* connect() uses: exec() drops it
  bastion, \* there is a jumper
  at,      \* how far it is
  open,    \* the connections that are open: "sock", "jumper", "conn"
  ending,  \* those that were asked to end
  held,    \* those the session could end: this.conn, this._jumperConn
  failure, \* the leg whose key was refused (collector.failure)
  timer,   \* the timer of the command is armed
  result,  \* what the promise was settled with, and by what
  listed,  \* the session is registered
  closed   \* the user has closed it

vars == <<kind, via, bastion, at, open, ending, held, failure, timer, result, listed,
          closed>>

Session == {"ssh", "telnet", "serial", "pty"} \* pty: WinRM and local
Command == {"sshExec", "telnetExec", "localExec"}
Ssh == {"ssh", "sshExec"}

Connection == {"sock", "jumper", "conn"}

Outcome == {"pending", "resolved", "rejected"}
Cause == {"reply", "error", "hostKey", "timer", "throw"}

Pending == [is |-> "pending", by |-> None]

TypeOK ==
  /\ kind \in Session \cup Command /\ via \in {"direct", "http", "socks"}
  /\ bastion \in BOOLEAN
  /\ at \in {"start", "proxy", "asked", "jumper", "forward", "target", "refused",
             "opening", "running", "up", "over"}
  /\ open \subseteq Connection /\ ending \subseteq open /\ held \subseteq Connection
  /\ failure \in {None, "jumper", "target"}
  /\ timer \in BOOLEAN /\ listed \in BOOLEAN /\ closed \in BOOLEAN
  /\ result \in [is : Outcome, by : Cause \cup {None}]

Init ==
  /\ kind \in Session \cup Command
  /\ via \in {"direct", "http", "socks"} /\ bastion \in BOOLEAN
  /\ via # "direct" => kind \in {"ssh", "telnet"}
  /\ bastion => kind \in Ssh
  /\ at = "start" /\ open = {} /\ ending = {} /\ held = {} /\ failure = None
  /\ timer = FALSE /\ result = Pending /\ listed = FALSE
  /\ closed = FALSE

setup == <<kind, via, bastion, closed>>
shape == <<kind, via, bastion>>

\* A promise is settled once.
Settles(is, by) ==
  result' = IF result = Pending THEN [is |-> is, by |-> by] ELSE result

\* What rides on a connection goes with it: the target on the sock of the proxy
\* or on a channel of the jumper.
Riding(lost) ==
  lost \cup (IF lost \cap {"sock", "jumper"} # {} THEN {"conn"} ELSE {})
       \cup (IF "conn" \in lost THEN {"sock"} ELSE {})

Lose(lost) == /\ open' = open \ Riding(lost)
              /\ ending' = ending \ Riding(lost)

\* A client that ends takes its socket with it.
End(which) ==
  ending' = ending \cup (open \cap (which \cup IF "conn" \in which THEN {"sock"} ELSE {}))

\* failHostKey(): an error of a handshake whose key was refused gets the code.
Coded == IF failure = None THEN "error" ELSE "hostKey"

\* A jumper is used when there is no sock of a proxy.
AfterProxy == IF bastion /\ via = "direct" THEN "jumper" ELSE "target"

-----------------------------------------------------------------------------
\* connect(): first the proxy; exec() has none.
Start ==
  /\ at = "start"
  /\ at' = IF via # "direct" THEN "proxy" ELSE AfterProxy
  /\ UNCHANGED <<setup, open, ending, held, failure, timer, result, listed>>

\* createSOCKSConnection()
SocksConnects ==
  /\ at = "proxy" /\ via = "socks"
  /\ \/ at' = AfterProxy /\ open' = {"sock"} /\ UNCHANGED result
     \/ at' = "over" /\ Settles("rejected", "error") /\ UNCHANGED open
  /\ UNCHANGED <<setup, ending, held, failure, timer, listed>>

\* createHTTPProxyConnection(): CONNECT is sent, and its answer awaited.
ProxyConnects ==
  /\ at = "proxy" /\ via = "http"
  /\ at' = "asked" /\ open' = {"sock"}
  /\ UNCHANGED <<setup, ending, held, failure, timer, result, listed>>

ProxyAnswers ==
  /\ at = "asked" /\ open # {}
  /\ \/ at' = AfterProxy /\ UNCHANGED <<open, ending, result>>
     \/ at' = "over" /\ Lose({"sock"}) /\ Settles("rejected", "error")
  /\ UNCHANGED <<setup, held, failure, timer, listed>>

\* An error, or 30 seconds of silence.
ProxyFails ==
  /\ via = "http" /\ at \in {"proxy", "asked"} /\ (at = "asked" => open # {})
  /\ at' = "over" /\ Lose({"sock"}) /\ Settles("rejected", "error")
  /\ UNCHANGED <<setup, held, failure, timer, listed>>

\* The proxy closes without an answer, which nobody listens for.
ProxyCloses ==
  /\ at = "asked" /\ open # {} /\ Lose({"sock"})
  /\ UNCHANGED <<setup, at, held, failure, timer, result, listed>>

-----------------------------------------------------------------------------
\* _connectRaw(): a jumper whose key is refused, or that fails, leaves nothing.
JumperFails ==
  /\ at = "jumper" /\ at' = "over"
  /\ \E f \in {None, "jumper"} :
       failure' = f /\ Settles("rejected", IF f = None THEN "error" ELSE "hostKey")
  /\ UNCHANGED <<setup, open, ending, held, timer, listed>>

\* connect() keeps the jumper in this._jumperConn.
JumperReady ==
  /\ at = "jumper" /\ at' = "forward"
  /\ open' = {"jumper"} /\ held' = IF kind = "ssh" THEN {"jumper"} ELSE {}
  /\ UNCHANGED <<setup, ending, failure, timer, result, listed>>

\* forwardOut()
Forwarded ==
  /\ at = "forward"
  /\ \/ at' = "target" /\ UNCHANGED <<ending, held, result>>
     \/ at' = "over" /\ End({"jumper"}) /\ held' = {} /\ Settles("rejected", "error")
  /\ UNCHANGED <<setup, open, failure, timer, listed>>

\* The client is made and connects; exec() arms its timer before.
Dial ==
  /\ at = "target" /\ "conn" \notin open
  /\ open' = open \cup {"conn"} /\ timer' = (kind = "sshExec")
  /\ UNCHANGED <<setup, at, ending, held, failure, result, listed>>

\* ssh2 refuses the configuration: the constructor of the promise throws.
DialThrows ==
  /\ at = "target" /\ kind \in Ssh /\ "conn" \notin open
  /\ at' = "over" /\ timer' = (kind = "sshExec") /\ Settles("rejected", "throw")
  /\ UNCHANGED <<setup, open, ending, held, failure, listed>>

\* hostVerifier() of the target.
KeyRefused ==
  /\ at = "target" /\ kind \in Ssh /\ "conn" \in open
  /\ at' = "refused" /\ failure' = "target"
  /\ UNCHANGED <<setup, open, ending, held, timer, result, listed>>

\* Mutant of Cleanup: the jumper of a command is forgotten.
CleanupTarget == End({"conn"})

\* cleanup() of a command: it ends what the command opened.
Cleanup == End({"conn", "jumper"})

\* What a command does when it settles; for a session, nothing ends.
Finish ==
  IF kind = "sshExec" /\ result = Pending THEN Cleanup /\ timer' = FALSE
  ELSE UNCHANGED <<ending, timer>>

\* The handshake ends with 'error', and the client is closed.
DialFails ==
  /\ at \in {"target", "refused"} /\ "conn" \in open /\ kind # "localExec"
  /\ at' = "over"
  /\ open' = open \ {"conn", "sock"}
  /\ IF kind = "sshExec" /\ result = Pending
       THEN ending' = (ending \cup {"jumper"}) \cap open' /\ timer' = FALSE
       ELSE ending' = ending \ {"conn", "sock"} /\ UNCHANGED timer
  /\ Settles("rejected", Coded)
  /\ UNCHANGED <<setup, held, failure, listed>>

\* 'ready': a shell or a channel for the command is asked for.
Ready ==
  /\ at = "target" /\ "conn" \in open
  /\ at' = IF kind \in Ssh THEN "opening" ELSE IF kind \in Session THEN "up" ELSE "running"
  /\ IF kind \in Session \ Ssh
       THEN Settles("resolved", "reply") /\ held' = {"conn"} /\ listed' = TRUE
       ELSE UNCHANGED <<result, held, listed>>
  /\ UNCHANGED <<setup, open, ending, failure, timer>>

\* conn.shell() or conn.exec() calls back with an error.
ChannelRefused ==
  /\ at = "opening" /\ at' = "over"
  /\ Finish /\ Settles("rejected", "error")
  /\ UNCHANGED <<setup, open, held, failure, listed>>

\* The session is up: the handler registers it.
ShellStarted ==
  /\ at = "opening" /\ kind = "ssh" /\ at' = "up"
  /\ held' = held \cup {"conn"} /\ Settles("resolved", "reply") /\ listed' = TRUE
  /\ UNCHANGED <<setup, open, ending, failure, timer>>

CommandStarted ==
  /\ at = "opening" /\ kind = "sshExec" /\ at' = "running"
  /\ UNCHANGED <<setup, open, ending, held, failure, timer, result, listed>>

\* The stream closes.  Telnet collects output until its own timer, and ends its
\* connection in a finally block; a local command ends, or is killed.
CommandEnds ==
  /\ at = "running" /\ at' = "over"
  /\ IF kind = "sshExec" THEN Finish ELSE End({"conn"}) /\ UNCHANGED timer
  /\ Settles("resolved", "reply")
  /\ UNCHANGED <<setup, open, held, failure, listed>>

\* The timer of exec(): the connection to the target ends.
TimerFires ==
  /\ timer /\ timer' = FALSE
  /\ IF result = Pending
       THEN End({"conn"}) /\ Settles("rejected", "timer") /\ at' = "over"
       ELSE UNCHANGED <<at, ending, result>>
  /\ UNCHANGED <<setup, open, held, failure, listed>>

-----------------------------------------------------------------------------
\* A connection closes: the far side closed it, it was asked to end, or the
\* idle timer of an HTTP proxy destroys it.  A session that loses its client
\* emits 'disconnect', which unregisters it; WinRM emits 'closed' instead.
ConnectionCloses ==
  /\ \E c \in open :
       /\ c \in ending \/ at \in {"up", "running", "opening", "over"}
       /\ Lose({c})
       /\ IF "conn" \in Riding({c}) /\ "conn" \in open
            THEN /\ held' = held \ {"conn"}
                 /\ listed' \in (IF kind = "pty" THEN {listed, FALSE} ELSE {FALSE})
                 /\ at' = IF at = "up" THEN "over" ELSE at
            ELSE UNCHANGED <<held, listed, at>>
  /\ UNCHANGED <<setup, failure, timer, result>>

\* session.close: the session ends what it holds.
CloseSession ==
  /\ listed /\ listed' = FALSE
  /\ End(held) /\ held' = {}
  /\ at' = "over" /\ closed' = TRUE
  /\ UNCHANGED <<shape, open, failure, timer, result>>

Next ==
  \/ Start \/ SocksConnects \/ ProxyConnects \/ ProxyAnswers \/ ProxyFails \/ ProxyCloses
  \/ JumperFails \/ JumperReady \/ Forwarded \/ Dial \/ DialThrows \/ KeyRefused
  \/ DialFails \/ Ready \/ ChannelRefused \/ ShellStarted \/ CommandStarted
  \/ CommandEnds \/ TimerFires \/ ConnectionCloses \/ CloseSession

-----------------------------------------------------------------------------
\* A command that was answered or failed leaves nothing open that is not on its
\* way out; excused are the timer of exec() and a throw, which leave the jumper.
CommandsLeaveNothing ==
  kind \in Command /\ result.by \in {"reply", "error", "hostKey"} => open \subseteq ending

\* Nor does a session the user closed.  One that lost its client before is
\* unregistered: nobody can end its jumper any more.
SessionsLeaveNothing ==
  closed => open \subseteq ending

\* Whoever must ask the user about a key is told so: a handshake that failed for
\* its key is rejected with the code, unless the timer of a command was faster.
RefusalIsTold ==
  failure # None /\ result # Pending => result.by \in {"hostKey", "timer"}

\* Why: nothing is settled, listed or ending before the use is up or over, and
\* what a session that is listed has open is what it holds.
Unsettled ==
  /\ at \notin {"up", "over"} => result = Pending /\ ~listed
  /\ at # "over" => ending = {} /\ ~closed
  /\ failure # None => at \in {"refused", "over"}
  /\ kind \in Command => at # "up"

Reached ==
  /\ via # "direct" => kind \in {"ssh", "telnet"}
  /\ bastion => kind \in Ssh
  /\ at \in {"jumper", "forward"} => via = "direct"
  /\ at \in {"jumper", "forward", "opening"} => kind \in Ssh
  /\ at \in {"start", "proxy", "jumper"} => open = {}
  /\ at = "asked" => open \subseteq {"sock"}
  /\ at = "forward" => open = {"jumper"}
  /\ "sock" \in open => via # "direct"
  /\ "jumper" \in open => kind \in Ssh
  /\ timer => kind = "sshExec"

WhatIsOpenIsHeld ==
  /\ listed => /\ kind \in Session /\ open \ {"sock"} \subseteq held
               /\ "sock" \in open => "conn" \in held
  /\ kind = "ssh" /\ at # "over" /\ "jumper" \in open => "jumper" \in held

IInv ==
  /\ TypeOK /\ Unsettled /\ Reached /\ WhatIsOpenIsHeld
  /\ CommandsLeaveNothing /\ SessionsLeaveNothing /\ RefusalIsTold
=============================================================================
