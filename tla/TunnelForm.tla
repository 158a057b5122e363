------------------------------- MODULE TunnelForm -------------------------------
(*****************************************************************************)
(* The dialog a tunnel is edited in (tunnel-form.component.ts, TunnelRule.ts)*)
(* and what the main process makes of the tunnel that was saved              *)
(* (tunnelRules.js; resolveTunnel() of runtimeAPI.js).                       *)
(*                                                                           *)
(* A text is a member of a small set: "" and " " as typed, a name with a     *)
(* blank around it or inside.  A bind host is typed, a remote bind chosen    *)
(* from a list.                                                              *)
(*****************************************************************************)
EXTENDS Integers

CONSTANTS
  Port,    \* numbers that can be typed for a port; 0 for none
  Profile  \* ids of SSH profiles

VARIABLES
  tunnel,  \* the tunnel in the dialog
  saved,   \* the one that was saved, or <<>>
  plan     \* what main connects and forwards, <<>> before it is asked to

vars == <<tunnel, saved, plan>>

Type == {"local", "remote", "dynamic"}
Hosts == {"", " ", "db", " db ", "d b"}
BindHosts == {"", "127.0.0.1", " LOCALHOST ", "10.0.0.5"}
RemoteBinds == {"127.0.0.1", "localhost", "::1", "0.0.0.0"}
Texts == {"", " ", "x"}

\* String.prototype.trim() and toLowerCase()
Trim(text) ==
  CASE text = " " -> "" [] text = " db " -> "db" [] text = " LOCALHOST " -> "localhost"
    [] OTHER -> text
HasBlank == {" ", " db ", "d b", " LOCALHOST "}

Connection == [mode : {"profile", "adhoc"}, profileId : Profile \cup {""}, host : Texts,
               authType : {"", "login", "secret"}, login : Texts, password : {"", "x"},
               secretId : {"", "x"}]
Rule == [type : Type, bindHost : BindHosts, localPort : Port, remoteHost : Hosts,
         remotePort : Port, remoteBind : RemoteBinds]

TypeOK ==
  /\ tunnel.rule \in Rule /\ tunnel.conn \in Connection
  /\ saved = <<>> \/ saved.rule \in Rule
  /\ plan = <<>> \/ plan.error \in BOOLEAN

\* newTunnel()
New == [rule |-> [type |-> "local", bindHost |-> "127.0.0.1", localPort |-> 0, remoteHost |-> "",
                  remotePort |-> 0, remoteBind |-> "127.0.0.1"],
        conn |-> [mode |-> "profile", profileId |-> "", host |-> "", authType |-> "",
                  login |-> "", password |-> "", secretId |-> ""]]

FilledRule == [New.rule EXCEPT !.type = "dynamic"]
FilledConnection == [New.conn EXCEPT !.mode = "adhoc", !.host = "x", !.login = "x", !.password = "x"]

\* One half of the dialog is filled in already: neither depends on the other.
Init ==
  /\ tunnel \in {[New EXCEPT !.rule = FilledRule], [New EXCEPT !.conn = FilledConnection]}
  /\ saved = <<>> /\ plan = <<>>

-----------------------------------------------------------------------------
\* The form.
Edits(half, new) ==
  /\ saved = <<>>
  /\ IF half = "rule" THEN tunnel.conn = FilledConnection ELSE tunnel.rule = FilledRule
  /\ tunnel' = new
  /\ UNCHANGED <<saved, plan>>

\* setType()
SetType(type) ==
  Edits("rule", [tunnel EXCEPT !.rule.type = type,
                               !.rule.remoteHost = IF type = "local" THEN @ ELSE "",
                               !.rule.remotePort = IF type = "dynamic" THEN 0 ELSE @])

\* The fields the type has.  onPortInput() makes an integer of what was typed.
EditRule ==
  \/ \E h \in BindHosts : Edits("rule", [tunnel EXCEPT !.rule.bindHost = h])
  \/ \E p \in Port : Edits("rule", [tunnel EXCEPT !.rule.localPort = p])
  \/ /\ tunnel.rule.type = "local"
     /\ \E h \in Hosts : Edits("rule", [tunnel EXCEPT !.rule.remoteHost = h])
  \/ /\ tunnel.rule.type # "dynamic"
     /\ \E p \in Port : Edits("rule", [tunnel EXCEPT !.rule.remotePort = p])
  \/ /\ tunnel.rule.type = "remote"
     /\ \E b \in RemoteBinds : Edits("rule", [tunnel EXCEPT !.rule.remoteBind = b])

EditConnection == \E conn \in Connection : Edits("conn", [tunnel EXCEPT !.conn = conn])

\* isValidPortNumber()
IsValidPortNumber(port) == port \in 1..65535

Loopback == {"", "127.0.0.1", "localhost", "::1"}

\* validateTunnelRule()
ForwardError(rule) ==
  \/ Trim(rule.bindHost) \notin Loopback
  \/ rule.type = "remote" /\ ~(/\ IsValidPortNumber(rule.localPort)
                               /\ IsValidPortNumber(rule.remotePort)
                               /\ Trim(rule.remoteBind) \in RemoteBinds \cup {""})
  \/ rule.type # "remote" /\ rule.localPort # 0 /\ ~IsValidPortNumber(rule.localPort)
  \/ rule.type = "local" /\ (Trim(rule.remoteHost) = "" \/ ~IsValidPortNumber(rule.remotePort))

\* connectionError(): the port of the server is not looked at
ConnectionError(conn) ==
  CASE conn.mode = "profile"    -> conn.profileId = ""
    [] conn.authType = "secret" -> Trim(conn.host) = "" \/ conn.secretId = ""
    [] OTHER -> Trim(conn.host) = "" \/ Trim(conn.login) = "" \/ conn.password = ""

\* onSave()
OnSave ==
  /\ saved = <<>> /\ ~ForwardError(tunnel.rule) /\ ~ConnectionError(tunnel.conn)
  /\ saved' = tunnel
  /\ UNCHANGED <<tunnel, plan>>

\* needsConnectionApproval(): what the dialog and the menu tell the user
NeedsConnectionApproval(rule) == rule.type = "remote" /\ rule.remoteBind = "0.0.0.0"

-----------------------------------------------------------------------------
\* The main process.
IsValidPort(port) == port \in 1..65535
IsValidRemoteHost(host) == host # "" /\ host \notin HasBlank

RuleError(raw) ==
  \/ raw.bindHost # "" /\ Trim(raw.bindHost) \notin Loopback
  \/ (raw.localPort # 0 \/ raw.type = "remote") /\ ~IsValidPort(raw.localPort)
  \/ raw.type = "local" /\ ~(IsValidRemoteHost(Trim(raw.remoteHost)) /\ IsValidPort(raw.remotePort))
  \/ raw.type = "remote" /\ ~IsValidPort(raw.remotePort)
  \/ raw.type = "remote" /\ raw.remoteBind # "" /\ Trim(raw.remoteBind) \notin RemoteBinds

\* normalizeTunnelRule()
Normalized(raw) ==
  [raw EXCEPT !.bindHost = IF @ = "" THEN "127.0.0.1" ELSE Trim(@),
              !.remoteHost = Trim(@),
              !.remoteBind = IF raw.type = "remote" /\ @ # "" THEN Trim(@) ELSE "127.0.0.1"]

\* _resolveTunnelSsh(), which asks for less than the form
SshError(conn) ==
  CASE conn.mode = "profile" -> conn.profileId = ""
    [] OTHER -> conn.host = "" \/ (conn.authType = "secret" /\ conn.secretId = "")

\* resolveTunnel()
ResolveTunnel ==
  /\ saved # <<>> /\ plan = <<>>
  /\ plan' = [error |-> RuleError(saved.rule) \/ SshError(saved.conn), rule |-> Normalized(saved.rule)]
  /\ UNCHANGED <<tunnel, saved>>

Next ==
  \/ \E type \in Type : SetType(type)
  \/ EditRule \/ EditConnection \/ OnSave \/ ResolveTunnel

Spec == Init /\ [][Next]_vars

-----------------------------------------------------------------------------
\* Main can start what the form let the user save, except for a remote host
\* with a blank inside, which only main refuses.
MainAccepts == plan # <<>> /\ plan.error => Trim(saved.rule.remoteHost) \in HasBlank

\* Main asks for approval of connections if the dialog said it would, whatever
\* types the rule had on the way; and local ends stay on loopback.
ApprovalShown ==
  plan # <<>> /\ ~plan.error =>
    /\ NeedsConnectionApproval(saved.rule) = (plan.rule.remoteBind = "0.0.0.0")
    /\ plan.rule.bindHost \in Loopback \ {""}
=============================================================================
