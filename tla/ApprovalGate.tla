------------------------------ MODULE ApprovalGate ------------------------------
(*****************************************************************************)
(* What the approval of inbound connections promises, whatever dialogs,      *)
(* timers and IPC messages implement it: a connection from outside is let    *)
(* in only on a tunnel bound to the loopback, from a source the user trusts  *)
(* at that moment, or by a decision of the user about that very connection;  *)
(* trust comes only from such a decision; what is settled stays settled.     *)
(*****************************************************************************)
CONSTANTS
  Request,      \* inbound channels
  Source,       \* where one may come from: the tunnel and the source address
  Anonymous,    \* the sources without an address, which are never trusted
  NoSource      \* the source of a channel that has not arrived

VARIABLES
  channel,   \* each channel: "none", "held", "accepted" or "rejected"
  source,    \* each channel's source, once it has arrived
  exposed,   \* the channels that came in through a public bind
  decided,   \* the decisions the user has taken: <<request, choice>>
  trusted    \* the sources trusted now

gateVars == <<channel, source, exposed, decided, trusted>>

Choice == {"deny", "once", "trust"}

GateInit ==
  /\ channel = [r \in Request |-> "none"]
  /\ source = [r \in Request |-> NoSource]
  /\ exposed = {}
  /\ decided = {}
  /\ trusted = {}

\* It is held until settled; only a loopback bind or trust lets it in at once.
Arrive(r, s, public) ==
  /\ channel[r] = "none"
  /\ source' = [source EXCEPT ![r] = s]
  /\ exposed' = IF public THEN exposed \cup {r} ELSE exposed
  /\ \/ channel' = [channel EXCEPT ![r] = "held"]
     \/ channel' = [channel EXCEPT ![r] = "rejected"]
     \/ /\ ~public \/ s \in trusted
        /\ channel' = [channel EXCEPT ![r] = "accepted"]
  /\ UNCHANGED <<decided, trusted>>

Decide(r, choice) ==
  /\ decided' = decided \cup {<<r, choice>>}
  /\ UNCHANGED <<channel, source, exposed, trusted>>

\* A held channel is accepted by the user's decision about it, which may also
\* trust its source.
Admit(r) ==
  /\ channel[r] = "held"
  /\ channel' = [channel EXCEPT ![r] = "accepted"]
  /\ \/ /\ <<r, "once">> \in decided
        /\ trusted' = trusted
     \/ /\ <<r, "trust">> \in decided
        /\ trusted' = trusted \cup ({source[r]} \ Anonymous)
  /\ UNCHANGED <<source, exposed, decided>>

\* Any held channel may be rejected at any time (fail closed).  A decision to
\* trust may take effect although its own channel is lost.
Refuse(r) ==
  /\ channel[r] = "held"
  /\ channel' = [channel EXCEPT ![r] = "rejected"]
  /\ \/ trusted' = trusted
     \/ /\ <<r, "trust">> \in decided
        /\ trusted' = trusted \cup ({source[r]} \ Anonymous)
  /\ UNCHANGED <<source, exposed, decided>>

\* Trust expires, or tunnels go down: sources are forgotten, channels rejected.
Withdraw(rs, ss) ==
  /\ \A r \in rs : channel[r] = "held"
  /\ channel' = [r \in Request |-> IF r \in rs THEN "rejected" ELSE channel[r]]
  /\ trusted' = trusted \ ss
  /\ UNCHANGED <<source, exposed, decided>>

GateNext ==
  \/ \E r \in Request, s \in Source, public \in BOOLEAN : Arrive(r, s, public)
  \/ \E r \in Request, choice \in Choice : Decide(r, choice)
  \/ \E r \in Request : Admit(r) \/ Refuse(r)
  \/ \E rs \in SUBSET Request, ss \in SUBSET Source : Withdraw(rs, ss)

GateSpec == GateInit /\ [][GateNext]_gateVars

===============================================================================
