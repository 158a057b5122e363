---------------------------- MODULE TunnelDataPlane ----------------------------
(*****************************************************************************)
(* One connection through a tunnel: the SOCKS5 server of dynamic tunnels     *)
(* (socksServer.js) and the pipe to the SSH channel (tunnelService.js).      *)
(*                                                                           *)
(* A socket delivers its bytes in chunks of any size.  Node reads a socket   *)
(* that has, or once had, a 'data' listener: without one the bytes are gone. *)
(* A socket never read (a local tunnel's, until its pipe) keeps them.        *)
(*****************************************************************************)
EXTENDS Naturals, Sequences, SequencesExt

CONSTANTS
  Preambles,  \* the SOCKS preambles clients send, as <<greeting, request>>
  Payload,    \* what a client sends to the far side
  NoTarget    \* nothing asked for yet

VARIABLES
  kind,      \* the tunnel's type: "local" or "dynamic"
  preamble,  \* what the client says first: <<>> in front of a local tunnel
  written,   \* how many bytes the client has written
  wire,      \* bytes not delivered to the application yet
  stage,     \* "greeting", "request", "opening", "piped", "closed"
  pending,   \* bytes the SOCKS server buffers
  replies,   \* what the client has been answered
  target,    \* where onTcpConnect was told to go
  received   \* what the far side got

vars == <<kind, preamble, written, wire, stage, pending, replies, target, received>>

Byte   == 0..255
Hello  == IF kind = "local" THEN <<>> ELSE preamble[1] \o preamble[2]
Script == Hello \o Payload

-----------------------------------------------------------------------------
Incomplete == [status |-> "incomplete"]
Bad(reply) == [status |-> "error", reply |-> reply]

\* buf[i] of the source is At(buf, i)
At(buf, i) == buf[i + 1]
UInt16(buf, i) == At(buf, i) * 256 + At(buf, i + 1)

ParseGreeting(buf) ==
  IF Len(buf) < 2 THEN Incomplete
  ELSE IF At(buf, 0) # 5 THEN Bad("none")
  ELSE IF Len(buf) < 2 + At(buf, 1) THEN Incomplete
  ELSE [status |-> "ok", consumed |-> 2 + At(buf, 1)]

\* where the port starts, by the address type of a CONNECT request
PortOffset(buf) ==
  CASE At(buf, 3) = 1 -> 8
    [] At(buf, 3) = 3 -> 5 + At(buf, 4)
    [] At(buf, 3) = 4 -> 20

HostOf(buf) == SubSeq(buf, IF At(buf, 3) = 3 THEN 6 ELSE 5, PortOffset(buf))

ParseRequest(buf) ==
  IF Len(buf) < 4 THEN Incomplete
  ELSE IF At(buf, 0) # 5 THEN Bad("failure")
  ELSE IF At(buf, 1) # 1 THEN Bad("command not supported")
  ELSE IF At(buf, 3) \notin {1, 3, 4} THEN Bad("address type not supported")
  ELSE IF \/ At(buf, 3) = 3 /\ Len(buf) < 5
          \/ Len(buf) < PortOffset(buf) + 2 THEN Incomplete
  ELSE IF HostOf(buf) = <<>> THEN Bad("failure")
  ELSE [status |-> "ok", consumed |-> PortOffset(buf) + 2,
        host |-> HostOf(buf), port |-> UInt16(buf, PortOffset(buf))]

-----------------------------------------------------------------------------
Refusal == {"failure", "command not supported", "address type not supported"}
Answer  == {"method", "succeeded"} \cup Refusal

TypeOK ==
  /\ kind \in {"local", "dynamic"}
  /\ preamble \in Preambles
  /\ written \in 0..Len(Script) /\ Len(wire) <= written
  /\ wire \in Seq(Byte) /\ pending \in Seq(Byte) /\ received \in Seq(Byte)
  /\ stage \in {"greeting", "request", "opening", "piped", "closed"}
  /\ replies \in Seq(Answer)
  /\ target = NoTarget \/ target \in [host : Seq(Byte), port : Nat]

Init ==
  /\ kind \in {"local", "dynamic"}
  /\ preamble \in Preambles
  /\ written = 0 /\ wire = <<>>
  /\ stage = IF kind = "local" THEN "opening" ELSE "greeting"
  /\ pending = <<>> /\ replies = <<>> /\ target = NoTarget /\ received = <<>>

\* A client may send its request behind its greeting, and its payload only
\* once its request is answered, as RFC 1928 has it.
ClientWrites ==
  /\ written < Len(Script) /\ stage # "closed"
  /\ kind = "dynamic" /\ written >= Len(Hello) => "succeeded" \in ToSet(replies)
  /\ written' = written + 1
  /\ wire' = Append(wire, Script[written + 1])
  /\ UNCHANGED <<kind, preamble, stage, pending, replies, target, received>>

\* fail(): the greeting's errors carry no reply, the request's carry one
Refuse(reply, answered) ==
  /\ replies' = answered \o IF reply = "none" THEN <<>> ELSE <<reply>>
  /\ stage' = "closed"
  /\ UNCHANGED <<pending, target>>

Await(buf, at, answered) ==
  /\ stage' = at
  /\ pending' = buf
  /\ replies' = answered
  /\ UNCHANGED target

\* The request stage: the socket is handed over and no longer listened to.
TakeRequest(buf, answered) ==
  LET parsed == ParseRequest(buf) IN
  CASE parsed.status = "incomplete" -> Await(buf, "request", answered)
    [] parsed.status = "error"      -> Refuse(parsed.reply, answered)
    [] parsed.status = "ok" ->
         /\ stage' = "opening"
         /\ pending' = buf
         /\ replies' = Append(answered, "succeeded")
         /\ target' = [host |-> parsed.host, port |-> parsed.port]

TakeGreeting(buf) ==
  LET parsed == ParseGreeting(buf)
      rest == SubSeq(buf, parsed.consumed + 1, Len(buf)) IN
  CASE parsed.status = "incomplete" -> Await(buf, "greeting", replies)
    [] parsed.status = "error"      -> Refuse(parsed.reply, replies)
    [] parsed.status = "ok" ->
         IF rest = <<>> THEN Await(<<>>, "request", Append(replies, "method"))
         ELSE TakeRequest(rest, Append(replies, "method"))

ChunkFor(n) ==
  /\ n \in 1..Len(wire)
  /\ wire' = SubSeq(wire, n + 1, Len(wire))
  /\ UNCHANGED <<kind, preamble, written>>

\* the 'data' listener of the SOCKS server
HandshakeData(n) ==
  /\ ChunkFor(n)
  /\ \/ stage = "greeting" /\ TakeGreeting(pending \o SubSeq(wire, 1, n))
     \/ stage = "request" /\ TakeRequest(pending \o SubSeq(wire, 1, n), replies)
  /\ UNCHANGED received

\* Between removeAllListeners('data') and _pipe the socket still flows, and
\* nobody listens.  A local tunnel's socket has never been read.
UnheardData(n) ==
  /\ ChunkFor(n)
  /\ stage = "opening" /\ kind = "dynamic"
  /\ UNCHANGED <<stage, pending, replies, target, received>>

\* conn.forwardOut calls back
ChannelOpens ==
  /\ stage = "opening"
  /\ stage' = "piped"
  /\ UNCHANGED <<kind, preamble, written, wire, pending, replies, target, received>>

ChannelRefused ==
  /\ stage = "opening"
  /\ stage' = "closed"
  /\ UNCHANGED <<kind, preamble, written, wire, pending, replies, target, received>>

PipedData(n) ==
  /\ ChunkFor(n)
  /\ stage = "piped"
  /\ received' = received \o SubSeq(wire, 1, n)
  /\ UNCHANGED <<stage, pending, replies, target>>

\* cleanup() of _pipe: either side closes or fails, both are destroyed
PipeEnds ==
  /\ stage = "piped"
  /\ stage' = "closed"
  /\ UNCHANGED <<kind, preamble, written, wire, pending, replies, target, received>>

Next ==
  \/ ClientWrites
  \/ \E n \in 1..Len(wire) : HandshakeData(n) \/ UnheardData(n) \/ PipedData(n)
  \/ ChannelOpens \/ ChannelRefused \/ PipeEnds

Spec == Init /\ [][Next]_vars

-----------------------------------------------------------------------------
\* However the bytes of a handshake are cut into chunks, the server asks the
\* SSH connection for the host and port of the client's request, and for none
\* when the request is not a CONNECT it understands.
SocksTarget ==
  LET asked == ParseRequest(preamble[2]) IN
  /\ target # NoTarget =>
       /\ asked.status = "ok"
       /\ target = [host |-> asked.host, port |-> asked.port]
  /\ "succeeded" \in ToSet(replies) <=> target # NoTarget
  \* a whole request that was delivered is answered
  /\ kind = "dynamic" /\ stage \in {"greeting", "request"} => written - Len(wire) < Len(Hello)

\* The far side gets what the client sent behind its handshake, from the first
\* byte on (tunnelService.js pipes the two sockets).
NoByteLost == IsPrefix(received, Payload)

\* Why: the wire has what the client wrote and was not delivered; while the
\* handshake lasts, what is buffered is the beginning of the message awaited,
\* and not the whole of it.
Delivered == written - Len(wire)

Awaited(parsed, from) ==
  /\ parsed.status = "incomplete" /\ target = NoTarget
  /\ from + Len(pending) = Delivered
  /\ \A i \in 1..Len(pending) : pending[i] = Script[from + i]

Handshake ==
  /\ \A i \in 1..Len(wire) : wire[i] = Script[Delivered + i]
  /\ kind = "local" => stage \notin {"greeting", "request"}
  /\ kind = "dynamic" /\ "succeeded" \notin ToSet(replies) => written <= Len(Hello)
  /\ stage = "greeting" => replies = <<>> /\ Awaited(ParseGreeting(pending), 0)
  /\ stage = "request" => /\ replies = <<"method">>
                          /\ Awaited(ParseRequest(pending), Len(preamble[1]))

IInv == TypeOK /\ Handshake /\ SocksTarget
==============================================================================
