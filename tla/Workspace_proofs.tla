------------------------------ MODULE Workspace_proofs ------------------------------
(*****************************************************************************)
(* The inductive invariants of the parts of Workspace, one lemma for each of *)
(* their actions, and the properties that follow.  In a proof the variables  *)
(* of the part have the names they have in its module.                       *)
(*****************************************************************************)
EXTENDS Workspace, SequenceTheorems, FiniteSetTheorems, NaturalsInduction, WellFoundedInduction,
        TLAPS

-----------------------------------------------------------------------------
\* The SOCKS data plane: what is buffered begins the message awaited.

LEMMA SocksSums ==
  \A a, b, c \in Nat : /\ \A d, w \in Nat : a + c = d /\ d <= w /\ w <= a + b => c <= b
                       /\ c < b => a + c < a + b
                       /\ b > 0 => 0 < a + b /\ a < a + b
OBVIOUS

LEMMA SocksByteIsNat == \A b \in D!Byte : b \in Nat
BY DEF D!Byte

\* Where the port starts is a number.
LEMMA SocksPortType ==
  ASSUME NEW buf \in Seq(D!Byte), Len(buf) >= 4, buf[4] = 3 => Len(buf) >= 5, buf[4] \in {1, 3, 4}
  PROVE  D!PortOffset(buf) \in Nat /\ D!PortOffset(buf) >= 5
<1>1. Len(buf) \in Nat /\ \A i \in 1..Len(buf) : buf[i] \in Nat
  <2>0. Len(buf) \in Nat
    OBVIOUS
  <2>1. \A i \in 1..Len(buf) : buf[i] \in D!Byte
    OBVIOUS
  <2> QED
    BY <2>0, <2>1, SocksByteIsNat
<1>2. CASE buf[4] = 1
  BY <1>2 DEF D!PortOffset, D!At
<1>3. CASE buf[4] = 3
  BY <1>1, <1>3 DEF D!PortOffset, D!At
<1>4. CASE buf[4] = 4
  BY <1>4 DEF D!PortOffset, D!At
<1> QED
  BY <1>2, <1>3, <1>4

\* Only a whole request has a host and a port.
LEMMA SocksHostType ==
  ASSUME NEW buf \in Seq(D!Byte), Len(buf) >= 4, buf[4] = 3 => Len(buf) >= 5, buf[4] \in {1, 3, 4},
         Len(buf) >= D!PortOffset(buf) + 2
  PROVE  /\ D!HostOf(buf) \in Seq(D!Byte) /\ D!UInt16(buf, D!PortOffset(buf)) \in Nat
         /\ Len(D!HostOf(buf)) = D!PortOffset(buf) - (IF buf[4] = 3 THEN 5 ELSE 4)
         /\ \A i \in 1..Len(D!HostOf(buf)) : D!HostOf(buf)[i] = buf[i + (IF buf[4] = 3 THEN 5 ELSE 4)]
<1> DEFINE off == D!PortOffset(buf)
           from == IF buf[4] = 3 THEN 6 ELSE 5
<1>1. off \in Nat /\ off >= 5
  BY SocksPortType
<1>2. Len(buf) \in Nat /\ Len(buf) >= off + 2 /\ \A i \in 1..Len(buf) : buf[i] \in D!Byte
  OBVIOUS
<1>3. from \in {5, 6} /\ from - 1 = (IF buf[4] = 3 THEN 5 ELSE 4)
  OBVIOUS
<1>4. D!HostOf(buf) = SubSeq(buf, from, off)
  BY DEF D!HostOf, D!At
<1> HIDE DEF off, from
<1>5. \A i \in from..off : buf[i] \in D!Byte
  BY <1>1, <1>2, <1>3
<1>6. /\ SubSeq(buf, from, off) \in Seq(D!Byte)
      /\ Len(SubSeq(buf, from, off)) = IF from <= off THEN off - from + 1 ELSE 0
      /\ \A i \in 1..off - from + 1 : SubSeq(buf, from, off)[i] = buf[from + i - 1]
  <2>1. from \in Int /\ off \in Int
    BY <1>1, <1>3
  <2> QED
    BY <1>5, <2>1, SubSeqProperties
<1>7. D!UInt16(buf, off) \in Nat
  <2>0. off + 1 \in 1..Len(buf) /\ off + 1 + 1 \in 1..Len(buf)
    BY <1>1, <1>2
  <2>1. buf[off + 1] \in Nat /\ buf[off + 1 + 1] \in Nat
    BY <1>2, <2>0, SocksByteIsNat
  <2> QED
    BY <2>1 DEF D!UInt16, D!At
<1>8. Len(D!HostOf(buf)) = off - (from - 1)
  BY <1>1, <1>3, <1>4, <1>6
<1>9. \A i \in 1..Len(D!HostOf(buf)) : D!HostOf(buf)[i] = buf[i + (from - 1)]
  BY <1>1, <1>3, <1>4, <1>6, <1>8
<1> QED
  BY <1>3, <1>4, <1>6, <1>7, <1>8, <1>9 DEF off

\* What the parser of requests answers.
LEMMA SocksRequestType ==
  ASSUME NEW buf \in Seq(D!Byte)
  PROVE  /\ D!ParseRequest(buf).status \in {"incomplete", "error", "ok"}
         /\ D!ParseRequest(buf).status = "error" =>
              D!ParseRequest(buf).reply \in D!Refusal
         /\ D!ParseRequest(buf).status = "ok" =>
              [host |-> D!ParseRequest(buf).host, port |-> D!ParseRequest(buf).port] \in [host : Seq(D!Byte), port : Nat]
<1>1. CASE \/ Len(buf) < 4 \/ D!At(buf, 0) # 5 \/ D!At(buf, 1) # 1 \/ D!At(buf, 3) \notin {1, 3, 4}
           \/ (D!At(buf, 3) = 3 /\ Len(buf) < 5) \/ Len(buf) < D!PortOffset(buf) + 2 \/ D!HostOf(buf) = <<>>
  BY Zenon, <1>1 DEF D!ParseRequest, D!Incomplete, D!Bad, D!Refusal
<1>2. CASE ~(\/ Len(buf) < 4 \/ D!At(buf, 0) # 5 \/ D!At(buf, 1) # 1 \/ D!At(buf, 3) \notin {1, 3, 4}
             \/ (D!At(buf, 3) = 3 /\ Len(buf) < 5) \/ Len(buf) < D!PortOffset(buf) + 2 \/ D!HostOf(buf) = <<>>)
  <2>1. D!ParseRequest(buf) = [status |-> "ok", consumed |-> D!PortOffset(buf) + 2,
                             host |-> D!HostOf(buf), port |-> D!UInt16(buf, D!PortOffset(buf))]
    BY Zenon, <1>2 DEF D!ParseRequest
  <2>2. Len(buf) \in Nat /\ Len(buf) >= 4 /\ (buf[4] = 3 => Len(buf) >= 5) /\ buf[4] \in {1, 3, 4}
    BY <1>2 DEF D!At
  <2>3. Len(buf) >= D!PortOffset(buf) + 2
    BY <1>2, <2>2, SocksPortType
  <2>4. D!HostOf(buf) \in Seq(D!Byte) /\ D!UInt16(buf, D!PortOffset(buf)) \in Nat
    BY <2>2, <2>3, SocksHostType
  <2> QED
    BY <2>1, <2>4
<1> QED
  BY <1>1, <1>2

\* A part of a request is understood as the whole is, or not yet.
LEMMA SocksRequestPart ==
  ASSUME NEW p \in Seq(D!Byte), NEW r \in Seq(D!Byte), Len(p) <= Len(r),
         \A i \in 1..Len(p) : p[i] = r[i]
  PROVE  /\ D!ParseRequest(p).status = "incomplete" \/ D!ParseRequest(p) = D!ParseRequest(r)
         /\ Len(p) = Len(r) => p = r
<1>1. Len(p) = Len(r) => p = r
  BY SeqEqual
<1>2. Len(p) \in Nat /\ Len(r) \in Nat
  OBVIOUS
<1>3. CASE Len(p) < 4
  BY <1>1, <1>3 DEF D!ParseRequest, D!Incomplete
<1>4. CASE Len(p) >= 4
  <2>1. p[1] = r[1] /\ p[2] = r[2] /\ p[4] = r[4] /\ ~(Len(p) < 4) /\ ~(Len(r) < 4)
    BY <1>2, <1>4
  <2>0. /\ D!At(p, 0) = D!At(r, 0) /\ D!At(p, 1) = D!At(r, 1) /\ D!At(p, 3) = D!At(r, 3)
        /\ D!At(p, 0) = p[1] /\ D!At(p, 1) = p[2] /\ D!At(p, 3) = p[4]
    BY <2>1 DEF D!At
  <2>2. CASE p[1] # 5 \/ p[2] # 1 \/ p[4] \notin {1, 3, 4}
    <3>1. D!ParseRequest(p) = D!ParseRequest(r)
      BY <2>0, <2>1, <2>2, Zenon DEF D!ParseRequest
    <3> QED
      BY <1>1, <3>1
  <2>3. CASE p[1] = 5 /\ p[2] = 1 /\ p[4] \in {1, 3, 4} /\ p[4] = 3 /\ Len(p) < 5
    <3>1. D!ParseRequest(p) = D!Incomplete
      BY <2>0, <2>1, <2>3, Zenon DEF D!ParseRequest
    <3> QED
      BY <1>1, <3>1 DEF D!Incomplete
  <2>4. CASE p[1] = 5 /\ p[2] = 1 /\ p[4] \in {1, 3, 4} /\ (p[4] = 3 => Len(p) >= 5)
    <3>1. (p[4] = 3 => p[5] = r[5]) /\ (r[4] = 3 => Len(r) >= 5) /\ r[4] \in {1, 3, 4}
      BY <1>2, <2>1, <2>4
    <3>2. D!PortOffset(p) = D!PortOffset(r)
      BY <2>1, <3>1 DEF D!PortOffset, D!At
    <3>3. D!PortOffset(p) \in Nat /\ D!PortOffset(p) >= 5
      BY <1>4, <2>4, SocksPortType
    <3>4. ~(D!At(p, 3) = 3 /\ Len(p) < 5) /\ ~(D!At(r, 3) = 3 /\ Len(r) < 5)
      BY <1>2, <2>4, <3>1 DEF D!At
    <3>5. CASE Len(p) < D!PortOffset(p) + 2
      <4>1. D!ParseRequest(p) = D!Incomplete
        BY <2>0, <2>1, <2>4, <3>4, <3>5, Zenon DEF D!ParseRequest
      <4> QED
        BY <1>1, <4>1 DEF D!Incomplete
    <3>6. CASE Len(p) >= D!PortOffset(p) + 2
      <4>1. Len(r) >= D!PortOffset(r) + 2
        BY <1>2, <3>2, <3>3, <3>6
      <4> DEFINE skip == IF p[4] = 3 THEN 5 ELSE 4
      <4>2. /\ D!HostOf(p) \in Seq(D!Byte) /\ Len(D!HostOf(p)) = D!PortOffset(p) - skip
            /\ \A i \in 1..Len(D!HostOf(p)) : D!HostOf(p)[i] = p[i + skip]
        BY <1>4, <2>4, <3>6, SocksHostType
      <4>3. /\ D!HostOf(r) \in Seq(D!Byte) /\ Len(D!HostOf(r)) = D!PortOffset(p) - skip
            /\ \A i \in 1..Len(D!HostOf(r)) : D!HostOf(r)[i] = r[i + skip]
        BY <1>2, <2>1, <3>1, <3>2, <4>1, SocksHostType
      <4>4. skip \in {4, 5}
        OBVIOUS
      <4> HIDE DEF skip
      <4>5. \A i \in 1..Len(D!HostOf(p)) : D!HostOf(p)[i] = D!HostOf(r)[i]
        <5>1. PICK n \in Nat : n = Len(D!HostOf(p))
          BY <4>2
        <5>2. \A i \in 1..n : i + skip \in 1..Len(p)
          BY <1>2, <3>3, <3>6, <4>2, <4>4, <5>1
        <5> QED
          BY <4>2, <4>3, <5>1, <5>2
      <4>6. D!HostOf(p) = D!HostOf(r)
        BY <4>2, <4>3, <4>5, SeqEqual
      <4>7. D!UInt16(p, D!PortOffset(p)) = D!UInt16(r, D!PortOffset(r))
        <5>1. D!PortOffset(p) + 1 \in 1..Len(p) /\ D!PortOffset(p) + 1 + 1 \in 1..Len(p)
          BY <1>2, <3>3, <3>6
        <5> QED
          BY <3>2, <5>1 DEF D!UInt16, D!At
      <4>8. ~(Len(p) < D!PortOffset(p) + 2) /\ ~(Len(r) < D!PortOffset(r) + 2)
        BY <1>2, <3>2, <3>3, <3>6, <4>1
      <4>9. D!At(p, 0) = D!At(r, 0) /\ D!At(p, 1) = D!At(r, 1) /\ D!At(p, 3) = D!At(r, 3)
        BY <2>1 DEF D!At
      <4> QED
        BY Zenon, <1>1, <2>1, <3>2, <3>4, <4>6, <4>7, <4>8, <4>9 DEF D!ParseRequest
    <3> QED
      BY <1>1, <1>2, <3>3, <3>5, <3>6
  <2> QED
    BY <1>2, <2>2, <2>3, <2>4
<1> QED
  BY <1>2, <1>3, <1>4

\* The beginning of what a client says is understood as its greeting, or not yet.
LEMMA SocksGreetingPart ==
  ASSUME NEW p \in Seq(D!Byte), NEW g \in Seq(D!Byte),
         \/ D!ParseGreeting(g).status = "error"
         \/ D!ParseGreeting(g).status = "ok" /\ D!ParseGreeting(g).consumed = Len(g),
         \A i \in 1..Len(p) : i <= Len(g) => p[i] = g[i]
  PROVE  /\ D!ParseGreeting(p).status \in {"incomplete", "error", "ok"}
         /\ D!ParseGreeting(p).status = "incomplete" => Len(p) < Len(g)
         /\ D!ParseGreeting(p).status = "error" => D!ParseGreeting(p).reply = "none"
         /\ D!ParseGreeting(p).status = "ok" => D!ParseGreeting(p).consumed = Len(g) /\ Len(g) <= Len(p)
<1>1. Len(p) \in Nat /\ Len(g) \in Nat
  OBVIOUS
<1>2. Len(g) >= 2
  BY <1>1 DEF D!ParseGreeting, D!Incomplete
<1>3. CASE Len(p) < 2
  BY <1>1, <1>2, <1>3 DEF D!ParseGreeting, D!Incomplete
<1>4. CASE Len(p) >= 2
  <2>1. p[1] = g[1] /\ p[2] = g[2] /\ g[2] \in Nat
    <3>1. g[2] \in D!Byte
      BY <1>1, <1>2
    <3> QED
      <4>1. 1 \in 1..Len(p) /\ 2 \in 1..Len(p) /\ 1 <= Len(g) /\ 2 <= Len(g)
        BY <1>1, <1>2, <1>4
      <4>2. g[2] \in Nat
        BY <3>1, SocksByteIsNat
      <4> QED
        BY <4>1, <4>2
  <2>2. CASE p[1] # 5
    BY <1>1, <1>4, <2>2 DEF D!ParseGreeting, D!At, D!Bad
  <2>3. CASE p[1] = 5
    <3>1. Len(g) = 2 + g[2]
      <4>1. D!At(g, 0) = 5 /\ D!At(g, 1) = g[2] /\ ~(Len(g) < 2)
        <5>1. 0 + 1 = 1 /\ 1 + 1 = 2 /\ ~(Len(g) < 2)
          BY <1>1, <1>2
        <5> QED
          BY <2>1, <2>3, <5>1 DEF D!At
      <4>2. D!ParseGreeting(g) = IF Len(g) < 2 + D!At(g, 1) THEN D!Incomplete
                               ELSE [status |-> "ok", consumed |-> 2 + D!At(g, 1)]
        BY <4>1, Zenon DEF D!ParseGreeting
      <4> QED
        BY <4>1, <4>2 DEF D!Incomplete
    <3> QED
      BY <1>1, <1>4, <2>1, <2>3, <3>1 DEF D!ParseGreeting, D!At, D!Incomplete
  <2> QED
    BY <2>2, <2>3
<1> QED
  BY <1>1, <1>3, <1>4

\* What the client says, byte by byte.
LEMMA SocksScriptBytes ==
  ASSUME v2 \in SocksPreambles, v1 \in {"local", "dynamic"}
  PROVE  /\ v2[1] \in Seq(D!Byte) /\ v2[2] \in Seq(D!Byte)
         /\ D!Script \in Seq(D!Byte)
         /\ v1 = "dynamic" =>
              /\ Len(D!Hello) = Len(v2[1]) + Len(v2[2])
              /\ \A i \in 1..Len(v2[1]) : D!Script[i] = v2[1][i]
              /\ \A i \in 1..Len(v2[2]) : D!Script[Len(v2[1]) + i] = v2[2][i]
<1> DEFINE kind == v1
           preamble == v2
<1>1. PICK g \in Seq(D!Byte), r \in Seq(D!Byte) : g = preamble[1] /\ r = preamble[2]
  BY PreambleAssumption
<1>2. TunnelPayload \in Seq(D!Byte)
  BY PreambleAssumption
<1>3. CASE kind = "local"
  BY <1>1, <1>2, <1>3 DEF D!Script, D!Hello
<1>4. CASE kind = "dynamic"
  <2>1. D!Script = (g \o r) \o TunnelPayload /\ D!Hello = g \o r
    BY <1>1, <1>4 DEF D!Script, D!Hello
  <2>2. /\ g \o r \in Seq(D!Byte) /\ Len(g \o r) = Len(g) + Len(r)
        /\ \A i \in 1..Len(g) + Len(r) : (g \o r)[i] = IF i <= Len(g) THEN g[i] ELSE r[i - Len(g)]
    BY ConcatProperties
  <2> DEFINE hello == g \o r
  <2> HIDE DEF hello
  <2>3. /\ hello \o TunnelPayload \in Seq(D!Byte)
        /\ \A i \in 1..Len(hello) + Len(TunnelPayload) :
             (hello \o TunnelPayload)[i] = IF i <= Len(hello) THEN hello[i] ELSE TunnelPayload[i - Len(hello)]
    <3>1. hello \in Seq(D!Byte)
      BY <2>2 DEF hello
    <3> QED
      BY <1>2, <3>1, ConcatProperties
  <2>4. Len(g) \in Nat /\ Len(r) \in Nat /\ Len(hello) = Len(g) + Len(r) /\ Len(TunnelPayload) \in Nat
    BY <1>2, <2>2 DEF hello
  <2>5. \A i \in 1..Len(hello) : D!Script[i] = IF i <= Len(g) THEN g[i] ELSE r[i - Len(g)]
    <3>1. D!Script = hello \o TunnelPayload
      BY <2>1 DEF hello
    <3>2. \A i \in 1..Len(hello) : hello[i] = IF i <= Len(g) THEN g[i] ELSE r[i - Len(g)]
      BY <2>2, <2>4 DEF hello
    <3> QED
      <4>1. \A i \in 1..Len(hello) : i \in 1..Len(hello) + Len(TunnelPayload) /\ i <= Len(hello)
        BY <2>2, <2>4
      <4> QED
        BY <2>3, <3>1, <3>2, <4>1
  <2>6. \A i \in 1..Len(g) : D!Script[i] = g[i]
    BY <2>4, <2>5
  <2>7. \A i \in 1..Len(r) : D!Script[Len(g) + i] = r[i]
    BY <2>4, <2>5
  <2>8. D!Script \in Seq(D!Byte)
    BY <2>1, <2>3 DEF hello
  <2> QED
    BY <1>1, <2>1, <2>4, <2>6, <2>7, <2>8 DEF hello
<1> QED
  BY <1>3, <1>4

\* A chunk is taken off the wire and put behind what is buffered.
LEMMA SocksChunk ==
  ASSUME D!TypeOK, NEW n \in 1..Len(v4), D!ChunkFor(n), D!Handshake
  PROVE  /\ v4' \in Seq(D!Byte) /\ Len(v4') = Len(v4) - n /\ Len(v4) \in Nat /\ v3 \in Nat
         /\ D!Delivered' = D!Delivered + n /\ D!Delivered \in Nat /\ D!Delivered' <= v3
         /\ D!Delivered' \in Nat /\ Len(v4') <= v3 /\ D!Delivered' = v3' - Len(v4')
         /\ \A i \in 1..Len(v4') : v4'[i] = D!Script[D!Delivered' + i]
         /\ UNCHANGED <<v1, v2, v3>>
         /\ D!Script' = D!Script /\ D!Hello' = D!Hello
         /\ SubSeq(v4, 1, n) \in Seq(D!Byte) /\ Len(SubSeq(v4, 1, n)) = n
         /\ \A i \in 1..n : SubSeq(v4, 1, n)[i] = D!Script[D!Delivered + i]
<1> DEFINE kind == v1
           preamble == v2
           written == v3
           wire == v4
<1>1. wire \in Seq(D!Byte) /\ Len(wire) \in Nat /\ written \in Nat /\ Len(wire) <= written
  <2>1. D!Script \in Seq(D!Byte)
    BY SocksScriptBytes DEF D!TypeOK
  <2>2. Len(D!Script) \in Nat
    BY <2>1
  <2>3. wire \in Seq(D!Byte) /\ written \in 0..Len(D!Script) /\ Len(wire) <= written
    BY DEF D!TypeOK
  <2> HIDE DEF D!Script
  <2> QED
    BY <2>2, <2>3
<1>2. PICK w \in Seq(D!Byte) : w = wire
  BY <1>1
<1>3. \A i \in n + 1..Len(w) : w[i] \in D!Byte
  BY <1>1, <1>2
<1>4. \A i \in 1..n : w[i] \in D!Byte
  BY <1>1, <1>2
<1>5. /\ SubSeq(w, n + 1, Len(w)) \in Seq(D!Byte)
      /\ Len(SubSeq(w, n + 1, Len(w))) = IF n + 1 <= Len(w) THEN Len(w) - (n + 1) + 1 ELSE 0
      /\ \A i \in 1..Len(w) - (n + 1) + 1 : SubSeq(w, n + 1, Len(w))[i] = w[n + 1 + i - 1]
  <2>1. n + 1 \in Int /\ Len(w) \in Int
    BY <1>1, <1>2
  <2> QED
    BY <1>3, <2>1, SubSeqProperties
<1>6. /\ SubSeq(w, 1, n) \in Seq(D!Byte)
      /\ Len(SubSeq(w, 1, n)) = IF 1 <= n THEN n - 1 + 1 ELSE 0
      /\ \A i \in 1..n - 1 + 1 : SubSeq(w, 1, n)[i] = w[1 + i - 1]
  <2>1. n \in Int /\ 1 \in Int
    BY <1>1, <1>2
  <2> QED
    BY <1>4, <2>1, SubSeqProperties
<1>7. UNCHANGED <<kind, preamble, written>> /\ wire' = SubSeq(w, n + 1, Len(w))
  BY <1>2 DEF D!ChunkFor
<1>8. D!Script' = D!Script /\ D!Hello' = D!Hello
  BY <1>7 DEF D!Script, D!Hello
<1>9. n \in Nat /\ n >= 1 /\ n <= Len(wire)
  BY <1>1
<1>10. wire' \in Seq(D!Byte) /\ Len(wire') = Len(wire) - n
  BY <1>1, <1>2, <1>5, <1>7, <1>9
<1>11. D!Delivered' = D!Delivered + n /\ D!Delivered \in Nat /\ D!Delivered' <= written
  <2>1. D!Delivered = written - Len(wire) /\ D!Delivered' = written' - Len(wire')
    BY DEF D!Delivered
  <2>2. PICK a \in Nat, b \in Nat : a = written /\ b = Len(wire)
    BY <1>1
  <2>3. D!Delivered = a - b /\ D!Delivered' = a - (b - n) /\ b <= a /\ n <= b
    BY <1>1, <1>7, <1>9, <1>10, <2>1, <2>2
  <2> HIDE DEF D!Delivered
  <2> QED
    BY <1>9, <2>2, <2>3
<1>12. \A i \in 1..Len(wire) : wire[i] = D!Script[D!Delivered + i]
  BY DEF D!Handshake
<1>13. \A i \in 1..Len(wire') : wire'[i] = D!Script[D!Delivered' + i]
  <2> SUFFICES ASSUME NEW i \in 1..Len(wire') PROVE wire'[i] = D!Script[D!Delivered' + i]
    OBVIOUS
  <2>1. wire'[i] = w[n + i] /\ n + i \in 1..Len(wire)
    BY <1>1, <1>2, <1>5, <1>7, <1>9, <1>10
  <2>2. wire'[i] = D!Script[D!Delivered + (n + i)]
    BY <1>2, <1>12, <2>1
  <2> QED
    BY <1>9, <1>10, <1>11, <2>2
<1>14. SubSeq(wire, 1, n) \in Seq(D!Byte) /\ Len(SubSeq(wire, 1, n)) = n
  BY <1>2, <1>6, <1>9
<1>15. \A i \in 1..n : SubSeq(wire, 1, n)[i] = D!Script[D!Delivered + i]
  <2>1. \A i \in 1..n : SubSeq(w, 1, n)[i] = w[i] /\ i \in 1..Len(wire)
    BY <1>6, <1>9
  <2> QED
    BY <1>2, <1>12, <2>1
<1>16. D!Delivered' \in Nat /\ Len(wire') <= written /\ D!Delivered' = written' - Len(wire')
  <2>1. D!Delivered' = written' - Len(wire')
    BY DEF D!Delivered
  <2>2. D!Delivered' \in Nat
    BY <1>9, <1>11
  <2>3. Len(wire') <= written
    BY <1>1, <1>9, <1>10
  <2> QED
    BY <2>1, <2>2, <2>3
<1> HIDE DEF D!Delivered, D!Script, D!Hello
<1> QED
  BY <1>1, <1>7, <1>8, <1>10, <1>11, <1>13, <1>14, <1>15, <1>16

\* What has been answered, when it was one or two things.
LEMMA SocksAnswers ==
  /\ D!ToSet(<<>>) = {}
  /\ \A a, b : <<a>> \o <<b>> = <<a, b>> /\ Append(<<a>>, b) = <<a, b>>
  /\ \A a, b : D!ToSet(<<a>>) = {a} /\ D!ToSet(<<a, b>>) = {a, b}
  /\ \A a, b : a \in D!Answer /\ b \in D!Answer => <<a, b>> \in Seq(D!Answer) /\ <<a>> \in Seq(D!Answer)
<1>1. D!ToSet(<<>>) = {}
  BY DEF D!ToSet
<1>2. ASSUME NEW a, NEW b PROVE D!ToSet(<<a>>) = {a} /\ D!ToSet(<<a, b>>) = {a, b}
  <2>1. DOMAIN <<a>> = {1} /\ <<a>>[1] = a
    OBVIOUS
  <2>2. DOMAIN <<a, b>> = {1, 2} /\ <<a, b>>[1] = a /\ <<a, b>>[2] = b
    OBVIOUS
  <2>3. D!ToSet(<<a>>) = {a}
    BY <2>1 DEF D!ToSet
  <2>4. D!ToSet(<<a, b>>) = {a, b}
    BY <2>2 DEF D!ToSet
  <2> QED
    BY <2>3, <2>4
<1>3. ASSUME NEW a, NEW b PROVE <<a>> \o <<b>> = <<a, b>> /\ Append(<<a>>, b) = <<a, b>>
  <2>1. PICK S : S = {a, b}
    OBVIOUS
  <2>2. <<a>> \in Seq(S) /\ <<b>> \in Seq(S) /\ <<a, b>> \in Seq(S) /\ b \in S
    BY <2>1
  <2>3. Len(<<a>>) = 1 /\ Len(<<b>>) = 1 /\ Len(<<a, b>>) = 2
        /\ <<a>>[1] = a /\ <<b>>[1] = b /\ <<a, b>>[1] = a /\ <<a, b>>[2] = b
    OBVIOUS
  <2>4. Append(<<a>>, b) = <<a, b>>
    <3>1. /\ Append(<<a>>, b) \in Seq(S) /\ Len(Append(<<a>>, b)) = Len(<<a>>) + 1
          /\ \A i \in 1..Len(<<a>>) : Append(<<a>>, b)[i] = <<a>>[i]
          /\ Append(<<a>>, b)[Len(<<a>>) + 1] = b
      BY <2>2, AppendProperties
    <3>6. Len(Append(<<a>>, b)) = 2 /\ Append(<<a>>, b)[2] = b
      BY <2>3, <3>1
    <3>7. Append(<<a>>, b)[1] = a
      BY <2>3, <3>1
    <3>2. PICK s \in Seq(S) : s = Append(<<a>>, b) /\ Len(s) = 2 /\ s[1] = a /\ s[2] = b
      BY <3>1, <3>6, <3>7
    <3>3. PICK t \in Seq(S) : t = <<a, b>> /\ Len(t) = 2 /\ t[1] = a /\ t[2] = b
      BY <2>2, <2>3
    <3>4. \A i \in 1..Len(s) : s[i] = t[i]
      BY <3>2, <3>3
    <3>5. s = t
      BY <3>2, <3>3, <3>4, SeqEqual
    <3> QED
      BY <3>2, <3>3, <3>5
  <2>5. <<a>> \o <<b>> = Append(<<a>>, b)
    BY <2>2, AppendIsConcat
  <2> QED
    BY <2>4, <2>5
<1> QED
  BY <1>1, <1>2, <1>3

\* A whole request has a length.
LEMMA SocksRequestLength ==
  ASSUME NEW buf \in Seq(D!Byte), D!ParseRequest(buf).status # "incomplete"
  PROVE  Len(buf) > 0
<1>1. Len(buf) \in Nat
  OBVIOUS
<1>2. Len(buf) < 4 => D!ParseRequest(buf) = D!Incomplete
  BY DEF D!ParseRequest
<1> QED
  BY <1>1, <1>2 DEF D!Incomplete

\* What a request leads to, or its beginning.
LEMMA SocksRequestTaken ==
  ASSUME v2 \in SocksPreambles, v8 = None, NEW buf \in Seq(D!Byte),
         Len(buf) <= Len(v2[2]), \A i \in 1..Len(buf) : buf[i] = v2[2][i],
         D!TakeRequest(buf, <<"method">>)
  PROVE  \/ /\ v5' = "request" /\ v6' = buf /\ v7' = <<"method">> /\ v8' = None
            /\ D!ParseRequest(buf).status = "incomplete" /\ Len(buf) < Len(v2[2])
         \/ /\ v5' = "closed" /\ v6' = v6 /\ v8' = None
            /\ \E reply \in D!Refusal : v7' = <<"method", reply>>
         \/ /\ v5' = "opening" /\ v6' = buf /\ v7' = <<"method", "succeeded">>
            /\ D!ParseRequest(v2[2]).status = "ok"
            /\ v8' = [host |-> D!ParseRequest(v2[2]).host, port |-> D!ParseRequest(v2[2]).port]
            /\ v8' \in [host : Seq(D!Byte), port : Nat]
<1> DEFINE preamble == v2
           stage == v5
           pending == v6
           replies == v7
           target == v8
<1>1. PICK r \in Seq(D!Byte) : r = preamble[2] /\ D!ParseRequest(r).status # "incomplete"
  BY PreambleAssumption
<1>2. /\ D!ParseRequest(buf).status = "incomplete" \/ D!ParseRequest(buf) = D!ParseRequest(r)
      /\ Len(buf) = Len(r) => buf = r
  BY <1>1, SocksRequestPart
<1>3. /\ D!ParseRequest(buf).status \in {"incomplete", "error", "ok"}
      /\ D!ParseRequest(buf).status = "error" => D!ParseRequest(buf).reply \in D!Refusal
      /\ D!ParseRequest(buf).status = "ok" =>
           [host |-> D!ParseRequest(buf).host, port |-> D!ParseRequest(buf).port] \in [host : Seq(D!Byte), port : Nat]
  BY SocksRequestType
<1>4. CASE D!ParseRequest(buf).status = "incomplete"
  <2>1. D!Await(buf, "request", <<"method">>)
    BY <1>4 DEF D!TakeRequest
  <2>2. Len(buf) # Len(r) /\ Len(buf) \in Nat /\ Len(r) \in Nat
    BY <1>1, <1>2, <1>4
  <2>3. Len(buf) < Len(r)
    BY <1>1, <2>2
  <2> QED
    BY <1>1, <1>4, <2>1, <2>3 DEF D!Await
<1>5. CASE D!ParseRequest(buf).status = "error"
  <2>1. D!Refuse(D!ParseRequest(buf).reply, <<"method">>)
    BY <1>5 DEF D!TakeRequest
  <2>2. PICK reply \in D!Refusal : reply = D!ParseRequest(buf).reply
    BY <1>3, <1>5
  <2>3. replies' = <<"method">> \o <<reply>>
    BY Zenon, <2>1, <2>2 DEF D!Refuse, D!Refusal
  <2>4. <<"method">> \o <<reply>> = <<"method", reply>>
    BY SocksAnswers
  <2> QED
    BY <2>1, <2>3, <2>4 DEF D!Refuse
<1>6. CASE D!ParseRequest(buf).status = "ok"
  <2>1. /\ stage' = "opening" /\ pending' = buf /\ replies' = Append(<<"method">>, "succeeded")
        /\ target' = [host |-> D!ParseRequest(buf).host, port |-> D!ParseRequest(buf).port]
    BY <1>6 DEF D!TakeRequest
  <2>2. Append(<<"method">>, "succeeded") = <<"method", "succeeded">>
    BY SocksAnswers
  <2>3. D!ParseRequest(r) = D!ParseRequest(buf)
    BY <1>2, <1>6
  <2> QED
    BY <1>1, <1>3, <1>6, <2>1, <2>2, <2>3
<1> QED
  BY <1>3, <1>4, <1>5, <1>6

\* The last chunk was the request's, or a part of it.
LEMMA SocksRequestArrives ==
  ASSUME D!IInv, NEW n \in 1..Len(v4), D!ChunkFor(n), UNCHANGED v9, v1 = "dynamic",
         "succeeded" \notin D!ToSet(v7), v8 = None, NEW buf \in Seq(D!Byte),
         Len(v2[1]) + Len(buf) = D!Delivered',
         \A i \in 1..Len(buf) : buf[i] = D!Script[Len(v2[1]) + i],
         D!TakeRequest(buf, <<"method">>)
  PROVE  D!IInv'
<1> DEFINE kind == v1
           preamble == v2
           written == v3
           wire == v4
           stage == v5
           pending == v6
           replies == v7
           target == v8
<1>1. /\ wire' \in Seq(D!Byte) /\ Len(wire') = Len(wire) - n /\ Len(wire) \in Nat /\ written \in Nat
      /\ D!Delivered' <= written /\ D!Delivered' \in Nat /\ Len(wire') <= written'
      /\ \A i \in 1..Len(wire') : wire'[i] = D!Script[D!Delivered' + i]
      /\ UNCHANGED <<kind, preamble, written>>
      /\ D!Script' = D!Script /\ D!Hello' = D!Hello
  BY SocksChunk DEF D!IInv
<1>2. /\ preamble[1] \in Seq(D!Byte) /\ preamble[2] \in Seq(D!Byte) /\ preamble \in SocksPreambles
      /\ Len(D!Hello) = Len(preamble[1]) + Len(preamble[2])
      /\ \A i \in 1..Len(preamble[2]) : D!Script[Len(preamble[1]) + i] = preamble[2][i]
  BY SocksScriptBytes DEF D!IInv, D!TypeOK
<1>3. written <= Len(D!Hello)
  BY DEF D!IInv, D!Handshake
<1>4. Len(preamble[1]) \in Nat /\ Len(preamble[2]) \in Nat /\ Len(buf) \in Nat
  BY <1>2
<1>5. Len(buf) <= Len(preamble[2])
  <2>1. PICK a \in Nat, b \in Nat, c \in Nat : a = Len(preamble[1]) /\ b = Len(preamble[2]) /\ c = Len(buf)
    BY <1>4
  <2>2. PICK d \in Nat, w \in Nat : d = D!Delivered' /\ w = written
    BY <1>1
  <2>3. a + c = d /\ d <= w /\ w <= a + b
    BY <1>1, <1>2, <1>3, <2>1, <2>2
  <2>4. c <= b
    BY <2>3, SocksSums
  <2> QED
    BY <2>1, <2>4
<1>6. \A i \in 1..Len(buf) : buf[i] = preamble[2][i]
  BY <1>2, <1>4, <1>5
<1>7. CASE /\ stage' = "request" /\ pending' = buf /\ replies' = <<"method">> /\ target' = None
           /\ D!ParseRequest(buf).status = "incomplete" /\ Len(buf) < Len(preamble[2])
  <2>1. D!TypeOK'
    <3>1. replies' \in Seq(D!Answer)
      BY <1>7, SocksAnswers DEF D!Answer
    <3>2. Len(wire') <= written'
      BY <1>1
    <3> QED
      BY <1>1, <1>7, <3>1, <3>2 DEF D!IInv, D!TypeOK
  <2>2. "succeeded" \notin D!ToSet(replies')
    BY <1>7, SocksAnswers
  <2>3. D!Awaited(D!ParseRequest(pending), Len(preamble[1]))'
    BY Zenon, <1>1, <1>7 DEF D!Awaited, D!ParseRequest
  <2>4. D!Handshake'
    BY <1>1, <1>3, <1>7, <2>2, <2>3 DEF D!Handshake
  <2>5. written' - Len(wire') < Len(D!Hello')
    <3>1. D!Delivered' = written' - Len(wire')
      BY DEF D!Delivered
    <3>2. PICK a \in Nat, b \in Nat, c \in Nat : a = Len(preamble[1]) /\ b = Len(preamble[2]) /\ c = Len(buf)
      BY <1>4
    <3>3. a + c = D!Delivered' /\ c < b /\ Len(D!Hello') = a + b
      BY <1>1, <1>2, <1>7, <3>2
    <3>5. a + c < a + b
      BY <3>3, SocksSums
    <3>6. D!Delivered' = a + c
      BY <3>3
    <3>4. written' - Len(wire') = a + c /\ a + c < a + b
      BY <3>1, <3>5, <3>6
    <3> QED
      BY <3>3, <3>4
  <2>6. D!SocksTarget'
    BY <1>7, <2>2, <2>5 DEF D!SocksTarget
  <2> QED
    BY <2>1, <2>4, <2>6 DEF D!IInv
<1>8. CASE /\ stage' = "closed" /\ pending' = pending /\ target' = None
           /\ \E reply \in D!Refusal : replies' = <<"method", reply>>
  <2>1. PICK reply \in D!Refusal : replies' = <<"method", reply>>
    BY <1>8
  <2>6. reply # "succeeded"
    BY Zenon DEF D!Refusal
  <2>2. D!TypeOK'
    <3>1. replies' \in Seq(D!Answer)
      BY <2>1, SocksAnswers DEF D!Answer
    <3>2. Len(wire') <= written'
      BY <1>1
    <3> QED
      BY <1>1, <1>8, <3>1, <3>2 DEF D!IInv, D!TypeOK
  <2>3. "succeeded" \notin D!ToSet(replies')
    BY <2>1, <2>6, SocksAnswers
  <2>4. D!Handshake'
    BY <1>1, <1>3, <1>8 DEF D!Handshake
  <2>5. D!SocksTarget'
    BY <1>8, <2>3 DEF D!SocksTarget
  <2> QED
    BY <2>2, <2>4, <2>5 DEF D!IInv
<1>9. CASE /\ stage' = "opening" /\ pending' = buf /\ replies' = <<"method", "succeeded">>
           /\ D!ParseRequest(preamble[2]).status = "ok"
           /\ target' = [host |-> D!ParseRequest(preamble[2]).host, port |-> D!ParseRequest(preamble[2]).port]
           /\ target' \in [host : Seq(D!Byte), port : Nat]
  <2>1. D!TypeOK'
    <3>1. replies' \in Seq(D!Answer)
      BY <1>9, SocksAnswers DEF D!Answer
    <3>2. Len(wire') <= written'
      BY <1>1
    <3> QED
      BY <1>1, <1>9, <3>1, <3>2 DEF D!IInv, D!TypeOK
  <2>2. "succeeded" \in D!ToSet(replies') /\ target' # None
    BY <1>9, SocksAnswers, PreambleAssumption
  <2>3. D!Handshake'
    BY <1>1, <1>9, <2>2 DEF D!Handshake
  <2>4. D!ParseRequest(preamble[2])' = D!ParseRequest(preamble[2])
    BY <1>1 DEF D!ParseRequest, D!HostOf, D!PortOffset, D!UInt16, D!At, D!Incomplete, D!Bad
  <2>5. D!SocksTarget'
    BY <1>9, <2>2, <2>4 DEF D!SocksTarget
  <2> QED
    BY <2>1, <2>3, <2>5 DEF D!IInv
<1> QED
  BY <1>2, <1>5, <1>6, <1>7, <1>8, <1>9, SocksRequestTaken

\* What is buffered, and the chunk behind it.
LEMMA SocksBuffered ==
  ASSUME D!IInv, NEW n \in 1..Len(v4), D!ChunkFor(n), NEW from \in Nat,
         from + Len(v6) = D!Delivered, \A i \in 1..Len(v6) : v6[i] = D!Script[from + i]
  PROVE  /\ v6 \o SubSeq(v4, 1, n) \in Seq(D!Byte)
         /\ from + Len(v6 \o SubSeq(v4, 1, n)) = D!Delivered'
         /\ \A i \in 1..Len(v6 \o SubSeq(v4, 1, n)) :
              (v6 \o SubSeq(v4, 1, n))[i] = D!Script[from + i]
<1> DEFINE wire == v4
           pending == v6
<1>1. /\ SubSeq(wire, 1, n) \in Seq(D!Byte) /\ Len(SubSeq(wire, 1, n)) = n
      /\ \A i \in 1..n : SubSeq(wire, 1, n)[i] = D!Script[D!Delivered + i]
      /\ D!Delivered' = D!Delivered + n /\ D!Delivered \in Nat /\ Len(wire) \in Nat
  BY SocksChunk DEF D!IInv
<1>2. PICK c \in Seq(D!Byte) : c = SubSeq(wire, 1, n)
  BY <1>1
<1>3. PICK b \in Seq(D!Byte) : b = pending
  BY DEF D!IInv, D!TypeOK
<1>4. /\ b \o c \in Seq(D!Byte) /\ Len(b \o c) = Len(b) + Len(c)
      /\ \A i \in 1..Len(b) + Len(c) : (b \o c)[i] = IF i <= Len(b) THEN b[i] ELSE c[i - Len(b)]
  BY ConcatProperties
<1>5. Len(b) \in Nat /\ Len(c) = n /\ n \in Nat /\ from + Len(b) = D!Delivered
  BY <1>1, <1>2, <1>3
<1>6. PICK d \in Nat : d = D!Delivered
  BY <1>1
<1>7. ASSUME NEW i \in 1..Len(b) + Len(c) PROVE (b \o c)[i] = D!Script[from + i]
  <2>1. CASE i <= Len(b)
    BY <1>3, <1>4, <1>5, <2>1
  <2>2. CASE ~(i <= Len(b))
    <3>1. (b \o c)[i] = c[i - Len(b)] /\ i - Len(b) \in 1..n
      BY <1>4, <1>5, <2>2
    <3>2. c[i - Len(b)] = D!Script[d + (i - Len(b))]
      BY <1>1, <1>2, <1>6, <3>1
    <3>3. d + (i - Len(b)) = from + i
      BY <1>5, <1>6
    <3> QED
      BY <3>1, <3>2, <3>3
  <2> QED
    BY <2>1, <2>2
<1>8. from + Len(b \o c) = d + n /\ D!Delivered' = d + n
  <2>1. from + Len(b) = d /\ Len(b \o c) = Len(b) + n
    BY <1>4, <1>5, <1>6
  <2>2. D!Delivered' = d + n
    BY <1>1, <1>6
  <2>3. PICK k \in Nat : k = Len(b)
    BY <1>5
  <2>4. from + Len(b \o c) = from + (k + n) /\ from + k = d
    BY <2>1, <2>3
  <2> QED
    BY <1>5, <1>6, <2>2, <2>3, <2>4
<1> QED
  BY <1>2, <1>3, <1>4, <1>7, <1>8

LEMMA SocksRequestDataKeeps ==
  ASSUME D!IInv, NEW n \in 1..Len(v4), D!ChunkFor(n), UNCHANGED v9, v5 = "request",
         D!TakeRequest(v6 \o SubSeq(v4, 1, n), v7)
  PROVE  D!IInv'
<1> DEFINE kind == v1
           preamble == v2
           wire == v4
           pending == v6
           replies == v7
           target == v8
<1>1. /\ replies = <<"method">> /\ target = None /\ kind = "dynamic"
      /\ Len(preamble[1]) + Len(pending) = D!Delivered
      /\ \A i \in 1..Len(pending) : pending[i] = D!Script[Len(preamble[1]) + i]
  BY DEF D!IInv, D!Handshake, D!Awaited, D!TypeOK
<1>2. PICK from \in Nat : from = Len(preamble[1])
  <2>1. preamble[1] \in Seq(D!Byte)
    BY SocksScriptBytes DEF D!IInv, D!TypeOK
  <2> QED
    BY <2>1
<1>3. PICK buf : buf = pending \o SubSeq(wire, 1, n)
  OBVIOUS
<1>4. /\ buf \in Seq(D!Byte) /\ from + Len(buf) = D!Delivered'
      /\ \A i \in 1..Len(buf) : buf[i] = D!Script[from + i]
  BY <1>1, <1>2, <1>3, SocksBuffered
<1>5. D!TakeRequest(buf, <<"method">>)
  BY <1>1, <1>3
<1>6. "succeeded" \notin D!ToSet(replies)
  BY <1>1, SocksAnswers
<1> QED
  BY <1>1, <1>2, <1>4, <1>5, <1>6, SocksRequestArrives

LEMMA SocksGreetingDataKeeps ==
  ASSUME D!IInv, NEW n \in 1..Len(v4), D!ChunkFor(n), UNCHANGED v9, v5 = "greeting",
         D!TakeGreeting(v6 \o SubSeq(v4, 1, n))
  PROVE  D!IInv'
<1> DEFINE kind == v1
           preamble == v2
           written == v3
           wire == v4
           stage == v5
           pending == v6
           replies == v7
           target == v8
<1>1. /\ replies = <<>> /\ target = None /\ kind = "dynamic"
      /\ 0 + Len(pending) = D!Delivered
      /\ \A i \in 1..Len(pending) : pending[i] = D!Script[0 + i]
  BY DEF D!IInv, D!Handshake, D!Awaited, D!TypeOK
<1>2. PICK buf : buf = pending \o SubSeq(wire, 1, n)
  OBVIOUS
<1>3. /\ buf \in Seq(D!Byte) /\ 0 + Len(buf) = D!Delivered'
      /\ \A i \in 1..Len(buf) : buf[i] = D!Script[0 + i]
  BY <1>1, <1>2, SocksBuffered
<1>4. PICK g \in Seq(D!Byte) :
        /\ g = preamble[1]
        /\ \/ D!ParseGreeting(g).status = "error"
           \/ D!ParseGreeting(g).status = "ok" /\ D!ParseGreeting(g).consumed = Len(g)
  BY PreambleAssumption DEF D!IInv, D!TypeOK
<1>5. /\ Len(D!Hello) = Len(g) + Len(preamble[2]) /\ preamble[2] \in Seq(D!Byte)
      /\ \A i \in 1..Len(g) : D!Script[i] = g[i]
  BY <1>1, <1>4, SocksScriptBytes DEF D!IInv, D!TypeOK
<1>6. Len(buf) \in Nat /\ Len(g) \in Nat /\ Len(preamble[2]) \in Nat
  BY <1>3, <1>4, <1>5
<1>7. \A i \in 1..Len(buf) : i <= Len(g) => buf[i] = g[i]
  BY <1>3, <1>5, <1>6
<1>8. /\ D!ParseGreeting(buf).status \in {"incomplete", "error", "ok"}
      /\ D!ParseGreeting(buf).status = "incomplete" => Len(buf) < Len(g)
      /\ D!ParseGreeting(buf).status = "error" => D!ParseGreeting(buf).reply = "none"
      /\ D!ParseGreeting(buf).status = "ok" => D!ParseGreeting(buf).consumed = Len(g) /\ Len(g) <= Len(buf)
  BY <1>3, <1>4, <1>7, SocksGreetingPart
<1>9. /\ wire' \in Seq(D!Byte) /\ Len(wire') = Len(wire) - n /\ Len(wire) \in Nat /\ written \in Nat
      /\ D!Delivered' <= written /\ D!Delivered' \in Nat /\ Len(wire') <= written'
      /\ \A i \in 1..Len(wire') : wire'[i] = D!Script[D!Delivered' + i]
      /\ UNCHANGED <<kind, preamble, written>>
      /\ D!Script' = D!Script /\ D!Hello' = D!Hello
  BY SocksChunk DEF D!IInv
<1>10. "succeeded" \notin D!ToSet(replies)
  BY <1>1, SocksAnswers
<1>11. written <= Len(D!Hello)
  BY <1>1, <1>10 DEF D!IInv, D!Handshake
<1>12. Len(wire') <= written'
  BY <1>9
<1>13. D!Delivered' = written' - Len(wire')
  BY DEF D!Delivered
<1>14. CASE D!ParseGreeting(buf).status = "incomplete"
  <2>1. D!Await(buf, "greeting", replies)
    BY <1>2, <1>14 DEF D!TakeGreeting
  <2>2. stage' = "greeting" /\ pending' = buf /\ replies' = <<>> /\ target' = None
    BY <1>1, <2>1 DEF D!Await
  <2>3. D!TypeOK'
    BY <1>3, <1>9, <1>12, <2>2 DEF D!IInv, D!TypeOK
  <2>4. D!Awaited(D!ParseGreeting(pending), 0)'
    BY <1>3, <1>9, <1>14, <2>2 DEF D!Awaited, D!ParseGreeting
  <2>5. "succeeded" \notin D!ToSet(replies')
    BY <2>2, SocksAnswers
  <2>6. D!Handshake'
    BY <1>1, <1>9, <1>11, <2>2, <2>4, <2>5 DEF D!Handshake
  <2>7. written' - Len(wire') < Len(D!Hello')
    <3>1. Len(buf) < Len(g) + Len(preamble[2]) /\ Len(buf) = D!Delivered'
      BY <1>3, <1>6, <1>8, <1>14
    <3> QED
      BY <1>5, <1>9, <1>13, <3>1
  <2>8. D!SocksTarget'
    BY <2>2, <2>5, <2>7 DEF D!SocksTarget
  <2> QED
    BY <2>3, <2>6, <2>8 DEF D!IInv
<1>15. CASE D!ParseGreeting(buf).status = "error"
  <2>1. D!Refuse("none", replies)
    BY <1>2, <1>8, <1>15 DEF D!TakeGreeting
  <2>2. stage' = "closed" /\ pending' = pending /\ replies' = <<>> /\ target' = None
    BY <1>1, <2>1 DEF D!Refuse
  <2>3. D!TypeOK'
    BY <1>9, <1>12, <2>2 DEF D!IInv, D!TypeOK
  <2>4. "succeeded" \notin D!ToSet(replies')
    BY <2>2, SocksAnswers
  <2>5. D!Handshake'
    BY <1>9, <1>11, <2>2, <2>4 DEF D!Handshake
  <2>6. D!SocksTarget'
    BY <2>2, <2>4 DEF D!SocksTarget
  <2> QED
    BY <2>3, <2>5, <2>6 DEF D!IInv
<1>16. CASE D!ParseGreeting(buf).status = "ok"
  <2>1. PICK rest : rest = SubSeq(buf, Len(g) + 1, Len(buf))
    OBVIOUS
  <2>2. Append(replies, "method") = <<"method">>
    BY <1>1
  <2>3. \/ rest = <<>> /\ D!Await(<<>>, "request", <<"method">>)
        \/ rest # <<>> /\ D!TakeRequest(rest, <<"method">>)
    BY <1>2, <1>8, <1>16, <2>1, <2>2 DEF D!TakeGreeting
  <2>4. Len(g) <= Len(buf)
    BY <1>8, <1>16
  <2>5. /\ rest \in Seq(D!Byte) /\ Len(rest) = Len(buf) - Len(g)
        /\ \A i \in 1..Len(rest) : rest[i] = buf[Len(g) + i]
    <3>1. \A i \in Len(g) + 1..Len(buf) : buf[i] \in D!Byte
      BY <1>3, <1>6
    <3>2. Len(g) + 1 \in Int /\ Len(buf) \in Int
      BY <1>6
    <3>3. /\ rest \in Seq(D!Byte)
          /\ Len(rest) = IF Len(g) + 1 <= Len(buf) THEN Len(buf) - (Len(g) + 1) + 1 ELSE 0
          /\ \A i \in 1..Len(buf) - (Len(g) + 1) + 1 : rest[i] = buf[Len(g) + 1 + i - 1]
      BY <2>1, <3>1, <3>2, SubSeqProperties
    <3>4. Len(rest) = Len(buf) - Len(g)
      BY <1>6, <2>4, <3>3
    <3>5. \A i \in 1..Len(rest) : Len(g) + 1 + i - 1 = Len(g) + i /\ i \in 1..Len(buf) - (Len(g) + 1) + 1
      BY <1>6, <3>4
    <3> QED
      BY <3>3, <3>4, <3>5
  <2>6. Len(g) + Len(rest) = D!Delivered'
    BY <1>3, <1>6, <2>4, <2>5
  <2>7. \A i \in 1..Len(rest) : rest[i] = D!Script[Len(g) + i]
    <3>1. \A i \in 1..Len(rest) : Len(g) + i \in 1..Len(buf)
      BY <1>6, <2>4, <2>5
    <3> QED
      <4> TAKE i \in 1..Len(rest)
      <4>1. PICK k \in 1..Len(buf) : k = Len(g) + i
        BY <3>1
      <4>2. buf[k] = D!Script[0 + k] /\ 0 + k = k
        BY <1>3, <1>6
      <4> QED
        BY <2>5, <4>1, <4>2
  <2>8. CASE rest # <<>> /\ D!TakeRequest(rest, <<"method">>)
    BY <1>1, <1>4, <1>10, <2>5, <2>6, <2>7, <2>8, SocksRequestArrives
  <2>9. CASE rest = <<>> /\ D!Await(<<>>, "request", <<"method">>)
    <3>1. stage' = "request" /\ pending' = <<>> /\ replies' = <<"method">> /\ target' = None
      BY <1>1, <2>9 DEF D!Await
    <3>2. D!TypeOK'
      <4>1. replies' \in Seq(D!Answer) /\ pending' \in Seq(D!Byte)
        BY <3>1, SocksAnswers DEF D!Answer
      <4> QED
        BY <1>9, <1>12, <3>1, <4>1 DEF D!IInv, D!TypeOK
    <3>3. D!ParseRequest(<<>>).status = "incomplete" /\ Len(<<>>) = 0
      BY DEF D!ParseRequest, D!Incomplete
    <3>4. Len(g) + 0 = D!Delivered'
      BY <2>6, <2>9, <3>3
    <3>5. D!Awaited(D!ParseRequest(pending), Len(preamble[1]))'
      BY <1>4, <1>9, <3>1, <3>3, <3>4 DEF D!Awaited, D!ParseRequest
    <3>6. "succeeded" \notin D!ToSet(replies')
      BY <3>1, SocksAnswers
    <3>7. D!Handshake'
      BY <1>1, <1>9, <1>11, <3>1, <3>5, <3>6 DEF D!Handshake
    <3>8. written' - Len(wire') < Len(D!Hello')
      <4>1. Len(preamble[2]) > 0
        <5>1. D!ParseRequest(preamble[2]).status # "incomplete"
          BY PreambleAssumption DEF D!IInv, D!TypeOK
        <5> QED
          BY <1>5, <5>1, SocksRequestLength
      <4> QED
        BY <1>5, <1>6, <1>9, <1>13, <3>4, <4>1
    <3>9. D!SocksTarget'
      BY <3>1, <3>6, <3>8 DEF D!SocksTarget
    <3> QED
      BY <3>2, <3>7, <3>9 DEF D!IInv
  <2> QED
    BY <2>3, <2>8, <2>9
<1> QED
  BY <1>8, <1>14, <1>15, <1>16

\* The wire gives or is left alone; the handshake is over.
LEMMA SocksOver ==
  ASSUME D!IInv, D!TypeOK', UNCHANGED <<v1, v2, v3, v7, v8>>,
         v5' \in {"opening", "piped", "closed"},
         \A i \in 1..Len(v4') : v4'[i] = D!Script[D!Delivered' + i]
  PROVE  D!IInv'
<1> DEFINE preamble == v2
<1>1. D!Script' = D!Script /\ D!Hello' = D!Hello
  BY DEF D!Script, D!Hello
<1>2. D!Handshake'
  BY <1>1 DEF D!IInv, D!Handshake
<1>3. D!ParseRequest(preamble[2])' = D!ParseRequest(preamble[2])
  BY DEF D!ParseRequest, D!HostOf, D!PortOffset, D!UInt16, D!At, D!Incomplete, D!Bad
<1>4. D!SocksTarget'
  BY <1>3 DEF D!IInv, D!SocksTarget
<1> QED
  BY <1>2, <1>4 DEF D!IInv

LEMMA SocksChannelKeeps ==
  ASSUME D!IInv, D!ChannelOpens \/ D!ChannelRefused \/ D!PipeEnds
  PROVE  D!IInv'
<1> DEFINE kind == v1
           preamble == v2
           written == v3
           wire == v4
           stage == v5
           pending == v6
           replies == v7
           target == v8
           received == v9
<1>1. /\ UNCHANGED <<kind, preamble, written, wire, pending, replies, target, received>>
      /\ stage' \in {"opening", "piped", "closed"}
  BY DEF D!ChannelOpens, D!ChannelRefused, D!PipeEnds
<1>2. D!TypeOK'
  BY <1>1 DEF D!IInv, D!TypeOK, D!Script, D!Hello
<1>3. D!Delivered' = D!Delivered
  BY <1>1 DEF D!Delivered
<1>4. \A i \in 1..Len(wire') : wire'[i] = D!Script[D!Delivered' + i]
  BY <1>1, <1>3 DEF D!IInv, D!Handshake
<1> QED
  BY <1>1, <1>2, <1>4, SocksOver

LEMMA SocksDataKeeps ==
  ASSUME D!IInv, NEW n \in 1..Len(v4), D!UnheardData(n) \/ D!PipedData(n)
  PROVE  D!IInv'
<1> DEFINE kind == v1
           preamble == v2
           written == v3
           wire == v4
           stage == v5
           pending == v6
           replies == v7
           target == v8
           received == v9
<1>1. D!ChunkFor(n) /\ UNCHANGED <<stage, pending, replies, target>> /\ stage \in {"opening", "piped"}
  BY DEF D!UnheardData, D!PipedData
<1>2. /\ wire' \in Seq(D!Byte) /\ Len(wire') = Len(wire) - n /\ Len(wire) \in Nat /\ written \in Nat
      /\ D!Delivered' <= written /\ D!Delivered' \in Nat /\ Len(wire') <= written'
      /\ \A i \in 1..Len(wire') : wire'[i] = D!Script[D!Delivered' + i]
      /\ UNCHANGED <<kind, preamble, written>>
      /\ D!Script' = D!Script /\ D!Hello' = D!Hello
      /\ SubSeq(wire, 1, n) \in Seq(D!Byte)
  BY <1>1, SocksChunk DEF D!IInv
<1>3. received' \in Seq(D!Byte)
  <2>1. received \in Seq(D!Byte)
    BY DEF D!IInv, D!TypeOK
  <2>2. received' = received \/ received' = received \o SubSeq(wire, 1, n)
    BY DEF D!UnheardData, D!PipedData
  <2> QED
    BY <1>2, <2>1, <2>2, ConcatProperties
<1>4. Len(wire') <= written'
  BY <1>2 DEF D!IInv, D!TypeOK
<1>5. D!TypeOK'
  BY <1>1, <1>2, <1>3, <1>4 DEF D!IInv, D!TypeOK
<1> QED
  BY <1>1, <1>2, <1>5, SocksOver

LEMMA SocksClientWritesKeeps ==
  ASSUME D!IInv, D!ClientWrites
  PROVE  D!IInv'
<1> DEFINE kind == v1
           preamble == v2
           written == v3
           wire == v4
           stage == v5
           pending == v6
           replies == v7
           target == v8
           received == v9
<1>1. /\ written < Len(D!Script) /\ written' = written + 1 /\ wire' = Append(wire, D!Script[written + 1])
      /\ UNCHANGED <<kind, preamble, stage, pending, replies, target, received>>
      /\ kind = "dynamic" /\ written >= Len(D!Hello) => "succeeded" \in D!ToSet(replies)
  BY DEF D!ClientWrites
<1>2. D!Script' = D!Script /\ D!Hello' = D!Hello
  BY <1>1 DEF D!Script, D!Hello
<1>3. D!Script \in Seq(D!Byte)
  BY SocksScriptBytes DEF D!IInv, D!TypeOK
<1>4. PICK s \in Seq(D!Byte) : s = D!Script
  BY <1>3
<1>5. PICK w \in Nat : w = written
  BY <1>3 DEF D!IInv, D!TypeOK
<1>6. PICK q \in Seq(D!Byte) : q = wire
  BY DEF D!IInv, D!TypeOK
<1>7. w < Len(s) /\ Len(q) <= w /\ Len(q) \in Nat /\ Len(s) \in Nat /\ w + 1 \in 1..Len(s)
  BY <1>1, <1>4, <1>5, <1>6 DEF D!IInv, D!TypeOK
<1>8. s[w + 1] \in D!Byte /\ wire' = Append(q, s[w + 1])
  BY <1>1, <1>4, <1>5, <1>6, <1>7
<1>9. /\ wire' \in Seq(D!Byte) /\ Len(wire') = Len(q) + 1 /\ wire'[Len(q) + 1] = s[w + 1]
      /\ \A i \in 1..Len(q) : wire'[i] = q[i]
  BY <1>8, AppendProperties
<1>10. D!Delivered = w - Len(q) /\ D!Delivered' = w - Len(q)
  <2>1. D!Delivered = w - Len(q) /\ D!Delivered' = (w + 1) - (Len(q) + 1)
    BY <1>1, <1>5, <1>6, <1>9 DEF D!Delivered
  <2> QED
    BY <1>7, <2>1
<1>11. \A i \in 1..Len(q) : q[i] = s[(w - Len(q)) + i]
  BY <1>4, <1>6, <1>10 DEF D!IInv, D!Handshake
<1>12. \A i \in 1..Len(wire') : wire'[i] = s[(w - Len(q)) + i]
  <2> SUFFICES ASSUME NEW i \in 1..Len(wire') PROVE wire'[i] = s[(w - Len(q)) + i]
    OBVIOUS
  <2>1. CASE i \in 1..Len(q)
    BY <1>9, <1>11, <2>1
  <2>2. CASE i = Len(q) + 1
    <3>1. (w - Len(q)) + i = w + 1
      BY <1>7, <2>2
    <3> QED
      BY <1>9, <2>2, <3>1
  <2> QED
    BY <1>7, <1>9, <2>1, <2>2
<1>13. \A i \in 1..Len(wire') : wire'[i] = D!Script'[D!Delivered' + i]
  BY <1>2, <1>4, <1>10, <1>12
<1>14. written' \in 0..Len(D!Script') /\ Len(wire') <= written'
  BY <1>1, <1>2, <1>4, <1>5, <1>7, <1>9
<1>15. D!TypeOK'
  BY <1>1, <1>9, <1>14 DEF D!IInv, D!TypeOK
<1>16. kind = "dynamic" /\ "succeeded" \notin D!ToSet(replies) => written' <= Len(D!Hello')
  <2> SUFFICES ASSUME kind = "dynamic", "succeeded" \notin D!ToSet(replies) PROVE written' <= Len(D!Hello')
    OBVIOUS
  <2>1. ~(written >= Len(D!Hello))
    BY <1>1
  <2>2. Len(D!Hello) \in Nat
    <3> HIDE DEF D!Hello
    <3>1. /\ preamble[1] \in Seq(D!Byte) /\ preamble[2] \in Seq(D!Byte)
          /\ Len(D!Hello) = Len(preamble[1]) + Len(preamble[2])
      BY SocksScriptBytes DEF D!IInv, D!TypeOK
    <3>2. PICK a \in Nat, b \in Nat : a = Len(preamble[1]) /\ b = Len(preamble[2])
      BY <3>1
    <3>3. Len(D!Hello) = a + b
      BY <3>1, <3>2
    <3> QED
      BY <3>3
  <2>3. PICK h \in Nat : h = Len(D!Hello)
    BY <2>2
  <2> QED
    BY <1>1, <1>2, <1>5, <2>1, <2>3
<1>17. \A from : D!Awaited(D!ParseGreeting(pending), from)' <=> D!Awaited(D!ParseGreeting(pending), from)
  BY <1>1, <1>2, <1>10 DEF D!Awaited, D!ParseGreeting
<1>18. D!Awaited(D!ParseRequest(pending), Len(preamble[1]))' <=> D!Awaited(D!ParseRequest(pending), Len(preamble[1]))
  BY <1>1, <1>2, <1>10 DEF D!Awaited, D!ParseRequest
<1>19. D!Handshake'
  BY <1>1, <1>13, <1>16, <1>17, <1>18 DEF D!IInv, D!Handshake
<1>20. D!SocksTarget'
  <2>1. D!ParseRequest(preamble[2])' = D!ParseRequest(preamble[2])
    BY <1>1 DEF D!ParseRequest, D!HostOf, D!PortOffset, D!UInt16, D!At, D!Incomplete, D!Bad
  <2>2. written' - Len(wire') = written - Len(wire)
    <3>1. written' - Len(wire') = D!Delivered' /\ written - Len(wire) = D!Delivered
      BY DEF D!Delivered
    <3> QED
      BY <1>10, <3>1
  <2> QED
    BY <1>1, <1>2, <2>1, <2>2 DEF D!IInv, D!SocksTarget
<1> QED
  BY <1>15, <1>19, <1>20 DEF D!IInv

LEMMA SocksInitHolds ==
  ASSUME D!Init
  PROVE  D!IInv
<1> DEFINE kind == v1
           preamble == v2
           written == v3
           wire == v4
           stage == v5
           pending == v6
           replies == v7
           target == v8
           received == v9
<1>1. Len(wire) = 0 /\ Len(pending) = 0 /\ written = 0 /\ preamble \in SocksPreambles /\ kind \in {"local", "dynamic"}
      /\ wire = <<>> /\ pending = <<>> /\ replies = <<>> /\ target = None /\ received = <<>>
  BY DEF D!Init
<1>2. /\ preamble[1] \in Seq(D!Byte) /\ preamble[2] \in Seq(D!Byte) /\ D!Script \in Seq(D!Byte)
      /\ kind = "dynamic" => Len(D!Hello) = Len(preamble[1]) + Len(preamble[2])
  BY <1>1, SocksScriptBytes
<1>3. Len(preamble[1]) \in Nat /\ Len(preamble[2]) \in Nat /\ Len(D!Script) \in Nat
  BY <1>2
<1>4. D!TypeOK
  <2>1. written \in 0..Len(D!Script) /\ Len(wire) <= written
    BY <1>1, <1>3
  <2>2. wire \in Seq(D!Byte) /\ pending \in Seq(D!Byte) /\ received \in Seq(D!Byte) /\ replies \in Seq(D!Answer)
    BY <1>1
  <2> QED
    BY <1>1, <2>1, <2>2 DEF D!Init, D!TypeOK
<1>5. D!ParseGreeting(<<>>).status = "incomplete"
  BY DEF D!ParseGreeting, D!Incomplete
<1>6. D!Delivered = 0
  BY <1>1 DEF D!Delivered
<1>7. "succeeded" \notin D!ToSet(replies)
  BY <1>1, SocksAnswers
<1>8. D!Handshake
  <2>1. D!Awaited(D!ParseGreeting(pending), 0)
    BY <1>1, <1>5, <1>6 DEF D!Awaited
  <2>2. kind = "dynamic" => written <= Len(D!Hello)
    BY <1>1, <1>2, <1>3
  <2>3. stage # "request" /\ (kind = "local" => stage # "greeting")
    BY DEF D!Init
  <2> QED
    BY <1>1, <2>1, <2>2, <2>3 DEF D!Handshake
<1>9. D!SocksTarget
  <2>1. kind = "dynamic" => written - Len(wire) < Len(D!Hello)
    <3>1. Len(preamble[2]) > 0
      <4>1. D!ParseRequest(preamble[2]).status # "incomplete"
        BY <1>1, PreambleAssumption
      <4> QED
        BY <1>2, <4>1, SocksRequestLength
    <3> QED
      <4>1. PICK a \in Nat, b \in Nat : a = Len(preamble[1]) /\ b = Len(preamble[2]) /\ b > 0
        BY <1>3, <3>1
      <4>2. kind = "dynamic" => Len(D!Hello) = a + b
        BY <1>2, <4>1
      <4>3. written - Len(wire) = 0
        BY <1>1
      <4>4. 0 < a + b
        BY <4>1, SocksSums
      <4> QED
        BY <4>2, <4>3, <4>4
  <2> QED
    BY <1>1, <1>7, <2>1 DEF D!SocksTarget
<1> QED
  BY <1>4, <1>8, <1>9 DEF D!IInv

LEMMA SocksStutterStep ==
  ASSUME D!IInv, UNCHANGED D!vars
  PROVE  D!IInv'
<1> DEFINE kind == v1
           preamble == v2
           written == v3
           wire == v4
           stage == v5
           pending == v6
           replies == v7
           target == v8
           received == v9
<1>1. UNCHANGED <<kind, preamble, written, wire, stage, pending, replies, target, received>>
  BY DEF D!vars
<1>2. D!Script' = D!Script /\ D!Hello' = D!Hello /\ D!Delivered' = D!Delivered
  BY <1>1 DEF D!Script, D!Hello, D!Delivered
<1>3. D!ParseRequest(preamble[2])' = D!ParseRequest(preamble[2])
  BY <1>1 DEF D!ParseRequest, D!HostOf, D!PortOffset, D!UInt16, D!At, D!Incomplete, D!Bad
<1>4. \A from : D!Awaited(D!ParseGreeting(pending), from)' <=> D!Awaited(D!ParseGreeting(pending), from)
  BY <1>1, <1>2 DEF D!Awaited, D!ParseGreeting
<1>5. D!Awaited(D!ParseRequest(pending), Len(preamble[1]))' <=> D!Awaited(D!ParseRequest(pending), Len(preamble[1]))
  BY <1>1, <1>2 DEF D!Awaited, D!ParseRequest
<1>6. D!TypeOK' /\ D!SocksTarget'
  BY <1>1, <1>2, <1>3 DEF D!IInv, D!TypeOK, D!SocksTarget
<1>7. D!Handshake'
  BY <1>1, <1>2, <1>4, <1>5 DEF D!IInv, D!Handshake
<1> QED
  BY <1>6, <1>7 DEF D!IInv

LEMMA SocksNextStep ==
  ASSUME D!IInv, D!Next
  PROVE  D!IInv'
<1> DEFINE wire == v4
<1>1. CASE D!ClientWrites
  BY <1>1, SocksClientWritesKeeps
<1>2. CASE \E n \in 1..Len(wire) : D!HandshakeData(n)
  <2>1. PICK n \in 1..Len(wire) : D!HandshakeData(n)
    BY <1>2
  <2> QED
    BY <2>1, SocksGreetingDataKeeps, SocksRequestDataKeeps DEF D!HandshakeData
<1>3. CASE \E n \in 1..Len(wire) : D!UnheardData(n) \/ D!PipedData(n)
  BY <1>3, SocksDataKeeps
<1>4. CASE D!ChannelOpens \/ D!ChannelRefused \/ D!PipeEnds
  BY <1>4, SocksChannelKeeps
<1> QED
  BY <1>1, <1>2, <1>3, <1>4 DEF D!Next

-----------------------------------------------------------------------------
\* Connectors: what is open is held by what will close it.

\* A promise is settled with an outcome and a cause.
LEMMA ConnectorSettled ==
  ASSUME K!TypeOK, NEW is \in K!Outcome, NEW by \in K!Cause, K!Settles(is, by)
  PROVE  v10' \in [is : K!Outcome, by : K!Cause \cup {None}]
BY DEF K!TypeOK, K!Settles, K!Outcome, K!Cause

\* What ends is open, and what is lost neither.
LEMMA ConnectorOpenOrEnding ==
  ASSUME v6 \subseteq v5, v5 \subseteq K!Connection, NEW which
  PROVE  /\ K!End(which) /\ v5' = v5 => v6' \subseteq v5
         /\ K!Lose(which) => v6' \subseteq v5' /\ v5' \subseteq K!Connection
BY DEF K!End, K!Lose

LEMMA ConnectorStartStep ==
  ASSUME K!IInv, K!Start
  PROVE  K!IInv'
<1> USE NoneAssumption DEF K!Session, K!Command, K!Ssh, K!Connection, K!Pending, K!shape, K!setup,
        K!Settles, K!Lose, K!Riding, K!End
<1>1. K!TypeOK'
  BY DEF K!Start, K!IInv, K!TypeOK, K!Outcome, K!Cause, K!AfterProxy, K!Coded, K!Finish, K!Cleanup
<1>2. K!Unsettled'
  BY DEF K!Start, K!IInv, K!TypeOK, K!Unsettled, K!Reached, K!AfterProxy, K!Coded, K!Finish,
     K!Cleanup
<1>3. K!Reached'
  BY DEF K!Start, K!IInv, K!TypeOK, K!Unsettled, K!Reached, K!AfterProxy, K!Coded, K!Finish,
     K!Cleanup
<1>4. K!WhatIsOpenIsHeld'
  BY DEF K!Start, K!IInv, K!TypeOK, K!Unsettled, K!Reached, K!WhatIsOpenIsHeld, K!AfterProxy,
     K!Coded, K!Finish, K!Cleanup
<1>5. K!CommandsLeaveNothing'
  BY DEF K!Start, K!IInv, K!TypeOK, K!Unsettled, K!Reached, K!CommandsLeaveNothing, K!AfterProxy,
     K!Coded, K!Finish, K!Cleanup
<1>6. K!SessionsLeaveNothing'
  BY DEF K!Start, K!IInv, K!TypeOK, K!Unsettled, K!Reached, K!WhatIsOpenIsHeld,
     K!SessionsLeaveNothing, K!AfterProxy, K!Coded, K!Finish, K!Cleanup
<1>7. K!RefusalIsTold'
  BY DEF K!Start, K!IInv, K!TypeOK, K!Unsettled, K!Reached, K!RefusalIsTold, K!AfterProxy, K!Coded,
     K!Finish, K!Cleanup
<1> QED
  BY <1>1, <1>2, <1>3, <1>4, <1>5, <1>6, <1>7 DEF K!IInv

LEMMA ConnectorSocksConnectsStep ==
  ASSUME K!IInv, K!SocksConnects
  PROVE  K!IInv'
<1> DEFINE at == v4
           open == v5
           ending == v6
           result == v10
<1> USE NoneAssumption DEF K!Session, K!Command, K!Ssh, K!Connection, K!Pending, K!shape, K!setup,
        K!Settles, K!Lose, K!Riding, K!End
<1>1. K!TypeOK'
  <2>1. result' \in [is : K!Outcome, by : K!Cause \cup {None}]
    BY ConnectorSettled DEF K!SocksConnects, K!IInv, K!TypeOK, K!Outcome, K!Cause
  <2>2. ending' \subseteq open' /\ open' \subseteq K!Connection
    BY DEF K!SocksConnects, K!IInv, K!TypeOK, K!Unsettled, K!Connection
  <2>3. at' \in {"target", "jumper", "over"}
    BY DEF K!SocksConnects, K!AfterProxy
  <2> QED
    BY <2>1, <2>2, <2>3 DEF K!SocksConnects, K!IInv, K!TypeOK
<1>2. K!Unsettled'
  BY DEF K!SocksConnects, K!IInv, K!TypeOK, K!Unsettled, K!Reached, K!AfterProxy, K!Coded,
     K!Finish, K!Cleanup
<1>3. K!Reached'
  BY DEF K!SocksConnects, K!IInv, K!TypeOK, K!Unsettled, K!Reached, K!AfterProxy, K!Coded,
     K!Finish, K!Cleanup
<1>4. K!WhatIsOpenIsHeld'
  BY DEF K!SocksConnects, K!IInv, K!TypeOK, K!Unsettled, K!Reached, K!WhatIsOpenIsHeld,
     K!AfterProxy, K!Coded, K!Finish, K!Cleanup
<1>5. K!CommandsLeaveNothing'
  <2>1. open = {} /\ result = K!Pending /\ result.by = None
    BY DEF K!SocksConnects, K!IInv, K!Reached, K!Unsettled
  <2> QED
    BY <2>1 DEF K!SocksConnects, K!CommandsLeaveNothing
<1>6. K!SessionsLeaveNothing'
  BY DEF K!SocksConnects, K!IInv, K!TypeOK, K!Unsettled, K!Reached, K!WhatIsOpenIsHeld,
     K!SessionsLeaveNothing, K!AfterProxy, K!Coded, K!Finish, K!Cleanup
<1>7. K!RefusalIsTold'
  BY DEF K!SocksConnects, K!IInv, K!TypeOK, K!Unsettled, K!Reached, K!RefusalIsTold, K!AfterProxy,
     K!Coded, K!Finish, K!Cleanup
<1> QED
  BY <1>1, <1>2, <1>3, <1>4, <1>5, <1>6, <1>7 DEF K!IInv

LEMMA ConnectorProxyConnectsStep ==
  ASSUME K!IInv, K!ProxyConnects
  PROVE  K!IInv'
<1> DEFINE at == v4
           open == v5
           ending == v6
           result == v10
<1> USE NoneAssumption DEF K!Session, K!Command, K!Ssh, K!Connection, K!Pending, K!shape, K!setup,
        K!Settles, K!Lose, K!Riding, K!End
<1>1. K!TypeOK'
  <2>1. result' \in [is : K!Outcome, by : K!Cause \cup {None}]
    BY DEF K!ProxyConnects, K!IInv, K!TypeOK
  <2>2. ending' \subseteq open' /\ open' \subseteq K!Connection
    BY DEF K!ProxyConnects, K!IInv, K!TypeOK, K!Unsettled, K!Connection
  <2>3. at' = "asked"
    BY DEF K!ProxyConnects, K!IInv, K!TypeOK
  <2> QED
    BY <2>1, <2>2, <2>3 DEF K!ProxyConnects, K!IInv, K!TypeOK
<1>2. K!Unsettled'
  BY DEF K!ProxyConnects, K!IInv, K!TypeOK, K!Unsettled, K!Reached, K!AfterProxy, K!Coded,
     K!Finish, K!Cleanup
<1>3. K!Reached'
  BY DEF K!ProxyConnects, K!IInv, K!TypeOK, K!Unsettled, K!Reached, K!AfterProxy, K!Coded,
     K!Finish, K!Cleanup
<1>4. K!WhatIsOpenIsHeld'
  BY DEF K!ProxyConnects, K!IInv, K!TypeOK, K!Unsettled, K!Reached, K!WhatIsOpenIsHeld,
     K!AfterProxy, K!Coded, K!Finish, K!Cleanup
<1>5. K!CommandsLeaveNothing'
  BY DEF K!ProxyConnects, K!IInv, K!TypeOK, K!Unsettled, K!Reached, K!CommandsLeaveNothing,
     K!AfterProxy, K!Coded, K!Finish, K!Cleanup
<1>6. K!SessionsLeaveNothing'
  BY DEF K!ProxyConnects, K!IInv, K!TypeOK, K!Unsettled, K!Reached, K!WhatIsOpenIsHeld,
     K!SessionsLeaveNothing, K!AfterProxy, K!Coded, K!Finish, K!Cleanup
<1>7. K!RefusalIsTold'
  BY DEF K!ProxyConnects, K!IInv, K!TypeOK, K!Unsettled, K!Reached, K!RefusalIsTold, K!AfterProxy,
     K!Coded, K!Finish, K!Cleanup
<1> QED
  BY <1>1, <1>2, <1>3, <1>4, <1>5, <1>6, <1>7 DEF K!IInv

LEMMA ConnectorProxyAnswersStep ==
  ASSUME K!IInv, K!ProxyAnswers
  PROVE  K!IInv'
<1> DEFINE at == v4
           open == v5
           ending == v6
           result == v10
<1> USE NoneAssumption DEF K!Session, K!Command, K!Ssh, K!Connection, K!Pending, K!shape, K!setup,
        K!Settles, K!Lose, K!Riding, K!End
<1>1. K!TypeOK'
  <2>1. result' \in [is : K!Outcome, by : K!Cause \cup {None}]
    BY ConnectorSettled DEF K!ProxyAnswers, K!IInv, K!TypeOK, K!Outcome, K!Cause
  <2>2. ending' \subseteq open' /\ open' \subseteq K!Connection
    BY ConnectorOpenOrEnding DEF K!ProxyAnswers, K!IInv, K!TypeOK
  <2>3. at' \in {"target", "jumper", "over"}
    BY DEF K!ProxyAnswers, K!AfterProxy
  <2> QED
    BY <2>1, <2>2, <2>3 DEF K!ProxyAnswers, K!IInv, K!TypeOK
<1>2. K!Unsettled'
  BY DEF K!ProxyAnswers, K!IInv, K!TypeOK, K!Unsettled, K!Reached, K!AfterProxy, K!Coded, K!Finish,
     K!Cleanup
<1>3. K!Reached'
  BY DEF K!ProxyAnswers, K!IInv, K!TypeOK, K!Unsettled, K!Reached, K!AfterProxy, K!Coded, K!Finish,
     K!Cleanup
<1>4. K!WhatIsOpenIsHeld'
  BY DEF K!ProxyAnswers, K!IInv, K!TypeOK, K!Unsettled, K!Reached, K!WhatIsOpenIsHeld,
     K!AfterProxy, K!Coded, K!Finish, K!Cleanup
<1>5. K!CommandsLeaveNothing'
  BY DEF K!ProxyAnswers, K!IInv, K!TypeOK, K!Unsettled, K!Reached, K!CommandsLeaveNothing,
     K!AfterProxy, K!Coded, K!Finish, K!Cleanup
<1>6. K!SessionsLeaveNothing'
  BY DEF K!ProxyAnswers, K!IInv, K!TypeOK, K!Unsettled, K!Reached, K!WhatIsOpenIsHeld,
     K!SessionsLeaveNothing, K!AfterProxy, K!Coded, K!Finish, K!Cleanup
<1>7. K!RefusalIsTold'
  BY DEF K!ProxyAnswers, K!IInv, K!TypeOK, K!Unsettled, K!Reached, K!RefusalIsTold, K!AfterProxy,
     K!Coded, K!Finish, K!Cleanup
<1> QED
  BY <1>1, <1>2, <1>3, <1>4, <1>5, <1>6, <1>7 DEF K!IInv

LEMMA ConnectorProxyFailsStep ==
  ASSUME K!IInv, K!ProxyFails
  PROVE  K!IInv'
<1> USE NoneAssumption DEF K!Session, K!Command, K!Ssh, K!Connection, K!Pending, K!shape, K!setup,
        K!Settles, K!Lose, K!Riding, K!End
<1>1. K!TypeOK'
  BY DEF K!ProxyFails, K!IInv, K!TypeOK, K!Outcome, K!Cause, K!AfterProxy, K!Coded, K!Finish,
     K!Cleanup
<1>2. K!Unsettled'
  BY DEF K!ProxyFails, K!IInv, K!TypeOK, K!Unsettled, K!Reached, K!AfterProxy, K!Coded, K!Finish,
     K!Cleanup
<1>3. K!Reached'
  BY DEF K!ProxyFails, K!IInv, K!TypeOK, K!Unsettled, K!Reached, K!AfterProxy, K!Coded, K!Finish,
     K!Cleanup
<1>4. K!WhatIsOpenIsHeld'
  BY DEF K!ProxyFails, K!IInv, K!TypeOK, K!Unsettled, K!Reached, K!WhatIsOpenIsHeld, K!AfterProxy,
     K!Coded, K!Finish, K!Cleanup
<1>5. K!CommandsLeaveNothing'
  BY DEF K!ProxyFails, K!IInv, K!TypeOK, K!Unsettled, K!Reached, K!CommandsLeaveNothing,
     K!AfterProxy, K!Coded, K!Finish, K!Cleanup
<1>6. K!SessionsLeaveNothing'
  BY DEF K!ProxyFails, K!IInv, K!TypeOK, K!Unsettled, K!Reached, K!WhatIsOpenIsHeld,
     K!SessionsLeaveNothing, K!AfterProxy, K!Coded, K!Finish, K!Cleanup
<1>7. K!RefusalIsTold'
  BY DEF K!ProxyFails, K!IInv, K!TypeOK, K!Unsettled, K!Reached, K!RefusalIsTold, K!AfterProxy,
     K!Coded, K!Finish, K!Cleanup
<1> QED
  BY <1>1, <1>2, <1>3, <1>4, <1>5, <1>6, <1>7 DEF K!IInv

LEMMA ConnectorProxyClosesStep ==
  ASSUME K!IInv, K!ProxyCloses
  PROVE  K!IInv'
<1> USE NoneAssumption DEF K!Session, K!Command, K!Ssh, K!Connection, K!Pending, K!shape, K!setup,
        K!Settles, K!Lose, K!Riding, K!End
<1>1. K!TypeOK'
  BY DEF K!ProxyCloses, K!IInv, K!TypeOK, K!Outcome, K!Cause, K!AfterProxy, K!Coded, K!Finish,
     K!Cleanup
<1>2. K!Unsettled'
  BY DEF K!ProxyCloses, K!IInv, K!TypeOK, K!Unsettled, K!Reached, K!AfterProxy, K!Coded, K!Finish,
     K!Cleanup
<1>3. K!Reached'
  BY DEF K!ProxyCloses, K!IInv, K!TypeOK, K!Unsettled, K!Reached, K!AfterProxy, K!Coded, K!Finish,
     K!Cleanup
<1>4. K!WhatIsOpenIsHeld'
  BY DEF K!ProxyCloses, K!IInv, K!TypeOK, K!Unsettled, K!Reached, K!WhatIsOpenIsHeld, K!AfterProxy,
     K!Coded, K!Finish, K!Cleanup
<1>5. K!CommandsLeaveNothing'
  BY DEF K!ProxyCloses, K!IInv, K!TypeOK, K!Unsettled, K!Reached, K!CommandsLeaveNothing,
     K!AfterProxy, K!Coded, K!Finish, K!Cleanup
<1>6. K!SessionsLeaveNothing'
  BY DEF K!ProxyCloses, K!IInv, K!TypeOK, K!Unsettled, K!Reached, K!WhatIsOpenIsHeld,
     K!SessionsLeaveNothing, K!AfterProxy, K!Coded, K!Finish, K!Cleanup
<1>7. K!RefusalIsTold'
  BY DEF K!ProxyCloses, K!IInv, K!TypeOK, K!Unsettled, K!Reached, K!RefusalIsTold, K!AfterProxy,
     K!Coded, K!Finish, K!Cleanup
<1> QED
  BY <1>1, <1>2, <1>3, <1>4, <1>5, <1>6, <1>7 DEF K!IInv

LEMMA ConnectorJumperFailsStep ==
  ASSUME K!IInv, K!JumperFails
  PROVE  K!IInv'
<1> USE NoneAssumption DEF K!Session, K!Command, K!Ssh, K!Connection, K!Pending, K!shape, K!setup,
        K!Settles, K!Lose, K!Riding, K!End
<1>1. K!TypeOK'
  BY DEF K!JumperFails, K!IInv, K!TypeOK, K!Outcome, K!Cause, K!AfterProxy, K!Coded, K!Finish,
     K!Cleanup
<1>2. K!Unsettled'
  BY DEF K!JumperFails, K!IInv, K!TypeOK, K!Unsettled, K!Reached, K!AfterProxy, K!Coded, K!Finish,
     K!Cleanup
<1>3. K!Reached'
  BY DEF K!JumperFails, K!IInv, K!TypeOK, K!Unsettled, K!Reached, K!AfterProxy, K!Coded, K!Finish,
     K!Cleanup
<1>4. K!WhatIsOpenIsHeld'
  BY DEF K!JumperFails, K!IInv, K!TypeOK, K!Unsettled, K!Reached, K!WhatIsOpenIsHeld, K!AfterProxy,
     K!Coded, K!Finish, K!Cleanup
<1>5. K!CommandsLeaveNothing'
  BY DEF K!JumperFails, K!IInv, K!TypeOK, K!Unsettled, K!Reached, K!CommandsLeaveNothing,
     K!AfterProxy, K!Coded, K!Finish, K!Cleanup
<1>6. K!SessionsLeaveNothing'
  BY DEF K!JumperFails, K!IInv, K!TypeOK, K!Unsettled, K!Reached, K!WhatIsOpenIsHeld,
     K!SessionsLeaveNothing, K!AfterProxy, K!Coded, K!Finish, K!Cleanup
<1>7. K!RefusalIsTold'
  BY DEF K!JumperFails, K!IInv, K!TypeOK, K!Unsettled, K!Reached, K!RefusalIsTold, K!AfterProxy,
     K!Coded, K!Finish, K!Cleanup
<1> QED
  BY <1>1, <1>2, <1>3, <1>4, <1>5, <1>6, <1>7 DEF K!IInv

LEMMA ConnectorJumperReadyStep ==
  ASSUME K!IInv, K!JumperReady
  PROVE  K!IInv'
<1> DEFINE at == v4
           open == v5
           ending == v6
           held == v7
           result == v10
<1> USE NoneAssumption DEF K!Session, K!Command, K!Ssh, K!Connection, K!Pending, K!shape, K!setup,
        K!Settles, K!Lose, K!Riding, K!End
<1>1. K!TypeOK'
  <2>1. result' \in [is : K!Outcome, by : K!Cause \cup {None}]
    BY DEF K!JumperReady, K!IInv, K!TypeOK
  <2>2. ending' \subseteq open' /\ open' \subseteq K!Connection
    BY DEF K!JumperReady, K!IInv, K!TypeOK, K!Unsettled, K!Connection
  <2>3. held' \subseteq K!Connection /\ at' = "forward"
    BY DEF K!JumperReady, K!IInv, K!TypeOK
  <2> QED
    BY <2>1, <2>2, <2>3 DEF K!JumperReady, K!IInv, K!TypeOK
<1>2. K!Unsettled'
  BY DEF K!JumperReady, K!IInv, K!TypeOK, K!Unsettled, K!Reached, K!AfterProxy, K!Coded, K!Finish,
     K!Cleanup
<1>3. K!Reached'
  BY DEF K!JumperReady, K!IInv, K!TypeOK, K!Unsettled, K!Reached, K!AfterProxy, K!Coded, K!Finish,
     K!Cleanup
<1>4. K!WhatIsOpenIsHeld'
  BY DEF K!JumperReady, K!IInv, K!TypeOK, K!Unsettled, K!Reached, K!WhatIsOpenIsHeld, K!AfterProxy,
     K!Coded, K!Finish, K!Cleanup
<1>5. K!CommandsLeaveNothing'
  BY DEF K!JumperReady, K!IInv, K!TypeOK, K!Unsettled, K!Reached, K!CommandsLeaveNothing,
     K!AfterProxy, K!Coded, K!Finish, K!Cleanup
<1>6. K!SessionsLeaveNothing'
  BY DEF K!JumperReady, K!IInv, K!TypeOK, K!Unsettled, K!Reached, K!WhatIsOpenIsHeld,
     K!SessionsLeaveNothing, K!AfterProxy, K!Coded, K!Finish, K!Cleanup
<1>7. K!RefusalIsTold'
  BY DEF K!JumperReady, K!IInv, K!TypeOK, K!Unsettled, K!Reached, K!RefusalIsTold, K!AfterProxy,
     K!Coded, K!Finish, K!Cleanup
<1> QED
  BY <1>1, <1>2, <1>3, <1>4, <1>5, <1>6, <1>7 DEF K!IInv

LEMMA ConnectorForwardedStep ==
  ASSUME K!IInv, K!Forwarded
  PROVE  K!IInv'
<1> DEFINE at == v4
           open == v5
           ending == v6
           held == v7
           result == v10
<1> USE NoneAssumption DEF K!Session, K!Command, K!Ssh, K!Connection, K!Pending, K!shape, K!setup,
        K!Settles, K!Lose, K!Riding, K!End
<1>1. K!TypeOK'
  <2>1. result' \in [is : K!Outcome, by : K!Cause \cup {None}]
    BY ConnectorSettled DEF K!Forwarded, K!IInv, K!TypeOK, K!Outcome, K!Cause
  <2>2. ending' \subseteq open' /\ open' \subseteq K!Connection
    BY ConnectorOpenOrEnding DEF K!Forwarded, K!IInv, K!TypeOK
  <2>3. held' \subseteq K!Connection /\ at' \in {"target", "over"}
    BY DEF K!Forwarded, K!IInv, K!TypeOK
  <2> QED
    BY <2>1, <2>2, <2>3 DEF K!Forwarded, K!IInv, K!TypeOK
<1>2. K!Unsettled'
  BY DEF K!Forwarded, K!IInv, K!TypeOK, K!Unsettled, K!Reached, K!AfterProxy, K!Coded, K!Finish,
     K!Cleanup
<1>3. K!Reached'
  BY DEF K!Forwarded, K!IInv, K!TypeOK, K!Unsettled, K!Reached, K!AfterProxy, K!Coded, K!Finish,
     K!Cleanup
<1>4. K!WhatIsOpenIsHeld'
  BY DEF K!Forwarded, K!IInv, K!TypeOK, K!Unsettled, K!Reached, K!WhatIsOpenIsHeld, K!AfterProxy,
     K!Coded, K!Finish, K!Cleanup
<1>5. K!CommandsLeaveNothing'
  BY DEF K!Forwarded, K!IInv, K!TypeOK, K!Unsettled, K!Reached, K!CommandsLeaveNothing,
     K!AfterProxy, K!Coded, K!Finish, K!Cleanup
<1>6. K!SessionsLeaveNothing'
  BY DEF K!Forwarded, K!IInv, K!TypeOK, K!Unsettled, K!Reached, K!WhatIsOpenIsHeld,
     K!SessionsLeaveNothing, K!AfterProxy, K!Coded, K!Finish, K!Cleanup
<1>7. K!RefusalIsTold'
  BY DEF K!Forwarded, K!IInv, K!TypeOK, K!Unsettled, K!Reached, K!RefusalIsTold, K!AfterProxy,
     K!Coded, K!Finish, K!Cleanup
<1> QED
  BY <1>1, <1>2, <1>3, <1>4, <1>5, <1>6, <1>7 DEF K!IInv

LEMMA ConnectorDialStep ==
  ASSUME K!IInv, K!Dial
  PROVE  K!IInv'
<1> USE NoneAssumption DEF K!Session, K!Command, K!Ssh, K!Connection, K!Pending, K!shape, K!setup,
        K!Settles, K!Lose, K!Riding, K!End
<1>1. K!TypeOK'
  BY DEF K!Dial, K!IInv, K!TypeOK, K!Outcome, K!Cause, K!AfterProxy, K!Coded, K!Finish, K!Cleanup
<1>2. K!Unsettled'
  BY DEF K!Dial, K!IInv, K!TypeOK, K!Unsettled, K!Reached, K!AfterProxy, K!Coded, K!Finish,
     K!Cleanup
<1>3. K!Reached'
  BY DEF K!Dial, K!IInv, K!TypeOK, K!Unsettled, K!Reached, K!AfterProxy, K!Coded, K!Finish,
     K!Cleanup
<1>4. K!WhatIsOpenIsHeld'
  BY DEF K!Dial, K!IInv, K!TypeOK, K!Unsettled, K!Reached, K!WhatIsOpenIsHeld, K!AfterProxy,
     K!Coded, K!Finish, K!Cleanup
<1>5. K!CommandsLeaveNothing'
  BY DEF K!Dial, K!IInv, K!TypeOK, K!Unsettled, K!Reached, K!CommandsLeaveNothing, K!AfterProxy,
     K!Coded, K!Finish, K!Cleanup
<1>6. K!SessionsLeaveNothing'
  BY DEF K!Dial, K!IInv, K!TypeOK, K!Unsettled, K!Reached, K!WhatIsOpenIsHeld,
     K!SessionsLeaveNothing, K!AfterProxy, K!Coded, K!Finish, K!Cleanup
<1>7. K!RefusalIsTold'
  BY DEF K!Dial, K!IInv, K!TypeOK, K!Unsettled, K!Reached, K!RefusalIsTold, K!AfterProxy, K!Coded,
     K!Finish, K!Cleanup
<1> QED
  BY <1>1, <1>2, <1>3, <1>4, <1>5, <1>6, <1>7 DEF K!IInv

LEMMA ConnectorDialThrowsStep ==
  ASSUME K!IInv, K!DialThrows
  PROVE  K!IInv'
<1> USE NoneAssumption DEF K!Session, K!Command, K!Ssh, K!Connection, K!Pending, K!shape, K!setup,
        K!Settles, K!Lose, K!Riding, K!End
<1>1. K!TypeOK'
  BY DEF K!DialThrows, K!IInv, K!TypeOK, K!Outcome, K!Cause, K!AfterProxy, K!Coded, K!Finish,
     K!Cleanup
<1>2. K!Unsettled'
  BY DEF K!DialThrows, K!IInv, K!TypeOK, K!Unsettled, K!Reached, K!AfterProxy, K!Coded, K!Finish,
     K!Cleanup
<1>3. K!Reached'
  BY DEF K!DialThrows, K!IInv, K!TypeOK, K!Unsettled, K!Reached, K!AfterProxy, K!Coded, K!Finish,
     K!Cleanup
<1>4. K!WhatIsOpenIsHeld'
  BY DEF K!DialThrows, K!IInv, K!TypeOK, K!Unsettled, K!Reached, K!WhatIsOpenIsHeld, K!AfterProxy,
     K!Coded, K!Finish, K!Cleanup
<1>5. K!CommandsLeaveNothing'
  BY DEF K!DialThrows, K!IInv, K!TypeOK, K!Unsettled, K!Reached, K!CommandsLeaveNothing,
     K!AfterProxy, K!Coded, K!Finish, K!Cleanup
<1>6. K!SessionsLeaveNothing'
  BY DEF K!DialThrows, K!IInv, K!TypeOK, K!Unsettled, K!Reached, K!WhatIsOpenIsHeld,
     K!SessionsLeaveNothing, K!AfterProxy, K!Coded, K!Finish, K!Cleanup
<1>7. K!RefusalIsTold'
  BY DEF K!DialThrows, K!IInv, K!TypeOK, K!Unsettled, K!Reached, K!RefusalIsTold, K!AfterProxy,
     K!Coded, K!Finish, K!Cleanup
<1> QED
  BY <1>1, <1>2, <1>3, <1>4, <1>5, <1>6, <1>7 DEF K!IInv

LEMMA ConnectorKeyRefusedStep ==
  ASSUME K!IInv, K!KeyRefused
  PROVE  K!IInv'
<1> USE NoneAssumption DEF K!Session, K!Command, K!Ssh, K!Connection, K!Pending, K!shape, K!setup,
        K!Settles, K!Lose, K!Riding, K!End
<1>1. K!TypeOK'
  BY DEF K!KeyRefused, K!IInv, K!TypeOK, K!Outcome, K!Cause, K!AfterProxy, K!Coded, K!Finish,
     K!Cleanup
<1>2. K!Unsettled'
  BY DEF K!KeyRefused, K!IInv, K!TypeOK, K!Unsettled, K!Reached, K!AfterProxy, K!Coded, K!Finish,
     K!Cleanup
<1>3. K!Reached'
  BY DEF K!KeyRefused, K!IInv, K!TypeOK, K!Unsettled, K!Reached, K!AfterProxy, K!Coded, K!Finish,
     K!Cleanup
<1>4. K!WhatIsOpenIsHeld'
  BY DEF K!KeyRefused, K!IInv, K!TypeOK, K!Unsettled, K!Reached, K!WhatIsOpenIsHeld, K!AfterProxy,
     K!Coded, K!Finish, K!Cleanup
<1>5. K!CommandsLeaveNothing'
  BY DEF K!KeyRefused, K!IInv, K!TypeOK, K!Unsettled, K!Reached, K!CommandsLeaveNothing,
     K!AfterProxy, K!Coded, K!Finish, K!Cleanup
<1>6. K!SessionsLeaveNothing'
  BY DEF K!KeyRefused, K!IInv, K!TypeOK, K!Unsettled, K!Reached, K!WhatIsOpenIsHeld,
     K!SessionsLeaveNothing, K!AfterProxy, K!Coded, K!Finish, K!Cleanup
<1>7. K!RefusalIsTold'
  BY DEF K!KeyRefused, K!IInv, K!TypeOK, K!Unsettled, K!Reached, K!RefusalIsTold, K!AfterProxy,
     K!Coded, K!Finish, K!Cleanup
<1> QED
  BY <1>1, <1>2, <1>3, <1>4, <1>5, <1>6, <1>7 DEF K!IInv

LEMMA ConnectorDialFailsStep ==
  ASSUME K!IInv, K!DialFails
  PROVE  K!IInv'
<1> USE NoneAssumption DEF K!Session, K!Command, K!Ssh, K!Connection, K!Pending, K!shape, K!setup,
        K!Settles, K!Lose, K!Riding, K!End
<1>1. K!TypeOK'
  BY DEF K!DialFails, K!IInv, K!TypeOK, K!Outcome, K!Cause, K!AfterProxy, K!Coded, K!Finish,
     K!Cleanup
<1>2. K!Unsettled'
  BY DEF K!DialFails, K!IInv, K!TypeOK, K!Unsettled, K!Reached, K!AfterProxy, K!Coded, K!Finish,
     K!Cleanup
<1>3. K!Reached'
  BY DEF K!DialFails, K!IInv, K!TypeOK, K!Unsettled, K!Reached, K!AfterProxy, K!Coded, K!Finish,
     K!Cleanup
<1>4. K!WhatIsOpenIsHeld'
  BY DEF K!DialFails, K!IInv, K!TypeOK, K!Unsettled, K!Reached, K!WhatIsOpenIsHeld, K!AfterProxy,
     K!Coded, K!Finish, K!Cleanup
<1>5. K!CommandsLeaveNothing'
  BY DEF K!DialFails, K!IInv, K!TypeOK, K!Unsettled, K!Reached, K!CommandsLeaveNothing,
     K!AfterProxy, K!Coded, K!Finish, K!Cleanup
<1>6. K!SessionsLeaveNothing'
  BY DEF K!DialFails, K!IInv, K!TypeOK, K!Unsettled, K!Reached, K!WhatIsOpenIsHeld,
     K!SessionsLeaveNothing, K!AfterProxy, K!Coded, K!Finish, K!Cleanup
<1>7. K!RefusalIsTold'
  BY DEF K!DialFails, K!IInv, K!TypeOK, K!Unsettled, K!Reached, K!RefusalIsTold, K!AfterProxy,
     K!Coded, K!Finish, K!Cleanup
<1> QED
  BY <1>1, <1>2, <1>3, <1>4, <1>5, <1>6, <1>7 DEF K!IInv

LEMMA ConnectorReadyStep ==
  ASSUME K!IInv, K!Ready
  PROVE  K!IInv'
<1> DEFINE at == v4
           open == v5
           ending == v6
           held == v7
           result == v10
           listed == v11
<1> USE NoneAssumption DEF K!Session, K!Command, K!Ssh, K!Connection, K!Pending, K!shape, K!setup,
        K!Settles, K!Lose, K!Riding, K!End
<1>1. K!TypeOK'
  <2>1. result' \in [is : K!Outcome, by : K!Cause \cup {None}]
    BY ConnectorSettled DEF K!Ready, K!IInv, K!TypeOK, K!Outcome, K!Cause
  <2>2. ending' \subseteq open' /\ open' \subseteq K!Connection
    BY DEF K!Ready, K!IInv, K!TypeOK
  <2>3. /\ held' \subseteq K!Connection /\ at' \in {"opening", "up", "running"}
        /\ listed' \in BOOLEAN
    BY DEF K!Ready, K!IInv, K!TypeOK
  <2> QED
    BY <2>1, <2>2, <2>3 DEF K!Ready, K!IInv, K!TypeOK
<1>2. K!Unsettled'
  BY DEF K!Ready, K!IInv, K!TypeOK, K!Unsettled, K!Reached, K!AfterProxy, K!Coded, K!Finish,
     K!Cleanup
<1>3. K!Reached'
  BY DEF K!Ready, K!IInv, K!TypeOK, K!Unsettled, K!Reached, K!AfterProxy, K!Coded, K!Finish,
     K!Cleanup
<1>4. K!WhatIsOpenIsHeld'
  BY DEF K!Ready, K!IInv, K!TypeOK, K!Unsettled, K!Reached, K!WhatIsOpenIsHeld, K!AfterProxy,
     K!Coded, K!Finish, K!Cleanup
<1>5. K!CommandsLeaveNothing'
  BY DEF K!Ready, K!IInv, K!TypeOK, K!Unsettled, K!Reached, K!CommandsLeaveNothing, K!AfterProxy,
     K!Coded, K!Finish, K!Cleanup
<1>6. K!SessionsLeaveNothing'
  BY DEF K!Ready, K!IInv, K!TypeOK, K!Unsettled, K!Reached, K!WhatIsOpenIsHeld,
     K!SessionsLeaveNothing, K!AfterProxy, K!Coded, K!Finish, K!Cleanup
<1>7. K!RefusalIsTold'
  BY DEF K!Ready, K!IInv, K!TypeOK, K!Unsettled, K!Reached, K!RefusalIsTold, K!AfterProxy, K!Coded,
     K!Finish, K!Cleanup
<1> QED
  BY <1>1, <1>2, <1>3, <1>4, <1>5, <1>6, <1>7 DEF K!IInv

LEMMA ConnectorChannelRefusedStep ==
  ASSUME K!IInv, K!ChannelRefused
  PROVE  K!IInv'
<1> DEFINE kind == v1
           open == v5
           ending == v6
           result == v10
<1> USE NoneAssumption DEF K!Session, K!Command, K!Ssh, K!Connection, K!Pending, K!shape, K!setup,
        K!Settles, K!Lose, K!Riding, K!End
<1>1. K!TypeOK'
  BY DEF K!ChannelRefused, K!IInv, K!TypeOK, K!Outcome, K!Cause, K!AfterProxy, K!Coded, K!Finish,
     K!Cleanup
<1>2. K!Unsettled'
  BY DEF K!ChannelRefused, K!IInv, K!TypeOK, K!Unsettled, K!Reached, K!AfterProxy, K!Coded,
     K!Finish, K!Cleanup
<1>3. K!Reached'
  BY DEF K!ChannelRefused, K!IInv, K!TypeOK, K!Unsettled, K!Reached, K!AfterProxy, K!Coded,
     K!Finish, K!Cleanup
<1>4. K!WhatIsOpenIsHeld'
  BY DEF K!ChannelRefused, K!IInv, K!TypeOK, K!Unsettled, K!Reached, K!WhatIsOpenIsHeld,
     K!AfterProxy, K!Coded, K!Finish, K!Cleanup
<1>5. K!CommandsLeaveNothing'
  <2>1. kind \in K!Command => kind = "sshExec" /\ result = K!Pending
    BY DEF K!ChannelRefused, K!IInv, K!Reached, K!Unsettled, K!CommandsLeaveNothing, K!TypeOK
  <2>2. kind \in K!Command => ending' = ending \cup (open \cap {"conn", "jumper", "sock"})
    BY <2>1 DEF K!ChannelRefused, K!Finish, K!Cleanup
  <2> QED
    BY <2>2 DEF K!ChannelRefused, K!IInv, K!TypeOK, K!CommandsLeaveNothing
<1>6. K!SessionsLeaveNothing'
  BY DEF K!ChannelRefused, K!IInv, K!TypeOK, K!Unsettled, K!Reached, K!WhatIsOpenIsHeld,
     K!SessionsLeaveNothing, K!AfterProxy, K!Coded, K!Finish, K!Cleanup
<1>7. K!RefusalIsTold'
  BY DEF K!ChannelRefused, K!IInv, K!TypeOK, K!Unsettled, K!Reached, K!RefusalIsTold, K!AfterProxy,
     K!Coded, K!Finish, K!Cleanup
<1> QED
  BY <1>1, <1>2, <1>3, <1>4, <1>5, <1>6, <1>7 DEF K!IInv

LEMMA ConnectorShellStartedStep ==
  ASSUME K!IInv, K!ShellStarted
  PROVE  K!IInv'
<1> USE NoneAssumption DEF K!Session, K!Command, K!Ssh, K!Connection, K!Pending, K!shape, K!setup,
        K!Settles, K!Lose, K!Riding, K!End
<1>1. K!TypeOK'
  BY DEF K!ShellStarted, K!IInv, K!TypeOK, K!Outcome, K!Cause, K!AfterProxy, K!Coded, K!Finish,
     K!Cleanup
<1>2. K!Unsettled'
  BY DEF K!ShellStarted, K!IInv, K!TypeOK, K!Unsettled, K!Reached, K!AfterProxy, K!Coded, K!Finish,
     K!Cleanup
<1>3. K!Reached'
  BY DEF K!ShellStarted, K!IInv, K!TypeOK, K!Unsettled, K!Reached, K!AfterProxy, K!Coded, K!Finish,
     K!Cleanup
<1>4. K!WhatIsOpenIsHeld'
  BY DEF K!ShellStarted, K!IInv, K!TypeOK, K!Unsettled, K!Reached, K!WhatIsOpenIsHeld,
     K!AfterProxy, K!Coded, K!Finish, K!Cleanup
<1>5. K!CommandsLeaveNothing'
  BY DEF K!ShellStarted, K!IInv, K!TypeOK, K!Unsettled, K!Reached, K!CommandsLeaveNothing,
     K!AfterProxy, K!Coded, K!Finish, K!Cleanup
<1>6. K!SessionsLeaveNothing'
  BY DEF K!ShellStarted, K!IInv, K!TypeOK, K!Unsettled, K!Reached, K!WhatIsOpenIsHeld,
     K!SessionsLeaveNothing, K!AfterProxy, K!Coded, K!Finish, K!Cleanup
<1>7. K!RefusalIsTold'
  BY DEF K!ShellStarted, K!IInv, K!TypeOK, K!Unsettled, K!Reached, K!RefusalIsTold, K!AfterProxy,
     K!Coded, K!Finish, K!Cleanup
<1> QED
  BY <1>1, <1>2, <1>3, <1>4, <1>5, <1>6, <1>7 DEF K!IInv

LEMMA ConnectorCommandStartedStep ==
  ASSUME K!IInv, K!CommandStarted
  PROVE  K!IInv'
<1> USE NoneAssumption DEF K!Session, K!Command, K!Ssh, K!Connection, K!Pending, K!shape, K!setup,
        K!Settles, K!Lose, K!Riding, K!End
<1>1. K!TypeOK'
  BY DEF K!CommandStarted, K!IInv, K!TypeOK, K!Outcome, K!Cause, K!AfterProxy, K!Coded, K!Finish,
     K!Cleanup
<1>2. K!Unsettled'
  BY DEF K!CommandStarted, K!IInv, K!TypeOK, K!Unsettled, K!Reached, K!AfterProxy, K!Coded,
     K!Finish, K!Cleanup
<1>3. K!Reached'
  BY DEF K!CommandStarted, K!IInv, K!TypeOK, K!Unsettled, K!Reached, K!AfterProxy, K!Coded,
     K!Finish, K!Cleanup
<1>4. K!WhatIsOpenIsHeld'
  BY DEF K!CommandStarted, K!IInv, K!TypeOK, K!Unsettled, K!Reached, K!WhatIsOpenIsHeld,
     K!AfterProxy, K!Coded, K!Finish, K!Cleanup
<1>5. K!CommandsLeaveNothing'
  BY DEF K!CommandStarted, K!IInv, K!TypeOK, K!Unsettled, K!Reached, K!CommandsLeaveNothing,
     K!AfterProxy, K!Coded, K!Finish, K!Cleanup
<1>6. K!SessionsLeaveNothing'
  BY DEF K!CommandStarted, K!IInv, K!TypeOK, K!Unsettled, K!Reached, K!WhatIsOpenIsHeld,
     K!SessionsLeaveNothing, K!AfterProxy, K!Coded, K!Finish, K!Cleanup
<1>7. K!RefusalIsTold'
  BY DEF K!CommandStarted, K!IInv, K!TypeOK, K!Unsettled, K!Reached, K!RefusalIsTold, K!AfterProxy,
     K!Coded, K!Finish, K!Cleanup
<1> QED
  BY <1>1, <1>2, <1>3, <1>4, <1>5, <1>6, <1>7 DEF K!IInv

LEMMA ConnectorCommandEndsStep ==
  ASSUME K!IInv, K!CommandEnds
  PROVE  K!IInv'
<1> USE NoneAssumption DEF K!Session, K!Command, K!Ssh, K!Connection, K!Pending, K!shape, K!setup,
        K!Settles, K!Lose, K!Riding, K!End
<1>1. K!TypeOK'
  BY DEF K!CommandEnds, K!IInv, K!TypeOK, K!Outcome, K!Cause, K!AfterProxy, K!Coded, K!Finish,
     K!Cleanup
<1>2. K!Unsettled'
  BY DEF K!CommandEnds, K!IInv, K!TypeOK, K!Unsettled, K!Reached, K!AfterProxy, K!Coded, K!Finish,
     K!Cleanup
<1>3. K!Reached'
  BY DEF K!CommandEnds, K!IInv, K!TypeOK, K!Unsettled, K!Reached, K!AfterProxy, K!Coded, K!Finish,
     K!Cleanup
<1>4. K!WhatIsOpenIsHeld'
  BY DEF K!CommandEnds, K!IInv, K!TypeOK, K!Unsettled, K!Reached, K!WhatIsOpenIsHeld, K!AfterProxy,
     K!Coded, K!Finish, K!Cleanup
<1>5. K!CommandsLeaveNothing'
  BY DEF K!CommandEnds, K!IInv, K!TypeOK, K!Unsettled, K!Reached, K!CommandsLeaveNothing,
     K!AfterProxy, K!Coded, K!Finish, K!Cleanup
<1>6. K!SessionsLeaveNothing'
  BY DEF K!CommandEnds, K!IInv, K!TypeOK, K!Unsettled, K!Reached, K!WhatIsOpenIsHeld,
     K!SessionsLeaveNothing, K!AfterProxy, K!Coded, K!Finish, K!Cleanup
<1>7. K!RefusalIsTold'
  BY DEF K!CommandEnds, K!IInv, K!TypeOK, K!Unsettled, K!Reached, K!RefusalIsTold, K!AfterProxy,
     K!Coded, K!Finish, K!Cleanup
<1> QED
  BY <1>1, <1>2, <1>3, <1>4, <1>5, <1>6, <1>7 DEF K!IInv

LEMMA ConnectorTimerFiresStep ==
  ASSUME K!IInv, K!TimerFires
  PROVE  K!IInv'
<1> DEFINE at == v4
           open == v5
           ending == v6
           timer == v9
           result == v10
<1> USE NoneAssumption DEF K!Session, K!Command, K!Ssh, K!Connection, K!Pending, K!shape, K!setup,
        K!Settles, K!Lose, K!Riding, K!End
<1>1. K!TypeOK'
  <2>1. result' \in [is : K!Outcome, by : K!Cause \cup {None}]
    BY ConnectorSettled DEF K!TimerFires, K!IInv, K!TypeOK, K!Outcome, K!Cause
  <2>2. ending' \subseteq open' /\ open' \subseteq K!Connection
    BY ConnectorOpenOrEnding DEF K!TimerFires, K!IInv, K!TypeOK
  <2>3. at' \in {at, "over"} /\ timer' \in BOOLEAN
    BY DEF K!TimerFires, K!IInv, K!TypeOK
  <2> QED
    BY <2>1, <2>2, <2>3 DEF K!TimerFires, K!IInv, K!TypeOK
<1>2. K!Unsettled'
  BY DEF K!TimerFires, K!IInv, K!TypeOK, K!Unsettled, K!Reached, K!AfterProxy, K!Coded, K!Finish,
     K!Cleanup
<1>3. K!Reached'
  BY DEF K!TimerFires, K!IInv, K!TypeOK, K!Unsettled, K!Reached, K!AfterProxy, K!Coded, K!Finish,
     K!Cleanup
<1>4. K!WhatIsOpenIsHeld'
  BY DEF K!TimerFires, K!IInv, K!TypeOK, K!Unsettled, K!Reached, K!WhatIsOpenIsHeld, K!AfterProxy,
     K!Coded, K!Finish, K!Cleanup
<1>5. K!CommandsLeaveNothing'
  BY DEF K!TimerFires, K!IInv, K!TypeOK, K!Unsettled, K!Reached, K!CommandsLeaveNothing,
     K!AfterProxy, K!Coded, K!Finish, K!Cleanup
<1>6. K!SessionsLeaveNothing'
  BY DEF K!TimerFires, K!IInv, K!TypeOK, K!Unsettled, K!Reached, K!WhatIsOpenIsHeld,
     K!SessionsLeaveNothing, K!AfterProxy, K!Coded, K!Finish, K!Cleanup
<1>7. K!RefusalIsTold'
  BY DEF K!TimerFires, K!IInv, K!TypeOK, K!Unsettled, K!Reached, K!RefusalIsTold, K!AfterProxy,
     K!Coded, K!Finish, K!Cleanup
<1> QED
  BY <1>1, <1>2, <1>3, <1>4, <1>5, <1>6, <1>7 DEF K!IInv

LEMMA ConnectorConnectionClosesStep ==
  ASSUME K!IInv, K!ConnectionCloses
  PROVE  K!IInv'
<1> DEFINE at == v4
           open == v5
           ending == v6
           held == v7
           result == v10
           listed == v11
<1> USE NoneAssumption DEF K!Session, K!Command, K!Ssh, K!Connection, K!Pending, K!shape, K!setup,
        K!Settles, K!Lose, K!Riding, K!End
<1>1. K!TypeOK'
  <2>1. result' \in [is : K!Outcome, by : K!Cause \cup {None}]
    BY DEF K!ConnectionCloses, K!IInv, K!TypeOK
  <2>2. ending' \subseteq open' /\ open' \subseteq K!Connection
    BY ConnectorOpenOrEnding DEF K!ConnectionCloses, K!IInv, K!TypeOK
  <2>3. /\ held' \subseteq K!Connection /\ at' \in {at, "over"}
        /\ listed' \in BOOLEAN
    BY DEF K!ConnectionCloses, K!IInv, K!TypeOK
  <2> QED
    BY <2>1, <2>2, <2>3 DEF K!ConnectionCloses, K!IInv, K!TypeOK
<1>2. K!Unsettled'
  BY DEF K!ConnectionCloses, K!IInv, K!TypeOK, K!Unsettled, K!Reached, K!AfterProxy, K!Coded,
     K!Finish, K!Cleanup
<1>3. K!Reached'
  BY DEF K!ConnectionCloses, K!IInv, K!TypeOK, K!Unsettled, K!Reached, K!AfterProxy, K!Coded,
     K!Finish, K!Cleanup
<1>4. K!WhatIsOpenIsHeld'
  BY ZenonT(40) DEF K!ConnectionCloses, K!IInv, K!TypeOK, K!Unsettled, K!Reached, K!WhatIsOpenIsHeld,
     K!AfterProxy, K!Coded, K!Finish, K!Cleanup
<1>5. K!CommandsLeaveNothing'
  BY DEF K!ConnectionCloses, K!IInv, K!TypeOK, K!Unsettled, K!Reached, K!CommandsLeaveNothing,
     K!AfterProxy, K!Coded, K!Finish, K!Cleanup
<1>6. K!SessionsLeaveNothing'
  BY DEF K!ConnectionCloses, K!IInv, K!TypeOK, K!Unsettled, K!Reached, K!WhatIsOpenIsHeld,
     K!SessionsLeaveNothing, K!AfterProxy, K!Coded, K!Finish, K!Cleanup
<1>7. K!RefusalIsTold'
  BY DEF K!ConnectionCloses, K!IInv, K!TypeOK, K!Unsettled, K!Reached, K!RefusalIsTold,
     K!AfterProxy, K!Coded, K!Finish, K!Cleanup
<1> QED
  BY <1>1, <1>2, <1>3, <1>4, <1>5, <1>6, <1>7 DEF K!IInv

LEMMA ConnectorCloseSessionStep ==
  ASSUME K!IInv, K!CloseSession
  PROVE  K!IInv'
<1> USE NoneAssumption DEF K!Session, K!Command, K!Ssh, K!Connection, K!Pending, K!shape, K!setup,
        K!Settles, K!Lose, K!Riding, K!End
<1>1. K!TypeOK'
  BY ZenonT(40) DEF K!CloseSession, K!IInv, K!TypeOK, K!Outcome, K!Cause, K!AfterProxy, K!Coded, K!Finish,
     K!Cleanup
<1>2. K!Unsettled'
  BY DEF K!CloseSession, K!IInv, K!TypeOK, K!Unsettled, K!Reached, K!AfterProxy, K!Coded, K!Finish,
     K!Cleanup
<1>3. K!Reached'
  BY DEF K!CloseSession, K!IInv, K!TypeOK, K!Unsettled, K!Reached, K!AfterProxy, K!Coded, K!Finish,
     K!Cleanup
<1>4. K!WhatIsOpenIsHeld'
  BY DEF K!CloseSession, K!IInv, K!TypeOK, K!Unsettled, K!Reached, K!WhatIsOpenIsHeld,
     K!AfterProxy, K!Coded, K!Finish, K!Cleanup
<1>5. K!CommandsLeaveNothing'
  BY DEF K!CloseSession, K!IInv, K!TypeOK, K!Unsettled, K!Reached, K!CommandsLeaveNothing,
     K!AfterProxy, K!Coded, K!Finish, K!Cleanup
<1>6. K!SessionsLeaveNothing'
  BY DEF K!CloseSession, K!IInv, K!TypeOK, K!Unsettled, K!Reached, K!WhatIsOpenIsHeld,
     K!SessionsLeaveNothing, K!AfterProxy, K!Coded, K!Finish, K!Cleanup
<1>7. K!RefusalIsTold'
  BY DEF K!CloseSession, K!IInv, K!TypeOK, K!Unsettled, K!Reached, K!RefusalIsTold, K!AfterProxy,
     K!Coded, K!Finish, K!Cleanup
<1> QED
  BY <1>1, <1>2, <1>3, <1>4, <1>5, <1>6, <1>7 DEF K!IInv

LEMMA ConnectorInitHolds ==
  ASSUME K!Init
  PROVE  K!IInv
<1> USE NoneAssumption DEF K!Session, K!Command, K!Ssh, K!Connection, K!Pending
<1>1. K!TypeOK
  BY DEF K!Init, K!TypeOK, K!Outcome, K!Cause
<1>2. K!Unsettled /\ K!Reached /\ K!WhatIsOpenIsHeld
  BY DEF K!Init, K!Unsettled, K!Reached, K!WhatIsOpenIsHeld
<1>3. K!CommandsLeaveNothing /\ K!SessionsLeaveNothing /\ K!RefusalIsTold
  BY DEF K!Init, K!CommandsLeaveNothing, K!SessionsLeaveNothing, K!RefusalIsTold
<1> QED
  BY <1>1, <1>2, <1>3 DEF K!IInv

LEMMA ConnectorStutterStep ==
  ASSUME K!IInv, UNCHANGED K!vars
  PROVE  K!IInv'
BY DEF K!vars, K!IInv, K!TypeOK, K!Unsettled, K!Reached, K!WhatIsOpenIsHeld, K!CommandsLeaveNothing,
       K!SessionsLeaveNothing, K!RefusalIsTold

LEMMA ConnectorNextStep ==
  ASSUME K!IInv, K!Next
  PROVE  K!IInv'
BY ConnectorStartStep, ConnectorSocksConnectsStep, ConnectorProxyConnectsStep,
   ConnectorProxyAnswersStep, ConnectorProxyFailsStep, ConnectorProxyClosesStep,
   ConnectorJumperFailsStep, ConnectorJumperReadyStep, ConnectorForwardedStep, ConnectorDialStep,
   ConnectorDialThrowsStep, ConnectorKeyRefusedStep, ConnectorDialFailsStep, ConnectorReadyStep,
   ConnectorChannelRefusedStep, ConnectorShellStartedStep, ConnectorCommandStartedStep,
   ConnectorCommandEndsStep, ConnectorTimerFiresStep, ConnectorConnectionClosesStep,
   ConnectorCloseSessionStep DEF K!Next

-----------------------------------------------------------------------------
\* The size of a terminal: the last size on its way is the one on screen.

LEMMA SizeInitTabStep ==
  ASSUME Z!IInv, Z!InitTab
  PROVE  Z!IInv'
<1> DEFINE shown == v1
           pending == v2
           wire == v4
<1> USE SizeAssumption DEF Z!renderer, Z!main, Z!Sizes
<1>1. Z!TypeOK'
  <2>1. PICK size \in TerminalSizes :
          /\ shown' = size /\ pending' = size
          /\ wire' = wire \o Z!OnResize(size) \o << <<"open", size>>, <<"resize", size>> >>
    BY DEF Z!InitTab
  <2> DEFINE messages == Seq({"open", "resize"} \X Z!Sizes)
  <2>2. wire \in messages /\ Z!OnResize(size) \in messages /\ << <<"open", size>>, <<"resize", size>> >> \in messages
    <3>1. <<"resize", size>> \in {"open", "resize"} \X Z!Sizes /\ <<"open", size>> \in {"open", "resize"} \X Z!Sizes
      OBVIOUS
    <3>2. << <<"resize", size>> >> \in messages /\ << <<"open", size>>, <<"resize", size>> >> \in messages
      BY <3>1
    <3>3. wire \in messages
      BY DEF Z!IInv, Z!TypeOK
    <3> HIDE DEF messages
    <3>4. Z!OnResize(size) \in messages
      <4>1. <<>> \in messages
        BY DEF messages
      <4> QED
        BY <3>2, <4>1 DEF Z!OnResize
    <3> QED
      BY <3>2, <3>3, <3>4
  <2>3. \A a, b \in messages : a \o b \in messages
    OBVIOUS
  <2>4. wire' \in messages
    <3> HIDE DEF messages
    <3> QED
      BY <2>1, <2>2, <2>3
  <2> QED
    BY <2>1, <2>4 DEF Z!InitTab, Z!IInv, Z!TypeOK
<1>2. Z!OpenedOnce'
  BY DEF Z!InitTab, Z!IInv, Z!TypeOK, Z!OpenedOnce, Z!OnResize, Z!Applied
<1>3. Z!LastSizeCounts'
  BY DEF Z!InitTab, Z!IInv, Z!TypeOK, Z!OpenedOnce, Z!LastSizeCounts, Z!OnResize, Z!Applied
<1> QED
  BY <1>1, <1>2, <1>3 DEF Z!IInv

LEMMA SizeResizedStep ==
  ASSUME Z!IInv, Z!Resized
  PROVE  Z!IInv'
<1> DEFINE shown == v1
           pending == v2
           retries == v3
           wire == v4
           backend == v6
           asked == v7
<1> USE SizeAssumption DEF Z!renderer, Z!main, Z!Sizes
<1>1. Z!TypeOK'
  BY DEF Z!Resized, Z!IInv, Z!TypeOK, Z!OpenedOnce, Z!OnResize, Z!Applied
<1>2. Z!OpenedOnce'
  <2>1. PICK size \in TerminalSizes \ {shown} : shown' = size /\ wire' = wire \o << <<"resize", size>> >>
    BY DEF Z!Resized, Z!OnResize
  <2>2. wire \in Seq({"open", "resize"} \X Z!Sizes)
    BY DEF Z!IInv, Z!TypeOK
  <2>3. wire' = Append(wire, <<"resize", size>>)
    BY <2>1, <2>2
  <2>4. Len(wire') = Len(wire) + 1 /\ wire'[Len(wire) + 1] = <<"resize", size>> /\ Len(wire) \in Nat
        /\ \A k \in 1..Len(wire) : wire'[k] = wire[k]
    BY <2>2, <2>3
  <2>5. \A k \in 1..Len(wire') : wire'[k][1] = "open" => k \in 1..Len(wire) /\ wire'[k] = wire[k]
    BY <2>4
  <2>6. UNCHANGED <<retries, backend, asked, pending>> /\ retries # None
    BY DEF Z!Resized
  <2> HIDE <2>3, <2>4
  <2> QED
    BY <2>5, <2>6 DEF Z!IInv, Z!OpenedOnce
<1>3. Z!LastSizeCounts'
  <2>1. PICK size \in TerminalSizes \ {shown} : shown' = size /\ wire' = wire \o << <<"resize", size>> >>
    BY DEF Z!Resized, Z!OnResize
  <2>2. wire \in Seq({"open", "resize"} \X Z!Sizes)
    BY DEF Z!IInv, Z!TypeOK
  <2>3. wire' = Append(wire, <<"resize", size>>)
    BY <2>1, <2>2
  <2>4. Len(wire') = Len(wire) + 1 /\ wire'[Len(wire) + 1] = <<"resize", size>> /\ Len(wire) \in Nat
        /\ \A k \in 1..Len(wire) : wire'[k] = wire[k]
    BY <2>2, <2>3
  <2>5. wire'[Len(wire')][1] # "open" /\ wire'[Len(wire')][2] = shown'
    BY <2>1, <2>4
  <2> QED
    BY <2>4, <2>5 DEF Z!LastSizeCounts
<1> QED
  BY <1>1, <1>2, <1>3 DEF Z!IInv

LEMMA SizeSendAgainStep ==
  ASSUME Z!IInv, Z!SendAgain
  PROVE  Z!IInv'
<1> USE SizeAssumption DEF Z!renderer, Z!main, Z!Sizes
<1>1. Z!TypeOK'
  BY DEF Z!SendAgain, Z!IInv, Z!TypeOK, Z!OpenedOnce, Z!OnResize, Z!Applied
<1>2. Z!OpenedOnce'
  BY DEF Z!SendAgain, Z!IInv, Z!TypeOK, Z!OpenedOnce, Z!OnResize, Z!Applied
<1>3. Z!LastSizeCounts'
  BY DEF Z!SendAgain, Z!IInv, Z!TypeOK, Z!OpenedOnce, Z!LastSizeCounts, Z!OnResize, Z!Applied
<1> QED
  BY <1>1, <1>2, <1>3 DEF Z!IInv

LEMMA SizeHandleOpenStep ==
  ASSUME Z!IInv, Z!HandleOpen
  PROVE  Z!IInv'
<1> DEFINE shown == v1
           retries == v3
           wire == v4
           entry == v5
           backend == v6
           pty == v8
           missed == v11
<1> USE SizeAssumption DEF Z!renderer, Z!main, Z!Sizes
<1>1. Z!TypeOK'
  BY DEF Z!HandleOpen, Z!IInv, Z!TypeOK, Z!OpenedOnce, Z!OnResize, Z!Applied
<1>2. Z!OpenedOnce'
  BY DEF Z!HandleOpen, Z!IInv, Z!TypeOK, Z!OpenedOnce, Z!OnResize, Z!Applied
<1>3. Z!LastSizeCounts'
  <2>1. wire \in Seq({"open", "resize"} \X Z!Sizes) /\ wire # <<>> /\ wire' = Tail(wire)
    BY DEF Z!HandleOpen, Z!IInv, Z!TypeOK
  <2>2. /\ Len(wire) \in Nat /\ Len(wire) >= 1 /\ Len(wire') = Len(wire) - 1
        /\ \A k \in 1..Len(wire') : wire'[k] = wire[k + 1]
    BY <2>1, HeadTailProperties, EmptySeq
  <2>3. \A k \in 1..Len(wire) : wire[k][1] \in {"open", "resize"}
    BY <2>1
  <2>4. wire[1][1] = "open" /\ shown' = shown /\ missed' = missed /\ entry' = entry /\ pty' = pty
        /\ backend = "none" /\ backend' = "connecting" /\ retries' = retries
    BY <2>2 DEF Z!HandleOpen, Z!IInv, Z!OpenedOnce
  <2>5. ASSUME NEW k \in 1..Len(wire'), wire'[k][1] = "resize",
               \A j \in k + 1..Len(wire') : wire'[j][1] = "open"
        PROVE  wire'[k][2] = shown'
    <3>1. \A j \in (k + 1) + 1..Len(wire) : wire[j][1] = "open"
      <4> SUFFICES ASSUME NEW j \in (k + 1) + 1..Len(wire) PROVE wire[j][1] = "open"
        OBVIOUS
      <4>1. j - 1 \in k + 1..Len(wire') /\ wire'[j - 1] = wire[(j - 1) + 1] /\ (j - 1) + 1 = j
        BY <2>2
      <4> QED
        BY <2>5, <4>1
    <3> QED
      BY <2>2, <2>4, <2>5, <3>1 DEF Z!IInv, Z!LastSizeCounts
  <2>6. ASSUME \A k \in 1..Len(wire') : wire'[k][1] = "open", retries # None
        PROVE  missed \/ entry = shown
    <3>1. \A k \in 1..Len(wire) : wire[k][1] = "open"
      <4> SUFFICES ASSUME NEW k \in 1..Len(wire), k # 1 PROVE wire[k][1] = "open"
        BY <2>4
      <4>1. k - 1 \in 1..Len(wire') /\ wire'[k - 1] = wire[(k - 1) + 1] /\ (k - 1) + 1 = k
        BY <2>2
      <4> QED
        BY <2>6, <4>1
    <3> QED
      BY <2>4, <2>6, <3>1 DEF Z!IInv, Z!LastSizeCounts
  <2> QED
    BY <2>4, <2>5, <2>6 DEF Z!LastSizeCounts
<1> QED
  BY <1>1, <1>2, <1>3 DEF Z!IInv

LEMMA SizeHandleResizeStep ==
  ASSUME Z!IInv, Z!HandleResize
  PROVE  Z!IInv'
<1> DEFINE shown == v1
           retries == v3
           wire == v4
           entry == v5
           backend == v6
           pty == v8
           missed == v11
<1> USE SizeAssumption DEF Z!renderer, Z!main, Z!Sizes
<1>1. Z!TypeOK'
  BY DEF Z!HandleResize, Z!IInv, Z!TypeOK, Z!OpenedOnce, Z!OnResize, Z!Applied
<1>2. Z!OpenedOnce'
  BY DEF Z!HandleResize, Z!IInv, Z!TypeOK, Z!OpenedOnce, Z!OnResize, Z!Applied
<1>3. Z!LastSizeCounts'
  <2>1. wire \in Seq({"open", "resize"} \X Z!Sizes) /\ wire # <<>> /\ wire' = Tail(wire)
    BY DEF Z!HandleResize, Z!IInv, Z!TypeOK
  <2>2. /\ Len(wire) \in Nat /\ Len(wire) >= 1 /\ Len(wire') = Len(wire) - 1
        /\ \A k \in 1..Len(wire') : wire'[k] = wire[k + 1]
    BY <2>1, HeadTailProperties, EmptySeq
  <2>3. \A k \in 1..Len(wire) : wire[k][1] \in {"open", "resize"}
    BY <2>1
  <2>4. /\ wire[1][1] = "resize" /\ shown' = shown /\ backend' = backend /\ retries' = retries
        /\ entry' = IF entry = None /\ backend # "up" THEN wire[1][2] ELSE entry
        /\ pty' = IF backend = "up" THEN wire[1][2] ELSE pty
        /\ missed' = (backend # "up" /\ entry \notin {None, wire[1][2]})
    BY DEF Z!HandleResize
  <2>5. ASSUME NEW k \in 1..Len(wire'), wire'[k][1] = "resize",
               \A j \in k + 1..Len(wire') : wire'[j][1] = "open"
        PROVE  wire'[k][2] = shown'
    <3>1. \A j \in (k + 1) + 1..Len(wire) : wire[j][1] = "open"
      <4> SUFFICES ASSUME NEW j \in (k + 1) + 1..Len(wire) PROVE wire[j][1] = "open"
        OBVIOUS
      <4>1. j - 1 \in k + 1..Len(wire') /\ wire'[j - 1] = wire[(j - 1) + 1] /\ (j - 1) + 1 = j
        BY <2>2
      <4> QED
        BY <2>5, <4>1
    <3> QED
      BY <2>2, <2>4, <2>5, <3>1 DEF Z!IInv, Z!LastSizeCounts
  <2>6. ASSUME \A k \in 1..Len(wire') : wire'[k][1] = "open"
        PROVE  wire[1][2] = shown
    <3>1. \A j \in 1 + 1..Len(wire) : wire[j][1] = "open"
      <4> SUFFICES ASSUME NEW k \in 1 + 1..Len(wire) PROVE wire[k][1] = "open"
        OBVIOUS
      <4>1. k - 1 \in 1..Len(wire') /\ wire'[k - 1] = wire[(k - 1) + 1] /\ (k - 1) + 1 = k
        BY <2>2
      <4> QED
        BY <2>6, <4>1
    <3> QED
      BY <2>2, <2>4, <3>1 DEF Z!IInv, Z!LastSizeCounts
  <2>7. ASSUME \A k \in 1..Len(wire') : wire'[k][1] = "open"
        PROVE  missed' \/ IF backend' = "up" THEN pty' = shown' ELSE entry' = shown'
    <3>1. CASE backend = "up"
      BY <2>4, <2>6, <2>7, <3>1
    <3>2. CASE backend # "up" /\ entry \in {None, wire[1][2]}
      BY <2>4, <2>6, <2>7, <3>2
    <3>3. CASE backend # "up" /\ entry \notin {None, wire[1][2]}
      BY <2>4, <3>3
    <3> QED
      BY <3>1, <3>2, <3>3
  <2> QED
    BY <2>5, <2>7 DEF Z!LastSizeCounts
<1> QED
  BY <1>1, <1>2, <1>3 DEF Z!IInv

LEMMA SizeConnectedStep ==
  ASSUME Z!IInv, Z!Connected
  PROVE  Z!IInv'
<1> DEFINE shown == v1
           retries == v3
           wire == v4
           entry == v5
           backend == v6
           asked == v7
           pty == v8
           missed == v11
<1> USE SizeAssumption DEF Z!renderer, Z!main, Z!Sizes
<1>1. Z!TypeOK'
  BY DEF Z!Connected, Z!IInv, Z!TypeOK, Z!OpenedOnce, Z!OnResize, Z!Applied
<1>2. Z!OpenedOnce'
  BY DEF Z!Connected, Z!IInv, Z!TypeOK, Z!OpenedOnce, Z!OnResize, Z!Applied
<1>3. Z!LastSizeCounts'
  <2>1. /\ backend = "connecting" /\ backend' = "up" /\ pty' = Z!Applied(entry, asked)
        /\ missed' = (missed \/ (entry # None /\ entry[1] = asked[1] /\ entry[2] # asked[2]))
        /\ UNCHANGED <<wire, shown, retries>>
    BY DEF Z!Connected
  <2>2. shown \in Nat \X Nat /\ asked \in Nat \X Nat
    BY <2>1 DEF Z!IInv, Z!TypeOK, Z!OpenedOnce
  <2>3. ASSUME entry = shown
        PROVE  missed' \/ pty' = shown
    <3>1. entry # None
      BY <2>2, <2>3
    <3>2. CASE entry[1] # asked[1]
      BY <2>1, <2>3, <3>1, <3>2 DEF Z!Applied
    <3>3. CASE entry[1] = asked[1] /\ entry[2] = asked[2]
      <4>1. shown = asked
        BY <2>2, <2>3, <3>3
      <4> QED
        BY <2>1, <3>3, <4>1 DEF Z!Applied
    <3>4. CASE entry[1] = asked[1] /\ entry[2] # asked[2]
      BY <2>1, <3>1, <3>4
    <3> QED
      BY <3>2, <3>3, <3>4
  <2>4. missed => missed'
    BY <2>1
  <2>5. retries # None /\ (\A k \in 1..Len(wire) : wire[k][1] = "open") => missed \/ entry = shown
    BY <2>1 DEF Z!IInv, Z!LastSizeCounts
  <2>6. \A k \in 1..Len(wire) :
          wire[k][1] = "resize" /\ (\A j \in k + 1..Len(wire) : wire[j][1] = "open") => wire[k][2] = shown
    BY DEF Z!IInv, Z!LastSizeCounts
  <2> QED
    BY <2>1, <2>3, <2>4, <2>5, <2>6 DEF Z!LastSizeCounts
<1> QED
  BY <1>1, <1>2, <1>3 DEF Z!IInv

LEMMA SizePromptedStep ==
  ASSUME Z!IInv, Z!Prompted
  PROVE  Z!IInv'
<1> USE SizeAssumption DEF Z!renderer, Z!main, Z!Sizes
<1>1. Z!TypeOK'
  BY DEF Z!Prompted, Z!IInv, Z!TypeOK, Z!OpenedOnce, Z!OnResize, Z!Applied
<1>2. Z!OpenedOnce'
  BY DEF Z!Prompted, Z!IInv, Z!TypeOK, Z!OpenedOnce, Z!OnResize, Z!Applied
<1>3. Z!LastSizeCounts'
  BY DEF Z!Prompted, Z!IInv, Z!TypeOK, Z!OpenedOnce, Z!LastSizeCounts, Z!OnResize, Z!Applied
<1> QED
  BY <1>1, <1>2, <1>3 DEF Z!IInv

LEMMA SizeTrustedStep ==
  ASSUME Z!IInv, Z!Trusted
  PROVE  Z!IInv'
<1> DEFINE pending == v2
           wire == v4
           backend == v6
<1> USE SizeAssumption DEF Z!renderer, Z!main, Z!Sizes
<1>1. Z!TypeOK'
  BY DEF Z!Trusted, Z!IInv, Z!TypeOK, Z!OpenedOnce, Z!OnResize, Z!Applied
<1>2. Z!OpenedOnce'
  <2>1. /\ wire' = Append(wire, <<"open", pending>>) /\ wire \in Seq({"open", "resize"} \X Z!Sizes)
        /\ backend' = "none" /\ pending \in Z!Sizes /\ UNCHANGED Z!renderer
        /\ \A k \in 1..Len(wire) : wire[k][1] # "open"
    BY DEF Z!Trusted, Z!IInv, Z!TypeOK, Z!OpenedOnce
  <2>2. Len(wire') = Len(wire) + 1 /\ wire'[Len(wire) + 1] = <<"open", pending>>
    BY <2>1
  <2>3. \A k \in 1..Len(wire) : wire'[k][1] # "open"
    BY <2>1
  <2> QED
    BY <2>1, <2>2, <2>3 DEF Z!Trusted, Z!IInv, Z!OpenedOnce
<1>3. Z!LastSizeCounts'
  BY DEF Z!Trusted, Z!IInv, Z!TypeOK, Z!OpenedOnce, Z!LastSizeCounts, Z!OnResize, Z!Applied
<1> QED
  BY <1>1, <1>2, <1>3 DEF Z!IInv

LEMMA SizeInitHolds ==
  ASSUME Z!Init
  PROVE  Z!IInv
<1> DEFINE shown == v1
           retries == v3
           resizes == v9
           prompts == v10
           missed == v11
<1> USE SizeAssumption DEF Z!Sizes
<1>1. Z!TypeOK
  <2>1. <<>> \in Seq({"open", "resize"} \X Z!Sizes)
    OBVIOUS
  <2>2. shown \in Z!Sizes /\ retries = None /\ resizes \in 0..MaxResizes /\ prompts \in 0..MaxPrompts
    BY DEF Z!Init
  <2>3. missed \in BOOLEAN
    BY DEF Z!Init
  <2> QED
    BY <2>1, <2>2, <2>3 DEF Z!Init, Z!TypeOK
<1>2. Z!OpenedOnce /\ Z!LastSizeCounts
  BY DEF Z!Init, Z!OpenedOnce, Z!LastSizeCounts
<1> QED
  BY <1>1, <1>2 DEF Z!IInv

LEMMA SizeStutterStep ==
  ASSUME Z!IInv, UNCHANGED Z!vars
  PROVE  Z!IInv'
BY DEF Z!vars, Z!IInv, Z!TypeOK, Z!OpenedOnce, Z!LastSizeCounts

LEMMA SizeNextStep ==
  ASSUME Z!IInv, Z!Next
  PROVE  Z!IInv'
BY SizeInitTabStep, SizeResizedStep, SizeSendAgainStep, SizeHandleOpenStep, SizeHandleResizeStep,
   SizeConnectedStep, SizePromptedStep, SizeTrustedStep DEF Z!Next

LEMMA SizeFollows ==
  ASSUME Z!IInv
  PROVE  Z!PtyFollows
BY DEF Z!IInv, Z!PtyFollows, Z!LastSizeCounts, Z!OpenedOnce

-----------------------------------------------------------------------------
\* The file explorer: what is due is on its way, and an overlay has a reason.

LEMMA ExplorerFolderKnown == ASSUME NEW d \in ExplorerDir PROVE TempFolder[d] \in F!TempDir
BY DEF F!TempDir

LEMMA ExplorerInitHolds == F!Init => F!IInv
<1> SUFFICES ASSUME F!Init PROVE F!IInv
  OBVIOUS
<1>1. F!TabsTyped
  BY ExplorerAssumption DEF F!Init, F!TabsTyped
<1>2. F!BatchTyped
  BY ExplorerAssumption DEF F!Init, F!BatchTyped, F!Batch, F!NoBatch
<1>3. F!JobTyped
  BY ExplorerAssumption DEF F!Init, F!JobTyped, F!Job, F!NoJob
<1>4. F!MetaTyped
  BY ExplorerAssumption DEF F!Init, F!MetaTyped
<1>5. F!FilesTyped
  <2>1. \A r \in F!Remote : F!Original(r) \in F!Version
    BY ExplorerAssumption DEF F!Original, F!Version
  <2> QED BY <2>1 DEF F!Init, F!FilesTyped
<1>6. F!OpsTyped
  BY ExplorerAssumption DEF F!Init, F!OpsTyped
<1>7. F!Follows
  BY ExplorerAssumption DEF F!Init, F!Follows
<1>8. F!Lifts
  BY DEF F!Init, F!Lifts
<1>9. F!Sent
  BY DEF F!Init, F!Sent
<1> QED BY <1>1, <1>2, <1>3, <1>4, <1>5, <1>6, <1>7, <1>8, <1>9 DEF F!IInv, F!Typed

LEMMA ExplorerStutterStep == ASSUME F!IInv, UNCHANGED F!vars PROVE F!IInv'
BY DEF F!IInv, F!Typed, F!TabsTyped, F!BatchTyped, F!JobTyped, F!MetaTyped, F!FilesTyped,
   F!OpsTyped, F!Follows,
       F!Lifts, F!Sent, F!vars, F!tabVars, F!localVars, F!TooLarge

LEMMA ExplorerJobGoesOn ==
  ASSUME F!IInv, NEW t \in ExplorerTab, NEW at \in {"none", "open", "watch", "watched"},
         F!JobGoesTo(t, at), v7[t].at \notin {"none", "download"}
  PROVE  F!JobTyped'
<1> DEFINE job == v7
<1> DEFINE j == [job[t] EXCEPT !.at = at]
<1>1. j \in F!Job /\ j.dir \in ExplorerDir /\ j.folder \in F!TempDir
  BY DEF F!IInv, F!Typed, F!JobTyped, F!Job
<1>2. job' = [job EXCEPT ![t] = F!NoJob] \/ job' = [job EXCEPT ![t] = j]
  BY DEF F!JobGoesTo
<1>3. F!NoJob \in F!Job /\ F!NoJob.at = "none"
  BY DEF F!NoJob, F!Job
<1> HIDE DEF j
<1> QED BY <1>1, <1>2, <1>3 DEF F!IInv, F!Typed, F!JobTyped

LEMMA ExplorerRegisteredTyped ==
  ASSUME F!IInv, NEW t \in ExplorerTab, F!Registered(t), v7[t].at \notin {"none", "download"}
  PROVE  /\ v8' \in [ExplorerTab -> [F!TempDir -> F!Watch \cup {None}]]
         /\ \A x \in ExplorerTab, f \in F!TempDir : v8[x][f] # None => v8'[x][f] # None
<1> DEFINE job == v7
           meta == v8
<1> DEFINE w == [to |-> F!At(t, job[t].dir), new |-> job[t].new]
<1>1. job[t].folder \in F!TempDir /\ w \in F!Watch /\ w # None
  BY ExplorerAssumption DEF F!IInv, F!Typed, F!JobTyped, F!Job, F!Watch, F!At, F!Remote
<1>2. meta' = meta \/ meta' = [meta EXCEPT ![t][job[t].folder] = w]
  BY DEF F!Registered
<1> HIDE DEF w
<1> QED BY <1>1, <1>2 DEF F!IInv, F!Typed, F!MetaTyped

\* Saving writes a folder that a tab's job has, or the editor's.
LEMMA ExplorerWroteTyped ==
  ASSUME F!IInv, NEW f \in F!TempDir, NEW content \in F!Version \cup {None}, F!Wrote(f, content)
  PROVE  /\ v11' = [v11 EXCEPT ![f] = content] /\ v11' \in [F!TempDir -> F!Version \cup {None}]
         /\ v13' \in Seq(F!TempDir)
         /\ \A e \in F!TempDir : (\E i \in DOMAIN v13 : v13[i] = e)
                                 => \E i \in DOMAIN v13' : v13'[i] = e
         /\ (\E i \in DOMAIN v12 : v12[i] = f)
              => \E i \in DOMAIN v13' : v13'[i] = f
<1> DEFINE watchers == v12
           events == v13
<1>1. events \in Seq(F!TempDir)
  BY DEF F!IInv, F!Typed, F!FilesTyped
<1>2. events' = events \/ events' = Append(events, f)
  BY DEF F!Wrote
<1>3. Append(events, f) \in Seq(F!TempDir)
  BY <1>1, AppendProperties
<1>4. /\ DOMAIN events = 1..Len(events)
      /\ DOMAIN Append(events, f) = 1..(Len(events) + 1) /\ Len(events) \in Nat
      /\ \A i \in 1..Len(events) : Append(events, f)[i] = events[i]
      /\ Append(events, f)[Len(events) + 1] = f
  BY <1>1, <1>3, AppendProperties, LenProperties
<1>5. \A e \in F!TempDir : (\E i \in DOMAIN events : events[i] = e)
        => \E i \in DOMAIN events' : events'[i] = e
  <2> SUFFICES ASSUME NEW e \in F!TempDir, NEW i \in DOMAIN events, events[i] = e
               PROVE  \E k \in DOMAIN events' : events'[k] = e
    OBVIOUS
  <2>1. i \in DOMAIN Append(events, f) /\ Append(events, f)[i] = e
    BY <1>4
  <2> QED BY <2>1, <1>2
<1>6. (\E i \in DOMAIN watchers : watchers[i] = f) => \E i \in DOMAIN events' : events'[i] = f
  <2> SUFFICES ASSUME \E i \in DOMAIN watchers : watchers[i] = f
               PROVE  \E i \in DOMAIN events' : events'[i] = f
    OBVIOUS
  <2>1. events' = Append(events, f)
    BY DEF F!Wrote, F!ToSet
  <2>2. Len(events) + 1 \in DOMAIN Append(events, f)
    BY <1>4
  <2> QED BY <2>1, <2>2, <1>4
<1> QED BY <1>1, <1>2, <1>3, <1>5, <1>6 DEF F!Wrote, F!IInv, F!Typed, F!FilesTyped

LEMMA ExplorerGoStep ==
  ASSUME F!IInv, NEW t \in ExplorerTab, NEW d \in ExplorerDir, F!Go(t, d) PROVE F!IInv'
<1>1. F!TabsTyped'
  BY ExplorerAssumption DEF F!IInv, F!Typed, F!TabsTyped, F!Go, F!UserOf, F!Refresh, F!tabVars
<1>2. F!BatchTyped'
  BY ExplorerAssumption DEF F!IInv, F!Typed, F!BatchTyped, F!Go, F!UserOf, F!Refresh, F!Batch,
     F!NoBatch
<1>3. F!JobTyped'
  BY ExplorerAssumption DEF F!IInv, F!Typed, F!JobTyped, F!Go, F!UserOf, F!Refresh, F!Job, F!NoJob
<1>4. F!MetaTyped'
  BY ExplorerAssumption DEF F!IInv, F!Typed, F!MetaTyped, F!Go, F!UserOf, F!Refresh, F!tabVars,
     F!localVars
<1>5. F!FilesTyped'
  BY ExplorerAssumption DEF F!IInv, F!Typed, F!FilesTyped, F!Go, F!UserOf, F!Refresh, F!localVars
<1>6. F!OpsTyped'
  BY ExplorerAssumption DEF F!IInv, F!Typed, F!OpsTyped, F!Go, F!UserOf, F!Refresh
<1>7. F!Follows'
  BY ExplorerAssumption DEF F!IInv, F!Typed, F!Follows, F!TabsTyped, F!Go, F!UserOf, F!Refresh,
     F!tabVars
<1>8. F!Lifts'
  BY ExplorerAssumption DEF F!IInv, F!Typed, F!Lifts, F!TabsTyped, F!Go, F!UserOf, F!Refresh,
     F!tabVars
<1>9. F!Sent'
  BY ExplorerAssumption DEF F!IInv, F!Typed, F!Sent, F!TabsTyped, F!Go, F!UserOf, F!Refresh,
     F!tabVars, F!localVars, F!TooLarge
<1> QED BY <1>1, <1>2, <1>3, <1>4, <1>5, <1>6, <1>7, <1>8, <1>9 DEF F!IInv, F!Typed

LEMMA ExplorerListingArrivesStep ==
  ASSUME F!IInv, NEW t \in ExplorerTab, NEW d \in ExplorerDir, F!ListingArrives(t, d) PROVE F!IInv'
<1>1. F!TabsTyped'
  BY ExplorerAssumption DEF F!IInv, F!Typed, F!TabsTyped, F!ListingArrives, F!tabVars
<1>2. F!BatchTyped'
  BY ExplorerAssumption DEF F!IInv, F!Typed, F!BatchTyped, F!ListingArrives, F!Batch, F!NoBatch
<1>3. F!JobTyped'
  BY ExplorerAssumption DEF F!IInv, F!Typed, F!JobTyped, F!ListingArrives, F!Job, F!NoJob
<1>4. F!MetaTyped'
  BY ExplorerAssumption DEF F!IInv, F!Typed, F!MetaTyped, F!ListingArrives, F!tabVars, F!localVars
<1>5. F!FilesTyped'
  BY ExplorerAssumption DEF F!IInv, F!Typed, F!FilesTyped, F!ListingArrives, F!localVars
<1>6. F!OpsTyped'
  BY ExplorerAssumption DEF F!IInv, F!Typed, F!OpsTyped, F!ListingArrives
<1>7. F!Follows'
  BY ExplorerAssumption DEF F!IInv, F!Typed, F!Follows, F!TabsTyped, F!ListingArrives, F!tabVars
<1>8. F!Lifts'
  BY ExplorerAssumption DEF F!IInv, F!Typed, F!Lifts, F!TabsTyped, F!ListingArrives, F!tabVars
<1>9. F!Sent'
  BY ExplorerAssumption DEF F!IInv, F!Typed, F!Sent, F!TabsTyped, F!ListingArrives, F!tabVars,
     F!localVars, F!TooLarge
<1> QED BY <1>1, <1>2, <1>3, <1>4, <1>5, <1>6, <1>7, <1>8, <1>9 DEF F!IInv, F!Typed

LEMMA ExplorerListingFailsStep ==
  ASSUME F!IInv, NEW t \in ExplorerTab, NEW d \in ExplorerDir, F!ListingFails(t, d) PROVE F!IInv'
<1>1. F!TabsTyped'
  BY ExplorerAssumption DEF F!IInv, F!Typed, F!TabsTyped, F!ListingFails, F!tabVars
<1>2. F!BatchTyped'
  BY ExplorerAssumption DEF F!IInv, F!Typed, F!BatchTyped, F!ListingFails, F!Batch, F!NoBatch
<1>3. F!JobTyped'
  BY ExplorerAssumption DEF F!IInv, F!Typed, F!JobTyped, F!ListingFails, F!Job, F!NoJob
<1>4. F!MetaTyped'
  BY ExplorerAssumption DEF F!IInv, F!Typed, F!MetaTyped, F!ListingFails, F!tabVars, F!localVars
<1>5. F!FilesTyped'
  BY ExplorerAssumption DEF F!IInv, F!Typed, F!FilesTyped, F!ListingFails, F!localVars
<1>6. F!OpsTyped'
  BY ExplorerAssumption DEF F!IInv, F!Typed, F!OpsTyped, F!ListingFails
<1>7. F!Follows'
  BY ExplorerAssumption DEF F!IInv, F!Typed, F!Follows, F!TabsTyped, F!ListingFails, F!tabVars
<1>8. F!Lifts'
  BY ExplorerAssumption DEF F!IInv, F!Typed, F!Lifts, F!TabsTyped, F!ListingFails, F!tabVars
<1>9. F!Sent'
  BY ExplorerAssumption DEF F!IInv, F!Typed, F!Sent, F!TabsTyped, F!ListingFails, F!tabVars,
     F!localVars, F!TooLarge
<1> QED BY <1>1, <1>2, <1>3, <1>4, <1>5, <1>6, <1>7, <1>8, <1>9 DEF F!IInv, F!Typed

LEMMA ExplorerSubmitStep ==
  ASSUME F!IInv, NEW t \in ExplorerTab, NEW kind \in {"change", "delete", "upload", "edit"}, NEW n \in 1..2, F!Submit(t, kind, n) PROVE F!IInv'
<1> DEFINE open == v1
           path == v2
           saving == v5
           batch == v6
           uploads == v15
<1> DEFINE b == [kind |-> kind, left |-> n, dir |-> path[t]]
<1>b. b \in F!Batch /\ b.dir \in ExplorerDir /\ batch' = [batch EXCEPT ![t] = b]
  BY DEF F!IInv, F!Typed, F!TabsTyped, F!Submit, F!Batch
<1> HIDE DEF b
<1>1. F!TabsTyped'
  BY ExplorerAssumption DEF F!IInv, F!Typed, F!TabsTyped, F!Submit, F!UserOf, F!tabVars
<1>2. F!BatchTyped'
  BY <1>b DEF F!IInv, F!Typed, F!BatchTyped
<1>3. F!JobTyped'
  BY ExplorerAssumption DEF F!IInv, F!Typed, F!JobTyped, F!Submit, F!UserOf, F!Job, F!NoJob
<1>4. F!MetaTyped'
  BY ExplorerAssumption DEF F!IInv, F!Typed, F!MetaTyped, F!Submit, F!UserOf, F!tabVars, F!localVars
<1>5. F!FilesTyped'
  BY ExplorerAssumption DEF F!IInv, F!Typed, F!FilesTyped, F!Submit, F!UserOf, F!localVars
<1>6. F!OpsTyped'
  BY ExplorerAssumption DEF F!IInv, F!Typed, F!OpsTyped, F!Submit, F!UserOf
<1>7. F!Follows'
  BY ExplorerAssumption DEF F!IInv, F!Typed, F!Follows, F!TabsTyped, F!Submit, F!UserOf, F!tabVars
<1>8. F!Lifts'
  <2> SUFFICES ASSUME NEW x \in open, saving'[x]
               PROVE  batch'[x].kind \notin {"none", "delete"} \/ \E u \in uploads : u.tab = x
    BY DEF F!Lifts, F!Submit, F!tabVars
  <2>1. CASE x = t
    <3>1. kind # "delete"
      BY <2>1 DEF F!Submit, F!IInv, F!Typed, F!TabsTyped
    <3> QED BY <2>1, <3>1, <1>b DEF F!Submit, F!IInv, F!Typed, F!BatchTyped, b
  <2>2. CASE x # t
    BY <2>2, <1>b DEF F!Submit, F!IInv, F!Typed, F!TabsTyped, F!BatchTyped, F!Lifts
  <2> QED BY <2>1, <2>2
<1>9. F!Sent'
  BY ExplorerAssumption DEF F!IInv, F!Typed, F!Sent, F!TabsTyped, F!Submit, F!UserOf, F!tabVars,
     F!localVars, F!TooLarge
<1> QED BY <1>1, <1>2, <1>3, <1>4, <1>5, <1>6, <1>7, <1>8, <1>9 DEF F!IInv, F!Typed

LEMMA ExplorerAnsweredStep ==
  ASSUME F!IInv, NEW t \in ExplorerTab, F!Answered(t) PROVE F!IInv'
<1> DEFINE open == v1
           path == v2
           shown == v3
           reading == v4
           saving == v5
           batch == v6
           uploads == v15
           ops == v16
           went == v17
           failed == v18
<1>a. t \in open /\ batch[t] \in F!Batch /\ batch[t].left \in 1..2 /\ batch[t].dir \in ExplorerDir
  BY DEF F!IInv, F!Typed, F!BatchTyped, F!Answered, F!Batch
<1>p. \/ F!Pending(t) /\ batch[t].left # 1
      \/ F!Finished(t, TRUE) \/ F!Finished(t, FALSE)
  BY DEF F!Answered
<1>b. \/ /\ batch' = [batch EXCEPT ![t] = F!NoBatch]
         /\ saving' = [saving EXCEPT ![t] = IF batch[t].kind = "delete" THEN @ ELSE FALSE]
      \/ /\ batch' = [batch EXCEPT ![t].left = @ - 1] /\ batch[t].left # 1
         /\ saving' = saving
  BY <1>p DEF F!Finished, F!Pending
<1>c. reading' \in {reading, [reading EXCEPT ![t] = {path[t]}]}
  BY <1>p DEF F!Finished, F!Pending, F!Refresh
<1>f. \/ failed' = failed /\ reading' = reading
      \/ failed' = failed \ {t} /\ reading' = [reading EXCEPT ![t] = {path[t]}]
  BY <1>p DEF F!Finished, F!Pending, F!Refresh
<1>d. UNCHANGED <<open, path, shown, went, uploads>>
  BY DEF F!Answered
<1>1. F!TabsTyped'
  <2>1. reading \in [ExplorerTab -> SUBSET ExplorerDir] /\ saving \in [ExplorerTab -> BOOLEAN] /\ path[t] \in ExplorerDir
    BY DEF F!IInv, F!Typed, F!TabsTyped
  <2>2. reading' \in [ExplorerTab -> SUBSET ExplorerDir]
    BY <2>1, <1>c
  <2>3. saving' \in [ExplorerTab -> BOOLEAN]
    BY <2>1, <1>b
  <2> QED BY <2>2, <2>3, <1>d DEF F!IInv, F!Typed, F!TabsTyped
<1>2. F!BatchTyped'
  <2>1. CASE batch' = [batch EXCEPT ![t] = F!NoBatch]
    BY <2>1 DEF F!IInv, F!Typed, F!BatchTyped, F!Batch, F!NoBatch
  <2>2. CASE batch' = [batch EXCEPT ![t].left = @ - 1]
    <3>1. batch[t].left - 1 \in 0..2
      BY <1>a
    <3>2. [batch[t] EXCEPT !.left = @ - 1] \in F!Batch
      BY <1>a, <3>1 DEF F!Batch
    <3>3. batch'[t].dir = batch[t].dir
      BY <1>a, <2>2 DEF F!IInv, F!Typed, F!BatchTyped, F!Batch
    <3> QED BY <2>2, <3>2, <3>3, <1>a DEF F!IInv, F!Typed, F!BatchTyped
  <2> QED BY <1>b, <2>1, <2>2
<1>3. F!JobTyped'
  BY ExplorerAssumption DEF F!IInv, F!Typed, F!JobTyped, F!Answered, F!Finished, F!Pending,
     F!Refresh, F!Job, F!NoJob
<1>4. F!MetaTyped'
  BY ExplorerAssumption DEF F!IInv, F!Typed, F!MetaTyped, F!Answered, F!Finished, F!Pending,
     F!Refresh, F!tabVars, F!localVars
<1>5. F!FilesTyped'
  <2>1. F!At(t, batch[t].dir) \in F!Remote
    BY <1>a, ExplorerAssumption DEF F!At, F!Remote, F!IInv, F!Typed, F!TabsTyped
  <2>2. [F!Original(F!At(t, batch[t].dir)) EXCEPT !.version = ops] \in F!Version
    BY <2>1 DEF F!IInv, F!Typed, F!OpsTyped, F!Original, F!Version
  <2> QED BY <2>1, <2>2 DEF F!IInv, F!Typed, F!FilesTyped, F!Answered, F!localVars
<1>6. F!OpsTyped'
  BY ExplorerAssumption DEF F!IInv, F!Typed, F!OpsTyped, F!Answered, F!Finished, F!Pending,
     F!Refresh
<1>7. F!Follows'
  <2>1. path[t] = went[t] /\ path' = went'
    BY <1>d, <1>a DEF F!IInv, F!Follows
  <2>2. path[t] \in ExplorerDir /\ reading \in [ExplorerTab -> SUBSET ExplorerDir]
    BY DEF F!IInv, F!Typed, F!TabsTyped
  <2>3. \A x \in ExplorerTab : reading'[x] \subseteq {went[x]}
    BY <2>1, <2>2, <1>c DEF F!IInv, F!Follows
  <2>4. ASSUME NEW x \in open, reading'[x] = {}, x \notin failed' PROVE shown[x] = went[x]
    <3>1. x \in ExplorerTab
      BY DEF F!IInv, F!Typed, F!TabsTyped
    <3>2. reading[x] = {} /\ x \notin failed
      BY <2>4, <2>2, <3>1, <1>f
    <3> QED BY <3>2 DEF F!IInv, F!Follows
  <2> QED BY <2>1, <2>3, <2>4, <1>d DEF F!Follows
<1>8. F!Lifts'
  <2> SUFFICES ASSUME NEW x \in open, saving'[x]
               PROVE  \/ batch'[x].kind \notin {"none", "delete"}
                      \/ \E u \in uploads : u.tab = x
    BY <1>d DEF F!Lifts
  <2>1. saving[x]
    BY <1>b DEF F!IInv, F!Typed, F!TabsTyped
  <2>2. \/ batch[x].kind \notin {"none", "delete"}
        \/ \E u \in uploads : u.tab = x
    BY <2>1 DEF F!IInv, F!Lifts
  <2>3. CASE x # t
    BY <2>2, <2>3, <1>b DEF F!IInv, F!Typed, F!BatchTyped, F!TabsTyped
  <2>4. CASE x = t /\ batch' = [batch EXCEPT ![t].left = @ - 1]
    BY <2>2, <2>4, <1>a DEF F!IInv, F!Typed, F!BatchTyped, F!Batch
  <2>5. CASE x = t /\ saving' = [saving EXCEPT ![t] = IF batch[t].kind = "delete" THEN @ ELSE FALSE]
    BY <2>2, <2>5 DEF F!IInv, F!Typed, F!TabsTyped
  <2> QED BY <2>3, <2>4, <2>5, <1>b
<1>9. F!Sent'
  BY ExplorerAssumption DEF F!IInv, F!Typed, F!Sent, F!TabsTyped, F!Answered, F!Finished,
     F!Pending, F!Refresh, F!tabVars, F!localVars, F!TooLarge
<1> QED BY <1>1, <1>2, <1>3, <1>4, <1>5, <1>6, <1>7, <1>8, <1>9 DEF F!IInv, F!Typed

LEMMA ExplorerFailedStep ==
  ASSUME F!IInv, NEW t \in ExplorerTab, F!Failed(t) PROVE F!IInv'
<1> DEFINE open == v1
           path == v2
           shown == v3
           reading == v4
           saving == v5
           batch == v6
           uploads == v15
           went == v17
           failed == v18
<1>a. t \in open /\ batch[t] \in F!Batch /\ batch[t].left \in 1..2 /\ batch[t].dir \in ExplorerDir
  BY DEF F!IInv, F!Typed, F!BatchTyped, F!Failed, F!Batch
<1>p. \/ F!Pending(t) /\ batch[t].left # 1
      \/ F!Finished(t, TRUE) \/ F!Finished(t, FALSE)
  <2>1. CASE batch[t].kind = "upload" /\ batch[t].left > 1
    <3>1. F!Pending(t)
      BY <2>1 DEF F!Failed
    <3>2. batch[t].left # 1
      BY <2>1, <1>a
    <3> QED BY <3>1, <3>2
  <2>2. CASE ~(batch[t].kind = "upload" /\ batch[t].left > 1)
    <3>1. F!Finished(t, batch[t].kind = "upload")
      BY <2>2 DEF F!Failed
    <3>2. CASE batch[t].kind = "upload"
      <4>1. (batch[t].kind = "upload") = TRUE
        BY <3>2
      <4> QED BY <3>1, <4>1
    <3>3. CASE batch[t].kind # "upload"
      <4>1. (batch[t].kind = "upload") = FALSE
        BY <3>3
      <4> QED BY <3>1, <4>1
    <3> QED BY <3>2, <3>3
  <2> QED BY <2>1, <2>2
<1>b. \/ /\ batch' = [batch EXCEPT ![t] = F!NoBatch]
         /\ saving' = [saving EXCEPT ![t] = IF batch[t].kind = "delete" THEN @ ELSE FALSE]
      \/ /\ batch' = [batch EXCEPT ![t].left = @ - 1] /\ batch[t].left # 1
         /\ saving' = saving
  BY <1>p DEF F!Finished, F!Pending
<1>c. reading' \in {reading, [reading EXCEPT ![t] = {path[t]}]}
  BY <1>p DEF F!Finished, F!Pending, F!Refresh
<1>f. \/ failed' = failed /\ reading' = reading
      \/ failed' = failed \ {t} /\ reading' = [reading EXCEPT ![t] = {path[t]}]
  BY <1>p DEF F!Finished, F!Pending, F!Refresh
<1>d. UNCHANGED <<open, path, shown, went, uploads>>
  BY DEF F!Failed
<1>1. F!TabsTyped'
  <2>1. reading \in [ExplorerTab -> SUBSET ExplorerDir] /\ saving \in [ExplorerTab -> BOOLEAN] /\ path[t] \in ExplorerDir
    BY DEF F!IInv, F!Typed, F!TabsTyped
  <2>2. reading' \in [ExplorerTab -> SUBSET ExplorerDir]
    BY <2>1, <1>c
  <2>3. saving' \in [ExplorerTab -> BOOLEAN]
    BY <2>1, <1>b
  <2> QED BY <2>2, <2>3, <1>d DEF F!IInv, F!Typed, F!TabsTyped
<1>2. F!BatchTyped'
  <2>1. CASE batch' = [batch EXCEPT ![t] = F!NoBatch]
    BY <2>1 DEF F!IInv, F!Typed, F!BatchTyped, F!Batch, F!NoBatch
  <2>2. CASE batch' = [batch EXCEPT ![t].left = @ - 1]
    <3>1. batch[t].left - 1 \in 0..2
      BY <1>a
    <3>2. [batch[t] EXCEPT !.left = @ - 1] \in F!Batch
      BY <1>a, <3>1 DEF F!Batch
    <3>3. batch'[t].dir = batch[t].dir
      BY <1>a, <2>2 DEF F!IInv, F!Typed, F!BatchTyped, F!Batch
    <3> QED BY <2>2, <3>2, <3>3, <1>a DEF F!IInv, F!Typed, F!BatchTyped
  <2> QED BY <1>b, <2>1, <2>2
<1>3. F!JobTyped'
  BY ExplorerAssumption DEF F!IInv, F!Typed, F!JobTyped, F!Failed, F!Finished, F!Pending,
     F!Refresh, F!Job, F!NoJob
<1>4. F!MetaTyped'
  BY ExplorerAssumption DEF F!IInv, F!Typed, F!MetaTyped, F!Failed, F!Finished, F!Pending,
     F!Refresh, F!tabVars, F!localVars
<1>5. F!FilesTyped'
  BY ExplorerAssumption DEF F!IInv, F!Typed, F!FilesTyped, F!Failed, F!Finished, F!Pending,
     F!Refresh, F!localVars
<1>6. F!OpsTyped'
  BY ExplorerAssumption DEF F!IInv, F!Typed, F!OpsTyped, F!Failed, F!Finished, F!Pending, F!Refresh
<1>7. F!Follows'
  <2>1. path[t] = went[t] /\ path' = went'
    BY <1>d, <1>a DEF F!IInv, F!Follows
  <2>2. path[t] \in ExplorerDir /\ reading \in [ExplorerTab -> SUBSET ExplorerDir]
    BY DEF F!IInv, F!Typed, F!TabsTyped
  <2>3. \A x \in ExplorerTab : reading'[x] \subseteq {went[x]}
    BY <2>1, <2>2, <1>c DEF F!IInv, F!Follows
  <2>4. ASSUME NEW x \in open, reading'[x] = {}, x \notin failed' PROVE shown[x] = went[x]
    <3>1. x \in ExplorerTab
      BY DEF F!IInv, F!Typed, F!TabsTyped
    <3>2. reading[x] = {} /\ x \notin failed
      BY <2>4, <2>2, <3>1, <1>f
    <3> QED BY <3>2 DEF F!IInv, F!Follows
  <2> QED BY <2>1, <2>3, <2>4, <1>d DEF F!Follows
<1>8. F!Lifts'
  <2> SUFFICES ASSUME NEW x \in open, saving'[x]
               PROVE  \/ batch'[x].kind \notin {"none", "delete"}
                      \/ \E u \in uploads : u.tab = x
    BY <1>d DEF F!Lifts
  <2>1. saving[x]
    BY <1>b DEF F!IInv, F!Typed, F!TabsTyped
  <2>2. \/ batch[x].kind \notin {"none", "delete"}
        \/ \E u \in uploads : u.tab = x
    BY <2>1 DEF F!IInv, F!Lifts
  <2>3. CASE x # t
    BY <2>2, <2>3, <1>b DEF F!IInv, F!Typed, F!BatchTyped, F!TabsTyped
  <2>4. CASE x = t /\ batch' = [batch EXCEPT ![t].left = @ - 1]
    BY <2>2, <2>4, <1>a DEF F!IInv, F!Typed, F!BatchTyped, F!Batch
  <2>5. CASE x = t /\ saving' = [saving EXCEPT ![t] = IF batch[t].kind = "delete" THEN @ ELSE FALSE]
    BY <2>2, <2>5 DEF F!IInv, F!Typed, F!TabsTyped
  <2> QED BY <2>3, <2>4, <2>5, <1>b
<1>9. F!Sent'
  BY ExplorerAssumption DEF F!IInv, F!Typed, F!Sent, F!TabsTyped, F!Failed, F!Finished, F!Pending,
     F!Refresh, F!tabVars, F!localVars, F!TooLarge
<1> QED BY <1>1, <1>2, <1>3, <1>4, <1>5, <1>6, <1>7, <1>8, <1>9 DEF F!IInv, F!Typed

LEMMA ExplorerOpenStep ==
  ASSUME F!IInv, NEW t \in ExplorerTab, F!Open(t) PROVE F!IInv'
<1> DEFINE path == v2
           job == v7
<1>1. F!TabsTyped'
  BY ExplorerAssumption DEF F!IInv, F!Typed, F!TabsTyped, F!Open, F!UserOf, F!tabVars
<1>2. F!BatchTyped'
  BY ExplorerAssumption DEF F!IInv, F!Typed, F!BatchTyped, F!Open, F!UserOf, F!Batch, F!NoBatch
<1>3. F!JobTyped'
  <2> DEFINE j == [F!NoJob EXCEPT !.at = "download", !.dir = path[t]]
  <2>1. j \in F!Job /\ j.at = "download" /\ j.dir \in ExplorerDir
    BY DEF F!IInv, F!Typed, F!TabsTyped, F!Job, F!NoJob
  <2>2. job' = [job EXCEPT ![t] = j]
    BY DEF F!Open
  <2> HIDE DEF j
  <2> QED BY <2>1, <2>2 DEF F!IInv, F!Typed, F!JobTyped
<1>4. F!MetaTyped'
  BY ExplorerAssumption DEF F!IInv, F!Typed, F!MetaTyped, F!Open, F!UserOf, F!tabVars, F!localVars
<1>5. F!FilesTyped'
  BY ExplorerAssumption DEF F!IInv, F!Typed, F!FilesTyped, F!Open, F!UserOf, F!localVars
<1>6. F!OpsTyped'
  BY ExplorerAssumption DEF F!IInv, F!Typed, F!OpsTyped, F!Open, F!UserOf
<1>7. F!Follows'
  BY ExplorerAssumption DEF F!IInv, F!Typed, F!Follows, F!TabsTyped, F!Open, F!UserOf, F!tabVars
<1>8. F!Lifts'
  BY ExplorerAssumption DEF F!IInv, F!Typed, F!Lifts, F!TabsTyped, F!Open, F!UserOf, F!tabVars
<1>9. F!Sent'
  BY ExplorerAssumption DEF F!IInv, F!Typed, F!Sent, F!TabsTyped, F!Open, F!UserOf, F!tabVars,
     F!localVars, F!TooLarge
<1> QED BY <1>1, <1>2, <1>3, <1>4, <1>5, <1>6, <1>7, <1>8, <1>9 DEF F!IInv, F!Typed

LEMMA ExplorerCreateStep ==
  ASSUME F!IInv, NEW t \in ExplorerTab, F!Create(t) PROVE F!IInv'
<1> DEFINE path == v2
           job == v7
<1>1. F!TabsTyped'
  BY ExplorerAssumption DEF F!IInv, F!Typed, F!TabsTyped, F!Create, F!UserOf, F!tabVars
<1>2. F!BatchTyped'
  BY ExplorerAssumption DEF F!IInv, F!Typed, F!BatchTyped, F!Create, F!UserOf, F!Batch, F!NoBatch
<1>3. F!JobTyped'
  <2> DEFINE j == [at |-> "save", dir |-> path[t], folder |-> TempFolder[path[t]],
                   content |-> F!Original(F!At(t, path[t])), new |-> TRUE]
  <2>1. path[t] \in ExplorerDir /\ F!Original(F!At(t, path[t])) \in F!Version
    BY ExplorerAssumption DEF F!IInv, F!Typed, F!TabsTyped, F!Original, F!At, F!Version, F!Remote
  <2>2. j \in F!Job /\ j.dir \in ExplorerDir /\ j.folder \in F!TempDir
    BY <2>1, ExplorerFolderKnown DEF F!Job
  <2>3. job' = [job EXCEPT ![t] = j]
    BY DEF F!Create
  <2> HIDE DEF j
  <2> QED BY <2>2, <2>3 DEF F!IInv, F!Typed, F!JobTyped
<1>4. F!MetaTyped'
  BY ExplorerAssumption DEF F!IInv, F!Typed, F!MetaTyped, F!Create, F!UserOf, F!tabVars, F!localVars
<1>5. F!FilesTyped'
  BY ExplorerAssumption DEF F!IInv, F!Typed, F!FilesTyped, F!Create, F!UserOf, F!localVars
<1>6. F!OpsTyped'
  BY ExplorerAssumption DEF F!IInv, F!Typed, F!OpsTyped, F!Create, F!UserOf
<1>7. F!Follows'
  BY ExplorerAssumption DEF F!IInv, F!Typed, F!Follows, F!TabsTyped, F!Create, F!UserOf, F!tabVars
<1>8. F!Lifts'
  BY ExplorerAssumption DEF F!IInv, F!Typed, F!Lifts, F!TabsTyped, F!Create, F!UserOf, F!tabVars
<1>9. F!Sent'
  BY ExplorerAssumption DEF F!IInv, F!Typed, F!Sent, F!TabsTyped, F!Create, F!UserOf, F!tabVars,
     F!localVars, F!TooLarge
<1> QED BY <1>1, <1>2, <1>3, <1>4, <1>5, <1>6, <1>7, <1>8, <1>9 DEF F!IInv, F!Typed

LEMMA ExplorerDownloadedStep ==
  ASSUME F!IInv, NEW t \in ExplorerTab, F!Downloaded(t) PROVE F!IInv'
<1> DEFINE path == v2
           job == v7
           remote == v10
<1>1. F!TabsTyped'
  BY ExplorerAssumption DEF F!IInv, F!Typed, F!TabsTyped, F!Downloaded, F!JobAt, F!tabVars
<1>2. F!BatchTyped'
  BY ExplorerAssumption DEF F!IInv, F!Typed, F!BatchTyped, F!Downloaded, F!JobAt, F!Batch, F!NoBatch
<1>3. F!JobTyped'
  <2> DEFINE j == [job[t] EXCEPT !.at = "save", !.content = remote[F!At(t, job[t].dir)],
                                 !.folder = TempFolder[path[t]]]
  <2>1. job[t] \in F!Job /\ job[t].dir \in ExplorerDir /\ path[t] \in ExplorerDir
    BY DEF F!IInv, F!Typed, F!TabsTyped, F!JobTyped, F!Downloaded, F!JobAt
  <2>2. remote[F!At(t, job[t].dir)] \in F!Version \cup {None}
    BY <2>1, ExplorerAssumption DEF F!IInv, F!Typed, F!FilesTyped, F!At, F!Remote
  <2>3. j \in F!Job /\ j.dir \in ExplorerDir /\ j.folder \in F!TempDir
    BY <2>1, <2>2, ExplorerFolderKnown DEF F!Job
  <2>4. job' = [job EXCEPT ![t] = F!NoJob] \/ job' = [job EXCEPT ![t] = j]
    BY DEF F!Downloaded
  <2>5. F!NoJob \in F!Job /\ F!NoJob.at = "none"
    BY DEF F!NoJob, F!Job
  <2> HIDE DEF j
  <2> QED BY <2>3, <2>4, <2>5 DEF F!IInv, F!Typed, F!JobTyped
<1>4. F!MetaTyped'
  BY ExplorerAssumption DEF F!IInv, F!Typed, F!MetaTyped, F!Downloaded, F!JobAt, F!tabVars,
     F!localVars
<1>5. F!FilesTyped'
  BY ExplorerAssumption DEF F!IInv, F!Typed, F!FilesTyped, F!Downloaded, F!JobAt, F!localVars
<1>6. F!OpsTyped'
  BY ExplorerAssumption DEF F!IInv, F!Typed, F!OpsTyped, F!Downloaded, F!JobAt
<1>7. F!Follows'
  BY ExplorerAssumption DEF F!IInv, F!Typed, F!Follows, F!TabsTyped, F!Downloaded, F!JobAt,
     F!tabVars
<1>8. F!Lifts'
  BY ExplorerAssumption DEF F!IInv, F!Typed, F!Lifts, F!TabsTyped, F!Downloaded, F!JobAt, F!tabVars
<1>9. F!Sent'
  BY ExplorerAssumption DEF F!IInv, F!Typed, F!Sent, F!TabsTyped, F!Downloaded, F!JobAt, F!tabVars,
     F!localVars, F!TooLarge
<1> QED BY <1>1, <1>2, <1>3, <1>4, <1>5, <1>6, <1>7, <1>8, <1>9 DEF F!IInv, F!Typed

LEMMA ExplorerTempSavedStep ==
  ASSUME F!IInv, NEW t \in ExplorerTab, F!TempSaved(t) PROVE F!IInv'
<1> DEFINE open == v1
           job == v7
           meta == v8
           temp == v11
           events == v13
           reads == v14
           due == v19
<1>a. job[t].folder \in F!TempDir /\ job[t].content \in F!Version \cup {None}
  BY DEF F!IInv, F!Typed, F!JobTyped, F!Job, F!TempSaved, F!JobAt
<1>b. F!Wrote(job[t].folder, job[t].content)
  BY DEF F!TempSaved
<1>c. meta' = meta \/ F!Registered(t)
  BY DEF F!TempSaved
<1>1. F!TabsTyped'
  BY ExplorerAssumption DEF F!IInv, F!Typed, F!TabsTyped, F!TempSaved, F!JobAt, F!Wrote,
     F!Registered, F!JobGoesTo, F!WatchUnlessWatched, F!tabVars
<1>2. F!BatchTyped'
  BY ExplorerAssumption DEF F!IInv, F!Typed, F!BatchTyped, F!TempSaved, F!JobAt, F!Wrote,
     F!Registered, F!JobGoesTo, F!WatchUnlessWatched, F!Batch, F!NoBatch
<1>3. F!JobTyped'
  BY ExplorerJobGoesOn DEF F!TempSaved, F!JobAt, F!WatchUnlessWatched
<1>4. F!MetaTyped'
  BY ExplorerRegisteredTyped DEF F!IInv, F!Typed, F!MetaTyped, F!TempSaved, F!JobAt, F!localVars
<1>5. F!FilesTyped'
  BY <1>a, <1>b, ExplorerWroteTyped DEF F!IInv, F!Typed, F!FilesTyped, F!TempSaved
<1>6. F!OpsTyped'
  BY ExplorerAssumption DEF F!IInv, F!Typed, F!OpsTyped, F!TempSaved, F!JobAt, F!Wrote,
     F!Registered, F!JobGoesTo, F!WatchUnlessWatched
<1>7. F!Follows'
  BY ExplorerAssumption DEF F!IInv, F!Typed, F!Follows, F!TabsTyped, F!TempSaved, F!JobAt, F!Wrote,
     F!Registered, F!JobGoesTo, F!WatchUnlessWatched, F!tabVars
<1>8. F!Lifts'
  BY ExplorerAssumption DEF F!IInv, F!Typed, F!Lifts, F!TabsTyped, F!TempSaved, F!JobAt, F!Wrote,
     F!Registered, F!JobGoesTo, F!WatchUnlessWatched, F!tabVars
<1>9. F!Sent'
  <2> SUFFICES ASSUME NEW d \in due'
               PROVE  /\ d[1] \in open' /\ meta'[d[1]][d[2]] # None
                      /\ \/ F!TooLarge(temp'[d[2]])
                         \/ \E i \in DOMAIN events' : events'[i] = d[2]
                         \/ \E x \in reads' : x.tab = d[1] /\ x.folder = d[2]
    BY DEF F!Sent, F!TooLarge
  <2>1. d \in due /\ d[2] # job[t].folder /\ d[1] \in ExplorerTab /\ d[2] \in F!TempDir
    BY DEF F!TempSaved, F!IInv, F!Typed, F!FilesTyped
  <2>2. /\ d[1] \in open /\ meta[d[1]][d[2]] # None
        /\ \/ F!TooLarge(temp[d[2]])
           \/ \E i \in DOMAIN events : events[i] = d[2]
           \/ \E x \in reads : x.tab = d[1] /\ x.folder = d[2]
    BY <2>1 DEF F!IInv, F!Sent
  <2>3. temp'[d[2]] = temp[d[2]]
    BY <2>1, <1>a, <1>b, ExplorerWroteTyped DEF F!IInv, F!Typed, F!FilesTyped
  <2>4. meta'[d[1]][d[2]] # None
    BY <2>1, <2>2, <1>c, ExplorerRegisteredTyped DEF F!TempSaved, F!JobAt
  <2>5. (\E i \in DOMAIN events : events[i] = d[2]) => \E i \in DOMAIN events' : events'[i] = d[2]
    BY <2>1, <1>a, <1>b, ExplorerWroteTyped
  <2> QED BY <2>2, <2>3, <2>4, <2>5 DEF F!TempSaved, F!tabVars
<1> QED BY <1>1, <1>2, <1>3, <1>4, <1>5, <1>6, <1>7, <1>8, <1>9 DEF F!IInv, F!Typed

LEMMA ExplorerOpenedStep ==
  ASSUME F!IInv, NEW t \in ExplorerTab, F!Opened(t) PROVE F!IInv'
<1> DEFINE open == v1
           meta == v8
           temp == v11
           events == v13
           reads == v14
           due == v19
<1>1. F!TabsTyped'
  BY ExplorerAssumption DEF F!IInv, F!Typed, F!TabsTyped, F!Opened, F!JobAt, F!Registered,
     F!JobGoesTo, F!WatchUnlessWatched, F!tabVars
<1>2. F!BatchTyped'
  BY ExplorerAssumption DEF F!IInv, F!Typed, F!BatchTyped, F!Opened, F!JobAt, F!Registered,
     F!JobGoesTo, F!WatchUnlessWatched, F!Batch, F!NoBatch
<1>3. F!JobTyped'
  BY ExplorerJobGoesOn DEF F!Opened, F!JobAt, F!WatchUnlessWatched
<1>4. F!MetaTyped'
  BY ExplorerRegisteredTyped DEF F!IInv, F!Typed, F!MetaTyped, F!Opened, F!JobAt, F!localVars
<1>5. F!FilesTyped'
  BY ExplorerAssumption DEF F!IInv, F!Typed, F!FilesTyped, F!Opened, F!JobAt, F!Registered,
     F!JobGoesTo, F!WatchUnlessWatched, F!localVars
<1>6. F!OpsTyped'
  BY ExplorerAssumption DEF F!IInv, F!Typed, F!OpsTyped, F!Opened, F!JobAt, F!Registered,
     F!JobGoesTo, F!WatchUnlessWatched
<1>7. F!Follows'
  BY ExplorerAssumption DEF F!IInv, F!Typed, F!Follows, F!TabsTyped, F!Opened, F!JobAt,
     F!Registered, F!JobGoesTo, F!WatchUnlessWatched, F!tabVars
<1>8. F!Lifts'
  BY ExplorerAssumption DEF F!IInv, F!Typed, F!Lifts, F!TabsTyped, F!Opened, F!JobAt, F!Registered,
     F!JobGoesTo, F!WatchUnlessWatched, F!tabVars
<1>9. F!Sent'
  <2> SUFFICES ASSUME NEW d \in due'
               PROVE  /\ d[1] \in open' /\ meta'[d[1]][d[2]] # None
                      /\ \/ F!TooLarge(temp'[d[2]])
                         \/ \E i \in DOMAIN events' : events'[i] = d[2]
                         \/ \E x \in reads' : x.tab = d[1] /\ x.folder = d[2]
    BY DEF F!Sent, F!TooLarge
  <2>1. d \in due /\ d[1] \in ExplorerTab /\ d[2] \in F!TempDir
    BY DEF F!Opened, F!localVars, F!IInv, F!Typed, F!FilesTyped
  <2>2. /\ d[1] \in open /\ meta[d[1]][d[2]] # None
        /\ \/ F!TooLarge(temp[d[2]])
           \/ \E i \in DOMAIN events : events[i] = d[2]
           \/ \E x \in reads : x.tab = d[1] /\ x.folder = d[2]
    BY <2>1 DEF F!IInv, F!Sent
  <2>3. meta'[d[1]][d[2]] # None
    BY <2>1, <2>2, ExplorerRegisteredTyped DEF F!Opened, F!JobAt
  <2> QED BY <2>2, <2>3 DEF F!Opened, F!tabVars, F!localVars
<1> QED BY <1>1, <1>2, <1>3, <1>4, <1>5, <1>6, <1>7, <1>8, <1>9 DEF F!IInv, F!Typed

LEMMA ExplorerWatchStartsStep ==
  ASSUME F!IInv, NEW t \in ExplorerTab, F!WatchStarts(t) PROVE F!IInv'
<1>1. F!TabsTyped'
  BY ExplorerAssumption DEF F!IInv, F!Typed, F!TabsTyped, F!WatchStarts, F!JobAt, F!JobGoesTo,
     F!tabVars
<1>2. F!BatchTyped'
  BY ExplorerAssumption DEF F!IInv, F!Typed, F!BatchTyped, F!WatchStarts, F!JobAt, F!JobGoesTo,
     F!Batch, F!NoBatch
<1>3. F!JobTyped'
  BY ExplorerJobGoesOn DEF F!WatchStarts, F!JobAt
<1>4. F!MetaTyped'
  BY ExplorerAssumption DEF F!IInv, F!Typed, F!MetaTyped, F!WatchStarts, F!JobAt, F!JobGoesTo,
     F!tabVars, F!localVars
<1>5. F!FilesTyped'
  BY ExplorerAssumption DEF F!IInv, F!Typed, F!FilesTyped, F!WatchStarts, F!JobAt, F!JobGoesTo,
     F!localVars
<1>6. F!OpsTyped'
  BY ExplorerAssumption DEF F!IInv, F!Typed, F!OpsTyped, F!WatchStarts, F!JobAt, F!JobGoesTo
<1>7. F!Follows'
  BY ExplorerAssumption DEF F!IInv, F!Typed, F!Follows, F!TabsTyped, F!WatchStarts, F!JobAt,
     F!JobGoesTo, F!tabVars
<1>8. F!Lifts'
  BY ExplorerAssumption DEF F!IInv, F!Typed, F!Lifts, F!TabsTyped, F!WatchStarts, F!JobAt,
     F!JobGoesTo, F!tabVars
<1>9. F!Sent'
  BY ExplorerAssumption DEF F!IInv, F!Typed, F!Sent, F!TabsTyped, F!WatchStarts, F!JobAt,
     F!JobGoesTo, F!tabVars, F!localVars, F!TooLarge
<1> QED BY <1>1, <1>2, <1>3, <1>4, <1>5, <1>6, <1>7, <1>8, <1>9 DEF F!IInv, F!Typed

LEMMA ExplorerWatchAnsweredStep ==
  ASSUME F!IInv, NEW t \in ExplorerTab, F!WatchAnswered(t) PROVE F!IInv'
<1>1. F!TabsTyped'
  BY ExplorerAssumption DEF F!IInv, F!Typed, F!TabsTyped, F!WatchAnswered, F!JobAt, F!tabVars
<1>2. F!BatchTyped'
  BY ExplorerAssumption DEF F!IInv, F!Typed, F!BatchTyped, F!WatchAnswered, F!JobAt, F!Batch,
     F!NoBatch
<1>3. F!JobTyped'
  BY ExplorerAssumption DEF F!IInv, F!Typed, F!JobTyped, F!WatchAnswered, F!JobAt, F!Job, F!NoJob
<1>4. F!MetaTyped'
  BY ExplorerAssumption DEF F!IInv, F!Typed, F!MetaTyped, F!WatchAnswered, F!JobAt, F!tabVars,
     F!localVars
<1>5. F!FilesTyped'
  BY ExplorerAssumption DEF F!IInv, F!Typed, F!FilesTyped, F!WatchAnswered, F!JobAt, F!localVars
<1>6. F!OpsTyped'
  BY ExplorerAssumption DEF F!IInv, F!Typed, F!OpsTyped, F!WatchAnswered, F!JobAt
<1>7. F!Follows'
  BY ExplorerAssumption DEF F!IInv, F!Typed, F!Follows, F!TabsTyped, F!WatchAnswered, F!JobAt,
     F!tabVars
<1>8. F!Lifts'
  BY ExplorerAssumption DEF F!IInv, F!Typed, F!Lifts, F!TabsTyped, F!WatchAnswered, F!JobAt,
     F!tabVars
<1>9. F!Sent'
  BY ExplorerAssumption DEF F!IInv, F!Typed, F!Sent, F!TabsTyped, F!WatchAnswered, F!JobAt,
     F!tabVars, F!localVars, F!TooLarge
<1> QED BY <1>1, <1>2, <1>3, <1>4, <1>5, <1>6, <1>7, <1>8, <1>9 DEF F!IInv, F!Typed

LEMMA ExplorerEditorSavesStep ==
  ASSUME F!IInv, NEW f \in F!TempDir, F!EditorSaves(f) PROVE F!IInv'
<1> DEFINE open == v1
           meta == v8
           temp == v11
           watchers == v12
           events == v13
           reads == v14
           ops == v16
           due == v19
<1> DEFINE content == [temp[f] EXCEPT !.version = ops + 1]
<1>a. temp[f] \in F!Version /\ ops + 1 \in 0..ExplorerMaxOps
  BY ExplorerAssumption DEF F!EditorSaves, F!IInv, F!Typed, F!FilesTyped, F!OpsTyped
<1>b. content \in F!Version /\ content.home = temp[f].home
  BY <1>a DEF F!Version
<1>c. F!Wrote(f, content)
  BY DEF F!EditorSaves
<1> HIDE DEF content
<1>1. F!TabsTyped'
  BY ExplorerAssumption DEF F!IInv, F!Typed, F!TabsTyped, F!EditorSaves, F!Wrote, F!tabVars
<1>2. F!BatchTyped'
  BY ExplorerAssumption DEF F!IInv, F!Typed, F!BatchTyped, F!EditorSaves, F!Wrote, F!Batch,
     F!NoBatch
<1>3. F!JobTyped'
  BY ExplorerAssumption DEF F!IInv, F!Typed, F!JobTyped, F!EditorSaves, F!Wrote, F!Job, F!NoJob
<1>4. F!MetaTyped'
  BY ExplorerAssumption DEF F!IInv, F!Typed, F!MetaTyped, F!EditorSaves, F!Wrote, F!tabVars,
     F!localVars
<1>5. F!FilesTyped'
  <2>1. \A x \in due' : x \in due \/ \E y \in open : x = <<y, f>>
    BY DEF F!EditorSaves
  <2>2. due' \subseteq ExplorerTab \X F!TempDir
    BY <2>1 DEF F!IInv, F!Typed, F!FilesTyped, F!TabsTyped
  <2> QED BY <2>2, <1>b, <1>c, ExplorerWroteTyped DEF F!IInv, F!Typed, F!FilesTyped, F!EditorSaves
<1>6. F!OpsTyped'
  BY ExplorerAssumption DEF F!IInv, F!Typed, F!OpsTyped, F!EditorSaves, F!Wrote
<1>7. F!Follows'
  BY ExplorerAssumption DEF F!IInv, F!Typed, F!Follows, F!TabsTyped, F!EditorSaves, F!Wrote,
     F!tabVars
<1>8. F!Lifts'
  BY ExplorerAssumption DEF F!IInv, F!Typed, F!Lifts, F!TabsTyped, F!EditorSaves, F!Wrote, F!tabVars
<1>9. F!Sent'
  <2> SUFFICES ASSUME NEW d \in due'
               PROVE  /\ d[1] \in open' /\ meta'[d[1]][d[2]] # None
                      /\ \/ F!TooLarge(temp'[d[2]])
                         \/ \E i \in DOMAIN events' : events'[i] = d[2]
                         \/ \E x \in reads' : x.tab = d[1] /\ x.folder = d[2]
    BY DEF F!Sent, F!TooLarge
  <2>1. CASE d \in due
    <3>1. d[1] \in ExplorerTab /\ d[2] \in F!TempDir
      BY <2>1 DEF F!IInv, F!Typed, F!FilesTyped
    <3>2. F!TooLarge(temp[d[2]]) => F!TooLarge(temp'[d[2]])
      BY <3>1, <1>b, <1>c, ExplorerWroteTyped DEF F!TooLarge, F!IInv, F!Typed, F!FilesTyped
    <3>3. (\E i \in DOMAIN events : events[i] = d[2]) => \E i \in DOMAIN events' : events'[i] = d[2]
      BY <3>1, <1>b, <1>c, ExplorerWroteTyped
    <3> QED BY <2>1, <3>2, <3>3 DEF F!IInv, F!Sent, F!EditorSaves, F!tabVars
  <2>2. CASE d \notin due
    <3>1. PICK x \in open : d = <<x, f>> /\ meta[x][f] # None /\ f \in F!ToSet(watchers)
      BY <2>2 DEF F!EditorSaves
    <3>2. \E i \in DOMAIN events' : events'[i] = f
      BY <3>1, <1>b, <1>c, ExplorerWroteTyped DEF F!ToSet
    <3> QED BY <3>1, <3>2 DEF F!EditorSaves, F!tabVars
  <2> QED BY <2>1, <2>2
<1> QED BY <1>1, <1>2, <1>3, <1>4, <1>5, <1>6, <1>7, <1>8, <1>9 DEF F!IInv, F!Typed

LEMMA ExplorerChangeArrivesStep ==
  ASSUME F!IInv, F!ChangeArrives PROVE F!IInv'
<1> DEFINE open == v1
           meta == v8
           temp == v11
           events == v13
           reads == v14
           due == v19
<1> DEFINE f == Head(events)
           heard == {[tab |-> t, folder |-> f, to |-> meta[t][f].to, new |-> meta[t][f].new] :
                       t \in F!Heard(f)}
<1>a. /\ f \in F!TempDir /\ Tail(events) \in Seq(F!TempDir)
      /\ \A i \in DOMAIN events : events[i] = f \/ \E k \in DOMAIN Tail(events) : Tail(events)[k] = events[i]
  <2>1. events \in Seq(F!TempDir) /\ events # << >>
    BY DEF F!ChangeArrives, F!IInv, F!Typed, F!FilesTyped
  <2>2. f = events[1] /\ f \in F!TempDir /\ Tail(events) \in Seq(F!TempDir)
    BY <2>1, HeadTailProperties
  <2>3. \A i \in DOMAIN events : i # 1 => /\ i - 1 \in DOMAIN Tail(events)
                                          /\ Tail(events)[i - 1] = events[i]
    BY <2>1, HeadTailProperties, LenProperties
  <2> QED BY <2>2, <2>3
<1>b. \A t \in F!Heard(f) : t \in ExplorerTab /\ t \in open /\ meta[t][f] \in F!Watch
  BY <1>a DEF F!Heard, F!IInv, F!Typed, F!MetaTyped, F!TabsTyped
<1>c. reads' = reads \cup heard /\ events' = Tail(events)
  BY DEF F!ChangeArrives
<1>d. heard \subseteq [tab : ExplorerTab, folder : F!TempDir, to : F!Remote, new : BOOLEAN]
  BY <1>a, <1>b DEF F!Watch
<1> HIDE DEF f, heard
<1>1. F!TabsTyped'
  BY ExplorerAssumption DEF F!IInv, F!Typed, F!TabsTyped, F!ChangeArrives, F!Heard, F!tabVars
<1>2. F!BatchTyped'
  BY ExplorerAssumption DEF F!IInv, F!Typed, F!BatchTyped, F!ChangeArrives, F!Heard, F!Batch,
     F!NoBatch
<1>3. F!JobTyped'
  BY ExplorerAssumption DEF F!IInv, F!Typed, F!JobTyped, F!ChangeArrives, F!Heard, F!Job, F!NoJob
<1>4. F!MetaTyped'
  BY <1>c, <1>d DEF F!IInv, F!Typed, F!MetaTyped, F!ChangeArrives
<1>5. F!FilesTyped'
  BY <1>a, <1>c DEF F!IInv, F!Typed, F!FilesTyped, F!ChangeArrives
<1>6. F!OpsTyped'
  BY ExplorerAssumption DEF F!IInv, F!Typed, F!OpsTyped, F!ChangeArrives, F!Heard
<1>7. F!Follows'
  BY ExplorerAssumption DEF F!IInv, F!Typed, F!Follows, F!TabsTyped, F!ChangeArrives, F!Heard,
     F!tabVars
<1>8. F!Lifts'
  BY ExplorerAssumption DEF F!IInv, F!Typed, F!Lifts, F!TabsTyped, F!ChangeArrives, F!Heard,
     F!tabVars
<1>9. F!Sent'
  <2> SUFFICES ASSUME NEW d \in due'
               PROVE  /\ d[1] \in open' /\ meta'[d[1]][d[2]] # None
                      /\ \/ F!TooLarge(temp'[d[2]])
                         \/ \E i \in DOMAIN events' : events'[i] = d[2]
                         \/ \E x \in reads' : x.tab = d[1] /\ x.folder = d[2]
    BY DEF F!Sent, F!TooLarge
  <2>1. d \in due /\ d[1] \in ExplorerTab /\ d[2] \in F!TempDir
    BY DEF F!ChangeArrives, F!IInv, F!Typed, F!FilesTyped
  <2>2. /\ d[1] \in open /\ meta[d[1]][d[2]] # None
        /\ \/ F!TooLarge(temp[d[2]])
           \/ \E i \in DOMAIN events : events[i] = d[2]
           \/ \E x \in reads : x.tab = d[1] /\ x.folder = d[2]
    BY <2>1 DEF F!IInv, F!Sent
  <2>3. CASE \E i \in DOMAIN events : events[i] = d[2] /\ events[i] # f
    BY <2>2, <2>3, <1>a, <1>c DEF F!ChangeArrives, F!tabVars
  <2>4. CASE d[2] = f
    <3>1. d[1] \in F!Heard(f)
      BY <2>2, <2>4 DEF F!Heard
    <3> DEFINE y == [tab |-> d[1], folder |-> f, to |-> meta[d[1]][f].to, new |-> meta[d[1]][f].new]
    <3>2. y \in heard /\ y.tab = d[1] /\ y.folder = d[2]
      BY <3>1, <2>4 DEF heard
    <3> HIDE DEF y
    <3> QED BY <3>2, <1>c, <2>2 DEF F!ChangeArrives, F!tabVars
  <2>5. CASE F!TooLarge(temp[d[2]]) \/ \E x \in reads : x.tab = d[1] /\ x.folder = d[2]
    BY <2>2, <2>5, <1>c DEF F!ChangeArrives, F!tabVars
  <2> QED BY <2>2, <2>3, <2>4, <2>5
<1> QED BY <1>1, <1>2, <1>3, <1>4, <1>5, <1>6, <1>7, <1>8, <1>9 DEF F!IInv, F!Typed

LEMMA ExplorerLocalReadStep ==
  ASSUME F!IInv, NEW r \in v14, F!LocalRead(r) PROVE F!IInv'
<1> DEFINE open == v1
           saving == v5
           batch == v6
           meta == v8
           temp == v11
           events == v13
           reads == v14
           uploads == v15
           due == v19
<1>a. r \in [tab : ExplorerTab, folder : F!TempDir, to : F!Remote, new : BOOLEAN]
  BY DEF F!IInv, F!Typed, F!MetaTyped
<1>b. temp[r.folder] \in F!Version \cup {None}
  BY <1>a DEF F!IInv, F!Typed, F!FilesTyped
<1> DEFINE up == [tab |-> r.tab, folder |-> r.folder, to |-> r.to, new |-> r.new,
                  content |-> temp[r.folder]]
<1>c. /\ up \in [tab : ExplorerTab, folder : F!TempDir, to : F!Remote, new : BOOLEAN,
                 content : F!Version \cup {None}]
      /\ up.tab = r.tab
  BY <1>a, <1>b
<1>d. \/ uploads' = uploads \cup {up} /\ saving' = [saving EXCEPT ![r.tab] = TRUE]
      \/ uploads' = uploads /\ saving' = saving
  BY DEF F!LocalRead
<1>e. reads' = reads \ {r}
  BY DEF F!LocalRead
<1> HIDE DEF up
<1>1. F!TabsTyped'
  BY <1>a, <1>d DEF F!IInv, F!Typed, F!TabsTyped, F!LocalRead, F!tabVars
<1>2. F!BatchTyped'
  BY ExplorerAssumption DEF F!IInv, F!Typed, F!BatchTyped, F!LocalRead, F!Batch, F!NoBatch
<1>3. F!JobTyped'
  BY ExplorerAssumption DEF F!IInv, F!Typed, F!JobTyped, F!LocalRead, F!Job, F!NoJob
<1>4. F!MetaTyped'
  BY <1>c, <1>d, <1>e DEF F!IInv, F!Typed, F!MetaTyped, F!LocalRead
<1>5. F!FilesTyped'
  BY ExplorerAssumption DEF F!IInv, F!Typed, F!FilesTyped, F!LocalRead, F!localVars
<1>6. F!OpsTyped'
  BY ExplorerAssumption DEF F!IInv, F!Typed, F!OpsTyped, F!LocalRead
<1>7. F!Follows'
  BY ExplorerAssumption DEF F!IInv, F!Typed, F!Follows, F!TabsTyped, F!LocalRead, F!tabVars
<1>8. F!Lifts'
  <2> SUFFICES ASSUME NEW x \in open, saving'[x]
               PROVE  batch[x].kind \notin {"none", "delete"} \/ \E u \in uploads' : u.tab = x
    BY DEF F!Lifts, F!LocalRead, F!tabVars
  <2>1. CASE saving[x]
    BY <2>1, <1>d DEF F!IInv, F!Lifts
  <2>2. CASE ~saving[x]
    BY <2>2, <1>a, <1>c, <1>d DEF F!IInv, F!Typed, F!TabsTyped
  <2> QED BY <2>1, <2>2
<1>9. F!Sent'
  <2> SUFFICES ASSUME NEW d \in due'
               PROVE  /\ d[1] \in open' /\ meta'[d[1]][d[2]] # None
                      /\ \/ F!TooLarge(temp'[d[2]])
                         \/ \E i \in DOMAIN events' : events'[i] = d[2]
                         \/ \E x \in reads' : x.tab = d[1] /\ x.folder = d[2]
    BY DEF F!Sent, F!TooLarge
  <2>1. d \in due /\ d[1] \in ExplorerTab /\ d[2] \in F!TempDir
    BY DEF F!LocalRead, F!IInv, F!Typed, F!FilesTyped
  <2>2. /\ d[1] \in open /\ meta[d[1]][d[2]] # None
        /\ \/ F!TooLarge(temp[d[2]])
           \/ \E i \in DOMAIN events : events[i] = d[2]
           \/ \E x \in reads : x.tab = d[1] /\ x.folder = d[2]
    BY <2>1 DEF F!IInv, F!Sent
  <2>3. ASSUME NEW x \in reads, x.tab = d[1], x.folder = d[2], x \notin reads'
        PROVE  F!TooLarge(temp[d[2]])
    <3>1. x = r
      BY <2>3, <1>e
    <3>2. d = <<r.tab, r.folder>>
      BY <2>3, <3>1, <2>1 DEF F!IInv, F!Typed, F!FilesTyped
    <3> QED BY <3>1, <3>2, <2>1, <2>3 DEF F!LocalRead
  <2> QED BY <2>2, <2>3 DEF F!LocalRead, F!tabVars
<1> QED BY <1>1, <1>2, <1>3, <1>4, <1>5, <1>6, <1>7, <1>8, <1>9 DEF F!IInv, F!Typed

LEMMA ExplorerUploadLandsStep ==
  ASSUME F!IInv, NEW u \in v15, F!UploadLands(u) PROVE F!IInv'
<1> DEFINE open == v1
           path == v2
           shown == v3
           reading == v4
           saving == v5
           batch == v6
           meta == v8
           temp == v11
           events == v13
           reads == v14
           uploads == v15
           went == v17
           failed == v18
           due == v19
<1>a. u \in [tab : ExplorerTab, folder : F!TempDir, to : F!Remote, new : BOOLEAN, content : F!Version \cup {None}]
  BY DEF F!IInv, F!Typed, F!MetaTyped
<1> DEFINE w == [meta[u.tab][u.folder] EXCEPT !.new = FALSE]
<1>b. meta' = meta \/ /\ meta[u.tab][u.folder] # None
                      /\ meta' = [meta EXCEPT ![u.tab] = [@ EXCEPT ![u.folder] = w]]
  BY DEF F!UploadLands
<1>c. meta[u.tab][u.folder] # None => w \in F!Watch /\ w # None
  <2> SUFFICES ASSUME meta[u.tab][u.folder] # None PROVE w \in F!Watch /\ w # None
    OBVIOUS
  <2>1. meta[u.tab][u.folder] \in F!Watch
    BY <1>a DEF F!IInv, F!Typed, F!MetaTyped
  <2> QED BY <2>1, ExplorerAssumption DEF F!Watch
<1> HIDE DEF w
<1>1. F!TabsTyped'
  BY <1>a DEF F!IInv, F!Typed, F!TabsTyped, F!UploadLands, F!UploadEnds, F!Refresh
<1>2. F!BatchTyped'
  BY ExplorerAssumption DEF F!IInv, F!Typed, F!BatchTyped, F!UploadLands, F!UploadEnds, F!Refresh,
     F!Batch, F!NoBatch
<1>3. F!JobTyped'
  BY ExplorerAssumption DEF F!IInv, F!Typed, F!JobTyped, F!UploadLands, F!UploadEnds, F!Refresh,
     F!Job, F!NoJob
<1>4. F!MetaTyped'
  <2>1. uploads' \subseteq uploads /\ reads' = reads
    BY DEF F!UploadLands, F!UploadEnds, F!localVars
  <2> QED BY <1>a, <1>b, <1>c, <2>1 DEF F!IInv, F!Typed, F!MetaTyped
<1>5. F!FilesTyped'
  BY <1>a DEF F!IInv, F!Typed, F!FilesTyped, F!UploadLands, F!UploadEnds, F!localVars
<1>6. F!OpsTyped'
  BY ExplorerAssumption DEF F!IInv, F!Typed, F!OpsTyped, F!UploadLands, F!UploadEnds, F!Refresh
<1>7. F!Follows'
  <2>1. UNCHANGED <<open, path, went, shown>>
    BY DEF F!UploadLands, F!UploadEnds, F!localVars
  <2>2. \/ reading' = reading /\ failed' = failed
        \/ reading' = [reading EXCEPT ![u.tab] = {path[u.tab]}] /\ failed' = failed \ {u.tab}
    BY DEF F!UploadLands, F!UploadEnds, F!Refresh
  <2> QED
    BY <1>a, <2>1, <2>2 DEF F!IInv, F!Typed, F!TabsTyped, F!Follows
<1>8. F!Lifts'
  <2> SUFFICES ASSUME NEW x \in open, saving'[x]
               PROVE  batch[x].kind \notin {"none", "delete"} \/ \E v \in uploads' : v.tab = x
    BY DEF F!Lifts, F!UploadEnds, F!UploadLands
  <2>1. saving[x] /\ x # u.tab
    BY <1>a DEF F!IInv, F!Typed, F!TabsTyped, F!UploadEnds, F!UploadLands
  <2> QED BY <2>1 DEF F!IInv, F!Lifts, F!UploadEnds, F!UploadLands
<1>9. F!Sent'
  <2> SUFFICES ASSUME NEW d \in due'
               PROVE  /\ d[1] \in open' /\ meta'[d[1]][d[2]] # None
                      /\ \/ F!TooLarge(temp'[d[2]])
                         \/ \E i \in DOMAIN events' : events'[i] = d[2]
                         \/ \E x \in reads' : x.tab = d[1] /\ x.folder = d[2]
    BY DEF F!Sent, F!TooLarge
  <2>1. d \in due /\ d[1] \in ExplorerTab /\ d[2] \in F!TempDir
    BY DEF F!UploadLands, F!UploadEnds, F!localVars, F!IInv, F!Typed, F!FilesTyped
  <2>2. /\ d[1] \in open /\ meta[d[1]][d[2]] # None
        /\ \/ F!TooLarge(temp[d[2]])
           \/ \E i \in DOMAIN events : events[i] = d[2]
           \/ \E x \in reads : x.tab = d[1] /\ x.folder = d[2]
    BY <2>1 DEF F!IInv, F!Sent
  <2>3. meta'[d[1]][d[2]] # None
    BY <1>a, <1>b, <1>c, <2>1, <2>2 DEF F!IInv, F!Typed, F!MetaTyped
  <2> QED BY <2>2, <2>3 DEF F!UploadLands, F!UploadEnds, F!localVars
<1> QED BY <1>1, <1>2, <1>3, <1>4, <1>5, <1>6, <1>7, <1>8, <1>9 DEF F!IInv, F!Typed

LEMMA ExplorerUploadFailsStep ==
  ASSUME F!IInv, NEW u \in v15, F!UploadFails(u) PROVE F!IInv'
<1> DEFINE open == v1
           saving == v5
           batch == v6
           uploads == v15
<1>a. u \in [tab : ExplorerTab, folder : F!TempDir, to : F!Remote, new : BOOLEAN, content : F!Version \cup {None}]
  BY DEF F!IInv, F!Typed, F!MetaTyped
<1>1. F!TabsTyped'
  BY ExplorerAssumption DEF F!IInv, F!Typed, F!TabsTyped, F!UploadFails, F!UploadEnds, F!tabVars
<1>2. F!BatchTyped'
  BY ExplorerAssumption DEF F!IInv, F!Typed, F!BatchTyped, F!UploadFails, F!UploadEnds, F!Batch,
     F!NoBatch
<1>3. F!JobTyped'
  BY ExplorerAssumption DEF F!IInv, F!Typed, F!JobTyped, F!UploadFails, F!UploadEnds, F!Job, F!NoJob
<1>4. F!MetaTyped'
  BY ExplorerAssumption DEF F!IInv, F!Typed, F!MetaTyped, F!UploadFails, F!UploadEnds, F!tabVars,
     F!localVars
<1>5. F!FilesTyped'
  BY ExplorerAssumption DEF F!IInv, F!Typed, F!FilesTyped, F!UploadFails, F!UploadEnds, F!localVars
<1>6. F!OpsTyped'
  BY ExplorerAssumption DEF F!IInv, F!Typed, F!OpsTyped, F!UploadFails, F!UploadEnds
<1>7. F!Follows'
  BY ExplorerAssumption DEF F!IInv, F!Typed, F!Follows, F!TabsTyped, F!UploadFails, F!UploadEnds,
     F!tabVars
<1>8. F!Lifts'
  <2> SUFFICES ASSUME NEW x \in open, saving'[x]
               PROVE  batch[x].kind \notin {"none", "delete"} \/ \E v \in uploads' : v.tab = x
    BY DEF F!Lifts, F!UploadEnds, F!UploadFails
  <2>1. saving[x] /\ x # u.tab
    BY <1>a DEF F!IInv, F!Typed, F!TabsTyped, F!UploadEnds, F!UploadFails
  <2> QED BY <2>1 DEF F!IInv, F!Lifts, F!UploadEnds, F!UploadFails
<1>9. F!Sent'
  BY ExplorerAssumption DEF F!IInv, F!Typed, F!Sent, F!TabsTyped, F!UploadFails, F!UploadEnds,
     F!tabVars, F!localVars, F!TooLarge
<1> QED BY <1>1, <1>2, <1>3, <1>4, <1>5, <1>6, <1>7, <1>8, <1>9 DEF F!IInv, F!Typed

LEMMA ExplorerCloseTabStep ==
  ASSUME F!IInv, NEW t \in ExplorerTab, F!CloseTab(t) PROVE F!IInv'
<1>1. F!TabsTyped'
  BY ExplorerAssumption DEF F!IInv, F!Typed, F!TabsTyped, F!CloseTab, F!tabVars
<1>2. F!BatchTyped'
  BY ExplorerAssumption DEF F!IInv, F!Typed, F!BatchTyped, F!CloseTab, F!Batch, F!NoBatch
<1>3. F!JobTyped'
  BY ExplorerAssumption DEF F!IInv, F!Typed, F!JobTyped, F!CloseTab, F!Job, F!NoJob
<1>4. F!MetaTyped'
  BY ExplorerAssumption DEF F!IInv, F!Typed, F!MetaTyped, F!CloseTab, F!tabVars, F!localVars
<1>5. F!FilesTyped'
  BY ExplorerAssumption DEF F!IInv, F!Typed, F!FilesTyped, F!CloseTab, F!localVars
<1>6. F!OpsTyped'
  BY ExplorerAssumption DEF F!IInv, F!Typed, F!OpsTyped, F!CloseTab
<1>7. F!Follows'
  BY ExplorerAssumption DEF F!IInv, F!Typed, F!Follows, F!TabsTyped, F!CloseTab, F!tabVars
<1>8. F!Lifts'
  BY ExplorerAssumption DEF F!IInv, F!Typed, F!Lifts, F!TabsTyped, F!CloseTab, F!tabVars
<1>9. F!Sent'
  BY ExplorerAssumption DEF F!IInv, F!Typed, F!Sent, F!TabsTyped, F!CloseTab, F!tabVars,
     F!localVars, F!TooLarge
<1> QED BY <1>1, <1>2, <1>3, <1>4, <1>5, <1>6, <1>7, <1>8, <1>9 DEF F!IInv, F!Typed

LEMMA ExplorerNextStep == ASSUME F!IInv, F!Next PROVE F!IInv'
<1> DEFINE reads == v14
           uploads == v15
<1>1. ASSUME NEW t \in ExplorerTab, NEW d \in ExplorerDir, F!Go(t, d) \/ F!ListingArrives(t, d) \/ F!ListingFails(t, d)
      PROVE  F!IInv'
  BY <1>1, ExplorerGoStep, ExplorerListingArrivesStep, ExplorerListingFailsStep
<1>2. ASSUME NEW t \in ExplorerTab, NEW k \in {"change", "delete", "upload", "edit"}, NEW n \in 1..2,
             F!Submit(t, k, n)
      PROVE  F!IInv'
  BY <1>2, ExplorerSubmitStep
<1>3. ASSUME NEW t \in ExplorerTab,
             \/ F!Answered(t) \/ F!Failed(t) \/ F!CloseTab(t)
             \/ F!Open(t) \/ F!Create(t) \/ F!Downloaded(t) \/ F!TempSaved(t) \/ F!Opened(t)
             \/ F!WatchStarts(t) \/ F!WatchAnswered(t)
      PROVE  F!IInv'
  BY <1>3, ExplorerAnsweredStep, ExplorerFailedStep, ExplorerCloseTabStep, ExplorerOpenStep,
     ExplorerCreateStep, ExplorerDownloadedStep,
     ExplorerTempSavedStep, ExplorerOpenedStep, ExplorerWatchStartsStep, ExplorerWatchAnsweredStep
<1>4. ASSUME NEW f \in F!TempDir, F!EditorSaves(f) PROVE F!IInv'
  BY <1>4, ExplorerEditorSavesStep
<1>5. ASSUME F!ChangeArrives PROVE F!IInv'
  BY <1>5, ExplorerChangeArrivesStep
<1>6. ASSUME NEW r \in reads, F!LocalRead(r) PROVE F!IInv'
  BY <1>6, ExplorerLocalReadStep
<1>7. ASSUME NEW u \in uploads, F!UploadLands(u) \/ F!UploadFails(u) PROVE F!IInv'
  BY <1>7, ExplorerUploadLandsStep, ExplorerUploadFailsStep
<1> QED BY <1>1, <1>2, <1>3, <1>4, <1>5, <1>6, <1>7 DEF F!Next

LEMMA ExplorerIsSettled == F!IInv => F!ListingFollows /\ F!OverlayLifts /\ F!EditsAreSent
<1> SUFFICES ASSUME F!IInv PROVE F!ListingFollows /\ F!OverlayLifts /\ F!EditsAreSent
  OBVIOUS
<1>1. F!ListingFollows
  BY DEF F!IInv, F!Follows, F!ListingFollows
<1>2. F!OverlayLifts
  BY DEF F!IInv, F!Lifts, F!OverlayLifts, F!NoBatch
<1>3. F!EditsAreSent
  BY DEF F!IInv, F!Sent, F!EditsAreSent, F!Quiet
<1> QED BY <1>1, <1>2, <1>3

-----------------------------------------------------------------------------
\* What the user asks of it: a request is about the rows that were shown.

LEMMA OperationInitHolds == O!Init => O!IInv
<1> SUFFICES ASSUME O!Init PROVE O!IInv
  OBVIOUS
<1>1. O!RowsTyped
  BY ExplorerAssumption DEF O!Init, O!RowsTyped
<1>2. O!ClipTyped
  BY ExplorerAssumption DEF O!Init, O!ClipTyped, O!NoClip
<1>3. O!RequestsTyped
  BY DEF O!Init, O!RequestsTyped
<1>4. O!OpsTyped
  <2>1. 0 \in 0..ExplorerMaxOps
    BY ExplorerAssumption
  <2> QED BY <2>1 DEF O!Init, O!OpsTyped
<1>5. O!PointedAt
  BY DEF O!Init, O!PointedAt, O!NoClip, O!Places
<1>6. O!MovesOnce
  BY DEF O!Init, O!MovesOnce, O!NoClip
<1> QED BY <1>1, <1>2, <1>3, <1>4, <1>5, <1>6 DEF O!IInv, O!TypeOK

LEMMA OperationStutterStep == ASSUME O!IInv, UNCHANGED O!vars PROVE O!IInv'
BY DEF O!IInv, O!TypeOK, O!RowsTyped, O!ClipTyped, O!RequestsTyped, O!OpsTyped, O!PointedAt,
   O!MovesOnce, O!vars,
       O!shownVars, O!pickVars, O!pastVars, O!busyVars

\* What a request is about
LEMMA OperationRowItems ==
  ASSUME O!IInv, NEW name \in v2.names
  PROVE  O!Row(name) \in O!Items /\ O!Row(name).places = O!Places(v2.dir, O!Row(name).names)
BY DEF O!IInv, O!TypeOK, O!RowsTyped, O!Row, O!Items, O!Place, O!Places

LEMMA OperationPickItems ==
  ASSUME O!IInv, NEW items \in O!Picks
  PROVE  /\ items \in O!Items
         /\ ~v14 /\ (items.selected \/ v2.dir = v1)
              => items.places = O!Places(v1, items.names)
<1> DEFINE path == v1
           rows == v2
           hasty == v14
<1>1. CASE items \in {O!Row(n) : n \in rows.names}
  <2>1. PICK n \in rows.names : items = O!Row(n)
    BY <1>1
  <2>2. items \in O!Items /\ items.places = O!Places(rows.dir, items.names)
    BY <2>1, OperationRowItems
  <2>3. ~items.selected
    BY <2>1 DEF O!Row
  <2> QED BY <2>2, <2>3
<1>2. CASE items = O!SelectedItems
  <2>1. O!SelectedItems \in O!Items
    BY DEF O!IInv, O!TypeOK, O!RowsTyped, O!SelectedItems, O!Items
  <2>2. ~hasty => O!SelectedItems.places = O!Places(path, O!SelectedItems.names)
    BY DEF O!IInv, O!PointedAt, O!TypeOK, O!RowsTyped, O!SelectedItems, O!Places
  <2> QED BY <1>2, <2>1, <2>2
<1> QED BY <1>1, <1>2 DEF O!Picks

LEMMA OperationDownloadItems ==
  ASSUME O!IInv, NEW items \in O!Downloads
  PROVE  /\ items \in O!Items
         /\ ~v14 /\ (items.selected \/ v2.dir = v1)
              => items.places = O!Places(v1, items.names)
<1> DEFINE rows == v2
           selection == v4
           picked == v11
<1>1. CASE items \in {O!Row(n) : n \in rows.names}
  <2>1. PICK n \in rows.names : items = O!Row(n)
    BY <1>1
  <2>2. items \in O!Items /\ items.places = O!Places(rows.dir, items.names)
    BY <2>1, OperationRowItems
  <2>3. ~items.selected
    BY <2>1 DEF O!Row
  <2> QED BY <2>2, <2>3
<1>2. CASE items = [names |-> selection, places |-> picked, selected |-> TRUE]
  BY <1>2 DEF O!IInv, O!PointedAt, O!TypeOK, O!RowsTyped, O!Items
<1> QED BY <1>1, <1>2 DEF O!Downloads

LEMMA OperationAsksOps ==
  ASSUME O!IInv, O!Asks
  PROVE  v10' = v10 + 1 /\ v10' \in 0..ExplorerMaxOps /\ v10 \in 0..ExplorerMaxOps
BY ExplorerAssumption DEF O!IInv, O!TypeOK, O!OpsTyped, O!Asks

LEMMA OperationAskTyped ==
  ASSUME O!IInv, NEW kind \in O!Kinds, NEW dir \in ExplorerDir, NEW items \in O!Items, NEW to \in ExplorerDir,
         NEW id \in 0..ExplorerMaxOps, O!Ask(kind, dir, items, to, id), v10' \in 0..ExplorerMaxOps
  PROVE  /\ v7' \subseteq [kind : O!Kinds, dir : ExplorerDir, names : SUBSET FileName,
              places : SUBSET O!Place, selected : BOOLEAN, to : ExplorerDir, id : 0..ExplorerMaxOps,
              number : 0..ExplorerMaxOps]
         /\ \A r \in v7' : r \in v7 \/ /\ r.kind = kind /\ r.dir = dir /\ r.id = id
                                                   /\ r.places = items.places
                                                   /\ r.names = items.names
         /\ v7 \subseteq v7'
         /\ v8' \in BOOLEAN /\ (v8 \/ kind \in O!Covered => v8')
         /\ UNCHANGED <<v9, v15>>
<1> DEFINE requests == v7
           saving == v8
           uploading == v9
           ops == v10
           early == v15
<1> DEFINE q == [kind |-> kind, dir |-> dir, names |-> items.names, places |-> items.places,
                 selected |-> items.selected, to |-> to, id |-> id, number |-> ops']
<1>1. /\ q \in [kind : O!Kinds, dir : ExplorerDir, names : SUBSET FileName, places : SUBSET O!Place,
                selected : BOOLEAN, to : ExplorerDir, id : 0..ExplorerMaxOps, number : 0..ExplorerMaxOps]
      /\ q.kind = kind /\ q.dir = dir /\ q.id = id
      /\ q.places = items.places /\ q.names = items.names
  BY DEF O!Items
<1>2. requests' = requests \cup {q}
  BY DEF O!Ask
<1> HIDE DEF q
<1>3. saving' = (saving \/ kind \in O!Covered) /\ UNCHANGED <<uploading, early>>
  BY DEF O!Ask
<1> QED BY <1>1, <1>2, <1>3 DEF O!IInv, O!TypeOK, O!RequestsTyped

LEMMA OperationFrontTyped ==
  ASSUME O!IInv, v6 # << >>
  PROVE  /\ O!Last(v6) \in [kind : {"rename", "create", "edit"}, dir : ExplorerDir, items : O!Items]
         /\ O!Front(v6) \in Seq([kind : {"rename", "create", "edit"}, dir : ExplorerDir, items : O!Items])
         /\ \A i \in DOMAIN O!Front(v6) :
              i \in DOMAIN v6 /\ O!Front(v6)[i] = v6[i]
         /\ \E i \in DOMAIN v6 : O!Last(v6) = v6[i]
<1> DEFINE dialogs == v6
<1> DEFINE Dialog == [kind : {"rename", "create", "edit"}, dir : ExplorerDir, items : O!Items]
<1>1. dialogs \in Seq(Dialog)
  BY DEF O!IInv, O!TypeOK, O!RequestsTyped
<1> HIDE DEF Dialog
<1>2. Len(dialogs) \in Nat \ {0} /\ DOMAIN dialogs = 1..Len(dialogs)
  BY <1>1, EmptySeq, LenProperties
<1>3. O!Last(dialogs) = dialogs[Len(dialogs)] /\ dialogs[Len(dialogs)] \in Dialog
  BY <1>1, <1>2, ElementOfSeq DEF O!Last
<1>4. O!Front(dialogs) = SubSeq(dialogs, 1, Len(dialogs) - 1)
  BY DEF O!Front
<1>5. /\ O!Front(dialogs) \in Seq(Dialog) /\ Len(O!Front(dialogs)) = Len(dialogs) - 1
      /\ \A i \in 1..(Len(dialogs) - 1) : O!Front(dialogs)[i] = dialogs[i]
  BY <1>1, <1>2, <1>4, SubSeqProperties
<1>6. DOMAIN O!Front(dialogs) = 1..(Len(dialogs) - 1)
  BY <1>5, <1>2, LenProperties
<1>7. Len(dialogs) \in DOMAIN dialogs
  BY <1>2
<1>8. \A i \in DOMAIN O!Front(dialogs) : i \in DOMAIN dialogs /\ O!Front(dialogs)[i] = dialogs[i]
  BY <1>2, <1>5, <1>6
<1> QED BY <1>3, <1>5, <1>7, <1>8 DEF Dialog

LEMMA OperationShowsTyped ==
  ASSUME O!IInv, NEW d \in [kind : {"rename", "create", "edit"}, dir : ExplorerDir, items : O!Items], O!Shows(d)
  PROVE  /\ v6' \in Seq([kind : {"rename", "create", "edit"}, dir : ExplorerDir, items : O!Items])
         /\ \A i \in DOMAIN v6' :
              v6'[i] = d \/ (i \in DOMAIN v6 /\ v6'[i] = v6[i])
<1> DEFINE dialogs == v6
<1> DEFINE Dialog == [kind : {"rename", "create", "edit"}, dir : ExplorerDir, items : O!Items]
<1>1. dialogs \in Seq(Dialog) /\ dialogs' = Append(dialogs, d) /\ d \in Dialog
  BY DEF O!IInv, O!TypeOK, O!RequestsTyped, O!Shows
<1> HIDE DEF Dialog
<1>2. /\ dialogs' \in Seq(Dialog) /\ Len(dialogs') = Len(dialogs) + 1
      /\ \A i \in 1..Len(dialogs) : dialogs'[i] = dialogs[i]
      /\ dialogs'[Len(dialogs) + 1] = d
  BY <1>1, AppendProperties
<1>3. /\ DOMAIN dialogs = 1..Len(dialogs) /\ Len(dialogs) \in Nat
      /\ DOMAIN dialogs' = 1..(Len(dialogs) + 1)
  BY <1>1, <1>2, LenProperties
<1>4. \A i \in DOMAIN dialogs' :
        dialogs'[i] = d \/ (i \in DOMAIN dialogs /\ dialogs'[i] = dialogs[i])
  BY <1>2, <1>3
<1> QED BY <1>2, <1>4 DEF Dialog

LEMMA OperationAsksMore ==
  ASSUME O!IInv, O!Asks
  PROVE  /\ \A n \in 0..ExplorerMaxOps : n <= v10 => n <= v10'
         /\ v5.id <= v10' /\ v12 <= v10' /\ \A m \in v13 : m <= v10'
         /\ \A q \in v7 : q.id <= v10'
<1> DEFINE clip == v5
           requests == v7
           ops == v10
           copied == v12
           moved == v13
<1>1. ops' = ops + 1 /\ ops \in 0..ExplorerMaxOps
  BY OperationAsksOps
<1>2. clip.id \in 0..ExplorerMaxOps /\ copied \in 0..ExplorerMaxOps /\ moved \subseteq 0..ExplorerMaxOps
  BY DEF O!IInv, O!TypeOK, O!ClipTyped
<1>3. \A n \in 0..ExplorerMaxOps : n <= ops => n <= ops'
  BY <1>1, ExplorerAssumption
<1>4. \A q \in requests : q.id \in 0..ExplorerMaxOps
  BY DEF O!IInv, O!TypeOK, O!RequestsTyped
<1> QED BY <1>2, <1>3, <1>4 DEF O!IInv, O!MovesOnce

\* A request that is asked for is about what was pointed at.
LEMMA OperationAskKeeps ==
  ASSUME O!IInv, O!Asks,
         NEW kind \in O!Kinds, NEW dir \in ExplorerDir, NEW items \in O!Items, NEW to \in ExplorerDir,
         NEW id \in 0..ExplorerMaxOps, id <= v10', O!Ask(kind, dir, items, to, id),
         UNCHANGED <<v1, v2, v3, v4, v11, v5, v12, v13>>,
         v14' \in BOOLEAN, v14 => v14',
         v14' \/ items.places = O!Places(dir, items.names),
         kind = "move" => v5.mode = "move" /\ id = v5.id /\ ~v8,
         v6' \in Seq([kind : {"rename", "create", "edit"}, dir : ExplorerDir, items : O!Items]),
         \A i \in DOMAIN v6' : i \in DOMAIN v6 /\ v6'[i] = v6[i]
  PROVE  O!IInv'
<1> DEFINE clip == v5
           requests == v7
           saving == v8
           uploading == v9
           ops == v10
           copied == v12
           moved == v13
           early == v15
<1>0. ops' \in 0..ExplorerMaxOps
  BY OperationAsksOps
<1>1. /\ requests' \subseteq [kind : O!Kinds, dir : ExplorerDir, names : SUBSET FileName,
            places : SUBSET O!Place, selected : BOOLEAN, to : ExplorerDir, id : 0..ExplorerMaxOps,
            number : 0..ExplorerMaxOps]
      /\ \A r \in requests' : r \in requests \/ /\ r.kind = kind /\ r.dir = dir /\ r.id = id
                                                /\ r.places = items.places
                                                /\ r.names = items.names
      /\ requests \subseteq requests'
      /\ saving' \in BOOLEAN /\ (saving \/ kind \in O!Covered => saving')
      /\ UNCHANGED <<uploading, early>>
  BY <1>0, OperationAskTyped
<1>2. O!RowsTyped' /\ O!ClipTyped' /\ O!RequestsTyped'
  BY <1>1 DEF O!IInv, O!TypeOK, O!RowsTyped, O!ClipTyped, O!RequestsTyped
<1>3. O!OpsTyped'
  BY <1>0, <1>1 DEF O!IInv, O!TypeOK, O!OpsTyped
<1>4. O!PointedAt'
  BY <1>1 DEF O!IInv, O!PointedAt
<1>5. /\ clip'.id <= ops' /\ copied' <= ops' /\ \A m \in moved' : m <= ops'
      /\ \A q \in requests' : q.id <= ops'
  BY <1>1, OperationAsksMore
<1>6. ASSUME ~early'
      PROVE  /\ uploading' \/ (\E q \in requests' : q.kind \in O!Covered) => saving'
             /\ clip'.mode = "move" => clip'.id \notin moved'
             /\ clip'.id = copied' \/ copied' \in moved'
  BY <1>1, <1>6 DEF O!IInv, O!MovesOnce
<1>7. ASSUME ~early', NEW q \in requests', q.kind = "move"
      PROVE  /\ clip'.mode = "move" /\ q.id = clip'.id
             /\ \A r \in requests' : r.kind = "move" => r = q
  <2>1. "move" \in O!Covered
    BY DEF O!Covered
  <2>2. CASE kind = "move"
    <3> DEFINE new == [kind |-> kind, dir |-> dir, names |-> items.names,
                       places |-> items.places, selected |-> items.selected, to |-> to,
                       id |-> id, number |-> ops']
    <3>1. requests' = requests \cup {new} /\ new.id = id
      BY DEF O!Ask
    <3> HIDE DEF new
    <3>2. \A r \in requests : r.kind # "move"
      BY <2>1, <2>2, <1>1, <1>7 DEF O!IInv, O!MovesOnce
    <3> QED BY <3>1, <3>2, <2>2, <1>7
  <2>3. CASE kind # "move"
    BY <2>3, <1>1, <1>7 DEF O!IInv, O!MovesOnce
  <2> QED BY <2>2, <2>3
<1>8. O!MovesOnce'
  BY <1>5, <1>6, <1>7 DEF O!MovesOnce
<1> QED BY <1>2, <1>3, <1>4, <1>8 DEF O!IInv, O!TypeOK

LEMMA OperationNavigateStep ==
  ASSUME O!IInv, NEW d \in ExplorerDir, O!Navigate(d) PROVE O!IInv'
<1> DEFINE path == v1
           selection == v4
           clip == v5
           dialogs == v6
           requests == v7
           picked == v11
           hasty == v14
<1>1. O!RowsTyped'
  BY ExplorerAssumption DEF O!IInv, O!TypeOK, O!RowsTyped, O!Navigate, O!UserAsks, O!UserSees,
     O!Asks, O!ClearSelection, O!shownVars, O!pickVars, O!pastVars, O!busyVars
<1>2. O!ClipTyped'
  BY ExplorerAssumption DEF O!IInv, O!TypeOK, O!ClipTyped, O!Navigate, O!UserAsks, O!UserSees,
     O!Asks, O!ClearSelection, O!shownVars, O!pickVars, O!pastVars, O!busyVars
<1>3. O!RequestsTyped'
  BY ExplorerAssumption DEF O!IInv, O!TypeOK, O!RequestsTyped, O!Navigate, O!UserAsks, O!UserSees,
     O!Asks, O!ClearSelection, O!shownVars, O!pickVars, O!pastVars, O!busyVars
<1>4. O!OpsTyped'
  BY ExplorerAssumption DEF O!IInv, O!TypeOK, O!OpsTyped, O!Navigate, O!UserAsks, O!UserSees,
     O!Asks, O!ClearSelection, O!shownVars, O!pickVars, O!pastVars, O!busyVars
<1>5. O!PointedAt'
  <2>1. dialogs = << >> /\ dialogs' = dialogs /\ requests' = requests /\ hasty' = hasty /\ clip' = clip
    BY DEF O!Navigate, O!UserAsks, O!UserSees, O!busyVars, O!pastVars
  <2>2. picked' = O!Places(path', selection')
    BY DEF O!Navigate, O!ClearSelection, O!Places
  <2>3. DOMAIN dialogs = {}
    BY <2>1
  <2> QED BY <2>1, <2>2, <2>3 DEF O!IInv, O!PointedAt
<1>6. O!MovesOnce'
  BY ExplorerAssumption DEF O!IInv, O!TypeOK, O!MovesOnce, O!RowsTyped, O!ClipTyped,
     O!RequestsTyped, O!OpsTyped, O!Navigate, O!UserAsks, O!UserSees, O!Asks, O!ClearSelection,
     O!shownVars, O!pickVars, O!pastVars, O!busyVars
<1> QED BY <1>1, <1>2, <1>3, <1>4, <1>5, <1>6 DEF O!IInv, O!TypeOK

LEMMA OperationRefreshStep ==
  ASSUME O!IInv, O!Refresh PROVE O!IInv'
<1>1. O!RowsTyped'
  BY ExplorerAssumption DEF O!IInv, O!TypeOK, O!RowsTyped, O!Refresh, O!UserAsks, O!UserSees,
     O!Asks, O!shownVars, O!pickVars, O!pastVars, O!busyVars
<1>2. O!ClipTyped'
  BY ExplorerAssumption DEF O!IInv, O!TypeOK, O!ClipTyped, O!Refresh, O!UserAsks, O!UserSees,
     O!Asks, O!shownVars, O!pickVars, O!pastVars, O!busyVars
<1>3. O!RequestsTyped'
  BY ExplorerAssumption DEF O!IInv, O!TypeOK, O!RequestsTyped, O!Refresh, O!UserAsks, O!UserSees,
     O!Asks, O!shownVars, O!pickVars, O!pastVars, O!busyVars
<1>4. O!OpsTyped'
  BY ExplorerAssumption DEF O!IInv, O!TypeOK, O!OpsTyped, O!Refresh, O!UserAsks, O!UserSees,
     O!Asks, O!shownVars, O!pickVars, O!pastVars, O!busyVars
<1>5. O!PointedAt'
  BY ExplorerAssumption DEF O!IInv, O!TypeOK, O!PointedAt, O!RowsTyped, O!ClipTyped,
     O!RequestsTyped, O!OpsTyped, O!Refresh, O!UserAsks, O!UserSees, O!Asks, O!shownVars,
     O!pickVars, O!pastVars, O!busyVars
<1>6. O!MovesOnce'
  BY ExplorerAssumption DEF O!IInv, O!TypeOK, O!MovesOnce, O!RowsTyped, O!ClipTyped,
     O!RequestsTyped, O!OpsTyped, O!Refresh, O!UserAsks, O!UserSees, O!Asks, O!shownVars,
     O!pickVars, O!pastVars, O!busyVars
<1> QED BY <1>1, <1>2, <1>3, <1>4, <1>5, <1>6 DEF O!IInv, O!TypeOK

LEMMA OperationListingArrivesStep ==
  ASSUME O!IInv, NEW names \in SUBSET FileName, O!ListingArrives(names) PROVE O!IInv'
<1>1. O!RowsTyped'
  BY ExplorerAssumption DEF O!IInv, O!TypeOK, O!RowsTyped, O!ListingArrives, O!shownVars,
     O!pickVars, O!pastVars, O!busyVars
<1>2. O!ClipTyped'
  BY ExplorerAssumption DEF O!IInv, O!TypeOK, O!ClipTyped, O!ListingArrives, O!shownVars,
     O!pickVars, O!pastVars, O!busyVars
<1>3. O!RequestsTyped'
  BY ExplorerAssumption DEF O!IInv, O!TypeOK, O!RequestsTyped, O!ListingArrives, O!shownVars,
     O!pickVars, O!pastVars, O!busyVars
<1>4. O!OpsTyped'
  BY ExplorerAssumption DEF O!IInv, O!TypeOK, O!OpsTyped, O!ListingArrives, O!shownVars,
     O!pickVars, O!pastVars, O!busyVars
<1>5. O!PointedAt'
  BY ExplorerAssumption DEF O!IInv, O!TypeOK, O!PointedAt, O!RowsTyped, O!ClipTyped,
     O!RequestsTyped, O!OpsTyped, O!ListingArrives, O!shownVars, O!pickVars, O!pastVars, O!busyVars
<1>6. O!MovesOnce'
  BY ExplorerAssumption DEF O!IInv, O!TypeOK, O!MovesOnce, O!RowsTyped, O!ClipTyped,
     O!RequestsTyped, O!OpsTyped, O!ListingArrives, O!shownVars, O!pickVars, O!pastVars, O!busyVars
<1> QED BY <1>1, <1>2, <1>3, <1>4, <1>5, <1>6 DEF O!IInv, O!TypeOK

LEMMA OperationListingFailsStep ==
  ASSUME O!IInv, O!ListingFails PROVE O!IInv'
<1>1. O!RowsTyped'
  BY ExplorerAssumption DEF O!IInv, O!TypeOK, O!RowsTyped, O!ListingFails, O!shownVars, O!pickVars,
     O!pastVars, O!busyVars
<1>2. O!ClipTyped'
  BY ExplorerAssumption DEF O!IInv, O!TypeOK, O!ClipTyped, O!ListingFails, O!shownVars, O!pickVars,
     O!pastVars, O!busyVars
<1>3. O!RequestsTyped'
  BY ExplorerAssumption DEF O!IInv, O!TypeOK, O!RequestsTyped, O!ListingFails, O!shownVars,
     O!pickVars, O!pastVars, O!busyVars
<1>4. O!OpsTyped'
  BY ExplorerAssumption DEF O!IInv, O!TypeOK, O!OpsTyped, O!ListingFails, O!shownVars, O!pickVars,
     O!pastVars, O!busyVars
<1>5. O!PointedAt'
  BY ExplorerAssumption DEF O!IInv, O!TypeOK, O!PointedAt, O!RowsTyped, O!ClipTyped,
     O!RequestsTyped, O!OpsTyped, O!ListingFails, O!shownVars, O!pickVars, O!pastVars, O!busyVars
<1>6. O!MovesOnce'
  BY ExplorerAssumption DEF O!IInv, O!TypeOK, O!MovesOnce, O!RowsTyped, O!ClipTyped,
     O!RequestsTyped, O!OpsTyped, O!ListingFails, O!shownVars, O!pickVars, O!pastVars, O!busyVars
<1> QED BY <1>1, <1>2, <1>3, <1>4, <1>5, <1>6 DEF O!IInv, O!TypeOK

LEMMA OperationOnRowClickStep ==
  ASSUME O!IInv, NEW click \in {"plain", "ctrl", "shift"}, NEW name \in v2.names, O!OnRowClick(click, name) PROVE O!IInv'
<1> DEFINE path == v1
           rows == v2
           selection == v4
           clip == v5
           dialogs == v6
           requests == v7
           picked == v11
           hasty == v14
<1>a. selection' \subseteq FileName /\ name \in FileName /\ rows.names \subseteq FileName /\ rows.dir \in ExplorerDir
  BY DEF O!IInv, O!TypeOK, O!RowsTyped, O!OnRowClick, O!SelectedBy
<1> DEFINE kept == IF click = "ctrl" THEN {p \in picked : p[2] \in selection'} ELSE {}
           new == IF click = "ctrl" THEN selection' \ selection ELSE selection'
<1>b. picked' = kept \cup O!Places(rows.dir, new)
  BY DEF O!OnRowClick
<1>1. O!RowsTyped'
  BY <1>a, <1>b DEF O!IInv, O!TypeOK, O!RowsTyped, O!OnRowClick, O!shownVars, O!Places, O!Place
<1>2. O!ClipTyped'
  BY ExplorerAssumption DEF O!IInv, O!TypeOK, O!ClipTyped, O!OnRowClick, O!UserSees, O!SelectedBy,
     O!Pointed, O!shownVars, O!pickVars, O!pastVars, O!busyVars
<1>3. O!RequestsTyped'
  BY ExplorerAssumption DEF O!IInv, O!TypeOK, O!RequestsTyped, O!OnRowClick, O!UserSees,
     O!SelectedBy, O!Pointed, O!shownVars, O!pickVars, O!pastVars, O!busyVars
<1>4. O!OpsTyped'
  BY ExplorerAssumption DEF O!IInv, O!TypeOK, O!OpsTyped, O!OnRowClick, O!UserSees, O!SelectedBy,
     O!Pointed, O!shownVars, O!pickVars, O!pastVars, O!busyVars
<1>5. O!PointedAt'
  <2>1. UNCHANGED <<path, clip, dialogs, requests>> /\ (hasty => hasty') /\ (hasty' \/ rows.dir = path)
    BY DEF O!OnRowClick, O!Pointed, O!shownVars, O!pastVars, O!busyVars
  <2>2. ASSUME ~hasty' PROVE picked' = O!Places(path, selection')
    <3>1. picked = O!Places(path, selection) /\ rows.dir = path
      BY <2>1, <2>2 DEF O!IInv, O!PointedAt
    <3>2. CASE click = "ctrl"
      <4>1. kept = O!Places(path, selection \cap selection')
        BY <3>1, <3>2 DEF O!Places
      <4> QED BY <1>b, <3>1, <3>2, <4>1 DEF O!Places
    <3>3. CASE click # "ctrl"
      BY <1>b, <3>1, <3>3
    <3> QED BY <3>2, <3>3
  <2> QED BY <2>1, <2>2 DEF O!IInv, O!PointedAt
<1>6. O!MovesOnce'
  BY ExplorerAssumption DEF O!IInv, O!TypeOK, O!MovesOnce, O!RowsTyped, O!ClipTyped,
     O!RequestsTyped, O!OpsTyped, O!OnRowClick, O!UserSees, O!SelectedBy, O!Pointed, O!shownVars,
     O!pickVars, O!pastVars, O!busyVars
<1> QED BY <1>1, <1>2, <1>3, <1>4, <1>5, <1>6 DEF O!IInv, O!TypeOK

LEMMA OperationDeleteStep ==
  ASSUME O!IInv, NEW items \in O!Picks, O!Delete(items) PROVE O!IInv'
<1> DEFINE path == v1
           rows == v2
           reading == v3
           selection == v4
           clip == v5
           dialogs == v6
           ops == v10
           picked == v11
           copied == v12
           moved == v13
           hasty == v14
<1>a. O!Asks /\ ops' \in 0..ExplorerMaxOps /\ ops' <= ops' /\ O!Ask("delete", path, items, path, ops')
  BY OperationAsksOps DEF O!Delete, O!UserAsks
<1>b. UNCHANGED <<path, rows, reading, selection, picked, clip, copied, moved>>
  BY DEF O!Delete, O!shownVars, O!pickVars, O!pastVars
<1>c. dialogs' = dialogs /\ dialogs \in Seq([kind : {"rename", "create", "edit"}, dir : ExplorerDir, items : O!Items])
  BY DEF O!IInv, O!TypeOK, O!RequestsTyped, O!Delete
<1>t. path \in ExplorerDir /\ hasty \in BOOLEAN /\ rows.dir \in ExplorerDir
  BY DEF O!IInv, O!TypeOK, O!RowsTyped, O!OpsTyped
<1>d. items \in O!Items /\ hasty' \in BOOLEAN /\ (hasty => hasty')
      /\ (hasty' \/ items.places = O!Places(path, items.names))
  BY <1>t, OperationPickItems DEF O!Delete, O!Chosen, O!Pointed
<1>e. "delete" \in O!Kinds /\ "delete" # "move"
  BY DEF O!Kinds
<1> QED BY <1>a, <1>b, <1>c, <1>d, <1>e, <1>t, OperationAskKeeps

LEMMA OperationDownloadStep ==
  ASSUME O!IInv, NEW items \in O!Downloads, O!Download(items) PROVE O!IInv'
<1> DEFINE path == v1
           rows == v2
           reading == v3
           selection == v4
           clip == v5
           dialogs == v6
           ops == v10
           picked == v11
           copied == v12
           moved == v13
           hasty == v14
<1>a. O!Asks /\ ops' \in 0..ExplorerMaxOps /\ ops' <= ops' /\ O!Ask("save", path, items, path, ops')
  BY OperationAsksOps DEF O!Download, O!UserAsks
<1>b. UNCHANGED <<path, rows, reading, selection, picked, clip, copied, moved>>
  BY DEF O!Download, O!shownVars, O!pickVars, O!pastVars
<1>c. dialogs' = dialogs /\ dialogs \in Seq([kind : {"rename", "create", "edit"}, dir : ExplorerDir, items : O!Items])
  BY DEF O!IInv, O!TypeOK, O!RequestsTyped, O!Download
<1>t. path \in ExplorerDir /\ hasty \in BOOLEAN /\ rows.dir \in ExplorerDir
  BY DEF O!IInv, O!TypeOK, O!RowsTyped, O!OpsTyped
<1>d. items \in O!Items /\ hasty' \in BOOLEAN /\ (hasty => hasty')
      /\ (hasty' \/ items.places = O!Places(path, items.names))
  BY <1>t, OperationDownloadItems DEF O!Download, O!Chosen, O!Pointed
<1>e. "save" \in O!Kinds /\ "save" # "move"
  BY DEF O!Kinds
<1> QED BY <1>a, <1>b, <1>c, <1>d, <1>e, <1>t, OperationAskKeeps

LEMMA OperationCopyStep ==
  ASSUME O!IInv, NEW items \in O!Picks, NEW mode \in {"copy", "move"}, O!Copy(items, mode) PROVE O!IInv'
<1> DEFINE path == v1
           rows == v2
           selection == v4
           clip == v5
           dialogs == v6
           requests == v7
           saving == v8
           uploading == v9
           ops == v10
           picked == v11
           copied == v12
           moved == v13
           hasty == v14
           early == v15
<1>a. ops' \in 0..ExplorerMaxOps /\ ops' = ops + 1 /\ ops \in 0..ExplorerMaxOps /\ O!Asks
  BY OperationAsksOps DEF O!Copy, O!UserAsks
<1>b. items \in O!Items /\ hasty' \in BOOLEAN /\ (hasty => hasty')
      /\ (hasty' \/ items.places = O!Places(path, items.names)) /\ path \in ExplorerDir
  BY OperationPickItems DEF O!Copy, O!Chosen, O!Pointed, O!IInv, O!TypeOK, O!OpsTyped, O!RowsTyped
<1> DEFINE c == [mode |-> mode, dir |-> path, names |-> items.names, places |-> items.places,
                 id |-> ops']
<1>c. /\ c \in [mode : {"none", "copy", "move"}, dir : ExplorerDir, names : SUBSET FileName,
                places : SUBSET O!Place, id : 0..ExplorerMaxOps]
      /\ c.dir = path /\ c.names = items.names /\ c.places = items.places /\ c.id = ops'
      /\ clip' = c
  BY <1>a, <1>b DEF O!Copy, O!Items
<1>d. copied' = ops' /\ UNCHANGED <<path, rows, moved, requests, saving, uploading, early, dialogs>>
  BY DEF O!Copy, O!shownVars, O!busyVars
<1>e. (selection' = {} /\ picked' = {}) \/ UNCHANGED <<selection, picked>>
  BY DEF O!Copy, O!ClearSelection, O!pickVars
<1> HIDE DEF c
<1>1. O!RowsTyped'
  BY ExplorerAssumption DEF O!IInv, O!TypeOK, O!RowsTyped, O!Copy, O!UserAsks, O!UserSees, O!Asks,
     O!ClearSelection, O!shownVars, O!pickVars, O!pastVars, O!busyVars
<1>2. O!ClipTyped'
  BY <1>a, <1>c, <1>d DEF O!IInv, O!TypeOK, O!ClipTyped
<1>3. O!RequestsTyped'
  BY ExplorerAssumption DEF O!IInv, O!TypeOK, O!RequestsTyped, O!Copy, O!UserAsks, O!UserSees,
     O!Asks, O!ClearSelection, O!shownVars, O!pickVars, O!pastVars, O!busyVars
<1>4. O!OpsTyped'
  BY <1>a, <1>b, <1>d DEF O!IInv, O!TypeOK, O!OpsTyped
<1>5. O!PointedAt'
  <2>1. hasty' \/ picked' = O!Places(path, selection')
    BY <1>b, <1>e DEF O!IInv, O!PointedAt, O!Places
  <2> QED BY <2>1, <1>b, <1>c, <1>d DEF O!IInv, O!PointedAt
<1>6. O!MovesOnce'
  <2>1. /\ clip'.id = copied' /\ clip'.id = ops' /\ ops' <= ops'
        /\ \A m \in moved' : m <= ops' /\ m # ops'
    <3>1. \A m \in moved : m \in 0..ExplorerMaxOps /\ m <= ops
      BY DEF O!IInv, O!TypeOK, O!ClipTyped, O!MovesOnce
    <3> QED BY <3>1, <1>a, <1>c, <1>d
  <2>2. ~saving
    BY DEF O!Copy, O!UserAsks, O!UserSees
  <2>3. "move" \in O!Covered
    BY DEF O!Covered
  <2>4. ASSUME ~early' PROVE /\ \A q \in requests' : q.kind # "move"
                             /\ uploading' \/ (\E q \in requests' : q.kind \in O!Covered) => saving'
    BY <2>2, <2>3, <2>4, <1>d DEF O!IInv, O!MovesOnce
  <2>5. \A q \in requests' : q.id <= ops'
    BY <1>a, <1>d, OperationAsksMore
  <2> QED BY <2>1, <2>4, <2>5 DEF O!MovesOnce
<1> QED BY <1>1, <1>2, <1>3, <1>4, <1>5, <1>6 DEF O!IInv, O!TypeOK

LEMMA OperationPasteStep ==
  ASSUME O!IInv, O!Paste PROVE O!IInv'
<1> DEFINE path == v1
           rows == v2
           reading == v3
           selection == v4
           clip == v5
           dialogs == v6
           saving == v8
           ops == v10
           picked == v11
           copied == v12
           moved == v13
           hasty == v14
<1>a. O!Asks /\ ops' \in 0..ExplorerMaxOps /\ ops' <= ops' /\ O!Ask(clip.mode, clip.dir, O!ClipItems, path, clip.id)
  BY OperationAsksOps DEF O!Paste, O!UserAsks
<1>b. UNCHANGED <<path, rows, reading, selection, picked, clip, copied, moved>>
  BY DEF O!Paste, O!shownVars, O!pickVars, O!pastVars
<1>c. dialogs' = dialogs /\ dialogs \in Seq([kind : {"rename", "create", "edit"}, dir : ExplorerDir, items : O!Items])
  BY DEF O!IInv, O!TypeOK, O!RequestsTyped, O!Paste
<1>t. path \in ExplorerDir /\ hasty \in BOOLEAN /\ rows.dir \in ExplorerDir
  BY DEF O!IInv, O!TypeOK, O!RowsTyped, O!OpsTyped
<1>d. /\ O!ClipItems \in O!Items /\ (hasty \/ O!ClipItems.places = O!Places(clip.dir, O!ClipItems.names))
      /\ clip.dir \in ExplorerDir /\ clip.id \in 0..ExplorerMaxOps
  BY DEF O!ClipItems, O!Items, O!IInv, O!TypeOK, O!ClipTyped, O!PointedAt
<1>e. clip.mode \in O!Kinds /\ hasty' = hasty /\ ~saving /\ clip.id <= ops'
  BY <1>a, OperationAsksMore DEF O!Kinds, O!Covered, O!Paste, O!UserAsks, O!UserSees, O!IInv,
     O!TypeOK, O!ClipTyped
<1> QED BY <1>a, <1>b, <1>c, <1>d, <1>e, <1>t, OperationAskKeeps

LEMMA OperationFolderDropStep ==
  ASSUME O!IInv, NEW name \in v2.names, NEW folder \in ExplorerDir, O!FolderDrop(name, folder) PROVE O!IInv'
<1> DEFINE path == v1
           rows == v2
           reading == v3
           selection == v4
           clip == v5
           dialogs == v6
           ops == v10
           picked == v11
           copied == v12
           moved == v13
           hasty == v14
<1>a. O!Asks /\ ops' \in 0..ExplorerMaxOps /\ ops' <= ops' /\ O!Ask("drop", path, O!Row(name), folder, ops')
  BY OperationAsksOps DEF O!FolderDrop, O!UserAsks
<1>b. UNCHANGED <<path, rows, reading, selection, picked, clip, copied, moved>>
  BY DEF O!FolderDrop, O!shownVars, O!pickVars, O!pastVars
<1>c. dialogs' = dialogs /\ dialogs \in Seq([kind : {"rename", "create", "edit"}, dir : ExplorerDir, items : O!Items])
  BY DEF O!IInv, O!TypeOK, O!RequestsTyped, O!FolderDrop
<1>t. path \in ExplorerDir /\ hasty \in BOOLEAN /\ rows.dir \in ExplorerDir
  BY DEF O!IInv, O!TypeOK, O!RowsTyped, O!OpsTyped
<1>d. O!Row(name) \in O!Items /\ hasty' \in BOOLEAN /\ (hasty => hasty')
      /\ (hasty' \/ O!Row(name).places = O!Places(path, O!Row(name).names))
  BY <1>t, OperationRowItems DEF O!FolderDrop, O!Pointed
<1>e. "drop" \in O!Kinds /\ "drop" # "move"
  BY DEF O!Kinds, O!Covered
<1> QED BY <1>a, <1>b, <1>c, <1>d, <1>e, <1>t, OperationAskKeeps

LEMMA OperationDropStep ==
  ASSUME O!IInv, NEW kind \in {"put", "get"}, O!Drop(kind) PROVE O!IInv'
<1> DEFINE path == v1
           rows == v2
           reading == v3
           selection == v4
           clip == v5
           dialogs == v6
           ops == v10
           picked == v11
           copied == v12
           moved == v13
           hasty == v14
<1>a. O!Asks /\ ops' \in 0..ExplorerMaxOps /\ ops' <= ops' /\ O!Ask(kind, path, O!Nothing, path, ops')
  BY OperationAsksOps DEF O!Drop, O!UserAsks
<1>b. UNCHANGED <<path, rows, reading, selection, picked, clip, copied, moved>>
  BY DEF O!Drop, O!shownVars, O!pickVars, O!pastVars
<1>c. dialogs' = dialogs /\ dialogs \in Seq([kind : {"rename", "create", "edit"}, dir : ExplorerDir, items : O!Items])
  BY DEF O!IInv, O!TypeOK, O!RequestsTyped, O!Drop
<1>t. path \in ExplorerDir /\ hasty \in BOOLEAN /\ rows.dir \in ExplorerDir
  BY DEF O!IInv, O!TypeOK, O!RowsTyped, O!OpsTyped
<1>d. O!Nothing \in O!Items /\ O!Nothing.places = O!Places(path, O!Nothing.names)
  BY DEF O!Nothing, O!Items, O!Places
<1>e. kind \in O!Kinds /\ kind # "move" /\ hasty' = hasty
  BY DEF O!Kinds, O!Covered, O!Drop
<1> QED BY <1>a, <1>b, <1>c, <1>d, <1>e, <1>t, OperationAskKeeps

LEMMA OperationEditStep ==
  ASSUME O!IInv, NEW name \in v2.names, O!Edit(name) PROVE O!IInv'
<1> DEFINE path == v1
           rows == v2
           reading == v3
           selection == v4
           clip == v5
           dialogs == v6
           ops == v10
           picked == v11
           copied == v12
           moved == v13
           hasty == v14
<1>a. O!Asks /\ ops' \in 0..ExplorerMaxOps /\ ops' <= ops' /\ O!Ask("fetch", path, O!Row(name), path, ops')
  BY OperationAsksOps DEF O!Edit, O!UserAsks
<1>b. UNCHANGED <<path, rows, reading, selection, picked, clip, copied, moved>>
  BY DEF O!Edit, O!shownVars, O!pickVars, O!pastVars
<1>c. dialogs' = dialogs /\ dialogs \in Seq([kind : {"rename", "create", "edit"}, dir : ExplorerDir, items : O!Items])
  BY DEF O!IInv, O!TypeOK, O!RequestsTyped, O!Edit
<1>t. path \in ExplorerDir /\ hasty \in BOOLEAN /\ rows.dir \in ExplorerDir
  BY DEF O!IInv, O!TypeOK, O!RowsTyped, O!OpsTyped
<1>d. O!Row(name) \in O!Items /\ hasty' \in BOOLEAN /\ (hasty => hasty')
      /\ (hasty' \/ O!Row(name).places = O!Places(path, O!Row(name).names))
  BY <1>t, OperationRowItems DEF O!Edit, O!Pointed
<1>e. "fetch" \in O!Kinds /\ "fetch" # "move"
  BY DEF O!Kinds, O!Covered
<1> QED BY <1>a, <1>b, <1>c, <1>d, <1>e, <1>t, OperationAskKeeps

LEMMA OperationRenameStep ==
  ASSUME O!IInv, NEW items \in O!Picks, O!Rename(items) PROVE O!IInv'
<1> DEFINE path == v1
           rows == v2
           selection == v4
           clip == v5
           dialogs == v6
           requests == v7
           saving == v8
           uploading == v9
           ops == v10
           picked == v11
           copied == v12
           moved == v13
           hasty == v14
           early == v15
<1>a. ops' \in 0..ExplorerMaxOps /\ O!Asks
  BY OperationAsksOps DEF O!Rename, O!UserAsks
<1> DEFINE d == [kind |-> "rename", dir |-> path, items |-> items]
<1>b. items \in O!Items /\ hasty' \in BOOLEAN /\ (hasty => hasty')
      /\ (hasty' \/ items.places = O!Places(path, items.names)) /\ path \in ExplorerDir
  BY OperationPickItems DEF O!Rename, O!Chosen, O!Pointed, O!IInv, O!TypeOK, O!OpsTyped, O!RowsTyped
<1>c. /\ d \in [kind : {"rename", "create", "edit"}, dir : ExplorerDir, items : O!Items]
      /\ d.dir = path /\ d.items = items /\ O!Shows(d)
  BY <1>b DEF O!Rename
<1> HIDE DEF d
<1>d. UNCHANGED <<path, rows, clip, copied, moved, requests, saving, uploading, early>>
  BY DEF O!Rename, O!shownVars, O!busyVars, O!pastVars
<1>e. (selection' = {} /\ picked' = {}) \/ UNCHANGED <<selection, picked>>
  BY DEF O!Rename, O!ClearSelection, O!pickVars
<1>1. O!RowsTyped'
  BY ExplorerAssumption DEF O!IInv, O!TypeOK, O!RowsTyped, O!Rename, O!UserAsks, O!UserSees,
     O!Asks, O!Shows, O!ClearSelection, O!shownVars, O!pickVars, O!pastVars, O!busyVars
<1>2. O!ClipTyped'
  BY ExplorerAssumption DEF O!IInv, O!TypeOK, O!ClipTyped, O!Rename, O!UserAsks, O!UserSees,
     O!Asks, O!Shows, O!ClearSelection, O!shownVars, O!pickVars, O!pastVars, O!busyVars
<1>3. O!RequestsTyped'
  BY <1>c, <1>d, OperationShowsTyped DEF O!IInv, O!TypeOK, O!RequestsTyped
<1>4. O!OpsTyped'
  BY <1>a, <1>b, <1>d DEF O!IInv, O!TypeOK, O!OpsTyped
<1>5. O!PointedAt'
  <2>1. hasty' \/ picked' = O!Places(path, selection')
    BY <1>b, <1>e DEF O!IInv, O!PointedAt, O!Places
  <2>2. \A i \in DOMAIN dialogs' :
          dialogs'[i] = d \/ (i \in DOMAIN dialogs /\ dialogs'[i] = dialogs[i])
    BY <1>c, OperationShowsTyped
  <2> QED BY <2>1, <2>2, <1>b, <1>c, <1>d DEF O!IInv, O!PointedAt
<1>6. O!MovesOnce'
  BY <1>a, <1>d, OperationAsksMore DEF O!IInv, O!MovesOnce
<1> QED BY <1>1, <1>2, <1>3, <1>4, <1>5, <1>6 DEF O!IInv, O!TypeOK

LEMMA OperationCreateFolderStep ==
  ASSUME O!IInv, O!CreateFolder PROVE O!IInv'
<1> DEFINE path == v1
           rows == v2
           selection == v4
           clip == v5
           dialogs == v6
           requests == v7
           saving == v8
           uploading == v9
           ops == v10
           picked == v11
           copied == v12
           moved == v13
           hasty == v14
           early == v15
<1>a. ops' \in 0..ExplorerMaxOps /\ O!Asks
  BY OperationAsksOps DEF O!CreateFolder, O!UserAsks
<1> DEFINE d == [kind |-> "create", dir |-> path, items |-> O!Nothing]
<1>b. O!Nothing \in O!Items /\ hasty' \in BOOLEAN /\ (hasty => hasty')
      /\ (hasty' \/ O!Nothing.places = O!Places(path, O!Nothing.names)) /\ path \in ExplorerDir
  BY DEF O!CreateFolder, O!Chosen, O!Pointed, O!IInv, O!TypeOK, O!OpsTyped, O!RowsTyped, O!Nothing,
     O!Items, O!Places
<1>c. /\ d \in [kind : {"rename", "create", "edit"}, dir : ExplorerDir, items : O!Items]
      /\ d.dir = path /\ d.items = O!Nothing /\ O!Shows(d)
  BY <1>b DEF O!CreateFolder
<1> HIDE DEF d
<1>d. UNCHANGED <<path, rows, clip, copied, moved, requests, saving, uploading, early>>
  BY DEF O!CreateFolder, O!shownVars, O!busyVars, O!pastVars
<1>e. (selection' = {} /\ picked' = {}) \/ UNCHANGED <<selection, picked>>
  BY DEF O!CreateFolder, O!ClearSelection, O!pickVars
<1>1. O!RowsTyped'
  BY ExplorerAssumption DEF O!IInv, O!TypeOK, O!RowsTyped, O!CreateFolder, O!UserAsks, O!UserSees,
     O!Asks, O!Shows, O!shownVars, O!pickVars, O!pastVars, O!busyVars
<1>2. O!ClipTyped'
  BY ExplorerAssumption DEF O!IInv, O!TypeOK, O!ClipTyped, O!CreateFolder, O!UserAsks, O!UserSees,
     O!Asks, O!Shows, O!shownVars, O!pickVars, O!pastVars, O!busyVars
<1>3. O!RequestsTyped'
  BY <1>c, <1>d, OperationShowsTyped DEF O!IInv, O!TypeOK, O!RequestsTyped
<1>4. O!OpsTyped'
  BY <1>a, <1>b, <1>d DEF O!IInv, O!TypeOK, O!OpsTyped
<1>5. O!PointedAt'
  <2>1. hasty' \/ picked' = O!Places(path, selection')
    BY <1>b, <1>e DEF O!IInv, O!PointedAt, O!Places
  <2>2. \A i \in DOMAIN dialogs' :
          dialogs'[i] = d \/ (i \in DOMAIN dialogs /\ dialogs'[i] = dialogs[i])
    BY <1>c, OperationShowsTyped
  <2> QED BY <2>1, <2>2, <1>b, <1>c, <1>d DEF O!IInv, O!PointedAt
<1>6. O!MovesOnce'
  BY <1>a, <1>d, OperationAsksMore DEF O!IInv, O!MovesOnce
<1> QED BY <1>1, <1>2, <1>3, <1>4, <1>5, <1>6 DEF O!IInv, O!TypeOK

LEMMA OperationDialogCancelledStep ==
  ASSUME O!IInv, O!DialogCancelled PROVE O!IInv'
<1> DEFINE dialogs == v6
<1>a. /\ dialogs' \in Seq([kind : {"rename", "create", "edit"}, dir : ExplorerDir, items : O!Items])
      /\ \A i \in DOMAIN dialogs' : i \in DOMAIN dialogs /\ dialogs'[i] = dialogs[i]
  BY OperationFrontTyped DEF O!DialogCancelled
<1>1. O!RowsTyped'
  BY ExplorerAssumption DEF O!IInv, O!TypeOK, O!RowsTyped, O!DialogCancelled, O!shownVars,
     O!pickVars, O!pastVars, O!busyVars
<1>2. O!ClipTyped'
  BY ExplorerAssumption DEF O!IInv, O!TypeOK, O!ClipTyped, O!DialogCancelled, O!shownVars,
     O!pickVars, O!pastVars, O!busyVars
<1>3. O!RequestsTyped'
  BY <1>a DEF O!DialogCancelled, O!busyVars, O!IInv, O!TypeOK, O!RequestsTyped
<1>4. O!OpsTyped'
  BY ExplorerAssumption DEF O!IInv, O!TypeOK, O!OpsTyped, O!DialogCancelled, O!shownVars,
     O!pickVars, O!pastVars, O!busyVars
<1>5. O!PointedAt'
  BY <1>a DEF O!DialogCancelled, O!busyVars, O!shownVars, O!pickVars, O!pastVars, O!IInv,
     O!PointedAt
<1>6. O!MovesOnce'
  BY ExplorerAssumption DEF O!IInv, O!TypeOK, O!MovesOnce, O!RowsTyped, O!ClipTyped,
     O!RequestsTyped, O!OpsTyped, O!DialogCancelled, O!shownVars, O!pickVars, O!pastVars, O!busyVars
<1> QED BY <1>1, <1>2, <1>3, <1>4, <1>5, <1>6 DEF O!IInv, O!TypeOK

LEMMA OperationNameGivenStep ==
  ASSUME O!IInv, O!NameGiven PROVE O!IInv'
<1> DEFINE path == v1
           rows == v2
           reading == v3
           selection == v4
           clip == v5
           dialogs == v6
           ops == v10
           picked == v11
           copied == v12
           moved == v13
           hasty == v14
<1>a. O!Asks /\ ops' \in 0..ExplorerMaxOps /\ ops' <= ops' /\ O!Ask("rename", path, O!Last(dialogs).items, path, ops')
  BY OperationAsksOps DEF O!NameGiven, O!Confirms
<1>b. UNCHANGED <<path, rows, reading, selection, picked, clip, copied, moved>>
  BY DEF O!NameGiven, O!shownVars, O!pickVars, O!pastVars, O!Confirms
<1>c. /\ dialogs' = O!Front(dialogs) /\ dialogs # << >> /\ hasty' = hasty
      /\ dialogs' \in Seq([kind : {"rename", "create", "edit"}, dir : ExplorerDir, items : O!Items])
      /\ \A i \in DOMAIN dialogs' : i \in DOMAIN dialogs /\ dialogs'[i] = dialogs[i]
  BY OperationFrontTyped DEF O!NameGiven, O!Confirms
<1>f. PICK i \in DOMAIN dialogs : O!Last(dialogs) = dialogs[i]
  BY <1>c, OperationFrontTyped
<1>d. O!Last(dialogs).items \in O!Items /\ O!Last(dialogs).dir \in ExplorerDir
  BY <1>c, OperationFrontTyped
<1>t. path \in ExplorerDir /\ hasty \in BOOLEAN /\ rows.dir \in ExplorerDir
  BY DEF O!IInv, O!TypeOK, O!RowsTyped, O!OpsTyped
<1>e. hasty \/ O!Last(dialogs).items.places = O!Places(path, O!Last(dialogs).items.names)
  BY <1>f DEF O!IInv, O!PointedAt, O!NameGiven, O!Confirms
<1>g. "rename" \in O!Kinds
  BY DEF O!Kinds, O!Covered
<1> QED BY <1>a, <1>b, <1>c, <1>d, <1>e, <1>g, <1>t, OperationAskKeeps

LEMMA OperationFolderNamedStep ==
  ASSUME O!IInv, O!FolderNamed PROVE O!IInv'
<1> DEFINE path == v1
           rows == v2
           reading == v3
           selection == v4
           clip == v5
           dialogs == v6
           ops == v10
           picked == v11
           copied == v12
           moved == v13
           hasty == v14
<1>a. O!Asks /\ ops' \in 0..ExplorerMaxOps /\ ops' <= ops' /\ O!Ask("create", path, O!Nothing, path, ops')
  BY OperationAsksOps DEF O!FolderNamed, O!Confirms
<1>b. UNCHANGED <<path, rows, reading, selection, picked, clip, copied, moved>>
  BY DEF O!FolderNamed, O!shownVars, O!pickVars, O!pastVars, O!Confirms
<1>c. /\ dialogs' = O!Front(dialogs) /\ dialogs # << >> /\ hasty' = hasty
      /\ dialogs' \in Seq([kind : {"rename", "create", "edit"}, dir : ExplorerDir, items : O!Items])
      /\ \A i \in DOMAIN dialogs' : i \in DOMAIN dialogs /\ dialogs'[i] = dialogs[i]
  BY OperationFrontTyped DEF O!FolderNamed, O!Confirms
<1>d. O!Nothing \in O!Items /\ O!Nothing.places = O!Places(path, O!Nothing.names)
  BY DEF O!Nothing, O!Items, O!Places
<1>t. path \in ExplorerDir /\ hasty \in BOOLEAN /\ rows.dir \in ExplorerDir
  BY DEF O!IInv, O!TypeOK, O!RowsTyped, O!OpsTyped
<1>g. "create" \in O!Kinds
  BY DEF O!Kinds
<1> QED BY <1>a, <1>b, <1>c, <1>d, <1>g, <1>t, OperationAskKeeps

LEMMA OperationEditSavedStep ==
  ASSUME O!IInv, O!EditSaved PROVE O!IInv'
<1> DEFINE path == v1
           rows == v2
           reading == v3
           selection == v4
           clip == v5
           dialogs == v6
           ops == v10
           picked == v11
           copied == v12
           moved == v13
           hasty == v14
<1>a. O!Asks /\ ops' \in 0..ExplorerMaxOps /\ ops' <= ops' /\ O!Ask("erase", O!Last(dialogs).dir, O!Last(dialogs).items, path, ops')
  BY OperationAsksOps DEF O!EditSaved, O!Confirms
<1>b. UNCHANGED <<path, rows, reading, selection, picked, clip, copied, moved>>
  BY DEF O!EditSaved, O!shownVars, O!pickVars, O!pastVars, O!Confirms
<1>c. /\ dialogs' = O!Front(dialogs) /\ dialogs # << >> /\ hasty' = hasty
      /\ dialogs' \in Seq([kind : {"rename", "create", "edit"}, dir : ExplorerDir, items : O!Items])
      /\ \A i \in DOMAIN dialogs' : i \in DOMAIN dialogs /\ dialogs'[i] = dialogs[i]
  BY OperationFrontTyped DEF O!EditSaved, O!Confirms
<1>f. PICK i \in DOMAIN dialogs : O!Last(dialogs) = dialogs[i]
  BY <1>c, OperationFrontTyped
<1>d. O!Last(dialogs).items \in O!Items /\ O!Last(dialogs).dir \in ExplorerDir
  BY <1>c, OperationFrontTyped
<1>t. path \in ExplorerDir /\ hasty \in BOOLEAN /\ rows.dir \in ExplorerDir
  BY DEF O!IInv, O!TypeOK, O!RowsTyped, O!OpsTyped
<1>e. hasty \/ O!Last(dialogs).items.places = O!Places(O!Last(dialogs).dir, O!Last(dialogs).items.names)
  BY <1>f DEF O!IInv, O!PointedAt
<1>g. "erase" \in O!Kinds
  BY DEF O!Kinds, O!Covered
<1> QED BY <1>a, <1>b, <1>c, <1>d, <1>e, <1>g, <1>t, OperationAskKeeps

LEMMA OperationAnsweredStep ==
  ASSUME O!IInv, NEW q \in v7, O!Answered(q) PROVE O!IInv'
<1> DEFINE path == v1
           rows == v2
           selection == v4
           clip == v5
           dialogs == v6
           requests == v7
           saving == v8
           uploading == v9
           ops == v10
           picked == v11
           copied == v12
           moved == v13
           hasty == v14
           early == v15
<1>a. q \in [kind : O!Kinds, dir : ExplorerDir, names : SUBSET FileName, places : SUBSET O!Place,
                  selected : BOOLEAN, to : ExplorerDir, id : 0..ExplorerMaxOps, number : 0..ExplorerMaxOps]
  BY DEF O!IInv, O!TypeOK, O!RequestsTyped
<1> DEFINE d == [kind |-> "edit", dir |-> q.dir,
                 items |-> [names |-> q.names, places |-> q.places, selected |-> FALSE]]
<1>b. /\ d \in [kind : {"rename", "create", "edit"}, dir : ExplorerDir, items : O!Items]
      /\ d.kind = "edit" /\ d.dir = q.dir /\ d.items.places = q.places /\ d.items.names = q.names
  BY <1>a DEF O!Items
<1>c. O!Shows(d) \/ dialogs' = dialogs
  BY DEF O!Answered
<1> HIDE DEF d
<1>d. UNCHANGED <<path, rows, copied, uploading, ops, hasty>> /\ requests' = requests \ {q}
  BY DEF O!Answered, O!Ends
<1>e. (selection' = {} /\ picked' = {}) \/ UNCHANGED <<selection, picked>>
  BY DEF O!Answered, O!ClearSelection, O!pickVars
<1>f. \/ q.kind = "move" /\ clip' = O!NoClip /\ moved' = moved \cup {q.id}
      \/ q.kind # "move" /\ UNCHANGED <<clip, moved>>
  BY DEF O!Answered, O!UseUpCut
<1>g. /\ O!NoClip \in [mode : {"none", "copy", "move"}, dir : ExplorerDir, names : SUBSET FileName,
                     places : SUBSET O!Place, id : 0..ExplorerMaxOps]
      /\ O!NoClip.id = 0 /\ O!NoClip.mode = "none" /\ O!NoClip.places = O!Places(O!NoClip.dir, O!NoClip.names)
  BY ExplorerAssumption DEF O!NoClip, O!Places
<1>1. O!RowsTyped'
  BY ExplorerAssumption DEF O!IInv, O!TypeOK, O!RowsTyped, O!Answered, O!Ends, O!Rereads,
     O!UseUpCut, O!ClearSelection, O!LiftOverlay, O!shownVars, O!pickVars, O!pastVars, O!busyVars
<1>2. O!ClipTyped'
  BY <1>a, <1>d, <1>f, <1>g DEF O!IInv, O!TypeOK, O!ClipTyped
<1>3. O!RequestsTyped'
  BY <1>b, <1>c, <1>d, OperationShowsTyped DEF O!IInv, O!TypeOK, O!RequestsTyped
<1>4. O!OpsTyped'
  BY ExplorerAssumption DEF O!IInv, O!TypeOK, O!OpsTyped, O!Answered, O!Ends, O!Rereads,
     O!UseUpCut, O!ClearSelection, O!LiftOverlay, O!shownVars, O!pickVars, O!pastVars, O!busyVars
<1>5. O!PointedAt'
  <2>1. hasty' \/ picked' = O!Places(path, selection')
    BY <1>d, <1>e DEF O!IInv, O!PointedAt, O!Places
  <2>2. \A i \in DOMAIN dialogs' :
          dialogs'[i] = d \/ (i \in DOMAIN dialogs /\ dialogs'[i] = dialogs[i])
    BY <1>b, <1>c, OperationShowsTyped
  <2>3. hasty' \/ clip'.places = O!Places(clip'.dir, clip'.names)
    BY <1>d, <1>f, <1>g DEF O!IInv, O!PointedAt
  <2>4. ASSUME ~hasty', NEW i \in DOMAIN dialogs'
        PROVE  /\ dialogs'[i].items.places = O!Places(dialogs'[i].dir, dialogs'[i].items.names)
               /\ dialogs'[i].kind # "edit" => dialogs'[i].dir = path
    BY <2>2, <2>4, <1>b, <1>d DEF O!IInv, O!PointedAt
  <2> QED BY <2>1, <2>3, <2>4, <1>d DEF O!IInv, O!PointedAt
<1>6. O!MovesOnce'
  <2>1. ASSUME ~early'
        PROVE  ~early /\ (uploading' \/ (\E r \in requests' : r.kind \in O!Covered) => saving')
    BY <2>1, <1>d DEF O!IInv, O!MovesOnce, O!TypeOK, O!OpsTyped, O!Answered, O!Ends, O!LiftOverlay
  <2>2. clip'.id <= ops' /\ copied' <= ops' /\ (\A m \in moved' : m <= ops')
        /\ \A r \in requests' : r.id <= ops'
    <3>1. clip.id <= ops /\ copied <= ops /\ (\A m \in moved : m <= ops)
          /\ \A r \in requests : r.id <= ops
      BY DEF O!IInv, O!MovesOnce
    <3>2. 0 <= ops
      BY ExplorerAssumption DEF O!IInv, O!TypeOK, O!OpsTyped
    <3> QED BY <3>1, <3>2, <1>d, <1>f, <1>g
  <2>3. CASE q.kind # "move"
    BY <2>1, <2>2, <2>3, <1>d, <1>f DEF O!IInv, O!MovesOnce
  <2>4. CASE q.kind = "move"
    <3>1. ASSUME ~early' PROVE /\ q.id = clip.id /\ (clip.id = copied \/ copied \in moved)
                               /\ \A r \in requests : r.kind = "move" => r = q
      BY <2>1, <2>4, <3>1 DEF O!IInv, O!MovesOnce
    <3>2. ASSUME ~early' PROVE /\ \A r \in requests' : r.kind # "move"
                               /\ copied' \in moved'
      BY <2>4, <3>1, <3>2, <1>d, <1>f
    <3>3. clip'.mode # "move"
      BY <2>4, <1>f, <1>g
    <3> QED BY <2>1, <2>2, <3>2, <3>3 DEF O!MovesOnce
  <2> QED BY <2>3, <2>4
<1> QED BY <1>1, <1>2, <1>3, <1>4, <1>5, <1>6 DEF O!IInv, O!TypeOK

LEMMA OperationErasedStep ==
  ASSUME O!IInv, NEW q \in v7, O!Erased(q) PROVE O!IInv'
<1> DEFINE path == v1
           rows == v2
           selection == v4
           clip == v5
           dialogs == v6
           requests == v7
           saving == v8
           uploading == v9
           ops == v10
           picked == v11
           copied == v12
           moved == v13
           hasty == v14
           early == v15
<1> DEFINE n == [q EXCEPT !.kind = "write"]
<1>a. q \in [kind : O!Kinds, dir : ExplorerDir, names : SUBSET FileName, places : SUBSET O!Place,
                  selected : BOOLEAN, to : ExplorerDir, id : 0..ExplorerMaxOps, number : 0..ExplorerMaxOps]
  BY DEF O!IInv, O!TypeOK, O!RequestsTyped
<1>b. "write" \in O!Kinds /\ "write" # "move" /\ q.kind = "erase" /\ "erase" \in O!Covered /\ "erase" # "move"
  BY DEF O!Kinds, O!Covered, O!Erased
<1>c. /\ n \in [kind : O!Kinds, dir : ExplorerDir, names : SUBSET FileName, places : SUBSET O!Place,
                  selected : BOOLEAN, to : ExplorerDir, id : 0..ExplorerMaxOps, number : 0..ExplorerMaxOps]
      /\ n.dir = q.dir /\ n.names = q.names /\ n.places = q.places /\ n.id = q.id /\ n.kind = "write"
  BY <1>a, <1>b
<1>d. requests' = (requests \ {q}) \cup {n}
  BY DEF O!Erased, O!GoesOnAs
<1>e. UNCHANGED <<path, rows, selection, picked, clip, copied, moved, saving, uploading, early,
                  dialogs, ops, hasty>>
  BY DEF O!Erased, O!GoesOnAs, O!shownVars, O!pickVars, O!pastVars
<1> HIDE DEF n
<1>1. O!RowsTyped'
  BY ExplorerAssumption DEF O!IInv, O!TypeOK, O!RowsTyped, O!Erased, O!GoesOnAs, O!shownVars,
     O!pickVars, O!pastVars, O!busyVars
<1>2. O!ClipTyped'
  BY ExplorerAssumption DEF O!IInv, O!TypeOK, O!ClipTyped, O!Erased, O!GoesOnAs, O!shownVars,
     O!pickVars, O!pastVars, O!busyVars
<1>3. O!RequestsTyped'
  BY <1>c, <1>d, <1>e DEF O!IInv, O!TypeOK, O!RequestsTyped
<1>4. O!OpsTyped'
  BY ExplorerAssumption DEF O!IInv, O!TypeOK, O!OpsTyped, O!Erased, O!GoesOnAs, O!shownVars,
     O!pickVars, O!pastVars, O!busyVars
<1>5. O!PointedAt'
  BY <1>c, <1>d, <1>e DEF O!IInv, O!PointedAt
<1>6. O!MovesOnce'
  <2>1. \A r \in requests' : r.kind = "move" => r \in requests
    BY <1>b, <1>c, <1>d
  <2>2. (\E r \in requests' : r.kind \in O!Covered) => \E r \in requests : r.kind \in O!Covered
    BY <1>b, <1>c, <1>d
  <2>3. \A r \in requests' : r.id <= ops
    BY <1>c, <1>d DEF O!IInv, O!MovesOnce
  <2> QED BY <2>1, <2>2, <2>3, <1>e DEF O!IInv, O!MovesOnce
<1> QED BY <1>1, <1>2, <1>3, <1>4, <1>5, <1>6 DEF O!IInv, O!TypeOK

LEMMA OperationFetchedStep ==
  ASSUME O!IInv, NEW q \in v7, O!Fetched(q) PROVE O!IInv'
<1> DEFINE path == v1
           rows == v2
           selection == v4
           clip == v5
           dialogs == v6
           requests == v7
           saving == v8
           uploading == v9
           ops == v10
           picked == v11
           copied == v12
           moved == v13
           hasty == v14
           early == v15
<1> DEFINE n == [q EXCEPT !.kind = "put"]
<1>a. q \in [kind : O!Kinds, dir : ExplorerDir, names : SUBSET FileName, places : SUBSET O!Place,
                  selected : BOOLEAN, to : ExplorerDir, id : 0..ExplorerMaxOps, number : 0..ExplorerMaxOps]
  BY DEF O!IInv, O!TypeOK, O!RequestsTyped
<1>b. "put" \in O!Kinds /\ "put" # "move" /\ q.kind = "get" /\ "get" \in O!Covered /\ "get" # "move"
  BY DEF O!Kinds, O!Covered, O!Fetched
<1>c. /\ n \in [kind : O!Kinds, dir : ExplorerDir, names : SUBSET FileName, places : SUBSET O!Place,
                  selected : BOOLEAN, to : ExplorerDir, id : 0..ExplorerMaxOps, number : 0..ExplorerMaxOps]
      /\ n.dir = q.dir /\ n.names = q.names /\ n.places = q.places /\ n.id = q.id /\ n.kind = "put"
  BY <1>a, <1>b
<1>d. requests' = (requests \ {q}) \cup {n}
  BY DEF O!Fetched, O!GoesOnAs
<1>e. UNCHANGED <<path, rows, selection, picked, clip, copied, moved, saving, uploading, early,
                  dialogs, ops, hasty>>
  BY DEF O!Fetched, O!GoesOnAs, O!shownVars, O!pickVars, O!pastVars
<1> HIDE DEF n
<1>1. O!RowsTyped'
  BY ExplorerAssumption DEF O!IInv, O!TypeOK, O!RowsTyped, O!Fetched, O!GoesOnAs, O!shownVars,
     O!pickVars, O!pastVars, O!busyVars
<1>2. O!ClipTyped'
  BY ExplorerAssumption DEF O!IInv, O!TypeOK, O!ClipTyped, O!Fetched, O!GoesOnAs, O!shownVars,
     O!pickVars, O!pastVars, O!busyVars
<1>3. O!RequestsTyped'
  BY <1>c, <1>d, <1>e DEF O!IInv, O!TypeOK, O!RequestsTyped
<1>4. O!OpsTyped'
  BY ExplorerAssumption DEF O!IInv, O!TypeOK, O!OpsTyped, O!Fetched, O!GoesOnAs, O!shownVars,
     O!pickVars, O!pastVars, O!busyVars
<1>5. O!PointedAt'
  BY <1>c, <1>d, <1>e DEF O!IInv, O!PointedAt
<1>6. O!MovesOnce'
  <2>1. \A r \in requests' : r.kind = "move" => r \in requests
    BY <1>b, <1>c, <1>d
  <2>2. (\E r \in requests' : r.kind \in O!Covered) => \E r \in requests : r.kind \in O!Covered
    BY <1>b, <1>c, <1>d
  <2>3. \A r \in requests' : r.id <= ops
    BY <1>c, <1>d DEF O!IInv, O!MovesOnce
  <2> QED BY <2>1, <2>2, <2>3, <1>e DEF O!IInv, O!MovesOnce
<1> QED BY <1>1, <1>2, <1>3, <1>4, <1>5, <1>6 DEF O!IInv, O!TypeOK

LEMMA OperationRefusedStep ==
  ASSUME O!IInv, NEW q \in v7, O!Refused(q) PROVE O!IInv'
<1>1. O!RowsTyped'
  BY ExplorerAssumption DEF O!IInv, O!TypeOK, O!RowsTyped, O!Refused, O!Ends, O!LiftOverlay,
     O!shownVars, O!pickVars, O!pastVars, O!busyVars
<1>2. O!ClipTyped'
  BY ExplorerAssumption DEF O!IInv, O!TypeOK, O!ClipTyped, O!Refused, O!Ends, O!LiftOverlay,
     O!shownVars, O!pickVars, O!pastVars, O!busyVars
<1>3. O!RequestsTyped'
  BY ExplorerAssumption DEF O!IInv, O!TypeOK, O!RequestsTyped, O!Refused, O!Ends, O!LiftOverlay,
     O!shownVars, O!pickVars, O!pastVars, O!busyVars
<1>4. O!OpsTyped'
  BY ExplorerAssumption DEF O!IInv, O!TypeOK, O!OpsTyped, O!Refused, O!Ends, O!LiftOverlay,
     O!shownVars, O!pickVars, O!pastVars, O!busyVars
<1>5. O!PointedAt'
  BY ExplorerAssumption DEF O!IInv, O!TypeOK, O!PointedAt, O!RowsTyped, O!ClipTyped,
     O!RequestsTyped, O!OpsTyped, O!Refused, O!Ends, O!LiftOverlay, O!shownVars, O!pickVars,
     O!pastVars, O!busyVars
<1>6. O!MovesOnce'
  BY ExplorerAssumption DEF O!IInv, O!TypeOK, O!MovesOnce, O!RowsTyped, O!ClipTyped,
     O!RequestsTyped, O!OpsTyped, O!Refused, O!Ends, O!LiftOverlay, O!shownVars, O!pickVars,
     O!pastVars, O!busyVars
<1> QED BY <1>1, <1>2, <1>3, <1>4, <1>5, <1>6 DEF O!IInv, O!TypeOK

LEMMA OperationUploadStartsStep ==
  ASSUME O!IInv, O!UploadStarts PROVE O!IInv'
<1>1. O!RowsTyped'
  BY ExplorerAssumption DEF O!IInv, O!TypeOK, O!RowsTyped, O!UploadStarts, O!Asks, O!shownVars,
     O!pickVars, O!pastVars, O!busyVars
<1>2. O!ClipTyped'
  BY ExplorerAssumption DEF O!IInv, O!TypeOK, O!ClipTyped, O!UploadStarts, O!Asks, O!shownVars,
     O!pickVars, O!pastVars, O!busyVars
<1>3. O!RequestsTyped'
  BY ExplorerAssumption DEF O!IInv, O!TypeOK, O!RequestsTyped, O!UploadStarts, O!Asks, O!shownVars,
     O!pickVars, O!pastVars, O!busyVars
<1>4. O!OpsTyped'
  BY ExplorerAssumption DEF O!IInv, O!TypeOK, O!OpsTyped, O!UploadStarts, O!Asks, O!shownVars,
     O!pickVars, O!pastVars, O!busyVars
<1>5. O!PointedAt'
  BY ExplorerAssumption DEF O!IInv, O!TypeOK, O!PointedAt, O!RowsTyped, O!ClipTyped,
     O!RequestsTyped, O!OpsTyped, O!UploadStarts, O!Asks, O!shownVars, O!pickVars, O!pastVars,
     O!busyVars
<1>6. O!MovesOnce'
  BY ExplorerAssumption DEF O!IInv, O!TypeOK, O!MovesOnce, O!RowsTyped, O!ClipTyped,
     O!RequestsTyped, O!OpsTyped, O!UploadStarts, O!Asks, O!shownVars, O!pickVars, O!pastVars,
     O!busyVars
<1> QED BY <1>1, <1>2, <1>3, <1>4, <1>5, <1>6 DEF O!IInv, O!TypeOK

LEMMA OperationUploadEndsStep ==
  ASSUME O!IInv, O!UploadEnds PROVE O!IInv'
<1>1. O!RowsTyped'
  BY ExplorerAssumption DEF O!IInv, O!TypeOK, O!RowsTyped, O!UploadEnds, O!shownVars, O!pickVars,
     O!pastVars, O!busyVars
<1>2. O!ClipTyped'
  BY ExplorerAssumption DEF O!IInv, O!TypeOK, O!ClipTyped, O!UploadEnds, O!shownVars, O!pickVars,
     O!pastVars, O!busyVars
<1>3. O!RequestsTyped'
  BY ExplorerAssumption DEF O!IInv, O!TypeOK, O!RequestsTyped, O!UploadEnds, O!shownVars,
     O!pickVars, O!pastVars, O!busyVars
<1>4. O!OpsTyped'
  BY ExplorerAssumption DEF O!IInv, O!TypeOK, O!OpsTyped, O!UploadEnds, O!shownVars, O!pickVars,
     O!pastVars, O!busyVars
<1>5. O!PointedAt'
  BY ExplorerAssumption DEF O!IInv, O!TypeOK, O!PointedAt, O!RowsTyped, O!ClipTyped,
     O!RequestsTyped, O!OpsTyped, O!UploadEnds, O!shownVars, O!pickVars, O!pastVars, O!busyVars
<1>6. O!MovesOnce'
  BY ExplorerAssumption DEF O!IInv, O!TypeOK, O!MovesOnce, O!RowsTyped, O!ClipTyped,
     O!RequestsTyped, O!OpsTyped, O!UploadEnds, O!shownVars, O!pickVars, O!pastVars, O!busyVars
<1> QED BY <1>1, <1>2, <1>3, <1>4, <1>5, <1>6 DEF O!IInv, O!TypeOK

LEMMA OperationNextStep == ASSUME O!IInv, O!Next PROVE O!IInv'
<1> DEFINE rows == v2
           requests == v7
<1>1. ASSUME NEW d \in ExplorerDir, O!Navigate(d) PROVE O!IInv'
  BY <1>1, OperationNavigateStep
<1>2. ASSUME O!Refresh \/ O!ListingFails \/ O!Paste \/ O!CreateFolder PROVE O!IInv'
  BY <1>2, OperationRefreshStep, OperationListingFailsStep, OperationPasteStep,
     OperationCreateFolderStep
<1>3. ASSUME NEW names \in SUBSET FileName, O!ListingArrives(names) PROVE O!IInv'
  BY <1>3, OperationListingArrivesStep
<1>4. ASSUME NEW n \in rows.names,
             \/ \E click \in {"plain", "ctrl", "shift"} : O!OnRowClick(click, n)
             \/ O!Edit(n)
             \/ \E d \in ExplorerDir : O!FolderDrop(n, d)
      PROVE  O!IInv'
  BY <1>4, OperationOnRowClickStep, OperationEditStep, OperationFolderDropStep
<1>5. ASSUME NEW items \in O!Picks,
             \/ O!Delete(items) \/ O!Rename(items)
             \/ \E mode \in {"copy", "move"} : O!Copy(items, mode)
      PROVE  O!IInv'
  BY <1>5, OperationDeleteStep, OperationRenameStep, OperationCopyStep
<1>6. ASSUME NEW items \in O!Downloads, O!Download(items) PROVE O!IInv'
  BY <1>6, OperationDownloadStep
<1>7. ASSUME NEW kind \in {"put", "get"}, O!Drop(kind) PROVE O!IInv'
  BY <1>7, OperationDropStep
<1>8. ASSUME O!DialogCancelled \/ O!NameGiven \/ O!FolderNamed \/ O!EditSaved PROVE O!IInv'
  BY <1>8, OperationDialogCancelledStep, OperationNameGivenStep, OperationFolderNamedStep,
     OperationEditSavedStep
<1>9. ASSUME NEW q \in requests, O!Answered(q) \/ O!Erased(q) \/ O!Fetched(q) \/ O!Refused(q) PROVE O!IInv'
  BY <1>9, OperationAnsweredStep, OperationErasedStep, OperationFetchedStep, OperationRefusedStep
<1>10. ASSUME O!UploadStarts \/ O!UploadEnds PROVE O!IInv'
  BY <1>10, OperationUploadStartsStep, OperationUploadEndsStep
<1> QED BY <1>1, <1>2, <1>3, <1>4, <1>5, <1>6, <1>7, <1>8, <1>9, <1>10 DEF O!Next

LEMMA OperationSound == O!IInv => O!ActsOnRows /\ O!ClipboardKept
<1> SUFFICES ASSUME O!IInv PROVE O!ActsOnRows /\ O!ClipboardKept
  OBVIOUS
<1>1. O!ActsOnRows
  BY DEF O!IInv, O!PointedAt, O!ActsOnRows
<1>2. O!ClipboardKept
  BY DEF O!IInv, O!MovesOnce, O!ClipboardKept
<1> QED BY <1>1, <1>2

-----------------------------------------------------------------------------
\* The chats of the AI panel: an answer belongs to the chat it was asked in.

LEMMA ChatLeast ==
  ASSUME NEW T \in SUBSET Nat, T # {}
  PROVE  \E n \in T : \A m \in T : n <= m
<1>1. IsWellFoundedOn(OpToRel(<, Nat), Nat)
  BY Zenon, NatLessThanWellFounded
<1>2. PICK n \in T : \A m \in T : <<m, n>> \notin OpToRel(<, Nat)
  <2> DEFINE R == OpToRel(<, Nat)
  <2>1. IsWellFoundedOn(R, Nat)
    BY Zenon, <1>1
  <2> HIDE DEF R
  <2>2. \E n \in T : \A m \in T : ~(<<m, n>> \in R)
    BY <2>1, WFMin
  <2> QED
    BY Zenon, <2>2 DEF R
<1>3. \A m \in T : ~(m < n)
  BY <1>2 DEF OpToRel
<1> QED
  BY <1>3

\* Induction, over a set.
LEMMA ChatInduct ==
  ASSUME NEW S, 0 \in S, \A n \in Nat : n \in S => n + 1 \in S
  PROVE  Nat \subseteq S
<1> SUFFICES ASSUME NEW k \in Nat, k \notin S PROVE FALSE
  OBVIOUS
<1> DEFINE T == {n \in Nat : n \notin S}
<1>1. PICK n \in T : \A m \in T : n <= m
  BY ChatLeast
<1>2. n # 0 /\ n - 1 \in Nat /\ n - 1 \notin T
  BY <1>1
<1> QED
  BY <1>2, <1>1

\* Walking through s with f, from a.
Walker(X, a, A, s, f) == a \in X /\ s \in Seq(A) /\ f \in [X \X A -> X]
Walk(X, a, s, f, u) ==
  /\ u \in [0..Len(s) -> X] /\ u[0] = a
  /\ \A i \in 1..Len(s) : u[i] = f[<<u[i - 1], s[i]>>]

\* A walk exists,
LEMMA ChatWalkExists ==
  ASSUME NEW X, NEW a, NEW A, NEW s, NEW f, Walker(X, a, A, s, f)
  PROVE  \E u : Walk(X, a, s, f, u)
<1> USE DEF Walker
<1> DEFINE Good(n) == \E u \in [0..n -> X] :
                         u[0] = a /\ \A i \in 1..n : u[i] = f[<<u[i - 1], s[i]>>]
           S == {n \in Nat : n <= Len(s) => Good(n)}
<1>1. 0 \in S
  <2> DEFINE u == [i \in 0..0 |-> a]
  <2>1. u \in [0..0 -> X] /\ u[0] = a /\ \A i \in 1..0 : u[i] = f[<<u[i - 1], s[i]>>]
    OBVIOUS
  <2> QED
    BY <2>1
<1>2. ASSUME NEW n \in Nat, n \in S PROVE n + 1 \in S
  <2> SUFFICES ASSUME n + 1 <= Len(s) PROVE Good(n + 1)
    OBVIOUS
  <2>1. PICK u \in [0..n -> X] : u[0] = a /\ \A i \in 1..n : u[i] = f[<<u[i - 1], s[i]>>]
    BY <1>2, LenProperties
  <2>2. s[n + 1] \in A /\ f[<<u[n], s[n + 1]>>] \in X
    BY ElementOfSeq, LenProperties
  <2> DEFINE G == [i \in 0..(n + 1) |-> IF i = n + 1 THEN f[<<u[n], s[n + 1]>>] ELSE u[i]]
  <2>3. G \in [0..(n + 1) -> X] /\ G[0] = a
    BY <2>1, <2>2
  <2>4. ASSUME NEW i \in 1..(n + 1) PROVE G[i] = f[<<G[i - 1], s[i]>>]
    <3>1. CASE i = n + 1
      <4>1. i - 1 \in 0..(n + 1) /\ i - 1 = n /\ i - 1 # n + 1 /\ i \in 0..(n + 1)
        BY <3>1
      <4>2. G[i] = f[<<u[n], s[n + 1]>>] /\ G[i - 1] = u[n]
        BY <3>1, <4>1
      <4> HIDE DEF G
      <4> QED
        BY <3>1, <4>1, <4>2
    <3>2. CASE i # n + 1
      <4>1. i \in 1..n /\ i - 1 \in 0..n /\ i - 1 # n + 1
        BY <3>2
      <4> QED
        BY <4>1, <2>1, <3>2
    <3> QED
      BY <3>1, <3>2
  <2> HIDE DEF G
  <2> QED
    BY <2>3, <2>4
<1> HIDE DEF S
<1>3. Nat \subseteq S
  BY <1>1, <1>2, ChatInduct
<1>4. Len(s) \in Nat /\ Len(s) \in S
  BY <1>3, LenProperties
<1>5. Good(Len(s))
  <2> HIDE DEF Good
  <2> QED BY <1>4 DEF S
<1> QED
  BY <1>5 DEF Walk

\* An element more,
LEMMA ChatAppended ==
  ASSUME NEW T, NEW q \in Seq(T), NEW y \in T
  PROVE  /\ Append(q, y) \in Seq(T) /\ DOMAIN q = 1..Len(q)
         /\ Len(q) \in Nat /\ DOMAIN Append(q, y) = 1..(Len(q) + 1)
         /\ \A j \in 1..(Len(q) + 1) : Append(q, y)[j] = IF j <= Len(q) THEN q[j] ELSE y
         /\ W!ToSet(Append(q, y)) = W!ToSet(q) \cup {y}
<1> DEFINE p == Append(q, y)
<1>1. /\ Len(q) \in Nat /\ DOMAIN q = 1..Len(q) /\ p \in Seq(T)
      /\ DOMAIN p = 1..(Len(q) + 1)
      /\ \A j \in 1..(Len(q) + 1) : p[j] = IF j <= Len(q) THEN q[j] ELSE y
  BY AppendProperties, LenProperties
<1> HIDE DEF p
<1>2. \A j \in 1..Len(q) : j \in 1..(Len(q) + 1) /\ p[j] = q[j]
  BY <1>1
<1>3. Len(q) + 1 \in 1..(Len(q) + 1) /\ p[Len(q) + 1] = y
  BY <1>1
<1>4. \A j \in 1..(Len(q) + 1) : j \in 1..Len(q) \/ j = Len(q) + 1
  BY <1>1
<1>5. ASSUME NEW z \in W!ToSet(p) PROVE z \in W!ToSet(q) \/ z = y
  <2>1. PICK j \in 1..(Len(q) + 1) : z = p[j]
    BY <1>1, <1>5 DEF W!ToSet
  <2> QED BY <2>1, <1>1, <1>2, <1>3, <1>4 DEF W!ToSet
<1>6. ASSUME NEW z \in W!ToSet(q) PROVE z \in W!ToSet(p)
  <2>1. PICK j \in 1..Len(q) : z = q[j]
    BY <1>1, <1>6 DEF W!ToSet
  <2> QED BY <2>1, <1>1, <1>2 DEF W!ToSet
<1>7. y \in W!ToSet(p)
  BY <1>1, <1>3 DEF W!ToSet
<1>8. W!ToSet(p) = W!ToSet(q) \cup {y}
  BY <1>5, <1>6, <1>7
<1> QED BY <1>1, <1>8 DEF p

\* What Only computes, step by step,
LEMMA ChatOnlyWalks ==
  ASSUME NEW T, NEW seq \in Seq(T), NEW S
  PROVE  \E H : /\ W!Only(seq, S) = H[Len(seq)] /\ H[0] = <<>>
                /\ \A i \in 1..Len(seq) :
                     H[i] = IF seq[i] \in S THEN Append(H[i - 1], seq[i]) ELSE H[i - 1]
<1> DEFINE X == Seq(T)
           f == [x \in X \X T |-> IF x[2] \in S THEN Append(x[1], x[2]) ELSE x[1]]
           n == Len(seq)
           Next1(G) == [i \in 0..n |->
                          IF i = 0 THEN <<>>
                          ELSE IF seq[i] \in S THEN Append(G[i - 1], seq[i]) ELSE G[i - 1]]
           H == CHOOSE G : G = Next1(G)
<1>0. n \in Nat /\ DOMAIN seq = 1..n
  BY SMTT(30), LenProperties
<1>1. H = Next1(H)
  <2>1. f \in [X \X T -> X]
    BY AppendProperties
  <2>2. PICK u \in [0..n -> X] : u[0] = <<>> /\ \A i \in 1..n : u[i] = f[<<u[i - 1], seq[i]>>]
    <3>1. Walker(X, <<>>, T, seq, f)
      BY <2>1, EmptySeq DEF Walker
    <3> HIDE DEF f
    <3>2. \E u : Walk(X, <<>>, seq, f, u)
      BY <3>1, ChatWalkExists
    <3> QED BY <3>2 DEF Walk
  <2> HIDE DEF X
  <2>3. \A i \in 0..n : u[i] = Next1(u)[i]
    <3> TAKE i \in 0..n
    <3>1. i # 0 => i \in 1..n /\ u[i - 1] \in X /\ seq[i] \in T
      BY <1>0, ElementOfSeq
    <3> QED BY <3>1, <2>2
  <2>4. u = Next1(u)
    BY <2>3, <2>2
  <2> QED BY <2>4
<1>2. W!Only(seq, S) = H[n]
  BY DEF W!Only
<1> HIDE DEF H
<1>3. H[0] = <<>>
  BY <1>0, <1>1
<1>4. \A i \in 1..n : H[i] = IF seq[i] \in S THEN Append(H[i - 1], seq[i]) ELSE H[i - 1]
  <2> TAKE i \in 1..n
  <2>1. i \in 0..n /\ i # 0
    BY <1>0
  <2>2. H[i] = Next1(H)[i]
    <3> HIDE DEF Next1
    <3> QED BY <1>1
  <2> HIDE DEF n
  <2> QED BY <2>1, <2>2
<1> QED BY <1>2, <1>3, <1>4

\* and so what it gives.
LEMMA ChatOnlyGives ==
  ASSUME NEW T, NEW seq \in Seq(T), NEW S
  PROVE  /\ W!Only(seq, S) \in Seq(T) /\ W!ToSet(W!Only(seq, S)) = W!ToSet(seq) \cap S
         /\ (\A i, j \in DOMAIN seq : seq[i] = seq[j] => i = j)
              => \A i, j \in DOMAIN W!Only(seq, S) : W!Only(seq, S)[i] = W!Only(seq, S)[j] => i = j
<1>1. PICK H : /\ W!Only(seq, S) = H[Len(seq)] /\ H[0] = <<>>
               /\ \A i \in 1..Len(seq) :
                    H[i] = IF seq[i] \in S THEN Append(H[i - 1], seq[i]) ELSE H[i - 1]
  BY ChatOnlyWalks
<1> DEFINE n == Len(seq)
           Each(q) == \A i, j \in DOMAIN q : q[i] = q[j] => i = j
           Good(i) == /\ H[i] \in Seq(T)
                      /\ \A y : y \in W!ToSet(H[i]) <=> y \in S /\ \E j \in 1..i : y = seq[j]
                      /\ Each(seq) => Each(H[i])
           below == {i \in Nat : i <= n => Good(i)}
<1>0. n \in Nat /\ DOMAIN seq = 1..n
  BY LenProperties
<1>2. 0 \in below
  <2>1. H[0] = <<>> /\ DOMAIN H[0] = {}
    BY <1>1, EmptySeq
  <2>2. H[0] \in Seq(T)
    BY <2>1, EmptySeq
  <2>3. \A y : y \notin W!ToSet(H[0])
    <3> HIDE DEF n
    <3> QED BY <2>1 DEF W!ToSet
  <2>4. Each(H[0])
    BY <2>1
  <2>5. \A y : ~\E j \in 1..0 : y = seq[j]
    OBVIOUS
  <2> HIDE DEF Each
  <2> QED BY <2>2, <2>3, <2>4, <2>5
<1>3. ASSUME NEW i \in Nat, i \in below PROVE i + 1 \in below
  <2> SUFFICES ASSUME i + 1 <= n PROVE Good(i + 1)
    OBVIOUS
  <2>0. Good(i) /\ i + 1 \in 1..n /\ (i + 1) - 1 = i
    BY <1>3, <1>0
  <2>1. CASE seq[i + 1] \notin S
    <3>1. H[i + 1] = H[i]
      BY <1>1, <2>0, <2>1
    <3>2. \A y \in S : (\E j \in 1..(i + 1) : y = seq[j]) <=> \E j \in 1..i : y = seq[j]
      BY <2>1
    <3> QED BY <3>1, <3>2, <2>0
  <2>2. CASE seq[i + 1] \in S
    <3> DEFINE q == H[i]
               y == seq[i + 1]
    <3>1. H[i + 1] = Append(q, y) /\ q \in Seq(T) /\ y \in T
      BY <1>1, <2>0, <2>2, <1>0, ElementOfSeq
    <3>2. Len(q) \in Nat /\ DOMAIN q = 1..Len(q) /\ Append(q, y) \in Seq(T)
          /\ DOMAIN Append(q, y) = 1..(Len(q) + 1)
          /\ \A j \in 1..(Len(q) + 1) : Append(q, y)[j] = IF j <= Len(q) THEN q[j] ELSE y
      <4> HIDE DEF q, y
      <4> QED BY <3>1, AppendProperties, LenProperties
    <3> HIDE DEF y
    <3>3. \A z : z \in W!ToSet(Append(q, y)) <=> z \in W!ToSet(q) \/ z = y
      <4> HIDE DEF q
      <4> QED BY <3>1, ChatAppended
    <3>4. \A z : (\E j \in 1..(i + 1) : z = seq[j]) <=> (\E j \in 1..i : z = seq[j]) \/ z = y
      BY DEF y
    <3>5. y \in S
      BY <2>2 DEF y
    <3>6. Each(seq) => Each(Append(q, y))
      <4> SUFFICES ASSUME Each(seq) PROVE Each(Append(q, y))
        OBVIOUS
      <4>1. y \notin W!ToSet(q)
        <5> SUFFICES ASSUME y \in W!ToSet(q) PROVE FALSE
          OBVIOUS
        <5>1. PICK j \in 1..i : y = seq[j]
          BY <2>0
        <5>2. j \in DOMAIN seq /\ i + 1 \in DOMAIN seq /\ j # i + 1
          BY <1>0, <2>0
        <5> QED BY <5>1, <5>2 DEF y
      <4>2. Each(q)
        BY <2>0
      <4> HIDE DEF q
      <4> QED BY <4>1, <4>2, <3>2 DEF W!ToSet
    <3> HIDE DEF q, Each
    <3>7. \A z : z \in W!ToSet(q) <=> z \in S /\ \E j \in 1..i : z = seq[j]
      BY <2>0 DEF q
    <3> QED BY <3>1, <3>2, <3>3, <3>4, <3>5, <3>6, <3>7
  <2> QED BY <2>1, <2>2
<1> HIDE DEF below
<1>4. Nat \subseteq below
  BY <1>2, <1>3, ChatInduct
<1>5. Good(n)
  <2> HIDE DEF Good
  <2> QED BY <1>4, <1>0 DEF below
<1>6. H[n] = W!Only(seq, S)
  BY <1>1
<1>7. W!ToSet(seq) = {seq[j] : j \in 1..n}
  BY <1>0 DEF W!ToSet
<1> QED BY <1>5, <1>6, <1>7

\* The steps of the registry
\* What is done to a history: which chats it lists, and their messages.
Hist == W!HistoryOf(W!Message)
Keeps(h, g) == \A c \in ChatId : g.chats[c].messages = h.chats[c].messages
Loses(h, g) == \A c \in ChatId : g.chats[c].messages \in {h.chats[c].messages, << >>}

LEMMA ChatHistFields ==
  ASSUME NEW h \in Hist
  PROVE  /\ h.recency \in Seq(ChatId) /\ h.current \in ChatId
         /\ DOMAIN h.chats = ChatId
         /\ \A c \in ChatId : /\ h.chats[c] \in [messages : Seq(W!Message), name : {"New Chat", "title", "given"},
                                                 pinned : BOOLEAN]
                              /\ h.chats[c].messages \in Seq(W!Message)
BY Zenon DEF Hist, W!HistoryOf

LEMMA ChatBlankFits == W!Blank \in [messages : Seq(W!Message), name : {"New Chat", "title", "given"}, pinned : BOOLEAN]
                   /\ W!Blank.messages = << >>
BY DEF W!Blank

LEMMA ChatInSeq == ASSUME NEW T, NEW q \in Seq(T) PROVE W!ToSet(q) \subseteq T
<1>1. \A i \in DOMAIN q : q[i] \in T
  BY LenProperties, ElementOfSeq
<1> QED BY <1>1 DEF W!ToSet

ChatRec == [messages : Seq(W!Message), name : {"New Chat", "title", "given"}, pinned : BOOLEAN]

LEMMA ChatChatPut ==
  ASSUME NEW e \in ChatRec
  PROVE  /\ e.messages \in Seq(W!Message)
         /\ \A q \in Seq(W!Message) : LET f == [e EXCEPT !.messages = q] IN f \in ChatRec /\ f.messages = q
         /\ \A n \in {"title", "given"} : LET f == [e EXCEPT !.name = n] IN f \in ChatRec /\ f.messages = e.messages
         /\ LET f == [e EXCEPT !.pinned = ~@] IN f \in ChatRec /\ f.messages = e.messages
BY Zenon DEF ChatRec

LEMMA ChatPutFirst ==
  ASSUME NEW c \in ChatId, NEW q \in Seq(ChatId)
  PROVE  <<c>> \o q \in Seq(ChatId) /\ W!ToSet(<<c>> \o q) = {c} \cup W!ToSet(q)
<1>1. <<c>> \in Seq(ChatId) /\ Len(<<c>>) = 1 /\ <<c>>[1] = c
  OBVIOUS
<1> DEFINE p == <<c>> \o q
<1>2. p \in Seq(ChatId) /\ Len(p) = 1 + Len(q) /\ Len(q) \in Nat /\ DOMAIN p = 1..(1 + Len(q)) /\ DOMAIN q = 1..Len(q)
  BY <1>1, ConcatProperties, LenProperties
<1>3. p[1] = c /\ \A i \in 1..Len(q) : p[i + 1] = q[i] /\ i + 1 \in 1..(1 + Len(q))
  BY <1>1, <1>2, ConcatProperties
<1> HIDE DEF p
<1>4. \A i \in 1..(1 + Len(q)) : i = 1 \/ (i - 1 \in 1..Len(q) /\ p[i] = q[i - 1])
  <2> TAKE i \in 1..(1 + Len(q))
  <2>1. CASE i # 1
    <3>1. i - 1 \in 1..Len(q) /\ (i - 1) + 1 = i
      BY <2>1, <1>2
    <3> QED BY <3>1, <1>3
  <2> QED BY <2>1
<1>5. 1 \in 1..(1 + Len(q))
  BY <1>2
<1>6. ASSUME NEW z \in W!ToSet(p) PROVE z \in {c} \cup W!ToSet(q)
  <2>1. PICK i \in 1..(1 + Len(q)) : z = p[i]
    BY <1>6, <1>2 DEF W!ToSet
  <2>2. CASE i = 1
    BY <2>1, <2>2, <1>3
  <2>3. CASE i # 1
    <3>1. i - 1 \in 1..Len(q) /\ z = q[i - 1]
      BY <2>1, <2>3, <1>4
    <3> QED BY <3>1, <1>2 DEF W!ToSet
  <2> QED BY <2>2, <2>3
<1>7. ASSUME NEW z \in {c} \cup W!ToSet(q) PROVE z \in W!ToSet(p)
  <2>1. CASE z = c
    BY <2>1, <1>2, <1>3, <1>5 DEF W!ToSet
  <2>2. CASE z \in W!ToSet(q)
    <3>1. PICK i \in 1..Len(q) : z = q[i]
      BY <2>2, <1>2 DEF W!ToSet
    <3> QED BY <3>1, <1>2, <1>3 DEF W!ToSet
  <2> QED BY <1>7, <2>1, <2>2
<1>8. W!ToSet(p) = {c} \cup W!ToSet(q)
  BY <1>6, <1>7
<1> QED BY <1>2, <1>8 DEF p

LEMMA ChatTouchGives ==
  ASSUME NEW h \in Hist, NEW c \in ChatId
  PROVE  /\ W!Touch(h, c) \in Hist /\ W!Touch(h, c).chats = h.chats /\ W!Touch(h, c).current = h.current
         /\ W!ToSet(W!Touch(h, c).recency) = {c} \cup W!ToSet(h.recency)
<1> DEFINE q == W!Only(h.recency, ChatId \ {c})
<1>0. h.recency \in Seq(ChatId)
  BY Zenon, ChatHistFields
<1>1. q \in Seq(ChatId) /\ W!ToSet(q) = W!ToSet(h.recency) \cap (ChatId \ {c})
  BY <1>0, ChatOnlyGives
<1>2. W!ToSet(h.recency) \subseteq ChatId
  BY <1>0, LenProperties, ElementOfSeq DEF W!ToSet
<1> HIDE DEF q
<1>3. <<c>> \o q \in Seq(ChatId) /\ W!ToSet(<<c>> \o q) = {c} \cup W!ToSet(h.recency)
  <2>1. <<c>> \o q \in Seq(ChatId) /\ W!ToSet(<<c>> \o q) = {c} \cup W!ToSet(q)
    BY <1>1, ChatPutFirst
  <2> QED BY <2>1, <1>1, <1>2
<1>4. W!Touch(h, c) = [h EXCEPT !.recency = <<c>> \o q]
  BY DEF W!Touch, q
<1> DEFINE r == <<c>> \o q
<1> HIDE DEF r
<1>5. [h EXCEPT !.recency = r] \in Hist /\ [h EXCEPT !.recency = r].chats = h.chats
      /\ [h EXCEPT !.recency = r].current = h.current /\ [h EXCEPT !.recency = r].recency = r
  <2>1. r \in Seq(ChatId)
    BY <1>3 DEF r
  <2> QED BY Zenon, <2>1 DEF Hist, W!HistoryOf
<1> QED
  BY <1>3, <1>4, <1>5 DEF r

LEMMA ChatKeepingGives ==
  ASSUME NEW h \in Hist, NEW kept
  PROVE  LET g == W!Keeping(h, kept) IN
         g \in Hist /\ g.current = h.current /\ W!ToSet(g.recency) = W!ToSet(h.recency) \cap kept /\ Loses(h, g)
<1> DEFINE q == W!Only(h.recency, kept)
           ch == [c \in ChatId |-> IF c \in kept THEN h.chats[c] ELSE W!Blank]
<1>1. q \in Seq(ChatId) /\ W!ToSet(q) = W!ToSet(h.recency) \cap kept
  BY Zenon, ChatHistFields, ChatOnlyGives
<1>2. ch \in [ChatId -> [messages : Seq(W!Message), name : {"New Chat", "title", "given"}, pinned : BOOLEAN]]
  BY Zenon, ChatHistFields, ChatBlankFits
<1>3. \A c \in ChatId : ch[c].messages \in {h.chats[c].messages, << >>}
  BY Zenon, ChatBlankFits
<1>4. W!Keeping(h, kept) = [h EXCEPT !.recency = q, !.chats = ch]
  BY DEF W!Keeping
<1> HIDE DEF q, ch
<1>5. LET g == [h EXCEPT !.recency = q, !.chats = ch] IN g \in Hist /\ g.current = h.current /\ g.recency = q /\ g.chats = ch
  BY Zenon, <1>1, <1>2 DEF Hist, W!HistoryOf
<1> QED
  BY <1>1, <1>3, <1>4, <1>5 DEF Loses

LEMMA ChatTrimGives ==
  ASSUME NEW h \in Hist
  PROVE  LET g == W!Trim(h) IN
         g \in Hist /\ g.current = h.current /\ W!ToSet(g.recency) \subseteq W!ToSet(h.recency) /\ Loses(h, g)
<1>1. CASE W!Trim(h) = h
  BY <1>1 DEF Loses
<1>2. CASE W!Trim(h) # h
  <2>1. PICK kept : W!Trim(h) = W!Keeping(h, kept)
    BY <1>2 DEF W!Trim
  <2> QED
    BY <2>1, ChatKeepingGives
<1> QED
  BY <1>1, <1>2

LEMMA ChatCreateNewGives ==
  ASSUME NEW h \in Hist, NEW c \in ChatId
  PROVE  LET g == W!CreateNew(h, c) IN
         g \in Hist /\ g.current = c /\ W!ToSet(g.recency) \subseteq {c} \cup W!ToSet(h.recency) /\ Loses(h, g)
<1> DEFINE t == W!Touch(h, c)
           n == [t EXCEPT !.chats[c] = W!Blank, !.current = c]
<1>1. t \in Hist /\ t.chats = h.chats /\ t.current = h.current /\ W!ToSet(t.recency) = {c} \cup W!ToSet(h.recency)
  BY ChatTouchGives
<1> HIDE DEF t
<1>2. n \in Hist /\ n.current = c /\ n.recency = t.recency
      /\ \A d \in ChatId : n.chats[d] = IF d = c THEN W!Blank ELSE t.chats[d]
  <2>1. [t.chats EXCEPT ![c] = W!Blank] \in [ChatId -> [messages : Seq(W!Message), name : {"New Chat", "title", "given"}, pinned : BOOLEAN]]
    BY Zenon, <1>1, ChatBlankFits DEF Hist, W!HistoryOf
  <2> DEFINE k == [t.chats EXCEPT ![c] = W!Blank]
  <2>2. \A d \in ChatId : k[d] = IF d = c THEN W!Blank ELSE t.chats[d]
    BY Zenon, <1>1, ChatHistFields
  <2> HIDE DEF k
  <2>3. [t EXCEPT !.chats = k, !.current = c] \in Hist /\ [t EXCEPT !.chats = k, !.current = c].chats = k
    BY Zenon, <1>1, <2>1 DEF Hist, W!HistoryOf, k
  <2>4. n = [t EXCEPT !.chats = k, !.current = c]
    BY DEF k
  <2>5. n.current = c /\ n.recency = t.recency
    BY Zenon, <2>4, <1>1 DEF Hist, W!HistoryOf
  <2> DEFINE e == [t EXCEPT !.chats = k, !.current = c]
  <2>6. n = e /\ e \in Hist /\ e.chats = k
    BY <2>3, <2>4
  <2> HIDE DEF n, e
  <2> QED BY <2>2, <2>5, <2>6
<1>3. Loses(h, n)
  BY Zenon, <1>2, <1>1, ChatBlankFits DEF Loses
<1>4. W!CreateNew(h, c) = W!Trim(n)
  BY DEF W!CreateNew, t
<1> HIDE DEF n
<1>5. W!Trim(n) \in Hist /\ W!Trim(n).current = n.current /\ W!ToSet(W!Trim(n).recency) \subseteq W!ToSet(n.recency) /\ Loses(n, W!Trim(n))
  BY <1>2, ChatTrimGives
<1>6. Loses(h, W!Trim(n))
  BY <1>3, <1>5 DEF Loses
<1> QED
  BY <1>1, <1>2, <1>4, <1>5, <1>6

LEMMA ChatSaveCurrentGives ==
  ASSUME NEW h \in Hist, NEW shown \in Seq(W!Message), h.current \in W!Listed(h)
  PROVE  LET g == W!SaveCurrent(h, shown) IN
         /\ g \in Hist /\ g.current = h.current /\ W!ToSet(g.recency) = W!ToSet(h.recency)
         /\ g.chats[h.current].messages = shown
         /\ \A c \in ChatId \ {h.current} : g.chats[c].messages = h.chats[c].messages
<1> DEFINE t == W!Touch(h, h.current)
           k == [t.chats EXCEPT ![h.current].messages = shown]
<1>0. h.current \in ChatId
  BY Zenon, ChatHistFields
<1>1. t \in Hist /\ t.chats = h.chats /\ t.current = h.current /\ W!ToSet(t.recency) = W!ToSet(h.recency)
  <2>1. t \in Hist /\ t.chats = h.chats /\ t.current = h.current /\ W!ToSet(t.recency) = {h.current} \cup W!ToSet(h.recency)
    BY ChatTouchGives, <1>0
  <2> HIDE DEF t
  <2> QED BY <2>1 DEF W!Listed
<1>2. W!SaveCurrent(h, shown) = [t EXCEPT !.chats = k]
  BY DEF W!SaveCurrent
<1> HIDE DEF t
<1>3. \A c \in ChatId : k[c] = IF c = h.current THEN [t.chats[c] EXCEPT !.messages = shown] ELSE t.chats[c]
  BY Zenon, <1>1, <1>0, ChatHistFields
<1>e. \A c \in ChatId : t.chats[c] \in ChatRec /\ h.chats[c] \in ChatRec
  BY Zenon, <1>1, ChatHistFields DEF ChatRec
<1>4. k \in [ChatId -> ChatRec]
  <2>1. [t.chats[h.current] EXCEPT !.messages = shown] \in ChatRec
    BY <1>e, <1>0, ChatChatPut
  <2>2. DOMAIN k = ChatId
    BY Zenon, <1>1, ChatHistFields
  <2>3. k = [c \in ChatId |-> k[c]]
    BY <2>2
  <2>4. \A c \in ChatId : k[c] \in ChatRec
    BY <2>1, <1>3, <1>e
  <2> HIDE DEF k
  <2> QED BY <2>3, <2>4
<1>5. k[h.current].messages = shown /\ \A c \in ChatId \ {h.current} : k[c].messages = h.chats[c].messages
  <2>1. [t.chats[h.current] EXCEPT !.messages = shown].messages = shown
    BY <1>e, <1>0, ChatChatPut
  <2> HIDE DEF k
  <2> QED BY <2>1, <1>3, <1>0, <1>1
<1> HIDE DEF k
<1> DEFINE e == [t EXCEPT !.chats = k]
<1>6. e \in Hist /\ e.chats = k /\ e.current = t.current /\ e.recency = t.recency
  BY Zenon, <1>1, <1>4 DEF Hist, W!HistoryOf, ChatRec
<1> HIDE DEF e
<1> QED
  BY <1>1, <1>2, <1>5, <1>6 DEF e

LEMMA ChatRenameGives ==
  ASSUME NEW h \in Hist, NEW c \in ChatId, NEW name \in {"title", "given"}, c \in W!Listed(h)
  PROVE  LET g == W!Rename(h, c, name) IN
         g \in Hist /\ g.current = h.current /\ W!ToSet(g.recency) = W!ToSet(h.recency) /\ Keeps(h, g)
<1> DEFINE t == W!Touch(h, c)
           k == [t.chats EXCEPT ![c].name = name]
<1>1. t \in Hist /\ t.chats = h.chats /\ t.current = h.current /\ W!ToSet(t.recency) = W!ToSet(h.recency)
  <2>1. t \in Hist /\ t.chats = h.chats /\ t.current = h.current /\ W!ToSet(t.recency) = {c} \cup W!ToSet(h.recency)
    BY ChatTouchGives
  <2> HIDE DEF t
  <2> QED BY <2>1 DEF W!Listed
<1> HIDE DEF t
<1>e. \A d \in ChatId : t.chats[d] \in ChatRec
  BY Zenon, <1>1, ChatHistFields DEF ChatRec
<1>f. c \in ChatId /\ [t.chats[c] EXCEPT !.name = name] \in ChatRec
      /\ [t.chats[c] EXCEPT !.name = name].messages = t.chats[c].messages
  BY <1>e, ChatChatPut
<1>k. DOMAIN k = ChatId /\ \A d \in ChatId : k[d] = IF d = c THEN [t.chats[d] EXCEPT !.name = name] ELSE t.chats[d]
  BY Zenon, <1>1, ChatHistFields
<1> HIDE DEF k
<1>3. k \in [ChatId -> ChatRec]
  <2>1. k = [d \in ChatId |-> k[d]]
    <3>1. DOMAIN k = ChatId BY <1>k
    <3> QED BY <3>1 DEF k
  <2>2. \A d \in ChatId : k[d] \in ChatRec
    BY <1>k, <1>e, <1>f
  <2> QED BY <2>1, <2>2
<1>4. \A d \in ChatId : k[d].messages = h.chats[d].messages
  BY <1>k, <1>e, <1>f, <1>1
<1>2. W!Rename(h, c, name) = [t EXCEPT !.chats = k]
  BY DEF W!Rename, k, t
<1> DEFINE e == [t EXCEPT !.chats = k]
<1>5. e \in Hist /\ e.chats = k /\ e.current = t.current /\ e.recency = t.recency
  BY Zenon, <1>1, <1>3 DEF Hist, W!HistoryOf, ChatRec
<1> HIDE DEF e
<1> QED
  BY <1>1, <1>2, <1>4, <1>5 DEF e, Keeps

LEMMA ChatPinGives ==
  ASSUME NEW h \in Hist, NEW c \in ChatId
  PROVE  LET g == [h EXCEPT !.chats[c].pinned = ~@] IN
         g \in Hist /\ g.current = h.current /\ g.recency = h.recency /\ Keeps(h, g)
<1> DEFINE k == [h.chats EXCEPT ![c].pinned = ~@]
<1>e. \A d \in ChatId : h.chats[d] \in ChatRec
  BY Zenon, ChatHistFields DEF ChatRec
<1>f. [h.chats[c] EXCEPT !.pinned = ~@] \in ChatRec
      /\ [h.chats[c] EXCEPT !.pinned = ~@].messages = h.chats[c].messages
  BY <1>e, ChatChatPut
<1>k. DOMAIN k = ChatId /\ \A d \in ChatId : k[d] = IF d = c THEN [h.chats[d] EXCEPT !.pinned = ~@] ELSE h.chats[d]
  BY Zenon, ChatHistFields
<1>d. k = [d \in ChatId |-> k[d]]
  BY <1>k
<1>5. [h EXCEPT !.chats[c].pinned = ~@] = [h EXCEPT !.chats = k]
  OBVIOUS
<1> HIDE DEF k
<1>2. k \in [ChatId -> ChatRec]
  <2>2. \A d \in ChatId : k[d] \in ChatRec
    BY <1>k, <1>e, <1>f
  <2> QED BY <1>d, <2>2
<1>3. \A d \in ChatId : k[d].messages = h.chats[d].messages
  BY <1>k, <1>e, <1>f
<1> DEFINE e == [h EXCEPT !.chats = k]
<1>4. e \in Hist /\ e.chats = k /\ e.current = h.current /\ e.recency = h.recency
  BY Zenon, <1>2 DEF Hist, W!HistoryOf, ChatRec
<1> HIDE DEF e
<1> QED
  BY <1>3, <1>4, <1>5 DEF Keeps, e

LEMMA ChatRemovedGives ==
  ASSUME NEW h \in Hist, NEW c \in ChatId, NEW fresh \in ChatId, c \in W!Listed(h)
  PROVE  LET g == W!Removed(h, c, fresh) IN
         /\ g \in Hist /\ Loses(h, g) /\ (c # h.current => g.current = h.current)
         /\ \/ W!ToSet(g.recency) \subseteq W!ToSet(h.recency)
            \/ W!Listed(h) = {c} /\ W!ToSet(g.recency) \subseteq {fresh} \cup W!ToSet(h.recency)
<1> DEFINE left == W!Keeping(h, W!Listed(h) \ {c})
           list == W!Pinned(left) \o W!Rest(left)
<1>1. left \in Hist /\ left.current = h.current /\ Loses(h, left)
      /\ W!ToSet(left.recency) = W!ToSet(h.recency) \cap (W!Listed(h) \ {c})
  BY ChatKeepingGives
<1> HIDE DEF left, list
<1>2. /\ h.current # c => W!Removed(h, c, fresh) = left
      /\ h.current = c /\ list # << >> => W!Removed(h, c, fresh) = [left EXCEPT !.current = Head(list)]
      /\ h.current = c /\ list = << >> => W!Removed(h, c, fresh) = W!CreateNew(left, fresh)
  BY DEF W!Removed, left, list
<1> USE DEF list
<1>p. /\ W!Pinned(left) \in Seq(ChatId) /\ W!ToSet(W!Pinned(left)) = W!ToSet(left.recency) \cap {d \in ChatId : left.chats[d].pinned}
      /\ W!Rest(left) \in Seq(ChatId) /\ W!ToSet(W!Rest(left)) = W!ToSet(left.recency) \cap {d \in ChatId : ~left.chats[d].pinned}
  <2>0. left.recency \in Seq(ChatId)
    BY Zenon, <1>1, ChatHistFields
  <2>1. \A S : W!Only(left.recency, S) \in Seq(ChatId) /\ W!ToSet(W!Only(left.recency, S)) = W!ToSet(left.recency) \cap S
    BY <2>0, ChatOnlyGives
  <2> QED BY <2>1 DEF W!Pinned, W!Rest
<1>3. list \in Seq(ChatId)
  BY <1>p, ConcatProperties
<1>4. CASE h.current # c
  <2>1. W!Removed(h, c, fresh) = left
    BY <1>4, <1>2
  <2> QED BY <2>1, <1>4, <1>1
<1>5. CASE h.current = c /\ list # << >>
  <2>1. Head(list) \in ChatId
    BY <1>5, <1>3, HeadTailProperties
  <2>l. W!Removed(h, c, fresh) = [left EXCEPT !.current = Head(list)]
    BY <1>5, <1>2
  <2> HIDE DEF list
  <2> DEFINE e == [left EXCEPT !.current = Head(list)]
  <2>2. e \in Hist /\ e.chats = left.chats /\ e.recency = left.recency
    BY Zenon, <2>1, <1>1 DEF Hist, W!HistoryOf
  <2> HIDE DEF e
  <2>3. W!Removed(h, c, fresh) = e
    BY <2>l DEF e
  <2> QED
    BY <2>2, <2>3, <1>1, <1>5 DEF Loses
<1>6. CASE h.current = c /\ list = << >>
  <2>1. W!Removed(h, c, fresh) = W!CreateNew(left, fresh)
    BY <1>6, <1>2
  <2>2. W!ToSet(left.recency) = {}
    <3>1. W!Pinned(left) = << >> /\ W!Rest(left) = << >>
      <4>1. Len(W!Pinned(left)) + Len(W!Rest(left)) = 0 /\ Len(W!Pinned(left)) \in Nat /\ Len(W!Rest(left)) \in Nat
        BY <1>6, <1>p, ConcatProperties, EmptySeq, LenProperties
      <4>2. Len(W!Pinned(left)) = 0 /\ Len(W!Rest(left)) = 0
        BY <4>1
      <4> QED BY <4>2, <1>p, EmptySeq
    <3>2. W!ToSet(<<>>) = {}
      BY DEF W!ToSet
    <3>3. W!ToSet(left.recency) \subseteq ChatId
      <4>1. left.recency \in Seq(ChatId)
        BY Zenon, <1>1, ChatHistFields
      <4> QED BY <4>1, ChatInSeq
    <3> QED BY <3>1, <3>2, <3>3, <1>p
  <2>3. W!Listed(h) = {c}
    BY <2>2, <1>1 DEF W!Listed
  <2>4. LET g == W!CreateNew(left, fresh) IN
         g \in Hist /\ g.current = fresh /\ W!ToSet(g.recency) \subseteq {fresh} \cup W!ToSet(left.recency) /\ Loses(left, g)
    BY <1>1, ChatCreateNewGives
  <2>5. Loses(h, W!CreateNew(left, fresh))
    BY <2>4, <1>1 DEF Loses
  <2> QED
    BY <2>1, <2>2, <2>3, <2>4, <2>5, <1>6, <1>1
<1> QED
  BY <1>4, <1>5, <1>6

\* What is saved, and loaded again.
Disk == W!HistoryOf([msg : W!Message, text : 0..ChatMaxText])
Texts == [ChatRun -> 0..ChatMaxText]

LEMMA ChatTextOfGives == \A m \in W!Message, t \in Texts : W!TextOf(m, t) \in 0..ChatMaxText
<1> TAKE m \in W!Message, t \in Texts
<1>1. m.run \in ChatRun /\ t[m.run] \in 0..ChatMaxText
  <2>1. m.run \in ChatRun
    BY DEF W!Message
  <2> QED BY <2>1 DEF Texts
<1>2. 0 \in 0..ChatMaxText
  BY ChatAssumption
<1> QED BY <1>1, <1>2 DEF W!TextOf

LEMMA ChatSavedGives ==
  ASSUME NEW h \in Hist, NEW t \in Texts
  PROVE  LET d == W!Saved(h, t) IN
         /\ d \in Disk /\ d.current = h.current /\ d.recency = h.recency
         /\ \A c \in ChatId : /\ DOMAIN d.chats[c].messages = DOMAIN h.chats[c].messages
                              /\ \A i \in DOMAIN h.chats[c].messages : d.chats[c].messages[i] =
                                   [msg |-> h.chats[c].messages[i], text |-> W!TextOf(h.chats[c].messages[i], t)]
         /\ W!Loaded(d) = h
<1> DEFINE M(c) == [i \in DOMAIN h.chats[c].messages |->
                      [msg |-> h.chats[c].messages[i], text |-> W!TextOf(h.chats[c].messages[i], t)]]
           k == [c \in ChatId |-> [h.chats[c] EXCEPT !.messages = M(c)]]
           E == [msg : W!Message, text : 0..ChatMaxText]
<1>0. h.chats \in [ChatId -> [messages : Seq(W!Message), name : {"New Chat", "title", "given"}, pinned : BOOLEAN]]
  BY Zenon DEF Hist, W!HistoryOf
<1>1. ASSUME NEW c \in ChatId
      PROVE  /\ M(c) \in Seq(E)
             /\ k[c] \in [messages : Seq(E), name : {"New Chat", "title", "given"}, pinned : BOOLEAN]
             /\ k[c].messages = M(c) /\ k[c].name = h.chats[c].name /\ k[c].pinned = h.chats[c].pinned
  <2> DEFINE q == h.chats[c].messages
  <2>1. q \in Seq(W!Message) /\ Len(q) \in Nat /\ DOMAIN q = 1..Len(q)
    BY Zenon, ChatHistFields, LenProperties
  <2>2. h.chats[c] \in [messages : Seq(W!Message), name : {"New Chat", "title", "given"}, pinned : BOOLEAN]
    BY Zenon, ChatHistFields
  <2> HIDE DEF q
  <2>3. \A i \in 1..Len(q) : [msg |-> q[i], text |-> W!TextOf(q[i], t)] \in E
    BY <2>1, ElementOfSeq, ChatTextOfGives
  <2>4. M(c) \in Seq(E)
    <3> HIDE DEF E
    <3>1. M(c) = [i \in 1..Len(q) |-> [msg |-> q[i], text |-> W!TextOf(q[i], t)]]
      BY <2>1 DEF q
    <3> HIDE DEF M
    <3>2. M(c) \in [1..Len(q) -> E]
      BY <3>1, <2>3
    <3> QED BY <3>2, <2>1, SeqDef
  <2> HIDE DEF M, E
  <2>5. k[c] = [h.chats[c] EXCEPT !.messages = M(c)]
    OBVIOUS
  <2> HIDE DEF k
  <2> QED BY Zenon, <2>2, <2>4, <2>5
<1>2. W!Saved(h, t) = [h EXCEPT !.chats = k]
  BY DEF W!Saved
<1> HIDE DEF M, k
<1>3. k \in [ChatId -> [messages : Seq(E), name : {"New Chat", "title", "given"}, pinned : BOOLEAN]]
  BY Zenon, <1>1 DEF k
<1> DEFINE e == [h EXCEPT !.chats = k]
<1>4. e \in Disk /\ e.current = h.current /\ e.recency = h.recency /\ e.chats = k
  BY Zenon, <1>3 DEF Hist, Disk, W!HistoryOf
<1>5. \A c \in ChatId : /\ DOMAIN k[c].messages = DOMAIN h.chats[c].messages
                         /\ \A i \in DOMAIN h.chats[c].messages : k[c].messages[i] =
                              [msg |-> h.chats[c].messages[i], text |-> W!TextOf(h.chats[c].messages[i], t)]
  BY Zenon, <1>1 DEF M
<1>6. W!Loaded(e) = h
  <2> DEFINE l == [c \in ChatId |-> [k[c] EXCEPT !.messages = [i \in DOMAIN k[c].messages |-> k[c].messages[i].msg]]]
  <2>1. ASSUME NEW c \in ChatId PROVE l[c] = h.chats[c]
    <3>1. [i \in DOMAIN k[c].messages |-> k[c].messages[i].msg] = h.chats[c].messages
      <4>1. h.chats[c].messages \in Seq(W!Message)
        BY Zenon, ChatHistFields
      <4>2. h.chats[c].messages = [i \in DOMAIN h.chats[c].messages |-> h.chats[c].messages[i]]
        BY <4>1
      <4> DEFINE q == h.chats[c].messages
                 w == k[c].messages
      <4>3. DOMAIN w = DOMAIN q /\ \A i \in DOMAIN q : w[i] = [msg |-> q[i], text |-> W!TextOf(q[i], t)]
        BY <1>5
      <4> HIDE DEF q, w
      <4>4. \A i \in DOMAIN q : w[i].msg = q[i]
        BY <4>3
      <4>5. [i \in DOMAIN w |-> w[i].msg] = [i \in DOMAIN q |-> q[i]]
        BY <4>3, <4>4
      <4> QED BY <4>2, <4>5 DEF q, w
    <3>2. k[c] \in [messages : Seq(E), name : {"New Chat", "title", "given"}, pinned : BOOLEAN]
          /\ k[c].name = h.chats[c].name /\ k[c].pinned = h.chats[c].pinned
      BY Zenon, <1>1
    <3>3. h.chats[c] \in [messages : Seq(W!Message), name : {"New Chat", "title", "given"}, pinned : BOOLEAN]
      BY Zenon, ChatHistFields
    <3>4. l[c] = [k[c] EXCEPT !.messages = h.chats[c].messages]
      BY <3>1
    <3> HIDE DEF l, E
    <3> QED BY Zenon, <3>2, <3>3, <3>4
  <2>2. l = h.chats
    BY Zenon, <2>1, <1>0
  <2>3. W!Loaded(e) = [e EXCEPT !.chats = l]
    <3> HIDE DEF e
    <3> QED BY <1>4 DEF W!Loaded
  <2> HIDE DEF l
  <2>4. [e EXCEPT !.chats = h.chats] = h
    <3>1. e \in [chats : [ChatId -> [messages : Seq(E), name : {"New Chat", "title", "given"}, pinned : BOOLEAN]], recency : Seq(ChatId), current : ChatId]
      BY Zenon, <1>4 DEF Disk, W!HistoryOf
    <3>2. h \in [chats : [ChatId -> [messages : Seq(W!Message), name : {"New Chat", "title", "given"}, pinned : BOOLEAN]], recency : Seq(ChatId), current : ChatId]
      BY Zenon DEF Hist, W!HistoryOf
    <3> HIDE DEF e, E
    <3> QED BY Zenon, <3>1, <3>2, <1>4
  <2> QED BY <2>2, <2>3, <2>4
<1> HIDE DEF e
<1> QED
  BY <1>2, <1>4, <1>5, <1>6 DEF e

\* The panel: its fields, and what each call leaves alone.
Stages == [ChatRun -> W!Stage]
Places == [ChatRun -> ChatId \cup {None}]
Shown == Seq(W!Message)
Queues == 0..Cardinality(ChatRun)
RunOrNone == ChatRun \cup {None}

\* What counts is the same here and there.
LEMMA ChatCounts == \A S : W!Cardinality(S) = Cardinality(S)
BY DEF W!Cardinality, Cardinality

LEMMA ChatPanelIs ==
  W!PanelState = [history : Hist, disk : Disk, messages : Shown, text : Texts,
                  isLoading : BOOLEAN, queue : Queues, live : SUBSET ChatRun,
                  listener : RunOrNone, acpListener : RunOrNone, run : Stages, home : Places,
                  sent : Places, titling : SUBSET ChatId, astray : SUBSET ChatRun]
BY ChatCounts DEF W!PanelState, Hist, Disk, Shown, Texts, Queues, RunOrNone, Stages, Places

LEMMA ChatPanelFields ==
  ASSUME NEW s \in W!PanelState
  PROVE  /\ s.history \in Hist /\ s.disk \in Disk /\ s.messages \in Shown /\ s.text \in Texts
         /\ s.isLoading \in BOOLEAN /\ s.queue \in Queues /\ s.live \in SUBSET ChatRun
         /\ s.listener \in RunOrNone /\ s.acpListener \in RunOrNone /\ s.run \in Stages /\ s.home \in Places
         /\ s.sent \in Places /\ s.titling \in SUBSET ChatId /\ s.astray \in SUBSET ChatRun
         /\ s.history.current \in ChatId
<1>1. /\ s.history \in Hist /\ s.disk \in Disk /\ s.messages \in Shown /\ s.text \in Texts
      /\ s.isLoading \in BOOLEAN /\ s.queue \in Queues /\ s.live \in SUBSET ChatRun
      /\ s.listener \in RunOrNone /\ s.acpListener \in RunOrNone /\ s.run \in Stages /\ s.home \in Places
      /\ s.sent \in Places /\ s.titling \in SUBSET ChatId /\ s.astray \in SUBSET ChatRun
  BY ChatPanelIs
<1> QED BY Zenon, <1>1, ChatHistFields

LEMMA ChatPanelZero == 0 \in Queues
BY ChatAssumption, FS_CardinalityType DEF Queues

Calm(s, t) ==
  /\ t.text = s.text /\ t.isLoading = s.isLoading /\ t.queue = s.queue /\ t.live = s.live
  /\ t.listener = s.listener /\ t.acpListener = s.acpListener /\ t.run = s.run
  /\ t.home = s.home /\ t.sent = s.sent /\ t.astray = s.astray

Lists(s, t) == W!ToSet(t.history.recency) \subseteq W!ToSet(s.history.recency)

AllSaved(s) ==
  s.history.current \in W!Listed(s.history) => \A m \in W!ToSet(s.messages) : W!OnDisk(s, m)

LEMMA ChatWriteGives ==
  ASSUME NEW s \in W!PanelState, NEW h \in Hist
  PROVE  LET t == W!Write(s, h) IN
         /\ t \in W!PanelState /\ Calm(s, t) /\ t.messages = s.messages /\ t.titling = s.titling
         /\ t.history = h /\ t.disk = W!Saved(h, s.text)
<1>1. s.text \in Texts
  BY ChatPanelFields
<1> DEFINE d == W!Saved(h, s.text)
<1>2. d \in Disk
  BY <1>1, ChatSavedGives
<1>3. W!Write(s, h) = [s EXCEPT !.history = h, !.disk = d]
  BY DEF W!Write
<1> HIDE DEF d
<1> DEFINE t == [s EXCEPT !.history = h, !.disk = d]
<1>4. t \in W!PanelState /\ t.history = h /\ t.disk = d /\ t.messages = s.messages /\ t.titling = s.titling
  BY <1>2, ChatPanelIs
<1>5. Calm(s, t)
  BY ChatPanelIs DEF Calm
<1> HIDE DEF t
<1> QED BY <1>3, <1>4, <1>5 DEF t, d

\* What the disk has of a message the history shows, and the other way.
LEMMA ChatOnDiskIs ==
  ASSUME NEW s \in W!PanelState, s.disk = W!Saved(s.history, s.text),
         NEW m \in W!ToSet(s.history.chats[s.history.current].messages)
  PROVE  W!OnDisk(s, m)
<1> DEFINE h == s.history
           q == h.chats[h.current].messages
           w == s.disk.chats[h.current].messages
<1>1. h \in Hist /\ s.text \in Texts /\ h.current \in ChatId
  BY ChatPanelFields
<1> HIDE DEF h
<1>2. /\ s.disk.current = h.current
      /\ DOMAIN w = DOMAIN q /\ \A i \in DOMAIN q : w[i] = [msg |-> q[i], text |-> W!TextOf(q[i], s.text)]
  <2>1. s.disk = W!Saved(h, s.text)
    BY DEF h
  <2> QED BY <2>1, <1>1, ChatSavedGives
<1>3. PICK i \in DOMAIN q : m = q[i]
  BY DEF W!ToSet, h
<1> HIDE DEF q, w
<1>4. [msg |-> m, text |-> W!TextOf(m, s.text)] \in W!ToSet(w)
  BY <1>2, <1>3 DEF W!ToSet
<1> QED
  BY <1>2, <1>4 DEF W!OnDisk, w

LEMMA ChatOnDiskWas ==
  ASSUME NEW s \in W!PanelState, W!Mirrored(s), NEW m, W!OnDisk(s, m)
  PROVE  m \in W!ToSet(s.history.chats[s.history.current].messages)
<1> DEFINE h == s.history
           q == h.chats[h.current].messages
           w == s.disk.chats[h.current].messages
<1>1. h \in Hist /\ h.current \in ChatId
  BY ChatPanelFields
<1>0. PICK t \in Texts : s.disk = W!Saved(h, t)
  BY DEF W!Mirrored, Texts
<1> HIDE DEF h
<1>2. /\ s.disk.current = h.current
      /\ DOMAIN w = DOMAIN q /\ \A i \in DOMAIN q : w[i] = [msg |-> q[i], text |-> W!TextOf(q[i], t)]
  <2>1. /\ W!Saved(h, t).current = h.current
        /\ \A c \in ChatId : /\ DOMAIN W!Saved(h, t).chats[c].messages = DOMAIN h.chats[c].messages
                             /\ \A i \in DOMAIN h.chats[c].messages : W!Saved(h, t).chats[c].messages[i] =
                                  [msg |-> h.chats[c].messages[i], text |-> W!TextOf(h.chats[c].messages[i], t)]
    BY <1>1, ChatSavedGives
  <2> QED BY <2>1, <1>0, <1>1
<1> HIDE DEF q, w
<1>3. [msg |-> m, text |-> W!TextOf(m, s.text)] \in W!ToSet(w)
  BY <1>2 DEF W!OnDisk, w
<1>4. PICK i \in DOMAIN q : [msg |-> m, text |-> W!TextOf(m, s.text)] = [msg |-> q[i], text |-> W!TextOf(q[i], t)]
  BY <1>2, <1>3 DEF W!ToSet
<1>5. m = q[i]
  BY <1>4
<1> QED
  BY <1>5 DEF W!ToSet, q, h

LEMMA ChatSaveMessagesGives ==
  ASSUME NEW s \in W!PanelState
  PROVE  LET t == W!SaveMessages(s) IN
         /\ t \in W!PanelState /\ Calm(s, t) /\ t.messages = s.messages
         /\ t.history.current = s.history.current /\ Lists(s, t) /\ AllSaved(t)
         /\ \A c \in ChatId : \/ t.history.chats[c].messages = s.history.chats[c].messages
                              \/ c = s.history.current /\ t.history.chats[c].messages = s.messages
         /\ W!Mirrored(s) => W!Mirrored(t)
<1>1. CASE s.history.current \notin W!Listed(s.history)
  <2>1. W!SaveMessages(s) = s
    BY <1>1 DEF W!SaveMessages
  <2> QED BY <2>1, <1>1 DEF Calm, Lists, AllSaved
<1>2. CASE s.history.current \in W!Listed(s.history)
  <2> DEFINE g == W!SaveCurrent(s.history, s.messages)
             t == W!Write(s, g)
  <2>0. s.history \in Hist /\ s.messages \in Seq(W!Message) /\ s.text \in Texts /\ s.history.current \in ChatId
    BY ChatPanelFields DEF Shown
  <2>1. /\ g \in Hist /\ g.current = s.history.current /\ W!ToSet(g.recency) = W!ToSet(s.history.recency)
        /\ g.chats[s.history.current].messages = s.messages
        /\ \A c \in ChatId \ {s.history.current} : g.chats[c].messages = s.history.chats[c].messages
    BY <2>0, <1>2, ChatSaveCurrentGives
  <2>2. W!SaveMessages(s) = t
    BY <1>2 DEF W!SaveMessages
  <2> HIDE DEF g
  <2>3. t \in W!PanelState /\ Calm(s, t) /\ t.messages = s.messages /\ t.history = g /\ t.disk = W!Saved(g, s.text)
    BY <2>1, ChatWriteGives
  <2> HIDE DEF t
  <2>4. t.disk = W!Saved(t.history, t.text)
    BY <2>3 DEF Calm
  <2>5. AllSaved(t)
    <3>1. t.history.chats[t.history.current].messages = t.messages
      BY <2>1, <2>3
    <3>2. \A m \in W!ToSet(t.messages) : W!OnDisk(t, m)
      BY <3>1, <2>3, <2>4, ChatOnDiskIs
    <3> QED BY <3>2 DEF AllSaved
  <2>6. W!Mirrored(t)
    BY <2>3, <2>4, ChatPanelFields DEF W!Mirrored, Texts
  <2>7. Lists(s, t)
    BY <2>1, <2>3 DEF Lists
  <2> QED
    BY <2>1, <2>2, <2>3, <2>5, <2>6, <2>7
<1> QED
  BY <1>1, <1>2

\* Mirrored and at home, whatever is saved.
LEMMA ChatMessageIs ==
  \A r \in ChatRun : /\ W!User(r) \in W!Message /\ W!User(r).run = r /\ W!User(r).who = "user"
                     /\ W!Answer(r) \in W!Message /\ W!Answer(r).run = r /\ W!Answer(r).who = "ai"
                     /\ W!Note(r) \in W!Message /\ W!Note(r).run = r /\ W!Note(r).who = "note"
BY DEF W!User, W!Answer, W!Note, W!Message

LEMMA ChatAppendSet ==
  ASSUME NEW q \in Shown, NEW m \in W!Message
  PROVE  Append(q, m) \in Shown /\ W!ToSet(Append(q, m)) = W!ToSet(q) \cup {m}
BY ChatAppended DEF Shown

LEMMA ChatSaveHome ==
  ASSUME NEW s \in W!PanelState, NEW U, W!AtHome(s, U)
  PROVE  W!AtHome(W!SaveMessages(s), U)
<1> DEFINE t == W!SaveMessages(s)
<1>1. /\ Calm(s, t) /\ t.messages = s.messages /\ t.history.current = s.history.current
      /\ \A c \in ChatId : \/ t.history.chats[c].messages = s.history.chats[c].messages
                           \/ c = s.history.current /\ t.history.chats[c].messages = s.messages
  BY ChatSaveMessagesGives
<1> HIDE DEF t
<1>2. \A m, c : W!Belongs(s, U, m, c) => W!Belongs(t, U, m, c)
  BY <1>1 DEF W!Belongs, Calm
<1>3. \A c \in ChatId : \A m \in W!ToSet(t.history.chats[c].messages) : W!Belongs(t, U, m, c)
  <2> TAKE c \in ChatId
  <2>1. CASE t.history.chats[c].messages = s.history.chats[c].messages
    BY <2>1, <1>2 DEF W!AtHome
  <2>2. CASE c = s.history.current /\ t.history.chats[c].messages = s.messages
    BY <2>2, <1>2 DEF W!AtHome
  <2> QED BY <2>1, <2>2, <1>1
<1>4. \A m \in W!ToSet(t.messages) : W!Belongs(t, U, m, t.history.current)
  BY <1>1, <1>2 DEF W!AtHome
<1>5. \A r \in ChatRun : r \in t.live \/ t.run[r] \in {"attaching", "closing"} =>
        r \in U /\ (r \in t.astray \/ t.home[r] = t.history.current)
  BY <1>1 DEF W!AtHome, Calm
<1> QED
  BY <1>3, <1>4, <1>5 DEF W!AtHome, t

LEMMA ChatSaveUsed ==
  ASSUME NEW s, NEW t, Calm(s, t)
  PROVE  W!Used(t) = W!Used(s) /\ (W!Alone(s) => W!Alone(t))
BY DEF Calm, W!Used, W!Alone

\* What tearing down leaves.
LEMMA ChatAbortGives ==
  ASSUME NEW s \in W!PanelState, NEW c, NEW r
  PROVE  LET t == W!Abort(s, c, r) IN
         /\ t = [s EXCEPT !.run = t.run] /\ t.run \in Stages
         /\ \A q \in ChatRun : \/ t.run[q] = s.run[q]
                               \/ q # r /\ s.run[q] = "stream" /\ t.run[q] = "cut"
<1> DEFINE f == [q \in ChatRun |-> IF s.run[q] = "stream" /\ s.sent[q] = c /\ q # r THEN "cut" ELSE s.run[q]]
<1>1. s.run \in Stages
  BY ChatPanelFields
<1>2. f \in Stages
  BY <1>1 DEF Stages, W!Stage
<1>3. \A q \in ChatRun : f[q] = s.run[q] \/ (q # r /\ s.run[q] = "stream" /\ f[q] = "cut")
  OBVIOUS
<1>4. W!Abort(s, c, r) = [s EXCEPT !.run = f]
  BY DEF W!Abort
<1> HIDE DEF f
<1>5. [s EXCEPT !.run = f].run = f
  BY ChatPanelIs
<1> QED
  BY <1>2, <1>3, <1>4, <1>5

LEMMA ChatTearDownGives ==
  ASSUME NEW s \in W!PanelState
  PROVE  LET t == W!TearDown(s) IN
         /\ t \in W!PanelState /\ t.history = s.history /\ t.disk = s.disk /\ t.messages = s.messages
         /\ t.text = s.text /\ t.home = s.home /\ t.listener = s.listener /\ t.titling = s.titling
         /\ t.live = {} /\ t.queue = 0 /\ t.isLoading = FALSE /\ s.astray \subseteq t.astray
         /\ \A q \in ChatRun : \/ t.run[q] = s.run[q]
                               \/ s.run[q] = "stream" /\ t.run[q] = "cut"
         /\ \A q \in ChatRun : t.run[q] \in {"attaching", "closing"} => q \in t.astray
<1> DEFINE a == W!Abort(s, s.history.current, None)
           x == a.astray \cup {r \in ChatRun : s.run[r] \in {"attaching", "closing"}}
<1>0. /\ a = [s EXCEPT !.run = a.run] /\ a.run \in Stages
      /\ \A q \in ChatRun : \/ a.run[q] = s.run[q]
                            \/ s.run[q] = "stream" /\ a.run[q] = "cut"
  BY ChatAbortGives
<1>1. W!TearDown(s) = [a EXCEPT !.live = {}, !.queue = 0, !.isLoading = FALSE, !.astray = x]
  BY DEF W!TearDown
<1> DEFINE f == a.run
<1>2. f \in Stages /\ a = [s EXCEPT !.run = f]
      /\ \A q \in ChatRun : f[q] = s.run[q] \/ (s.run[q] = "stream" /\ f[q] = "cut")
  BY <1>0
<1> HIDE DEF a, f
<1>3. a \in W!PanelState /\ a.history = s.history /\ a.disk = s.disk /\ a.messages = s.messages
      /\ a.text = s.text /\ a.home = s.home /\ a.listener = s.listener /\ a.titling = s.titling
      /\ a.run = f /\ a.astray = s.astray
  BY <1>2, ChatPanelIs
<1>4. x \in SUBSET ChatRun /\ s.astray \subseteq x /\ \A q \in ChatRun : f[q] \in {"attaching", "closing"} => q \in x
  <2>1. s.astray \in SUBSET ChatRun
    BY ChatPanelFields
  <2> QED BY <2>1, <1>2, <1>3
<1> HIDE DEF x
<1> DEFINE t == [a EXCEPT !.live = {}, !.queue = 0, !.isLoading = FALSE, !.astray = x]
<1>5. t \in W!PanelState /\ t.history = a.history /\ t.disk = a.disk /\ t.messages = a.messages
      /\ t.text = a.text /\ t.home = a.home /\ t.listener = a.listener /\ t.titling = a.titling
      /\ t.live = {} /\ t.queue = 0 /\ t.isLoading = FALSE /\ t.astray = x /\ t.run = a.run
  BY <1>3, <1>4, ChatPanelIs, ChatPanelZero
<1> HIDE DEF t
<1> QED
  BY <1>1, <1>2, <1>3, <1>4, <1>5 DEF t

LEMMA ChatTearDownHome ==
  ASSUME NEW s \in W!PanelState, NEW U, W!AtHome(s, U)
  PROVE  LET t == W!TearDown(s) IN
         /\ W!AtHome(t, U) /\ W!Used(t) = W!Used(s) /\ (t.astray = {} => W!Alone(t))
         /\ W!Mirrored(s) => W!Mirrored(t)
         /\ \A m : W!OnDisk(s, m) => W!OnDisk(t, m)
         /\ AllSaved(s) => AllSaved(t)
<1> DEFINE t == W!TearDown(s)
<1>1. /\ t \in W!PanelState /\ t.history = s.history /\ t.disk = s.disk /\ t.messages = s.messages
      /\ t.text = s.text /\ t.home = s.home
      /\ t.live = {} /\ t.queue = 0 /\ t.isLoading = FALSE /\ s.astray \subseteq t.astray
      /\ \A q \in ChatRun : \/ t.run[q] = s.run[q]
                            \/ s.run[q] = "stream" /\ t.run[q] = "cut"
      /\ \A q \in ChatRun : t.run[q] \in {"attaching", "closing"} => q \in t.astray
  BY ChatTearDownGives
<1> HIDE DEF t
<1>2. \A m, c : W!Belongs(s, U, m, c) => W!Belongs(t, U, m, c)
  BY <1>1 DEF W!Belongs
<1>3. W!AtHome(t, U)
  <2>1. \A c \in ChatId : \A m \in W!ToSet(t.history.chats[c].messages) : W!Belongs(t, U, m, c)
    BY <1>1, <1>2 DEF W!AtHome
  <2>2. \A m \in W!ToSet(t.messages) : W!Belongs(t, U, m, t.history.current)
    BY <1>1, <1>2 DEF W!AtHome
  <2>3. \A r \in ChatRun : r \in t.live \/ t.run[r] \in {"attaching", "closing"} =>
          r \in U /\ (r \in t.astray \/ t.home[r] = t.history.current)
    BY <1>1 DEF W!AtHome
  <2> QED BY <2>1, <2>2, <2>3 DEF W!AtHome
<1>4. W!Used(t) = W!Used(s)
  BY <1>1 DEF W!Used
<1>5. t.astray = {} => W!Alone(t)
  BY <1>1 DEF W!Alone
<1>6. W!Mirrored(s) => W!Mirrored(t)
  BY <1>1 DEF W!Mirrored
<1>7. (\A m : W!OnDisk(s, m) => W!OnDisk(t, m)) /\ (AllSaved(s) => AllSaved(t))
  BY <1>1 DEF W!OnDisk, AllSaved
<1> QED
  BY <1>3, <1>4, <1>5, <1>6, <1>7 DEF t

\* What a launch does: the run is on its way, and it is alone.
LEMMA ChatLaunchGives ==
  ASSUME NEW s \in W!PanelState, NEW r \in ChatRun, NEW how \in W!How
  PROVE  LET t == W!Launch(s, r, how) IN
         /\ t \in W!PanelState /\ t.history = s.history /\ t.disk = s.disk /\ t.text = s.text
         /\ t.isLoading = s.isLoading /\ t.queue = s.queue /\ t.home = s.home /\ t.astray = s.astray
         /\ \A q \in ChatRun \ {r} : \/ t.run[q] = s.run[q]
                                     \/ s.run[q] = "stream" /\ t.run[q] = "cut"
         /\ \/ /\ t.run[r] = "stream" /\ t.live = s.live \cup {r} /\ t.listener = r
               /\ t.messages = Append(s.messages, W!Answer(r))
            \/ /\ t.run[r] = "acp" /\ t.live = s.live \cup {r}
               /\ t.messages = Append(s.messages, W!Answer(r))
            \/ t.run[r] = "closing" /\ t.live = s.live \cup {r} /\ t.messages = s.messages
            \/ t.run[r] = "attaching" /\ t.live = s.live /\ t.messages = s.messages
<1>0. /\ s.messages \in Shown /\ Append(s.messages, W!Answer(r)) \in Shown /\ s.run \in Stages
      /\ s.live \cup {r} \in SUBSET ChatRun /\ r \in RunOrNone /\ s.sent \in Places /\ s.history.current \in ChatId
  BY ChatPanelFields, ChatMessageIs, ChatAppendSet DEF RunOrNone
<1>r. \A f \in Stages, x \in {"stream", "acp", "closing", "attaching"} :
        /\ [f EXCEPT ![r] = x] \in Stages /\ [f EXCEPT ![r] = x][r] = x
        /\ \A q \in ChatRun \ {r} : [f EXCEPT ![r] = x][q] = f[q]
  BY DEF Stages, W!Stage
<1>p. [s.sent EXCEPT ![r] = s.history.current] \in Places
  BY <1>0 DEF Places
<1>1. CASE how = "web"
  <2> DEFINE a == W!Abort(s, s.history.current, r)
             f == [a.run EXCEPT ![r] = "stream"]
             p == [s.sent EXCEPT ![r] = s.history.current]
             m == Append(s.messages, W!Answer(r))
             l == s.live \cup {r}
  <2>1. /\ a = [s EXCEPT !.run = a.run] /\ a.run \in Stages
        /\ \A q \in ChatRun : \/ a.run[q] = s.run[q]
                              \/ q # r /\ s.run[q] = "stream" /\ a.run[q] = "cut"
    BY ChatAbortGives
  <2>2. f \in Stages /\ f[r] = "stream"
        /\ \A q \in ChatRun \ {r} : f[q] = s.run[q] \/ (s.run[q] = "stream" /\ f[q] = "cut")
    <3>1. \A q \in ChatRun \ {r} : f[q] = a.run[q]
      BY <2>1, <1>r
    <3>2. f \in Stages /\ f[r] = "stream"
      BY <2>1, <1>r
    <3> HIDE DEF f, a
    <3> QED BY <3>1, <3>2, <2>1
  <2>3. a.live = s.live /\ a.messages = s.messages /\ a.sent = s.sent
    <3> DEFINE g == a.run
    <3>1. a = [s EXCEPT !.run = g]
      BY <2>1
    <3> HIDE DEF a, g
    <3> QED BY <3>1, ChatPanelIs
  <2>4. W!Launch(s, r, how) = [a EXCEPT !.live = l, !.messages = m, !.listener = r, !.run = f, !.sent = p]
    BY <1>1, <2>3 DEF W!Launch, W!SendWeb
  <2> DEFINE t == [s EXCEPT !.live = l, !.messages = m, !.listener = r, !.run = f, !.sent = p]
  <2>5. W!Launch(s, r, how) = t
    <3> DEFINE g == a.run
    <3>1. a = [s EXCEPT !.run = g]
      BY <2>1
    <3> HIDE DEF a, f, g, l, m, p
    <3> QED BY <2>4, <3>1, ChatPanelIs
  <2>6. l \in SUBSET ChatRun /\ m \in Shown /\ p \in Places
    BY <1>0, <1>p
  <2> HIDE DEF a, f, l, m, p
  <2>7. /\ t \in W!PanelState /\ t.history = s.history /\ t.disk = s.disk /\ t.text = s.text
        /\ t.isLoading = s.isLoading /\ t.queue = s.queue /\ t.home = s.home /\ t.astray = s.astray
        /\ t.run = f /\ t.live = l /\ t.listener = r /\ t.messages = m
    BY <2>2, <2>6, <1>0, ChatPanelIs
  <2> HIDE DEF t
  <2> QED
    BY <2>2, <2>5, <2>7 DEF l, m
<1>2. CASE how = "acp"
  <2> DEFINE f == [s.run EXCEPT ![r] = "acp"]
             m == Append(s.messages, W!Answer(r))
             l == s.live \cup {r}
             t == [s EXCEPT !.live = l, !.messages = m, !.acpListener = r, !.run = f]
             b == [s EXCEPT !.live = l]
  <2>1. W!Launch(s, r, how) = [b EXCEPT !.messages = Append(b.messages, W!Answer(r)), !.acpListener = r, !.run[r] = "acp"]
    BY <1>2 DEF W!Launch, W!OpenAcp
  <2>2. b.messages = s.messages /\ b.run = s.run
    BY ChatPanelIs
  <2>3. W!Launch(s, r, how) = [b EXCEPT !.messages = m, !.acpListener = r, !.run = f]
    BY <2>1, <2>2
  <2>4. f \in Stages /\ f[r] = "acp" /\ (\A q \in ChatRun \ {r} : f[q] = s.run[q])
    BY <1>0, <1>r
  <2>6. l \in SUBSET ChatRun /\ m \in Shown
    BY <1>0
  <2> HIDE DEF f, m, l
  <2>5. W!Launch(s, r, how) = t
    BY <2>3, ChatPanelIs
  <2>7. /\ t \in W!PanelState /\ t.history = s.history /\ t.disk = s.disk /\ t.text = s.text
        /\ t.isLoading = s.isLoading /\ t.queue = s.queue /\ t.home = s.home /\ t.astray = s.astray
        /\ t.run = f /\ t.live = l /\ t.messages = m
    BY <2>4, <2>6, <1>0, ChatPanelIs
  <2> HIDE DEF t
  <2> QED
    BY <2>4, <2>5, <2>7 DEF l, m
<1>3. CASE how = "stale"
  <2> DEFINE f == [s.run EXCEPT ![r] = "closing"]
             l == s.live \cup {r}
             t == [s EXCEPT !.live = l, !.run = f]
  <2>1. W!Launch(s, r, how) = t
    BY <1>3 DEF W!Launch
  <2>4. f \in Stages /\ f[r] = "closing" /\ (\A q \in ChatRun \ {r} : f[q] = s.run[q])
    BY <1>0, <1>r
  <2>6. l \in SUBSET ChatRun
    BY <1>0
  <2> HIDE DEF f, l
  <2>7. /\ t \in W!PanelState /\ t.history = s.history /\ t.disk = s.disk /\ t.text = s.text
        /\ t.isLoading = s.isLoading /\ t.queue = s.queue /\ t.home = s.home /\ t.astray = s.astray
        /\ t.run = f /\ t.live = l /\ t.messages = s.messages
    BY <2>4, <2>6, ChatPanelIs
  <2> HIDE DEF t
  <2> QED
    BY <2>1, <2>4, <2>7 DEF l
<1>4. CASE how = "attach"
  <2> DEFINE f == [s.run EXCEPT ![r] = "attaching"]
             t == [s EXCEPT !.run = f]
  <2>1. W!Launch(s, r, how) = t
    BY <1>4 DEF W!Launch
  <2>4. f \in Stages /\ f[r] = "attaching" /\ (\A q \in ChatRun \ {r} : f[q] = s.run[q])
    BY <1>0, <1>r
  <2> HIDE DEF f
  <2>7. /\ t \in W!PanelState /\ t.history = s.history /\ t.disk = s.disk /\ t.text = s.text
        /\ t.isLoading = s.isLoading /\ t.queue = s.queue /\ t.home = s.home /\ t.astray = s.astray
        /\ t.run = f /\ t.live = s.live /\ t.messages = s.messages
    BY <2>4, ChatPanelIs
  <2> HIDE DEF t
  <2> QED
    BY <2>1, <2>4, <2>7
<1> QED
  BY <1>1, <1>2, <1>3, <1>4 DEF W!How

\* All of Sound but that a queued message has a run to come.
Fine(s) ==
  /\ s \in W!PanelState /\ W!AtHome(s, W!Used(s)) /\ W!Mirrored(s)
  /\ s.astray = {} => W!Alone(s) /\ W!PanelSaved(s)

LEMMA ChatWaitedStays ==
  ASSUME NEW s, NEW t, NEW m, W!Waited(s, m), t.text = s.text,
         \A q \in ChatRun : q \in s.live /\ s.run[q] \in {"stream", "acp", "answered"} =>
                            q \in t.live /\ t.run[q] \in {"stream", "acp", "answered"},
         m.run \in ChatRun
  PROVE  W!Waited(t, m)
BY DEF W!Waited

LEMMA ChatSameOnDisk ==
  ASSUME NEW s, NEW t, NEW m, W!OnDisk(s, m), t.text = s.text, t.disk = s.disk
  PROVE  W!OnDisk(t, m)
BY DEF W!OnDisk

LEMMA ChatLaunchFine ==
  ASSUME NEW s \in W!PanelState, NEW r \in ChatRun, NEW how \in W!How,
         W!AtHome(s, W!Used(s) \cup {r}), W!Mirrored(s), r \in s.astray \/ s.home[r] = s.history.current,
         s.astray = {} => /\ s.isLoading /\ s.live = {} /\ W!PanelSaved(s)
                          /\ \A q \in ChatRun \ {r} : s.run[q] \notin {"attaching", "closing"}
  PROVE  LET t == W!Launch(s, r, how) IN
         /\ Fine(t) /\ t.queue = s.queue /\ t.isLoading = s.isLoading /\ t.astray = s.astray
         /\ Lists(s, t) /\ W!Used(t) = W!Used(s) \cup {r}
<1> DEFINE t == W!Launch(s, r, how)
           U == W!Used(s) \cup {r}
<1>1. /\ t \in W!PanelState /\ t.history = s.history /\ t.disk = s.disk /\ t.text = s.text
      /\ t.isLoading = s.isLoading /\ t.queue = s.queue /\ t.home = s.home /\ t.astray = s.astray
      /\ \A q \in ChatRun \ {r} : \/ t.run[q] = s.run[q]
                                  \/ s.run[q] = "stream" /\ t.run[q] = "cut"
      /\ \/ /\ t.run[r] = "stream" /\ t.live = s.live \cup {r} /\ t.listener = r
            /\ t.messages = Append(s.messages, W!Answer(r))
         \/ /\ t.run[r] = "acp" /\ t.live = s.live \cup {r}
            /\ t.messages = Append(s.messages, W!Answer(r))
         \/ t.run[r] = "closing" /\ t.live = s.live \cup {r} /\ t.messages = s.messages
         \/ t.run[r] = "attaching" /\ t.live = s.live /\ t.messages = s.messages
  BY ChatLaunchGives
<1>m. s.messages \in Shown /\ W!Answer(r) \in W!Message /\ W!Answer(r).run = r /\ W!Answer(r).who = "ai"
      /\ W!ToSet(Append(s.messages, W!Answer(r))) = W!ToSet(s.messages) \cup {W!Answer(r)}
  <2>1. s.messages \in Shown /\ W!Answer(r) \in W!Message /\ W!Answer(r).run = r /\ W!Answer(r).who = "ai"
    BY ChatPanelFields, ChatMessageIs
  <2> QED BY <2>1, ChatAppendSet
<1> HIDE DEF t
<1>2. W!Used(t) = U
  BY <1>1 DEF W!Used
<1>3. W!AtHome(t, U)
  <2>0. \A m, c : W!Belongs(s, U, m, c) => W!Belongs(t, U, m, c)
    BY <1>1 DEF W!Belongs
  <2>1. \A c \in ChatId : \A m \in W!ToSet(t.history.chats[c].messages) : W!Belongs(t, U, m, c)
    BY <1>1, <2>0 DEF W!AtHome
  <2>2. W!Belongs(t, U, W!Answer(r), t.history.current)
    BY <1>1, <1>m DEF W!Belongs
  <2>3. \A m \in W!ToSet(s.messages) : W!Belongs(t, U, m, t.history.current)
    BY <1>1, <2>0 DEF W!AtHome
  <2>4. \A m \in W!ToSet(t.messages) : W!Belongs(t, U, m, t.history.current)
    BY <2>2, <2>3, <1>1, <1>m
  <2>5. \A q \in ChatRun : q \in t.live \/ t.run[q] \in {"attaching", "closing"} =>
          q \in U /\ (q \in t.astray \/ t.home[q] = t.history.current)
    <3> TAKE q \in ChatRun
    <3>1. CASE q = r
      BY <3>1, <1>1
    <3>2. CASE q # r
      <4>1. q \in t.live \/ t.run[q] \in {"attaching", "closing"} => q \in s.live \/ s.run[q] \in {"attaching", "closing"}
        BY <3>2, <1>1
      <4> QED BY <4>1, <1>1 DEF W!AtHome
    <3> QED BY <3>1, <3>2
  <2> QED BY <2>1, <2>4, <2>5 DEF W!AtHome
<1>4. W!Mirrored(t)
  BY <1>1 DEF W!Mirrored
<1>5. ASSUME t.astray = {} PROVE W!Alone(t) /\ W!PanelSaved(t)
  <2>1. /\ s.isLoading /\ s.live = {} /\ W!PanelSaved(s)
        /\ \A q \in ChatRun \ {r} : s.run[q] \notin {"attaching", "closing"}
    BY <1>5, <1>1
  <2>2. \A q \in ChatRun \ {r} : t.run[q] \notin {"attaching", "closing"}
    BY <2>1, <1>1
  <2>3. W!Alone(t)
    BY <2>1, <2>2, <1>1 DEF W!Alone
  <2>4. ASSUME t.history.current \in W!Listed(t.history), NEW m \in W!ToSet(t.messages)
        PROVE  W!OnDisk(t, m) \/ W!Waited(t, m)
    <3>1. CASE m \in W!ToSet(s.messages)
      <4>1. W!OnDisk(s, m) \/ W!Waited(s, m)
        BY <3>1, <2>1, <2>4, <1>1 DEF W!PanelSaved
      <4>2. W!Waited(s, m) => W!Waited(t, m)
        BY <2>1, <1>1 DEF W!Waited
      <4> QED BY <4>1, <4>2, <1>1, ChatSameOnDisk
    <3>2. CASE m = W!Answer(r) /\ t.messages = Append(s.messages, W!Answer(r))
      <4>1. r \in t.live /\ t.run[r] \in {"stream", "acp", "answered"}
        <5>1. t.messages # s.messages
          BY <3>2, <1>m, AppendProperties, LenProperties DEF Shown
        <5> QED BY <5>1, <1>1
      <4> QED BY <3>2, <4>1, <1>m DEF W!Waited
    <3> QED BY <3>1, <3>2, <2>4, <1>1, <1>m
  <2> QED BY <2>3, <2>4 DEF W!PanelSaved
<1> QED
  BY <1>1, <1>2, <1>3, <1>4, <1>5 DEF Fine, Lists, t

\* A message is sent: whatever was there is torn down.
LEMMA ChatSendFine ==
  ASSUME NEW s \in W!PanelState, NEW r \in ChatRun, NEW how \in W!How, s.run[r] = "free",
         W!AtHome(s, W!Used(s)), W!Mirrored(s)
  PROVE  LET t == W!Send(s, r, how) IN
         /\ Fine(t) /\ t.queue = 0 /\ t.isLoading = TRUE /\ Lists(s, t) /\ s.astray \subseteq t.astray
<1> DEFINE h == [s.home EXCEPT ![r] = s.history.current]
           a == [s EXCEPT !.messages = Append(s.messages, W!User(r)), !.home = h]
           b == W!SaveMessages(a)
           d == W!TearDown(b)
           e == [d EXCEPT !.isLoading = TRUE]
           U == W!Used(s) \cup {r}
<1>1. W!Send(s, r, how) = W!Launch(e, r, how)
  BY DEF W!Send, W!Asked
<1>m. s.messages \in Shown /\ W!User(r) \in W!Message /\ W!User(r).run = r /\ s.history.current \in ChatId
      /\ Append(s.messages, W!User(r)) \in Shown /\ s.home \in Places
      /\ W!ToSet(Append(s.messages, W!User(r))) = W!ToSet(s.messages) \cup {W!User(r)}
  <2>1. s.messages \in Shown /\ W!User(r) \in W!Message /\ W!User(r).run = r /\ s.history.current \in ChatId /\ s.home \in Places
    BY ChatPanelFields, ChatMessageIs
  <2> QED BY <2>1, ChatAppendSet
<1>h. h \in Places /\ h[r] = s.history.current /\ \A q \in ChatRun \ {r} : h[q] = s.home[q]
  BY <1>m DEF Places
<1> HIDE DEF h
<1>2. /\ a \in W!PanelState /\ a.messages = Append(s.messages, W!User(r)) /\ a.home = h /\ a.history = s.history
      /\ a.disk = s.disk /\ a.live = s.live /\ a.run = s.run /\ a.astray = s.astray /\ a.text = s.text
  BY <1>m, <1>h, ChatPanelIs
<1> HIDE DEF a
<1>3. W!AtHome(a, U)
  <2>0. \A m, c : W!Belongs(s, W!Used(s), m, c) => W!Belongs(a, U, m, c)
    <3> TAKE m, c
    <3> HAVE W!Belongs(s, W!Used(s), m, c)
    <3>1. m.run \in W!Used(s) /\ m.run \in ChatRun \ {r}
      BY DEF W!Belongs, W!Used
    <3> QED BY <3>1, <1>2, <1>h DEF W!Belongs
  <2>1. \A c \in ChatId : \A m \in W!ToSet(a.history.chats[c].messages) : W!Belongs(a, U, m, c)
    BY <1>2, <2>0 DEF W!AtHome
  <2>2. W!Belongs(a, U, W!User(r), a.history.current)
    BY <1>2, <1>m, <1>h DEF W!Belongs
  <2>3. \A m \in W!ToSet(s.messages) : W!Belongs(a, U, m, a.history.current)
    BY <1>2, <2>0 DEF W!AtHome
  <2>4. \A m \in W!ToSet(a.messages) : W!Belongs(a, U, m, a.history.current)
    BY <2>2, <2>3, <1>2, <1>m
  <2>5. \A q \in ChatRun : q \in a.live \/ a.run[q] \in {"attaching", "closing"} =>
          q \in U /\ (q \in a.astray \/ a.home[q] = a.history.current)
    <3> TAKE q \in ChatRun
    <3>1. CASE q = r
      BY <3>1, <1>2, <1>h
    <3>2. CASE q # r
      BY <3>2, <1>2, <1>h DEF W!AtHome
    <3> QED BY <3>1, <3>2
  <2> QED BY <2>1, <2>4, <2>5 DEF W!AtHome
<1>4. W!Mirrored(a)
  BY <1>2 DEF W!Mirrored
<1>5. /\ b \in W!PanelState /\ Calm(a, b) /\ b.messages = a.messages
      /\ b.history.current = a.history.current /\ Lists(a, b) /\ AllSaved(b)
      /\ W!Mirrored(b) /\ W!AtHome(b, U)
  <2>1. /\ b \in W!PanelState /\ Calm(a, b) /\ b.messages = a.messages
        /\ b.history.current = a.history.current /\ Lists(a, b) /\ AllSaved(b)
        /\ W!Mirrored(a) => W!Mirrored(b)
    BY <1>2, ChatSaveMessagesGives
  <2>2. W!AtHome(b, U)
    BY <1>2, <1>3, ChatSaveHome
  <2> QED BY <2>1, <2>2, <1>4
<1> HIDE DEF b
<1>6. /\ d \in W!PanelState /\ d.history = b.history /\ d.disk = b.disk /\ d.messages = b.messages
      /\ d.text = b.text /\ d.home = b.home
      /\ d.live = {} /\ d.queue = 0 /\ b.astray \subseteq d.astray
      /\ \A q \in ChatRun : \/ d.run[q] = b.run[q]
                            \/ b.run[q] = "stream" /\ d.run[q] = "cut"
      /\ \A q \in ChatRun : d.run[q] \in {"attaching", "closing"} => q \in d.astray
  BY <1>5, ChatTearDownGives
<1>7. W!AtHome(d, U) /\ W!Used(d) = W!Used(b) /\ AllSaved(d) /\ W!Mirrored(d)
  BY <1>5, ChatTearDownHome
<1> HIDE DEF d
<1>8. /\ e \in W!PanelState /\ e.isLoading = TRUE /\ e.history = d.history /\ e.disk = d.disk /\ e.messages = d.messages
      /\ e.text = d.text /\ e.home = d.home /\ e.live = {} /\ e.queue = 0 /\ e.astray = d.astray /\ e.run = d.run
  BY <1>6, ChatPanelIs
<1> HIDE DEF e
<1>9. W!AtHome(e, U) /\ W!Mirrored(e) /\ AllSaved(e) /\ W!Used(e) = W!Used(s)
  <2>1. W!AtHome(e, U)
    BY <1>7, <1>8, <1>6 DEF W!AtHome, W!Belongs
  <2>2. W!Mirrored(e) /\ AllSaved(e)
    BY <1>7, <1>8 DEF W!Mirrored, AllSaved, W!OnDisk
  <2>3. W!Used(e) = W!Used(d) /\ W!Used(b) = W!Used(a) /\ W!Used(a) = W!Used(s)
    BY <1>8, <1>5, <1>2 DEF W!Used, Calm
  <2> QED BY <2>1, <2>2, <2>3, <1>7
<1>10. e.home[r] = e.history.current
  BY <1>8, <1>6, <1>5, <1>2, <1>h DEF Calm
<1>11. e.astray = {} => \A q \in ChatRun \ {r} : e.run[q] \notin {"attaching", "closing"}
  BY <1>8, <1>6
<1>12. W!PanelSaved(e)
  BY <1>9 DEF W!PanelSaved, AllSaved
<1>13. LET t == W!Launch(e, r, how) IN
         /\ Fine(t) /\ t.queue = e.queue /\ t.isLoading = e.isLoading /\ t.astray = e.astray
         /\ Lists(e, t)
  BY <1>8, <1>9, <1>10, <1>11, <1>12, ChatLaunchFine
<1>14. Lists(s, e) /\ s.astray \subseteq e.astray
  BY <1>8, <1>6, <1>5, <1>2 DEF Lists, Calm
<1> QED
  BY <1>1, <1>8, <1>13, <1>14 DEF Lists

LEMMA ChatNextRunIs ==
  ASSUME NEW s, W!Used(s) # ChatRun
  PROVE  W!NextRun(s) \in ChatRun /\ s.run[W!NextRun(s)] = "free"
<1> DEFINE T == {r \in ChatRun : s.run[r] = "free"}
<1>1. T # {} /\ T \in SUBSET Nat
  BY ChatAssumption DEF W!Used
<1>2. PICK n \in T : \A m \in T : n <= m
  BY <1>1, ChatLeast
<1>3. W!Min(T) \in T
  <2> HIDE DEF T
  <2> QED BY <1>2 DEF W!Min
<1> QED
  BY <1>3 DEF W!NextRun

\* What is queued is sent, when the panel is idle.
LEMMA ChatFlushFine ==
  ASSUME NEW s, NEW how \in W!How, Fine(s), s.queue > 0 => W!Used(s) # ChatRun
  PROVE  LET t == W!Flush(s, how) IN
         /\ Fine(t) /\ Lists(s, t) /\ (t.queue > 0 => W!Used(t) # ChatRun) /\ (t.queue > 0 => t.isLoading)
         /\ s.astray \subseteq t.astray
<1>1. s \in W!PanelState /\ s.queue \in Queues /\ W!AtHome(s, W!Used(s)) /\ W!Mirrored(s)
  BY ChatPanelFields DEF Fine
<1>q. s.queue \in Nat
  BY <1>1, ChatAssumption, FS_CardinalityType DEF Queues
<1>2. CASE s.isLoading \/ s.queue = 0
  <2>1. W!Flush(s, how) = s
    BY <1>2 DEF W!Flush
  <2> QED BY <2>1, <1>2, <1>q DEF Lists
<1>3. CASE ~(s.isLoading \/ s.queue = 0)
  <2>1. W!Used(s) # ChatRun
    BY <1>3, <1>q
  <2> DEFINE r == W!NextRun(s)
  <2>2. r \in ChatRun /\ s.run[r] = "free"
    BY <2>1, ChatNextRunIs
  <2>3. W!Flush(s, how) = W!Send(s, r, how)
    BY <1>3 DEF W!Flush
  <2> HIDE DEF r
  <2> DEFINE t == W!Send(s, r, how)
  <2>4. Fine(t) /\ t.queue = 0 /\ t.isLoading = TRUE /\ Lists(s, t) /\ s.astray \subseteq t.astray
    BY <1>1, <2>2, ChatSendFine
  <2> HIDE DEF t
  <2> QED BY <2>3, <2>4 DEF t
<1> QED BY <1>2, <1>3

LEMMA ChatTitledFine ==
  ASSUME NEW s, Fine(s)
  PROVE  LET t == W!AskTitle(s) IN
         /\ Fine(t) /\ Lists(s, t) /\ W!Used(t) = W!Used(s) /\ t.queue = s.queue /\ t.isLoading = s.isLoading
         /\ t.astray = s.astray
<1>1. CASE W!AskTitle(s) = s
  BY <1>1 DEF Lists
<1>2. CASE W!AskTitle(s) # s
  <2> DEFINE x == s.titling \cup {s.history.current}
             t == [s EXCEPT !.titling = x]
  <2>0. s \in W!PanelState /\ x \in SUBSET ChatId
    BY ChatPanelFields DEF Fine
  <2>1. W!AskTitle(s) = t
    BY Zenon, <1>2 DEF W!AskTitle
  <2> HIDE DEF x
  <2>2. /\ t \in W!PanelState /\ t.history = s.history /\ t.disk = s.disk /\ t.messages = s.messages /\ t.text = s.text
        /\ t.isLoading = s.isLoading /\ t.queue = s.queue /\ t.live = s.live /\ t.listener = s.listener
        /\ t.run = s.run /\ t.home = s.home /\ t.astray = s.astray
    BY <2>0, ChatPanelIs
  <2> HIDE DEF t
  <2>3. W!AtHome(t, W!Used(t)) /\ W!Used(t) = W!Used(s)
    BY <2>2 DEF Fine, W!AtHome, W!Belongs, W!Used
  <2>4. W!Mirrored(t)
    BY <2>2 DEF Fine, W!Mirrored
  <2>5. (W!Alone(s) => W!Alone(t)) /\ (W!PanelSaved(s) => W!PanelSaved(t))
    BY <2>2 DEF W!Alone, W!PanelSaved, W!OnDisk, W!Waited
  <2> QED BY <2>1, <2>2, <2>3, <2>4, <2>5 DEF Fine, Lists
<1> QED BY <1>1, <1>2

\* An answer has come: it is saved, a title is asked for, the queue goes on.
LEMMA ChatHandleFine ==
  ASSUME NEW s \in W!PanelState, NEW r \in ChatRun, NEW how \in W!How,
         W!AtHome(s, W!Used(s)), W!Mirrored(s), r \in s.live, s.queue > 0 => W!Used(s) # ChatRun,
         s.astray = {} => W!Alone([s EXCEPT !.isLoading = FALSE]) /\ (s.text[r] = 0 => W!PanelSaved(s))
  PROVE  LET t == W!HandleResponse(s, r, how) IN
         /\ Fine(t) /\ Lists(s, t) /\ (t.queue > 0 => W!Used(t) # ChatRun) /\ (t.queue > 0 => t.isLoading)
         /\ s.astray \subseteq t.astray
<1> DEFINE idle == [s EXCEPT !.isLoading = FALSE]
<1>1. /\ idle \in W!PanelState /\ idle.history = s.history /\ idle.disk = s.disk /\ idle.messages = s.messages
      /\ idle.text = s.text /\ idle.queue = s.queue /\ idle.live = s.live
      /\ idle.run = s.run /\ idle.home = s.home /\ idle.astray = s.astray
  BY ChatPanelIs
<1> DEFINE ends == IF idle.messages # << >> THEN W!Last(idle.messages).who # "user"
                   ELSE idle.history.current \in W!Listed(idle.history)
           shown == IF ends THEN idle ELSE [idle EXCEPT !.messages = Append(@, W!Answer(r))]
<1>2. W!HandleResponse(s, r, how) = IF idle.text[r] = 0 THEN W!Flush(idle, how)
                                    ELSE W!Flush(W!AskTitle(W!SaveMessages(shown)), how)
  BY DEF W!HandleResponse
<1> HIDE DEF ends
<1>3. s.astray = {} => W!Alone(idle)
  OBVIOUS
<1> HIDE DEF idle
<1>4. W!AtHome(idle, W!Used(idle)) /\ W!Mirrored(idle) /\ W!Used(idle) = W!Used(s) /\ (W!PanelSaved(s) => W!PanelSaved(idle))
  <2>1. W!Used(idle) = W!Used(s)
    BY <1>1 DEF W!Used
  <2>2. W!AtHome(idle, W!Used(s))
    BY <1>1 DEF W!AtHome, W!Belongs
  <2>3. W!Mirrored(idle) /\ (W!PanelSaved(s) => W!PanelSaved(idle))
    BY <1>1 DEF W!Mirrored, W!PanelSaved, W!OnDisk, W!Waited
  <2> QED BY <2>1, <2>2, <2>3
<1>5. CASE idle.text[r] = 0
  <2>1. Fine(idle)
    BY <1>1, <1>3, <1>4, <1>5 DEF Fine
  <2>2. LET t == W!Flush(idle, how) IN
         /\ Fine(t) /\ Lists(idle, t) /\ (t.queue > 0 => W!Used(t) # ChatRun) /\ (t.queue > 0 => t.isLoading)
         /\ idle.astray \subseteq t.astray
    BY <2>1, <1>1, <1>4, ChatFlushFine
  <2>3. W!HandleResponse(s, r, how) = W!Flush(idle, how)
    BY <1>2, <1>5
  <2> QED BY <2>2, <2>3, <1>1 DEF Lists
<1>6. CASE idle.text[r] # 0
  <2>m. idle.messages \in Shown /\ W!Answer(r) \in W!Message /\ W!Answer(r).run = r
        /\ Append(idle.messages, W!Answer(r)) \in Shown
        /\ W!ToSet(Append(idle.messages, W!Answer(r))) = W!ToSet(idle.messages) \cup {W!Answer(r)}
    <3>1. idle.messages \in Shown /\ W!Answer(r) \in W!Message /\ W!Answer(r).run = r
      BY <1>1, ChatPanelFields, ChatMessageIs
    <3> QED BY <3>1, ChatAppendSet
  <2>1. /\ shown \in W!PanelState /\ shown.history = idle.history /\ shown.disk = idle.disk
        /\ shown.messages \in {idle.messages, Append(idle.messages, W!Answer(r))}
        /\ shown.text = idle.text /\ shown.queue = idle.queue /\ shown.live = idle.live /\ shown.listener = idle.listener
        /\ shown.run = idle.run /\ shown.home = idle.home /\ shown.astray = idle.astray
        /\ shown.isLoading = idle.isLoading
    <3>1. CASE ends
      BY <3>1, <1>1
    <3>2. CASE ~ends
      <4> DEFINE p == Append(idle.messages, W!Answer(r))
                 t == [idle EXCEPT !.messages = p]
      <4>1. shown = t
        BY <3>2
      <4>2. p \in Shown
        BY <2>m
      <4> HIDE DEF p
      <4>3. /\ t \in W!PanelState /\ t.history = idle.history /\ t.disk = idle.disk /\ t.messages = p
            /\ t.text = idle.text /\ t.queue = idle.queue /\ t.live = idle.live /\ t.listener = idle.listener
            /\ t.run = idle.run /\ t.home = idle.home /\ t.astray = idle.astray /\ t.isLoading = idle.isLoading
        BY <4>2, <1>1, ChatPanelIs
      <4> HIDE DEF t, shown
      <4> QED BY <4>1, <4>3 DEF p
    <3> QED BY <3>1, <3>2
  <2> HIDE DEF shown
  <2>2. W!AtHome(shown, W!Used(shown)) /\ W!Used(shown) = W!Used(s)
    <3>1. W!Used(shown) = W!Used(s)
      BY <2>1, <1>4 DEF W!Used
    <3>0. \A m, c : W!Belongs(idle, W!Used(s), m, c) => W!Belongs(shown, W!Used(s), m, c)
      BY <2>1 DEF W!Belongs
    <3>2. W!Belongs(shown, W!Used(s), W!Answer(r), shown.history.current)
      BY <2>1, <2>m, <1>1 DEF W!Belongs, W!AtHome
    <3>3. \A m \in W!ToSet(idle.messages) : W!Belongs(shown, W!Used(s), m, shown.history.current)
      BY <3>0, <2>1, <1>4 DEF W!AtHome
    <3>4. \A m \in W!ToSet(shown.messages) : W!Belongs(shown, W!Used(s), m, shown.history.current)
      BY <3>2, <3>3, <2>1, <2>m
    <3>5. \A c \in ChatId : \A m \in W!ToSet(shown.history.chats[c].messages) : W!Belongs(shown, W!Used(s), m, c)
      BY <3>0, <2>1, <1>4 DEF W!AtHome
    <3>6. \A q \in ChatRun : q \in shown.live \/ shown.run[q] \in {"attaching", "closing"} =>
            q \in W!Used(s) /\ (q \in shown.astray \/ shown.home[q] = shown.history.current)
      BY <2>1, <1>4 DEF W!AtHome
    <3>7. W!AtHome(shown, W!Used(s))
      BY <3>4, <3>5, <3>6 DEF W!AtHome
    <3> QED BY <3>1, <3>7
  <2>3. W!Mirrored(shown) /\ (W!Alone(idle) => W!Alone(shown))
    BY <2>1, <1>4 DEF W!Mirrored, W!Alone
  <2> DEFINE v == W!SaveMessages(shown)
  <2>4. v \in W!PanelState /\ Calm(shown, v) /\ Lists(shown, v) /\ AllSaved(v) /\ (W!Mirrored(shown) => W!Mirrored(v))
    BY <2>1, ChatSaveMessagesGives
  <2>5. W!AtHome(v, W!Used(shown))
    BY <2>1, <2>2, ChatSaveHome
  <2> HIDE DEF v
  <2>6. Fine(v) /\ W!Used(v) = W!Used(s) /\ v.queue = s.queue /\ v.astray = s.astray /\ Lists(s, v)
    <3>1. W!Used(v) = W!Used(shown) /\ (W!Alone(shown) => W!Alone(v))
      BY <2>4, ChatSaveUsed
    <3>2. W!PanelSaved(v)
      BY <2>4 DEF AllSaved, W!PanelSaved
    <3>3. v.queue = s.queue /\ v.astray = s.astray /\ Lists(s, v)
      BY <2>4, <2>1, <1>1 DEF Calm, Lists
    <3> QED BY <3>1, <3>2, <3>3, <2>2, <2>3, <2>4, <2>5, <1>3 DEF Fine
  <2> DEFINE w == W!AskTitle(v)
  <2>7. Fine(w) /\ Lists(v, w) /\ W!Used(w) = W!Used(v) /\ w.queue = v.queue /\ w.astray = v.astray
    BY <2>6, ChatTitledFine
  <2>8. W!HandleResponse(s, r, how) = W!Flush(w, how)
    BY <1>2, <1>6 DEF v
  <2> HIDE DEF w
  <2>9. LET t == W!Flush(w, how) IN
         /\ Fine(t) /\ Lists(w, t) /\ (t.queue > 0 => W!Used(t) # ChatRun) /\ (t.queue > 0 => t.isLoading)
         /\ w.astray \subseteq t.astray
    BY <2>6, <2>7, ChatFlushFine
  <2> QED BY <2>6, <2>7, <2>8, <2>9 DEF Lists
<1> QED BY <1>5, <1>6

\* The panel shows the current chat of the history, which was just written.
LEMMA ChatShowFine ==
  ASSUME NEW s \in W!PanelState, s.disk = W!Saved(s.history, s.text),
         \A c \in ChatId : \A m \in W!ToSet(s.history.chats[c].messages) : W!Belongs(s, W!Used(s), m, c),
         \A r \in ChatRun : r \in s.live \/ s.run[r] \in {"attaching", "closing"} =>
           r \in W!Used(s) /\ (r \in s.astray \/ s.home[r] = s.history.current),
         s.astray = {} => W!Alone(s)
  PROVE  LET t == W!Show(s) IN
         /\ Fine(t) /\ Lists(s, t) /\ W!Used(t) = W!Used(s) /\ t.queue = s.queue /\ t.isLoading = s.isLoading
         /\ t.astray = s.astray /\ t.live = s.live /\ t.run = s.run
<1> DEFINE x == IF s.history.current \in W!Listed(s.history)
                THEN s.history.chats[s.history.current].messages ELSE << >>
           t == [s EXCEPT !.messages = x]
<1>0. W!Show(s) = t
  BY DEF W!Show
<1>1. x \in Shown
  <2>1. s.history \in Hist /\ s.history.current \in ChatId
    BY ChatPanelFields
  <2>2. \A c \in ChatId : s.history.chats[c].messages \in Seq(W!Message)
    <3> DEFINE h == s.history
    <3>1. h \in Hist
      BY <2>1
    <3> HIDE DEF h
    <3>2. \A c \in ChatId : h.chats[c].messages \in Seq(W!Message)
      BY Zenon, <3>1, ChatHistFields
    <3> QED BY <3>2 DEF h
  <2>3. << >> \in Seq(W!Message)
    OBVIOUS
  <2> QED BY <2>1, <2>2, <2>3 DEF Shown
<1>2. \A m \in W!ToSet(x) : s.history.current \in W!Listed(s.history)
                            /\ m \in W!ToSet(s.history.chats[s.history.current].messages)
  BY DEF W!ToSet
<1> HIDE DEF x
<1>3. /\ t \in W!PanelState /\ t.history = s.history /\ t.disk = s.disk /\ t.messages = x /\ t.text = s.text
      /\ t.isLoading = s.isLoading /\ t.queue = s.queue /\ t.live = s.live /\ t.listener = s.listener
      /\ t.run = s.run /\ t.home = s.home /\ t.astray = s.astray
  BY <1>1, ChatPanelIs
<1> HIDE DEF t
<1>c. s.history.current \in ChatId
  BY ChatPanelFields
<1>4. W!Used(t) = W!Used(s)
  BY <1>3 DEF W!Used
<1>5. W!AtHome(t, W!Used(s))
  <2>0. \A m, c : W!Belongs(s, W!Used(s), m, c) => W!Belongs(t, W!Used(s), m, c)
    BY <1>3 DEF W!Belongs
  <2>1. \A c \in ChatId : \A m \in W!ToSet(t.history.chats[c].messages) : W!Belongs(t, W!Used(s), m, c)
    BY <2>0, <1>3
  <2>2. \A m \in W!ToSet(t.messages) : W!Belongs(t, W!Used(s), m, t.history.current)
    BY <2>1, <1>2, <1>3, <1>c
  <2>3. \A r \in ChatRun : r \in t.live \/ t.run[r] \in {"attaching", "closing"} =>
          r \in W!Used(s) /\ (r \in t.astray \/ t.home[r] = t.history.current)
    BY <1>3
  <2> QED BY <2>1, <2>2, <2>3 DEF W!AtHome
<1>6. W!Mirrored(t)
  BY <1>3, ChatPanelFields DEF W!Mirrored, Texts
<1>7. W!PanelSaved(t)
  <2>1. t.disk = W!Saved(t.history, t.text)
    BY <1>3
  <2>2. \A m \in W!ToSet(t.messages) : W!OnDisk(t, m)
    <3> TAKE m \in W!ToSet(t.messages)
    <3>1. m \in W!ToSet(t.history.chats[t.history.current].messages)
      BY <1>2, <1>3
    <3> QED BY <3>1, <2>1, <1>3, ChatOnDiskIs
  <2> QED BY <2>2 DEF W!PanelSaved
<1>8. W!Alone(s) => W!Alone(t)
  BY <1>3 DEF W!Alone
<1> QED
  BY <1>0, <1>3, <1>4, <1>5, <1>6, <1>7, <1>8 DEF Fine, Lists

\* Every step.
LEMMA ChatNowIs ==
  /\ W!Now.history = v1 /\ W!Now.disk = v2 /\ W!Now.messages = v3 /\ W!Now.text = v4
  /\ W!Now.isLoading = v5 /\ W!Now.queue = v6 /\ W!Now.live = v7
  /\ W!Now.listener = v8 /\ W!Now.acpListener = v9 /\ W!Now.run = v10 /\ W!Now.home = v11
  /\ W!Now.sent = v12 /\ W!Now.titling = v13 /\ W!Now.astray = v16
BY DEF W!Now

LEMMA ChatBecomesNow ==
  ASSUME NEW t \in W!PanelState, W!Becomes(t)
  PROVE  W!Now' = t
<1>1. W!Now' = [history |-> t.history, disk |-> t.disk, messages |-> t.messages, text |-> t.text,
               isLoading |-> t.isLoading, queue |-> t.queue, live |-> t.live,
               listener |-> t.listener, acpListener |-> t.acpListener, run |-> t.run,
               home |-> t.home, sent |-> t.sent, titling |-> t.titling, astray |-> t.astray]
  BY DEF W!Becomes, W!Now
<1>2. t = [history |-> t.history, disk |-> t.disk, messages |-> t.messages, text |-> t.text,
             isLoading |-> t.isLoading, queue |-> t.queue, live |-> t.live,
             listener |-> t.listener, acpListener |-> t.acpListener, run |-> t.run,
             home |-> t.home, sent |-> t.sent, titling |-> t.titling, astray |-> t.astray]
  BY ChatPanelIs
<1> QED BY <1>1, <1>2

Served(t, lost) ==
  (t.queue > 0 /\ ~lost /\ t.astray = {}) => t.isLoading \/ \E r \in t.live : t.run[r] = "answered"

LEMMA ChatCloses ==
  ASSUME NEW t, W!Becomes(t), Fine(t), t.queue > 0 => W!Used(t) # ChatRun,
         W!ToSet(t.history.recency) \subseteq v14', v14' \subseteq ChatId, v17' \in BOOLEAN,
         v15' \cup v18' \subseteq ChatId, v19' \in 0..ChatMaxOps, Served(t, v17')
  PROVE  W!IInv'
<1> DEFINE history == v1
<1>1. W!Now' = t
  BY ChatBecomesNow DEF Fine
<1>2. W!Sound(t)
  BY DEF Fine, W!Sound
<1>3. W!Sound(W!Now)'
  BY <1>1, <1>2
<1>4. W!TypeOK'
  <2>1. history' = t.history
    BY DEF W!Becomes
  <2>2. W!Now' \in W!PanelState
    BY <1>1 DEF Fine
  <2> QED BY <2>1, <2>2 DEF W!TypeOK
<1>5. W!QueueIsServed'
  BY DEF W!QueueIsServed, Served, W!Becomes
<1> QED BY <1>3, <1>4, <1>5 DEF W!IInv

LEMMA ChatBegins ==
  ASSUME W!IInv
  PROVE  /\ Fine(W!Now) /\ (v6 > 0 => W!Used(W!Now) # ChatRun) /\ W!Now \in W!PanelState
         /\ W!AtHome(W!Now, W!Used(W!Now)) /\ W!Mirrored(W!Now)
         /\ (v16 = {} => W!Alone(W!Now) /\ W!PanelSaved(W!Now)) /\ Served(W!Now, v17)
         /\ W!ToSet(v1.recency) \subseteq v14 /\ v14 \subseteq ChatId /\ v17 \in BOOLEAN
         /\ v15 \cup v18 \subseteq ChatId /\ v19 \in 0..ChatMaxOps /\ v6 \in Nat
<1> DEFINE queue == v6
           astray == v16
           stuck == v17
<1>1. W!Sound(W!Now) /\ W!TypeOK /\ W!QueueIsServed
  BY DEF W!IInv
<1>2. W!Now \in W!PanelState /\ W!AtHome(W!Now, W!Used(W!Now)) /\ W!Mirrored(W!Now)
      /\ (astray = {} => W!Alone(W!Now) /\ W!PanelSaved(W!Now)) /\ (queue > 0 => W!Used(W!Now) # ChatRun)
  BY <1>1, ChatNowIs DEF W!Sound
<1>3. Served(W!Now, stuck)
  BY <1>1, ChatNowIs DEF Served, W!QueueIsServed
<1>4. queue \in Nat
  BY <1>2, ChatNowIs, ChatPanelFields, FS_CardinalityType, ChatAssumption DEF Queues
<1> QED BY <1>1, <1>2, <1>3, <1>4, ChatNowIs DEF Fine, W!TypeOK

LEMMA ChatStepTidy ==
  ASSUME W!IInv, NEW t, W!Becomes(t), Fine(t), t.queue > 0 => W!Used(t) # ChatRun, Lists(W!Now, t),
         UNCHANGED <<v14, v15, v17, v18>>, v19' \in 0..ChatMaxOps, Served(t, v17)
  PROVE  W!IInv'
<1> DEFINE history == v1
           made == v14
           gone == v15
           stuck == v17
           hasty == v18
<1>1. /\ W!ToSet(history.recency) \subseteq made /\ made \subseteq ChatId /\ stuck \in BOOLEAN
      /\ gone \cup hasty \subseteq ChatId /\ W!Now.history = history
  BY ChatBegins, ChatNowIs
<1>2. W!ToSet(t.history.recency) \subseteq made' /\ made' \subseteq ChatId /\ stuck' \in BOOLEAN
      /\ gone' \cup hasty' \subseteq ChatId /\ stuck' = stuck
  BY <1>1 DEF Lists
<1>3. Served(t, stuck')
  BY <1>2
<1> QED BY <1>2, <1>3, ChatCloses

LEMMA ChatStepSendMessage ==
  ASSUME W!IInv, NEW how \in W!How, W!SendMessage(how)
  PROVE  W!IInv'
<1> DEFINE isLoading == v5
           queue == v6
           made == v14
           gone == v15
           stuck == v17
           hasty == v18
           ops == v19
<1>1. /\ Fine(W!Now) /\ (queue > 0 => W!Used(W!Now) # ChatRun) /\ W!Now \in W!PanelState
      /\ W!AtHome(W!Now, W!Used(W!Now)) /\ W!Mirrored(W!Now) /\ ops \in 0..ChatMaxOps /\ queue \in Nat
  BY ChatBegins
<1>2. /\ W!FreeRuns(W!Now) > queue /\ UNCHANGED <<made, gone, stuck, hasty>> /\ ops' = ops
      /\ W!Becomes(IF isLoading THEN [W!Now EXCEPT !.queue = @ + 1] ELSE W!Send(W!Now, W!NextRun(W!Now), how))
  BY DEF W!SendMessage, W!NoClick
<1> DEFINE T == {r \in ChatRun : W!Now.run[r] = "free"}
<1>3. IsFiniteSet(T) /\ Cardinality(T) <= Cardinality(ChatRun) /\ Cardinality(T) \in Nat /\ Cardinality(ChatRun) \in Nat
      /\ (Cardinality(T) = 0 <=> T = {})
  BY ChatAssumption, FS_Subset, FS_CardinalityType, FS_EmptySet
<1>4. W!Used(W!Now) # ChatRun
  <2>1. T # {}
    BY <1>1, <1>2, <1>3, ChatCounts DEF W!FreeRuns
  <2> QED BY <2>1 DEF W!Used
<1>5. CASE isLoading
  <2> DEFINE q == queue + 1
             t == [W!Now EXCEPT !.queue = q]
  <2>1. q \in Queues
    BY <1>1, <1>2, <1>3, ChatCounts DEF W!FreeRuns, Queues
  <2>2. W!Becomes(t)
    BY <1>2, <1>5, ChatNowIs
  <2> HIDE DEF q
  <2>3. /\ t \in W!PanelState /\ t.history = W!Now.history /\ t.disk = W!Now.disk /\ t.messages = W!Now.messages /\ t.text = W!Now.text
        /\ t.isLoading = W!Now.isLoading /\ t.live = W!Now.live /\ t.listener = W!Now.listener
        /\ t.run = W!Now.run /\ t.home = W!Now.home /\ t.astray = W!Now.astray
    BY <1>1, <2>1, ChatPanelIs
  <2> HIDE DEF t
  <2>4. W!Used(t) = W!Used(W!Now)
    BY <2>3 DEF W!Used
  <2>5. Fine(t)
    <3>1. W!AtHome(t, W!Used(W!Now)) /\ W!Mirrored(t)
      BY <1>1, <2>3 DEF W!AtHome, W!Belongs, W!Mirrored
    <3>2. (W!Alone(W!Now) => W!Alone(t)) /\ (W!PanelSaved(W!Now) => W!PanelSaved(t))
      BY <2>3 DEF W!Alone, W!PanelSaved, W!OnDisk, W!Waited
    <3> QED BY <3>1, <3>2, <1>1, <2>3, <2>4 DEF Fine
  <2>6. Served(t, stuck)
    BY <2>3, <1>5, ChatNowIs DEF Served
  <2>7. Lists(W!Now, t)
    BY <2>3 DEF Lists
  <2> QED BY <2>2, <2>4, <2>5, <2>6, <2>7, <1>1, <1>2, <1>4, ChatStepTidy
<1>6. CASE ~isLoading
  <2> DEFINE r == W!NextRun(W!Now)
             t == W!Send(W!Now, r, how)
  <2>1. r \in ChatRun /\ W!Now.run[r] = "free"
    BY <1>4, ChatNextRunIs
  <2>2. W!Becomes(t)
    BY <1>2, <1>6
  <2> HIDE DEF r
  <2>3. Fine(t) /\ t.queue = 0 /\ t.isLoading = TRUE /\ Lists(W!Now, t)
    BY <1>1, <2>1, ChatSendFine
  <2> HIDE DEF t
  <2>4. Served(t, stuck) /\ (t.queue > 0 => W!Used(t) # ChatRun)
    BY <2>3 DEF Served
  <2> QED BY <2>2, <2>3, <2>4, <1>1, <1>2, ChatStepTidy
<1> QED BY <1>5, <1>6

LEMMA ChatStepAttachmentsRead ==
  ASSUME W!IInv, NEW r \in ChatRun, NEW how \in W!How, W!AttachmentsRead(r, how)
  PROVE  W!IInv'
<1> DEFINE queue == v6
           run == v10
           made == v14
           gone == v15
           astray == v16
           stuck == v17
           hasty == v18
           ops == v19
<1>1. /\ Fine(W!Now) /\ (queue > 0 => W!Used(W!Now) # ChatRun) /\ W!Now \in W!PanelState
      /\ W!AtHome(W!Now, W!Used(W!Now)) /\ W!Mirrored(W!Now) /\ ops \in 0..ChatMaxOps
      /\ (astray = {} => W!Alone(W!Now) /\ W!PanelSaved(W!Now))
  BY ChatBegins
<1> DEFINE t == W!Launch(W!Now, r, how)
<1>2. run[r] = "attaching" /\ W!Becomes(t) /\ UNCHANGED <<made, gone, stuck, hasty, ops>>
  BY DEF W!AttachmentsRead
<1>3. r \in W!Used(W!Now) /\ W!Used(W!Now) \cup {r} = W!Used(W!Now)
  BY <1>2, ChatNowIs DEF W!Used
<1>4. r \in W!Now.astray \/ W!Now.home[r] = W!Now.history.current
  BY <1>1, <1>2, ChatNowIs DEF W!AtHome
<1>5. astray = {} => /\ W!Now.isLoading /\ W!Now.live = {} /\ W!PanelSaved(W!Now)
                    /\ \A q \in ChatRun \ {r} : W!Now.run[q] \notin {"attaching", "closing"}
  BY <1>1, <1>2, ChatNowIs DEF W!Alone
<1>6. W!AtHome(W!Now, W!Used(W!Now) \cup {r})
  BY <1>1, <1>3
<1>7. /\ Fine(t) /\ t.queue = W!Now.queue /\ t.isLoading = W!Now.isLoading /\ t.astray = W!Now.astray
      /\ Lists(W!Now, t) /\ W!Used(t) = W!Used(W!Now) \cup {r}
  BY <1>1, <1>4, <1>5, <1>6, ChatNowIs, ChatLaunchFine
<1> HIDE DEF t
<1>8. Served(t, stuck)
  BY <1>5, <1>7, ChatNowIs DEF Served
<1> QED
  BY <1>1, <1>2, <1>3, <1>7, <1>8, ChatNowIs, ChatStepTidy

LEMMA ChatStepRetry ==
  ASSUME W!IInv, NEW i \in Nat, NEW how \in W!How, W!Retry(i, how)
  PROVE  W!IInv'
<1> DEFINE messages == v3
           made == v14
           gone == v15
           stuck == v17
           hasty == v18
           ops == v19
<1>1. /\ W!Now \in W!PanelState /\ W!AtHome(W!Now, W!Used(W!Now)) /\ W!Mirrored(W!Now) /\ ops \in 0..ChatMaxOps
  BY ChatBegins
<1> DEFINE m == SubSeq(messages, 1, i - 1)
           a == [W!Now EXCEPT !.messages = m]
           b == W!SaveMessages(a)
           r == W!NextRun(W!Now)
           t == W!Send(b, r, how)
<1>2. /\ i \in DOMAIN messages /\ W!FreeRuns(W!Now) > 0 /\ UNCHANGED <<made, gone, stuck, hasty>>
      /\ ops' \in 0..ChatMaxOps /\ W!Becomes(t)
  <2>1. W!Now.messages = messages
    BY ChatNowIs
  <2> QED BY <2>1, <1>1, ChatAssumption DEF W!Retry, W!Click
<1>3. messages \in Shown
  BY <1>1, ChatNowIs, ChatPanelFields
<1>4. m \in Shown /\ W!ToSet(m) \subseteq W!ToSet(messages)
  <2>1. messages \in Seq(W!Message) /\ DOMAIN messages = 1..Len(messages) /\ Len(messages) \in Nat
    BY <1>3, LenProperties DEF Shown
  <2>2. m \in Seq(W!Message) /\ Len(m) = i - 1 /\ \A j \in 1..(i - 1) : m[j] = messages[j]
    BY <1>2, <2>1, SubSeqProperties
  <2>3. DOMAIN m = 1..(i - 1) /\ \A j \in 1..(i - 1) : j \in 1..Len(messages)
    BY <1>2, <2>1, <2>2, LenProperties
  <2> HIDE DEF m
  <2>4. \A j \in DOMAIN m : j \in DOMAIN messages /\ m[j] = messages[j]
    BY <2>1, <2>2, <2>3
  <2> QED BY <2>2, <2>4 DEF Shown, W!ToSet
<1> HIDE DEF m
<1>5. /\ a \in W!PanelState /\ a.history = W!Now.history /\ a.disk = W!Now.disk /\ a.messages = m /\ a.live = W!Now.live
      /\ a.run = W!Now.run /\ a.home = W!Now.home /\ a.astray = W!Now.astray
  BY <1>1, <1>4, ChatPanelIs
<1> HIDE DEF a
<1>6. W!AtHome(a, W!Used(a)) /\ W!Mirrored(a) /\ W!Used(a) = W!Used(W!Now)
  <2>1. W!Used(a) = W!Used(W!Now)
    BY <1>5 DEF W!Used
  <2>2. W!AtHome(a, W!Used(W!Now))
    BY <1>5, <1>4, <1>1, ChatNowIs DEF W!AtHome, W!Belongs
  <2> QED BY <2>1, <2>2, <1>1, <1>5 DEF W!Mirrored
<1>7. b \in W!PanelState /\ Calm(a, b) /\ Lists(a, b) /\ W!Mirrored(b) /\ W!AtHome(b, W!Used(a))
  <2>1. b \in W!PanelState /\ Calm(a, b) /\ Lists(a, b) /\ (W!Mirrored(a) => W!Mirrored(b))
    BY <1>5, ChatSaveMessagesGives
  <2>2. W!AtHome(b, W!Used(a))
    BY <1>5, <1>6, ChatSaveHome
  <2> QED BY <2>1, <2>2, <1>6
<1> HIDE DEF b
<1>8. W!Used(b) = W!Used(a) /\ b.run = a.run
  BY <1>7 DEF W!Used, Calm
<1>9. W!Used(W!Now) # ChatRun
  <2> DEFINE T == {q \in ChatRun : W!Now.run[q] = "free"}
  <2>1. IsFiniteSet(T) /\ (Cardinality(T) = 0 <=> T = {})
    BY ChatAssumption, FS_Subset, FS_EmptySet
  <2>2. T # {}
    BY <1>2, <2>1, ChatCounts DEF W!FreeRuns
  <2> QED BY <2>2 DEF W!Used
<1>10. r \in ChatRun /\ W!Now.run[r] = "free"
  BY <1>9, ChatNextRunIs
<1>11. b.run[r] = "free"
  BY <1>10, <1>8, <1>5
<1> HIDE DEF r
<1>12. Fine(t) /\ t.queue = 0 /\ t.isLoading = TRUE /\ Lists(b, t)
  BY <1>7, <1>8, <1>10, <1>11, ChatSendFine
<1> HIDE DEF t
<1>13. Served(t, stuck) /\ (t.queue > 0 => W!Used(t) # ChatRun) /\ Lists(W!Now, t)
  BY <1>12, <1>7, <1>5 DEF Served, Lists
<1> QED BY <1>2, <1>12, <1>13, ChatStepTidy

LEMMA ChatStepStaleClosed ==
  ASSUME W!IInv, NEW r \in ChatRun, W!StaleClosed(r)
  PROVE  W!IInv'
<1> DEFINE history == v1
           disk == v2
           messages == v3
           text == v4
           isLoading == v5
           queue == v6
           live == v7
           listener == v8
           run == v10
           home == v11
           made == v14
           gone == v15
           astray == v16
           stuck == v17
           hasty == v18
           ops == v19
<1>1. /\ Fine(W!Now) /\ (queue > 0 => W!Used(W!Now) # ChatRun) /\ W!Now \in W!PanelState
      /\ W!AtHome(W!Now, W!Used(W!Now)) /\ W!Mirrored(W!Now) /\ ops \in 0..ChatMaxOps
      /\ (astray = {} => W!Alone(W!Now) /\ W!PanelSaved(W!Now))
  BY ChatBegins
<1> DEFINE f == [run EXCEPT ![r] = "acp"]
           p == Append(messages, W!Answer(r))
           t == [W!Now EXCEPT !.messages = p, !.acpListener = r, !.run = f]
<1>2. run[r] = "closing" /\ W!Becomes(t) /\ UNCHANGED <<made, gone, stuck, hasty, ops>>
  BY ChatNowIs DEF W!StaleClosed, W!OpenAcp
<1>m. /\ messages \in Shown /\ W!Answer(r) \in W!Message /\ W!Answer(r).run = r /\ W!Answer(r).who = "ai"
      /\ p \in Shown /\ W!ToSet(p) = W!ToSet(messages) \cup {W!Answer(r)} /\ run \in Stages /\ r \in RunOrNone
  <2>1. messages \in Shown /\ W!Answer(r) \in W!Message /\ W!Answer(r).run = r /\ W!Answer(r).who = "ai" /\ run \in Stages
    BY <1>1, ChatNowIs, ChatPanelFields, ChatMessageIs
  <2> QED BY <2>1, ChatAppendSet DEF RunOrNone
<1>f. f \in Stages /\ f[r] = "acp" /\ \A q \in ChatRun \ {r} : f[q] = run[q]
  BY <1>m DEF Stages, W!Stage
<1> HIDE DEF f, p
<1>3. /\ t \in W!PanelState /\ t.history = history /\ t.disk = disk /\ t.messages = p /\ t.text = text
      /\ t.isLoading = isLoading /\ t.queue = queue /\ t.live = live /\ t.listener = listener
      /\ t.run = f /\ t.home = home /\ t.astray = astray
  BY <1>1, <1>m, <1>f, ChatNowIs, ChatPanelIs
<1> HIDE DEF t
<1>4. W!Used(t) = W!Used(W!Now) /\ r \in W!Used(W!Now)
  BY <1>2, <1>3, <1>f, ChatNowIs DEF W!Used
<1>5. W!AtHome(t, W!Used(W!Now)) /\ W!Mirrored(t)
  <2>0. \A m, c : W!Belongs(W!Now, W!Used(W!Now), m, c) => W!Belongs(t, W!Used(W!Now), m, c)
    BY <1>3, ChatNowIs DEF W!Belongs
  <2>1. \A c \in ChatId : \A m \in W!ToSet(t.history.chats[c].messages) : W!Belongs(t, W!Used(W!Now), m, c)
    BY <1>1, <1>3, <2>0, ChatNowIs DEF W!AtHome
  <2>2. W!Belongs(t, W!Used(W!Now), W!Answer(r), history.current)
    BY <1>1, <1>2, <1>3, <1>4, <1>m, ChatNowIs DEF W!Belongs, W!AtHome
  <2>3. \A m \in W!ToSet(t.messages) : W!Belongs(t, W!Used(W!Now), m, t.history.current)
    BY <1>1, <1>3, <1>m, <2>0, <2>2, ChatNowIs DEF W!AtHome
  <2>4. \A q \in ChatRun : q \in t.live \/ t.run[q] \in {"attaching", "closing"} =>
          q \in W!Used(W!Now) /\ (q \in t.astray \/ t.home[q] = t.history.current)
    <3> TAKE q \in ChatRun
    <3>1. t.run[q] \in {"attaching", "closing"} => run[q] \in {"attaching", "closing"}
      BY <1>3, <1>f
    <3> QED BY <3>1, <1>1, <1>3, ChatNowIs DEF W!AtHome
  <2> QED BY <2>1, <2>3, <2>4, <1>1, <1>3, ChatNowIs DEF W!AtHome, W!Mirrored
<1>6. ASSUME astray = {} PROVE isLoading /\ W!Alone(t) /\ W!PanelSaved(t)
  <2>1. r \in live /\ isLoading /\ W!Alone(W!Now) /\ W!PanelSaved(W!Now)
    BY <1>1, <1>2, <1>6, ChatNowIs DEF W!Alone, W!Asking
  <2>2. W!Alone(t)
    <3>1. \A q, z \in t.live : q = z
      BY <2>1, <1>3, ChatNowIs DEF W!Alone
    <3>2. \A q \in t.live : q = r
      BY <3>1, <2>1, <1>3
    <3>3. \A q \in ChatRun : t.run[q] # "attaching" /\ (t.run[q] = "closing" => q \in t.live)
      BY <2>1, <1>3, <1>f, ChatNowIs DEF W!Alone
    <3> QED BY <3>1, <3>2, <3>3, <2>1, <1>3, <1>f DEF W!Alone
  <2>3. \A m \in W!ToSet(messages) : W!OnDisk(W!Now, m) \/ W!Waited(W!Now, m) => W!OnDisk(t, m) \/ W!Waited(t, m)
    <3> TAKE m \in W!ToSet(messages)
    <3>1. W!OnDisk(W!Now, m) => W!OnDisk(t, m)
      BY <1>3, ChatNowIs DEF W!OnDisk
    <3>2. W!Waited(W!Now, m) => W!Waited(t, m)
      <4>1. \A q \in live : run[q] = "closing"
        BY <2>1, <1>2, ChatNowIs DEF W!Alone
      <4> QED BY <4>1, <1>3, ChatNowIs DEF W!Waited
    <3> QED BY <3>1, <3>2
  <2>4. W!Waited(t, W!Answer(r))
    BY <2>1, <1>3, <1>f, <1>m DEF W!Waited
  <2> QED BY <2>1, <2>2, <2>3, <2>4, <1>3, <1>m, ChatNowIs DEF W!PanelSaved
<1>7. Fine(t) /\ Served(t, stuck) /\ Lists(W!Now, t)
  BY <1>3, <1>4, <1>5, <1>6, ChatNowIs DEF Fine, Served, Lists
<1> QED BY <1>1, <1>2, <1>3, <1>4, <1>7, ChatStepTidy

\* What arrives.
LEMMA ChatHomeStays ==
  ASSUME NEW U, NEW s, NEW t, W!AtHome(s, U), t.history = s.history, t.home = s.home,
         s.astray \subseteq t.astray, W!ToSet(t.messages) \subseteq W!ToSet(s.messages),
         \A r \in ChatRun : r \in t.live \/ t.run[r] \in {"attaching", "closing"} =>
                            r \in s.live \/ s.run[r] \in {"attaching", "closing"}
  PROVE  W!AtHome(t, U)
<1>0. \A m, c : W!Belongs(s, U, m, c) => W!Belongs(t, U, m, c)
  BY DEF W!Belongs
<1>1. \A c \in ChatId : \A m \in W!ToSet(t.history.chats[c].messages) : W!Belongs(t, U, m, c)
  BY <1>0 DEF W!AtHome
<1>2. \A m \in W!ToSet(t.messages) : W!Belongs(t, U, m, t.history.current)
  BY <1>0 DEF W!AtHome
<1>3. \A r \in ChatRun : r \in t.live \/ t.run[r] \in {"attaching", "closing"} =>
        r \in U /\ (r \in t.astray \/ t.home[r] = t.history.current)
  BY DEF W!AtHome
<1> QED BY <1>1, <1>2, <1>3 DEF W!AtHome

LEMMA ChatAloneOver ==
  ASSUME NEW s, NEW u, NEW r \in ChatRun, W!Alone(s), r \in s.live, u.live = s.live, s.live \subseteq ChatRun,
         u.run[r] \in {"ended", "over", "answered"}, \A q \in ChatRun \ {r} : u.run[q] = s.run[q]
  PROVE  W!Alone(u)
<1>1. \A q \in s.live : q = r
  BY DEF W!Alone
<1>2. \A q \in ChatRun : u.run[q] \notin {"attaching", "closing"}
  BY <1>1 DEF W!Alone
<1>3. \A q, z \in u.live : q = z
  BY <1>1
<1> QED BY <1>1, <1>2, <1>3 DEF W!Alone, W!Asking

LEMMA ChatStageMoves ==
  ASSUME NEW f \in Stages, NEW r \in ChatRun, NEW x \in W!Stage
  PROVE  /\ [f EXCEPT ![r] = x] \in Stages /\ [f EXCEPT ![r] = x][r] = x
         /\ \A q \in ChatRun \ {r} : [f EXCEPT ![r] = x][q] = f[q]
BY DEF Stages

LEMMA ChatTextMoves ==
  ASSUME NEW f \in Texts, NEW r \in ChatRun, NEW n \in 0..ChatMaxText
  PROVE  /\ [f EXCEPT ![r] = n] \in Texts /\ [f EXCEPT ![r] = n][r] = n
         /\ \A q \in ChatRun \ {r} : [f EXCEPT ![r] = n][q] = f[q]
BY DEF Texts

\* A message is on disk still when the text of another run changed.
LEMMA ChatOthersOnDisk ==
  ASSUME NEW s, NEW t, NEW m, W!OnDisk(s, m), t.disk = s.disk,
         m.who = "ai" => t.text[m.run] = s.text[m.run]
  PROVE  W!OnDisk(t, m)
BY DEF W!OnDisk, W!TextOf

\* A request moves on, and the panel does not listen to it.
LEMMA ChatMovesOn ==
  ASSUME W!IInv, NEW r \in ChatRun, NEW x \in {"ended", "over", "answered"}, v10[r] # "free",
         v16 = {} /\ r \in v7 /\ v10[r] \in {"stream", "acp", "answered"} => x = "answered",
         r \in v7 /\ v10[r] = "answered" => x = "answered",
         W!Becomes([W!Now EXCEPT !.run[r] = x]), UNCHANGED <<v14, v15, v17, v18, v19>>
  PROVE  W!IInv'
<1> DEFINE history == v1
           disk == v2
           messages == v3
           text == v4
           isLoading == v5
           queue == v6
           live == v7
           listener == v8
           run == v10
           home == v11
           astray == v16
           stuck == v17
           ops == v19
<1>1. /\ Fine(W!Now) /\ (queue > 0 => W!Used(W!Now) # ChatRun) /\ W!Now \in W!PanelState
      /\ W!AtHome(W!Now, W!Used(W!Now)) /\ W!Mirrored(W!Now) /\ ops \in 0..ChatMaxOps /\ Served(W!Now, stuck)
      /\ (astray = {} => W!Alone(W!Now) /\ W!PanelSaved(W!Now))
  BY ChatBegins
<1> DEFINE f == [run EXCEPT ![r] = x]
           t == [W!Now EXCEPT !.run = f]
<1>2. W!Becomes(t)
  BY ChatNowIs
<1>f. f \in Stages /\ f[r] = x /\ \A q \in ChatRun \ {r} : f[q] = run[q]
  <2>1. run \in Stages /\ x \in W!Stage
    BY <1>1, ChatNowIs, ChatPanelFields DEF W!Stage
  <2> QED BY <2>1, ChatStageMoves
<1> HIDE DEF f
<1>3. /\ t \in W!PanelState /\ t.history = history /\ t.disk = disk /\ t.messages = messages /\ t.text = text
      /\ t.isLoading = isLoading /\ t.queue = queue /\ t.live = live /\ t.listener = listener
      /\ t.run = f /\ t.home = home /\ t.astray = astray
  BY <1>1, <1>f, ChatNowIs, ChatPanelIs
<1> HIDE DEF t
<1>4. W!Used(t) = W!Used(W!Now)
  BY <1>3, <1>f, ChatNowIs DEF W!Used
<1>5. W!AtHome(t, W!Used(t))
  <2>1. \A q \in ChatRun : q \in t.live \/ t.run[q] \in {"attaching", "closing"} =>
                            q \in W!Now.live \/ W!Now.run[q] \in {"attaching", "closing"}
    BY <1>3, <1>f, ChatNowIs
  <2>2. t.history = W!Now.history /\ t.home = W!Now.home /\ W!Now.astray \subseteq t.astray /\ W!ToSet(t.messages) \subseteq W!ToSet(W!Now.messages)
    BY <1>3, ChatNowIs
  <2> QED BY <2>1, <2>2, <1>1, <1>4, ChatHomeStays
<1>6. W!Mirrored(t)
  BY <1>1, <1>3, ChatNowIs DEF W!Mirrored
<1>7. ASSUME astray = {} PROVE W!Alone(t) /\ W!PanelSaved(t)
  <2>0. W!Alone(W!Now) /\ W!PanelSaved(W!Now)
    BY <1>1, <1>7
  <2>1. W!Alone(t)
    <3>0. live \subseteq ChatRun
      BY <1>1, ChatNowIs, ChatPanelFields
    <3>1. \A q, z \in t.live : q = z
      BY <2>0, <1>3, ChatNowIs DEF W!Alone
    <3>2. \A q \in t.live : /\ t.run[q] # "cut" /\ (t.run[q] \in W!Asking => t.isLoading)
                            /\ (t.run[q] = "stream" => t.listener = q)
      <4> TAKE q \in t.live
      <4>1. CASE q = r
        BY <4>1, <1>3, <1>f DEF W!Asking
      <4>2. CASE q # r
        BY <4>2, <3>0, <2>0, <1>3, <1>f, ChatNowIs DEF W!Alone
      <4> QED BY <4>1, <4>2
    <3>3. \A q \in ChatRun : t.run[q] \in {"closing", "attaching"} => q # r /\ run[q] = t.run[q]
      BY <1>3, <1>f
    <3>4. \A q \in ChatRun : t.run[q] = "closing" => q \in t.live
      BY <3>3, <2>0, <1>3, ChatNowIs DEF W!Alone
    <3>5. \A q \in ChatRun : t.run[q] = "attaching" =>
            /\ t.isLoading /\ t.live = {}
            /\ \A z \in ChatRun : t.run[z] = "attaching" => z = q
      BY <3>3, <2>0, <1>3, ChatNowIs DEF W!Alone
    <3> QED BY <3>1, <3>2, <3>4, <3>5 DEF W!Alone
  <2>2. \A m : W!OnDisk(W!Now, m) => W!OnDisk(t, m)
    BY <1>3, ChatNowIs DEF W!OnDisk
  <2>3. \A q \in ChatRun : q \in live /\ run[q] \in {"stream", "acp", "answered"} =>
                           t.run[q] \in {"stream", "acp", "answered"}
    BY <1>3, <1>f, <1>7
  <2>4. \A m \in W!ToSet(messages) : W!Waited(W!Now, m) => W!Waited(t, m)
    <3>1. \A m \in W!ToSet(messages) : m.run \in ChatRun
      <4>1. W!ToSet(messages) \subseteq W!Message
        BY <1>1, ChatNowIs, ChatPanelFields, ChatInSeq DEF Shown
      <4> QED BY <4>1 DEF W!Message
    <3> QED BY <3>1, <2>3, <1>3, ChatNowIs DEF W!Waited
  <2> QED BY <2>0, <2>1, <2>2, <2>4, <1>3, ChatNowIs DEF W!PanelSaved
<1>8. Fine(t) /\ Lists(W!Now, t)
  BY <1>3, <1>4, <1>5, <1>6, <1>7, ChatNowIs DEF Fine, Lists
<1>9. Served(t, stuck)
  <2>1. \A q \in live : run[q] = "answered" => t.run[q] = "answered"
    <3>1. live \subseteq ChatRun
      BY <1>1, ChatNowIs, ChatPanelFields
    <3> QED BY <3>1, <1>3, <1>f
  <2> QED BY <2>1, <1>1, <1>3, ChatNowIs DEF Served
<1> QED BY <1>1, <1>2, <1>3, <1>4, <1>8, <1>9, ChatStepTidy

LEMMA ChatMixedGives ==
  ASSUME NEW r \in ChatRun, NEW l, W!Now \in W!PanelState
  PROVE  \E x \in SUBSET ChatRun : /\ W!Mixed(r, l) = [W!Now EXCEPT !.astray = x] /\ v16 \subseteq x
                                   /\ (x = {} => l = r /\ v16 = {})
<1> DEFINE astray == v16
<1> DEFINE x == IF l = r THEN astray ELSE astray \cup {r}
<1>1. astray \in SUBSET ChatRun
  BY ChatNowIs, ChatPanelFields
<1>2. x \in SUBSET ChatRun /\ astray \subseteq x /\ (x = {} => l = r /\ astray = {})
  BY <1>1
<1>3. W!Mixed(r, l) = [W!Now EXCEPT !.astray = x]
  BY ChatNowIs DEF W!Mixed
<1> QED BY <1>2, <1>3

\* A chunk came, for l: of r, or of another that is astray then.
LEMMA ChatChunkComes ==
  ASSUME W!IInv, NEW r \in ChatRun, NEW l \in v7, v4[l] < ChatMaxText,
         v10[r] \in {"stream", "cut", "acp"},
         W!Becomes([W!Mixed(r, l) EXCEPT !.text[l] = @ + 1]),
         UNCHANGED <<v14, v15, v17, v18, v19>>
  PROVE  W!IInv'
<1> DEFINE history == v1
           disk == v2
           messages == v3
           text == v4
           isLoading == v5
           queue == v6
           live == v7
           listener == v8
           run == v10
           home == v11
           astray == v16
           stuck == v17
           ops == v19
<1>1. /\ Fine(W!Now) /\ (queue > 0 => W!Used(W!Now) # ChatRun) /\ W!Now \in W!PanelState
      /\ W!AtHome(W!Now, W!Used(W!Now)) /\ W!Mirrored(W!Now) /\ ops \in 0..ChatMaxOps /\ Served(W!Now, stuck)
      /\ (astray = {} => W!Alone(W!Now) /\ W!PanelSaved(W!Now))
  BY ChatBegins
<1>2. PICK x \in SUBSET ChatRun : /\ W!Mixed(r, l) = [W!Now EXCEPT !.astray = x] /\ astray \subseteq x
                                  /\ (x = {} => l = r /\ astray = {})
  BY <1>1, ChatMixedGives
<1>l. l \in ChatRun /\ text \in Texts /\ text[l] \in 0..ChatMaxText /\ text[l] + 1 \in 0..ChatMaxText
  <2>1. l \in ChatRun /\ text \in Texts
    BY <1>1, ChatNowIs, ChatPanelFields
  <2>2. text[l] \in 0..ChatMaxText
    BY <2>1 DEF Texts
  <2> QED BY <2>1, <2>2, ChatAssumption
<1> DEFINE f == [text EXCEPT ![l] = text[l] + 1]
           t == [W!Now EXCEPT !.astray = x, !.text = f]
<1>f. f \in Texts /\ \A q \in ChatRun \ {l} : f[q] = text[q]
  BY <1>l, ChatTextMoves
<1>3. W!Becomes(t)
  <2> DEFINE z == [W!Now EXCEPT !.astray = x]
  <2>1. z.text = text
    BY <1>1, <1>2, ChatNowIs, ChatPanelIs
  <2>2. W!Becomes([z EXCEPT !.text[l] = @ + 1])
    BY <1>2
  <2>3. [z EXCEPT !.text[l] = @ + 1] = [z EXCEPT !.text = f]
    BY <2>1
  <2>4. [z EXCEPT !.text = f] = t
    OBVIOUS
  <2> QED BY <2>2, <2>3, <2>4
<1> HIDE DEF f
<1>4. /\ t \in W!PanelState /\ t.history = history /\ t.disk = disk /\ t.messages = messages /\ t.text = f
      /\ t.isLoading = isLoading /\ t.queue = queue /\ t.live = live /\ t.listener = listener
      /\ t.run = run /\ t.home = home /\ t.astray = x
  BY <1>1, <1>2, <1>f, ChatNowIs, ChatPanelIs
<1> HIDE DEF t
<1>5. W!Used(t) = W!Used(W!Now)
  BY <1>4, ChatNowIs DEF W!Used
<1>6. W!AtHome(t, W!Used(t)) /\ W!Mirrored(t)
  <2>1. t.history = W!Now.history /\ t.home = W!Now.home /\ W!Now.astray \subseteq t.astray /\ W!ToSet(t.messages) \subseteq W!ToSet(W!Now.messages)
        /\ \A q \in ChatRun : q \in t.live \/ t.run[q] \in {"attaching", "closing"} =>
                              q \in W!Now.live \/ W!Now.run[q] \in {"attaching", "closing"}
    BY <1>2, <1>4, ChatNowIs
  <2>2. W!AtHome(t, W!Used(t))
    BY <2>1, <1>1, <1>5, ChatHomeStays
  <2> QED BY <2>2, <1>1, <1>4, ChatNowIs DEF W!Mirrored
<1>7. ASSUME x = {} PROVE W!Alone(t) /\ W!PanelSaved(t)
  <2>0. W!Alone(W!Now) /\ W!PanelSaved(W!Now) /\ l = r /\ run[r] \in {"stream", "acp"}
    <3>1. W!Alone(W!Now) /\ W!PanelSaved(W!Now) /\ l = r
      BY <1>1, <1>2, <1>7
    <3> QED BY <3>1, ChatNowIs DEF W!Alone
  <2>1. W!Alone(t)
    BY <2>0, <1>4, ChatNowIs DEF W!Alone
  <2>m. W!ToSet(messages) \subseteq W!Message /\ \A m \in W!Message : m.run \in ChatRun
    <3>1. W!ToSet(messages) \subseteq W!Message
      BY <1>1, ChatNowIs, ChatPanelFields, ChatInSeq DEF Shown
    <3> QED BY <3>1 DEF W!Message
  <2>2. \A m \in W!ToSet(messages) : W!OnDisk(W!Now, m) \/ W!Waited(W!Now, m) => W!OnDisk(t, m) \/ W!Waited(t, m)
    <3> TAKE m \in W!ToSet(messages)
    <3>1. CASE m.who = "ai" /\ m.run = r
      <4>1. W!Waited(t, m)
        BY <3>1, <2>0, <1>4 DEF W!Waited
      <4> QED BY <4>1
    <3>2. CASE ~(m.who = "ai" /\ m.run = r)
      <4>1. m.who = "ai" => t.text[m.run] = W!Now.text[m.run]
        BY <3>2, <2>0, <2>m, <1>4, <1>f, ChatNowIs
      <4>2. W!OnDisk(W!Now, m) => W!OnDisk(t, m)
        BY <4>1, <1>4, ChatNowIs, ChatOthersOnDisk
      <4>3. W!Waited(W!Now, m) => W!Waited(t, m)
        BY <4>1, <1>4, ChatNowIs DEF W!Waited
      <4> QED BY <4>2, <4>3
    <3> QED BY <3>1, <3>2
  <2> QED BY <2>0, <2>1, <2>2, <1>4, ChatNowIs DEF W!PanelSaved
<1>8. Fine(t) /\ Lists(W!Now, t) /\ Served(t, stuck)
  <2>1. Served(t, stuck)
    BY <1>1, <1>2, <1>4, ChatNowIs DEF Served
  <2> QED BY <2>1, <1>4, <1>5, <1>6, <1>7, ChatNowIs DEF Fine, Lists
<1> QED BY <1>1, <1>3, <1>4, <1>5, <1>8, ChatStepTidy

LEMMA ChatStepWebChunk ==
  ASSUME W!IInv, NEW r \in ChatRun, W!WebChunk(r)
  PROVE  W!IInv'
BY ChatChunkComes DEF W!WebChunk, W!Emits

LEMMA ChatStepAcpChunk ==
  ASSUME W!IInv, NEW r \in ChatRun, W!AcpChunk(r)
  PROVE  W!IInv'
BY ChatChunkComes DEF W!AcpChunk

LEMMA ChatWriteFine ==
  ASSUME NEW s, NEW h \in Hist, Fine(s), Keeps(s.history, h), h.current = s.history.current,
         W!ToSet(h.recency) \subseteq W!ToSet(s.history.recency)
  PROVE  LET t == W!Write(s, h) IN
         Fine(t) /\ Lists(s, t) /\ W!Used(t) = W!Used(s) /\ Calm(s, t)
<1> DEFINE t == W!Write(s, h)
<1>0. s \in W!PanelState /\ W!AtHome(s, W!Used(s)) /\ W!Mirrored(s) /\ (s.astray = {} => W!Alone(s) /\ W!PanelSaved(s))
      /\ s.history.current \in ChatId
  <2>1. s \in W!PanelState
    BY DEF Fine
  <2>2. s.history.current \in ChatId
    BY <2>1, ChatPanelFields
  <2> QED BY <2>1, <2>2 DEF Fine
<1>1. /\ t \in W!PanelState /\ Calm(s, t) /\ t.messages = s.messages /\ t.history = h /\ t.disk = W!Saved(h, s.text)
  BY <1>0, ChatWriteGives
<1> HIDE DEF t
<1>2. W!Used(t) = W!Used(s) /\ (W!Alone(s) => W!Alone(t))
  BY <1>1, ChatSaveUsed
<1>3. W!AtHome(t, W!Used(s))
  <2>0. \A m, c : W!Belongs(s, W!Used(s), m, c) => W!Belongs(t, W!Used(s), m, c)
    BY <1>1 DEF W!Belongs, Calm
  <2>1. \A c \in ChatId : \A m \in W!ToSet(t.history.chats[c].messages) : W!Belongs(t, W!Used(s), m, c)
    BY <2>0, <1>0, <1>1 DEF W!AtHome, Keeps
  <2>2. \A m \in W!ToSet(t.messages) : W!Belongs(t, W!Used(s), m, t.history.current)
    BY <2>0, <1>0, <1>1 DEF W!AtHome
  <2>3. \A r \in ChatRun : r \in t.live \/ t.run[r] \in {"attaching", "closing"} =>
          r \in W!Used(s) /\ (r \in t.astray \/ t.home[r] = t.history.current)
    BY <1>0, <1>1 DEF W!AtHome, Calm
  <2> QED BY <2>1, <2>2, <2>3 DEF W!AtHome
<1>4. t.disk = W!Saved(t.history, t.text)
  BY <1>1 DEF Calm
<1>5. W!Mirrored(t)
  BY <1>4, <1>1, ChatPanelFields DEF W!Mirrored, Texts
<1>6. W!PanelSaved(s) => W!PanelSaved(t)
  <2>1. ASSUME NEW m, W!OnDisk(s, m) PROVE W!OnDisk(t, m)
    <3>1. m \in W!ToSet(s.history.chats[s.history.current].messages)
      BY <2>1, <1>0, ChatOnDiskWas
    <3>2. m \in W!ToSet(t.history.chats[t.history.current].messages)
      BY <3>1, <1>0, <1>1 DEF Keeps
    <3> QED BY <3>2, <1>1, <1>4, ChatOnDiskIs
  <2>2. \A m : W!Waited(s, m) => W!Waited(t, m)
    BY <1>1 DEF W!Waited, Calm
  <2>3. t.history.current \in W!Listed(t.history) => s.history.current \in W!Listed(s.history)
    BY <1>1 DEF W!Listed
  <2> QED BY <2>1, <2>2, <2>3, <1>1 DEF W!PanelSaved
<1>7. Lists(s, t) /\ t.astray = s.astray
  BY <1>1 DEF Lists, Calm
<1> QED BY <1>0, <1>1, <1>2, <1>3, <1>5, <1>6, <1>7 DEF Fine, t

LEMMA ChatStepWebUsage ==
  ASSUME W!IInv, NEW r \in ChatRun, W!WebUsage(r)
  PROVE  W!IInv'
<1> DEFINE history == v1
           queue == v6
           made == v14
           gone == v15
           stuck == v17
           hasty == v18
           ops == v19
<1>1. /\ Fine(W!Now) /\ (queue > 0 => W!Used(W!Now) # ChatRun) /\ W!Now \in W!PanelState /\ ops \in 0..ChatMaxOps /\ Served(W!Now, stuck)
  BY ChatBegins
<1> DEFINE h == W!Touch(history, history.current)
           t == W!Write(W!Now, h)
<1>2. /\ W!Becomes(t) /\ UNCHANGED <<made, gone, stuck, hasty, ops>> /\ history.current \in W!Listed(history)
  BY ChatNowIs DEF W!WebUsage, W!AddTokens
<1>3. history \in Hist /\ history.current \in ChatId
  BY <1>1, ChatNowIs, ChatPanelFields
<1>4. h \in Hist /\ h.chats = history.chats /\ h.current = history.current
      /\ W!ToSet(h.recency) = {history.current} \cup W!ToSet(history.recency)
  BY <1>3, ChatTouchGives
<1> HIDE DEF h
<1>5. Keeps(W!Now.history, h) /\ h.current = W!Now.history.current /\ W!ToSet(h.recency) \subseteq W!ToSet(W!Now.history.recency)
  BY <1>2, <1>4, ChatNowIs DEF Keeps, W!Listed
<1>6. Fine(t) /\ Lists(W!Now, t) /\ W!Used(t) = W!Used(W!Now) /\ Calm(W!Now, t)
  BY <1>1, <1>4, <1>5, ChatWriteFine
<1> HIDE DEF t
<1>7. Served(t, stuck) /\ t.queue = queue
  BY <1>1, <1>6, ChatNowIs DEF Served, Calm
<1> QED BY <1>1, <1>2, <1>6, <1>7, ChatStepTidy

LEMMA ChatStepTitleSettles ==
  ASSUME W!IInv, NEW c \in ChatId, NEW comes \in BOOLEAN, W!TitleSettles(c, comes)
  PROVE  W!IInv'
<1> DEFINE history == v1
           queue == v6
           titling == v13
           made == v14
           gone == v15
           stuck == v17
           hasty == v18
           ops == v19
<1>1. /\ Fine(W!Now) /\ (queue > 0 => W!Used(W!Now) # ChatRun) /\ W!Now \in W!PanelState /\ ops \in 0..ChatMaxOps /\ Served(W!Now, stuck)
  BY ChatBegins
<1> DEFINE x == titling \ {c}
           s == [W!Now EXCEPT !.titling = x]
           h == W!Rename(history, c, "title")
<1>2. /\ W!Becomes(IF comes /\ c \in W!Listed(history) THEN W!Write(s, h) ELSE s)
      /\ UNCHANGED <<made, gone, stuck, hasty, ops>>
  BY ChatNowIs DEF W!TitleSettles
<1>3. x \in SUBSET ChatId
  BY <1>1, ChatNowIs, ChatPanelFields
<1> HIDE DEF x
<1>4. /\ s \in W!PanelState /\ s.history = W!Now.history /\ s.disk = W!Now.disk /\ s.messages = W!Now.messages /\ s.text = W!Now.text
      /\ s.isLoading = W!Now.isLoading /\ s.queue = W!Now.queue /\ s.live = W!Now.live /\ s.listener = W!Now.listener
      /\ s.run = W!Now.run /\ s.home = W!Now.home /\ s.astray = W!Now.astray
  BY <1>1, <1>3, ChatPanelIs
<1> HIDE DEF s
<1>5. Fine(s) /\ W!Used(s) = W!Used(W!Now) /\ Lists(W!Now, s)
  <2>1. W!Used(s) = W!Used(W!Now)
    BY <1>4 DEF W!Used
  <2>2. W!AtHome(s, W!Used(s)) /\ W!Mirrored(s)
    BY <1>1, <1>4, <2>1 DEF Fine, W!AtHome, W!Belongs, W!Mirrored
  <2>3. (W!Alone(W!Now) => W!Alone(s)) /\ (W!PanelSaved(W!Now) => W!PanelSaved(s))
    BY <1>4 DEF W!Alone, W!PanelSaved, W!OnDisk, W!Waited
  <2> QED BY <2>1, <2>2, <2>3, <1>1, <1>4 DEF Fine, Lists
<1>6. CASE comes /\ c \in W!Listed(history)
  <2>1. history \in Hist
    BY <1>1, ChatNowIs, ChatPanelFields
  <2>2. h \in Hist /\ h.current = history.current /\ W!ToSet(h.recency) = W!ToSet(history.recency) /\ Keeps(history, h)
    BY <2>1, <1>6, ChatRenameGives
  <2> HIDE DEF h
  <2> DEFINE t == W!Write(s, h)
  <2>3. Fine(t) /\ Lists(s, t) /\ W!Used(t) = W!Used(s) /\ Calm(s, t)
    <3>1. Keeps(s.history, h) /\ h.current = s.history.current /\ W!ToSet(h.recency) \subseteq W!ToSet(s.history.recency)
      BY <2>2, <1>4, ChatNowIs
    <3> QED BY <3>1, <2>2, <1>5, ChatWriteFine
  <2>4. W!Becomes(t)
    BY <1>2, <1>6
  <2> HIDE DEF t
  <2>5. Served(t, stuck) /\ t.queue = queue /\ Lists(W!Now, t)
    BY <1>1, <1>4, <1>5, <2>3, ChatNowIs DEF Served, Calm, Lists
  <2> QED BY <1>1, <1>2, <1>5, <2>3, <2>4, <2>5, ChatStepTidy
<1>7. CASE ~(comes /\ c \in W!Listed(history))
  <2>1. W!Becomes(s)
    BY <1>2, <1>7
  <2>2. Served(s, stuck) /\ s.queue = queue
    BY <1>1, <1>4, ChatNowIs DEF Served
  <2> QED BY <1>1, <1>2, <1>5, <2>1, <2>2, ChatStepTidy
<1> QED BY <1>6, <1>7

\* A run is over, or its answer is: what is left of it, for l that is answered.
LEMMA ChatEnds ==
  ASSUME W!IInv, NEW r \in ChatRun, NEW l \in v7, NEW s \in W!PanelState,
         s.history = v1, s.disk = v2, s.home = v11, s.live = v7,
         W!ToSet(s.messages) \subseteq W!ToSet(v3) \cup {W!Note(l)},
         v16 \subseteq s.astray, s.astray = {} => l = r,
         v10[r] # "free", s.run[r] \in {"ended", "over", "answered"},
         \A q \in ChatRun \ {r} : s.run[q] = v10[q],
         \A q \in ChatRun \ {l} : s.text[q] = v4[q]
  PROVE  /\ W!AtHome(s, W!Used(s)) /\ W!Mirrored(s) /\ W!Used(s) = W!Used(W!Now)
         /\ s.astray = {} => /\ W!Alone(s) /\ W!Alone([s EXCEPT !.isLoading = FALSE])
                             /\ s.text[l] = 0 \/ s.run[l] = "answered" => W!PanelSaved(s)
<1> DEFINE history == v1
           messages == v3
           live == v7
           run == v10
           home == v11
           astray == v16
<1>1. /\ W!Now \in W!PanelState /\ W!AtHome(W!Now, W!Used(W!Now)) /\ W!Mirrored(W!Now)
      /\ (astray = {} => W!Alone(W!Now) /\ W!PanelSaved(W!Now))
  BY ChatBegins
<1>l. /\ l \in ChatRun /\ live \subseteq ChatRun /\ W!Note(l).run = l /\ W!Note(l).who = "note"
      /\ l \in W!Used(W!Now) /\ (l \in astray \/ home[l] = history.current)
  <2>1. live \subseteq ChatRun
    BY <1>1, ChatNowIs, ChatPanelFields
  <2>2. l \in ChatRun
    BY <2>1
  <2> QED BY <2>1, <2>2, <1>1, ChatMessageIs, ChatNowIs DEF W!AtHome
<1>2. W!Used(s) = W!Used(W!Now)
  BY ChatNowIs DEF W!Used
<1>3. W!AtHome(s, W!Used(W!Now))
  <2>0. \A m, c : W!Belongs(W!Now, W!Used(W!Now), m, c) => W!Belongs(s, W!Used(W!Now), m, c)
    BY ChatNowIs DEF W!Belongs
  <2>1. \A c \in ChatId : \A m \in W!ToSet(s.history.chats[c].messages) : W!Belongs(s, W!Used(W!Now), m, c)
    BY <1>1, <2>0, ChatNowIs DEF W!AtHome
  <2>2. W!Belongs(s, W!Used(W!Now), W!Note(l), s.history.current)
    BY <1>l DEF W!Belongs
  <2>3. \A m \in W!ToSet(messages) : W!Belongs(s, W!Used(W!Now), m, s.history.current)
    BY <1>1, <2>0, ChatNowIs DEF W!AtHome
  <2>4. \A m \in W!ToSet(s.messages) : W!Belongs(s, W!Used(W!Now), m, s.history.current)
    BY <2>2, <2>3
  <2>5. \A q \in ChatRun : q \in s.live \/ s.run[q] \in {"attaching", "closing"} =>
          q \in W!Used(W!Now) /\ (q \in s.astray \/ s.home[q] = s.history.current)
    <3> TAKE q \in ChatRun
    <3>1. s.run[q] \in {"attaching", "closing"} => run[q] \in {"attaching", "closing"}
      OBVIOUS
    <3> QED BY <3>1, <1>1, ChatNowIs DEF W!AtHome
  <2> QED BY <2>1, <2>4, <2>5 DEF W!AtHome
<1>4. W!Mirrored(s)
  BY <1>1, ChatNowIs DEF W!Mirrored
<1>5. ASSUME s.astray = {}
      PROVE  /\ W!Alone(s) /\ W!Alone([s EXCEPT !.isLoading = FALSE])
             /\ s.text[l] = 0 \/ s.run[l] = "answered" => W!PanelSaved(s)
  <2>1. W!Alone(W!Now) /\ W!PanelSaved(W!Now) /\ l = r
    BY <1>1, <1>5
  <2>2. \A u : u.live = live /\ u.run = s.run => W!Alone(u)
    <3> TAKE u
    <3> HAVE u.live = live /\ u.run = s.run
    <3> QED BY <2>1, <1>l, ChatNowIs, ChatAloneOver
  <2>3. W!Alone(s) /\ W!Alone([s EXCEPT !.isLoading = FALSE])
    <3> DEFINE u == [s EXCEPT !.isLoading = FALSE]
    <3>1. u.live = live /\ u.run = s.run
      BY ChatPanelIs
    <3> HIDE DEF u
    <3>2. W!Alone(u)
      BY <3>1, <2>2
    <3>3. W!Alone(s)
      BY <2>2
    <3> QED BY <3>2, <3>3 DEF u
  <2>4. ASSUME s.text[l] = 0 \/ s.run[l] = "answered" PROVE W!PanelSaved(s)
    <3>1. \A q \in live : q = l
      BY <2>1, ChatNowIs DEF W!Alone
    <3>2. ASSUME s.history.current \in W!Listed(s.history), NEW m \in W!ToSet(s.messages)
          PROVE  W!OnDisk(s, m) \/ W!Waited(s, m)
      <4>1. CASE m = W!Note(l)
        BY <4>1, <1>l DEF W!Waited
      <4>2. CASE m.who = "ai" /\ m.run = l
        BY <4>2, <2>4 DEF W!Waited
      <4>3. CASE m \in W!ToSet(messages) /\ ~(m.who = "ai" /\ m.run = l)
        <5>1. W!OnDisk(W!Now, m) \/ W!Waited(W!Now, m)
          BY <4>3, <3>2, <2>1, ChatNowIs DEF W!PanelSaved
        <5>2. m.run \in ChatRun
          <6>1. W!ToSet(messages) \subseteq W!Message
            BY <1>1, ChatNowIs, ChatPanelFields, ChatInSeq DEF Shown
          <6> QED BY <6>1, <4>3 DEF W!Message
        <5>3. m.who = "ai" => s.text[m.run] = W!Now.text[m.run]
          BY <4>3, <5>2, ChatNowIs
        <5>4. W!OnDisk(W!Now, m) => W!OnDisk(s, m)
          BY <5>3, ChatNowIs, ChatOthersOnDisk
        <5>5. W!Waited(W!Now, m) => W!Waited(s, m)
          BY <5>3, <4>3, <3>1, ChatNowIs DEF W!Waited
        <5> QED BY <5>1, <5>4, <5>5
      <4> QED BY <3>2, <4>1, <4>2, <4>3
    <3> QED BY <3>2 DEF W!PanelSaved
  <2> QED BY <2>3, <2>4
<1> QED BY <1>2, <1>3, <1>4, <1>5

\* An answer is there: it is handled.
LEMMA ChatAnswerComes ==
  ASSUME W!IInv, NEW r \in ChatRun, NEW l \in v7, NEW how \in W!How, NEW s \in W!PanelState,
         s.history = v1, s.disk = v2, s.home = v11, s.live = v7, s.queue = v6,
         s.messages = v3, v16 \subseteq s.astray, s.astray = {} => l = r,
         v10[r] # "free", s.run[r] \in {"ended", "over", "answered"},
         \A q \in ChatRun \ {r} : s.run[q] = v10[q],
         \A q \in ChatRun \ {l} : s.text[q] = v4[q],
         W!Becomes(W!HandleResponse(s, l, how)), UNCHANGED <<v14, v15, v17, v18, v19>>
  PROVE  W!IInv'
<1> DEFINE queue == v6
           stuck == v17
           ops == v19
<1>1. /\ W!AtHome(s, W!Used(s)) /\ W!Mirrored(s) /\ W!Used(s) = W!Used(W!Now)
      /\ s.astray = {} => /\ W!Alone([s EXCEPT !.isLoading = FALSE])
                          /\ s.text[l] = 0 => W!PanelSaved(s)
  BY ChatEnds
<1>2. (queue > 0 => W!Used(W!Now) # ChatRun) /\ ops \in 0..ChatMaxOps /\ l \in ChatRun
  <2>1. W!Now \in W!PanelState /\ (queue > 0 => W!Used(W!Now) # ChatRun) /\ ops \in 0..ChatMaxOps
    BY ChatBegins
  <2> QED BY <2>1, ChatNowIs, ChatPanelFields
<1> DEFINE t == W!HandleResponse(s, l, how)
<1>3. /\ Fine(t) /\ Lists(s, t) /\ (t.queue > 0 => W!Used(t) # ChatRun) /\ (t.queue > 0 => t.isLoading)
  BY <1>1, <1>2, ChatHandleFine
<1>4. W!Becomes(t)
  OBVIOUS
<1> HIDE DEF t
<1>5. Lists(W!Now, t) /\ Served(t, stuck) /\ ops' \in 0..ChatMaxOps
  BY <1>2, <1>3, ChatNowIs DEF Lists, Served
<1> QED BY <1>3, <1>4, <1>5, ChatStepTidy

\* There is none: the queue goes on.
LEMMA ChatNoneComes ==
  ASSUME W!IInv, NEW r \in v7, NEW how \in W!How, NEW s \in W!PanelState,
         s.history = v1, s.disk = v2, s.home = v11, s.live = v7, s.queue = v6,
         W!ToSet(s.messages) \subseteq W!ToSet(v3) \cup {W!Note(r)}, s.astray = v16,
         v10[r] # "free", s.run[r] \in {"ended", "over", "answered"},
         \A q \in ChatRun \ {r} : s.run[q] = v10[q], s.text[r] = 0,
         \A q \in ChatRun \ {r} : s.text[q] = v4[q],
         W!Becomes(W!Flush(s, how)), UNCHANGED <<v14, v15, v17, v18, v19>>
  PROVE  W!IInv'
<1> DEFINE queue == v6
           stuck == v17
           ops == v19
<1>2. (queue > 0 => W!Used(W!Now) # ChatRun) /\ ops \in 0..ChatMaxOps /\ r \in ChatRun
  <2>1. W!Now \in W!PanelState /\ (queue > 0 => W!Used(W!Now) # ChatRun) /\ ops \in 0..ChatMaxOps
    BY ChatBegins
  <2> QED BY <2>1, ChatNowIs, ChatPanelFields
<1>1. W!AtHome(s, W!Used(s)) /\ W!Mirrored(s) /\ W!Used(s) = W!Used(W!Now) /\ (s.astray = {} => W!Alone(s) /\ W!PanelSaved(s))
  BY <1>2, ChatEnds
<1>f. Fine(s)
  BY <1>1 DEF Fine
<1> DEFINE t == W!Flush(s, how)
<1>3. /\ Fine(t) /\ Lists(s, t) /\ (t.queue > 0 => W!Used(t) # ChatRun) /\ (t.queue > 0 => t.isLoading)
  BY <1>1, <1>2, <1>f, ChatFlushFine
<1>4. W!Becomes(t)
  OBVIOUS
<1> HIDE DEF t
<1>5. Lists(W!Now, t) /\ Served(t, stuck) /\ ops' \in 0..ChatMaxOps
  BY <1>2, <1>3, ChatNowIs DEF Lists, Served
<1> QED BY <1>3, <1>4, <1>5, ChatStepTidy

LEMMA ChatNoteTaken ==
  ASSUME NEW q \in Shown, NEW r \in ChatRun
  PROVE  /\ W!Without(q, W!Answer(r)) \in Shown /\ W!ToSet(W!Without(q, W!Answer(r))) \subseteq W!ToSet(q)
         /\ Append(W!Without(q, W!Answer(r)), W!Note(r)) \in Shown
         /\ W!ToSet(Append(W!Without(q, W!Answer(r)), W!Note(r))) \subseteq W!ToSet(q) \cup {W!Note(r)}
<1> DEFINE w == W!Without(q, W!Answer(r))
<1>1. w \in Shown /\ W!ToSet(w) = W!ToSet(q) \cap (W!Message \ {W!Answer(r)})
  BY ChatOnlyGives DEF W!Without, Shown
<1> HIDE DEF w
<1>2. Append(w, W!Note(r)) \in Shown /\ W!ToSet(Append(w, W!Note(r))) = W!ToSet(w) \cup {W!Note(r)}
  BY <1>1, ChatMessageIs, ChatAppendSet
<1> QED BY <1>1, <1>2 DEF w

LEMMA ChatStepStreamResolves ==
  ASSUME W!IInv, NEW r \in ChatRun, NEW how \in W!How, W!StreamResolves(r, how)
  PROVE  W!IInv'
<1> DEFINE history == v1
           disk == v2
           messages == v3
           text == v4
           isLoading == v5
           queue == v6
           live == v7
           run == v10
           home == v11
           made == v14
           gone == v15
           astray == v16
           stuck == v17
           hasty == v18
           ops == v19
<1>1. W!Now \in W!PanelState
  BY ChatBegins
<1>2. run[r] = "ended" /\ UNCHANGED <<made, gone, stuck, hasty, ops>>
  BY DEF W!StreamResolves
<1>3. CASE r \in live /\ isLoading
  <2> DEFINE f == [run EXCEPT ![r] = "over"]
             s == [W!Now EXCEPT !.run = f, !.listener = None]
  <2>1. W!Becomes(W!HandleResponse(s, r, how))
    BY <1>3, ChatNowIs DEF W!StreamResolves
  <2>2. f \in Stages /\ f[r] = "over" /\ \A q \in ChatRun \ {r} : f[q] = run[q]
    <3>1. run \in Stages /\ "over" \in W!Stage
      BY <1>1, ChatNowIs, ChatPanelFields DEF W!Stage
    <3> QED BY <3>1, ChatStageMoves
  <2> HIDE DEF f
  <2>3. /\ s \in W!PanelState /\ s.history = history /\ s.disk = disk /\ s.messages = messages /\ s.text = text
        /\ s.queue = queue /\ s.live = live /\ s.run = f /\ s.home = home /\ s.astray = astray
    BY <1>1, <2>2, ChatNowIs, ChatPanelIs DEF RunOrNone
  <2> HIDE DEF s
  <2> QED BY <1>2, <1>3, <2>1, <2>2, <2>3, ChatAnswerComes
<1>4. CASE ~(r \in live /\ isLoading)
  <2>1. W!Becomes([W!Now EXCEPT !.run[r] = "over"])
    BY <1>4 DEF W!StreamResolves
  <2> QED BY <1>2, <2>1, ChatMovesOn
<1> QED BY <1>3, <1>4

LEMMA ChatStepStreamRejects ==
  ASSUME W!IInv, NEW r \in ChatRun, NEW how \in W!How, W!StreamRejects(r, how)
  PROVE  W!IInv'
<1> DEFINE history == v1
           disk == v2
           messages == v3
           text == v4
           queue == v6
           live == v7
           run == v10
           home == v11
           made == v14
           gone == v15
           astray == v16
           stuck == v17
           hasty == v18
           ops == v19
<1>1. /\ W!Now \in W!PanelState /\ (queue > 0 => W!Used(W!Now) # ChatRun) /\ ops \in 0..ChatMaxOps
      /\ (astray = {} => W!Alone(W!Now))
  BY ChatBegins
<1>2. run[r] \in {"stream", "cut"} /\ UNCHANGED <<made, gone, stuck, hasty, ops>>
  BY DEF W!StreamRejects, W!Emits
<1> DEFINE f == [run EXCEPT ![r] = "over"]
           told == [W!Now EXCEPT !.run = f, !.listener = None]
           idle == [W!Now EXCEPT !.run = f, !.listener = None, !.isLoading = FALSE]
           w == Append(W!Without(messages, W!Answer(r)), W!Note(r))
           noted == [W!Now EXCEPT !.run = f, !.listener = None, !.isLoading = FALSE, !.messages = w]
<1>3. W!Becomes(IF r \notin live THEN [W!Now EXCEPT !.run[r] = "over"]
                ELSE IF run[r] = "cut" THEN W!SaveMessages(idle)
                ELSE IF text[r] > 0 THEN W!HandleResponse(told, r, how)
                ELSE W!Flush(noted, how))
  <2>1. /\ [W!Now EXCEPT !.run[r] = "over"] = [W!Now EXCEPT !.run = f]
        /\ [[W!Now EXCEPT !.run = f] EXCEPT !.listener = None] = told
        /\ [told EXCEPT !.isLoading = FALSE] = idle
        /\ [idle EXCEPT !.messages = Append(W!Without(idle.messages, W!Answer(r)), W!Note(r))] = noted
    <3>1. [W!Now EXCEPT !.run[r] = "over"] = [W!Now EXCEPT !.run = f]
      BY ChatNowIs
    <3> HIDE DEF f
    <3>2. idle.messages = messages
      BY <1>1, ChatNowIs, ChatPanelIs
    <3> QED BY <3>1, <3>2
  <2> HIDE DEF told, idle, noted, f, w
  <2> QED BY <2>1 DEF W!StreamRejects, W!Cancelled
<1>4. f \in Stages /\ f[r] = "over" /\ \A q \in ChatRun \ {r} : f[q] = run[q]
  <2>1. run \in Stages /\ "over" \in W!Stage
    BY <1>1, ChatNowIs, ChatPanelFields DEF W!Stage
  <2> QED BY <2>1, ChatStageMoves
<1>w. w \in Shown /\ W!ToSet(w) \subseteq W!ToSet(messages) \cup {W!Note(r)}
  BY <1>1, ChatNowIs, ChatPanelFields, ChatNoteTaken
<1> HIDE DEF f, w
<1>5. /\ \A s \in {told, idle, noted} :
           /\ s \in W!PanelState /\ s.history = history /\ s.disk = disk /\ s.text = text
           /\ s.queue = queue /\ s.live = live /\ s.run = f /\ s.home = home /\ s.astray = astray
      /\ told.messages = messages /\ idle.messages = messages /\ noted.messages = w
  BY <1>1, <1>4, <1>w, ChatNowIs, ChatPanelIs DEF RunOrNone
<1> HIDE DEF told, idle, noted
<1>6. CASE r \notin live
  BY <1>2, <1>3, <1>6, ChatMovesOn
<1>7. CASE r \in live /\ run[r] = "cut"
  <2> DEFINE t == W!SaveMessages(idle)
  <2>0. W!Becomes(t) /\ astray # {}
    BY <1>1, <1>3, <1>7, ChatNowIs DEF W!Alone
  <2>1. W!AtHome(idle, W!Used(idle)) /\ W!Mirrored(idle) /\ W!Used(idle) = W!Used(W!Now)
    BY <1>2, <1>4, <1>5, <1>7, ChatEnds
  <2>2. t \in W!PanelState /\ Calm(idle, t) /\ Lists(idle, t) /\ W!Mirrored(t)
    BY <1>5, <2>1, ChatSaveMessagesGives
  <2>3. W!AtHome(t, W!Used(idle))
    BY <1>5, <2>1, ChatSaveHome
  <2> HIDE DEF t
  <2>4. W!Used(t) = W!Used(W!Now) /\ t.astray # {} /\ t.queue = queue
    BY <1>5, <2>0, <2>1, <2>2, ChatSaveUsed DEF Calm
  <2>5. Fine(t) /\ Served(t, stuck) /\ Lists(W!Now, t)
    BY <1>5, <2>1, <2>2, <2>3, <2>4, ChatNowIs DEF Fine, Served, Lists
  <2> QED BY <1>1, <1>2, <2>0, <2>4, <2>5, ChatStepTidy
<1>8. CASE r \in live /\ run[r] # "cut" /\ text[r] > 0
  <2>1. W!Becomes(W!HandleResponse(told, r, how))
    BY <1>3, <1>8
  <2> QED BY <1>2, <1>4, <1>5, <1>8, <2>1, ChatAnswerComes
<1>9. CASE r \in live /\ run[r] # "cut" /\ ~(text[r] > 0)
  <2>1. W!Becomes(W!Flush(noted, how))
    BY <1>3, <1>9
  <2>2. text[r] = 0
    <3>1. text \in Texts
      BY <1>1, ChatNowIs, ChatPanelFields
    <3>2. text[r] \in 0..ChatMaxText
      BY <3>1 DEF Texts
    <3> QED BY <3>2, <1>9
  <2> QED BY <1>2, <1>4, <1>5, <1>9, <1>w, <2>1, <2>2, ChatNoneComes
<1> QED BY <1>6, <1>7, <1>8, <1>9

LEMMA ChatStepWebDone ==
  ASSUME W!IInv, NEW r \in ChatRun, NEW n \in 0..ChatMaxText, NEW how \in W!How, W!WebDone(r, n, how)
  PROVE  W!IInv'
<1> DEFINE history == v1
           disk == v2
           messages == v3
           text == v4
           queue == v6
           live == v7
           listener == v8
           run == v10
           home == v11
           made == v14
           gone == v15
           astray == v16
           stuck == v17
           hasty == v18
           ops == v19
<1>1. /\ W!Now \in W!PanelState /\ (queue > 0 => W!Used(W!Now) # ChatRun) /\ ops \in 0..ChatMaxOps
      /\ (astray = {} => W!Alone(W!Now)) /\ W!ToSet(history.recency) \subseteq made /\ made \subseteq ChatId
      /\ gone \cup hasty \subseteq ChatId /\ stuck \in BOOLEAN /\ queue \in Nat
  BY ChatBegins
<1>2. run[r] \in {"stream", "cut"} /\ UNCHANGED <<made, gone, hasty, ops>>
  BY DEF W!WebDone, W!Emits
<1>3. CASE listener \notin live
  <2>1. W!Becomes([W!Now EXCEPT !.run[r] = "ended"]) /\ UNCHANGED <<made, gone, stuck, hasty, ops>>
    BY <1>3 DEF W!WebDone
  <2>2. ~(astray = {} /\ r \in live /\ run[r] \in {"stream", "acp", "answered"})
    BY <1>1, <1>2, <1>3, ChatNowIs DEF W!Alone
  <2> QED BY <1>2, <2>1, <2>2, ChatMovesOn
<1>4. CASE listener \in live
  <2> DEFINE l == listener
             f == [run EXCEPT ![r] = "ended"]
             g == [text EXCEPT ![l] = n]
             m == W!Mixed(r, l)
             told == [m EXCEPT !.run = f, !.text = g, !.listener = None]
             w == W!Without(messages, W!Answer(l))
             idle == [m EXCEPT !.run = f, !.text = g, !.listener = None, !.isLoading = FALSE, !.messages = w]
  <2>x. PICK x \in SUBSET ChatRun : /\ m = [W!Now EXCEPT !.astray = x] /\ astray \subseteq x
                                    /\ (x = {} => l = r /\ astray = {})
    BY <1>1, ChatMixedGives
  <2>m. m.run = run /\ m.text = text /\ m.messages = messages
    BY <2>x, ChatNowIs, ChatPanelIs
  <2>1. /\ stuck' = (stuck \/ (n = 0 /\ queue > 0))
        /\ W!Becomes(IF n > 0 THEN W!HandleResponse(told, l, how) ELSE idle)
    <3> HIDE DEF m
    <3>1. [m EXCEPT !.run[r] = "ended", !.text[l] = n, !.listener = None] = told
      BY <2>m
    <3>2. [told EXCEPT !.isLoading = FALSE, !.messages = W!Without(told.messages, W!Answer(l))] = idle
      <4> HIDE DEF f, g
      <4>1. told.messages = messages
        BY <2>m, <2>x, <1>1, ChatPanelIs
      <4> QED BY <4>1
    <3> HIDE DEF told, idle, f, g, w
    <3> QED BY <1>4, <3>1, <3>2 DEF W!WebDone, m
  <2>2. f \in Stages /\ f[r] = "ended" /\ \A q \in ChatRun \ {r} : f[q] = run[q]
    <3>1. run \in Stages /\ "ended" \in W!Stage
      BY <1>1, ChatNowIs, ChatPanelFields DEF W!Stage
    <3> QED BY <3>1, ChatStageMoves
  <2>3. l \in ChatRun /\ g \in Texts /\ g[l] = n /\ \A q \in ChatRun \ {l} : g[q] = text[q]
    <3>1. text \in Texts /\ l \in ChatRun
      BY <1>1, <1>4, ChatNowIs, ChatPanelFields
    <3> QED BY <3>1, ChatTextMoves
  <2>w. w \in Shown /\ W!ToSet(w) \subseteq W!ToSet(messages)
    BY <1>1, <2>3, ChatNowIs, ChatPanelFields, ChatNoteTaken
  <2> HIDE DEF f, g, w, m
  <2>5. /\ \A s \in {told, idle} :
             /\ s \in W!PanelState /\ s.history = history /\ s.disk = disk /\ s.text = g
             /\ s.queue = queue /\ s.live = live /\ s.run = f /\ s.home = home /\ s.astray = x
        /\ told.messages = messages /\ idle.messages = w
    <3>1. /\ told = [W!Now EXCEPT !.astray = x, !.run = f, !.text = g, !.listener = None]
          /\ idle = [W!Now EXCEPT !.astray = x, !.run = f, !.text = g, !.listener = None, !.isLoading = FALSE,
                                 !.messages = w]
      BY <2>x
    <3>2. LET s == [W!Now EXCEPT !.astray = x, !.run = f, !.text = g, !.listener = None] IN
            /\ s \in W!PanelState /\ s.history = history /\ s.disk = disk /\ s.text = g /\ s.messages = messages
            /\ s.queue = queue /\ s.live = live /\ s.run = f /\ s.home = home /\ s.astray = x
      BY <1>1, <2>x, <2>2, <2>3, ChatNowIs, ChatPanelIs DEF RunOrNone
    <3>3. LET s == [W!Now EXCEPT !.astray = x, !.run = f, !.text = g, !.listener = None, !.isLoading = FALSE,
                                 !.messages = w] IN
            /\ s \in W!PanelState /\ s.history = history /\ s.disk = disk /\ s.text = g /\ s.messages = w
            /\ s.queue = queue /\ s.live = live /\ s.run = f /\ s.home = home /\ s.astray = x
      BY <1>1, <2>x, <2>2, <2>3, <2>w, ChatNowIs, ChatPanelIs DEF RunOrNone
    <3> HIDE DEF told, idle
    <3> QED BY <3>1, <3>2, <3>3
  <2> HIDE DEF told, idle
  <2>6. CASE n > 0
    <3>1. W!Becomes(W!HandleResponse(told, l, how)) /\ stuck' = stuck
      BY <1>1, <2>1, <2>6
    <3>2. l \in live
      BY <1>4
    <3> HIDE DEF l
    <3> QED BY <1>2, <2>x, <2>2, <2>3, <2>5, <3>1, <3>2, ChatAnswerComes
  <2>7. CASE ~(n > 0)
    <3>0. n = 0 /\ l \in live
      BY <2>7, <1>4
    <3>1. W!Becomes(idle) /\ stuck' = (stuck \/ queue > 0)
      BY <2>1, <3>0
    <3> HIDE DEF l
    <3>2. W!AtHome(idle, W!Used(idle)) /\ W!Mirrored(idle) /\ W!Used(idle) = W!Used(W!Now)
          /\ (idle.astray = {} => W!Alone(idle) /\ W!PanelSaved(idle))
      BY <1>2, <2>x, <2>2, <2>3, <2>5, <2>w, <3>0, ChatEnds
    <3>3. Fine(idle) /\ Served(idle, stuck')
      BY <2>5, <3>1, <3>2 DEF Fine, Served
    <3>4. stuck' \in BOOLEAN
      BY <3>1, <1>1
    <3> QED BY <1>1, <1>2, <2>5, <3>1, <3>2, <3>3, <3>4, ChatCloses
  <2> QED BY <2>6, <2>7
<1> QED BY <1>3, <1>4

LEMMA ChatStepAcpDone ==
  ASSUME W!IInv, NEW r \in ChatRun, W!AcpDone(r)
  PROVE  W!IInv'
<1> DEFINE history == v1
           disk == v2
           messages == v3
           text == v4
           queue == v6
           live == v7
           acpListener == v9
           run == v10
           home == v11
           made == v14
           gone == v15
           astray == v16
           stuck == v17
           hasty == v18
           ops == v19
<1>1. /\ W!Now \in W!PanelState /\ (queue > 0 => W!Used(W!Now) # ChatRun) /\ ops \in 0..ChatMaxOps
  BY ChatBegins
<1>2. run[r] = "acp" /\ UNCHANGED <<made, gone, stuck, hasty, ops>>
  BY DEF W!AcpDone
<1>3. CASE acpListener \notin live
  <2>1. W!Becomes([W!Now EXCEPT !.run[r] = "answered"])
    BY <1>3 DEF W!AcpDone
  <2> QED BY <1>2, <2>1, ChatMovesOn
<1>4. CASE acpListener \in live
  <2> DEFINE l == acpListener
             f == [run EXCEPT ![r] = "answered"]
             m == W!Mixed(r, l)
             t == [m EXCEPT !.run = f, !.isLoading = FALSE]
  <2>x. PICK x \in SUBSET ChatRun : /\ m = [W!Now EXCEPT !.astray = x] /\ astray \subseteq x
                                    /\ (x = {} => l = r /\ astray = {})
    BY <1>1, ChatMixedGives
  <2>1. W!Becomes(t)
    <3>1. m.run = run
      BY <2>x, ChatNowIs, ChatPanelIs
    <3> HIDE DEF m
    <3>2. [m EXCEPT !.run[r] = "answered", !.isLoading = FALSE] = t
      BY <3>1
    <3> QED BY <1>4, <3>2 DEF W!AcpDone, m
  <2>2. f \in Stages /\ f[r] = "answered" /\ \A q \in ChatRun \ {r} : f[q] = run[q]
    <3>1. run \in Stages /\ "answered" \in W!Stage
      BY <1>1, ChatNowIs, ChatPanelFields DEF W!Stage
    <3> QED BY <3>1, ChatStageMoves
  <2> HIDE DEF f, m
  <2>3. /\ t \in W!PanelState /\ t.history = history /\ t.disk = disk /\ t.text = text /\ t.messages = messages
        /\ t.queue = queue /\ t.live = live /\ t.run = f /\ t.home = home /\ t.astray = x
    BY <1>1, <2>x, <2>2, ChatNowIs, ChatPanelIs
  <2> HIDE DEF t
  <2>0. l \in live
    BY <1>4
  <2> HIDE DEF l
  <2>4. W!AtHome(t, W!Used(t)) /\ W!Mirrored(t) /\ W!Used(t) = W!Used(W!Now)
        /\ (t.astray = {} => W!Alone(t) /\ (t.run[l] = "answered" => W!PanelSaved(t)))
    BY <1>2, <2>x, <2>0, <2>2, <2>3, ChatEnds
  <2>5. t.astray = {} => r \in live /\ t.run[l] = "answered" /\ t.run[r] = "answered"
    BY <2>x, <2>0, <2>2, <2>3
  <2>6. Fine(t) /\ Served(t, stuck) /\ Lists(W!Now, t)
    BY <2>3, <2>4, <2>5, ChatNowIs DEF Fine, Served, Lists
  <2> QED BY <1>1, <1>2, <2>1, <2>3, <2>4, <2>6, ChatStepTidy
<1> QED BY <1>3, <1>4

LEMMA ChatStepAcpReply ==
  ASSUME W!IInv, NEW r \in ChatRun, NEW n \in 0..ChatMaxText, NEW how \in W!How, W!AcpReply(r, n, how)
  PROVE  W!IInv'
<1> DEFINE history == v1
           disk == v2
           messages == v3
           text == v4
           queue == v6
           live == v7
           run == v10
           home == v11
           made == v14
           gone == v15
           astray == v16
           stuck == v17
           hasty == v18
           ops == v19
<1>1. W!Now \in W!PanelState
  BY ChatBegins
<1>2. run[r] \in {"acp", "answered"} /\ UNCHANGED <<made, gone, stuck, hasty, ops>>
  BY DEF W!AcpReply
<1>3. CASE r \in live
  <2> DEFINE f == [run EXCEPT ![r] = "over"]
             g == [text EXCEPT ![r] = n]
             s == [W!Now EXCEPT !.run = f, !.acpListener = None, !.isLoading = FALSE, !.text = g]
  <2>1. W!Becomes(W!HandleResponse(s, r, how))
    BY <1>3, ChatNowIs DEF W!AcpReply
  <2>2. f \in Stages /\ f[r] = "over" /\ \A q \in ChatRun \ {r} : f[q] = run[q]
    <3>1. run \in Stages /\ "over" \in W!Stage
      BY <1>1, ChatNowIs, ChatPanelFields DEF W!Stage
    <3> QED BY <3>1, ChatStageMoves
  <2>3. g \in Texts /\ \A q \in ChatRun \ {r} : g[q] = text[q]
    BY <1>1, ChatNowIs, ChatPanelFields, ChatTextMoves
  <2> HIDE DEF f, g
  <2>4. /\ s \in W!PanelState /\ s.history = history /\ s.disk = disk /\ s.messages = messages /\ s.text = g
        /\ s.queue = queue /\ s.live = live /\ s.run = f /\ s.home = home /\ s.astray = astray
    BY <1>1, <2>2, <2>3, ChatNowIs, ChatPanelIs DEF RunOrNone
  <2> HIDE DEF s
  <2> QED BY <1>2, <1>3, <2>1, <2>2, <2>3, <2>4, ChatAnswerComes
<1>4. CASE r \notin live
  <2>1. W!Becomes([W!Now EXCEPT !.run[r] = "over"])
    BY <1>4 DEF W!AcpReply
  <2> QED BY <1>2, <1>4, <2>1, ChatMovesOn
<1> QED BY <1>3, <1>4

LEMMA ChatStepAcpFails ==
  ASSUME W!IInv, NEW r \in ChatRun, NEW how \in W!How, W!AcpFails(r, how)
  PROVE  W!IInv'
<1> DEFINE history == v1
           disk == v2
           messages == v3
           text == v4
           queue == v6
           live == v7
           run == v10
           home == v11
           made == v14
           gone == v15
           astray == v16
           stuck == v17
           hasty == v18
           ops == v19
<1>1. W!Now \in W!PanelState
  BY ChatBegins
<1>2. run[r] \in {"acp", "answered"} /\ UNCHANGED <<made, gone, stuck, hasty, ops>>
  BY DEF W!AcpFails
<1>3. CASE r \in live
  <2> DEFINE f == [run EXCEPT ![r] = "over"]
             g == [text EXCEPT ![r] = 0]
             s == [W!Now EXCEPT !.run = f, !.acpListener = None, !.isLoading = FALSE, !.text = g]
  <2>1. W!Becomes(W!Flush(s, how))
    BY <1>3, ChatNowIs DEF W!AcpFails
  <2>2. f \in Stages /\ f[r] = "over" /\ \A q \in ChatRun \ {r} : f[q] = run[q]
    <3>1. run \in Stages /\ "over" \in W!Stage
      BY <1>1, ChatNowIs, ChatPanelFields DEF W!Stage
    <3> QED BY <3>1, ChatStageMoves
  <2>3. g \in Texts /\ g[r] = 0 /\ \A q \in ChatRun \ {r} : g[q] = text[q]
    BY <1>1, ChatNowIs, ChatPanelFields, ChatTextMoves, ChatAssumption
  <2> HIDE DEF f, g
  <2>4. /\ s \in W!PanelState /\ s.history = history /\ s.disk = disk /\ s.messages = messages /\ s.text = g
        /\ s.queue = queue /\ s.live = live /\ s.run = f /\ s.home = home /\ s.astray = astray
    BY <1>1, <2>2, <2>3, ChatNowIs, ChatPanelIs DEF RunOrNone
  <2> HIDE DEF s
  <2> QED BY <1>2, <1>3, <2>1, <2>2, <2>3, <2>4, ChatNoneComes
<1>4. CASE r \notin live
  <2>1. W!Becomes([W!Now EXCEPT !.run[r] = "over"])
    BY <1>4 DEF W!AcpFails
  <2> QED BY <1>2, <1>4, <2>1, ChatMovesOn
<1> QED BY <1>3, <1>4

\* What the user does.
LEMMA ChatFreshIs ==
  ASSUME v14 \subseteq ChatId, W!MayCreate
  PROVE  W!Fresh \in ChatId
<1> DEFINE made == v14
<1> DEFINE T == ChatId \ made
<1>1. T # {} /\ T \in SUBSET Nat
  BY ChatAssumption DEF W!MayCreate
<1>2. PICK n \in T : \A m \in T : n <= m
  BY <1>1, ChatLeast
<1>3. W!Min(T) \in T
  <2> HIDE DEF T
  <2> QED BY <1>2 DEF W!Min
<1> QED BY <1>3 DEF W!Fresh

LEMMA ChatSavedFine ==
  ASSUME NEW s \in W!PanelState, W!AtHome(s, W!Used(s)), W!Mirrored(s), s.astray = {} => W!Alone(s)
  PROVE  LET t == W!SaveMessages(s) IN
         /\ Fine(t) /\ Calm(s, t) /\ Lists(s, t) /\ W!Used(t) = W!Used(s)
         /\ t.history.current = s.history.current
<1> DEFINE t == W!SaveMessages(s)
<1>1. /\ t \in W!PanelState /\ Calm(s, t) /\ Lists(s, t) /\ W!Mirrored(t) /\ AllSaved(t)
      /\ t.history.current = s.history.current
  BY ChatSaveMessagesGives
<1>2. W!AtHome(t, W!Used(s))
  BY ChatSaveHome
<1> HIDE DEF t
<1>3. W!Used(t) = W!Used(s) /\ (W!Alone(s) => W!Alone(t))
  BY <1>1, ChatSaveUsed
<1>4. W!PanelSaved(t) /\ t.astray = s.astray
  BY <1>1 DEF AllSaved, W!PanelSaved, Calm
<1> QED BY <1>1, <1>2, <1>3, <1>4 DEF Fine, t

\* Another history is written, and shown: that of another chat, of an idle panel.
LEMMA ChatShownFine ==
  ASSUME NEW s \in W!PanelState, NEW h \in Hist, W!AtHome(s, W!Used(s)), s.astray = {} => W!Alone(s), Loses(s.history, h),
         \/ h.current = s.history.current
         \/ s.live = {} /\ \A q \in ChatRun : s.run[q] \in {"attaching", "closing"} => q \in s.astray
  PROVE  LET t == W!Show(W!Write(s, h)) IN
         /\ Fine(t) /\ W!ToSet(t.history.recency) \subseteq W!ToSet(h.recency) /\ W!Used(t) = W!Used(s)
         /\ t.queue = s.queue /\ t.isLoading = s.isLoading /\ t.astray = s.astray /\ t.live = s.live /\ t.run = s.run
<1> DEFINE v == W!Write(s, h)
           t == W!Show(v)
<1>1. v \in W!PanelState /\ Calm(s, v) /\ v.history = h /\ v.disk = W!Saved(h, s.text)
  BY ChatWriteGives
<1> HIDE DEF v
<1>2. v.disk = W!Saved(v.history, v.text) /\ W!Used(v) = W!Used(s) /\ (v.astray = {} => W!Alone(v))
  <2>1. W!Used(v) = W!Used(s) /\ (W!Alone(s) => W!Alone(v))
    BY <1>1, ChatSaveUsed
  <2> QED BY <2>1, <1>1 DEF Calm
<1>3. \A c \in ChatId : \A m \in W!ToSet(v.history.chats[c].messages) : W!Belongs(v, W!Used(v), m, c)
  <2>1. \A m, c : W!Belongs(s, W!Used(s), m, c) => W!Belongs(v, W!Used(v), m, c)
    BY <1>1, <1>2 DEF W!Belongs, Calm
  <2>2. \A c \in ChatId : W!ToSet(h.chats[c].messages) \subseteq W!ToSet(s.history.chats[c].messages)
    <3> TAKE c \in ChatId
    <3>1. W!ToSet(<< >>) = {}
      BY DEF W!ToSet
    <3> QED BY <3>1 DEF Loses
  <2> QED BY <2>1, <2>2, <1>1 DEF W!AtHome
<1>4. \A r \in ChatRun : r \in v.live \/ v.run[r] \in {"attaching", "closing"} =>
        r \in W!Used(v) /\ (r \in v.astray \/ v.home[r] = v.history.current)
  <2>1. v.live = s.live /\ v.run = s.run /\ v.home = s.home /\ v.astray = s.astray /\ v.history = h
    BY <1>1 DEF Calm
  <2>2. \A r \in ChatRun : r \in s.live \/ s.run[r] \in {"attaching", "closing"} =>
          r \in W!Used(s) /\ (r \in s.astray \/ s.home[r] = s.history.current)
    BY DEF W!AtHome
  <2> QED BY <2>1, <2>2, <1>2
<1>5. /\ Fine(t) /\ Lists(v, t) /\ W!Used(t) = W!Used(v) /\ t.queue = v.queue /\ t.isLoading = v.isLoading
      /\ t.astray = v.astray /\ t.live = v.live /\ t.run = v.run
  BY <1>1, <1>2, <1>3, <1>4, ChatShowFine
<1> HIDE DEF t
<1> QED BY <1>1, <1>2, <1>5 DEF Lists, Calm, t, v

LEMMA ChatTorn ==
  ASSUME W!IInv
  PROVE  LET t == W!TearDown(W!Now) IN
         /\ t \in W!PanelState /\ W!AtHome(t, W!Used(t)) /\ W!Mirrored(t) /\ W!Used(t) = W!Used(W!Now)
         /\ (t.astray = {} => W!Alone(t)) /\ t.history = v1 /\ t.disk = v2 /\ t.messages = v3
         /\ t.text = v4 /\ t.live = {} /\ t.queue = 0 /\ t.isLoading = FALSE /\ v16 \subseteq t.astray
         /\ \A q \in ChatRun : t.run[q] \in {"attaching", "closing"} => q \in t.astray
<1>1. W!Now \in W!PanelState /\ W!AtHome(W!Now, W!Used(W!Now)) /\ W!Mirrored(W!Now)
  BY ChatBegins
<1> DEFINE t == W!TearDown(W!Now)
<1>2. /\ t \in W!PanelState /\ t.history = W!Now.history /\ t.disk = W!Now.disk /\ t.messages = W!Now.messages
      /\ t.text = W!Now.text
      /\ t.live = {} /\ t.queue = 0 /\ t.isLoading = FALSE /\ W!Now.astray \subseteq t.astray
      /\ \A q \in ChatRun : t.run[q] \in {"attaching", "closing"} => q \in t.astray
  BY <1>1, ChatTearDownGives
<1>3. W!AtHome(t, W!Used(W!Now)) /\ W!Used(t) = W!Used(W!Now) /\ (t.astray = {} => W!Alone(t)) /\ W!Mirrored(t)
  BY <1>1, ChatTearDownHome
<1> HIDE DEF t
<1> QED BY <1>2, <1>3, ChatNowIs DEF t

\* The panel is left for another chat.
LEMMA ChatLeftFine ==
  ASSUME W!IInv
  PROVE  LET t == W!SaveMessages(W!TearDown(W!Now)) IN
         /\ t \in W!PanelState /\ W!AtHome(t, W!Used(t)) /\ W!Used(t) = W!Used(W!Now) /\ (t.astray = {} => W!Alone(t))
         /\ W!ToSet(t.history.recency) \subseteq W!ToSet(v1.recency)
         /\ t.live = {} /\ t.queue = 0
         /\ \A q \in ChatRun : t.run[q] \in {"attaching", "closing"} => q \in t.astray
<1> DEFINE history == v1
<1> DEFINE s == W!TearDown(W!Now)
           t == W!SaveMessages(s)
<1>1. /\ s \in W!PanelState /\ W!AtHome(s, W!Used(s)) /\ W!Mirrored(s) /\ W!Used(s) = W!Used(W!Now)
      /\ (s.astray = {} => W!Alone(s)) /\ s.history = history /\ s.live = {} /\ s.queue = 0
      /\ \A q \in ChatRun : s.run[q] \in {"attaching", "closing"} => q \in s.astray
  BY ChatTorn
<1> HIDE DEF s
<1>2. Fine(t) /\ Calm(s, t) /\ Lists(s, t) /\ W!Used(t) = W!Used(s)
  BY <1>1, ChatSavedFine
<1> HIDE DEF t
<1>3. t \in W!PanelState /\ W!AtHome(t, W!Used(t)) /\ (t.astray = {} => W!Alone(t))
  BY <1>2 DEF Fine
<1>4. t.live = {} /\ t.queue = 0 /\ t.run = s.run /\ t.astray = s.astray
  BY <1>1, <1>2 DEF Calm
<1> QED BY <1>1, <1>2, <1>3, <1>4 DEF Lists, t, s

LEMMA ChatClickIs ==
  ASSUME W!IInv, W!Click
  PROVE  v19' \in 0..ChatMaxOps
<1> DEFINE ops == v19
<1>1. ops \in 0..ChatMaxOps
  BY ChatBegins
<1> QED BY <1>1, ChatAssumption DEF W!Click

LEMMA ChatStepNewChat ==
  ASSUME W!IInv, W!NewChat
  PROVE  W!IInv'
<1> DEFINE history == v1
           made == v14
           gone == v15
           stuck == v17
           hasty == v18
           ops == v19
<1>1. /\ W!ToSet(history.recency) \subseteq made /\ made \subseteq ChatId /\ stuck \in BOOLEAN
      /\ gone \cup hasty \subseteq ChatId
  BY ChatBegins
<1> DEFINE s == W!SaveMessages(W!TearDown(W!Now))
           h == W!CreateNew(s.history, W!Fresh)
           t == W!Show(W!Write(s, h))
<1>2. W!Becomes(t) /\ made' = made \cup {W!Fresh} /\ UNCHANGED <<gone, stuck, hasty>> /\ W!MayCreate
  BY DEF W!NewChat
<1>3. ops' \in 0..ChatMaxOps
  BY ChatClickIs DEF W!NewChat
<1>4. /\ s \in W!PanelState /\ W!AtHome(s, W!Used(s)) /\ (s.astray = {} => W!Alone(s))
      /\ W!ToSet(s.history.recency) \subseteq W!ToSet(history.recency) /\ s.live = {} /\ s.queue = 0
      /\ \A q \in ChatRun : s.run[q] \in {"attaching", "closing"} => q \in s.astray
  BY ChatLeftFine
<1> HIDE DEF s
<1>5. W!Fresh \in ChatId /\ s.history \in Hist
  BY <1>1, <1>2, <1>4, ChatFreshIs, ChatPanelFields
<1>6. h \in Hist /\ W!ToSet(h.recency) \subseteq {W!Fresh} \cup W!ToSet(s.history.recency) /\ Loses(s.history, h)
  BY <1>5, ChatCreateNewGives
<1> HIDE DEF h
<1>7. Fine(t) /\ W!ToSet(t.history.recency) \subseteq W!ToSet(h.recency) /\ t.queue = s.queue
  BY <1>4, <1>6, ChatShownFine
<1> HIDE DEF t
<1>8. Served(t, stuck') /\ (t.queue > 0 => W!Used(t) # ChatRun)
  BY <1>4, <1>7 DEF Served
<1>9. W!ToSet(t.history.recency) \subseteq made' /\ made' \subseteq ChatId /\ stuck' \in BOOLEAN /\ gone' \cup hasty' \subseteq ChatId
  BY <1>1, <1>2, <1>4, <1>5, <1>6, <1>7
<1> QED BY <1>2, <1>3, <1>7, <1>8, <1>9, ChatCloses

LEMMA ChatStepSwitchSession ==
  ASSUME W!IInv, NEW c \in ChatId, W!SwitchSession(c)
  PROVE  W!IInv'
<1> DEFINE history == v1
           made == v14
           gone == v15
           stuck == v17
           hasty == v18
           ops == v19
<1> DEFINE s == W!SaveMessages(W!TearDown(W!Now))
           h == [s.history EXCEPT !.current = c]
           t == W!Show(W!Write(s, h))
<1>2. W!Becomes(t) /\ UNCHANGED <<made, gone, stuck, hasty>>
  BY DEF W!SwitchSession
<1>3. ops' \in 0..ChatMaxOps
  BY ChatClickIs DEF W!SwitchSession
<1>4. /\ s \in W!PanelState /\ W!AtHome(s, W!Used(s)) /\ (s.astray = {} => W!Alone(s))
      /\ W!ToSet(s.history.recency) \subseteq W!ToSet(history.recency) /\ s.live = {} /\ s.queue = 0
      /\ \A q \in ChatRun : s.run[q] \in {"attaching", "closing"} => q \in s.astray
  BY ChatLeftFine
<1> HIDE DEF s
<1>5. s.history \in Hist
  BY <1>4, ChatPanelFields
<1>6. h \in Hist /\ h.recency = s.history.recency /\ h.chats = s.history.chats
  BY <1>5 DEF Hist, W!HistoryOf
<1> HIDE DEF h
<1>7. Fine(t) /\ W!ToSet(t.history.recency) \subseteq W!ToSet(h.recency) /\ t.queue = s.queue
  <2>1. Loses(s.history, h)
    BY <1>6 DEF Loses
  <2> QED BY <2>1, <1>4, <1>6, ChatShownFine
<1> HIDE DEF t
<1>8. Served(t, stuck) /\ (t.queue > 0 => W!Used(t) # ChatRun) /\ Lists(W!Now, t)
  BY <1>4, <1>6, <1>7, ChatNowIs DEF Served, Lists
<1> QED BY <1>2, <1>3, <1>7, <1>8, ChatStepTidy

LEMMA ChatStepDeleteSession ==
  ASSUME W!IInv, NEW c \in ChatId, W!DeleteSession(c)
  PROVE  W!IInv'
<1> DEFINE history == v1
           queue == v6
           made == v14
           gone == v15
           astray == v16
           stuck == v17
           hasty == v18
           ops == v19
<1>1. /\ W!ToSet(history.recency) \subseteq made /\ made \subseteq ChatId /\ stuck \in BOOLEAN
      /\ gone \cup hasty \subseteq ChatId /\ W!Now \in W!PanelState /\ W!AtHome(W!Now, W!Used(W!Now))
      /\ (astray = {} => W!Alone(W!Now)) /\ Served(W!Now, stuck) /\ (queue > 0 => W!Used(W!Now) # ChatRun)
  BY ChatBegins
<1> DEFINE s == IF c = history.current THEN W!TearDown(W!Now) ELSE W!Now
           f == IF W!MayCreate THEN W!Fresh ELSE c
           h == W!Removed(s.history, c, f)
           t == W!Show(W!Write(s, h))
<1>2. /\ W!Becomes(t) /\ c \in W!Listed(history) /\ (W!Listed(history) = {c} => W!MayCreate)
      /\ made' = (IF W!Listed(history) = {c} THEN made \cup {W!Fresh} ELSE made)
      /\ gone' = gone \cup {c} /\ UNCHANGED <<stuck, hasty>>
  BY DEF W!DeleteSession
<1>3. ops' \in 0..ChatMaxOps
  BY ChatClickIs DEF W!DeleteSession
<1>4. /\ s \in W!PanelState /\ W!AtHome(s, W!Used(s)) /\ W!Used(s) = W!Used(W!Now) /\ (s.astray = {} => W!Alone(s)) /\ s.history = history
      /\ \/ /\ s.live = {} /\ s.queue = 0
            /\ \A q \in ChatRun : s.run[q] \in {"attaching", "closing"} => q \in s.astray
         \/ c # history.current /\ s = W!Now
  <2>1. CASE c = history.current
    <3>1. s = W!TearDown(W!Now)
      BY <2>1
    <3> QED BY <3>1, ChatTorn
  <2>2. CASE c # history.current
    BY <2>2, <1>1, ChatNowIs
  <2> QED BY <2>1, <2>2
<1> HIDE DEF s
<1>5. f \in ChatId /\ s.history \in Hist /\ c \in W!Listed(s.history)
  BY <1>1, <1>2, <1>4, ChatFreshIs, ChatPanelFields
<1>6. /\ h \in Hist /\ Loses(s.history, h) /\ (c # s.history.current => h.current = s.history.current)
      /\ \/ W!ToSet(h.recency) \subseteq W!ToSet(s.history.recency)
         \/ W!Listed(s.history) = {c} /\ W!ToSet(h.recency) \subseteq {f} \cup W!ToSet(s.history.recency)
  <2> HIDE DEF f
  <2> QED BY <1>5, ChatRemovedGives
<1> HIDE DEF h
<1>7. /\ Fine(t) /\ W!ToSet(t.history.recency) \subseteq W!ToSet(h.recency) /\ W!Used(t) = W!Used(s)
      /\ t.queue = s.queue /\ t.isLoading = s.isLoading /\ t.astray = s.astray /\ t.live = s.live /\ t.run = s.run
  BY <1>4, <1>6, ChatShownFine
<1> HIDE DEF t
<1>8. Served(t, stuck') /\ (t.queue > 0 => W!Used(t) # ChatRun)
  BY <1>1, <1>2, <1>4, <1>7, ChatNowIs DEF Served
<1>9. W!ToSet(t.history.recency) \subseteq made'
  <2>1. CASE W!ToSet(h.recency) \subseteq W!ToSet(s.history.recency)
    BY <2>1, <1>1, <1>2, <1>4, <1>7
  <2>2. CASE W!Listed(s.history) = {c} /\ W!ToSet(h.recency) \subseteq {f} \cup W!ToSet(s.history.recency)
    <3>1. f = W!Fresh /\ made' = made \cup {W!Fresh}
      BY <2>2, <1>2, <1>4
    <3> HIDE DEF f
    <3> QED BY <3>1, <2>2, <1>1, <1>4, <1>7
  <2> QED BY <2>1, <2>2, <1>6
<1>10. made' \subseteq ChatId /\ stuck' \in BOOLEAN /\ gone' \cup hasty' \subseteq ChatId
  BY <1>1, <1>2, ChatFreshIs
<1> QED BY <1>2, <1>3, <1>7, <1>8, <1>9, <1>10, ChatCloses

LEMMA ChatStepConfirmRename ==
  ASSUME W!IInv, NEW c \in ChatId, W!ConfirmRename(c)
  PROVE  W!IInv'
<1> DEFINE history == v1
           queue == v6
           made == v14
           gone == v15
           stuck == v17
           hasty == v18
           ops == v19
<1>1. /\ Fine(W!Now) /\ (queue > 0 => W!Used(W!Now) # ChatRun) /\ W!Now \in W!PanelState /\ Served(W!Now, stuck)
      /\ W!ToSet(history.recency) \subseteq made /\ made \subseteq ChatId /\ stuck \in BOOLEAN
      /\ gone \cup hasty \subseteq ChatId
  BY ChatBegins
<1> DEFINE h == W!Rename(history, c, "given")
           t == W!Write(W!Now, h)
<1>2. /\ W!Becomes(t) /\ c \in W!Listed(history) /\ hasty' \subseteq hasty \cup {c} /\ UNCHANGED <<made, gone, stuck>>
  BY DEF W!ConfirmRename
<1>3. ops' \in 0..ChatMaxOps
  BY ChatClickIs DEF W!ConfirmRename
<1>4. history \in Hist
  BY <1>1, ChatNowIs, ChatPanelFields
<1>5. h \in Hist /\ h.current = history.current /\ W!ToSet(h.recency) = W!ToSet(history.recency) /\ Keeps(history, h)
  BY <1>2, <1>4, ChatRenameGives
<1> HIDE DEF h
<1>6. Fine(t) /\ Lists(W!Now, t) /\ W!Used(t) = W!Used(W!Now) /\ Calm(W!Now, t)
  <2>1. Keeps(W!Now.history, h) /\ h.current = W!Now.history.current /\ W!ToSet(h.recency) \subseteq W!ToSet(W!Now.history.recency)
    BY <1>5, ChatNowIs
  <2> QED BY <2>1, <1>1, <1>5, ChatWriteFine
<1> HIDE DEF t
<1>7. Served(t, stuck') /\ t.queue = queue
  BY <1>1, <1>2, <1>6, ChatNowIs DEF Served, Calm
<1>8. W!ToSet(t.history.recency) \subseteq made' /\ made' \subseteq ChatId /\ stuck' \in BOOLEAN /\ gone' \cup hasty' \subseteq ChatId
  BY <1>1, <1>2, <1>6, ChatNowIs DEF Lists
<1> QED BY <1>1, <1>2, <1>3, <1>6, <1>7, <1>8, ChatCloses

LEMMA ChatStepTogglePin ==
  ASSUME W!IInv, NEW c \in ChatId, W!TogglePin(c)
  PROVE  W!IInv'
<1> DEFINE history == v1
           queue == v6
           made == v14
           gone == v15
           stuck == v17
           hasty == v18
           ops == v19
<1>1. Fine(W!Now) /\ (queue > 0 => W!Used(W!Now) # ChatRun) /\ W!Now \in W!PanelState /\ Served(W!Now, stuck)
  BY ChatBegins
<1> DEFINE h == [history EXCEPT !.chats[c].pinned = ~@]
           t == W!Write(W!Now, h)
<1>2. W!Becomes(t) /\ UNCHANGED <<made, gone, stuck, hasty>>
  BY DEF W!TogglePin
<1>3. ops' \in 0..ChatMaxOps
  BY ChatClickIs DEF W!TogglePin
<1>4. history \in Hist
  BY <1>1, ChatNowIs, ChatPanelFields
<1>5. h \in Hist /\ h.current = history.current /\ h.recency = history.recency /\ Keeps(history, h)
  BY <1>4, ChatPinGives
<1> HIDE DEF h
<1>6. Fine(t) /\ Lists(W!Now, t) /\ W!Used(t) = W!Used(W!Now) /\ Calm(W!Now, t)
  <2>1. Keeps(W!Now.history, h) /\ h.current = W!Now.history.current /\ W!ToSet(h.recency) \subseteq W!ToSet(W!Now.history.recency)
    BY <1>5, ChatNowIs
  <2> QED BY <2>1, <1>1, <1>5, ChatWriteFine
<1> HIDE DEF t
<1>7. Served(t, stuck) /\ t.queue = queue
  BY <1>1, <1>6, ChatNowIs DEF Served, Calm
<1> QED BY <1>1, <1>2, <1>3, <1>6, <1>7, ChatStepTidy

\* The panel is torn down, and what is left of it saved.
LEMMA ChatTornSaved ==
  ASSUME W!IInv, NEW s \in W!PanelState, s.history = v1, s.disk = v2, W!ToSet(s.messages) \subseteq W!ToSet(v3),
         s.run = W!TearDown(W!Now).run, s.live = {}, s.queue = 0, s.home = W!TearDown(W!Now).home, s.astray = W!TearDown(W!Now).astray,
         W!Becomes(W!SaveMessages(s)), UNCHANGED <<v14, v15, v17, v18>>, v19' \in 0..ChatMaxOps
  PROVE  W!IInv'
<1> DEFINE history == v1
           disk == v2
           messages == v3
           stuck == v17
<1> DEFINE d == W!TearDown(W!Now)
           t == W!SaveMessages(s)
<1>1. /\ W!AtHome(d, W!Used(d)) /\ W!Mirrored(d) /\ W!Used(d) = W!Used(W!Now) /\ (d.astray = {} => W!Alone(d)) /\ d.history = history
      /\ d.disk = disk /\ d.messages = messages /\ d.live = {}
      /\ \A q \in ChatRun : d.run[q] \in {"attaching", "closing"} => q \in d.astray
  BY ChatTorn
<1>2. s.run = d.run /\ s.home = d.home /\ s.astray = d.astray
  OBVIOUS
<1> HIDE DEF d
<1>3. W!Used(s) = W!Used(d)
  BY <1>2 DEF W!Used
<1>4. W!AtHome(s, W!Used(s))
  <2>1. s.history = d.history /\ d.astray \subseteq s.astray /\ W!ToSet(s.messages) \subseteq W!ToSet(d.messages)
        /\ \A r \in ChatRun : r \in s.live \/ s.run[r] \in {"attaching", "closing"} =>
                              r \in d.live \/ d.run[r] \in {"attaching", "closing"}
    BY <1>1, <1>2
  <2> QED BY <2>1, <1>1, <1>2, <1>3, ChatHomeStays
<1>5. W!Mirrored(s) /\ (s.astray = {} => W!Alone(s))
  BY <1>1, <1>2 DEF W!Mirrored, W!Alone
<1>6. Fine(t) /\ Calm(s, t) /\ Lists(s, t) /\ W!Used(t) = W!Used(s)
  BY <1>4, <1>5, ChatSavedFine
<1>7. W!Becomes(t)
  OBVIOUS
<1> HIDE DEF t
<1>8. Served(t, stuck) /\ (t.queue > 0 => W!Used(t) # ChatRun) /\ Lists(W!Now, t)
  BY <1>6, ChatNowIs DEF Served, Calm, Lists
<1> QED BY <1>6, <1>7, <1>8, ChatStepTidy

LEMMA ChatStepClearChat ==
  ASSUME W!IInv, W!ClearChat
  PROVE  W!IInv'
<1> DEFINE history == v1
           disk == v2
           messages == v3
           made == v14
           gone == v15
           stuck == v17
           hasty == v18
           ops == v19
<1> DEFINE d == W!TearDown(W!Now)
           s == [d EXCEPT !.messages = << >>]
<1>1. W!Becomes(W!SaveMessages(s)) /\ UNCHANGED <<made, gone, stuck, hasty>> /\ ops' \in 0..ChatMaxOps
  BY ChatClickIs DEF W!ClearChat
<1>2. d \in W!PanelState /\ d.history = history /\ d.disk = disk /\ d.live = {} /\ d.queue = 0
  BY ChatTorn
<1>3. << >> \in Shown /\ W!ToSet(<< >>) \subseteq W!ToSet(messages)
  BY DEF Shown, W!ToSet
<1>4. /\ s \in W!PanelState /\ s.history = history /\ s.disk = disk /\ s.messages = << >>
      /\ s.run = d.run /\ s.live = {} /\ s.queue = 0 /\ s.home = d.home /\ s.astray = d.astray
  <2> HIDE DEF d
  <2> QED BY <1>2, <1>3, ChatPanelIs
<1> HIDE DEF s
<1> QED BY <1>1, <1>3, <1>4, ChatTornSaved

LEMMA ChatStepStop ==
  ASSUME W!IInv, W!Stop
  PROVE  W!IInv'
<1> DEFINE history == v1
           disk == v2
           messages == v3
           made == v14
           gone == v15
           stuck == v17
           hasty == v18
           ops == v19
<1> DEFINE d == W!TearDown(W!Now)
           s == [d EXCEPT !.acpListener = None]
<1>1. W!Becomes(W!SaveMessages(s)) /\ UNCHANGED <<made, gone, stuck, hasty>> /\ ops' \in 0..ChatMaxOps
  BY ChatClickIs DEF W!Stop
<1>2. d \in W!PanelState /\ d.history = history /\ d.disk = disk /\ d.live = {} /\ d.queue = 0 /\ d.messages = messages
  BY ChatTorn
<1>4. /\ s \in W!PanelState /\ s.history = history /\ s.disk = disk /\ s.messages = messages
      /\ s.run = d.run /\ s.live = {} /\ s.queue = 0 /\ s.home = d.home /\ s.astray = d.astray
  <2> HIDE DEF d
  <2> QED BY <1>2, ChatPanelIs DEF RunOrNone
<1> HIDE DEF s
<1> QED BY <1>1, <1>4, ChatTornSaved

LEMMA ChatStepClearQueue ==
  ASSUME W!IInv, W!ClearQueue
  PROVE  W!IInv'
<1> DEFINE history == v1
           disk == v2
           messages == v3
           text == v4
           isLoading == v5
           live == v7
           listener == v8
           acpListener == v9
           run == v10
           home == v11
           sent == v12
           titling == v13
           made == v14
           gone == v15
           astray == v16
           stuck == v17
           hasty == v18
           ops == v19
<1>1. Fine(W!Now) /\ W!Now \in W!PanelState
  BY ChatBegins
<1> DEFINE t == [W!Now EXCEPT !.queue = 0]
<1>2. UNCHANGED <<made, gone, stuck, hasty>> /\ ops' \in 0..ChatMaxOps
  BY ChatClickIs DEF W!ClearQueue
<1>3. /\ t \in W!PanelState /\ t.history = history /\ t.disk = disk /\ t.messages = messages /\ t.text = text
      /\ t.isLoading = isLoading /\ t.queue = 0 /\ t.live = live /\ t.listener = listener
      /\ t.acpListener = acpListener /\ t.run = run /\ t.home = home
      /\ t.sent = sent /\ t.titling = titling /\ t.astray = astray
  BY <1>1, ChatNowIs, ChatPanelIs, ChatPanelZero
<1> HIDE DEF t
<1>4. W!Becomes(t)
  BY <1>3 DEF W!ClearQueue, W!Becomes
<1>5. W!Used(t) = W!Used(W!Now)
  BY <1>3, ChatNowIs DEF W!Used
<1>6. W!AtHome(t, W!Used(W!Now)) /\ W!Mirrored(t)
  BY <1>1, <1>3, ChatNowIs DEF Fine, W!AtHome, W!Belongs, W!Mirrored
<1>7. (W!Alone(W!Now) => W!Alone(t)) /\ (W!PanelSaved(W!Now) => W!PanelSaved(t))
  BY <1>3, ChatNowIs DEF W!Alone, W!PanelSaved, W!OnDisk, W!Waited
<1>8. Fine(t) /\ Served(t, stuck) /\ Lists(W!Now, t) /\ (t.queue > 0 => W!Used(t) # ChatRun)
  BY <1>1, <1>3, <1>5, <1>6, <1>7, ChatNowIs DEF Fine, Served, Lists
<1> QED BY <1>2, <1>4, <1>8, ChatStepTidy

\* What was written of the answers is read again.
LEMMA ChatTextReadIs ==
  ASSUME NEW h \in Hist, NEW t \in Texts
  PROVE  /\ [r \in ChatRun |-> W!TextRead(W!Saved(h, t), r)] \in Texts
         /\ W!Saved(h, [r \in ChatRun |-> W!TextRead(W!Saved(h, t), r)]) = W!Saved(h, t)
<1> DEFINE d == W!Saved(h, t)
           u == [r \in ChatRun |-> W!TextRead(d, r)]
           all == UNION {W!ToSet(d.chats[c].messages) : c \in ChatId}
           Read(r) == {x \in all : x.msg = W!Answer(r)}
<1>1. \A c \in ChatId : /\ DOMAIN d.chats[c].messages = DOMAIN h.chats[c].messages
                         /\ \A i \in DOMAIN h.chats[c].messages : d.chats[c].messages[i] =
                              [msg |-> h.chats[c].messages[i], text |-> W!TextOf(h.chats[c].messages[i], t)]
  BY ChatSavedGives
<1> HIDE DEF d
<1>2. \A x \in all : x.text = W!TextOf(x.msg, t)
  <2> TAKE x \in all
  <2>1. PICK c \in ChatId : x \in W!ToSet(d.chats[c].messages)
    OBVIOUS
  <2>2. PICK i \in DOMAIN d.chats[c].messages : x = d.chats[c].messages[i]
    BY <2>1 DEF W!ToSet
  <2>3. x = [msg |-> h.chats[c].messages[i], text |-> W!TextOf(h.chats[c].messages[i], t)]
    BY <1>1, <2>2
  <2> HIDE DEF all
  <2> QED BY <2>3
<1> HIDE DEF all
<1>3. ASSUME NEW r \in ChatRun PROVE \A x \in Read(r) : x.text = t[r]
  <2>1. W!TextOf(W!Answer(r), t) = t[r]
    BY ChatMessageIs DEF W!TextOf
  <2> QED BY <2>1, <1>2
<1>4. ASSUME NEW r \in ChatRun PROVE W!TextRead(d, r) = IF Read(r) = {} THEN 0 ELSE t[r]
  <2>1. W!TextRead(d, r) = IF Read(r) = {} THEN 0 ELSE (CHOOSE x \in Read(r) : TRUE).text
    BY DEF W!TextRead, all
  <2> QED BY <2>1, <1>3
<1>5. u \in Texts
  <2>1. \A r \in ChatRun : t[r] \in 0..ChatMaxText
    BY DEF Texts
  <2>2. \A r \in ChatRun : W!TextRead(d, r) \in 0..ChatMaxText
    BY <1>4, <2>1, ChatAssumption
  <2> QED BY <2>2 DEF Texts
<1>6. \A r \in ChatRun : u[r] = IF Read(r) = {} THEN 0 ELSE t[r]
  BY <1>4
<1> HIDE DEF u, Read
<1>7. ASSUME NEW c \in ChatId
      PROVE  [i \in DOMAIN h.chats[c].messages |-> [msg |-> h.chats[c].messages[i], text |-> W!TextOf(h.chats[c].messages[i], u)]]
             = [i \in DOMAIN h.chats[c].messages |-> [msg |-> h.chats[c].messages[i], text |-> W!TextOf(h.chats[c].messages[i], t)]]
  <2> DEFINE q == h.chats[c].messages
  <2>1. q \in Seq(W!Message)
    BY ChatHistFields
  <2>2. \A i \in DOMAIN q : q[i] \in W!Message
    BY <2>1, LenProperties, ElementOfSeq
  <2>3. ASSUME NEW i \in DOMAIN q PROVE W!TextOf(q[i], u) = W!TextOf(q[i], t)
    <3>1. CASE q[i].who # "ai"
      BY <3>1 DEF W!TextOf
    <3>2. CASE q[i].who = "ai"
      <4> DEFINE r == q[i].run
      <4>1. r \in ChatRun /\ q[i] = W!Answer(r)
        BY <2>2, <3>2 DEF W!Message, W!Answer
      <4>2. d.chats[c].messages[i] = [msg |-> q[i], text |-> W!TextOf(q[i], t)] /\ i \in DOMAIN d.chats[c].messages
        BY <1>1
      <4>3. [msg |-> q[i], text |-> W!TextOf(q[i], t)] \in W!ToSet(d.chats[c].messages)
        BY <4>2 DEF W!ToSet
      <4>4. [msg |-> q[i], text |-> W!TextOf(q[i], t)] \in all
        BY <4>3 DEF all
      <4>5. Read(r) # {}
        BY <4>1, <4>4 DEF Read
      <4>6. u[r] = t[r]
        BY <4>1, <4>5, <1>6
      <4> QED BY <3>2, <4>6 DEF W!TextOf
    <3> QED BY <3>1, <3>2
  <2> HIDE DEF q
  <2>4. [i \in DOMAIN q |-> [msg |-> q[i], text |-> W!TextOf(q[i], u)]] = [i \in DOMAIN q |-> [msg |-> q[i], text |-> W!TextOf(q[i], t)]]
    BY <2>3
  <2> QED BY <2>4 DEF q
<1>8. W!Saved(h, u) = W!Saved(h, t)
  <2> DEFINE e(v) == [c \in ChatId |-> [h.chats[c] EXCEPT !.messages =
        [i \in DOMAIN h.chats[c].messages |-> [msg |-> h.chats[c].messages[i], text |-> W!TextOf(h.chats[c].messages[i], v)]]]]
  <2>1. \A v : W!Saved(h, v) = [h EXCEPT !.chats = e(v)]
    BY DEF W!Saved
  <2>2. e(u) = e(t)
    BY <1>7
  <2> HIDE DEF e
  <2> QED BY <2>1, <2>2
<1> QED BY <1>5, <1>8 DEF u, d

LEMMA ChatStepReload ==
  ASSUME W!IInv, W!Reload
  PROVE  W!IInv'
<1> DEFINE history == v1
           disk == v2
           messages == v3
           run == v10
           home == v11
           made == v14
           gone == v15
           astray == v16
           stuck == v17
           hasty == v18
           ops == v19
<1>1. /\ W!ToSet(history.recency) \subseteq made /\ made \subseteq ChatId /\ stuck \in BOOLEAN
      /\ gone \cup hasty \subseteq ChatId /\ W!Now \in W!PanelState /\ W!AtHome(W!Now, W!Used(W!Now)) /\ W!Mirrored(W!Now)
  BY ChatBegins
<1>2. history \in Hist /\ run \in Stages
  BY <1>1, ChatNowIs, ChatPanelFields
<1>3. PICK t \in Texts : disk = W!Saved(history, t)
  BY <1>1, ChatNowIs DEF W!Mirrored, Texts
<1> DEFINE u == [r \in ChatRun |-> W!TextRead(disk, r)]
           f == [r \in ChatRun |-> IF run[r] = "free" THEN "free" ELSE "over"]
           s == [W!Now EXCEPT !.history = history, !.isLoading = FALSE, !.queue = 0,
                   !.live = {}, !.listener = None, !.acpListener = None, !.titling = {}, !.text = u, !.run = f]
           h == W!CreateNew(history, W!Fresh)
           v == IF disk.current \in W!Listed(disk) THEN s ELSE W!Write(s, h)
           w == W!Show(v)
<1>4. W!Loaded(disk) = history /\ disk.current = history.current /\ disk.recency = history.recency
  BY <1>2, <1>3, ChatSavedGives
<1>5. u \in Texts /\ W!Saved(history, u) = disk
  BY <1>2, <1>3, ChatTextReadIs
<1>f. f \in Stages /\ \A r \in ChatRun : f[r] \in {"free", "over"} /\ (f[r] = "free" <=> run[r] = "free")
  BY <1>2 DEF Stages, W!Stage
<1> HIDE DEF u, f
<1>6. /\ s \in W!PanelState /\ s.history = history /\ s.disk = disk /\ s.messages = messages /\ s.text = u
      /\ s.isLoading = FALSE /\ s.queue = 0 /\ s.live = {} /\ s.run = f /\ s.home = home /\ s.astray = astray
  BY <1>1, <1>5, <1>2, <1>f, ChatNowIs, ChatPanelIs, ChatPanelZero DEF RunOrNone
<1>7. /\ W!Becomes(w) /\ (disk.current \notin W!Listed(disk) => W!MayCreate)
      /\ made' = (IF disk.current \in W!Listed(disk) THEN made ELSE made \cup {W!Fresh})
      /\ UNCHANGED <<gone, stuck, hasty>>
  <2> DEFINE l == [W!Now EXCEPT
           !.history = W!Loaded(disk), !.isLoading = FALSE, !.queue = 0,
           !.live = {}, !.listener = None, !.acpListener = None, !.titling = {},
           !.text = [r \in ChatRun |-> W!TextRead(disk, r)],
           !.run = [r \in ChatRun |-> IF W!Now.run[r] = "free" THEN "free" ELSE "over"]]
  <2>1. l = s
    BY <1>4, ChatNowIs DEF u, f
  <2>2. W!Becomes(W!Show(IF disk.current \in W!Listed(disk) THEN l ELSE W!Write(l, W!CreateNew(l.history, W!Fresh))))
    BY DEF W!Reload
  <2> HIDE DEF l
  <2>3. W!Becomes(w)
    BY <2>1, <2>2, <1>6
  <2> HIDE DEF w
  <2> QED BY <2>3 DEF W!Reload
<1> HIDE DEF s
<1>8. ops' \in 0..ChatMaxOps
  BY ChatClickIs DEF W!Reload
<1>9. W!Used(s) = W!Used(W!Now)
  BY <1>6, <1>f, ChatNowIs DEF W!Used
<1>10. W!AtHome(s, W!Used(s)) /\ W!Alone(s)
  <2>1. \A r \in ChatRun : s.run[r] \notin {"attaching", "closing"}
    BY <1>6, <1>f
  <2>2. W!AtHome(s, W!Used(W!Now))
    BY <2>1, <1>1, <1>6, ChatNowIs, ChatHomeStays
  <2> QED BY <2>1, <2>2, <1>6, <1>9 DEF W!Alone
<1>11. CASE disk.current \in W!Listed(disk)
  <2>1. /\ \A c \in ChatId : \A m \in W!ToSet(s.history.chats[c].messages) : W!Belongs(s, W!Used(s), m, c)
        /\ \A r \in ChatRun : r \in s.live \/ s.run[r] \in {"attaching", "closing"} =>
             r \in W!Used(s) /\ (r \in s.astray \/ s.home[r] = s.history.current)
    BY <1>10 DEF W!AtHome
  <2> DEFINE x == W!Show(s)
  <2>2. Fine(x) /\ Lists(s, x) /\ x.queue = s.queue
    BY <2>1, <1>5, <1>6, <1>10, ChatShowFine
  <2>3. W!Becomes(x) /\ made' = made
    BY <1>7, <1>11
  <2> HIDE DEF x
  <2>4. Served(x, stuck') /\ (x.queue > 0 => W!Used(x) # ChatRun) /\ W!ToSet(x.history.recency) \subseteq made'
    BY <2>2, <2>3, <1>1, <1>6 DEF Served, Lists
  <2>5. made' \subseteq ChatId /\ stuck' \in BOOLEAN /\ gone' \cup hasty' \subseteq ChatId
    BY <2>3, <1>1, <1>7
  <2> QED BY <2>2, <2>3, <2>4, <2>5, <1>8, ChatCloses
<1>12. CASE disk.current \notin W!Listed(disk)
  <2>1. W!Fresh \in ChatId /\ made' = made \cup {W!Fresh}
    BY <1>1, <1>7, <1>12, ChatFreshIs
  <2>2. h \in Hist /\ W!ToSet(h.recency) \subseteq {W!Fresh} \cup W!ToSet(history.recency) /\ Loses(history, h)
    BY <2>1, <1>2, ChatCreateNewGives
  <2> HIDE DEF h
  <2> DEFINE x == W!Show(W!Write(s, h))
  <2>3. Fine(x) /\ W!ToSet(x.history.recency) \subseteq W!ToSet(h.recency) /\ x.queue = s.queue
    <3>1. s.live = {} /\ \A q \in ChatRun : s.run[q] \in {"attaching", "closing"} => q \in s.astray
      BY <1>6, <1>f
    <3> QED BY <3>1, <2>2, <1>6, <1>10, ChatShownFine
  <2>4. W!Becomes(x)
    BY <1>7, <1>12
  <2> HIDE DEF x
  <2>5. Served(x, stuck') /\ (x.queue > 0 => W!Used(x) # ChatRun) /\ W!ToSet(x.history.recency) \subseteq made'
    BY <2>1, <2>2, <2>3, <1>1, <1>6 DEF Served
  <2>6. made' \subseteq ChatId /\ stuck' \in BOOLEAN /\ gone' \cup hasty' \subseteq ChatId
    BY <2>1, <1>1, <1>7
  <2> QED BY <2>3, <2>4, <2>5, <2>6, <1>8, ChatCloses
<1> QED BY <1>11, <1>12

LEMMA ChatInitHolds ==
  ASSUME W!Init
  PROVE  W!IInv
<1> DEFINE history == v1
           disk == v2
           messages == v3
           text == v4
           isLoading == v5
           queue == v6
           live == v7
           listener == v8
           acpListener == v9
           run == v10
           home == v11
           sent == v12
           titling == v13
           made == v14
           gone == v15
           astray == v16
           stuck == v17
           hasty == v18
           ops == v19
<1>1. history = [chats |-> [c \in ChatId |-> [W!Blank EXCEPT !.pinned = c = 1]],
                 recency |-> <<2, 1>>, current |-> 2]
  BY DEF W!Init
<1> DEFINE k == [c \in ChatId |-> [W!Blank EXCEPT !.pinned = c = 1]]
<1>2. \A c \in ChatId : k[c] \in ChatRec /\ k[c].messages = << >>
  <2> TAKE c \in ChatId
  <2> DEFINE b == c = 1
  <2>1. b \in BOOLEAN /\ k[c] = [W!Blank EXCEPT !.pinned = b]
    OBVIOUS
  <2> HIDE DEF b, k
  <2>2. << >> \in Seq(W!Message)
    OBVIOUS
  <2> QED BY <2>1, <2>2 DEF W!Blank, ChatRec
<1>3. k \in [ChatId -> ChatRec]
  BY <1>2
<1> HIDE DEF k
<1>4. <<2, 1>> \in Seq(ChatId) /\ W!ToSet(<<2, 1>>) = {1, 2}
  BY ChatAssumption DEF W!ToSet
<1>5. history \in Hist /\ history.chats = k /\ history.recency = <<2, 1>> /\ history.current = 2
  <2>1. history = [chats |-> k, recency |-> <<2, 1>>, current |-> 2]
    BY <1>1 DEF k
  <2> QED BY <2>1, <1>3, <1>4, ChatAssumption DEF Hist, W!HistoryOf, ChatRec
<1>6. text \in Texts /\ disk = W!Saved(history, text)
  BY ChatAssumption DEF W!Init, Texts
<1>7. disk \in Disk
  BY <1>5, <1>6, ChatSavedGives
<1>8. /\ messages = << >> /\ isLoading = FALSE /\ queue = 0
      /\ live = {} /\ listener = None /\ acpListener = None
      /\ run = [r \in ChatRun |-> "free"]
      /\ home = [r \in ChatRun |-> None] /\ sent = [r \in ChatRun |-> None]
      /\ titling = {} /\ made = {1, 2} /\ gone = {} /\ astray = {}
      /\ stuck = FALSE /\ hasty = {} /\ ops = 0
  BY DEF W!Init
<1>9. W!Now \in W!PanelState
  <2>1. << >> \in Shown /\ run \in Stages /\ home \in Places /\ sent \in Places /\ None \in RunOrNone
    BY <1>8 DEF Shown, Stages, W!Stage, Places, RunOrNone
  <2> QED BY <2>1, <1>5, <1>6, <1>7, <1>8, ChatPanelZero, ChatPanelIs DEF W!Now
<1>10. W!ToSet(<< >>) = {}
  BY DEF W!ToSet
<1>11. W!AtHome(W!Now, W!Used(W!Now))
  BY <1>2, <1>5, <1>8, <1>10, ChatNowIs DEF W!AtHome
<1>12. W!Mirrored(W!Now) /\ W!Alone(W!Now) /\ W!PanelSaved(W!Now)
  BY <1>6, <1>8, <1>10, ChatNowIs DEF W!Mirrored, W!Alone, W!PanelSaved, Texts
<1>13. W!TypeOK
  <2>1. W!ToSet(history.recency) \subseteq made /\ made \subseteq ChatId
    <3>1. W!ToSet(history.recency) = {1, 2}
      BY <1>4, <1>5
    <3> QED BY <3>1, <1>8, ChatAssumption
  <2>2. stuck \in BOOLEAN /\ gone \cup hasty \subseteq ChatId /\ ops \in 0..ChatMaxOps
    <3>1. stuck = FALSE /\ gone = {} /\ hasty = {} /\ ops = 0
      BY <1>8
    <3>2. 0 \in 0..ChatMaxOps
      BY ChatAssumption
    <3> QED BY <3>1, <3>2
  <2> QED BY <2>1, <2>2, <1>9 DEF W!TypeOK
<1>14. W!Sound(W!Now) /\ W!QueueIsServed
  BY <1>8, <1>9, <1>11, <1>12, ChatNowIs DEF W!Sound, W!QueueIsServed
<1> QED BY <1>13, <1>14 DEF W!IInv

LEMMA ChatStutterStep ==
  ASSUME W!IInv, UNCHANGED W!vars
  PROVE  W!IInv'
<1>1. W!Now' = W!Now
  BY DEF W!vars, W!Now
<1>2. W!Sound(W!Now)'
  BY <1>1 DEF W!IInv
<1>3. W!TypeOK'
  BY <1>1 DEF W!IInv, W!TypeOK, W!vars
<1>4. W!QueueIsServed'
  BY DEF W!IInv, W!QueueIsServed, W!vars
<1> QED BY <1>2, <1>3, <1>4 DEF W!IInv

LEMMA ChatNextStep ==
  ASSUME W!IInv, W!Next
  PROVE  W!IInv'
<1>1. ASSUME NEW how \in W!How, W!SendMessage(how) PROVE W!IInv'
  BY <1>1, ChatStepSendMessage
<1>2. ASSUME NEW how \in W!How, NEW i \in 1..(2 * W!Cardinality(ChatRun)), W!Retry(i, how) PROVE W!IInv'
  <2>1. i \in Nat
    BY FS_CardinalityType, ChatAssumption, ChatCounts
  <2> QED BY <1>2, <2>1, ChatStepRetry
<1>3. ASSUME NEW r \in ChatRun, W!StaleClosed(r) \/ W!WebChunk(r) \/ W!WebUsage(r) \/ W!AcpChunk(r) \/ W!AcpDone(r) PROVE W!IInv'
  BY <1>3, ChatStepStaleClosed, ChatStepWebChunk, ChatStepWebUsage, ChatStepAcpChunk,
     ChatStepAcpDone
<1>4. ASSUME NEW r \in ChatRun, NEW how \in W!How,
             W!AttachmentsRead(r, how) \/ W!StreamResolves(r, how) \/ W!StreamRejects(r, how) \/ W!AcpFails(r, how)
      PROVE  W!IInv'
  BY <1>4, ChatStepAttachmentsRead, ChatStepStreamResolves, ChatStepStreamRejects, ChatStepAcpFails
<1>5. ASSUME NEW r \in ChatRun, NEW how \in W!How, NEW n \in 0..ChatMaxText, W!WebDone(r, n, how) \/ W!AcpReply(r, n, how)
      PROVE  W!IInv'
  BY <1>5, ChatStepWebDone, ChatStepAcpReply
<1>6. ASSUME NEW c \in ChatId, W!SwitchSession(c) \/ W!DeleteSession(c) \/ W!ConfirmRename(c) \/ W!TogglePin(c) PROVE W!IInv'
  BY <1>6, ChatStepSwitchSession, ChatStepDeleteSession, ChatStepConfirmRename, ChatStepTogglePin
<1>7. ASSUME NEW c \in ChatId, NEW comes \in BOOLEAN, W!TitleSettles(c, comes) PROVE W!IInv'
  BY <1>7, ChatStepTitleSettles
<1>8. ASSUME W!NewChat \/ W!ClearChat \/ W!Stop \/ W!ClearQueue \/ W!Reload PROVE W!IInv'
  BY <1>8, ChatStepNewChat, ChatStepClearChat, ChatStepStop, ChatStepClearQueue, ChatStepReload
<1> QED BY <1>1, <1>2, <1>3, <1>4, <1>5, <1>6, <1>7, <1>8 DEF W!Next, W!FlushHow, W!How

LEMMA ChatsFollow ==
  ASSUME W!IInv
  PROVE  W!AnswersStayHome /\ W!IdleIsOnDisk /\ W!StopIsOffered /\ W!QueueIsServed
<1> DEFINE history == v1
           disk == v2
           messages == v3
           text == v4
           isLoading == v5
           live == v7
           run == v10
           astray == v16
<1>1. /\ W!Now \in W!PanelState /\ W!AtHome(W!Now, W!Used(W!Now)) /\ W!Mirrored(W!Now)
      /\ (astray = {} => W!Alone(W!Now) /\ W!PanelSaved(W!Now))
  BY ChatBegins
<1>2. W!AnswersStayHome
  BY <1>1, ChatNowIs DEF W!AtHome, W!Belongs, W!AnswersStayHome
<1>3. W!IdleIsOnDisk
  <2> SUFFICES ASSUME ~isLoading, astray = {}, history.current \in W!Listed(history),
                      \A r \in live : run[r] \notin W!Asking \cup {"answered"},
                      NEW m \in W!ToSet(messages), m.who = "user" \/ (m.who = "ai" /\ text[m.run] > 0)
               PROVE  [msg |-> m, text |-> W!TextOf(m, text)] \in W!ToSet(disk.chats[disk.current].messages)
    BY DEF W!IdleIsOnDisk
  <2>1. W!OnDisk(W!Now, m) \/ W!Waited(W!Now, m)
    BY <1>1, ChatNowIs DEF W!PanelSaved
  <2>2. ~W!Waited(W!Now, m)
    BY ChatNowIs DEF W!Waited, W!Asking
  <2> QED BY <2>1, <2>2, ChatNowIs DEF W!OnDisk
<1>4. W!StopIsOffered
  BY <1>1, ChatNowIs DEF W!StopIsOffered, W!Alone
<1> QED BY <1>2, <1>3, <1>4 DEF W!IInv

-----------------------------------------------------------------------------
\* The parts together.

LEMMA WorkspaceInitHolds ==
  ASSUME WorkspaceInit
  PROVE  WorkspaceInv
<1>1. CASE part = "connection" /\ D!Init
  BY <1>1, SocksInitHolds DEF WorkspaceInv
<1>2. CASE part = "connector" /\ K!Init
  BY <1>2, ConnectorInitHolds DEF WorkspaceInv
<1>3. CASE part = "size" /\ Z!Init
  BY <1>3, SizeInitHolds DEF WorkspaceInv
<1>4. CASE part = "explorer" /\ F!Init
  BY <1>4, ExplorerInitHolds DEF WorkspaceInv
<1>5. CASE part = "files" /\ O!Init
  BY <1>5, OperationInitHolds DEF WorkspaceInv
<1>6. CASE part = "chat" /\ W!Init
  BY <1>6, ChatInitHolds DEF WorkspaceInv
<1> QED
  BY <1>1, <1>2, <1>3, <1>4, <1>5, <1>6 DEF WorkspaceInit

LEMMA WorkspaceStep ==
  ASSUME WorkspaceInv, [UNCHANGED part /\ WorkspaceNext]_vars
  PROVE  WorkspaceInv'
<1>1. CASE part = "connection"
  <2>1. D!IInv /\ part' = part
    BY <1>1 DEF WorkspaceInv, vars
  <2>2. CASE D!Next
    BY <1>1, <2>1, <2>2, SocksNextStep DEF WorkspaceInv
  <2>3. CASE UNCHANGED vars
    <3>1. UNCHANGED D!vars
      BY <2>3 DEF vars, D!vars
    <3> QED
      BY <1>1, <2>1, <3>1, SocksStutterStep DEF WorkspaceInv
  <2> QED
    BY <1>1, <2>2, <2>3 DEF WorkspaceNext
<1>2. CASE part = "connector"
  <2>1. K!IInv /\ part' = part
    BY <1>2 DEF WorkspaceInv, vars
  <2>2. CASE K!Next
    BY <1>2, <2>1, <2>2, ConnectorNextStep DEF WorkspaceInv
  <2>3. CASE UNCHANGED vars
    <3>1. UNCHANGED K!vars
      BY <2>3 DEF vars, K!vars
    <3> QED
      BY <1>2, <2>1, <3>1, ConnectorStutterStep DEF WorkspaceInv
  <2> QED
    BY <1>2, <2>2, <2>3 DEF WorkspaceNext
<1>3. CASE part = "size"
  <2>1. Z!IInv /\ part' = part
    BY <1>3 DEF WorkspaceInv, vars
  <2>2. CASE Z!Next
    BY <1>3, <2>1, <2>2, SizeNextStep DEF WorkspaceInv
  <2>3. CASE UNCHANGED vars
    <3>1. UNCHANGED Z!vars
      BY <2>3 DEF vars, Z!vars
    <3> QED
      BY <1>3, <2>1, <3>1, SizeStutterStep DEF WorkspaceInv
  <2> QED
    BY <1>3, <2>2, <2>3 DEF WorkspaceNext
<1>4. CASE part = "explorer"
  <2>1. F!IInv /\ part' = part
    BY <1>4 DEF WorkspaceInv, vars
  <2>2. CASE F!Next
    BY <1>4, <2>1, <2>2, ExplorerNextStep DEF WorkspaceInv
  <2>3. CASE UNCHANGED vars
    <3>1. UNCHANGED F!vars
      BY <2>3 DEF vars, F!vars, F!tabVars, F!localVars
    <3> QED
      BY <1>4, <2>1, <3>1, ExplorerStutterStep DEF WorkspaceInv
  <2> QED
    BY <1>4, <2>2, <2>3 DEF WorkspaceNext
<1>5. CASE part = "files"
  <2>1. O!IInv /\ part' = part
    BY <1>5 DEF WorkspaceInv, vars
  <2>2. CASE O!Next
    BY <1>5, <2>1, <2>2, OperationNextStep DEF WorkspaceInv
  <2>3. CASE UNCHANGED vars
    <3>1. UNCHANGED O!vars
      BY <2>3 DEF vars, O!vars, O!shownVars, O!pickVars, O!pastVars, O!busyVars
    <3> QED
      BY <1>5, <2>1, <3>1, OperationStutterStep DEF WorkspaceInv
  <2> QED
    BY <1>5, <2>2, <2>3 DEF WorkspaceNext
<1>6. CASE part = "chat"
  <2>1. W!IInv /\ part' = part
    BY <1>6 DEF WorkspaceInv, vars
  <2>2. CASE W!Next
    BY <1>6, <2>1, <2>2, ChatNextStep DEF WorkspaceInv
  <2>3. CASE UNCHANGED vars
    <3>1. UNCHANGED W!vars
      BY <2>3 DEF vars, W!vars
    <3> QED
      BY <1>6, <2>1, <3>1, ChatStutterStep DEF WorkspaceInv
  <2> QED
    BY <1>6, <2>2, <2>3 DEF WorkspaceNext
<1>7. CASE part \notin {"connection", "connector", "size", "explorer", "files", "chat"}
  <2>1. part' = part
    BY DEF vars
  <2> QED
    BY <1>7, <2>1 DEF WorkspaceInv
<1> QED
  BY <1>1, <1>2, <1>3, <1>4, <1>5, <1>6, <1>7

\* Every part keeps its inductive invariant, and with it its types, whatever is
\* connected, resized, listed, edited, pasted and asked.
THEOREM WorkspaceInvariant == WorkspaceSpec => []WorkspaceInv
<1>1. WorkspaceInit => WorkspaceInv
  BY WorkspaceInitHolds
<1>2. WorkspaceInv /\ [UNCHANGED part /\ WorkspaceNext]_vars => WorkspaceInv'
  BY WorkspaceStep
<1> QED
  BY <1>1, <1>2, PTL DEF WorkspaceSpec

\* The SOCKS server asks for the address of the request, wherever its bytes are
\* cut; no session or command that is over leaves a connection open; the pty gets
\* the size on screen: for any preambles and sizes (socksServer.js,
\* ssh.connector.js and the other connectors, terminal.component.ts).
THEOREM ConnectionsAreSound == WorkspaceSpec => []ConnectionsSound
<1>1. WorkspaceInv => ConnectionsSound
  BY SizeFollows DEF WorkspaceInv, ConnectionsSound, D!IInv, K!IInv
<1> QED
  BY <1>1, WorkspaceInvariant, PTL

\* A tab of the explorer shows where its user went, its overlay is lifted, and
\* the saves it must send are read; requests are about the rows pointed at, and
\* what was cut is moved once: for any tabs, servers, directories and files, any
\* number of listings, requests and watchers (file-list.component.ts, localFile.js).
THEOREM ExplorersSettle == WorkspaceSpec => []ExplorerSettles
<1>1. WorkspaceInv => ExplorerSettles
  BY ExplorerIsSettled, OperationSound DEF WorkspaceInv, ExplorerSettles
<1> QED
  BY <1>1, WorkspaceInvariant, PTL

\* A question and its answer stay in the chat of the question, what an idle panel
\* shows is on disk, what is waited for can be stopped, and what is queued waits
\* for a run: for any chats, messages, sizes and number of clicks
\* (ai-chat.component.ts, ai-chat-history.service.ts).
THEOREM ChatsAreSound == WorkspaceSpec => []ChatsSound
<1>1. WorkspaceInv => ChatsSound
  BY ChatsFollow DEF WorkspaceInv, ChatsSound
<1> QED
  BY <1>1, WorkspaceInvariant, PTL
==============================================================================
