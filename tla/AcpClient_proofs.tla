---------------------------- MODULE AcpClient_proofs ----------------------------
(* Theorems of AcpClient for any number of calls, processes and keys. *)
EXTENDS AcpClient, SequenceTheorems, TLAPS

-------------------------------------------------------------------------------
(* The calls and the processes *)

\* A call that reads has a process, and whoever will need a key has one.
CallsHold ==
  \A c \in Call :
    /\ Reading(c) => call[c].proc \in Proc
    /\ Reading(c) \/ call[c].at = "closing" => call[c].key \in Key

\* Whoever waits for a line of a process is a call that reads from it.
WaitersRead ==
  \A p \in Proc : \A w \in Call :
    proc[p].waiter = w => w \notin ready /\ Reading(w) /\ call[w].proc = p

MainOK ==
  /\ call \in [Call -> Activation]
  /\ ready \subseteq {c \in Call : Reading(c)}
  /\ proc \in [Proc -> Process]
  /\ registered \in [Key -> Proc \cup {NoProc}]
  /\ CallsHold
  /\ WaitersRead

\* Numbers are calls, and NoCall is none of them.
LEMMA CallFacts == Call \subseteq Nat /\ NoCall \notin Call
BY CallsAssumption, NoneAssumption DEF Call

\* A request of the client is added to what the agent has to do.
LEMMA AskedIs ==
  ASSUME NEW p \in Proc, NEW c \in Call, NEW stage \in Stage, proc \in [Proc -> Process]
  PROVE  /\ Asked(p, c, stage) \in Process
         /\ Asked(p, c, stage).state = proc[p].state
         /\ Asked(p, c, stage).closed = proc[p].closed
         /\ Asked(p, c, stage).waiter = proc[p].waiter
         /\ Asked(p, c, stage).queue = proc[p].queue
         /\ Asked(p, c, stage).todo = Append(proc[p].todo, [call |-> c, stage |-> stage])
<1>1. proc[p] \in Process
  OBVIOUS
<1>2. [call |-> c, stage |-> stage] \in Request
  BY DEF Request
<1>3. Append(proc[p].todo, [call |-> c, stage |-> stage]) \in Seq(Request)
  BY <1>1, <1>2 DEF Process
<1> QED BY <1>1, <1>3 DEF Asked, Process

\* What acp.send changes up to its first read: a process is asked.
Asks(c, k, title, q, stage) ==
  /\ call' = [call EXCEPT ![c] = [at |-> stage, key |-> k, proc |-> q, title |-> title,
                                 text |-> {}]]
  /\ proc' = [proc EXCEPT ![q] = [Asked(q, c, stage) EXCEPT !.state = proc'[q].state]]
  /\ proc'[q].state \in {"up", proc[q].state}
  /\ stage = "prompt" => proc'[q].state = proc[q].state

LEMMA SendAsks ==
  ASSUME MainOK, NEW c \in Call, NEW k \in Key, NEW title \in BOOLEAN, AcpSend(c, k, title)
  PROVE  \E q \in Proc, stage \in {"init", "prompt"} : Asks(c, k, title, q, stage)
<1> DEFINE Entry(q, at) ==
      [at |-> at, key |-> k, proc |-> q, title |-> title, text |-> {}]
<1>1. CASE registered[k] # NoProc
  <2> DEFINE p == registered[k]
             a == Asked(p, c, "prompt")
  <2>1. p \in Proc /\ proc' = [proc EXCEPT ![p] = a] /\ call' = [call EXCEPT ![c] = Entry(p, "prompt")]
    BY <1>1 DEF AcpSend, MainOK
  <2>2. a \in Process /\ a.state = proc[p].state
    BY <2>1, AskedIs DEF Stage, MainOK
  <2> HIDE DEF a, p
  <2>3. proc'[p] = a /\ proc'[p].state = proc[p].state
    BY <2>1, <2>2 DEF MainOK
  <2>4. a = [a EXCEPT !.state = proc'[p].state]
    BY <2>2, <2>3 DEF Process
  <2>5. Asks(c, k, title, p, "prompt")
    BY <2>1, <2>3, <2>4 DEF a, Asks
  <2> QED BY <2>1, <2>5
<1>2. CASE registered[k] = NoProc
  <2> DEFINE Unused == {q \in Proc : proc[q].state = "unused"}
             fresh == CHOOSE q \in Unused : TRUE
  <2>1. fresh \in Proc
    BY <1>2 DEF AcpSend
  <2>2. /\ call' = [call EXCEPT ![c] = Entry(fresh, "init")]
        /\ proc' = [proc EXCEPT ![fresh] = [Asked(fresh, c, "init") EXCEPT !.state = "up"]]
    BY <1>2 DEF AcpSend
  <2> HIDE DEF fresh
  <2>3. Asked(fresh, c, "init") \in Process
    BY <2>1, AskedIs DEF Stage, MainOK
  <2>4. proc'[fresh].state = "up"
    BY <2>1, <2>2, <2>3 DEF MainOK, Process
  <2>5. Asks(c, k, title, fresh, "init")
    BY <2>1, <2>2, <2>4 DEF Asks
  <2> QED BY <2>1, <2>5
<1> QED BY <1>1, <1>2

\* acp.send up to its first read, by a call that does not read yet.
LEMMA SendMain ==
  ASSUME MainOK, NEW c \in Call, NEW k \in Key, NEW title \in BOOLEAN, ~Reading(c),
         AcpSend(c, k, title)
  PROVE  MainOK'
<1> DEFINE Entry(q, at) ==
      [at |-> at, key |-> k, proc |-> q, title |-> title, text |-> {}]
<1> USE CallFacts
<1>0. PICK q \in Proc, stage \in {"init", "prompt"} : Asks(c, k, title, q, stage)
  BY SendAsks
<1>1. /\ call' = [call EXCEPT ![c] = Entry(q, stage)]
      /\ proc' = [proc EXCEPT ![q] = [Asked(q, c, stage) EXCEPT !.state = proc'[q].state]]
      /\ proc'[q].state \in {"up", proc[q].state}
      /\ stage = "prompt" => proc'[q].state = proc[q].state
  BY <1>0 DEF Asks
<1> DEFINE r == Asked(q, c, stage)
<1> HIDE DEF r
<1>2. r \in Process /\ r.closed = proc[q].closed /\ r.waiter = proc[q].waiter /\ r.queue = proc[q].queue
  <2>1. stage \in Stage /\ proc \in [Proc -> Process]
    BY DEF Stage, MainOK
  <2> QED BY <2>1, AskedIs DEF r
<1>3. proc'[q].state \in {"unused", "up", "killed"}
  BY <1>1 DEF MainOK, Process
<1>4. proc' \in [Proc -> Process]
  BY <1>1, <1>2, <1>3 DEF MainOK, Process, r
<1>5. \A p \in Proc : proc'[p].waiter = proc[p].waiter /\ proc'[p].closed = proc[p].closed
  BY <1>1, <1>2 DEF MainOK, r, Process
<1>6. /\ Entry(q, stage) \in Activation
      /\ call' \in [Call -> Activation]
      /\ call'[c] = Entry(q, stage)
      /\ \A d \in Call \ {c} : call'[d] = call[d]
  BY <1>1 DEF MainOK, Activation, Stage
<1>7. ready' = ready \cup {c} /\ UNCHANGED registered
  BY DEF AcpSend
<1>8. Reading(c)' /\ \A d \in Call \ {c} : Reading(d)' = Reading(d)
  BY <1>6 DEF Reading, Stage
<1>9. CallsHold'
  BY <1>6, <1>8 DEF CallsHold, MainOK
<1>10. WaitersRead'
  BY <1>5, <1>6, <1>7, <1>8 DEF WaitersRead, MainOK
<1> QED BY <1>4, <1>6, <1>7, <1>8, <1>9, <1>10 DEF MainOK

\* A call returns: nothing waits for it any more.
LEMMA SettledMain ==
  ASSUME MainOK, NEW c \in Call, Reading(c),
         call' = [call EXCEPT ![c] = Returned(c)], ready' = ready \ {c},
         registered' = registered,
         proc' \in [Proc -> Process],
         \A p \in Proc : /\ proc'[p].state = proc[p].state /\ proc'[p].closed = proc[p].closed
                         /\ proc'[p].waiter \in {proc[p].waiter, NoCall} \ {c}
  PROVE  MainOK'
<1> USE CallFacts
<1>1. Returned(c) \in Activation /\ Returned(c).at = "done"
  BY DEF Returned, NoEntry, Activation, MainOK
<1>2. call' \in [Call -> Activation] /\ call'[c] = Returned(c) /\ \A d \in Call \ {c} : call'[d] = call[d]
  BY <1>1 DEF MainOK
<1>3. ~Reading(c)' /\ \A d \in Call \ {c} : Reading(d)' = Reading(d)
  BY <1>1, <1>2 DEF Reading, Stage
<1>4. CallsHold'
  BY <1>1, <1>2, <1>3 DEF CallsHold, MainOK
<1>5. WaitersRead'
  BY <1>2, <1>3 DEF WaitersRead, MainOK
<1> QED BY <1>2, <1>3, <1>4, <1>5 DEF MainOK

\* What happens to a process wakes the call that waits for it.
LEMMA WokenMain ==
  ASSUME MainOK, NEW p \in Proc, NEW x \in Process, x.waiter = NoCall,
         proc' = [proc EXCEPT ![p] = x], ready' = ready \cup Woken(p),
         call' \in [Call -> Activation],
         \A d \in Call : Reading(d) => call'[d] = call[d]
  PROVE  /\ ready' \subseteq {c \in Call : Reading(c)}'
         /\ proc' \in [Proc -> Process]
         /\ WaitersRead'
<1> USE CallFacts
<1>1. \A d \in Call : Reading(d) => Reading(d)'
  BY DEF Reading
<1>2. Woken(p) \subseteq {c \in Call : Reading(c)}
  <2>1. proc[p].waiter \in Call \cup {NoCall}
    BY DEF MainOK, Process
  <2>2. \A w \in Woken(p) : w \in Call /\ proc[p].waiter = w
    BY <2>1 DEF Woken
  <2> QED BY <2>2 DEF MainOK, WaitersRead
<1>3. proc' \in [Proc -> Process]
  BY DEF MainOK
<1>4. WaitersRead'
  <2> SUFFICES ASSUME NEW q \in Proc, NEW w \in Call, proc'[q].waiter = w
               PROVE  w \notin ready' /\ Reading(w)' /\ call'[w].proc = q
    BY DEF WaitersRead
  <2>1. q # p /\ proc[q].waiter = w
    BY DEF MainOK
  <2>2. w \notin ready /\ Reading(w) /\ call[w].proc = q
    BY <2>1 DEF WaitersRead, MainOK
  <2>3. w \notin Woken(p)
    <3> SUFFICES ASSUME proc[p].waiter = w PROVE FALSE
      BY DEF Woken
    <3> QED BY <2>1, <2>2 DEF WaitersRead, MainOK
  <2> QED BY <1>1, <2>2, <2>3
<1> QED BY <1>1, <1>2, <1>3, <1>4 DEF MainOK

\* The stdout of a process closes.
LEMMA ClosedIs ==
  ASSUME NEW p \in Proc, proc \in [Proc -> Process]
  PROVE  /\ Closed(p) \in Process
         /\ Closed(p).waiter = NoCall /\ Closed(p).closed /\ Closed(p).state = proc[p].state
<1>1. proc[p] \in Process
  OBVIOUS
<1>2. << >> \in Seq(Request)
  BY EmptySeq
<1> QED BY <1>1, <1>2 DEF Closed, Process

\* acp.close, and a call that waits for it.
LEMMA CloseMain ==
  ASSUME MainOK, NEW c \in Call, NEW k \in Key, NEW l \in Key, ~Reading(c), CloseSession(l),
         call' = [call EXCEPT ![c] = [@ EXCEPT !.at = "closing", !.key = k]]
  PROVE  MainOK'
<1> USE CallFacts
<1>1. /\ call' \in [Call -> Activation] /\ ~Reading(c)'
      /\ call'[c].at = "closing" /\ call'[c].key = k
      /\ \A d \in Call \ {c} : call'[d] = call[d] /\ Reading(d)' = Reading(d)
  BY DEF MainOK, Activation, Reading, Stage
<1>2. CallsHold'
  BY <1>1 DEF CallsHold, MainOK
<1>3. \A d \in Call : Reading(d) => call'[d] = call[d]
  BY <1>1
<1>5. CASE registered[l] = NoProc
  <2>1. UNCHANGED <<registered, proc, ready>>
    BY <1>5 DEF CloseSession
  <2>2. WaitersRead'
    BY <1>1, <2>1 DEF WaitersRead, MainOK
  <2> QED BY <1>1, <1>2, <2>1, <2>2 DEF MainOK
<1>6. CASE registered[l] # NoProc
  <2> DEFINE p == registered[l]
             x == [Closed(p) EXCEPT !.state = "killed"]
  <2>1. /\ p \in Proc /\ registered' = [registered EXCEPT ![l] = NoProc]
        /\ proc' = [proc EXCEPT ![p] = x] /\ ready' = ready \cup Woken(p)
    BY <1>6 DEF CloseSession, MainOK
  <2>2. x \in Process /\ x.waiter = NoCall /\ x.state = "killed"
    <3> DEFINE y == Closed(p)
    <3>1. y \in Process /\ y.waiter = NoCall
      BY <2>1, ClosedIs DEF MainOK
    <3> HIDE DEF y
    <3>2. y \in Process => /\ [y EXCEPT !.state = "killed"] \in Process
                          /\ [y EXCEPT !.state = "killed"].waiter = y.waiter
                          /\ [y EXCEPT !.state = "killed"].state = "killed"
      BY DEF Process
    <3> QED BY <3>1, <3>2 DEF y
  <2> HIDE DEF x, p
  <2>3. /\ ready' \subseteq {d \in Call : Reading(d)}' /\ proc' \in [Proc -> Process]
        /\ WaitersRead'
    BY <1>1, <1>3, <2>1, <2>2, WokenMain
  <2>4. registered' \in [Key -> Proc \cup {NoProc}]
    BY <2>1 DEF MainOK
  <2> QED BY <1>1, <1>2, <2>3, <2>4 DEF MainOK
<1> QED BY <1>5, <1>6

\* No call changes its place and only the lines of processes change.
LEMMA KeptMain ==
  ASSUME MainOK, call' \in [Call -> Activation], UNCHANGED <<ready, registered>>,
         \A d \in Call : /\ call'[d].at = call[d].at /\ call'[d].proc = call[d].proc
                         /\ call'[d].key = call[d].key,
         proc' \in [Proc -> Process],
         \A q \in Proc : /\ proc'[q].state = proc[q].state /\ proc'[q].closed = proc[q].closed
                         /\ proc'[q].waiter = proc[q].waiter
  PROVE  MainOK'
<1> USE CallFacts
<1>1. \A d \in Call : Reading(d)' = Reading(d)
  BY DEF Reading
<1>2. CallsHold'
  BY <1>1 DEF CallsHold, MainOK
<1>3. WaitersRead'
  BY <1>1 DEF WaitersRead, MainOK
<1> QED BY <1>1, <1>2, <1>3 DEF MainOK

\* A line is taken from the queue of a process.
LEMMA TakenIs ==
  ASSUME NEW p \in Proc, proc \in [Proc -> Process], proc[p].queue # << >>
  PROVE  /\ Head(proc[p].queue) \in Line
         /\ [proc[p] EXCEPT !.queue = Tail(@)] \in Process
         /\ \A x \in [Proc -> Process] : x = [proc EXCEPT ![p].queue = Tail(@)] =>
              \A q \in Proc : /\ x[q].state = proc[q].state /\ x[q].closed = proc[q].closed
                              /\ x[q].waiter = proc[q].waiter
         /\ [proc EXCEPT ![p].queue = Tail(@)] \in [Proc -> Process]
<1>1. proc[p] \in Process /\ proc[p].queue \in Seq(Line)
  BY DEF Process
<1>2. Head(proc[p].queue) \in Line /\ Tail(proc[p].queue) \in Seq(Line)
  BY <1>1, HeadTailProperties
<1>3. [proc[p] EXCEPT !.queue = Tail(@)] \in Process
  BY <1>1, <1>2 DEF Process
<1>4. [proc EXCEPT ![p].queue = Tail(@)] \in [Proc -> Process]
  BY <1>3
<1>5. ASSUME NEW x \in [Proc -> Process], x = [proc EXCEPT ![p].queue = Tail(@)], NEW q \in Proc
      PROVE  /\ x[q].state = proc[q].state /\ x[q].closed = proc[q].closed
             /\ x[q].waiter = proc[q].waiter
  BY <1>1, <1>5 DEF Process
<1> QED BY <1>2, <1>3, <1>4, <1>5

\* A line for the loop of acp.send.
LEMMA AnsweringMain ==
  ASSUME MainOK, NEW c \in Call, c \in ready, call[c].at = "prompt",
         proc[call[c].proc].queue # << >>, Answering(c, Head(proc[call[c].proc].queue))
  PROVE  MainOK'
<1> DEFINE p == call[c].proc
           line == Head(proc[p].queue)
<1>1. p \in Proc /\ Reading(c) /\ call[c] \in Activation
  BY DEF MainOK, CallsHold
<1>2. /\ line \in Line /\ proc' \in [Proc -> Process]
      /\ \A q \in Proc : /\ proc'[q].state = proc[q].state /\ proc'[q].closed = proc[q].closed
                         /\ proc'[q].waiter = proc[q].waiter
  BY <1>1, TakenIs DEF MainOK, Answering
<1>3. \A q \in Proc : proc'[q].waiter \in {proc[q].waiter, NoCall} \ {c}
  BY <1>1, <1>2 DEF MainOK, WaitersRead
<1>4. UNCHANGED registered
  BY DEF Answering
<1> HIDE DEF line, p
<1>5. CASE call' = [call EXCEPT ![c] = Returned(c)] /\ ready' = ready \ {c}
  BY <1>1, <1>2, <1>3, <1>4, <1>5, SettledMain DEF MainOK
<1>6. CASE UNCHANGED <<call, ready>>
  BY <1>2, <1>4, <1>6, KeptMain DEF MainOK
<1>7. ASSUME NEW text \in SUBSET Call, call' = [call EXCEPT ![c] = [@ EXCEPT !.text = text]],
             ready' = ready
      PROVE  MainOK'
  <2>1. /\ call' \in [Call -> Activation]
        /\ \A d \in Call : /\ call'[d].at = call[d].at /\ call'[d].proc = call[d].proc
                           /\ call'[d].key = call[d].key
    BY <1>1, <1>7 DEF Activation, MainOK
  <2> QED BY <1>2, <1>4, <1>7, <2>1, KeptMain
<1>8. CASE OnUpdate(c, line)
  <2> DEFINE text == CASE line.is = "text" -> call[c].text \cup {line.call}
                       [] line.is = "full" -> {line.call}
                       [] OTHER -> call[c].text
  <2>1. text \in SUBSET Call
    BY <1>1, <1>2 DEF Line, Activation
  <2>2. \/ call' = [call EXCEPT ![c] = Returned(c)] /\ ready' = ready \ {c}
        \/ call' = [call EXCEPT ![c] = [@ EXCEPT !.text = text]] /\ ready' = ready
    BY <1>8 DEF OnUpdate
  <2> HIDE DEF text
  <2> QED BY <1>5, <1>7, <2>1, <2>2
<1>9. CASE OnReply(c, line)
  BY <1>5, <1>6, <1>9 DEF OnReply, Settle
<1> QED BY <1>8, <1>9 DEF Answering, line, p

\* A line for a handshake.
LEMMA HandshakeMain ==
  ASSUME MainOK, NEW c \in Call, c \in ready, call[c].at # "prompt",
         proc[call[c].proc].queue # << >>, Handshake(c, Head(proc[call[c].proc].queue))
  PROVE  MainOK'
<1> USE CallFacts
<1> DEFINE p == call[c].proc
           line == Head(proc[p].queue)
           next == IF call[c].at = "init" THEN "new" ELSE "prompt"
           rest == [Asked(p, c, next) EXCEPT !.queue = Tail(@)]
           taken == [proc EXCEPT ![p].queue = Tail(@)]
<1>1. /\ p \in Proc /\ Reading(c) /\ call[c] \in Activation /\ call[c].key \in Key
      /\ call[c].at \in {"init", "new"}
  BY DEF MainOK, CallsHold, Reading, Stage
<1>2. proc' = taken =>
      /\ proc' \in [Proc -> Process]
      /\ \A q \in Proc : /\ proc'[q].state = proc[q].state /\ proc'[q].closed = proc[q].closed
                         /\ proc'[q].waiter = proc[q].waiter
  <2>1. proc[p].queue # << >> /\ proc \in [Proc -> Process]
    BY DEF MainOK
  <2> HIDE DEF p
  <2>2. taken \in [Proc -> Process]
    BY <1>1, <2>1, TakenIs
  <2>3. \A q \in Proc : /\ taken[q].state = proc[q].state /\ taken[q].closed = proc[q].closed
                        /\ taken[q].waiter = proc[q].waiter
    BY <1>1, <2>1, <2>2, TakenIs
  <2> HIDE DEF taken
  <2> QED BY <2>2, <2>3
<1>3. \A q \in Proc : proc[q].waiter # c
  BY DEF MainOK, WaitersRead
<1> HIDE DEF taken
<1>4. CASE line.call # c \/ line.stage # call[c].at
  <2>1. proc' = taken /\ UNCHANGED <<call, ready, registered>>
    BY <1>4 DEF Handshake, taken
  <2> QED BY <1>2, <2>1, KeptMain DEF MainOK
<1>5. CASE ~(line.call # c \/ line.stage # call[c].at) /\ line.is = "error"
  <2>1. proc' = taken /\ Fail(c) /\ UNCHANGED registered
    BY <1>5 DEF Handshake, taken
  <2>2. call' = [call EXCEPT ![c] = Returned(c)] /\ ready' = ready \ {c}
    BY <2>1 DEF Fail, Settle
  <2> QED BY <1>1, <1>2, <1>3, <2>1, <2>2, SettledMain DEF MainOK
<1>6. CASE ~(line.call # c \/ line.stage # call[c].at) /\ line.is # "error"
  <2>1. /\ proc' = [proc EXCEPT ![p] = rest] /\ call' = [call EXCEPT ![c].at = next]
        /\ IF next = "prompt" THEN Register(c) ELSE UNCHANGED registered
        /\ ready' = ready
    BY <1>6 DEF Handshake
  <2>2. /\ rest \in Process /\ rest.state = proc[p].state /\ rest.closed = proc[p].closed
        /\ rest.waiter = proc[p].waiter
    <3> DEFINE a == Asked(p, c, next)
    <3>1. /\ a \in Process /\ a.state = proc[p].state /\ a.closed = proc[p].closed
          /\ a.waiter = proc[p].waiter /\ a.queue = proc[p].queue
      BY <1>1, AskedIs DEF MainOK, Stage
    <3> HIDE DEF a
    <3>2. Tail(a.queue) \in Seq(Line)
      BY <3>1, HeadTailProperties DEF Process
    <3>3. LET x == [a EXCEPT !.queue = Tail(@)] IN
          x \in Process /\ x.state = a.state /\ x.closed = a.closed /\ x.waiter = a.waiter
      BY <3>1, <3>2 DEF Process
    <3> QED BY <3>1, <3>3 DEF a
  <2> HIDE DEF rest
  <2>3. /\ proc' \in [Proc -> Process]
        /\ \A q \in Proc : /\ proc'[q].state = proc[q].state /\ proc'[q].closed = proc[q].closed
                           /\ proc'[q].waiter = proc[q].waiter
    BY <1>1, <2>1, <2>2 DEF MainOK
  <2>4. /\ call' \in [Call -> Activation] /\ call'[c].at = next
        /\ \A d \in Call : call'[d].proc = call[d].proc /\ call'[d].key = call[d].key
        /\ \A d \in Call \ {c} : call'[d].at = call[d].at
        /\ \A d \in Call : Reading(d)' = Reading(d)
    BY <1>1, <2>1 DEF MainOK, Activation, Reading, Stage
  <2>5. CallsHold' /\ WaitersRead'
    BY <2>1, <2>3, <2>4, <1>1 DEF CallsHold, WaitersRead, MainOK
  <2>6. registered' \in [Key -> Proc \cup {NoProc}]
    BY <1>1, <2>1 DEF Register, MainOK
  <2> QED BY <2>1, <2>3, <2>4, <2>5, <2>6 DEF MainOK
<1> QED BY <1>4, <1>5, <1>6

\* The next line for a call, the end of the stream, or the wait for one.
LEMMA PumpMain ==
  ASSUME MainOK, NEW c \in Call, Pump(c)
  PROVE  MainOK'
<1> USE CallFacts
<1> DEFINE p == call[c].proc
<1>1. c \in ready /\ p \in Proc /\ Reading(c)
  BY DEF MainOK, CallsHold, Pump
<1>2. \A q \in Proc : proc[q].waiter # c /\ proc[q].waiter \in Call \cup {NoCall}
  BY <1>1 DEF MainOK, WaitersRead, Process
<1>3. CASE proc[p].queue # << >>
  BY <1>1, <1>3, AnsweringMain, HandshakeMain DEF Pump
<1>4. CASE proc[p].queue = << >> /\ proc[p].closed
  <2>1. Fail(c) /\ UNCHANGED <<proc, registered>>
    BY <1>4 DEF Pump
  <2>2. call' = [call EXCEPT ![c] = Returned(c)] /\ ready' = ready \ {c}
    BY <2>1 DEF Fail, Settle
  <2> QED BY <1>1, <1>2, <2>1, <2>2, SettledMain DEF MainOK
<1>5. CASE proc[p].queue = << >> /\ ~proc[p].closed
  <2>1. /\ proc' = [proc EXCEPT ![p].waiter = c] /\ ready' = ready \ {c}
        /\ UNCHANGED <<call, registered>>
    BY <1>5 DEF Pump
  <2>2. /\ proc' \in [Proc -> Process] /\ proc'[p].waiter = c
        /\ \A q \in Proc \ {p} : proc'[q] = proc[q]
        /\ \A q \in Proc : proc'[q].state = proc[q].state /\ proc'[q].closed = proc[q].closed
    <3> DEFINE x == [proc[p] EXCEPT !.waiter = c]
    <3>1. p \in Proc /\ proc[p] \in Process /\ proc' = [proc EXCEPT ![p] = x]
      BY <1>1, <2>1 DEF MainOK
    <3> HIDE DEF p
    <3>2. /\ x \in Process /\ x.waiter = c
          /\ x.state = proc[p].state /\ x.closed = proc[p].closed
      BY <3>1 DEF Process
    <3> HIDE DEF x
    <3> QED BY <3>1, <3>2 DEF MainOK
  <2>3. WaitersRead'
    BY <1>1, <2>1, <2>2 DEF WaitersRead, MainOK, Reading
  <2>4. CallsHold'
    BY <2>1, <2>2 DEF CallsHold, MainOK, Reading
  <2> QED BY <2>1, <2>2, <2>3, <2>4 DEF MainOK, Reading
<1> QED BY <1>3, <1>4, <1>5

\* A read that times out.
LEMMA TimeoutMain ==
  ASSUME MainOK, NEW c \in Call, ReadTimeout(c)
  PROVE  MainOK'
<1> USE CallFacts
<1> DEFINE p == call[c].proc
<1>1. p \in Proc /\ Reading(c)
  BY DEF MainOK, CallsHold, ReadTimeout
<1>2. \A q \in Proc \ {p} : proc[q].waiter # c
  BY DEF MainOK, WaitersRead
<1>3. /\ call' = [call EXCEPT ![c] = Returned(c)] /\ ready' = ready \ {c}
      /\ proc' = [proc EXCEPT ![p].waiter = NoCall] /\ registered' = registered
  BY DEF ReadTimeout, Fail, Settle
<1>4. proc' \in [Proc -> Process]
  BY <1>1, <1>3 DEF MainOK, Process
<1>5. \A q \in Proc : /\ proc'[q].state = proc[q].state /\ proc'[q].closed = proc[q].closed
                      /\ proc'[q].waiter \in {proc[q].waiter, NoCall} \ {c}
  BY <1>1, <1>2, <1>3 DEF MainOK, Process
<1> QED BY <1>1, <1>3, <1>4, <1>5, SettledMain DEF MainOK

\* What an agent does.
LEMMA AgentMain ==
  ASSUME MainOK, NEW p \in Proc,
         AgentReplies(p) \/ AgentUpdates(p) \/ StdoutEnds(p) \/ ChildCloses(p)
  PROVE  MainOK'
<1> USE CallFacts
<1>1. ASSUME NEW x \in Process, x.waiter = NoCall, x.state = proc[p].state,
             proc[p].closed => x.closed,
             proc' = [proc EXCEPT ![p] = x], ready' = ready \cup Woken(p),
             UNCHANGED <<call, registered>>
      PROVE  MainOK'
  <2>1. CallsHold'
    BY <1>1 DEF CallsHold, MainOK, Reading
  <2> QED BY <1>1, <2>1, WokenMain DEF MainOK
<1>2. ASSUME NEW is \in {"reply", "error"} \cup Update, Emit(p, is), proc[p].todo # << >>,
             UNCHANGED <<call, registered>>
      PROVE  MainOK'
  <2> DEFINE r == Head(proc[p].todo)
             line == [call |-> r.call, stage |-> r.stage, is |-> is]
             rest == IF is \in {"reply", "error"} THEN Tail(proc[p].todo) ELSE proc[p].todo
             x == [proc[p] EXCEPT !.queue = Append(@, line), !.waiter = NoCall, !.todo = rest]
  <2>1. proc[p] \in Process /\ proc[p].todo \in Seq(Request) /\ proc[p].queue \in Seq(Line)
    BY DEF MainOK, Process
  <2>2. r \in Request /\ Tail(proc[p].todo) \in Seq(Request)
    BY <1>2, <2>1, HeadTailProperties
  <2>3. line \in Line
    BY <2>2 DEF Line, Request
  <2> HIDE DEF r, line
  <2>4. rest \in Seq(Request) /\ Append(proc[p].queue, line) \in Seq(Line)
    BY <2>1, <2>2, <2>3
  <2>5. proc' = [proc EXCEPT ![p] = x] /\ ready' = ready \cup Woken(p)
    BY <1>2 DEF Emit, MainOK, line, r
  <2> HIDE DEF rest
  <2>6. x \in Process /\ x.waiter = NoCall /\ x.state = proc[p].state /\ x.closed = proc[p].closed
    BY <2>1, <2>4 DEF Process
  <2> HIDE DEF x
  <2> QED BY <1>1, <1>2, <2>5, <2>6
<1>3. CASE AgentReplies(p)
  BY <1>2, <1>3 DEF AgentReplies
<1>4. CASE AgentUpdates(p)
  BY <1>2, <1>4 DEF AgentUpdates
<1>5. CASE StdoutEnds(p)
  <2>1. /\ proc' = [proc EXCEPT ![p] = Closed(p)] /\ ready' = ready \cup Woken(p)
        /\ UNCHANGED <<call, registered>>
    BY <1>5 DEF StdoutEnds
  <2> QED BY <1>1, <2>1, ClosedIs DEF MainOK
<1>6. CASE ChildCloses(p)
  <2>1. /\ registered' = [k \in Key |-> IF registered[k] = p THEN NoProc ELSE registered[k]]
        /\ proc[p].closed /\ UNCHANGED <<call, ready, proc>>
    BY <1>6 DEF ChildCloses
  <2>2. registered' \in [Key -> Proc \cup {NoProc}]
    BY <2>1 DEF MainOK
  <2>3. CallsHold' /\ WaitersRead'
    BY <2>1 DEF CallsHold, WaitersRead, MainOK, Reading
  <2> QED BY <2>1, <2>2, <2>3 DEF MainOK, Reading
<1> QED BY <1>3, <1>4, <1>5, <1>6

-------------------------------------------------------------------------------
(* The order of calls, lines and answers *)

\* Calls are made in order.
Unsent == \A c \in Call : c > sent => call[c].at = "unused" /\ ~call[c].title

\* No text and no line is of a call that was not made.
TextsSent ==
  /\ \A c \in Call : call[c].text \subseteq 1..sent
  /\ \A i \in DOMAIN toUi : toUi[i].text \subseteq 1..sent
LinesSent ==
  \A p \in Proc :
    /\ \A i \in DOMAIN proc[p].queue : proc[p].queue[i].call \in 1..sent
    /\ \A i \in DOMAIN proc[p].todo : proc[p].todo[i].call \in 1..sent

\* The i-th message of a queue is the answer to call c.
Answers(mail, i, c) == i \in DOMAIN mail /\ IsAnswer(mail[i]) /\ mail[i].call = c

\* A call is answered once, when it is over.
AnsweredOnce ==
  \A c \in Call : \A i \in DOMAIN toUi :
    Answers(toUi, i, c) =>
      /\ call[c].at = "done"
      /\ \A j \in DOMAIN toUi : Answers(toUi, j, c) => j = i

Order ==
  /\ sent \in 0..Calls /\ toUi \in Seq(Event)
  /\ Unsent
  /\ TextsSent /\ LinesSent
  /\ AnsweredOnce

LEMMA HeadTail ==
  ASSUME NEW M, NEW s \in Seq(M), s # << >>
  PROVE  /\ Head(s) \in M
         /\ Tail(s) \in Seq(M)
         /\ 1 \in DOMAIN s /\ s[1] = Head(s)
         /\ \A i \in DOMAIN Tail(s) : i + 1 \in DOMAIN s /\ Tail(s)[i] = s[i + 1] /\ i \in Nat \ {0}
  OBVIOUS

LEMMA AppendIs ==
  ASSUME NEW M, NEW s \in Seq(M), NEW m \in M
  PROVE  /\ Append(s, m) \in Seq(M)
         /\ \A i \in DOMAIN Append(s, m) :
              \/ i \in DOMAIN s /\ Append(s, m)[i] = s[i]
              \/ i = Len(s) + 1 /\ i \notin DOMAIN s /\ Append(s, m)[i] = m
  OBVIOUS

\* Calls that make no step keep the order while no message comes and goes.
LEMMA KeptOrder ==
  ASSUME Order, toUi' = toUi, sent' \in 0..Calls, sent <= sent', LinesSent',
         \A d \in Call : \/ /\ call'[d].at = call[d].at /\ call'[d].text = call[d].text
                            /\ call'[d].title = call[d].title
                         \/ /\ d <= sent' /\ call[d].at # "done"
                            /\ call'[d].text \in {{}, call[d].text}
  PROVE  Order'
<1> USE CallFacts
<1>0. sent \in Nat /\ sent' \in Nat /\ Call \subseteq Nat
  BY CallsAssumption DEF Order
<1>1. 1..sent \subseteq 1..sent'
  BY <1>0
<1>2. Unsent'
  <2> SUFFICES ASSUME NEW d \in Call, d > sent' PROVE call'[d].at = "unused" /\ ~call'[d].title
    BY DEF Unsent
  <2>1. d \in Nat /\ d > sent /\ ~(d <= sent')
    BY <1>0
  <2>2. call'[d].at = call[d].at /\ call'[d].title = call[d].title
    BY <2>1
  <2> QED BY <2>1, <2>2 DEF Order, Unsent
<1>3. TextsSent'
  BY <1>1 DEF Order, TextsSent
<1>4. AnsweredOnce'
  <2> SUFFICES ASSUME NEW d \in Call, NEW i \in DOMAIN toUi, Answers(toUi, i, d)
               PROVE  /\ call'[d].at = "done"
                      /\ \A j \in DOMAIN toUi : Answers(toUi, j, d) => j = i
    BY DEF AnsweredOnce
  <2>1. call[d].at = "done" /\ \A j \in DOMAIN toUi : Answers(toUi, j, d) => j = i
    BY DEF Order, AnsweredOnce
  <2> QED BY <2>1
<1> QED BY <1>2, <1>3, <1>4 DEF Order

\* The lines of a process stay those of calls that were made.
LEMMA LinesKept ==
  ASSUME MainOK, Order, NEW p \in Proc, NEW x \in Process,
         proc' = [proc EXCEPT ![p] = x], sent' \in Nat, sent <= sent',
         \A i \in DOMAIN x.queue : x.queue[i].call \in 1..sent',
         \A i \in DOMAIN x.todo : x.todo[i].call \in 1..sent'
  PROVE  LinesSent'
<1>1. sent \in Nat /\ 1..sent \subseteq 1..sent'
  BY CallsAssumption DEF Order
<1>2. \A q \in Proc : q # p => proc'[q] = proc[q]
  BY DEF MainOK
<1>3. proc'[p] = x
  BY DEF MainOK
<1> QED BY <1>1, <1>2, <1>3 DEF Order, LinesSent

\* acp.send up to its first read.
LEMMA SendOrder ==
  ASSUME MainOK, Order, NEW c \in Call, NEW k \in Key, NEW title \in BOOLEAN,
         AcpSend(c, k, title), call[c].at \in {"unused", "closing"},
         toUi' = toUi, sent' \in 0..Calls, sent <= sent', c <= sent'
  PROVE  Order'
<1> USE CallFacts
<1>1. PICK q \in Proc, stage \in {"init", "prompt"} : Asks(c, k, title, q, stage)
  BY SendAsks
<1> DEFINE a == Asked(q, c, stage)
           r == [call |-> c, stage |-> stage]
           x == [a EXCEPT !.state = proc'[q].state]
<1>2. a \in Process /\ a.queue = proc[q].queue /\ a.todo = Append(proc[q].todo, r)
  BY AskedIs DEF MainOK, Stage
<1>3. proc' = [proc EXCEPT ![q] = x] /\ proc'[q].state \in {"unused", "up", "killed"}
  BY <1>1 DEF Asks, MainOK, Process
<1>4. x \in Process /\ x.queue = proc[q].queue /\ x.todo = Append(proc[q].todo, r)
  <2> HIDE DEF a, r
  <2> QED BY <1>2, <1>3 DEF Process
<1> HIDE DEF x, a
<1>5. c \in 1..sent' /\ sent' \in Nat /\ sent \in Nat /\ 1..sent \subseteq 1..sent'
  BY CallsAssumption DEF Call, Order
<1>6. proc[q].todo \in Seq(Request) /\ r \in Request
  BY DEF MainOK, Process, Request, Stage
<1>7. \A i \in DOMAIN x.todo : x.todo[i].call \in 1..sent'
  BY <1>4, <1>5, <1>6, AppendIs DEF Order, LinesSent
<1>8. \A i \in DOMAIN x.queue : x.queue[i].call \in 1..sent'
  BY <1>4, <1>5 DEF Order, LinesSent
<1>9. LinesSent'
  BY <1>3, <1>4, <1>5, <1>7, <1>8, LinesKept
<1>10. \A d \in Call : d # c => call'[d] = call[d]
  BY <1>1 DEF Asks, MainOK
<1>11. call'[c].text = {}
  BY <1>1 DEF Asks, MainOK
<1> QED BY <1>9, <1>10, <1>11, KeptOrder

\* acp.close, and the call that waits for it.
LEMMA CloseOrder ==
  ASSUME MainOK, Order, NEW c \in Call, NEW k \in Key, NEW l \in Key, CloseSession(l),
         call' = [call EXCEPT ![c] = [@ EXCEPT !.at = "closing", !.key = k]],
         call[c].at = "unused",
         toUi' = toUi, sent' \in 0..Calls, sent <= sent', c <= sent'
  PROVE  Order'
<1>1. sent' \in Nat /\ sent \in Nat /\ 1..sent \subseteq 1..sent'
  BY CallsAssumption DEF Order
<1>2. LinesSent'
  <2>1. CASE registered[l] = NoProc
    BY <1>1, <2>1 DEF CloseSession, Order, LinesSent
  <2>2. CASE registered[l] # NoProc
    <3> DEFINE p == registered[l]
               y == Closed(p)
               x == [y EXCEPT !.state = "killed"]
    <3>1. p \in Proc /\ proc' = [proc EXCEPT ![p] = x]
      BY <2>2 DEF CloseSession, MainOK
    <3> HIDE DEF p
    <3>2. y \in Process /\ y.queue = proc[p].queue /\ y.todo = << >>
      BY <3>1, ClosedIs DEF MainOK, Closed, Process
    <3> HIDE DEF y
    <3>3. x \in Process /\ x.queue = proc[p].queue /\ x.todo = << >>
      BY <3>2 DEF Process
    <3> HIDE DEF x
    <3>4. \A i \in DOMAIN x.queue : x.queue[i].call \in 1..sent'
      BY <1>1, <3>1, <3>3 DEF Order, LinesSent
    <3>5. \A i \in DOMAIN x.todo : x.todo[i].call \in 1..sent'
      BY <3>3
    <3> QED BY <1>1, <3>1, <3>3, <3>4, <3>5, LinesKept
  <2> QED BY <2>1, <2>2
<1>3. call'[c].text = call[c].text /\ \A d \in Call : d # c => call'[d] = call[d]
  BY DEF MainOK, Activation
<1> QED BY <1>2, <1>3, KeptOrder

\* What an agent does.
LEMMA AgentOrder ==
  ASSUME MainOK, Order, NEW p \in Proc,
         AgentReplies(p) \/ AgentUpdates(p) \/ StdoutEnds(p) \/ ChildCloses(p)
  PROVE  Order'
<1>1. UNCHANGED <<call, toUi, sent>>
  BY DEF AgentReplies, AgentUpdates, StdoutEnds, ChildCloses
<1>2. sent \in Nat
  BY CallsAssumption DEF Order
<1>3. LinesSent' => Order'
  BY <1>1, <1>2, KeptOrder DEF Order
<1>4. ASSUME NEW is \in {"reply", "error"} \cup Update, Emit(p, is), proc[p].todo # << >>
      PROVE  LinesSent'
  <2> DEFINE r == Head(proc[p].todo)
             line == [call |-> r.call, stage |-> r.stage, is |-> is]
             rest == IF is \in {"reply", "error"} THEN Tail(proc[p].todo) ELSE proc[p].todo
             more == Append(proc[p].queue, line)
             x == [proc[p] EXCEPT !.queue = more, !.waiter = NoCall, !.todo = rest]
  <2>1. proc[p] \in Process /\ proc[p].todo \in Seq(Request) /\ proc[p].queue \in Seq(Line)
    BY DEF MainOK, Process
  <2>2. /\ \A i \in DOMAIN proc[p].queue : proc[p].queue[i].call \in 1..sent
        /\ \A i \in DOMAIN proc[p].todo : proc[p].todo[i].call \in 1..sent
    BY DEF Order, LinesSent
  <2>3. r \in Request /\ r.call \in 1..sent
    BY <1>4, <2>1, <2>2, HeadTail
  <2>4. line \in Line /\ line.call \in 1..sent
    BY <2>3 DEF Line, Request
  <2>5. rest \in Seq(Request) /\ \A i \in DOMAIN rest : rest[i].call \in 1..sent
    BY <1>4, <2>1, <2>2, HeadTail
  <2> HIDE DEF r, line
  <2>6. more \in Seq(Line) /\ \A i \in DOMAIN more : more[i].call \in 1..sent
    BY <2>1, <2>2, <2>4, AppendIs
  <2>7. proc' = [proc EXCEPT ![p] = x]
    BY <1>4 DEF Emit, MainOK, line, r
  <2> HIDE DEF rest, more
  <2>8. x \in Process /\ x.queue = more /\ x.todo = rest
    BY <2>1, <2>5, <2>6 DEF Process
  <2> HIDE DEF x
  <2>9. /\ \A i \in DOMAIN x.queue : x.queue[i].call \in 1..sent'
        /\ \A i \in DOMAIN x.todo : x.todo[i].call \in 1..sent'
    BY <1>1, <2>5, <2>6, <2>8
  <2>10. sent' \in Nat /\ sent <= sent'
    BY <1>1, <1>2
  <2>11. x \in Process
    BY <2>8
  <2> QED BY <2>7, <2>9, <2>10, <2>11, LinesKept
<1>5. CASE AgentReplies(p)
  BY <1>3, <1>4, <1>5 DEF AgentReplies
<1>6. CASE AgentUpdates(p)
  BY <1>3, <1>4, <1>6 DEF AgentUpdates
<1>7. CASE StdoutEnds(p)
  <2>1. proc' = [proc EXCEPT ![p] = Closed(p)]
    BY <1>7 DEF StdoutEnds
  <2>2. Closed(p) \in Process /\ Closed(p).queue = proc[p].queue /\ Closed(p).todo = << >>
    BY ClosedIs DEF MainOK, Closed, Process
  <2>3. LinesSent'
    BY <1>1, <1>2, <2>1, <2>2, LinesKept DEF Order, LinesSent
  <2> QED BY <1>3, <2>3
<1>8. CASE ChildCloses(p)
  BY <1>1, <1>3, <1>8 DEF ChildCloses, Order, LinesSent
<1> QED BY <1>5, <1>6, <1>7, <1>8

\* The panel takes a message.
LEMMA ReceiveOrder ==
  ASSUME MainOK, Order, toUi # << >>, toUi' = Tail(toUi), UNCHANGED <<call, sent, proc>>
  PROVE  Order'
<1>1. /\ toUi' \in Seq(Event)
      /\ \A i \in DOMAIN toUi' : i + 1 \in DOMAIN toUi /\ toUi'[i] = toUi[i + 1] /\ i \in Nat
  BY HeadTail DEF Order
<1>2. Unsent' /\ LinesSent'
  BY DEF Order, Unsent, LinesSent
<1>3. TextsSent'
  BY <1>1 DEF Order, TextsSent
<1>4. AnsweredOnce'
  <2> SUFFICES ASSUME NEW c \in Call, NEW i \in DOMAIN toUi', Answers(toUi', i, c)
               PROVE  /\ call[c].at = "done"
                      /\ \A j \in DOMAIN toUi' : Answers(toUi', j, c) => j = i
    BY DEF AnsweredOnce
  <2>1. \A j \in DOMAIN toUi' : Answers(toUi', j, c) => Answers(toUi, j + 1, c)
    BY <1>1 DEF Answers
  <2>2. ASSUME NEW j \in DOMAIN toUi', Answers(toUi', j, c) PROVE j + 1 = i + 1
    BY <1>1, <2>1, <2>2 DEF Order, AnsweredOnce
  <2> QED BY <1>1, <2>1, <2>2 DEF Order, AnsweredOnce
<1> QED BY <1>1, <1>2, <1>3, <1>4 DEF Order

\* What a step of a call tells the panel: text of calls that were made, and at its
\* end, and only then, its own answer.
Posts(c, new) ==
  /\ new \in Seq(Event) /\ toUi' = toUi \o new
  /\ \A i \in DOMAIN new : new[i].text \subseteq 1..sent
  /\ \A i \in DOMAIN new : IsAnswer(new[i]) => new[i].call = c /\ i = Len(new)
  /\ call'[c].at = "done" <=> \E i \in DOMAIN new : IsAnswer(new[i])

LEMMA AnswerPosts ==
  ASSUME MainOK, Order, NEW c \in Call, Reading(c), NEW e \in Event, IsAnswer(e), e.call = c,
         e.text \subseteq 1..sent, toUi' = Append(toUi, e), call'[c].at = "done"
  PROVE  Posts(c, <<e>>)
<1>1. <<e>> \in Seq(Event) /\ toUi' = toUi \o <<e>>
  BY AppendIsConcat DEF Order
<1>2. DOMAIN <<e>> = {1} /\ <<e>>[1] = e /\ Len(<<e>>) = 1
  OBVIOUS
<1> QED BY <1>1, <1>2 DEF Posts

LEMMA NothingPosts ==
  ASSUME MainOK, Order, NEW c \in Call, Reading(c), toUi' = toUi, call'[c].at # "done"
  PROVE  Posts(c, << >>)
<1>1. << >> \in Seq(Event) /\ toUi' = toUi \o << >>
  BY EmptySeq, ConcatEmptySeq DEF Order
<1>2. DOMAIN << >> = {}
  OBVIOUS
<1> QED BY <1>1, <1>2 DEF Posts

\* A reading call was made.
LEMMA ReadingSent ==
  ASSUME MainOK, Order, NEW c \in Call, Reading(c)
  PROVE  c \in 1..sent /\ sent \in Nat /\ call[c] \in Activation /\ call[c].text \subseteq 1..sent
<1>1. c \in Nat \ {0} /\ sent \in Nat /\ c <= sent
  BY CallsAssumption DEF Call, Order, Unsent, Reading, Stage
<1> QED BY <1>1 DEF MainOK, Order, TextsSent

LEMMA FailPosts ==
  ASSUME MainOK, Order, NEW c \in Call, Reading(c), NEW is \in {"result", "error"}, Settle(c, is)
  PROVE  \E new : Posts(c, new)
<1> DEFINE e == [is |-> is, call |-> c, text |-> call[c].text]
<1>1. e \in Event /\ IsAnswer(e) /\ e.call = c /\ e.text \subseteq 1..sent
  BY ReadingSent DEF Event, Activation, IsAnswer
<1>2. toUi' = Append(toUi, e) /\ call'[c].at = "done"
  BY DEF Settle, Returned, NoEntry, MainOK
<1> HIDE DEF e
<1> QED BY <1>1, <1>2, AnswerPosts

\* The messages about an update end no call.
LEMMA ChunksAre ==
  ASSUME NEW line \in Line, line.call \in 1..sent
  PROVE  /\ Chunks(line) \in Seq(Event)
         /\ \A i \in DOMAIN Chunks(line) : /\ ~IsAnswer(Chunks(line)[i])
                                          /\ Chunks(line)[i].text \subseteq 1..sent
<1> DEFINE Of(is) == [is |-> is, call |-> line.call, text |-> {line.call}]
<1>1. ASSUME NEW is \in {"chunk", "full", "done"}
      PROVE  Of(is) \in Event /\ ~IsAnswer(Of(is)) /\ Of(is).text \subseteq 1..sent
  BY DEF Event, Line, IsAnswer
<1>2. \/ Chunks(line) = <<Of("chunk")>> \/ Chunks(line) = <<Of("done")>>
      \/ Chunks(line) = <<Of("full"), Of("done")>>
  BY DEF Chunks
<1> HIDE DEF Of
<1>3. ASSUME NEW s \in Seq(Event), \A i \in DOMAIN s : \E is \in {"chunk", "full", "done"} : s[i] = Of(is)
      PROVE  \A i \in DOMAIN s : ~IsAnswer(s[i]) /\ s[i].text \subseteq 1..sent
  BY <1>1, <1>3
<1>4. ASSUME NEW a \in {"chunk", "full", "done"}, NEW b \in {"chunk", "full", "done"}
      PROVE  /\ <<Of(a)>> \in Seq(Event) /\ <<Of(a), Of(b)>> \in Seq(Event)
             /\ \A i \in DOMAIN <<Of(a)>> : <<Of(a)>>[i] = Of(a)
             /\ \A i \in DOMAIN <<Of(a), Of(b)>> : <<Of(a), Of(b)>>[i] \in {Of(a), Of(b)}
  <2>1. Of(a) \in Event /\ Of(b) \in Event
    BY <1>1
  <2> QED BY <2>1
<1>5. /\ Chunks(line) \in Seq(Event)
      /\ \A i \in DOMAIN Chunks(line) : \E is \in {"chunk", "full", "done"} : Chunks(line)[i] = Of(is)
  BY <1>2, <1>4
<1> QED BY <1>3, <1>5

LEMMA UpdatePosts ==
  ASSUME MainOK, Order, NEW c \in Call, Reading(c), NEW line \in Line, line.call \in 1..sent,
         OnUpdate(c, line)
  PROVE  /\ \E new : Posts(c, new)
         /\ call'[c].text \subseteq 1..sent
<1> DEFINE text == CASE line.is = "text" -> call[c].text \cup {line.call}
                     [] line.is = "full" -> {line.call}
                     [] OTHER -> call[c].text
           over == line.is \in {"full", "usage", "failed"} \/ (line.is = "completed" /\ text # {})
           end == [is |-> IF line.is = "failed" THEN "error" ELSE "result", call |-> c, text |-> text]
           s == Chunks(line)
<1>1. text \in SUBSET Call /\ text \subseteq 1..sent
  BY ReadingSent DEF Line, Activation
<1>2. s \in Seq(Event) /\ \A i \in DOMAIN s : ~IsAnswer(s[i]) /\ s[i].text \subseteq 1..sent
  BY ChunksAre
<1>3. /\ call' = [call EXCEPT ![c] = IF over THEN Returned(c) ELSE [@ EXCEPT !.text = text]]
      /\ toUi' = toUi \o s \o (IF over THEN <<end>> ELSE << >>)
  BY DEF OnUpdate
<1> HIDE DEF s, text
<1>4. end \in Event /\ IsAnswer(end) /\ end.call = c /\ end.text \subseteq 1..sent
  BY <1>1 DEF Event, IsAnswer
<1> HIDE DEF end, over
<1>5. CASE over
  <2> DEFINE new == Append(s, end)
  <2>1. call'[c].at = "done" /\ call'[c].text = {}
    BY <1>3, <1>5 DEF MainOK, Returned, NoEntry
  <2>2. toUi' = toUi \o new
    <3>1. new = s \o <<end>> /\ <<end>> \in Seq(Event)
      BY <1>2, <1>4, AppendIsConcat
    <3>2. toUi \o s \o <<end>> = toUi \o (s \o <<end>>)
      BY <1>2, <3>1, ConcatAssociative DEF Order
    <3> QED BY <1>3, <1>5, <3>1, <3>2
  <2>3. /\ new \in Seq(Event)
        /\ \A i \in DOMAIN new : \/ ~IsAnswer(new[i]) /\ new[i].text \subseteq 1..sent
                                 \/ i = Len(new) /\ new[i] = end
        /\ Len(new) \in DOMAIN new /\ new[Len(new)] = end
    BY <1>2, <1>4, AppendIs
  <2> HIDE DEF new
  <2>4. Posts(c, new)
    BY <1>4, <2>1, <2>2, <2>3 DEF Posts
  <2> QED BY <2>1, <2>4
<1>6. CASE ~over
  <2>1. call'[c].at = call[c].at /\ call'[c].text = text
    BY <1>3, <1>6 DEF MainOK, Activation
  <2>2. toUi' = toUi \o s
    <3>1. toUi \o s \in Seq(Event)
      BY <1>2, ConcatProperties DEF Order
    <3> QED BY <1>3, <1>6, <3>1, ConcatEmptySeq
  <2>3. Posts(c, s)
    BY <1>2, <2>1, <2>2 DEF Posts, Reading, Stage
  <2> QED BY <1>1, <2>1, <2>3
<1> QED BY <1>5, <1>6

LEMMA ReplyPosts ==
  ASSUME MainOK, Order, NEW c \in Call, Reading(c), call[c].at = "prompt",
         NEW line \in Line, OnReply(c, line)
  PROVE  /\ \E new : Posts(c, new)
         /\ call'[c].text \subseteq 1..sent
<1>0. call[c].text \subseteq 1..sent /\ c \in 1..sent /\ call[c] \in Activation
  BY ReadingSent
<1>1. CASE ~(line.call = c /\ line.stage = "prompt")
  <2>1. UNCHANGED <<call, toUi>>
    BY <1>1 DEF OnReply
  <2>2. Posts(c, << >>)
    BY <2>1, NothingPosts
  <2> QED BY <1>0, <2>1, <2>2
<1>2. CASE (line.call = c /\ line.stage = "prompt") /\ line.is = "error"
  <2>1. Settle(c, "error")
    BY <1>2 DEF OnReply
  <2>2. call'[c].text = {}
    BY <2>1 DEF Settle, Returned, NoEntry, MainOK
  <2> QED BY <2>1, <2>2, FailPosts
<1>3. CASE (line.call = c /\ line.stage = "prompt") /\ line.is # "error"
  <2> DEFINE text == IF call[c].text = {} THEN {c} ELSE call[c].text
             e == [is |-> "result", call |-> c, text |-> text]
  <2>1. call' = [call EXCEPT ![c] = Returned(c)] /\ toUi' = Append(toUi, e)
    BY <1>3 DEF OnReply
  <2>2. text \in SUBSET Call /\ text \subseteq 1..sent
    BY <1>0 DEF Activation
  <2> HIDE DEF text
  <2>3. e \in Event /\ IsAnswer(e) /\ e.call = c /\ e.text \subseteq 1..sent
    BY <2>2 DEF Event, IsAnswer
  <2> HIDE DEF e
  <2>4. call'[c].at = "done" /\ call'[c].text = {}
    BY <2>1 DEF Returned, NoEntry, MainOK
  <2> QED BY <2>1, <2>3, <2>4, AnswerPosts
<1> QED BY <1>1, <1>2, <1>3

\* A line that is taken leaves lines of calls that were made.
LEMMA TakenLines ==
  ASSUME MainOK, Order, NEW p \in Proc, proc[p].queue # << >>
  PROVE  /\ Head(proc[p].queue) \in Line /\ Head(proc[p].queue).call \in 1..sent
         /\ Tail(proc[p].queue) \in Seq(Line)
         /\ \A i \in DOMAIN Tail(proc[p].queue) : Tail(proc[p].queue)[i].call \in 1..sent
         /\ proc' = [proc EXCEPT ![p].queue = Tail(@)] /\ sent' = sent => LinesSent'
<1> DEFINE q == proc[p].queue
           x == [proc[p] EXCEPT !.queue = Tail(q)]
<1>1. proc[p] \in Process /\ q \in Seq(Line) /\ q # << >> /\ \A i \in DOMAIN q : q[i].call \in 1..sent
  BY DEF MainOK, Process, Order, LinesSent
<1>2. /\ Head(q) \in Line /\ Head(q).call \in 1..sent /\ Tail(q) \in Seq(Line)
      /\ \A i \in DOMAIN Tail(q) : Tail(q)[i].call \in 1..sent
  <2> HIDE DEF q
  <2> QED BY <1>1, HeadTail
<1>3. ASSUME proc' = [proc EXCEPT ![p].queue = Tail(@)], sent' = sent PROVE LinesSent'
  <2>1. proc' = [proc EXCEPT ![p] = x]
    BY <1>3 DEF MainOK
  <2>2. x \in Process /\ x.queue = Tail(q) /\ x.todo = proc[p].todo
    BY <1>1, <1>2 DEF Process
  <2>3. sent' \in Nat /\ sent <= sent'
    BY <1>3, CallsAssumption DEF Order
  <2>4. \A i \in DOMAIN x.todo : x.todo[i].call \in 1..sent'
    BY <1>3, <2>2 DEF Order, LinesSent
  <2> HIDE DEF x
  <2>5. \A i \in DOMAIN x.queue : x.queue[i].call \in 1..sent'
    BY <1>2, <1>3, <2>2
  <2>6. x \in Process
    BY <2>2
  <2> QED BY <2>1, <2>3, <2>4, <2>5, <2>6, LinesKept
<1> QED BY <1>2, <1>3

\* A line for a handshake.
LEMMA HandshakePosts ==
  ASSUME MainOK, Order, NEW c \in Call, Reading(c), call[c].at # "prompt", sent' = sent,
         proc[call[c].proc].queue # << >>, Handshake(c, Head(proc[call[c].proc].queue))
  PROVE  /\ \E new : Posts(c, new)
         /\ call'[c].text \subseteq 1..sent
         /\ \A d \in Call : d # c => call'[d] = call[d]
         /\ LinesSent'
<1> DEFINE p == call[c].proc
           line == Head(proc[p].queue)
           next == IF call[c].at = "init" THEN "new" ELSE "prompt"
           a == Asked(p, c, next)
           rest == [a EXCEPT !.queue = Tail(@)]
<1>1. p \in Proc /\ call[c].text \subseteq 1..sent /\ c \in 1..sent /\ call[c] \in Activation
  BY ReadingSent DEF MainOK, CallsHold
<1>2. CASE line.call # c \/ line.stage # call[c].at
  <2>1. /\ proc' = [proc EXCEPT ![p].queue = Tail(@)] /\ UNCHANGED <<call, toUi>>
    BY <1>2 DEF Handshake
  <2>2. Posts(c, << >>)
    BY <2>1, NothingPosts DEF Reading, Stage
  <2> QED BY <1>1, <2>1, <2>2, TakenLines
<1>3. CASE ~(line.call # c \/ line.stage # call[c].at) /\ line.is = "error"
  <2>1. /\ proc' = [proc EXCEPT ![p].queue = Tail(@)] /\ Settle(c, "error")
    BY <1>3 DEF Handshake, Fail
  <2>2. call'[c].text = {} /\ \A d \in Call : d # c => call'[d] = call[d]
    BY <2>1 DEF Settle, Returned, NoEntry, MainOK
  <2>3. LinesSent'
    BY <1>1, <2>1, TakenLines
  <2> QED BY <2>1, <2>2, <2>3, FailPosts
<1>4. CASE ~(line.call # c \/ line.stage # call[c].at) /\ line.is # "error"
  <2>1. /\ proc' = [proc EXCEPT ![p] = rest] /\ call' = [call EXCEPT ![c].at = next]
        /\ toUi' = toUi
    BY <1>4 DEF Handshake
  <2>2. /\ call'[c].at # "done" /\ call'[c].text = call[c].text
        /\ \A d \in Call : d # c => call'[d] = call[d]
    BY <2>1, <1>1 DEF MainOK, Activation
  <2>3. Posts(c, << >>)
    BY <2>1, <2>2, NothingPosts
  <2>4. next \in Stage
    BY DEF Stage
  <2> HIDE DEF next, p
  <2>5. /\ a \in Process /\ a.queue = proc[p].queue
        /\ a.todo = Append(proc[p].todo, [call |-> c, stage |-> next])
    BY <1>1, <2>4, AskedIs DEF MainOK
  <2>6. /\ Tail(proc[p].queue) \in Seq(Line)
        /\ \A i \in DOMAIN Tail(proc[p].queue) : Tail(proc[p].queue)[i].call \in 1..sent
    BY <1>1, TakenLines DEF p
  <2> HIDE DEF a
  <2>7. rest \in Process /\ rest.queue = Tail(proc[p].queue) /\ rest.todo = a.todo
    BY <2>5, <2>6 DEF Process
  <2> HIDE DEF rest
  <2>8. proc[p].todo \in Seq(Request) /\ [call |-> c, stage |-> next] \in Request
    BY <1>1, <2>4 DEF MainOK, Process, Request
  <2>9. \A i \in DOMAIN rest.todo : rest.todo[i].call \in 1..sent
    BY <1>1, <2>5, <2>7, <2>8, AppendIs DEF Order, LinesSent
  <2>10. sent' \in Nat /\ sent <= sent' /\ rest \in Process
    BY <2>7, CallsAssumption DEF Order
  <2>11. /\ \A i \in DOMAIN rest.todo : rest.todo[i].call \in 1..sent'
         /\ \A i \in DOMAIN rest.queue : rest.queue[i].call \in 1..sent'
    BY <2>6, <2>7, <2>9
  <2>12. LinesSent'
    BY <1>1, <2>1, <2>10, <2>11, LinesKept
  <2> QED BY <1>1, <2>2, <2>3, <2>12
<1> QED BY <1>2, <1>3, <1>4

\* Only the process and the lines of a waiter change where a waiter changes.
LEMMA WaiterLines ==
  ASSUME MainOK, Order, NEW p \in Proc, NEW w \in Call \cup {NoCall},
         proc' = [proc EXCEPT ![p].waiter = w], sent' = sent
  PROVE  LinesSent'
<1> DEFINE x == [proc[p] EXCEPT !.waiter = w]
<1>1. proc[p] \in Process /\ proc' = [proc EXCEPT ![p] = x]
  BY DEF MainOK
<1>2. x \in Process /\ x.queue = proc[p].queue /\ x.todo = proc[p].todo
  BY <1>1 DEF Process
<1> HIDE DEF x
<1>3. /\ \A i \in DOMAIN x.queue : x.queue[i].call \in 1..sent'
      /\ \A i \in DOMAIN x.todo : x.todo[i].call \in 1..sent'
  BY <1>2 DEF Order, LinesSent
<1>4. sent' \in Nat /\ sent <= sent' /\ x \in Process
  BY <1>2, CallsAssumption DEF Order
<1> QED BY <1>1, <1>3, <1>4, LinesKept

\* What a call does, one line at a time.
LEMMA StepPosts ==
  ASSUME MainOK, Order, NEW c \in Call, Pump(c) \/ ReadTimeout(c)
  PROVE  /\ Reading(c) /\ sent' = sent
         /\ \E new : Posts(c, new)
         /\ call'[c].text \subseteq 1..sent
         /\ \A d \in Call : d # c => call'[d] = call[d]
         /\ LinesSent'
<1> DEFINE p == call[c].proc
<1>1. Reading(c) /\ sent' = sent /\ p \in Proc
  BY DEF Pump, ReadTimeout, MainOK, CallsHold
<1>2. call[c].text \subseteq 1..sent /\ call[c] \in Activation
  BY <1>1, ReadingSent
<1>3. Settle(c, "error") => /\ call'[c].text = {} /\ \A d \in Call : d # c => call'[d] = call[d]
                            /\ \E new : Posts(c, new)
  <2>1. Settle(c, "error") => call'[c].text = {} /\ \A d \in Call : d # c => call'[d] = call[d]
    BY DEF Settle, Returned, NoEntry, MainOK
  <2> QED BY <1>1, <2>1, FailPosts
<1>4. CASE ReadTimeout(c)
  <2>1. Settle(c, "error") /\ proc' = [proc EXCEPT ![p].waiter = NoCall]
    BY <1>4 DEF ReadTimeout, Fail
  <2>2. LinesSent'
    BY <1>1, <2>1, WaiterLines
  <2> QED BY <1>1, <1>3, <2>1, <2>2
<1>5. CASE Pump(c) /\ proc[p].queue # << >> /\ call[c].at = "prompt"
  <2> DEFINE line == Head(proc[p].queue)
  <2>1. /\ proc' = [proc EXCEPT ![p].queue = Tail(@)]
        /\ OnUpdate(c, line) \/ OnReply(c, line)
    BY <1>5 DEF Pump, Answering
  <2>2. line \in Line /\ line.call \in 1..sent /\ LinesSent'
    BY <1>1, <1>5, <2>1, TakenLines
  <2> HIDE DEF line
  <2>3. (\E new : Posts(c, new)) /\ call'[c].text \subseteq 1..sent
    BY <1>1, <1>5, <2>1, <2>2, UpdatePosts, ReplyPosts
  <2>4. \A d \in Call : d # c => call'[d] = call[d]
    BY <2>1 DEF OnUpdate, OnReply, Settle, MainOK
  <2> QED BY <1>1, <2>2, <2>3, <2>4
<1>6. CASE Pump(c) /\ proc[p].queue # << >> /\ call[c].at # "prompt"
  <2>1. Handshake(c, Head(proc[p].queue))
    BY <1>6 DEF Pump
  <2> QED BY <1>1, <1>6, <2>1, HandshakePosts
<1>7. CASE Pump(c) /\ proc[p].queue = << >>
  <2>1. CASE proc[p].closed
    <3>1. Settle(c, "error") /\ UNCHANGED proc
      BY <1>7, <2>1 DEF Pump, Fail
    <3>2. LinesSent'
      BY <1>1, <3>1 DEF Order, LinesSent
    <3> QED BY <1>1, <1>3, <3>1, <3>2
  <2>2. CASE ~proc[p].closed
    <3>1. proc' = [proc EXCEPT ![p].waiter = c] /\ UNCHANGED <<call, toUi>>
      BY <1>7, <2>2 DEF Pump
    <3>2. LinesSent'
      BY <1>1, <3>1, WaiterLines
    <3>3. Posts(c, << >>)
      BY <1>1, <3>1, NothingPosts DEF Reading, Stage
    <3> QED BY <1>1, <1>2, <3>1, <3>2, <3>3
  <2> QED BY <2>1, <2>2
<1> QED BY <1>4, <1>5, <1>6, <1>7

\* What is appended to a queue follows it.
LEMMA ConcatDomain ==
  ASSUME NEW M, NEW s \in Seq(M), NEW t \in Seq(M)
  PROVE  /\ s \o t \in Seq(M)
         /\ \A i \in DOMAIN s : i \in DOMAIN (s \o t) /\ (s \o t)[i] = s[i]
         /\ \A i \in DOMAIN t : Len(s) + i \in DOMAIN (s \o t) /\ (s \o t)[Len(s) + i] = t[i]
         /\ \A i \in DOMAIN (s \o t) :
              \/ i \in DOMAIN s /\ (s \o t)[i] = s[i]
              \/ /\ i - Len(s) \in DOMAIN t /\ (s \o t)[i] = t[i - Len(s)]
                 /\ i \in Nat /\ Len(s) \in Nat
<1>1. Len(s) \in Nat /\ Len(t) \in Nat /\ DOMAIN s = 1..Len(s) /\ DOMAIN t = 1..Len(t)
  BY LenProperties
<1>2. /\ s \o t \in Seq(M) /\ Len(s \o t) = Len(s) + Len(t)
      /\ \A i \in 1..(Len(s) + Len(t)) : (s \o t)[i] = IF i <= Len(s) THEN s[i] ELSE t[i - Len(s)]
  BY ConcatProperties
<1>3. DOMAIN (s \o t) = 1..(Len(s) + Len(t))
  BY <1>2, LenProperties
<1> QED BY <1>1, <1>2, <1>3

LEMMA StepOrder ==
  ASSUME MainOK, Order, NEW c \in Call, Pump(c) \/ ReadTimeout(c)
  PROVE  Order'
<1>1. PICK new : Posts(c, new)
  BY StepPosts
<1>2. /\ Reading(c) /\ sent' = sent /\ LinesSent'
      /\ call'[c].text \subseteq 1..sent /\ \A d \in Call : d # c => call'[d] = call[d]
  BY StepPosts
<1>3. /\ toUi \in Seq(Event) /\ new \in Seq(Event) /\ toUi' = toUi \o new
      /\ \A i \in DOMAIN new : new[i].text \subseteq 1..sent
      /\ \A i \in DOMAIN new : IsAnswer(new[i]) => new[i].call = c /\ i = Len(new)
      /\ call'[c].at = "done" <=> \E i \in DOMAIN new : IsAnswer(new[i])
  BY <1>1 DEF Posts, Order
<1>4. /\ toUi' \in Seq(Event)
      /\ \A i \in DOMAIN toUi' :
           \/ i \in DOMAIN toUi /\ toUi'[i] = toUi[i]
           \/ /\ i - Len(toUi) \in DOMAIN new /\ toUi'[i] = new[i - Len(toUi)]
              /\ i \in Nat /\ Len(toUi) \in Nat
  BY <1>3, ConcatDomain
<1>5. Unsent'
  BY <1>2, ReadingSent DEF Order, Unsent
<1>6. TextsSent'
  BY <1>2, <1>3, <1>4 DEF Order, TextsSent
<1>7. AnsweredOnce'
  <2> SUFFICES ASSUME NEW d \in Call, NEW i \in DOMAIN toUi', Answers(toUi', i, d)
               PROVE  /\ call'[d].at = "done"
                      /\ \A j \in DOMAIN toUi' : Answers(toUi', j, d) => j = i
    BY DEF AnsweredOnce
  <2>1. ~\E j \in DOMAIN toUi : Answers(toUi, j, c)
    BY <1>2 DEF Order, AnsweredOnce, Reading, Stage
  <2>2. CASE d = c
    <3>1. \A j \in DOMAIN toUi' : Answers(toUi', j, c) =>
            /\ j - Len(toUi) = Len(new) /\ j \in Nat /\ Len(toUi) \in Nat
            /\ call'[c].at = "done"
      BY <1>3, <1>4, <2>1 DEF Answers
    <3> QED BY <2>2, <3>1
  <2>3. CASE d # c
    <3>1. \A j \in DOMAIN toUi' : Answers(toUi', j, d) => j \in DOMAIN toUi /\ Answers(toUi, j, d)
      BY <1>3, <1>4, <2>3 DEF Answers
    <3> QED BY <1>2, <2>3, <3>1 DEF Order, AnsweredOnce
  <2> QED BY <2>2, <2>3
<1> QED BY <1>2, <1>4, <1>5, <1>6, <1>7 DEF Order

-------------------------------------------------------------------------------
(* The panel *)

\* The panel knows no call that was not made.
PanelSent == {current, listener} \subseteq 1..sent \cup {NoCall}

\* The panel has not handled the answer to the current call.
Awaited == \/ listener = current
           \/ call[current].at # "done"
           \/ \E i \in DOMAIN toUi : Answers(toUi, i, current)

\* Until it has, no later call is made; while it titles and flushes, it has.
NoneAhead == current # NoCall =>
  /\ Awaited => current = sent
  /\ andThen # << >> => ~Awaited

\* The current call is a prompt: the answer to it is not taken for a title.
PromptIsCurrent == current # NoCall => ~call[current].title

PanelOK ==
  /\ setting \in Key /\ lastKey \in Key \cup {NoKey}
  /\ {current, listener} \subseteq Call \cup {NoCall}
  /\ isLoading \in BOOLEAN /\ untitled \in BOOLEAN
  /\ queued \in 0..MaxQueued
  /\ andThen \in {<< >>, <<"flush">>, <<"title", "flush">>}
  /\ shown \subseteq Call
  /\ updates \in 0..MaxUpdates
  /\ PanelSent
  /\ NoneAhead
  /\ NoTextFromLater
  /\ PromptIsCurrent
  /\ PanelIsAnswered

\* The agents' processes, the order of messages, and the panel.
IInv == MainOK /\ Order /\ PanelOK

\* The panel stays as it is; the answer to its call is not lost and does not come back.
LEMMA PanelStays ==
  ASSUME PanelOK, UNCHANGED <<panel, sent>>, updates' \in 0..MaxUpdates,
         current # NoCall => /\ Awaited' => Awaited
                             /\ call'[current].title = call[current].title
                             /\ Outstanding => Outstanding'
  PROVE  PanelOK'
<1>1. PanelSent' /\ NoTextFromLater' /\ PromptIsCurrent'
  BY DEF PanelOK, PanelSent, NoTextFromLater, PromptIsCurrent, panel
<1>3. PanelIsAnswered'
  <2>1. Outstanding => Outstanding'
    BY DEF Outstanding
  <2> QED BY <2>1 DEF PanelOK, PanelIsAnswered, panel
<1>2. NoneAhead'
  <2> SUFFICES ASSUME current' # NoCall
               PROVE  (Awaited' => current' = sent') /\ (andThen' # << >> => ~Awaited')
    BY DEF NoneAhead
  <2>1. current' = current /\ sent' = sent /\ andThen' = andThen
    BY DEF panel
  <2> QED BY <2>1 DEF PanelOK, NoneAhead
<1> QED BY <1>1, <1>2, <1>3 DEF PanelOK, panel

\* The answer to the current call is on the way as long as what is on the way stays.
LEMMA StillOutstanding ==
  ASSUME current' = current, current # NoCall => call'[current].at = call[current].at,
         \A i \in DOMAIN toUi : Answers(toUi, i, current) =>
           \E j \in DOMAIN toUi' : Answers(toUi', j, current)
  PROVE  Outstanding => Outstanding'
BY DEF Outstanding, Answers

\* A reading call reads on or is done; it stays what it is.
LEMMA StepStays ==
  ASSUME MainOK, NEW c \in Call, Pump(c) \/ ReadTimeout(c)
  PROVE  call'[c].title = call[c].title /\ call'[c].at \in Stage \cup {"done"}
<1>1. Reading(c) /\ call[c] \in Activation
  BY DEF MainOK, CallsHold, Pump, ReadTimeout
<1>2. call' = [call EXCEPT ![c] = Returned(c)] =>
        call'[c].title = call[c].title /\ call'[c].at \in Stage \cup {"done"}
  BY DEF Returned, NoEntry, MainOK
<1>3. ASSUME NEW text, call' = [call EXCEPT ![c] = [@ EXCEPT !.text = text]]
      PROVE  call'[c].title = call[c].title /\ call'[c].at \in Stage \cup {"done"}
  BY <1>1, <1>3 DEF MainOK, Activation, Reading
<1>4. ASSUME NEW at \in Stage, call' = [call EXCEPT ![c].at = at]
      PROVE  call'[c].title = call[c].title /\ call'[c].at \in Stage \cup {"done"}
  BY <1>1, <1>4 DEF MainOK, Activation
<1>5. UNCHANGED call => call'[c].title = call[c].title /\ call'[c].at \in Stage \cup {"done"}
  BY <1>1 DEF Reading
<1>6. CASE Settle(c, "error")
  BY <1>2, <1>6 DEF Settle
<1>7. ASSUME NEW line, OnUpdate(c, line) \/ OnReply(c, line)
      PROVE  call'[c].title = call[c].title /\ call'[c].at \in Stage \cup {"done"}
  <2>1. CASE OnUpdate(c, line)
    <3> DEFINE text == CASE line.is = "text" -> call[c].text \cup {line.call}
                         [] line.is = "full" -> {line.call}
                         [] OTHER -> call[c].text
    <3>1. \/ call' = [call EXCEPT ![c] = Returned(c)]
          \/ call' = [call EXCEPT ![c] = [@ EXCEPT !.text = text]]
      BY <2>1 DEF OnUpdate
    <3> HIDE DEF text
    <3> QED BY <1>2, <1>3, <3>1
  <2>2. CASE OnReply(c, line)
    BY <1>2, <1>5, <2>2 DEF OnReply, Settle
  <2> QED BY <1>7, <2>1, <2>2
<1>8. ASSUME NEW line, Handshake(c, line)
      PROVE  call'[c].title = call[c].title /\ call'[c].at \in Stage \cup {"done"}
  <2>1. \/ UNCHANGED call \/ Settle(c, "error")
        \/ \E at \in Stage : call' = [call EXCEPT ![c].at = at]
    BY <1>8 DEF Handshake, Fail, Stage
  <2> QED BY <1>4, <1>5, <1>6, <2>1
<1>9. \/ UNCHANGED call \/ Settle(c, "error") \/ \E line : Handshake(c, line)
      \/ \E line : OnUpdate(c, line) \/ OnReply(c, line)
  BY DEF Pump, ReadTimeout, Fail, Answering
<1> QED BY <1>5, <1>6, <1>7, <1>8, <1>9

\* A step of a call.
LEMMA StepKeeps ==
  ASSUME IInv, NEW c \in Call, Pump(c) \/ ReadTimeout(c)
  PROVE  IInv'
<1> USE DEF IInv
<1>1. MainOK' /\ Order'
  BY PumpMain, TimeoutMain, StepOrder
<1>2. UNCHANGED <<panel, sent, updates>>
  BY DEF Pump, ReadTimeout
<1>3. PICK new : Posts(c, new)
  BY StepPosts
<1>4. Reading(c) /\ \A d \in Call : d # c => call'[d] = call[d]
  BY StepPosts
<1>5. \A i \in DOMAIN toUi' :
        \/ i \in DOMAIN toUi /\ toUi'[i] = toUi[i]
        \/ i - Len(toUi) \in DOMAIN new /\ toUi'[i] = new[i - Len(toUi)]
  BY <1>3, ConcatDomain DEF Posts, Order
<1>6. \A i \in DOMAIN toUi' : \A d \in Call : Answers(toUi', i, d) => Answers(toUi, i, d) \/ d = c
  BY <1>3, <1>5 DEF Posts, Answers
<1>7. current \in Call => (Awaited' => Awaited)
  <2> SUFFICES ASSUME current \in Call, Awaited' PROVE Awaited
    OBVIOUS
  <2>1. CASE current = c
    BY <1>4, <2>1 DEF Awaited, Reading, Stage
  <2>2. CASE current # c
    <3>1. current' = current /\ listener' = listener /\ call'[current] = call[current]
      BY <1>2, <1>4, <2>2 DEF panel
    <3>2. ASSUME NEW i \in DOMAIN toUi', Answers(toUi', i, current)
          PROVE  i \in DOMAIN toUi /\ Answers(toUi, i, current)
      BY <1>6, <2>2, <3>2 DEF Answers
    <3> QED BY <3>1, <3>2 DEF Awaited
  <2> QED BY <2>1, <2>2
<1>8. current \in Call => (Outstanding => Outstanding')
  <2> SUFFICES ASSUME current \in Call, Outstanding PROVE Outstanding'
    OBVIOUS
  <2>1. /\ \A i \in DOMAIN toUi : i \in DOMAIN toUi' /\ toUi'[i] = toUi[i]
        /\ \A i \in DOMAIN new : Len(toUi) + i \in DOMAIN toUi' /\ toUi'[Len(toUi) + i] = new[i]
    BY <1>3, ConcatDomain DEF Posts, Order
  <2>2. current' = current
    BY <1>2 DEF panel
  <2>3. CASE current = c
    <3>1. CASE call'[c].at = "done"
      <4>1. PICK i \in DOMAIN new : IsAnswer(new[i]) /\ new[i].call = c
        BY <1>3, <3>1 DEF Posts
      <4> QED BY <2>1, <2>2, <2>3, <4>1, CallFacts DEF Outstanding
    <3>2. CASE call'[c].at # "done"
      BY <2>2, <2>3, <3>2, StepStays, CallFacts DEF Outstanding
    <3> QED BY <3>1, <3>2
  <2>4. CASE current # c
    <3>1. call'[current] = call[current]
      BY <1>4, <2>4
    <3> QED BY <2>1, <2>2, <3>1, StillOutstanding DEF Answers
  <2> QED BY <2>3, <2>4
<1>9. current \in Call => call'[current].title = call[current].title
  BY <1>4, StepStays
<1>10. PanelOK'
  BY <1>2, <1>7, <1>8, <1>9, PanelStays DEF PanelOK
<1> QED BY <1>1, <1>10

\* A step of an agent.
LEMMA AgentKeeps ==
  ASSUME IInv, NEW p \in Proc,
         AgentReplies(p) \/ AgentUpdates(p) \/ StdoutEnds(p) \/ ChildCloses(p)
  PROVE  IInv'
<1> USE DEF IInv
<1>1. MainOK' /\ Order'
  BY AgentMain, AgentOrder
<1>2. UNCHANGED <<panel, sent, call, toUi>>
  BY DEF AgentReplies, AgentUpdates, StdoutEnds, ChildCloses
<1>3. updates' \in 0..MaxUpdates
  BY BoundsAssumption DEF AgentReplies, AgentUpdates, StdoutEnds, ChildCloses, PanelOK
<1>4. Awaited' => Awaited
  BY <1>2 DEF Awaited, panel
<1>5. (Outstanding => Outstanding') /\ call' = call
  BY <1>2 DEF Outstanding, panel
<1>6. PanelOK'
  BY <1>2, <1>3, <1>4, <1>5, PanelStays
<1> QED BY <1>1, <1>6

\* Nothing happens in main, or on the way to the panel.
LEMMA IdleMain ==
  ASSUME MainOK, UNCHANGED main
  PROVE  MainOK'
BY DEF MainOK, main, CallsHold, WaitersRead, Reading

LEMMA IdleOrder ==
  ASSUME Order, UNCHANGED <<main, sent, toUi>>
  PROVE  Order'
BY DEF Order, main, Unsent, TextsSent, LinesSent, AnsweredOnce

\* The next call.
LEMMA NextCall ==
  ASSUME Order, sent < Calls
  PROVE  /\ sent + 1 \in Call /\ sent + 1 \in 0..Calls /\ sent \in Nat
         /\ call[sent + 1].at = "unused" /\ ~Reading(sent + 1) /\ ~call[sent + 1].title
         /\ 1..sent \subseteq 1..(sent + 1) /\ sent + 1 \in 1..(sent + 1)
<1>1. sent \in Nat /\ sent + 1 \in Call /\ sent + 1 \in 0..Calls
  BY CallsAssumption DEF Order, Call
<1>2. call[sent + 1].at = "unused" /\ ~call[sent + 1].title
  BY <1>1 DEF Order, Unsent
<1> QED BY <1>1, <1>2 DEF Reading, Stage

\* sendMessage starts a call.
LEMMA BeginKeeps ==
  ASSUME IInv, Begin, andThen' = << >>
  PROVE  IInv'
<1> USE DEF IInv
<1> DEFINE c == sent + 1
<1>1. /\ sent < Calls /\ sent' = c /\ current' = c /\ isLoading' = TRUE /\ queued' = 0
      /\ lastKey' = setting /\ shown' = {} /\ UNCHANGED <<setting, untitled, toUi, updates>>
  BY DEF Begin
<1>2. /\ c \in Call /\ c \in 0..Calls /\ sent \in Nat /\ call[c].at = "unused" /\ ~Reading(c)
      /\ 1..sent \subseteq 1..c /\ c \in 1..c /\ ~call[c].title
  BY <1>1, NextCall
<1>3. setting \in Key /\ lastKey \in Key \cup {NoKey} /\ sent <= c
  BY <1>2 DEF PanelOK
<1>4. /\ MainOK' /\ Order' /\ listener' \in {listener, c}
      /\ call'[c].at \in {"closing"} \cup Stage /\ ~call'[c].title
  <2> HIDE DEF c
  <2>0. toUi' = toUi /\ sent' \in 0..Calls /\ sent <= sent' /\ c <= sent' /\ c \in Call
        /\ ~Reading(c) /\ call[c].at = "unused" /\ FALSE \in BOOLEAN /\ MainOK /\ Order
        /\ ~call[c].title
    BY <1>1, <1>2, <1>3
  <2>1. CASE lastKey \in {NoKey, setting}
    <3>1. listener' = c /\ AcpSend(c, setting, FALSE)
      BY <2>1 DEF Begin, Post, c
    <3>2. MainOK'
      BY <1>3, <2>0, <3>1, SendMain
    <3>3. Order'
      BY <1>3, <2>0, <3>1, SendOrder
    <3>4. PICK q \in Proc, stage \in {"init", "prompt"} : Asks(c, setting, FALSE, q, stage)
      BY <1>3, <2>0, <3>1, SendAsks
    <3>5. call'[c].at = stage /\ ~call'[c].title
      BY <2>0, <3>4 DEF Asks, MainOK
    <3> QED BY <3>1, <3>2, <3>3, <3>5 DEF Stage
  <2>2. CASE lastKey \notin {NoKey, setting}
    <3>1. /\ CloseSession(lastKey)
          /\ call' = [call EXCEPT ![c] = [@ EXCEPT !.at = "closing", !.key = setting]]
          /\ UNCHANGED listener
      BY <2>2 DEF Begin, c
    <3>2. setting \in Key /\ lastKey \in Key
      BY <1>3, <2>2
    <3>3. MainOK'
      BY <2>0, <3>1, <3>2, CloseMain
    <3>4. Order'
      BY <2>0, <3>1, <3>2, CloseOrder
    <3>5. call'[c].at = "closing" /\ ~call'[c].title
      BY <2>0, <3>1 DEF MainOK, Activation
    <3> QED BY <3>1, <3>3, <3>4, <3>5
  <2> QED BY <2>1, <2>2
<1>5. PanelSent'
  BY <1>1, <1>2, <1>4 DEF PanelOK, PanelSent
<1>6. NoneAhead' /\ NoTextFromLater'
  BY <1>1 DEF NoneAhead, NoTextFromLater
<1>7. queued' \in 0..MaxQueued /\ ~(queued' > 0)
  BY <1>1, BoundsAssumption
<1>8. c # NoCall
  BY <1>2, CallFacts
<1>9. PromptIsCurrent'
  BY <1>1, <1>4 DEF PromptIsCurrent
<1>10. PanelIsAnswered'
  BY <1>1, <1>4, <1>7, <1>8 DEF PanelIsAnswered, Outstanding
<1> QED BY <1>1, <1>2, <1>3, <1>4, <1>5, <1>6, <1>7, <1>9, <1>10 DEF PanelOK

LEMMA SendMessageKeeps ==
  ASSUME IInv, SendMessage
  PROVE  IInv'
<1> USE DEF IInv
<1>1. CASE ~isLoading /\ Begin /\ UNCHANGED andThen
  BY <1>1, BeginKeeps DEF SendMessage, Quiet
<1>2. CASE isLoading
  <2>1. /\ queued < MaxQueued /\ queued' = queued + 1
        /\ UNCHANGED <<setting, lastKey, current, isLoading, untitled, listener, andThen, shown,
                       sent, main, toUi, updates>>
    BY <1>2 DEF SendMessage
  <2>2. MainOK' /\ Order'
    BY <2>1, IdleMain, IdleOrder
  <2>3. queued' \in 0..MaxQueued
    BY <2>1, BoundsAssumption DEF PanelOK
  <2>4. PanelSent' /\ NoTextFromLater'
    BY <2>1 DEF PanelOK, PanelSent, NoTextFromLater
  <2>5. NoneAhead' /\ PromptIsCurrent'
    BY <2>1 DEF PanelOK, NoneAhead, Awaited, PromptIsCurrent, main
  <2>6. Outstanding'
    BY <1>2, <2>1 DEF PanelOK, PanelIsAnswered, Outstanding, main
  <2>7. PanelIsAnswered'
    BY <2>6 DEF PanelIsAnswered
  <2> QED BY <2>1, <2>2, <2>3, <2>4, <2>5, <2>7 DEF PanelOK
<1> QED BY <1>1, <1>2 DEF SendMessage

LEMMA FlushKeeps ==
  ASSUME IInv, FlushQueue
  PROVE  IInv'
<1> USE DEF IInv
<1>1. andThen = <<"flush">> /\ andThen' = << >>
  BY DEF FlushQueue, PanelOK
<1>2. CASE isLoading \/ queued = 0 \/ sent = Calls
  <2>1. UNCHANGED <<setting, lastKey, current, isLoading, queued, untitled, listener, shown,
                    sent, main, toUi, updates>>
    BY <1>2 DEF FlushQueue
  <2>2. MainOK' /\ Order'
    BY <2>1, IdleMain, IdleOrder
  <2>3. PanelSent' /\ NoTextFromLater'
    BY <2>1 DEF PanelOK, PanelSent, NoTextFromLater
  <2>4. NoneAhead' /\ PromptIsCurrent'
    BY <1>1, <2>1 DEF PanelOK, NoneAhead, Awaited, PromptIsCurrent, main
  <2>5. Outstanding => Outstanding'
    BY <2>1 DEF Outstanding, main
  <2>6. /\ isLoading => Outstanding
        /\ isLoading \/ ~(queued > 0 /\ sent < Calls)
    BY <1>2, CallsAssumption, BoundsAssumption DEF PanelOK, PanelIsAnswered, Order
  <2>7. PanelIsAnswered'
    <3>1. /\ isLoading' = isLoading /\ queued' = queued /\ sent' = sent
          /\ Outstanding => Outstanding'
      BY <2>1, <2>5
    <3> HIDE DEF IInv
    <3> QED BY <2>6, <3>1 DEF PanelIsAnswered
  <2> QED BY <1>1, <2>1, <2>2, <2>3, <2>4, <2>7 DEF PanelOK
<1>3. CASE ~(isLoading \/ queued = 0 \/ sent = Calls)
  BY <1>1, <1>3, BeginKeeps DEF FlushQueue
<1> QED BY <1>2, <1>3

\* The title of a chat is asked for once the answer has been handled.
LEMMA TitleKeeps ==
  ASSUME IInv, Title
  PROVE  IInv'
<1> USE DEF IInv
<1> DEFINE c == sent + 1
<1>1. /\ andThen = <<"title", "flush">> /\ andThen' = <<"flush">>
      /\ UNCHANGED <<setting, lastKey, current, isLoading, queued, untitled, listener, shown,
                     toUi, updates>>
  <2>1. Head(<<"flush">>) = "flush" /\ Tail(<<"title", "flush">>) = <<"flush">>
    OBVIOUS
  <2> QED BY <2>1 DEF Title, PanelOK
<1>2. CASE ~(untitled /\ sent < Calls)
  <2>1. UNCHANGED <<sent, main>>
    BY <1>2 DEF Title
  <2>2. MainOK' /\ Order'
    BY <1>1, <2>1, IdleMain, IdleOrder
  <2>3. PanelSent' /\ NoTextFromLater'
    BY <1>1, <2>1 DEF PanelOK, PanelSent, NoTextFromLater
  <2>4. NoneAhead' /\ PromptIsCurrent'
    BY <1>1, <2>1 DEF PanelOK, NoneAhead, Awaited, PromptIsCurrent, main
  <2>5. Outstanding => Outstanding'
    BY <1>1, <2>1 DEF Outstanding, main
  <2>6. PanelIsAnswered'
    BY <1>1, <2>1, <2>5 DEF PanelOK, PanelIsAnswered
  <2> QED BY <1>1, <2>1, <2>2, <2>3, <2>4, <2>6 DEF PanelOK
<1>3. CASE untitled /\ sent < Calls
  <2>1. sent' = c /\ AcpSend(c, setting, TRUE)
    BY <1>3 DEF Title
  <2>2. /\ c \in Call /\ c \in 0..Calls /\ sent \in Nat /\ call[c].at = "unused" /\ ~Reading(c)
        /\ 1..sent \subseteq 1..c /\ sent <= c /\ c \notin 1..sent
    BY <1>3, NextCall
  <2> HIDE DEF c
  <2>3. MainOK' /\ Order'
    <3>1. /\ setting \in Key /\ TRUE \in BOOLEAN /\ MainOK /\ Order /\ toUi' = toUi
          /\ sent' \in 0..Calls /\ sent <= sent' /\ c <= sent' /\ c \in Call /\ c \in Nat
      BY <1>1, <2>1, <2>2, CallFacts DEF PanelOK
    <3>2. MainOK'
      BY <2>1, <2>2, <3>1, SendMain
    <3>3. Order'
      BY <2>1, <2>2, <3>1, SendOrder
    <3> QED BY <3>2, <3>3
  <2>4. PanelSent' /\ NoTextFromLater'
    BY <1>1, <2>1, <2>2 DEF PanelOK, PanelSent, NoTextFromLater
  <2>5. NoneAhead'
    <3> SUFFICES ASSUME current # NoCall PROVE ~Awaited'
      BY <1>1 DEF NoneAhead
    <3>1. current \in 1..sent /\ current # c /\ ~Awaited
      BY <1>1, <2>2 DEF PanelOK, PanelSent, NoneAhead
    <3>2. PICK q \in Proc, stage \in {"init", "prompt"} : Asks(c, setting, TRUE, q, stage)
      BY <2>1, <2>2, SendAsks DEF PanelOK
    <3>3. current \in Call /\ call'[current] = call[current]
      BY <3>1, <3>2 DEF Asks, MainOK, PanelOK
    <3> QED BY <1>1, <3>1, <3>3 DEF Awaited
  <2>6. current # NoCall => call'[current] = call[current]
    <3> SUFFICES ASSUME current # NoCall PROVE call'[current] = call[current]
      OBVIOUS
    <3>1. current \in 1..sent /\ current # c
      BY <1>1, <2>2 DEF PanelOK, PanelSent
    <3>2. PICK q \in Proc, stage \in {"init", "prompt"} : Asks(c, setting, TRUE, q, stage)
      BY <2>1, <2>2, SendAsks DEF PanelOK
    <3> QED BY <3>1, <3>2 DEF Asks, MainOK, PanelOK
  <2>7. PromptIsCurrent'
    BY <1>1, <2>6 DEF PanelOK, PromptIsCurrent
  <2>8. Outstanding => Outstanding'
    BY <1>1, <2>6, StillOutstanding DEF Answers
  <2>9. PanelIsAnswered'
    <3>1. andThen' # << >>
      BY <1>1
    <3> QED BY <1>1, <2>8, <3>1 DEF PanelOK, PanelIsAnswered
  <2> QED BY <1>1, <2>3, <2>4, <2>5, <2>7, <2>9 DEF PanelOK
<1> QED BY <1>2, <1>3

\* The stale agent is closed and the call goes on: if it is the current one, it is the
\* last.
LEMMA StaleClosedKeeps ==
  ASSUME IInv, NEW c \in Call, StaleClosed(c)
  PROVE  IInv'
<1> USE DEF IInv
<1>1. /\ call[c].at = "closing" /\ listener' = c /\ AcpSend(c, call[c].key, FALSE) /\ andThen = << >>
      /\ UNCHANGED <<setting, lastKey, current, isLoading, queued, untitled, andThen, shown,
                     sent, toUi, updates>>
  BY DEF StaleClosed, Post, Quiet
<1>2. call[c].key \in Key /\ ~Reading(c) /\ FALSE \in BOOLEAN
  BY <1>1 DEF MainOK, CallsHold, Reading, Stage
<1>3. sent \in Nat /\ c \in 1..sent /\ c <= sent' /\ sent' \in 0..Calls /\ sent <= sent' /\ toUi' = toUi
  BY <1>1, CallsAssumption DEF Order, Unsent, Call
<1>4. MainOK' /\ Order'
  <2>1. MainOK'
    BY <1>1, <1>2, SendMain
  <2>2. Order'
    BY <1>1, <1>2, <1>3, SendOrder
  <2> QED BY <2>1, <2>2
<1>5. PanelSent' /\ NoTextFromLater'
  BY <1>1, <1>3 DEF PanelOK, PanelSent, NoTextFromLater
<1>6. NoneAhead'
  <2> SUFFICES ASSUME current # NoCall, Awaited' PROVE current = sent
    BY <1>1 DEF NoneAhead
  <2>1. CASE current = c
    <3>1. Awaited
      BY <1>1, <2>1 DEF Awaited
    <3> QED BY <3>1 DEF PanelOK, NoneAhead
  <2>2. CASE current # c
    <3>1. PICK q \in Proc, stage \in {"init", "prompt"} : Asks(c, call[c].key, FALSE, q, stage)
      BY <1>1, <1>2, SendAsks
    <3>2. current \in Call /\ call'[current] = call[current]
      BY <2>2, <3>1 DEF Asks, MainOK, PanelOK
    <3>3. Awaited
      BY <1>1, <2>2, <3>2 DEF Awaited
    <3> QED BY <3>3 DEF PanelOK, NoneAhead
  <2> QED BY <2>1, <2>2
<1>7. PICK q \in Proc, stage \in {"init", "prompt"} : Asks(c, call[c].key, FALSE, q, stage)
  BY <1>1, <1>2, SendAsks
<1>8. /\ call'[c].at = stage /\ ~call'[c].title
      /\ \A d \in Call : d # c => call'[d] = call[d]
  BY <1>7 DEF Asks, MainOK
<1>9. PromptIsCurrent'
  BY <1>1, <1>8 DEF PanelOK, PromptIsCurrent
<1>10. Outstanding => Outstanding'
  BY <1>1, <1>8 DEF Outstanding, Stage, PanelOK
<1>11. PanelIsAnswered'
  BY <1>1, <1>10 DEF PanelOK, PanelIsAnswered
<1> QED BY <1>1, <1>4, <1>5, <1>6, <1>9, <1>11 DEF PanelOK

LEMMA LeaveKeeps ==
  ASSUME IInv, Stop \/ NewChat
  PROVE  IInv'
<1> USE DEF IInv
<1>1. /\ current' = NoCall /\ isLoading' = FALSE /\ listener' \in {listener, NoCall} /\ queued' = 0
      /\ shown' = {} /\ untitled' \in {untitled, TRUE}
      /\ UNCHANGED <<setting, lastKey, andThen, sent, main, toUi, updates>>
  BY DEF Stop, NewChat
<1>2. MainOK' /\ Order'
  BY <1>1, IdleMain, IdleOrder
<1>3. PanelSent' /\ NoTextFromLater' /\ NoneAhead'
  BY <1>1 DEF PanelOK, PanelSent, NoTextFromLater, NoneAhead
<1>4. queued' \in 0..MaxQueued /\ ~(queued' > 0)
  BY <1>1, BoundsAssumption
<1>5. PromptIsCurrent' /\ PanelIsAnswered'
  BY <1>1, <1>4 DEF PromptIsCurrent, PanelIsAnswered
<1> QED BY <1>1, <1>2, <1>3, <1>4, <1>5 DEF PanelOK

LEMMA ChangeKeeps ==
  ASSUME IInv, NEW k \in Key, ChangeSetting(k)
  PROVE  IInv'
<1> USE DEF IInv
<1>1. /\ setting' = k
      /\ UNCHANGED <<lastKey, current, isLoading, queued, untitled, listener, andThen, shown,
                     sent, main, toUi, updates>>
  BY DEF ChangeSetting
<1>2. MainOK' /\ Order'
  BY <1>1, IdleMain, IdleOrder
<1>3. PanelSent' /\ NoTextFromLater' /\ NoneAhead' /\ PromptIsCurrent'
  BY <1>1 DEF PanelOK, PanelSent, NoTextFromLater, NoneAhead, Awaited, PromptIsCurrent, main
<1>4. PanelIsAnswered'
  BY <1>1 DEF PanelOK, PanelIsAnswered, Outstanding, main
<1> QED BY <1>1, <1>2, <1>3, <1>4 DEF PanelOK

\* The panel takes a chunk or an answer.
LEMMA ReceiveKeeps ==
  ASSUME IInv, Receive
  PROVE  IInv'
<1> USE DEF IInv
<1> DEFINE e == Head(toUi)
<1>1. /\ andThen = << >> /\ toUi # << >> /\ toUi' = Tail(toUi)
      /\ UNCHANGED <<setting, lastKey, current, queued, sent, main, updates>>
  BY DEF Receive, Quiet
<1>2. MainOK' /\ Order'
  BY <1>1, IdleMain, ReceiveOrder DEF main
<1>3. /\ e \in Event /\ 1 \in DOMAIN toUi /\ toUi[1] = e
      /\ \A i \in DOMAIN toUi' : i + 1 \in DOMAIN toUi /\ toUi'[i] = toUi[i + 1] /\ i \in Nat \ {0}
  BY <1>1, HeadTail DEF Order
<1>4. e.text \subseteq 1..sent /\ e.text \subseteq Call
  BY <1>3 DEF Order, TextsSent, Event
<1>5. \A i \in DOMAIN toUi' : Answers(toUi', i, current) => Answers(toUi, i + 1, current)
  BY <1>3 DEF Answers
<1>6. PanelSent' <=> listener' \in 1..sent \cup {NoCall}
  BY <1>1 DEF PanelOK, PanelSent
<1>7. listener' = listener => PanelSent' /\ (Awaited' => Awaited)
  <2> SUFFICES ASSUME listener' = listener PROVE PanelSent' /\ (Awaited' => Awaited)
    OBVIOUS
  <2>1. PanelSent'
    BY <1>6 DEF PanelOK, PanelSent
  <2>2. (\E i \in DOMAIN toUi' : Answers(toUi', i, current)) => Awaited
    BY <1>3, <1>5 DEF Awaited
  <2> QED BY <1>1, <2>1, <2>2 DEF Awaited, main
<1>8. (Awaited' => Awaited) /\ andThen' = << >> => NoneAhead'
  BY <1>1 DEF PanelOK, NoneAhead
<1>9. shown' = shown => NoTextFromLater'
  BY <1>1 DEF PanelOK, NoTextFromLater
<1>10. (current \in Call => Awaited) /\ shown' \subseteq shown \cup e.text => NoTextFromLater'
  <2> SUFFICES ASSUME current # NoCall, current \in Call => Awaited, shown' \subseteq shown \cup e.text,
                      NEW d \in shown'
               PROVE  d <= current
    BY <1>1 DEF NoTextFromLater
  <2>1. current = sent
    BY DEF PanelOK, NoneAhead
  <2>2. CASE d \in shown
    BY <2>2 DEF PanelOK, NoTextFromLater
  <2>3. CASE d \in e.text
    BY <1>4, <2>1, <2>3, CallsAssumption DEF Order
  <2> QED BY <2>2, <2>3
<1>15. PromptIsCurrent'
  BY <1>1 DEF PanelOK, PromptIsCurrent, main
<1>16. (IsAnswer(e) => e.call # current) => (Outstanding => Outstanding')
  <2> SUFFICES ASSUME IsAnswer(e) => e.call # current, NEW i \in DOMAIN toUi,
                      Answers(toUi, i, current)
               PROVE  \E j \in DOMAIN toUi' : Answers(toUi', j, current)
    BY <1>1, StillOutstanding DEF main
  <2>1. i \in 1..Len(toUi) /\ i # 1 /\ Len(toUi) \in Nat /\ toUi \in Seq(Event)
    BY <1>3, LenProperties DEF Answers, Order
  <2>2. i - 1 \in 1..(Len(toUi) - 1) /\ i - 1 + 1 = i
    BY <2>1
  <2>3. i - 1 \in DOMAIN toUi'
    <3>1. Len(Tail(toUi)) = Len(toUi) - 1 /\ Tail(toUi) \in Seq(Event)
      BY <1>1, <2>1, HeadTailProperties
    <3> QED BY <1>1, <2>2, <3>1, LenProperties
  <2> QED BY <1>3, <2>2, <2>3 DEF Answers
<1>17. (isLoading' => isLoading) /\ (Outstanding => Outstanding') => PanelIsAnswered'
  BY <1>1 DEF PanelOK, PanelIsAnswered
<1> HIDE DEF e
<1>11. CASE e.is \in {"chunk", "full"}
  <2>1. /\ shown' = IF ~Heard(listener) THEN shown
                    ELSE IF e.is = "full" THEN e.text ELSE shown \cup e.text
        /\ UNCHANGED <<isLoading, listener, andThen, untitled>>
    BY <1>11 DEF Receive, e
  <2>2. Heard(listener) => Awaited
    BY DEF Heard, Awaited
  <2>3. NoTextFromLater'
    BY <1>9, <1>10, <2>1, <2>2
  <2>4. PanelIsAnswered'
    BY <1>11, <1>16, <1>17, <2>1 DEF IsAnswer
  <2> QED BY <1>1, <1>2, <1>4, <1>7, <1>8, <1>15, <2>1, <2>3, <2>4 DEF PanelOK
<1>12. CASE e.is = "done"
  <2>1. /\ isLoading' = (isLoading /\ ~Heard(listener))
        /\ UNCHANGED <<listener, shown, andThen, untitled>>
    BY <1>12 DEF Receive, e
  <2>2. isLoading' \in BOOLEAN
    BY <2>1 DEF PanelOK
  <2>3. PanelIsAnswered'
    BY <1>12, <1>16, <1>17, <2>1 DEF IsAnswer
  <2> QED BY <1>1, <1>2, <1>7, <1>8, <1>9, <1>15, <2>1, <2>2, <2>3 DEF PanelOK
<1>13. CASE IsAnswer(e) /\ call[e.call].title
  <2>1. /\ untitled' = (untitled /\ (e.is = "error" \/ e.text = {}))
        /\ UNCHANGED <<isLoading, listener, shown, andThen>>
    BY <1>13 DEF Receive, e, IsAnswer
  <2>2. untitled' \in BOOLEAN
    BY <2>1 DEF PanelOK
  <2>3. e.call # current
    BY <1>3, <1>13, CallFacts DEF PanelOK, PromptIsCurrent, Event
  <2>4. PanelIsAnswered'
    BY <1>16, <1>17, <2>1, <2>3
  <2> QED BY <1>1, <1>2, <1>7, <1>8, <1>9, <1>15, <2>1, <2>2, <2>4 DEF PanelOK
<1>14. CASE IsAnswer(e) /\ ~call[e.call].title
  <2>1. HandleReturn(e) /\ UNCHANGED untitled
    BY <1>14 DEF Receive, e, IsAnswer
  <2>2. CASE e.call # current
    <3>1. UNCHANGED <<isLoading, listener, shown, andThen>>
      BY <2>1, <2>2 DEF HandleReturn
    <3>2. PanelIsAnswered'
      BY <1>16, <1>17, <2>2, <3>1
    <3> QED BY <1>1, <1>2, <1>7, <1>8, <1>9, <1>15, <2>1, <3>1, <3>2 DEF PanelOK
  <2>3. CASE e.call = current
    <3>1. isLoading' = FALSE /\ listener' = NoCall /\ HandleResponse(e)
      BY <2>1, <2>3 DEF HandleReturn
    <3>2. current \in Call /\ Answers(toUi, 1, current)
      BY <1>3, <1>14, <2>3 DEF Event, Answers
    <3>3. Awaited
      BY <3>2 DEF Awaited, Answers
    <3>4. call[current].at = "done" /\ ~\E i \in DOMAIN toUi' : Answers(toUi', i, current)
      <4>1. call[current].at = "done" /\ \A j \in DOMAIN toUi : Answers(toUi, j, current) => j = 1
        BY <1>3, <3>2 DEF Order, AnsweredOnce
      <4> QED BY <1>3, <1>5, <4>1
    <3>5. ~Awaited'
      BY <1>1, <3>1, <3>2, <3>4, CallFacts DEF Awaited, main
    <3>6. /\ shown' \subseteq shown \cup e.text
          /\ andThen' \in {<<"flush">>, <<"title", "flush">>}
      BY <3>1 DEF HandleResponse
    <3>7. NoneAhead'
      BY <3>5 DEF NoneAhead
    <3>8. PanelIsAnswered'
      <4>1. andThen' # << >>
        BY <3>6
      <4> QED BY <3>1, <4>1 DEF PanelIsAnswered
    <3> QED BY <1>1, <1>2, <1>4, <1>6, <1>10, <1>15, <2>1, <3>1, <3>3, <3>6, <3>7, <3>8 DEF PanelOK
  <2> QED BY <2>2, <2>3
<1> QED BY <1>3, <1>11, <1>12, <1>13, <1>14 DEF Event, IsAnswer

-------------------------------------------------------------------------------
(* The theorems *)

LEMMA InitInv == Init => IInv
<1> SUFFICES ASSUME Init PROVE IInv
  OBVIOUS
<1> USE CallFacts, CallsAssumption, BoundsAssumption, NoneAssumption
<1>1. MainOK
  <2>1. NoEntry("unused", FALSE) \in Activation /\ call = [c \in Call |-> NoEntry("unused", FALSE)]
    BY DEF Init, NoEntry, Activation
  <2>2. call \in [Call -> Activation] /\ \A c \in Call : call[c].at = "unused"
    BY <2>1 DEF NoEntry
  <2>3. \A p \in Proc : proc[p].waiter = NoCall /\ proc[p].state = "unused"
    BY DEF Init
  <2>4. proc \in [Proc -> Process]
    <3>1. << >> \in Seq(Line) /\ << >> \in Seq(Request)
      BY EmptySeq
    <3> QED BY <3>1 DEF Init, Process
  <2>5. ready = {} /\ registered \in [Key -> Proc \cup {NoProc}]
    BY DEF Init
  <2>6. CallsHold
    BY <2>2 DEF CallsHold, Reading, Stage
  <2>7. WaitersRead
    BY <2>3 DEF WaitersRead
  <2> QED BY <2>2, <2>4, <2>5, <2>6, <2>7 DEF MainOK
<1>2. Order
  <2>0. /\ call = [c \in Call |-> NoEntry("unused", FALSE)]
        /\ NoEntry("unused", FALSE).title = FALSE /\ NoEntry("unused", FALSE).text = {}
        /\ NoEntry("unused", FALSE).at = "unused"
    BY DEF Init, NoEntry
  <2>1. \A c \in Call : call[c].at = "unused" /\ call[c].text = {} /\ call[c].title = FALSE
    BY <2>0
  <2>2. /\ sent \in 0..Calls /\ toUi \in Seq(Event) /\ toUi = << >>
        /\ \A p \in Proc : proc[p].queue = << >> /\ proc[p].todo = << >>
    BY EmptySeq DEF Init
  <2>3. DOMAIN toUi = {} /\ \A p \in Proc : DOMAIN proc[p].queue = {} /\ DOMAIN proc[p].todo = {}
    BY <2>2
  <2>4. Unsent /\ TextsSent
    BY <2>1, <2>3 DEF Unsent, TextsSent
  <2>5. LinesSent
    BY <2>3 DEF LinesSent
  <2>6. AnsweredOnce
    BY <2>3 DEF AnsweredOnce
  <2> QED BY <2>2, <2>4, <2>5, <2>6 DEF Order
<1>3. PanelOK
  <2>1. PanelSent /\ NoneAhead /\ NoTextFromLater /\ PromptIsCurrent /\ PanelIsAnswered
    BY DEF Init, PanelSent, NoneAhead, NoTextFromLater, PromptIsCurrent, PanelIsAnswered
  <2>2. queued \in 0..MaxQueued /\ updates \in 0..MaxUpdates
    BY DEF Init
  <2>3. /\ setting \in Key /\ lastKey \in Key \cup {NoKey}
        /\ {current, listener} \subseteq Call \cup {NoCall}
        /\ isLoading \in BOOLEAN /\ untitled \in BOOLEAN
        /\ andThen = << >> /\ shown \subseteq Call
    BY DEF Init
  <2> QED BY <2>1, <2>2, <2>3 DEF PanelOK
<1> QED BY <1>1, <1>2, <1>3 DEF IInv

LEMMA Invariance == Spec => []IInv
<1>1. IInv /\ [Next]_vars => IInv'
  <2> SUFFICES ASSUME IInv, [Next]_vars PROVE IInv'
    OBVIOUS
  <2>1. CASE SendMessage \/ Title \/ FlushQueue \/ Receive \/ Stop \/ NewChat
    BY <2>1, SendMessageKeeps, TitleKeeps, FlushKeeps, ReceiveKeeps, LeaveKeeps
  <2>2. CASE \E k \in Key : ChangeSetting(k)
    BY <2>2, ChangeKeeps
  <2>3. CASE \E c \in Call : StaleClosed(c) \/ Pump(c) \/ ReadTimeout(c)
    BY <2>3, StaleClosedKeeps, StepKeeps
  <2>4. CASE \E p \in Proc : AgentReplies(p) \/ AgentUpdates(p) \/ StdoutEnds(p) \/ ChildCloses(p)
    BY <2>4, AgentKeeps
  <2>5. CASE UNCHANGED vars
    <3>1. MainOK' /\ Order'
      BY <2>5, IdleMain, IdleOrder DEF vars, IInv
    <3>2. PanelOK'
      BY <2>5, PanelStays DEF vars, IInv, PanelOK, Awaited, Outstanding, main, panel
    <3> QED BY <3>1, <3>2 DEF IInv
  <2> QED BY <2>1, <2>2, <2>3, <2>4, <2>5 DEF Next
<1> QED BY <1>1, InitInv, PTL DEF Spec

\* The state stays of its type, and what waits and runs stays consistent.
THEOREM TypeCorrect == Spec => []TypeOK
<1>1. IInv => TypeOK
  BY DEF IInv, MainOK, Order, PanelOK, TypeOK
<1> QED BY <1>1, Invariance, PTL

\* While the panel loads, its call is in main or the answer to it is on the way, and a
\* queued message waits for that answer or for the flush after it.
THEOREM PanelAnswered == Spec => []PanelIsAnswered
<1>1. IInv => PanelIsAnswered
  BY DEF IInv, PanelOK
<1> QED BY <1>1, Invariance, PTL

\* A message never shows the text of a call that was made after it.
THEOREM NoTextOfLaterCalls == Spec => []NoTextFromLater
<1>1. IInv => NoTextFromLater
  BY DEF IInv, PanelOK
<1> QED BY <1>1, Invariance, PTL
===============================================================================
