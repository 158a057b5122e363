------------------------------ MODULE SessionContext ------------------------------
(*****************************************************************************)
(* What the terminals print reaches the model: the buffers of the session    *)
(* registry (sessionRegistry.js), and the context that aiChat.js puts before *)
(* the messages of a question: the terminal the user looks at and the        *)
(* sessions of the AI, each with what it printed since it was last looked    *)
(* at, by any chat, or, when it stands at a prompt, with the prompt alone.   *)
(*                                                                           *)
(* An output is what one event brought: a number, and its millisecond.  One  *)
(* is as long as another: the 6000 characters of a line are MaxLine outputs. *)
(* How long a context is, and so how many of its lines maxContextTokens      *)
(* leaves, is any.                                                           *)
(*****************************************************************************)
EXTENDS Naturals, FiniteSets, Sequences, SequencesExt

CONSTANTS
  Chat,
  Session,
  UserSession,  \* the terminals of the user; the others are the AI's
  ChatOf,       \* the chat that opened each session of the AI
  Settings,     \* the values of contextOptimization
  Prompts,      \* the outputs that end in a prompt
  MaxBuffer,    \* maxBufferLines
  MaxLine,      \* how many outputs a line holds
  MaxMarks,     \* how many marks lastSentTimestamps holds: 1000
  MaxOutputs, MaxAsks, MaxClock, \* bounds
  None

VARIABLES
  settings,     \* [enabled, idleSummary, incremental]
  registered,   \* the sessions of the registry, in its order
  running,      \* those that are alive
  buffer,       \* what the registry keeps of each
  lastSent,     \* lastSentTimestamps, 0 for none
  order,        \* the order of its keys, those set first first
  clock,        \* milliseconds
  outputs, asks,
  sent,         \* history: the outputs some context has brought
  again,        \* history: those that two have
  passed,       \* history: those a context was entitled to leave out
  forgotten     \* history: those kept by a session when its mark was dropped

vars == <<settings, registered, running, buffer, lastSent, order, clock, outputs, asks, sent,
          again, passed, forgotten>>

Output == [id : 1..MaxOutputs, ts : 1..MaxClock]
Incremental == settings.enabled /\ settings.incremental

TypeOK ==
  /\ settings \in Settings /\ registered \in Seq(Session)
  /\ \A i, j \in DOMAIN registered : registered[i] = registered[j] => i = j
  /\ running \subseteq Range(registered)
  /\ buffer \in [Session -> Seq(Output)]
  /\ lastSent \in [Session -> 0..MaxClock] /\ order \in Seq(Session) /\ clock \in 1..MaxClock
  /\ outputs \in 0..MaxOutputs /\ asks \in 0..MaxAsks
  /\ sent \subseteq 1..outputs /\ again \subseteq sent /\ passed \subseteq 1..outputs

Init ==
  /\ settings \in Settings
  /\ registered = <<>> /\ running = {} /\ buffer = [s \in Session |-> <<>>]
  /\ lastSent = [s \in Session |-> 0] /\ order = <<>> /\ clock = 1
  /\ outputs = 0 /\ asks = 0
  /\ sent = {} /\ again = {} /\ passed = {} /\ forgotten = {}

marks == <<lastSent, order>>
historyVars == <<sent, again, passed, forgotten>>
Ids(chunks) == {chunk.id : chunk \in chunks}

\* The elements of seq that are in S, in their order.
Only(seq, S) ==
  LET only[i \in 0..Len(seq)] ==
        IF i = 0 THEN <<>>
        ELSE IF seq[i] \in S THEN Append(only[i - 1], seq[i]) ELSE only[i - 1]
  IN only[Len(seq)]

-----------------------------------------------------------------------------
\* The registry.  A session that is opened again keeps its place.
Register(s) ==
  /\ s \notin running
  /\ registered' = IF Contains(registered, s) THEN registered ELSE Append(registered, s)
  /\ running' = running \cup {s} /\ buffer' = [buffer EXCEPT ![s] = <<>>]
  /\ UNCHANGED <<settings, marks, clock, outputs, asks, historyVars>>

Prints(s) ==
  LET output == [id |-> outputs + 1, ts |-> clock]
      long == Append(buffer[s], output) IN
  /\ s \in running /\ outputs < MaxOutputs /\ outputs' = outputs + 1
  /\ buffer' = [buffer EXCEPT ![s] = IF Len(long) > MaxBuffer THEN Tail(long) ELSE long]
  /\ passed' = IF lastSent[s] = clock THEN passed \cup {output.id} ELSE passed
  /\ UNCHANGED <<settings, registered, running, marks, clock, asks, sent, again, forgotten>>

\* The connection is gone: the session knows before the registry does.
Dies(s) ==
  /\ s \in running /\ running' = running \ {s}
  /\ UNCHANGED <<settings, registered, buffer, marks, clock, outputs, asks, historyVars>>

Unregister(s) ==
  /\ Contains(registered, s) /\ s \notin running
  /\ registered' = Only(registered, Session \ {s})
  /\ buffer' = [buffer EXCEPT ![s] = <<>>]
  /\ UNCHANGED <<settings, running, marks, clock, outputs, asks, historyVars>>

Tick ==
  /\ clock < MaxClock /\ clock' = clock + 1
  /\ UNCHANGED <<settings, registered, running, buffer, marks, outputs, asks, historyVars>>

-----------------------------------------------------------------------------
\* injectSessionContext()
InScope(chat, activeTab, crossSessionAccess) ==
  (IF Contains(registered, activeTab) THEN <<activeTab>> ELSE <<>>)
    \o Only(registered, {s \in Session \ UserSession : crossSessionAccess \/ ChatOf[s] = chat})

Summarised(s) ==
  settings.enabled /\ ( \/ s \notin running
                        \/ settings.idleSummary /\ (buffer[s] = <<>> \/ Last(buffer[s]).id \in Prompts))

\* Above MaxMarks the oldest marks are dropped, before they are used.
Dropped == {order[i] : i \in {i \in DOMAIN order : i + MaxMarks <= Len(order)}}
Since == [s \in Session |-> IF s \in Dropped THEN 0 ELSE lastSent[s]]

NewOutput(s) == {output \in Range(buffer[s]) : output.ts > Since[s]}
Text(s) == IF Incremental THEN NewOutput(s) ELSE Range(buffer[s])

\* The end of it, slice(-6000)
End(s) == {output \in Text(s) : Cardinality({o \in Text(s) : o.id > output.id}) < MaxLine}

\* A session has a line, unless nothing of it is new; the line brings outputs.
HasLine(s) == Summarised(s) \/ ~Incremental \/ NewOutput(s) # {}
LineOf(s) == IF Summarised(s) THEN {} ELSE Ids(End(s))

\* What a line does not bring: what came before a prompt, and what is too long.
LeftOut(s) == (IF Summarised(s) THEN Ids(Range(buffer[s])) ELSE Ids(Text(s))) \ LineOf(s)

\* With no session in scope, the marks of those that are gone are dropped.
Marked(scope, lines) ==
  IF scope = <<>>
  THEN /\ lastSent' = [s \in Session |-> IF Contains(registered, s) THEN lastSent[s] ELSE 0]
       /\ order' = Only(order, Range(registered))
       /\ UNCHANGED forgotten
  ELSE /\ lastSent' = [s \in Session |-> IF Incremental /\ s \in Range(lines)
                                        THEN clock ELSE Since[s]]
       /\ order' = Only(order, Session \ Dropped)
                    \o (IF Incremental THEN Only(lines, {s \in Session : Since[s] = 0}) ELSE <<>>)
       /\ forgotten' = forgotten \cup UNION {Ids(Range(buffer[s])) : s \in Dropped}

\* maxContextTokens drops lines from the end.
Kept(lines) == IF settings.enabled /\ lines # <<>> THEN 0..Len(lines) ELSE {Len(lines)}

Told(lines, first, last) == UNION {LineOf(lines[i]) : i \in first..last}

Ask(chat, activeTab, crossSessionAccess) ==
  LET scope == InScope(chat, activeTab, crossSessionAccess)
      lines == Only(scope, {s \in Session : HasLine(s)}) IN
  /\ asks < MaxAsks /\ asks' = asks + 1
  /\ Marked(scope, lines)
  /\ \E kept \in Kept(lines) :
       LET brought == Told(lines, 1, kept) IN
       /\ sent' = sent \cup brought /\ again' = again \cup (sent \cap brought)
       /\ passed' = passed \cup Told(lines, kept + 1, Len(lines))
                           \cup UNION {LeftOut(s) : s \in Range(lines)}
  /\ UNCHANGED <<settings, registered, running, buffer, clock, outputs>>

Next ==
  \/ \E s \in Session : Register(s) \/ Dies(s) \/ Unregister(s) \/ Prints(s)
  \/ \E chat \in Chat, activeTab \in UserSession \cup {None}, cross \in BOOLEAN :
       Ask(chat, activeTab, cross)
  \/ Tick

Spec == Init /\ [][Next]_vars

-----------------------------------------------------------------------------
\* What a terminal printed and the registry still keeps has been told to a
\* chat, or the next question brings it; unless the terminal then stood at a
\* prompt or had ended, its line or the context was cut, or it came in the very
\* millisecond of a question.
OutputArrives ==
  Incremental =>
    \A s \in Range(registered) : \A i \in DOMAIN buffer[s] :
      LET output == buffer[s][i] IN
      output.id \in sent \cup passed \/ output.ts > lastSent[s]

\* "incremental" (aiChat.js:137): nothing is told twice, whichever chat asks,
\* unless the mark of its terminal had to make room for others.
NothingTwice == Incremental => again \subseteq forgotten

\* The same with nothing left out, and nothing told twice.
NothingLeftOut ==
  Incremental =>
    \A s \in Range(registered) : \A i \in DOMAIN buffer[s] :
      buffer[s][i].id \in sent \/ buffer[s][i].ts > lastSent[s]
NeverTwice == Incremental => again = {}

\* What is kept came from one session, by now, and not after it was last looked
\* at if it was brought.
ToldOnce ==
  /\ \A s \in Session \ Range(registered) : buffer[s] = <<>>
  /\ \A s, r \in Session : \A i \in DOMAIN buffer[s], j \in DOMAIN buffer[r] :
       buffer[s][i].id = buffer[r][j].id => s = r /\ i = j
  /\ \A s \in Session : \A i \in DOMAIN buffer[s] :
       /\ buffer[s][i].id <= outputs /\ buffer[s][i].ts <= clock
       /\ Incremental /\ buffer[s][i].id \in sent \ forgotten => buffer[s][i].ts <= lastSent[s]
  /\ \A s \in Session : lastSent[s] <= clock

IInv == TypeOK /\ ToldOnce /\ OutputArrives /\ NothingTwice
==============================================================================
