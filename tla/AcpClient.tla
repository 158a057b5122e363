------------------------------ MODULE AcpClient ------------------------------
(*****************************************************************************)
(* The AI panel in ACP mode (ai-chat.component.ts) and the client of the     *)
(* external agent in the main process (adapter/ipc/ai/acpClient.js).         *)
(* A call is one acp.send: a prompt of the user, or the titling of a chat.   *)
(* Promise callbacks run before the next event, so every event waits for     *)
(* `ready` and `andThen` to be empty.  The agent answers requests in order   *)
(* with any updates it likes.  Left out: @file attachments (AiAgent), log    *)
(* lines on stdout below the cap, fetch-models, which keeps no state.        *)
(*****************************************************************************)
EXTENDS Naturals, Sequences

CONSTANTS
  Calls,       \* bound on acp.send calls
  Proc,        \* agent processes; their number bounds the spawns
  Key,         \* (command, args, model) triples
  FirstKey,    \* the one configured at first
  MaxUpdates,  \* bound on session/update lines
  MaxQueued,   \* bound on messages queued in the panel
  NoCall, NoProc, NoKey

ASSUME CallsAssumption == Calls \in Nat
ASSUME BoundsAssumption == FirstKey \in Key /\ MaxUpdates \in Nat /\ MaxQueued \in Nat
ASSUME NoneAssumption == NoProc \notin Proc /\ NoKey \notin Key /\ NoCall \notin Nat

Call == 1..Calls

VARIABLES
  setting,     \* the configured triple
  lastKey,     \* lastAcpTriple
  current,     \* the call of the current generation; Stop and a new chat move on to none
  isLoading,
  queued,      \* length of pendingQueue
  untitled,    \* the open chat has no title yet
  listener,    \* the call whose acp.chunk listener is installed
  andThen,     \* what handleResponse still does: title the chat, flush the queue
  shown,       \* history: the prompts whose text the message of the current call shows
  sent,        \* number of calls made
  call,        \* acp.send activations in main
  ready,       \* those whose read resolved, or that are about to read
  proc,        \* agent processes, with the readline interface of each
  registered,  \* acpProcesses
  toUi,        \* chunks and results, in order
  updates      \* session/update lines so far

panel == <<setting, lastKey, current, isLoading, queued, untitled, listener, andThen, shown>>
main == <<call, ready, proc, registered>>
vars == <<panel, sent, main, toUi, updates>>

Stage == {"init", "new", "prompt"}
Update == {"text", "full", "usage", "completed", "failed"}
Request == [call: Call, stage: Stage]
Line == [call: Call, stage: Stage, is: {"reply", "error"} \cup Update]
NoEntry(at, title) == [at |-> at, key |-> NoKey, proc |-> NoProc, title |-> title, text |-> {}]
Reading(c) == call[c].at \in Stage

Activation == [at: {"unused", "closing", "done"} \cup Stage, key: Key \cup {NoKey},
               proc: Proc \cup {NoProc}, title: BOOLEAN, text: SUBSET Call]
Process == [state: {"unused", "up", "killed"}, closed: BOOLEAN,
            waiter: Call \cup {NoCall}, queue: Seq(Line), todo: Seq(Request)]
Event == [is: {"chunk", "full", "done", "result", "error"}, call: Call, text: SUBSET Call]

TypeOK ==
  /\ setting \in Key /\ lastKey \in Key \cup {NoKey}
  /\ {current, listener} \subseteq Call \cup {NoCall}
  /\ isLoading \in BOOLEAN /\ untitled \in BOOLEAN
  /\ queued \in 0..MaxQueued
  /\ andThen \in {<< >>, <<"flush">>, <<"title", "flush">>}
  /\ shown \subseteq Call
  /\ sent \in 0..Calls
  /\ call \in [Call -> Activation]
  /\ ready \subseteq {c \in Call : Reading(c)}
  /\ proc \in [Proc -> Process]
  /\ registered \in [Key -> Proc \cup {NoProc}]
  /\ toUi \in Seq(Event)
  /\ updates \in 0..MaxUpdates

Init ==
  /\ setting = FirstKey /\ lastKey = NoKey
  /\ current = NoCall /\ listener = NoCall
  /\ isLoading = FALSE /\ queued = 0 /\ untitled = TRUE /\ andThen = << >>
  /\ shown = {}
  /\ sent = 0
  /\ call = [c \in Call |-> NoEntry("unused", FALSE)]
  /\ ready = {}
  /\ proc = [p \in Proc |-> [state |-> "unused", closed |-> FALSE, waiter |-> NoCall,
                             queue |-> << >>, todo |-> << >>]]
  /\ registered = [k \in Key |-> NoProc]
  /\ toUi = << >> /\ updates = 0

Quiet == ready = {} /\ andThen = << >>

-------------------------------------------------------------------------------
(* Main: acp.send, readJsonLine, acp.close *)

Asked(p, c, stage) == [proc[p] EXCEPT !.todo = Append(@, [call |-> c, stage |-> stage])]

\* acp.send up to its first read: a registered session takes the prompt, else a process
\* is spawned and asked to initialize.
AcpSend(c, k, title) ==
  LET p == registered[k]
      Unused == {q \in Proc : proc[q].state = "unused"}
      fresh == CHOOSE q \in Unused : TRUE
      Entry(q, at) == [at |-> at, key |-> k, proc |-> q, title |-> title, text |-> {}] IN
  /\ ready' = ready \cup {c}
  /\ \/ /\ p # NoProc /\ proc[p].state # "killed"
        /\ call' = [call EXCEPT ![c] = Entry(p, "prompt")]
        /\ proc' = [proc EXCEPT ![p] = Asked(p, c, "prompt")]
     \/ /\ p = NoProc
        /\ Unused # {}
        /\ call' = [call EXCEPT ![c] = Entry(fresh, "init")]
        /\ proc' = [proc EXCEPT ![fresh] = [Asked(fresh, c, "init") EXCEPT !.state = "up"]]
  /\ UNCHANGED registered

Returned(c) == NoEntry("done", call[c].title)

\* The call returns to the panel.
Settle(c, is) ==
  /\ call' = [call EXCEPT ![c] = Returned(c)]
  /\ ready' = ready \ {c}
  /\ toUi' = Append(toUi, [is |-> is, call |-> c, text |-> call[c].text])

\* An error thrown in the handler; a process that has not registered yet keeps running.
Fail(c) == Settle(c, "error")

\* The session is ready: it takes the place of a rival that was ready first, which
\* keeps running.
Register(c) == registered' = [registered EXCEPT ![call[c].key] = call[c].proc]

\* ensureSession after a line: initialize, then session/new, then the prompt.
Handshake(c, line) ==
  LET p == call[c].proc
      next == IF call[c].at = "init" THEN "new" ELSE "prompt"
      rest == [Asked(p, c, next) EXCEPT !.queue = Tail(@)] IN
  IF line.call # c \/ line.stage # call[c].at
  THEN /\ proc' = [proc EXCEPT ![p].queue = Tail(@)]
       /\ UNCHANGED <<call, ready, registered, toUi>>
  ELSE IF line.is = "error"
  THEN /\ proc' = [proc EXCEPT ![p].queue = Tail(@)]
       /\ Fail(c)
       /\ UNCHANGED registered
  ELSE /\ proc' = [proc EXCEPT ![p] = rest]
       /\ call' = [call EXCEPT ![c].at = next]
       /\ IF next = "prompt" THEN Register(c) ELSE UNCHANGED registered
       /\ UNCHANGED <<ready, toUi>>

\* The lines the panel is sent for an update: text, all text, and the end of the stream.
Chunks(line) ==
  LET Of(is) == [is |-> is, call |-> line.call, text |-> {line.call}] IN
  CASE line.is = "text" -> <<Of("chunk")>>
    [] line.is = "full" -> <<Of("full"), Of("done")>>
    [] OTHER -> <<Of("done")>>

\* The loop of acp.send over an update, whichever prompt it belongs to.
OnUpdate(c, line) ==
  LET text == CASE line.is = "text" -> call[c].text \cup {line.call}
                [] line.is = "full" -> {line.call}
                [] OTHER -> call[c].text
      over == line.is \in {"full", "usage", "failed"} \/ (line.is = "completed" /\ text # {})
      end == [is |-> IF line.is = "failed" THEN "error" ELSE "result", call |-> c, text |-> text] IN
  /\ call' = [call EXCEPT ![c] = IF over THEN Returned(c) ELSE [@ EXCEPT !.text = text]]
  /\ ready' = IF over THEN ready \ {c} ELSE ready
  /\ toUi' = toUi \o Chunks(line) \o (IF over THEN <<end>> ELSE << >>)

\* The loop over a reply: the one with the id of the prompt ends it.
OnReply(c, line) ==
  IF line.call = c /\ line.stage = "prompt"
  THEN IF line.is = "error" THEN Settle(c, "error")
       ELSE /\ call' = [call EXCEPT ![c] = Returned(c)]
            /\ ready' = ready \ {c}
            /\ toUi' = Append(toUi, [is |-> "result", call |-> c,
                         text |-> IF call[c].text = {} THEN {c} ELSE call[c].text])
  ELSE UNCHANGED <<call, ready, toUi>>

Answering(c, line) ==
  /\ proc' = [proc EXCEPT ![call[c].proc].queue = Tail(@)]
  /\ IF line.is \in Update THEN OnUpdate(c, line) ELSE OnReply(c, line)
  /\ UNCHANGED registered

\* pump of readJsonLine: the next line of the process, whoever it is for; else the
\* call becomes the one waiter of the process, in place of any other.
Pump(c) ==
  LET p == call[c].proc IN
  /\ c \in ready
  /\ \/ /\ proc[p].queue # << >>
        /\ IF call[c].at = "prompt" THEN Answering(c, Head(proc[p].queue))
           ELSE Handshake(c, Head(proc[p].queue))
     \/ /\ proc[p].queue = << >> /\ proc[p].closed
        /\ Fail(c)
        /\ UNCHANGED <<proc, registered>>
     \/ /\ proc[p].queue = << >> /\ ~proc[p].closed
        /\ proc' = [proc EXCEPT ![p].waiter = c]
        /\ ready' = ready \ {c}
        /\ UNCHANGED <<call, registered, toUi>>
  /\ UNCHANGED <<panel, sent, updates>>

\* Mutant of ReadTimeout: only the call that waits times out.
WaiterTimeout(c) ==
  /\ Quiet /\ Reading(c) /\ proc[call[c].proc].waiter = c
  /\ proc' = [proc EXCEPT ![call[c].proc].waiter = NoCall]
  /\ Fail(c)
  /\ UNCHANGED <<panel, sent, registered, updates>>

\* Five minutes without a line for this read, or too many lines that are not JSON:
\* the read fails and takes the waiter away, its own or another's.
ReadTimeout(c) ==
  /\ Quiet /\ Reading(c)
  /\ proc' = [proc EXCEPT ![call[c].proc].waiter = NoCall]
  /\ Fail(c)
  /\ UNCHANGED <<panel, sent, registered, updates>>

\* rl 'close': the one waiter is told.
Closed(p) == [proc[p] EXCEPT !.closed = TRUE, !.waiter = NoCall, !.todo = << >>]

\* Mutant of Woken: a waiter is woken where there is none.
WokenAny(p) == {proc[p].waiter}

Woken(p) == {proc[p].waiter} \ {NoCall}

\* acp.close
CloseSession(k) ==
  LET p == registered[k] IN
  IF p = NoProc THEN UNCHANGED <<registered, proc, ready>>
  ELSE /\ registered' = [registered EXCEPT ![k] = NoProc]
       /\ proc' = [proc EXCEPT ![p] = [Closed(p) EXCEPT !.state = "killed"]]
       /\ ready' = ready \cup Woken(p)

-------------------------------------------------------------------------------
(* The agent *)

\* What a process does that no call reads from or will read from has no effect.
Attended(p) == (\E k \in Key : registered[k] = p) \/ (\E c \in Call : call[c].proc = p)

Talks(p) == Quiet /\ proc[p].state = "up" /\ ~proc[p].closed /\ Attended(p)

Emit(p, is) ==
  LET r == Head(proc[p].todo)
      line == [call |-> r.call, stage |-> r.stage, is |-> is]
      last == is \in {"reply", "error"} IN
  /\ proc' = [proc EXCEPT ![p].queue = Append(@, line), ![p].waiter = NoCall,
                          ![p].todo = IF last THEN Tail(@) ELSE @]
  /\ ready' = ready \cup Woken(p)

AgentReplies(p) ==
  /\ Talks(p) /\ proc[p].todo # << >>
  /\ \E is \in {"reply", "error"} : Emit(p, is)
  /\ UNCHANGED <<panel, sent, call, registered, toUi, updates>>

AgentUpdates(p) ==
  /\ Talks(p) /\ proc[p].todo # << >>
  /\ Head(proc[p].todo).stage = "prompt"
  /\ updates < MaxUpdates /\ updates' = updates + 1
  /\ \E is \in Update : Emit(p, is)
  /\ UNCHANGED <<panel, sent, call, registered, toUi>>

\* The process ends, or never started: its stdout closes first.
StdoutEnds(p) ==
  /\ Talks(p)
  /\ proc' = [proc EXCEPT ![p] = Closed(p)]
  /\ ready' = ready \cup Woken(p)
  /\ UNCHANGED <<panel, sent, call, registered, toUi, updates>>

\* child 'close': the entry goes if it is still this child's.
ChildCloses(p) ==
  /\ Quiet /\ proc[p].closed
  /\ \E k \in Key : registered[k] = p
  /\ registered' = [k \in Key |-> IF registered[k] = p THEN NoProc ELSE registered[k]]
  /\ UNCHANGED <<panel, sent, call, ready, proc, toUi, updates>>

-------------------------------------------------------------------------------
(* The panel *)

\* sendAcpMessage from its await on: a fresh listener, then acp.send.  It does not
\* look at the generation again.
Post(c, k) ==
  /\ listener' = c
  /\ AcpSend(c, k, FALSE)

\* sendMessage: the previous run is torn down, a stale agent is closed first.
Begin ==
  LET c == sent + 1 IN
  /\ sent < Calls /\ sent' = c
  /\ current' = c /\ isLoading' = TRUE /\ queued' = 0
  /\ lastKey' = setting /\ shown' = {}
  /\ IF lastKey \in {NoKey, setting}
     THEN Post(c, setting)
     ELSE /\ CloseSession(lastKey)
          /\ call' = [call EXCEPT ![c] = [@ EXCEPT !.at = "closing", !.key = setting]]
          /\ UNCHANGED listener
  /\ UNCHANGED <<setting, untitled, toUi, updates>>

SendMessage ==
  /\ Quiet
  /\ \/ ~isLoading /\ Begin /\ UNCHANGED andThen
     \/ /\ isLoading /\ queued < MaxQueued
        /\ queued' = queued + 1
        /\ UNCHANGED <<setting, lastKey, current, isLoading, untitled, listener, andThen, shown,
                       sent, main, toUi, updates>>

\* acp.close has returned.
StaleClosed(c) ==
  /\ Quiet /\ call[c].at = "closing"
  /\ Post(c, call[c].key)
  /\ UNCHANGED <<setting, lastKey, current, isLoading, queued, untitled, andThen, shown,
                 sent, toUi, updates>>

\* autoRenameSession
Title ==
  LET c == sent + 1 IN
  /\ ready = {} /\ andThen # << >> /\ Head(andThen) = "title"
  /\ andThen' = Tail(andThen)
  /\ IF untitled /\ sent < Calls
     THEN sent' = c /\ AcpSend(c, setting, TRUE)
     ELSE UNCHANGED <<sent, main>>
  /\ UNCHANGED <<setting, lastKey, current, isLoading, queued, untitled, listener, shown,
                 toUi, updates>>

FlushQueue ==
  /\ ready = {} /\ andThen # << >> /\ Head(andThen) = "flush"
  /\ andThen' = Tail(andThen)
  /\ IF isLoading \/ queued = 0 \/ sent = Calls
     THEN UNCHANGED <<setting, lastKey, current, isLoading, queued, untitled, listener, shown,
                      sent, main, toUi, updates>>
     ELSE Begin

IsAnswer(e) == e.is \in {"result", "error"}

\* The chunk listener acts when its generation is current.
Heard(l) == l # NoCall /\ l = current

\* Mutant of HandleResponse: an answer without content is not followed by a flush.
ResponseOnly(e) ==
  LET content == IF shown = {} THEN e.text ELSE shown IN
  IF e.is = "error"
  THEN andThen' = << >> /\ UNCHANGED shown
  ELSE shown' = content /\ andThen' = IF content = {} THEN << >> ELSE <<"title", "flush">>

\* handleResponse: a message with content is titled and then the queue is flushed.
HandleResponse(e) ==
  LET content == IF shown = {} THEN e.text ELSE shown IN
  IF e.is = "error"
  THEN andThen' = <<"flush">> /\ UNCHANGED shown
  ELSE /\ shown' = content
       /\ andThen' = IF content = {} THEN <<"flush">> ELSE <<"title", "flush">>

\* Mutant of HandleReturn: the listener is left in place.
ReturnKeepsListener(e) ==
  IF e.call # current
  THEN UNCHANGED <<isLoading, listener, shown, andThen>>
  ELSE isLoading' = FALSE /\ UNCHANGED listener /\ HandleResponse(e)

\* sendAcpMessage after its await: a call of an older generation is ignored.
HandleReturn(e) ==
  IF e.call # current
  THEN UNCHANGED <<isLoading, listener, shown, andThen>>
  ELSE isLoading' = FALSE /\ listener' = NoCall /\ HandleResponse(e)

Receive ==
  /\ Quiet /\ toUi # << >>
  /\ toUi' = Tail(toUi)
  /\ LET e == Head(toUi) IN
     CASE e.is \in {"chunk", "full"} ->
            /\ shown' = IF ~Heard(listener) THEN shown
                        ELSE IF e.is = "full" THEN e.text ELSE shown \cup e.text
            /\ UNCHANGED <<isLoading, listener, andThen, untitled>>
       [] e.is = "done" ->
            /\ isLoading' = (isLoading /\ ~Heard(listener))
            /\ UNCHANGED <<listener, shown, andThen, untitled>>
       [] e.is \in {"result", "error"} /\ call[e.call].title ->
            /\ untitled' = (untitled /\ (e.is = "error" \/ e.text = {}))
            /\ UNCHANGED <<isLoading, listener, shown, andThen>>
       [] OTHER -> HandleReturn(e) /\ UNCHANGED untitled
  /\ UNCHANGED <<setting, lastKey, current, queued, sent, main, updates>>

Stop ==
  /\ Quiet /\ isLoading
  /\ current' = NoCall /\ isLoading' = FALSE /\ listener' = NoCall /\ queued' = 0
  /\ shown' = {}
  /\ UNCHANGED <<setting, lastKey, untitled, andThen, sent, main, toUi, updates>>

NewChat ==
  /\ Quiet /\ current # NoCall
  /\ current' = NoCall /\ isLoading' = FALSE /\ queued' = 0 /\ shown' = {}
  /\ untitled' = TRUE
  /\ UNCHANGED <<setting, lastKey, listener, andThen, sent, main, toUi, updates>>

\* Only the last of several changes before a prompt is looked at.
ChangeSetting(k) ==
  /\ Quiet /\ k # setting /\ lastKey = setting
  /\ setting' = k
  /\ UNCHANGED <<lastKey, current, isLoading, queued, untitled, listener, andThen, shown,
                 sent, main, toUi, updates>>

-------------------------------------------------------------------------------

Next ==
  \/ SendMessage \/ Title \/ FlushQueue \/ Receive \/ Stop \/ NewChat
  \/ \E k \in Key : ChangeSetting(k)
  \/ \E c \in Call : StaleClosed(c) \/ Pump(c) \/ ReadTimeout(c)
  \/ \E p \in Proc : AgentReplies(p) \/ AgentUpdates(p) \/ StdoutEnds(p) \/ ChildCloses(p)

Spec == Init /\ [][Next]_vars

\* The event loops run, messages arrive and timers fire.  The agent may stop answering.
Fairness ==
  /\ WF_vars(\E c \in Call : Pump(c))
  /\ WF_vars(Title \/ FlushQueue)
  /\ WF_vars(Receive)
  /\ \A c \in Call : WF_vars(ReadTimeout(c)) /\ WF_vars(StaleClosed(c))
FairSpec == Spec /\ Fairness
-------------------------------------------------------------------------------
(* Properties *)

\* The stream of a titling, or of any prompt sent later, never shows in a message
\* that was asked for earlier (ai-chat.component.ts:977-1008: chunks carry no id).
NoTextFromLater == current # NoCall => \A c \in shown : c <= current

\* Whoever waits in the panel is answered: while it shows that it loads, its call is
\* in main or the answer to it is on the way, and a queued message waits for the same
\* or for the flush that follows it (ai-chat.component.ts:641-650, 1006-1026, 1066-1073).
\* The end of a stream, a later titling or the answer to a stopped call do not strand it.
Outstanding ==
  /\ current # NoCall
  /\ \/ call[current].at \in {"closing"} \cup Stage
     \/ \E i \in DOMAIN toUi : IsAnswer(toUi[i]) /\ toUi[i].call = current
PanelIsAnswered ==
  /\ isLoading => Outstanding
  /\ queued > 0 /\ sent < Calls => Outstanding \/ andThen # << >>

\* Every call returns, also one whose waiter another call replaced, one whose reply
\* another call consumed, and one whose agent died (acpClient.js:42-88).
CallSettles == \A c \in Call : Reading(c) ~> ~Reading(c)

\* ai-chat.component.ts:411-412: "must not let late chunks bleed into whatever
\* session becomes current".
LateChunksStayOut == shown \subseteq {current}

\* ai-chat.component.ts:971-972: "kill the stale backend process before opening a new
\* one, otherwise it lingers forever".
StaleAgentIsClosed == \A k \in Key \ {lastKey, setting} : registered[k] = NoProc
===============================================================================
