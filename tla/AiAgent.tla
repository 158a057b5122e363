------------------------------- MODULE AiAgent -------------------------------
(*****************************************************************************)
(* The AI agent across two processes:                                        *)
(*   - renderer: the chat panel (src/app/components/ai-chat/                  *)
(*     ai-chat.component.ts), which sends one message at a time, queues the  *)
(*     next ones, shows one command to approve, and stops;                   *)
(*   - main: the runs and their AbortControllers (adapter/ipc/ai/aiChat.js), *)
(*     the function-calling loop (adapter/ai/functionLoop.js), the gate in   *)
(*     executeTool (adapter/ai/toolDefinitions.js) and the approvals         *)
(*     (runtime/approvalManager.js).                                         *)
(* IPC in each direction is FIFO and takes time.                             *)
(*                                                                           *)
(* Modelled is the agent mode, with the automatic titling of a new chat,     *)
(* which is a run of its own in the same map of controllers; it is           *)
(* identified by its chat.  The generation counter of the panel is not kept: *)
(* in agent mode a subscription is unsubscribed wherever the generation      *)
(* moves on, so a handler that runs finds the generation it captured.  The   *)
(* IPC listeners are installed and removed together with the subscription.   *)
(* Contents (messages, tool results, tokens) are left out.                   *)
(*****************************************************************************)
EXTENDS Naturals, Sequences

CONSTANTS
  Chat,       \* chat sessions
  Run,        \* messages sent in agent mode, each at most once
  Request,    \* approval request ids
  NoJob, NoChat, NoRequest,
  MaxDepth,   \* the depth limit of functionCallLoop (10)
  MaxCalls,   \* bound: tool calls in one answer of the model
  MaxQueue,   \* bound: messages queued behind a run
  MaxMail     \* bound: messages to main in flight when the user acts

Job == Run \cup Chat

ASSUME AgentAssumption ==
  /\ Run \cap Chat = {}
  /\ NoJob \notin Job
  /\ NoChat \notin Chat
  /\ NoRequest \notin Request
  /\ MaxDepth \in Nat /\ MaxCalls \in Nat /\ MaxQueue \in Nat /\ MaxMail \in Nat

VARIABLES
  \* renderer
  current,         \* historyService.currentSessionId
  untitled,        \* the chats still named 'New Chat'
  isLoading,
  pendingQueue,    \* how many messages are queued
  pendingCommand,  \* the request in the approval banner
  subscription,    \* the run whose settling the panel handles
  consented,       \* history: the requests the user approved
  \* in flight
  toMain, toRenderer,
  \* main
  at,              \* where each job is
  chatOf,          \* chatSessionId of a run
  aiControllers,   \* the job whose controller each chat has
  aborted,         \* the runs whose signal is aborted
  depth,           \* of functionCallLoop
  todo,            \* tool calls of the last answer still to do
  request,         \* each request: "none", "pending", "approved" or "rejected"
  asker            \* the run a request came from

rendererVars == <<current, untitled, isLoading, pendingQueue, pendingCommand, subscription, consented>>
loopVars     == <<depth, todo, request, asker>>
mainVars     == <<aiControllers, aborted, loopVars>>
vars == <<rendererVars, toMain, toRenderer, at, chatOf, mainVars>>

Cancel(c)           == [type |-> "cancel", chat |-> c]
Send(j, c)          == [type |-> "send", job |-> j, chat |-> c]
Approved(q)         == [type |-> "approved", request |-> q]
Rejected(q)         == [type |-> "rejected", request |-> q]
CommandPending(q)   == [type |-> "pending", request |-> q]
Settled(j, outcome) == [type |-> "settled", job |-> j, outcome |-> outcome]

Outcome == {"answered", "empty", "failed", "cancelled"}
MainMessage ==
  {Cancel(c) : c \in Chat} \cup {Send(j, c) : j \in Job, c \in Chat}
    \cup {Approved(q) : q \in Request} \cup {Rejected(q) : q \in Request}
RendererMessage ==
  {CommandPending(q) : q \in Request} \cup {Settled(j, o) : j \in Job, o \in Outcome}

\* A run is "reading" attached files, "posted" to main, waits for the model
\* ("http"), is at the head of the "loop" over the tool calls, waits for an
\* "approval", or runs a tool ("exec").
Busy == {"http", "loop", "approval", "exec"}

TypeOK ==
  /\ current \in Chat
  /\ untitled \subseteq Chat
  /\ isLoading \in BOOLEAN
  /\ pendingQueue \in 0..MaxQueue
  /\ pendingCommand \in Request \cup {NoRequest}
  /\ subscription \in Run \cup {NoJob}
  /\ consented \subseteq Request
  /\ toMain \in Seq(MainMessage)
  /\ toRenderer \in Seq(RendererMessage)
  /\ at \in [Job -> {"free", "reading", "posted", "done"} \cup Busy]
  /\ chatOf \in [Run -> Chat \cup {NoChat}]
  /\ aiControllers \in [Chat -> Job \cup {NoJob}]
  /\ aborted \subseteq Run
  /\ depth \in [Run -> 0..MaxDepth]
  /\ todo \in [Run -> 0..MaxCalls]
  /\ request \in [Request -> {"none", "pending", "approved", "rejected"}]
  /\ asker \in [Request -> Run \cup {NoJob}]

Init ==
  /\ current \in Chat
  /\ untitled \in SUBSET Chat
  /\ isLoading = FALSE
  /\ pendingQueue = 0
  /\ pendingCommand = NoRequest
  /\ subscription = NoJob
  /\ consented = {}
  /\ toMain = << >>
  /\ toRenderer = << >>
  /\ at = [j \in Job |-> "free"]
  /\ chatOf = [r \in Run |-> NoChat]
  /\ aiControllers = [c \in Chat |-> NoJob]
  /\ aborted = {}
  /\ depth = [r \in Run |-> 0]
  /\ todo = [r \in Run |-> 0]
  /\ request = [q \in Request |-> "none"]
  /\ asker = [q \in Request |-> NoJob]

-------------------------------------------------------------------------------
(* Renderer: sending *)

UserMayAct == Len(toMain) < MaxMail

\* What stop() and clearToolProgress() send: the run is cancelled, and the
\* command in the banner, if any, rejected.
Farewell(shown) ==
  <<Cancel(current)>> \o (IF shown = NoRequest THEN << >> ELSE <<Rejected(shown)>>)

\* sendWebMessageWithTools; it drops the banner without an answer.
Post(r, states, mail) ==
  /\ at' = [states EXCEPT ![r] = "posted"]
  /\ chatOf' = [chatOf EXCEPT ![r] = current]
  /\ subscription' = r
  /\ pendingCommand' = NoRequest
  /\ toMain' = Append(mail, Send(r, current))

\* sendMessage() when nothing is loading: clearToolProgress() tears down
\* whatever there is, the queue included; then the attached files are read,
\* and with none the message is posted at once.
Begin(r, shown, states, mail) ==
  /\ at[r] = "free"
  /\ pendingQueue' = 0
  /\ isLoading' = TRUE
  /\ \/ Post(r, states, mail \o Farewell(shown))
     \/ /\ at' = [states EXCEPT ![r] = "reading"]
        /\ subscription' = NoJob
        /\ pendingCommand' = NoRequest
        /\ toMain' = mail \o Farewell(shown)
        /\ UNCHANGED chatOf

SendMessage(r) ==
  /\ UserMayAct
  /\ ~isLoading
  /\ Begin(r, pendingCommand, at, toMain)
  /\ UNCHANGED <<current, untitled, consented, toRenderer, mainVars>>

\* The await of resolveAttachments() ends.  What stop() or a change of chat did
\* meanwhile is not looked at.
AttachmentsRead(r) ==
  /\ at[r] = "reading"
  /\ Post(r, at, toMain)
  /\ UNCHANGED <<current, untitled, isLoading, pendingQueue, consented, toRenderer, mainVars>>

\* A message typed while a run is in flight.  (A free run is left to send it.)
QueueMessage ==
  /\ isLoading
  /\ pendingQueue < MaxQueue
  /\ \E r \in Run : at[r] = "free"
  /\ pendingQueue' = pendingQueue + 1
  /\ UNCHANGED <<current, untitled, isLoading, pendingCommand, subscription, consented,
                 toMain, toRenderer, at, chatOf, mainVars>>

ClearQueue ==
  /\ pendingQueue > 0
  /\ pendingQueue' = 0
  /\ UNCHANGED <<current, untitled, isLoading, pendingCommand, subscription, consented,
                 toMain, toRenderer, at, chatOf, mainVars>>

-------------------------------------------------------------------------------
(* Renderer: stopping, changing the chat, the approval banner *)

TearDown ==
  /\ toMain' = toMain \o Farewell(pendingCommand)
  /\ isLoading' = FALSE
  /\ subscription' = NoJob
  /\ pendingCommand' = NoRequest
  /\ pendingQueue' = 0
  /\ UNCHANGED <<untitled, consented, toRenderer, at, chatOf, mainVars>>

\* The button is there while something loads.
Stop ==
  /\ UserMayAct
  /\ isLoading
  /\ TearDown
  /\ UNCHANGED current

\* Mutant of ChangeChat: the current chat is changed before the teardown.
ChangeChatFirst(c) ==
  /\ UserMayAct
  /\ current' = c
  /\ toMain' = Append(toMain, Cancel(c))
  /\ isLoading' = FALSE
  /\ subscription' = NoJob
  /\ pendingCommand' = NoRequest
  /\ pendingQueue' = 0
  /\ UNCHANGED <<untitled, consented, toRenderer, at, chatOf, mainVars>>

\* newChat, switchSession, deleteSession of the open chat; clearChat stays in it.
ChangeChat(c) ==
  /\ UserMayAct
  /\ TearDown
  /\ current' = c

\* Mutant of AnswerCommand: closing the panel only hides the banner.
AnswerOrHide(yes) ==
  /\ UserMayAct
  /\ pendingCommand # NoRequest
  /\ toMain' = IF yes THEN Append(toMain, Approved(pendingCommand)) ELSE toMain
  /\ consented' = IF yes THEN consented \cup {pendingCommand} ELSE consented
  /\ pendingCommand' = NoRequest
  /\ UNCHANGED <<current, untitled, isLoading, pendingQueue, subscription,
                 toRenderer, at, chatOf, mainVars>>

\* Approve or Reject in the banner; closing the panel rejects as well.
AnswerCommand(yes) ==
  /\ UserMayAct
  /\ pendingCommand # NoRequest
  /\ toMain' = Append(toMain, IF yes THEN Approved(pendingCommand) ELSE Rejected(pendingCommand))
  /\ consented' = IF yes THEN consented \cup {pendingCommand} ELSE consented
  /\ pendingCommand' = NoRequest
  /\ UNCHANGED <<current, untitled, isLoading, pendingQueue, subscription,
                 toRenderer, at, chatOf, mainVars>>

-------------------------------------------------------------------------------
(* Renderer: messages from main *)

Received(type) == toRenderer # << >> /\ Head(toRenderer).type = type

\* Nobody listens without a subscription.  A command replaces the one shown.
CommandArrives ==
  /\ Received("pending")
  /\ toRenderer' = Tail(toRenderer)
  /\ pendingCommand' = IF subscription = NoJob THEN pendingCommand ELSE Head(toRenderer).request
  /\ UNCHANGED <<current, untitled, isLoading, pendingQueue, subscription, consented,
                 toMain, at, chatOf, mainVars>>

SubscriptionSettles(outcomes) ==
  /\ Received("settled")
  /\ Head(toRenderer).job = subscription
  /\ Head(toRenderer).outcome \in outcomes
  /\ toRenderer' = Tail(toRenderer)

\* setLoading(false), then flushQueue(): the next message, if any, is sent.
FlushQueue(states, mail) ==
  \/ /\ pendingQueue = 0
     /\ isLoading' = FALSE
     /\ subscription' = NoJob
     /\ pendingCommand' = NoRequest
     /\ at' = states
     /\ toMain' = mail
     /\ UNCHANGED <<pendingQueue, chatOf>>
  \/ /\ pendingQueue > 0
     /\ \E r \in Run : Begin(r, NoRequest, states, mail)

\* handleResponse(): the first answer of a new chat has it titled.
RunAnswered ==
  /\ SubscriptionSettles({"answered"})
  /\ IF current \in untitled
     THEN FlushQueue([at EXCEPT ![current] = "posted"], Append(toMain, Send(current, current)))
     ELSE FlushQueue(at, toMain)
  /\ UNCHANGED <<current, untitled, consented, mainVars>>

\* The error handler, and handleResponse() of an empty answer.  A cancelled run
\* ends silently and flushes nothing.
RunFailed ==
  /\ SubscriptionSettles({"failed", "empty", "cancelled"})
  /\ IF Head(toRenderer).outcome # "cancelled"
     THEN FlushQueue(at, toMain)
     ELSE /\ isLoading' = FALSE
          /\ subscription' = NoJob
          /\ pendingCommand' = NoRequest
          /\ UNCHANGED <<pendingQueue, toMain, at, chatOf>>
  /\ UNCHANGED <<current, untitled, consented, mainVars>>

\* A title, or the end of a run the panel has turned away from.
OtherSettles ==
  /\ Received("settled")
  /\ Head(toRenderer).job # subscription
  /\ toRenderer' = Tail(toRenderer)
  /\ untitled' = IF Head(toRenderer).outcome = "answered"
                 THEN untitled \ {Head(toRenderer).job} ELSE untitled
  /\ UNCHANGED <<current, isLoading, pendingQueue, pendingCommand, subscription, consented,
                 toMain, at, chatOf, mainVars>>

-------------------------------------------------------------------------------
(* Main: runs and their controllers *)

Ended(j) == IF j \in Chat THEN "free" ELSE "done"

\* abortAiRun(): the HTTP call of the job fails at once, a run doing anything
\* else finds out later.
Cut(c) ==
  [j \in Job |-> IF j = aiControllers[c] /\ at[j] = "http" THEN Ended(j) ELSE at[j]]

CutNotice(c) ==
  IF \E j \in Job : j = aiControllers[c] /\ at[j] = "http"
  THEN Append(toRenderer, Settled(aiControllers[c], "cancelled")) ELSE toRenderer

AbortRun(c, successor) ==
  /\ aborted' = aborted \cup ({aiControllers[c]} \cap Run)
  /\ aiControllers' = [aiControllers EXCEPT ![c] = successor]

MailFor(type) == toMain # << >> /\ Head(toMain).type = type

\* 'ai.cancel-chat'
CancelReceived ==
  /\ MailFor("cancel")
  /\ toMain' = Tail(toMain)
  /\ AbortRun(Head(toMain).chat, NoJob)
  /\ at' = Cut(Head(toMain).chat)
  /\ toRenderer' = CutNotice(Head(toMain).chat)
  /\ UNCHANGED <<rendererVars, chatOf, loopVars>>

\* 'ai.send-with-tools' or 'ai.send-chat': it replaces the chat's former job.
SendReceived ==
  /\ MailFor("send")
  /\ LET j == Head(toMain).job
         c == Head(toMain).chat
     IN  \/ /\ AbortRun(c, j)
            /\ at' = [Cut(c) EXCEPT ![j] = "http"]
            /\ toRenderer' = CutNotice(c)
         \/ \* over maxLoopTokens from the start
            /\ j \in Run
            /\ AbortRun(c, NoJob)
            /\ at' = [Cut(c) EXCEPT ![j] = "done"]
            /\ toRenderer' = Append(CutNotice(c), Settled(j, "answered"))
  /\ toMain' = Tail(toMain)
  /\ UNCHANGED <<rendererVars, chatOf, loopVars>>

ChatOf(j) == IF j \in Chat THEN j ELSE chatOf[j]

\* Mutant of Forget: the entry is deleted whosever it is.
ForgetAny(j) == aiControllers' = [aiControllers EXCEPT ![ChatOf(j)] = NoJob]

\* The finally block removes the controller only if it is still the job's own.
Forget(j) ==
  aiControllers' = [aiControllers EXCEPT ![ChatOf(j)] = IF @ = j THEN NoJob ELSE @]

Finish(j, outcome) ==
  /\ at' = [at EXCEPT ![j] = Ended(j)]
  /\ Forget(j)
  /\ toRenderer' = Append(toRenderer, Settled(j, outcome))
  /\ UNCHANGED <<rendererVars, toMain, chatOf, aborted, loopVars>>

\* The HTTP call fails, times out, or answers in words.
AnswerArrives(j, outcome) ==
  /\ at[j] = "http"
  /\ outcome # "cancelled"
  /\ Finish(j, outcome)

-------------------------------------------------------------------------------
(* Main: the function-calling loop.  A step from "loop" follows at once in the *)
(* code; an abort before it is an abort before the step that led there.        *)

\* The model asks for n tool calls.
ToolCallsArrive(r, n) ==
  /\ at[r] = "http"
  /\ at' = [at EXCEPT ![r] = "loop"]
  /\ todo' = [todo EXCEPT ![r] = n]
  /\ UNCHANGED <<rendererVars, toMain, toRenderer, chatOf, aiControllers, aborted,
                 depth, request, asker>>

\* Mutant of MayCall: the signal is not looked at between two tools.
MayCallAny(r) == at[r] = "loop" /\ todo[r] > 0

\* "on abort, skip remaining tools"
MayCall(r) == at[r] = "loop" /\ todo[r] > 0 /\ r \notin aborted

\* Arguments that are not JSON: an error for the model, on to the next call.
SkipCall(r) ==
  /\ MayCall(r)
  /\ todo' = [todo EXCEPT ![r] = @ - 1]
  /\ UNCHANGED <<rendererVars, toMain, toRenderer, at, chatOf, aiControllers, aborted,
                 depth, request, asker>>

\* A tool that needs no approval, or not under the present rules.
CallTool(r) ==
  /\ MayCall(r)
  /\ at' = [at EXCEPT ![r] = "exec"]
  /\ UNCHANGED <<rendererVars, toMain, toRenderer, chatOf, mainVars>>

\* ApprovalManager.request for a gated tool.
AskUser(r, q) ==
  /\ MayCall(r)
  /\ request[q] = "none"
  /\ request' = [request EXCEPT ![q] = "pending"]
  /\ asker' = [asker EXCEPT ![q] = r]
  /\ at' = [at EXCEPT ![r] = "approval"]
  /\ toRenderer' = Append(toRenderer, CommandPending(q))
  /\ UNCHANGED <<rendererVars, toMain, chatOf, aiControllers, aborted, depth, todo>>

\* The promise resolves and executeTool goes on: it runs the tool, or returns
\* the rejection to the loop.  The signal of the run is not looked at.
Resolve(q, approved) ==
  LET r == asker[q] IN
  /\ request' = [request EXCEPT ![q] = IF approved THEN "approved" ELSE "rejected"]
  /\ at' = [at EXCEPT ![r] = IF approved THEN "exec" ELSE "loop"]
  /\ todo' = [todo EXCEPT ![r] = IF approved THEN @ ELSE @ - 1]
  /\ UNCHANGED <<rendererVars, toRenderer, chatOf, aiControllers, aborted, depth, asker>>

\* 'ai.command-approved' or 'ai.command-rejected'; a stale one finds nothing.
VerdictReceived ==
  /\ MailFor("approved") \/ MailFor("rejected")
  /\ toMain' = Tail(toMain)
  /\ LET m == Head(toMain) IN
     IF request[m.request] = "pending"
     THEN Resolve(m.request, m.type = "approved")
     ELSE UNCHANGED <<rendererVars, toRenderer, at, chatOf, mainVars>>

\* Mutant of ApprovalTimesOut: no answer counts as consent.
ApprovalTimesOutOpen(q) ==
  /\ request[q] = "pending"
  /\ Resolve(q, TRUE)
  /\ UNCHANGED toMain

\* After 60 s without an answer: rejected.
ApprovalTimesOut(q) ==
  /\ request[q] = "pending"
  /\ Resolve(q, FALSE)
  /\ UNCHANGED toMain

\* The tool ends, with a result or an error.
ToolEnds(r) ==
  /\ at[r] = "exec"
  /\ at' = [at EXCEPT ![r] = "loop"]
  /\ todo' = [todo EXCEPT ![r] = @ - 1]
  /\ UNCHANGED <<rendererVars, toMain, toRenderer, chatOf, aiControllers, aborted,
                 depth, request, asker>>

\* The loop is left with an abort, or when nothing is left to call.
LoopAborted(r) ==
  /\ at[r] = "loop"
  /\ r \in aborted
  /\ Finish(r, "cancelled")

\* Mutant of NextRound: no limit to the depth.
NextRoundUnlimited(r) ==
  /\ at[r] = "loop" /\ todo[r] = 0 /\ r \notin aborted
  /\ at' = [at EXCEPT ![r] = "http"]
  /\ UNCHANGED <<rendererVars, toMain, toRenderer, chatOf, mainVars>>

\* Mutant of NextRound: one round too many.
NextRoundOffByOne(r) ==
  /\ at[r] = "loop" /\ todo[r] = 0 /\ r \notin aborted
  /\ depth[r] <= MaxDepth
  /\ depth' = [depth EXCEPT ![r] = @ + 1]
  /\ at' = [at EXCEPT ![r] = "http"]
  /\ UNCHANGED <<rendererVars, toMain, toRenderer, chatOf, aiControllers, aborted,
                 todo, request, asker>>

\* functionCallLoop again, one deeper: up to the depth limit and the budget.
NextRound(r) ==
  /\ at[r] = "loop" /\ todo[r] = 0 /\ r \notin aborted
  /\ \/ /\ depth[r] < MaxDepth
        /\ depth' = [depth EXCEPT ![r] = @ + 1]
        /\ at' = [at EXCEPT ![r] = "http"]
        /\ UNCHANGED <<rendererVars, toMain, toRenderer, chatOf, aiControllers, aborted,
                       todo, request, asker>>
     \/ Finish(r, "answered")

-------------------------------------------------------------------------------

UserSteps ==
  \/ \E r \in Run : SendMessage(r)
  \/ QueueMessage
  \/ ClearQueue
  \/ Stop
  \/ \E c \in Chat : ChangeChat(c)
  \/ \E yes \in BOOLEAN : AnswerCommand(yes)

FromMain == CommandArrives \/ RunAnswered \/ RunFailed \/ OtherSettles

FromRenderer == CancelReceived \/ SendReceived \/ VerdictReceived

HttpSettles(j) ==
  \/ \E outcome \in Outcome : AnswerArrives(j, outcome)
  \/ /\ j \in Run
     /\ \E n \in 1..MaxCalls : ToolCallsArrive(j, n)

LoopGoesOn(r) ==
  \/ SkipCall(r)
  \/ CallTool(r)
  \/ \E q \in Request : AskUser(r, q)
  \/ LoopAborted(r)
  \/ NextRound(r)

Next ==
  \/ UserSteps
  \/ FromMain
  \/ FromRenderer
  \/ \E r \in Run : AttachmentsRead(r) \/ LoopGoesOn(r) \/ ToolEnds(r)
  \/ \E j \in Job : HttpSettles(j)
  \/ \E q \in Request : ApprovalTimesOut(q)

Spec == Init /\ [][Next]_vars

\* Messages arrive, files are read, the loop goes on, and an approval times out
\* after a minute.  Nothing is assumed of an HTTP call, which stays pending when
\* its response is cut off after the headers (aiClient.js:31-47), nor of a tool,
\* whose connection may be closed before it is ready.  The user need not do
\* anything.
Fairness ==
  /\ WF_vars(FromMain)
  /\ WF_vars(FromRenderer)
  /\ \A r \in Run : WF_vars(AttachmentsRead(r)) /\ WF_vars(LoopGoesOn(r))
  /\ \A q \in Request : WF_vars(ApprovalTimesOut(q))

FairSpec == Spec /\ Fairness

-------------------------------------------------------------------------------
(* Properties *)

\* Stop works by looking the chat's controller up: a job that is not aborted is
\* the one its chat has on record.  A former run that ends late, or a title that
\* is cancelled, must not take its successor's entry away; so no chat has two
\* jobs at work that nobody aborted.
ControllerCoversJob ==
  \A j \in Job : at[j] \in Busy /\ j \notin aborted => aiControllers[ChatOf(j)] = j

\* The messages to main that end run r: those for its chat, after its own.
Withdrawn(r) ==
  \E i \in DOMAIN toMain :
    /\ toMain[i].type \in {"cancel", "send"}
    /\ toMain[i].chat = chatOf[r]
    /\ at[r] = "posted" => \E k \in 1..(i - 1) : toMain[k] = Send(r, chatOf[r])

\* No run spends money or touches machines behind the user's back: each is the
\* one the panel follows, or is aborted, or a message that aborts it is on its
\* way; and the run the panel follows is never one that was aborted, by the
\* title of a chat or the teardown before a message.  "Stop is the only thing
\* that aborts a run" (ai-chat.component.ts:339) needs that stop() reaches it.
RunsFollowed ==
  /\ \A r \in Run :
       at[r] \in Busy \cup {"posted"} /\ r \notin aborted => subscription = r \/ Withdrawn(r)
  /\ subscription \notin aborted

\* A run that goes on never waits for an approval nobody can give: the request
\* is on its way to the panel, or in the banner, or its verdict is on its way,
\* or the run is being withdrawn.  "deny it rather than leave the agent loop
\* hanging" (ai-chat.component.ts:342).
ApprovalReachable ==
  \A q \in Request :
    request[q] = "pending" /\ asker[q] \notin aborted =>
      \/ pendingCommand = q
      \/ \E i \in DOMAIN toRenderer : toRenderer[i] = CommandPending(q)
      \/ \E i \in DOMAIN toMain : toMain[i] \in {Approved(q), Rejected(q)}
      \/ Withdrawn(asker[q])

\* After an abort a run starts nothing: no HTTP call, no request, and no tool
\* except one the user approved himself while it waited.
AbortedRunWindsDown ==
  [][\A r \in aborted :
       at'[r] # at[r] =>
         \/ at'[r] \in {"loop", "done"}
         \/ at'[r] = "exec" /\ \E q \in consented : request[q] = "pending" /\ asker[q] = r]_vars

\* Gated tools run by the user's decision about that very call: see ApprovalGate.
\* A request is a channel from outside, held until the user decides.
Asked == {q \in Request : request[q] # "none"}
Held ==
  [q \in Request |->
     CASE request[q] = "pending" -> "held"
       [] request[q] = "approved" -> "accepted"
       [] OTHER -> request[q]]
ByUser == consented \X {"once"}

Consent == INSTANCE ApprovalGate WITH
  Source    <- Run,
  Anonymous <- Run,
  NoSource  <- NoJob,
  channel   <- Held,
  source    <- asker,
  exposed   <- Asked,
  decided   <- ByUser,
  trusted   <- {}

ToolConsent == Consent!GateSpec

\* Every run comes to an end and the panel that waits for it learns of it,
\* whatever model, tools and user do, unless one HTTP call or one tool of the
\* run never returns: the loop, its approvals and the messages add no wait of
\* their own, and no chain of answers goes on for ever.
RunSettles ==
  \A r \in Run :
    (at[r] \notin {"free", "done"} \/ subscription = r)
      ~> (\/ at[r] = "done" /\ subscription # r
          \/ [](at[r] = "http")
          \/ [](at[r] = "exec"))

\* "messages typed while a run is in flight - auto-sent when it settles"
\* (ai-chat.component.ts:114): except by the user's own command, the queue
\* loses no more than the message it sends.
QueuedMessagesAreSent ==
  [][pendingQueue' < pendingQueue =>
       pendingQueue' = pendingQueue - 1 \/ ClearQueue \/ Stop \/ \E c \in Chat : ChangeChat(c)]_vars

===============================================================================
