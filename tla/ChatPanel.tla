---------------------------- MODULE ChatPanel ----------------------------
(*****************************************************************************)
(* The chats of the AI panel: what the panel shows (ai-chat.component.ts),   *)
(* the history it saves to localStorage (ai-chat-history.service.ts), and    *)
(* the answers that stream in from main (aiChat.js, aiClient.js) or from an  *)
(* ACP agent while the user switches, deletes, clears and stops.  The agent  *)
(* mode, its tools and the cancellation map are in AiAgent.                  *)
(*                                                                           *)
(* Messages are objects that the panel and the history share: a chunk that   *)
(* is appended changes both, localStorage only has what the last save wrote. *)
(* What is typed is left out, tokens are (that counting them touches the     *)
(* chat and saves is not), and the settings are there.                       *)
(*****************************************************************************)
EXTENDS Naturals, Sequences, FiniteSets, SequencesExt, FiniteSetsExt

CONSTANTS
  Chat, Run,      \* numbers, taken in order: ids of chats, messages that are sent
  MaxSessions,    \* MAX_SESSIONS, 10 in the code
  MaxText,        \* the chunks of an answer
  MaxOps,         \* what the user does besides sending
  None

VARIABLES
  history,    \* sessions, with their order of update, and currentSessionId
  disk,       \* localStorage
  messages,   \* what the panel shows
  text,       \* run -> the chunks its message has
  isLoading,
  queue,      \* pendingQueue: how many messages wait
  live,       \* the runs that were sent in the current _requestGeneration
  listener,   \* the run whose closure gets ai.web-chunk, or None
  acpListener,
  run,        \* run -> how far it is
  home,       \* run -> the chat its message was pushed in
  sent,       \* run -> the chatSessionId main was given
  titling,    \* the chats a title is being asked for
  made,       \* ghost: the chats there ever were
  gone,       \* ghost: those the user deleted
  astray,     \* ghost: runs that went on after they were torn down: in an await,
              \* or by an event that was on its way to another listener
  stuck,      \* ghost: a queue was left behind by an empty answer
  hasty,      \* ghost: chats that were renamed while a title was asked for
  ops

vars == <<history, disk, messages, text, isLoading, queue, live, listener,
          acpListener, run, home, sent, titling, made, gone, astray, stuck,
          hasty, ops>>

\* "cut": main was told to stop it; "ended", "answered": the last event is out,
\* the reply of the call is not
Stage == {"free", "attaching", "closing", "stream", "cut", "ended", "acp",
          "answered", "over"}
Message == [who : {"user", "ai", "note"}, run : Run]

User(r) == [who |-> "user", run |-> r]
Answer(r) == [who |-> "ai", run |-> r]
Note(r) == [who |-> "note", run |-> r]

\* The greeting every chat begins with is left out.
Blank == [messages |-> << >>, name |-> "New Chat", pinned |-> FALSE]

\* A history of messages in M
HistoryOf(M) ==
  [chats : [Chat -> [messages : Seq(M), name : {"New Chat", "title", "given"},
                     pinned : BOOLEAN]],
   recency : Seq(Chat), current : Chat]

\* The elements of seq that are in S, in their order.
Only(seq, S) ==
  LET only[i \in 0..Len(seq)] ==
        IF i = 0 THEN << >>
        ELSE IF seq[i] \in S THEN Append(only[i - 1], seq[i]) ELSE only[i - 1]
  IN only[Len(seq)]

PanelState ==
  [history : HistoryOf(Message),
   disk : HistoryOf([msg : Message, text : 0..MaxText]),
   messages : Seq(Message), text : [Run -> 0..MaxText],
   isLoading : BOOLEAN, queue : 0..Cardinality(Run), live : SUBSET Run,
   listener : Run \cup {None}, acpListener : Run \cup {None},
   run : [Run -> Stage], home : [Run -> Chat \cup {None}],
   sent : [Run -> Chat \cup {None}], titling : SUBSET Chat, astray : SUBSET Run]

-----------------------------------------------------------------------------
(* The history *)

Listed(h) == ToSet(h.recency)

\* updatedAt = Date.now()
Touch(h, c) == [h EXCEPT !.recency = <<c>> \o Only(@, Chat \ {c})]

Keeping(h, kept) ==
  [h EXCEPT !.recency = Only(@, kept),
            !.chats = [c \in Chat |-> IF c \in kept THEN @[c] ELSE Blank]]

Pinned(h) == Only(h.recency, {c \in Chat : h.chats[c].pinned})
Rest(h) == Only(h.recency, {c \in Chat : ~h.chats[c].pinned})

\* trim()
Trim(h) ==
  IF Len(h.recency) <= MaxSessions THEN h
  ELSE LET keepRest == Max({0, MaxSessions - Len(Pinned(h))}) IN
       Keeping(h, ToSet(Pinned(h))
                    \cup ToSet(SubSeq(Rest(h), 1, Min({keepRest, Len(Rest(h))}))))

\* createNew(): what is trimmed may be the new chat itself.
CreateNew(h, c) ==
  Trim([Touch(h, c) EXCEPT !.chats[c] = Blank, !.current = c])

\* saveCurrentMessages()
SaveCurrent(h, shown) ==
  IF h.current \in Listed(h)
  THEN [Touch(h, h.current) EXCEPT !.chats[h.current].messages = shown]
  ELSE h

\* renameSession()
Rename(h, c, name) ==
  IF c \in Listed(h) THEN [Touch(h, c) EXCEPT !.chats[c].name = name] ELSE h

\* remove(): the chat that is shown next is the first of the list.
Removed(h, c, fresh) ==
  LET left == Keeping(h, Listed(h) \ {c})
      list == Pinned(left) \o Rest(left)
  IN IF h.current # c THEN left
     ELSE IF list # << >> THEN [left EXCEPT !.current = Head(list)]
     ELSE CreateNew(left, fresh)

TextOf(m, texts) == IF m.who = "ai" THEN texts[m.run] ELSE 0

\* save(): the messages with the text they have by now
Saved(h, texts) ==
  [h EXCEPT !.chats = [c \in Chat |-> LET shown == h.chats[c].messages IN
     [h.chats[c] EXCEPT !.messages =
        [i \in DOMAIN shown |-> [msg |-> shown[i], text |-> TextOf(shown[i], texts)]]]]]

\* load(), from what was saved
Loaded(d) ==
  [d EXCEPT !.chats = [c \in Chat |-> LET written == d.chats[c].messages IN
     [d.chats[c] EXCEPT !.messages = [i \in DOMAIN written |-> written[i].msg]]]]

Fresh == Min(Chat \ made)
MayCreate == Chat # made

-----------------------------------------------------------------------------
(* The panel: what a handler does to it, one call after the other *)

Now ==
  [history |-> history, disk |-> disk, messages |-> messages, text |-> text,
   isLoading |-> isLoading, queue |-> queue, live |-> live,
   listener |-> listener, acpListener |-> acpListener, run |-> run,
   home |-> home, sent |-> sent, titling |-> titling, astray |-> astray]

TypeOK ==
  /\ Now \in PanelState
  /\ ToSet(history.recency) \subseteq made /\ made \subseteq Chat
  /\ stuck \in BOOLEAN /\ gone \cup hasty \subseteq Chat /\ ops \in 0..MaxOps

Becomes(s) ==
  /\ history' = s.history /\ disk' = s.disk /\ messages' = s.messages
  /\ text' = s.text /\ isLoading' = s.isLoading /\ queue' = s.queue
  /\ live' = s.live /\ listener' = s.listener /\ acpListener' = s.acpListener
  /\ run' = s.run /\ home' = s.home /\ sent' = s.sent /\ titling' = s.titling
  /\ astray' = s.astray

Write(s, h) == [s EXCEPT !.history = h, !.disk = Saved(h, s.text)]

\* saveMessages()
SaveMessages(s) ==
  IF s.history.current \in Listed(s.history)
  THEN Write(s, SaveCurrent(s.history, s.messages)) ELSE s

\* abortAiRun(), in main: the stream of chat c is cut, but for that of r.
Abort(s, c, r) ==
  [s EXCEPT !.run = [q \in Run |-> IF @[q] = "stream" /\ s.sent[q] = c /\ q # r
                                   THEN "cut" ELSE @[q]]]

\* clearToolProgress(), and what stop() does like it: a run that waits for its
\* attachments, or for a stale process, goes on.
TearDown(s) ==
  [Abort(s, s.history.current, None) EXCEPT
     !.live = {}, !.queue = 0, !.isLoading = FALSE,
     !.astray = @ \cup {r \in Run : s.run[r] \in {"attaching", "closing"}}]

\* sendWebMessage(): the placeholder, the listener, and the stream in main.
SendWeb(s, r) ==
  [Abort(s, s.history.current, r) EXCEPT
     !.live = @ \cup {r}, !.messages = Append(@, Answer(r)), !.listener = r,
     !.run[r] = "stream", !.sent[r] = s.history.current]

\* sendAcpMessage(), once a stale process is closed
OpenAcp(s, r) ==
  [s EXCEPT !.messages = Append(@, Answer(r)), !.acpListener = r,
            !.run[r] = "acp"]

\* sendMessage(), after the attachments
Launch(s, r, how) ==
  CASE how = "web"   -> SendWeb(s, r)
    [] how = "acp"   -> OpenAcp([s EXCEPT !.live = @ \cup {r}], r)
    [] how = "stale" -> [s EXCEPT !.live = @ \cup {r}, !.run[r] = "closing"]
    [] how = "attach" -> [s EXCEPT !.run[r] = "attaching"]

Asked(s, r) ==
  SaveMessages([s EXCEPT !.messages = Append(@, User(r)),
                         !.home[r] = s.history.current])

\* Mutant of Send: the loading state is set before the reset that clears it.
SendThenReset(s, r, how) ==
  Launch(TearDown([Asked(s, r) EXCEPT !.isLoading = TRUE]), r, how)

\* sendMessage(), of an idle panel
Send(s, r, how) ==
  Launch([TearDown(Asked(s, r)) EXCEPT !.isLoading = TRUE], r, how)

NextRun(s) == Min({r \in Run : s.run[r] = "free"})
FreeRuns(s) == Cardinality({r \in Run : s.run[r] = "free"})
How == {"web", "acp", "stale", "attach"}

\* flushQueue(): what sendMessage() resets is the rest of the queue, too.
Flush(s, how) ==
  IF s.isLoading \/ s.queue = 0 THEN s ELSE Send(s, NextRun(s), how)

\* autoRenameSession(): asks for the title of a chat that has an answer.
AskTitle(s) ==
  LET c == s.history.current IN
  IF c \in Listed(s.history) /\ s.history.chats[c].name = "New Chat"
     /\ \E m \in ToSet(s.history.chats[c].messages) : m.who = "user"
  THEN [s EXCEPT !.titling = @ \cup {c}] ELSE s

\* handleResponse()
HandleResponse(s, r, how) ==
  LET idle == [s EXCEPT !.isLoading = FALSE]
      ends == IF idle.messages # << >> THEN Last(idle.messages).who # "user"
              ELSE idle.history.current \in Listed(idle.history)  \* the greeting
      shown == IF ends THEN idle
               ELSE [idle EXCEPT !.messages = Append(@, Answer(r))]
  IN IF idle.text[r] = 0 THEN Flush(idle, how)
     ELSE Flush(AskTitle(SaveMessages(shown)), how)

Without(seq, m) == Only(seq, Message \ {m})

-----------------------------------------------------------------------------
\* The history is as an earlier run of the program left it: two chats that have
\* no messages yet, the older one pinned.
Init ==
  /\ history = [chats |-> [c \in Chat |-> [Blank EXCEPT !.pinned = c = 1]],
                recency |-> <<2, 1>>, current |-> 2]
  /\ text = [r \in Run |-> 0]
  /\ disk = Saved(history, text)
  /\ messages = << >> /\ isLoading = FALSE /\ queue = 0
  /\ live = {} /\ listener = None /\ acpListener = None
  /\ run = [r \in Run |-> "free"]
  /\ home = [r \in Run |-> None] /\ sent = [r \in Run |-> None]
  /\ titling = {} /\ made = {1, 2} /\ gone = {} /\ astray = {}
  /\ stuck = FALSE /\ hasty = {} /\ ops = 0

Click == ops < MaxOps /\ ops' = ops + 1
NoClick == UNCHANGED ops

\* sendMessage(): behind a run, the message is queued.
SendMessage(how) ==
  /\ NoClick /\ UNCHANGED <<made, gone, stuck, hasty>>
  /\ FreeRuns(Now) > queue
  /\ Becomes(IF isLoading THEN [Now EXCEPT !.queue = @ + 1]
             ELSE Send(Now, NextRun(Now), how))

\* resolveAttachments() is done; its failures only leave files out.
AttachmentsRead(r, how) ==
  /\ run[r] = "attaching" /\ how # "attach"
  /\ Becomes(Launch(Now, r, how))
  /\ UNCHANGED <<made, gone, stuck, hasty, ops>>

StaleClosed(r) ==
  /\ run[r] = "closing"
  /\ Becomes(OpenAcp(Now, r))
  /\ UNCHANGED <<made, gone, stuck, hasty, ops>>

\* retryFrom(), regenerateFrom(): of a message of the user, or the one above.
Retry(i, how) ==
  /\ Click /\ UNCHANGED <<made, gone, stuck, hasty>>
  /\ ~isLoading /\ i \in DOMAIN messages /\ messages[i].who = "user"
  /\ FreeRuns(Now) > 0
  /\ Becomes(Send(SaveMessages([Now EXCEPT !.messages = SubSeq(@, 1, i - 1)]),
                  NextRun(Now), how))

-----------------------------------------------------------------------------
(* What arrives: ai.web-chunk carries no id, whatever is registered gets it *)

\* The request of r is open in main, which sends what it gets to the window.
Emits(r) == run[r] \in {"stream", "cut"}

\* Whatever the server sent, the done event brings all of the answer.
Whole(r, n) == listener = r => n >= text[r]

\* What the signal rejects with; timeouts and errors are all alike.
Cancelled(r) == run[r] = "cut"

Mixed(r, l) == [Now EXCEPT !.astray = IF l = r THEN @ ELSE @ \cup {r}]

WebChunk(r) ==
  /\ Emits(r) /\ listener \in live
  /\ text[listener] < MaxText
  /\ Becomes([Mixed(r, listener) EXCEPT !.text[listener] = @ + 1])
  /\ UNCHANGED <<made, gone, stuck, hasty, ops>>

\* addSessionTokens()
AddTokens(s) == Write(s, Touch(s.history, s.history.current))

\* addUsage()
WebUsage(r) ==
  /\ run[r] = "stream" /\ listener \in live
  /\ history.current \in Listed(history)
  /\ Becomes(AddTokens(Now))
  /\ UNCHANGED <<made, gone, stuck, hasty, ops>>

\* The done event brings the whole answer, n chunks; an empty one returns before
\* the queue is looked at.
WebDone(r, n, how) ==
  /\ Emits(r)
  /\ LET ended == [Now EXCEPT !.run[r] = "ended"]
         told == [Mixed(r, listener) EXCEPT !.run[r] = "ended",
                    !.text[listener] = n, !.listener = None]
     IN IF listener \notin live THEN Becomes(ended) /\ n = 0 /\ UNCHANGED stuck
        ELSE /\ Whole(r, n)
             /\ stuck' = (stuck \/ (n = 0 /\ queue > 0))
             /\ Becomes(IF n > 0 THEN HandleResponse(told, listener, how)
                        ELSE [told EXCEPT !.isLoading = FALSE,
                                !.messages = Without(@, Answer(listener))])
  /\ UNCHANGED <<made, gone, hasty, ops>>

\* The promise of the stream resolves: a backstop.
StreamResolves(r, how) ==
  /\ run[r] = "ended"
  /\ LET over == [Now EXCEPT !.run[r] = "over"] IN
     Becomes(IF r \in live /\ isLoading
             THEN HandleResponse([over EXCEPT !.listener = None], r, how) ELSE over)
  /\ UNCHANGED <<made, gone, stuck, hasty, ops>>

\* It rejects: cancelled, with a part of the answer, or without any.
StreamRejects(r, how) ==
  /\ Emits(r)
  /\ LET over == [Now EXCEPT !.run[r] = "over"]
         told == [over EXCEPT !.listener = None]
         idle == [told EXCEPT !.isLoading = FALSE]
     IN Becomes(IF r \notin live THEN over
                ELSE IF Cancelled(r) THEN SaveMessages(idle)
                ELSE IF text[r] > 0 THEN HandleResponse(told, r, how)
                ELSE Flush([idle EXCEPT !.messages =
                              Append(Without(@, Answer(r)), Note(r))], how))
  /\ UNCHANGED <<made, gone, stuck, hasty, ops>>

AcpChunk(r) ==
  /\ run[r] = "acp" /\ acpListener \in live /\ text[acpListener] < MaxText
  /\ Becomes([Mixed(r, acpListener) EXCEPT !.text[acpListener] = @ + 1])
  /\ UNCHANGED <<made, gone, stuck, hasty, ops>>

\* The done event of ACP ends the loading state; the reply is still to come.
AcpDone(r) ==
  /\ run[r] = "acp"
  /\ LET answered == [Now EXCEPT !.run[r] = "answered"] IN
     Becomes(IF acpListener \in live
             THEN [Mixed(r, acpListener) EXCEPT !.run[r] = "answered",
                     !.isLoading = FALSE]
             ELSE answered)
  /\ UNCHANGED <<made, gone, stuck, hasty, ops>>

\* The reply, with n chunks if none was streamed
AcpReply(r, n, how) ==
  /\ run[r] \in {"acp", "answered"} /\ (text[r] > 0 => n = text[r])
  /\ LET over == [Now EXCEPT !.run[r] = "over"] IN
     Becomes(IF r \in live
             THEN HandleResponse([over EXCEPT !.acpListener = None,
                    !.isLoading = FALSE, !.text[r] = n], r, how)
             ELSE over)
  /\ UNCHANGED <<made, gone, stuck, hasty, ops>>

\* The error takes the place of what was streamed.
AcpFails(r, how) ==
  /\ run[r] \in {"acp", "answered"}
  /\ LET over == [Now EXCEPT !.run[r] = "over"] IN
     Becomes(IF r \in live
             THEN Flush([over EXCEPT !.acpListener = None, !.isLoading = FALSE,
                           !.text[r] = 0], how)
             ELSE over)
  /\ UNCHANGED <<made, gone, stuck, hasty, ops>>

\* The title comes, or does not: the request failed, or was cut by the next run.
TitleSettles(c, comes) ==
  /\ c \in titling
  /\ LET told == [Now EXCEPT !.titling = @ \ {c}] IN
     Becomes(IF comes /\ c \in Listed(history)
             THEN Write(told, Rename(history, c, "title")) ELSE told)
  /\ UNCHANGED <<made, gone, stuck, hasty, ops>>

-----------------------------------------------------------------------------
(* What the user does *)

\* What loadSession*() and the dropdown do is left out.
Show(s) ==
  [s EXCEPT !.messages = IF s.history.current \in Listed(s.history)
                         THEN s.history.chats[s.history.current].messages ELSE << >>]

\* newChat()
NewChat ==
  /\ Click /\ MayCreate /\ made' = made \cup {Fresh}
  /\ LET left == SaveMessages(TearDown(Now)) IN
     Becomes(Show(Write(left, CreateNew(left.history, Fresh))))
  /\ UNCHANGED <<gone, stuck, hasty>>

\* switchSession()
SwitchSession(c) ==
  /\ Click /\ c \in Listed(history)
  /\ LET left == SaveMessages(TearDown(Now)) IN
     Becomes(Show(Write(left, [left.history EXCEPT !.current = c])))
  /\ UNCHANGED <<made, gone, stuck, hasty>>

\* deleteSession(): of another chat, the run goes on, and the panel is loaded.
DeleteSession(c) ==
  /\ Click /\ c \in Listed(history)
  /\ Listed(history) = {c} => MayCreate
  /\ LET left == IF c = history.current THEN TearDown(Now) ELSE Now IN
     Becomes(Show(Write(left, Removed(left.history, c,
                                     IF MayCreate THEN Fresh ELSE c))))
  /\ made' = IF Listed(history) = {c} THEN made \cup {Fresh} ELSE made
  /\ gone' = gone \cup {c}
  /\ UNCHANGED <<stuck, hasty>>

\* confirmRename()
ConfirmRename(c) ==
  /\ Click /\ c \in Listed(history)
  /\ Becomes(Write(Now, Rename(history, c, "given")))
  /\ hasty' = IF c \in titling THEN hasty \cup {c} ELSE hasty
  /\ UNCHANGED <<made, gone, stuck>>

TogglePin(c) ==
  /\ Click /\ c \in Listed(history)
  /\ Becomes(Write(Now, [history EXCEPT !.chats[c].pinned = ~@]))
  /\ UNCHANGED <<made, gone, stuck, hasty>>

ClearChat ==
  /\ Click
  /\ Becomes(SaveMessages([TearDown(Now) EXCEPT !.messages = << >>]))
  /\ UNCHANGED <<made, gone, stuck, hasty>>

Stop ==
  /\ Click /\ isLoading
  /\ Becomes(SaveMessages([TearDown(Now) EXCEPT !.acpListener = None]))
  /\ UNCHANGED <<made, gone, stuck, hasty>>

ClearQueue ==
  /\ Click /\ queue > 0
  /\ queue' = 0
  /\ UNCHANGED <<history, disk, messages, text, isLoading, live, listener,
                 acpListener, run, home, sent, titling, made, gone, astray,
                 stuck, hasty>>

\* The text that is saved of the answer of r, wherever that is
TextRead(d, r) ==
  LET read == {x \in UNION {ToSet(d.chats[c].messages) : c \in Chat} : x.msg = Answer(r)}
  IN IF read = {} THEN 0 ELSE (CHOOSE x \in read : TRUE).text

\* The window is reloaded: the constructor of the service, ngOnInit().
Reload ==
  /\ Click /\ (disk.current \notin Listed(disk) => MayCreate)
  /\ LET loaded == [Now EXCEPT
           !.history = Loaded(disk), !.isLoading = FALSE, !.queue = 0,
           !.live = {}, !.listener = None, !.acpListener = None, !.titling = {},
           !.text = [r \in Run |-> TextRead(disk, r)],
           !.run = [r \in Run |-> IF @[r] = "free" THEN "free" ELSE "over"]]
     IN Becomes(Show(IF disk.current \in Listed(disk) THEN loaded
                     ELSE Write(loaded, CreateNew(loaded.history, Fresh))))
  /\ made' = IF disk.current \in Listed(disk) THEN made ELSE made \cup {Fresh}
  /\ UNCHANGED <<gone, stuck, hasty>>

\* What a handler may send is the next message of the queue, if there is one:
\* else it is the same for every how.
FlushHow == IF queue = 0 THEN {"web"} ELSE How

Next ==
  \/ \E how \in How : SendMessage(how) \/ \E i \in 1..(2 * Cardinality(Run)) : Retry(i, how)
  \/ \E r \in Run :
       \/ StaleClosed(r) \/ WebChunk(r) \/ WebUsage(r) \/ AcpChunk(r) \/ AcpDone(r)
       \/ \E how \in How : AttachmentsRead(r, how)
       \/ \E how \in FlushHow :
            \/ StreamResolves(r, how) \/ StreamRejects(r, how) \/ AcpFails(r, how)
            \/ \E n \in 0..MaxText : WebDone(r, n, how) \/ AcpReply(r, n, how)
  \/ \E c \in Chat :
       \/ SwitchSession(c) \/ DeleteSession(c) \/ ConfirmRename(c) \/ TogglePin(c)
       \/ \E comes \in BOOLEAN : TitleSettles(c, comes)
  \/ NewChat \/ ClearChat \/ Stop \/ ClearQueue \/ Reload

Spec == Init /\ [][Next]_vars

-----------------------------------------------------------------------------
Asking == {"closing", "stream", "acp"}

\* A question and its answer are only ever in the chat the question was asked
\* in, in the panel, in the history and on disk, whatever chat is open when the
\* answer comes; unless the run was torn down while it waited for attachments
\* or a stale agent, which nothing checks (ai-chat.component.ts, sendMessage).
AnswersStayHome ==
  \A r \in Run \ astray :
    /\ \A c \in Chat : \A m \in ToSet(history.chats[c].messages) :
         m.run = r => c = home[r]
    /\ \A m \in ToSet(messages) : m.run = r => history.current = home[r]

\* What an idle panel shows of a chat that is kept is what a restart would load.
IdleIsOnDisk ==
  /\ ~isLoading /\ astray = {} /\ history.current \in Listed(history)
  /\ \A r \in live : run[r] \notin Asking \cup {"answered"}
  => \A m \in ToSet(messages) :
       m.who = "user" \/ (m.who = "ai" /\ text[m.run] > 0)
       => [msg |-> m, text |-> TextOf(m, text)]
            \in ToSet(disk.chats[disk.current].messages)

\* While an answer is being waited for the panel says so, and offers Stop.
StopIsOffered ==
  astray = {} => \A r \in Run :
    \/ run[r] = "attaching"
    \/ r \in live /\ run[r] \in Asking
    => isLoading

\* A queued message waits for a run; that of an empty answer forgets it, and so
\* does one that is cut by a run that went on after it was torn down.
QueueIsServed ==
  (queue > 0 /\ ~stuck /\ astray = {}) =>
    isLoading \/ \E r \in live : run[r] = "answered"

\* A chat is only lost to its deletion, or to a newer one when there are too
\* many, never a pinned one or one that is newer than another that is kept; and
\* the name the user gave is kept, unless a title was already being asked for.
KeptByStep ==
  \A c \in Listed(disk) :
    /\ c \notin Listed(disk') =>
         \/ c \in gone'
         \/ /\ ~history.chats[c].pinned
            /\ \A d \in Listed(disk') \cap ToSet(Rest(history)) :
                 d = history.current
                   \/ \E i \in DOMAIN history.recency : \E j \in 1..(i - 1) :
                        history.recency[i] = c /\ history.recency[j] = d
    /\ (disk.chats[c].name = "given" /\ c \in Listed(disk')) =>
         (disk'.chats[c].name = "given" \/ c \in hasty)

\* Why, of a panel s where the runs in used have been taken: what is anywhere
\* belongs there, and so does what is to come;
Belongs(s, used, m, c) == m.run \in used /\ (m.run \in s.astray \/ s.home[m.run] = c)

AtHome(s, used) ==
  /\ \A c \in Chat : \A m \in ToSet(s.history.chats[c].messages) : Belongs(s, used, m, c)
  /\ \A m \in ToSet(s.messages) : Belongs(s, used, m, s.history.current)
  /\ \A r \in Run : r \in s.live \/ s.run[r] \in {"attaching", "closing"} =>
       r \in used /\ (r \in s.astray \/ s.home[r] = s.history.current)

\* the disk has the history, with the texts of some time;
Mirrored(s) == \E texts \in [Run -> 0..MaxText] : s.disk = Saved(s.history, texts)

\* while no run has gone astray there is one at a time, and it is waited for;
Alone(s) ==
  /\ \A r, q \in s.live : r = q
  /\ \A r \in s.live : s.run[r] # "cut" /\ (s.run[r] \in Asking => s.isLoading)
  /\ \A r \in s.live : s.run[r] = "stream" => s.listener = r
  /\ \A r \in Run : s.run[r] = "closing" => r \in s.live
  /\ \A r \in Run : s.run[r] = "attaching" =>
       /\ s.isLoading /\ s.live = {}
       /\ \A q \in Run : s.run[q] = "attaching" => q = r

\* and what the panel shows is saved, or is an answer that is empty or not over.
OnDisk(s, m) ==
  [msg |-> m, text |-> TextOf(m, s.text)] \in ToSet(s.disk.chats[s.disk.current].messages)

Waited(s, m) ==
  \/ m.who = "note"
  \/ /\ m.who = "ai"
     /\ \/ s.text[m.run] = 0
        \/ m.run \in s.live /\ s.run[m.run] \in {"stream", "acp", "answered"}

PanelSaved(s) ==
  s.history.current \in Listed(s.history) =>
    \A m \in ToSet(s.messages) : OnDisk(s, m) \/ Waited(s, m)

Used(s) == {r \in Run : s.run[r] # "free"}

Sound(s) ==
  /\ s \in PanelState /\ AtHome(s, Used(s)) /\ Mirrored(s)
  /\ s.queue > 0 => Used(s) # Run
  /\ s.astray = {} => Alone(s) /\ PanelSaved(s)

IInv == TypeOK /\ Sound(Now) /\ QueueIsServed
=============================================================================
