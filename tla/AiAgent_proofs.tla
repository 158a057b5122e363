---------------------------- MODULE AiAgent_proofs ----------------------------
(* Theorems of AiAgent for any number of chats, runs and requests. *)
EXTENDS AiAgent, SequenceTheorems, TLAPS

-------------------------------------------------------------------------------
(* The inductive invariant *)

\* The title of a chat only ever waits for the model.
TitlesWait == \A c \in Chat : at[c] \in {"free", "posted", "http"}

\* A message that starts a job names its chat, and its run has not begun; an
\* approval is one the user gave.
Honest(m, states, chats, given) ==
  /\ m.type = "send" =>
       /\ m.chat = IF m.job \in Chat THEN m.job ELSE chats[m.job]
       /\ m.job \in Run => states[m.job] = "posted"
  /\ m.type = "approved" => m.request \in given

\* No run is started twice.
SentOnce(mail) ==
  \A i, k \in DOMAIN mail :
    /\ mail[i].type = "send" /\ mail[i].job \in Run
    /\ mail[k].type = "send" /\ mail[k].job = mail[i].job
    => i = k

MailOK(mail, states, chats, given) ==
  /\ \A i \in DOMAIN mail : Honest(mail[i], states, chats, given)
  /\ SentOnce(mail)

\* A pending request is what its run waits for, and it waits for one only.
RequestsHold ==
  \A q \in Request :
    /\ request[q] # "none" => asker[q] \in Run
    /\ request[q] = "approved" => q \in consented
    /\ request[q] = "pending" =>
         /\ at[asker[q]] = "approval"
         /\ \A p \in Request : request[p] = "pending" /\ asker[p] = asker[q] => p = q

\* Whoever waits for a tool has a call to do.
CallsLeft == \A r \in Run : at[r] \in {"approval", "exec"} => todo[r] > 0

\* What a run does in main it does for a chat.
RunsHaveChats == \A r \in Run : at[r] \in Busy \cup {"posted"} => chatOf[r] \in Chat

\* A run that has a controller is at work for the chat it is filed under, and one
\* that was aborted had begun.
ControllersWork ==
  /\ \A c \in Chat : aiControllers[c] \in Run =>
       at[aiControllers[c]] \in Busy /\ chatOf[aiControllers[c]] = c
  /\ \A r \in aborted : at[r] \in Busy \cup {"done"}

IInv ==
  /\ TypeOK
  /\ TitlesWait
  /\ MailOK(toMain, at, chatOf, consented)
  /\ RequestsHold
  /\ CallsLeft
  /\ RunsHaveChats
  /\ ControllersWork
  /\ ControllerCoversJob

-------------------------------------------------------------------------------
(* Messages *)

\* The messages to main are of four kinds.
LEMMA MainMessages ==
  ASSUME NEW m \in MainMessage
  PROVE  /\ m.type \in {"cancel", "send", "approved", "rejected"}
         /\ m.type = "cancel" => m.chat \in Chat
         /\ m.type = "send" => m.job \in Job /\ m.chat \in Chat
         /\ m.type \in {"approved", "rejected"} => m.request \in Request
<1>1. CASE \E c \in Chat : m = Cancel(c)
  BY <1>1 DEF Cancel
<1>2. CASE \E j \in Job, c \in Chat : m = Send(j, c)
  BY <1>2 DEF Send
<1>3. CASE \E q \in Request : m = Approved(q) \/ m = Rejected(q)
  BY <1>3 DEF Approved, Rejected
<1> QED BY <1>1, <1>2, <1>3 DEF MainMessage

\* The messages to the panel are of two kinds.
LEMMA RendererMessages ==
  ASSUME NEW m \in RendererMessage
  PROVE  /\ m.type \in {"pending", "settled"}
         /\ m.type = "pending" => m.request \in Request
         /\ m.type = "settled" => m.job \in Job /\ m.outcome \in Outcome
<1>1. CASE \E q \in Request : m = CommandPending(q)
  BY <1>1 DEF CommandPending
<1>2. CASE \E j \in Job, o \in Outcome : m = Settled(j, o)
  BY <1>2 DEF Settled
<1> QED BY <1>1, <1>2 DEF RendererMessage

\* The first message of a queue is one of its messages.
LEMMA HeadTail ==
  ASSUME NEW M, NEW s \in Seq(M), s # << >>
  PROVE  /\ Head(s) \in M
         /\ Tail(s) \in Seq(M)
         /\ 1 \in DOMAIN s /\ s[1] = Head(s)
         /\ \A i \in DOMAIN Tail(s) : i + 1 \in DOMAIN s /\ Tail(s)[i] = s[i + 1] /\ i \in Nat \ {0}
  OBVIOUS

LEMMA AppendIs ==
  ASSUME NEW M, NEW s \in Seq(M), NEW m \in M
  PROVE  /\ Append(s, m) \in Seq(M)
         /\ \A i \in DOMAIN Append(s, m) :
              \/ i \in DOMAIN s /\ Append(s, m)[i] = s[i]
              \/ i = Len(s) + 1 /\ i \notin DOMAIN s /\ Append(s, m)[i] = m
  OBVIOUS

\* Taking the first message away keeps a queue in order.  When it starts a run,
\* that run may go on.
LEMMA MailTail ==
  ASSUME NEW mail \in Seq(MainMessage), NEW states, NEW chats, NEW given,
         mail # << >>,
         MailOK(mail, states, chats, given),
         NEW states2,
         \A r \in Run : \/ states[r] = "posted" => states2[r] = "posted"
                        \/ Head(mail).type = "send" /\ Head(mail).job = r
  PROVE  MailOK(Tail(mail), states2, chats, given)
<1>1. ASSUME NEW i \in DOMAIN Tail(mail)
      PROVE  Honest(Tail(mail)[i], states2, chats, given)
  <2>1. /\ 1 \in DOMAIN mail /\ mail[1] = Head(mail)
        /\ i + 1 \in DOMAIN mail /\ Tail(mail)[i] = mail[i + 1] /\ i \in Nat \ {0}
    BY HeadTail
  <2>2. Honest(mail[i + 1], states, chats, given)
    BY <2>1 DEF MailOK
  <2>3. SentOnce(mail)
    BY DEF MailOK
  <2>4. ASSUME mail[i + 1].type = "send", mail[i + 1].job \in Run
        PROVE  states2[mail[i + 1].job] = "posted"
    <3>1. states[mail[i + 1].job] = "posted"
      BY <2>2, <2>4 DEF Honest
    <3>2. ~(Head(mail).type = "send" /\ Head(mail).job = mail[i + 1].job)
      <4>1. i + 1 # 1 BY <2>1
      <4> QED BY <4>1, <2>1, <2>3, <2>4 DEF SentOnce
    <3> QED BY <3>1, <3>2, <2>4
  <2> QED BY <2>1, <2>2, <2>4 DEF Honest
<1>2. SentOnce(Tail(mail))
  <2> SUFFICES ASSUME NEW i \in DOMAIN Tail(mail), NEW k \in DOMAIN Tail(mail),
                      Tail(mail)[i].type = "send", Tail(mail)[i].job \in Run,
                      Tail(mail)[k].type = "send", Tail(mail)[k].job = Tail(mail)[i].job
               PROVE  i = k
    BY DEF SentOnce
  <2>1. /\ i + 1 \in DOMAIN mail /\ Tail(mail)[i] = mail[i + 1] /\ i \in Nat \ {0}
        /\ k + 1 \in DOMAIN mail /\ Tail(mail)[k] = mail[k + 1] /\ k \in Nat \ {0}
    BY HeadTail
  <2>2. i + 1 = k + 1
    BY <2>1 DEF MailOK, SentOnce
  <2> QED BY <2>1, <2>2
<1> QED BY <1>1, <1>2 DEF MailOK

\* A queue stays in order while no posted run moves and no approval is revoked.
LEMMA MailKept ==
  ASSUME NEW mail \in Seq(MainMessage), NEW states, NEW chats, NEW given,
         MailOK(mail, states, chats, given),
         NEW states2, NEW chats2, NEW given2,
         \A r \in Run : states[r] = "posted" => states2[r] = "posted" /\ chats2[r] = chats[r],
         given \subseteq given2
  PROVE  MailOK(mail, states2, chats2, given2)
<1>1. ASSUME NEW i \in DOMAIN mail
      PROVE  Honest(mail[i], states2, chats2, given2)
  <2>1. Honest(mail[i], states, chats, given)
    BY DEF MailOK
  <2>2. mail[i] \in MainMessage
    OBVIOUS
  <2>3. mail[i].type = "send" => mail[i].job \in Run \cup Chat
    BY <2>2, MainMessages DEF Job
  <2> QED BY <2>1, <2>3 DEF Honest
<1> QED BY <1>1 DEF MailOK

\* The same for a step that leaves the queue alone.
LEMMA MailStays ==
  ASSUME toMain \in Seq(MainMessage), MailOK(toMain, at, chatOf, consented),
         \A r \in Run : at[r] = "posted" => at'[r] = "posted" /\ chatOf'[r] = chatOf[r],
         consented \subseteq consented', toMain' = toMain
  PROVE  MailOK(toMain, at, chatOf, consented)'
  BY MailKept

\* A message that starts no job may be added.
LEMMA MailAdd ==
  ASSUME NEW mail \in Seq(MainMessage), NEW states, NEW chats, NEW given,
         MailOK(mail, states, chats, given),
         NEW m \in MainMessage, m.type # "send", Honest(m, states, chats, given)
  PROVE  MailOK(Append(mail, m), states, chats, given)
<1>1. ASSUME NEW i \in DOMAIN Append(mail, m)
      PROVE  Honest(Append(mail, m)[i], states, chats, given)
  BY AppendIs DEF MailOK
<1>2. SentOnce(Append(mail, m))
  BY AppendIs DEF MailOK, SentOnce
<1> QED BY <1>1, <1>2 DEF MailOK

\* So may one that starts a run that was not posted before.
LEMMA MailPost ==
  ASSUME NEW mail \in Seq(MainMessage),
         NEW states \in [Job -> {"free", "reading", "posted", "done"} \cup Busy],
         NEW chats \in [Run -> Chat \cup {NoChat}], NEW given,
         MailOK(mail, states, chats, given),
         NEW r \in Run, states[r] # "posted", NEW c \in Chat
  PROVE  MailOK(Append(mail, Send(r, c)), [states EXCEPT ![r] = "posted"],
                [chats EXCEPT ![r] = c], given)
<1> DEFINE S == [states EXCEPT ![r] = "posted"]
           C == [chats EXCEPT ![r] = c]
<1>0. r \in Job /\ r \notin Chat /\ Send(r, c) \in MainMessage
  BY AgentAssumption DEF Job, MainMessage
<1>1. MailOK(mail, S, C, given)
  <2>1. \A x \in Run : states[x] = "posted" => S[x] = "posted" /\ C[x] = chats[x]
    BY DEF Job
  <2> HIDE DEF S, C
  <2> QED BY <2>1, MailKept
<1>2. ASSUME NEW i \in DOMAIN mail
      PROVE  ~(mail[i].type = "send" /\ mail[i].job = r)
  BY DEF MailOK, Honest
<1>3. Honest(Send(r, c), S, C, given)
  <2>1. S[r] = "posted" /\ C[r] = c
    BY <1>0
  <2> HIDE DEF S, C
  <2> QED BY <1>0, <2>1 DEF Honest, Send
<1>4. Send(r, c).type = "send" /\ Send(r, c).job = r
  BY DEF Send
<1> HIDE DEF S, C
<1>5. ASSUME NEW i \in DOMAIN Append(mail, Send(r, c))
      PROVE  Honest(Append(mail, Send(r, c))[i], S, C, given)
  BY <1>0, <1>1, <1>3, AppendIs DEF MailOK
<1>6. SentOnce(Append(mail, Send(r, c)))
  BY <1>0, <1>1, <1>2, <1>4, AppendIs DEF MailOK, SentOnce
<1> QED BY <1>5, <1>6 DEF MailOK, S, C

\* A message or two at the end of a queue are appended one by one.
LEMMA ConcatIs ==
  ASSUME NEW M, NEW s \in Seq(M), NEW m \in M, NEW n \in M
  PROVE  /\ s \o (<<m>> \o << >>) = Append(s, m)
         /\ s \o (<<m>> \o <<n>>) = Append(Append(s, m), n)
<1>1. <<m>> \in Seq(M) /\ <<n>> \in Seq(M)
  OBVIOUS
<1>2. <<m>> \o << >> = <<m>>
  BY <1>1, ConcatEmptySeq
<1>3. Append(s, m) = s \o <<m>> /\ Append(s, m) \in Seq(M)
  BY AppendIsConcat
<1>4. Append(Append(s, m), n) = Append(s, m) \o <<n>>
  BY <1>3, AppendIsConcat
<1>5. s \o (<<m>> \o <<n>>) = (s \o <<m>>) \o <<n>>
  BY <1>1, ConcatAssociative
<1> QED BY <1>2, <1>3, <1>4, <1>5

\* The messages of a teardown start nothing.
LEMMA MailFarewell ==
  ASSUME NEW mail \in Seq(MainMessage), NEW states, NEW chats, NEW given,
         MailOK(mail, states, chats, given),
         current \in Chat, NEW shown \in Request \cup {NoRequest}
  PROVE  /\ mail \o Farewell(shown) \in Seq(MainMessage)
         /\ MailOK(mail \o Farewell(shown), states, chats, given)
<1>1. Cancel(current) \in MainMessage
  BY DEF MainMessage
<1>2. Cancel(current).type = "cancel" /\ Honest(Cancel(current), states, chats, given)
  BY DEF Cancel, Honest
<1>3. /\ Append(mail, Cancel(current)) \in Seq(MainMessage)
      /\ MailOK(Append(mail, Cancel(current)), states, chats, given)
  BY <1>1, <1>2, MailAdd, AppendIs
<1>4. CASE shown = NoRequest
  <2>1. mail \o Farewell(shown) = Append(mail, Cancel(current))
    BY <1>1, <1>4, ConcatIs DEF Farewell
  <2> QED BY <2>1, <1>3
<1>5. CASE shown # NoRequest
  <2>1. Rejected(shown) \in MainMessage
    BY <1>5 DEF MainMessage
  <2>2. /\ Rejected(shown).type = "rejected"
        /\ Honest(Rejected(shown), states, chats, given)
    BY DEF Rejected, Honest
  <2>3. mail \o Farewell(shown) = Append(Append(mail, Cancel(current)), Rejected(shown))
    BY <1>1, <2>1, <1>5, ConcatIs DEF Farewell
  <2>4. /\ Append(Append(mail, Cancel(current)), Rejected(shown)) \in Seq(MainMessage)
        /\ MailOK(Append(Append(mail, Cancel(current)), Rejected(shown)), states, chats, given)
    BY <1>3, <2>1, <2>2, MailAdd, AppendIs
  <2> QED BY <2>3, <2>4
<1> QED BY <1>4, <1>5

\* Neither does the message that has a chat titled.
LEMMA MailTitle ==
  ASSUME NEW mail \in Seq(MainMessage),
         NEW states \in [Job -> {"free", "reading", "posted", "done"} \cup Busy],
         NEW chats, NEW given, MailOK(mail, states, chats, given), NEW c \in Chat
  PROVE  /\ Append(mail, Send(c, c)) \in Seq(MainMessage)
         /\ MailOK(Append(mail, Send(c, c)), [states EXCEPT ![c] = "posted"], chats, given)
<1> DEFINE S == [states EXCEPT ![c] = "posted"]
<1>0. c \in Job /\ c \notin Run /\ Send(c, c) \in MainMessage
  BY AgentAssumption DEF Job, MainMessage
<1>1. MailOK(mail, S, chats, given)
  <2>1. \A x \in Run : states[x] = "posted" => S[x] = "posted" /\ chats[x] = chats[x]
    BY DEF Job
  <2> HIDE DEF S
  <2> QED BY <2>1, MailKept
<1> HIDE DEF S
<1>2. Honest(Send(c, c), S, chats, given) /\ Send(c, c).job = c
  BY <1>0 DEF Honest, Send
<1>3. ASSUME NEW i \in DOMAIN Append(mail, Send(c, c))
      PROVE  Honest(Append(mail, Send(c, c))[i], S, chats, given)
  BY <1>0, <1>1, <1>2, AppendIs DEF MailOK
<1>4. SentOnce(Append(mail, Send(c, c)))
  BY <1>0, <1>1, <1>2, AppendIs DEF MailOK, SentOnce
<1> QED BY <1>0, <1>3, <1>4, AppendIs DEF MailOK, S

-------------------------------------------------------------------------------
(* Steps of the panel *)

States == {"free", "reading", "posted", "done"} \cup Busy

\* What sending a message does to the runs and the queue to main.
LEMMA BeginKeeps ==
  ASSUME TypeOK, NEW r \in Run, NEW shown \in Request \cup {NoRequest},
         NEW states \in [Job -> States], NEW mail \in Seq(MainMessage),
         MailOK(mail, states, chatOf, consented),
         Begin(r, shown, states, mail),
         at[r] = states[r]
  PROVE  /\ toMain' \in Seq(MainMessage)
         /\ MailOK(toMain', at', chatOf', consented)
         /\ at' \in [Job -> States] /\ chatOf' \in [Run -> Chat \cup {NoChat}]
         /\ at[r] = "free" /\ at'[r] \in {"reading", "posted"}
         /\ at'[r] = "posted" => chatOf'[r] \in Chat
         /\ \A j \in Job \ {r} : at'[j] = states[j]
         /\ \A x \in Run \ {r} : chatOf'[x] = chatOf[x]
         /\ isLoading' \in BOOLEAN /\ pendingQueue' = 0 /\ pendingCommand' = NoRequest
         /\ subscription' \in Run \cup {NoJob}
<1> DEFINE M == mail \o Farewell(shown)
<1>1. M \in Seq(MainMessage) /\ MailOK(M, states, chatOf, consented)
  BY MailFarewell DEF TypeOK
<1>2. r \in Job /\ states[r] = "free"
  BY DEF Job, Begin
<1>3. CASE Post(r, states, M)
  <2>1. /\ at' = [states EXCEPT ![r] = "posted"]
        /\ chatOf' = [chatOf EXCEPT ![r] = current]
        /\ toMain' = Append(M, Send(r, current))
    BY <1>3 DEF Post
  <2>2. current \in Chat /\ chatOf \in [Run -> Chat \cup {NoChat}]
    BY DEF TypeOK
  <2>3. Send(r, current) \in MainMessage
    BY <1>2, <2>2 DEF MainMessage
  <2> HIDE DEF M
  <2>4. MailOK(toMain', at', chatOf', consented)
    BY <1>1, <1>2, <2>1, <2>2, MailPost DEF States
  <2>5. toMain' \in Seq(MainMessage)
    BY <1>1, <2>1, <2>3
  <2>6. at' \in [Job -> States] /\ chatOf' \in [Run -> Chat \cup {NoChat}]
    BY <2>1, <2>2, <1>2 DEF States
  <2> QED BY <1>2, <1>3, <2>1, <2>2, <2>4, <2>5, <2>6 DEF Post, Begin
<1>4. CASE ~Post(r, states, M)
  <2>1. /\ at' = [states EXCEPT ![r] = "reading"]
        /\ chatOf' = chatOf
        /\ toMain' = M
    BY <1>4 DEF Begin
  <2> HIDE DEF M
  <2>2. \A x \in Run : states[x] = "posted" => at'[x] = "posted" /\ chatOf'[x] = chatOf[x]
    BY <1>2, <2>1 DEF Job
  <2>3. MailOK(toMain', at', chatOf', consented)
    BY <1>1, <2>1, <2>2, MailKept
  <2>4. at' \in [Job -> States] /\ chatOf' \in [Run -> Chat \cup {NoChat}]
    BY <2>1, <1>2 DEF States, TypeOK
  <2>5. isLoading' \in BOOLEAN /\ pendingQueue' = 0 /\ pendingCommand' = NoRequest /\ subscription' = NoJob
    BY <1>4 DEF Begin, M
  <2> QED BY <1>1, <1>2, <2>1, <2>3, <2>4, <2>5
<1> QED BY <1>3, <1>4

\* The panel starts runs and titles, and touches nothing else in main.
LEMMA PanelKeeps ==
  ASSUME IInv, at' \in [Job -> States], chatOf' \in [Run -> Chat \cup {NoChat}],
         UNCHANGED mainVars, consented \subseteq consented',
         \A j \in Job : at'[j] # at[j] => at'[j] \in {"reading", "posted"},
         \A c \in Chat : at'[c] # at[c] => at'[c] = "posted",
         \A r \in Run : at[r] \notin {"free", "reading"} =>
                          at'[r] = at[r] /\ chatOf'[r] = chatOf[r],
         \A r \in Run : at[r] \in {"free", "reading"} /\ at'[r] = "posted" => chatOf'[r] \in Chat
  PROVE  /\ TitlesWait' /\ RequestsHold' /\ CallsLeft' /\ RunsHaveChats'
         /\ ControllersWork' /\ ControllerCoversJob'
<1>1. TitlesWait'
  BY DEF IInv, TitlesWait
<1>2. RequestsHold'
  BY DEF IInv, RequestsHold, mainVars, loopVars, Job
<1>3. CallsLeft'
  BY DEF IInv, CallsLeft, mainVars, loopVars, Job
<1>4. RunsHaveChats'
  BY DEF IInv, RunsHaveChats, Busy, Job
<1>5. ControllerCoversJob'
  <2> SUFFICES ASSUME NEW j \in Job, at'[j] \in Busy, j \notin aborted'
               PROVE  aiControllers'[ChatOf(j)'] = j
    BY DEF ControllerCoversJob
  <2>1. at[j] = at'[j] /\ at[j] \in Busy
    BY DEF Busy
  <2>2. ChatOf(j)' = ChatOf(j)
    BY <2>1 DEF ChatOf, Busy, Job
  <2>3. aiControllers' = aiControllers /\ aborted' = aborted
    BY DEF mainVars
  <2> QED BY <2>1, <2>2, <2>3 DEF IInv, ControllerCoversJob
<1>6. ControllersWork'
  BY DEF IInv, ControllersWork, TypeOK, mainVars, Busy, Job
<1> QED BY <1>1, <1>2, <1>3, <1>4, <1>5, <1>6

\* Sending a message, when nothing is loading or after the run before it.
LEMMA SendKeeps ==
  ASSUME IInv, NEW r \in Run, NEW shown \in Request \cup {NoRequest},
         NEW states \in [Job -> States], NEW mail \in Seq(MainMessage),
         MailOK(mail, states, chatOf, consented),
         Begin(r, shown, states, mail),
         \A x \in Run : at[x] = states[x],
         \A c \in Chat : states[c] # at[c] => states[c] = "posted",
         UNCHANGED <<current, consented, mainVars>>,
         untitled' \subseteq Chat, toRenderer' \in Seq(RendererMessage)
  PROVE  IInv'
<1>1. /\ toMain' \in Seq(MainMessage)
      /\ MailOK(toMain', at', chatOf', consented)
      /\ at' \in [Job -> States] /\ chatOf' \in [Run -> Chat \cup {NoChat}]
      /\ at[r] = "free" /\ at'[r] \in {"reading", "posted"}
      /\ at'[r] = "posted" => chatOf'[r] \in Chat
      /\ \A j \in Job \ {r} : at'[j] = states[j]
      /\ \A x \in Run \ {r} : chatOf'[x] = chatOf[x]
      /\ isLoading' \in BOOLEAN /\ pendingQueue' = 0 /\ pendingCommand' = NoRequest
      /\ subscription' \in Run \cup {NoJob}
  BY BeginKeeps DEF IInv
<1>2. TypeOK'
  BY <1>1, AgentAssumption DEF IInv, TypeOK, mainVars, loopVars, States
<1>3. MailOK(toMain, at, chatOf, consented)'
  BY <1>1
<1>4. consented \subseteq consented' /\ UNCHANGED mainVars
  OBVIOUS
<1>5. Run \subseteq Job /\ Chat \subseteq Job /\ Run \cap Chat = {}
  BY AgentAssumption DEF Job
<1>6. /\ \A j \in Job : at'[j] # at[j] => at'[j] \in {"reading", "posted"}
      /\ \A c \in Chat : at'[c] # at[c] => at'[c] = "posted"
  BY <1>1, <1>5 DEF Job
<1>7. /\ \A x \in Run : at[x] \notin {"free", "reading"} => at'[x] = at[x] /\ chatOf'[x] = chatOf[x]
      /\ \A x \in Run : at[x] \in {"free", "reading"} /\ at'[x] = "posted" => chatOf'[x] \in Chat
  BY <1>1, <1>5
<1>8. /\ TitlesWait' /\ RequestsHold' /\ CallsLeft' /\ RunsHaveChats'
      /\ ControllersWork' /\ ControllerCoversJob'
  BY <1>1, <1>4, <1>6, <1>7, PanelKeeps
<1> QED BY <1>2, <1>3, <1>8 DEF IInv

\* A step of the panel that starts nothing.
LEMMA QuietKeeps ==
  ASSUME IInv, TypeOK', UNCHANGED <<at, chatOf, mainVars>>,
         MailOK(toMain', at, chatOf, consented), consented \subseteq consented'
  PROVE  IInv'
<1>1. /\ at' \in [Job -> States] /\ chatOf' \in [Run -> Chat \cup {NoChat}]
      /\ Run \subseteq Job
  BY DEF TypeOK, States, Job
<1>2. /\ TitlesWait' /\ RequestsHold' /\ CallsLeft' /\ RunsHaveChats'
      /\ ControllersWork' /\ ControllerCoversJob'
  BY <1>1, PanelKeeps
<1>3. toMain' \in Seq(MainMessage)
  BY DEF TypeOK
<1>4. \A r \in Run : at[r] = "posted" => at'[r] = "posted" /\ chatOf'[r] = chatOf[r]
  OBVIOUS
<1>5. MailOK(toMain', at', chatOf', consented')
  BY <1>3, <1>4, MailKept
<1> QED BY <1>2, <1>5 DEF IInv

\* What ends a run in the panel: the next message, if any, is sent.
LEMMA FlushKeeps ==
  ASSUME IInv, NEW states \in [Job -> States], NEW mail \in Seq(MainMessage),
         MailOK(mail, states, chatOf, consented),
         FlushQueue(states, mail),
         \A x \in Run : at[x] = states[x],
         \A c \in Chat : states[c] # at[c] => states[c] = "posted",
         UNCHANGED <<current, consented, mainVars>>,
         untitled' \subseteq Chat, toRenderer' \in Seq(RendererMessage)
  PROVE  IInv'
<1>1. CASE pendingQueue > 0
  <2>1. PICK r \in Run : Begin(r, NoRequest, states, mail)
    BY <1>1 DEF FlushQueue
  <2> QED BY <2>1, SendKeeps
<1>2. CASE ~(pendingQueue > 0)
  <2>1. /\ at' = states /\ toMain' = mail /\ chatOf' = chatOf
        /\ isLoading' = FALSE /\ subscription' = NoJob /\ pendingCommand' = NoRequest
        /\ pendingQueue' = pendingQueue
    BY <1>2 DEF FlushQueue
  <2>2. TypeOK'
    BY <2>1 DEF IInv, TypeOK, mainVars, loopVars, States
  <2>3. MailOK(toMain, at, chatOf, consented)'
    BY <2>1
  <2>4. /\ consented \subseteq consented' /\ UNCHANGED mainVars
        /\ at' \in [Job -> States] /\ chatOf' \in [Run -> Chat \cup {NoChat}]
    BY <2>1, <2>2 DEF TypeOK
  <2>5. /\ \A j \in Job : at'[j] # at[j] => at'[j] \in {"reading", "posted"}
        /\ \A c \in Chat : at'[c] # at[c] => at'[c] = "posted"
        /\ \A x \in Run : at[x] \notin {"free", "reading"} => at'[x] = at[x] /\ chatOf'[x] = chatOf[x]
        /\ \A x \in Run : at[x] \in {"free", "reading"} /\ at'[x] = "posted" => chatOf'[x] \in Chat
    BY <2>1 DEF Job
  <2>6. /\ TitlesWait' /\ RequestsHold' /\ CallsLeft' /\ RunsHaveChats'
        /\ ControllersWork' /\ ControllerCoversJob'
    BY <2>4, <2>5, PanelKeeps
  <2> QED BY <2>2, <2>3, <2>6 DEF IInv
<1> QED BY <1>1, <1>2

LEMMA UserKeeps ==
  ASSUME IInv, UserSteps \/ \E r \in Run : AttachmentsRead(r)
  PROVE  IInv'
<1>0. /\ TypeOK /\ current \in Chat /\ at \in [Job -> States] /\ toMain \in Seq(MainMessage)
      /\ MailOK(toMain, at, chatOf, consented)
      /\ pendingCommand \in Request \cup {NoRequest}
      /\ untitled \subseteq Chat /\ toRenderer \in Seq(RendererMessage)
  BY DEF IInv, TypeOK, States
<1>1. ASSUME NEW r \in Run, SendMessage(r)
      PROVE  IInv'
  <2>1. /\ Begin(r, pendingCommand, at, toMain)
        /\ UNCHANGED <<current, consented, mainVars>>
        /\ untitled' = untitled /\ toRenderer' = toRenderer
    BY <1>1 DEF SendMessage
  <2> QED BY <1>0, <2>1, SendKeeps
<1>2. CASE QueueMessage \/ ClearQueue
  <2>1. TypeOK'
    BY <1>0, <1>2, AgentAssumption DEF TypeOK, QueueMessage, ClearQueue, mainVars, loopVars
  <2>2. UNCHANGED <<at, chatOf, toMain, consented, mainVars>>
    BY <1>2 DEF QueueMessage, ClearQueue
  <2> QED BY <1>0, <2>1, <2>2, QuietKeeps
<1>3. ASSUME TearDown, current' \in Chat
      PROVE  IInv'
  <2>1. /\ UNCHANGED <<at, chatOf, consented, untitled, toRenderer, mainVars>>
        /\ isLoading' = FALSE /\ subscription' = NoJob /\ pendingCommand' = NoRequest
        /\ pendingQueue' = 0
    BY <1>3 DEF TearDown
  <2>2. toMain' \in Seq(MainMessage) /\ MailOK(toMain', at, chatOf, consented)
    BY <1>0, <1>3, MailFarewell DEF TearDown
  <2>3. TypeOK'
    <3>1. /\ aiControllers' = aiControllers /\ aborted' = aborted /\ depth' = depth
          /\ todo' = todo /\ request' = request /\ asker' = asker
          /\ at' = at /\ chatOf' = chatOf /\ consented' = consented
          /\ untitled' = untitled /\ toRenderer' = toRenderer
      BY <2>1 DEF mainVars, loopVars
    <3>2. isLoading' \in BOOLEAN
      BY <2>1, Zenon
    <3>3. pendingQueue' \in 0..MaxQueue
      BY <2>1, AgentAssumption
    <3> QED BY <1>0, <1>3, <2>1, <2>2, <3>1, <3>2, <3>3 DEF TypeOK
  <2> QED BY <2>1, <2>2, <2>3, QuietKeeps
<1>4. CASE Stop \/ \E c \in Chat : ChangeChat(c)
  BY <1>0, <1>3, <1>4 DEF Stop, ChangeChat
<1>5. ASSUME NEW yes \in BOOLEAN, AnswerCommand(yes)
      PROVE  IInv'
  <2> DEFINE m == IF yes THEN Approved(pendingCommand) ELSE Rejected(pendingCommand)
  <2>1. /\ toMain' = Append(toMain, m) /\ pendingCommand \in Request
        /\ pendingCommand' = NoRequest
        /\ UNCHANGED <<at, chatOf, mainVars>>
        /\ UNCHANGED <<current, untitled, isLoading, pendingQueue, subscription, toRenderer>>
    BY <1>0, <1>5 DEF AnswerCommand
  <2>2. /\ consented \subseteq consented' /\ consented' \subseteq Request
        /\ yes => pendingCommand \in consented'
    BY <1>0, <1>5, <2>1 DEF AnswerCommand, TypeOK
  <2>3. m \in MainMessage
    BY <2>1 DEF MainMessage
  <2>4. m.type # "send" /\ Honest(m, at, chatOf, consented')
    BY <2>2 DEF Approved, Rejected, Honest
  <2> HIDE DEF m
  <2>5. \A r \in Run : at[r] = "posted" => at[r] = "posted" /\ chatOf[r] = chatOf[r]
    OBVIOUS
  <2>6. MailOK(toMain, at, chatOf, consented')
    BY <1>0, <2>2, <2>5, MailKept
  <2>7. MailOK(toMain', at, chatOf, consented')
    BY <1>0, <2>1, <2>3, <2>4, <2>6, MailAdd
  <2>8. TypeOK'
    BY <1>0, <2>1, <2>2, <2>3, AppendIs DEF TypeOK, mainVars, loopVars
  <2>9. at' \in [Job -> States] /\ chatOf' \in [Run -> Chat \cup {NoChat}]
    BY <2>8 DEF TypeOK, States
  <2>10. /\ TitlesWait' /\ RequestsHold' /\ CallsLeft' /\ RunsHaveChats'
         /\ ControllersWork' /\ ControllerCoversJob'
    BY <2>1, <2>2, <2>9, PanelKeeps DEF Job
  <2> QED BY <2>1, <2>7, <2>8, <2>10 DEF IInv
<1>6. ASSUME NEW r \in Run, AttachmentsRead(r)
      PROVE  IInv'
  <2>1. /\ at[r] = "reading"
        /\ at' = [at EXCEPT ![r] = "posted"]
        /\ chatOf' = [chatOf EXCEPT ![r] = current]
        /\ subscription' = r /\ pendingCommand' = NoRequest
        /\ toMain' = Append(toMain, Send(r, current))
        /\ UNCHANGED <<current, untitled, isLoading, pendingQueue, consented, toRenderer, mainVars>>
    BY <1>6 DEF AttachmentsRead, Post
  <2>2. chatOf \in [Run -> Chat \cup {NoChat}] /\ r \in Job /\ r \notin Chat
    BY <1>0, AgentAssumption DEF TypeOK, Job
  <2>3. Send(r, current) \in MainMessage
    BY <1>0, <2>2 DEF MainMessage
  <2>4. MailOK(toMain', at', chatOf', consented)
    BY <1>0, <2>1, <2>2, MailPost DEF States
  <2>5. TypeOK'
    BY <1>0, <2>1, <2>2, <2>3, AppendIs DEF TypeOK, mainVars, loopVars
  <2>6. at' \in [Job -> States] /\ chatOf' \in [Run -> Chat \cup {NoChat}]
    BY <2>5 DEF TypeOK, States
  <2>7. /\ \A j \in Job : at'[j] # at[j] => at'[j] \in {"reading", "posted"}
        /\ \A c \in Chat : at'[c] # at[c] => at'[c] = "posted"
        /\ \A x \in Run : at[x] \notin {"free", "reading"} => at'[x] = at[x] /\ chatOf'[x] = chatOf[x]
        /\ \A x \in Run : at[x] \in {"free", "reading"} /\ at'[x] = "posted" => chatOf'[x] \in Chat
    BY <1>0, <2>1, <2>2 DEF Job
  <2>8. /\ TitlesWait' /\ RequestsHold' /\ CallsLeft' /\ RunsHaveChats'
        /\ ControllersWork' /\ ControllerCoversJob'
    BY <2>1, <2>6, <2>7, PanelKeeps
  <2> QED BY <2>1, <2>4, <2>5, <2>8 DEF IInv
<1> QED BY <1>1, <1>2, <1>4, <1>5, <1>6 DEF UserSteps

LEMMA FromMainKeeps ==
  ASSUME IInv, FromMain
  PROVE  IInv'
<1>0. /\ TypeOK /\ current \in Chat /\ at \in [Job -> States] /\ toMain \in Seq(MainMessage)
      /\ MailOK(toMain, at, chatOf, consented)
      /\ untitled \subseteq Chat /\ toRenderer \in Seq(RendererMessage)
  BY DEF IInv, TypeOK, States
<1>1. toRenderer # << >> /\ toRenderer' = Tail(toRenderer)
  BY DEF FromMain, CommandArrives, RunAnswered, RunFailed, OtherSettles, SubscriptionSettles, Received
<1>2. toRenderer' \in Seq(RendererMessage) /\ Head(toRenderer) \in RendererMessage
  BY <1>0, <1>1, HeadTail
<1>3. CASE CommandArrives
  <2>1. pendingCommand' \in Request \cup {NoRequest}
    BY <1>0, <1>2, <1>3, RendererMessages DEF CommandArrives, Received, TypeOK
  <2>2. TypeOK'
    BY <1>0, <1>2, <1>3, <2>1 DEF TypeOK, CommandArrives, mainVars, loopVars
  <2> QED BY <1>0, <1>3, <2>2, QuietKeeps DEF CommandArrives
<1>4. CASE RunAnswered
  <2>1. UNCHANGED <<current, consented, mainVars>> /\ untitled' \subseteq Chat
    BY <1>0, <1>4 DEF RunAnswered
  <2>2. CASE current \in untitled
    <3> DEFINE S == [at EXCEPT ![current] = "posted"]
               M == Append(toMain, Send(current, current))
    <3>1. FlushQueue(S, M)
      BY <1>4, <2>2 DEF RunAnswered
    <3>2. current \in Job /\ current \notin Run
      BY <1>0, AgentAssumption DEF Job
    <3>3. M \in Seq(MainMessage) /\ MailOK(M, S, chatOf, consented)
      BY <1>0, MailTitle DEF States
    <3>4. /\ S \in [Job -> States]
          /\ \A x \in Run : at[x] = S[x]
          /\ \A c \in Chat : S[c] # at[c] => S[c] = "posted"
      BY <1>0, <3>2 DEF Job, States
    <3> HIDE DEF S, M
    <3> QED BY <1>2, <2>1, <3>1, <3>3, <3>4, FlushKeeps
  <2>3. CASE current \notin untitled
    <3>1. FlushQueue(at, toMain)
      BY <1>4, <2>3 DEF RunAnswered
    <3> QED BY <1>0, <1>2, <2>1, <3>1, FlushKeeps
  <2> QED BY <2>2, <2>3
<1>5. CASE RunFailed
  <2>1. UNCHANGED <<current, consented, mainVars>> /\ untitled' \subseteq Chat
    BY <1>0, <1>5 DEF RunFailed
  <2>2. CASE Head(toRenderer).outcome # "cancelled"
    <3>1. FlushQueue(at, toMain)
      BY <1>5, <2>2 DEF RunFailed
    <3> QED BY <1>0, <1>2, <2>1, <3>1, FlushKeeps
  <2>3. CASE Head(toRenderer).outcome = "cancelled"
    <3>1. /\ isLoading' = FALSE /\ subscription' = NoJob /\ pendingCommand' = NoRequest
          /\ UNCHANGED <<pendingQueue, toMain, at, chatOf>>
          /\ untitled' = untitled
      BY <1>5, <2>3 DEF RunFailed
    <3>2. TypeOK'
      BY <1>0, <1>2, <2>1, <3>1 DEF TypeOK, mainVars, loopVars
    <3> QED BY <1>0, <2>1, <3>1, <3>2, QuietKeeps
  <2> QED BY <2>2, <2>3
<1>6. CASE OtherSettles
  <2>1. TypeOK'
    BY <1>0, <1>2, <1>6 DEF TypeOK, OtherSettles, mainVars, loopVars
  <2> QED BY <1>0, <1>6, <2>1, QuietKeeps DEF OtherSettles
<1> QED BY <1>3, <1>4, <1>5, <1>6 DEF FromMain

-------------------------------------------------------------------------------
(* Steps of main *)

\* The chat of a job at work is a chat.
LEMMA ChatOfBusy ==
  ASSUME IInv, NEW j \in Job, at[j] \in Busy \cup {"posted"}
  PROVE  ChatOf(j) \in Chat
  BY DEF IInv, RunsHaveChats, ChatOf, Job

\* A job that was at work and waits for nobody may end.
LEMMA FinishKeeps ==
  ASSUME IInv, NEW j \in Job, NEW outcome \in Outcome, at[j] \in {"http", "loop"},
         Finish(j, outcome)
  PROVE  IInv'
<1>0. /\ TypeOK /\ toMain \in Seq(MainMessage) /\ MailOK(toMain, at, chatOf, consented)
      /\ at \in [Job -> States]
  BY DEF IInv, TypeOK, States
<1>1. /\ at' = [at EXCEPT ![j] = Ended(j)]
      /\ aiControllers' = [aiControllers EXCEPT
                             ![ChatOf(j)] = IF aiControllers[ChatOf(j)] = j THEN NoJob ELSE aiControllers[ChatOf(j)]]
      /\ toRenderer' = Append(toRenderer, Settled(j, outcome))
      /\ UNCHANGED <<rendererVars, toMain, chatOf, aborted, loopVars>>
  BY DEF Finish, Forget
<1>2. Ended(j) \in {"free", "done"} /\ (j \in Chat => Ended(j) = "free")
  BY DEF Ended
<1>3. ChatOf(j) \in Chat
  BY ChatOfBusy DEF Busy
<1>4. TypeOK'
  <2>1. Settled(j, outcome) \in RendererMessage
    BY DEF RendererMessage
  <2>2. toRenderer' \in Seq(RendererMessage)
    BY <1>0, <1>1, <2>1 DEF TypeOK
  <2>3. at' \in [Job -> States]
    BY <1>0, <1>1, <1>2 DEF States
  <2>4. aiControllers' \in [Chat -> Job \cup {NoJob}]
    BY <1>0, <1>1, <1>3 DEF TypeOK
  <2> QED BY <1>0, <1>1, <2>2, <2>3, <2>4 DEF TypeOK, rendererVars, loopVars, States
<1>5. TitlesWait'
  BY <1>0, <1>1, <1>2 DEF IInv, TitlesWait, Job
<1>6. MailOK(toMain, at, chatOf, consented)'
  <2>1. \A r \in Run : at[r] = "posted" => at'[r] = "posted" /\ chatOf'[r] = chatOf[r]
    BY <1>0, <1>1 DEF Job
  <2> QED BY <1>0, <1>1, <2>1, MailKept DEF rendererVars
<1>7. RequestsHold'
  BY <1>0, <1>1 DEF IInv, RequestsHold, rendererVars, loopVars, Job
<1>8. CallsLeft' /\ RunsHaveChats'
  BY <1>0, <1>1, <1>2 DEF IInv, CallsLeft, RunsHaveChats, loopVars, Busy, Job
<1>9. ControllerCoversJob'
  <2> SUFFICES ASSUME NEW k \in Job, at'[k] \in Busy, k \notin aborted
               PROVE  aiControllers'[ChatOf(k)] = k
    BY <1>1 DEF ControllerCoversJob, ChatOf
  <2>1. k # j /\ at'[k] = at[k]
    BY <1>0, <1>1, <1>2 DEF Busy
  <2>2. aiControllers[ChatOf(k)] = k /\ ChatOf(k) \in Chat
    BY <2>1, ChatOfBusy DEF IInv, ControllerCoversJob
  <2> QED BY <1>0, <1>1, <1>3, <2>1, <2>2 DEF TypeOK
<1>10. ControllersWork'
  <2> SUFFICES /\ \A c \in Chat : aiControllers'[c] \in Run =>
                    at'[aiControllers'[c]] \in Busy /\ chatOf[aiControllers'[c]] = c
               /\ \A r \in aborted : at'[r] \in Busy \cup {"done"}
    BY <1>1 DEF ControllersWork
  <2>1. ASSUME NEW c \in Chat, aiControllers'[c] \in Run
        PROVE  at'[aiControllers'[c]] \in Busy /\ chatOf[aiControllers'[c]] = c
    <3>1. aiControllers'[c] = aiControllers[c]
      BY <1>0, <1>1, <1>3, <2>1, AgentAssumption DEF TypeOK, Job
    <3>2. at[aiControllers[c]] \in Busy /\ chatOf[aiControllers[c]] = c
      BY <2>1, <3>1 DEF IInv, ControllersWork
    <3>3. aiControllers[c] # j
      <4> SUFFICES ASSUME aiControllers[c] = j PROVE FALSE
        OBVIOUS
      <4>1. ChatOf(j) = c
        BY <2>1, <3>1, <3>2, AgentAssumption DEF ChatOf
      <4> QED BY <1>0, <1>1, <2>1, <3>1, <4>1, AgentAssumption DEF TypeOK, Job
    <3> QED BY <1>0, <1>1, <2>1, <3>1, <3>2, <3>3 DEF Job
  <2>2. ASSUME NEW r \in aborted
        PROVE  at'[r] \in Busy \cup {"done"}
    BY <1>0, <1>1, AgentAssumption DEF IInv, ControllersWork, TypeOK, Ended, Job
  <2> QED BY <2>1, <2>2
<1> QED BY <1>4, <1>5, <1>6, <1>7, <1>8, <1>9, <1>10 DEF IInv

\* A run may go from one place of its loop to another.
LEMMA LoopKeeps ==
  ASSUME IInv, NEW r \in Run, NEW place \in Busy,
         at[r] \in Busy,
         at' = [at EXCEPT ![r] = place],
         UNCHANGED <<rendererVars, toMain, chatOf, aiControllers, aborted>>,
         toRenderer' \in Seq(RendererMessage),
         depth' \in [Run -> 0..MaxDepth], todo' \in [Run -> 0..MaxCalls],
         request' \in [Request -> {"none", "pending", "approved", "rejected"}],
         asker' \in [Request -> Run \cup {NoJob}],
         RequestsHold', CallsLeft'
  PROVE  IInv'
<1>0. /\ TypeOK /\ toMain \in Seq(MainMessage) /\ MailOK(toMain, at, chatOf, consented)
      /\ at \in [Job -> States] /\ r \in Job /\ r \notin Chat
  BY AgentAssumption DEF IInv, TypeOK, States, Job
<1>1. TypeOK'
  <2>1. at' \in [Job -> States]
    BY <1>0 DEF States
  <2> QED BY <1>0, <2>1 DEF TypeOK, rendererVars, States
<1>2. TitlesWait'
  BY <1>0 DEF IInv, TitlesWait, Job
<1>3. MailOK(toMain, at, chatOf, consented)'
  <2>1. \A x \in Run : at[x] = "posted" => at'[x] = "posted" /\ chatOf'[x] = chatOf[x]
    BY <1>0 DEF Job, Busy
  <2>2. toMain' = toMain /\ consented \subseteq consented'
    BY DEF rendererVars
  <2> QED BY <1>0, <2>1, <2>2, MailStays
<1>4. RunsHaveChats'
  BY <1>0 DEF IInv, RunsHaveChats, Job
<1>5. ControllerCoversJob'
  BY <1>0 DEF IInv, ControllerCoversJob, ChatOf
<1>6. ControllersWork'
  BY <1>0 DEF IInv, ControllersWork, TypeOK, Job
<1> QED BY <1>1, <1>2, <1>3, <1>4, <1>5, <1>6 DEF IInv

\* A cancellation, or the message that starts a job: it aborts the chat's former
\* one, and its successor, if any, is at work or over.
LEMMA AbortKeeps ==
  ASSUME IInv, toMain # << >>, toMain' = Tail(toMain),
         NEW c \in Chat, NEW j \in Job \cup {NoJob}, NEW place \in {"http", "done"},
         AbortRun(c, IF place = "http" THEN j ELSE NoJob),
         j = NoJob => at' = Cut(c),
         j \in Job => /\ at' = [Cut(c) EXCEPT ![j] = place]
                      /\ Head(toMain).type = "send" /\ Head(toMain).job = j
                      /\ Head(toMain).chat = c
                      /\ place = "done" => j \in Run,
         UNCHANGED <<rendererVars, chatOf, loopVars>>,
         toRenderer' \in Seq(RendererMessage)
  PROVE  IInv'
<1>0. /\ TypeOK /\ toMain \in Seq(MainMessage) /\ MailOK(toMain, at, chatOf, consented)
      /\ at \in [Job -> States] /\ toMain' \in Seq(MainMessage) /\ NoJob \notin Job
      /\ Job = Run \cup Chat /\ Run \cap Chat = {}
  BY HeadTail, AgentAssumption DEF IInv, TypeOK, States, Job
<1>1. /\ Cut(c) \in [Job -> States]
      /\ \A k \in Job : \/ Cut(c)[k] = at[k]
                        \/ k = aiControllers[c] /\ at[k] = "http" /\ Cut(c)[k] = Ended(k)
  BY <1>0 DEF Cut, Ended, States
<1>2. \A k \in Job : k = aiControllers[c] /\ at[k] = "http" => Cut(c)[k] = Ended(k)
  BY DEF Cut
<1>3. \A k \in Job : Ended(k) \in {"free", "done"} /\ (k \in Chat => Ended(k) = "free")
  BY DEF Ended
<1>4. j \in Job => Honest(Head(toMain), at, chatOf, consented)
  BY <1>0, HeadTail DEF MailOK
<1>5. \A k \in Job : \/ at'[k] = at[k] /\ k # j
                     \/ k # j /\ k = aiControllers[c] /\ at[k] = "http" /\ at'[k] = Ended(k)
                     \/ k = j /\ at'[k] = place
  BY <1>0, <1>1
<1>6. at' \in [Job -> States]
  BY <1>0, <1>1 DEF States, Busy
<1>7. /\ aborted' = aborted \cup ({aiControllers[c]} \cap Run)
      /\ aiControllers' = [aiControllers EXCEPT ![c] = IF place = "http" THEN j ELSE NoJob]
  BY DEF AbortRun
<1>8. TypeOK'
  BY <1>0, <1>6, <1>7 DEF TypeOK, rendererVars, loopVars, States
<1>9. j \in Run => at[j] = "posted" /\ chatOf[j] = c
  BY <1>0, <1>4 DEF Honest, Job
<1>10. j \in Chat => j = c /\ place = "http"
  BY <1>0, <1>4 DEF Honest, Job
<1>11. TitlesWait'
  BY <1>0, <1>3, <1>5, <1>10 DEF IInv, TitlesWait
<1>12. MailOK(toMain, at, chatOf, consented)'
  <2>1. \A r \in Run : \/ at[r] = "posted" => at'[r] = "posted"
                       \/ Head(toMain).type = "send" /\ Head(toMain).job = r
    BY <1>0, <1>5
  <2>2. chatOf' = chatOf /\ consented' = consented
    BY DEF rendererVars
  <2> QED BY <1>0, <2>1, <2>2, MailTail
<1>13. RequestsHold'
  BY <1>0, <1>5, <1>9 DEF IInv, RequestsHold, rendererVars, loopVars
<1>14. CallsLeft' /\ RunsHaveChats'
  BY <1>0, <1>3, <1>5, <1>9 DEF IInv, CallsLeft, RunsHaveChats, loopVars, Busy
<1>15. ControllerCoversJob'
  <2> SUFFICES ASSUME NEW k \in Job, at'[k] \in Busy, k \notin aborted'
               PROVE  aiControllers'[ChatOf(k)] = k
    BY DEF ControllerCoversJob, ChatOf
  <2>1. CASE k = j
    <3>1. place = "http"
      BY <1>5, <2>1 DEF Busy
    <3>2. ChatOf(k) = c
      BY <1>0, <1>9, <1>10, <2>1 DEF ChatOf
    <3> QED BY <1>0, <1>7, <2>1, <3>1, <3>2 DEF TypeOK
  <2>2. CASE k # j
    <3>1. at'[k] = at[k]
      BY <1>3, <1>5, <2>2 DEF Busy
    <3>2. aiControllers[ChatOf(k)] = k /\ ChatOf(k) \in Chat
      BY <1>7, <3>1, ChatOfBusy DEF IInv, ControllerCoversJob
    <3>3. ChatOf(k) # c
      <4> SUFFICES ASSUME k = aiControllers[c] PROVE FALSE
        BY <3>2
      <4>1. k \in Chat
        BY <1>0, <1>7
      <4>2. at[k] = "http"
        BY <3>1, <4>1 DEF IInv, TitlesWait, Busy
      <4>3. at'[k] = Ended(k)
        BY <1>0, <1>2, <1>6, <4>2, <2>2
      <4> QED BY <1>3, <4>1, <4>3 DEF Busy
    <3> QED BY <1>0, <1>7, <3>2, <3>3 DEF TypeOK
  <2> QED BY <2>1, <2>2
<1>16. ControllersWork'
  <2> SUFFICES /\ \A d \in Chat : aiControllers'[d] \in Run =>
                    at'[aiControllers'[d]] \in Busy /\ chatOf[aiControllers'[d]] = d
               /\ \A r \in aborted' : at'[r] \in Busy \cup {"done"}
    BY DEF ControllersWork
  <2>1. \A r \in Run : r = aiControllers[c] => at[r] \in Busy /\ chatOf[r] = c
    BY DEF IInv, ControllersWork
  <2>2. ASSUME NEW d \in Chat, aiControllers'[d] \in Run
        PROVE  at'[aiControllers'[d]] \in Busy /\ chatOf[aiControllers'[d]] = d
    <3>1. CASE d = c
      <4>1. place = "http" /\ aiControllers'[d] = j
        BY <1>0, <1>7, <2>2, <3>1 DEF TypeOK
      <4> QED BY <1>0, <1>5, <1>9, <2>2, <3>1, <4>1 DEF Busy
    <3>2. CASE d # c
      <4>1. aiControllers'[d] = aiControllers[d]
        BY <1>0, <1>7, <3>2 DEF TypeOK
      <4>2. at[aiControllers[d]] \in Busy /\ chatOf[aiControllers[d]] = d
        BY <2>2, <4>1 DEF IInv, ControllersWork
      <4>3. aiControllers[d] # j /\ aiControllers[d] # aiControllers[c]
        BY <1>9, <2>1, <2>2, <3>2, <4>1, <4>2 DEF Busy
      <4> QED BY <1>0, <1>5, <2>2, <4>1, <4>2, <4>3
    <3> QED BY <3>1, <3>2
  <2>3. ASSUME NEW r \in aborted'
        PROVE  at'[r] \in Busy \cup {"done"}
    <3>1. r \in Run /\ r \notin Chat /\ at[r] \in Busy \cup {"done"}
      BY <1>0, <1>7, <2>1 DEF IInv, ControllersWork, TypeOK
    <3> QED BY <1>0, <1>5, <3>1 DEF Ended, Busy
  <2> QED BY <2>2, <2>3
<1> QED BY <1>8, <1>11, <1>12, <1>13, <1>14, <1>15, <1>16 DEF IInv

\* A pending approval is answered, or given up: the run it belongs to goes on.
LEMMA ResolveKeeps ==
  ASSUME IInv, NEW q \in Request, NEW approved \in BOOLEAN,
         request[q] = "pending", Resolve(q, approved), approved => q \in consented,
         toMain' \in Seq(MainMessage),
         MailOK(toMain', at, chatOf, consented)
  PROVE  IInv'
<1> DEFINE r == asker[q]
           place == IF approved THEN "exec" ELSE "loop"
           verdict == IF approved THEN "approved" ELSE "rejected"
           left == IF approved THEN todo[r] ELSE todo[r] - 1
<1>0. /\ TypeOK /\ r \in Run /\ at[r] = "approval" /\ r \in Job /\ r \notin Chat
      /\ at \in [Job -> States] /\ todo[r] \in 0..MaxCalls /\ todo[r] > 0
      /\ \A p \in Request : request[p] = "pending" /\ asker[p] = r => p = q
  BY AgentAssumption DEF IInv, TypeOK, States, Job, RequestsHold, CallsLeft
<1>1. /\ request' = [request EXCEPT ![q] = verdict]
      /\ at' = [at EXCEPT ![r] = place]
      /\ todo' = [todo EXCEPT ![r] = left]
      /\ UNCHANGED <<rendererVars, toRenderer, chatOf, aiControllers, aborted, depth, asker>>
  BY DEF Resolve
<1>2. /\ place \in {"exec", "loop"} /\ verdict \in {"approved", "rejected"}
      /\ left \in 0..MaxCalls
      /\ verdict = "approved" => q \in consented
      /\ place = "exec" => left > 0
  BY <1>0, AgentAssumption
<1> HIDE DEF r, place, verdict, left
<1>3. TypeOK'
  <2>1. at' \in [Job -> States]
    BY <1>0, <1>1, <1>2 DEF States, Busy
  <2> QED BY <1>0, <1>1, <1>2, <2>1 DEF TypeOK, rendererVars, States
<1>4. TitlesWait'
  BY <1>0, <1>1 DEF IInv, TitlesWait, Job
<1>5. MailOK(toMain, at, chatOf, consented)'
  <2>1. \A x \in Run : at[x] = "posted" => at'[x] = "posted" /\ chatOf'[x] = chatOf[x]
    BY <1>0, <1>1 DEF Job
  <2>2. consented \subseteq consented'
    BY <1>1 DEF rendererVars
  <2> HIDE DEF MailOK
  <2> QED BY <2>1, <2>2, MailKept
<1>6. RequestsHold'
  <2>1. consented' = consented /\ asker' = asker
    BY <1>1 DEF rendererVars
  <2> SUFFICES ASSUME NEW p \in Request
               PROVE  /\ request'[p] # "none" => asker[p] \in Run
                      /\ request'[p] = "approved" => p \in consented
                      /\ request'[p] = "pending" =>
                           /\ at'[asker[p]] = "approval"
                           /\ \A o \in Request :
                                request'[o] = "pending" /\ asker[o] = asker[p] => o = p
    BY <2>1 DEF RequestsHold
  <2>2. CASE p = q
    <3>1. request'[p] = verdict
      BY <1>0, <1>1, <2>2 DEF TypeOK
    <3> QED BY <1>0, <1>2, <2>2, <3>1 DEF r
  <2>3. CASE p # q
    <3>1. request'[p] = request[p]
      BY <1>1, <1>0, <2>3 DEF TypeOK
    <3>2. \A o \in Request : request'[o] = "pending" => request[o] = "pending"
      BY <1>0, <1>1, <1>2 DEF TypeOK
    <3>3. request[p] = "pending" => asker[p] # r /\ asker[p] \in Run /\ at[asker[p]] = "approval"
      BY <1>0, <2>3 DEF IInv, RequestsHold
    <3>4. request[p] = "pending" => at'[asker[p]] = "approval"
      BY <1>0, <1>1, <3>3 DEF Job
    <3> QED BY <3>1, <3>2, <3>4 DEF IInv, RequestsHold
  <2> QED BY <2>2, <2>3
<1>7. CallsLeft'
  BY <1>0, <1>1, <1>2 DEF IInv, CallsLeft, Job, TypeOK
<1>8. RunsHaveChats'
  BY <1>0, <1>1, <1>2 DEF IInv, RunsHaveChats, Busy, Job
<1>9. ControllerCoversJob'
  BY <1>0, <1>1 DEF IInv, ControllerCoversJob, ChatOf, Busy
<1>10. ControllersWork'
  BY <1>0, <1>1, <1>2 DEF IInv, ControllersWork, TypeOK, Busy, Job
<1> QED BY <1>3, <1>4, <1>5, <1>6, <1>7, <1>8, <1>9, <1>10 DEF IInv

LEMMA FromRendererKeeps ==
  ASSUME IInv, FromRenderer
  PROVE  IInv'
<1> DEFINE m == Head(toMain)
<1>0. /\ TypeOK /\ toMain \in Seq(MainMessage) /\ MailOK(toMain, at, chatOf, consented)
      /\ at \in [Job -> States] /\ toRenderer \in Seq(RendererMessage) /\ NoJob \notin Job
      /\ Run \subseteq Job
  BY AgentAssumption DEF IInv, TypeOK, States, Job
<1>1. toMain # << >> /\ toMain' = Tail(toMain)
  BY DEF FromRenderer, CancelReceived, SendReceived, VerdictReceived, MailFor
<1>2. /\ m \in MainMessage /\ toMain' \in Seq(MainMessage)
      /\ Honest(m, at, chatOf, consented)
      /\ MailOK(toMain', at, chatOf, consented)
  <2>1. m \in MainMessage /\ toMain' \in Seq(MainMessage) /\ 1 \in DOMAIN toMain /\ toMain[1] = m
    BY <1>0, <1>1, HeadTail
  <2>2. Honest(m, at, chatOf, consented)
    BY <1>0, <2>1 DEF MailOK
  <2>3. \A r \in Run : at[r] = "posted" => at[r] = "posted"
    OBVIOUS
  <2>4. MailOK(Tail(toMain), at, chatOf, consented)
    BY <1>0, <1>1, <2>3, MailTail
  <2> QED BY <1>1, <2>1, <2>2, <2>4
<1>3. ASSUME NEW c \in Chat
      PROVE  CutNotice(c) \in Seq(RendererMessage)
  <2>1. CASE \E j \in Job : j = aiControllers[c] /\ at[j] = "http"
    <3>1. Settled(aiControllers[c], "cancelled") \in RendererMessage
      BY <2>1 DEF RendererMessage, Outcome
    <3> QED BY <1>0, <2>1, <3>1 DEF CutNotice
  <2> QED BY <1>0, <2>1 DEF CutNotice
<1>4. CASE CancelReceived
  <2>1. m.chat \in Chat
    BY <1>2, <1>4, MainMessages DEF CancelReceived, MailFor
  <2>2. toRenderer' \in Seq(RendererMessage)
    BY <1>3, <1>4, <2>1 DEF CancelReceived
  <2>3. /\ AbortRun(m.chat, NoJob) /\ at' = Cut(m.chat)
        /\ UNCHANGED <<rendererVars, chatOf, loopVars>>
    BY <1>4 DEF CancelReceived
  <2>4. \A place : AbortRun(m.chat, IF place = "http" THEN NoJob ELSE NoJob)
    BY <2>3
  <2> HIDE DEF m
  <2> QED BY <1>0, <1>1, <2>1, <2>2, <2>3, <2>4, AbortKeeps
<1>5. CASE SendReceived
  <2>1. m.type = "send" /\ m.job \in Job /\ m.chat \in Chat
    BY <1>2, <1>5, MainMessages DEF SendReceived, MailFor
  <2>2. UNCHANGED <<rendererVars, chatOf, loopVars>>
    BY <1>5 DEF SendReceived
  <2>3. CASE /\ AbortRun(m.chat, m.job)
             /\ at' = [Cut(m.chat) EXCEPT ![m.job] = "http"]
             /\ toRenderer' = CutNotice(m.chat)
    <3>1. toRenderer' \in Seq(RendererMessage)
      BY <1>3, <2>1, <2>3
    <3>2. \A place : place = "http" => AbortRun(m.chat, IF place = "http" THEN m.job ELSE NoJob)
      BY <2>3
    <3> QED BY <1>0, <1>1, <2>1, <2>2, <2>3, <3>1, <3>2, AbortKeeps
  <2>4. CASE /\ m.job \in Run
             /\ AbortRun(m.chat, NoJob)
             /\ at' = [Cut(m.chat) EXCEPT ![m.job] = "done"]
             /\ toRenderer' = Append(CutNotice(m.chat), Settled(m.job, "answered"))
    <3>1. Settled(m.job, "answered") \in RendererMessage
      BY <2>1 DEF RendererMessage, Outcome
    <3>2. toRenderer' \in Seq(RendererMessage)
      BY <1>3, <2>1, <2>4, <3>1
    <3>3. \A place : place = "done" => AbortRun(m.chat, IF place = "http" THEN m.job ELSE NoJob)
      BY <2>4
    <3> QED BY <1>0, <1>1, <2>1, <2>2, <2>4, <3>2, <3>3, AbortKeeps
  <2> QED BY <1>5, <2>3, <2>4 DEF SendReceived
<1>6. CASE VerdictReceived
  <2>1. m.type \in {"approved", "rejected"} /\ m.request \in Request
    BY <1>2, <1>6, MainMessages DEF VerdictReceived, MailFor
  <2>2. CASE request[m.request] = "pending"
    <3>1. Resolve(m.request, m.type = "approved")
      BY <1>6, <2>2 DEF VerdictReceived
    <3>2. m.type = "approved" => m.request \in consented
      BY <1>2 DEF Honest
    <3> QED BY <1>0, <1>2, <2>1, <2>2, <3>1, <3>2, ResolveKeeps
  <2>3. CASE request[m.request] # "pending"
    <3>1. UNCHANGED <<rendererVars, toRenderer, at, chatOf, mainVars>>
      BY <1>6, <2>3 DEF VerdictReceived
    <3>2. TypeOK'
      BY <1>0, <1>2, <3>1 DEF TypeOK, rendererVars, mainVars, loopVars
    <3>3. consented' = consented
      BY <3>1 DEF rendererVars
    <3> QED BY <1>0, <1>2, <3>1, <3>2, <3>3, QuietKeeps
  <2> QED BY <2>2, <2>3
<1> QED BY <1>4, <1>5, <1>6 DEF FromRenderer

LEMMA RunsKeep ==
  ASSUME IInv,
         \/ \E r \in Run : LoopGoesOn(r) \/ ToolEnds(r)
         \/ \E j \in Job : HttpSettles(j)
         \/ \E q \in Request : ApprovalTimesOut(q)
  PROVE  IInv'
<1>0. /\ TypeOK /\ toMain \in Seq(MainMessage) /\ MailOK(toMain, at, chatOf, consented)
      /\ at \in [Job -> States] /\ toRenderer \in Seq(RendererMessage)
      /\ todo \in [Run -> 0..MaxCalls] /\ depth \in [Run -> 0..MaxDepth]
      /\ Run \subseteq Job /\ RequestsHold /\ CallsLeft
      /\ MaxCalls \in Nat /\ MaxDepth \in Nat
  BY AgentAssumption DEF IInv, TypeOK, States, Job
<1>1. ASSUME NEW j \in Job, HttpSettles(j)
      PROVE  IInv'
  <2>1. CASE \E outcome \in Outcome : AnswerArrives(j, outcome)
    BY <2>1, FinishKeeps DEF AnswerArrives
  <2>2. ASSUME j \in Run, NEW n \in 1..MaxCalls, ToolCallsArrive(j, n)
        PROVE  IInv'
    <3>1. /\ at[j] = "http" /\ at' = [at EXCEPT ![j] = "loop"]
          /\ todo' = [todo EXCEPT ![j] = n]
          /\ UNCHANGED <<rendererVars, toMain, toRenderer, chatOf, aiControllers, aborted,
                         depth, request, asker>>
      BY <2>2 DEF ToolCallsArrive
    <3>2. todo' \in [Run -> 0..MaxCalls]
      BY <1>0, <2>2, <3>1
    <3>3. RequestsHold' /\ CallsLeft'
      BY <1>0, <2>2, <3>1 DEF RequestsHold, CallsLeft, rendererVars
    <3> QED BY <1>0, <2>2, <3>1, <3>2, <3>3, LoopKeeps DEF Busy, TypeOK
  <2> QED BY <1>1, <2>1, <2>2 DEF HttpSettles
<1>2. ASSUME NEW r \in Run, ToolEnds(r) \/ SkipCall(r)
      PROVE  IInv'
  <2>1. /\ at[r] \in {"loop", "exec"} /\ todo[r] > 0
        /\ at' = [at EXCEPT ![r] = "loop"]
        /\ todo' = [todo EXCEPT ![r] = todo[r] - 1]
        /\ UNCHANGED <<rendererVars, toMain, toRenderer, chatOf, aiControllers, aborted,
                       depth, request, asker>>
    BY <1>0, <1>2 DEF ToolEnds, SkipCall, MayCall, CallsLeft
  <2>2. todo' \in [Run -> 0..MaxCalls]
    BY <1>0, <2>1
  <2>3. RequestsHold' /\ CallsLeft'
    BY <1>0, <2>1 DEF RequestsHold, CallsLeft, rendererVars
  <2> QED BY <1>0, <2>1, <2>2, <2>3, LoopKeeps DEF Busy, TypeOK
<1>3. ASSUME NEW r \in Run, CallTool(r)
      PROVE  IInv'
  <2>1. /\ at[r] = "loop" /\ todo[r] > 0
        /\ at' = [at EXCEPT ![r] = "exec"]
        /\ UNCHANGED <<rendererVars, toMain, toRenderer, chatOf, aiControllers, aborted,
                       depth, todo, request, asker>>
    BY <1>3 DEF CallTool, MayCall, mainVars, loopVars
  <2>2. RequestsHold' /\ CallsLeft'
    BY <1>0, <2>1 DEF RequestsHold, CallsLeft, rendererVars
  <2> QED BY <1>0, <2>1, <2>2, LoopKeeps DEF Busy, TypeOK
<1>4. ASSUME NEW r \in Run, NEW q \in Request, AskUser(r, q)
      PROVE  IInv'
  <2>1. /\ at[r] = "loop" /\ todo[r] > 0 /\ request[q] = "none"
        /\ request' = [request EXCEPT ![q] = "pending"]
        /\ asker' = [asker EXCEPT ![q] = r]
        /\ at' = [at EXCEPT ![r] = "approval"]
        /\ toRenderer' = Append(toRenderer, CommandPending(q))
        /\ UNCHANGED <<rendererVars, toMain, chatOf, aiControllers, aborted, depth, todo>>
    BY <1>4 DEF AskUser, MayCall
  <2>2. /\ request' \in [Request -> {"none", "pending", "approved", "rejected"}]
        /\ asker' \in [Request -> Run \cup {NoJob}]
    BY <1>0, <2>1 DEF TypeOK
  <2>3. CommandPending(q) \in RendererMessage
    BY DEF RendererMessage
  <2>4. toRenderer' \in Seq(RendererMessage)
    BY <1>0, <2>1, <2>3
  <2>5. CallsLeft'
    BY <1>0, <2>1 DEF CallsLeft
  <2>6. \A p \in Request : request[p] = "pending" => asker[p] # r
    BY <1>0, <2>1 DEF RequestsHold
  <2>7. RequestsHold'
    BY <1>0, <2>1, <2>6 DEF RequestsHold, rendererVars, TypeOK
  <2> QED BY <1>0, <2>1, <2>2, <2>4, <2>5, <2>7, LoopKeeps DEF Busy, TypeOK
<1>5. ASSUME NEW r \in Run, LoopAborted(r) \/ NextRound(r)
      PROVE  IInv'
  <2>1. CASE \E outcome \in Outcome : at[r] = "loop" /\ Finish(r, outcome)
    BY <1>0, <2>1, FinishKeeps
  <2>2. CASE /\ at[r] = "loop" /\ depth[r] < MaxDepth
             /\ depth' = [depth EXCEPT ![r] = depth[r] + 1]
             /\ at' = [at EXCEPT ![r] = "http"]
             /\ UNCHANGED <<rendererVars, toMain, toRenderer, chatOf, aiControllers, aborted,
                            todo, request, asker>>
    <3>1. depth' \in [Run -> 0..MaxDepth]
      BY <1>0, <2>2
    <3>2. RequestsHold' /\ CallsLeft'
      BY <1>0, <2>2 DEF RequestsHold, CallsLeft, rendererVars
    <3> QED BY <1>0, <2>2, <3>1, <3>2, LoopKeeps DEF Busy, TypeOK
  <2> QED BY <1>5, <2>1, <2>2 DEF LoopAborted, NextRound, Outcome
<1>6. ASSUME NEW q \in Request, ApprovalTimesOut(q)
      PROVE  IInv'
  <2>1. request[q] = "pending" /\ Resolve(q, FALSE) /\ toMain' = toMain
    BY <1>6 DEF ApprovalTimesOut
  <2> QED BY <1>0, <2>1, ResolveKeeps
<1> QED BY <1>1, <1>2, <1>3, <1>4, <1>5, <1>6 DEF LoopGoesOn

-------------------------------------------------------------------------------
(* Theorems *)

\* IInv is inductive.
LEMMA Invariance == Spec => []IInv
<1>1. Init => IInv
  <2> SUFFICES ASSUME Init PROVE IInv
    OBVIOUS
  <2>1. TypeOK
    <3>1. isLoading \in BOOLEAN /\ at \in [Job -> {"free", "reading", "posted", "done"} \cup Busy]
      BY DEF Init
    <3>2. pendingQueue \in 0..MaxQueue /\ depth \in [Run -> 0..MaxDepth] /\ todo \in [Run -> 0..MaxCalls]
      BY AgentAssumption DEF Init
    <3>3. toMain \in Seq(MainMessage) /\ toRenderer \in Seq(RendererMessage)
      BY DEF Init
    <3> QED BY <3>1, <3>2, <3>3 DEF Init, TypeOK
  <2>2. MailOK(toMain, at, chatOf, consented)
    BY DEF Init, MailOK, SentOnce
  <2> QED BY <2>1, <2>2, AgentAssumption DEF Init, IInv, TitlesWait, RequestsHold, CallsLeft, RunsHaveChats,
                            ControllersWork, ControllerCoversJob, Busy, Job, TypeOK
<1>2. IInv /\ [Next]_vars => IInv'
  <2> SUFFICES ASSUME IInv, [Next]_vars PROVE IInv'
    OBVIOUS
  <2>1. CASE Next
    BY <2>1, UserKeeps, FromMainKeeps, FromRendererKeeps, RunsKeep DEF Next
  <2>2. CASE UNCHANGED vars
    <3>1. TypeOK' /\ consented' = consented
      BY <2>2 DEF IInv, TypeOK, vars, rendererVars, mainVars, loopVars
    <3>2. MailOK(toMain', at, chatOf, consented)
      BY <2>2 DEF IInv, vars
    <3> QED BY <2>2, <3>1, <3>2, QuietKeeps DEF vars
  <2> QED BY <2>1, <2>2
<1> QED BY <1>1, <1>2, PTL DEF Spec

\* Every variable keeps its type: the depth of a run stays within its limit, no
\* call is counted below zero.
THEOREM TypeCorrect == Spec => []TypeOK
BY Invariance, PTL DEF IInv

\* A job at work that nobody aborted is the one its chat's controller aborts, so
\* that Stop finds it, however late former jobs of the chat end.
THEOREM StopFindsTheJob == Spec => []ControllerCoversJob
BY Invariance, PTL DEF IInv

\* After an abort a run starts no HTTP call, asks for nothing, and runs no tool
\* but one its user approved while it waited.
THEOREM AbortIsFinal == Spec => AbortedRunWindsDown
<1> DEFINE Winds == \A r \in aborted :
                      at'[r] # at[r] =>
                        \/ at'[r] \in {"loop", "done"}
                        \/ at'[r] = "exec" /\ \E q \in consented : request[q] = "pending" /\ asker[q] = r
<1>1. IInv /\ [Next]_vars => [Winds]_vars
  <2> SUFFICES ASSUME IInv, Next, NEW r \in aborted, at'[r] # at[r]
               PROVE  \/ at'[r] \in {"loop", "done"}
                      \/ at'[r] = "exec" /\ \E q \in consented : request[q] = "pending" /\ asker[q] = r
    OBVIOUS
  <2>0. /\ r \in Run /\ r \in Job /\ r \notin Chat /\ at[r] \in Busy \cup {"done"}
        /\ at \in [Job -> States] /\ Run \subseteq Job
    BY AgentAssumption DEF IInv, TypeOK, ControllersWork, States, Job
  <2>1. ASSUME NEW x \in Run, NEW shown, NEW states \in [Job -> States], NEW mail,
               states[r] = at[r], Begin(x, shown, states, mail)
        PROVE  FALSE
    BY <2>0, <2>1 DEF Begin, Post, Busy
  <2>2. CASE UserSteps \/ \E x \in Run : AttachmentsRead(x)
    BY <2>0, <2>1, <2>2 DEF UserSteps, SendMessage, QueueMessage, ClearQueue, Stop, ChangeChat,
                            TearDown, AnswerCommand, AttachmentsRead, Post, Busy
  <2>3. CASE FromMain
    <3>1. ASSUME NEW states \in [Job -> States], NEW mail, states[r] = at[r], FlushQueue(states, mail)
          PROVE  FALSE
      BY <2>1, <3>1 DEF FlushQueue
    <3>2. CASE RunAnswered
      <4>1. [at EXCEPT ![current] = "posted"] \in [Job -> States]
        BY <2>0 DEF States
      <4>2. [at EXCEPT ![current] = "posted"][r] = at[r]
        BY <2>0 DEF IInv, TypeOK
      <4> QED BY <2>0, <3>1, <3>2, <4>1, <4>2 DEF RunAnswered
    <3> QED BY <2>0, <2>3, <3>1, <3>2 DEF FromMain, CommandArrives, RunFailed, OtherSettles
  <2>4. ASSUME NEW c, NEW j, AbortRun(c, j), at' = Cut(c) \/ \E x \in Job \ {r} : \E place : at' = [Cut(c) EXCEPT ![x] = place]
        PROVE  at'[r] = "done"
    BY <2>0, <2>4 DEF Cut, Ended
  <2>5. CASE CancelReceived
    BY <2>4, <2>5 DEF CancelReceived
  <2>6. ASSUME toMain # << >>
        PROVE  Head(toMain) \in MainMessage /\ Honest(Head(toMain), at, chatOf, consented)
    <3>1. 1 \in DOMAIN toMain /\ toMain[1] = Head(toMain) /\ Head(toMain) \in MainMessage
      BY <2>6, HeadTail DEF IInv, TypeOK
    <3> QED BY <3>1 DEF IInv, MailOK
  <2>7. CASE SendReceived
    <3>1. /\ Head(toMain).type = "send" /\ Head(toMain).job \in Job
          /\ Honest(Head(toMain), at, chatOf, consented)
      BY <2>6, <2>7, MainMessages DEF SendReceived, MailFor
    <3>2. Head(toMain).job # r
      BY <2>0, <3>1 DEF Honest, Busy
    <3> QED BY <2>4, <2>7, <3>1, <3>2 DEF SendReceived
  <2>8. ASSUME NEW q \in Request, request[q] = "pending", NEW approved \in BOOLEAN,
               Resolve(q, approved), approved => q \in consented
        PROVE  \/ at'[r] \in {"loop", "done"}
               \/ at'[r] = "exec" /\ \E p \in consented : request[p] = "pending" /\ asker[p] = r
    BY <2>0, <2>8 DEF Resolve
  <2>9. CASE VerdictReceived
    <3>1. /\ Head(toMain).type \in {"approved", "rejected"} /\ Head(toMain).request \in Request
          /\ Honest(Head(toMain), at, chatOf, consented)
      BY <2>6, <2>9, MainMessages DEF VerdictReceived, MailFor
    <3> QED BY <2>8, <2>9, <3>1 DEF VerdictReceived, Honest
  <2>10. CASE \E q \in Request : ApprovalTimesOut(q)
    BY <2>8, <2>10 DEF ApprovalTimesOut
  <2>11. ASSUME NEW j \in Job, NEW outcome, Finish(j, outcome)
         PROVE  at'[r] = "done"
    BY <2>0, <2>11 DEF Finish, Ended
  <2>12. CASE \E j \in Job : HttpSettles(j)
    BY <2>0, <2>11, <2>12 DEF HttpSettles, AnswerArrives, ToolCallsArrive
  <2>13. CASE \E x \in Run : LoopGoesOn(x) \/ ToolEnds(x)
    BY <2>0, <2>11, <2>13 DEF LoopGoesOn, ToolEnds, SkipCall, CallTool, AskUser, MayCall,
                              LoopAborted, NextRound
  <2> QED BY <2>2, <2>3, <2>5, <2>7, <2>9, <2>10, <2>12, <2>13 DEF Next, FromRenderer
<1> QED BY <1>1, Invariance, PTL DEF Spec, AbortedRunWindsDown

-------------------------------------------------------------------------------
(* AiAgent implements ApprovalGate *)

\* A call that is answered or given up.
LEMMA ResolveSettles ==
  ASSUME IInv, NEW q \in Request, request[q] = "pending", NEW approved \in BOOLEAN,
         Resolve(q, approved), approved => q \in consented
  PROVE  Consent!GateNext
<1>1. /\ request' = [request EXCEPT ![q] = IF approved THEN "approved" ELSE "rejected"]
      /\ asker' = asker /\ consented' = consented
  BY DEF Resolve, rendererVars
<1>2. request \in [Request -> {"none", "pending", "approved", "rejected"}]
  BY DEF IInv, TypeOK
<1>3. Held[q] = "held" /\ Asked' = Asked /\ ByUser' = ByUser
  BY <1>1, <1>2 DEF Held, Asked, ByUser
<1>4. CASE approved
  <2>1. Held' = [Held EXCEPT ![q] = "accepted"]
    BY <1>1, <1>2, <1>4 DEF Held
  <2>2. <<q, "once">> \in ByUser
    BY <1>4 DEF ByUser
  <2>3. Consent!Admit(q)
    BY <1>1, <1>3, <2>1, <2>2 DEF Consent!Admit
  <2> QED BY <2>3 DEF Consent!GateNext
<1>5. CASE ~approved
  <2>1. Held' = [Held EXCEPT ![q] = "rejected"]
    BY <1>1, <1>2, <1>5 DEF Held
  <2>2. Consent!Refuse(q)
    BY <1>1, <1>3, <2>1 DEF Consent!Refuse
  <2> QED BY <2>2 DEF Consent!GateNext
<1> QED BY <1>4, <1>5

\* Every step of the agent is one of the gate, or none.
LEMMA GateStep == IInv /\ [Next]_vars => [Consent!GateNext]_(Consent!gateVars)
<1> SUFFICES ASSUME IInv, [Next]_vars
             PROVE  Consent!GateNext \/ UNCHANGED <<Held, asker, Asked, ByUser, {}>>
  BY DEF Consent!gateVars
<1>0. request \in [Request -> {"none", "pending", "approved", "rejected"}]
  BY DEF IInv, TypeOK
<1>1. CASE UNCHANGED <<request, asker, consented>>
  BY <1>1 DEF Held, Asked, ByUser
<1>2. ASSUME NEW r \in Run, NEW q \in Request, AskUser(r, q)
      PROVE  Consent!GateNext
  <2>1. /\ request[q] = "none" /\ request' = [request EXCEPT ![q] = "pending"]
        /\ asker' = [asker EXCEPT ![q] = r] /\ consented' = consented
    BY <1>2 DEF AskUser, rendererVars
  <2>2. Held[q] = "none" /\ Held' = [Held EXCEPT ![q] = "held"]
    BY <1>0, <2>1 DEF Held
  <2>3. Asked' = Asked \cup {q} /\ ByUser' = ByUser
    BY <1>0, <2>1 DEF Asked, ByUser
  <2>4. Consent!Arrive(q, r, TRUE)
    BY <2>1, <2>2, <2>3 DEF Consent!Arrive
  <2> QED BY <2>4 DEF Consent!GateNext
<1>3. ASSUME NEW yes \in BOOLEAN, AnswerCommand(yes)
      PROVE  Consent!GateNext \/ UNCHANGED <<Held, asker, Asked, ByUser, {}>>
  <2>1. /\ request' = request /\ asker' = asker /\ pendingCommand \in Request
        /\ consented' = IF yes THEN consented \cup {pendingCommand} ELSE consented
    BY <1>3 DEF AnswerCommand, mainVars, loopVars, IInv, TypeOK
  <2>2. Held' = Held /\ Asked' = Asked
    BY <2>1 DEF Held, Asked
  <2>3. CASE yes
    <3>1. ByUser' = ByUser \cup {<<pendingCommand, "once">>}
      BY <2>1, <2>3 DEF ByUser
    <3>2. Consent!Decide(pendingCommand, "once")
      BY <2>1, <2>2, <3>1 DEF Consent!Decide
    <3> QED BY <2>1, <3>2 DEF Consent!GateNext, Consent!Choice
  <2>4. CASE ~yes
    BY <2>1, <2>2, <2>4 DEF ByUser
  <2> QED BY <2>3, <2>4
<1>4. CASE VerdictReceived
  <2>1. /\ toMain # << >> /\ toMain \in Seq(MainMessage)
        /\ Head(toMain).type \in {"approved", "rejected"}
    BY <1>4 DEF VerdictReceived, MailFor, IInv, TypeOK
  <2>2. /\ Head(toMain).request \in Request
        /\ Honest(Head(toMain), at, chatOf, consented)
    BY <2>1, HeadTail, MainMessages DEF IInv, MailOK
  <2>3. CASE request[Head(toMain).request] = "pending"
    <3>1. Resolve(Head(toMain).request, Head(toMain).type = "approved")
      BY <1>4, <2>3 DEF VerdictReceived
    <3> QED BY <2>2, <2>3, <3>1, ResolveSettles DEF Honest
  <2>4. CASE request[Head(toMain).request] # "pending"
    BY <1>1, <1>4, <2>4 DEF VerdictReceived, rendererVars, mainVars, loopVars
  <2> QED BY <2>3, <2>4
<1>5. CASE \E q \in Request : ApprovalTimesOut(q)
  BY <1>5, ResolveSettles DEF ApprovalTimesOut
<1>6. CASE UserSteps \/ FromMain \/ \E r \in Run : AttachmentsRead(r)
  BY <1>1, <1>3, <1>6
  DEF UserSteps, SendMessage, QueueMessage, ClearQueue, Stop, ChangeChat, TearDown, FromMain,
      CommandArrives, RunAnswered, RunFailed, OtherSettles, AttachmentsRead, mainVars, loopVars
<1>7. CASE CancelReceived \/ SendReceived
  BY <1>1, <1>7 DEF CancelReceived, SendReceived, rendererVars, loopVars
<1>8. CASE \E r \in Run : LoopGoesOn(r) \/ ToolEnds(r)
  BY <1>1, <1>2, <1>8
  DEF LoopGoesOn, ToolEnds, SkipCall, CallTool, LoopAborted, NextRound, Finish, rendererVars,
      mainVars, loopVars
<1>9. CASE \E j \in Job : HttpSettles(j)
  BY <1>1, <1>9 DEF HttpSettles, AnswerArrives, ToolCallsArrive, Finish, rendererVars, loopVars
<1>10. CASE UNCHANGED vars
  BY <1>1, <1>10 DEF vars, rendererVars, mainVars, loopVars
<1> QED BY <1>4, <1>5, <1>6, <1>7, <1>8, <1>9, <1>10 DEF Next, FromRenderer

\* A gated tool runs only by the user's decision about that very call.
THEOREM ToolsNeedConsent == Spec => ToolConsent
<1>1. Init => Consent!GateInit
  BY DEF Init, Consent!GateInit, Held, Asked, ByUser
<1> QED BY <1>1, GateStep, Invariance, PTL DEF Spec, ToolConsent, Consent!GateSpec

-------------------------------------------------------------------------------
(*****************************************************************************)
(* Messages in order: no run goes on that the panel neither follows nor       *)
(* withdraws, and no run waits for an approval nobody can give.               *)
(*****************************************************************************)

\* What ends a run: the cancellation of its chat, or the next job of it.
Ends(m) == m.type \in {"cancel", "send"}

\* The panel follows a run of the chat it shows, and has sent nothing since the
\* message of that run that ends a run.
Chosen ==
  subscription \in Run =>
    /\ chatOf[subscription] = current /\ subscription \notin aborted
    /\ \A i \in DOMAIN toMain :
         Ends(toMain[i]) =>
           /\ at[subscription] = "posted"
           /\ \E k \in DOMAIN toMain : k >= i /\ toMain[k] = Send(subscription, chatOf[subscription])

\* The message of a posted run is on its way.
PostedMailed ==
  \A r \in Run : at[r] = "posted" => \E i \in DOMAIN toMain : toMain[i] = Send(r, chatOf[r])

\* A run whose end is on its way to the panel is over.
SettledDone ==
  \A i \in DOMAIN toRenderer :
    toRenderer[i].type = "settled" /\ toRenderer[i].job \in Run => at[toRenderer[i].job] = "done"

\* A request of the run the panel follows has its verdict on the way, or is the last
\* to reach the panel, or is in the banner with none behind it.
VerdictSent(q) == \E i \in DOMAIN toMain : toMain[i] \in {Approved(q), Rejected(q)}
LastAsked(q) ==
  \E i \in DOMAIN toRenderer :
    /\ toRenderer[i] = CommandPending(q)
    /\ \A k \in DOMAIN toRenderer : k > i => toRenderer[k].type # "pending"
Shown(q) == pendingCommand = q /\ \A k \in DOMAIN toRenderer : toRenderer[k].type # "pending"

RequestsPresented ==
  \A q \in Request :
    request[q] = "pending" /\ asker[q] = subscription => VerdictSent(q) \/ LastAsked(q) \/ Shown(q)

OInv == Chosen /\ PostedMailed /\ SettledDone /\ RunsFollowed /\ RequestsPresented

-------------------------------------------------------------------------------
(* Messages to main *)

LEMMA TailHas ==
  ASSUME NEW M, NEW s \in Seq(M), s # << >>, NEW k \in DOMAIN s, k # 1
  PROVE  k - 1 \in DOMAIN Tail(s) /\ Tail(s)[k - 1] = s[k] /\ k \in Nat /\ k >= 2
  OBVIOUS

\* More messages behind withdraw what was withdrawn.
LEMMA WithdrawnStays ==
  ASSUME NEW r, Withdrawn(r), toMain \in Seq(MainMessage), toMain' \in Seq(MainMessage),
         \A i \in DOMAIN toMain : i \in DOMAIN toMain' /\ toMain'[i] = toMain[i],
         at'[r] = "posted" => at[r] = "posted", chatOf'[r] = chatOf[r]
  PROVE  Withdrawn(r)'
<1>1. PICK i \in DOMAIN toMain :
        /\ toMain[i].type \in {"cancel", "send"} /\ toMain[i].chat = chatOf[r]
        /\ at[r] = "posted" => \E k \in 1..(i - 1) : toMain[k] = Send(r, chatOf[r])
  BY DEF Withdrawn
<1>2. \A k \in 1..(i - 1) : k \in DOMAIN toMain
  OBVIOUS
<1> QED BY <1>1, <1>2 DEF Withdrawn

\* Main takes a message: a run it ends was not followed, the others stay as they are.
LEMMA TakenOrder ==
  ASSUME IInv, Chosen, PostedMailed, RunsFollowed,
         toMain # << >>, toMain' = Tail(toMain),
         UNCHANGED <<subscription, current, chatOf>>,
         aborted' = IF Ends(Head(toMain))
                    THEN aborted \cup ({aiControllers[Head(toMain).chat]} \cap Run) ELSE aborted,
         \A r \in Run :
           IF Head(toMain).type = "send" /\ Head(toMain).job = r
           THEN at'[r] \in Busy \cup {"done"}
           ELSE at'[r] = at[r] \/ (at[r] \in Busy /\ at'[r] \in Busy \cup {"done"})
  PROVE  Chosen' /\ PostedMailed' /\ RunsFollowed'
<1> DEFINE m == Head(toMain)
           Starts(r) == m.type = "send" /\ m.job = r
<1>1. /\ toMain \in Seq(MainMessage) /\ MailOK(toMain, at, chatOf, consented)
      /\ subscription \in Run \cup {NoJob} /\ NoJob \notin Run /\ aborted \subseteq Run
  BY AgentAssumption DEF IInv, TypeOK, Job
<1>2. /\ m \in MainMessage /\ 1 \in DOMAIN toMain /\ toMain[1] = m
      /\ Tail(toMain) \in Seq(MainMessage)
      /\ \A i \in DOMAIN Tail(toMain) :
           i + 1 \in DOMAIN toMain /\ Tail(toMain)[i] = toMain[i + 1] /\ i \in Nat \ {0}
  BY <1>1, HeadTail
<1>3. \A k \in DOMAIN toMain : k # 1 =>
        k - 1 \in DOMAIN toMain' /\ toMain'[k - 1] = toMain[k] /\ k \in Nat /\ k >= 2
  BY <1>1, TailHas
<1>4. \A r \in Run : Starts(r) => at[r] = "posted"
  BY <1>1, <1>2 DEF MailOK, Honest
<1>5. \A r \in Run, c \in Chat : m = Send(r, c) => Starts(r)
  BY DEF Send
<1>6. ASSUME NEW r \in Run, at[r] = "posted", ~Starts(r), NEW k \in DOMAIN toMain,
             toMain[k] = Send(r, chatOf[r])
      PROVE  k # 1
  BY <1>2, <1>6 DEF Send
<1>7. \A r \in Run : ~Starts(r) =>
        at'[r] = at[r] \/ (at[r] \in Busy /\ at'[r] \in Busy \cup {"done"})
  OBVIOUS
<1>8. \A r \in Run : Starts(r) => at'[r] \in Busy \cup {"done"}
  OBVIOUS
<1>9. "posted" \notin Busy \cup {"done"}
  BY DEF Busy
<1> HIDE DEF Starts
<1>10. PostedMailed'
  <2> SUFFICES ASSUME NEW r \in Run, at'[r] = "posted"
               PROVE  \E i \in DOMAIN toMain' : toMain'[i] = Send(r, chatOf[r])
    BY DEF PostedMailed
  <2>1. ~Starts(r) /\ at[r] = "posted"
    BY <1>7, <1>8, <1>9
  <2>2. PICK k \in DOMAIN toMain : toMain[k] = Send(r, chatOf[r])
    BY <2>1 DEF PostedMailed
  <2>3. k # 1
    BY <1>6, <2>1, <2>2
  <2> QED BY <1>3, <2>2, <2>3
<1>11. ASSUME NEW r \in Run, at'[r] \in Busy \cup {"posted"}, r \notin aborted',
              subscription # r
       PROVE  Withdrawn(r)'
  <2>1. at[r] \in Busy \cup {"posted"} /\ r \notin aborted
    BY <1>4, <1>7, <1>11
  <2>2. PICK i \in DOMAIN toMain :
          /\ toMain[i].type \in {"cancel", "send"} /\ toMain[i].chat = chatOf[r]
          /\ at[r] = "posted" => \E k \in 1..(i - 1) : toMain[k] = Send(r, chatOf[r])
    BY <1>11, <2>1 DEF RunsFollowed, Withdrawn
  <2>3. i # 1
    <3> SUFFICES ASSUME i = 1 PROVE FALSE
      OBVIOUS
    <3>1. at[r] # "posted"
      BY <2>2
    <3>2. at[r] \in Busy
      BY <2>1, <3>1
    <3>3. r \in Job /\ r \notin Chat
      BY AgentAssumption DEF Job
    <3>4. aiControllers[chatOf[r]] = r
      BY <2>1, <3>2, <3>3 DEF IInv, ControllerCoversJob, ChatOf
    <3>5. Ends(m) /\ m.chat = chatOf[r]
      BY <1>2, <2>2 DEF Ends
    <3> QED BY <1>11, <3>4, <3>5
  <2>4. i - 1 \in DOMAIN toMain' /\ toMain'[i - 1] = toMain[i] /\ i \in Nat /\ i >= 2
    BY <1>3, <2>3
  <2>5. at'[r] = "posted" => \E k \in DOMAIN toMain' : k < i - 1 /\ toMain'[k] = Send(r, chatOf[r])
    <3> SUFFICES ASSUME at'[r] = "posted"
                 PROVE  \E k \in DOMAIN toMain' : k < i - 1 /\ toMain'[k] = Send(r, chatOf[r])
      OBVIOUS
    <3>1. ~Starts(r) /\ at[r] = "posted"
      BY <1>7, <1>8, <1>9
    <3>2. PICK k \in 1..(i - 1) : toMain[k] = Send(r, chatOf[r])
      BY <2>2, <3>1
    <3>3. k \in DOMAIN toMain
      BY <1>1, <2>4
    <3>4. k # 1
      BY <1>6, <3>1, <3>2, <3>3
    <3>5. k - 1 \in DOMAIN toMain' /\ toMain'[k - 1] = toMain[k] /\ k - 1 < i - 1
      BY <1>3, <2>4, <3>3, <3>4
    <3> QED BY <3>2, <3>5
  <2>6. \A k \in DOMAIN toMain' : k < i - 1 => k \in 1..((i - 1) - 1)
    BY <1>2, <2>4
  <2> QED BY <2>2, <2>4, <2>5, <2>6 DEF Withdrawn
<1>12. ASSUME subscription \in Run
       PROVE  subscription \notin aborted'
  <2>1. subscription \notin aborted
    BY <1>12 DEF Chosen
  <2>2. ASSUME Ends(m), aiControllers[m.chat] = subscription PROVE FALSE
    <3>1. at[subscription] = "posted"
      BY <1>2, <1>12, <2>2 DEF Chosen
    <3>2. m.chat \in Chat
      BY <1>2, <2>2, MainMessages DEF Ends
    <3>3. at[subscription] \in Busy
      BY <1>12, <2>2, <3>2 DEF IInv, ControllersWork
    <3> QED BY <1>9, <3>1, <3>3
  <2> QED BY <2>1, <2>2
<1>13. Chosen'
  <2> SUFFICES ASSUME subscription \in Run, NEW i \in DOMAIN toMain', Ends(toMain'[i])
               PROVE  /\ at'[subscription] = "posted"
                      /\ \E k \in DOMAIN toMain' :
                           k >= i /\ toMain'[k] = Send(subscription, chatOf[subscription])
    BY <1>12 DEF Chosen
  <2>1. i + 1 \in DOMAIN toMain /\ toMain'[i] = toMain[i + 1] /\ i \in Nat \ {0}
    BY <1>2
  <2>2. PICK k \in DOMAIN toMain :
          k >= i + 1 /\ toMain[k] = Send(subscription, chatOf[subscription])
    BY <2>1 DEF Chosen
  <2>3. at[subscription] = "posted"
    BY <2>1 DEF Chosen
  <2>4. k # 1 /\ k \in Nat
    BY <1>1, <2>1, <2>2
  <2>5. ~Starts(subscription)
    <3> SUFFICES ASSUME Starts(subscription) PROVE FALSE
      OBVIOUS
    <3>1. toMain[k].type = "send" /\ toMain[k].job = subscription
      BY <2>2 DEF Send
    <3> QED BY <1>1, <1>2, <2>4, <3>1 DEF MailOK, SentOnce, Starts
  <2>6. at'[subscription] = "posted"
    BY <1>7, <1>9, <2>3, <2>5
  <2>7. k - 1 \in DOMAIN toMain' /\ toMain'[k - 1] = toMain[k] /\ k - 1 >= i
    BY <1>3, <2>1, <2>2, <2>4
  <2> QED BY <2>2, <2>6, <2>7
<1>14. subscription \notin aborted'
  BY <1>1, <1>12
<1> QED BY <1>10, <1>11, <1>13, <1>14 DEF RunsFollowed

\* Nothing that ends a run is sent, and runs go from work to work or end.
LEMMA StillOrder ==
  ASSUME IInv, Chosen, PostedMailed, RunsFollowed, toMain' \in Seq(MainMessage),
         \A i \in DOMAIN toMain : i \in DOMAIN toMain' /\ toMain'[i] = toMain[i],
         \A i \in DOMAIN toMain' : Ends(toMain'[i]) => i \in DOMAIN toMain,
         UNCHANGED <<subscription, current, chatOf, aborted>>,
         \A r \in Run : at'[r] = at[r] \/ (at[r] \in Busy /\ at'[r] \in Busy \cup {"done"})
  PROVE  Chosen' /\ PostedMailed' /\ RunsFollowed'
<1>1. toMain \in Seq(MainMessage) /\ "posted" \notin Busy \cup {"done"}
  BY DEF IInv, TypeOK, Busy
<1>2. \A r \in Run : at'[r] = "posted" <=> at[r] = "posted"
  BY <1>1
<1>3. PostedMailed'
  BY <1>2 DEF PostedMailed
<1>4. ASSUME NEW r \in Run, at'[r] \in Busy \cup {"posted"}, r \notin aborted, subscription # r
      PROVE  Withdrawn(r)'
  <2>1. at[r] \in Busy \cup {"posted"}
    BY <1>4
  <2>2. Withdrawn(r)
    BY <1>4, <2>1 DEF RunsFollowed
  <2> QED BY <1>1, <1>2, <2>2, WithdrawnStays
<1>5. Chosen'
  <2> SUFFICES ASSUME subscription \in Run, NEW i \in DOMAIN toMain', Ends(toMain'[i])
               PROVE  /\ at'[subscription] = "posted"
                      /\ \E k \in DOMAIN toMain' :
                           k >= i /\ toMain'[k] = Send(subscription, chatOf[subscription])
    BY DEF Chosen
  <2>1. i \in DOMAIN toMain /\ Ends(toMain[i])
    OBVIOUS
  <2> QED BY <1>2, <2>1 DEF Chosen
<1> QED BY <1>3, <1>4, <1>5 DEF RunsFollowed

\* The panel turns to another run or to none, and tells main to end the one before.
LEMMA TurnOrder ==
  ASSUME IInv, IInv', Chosen, PostedMailed, RunsFollowed,
         \A i \in DOMAIN toMain : i \in DOMAIN toMain' /\ toMain'[i] = toMain[i],
         aborted' = aborted,
         \A r \in Run : at[r] \notin {"free", "reading"} => at'[r] = at[r] /\ chatOf'[r] = chatOf[r],
         \A r \in Run : at[r] \in {"free", "reading"} =>
           at'[r] \in {"free", "reading"} \/ (subscription' = r /\ at'[r] = "posted"),
         subscription' \in Run =>
           /\ at[subscription'] \in {"free", "reading"} /\ at'[subscription'] = "posted"
           /\ chatOf'[subscription'] = current /\ current' = current
           /\ Len(toMain') \in DOMAIN toMain'
           /\ toMain'[Len(toMain')] = Send(subscription', current),
         subscription \in Run /\ at[subscription] \in Busy \cup {"posted"} =>
           \E i \in DOMAIN toMain' :
             i \notin DOMAIN toMain /\ Ends(toMain'[i]) /\ toMain'[i].chat = current
  PROVE  Chosen' /\ PostedMailed' /\ RunsFollowed' /\ RequestsPresented'
<1> DEFINE s == subscription'
<1>1. /\ toMain \in Seq(MainMessage) /\ toMain' \in Seq(MainMessage) /\ aborted \subseteq Run
      /\ s \in Run \cup {NoJob} /\ NoJob \notin Run
  BY AgentAssumption DEF IInv, TypeOK, Job
<1>2. {"free", "reading"} \cap (Busy \cup {"posted", "done"}) = {}
  BY DEF Busy
<1>3. s \notin aborted'
  <2>1. \A r \in aborted : at[r] \in Busy \cup {"done"}
    BY DEF IInv, ControllersWork
  <2> QED BY <1>1, <1>2, <2>1
<1>4. Chosen'
  <2>1. \A i \in DOMAIN toMain' : Len(toMain') >= i
    BY <1>1
  <2> QED BY <1>3, <2>1 DEF Chosen
<1>5. PostedMailed'
  <2> SUFFICES ASSUME NEW r \in Run, at'[r] = "posted"
               PROVE  \E i \in DOMAIN toMain' : toMain'[i] = Send(r, chatOf'[r])
    BY DEF PostedMailed
  <2>1. CASE at[r] \in {"free", "reading"}
    BY <1>2, <2>1
  <2>2. CASE at[r] \notin {"free", "reading"}
    BY <2>2 DEF PostedMailed
  <2> QED BY <2>1, <2>2
<1>6. ASSUME NEW r \in Run, at'[r] \in Busy \cup {"posted"}, r \notin aborted, s # r
      PROVE  Withdrawn(r)'
  <2>1. at[r] \notin {"free", "reading"}
    BY <1>2, <1>6
  <2>2. at'[r] = at[r] /\ chatOf'[r] = chatOf[r]
    BY <2>1
  <2>3. CASE Withdrawn(r)
    BY <1>1, <2>2, <2>3, WithdrawnStays
  <2>4. CASE subscription = r
    <3>1. PICK i \in DOMAIN toMain' :
            i \notin DOMAIN toMain /\ Ends(toMain'[i]) /\ toMain'[i].chat = current
      BY <1>6, <2>2, <2>4
    <3>2. chatOf'[r] = current
      BY <2>2, <2>4 DEF Chosen
    <3>3. at'[r] = "posted" => \E k \in DOMAIN toMain' : k < i /\ toMain'[k] = Send(r, chatOf'[r])
      <4> SUFFICES ASSUME at'[r] = "posted"
                   PROVE  \E k \in DOMAIN toMain' : k < i /\ toMain'[k] = Send(r, chatOf'[r])
        OBVIOUS
      <4>1. PICK k \in DOMAIN toMain : toMain[k] = Send(r, chatOf[r])
        BY <2>2 DEF PostedMailed
      <4>2. k < i
        BY <1>1, <3>1
      <4> QED BY <2>2, <4>1, <4>2
    <3>4. \A k \in DOMAIN toMain' : k < i => k \in 1..(i - 1)
      BY <1>1
    <3> QED BY <3>1, <3>2, <3>3, <3>4 DEF Withdrawn, Ends
  <2> QED BY <1>6, <2>2, <2>3, <2>4 DEF RunsFollowed
<1>7. RequestsPresented'
  <2> SUFFICES ASSUME NEW q \in Request, request'[q] = "pending", asker'[q] = s PROVE FALSE
    BY DEF RequestsPresented
  <2>1. s \in Run /\ at'[s] = "approval"
    BY DEF IInv, RequestsHold
  <2> QED BY <2>1
<1> QED BY <1>3, <1>4, <1>5, <1>6, <1>7 DEF RunsFollowed

-------------------------------------------------------------------------------
(* Messages to the panel *)

\* An end that is new to the panel's queue is the end of a run that is over.
LEMMA SettledKept ==
  ASSUME SettledDone,
         \A i \in DOMAIN toRenderer' :
           toRenderer'[i].type = "settled" /\ toRenderer'[i].job \in Run =>
             \/ at'[toRenderer'[i].job] = "done"
             \/ \E k \in DOMAIN toRenderer : toRenderer[k] = toRenderer'[i],
         \A r \in Run : at[r] = "done" => at'[r] = "done"
  PROVE  SettledDone'
BY DEF SettledDone

\* The panel takes a message.
LEMMA SettledTaken ==
  ASSUME IInv, SettledDone, toRenderer # << >>, toRenderer' = Tail(toRenderer),
         \A r \in Run : at[r] = "done" => at'[r] = "done"
  PROVE  SettledDone'
<1>1. toRenderer \in Seq(RendererMessage)
  BY DEF IInv, TypeOK
<1>2. \A i \in DOMAIN toRenderer' :
        i + 1 \in DOMAIN toRenderer /\ toRenderer'[i] = toRenderer[i + 1]
  BY <1>1, HeadTail
<1> QED BY <1>2, SettledKept

\* A queue with nothing new that asks: what was last, or shown, still is.
LEMMA AskedStays ==
  ASSUME \A i \in DOMAIN toRenderer : i \in DOMAIN toRenderer' /\ toRenderer'[i] = toRenderer[i],
         \A i \in DOMAIN toRenderer' : toRenderer'[i].type = "pending" => i \in DOMAIN toRenderer,
         NEW q
  PROVE  /\ LastAsked(q) => LastAsked(q)'
         /\ Shown(q) /\ pendingCommand' = pendingCommand => Shown(q)'
<1>1. ASSUME LastAsked(q) PROVE LastAsked(q)'
  <2>1. PICK i \in DOMAIN toRenderer :
          /\ toRenderer[i] = CommandPending(q)
          /\ \A k \in DOMAIN toRenderer : k > i => toRenderer[k].type # "pending"
    BY <1>1 DEF LastAsked
  <2>2. i \in DOMAIN toRenderer' /\ toRenderer'[i] = CommandPending(q)
    BY <2>1
  <2>3. \A k \in DOMAIN toRenderer' : k > i => toRenderer'[k].type # "pending"
    BY <2>1
  <2> QED BY <2>2, <2>3 DEF LastAsked
<1>2. Shown(q) /\ pendingCommand' = pendingCommand => Shown(q)'
  BY DEF Shown
<1> QED BY <1>1, <1>2

\* The panel takes a message that does not ask, or takes the question to the banner.
LEMMA AskedTaken ==
  ASSUME toRenderer \in Seq(RendererMessage), toRenderer # << >>,
         toRenderer' = Tail(toRenderer), NEW q
  PROVE  /\ Shown(q) /\ pendingCommand' = pendingCommand => Shown(q)'
         /\ Head(toRenderer).type = "pending" => ~Shown(q)
         /\ LastAsked(q) /\ Head(toRenderer).type # "pending" => LastAsked(q)'
         /\ LastAsked(q) /\ pendingCommand' = Head(toRenderer).request
              => LastAsked(q)' \/ Shown(q)'
<1>1. /\ 1 \in DOMAIN toRenderer /\ toRenderer[1] = Head(toRenderer)
      /\ \A i \in DOMAIN toRenderer' :
           i + 1 \in DOMAIN toRenderer /\ toRenderer'[i] = toRenderer[i + 1] /\ i \in Nat \ {0}
  BY HeadTail
<1>2. Shown(q) /\ pendingCommand' = pendingCommand => Shown(q)'
  BY <1>1 DEF Shown
<1>3. Head(toRenderer).type = "pending" => ~Shown(q)
  BY <1>1 DEF Shown
<1>4. ASSUME LastAsked(q)
      PROVE  \/ LastAsked(q)'
             \/ /\ Head(toRenderer) = CommandPending(q)
                /\ \A k \in DOMAIN toRenderer' : toRenderer'[k].type # "pending"
  <2>1. PICK i \in DOMAIN toRenderer :
          /\ toRenderer[i] = CommandPending(q)
          /\ \A k \in DOMAIN toRenderer : k > i => toRenderer[k].type # "pending"
    BY <1>4 DEF LastAsked
  <2>2. i \in Nat \ {0}
    OBVIOUS
  <2>3. \A k \in DOMAIN toRenderer' : k + 1 > i => toRenderer'[k].type # "pending"
    BY <1>1, <2>1
  <2>4. CASE i = 1
    BY <1>1, <2>1, <2>3, <2>4
  <2>5. CASE i # 1
    <3>1. i - 1 \in DOMAIN toRenderer' /\ toRenderer'[i - 1] = toRenderer[i]
      BY <2>5, TailHas
    <3>2. \A k \in DOMAIN toRenderer' : k > i - 1 => toRenderer'[k].type # "pending"
      BY <1>1, <2>2, <2>3
    <3> QED BY <2>1, <3>1, <3>2 DEF LastAsked
  <2> QED BY <2>4, <2>5
<1>5. CommandPending(q).type = "pending" /\ CommandPending(q).request = q
  BY DEF CommandPending
<1>6. LastAsked(q) /\ Head(toRenderer).type # "pending" => LastAsked(q)'
  BY <1>4, <1>5
<1>7. LastAsked(q) /\ pendingCommand' = Head(toRenderer).request => LastAsked(q)' \/ Shown(q)'
  BY <1>4, <1>5 DEF Shown
<1> QED BY <1>2, <1>3, <1>6, <1>7

\* A verdict on its way stays until main takes it.
LEMMA VerdictStays ==
  ASSUME toMain \in Seq(MainMessage), NEW q,
         \/ \A i \in DOMAIN toMain : i \in DOMAIN toMain' /\ toMain'[i] = toMain[i]
         \/ /\ toMain # << >> /\ toMain' = Tail(toMain)
            /\ Head(toMain) \notin {Approved(q), Rejected(q)},
         VerdictSent(q)
  PROVE  VerdictSent(q)'
<1>1. PICK i \in DOMAIN toMain : toMain[i] \in {Approved(q), Rejected(q)}
  BY DEF VerdictSent
<1>2. CASE \A k \in DOMAIN toMain : k \in DOMAIN toMain' /\ toMain'[k] = toMain[k]
  BY <1>1, <1>2 DEF VerdictSent
<1>3. CASE /\ toMain # << >> /\ toMain' = Tail(toMain)
           /\ Head(toMain) \notin {Approved(q), Rejected(q)}
  <2>1. i # 1
    BY <1>1, <1>3, HeadTail
  <2>2. i - 1 \in DOMAIN toMain' /\ toMain'[i - 1] = toMain[i]
    BY <1>3, <2>1, TailHas
  <2> QED BY <1>1, <2>2 DEF VerdictSent
<1> QED BY <1>2, <1>3

-------------------------------------------------------------------------------
(* Steps of the panel *)

\* What stop() and clearToolProgress() send: first of all a cancellation.
LEMMA FarewellIs ==
  ASSUME NEW mail \in Seq(MainMessage), current \in Chat, NEW shown \in Request \cup {NoRequest}
  PROVE  LET M == mail \o Farewell(shown) IN
           /\ M \in Seq(MainMessage)
           /\ \A i \in DOMAIN mail : i \in DOMAIN M /\ M[i] = mail[i]
           /\ Len(mail) + 1 \in DOMAIN M /\ M[Len(mail) + 1] = Cancel(current)
<1> DEFINE A == Append(mail, Cancel(current))
           M == mail \o Farewell(shown)
<1>1. Cancel(current) \in MainMessage
  BY DEF MainMessage
<1>2. /\ A \in Seq(MainMessage)
      /\ \A i \in DOMAIN mail : i \in DOMAIN A /\ A[i] = mail[i]
      /\ Len(mail) + 1 \in DOMAIN A /\ A[Len(mail) + 1] = Cancel(current)
  BY <1>1
<1>3. CASE shown = NoRequest
  <2>1. M = A
    BY <1>1, <1>3, ConcatIs DEF Farewell
  <2> QED BY <1>2, <2>1
<1>4. CASE shown # NoRequest
  <2>1. Rejected(shown) \in MainMessage
    BY <1>4 DEF MainMessage
  <2>2. M = Append(A, Rejected(shown))
    BY <1>1, <2>1, <1>4, ConcatIs DEF Farewell
  <2> HIDE DEF A, M
  <2>3. /\ Append(A, Rejected(shown)) \in Seq(MainMessage)
        /\ \A i \in DOMAIN A : /\ i \in DOMAIN Append(A, Rejected(shown))
                               /\ Append(A, Rejected(shown))[i] = A[i]
    BY <1>2, <2>1
  <2> QED BY <1>2, <2>2, <2>3 DEF M
<1> QED BY <1>3, <1>4

\* A message that is sent: the cancellation, and the message of the new run at the end.
LEMMA BeginIs ==
  ASSUME TypeOK, NEW r \in Run, NEW shown \in Request \cup {NoRequest},
         NEW states, NEW mail \in Seq(MainMessage), Begin(r, shown, states, mail)
  PROVE  /\ at[r] = "free"
         /\ \A i \in DOMAIN mail : i \in DOMAIN toMain' /\ toMain'[i] = mail[i]
         /\ Len(mail) + 1 \in DOMAIN toMain' /\ toMain'[Len(mail) + 1] = Cancel(current)
         /\ \/ /\ at' = [states EXCEPT ![r] = "posted"] /\ chatOf' = [chatOf EXCEPT ![r] = current]
               /\ subscription' = r
               /\ Len(toMain') \in DOMAIN toMain' /\ toMain'[Len(toMain')] = Send(r, current)
            \/ /\ at' = [states EXCEPT ![r] = "reading"] /\ chatOf' = chatOf
               /\ subscription' = NoJob
<1> DEFINE M == mail \o Farewell(shown)
<1>1. current \in Chat /\ r \in Job
  BY DEF TypeOK, Job
<1>2. /\ M \in Seq(MainMessage)
      /\ \A i \in DOMAIN mail : i \in DOMAIN M /\ M[i] = mail[i]
      /\ Len(mail) + 1 \in DOMAIN M /\ M[Len(mail) + 1] = Cancel(current)
  BY <1>1, FarewellIs
<1>3. at[r] = "free"
  BY DEF Begin
<1>4. CASE Post(r, states, M)
  <2>1. toMain' = Append(M, Send(r, current)) /\ Send(r, current) \in MainMessage
    BY <1>1, <1>4 DEF Post, MainMessage
  <2>2. /\ at' = [states EXCEPT ![r] = "posted"] /\ chatOf' = [chatOf EXCEPT ![r] = current]
        /\ subscription' = r
    BY <1>4 DEF Post
  <2> HIDE DEF M
  <2>3. /\ \A i \in DOMAIN M : i \in DOMAIN toMain' /\ toMain'[i] = M[i]
        /\ Len(toMain') \in DOMAIN toMain' /\ toMain'[Len(toMain')] = Send(r, current)
    BY <1>2, <2>1
  <2> QED BY <1>2, <1>3, <2>2, <2>3
<1>5. CASE ~Post(r, states, M)
  <2>1. /\ at' = [states EXCEPT ![r] = "reading"] /\ chatOf' = chatOf
        /\ subscription' = NoJob /\ toMain' = M
    BY <1>5 DEF Begin
  <2> HIDE DEF M
  <2> QED BY <1>2, <1>3, <2>1
<1> QED BY <1>4, <1>5

\* Sending a message turns the panel to its run.
LEMMA BeginOrder ==
  ASSUME IInv, IInv', Chosen, PostedMailed, RunsFollowed,
         NEW r \in Run, NEW shown \in Request \cup {NoRequest},
         NEW states \in [Job -> States], NEW mail \in Seq(MainMessage),
         Begin(r, shown, states, mail), \A x \in Run : at[x] = states[x],
         \A i \in DOMAIN toMain : i \in DOMAIN mail /\ mail[i] = toMain[i],
         current' = current, aborted' = aborted
  PROVE  /\ Chosen' /\ PostedMailed' /\ RunsFollowed' /\ RequestsPresented'
         /\ \A x \in Run : at[x] = "done" => at'[x] = "done"
<1>1. /\ at[r] = "free"
      /\ \A i \in DOMAIN mail : i \in DOMAIN toMain' /\ toMain'[i] = mail[i]
      /\ Len(mail) + 1 \in DOMAIN toMain' /\ toMain'[Len(mail) + 1] = Cancel(current)
      /\ \/ /\ at' = [states EXCEPT ![r] = "posted"] /\ chatOf' = [chatOf EXCEPT ![r] = current]
            /\ subscription' = r
            /\ Len(toMain') \in DOMAIN toMain' /\ toMain'[Len(toMain')] = Send(r, current)
         \/ /\ at' = [states EXCEPT ![r] = "reading"] /\ chatOf' = chatOf
            /\ subscription' = NoJob
  BY BeginIs DEF IInv
<1>2. /\ toMain \in Seq(MainMessage) /\ chatOf \in [Run -> Chat \cup {NoChat}]
      /\ Run \subseteq Job /\ NoJob \notin Run
  BY AgentAssumption DEF IInv, TypeOK, Job
<1>3. /\ \A x \in Run \ {r} : at'[x] = at[x] /\ chatOf'[x] = chatOf[x]
      /\ at'[r] = "reading" \/ (subscription' = r /\ at'[r] = "posted")
      /\ subscription' \in Run => /\ subscription' = r /\ at'[r] = "posted" /\ chatOf'[r] = current
                                  /\ Len(toMain') \in DOMAIN toMain'
                                  /\ toMain'[Len(toMain')] = Send(r, current)
  BY <1>1, <1>2
<1>4. \A i \in DOMAIN toMain : i \in DOMAIN toMain' /\ toMain'[i] = toMain[i]
  BY <1>1
<1>5. /\ \A x \in Run : at[x] \notin {"free", "reading"} => at'[x] = at[x] /\ chatOf'[x] = chatOf[x]
      /\ \A x \in Run : at[x] \in {"free", "reading"} =>
           at'[x] \in {"free", "reading"} \/ (subscription' = x /\ at'[x] = "posted")
  BY <1>1, <1>3
<1>6. \E i \in DOMAIN toMain' : i \notin DOMAIN toMain /\ Ends(toMain'[i]) /\ toMain'[i].chat = current
  <2>1. Len(mail) + 1 \notin DOMAIN toMain
    OBVIOUS
  <2> QED BY <1>1, <2>1 DEF Cancel, Ends
<1>7. Chosen' /\ PostedMailed' /\ RunsFollowed' /\ RequestsPresented'
  BY <1>1, <1>3, <1>4, <1>5, <1>6, TurnOrder
<1> QED BY <1>5, <1>7

\* The run the panel followed is over, and the next message, if any, is sent.
LEMMA FlushOrder ==
  ASSUME IInv, IInv', Chosen, PostedMailed, RunsFollowed, at[subscription] = "done",
         NEW states \in [Job -> States], NEW mail \in Seq(MainMessage),
         FlushQueue(states, mail), \A x \in Run : at[x] = states[x],
         \A i \in DOMAIN toMain : i \in DOMAIN mail /\ mail[i] = toMain[i],
         current' = current, aborted' = aborted
  PROVE  /\ Chosen' /\ PostedMailed' /\ RunsFollowed' /\ RequestsPresented'
         /\ \A x \in Run : at[x] = "done" => at'[x] = "done"
<1>1. CASE pendingQueue > 0
  <2>1. PICK r \in Run : Begin(r, NoRequest, states, mail)
    BY <1>1 DEF FlushQueue
  <2> QED BY <2>1, BeginOrder
<1>2. CASE ~(pendingQueue > 0)
  <2>1. at' = states /\ toMain' = mail /\ chatOf' = chatOf /\ subscription' = NoJob
    BY <1>2 DEF FlushQueue
  <2>2. NoJob \notin Run /\ "done" \notin Busy \cup {"posted"}
    BY AgentAssumption DEF Job, Busy
  <2>3. Chosen' /\ PostedMailed' /\ RunsFollowed' /\ RequestsPresented'
    BY <2>1, <2>2, TurnOrder
  <2> QED BY <2>1, <2>3
<1> QED BY <1>1, <1>2

\* The panel turns to another run, or to none.
LEMMA PanelTurns ==
  ASSUME IInv, IInv', OInv,
         \/ \E r \in Run : SendMessage(r) \/ AttachmentsRead(r)
         \/ Stop \/ \E c \in Chat : ChangeChat(c)
         \/ RunAnswered \/ RunFailed
  PROVE  OInv'
<1> USE DEF OInv
<1>0. /\ current \in Chat /\ at \in [Job -> States] /\ toMain \in Seq(MainMessage)
      /\ pendingCommand \in Request \cup {NoRequest} /\ chatOf \in [Run -> Chat \cup {NoChat}]
      /\ toRenderer \in Seq(RendererMessage) /\ Run \subseteq Job /\ NoJob \notin Run
      /\ "done" \notin Busy \cup {"posted"}
  BY AgentAssumption DEF IInv, TypeOK, States, Job, Busy
<1>1. ASSUME NEW r \in Run, SendMessage(r) PROVE OInv'
  <2>1. /\ Begin(r, pendingCommand, at, toMain)
        /\ UNCHANGED <<current, toRenderer, aborted>>
    BY <1>1 DEF SendMessage, mainVars
  <2>2. /\ Chosen' /\ PostedMailed' /\ RunsFollowed' /\ RequestsPresented'
        /\ \A x \in Run : at[x] = "done" => at'[x] = "done"
    BY <1>0, <2>1, BeginOrder
  <2> QED BY <2>1, <2>2, SettledKept
<1>2. ASSUME NEW r \in Run, AttachmentsRead(r) PROVE OInv'
  <2>1. /\ at[r] = "reading" /\ at' = [at EXCEPT ![r] = "posted"]
        /\ chatOf' = [chatOf EXCEPT ![r] = current] /\ subscription' = r
        /\ toMain' = Append(toMain, Send(r, current))
        /\ UNCHANGED <<current, toRenderer, aborted>>
    BY <1>2 DEF AttachmentsRead, Post, mainVars
  <2>2. Send(r, current) \in MainMessage
    BY <1>0 DEF MainMessage
  <2>3. /\ \A i \in DOMAIN toMain : i \in DOMAIN toMain' /\ toMain'[i] = toMain[i]
        /\ Len(toMain') \in DOMAIN toMain' /\ toMain'[Len(toMain')] = Send(r, current)
        /\ Len(toMain') \notin DOMAIN toMain
    BY <1>0, <2>1, <2>2
  <2>4. Ends(Send(r, current)) /\ Send(r, current).chat = current
    BY DEF Send, Ends
  <2>5. \A x \in Run : /\ x # r => at'[x] = at[x] /\ chatOf'[x] = chatOf[x]
                       /\ x = r => at'[x] = "posted" /\ chatOf'[x] = current
    BY <1>0, <2>1
  <2>6. Chosen' /\ PostedMailed' /\ RunsFollowed' /\ RequestsPresented'
    BY <2>1, <2>3, <2>4, <2>5, TurnOrder
  <2> QED BY <2>1, <2>5, <2>6, SettledKept
<1>3. CASE Stop \/ \E c \in Chat : ChangeChat(c)
  <2>1. /\ toMain' = toMain \o Farewell(pendingCommand)
        /\ subscription' = NoJob /\ UNCHANGED <<at, chatOf, toRenderer, aborted>>
    BY <1>3 DEF Stop, ChangeChat, TearDown, mainVars
  <2>2. /\ \A i \in DOMAIN toMain : i \in DOMAIN toMain' /\ toMain'[i] = toMain[i]
        /\ Len(toMain) + 1 \in DOMAIN toMain' /\ toMain'[Len(toMain) + 1] = Cancel(current)
    BY <1>0, <2>1, FarewellIs
  <2>3. Len(toMain) + 1 \notin DOMAIN toMain /\ Ends(Cancel(current)) /\ Cancel(current).chat = current
    BY <1>0 DEF Cancel, Ends
  <2>4. Chosen' /\ PostedMailed' /\ RunsFollowed' /\ RequestsPresented'
    BY <1>0, <2>1, <2>2, <2>3, TurnOrder
  <2> QED BY <2>1, <2>4, SettledKept
<1>4. ASSUME NEW outcomes, SubscriptionSettles(outcomes), subscription \in Run
      PROVE  /\ at[subscription] = "done"
             /\ toRenderer # << >> /\ toRenderer' = Tail(toRenderer)
  <2>1. /\ toRenderer # << >> /\ toRenderer' = Tail(toRenderer)
        /\ Head(toRenderer).type = "settled" /\ Head(toRenderer).job = subscription
    BY <1>4 DEF SubscriptionSettles, Received
  <2>2. 1 \in DOMAIN toRenderer /\ toRenderer[1] = Head(toRenderer)
    BY <1>0, <2>1, HeadTail
  <2> QED BY <1>4, <2>1, <2>2 DEF SettledDone
<1>5. ASSUME NEW outcomes, SubscriptionSettles(outcomes) PROVE subscription \in Run
  <2>1. toRenderer # << >> /\ Head(toRenderer).type = "settled" /\ Head(toRenderer).job = subscription
    BY <1>5 DEF SubscriptionSettles, Received
  <2>2. Head(toRenderer) \in RendererMessage
    BY <1>0, <2>1, HeadTail
  <2>3. subscription \in Job
    BY <2>1, <2>2, RendererMessages
  <2> QED BY <2>3, AgentAssumption DEF IInv, TypeOK
<1>6. CASE RunAnswered
  <2>1. SubscriptionSettles({"answered"}) /\ UNCHANGED <<current, aborted>>
    BY <1>6 DEF RunAnswered, mainVars
  <2>2. at[subscription] = "done" /\ toRenderer # << >> /\ toRenderer' = Tail(toRenderer)
    BY <1>4, <1>5, <2>1
  <2>3. /\ Chosen' /\ PostedMailed' /\ RunsFollowed' /\ RequestsPresented'
        /\ \A x \in Run : at[x] = "done" => at'[x] = "done"
    <3>1. CASE current \in untitled
      <4> DEFINE S == [at EXCEPT ![current] = "posted"]
                 M == Append(toMain, Send(current, current))
      <4>1. FlushQueue(S, M)
        BY <1>6, <3>1 DEF RunAnswered
      <4>2. current \in Job /\ current \notin Run /\ Send(current, current) \in MainMessage
        BY <1>0, AgentAssumption DEF Job, MainMessage
      <4>3. /\ S \in [Job -> States] /\ \A x \in Run : at[x] = S[x]
            /\ M \in Seq(MainMessage)
            /\ \A i \in DOMAIN toMain : i \in DOMAIN M /\ M[i] = toMain[i]
        BY <1>0, <4>2 DEF States
      <4> HIDE DEF S, M
      <4> QED BY <2>1, <2>2, <4>1, <4>3, FlushOrder
    <3>2. CASE current \notin untitled
      <4>1. FlushQueue(at, toMain)
        BY <1>6, <3>2 DEF RunAnswered
      <4> QED BY <1>0, <2>1, <2>2, <4>1, FlushOrder
    <3> QED BY <3>1, <3>2
  <2> QED BY <2>2, <2>3, SettledTaken
<1>7. CASE RunFailed
  <2>1. /\ SubscriptionSettles({"failed", "empty", "cancelled"}) /\ UNCHANGED <<current, aborted>>
    BY <1>7 DEF RunFailed, mainVars
  <2>2. at[subscription] = "done" /\ toRenderer # << >> /\ toRenderer' = Tail(toRenderer)
    BY <1>4, <1>5, <2>1
  <2>3. /\ Chosen' /\ PostedMailed' /\ RunsFollowed' /\ RequestsPresented'
        /\ \A x \in Run : at[x] = "done" => at'[x] = "done"
    <3>1. CASE Head(toRenderer).outcome # "cancelled"
      <4>1. FlushQueue(at, toMain)
        BY <1>7, <3>1 DEF RunFailed
      <4> QED BY <1>0, <2>1, <2>2, <4>1, FlushOrder
    <3>2. CASE Head(toRenderer).outcome = "cancelled"
      <4>1. subscription' = NoJob /\ UNCHANGED <<toMain, at, chatOf>>
        BY <1>7, <3>2 DEF RunFailed
      <4>2. Chosen' /\ PostedMailed' /\ RunsFollowed' /\ RequestsPresented'
        BY <1>0, <2>1, <2>2, <4>1, TurnOrder
      <4> QED BY <4>1, <4>2
    <3> QED BY <3>1, <3>2
  <2> QED BY <2>2, <2>3, SettledTaken
<1> QED BY <1>1, <1>2, <1>3, <1>6, <1>7

\* The panel keeps to its run.
LEMMA PanelStays ==
  ASSUME IInv, IInv', OInv,
         \/ QueueMessage \/ ClearQueue \/ \E yes \in BOOLEAN : AnswerCommand(yes)
         \/ CommandArrives \/ OtherSettles
  PROVE  OInv'
<1> USE DEF OInv
<1>0. /\ toMain \in Seq(MainMessage) /\ toRenderer \in Seq(RendererMessage)
      /\ toMain' \in Seq(MainMessage)
      /\ NoJob \notin Run /\ pendingCommand \in Request \cup {NoRequest}
  BY AgentAssumption DEF IInv, TypeOK, Job
<1>1. UNCHANGED <<subscription, current, at, chatOf, aborted, request, asker>>
  BY DEF QueueMessage, ClearQueue, AnswerCommand, CommandArrives, OtherSettles, mainVars, loopVars
<1>2. UNCHANGED toMain => Chosen' /\ PostedMailed' /\ RunsFollowed'
  BY <1>0, <1>1, StillOrder
<1>3. CASE QueueMessage \/ ClearQueue
  <2>1. UNCHANGED <<toMain, toRenderer, pendingCommand>>
    BY <1>3 DEF QueueMessage, ClearQueue
  <2>2. SettledDone'
    BY <1>1, <2>1, SettledKept
  <2>3. RequestsPresented'
    BY <1>1, <2>1 DEF RequestsPresented, VerdictSent, LastAsked, Shown
  <2> QED BY <1>2, <2>1, <2>2, <2>3
<1>4. ASSUME NEW yes \in BOOLEAN, AnswerCommand(yes) PROVE OInv'
  <2> DEFINE m == IF yes THEN Approved(pendingCommand) ELSE Rejected(pendingCommand)
  <2>1. pendingCommand \in Request /\ toMain' = Append(toMain, m) /\ UNCHANGED toRenderer
    BY <1>0, <1>4 DEF AnswerCommand
  <2>2. m \in MainMessage /\ ~Ends(m) /\ m \in {Approved(pendingCommand), Rejected(pendingCommand)}
    BY <2>1 DEF MainMessage, Approved, Rejected, Ends
  <2> HIDE DEF m
  <2>3. /\ toMain' \in Seq(MainMessage)
        /\ \A i \in DOMAIN toMain : i \in DOMAIN toMain' /\ toMain'[i] = toMain[i]
        /\ \A i \in DOMAIN toMain' : Ends(toMain'[i]) => i \in DOMAIN toMain
        /\ Len(toMain') \in DOMAIN toMain' /\ toMain'[Len(toMain')] = m
    BY <1>0, <2>1, <2>2, AppendIs
  <2>4. Chosen' /\ PostedMailed' /\ RunsFollowed'
    BY <1>1, <2>3, StillOrder
  <2>5. SettledDone'
    BY <1>1, <2>1, SettledKept
  <2>6. ASSUME NEW q \in Request, request[q] = "pending", asker[q] = subscription
        PROVE  VerdictSent(q)' \/ LastAsked(q)'
    <3>1. CASE VerdictSent(q)
      BY <1>0, <2>3, <3>1, VerdictStays
    <3>2. CASE LastAsked(q)
      BY <2>1, <3>2 DEF LastAsked
    <3>3. CASE Shown(q)
      BY <2>2, <2>3, <3>3 DEF Shown, VerdictSent
    <3> QED BY <2>6, <3>1, <3>2, <3>3 DEF RequestsPresented
  <2>7. RequestsPresented'
    BY <1>1, <2>6 DEF RequestsPresented
  <2> QED BY <2>4, <2>5, <2>7
<1>5. CASE CommandArrives \/ OtherSettles
  <2>1. /\ toRenderer # << >> /\ toRenderer' = Tail(toRenderer) /\ UNCHANGED toMain
        /\ \/ /\ Head(toRenderer).type = "pending"
              /\ subscription # NoJob => pendingCommand' = Head(toRenderer).request
           \/ /\ Head(toRenderer).type = "settled"
              /\ pendingCommand' = pendingCommand
    BY <1>5 DEF CommandArrives, OtherSettles, Received
  <2>2. SettledDone'
    BY <1>1, <2>1, SettledTaken
  <2>3. ASSUME NEW q \in Request, request[q] = "pending", asker[q] = subscription
        PROVE  VerdictSent(q)' \/ LastAsked(q)' \/ Shown(q)'
    <3>1. subscription # NoJob
      BY <1>0, <2>3 DEF IInv, RequestsHold
    <3>2. CASE VerdictSent(q)
      BY <2>1, <3>2 DEF VerdictSent
    <3>3. CASE LastAsked(q)
      BY <1>0, <2>1, <3>1, <3>3, AskedTaken
    <3>4. CASE Shown(q)
      BY <1>0, <2>1, <3>4, AskedTaken
    <3> QED BY <2>3, <3>2, <3>3, <3>4 DEF RequestsPresented
  <2>4. RequestsPresented'
    BY <1>1, <2>3 DEF RequestsPresented
  <2> QED BY <1>2, <2>1, <2>2, <2>4
<1> QED BY <1>3, <1>4, <1>5

-------------------------------------------------------------------------------
(* Steps of main *)

\* The requests stay before the user while nothing is asked and nothing is shown
\* or hidden.
LEMMA RequestsKept ==
  ASSUME RequestsPresented, UNCHANGED <<subscription, asker, pendingCommand>>,
         \A i \in DOMAIN toRenderer : i \in DOMAIN toRenderer' /\ toRenderer'[i] = toRenderer[i],
         \A i \in DOMAIN toRenderer' : toRenderer'[i].type = "pending" => i \in DOMAIN toRenderer,
         \A q \in Request : request'[q] = "pending" =>
           request[q] = "pending" /\ (VerdictSent(q) => VerdictSent(q)')
  PROVE  RequestsPresented'
<1> SUFFICES ASSUME NEW q \in Request, request'[q] = "pending", asker[q] = subscription
             PROVE  VerdictSent(q)' \/ LastAsked(q)' \/ Shown(q)'
  BY DEF RequestsPresented
<1>1. request[q] = "pending" /\ (VerdictSent(q) => VerdictSent(q)')
  OBVIOUS
<1>2. VerdictSent(q) \/ LastAsked(q) \/ Shown(q)
  BY <1>1 DEF RequestsPresented
<1>3. LastAsked(q) => LastAsked(q)'
  BY AskedStays
<1>4. Shown(q) => Shown(q)'
  BY AskedStays
<1> QED BY <1>1, <1>2, <1>3, <1>4

\* An abort ends the job at once when it waits for the model, and tells the panel.
LEMMA CutIs ==
  ASSUME IInv, NEW c \in Chat
  PROVE  /\ CutNotice(c) \in Seq(RendererMessage) /\ Cut(c) \in [Job -> States]
         /\ \A r \in Run : Cut(c)[r] = at[r] \/ (at[r] = "http" /\ Cut(c)[r] = "done")
         /\ \A i \in DOMAIN toRenderer :
              i \in DOMAIN CutNotice(c) /\ CutNotice(c)[i] = toRenderer[i]
         /\ \A i \in DOMAIN CutNotice(c) :
              \/ i \in DOMAIN toRenderer
              \/ /\ CutNotice(c)[i].type = "settled"
                 /\ CutNotice(c)[i].job \in Run =>
                      at[CutNotice(c)[i].job] = "http" /\ Cut(c)[CutNotice(c)[i].job] = "done"
<1> DEFINE a == aiControllers[c]
<1>0. /\ toRenderer \in Seq(RendererMessage) /\ at \in [Job -> States] /\ Run \subseteq Job
      /\ Run \cap Chat = {}
  BY AgentAssumption DEF IInv, TypeOK, States, Job
<1>1. /\ Cut(c) \in [Job -> States]
      /\ \A r \in Run : Cut(c)[r] = at[r] \/ (at[r] = "http" /\ Cut(c)[r] = "done")
      /\ a \in Run /\ at[a] = "http" => Cut(c)[a] = "done"
  BY <1>0 DEF Cut, Ended, States, Busy
<1>2. CASE \E j \in Job : j = a /\ at[j] = "http"
  <2> DEFINE s == Settled(a, "cancelled")
  <2>1. /\ s \in RendererMessage /\ s.type = "settled" /\ s.job = a
        /\ CutNotice(c) = Append(toRenderer, s) /\ at[a] = "http"
    BY <1>2 DEF RendererMessage, Outcome, Settled, CutNotice
  <2> HIDE DEF s
  <2>2. /\ \A i \in DOMAIN toRenderer :
             i \in DOMAIN Append(toRenderer, s) /\ Append(toRenderer, s)[i] = toRenderer[i]
        /\ Append(toRenderer, s) \in Seq(RendererMessage)
        /\ \A i \in DOMAIN Append(toRenderer, s) :
             i \in DOMAIN toRenderer \/ Append(toRenderer, s)[i] = s
    BY <1>0, <2>1, AppendIs
  <2> HIDE DEF a
  <2> QED BY <1>1, <2>1, <2>2
<1>3. CASE ~\E j \in Job : j = a /\ at[j] = "http"
  BY <1>0, <1>1, <1>3 DEF CutNotice
<1> QED BY <1>2, <1>3

\* Main takes a message of the panel.
LEMMA MainTakes ==
  ASSUME IInv, OInv, FromRenderer
  PROVE  OInv'
<1> USE DEF OInv
<1> DEFINE m == Head(toMain)
<1>0. /\ toMain \in Seq(MainMessage) /\ toRenderer \in Seq(RendererMessage)
      /\ at \in [Job -> States] /\ Run \subseteq Job /\ "done" \notin Busy \cup {"posted"}
  BY AgentAssumption DEF IInv, TypeOK, States, Job, Busy
<1>1. toMain # << >> /\ toMain' = Tail(toMain)
  BY DEF FromRenderer, CancelReceived, SendReceived, VerdictReceived, MailFor
<1>2. m \in MainMessage /\ Honest(m, at, chatOf, consented)
  <2>1. m \in MainMessage /\ 1 \in DOMAIN toMain /\ toMain[1] = m
    BY <1>0, <1>1, HeadTail
  <2> QED BY <2>1 DEF IInv, MailOK
<1>3. CASE CancelReceived \/ SendReceived
  <2> DEFINE c == m.chat
             Starts(r) == m.type = "send" /\ m.job = r
  <2>1. /\ m.type \in {"cancel", "send"} /\ c \in Chat
        /\ m.type = "send" => m.job \in Job
        /\ m.type = "cancel" => CancelReceived
        /\ m.type = "send" => SendReceived
    BY <1>2, <1>3, MainMessages DEF CancelReceived, SendReceived, MailFor
  <2>2. /\ Ends(m) /\ UNCHANGED <<rendererVars, chatOf, loopVars>>
        /\ aborted' = aborted \cup ({aiControllers[c]} \cap Run)
    BY <1>3, <2>1 DEF CancelReceived, SendReceived, AbortRun, Ends
  <2>3. /\ CutNotice(c) \in Seq(RendererMessage) /\ Cut(c) \in [Job -> States]
        /\ \A r \in Run : Cut(c)[r] = at[r] \/ (at[r] = "http" /\ Cut(c)[r] = "done")
        /\ \A i \in DOMAIN toRenderer :
             i \in DOMAIN CutNotice(c) /\ CutNotice(c)[i] = toRenderer[i]
        /\ \A i \in DOMAIN CutNotice(c) :
             \/ i \in DOMAIN toRenderer
             \/ /\ CutNotice(c)[i].type = "settled"
                /\ CutNotice(c)[i].job \in Run =>
                     at[CutNotice(c)[i].job] = "http" /\ Cut(c)[CutNotice(c)[i].job] = "done"
    BY <2>1, CutIs
  <2>4. \A r \in Run : /\ Starts(r) => at[r] = "posted" /\ at'[r] \in {"http", "done"}
                       /\ ~Starts(r) => at'[r] = Cut(c)[r]
    <3>1. CASE m.type = "cancel"
      <4>1. at' = Cut(c)
        BY <2>1, <3>1 DEF CancelReceived
      <4> QED BY <3>1, <4>1
    <3>2. CASE m.type = "send"
      <4>1. PICK place \in {"http", "done"} : at' = [Cut(c) EXCEPT ![m.job] = place]
        BY <2>1, <3>2 DEF SendReceived
      <4>2. \A r \in Run : Starts(r) => at[r] = "posted"
        BY <1>2 DEF Honest
      <4>3. \A r \in Run : at'[r] = IF m.job = r THEN place ELSE Cut(c)[r]
        <5> HIDE DEF m, c
        <5> QED BY <1>0, <2>3, <4>1
      <4> QED BY <3>2, <4>2, <4>3
    <3> QED BY <2>1, <3>1, <3>2
  <2>5. \A r \in Run : IF Starts(r) THEN at'[r] \in Busy \cup {"done"}
                       ELSE at'[r] = at[r] \/ (at[r] \in Busy /\ at'[r] \in Busy \cup {"done"})
    BY <2>3, <2>4 DEF Busy
  <2>6. /\ \A i \in DOMAIN toRenderer :
             i \in DOMAIN toRenderer' /\ toRenderer'[i] = toRenderer[i]
        /\ \A i \in DOMAIN toRenderer' :
             \/ i \in DOMAIN toRenderer
             \/ /\ toRenderer'[i].type = "settled"
                /\ toRenderer'[i].job \in Run => at'[toRenderer'[i].job] = "done"
    <3>1. CASE toRenderer' = CutNotice(c)
      <4>1. \A r \in Run : at[r] = "http" /\ Cut(c)[r] = "done" => at'[r] = "done"
        BY <2>4
      <4> QED BY <2>3, <3>1, <4>1
    <3>2. CASE /\ m.job \in Run /\ at' = [Cut(c) EXCEPT ![m.job] = "done"]
               /\ toRenderer' = Append(CutNotice(c), Settled(m.job, "answered"))
      <4> DEFINE s == Settled(m.job, "answered")
                 N == CutNotice(c)
      <4>1. /\ s \in RendererMessage /\ s.type = "settled" /\ s.job = m.job
            /\ at'[m.job] = "done"
        BY <1>0, <2>3, <3>2 DEF RendererMessage, Outcome, Settled
      <4>2. \A r \in Run : at[r] = "http" /\ Cut(c)[r] = "done" => at'[r] = "done"
        BY <2>4
      <4> HIDE DEF s, N
      <4>3. /\ \A i \in DOMAIN N : i \in DOMAIN Append(N, s) /\ Append(N, s)[i] = N[i]
            /\ \A i \in DOMAIN Append(N, s) : i \in DOMAIN N \/ Append(N, s)[i] = s
        BY <2>3, <4>1 DEF N
      <4>4. toRenderer' = Append(N, s)
        BY <3>2 DEF N, s
      <4>5. \A i \in DOMAIN N :
              \/ i \in DOMAIN toRenderer
              \/ N[i].type = "settled" /\ (N[i].job \in Run => at'[N[i].job] = "done")
        BY <2>3, <4>2 DEF N
      <4>6. \A i \in DOMAIN toRenderer : i \in DOMAIN N /\ N[i] = toRenderer[i]
        BY <2>3 DEF N
      <4> QED BY <4>1, <4>3, <4>4, <4>5, <4>6
    <3> QED BY <1>3, <3>1, <3>2 DEF CancelReceived, SendReceived
  <2>7. Chosen' /\ PostedMailed' /\ RunsFollowed'
    BY <1>1, <2>2, <2>5, TakenOrder DEF rendererVars
  <2>8. SettledDone'
    <3>1. \A r \in Run : at[r] = "done" => at'[r] = "done"
      BY <2>3, <2>4
    <3> QED BY <2>6, <3>1, SettledKept
  <2>9. ASSUME NEW q \in Request, VerdictSent(q) PROVE VerdictSent(q)'
    <3>1. m \notin {Approved(q), Rejected(q)}
      BY <2>1 DEF Approved, Rejected
    <3> QED BY <1>0, <1>1, <2>9, <3>1, VerdictStays
  <2>10. RequestsPresented'
    BY <2>2, <2>6, <2>9, RequestsKept DEF rendererVars, loopVars
  <2> QED BY <2>7, <2>8, <2>10
<1>4. CASE VerdictReceived
  <2>1. m.type \in {"approved", "rejected"} /\ m.request \in Request /\ ~Ends(m)
    BY <1>2, <1>4, MainMessages DEF VerdictReceived, MailFor, Ends
  <2>2. UNCHANGED <<rendererVars, toRenderer, chatOf, aborted, asker>>
    BY <1>4 DEF VerdictReceived, Resolve, mainVars, loopVars
  <2>3. /\ \A r \in Run : at'[r] = at[r] \/ (at[r] \in Busy /\ at'[r] \in Busy)
        /\ request'[m.request] # "pending"
        /\ \A q \in Request : request'[q] = "pending" => request[q] = "pending"
    <3>1. CASE request[m.request] = "pending"
      <4>1. Resolve(m.request, m.type = "approved")
        BY <1>4, <3>1 DEF VerdictReceived
      <4>2. at[asker[m.request]] = "approval"
        BY <2>1, <3>1 DEF IInv, RequestsHold
      <4> QED BY <1>0, <2>1, <4>1, <4>2 DEF Resolve, Busy, IInv, TypeOK
    <3>2. CASE request[m.request] # "pending"
      BY <1>4, <3>2 DEF VerdictReceived, mainVars, loopVars
    <3> QED BY <3>1, <3>2
  <2>4. Chosen' /\ PostedMailed' /\ RunsFollowed'
    BY <1>1, <2>1, <2>2, <2>3, TakenOrder DEF rendererVars, Ends
  <2>5. SettledDone'
    BY <1>0, <2>2, <2>3, SettledKept
  <2>6. ASSUME NEW q \in Request, request'[q] = "pending", VerdictSent(q) PROVE VerdictSent(q)'
    <3>1. m \notin {Approved(q), Rejected(q)}
      BY <2>3, <2>6 DEF Approved, Rejected
    <3> QED BY <1>0, <1>1, <2>6, <3>1, VerdictStays
  <2>7. RequestsPresented'
    BY <2>2, <2>3, <2>6, RequestsKept DEF rendererVars
  <2> QED BY <2>4, <2>5, <2>7
<1> QED BY <1>3, <1>4 DEF FromRenderer

\* A step of main that takes nothing from the panel and asks nothing.
LEMMA MainGoesOn ==
  ASSUME IInv, OInv, UNCHANGED <<rendererVars, toMain, chatOf, aborted, asker>>,
         \A i \in DOMAIN toRenderer : i \in DOMAIN toRenderer' /\ toRenderer'[i] = toRenderer[i],
         \A i \in DOMAIN toRenderer' :
           \/ i \in DOMAIN toRenderer
           \/ /\ toRenderer'[i].type = "settled"
              /\ toRenderer'[i].job \in Run => at'[toRenderer'[i].job] = "done",
         \A r \in Run : at'[r] = at[r] \/ (at[r] \in Busy /\ at'[r] \in Busy \cup {"done"}),
         \A q \in Request : request'[q] = "pending" => request[q] = "pending"
  PROVE  OInv'
<1> USE DEF OInv
<1>1. toMain' \in Seq(MainMessage)
  BY DEF IInv, TypeOK
<1>2. Chosen' /\ PostedMailed' /\ RunsFollowed'
  BY <1>1, StillOrder DEF rendererVars
<1>3. SettledDone'
  <2>1. \A r \in Run : at[r] = "done" => at'[r] = "done"
    BY DEF Busy
  <2> QED BY <2>1, SettledKept
<1>4. RequestsPresented'
  <2>1. \A q : VerdictSent(q) => VerdictSent(q)'
    BY DEF VerdictSent
  <2>2. \A i \in DOMAIN toRenderer' : toRenderer'[i].type = "pending" => i \in DOMAIN toRenderer
    OBVIOUS
  <2> QED BY <2>1, <2>2, RequestsKept DEF rendererVars
<1> QED BY <1>2, <1>3, <1>4

\* The end of a job.
LEMMA FinishOrder ==
  ASSUME IInv, OInv, NEW j \in Job, at[j] \in Busy, NEW outcome \in Outcome, Finish(j, outcome)
  PROVE  OInv'
<1> DEFINE s == Settled(j, outcome)
<1>0. /\ toRenderer \in Seq(RendererMessage) /\ at \in [Job -> States]
      /\ Run \subseteq Job /\ Run \cap Chat = {}
  BY AgentAssumption DEF IInv, TypeOK, States, Job
<1>1. /\ s \in RendererMessage /\ s.type = "settled" /\ s.job = j
  BY DEF RendererMessage, Settled
<1>2. /\ toRenderer' = Append(toRenderer, s) /\ at' = [at EXCEPT ![j] = Ended(j)]
      /\ UNCHANGED <<rendererVars, toMain, chatOf, aborted, request, asker>>
  BY DEF Finish, loopVars
<1>3. \A r \in Run : at'[r] = IF r = j THEN "done" ELSE at[r]
  BY <1>0, <1>2 DEF Ended
<1> HIDE DEF s
<1>4. /\ \A i \in DOMAIN toRenderer : i \in DOMAIN toRenderer' /\ toRenderer'[i] = toRenderer[i]
      /\ \A i \in DOMAIN toRenderer' : i \in DOMAIN toRenderer \/ toRenderer'[i] = s
  BY <1>0, <1>1, <1>2, AppendIs
<1> QED BY <1>1, <1>2, <1>3, <1>4, MainGoesOn

\* A run asks: it is the last to ask, and nothing the panel follows waits besides it.
LEMMA AskOrder ==
  ASSUME IInv, OInv, NEW r \in Run, NEW q \in Request, AskUser(r, q)
  PROVE  OInv'
<1> USE DEF OInv
<1> DEFINE s == CommandPending(q)
<1>0. /\ toRenderer \in Seq(RendererMessage) /\ toMain \in Seq(MainMessage) /\ at \in [Job -> States]
      /\ Run \subseteq Job /\ asker \in [Request -> Run \cup {NoJob}]
      /\ request \in [Request -> {"none", "pending", "approved", "rejected"}]
      /\ NoJob \notin Run
  BY AgentAssumption DEF IInv, TypeOK, States, Job
<1>1. /\ at[r] = "loop" /\ r \notin aborted
      /\ request' = [request EXCEPT ![q] = "pending"] /\ asker' = [asker EXCEPT ![q] = r]
      /\ at' = [at EXCEPT ![r] = "approval"] /\ toRenderer' = Append(toRenderer, s)
      /\ UNCHANGED <<rendererVars, toMain, chatOf, aborted>>
  BY DEF AskUser, MayCall
<1>2. /\ s \in RendererMessage /\ s.type = "pending"
  BY DEF RendererMessage, CommandPending
<1>3. \A x \in Run : at'[x] = IF x = r THEN "approval" ELSE at[x]
  BY <1>0, <1>1
<1>4. /\ \A i \in DOMAIN toRenderer' :
           (i \in DOMAIN toRenderer /\ toRenderer'[i] = toRenderer[i]) \/ i = Len(toRenderer')
      /\ Len(toRenderer') \in DOMAIN toRenderer' /\ toRenderer'[Len(toRenderer')] = s
      /\ \A k \in DOMAIN toRenderer' : ~(k > Len(toRenderer'))
  <2> HIDE DEF s
  <2> QED BY <1>0, <1>1, <1>2
<1>5. Chosen' /\ PostedMailed' /\ RunsFollowed'
  <2>1. \A x \in Run : at'[x] = at[x] \/ (at[x] \in Busy /\ at'[x] \in Busy \cup {"done"})
    BY <1>1, <1>3 DEF Busy
  <2> QED BY <1>0, <1>1, <2>1, StillOrder DEF rendererVars
<1>6. SettledDone'
  <2>1. \A x \in Run : at[x] = "done" => at'[x] = "done"
    BY <1>1, <1>3
  <2>2. \A i \in DOMAIN toRenderer' :
          toRenderer'[i].type = "settled" => \E k \in DOMAIN toRenderer : toRenderer[k] = toRenderer'[i]
    BY <1>2, <1>4
  <2> QED BY <2>1, <2>2, SettledKept
<1>7. RequestsPresented'
  <2> SUFFICES ASSUME NEW p \in Request, request'[p] = "pending", asker'[p] = subscription
               PROVE  VerdictSent(p)' \/ LastAsked(p)' \/ Shown(p)'
    BY <1>1 DEF RequestsPresented, rendererVars
  <2>1. CASE p = q
    BY <1>4, <2>1 DEF LastAsked
  <2>2. CASE p # q
    <3>1. request[p] = "pending" /\ asker[p] = subscription
      BY <1>0, <1>1, <2>2
    <3>2. subscription \in Run /\ at[subscription] = "approval"
      BY <3>1 DEF IInv, RequestsHold
    <3>3. subscription # r /\ at[r] \in Busy
      BY <1>1, <3>2 DEF Busy
    <3>4. Withdrawn(r)
      BY <1>1, <3>3 DEF RunsFollowed
    <3>5. \E i \in DOMAIN toMain : Ends(toMain[i])
      BY <3>4 DEF Withdrawn, Ends
    <3>6. at[subscription] = "posted"
      BY <3>2, <3>5 DEF Chosen
    <3> QED BY <3>2, <3>6
  <2> QED BY <2>1, <2>2
<1> QED BY <1>5, <1>6, <1>7

\* The runs go on, or an approval times out.
LEMMA RunsGoOn ==
  ASSUME IInv, OInv,
         \/ \E r \in Run : LoopGoesOn(r) \/ ToolEnds(r)
         \/ \E j \in Job : HttpSettles(j)
         \/ \E q \in Request : ApprovalTimesOut(q)
  PROVE  OInv'
<1>0. /\ at \in [Job -> States] /\ Run \subseteq Job
      /\ asker \in [Request -> Run \cup {NoJob}]
      /\ request \in [Request -> {"none", "pending", "approved", "rejected"}]
  BY AgentAssumption DEF IInv, TypeOK, States, Job
<1>1. ASSUME NEW r \in Run, NEW place \in Busy, at[r] \in Busy, at' = [at EXCEPT ![r] = place],
             UNCHANGED <<rendererVars, toMain, toRenderer, chatOf, aborted, asker>>,
             \A q \in Request : request'[q] = "pending" => request[q] = "pending"
      PROVE  OInv'
  <2>1. \A x \in Run : at'[x] = at[x] \/ (at[x] \in Busy /\ at'[x] \in Busy \cup {"done"})
    BY <1>0, <1>1
  <2> QED BY <1>1, <2>1, MainGoesOn
<1>2. ASSUME NEW j \in Job, HttpSettles(j) PROVE OInv'
  <2>1. CASE \E outcome \in Outcome : AnswerArrives(j, outcome)
    BY <2>1, FinishOrder DEF AnswerArrives, Busy
  <2>2. CASE j \in Run /\ \E n \in 1..MaxCalls : ToolCallsArrive(j, n)
    BY <1>1, <2>2 DEF ToolCallsArrive, Busy
  <2> QED BY <1>2, <2>1, <2>2 DEF HttpSettles
<1>3. ASSUME NEW r \in Run, ToolEnds(r) \/ CallTool(r) PROVE OInv'
  BY <1>1, <1>3 DEF ToolEnds, CallTool, MayCall, Busy, mainVars, loopVars
<1>4. ASSUME NEW r \in Run, SkipCall(r) PROVE OInv'
  <2>1. at' = at /\ UNCHANGED <<rendererVars, toMain, toRenderer, chatOf, aborted, asker, request>>
    BY <1>4 DEF SkipCall
  <2> QED BY <2>1, MainGoesOn
<1>5. ASSUME NEW r \in Run, LoopAborted(r) \/ NextRound(r) PROVE OInv'
  <2>1. r \in Job /\ at[r] = "loop"
    BY <1>0, <1>5 DEF LoopAborted, NextRound
  <2>2. CASE \E outcome \in Outcome : Finish(r, outcome)
    BY <2>1, <2>2, FinishOrder DEF Busy
  <2>3. CASE /\ at' = [at EXCEPT ![r] = "http"]
             /\ UNCHANGED <<rendererVars, toMain, toRenderer, chatOf, aborted, asker, request>>
    BY <1>1, <2>1, <2>3 DEF Busy
  <2> QED BY <1>5, <2>2, <2>3 DEF LoopAborted, NextRound, Outcome
<1>6. ASSUME NEW q \in Request, ApprovalTimesOut(q) PROVE OInv'
  <2>1. /\ request[q] = "pending" /\ toMain' = toMain
        /\ at' = [at EXCEPT ![asker[q]] = "loop"]
        /\ request' = [request EXCEPT ![q] = "rejected"]
        /\ UNCHANGED <<rendererVars, toRenderer, chatOf, aborted, asker>>
    BY <1>6 DEF ApprovalTimesOut, Resolve
  <2>2. asker[q] \in Run /\ at[asker[q]] \in Busy
    BY <2>1 DEF IInv, RequestsHold, Busy
  <2>3. \A p \in Request : request'[p] = "pending" => request[p] = "pending"
    BY <1>0, <2>1
  <2> QED BY <1>1, <2>1, <2>2, <2>3 DEF Busy
<1> QED BY <1>2, <1>3, <1>4, <1>5, <1>6, AskOrder DEF LoopGoesOn

-------------------------------------------------------------------------------
(* Theorems *)

\* Together with IInv, OInv is inductive.
LEMMA OrderInvariance == Spec => [](IInv /\ OInv)
<1>1. Init => OInv
  BY AgentAssumption DEF Init, OInv, Chosen, PostedMailed, SettledDone, RunsFollowed,
                         RequestsPresented, Busy, Job
<1>2. IInv /\ IInv' /\ OInv /\ [Next]_vars => OInv'
  <2> SUFFICES ASSUME IInv, IInv', OInv, [Next]_vars PROVE OInv'
    OBVIOUS
  <2>1. CASE UserSteps \/ FromMain \/ \E r \in Run : AttachmentsRead(r)
    BY <2>1, PanelTurns, PanelStays DEF UserSteps, FromMain
  <2>2. CASE FromRenderer
    BY <2>2, MainTakes
  <2>3. CASE \/ \E r \in Run : LoopGoesOn(r) \/ ToolEnds(r)
             \/ \E j \in Job : HttpSettles(j)
             \/ \E q \in Request : ApprovalTimesOut(q)
    BY <2>3, RunsGoOn
  <2>4. CASE UNCHANGED vars
    BY <2>4, MainGoesOn DEF vars, mainVars, loopVars
  <2> QED BY <2>1, <2>2, <2>3, <2>4 DEF Next
<1> QED BY <1>1, <1>2, Invariance, PTL DEF Spec

\* Every run at work or on its way to main is the one the panel follows, or is
\* aborted, or has its end on the way (aiChat.js, ai-chat.component.ts): Stop, or
\* the next message, reaches whatever the user no longer watches.
THEOREM PanelFollowsRuns == Spec => []RunsFollowed
BY OrderInvariance, PTL DEF OInv

\* A run that goes on and waits for an approval has its request in the banner or
\* on its way there, or the verdict or its own end on the way to main
\* (approvalManager.js, ai-chat.component.ts): nobody waits for the unasked.
THEOREM ApprovalsReachable == Spec => []ApprovalReachable
<1>1. IInv /\ OInv => ApprovalReachable
  <2> SUFFICES ASSUME IInv, OInv, NEW q \in Request, request[q] = "pending",
                      asker[q] \notin aborted, ~Withdrawn(asker[q])
               PROVE  \/ pendingCommand = q
                      \/ \E i \in DOMAIN toRenderer : toRenderer[i] = CommandPending(q)
                      \/ \E i \in DOMAIN toMain : toMain[i] \in {Approved(q), Rejected(q)}
    BY DEF ApprovalReachable
  <2>1. asker[q] \in Run /\ at[asker[q]] \in Busy
    BY DEF IInv, RequestsHold, Busy
  <2>2. asker[q] = subscription
    BY <2>1 DEF OInv, RunsFollowed
  <2> QED BY <2>2 DEF OInv, RequestsPresented, VerdictSent, LastAsked, Shown
<1> QED BY <1>1, OrderInvariance, PTL
===============================================================================
