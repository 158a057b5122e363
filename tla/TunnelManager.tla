----------------------------- MODULE TunnelManager -----------------------------
(*****************************************************************************)
(* The tunnels menu (tunnels-menu.component.ts, tunnel.service.ts) and what  *)
(* the main process makes of it: tunnels.json, and the tunnels it runs.      *)
(*                                                                           *)
(* Messages arrive in the order they were sent, each way.  A tunnel's rule   *)
(* and connection are a version: 0 for none, 1 for what is there at first.   *)
(* Encryption and decryption succeed (ConfigStores models when not), the     *)
(* former in order; what main does with a tunnel that runs is TunnelService. *)
(*****************************************************************************)
EXTENDS Naturals, Sequences, FiniteSets, SequencesExt

CONSTANTS
  Tunnel,  \* ids
  First,   \* those that are saved at first
  MaxOps   \* bound: what the user does, and how often connections are lost

VARIABLES
  store,     \* the tunnels of the renderer
  rows,      \* what the menu shows: version and status
  statuses,  \* the last list of statuses
  savings,   \* what is being encrypted, and the tunnel to stop afterwards
  wire,      \* messages to the main process
  replies,   \* messages from it
  file,      \* tunnels.json
  writes,    \* writeFile() calls under way
  starts,    \* start() calls that await resolveTunnel()
  entries,   \* main's tunnels
  ops,       \* how much of MaxOps is used up; numbers the versions
  saved,     \* history: what the user saved last, 0 for deleted
  asked,     \* history: the version that was shown where the start was clicked, 0
             \* when a save was being encrypted
  raced,     \* history: starts that resolved while the file was written
  crossed    \* history: tunnels stopped while they were resolved

uiVars   == <<store, rows, statuses, savings, saved>>
fileVars == <<file, writes>>
runVars  == <<starts, entries, asked, raced, crossed>>
vars == <<uiVars, wire, replies, fileVars, runVars, ops>>

Content == [Tunnel -> 0..(MaxOps + 1)]
Running == {"starting", "active", "reconnecting"}
Status  == Running \cup {"idle", "error", "stopped"}
NoRow   == [version |-> 0, status |-> "idle"]
Never   == MaxOps + 2   \* of `saved`: the id is not used yet

TypeOK ==
  /\ store \in Content /\ file \in Content
  /\ statuses \in [Tunnel -> Status]
  /\ \A t \in Tunnel : /\ rows[t].version \in 0..(MaxOps + 1) /\ rows[t].status \in Status
                       /\ entries[t].version \in 0..(MaxOps + 1) /\ entries[t].status \in Status
  /\ \A i \in DOMAIN savings : savings[i].content \in Content
  /\ \A i \in DOMAIN wire : wire[i].kind \in {"save", "start", "stop", "stop-all", "list", "reload"}
  /\ \A i \in DOMAIN replies : replies[i].kind \in {"answer", "failure", "statuses", "loaded"}
  /\ starts \subseteq Tunnel /\ raced \subseteq Tunnel /\ crossed \subseteq Tunnel
  /\ ops \in 0..MaxOps

StatusesOf(running) == [t \in Tunnel |-> running[t].status]

\* rebuildRows(): a tunnel without an id has no row
RowsOf(tunnels, list) ==
  [t \in Tunnel |-> IF tunnels[t] = 0 THEN NoRow ELSE [version |-> tunnels[t], status |-> list[t]]]

Blank == [t \in Tunnel |-> 0]       \* content of a message that has none
Initial == [t \in Tunnel |-> IF t \in First THEN 1 ELSE 0]

\* The menu was opened, and the tunnels have been loaded.
Init ==
  /\ file = Initial /\ store = Initial
  /\ statuses = [t \in Tunnel |-> "idle"] /\ rows = RowsOf(Initial, statuses)
  /\ savings = <<>> /\ wire = <<>> /\ replies = <<>> /\ writes = <<>>
  /\ entries = [t \in Tunnel |-> NoRow] /\ starts = {}
  /\ ops = 0 /\ raced = {} /\ crossed = {}
  /\ saved = [t \in Tunnel |-> IF t \in First THEN 1 ELSE Never] /\ asked = Blank

-----------------------------------------------------------------------------
\* The user.
UserDoes == ops < MaxOps /\ ops' = ops + 1
HasRow(t) == rows[t].version # 0
Message(kind, t, content) == [kind |-> kind, tunnel |-> t, content |-> content]
Send(kind, t, content) == wire' = Append(wire, Message(kind, t, content))
NoTunnel == CHOOSE t \in Tunnel : TRUE   \* of a message about none

\* persist(): the store has it at once
Persist(content, stopped) ==
  /\ store' = content
  /\ savings' = Append(savings, [content |-> content, stop |-> stopped])

\* addTunnel(), editTunnel(): the dialog closes with a tunnel; saveOne()
Save(t) ==
  /\ HasRow(t) \/ saved[t] = Never
  /\ UserDoes
  /\ Persist([store EXCEPT ![t] = ops' + 1], {})
  /\ saved' = [saved EXCEPT ![t] = ops' + 1]
  /\ UNCHANGED <<rows, statuses, wire, replies, fileVars, runVars>>

\* deleteTunnel(), confirmed; deleteOne()
Delete(t) ==
  /\ HasRow(t) /\ UserDoes
  /\ Persist([store EXCEPT ![t] = 0], {t})
  /\ saved' = [saved EXCEPT ![t] = 0]
  /\ UNCHANGED <<rows, statuses, wire, replies, fileVars, runVars>>

IsRunning(t) == rows[t].status \in Running

\* toggle(): nothing keeps the user from clicking again
Toggle(t) ==
  /\ HasRow(t) /\ UserDoes
  /\ Send(IF IsRunning(t) THEN "stop" ELSE "start", t,
          IF savings = <<>> THEN [Blank EXCEPT ![t] = rows[t].version] ELSE Blank)
  /\ UNCHANGED <<uiVars, replies, fileVars, runVars>>

\* The button is there while a row runs.
StopAll ==
  /\ \E t \in Tunnel : HasRow(t) /\ IsRunning(t)
  /\ UserDoes
  /\ Send("stop-all", NoTunnel, Blank)
  /\ UNCHANGED <<uiVars, replies, fileVars, runVars>>

\* refresh(): the saved tunnels, and the statuses
Refresh ==
  /\ UserDoes
  /\ wire' = wire \o <<Message("reload", NoTunnel, Blank), Message("list", NoTunnel, Blank)>>
  /\ UNCHANGED <<uiVars, replies, fileVars, runVars>>

\* What was encrypted is sent, then the rows are rebuilt; the rows of a deleted
\* tunnel are, once it was stopped.
Encrypted ==
  LET done == Head(savings)
      save == Message("save", NoTunnel, done.content) IN
  /\ savings # <<>>
  /\ savings' = Tail(savings)
  /\ IF done.stop = {} THEN wire' = Append(wire, save) /\ rows' = RowsOf(store, statuses)
     ELSE /\ wire' = wire \o <<save, Message("stop", CHOOSE t \in done.stop : TRUE, Blank)>>
          /\ UNCHANGED rows
  /\ UNCHANGED <<store, statuses, saved, replies, fileVars, runVars, ops>>

-----------------------------------------------------------------------------
\* The main process receives messages.
Received(kind) == wire # <<>> /\ Head(wire).kind = kind /\ wire' = Tail(wire)
Reply(kind, list, content) == [kind |-> kind, statuses |-> list, content |-> content]
Idle == [t \in Tunnel |-> "idle"]
Answer == Reply("answer", Idle, Blank)
Failure == Reply("failure", Idle, Blank)
Statuses(running) == Reply("statuses", StatusesOf(running), Blank)

\* 'tunnels.save'
SaveReceived ==
  /\ Received("save")
  /\ writes' = Append(writes, Head(wire).content)
  /\ raced' = raced \cup starts
  /\ UNCHANGED <<uiVars, replies, file, starts, entries, asked, crossed, ops>>

WriteLands ==
  /\ writes # <<>>
  /\ file' = Head(writes) /\ writes' = Tail(writes)
  /\ raced' = raced \cup starts
  /\ UNCHANGED <<uiVars, wire, replies, starts, entries, asked, crossed, ops>>

\* start(): an answer at once if it runs
StartReceived ==
  LET t == Head(wire).tunnel IN
  /\ Received("start")
  /\ IF entries[t].status \in Running
     THEN replies' = Append(replies, Answer) /\ UNCHANGED <<starts, asked, raced>>
     ELSE /\ starts' = starts \cup {t} /\ UNCHANGED replies
          /\ asked' = [asked EXCEPT ![t] = Head(wire).content[t]]
          /\ raced' = IF writes # <<>> THEN raced \cup {t} ELSE raced \ {t}
  /\ UNCHANGED <<uiVars, fileVars, entries, crossed, ops>>

\* What a read finds while the file is written: the old content, the new one,
\* or less than either.
Readable == {file} \cup {writes[i] : i \in DOMAIN writes}
Torn == writes # <<>>

\* resolveTunnel() found the tunnel: it is connected.
Resolved(t) ==
  /\ t \in starts /\ starts' = starts \ {t}
  /\ \E content \in Readable :
       /\ content[t] # 0
       /\ entries' = [entries EXCEPT ![t] = [version |-> content[t], status |-> "starting"]]
  /\ replies' = Append(replies, Statuses(entries'))
  /\ UNCHANGED <<uiVars, wire, fileVars, asked, raced, crossed, ops>>

NotResolved(t) ==
  /\ t \in starts /\ starts' = starts \ {t}
  /\ Torn \/ file[t] = 0
  /\ replies' = Append(replies, Failure)
  /\ UNCHANGED <<uiVars, wire, fileVars, entries, asked, raced, crossed, ops>>

\* The tunnel is up, lost, connected again, or given up; start() answers.
StatusChanges(t, status) ==
  /\ entries[t].status \in Running \ {status} /\ status \in {"active", "reconnecting", "error"}
  /\ entries[t].status = "starting" => status # "reconnecting"
  /\ IF entries[t].status = "active" THEN ops < MaxOps /\ ops' = ops + 1 ELSE UNCHANGED ops
  /\ entries' = [entries EXCEPT ![t].status = status]
  /\ replies' = replies \o <<Statuses(entries')>>
       \o (IF entries[t].status # "starting" THEN <<>>
           ELSE IF status = "error" THEN <<Failure>> ELSE <<Answer>>)
  /\ UNCHANGED <<uiVars, wire, fileVars, starts, asked, raced, crossed>>

\* stop(): what is not there yet is not stopped; a start() that was connecting
\* answers too
Stopped(ts) ==
  /\ entries' = [t \in Tunnel |-> IF t \in ts /\ entries[t].version # 0
                                  THEN [entries[t] EXCEPT !.status = "stopped"] ELSE entries[t]]
  /\ crossed' = crossed \cup (ts \cap starts)
  /\ replies' = replies \o (IF entries' # entries THEN <<Statuses(entries')>> ELSE <<>>) \o <<Answer>>
       \o (IF \E t \in ts : entries[t].status = "starting" THEN <<Answer>> ELSE <<>>)

StopReceived ==
  /\ \/ Received("stop") /\ Stopped({Head(wire).tunnel})
     \/ Received("stop-all") /\ Stopped(Tunnel)
  /\ UNCHANGED <<uiVars, fileVars, starts, asked, raced, ops>>

ListReceived ==
  /\ Received("list")
  /\ replies' = Append(replies, Statuses(entries))
  /\ UNCHANGED <<uiVars, fileVars, runVars, ops>>

\* 'tunnels.reload': an empty file is no content at all, and the store stays
\* as it is; a torn one does not decrypt.
ReloadReceived ==
  /\ Received("reload")
  /\ \/ \E content \in Readable : replies' = Append(replies, Reply("loaded", Idle, content))
     \/ Torn /\ UNCHANGED replies
  /\ UNCHANGED <<uiVars, fileVars, runVars, ops>>

-----------------------------------------------------------------------------
\* The renderer receives replies.  A list that was loaded has to be decrypted:
\* what came later may be ahead of it.
Got(i, kind) ==
  /\ replies[i].kind = kind
  /\ \A j \in 1..(i - 1) : replies[j].kind = "loaded"
  /\ replies' = RemoveAt(replies, i)

\* statuses$: a push, or the answer to a list
StatusesArrive(i) ==
  /\ Got(i, "statuses")
  /\ statuses' = replies[i].statuses
  /\ rows' = RowsOf(store, statuses')
  /\ UNCHANGED <<store, savings, saved, wire, fileVars, runVars, ops>>

\* The rows are rebuilt after every start() and stop(), and the statuses asked
\* for again after those that succeeded.
AnswerArrives(i) ==
  /\ \/ Got(i, "answer") /\ Send("list", NoTunnel, Blank)
     \/ Got(i, "failure") /\ UNCHANGED wire
  /\ rows' = RowsOf(store, statuses)
  /\ UNCHANGED <<store, statuses, savings, saved, fileVars, runVars, ops>>

\* apply(), loaded$
TunnelsLoaded(i) ==
  /\ Got(i, "loaded")
  /\ store' = replies[i].content
  /\ rows' = RowsOf(store', statuses)
  /\ UNCHANGED <<statuses, savings, saved, wire, fileVars, runVars, ops>>

Next ==
  \/ \E t \in Tunnel : Save(t) \/ Delete(t) \/ Toggle(t) \/ Resolved(t) \/ NotResolved(t)
  \/ \E t \in Tunnel, status \in Status : StatusChanges(t, status)
  \/ StopAll \/ Refresh \/ Encrypted
  \/ SaveReceived \/ WriteLands \/ StartReceived \/ StopReceived \/ ListReceived \/ ReloadReceived
  \/ \E i \in DOMAIN replies : StatusesArrive(i) \/ AnswerArrives(i) \/ TunnelsLoaded(i)

Spec == Init /\ [][Next]_vars

-----------------------------------------------------------------------------
Quiet == savings = <<>> /\ wire = <<>> /\ replies = <<>>

\* Once nothing is on its way, the menu shows every tunnel of the store, and
\* what main's tunnel does.
RowsFollow == Quiet => rows = RowsOf(store, StatusesOf(entries))

\* A tunnel that was deleted does not run once nothing is on its way, unless it
\* was being resolved when it was stopped or while the file was written, or an
\* older list brought it back.
DeletedStops ==
  Quiet /\ starts = {} =>
    \A t \in Tunnel \ (crossed \cup raced) : saved[t] = 0 /\ store[t] = 0 => entries[t].status \notin Running

\* What runs is what was saved when the user asked for it, or later, unless
\* the file was written while it was read.
RunsSaved ==
  \A t \in Tunnel \ raced : entries[t].status \in Running => entries[t].version >= asked[t]
=============================================================================
