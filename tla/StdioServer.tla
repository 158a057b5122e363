---------------------------------- MODULE StdioServer ----------------------------------
(*****************************************************************************)
(* The MCP and ACP servers of the command line (src-protocol/mcp, acp):      *)
(* requests arrive as lines of stdin and are served one after the other;     *)
(* tools look up a profile by its name in the files of the application,      *)
(* which its user edits meanwhile.  A name is a sequence of letters.         *)
(*****************************************************************************)
EXTENDS Naturals, Sequences, FiniteSets, SequencesExt

CONSTANTS
  Line,      \* what a client may send: [id, method, tool, arg, session]
  Entry,     \* profiles: [name, secret, ssh], ssh when it is one for SSH
  Listed,    \* the list of them at the start
  Secret,
  None,
  MaxLines, MaxEdits \* bounds

VARIABLES
  proto,    \* "mcp" or "acp"
  state,    \* "up", "ended" (stdin closed) or "crashed" (exit code 1)
  unread,   \* lines in stdin
  read,     \* lines the loop has taken
  running,  \* requests being handled: the line, the next step and what it found
  out,      \* replies: the id, how it went, and (history) which line it is for
  eof,      \* the client has closed stdin
  sessions, \* open sessions of ACP
  profiles, \* the list in profiles.json
  secrets,  \* those in secrets.json that have a login
  edits,
  reached   \* connections: the name asked for, the profile, and the list it is from

vars == <<proto, state, unread, read, running, out, eof, sessions, profiles,
          secrets, edits, reached>>

Handling ==
  [line : Line, of : Nat, profile : {None} \cup Entry, from : {None} \cup Seq(Entry),
   step : {"run", "profile", "secret", "connect"}]

Answer == [id : {l.id : l \in Line}, how : {"result", "isError", "error"}, of : Nat]

TypeOK ==
  /\ proto \in {"mcp", "acp"} /\ state \in {"up", "ended", "crashed"}
  /\ unread \in Seq(Line) /\ read \in Seq(Line) /\ Len(unread) + Len(read) <= MaxLines
  /\ running \subseteq Handling /\ out \in Seq(Answer) /\ eof \in BOOLEAN
  /\ sessions \subseteq 1..MaxLines /\ profiles \in Seq(Entry) /\ secrets \subseteq Secret
  /\ edits \in 0..MaxEdits

Init ==
  /\ proto \in {"mcp", "acp"} /\ state = "up" /\ unread = <<>> /\ read = <<>>
  /\ running = {} /\ out = <<>> /\ eof = FALSE /\ sessions = {} /\ edits = 0
  /\ profiles = Listed /\ secrets = Secret /\ reached = {}

server  == <<proto, state, unread, read, running, out, eof, sessions, reached>>
store   == <<profiles, secrets, edits>>
outside == <<proto, eof, store>>

-----------------------------------------------------------------------------
Send(line) ==
  /\ ~eof /\ Len(unread) + Len(read) < MaxLines
  /\ unread' = Append(unread, line)
  /\ UNCHANGED <<proto, state, read, running, out, eof, sessions, reached, store>>

CloseStdin ==
  /\ ~eof /\ eof' = TRUE
  /\ UNCHANGED <<proto, state, unread, read, running, out, sessions, reached, store>>

\* The menus of the application save another list.
EditProfile(i, entry) ==
  /\ edits < MaxEdits /\ profiles[i] # entry
  /\ profiles' = [profiles EXCEPT ![i] = entry] /\ edits' = edits + 1
  /\ UNCHANGED <<server, secrets>>

DeleteSecret(s) ==
  /\ edits < MaxEdits /\ s \in secrets
  /\ secrets' = secrets \ {s} /\ edits' = edits + 1
  /\ UNCHANGED <<server, profiles>>

-----------------------------------------------------------------------------
\* A reply is written only to a request that has an id.
Replies(line, of, how) ==
  IF line.id = None THEN <<>> ELSE << [id |-> line.id, how |-> how, of |-> of] >>

Reply(line, of, how) == out' = out \o Replies(line, of, how)

\* What handleRequest() answers without waiting: lists, prompts, sessions, and
\* what it refuses.  args of prompts are optional, so none is missing.
Known == {"initialize", "tools/list"} \cup
         IF proto = "mcp" THEN {"ping", "resources/list", "prompts/list", "prompts/get"}
                          ELSE {"session/new", "session/close"}

Tools == {"ssh_execute", "local_execute"} \cup
         IF proto = "mcp" THEN {"yaet_profiles", "scp_read_file"} ELSE {}

\* Handled by a handler that waits: tools, resources and the prompt of a session.
Waits(line) ==
  \/ line.method = "tools/call" /\ line.tool \in Tools
  \/ proto = "mcp" /\ line.method = "resources/read" /\ line.tool = "yaet://profiles"
  \/ proto = "acp" /\ line.method = "session/prompt" /\ line.session \in sessions

Malformed(line) == line.method = "malformed"

Notification(line) == line.method = "notifications/initialized"

Next1 == Head(unread)

\* for await: the next line is taken when the former has been answered.
Take ==
  /\ state = "up" /\ unread # <<>> /\ running = {}
  /\ read' = Append(read, Next1) /\ unread' = Tail(unread)

\* A line that is no request: `request?.id` of the catch is undefined for MCP;
\* in ACP the const of the try block is out of scope there, which ends runStdio().
TakeMalformed ==
  /\ Take /\ Malformed(Next1)
  /\ state' = IF proto = "acp" THEN "crashed" ELSE state
  /\ UNCHANGED <<outside, running, out, sessions, reached>>

TakeNotification ==
  /\ Take /\ Notification(Next1)
  /\ UNCHANGED <<outside, state, running, out, sessions, reached>>

NewSession ==
  /\ Take /\ proto = "acp" /\ Next1.method = "session/new"
  /\ sessions' = sessions \cup {1 + Cardinality({k \in 1..Len(read) : read[k].method = "session/new"})}
  /\ Reply(Next1, Len(read'), "result")
  /\ UNCHANGED <<outside, state, running, reached>>

CloseSession ==
  /\ Take /\ proto = "acp" /\ Next1.method = "session/close"
  /\ sessions' = sessions \ {Next1.session}
  /\ Reply(Next1, Len(read'), "result")
  /\ UNCHANGED <<outside, state, running, reached>>

AnswerAtOnce ==
  /\ Take /\ ~Malformed(Next1) /\ ~Notification(Next1) /\ ~Waits(Next1)
  /\ proto = "acp" => Next1.method \notin {"session/new", "session/close"}
  /\ Reply(Next1, Len(read'), IF Next1.method \in Known THEN "result" ELSE "error")
  /\ UNCHANGED <<outside, state, running, sessions, reached>>

\* The first thing a handler that waits does is to look for its profile, if any.
Begin ==
  /\ Take /\ Waits(Next1)
  /\ running' = running \cup
       {[line |-> Next1, of |-> Len(read'), profile |-> None, from |-> None,
         step |-> IF Next1.method # "session/prompt" /\ Next1.tool # "local_execute"
                  THEN "profile" ELSE "run"]}
  /\ UNCHANGED <<outside, state, out, sessions, reached>>

Finish(r, how) ==
  /\ running' = running \ {r} /\ Reply(r.line, r.of, how)
  /\ UNCHANGED <<outside, state, unread, read, sessions>>

\* local_execute ends, by itself or by its timeout.  A prompt runs every tool
\* without a command or a profile: each throws, and its error becomes text.
Run(r) ==
  /\ r.step = "run"
  /\ \E how \in IF r.line.method = "tools/call" THEN {"result", "isError"} ELSE {"result"} :
       Finish(r, how)
  /\ UNCHANGED reached

-----------------------------------------------------------------------------
\* profiles.find(x => x.name === name), else the only one that starts with it.
Exact(name) == {i \in DOMAIN profiles : profiles[i].name = name}
Starting(name) == {i \in DOMAIN profiles : IsPrefix(name, profiles[i].name)}

FindProfileByName(name) ==
  IF Exact(name) # {} THEN {CHOOSE i \in Exact(name) : \A j \in Exact(name) : i <= j}
  ELSE IF Cardinality(Starting(name)) = 1 THEN Starting(name) ELSE {}

\* A file that does not decrypt (wrong key, half written) throws.
Throws(r) == Finish(r, "isError") /\ UNCHANGED reached

Advance(r, to) ==
  /\ running' = (running \ {r}) \cup {to}
  /\ UNCHANGED <<outside, state, unread, read, out, sessions, reached>>

\* findProfileByName() and the part of resolveConfig() up to the secret; a
\* list of profiles is all that yaet_profiles and the resource want.
LookUp(r) ==
  /\ r.step = "profile"
  /\ \/ Throws(r)
     \/ /\ r.line.tool \in {"yaet_profiles", "yaet://profiles"}
        /\ Finish(r, "result") /\ UNCHANGED reached
     \/ /\ r.line.tool \notin {"yaet_profiles", "yaet://profiles"}
        /\ \E i \in FindProfileByName(r.line.arg) :
             /\ profiles[i].ssh
             /\ Advance(r, [r EXCEPT !.profile = profiles[i], !.from = profiles,
                            !.step = IF profiles[i].secret = None THEN "connect" ELSE "secret"])

\* loadSecrets(), a second file.
LookUpSecret(r) ==
  /\ r.step = "secret"
  /\ \/ Throws(r)
     \/ r.profile.secret \in secrets /\ Advance(r, [r EXCEPT !.step = "connect"])

\* The connection, the command or transfer, and its end.
Connect(r) ==
  /\ r.step = "connect"
  /\ reached' = reached \cup {[name |-> r.line.arg, profile |-> r.profile, from |-> r.from]}
  /\ \E how \in {"result", "isError"} : Finish(r, how)

End ==
  /\ state = "up" /\ eof /\ unread = <<>> /\ running = {}
  /\ state' = "ended"
  /\ UNCHANGED <<proto, unread, read, running, out, eof, sessions, reached, store>>

Next ==
  \/ \E line \in Line : Send(line)
  \/ CloseStdin
  \/ \E i \in DOMAIN profiles, entry \in Entry : EditProfile(i, entry)
  \/ \E s \in Secret : DeleteSecret(s)
  \/ TakeMalformed \/ TakeNotification \/ NewSession \/ CloseSession
  \/ AnswerAtOnce \/ Begin
  \/ \E r \in running : Run(r) \/ LookUp(r) \/ LookUpSecret(r) \/ Connect(r)
  \/ End

Spec == Init /\ [][Next]_vars

-----------------------------------------------------------------------------
\* Every request that was read and has an id gets one reply, in the order the
\* requests came in, however long tools take and whatever lines lie between;
\* only the end of stdin ends the loop.  Left out: a malformed line, which
\* ends the ACP server (acp/server.js:165).
Due(line) == ~Malformed(line) /\ ~Notification(line) /\ line.id # None

Answered(k) == \E i \in 1..Len(out) : out[i].of = k
Handled(k)  == \E r \in running : r.of = k

RepliesInOrder ==
  /\ \A i, j \in 1..Len(out) : i < j => out[i].of < out[j].of
  /\ \A i \in 1..Len(out) : /\ out[i].of \in 1..Len(read) /\ Due(read[out[i].of])
                            /\ out[i].id = read[out[i].of].id
  /\ \A k \in 1..Len(read) : Due(read[k]) => (Answered(k) <=> ~Handled(k))
  /\ state = "ended" => unread = <<>> /\ running = {}
  /\ state = "crashed" => Malformed(Last(read))

\* A tool reaches the profile that bears the name it was given or, if none
\* does, the only one whose name begins with it (credentialResolver.js:36).
Resolves(name, profile, from) ==
  \A i \in DOMAIN from :
    IsPrefix(name, from[i].name) => from[i] = profile \/ profile.name = name

NamesResolve == \A c \in reached : Resolves(c.name, c.profile, c.from)

\* Why: what is being handled is the last line that was read, and nothing else
\* is read meanwhile; its profile, once found, stays the one that was found.
Serial ==
  /\ state = "ended" => eof
  /\ \A r \in running : /\ running = {r} /\ state = "up"
                        /\ r.of = Len(read) /\ r.of \in 1..Len(read) /\ r.line = read[r.of]
                        /\ ~Malformed(r.line) /\ ~Notification(r.line)
                        /\ r.step \in {"secret", "connect"} => Resolves(r.line.arg, r.profile, r.from)

IInv == TypeOK /\ Serial /\ RepliesInOrder /\ NamesResolve
=====================================================================================
