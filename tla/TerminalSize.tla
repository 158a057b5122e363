---------------------------------- MODULE TerminalSize ----------------------------------
(*****************************************************************************)
(* How the size of the terminal on screen reaches the pty of an SSH session: *)
(* terminal.component.ts fits the terminal, opens the session with the size  *)
(* it has, and sends every later size, and again for two seconds;            *)
(* terminalHandler.js keeps the size of a session that does not exist yet;   *)
(* the backend of the plugin (ssh-terminal/backend/index.js) connects,       *)
(* registers the session and applies what was kept.  A size is a pair of     *)
(* columns and rows.                                                         *)
(*****************************************************************************)
EXTENDS Naturals, Sequences

CONSTANTS
  Size,      \* the sizes the container may have
  XtermSize, \* the size of a terminal that was never fitted
  Retries,   \* how often a size is sent again
  None,
  MaxResizes, MaxPrompts \* bounds

VARIABLES
  shown,   \* the size of the terminal on screen
  pending, \* session.pendingTerminalSize
  retries, \* what is left of resizeRetryTimer; None before initTab()
  wire,    \* messages to main: "open" or "resize", and a size
  entry,   \* the size that terminalMap keeps for the session, or None
  backend, \* "none", "connecting", "prompt", "up"
  asked,   \* the size connect() was called with
  pty,     \* the size of the pty
  resizes, prompts,
  missed   \* the last size that was sent has been dropped

vars == <<shown, pending, retries, wire, entry, backend, asked, pty, resizes,
          prompts, missed>>

Sizes == Size \cup {XtermSize}

TypeOK ==
  /\ shown \in Sizes /\ pending \in Sizes \cup {None}
  /\ retries \in 0..Retries \cup {None}
  /\ wire \in Seq({"open", "resize"} \X Sizes)
  /\ entry \in Sizes \cup {None}
  /\ backend \in {"none", "connecting", "prompt", "up"}
  /\ asked \in Sizes \cup {None} /\ pty \in Sizes \cup {None}
  /\ resizes \in 0..MaxResizes /\ prompts \in 0..MaxPrompts /\ missed \in BOOLEAN

Init ==
  /\ shown = XtermSize /\ pending = None /\ retries = None /\ wire = <<>>
  /\ entry = None /\ backend = "none" /\ asked = None /\ pty = None
  /\ resizes = 0 /\ prompts = 0 /\ missed = FALSE

renderer == <<shown, pending, retries, resizes>>
main     == <<entry, backend, asked, pty, prompts, missed>>

\* xterm's onResize: only a change of size is sent.
OnResize(size) == IF size = shown THEN <<>> ELSE << <<"resize", size>> >>

\* ngAfterViewInit() and initTab(): fit, open, send the size.
InitTab ==
  /\ retries = None
  /\ \E size \in Size :
       /\ shown' = size /\ pending' = size
       /\ wire' = wire \o OnResize(size) \o << <<"open", size>>, <<"resize", size>> >>
  /\ retries' = Retries
  /\ UNCHANGED <<resizes, main>>

\* The container changes; ResizeObserver fits the terminal.
Resized ==
  /\ retries # None /\ resizes < MaxResizes
  /\ \E size \in Size \ {shown} : shown' = size /\ wire' = wire \o OnResize(size)
  /\ resizes' = resizes + 1
  /\ UNCHANGED <<pending, retries, main>>

\* resizeRetryTimer
SendAgain ==
  /\ retries \in 1..Retries
  /\ retries' = retries - 1
  /\ wire' = Append(wire, <<"resize", shown>>)
  /\ UNCHANGED <<shown, pending, resizes, main>>

-----------------------------------------------------------------------------
\* session.open.terminal.ssh up to the await of connect().
HandleOpen ==
  /\ wire # <<>> /\ wire[1][1] = "open"
  /\ wire' = Tail(wire)
  /\ backend' = "connecting" /\ asked' = wire[1][2]
  /\ UNCHANGED <<renderer, entry, pty, prompts, missed>>

\* terminal.resize: the first size that comes before the session is kept, those
\* after it find an entry that cannot resize.
HandleResize ==
  /\ wire # <<>> /\ wire[1][1] = "resize"
  /\ wire' = Tail(wire)
  /\ LET size == wire[1][2] IN
       /\ entry' = IF entry = None /\ backend # "up" THEN size ELSE entry
       /\ pty' = IF backend = "up" THEN size ELSE pty
       /\ missed' = (backend # "up" /\ entry \notin {None, size})
  /\ UNCHANGED <<renderer, backend, asked, prompts>>

\* A size that was kept is applied when its columns differ from those asked for.
\* As initTab() sends the size of its request right after the request, the size
\* that is kept is that one, and a later one is not kept.
Applied(queued, size) ==
  IF queued # None /\ queued[1] # size[1] THEN queued ELSE size

\* connect() opens the pty with the size of the request; the session is registered.
Connected ==
  /\ backend = "connecting"
  /\ backend' = "up" /\ entry' = None
  /\ pty' = Applied(entry, asked)
  /\ missed' = (missed \/ (entry # None /\ entry[1] = asked[1] /\ entry[2] # asked[2]))
  /\ UNCHANGED <<renderer, wire, asked, prompts>>

\* The key of the host is not known; the user trusts it and the session is
\* opened again, with the size of its first time.
Prompted ==
  /\ backend = "connecting" /\ prompts < MaxPrompts
  /\ backend' = "prompt" /\ prompts' = prompts + 1
  /\ UNCHANGED <<renderer, wire, entry, asked, pty, missed>>

Trusted ==
  /\ backend = "prompt"
  /\ backend' = "none"
  /\ wire' = Append(wire, <<"open", pending>>)
  /\ UNCHANGED <<renderer, entry, asked, pty, prompts, missed>>

Next ==
  \/ InitTab \/ Resized \/ SendAgain \/ HandleOpen \/ HandleResize
  \/ Connected \/ Prompted \/ Trusted

-----------------------------------------------------------------------------
\* "the pty would stay stuck at 80x24 forever" (index.js:74): once nothing is
\* under way the pty has the size on screen.  Excused is a size that found
\* another one kept for the session, or one kept that differs in rows only,
\* unless a later one arrives.
PtyFollows == backend = "up" /\ wire = <<>> => pty = shown \/ missed

\* Why: a session is opened once at a time; the last size on its way is the one
\* on screen and, when none is, that one was kept, applied or dropped.
OpenedOnce ==
  /\ retries = None => wire = <<>> /\ backend = "none"
  /\ backend \in {"connecting", "prompt"} => asked \in Sizes
  /\ \A k \in 1..Len(wire) : wire[k][1] = "open" =>
       /\ backend = "none" /\ wire[k][2] \in Sizes
       /\ \A j \in 1..Len(wire) : wire[j][1] = "open" => j = k
  /\ retries # None => pending \in Sizes

LastSizeCounts ==
  /\ \A k \in 1..Len(wire) :
       wire[k][1] = "resize" /\ (\A j \in k + 1..Len(wire) : wire[j][1] = "open") => wire[k][2] = shown
  /\ retries # None /\ (\A k \in 1..Len(wire) : wire[k][1] = "open") =>
       \/ missed
       \/ IF backend = "up" THEN pty = shown ELSE entry = shown

IInv == TypeOK /\ OpenedOnce /\ LastSizeCounts
=============================================================================
