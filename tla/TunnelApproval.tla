------------------------------ MODULE TunnelApproval ------------------------------
(*****************************************************************************)
(* Approval of inbound connections on publicly bound -R tunnels, across two  *)
(* processes:                                                                *)
(*   - main: TunnelService._handleInbound, its trusted sources and what      *)
(*     stop()/_teardown do to waiting approvals (tunnelService.js);          *)
(*     requestApproval with its timeout and map (adapter/ipc/tunnels.js);    *)
(*   - renderer: the dialog queue (src/app/services/                         *)
(*     tunnel-approval.service.ts).                                          *)
(* The messages between them are in flight for a while, so an answer may     *)
(* reach a request that timed out, or whose tunnel was stopped, lost its     *)
(* connection or was replaced.                                               *)
(*                                                                           *)
(* Settling the promise of requestApproval and the continuation of           *)
(* _handleInbound are one step: a promise's reaction runs before any other   *)
(* macrotask.  The life of an entry is taken from TunnelService with its     *)
(* calls collapsed; entries of one tunnel may overlap, and a client that was *)
(* overwritten still delivers channels (see the findings on TunnelService).   *)
(*****************************************************************************)
EXTENDS Naturals, Sequences

CONSTANTS
  Request,      \* inbound channels; its request is identified by the channel
  Entry,        \* tunnel entries
  Tunnel,
  Address,      \* source addresses
  NoAddress,    \* the client reported none
  TunnelOf,     \* the tunnel an entry is a generation of
  PublicEntry,  \* the entries whose rule binds 0.0.0.0
  NoEntry, NoRequest, NoOrigin

ASSUME ApprovalAssumption ==
  /\ NoAddress \notin Address
  /\ TunnelOf \in [Entry -> Tunnel]
  /\ PublicEntry \subseteq Entry
  /\ NoEntry \notin Entry
  /\ NoRequest \notin Request
  /\ NoOrigin \notin [entry: Entry, address: Address \cup {NoAddress}]
  /\ NoOrigin \notin Tunnel \X (Address \cup {NoAddress})

VARIABLES
  channel,      \* the ssh2 channel: "none", "held", "accepted" or "rejected"
  origin,       \* the entry a channel came through and its source address
  entry,        \* each entry: "none", "up" (conn set), "down" or "stopped"
  current,      \* this.tunnels
  trusted,      \* this.trustedSources that have not expired
  pending,      \* pendingApprovals of adapter/ipc/tunnels.js
  toRenderer,   \* 'tunnels.approval-request' messages in flight
  toMain,       \* 'tunnels.approval-resolve' messages in flight
  window,       \* is the window alive?
  queue,        \* renderer: requests waiting for a dialog
  dialog,       \* renderer: the request the open dialog is about
  decided,      \* history: the choices the user made, by request
  running       \* FALSE once the application is quitting

mainVars     == <<channel, origin, entry, current, trusted, pending>>
rendererVars == <<window, queue, dialog, decided>>
vars == <<mainVars, toRenderer, toMain, rendererVars, running>>

Origin == [entry: Entry, address: Address \cup {NoAddress}]
Choice == {"deny", "once", "trust"}
Answer == [request: Request, approved: BOOLEAN, trustSource: BOOLEAN]
Source == Tunnel \X (Address \cup {NoAddress})

SourceOf(o) == <<TunnelOf[o.entry], o.address>>

TypeOK ==
  /\ channel \in [Request -> {"none", "held", "accepted", "rejected"}]
  /\ origin \in [Request -> Origin \cup {NoOrigin}]
  /\ entry \in [Entry -> {"none", "up", "down", "stopped"}]
  /\ current \in [Tunnel -> Entry \cup {NoEntry}]
  /\ trusted \subseteq Source
  /\ pending \subseteq Request
  /\ toRenderer \in Seq(Request)
  /\ toMain \in Seq(Answer)
  /\ window \in BOOLEAN
  /\ queue \in Seq(Request)
  /\ dialog \in Request \cup {NoRequest}
  /\ decided \subseteq Request \X Choice
  /\ running \in BOOLEAN

Init ==
  /\ channel = [r \in Request |-> "none"]
  /\ origin = [r \in Request |-> NoOrigin]
  /\ entry = [e \in Entry |-> "none"]
  /\ current = [t \in Tunnel |-> NoEntry]
  /\ trusted = {}
  /\ pending = {}
  /\ toRenderer = << >>
  /\ toMain = << >>
  /\ window = TRUE
  /\ queue = << >>
  /\ dialog = NoRequest
  /\ decided = {}
  /\ running = TRUE

-------------------------------------------------------------------------------
(* Main process: an inbound channel *)

\* The pending requests of an entry: the controllers in entry.pendingApprovals.
WaitingOn(es) == {r \in pending : origin[r].entry \in es}

\* Mutant of AbortApprovals: the controllers are cleared but not aborted.
ForgetApprovals(es) ==
  /\ pending' = pending \ WaitingOn(es)
  /\ UNCHANGED channel

\* _teardown aborts every waiting approval: each settles as not approved.
AbortApprovals(es) ==
  /\ pending' = pending \ WaitingOn(es)
  /\ channel' = [r \in Request |-> IF r \in WaitingOn(es) THEN "rejected" ELSE channel[r]]

\* A new channel through entry e from address a.
Arrives(r, e, a) ==
  /\ channel[r] = "none"
  /\ entry[e] # "none"
  /\ origin' = [origin EXCEPT ![r] = [entry |-> e, address |-> a]]
  /\ UNCHANGED <<entry, current, trusted, toMain, rendererVars, running>>

\* Mutant of Unquestioned: trust is looked up by address, whatever the tunnel.
TrustedAnywhere(e, a) ==
  e \in PublicEntry => a # NoAddress /\ \E t \in Tunnel : <<t, a>> \in trusted

\* A loopback bind, or a trusted source: accepted without asking.
Unquestioned(e, a) ==
  e \in PublicEntry => a # NoAddress /\ <<TunnelOf[e], a>> \in trusted

InboundAccepted(r, e, a) ==
  /\ Unquestioned(e, a)
  /\ Arrives(r, e, a)
  /\ channel' = [channel EXCEPT ![r] = "accepted"]
  /\ UNCHANGED <<pending, toRenderer>>

\* Held: the request goes to the renderer.
InboundHeld(r, e, a) ==
  /\ ~Unquestioned(e, a)
  /\ window
  /\ Arrives(r, e, a)
  /\ channel' = [channel EXCEPT ![r] = "held"]
  /\ pending' = pending \cup {r}
  /\ toRenderer' = Append(toRenderer, r)

\* The window is destroyed: nobody can be asked.
InboundRejected(r, e, a) ==
  /\ ~Unquestioned(e, a)
  /\ ~window
  /\ Arrives(r, e, a)
  /\ channel' = [channel EXCEPT ![r] = "rejected"]
  /\ UNCHANGED <<pending, toRenderer>>

Inbound(r, e, a) ==
  InboundAccepted(r, e, a) \/ InboundHeld(r, e, a) \/ InboundRejected(r, e, a)

\* Mutant of ApprovalTimesOut: a request is only given up with the window.
TimesOutWithoutWindow(r) ==
  /\ r \in pending
  /\ ~window
  /\ pending' = pending \ {r}
  /\ channel' = [channel EXCEPT ![r] = "rejected"]
  /\ UNCHANGED <<origin, entry, current, trusted, toRenderer, toMain, rendererVars, running>>

\* APPROVAL_TIMEOUT_MS elapsed.  The request stays in the renderer.
ApprovalTimesOut(r) ==
  /\ r \in pending
  /\ pending' = pending \ {r}
  /\ channel' = [channel EXCEPT ![r] = "rejected"]
  /\ UNCHANGED <<origin, entry, current, trusted, toRenderer, toMain, rendererVars, running>>

\* Mutant of Settle: trust is granted although the tunnel was stopped.
SettleTrustsLate(r, approved, trustSource) ==
  LET o == origin[r] IN
  /\ pending' = pending \ {r}
  /\ trusted' = IF approved /\ trustSource /\ o.address # NoAddress
                THEN trusted \cup {SourceOf(o)} ELSE trusted
  /\ channel' = [channel EXCEPT ![r] =
                   IF approved /\ entry[o.entry] = "up" THEN "accepted" ELSE "rejected"]

\* Mutant of Settle: the address is trusted, not the address on this tunnel.
SettleTrustsAddress(r, approved, trustSource) ==
  LET o == origin[r] IN
  /\ pending' = pending \ {r}
  /\ trusted' = IF approved /\ trustSource /\ o.address # NoAddress /\ entry[o.entry] # "stopped"
                THEN trusted \cup {o.address} ELSE trusted
  /\ channel' = [channel EXCEPT ![r] =
                   IF approved /\ entry[o.entry] = "up" THEN "accepted" ELSE "rejected"]

\* The continuation of _handleInbound after a positive or negative outcome.
Settle(r, approved, trustSource) ==
  LET o == origin[r] IN
  /\ pending' = pending \ {r}
  /\ trusted' = IF approved /\ trustSource /\ o.address # NoAddress /\ entry[o.entry] # "stopped"
                THEN trusted \cup {SourceOf(o)} ELSE trusted
  /\ channel' = [channel EXCEPT ![r] =
                   IF approved /\ entry[o.entry] = "up" THEN "accepted" ELSE "rejected"]

\* An answer arrives; one about a request no longer pending is dropped.
ReceiveAnswer ==
  LET answer == Head(toMain) IN
  /\ toMain # << >>
  /\ toMain' = Tail(toMain)
  /\ \/ /\ answer.request \in pending
        /\ Settle(answer.request, answer.approved, answer.trustSource)
     \/ /\ answer.request \notin pending
        /\ UNCHANGED <<channel, pending, trusted>>
  /\ UNCHANGED <<origin, entry, current, toRenderer, rendererVars, running>>

TrustExpires(s) ==
  /\ s \in trusted
  /\ trusted' = trusted \ {s}
  /\ UNCHANGED <<channel, origin, entry, current, pending, toRenderer, toMain, rendererVars, running>>

-------------------------------------------------------------------------------
(* Renderer: one dialog at a time, first come first served *)

\* Mutant of Pump: the next dialog waits for the next request.
PumpLater(waiting) ==
  /\ dialog' = NoRequest
  /\ queue' = waiting

\* pump(), with no dialog open and `waiting` in the queue.
Pump(waiting) ==
  \/ /\ waiting = << >>
     /\ dialog' = NoRequest
     /\ queue' = << >>
  \/ /\ waiting # << >>
     /\ dialog' = Head(waiting)
     /\ queue' = Tail(waiting)

\* enqueue(): push, then pump().
RequestDelivered ==
  LET waiting == Append(queue, Head(toRenderer)) IN
  /\ toRenderer # << >>
  /\ toRenderer' = Tail(toRenderer)
  /\ \/ /\ dialog = NoRequest
        /\ Pump(waiting)
     \/ /\ dialog # NoRequest
        /\ queue' = waiting
        /\ UNCHANGED dialog
  /\ UNCHANGED <<mainVars, toMain, window, decided, running>>

\* The user closes the dialog: the choice is sent and the next dialog opens.
DialogClosed(choice) ==
  /\ dialog # NoRequest
  /\ decided' = decided \cup {<<dialog, choice>>}
  /\ toMain' = Append(toMain,
       [request |-> dialog, approved |-> choice # "deny", trustSource |-> choice = "trust"])
  /\ Pump(queue)
  /\ UNCHANGED <<mainVars, toRenderer, window, running>>

\* The window goes away with its queue and dialog.
WindowDestroyed ==
  /\ window
  /\ window' = FALSE
  /\ toRenderer' = << >>
  /\ queue' = << >>
  /\ dialog' = NoRequest
  /\ UNCHANGED <<mainVars, toMain, decided, running>>

-------------------------------------------------------------------------------
(* Life of the entries, as far as approvals depend on it *)

\* The entries that were the current one of a tunnel.
Generations(t) == {e \in Entry : TunnelOf[e] = t /\ entry[e] # "none"}

\* start(): a new entry; the one read before its await, if any, is torn down.
EntryStarts(t, e, existing) ==
  /\ running
  /\ TunnelOf[e] = t
  /\ entry[e] = "none"
  /\ current' = [current EXCEPT ![t] = e]
  /\ entry' = [x \in Entry |->
       IF x = e THEN "down"
       ELSE IF x = existing /\ entry[x] = "up" THEN "down"
       ELSE entry[x]]
  /\ AbortApprovals({existing})
  /\ UNCHANGED <<origin, trusted, toRenderer, toMain, rendererVars, running>>

\* start() or _restart() sets entry.conn.
EntryConnects(e) ==
  /\ entry[e] = "down"
  /\ entry' = [entry EXCEPT ![e] = "up"]
  /\ UNCHANGED <<channel, origin, current, trusted, pending, toRenderer, toMain, rendererVars, running>>

\* _onConnClose, _fail or a failed _restart: torn down, not stopped.
ConnectionLost(e) ==
  /\ entry[e] \in {"up", "down"}
  /\ entry' = [entry EXCEPT ![e] = "down"]
  /\ AbortApprovals({e})
  /\ UNCHANGED <<origin, current, trusted, toRenderer, toMain, rendererVars, running>>

StopEntries(es) ==
  /\ running
  /\ entry' = [e \in Entry |-> IF e \in es THEN "stopped" ELSE entry[e]]
  /\ AbortApprovals(es)
  /\ UNCHANGED <<origin, current, toRenderer, toMain, rendererVars>>

\* stop(): trust in sources of the tunnel ends with it.
Stop(t) ==
  /\ current[t] # NoEntry
  /\ StopEntries({current[t]})
  /\ trusted' = {s \in trusted : s[1] # t}
  /\ UNCHANGED running

Started == {t \in Tunnel : current[t] # NoEntry}

StopAll ==
  /\ StopEntries({current[t] : t \in Started})
  /\ trusted' = {s \in trusted : s[1] \notin Started}
  /\ UNCHANGED running

\* 'will-quit' keeps the trusted sources: the process ends with them.
WillQuit ==
  /\ StopEntries({current[t] : t \in Started})
  /\ running' = FALSE
  /\ UNCHANGED trusted

-------------------------------------------------------------------------------

LifeCycle ==
  \/ \E t \in Tunnel, e \in Entry :
       \E existing \in Generations(t) \cup {NoEntry} : EntryStarts(t, e, existing)
  \/ \E e \in Entry : EntryConnects(e) \/ ConnectionLost(e)
  \/ \E t \in Tunnel : Stop(t)
  \/ StopAll
  \/ WillQuit

Next ==
  \/ \E r \in Request, e \in Entry, a \in Address \cup {NoAddress} : Inbound(r, e, a)
  \/ \E r \in Request : ApprovalTimesOut(r)
  \/ ReceiveAnswer
  \/ \E s \in trusted : TrustExpires(s)
  \/ RequestDelivered
  \/ \E choice \in Choice : DialogClosed(choice)
  \/ WindowDestroyed
  \/ LifeCycle

Spec == Init /\ [][Next]_vars

\* Only the timeout is certain: neither the user nor the renderer need answer.
Fairness == \A r \in Request : WF_vars(ApprovalTimesOut(r))

FairSpec == Spec /\ Fairness

-------------------------------------------------------------------------------
(* Properties *)

\* Every channel the SSH server waits on has a live request, whose timer will
\* settle it, and no request outlives its channel: no path of settling (answer,
\* timeout, stop, lost connection, dead window) forgets one side.
HeldIffPending ==
  \A r \in Request : channel[r] = "held" <=> r \in pending

\* "Explicit user stop ends trust" (tunnelService.js:329): while every entry of
\* a tunnel is stopped, none of its sources is trusted, whatever answers were
\* on their way when it stopped.
StopWithdrawsTrust ==
  running =>
    \A s \in trusted : \E e \in Entry :
      TunnelOf[e] = s[1] /\ entry[e] \in {"up", "down"}

\* "One dialog at a time, FIFO": the queue moves on whenever a dialog closes,
\* so no request waits behind nothing.
NoIdleQueue == queue # << >> => dialog # NoRequest

\* Where each channel came from, and which came in through a public bind.
Origins == [r \in Request |-> IF origin[r] = NoOrigin THEN NoOrigin ELSE SourceOf(origin[r])]
Exposed == {r \in Request : origin[r] # NoOrigin /\ origin[r].entry \in PublicEntry}

\* Nothing is let in without the user's decision or trust: see ApprovalGate.
Gate == INSTANCE ApprovalGate WITH
  Anonymous <- Tunnel \X {NoAddress},
  NoSource  <- NoOrigin,
  source    <- Origins,
  exposed   <- Exposed

ConsentGate == Gate!GateSpec

\* The SSH server is never left waiting for an answer: an open channel is
\* accepted or rejected in the end, even if nobody ever answers the dialog.
HeldSettles ==
  \A r \in Request : channel[r] = "held" ~> channel[r] # "held"

===============================================================================
