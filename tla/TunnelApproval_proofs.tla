--------------------------- MODULE TunnelApproval_proofs ---------------------------
(*****************************************************************************)
(* Proofs about TunnelApproval, for any number of channels, tunnels,         *)
(* entries and addresses: its invariants, and that it implements             *)
(* ApprovalGate.                                                             *)
(*****************************************************************************)
EXTENDS TunnelApproval, TLAPS

\* A channel has an origin once it has arrived, and the entry it came through exists.
Arrived ==
  \A r \in Request :
    IF channel[r] = "none" THEN origin[r] = NoOrigin
                           ELSE origin[r] # NoOrigin /\ entry[origin[r].entry] # "none"

\* The map holds entries of their own tunnel.
OwnEntries == \A t \in Tunnel : current[t] # NoEntry => TunnelOf[current[t]] = t

\* A positive answer on its way was a choice of the user.
Backed(a) ==
  a.approved => <<a.request, IF a.trustSource THEN "trust" ELSE "once">> \in decided

AnswersBacked == \A i \in 1..Len(toMain) : Backed(toMain[i])

\* HeldIffPending and StopWithdrawsTrust need to know where the pending requests
\* and the current entries belong; the refinement also needs AnswersBacked.
AInv ==
  /\ TypeOK
  /\ HeldIffPending
  /\ Arrived
  /\ OwnEntries
  /\ AnswersBacked
  /\ StopWithdrawsTrust

-------------------------------------------------------------------------------
(* Type correctness *)

\* Aborting the approvals of some entries keeps the types.
LEMMA AbortType ==
  ASSUME TypeOK, NEW es, AbortApprovals(es)
  PROVE  /\ channel' \in [Request -> {"none", "held", "accepted", "rejected"}]
         /\ pending' \subseteq Request
  BY DEF TypeOK, AbortApprovals

\* Settling a pending request keeps the types.
LEMMA SettleType ==
  ASSUME AInv, NEW r \in pending, NEW approved \in BOOLEAN, NEW trustSource \in BOOLEAN,
         Settle(r, approved, trustSource)
  PROVE  /\ channel' \in [Request -> {"none", "held", "accepted", "rejected"}]
         /\ pending' \subseteq Request
         /\ trusted' \subseteq Source
<1>1. r \in Request /\ origin[r] \in Origin
  BY DEF AInv, TypeOK, HeldIffPending, Arrived
<1>2. SourceOf(origin[r]) \in Source
  BY <1>1, ApprovalAssumption DEF SourceOf, Source, Origin
<1>3. QED BY <1>1, <1>2 DEF Settle, AInv, TypeOK

\* The head of a queue is one of its elements, and its tail a queue.
LEMMA HeadTail ==
  ASSUME NEW S, NEW q \in Seq(S), q # << >>
  PROVE  /\ Head(q) \in S
         /\ Tail(q) \in Seq(S)
  OBVIOUS

\* pump() takes the next request from the queue.
LEMMA PumpType ==
  ASSUME NEW waiting \in Seq(Request), Pump(waiting)
  PROVE  dialog' \in Request \cup {NoRequest} /\ queue' \in Seq(Request)
<1>1. CASE waiting = << >> BY <1>1 DEF Pump
<1>2. CASE waiting # << >> BY <1>2, HeadTail DEF Pump
<1>3. QED BY <1>1, <1>2

\* Every step keeps the types.
LEMMA TypeStep == AInv /\ [Next]_vars => TypeOK'
<1> SUFFICES ASSUME AInv, [Next]_vars PROVE TypeOK'
  OBVIOUS
<1>0. TypeOK BY DEF AInv
<1> USE DEF mainVars, rendererVars
<1>1. ASSUME NEW r \in Request, NEW e \in Entry, NEW a \in Address \cup {NoAddress}, Inbound(r, e, a)
      PROVE  TypeOK'
  <2>1. /\ origin' = [origin EXCEPT ![r] = [entry |-> e, address |-> a]]
        /\ UNCHANGED <<entry, current, trusted, toMain, rendererVars, running>>
    BY <1>1 DEF Inbound, InboundAccepted, InboundHeld, InboundRejected, Arrives
  <2>2. origin' \in [Request -> Origin \cup {NoOrigin}] BY <1>0, <2>1 DEF TypeOK, Origin
  <2>3. /\ channel' \in [Request -> {"none", "held", "accepted", "rejected"}]
        /\ pending' \subseteq Request
        /\ toRenderer' \in Seq(Request)
    <3>1. CASE InboundHeld(r, e, a) BY <1>0, <3>1 DEF TypeOK, InboundHeld
    <3>2. CASE InboundAccepted(r, e, a) BY <1>0, <3>2 DEF TypeOK, InboundAccepted
    <3>3. CASE InboundRejected(r, e, a) BY <1>0, <3>3 DEF TypeOK, InboundRejected
    <3>4. QED BY <1>1, <3>1, <3>2, <3>3 DEF Inbound
  <2>4. QED BY <1>0, <2>1, <2>2, <2>3 DEF TypeOK
<1>2. ASSUME NEW r \in Request, ApprovalTimesOut(r) PROVE TypeOK'
  BY <1>0, <1>2 DEF ApprovalTimesOut, TypeOK
<1>3. CASE ReceiveAnswer
  <2> DEFINE answer == Head(toMain)
  <2>1. answer \in Answer /\ toMain' \in Seq(Answer)
    BY <1>0, <1>3, HeadTail DEF ReceiveAnswer, TypeOK
  <2>2. CASE /\ answer.request \in pending
             /\ Settle(answer.request, answer.approved, answer.trustSource)
    <3>1. answer.approved \in BOOLEAN /\ answer.trustSource \in BOOLEAN
      BY <2>1 DEF Answer
    <3>2. /\ channel' \in [Request -> {"none", "held", "accepted", "rejected"}]
          /\ pending' \subseteq Request
          /\ trusted' \subseteq Source
      BY <2>2, <3>1, SettleType
    <3>3. QED BY <1>0, <1>3, <2>1, <3>2 DEF ReceiveAnswer, TypeOK
  <2>3. CASE UNCHANGED <<channel, pending, trusted>>
    BY <1>0, <1>3, <2>1, <2>3 DEF ReceiveAnswer, TypeOK
  <2>4. QED BY <1>3, <2>2, <2>3 DEF ReceiveAnswer
<1>4. ASSUME NEW s \in trusted, TrustExpires(s) PROVE TypeOK'
  BY <1>0, <1>4 DEF TrustExpires, TypeOK
<1>5. CASE RequestDelivered
  <2> DEFINE waiting == Append(queue, Head(toRenderer))
  <2>1. Head(toRenderer) \in Request /\ toRenderer' \in Seq(Request)
    BY <1>0, <1>5, HeadTail DEF RequestDelivered, TypeOK
  <2>2. waiting \in Seq(Request) BY <1>0, <2>1 DEF TypeOK
  <2>3. dialog' \in Request \cup {NoRequest} /\ queue' \in Seq(Request)
    BY <1>0, <1>5, <2>2, PumpType DEF RequestDelivered, TypeOK
  <2>4. QED BY <1>0, <1>5, <2>1, <2>3 DEF RequestDelivered, TypeOK
<1>6. ASSUME NEW choice \in Choice, DialogClosed(choice) PROVE TypeOK'
  <2>1. dialog \in Request BY <1>0, <1>6 DEF DialogClosed, TypeOK
  <2>2. [request |-> dialog, approved |-> choice # "deny", trustSource |-> choice = "trust"]
          \in Answer
    BY <2>1 DEF Answer
  <2>3. toMain' \in Seq(Answer) BY <1>0, <1>6, <2>2 DEF DialogClosed, TypeOK
  <2>4. dialog' \in Request \cup {NoRequest} /\ queue' \in Seq(Request)
    BY <1>0, <1>6, PumpType DEF DialogClosed, TypeOK
  <2>5. QED BY <1>0, <1>6, <2>1, <2>3, <2>4 DEF DialogClosed, TypeOK
<1>7. CASE WindowDestroyed
  <2>1. toRenderer' \in Seq(Request) /\ queue' \in Seq(Request) BY <1>7 DEF WindowDestroyed
  <2>2. QED BY <1>0, <1>7, <2>1 DEF WindowDestroyed, TypeOK
<1>8. ASSUME NEW t \in Tunnel, NEW e \in Entry, NEW existing, EntryStarts(t, e, existing)
      PROVE  TypeOK'
  BY <1>0, <1>8, AbortType DEF EntryStarts, TypeOK
<1>9. ASSUME NEW e \in Entry, EntryConnects(e) PROVE TypeOK'
  BY <1>0, <1>9 DEF EntryConnects, TypeOK
<1>10. ASSUME NEW e \in Entry, ConnectionLost(e) PROVE TypeOK'
  BY <1>0, <1>10, AbortType DEF ConnectionLost, TypeOK
<1>11. ASSUME NEW t \in Tunnel, Stop(t) PROVE TypeOK'
  BY <1>0, <1>11, AbortType DEF Stop, StopEntries, TypeOK
<1>12. CASE StopAll \/ WillQuit
  BY <1>0, <1>12, AbortType DEF StopAll, WillQuit, StopEntries, TypeOK
<1>13. CASE UNCHANGED vars BY <1>0, <1>13 DEF vars, TypeOK
<1>14. QED
  BY <1>1, <1>2, <1>3, <1>4, <1>5, <1>6, <1>7, <1>8, <1>9, <1>10, <1>11, <1>12, <1>13
  DEF Next, LifeCycle

-------------------------------------------------------------------------------
(* The invariants *)

\* Aborting settles a held channel with its request, and opens none.
LEMMA AbortEffect ==
  ASSUME TypeOK, HeldIffPending, NEW es, AbortApprovals(es)
  PROVE  /\ HeldIffPending'
         /\ \A r \in Request : channel'[r] = "none" <=> channel[r] = "none"
<1>1. ASSUME NEW r \in Request
      PROVE  /\ channel'[r] = "held" <=> r \in pending'
             /\ channel'[r] = "none" <=> channel[r] = "none"
  <2>1. CASE r \in WaitingOn(es)
    BY <2>1 DEF AbortApprovals, HeldIffPending, WaitingOn
  <2>2. CASE r \notin WaitingOn(es)
    BY <2>2 DEF AbortApprovals, HeldIffPending
  <2>3. QED BY <2>1, <2>2
<1>2. QED BY <1>1 DEF HeldIffPending

\* Every step keeps channels and pending requests in step.
LEMMA HeldStep == AInv /\ [Next]_vars => HeldIffPending'
<1> SUFFICES ASSUME AInv, [Next]_vars PROVE HeldIffPending'
  OBVIOUS
<1>0. TypeOK /\ HeldIffPending BY DEF AInv
<1> USE DEF mainVars, rendererVars
<1>1. CASE UNCHANGED <<channel, pending>> BY <1>0, <1>1 DEF HeldIffPending
<1>2. ASSUME NEW r \in Request, NEW e \in Entry, NEW a \in Address \cup {NoAddress}, Inbound(r, e, a)
      PROVE  HeldIffPending'
  <2>1. channel[r] = "none" /\ r \notin pending
    BY <1>0, <1>2
    DEF Inbound, InboundAccepted, InboundHeld, InboundRejected, Arrives, HeldIffPending
  <2>2. CASE InboundHeld(r, e, a) BY <1>0, <2>2 DEF InboundHeld, TypeOK, HeldIffPending
  <2>3. CASE InboundAccepted(r, e, a)
    BY <1>0, <2>1, <2>3 DEF InboundAccepted, TypeOK, HeldIffPending
  <2>4. CASE InboundRejected(r, e, a)
    BY <1>0, <2>1, <2>4 DEF InboundRejected, TypeOK, HeldIffPending
  <2>5. QED BY <1>2, <2>2, <2>3, <2>4 DEF Inbound
<1>3. ASSUME NEW r \in Request, ApprovalTimesOut(r) PROVE HeldIffPending'
  BY <1>0, <1>3 DEF ApprovalTimesOut, TypeOK, HeldIffPending
<1>4. CASE ReceiveAnswer
  BY <1>0, <1>1, <1>4 DEF ReceiveAnswer, Settle, TypeOK, HeldIffPending
<1>5. ASSUME NEW es, AbortApprovals(es) PROVE HeldIffPending'
  BY <1>0, <1>5, AbortEffect
<1>6. CASE LifeCycle
  BY <1>1, <1>5, <1>6
  DEF LifeCycle, EntryStarts, EntryConnects, ConnectionLost, Stop, StopAll, WillQuit, StopEntries
<1>7. CASE \/ \E s \in trusted : TrustExpires(s)
           \/ RequestDelivered
           \/ \E choice \in Choice : DialogClosed(choice)
           \/ WindowDestroyed
           \/ UNCHANGED vars
  BY <1>1, <1>7 DEF TrustExpires, RequestDelivered, DialogClosed, WindowDestroyed, vars
<1>8. QED BY <1>2, <1>3, <1>4, <1>6, <1>7 DEF Next

\* Entries never go back to "none", and only a new channel gets an origin.
LEMMA ArrivedStep == AInv /\ [Next]_vars => Arrived'
<1> SUFFICES ASSUME AInv, [Next]_vars PROVE Arrived'
  OBVIOUS
<1>0. TypeOK /\ HeldIffPending /\ Arrived BY DEF AInv
<1> USE DEF mainVars, rendererVars
<1>1. ASSUME NEW r \in Request, NEW e \in Entry, NEW a \in Address \cup {NoAddress}, Inbound(r, e, a)
      PROVE  Arrived'
  <2>1. /\ origin' = [origin EXCEPT ![r] = [entry |-> e, address |-> a]]
        /\ entry' = entry /\ entry[e] # "none"
    BY <1>1 DEF Inbound, InboundAccepted, InboundHeld, InboundRejected, Arrives
  <2>2. \A x \in Request \ {r} : channel'[x] = channel[x]
    BY <1>0, <1>1 DEF Inbound, InboundAccepted, InboundHeld, InboundRejected, TypeOK
  <2>3. [entry |-> e, address |-> a] # NoOrigin BY ApprovalAssumption
  <2>4. ASSUME NEW x \in Request
        PROVE  IF channel'[x] = "none" THEN origin'[x] = NoOrigin
               ELSE origin'[x] # NoOrigin /\ entry'[origin'[x].entry] # "none"
    <3>1. CASE x = r
      <4>1. channel'[r] # "none"
        BY <1>0, <1>1 DEF Inbound, InboundAccepted, InboundHeld, InboundRejected, TypeOK
      <4>2. QED BY <1>0, <2>1, <2>3, <3>1, <4>1 DEF TypeOK
    <3>2. CASE x # r BY <1>0, <2>1, <2>2, <3>2 DEF TypeOK, Arrived
    <3>3. QED BY <3>1, <3>2
  <2>5. QED BY <2>4 DEF Arrived
<1>2. ASSUME origin' = origin,
             \A r \in Request : channel'[r] = "none" <=> channel[r] = "none",
             \A e \in Entry : entry[e] # "none" => entry'[e] # "none"
      PROVE  Arrived'
  <2>1. ASSUME NEW r \in Request
        PROVE  IF channel'[r] = "none" THEN origin'[r] = NoOrigin
               ELSE origin'[r] # NoOrigin /\ entry'[origin'[r].entry] # "none"
    <3>1. CASE channel[r] = "none" BY <1>0, <1>2, <3>1 DEF Arrived
    <3>2. CASE channel[r] # "none"
      <4>1. origin[r] # NoOrigin /\ entry[origin[r].entry] # "none" BY <1>0, <3>2 DEF Arrived
      <4>2. origin[r].entry \in Entry BY <1>0, <4>1 DEF TypeOK, Origin
      <4>3. QED BY <1>2, <3>2, <4>1, <4>2
    <3>3. QED BY <3>1, <3>2
  <2>2. QED BY <2>1 DEF Arrived
<1>3. ASSUME NEW r \in Request, ApprovalTimesOut(r) PROVE Arrived'
  BY <1>0, <1>2, <1>3 DEF ApprovalTimesOut, TypeOK, HeldIffPending
<1>4. CASE ReceiveAnswer
  <2>1. \A r \in Request : channel'[r] = "none" <=> channel[r] = "none"
    BY <1>0, <1>4 DEF ReceiveAnswer, Settle, TypeOK, HeldIffPending
  <2>2. QED BY <1>2, <1>4, <2>1 DEF ReceiveAnswer
<1>5. ASSUME NEW es, AbortApprovals(es)
      PROVE  \A r \in Request : channel'[r] = "none" <=> channel[r] = "none"
  BY <1>0, <1>5, AbortEffect
<1>6. CASE LifeCycle
  <2>1. ASSUME NEW t \in Tunnel, NEW e \in Entry, NEW x, EntryStarts(t, e, x) PROVE Arrived'
    BY <1>2, <1>5, <2>1 DEF EntryStarts
  <2>2. ASSUME NEW e \in Entry, EntryConnects(e) PROVE Arrived'
    BY <1>0, <1>2, <2>2 DEF EntryConnects, TypeOK
  <2>3. ASSUME NEW e \in Entry, ConnectionLost(e) PROVE Arrived'
    BY <1>0, <1>2, <1>5, <2>3 DEF ConnectionLost, TypeOK
  <2>4. ASSUME NEW es, StopEntries(es) PROVE Arrived'
    BY <1>2, <1>5, <2>4 DEF StopEntries
  <2>5. QED BY <1>6, <2>1, <2>2, <2>3, <2>4 DEF LifeCycle, Stop, StopAll, WillQuit
<1>7. CASE \/ \E s \in trusted : TrustExpires(s)
           \/ RequestDelivered
           \/ \E choice \in Choice : DialogClosed(choice)
           \/ WindowDestroyed
           \/ UNCHANGED vars
  BY <1>2, <1>7 DEF TrustExpires, RequestDelivered, DialogClosed, WindowDestroyed, vars
<1>8. QED BY <1>1, <1>3, <1>4, <1>6, <1>7 DEF Next

\* The map changes only when a tunnel starts a new entry of its own.
LEMMA OwnStep == AInv /\ [Next]_vars => OwnEntries'
<1> SUFFICES ASSUME AInv, [Next]_vars PROVE OwnEntries'
  OBVIOUS
<1>0. TypeOK /\ OwnEntries BY DEF AInv
<1> USE DEF mainVars, rendererVars
<1>1. CASE UNCHANGED current BY <1>0, <1>1 DEF OwnEntries
<1>2. ASSUME NEW t \in Tunnel, NEW e \in Entry, NEW x, EntryStarts(t, e, x) PROVE OwnEntries'
  BY <1>0, <1>2 DEF EntryStarts, OwnEntries, TypeOK
<1>3. \/ UNCHANGED current
      \/ \E t \in Tunnel, e \in Entry : \E x : EntryStarts(t, e, x)
  BY DEF Next, LifeCycle, Inbound, InboundAccepted, InboundHeld, InboundRejected, Arrives,
         ApprovalTimesOut, ReceiveAnswer, TrustExpires, RequestDelivered, DialogClosed,
         WindowDestroyed, EntryConnects, ConnectionLost, Stop, StopAll, WillQuit, StopEntries, vars
<1>4. QED BY <1>1, <1>2, <1>3

\* Only a choice of the user sends an answer, and choices are never unmade.
LEMMA BackedStep == AInv /\ [Next]_vars => AnswersBacked'
<1> SUFFICES ASSUME AInv, [Next]_vars PROVE AnswersBacked'
  OBVIOUS
<1>0. TypeOK /\ AnswersBacked BY DEF AInv
<1> USE DEF mainVars, rendererVars
<1>1. CASE UNCHANGED <<toMain, decided>> BY <1>0, <1>1 DEF AnswersBacked, Backed
<1>2. CASE ReceiveAnswer
  <2>1. decided' = decided /\ toMain # << >> /\ toMain' = Tail(toMain)
    BY <1>2 DEF ReceiveAnswer
  <2>2. toMain \in Seq(Answer) BY <1>0 DEF TypeOK
  <2>3. ASSUME NEW i \in 1..Len(toMain')
        PROVE  toMain'[i].approved =>
                 <<toMain'[i].request, IF toMain'[i].trustSource THEN "trust" ELSE "once">> \in decided'
    <3>1. i + 1 \in 1..Len(toMain) /\ toMain'[i] = toMain[i + 1] BY <2>1, <2>2, <2>3
    <3>2. Backed(toMain[i + 1]) BY <1>0, <3>1 DEF AnswersBacked
    <3>3. QED BY <2>1, <3>1, <3>2 DEF Backed
  <2>4. QED BY <2>3 DEF AnswersBacked, Backed
<1>3. ASSUME NEW choice \in Choice, DialogClosed(choice) PROVE AnswersBacked'
  <2> DEFINE answer ==
        [request |-> dialog, approved |-> choice # "deny", trustSource |-> choice = "trust"]
  <2>1. /\ toMain' = Append(toMain, answer)
        /\ decided' = decided \cup {<<dialog, choice>>}
        /\ dialog \in Request
    BY <1>0, <1>3 DEF DialogClosed, TypeOK
  <2>2. toMain \in Seq(Answer) BY <1>0 DEF TypeOK
  <2>3. answer.approved => <<answer.request, IF answer.trustSource THEN "trust" ELSE "once">> \in decided'
    BY <2>1 DEF Choice
  <2>4. ASSUME NEW i \in 1..Len(toMain')
        PROVE  toMain'[i].approved =>
                 <<toMain'[i].request, IF toMain'[i].trustSource THEN "trust" ELSE "once">> \in decided'
    <3>1. CASE i = Len(toMain) + 1
      <4>1. Append(toMain, answer)[i] = answer BY <2>2, <3>1
      <4>2. toMain'[i] = answer BY <2>1, <4>1
      <4>3. QED BY <2>3, <4>2
    <3>2. CASE i \in 1..Len(toMain)
      <4>1. toMain'[i] = toMain[i] BY <2>1, <2>2, <3>2
      <4>2. QED BY <1>0, <2>1, <3>2, <4>1 DEF AnswersBacked, Backed
    <3>3. Len(toMain) \in Nat /\ Len(toMain') = Len(toMain) + 1 BY <2>1, <2>2
    <3>4. i = Len(toMain) + 1 \/ i \in 1..Len(toMain) BY <2>4, <3>3
    <3>5. QED BY <3>1, <3>2, <3>4
  <2>5. QED BY <2>4 DEF AnswersBacked, Backed
<1>4. \/ UNCHANGED <<toMain, decided>>
      \/ ReceiveAnswer
      \/ \E choice \in Choice : DialogClosed(choice)
  BY DEF Next, LifeCycle, Inbound, InboundAccepted, InboundHeld, InboundRejected, Arrives,
         ApprovalTimesOut, TrustExpires, RequestDelivered, WindowDestroyed, EntryStarts,
         EntryConnects, ConnectionLost, Stop, StopAll, WillQuit, StopEntries, vars
<1>5. QED BY <1>1, <1>2, <1>3, <1>4

\* A tunnel whose entries are all stopped trusts nobody: trust is withdrawn by
\* the step that stops the last of them, and granted only on a living one.
LEMMA TrustStep == AInv /\ [Next]_vars => StopWithdrawsTrust'
<1> SUFFICES ASSUME AInv, [Next]_vars, running'
             PROVE  \A s \in trusted' : \E e \in Entry :
                      TunnelOf[e] = s[1] /\ entry'[e] \in {"up", "down"}
  BY DEF StopWithdrawsTrust
<1>0. TypeOK /\ HeldIffPending /\ Arrived /\ OwnEntries /\ StopWithdrawsTrust BY DEF AInv
<1> USE DEF mainVars, rendererVars
<1> DEFINE Live(e) == entry[e] \in {"up", "down"}
<1>1. ASSUME running, trusted' \subseteq trusted,
             \A e \in Entry : Live(e) => entry'[e] \in {"up", "down"}
      PROVE  \A s \in trusted' : \E e \in Entry :
               TunnelOf[e] = s[1] /\ entry'[e] \in {"up", "down"}
  BY <1>0, <1>1 DEF StopWithdrawsTrust
<1>2. CASE running /\ UNCHANGED <<trusted, entry>> BY <1>1, <1>2
<1>3. CASE ReceiveAnswer
  <2> DEFINE answer == Head(toMain)
  <2>1. running /\ entry' = entry BY <1>3 DEF ReceiveAnswer
  <2>2. CASE UNCHANGED trusted BY <1>2, <2>1, <2>2
  <2>3. CASE /\ answer.request \in pending
             /\ Settle(answer.request, answer.approved, answer.trustSource)
             /\ trusted' # trusted
    <3> DEFINE o == origin[answer.request]
    <3>1. o \in Origin /\ entry[o.entry] # "none"
      BY <1>0, <2>3 DEF TypeOK, HeldIffPending, Arrived
    <3>2. /\ trusted' = trusted \cup {SourceOf(o)}
          /\ entry[o.entry] # "stopped"
      BY <2>3 DEF Settle
    <3>3. o.entry \in Entry /\ entry[o.entry] \in {"up", "down"} /\ SourceOf(o)[1] = TunnelOf[o.entry]
      BY <1>0, <3>1, <3>2 DEF Origin, TypeOK, SourceOf
    <3>4. QED BY <1>0, <2>1, <3>2, <3>3 DEF StopWithdrawsTrust
  <2>4. QED BY <1>3, <2>2, <2>3 DEF ReceiveAnswer
<1>4. ASSUME NEW s \in trusted, TrustExpires(s)
      PROVE  running /\ trusted' \subseteq trusted /\ entry' = entry
  BY <1>4 DEF TrustExpires
<1>5. ASSUME NEW t \in Tunnel, NEW e \in Entry, NEW x, EntryStarts(t, e, x)
      PROVE  /\ running /\ trusted' = trusted
             /\ \A y \in Entry : Live(y) => entry'[y] \in {"up", "down"}
  BY <1>0, <1>5 DEF EntryStarts, TypeOK
<1>6. ASSUME NEW e \in Entry, EntryConnects(e) \/ ConnectionLost(e)
      PROVE  /\ running /\ trusted' = trusted
             /\ \A y \in Entry : Live(y) => entry'[y] \in {"up", "down"}
  BY <1>0, <1>6 DEF EntryConnects, ConnectionLost, TypeOK
<1>7. ASSUME NEW ts \in SUBSET Tunnel, \A t \in ts : current[t] # NoEntry,
             StopEntries({current[t] : t \in ts}),
             trusted' = {s \in trusted : s[1] \notin ts}
      PROVE  \A s \in trusted' : \E e \in Entry :
               TunnelOf[e] = s[1] /\ entry'[e] \in {"up", "down"}
  <2> SUFFICES ASSUME NEW s \in trusted, s[1] \notin ts
               PROVE  \E e \in Entry : TunnelOf[e] = s[1] /\ entry'[e] \in {"up", "down"}
    BY <1>7
  <2>1. PICK e \in Entry : TunnelOf[e] = s[1] /\ entry[e] \in {"up", "down"}
    BY <1>0, <1>7 DEF StopEntries, StopWithdrawsTrust
  <2>2. e \notin {current[t] : t \in ts} BY <1>0, <1>7, <2>1 DEF OwnEntries
  <2>3. entry'[e] = entry[e] BY <1>7, <2>2 DEF StopEntries
  <2>4. QED BY <2>1, <2>3
<1>8. ASSUME NEW t \in Tunnel, Stop(t)
      PROVE  \A s \in trusted' : \E e \in Entry :
               TunnelOf[e] = s[1] /\ entry'[e] \in {"up", "down"}
  <2>1. {current[u] : u \in {t}} = {current[t]} OBVIOUS
  <2>2. StopEntries({current[u] : u \in {t}}) /\ current[t] # NoEntry
    BY <1>8, <2>1 DEF Stop
  <2>3. trusted' = {s \in trusted : s[1] \notin {t}} BY <1>8 DEF Stop
  <2>4. {t} \in SUBSET Tunnel OBVIOUS
  <2>5. QED BY <1>7, <2>2, <2>3, <2>4
<1>9. CASE StopAll
  <2>1. Started \in SUBSET Tunnel /\ \A t \in Started : current[t] # NoEntry BY DEF Started
  <2>2. QED BY <1>7, <1>9, <2>1 DEF StopAll
<1>10. CASE WillQuit BY <1>10 DEF WillQuit
<1>11. CASE LifeCycle
  BY <1>1, <1>5, <1>6, <1>8, <1>9, <1>10, <1>11 DEF LifeCycle
<1>12. CASE \/ \E r \in Request, e \in Entry, a \in Address \cup {NoAddress} : Inbound(r, e, a)
            \/ \E r \in Request : ApprovalTimesOut(r)
            \/ RequestDelivered
            \/ \E choice \in Choice : DialogClosed(choice)
            \/ WindowDestroyed
            \/ UNCHANGED vars
  BY <1>2, <1>12
  DEF Inbound, InboundAccepted, InboundHeld, InboundRejected, Arrives, ApprovalTimesOut,
      RequestDelivered, DialogClosed, WindowDestroyed, vars
<1>13. CASE \E s \in trusted : TrustExpires(s) BY <1>1, <1>4, <1>13
<1>14. QED BY <1>3, <1>11, <1>12, <1>13 DEF Next

\* The invariant holds throughout.
THEOREM ApprovalInvariant == Spec => []AInv
<1>1. Init => AInv
  BY ApprovalAssumption
  DEF Init, AInv, TypeOK, HeldIffPending, Arrived, OwnEntries, AnswersBacked, StopWithdrawsTrust
<1>2. AInv /\ [Next]_vars => AInv'
  BY TypeStep, HeldStep, ArrivedStep, OwnStep, BackedStep, TrustStep DEF AInv
<1>3. QED BY <1>1, <1>2, PTL DEF Spec

\* The variables of the approval keep their types.
THEOREM TypeCorrect == Spec => []TypeOK
<1>1. AInv => TypeOK BY DEF AInv
<1>2. QED BY <1>1, ApprovalInvariant, PTL

\* No way of settling a request (answer, timeout, stop(), lost connection, dead
\* window) leaves a channel held without a live request, or a request without
\* its channel.
THEOREM HeldChannelsHaveRequests == Spec => []HeldIffPending
<1>1. AInv => HeldIffPending BY DEF AInv
<1>2. QED BY <1>1, ApprovalInvariant, PTL

\* stop() ends trust: while every entry of a tunnel is stopped none of its
\* sources is trusted, whatever answers were under way.
THEOREM StoppedTunnelsTrustNobody == Spec => []StopWithdrawsTrust
<1>1. AInv => StopWithdrawsTrust BY DEF AInv
<1>2. QED BY <1>1, ApprovalInvariant, PTL

\* The dialog queue moves on whenever a dialog closes: no request waits behind
\* nothing.
THEOREM QueueMovesOn == Spec => []NoIdleQueue
<1>1. Init => NoIdleQueue BY DEF Init, NoIdleQueue
<1>2. AInv /\ NoIdleQueue /\ [Next]_vars => NoIdleQueue'
  <2> SUFFICES ASSUME TypeOK, NoIdleQueue, [Next]_vars PROVE NoIdleQueue'
    BY DEF AInv
  <2> USE DEF mainVars, rendererVars
  <2>1. CASE UNCHANGED <<queue, dialog>> BY <2>1 DEF NoIdleQueue
  <2>2. ASSUME NEW waiting \in Seq(Request), Pump(waiting) PROVE NoIdleQueue'
    <3>1. waiting # << >> => Head(waiting) # NoRequest BY HeadTail, ApprovalAssumption
    <3>2. QED BY <2>2, <3>1 DEF Pump, NoIdleQueue
  <2>3. CASE RequestDelivered
    <3>1. Append(queue, Head(toRenderer)) \in Seq(Request)
      BY <2>3, HeadTail DEF RequestDelivered, TypeOK
    <3>2. QED BY <2>2, <2>3, <3>1 DEF RequestDelivered, NoIdleQueue
  <2>4. ASSUME NEW choice \in Choice, DialogClosed(choice) PROVE NoIdleQueue'
    BY <2>2, <2>4 DEF DialogClosed, TypeOK
  <2>5. CASE WindowDestroyed BY <2>5 DEF WindowDestroyed, NoIdleQueue
  <2>6. CASE \/ \E r \in Request, e \in Entry, a \in Address \cup {NoAddress} : Inbound(r, e, a)
             \/ \E r \in Request : ApprovalTimesOut(r)
             \/ ReceiveAnswer
             \/ \E s \in trusted : TrustExpires(s)
             \/ LifeCycle
             \/ UNCHANGED vars
    BY <2>1, <2>6
    DEF Inbound, InboundAccepted, InboundHeld, InboundRejected, Arrives, ApprovalTimesOut,
        ReceiveAnswer, TrustExpires, LifeCycle, EntryStarts, EntryConnects, ConnectionLost,
        Stop, StopAll, WillQuit, StopEntries, vars
  <2>7. QED BY <2>3, <2>4, <2>5, <2>6 DEF Next
<1>3. QED BY <1>1, <1>2, ApprovalInvariant, PTL DEF Spec

-------------------------------------------------------------------------------
(* TunnelApproval implements ApprovalGate *)

\* Aborted approvals are withdrawn channels.
LEMMA AbortRefines ==
  ASSUME AInv, NEW es, AbortApprovals(es), origin' = origin, decided' = decided,
         NEW ss \in SUBSET Source, trusted' = trusted \ ss
  PROVE  Gate!GateNext
<1>1. WaitingOn(es) \in SUBSET Request BY DEF WaitingOn, AInv, TypeOK
<1>2. \A r \in WaitingOn(es) : channel[r] = "held"
  BY <1>1 DEF WaitingOn, AInv, HeldIffPending
<1>3. Origins' = Origins /\ Exposed' = Exposed BY DEF Origins, Exposed, SourceOf
<1>4. Gate!Withdraw(WaitingOn(es), ss)
  BY <1>2, <1>3 DEF Gate!Withdraw, AbortApprovals
<1>5. QED BY <1>1, <1>4 DEF Gate!GateNext

\* Every step is one of the gate, or one it does not see.
LEMMA RefinementStep == AInv /\ [Next]_vars => [Gate!GateNext]_(Gate!gateVars)
<1> SUFFICES ASSUME AInv, [Next]_vars
             PROVE  Gate!GateNext \/ UNCHANGED <<channel, Origins, Exposed, decided, trusted>>
  BY DEF Gate!gateVars
<1>0. TypeOK /\ HeldIffPending /\ Arrived /\ AnswersBacked BY DEF AInv
<1> USE DEF mainVars, rendererVars
<1>1. ASSUME origin' = origin PROVE Origins' = Origins /\ Exposed' = Exposed
  BY <1>1 DEF Origins, Exposed, SourceOf
<1>2. ASSUME UNCHANGED <<channel, origin, decided, trusted>>
      PROVE  UNCHANGED <<channel, Origins, Exposed, decided, trusted>>
  BY <1>1, <1>2
<1>3. ASSUME NEW r \in Request, NEW e \in Entry, NEW a \in Address \cup {NoAddress}, Inbound(r, e, a)
      PROVE  Gate!GateNext
  <2> DEFINE o == [entry |-> e, address |-> a]
             s == <<TunnelOf[e], a>>
             public == e \in PublicEntry
  <2>1. /\ channel[r] = "none"
        /\ origin' = [origin EXCEPT ![r] = o]
        /\ UNCHANGED <<decided, trusted>>
    BY <1>3 DEF Inbound, InboundAccepted, InboundHeld, InboundRejected, Arrives
  <2>2. o # NoOrigin /\ SourceOf(o) = s BY ApprovalAssumption DEF SourceOf
  <2>3. s \in Source /\ public \in BOOLEAN BY ApprovalAssumption DEF Source
  <2>4. Origins' = [Origins EXCEPT ![r] = s]
    BY <1>0, <2>1, <2>2 DEF Origins, SourceOf, TypeOK
  <2>5. origin[r] = NoOrigin BY <1>0, <2>1 DEF Arrived
  <2>6. Exposed' = IF public THEN Exposed \cup {r} ELSE Exposed
    BY <1>0, <2>1, <2>2, <2>5 DEF Exposed, TypeOK
  <2>7. \/ channel' = [channel EXCEPT ![r] = "held"]
        \/ channel' = [channel EXCEPT ![r] = "rejected"]
        \/ channel' = [channel EXCEPT ![r] = "accepted"] /\ (~public \/ s \in trusted)
    BY <1>3 DEF Inbound, InboundAccepted, InboundHeld, InboundRejected, Unquestioned
  <2>8. Gate!Arrive(r, s, public) BY <2>1, <2>4, <2>6, <2>7 DEF Gate!Arrive
  <2>9. QED BY <2>3, <2>8 DEF Gate!GateNext
<1>4. ASSUME NEW r \in Request, ApprovalTimesOut(r) PROVE Gate!GateNext
  <2>1. channel[r] = "held" BY <1>0, <1>4 DEF ApprovalTimesOut, HeldIffPending
  <2>2. Origins' = Origins /\ Exposed' = Exposed BY <1>1, <1>4 DEF ApprovalTimesOut
  <2>3. Gate!Refuse(r) BY <1>4, <2>1, <2>2 DEF ApprovalTimesOut, Gate!Refuse
  <2>4. QED BY <2>3 DEF Gate!GateNext
<1>5. CASE ReceiveAnswer
  <2> DEFINE answer == Head(toMain)
             r == answer.request
             o == origin[r]
  <2>1. Origins' = Origins /\ Exposed' = Exposed /\ decided' = decided
    BY <1>1, <1>5 DEF ReceiveAnswer
  <2>2. CASE UNCHANGED <<channel, pending, trusted>> BY <2>1, <2>2
  <2>3. CASE r \in pending /\ Settle(r, answer.approved, answer.trustSource)
    <3>1. r \in Request /\ channel[r] = "held" /\ o # NoOrigin /\ o \in Origin
      BY <1>0, <2>3 DEF TypeOK, HeldIffPending, Arrived
    <3>2. Origins[r] = SourceOf(o) BY <3>1 DEF Origins
    <3>3. o.address # NoAddress => {SourceOf(o)} \ (Tunnel \X {NoAddress}) = {SourceOf(o)}
      BY DEF SourceOf
    <3>4. o.address = NoAddress => {SourceOf(o)} \ (Tunnel \X {NoAddress}) = {}
      BY <3>1, ApprovalAssumption DEF SourceOf, Origin
    <3>5. answer.approved => <<r, IF answer.trustSource THEN "trust" ELSE "once">> \in decided
      <4>1. toMain \in Seq(Answer) /\ toMain # << >> BY <1>0, <1>5 DEF TypeOK, ReceiveAnswer
      <4>2. 1 \in 1..Len(toMain) /\ answer = toMain[1] BY <4>1
      <4>3. QED BY <1>0, <4>2 DEF AnswersBacked, Backed
    <3>6. CASE answer.approved /\ entry[o.entry] = "up"
      <4>1. channel' = [channel EXCEPT ![r] = "accepted"] BY <2>3, <3>6 DEF Settle
      <4>2. CASE answer.trustSource
        <5>1. trusted' = trusted \cup ({Origins[r]} \ (Tunnel \X {NoAddress}))
          BY <2>3, <3>2, <3>3, <3>4, <3>6, <4>2 DEF Settle
        <5>2. Gate!Admit(r) BY <2>1, <3>1, <3>5, <3>6, <4>1, <4>2, <5>1 DEF Gate!Admit
        <5>3. QED BY <3>1, <5>2 DEF Gate!GateNext
      <4>3. CASE ~answer.trustSource
        <5>1. trusted' = trusted BY <2>3, <4>3 DEF Settle
        <5>2. Gate!Admit(r) BY <2>1, <3>1, <3>5, <3>6, <4>1, <4>3, <5>1 DEF Gate!Admit
        <5>3. QED BY <3>1, <5>2 DEF Gate!GateNext
      <4>4. QED BY <4>2, <4>3
    <3>7. CASE ~(answer.approved /\ entry[o.entry] = "up")
      <4>1. channel' = [channel EXCEPT ![r] = "rejected"] BY <2>3, <3>7 DEF Settle
      <4>2. \/ trusted' = trusted
            \/ /\ <<r, "trust">> \in decided
               /\ trusted' = trusted \cup ({Origins[r]} \ (Tunnel \X {NoAddress}))
        BY <2>3, <3>2, <3>3, <3>5 DEF Settle
      <4>3. Gate!Refuse(r) BY <2>1, <3>1, <4>1, <4>2 DEF Gate!Refuse
      <4>4. QED BY <3>1, <4>3 DEF Gate!GateNext
    <3>8. QED BY <3>6, <3>7
  <2>4. QED BY <1>5, <2>2, <2>3 DEF ReceiveAnswer
<1>6. ASSUME NEW s \in trusted, TrustExpires(s) PROVE Gate!GateNext
  <2>1. Origins' = Origins /\ Exposed' = Exposed BY <1>1, <1>6 DEF TrustExpires
  <2>2. channel' = [r \in Request |-> IF r \in {} THEN "rejected" ELSE channel[r]]
    BY <1>0, <1>6 DEF TrustExpires, TypeOK
  <2>3. Gate!Withdraw({}, {s}) BY <1>6, <2>1, <2>2 DEF TrustExpires, Gate!Withdraw
  <2>4. {} \in SUBSET Request /\ {s} \in SUBSET Source BY <1>0 DEF TypeOK
  <2>5. QED BY <2>3, <2>4 DEF Gate!GateNext
<1>7. ASSUME NEW choice \in Choice, DialogClosed(choice) PROVE Gate!GateNext
  <2>1. dialog \in Request BY <1>0, <1>7 DEF DialogClosed, TypeOK
  <2>2. Origins' = Origins /\ Exposed' = Exposed BY <1>1, <1>7 DEF DialogClosed
  <2>3. Gate!Decide(dialog, choice) BY <1>7, <2>2 DEF DialogClosed, Gate!Decide
  <2>4. choice \in Gate!Choice BY DEF Choice, Gate!Choice
  <2>5. QED BY <2>1, <2>3, <2>4 DEF Gate!GateNext
<1>8. CASE RequestDelivered \/ WindowDestroyed \/ UNCHANGED vars
  BY <1>2, <1>8 DEF RequestDelivered, WindowDestroyed, vars
<1>9. ASSUME NEW es, AbortApprovals(es), origin' = origin, decided' = decided,
             \E ss \in SUBSET Source : trusted' = trusted \ ss
      PROVE  Gate!GateNext
  BY <1>9, AbortRefines
<1>10. CASE LifeCycle
  <2>1. ASSUME trusted' = trusted PROVE \E ss \in SUBSET Source : trusted' = trusted \ ss
    BY <2>1
  <2>2. ASSUME NEW t \in Tunnel, NEW e \in Entry, NEW x, EntryStarts(t, e, x) PROVE Gate!GateNext
    BY <1>9, <2>1, <2>2 DEF EntryStarts
  <2>3. CASE \E e \in Entry : EntryConnects(e) BY <1>2, <2>3 DEF EntryConnects
  <2>4. ASSUME NEW e \in Entry, ConnectionLost(e) PROVE Gate!GateNext
    BY <1>9, <2>1, <2>4 DEF ConnectionLost
  <2>5. ASSUME NEW t \in Tunnel, Stop(t) PROVE Gate!GateNext
    <3>1. trusted' = trusted \ {s \in trusted : s[1] = t} BY <2>5 DEF Stop
    <3>2. {s \in trusted : s[1] = t} \in SUBSET Source BY <1>0 DEF TypeOK
    <3>3. QED BY <1>9, <2>5, <3>1, <3>2 DEF Stop, StopEntries
  <2>6. CASE StopAll
    <3>1. trusted' = trusted \ {s \in trusted : s[1] \in Started} BY <2>6 DEF StopAll
    <3>2. {s \in trusted : s[1] \in Started} \in SUBSET Source BY <1>0 DEF TypeOK
    <3>3. QED BY <1>9, <2>6, <3>1, <3>2 DEF StopAll, StopEntries
  <2>7. CASE WillQuit BY <1>9, <2>1, <2>7 DEF WillQuit, StopEntries
  <2>8. QED BY <1>10, <2>2, <2>3, <2>4, <2>5, <2>6, <2>7 DEF LifeCycle
<1>11. QED
  BY <1>3, <1>4, <1>5, <1>6, <1>7, <1>8, <1>10 DEF Next

\* Whatever dialogs, timers and messages do, a connection from outside is let in
\* only from a trusted source or by the user's decision about it, and trust
\* comes only from such a decision.
THEOREM ConsentRequired == Spec => ConsentGate
<1>1. Init => Gate!GateInit
  BY ApprovalAssumption DEF Init, Gate!GateInit, Origins, Exposed
<1>2. QED BY <1>1, RefinementStep, ApprovalInvariant, PTL DEF Spec, ConsentGate, Gate!GateSpec

===============================================================================
