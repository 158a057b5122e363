----------------------------- MODULE CommandPalette -----------------------------
(*****************************************************************************)
(* The keyboard of the window: the command palette                           *)
(* (command-palette.component.ts), the side menus, the help dialog and the   *)
(* stack by which Escape knows what to close (shortcut.service.ts,           *)
(* modal-controller.service.ts).                                             *)
(*                                                                           *)
(* A text is a sequence of small numbers, a Separator among them; the menus, *)
(* profiles, tunnels and tabs that the palette lists are fixed, which of the *)
(* tunnels run is not.  A dialog that was told to close takes keys until its *)
(* animation is over.  What selecting a tab or adding one does is in Tabs.   *)
(*****************************************************************************)
EXTENDS Naturals, FiniteSets, SequencesExt

CONSTANTS
  Menu,      \* the side menus
  Catalog,   \* the items that never change, by group: [profiles, tabs, actions]
  Tunnel,    \* the tunnels, a sequence of [id, name, keywords]
  Start, Stop, \* how the label of a tunnel begins
  Query,     \* what is typed, trimmed and in lower case
  MaxHelps,  \* bound: help dialogs on screen at once
  None

VARIABLES
  menu,      \* the open menu, or None
  openStack, \* what Escape closes: "menu" and "help"
  dialogs,   \* the dialogs on screen, the topmost last: Palette or a number
  closing,   \* those whose animation is running
  helpRef,   \* the help dialog that the service knows of, or None
  items, query, filtered, selectedIndex, \* of the palette; filtered: positions in items
  running,   \* the tunnels that are active, starting or reconnecting
  behind,    \* the open menu was opened while a palette was on screen
  contrary   \* tunnels that did what their label did not say, though nothing had changed

vars == <<menu, openStack, dialogs, closing, helpRef, items, query, filtered,
          selectedIndex, running, behind, contrary>>

Palette == 0
Separator == 0
Help == 1 .. MaxHelps
TunnelIds == {Tunnel[i].id : i \in DOMAIN Tunnel}

TypeOK ==
  /\ menu \in Menu \cup {None} /\ helpRef \in Help \cup {None}
  /\ openStack \in Seq({"menu", "help"})
  /\ dialogs \in Seq(Help \cup {Palette}) /\ closing \subseteq Range(dialogs)
  /\ query \in Query /\ running \subseteq TunnelIds /\ behind \in BOOLEAN

IsOpen(d) == d \in Range(dialogs)

Init ==
  /\ menu = None /\ openStack = <<>> /\ dialogs = <<>> /\ closing = {} /\ helpRef = None
  /\ items = <<>> /\ query = <<>> /\ filtered = <<>> /\ selectedIndex = 0
  /\ running = {} /\ behind = FALSE /\ contrary = {}

-----------------------------------------------------------------------------
(* What the palette lists and how it is filtered.                            *)
TunnelItem(t, on) ==
  [group |-> "TUNNEL", label |-> (IF t.id \in on THEN Stop ELSE Start) \o t.name,
   keywords |-> t.keywords, does |-> "toggle", arg |-> t.id, stops |-> t.id \in on]

BuildItems(on) ==
  Catalog.profiles \o [i \in DOMAIN Tunnel |-> TunnelItem(Tunnel[i], on)]
    \o Catalog.tabs \o Catalog.actions

\* indexOf(char, position): the first place after p, or 0
NextAt(text, char, p) ==
  LET places == {j \in DOMAIN text : j > p /\ text[j] = char}
  IN IF places = {} THEN 0 ELSE Min(places)

\* where the characters of q are found in text, one after the other
Found(q, text) ==
  LET at[i \in 0 .. Len(q)] ==
        IF i = 0 THEN 0
        ELSE IF i > 1 /\ at[i - 1] = 0 THEN 0
        ELSE NextAt(text, q[i], at[i - 1])
  IN [i \in DOMAIN q |-> at[i]]

Matches(q, text) == 0 \notin Range(Found(q, text))

\* four times the score of the code, whose last term is a quarter of a length
FuzzyScore(q, text) ==
  LET at == Found(q, text)
      Bonus(i) == 4 + (IF i > 1 /\ at[i] = at[i - 1] + 1 THEN 32 ELSE 0)
                    + (IF at[i] = 1 \/ text[at[i] - 1] = Separator THEN 24 ELSE 0)
  IN FoldFunctionOnSet(LAMBDA b, sum : b + sum, 0, [i \in DOMAIN q |-> Bonus(i)], DOMAIN q)
       + (IF Len(text) < 80 THEN 80 - Len(text) ELSE 0)

\* the label is tried first, what else is known of the item only without it
Score(q, item) == FuzzyScore(q, IF Matches(q, item.label) THEN item.label ELSE item.keywords)

\* Array.prototype.sort() is stable.
ApplyFilter(q, list) ==
  IF q = <<>> THEN [i \in DOMAIN list |-> i]
  ELSE LET Before(i, j) == \/ Score(q, list[i]) > Score(q, list[j])
                           \/ Score(q, list[i]) = Score(q, list[j]) /\ i < j
       IN SetToSortSeq({i \in DOMAIN list : Matches(q, list[i].label) \/ Matches(q, list[i].keywords)},
                       Before)

-----------------------------------------------------------------------------
(* Menus, the help dialog, and the stack.                                    *)
WithoutLast(stack, kind) ==
  IF kind \in Range(stack)
  THEN RemoveAt(stack, Max({i \in DOMAIN stack : stack[i] = kind})) ELSE stack

CloseMenu == menu' = None /\ openStack' = WithoutLast(openStack, "menu") /\ behind' = FALSE

ToggleMenu(m) ==
  IF menu = m THEN CloseMenu
  ELSE /\ menu' = m /\ behind' = IsOpen(Palette)
       /\ openStack' = Append(WithoutLast(openStack, "menu"), "menu")

\* A second call closes the dialog and forgets it at once.
ShowShortcutHelp(shut) ==
  /\ IF helpRef # None
     THEN /\ closing' = shut \cup {helpRef} /\ helpRef' = None
          /\ UNCHANGED <<openStack, dialogs>>
     ELSE \E d \in Help \ Range(dialogs) :
            /\ openStack' = Append(openStack, "help") /\ dialogs' = Append(dialogs, d)
            /\ helpRef' = d /\ closing' = shut
  /\ UNCHANGED <<menu, behind>>

content == <<items, query, filtered, selectedIndex>>

MenuKey(m) ==
  ToggleMenu(m) /\ UNCHANGED <<dialogs, closing, helpRef, content, running, contrary>>
HelpKey == ShowShortcutHelp(closing) /\ UNCHANGED <<content, running, contrary>>

\* A local terminal, a connection, or the menu's own button: the menu goes, its
\* place on the stack stays.
CloseModal ==
  /\ menu # None /\ menu' = None /\ behind' = FALSE
  /\ UNCHANGED <<openStack, dialogs, closing, helpRef, content, running, contrary>>

ToggleCommandPalette ==
  /\ IF IsOpen(Palette)
     THEN /\ closing' = closing \cup {Palette}
          /\ UNCHANGED <<menu, openStack, dialogs, behind, content>>
     ELSE /\ menu' = None /\ behind' = FALSE /\ openStack' = Append(openStack, "menu")
          /\ dialogs' = Append(dialogs, Palette) /\ items' = BuildItems(running)
          /\ query' = <<>> /\ filtered' = ApplyFilter(<<>>, items') /\ selectedIndex' = 0
          /\ UNCHANGED closing
  /\ UNCHANGED <<helpRef, running, contrary>>

\* The dialog on top closes by itself; the service hears the key as well.
Escape ==
  LET shut == IF dialogs = <<>> THEN closing ELSE closing \cup {Last(dialogs)}
      top == IF openStack = <<>> THEN "none" ELSE Last(openStack)
  IN /\ IF top = "help" /\ helpRef # None
        THEN /\ openStack' = Front(openStack) /\ closing' = shut \cup {helpRef}
             /\ UNCHANGED <<menu, behind>>
        ELSE /\ closing' = shut
             /\ IF top = "menu" THEN CloseMenu ELSE UNCHANGED <<menu, openStack, behind>>
     /\ UNCHANGED <<dialogs, helpRef, content, running, contrary>>

\* the backdrop, or the button of the help
Dismiss ==
  /\ dialogs # <<>> /\ closing' = closing \cup {Last(dialogs)}
  /\ UNCHANGED <<menu, openStack, dialogs, helpRef, behind, content, running, contrary>>

\* afterClosed(): whichever help is gone, the service forgets the one it knows.
AfterClosed(d) ==
  /\ d \in closing /\ closing' = closing \ {d} /\ dialogs' = Remove(dialogs, d)
  /\ openStack' = WithoutLast(openStack, IF d = Palette THEN "menu" ELSE "help")
  /\ helpRef' = IF d = Palette THEN helpRef ELSE None
  /\ IF d = Palette
     THEN items' = <<>> /\ query' = <<>> /\ filtered' = <<>> /\ selectedIndex' = 0
     ELSE UNCHANGED content
  /\ UNCHANGED <<menu, behind, running, contrary>>

-----------------------------------------------------------------------------
(* The palette at work.                                                      *)
Type(q) ==
  /\ IsOpen(Palette) /\ q # query /\ query' = q
  /\ filtered' = ApplyFilter(q, items) /\ selectedIndex' = 0
  /\ UNCHANGED <<menu, openStack, dialogs, closing, helpRef, items, running, behind, contrary>>

Selects(i) ==
  /\ selectedIndex' = i
  /\ UNCHANGED <<menu, openStack, dialogs, closing, helpRef, items, query, filtered,
                 running, behind, contrary>>

\* delta is 1 or Len(filtered) - 1: one down or one up
MoveSelection(delta) ==
  /\ IsOpen(Palette) /\ filtered # <<>>
  /\ Selects((selectedIndex + delta) % Len(filtered))
Home == IsOpen(Palette) /\ Selects(0)
End == IsOpen(Palette) /\ Selects(IF filtered = <<>> THEN 0 ELSE Len(filtered) - 1)
Hover(i) == IsOpen(Palette) /\ i \in 0 .. Len(filtered) - 1 /\ Selects(i)

\* toggleTunnel() asks again what the tunnel does: the label may be older.
ToggleTunnel(item) ==
  LET on == item.arg \in running
  IN /\ running' = IF on THEN running \ {item.arg} ELSE running \cup {item.arg}
     /\ contrary' = IF items = BuildItems(running) /\ on # item.stops
                    THEN contrary \cup {item.arg} ELSE contrary

RunSelected ==
  /\ IsOpen(Palette) /\ selectedIndex + 1 \in DOMAIN filtered
  /\ LET item == items[filtered[selectedIndex + 1]]
         shut == closing \cup {Palette}
     IN \/ /\ item.does = "connect" /\ closing' = shut
           /\ menu' = None /\ behind' = FALSE
           /\ UNCHANGED <<openStack, dialogs, helpRef, running, contrary>>
        \/ /\ item.does = "toggle" /\ closing' = shut /\ ToggleTunnel(item)
           /\ UNCHANGED <<menu, openStack, dialogs, helpRef, behind>>
        \/ /\ item.does = "menu" /\ closing' = shut /\ ToggleMenu(item.arg)
           /\ UNCHANGED <<dialogs, helpRef, running, contrary>>
        \/ /\ item.does = "help" /\ ShowShortcutHelp(shut) /\ UNCHANGED <<running, contrary>>
        \/ /\ item.does = "tab" /\ closing' = shut
           /\ UNCHANGED <<menu, openStack, dialogs, helpRef, running, behind, contrary>>
  /\ UNCHANGED content

\* a tunnel starts, reconnects or ends, whoever asked for it
TunnelChanges(t) ==
  /\ running' = IF t \in running THEN running \ {t} ELSE running \cup {t}
  /\ UNCHANGED <<menu, openStack, dialogs, closing, helpRef, content, behind, contrary>>

Next ==
  \/ \E m \in Menu : MenuKey(m)
  \/ HelpKey \/ CloseModal \/ ToggleCommandPalette \/ Escape \/ Dismiss
  \/ \E d \in closing : AfterClosed(d)
  \/ \E q \in Query : Type(q)
  \/ MoveSelection(1) \/ MoveSelection(Len(filtered) - 1) \/ Home \/ End
  \/ \E i \in 0 .. Len(items) : Hover(i)
  \/ RunSelected
  \/ \E t \in TunnelIds : TunnelChanges(t)

-----------------------------------------------------------------------------
IsSubsequence(q, text) ==
  \E f \in [DOMAIN q -> DOMAIN text] :
    /\ \A i \in DOMAIN q : text[f[i]] = q[i]
    /\ \A i, j \in DOMAIN q : i < j => f[i] < f[j]

\* "Subsequence fuzzy match": the palette offers just the items whose label, or
\* whose keywords, hold the query in this order, and each once
\* (command-palette.component.ts, applyFilter and fuzzyScore).
FilterFinds ==
  /\ Range(filtered) = {i \in DOMAIN items : \/ IsSubsequence(query, items[i].label)
                                             \/ IsSubsequence(query, items[i].keywords)}
  /\ Len(filtered) = Cardinality(Range(filtered))

\* A row is highlighted whenever there is one (command-palette.component.ts).
SelectionInList == filtered # <<>> => selectedIndex < Len(filtered)

\* What Escape thinks is open does not outgrow what is: one stale menu at most,
\* and a help for each help on screen (shortcut.service.ts, openStack).
StackFollows ==
  LET Count(kind) == Cardinality({i \in DOMAIN openStack : openStack[i] = kind})
  IN /\ Count("menu") <= 1 + Cardinality({Palette} \cap Range(dialogs))
     /\ Count("help") <= Cardinality(Help \cap Range(dialogs))

\* Escape closes an open menu, once the dialogs above it are gone, unless it was
\* opened while a palette was on screen: the palette takes its place on the
\* stack with it (shortcut.service.ts, onKeydown).
EscapeReaches ==
  menu # None /\ dialogs = <<>> /\ ~behind => openStack # <<>> /\ Last(openStack) = "menu"

\* A tunnel is started by "Start" and stopped by "Stop" as long as what runs is
\* what the palette was built from (command-palette.component.ts, toggleTunnel).
TogglesAsLabelled == contrary = {}
==============================================================================
