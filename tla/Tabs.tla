--------------------------------- MODULE Tabs ---------------------------------
(*****************************************************************************)
(* The tabs of the window and its one or two panes (tab.service.ts), as the  *)
(* user, the AI and failing sessions open, close and move them               *)
(* (app.component.ts, shortcut.service.ts, command-palette.component.ts,     *)
(* PluginSession.ts).  The service keeps one list of tabs and, per pane, the *)
(* index of its selected tab; the mat-tab-group of a pane (external) has an  *)
(* index of its own, which follows the tab it shows when the list changes.   *)
(* Indices count from 0, ids from 1; a click and what it bubbles to is one   *)
(* event, rendered once (eventCoalescing, app.config.ts).                    *)
(*****************************************************************************)
EXTENDS Integers, Sequences, SequencesExt

CONSTANTS
  Layout,   \* directions and ratios of two panes
  MaxTabs,  \* bound: tabs ever opened
  MaxOps    \* bound: what the user does besides opening tabs

VARIABLES
  tabs,    \* _tabs: records [id, pane], in order
  index,   \* paneTabIndices
  split,   \* "off" or a layout
  active,  \* activePane
  group,   \* external: what each pane's mat-tab-group shows
  hand,    \* what the user has begun: a drag, or the palette with its items
  made,    \* ids given
  ops,     \* what the user did
  meant,   \* history: the tab each pane should show, as its user sees it
  astray   \* history: panes whose list changed behind the service's index

vars == <<tabs, index, split, active, group, hand, made, ops, meant, astray>>

Pane == {0, 1}
Visible(layout) == IF layout = "off" THEN {0} ELSE Pane

InPane(ts, p) ==
  LET own == SelectSeq(ts, LAMBDA t : t.pane = p)
  IN [i \in DOMAIN own |-> own[i].id]
At(list, i) == IF i + 1 \in DOMAIN list THEN list[i + 1] ELSE 0
IndexIn(list, t) == SelectInSeq(list, LAMBDA u : u = t) - 1
PaneOf(ts, t) == ts[SelectInSeq(ts, LAMBDA u : u.id = t)].pane
Ids == {tabs[i].id : i \in DOMAIN tabs}

NoGroup == [list |-> <<>>, bound |-> 0, at |-> -1, shown |-> 0]
Empty == [kind |-> "empty"]
Drag(t, i, p) == [kind |-> "drag", tab |-> t, from |-> i, pane |-> p]
Palette(ts) == [kind |-> "palette", items |-> ts]

TypeOK ==
  /\ \A i \in DOMAIN tabs : tabs[i] \in [id : 1 .. made, pane : Pane]
  /\ index \in [Pane -> -1 .. MaxTabs] /\ split \in Layout \cup {"off"}
  /\ active \in Pane /\ made \in 0 .. MaxTabs /\ ops \in 0 .. MaxOps
  /\ \A p \in Pane : /\ Range(group[p].list) \subseteq 1 .. made
                     /\ group[p].bound \in -1 .. MaxTabs
                     /\ group[p].at \in -1 .. MaxTabs /\ group[p].shown \in 0 .. made
  /\ hand.kind \in {"empty", "drag", "palette"}
  /\ meant \in [Pane -> 0 .. MaxTabs] /\ astray \subseteq Pane

Init ==
  /\ tabs = <<>> /\ index = [p \in Pane |-> 0] /\ split = "off" /\ active = 0
  /\ group = [p \in Pane |-> NoGroup] /\ hand = Empty /\ made = 0 /\ ops = 0
  /\ meant = [p \in Pane |-> 0] /\ astray = {}

-----------------------------------------------------------------------------
(* Rendering.  The group takes the index of the service when that changed    *)
(* since it last did, else what was clicked, else its own; when a new list   *)
(* leaves that where it was, it follows the tab it shows, and says nothing;  *)
(* otherwise it shows the tab there, and tells the service.                  *)
Clamp(list, i) == IF i >= Len(list) THEN Len(list) - 1
                  ELSE IF i < 0 /\ list # <<>> THEN 0 ELSE i

Rendered(g, list, i, clicked) ==
  LET want == IF i # g.bound THEN i ELSE clicked
      to   == Clamp(list, want)
      kept == IndexIn(list, g.shown)
      follows == list # g.list /\ to = g.at /\ kept # -1
      at   == IF follows THEN kept ELSE to
      told == IF follows \/ to = g.at THEN i ELSE to
  IN [group |-> [list |-> list, bound |-> told, at |-> at, shown |-> At(list, at)],
      index |-> told]

\* panes that lost a tab since they were rendered
Behind == {p \in Visible(split) : group[p].list # InPane(tabs, p)}

\* An event leaves the list ts, indices is and a layout, and the window is
\* rendered.  clicked: labels that were clicked; asked: tabs that were asked
\* for; spared: panes where the code picks another tab than its user would.
Settles(ts, is, layout, clicked, asked, spared) ==
  LET shows(p) == IF p \in Visible(layout)
                  THEN Rendered(group[p], InPane(ts, p), is[p],
                                IF p \in DOMAIN clicked THEN clicked[p] ELSE group[p].at)
                  ELSE [group |-> NoGroup, index |-> is[p]]
      asks(p)  == IF p \in DOMAIN asked THEN asked[p] ELSE meant[p]
      merged   == IF split # "off" /\ layout = "off" THEN {0} ELSE {}
      late     == IF hand.kind = "palette" THEN spared ELSE {}
  IN /\ tabs' = ts /\ split' = layout
     /\ group' = [p \in Pane |-> shows(p).group]
     /\ index' = [p \in Pane |-> shows(p).index]
     /\ meant' = [p \in Pane |->
          IF p \in spared \cup astray \/ asks(p) \notin Range(InPane(ts, p))
          THEN shows(p).group.shown ELSE asks(p)]
     /\ astray' = {p \in astray \cup Behind \cup merged \cup late :
                     At(InPane(ts, p), shows(p).index) # shows(p).group.shown}

Nothing == [p \in {} |-> 0]
Does == /\ hand = Empty /\ ops < MaxOps /\ ops' = ops + 1
        /\ UNCHANGED <<hand, made>>

-----------------------------------------------------------------------------
(* Opening.                                                                  *)
Adds(p) ==
  /\ made < MaxTabs /\ made' = made + 1
  /\ LET ts == Append(tabs, [id |-> made + 1, pane |-> p])
     IN Settles(ts, [index EXCEPT ![p] = Len(InPane(ts, p)) - 1], split,
                Nothing, [q \in {p} |-> made + 1], Behind)

\* menus, shortcuts, and the tools of the AI, whatever the user is doing
OpenTab == Adds(active) /\ UNCHANGED <<active, hand, ops>>

\* the files of a terminal's host, or a terminal of a file list's: in the
\* other pane
OpenBeside(p) ==
  /\ hand = Empty /\ p \in Visible(split) /\ group[p].shown # 0
  /\ active' = IF split = "off" THEN active
               ELSE IF group[p].shown \in Ids THEN 1 - PaneOf(tabs, group[p].shown)
               ELSE 1 - active
  /\ Adds(active') /\ UNCHANGED <<hand, ops>>

-----------------------------------------------------------------------------
(* Closing.                                                                  *)

\* The session fails, or its key is refused: outside of Angular, so that the
\* window may be rendered later.
RemoveById(t) ==
  /\ tabs' = SelectSeq(tabs, LAMBDA u : u.id # t)
  /\ UNCHANGED <<index, split, active, group, hand, made, ops, meant, astray>>

\* Of several failures at once the group can lose the tab it shows.
Render ==
  /\ Behind # {}
  /\ Settles(tabs, index, split, Nothing, Nothing,
             {p \in Behind : Len(group[p].list) > Len(InPane(tabs, p)) + 1})
  /\ UNCHANGED <<active, hand, made, ops>>

\* the list and the indices once the tab at index i of pane p is closed
Closed(i, p) ==
  LET list == InPane(tabs, p)
  IN IF i \in 0 .. Len(list) - 1
     THEN [tabs  |-> SelectSeq(tabs, LAMBDA u : u.id # At(list, i)),
           index |-> IF i <= index[p] /\ index[p] # 0
                     THEN [index EXCEPT ![p] = @ - 1] ELSE index]
     ELSE [tabs |-> tabs, index |-> index]

\* the cross of a label: the click also reaches the label and the pane
CloseTab(p, i) ==
  LET c == Closed(i, p)
  IN /\ p \in Visible(split) /\ i + 1 \in DOMAIN group[p].list
     /\ Settles(c.tabs, c.index, split, [q \in {p} |-> i], Nothing,
                Behind \cup IF i > group[p].at THEN {p} ELSE {})
     /\ active' = p /\ Does

\* its middle button
MiddleClick(p, i) ==
  LET c == Closed(i, p)
  IN /\ p \in Visible(split) /\ i + 1 \in DOMAIN group[p].list
     /\ Settles(c.tabs, c.index, split, Nothing, Nothing, Behind)
     /\ Does /\ UNCHANGED active

\* the shortcut, or the palette
CloseCurrentTab ==
  LET c == Closed(index[active], active)
  IN /\ Settles(c.tabs, c.index, split, Nothing, Nothing, Behind)
     /\ Does /\ UNCHANGED active

-----------------------------------------------------------------------------
(* Selecting.                                                                *)
SelectTab(p, i) ==
  /\ p \in Visible(split) /\ i + 1 \in DOMAIN group[p].list
  /\ Settles(tabs, index, split, [q \in {p} |-> i],
             [q \in {p} |-> At(group[p].list, i)], Behind)
  /\ active' = p /\ Does

SetActivePane(p) ==
  /\ p \in Visible(split) \ {active} /\ active' = p
  /\ Settles(tabs, index, split, Nothing, Nothing, Behind) /\ Does

\* step is 1 for nextTab, -1 for prevTab
CycleTab(step) ==
  LET list == InPane(tabs, active)
      turn(i) == (i + step + Len(list)) % Len(list)
  IN /\ Len(list) > 1
     /\ Settles(tabs, [index EXCEPT ![active] = turn(@)], split, Nothing,
                [q \in {active} |-> At(list, turn(group[active].at))], Behind)
     /\ Does /\ UNCHANGED active

\* The palette lists the tabs as it opens, each with its index then.
OpenPalette ==
  /\ hand = Empty /\ ops < MaxOps /\ ops' = ops + 1
  /\ hand' = Palette(tabs) /\ UNCHANGED <<active, made>>
  /\ Settles(tabs, index, split, Nothing, Nothing, Behind)

RunPaletteItem(n) ==
  /\ hand.kind = "palette" /\ n \in DOMAIN hand.items
  /\ LET t == hand.items[n]
         i == IndexIn(InPane(hand.items, t.pane), t.id)
     IN /\ active' = t.pane
        /\ Settles(tabs, [index EXCEPT ![t.pane] = i], split, Nothing,
                   [q \in {t.pane} |-> t.id],
                   Behind \cup IF At(InPane(tabs, t.pane), i) = t.id THEN {} ELSE {t.pane})
  /\ hand' = Empty /\ UNCHANGED <<made, ops>>

\* The button of a disconnected tab: another session, in its place.
Reconnect(p, i) ==
  LET t == At(group[p].list, i)
      n == SelectInSeq(tabs, LAMBDA u : u.id = t)
  IN /\ p \in Visible(split) /\ i + 1 \in DOMAIN group[p].list
     /\ hand = Empty /\ ops < MaxOps /\ made < MaxTabs
     /\ ops' = ops + 1 /\ active' = p /\ UNCHANGED hand
     /\ made' = IF n = 0 THEN made ELSE made + 1
     /\ Settles(IF n = 0 THEN tabs ELSE [tabs EXCEPT ![n].id = made + 1], index, split,
                [q \in {p} |-> i], [q \in {p} |-> made'], Behind)

-----------------------------------------------------------------------------
(* Panes, and dragging.                                                      *)
ToggleSplit(layout) ==
  LET off == split = layout
  IN /\ Settles(IF off THEN [n \in DOMAIN tabs |-> [tabs[n] EXCEPT !.pane = 0]] ELSE tabs,
                index, IF off THEN "off" ELSE layout, Nothing, Nothing, Behind)
     /\ active' = IF off THEN 0 ELSE active
     /\ Does

DragStart(p, i) ==
  /\ hand = Empty /\ ops < MaxOps /\ ops' = ops + 1
  /\ p \in Visible(split) /\ i + 1 \in DOMAIN group[p].list
  /\ hand' = Drag(At(group[p].list, i), i, p) /\ UNCHANGED <<active, made>>
  /\ Settles(tabs, index, split, Nothing, Nothing, Behind)

DragEnd ==
  /\ hand # Empty /\ hand' = Empty /\ UNCHANGED <<active, made, ops>>
  /\ Settles(tabs, index, split, Nothing, Nothing, Behind)

\* the list once the tab at from is put before the one at to
Moved(from, to, p) ==
  LET places == SelectSeq([n \in DOMAIN tabs |-> n], LAMBDA n : tabs[n].pane = p)
      f == places[from + 1]
      t == IF to < Len(places) THEN places[to + 1] ELSE Len(tabs) + 1
  IN InsertAt(RemoveAt(tabs, f), IF f < t THEN t - 1 ELSE t, tabs[f])

MoveTabWithinPane(from, to, p) ==
  LET n == Len(InPane(tabs, p))
      s == index[p]
  IN IF from >= n \/ to > n \/ from = to
     THEN Settles(tabs, index, split, Nothing, Nothing, Behind)
     ELSE Settles(Moved(from, to, p),
                  [index EXCEPT ![p] =
                     IF from = s THEN (IF to > from THEN to - 1 ELSE to)
                     ELSE IF from < s /\ to >= s THEN s - 1
                     ELSE IF from > s /\ to <= s THEN s + 1 ELSE s],
                  split, Nothing, Nothing,
                  Behind \cup IF from < s /\ to = s THEN {p} ELSE {})

\* A tab that is gone meanwhile moves nothing, but selects.
MoveTabToPane(t, source, target) ==
  LET n  == SelectInSeq(tabs, LAMBDA u : u.id = t)
      at == IndexIn(InPane(tabs, source), t)
      ts == IF n = 0 THEN tabs ELSE [tabs EXCEPT ![n].pane = target]
      is == IF at # -1 /\ at <= index[source] /\ index[source] > 0
            THEN [index EXCEPT ![source] = @ - 1] ELSE index
      there == InPane(ts, target)
  IN /\ Settles(ts, [is EXCEPT ![target] = Len(there) - 1], split, Nothing,
                [q \in {target} |-> t],
                Behind \cup IF there # <<>> /\ Last(there) = t THEN {} ELSE {target})
     /\ active' = target

\* on the labels of a pane, before the one at to, or on its content
Drop(p, to) ==
  /\ hand.kind = "drag" /\ p \in Visible(split) /\ to \in 0 .. Len(group[p].list)
  /\ \/ /\ hand.pane = p /\ MoveTabWithinPane(hand.from, to, p) /\ UNCHANGED active
     \/ /\ hand.pane # p /\ split # "off" /\ to = Len(group[p].list)
        /\ MoveTabToPane(hand.tab, hand.pane, p)
  /\ hand' = Empty /\ UNCHANGED <<made, ops>>

-----------------------------------------------------------------------------
Next ==
  \/ OpenTab \/ Render \/ CloseCurrentTab \/ OpenPalette \/ DragEnd
  \/ \E t \in Ids : RemoveById(t)
  \/ \E layout \in Layout : ToggleSplit(layout)
  \/ \E step \in {1, -1} : CycleTab(step)
  \/ \E n \in 1 .. MaxTabs : RunPaletteItem(n)
  \/ \E p \in Pane :
       \/ OpenBeside(p) \/ SetActivePane(p)
       \/ \E i \in 0 .. MaxTabs :
            \/ CloseTab(p, i) \/ MiddleClick(p, i) \/ SelectTab(p, i)
            \/ Reconnect(p, i) \/ DragStart(p, i) \/ Drop(p, i)

Spec == Init /\ [][Next]_vars

-----------------------------------------------------------------------------
UpToDate(p) == p \in Visible(split) /\ p \notin Behind

\* What the shortcuts, the AI and "send to terminal" take for the selected tab
\* of a pane is the one on screen, unless a session that failed took a tab away
\* on its left or from under the palette, or two panes were merged: the index
\* stays where it was, or goes where the tab was.
SelectedIsShown ==
  \A p \in Pane : UpToDate(p) /\ p \notin astray =>
    At(InPane(tabs, p), index[p]) = group[p].shown

\* A pane shows the tab its user asked for last until it is gone, whatever is
\* opened, closed and moved around it.  Spared are a tab dropped just left of
\* it, one moved to the other pane but not to its end, the cross of a tab on its
\* right, whose click selects too, several failures at once, and panes whose
\* index is astray.
ShownIsMeant == \A p \in Pane : UpToDate(p) => group[p].shown = meant[p]

\* No tab is in a pane that is not on screen, and none can be opened there.
PanesOnScreen ==
  /\ active \in Visible(split)
  /\ \A n \in DOMAIN tabs : tabs[n].pane \in Visible(split)
==============================================================================
