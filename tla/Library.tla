--------------------------------- MODULE Library ---------------------------------
(*****************************************************************************)
(* The user's profiles, secrets and proxies, and the menus that edit them    *)
(* (profile.service.ts, secret.service.ts, proxy.service.ts, setting.service *)
(* .ts and the components under menu/).                                      *)
(*                                                                           *)
(* Each list is an EncryptedConfigStoreService: a container in the renderer  *)
(* and a file in main.  A menu works on a copy of the container, which a     *)
(* save makes the container; the copy shares its objects with the container, *)
(* so a form changes both.  An object is <<id, load>>: every load of the     *)
(* profiles makes new objects.  A profile is what it refers to: labels (its  *)
(* group and its tags) and a secret; nothing clears a reference to a proxy.  *)
(*                                                                           *)
(* The master key is there: saves are encrypted.  The IPC channels keep      *)
(* their order.                                                              *)
(*****************************************************************************)
EXTENDS Naturals, Sequences, FiniteSets

CONSTANTS
  Profile, Secret, Proxy, Label, \* the ids there can be
  Tag,       \* the labels that are tags; the others are groups
  External,  \* the profiles of plugins whose frontends come and go
  Fresh,     \* the ids given to what the user makes
  None,      \* no secret, no object, no payload yet
  MaxLoads,  \* bound: loads of the profiles
  MaxOps     \* bound: what the user does

VARIABLES
  file, store, loaded, loads, saves, \* of each list
  heap,      \* what every profile object refers to
  gen,       \* the loads of the profiles so far
  view,      \* the menu that is open
  labels,    \* the groups and tags of the settings
  removing,  \* the label that is being removed
  external,  \* the frontends of the external plugins are registered
  unused,    \* the ids not given yet
  ops,
  deleted,   \* what the user deleted
  gone,      \* the labels and secrets that were deleted
  spared,    \* <<profile, reference>>: references a deletion could not know
  dropped    \* what was missing in a copy when it was taken, and was saved so

listVars  == <<file, store, loaded, loads, saves>>
ghostVars == <<deleted, gone, spared, dropped>>
vars == <<listVars, heap, gen, view, labels, removing, external, unused, ops,
          ghostVars>>

Kind    == {"profiles", "secrets", "proxies"}
IdOf    == [profiles |-> Profile, secrets |-> Secret, proxies |-> Proxy]
Refs    == [labels : SUBSET Label, secret : Secret \cup {None}]
NoRefs  == [labels |-> {}, secret |-> None]
Obj     == (Profile \X (0..MaxLoads)) \cup ((Secret \cup Proxy) \X {0})
Ids(objs) == {o[1] : o \in objs}

Content(h, o) == IF o \in DOMAIN h THEN h[o] ELSE NoRefs
Payload(h, objs) ==
  [x \in Ids(objs) |-> Content(h, CHOOSE o \in objs : o[1] = x)]

\* Whose copy a menu holds.
CopyOf(menu) == IF menu = "quick" THEN "profiles" ELSE menu

Closed == [menu |-> "none", copy |-> {}, own |-> None, same |-> FALSE,
           unseen |-> {}, ask |-> None]

TypeOK ==
  /\ \A k \in Kind :
       /\ DOMAIN file[k] \subseteq IdOf[k]
       /\ Ids(store[k]) \subseteq IdOf[k]
       /\ Cardinality(Ids(store[k])) = Cardinality(store[k])
       /\ loaded[k] \in BOOLEAN
  /\ heap \in [Profile \X (0..MaxLoads) -> Refs]
  /\ gen \in 0..MaxLoads
  /\ view.menu \in {"none", "profiles", "quick", "secrets", "proxies", "settings"}
  /\ view.copy \subseteq Obj
  /\ Cardinality(Ids(view.copy)) = Cardinality(view.copy)
  /\ labels \subseteq Label /\ gone \subseteq Label \cup Secret
  /\ removing \in labels \cup {None}

Init ==
  /\ \E content \in [Profile \ Fresh -> [labels : {Label \ Fresh},
                                         secret : Secret \ Fresh]] :
       file = [profiles |-> content,
               secrets |-> [s \in Secret \ Fresh |-> NoRefs],
               proxies |-> [p \in Proxy \ Fresh |-> NoRefs]]
  /\ store = [k \in Kind |-> IF k = "profiles" THEN {} ELSE (DOMAIN file[k]) \X {0}]
  /\ loaded = [k \in Kind |-> k # "profiles"]
  /\ loads = [k \in Kind |-> IF k = "profiles" THEN <<file[k]>> ELSE <<>>]
  /\ saves = [k \in Kind |-> <<>>]
  /\ heap = [o \in Profile \X (0..MaxLoads) |-> NoRefs]
  /\ gen = 0 /\ view = Closed /\ labels = Label \ Fresh /\ removing = None
  /\ external \in BOOLEAN
  /\ unused = Fresh /\ ops = 0
  /\ deleted = {} /\ gone = {} /\ spared = {} /\ dropped = {}

-----------------------------------------------------------------------------
\* Whatever is on disk or on its way to or from it.
Known(k) ==
  DOMAIN file[k] \cup
  UNION {DOMAIN saves[k][i] : i \in 1..Len(saves[k])} \cup
  UNION {DOMAIN loads[k][i] : i \in {j \in 1..Len(loads[k]) : loads[k][j] # None}}

User == ops < MaxOps /\ ops' = ops + 1

\* persist(): what is saved becomes the container and goes to main as it is now.
Persist(k, objs, h, missing) ==
  /\ store' = [store EXCEPT ![k] = objs]
  /\ saves' = [saves EXCEPT ![k] = Append(@, Payload(h, objs))]
  /\ dropped' = dropped \cup missing

\* A save of the container itself.
PersistStore(h) ==
  Persist("profiles", store["profiles"], h, Known("profiles") \ Ids(store["profiles"]))

\* reload(): ask main for the file.
Asked(k) == [loads EXCEPT ![k] = Append(@, None)]

\* Main has read the file for the oldest reload.
ReloadRead(k) ==
  \E i \in 1..Len(loads[k]) :
    /\ loads[k][i] = None /\ \A j \in 1..(i - 1) : loads[k][j] # None
    /\ loads' = [loads EXCEPT ![k][i] = file[k]]
    /\ UNCHANGED <<file, store, loaded, saves, heap, gen, view, labels, removing,
                   external, unused, ops, ghostVars>>

\* apply(): the payload is decrypted and replaces the container; or it cannot
\* be decrypted, and the list stays not loaded.
Apply(k) ==
  /\ loads[k] # <<>> /\ Head(loads[k]) # None
  /\ loads' = [loads EXCEPT ![k] = Tail(@)]
  /\ \/ UNCHANGED <<store, loaded, heap, gen, view>>
     \/ /\ k = "profiles" => gen < MaxLoads
        /\ gen' = IF k = "profiles" THEN gen + 1 ELSE gen
        /\ store' = [store EXCEPT ![k] =
                       {<<x, IF k = "profiles" THEN gen' ELSE 0>> : x \in DOMAIN Head(loads[k])}]
        /\ loaded' = [loaded EXCEPT ![k] = TRUE]
        /\ heap' = [o \in DOMAIN heap |->
                      IF k = "profiles" /\ o \in store'[k] THEN Head(loads[k])[o[1]] ELSE heap[o]]
        /\ view' = [view EXCEPT !.same = @ /\ k # CopyOf(view.menu)]
  /\ UNCHANGED <<file, saves, labels, removing, external, unused, ops, ghostVars>>

\* Main writes the file, and sends secrets and proxies back.
SaveLands(k) ==
  /\ saves[k] # <<>>
  /\ file' = [file EXCEPT ![k] = Head(saves[k])]
  /\ saves' = [saves EXCEPT ![k] = Tail(@)]
  /\ loads' = IF k = "profiles" THEN loads ELSE [loads EXCEPT ![k] = Append(@, None)]
  /\ UNCHANGED <<store, loaded, heap, gen, view, labels, removing, external,
                 unused, ops, ghostVars>>

\* Frontends of external plugins are registered, or cleared before a reload.
FrontendsChange ==
  /\ User
  /\ external' = ~external
  /\ UNCHANGED <<listVars, heap, gen, view, labels, removing, unused, ghostVars>>

-----------------------------------------------------------------------------
\* toggleMenu(): one menu is open at a time, in place of the one before; it
\* takes its copy when it opens.
Opens(menu, objs, own) ==
  /\ view.menu # menu /\ view.ask = None /\ User
  /\ view' = [Closed EXCEPT !.menu = menu, !.copy = objs, !.own = own,
                            !.unseen = IF menu = "settings" THEN {}
                                       ELSE Known(CopyOf(menu)) \ Ids(objs)]

\* ProfilesMenu: a list that is not loaded is asked for again, and copied as
\* it is; profiles without a frontend are left out.
OpenProfiles ==
  /\ Opens("profiles", {o \in store["profiles"] : o[1] \in External => external}, None)
  /\ IF loaded["profiles"]
       THEN UNCHANGED <<loaded, loads>>
       ELSE /\ Len(loads["profiles"]) + gen < MaxLoads
            /\ loads' = Asked("profiles") /\ UNCHANGED loaded
  /\ UNCHANGED <<file, store, saves, heap, gen, labels, removing, external, unused, ghostVars>>

\* QuickconnectMenu: a copy, and a new profile beside it.
OpenQuick ==
  \E x \in unused \cap Profile :
    /\ Opens("quick", store["profiles"], <<x, 0>>)
    /\ unused' = unused \ {x}
    /\ UNCHANGED <<listVars, heap, gen, labels, removing, external, ghostVars>>

OpenSecrets ==
  /\ Opens("secrets", store["secrets"], None)
  /\ UNCHANGED <<listVars, heap, gen, labels, removing, external, unused, ghostVars>>

OpenProxies ==
  /\ Opens("proxies", store["proxies"], None)
  /\ UNCHANGED <<listVars, heap, gen, labels, removing, external, unused, ghostVars>>

OpenSettings ==
  /\ Opens("settings", {}, None)
  /\ UNCHANGED <<listVars, heap, gen, labels, removing, external, unused, ghostVars>>

\* Closing undoes nothing.
CloseMenu ==
  /\ view.menu # "none" /\ view.ask = None
  /\ view' = Closed
  /\ UNCHANGED <<listVars, heap, gen, labels, removing, external, unused, ops, ghostVars>>

\* What a form of o can be filled with: the labels and the keys there are; a
\* group that is not there any more stays, a tag does not.
Filled(o) ==
  [labels : {ls \in SUBSET (labels \cup (heap[o].labels \ Tag)) : Cardinality(ls \ Tag) <= 1},
   secret : Ids(store["secrets"]) \cup {heap[o].secret, None}]

Mentions(r) == r.labels \cup ({r.secret} \ {None})

\* formToModel(): the form is written into the object it shows.
FormToModel(o, r) ==
  /\ r \in Filled(o)
  /\ heap' = [heap EXCEPT ![o] = r]
  /\ spared' = spared \cup ({o[1]} \X (Mentions(r) \cap (gone \cup {removing})))

Forms ==
  IF view.menu = "profiles" THEN view.copy
  ELSE IF view.menu = "quick" THEN {view.own} ELSE {}

\* A new profile, in the copy only; in the container when the two are one.
AddTo(o, h, copied) ==
  /\ heap' = [h EXCEPT ![o] = copied]
  /\ view' = [view EXCEPT !.copy = @ \cup {o}]
  /\ store' = IF view.same THEN [store EXCEPT !["profiles"] = @ \cup {o}] ELSE store
  /\ unused' = unused \ {o[1]}

AddTab ==
  /\ view.menu = "profiles" /\ User
  /\ \E x \in unused \cap Profile : AddTo(<<x, 0>>, heap, NoRefs)
  /\ UNCHANGED <<file, loaded, loads, saves, gen, labels, removing, external, ghostVars>>

\* onClone(): the form is written first, then the object copied, tags left out.
Clone ==
  /\ view.menu = "profiles" /\ User
  /\ \E o \in view.copy, x \in unused \cap Profile : \E r \in Filled(o) :
       /\ AddTo(<<x, 0>>, [heap EXCEPT ![o] = r], [r EXCEPT !.labels = @ \ Tag])
       /\ spared' = spared \cup ({o[1], x} \X (Mentions(r) \cap (gone \cup {removing})))
  /\ UNCHANGED <<file, loaded, loads, saves, gen, labels, removing, external, deleted, gone, dropped>>

\* onConnect(): the form is written into the object, and nothing is saved.
Connect ==
  /\ User
  /\ \E o \in Forms : \E r \in Filled(o) : FormToModel(o, r)
  /\ UNCHANGED <<listVars, gen, view, labels, removing, external, unused, deleted, gone, dropped>>

\* onSaveOne(): of the profiles menu, and of Quick connect, which then closes.
SaveProfile ==
  /\ User
  /\ \E o \in Forms : \E r \in Filled(o) :
       LET objs == {c \in view.copy : c[1] # o[1]} \cup {o} IN
       /\ FormToModel(o, r)
       /\ Persist("profiles", objs, heap', view.unseen)
       /\ view' = IF view.menu = "quick" THEN Closed
                  ELSE [view EXCEPT !.copy = objs, !.same = TRUE]
  /\ UNCHANGED <<file, loaded, loads, gen, labels, removing, external, unused, deleted, gone>>

DeleteProfile ==
  /\ view.menu = "profiles" /\ User
  /\ \E o \in view.copy :
       /\ Persist("profiles", view.copy \ {o}, heap, view.unseen)
       /\ view' = [view EXCEPT !.copy = @ \ {o}, !.same = TRUE]
       /\ deleted' = deleted \cup {o[1]}
  /\ UNCHANGED <<file, loaded, loads, heap, gen, labels, removing, external, unused, gone, spared>>

\* toggleFavorite(): a file tab changes a path and saves the container.
SaveFavourite ==
  /\ User /\ gen > 0
  /\ PersistStore(heap)
  /\ UNCHANGED <<file, loaded, loads, heap, gen, view, labels, removing, external, unused,
                 deleted, gone, spared>>

-----------------------------------------------------------------------------
\* The secrets and proxies menus: a key is made or edited and the copy saved.
SaveKey(k) ==
  /\ view.menu = k /\ view.ask = None /\ User
  /\ \E x \in Ids(view.copy) \cup (unused \cap IdOf[k]) :
       /\ Persist(k, view.copy \cup {<<x, 0>>}, heap, view.unseen)
       /\ view' = [view EXCEPT !.copy = @ \cup {<<x, 0>>}, !.same = TRUE]
       /\ unused' = unused \ {x}
  /\ UNCHANGED <<file, loaded, loads, heap, gen, labels, removing, external, deleted, gone, spared>>

SaveSecret == SaveKey("secrets")
SaveProxy  == SaveKey("proxies")

DeleteProxy ==
  /\ view.menu = "proxies" /\ User
  /\ \E o \in view.copy :
       /\ Persist("proxies", view.copy \ {o}, heap, view.unseen)
       /\ view' = [view EXCEPT !.copy = @ \ {o}, !.same = TRUE]
       /\ deleted' = deleted \cup {o[1]}
  /\ UNCHANGED <<file, loaded, loads, heap, gen, labels, removing, external, unused, gone, spared>>

\* useSecret(): a profile of the container refers to the secret.
Users(s) == {o \in store["profiles"] : heap[o].secret = s}

\* onDelete(): whether the secret is used is decided before the question.
AskDeleteSecret ==
  /\ view.menu = "secrets" /\ view.ask = None /\ User
  /\ \E o \in view.copy :
       view' = [view EXCEPT !.ask = [obj |-> o, used |-> Users(o[1]) # {}]]
  /\ UNCHANGED <<listVars, heap, gen, labels, removing, external, unused, ghostVars>>

\* clearSecret(), whose save is not awaited, then the copy without the secret.
Clear(h, s) == [o \in DOMAIN h |-> IF o \in Users(s) THEN [h[o] EXCEPT !.secret = None] ELSE h[o]]

DeleteSecret ==
  /\ view.menu = "secrets" /\ view.ask # None
  /\ LET o == view.ask.obj
         s == o[1]
         objs == view.copy \ {o}
         h == IF view.ask.used THEN Clear(heap, s) ELSE heap
         unsure == IF view.ask.used /\ loads["profiles"] = <<>>
                     THEN Known("profiles") \ Ids(store["profiles"])
                     ELSE Known("profiles") \cup Ids(store["profiles"])
     IN
     /\ heap' = h
     /\ store' = [store EXCEPT !["secrets"] = objs]
     /\ saves' = [saves EXCEPT
          !["secrets"] = Append(@, Payload(h, objs)),
          !["profiles"] = IF view.ask.used THEN Append(@, Payload(h, store["profiles"])) ELSE @]
     /\ dropped' = dropped \cup view.unseen \cup
          (IF view.ask.used THEN Known("profiles") \ Ids(store["profiles"]) ELSE {})
     /\ deleted' = deleted \cup {s} /\ gone' = gone \cup {s}
     /\ spared' = spared \cup (unsure \X {s})
     /\ view' = [view EXCEPT !.copy = objs, !.same = TRUE, !.ask = None]
  /\ UNCHANGED <<file, loaded, loads, gen, labels, removing, external, unused, ops>>

KeepSecret ==
  /\ view.ask # None
  /\ view' = [view EXCEPT !.ask = None]
  /\ UNCHANGED <<listVars, heap, gen, labels, removing, external, unused, ops, ghostVars>>

-----------------------------------------------------------------------------
\* The settings menu: groups and tags.
Adds(kind) ==
  /\ view.menu = "settings" /\ User
  /\ \E l \in unused \cap kind : labels' = labels \cup {l} /\ unused' = unused \ {l}
  /\ UNCHANGED <<listVars, heap, gen, view, removing, external, ghostVars>>

AddGroup == Adds(Label \ Tag)
AddTag   == Adds(Tag)


\* The profiles of the container without the label.
Forget(l) ==
  [o \in DOMAIN heap |->
     IF o \in store["profiles"] THEN [heap[o] EXCEPT !.labels = @ \ {l}] ELSE heap[o]]

\* The profiles forget a label and are saved; the settings lose it when that has
\* been sent.
Removes(kind) ==
  /\ view.menu = "settings" /\ removing = None /\ User
  /\ \E l \in labels \cap kind :
       /\ removing' = l
       /\ heap' = Forget(l)
       /\ PersistStore(heap')
       /\ spared' = spared \cup
            ((IF loads["profiles"] = <<>> THEN Known("profiles") \ Ids(store["profiles"])
                ELSE Known("profiles")) \X {l})
  /\ UNCHANGED <<file, loaded, loads, gen, view, labels, external, unused, deleted, gone>>

RemoveGroup == Removes(Label \ Tag)
RemoveTag   == Removes(Tag)

LabelRemoved ==
  /\ removing # None
  /\ labels' = labels \ {removing} /\ gone' = gone \cup {removing}
  /\ removing' = None
  /\ UNCHANGED <<listVars, heap, gen, view, external, unused, ops, deleted, spared, dropped>>

Next ==
  \/ \E k \in Kind : ReloadRead(k) \/ Apply(k) \/ SaveLands(k)
  \/ FrontendsChange
  \/ OpenProfiles \/ OpenQuick \/ OpenSecrets \/ OpenProxies \/ OpenSettings
  \/ CloseMenu
  \/ AddTab \/ Clone \/ Connect \/ SaveProfile \/ DeleteProfile \/ SaveFavourite
  \/ SaveSecret \/ SaveProxy \/ DeleteProxy
  \/ AskDeleteSecret \/ DeleteSecret \/ KeepSecret
  \/ AddGroup \/ AddTag \/ RemoveGroup \/ RemoveTag \/ LabelRemoved

-----------------------------------------------------------------------------
\* What was saved stays on disk until the user deletes it, or a menu saves a
\* copy that never had it.
KeptByStep ==
  \A k \in Kind : DOMAIN file[k] \ DOMAIN file'[k] \subseteq deleted \cup dropped

\* A label or a secret that was deleted is not referred to by what is on disk
\* once every save has landed, but for what the deletion could not know.
ReferencesResolve ==
  saves["profiles"] = <<>> =>
    \A x \in DOMAIN file["profiles"] :
      \A r \in Mentions(file["profiles"][x]) \cap gone : <<x, r>> \in spared

\* map2DataSource(): the groups, each with its profiles, and a default node.
GroupOf(r) == r.labels \ Tag
Nodes(objs) ==
  LET homeless == {o \in objs : GroupOf(heap[o]) \cap labels = {}} IN
  {[name |-> g, children |-> {o \in objs : g \in GroupOf(heap[o])}] : g \in labels \ Tag}
    \cup (IF homeless = {} THEN {} ELSE {[name |-> None, children |-> homeless]})

\* Every profile of the menu is shown, in one place.
EveryProfileShown ==
  view.menu = "profiles" =>
    \A o \in view.copy : Cardinality({n \in Nodes(view.copy) : o \in n.children}) = 1
==============================================================================
