------------------------------- MODULE CloudSync -------------------------------
(*****************************************************************************)
(* Cloud sync: the cloud menu (cloud.component.ts), its service, and the     *)
(* main process that exchanges files with a git repository                   *)
(* (cloudService.js).                                                        *)
(*                                                                           *)
(* An item is a synchronised store.  A content is a number: 0 for a file     *)
(* that does not exist, and every edit of the user makes a fresh one.  What  *)
(* a store or a file holds is tagged with the click whose download brought   *)
(* it.  The settings store, which takes the first payload after a reload and *)
(* ignores the others, is left out; so are credentials, proxies, messages.   *)
(*****************************************************************************)
EXTENDS Naturals, FiniteSets

CONSTANTS
  Item,       \* the stores that can be synchronised
  Reloaded,   \* those the menu reloads after a download
  Echoed,     \* those main sends again after each save: secrets and proxies
  MaxEdits,   \* bound: the last content made, 1 and 2 being what files and repository start with
  MaxClicks   \* bound: how many uploads and downloads are asked for

VARIABLES
  store,     \* what each store of the renderer holds
  loads,     \* the reloads on their way, each with what main has read for it
  saves,     \* the saves on their way to the files
  file,      \* the files of the configuration directory
  backup,    \* <configDir>/backup
  clone,     \* <configDir>/git
  repo,      \* the repository's main branch
  op,        \* the upload or download in progress
  spinner,   \* the overlay that covers the application
  clock,     \* how many contents were made
  clicks,    \* how many uploads and downloads were asked for
  pulled,    \* history: the click of the last successful download of each item
  newest,    \* history: how many reloads of each store were asked for
  landed,    \* history: which of them the store has taken last
  raced      \* history: the stores whose saves a download may have met

vars == <<store, loads, saves, file, backup, clone, repo, op, spinner,
          clock, clicks, pulled, newest, landed, raced>>

storeVars == <<store, loads, saves, newest, landed, raced>>
diskVars  == <<file, backup, clone, repo, pulled>>

Content == 0..MaxEdits
Data    == [content : Content, from : 0..MaxClicks]
Save    == [item : Item, content : Content \ {0}, from : 0..MaxClicks]
Reload  == [item : Item, id : Nat \ {0}, read : BOOLEAN, content : Content, from : 0..MaxClicks]
Nothing == [i \in Item |-> 0]
Idle    == [kind |-> "none", at |-> "done", todo |-> {}, picked |-> {},
            base |-> Nothing, replaced |-> {}, overwritten |-> Nothing, late |-> {}]

Operations ==
  [kind : {"none", "upload", "download"},
   at : {"backup", "clone", "sync", "push", "replace", "done"},
   todo : SUBSET Item, picked : SUBSET Item, base : [Item -> Content],
   replaced : SUBSET Item, overwritten : [Item -> Content], late : SUBSET Item]

TypeOK ==
  /\ store \in [Item -> Data] /\ file \in [Item -> Data]
  /\ loads \subseteq Reload /\ saves \subseteq Save
  /\ backup \in [Item -> Content] /\ clone \in [Item -> Content] /\ repo \in [Item -> Content]
  /\ op \in Operations /\ spinner \in BOOLEAN
  /\ clock \in 0..MaxEdits /\ clicks \in 0..MaxClicks /\ raced \subseteq Item
  /\ pulled \in [Item -> 0..MaxClicks] /\ newest \in [Item -> Nat] /\ landed \in [Item -> Nat]

Init ==
  /\ \E exists \in [Item -> {0, 1}] : file = [i \in Item |-> [content |-> exists[i], from |-> 0]]
  /\ store = file /\ loads = {} /\ saves = {}
  /\ backup = Nothing /\ clone = Nothing
  /\ \E pushed \in {0, 2} : repo = [i \in Item |-> pushed]
  /\ op = Idle /\ spinner = FALSE /\ clock = 2 /\ clicks = 0
  /\ pulled = Nothing /\ newest = Nothing /\ landed = Nothing /\ raced = {}

-----------------------------------------------------------------------------
Of(i) == {s \in saves : s.item = i}

\* The stores.  persist() does not ask whether the store is loaded: an edit made
\* before the store shows the last download saves the old contents again.
Edit(i) ==
  /\ ~spinner /\ clock < MaxEdits
  /\ clock' = clock + 1
  /\ store' = [store EXCEPT ![i].content = clock + 1]
  /\ saves' = saves \cup {[item |-> i, content |-> clock + 1, from |-> store[i].from]}
  /\ raced' = IF store[i].from < pulled[i] THEN raced \cup {i} ELSE raced
  /\ UNCHANGED <<loads, newest, landed, op, spinner, clicks, diskVars>>

\* Each reload asked for is later than the earlier ones; nothing else orders them.
ReloadOf(items) ==
  /\ newest' = [i \in Item |-> IF i \in items THEN newest[i] + 1 ELSE newest[i]]
  /\ loads' = loads \cup {[item |-> i, id |-> newest[i] + 1, read |-> FALSE,
                            content |-> 0, from |-> 0] : i \in items}

\* A save awaits its own encryption and its own write: saves arrive in any order.
SaveWritten(s) ==
  /\ saves' = saves \ {s}
  /\ file' = [file EXCEPT ![s.item] = [content |-> s.content, from |-> s.from]]
  /\ ReloadOf({s.item} \cap Echoed)
  /\ op' = IF op.kind = "download" /\ ~(op.at = "backup" /\ s.item \in op.todo)
           THEN [op EXCEPT !.late = @ \cup {s.item}] ELSE op
  /\ UNCHANGED <<store, landed, raced, backup, clone, repo, pulled, spinner, clock, clicks>>

\* It cannot be encrypted, or the write fails, and both are only logged.
SaveDropped(s) ==
  /\ saves' = saves \ {s}
  /\ UNCHANGED <<store, loads, newest, landed, raced, diskVars, op, spinner, clock, clicks>>

\* Main reads the file for each request on its own, and sends it.
ReloadRead(l) ==
  /\ ~l.read
  /\ loads' = (loads \ {l}) \cup {[l EXCEPT !.read = TRUE, !.content = file[l.item].content,
                                              !.from = file[l.item].from]}
  /\ UNCHANGED <<store, saves, newest, landed, raced, diskVars, op, spinner, clock, clicks>>

\* apply() decrypts each payload on its own and writes it when that is done;
\* no payload leaves the store as it is.
ReloadLands(l) ==
  /\ l.read
  /\ store' = IF l.content = 0 THEN store
              ELSE [store EXCEPT ![l.item] = [content |-> l.content, from |-> l.from]]
  /\ landed' = [landed EXCEPT ![l.item] = l.id]
  /\ loads' = loads \ {l}
  /\ UNCHANGED <<saves, newest, raced, diskVars, op, spinner, clock, clicks>>

\* The file cannot be read, or the payload not decrypted: the store is as it was.
ReloadDropped(l) ==
  /\ loads' = loads \ {l}
  /\ UNCHANGED <<store, saves, newest, landed, raced, diskVars, op, spinner, clock, clicks>>

-----------------------------------------------------------------------------
\* The menu saves the cloud settings and waits for that save to be sent, not for
\* the saves of the other stores.
Click(kind, picked) ==
  /\ ~spinner /\ clicks < MaxClicks
  /\ spinner' = TRUE /\ clicks' = clicks + 1
  /\ op' = [Idle EXCEPT !.kind = kind, !.at = IF kind = "upload" THEN "clone" ELSE "backup",
                        !.todo = picked, !.picked = picked, !.base = repo]
  /\ UNCHANGED <<store, loads, saves, newest, landed, clock>>

Upload(picked) == Click("upload", picked) /\ UNCHANGED <<raced, diskVars>>

\* rm(backup) and mkdir; the files are copied one by one
Download(picked) ==
  /\ Click("download", picked)
  /\ backup' = Nothing
  /\ raced' = raced \cup {i \in picked : Of(i) # {}}
  /\ UNCHANGED <<file, clone, repo, pulled>>

Working(kind, at) == op.kind = kind /\ op.at = at

BackUp(i) ==
  /\ Working("download", "backup") /\ i \in op.todo
  /\ backup' = [backup EXCEPT ![i] = file[i].content]
  /\ op' = [op EXCEPT !.todo = @ \ {i}]
  /\ UNCHANGED <<storeVars, file, clone, repo, pulled, spinner, clock, clicks>>

BackedUp ==
  /\ Working("download", "backup") /\ op.todo = {}
  /\ op' = [op EXCEPT !.at = "clone", !.todo = op.picked]
  /\ UNCHANGED <<storeVars, diskVars, spinner, clock, clicks>>

Clone ==
  /\ op.at = "clone"
  /\ clone' = repo
  /\ op' = [op EXCEPT !.at = IF op.kind = "upload" THEN "sync" ELSE "replace", !.base = repo]
  /\ UNCHANGED <<storeVars, file, backup, repo, pulled, spinner, clock, clicks>>

\* The clone keeps only what is picked, and gets the files that exist.
Synchronise ==
  /\ Working("upload", "sync")
  /\ clone' = [i \in Item |-> IF i \notin op.picked THEN 0
                              ELSE IF file[i].content = 0 THEN clone[i]
                              ELSE file[i].content]
  /\ op' = [op EXCEPT !.at = "push"]
  /\ UNCHANGED <<storeVars, file, backup, repo, pulled, spinner, clock, clicks>>

\* Git refuses the push of a clone the repository has moved past.
Push ==
  /\ Working("upload", "push") /\ repo = op.base
  /\ repo' = clone
  /\ op' = [op EXCEPT !.at = "done"]
  /\ UNCHANGED <<storeVars, file, backup, clone, pulled, spinner, clock, clicks>>

Replace(i) ==
  /\ Working("download", "replace") /\ i \in op.todo
  /\ IF clone[i] = 0
     THEN /\ op' = [op EXCEPT !.todo = @ \ {i}]
          /\ UNCHANGED file
     ELSE /\ op' = [op EXCEPT !.todo = @ \ {i}, !.replaced = @ \cup {i},
                              !.overwritten[i] = file[i].content]
          /\ file' = [file EXCEPT ![i] = [content |-> clone[i], from |-> clicks]]
  /\ UNCHANGED <<storeVars, backup, clone, repo, pulled, spinner, clock, clicks>>

\* A copy, the clone or the push fails: what was done stays done.
StepFails ==
  /\ op.kind # "none" /\ op.at # "done"
  /\ op.at \in {"backup", "replace"} => op.todo # {}
  /\ op' = [op EXCEPT !.kind = "none", !.at = "done"]
  /\ spinner' = FALSE
  /\ UNCHANGED <<storeVars, diskVars, clock, clicks>>

UploadAnswered ==
  /\ Working("upload", "done")
  /\ op' = [op EXCEPT !.kind = "none"]
  /\ spinner' = FALSE
  /\ UNCHANGED <<storeVars, diskVars, clock, clicks>>

DownloadEnds(reloaded) ==
  /\ Working("download", "replace") /\ op.todo = {}
  /\ op' = [op EXCEPT !.kind = "none", !.at = "done"]
  /\ spinner' = FALSE
  /\ pulled' = [i \in Item |-> IF i \in op.replaced THEN clicks ELSE pulled[i]]
  /\ ReloadOf(reloaded)
  /\ UNCHANGED <<store, saves, landed, raced, file, backup, clone, repo, clock, clicks>>

\* The answer of a download that succeeded makes the menu reload what it can.
DownloadAnswered == DownloadEnds(op.picked \cap Reloaded)

\* Another machine pushes.
PushElsewhere(i) ==
  /\ clock < MaxEdits
  /\ clock' = clock + 1
  /\ repo' = [repo EXCEPT ![i] = clock + 1]
  /\ UNCHANGED <<storeVars, file, backup, clone, pulled, op, spinner, clicks>>

Next ==
  \/ \E i \in Item : Edit(i) \/ BackUp(i) \/ Replace(i) \/ PushElsewhere(i)
  \/ \E s \in saves : SaveWritten(s) \/ SaveDropped(s)
  \/ \E l \in loads : ReloadRead(l) \/ ReloadLands(l) \/ ReloadDropped(l)
  \/ \E picked \in SUBSET Item \ {{}} : Upload(picked) \/ Download(picked)
  \/ BackedUp \/ Clone \/ Synchronise \/ Push \/ StepFails \/ UploadAnswered
  \/ DownloadAnswered

Spec == Init /\ [][Next]_vars

-----------------------------------------------------------------------------
\* A store whose last reload has arrived, and arrived last, shows what the last
\* download that succeeded brought, or what the user made of it; so does its
\* file, and what is on its way there.
ShowsDownload(i) ==
  /\ landed[i] = newest[i] => store[i].from >= pulled[i]
  /\ \A s \in Of(i) : s.from >= pulled[i]
  /\ file[i].from >= pulled[i]

\* Every store that cloud.component.ts reloads shows the download, and no later
\* save undoes it, in whatever order reloads and saves arrive, fail or are sent
\* again: unless the user edited the store before it showed the download, or a
\* save was on its way when the download was asked for.
ReloadedShowDownload == \A i \in Reloaded \ raced : ShowsDownload(i)

\* The same for every store the menu offers.
EveryStoreShowsDownload == \A i \in Item : ShowsDownload(i)

\* What a store shows does not go back to before a download it has shown.
NeverGoesBack == [][\A i \in Item \ raced' : store'[i].from >= store[i].from]_vars

\* What a download has replaced, whether it went through or stopped halfway, is
\* in the backup; unless it was saved after the download had backed it up.
ReplacedIsKept == \A i \in op.replaced \ op.late : backup[i] = op.overwritten[i]

\* The same with no exception.
NothingOverwritten == \A i \in op.replaced : backup[i] = op.overwritten[i]

\* Why: nobody edits while an operation is under way, so a file that is picked
\* with no save on its way to it changes only by the download.
Undisturbed ==
  /\ op.kind # "none" => spinner
  /\ \A i \in Item : pulled[i] <= clicks /\ landed[i] <= newest[i]
  /\ op.kind = "download" =>
       /\ \A i \in op.picked \ raced : Of(i) = {}
       /\ \A i \in op.replaced \ raced : file[i].from = clicks

BackedUpFirst ==
  /\ op.todo \subseteq op.picked /\ op.replaced \subseteq op.picked
  /\ ReplacedIsKept
  /\ op.kind = "download" => IF op.at = "replace" THEN op.todo \cap op.replaced = {}
                              ELSE op.replaced = {}
  /\ Working("download", "backup") =>
       \A i \in op.picked \ (op.todo \cup op.late) : backup[i] = file[i].content
  /\ op.kind = "download" /\ op.at # "backup" =>
       \A i \in op.picked \ (op.replaced \cup op.late) : backup[i] = file[i].content

\* What main reads for the last reload asked for is what the download brought.
LastReloadCounts ==
  /\ \A i \in Item : file[i].content = 0 => file[i].from = 0
  /\ \A l \in loads : (l.content = 0 => l.from = 0) /\ l.id <= newest[l.item]
  /\ \A l \in loads : l.read /\ l.item \in Reloaded \ raced /\ l.id = newest[l.item]
                      => l.from >= pulled[l.item]

IInv == TypeOK /\ Undisturbed /\ BackedUpFirst /\ LastReloadCounts /\ ReloadedShowDownload
==============================================================================
