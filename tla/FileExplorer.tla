------------------------------ MODULE FileExplorer ------------------------------
(*****************************************************************************)
(* File explorer tabs (file-list.component.ts): listings, requests behind    *)
(* the saving overlay, and files that are opened in a local editor, watched  *)
(* by the main process (localFile.js) and uploaded again when they change.   *)
(*                                                                           *)
(* Every directory holds one text file of the same name, so a directory      *)
(* stands for its file.  The temporary file a remote file is edited in is    *)
(* chosen by the first characters of the directory's path: Folder[dir].      *)
(* A content is the remote file it was made from and a version.              *)
(*****************************************************************************)
EXTENDS Naturals, Sequences, FiniteSets, SequencesExt

CONSTANTS
  Tab,          \* the open file explorers
  Server,       \* what they are connected to
  Dir,          \* the directories of every server
  Root,         \* where a tab starts
  ServerOf,     \* the server of each tab
  Folder,       \* the temporary folder of each directory
  Missing,      \* the remote files that are not there at first
  Large,        \* the directories whose file exceeds MAX_READ_BYTES
  MaxWatchers,  \* MAX_WATCHERS of localFile.js
  MaxOps,       \* bound: what users do, together
  None

VARIABLES
  open,      \* tabs whose component is not destroyed
  path,      \* where each tab is
  shown,     \* the directory whose listing it shows
  reading,   \* the listings it is subscribed to
  saving,    \* isSaving: the overlay is up
  batch,     \* the request behind the overlay: its kind and how many answers are due
  job,       \* the file it is opening or creating
  meta,      \* activeWatchers: where each temporary file is uploaded to
  watched,   \* watchedFiles
  remote,    \* the files of the servers
  temp,      \* the temporary files
  watchers,  \* main's watchers, oldest first
  events,    \* 'local-file.changed' messages on their way
  reads,     \* local-file.read requests of the tabs
  uploads,   \* uploads of changed files
  ops,       \* how much of MaxOps is used up; numbers the versions
  went,      \* history: where the user of each tab last asked to go
  failed,    \* history: tabs whose last listing failed
  due        \* history: <<tab, folder>> saved since the tab last had it read

tabVars   == <<open, path, shown, reading, went, failed>>
localVars == <<temp, watchers, events, reads, due>>
vars == <<tabVars, saving, batch, job, meta, watched, remote, localVars, uploads, ops>>

Remote  == Server \X Dir
Version == [home : Remote, version : 0..MaxOps]
TooLarge(content) == content.home[2] \in Large
TempDir == {Folder[d] : d \in Dir}

NoBatch == [kind |-> "none", left |-> 0, dir |-> None]
NoJob   == [at |-> "none", dir |-> None, folder |-> None, content |-> None, new |-> FALSE]
Watch   == [to : Remote, new : BOOLEAN]
At(t, d) == <<ServerOf[t], d>>

TabsTyped ==
  /\ open \subseteq Tab
  /\ path \in [Tab -> Dir] /\ went \in [Tab -> Dir] /\ shown \in [Tab -> Dir \cup {None}]
  /\ reading \in [Tab -> SUBSET Dir] /\ saving \in [Tab -> BOOLEAN]

Batch == [kind : {"none", "change", "upload", "delete", "edit"}, left : 0..2,
          dir : Dir \cup {None}]
Job == [at : {"none", "download", "save", "open", "watch", "watched"},
        dir : Dir \cup {None}, folder : TempDir \cup {None},
        content : Version \cup {None}, new : BOOLEAN]

JobTyped ==
  /\ job \in [Tab -> Job]
  /\ \A t \in Tab : /\ job[t].at # "none" => job[t].dir \in Dir
                    /\ job[t].at \notin {"none", "download"} => job[t].folder \in TempDir

BatchTyped ==
  /\ batch \in [Tab -> Batch]
  /\ \A t \in Tab : batch[t].left > 0 => batch[t].dir \in Dir

MetaTyped ==
  /\ meta \in [Tab -> [TempDir -> Watch \cup {None}]]
  /\ reads \subseteq [tab : Tab, folder : TempDir, to : Remote, new : BOOLEAN]
  /\ uploads \subseteq [tab : Tab, folder : TempDir, to : Remote, new : BOOLEAN,
                        content : Version \cup {None}]

FilesTyped ==
  /\ remote \in [Remote -> Version \cup {None}]
  /\ temp \in [TempDir -> Version \cup {None}]
  /\ events \in Seq(TempDir)
  /\ due \subseteq Tab \X TempDir

OpsTyped == ops \in 0..MaxOps

Typed == TabsTyped /\ BatchTyped /\ JobTyped /\ MetaTyped /\ FilesTyped /\ OpsTyped

TypeOK ==
  /\ Typed /\ failed \subseteq Tab /\ watched \in [Tab -> SUBSET TempDir]
  /\ watchers \in Seq(TempDir) /\ Len(watchers) <= MaxWatchers /\ IsInjective(watchers)

Original(r) == [home |-> r, version |-> 0]

\* ngOnInit() has asked for the listing of the root.
Init ==
  /\ open = Tab
  /\ path = [t \in Tab |-> Root] /\ went = path
  /\ shown = [t \in Tab |-> None]
  /\ reading = [t \in Tab |-> {Root}]
  /\ saving = [t \in Tab |-> FALSE] /\ batch = [t \in Tab |-> NoBatch]
  /\ job = [t \in Tab |-> NoJob]
  /\ meta = [t \in Tab |-> [f \in TempDir |-> None]] /\ watched = [t \in Tab |-> {}]
  /\ remote = [r \in Remote |-> IF r \in Missing THEN None ELSE Original(r)]
  /\ temp = [f \in TempDir |-> None] /\ watchers = <<>> /\ events = <<>>
  /\ reads = {} /\ uploads = {} /\ ops = 0 /\ failed = {} /\ due = {}

-----------------------------------------------------------------------------
\* Listings.

\* Mutant: the subscription to the former listing is kept.
KeepReading(t, d) == reading' = [reading EXCEPT ![t] = @ \cup {d}]

\* refresh(): the former request is unsubscribed from
Refresh(t, d) == reading' = [reading EXCEPT ![t] = {d}]

\* What a user can do: the tab is there, and no overlay is over it.
UserOf(t) == t \in open /\ ~saving[t] /\ ops < MaxOps /\ ops' = ops + 1

\* navigate(), navigateUp(), navigateToPath(), and the refresh button
Go(t, d) ==
  /\ UserOf(t)
  /\ path' = [path EXCEPT ![t] = d] /\ went' = [went EXCEPT ![t] = d]
  /\ Refresh(t, d)
  /\ failed' = failed \ {t}
  /\ UNCHANGED <<open, shown, saving, batch, job, meta, watched, remote, localVars, uploads>>

\* The path becomes what the server calls it.
ListingArrives(t, d) ==
  /\ d \in reading[t]
  /\ shown' = [shown EXCEPT ![t] = d] /\ path' = [path EXCEPT ![t] = d]
  /\ reading' = [reading EXCEPT ![t] = @ \ {d}]
  /\ failed' = failed \ {t}
  /\ UNCHANGED <<open, went, saving, batch, job, meta, watched, remote, localVars, uploads, ops>>

ListingFails(t, d) ==
  /\ d \in reading[t]
  /\ reading' = [reading EXCEPT ![t] = @ \ {d}]
  /\ failed' = failed \cup {t}
  /\ UNCHANGED <<open, path, shown, went, saving, batch, job, meta, watched, remote, localVars,
                 uploads, ops>>

-----------------------------------------------------------------------------
\* Requests behind the overlay: one rename, paste or move ("change"), several
\* uploads at once, or the dialog editor, which deletes the file and uploads
\* it again.  Deleting asks first and raises no overlay.  What change and
\* upload do to other files of the server is left out.
Submit(t, kind, n) ==
  /\ UserOf(t) /\ batch[t] = NoBatch
  /\ kind = "delete" => shown[t] # None
  /\ batch' = [batch EXCEPT ![t] = [kind |-> kind, left |-> n, dir |-> path[t]]]
  /\ saving' = [saving EXCEPT ![t] = kind # "delete"]
  /\ UNCHANGED <<tabVars, job, meta, watched, remote, localVars, uploads>>

\* The request is done with: the overlay goes, and the listing is read again
\* unless a single request failed.
Finished(t, refresh) ==
  /\ batch' = [batch EXCEPT ![t] = NoBatch]
  /\ saving' = [saving EXCEPT ![t] = IF batch[t].kind = "delete" THEN @ ELSE FALSE]
  /\ IF refresh THEN Refresh(t, path[t]) /\ failed' = failed \ {t}
     ELSE UNCHANGED <<reading, failed>>

Pending(t) ==
  /\ batch' = [batch EXCEPT ![t].left = @ - 1]
  /\ UNCHANGED <<saving, reading, failed>>

Answered(t) ==
  LET r == At(t, batch[t].dir)
      deletes == \/ batch[t].kind = "delete"
                 \/ batch[t].kind = "edit" /\ batch[t].left = 2
      writes == batch[t].kind = "edit" /\ batch[t].left = 1 IN
  /\ t \in open /\ batch[t].left > 0
  /\ remote' = IF deletes THEN [remote EXCEPT ![r] = None]
               ELSE IF writes THEN [remote EXCEPT ![r] = [Original(r) EXCEPT !.version = ops]]
               ELSE remote
  /\ IF batch[t].left = 1 THEN Finished(t, TRUE) ELSE Pending(t)
  /\ UNCHANGED <<open, path, shown, went, job, meta, watched, localVars, uploads, ops>>

\* Uploads go on when one of them fails.
Failed(t) ==
  /\ t \in open /\ batch[t].left > 0
  /\ IF batch[t].kind = "upload" /\ batch[t].left > 1 THEN Pending(t)
     ELSE Finished(t, batch[t].kind = "upload")
  /\ UNCHANGED <<open, path, shown, went, job, meta, watched, remote, localVars, uploads, ops>>

-----------------------------------------------------------------------------
\* Opening a file, and creating one: an empty temporary file.
Open(t) ==
  /\ UserOf(t) /\ job[t] = NoJob
  /\ job' = [job EXCEPT ![t] = [NoJob EXCEPT !.at = "download", !.dir = path[t]]]
  /\ UNCHANGED <<tabVars, saving, batch, meta, watched, remote, localVars, uploads>>

Create(t) ==
  /\ UserOf(t) /\ job[t] = NoJob /\ remote[At(t, path[t])] = None
  /\ job' = [job EXCEPT ![t] = [at |-> "save", dir |-> path[t], folder |-> Folder[path[t]],
                                content |-> Original(At(t, path[t])), new |-> TRUE]]
  /\ UNCHANGED <<tabVars, saving, batch, meta, watched, remote, localVars, uploads>>

JobAt(t, at) == job[t].at = at

\* The folder is that of the path by then, not of the file.
Downloaded(t) ==
  LET content == remote[At(t, job[t].dir)] IN
  /\ JobAt(t, "download")
  /\ job' = [job EXCEPT ![t] = IF t \notin open \/ content = None THEN NoJob
       ELSE [@ EXCEPT !.at = "save", !.content = content, !.folder = Folder[path[t]]]]
  /\ UNCHANGED <<tabVars, saving, batch, meta, watched, remote, localVars, uploads, ops>>

Wrote(f, content) ==
  /\ temp' = [temp EXCEPT ![f] = content]
  /\ events' = IF f \in ToSet(watchers) THEN Append(events, f) ELSE events

\* The job goes on at another step if the tab is still there.
JobGoesTo(t, at) ==
  job' = [job EXCEPT ![t] = IF t \in open /\ at # "none" THEN [@ EXCEPT !.at = at] ELSE NoJob]

Registered(t) ==
  meta' = IF t \in open
          THEN [meta EXCEPT ![t][job[t].folder] = [to |-> At(t, job[t].dir), new |-> job[t].new]]
          ELSE meta

WatchUnlessWatched(t) == IF job[t].folder \in watched[t] THEN "none" ELSE "watch"

\* local-file.save-temp, which a watcher notices like any other write.  A
\* new file is registered before it is opened, another one after.
TempSaved(t) ==
  /\ JobAt(t, "save")
  /\ Wrote(job[t].folder, job[t].content)
  /\ due' = {d \in due : d[2] # job[t].folder}
  /\ IF job[t].new THEN Registered(t) /\ JobGoesTo(t, WatchUnlessWatched(t))
     ELSE JobGoesTo(t, "open") /\ UNCHANGED meta
  /\ UNCHANGED <<tabVars, saving, batch, watched, remote, watchers, reads, uploads, ops>>

\* local-file.open, whose outcome is not looked at
Opened(t) ==
  /\ JobAt(t, "open")
  /\ Registered(t)
  /\ JobGoesTo(t, WatchUnlessWatched(t))
  /\ UNCHANGED <<tabVars, saving, batch, watched, remote, localVars, uploads, ops>>

\* Mutant: nothing makes room for a new watcher.
KeepOldest(s) == s

\* The oldest watcher makes room for a new one.
Evicted(s) == IF Len(s) >= MaxWatchers THEN Tail(s) ELSE s

\* local-file.watch
WatchStarts(t) ==
  LET f == job[t].folder IN
  /\ JobAt(t, "watch")
  /\ watchers' = IF f \in ToSet(watchers) THEN watchers ELSE Append(Evicted(watchers), f)
  /\ JobGoesTo(t, "watched")
  /\ UNCHANGED <<tabVars, saving, batch, meta, watched, remote, temp, events, reads, due, uploads,
                 ops>>

WatchAnswered(t) ==
  /\ JobAt(t, "watched")
  /\ watched' = IF t \in open THEN [watched EXCEPT ![t] = @ \cup {job[t].folder}] ELSE watched
  /\ job' = [job EXCEPT ![t] = NoJob]
  /\ UNCHANGED <<tabVars, saving, batch, meta, remote, localVars, uploads, ops>>

-----------------------------------------------------------------------------
\* The local editor saves: it holds what the temporary file held.
EditorSaves(f) ==
  /\ temp[f] # None /\ ops < MaxOps /\ ops' = ops + 1
  /\ Wrote(f, [temp[f] EXCEPT !.version = ops + 1])
  /\ due' = IF f \in ToSet(watchers)
            THEN due \cup {<<t, f>> : t \in {u \in open : meta[u][f] # None}} ELSE due
  /\ UNCHANGED <<tabVars, saving, batch, job, meta, watched, remote, watchers, reads, uploads>>

Heard(f) == {t \in open : meta[t][f] # None}

\* handleLocalFileChange() of every tab.  Two reads that wait are one.
ChangeArrives ==
  /\ events # <<>>
  /\ events' = Tail(events)
  /\ LET f == Head(events) IN
     reads' = reads \cup {[tab |-> t, folder |-> f, to |-> meta[t][f].to, new |-> meta[t][f].new] :
                          t \in Heard(f)}
  /\ UNCHANGED <<tabVars, saving, batch, job, meta, watched, remote, temp, watchers, due, uploads,
                 ops>>

\* local-file.read, which refuses what is larger than MAX_READ_BYTES, and the
\* upload of what was read
LocalRead(r) ==
  LET content == temp[r.folder]
      sent == r.tab \in open /\ ~TooLarge(content) IN
  /\ r \in reads
  /\ reads' = reads \ {r}
  /\ due' = IF TooLarge(content) THEN due ELSE due \ {<<r.tab, r.folder>>}
  /\ uploads' = IF sent THEN uploads \cup {[tab |-> r.tab, folder |-> r.folder, to |-> r.to,
                                            new |-> r.new, content |-> content]}
                ELSE uploads
  /\ saving' = IF sent THEN [saving EXCEPT ![r.tab] = TRUE] ELSE saving
  /\ UNCHANGED <<tabVars, batch, job, meta, watched, remote, temp, watchers, events, ops>>

UploadEnds(u) ==
  /\ u \in uploads
  /\ uploads' = uploads \ {u}
  /\ saving' = IF u.tab \in open THEN [saving EXCEPT ![u.tab] = FALSE] ELSE saving
  /\ UNCHANGED <<open, path, shown, went, batch, job, watched, localVars, ops>>

\* Uploads land in any order.  The first one of a new file refreshes the list.
UploadLands(u) ==
  /\ UploadEnds(u)
  /\ remote' = [remote EXCEPT ![u.to] = u.content]
  /\ IF u.new /\ u.tab \in open
     THEN /\ Refresh(u.tab, path[u.tab]) /\ failed' = failed \ {u.tab}
          /\ meta' = IF meta[u.tab][u.folder] = None THEN meta
                     ELSE [meta EXCEPT ![u.tab][u.folder].new = FALSE]
     ELSE UNCHANGED <<reading, failed, meta>>

UploadFails(u) ==
  /\ UploadEnds(u)
  /\ UNCHANGED <<remote, reading, failed, meta>>

\* ngOnDestroy(): requests are cancelled, which may be too late for an upload;
\* the files are unwatched, though another tab may have them open.
CloseTab(t) ==
  /\ t \in open /\ ops < MaxOps /\ ops' = ops + 1
  /\ open' = open \ {t}
  /\ reading' = [reading EXCEPT ![t] = {}]
  /\ batch' = [batch EXCEPT ![t] = NoBatch]
  /\ watchers' = SelectSeq(watchers, LAMBDA f : f \notin watched[t])
  /\ meta' = [meta EXCEPT ![t] = [f \in TempDir |-> None]]
  /\ watched' = [watched EXCEPT ![t] = {}]
  /\ due' = {d \in due : d[1] # t}
  /\ UNCHANGED <<path, shown, went, failed, saving, job, remote, temp, events, reads, uploads>>

Next ==
  \/ \E t \in Tab :
       \/ \E d \in Dir : Go(t, d) \/ ListingArrives(t, d) \/ ListingFails(t, d)
       \/ \E k \in {"change", "delete"} : Submit(t, k, 1)
       \/ \E k \in {"upload", "edit"} : Submit(t, k, 2)
       \/ Answered(t) \/ Failed(t) \/ CloseTab(t)
       \/ Open(t) \/ Create(t) \/ Downloaded(t) \/ TempSaved(t) \/ Opened(t)
       \/ WatchStarts(t) \/ WatchAnswered(t)
  \/ \E f \in TempDir : EditorSaves(f)
  \/ ChangeArrives
  \/ \E r \in reads : LocalRead(r)
  \/ \E u \in uploads : UploadLands(u) \/ UploadFails(u)

Spec == Init /\ [][Next]_vars

-----------------------------------------------------------------------------
\* When no listing is awaited and the last one came, the tab is where its user
\* last went and shows that directory, however slow the listings were.
ListingFollows ==
  \A t \in open : reading[t] = {} /\ t \notin failed => path[t] = went[t] /\ shown[t] = went[t]

\* The overlay is gone once nothing that raised it is under way.
OverlayLifts ==
  \A t \in open : batch[t] = NoBatch /\ {u \in uploads : u.tab = t} = {} => ~saving[t]

Quiet == events = <<>> /\ reads = {}

\* A save that main saw, of a file a tab had registered, was read by that tab
\* after it, unless it was too large.
EditsAreSent == Quiet => \A d \in due : TooLarge(temp[d[2]])

\* "Saving the file triggers re-upload to server" (TestPlanManual.md:87)
EverySaveIsSent == Quiet => due = {}

\* What is uploaded to a remote file was made from that file.
UploadsGoHome == \A r \in Remote : remote[r] # None => remote[r].home = r

\* What the user asked for is where the tab is, and all it waits for.
Follows ==
  /\ path = went
  /\ \A t \in Tab : reading[t] \subseteq {went[t]}
  /\ \A t \in open : reading[t] = {} /\ t \notin failed => shown[t] = went[t]

\* An overlay has a reason that will lift it.
Lifts ==
  \A t \in open : saving[t] => \/ batch[t].kind \notin {"none", "delete"}
                               \/ \E u \in uploads : u.tab = t

\* What is due has been registered, and a change or a read of it is on its way.
Sent ==
  \A d \in due :
    /\ d[1] \in open /\ meta[d[1]][d[2]] # None
    /\ \/ TooLarge(temp[d[2]])
       \/ \E i \in DOMAIN events : events[i] = d[2]
       \/ \E r \in reads : r.tab = d[1] /\ r.folder = d[2]

IInv == Typed /\ Follows /\ Lifts /\ Sent
==============================================================================
