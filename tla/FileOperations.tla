----------------------------- MODULE FileOperations -----------------------------
(*****************************************************************************)
(* What the user of a file explorer tab asks for (file-list.component.ts):   *)
(* rows are pointed at, one by one or through the selection, deleted,        *)
(* renamed, copied, cut, pasted, edited in a dialog, dragged onto a folder   *)
(* or from another connection.                                               *)
(*                                                                           *)
(* The listing on screen is that of `path` only once it has been read, and   *)
(* it stays when a read fails.  The server may answer anything: what it does *)
(* to its files is RemoteFiles.  A place is a directory and a name.          *)
(*****************************************************************************)
EXTENDS Naturals, Sequences, FiniteSets, SequencesExt

CONSTANTS
  Dir,      \* directories
  Root,     \* the one whose listing has folders: all the others
  Name,     \* names of files
  MaxOps    \* bound: how often the user navigates or asks for something

VARIABLES
  path,
  rows,       \* dataSource: a listing, and the directory it was made of
  reading,    \* the directories whose listing is awaited: at most one
  selection,  \* names
  clip,       \* clipboard, clipboardMode and clipboardSourcePath
  dialogs,    \* open dialogs, the topmost last
  requests,   \* requests that are not answered
  saving,     \* isSaving: an overlay is over the table
  uploading,  \* the file of an external editor is being uploaded
  ops,        \* how much of MaxOps is used up; numbers requests and copies
  picked,     \* history: the places the user pointed at to select them
  copied,     \* history: the number of what was last copied or cut
  moved,      \* history: the cuts whose paste succeeded
  hasty,      \* history: rows were pointed at that are not those of `path`
  early       \* history: the overlay was lifted by one operation of several

shownVars == <<path, rows, reading>>
pickVars  == <<selection, picked>>
pastVars  == <<clip, copied, moved>>
busyVars  == <<requests, saving, uploading, early>>
vars == <<shownVars, pickVars, pastVars, busyVars, dialogs, ops, hasty>>

Place == Dir \X Name
Places(dir, names) == {dir} \X names

NoClip == [mode |-> "none", dir |-> Root, names |-> {}, places |-> {}, id |-> 0]

\* the requests behind the overlay
Covered == {"rename", "copy", "move", "drop", "erase", "write", "put", "get"}

\* The kinds of requests, and the rows that one is about
Kinds == Covered \cup {"delete", "create", "save", "fetch"}
Items == [names : SUBSET Name, places : SUBSET Place, selected : BOOLEAN]

RowsTyped ==
  /\ path \in Dir /\ rows \in [dir : Dir, names : SUBSET Name]
  /\ \E d \in Dir : reading \subseteq {d}
  /\ selection \subseteq Name /\ picked \subseteq Place

ClipTyped ==
  /\ clip \in [mode : {"none", "copy", "move"}, dir : Dir, names : SUBSET Name,
               places : SUBSET Place, id : 0..MaxOps]
  /\ copied \in 0..MaxOps /\ moved \subseteq 0..MaxOps

RequestsTyped ==
  /\ requests \subseteq [kind : Kinds, dir : Dir, names : SUBSET Name, places : SUBSET Place,
                         selected : BOOLEAN, to : Dir, id : 0..MaxOps, number : 0..MaxOps]
  /\ dialogs \in Seq([kind : {"rename", "create", "edit"}, dir : Dir, items : Items])

OpsTyped ==
  /\ ops \in 0..MaxOps /\ saving \in BOOLEAN /\ uploading \in BOOLEAN
  /\ hasty \in BOOLEAN /\ early \in BOOLEAN

TypeOK == RowsTyped /\ ClipTyped /\ RequestsTyped /\ OpsTyped

Init ==
  /\ path = Root /\ reading = {Root}
  /\ rows = [dir |-> Root, names |-> {}]
  /\ selection = {} /\ picked = {}
  /\ clip = NoClip /\ copied = 0 /\ moved = {}
  /\ dialogs = <<>> /\ requests = {} /\ saving = FALSE /\ uploading = FALSE
  /\ ops = 0 /\ hasty = FALSE /\ early = FALSE

-----------------------------------------------------------------------------
\* The table and the toolbar can be used: no overlay, no dialog over them.
UserSees == ~saving /\ dialogs = <<>>
Asks == ops < MaxOps /\ ops' = ops + 1
UserAsks == UserSees /\ Asks

ClearSelection == selection' = {} /\ picked' = {}

\* navigate(), navigateUp(), navigateToPath(), onFavoriteSelected()
Navigate(d) ==
  /\ UserAsks
  /\ path' = d /\ reading' = {d}
  /\ ClearSelection
  /\ UNCHANGED <<rows, pastVars, busyVars, dialogs, hasty>>

\* The refresh button
Refresh ==
  /\ UserAsks
  /\ reading' = {path}
  /\ UNCHANGED <<path, rows, pickVars, pastVars, busyVars, dialogs, hasty>>

\* The server lists what others left there.
ListingArrives(names) ==
  /\ reading # {}
  /\ rows' = [dir |-> CHOOSE d \in reading : TRUE, names |-> names]
  /\ reading' = {}
  /\ UNCHANGED <<path, pickVars, pastVars, busyVars, dialogs, ops, hasty>>

ListingFails ==
  /\ reading # {}
  /\ reading' = {}
  /\ UNCHANGED <<path, rows, pickVars, pastVars, busyVars, dialogs, ops, hasty>>

-----------------------------------------------------------------------------
\* Rows.  A click selects its row, ctrl adds or removes it, shift selects the
\* rows between this one and the last.
Pointed == hasty' = (hasty \/ rows.dir # path)

SelectedBy(click, name) ==
  CASE click = "plain" -> {{name}}
    [] click = "ctrl"  -> {IF name \in selection THEN selection \ {name} ELSE selection \cup {name}}
    [] click = "shift" -> {names \in SUBSET rows.names : name \in names}

OnRowClick(click, name) ==
  /\ UserSees /\ name \in rows.names
  /\ selection' \in SelectedBy(click, name)
  /\ selection' # selection
  /\ LET kept == IF click = "ctrl" THEN {p \in picked : p[2] \in selection'} ELSE {}
         new  == IF click = "ctrl" THEN selection' \ selection ELSE selection' IN
     picked' = kept \cup Places(rows.dir, new)
  /\ Pointed
  /\ UNCHANGED <<shownVars, pastVars, busyVars, dialogs, ops>>

\* What an operation is about: the row whose menu was opened, or the selected
\* names that have a row.
Row(name) == [names |-> {name}, places |-> Places(rows.dir, {name}), selected |-> FALSE]
SelectedItems == [names |-> selection \cap rows.names,
                  places |-> {p \in picked : p[2] \in rows.names}, selected |-> TRUE]

Picks == {Row(n) : n \in rows.names} \cup (IF selection = {} THEN {} ELSE {SelectedItems})

\* The names of the selection are downloaded whether they have a row or not.
Downloads ==
  {Row(n) : n \in rows.names}
    \cup (IF selection = {} THEN {}
          ELSE {[names |-> selection, places |-> picked, selected |-> TRUE]})

\* A menu is opened on its row now, a row was selected before.
Chosen(items) == IF items.selected THEN UNCHANGED hasty ELSE Pointed

-----------------------------------------------------------------------------
\* Requests: about items of a directory; a move also says where to.
Ask(kind, dir, items, to, id) ==
  /\ requests' = requests \cup {[kind |-> kind, dir |-> dir, names |-> items.names,
       places |-> items.places, selected |-> items.selected, to |-> to, id |-> id, number |-> ops']}
  /\ saving' = (saving \/ kind \in Covered)
  /\ UNCHANGED <<uploading, early>>

Nothing == [names |-> {}, places |-> {}, selected |-> FALSE]

\* deleteItem(), deleteSelected(): confirm() stops the renderer until it is
\* answered
Delete(items) ==
  /\ UserAsks /\ Chosen(items)
  /\ Ask("delete", path, items, path, ops')
  /\ UNCHANGED <<shownVars, pickVars, pastVars, dialogs>>

\* download(), downloadSelected()
Download(items) ==
  /\ UserAsks /\ Chosen(items)
  /\ Ask("save", path, items, path, ops')
  /\ UNCHANGED <<shownVars, pickVars, pastVars, dialogs>>

\* copyItems(), cutItems(), copySelected(), cutSelected()
Copy(items, mode) ==
  /\ UserAsks /\ Chosen(items) /\ items.names # {}
  /\ clip' = [mode |-> mode, dir |-> path, names |-> items.names, places |-> items.places,
              id |-> ops']
  /\ copied' = ops'
  /\ IF items.selected THEN ClearSelection ELSE UNCHANGED pickVars
  /\ UNCHANGED <<shownVars, moved, busyVars, dialogs>>

ClipItems == [names |-> clip.names, places |-> clip.places, selected |-> FALSE]

\* pasteItems(): the button is there while nothing is selected
Paste ==
  /\ UserAsks /\ selection = {} /\ clip.mode # "none"
  /\ Ask(clip.mode, clip.dir, ClipItems, path, clip.id)
  /\ UNCHANGED <<shownVars, pickVars, pastVars, dialogs, hasty>>

\* onRowDragStart(), onFolderDrop(): a folder is dropped on by its name; what
\* is dragged is what was dragged when the drag began
FolderDrop(name, folder) ==
  /\ UserAsks /\ name \in rows.names /\ rows.dir = Root /\ folder # Root
  /\ Pointed
  /\ Ask("drop", path, Row(name), folder, ops')
  /\ UNCHANGED <<shownVars, pickVars, pastVars, dialogs>>

\* onDrop(): a local file is uploaded; onCrossTabDrop(): one file of another
\* tab is downloaded from its connection first, a folder is refused
Drop(kind) ==
  /\ UserAsks
  /\ Ask(kind, path, Nothing, path, ops')
  /\ UNCHANGED <<shownVars, pickVars, pastVars, dialogs, hasty>>

\* editFile()
Edit(name) ==
  /\ UserAsks /\ name \in rows.names
  /\ Pointed
  /\ Ask("fetch", path, Row(name), path, ops')
  /\ UNCHANGED <<shownVars, pickVars, pastVars, dialogs>>

-----------------------------------------------------------------------------
\* Dialogs.
Shows(dialog) == dialogs' = Append(dialogs, dialog)

\* renameItem(), renameSelected()
Rename(items) ==
  /\ UserAsks /\ Chosen(items) /\ Cardinality(items.names) = 1
  /\ Shows([kind |-> "rename", dir |-> path, items |-> items])
  /\ IF items.selected THEN ClearSelection ELSE UNCHANGED pickVars
  /\ UNCHANGED <<shownVars, pastVars, busyVars>>

\* createFolder(): the button is there while nothing is selected
CreateFolder ==
  /\ UserAsks /\ selection = {}
  /\ Shows([kind |-> "create", dir |-> path, items |-> Nothing])
  /\ UNCHANGED <<shownVars, pickVars, pastVars, busyVars, hasty>>

DialogCancelled ==
  /\ dialogs # <<>>
  /\ dialogs' = Front(dialogs)
  /\ UNCHANGED <<shownVars, pickVars, pastVars, busyVars, ops, hasty>>

\* The overlay is not over dialogs.
Confirms(kind) ==
  /\ dialogs # <<>> /\ Last(dialogs).kind = kind /\ Asks
  /\ dialogs' = Front(dialogs)
  /\ UNCHANGED <<shownVars, pickVars, pastVars, hasty>>

\* The directory is the one on screen by then.
NameGiven == Confirms("rename") /\ Ask("rename", path, Last(dialogs).items, path, ops')
FolderNamed == Confirms("create") /\ Ask("create", path, Nothing, path, ops')

\* The editor keeps the directory of its file, and deletes the file before it
\* uploads what replaces it.
EditSaved == Confirms("edit") /\ Ask("erase", Last(dialogs).dir, Last(dialogs).items, path, ops')

-----------------------------------------------------------------------------
\* Answers.

\* isSaving = false: nobody looks whether something else is being saved
LiftOverlay(left) ==
  /\ saving' = FALSE
  /\ early' = (early \/ uploading \/ \E r \in left : r.kind \in Covered)

Ends(q) ==
  /\ q \in requests
  /\ requests' = requests \ {q}
  /\ IF q.kind \in Covered THEN LiftOverlay(requests \ {q}) ELSE UNCHANGED <<saving, early>>

Rereads(q) == reading' = IF q.kind \in {"save", "fetch"} THEN reading ELSE {path}

\* A cut that was pasted is used up, and so is what the clipboard holds by then.
UseUpCut(q) ==
  IF q.kind = "move" THEN clip' = NoClip /\ moved' = moved \cup {q.id}
  ELSE UNCHANGED <<clip, moved>>

Answered(q) ==
  /\ q.kind \notin {"erase", "get"}
  /\ Ends(q) /\ Rereads(q) /\ UseUpCut(q)
  /\ IF q.kind = "delete" /\ q.selected THEN ClearSelection ELSE UNCHANGED pickVars
  /\ IF q.kind = "fetch"
     THEN Shows([kind |-> "edit", dir |-> q.dir,
                 items |-> [names |-> q.names, places |-> q.places, selected |-> FALSE]])
     ELSE UNCHANGED dialogs
  /\ UNCHANGED <<path, rows, copied, uploading, ops, hasty>>

GoesOnAs(q, kind) ==
  /\ requests' = (requests \ {q}) \cup {[q EXCEPT !.kind = kind]}
  /\ UNCHANGED <<shownVars, pickVars, pastVars, saving, uploading, early, dialogs, ops, hasty>>

\* The file is deleted, or it was downloaded: the upload follows.
Erased(q) == q.kind = "erase" /\ GoesOnAs(q, "write")
Fetched(q) == q.kind = "get" /\ GoesOnAs(q, "put")

\* Uploads that end read the listing again, whether they failed or not.
Refused(q) ==
  /\ Ends(q)
  /\ reading' = IF q.kind = "put" THEN {path} ELSE reading
  /\ UNCHANGED <<path, rows, pickVars, pastVars, uploading, dialogs, ops, hasty>>

\* An external editor saved: FileExplorer models what is uploaded.
UploadStarts ==
  /\ ~uploading /\ uploading' = TRUE /\ saving' = TRUE
  /\ Asks
  /\ UNCHANGED <<shownVars, pickVars, pastVars, requests, early, dialogs, hasty>>

UploadEnds ==
  /\ uploading /\ uploading' = FALSE
  /\ saving' = FALSE
  /\ early' = (early \/ \E r \in requests : r.kind \in Covered)
  /\ UNCHANGED <<shownVars, pickVars, pastVars, requests, dialogs, ops, hasty>>

Next ==
  \/ \E d \in Dir : Navigate(d)
  \/ Refresh
  \/ \E names \in SUBSET Name : ListingArrives(names)
  \/ ListingFails
  \/ \E n \in rows.names :
       \/ \E click \in {"plain", "ctrl", "shift"} : OnRowClick(click, n)
       \/ Edit(n)
       \/ \E d \in Dir : FolderDrop(n, d)
  \/ \E items \in Picks :
       \/ Delete(items) \/ Rename(items)
       \/ \E mode \in {"copy", "move"} : Copy(items, mode)
  \/ \E items \in Downloads : Download(items)
  \/ Paste \/ CreateFolder
  \/ \E kind \in {"put", "get"} : Drop(kind)
  \/ DialogCancelled \/ NameGiven \/ FolderNamed \/ EditSaved
  \/ \E q \in requests : Answered(q) \/ Erased(q) \/ Fetched(q) \/ Refused(q)
  \/ UploadStarts \/ UploadEnds

Spec == Init /\ [][Next]_vars

-----------------------------------------------------------------------------
\* What a request names are the files its user pointed at, in the directory
\* where they were shown, whatever was read, selected, answered or visited in
\* between; unless a row was pointed at that was not of the directory on screen.
ActsOnRows == hasty \/ \A q \in requests : q.places = Places(q.dir, q.names)

\* What was cut is moved once; what was last copied or cut stays in the
\* clipboard until it was moved.  Both unless the overlay was lifted too early.
ClipboardKept ==
  \/ early
  \/ /\ clip.id = copied \/ copied \in moved
     /\ \A q \in requests : q.kind = "move" =>
          /\ q.id \notin moved
          /\ \A r \in requests \ {q} : r.kind = "move" => r.id # q.id

\* What was pointed at is where it was shown, all the way to the request.
PointedAt ==
  ~hasty =>
    /\ picked = Places(path, selection)
    /\ clip.places = Places(clip.dir, clip.names)
    /\ \A i \in DOMAIN dialogs :
         /\ dialogs[i].items.places = Places(dialogs[i].dir, dialogs[i].items.names)
         /\ dialogs[i].kind # "edit" => dialogs[i].dir = path
    /\ \A q \in requests : q.places = Places(q.dir, q.names)

\* At most one move is under way, and it is of what the clipboard holds.
MovesOnce ==
  /\ clip.id <= ops /\ copied <= ops /\ \A m \in moved : m <= ops
  /\ \A q \in requests : q.id <= ops
  /\ ~early =>
       /\ uploading \/ (\E q \in requests : q.kind \in Covered) => saving
       /\ clip.mode = "move" => clip.id \notin moved
       /\ clip.id = copied \/ copied \in moved
       /\ \A q \in requests : q.kind = "move" =>
            /\ clip.mode = "move" /\ q.id = clip.id
            /\ \A r \in requests : r.kind = "move" => r = q

IInv == TypeOK /\ PointedAt /\ MovesOnce
=============================================================================
