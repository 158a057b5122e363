-------------------------------- MODULE Settings --------------------------------
(*****************************************************************************)
(* The settings: settings.json and what the main process knows of it         *)
(* (electronMain.js, configFiles.js), the store of the renderer              *)
(* (setting.service.ts) and those who change it, the settings menu with the  *)
(* lists of AI models it fetches (setting-menu.component.ts) and the toggles *)
(* of the chat, which lies above the menu.                                   *)
(*                                                                           *)
(* Settings are sections, each a version: 0 for the defaults.  "hidden" is   *)
(* what AiSettings has and no form shows; an older version of the program    *)
(* did not write it.  The tabs of the menu with a form are two, "ui" *)
(* for all but the AI's; ACP's models are fetched like those of the web.     *)
(* The file may be replaced by a download (CloudSync).                       *)
(*****************************************************************************)
EXTENDS Naturals, Sequences, SequencesExt

CONSTANT MaxOps  \* bound: what the user does, and what numbers the versions

VARIABLES
  file, writes,   \* settings.json, and the writeFile() calls under way
  reads,          \* main's load() calls under way
  lastSettings,   \* what main takes the settings to be
  wire, replies,  \* messages to main and from it, in order
  listening,      \* the store's service was made
  store, loaded,  \* loaded: "never", "no" since reload(), "yes"
  menu,           \* open, and what its forms show
  spinner,
  due,            \* the fields of the AI form whose change is being debounced
  flights,        \* fetches of models
  loading,        \* isLoadingModels
  list,           \* the address whose models are offered, 0 for none
  dead,           \* the fields whose subscription an error has ended
  ops,
  latest,         \* history: each section as the user last left it
  excuses         \* history: see the properties

diskVars  == <<file, writes, reads, lastSettings>>
modelVars == <<due, flights, loading, list, dead>>
storeVars == <<listening, store, loaded>>
vars == <<diskVars, wire, replies, storeVars, menu, spinner, modelVars, ops, latest, excuses>>

Section == {"ui", "ai", "toggles", "hidden", "labels"}
Version  == 0..(MaxOps + 1)
Content == [Section -> Version]
Defaults == [s \in Section |-> 0]
All(v)   == [s \in Section |-> v]
File     == [kind : {"none", "ours", "older", "newer"}, content : Content]
NoFile   == [kind |-> "none", content |-> Defaults]
Ours(c)  == [kind |-> "ours", content |-> c]
Invalid  == MaxOps + 2          \* of a form: a field that is required is empty
Forms == [ui : Version, ai : Version \cup {Invalid}, toggles : Version]
Field    == {"url", "token"}

TypeOK ==
  /\ file \in File /\ lastSettings \in File
  /\ \A i \in DOMAIN writes : writes[i] \in Content
  /\ \A i \in DOMAIN reads : reads[i] \in {"start", "reload"}
  /\ store \in Content /\ loaded \in {"never", "no", "yes"}
  /\ menu.open \in BOOLEAN /\ menu.forms \in Forms /\ spinner \in BOOLEAN
  /\ due \subseteq Field \ dead /\ loading \in BOOLEAN
  /\ \A f \in flights : f.by \in Field \cup {"button"} /\ f.of \in Version
  /\ excuses \subseteq {"hasty", "replaced", "torn", "missed", "stale", "overlapped", "crossed"}

FormsOf(c) == [ui |-> c.ui, ai |-> c.ai, toggles |-> c.toggles]
Closed == [open |-> FALSE, forms |-> FormsOf(Defaults)]

\* The page has been loaded, and main reads the settings; a file may be missing
\* or from another version of the program.
Init ==
  /\ file \in {NoFile} \cup [kind : {"ours", "older", "newer"}, content : {All(1)}]
  /\ writes = <<>> /\ reads = <<"start">> /\ lastSettings = NoFile
  /\ wire = <<>> /\ replies = <<>>
  /\ listening = FALSE /\ store = Defaults /\ loaded = "never"
  /\ menu = Closed /\ spinner = FALSE
  /\ due = {} /\ flights = {} /\ loading = FALSE /\ list = 0 /\ dead = {}
  /\ ops = 1 /\ excuses = {}
  /\ latest = IF file.kind \in {"ours", "older"} THEN All(1) ELSE Defaults

-----------------------------------------------------------------------------
\* The service of the store is made: it listens, and asks in case it missed
\* what main sent.
Message(kind, c) == [kind |-> kind, content |-> c]
Send(kind, c) == wire' = Append(wire, Message(kind, c))

Listens ==
  /\ ~listening /\ listening' = TRUE
  /\ Send("get", Defaults)
  /\ UNCHANGED <<diskVars, replies, store, loaded, menu, spinner, modelVars, ops, latest, excuses>>

\* validate(): what is missing or out of range gets its default.
Validated(data) ==
  CASE data.kind = "ours"  -> data.content
    [] data.kind = "older" -> [data.content EXCEPT !.hidden = 0]
    [] OTHER               -> Defaults

\* apply(): a store that is loaded takes no more.  An open menu shows what it
\* got, and takes the spinner away.
Applied(data) ==
  IF loaded = "yes" THEN UNCHANGED <<store, loaded, menu, spinner, due>>
  ELSE /\ store' = IF data.kind = "none" THEN store ELSE Validated(data)
       /\ loaded' = "yes"
       /\ IF menu.open
          THEN /\ menu' = [menu EXCEPT !.forms = FormsOf(store')]
               /\ spinner' = FALSE /\ due' = Field \ dead
          ELSE UNCHANGED <<menu, spinner, due>>

\* 'settings.loaded', and the answer to 'settings.get', which may be nothing
ReplyArrives ==
  /\ replies # <<>> /\ replies' = Tail(replies)
  /\ IF Head(replies).kind = "got" /\ Head(replies).data.kind = "none"
     THEN UNCHANGED <<store, loaded, menu, spinner, due>>
     ELSE Applied(Head(replies).data)
  /\ UNCHANGED <<diskVars, wire, listening, flights, loading, list, dead, ops, latest, excuses>>

-----------------------------------------------------------------------------
\* The user, unless the spinner covers everything.
User == listening /\ ~spinner /\ ops < MaxOps /\ ops' = ops + 1
InMenu == menu.open /\ User

\* reload()
Reload == /\ loaded' = IF loaded = "never" THEN loaded ELSE "no"
          /\ Send("reload", Defaults)

\* ngOnInit(): what was loaded last is announced to every new subscriber.
OpenMenu ==
  /\ ~menu.open /\ listening /\ ~spinner
  /\ loaded # "yes" => ops < MaxOps
  /\ ops' = IF loaded = "yes" THEN ops ELSE ops + 1
  /\ menu' = [open |-> TRUE, forms |-> FormsOf(store)]
  /\ due' = IF loaded = "never" THEN {} ELSE Field
  /\ IF loaded = "yes" THEN UNCHANGED <<loaded, wire>> ELSE Reload
  /\ UNCHANGED <<diskVars, replies, listening, store, spinner, flights, loading, list, dead, latest, excuses>>

\* ngOnDestroy()
Closes ==
  /\ menu' = Closed
  /\ due' = {} /\ flights' = {} /\ loading' = FALSE /\ list' = 0 /\ dead' = {}

Close ==
  /\ menu.open /\ ~spinner /\ Closes
  /\ UNCHANGED <<diskVars, wire, replies, storeVars, spinner, ops, latest, excuses>>

EditUi ==
  /\ InMenu
  /\ menu' = [menu EXCEPT !.forms.ui = ops']
  /\ UNCHANGED <<diskVars, wire, replies, storeVars, spinner, modelVars, latest, excuses>>

EditAddress(field) ==
  /\ InMenu
  /\ menu' = [menu EXCEPT !.forms.ai = ops']
  /\ due' = due \cup ({field} \ dead)
  /\ UNCHANGED <<diskVars, wire, replies, storeVars, spinner, flights, loading, list, dead, latest, excuses>>

\* onClearAiSettings(): reset() knows none of the names it is given
ClearAi ==
  /\ InMenu
  /\ menu' = [menu EXCEPT !.forms.ai = Invalid]
  /\ due' = Field \ dead
  /\ UNCHANGED <<diskVars, wire, replies, storeVars, spinner, flights, loading, list, dead, latest, excuses>>

\* save(): the store has it at once.  One that is made before the file was
\* loaded, or again loaded, is hasty.
Saves(c, sections) ==
  /\ store' = c /\ Send("save", c)
  /\ latest' = [s \in Section |-> IF s \in sections THEN c[s] ELSE latest[s]]

Hasty == IF loaded = "yes" THEN {} ELSE {"hasty"}

\* Both make new settings of their part, with what the form shows.
UiFormToModel == [store EXCEPT !.ui = menu.forms.ui]
AiFormToModel == [store EXCEPT !.ai = menu.forms.ai, !.toggles = menu.forms.toggles, !.hidden = 0]

\* onSave(), of the form that is shown; it may close the menu
SaveUi ==
  /\ InMenu
  /\ Saves(UiFormToModel, {"ui"})
  /\ excuses' = excuses \cup Hasty
  /\ (Closes \/ UNCHANGED <<menu, modelVars>>)
  /\ UNCHANGED <<diskVars, replies, listening, loaded, spinner>>

SaveAi ==
  /\ InMenu /\ menu.forms.ai # Invalid
  /\ Saves(AiFormToModel, {"ai"})
  /\ excuses' = excuses \cup Hasty \cup (IF menu.forms.toggles # store.toggles THEN {"stale"} ELSE {})
  /\ (Closes \/ UNCHANGED <<menu, modelVars>>)
  /\ UNCHANGED <<diskVars, replies, listening, loaded, spinner>>

\* addGroup() and the like; removals are Library's
Labelled(labels) == [store EXCEPT !.labels = labels]

SaveLabels ==
  /\ InMenu
  /\ Saves(Labelled(ops'), {"labels"})
  /\ excuses' = excuses \cup Hasty
  /\ UNCHANGED <<diskVars, replies, listening, loaded, menu, spinner, modelVars>>

\* The toggles of the chat are there whether or not the menu is open.
Toggle ==
  /\ User
  /\ Saves([store EXCEPT !.toggles = ops'], {"toggles"})
  /\ excuses' = excuses \cup Hasty
  /\ UNCHANGED <<diskVars, replies, listening, loaded, menu, spinner, modelVars>>

\* An older request is under way, whose answer will be taken for that of a new
\* one, and the latter ignored.
Overlap ==
  IF reads # <<>> \/ replies # <<>> \/ \E i \in DOMAIN wire : wire[i].kind # "save"
  THEN {"overlapped"} ELSE {}

\* The menu's reload button: the spinner goes when settings arrive.
ReloadClicked ==
  /\ InMenu /\ spinner' = TRUE /\ Reload
  /\ excuses' = excuses \cup Overlap
  /\ UNCHANGED <<diskVars, replies, listening, store, menu, modelVars, latest>>

\* A download has replaced the file, and the cloud menu reloads the settings.
Saving == writes # <<>> \/ \E i \in DOMAIN wire : wire[i].kind = "save"
Downloaded ==
  /\ ~menu.open /\ User /\ ~Saving
  /\ file' = Ours(All(ops')) /\ latest' = All(ops')
  /\ Reload
  /\ excuses' = excuses \cup {"replaced"} \cup Overlap
  /\ UNCHANGED <<writes, reads, lastSettings, replies, listening, store, menu, spinner, modelVars>>

-----------------------------------------------------------------------------
\* The lists of models.
HasAddress(ai) == ai \notin {0, Invalid}

\* fetchAiModels(), as the stream of a field or for the button
Fetch(by) ==
  LET others == {f \in flights : f.by # by} IN
  IF HasAddress(menu.forms.ai)
  THEN /\ flights' = others \cup {[by |-> by, of |-> menu.forms.ai]}
       /\ loading' = TRUE
       /\ excuses' = excuses \cup (IF \E f \in flights : f.by # by /\ f.of # menu.forms.ai THEN {"crossed"} ELSE {})
  ELSE /\ flights' = others
       /\ loading' = IF others # flights THEN FALSE ELSE loading
       /\ UNCHANGED excuses

\* debounceTime(), switchMap(): the last fetch of the field is given up.
Elapses(field) ==
  /\ field \in due /\ due' = due \ {field}
  /\ Fetch(field)
  /\ UNCHANGED <<diskVars, wire, replies, storeVars, menu, spinner, list, dead, ops, latest>>

RefreshModels ==
  /\ InMenu /\ ~loading
  /\ Fetch("button")
  /\ UNCHANGED <<diskVars, wire, replies, storeVars, menu, spinner, due, list, dead, latest>>

ModelsArrive(f) ==
  /\ f \in flights /\ flights' = flights \ {f} /\ loading' = FALSE
  /\ list' = f.of
  /\ excuses' = IF flights' = {} /\ f.of = menu.forms.ai THEN excuses \ {"crossed"} ELSE excuses
  /\ UNCHANGED <<diskVars, wire, replies, storeVars, menu, spinner, due, dead, ops, latest>>

\* An error ends the subscription it comes up in.
ModelsFail(f) ==
  /\ f \in flights /\ flights' = flights \ {f} /\ loading' = FALSE
  /\ dead' = dead \cup ({f.by} \ {"button"}) /\ due' = due \ {f.by}
  /\ UNCHANGED <<diskVars, wire, replies, storeVars, menu, spinner, list, ops, latest, excuses>>

-----------------------------------------------------------------------------
\* The main process.
Received(kind) == wire # <<>> /\ Head(wire).kind = kind /\ wire' = Tail(wire)
Reply(kind, data) == replies' = Append(replies, [kind |-> kind, data |-> data])
rendererVars == <<storeVars, menu, spinner, modelVars, ops, latest>>

SaveReceived ==
  /\ Received("save")
  /\ writes' = Append(writes, Head(wire).content)
  /\ UNCHANGED <<file, reads, lastSettings, replies, rendererVars, excuses>>

\* onSettingsSaved(), once the file was written
WriteLands ==
  /\ writes # <<>> /\ writes' = Tail(writes)
  /\ file' = Ours(Head(writes)) /\ lastSettings' = file'
  /\ excuses' = excuses \ {"replaced"}
  /\ UNCHANGED <<reads, wire, replies, rendererVars>>

ReloadReceived ==
  /\ Received("reload")
  /\ reads' = Append(reads, "reload")
  /\ UNCHANGED <<file, writes, lastSettings, replies, rendererVars, excuses>>

GetReceived ==
  /\ Received("get")
  /\ Reply("got", lastSettings)
  /\ UNCHANGED <<diskVars, rendererVars, excuses>>

\* load(): the file as it is, or as it is being written.  Main takes note of
\* the first only; nobody hears of that before the store listens.
ReadLands(i) ==
  LET Readable == {file} \cup {Ours(writes[j]) : j \in DOMAIN writes} IN
  /\ reads' = RemoveAt(reads, i)
  /\ \E data \in Readable :
       /\ lastSettings' = IF reads[i] = "start" THEN data ELSE lastSettings
       /\ IF listening THEN Reply("loaded", data) ELSE UNCHANGED replies
       /\ excuses' = excuses
            \cup (IF ~listening /\ data.kind = "none" THEN {"missed"} ELSE {})
            \cup (IF writes # <<>> /\ data # Ours(Last(writes)) THEN {"overlapped"} ELSE {})
  /\ UNCHANGED <<file, writes, wire, rendererVars>>

\* Less than either was read: JSON.parse() throws where nobody catches it.
ReadIsTorn(i) ==
  /\ writes # <<>>
  /\ reads' = RemoveAt(reads, i)
  /\ excuses' = excuses \cup {"torn"}
  /\ UNCHANGED <<file, writes, lastSettings, wire, replies, rendererVars>>

Next ==
  \/ Listens \/ ReplyArrives
  \/ OpenMenu \/ Close \/ EditUi \/ ClearAi \/ SaveUi \/ SaveAi \/ SaveLabels
  \/ Toggle \/ ReloadClicked \/ Downloaded \/ RefreshModels
  \/ \E field \in Field : EditAddress(field) \/ Elapses(field)
  \/ \E f \in flights : ModelsArrive(f) \/ ModelsFail(f)
  \/ SaveReceived \/ WriteLands \/ ReloadReceived \/ GetReceived
  \/ \E i \in DOMAIN reads : ReadLands(i) \/ ReadIsTorn(i)

Spec == Init /\ [][Next]_vars

-----------------------------------------------------------------------------
AtRest == reads = <<>> /\ writes = <<>> /\ wire = <<>> /\ replies = <<>>
Unexcused(es) == excuses \cap es = {}

\* Once nothing is on its way the settings are loaded and the spinner is gone,
\* unless a read met a write, or there was no file and main said so too early.
SettingsArrive ==
  AtRest /\ listening /\ Unexcused({"torn"}) =>
    ~spinner /\ (loaded = "yes" \/ "missed" \in excuses)

\* What the renderer shows, main goes by and the file holds is then the same,
\* unless something was saved before it was loaded, or a reload overlapped an
\* older one or a save that was being written; of a download main does not know.
SettingsAgree ==
  AtRest /\ loaded = "yes" /\ Unexcused({"torn", "hasty", "overlapped"}) =>
    /\ store = Validated(file)
    /\ "replaced" \notin excuses => lastSettings = file

\* A save of one section leaves the others as the user left them, except for
\* the toggles that the chat changed while the AI's form was open.
SettingsKept ==
  AtRest /\ file.kind \in {"ours", "older"} /\ Unexcused({"hasty", "overlapped"}) =>
    /\ \A s \in {"ui", "ai", "labels"} : file.content[s] = latest[s]
    /\ "stale" \notin excuses => file.content.toggles = latest.toggles

\* Once nothing is being fetched, the models that are offered are those of the
\* address in the form, unless fetches crossed or one has failed.
ModelsFollow ==
  menu.open /\ due = {} /\ flights = {} /\ dead = {} /\ Unexcused({"crossed", "hasty"})
    /\ HasAddress(menu.forms.ai) => list = menu.forms.ai
=============================================================================
