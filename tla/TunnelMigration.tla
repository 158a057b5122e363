---------------------------- MODULE TunnelMigration ----------------------------
(*****************************************************************************)
(* The one-way migration of the tunnel rules that older versions kept inside *)
(* SSH profiles into the tunnels store (tunnel.service.ts), between the two  *)
(* stores of the renderer and the two files of the main process.             *)
(*                                                                           *)
(* A profile is nothing but its embedded rules here.  A tunnel is the rule   *)
(* it was made from and its id: 0 for the rule's own id, a number for one    *)
(* that was generated.  Every save and every reload awaits its own           *)
(* encryption, read or write, and any of those may fail: that is only logged.*)
(*****************************************************************************)
EXTENDS Naturals, Sequences, SequencesExt

CONSTANTS
  Rule,      \* the rules of the profiles
  MaxAsks    \* bound: restarts, reloads and edits, together

VARIABLES
  opened,     \* TunnelService exists: it is created by the first menu that needs it
  file,       \* profiles.json and tunnels.json; tunnels.json may be missing
  mem,        \* the two stores of the renderer
  loaded,     \* isLoaded of each store
  attempted,  \* migrationAttempted
  loads,      \* the reloads in flight of each store: Asked, or what main has read
  saves,      \* the saves on their way to the files, in the order they were made
  asks,       \* how many reloads, edits and restarts there were; numbers fresh ids
  deleted,    \* history: the rules whose tunnel the user deleted
  astray,     \* history: the rules whose tunnel was in a save that was lost or
              \* overtaken, or was undone by a reload that had not seen it
  skipped     \* history: rules that were there when the migration was attempted

vars == <<opened, file, mem, loaded, attempted, loads, saves, asks, deleted, astray, skipped>>

Store  == {"profiles", "tunnels"}
Tunnel == [rule : Rule, id : 0..MaxAsks]
Blank  == [profiles |-> {}, tunnels |-> {}]
Data   == [profiles : SUBSET Rule, tunnels : SUBSET Tunnel]

Content(s) == IF s = "profiles" THEN SUBSET Rule ELSE SUBSET Tunnel
Asked      == [read |-> FALSE, present |-> FALSE, data |-> {}, old |-> FALSE]
RulesOf(tunnels) == {t.rule : t \in tunnels}

TypeOK ==
  /\ opened \in BOOLEAN /\ attempted \in BOOLEAN /\ astray \subseteq Rule
  /\ file.profiles \subseteq Rule /\ file.tunnels \subseteq Tunnel /\ file.saved \in BOOLEAN
  /\ mem \in Data
  /\ loaded \in [Store -> BOOLEAN]
  /\ \A s \in Store : \A p \in ToSet(loads[s]) : p.data \in Content(s)
  /\ \A j \in ToSet(saves) : /\ j.store \in Store /\ j.data \in Content(j.store)
                            /\ j.sent \in BOOLEAN /\ j.clears \in BOOLEAN
  /\ asks \in 0..MaxAsks /\ deleted \subseteq Rule /\ skipped \subseteq Rule

Empty == [s \in Store |-> <<>>]

\* did-finish-load sends both stores; the tunnels are not listened to yet.
Init ==
  /\ opened = FALSE
  /\ file \in {[profiles |-> p, tunnels |-> {}, saved |-> FALSE] : p \in SUBSET Rule}
  /\ mem = Blank /\ loaded = [s \in Store |-> FALSE] /\ attempted = FALSE
  /\ loads = [Empty EXCEPT !.profiles = <<Asked>>]
  /\ saves = <<>> /\ asks = 0 /\ deleted = {} /\ astray = {} /\ skipped = {}

-----------------------------------------------------------------------------
\* persist(): memory first, then the encryption, then main.
SaveOf(s, data, clears) == [store |-> s, data |-> data, clears |-> clears, sent |-> FALSE]

Persist(s, data, clears) == saves' = Append(saves, SaveOf(s, data, clears))

\* migrateLegacyTunnels(): a rule keeps its id where that is free.
Moved(embedded, tunnels) ==
  {[rule |-> r, id |-> IF [rule |-> r, id |-> 0] \in tunnels THEN asks ELSE 0] : r \in embedded}

\* Mutant: the profiles are cleared before the tunnels are sent.
ClearFirst(embedded, there, profiles, tunnels) ==
  LET all == tunnels \cup Moved(embedded, tunnels) IN
  /\ attempted' = TRUE
  /\ skipped' = there \ embedded
  /\ mem' = [profiles |-> profiles \ embedded, tunnels |-> all]
  /\ saves' = saves \o <<SaveOf("profiles", profiles \ embedded, FALSE),
                        SaveOf("tunnels", all, TRUE)>>

\* maybeMigrate() at a moment when both stores are loaded: embedded is what
\* it finds in the profiles, there what they really hold.
Migrate(embedded, there, profiles, tunnels) ==
  LET all == tunnels \cup Moved(embedded, tunnels) IN
  /\ attempted' = TRUE
  /\ skipped' = there \ embedded
  /\ mem' = [profiles |-> profiles, tunnels |-> all]
  /\ IF embedded = {} THEN UNCHANGED saves ELSE Persist("tunnels", all, TRUE)

Leave(profiles, tunnels) ==
  /\ mem' = [profiles |-> profiles, tunnels |-> tunnels]
  /\ UNCHANGED <<attempted, skipped, saves>>

-----------------------------------------------------------------------------
Ask == asks < MaxAsks /\ asks' = asks + 1

\* The tunnels menu: the first opening creates the service, whose store is
\* not loaded; Refresh reloads it again.
Reload ==
  /\ Ask
  /\ opened' = TRUE
  /\ attempted' = FALSE
  /\ loaded' = [loaded EXCEPT !.tunnels = FALSE]
  /\ loads' = [loads EXCEPT !.tunnels = Append(@, Asked)]
  /\ UNCHANGED <<file, mem, saves, deleted, astray, skipped>>

\* the cloud menu after a download, and the profiles menu
ReloadProfiles ==
  /\ Ask
  /\ loaded' = [loaded EXCEPT !.profiles = FALSE]
  /\ loads' = [loads EXCEPT !.profiles = Append(@, Asked)]
  /\ UNCHANGED <<opened, file, mem, attempted, saves, deleted, astray, skipped>>

Read(s) ==
  \E k \in 1..Len(loads[s]) :
    /\ ~loads[s][k].read
    /\ loads' = [loads EXCEPT ![s][k] =
                   [read |-> TRUE, present |-> s = "profiles" \/ file.saved, data |-> file[s],
                    old |-> FALSE]]
    /\ UNCHANGED <<opened, file, mem, loaded, attempted, saves, asks, deleted, astray, skipped>>

\* The file cannot be read or the payload not decrypted: the store is marked
\* loaded only by what it takes.
ReadFails(s) ==
  \E k \in 1..Len(loads[s]) :
    /\ loads' = [loads EXCEPT ![s] = RemoveAt(@, k)]
    /\ UNCHANGED <<opened, file, mem, loaded, attempted, saves, asks, deleted, astray, skipped>>

\* A write ages every payload that was read before it.
Aged(s, queue) == [i \in 1..Len(queue) |-> IF queue[i].read THEN [queue[i] EXCEPT !.old = TRUE]
                                           ELSE queue[i]]

Pending(s) == \E i \in 1..Len(saves) : saves[i].store = s

Land(s, k) ==
  /\ loads[s][k].read
  /\ loads' = [loads EXCEPT ![s] = RemoveAt(@, k)]
  /\ loaded' = [loaded EXCEPT ![s] = TRUE]
  /\ UNCHANGED <<opened, file, asks, deleted>>

\* The tunnels land: postLoad() looks at profiles that are Profile objects.
TunnelsLand ==
  \E k \in 1..Len(loads.tunnels) :
    LET payload == loads.tunnels[k]
        tunnels == IF payload.present THEN payload.data ELSE mem.tunnels IN
    /\ Land("tunnels", k)
    /\ astray' = IF payload.old \/ Pending("tunnels")
                 THEN astray \cup (RulesOf(mem.tunnels) \ RulesOf(tunnels)) ELSE astray
    /\ IF ~attempted /\ loaded.profiles
       THEN Migrate(mem.profiles, mem.profiles, mem.profiles, tunnels)
       ELSE Leave(mem.profiles, tunnels)

\* The profiles land: markLoaded() makes TunnelService look at them before
\* ProfileService.postLoad() has turned them into Profile objects, and plain
\* objects have no getProfile.
ProfilesLand ==
  \E k \in 1..Len(loads.profiles) :
    LET profiles == loads.profiles[k].data IN
    /\ Land("profiles", k)
    /\ IF opened /\ ~attempted /\ loaded.tunnels
       THEN Migrate({}, profiles, profiles, mem.tunnels)
       ELSE Leave(profiles, mem.tunnels)
    /\ UNCHANGED astray

\* The rules of a tunnels save that tunnels.json does not hold.
OnlyIn(k) ==
  IF saves[k].store = "profiles" THEN {}
  ELSE RulesOf(saves[k].data) \ RulesOf(file.tunnels)

\* saveAll() resolves: that of the migration clears the profiles in place and
\* saves them, whether or not its own save was sent.
Resolved(k, others) ==
  LET clear == saves[k].clears /\ mem.profiles # {} IN
  /\ mem' = IF clear THEN [mem EXCEPT !.profiles = {}] ELSE mem
  /\ saves' = IF clear THEN Append(others, SaveOf("profiles", {}, FALSE)) ELSE others

\* An encryption is done: the save is sent.
Send ==
  \E k \in 1..Len(saves) :
    /\ ~saves[k].sent
    /\ Resolved(k, [saves EXCEPT ![k].sent = TRUE])
    /\ UNCHANGED <<opened, file, loaded, attempted, loads, asks, deleted, astray, skipped>>

\* It fails, which encrypt() turns into null: nothing is sent.
SendFails ==
  \E k \in 1..Len(saves) :
    /\ ~saves[k].sent
    /\ Resolved(k, RemoveAt(saves, k))
    /\ astray' = astray \cup OnlyIn(k)
    /\ UNCHANGED <<opened, file, loaded, attempted, loads, asks, deleted, skipped>>

\* The rules of save k that an earlier save of the same store, still to be
\* written, will take out again.
Overtaken(k) ==
  UNION {IF saves[i].store = "tunnels" /\ saves[k].store = "tunnels"
         THEN RulesOf(saves[k].data) \ RulesOf(saves[i].data) ELSE {} : i \in 1..k - 1}

Write ==
  \E k \in 1..Len(saves) :
    LET s == saves[k].store IN
    /\ saves[k].sent
    /\ file' = [file EXCEPT ![s] = saves[k].data, !.saved = @ \/ s = "tunnels"]
    /\ saves' = RemoveAt(saves, k)
    /\ loads' = [loads EXCEPT ![s] = Aged(s, @)]
    /\ astray' = astray \cup Overtaken(k)
    /\ UNCHANGED <<opened, mem, loaded, attempted, asks, deleted, skipped>>

WriteFails ==
  \E k \in 1..Len(saves) :
    /\ saves[k].sent
    /\ saves' = RemoveAt(saves, k)
    /\ astray' = astray \cup OnlyIn(k)
    /\ UNCHANGED <<opened, file, mem, loaded, attempted, loads, asks, deleted, skipped>>

Delete(t) ==
  /\ Ask /\ t \in mem.tunnels
  /\ mem' = [mem EXCEPT !.tunnels = @ \ {t}]
  /\ Persist("tunnels", mem.tunnels \ {t}, FALSE)
  /\ deleted' = deleted \cup {t.rule}
  /\ UNCHANGED <<opened, file, loaded, attempted, loads, astray, skipped>>

\* a profile is edited and saved with the others
SaveProfiles ==
  /\ Ask /\ loaded.profiles
  /\ Persist("profiles", mem.profiles, FALSE)
  /\ UNCHANGED <<opened, file, mem, loaded, attempted, loads, deleted, astray, skipped>>

\* The application is closed, or dies: what was not sent is gone, and so may
\* be what was not written.
Restart ==
  /\ Ask
  /\ astray' = astray \cup UNION {OnlyIn(k) : k \in {i \in 1..Len(saves) : saves[i].sent}}
  /\ opened' = FALSE /\ mem' = Blank /\ loaded' = [s \in Store |-> FALSE] /\ attempted' = FALSE
  /\ loads' = [Empty EXCEPT !.profiles = <<Asked>>]
  /\ saves' = <<>> /\ skipped' = {}
  /\ UNCHANGED <<file, deleted>>

Next ==
  \/ Reload \/ ReloadProfiles \/ TunnelsLand \/ ProfilesLand
  \/ Send \/ SendFails \/ Write \/ WriteFails \/ SaveProfiles \/ Restart
  \/ \E s \in Store : Read(s) \/ ReadFails(s)
  \/ \E t \in Tunnel : Delete(t)

Spec == Init /\ [][Next]_vars

-----------------------------------------------------------------------------
\* the rules that are in a file, or in a save main has been sent
OnDisk ==
  file.profiles \cup RulesOf(file.tunnels) \cup
    UNION {IF saves[k].store = "tunnels" THEN RulesOf(saves[k].data) ELSE saves[k].data
             : k \in {i \in 1..Len(saves) : saves[i].sent}}

RuleKeptByStep == OnDisk \ (deleted' \cup astray') \subseteq OnDisk'

\* A rule that was embedded in a profile is at all times on disk or on its way
\* there, as a rule of its profile or as a tunnel, until the user deletes it:
\* the profiles are cleared only after the tunnels were sent.  Excepted are the
\* rules whose tunnel was in a save that could not be encrypted or written,
\* that died with the application, or that another save or a reload undid.
RuleKept == [][RuleKeptByStep]_vars

\* "Clear the embedded copies so rules don't live in two places"
\* (tunnel.service.ts:148): the profiles give up no rule that is not a tunnel
\* elsewhere.  It fails: persist() resolves when nothing could be encrypted.
NoRuleLost == [][OnDisk \ deleted' \subseteq OnDisk']_vars

\* "Migration needs BOTH stores loaded; either load order is possible"
\* (tunnel.service.ts:50): an attempt leaves no rule behind.
EitherOrderMigrates == skipped = {}

\* "Idempotent: only rule ids unknown to the store are moved"
\* (tunnel.service.ts:138): a rule becomes one tunnel.
OneTunnelPerRule == \A t, u \in file.tunnels : t.rule = u.rule => t = u
==============================================================================
