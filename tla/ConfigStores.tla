------------------------------ MODULE ConfigStores ------------------------------
(*****************************************************************************)
(* The encrypted configuration stores and their master key.                  *)
(*                                                                           *)
(* Renderer: one store per file (EncryptedConfigStoreService), which loads,  *)
(* persists and reloads; MasterKeyService and its dialog.  Main process: the *)
(* handlers that write and read the files (configFiles.js, configService.js),*)
(* encrypt and decrypt under the key of the OS keyring, and change that key  *)
(* (security.js).                                                            *)
(*                                                                           *)
(* An action runs from one await or IPC message to the next.  `saves` and    *)
(* `loads` are the calls in flight, as sets: two equal ones count as one.    *)
(* A content stands for everything a store holds; versions, revisions and    *)
(* icons stamped on the way out are left out.  A wrong key never yields a    *)
(* content: CryptoJS throws or returns the empty string.                     *)
(*****************************************************************************)
EXTENDS Naturals, Sequences, FiniteSets

CONSTANTS
  File,            \* the encrypted stores, one file each
  EncryptedFiles,  \* those masterkey.change re-encrypts, in its order
  Echoed,          \* those main sends back to the renderer after a save
  Key, NoKey,      \* master keys; an empty keyring
  Content, Blank,  \* what a store may hold; what it starts from
  NoContent,       \* null
  Absent, Torn,    \* a file not written yet; one a failed write left truncated
  Unset,           \* no keyring update in progress
  MaxSaves,        \* bound: saves of the user in flight
  MaxLoads,        \* bound: loads in flight when the user saves or asks for one more
  MaxKeyWork       \* bound: how often the user works on the key

ASSUME ConstantsAssumption ==
  /\ EncryptedFiles \in Seq(File)
  /\ \A i, j \in 1..Len(EncryptedFiles) : EncryptedFiles[i] = EncryptedFiles[j] => i = j
  /\ Echoed \subseteq File
  /\ NoKey \notin Key
  /\ Unset \notin Key \cup {NoKey}
  /\ Blank \in Content /\ NoContent \notin Content
  /\ Absent # Torn
  /\ {Absent, Torn} \cap [key : Key, content : Content] = {}
  /\ MaxSaves \in Nat /\ MaxLoads \in Nat /\ MaxKeyWork \in Nat

VARIABLES
  keyring,    \* the password keytar holds
  setting,    \* the keyring update masterkey.save or masterkey.delete awaits
  file,       \* the files on disk
  store,      \* what each store of the renderer holds
  loaded,     \* store.isLoaded
  saves,      \* persist() calls, and the writes they lead to
  loads,      \* *.reload requests and the payloads they return
  change,     \* the masterkey.change in progress
  forfeited,  \* has the user deleted the key, or forced a new one?
  met,        \* files whose save was in flight during a change, until saved again
  cut,        \* files a change had not rewritten yet when it was cut off
  keyWork     \* how often the user has worked on the key

diskVars     == <<keyring, setting, file>>
rendererVars == <<store, loaded>>
flightVars   == <<saves, loads>>
history      == <<forfeited, met, cut, keyWork>>
vars == <<diskVars, rendererVars, flightVars, change, history>>

Disk == [key : Key, content : Content] \cup {Absent, Torn}

\* Decrypting `disk` with `key` yields its content.
Opens(key, disk) == disk \notin {Absent, Torn} /\ disk.key = key

SaveState ==
  [at : {"encrypt"}, file : File, content : Content]
  \cup [at : {"write"}, file : File, key : Key, content : Content]

LoadState ==
  [at : {"read"}, file : File] \cup [at : {"decrypt"}, file : File, disk : Disk]

Idle == [at |-> "idle"]
ChangeState ==
  {Idle} \cup [at : {"read", "write"}, old : Key, new : Key,
               next : 1..Len(EncryptedFiles) + 1,
               plain : [File -> Content \cup {NoContent}]]

TypeOK ==
  /\ keyring \in Key \cup {NoKey}
  /\ setting \in Key \cup {NoKey, Unset}
  /\ file \in [File -> Disk]
  /\ store \in [File -> Content]
  /\ loaded \in [File -> BOOLEAN]
  /\ saves \subseteq SaveState
  /\ loads \subseteq LoadState
  /\ change \in ChangeState
  /\ forfeited \in BOOLEAN
  /\ met \subseteq File
  /\ cut \subseteq File
  /\ keyWork \in 0..MaxKeyWork

\* did-finish-load: every store is blank and asks for its file.
AllLoads == {[at |-> "read", file |-> f] : f \in File}

Init ==
  /\ keyring = NoKey
  /\ setting = Unset
  /\ file = [f \in File |-> Absent]
  /\ store = [f \in File |-> Blank]
  /\ loaded = [f \in File |-> FALSE]
  /\ saves = {}
  /\ loads = AllLoads
  /\ change = Idle
  /\ forfeited = FALSE
  /\ met = {}
  /\ cut = {}
  /\ keyWork = 0

-------------------------------------------------------------------------------
(* Saving: persist(), crypto.encrypt, *.save *)

\* Nothing keeps a save from meeting a change of the key: its dialog can be
\* closed while main works.
Persist(f, c) ==
  /\ Cardinality(saves) < MaxSaves /\ Cardinality(loads) < MaxLoads
  /\ store' = [store EXCEPT ![f] = c]
  /\ saves' = saves \cup {[at |-> "encrypt", file |-> f, content |-> c]}
  /\ met' = IF change = Idle THEN met ELSE met \cup {f}
  /\ UNCHANGED <<diskVars, loaded, loads, change, forfeited, cut, keyWork>>

\* crypto.encrypt under the key of this moment; without one nothing is sent.
Encrypt(s) ==
  /\ s.at = "encrypt"
  /\ \/ /\ keyring = NoKey
        /\ saves' = saves \ {s}
     \/ /\ keyring # NoKey
        /\ saves' = (saves \ {s}) \cup
             {[at |-> "write", file |-> s.file, key |-> keyring, content |-> s.content]}
  /\ UNCHANGED <<diskVars, rendererVars, loads, change, history>>

\* configService.save; secrets and proxies are read back and sent to the renderer.
Write(s) ==
  /\ s.at = "write"
  /\ saves' = saves \ {s}
  /\ file' = [file EXCEPT ![s.file] = [key |-> s.key, content |-> s.content]]
  /\ loads' = IF s.file \in Echoed
              THEN loads \cup {[at |-> "read", file |-> s.file]} ELSE loads
  /\ met' = IF change = Idle /\ s.key = keyring /\ \A x \in saves' : x.file # s.file
            THEN met \ {s.file} ELSE met
  /\ cut' = cut \ {s.file}
  /\ UNCHANGED <<keyring, setting, rendererVars, change, forfeited, keyWork>>

\* writeFile truncates before it writes: an error is logged, the file is gone.
WriteFails(s) ==
  /\ s.at = "write"
  /\ saves' = saves \ {s}
  /\ file' = [file EXCEPT ![s.file] = Torn]
  /\ UNCHANGED <<keyring, setting, rendererVars, loads, change, history>>

-------------------------------------------------------------------------------
(* Loading: *.reload, *.loaded, apply() *)

\* A menu asks again for a store.
Reload(f) ==
  /\ Cardinality(loads) < MaxLoads
  /\ loaded' = [loaded EXCEPT ![f] = FALSE]
  /\ loads' = loads \cup {[at |-> "read", file |-> f]}
  /\ UNCHANGED <<diskVars, store, saves, change, history>>

Read(l) ==
  /\ l.at = "read"
  /\ loads' = (loads \ {l}) \cup {[at |-> "decrypt", file |-> l.file, disk |-> file[l.file]]}
  /\ UNCHANGED <<diskVars, rendererVars, saves, change, history>>

ReadFails(l) ==
  /\ l.at = "read"
  /\ loads' = loads \ {l}
  /\ UNCHANGED <<diskVars, rendererVars, saves, change, history>>

\* No payload: loaded, on what the store holds.  A payload the key does not
\* open leaves the store as it is, not loaded.
Apply(l) ==
  /\ l.at = "decrypt"
  /\ loads' = loads \ {l}
  /\ \/ /\ l.disk \in {Absent, Torn}
        /\ loaded' = [loaded EXCEPT ![l.file] = TRUE]
        /\ UNCHANGED store
     \/ /\ Opens(keyring, l.disk)
        /\ store' = [store EXCEPT ![l.file] = l.disk.content]
        /\ loaded' = [loaded EXCEPT ![l.file] = TRUE]
     \/ /\ l.disk \notin {Absent, Torn}
        /\ ~Opens(keyring, l.disk)
        /\ UNCHANGED rendererVars
  /\ UNCHANGED <<diskVars, saves, change, history>>

-------------------------------------------------------------------------------
(* The key: masterkey.save, masterkey.delete; one at a time is followed *)

WorkOnKey == keyWork < MaxKeyWork /\ keyWork' = keyWork + 1

\* First-time setup.
SetFirstKey(k) ==
  /\ WorkOnKey
  /\ setting = Unset
  /\ keyring = NoKey
  /\ setting' = k
  /\ UNCHANGED <<keyring, file, rendererVars, flightVars, change, forfeited, met, cut>>

DeleteKey ==
  /\ WorkOnKey
  /\ setting = Unset
  /\ keyring # NoKey
  /\ setting' = NoKey
  /\ forfeited' = TRUE
  /\ UNCHANGED <<keyring, file, rendererVars, flightVars, change, met, cut>>

\* Force Continue: the new key is sent, not awaited, and every store is cleared
\* and persisted, under whichever key crypto.encrypt finds.
ForceContinue(k) ==
  /\ WorkOnKey
  /\ setting = Unset
  /\ keyring # NoKey
  /\ setting' = k
  /\ forfeited' = TRUE
  /\ store' = [f \in File |-> Blank]
  /\ saves' = saves \cup {[at |-> "encrypt", file |-> f, content |-> Blank] : f \in File}
  /\ met' = IF change = Idle THEN met ELSE File
  /\ UNCHANGED <<keyring, file, loaded, loads, change, cut>>

\* keytar answers; it may refuse.
KeyringUpdated ==
  /\ setting # Unset
  /\ keyring' = setting \/ UNCHANGED keyring
  /\ setting' = Unset
  /\ UNCHANGED <<file, rendererVars, flightVars, change, history>>

-------------------------------------------------------------------------------
(* masterkey.change: it takes no lock; one at a time is followed *)

\* The files a change under way has decrypted and not yet rewritten.
Unwritten ==
  IF change.at # "write" THEN {}
  ELSE {f \in {EncryptedFiles[i] : i \in change.next..Len(EncryptedFiles)} :
          change.plain[f] # NoContent}

\* The old password matches; a wrong one is refused, with nothing done.
ChangeKey(new) ==
  /\ WorkOnKey
  /\ change = Idle
  /\ keyring # NoKey
  /\ change' = [at |-> "read", old |-> keyring, new |-> new, next |-> 1,
                plain |-> [f \in File |-> NoContent]]
  /\ met' = met \cup {s.file : s \in saves}
  /\ UNCHANGED <<diskVars, rendererVars, flightVars, forfeited, cut>>

\* Mutant of DecryptNext: an absent file ends the loop instead of being skipped.
DecryptUntilAbsent ==
  LET f == EncryptedFiles[change.next] IN
  /\ change.at = "read"
  /\ change.next <= Len(EncryptedFiles)
  /\ \/ /\ file[f] = Absent
        /\ change' = [change EXCEPT !.next = Len(EncryptedFiles) + 1]
     \/ /\ Opens(change.old, file[f])
        /\ change' = [change EXCEPT !.next = @ + 1, !.plain[f] = file[f].content]
     \/ /\ file[f] # Absent
        /\ change' = Idle
  /\ UNCHANGED <<diskVars, rendererVars, flightVars, history>>

\* Phase 1, one file: absent, decrypted, or unreadable and the change refused.
DecryptNext ==
  LET f == EncryptedFiles[change.next] IN
  /\ change.at = "read"
  /\ change.next <= Len(EncryptedFiles)
  /\ \/ /\ file[f] = Absent
        /\ change' = [change EXCEPT !.next = @ + 1]
     \/ /\ Opens(change.old, file[f])
        /\ change' = [change EXCEPT !.next = @ + 1, !.plain[f] = file[f].content]
     \/ /\ file[f] # Absent
        /\ change' = Idle
  /\ UNCHANGED <<diskVars, rendererVars, flightVars, history>>

\* Phase 2: the keyring first, if keytar takes it ...
SwitchKeyring ==
  /\ change.at = "read"
  /\ change.next > Len(EncryptedFiles)
  /\ \/ /\ keyring' = change.new
        /\ change' = [change EXCEPT !.at = "write", !.next = 1]
     \/ /\ change' = Idle
        /\ UNCHANGED keyring
  /\ UNCHANGED <<setting, file, rendererVars, flightVars, history>>

\* Mutants of RewriteNext: what is rewritten comes from the renderer's memory; a
\* file that was absent is written all the same.
RewriteFromMemory ==
  LET f == EncryptedFiles[change.next] IN
  /\ change.at = "write"
  /\ change.next <= Len(EncryptedFiles)
  /\ file' = [file EXCEPT ![f] = [key |-> change.new, content |-> store[f]]]
  /\ change' = [change EXCEPT !.next = @ + 1]
  /\ UNCHANGED <<keyring, setting, rendererVars, flightVars, history>>

RewriteAbsentToo ==
  LET f == EncryptedFiles[change.next] IN
  /\ change.at = "write"
  /\ change.next <= Len(EncryptedFiles)
  /\ file' = [file EXCEPT ![f] = [key |-> change.new, content |-> change.plain[f]]]
  /\ change' = [change EXCEPT !.next = @ + 1]
  /\ UNCHANGED <<keyring, setting, rendererVars, flightVars, history>>

\* ... then each file that was decrypted.
RewriteNext ==
  LET f == EncryptedFiles[change.next] IN
  /\ change.at = "write"
  /\ change.next <= Len(EncryptedFiles)
  /\ file' = IF change.plain[f] = NoContent THEN file
             ELSE [file EXCEPT ![f] = [key |-> change.new, content |-> change.plain[f]]]
  /\ change' = [change EXCEPT !.next = @ + 1]
  /\ UNCHANGED <<keyring, setting, rendererVars, flightVars, history>>

RewriteFails ==
  LET f == EncryptedFiles[change.next] IN
  /\ change.at = "write"
  /\ change.next <= Len(EncryptedFiles)
  /\ change.plain[f] # NoContent
  /\ file' = [file EXCEPT ![f] = Torn]
  /\ change' = Idle
  /\ cut' = cut \cup Unwritten
  /\ UNCHANGED <<keyring, setting, rendererVars, flightVars, forfeited, met, keyWork>>

ChangeDone ==
  /\ change.at = "write"
  /\ change.next > Len(EncryptedFiles)
  /\ change' = Idle
  /\ UNCHANGED <<diskVars, rendererVars, flightVars, history>>

-------------------------------------------------------------------------------
(* Restarts *)

RendererStarts ==
  /\ store' = [f \in File |-> Blank]
  /\ loaded' = [f \in File |-> FALSE]
  /\ loads' = AllLoads

\* The page reloads: what main is writing goes on.
WindowReload ==
  /\ RendererStarts
  /\ saves' = {s \in saves : s.at = "write"}
  /\ UNCHANGED <<diskVars, change, history>>

\* The application quits or dies and starts again; what was being written is
\* left truncated or as it was.
Restart ==
  /\ RendererStarts
  /\ saves' = {}
  /\ setting' = Unset
  /\ change' = Idle
  /\ cut' = cut \cup Unwritten
  /\ \E torn \in SUBSET {s.file : s \in {x \in saves : x.at = "write"}} :
       file' = [f \in File |-> IF f \in torn THEN Torn ELSE file[f]]
  /\ UNCHANGED <<keyring, forfeited, met, keyWork>>

-------------------------------------------------------------------------------

Next ==
  \/ \E f \in File, c \in Content : Persist(f, c)
  \/ \E s \in saves : Encrypt(s) \/ Write(s) \/ WriteFails(s)
  \/ \E f \in File : Reload(f)
  \/ \E l \in loads : Read(l) \/ ReadFails(l) \/ Apply(l)
  \/ \E k \in Key : SetFirstKey(k) \/ ForceContinue(k) \/ ChangeKey(k)
  \/ DeleteKey
  \/ KeyringUpdated
  \/ DecryptNext \/ SwitchKeyring \/ RewriteNext \/ RewriteFails \/ ChangeDone
  \/ WindowReload
  \/ Restart

Spec == Init /\ [][Next]_vars

-------------------------------------------------------------------------------
(* Properties *)

\* A file that holds a content.
Sealed(f) == file[f] \notin {Absent, Torn}

Migrated == {EncryptedFiles[i] : i \in 1..Len(EncryptedFiles)}

\* What a change under way holds of a file that it has still to rewrite.
StillHeld(f) ==
  f \in Unwritten /\ file[f].key = change.old /\ change.plain[f] = file[f].content

\* Whatever was saved, loaded, refused and changed, in whatever order, the key
\* of the keyring opens every file masterkey.change looks after, or the change
\* under way still holds its old key and its content.  Three things end that:
\* the user gives the key up; a save of the file was in flight during a change,
\* and nothing has been saved to it since; a change was cut off before it.
FilesStayReadable ==
  ~forfeited =>
    \A f \in Migrated \ (met \cup cut) :
      Sealed(f) => file[f].key = keyring \/ StillHeld(f)

\* A file's content changes only by a save of that content: neither a change of
\* the key, nor a refused or interrupted one, puts back an older content, except
\* over a save that was made while it was at work.
ContentComesFromSaves ==
  [][\A f \in File :
       Sealed(f) /\ Sealed(f)' /\ file'[f].content # file[f].content =>
         \/ \E s \in saves : s.at = "write" /\ s.file = f /\ s.content = file'[f].content
         \/ f \in Unwritten \cap met]_vars

\* "never let the keyring switch to the new key while disk files are still
\* encrypted with the OLD key" (security.js:68), once the change is over.
NothingLeftUnderOldKey ==
  ~forfeited /\ change = Idle =>
    \A f \in File \ (met \cup cut) : Sealed(f) => file[f].key = keyring

\* "If ANY step fails, nothing is changed (no partial re-encrypt)." (security.js:75)
NoPartialReencrypt ==
  ~forfeited /\ change = Idle =>
    \A f \in Migrated \ met : Sealed(f) => file[f].key = keyring

\* "Master-key change re-encrypts every encrypted file atomically" (README.md:60):
\* a save that meets it is not left under the old key ...
NoSaveLeftBehind ==
  ~forfeited /\ change = Idle =>
    \A f \in Migrated \ cut : Sealed(f) => file[f].key = keyring

\* ... and is not undone by what the change read before it.
NoSaveUndone ==
  [][\A f \in File :
       Sealed(f) /\ Sealed(f)' /\ file'[f].content # file[f].content =>
         \E s \in saves : s.at = "write" /\ s.file = f /\ s.content = file'[f].content]_vars

===============================================================================
