--------------------------------- MODULE HeadlessSetup ---------------------------------
(*****************************************************************************)
(* A machine without a desktop is set up by commands (src-protocol/          *)
(* masterkey, cloud, doctor): they install the master key in a file, write   *)
(* cloud.json under it, replace the other files by those of the repository   *)
(* and check the result.  Commands wait for answers of their user and for    *)
(* the network, and run beside each other and beside the application.        *)
(*****************************************************************************)
EXTENDS Naturals, FiniteSets

CONSTANTS
  Key,      \* master keys
  RepoKey,  \* the one the files of the repository are encrypted with
  Command,  \* commands that may run at a time
  None,
  MaxCommands \* bound

VARIABLES
  envKey,   \* $YAET_MASTER_KEY
  exported, \* $YAET_MASTER_KEY_FILE names the key file
  keyring,  \* the key of the application
  keyFile,  \* the key in the key file, or None
  file,     \* the key each file is encrypted with, or None when it is missing
  command,  \* what runs: kind, step, key and options
  started,
  vouched,  \* `masterkey set` has verified the key file, profiles.json is that one
  passed,   \* doctor found no problem, nothing was written since
  sealed    \* cloud.json is that of `cloud setup`, and no key came since it began

vars == <<envKey, exported, keyring, keyFile, file, command, started, vouched,
          passed, sealed>>

Repository == {"profiles", "secrets", "proxies"} \* ALL_ITEMS; settings are not encrypted
File == Repository \cup {"cloud"}

Idle == [kind |-> "none", step |-> "none", key |-> None, force |-> FALSE]

Commands ==
  [kind : {"none", "set", "setup", "download"},
   step : {"none", "overwrite", "write", "password", "fetch", "profiles", "secrets", "proxies"},
   key : Key \cup {None}, force : BOOLEAN]

TypeOK ==
  /\ {envKey, keyring, keyFile} \subseteq Key \cup {None} /\ exported \in BOOLEAN
  /\ file \in [File -> Key \cup {None}]
  /\ command \in [Command -> Commands]
  /\ started \in 0..MaxCommands
  /\ {vouched, passed, sealed} \subseteq BOOLEAN

Init ==
  /\ envKey \in Key \cup {None} /\ exported = FALSE /\ keyring \in {None, RepoKey}
  /\ keyFile = None /\ file = [f \in File |-> None]
  /\ command = [c \in Command |-> Idle] /\ started = 0
  /\ vouched = FALSE /\ passed = FALSE /\ sealed = FALSE

outside == <<envKey, exported, keyring>>
claims  == <<vouched, passed, sealed>>

\* resolveMasterKeyWithSource(): a key file that is named and missing throws.
Resolved(explicit) ==
  IF explicit # None THEN explicit
  ELSE IF envKey # None THEN envKey
  ELSE IF exported THEN keyFile
  ELSE keyring

Opens(key, f) == file[f] = key /\ key # None

-----------------------------------------------------------------------------
\* The user exports YAET_MASTER_KEY_FILE, or unsets YAET_MASTER_KEY.
Export ==
  /\ ~exported /\ exported' = TRUE /\ passed' = FALSE /\ sealed' = FALSE
  /\ UNCHANGED <<envKey, keyring, keyFile, file, command, started, vouched>>

\* A store of the application is saved.
AppSaves(f) ==
  /\ keyring # None /\ file' = [file EXCEPT ![f] = keyring]
  /\ vouched' = (vouched /\ f # "profiles") /\ passed' = FALSE
  /\ sealed' = (sealed /\ f # "cloud")
  /\ UNCHANGED <<outside, keyFile, command, started>>

\* A command starts; end: it exits, with code 0 or 1.
Start(c, kind, step, key, force) ==
  /\ command[c] = Idle /\ started < MaxCommands
  /\ started' = started + 1
  /\ command' = [command EXCEPT ![c] = [kind |-> kind, step |-> step, key |-> key,
                                        force |-> force]]

Step(c, step) == command' = [command EXCEPT ![c].step = step]

End(c) == command' = [command EXCEPT ![c] = Idle]

-----------------------------------------------------------------------------
\* cmdSet(): the key is on the command line, in stdin or typed twice.
Set(c, key, force) ==
  /\ Start(c, "set", IF keyFile # None /\ ~force THEN "overwrite" ELSE "write", key, force)
  /\ UNCHANGED <<outside, keyFile, file, claims>>

\* "Overwrite? [y/N]", or an error where there is no terminal.
AnswerOverwrite(c) ==
  /\ command[c].step = "overwrite"
  /\ \/ Step(c, IF command[c].kind = "set" THEN "write" ELSE "password")
     \/ End(c)
  /\ UNCHANGED <<outside, keyFile, file, started, claims>>

\* What `masterkey set` requires of the key when it comes to write it.
Accepts(c) == command[c].force \/ file["profiles"] = None \/ Opens(command[c].key, "profiles")

WriteKey(c) ==
  /\ command[c].kind = "set" /\ command[c].step = "write" /\ Accepts(c)
  /\ keyFile' = command[c].key /\ End(c)
  /\ vouched' = ~command[c].force /\ passed' = FALSE /\ sealed' = FALSE
  /\ UNCHANGED <<outside, file, started>>

RefuseKey(c) ==
  /\ command[c].kind = "set" /\ command[c].step = "write" /\ ~Accepts(c)
  /\ End(c)
  /\ UNCHANGED <<outside, keyFile, file, started, claims>>

-----------------------------------------------------------------------------
\* cmdSetup(): the key is resolved first, then the user is asked.
Setup(c, explicit, force) ==
  /\ Resolved(explicit) # None
  /\ Start(c, "setup", IF file["cloud"] # None /\ ~force THEN "overwrite" ELSE "password",
           Resolved(explicit), FALSE)
  /\ UNCHANGED <<outside, keyFile, file, claims>>

\* What a download requires of the files that are there when it starts.
Readable(key) == \A f \in {"proxies", "secrets"} : file[f] = None \/ Opens(key, f)

\* The password is given: cloud.json is written, and --download goes on when
\* proxies and secrets open; otherwise the command fails.
WriteCloud(c) ==
  /\ command[c].step = "password"
  /\ file' = [file EXCEPT !["cloud"] = command[c].key]
  /\ \/ Step(c, "none")
     \/ Readable(command[c].key) /\ Step(c, "fetch")
  /\ passed' = FALSE /\ sealed' = (Resolved(None) = command[c].key)
  /\ UNCHANGED <<outside, keyFile, started, vouched>>

Exit(c) ==
  /\ \/ command[c].kind = "setup" /\ command[c].step = "none"
     \/ command[c].step \in {"password", "fetch"} \cup Repository \* no password; an error
  /\ End(c)
  /\ UNCHANGED <<outside, keyFile, file, started, claims>>

\* cmdDownload(): cloud.json has to open; proxies and secrets have to if they exist.
Download(c, explicit) ==
  /\ Opens(Resolved(explicit), "cloud") /\ Readable(Resolved(explicit))
  /\ Start(c, "download", "fetch", Resolved(explicit), FALSE)
  /\ UNCHANGED <<outside, keyFile, file, claims>>

\* download() has cloned the repository: file by file, a backup and a copy.
Fetched(c) ==
  /\ command[c].step = "fetch"
  /\ Step(c, "profiles")
  /\ UNCHANGED <<outside, keyFile, file, started, claims>>

After(f) == CASE f = "profiles" -> "secrets" [] f = "secrets" -> "proxies" [] f = "proxies" -> "none"

Replace(c, f) ==
  /\ command[c].step = f
  /\ file' \in {file, [file EXCEPT ![f] = RepoKey]} \* skipped when not in the repository
  /\ IF After(f) = "none" THEN End(c) ELSE Step(c, After(f))
  /\ vouched' = (vouched /\ f # "profiles") /\ passed' = FALSE
  /\ UNCHANGED <<outside, keyFile, started, sealed>>

-----------------------------------------------------------------------------
ENCRYPTEDShort == {"profiles", "secrets", "cloud"} \* mutant: a file is missing

\* The list of files doctor decrypts.
ENCRYPTED == {"profiles", "secrets", "cloud", "proxies"}

\* runDoctor(): after the key is resolved it reads the files without waiting.
Doctor ==
  /\ Resolved(None) # None
  /\ \A f \in ENCRYPTED : file[f] = None \/ Opens(Resolved(None), f)
  /\ passed' = TRUE
  /\ UNCHANGED <<outside, keyFile, file, command, started, vouched, sealed>>

Next ==
  \/ Export
  \/ \E f \in File : AppSaves(f)
  \/ \E c \in Command :
       \/ \E key \in Key, force \in BOOLEAN : Set(c, key, force)
       \/ \E explicit \in Key \cup {None}, force \in BOOLEAN : Setup(c, explicit, force)
       \/ \E explicit \in Key \cup {None} : Download(c, explicit)
       \/ AnswerOverwrite(c) \/ WriteKey(c) \/ RefuseKey(c) \/ WriteCloud(c)
       \/ Exit(c) \/ Fetched(c)
       \/ \E f \in Repository : Replace(c, f)
  \/ Doctor

Spec == Init /\ [][Next]_vars

-----------------------------------------------------------------------------
\* "If profiles.json already exists, the key is verified against it before
\* writing" (headless-cli.md): a key that `masterkey set` wrote without --force
\* opens the profiles.json that was there when it was written, however long the
\* user took to answer and whatever replaced the file meanwhile.
KeyFileOpens == vouched => file["profiles"] \in {None, keyFile}

\* After doctor has passed, the servers and `cloud download` find nothing that
\* does not open (doctor/command.js, ENCRYPTED).
DoctorTells ==
  passed => /\ \A f \in {"profiles", "secrets"} : file[f] \in {None, Resolved(None)}
            /\ file["cloud"] # None => Opens(Resolved(None), "cloud") /\ Readable(Resolved(None))

\* The cloud.json of `cloud setup` opens for the next command, unless the key
\* changed while it asked (cloud/command.js:205).
SetupOpens == sealed => Opens(Resolved(None), "cloud")

\* Why: whoever is asked for a password has resolved a key before.
KeyBeforePassword ==
  \A c \in Command :
    /\ command[c].kind = "setup" => command[c].key # None
    /\ command[c].step = "overwrite" => command[c].kind \in {"set", "setup"}
    /\ command[c].step = "password" => command[c].kind = "setup"

IInv == TypeOK /\ KeyBeforePassword /\ KeyFileOpens /\ DoctorTells /\ SetupOpens
=====================================================================================
