---------------------------- MODULE ConfigStores_proofs ----------------------------
(*****************************************************************************)
(* Proofs about ConfigStores, for any number of stores, keys, contents and   *)
(* saves in flight.                                                          *)
(*****************************************************************************)
EXTENDS ConfigStores, TLAPS

N == Len(EncryptedFiles)

\* What a change under way has noted of a file that it has not rewritten yet.
Held(f) ==
  IF Sealed(f) THEN file[f].key = change.old /\ change.plain[f] = file[f].content
               ELSE change.plain[f] = NoContent

\* Before the first key nothing is sealed; only a first key, or a user who gives
\* the key up, updates the keyring outside a change.
KeyWork ==
  ~forfeited =>
    /\ keyring = NoKey =>
         /\ change = Idle
         /\ \A s \in saves : s.at # "write"
         /\ \A f \in File : ~Sealed(f)
    /\ setting # Unset => keyring = NoKey

\* A save in flight while a change is at work has met it.
SavesMeet == change # Idle => \A s \in saves : s.file \in met

\* A ciphertext on its way to the disk is under the key of the keyring, unless
\* its file has met a change.
WritesUnderKey ==
  ~forfeited =>
    \A s \in saves : s.at = "write" /\ s.file \notin met => s.key = keyring

\* Phase 1: what has been read is held, the rest is untouched.
Reading ==
  change.at = "read" =>
    /\ ~forfeited => change.old = keyring
    /\ \A i \in 1..N : i < change.next /\ EncryptedFiles[i] \notin met => Held(EncryptedFiles[i])
    /\ \A i \in 1..N : i >= change.next => change.plain[EncryptedFiles[i]] = NoContent

\* Phase 2: what has been written is under the new key, the rest is held.
Rewriting ==
  change.at = "write" =>
    /\ ~forfeited => change.new = keyring
    /\ \A i \in 1..N : i < change.next /\ EncryptedFiles[i] \notin met =>
         (Sealed(EncryptedFiles[i]) => file[EncryptedFiles[i]].key = change.new)
    /\ \A i \in 1..N : i >= change.next /\ EncryptedFiles[i] \notin met => Held(EncryptedFiles[i])

\* FilesStayReadable is not inductive: a save or a keyring update in flight could
\* break it, and so could a change that noted something else than what is on disk.
CInv ==
  /\ TypeOK
  /\ KeyWork
  /\ SavesMeet
  /\ WritesUnderKey
  /\ Reading
  /\ Rewriting
  /\ FilesStayReadable

-------------------------------------------------------------------------------
(* Facts about the data *)

\* N is a natural number and the files of a change are stores.
LEMMA ChangeOrder ==
  /\ N \in Nat
  /\ \A i \in 1..N : EncryptedFiles[i] \in File
  /\ \A i, j \in 1..N : EncryptedFiles[i] = EncryptedFiles[j] => i = j
  /\ Migrated \subseteq File
  BY ConstantsAssumption DEF N, Migrated

\* What a change under way carries.
LEMMA UnderWay ==
  ASSUME TypeOK, change # Idle
  PROVE  /\ change \in [at : {"read", "write"}, old : Key, new : Key,
                        next : 1..N + 1, plain : [File -> Content \cup {NoContent}]]
         /\ change.at \in {"read", "write"}
         /\ change.old \in Key /\ change.new \in Key /\ change.next \in 1..N + 1
         /\ change.plain \in [File -> Content \cup {NoContent}]
  BY DEF TypeOK, ChangeState, N

\* A change that has a phase is under way.
LEMMA HasPhase ==
  (change.at = "read" \/ change.at = "write") => change # Idle
  BY DEF Idle

\* A file is sealed when it is a ciphertext.
LEMMA SealedType ==
  ASSUME TypeOK, NEW f \in File
  PROVE  Sealed(f) <=> file[f] \in [key : Key, content : Content]
  BY ConstantsAssumption DEF TypeOK, Disk, Sealed

-------------------------------------------------------------------------------
(* Type correctness *)

\* The bound on the user's work on the key is kept.
LEMMA WorkOnKeyType == TypeOK /\ WorkOnKey => keyWork' \in 0..MaxKeyWork
  BY ConstantsAssumption DEF TypeOK, WorkOnKey

\* What is still to be rewritten are files a change looks after.
LEMMA UnwrittenFiles ==
  ASSUME TypeOK
  PROVE  Unwritten \subseteq Migrated /\ Unwritten \subseteq File
<1>1. CASE change.at # "write" BY <1>1 DEF Unwritten
<1>2. CASE change.at = "write"
  <2>1. change.next \in 1..N + 1 BY <1>2, HasPhase, UnderWay
  <2>2. change.next..N \subseteq 1..N BY <2>1, ChangeOrder
  <2>3. Unwritten \subseteq Migrated BY <1>2, <2>2 DEF Unwritten, Migrated, N
  <2>4. QED BY <2>3, ChangeOrder
<1>3. QED BY <1>1, <1>2

\* Every step keeps the types.
LEMMA TypeStep == TypeOK /\ [Next]_vars => TypeOK'
<1> SUFFICES ASSUME TypeOK, [Next]_vars PROVE TypeOK'
  OBVIOUS
<1> USE DEF diskVars, rendererVars, flightVars, history
<1>1. ASSUME NEW f \in File, NEW c \in Content, Persist(f, c) PROVE TypeOK'
  <2>1. saves' \subseteq SaveState /\ met' \subseteq File BY <1>1 DEF Persist, TypeOK, SaveState
  <2>2. QED BY <1>1, <2>1 DEF Persist, TypeOK
<1>2. ASSUME NEW s \in saves, Encrypt(s) PROVE TypeOK'
  <2>1. s \in SaveState /\ s.file \in File /\ s.content \in Content
    BY <1>2 DEF TypeOK, SaveState
  <2>2. keyring # NoKey =>
          [at |-> "write", file |-> s.file, key |-> keyring, content |-> s.content] \in SaveState
    BY <2>1 DEF TypeOK, SaveState
  <2>3. saves' \subseteq SaveState BY <1>2, <2>2 DEF Encrypt, TypeOK
  <2>4. QED BY <1>2, <2>3 DEF Encrypt, TypeOK
<1>3. ASSUME NEW s \in saves, Write(s) PROVE TypeOK'
  <2>1. s.file \in File /\ s.content \in Content /\ s.key \in Key
    BY <1>3 DEF Write, TypeOK, SaveState
  <2>2. file' \in [File -> Disk] BY <1>3, <2>1 DEF Write, TypeOK, Disk
  <2>3. loads' \subseteq LoadState BY <1>3, <2>1 DEF Write, TypeOK, LoadState
  <2>4. met' \subseteq File /\ cut' \subseteq File BY <1>3, <2>1 DEF Write, TypeOK
  <2>5. QED BY <1>3, <2>2, <2>3, <2>4 DEF Write, TypeOK
<1>4. ASSUME NEW s \in saves, WriteFails(s) PROVE TypeOK'
  BY <1>4 DEF WriteFails, TypeOK, Disk
<1>5. ASSUME NEW f \in File, Reload(f) PROVE TypeOK'
  BY <1>5 DEF Reload, TypeOK, LoadState
<1>6. ASSUME NEW l \in loads, Read(l) PROVE TypeOK'
  <2>1. l.file \in File BY DEF TypeOK, LoadState
  <2>2. file[l.file] \in Disk BY <2>1 DEF TypeOK
  <2>3. loads' \subseteq LoadState BY <1>6, <2>1, <2>2 DEF Read, TypeOK, LoadState
  <2>4. QED BY <1>6, <2>3 DEF Read, TypeOK
<1>7. ASSUME NEW l \in loads, ReadFails(l) PROVE TypeOK'
  BY <1>7 DEF ReadFails, TypeOK
<1>8. ASSUME NEW l \in loads, Apply(l) PROVE TypeOK'
  <2>1. l.file \in File /\ l.disk \in Disk BY <1>8 DEF Apply, TypeOK, LoadState
  <2>2. l.disk \notin {Absent, Torn} => l.disk.content \in Content BY <2>1 DEF Disk
  <2>3. store' \in [File -> Content] /\ loaded' \in [File -> BOOLEAN]
    BY <1>8, <2>1, <2>2 DEF Apply, Opens, TypeOK
  <2>4. QED BY <1>8, <2>3 DEF Apply, TypeOK
<1>9. ASSUME NEW k \in Key, SetFirstKey(k) PROVE TypeOK'
  BY <1>9, WorkOnKeyType DEF SetFirstKey, TypeOK
<1>10. ASSUME NEW k \in Key, ForceContinue(k) PROVE TypeOK'
  <2>1. saves' \subseteq SaveState
    BY <1>10, ConstantsAssumption DEF ForceContinue, TypeOK, SaveState
  <2>2. store' \in [File -> Content] /\ met' \subseteq File
    BY <1>10, ConstantsAssumption DEF ForceContinue, TypeOK
  <2>3. QED BY <1>10, <2>1, <2>2, WorkOnKeyType DEF ForceContinue, TypeOK
<1>11. ASSUME NEW k \in Key, ChangeKey(k) PROVE TypeOK'
  <2>1. change' \in ChangeState
    BY <1>11, ChangeOrder DEF ChangeKey, TypeOK, ChangeState, N
  <2>2. met' \subseteq File BY <1>11 DEF ChangeKey, TypeOK, SaveState
  <2>3. QED BY <1>11, <2>1, <2>2, WorkOnKeyType DEF ChangeKey, TypeOK
<1>12. CASE DeleteKey BY <1>12, WorkOnKeyType DEF DeleteKey, TypeOK
<1>13. CASE KeyringUpdated BY <1>13 DEF KeyringUpdated, TypeOK
<1>14. CASE DecryptNext
  <2> DEFINE f == EncryptedFiles[change.next]
  <2>1. change # Idle BY <1>14, HasPhase DEF DecryptNext
  <2>2. change.next \in 1..N /\ f \in File
    BY <1>14, <2>1, UnderWay, ChangeOrder DEF DecryptNext, N
  <2>3. Opens(change.old, file[f]) => file[f].content \in Content
    BY <2>2 DEF Opens, TypeOK, Disk
  <2>4. change' \in ChangeState
    <3>1. change.next + 1 \in 1..N + 1 BY <2>2, ChangeOrder
    <3>2. CASE change' = Idle BY <3>2 DEF ChangeState
    <3>3. CASE change' = [change EXCEPT !.next = @ + 1]
      BY <2>1, <3>1, <3>3, UnderWay DEF ChangeState, N
    <3>4. CASE /\ Opens(change.old, file[f])
               /\ change' = [change EXCEPT !.next = @ + 1, !.plain[f] = file[f].content]
      <4>1. [change.plain EXCEPT ![f] = file[f].content] \in [File -> Content \cup {NoContent}]
        BY <2>1, <2>3, <3>4, UnderWay
      <4>2. QED BY <2>1, <3>1, <3>4, <4>1, UnderWay DEF ChangeState, N
    <3>5. QED BY <1>14, <3>2, <3>3, <3>4 DEF DecryptNext
  <2>5. QED BY <1>14, <2>4 DEF DecryptNext, TypeOK
<1>15. CASE SwitchKeyring
  <2>1. change # Idle BY <1>15, HasPhase DEF SwitchKeyring
  <2>2. change' \in ChangeState
    <3>1. 1 \in 1..N + 1 BY ChangeOrder
    <3>2. CASE change' = [change EXCEPT !.at = "write", !.next = 1]
      BY <2>1, <3>1, <3>2, UnderWay DEF ChangeState, N
    <3>3. CASE change' = Idle BY <3>3 DEF ChangeState
    <3>4. QED BY <1>15, <3>2, <3>3 DEF SwitchKeyring
  <2>3. keyring' \in Key \cup {NoKey} BY <1>15, <2>1, UnderWay DEF SwitchKeyring, TypeOK
  <2>4. QED BY <1>15, <2>2, <2>3 DEF SwitchKeyring, TypeOK
<1>16. CASE RewriteNext
  <2> DEFINE f == EncryptedFiles[change.next]
  <2>1. change # Idle BY <1>16, HasPhase DEF RewriteNext
  <2>2. change.next \in 1..N /\ f \in File
    BY <1>16, <2>1, UnderWay, ChangeOrder DEF RewriteNext, N
  <2>3. change.plain[f] \in Content \cup {NoContent} /\ change.new \in Key
    BY <2>1, <2>2, UnderWay
  <2>4. file' \in [File -> Disk] BY <1>16, <2>2, <2>3 DEF RewriteNext, TypeOK, Disk
  <2>5. change' \in ChangeState
    BY <1>16, <2>1, <2>2, UnderWay, ChangeOrder DEF RewriteNext, ChangeState, N
  <2>6. QED BY <1>16, <2>4, <2>5 DEF RewriteNext, TypeOK
<1>17. CASE RewriteFails
  <2>1. cut' \subseteq File BY <1>17, UnwrittenFiles DEF RewriteFails, TypeOK
  <2>2. file' \in [File -> Disk] BY <1>17 DEF RewriteFails, TypeOK, Disk
  <2>3. QED BY <1>17, <2>1, <2>2 DEF RewriteFails, TypeOK, ChangeState
<1>18. CASE ChangeDone BY <1>18 DEF ChangeDone, TypeOK, ChangeState
<1>19. CASE WindowReload
  BY <1>19, ConstantsAssumption DEF WindowReload, RendererStarts, AllLoads, TypeOK, LoadState
<1>20. CASE Restart
  <2>1. file' \in [File -> Disk] BY <1>20 DEF Restart, TypeOK, Disk
  <2>2. cut' \subseteq File BY <1>20, UnwrittenFiles DEF Restart, TypeOK
  <2>3. QED
    BY <1>20, <2>1, <2>2, ConstantsAssumption
    DEF Restart, RendererStarts, AllLoads, TypeOK, LoadState, ChangeState
<1>21. CASE UNCHANGED vars BY <1>21 DEF vars, TypeOK
<1>22. QED
  BY <1>1, <1>2, <1>3, <1>4, <1>5, <1>6, <1>7, <1>8, <1>9, <1>10, <1>11, <1>12, <1>13,
     <1>14, <1>15, <1>16, <1>17, <1>18, <1>19, <1>20, <1>21
  DEF Next

\* The initial state is well typed.
LEMMA InitType == Init => TypeOK
<1> SUFFICES ASSUME Init PROVE TypeOK
  OBVIOUS
<1>1. loads \subseteq LoadState BY DEF Init, LoadState, AllLoads
<1>2. keyWork \in 0..MaxKeyWork BY ConstantsAssumption DEF Init
<1>3. file \in [File -> Disk] /\ store \in [File -> Content] BY ConstantsAssumption DEF Init, Disk
<1>4. QED BY <1>1, <1>2, <1>3 DEF Init, TypeOK, ChangeState

\* Every reachable state is well typed: whatever fails, a file is absent, torn
\* or a ciphertext, and a change under way knows both its keys.
THEOREM TypeCorrect == Spec => []TypeOK
  BY InitType, TypeStep, PTL DEF Spec

-------------------------------------------------------------------------------
(* The inductive invariant *)

\* What the properties ask of the files when no change is under way.
AtRest ==
  ~forfeited =>
    \A f \in Migrated \ (met \cup cut) : Sealed(f) => file[f].key = keyring

LEMMA ReadableAtRest ==
  ASSUME change.at # "write" PROVE FilesStayReadable <=> AtRest
  BY DEF FilesStayReadable, AtRest, StillHeld, Unwritten

LEMMA ReadableAtRestNext ==
  ASSUME change'.at # "write" PROVE FilesStayReadable' <=> AtRest'
  BY DEF FilesStayReadable, AtRest, StillHeld, Unwritten

\* A step that leaves the keyring, the files, the change and the history alone
\* keeps the invariant if the saves and the setting it leaves in flight do.
LEMMA FilesUntouched ==
  ASSUME CInv, TypeOK', UNCHANGED <<keyring, file, change, forfeited, cut>>,
         met \subseteq met', KeyWork', SavesMeet', WritesUnderKey'
  PROVE  CInv'
<1>1. Reading' BY DEF CInv, Reading, Held, Sealed
<1>2. Rewriting' BY DEF CInv, Rewriting, Held, Sealed
<1>3. FilesStayReadable' BY DEF CInv, FilesStayReadable, StillHeld, Sealed, Unwritten
<1>4. QED BY <1>1, <1>2, <1>3 DEF CInv

\* With no change under way the invariant says little.
LEMMA NoChangeUnderWay ==
  ASSUME TypeOK', change' = Idle, KeyWork', WritesUnderKey', AtRest'
  PROVE  CInv'
<1>1. change'.at # "write" /\ change'.at # "read" BY DEF Idle
<1>2. FilesStayReadable' BY <1>1, ReadableAtRestNext
<1>3. QED BY <1>1, <1>2 DEF CInv, SavesMeet, Reading, Rewriting

\* While a change is under way the keyring holds a key and nothing sets another,
\* unless the user gives the key up.
LEMMA ChangeHasKey ==
  ASSUME CInv, change # Idle, ~forfeited
  PROVE  keyring # NoKey /\ setting = Unset
  BY DEF CInv, KeyWork

\* A step of the change that leaves the files and the saves alone.
LEMMA ChangeStep ==
  ASSUME CInv, TypeOK', change # Idle, UNCHANGED <<saves, setting, file, forfeited, met>>,
         keyring' \in Key \/ keyring' = keyring
  PROVE  KeyWork' /\ SavesMeet' /\ WritesUnderKey'
<1>1. ~forfeited => keyring' # NoKey /\ setting' = Unset
  BY ChangeHasKey, ConstantsAssumption
<1>2. KeyWork' BY <1>1 DEF KeyWork
<1>3. SavesMeet' BY DEF CInv, SavesMeet
<1>4. WritesUnderKey' BY DEF CInv, SavesMeet, WritesUnderKey
<1>5. QED BY <1>2, <1>3, <1>4

\* A file that lands on the disk leaves every other file of a change as it was.
LEMMA SaveLands ==
  ASSUME CInv, NEW s \in saves, change # Idle, UNCHANGED <<change, met, forfeited, keyring>>,
         \A f \in File : f # s.file => file'[f] = file[f],
         cut \subseteq cut' \cup {s.file}
  PROVE  Reading' /\ Rewriting' /\ FilesStayReadable'
<1>1. s.file \in met BY DEF CInv, SavesMeet
<1>2. \A f \in File \ met : file'[f] = file[f] BY <1>1
<1>3. \A i \in 1..N : EncryptedFiles[i] \notin met =>
        /\ Held(EncryptedFiles[i]) => Held(EncryptedFiles[i])'
        /\ Sealed(EncryptedFiles[i])' => Sealed(EncryptedFiles[i])
        /\ file'[EncryptedFiles[i]] = file[EncryptedFiles[i]]
  BY <1>2, ChangeOrder DEF Held, Sealed
<1>4. Reading' BY <1>3 DEF CInv, Reading
<1>5. Rewriting' BY <1>3 DEF CInv, Rewriting
<1>6. \A f \in Migrated \ (met' \cup cut') : f \notin met \cup cut /\ file'[f] = file[f]
  BY <1>1, <1>2, ChangeOrder
<1>7. FilesStayReadable'
  BY <1>6 DEF CInv, FilesStayReadable, StillHeld, Sealed, Unwritten
<1>8. QED BY <1>4, <1>5, <1>7

\* What a change is cut off from is either under the key of the keyring or noted
\* as cut.
LEMMA CutOff ==
  ASSUME CInv, cut' = cut \cup Unwritten, UNCHANGED <<keyring, forfeited, met>>,
         \A f \in File : file'[f] = file[f] \/ file'[f] \in {Absent, Torn}
  PROVE  AtRest'
<1> SUFFICES ASSUME ~forfeited, NEW f \in Migrated \ (met \cup cut \cup Unwritten),
                    file'[f] \notin {Absent, Torn}
             PROVE  file'[f].key = keyring
  BY DEF AtRest, Sealed
<1>1. file'[f] = file[f] BY ChangeOrder
<1>2. QED BY <1>1 DEF CInv, FilesStayReadable, StillHeld, Sealed

\* Every step keeps the invariant.
LEMMA InvStep == CInv /\ [Next]_vars => CInv'
<1> SUFFICES ASSUME CInv, [Next]_vars PROVE CInv'
  OBVIOUS
<1>0. TypeOK /\ TypeOK' BY TypeStep DEF CInv
<1> USE DEF diskVars, rendererVars, flightVars, history
<1>1. ASSUME NEW f \in File, NEW c \in Content, Persist(f, c) PROVE CInv'
  <2>1. KeyWork' BY <1>1 DEF Persist, CInv, KeyWork, Sealed
  <2>2. SavesMeet' BY <1>1 DEF Persist, CInv, SavesMeet
  <2>3. WritesUnderKey' BY <1>1 DEF Persist, WritesUnderKey, CInv
  <2>4. met \subseteq met' BY <1>1 DEF Persist
  <2>5. QED BY <1>0, <1>1, <2>1, <2>2, <2>3, <2>4, FilesUntouched DEF Persist
<1>2. ASSUME NEW s \in saves, Encrypt(s) PROVE CInv'
  <2>1. KeyWork' BY <1>2 DEF Encrypt, CInv, KeyWork, Sealed
  <2>2. SavesMeet' BY <1>2 DEF Encrypt, CInv, SavesMeet
  <2>3. WritesUnderKey' BY <1>2 DEF Encrypt, WritesUnderKey, CInv
  <2>4. QED BY <1>0, <1>2, <2>1, <2>2, <2>3, FilesUntouched DEF Encrypt
<1>3. ASSUME NEW s \in saves, Write(s) PROVE CInv'
  <2>0. s.file \in File /\ s.at = "write" BY <1>0, <1>3 DEF Write, TypeOK, SaveState
  <2>1. saves' \subseteq saves /\ UNCHANGED <<keyring, setting, change, forfeited>>
    BY <1>3 DEF Write
  <2>2. /\ file' = [file EXCEPT ![s.file] = [key |-> s.key, content |-> s.content]]
        /\ cut' = cut \ {s.file}
        /\ met' = IF change = Idle /\ s.key = keyring /\ \A x \in saves' : x.file # s.file
                  THEN met \ {s.file} ELSE met
    BY <1>3 DEF Write
  <2>3. KeyWork'
    <3>1. ~forfeited => keyring # NoKey BY <2>0 DEF CInv, KeyWork
    <3>2. QED BY <2>1, <3>1 DEF CInv, KeyWork
  <2>4. SavesMeet' BY <2>1, <2>2 DEF CInv, SavesMeet
  <2>5. WritesUnderKey'
    <3>1. ASSUME NEW x \in saves', x.file \notin met' PROVE x.file \notin met
      BY <2>2, <3>1
    <3>2. QED BY <2>1, <3>1 DEF CInv, WritesUnderKey
  <2>6. CASE change # Idle
    <3>1. Reading' /\ Rewriting' /\ FilesStayReadable'
      BY <1>0, <2>0, <2>1, <2>2, <2>6, SaveLands DEF TypeOK
    <3>2. QED BY <1>0, <2>3, <2>4, <2>5, <3>1 DEF CInv
  <2>7. CASE change = Idle
    <3>1. AtRest
      <4>1. change.at # "write" BY <2>7 DEF Idle
      <4>2. QED BY <4>1, ReadableAtRest DEF CInv
    <3>2. SUFFICES ASSUME ~forfeited, NEW f \in Migrated \ (met' \cup cut'),
                          file'[f] \notin {Absent, Torn}
                   PROVE  file'[f].key = keyring
      <4>1. SUFFICES AtRest' BY <1>0, <2>1, <2>3, <2>5, <2>7, NoChangeUnderWay
      <4>2. QED BY <2>1, <3>2 DEF AtRest, Sealed
    <3>3. f \in File BY ChangeOrder
    <3>4. CASE f = s.file
      <4>1. s.key = keyring BY <2>0, <2>2, <3>2, <3>4 DEF CInv, WritesUnderKey
      <4>2. QED BY <1>0, <2>2, <3>3, <3>4, <4>1 DEF TypeOK
    <3>5. CASE f # s.file
      <4>1. file'[f] = file[f] /\ f \notin met \cup cut
        BY <1>0, <2>2, <3>2, <3>3, <3>5 DEF TypeOK
      <4>2. QED BY <3>1, <3>2, <4>1 DEF AtRest, Sealed
    <3>6. QED BY <3>4, <3>5
  <2>8. QED BY <2>6, <2>7
<1>4. ASSUME NEW s \in saves, WriteFails(s) PROVE CInv'
  <2>1. /\ saves' \subseteq saves
        /\ UNCHANGED <<keyring, setting, change, forfeited, met, cut>>
        /\ \A f \in File : file'[f] = file[f] \/ file'[f] = Torn
        /\ \A f \in File : f # s.file => file'[f] = file[f]
    BY <1>0, <1>4 DEF WriteFails, TypeOK
  <2>2. KeyWork' BY <2>1 DEF CInv, KeyWork, Sealed
  <2>3. SavesMeet' /\ WritesUnderKey' BY <2>1 DEF CInv, SavesMeet, WritesUnderKey
  <2>4. CASE change # Idle
    <3>1. Reading' /\ Rewriting' /\ FilesStayReadable' BY <2>1, <2>4, SaveLands
    <3>2. QED BY <1>0, <2>2, <2>3, <3>1 DEF CInv
  <2>5. CASE change = Idle
    <3>1. AtRest
      <4>1. change.at # "write" BY <2>5 DEF Idle
      <4>2. QED BY <4>1, ReadableAtRest DEF CInv
    <3>2. AtRest' BY <2>1, <3>1, ChangeOrder DEF AtRest, Sealed
    <3>3. QED BY <1>0, <2>1, <2>2, <2>3, <2>5, <3>2, NoChangeUnderWay
  <2>6. QED BY <2>4, <2>5
<1>5. ASSUME UNCHANGED <<diskVars, saves, change, history>> PROVE CInv'
  <2>1. KeyWork' /\ SavesMeet' /\ WritesUnderKey'
    BY <1>5 DEF CInv, KeyWork, SavesMeet, WritesUnderKey, Sealed
  <2>2. QED BY <1>0, <1>5, <2>1, FilesUntouched
<1>6. ASSUME NEW f \in File, Reload(f) PROVE CInv'
  BY <1>5, <1>6 DEF Reload
<1>7. ASSUME NEW l \in loads, Read(l) \/ ReadFails(l) \/ Apply(l) PROVE CInv'
  BY <1>5, <1>7 DEF Read, ReadFails, Apply
<1>8. ASSUME NEW k \in Key, SetFirstKey(k) PROVE CInv'
  <2>1. KeyWork' /\ SavesMeet' /\ WritesUnderKey'
    BY <1>8 DEF SetFirstKey, CInv, KeyWork, SavesMeet, WritesUnderKey, Sealed
  <2>2. QED BY <1>0, <1>8, <2>1, FilesUntouched DEF SetFirstKey
<1>9. ASSUME forfeited', UNCHANGED <<keyring, file, change>>, met \subseteq met', SavesMeet'
      PROVE  CInv'
  <2>1. KeyWork' /\ WritesUnderKey' /\ FilesStayReadable'
    BY <1>9 DEF KeyWork, WritesUnderKey, FilesStayReadable
  <2>2. Reading' BY <1>9 DEF CInv, Reading, Held, Sealed
  <2>3. Rewriting' BY <1>9 DEF CInv, Rewriting, Held, Sealed
  <2>4. QED BY <1>0, <1>9, <2>1, <2>2, <2>3 DEF CInv
<1>10. CASE DeleteKey
  <2>1. SavesMeet' BY <1>10 DEF DeleteKey, CInv, SavesMeet
  <2>2. QED BY <1>9, <1>10, <2>1 DEF DeleteKey
<1>11. ASSUME NEW k \in Key, ForceContinue(k) PROVE CInv'
  <2>1. SavesMeet'
    <3>1. SUFFICES ASSUME change # Idle, NEW s \in saves' PROVE s.file \in met'
      BY <1>11 DEF ForceContinue, SavesMeet
    <3>2. met' = File BY <1>11, <3>1 DEF ForceContinue
    <3>3. s.file \in File BY <1>0 DEF TypeOK, SaveState
    <3>4. QED BY <3>2, <3>3
  <2>2. met \subseteq met' BY <1>0, <1>11 DEF ForceContinue, TypeOK
  <2>3. QED BY <1>9, <1>11, <2>1, <2>2 DEF ForceContinue
<1>12. CASE KeyringUpdated
  <2>1. UNCHANGED <<file, saves, change, history>> /\ setting # Unset /\ setting' = Unset
    BY <1>12 DEF KeyringUpdated
  <2>2. CASE forfeited
    <3>1. KeyWork' /\ WritesUnderKey' /\ FilesStayReadable'
      BY <2>1, <2>2 DEF KeyWork, WritesUnderKey, FilesStayReadable
    <3>2. SavesMeet' BY <2>1 DEF CInv, SavesMeet
    <3>3. Reading' BY <2>1, <2>2 DEF CInv, Reading, Held, Sealed
    <3>4. Rewriting' BY <2>1, <2>2 DEF CInv, Rewriting, Held, Sealed
    <3>5. QED BY <1>0, <3>1, <3>2, <3>3, <3>4 DEF CInv
  <2>3. CASE ~forfeited
    <3>1. /\ change = Idle
          /\ \A s \in saves : s.at # "write"
          /\ \A f \in File : ~Sealed(f)
      BY <2>1, <2>3 DEF CInv, KeyWork
    <3>2. KeyWork' BY <2>1, <3>1 DEF KeyWork, Sealed
    <3>3. WritesUnderKey' BY <2>1, <3>1 DEF WritesUnderKey
    <3>4. AtRest' BY <2>1, <3>1, ChangeOrder DEF AtRest, Sealed
    <3>5. QED BY <1>0, <2>1, <3>1, <3>2, <3>3, <3>4, NoChangeUnderWay
  <2>4. QED BY <2>2, <2>3
<1>13. ASSUME NEW k \in Key, ChangeKey(k) PROVE CInv'
  <2>1. /\ change = Idle /\ keyring # NoKey
        /\ change'.at = "read" /\ change'.old = keyring /\ change'.next = 1
        /\ change'.plain = [f \in File |-> NoContent]
        /\ met' = met \cup {s.file : s \in saves}
        /\ UNCHANGED <<diskVars, flightVars, forfeited, cut>>
    BY <1>13 DEF ChangeKey
  <2>2. KeyWork' /\ SavesMeet' /\ WritesUnderKey'
    BY <2>1 DEF CInv, KeyWork, SavesMeet, WritesUnderKey
  <2>3. Reading' BY <2>1, ChangeOrder DEF Reading
  <2>4. Rewriting' BY <2>1 DEF Rewriting
  <2>5. FilesStayReadable'
    <3>1. change.at # "write" /\ change'.at # "write" BY <2>1 DEF Idle
    <3>2. AtRest BY <3>1, ReadableAtRest DEF CInv
    <3>3. AtRest' BY <2>1, <3>2 DEF AtRest, Sealed
    <3>4. QED BY <3>1, <3>3, ReadableAtRestNext
  <2>6. QED BY <1>0, <2>2, <2>3, <2>4, <2>5 DEF CInv
<1>14. CASE DecryptNext
  <2> DEFINE f == EncryptedFiles[change.next]
             R == [at : {"read", "write"}, old : Key, new : Key,
                   next : 1..N + 1, plain : [File -> Content \cup {NoContent}]]
  <2>1. /\ change # Idle /\ change.at = "read"
        /\ UNCHANGED <<diskVars, rendererVars, flightVars, history>>
    BY <1>14, HasPhase DEF DecryptNext
  <2>2. KeyWork' /\ SavesMeet' /\ WritesUnderKey' BY <1>0, <2>1, ChangeStep
  <2>3. change \in R /\ change.next \in 1..N /\ f \in File
    BY <1>0, <1>14, <2>1, UnderWay, ChangeOrder DEF DecryptNext, N
  <2>4. AtRest
    <3>1. change.at # "write" BY <2>1
    <3>2. QED BY <3>1, ReadableAtRest DEF CInv
  <2>5. AtRest' BY <2>1, <2>4 DEF AtRest, Sealed
  <2>6. CASE change' = Idle BY <1>0, <2>2, <2>5, <2>6, NoChangeUnderWay
  <2>7. ASSUME NEW p \in [File -> Content \cup {NoContent}],
               change' = [change EXCEPT !.next = @ + 1, !.plain = p],
               IF Sealed(f) THEN file[f].key = change.old /\ p[f] = file[f].content
                            ELSE p[f] = NoContent,
               \A g \in File : g # f => p[g] = change.plain[g]
        PROVE  CInv'
    <3>1. /\ change'.at = "read" /\ change'.old = change.old
          /\ change'.next = change.next + 1 /\ change'.plain = p
      BY <2>1, <2>3, <2>7
    <3>2. ASSUME NEW i \in 1..N, i < change.next + 1, EncryptedFiles[i] \notin met
          PROVE  Held(EncryptedFiles[i])'
      <4>1. CASE i = change.next
        BY <2>1, <2>7, <3>1, <4>1 DEF Held, Sealed
      <4>2. CASE i < change.next
        <5>1. EncryptedFiles[i] \in File /\ EncryptedFiles[i] # f
          BY <2>3, <4>2, ChangeOrder
        <5>2. Held(EncryptedFiles[i]) BY <2>1, <3>2, <4>2 DEF CInv, Reading
        <5>3. QED BY <2>1, <2>7, <3>1, <5>1, <5>2 DEF Held, Sealed
      <4>3. QED BY <2>3, <3>2, <4>1, <4>2, ChangeOrder
    <3>3. ASSUME NEW i \in 1..N, i >= change.next + 1
          PROVE  p[EncryptedFiles[i]] = NoContent
      <4>1. EncryptedFiles[i] \in File /\ EncryptedFiles[i] # f
        BY <2>3, <3>3, ChangeOrder
      <4>2. i >= change.next BY <2>3, <3>3, ChangeOrder
      <4>3. change.plain[EncryptedFiles[i]] = NoContent
        BY <2>1, <4>2 DEF CInv, Reading
      <4>4. QED BY <2>7, <4>1, <4>3
    <3>4. ~forfeited => change.old = keyring BY <2>1 DEF CInv, Reading
    <3>5. Reading' BY <2>1, <3>1, <3>2, <3>3, <3>4 DEF Reading
    <3>6. Rewriting' BY <3>1 DEF Rewriting
    <3>7. FilesStayReadable'
      <4>1. change'.at # "write" BY <3>1
      <4>2. QED BY <2>5, <4>1, ReadableAtRestNext
    <3>8. QED BY <1>0, <2>2, <3>5, <3>6, <3>7 DEF CInv
  <2>8. CASE file[f] = Absent /\ change' = [change EXCEPT !.next = @ + 1]
    <3>1. change' = [change EXCEPT !.next = @ + 1, !.plain = change.plain] BY <2>3, <2>8
    <3>2. change.plain[f] = NoContent BY <2>1, <2>3, ChangeOrder DEF CInv, Reading
    <3>3. QED BY <2>3, <2>7, <2>8, <3>1, <3>2 DEF Sealed
  <2>9. CASE /\ Opens(change.old, file[f])
             /\ change' = [change EXCEPT !.next = @ + 1, !.plain[f] = file[f].content]
    <3> DEFINE p == [change.plain EXCEPT ![f] = file[f].content]
    <3>1. Sealed(f) /\ file[f].key = change.old BY <2>9 DEF Opens, Sealed
    <3>2. file[f].content \in Content BY <1>0, <2>3, <3>1, SealedType
    <3>3. /\ p \in [File -> Content \cup {NoContent}] /\ p[f] = file[f].content
          /\ \A g \in File : g # f => p[g] = change.plain[g]
      BY <2>3, <3>2
    <3>4. change' = [change EXCEPT !.next = @ + 1, !.plain = p] BY <2>3, <2>9
    <3> HIDE DEF p
    <3>5. QED BY <2>7, <3>1, <3>3, <3>4
  <2>10. QED BY <1>14, <2>6, <2>8, <2>9 DEF DecryptNext
<1>15. CASE SwitchKeyring
  <2>1. /\ change # Idle /\ change.at = "read"
        /\ UNCHANGED <<setting, file, rendererVars, flightVars, history>>
    BY <1>15, HasPhase DEF SwitchKeyring
  <2>2. AtRest
    <3>1. change.at # "write" BY <2>1
    <3>2. QED BY <3>1, ReadableAtRest DEF CInv
  <2>3. CASE change' = Idle /\ UNCHANGED keyring
    <3>1. KeyWork' /\ WritesUnderKey' BY <1>0, <2>1, <2>3, ChangeStep
    <3>2. AtRest' BY <2>1, <2>2, <2>3 DEF AtRest, Sealed
    <3>3. QED BY <1>0, <2>3, <3>1, <3>2, NoChangeUnderWay
  <2>4. CASE /\ keyring' = change.new
             /\ change' = [change EXCEPT !.at = "write", !.next = 1]
    <3>1. /\ change'.at = "write" /\ change'.next = 1 /\ change'.new = change.new
          /\ change'.old = change.old /\ change'.plain = change.plain
          /\ keyring' = change.new /\ change.new \in Key
          /\ change.next \in 1..N + 1 /\ change.next > N
      BY <1>0, <1>15, <2>1, <2>4, UnderWay DEF SwitchKeyring, N
    <3>2. KeyWork' /\ SavesMeet' /\ WritesUnderKey' BY <1>0, <2>1, <3>1, ChangeStep
    <3>3. ASSUME NEW i \in 1..N, EncryptedFiles[i] \notin met PROVE Held(EncryptedFiles[i])'
      <4>1. Held(EncryptedFiles[i]) BY <2>1, <3>1, <3>3, ChangeOrder DEF CInv, Reading
      <4>2. QED BY <2>1, <3>1, <4>1 DEF Held, Sealed
    <3>4. Reading' BY <3>1 DEF Reading
    <3>5. Rewriting' BY <2>1, <3>1, <3>3, ChangeOrder DEF Rewriting
    <3>6. FilesStayReadable'
      <4>1. SUFFICES ASSUME NEW g \in Migrated \ (met \cup cut), Sealed(g)'
                     PROVE  StillHeld(g)'
        BY <2>1, <3>1 DEF FilesStayReadable
      <4>2. PICK i \in 1..N : g = EncryptedFiles[i] BY DEF Migrated, N
      <4>3. Held(g)' BY <3>3, <4>1, <4>2
      <4>4. change'.plain[g] # NoContent
        <5>1. Sealed(g) /\ g \in File BY <2>1, <4>1, ChangeOrder DEF Sealed
        <5>2. file[g].content \in Content BY <1>0, <5>1, SealedType
        <5>3. QED BY <2>1, <4>1, <4>3, <5>2, ConstantsAssumption DEF Held
      <4>5. g \in Unwritten' BY <3>1, <4>2, <4>4 DEF Unwritten, N
      <4>6. QED BY <4>1, <4>3, <4>5 DEF StillHeld, Held
    <3>7. QED BY <1>0, <3>2, <3>4, <3>5, <3>6 DEF CInv
  <2>5. QED BY <1>15, <2>3, <2>4 DEF SwitchKeyring
<1>16. CASE RewriteNext
  <2> DEFINE f == EncryptedFiles[change.next]
  <2>1. change # Idle /\ change.at = "write" BY <1>16, HasPhase DEF RewriteNext
  <2>2. change.next \in 1..N /\ f \in File
    BY <1>0, <1>16, <2>1, UnderWay, ChangeOrder DEF RewriteNext, N
  <2>3. /\ change'.at = "write" /\ change'.next = change.next + 1
        /\ change'.new = change.new /\ change'.old = change.old
        /\ change'.plain = change.plain /\ change' # Idle
        /\ UNCHANGED <<keyring, setting, rendererVars, flightVars, history>>
    BY <1>0, <1>16, <2>1, UnderWay DEF RewriteNext, Idle
  <2>4. ~forfeited => change.new = keyring /\ keyring # NoKey /\ setting = Unset
    BY <2>1, ChangeHasKey DEF CInv, Rewriting
  <2>5. KeyWork' /\ SavesMeet' /\ WritesUnderKey'
    <3>1. KeyWork' BY <2>3, <2>4 DEF KeyWork
    <3>2. SavesMeet' BY <2>1, <2>3 DEF CInv, SavesMeet
    <3>3. WritesUnderKey' BY <2>3 DEF CInv, WritesUnderKey
    <3>4. QED BY <3>1, <3>2, <3>3
  <2>6. \A g \in File : g # f => file'[g] = file[g] BY <1>16 DEF RewriteNext
  <2>7. f \notin met /\ file'[f] \notin {Absent, Torn} => file'[f].key = change.new
    <3>1. SUFFICES ASSUME f \notin met, file'[f] \notin {Absent, Torn}
                   PROVE  file'[f].key = change.new
      OBVIOUS
    <3>2. Held(f) BY <2>1, <2>2, <3>1, ChangeOrder DEF CInv, Rewriting
    <3>3. CASE change.plain[f] = NoContent
      <4>1. ~Sealed(f)
        BY <1>0, <2>2, <3>2, <3>3, SealedType, ConstantsAssumption DEF Held
      <4>2. QED BY <1>16, <3>1, <3>3, <4>1 DEF RewriteNext, Sealed
    <3>4. CASE change.plain[f] # NoContent
      BY <1>0, <1>16, <2>2, <3>4 DEF RewriteNext, TypeOK
    <3>5. QED BY <3>3, <3>4
  <2>8. ASSUME NEW i \in 1..N, i < change.next + 1, EncryptedFiles[i] \notin met,
               file'[EncryptedFiles[i]] \notin {Absent, Torn}
        PROVE  file'[EncryptedFiles[i]].key = change.new
    <3>1. CASE i = change.next BY <2>7, <2>8, <3>1
    <3>2. CASE i < change.next
      <4>1. EncryptedFiles[i] \in File /\ EncryptedFiles[i] # f
        BY <2>2, <3>2, ChangeOrder
      <4>2. QED BY <2>1, <2>6, <2>8, <3>2, <4>1 DEF CInv, Rewriting, Sealed
    <3>3. QED BY <2>2, <2>8, <3>1, <3>2, ChangeOrder
  <2>9. ASSUME NEW i \in 1..N, i >= change.next + 1, EncryptedFiles[i] \notin met
        PROVE  Held(EncryptedFiles[i])'
    <3>1. EncryptedFiles[i] \in File /\ EncryptedFiles[i] # f /\ i >= change.next
      BY <2>2, <2>9, ChangeOrder
    <3>2. Held(EncryptedFiles[i]) BY <2>1, <2>9, <3>1 DEF CInv, Rewriting
    <3>3. QED BY <2>3, <2>6, <3>1, <3>2 DEF Held, Sealed
  <2>10. Reading' BY <2>3 DEF Reading
  <2>11. Rewriting' BY <2>3, <2>4, <2>8, <2>9 DEF Rewriting, Sealed
  <2>12. FilesStayReadable'
    <3>1. SUFFICES ASSUME ~forfeited, NEW g \in Migrated \ (met \cup cut), Sealed(g)'
                   PROVE  file'[g].key = keyring' \/ StillHeld(g)'
      BY <2>3 DEF FilesStayReadable
    <3>2. PICK i \in 1..N : g = EncryptedFiles[i] BY DEF Migrated, N
    <3>3. CASE i < change.next + 1
      BY <2>3, <2>4, <2>8, <3>1, <3>2, <3>3 DEF Sealed
    <3>4. CASE i >= change.next + 1
      <4>1. Held(g)' BY <2>9, <3>1, <3>2, <3>4
      <4>2. file'[g].content \in Content /\ g \in File
        BY <1>0, <3>1, ChangeOrder DEF TypeOK, Disk, Sealed
      <4>3. change'.plain[g] # NoContent
        BY <3>1, <4>1, <4>2, ConstantsAssumption DEF Held
      <4>4. g \in Unwritten'
        BY <2>2, <2>3, <3>2, <3>4, <4>3, ChangeOrder DEF Unwritten, N
      <4>5. QED BY <3>1, <4>1, <4>4 DEF StillHeld, Held
    <3>5. QED BY <2>2, <3>3, <3>4, ChangeOrder
  <2>13. QED BY <1>0, <2>5, <2>10, <2>11, <2>12 DEF CInv
<1>17. CASE RewriteFails
  <2>1. /\ change # Idle /\ change' = Idle /\ cut' = cut \cup Unwritten
        /\ UNCHANGED <<keyring, setting, saves, forfeited, met>>
        /\ \A f \in File : file'[f] = file[f] \/ file'[f] = Torn
    BY <1>0, <1>17, HasPhase DEF RewriteFails, TypeOK
  <2>2. KeyWork'
    <3>1. ~forfeited => keyring # NoKey /\ setting = Unset BY <2>1, ChangeHasKey
    <3>2. QED BY <2>1, <3>1 DEF KeyWork
  <2>3. WritesUnderKey' BY <2>1 DEF CInv, WritesUnderKey
  <2>4. AtRest' BY <2>1, CutOff
  <2>5. QED BY <1>0, <2>1, <2>2, <2>3, <2>4, NoChangeUnderWay
<1>18. CASE ChangeDone
  <2>1. /\ change # Idle /\ change.at = "write" /\ change' = Idle
        /\ UNCHANGED <<diskVars, saves, history>>
    BY <1>18, HasPhase DEF ChangeDone
  <2>2. KeyWork' /\ WritesUnderKey' BY <1>0, <2>1, ChangeStep
  <2>3. Unwritten = {}
    <3>1. change.next \in 1..N + 1 /\ change.next > N
      BY <1>0, <1>18, <2>1, UnderWay DEF ChangeDone, N
    <3>2. change.next..N = {} BY <3>1, ChangeOrder
    <3>3. QED BY <3>2 DEF Unwritten, N
  <2>4. AtRest' BY <2>1, <2>3, CutOff
  <2>5. QED BY <1>0, <2>1, <2>2, <2>4, NoChangeUnderWay
<1>19. CASE WindowReload
  <2>1. /\ saves' \subseteq saves /\ \A s \in saves' : s.at = "write"
        /\ UNCHANGED <<diskVars, change, history>>
    BY <1>19 DEF WindowReload
  <2>2. KeyWork' /\ SavesMeet' /\ WritesUnderKey'
    BY <2>1 DEF CInv, KeyWork, SavesMeet, WritesUnderKey, Sealed
  <2>3. QED BY <1>0, <2>1, <2>2, FilesUntouched
<1>20. CASE Restart
  <2>1. /\ change' = Idle /\ saves' = {} /\ setting' = Unset
        /\ UNCHANGED <<keyring, forfeited, met>> /\ cut' = cut \cup Unwritten
        /\ \A f \in File : file'[f] = file[f] \/ file'[f] = Torn
    BY <1>20 DEF Restart
  <2>2. KeyWork' BY <2>1 DEF CInv, KeyWork, Sealed
  <2>3. WritesUnderKey' BY <2>1 DEF WritesUnderKey
  <2>4. AtRest' BY <2>1, CutOff
  <2>5. QED BY <1>0, <2>1, <2>2, <2>3, <2>4, NoChangeUnderWay
<1>21. CASE UNCHANGED vars BY <1>5, <1>21 DEF vars
<1>22. QED
  BY <1>1, <1>2, <1>3, <1>4, <1>6, <1>7, <1>8, <1>10, <1>11, <1>12, <1>13, <1>14,
     <1>15, <1>16, <1>17, <1>18, <1>19, <1>20, <1>21
  DEF Next

\* What the change of the key has noted of a file matches the disk, unless a
\* save of that file met it; and what is on its way to the disk is under the key
\* of the keyring, with the same exception.
THEOREM StoresInvariant == Spec => []CInv
<1>1. Init => CInv
  <2> SUFFICES ASSUME Init PROVE CInv
    OBVIOUS
  <2>1. TypeOK BY InitType
  <2>2. KeyWork /\ SavesMeet /\ WritesUnderKey
    BY DEF Init, KeyWork, SavesMeet, WritesUnderKey, Sealed
  <2>3. Reading /\ Rewriting BY DEF Init, Idle, Reading, Rewriting
  <2>4. FilesStayReadable BY ChangeOrder DEF Init, FilesStayReadable, Sealed
  <2>5. QED BY <2>1, <2>2, <2>3, <2>4 DEF CInv
<1>2. QED BY <1>1, InvStep, PTL DEF Spec

\* For any stores and keys: unless the user gives the key up, the keyring opens
\* every file a change looks after, or the change under way holds its content and
\* old key; the files excepted are those a save of which met a change, and those
\* a change was cut off from, each until it is saved again.
THEOREM FilesReadable == Spec => []FilesStayReadable
<1>1. CInv => FilesStayReadable BY DEF CInv
<1>2. QED BY <1>1, StoresInvariant, PTL

\* The content of a file changes only by a save of that content, or by a change
\* that rewrites a file whose save it met.
THEOREM ContentKept == Spec => ContentComesFromSaves
<1> DEFINE Kept ==
      \A f \in File :
        Sealed(f) /\ Sealed(f)' /\ file'[f].content # file[f].content =>
          \/ \E s \in saves : s.at = "write" /\ s.file = f /\ s.content = file'[f].content
          \/ f \in Unwritten \cap met
<1>1. CInv /\ [Next]_vars => [Kept]_vars
  <2> SUFFICES ASSUME CInv, Next PROVE Kept
    BY DEF vars, Sealed
  <2> USE DEF diskVars, rendererVars, flightVars, history
  <2>1. ASSUME NEW f \in File, Sealed(f), Sealed(f)', file'[f].content # file[f].content
        PROVE  \/ \E s \in saves : s.at = "write" /\ s.file = f /\ s.content = file'[f].content
               \/ f \in Unwritten \cap met
    <3>1. file'[f] # file[f] BY <2>1
    <3>2. ASSUME NEW s \in saves, Write(s)
          PROVE  s.at = "write" /\ s.file = f /\ s.content = file'[f].content
      BY <2>1, <3>1, <3>2 DEF Write, CInv, TypeOK
    <3>3. ASSUME NEW s \in saves, WriteFails(s) PROVE FALSE
      BY <2>1, <3>1, <3>3 DEF WriteFails, CInv, TypeOK, Sealed
    <3>4. CASE RewriteNext
      <4> DEFINE g == EncryptedFiles[change.next]
      <4>1. change # Idle /\ change.at = "write" BY <3>4, HasPhase DEF RewriteNext
      <4>2. change.next \in 1..N
        BY <3>4, <4>1, UnderWay, ChangeOrder DEF RewriteNext, N, CInv
      <4>3. f = g /\ file'[f].content = change.plain[f] /\ change.plain[f] # NoContent
        BY <3>1, <3>4 DEF RewriteNext, CInv, TypeOK
      <4>4. g \notin met => Held(g) BY <4>1, <4>2, ChangeOrder DEF CInv, Rewriting
      <4>5. f \in met BY <2>1, <4>3, <4>4 DEF Held
      <4>6. f \in Unwritten BY <4>1, <4>2, <4>3, ChangeOrder DEF Unwritten, N
      <4>7. QED BY <4>5, <4>6
    <3>5. CASE RewriteFails
      BY <2>1, <3>1, <3>5 DEF RewriteFails, CInv, TypeOK, Sealed
    <3>6. CASE Restart BY <2>1, <3>1, <3>6 DEF Restart, Sealed
    <3>7. CASE UNCHANGED file BY <3>1, <3>7
    <3>8. QED
      BY <3>2, <3>3, <3>4, <3>5, <3>6, <3>7
      DEF Next, Persist, Encrypt, Reload, Read, ReadFails, Apply, SetFirstKey, ForceContinue,
          ChangeKey, DeleteKey, KeyringUpdated, DecryptNext, SwitchKeyring, ChangeDone,
          WindowReload
  <2>2. QED BY <2>1
<1>2. QED BY <1>1, StoresInvariant, PTL DEF Spec, ContentComesFromSaves

===============================================================================
