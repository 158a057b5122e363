------------------------------ MODULE Backends_proofs ------------------------------
(*****************************************************************************)
(* The inductive invariants of the parts of Backends, one lemma for each of  *)
(* their actions, and the properties that follow.  In a proof the variables  *)
(* of the part have the names they have in its module.                       *)
(*****************************************************************************)
EXTENDS Backends, SequenceTheorems, FiniteSetTheorems, NaturalsInduction, WellFoundedInduction,
        TLAPS

-----------------------------------------------------------------------------
\* Cloud sync: nobody edits while an operation is under way.

LEMMA CloudEditStep ==
  ASSUME C!IInv, NEW i \in SyncItem, C!Edit(i)
  PROVE  C!IInv'
<1> USE CloudAssumption DEF C!storeVars, C!diskVars, C!Working, C!Of
<1>1. C!TypeOK'
  BY DEF C!Edit, C!IInv, C!TypeOK, C!Data, C!Save, C!Reload, C!Content, C!Nothing, C!Operations
<1>2. C!Undisturbed'
  BY DEF C!Edit, C!IInv, C!TypeOK, C!Data, C!Save, C!Reload, C!Content, C!Nothing, C!Operations, C!Undisturbed, C!BackedUpFirst
<1>3. C!BackedUpFirst'
  BY DEF C!Edit, C!IInv, C!TypeOK, C!Data, C!Save, C!Reload, C!Content, C!Nothing, C!Operations, C!Undisturbed, C!BackedUpFirst, C!ReplacedIsKept
<1>4. C!LastReloadCounts'
  BY DEF C!Edit, C!IInv, C!TypeOK, C!Data, C!Save, C!Reload, C!Content, C!Nothing, C!Operations, C!Undisturbed, C!LastReloadCounts, C!ReloadedShowDownload,
     C!ShowsDownload, C!BackedUpFirst
<1>5. C!ReloadedShowDownload'
  BY DEF C!Edit, C!IInv, C!TypeOK, C!Data, C!Save, C!Reload, C!Content, C!Nothing, C!Operations, C!Undisturbed, C!LastReloadCounts, C!ReloadedShowDownload,
     C!ShowsDownload, C!BackedUpFirst
<1> QED
  BY <1>1, <1>2, <1>3, <1>4, <1>5 DEF C!IInv

LEMMA CloudSaveWrittenStep ==
  ASSUME C!IInv, NEW s \in v3, C!SaveWritten(s)
  PROVE  C!IInv'
<1> DEFINE loads == v2
           file == v4
           op == v8
           pulled == v12
           newest == v13
           raced == v15
<1> USE CloudAssumption DEF C!storeVars, C!diskVars, C!Working, C!Of
<1>1. C!TypeOK'
  <2>1. s.item \in SyncItem /\ s.content \in C!Content /\ s.from \in 0..SyncMaxClicks
    BY DEF C!IInv, C!TypeOK, C!Data, C!Save, C!Reload, C!Content
  <2>2. file' \in [SyncItem -> C!Data] /\ newest' \in [SyncItem -> Nat]
    BY <2>1 DEF C!SaveWritten, C!ReloadOf, C!IInv, C!TypeOK, C!Data
  <2>3. loads' \subseteq C!Reload
    <3> SUFFICES ASSUME NEW l \in loads' PROVE l \in C!Reload
      OBVIOUS
    <3>1. CASE l \in loads
      BY <3>1 DEF C!IInv, C!TypeOK
    <3>2. CASE l \notin loads
      <4>1. PICK j \in {s.item} : l = [item |-> j, id |-> newest[j] + 1, read |-> FALSE,
                                       content |-> 0, from |-> 0]
        BY <3>2 DEF C!SaveWritten, C!ReloadOf
      <4>2. newest[j] \in Nat /\ 0 \in C!Content /\ 0 \in 0..SyncMaxClicks
        BY <2>1, <4>1 DEF C!IInv, C!TypeOK, C!Content
      <4> QED
        BY <2>1, <4>1, <4>2 DEF C!Reload
    <3> QED
      BY <3>1, <3>2
  <2>4. op' \in C!Operations
    BY <2>1 DEF C!SaveWritten, C!IInv, C!TypeOK, C!Operations
  <2> QED
    BY <2>2, <2>3, <2>4 DEF C!SaveWritten, C!IInv, C!TypeOK
<1>2. C!Undisturbed'
  BY DEF C!SaveWritten, C!ReloadOf, C!IInv, C!TypeOK, C!Data, C!Save, C!Reload, C!Content, C!Nothing, C!Operations, C!Undisturbed, C!BackedUpFirst
<1>3. C!BackedUpFirst'
  BY DEF C!SaveWritten, C!ReloadOf, C!IInv, C!TypeOK, C!Data, C!Save, C!Reload, C!Content, C!Nothing, C!Operations, C!Undisturbed, C!BackedUpFirst, C!ReplacedIsKept
<1>4. C!LastReloadCounts'
  <2>1. s.item \in SyncItem /\ s.content # 0 /\ newest \in [SyncItem -> Nat]
    BY DEF C!IInv, C!TypeOK, C!Data, C!Save, C!Reload, C!Content
  <2>2. \A j \in SyncItem : file'[j].content = 0 => file'[j].from = 0
    BY <2>1 DEF C!SaveWritten, C!IInv, C!TypeOK, C!LastReloadCounts
  <2>3. \A j \in SyncItem : newest[j] <= newest'[j]
    BY <2>1 DEF C!SaveWritten, C!ReloadOf
  <2>4. ASSUME NEW l \in loads'
        PROVE  /\ l.content = 0 => l.from = 0
               /\ l.id <= newest'[l.item]
               /\ l.read => l \in loads
    <3>1. CASE l \in loads
      <4>1. l.item \in SyncItem /\ l.id \in Nat /\ newest' \in [SyncItem -> Nat]
        BY <1>1, <3>1 DEF C!IInv, C!TypeOK, C!Reload
      <4>2. l.id <= newest[l.item] /\ (l.content = 0 => l.from = 0)
        BY <3>1 DEF C!IInv, C!LastReloadCounts
      <4> QED
        BY <2>1, <2>3, <3>1, <4>1, <4>2
    <3>2. CASE l \notin loads
      BY <2>1, <3>2 DEF C!SaveWritten, C!ReloadOf
    <3> QED
      BY <3>1, <3>2
  <2>5. ASSUME NEW l \in loads, l.id = newest'[l.item]
        PROVE  l.id = newest[l.item]
    <3>1. l.item \in SyncItem /\ l.id \in Nat /\ newest' \in [SyncItem -> Nat]
      BY <1>1 DEF C!IInv, C!TypeOK, C!Reload
    <3>2. l.id <= newest[l.item]
      BY DEF C!IInv, C!LastReloadCounts
    <3> QED
      BY <2>1, <2>3, <2>5, <3>1, <3>2
  <2>6. UNCHANGED <<pulled, raced>>
    BY DEF C!SaveWritten
  <2> QED
    BY <2>2, <2>4, <2>5, <2>6 DEF C!IInv, C!LastReloadCounts
<1>5. C!ReloadedShowDownload'
  BY DEF C!SaveWritten, C!ReloadOf, C!IInv, C!TypeOK, C!Data, C!Save, C!Reload, C!Content, C!Nothing, C!Operations, C!Undisturbed, C!LastReloadCounts, C!ReloadedShowDownload,
     C!ShowsDownload, C!BackedUpFirst
<1> QED
  BY <1>1, <1>2, <1>3, <1>4, <1>5 DEF C!IInv

LEMMA CloudSaveDroppedStep ==
  ASSUME C!IInv, NEW s \in v3, C!SaveDropped(s)
  PROVE  C!IInv'
<1> USE CloudAssumption DEF C!storeVars, C!diskVars, C!Working, C!Of
<1>1. C!TypeOK'
  BY DEF C!SaveDropped, C!IInv, C!TypeOK, C!Data, C!Save, C!Reload, C!Content, C!Nothing, C!Operations
<1>2. C!Undisturbed'
  BY DEF C!SaveDropped, C!IInv, C!TypeOK, C!Data, C!Save, C!Reload, C!Content, C!Nothing, C!Operations, C!Undisturbed, C!BackedUpFirst
<1>3. C!BackedUpFirst'
  BY DEF C!SaveDropped, C!IInv, C!TypeOK, C!Data, C!Save, C!Reload, C!Content, C!Nothing, C!Operations, C!Undisturbed, C!BackedUpFirst, C!ReplacedIsKept
<1>4. C!LastReloadCounts'
  BY DEF C!SaveDropped, C!IInv, C!TypeOK, C!Data, C!Save, C!Reload, C!Content, C!Nothing, C!Operations, C!Undisturbed, C!LastReloadCounts, C!ReloadedShowDownload,
     C!ShowsDownload, C!BackedUpFirst
<1>5. C!ReloadedShowDownload'
  BY DEF C!SaveDropped, C!IInv, C!TypeOK, C!Data, C!Save, C!Reload, C!Content, C!Nothing, C!Operations, C!Undisturbed, C!LastReloadCounts, C!ReloadedShowDownload,
     C!ShowsDownload, C!BackedUpFirst
<1> QED
  BY <1>1, <1>2, <1>3, <1>4, <1>5 DEF C!IInv

LEMMA CloudReloadReadStep ==
  ASSUME C!IInv, NEW l \in v2, C!ReloadRead(l)
  PROVE  C!IInv'
<1> DEFINE loads == v2
           file == v4
           pulled == v12
           newest == v13
           raced == v15
<1> USE CloudAssumption DEF C!storeVars, C!diskVars, C!Working, C!Of
<1>1. C!TypeOK'
  BY DEF C!ReloadRead, C!IInv, C!TypeOK, C!Data, C!Save, C!Reload, C!Content, C!Nothing, C!Operations
<1>2. C!Undisturbed'
  BY DEF C!ReloadRead, C!IInv, C!TypeOK, C!Data, C!Save, C!Reload, C!Content, C!Nothing, C!Operations, C!Undisturbed, C!BackedUpFirst
<1>3. C!BackedUpFirst'
  BY DEF C!ReloadRead, C!IInv, C!TypeOK, C!Data, C!Save, C!Reload, C!Content, C!Nothing, C!Operations, C!Undisturbed, C!BackedUpFirst, C!ReplacedIsKept
<1>4. C!LastReloadCounts'
  <2> DEFINE m == [l EXCEPT !.read = TRUE, !.content = file[l.item].content,
                             !.from = file[l.item].from]
  <2>1. /\ l.item \in SyncItem /\ m.item = l.item /\ m.id = l.id
        /\ m.content = file[l.item].content /\ m.from = file[l.item].from
    BY DEF C!IInv, C!TypeOK, C!Reload
  <2>2. loads' \subseteq loads \cup {m} /\ UNCHANGED <<file, pulled, newest, raced>>
    BY DEF C!ReloadRead
  <2>3. m.content = 0 => m.from = 0
    BY <2>1 DEF C!IInv, C!LastReloadCounts
  <2>4. m.id <= newest[m.item]
    BY <2>1 DEF C!IInv, C!LastReloadCounts
  <2>5. m.item \in SyncReloaded \ raced => m.from >= pulled[m.item]
    BY <2>1 DEF C!IInv, C!ReloadedShowDownload, C!ShowsDownload
  <2> HIDE DEF m
  <2> QED
    BY <2>2, <2>3, <2>4, <2>5 DEF C!IInv, C!LastReloadCounts
<1>5. C!ReloadedShowDownload'
  BY DEF C!ReloadRead, C!IInv, C!TypeOK, C!Data, C!Save, C!Reload, C!Content, C!Nothing, C!Operations, C!Undisturbed, C!LastReloadCounts, C!ReloadedShowDownload,
     C!ShowsDownload, C!BackedUpFirst
<1> QED
  BY <1>1, <1>2, <1>3, <1>4, <1>5 DEF C!IInv

LEMMA CloudReloadLandsStep ==
  ASSUME C!IInv, NEW l \in v2, C!ReloadLands(l)
  PROVE  C!IInv'
<1> DEFINE store == v1
           saves == v3
           file == v4
           pulled == v12
           newest == v13
           landed == v14
           raced == v15
<1> USE CloudAssumption DEF C!storeVars, C!diskVars, C!Working, C!Of
<1>1. C!TypeOK'
  BY DEF C!ReloadLands, C!IInv, C!TypeOK, C!Data, C!Save, C!Reload, C!Content, C!Nothing, C!Operations
<1>2. C!Undisturbed'
  BY DEF C!ReloadLands, C!IInv, C!TypeOK, C!Data, C!Save, C!Reload, C!Content, C!Nothing, C!Operations, C!Undisturbed, C!LastReloadCounts
<1>3. C!BackedUpFirst'
  BY DEF C!ReloadLands, C!IInv, C!TypeOK, C!Data, C!Save, C!Reload, C!Content, C!Nothing, C!Operations, C!Undisturbed, C!BackedUpFirst, C!ReplacedIsKept
<1>4. C!LastReloadCounts'
  BY DEF C!ReloadLands, C!IInv, C!TypeOK, C!Data, C!Save, C!Reload, C!Content, C!Nothing, C!Operations, C!Undisturbed, C!LastReloadCounts, C!ReloadedShowDownload,
     C!ShowsDownload, C!BackedUpFirst
<1>5. C!ReloadedShowDownload'
  <2>1. /\ l.item \in SyncItem /\ l.from \in Nat /\ store \in [SyncItem -> C!Data]
        /\ landed \in [SyncItem -> Nat] /\ pulled \in [SyncItem -> Nat]
    BY DEF C!IInv, C!TypeOK, C!Data, C!Save, C!Reload, C!Content
  <2>2. /\ UNCHANGED <<saves, file, pulled, newest, raced>> /\ l.read
        /\ landed' = [landed EXCEPT ![l.item] = l.id]
    BY DEF C!ReloadLands
  <2>3. ASSUME NEW r \in SyncReloaded \ raced, landed'[r] = newest[r]
        PROVE  store'[r].from >= pulled[r]
    <3>1. CASE r # l.item
      BY <2>1, <2>2, <2>3, <3>1 DEF C!ReloadLands, C!IInv, C!ReloadedShowDownload, C!ShowsDownload
    <3>2. CASE r = l.item
      <4>1. l.from >= pulled[r]
        BY <2>1, <2>2, <2>3, <3>2 DEF C!IInv, C!LastReloadCounts
      <4>2. CASE l.content = 0
        <5>1. pulled[r] = 0
          BY <2>1, <3>2, <4>1, <4>2 DEF C!IInv, C!LastReloadCounts
        <5>2. store'[r].from \in Nat
          BY <2>1, <3>2, <4>2 DEF C!ReloadLands, C!Data
        <5> QED
          BY <5>1, <5>2
      <4>3. CASE l.content # 0
        BY <2>1, <3>2, <4>1, <4>3 DEF C!ReloadLands
      <4> QED
        BY <4>2, <4>3
    <3> QED
      BY <3>1, <3>2
  <2> QED
    BY <2>2, <2>3 DEF C!IInv, C!ReloadedShowDownload, C!ShowsDownload
<1> QED
  BY <1>1, <1>2, <1>3, <1>4, <1>5 DEF C!IInv

LEMMA CloudReloadDroppedStep ==
  ASSUME C!IInv, NEW l \in v2, C!ReloadDropped(l)
  PROVE  C!IInv'
<1> USE CloudAssumption DEF C!storeVars, C!diskVars, C!Working, C!Of
<1>1. C!TypeOK'
  BY DEF C!ReloadDropped, C!IInv, C!TypeOK, C!Data, C!Save, C!Reload, C!Content, C!Nothing, C!Operations
<1>2. C!Undisturbed'
  BY DEF C!ReloadDropped, C!IInv, C!TypeOK, C!Data, C!Save, C!Reload, C!Content, C!Nothing, C!Operations, C!Undisturbed, C!BackedUpFirst
<1>3. C!BackedUpFirst'
  BY DEF C!ReloadDropped, C!IInv, C!TypeOK, C!Data, C!Save, C!Reload, C!Content, C!Nothing, C!Operations, C!Undisturbed, C!BackedUpFirst, C!ReplacedIsKept
<1>4. C!LastReloadCounts'
  BY DEF C!ReloadDropped, C!IInv, C!TypeOK, C!Data, C!Save, C!Reload, C!Content, C!Nothing, C!Operations, C!Undisturbed, C!LastReloadCounts, C!ReloadedShowDownload,
     C!ShowsDownload, C!BackedUpFirst
<1>5. C!ReloadedShowDownload'
  BY DEF C!ReloadDropped, C!IInv, C!TypeOK, C!Data, C!Save, C!Reload, C!Content, C!Nothing, C!Operations, C!Undisturbed, C!LastReloadCounts, C!ReloadedShowDownload,
     C!ShowsDownload, C!BackedUpFirst
<1> QED
  BY <1>1, <1>2, <1>3, <1>4, <1>5 DEF C!IInv

LEMMA CloudUploadStep ==
  ASSUME C!IInv, NEW picked \in SUBSET SyncItem, C!Upload(picked)
  PROVE  C!IInv'
<1> DEFINE backup == v5
           repo == v7
           op == v8
           clicks == v11
<1> USE CloudAssumption DEF C!storeVars, C!diskVars, C!Working, C!Of
<1>1. C!TypeOK'
  <2>1. C!Nothing \in [SyncItem -> C!Content] /\ repo \in [SyncItem -> C!Content]
    BY DEF C!Nothing, C!Content, C!IInv, C!TypeOK
  <2>2. PICK kind \in {"upload", "download"} :
          op' = [C!Idle EXCEPT !.kind = kind, !.at = IF kind = "upload" THEN "clone" ELSE "backup",
                               !.todo = picked, !.picked = picked, !.base = repo]
    BY DEF C!Upload, C!Click
  <2>3. op' \in C!Operations
    BY <2>1, <2>2 DEF C!Idle, C!Operations
  <2>4. clicks' \in 0..SyncMaxClicks /\ backup' \in [SyncItem -> C!Content]
    BY <2>1 DEF C!Upload, C!Click, C!IInv, C!TypeOK
  <2> QED
    BY <2>3, <2>4 DEF C!Upload, C!Click, C!IInv, C!TypeOK
<1>2. C!Undisturbed'
  BY DEF C!Upload, C!Click, C!Idle, C!IInv, C!TypeOK, C!Data, C!Save, C!Reload, C!Content, C!Nothing, C!Operations, C!Undisturbed, C!BackedUpFirst
<1>3. C!BackedUpFirst'
  BY DEF C!Upload, C!Click, C!Idle, C!IInv, C!TypeOK, C!Data, C!Save, C!Reload, C!Content, C!Nothing, C!Operations, C!Undisturbed, C!BackedUpFirst, C!ReplacedIsKept
<1>4. C!LastReloadCounts'
  BY DEF C!Upload, C!Click, C!Idle, C!IInv, C!TypeOK, C!Data, C!Save, C!Reload, C!Content, C!Nothing, C!Operations, C!Undisturbed, C!LastReloadCounts, C!ReloadedShowDownload,
     C!ShowsDownload, C!BackedUpFirst
<1>5. C!ReloadedShowDownload'
  BY DEF C!Upload, C!Click, C!Idle, C!IInv, C!TypeOK, C!Data, C!Save, C!Reload, C!Content, C!Nothing, C!Operations, C!Undisturbed, C!LastReloadCounts, C!ReloadedShowDownload,
     C!ShowsDownload, C!BackedUpFirst
<1> QED
  BY <1>1, <1>2, <1>3, <1>4, <1>5 DEF C!IInv

LEMMA CloudDownloadStep ==
  ASSUME C!IInv, NEW picked \in SUBSET SyncItem, C!Download(picked)
  PROVE  C!IInv'
<1> DEFINE backup == v5
           repo == v7
           op == v8
           clicks == v11
<1> USE CloudAssumption DEF C!storeVars, C!diskVars, C!Working, C!Of
<1>1. C!TypeOK'
  <2>1. C!Nothing \in [SyncItem -> C!Content] /\ repo \in [SyncItem -> C!Content]
    BY DEF C!Nothing, C!Content, C!IInv, C!TypeOK
  <2>2. PICK kind \in {"upload", "download"} :
          op' = [C!Idle EXCEPT !.kind = kind, !.at = IF kind = "upload" THEN "clone" ELSE "backup",
                               !.todo = picked, !.picked = picked, !.base = repo]
    BY DEF C!Download, C!Click
  <2>3. op' \in C!Operations
    BY <2>1, <2>2 DEF C!Idle, C!Operations
  <2>4. clicks' \in 0..SyncMaxClicks /\ backup' \in [SyncItem -> C!Content]
    BY <2>1 DEF C!Download, C!Click, C!IInv, C!TypeOK
  <2> QED
    BY <2>3, <2>4 DEF C!Download, C!Click, C!IInv, C!TypeOK
<1>2. C!Undisturbed'
  BY DEF C!Download, C!Click, C!Idle, C!IInv, C!TypeOK, C!Data, C!Save, C!Reload, C!Content, C!Nothing, C!Operations, C!Undisturbed, C!BackedUpFirst
<1>3. C!BackedUpFirst'
  BY DEF C!Download, C!Click, C!Idle, C!IInv, C!TypeOK, C!Data, C!Save, C!Reload, C!Content, C!Nothing, C!Operations, C!Undisturbed, C!BackedUpFirst, C!ReplacedIsKept
<1>4. C!LastReloadCounts'
  BY DEF C!Download, C!Click, C!Idle, C!IInv, C!TypeOK, C!Data, C!Save, C!Reload, C!Content, C!Nothing, C!Operations, C!Undisturbed, C!LastReloadCounts, C!ReloadedShowDownload,
     C!ShowsDownload, C!BackedUpFirst
<1>5. C!ReloadedShowDownload'
  BY DEF C!Download, C!Click, C!Idle, C!IInv, C!TypeOK, C!Data, C!Save, C!Reload, C!Content, C!Nothing, C!Operations, C!Undisturbed, C!LastReloadCounts, C!ReloadedShowDownload,
     C!ShowsDownload, C!BackedUpFirst
<1> QED
  BY <1>1, <1>2, <1>3, <1>4, <1>5 DEF C!IInv

LEMMA CloudBackUpStep ==
  ASSUME C!IInv, NEW i \in SyncItem, C!BackUp(i)
  PROVE  C!IInv'
<1> USE CloudAssumption DEF C!storeVars, C!diskVars, C!Working, C!Of
<1>1. C!TypeOK'
  BY DEF C!BackUp, C!IInv, C!TypeOK, C!Data, C!Save, C!Reload, C!Content, C!Nothing, C!Operations
<1>2. C!Undisturbed'
  BY DEF C!BackUp, C!IInv, C!TypeOK, C!Data, C!Save, C!Reload, C!Content, C!Nothing, C!Operations, C!Undisturbed, C!BackedUpFirst
<1>3. C!BackedUpFirst'
  BY DEF C!BackUp, C!IInv, C!TypeOK, C!Data, C!Save, C!Reload, C!Content, C!Nothing, C!Operations, C!Undisturbed, C!BackedUpFirst, C!ReplacedIsKept
<1>4. C!LastReloadCounts'
  BY DEF C!BackUp, C!IInv, C!TypeOK, C!Data, C!Save, C!Reload, C!Content, C!Nothing, C!Operations, C!Undisturbed, C!LastReloadCounts, C!ReloadedShowDownload,
     C!ShowsDownload, C!BackedUpFirst
<1>5. C!ReloadedShowDownload'
  BY DEF C!BackUp, C!IInv, C!TypeOK, C!Data, C!Save, C!Reload, C!Content, C!Nothing, C!Operations, C!Undisturbed, C!LastReloadCounts, C!ReloadedShowDownload,
     C!ShowsDownload, C!BackedUpFirst
<1> QED
  BY <1>1, <1>2, <1>3, <1>4, <1>5 DEF C!IInv

LEMMA CloudBackedUpStep ==
  ASSUME C!IInv, C!BackedUp
  PROVE  C!IInv'
<1> USE CloudAssumption DEF C!storeVars, C!diskVars, C!Working, C!Of
<1>1. C!TypeOK'
  BY DEF C!BackedUp, C!IInv, C!TypeOK, C!Data, C!Save, C!Reload, C!Content, C!Nothing, C!Operations
<1>2. C!Undisturbed'
  BY DEF C!BackedUp, C!IInv, C!TypeOK, C!Data, C!Save, C!Reload, C!Content, C!Nothing, C!Operations, C!Undisturbed, C!BackedUpFirst
<1>3. C!BackedUpFirst'
  BY DEF C!BackedUp, C!IInv, C!TypeOK, C!Data, C!Save, C!Reload, C!Content, C!Nothing, C!Operations, C!Undisturbed, C!BackedUpFirst, C!ReplacedIsKept
<1>4. C!LastReloadCounts'
  BY DEF C!BackedUp, C!IInv, C!TypeOK, C!Data, C!Save, C!Reload, C!Content, C!Nothing, C!Operations, C!Undisturbed, C!LastReloadCounts, C!ReloadedShowDownload,
     C!ShowsDownload, C!BackedUpFirst
<1>5. C!ReloadedShowDownload'
  BY DEF C!BackedUp, C!IInv, C!TypeOK, C!Data, C!Save, C!Reload, C!Content, C!Nothing, C!Operations, C!Undisturbed, C!LastReloadCounts, C!ReloadedShowDownload,
     C!ShowsDownload, C!BackedUpFirst
<1> QED
  BY <1>1, <1>2, <1>3, <1>4, <1>5 DEF C!IInv

LEMMA CloudCloneStep ==
  ASSUME C!IInv, C!Clone
  PROVE  C!IInv'
<1> USE CloudAssumption DEF C!storeVars, C!diskVars, C!Working, C!Of
<1>1. C!TypeOK'
  BY DEF C!Clone, C!IInv, C!TypeOK, C!Data, C!Save, C!Reload, C!Content, C!Nothing, C!Operations
<1>2. C!Undisturbed'
  BY DEF C!Clone, C!IInv, C!TypeOK, C!Data, C!Save, C!Reload, C!Content, C!Nothing, C!Operations, C!Undisturbed, C!BackedUpFirst
<1>3. C!BackedUpFirst'
  BY DEF C!Clone, C!IInv, C!TypeOK, C!Data, C!Save, C!Reload, C!Content, C!Nothing, C!Operations, C!Undisturbed, C!BackedUpFirst, C!ReplacedIsKept
<1>4. C!LastReloadCounts'
  BY DEF C!Clone, C!IInv, C!TypeOK, C!Data, C!Save, C!Reload, C!Content, C!Nothing, C!Operations, C!Undisturbed, C!LastReloadCounts, C!ReloadedShowDownload,
     C!ShowsDownload, C!BackedUpFirst
<1>5. C!ReloadedShowDownload'
  BY DEF C!Clone, C!IInv, C!TypeOK, C!Data, C!Save, C!Reload, C!Content, C!Nothing, C!Operations, C!Undisturbed, C!LastReloadCounts, C!ReloadedShowDownload,
     C!ShowsDownload, C!BackedUpFirst
<1> QED
  BY <1>1, <1>2, <1>3, <1>4, <1>5 DEF C!IInv

LEMMA CloudSynchroniseStep ==
  ASSUME C!IInv, C!Synchronise
  PROVE  C!IInv'
<1> DEFINE clone == v6
           op == v8
<1> USE CloudAssumption DEF C!storeVars, C!diskVars, C!Working, C!Of
<1>1. C!TypeOK'
  <2>1. clone' \in [SyncItem -> C!Content]
    BY DEF C!Synchronise, C!IInv, C!TypeOK, C!Content, C!Data
  <2>2. op' \in C!Operations
    BY DEF C!Synchronise, C!IInv, C!TypeOK, C!Operations
  <2> QED
    BY <2>1, <2>2 DEF C!Synchronise, C!IInv, C!TypeOK
<1>2. C!Undisturbed'
  BY DEF C!Synchronise, C!IInv, C!TypeOK, C!Data, C!Save, C!Reload, C!Content, C!Nothing, C!Operations, C!Undisturbed, C!BackedUpFirst
<1>3. C!BackedUpFirst'
  BY DEF C!Synchronise, C!IInv, C!TypeOK, C!Data, C!Save, C!Reload, C!Content, C!Nothing, C!Operations, C!Undisturbed, C!BackedUpFirst, C!ReplacedIsKept
<1>4. C!LastReloadCounts'
  BY DEF C!Synchronise, C!IInv, C!TypeOK, C!Data, C!Save, C!Reload, C!Content, C!Nothing, C!Operations, C!Undisturbed, C!LastReloadCounts, C!ReloadedShowDownload,
     C!ShowsDownload, C!BackedUpFirst
<1>5. C!ReloadedShowDownload'
  BY DEF C!Synchronise, C!IInv, C!TypeOK, C!Data, C!Save, C!Reload, C!Content, C!Nothing, C!Operations, C!Undisturbed, C!LastReloadCounts, C!ReloadedShowDownload,
     C!ShowsDownload, C!BackedUpFirst
<1> QED
  BY <1>1, <1>2, <1>3, <1>4, <1>5 DEF C!IInv

LEMMA CloudPushStep ==
  ASSUME C!IInv, C!Push
  PROVE  C!IInv'
<1> USE CloudAssumption DEF C!storeVars, C!diskVars, C!Working, C!Of
<1>1. C!TypeOK'
  BY DEF C!Push, C!IInv, C!TypeOK, C!Data, C!Save, C!Reload, C!Content, C!Nothing, C!Operations
<1>2. C!Undisturbed'
  BY DEF C!Push, C!IInv, C!TypeOK, C!Data, C!Save, C!Reload, C!Content, C!Nothing, C!Operations, C!Undisturbed, C!BackedUpFirst
<1>3. C!BackedUpFirst'
  BY DEF C!Push, C!IInv, C!TypeOK, C!Data, C!Save, C!Reload, C!Content, C!Nothing, C!Operations, C!Undisturbed, C!BackedUpFirst, C!ReplacedIsKept
<1>4. C!LastReloadCounts'
  BY DEF C!Push, C!IInv, C!TypeOK, C!Data, C!Save, C!Reload, C!Content, C!Nothing, C!Operations, C!Undisturbed, C!LastReloadCounts, C!ReloadedShowDownload,
     C!ShowsDownload, C!BackedUpFirst
<1>5. C!ReloadedShowDownload'
  BY DEF C!Push, C!IInv, C!TypeOK, C!Data, C!Save, C!Reload, C!Content, C!Nothing, C!Operations, C!Undisturbed, C!LastReloadCounts, C!ReloadedShowDownload,
     C!ShowsDownload, C!BackedUpFirst
<1> QED
  BY <1>1, <1>2, <1>3, <1>4, <1>5 DEF C!IInv

LEMMA CloudReplaceStep ==
  ASSUME C!IInv, NEW i \in SyncItem, C!Replace(i)
  PROVE  C!IInv'
<1> DEFINE file == v4
           backup == v5
           clone == v6
           op == v8
           clicks == v11
           raced == v15
<1> USE CloudAssumption DEF C!storeVars, C!diskVars, C!Working, C!Of
<1>1. C!TypeOK'
  <2>1. clone[i] \in C!Content /\ file[i] \in C!Data /\ clicks \in 0..SyncMaxClicks
    BY DEF C!IInv, C!TypeOK
  <2>2. file' \in [SyncItem -> C!Data]
    BY <2>1 DEF C!Replace, C!IInv, C!TypeOK, C!Data
  <2>3. op' \in C!Operations
    <3>1. op \in C!Operations /\ file[i].content \in C!Content
      BY <2>1 DEF C!IInv, C!TypeOK, C!Data
    <3>2. [op.overwritten EXCEPT ![i] = file[i].content] \in [SyncItem -> C!Content]
      BY <3>1 DEF C!Operations
    <3>3. \/ op' = [op EXCEPT !.todo = @ \ {i}]
          \/ op' = [op EXCEPT !.todo = @ \ {i}, !.replaced = @ \cup {i},
                              !.overwritten = [op.overwritten EXCEPT ![i] = file[i].content]]
      BY <3>1 DEF C!Replace, C!Operations
    <3>4. CASE op' = [op EXCEPT !.todo = @ \ {i}]
      BY <3>1, <3>4 DEF C!Operations
    <3>5. CASE op' = [op EXCEPT !.todo = @ \ {i}, !.replaced = @ \cup {i},
                              !.overwritten = [op.overwritten EXCEPT ![i] = file[i].content]]
      BY <3>1, <3>2, <3>5 DEF C!Operations
    <3> QED
      BY <3>3, <3>4, <3>5
  <2> QED
    BY <2>2, <2>3 DEF C!Replace, C!IInv, C!TypeOK
<1>2. C!Undisturbed'
  <2>1. op'.kind = op.kind /\ op'.picked = op.picked
    BY DEF C!Replace, C!IInv, C!TypeOK, C!Operations
  <2>2. ASSUME op.kind = "download", NEW j \in op'.replaced \ raced
        PROVE  file'[j].from = clicks
    <3>1. CASE j = i /\ clone[i] # 0
      BY <3>1 DEF C!Replace, C!IInv, C!TypeOK
    <3>2. CASE ~(j = i /\ clone[i] # 0)
      <4>1. op \in C!Operations /\ file \in [SyncItem -> C!Data] /\ op.replaced \subseteq SyncItem
        BY DEF C!IInv, C!TypeOK, C!Operations
      <4>2. CASE clone[i] = 0
        <5>1. op'.replaced = op.replaced /\ UNCHANGED <<file, clicks>>
          BY <4>1, <4>2 DEF C!Replace, C!Operations
        <5> QED
          BY <2>2, <5>1 DEF C!IInv, C!Undisturbed
      <4>3. CASE clone[i] # 0 /\ j # i
        <5>1. op'.replaced = op.replaced \cup {i} /\ UNCHANGED clicks
              /\ file' = [file EXCEPT ![i] = [content |-> clone[i], from |-> clicks]]
          BY <4>1, <4>3 DEF C!Replace, C!Operations
        <5> QED
          BY <2>2, <4>1, <4>3, <5>1 DEF C!IInv, C!Undisturbed
      <4> QED
        BY <3>2, <4>2, <4>3
    <3> QED
      BY <3>1, <3>2
  <2> QED
    BY <2>1, <2>2 DEF C!Replace, C!IInv, C!Undisturbed
<1>3. C!BackedUpFirst'
  <2>1. op.kind = "download" /\ op.at = "replace" /\ i \in op.todo /\ op.todo \subseteq op.picked
    BY DEF C!Replace, C!IInv, C!BackedUpFirst
  <2>2. /\ op'.kind = op.kind /\ op'.picked = op.picked /\ op'.at = op.at /\ op'.late = op.late
        /\ op'.todo = op.todo \ {i} /\ UNCHANGED backup
    BY DEF C!Replace, C!IInv, C!TypeOK, C!Operations
  <2>3. CASE clone[i] = 0
    BY <2>1, <2>2, <2>3 DEF C!Replace, C!IInv, C!TypeOK, C!Operations, C!BackedUpFirst,
       C!ReplacedIsKept
  <2>4. CASE clone[i] # 0
    <3>1. /\ op'.replaced = op.replaced \cup {i}
          /\ op'.overwritten = [op.overwritten EXCEPT ![i] = file[i].content]
          /\ file' = [file EXCEPT ![i] = [content |-> clone[i], from |-> clicks]]
      BY <2>4 DEF C!Replace, C!IInv, C!TypeOK, C!Operations
    <3>2. op.overwritten \in [SyncItem -> C!Content] /\ file \in [SyncItem -> C!Data]
          /\ op.picked \subseteq SyncItem /\ op.replaced \subseteq op.picked
      BY DEF C!IInv, C!TypeOK, C!Operations, C!BackedUpFirst
    <3>3. ASSUME NEW j \in op'.replaced \ op'.late
          PROVE  backup'[j] = op'.overwritten[j]
      <4>1. CASE j \in op.replaced /\ j # i
        BY <2>2, <3>1, <3>2, <3>3, <4>1 DEF C!IInv, C!BackedUpFirst, C!ReplacedIsKept
      <4>2. CASE j = i /\ i \notin op.replaced
        BY <2>1, <2>2, <3>1, <3>2, <3>3, <4>2 DEF C!IInv, C!BackedUpFirst
      <4>3. CASE j = i /\ i \in op.replaced
        BY <2>1, <4>3 DEF C!IInv, C!BackedUpFirst
      <4> QED
        BY <3>1, <4>1, <4>2, <4>3
    <3> QED
      BY <2>1, <2>2, <3>1, <3>2, <3>3 DEF C!IInv, C!BackedUpFirst, C!ReplacedIsKept
  <2> QED
    BY <2>3, <2>4
<1>4. /\ UNCHANGED <<v1, v2, v3, v12, v13, v14, v15>>
      /\ \/ UNCHANGED file
         \/ /\ clone[i] # 0
            /\ file' = [file EXCEPT ![i] = [content |-> clone[i], from |-> clicks]]
  BY DEF C!Replace
<1>5. \A j \in SyncItem :
        \/ file'[j] = file[j]
        \/ file'[j].content # 0 /\ file'[j].from = clicks
  BY <1>4 DEF C!IInv, C!TypeOK
<1>6. C!LastReloadCounts'
  <2>1. \A j \in SyncItem : file'[j].content = 0 => file'[j].from = 0
    BY <1>5 DEF C!IInv, C!LastReloadCounts
  <2> QED
    BY <1>4, <2>1 DEF C!IInv, C!LastReloadCounts
<1>7. C!ReloadedShowDownload'
  <2> SUFFICES ASSUME NEW j \in SyncReloaded \ raced
               PROVE  C!ShowsDownload(j)'
    BY <1>4 DEF C!ReloadedShowDownload
  <2>1. C!ShowsDownload(j) /\ j \in SyncItem
    BY DEF C!IInv, C!ReloadedShowDownload
  <2>2. clicks >= v12[j]
    BY <2>1 DEF C!IInv, C!TypeOK, C!Undisturbed
  <2>3. file'[j].from >= v12[j]
    BY <1>5, <2>1, <2>2 DEF C!ShowsDownload
  <2> QED
    BY <1>4, <2>1, <2>3 DEF C!ShowsDownload
<1> QED
  BY <1>1, <1>2, <1>3, <1>6, <1>7 DEF C!IInv

LEMMA CloudStepFailsStep ==
  ASSUME C!IInv, C!StepFails
  PROVE  C!IInv'
<1> USE CloudAssumption DEF C!storeVars, C!diskVars, C!Working, C!Of
<1>1. C!TypeOK'
  BY DEF C!StepFails, C!IInv, C!TypeOK, C!Data, C!Save, C!Reload, C!Content, C!Nothing, C!Operations
<1>2. C!Undisturbed'
  BY DEF C!StepFails, C!IInv, C!TypeOK, C!Data, C!Save, C!Reload, C!Content, C!Nothing, C!Operations, C!Undisturbed, C!BackedUpFirst
<1>3. C!BackedUpFirst'
  BY DEF C!StepFails, C!IInv, C!TypeOK, C!Data, C!Save, C!Reload, C!Content, C!Nothing, C!Operations, C!Undisturbed, C!BackedUpFirst, C!ReplacedIsKept
<1>4. C!LastReloadCounts'
  BY DEF C!StepFails, C!IInv, C!TypeOK, C!Data, C!Save, C!Reload, C!Content, C!Nothing, C!Operations, C!Undisturbed, C!LastReloadCounts, C!ReloadedShowDownload,
     C!ShowsDownload, C!BackedUpFirst
<1>5. C!ReloadedShowDownload'
  BY DEF C!StepFails, C!IInv, C!TypeOK, C!Data, C!Save, C!Reload, C!Content, C!Nothing, C!Operations, C!Undisturbed, C!LastReloadCounts, C!ReloadedShowDownload,
     C!ShowsDownload, C!BackedUpFirst
<1> QED
  BY <1>1, <1>2, <1>3, <1>4, <1>5 DEF C!IInv

LEMMA CloudUploadAnsweredStep ==
  ASSUME C!IInv, C!UploadAnswered
  PROVE  C!IInv'
<1> USE CloudAssumption DEF C!storeVars, C!diskVars, C!Working, C!Of
<1>1. C!TypeOK'
  BY DEF C!UploadAnswered, C!IInv, C!TypeOK, C!Data, C!Save, C!Reload, C!Content, C!Nothing, C!Operations
<1>2. C!Undisturbed'
  BY DEF C!UploadAnswered, C!IInv, C!TypeOK, C!Data, C!Save, C!Reload, C!Content, C!Nothing, C!Operations, C!Undisturbed, C!BackedUpFirst
<1>3. C!BackedUpFirst'
  BY DEF C!UploadAnswered, C!IInv, C!TypeOK, C!Data, C!Save, C!Reload, C!Content, C!Nothing, C!Operations, C!Undisturbed, C!BackedUpFirst, C!ReplacedIsKept
<1>4. C!LastReloadCounts'
  BY DEF C!UploadAnswered, C!IInv, C!TypeOK, C!Data, C!Save, C!Reload, C!Content, C!Nothing, C!Operations, C!Undisturbed, C!LastReloadCounts, C!ReloadedShowDownload,
     C!ShowsDownload, C!BackedUpFirst
<1>5. C!ReloadedShowDownload'
  BY DEF C!UploadAnswered, C!IInv, C!TypeOK, C!Data, C!Save, C!Reload, C!Content, C!Nothing, C!Operations, C!Undisturbed, C!LastReloadCounts, C!ReloadedShowDownload,
     C!ShowsDownload, C!BackedUpFirst
<1> QED
  BY <1>1, <1>2, <1>3, <1>4, <1>5 DEF C!IInv

LEMMA CloudDownloadAnsweredStep ==
  ASSUME C!IInv, C!DownloadAnswered
  PROVE  C!IInv'
<1> DEFINE loads == v2
           file == v4
           op == v8
           pulled == v12
           newest == v13
           raced == v15
<1> USE CloudAssumption DEF C!storeVars, C!diskVars, C!Working, C!Of
<1>1. C!TypeOK'
  <2>1. op.picked \cap SyncReloaded \subseteq SyncItem
    BY DEF C!IInv, C!TypeOK, C!Operations
  <2>2. newest' \in [SyncItem -> Nat] /\ loads' \subseteq C!Reload
    <3>1. newest' \in [SyncItem -> Nat]
      BY <2>1 DEF C!DownloadAnswered, C!DownloadEnds, C!ReloadOf, C!IInv, C!TypeOK
    <3>2. ASSUME NEW l \in loads', l \notin loads PROVE l \in C!Reload
      <4>1. PICK j \in op.picked \cap SyncReloaded :
              l = [item |-> j, id |-> newest[j] + 1, read |-> FALSE, content |-> 0, from |-> 0]
        BY <3>2 DEF C!DownloadAnswered, C!DownloadEnds, C!ReloadOf
      <4>2. j \in SyncItem /\ newest[j] \in Nat /\ 0 \in C!Content /\ 0 \in 0..SyncMaxClicks
        BY <2>1, <4>1 DEF C!IInv, C!TypeOK, C!Content
      <4> QED
        BY <4>1, <4>2 DEF C!Reload
    <3> QED
      BY <3>1, <3>2 DEF C!IInv, C!TypeOK
  <2>3. pulled' \in [SyncItem -> 0..SyncMaxClicks]
    BY DEF C!DownloadAnswered, C!DownloadEnds, C!IInv, C!TypeOK
  <2>4. op' \in C!Operations
    BY DEF C!DownloadAnswered, C!DownloadEnds, C!IInv, C!TypeOK, C!Operations
  <2> QED
    BY <2>2, <2>3, <2>4 DEF C!DownloadAnswered, C!DownloadEnds, C!IInv, C!TypeOK
<1>2. C!Undisturbed'
  BY DEF C!DownloadAnswered, C!DownloadEnds, C!ReloadOf, C!IInv, C!TypeOK, C!Data, C!Save, C!Reload, C!Content, C!Nothing, C!Operations, C!Undisturbed, C!BackedUpFirst
<1>3. C!BackedUpFirst'
  BY DEF C!DownloadAnswered, C!DownloadEnds, C!ReloadOf, C!IInv, C!TypeOK, C!Data, C!Save, C!Reload, C!Content, C!Nothing, C!Operations, C!Undisturbed, C!BackedUpFirst, C!ReplacedIsKept
<1>4. C!LastReloadCounts'
  <2>1. /\ op.picked \subseteq SyncItem /\ newest \in [SyncItem -> Nat] /\ op.replaced \subseteq op.picked
        /\ UNCHANGED <<file, raced>>
    BY DEF C!DownloadAnswered, C!DownloadEnds, C!IInv, C!TypeOK, C!Operations, C!BackedUpFirst
  <2>2. \A j \in SyncItem : newest'[j] = IF j \in op.picked \cap SyncReloaded THEN newest[j] + 1
                                           ELSE newest[j]
    BY DEF C!DownloadAnswered, C!DownloadEnds, C!ReloadOf
  <2>3. ASSUME NEW l \in loads'
        PROVE  /\ l.content = 0 => l.from = 0
               /\ l.id <= newest'[l.item]
               /\ l.read => l \in loads
    <3>1. CASE l \in loads
      BY <2>1, <2>2, <3>1 DEF C!LastReloadCounts, C!IInv, C!TypeOK, C!Data, C!Save, C!Reload, C!Content
    <3>2. CASE l \notin loads
      BY <2>1, <2>2, <3>2 DEF C!DownloadAnswered, C!DownloadEnds, C!ReloadOf
    <3> QED
      BY <3>1, <3>2
  <2>4. ASSUME NEW l \in loads, l.read, l.item \in SyncReloaded \ raced, l.id = newest'[l.item]
        PROVE  l.from >= pulled'[l.item]
    <3>1. l.item \in SyncItem /\ l.id <= newest[l.item] /\ l.id \in Nat
      BY DEF C!LastReloadCounts, C!IInv, C!TypeOK, C!Data, C!Save, C!Reload, C!Content
    <3>2. l.item \notin op.picked /\ l.id = newest[l.item]
      BY <2>1, <2>2, <2>4, <3>1
    <3>3. pulled'[l.item] = pulled[l.item]
      BY <2>1, <3>1, <3>2 DEF C!DownloadAnswered, C!DownloadEnds
    <3> QED
      BY <2>4, <3>2, <3>3 DEF C!IInv, C!LastReloadCounts
  <2> QED
    BY <2>1, <2>3, <2>4 DEF C!IInv, C!LastReloadCounts
<1>5. C!ReloadedShowDownload'
  BY DEF C!DownloadAnswered, C!DownloadEnds, C!ReloadOf, C!IInv, C!TypeOK, C!Data, C!Save, C!Reload, C!Content, C!Nothing, C!Operations, C!Undisturbed, C!LastReloadCounts, C!ReloadedShowDownload,
     C!ShowsDownload, C!BackedUpFirst
<1> QED
  BY <1>1, <1>2, <1>3, <1>4, <1>5 DEF C!IInv

LEMMA CloudPushElsewhereStep ==
  ASSUME C!IInv, NEW i \in SyncItem, C!PushElsewhere(i)
  PROVE  C!IInv'
<1> USE CloudAssumption DEF C!storeVars, C!diskVars, C!Working, C!Of
<1>1. C!TypeOK'
  BY DEF C!PushElsewhere, C!IInv, C!TypeOK, C!Data, C!Save, C!Reload, C!Content, C!Nothing, C!Operations
<1>2. C!Undisturbed'
  BY DEF C!PushElsewhere, C!IInv, C!TypeOK, C!Data, C!Save, C!Reload, C!Content, C!Nothing, C!Operations, C!Undisturbed, C!BackedUpFirst
<1>3. C!BackedUpFirst'
  BY DEF C!PushElsewhere, C!IInv, C!TypeOK, C!Data, C!Save, C!Reload, C!Content, C!Nothing, C!Operations, C!Undisturbed, C!BackedUpFirst, C!ReplacedIsKept
<1>4. C!LastReloadCounts'
  BY DEF C!PushElsewhere, C!IInv, C!TypeOK, C!Data, C!Save, C!Reload, C!Content, C!Nothing, C!Operations, C!Undisturbed, C!LastReloadCounts, C!ReloadedShowDownload,
     C!ShowsDownload, C!BackedUpFirst
<1>5. C!ReloadedShowDownload'
  BY DEF C!PushElsewhere, C!IInv, C!TypeOK, C!Data, C!Save, C!Reload, C!Content, C!Nothing, C!Operations, C!Undisturbed, C!LastReloadCounts, C!ReloadedShowDownload,
     C!ShowsDownload, C!BackedUpFirst
<1> QED
  BY <1>1, <1>2, <1>3, <1>4, <1>5 DEF C!IInv

LEMMA CloudStutterStep ==
  ASSUME C!IInv, UNCHANGED C!vars
  PROVE  C!IInv'
<1> USE CloudAssumption DEF C!storeVars, C!diskVars, C!Working, C!Of
<1>1. C!TypeOK'
  BY DEF C!vars, C!IInv, C!TypeOK, C!Data, C!Save, C!Reload, C!Content, C!Nothing, C!Operations
<1>2. C!Undisturbed'
  BY DEF C!vars, C!IInv, C!TypeOK, C!Data, C!Save, C!Reload, C!Content, C!Nothing, C!Operations, C!Undisturbed, C!BackedUpFirst
<1>3. C!BackedUpFirst'
  BY DEF C!vars, C!IInv, C!TypeOK, C!Data, C!Save, C!Reload, C!Content, C!Nothing, C!Operations, C!Undisturbed, C!BackedUpFirst, C!ReplacedIsKept
<1>4. C!LastReloadCounts'
  BY DEF C!vars, C!IInv, C!TypeOK, C!Data, C!Save, C!Reload, C!Content, C!Nothing, C!Operations, C!Undisturbed, C!LastReloadCounts, C!ReloadedShowDownload,
     C!ShowsDownload, C!BackedUpFirst
<1>5. C!ReloadedShowDownload'
  BY DEF C!vars, C!IInv, C!TypeOK, C!Data, C!Save, C!Reload, C!Content, C!Nothing, C!Operations, C!Undisturbed, C!LastReloadCounts, C!ReloadedShowDownload,
     C!ShowsDownload, C!BackedUpFirst
<1> QED
  BY <1>1, <1>2, <1>3, <1>4, <1>5 DEF C!IInv

LEMMA CloudInitHolds ==
  ASSUME C!Init
  PROVE  C!IInv
<1> DEFINE store == v1
           file == v4
           op == v8
<1>1. /\ C!Nothing \in [SyncItem -> C!Content] /\ C!Nothing \in [SyncItem -> 0..SyncMaxClicks]
      /\ C!Nothing \in [SyncItem -> Nat] /\ {0, 1, 2} \subseteq C!Content /\ 2 \in 0..SyncMaxEdits
      /\ 0 \in 0..SyncMaxClicks
  BY CloudAssumption DEF C!Nothing, C!Content
<1>2. /\ file \in [SyncItem -> C!Data] /\ store = file
      /\ \A i \in SyncItem : file[i].from = 0
  <2>1. PICK exists \in [SyncItem -> {0, 1}] :
          file = [i \in SyncItem |-> [content |-> exists[i], from |-> 0]]
    BY DEF C!Init
  <2> QED
    BY <1>1, <2>1 DEF C!Init, C!Data
<1>3. op = C!Idle /\ C!Idle \in C!Operations
  BY <1>1 DEF C!Init, C!Idle, C!Operations
<1>4. C!TypeOK
  <2>1. v7 \in [SyncItem -> C!Content]
    <3>1. PICK pushed \in {0, 2} : v7 = [i \in SyncItem |-> pushed]
      BY DEF C!Init
    <3> QED
      BY <1>1, <3>1
  <2> QED
    BY <1>1, <1>2, <1>3, <2>1 DEF C!Init, C!TypeOK
<1>5. C!Undisturbed /\ C!BackedUpFirst
  BY <1>1, <1>3 DEF C!Init, C!Undisturbed, C!BackedUpFirst, C!ReplacedIsKept, C!Idle, C!Nothing,
     C!Working
<1>6. C!LastReloadCounts
  BY <1>2 DEF C!Init, C!LastReloadCounts
<1>7. C!ReloadedShowDownload
  BY <1>2, CloudAssumption DEF C!Init, C!ReloadedShowDownload, C!ShowsDownload, C!Nothing, C!Of
<1> QED
  BY <1>4, <1>5, <1>6, <1>7 DEF C!IInv

LEMMA CloudNextStep ==
  ASSUME C!IInv, C!Next
  PROVE  C!IInv'
BY CloudEditStep, CloudSaveWrittenStep, CloudSaveDroppedStep, CloudReloadReadStep,
   CloudReloadLandsStep, CloudReloadDroppedStep, CloudUploadStep, CloudDownloadStep,
   CloudBackUpStep, CloudBackedUpStep, CloudCloneStep, CloudSynchroniseStep, CloudPushStep,
   CloudReplaceStep, CloudStepFailsStep, CloudUploadAnsweredStep, CloudDownloadAnsweredStep,
   CloudPushElsewhereStep DEF C!Next

-----------------------------------------------------------------------------
\* External plugins: what was enabled stays, and some load is to register it.

\* What a scan takes, and what registering it leaves.
LEMMA PluginRegistered ==
  ASSUME P!TypeOK, NEW dir \in [Plugin -> Manifest \cup {None}], NEW list \in [Plugin -> P!Entry],
         NEW load \in SUBSET P!Scanned(dir, list), NEW left \in SUBSET Plugin,
         NEW before \in [Plugin -> Nat], NEW throwing, P!Register(dir, list, load, left, before, throwing)
  PROVE  /\ v3' \in [Plugin -> P!Discovered \cup {None}] /\ v4' \subseteq Plugin
         /\ v5' \in [Plugin -> Nat] /\ v6' \subseteq Plugin
         /\ P!Found'
         /\ \A p \in v6' \ Bundled : v3'[p] # None
         /\ \A p \in load : /\ v3'[p] # None
                            /\ p \notin left \cup throwing => v3'[p].loaded
         /\ v4' = left \cup load
         /\ \A p \in P!Scanned(dir, list) :
              list[p] # None => v3'[p] # None /\ v3'[p].enabled /\ p \in v6'
<1> DEFINE plugins == v3
           handlers == v4
           listeners == v5
           merged == v6
<1> DEFINE serving == load \ (left \cup throwing)
           plugin(p) == [manifest |-> dir[p], enabled |-> P!EnabledIn(list, p), loaded |-> p \in serving]
<1>1. \A p \in P!Scanned(dir, list) :
        /\ p \in Plugin \ Bundled /\ dir[p] \in Manifest /\ dir[p].signature # "bad"
  BY DEF P!Scanned
<1>2. \A p \in P!Scanned(dir, list) : plugin(p) \in P!Discovered /\ plugin(p) # None
  <2> SUFFICES ASSUME NEW p \in P!Scanned(dir, list) PROVE plugin(p) \in P!Discovered
    BY PluginAssumption
  <2>1. P!EnabledIn(list, p) \in BOOLEAN /\ (p \in serving) \in BOOLEAN
    BY DEF P!EnabledIn
  <2>2. PICK on \in BOOLEAN : on = P!EnabledIn(list, p)
    BY <2>1
  <2>3. PICK serves \in BOOLEAN : serves = (p \in serving)
    BY <2>1
  <2>4. [manifest |-> dir[p], enabled |-> on, loaded |-> serves] \in P!Discovered
    BY <1>1 DEF P!Discovered
  <2> QED
    BY <2>2, <2>3, <2>4
<1>3. plugins' = [p \in Plugin |-> IF p \notin P!Scanned(dir, list) THEN None ELSE plugin(p)]
  BY DEF P!Register
<1>4. /\ handlers' = left \cup load
      /\ merged' = Bundled \cup {p \in P!Scanned(dir, list) : P!EnabledIn(list, p)}
  BY DEF P!Register
<1>5. listeners' \in [Plugin -> Nat]
  <2>1. listeners' = [p \in Plugin |-> IF p \in serving THEN before[p] + 1 ELSE before[p]]
    BY DEF P!Register
  <2> HIDE DEF serving
  <2>2. \A p \in Plugin : (IF p \in serving THEN before[p] + 1 ELSE before[p]) \in Nat
    OBVIOUS
  <2> QED
    BY <2>1, <2>2
<1>6. \A p \in P!Scanned(dir, list) : /\ plugin(p).manifest = dir[p] /\ plugin(p).enabled = P!EnabledIn(list, p)
                                    /\ plugin(p).loaded = (p \in serving)
  OBVIOUS
<1>7. \A p \in P!Scanned(dir, list) : plugins'[p] = plugin(p)
  BY <1>1, <1>3
<1>8. \A p \in Plugin \ P!Scanned(dir, list) : plugins'[p] = None
  BY <1>3
<1> HIDE DEF plugin
<1>9. plugins' \in [Plugin -> P!Discovered \cup {None}]
  BY <1>2, <1>3
<1>10. P!Found'
  BY <1>1, <1>2, <1>6, <1>7, <1>8 DEF P!Found
<1>11. \A p \in load : p \in P!Scanned(dir, list) /\ plugins'[p] = plugin(p)
  BY <1>7
<1>12. \A p \in load : /\ plugins'[p] # None
                       /\ p \notin left \cup throwing => plugins'[p].loaded
  BY <1>2, <1>6, <1>11
<1> HIDE DEF serving
<1>13. handlers' \subseteq Plugin /\ merged' \subseteq Plugin
  BY <1>1, <1>4, PluginAssumption
<1>14. \A p \in merged' \ Bundled : plugins'[p] # None
  BY <1>2, <1>4, <1>7
<1>15. \A p \in P!Scanned(dir, list) :
         list[p] # None => plugins'[p] # None /\ plugins'[p].enabled /\ p \in merged'
  BY <1>2, <1>4, <1>6, <1>7 DEF P!EnabledIn
<1> QED
  BY <1>4, <1>5, <1>9, <1>10, <1>12, <1>13, <1>14, <1>15

\* What was enabled and left alone is taken by every scan.
LEMMA PluginTaken ==
  ASSUME NEW dir \in [Plugin -> Manifest \cup {None}], NEW list \in [Plugin -> P!Entry], NEW p \in Plugin \ Bundled,
         dir[p] # None, dir[p].signature # "bad", list[p] = P!ComputeManifestHash(dir[p], TRUE)
  PROVE  p \in P!Scanned(dir, list) /\ list[p] # None
<1>1. dir[p] \in Manifest /\ list[p] # None
  BY PluginAssumption
<1>2. P!VerifyManifestIntegrity(dir, list, p)
  BY <1>1 DEF P!VerifyManifestIntegrity, P!EnabledIn
<1> QED
  BY <1>1, <1>2 DEF P!Scanned

\* Registering serves what is enabled and was left alone.
LEMMA PluginServes ==
  ASSUME P!TypeOK, NEW dir \in [Plugin -> Manifest \cup {None}], NEW list \in [Plugin -> P!Entry],
         NEW load \in SUBSET P!Scanned(dir, list), NEW left \in SUBSET Plugin,
         NEW before \in [Plugin -> Nat], NEW throwing, P!Register(dir, list, load, left, before, throwing),
         v1' = dir, v2' = list, P!LeftAlone', v12' \subseteq Plugin,
         \A p \in v12' : p \in P!Scanned(dir, list) /\ list[p] # None => p \in load,
         left \subseteq v13', throwing \subseteq v13'
  PROVE  P!EnabledServes' /\ P!HandlersServe'
<1> DEFINE plugins == v3
           handlers == v4
           merged == v6
           granted == v12
<1>1. /\ \A p \in load : /\ plugins'[p] # None
                         /\ p \notin left \cup throwing => plugins'[p].loaded
      /\ handlers' = left \cup load
      /\ \A p \in P!Scanned(dir, list) :
           list[p] # None => plugins'[p] # None /\ plugins'[p].enabled /\ p \in merged'
  BY PluginRegistered
<1>2. \A p \in granted' : p \in P!Scanned(dir, list) /\ list[p] # None
  <2> SUFFICES ASSUME NEW p \in granted' PROVE p \in P!Scanned(dir, list) /\ list[p] # None
    OBVIOUS
  <2>1. p \in Plugin \ Bundled /\ dir[p] # None /\ dir[p].signature # "bad"
        /\ list[p] = P!ComputeManifestHash(dir[p], TRUE)
    BY DEF P!LeftAlone, P!ComputeManifestHash
  <2> QED
    BY <2>1, PluginTaken
<1>3. P!EnabledServes'
  BY <1>1, <1>2 DEF P!EnabledServes
<1>4. P!HandlersServe'
  BY <1>1 DEF P!HandlersServe
<1> QED
  BY <1>3, <1>4

\* reloadExternal()
LEMMA PluginReloaded ==
  ASSUME P!IInv, NEW dir \in [Plugin -> Manifest \cup {None}], NEW list \in [Plugin -> P!Entry],
         P!ReloadExternal(dir, list), v1' = dir, v2' = list, P!LeftAlone', v12' \subseteq Plugin
  PROVE  /\ v3' \in [Plugin -> P!Discovered \cup {None}] /\ v4' \subseteq Plugin
         /\ v5' \in [Plugin -> Nat] /\ v6' \subseteq Plugin /\ v13' \subseteq Plugin
         /\ P!Found' /\ P!EnabledServes' /\ P!HandlersServe'
         /\ \A p \in v6' \ Bundled : v3'[p] # None
<1> DEFINE listeners == v5
           granted == v12
           tainted == v13
<1>1. PICK throwing \in SUBSET P!Scanned(dir, list) :
        /\ P!Register(dir, list, P!Scanned(dir, list), P!HandlersLeft, listeners, throwing)
        /\ tainted' = tainted \cup throwing
  BY DEF P!ReloadExternal
<1>2. P!HandlersLeft \subseteq Plugin /\ P!HandlersLeft \subseteq tainted /\ listeners \in [Plugin -> Nat]
      /\ P!TypeOK /\ tainted \subseteq Plugin
  BY DEF P!IInv, P!HandlersLeft, P!HandlersServe, P!TypeOK
<1>3. PICK left \in SUBSET Plugin : left = P!HandlersLeft
  BY <1>2
<1>4. PICK before \in [Plugin -> Nat] : before = listeners
  BY <1>2
<1>5. PICK load \in SUBSET P!Scanned(dir, list) : load = P!Scanned(dir, list)
  OBVIOUS
<1>6. P!Register(dir, list, load, left, before, throwing)
  BY <1>1, <1>3, <1>4, <1>5
<1>7. left \subseteq tainted' /\ throwing \subseteq tainted' /\ tainted' \subseteq Plugin
  <2>1. P!Scanned(dir, list) \subseteq Plugin
    BY DEF P!Scanned
  <2> QED
    BY <1>1, <1>2, <1>3, <2>1
<1>8. \A p \in granted' : p \in P!Scanned(dir, list) /\ list[p] # None => p \in load
  BY <1>5
<1>9. P!EnabledServes' /\ P!HandlersServe'
  BY <1>2, <1>6, <1>7, <1>8, PluginServes
<1> QED
  BY <1>2, <1>6, <1>7, <1>9, PluginRegistered

\* Main reloads while the loads stay where they are, or one begins anew.
LEMMA PluginLoadsAfter ==
  ASSUME P!IInv, UNCHANGED <<v8, v10>>, v7' \in [Loader -> P!Loading], v14' = v14,
         \A k \in Loader : v7'[k].at \in {"code", "script"} => v7'[k].current \in Plugin,
         \A p \in v6' \ Bundled : v3'[p] # None,
         NEW l \in Loader, v7'[l].at \in {"reload", "clear", "manifest"}
  PROVE  P!LoadsGoOn' /\ P!FrontendsFollow'
<1> DEFINE loader == v7
<1>1. \A p : P!WillRegister(loader'[l], p)
  BY DEF P!WillRegister
<1>2. loader'[l] # P!Idle
  BY DEF P!Idle
<1>3. P!LoadsGoOn'
  <2>1. \A p : P!WillRegister(loader[l], p)' <=> P!WillRegister(loader'[l], p)
    BY DEF P!WillRegister
  <2> QED
    BY <1>1, <2>1 DEF P!IInv, P!LoadsGoOn
<1>4. P!FrontendsFollow'
  BY <1>2 DEF P!FrontendsFollow, P!Idle
<1> QED
  BY <1>3, <1>4

\* Once nothing is under way, nothing listed is unregistered.
LEMMA PluginFollows ==
  ASSUME P!LoadsGoOn
  PROVE  P!FrontendsFollow
<1>1. \A p : ~P!WillRegister(P!Idle, p)
  BY DEF P!WillRegister, P!Idle
<1> QED
  BY <1>1 DEF P!LoadsGoOn, P!FrontendsFollow

LEMMA PluginFollowsNext ==
  ASSUME P!LoadsGoOn'
  PROVE  P!FrontendsFollow'
<1> DEFINE loader == v7
<1>1. \A q : ~P!WillRegister(P!Idle, q)
  BY DEF P!WillRegister, P!Idle
<1>2. \A q, l : loader'[l] = P!Idle => ~P!WillRegister(loader[l], q)'
  BY <1>1 DEF P!WillRegister, P!Idle
<1> QED
  BY <1>2 DEF P!LoadsGoOn, P!FrontendsFollow, P!Idle

\* Main's part is left alone.
LEMMA PluginMainStays ==
  ASSUME P!IInv, UNCHANGED P!mainButUnread
  PROVE  P!LeftAlone' /\ P!Found' /\ P!EnabledServes' /\ P!HandlersServe'
BY DEF P!IInv, P!mainButUnread, P!LeftAlone, P!Found, P!EnabledServes, P!HandlersServe,
   P!ComputeManifestHash

LEMMA PluginEnableKeeps ==
  ASSUME P!IInv, NEW p \in Plugin, P!Enable(p)
  PROVE  /\ v1' = v1 /\ v14' = v14 /\ v2' \in [Plugin -> P!Entry] /\ v12' \subseteq Plugin
         /\ P!LeftAlone' /\ P!ReloadExternal(v1', v2')
<1> DEFINE disk == v1
           enabledList == v2
           plugins == v3
           granted == v12
           unread == v14
<1>1. P!TypeOK /\ plugins[p] # None /\ p \notin Bundled
  BY DEF P!IInv, P!Enable, P!External
<1>2. /\ plugins[p].manifest \in Manifest /\ plugins[p].manifest.signature # "bad"
      /\ disk' = disk /\ unread' = unread
  BY <1>1 DEF P!IInv, P!TypeOK, P!Discovered, P!Found, P!Enable
<1>3. P!EnableHash(p) \in P!Entry
  <2>1. PICK m \in Manifest : m = plugins[p].manifest
    BY <1>2
  <2>2. P!EnableHash(p) = P!ComputeManifestHash(m, TRUE)
    BY <2>1 DEF P!EnableHash
  <2> QED
    BY <2>1, <2>2 DEF P!Entry
<1>4. enabledList' = [enabledList EXCEPT ![p] = P!EnableHash(p)] /\ enabledList' \in [Plugin -> P!Entry]
  BY <1>1, <1>3 DEF P!Enable, P!TypeOK
<1>5. granted' = IF disk[p] = plugins[p].manifest THEN granted \cup {p} ELSE granted \ {p}
  BY DEF P!Enable
<1>6. granted' \subseteq Plugin
  BY <1>1, <1>5 DEF P!TypeOK
<1>7. P!LeftAlone'
  <2> SUFFICES ASSUME NEW q \in granted'
      PROVE /\ q \notin Bundled /\ disk[q] # None /\ disk[q].signature # "bad"
            /\ enabledList'[q] = P!ComputeManifestHash(disk[q], TRUE)
    BY <1>2 DEF P!LeftAlone, P!ComputeManifestHash
  <2>1. CASE q = p
    <3>1. disk[p] = plugins[p].manifest
      BY <1>5, <2>1
    <3>2. enabledList'[p] = P!EnableHash(p)
      BY <1>1, <1>4 DEF P!TypeOK
    <3> QED
      BY <1>1, <1>2, <2>1, <3>1, <3>2, PluginAssumption DEF P!EnableHash
  <2>2. CASE q # p
    <3>1. q \in granted /\ enabledList'[q] = enabledList[q]
      BY <1>1, <1>4, <1>5, <2>2 DEF P!TypeOK
    <3> QED
      BY <3>1 DEF P!IInv, P!LeftAlone
  <2> QED
    BY <2>1, <2>2
<1>8. P!ReloadExternal(disk, enabledList')
  BY <1>4 DEF P!Enable
<1> QED
  BY <1>2, <1>4, <1>6, <1>7, <1>8

LEMMA PluginDisableKeeps ==
  ASSUME P!IInv, NEW p \in Plugin, P!Disable(p)
  PROVE  /\ v1' = v1 /\ v14' = v14 /\ v2' \in [Plugin -> P!Entry] /\ v12' \subseteq Plugin
         /\ P!LeftAlone' /\ P!ReloadExternal(v1', v2')
<1> DEFINE disk == v1
           enabledList == v2
           granted == v12
           unread == v14
<1>1. enabledList' = [enabledList EXCEPT ![p] = None] /\ enabledList' \in [Plugin -> P!Entry]
      /\ disk' = disk /\ unread' = unread /\ granted' = granted \ {p} /\ granted' \subseteq Plugin
  BY DEF P!IInv, P!TypeOK, P!Disable, P!Entry
<1>2. \A q \in granted' : q \in granted /\ enabledList'[q] = enabledList[q]
  BY <1>1 DEF P!IInv, P!TypeOK
<1>3. P!LeftAlone'
  BY <1>1, <1>2 DEF P!IInv, P!LeftAlone, P!ComputeManifestHash
<1>4. P!ReloadExternal(disk, enabledList')
  BY <1>1 DEF P!Disable
<1> QED
  BY <1>1, <1>3, <1>4

LEMMA PluginToggleKeeps ==
  ASSUME P!IInv, NEW p \in Plugin, NEW l \in Loader, P!Toggle(p, l)
  PROVE  P!IInv'
<1> DEFINE disk == v1
           enabledList == v2
           plugins == v3
           handlers == v4
           listeners == v5
           merged == v6
           loader == v7
           loadedSet == v8
           ran == v9
           registered == v10
           ops == v11
           granted == v12
           tainted == v13
           unread == v14
<1>1. P!Enable(p) \/ P!Disable(p)
  BY DEF P!Toggle
<1>2. /\ disk' = disk /\ unread' = unread /\ enabledList' \in [Plugin -> P!Entry] /\ granted' \subseteq Plugin
      /\ P!LeftAlone' /\ P!ReloadExternal(disk', enabledList')
  BY <1>1, PluginEnableKeeps, PluginDisableKeeps
<1>3. PICK list \in [Plugin -> P!Entry] : list = enabledList'
  BY <1>2
<1>4. PICK dir \in [Plugin -> Manifest \cup {None}] : dir = disk
  BY DEF P!IInv, P!TypeOK
<1>5. P!ReloadExternal(dir, list) /\ disk' = dir /\ enabledList' = list
  BY <1>2, <1>3, <1>4
<1>6. /\ plugins' \in [Plugin -> P!Discovered \cup {None}] /\ handlers' \subseteq Plugin
      /\ listeners' \in [Plugin -> Nat] /\ merged' \subseteq Plugin /\ tainted' \subseteq Plugin
      /\ P!Found' /\ P!EnabledServes' /\ P!HandlersServe'
      /\ \A q \in merged' \ Bundled : plugins'[q] # None
  BY <1>2, <1>5, PluginReloaded
<1>7. loader' \in [Loader -> P!Loading] /\ loader'[l].at = "reload" /\ UNCHANGED <<loadedSet, ran, registered>>
  BY DEF P!Toggle, P!IInv, P!TypeOK, P!Loading
<1>8. ops' \in 0..PluginMaxOps
  BY PluginAssumption DEF P!Toggle, P!Op, P!IInv, P!TypeOK
<1>9. P!TypeOK'
  BY <1>2, <1>5, <1>6, <1>7, <1>8 DEF P!IInv, P!TypeOK
<1>11. \A k \in Loader : loader'[k].at \in {"code", "script"} => loader'[k].current \in Plugin
  BY DEF P!Toggle, P!IInv, P!TypeOK, P!Loading, P!LoadsGoOn
<1>10. P!LoadsGoOn' /\ P!FrontendsFollow'
  BY <1>2, <1>6, <1>7, <1>11, PluginLoadsAfter
<1> QED
  BY <1>2, <1>6, <1>9, <1>10 DEF P!IInv

LEMMA PluginInstallExampleKeeps ==
  ASSUME P!IInv, NEW p \in Plugin, P!InstallExample(p)
  PROVE  P!IInv'
<1> DEFINE disk == v1
           enabledList == v2
           plugins == v3
           handlers == v4
           listeners == v5
           merged == v6
           loader == v7
           loadedSet == v8
           ran == v9
           registered == v10
           ops == v11
           granted == v12
           tainted == v13
           unread == v14
<1>1. PICK dir \in [Plugin -> Manifest \cup {None}] :
        /\ dir = IF disk[p] = None THEN [disk EXCEPT ![p] = Example] ELSE disk
        /\ disk' = dir /\ P!ReloadExternal(dir, enabledList)
        /\ granted' = IF dir = disk THEN granted ELSE granted \ {p}
  <2>1. (IF disk[p] = None THEN [disk EXCEPT ![p] = Example] ELSE disk) \in [Plugin -> Manifest \cup {None}]
    BY PluginAssumption DEF P!IInv, P!TypeOK
  <2> QED
    BY <2>1 DEF P!InstallExample
<1>2. PICK list \in [Plugin -> P!Entry] : list = enabledList
  BY DEF P!IInv, P!TypeOK
<1>3. enabledList' = enabledList /\ UNCHANGED <<loader, loadedSet, ran, registered>>
      /\ unread' = unread \cup (merged' \ merged) /\ ops' \in 0..PluginMaxOps
  BY PluginAssumption DEF P!InstallExample, P!frontVars, P!Op, P!IInv, P!TypeOK
<1>4. granted' \subseteq granted /\ \A q \in granted' : dir[q] = disk[q]
  BY <1>1 DEF P!IInv, P!TypeOK
<1>5. P!LeftAlone' /\ granted' \subseteq Plugin
  BY <1>1, <1>3, <1>4 DEF P!IInv, P!TypeOK, P!LeftAlone, P!ComputeManifestHash
<1>6. /\ plugins' \in [Plugin -> P!Discovered \cup {None}] /\ handlers' \subseteq Plugin
      /\ listeners' \in [Plugin -> Nat] /\ merged' \subseteq Plugin /\ tainted' \subseteq Plugin
      /\ P!Found' /\ P!EnabledServes' /\ P!HandlersServe'
      /\ \A q \in merged' \ Bundled : plugins'[q] # None
  <2>1. P!ReloadExternal(dir, list) /\ disk' = dir /\ enabledList' = list
    BY <1>1, <1>2, <1>3
  <2> QED
    BY <1>5, <2>1, PluginReloaded
<1>7. P!TypeOK'
  BY <1>1, <1>3, <1>5, <1>6 DEF P!IInv, P!TypeOK
<1>8. P!LoadsGoOn'
  <2>1. \A q \in merged' \ (Bundled \cup unread') : q \in merged \ (Bundled \cup unread)
    BY <1>3
  <2>2. \A q, l : P!WillRegister(loader[l], q)' <=> P!WillRegister(loader[l], q)
    BY <1>3 DEF P!WillRegister
  <2> QED
    BY <1>3, <1>6, <2>1, <2>2 DEF P!IInv, P!LoadsGoOn
<1>9. P!FrontendsFollow'
  BY <1>8, PluginFollowsNext
<1> QED
  BY <1>5, <1>6, <1>7, <1>8, <1>9 DEF P!IInv

LEMMA PluginReloadButtonKeeps ==
  ASSUME P!IInv, NEW l \in Loader, P!ReloadButton(l)
  PROVE  P!IInv'
<1> DEFINE plugins == v3
           merged == v6
           loader == v7
           loadedSet == v8
           ran == v9
           registered == v10
           ops == v11
<1>1. UNCHANGED P!mainVars /\ UNCHANGED <<loadedSet, ran, registered>>
  BY DEF P!ReloadButton
<1>2. loader' \in [Loader -> P!Loading] /\ loader'[l].at = "reload"
  BY DEF P!ReloadButton, P!IInv, P!TypeOK, P!Loading
<1>3. ops' \in 0..PluginMaxOps
  BY PluginAssumption DEF P!ReloadButton, P!Op, P!IInv, P!TypeOK
<1>4. P!TypeOK'
  BY <1>1, <1>2, <1>3 DEF P!IInv, P!TypeOK, P!mainVars, P!mainButUnread
<1>5. \A p \in merged' \ Bundled : plugins'[p] # None
  BY <1>1 DEF P!IInv, P!LoadsGoOn, P!mainVars, P!mainButUnread
<1>7. \A k \in Loader : loader'[k].at \in {"code", "script"} => loader'[k].current \in Plugin
  BY DEF P!ReloadButton, P!IInv, P!TypeOK, P!Loading, P!LoadsGoOn
<1>6. P!LoadsGoOn' /\ P!FrontendsFollow'
  BY <1>1, <1>2, <1>5, <1>7, PluginLoadsAfter DEF P!mainVars
<1> QED
  BY <1>1, <1>4, <1>6, PluginMainStays DEF P!IInv, P!mainVars

LEMMA PluginEditDiskKeeps ==
  ASSUME P!IInv, NEW p \in Plugin, NEW manifest \in Manifest \cup {None}, P!EditDisk(p, manifest)
  PROVE  P!IInv'
<1> DEFINE disk == v1
           enabledList == v2
           plugins == v3
           handlers == v4
           listeners == v5
           merged == v6
           loader == v7
           loadedSet == v8
           ran == v9
           registered == v10
           ops == v11
           granted == v12
           tainted == v13
           unread == v14
<1>1. /\ disk' = [disk EXCEPT ![p] = manifest] /\ disk' \in [Plugin -> Manifest \cup {None}]
      /\ granted' = granted \ {p} /\ granted' \subseteq Plugin
      /\ UNCHANGED <<enabledList, plugins, handlers, listeners, merged, tainted, unread,
                     loader, loadedSet, ran, registered>>
  BY DEF P!EditDisk, P!frontVars, P!IInv, P!TypeOK
<1>2. ops' \in 0..PluginMaxOps
  BY PluginAssumption DEF P!EditDisk, P!Op, P!IInv, P!TypeOK
<1>3. P!TypeOK'
  BY <1>1, <1>2 DEF P!IInv, P!TypeOK
<1>4. \A q \in granted' : q \in granted /\ disk'[q] = disk[q]
  BY <1>1 DEF P!IInv, P!TypeOK
<1>5. P!LeftAlone'
  BY <1>1, <1>4 DEF P!IInv, P!LeftAlone, P!ComputeManifestHash
<1>6. P!Found' /\ P!HandlersServe' /\ P!EnabledServes'
  BY <1>1, <1>4 DEF P!IInv, P!Found, P!HandlersServe, P!EnabledServes
<1>7. P!LoadsGoOn'
  BY <1>1 DEF P!IInv, P!LoadsGoOn, P!WillRegister
<1>8. P!FrontendsFollow'
  BY <1>7, PluginFollowsNext
<1> QED
  BY <1>3, <1>5, <1>6, <1>7, <1>8 DEF P!IInv

LEMMA PluginRestartKeeps ==
  ASSUME P!IInv, P!Restart
  PROVE  P!IInv'
<1> DEFINE disk == v1
           enabledList == v2
           plugins == v3
           handlers == v4
           listeners == v5
           merged == v6
           loader == v7
           loadedSet == v8
           ran == v9
           registered == v10
           ops == v11
           granted == v12
           tainted == v13
           unread == v14
<1>1. PICK dir \in [Plugin -> Manifest \cup {None}] : dir = disk
  BY DEF P!IInv, P!TypeOK
<1>2. PICK list \in [Plugin -> P!Entry] : list = enabledList
  BY DEF P!IInv, P!TypeOK
<1>3. PICK before \in [Plugin -> Nat] : before = [p \in Plugin |-> 0]
  OBVIOUS
<1>4. PICK load \in SUBSET P!Scanned(dir, list) :
        load = {p \in P!Scanned(dir, list) : P!EnabledIn(list, p)}
  OBVIOUS
<1>5. PICK throwing \in SUBSET load : P!Register(dir, list, load, {}, before, throwing) /\ tainted' = throwing
  BY <1>1, <1>2, <1>3, <1>4 DEF P!Restart
<1>6. /\ disk' = dir /\ enabledList' = list /\ granted' = granted /\ unread' = unread
      /\ loadedSet' = {} /\ ran' = {} /\ registered' = {} /\ ops' \in 0..PluginMaxOps
  BY <1>1, <1>2, PluginAssumption DEF P!Restart, P!Op, P!IInv, P!TypeOK
<1>7. P!LeftAlone' /\ granted' \subseteq Plugin
  BY <1>1, <1>2, <1>6 DEF P!IInv, P!LeftAlone, P!TypeOK, P!ComputeManifestHash
<1>8. /\ plugins' \in [Plugin -> P!Discovered \cup {None}] /\ handlers' \subseteq Plugin
      /\ listeners' \in [Plugin -> Nat] /\ merged' \subseteq Plugin /\ P!Found'
      /\ \A p \in merged' \ Bundled : plugins'[p] # None
  BY <1>5, PluginRegistered DEF P!IInv
<1>9. \A p \in granted' : p \in P!Scanned(dir, list) /\ list[p] # None => p \in load
  BY <1>4 DEF P!EnabledIn
<1>10. P!EnabledServes' /\ P!HandlersServe'
  BY <1>5, <1>6, <1>7, <1>9, PluginServes DEF P!IInv
<1>11. PICK l \in Loader : loader' = [[k \in Loader |-> P!Idle] EXCEPT ![l].at = "manifest"]
  BY DEF P!Restart
<1>12. P!Idle \in P!Loading
  BY DEF P!Idle, P!Loading
<1>13. loader' \in [Loader -> P!Loading] /\ loader'[l].at = "manifest"
  BY <1>11, <1>12 DEF P!Loading
<1>14. P!TypeOK'
  <2>1. tainted' \subseteq Plugin
    BY <1>5 DEF P!Scanned
  <2> QED
    BY <1>6, <1>7, <1>8, <1>13, <2>1 DEF P!IInv, P!TypeOK
<1>15. P!LoadsGoOn'
  <2>2. \A k \in Loader : loader'[k].at \in {"code", "script"} => loader'[k].current \in Plugin
    BY <1>11, <1>12 DEF P!Idle
  <2>1. \A p : P!WillRegister(loader[l], p)'
    BY <1>13 DEF P!WillRegister
  <2> QED
    BY <1>6, <1>8, <2>1, <2>2 DEF P!LoadsGoOn
<1>16. P!FrontendsFollow'
  BY <1>15, PluginFollowsNext
<1> QED
  BY <1>7, <1>8, <1>10, <1>14, <1>15, <1>16 DEF P!IInv

LEMMA PluginLoaderReloadsKeeps ==
  ASSUME P!IInv, NEW l \in Loader, P!LoaderReloads(l)
  PROVE  P!IInv'
<1> DEFINE disk == v1
           enabledList == v2
           plugins == v3
           handlers == v4
           listeners == v5
           merged == v6
           loader == v7
           loadedSet == v8
           ran == v9
           registered == v10
           ops == v11
           granted == v12
           tainted == v13
           unread == v14
<1>1. PICK dir \in [Plugin -> Manifest \cup {None}] : dir = disk
  BY DEF P!IInv, P!TypeOK
<1>2. PICK list \in [Plugin -> P!Entry] : list = enabledList
  BY DEF P!IInv, P!TypeOK
<1>3. P!ReloadExternal(dir, list) /\ disk' = dir /\ enabledList' = list
      /\ UNCHANGED <<granted, unread, loadedSet, ran, registered, ops>>
  BY <1>1, <1>2 DEF P!LoaderReloads
<1>4. P!LeftAlone' /\ granted' \subseteq Plugin
  BY <1>1, <1>2, <1>3 DEF P!IInv, P!LeftAlone, P!TypeOK, P!ComputeManifestHash
<1>5. /\ plugins' \in [Plugin -> P!Discovered \cup {None}] /\ handlers' \subseteq Plugin
      /\ listeners' \in [Plugin -> Nat] /\ merged' \subseteq Plugin /\ tainted' \subseteq Plugin
      /\ P!Found' /\ P!EnabledServes' /\ P!HandlersServe'
      /\ \A q \in merged' \ Bundled : plugins'[q] # None
  BY <1>3, <1>4, PluginReloaded
<1>6. loader' \in [Loader -> P!Loading] /\ loader'[l].at = "clear"
  BY DEF P!LoaderReloads, P!IInv, P!TypeOK, P!Loading
<1>7. P!TypeOK'
  BY <1>3, <1>4, <1>5, <1>6 DEF P!IInv, P!TypeOK
<1>9. \A k \in Loader : loader'[k].at \in {"code", "script"} => loader'[k].current \in Plugin
  BY DEF P!LoaderReloads, P!IInv, P!TypeOK, P!Loading, P!LoadsGoOn
<1>8. P!LoadsGoOn' /\ P!FrontendsFollow'
  BY <1>3, <1>5, <1>6, <1>9, PluginLoadsAfter
<1> QED
  BY <1>4, <1>5, <1>7, <1>8 DEF P!IInv

LEMMA PluginLoaderClearsKeeps ==
  ASSUME P!IInv, NEW l \in Loader, P!LoaderClears(l)
  PROVE  P!IInv'
<1> DEFINE loader == v7
           loadedSet == v8
           ran == v9
           registered == v10
           ops == v11
<1>1. UNCHANGED P!mainVars /\ UNCHANGED <<ran, registered, ops>> /\ loadedSet' = {}
  BY DEF P!LoaderClears
<1>2. loader' \in [Loader -> P!Loading] /\ loader'[l].at = "manifest"
  <2>1. loader' = [k \in Loader |->
                     IF k = l THEN [P!Idle EXCEPT !.at = "manifest"]
                     ELSE [loader[k] EXCEPT !.revoked = @ \/ loader[k].at = "script"]]
    BY DEF P!LoaderClears
  <2>2. [P!Idle EXCEPT !.at = "manifest"] \in P!Loading /\ [P!Idle EXCEPT !.at = "manifest"].at = "manifest"
    BY DEF P!Idle, P!Loading
  <2>3. \A k \in Loader : [loader[k] EXCEPT !.revoked = @ \/ loader[k].at = "script"] \in P!Loading
    BY DEF P!IInv, P!TypeOK, P!Loading
  <2> QED
    BY <2>1, <2>2, <2>3
<1>3. P!TypeOK'
  BY <1>1, <1>2 DEF P!IInv, P!TypeOK, P!mainVars, P!mainButUnread
<1>4. P!LoadsGoOn'
  <2>2. \A k \in Loader : loader'[k].at \in {"code", "script"} => loader'[k].current \in Plugin
    <3>1. loader' = [k \in Loader |->
                       IF k = l THEN [P!Idle EXCEPT !.at = "manifest"]
                       ELSE [loader[k] EXCEPT !.revoked = @ \/ loader[k].at = "script"]]
      BY DEF P!LoaderClears
    <3>2. \A k \in Loader \ {l} : loader'[k].at = loader[k].at /\ loader'[k].current = loader[k].current
      BY <3>1 DEF P!IInv, P!TypeOK, P!Loading
    <3> QED
      BY <1>2, <3>2 DEF P!IInv, P!LoadsGoOn
  <2>1. \A p : P!WillRegister(loader[l], p)'
    BY <1>2 DEF P!WillRegister
  <2> QED
    BY <1>1, <2>1, <2>2 DEF P!IInv, P!LoadsGoOn, P!mainVars, P!mainButUnread
<1>5. P!FrontendsFollow'
  BY <1>4, PluginFollowsNext
<1> QED
  BY <1>1, <1>3, <1>4, <1>5, PluginMainStays DEF P!IInv, P!mainVars

\* One load moves on, from a record to another.
LEMMA PluginLoadMoves ==
  ASSUME P!IInv, NEW l \in Loader, NEW to \in P!Loading, v7' = [v7 EXCEPT ![l] = to],
         UNCHANGED P!mainButUnread, v14 \subseteq v14', v14' \subseteq Plugin,
         UNCHANGED v11, v9' \subseteq Plugin,
         to.at \in {"code", "script"} => to.current \in Plugin,
         v10 \subseteq v10', v10' \subseteq Plugin, v8' \subseteq v10',
         \A p \in v6 \ (Bundled \cup v14') :
           P!WillRegister(v7[l], p) => P!WillRegister(to, p) \/ p \in v10'
  PROVE  P!IInv'
<1> DEFINE plugins == v3
           merged == v6
           loader == v7
           registered == v10
           unread == v14
<1>1. P!TypeOK'
  BY DEF P!IInv, P!TypeOK, P!mainButUnread
<1>2. loader'[l] = to /\ \A k \in Loader \ {l} : loader'[k] = loader[k]
  BY DEF P!IInv, P!TypeOK
<1>3. P!LoadsGoOn'
  <2>1. \A p, k : P!WillRegister(loader[k], p)' <=> P!WillRegister(loader'[k], p)
    BY DEF P!WillRegister
  <2>2. merged' = merged /\ plugins' = plugins
    BY DEF P!mainButUnread
  <2>4. \A k \in Loader : loader'[k].at \in {"code", "script"} => loader'[k].current \in Plugin
    BY <1>2 DEF P!IInv, P!LoadsGoOn
  <2>3. ASSUME NEW p \in merged \ (Bundled \cup unread'), p \notin registered'
        PROVE  \E k \in Loader : P!WillRegister(loader'[k], p)
    <3>1. PICK k \in Loader : P!WillRegister(loader[k], p)
      BY <2>3 DEF P!IInv, P!LoadsGoOn
    <3>2. CASE k = l
      BY <1>2, <2>3, <3>1, <3>2
    <3>3. CASE k # l
      BY <1>2, <3>1, <3>3
    <3> QED
      BY <3>2, <3>3
  <2> QED
    BY <2>1, <2>2, <2>3, <2>4 DEF P!IInv, P!LoadsGoOn
<1>4. P!FrontendsFollow'
  BY <1>3, PluginFollowsNext
<1> QED
  BY <1>1, <1>3, <1>4, PluginMainStays DEF P!IInv

LEMMA PluginLoaderReadsKeeps ==
  ASSUME P!IInv, NEW l \in Loader, P!LoaderReads(l)
  PROVE  P!IInv'
<1> DEFINE merged == v6
           loader == v7
           loadedSet == v8
           ran == v9
           registered == v10
           ops == v11
           unread == v14
<1>1. UNCHANGED P!mainButUnread /\ unread' = {} /\ UNCHANGED <<loadedSet, ran, registered, ops>>
  BY DEF P!LoaderReads
<1>2. loader' \in [Loader -> P!Loading] /\ loader'[l].at = "next" /\ loader'[l].todo = merged \ Bundled
  BY DEF P!LoaderReads, P!IInv, P!TypeOK, P!Loading
<1>3. P!TypeOK'
  BY <1>1, <1>2 DEF P!IInv, P!TypeOK, P!mainButUnread
<1>4. P!LoadsGoOn'
  <2>2. \A k \in Loader : loader'[k].at \in {"code", "script"} => loader'[k].current \in Plugin
    BY DEF P!LoaderReads, P!IInv, P!TypeOK, P!Loading, P!LoadsGoOn
  <2>1. \A p \in merged' \ Bundled : P!WillRegister(loader[l], p)'
    BY <1>1, <1>2 DEF P!WillRegister, P!mainButUnread
  <2> QED
    BY <1>1, <2>1, <2>2 DEF P!IInv, P!LoadsGoOn, P!mainButUnread
<1>5. P!FrontendsFollow'
  BY <1>4, PluginFollowsNext
<1> QED
  BY <1>1, <1>3, <1>4, <1>5, PluginMainStays DEF P!IInv

LEMMA PluginLoaderNextKeeps ==
  ASSUME P!IInv, NEW l \in Loader, P!LoaderNext(l)
  PROVE  P!IInv'
<1> DEFINE loader == v7
           loadedSet == v8
           ran == v9
           registered == v10
           ops == v11
           unread == v14
<1>1. UNCHANGED P!mainVars /\ UNCHANGED <<loadedSet, ran, registered, ops>> /\ loader[l].at = "next"
  BY Zenon DEF P!LoaderNext
<1>2. loader[l] \in P!Loading /\ loader \in [Loader -> P!Loading] /\ loadedSet \subseteq registered
      /\ registered \subseteq Plugin /\ ran \subseteq Plugin /\ unread \subseteq Plugin
  BY DEF P!IInv, P!TypeOK, P!LoadsGoOn
<1>3. CASE loader[l].todo = {} /\ loader' = [loader EXCEPT ![l] = P!Idle]
  <2>1. P!Idle \in P!Loading /\ \A p : ~P!WillRegister(loader[l], p)
    BY <1>1, <1>3 DEF P!Idle, P!Loading, P!WillRegister
  <2>2. PICK to \in P!Loading : to = P!Idle /\ to.at = "idle"
    BY <2>1 DEF P!Idle
  <2> QED
    BY <1>1, <1>2, <1>3, <2>1, <2>2, PluginLoadMoves DEF P!mainVars
<1>4. CASE \E p \in loader[l].todo :
             loader' = [loader EXCEPT
               ![l].todo = @ \ {p}, ![l].current = p,
               ![l].at = IF p \in loadedSet THEN "next" ELSE "code"]
  <2>1. PICK p \in loader[l].todo :
          loader' = [loader EXCEPT
            ![l].todo = @ \ {p}, ![l].current = p,
            ![l].at = IF p \in loadedSet THEN "next" ELSE "code"]
    BY Zenon, <1>4
  <2>2. PICK to : to = [loader[l] EXCEPT !.todo = @ \ {p}, !.current = p,
                                         !.at = IF p \in loadedSet THEN "next" ELSE "code"]
    OBVIOUS
  <2>3. to \in P!Loading /\ to.todo = loader[l].todo \ {p} /\ to.current = p
        /\ to.at = IF p \in loadedSet THEN "next" ELSE "code"
    BY <1>2, <2>2 DEF P!Loading
  <2>4. loader' = [loader EXCEPT ![l] = to]
    BY <1>2, <2>1, <2>2
  <2>6. p \in Plugin
    BY <1>2, <2>1 DEF P!Loading
  <2>5. \A q : P!WillRegister(loader[l], q) => P!WillRegister(to, q) \/ q \in registered
    BY <1>1, <1>2, <2>3 DEF P!WillRegister
  <2> QED
    BY <1>1, <1>2, <2>3, <2>4, <2>5, <2>6, PluginLoadMoves DEF P!mainVars
<1> QED
  BY Zenon, <1>3, <1>4 DEF P!LoaderNext

LEMMA PluginLoaderGetsCodeKeeps ==
  ASSUME P!IInv, NEW l \in Loader, P!LoaderGetsCode(l)
  PROVE  P!IInv'
<1> DEFINE disk == v1
           plugins == v3
           merged == v6
           loader == v7
           loadedSet == v8
           ran == v9
           registered == v10
           ops == v11
           unread == v14
<1>1. UNCHANGED P!mainButUnread /\ UNCHANGED <<loadedSet, ran, registered, ops>> /\ loader[l].at = "code"
  BY DEF P!LoaderGetsCode
<1>2. loader[l] \in P!Loading /\ loader \in [Loader -> P!Loading] /\ loadedSet \subseteq registered
      /\ registered \subseteq Plugin /\ ran \subseteq Plugin
  BY DEF P!IInv, P!TypeOK, P!LoadsGoOn
<1>3. PICK p : p = loader[l].current
  OBVIOUS
<1>4. unread' = (IF disk[p] = None THEN unread \cup {p} ELSE unread)
  BY <1>3 DEF P!LoaderGetsCode
<1>5. PICK to : to = [loader[l] EXCEPT !.at = IF plugins[p] # None /\ disk[p] # None THEN "script" ELSE "next",
                                       !.revoked = FALSE]
  OBVIOUS
<1>6. to \in P!Loading /\ to.todo = loader[l].todo /\ to.current = p /\ ~to.revoked
      /\ to.at = IF plugins[p] # None /\ disk[p] # None THEN "script" ELSE "next"
  BY <1>2, <1>3, <1>5 DEF P!Loading
<1>7. loader' = [loader EXCEPT ![l] = to]
  BY <1>2, <1>3, <1>5 DEF P!LoaderGetsCode
<1>8. \A q \in merged \ (Bundled \cup unread') : P!WillRegister(loader[l], q) => P!WillRegister(to, q)
  <2>1. \A q \in merged \ Bundled : plugins[q] # None
    BY DEF P!IInv, P!LoadsGoOn
  <2> QED
    BY <1>1, <1>3, <1>4, <1>6, <2>1 DEF P!WillRegister
<1>10. p \in Plugin
  BY <1>1, <1>3 DEF P!IInv, P!LoadsGoOn
<1>9. unread \subseteq unread' /\ unread' \subseteq Plugin
  BY <1>4, <1>10 DEF P!IInv, P!TypeOK
<1> QED
  BY <1>1, <1>2, <1>6, <1>7, <1>8, <1>9, <1>10, PluginLoadMoves

LEMMA PluginScriptRunsKeeps ==
  ASSUME P!IInv, NEW l \in Loader, P!ScriptRuns(l)
  PROVE  P!IInv'
<1> DEFINE loader == v7
           loadedSet == v8
           ran == v9
           registered == v10
           ops == v11
           unread == v14
<1>1. PICK p : p = loader[l].current
  OBVIOUS
<1>2. /\ UNCHANGED P!mainVars /\ UNCHANGED ops /\ loader[l].at = "script" /\ ran' = ran \cup {p}
      /\ loadedSet' = loadedSet \cup {p} /\ registered' = registered \cup {p}
  BY <1>1 DEF P!ScriptRuns, P!RegisterFromWindow
<1>3. loader[l] \in P!Loading /\ loader \in [Loader -> P!Loading] /\ loadedSet \subseteq registered
      /\ registered \subseteq Plugin /\ ran \subseteq Plugin
  BY DEF P!IInv, P!TypeOK, P!LoadsGoOn
<1>4. PICK to : to = [loader[l] EXCEPT !.at = "next"]
  OBVIOUS
<1>5. to \in P!Loading /\ to.todo = loader[l].todo /\ to.at = "next"
  BY <1>3, <1>4 DEF P!Loading
<1>6. loader' = [loader EXCEPT ![l] = to]
  BY <1>3, <1>4 DEF P!ScriptRuns, P!RegisterFromWindow
<1>8. p \in Plugin
  BY <1>1, <1>2 DEF P!IInv, P!LoadsGoOn
<1>9. unread \subseteq Plugin
  BY DEF P!IInv, P!TypeOK
<1>7. \A q : P!WillRegister(loader[l], q) => P!WillRegister(to, q) \/ q \in registered'
  BY <1>1, <1>2, <1>5 DEF P!WillRegister
<1> QED
  BY <1>2, <1>3, <1>5, <1>6, <1>7, <1>8, <1>9, PluginLoadMoves DEF P!mainVars

LEMMA PluginScriptFailsKeeps ==
  ASSUME P!IInv, NEW l \in Loader, P!ScriptFails(l)
  PROVE  P!IInv'
<1> DEFINE loader == v7
           loadedSet == v8
           ran == v9
           registered == v10
           ops == v11
           unread == v14
<1>1. UNCHANGED P!mainVars /\ UNCHANGED <<loadedSet, ran, registered, ops>> /\ loader[l].at = "script"
      /\ loader[l].revoked
  BY DEF P!ScriptFails
<1>2. loader[l] \in P!Loading /\ loader \in [Loader -> P!Loading] /\ loadedSet \subseteq registered
      /\ registered \subseteq Plugin /\ ran \subseteq Plugin
  BY DEF P!IInv, P!TypeOK, P!LoadsGoOn
<1>3. PICK to : to = [loader[l] EXCEPT !.at = "next"]
  OBVIOUS
<1>4. to \in P!Loading /\ to.todo = loader[l].todo /\ to.at = "next"
  BY <1>2, <1>3 DEF P!Loading
<1>5. loader' = [loader EXCEPT ![l] = to]
  BY <1>2, <1>3 DEF P!ScriptFails
<1>6. \A q : P!WillRegister(loader[l], q) => P!WillRegister(to, q)
  BY <1>1, <1>4 DEF P!WillRegister
<1>7. unread \subseteq Plugin
  BY DEF P!IInv, P!TypeOK
<1> QED
  BY <1>1, <1>2, <1>4, <1>5, <1>6, <1>7, PluginLoadMoves DEF P!mainVars

LEMMA PluginInitHolds ==
  ASSUME P!Init
  PROVE  P!IInv
<1> DEFINE disk == v1
           enabledList == v2
           plugins == v3
           handlers == v4
           listeners == v5
           merged == v6
           loader == v7
           loadedSet == v8
           ops == v11
           granted == v12
           tainted == v13
           unread == v14
<1>1. PICK manifests \in [Plugin -> Manifest \cup {None}] : P!NothingOn(manifests)
  BY DEF P!Init
<1>2. PICK l \in Loader : loader = [[k \in Loader |-> P!Idle] EXCEPT ![l].at = "manifest"]
  BY DEF P!Init
<1>3. P!Idle \in P!Loading
  BY DEF P!Idle, P!Loading
<1>4. loader \in [Loader -> P!Loading] /\ loader[l].at = "manifest"
  BY <1>2, <1>3 DEF P!Loading
<1>5. plugins \in [Plugin -> P!Discovered \cup {None}] /\ P!Found
  <2> DEFINE off(p) == manifests[p] = None \/ p \in Bundled \/ manifests[p].signature = "bad"
             plugin(p) == [manifest |-> manifests[p], enabled |-> FALSE, loaded |-> FALSE]
  <2>1. plugins = [p \in Plugin |-> IF off(p) THEN None ELSE plugin(p)]
    BY <1>1 DEF P!NothingOn
  <2>2. \A p \in Plugin : ~off(p) => plugin(p) \in P!Discovered
    BY DEF P!Discovered
  <2>3. plugins \in [Plugin -> P!Discovered \cup {None}]
    BY <2>1, <2>2
  <2>4. \A p \in Plugin : plugins[p] # None => ~off(p) /\ plugins[p].manifest = manifests[p]
    BY <2>1
  <2> QED
    BY <2>3, <2>4 DEF P!Found
<1>6. P!TypeOK
  <2>1. ops \in 0..PluginMaxOps
    BY PluginAssumption DEF P!Init
  <2>2. listeners \in [Plugin -> Nat] /\ enabledList \in [Plugin -> P!Entry]
    BY Zenon, <1>1 DEF P!NothingOn, P!Entry
  <2>3. disk = manifests /\ handlers = {} /\ merged = Bundled /\ granted = {} /\ tainted = {} /\ unread = {}
    BY <1>1 DEF P!NothingOn
  <2> QED
    BY <1>4, <1>5, <2>1, <2>2, <2>3, PluginAssumption DEF P!Init, P!TypeOK
<1>7. P!LeftAlone /\ P!EnabledServes /\ P!HandlersServe
  BY <1>1 DEF P!NothingOn, P!LeftAlone, P!EnabledServes, P!HandlersServe
<1>8. P!LoadsGoOn
  <2>1. \A k \in Loader : loader[k].at \notin {"code", "script"}
    BY <1>2, <1>3 DEF P!Idle
  <2>2. merged = Bundled /\ loadedSet = {}
    BY <1>1 DEF P!Init, P!NothingOn
  <2> QED
    BY <2>1, <2>2 DEF P!LoadsGoOn
<1>9. P!FrontendsFollow
  BY <1>8, PluginFollows
<1> QED
  BY <1>5, <1>6, <1>7, <1>8, <1>9 DEF P!IInv

LEMMA PluginStutterStep ==
  ASSUME P!IInv, UNCHANGED P!vars
  PROVE  P!IInv'
<1> DEFINE ops == v11
<1>1. UNCHANGED P!mainVars /\ UNCHANGED P!frontVars /\ UNCHANGED ops
  BY DEF P!vars
<1>2. P!TypeOK'
  BY <1>1 DEF P!IInv, P!TypeOK, P!mainVars, P!mainButUnread, P!frontVars
<1>3. P!LoadsGoOn'
  BY <1>1 DEF P!IInv, P!LoadsGoOn, P!WillRegister, P!mainVars, P!mainButUnread, P!frontVars
<1>4. P!FrontendsFollow'
  BY <1>3, PluginFollowsNext
<1> QED
  BY <1>1, <1>2, <1>3, <1>4, PluginMainStays DEF P!IInv, P!mainVars

LEMMA PluginNextStep ==
  ASSUME P!IInv, P!Next
  PROVE  P!IInv'
<1>1. CASE \E p \in Plugin, l \in Loader : P!Toggle(p, l)
  BY <1>1, PluginToggleKeeps
<1>2. CASE \E p \in Plugin : \/ P!InstallExample(p)
                             \/ \E m \in Manifest \cup {None} : P!EditDisk(p, m)
  BY <1>2, PluginInstallExampleKeeps, PluginEditDiskKeeps
<1>3. CASE P!Restart
  BY <1>3, PluginRestartKeeps
<1>4. CASE \E l \in Loader : \/ P!ReloadButton(l) \/ P!LoaderReloads(l) \/ P!LoaderClears(l)
                             \/ P!LoaderReads(l) \/ P!LoaderNext(l)
  BY <1>4, PluginReloadButtonKeeps, PluginLoaderReloadsKeeps, PluginLoaderClearsKeeps,
     PluginLoaderReadsKeeps, PluginLoaderNextKeeps
<1>5. CASE \E l \in Loader : P!LoaderGetsCode(l) \/ P!ScriptRuns(l) \/ P!ScriptFails(l)
  BY <1>5, PluginLoaderGetsCodeKeeps, PluginScriptRunsKeeps, PluginScriptFailsKeeps
<1> QED
  BY <1>1, <1>2, <1>3, <1>4, <1>5 DEF P!Next

-----------------------------------------------------------------------------
\* Requests about remote files: what a move deletes is never all there is.

\* A name that is free exists, and AvoidDuplicateName() takes one.
LEMMA FilesFreeName ==
  ASSUME NEW dir, NEW from \in Nat, \E i \in from..RemoteMaxOps : ~R!Exists(<<dir, i>>)
  PROVE  \E i \in from..RemoteMaxOps :
           R!AvoidDuplicateName(dir, from) = <<dir, i>> /\ ~R!Exists(<<dir, i>>)
<1> DEFINE S == {i \in from..RemoteMaxOps : ~R!Exists(<<dir, i>>)}
<1>1. S \subseteq Nat /\ S # {}
  BY RemoteAssumption
<1> HIDE DEF S
<1>2. PICK x \in S : \A y \in S : ~(<<y, x>> \in OpToRel(<, Nat))
  BY Zenon, <1>1, NatLessThanWellFounded, WFMin
<1>3. \A y \in S : x <= y
  <2> SUFFICES ASSUME NEW y \in S, ~(x <= y) PROVE FALSE
    OBVIOUS
  <2>1. y \in Nat /\ x \in Nat /\ y < x
    BY <1>1
  <2>2. <<y, x>> \in {ss \in Nat \X Nat : ss[1] < ss[2]}
    BY <2>1
  <2> QED
    BY <1>2, <2>2 DEF OpToRel
<1>4. R!Min(S) \in S
  BY <1>3 DEF R!Min
<1> QED
  BY <1>4 DEF S, R!AvoidDuplicateName

LEMMA FilesRecordType ==
  ASSUME NEW r \in R!Requests
  PROVE  /\ [r EXCEPT !.touched = TRUE] \in R!Requests
         /\ \A at \in {"probe", "rename", "list", "copy", "remove", "write", "done"} : [r EXCEPT !.at = at] \in R!Requests
         /\ R!Idle \in R!Requests
BY Zenon DEF R!Requests, R!Idle, R!Nowhere

LEMMA FilesLeftType ==
  ASSUME NEW r \in R!Requests, NEW left \in SUBSET RemotePart
  PROVE  LET more == [r EXCEPT !.left = left]
         IN  /\ more \in R!Requests /\ more.kind = r.kind /\ more.at = r.at /\ more.dir = r.dir
             /\ more.src = r.src /\ more.dst = r.dst /\ more.left = left /\ more.touched = r.touched
BY Zenon DEF R!Requests

\* Who reads from a place, or has chosen it, takes notice; the others do not change.
LEMMA FilesNotedOthers ==
  ASSUME R!TypeOK, NEW q, NEW place, NEW mine, R!Noted(q, place, mine), mine \in R!Requests
  PROVE  /\ v3' \in [RemoteRequest -> R!Requests]
         /\ \A r \in RemoteRequest \ {q} :
              \/ v3'[r] = v3[r] /\ place # v3[r].src /\ place # v3[r].dst
              \/ v3'[r] = [v3[r] EXCEPT !.touched = TRUE]
         /\ q \in RemoteRequest => v3'[q] = mine
BY FilesRecordType DEF R!TypeOK, R!Noted

\* A step that leaves the files alone and dooms nothing that is there.
LEMMA FilesKeptByOthers ==
  ASSUME R!Kept, UNCHANGED <<v2, v5>>, v6 \subseteq v6',
         \A w \in R!Place, p \in RemotePart : v2[w][p] # 0 /\ R!Doomed(w, p)' => R!Doomed(w, p),
         R!TypeOK
  PROVE  R!Kept'
BY DEF R!Kept, R!TypeOK

\* Steps that only change what one request knows.
LEMMA FilesOneRequest ==
  ASSUME R!IInv, NEW q \in RemoteRequest, NEW new \in R!Requests,
         v3' = [v3 EXCEPT ![q] = new],
         UNCHANGED <<v1, v2, v5, v6>>, v4' \in 0..RemoteMaxOps,
         /\ new.at # "done" => new.kind # "none" /\ new.dir \in RemoteDir
         /\ new.at \notin {"probe", "done"} => new.dst \in R!Place
         /\ new.kind \in {"copy", "move"} => new.src \in R!Place
         /\ new.at \in {"list", "copy"} => new.kind \in {"copy", "move"}
         /\ new.at \in {"rename", "remove"} => new.kind = "move",
         ~new.touched =>
           /\ new.at \in {"rename", "list", "write"} => v2[new.dst] = R!Empty
           /\ new.at = "copy" => \A p \in new.left : v2[new.dst][p] = 0,
         \A p \in RemotePart :
           /\ new.kind = "move" /\ ~new.touched
           /\ \/ new.at = "copy" /\ p \notin new.left
              \/ new.at = "remove"
           => v2[new.src][p] = 0
  PROVE  R!IInv'
<1> DEFINE item == v2
           request == v3
<1>0. /\ request' \in [RemoteRequest -> R!Requests] /\ request'[q] = new
      /\ \A r \in RemoteRequest \ {q} : request'[r] = request[r]
  BY DEF R!IInv, R!TypeOK
<1>1. R!TypeOK'
  BY <1>0 DEF R!IInv, R!TypeOK
<1>2. R!PlacesKnown'
  BY <1>0 DEF R!IInv, R!PlacesKnown
<1>3. R!TargetFree'
  <2> SUFFICES ASSUME NEW r \in RemoteRequest, ~request'[r].touched
               PROVE  /\ request'[r].at \in {"rename", "list", "write"} => item[request'[r].dst] = R!Empty
                      /\ request'[r].at = "copy" => \A p \in request'[r].left : item[request'[r].dst][p] = 0
    BY DEF R!TargetFree, R!Empty
  <2> QED
    BY <1>0 DEF R!IInv, R!TargetFree
<1>4. ASSUME NEW w \in R!Place, NEW p \in RemotePart, item[w][p] # 0, R!Doomed(w, p)'
      PROVE  R!Doomed(w, p)
  <2>1. PICK r \in RemoteRequest :
          /\ request'[r].kind = "move" /\ ~request'[r].touched /\ request'[r].src = w
          /\ \/ request'[r].at = "copy" /\ p \notin request'[r].left
             \/ request'[r].at = "remove"
    BY <1>4 DEF R!Doomed
  <2>2. r # q
    BY <1>0, <1>4, <2>1
  <2> QED
    BY <1>0, <2>1, <2>2 DEF R!Doomed
<1>5. R!Kept'
  BY <1>4, FilesKeptByOthers DEF R!IInv
<1> QED
  BY <1>1, <1>2, <1>3, <1>5 DEF R!IInv

LEMMA FilesAskStep ==
  ASSUME R!IInv, NEW q \in RemoteRequest, NEW kind \in {"copy", "move", "put"}, NEW src \in R!Place \cup {R!Nowhere},
         NEW dir \in RemoteDir, R!Ask(q, kind, src, dir), kind # "put" => src \in R!Place
  PROVE  R!IInv'
<1> DEFINE renames == v1
           item == v2
           request == v3
           ops == v4
           made == v5
           excused == v6
<1> DEFINE new == [R!Idle EXCEPT !.kind = kind, !.at = "probe", !.src = src, !.dir = dir]
<1>0. R!Idle \in R!Requests /\ ~R!Idle.touched
  BY Zenon DEF R!Idle, R!Requests, R!Nowhere
<1>1. /\ new \in R!Requests /\ new.at = "probe" /\ new.kind = kind /\ new.src = src /\ new.dir = dir
      /\ new.touched = FALSE
  BY Zenon, <1>0 DEF R!Requests
<1>2. ops' \in 0..RemoteMaxOps
  BY RemoteAssumption DEF R!Ask, R!IInv, R!TypeOK
<1>3. request' = [request EXCEPT ![q] = new] /\ UNCHANGED <<renames, item, made, excused>>
  BY DEF R!Ask
<1> HIDE DEF new
<1> QED
  BY <1>0, <1>1, <1>2, <1>3, FilesOneRequest

LEMMA FilesProbeStep ==
  ASSUME R!IInv, NEW q \in RemoteRequest, R!Probe(q)
  PROVE  R!IInv'
<1> DEFINE renames == v1
           item == v2
           request == v3
           ops == v4
           made == v5
           excused == v6
<1> DEFINE from == IF request[q].src = R!Nowhere THEN 0 ELSE request[q].src[2]
           at == CASE request[q].kind = "put" -> "write"
                   [] request[q].kind = "copy" -> "list"
                   [] request[q].kind = "move" -> IF renames THEN "rename" ELSE "list"
           dst == R!AvoidDuplicateName(request[q].dir, from)
           new == [request[q] EXCEPT !.dst = dst, !.at = at]
<1>0. /\ request[q] \in R!Requests /\ request[q].at = "probe" /\ request[q].kind \in {"put", "copy", "move"}
      /\ request[q].dir \in RemoteDir /\ request[q].src \in R!Place \cup {R!Nowhere}
  BY Zenon DEF R!IInv, R!TypeOK, R!PlacesKnown, R!Probe, R!Working, R!Requests
<1>1. from \in 0..RemoteMaxOps
  <2>1. CASE request[q].src = R!Nowhere
    BY <2>1, RemoteAssumption
  <2>2. CASE request[q].src \in R!Place /\ request[q].src # R!Nowhere
    BY <2>2 DEF R!Place
  <2> QED
    BY <1>0, <2>1, <2>2
<1>2. \E i \in from..RemoteMaxOps : ~R!Exists(<<request[q].dir, i>>)
  BY DEF R!Probe
<1> HIDE DEF from
<1>3. PICK i \in from..RemoteMaxOps : dst = <<request[q].dir, i>> /\ ~R!Exists(<<request[q].dir, i>>)
  BY <1>1, <1>2, FilesFreeName
<1>4. dst \in R!Place /\ item[dst] = R!Empty
  BY <1>0, <1>1, <1>3, RemoteAssumption DEF R!Place, R!Exists
<1>5. /\ at \in {"write", "list", "rename"}
      /\ at = "list" => request[q].kind \in {"copy", "move"}
      /\ at = "rename" => request[q].kind = "move"
  BY <1>0
<1>6. request' = [request EXCEPT ![q] = new] /\ UNCHANGED <<renames, item, ops, made, excused>>
  BY Zenon, <1>0 DEF R!Probe, from, R!IInv, R!TypeOK, R!Requests
<1> HIDE DEF dst, at
<1>7. /\ new \in R!Requests /\ new.at = at /\ new.dst = dst /\ new.kind = request[q].kind
      /\ new.dir = request[q].dir /\ new.src = request[q].src /\ new.left = request[q].left
  BY Zenon, <1>0, <1>4, <1>5 DEF R!Requests
<1> HIDE DEF new
<1> QED
  BY <1>0, <1>4, <1>5, <1>6, <1>7, FilesOneRequest DEF R!IInv, R!TypeOK, R!PlacesKnown

LEMMA FilesRenameRefusedStep ==
  ASSUME R!IInv, NEW q \in RemoteRequest, R!RenameRefused(q)
  PROVE  R!IInv'
<1> DEFINE renames == v1
           item == v2
           request == v3
           ops == v4
           made == v5
           excused == v6
<1> DEFINE new == [request[q] EXCEPT !.at = "list"]
<1>0. request[q] \in R!Requests /\ request[q].at = "rename"
  BY DEF R!IInv, R!TypeOK, R!RenameRefused, R!Working
<1>1. request' = [request EXCEPT ![q] = new] /\ UNCHANGED <<renames, item, ops, made, excused>>
  BY Zenon, <1>0 DEF R!RenameRefused, R!IInv, R!TypeOK, R!Requests
<1>2. /\ new \in R!Requests /\ new.at = "list" /\ new.dst = request[q].dst /\ new.kind = request[q].kind
      /\ new.dir = request[q].dir /\ new.src = request[q].src /\ new.touched = request[q].touched
  BY Zenon, <1>0 DEF R!Requests
<1> HIDE DEF new
<1> QED
  BY <1>0, <1>1, <1>2, FilesOneRequest DEF R!IInv, R!TypeOK, R!PlacesKnown, R!TargetFree

LEMMA FilesListStep ==
  ASSUME R!IInv, NEW q \in RemoteRequest, R!List(q)
  PROVE  R!IInv'
<1> DEFINE renames == v1
           item == v2
           request == v3
           ops == v4
           made == v5
           excused == v6
<1> DEFINE left == {p \in RemotePart : item[request[q].src][p] # 0}
           new == [request[q] EXCEPT !.at = "copy", !.left = left]
<1>0. request[q] \in R!Requests /\ request[q].at = "list"
  BY DEF R!IInv, R!TypeOK, R!List, R!Working
<1>1. request' = [request EXCEPT ![q] = new] /\ UNCHANGED <<renames, item, ops, made, excused>>
  BY Zenon, <1>0 DEF R!List, R!IInv, R!TypeOK, R!Requests
<1>2. /\ new \in R!Requests /\ new.at = "copy" /\ new.dst = request[q].dst /\ new.kind = request[q].kind
      /\ new.dir = request[q].dir /\ new.src = request[q].src /\ new.touched = request[q].touched
      /\ new.left = left
  BY Zenon, <1>0 DEF R!Requests
<1>3. \A p \in RemotePart : p \in left <=> item[request[q].src][p] # 0
  OBVIOUS
<1>4. \A p \in RemotePart : R!Empty[p] = 0
  BY DEF R!Empty
<1>5. left \subseteq RemotePart
  OBVIOUS
<1> HIDE DEF new, left
<1>6. ~new.touched => \A p \in new.left : item[new.dst][p] = 0
  BY <1>0, <1>2, <1>4, <1>5 DEF R!IInv, R!TargetFree
<1>7. \A p \in RemotePart : p \notin new.left => item[new.src][p] = 0
  BY <1>2, <1>3
<1>8. /\ new.kind # "none" /\ new.dir \in RemoteDir /\ new.dst \in R!Place /\ new.src \in R!Place
      /\ new.kind \in {"copy", "move"}
  BY <1>0, <1>2 DEF R!IInv, R!PlacesKnown
<1>9. ops' \in 0..RemoteMaxOps
  BY <1>1 DEF R!IInv, R!TypeOK
<1> QED
  BY <1>1, <1>2, <1>6, <1>7, <1>8, <1>9, FilesOneRequest

LEMMA FilesBreaksStep ==
  ASSUME R!IInv, NEW q \in RemoteRequest, R!Breaks(q)
  PROVE  R!IInv'
<1>1. R!Idle \in R!Requests
  BY DEF R!Idle, R!Requests, R!Nowhere
<1>2. R!Idle.at = "done" /\ R!Idle.kind = "none"
  BY DEF R!Idle
<1> QED
  BY <1>1, <1>2, FilesOneRequest DEF R!Breaks, R!IInv, R!TypeOK

\* What the others know and doom once something was written to a place.
LEMMA FilesWritten ==
  ASSUME R!IInv, NEW q, NEW place \in R!Place, NEW mine \in R!Requests, R!Noted(q, place, mine),
         \A w \in R!Place \ {place} : v2'[w] = v2[w] \/ v2'[w] = R!Empty,
         /\ mine.at # "done" => mine.kind # "none" /\ mine.dir \in RemoteDir
         /\ mine.at \notin {"probe", "done"} => mine.dst \in R!Place
         /\ mine.kind \in {"copy", "move"} => mine.src \in R!Place
         /\ mine.at \in {"list", "copy"} => mine.kind \in {"copy", "move"}
         /\ mine.at \in {"rename", "remove"} => mine.kind = "move",
         ~mine.touched =>
           /\ mine.at \notin {"rename", "list", "write"}
           /\ mine.at = "copy" => \A p \in mine.left : v2'[mine.dst][p] = 0
  PROVE  /\ v3' \in [RemoteRequest -> R!Requests] /\ R!PlacesKnown' /\ R!TargetFree'
         /\ \A w \in R!Place, p \in RemotePart : R!Doomed(w, p)' =>
              \/ R!Doomed(w, p) /\ w # place
              \/ /\ mine.kind = "move" /\ ~mine.touched /\ mine.src = w
                 /\ (mine.at = "copy" /\ p \notin mine.left) \/ mine.at = "remove"
<1> DEFINE item == v2
           request == v3
<1>1. /\ request' \in [RemoteRequest -> R!Requests]
      /\ \A r \in RemoteRequest \ {q} :
           \/ request'[r] = request[r] /\ place # request[r].src /\ place # request[r].dst
           \/ request'[r] = [request[r] EXCEPT !.touched = TRUE]
      /\ q \in RemoteRequest => request'[q] = mine
  BY FilesNotedOthers DEF R!IInv
<1>2. ASSUME NEW r \in RemoteRequest, r # q, request'[r] = [request[r] EXCEPT !.touched = TRUE]
      PROVE  /\ request'[r].touched /\ request'[r].at = request[r].at /\ request'[r].kind = request[r].kind
             /\ request'[r].dir = request[r].dir /\ request'[r].src = request[r].src
             /\ request'[r].dst = request[r].dst
  BY Zenon, <1>2 DEF R!IInv, R!TypeOK, R!Requests
<1>3. R!PlacesKnown'
  <2> SUFFICES ASSUME NEW r \in RemoteRequest
               PROVE  /\ request'[r].at # "done" => request'[r].kind # "none" /\ request'[r].dir \in RemoteDir
                      /\ request'[r].at \notin {"probe", "done"} => request'[r].dst \in R!Place
                      /\ request'[r].kind \in {"copy", "move"} => request'[r].src \in R!Place
                      /\ request'[r].at \in {"list", "copy"} => request'[r].kind \in {"copy", "move"}
                      /\ request'[r].at \in {"rename", "remove"} => request'[r].kind = "move"
    BY DEF R!PlacesKnown, R!Place
  <2>1. CASE r = q
    BY <1>1, <2>1
  <2>2. CASE r # q
    BY <1>1, <1>2, <2>2 DEF R!IInv, R!PlacesKnown
  <2> QED
    BY <2>1, <2>2
<1>4. R!TargetFree'
  <2> SUFFICES ASSUME NEW r \in RemoteRequest, ~request'[r].touched
               PROVE  /\ request'[r].at \in {"rename", "list", "write"} => item'[request'[r].dst] = R!Empty
                      /\ request'[r].at = "copy" => \A p \in request'[r].left : item'[request'[r].dst][p] = 0
    BY DEF R!TargetFree, R!Empty
  <2>1. CASE r = q
    BY <1>1, <2>1
  <2>2. CASE r # q
    <3>1. request'[r] = request[r] /\ place # request[r].dst
      BY <1>1, <1>2, <2>2
    <3>2. CASE request[r].at \in {"rename", "list", "write", "copy"}
      <4>1. request[r].dst \in R!Place \ {place}
        BY <3>1, <3>2 DEF R!IInv, R!PlacesKnown
      <4>2. item'[request[r].dst] = item[request[r].dst] \/ item'[request[r].dst] = R!Empty
        BY <4>1
      <4>3. \A p \in request[r].left : R!Empty[p] = 0
        BY Zenon DEF R!Empty, R!IInv, R!TypeOK, R!Requests
      <4> QED
        BY <3>1, <4>2, <4>3 DEF R!IInv, R!TargetFree
    <3> QED
      BY <3>1, <3>2
  <2> QED
    BY <2>1, <2>2
<1>5. ASSUME NEW w \in R!Place, NEW p \in RemotePart, R!Doomed(w, p)'
      PROVE  \/ R!Doomed(w, p) /\ w # place
             \/ /\ mine.kind = "move" /\ ~mine.touched /\ mine.src = w
                /\ (mine.at = "copy" /\ p \notin mine.left) \/ mine.at = "remove"
  <2>1. PICK r \in RemoteRequest :
          /\ request'[r].kind = "move" /\ ~request'[r].touched /\ request'[r].src = w
          /\ \/ request'[r].at = "copy" /\ p \notin request'[r].left
             \/ request'[r].at = "remove"
    BY <1>5 DEF R!Doomed
  <2>2. CASE r = q
    BY <1>1, <2>1, <2>2
  <2>3. CASE r # q
    BY <1>1, <1>2, <2>1, <2>3 DEF R!Doomed
  <2> QED
    BY <2>2, <2>3
<1> QED
  BY <1>1, <1>3, <1>4, <1>5

\* The places of a request are found, and its record, while it is at work.
LEMMA FilesAtWork ==
  ASSUME R!IInv, NEW q \in RemoteRequest, v3[q].at \notin {"probe", "done"}
  PROVE  /\ v3[q] \in R!Requests /\ v3[q].dst \in R!Place /\ v3[q].dir \in RemoteDir
         /\ v3[q].at \in {"rename", "list", "copy", "remove"} =>
              v3[q].src \in R!Place /\ v3[q].kind \in {"copy", "move"}
  BY DEF R!IInv, R!TypeOK, R!PlacesKnown

LEMMA FilesIdleFacts ==
  /\ R!Idle \in R!Requests /\ R!Idle.at = "done" /\ R!Idle.kind = "none" /\ ~R!Idle.touched
  BY DEF R!Idle, R!Requests, R!Nowhere

LEMMA FilesEmptyFacts ==
  /\ R!Empty \in [RemotePart -> Nat] /\ \A p \in RemotePart : R!Empty[p] = 0
  BY DEF R!Empty

\* A rename: what was at from is at to, and nothing else is touched.
LEMMA FilesRenamedStep ==
  ASSUME R!IInv, NEW q, NEW from \in R!Place, NEW to \in R!Place, R!CanRename(from, to), R!Renamed(from, to),
         R!Noted(q, to, R!Idle), UNCHANGED <<v1, v5, v6>>, v4' \in 0..RemoteMaxOps
  PROVE  R!IInv'
<1> DEFINE item == v2
           request == v3
           made == v5
           excused == v6
<1>0. from # to /\ item[to] = R!Empty
  BY DEF R!CanRename, R!Exists
<1>1. /\ item'[to] = item[from] /\ item'[from] = R!Empty
      /\ \A w \in R!Place \ {from, to} : item'[w] = item[w]
      /\ item' \in [R!Place -> [RemotePart -> 0..made]]
  <2>1. item \in [R!Place -> [RemotePart -> 0..made]] /\ R!Empty \in [RemotePart -> 0..made]
    BY DEF R!IInv, R!TypeOK, R!Empty
  <2> QED
    BY <1>0, <2>1 DEF R!Renamed
<1>2. /\ request' \in [RemoteRequest -> R!Requests] /\ R!PlacesKnown' /\ R!TargetFree'
      /\ \A w \in R!Place, p \in RemotePart : R!Doomed(w, p)' => R!Doomed(w, p) /\ w # to
  <2>1. \A w \in R!Place \ {to} : item'[w] = item[w] \/ item'[w] = R!Empty
    BY <1>1
  <2> DEFINE mine == R!Idle
  <2>2. mine \in R!Requests /\ mine.at = "done" /\ mine.kind = "none"
    BY FilesIdleFacts
  <2>3. R!Noted(q, to, mine)
    OBVIOUS
  <2> HIDE DEF mine
  <2> QED
    BY <2>1, <2>2, <2>3, FilesWritten
<1>3. R!TypeOK'
  BY <1>1, <1>2 DEF R!IInv, R!TypeOK
<1>4. R!Kept'
  <2> SUFFICES ASSUME NEW c \in 1..made \ excused
               PROVE  \E w \in R!Place, p \in RemotePart : item'[w][p] = c /\ ~R!Doomed(w, p)'
    BY DEF R!Kept
  <2>1. PICK w \in R!Place, p \in RemotePart : item[w][p] = c /\ ~R!Doomed(w, p)
    BY DEF R!IInv, R!Kept
  <2>2. CASE w = from
    BY <1>1, <1>2, <2>1, <2>2
  <2>3. CASE w # from
    <3>1. w # to
      BY <1>0, <2>1, FilesEmptyFacts
    <3> QED
      BY <1>1, <1>2, <2>1, <2>3, <3>1
  <2> QED
    BY <2>2, <2>3
<1> QED
  BY <1>2, <1>3, <1>4 DEF R!IInv

LEMMA FilesTryRenameStep ==
  ASSUME R!IInv, NEW q \in RemoteRequest, R!TryRename(q)
  PROVE  R!IInv'
<1> DEFINE request == v3
           ops == v4
<1>1. request[q].at = "rename"
  BY DEF R!TryRename, R!Working
<1>2. ops' \in 0..RemoteMaxOps
  BY DEF R!TryRename, R!IInv, R!TypeOK
<1> QED
  BY <1>1, <1>2, FilesAtWork, FilesRenamedStep DEF R!TryRename

\* Something new is at one part of a place; what was there is excused, unless
\* the writer knew that there was nothing.
LEMMA FilesWroteStep ==
  ASSUME R!IInv, NEW place \in R!Place, NEW piece \in RemotePart, NEW content, content \in 1..v5',
         v2' = [v2 EXCEPT ![place][piece] = content], v5' \in {v5, v5 + 1},
         v6' = v6 \cup ({v2[place][piece]} \ {0}) \/ (v6' = v6 /\ v2[place][piece] = 0),
         v3' \in [RemoteRequest -> R!Requests], v4' \in 0..RemoteMaxOps, UNCHANGED v1,
         R!PlacesKnown', R!TargetFree',
         \A w \in R!Place, p \in RemotePart : R!Doomed(w, p)' /\ <<w, p>> # <<place, piece>> =>
           R!Doomed(w, p) \/ v2[w][p] \in v6 \/ v2[w][p] = content,
         ~R!Doomed(place, piece)', v5' = v5 + 1 => content = v5'
  PROVE  R!IInv'
<1> DEFINE item == v2
           made == v5
           excused == v6
<1>1. /\ item'[place][piece] = content
      /\ \A w \in R!Place, p \in RemotePart : <<w, p>> # <<place, piece>> => item'[w][p] = item[w][p]
      /\ item' \in [R!Place -> [RemotePart -> 0..made']] /\ made' \in Nat
      /\ excused' \subseteq 1..made' /\ excused \subseteq excused'
  <2>1. /\ item \in [R!Place -> [RemotePart -> 0..made]] /\ made \in Nat /\ excused \subseteq 1..made
    BY DEF R!IInv, R!TypeOK
  <2>2. item \in [R!Place -> [RemotePart -> 0..made']] /\ made' \in Nat /\ excused \subseteq 1..made'
    BY <2>1
  <2>3. content \in 0..made' /\ item[place][piece] \in 0..made'
    BY <2>2
  <2>4. item'[place] = [item[place] EXCEPT ![piece] = content] /\ item[place] \in [RemotePart -> 0..made']
    BY <2>2
  <2>5. item'[place] \in [RemotePart -> 0..made'] /\ \A w \in R!Place \ {place} : item'[w] = item[w]
    BY <2>2, <2>3, <2>4
  <2>6. item' \in [R!Place -> [RemotePart -> 0..made']]
    BY <2>2, <2>5
  <2>7. excused' \subseteq 1..made' /\ excused \subseteq excused'
    <3>1. ({item[place][piece]} \ {0}) \subseteq 1..made'
      BY <2>2, <2>3
    <3> QED
      BY <2>2, <3>1
  <2> QED
    BY <2>2, <2>3, <2>4, <2>5, <2>6, <2>7
<1>2. R!TypeOK'
  BY <1>1 DEF R!IInv, R!TypeOK
<1>3. R!Kept'
  <2> SUFFICES ASSUME NEW c \in 1..made' \ excused'
               PROVE  \E w \in R!Place, p \in RemotePart : item'[w][p] = c /\ ~R!Doomed(w, p)'
    BY DEF R!Kept
  <2>1. CASE c = content
    BY <1>1, <2>1
  <2>2. CASE c # content
    <3>1. c \in 1..made \ excused
      BY <1>1, <2>2 DEF R!IInv, R!TypeOK
    <3>2. PICK w \in R!Place, p \in RemotePart : item[w][p] = c /\ ~R!Doomed(w, p)
      BY <3>1 DEF R!IInv, R!Kept
    <3>3. <<w, p>> # <<place, piece>>
      BY <3>2, <3>1
    <3> QED
      BY <1>1, <2>2, <3>1, <3>2, <3>3
  <2> QED
    BY <2>1, <2>2
<1> QED
  BY <1>2, <1>3 DEF R!IInv

LEMMA FilesCopyPartStep ==
  ASSUME R!IInv, NEW q \in RemoteRequest, NEW p \in RemotePart, R!CopyPart(q, p)
  PROVE  R!IInv'
<1> DEFINE renames == v1
           item == v2
           request == v3
           ops == v4
           made == v5
           excused == v6
<1>0. /\ request[q].at = "copy" /\ request[q] \in R!Requests /\ request[q].dst \in R!Place
      /\ request[q].src \in R!Place /\ request[q].kind \in {"copy", "move"} /\ request[q].dir \in RemoteDir
  BY FilesAtWork DEF R!CopyPart, R!Working
<1>src. PICK src \in R!Place : src = request[q].src
  BY <1>0
<1>dst. PICK dst \in R!Place : dst = request[q].dst
  BY <1>0
<1> DEFINE left == request[q].left \ {p}
           more == [request[q] EXCEPT !.left = left]
           last == [request[q] EXCEPT !.left = {}, !.at = "remove"]
           mine == IF left # {} THEN more ELSE IF request[q].kind = "move" THEN last ELSE R!Idle
<1>1. /\ request[q].at = "copy" /\ p \in request[q].left /\ item[src][p] # 0
      /\ item' = [item EXCEPT ![dst][p] = item[src][p]]
      /\ excused' = IF request[q].touched THEN excused \cup ({item[dst][p]} \ {0}) ELSE excused
      /\ R!Noted(q, dst, mine) /\ UNCHANGED <<renames, ops, made>>
  BY <1>src, <1>dst DEF R!CopyPart, R!Working, R!Replaces
<1>2. request[q] \in R!Requests /\ request[q].kind \in {"copy", "move"} /\ request[q].dir \in RemoteDir
  BY <1>src, <1>dst, <1>0
<1>3. ~request[q].touched => \A x \in request[q].left : item[dst][x] = 0
  BY <1>src, <1>dst, <1>1 DEF R!IInv, R!TargetFree
<1>4. /\ more \in R!Requests /\ more.kind = request[q].kind /\ more.at = "copy" /\ more.dir = request[q].dir
      /\ more.src = src /\ more.dst = dst /\ more.left = left /\ more.touched = request[q].touched
  <2>1. left \in SUBSET RemotePart
    BY Zenon, <1>src, <1>dst, <1>2 DEF R!Requests
  <2> HIDE DEF left
  <2> QED
    BY <1>src, <1>dst, <1>1, <1>2, <2>1, FilesLeftType
<1>4a. /\ last \in R!Requests /\ last.kind = request[q].kind /\ last.at = "remove" /\ last.dir = request[q].dir
       /\ last.src = src /\ last.dst = dst /\ last.touched = request[q].touched
  BY Zenon, <1>src, <1>dst, <1>2 DEF R!Requests
<1>5. item \in [R!Place -> [RemotePart -> 0..made]] /\ made \in Nat
  BY DEF R!IInv, R!TypeOK
<1>6. item[src][p] \in 1..made
  BY <1>src, <1>dst, <1>1, <1>2, <1>5
<1>7. /\ \A w \in R!Place \ {dst} : item'[w] = item[w]
      /\ item'[dst][p] = item[src][p]
      /\ \A x \in RemotePart \ {p} : item'[dst][x] = item[dst][x]
  BY <1>src, <1>dst, <1>1, <1>2, <1>5
<1>8. /\ mine \in {more, last, R!Idle}
      /\ mine = last => left = {} /\ request[q].kind = "move"
  <2>1. CASE left # {}
    BY <1>src, <1>dst, <1>4, <1>4a, <2>1
  <2>2. CASE left = {}
    BY <1>src, <1>dst, <1>4, <1>4a, <2>2, FilesIdleFacts
  <2> QED
    BY <1>src, <1>dst, <2>1, <2>2
<1> HIDE DEF more, last, mine
<1>9. /\ mine \in R!Requests
      /\ mine.at # "done" => mine.kind # "none" /\ mine.dir \in RemoteDir
      /\ mine.at \notin {"probe", "done"} => mine.dst \in R!Place
      /\ mine.kind \in {"copy", "move"} => mine.src \in R!Place
      /\ mine.at \in {"list", "copy"} => mine.kind \in {"copy", "move"}
      /\ mine.at \in {"rename", "remove"} => mine.kind = "move"
  BY <1>src, <1>dst, <1>2, <1>4, <1>4a, <1>8, FilesIdleFacts
<1>10. ~mine.touched =>
         /\ mine.at \notin {"rename", "list", "write"}
         /\ mine.at = "copy" => \A x \in mine.left : item'[mine.dst][x] = 0
  <2>1. CASE mine = more
    <3>1. left \subseteq RemotePart \ {p}
      BY Zenon, <1>src, <1>dst, <1>2 DEF R!Requests
    <3> QED
      BY <1>src, <1>dst, <1>3, <1>4, <1>7, <2>1, <3>1
  <2> QED
    BY <1>src, <1>dst, <1>4, <1>4a, <1>8, <2>1, FilesIdleFacts
<1>11. /\ R!PlacesKnown' /\ R!TargetFree'
       /\ \A w \in R!Place, x \in RemotePart : R!Doomed(w, x)' =>
              \/ R!Doomed(w, x) /\ w # dst
              \/ /\ mine.kind = "move" /\ ~mine.touched /\ mine.src = w
                 /\ (mine.at = "copy" /\ x \notin mine.left) \/ mine.at = "remove"
  BY <1>src, <1>dst, <1>1, <1>2, <1>7, <1>9, <1>10, FilesWritten
\* It reads from its source and writes somewhere else.
<1>12. ~request[q].touched => src # dst
  BY <1>src, <1>dst, <1>1, <1>3
<1>13. ASSUME NEW w \in R!Place, NEW x \in RemotePart, R!Doomed(w, x)', <<w, x>> # <<dst, p>>
       PROVE  R!Doomed(w, x) \/ item[w][x] \in excused \/ item[w][x] = item[src][p]
  <2>1. CASE /\ mine.kind = "move" /\ ~mine.touched /\ mine.src = w
             /\ (mine.at = "copy" /\ x \notin mine.left) \/ mine.at = "remove"
    <3>1. mine \in {more, last} /\ w = src /\ ~request[q].touched /\ request[q].kind = "move"
      BY <1>src, <1>dst, <1>4, <1>4a, <1>8, <2>1, FilesIdleFacts
    <3>2. x \notin request[q].left \/ x = p
      BY <1>src, <1>dst, <1>4, <1>4a, <1>8, <2>1, <3>1
    <3> QED
      BY <1>src, <1>dst, <1>1, <3>1, <3>2 DEF R!Doomed
  <2> QED
    BY <1>src, <1>dst, <1>11, <1>13, <2>1
<1>14. ~R!Doomed(dst, p)'
  <2> SUFFICES ASSUME R!Doomed(dst, p)' PROVE FALSE
    OBVIOUS
  <2>1. mine.kind = "move" /\ ~mine.touched /\ mine.src = dst
    BY <1>src, <1>dst, <1>2, <1>11
  <2> QED
    BY <1>src, <1>dst, <1>4, <1>4a, <1>8, <1>12, <2>1, FilesIdleFacts
<1>15. excused' = excused \cup ({item[dst][p]} \ {0}) \/ (excused' = excused /\ item[dst][p] = 0)
  BY <1>src, <1>dst, <1>1, <1>3
<1>16. ops' \in 0..RemoteMaxOps /\ made' = made
  BY <1>src, <1>dst, <1>1 DEF R!IInv, R!TypeOK
<1> QED
  <2>c. PICK content \in 1..made : content = item[src][p]
    BY <1>6
  <2>1. item' = [item EXCEPT ![dst][p] = content] /\ made' \in {made, made + 1} /\ content \in 1..made'
    BY <2>c, <1>1, <1>16
  <2>2. \A w \in R!Place, x \in RemotePart : R!Doomed(w, x)' /\ <<w, x>> # <<dst, p>> =>
          R!Doomed(w, x) \/ item[w][x] \in excused \/ item[w][x] = content
    BY <2>c, <1>13
  <2>3. made' = made + 1 => content = made'
    BY <2>c, <1>5, <1>16
  <2>4. request' \in [RemoteRequest -> R!Requests] /\ UNCHANGED renames /\ ops' \in 0..RemoteMaxOps
    BY <1>1, <1>2, <1>9, <1>16, FilesNotedOthers DEF R!IInv, R!TypeOK
  <2>5. R!PlacesKnown' /\ R!TargetFree'
    BY <1>11
  <2> HIDE DEF left, more, last, mine
  <2> QED
    BY <1>14, <1>15, <2>1, <2>2, <2>3, <2>4, <2>5, FilesWroteStep, ZenonT(60)

\* An upload, by q or by the user.
LEMMA FilesFreshStep ==
  ASSUME R!IInv, NEW q, NEW place \in R!Place, NEW p \in RemotePart,
         v2' = [v2 EXCEPT ![place][p] = v5 + 1], v5' = v5 + 1,
         v6' = v6 \cup ({v2[place][p]} \ {0}) \/ (v6' = v6 /\ v2[place][p] = 0),
         R!Noted(q, place, R!Idle), v4' \in 0..RemoteMaxOps, UNCHANGED v1
  PROVE  R!IInv'
<1> DEFINE item == v2
           request == v3
           made == v5
           excused == v6
<1> DEFINE mine == R!Idle
<1>1. mine \in R!Requests /\ mine.at = "done" /\ mine.kind = "none" /\ R!Noted(q, place, mine)
  BY FilesIdleFacts
<1>2. item \in [R!Place -> [RemotePart -> 0..made]] /\ made \in Nat
  BY DEF R!IInv, R!TypeOK
<1>3. \A w \in R!Place \ {place} : item'[w] = item[w] \/ item'[w] = R!Empty
  BY <1>2
<1> HIDE DEF mine
<1>4. /\ R!PlacesKnown' /\ R!TargetFree'
      /\ \A w \in R!Place, x \in RemotePart : R!Doomed(w, x)' => R!Doomed(w, x) /\ w # place
  BY <1>1, <1>3, FilesWritten
<1> DEFINE content == made + 1
<1>5. content \in 1..made' /\ made' \in {made, made + 1} /\ item' = [item EXCEPT ![place][p] = content]
      /\ content = made'
  BY <1>2
<1> HIDE DEF content
<1> QED
  <2>1. \A w \in R!Place, x \in RemotePart : R!Doomed(w, x)' /\ <<w, x>> # <<place, p>> =>
          R!Doomed(w, x) \/ item[w][x] \in excused \/ item[w][x] = content
    BY <1>4
  <2>2. ~R!Doomed(place, p)'
    BY <1>4
  <2>3. request' \in [RemoteRequest -> R!Requests]
    BY <1>1, FilesNotedOthers DEF R!IInv, R!TypeOK
  <2> QED
    BY <1>4, <1>5, <2>1, <2>2, <2>3, FilesWroteStep

LEMMA FilesWritePartStep ==
  ASSUME R!IInv, NEW q \in RemoteRequest, NEW p \in RemotePart, R!WritePart(q, p)
  PROVE  R!IInv'
<1> DEFINE item == v2
           request == v3
           ops == v4
<1>1. request[q].at = "write"
  BY DEF R!WritePart, R!Working
<1>2. request[q].dst \in R!Place
  BY <1>1, FilesAtWork
<1>3. ~request[q].touched => item[request[q].dst][p] = 0
  BY <1>1, FilesEmptyFacts DEF R!IInv, R!TargetFree
<1>4. ops' \in 0..RemoteMaxOps
  BY DEF R!WritePart, R!IInv, R!TypeOK
<1> QED
  BY <1>2, <1>3, <1>4, FilesFreshStep DEF R!WritePart, R!Replaces

LEMMA FilesOverwriteStep ==
  ASSUME R!IInv, NEW place \in R!Place, NEW p \in RemotePart, R!Overwrite(place, p)
  PROVE  R!IInv'
<1> DEFINE ops == v4
<1>1. ops' \in 0..RemoteMaxOps
  BY RemoteAssumption DEF R!Overwrite, R!Single, R!IInv, R!TypeOK
<1> QED
  BY <1>1, FilesFreshStep DEF R!Overwrite, R!Single

LEMMA FilesRenameFileStep ==
  ASSUME R!IInv, NEW from \in R!Place, NEW to \in R!Place, R!RenameFile(from, to)
  PROVE  R!IInv'
<1> DEFINE ops == v4
<1>1. ops' \in 0..RemoteMaxOps
  BY RemoteAssumption DEF R!RenameFile, R!Single, R!IInv, R!TypeOK
<1> QED
  BY <1>1, FilesRenamedStep DEF R!RenameFile, R!Single

\* What is deleted was copied, or is excused.
LEMMA FilesClearedStep ==
  ASSUME R!IInv, NEW place \in R!Place, v2' = [v2 EXCEPT ![place] = R!Empty],
         UNCHANGED <<v1, v5>>, v4' \in 0..RemoteMaxOps,
         \/ v6' = v6 \cup R!Contents(v2[place])
         \/ v6' = v6 /\ \A p \in RemotePart : R!Doomed(place, p),
         v3' \in [RemoteRequest -> R!Requests],
         \A r \in RemoteRequest : v3'[r] = v3[r] \/ v3'[r] = R!Idle
  PROVE  R!IInv'
<1> DEFINE item == v2
           request == v3
           made == v5
           excused == v6
<1>1. /\ item'[place] = R!Empty /\ \A w \in R!Place \ {place} : item'[w] = item[w]
      /\ item' \in [R!Place -> [RemotePart -> 0..made]]
  <2>1. item \in [R!Place -> [RemotePart -> 0..made]] /\ R!Empty \in [RemotePart -> 0..made]
    BY DEF R!IInv, R!TypeOK, R!Empty
  <2> QED
    BY <2>1
<1>2. R!Contents(item[place]) \subseteq 1..made
  <2>1. item[place] \in [RemotePart -> 0..made] /\ made \in Nat
    BY DEF R!IInv, R!TypeOK
  <2> QED
    BY <2>1 DEF R!Contents
<1>3. R!TypeOK'
  BY <1>1, <1>2 DEF R!IInv, R!TypeOK
<1>4. R!PlacesKnown'
  <2> SUFFICES ASSUME NEW r \in RemoteRequest
               PROVE  /\ request'[r].at # "done" => request'[r].kind # "none" /\ request'[r].dir \in RemoteDir
                      /\ request'[r].at \notin {"probe", "done"} => request'[r].dst \in R!Place
                      /\ request'[r].kind \in {"copy", "move"} => request'[r].src \in R!Place
                      /\ request'[r].at \in {"list", "copy"} => request'[r].kind \in {"copy", "move"}
                      /\ request'[r].at \in {"rename", "remove"} => request'[r].kind = "move"
    BY DEF R!PlacesKnown, R!Place
  <2> QED
    BY FilesIdleFacts DEF R!IInv, R!PlacesKnown
<1>5. R!TargetFree'
  <2> SUFFICES ASSUME NEW r \in RemoteRequest, ~request'[r].touched
               PROVE  /\ request'[r].at \in {"rename", "list", "write"} => item'[request'[r].dst] = R!Empty
                      /\ request'[r].at = "copy" => \A p \in request'[r].left : item'[request'[r].dst][p] = 0
    BY DEF R!TargetFree, R!Empty
  <2>1. CASE request[r].at \in {"rename", "list", "write", "copy"} /\ request'[r] = request[r]
    <3>1. item'[request[r].dst] = item[request[r].dst] \/ item'[request[r].dst] = R!Empty
      BY <1>1, <2>1 DEF R!IInv, R!PlacesKnown
    <3>2. \A p \in request[r].left : R!Empty[p] = 0
      BY Zenon DEF R!Empty, R!IInv, R!TypeOK, R!Requests
    <3> QED
      BY <2>1, <3>1, <3>2 DEF R!IInv, R!TargetFree
  <2> QED
    BY <2>1, FilesIdleFacts
<1>6. R!Kept'
  <2> SUFFICES ASSUME NEW c \in 1..made \ excused'
               PROVE  \E w \in R!Place, p \in RemotePart : item'[w][p] = c /\ ~R!Doomed(w, p)'
    BY DEF R!Kept
  <2>1. c \in 1..made \ excused
    OBVIOUS
  <2>2. PICK w \in R!Place, p \in RemotePart : item[w][p] = c /\ ~R!Doomed(w, p)
    BY <2>1 DEF R!IInv, R!Kept
  <2>3. w # place
    <3> SUFFICES ASSUME w = place PROVE FALSE
      OBVIOUS
    <3>1. excused' = excused \cup R!Contents(item[place])
      BY <2>2
    <3>2. c # 0
      BY DEF R!IInv, R!TypeOK
    <3> QED
      BY <2>2, <3>1, <3>2 DEF R!Contents
  <2>4. ~R!Doomed(w, p)'
    BY <2>2, FilesIdleFacts DEF R!Doomed
  <2> QED
    BY <1>1, <2>2, <2>3, <2>4
<1> QED
  BY <1>3, <1>4, <1>5, <1>6 DEF R!IInv

LEMMA FilesRemoveStep ==
  ASSUME R!IInv, NEW q \in RemoteRequest, R!Remove(q)
  PROVE  R!IInv'
<1> DEFINE renames == v1
           item == v2
           request == v3
           ops == v4
           made == v5
           excused == v6
<1>0. request[q].at = "remove"
  BY DEF R!Remove, R!Working
<1>1. request[q].src \in R!Place /\ request[q].kind = "move" /\ request[q] \in R!Requests
  BY <1>0, FilesAtWork DEF R!IInv, R!PlacesKnown
<1>2. ~request[q].touched => \A p \in RemotePart : R!Doomed(request[q].src, p)
  BY <1>0, <1>1 DEF R!Doomed
<1> PICK src \in R!Place : src = request[q].src
  BY <1>1
<1>3. /\ item' = [item EXCEPT ![src] = R!Empty] /\ UNCHANGED <<renames, made>> /\ ops' \in 0..RemoteMaxOps
      /\ request' = [request EXCEPT ![q] = R!Idle]
  BY DEF R!Remove, R!IInv, R!TypeOK
<1>4. \/ excused' = excused \cup R!Contents(item[src])
      \/ excused' = excused /\ \A p \in RemotePart : R!Doomed(src, p)
  BY <1>2 DEF R!Remove
<1>5. /\ request' \in [RemoteRequest -> R!Requests]
      /\ \A r \in RemoteRequest : request'[r] = request[r] \/ request'[r] = R!Idle
  BY <1>3, FilesIdleFacts DEF R!IInv, R!TypeOK
<1> QED
  BY <1>3, <1>4, <1>5, FilesClearedStep

LEMMA FilesDeleteFileStep ==
  ASSUME R!IInv, NEW place \in R!Place, R!DeleteFile(place)
  PROVE  R!IInv'
<1> DEFINE request == v3
           ops == v4
<1>1. ops' \in 0..RemoteMaxOps /\ request \in [RemoteRequest -> R!Requests]
  BY RemoteAssumption DEF R!DeleteFile, R!Single, R!IInv, R!TypeOK
<1> QED
  BY <1>1, FilesClearedStep DEF R!DeleteFile, R!Single

\* The numbering gives every part of every directory's item a content of its own.
LEMMA FilesNumberingExists ==
  ASSUME v5 = Cardinality(RemoteDir) * Cardinality(RemotePart)
  PROVE  /\ v5 \in Nat /\ R!Numbering \in [RemoteDir \X RemotePart -> 1..v5]
         /\ \A c \in 1..v5 : \E d \in RemoteDir, p \in RemotePart : R!Numbering[<<d, p>>] = c
<1> DEFINE made == v5
<1>1. /\ IsFiniteSet(RemoteDir \X RemotePart) /\ Cardinality(RemoteDir \X RemotePart) = made
      /\ Cardinality(RemoteDir) \in Nat /\ Cardinality(RemotePart) \in Nat
  BY RemoteAssumption, FS_Product, FS_CardinalityType
<1> DEFINE dirs == Cardinality(RemoteDir)
           parts == Cardinality(RemotePart)
<1>2. made \in Nat
  <2>1. dirs \in Nat /\ parts \in Nat /\ made = dirs * parts
    BY <1>1
  <2> HIDE DEF dirs, parts
  <2> QED
    BY <2>1
<1> HIDE DEF dirs, parts
<1>3. IsFiniteSet(1..made) /\ Cardinality(1..made) = made
  BY <1>2, FS_Interval
<1>4. ExistsBijection(RemoteDir \X RemotePart, 1..made)
  BY <1>1, <1>3, FS_SameCardinalityBij
<1>5. \E number \in [RemoteDir \X RemotePart -> 1..made] : R!IsInjective(number)
  BY <1>4 DEF ExistsBijection, Bijection, Injection, IsInjective, R!IsInjective
<1>6. R!Numbering \in [RemoteDir \X RemotePart -> 1..made] /\ R!IsInjective(R!Numbering)
  BY <1>5 DEF R!Numbering
<1>7. ASSUME NEW S, NEW T, IsFiniteSet(T), Cardinality(S) = Cardinality(T), NEW f \in Injection(S, T)
      PROVE  f \in Surjection(S, T)
  BY <1>7, FS_Injection
<1>8. R!Numbering \in Injection(RemoteDir \X RemotePart, 1..made)
  BY <1>6 DEF Injection, IsInjective, R!IsInjective
<1>9. R!Numbering \in Surjection(RemoteDir \X RemotePart, 1..made)
  BY <1>1, <1>3, <1>7, <1>8
<1>10. \A c \in 1..made : \E k \in RemoteDir \X RemotePart : R!Numbering[k] = c
  BY <1>9 DEF Surjection
<1>11. ASSUME NEW c \in 1..made
       PROVE  \E d \in RemoteDir, p \in RemotePart : R!Numbering[<<d, p>>] = c
  <2>1. PICK k \in RemoteDir \X RemotePart : R!Numbering[k] = c
    BY <1>10
  <2>2. k[1] \in RemoteDir /\ k[2] \in RemotePart /\ k = <<k[1], k[2]>>
    OBVIOUS
  <2> QED
    BY <2>1, <2>2
<1> QED
  BY <1>2, <1>6, <1>11

LEMMA FilesInitHolds ==
  ASSUME R!Init
  PROVE  R!IInv
<1> DEFINE renames == v1
           item == v2
           request == v3
           ops == v4
           made == v5
           excused == v6
<1>0. PICK missing \in 0..made :
        /\ item = [w \in R!Place |-> [p \in RemotePart |->
                    IF w[2] # 0 \/ R!Numbering[<<w[1], p>>] = missing THEN 0 ELSE R!Numbering[<<w[1], p>>]]]
        /\ excused = {missing} \ {0}
  BY DEF R!Init
<1>1. /\ made \in Nat /\ R!Numbering \in [RemoteDir \X RemotePart -> 1..made]
      /\ \A c \in 1..made : \E d \in RemoteDir, p \in RemotePart : R!Numbering[<<d, p>>] = c
  BY FilesNumberingExists DEF R!Init, R!Cardinality, Cardinality
<1>2. request \in [RemoteRequest -> R!Requests] /\ \A q \in RemoteRequest : request[q] = R!Idle
  BY FilesIdleFacts DEF R!Init
<1>3. item \in [R!Place -> [RemotePart -> 0..made]]
  <2> SUFFICES ASSUME NEW w \in R!Place
               PROVE  [p \in RemotePart |-> IF w[2] # 0 \/ R!Numbering[<<w[1], p>>] = missing THEN 0
                                      ELSE R!Numbering[<<w[1], p>>]] \in [RemotePart -> 0..made]
    BY <1>0
  <2> SUFFICES ASSUME NEW p \in RemotePart
               PROVE  R!Numbering[<<w[1], p>>] \in 0..made
    BY <1>1
  <2>1. <<w[1], p>> \in RemoteDir \X RemotePart
    BY DEF R!Place
  <2> QED
    BY <1>1, <2>1
<1>4. R!TypeOK
  <2>1. renames \in BOOLEAN /\ ops = 0 /\ ops \in 0..RemoteMaxOps
    BY RemoteAssumption DEF R!Init
  <2>2. excused \subseteq 1..made
    BY <1>0, <1>1
  <2> QED
    BY <1>1, <1>2, <1>3, <2>1, <2>2 DEF R!TypeOK
<1>5. R!PlacesKnown /\ R!TargetFree /\ \A w, p : ~R!Doomed(w, p)
  BY <1>2, FilesIdleFacts DEF R!PlacesKnown, R!TargetFree, R!Doomed
<1>6. R!Kept
  <2> SUFFICES ASSUME NEW c \in 1..made \ excused
               PROVE  \E w \in R!Place, p \in RemotePart : item[w][p] = c /\ ~R!Doomed(w, p)
    BY DEF R!Kept
  <2>1. PICK d \in RemoteDir, p \in RemotePart : R!Numbering[<<d, p>>] = c
    BY <1>1
  <2>2. <<d, 0>> \in R!Place
    BY RemoteAssumption DEF R!Place
  <2>3. c # 0 /\ c # missing
    BY <1>0
  <2>4. item[<<d, 0>>][p] = c
    BY <1>0, <2>1, <2>2, <2>3
  <2> QED
    BY <1>5, <2>2, <2>4
<1> QED
  BY <1>4, <1>5, <1>6 DEF R!IInv

LEMMA FilesStutterStep ==
  ASSUME R!IInv, UNCHANGED R!vars
  PROVE  R!IInv'
BY DEF R!IInv, R!TypeOK, R!PlacesKnown, R!TargetFree, R!Kept, R!Doomed, R!vars, R!Place, R!Empty

LEMMA FilesNextStep ==
  ASSUME R!IInv, R!Next
  PROVE  R!IInv'
<1>1. ASSUME NEW q \in RemoteRequest, NEW d \in RemoteDir,
             R!Upload(q, d) \/ \E w \in R!Place : R!Copy(q, w, d) \/ R!Move(q, w, d)
      PROVE  R!IInv'
  BY <1>1, FilesAskStep DEF R!Upload, R!Copy, R!Move
<1>2. ASSUME NEW q \in RemoteRequest, NEW p \in RemotePart, R!CopyPart(q, p) \/ R!WritePart(q, p)
      PROVE  R!IInv'
  BY <1>2, FilesCopyPartStep, FilesWritePartStep
<1>3. ASSUME NEW q \in RemoteRequest,
             R!Probe(q) \/ R!TryRename(q) \/ R!RenameRefused(q) \/ R!List(q) \/ R!Remove(q) \/ R!Breaks(q)
      PROVE  R!IInv'
  BY <1>3, FilesProbeStep, FilesTryRenameStep, FilesRenameRefusedStep, FilesListStep,
     FilesRemoveStep, FilesBreaksStep
<1>4. ASSUME NEW w \in R!Place,
             (\E p \in RemotePart : R!Overwrite(w, p)) \/ R!DeleteFile(w) \/ \E v \in R!Place : R!RenameFile(w, v)
      PROVE  R!IInv'
  BY <1>4, FilesOverwriteStep, FilesDeleteFileStep, FilesRenameFileStep
<1> QED
  BY <1>1, <1>2, <1>3, <1>4 DEF R!Next

LEMMA FilesNothingIsLost ==
  ASSUME R!IInv
  PROVE  R!NothingLost
<1> DEFINE made == v5
<1>1. made \in Nat
  BY DEF R!IInv, R!TypeOK
<1> QED
  BY <1>1 DEF R!IInv, R!Kept, R!NothingLost, R!Contents

-----------------------------------------------------------------------------
\* The servers of the command line: one request is handled at a time.

\* The loop takes the first line of stdin.
LEMMA ServerTaken ==
  ASSUME V!TypeOK, V!Take
  PROVE  /\ V!Next1 \in ClientLine /\ v3' \in Seq(ClientLine) /\ v4' \in Seq(ClientLine)
         /\ Len(v4') = Len(v4) + 1 /\ Len(v4) \in Nat /\ v4'[Len(v4) + 1] = V!Next1
         /\ \A k \in 1..Len(v4) : v4'[k] = v4[k]
<1> DEFINE unread == v3
           read == v4
<1>1. unread \in Seq(ClientLine) /\ unread # <<>> /\ read \in Seq(ClientLine)
  BY DEF V!TypeOK, V!Take
<1>2. V!Next1 \in ClientLine /\ unread' \in Seq(ClientLine)
  BY <1>1, HeadTailProperties DEF V!Take, V!Next1
<1>3. read' = Append(read, V!Next1)
  BY DEF V!Take
<1> HIDE DEF V!Next1
<1> QED
  BY <1>1, <1>2, <1>3

\* A reply goes to who has an id, and behind the others.
LEMMA ServerReplied ==
  ASSUME v6 \in Seq(V!Answer), NEW line \in ClientLine, NEW of \in Nat, NEW how \in {"result", "isError", "error"},
         V!Reply(line, of, how)
  PROVE  /\ v6' \in Seq(V!Answer) /\ Len(v6) \in Nat
         /\ line.id = None => v6' = v6
         /\ line.id # None =>
              /\ Len(v6') = Len(v6) + 1
              /\ v6'[Len(v6) + 1].of = of /\ v6'[Len(v6) + 1].id = line.id
              /\ \A i \in 1..Len(v6) : v6'[i] = v6[i]
<1> DEFINE out == v6
<1> DEFINE answer == [id |-> line.id, how |-> how, of |-> of]
<1>1. CASE line.id = None
  <2>1. out' = out \o <<>>
    BY <1>1 DEF V!Reply, V!Replies
  <2> QED
    BY <1>1, <2>1
<1>2. CASE line.id # None
  <2>1. answer \in V!Answer /\ answer.of = of /\ answer.id = line.id
    BY DEF V!Answer
  <2>2. out' = out \o <<answer>>
    BY <1>2 DEF V!Reply, V!Replies
  <2> HIDE DEF answer
  <2>3. out' = Append(out, answer)
    BY <2>1, <2>2
  <2> QED
    BY <1>2, <2>1, <2>3
<1> QED
  BY <1>1, <1>2

\* Nothing is read or answered.
LEMMA ServerApart ==
  ASSUME V!IInv, UNCHANGED <<v4, v6, v5, v12>>, V!TypeOK',
         \/ v2' = v2 /\ (v2 = "ended" => v3' = <<>> /\ v7')
         \/ v2' = "ended" /\ v3' = <<>> /\ v5 = {} /\ v7'
  PROVE  V!IInv'
<1>1. V!Serial'
  BY DEF V!IInv, V!Serial, V!Malformed, V!Notification, V!Resolves
<1>2. V!RepliesInOrder'
  BY DEF V!IInv, V!RepliesInOrder, V!Due, V!Answered, V!Handled, V!Malformed, V!Notification
<1>3. V!NamesResolve'
  BY DEF V!IInv, V!NamesResolve, V!Resolves
<1> QED
  BY <1>1, <1>2, <1>3 DEF V!IInv

\* A line is read and, if a reply is due, answered at once.
LEMMA ServerAtOnce ==
  ASSUME V!IInv, V!Take, UNCHANGED <<v5, v12>>, V!TypeOK',
         v2' = v2 \/ (v2' = "crashed" /\ V!Malformed(V!Next1)),
         \/ v6' = v6 /\ ~V!Due(V!Next1)
         \/ /\ \E how \in {"result", "error"} : V!Reply(V!Next1, Len(v4'), how)
            /\ V!Due(V!Next1) <=> V!Next1.id # None
  PROVE  V!IInv'
<1> DEFINE state == v2
           read == v4
           running == v5
           out == v6
<1> PICK line \in ClientLine : line = V!Next1
  BY ServerTaken DEF V!IInv
<1>1. running = {} /\ running' = {} /\ state = "up"
  BY DEF V!Take
<1>2. /\ Len(read') = Len(read) + 1 /\ Len(read) \in Nat /\ read'[Len(read) + 1] = line
      /\ \A k \in 1..Len(read) : read'[k] = read[k]
  BY ServerTaken DEF V!IInv
<1>3. V!Serial'
  BY <1>1 DEF V!Serial
<1>4. /\ out' \in Seq(V!Answer) /\ Len(out) \in Nat
      /\ ~V!Due(line) => out' = out
      /\ V!Due(line) =>
           /\ Len(out') = Len(out) + 1
           /\ out'[Len(out) + 1].of = Len(read) + 1 /\ out'[Len(out) + 1].id = line.id
           /\ \A i \in 1..Len(out) : out'[i] = out[i]
  <2>0. out \in Seq(V!Answer) /\ Len(out) \in Nat
    BY DEF V!IInv, V!TypeOK
  <2>1. CASE out' = out /\ ~V!Due(V!Next1)
    BY <2>0, <2>1
  <2>2. CASE /\ \E how \in {"result", "error"} : V!Reply(V!Next1, Len(read'), how)
             /\ V!Due(V!Next1) <=> V!Next1.id # None
    <3>1. PICK how \in {"result", "error"} : V!Reply(V!Next1, Len(read'), how)
      BY <2>2
    <3>2. V!Reply(line, Len(read) + 1, how)
      BY <1>2, <3>1 DEF V!Reply, V!Replies
    <3> QED
      BY <1>2, <2>0, <2>2, <3>2, ServerReplied
  <2> QED
    BY <2>1, <2>2
<1>5. \A i \in 1..Len(out) : out[i].of \in 1..Len(read) /\ V!Due(read[out[i].of]) /\ out[i].id = read[out[i].of].id
  BY DEF V!IInv, V!RepliesInOrder
<1>6. \A i, j \in 1..Len(out') : i < j => out'[i].of < out'[j].of
  <2>1. \A i, j \in 1..Len(out) : i < j => out[i].of < out[j].of
    BY DEF V!IInv, V!RepliesInOrder
  <2>2. ASSUME NEW i \in 1..Len(out'), NEW j \in 1..Len(out'), i < j
        PROVE  out'[i].of < out'[j].of
    <3>1. i \in 1..Len(out)
      BY <1>4, <2>2
    <3>2. CASE j \in 1..Len(out)
      BY <1>4, <2>1, <2>2, <3>1, <3>2
    <3>3. CASE j \notin 1..Len(out)
      <4>1. j = Len(out) + 1 /\ V!Due(line)
        BY <1>4, <2>2, <3>3
      <4>2. PICK k \in 1..Len(read) : k = out[i].of
        BY <1>5, <3>1
      <4>3. k < Len(read) + 1
        BY <1>2, <4>2
      <4> QED
        BY <1>4, <3>1, <4>1, <4>2, <4>3
    <3> QED
      BY <3>2, <3>3
  <2> QED
    BY <2>2
<1>7. ASSUME NEW i \in 1..Len(out')
      PROVE  /\ out'[i].of \in 1..Len(read') /\ V!Due(read'[out'[i].of])
             /\ out'[i].id = read'[out'[i].of].id
  BY <1>2, <1>4, <1>5
<1>8. ASSUME NEW k \in 1..Len(read'), V!Due(read'[k])
      PROVE  \E i \in 1..Len(out') : out'[i].of = k
  <2>1. CASE k \in 1..Len(read)
    <3>1. \E i \in 1..Len(out) : out[i].of = k
      BY <1>1, <1>2, <1>8, <2>1 DEF V!IInv, V!RepliesInOrder, V!Answered, V!Handled
    <3> QED
      BY <1>4, <3>1
  <2>2. CASE k = Len(read) + 1
    BY <1>2, <1>4, <1>8, <2>2
  <2> QED
    BY <1>2, <2>1, <2>2
<1>9. state' # "ended" /\ (state' = "crashed" => V!Malformed(V!Last(read')))
  BY <1>1, <1>2 DEF V!Last
<1> HIDE DEF V!Malformed
<1>10. V!RepliesInOrder'
  <2>1. \A k \in 1..Len(read') : V!Due(read'[k]) => (V!Answered(k)' <=> ~V!Handled(k)')
    BY <1>1, <1>8 DEF V!Answered, V!Handled
  <2>2. \A k \in 1..Len(read') : V!Due(read[k])' <=> V!Due(read'[k])
    BY DEF V!Due, V!Malformed, V!Notification
  <2>3. state' = "crashed" => V!Malformed(V!Last(read))'
    BY <1>9 DEF V!Malformed
  <2>4. \A i \in 1..Len(out') : V!Due(read[out[i].of])' <=> V!Due(read'[out'[i].of])
    BY DEF V!Due, V!Malformed, V!Notification
  <2> QED
    BY <1>6, <1>7, <1>9, <2>1, <2>2, <2>3, <2>4 DEF V!RepliesInOrder
<1>11. V!NamesResolve'
  BY DEF V!IInv, V!NamesResolve, V!Resolves
<1> QED
  BY <1>3, <1>10, <1>11 DEF V!IInv

\* What is being handled is answered, or dropped for want of an id.
LEMMA ServerFinished ==
  ASSUME V!IInv, NEW r \in v5, NEW how \in {"result", "isError", "error"}, V!Finish(r, how), V!TypeOK',
         V!NamesResolve'
  PROVE  V!IInv'
<1> DEFINE state == v2
           unread == v3
           read == v4
           running == v5
           out == v6
<1>1. /\ running = {r} /\ state = "up" /\ r.of = Len(read) /\ r.of \in 1..Len(read)
      /\ r.line = read[r.of] /\ ~V!Malformed(r.line) /\ ~V!Notification(r.line)
      /\ r.line \in ClientLine /\ r.of \in Nat
  BY DEF V!IInv, V!Serial, V!TypeOK, V!Handling
<1>2. running' = {} /\ V!Reply(r.line, r.of, how) /\ UNCHANGED <<state, unread, read>>
  BY <1>1 DEF V!Finish
<1> PICK line \in ClientLine : line = r.line
  BY <1>1
<1> PICK of \in Nat : of = r.of
  BY <1>1
<1>3. /\ out \in Seq(V!Answer) /\ out' \in Seq(V!Answer) /\ Len(out) \in Nat
      /\ line.id = None => out' = out
      /\ line.id # None =>
           /\ Len(out') = Len(out) + 1
           /\ out'[Len(out) + 1].of = of /\ out'[Len(out) + 1].id = line.id
           /\ \A i \in 1..Len(out) : out'[i] = out[i]
  <2>1. V!Reply(line, of, how) /\ out \in Seq(V!Answer)
    BY <1>2 DEF V!IInv, V!TypeOK
  <2> QED
    BY <2>1, ServerReplied
<1>4. of = Len(read) /\ of \in 1..Len(read) /\ line = read[of] /\ (V!Due(line) <=> line.id # None)
  BY <1>1 DEF V!Due
<1>5. ASSUME NEW i \in 1..Len(out)
      PROVE  /\ out[i].of \in 1..Len(read) /\ V!Due(read[out[i].of]) /\ out[i].id = read[out[i].of].id
             /\ out[i].of # of
  <2>1. out[i].of \in 1..Len(read) /\ V!Due(read[out[i].of]) /\ out[i].id = read[out[i].of].id
    BY DEF V!IInv, V!RepliesInOrder
  <2>2. V!Answered(out[i].of) /\ ~V!Handled(out[i].of)
    BY <2>1 DEF V!IInv, V!RepliesInOrder, V!Answered
  <2> QED
    BY <1>1, <2>1, <2>2 DEF V!Handled
<1>6. \A i, j \in 1..Len(out') : i < j => out'[i].of < out'[j].of
  <2>1. \A i, j \in 1..Len(out) : i < j => out[i].of < out[j].of
    BY DEF V!IInv, V!RepliesInOrder
  <2> QED
    BY <1>3, <1>4, <1>5, <2>1
<1>7. ASSUME NEW i \in 1..Len(out')
      PROVE  /\ out'[i].of \in 1..Len(read) /\ V!Due(read[out'[i].of]) /\ out'[i].id = read[out'[i].of].id
  BY <1>3, <1>4, <1>5
<1>8. ASSUME NEW k \in 1..Len(read), V!Due(read[k])
      PROVE  \E i \in 1..Len(out') : out'[i].of = k
  <2>1. CASE k = of
    BY <1>3, <1>4, <1>8, <2>1
  <2>2. CASE k # of
    <3>1. ~V!Handled(k)
      BY <1>1, <2>2 DEF V!Handled
    <3>2. \E i \in 1..Len(out) : out[i].of = k
      BY <1>8, <3>1 DEF V!IInv, V!RepliesInOrder, V!Answered
    <3> QED
      BY <1>3, <3>2
  <2> QED
    BY <2>1, <2>2
<1>9. V!RepliesInOrder'
  <2>1. \A k \in 1..Len(read) : V!Due(read[k]) => (V!Answered(k)' <=> ~V!Handled(k)')
    BY <1>2, <1>8 DEF V!Answered, V!Handled
  <2>2. /\ \A k \in 1..Len(read) : V!Due(read[k])' <=> V!Due(read[k])
        /\ \A i \in 1..Len(out') : V!Due(read[out[i].of])' <=> V!Due(read[out'[i].of])
    BY <1>2 DEF V!Due, V!Malformed, V!Notification
  <2> QED
    BY <1>1, <1>2, <1>6, <1>7, <2>1, <2>2 DEF V!RepliesInOrder
<1>10. V!Serial'
  BY <1>1, <1>2 DEF V!Serial
<1> QED
  BY <1>9, <1>10 DEF V!IInv

\* What is being handled goes on, for the same line.
LEMMA ServerAdvanced ==
  ASSUME V!IInv, NEW r \in v5, NEW to, V!Advance(r, to), V!TypeOK',
         to.line = r.line, to.of = r.of,
         to.step \in {"secret", "connect"} => V!Resolves(to.line.arg, to.profile, to.from)
  PROVE  V!IInv'
<1> DEFINE state == v2
           unread == v3
           read == v4
           running == v5
           out == v6
           eof == v7
           reached == v12
<1>1. /\ running = {r} /\ state = "up" /\ r.of = Len(read) /\ r.of \in 1..Len(read)
      /\ r.line = read[r.of] /\ ~V!Malformed(r.line) /\ ~V!Notification(r.line)
  BY DEF V!IInv, V!Serial
<1>2. running' = {to} /\ UNCHANGED <<state, read, out, eof, unread, reached>>
  BY <1>1 DEF V!Advance, V!outside
<1>3. V!Serial'
  BY <1>1, <1>2 DEF V!Serial, V!Malformed, V!Notification, V!Resolves
<1>4. \A k : V!Answered(k)' <=> V!Answered(k)
  BY <1>2 DEF V!Answered
<1>5. \A k : V!Handled(k)' <=> V!Handled(k)
  BY <1>1, <1>2 DEF V!Handled
<1>6. V!RepliesInOrder'
  BY <1>1, <1>2, <1>4, <1>5 DEF V!IInv, V!RepliesInOrder, V!Due, V!Malformed, V!Notification
<1>7. V!NamesResolve'
  BY <1>2 DEF V!IInv, V!NamesResolve, V!Resolves
<1> QED
  BY <1>3, <1>6, <1>7 DEF V!IInv

\* The first profile that bears the name, or the only one that starts with it.
LEMMA ServerFound ==
  ASSUME V!TypeOK, NEW name, NEW i \in V!FindProfileByName(name)
  PROVE  i \in DOMAIN v9 /\ V!Resolves(name, v9[i], v9)
<1> DEFINE profiles == v9
<1>1. CASE V!Exact(name) # {}
  <2>0. V!Exact(name) \subseteq Nat
    BY DEF V!Exact, V!TypeOK
  <2>1. V!Exact(name) \subseteq Nat /\ V!Exact(name) # {} /\ i = CHOOSE x \in V!Exact(name) : \A j \in V!Exact(name) : x <= j
    BY <1>1, <2>0 DEF V!FindProfileByName
  <2>2. PICK n \in V!Exact(name) : \A m \in V!Exact(name) : n <= m
    <3> DEFINE S == V!Exact(name)
    <3>1. S \subseteq Nat /\ S # {}
      BY <2>1
    <3> HIDE DEF S
    <3>2. PICK n \in S : \A m \in S : ~(<<m, n>> \in OpToRel(<, Nat))
      BY Zenon, <3>1, NatLessThanWellFounded, WFMin
    <3>3. \A m \in S : n <= m
      <4> SUFFICES ASSUME NEW m \in S, ~(n <= m) PROVE FALSE
        OBVIOUS
      <4>1. m \in Nat /\ n \in Nat /\ m < n
        BY <3>1
      <4>2. <<m, n>> \in {ss \in Nat \X Nat : ss[1] < ss[2]}
        BY <4>1
      <4> QED
        BY <3>2, <4>2 DEF OpToRel
    <3> QED
      BY <3>3 DEF S
  <2>3. i \in V!Exact(name)
    BY <2>1, <2>2
  <2> QED
    BY <2>3 DEF V!Exact, V!Resolves
<1>2. CASE V!Exact(name) = {}
  <2>1. Cardinality(V!Starting(name)) = 1 /\ i \in V!Starting(name)
    BY <1>2 DEF V!FindProfileByName, V!Cardinality, Cardinality
  <2>2. IsFiniteSet(V!Starting(name))
    <3>1. IsFiniteSet(DOMAIN profiles)
      <4>1. Len(profiles) \in Nat /\ DOMAIN profiles = 1..Len(profiles)
        BY DEF V!TypeOK
      <4> QED
        BY <4>1, FS_Interval
    <3>2. V!Starting(name) \subseteq DOMAIN profiles
      BY DEF V!Starting
    <3> QED
      BY <3>1, <3>2, FS_Subset
  <2>3. PICK x : V!Starting(name) = {x}
    BY <2>1, <2>2, FS_Singleton
  <2>4. V!Starting(name) = {i}
    BY <2>1, <2>3
  <2> QED
    BY <2>4 DEF V!Starting, V!Resolves
<1> QED
  BY <1>1, <1>2

\* Taking a line keeps what is unread and read within the bound.
LEMMA ServerTakenBound ==
  ASSUME V!TypeOK, V!Take
  PROVE  Len(v3') + Len(v4') <= ServerMaxLines
<1> DEFINE unread == v3
           read == v4
<1>1. unread \in Seq(ClientLine) /\ unread # <<>> /\ read \in Seq(ClientLine) /\ ServerMaxLines \in Nat
  BY ServerAssumption DEF V!TypeOK, V!Take
<1>2. Len(unread) \in Nat /\ Len(unread') = Len(unread) - 1
  BY <1>1, HeadTailProperties DEF V!Take
<1> QED
  BY <1>1, <1>2, ServerTaken DEF V!TypeOK

LEMMA ServerSendKeeps ==
  ASSUME V!IInv, NEW line \in ClientLine, V!Send(line)
  PROVE  V!IInv'
<1> DEFINE unread == v3
<1>1. V!TypeOK'
  <2>1. unread \in Seq(ClientLine) /\ unread' = Append(unread, line)
    BY DEF V!IInv, V!TypeOK, V!Send
  <2>2. unread' \in Seq(ClientLine) /\ Len(unread') = Len(unread) + 1
    BY <2>1
  <2> QED
    BY <2>1, <2>2, ServerAssumption DEF V!IInv, V!TypeOK, V!Send, V!store
<1> QED
  BY <1>1, ServerApart DEF V!Send, V!IInv, V!Serial

LEMMA ServerCloseStdinKeeps ==
  ASSUME V!IInv, V!CloseStdin
  PROVE  V!IInv'
<1>1. V!TypeOK'
  BY DEF V!IInv, V!TypeOK, V!CloseStdin, V!store
<1> QED
  BY <1>1, ServerApart DEF V!CloseStdin, V!IInv, V!RepliesInOrder

LEMMA ServerEditProfileKeeps ==
  ASSUME V!IInv, NEW i \in DOMAIN v9, NEW entry \in ProfileEntry, V!EditProfile(i, entry)
  PROVE  V!IInv'
<1>1. V!TypeOK'
  BY ServerAssumption DEF V!IInv, V!TypeOK, V!EditProfile, V!server
<1> QED
  BY <1>1, ServerApart DEF V!EditProfile, V!server, V!IInv, V!RepliesInOrder, V!Serial

LEMMA ServerDeleteSecretKeeps ==
  ASSUME V!IInv, NEW s \in LoginSecret, V!DeleteSecret(s)
  PROVE  V!IInv'
<1>1. V!TypeOK'
  BY ServerAssumption DEF V!IInv, V!TypeOK, V!DeleteSecret, V!server
<1> QED
  BY <1>1, ServerApart DEF V!DeleteSecret, V!server, V!IInv, V!RepliesInOrder, V!Serial

LEMMA ServerTakeMalformedKeeps ==
  ASSUME V!IInv, V!TakeMalformed
  PROVE  V!IInv'
<1>1. V!TypeOK'
  BY ServerTaken, ServerTakenBound DEF V!IInv, V!TypeOK, V!TakeMalformed, V!outside, V!store
<1> QED
  BY <1>1, ServerAtOnce DEF V!TakeMalformed, V!Due

LEMMA ServerTakeNotificationKeeps ==
  ASSUME V!IInv, V!TakeNotification
  PROVE  V!IInv'
<1>1. V!TypeOK'
  BY ServerTaken, ServerTakenBound DEF V!IInv, V!TypeOK, V!TakeNotification, V!outside, V!store
<1> QED
  BY <1>1, ServerAtOnce DEF V!TakeNotification, V!Due

\* Sessions are numbered in the order of their requests.
LEMMA ServerNewSessionKeeps ==
  ASSUME V!IInv, V!NewSession
  PROVE  V!IInv'
<1> DEFINE unread == v3
           read == v4
           out == v6
           sessions == v8
<1>1. /\ V!Next1 \in ClientLine /\ unread' \in Seq(ClientLine) /\ read' \in Seq(ClientLine)
      /\ Len(read') = Len(read) + 1 /\ Len(read) \in Nat /\ Len(unread') + Len(read') <= ServerMaxLines
  BY ServerTaken, ServerTakenBound DEF V!IInv, V!NewSession
<1>2. Len(read) < ServerMaxLines
  <2>1. Len(unread') \in Nat
    BY <1>1
  <2> QED
    BY <1>1, <2>1, ServerAssumption
<1>3. sessions' \subseteq 1..ServerMaxLines
  <2> DEFINE S == {k \in 1..Len(read) : read[k].method = "session/new"}
  <2>1. IsFiniteSet(1..Len(read)) /\ Cardinality(1..Len(read)) = Len(read)
    <3>1. PICK n \in Nat : n = Len(read)
      BY <1>1
    <3>2. IsFiniteSet(1..n) /\ Cardinality(1..n) = IF 1 > n THEN 0 ELSE n - 1 + 1
      BY FS_Interval
    <3>3. IsFiniteSet(1..n) /\ Cardinality(1..n) = n
      BY <3>2
    <3> QED
      BY <3>1, <3>3
  <2>2. IsFiniteSet(S) /\ Cardinality(S) <= Cardinality(1..Len(read))
    BY <2>1, FS_Subset
  <2>3. Cardinality(S) \in Nat
    BY <2>2, FS_CardinalityType
  <2>4. sessions' = sessions \cup {1 + Cardinality(S)}
    BY DEF V!NewSession, V!Cardinality, Cardinality
  <2>5. PICK n \in Nat : n = Cardinality(S)
    BY <2>3
  <2>6. 1 + n \in 1..ServerMaxLines
    BY <1>1, <1>2, <2>1, <2>2, <2>5, ServerAssumption
  <2>7. sessions' = sessions \cup {1 + n}
    BY <2>4, <2>5
  <2>8. sessions \subseteq 1..ServerMaxLines
    BY DEF V!IInv, V!TypeOK
  <2> QED
    BY <2>6, <2>7, <2>8
<1>4. out' \in Seq(V!Answer)
  <2>1. V!Reply(V!Next1, Len(read'), "result") /\ out \in Seq(V!Answer) /\ Len(read') \in Nat
    BY <1>1 DEF V!NewSession, V!IInv, V!TypeOK
  <2>2. PICK line \in ClientLine : line = V!Next1
    BY <1>1
  <2>3. PICK of \in Nat : of = Len(read')
    BY <2>1
  <2>4. V!Reply(line, of, "result")
    BY <2>1, <2>2, <2>3
  <2> QED
    BY <2>1, <2>4, ServerReplied
<1>5. V!TypeOK'
  BY <1>1, <1>3, <1>4 DEF V!IInv, V!TypeOK, V!NewSession, V!outside, V!store
<1>6. V!Due(V!Next1) <=> V!Next1.id # None
  BY DEF V!NewSession, V!Due, V!Malformed, V!Notification
<1>7. \E how \in {"result", "error"} : V!Reply(V!Next1, Len(read'), how)
  BY DEF V!NewSession
<1> QED
  BY <1>5, <1>6, <1>7, ServerAtOnce DEF V!NewSession

\* The answer to a line that is taken.
LEMMA ServerAnswerType ==
  ASSUME V!TypeOK, V!Take, NEW how \in {"result", "error"}, V!Reply(V!Next1, Len(v4'), how)
  PROVE  v6' \in Seq(V!Answer)
<1> DEFINE read == v4
           out == v6
<1>1. out \in Seq(V!Answer) /\ Len(read') \in Nat /\ V!Next1 \in ClientLine
  BY ServerTaken DEF V!TypeOK
<1>2. PICK line \in ClientLine : line = V!Next1
  BY <1>1
<1>3. PICK of \in Nat : of = Len(read')
  BY <1>1
<1>4. V!Reply(line, of, how)
  BY <1>2, <1>3
<1> QED
  BY <1>1, <1>4, ServerReplied

LEMMA ServerCloseSessionKeeps ==
  ASSUME V!IInv, V!CloseSession
  PROVE  V!IInv'
<1> DEFINE read == v4
           out == v6
<1>1. V!Take /\ V!TypeOK /\ V!Reply(V!Next1, Len(read'), "result")
  BY DEF V!CloseSession, V!IInv
<1>2. out' \in Seq(V!Answer)
  BY <1>1, ServerAnswerType
<1>3. V!TypeOK'
  BY <1>1, <1>2, ServerTaken, ServerTakenBound DEF V!TypeOK, V!CloseSession, V!outside, V!store
<1>4. V!Due(V!Next1) <=> V!Next1.id # None
  BY DEF V!CloseSession, V!Due, V!Malformed, V!Notification
<1> QED
  BY <1>1, <1>3, <1>4, ServerAtOnce DEF V!CloseSession

LEMMA ServerAnswerAtOnceKeeps ==
  ASSUME V!IInv, V!AnswerAtOnce
  PROVE  V!IInv'
<1> DEFINE read == v4
           out == v6
<1>1. V!Take /\ V!TypeOK
  BY DEF V!AnswerAtOnce, V!IInv
<1>2. PICK how \in {"result", "error"} : V!Reply(V!Next1, Len(read'), how)
  BY DEF V!AnswerAtOnce
<1>3. out' \in Seq(V!Answer)
  BY <1>1, <1>2, ServerAnswerType
<1>4. V!TypeOK'
  BY <1>1, <1>3, ServerTaken, ServerTakenBound DEF V!TypeOK, V!AnswerAtOnce, V!outside, V!store
<1>5. V!Due(V!Next1) <=> V!Next1.id # None
  BY DEF V!AnswerAtOnce, V!Due
<1> QED
  BY <1>1, <1>2, <1>4, <1>5, ServerAtOnce DEF V!AnswerAtOnce

LEMMA ServerBeginKeeps ==
  ASSUME V!IInv, V!Begin
  PROVE  V!IInv'
<1> DEFINE state == v2
           unread == v3
           read == v4
           running == v5
           out == v6
           sessions == v8
           reached == v12
<1>1. V!Take /\ V!TypeOK /\ running = {} /\ state = "up"
  BY DEF V!Begin, V!Take, V!IInv
<1>2. /\ V!Next1 \in ClientLine /\ unread' \in Seq(ClientLine) /\ read' \in Seq(ClientLine)
      /\ Len(read') = Len(read) + 1 /\ Len(read) \in Nat /\ read'[Len(read) + 1] = V!Next1
      /\ \A k \in 1..Len(read) : read'[k] = read[k]
  BY <1>1, ServerTaken
<1>3. PICK line \in ClientLine : line = V!Next1
  BY <1>2
<1>4. PICK step \in {"profile", "run"} :
        running' = {[line |-> line, of |-> Len(read'), profile |-> None, from |-> None, step |-> step]}
  <2> DEFINE step == IF V!Next1.method # "session/prompt" /\ V!Next1.tool # "local_execute"
                     THEN "profile" ELSE "run"
  <2>1. running' = {} \cup {[line |-> line, of |-> Len(read'), profile |-> None, from |-> None, step |-> step]}
    BY <1>1, <1>3 DEF V!Begin
  <2>2. step \in {"profile", "run"}
    OBVIOUS
  <2> HIDE DEF step
  <2> QED
    BY <2>1, <2>2
<1>5. ~V!Malformed(line) /\ ~V!Notification(line)
  BY <1>3 DEF V!Begin, V!Waits, V!Malformed, V!Notification
<1>6. UNCHANGED <<V!outside, state, out, sessions, reached>>
  BY DEF V!Begin
<1>7. V!TypeOK'
  <2>1. running' \subseteq V!Handling
    BY <1>2, <1>4 DEF V!Handling
  <2> QED
    BY <1>1, <1>2, <1>6, <2>1, ServerTakenBound DEF V!TypeOK, V!outside, V!store
<1>8. V!Serial'
  BY <1>1, <1>2, <1>3, <1>4, <1>5, <1>6 DEF V!Serial, V!Malformed, V!Notification, V!outside
<1>9. V!RepliesInOrder'
  <2>1. \A k \in 1..Len(read) : V!Due(read[k]) => V!Answered(k)
    BY <1>1 DEF V!IInv, V!RepliesInOrder, V!Handled
  <2>2. \A i \in 1..Len(out) : /\ out[i].of \in 1..Len(read) /\ V!Due(read[out[i].of])
                               /\ out[i].id = read[out[i].of].id
    BY DEF V!IInv, V!RepliesInOrder
  <2>3. \A k \in 1..Len(read') : V!Handled(k)' <=> k = Len(read) + 1
    BY <1>2, <1>4 DEF V!Handled
  <2>4. \A k \in 1..Len(read') : V!Due(read[k])' <=> V!Due(read'[k])
    BY DEF V!Due, V!Malformed, V!Notification
  <2>5. \A k \in 1..Len(read') : V!Answered(k)' <=> V!Answered(k)
    BY <1>6 DEF V!Answered
  <2>6. ~V!Answered(Len(read) + 1)
    BY <1>2, <2>2 DEF V!Answered
  <2>7. \A k \in 1..Len(read') : V!Due(read'[k]) => (V!Answered(k)' <=> ~V!Handled(k)')
    <3> SUFFICES ASSUME NEW k \in 1..Len(read'), V!Due(read'[k]) PROVE V!Answered(k)' <=> ~V!Handled(k)'
      OBVIOUS
    <3>1. CASE k = Len(read) + 1
      BY <2>3, <2>5, <2>6, <3>1
    <3>2. CASE k # Len(read) + 1
      <4>1. k \in 1..Len(read) /\ read'[k] = read[k]
        BY <1>2, <3>2
      <4> QED
        BY <2>1, <2>3, <2>5, <3>2, <4>1
    <3> QED
      BY <3>1, <3>2
  <2>8. \A i, j \in 1..Len(out') : i < j => out'[i].of < out'[j].of
    BY <1>6 DEF V!IInv, V!RepliesInOrder
  <2>9. \A i \in 1..Len(out') : /\ out'[i].of \in 1..Len(read') /\ V!Due(read'[out'[i].of])
                                /\ out'[i].id = read'[out'[i].of].id
    BY <1>2, <1>6, <2>2
  <2>10. \A i \in 1..Len(out') : V!Due(read[out[i].of])' <=> V!Due(read'[out'[i].of])
    BY DEF V!Due, V!Malformed, V!Notification
  <2>11. state' = "up"
    BY <1>1, <1>6
  <2> QED
    BY <2>4, <2>7, <2>8, <2>9, <2>10, <2>11 DEF V!RepliesInOrder
<1>10. V!NamesResolve'
  BY <1>6 DEF V!IInv, V!NamesResolve, V!Resolves
<1> QED
  BY <1>7, <1>8, <1>9, <1>10 DEF V!IInv

\* Being handled, and the reply to it.
LEMMA ServerFinishType ==
  ASSUME V!TypeOK, NEW r \in v5, NEW how \in {"result", "isError", "error"}, V!Finish(r, how)
  PROVE  V!TypeOK'
<1> DEFINE out == v6
<1>1. r.line \in ClientLine /\ r.of \in Nat /\ out \in Seq(V!Answer) /\ V!Reply(r.line, r.of, how)
  BY DEF V!TypeOK, V!Handling, V!Finish
<1>2. PICK line \in ClientLine : line = r.line
  BY <1>1
<1>3. PICK of \in Nat : of = r.of
  BY <1>1
<1>4. out' \in Seq(V!Answer)
  BY <1>1, <1>2, <1>3, ServerReplied
<1> QED
  BY <1>4 DEF V!TypeOK, V!Finish, V!outside, V!store

LEMMA ServerRunKeeps ==
  ASSUME V!IInv, NEW r \in v5, V!Run(r)
  PROVE  V!IInv'
<1>1. PICK how \in {"result", "isError"} : V!Finish(r, how)
  BY DEF V!Run
<1>2. V!TypeOK'
  BY <1>1, ServerFinishType DEF V!IInv
<1>3. V!NamesResolve'
  BY DEF V!Run, V!IInv, V!NamesResolve, V!Resolves
<1> QED
  BY <1>1, <1>2, <1>3, ServerFinished

LEMMA ServerThrowsKeeps ==
  ASSUME V!IInv, NEW r \in v5, NEW how \in {"result", "isError"}, V!Finish(r, how), UNCHANGED v12
  PROVE  V!IInv'
<1>1. V!TypeOK'
  BY ServerFinishType DEF V!IInv
<1>2. V!NamesResolve'
  BY DEF V!IInv, V!NamesResolve, V!Resolves
<1> QED
  BY <1>1, <1>2, ServerFinished

LEMMA ServerLookUpKeeps ==
  ASSUME V!IInv, NEW r \in v5, V!LookUp(r)
  PROVE  V!IInv'
<1> DEFINE profiles == v9
           reached == v12
<1>1. CASE V!Throws(r)
  BY <1>1, ServerThrowsKeeps DEF V!Throws
<1>2. CASE V!Finish(r, "result") /\ UNCHANGED reached
  BY <1>2, ServerThrowsKeeps
<1>3. CASE \E i \in V!FindProfileByName(r.line.arg) :
             /\ profiles[i].ssh
             /\ V!Advance(r, [r EXCEPT !.profile = profiles[i], !.from = profiles,
                            !.step = IF profiles[i].secret = None THEN "connect" ELSE "secret"])
  <2>1. PICK i \in V!FindProfileByName(r.line.arg) :
          V!Advance(r, [r EXCEPT !.profile = profiles[i], !.from = profiles,
                      !.step = IF profiles[i].secret = None THEN "connect" ELSE "secret"])
    BY Zenon, <1>3
  <2>2. PICK name : name = r.line.arg
    OBVIOUS
  <2>3. i \in DOMAIN profiles /\ V!Resolves(name, profiles[i], profiles)
    BY <2>1, <2>2, ServerFound DEF V!IInv
  <2>4. PICK to : /\ to = [r EXCEPT !.profile = profiles[i], !.from = profiles,
                                    !.step = IF profiles[i].secret = None THEN "connect" ELSE "secret"]
    OBVIOUS
  <2>5. r \in V!Handling /\ profiles \in Seq(ProfileEntry) /\ profiles[i] \in ProfileEntry
    BY <2>3 DEF V!IInv, V!TypeOK
  <2>6. to \in V!Handling /\ to.line = r.line /\ to.of = r.of /\ to.profile = profiles[i] /\ to.from = profiles
    BY <2>4, <2>5 DEF V!Handling
  <2>7. V!Advance(r, to)
    BY <2>1, <2>4
  <2>8. V!TypeOK'
    BY <2>6, <2>7 DEF V!IInv, V!TypeOK, V!Advance, V!outside, V!store
  <2>9. V!Resolves(to.line.arg, to.profile, to.from)
    BY <2>2, <2>3, <2>6
  <2> QED
    BY <2>6, <2>7, <2>8, <2>9, ServerAdvanced
<1> QED
  BY Zenon, <1>1, <1>2, <1>3 DEF V!LookUp

LEMMA ServerLookUpSecretKeeps ==
  ASSUME V!IInv, NEW r \in v5, V!LookUpSecret(r)
  PROVE  V!IInv'
<1>1. CASE V!Throws(r)
  BY <1>1, ServerThrowsKeeps DEF V!Throws
<1>2. CASE V!Advance(r, [r EXCEPT !.step = "connect"])
  <2>1. PICK to : to = [r EXCEPT !.step = "connect"]
    OBVIOUS
  <2>2. r \in V!Handling
    BY DEF V!IInv, V!TypeOK
  <2>3. to \in V!Handling /\ to.line = r.line /\ to.of = r.of /\ to.profile = r.profile /\ to.from = r.from
    BY <2>1, <2>2 DEF V!Handling
  <2>4. V!Advance(r, to)
    BY <1>2, <2>1
  <2>5. V!TypeOK'
    BY <2>3, <2>4 DEF V!IInv, V!TypeOK, V!Advance, V!outside, V!store
  <2>6. V!Resolves(r.line.arg, r.profile, r.from)
    BY DEF V!LookUpSecret, V!IInv, V!Serial
  <2> QED
    BY <2>3, <2>4, <2>5, <2>6, ServerAdvanced
<1> QED
  BY <1>1, <1>2 DEF V!LookUpSecret

LEMMA ServerConnectKeeps ==
  ASSUME V!IInv, NEW r \in v5, V!Connect(r)
  PROVE  V!IInv'
<1>1. PICK how \in {"result", "isError"} : V!Finish(r, how)
  BY DEF V!Connect
<1>2. V!TypeOK'
  BY <1>1, ServerFinishType DEF V!IInv
<1>3. V!Resolves(r.line.arg, r.profile, r.from)
  BY DEF V!Connect, V!IInv, V!Serial
<1>4. V!NamesResolve'
  BY <1>3 DEF V!Connect, V!IInv, V!NamesResolve, V!Resolves
<1> QED
  BY <1>1, <1>2, <1>4, ServerFinished

LEMMA ServerEndKeeps ==
  ASSUME V!IInv, V!End
  PROVE  V!IInv'
<1>1. V!TypeOK'
  BY DEF V!IInv, V!TypeOK, V!End, V!store
<1> QED
  BY <1>1, ServerApart DEF V!End

LEMMA ServerInitHolds ==
  ASSUME V!Init
  PROVE  V!IInv
<1> DEFINE unread == v3
           read == v4
           out == v6
           profiles == v9
           edits == v11
<1>1. V!TypeOK
  <2>1. unread \in Seq(ClientLine) /\ read \in Seq(ClientLine) /\ out \in Seq(V!Answer) /\ Len(unread) + Len(read) = 0
    BY DEF V!Init
  <2>2. profiles \in Seq(ProfileEntry) /\ Len(unread) + Len(read) <= ServerMaxLines /\ edits \in 0..ServerMaxEdits
    BY <2>1, ServerAssumption DEF V!Init
  <2> QED
    BY <2>1, <2>2 DEF V!Init, V!TypeOK
<1>2. Len(read) = 0 /\ Len(out) = 0
  BY DEF V!Init
<1>3. V!Serial /\ V!NamesResolve
  BY DEF V!Init, V!Serial, V!NamesResolve
<1>4. V!RepliesInOrder
  BY <1>2 DEF V!Init, V!RepliesInOrder
<1> QED
  BY <1>1, <1>3, <1>4 DEF V!IInv

LEMMA ServerStutterStep ==
  ASSUME V!IInv, UNCHANGED V!vars
  PROVE  V!IInv'
<1>1. V!TypeOK'
  BY DEF V!IInv, V!TypeOK, V!vars
<1> QED
  BY <1>1, ServerApart DEF V!vars, V!IInv, V!RepliesInOrder, V!Serial

LEMMA ServerNextStep ==
  ASSUME V!IInv, V!Next
  PROVE  V!IInv'
<1> DEFINE running == v5
           profiles == v9
<1>1. CASE \E line \in ClientLine : V!Send(line)
  BY <1>1, ServerSendKeeps
<1>2. CASE V!CloseStdin \/ V!End
  BY <1>2, ServerCloseStdinKeeps, ServerEndKeeps
<1>3. CASE \E i \in DOMAIN profiles, entry \in ProfileEntry : V!EditProfile(i, entry)
  BY <1>3, ServerEditProfileKeeps
<1>4. CASE \E s \in LoginSecret : V!DeleteSecret(s)
  BY <1>4, ServerDeleteSecretKeeps
<1>5. CASE V!TakeMalformed \/ V!TakeNotification \/ V!NewSession \/ V!CloseSession
  BY <1>5, ServerTakeMalformedKeeps, ServerTakeNotificationKeeps, ServerNewSessionKeeps,
     ServerCloseSessionKeeps
<1>6. CASE V!AnswerAtOnce \/ V!Begin
  BY <1>6, ServerAnswerAtOnceKeeps, ServerBeginKeeps
<1>7. CASE \E r \in running : V!Run(r) \/ V!LookUp(r) \/ V!LookUpSecret(r) \/ V!Connect(r)
  BY <1>7, ServerRunKeeps, ServerLookUpKeeps, ServerLookUpSecretKeeps, ServerConnectKeeps
<1> QED
  BY <1>1, <1>2, <1>3, <1>4, <1>5, <1>6, <1>7 DEF V!Next

-----------------------------------------------------------------------------
\* The commands of the command line: the key is resolved before a password.

\* A command that goes on, or ends, is one that may run.
LEMMA HeadlessStepType ==
  ASSUME H!TypeOK, NEW c \in HeadlessCommand
  PROVE  /\ \A step \in {"none", "write", "password", "fetch", "profiles", "secrets", "proxies"} :
              H!Step(c, step) => v6' \in [HeadlessCommand -> H!Commands]
         /\ H!End(c) => v6' \in [HeadlessCommand -> H!Commands]
<1> DEFINE command == v6
<1>1. H!Idle \in H!Commands
  BY DEF H!Idle, H!Commands
<1>2. \A step \in {"none", "write", "password", "fetch", "profiles", "secrets", "proxies"} :
        [command[c] EXCEPT !.step = step] \in H!Commands
  BY DEF H!TypeOK, H!Commands
<1> QED
  BY <1>1, <1>2 DEF H!TypeOK, H!Step, H!End

LEMMA HeadlessExportStep ==
  ASSUME H!IInv, H!Export
  PROVE  H!IInv'
<1> USE KeyAssumption DEF H!outside, H!claims, H!Start, H!Step, H!End, H!File, H!Repository
<1>1. H!TypeOK'
  BY DEF H!Export, H!IInv, H!TypeOK, H!Resolved, H!Idle, H!After, H!Commands
<1>2. H!KeyBeforePassword'
  BY DEF H!Export, H!IInv, H!TypeOK, H!KeyBeforePassword, H!Idle, H!After, H!Commands
<1>3. H!KeyFileOpens'
  BY DEF H!Export, H!IInv, H!TypeOK, H!KeyFileOpens, H!Accepts, H!Opens
<1>4. H!DoctorTells'
  BY DEF H!Export, H!IInv, H!TypeOK, H!DoctorTells, H!Readable, H!Opens, H!Resolved, H!ENCRYPTED
<1>5. H!SetupOpens'
  BY DEF H!Export, H!IInv, H!TypeOK, H!KeyBeforePassword, H!SetupOpens, H!Opens, H!Resolved
<1> QED
  BY <1>1, <1>2, <1>3, <1>4, <1>5 DEF H!IInv

LEMMA HeadlessAppSavesStep ==
  ASSUME H!IInv, NEW f \in H!File, H!AppSaves(f)
  PROVE  H!IInv'
<1> USE KeyAssumption DEF H!outside, H!claims, H!Start, H!Step, H!End, H!File, H!Repository
<1>1. H!TypeOK'
  BY DEF H!AppSaves, H!IInv, H!TypeOK, H!Resolved, H!Idle, H!After, H!Commands
<1>2. H!KeyBeforePassword'
  BY DEF H!AppSaves, H!IInv, H!TypeOK, H!KeyBeforePassword, H!Idle, H!After, H!Commands
<1>3. H!KeyFileOpens'
  BY DEF H!AppSaves, H!IInv, H!TypeOK, H!KeyFileOpens, H!Accepts, H!Opens
<1>4. H!DoctorTells'
  BY DEF H!AppSaves, H!IInv, H!TypeOK, H!DoctorTells, H!Readable, H!Opens, H!Resolved, H!ENCRYPTED
<1>5. H!SetupOpens'
  BY DEF H!AppSaves, H!IInv, H!TypeOK, H!KeyBeforePassword, H!SetupOpens, H!Opens, H!Resolved
<1> QED
  BY <1>1, <1>2, <1>3, <1>4, <1>5 DEF H!IInv

LEMMA HeadlessSetStep ==
  ASSUME H!IInv, NEW c \in HeadlessCommand, NEW key \in MasterKey, NEW force \in BOOLEAN, H!Set(c, key, force)
  PROVE  H!IInv'
<1> USE KeyAssumption DEF H!outside, H!claims, H!Start, H!Step, H!End, H!File, H!Repository
<1>1. H!TypeOK'
  BY DEF H!Set, H!IInv, H!TypeOK, H!Resolved, H!Idle, H!After, H!Commands
<1>2. H!KeyBeforePassword'
  BY DEF H!Set, H!IInv, H!TypeOK, H!KeyBeforePassword, H!Idle, H!After, H!Commands
<1>3. H!KeyFileOpens'
  BY DEF H!Set, H!IInv, H!TypeOK, H!KeyFileOpens, H!Accepts, H!Opens
<1>4. H!DoctorTells'
  BY DEF H!Set, H!IInv, H!TypeOK, H!DoctorTells, H!Readable, H!Opens, H!Resolved, H!ENCRYPTED
<1>5. H!SetupOpens'
  BY DEF H!Set, H!IInv, H!TypeOK, H!KeyBeforePassword, H!SetupOpens, H!Opens, H!Resolved
<1> QED
  BY <1>1, <1>2, <1>3, <1>4, <1>5 DEF H!IInv

LEMMA HeadlessSetupStep ==
  ASSUME H!IInv, NEW c \in HeadlessCommand, NEW explicit \in MasterKey \cup {None}, NEW force \in BOOLEAN, H!Setup(c, explicit, force)
  PROVE  H!IInv'
<1> USE KeyAssumption DEF H!outside, H!claims, H!Start, H!Step, H!End, H!File, H!Repository
<1>1. H!TypeOK'
  BY DEF H!Setup, H!IInv, H!TypeOK, H!Resolved, H!Idle, H!After, H!Commands
<1>2. H!KeyBeforePassword'
  BY DEF H!Setup, H!IInv, H!TypeOK, H!KeyBeforePassword, H!Idle, H!After, H!Commands
<1>3. H!KeyFileOpens'
  BY DEF H!Setup, H!IInv, H!TypeOK, H!KeyFileOpens, H!Accepts, H!Opens
<1>4. H!DoctorTells'
  BY DEF H!Setup, H!IInv, H!TypeOK, H!DoctorTells, H!Readable, H!Opens, H!Resolved, H!ENCRYPTED
<1>5. H!SetupOpens'
  BY DEF H!Setup, H!IInv, H!TypeOK, H!KeyBeforePassword, H!SetupOpens, H!Opens, H!Resolved
<1> QED
  BY <1>1, <1>2, <1>3, <1>4, <1>5 DEF H!IInv

LEMMA HeadlessDownloadStep ==
  ASSUME H!IInv, NEW c \in HeadlessCommand, NEW explicit \in MasterKey \cup {None}, H!Download(c, explicit)
  PROVE  H!IInv'
<1> USE KeyAssumption DEF H!outside, H!claims, H!Start, H!Step, H!End, H!File, H!Repository
<1>1. H!TypeOK'
  BY DEF H!Download, H!IInv, H!TypeOK, H!Resolved, H!Idle, H!After, H!Commands
<1>2. H!KeyBeforePassword'
  BY DEF H!Download, H!IInv, H!TypeOK, H!KeyBeforePassword, H!Idle, H!After, H!Commands
<1>3. H!KeyFileOpens'
  BY DEF H!Download, H!IInv, H!TypeOK, H!KeyFileOpens, H!Accepts, H!Opens
<1>4. H!DoctorTells'
  BY DEF H!Download, H!IInv, H!TypeOK, H!DoctorTells, H!Readable, H!Opens, H!Resolved, H!ENCRYPTED
<1>5. H!SetupOpens'
  BY DEF H!Download, H!IInv, H!TypeOK, H!KeyBeforePassword, H!SetupOpens, H!Opens, H!Resolved
<1> QED
  BY <1>1, <1>2, <1>3, <1>4, <1>5 DEF H!IInv

LEMMA HeadlessAnswerOverwriteStep ==
  ASSUME H!IInv, NEW c \in HeadlessCommand, H!AnswerOverwrite(c)
  PROVE  H!IInv'
<1> DEFINE file == v5
           command == v6
           vouched == v8
           passed == v9
           sealed == v10
<1> USE KeyAssumption DEF H!outside, H!claims, H!Start, H!Step, H!End, H!File, H!Repository
<1>1. H!TypeOK'
  <2>1. command' \in [HeadlessCommand -> H!Commands]
    BY HeadlessStepType DEF H!AnswerOverwrite, H!IInv, H!After
  <2>2. file' \in [H!File -> MasterKey \cup {None}]
    BY DEF H!AnswerOverwrite, H!IInv, H!TypeOK, H!Commands
  <2>3. vouched' \in BOOLEAN /\ passed' \in BOOLEAN /\ sealed' \in BOOLEAN
    BY DEF H!AnswerOverwrite, H!IInv, H!TypeOK
  <2> HIDE DEF H!Step, H!End
  <2> QED
    BY <2>1, <2>2, <2>3 DEF H!AnswerOverwrite, H!IInv, H!TypeOK
<1>2. H!KeyBeforePassword'
  BY DEF H!AnswerOverwrite, H!IInv, H!TypeOK, H!KeyBeforePassword, H!Idle, H!After, H!Commands
<1>3. H!KeyFileOpens'
  BY DEF H!AnswerOverwrite, H!IInv, H!TypeOK, H!KeyFileOpens, H!Accepts, H!Opens
<1>4. H!DoctorTells'
  BY DEF H!AnswerOverwrite, H!IInv, H!TypeOK, H!DoctorTells, H!Readable, H!Opens, H!Resolved,
     H!ENCRYPTED
<1>5. H!SetupOpens'
  BY DEF H!AnswerOverwrite, H!IInv, H!TypeOK, H!KeyBeforePassword, H!SetupOpens, H!Opens, H!Resolved
<1> QED
  BY <1>1, <1>2, <1>3, <1>4, <1>5 DEF H!IInv

LEMMA HeadlessWriteKeyStep ==
  ASSUME H!IInv, NEW c \in HeadlessCommand, H!WriteKey(c)
  PROVE  H!IInv'
<1> USE KeyAssumption DEF H!outside, H!claims, H!Start, H!Step, H!End, H!File, H!Repository
<1>1. H!TypeOK'
  BY DEF H!WriteKey, H!IInv, H!TypeOK, H!Resolved, H!Idle, H!After, H!Commands
<1>2. H!KeyBeforePassword'
  BY DEF H!WriteKey, H!IInv, H!TypeOK, H!KeyBeforePassword, H!Idle, H!After, H!Commands
<1>3. H!KeyFileOpens'
  BY DEF H!WriteKey, H!IInv, H!TypeOK, H!KeyFileOpens, H!Accepts, H!Opens
<1>4. H!DoctorTells'
  BY DEF H!WriteKey, H!IInv, H!TypeOK, H!DoctorTells, H!Readable, H!Opens, H!Resolved, H!ENCRYPTED
<1>5. H!SetupOpens'
  BY DEF H!WriteKey, H!IInv, H!TypeOK, H!KeyBeforePassword, H!SetupOpens, H!Opens, H!Resolved
<1> QED
  BY <1>1, <1>2, <1>3, <1>4, <1>5 DEF H!IInv

LEMMA HeadlessRefuseKeyStep ==
  ASSUME H!IInv, NEW c \in HeadlessCommand, H!RefuseKey(c)
  PROVE  H!IInv'
<1> USE KeyAssumption DEF H!outside, H!claims, H!Start, H!Step, H!End, H!File, H!Repository
<1>1. H!TypeOK'
  BY DEF H!RefuseKey, H!IInv, H!TypeOK, H!Resolved, H!Idle, H!After, H!Commands
<1>2. H!KeyBeforePassword'
  BY DEF H!RefuseKey, H!IInv, H!TypeOK, H!KeyBeforePassword, H!Idle, H!After, H!Commands
<1>3. H!KeyFileOpens'
  BY DEF H!RefuseKey, H!IInv, H!TypeOK, H!KeyFileOpens, H!Accepts, H!Opens
<1>4. H!DoctorTells'
  BY DEF H!RefuseKey, H!IInv, H!TypeOK, H!DoctorTells, H!Readable, H!Opens, H!Resolved, H!ENCRYPTED
<1>5. H!SetupOpens'
  BY DEF H!RefuseKey, H!IInv, H!TypeOK, H!KeyBeforePassword, H!SetupOpens, H!Opens, H!Resolved
<1> QED
  BY <1>1, <1>2, <1>3, <1>4, <1>5 DEF H!IInv

LEMMA HeadlessWriteCloudStep ==
  ASSUME H!IInv, NEW c \in HeadlessCommand, H!WriteCloud(c)
  PROVE  H!IInv'
<1> DEFINE file == v5
           command == v6
           vouched == v8
           passed == v9
           sealed == v10
<1> USE KeyAssumption DEF H!outside, H!claims, H!Start, H!Step, H!End, H!File, H!Repository
<1>1. H!TypeOK'
  <2>1. command' \in [HeadlessCommand -> H!Commands]
    BY HeadlessStepType DEF H!WriteCloud, H!IInv, H!After
  <2>2. file' \in [H!File -> MasterKey \cup {None}]
    BY DEF H!WriteCloud, H!IInv, H!TypeOK, H!Commands
  <2>3. vouched' \in BOOLEAN /\ passed' \in BOOLEAN /\ sealed' \in BOOLEAN
    BY DEF H!WriteCloud, H!IInv, H!TypeOK
  <2> HIDE DEF H!Step, H!End
  <2> QED
    BY <2>1, <2>2, <2>3 DEF H!WriteCloud, H!IInv, H!TypeOK
<1>2. H!KeyBeforePassword'
  BY DEF H!WriteCloud, H!IInv, H!TypeOK, H!KeyBeforePassword, H!Idle, H!After, H!Commands
<1>3. H!KeyFileOpens'
  BY DEF H!WriteCloud, H!IInv, H!TypeOK, H!KeyFileOpens, H!Accepts, H!Opens
<1>4. H!DoctorTells'
  BY DEF H!WriteCloud, H!IInv, H!TypeOK, H!DoctorTells, H!Readable, H!Opens, H!Resolved, H!ENCRYPTED
<1>5. H!SetupOpens'
  BY DEF H!WriteCloud, H!IInv, H!TypeOK, H!KeyBeforePassword, H!SetupOpens, H!Opens, H!Resolved
<1> QED
  BY <1>1, <1>2, <1>3, <1>4, <1>5 DEF H!IInv

LEMMA HeadlessExitStep ==
  ASSUME H!IInv, NEW c \in HeadlessCommand, H!Exit(c)
  PROVE  H!IInv'
<1> USE KeyAssumption DEF H!outside, H!claims, H!Start, H!Step, H!End, H!File, H!Repository
<1>1. H!TypeOK'
  BY DEF H!Exit, H!IInv, H!TypeOK, H!Resolved, H!Idle, H!After, H!Commands
<1>2. H!KeyBeforePassword'
  BY DEF H!Exit, H!IInv, H!TypeOK, H!KeyBeforePassword, H!Idle, H!After, H!Commands
<1>3. H!KeyFileOpens'
  BY DEF H!Exit, H!IInv, H!TypeOK, H!KeyFileOpens, H!Accepts, H!Opens
<1>4. H!DoctorTells'
  BY DEF H!Exit, H!IInv, H!TypeOK, H!DoctorTells, H!Readable, H!Opens, H!Resolved, H!ENCRYPTED
<1>5. H!SetupOpens'
  BY DEF H!Exit, H!IInv, H!TypeOK, H!KeyBeforePassword, H!SetupOpens, H!Opens, H!Resolved
<1> QED
  BY <1>1, <1>2, <1>3, <1>4, <1>5 DEF H!IInv

LEMMA HeadlessFetchedStep ==
  ASSUME H!IInv, NEW c \in HeadlessCommand, H!Fetched(c)
  PROVE  H!IInv'
<1> USE KeyAssumption DEF H!outside, H!claims, H!Start, H!Step, H!End, H!File, H!Repository
<1>1. H!TypeOK'
  BY DEF H!Fetched, H!IInv, H!TypeOK, H!Resolved, H!Idle, H!After, H!Commands
<1>2. H!KeyBeforePassword'
  BY DEF H!Fetched, H!IInv, H!TypeOK, H!KeyBeforePassword, H!Idle, H!After, H!Commands
<1>3. H!KeyFileOpens'
  BY DEF H!Fetched, H!IInv, H!TypeOK, H!KeyFileOpens, H!Accepts, H!Opens
<1>4. H!DoctorTells'
  BY DEF H!Fetched, H!IInv, H!TypeOK, H!DoctorTells, H!Readable, H!Opens, H!Resolved, H!ENCRYPTED
<1>5. H!SetupOpens'
  BY DEF H!Fetched, H!IInv, H!TypeOK, H!KeyBeforePassword, H!SetupOpens, H!Opens, H!Resolved
<1> QED
  BY <1>1, <1>2, <1>3, <1>4, <1>5 DEF H!IInv

LEMMA HeadlessReplaceStep ==
  ASSUME H!IInv, NEW c \in HeadlessCommand, NEW f \in H!Repository, H!Replace(c, f)
  PROVE  H!IInv'
<1> DEFINE file == v5
           command == v6
           vouched == v8
           passed == v9
           sealed == v10
<1> USE KeyAssumption DEF H!outside, H!claims, H!Start, H!Step, H!End, H!File, H!Repository
<1>1. H!TypeOK'
  <2>1. command' \in [HeadlessCommand -> H!Commands]
    BY HeadlessStepType DEF H!Replace, H!IInv, H!After
  <2>2. file' \in [H!File -> MasterKey \cup {None}]
    BY DEF H!Replace, H!IInv, H!TypeOK, H!Commands
  <2>3. vouched' \in BOOLEAN /\ passed' \in BOOLEAN /\ sealed' \in BOOLEAN
    BY DEF H!Replace, H!IInv, H!TypeOK
  <2> HIDE DEF H!Step, H!End
  <2> QED
    BY <2>1, <2>2, <2>3 DEF H!Replace, H!IInv, H!TypeOK
<1>2. H!KeyBeforePassword'
  BY DEF H!Replace, H!IInv, H!TypeOK, H!KeyBeforePassword, H!Idle, H!After, H!Commands
<1>3. H!KeyFileOpens'
  BY DEF H!Replace, H!IInv, H!TypeOK, H!KeyFileOpens, H!Accepts, H!Opens
<1>4. H!DoctorTells'
  BY DEF H!Replace, H!IInv, H!TypeOK, H!DoctorTells, H!Readable, H!Opens, H!Resolved, H!ENCRYPTED
<1>5. H!SetupOpens'
  BY DEF H!Replace, H!IInv, H!TypeOK, H!KeyBeforePassword, H!SetupOpens, H!Opens, H!Resolved
<1> QED
  BY <1>1, <1>2, <1>3, <1>4, <1>5 DEF H!IInv

LEMMA HeadlessDoctorStep ==
  ASSUME H!IInv, H!Doctor
  PROVE  H!IInv'
<1> USE KeyAssumption DEF H!outside, H!claims, H!Start, H!Step, H!End, H!File, H!Repository
<1>1. H!TypeOK'
  BY DEF H!Doctor, H!IInv, H!TypeOK, H!Resolved, H!Idle, H!After, H!Commands
<1>2. H!KeyBeforePassword'
  BY DEF H!Doctor, H!IInv, H!TypeOK, H!KeyBeforePassword, H!Idle, H!After, H!Commands
<1>3. H!KeyFileOpens'
  BY DEF H!Doctor, H!IInv, H!TypeOK, H!KeyFileOpens, H!Accepts, H!Opens
<1>4. H!DoctorTells'
  BY DEF H!Doctor, H!IInv, H!TypeOK, H!DoctorTells, H!Readable, H!Opens, H!Resolved, H!ENCRYPTED
<1>5. H!SetupOpens'
  BY DEF H!Doctor, H!IInv, H!TypeOK, H!KeyBeforePassword, H!SetupOpens, H!Opens, H!Resolved
<1> QED
  BY <1>1, <1>2, <1>3, <1>4, <1>5 DEF H!IInv

LEMMA HeadlessInitHolds ==
  ASSUME H!Init
  PROVE  H!IInv
<1> DEFINE envKey == v1
           exported == v2
           keyring == v3
           keyFile == v4
           file == v5
           command == v6
           started == v7
           vouched == v8
           passed == v9
           sealed == v10
<1> USE KeyAssumption DEF H!File, H!Repository
<1>1. H!TypeOK
  <2>1. H!Idle \in H!Commands
    BY DEF H!Idle, H!Commands
  <2>2. file \in [H!File -> MasterKey \cup {None}] /\ command \in [HeadlessCommand -> H!Commands]
    BY <2>1 DEF H!Init
  <2>3. exported \in BOOLEAN /\ {vouched, passed, sealed} \subseteq BOOLEAN
    BY DEF H!Init
  <2>4. {envKey, keyring, keyFile} \subseteq MasterKey \cup {None} /\ started \in 0..HeadlessMaxCommands
    BY DEF H!Init
  <2> QED
    BY <2>2, <2>3, <2>4 DEF H!TypeOK
<1>2. H!KeyBeforePassword /\ H!KeyFileOpens /\ H!DoctorTells /\ H!SetupOpens
  BY DEF H!Init, H!KeyBeforePassword, H!KeyFileOpens, H!DoctorTells, H!SetupOpens, H!Idle
<1> QED
  BY <1>1, <1>2 DEF H!IInv

LEMMA HeadlessStutterStep ==
  ASSUME H!IInv, UNCHANGED H!vars
  PROVE  H!IInv'
BY DEF H!vars, H!IInv, H!TypeOK, H!KeyBeforePassword, H!KeyFileOpens, H!DoctorTells, H!SetupOpens,
   H!Resolved, H!Readable, H!Opens

LEMMA HeadlessNextStep ==
  ASSUME H!IInv, H!Next
  PROVE  H!IInv'
BY HeadlessExportStep, HeadlessAppSavesStep, HeadlessSetStep, HeadlessSetupStep,
   HeadlessDownloadStep, HeadlessAnswerOverwriteStep, HeadlessWriteKeyStep, HeadlessRefuseKeyStep,
   HeadlessWriteCloudStep, HeadlessExitStep, HeadlessFetchedStep, HeadlessReplaceStep,
   HeadlessDoctorStep DEF H!Next

-----------------------------------------------------------------------------
\* Induction, and what a recursive function does with a sequence.

LEMMA Least ==
  ASSUME NEW T \in SUBSET Nat, T # {}
  PROVE  \E n \in T : \A m \in T : n <= m
<1>1. IsWellFoundedOn(OpToRel(<, Nat), Nat)
  BY Zenon, NatLessThanWellFounded
<1>2. PICK n \in T : \A m \in T : <<m, n>> \notin OpToRel(<, Nat)
  <2> DEFINE below == OpToRel(<, Nat)
  <2>1. IsWellFoundedOn(below, Nat)
    BY Zenon, <1>1
  <2> HIDE DEF below
  <2>2. \E n \in T : \A m \in T : ~(<<m, n>> \in below)
    BY <2>1, WFMin
  <2> QED
    BY Zenon, <2>2 DEF below
<1>3. \A m \in T : ~(m < n)
  BY <1>2 DEF OpToRel
<1> QED
  BY <1>3

\* Induction, over a set.
LEMMA Induct ==
  ASSUME NEW S, 0 \in S, \A n \in Nat : n \in S => n + 1 \in S
  PROVE  Nat \subseteq S
<1> SUFFICES ASSUME NEW k \in Nat, k \notin S PROVE FALSE
  OBVIOUS
<1> DEFINE T == {n \in Nat : n \notin S}
<1>1. PICK n \in T : \A m \in T : n <= m
  BY Least
<1>2. n # 0 /\ n - 1 \in Nat /\ n - 1 \notin T
  BY <1>1
<1> QED
  BY <1>2, <1>1

\* Walking through s with f, from a.
Walker(X, a, E, s, f) == a \in X /\ s \in Seq(E) /\ f \in [X \X E -> X]
Walk(X, a, s, f, w) ==
  /\ w \in [0..Len(s) -> X] /\ w[0] = a
  /\ \A i \in 1..Len(s) : w[i] = f[<<w[i - 1], s[i]>>]

\* A walk exists,
LEMMA WalkExists ==
  ASSUME NEW X, NEW a, NEW E, NEW s, NEW f, Walker(X, a, E, s, f)
  PROVE  \E w : Walk(X, a, s, f, w)
<1> USE DEF Walker
<1> DEFINE Good(n) == \E w \in [0..n -> X] :
                         w[0] = a /\ \A i \in 1..n : w[i] = f[<<w[i - 1], s[i]>>]
           S == {n \in Nat : n <= Len(s) => Good(n)}
<1>1. 0 \in S
  <2> DEFINE w == [i \in 0..0 |-> a]
  <2>1. w \in [0..0 -> X] /\ w[0] = a /\ \A i \in 1..0 : w[i] = f[<<w[i - 1], s[i]>>]
    OBVIOUS
  <2> QED
    BY <2>1
<1>2. ASSUME NEW n \in Nat, n \in S PROVE n + 1 \in S
  <2> SUFFICES ASSUME n + 1 <= Len(s) PROVE Good(n + 1)
    OBVIOUS
  <2>1. PICK w \in [0..n -> X] : w[0] = a /\ \A i \in 1..n : w[i] = f[<<w[i - 1], s[i]>>]
    BY <1>2, LenProperties
  <2>2. s[n + 1] \in E /\ f[<<w[n], s[n + 1]>>] \in X
    BY ElementOfSeq, LenProperties
  <2> DEFINE G == [i \in 0..(n + 1) |-> IF i = n + 1 THEN f[<<w[n], s[n + 1]>>] ELSE w[i]]
  <2>3. G \in [0..(n + 1) -> X] /\ G[0] = a
    BY <2>1, <2>2
  <2>4. ASSUME NEW i \in 1..(n + 1) PROVE G[i] = f[<<G[i - 1], s[i]>>]
    <3>1. CASE i = n + 1
      <4>1. i - 1 \in 0..(n + 1) /\ i - 1 = n /\ i - 1 # n + 1 /\ i \in 0..(n + 1)
        BY <3>1
      <4>2. G[i] = f[<<w[n], s[n + 1]>>] /\ G[i - 1] = w[n]
        BY <3>1, <4>1
      <4> HIDE DEF G
      <4> QED
        BY <3>1, <4>1, <4>2
    <3>2. CASE i # n + 1
      <4>1. i \in 1..n /\ i - 1 \in 0..n /\ i - 1 # n + 1
        BY <3>2
      <4> QED
        BY <4>1, <2>1, <3>2
    <3> QED
      BY <3>1, <3>2
  <2> HIDE DEF G
  <2> QED
    BY <2>3, <2>4
<1> HIDE DEF S
<1>3. Nat \subseteq S
  BY <1>1, <1>2, Induct
<1>4. Len(s) \in Nat /\ Len(s) \in S
  BY <1>3, LenProperties
<1>5. Good(Len(s))
  <2> HIDE DEF Good
  <2> QED BY <1>4 DEF S
<1> QED
  BY <1>5 DEF Walk

\* and it stays where every step does.
LEMMA WalkStays ==
  ASSUME NEW X, NEW n \in Nat, NEW w, w[0] \in X,
         \A i \in 1..n : w[i - 1] \in X => w[i] \in X
  PROVE  \A i \in 0..n : w[i] \in X
<1> DEFINE S == {i \in Nat : i <= n => w[i] \in X}
<1>1. 0 \in S
  OBVIOUS
<1>2. ASSUME NEW i \in Nat, i \in S PROVE i + 1 \in S
  <2> SUFFICES ASSUME i + 1 <= n PROVE w[i + 1] \in X
    OBVIOUS
  <2>1. i + 1 \in 1..n /\ (i + 1) - 1 = i /\ w[i] \in X
    BY <1>2
  <2> QED
    BY <2>1
<1> HIDE DEF S
<1>3. Nat \subseteq S
  BY <1>1, <1>2, Induct
<1> QED
  BY <1>3 DEF S

-----------------------------------------------------------------------------
\* The tools of the AI: a gated call went through the gate before it looks anything up.

LEMMA ToolNormalizeIsClean ==
  ASSUME NEW segs \in Seq(STRING)
  PROVE  A!Normalize(segs) \in Seq(STRING) /\ ".." \notin A!ToSet(A!Normalize(segs))
<1> DEFINE X == {q \in Seq(STRING) : \A i \in 1..Len(q) : q[i] # ".."}
           f == [x \in X \X STRING |-> A!Step(x[1], x[2])]
           n == Len(segs)
           Next1(G) == [i \in 0..n |-> IF i = 0 THEN <<>> ELSE A!Step(G[i - 1], segs[i])]
           w == CHOOSE G : G = Next1(G)
<1>0. n \in Nat /\ DOMAIN segs = 1..n
  BY LenProperties
<1>1. \A q \in X, seg \in STRING : A!Step(q, seg) \in X
  <2> TAKE q \in X, seg \in STRING
  <2>0. q \in Seq(STRING) /\ Len(q) \in Nat /\ (q = <<>> \/ Len(q) > 0)
    BY LenProperties, EmptySeq
  <2>1. CASE seg = ".."
    <3> DEFINE k == IF q = <<>> THEN 0 ELSE Len(q) - 1
    <3>1. k \in 0..Len(q)
      BY <2>0, EmptySeq
    <3>2. SubSeq(q, 1, k) \in Seq(STRING) /\ Len(SubSeq(q, 1, k)) = k
          /\ \A i \in 1..k : SubSeq(q, 1, k)[i] = q[i]
      <4> HIDE DEF k
      <4> QED BY <2>0, <3>1
    <3> HIDE DEF k
    <3>3. A!Step(q, seg) = SubSeq(q, 1, k)
      BY <2>1 DEF A!Step, k
    <3>4. \A i \in 1..k : SubSeq(q, 1, k)[i] # ".."
      BY <3>1, <3>2, <2>0
    <3> QED BY <3>2, <3>3, <3>4
  <2>2. CASE seg # ".."
    <3>1. Append(q, seg) \in Seq(STRING) /\ Len(Append(q, seg)) = Len(q) + 1
          /\ \A i \in 1..(Len(q) + 1) : Append(q, seg)[i] = IF i <= Len(q) THEN q[i] ELSE seg
      BY <2>0, AppendProperties
    <3>2. \A i \in 1..(Len(q) + 1) : Append(q, seg)[i] # ".."
      <4> TAKE i \in 1..(Len(q) + 1)
      <4>1. i <= Len(q) => i \in 1..Len(q)
        BY <2>0
      <4> QED BY <3>1, <4>1, <2>2
    <3> QED BY <3>1, <3>2, <2>2 DEF A!Step
  <2> QED BY <2>1, <2>2
<1>2. <<>> \in X
  BY EmptySeq
<1>3. w = Next1(w)
  <2> HIDE DEF X
  <2>1. f \in [X \X STRING -> X]
    BY <1>1
  <2>2. PICK u \in [0..n -> X] : u[0] = <<>> /\ \A i \in 1..n : u[i] = f[<<u[i - 1], segs[i]>>]
    <3>1. Walker(X, <<>>, STRING, segs, f)
      BY <1>2, <2>1 DEF Walker
    <3> HIDE DEF f
    <3>2. \E u : Walk(X, <<>>, segs, f, u)
      BY <3>1, WalkExists
    <3> QED BY <3>2 DEF Walk
  <2>3. \A i \in 0..n : u[i] = Next1(u)[i]
    <3> TAKE i \in 0..n
    <3>1. i # 0 => i \in 1..n /\ u[i - 1] \in X /\ segs[i] \in STRING
      BY <1>0, ElementOfSeq
    <3> QED BY <3>1, <2>2
  <2>4. u = Next1(u)
    BY <2>3, <2>2
  <2> QED BY <2>4
<1>4. A!Normalize(segs) = w[n]
  BY DEF A!Normalize
<1> HIDE DEF w, X
<1>5. \A i \in 0..n : w[i] \in X
  <2>1. w[0] \in X
    BY <1>0, <1>2, <1>3
  <2>2. ASSUME NEW i \in 1..n, w[i - 1] \in X PROVE w[i] \in X
    <3>1. w[i] = A!Step(w[i - 1], segs[i])
      BY <1>0, <1>3
    <3> QED BY <1>0, <1>1, <2>2, <3>1, ElementOfSeq
  <2> HIDE DEF n
  <2> QED BY <1>0, <2>1, <2>2, WalkStays
<1>6. A!Normalize(segs) \in X
  BY <1>0, <1>4, <1>5
<1> QED
  BY <1>6, LenProperties DEF X, A!ToSet

\* The caps
LEMMA ToolTwoOrdered ==
  ASSUME NEW x \in Nat, NEW y \in Nat
  PROVE  /\ A!Min({x, y}) \in Nat /\ A!Min({x, y}) <= x /\ A!Min({x, y}) <= y
         /\ A!Max({x, y}) \in Nat /\ x <= A!Max({x, y}) /\ y <= A!Max({x, y})
<1>1. \E m \in {x, y} : \A z \in {x, y} : m <= z
  <2>1. CASE x <= y
    BY <2>1
  <2>2. CASE y <= x
    BY <2>2
  <2> QED
    BY <2>1, <2>2
<1>2. \E m \in {x, y} : \A z \in {x, y} : m >= z
  <2>1. CASE x <= y
    BY <2>1
  <2>2. CASE y <= x
    BY <2>2
  <2> QED
    BY <2>1, <2>2
<1>3. A!Min({x, y}) \in {x, y} /\ \A z \in {x, y} : A!Min({x, y}) <= z
  BY <1>1 DEF A!Min
<1>4. A!Max({x, y}) \in {x, y} /\ \A z \in {x, y} : A!Max({x, y}) >= z
  BY <1>2 DEF A!Max
<1> QED
  BY <1>3, <1>4

LEMMA ToolReadsAreClamped ==
  ASSUME NEW n \in Nat
  PROVE  A!ClampRead(n) \in Nat /\ A!ClampRead(n) <= MaxRead
<1> DEFINE m == IF n = 0 THEN DefaultRead ELSE n
<1>1. m \in Nat
  BY ToolAssumption
<1>2. A!Max({MinRead, m}) \in Nat
  <2> HIDE DEF m
  <2> QED
    BY <1>1, ToolAssumption, ToolTwoOrdered
<1> DEFINE k == A!Max({MinRead, m})
<1>3. A!ClampRead(n) = A!Min({MaxRead, k})
  BY DEF A!ClampRead
<1> HIDE DEF k
<1>4. k \in Nat
  BY <1>2 DEF k
<1> QED
  BY <1>3, <1>4, ToolAssumption, ToolTwoOrdered

LEMMA ToolResolvedIsClean ==
  ASSUME NEW p \in ToolPath
  PROVE  ".." \notin A!ToSet(A!Resolve(p))
<1> DEFINE segs == IF p.start = "root" THEN p.segs
                   ELSE IF p.start = "~" THEN HomeDir \o p.segs ELSE DownloadDir \o p.segs
<1>1. segs \in Seq(STRING)
  BY ToolAssumption, ConcatProperties
<1>2. A!Resolve(p) = A!Normalize(segs)
  BY DEF A!Resolve
<1> HIDE DEF segs
<1> QED
  BY <1>1, <1>2, ToolNormalizeIsClean

LEMMA ToolCapIsNat == A!Max({MaxRead, MaxInline}) \in Nat /\ 0 <= A!Max({MaxRead, MaxInline})
BY ToolAssumption, ToolTwoOrdered

LEMMA ToolInitHolds == A!Init => A!IInv
<1> SUFFICES ASSUME A!Init PROVE A!IInv
  OBVIOUS
<1>1. A!WorldTyped
  BY DEF A!Init, A!WorldTyped, A!Record, A!Type
<1>2. A!CallsTyped
  BY DEF A!Init, A!CallsTyped, A!ToolCall, A!Idle, A!NoArgs, A!Binding
<1>3. A!EditsTyped
  BY ToolAssumption DEF A!Init, A!EditsTyped
<1>4. A!Gated
  BY DEF A!Init, A!Gated, A!WentThrough, A!Idle
<1>6. A!ChangesPassTheGate
  BY DEF A!Init, A!ChangesPassTheGate
<1>7. A!CredentialsAreBound
  BY DEF A!Init, A!CredentialsAreBound, A!BoundIn, A!Idle
<1>8. A!SavedInside
  BY DEF A!Init, A!SavedInside
<1>9. A!ChatsApart
  BY DEF A!Init, A!ChatsApart
<1>10. A!AnswersAreCapped
  <2>1. 0 <= A!Max({MaxRead, MaxInline})
    BY ToolCapIsNat
  <2> QED
    BY <2>1 DEF A!Init, A!AnswersAreCapped, A!Idle
<1> QED
  BY <1>1, <1>2, <1>3, <1>4, <1>6, <1>7, <1>8, <1>9, <1>10 DEF A!IInv, A!TypeOK

LEMMA ToolStutterStep == ASSUME A!IInv, UNCHANGED A!vars PROVE A!IInv'
<1> QED
  BY DEF A!IInv, A!TypeOK, A!WorldTyped, A!CallsTyped, A!EditsTyped, A!Gated, A!ChangesPassTheGate,
       A!CredentialsAreBound, A!SavedInside, A!ChatsApart, A!AnswersAreCapped, A!vars

LEMMA ToolAfterGateGoesOn ==
  ASSUME NEW t, NEW p
  PROVE  /\ A!AfterGate(t, p) \in {"listing", "finding", "acting"}
         /\ A!AfterGate(t, p) = "listing" => p # None
BY DEF A!AfterGate

\* What a call goes on to be, and what its profile was meanwhile.
LEMMA ToolCallMoves ==
  ASSUME A!IInv, NEW c \in AiCallId, NEW n \in A!ToolCall, A!WentThrough(n), NEW cap, cap = A!Max({MaxRead, MaxInline}),
         n.answer <= cap, v8' = [v8 EXCEPT ![c] = n],
         NEW S \in SUBSET (A!Record \cup {None}), v10' = [v10 EXCEPT ![c] = S],
         A!BoundIn(n, S)
  PROVE  A!CallsTyped' /\ A!Gated' /\ A!CredentialsAreBound' /\ A!AnswersAreCapped'
<1> DEFINE call == v8
           seen == v10
<1>a. call \in [AiCallId -> A!ToolCall] /\ seen \in [AiCallId -> SUBSET (A!Record \cup {None})]
  BY DEF A!IInv, A!TypeOK, A!CallsTyped
<1>b. call'[c] = n /\ seen'[c] = S /\ \A x \in AiCallId : x # c => call'[x] = call[x] /\ seen'[x] = seen[x]
  BY <1>a
<1>1. A!CallsTyped'
  BY <1>a DEF A!CallsTyped
<1>2. A!Gated'
  BY <1>b DEF A!IInv, A!Gated
<1>3. A!CredentialsAreBound'
  BY <1>b DEF A!IInv, A!CredentialsAreBound
<1>4. A!AnswersAreCapped'
  BY <1>b DEF A!IInv, A!AnswersAreCapped
<1> QED
  BY <1>1, <1>2, <1>3, <1>4

LEMMA ToolDoneIsSound ==
  /\ [A!Idle EXCEPT !.at = "done"] \in A!ToolCall /\ A!WentThrough([A!Idle EXCEPT !.at = "done"])
  /\ [A!Idle EXCEPT !.at = "done"].answer = 0 /\ [A!Idle EXCEPT !.at = "done"].at = "done"
BY DEF A!ToolCall, A!Idle, A!NoArgs, A!Binding, A!WentThrough

LEMMA ToolCallEnds ==
  ASSUME A!IInv, NEW c \in AiCallId, A!Ends(c), UNCHANGED v10
  PROVE  A!CallsTyped' /\ A!Gated' /\ A!CredentialsAreBound' /\ A!AnswersAreCapped'
<1> DEFINE call == v8
           seen == v10
<1>1. PICK n \in A!ToolCall : /\ call' = [call EXCEPT ![c] = n] /\ A!WentThrough(n)
                            /\ n.answer = 0 /\ n.at = "done"
  BY ToolDoneIsSound DEF A!Ends
<1>2. PICK S \in SUBSET (A!Record \cup {None}) : seen' = [seen EXCEPT ![c] = S]
  <2>1. seen \in [AiCallId -> SUBSET (A!Record \cup {None})]
    BY DEF A!IInv, A!TypeOK, A!CallsTyped
  <2>2. seen = [seen EXCEPT ![c] = seen[c]] /\ seen[c] \in SUBSET (A!Record \cup {None})
    BY <2>1
  <2> QED
    BY <2>2
<1>3. PICK cap \in Nat : cap = A!Max({MaxRead, MaxInline})
  BY ToolCapIsNat
<1>4. n.answer <= cap
  BY <1>1, <1>3
<1>5. A!BoundIn(n, S)
  BY <1>1 DEF A!BoundIn
<1> QED
  BY <1>1, <1>2, <1>3, <1>4, <1>5, ToolCallMoves

\* A call that keeps what its profile was.
LEMMA ToolCallGoesOn ==
  ASSUME A!IInv, NEW c \in AiCallId, NEW n \in A!ToolCall, A!WentThrough(n), n.answer = 0 \/ n.answer = v8[c].answer,
         v8' = [v8 EXCEPT ![c] = n], UNCHANGED v10,
         n.at \in {"dialing", "acting"} =>
            n.config = None \/ (v8[c].at = "dialing" /\ n.config = v8[c].config)
  PROVE  A!CallsTyped' /\ A!Gated' /\ A!CredentialsAreBound' /\ A!AnswersAreCapped'
<1> DEFINE seen == v10
<1>1. PICK S \in SUBSET (A!Record \cup {None}) : S = seen[c] /\ seen' = [seen EXCEPT ![c] = S]
  <2>1. seen \in [AiCallId -> SUBSET (A!Record \cup {None})]
    BY DEF A!IInv, A!TypeOK, A!CallsTyped
  <2>2. seen = [seen EXCEPT ![c] = seen[c]] /\ seen[c] \in SUBSET (A!Record \cup {None})
    BY <2>1
  <2> QED
    BY <2>2
<1>2. PICK cap \in Nat : cap = A!Max({MaxRead, MaxInline})
  BY ToolCapIsNat
<1>3. n.answer <= cap
  BY <1>2, ToolCapIsNat DEF A!IInv, A!AnswersAreCapped
<1>4. A!BoundIn(n, S)
  BY <1>1 DEF A!IInv, A!CredentialsAreBound, A!BoundIn
<1> QED
  BY <1>1, <1>2, <1>3, <1>4, ToolCallMoves

LEMMA ToolExecuteToolStep ==
  ASSUME A!IInv, NEW c \in AiCallId, A!ExecuteTool(c)
  PROVE  A!IInv'
<1> DEFINE call == v8
<1>a. PICK t \in AskedTools[c] \ {A!Bulk}, h \in ToolChat, p \in ToolProfile \cup {None},
           s \in ShellId \cup {None}, l \in ToolPath \cup {None} :
        \E gate \in A!Gates(t) : call' = [call EXCEPT ![c] = A!Called(t, h, p, s, l, gate)]
  <2>1. PICK t \in AskedTools[c] \ {A!Bulk}, h \in ToolChat, p \in ToolProfile \cup {None} :
        \E s \in IF t[1] = "session" THEN ShellId ELSE {None},
           l \in IF t[2] = "download_file" THEN ToolPath \cup {None} ELSE {None} :
        \E gate \in A!Gates(t) : call' = [call EXCEPT ![c] = A!Called(t, h, p, s, l, gate)]
    BY DEF A!ExecuteTool
  <2>2. PICK s \in IF t[1] = "session" THEN ShellId ELSE {None},
             l \in IF t[2] = "download_file" THEN ToolPath \cup {None} ELSE {None} :
        \E gate \in A!Gates(t) : call' = [call EXCEPT ![c] = A!Called(t, h, p, s, l, gate)]
    BY <2>1
  <2>3. s \in ShellId \cup {None} /\ l \in ToolPath \cup {None}
    BY <2>2
  <2> QED
    BY <2>2, <2>3
<1>m. PICK gate \in A!Gates(t) : call' = [call EXCEPT ![c] = A!Called(t, h, p, s, l, gate)]
  BY <1>a
<1>b. PICK n : n = A!Called(t, h, p, s, l, gate)
  OBVIOUS
<1>t. t \in A!Tools
  BY ToolAssumption
<1>g. /\ gate \in {"none", "asking", "off", "harmless"} /\ (gate = "harmless" => t \in A!Command)
      /\ A!NeedsApproval(t) => gate # "none"
  BY DEF A!Gates, A!MayBeHarmless, A!Command
<1>d. n \in A!ToolCall /\ n.answer = 0 /\ n.config = None
  BY Zenon, <1>b, <1>t, <1>g, ToolAfterGateGoesOn DEF A!Called, A!ToolCall, A!Idle, A!NoArgs, A!Binding
<1>e. A!WentThrough(n)
  BY <1>b, <1>t, <1>g, ToolAfterGateGoesOn DEF A!Called, A!WentThrough, A!Idle
<1>c. A!CallsTyped' /\ A!Gated' /\ A!CredentialsAreBound' /\ A!AnswersAreCapped'
  BY <1>m, <1>b, <1>d, <1>e, ToolCallGoesOn DEF A!ExecuteTool, A!ghosts
<1>1. A!WorldTyped'
  BY DEF A!IInv, A!TypeOK, A!WorldTyped, A!ExecuteTool, A!settings, A!disk, A!ghosts, A!Record,
     A!Type
<1>2. A!EditsTyped'
  BY ToolAssumption DEF A!IInv, A!TypeOK, A!EditsTyped, A!ExecuteTool, A!settings, A!disk, A!ghosts
<1>3. A!ChangesPassTheGate'
  BY DEF A!IInv, A!ChangesPassTheGate, A!ExecuteTool, A!settings, A!disk, A!ghosts
<1>4. A!SavedInside'
  BY DEF A!IInv, A!SavedInside, A!ExecuteTool, A!settings, A!disk, A!ghosts
<1>5. A!ChatsApart'
  BY DEF A!IInv, A!ChatsApart, A!ExecuteTool, A!settings, A!disk, A!ghosts
<1> QED
  BY <1>c, <1>1, <1>2, <1>3, <1>4, <1>5 DEF A!IInv, A!TypeOK

LEMMA ToolBulkDownloadStep ==
  ASSUME A!IInv, NEW c \in AiCallId, A!BulkDownload(c)
  PROVE  A!IInv'
<1> DEFINE call == v8
<1>a. PICK p \in ToolProfile, s \in ToolSecret \cup {None}, x \in ToolProxy \cup {None} :
        call' = [call EXCEPT ![c] =
          [A!Idle EXCEPT !.at = "resolving", !.tool = A!Bulk, !.profile = p,
                       !.type = "SCP_FILE_EXPLORER", !.offered = [secret |-> s, proxy |-> x]]]
  BY Zenon DEF A!BulkDownload
<1>m. PICK n : n = [A!Idle EXCEPT !.at = "resolving", !.tool = A!Bulk, !.profile = p,
                       !.type = "SCP_FILE_EXPLORER", !.offered = [secret |-> s, proxy |-> x]]
  OBVIOUS
<1>d. n \in A!ToolCall /\ n.answer = 0 /\ n.config = None /\ A!WentThrough(n)
  BY <1>m DEF A!ToolCall, A!Idle, A!NoArgs, A!Binding, A!Type, A!WentThrough
<1>c. A!CallsTyped' /\ A!Gated' /\ A!CredentialsAreBound' /\ A!AnswersAreCapped'
  BY <1>a, <1>m, <1>d, ToolCallGoesOn DEF A!BulkDownload, A!ghosts
<1>1. A!WorldTyped'
  BY DEF A!IInv, A!TypeOK, A!WorldTyped, A!BulkDownload, A!settings, A!disk, A!ghosts, A!Record,
     A!Type
<1>2. A!EditsTyped'
  BY ToolAssumption DEF A!IInv, A!TypeOK, A!EditsTyped, A!BulkDownload, A!settings, A!disk, A!ghosts
<1>3. A!ChangesPassTheGate'
  BY DEF A!IInv, A!ChangesPassTheGate, A!BulkDownload, A!settings, A!disk, A!ghosts
<1>4. A!SavedInside'
  BY DEF A!IInv, A!SavedInside, A!BulkDownload, A!settings, A!disk, A!ghosts
<1>5. A!ChatsApart'
  BY DEF A!IInv, A!ChatsApart, A!BulkDownload, A!settings, A!disk, A!ghosts
<1> QED
  BY <1>c, <1>1, <1>2, <1>3, <1>4, <1>5 DEF A!IInv, A!TypeOK

LEMMA ToolAnsweredStep ==
  ASSUME A!IInv, NEW c \in AiCallId, A!Answered(c)
  PROVE  A!IInv'
<1> DEFINE call == v8
           seen == v10
<1>a. call \in [AiCallId -> A!ToolCall] /\ seen \in [AiCallId -> SUBSET (A!Record \cup {None})]
  BY DEF A!IInv, A!TypeOK, A!CallsTyped
<1>k. PICK k \in A!ToolCall : k = call[c] /\ A!WentThrough(k)
  BY DEF A!IInv, A!TypeOK, A!CallsTyped, A!Gated
<1>g. PICK at \in {"listing", "finding", "acting"} :
        at = A!AfterGate(k.tool, k.profile) /\ (at = "listing" => k.profile # None)
  BY ToolAfterGateGoesOn
<1>s. k.at = "asking"
  BY <1>k DEF A!Answered
<1>b. PICK n : /\ call' = [call EXCEPT ![c] = n]
              /\ \/ n = [k EXCEPT !.gate = "approved", !.at = at]
                 \/ n = [A!Idle EXCEPT !.at = "done"]
  <2>1. \/ call' = [call EXCEPT ![c].gate = "approved", ![c].at = at]
        \/ A!Ends(c)
    BY <1>k, <1>g DEF A!Answered
  <2> QED
    BY <1>a, <1>k, <2>1 DEF A!Ends
<1>d. n \in A!ToolCall /\ (n.answer = 0 \/ n.answer = k.answer)
  <2>1. CASE n = [k EXCEPT !.gate = "approved", !.at = at]
    BY <2>1 DEF A!ToolCall
  <2>2. CASE n = [A!Idle EXCEPT !.at = "done"]
    BY <2>2 DEF A!ToolCall, A!Idle, A!NoArgs, A!Binding
  <2> QED
    BY <1>b, <2>1, <2>2
<1>e. A!WentThrough(n) /\ n.config = None
  BY <1>k, <1>s, <1>b, <1>g DEF A!ToolCall, A!WentThrough, A!Idle
<1>c. A!CallsTyped' /\ A!Gated' /\ A!CredentialsAreBound' /\ A!AnswersAreCapped'
  BY <1>k, <1>b, <1>d, <1>e, ToolCallGoesOn DEF A!Answered, A!ghosts
<1>1. A!WorldTyped'
  BY DEF A!IInv, A!TypeOK, A!WorldTyped, A!Answered, A!Ends, A!settings, A!disk, A!ghosts,
     A!Record, A!Type
<1>2. A!EditsTyped'
  BY ToolAssumption DEF A!IInv, A!TypeOK, A!EditsTyped, A!Answered, A!Ends, A!settings, A!disk,
     A!ghosts
<1>3. A!ChangesPassTheGate'
  BY DEF A!IInv, A!ChangesPassTheGate, A!Answered, A!Ends, A!settings, A!disk, A!ghosts
<1>4. A!SavedInside'
  BY DEF A!IInv, A!SavedInside, A!Answered, A!Ends, A!settings, A!disk, A!ghosts
<1>5. A!ChatsApart'
  BY DEF A!IInv, A!ChatsApart, A!Answered, A!Ends, A!settings, A!disk, A!ghosts
<1> QED
  BY <1>c, <1>1, <1>2, <1>3, <1>4, <1>5 DEF A!IInv, A!TypeOK

LEMMA ToolListProfilesStep ==
  ASSUME A!IInv, NEW c \in AiCallId, A!ListProfiles(c)
  PROVE  A!IInv'
<1> DEFINE call == v8
           seen == v10
<1>a. call \in [AiCallId -> A!ToolCall] /\ seen \in [AiCallId -> SUBSET (A!Record \cup {None})]
  BY DEF A!IInv, A!TypeOK, A!CallsTyped
<1>k. PICK k \in A!ToolCall : k = call[c] /\ A!WentThrough(k)
  BY DEF A!IInv, A!TypeOK, A!CallsTyped, A!Gated
<1>b. PICK n : /\ call' = [call EXCEPT ![c] = n]
              /\ \/ n = [k EXCEPT !.at = "finding"] /\ k.at = "listing"
                 \/ n = [A!Idle EXCEPT !.at = "done"]
  BY <1>a, <1>k DEF A!ListProfiles, A!Ends, A!Goes
<1>d. n \in A!ToolCall /\ (n.answer = 0 \/ n.answer = k.answer)
  BY <1>k, <1>b DEF A!ToolCall, A!Type, A!Idle, A!NoArgs, A!Binding
<1>e. A!WentThrough(n)
  BY <1>k, <1>b DEF A!ToolCall, A!WentThrough, A!Idle
<1>f. n.at \in {"dialing", "acting"} =>
         n.config = None \/ (call[c].at = "dialing" /\ n.config = call[c].config)
  BY <1>k, <1>b DEF A!ToolCall, A!WentThrough, A!Idle
<1>c. A!CallsTyped' /\ A!Gated' /\ A!CredentialsAreBound' /\ A!AnswersAreCapped'
  BY <1>k, <1>b, <1>d, <1>e, <1>f, ToolCallGoesOn DEF A!ListProfiles, A!ghosts
<1>1. A!WorldTyped'
  BY DEF A!IInv, A!TypeOK, A!WorldTyped, A!ListProfiles, A!Ends, A!Goes, A!settings, A!disk,
     A!ghosts, A!Record, A!Type
<1>2. A!EditsTyped'
  BY ToolAssumption DEF A!IInv, A!TypeOK, A!EditsTyped, A!ListProfiles, A!Ends, A!Goes, A!settings,
     A!disk, A!ghosts
<1>3. A!ChangesPassTheGate'
  BY DEF A!IInv, A!ChangesPassTheGate, A!ListProfiles, A!Ends, A!Goes, A!settings, A!disk, A!ghosts
<1>4. A!SavedInside'
  BY DEF A!IInv, A!SavedInside, A!ListProfiles, A!Ends, A!Goes, A!settings, A!disk, A!ghosts
<1>5. A!ChatsApart'
  BY DEF A!IInv, A!ChatsApart, A!ListProfiles, A!Ends, A!Goes, A!settings, A!disk, A!ghosts
<1> QED
  BY <1>c, <1>1, <1>2, <1>3, <1>4, <1>5 DEF A!IInv, A!TypeOK

LEMMA ToolGetConnectorStep ==
  ASSUME A!IInv, NEW c \in AiCallId, A!GetConnector(c)
  PROVE  A!IInv'
<1> DEFINE profiles == v3
           call == v8
           seen == v10
<1>a. call \in [AiCallId -> A!ToolCall] /\ seen \in [AiCallId -> SUBSET (A!Record \cup {None})]
  BY DEF A!IInv, A!TypeOK, A!CallsTyped
<1>k. PICK k \in A!ToolCall : k = call[c] /\ A!WentThrough(k)
  BY DEF A!IInv, A!TypeOK, A!CallsTyped, A!Gated
<1>p. profiles \in [ToolProfile -> A!Record \cup {None}]
  BY DEF A!IInv, A!TypeOK, A!WorldTyped
<1>s. k.at = "finding" /\ k.profile \in ToolProfile \cup {None}
  BY <1>k DEF A!GetConnector, A!ToolCall
<1>n. PICK n : /\ call' = [call EXCEPT ![c] = n]
              /\ \/ n = [k EXCEPT !.at = "acting", !.type = "LOCAL_TERMINAL"]
                 \/ n = [A!Idle EXCEPT !.at = "done"]
                 \/ /\ k.profile # None /\ profiles[k.profile] # None
                    /\ n = [k EXCEPT !.at = "resolving", !.type = profiles[k.profile].type]
  <2>1. \/ call' = [call EXCEPT ![c].at = "acting", ![c].type = "LOCAL_TERMINAL"]
        \/ A!Ends(c)
        \/ /\ k.profile # None /\ profiles[k.profile] # None
           /\ call' = [call EXCEPT ![c].at = "resolving", ![c].type = profiles[k.profile].type]
    BY <1>k DEF A!GetConnector
  <2> QED
    BY <1>a, <1>k, <2>1 DEF A!Ends
<1>b. \/ n = [k EXCEPT !.at = "acting", !.type = "LOCAL_TERMINAL"]
      \/ n = [A!Idle EXCEPT !.at = "done"]
      \/ k.profile \in ToolProfile /\ \E y \in A!Type : n = [k EXCEPT !.at = "resolving", !.type = y]
  <2>1. k.profile # None /\ profiles[k.profile] # None => profiles[k.profile].type \in A!Type
    BY <1>p, <1>s DEF A!Record
  <2> QED
    BY Zenon, <1>n, <1>s, <2>1
<1>d. n \in A!ToolCall /\ (n.answer = 0 \/ n.answer = k.answer)
  <2>1. CASE n = [A!Idle EXCEPT !.at = "done"]
    BY <2>1 DEF A!ToolCall, A!Idle, A!NoArgs, A!Binding
  <2>2. CASE \E y \in A!Type, at \in {"acting", "resolving"} : n = [k EXCEPT !.at = at, !.type = y]
    BY <2>2 DEF A!ToolCall
  <2> QED
    BY <1>b, <2>1, <2>2 DEF A!Type
<1>e. A!WentThrough(n) /\ n.config = None
  BY Zenon, <1>k, <1>s, <1>b DEF A!ToolCall, A!WentThrough, A!Idle
<1>f. PICK cap \in Nat : cap = A!Max({MaxRead, MaxInline}) /\ n.answer <= cap
  <2>1. k.answer <= A!Max({MaxRead, MaxInline})
    BY <1>k DEF A!IInv, A!AnswersAreCapped
  <2> QED
    BY <1>d, <2>1, ToolCapIsNat
<1>g. PICK S \in SUBSET (A!Record \cup {None}) : seen' = [seen EXCEPT ![c] = S]
  <2>1. k.profile # None => {profiles[k.profile]} \in SUBSET (A!Record \cup {None})
    BY <1>p, <1>s
  <2> QED
    BY <1>k, <2>1 DEF A!GetConnector
<1>h. A!BoundIn(n, S)
  BY <1>e DEF A!BoundIn
<1>c. A!CallsTyped' /\ A!Gated' /\ A!CredentialsAreBound' /\ A!AnswersAreCapped'
  BY <1>n, <1>d, <1>e, <1>f, <1>g, <1>h, ToolCallMoves
<1>1. A!WorldTyped'
  BY DEF A!IInv, A!TypeOK, A!WorldTyped, A!GetConnector, A!settings, A!disk, A!ghosts, A!Record,
     A!Type
<1>2. A!EditsTyped'
  BY ToolAssumption DEF A!IInv, A!TypeOK, A!EditsTyped, A!GetConnector, A!settings, A!disk, A!ghosts
<1>3. A!ChangesPassTheGate'
  BY DEF A!IInv, A!ChangesPassTheGate, A!GetConnector, A!settings, A!disk, A!ghosts
<1>4. A!SavedInside'
  BY DEF A!IInv, A!SavedInside, A!GetConnector, A!settings, A!disk, A!ghosts
<1>5. A!ChatsApart'
  BY DEF A!IInv, A!ChatsApart, A!GetConnector, A!settings, A!disk, A!ghosts
<1> QED
  BY <1>c, <1>1, <1>2, <1>3, <1>4, <1>5 DEF A!IInv, A!TypeOK

LEMMA ToolResolveRemoteConfigStep ==
  ASSUME A!IInv, NEW c \in AiCallId, A!ResolveRemoteConfig(c)
  PROVE  A!IInv'
<1> DEFINE profiles == v3
           call == v8
           seen == v10
<1>a. call \in [AiCallId -> A!ToolCall] /\ seen \in [AiCallId -> SUBSET (A!Record \cup {None})]
  BY DEF A!IInv, A!TypeOK, A!CallsTyped
<1>k. PICK k \in A!ToolCall : k = call[c] /\ A!WentThrough(k)
  BY DEF A!IInv, A!TypeOK, A!CallsTyped, A!Gated
<1>p. profiles \in [ToolProfile -> A!Record \cup {None}] /\ k.profile \in ToolProfile
  BY <1>k DEF A!IInv, A!TypeOK, A!WorldTyped, A!ResolveRemoteConfig, A!WentThrough
<1>r. PICK r \in A!Record \cup {None} : r = profiles[k.profile]
  BY <1>p
<1>b. PICK n : /\ call' = [call EXCEPT ![c] = n]
              /\ \/ n = [A!Idle EXCEPT !.at = "done"]
                 \/ /\ r # None
                    /\ \E y \in {"acting", "dialing"} :
                         n = [k EXCEPT !.config = [secret |-> r.secret, proxy |-> r.proxy], !.at = y]
  <2>1. \/ A!Ends(c)
        \/ r # None /\ \E y \in {"acting", "dialing"} :
              call' = [call EXCEPT ![c].config = [secret |-> r.secret, proxy |-> r.proxy], ![c].at = y]
    BY <1>k, <1>r DEF A!ResolveRemoteConfig, A!Bound
  <2> QED
    BY Zenon, <1>a, <1>k, <2>1 DEF A!Ends
<1>s. k.at = "resolving"
  BY <1>k DEF A!ResolveRemoteConfig
<1>d. n \in A!ToolCall /\ (n.answer = 0 \/ n.answer = k.answer)
  <2>1. CASE n = [A!Idle EXCEPT !.at = "done"]
    BY <2>1 DEF A!ToolCall, A!Idle, A!NoArgs, A!Binding
  <2>2. CASE /\ r # None
             /\ \E y \in {"acting", "dialing"} :
                  n = [k EXCEPT !.config = [secret |-> r.secret, proxy |-> r.proxy], !.at = y]
    <3>1. [secret |-> r.secret, proxy |-> r.proxy] \in A!Binding
      BY <2>2 DEF A!Binding, A!Record
    <3> QED
      BY <2>2, <3>1 DEF A!ToolCall
  <2> QED
    BY <1>b, <2>1, <2>2
<1>e. A!WentThrough(n)
  BY <1>k, <1>b, <1>s DEF A!ToolCall, A!WentThrough, A!Idle
<1>f. PICK cap \in Nat : cap = A!Max({MaxRead, MaxInline}) /\ n.answer <= cap
  <2>1. k.answer <= A!Max({MaxRead, MaxInline})
    BY <1>k DEF A!IInv, A!AnswersAreCapped
  <2> QED
    BY <1>d, <2>1, ToolCapIsNat
<1>g. PICK S \in SUBSET (A!Record \cup {None}) : seen' = [seen EXCEPT ![c] = S] /\ r \in S
  <2>1. seen[c] \cup {r} \in SUBSET (A!Record \cup {None})
    BY <1>a
  <2>2. seen' = [seen EXCEPT ![c] = seen[c] \cup {r}]
    BY <1>k, <1>r DEF A!ResolveRemoteConfig
  <2> QED
    BY <2>1, <2>2
<1>h. A!BoundIn(n, S)
  <2>1. CASE n = [A!Idle EXCEPT !.at = "done"]
    BY <2>1 DEF A!Idle, A!BoundIn
  <2>2. CASE r # None /\ n.config = [secret |-> r.secret, proxy |-> r.proxy]
    BY <2>2, <1>g DEF A!BoundIn
  <2> QED
    BY <1>b, <2>1, <2>2 DEF A!ToolCall
<1>c. A!CallsTyped' /\ A!Gated' /\ A!CredentialsAreBound' /\ A!AnswersAreCapped'
  BY <1>b, <1>d, <1>e, <1>f, <1>g, <1>h, ToolCallMoves
<1>1. A!WorldTyped'
  BY DEF A!IInv, A!TypeOK, A!WorldTyped, A!ResolveRemoteConfig, A!settings, A!disk, A!ghosts,
     A!Record, A!Type
<1>2. A!EditsTyped'
  BY ToolAssumption DEF A!IInv, A!TypeOK, A!EditsTyped, A!ResolveRemoteConfig, A!settings, A!disk,
     A!ghosts
<1>3. A!ChangesPassTheGate'
  BY DEF A!IInv, A!ChangesPassTheGate, A!ResolveRemoteConfig, A!settings, A!disk, A!ghosts
<1>4. A!SavedInside'
  BY DEF A!IInv, A!SavedInside, A!ResolveRemoteConfig, A!settings, A!disk, A!ghosts
<1>5. A!ChatsApart'
  BY DEF A!IInv, A!ChatsApart, A!ResolveRemoteConfig, A!settings, A!disk, A!ghosts
<1> QED
  BY <1>c, <1>1, <1>2, <1>3, <1>4, <1>5 DEF A!IInv, A!TypeOK

LEMMA ToolDialedStep ==
  ASSUME A!IInv, NEW c \in AiCallId, A!Dialed(c)
  PROVE  A!IInv'
<1> DEFINE call == v8
           seen == v10
<1>a. call \in [AiCallId -> A!ToolCall] /\ seen \in [AiCallId -> SUBSET (A!Record \cup {None})]
  BY DEF A!IInv, A!TypeOK, A!CallsTyped
<1>k. PICK k \in A!ToolCall : k = call[c] /\ A!WentThrough(k)
  BY DEF A!IInv, A!TypeOK, A!CallsTyped, A!Gated
<1>b. PICK n : /\ call' = [call EXCEPT ![c] = n]
              /\ \/ n = [k EXCEPT !.at = "acting"] /\ k.at = "dialing"
                 \/ n = [A!Idle EXCEPT !.at = "done"]
  BY <1>a, <1>k DEF A!Dialed, A!Ends, A!Goes
<1>d. n \in A!ToolCall /\ (n.answer = 0 \/ n.answer = k.answer)
  BY <1>k, <1>b DEF A!ToolCall, A!Type, A!Idle, A!NoArgs, A!Binding
<1>e. A!WentThrough(n)
  BY <1>k, <1>b DEF A!ToolCall, A!WentThrough, A!Idle
<1>f. n.at \in {"dialing", "acting"} =>
         n.config = None \/ (call[c].at = "dialing" /\ n.config = call[c].config)
  BY <1>k, <1>b DEF A!ToolCall, A!WentThrough, A!Idle
<1>c. A!CallsTyped' /\ A!Gated' /\ A!CredentialsAreBound' /\ A!AnswersAreCapped'
  BY <1>k, <1>b, <1>d, <1>e, <1>f, ToolCallGoesOn DEF A!Dialed, A!ghosts
<1>1. A!WorldTyped'
  BY DEF A!IInv, A!TypeOK, A!WorldTyped, A!Dialed, A!Goes, A!Ends, A!settings, A!disk, A!ghosts,
     A!Record, A!Type
<1>2. A!EditsTyped'
  BY ToolAssumption DEF A!IInv, A!TypeOK, A!EditsTyped, A!Dialed, A!Goes, A!Ends, A!settings,
     A!disk, A!ghosts
<1>3. A!ChangesPassTheGate'
  BY DEF A!IInv, A!ChangesPassTheGate, A!Dialed, A!Goes, A!Ends, A!settings, A!disk, A!ghosts
<1>4. A!SavedInside'
  BY DEF A!IInv, A!SavedInside, A!Dialed, A!Goes, A!Ends, A!settings, A!disk, A!ghosts
<1>5. A!ChatsApart'
  BY DEF A!IInv, A!ChatsApart, A!Dialed, A!Goes, A!Ends, A!settings, A!disk, A!ghosts
<1> QED
  BY <1>c, <1>1, <1>2, <1>3, <1>4, <1>5 DEF A!IInv, A!TypeOK

LEMMA ToolFileActsStep ==
  ASSUME A!IInv, NEW c \in AiCallId, A!FileActs(c)
  PROVE  A!IInv'
<1> DEFINE call == v8
           effects == v11
<1>c. A!CallsTyped' /\ A!Gated' /\ A!CredentialsAreBound' /\ A!AnswersAreCapped'
  BY ToolCallEnds DEF A!FileActs, A!ghosts
<1>1. A!WorldTyped'
  BY DEF A!IInv, A!TypeOK, A!WorldTyped, A!FileActs, A!Changes, A!settings, A!disk, A!ghosts,
     A!Record, A!Type
<1>2. A!EditsTyped'
  BY ToolAssumption DEF A!IInv, A!TypeOK, A!EditsTyped, A!FileActs, A!Changes, A!settings, A!disk,
     A!ghosts
<1>3. A!ChangesPassTheGate'
  <2>1. effects' = effects \/ \E path : /\ A!Changes(c, "server", path) /\ call[c].tool \in A!FileTools /\ call[c].tool[2] \in A!FileMutators
    BY DEF A!FileActs, A!FileMutators, A!SensitiveTools
  <2>2. call[c].tool \in A!FileTools /\ call[c].tool[2] \in A!FileMutators => call[c].gate # "none" /\ (call[c].gate = "harmless" => call[c].tool \in A!Command)
    <3>1. call[c].at = "acting"
      BY DEF A!FileActs
    <3>2. call[c].tool # A!Bulk
      BY DEF A!FileActs, A!Bulk, A!FileTools, A!ScpTools, A!FtpTools, A!SambaTools
    <3> QED
      BY <3>1, <3>2 DEF A!IInv, A!Gated, A!WentThrough, A!NeedsApproval
  <2> QED
    BY <2>1, <2>2 DEF A!IInv, A!ChangesPassTheGate, A!Changes
<1>4. A!SavedInside'
  BY DEF A!IInv, A!SavedInside, A!FileActs, A!Changes, A!settings, A!disk, A!ghosts
<1>5. A!ChatsApart'
  BY DEF A!IInv, A!ChatsApart, A!FileActs, A!Changes, A!settings, A!disk, A!ghosts
<1> QED
  BY <1>c, <1>1, <1>2, <1>3, <1>4, <1>5 DEF A!IInv, A!TypeOK

LEMMA ToolReadFileStep ==
  ASSUME A!IInv, NEW c \in AiCallId, A!ReadFile(c)
  PROVE  A!IInv'
<1> DEFINE call == v8
           seen == v10
<1>a. call \in [AiCallId -> A!ToolCall] /\ seen \in [AiCallId -> SUBSET (A!Record \cup {None})]
  BY DEF A!IInv, A!TypeOK, A!CallsTyped
<1>k. PICK k \in A!ToolCall : k = call[c] /\ A!WentThrough(k)
  BY DEF A!IInv, A!TypeOK, A!CallsTyped, A!Gated
<1>f. PICK cap \in Nat : cap = A!Max({MaxRead, MaxInline}) /\ MaxRead <= cap
  BY ToolAssumption, ToolTwoOrdered
<1>s. PICK size \in Nat, m \in Nat : call' = [call EXCEPT ![c] =
         [A!Idle EXCEPT !.at = "done", !.tool = k.tool, !.answer = A!Min({size, A!ClampRead(m)})]]
  BY Zenon, <1>k, ToolAssumption DEF A!ReadFile
<1>t. PICK answer \in Nat : answer = A!Min({size, A!ClampRead(m)}) /\ answer <= cap
  <2>1. PICK top \in Nat : top = A!ClampRead(m) /\ top <= MaxRead
    BY ToolReadsAreClamped
  <2>2. A!Min({size, top}) \in Nat /\ A!Min({size, top}) <= top
    BY ToolTwoOrdered
  <2> QED
    BY <1>f, <2>1, <2>2, ToolAssumption
<1>b. PICK n : n = [A!Idle EXCEPT !.at = "done", !.tool = k.tool, !.answer = answer]
  OBVIOUS
<1>d. n \in A!ToolCall /\ A!WentThrough(n) /\ n.answer = answer /\ n.at = "done"
  <2>1. k.tool \in A!Tools \cup {A!Bulk, None}
    BY DEF A!ToolCall
  <2>2. n \in A!ToolCall /\ n.answer = answer /\ n.at = "done" /\ n.config = None
    BY <1>b, <2>1 DEF A!ToolCall, A!Idle, A!NoArgs, A!Binding
  <2> QED
    BY <2>2 DEF A!WentThrough
<1>g. PICK S \in SUBSET (A!Record \cup {None}) : seen' = [seen EXCEPT ![c] = S]
  <2>1. seen = [seen EXCEPT ![c] = seen[c]] /\ seen[c] \in SUBSET (A!Record \cup {None})
    BY <1>a
  <2> QED
    BY <2>1 DEF A!ReadFile, A!ghosts
<1>h. A!BoundIn(n, S)
  BY <1>d DEF A!BoundIn
<1>c. A!CallsTyped' /\ A!Gated' /\ A!CredentialsAreBound' /\ A!AnswersAreCapped'
  BY <1>s, <1>t, <1>b, <1>d, <1>f, <1>g, <1>h, ToolCallMoves
<1>1. A!WorldTyped'
  BY DEF A!IInv, A!TypeOK, A!WorldTyped, A!ReadFile, A!settings, A!disk, A!ghosts, A!Record, A!Type
<1>2. A!EditsTyped'
  BY ToolAssumption DEF A!IInv, A!TypeOK, A!EditsTyped, A!ReadFile, A!settings, A!disk, A!ghosts
<1>3. A!ChangesPassTheGate'
  BY DEF A!IInv, A!ChangesPassTheGate, A!ReadFile, A!settings, A!disk, A!ghosts
<1>4. A!SavedInside'
  BY DEF A!IInv, A!SavedInside, A!ReadFile, A!settings, A!disk, A!ghosts
<1>5. A!ChatsApart'
  BY DEF A!IInv, A!ChatsApart, A!ReadFile, A!settings, A!disk, A!ghosts
<1> QED
  BY <1>c, <1>1, <1>2, <1>3, <1>4, <1>5 DEF A!IInv, A!TypeOK

LEMMA ToolDownloadFileStep ==
  ASSUME A!IInv, NEW c \in AiCallId, A!DownloadFile(c)
  PROVE  A!IInv'
<1> DEFINE call == v8
           seen == v10
           effects == v11
<1>a. call \in [AiCallId -> A!ToolCall] /\ seen \in [AiCallId -> SUBSET (A!Record \cup {None})]
  BY DEF A!IInv, A!TypeOK, A!CallsTyped
<1>k. PICK k \in A!ToolCall : k = call[c] /\ A!WentThrough(k)
  BY DEF A!IInv, A!TypeOK, A!CallsTyped, A!Gated
<1>x. ASSUME call[c].path = None
      PROVE  A!CallsTyped' /\ A!Gated' /\ A!CredentialsAreBound' /\ A!AnswersAreCapped'
  <2>f. PICK cap \in Nat : cap = A!Max({MaxRead, MaxInline}) /\ MaxInline <= cap
    BY ToolAssumption, ToolTwoOrdered
  <2>s. PICK size \in Nat : call' = [call EXCEPT ![c] =
              [A!Idle EXCEPT !.at = "done", !.tool = k.tool,
                           !.answer = IF size > MaxInline THEN 0 ELSE size]]
    BY Zenon, <1>x, <1>k, ToolAssumption DEF A!DownloadFile
  <2>t. PICK answer \in Nat : answer = (IF size > MaxInline THEN 0 ELSE size) /\ answer <= cap
    BY <2>f, ToolAssumption
  <2>b. PICK n : n = [A!Idle EXCEPT !.at = "done", !.tool = k.tool, !.answer = answer]
    OBVIOUS
  <2>d. n \in A!ToolCall /\ A!WentThrough(n) /\ n.answer = answer /\ n.at = "done"
    <3>1. k.tool \in A!Tools \cup {A!Bulk, None}
      BY DEF A!ToolCall
    <3>2. n \in A!ToolCall /\ n.answer = answer /\ n.at = "done" /\ n.config = None
      BY <2>b, <3>1 DEF A!ToolCall, A!Idle, A!NoArgs, A!Binding
    <3> QED
      BY <3>2 DEF A!WentThrough
  <2>g. PICK S \in SUBSET (A!Record \cup {None}) : seen' = [seen EXCEPT ![c] = S]
    <3>1. seen = [seen EXCEPT ![c] = seen[c]] /\ seen[c] \in SUBSET (A!Record \cup {None})
      BY <1>a
    <3> QED
      BY <3>1 DEF A!DownloadFile, A!ghosts
  <2>h. A!BoundIn(n, S)
    BY <2>d DEF A!BoundIn
  <2> QED
    BY <2>s, <2>t, <2>b, <2>d, <2>f, <2>g, <2>h, ToolCallMoves
<1>y. ASSUME call[c].path # None
      PROVE  A!CallsTyped' /\ A!Gated' /\ A!CredentialsAreBound' /\ A!AnswersAreCapped'
  <2>1. A!Ends(c) /\ UNCHANGED seen
    BY <1>y DEF A!DownloadFile
  <2> QED
    BY <2>1, ToolCallEnds
<1>c. A!CallsTyped' /\ A!Gated' /\ A!CredentialsAreBound' /\ A!AnswersAreCapped'
  BY <1>x, <1>y
<1>1. A!WorldTyped'
  BY DEF A!IInv, A!TypeOK, A!WorldTyped, A!DownloadFile, A!Changes, A!Ends, A!settings, A!disk,
     A!ghosts, A!Record, A!Type
<1>2. A!EditsTyped'
  BY ToolAssumption DEF A!IInv, A!TypeOK, A!EditsTyped, A!DownloadFile, A!Changes, A!Ends,
     A!settings, A!disk, A!ghosts
<1>3. A!ChangesPassTheGate'
  <2>1. effects' = effects \/ \E path : /\ A!Changes(c, "disk", path) /\ call[c].tool \in A!FileTools /\ call[c].tool[2] \in A!FileMutators
    BY DEF A!DownloadFile, A!FileMutators, A!SensitiveTools
  <2>2. call[c].tool \in A!FileTools /\ call[c].tool[2] \in A!FileMutators => call[c].gate # "none" /\ (call[c].gate = "harmless" => call[c].tool \in A!Command)
    <3>1. call[c].at = "acting"
      BY DEF A!DownloadFile
    <3>2. call[c].tool # A!Bulk
      BY DEF A!DownloadFile, A!Bulk, A!FileTools, A!ScpTools, A!FtpTools, A!SambaTools
    <3> QED
      BY <3>1, <3>2 DEF A!IInv, A!Gated, A!WentThrough, A!NeedsApproval
  <2> QED
    BY <2>1, <2>2 DEF A!IInv, A!ChangesPassTheGate, A!Changes
<1>4. A!SavedInside'
  <2>1. \/ effects' = effects
        \/ \E path : A!Changes(c, "disk", path) /\ A!IsPrefix(DownloadDir, path) /\ ".." \notin A!ToSet(path)
    <3>1. call[c].path # None => call[c].path \in ToolPath
      BY <1>a DEF A!ToolCall
    <3> QED
      BY <3>1, ToolResolvedIsClean DEF A!DownloadFile, A!Sandboxed
  <2> QED
    BY <2>1 DEF A!IInv, A!SavedInside, A!Changes
<1>5. A!ChatsApart'
  BY DEF A!IInv, A!ChatsApart, A!DownloadFile, A!Changes, A!Ends, A!settings, A!disk, A!ghosts
<1> QED
  BY <1>c, <1>1, <1>2, <1>3, <1>4, <1>5 DEF A!IInv, A!TypeOK

LEMMA ToolBulkSentStep ==
  ASSUME A!IInv, NEW c \in AiCallId, A!BulkSent(c)
  PROVE  A!IInv'
<1>c. A!CallsTyped' /\ A!Gated' /\ A!CredentialsAreBound' /\ A!AnswersAreCapped'
  BY ToolCallEnds DEF A!BulkSent, A!ghosts
<1>1. A!WorldTyped'
  BY DEF A!IInv, A!TypeOK, A!WorldTyped, A!BulkSent, A!settings, A!disk, A!ghosts, A!Record, A!Type
<1>2. A!EditsTyped'
  BY ToolAssumption DEF A!IInv, A!TypeOK, A!EditsTyped, A!BulkSent, A!settings, A!disk, A!ghosts
<1>3. A!ChangesPassTheGate'
  BY DEF A!IInv, A!ChangesPassTheGate, A!BulkSent, A!settings, A!disk, A!ghosts
<1>4. A!SavedInside'
  BY DEF A!IInv, A!SavedInside, A!BulkSent, A!settings, A!disk, A!ghosts
<1>5. A!ChatsApart'
  BY DEF A!IInv, A!ChatsApart, A!BulkSent, A!settings, A!disk, A!ghosts
<1> QED
  BY <1>c, <1>1, <1>2, <1>3, <1>4, <1>5 DEF A!IInv, A!TypeOK

LEMMA ToolExecuteStep ==
  ASSUME A!IInv, NEW c \in AiCallId, A!Execute(c)
  PROVE  A!IInv'
<1> DEFINE call == v8
           effects == v11
<1>c. A!CallsTyped' /\ A!Gated' /\ A!CredentialsAreBound' /\ A!AnswersAreCapped'
  BY ToolCallEnds DEF A!Execute, A!ghosts
<1>1. A!WorldTyped'
  BY DEF A!IInv, A!TypeOK, A!WorldTyped, A!Execute, A!Changes, A!settings, A!disk, A!ghosts,
     A!Record, A!Type
<1>2. A!EditsTyped'
  BY ToolAssumption DEF A!IInv, A!TypeOK, A!EditsTyped, A!Execute, A!Changes, A!settings, A!disk,
     A!ghosts
<1>3. A!ChangesPassTheGate'
  <2>1. effects' = effects \/ \E path : /\ A!Changes(c, "command", path) /\ call[c].tool \in A!SensitiveTools
    BY DEF A!Execute, A!FileMutators, A!SensitiveTools
  <2>2. call[c].tool \in A!SensitiveTools => call[c].gate # "none" /\ (call[c].gate = "harmless" => call[c].tool \in A!Command)
    <3>1. call[c].at = "acting"
      BY DEF A!Execute
    <3>2. call[c].tool # A!Bulk
      BY DEF A!Execute, A!Bulk, A!FileTools, A!ScpTools, A!FtpTools, A!SambaTools
    <3> QED
      BY <3>1, <3>2 DEF A!IInv, A!Gated, A!WentThrough, A!NeedsApproval
  <2> QED
    BY <2>1, <2>2 DEF A!IInv, A!ChangesPassTheGate, A!Changes
<1>4. A!SavedInside'
  BY DEF A!IInv, A!SavedInside, A!Execute, A!Changes, A!settings, A!disk, A!ghosts
<1>5. A!ChatsApart'
  BY DEF A!IInv, A!ChatsApart, A!Execute, A!Changes, A!settings, A!disk, A!ghosts
<1> QED
  BY <1>c, <1>1, <1>2, <1>3, <1>4, <1>5 DEF A!IInv, A!TypeOK

LEMMA ToolOpenTerminalStep ==
  ASSUME A!IInv, NEW c \in AiCallId, A!OpenTerminal(c)
  PROVE  A!IInv'
<1> DEFINE mode == v1
           context == v2
           profiles == v3
           secrets == v4
           proxies == v5
           registry == v6
           live == v7
           call == v8
           effects == v11
<1>c. A!CallsTyped' /\ A!Gated' /\ A!CredentialsAreBound' /\ A!AnswersAreCapped'
  BY ToolCallEnds DEF A!OpenTerminal, A!ghosts
<1>1. A!WorldTyped'
  <2>0. call[c].chat \in ToolChat \cup {None}
    BY DEF A!IInv, A!TypeOK, A!CallsTyped, A!ToolCall
  <2>1. \/ UNCHANGED <<registry, live>>
        \/ \E s \in ShellId, e \in [owner : {"ai", "user"}, chat : ToolChat \cup {None}] :
             /\ registry' = [x \in DOMAIN registry \cup {s} |-> IF x = s THEN e ELSE registry[x]]
             /\ live' = live \cup {s}
    BY <2>0 DEF A!OpenTerminal
  <2>2. UNCHANGED <<mode, context, profiles, secrets, proxies>>
    BY DEF A!OpenTerminal, A!settings, A!disk
  <2> QED
    BY <2>1, <2>2 DEF A!IInv, A!TypeOK, A!WorldTyped
<1>2. A!EditsTyped'
  BY ToolAssumption DEF A!IInv, A!TypeOK, A!EditsTyped, A!OpenTerminal, A!Changes, A!settings,
     A!disk, A!ghosts
<1>3. A!ChangesPassTheGate'
  <2>1. effects' = effects \/ \E path : /\ A!Changes(c, "terminal", path) /\ call[c].tool \in A!SensitiveTools
    BY DEF A!OpenTerminal, A!FileMutators, A!SensitiveTools
  <2>2. call[c].tool \in A!SensitiveTools => call[c].gate # "none" /\ (call[c].gate = "harmless" => call[c].tool \in A!Command)
    <3>1. call[c].at = "acting"
      BY DEF A!OpenTerminal
    <3>2. call[c].tool # A!Bulk
      BY DEF A!OpenTerminal, A!Bulk, A!FileTools, A!ScpTools, A!FtpTools, A!SambaTools
    <3> QED
      BY <3>1, <3>2 DEF A!IInv, A!Gated, A!WentThrough, A!NeedsApproval
  <2> QED
    BY <2>1, <2>2 DEF A!IInv, A!ChangesPassTheGate, A!Changes
<1>4. A!SavedInside'
  BY DEF A!IInv, A!SavedInside, A!OpenTerminal, A!Changes, A!settings, A!disk, A!ghosts
<1>5. A!ChatsApart'
  BY DEF A!IInv, A!ChatsApart, A!OpenTerminal, A!Changes, A!settings, A!disk, A!ghosts
<1> QED
  BY <1>c, <1>1, <1>2, <1>3, <1>4, <1>5 DEF A!IInv, A!TypeOK

LEMMA ToolSessionReadStep ==
  ASSUME A!IInv, NEW c \in AiCallId, A!SessionRead(c)
  PROVE  A!IInv'
<1>c. A!CallsTyped' /\ A!Gated' /\ A!CredentialsAreBound' /\ A!AnswersAreCapped'
  BY ToolCallEnds DEF A!SessionRead, A!ghosts
<1>1. A!WorldTyped'
  BY DEF A!IInv, A!TypeOK, A!WorldTyped, A!SessionRead, A!MayRead, A!settings, A!disk, A!ghosts,
     A!Record, A!Type
<1>2. A!EditsTyped'
  BY ToolAssumption DEF A!IInv, A!TypeOK, A!EditsTyped, A!SessionRead, A!MayRead, A!settings,
     A!disk, A!ghosts
<1>3. A!ChangesPassTheGate'
  BY DEF A!IInv, A!ChangesPassTheGate, A!SessionRead, A!MayRead, A!settings, A!disk, A!ghosts
<1>4. A!SavedInside'
  BY DEF A!IInv, A!SavedInside, A!SessionRead, A!MayRead, A!settings, A!disk, A!ghosts
<1>5. A!ChatsApart'
  BY DEF A!IInv, A!ChatsApart, A!SessionRead, A!MayRead, A!settings, A!disk, A!ghosts
<1> QED
  BY <1>c, <1>1, <1>2, <1>3, <1>4, <1>5 DEF A!IInv, A!TypeOK

LEMMA ToolSessionListStep ==
  ASSUME A!IInv, NEW c \in AiCallId, A!SessionList(c)
  PROVE  A!IInv'
<1>c. A!CallsTyped' /\ A!Gated' /\ A!CredentialsAreBound' /\ A!AnswersAreCapped'
  BY ToolCallEnds DEF A!SessionList, A!ghosts
<1>1. A!WorldTyped'
  BY DEF A!IInv, A!TypeOK, A!WorldTyped, A!SessionList, A!Visible, A!settings, A!disk, A!ghosts,
     A!Record, A!Type
<1>2. A!EditsTyped'
  BY ToolAssumption DEF A!IInv, A!TypeOK, A!EditsTyped, A!SessionList, A!Visible, A!settings,
     A!disk, A!ghosts
<1>3. A!ChangesPassTheGate'
  BY DEF A!IInv, A!ChangesPassTheGate, A!SessionList, A!Visible, A!settings, A!disk, A!ghosts
<1>4. A!SavedInside'
  BY DEF A!IInv, A!SavedInside, A!SessionList, A!Visible, A!settings, A!disk, A!ghosts
<1>5. A!ChatsApart'
  BY DEF A!IInv, A!ChatsApart, A!SessionList, A!Visible, A!settings, A!disk, A!ghosts
<1> QED
  BY <1>c, <1>1, <1>2, <1>3, <1>4, <1>5 DEF A!IInv, A!TypeOK

LEMMA ToolSessionWriteStep ==
  ASSUME A!IInv, NEW c \in AiCallId, A!SessionWrite(c)
  PROVE  A!IInv'
<1> DEFINE call == v8
           effects == v11
<1>c. A!CallsTyped' /\ A!Gated' /\ A!CredentialsAreBound' /\ A!AnswersAreCapped'
  BY ToolCallEnds DEF A!SessionWrite, A!ghosts
<1>1. A!WorldTyped'
  BY DEF A!IInv, A!TypeOK, A!WorldTyped, A!SessionWrite, A!Changes, A!settings, A!disk, A!ghosts,
     A!Record, A!Type
<1>2. A!EditsTyped'
  BY ToolAssumption DEF A!IInv, A!TypeOK, A!EditsTyped, A!SessionWrite, A!Changes, A!settings,
     A!disk, A!ghosts
<1>3. A!ChangesPassTheGate'
  <2>1. effects' = effects \/ \E path : /\ A!Changes(c, "terminal", path) /\ call[c].tool \in A!SensitiveTools
    BY DEF A!SessionWrite, A!FileMutators, A!SensitiveTools
  <2>2. call[c].tool \in A!SensitiveTools => call[c].gate # "none" /\ (call[c].gate = "harmless" => call[c].tool \in A!Command)
    <3>1. call[c].at = "acting"
      BY DEF A!SessionWrite
    <3>2. call[c].tool # A!Bulk
      BY DEF A!SessionWrite, A!Bulk, A!FileTools, A!ScpTools, A!FtpTools, A!SambaTools
    <3> QED
      BY <3>1, <3>2 DEF A!IInv, A!Gated, A!WentThrough, A!NeedsApproval
  <2> QED
    BY <2>1, <2>2 DEF A!IInv, A!ChangesPassTheGate, A!Changes
<1>4. A!SavedInside'
  BY DEF A!IInv, A!SavedInside, A!SessionWrite, A!Changes, A!settings, A!disk, A!ghosts
<1>5. A!ChatsApart'
  BY DEF A!IInv, A!ChatsApart, A!SessionWrite, A!Changes, A!settings, A!disk, A!ghosts
<1> QED
  BY <1>c, <1>1, <1>2, <1>3, <1>4, <1>5 DEF A!IInv, A!TypeOK

LEMMA ToolProfileListStep ==
  ASSUME A!IInv, NEW c \in AiCallId, A!ProfileList(c)
  PROVE  A!IInv'
<1>c. A!CallsTyped' /\ A!Gated' /\ A!CredentialsAreBound' /\ A!AnswersAreCapped'
  BY ToolCallEnds DEF A!ProfileList, A!ghosts
<1>1. A!WorldTyped'
  BY DEF A!IInv, A!TypeOK, A!WorldTyped, A!ProfileList, A!settings, A!disk, A!ghosts, A!Record,
     A!Type
<1>2. A!EditsTyped'
  BY ToolAssumption DEF A!IInv, A!TypeOK, A!EditsTyped, A!ProfileList, A!settings, A!disk, A!ghosts
<1>3. A!ChangesPassTheGate'
  BY DEF A!IInv, A!ChangesPassTheGate, A!ProfileList, A!settings, A!disk, A!ghosts
<1>4. A!SavedInside'
  BY DEF A!IInv, A!SavedInside, A!ProfileList, A!settings, A!disk, A!ghosts
<1>5. A!ChatsApart'
  BY DEF A!IInv, A!ChatsApart, A!ProfileList, A!settings, A!disk, A!ghosts
<1> QED
  BY <1>c, <1>1, <1>2, <1>3, <1>4, <1>5 DEF A!IInv, A!TypeOK

LEMMA ToolEditProfileStep ==
  ASSUME A!IInv, A!EditProfile
  PROVE  A!IInv'
<1> DEFINE profiles == v3
           call == v8
           seen == v10
<1>a. PICK p \in ToolProfile, r \in A!Record \cup {None} :
        /\ profiles' = [profiles EXCEPT ![p] = r]
        /\ seen' = [c \in AiCallId |-> IF call[c].profile = p /\ call[c].at = "resolving"
                                     THEN seen[c] \cup {r} ELSE seen[c]]
  <2>1. PICK p \in ToolProfile : \E r \in A!Edited(profiles[p]) \ {profiles[p]} :
        /\ profiles' = [profiles EXCEPT ![p] = r]
        /\ seen' = [c \in AiCallId |-> IF call[c].profile = p /\ call[c].at = "resolving"
                                     THEN seen[c] \cup {r} ELSE seen[c]]
    BY DEF A!EditProfile
  <2>2. PICK o \in A!Record \cup {None} : o = profiles[p]
    BY DEF A!IInv, A!TypeOK, A!WorldTyped
  <2>3. A!Edited(o) \subseteq A!Record \cup {None}
    BY DEF A!Edited, A!Record, A!Type
  <2> QED
    BY <2>1, <2>2, <2>3
<1>b. call' = call
  BY DEF A!EditProfile
<1>d. A!CallsTyped'
  BY <1>a, <1>b DEF A!IInv, A!TypeOK, A!CallsTyped
<1>e. A!Gated' /\ A!AnswersAreCapped'
  BY <1>b DEF A!IInv, A!Gated, A!AnswersAreCapped
<1>f. A!CredentialsAreBound'
  <2>1. \A c \in AiCallId : seen[c] \subseteq seen'[c]
    BY <1>a
  <2> QED
    BY <1>b, <2>1 DEF A!IInv, A!CredentialsAreBound, A!BoundIn
<1>c. A!CallsTyped' /\ A!Gated' /\ A!CredentialsAreBound' /\ A!AnswersAreCapped'
  BY <1>d, <1>e, <1>f
<1>1. A!WorldTyped'
  BY <1>a DEF A!IInv, A!TypeOK, A!WorldTyped, A!EditProfile, A!settings
<1>2. A!EditsTyped'
  BY ToolAssumption DEF A!IInv, A!TypeOK, A!EditsTyped, A!EditProfile, A!User, A!settings, A!disk,
     A!ghosts
<1>3. A!ChangesPassTheGate'
  BY DEF A!IInv, A!ChangesPassTheGate, A!EditProfile, A!User, A!settings, A!disk, A!ghosts
<1>4. A!SavedInside'
  BY DEF A!IInv, A!SavedInside, A!EditProfile, A!User, A!settings, A!disk, A!ghosts
<1>5. A!ChatsApart'
  BY DEF A!IInv, A!ChatsApart, A!EditProfile, A!User, A!settings, A!disk, A!ghosts
<1> QED
  BY <1>c, <1>1, <1>2, <1>3, <1>4, <1>5 DEF A!IInv, A!TypeOK

LEMMA ToolDeleteSecretStep ==
  ASSUME A!IInv, A!DeleteSecret
  PROVE  A!IInv'
<1>c. A!CallsTyped' /\ A!Gated' /\ A!CredentialsAreBound' /\ A!AnswersAreCapped'
  BY DEF A!IInv, A!TypeOK, A!CallsTyped, A!Gated, A!CredentialsAreBound, A!AnswersAreCapped,
     A!DeleteSecret, A!ghosts
<1>1. A!WorldTyped'
  BY DEF A!IInv, A!TypeOK, A!WorldTyped, A!DeleteSecret, A!User, A!settings, A!disk, A!ghosts,
     A!Record, A!Type
<1>2. A!EditsTyped'
  BY ToolAssumption DEF A!IInv, A!TypeOK, A!EditsTyped, A!DeleteSecret, A!User, A!settings, A!disk,
     A!ghosts
<1>3. A!ChangesPassTheGate'
  BY DEF A!IInv, A!ChangesPassTheGate, A!DeleteSecret, A!User, A!settings, A!disk, A!ghosts
<1>4. A!SavedInside'
  BY DEF A!IInv, A!SavedInside, A!DeleteSecret, A!User, A!settings, A!disk, A!ghosts
<1>5. A!ChatsApart'
  BY DEF A!IInv, A!ChatsApart, A!DeleteSecret, A!User, A!settings, A!disk, A!ghosts
<1> QED
  BY <1>c, <1>1, <1>2, <1>3, <1>4, <1>5 DEF A!IInv, A!TypeOK

LEMMA ToolUserOpensStep ==
  ASSUME A!IInv, A!UserOpens
  PROVE  A!IInv'
<1> DEFINE mode == v1
           context == v2
           profiles == v3
           secrets == v4
           proxies == v5
           registry == v6
           live == v7
<1>c. A!CallsTyped' /\ A!Gated' /\ A!CredentialsAreBound' /\ A!AnswersAreCapped'
  BY DEF A!IInv, A!TypeOK, A!CallsTyped, A!Gated, A!CredentialsAreBound, A!AnswersAreCapped,
     A!UserOpens, A!ghosts
<1>1. A!WorldTyped'
  <2>1. \/ UNCHANGED <<registry, live>>
        \/ \E s \in ShellId, e \in [owner : {"ai", "user"}, chat : ToolChat \cup {None}] :
             /\ registry' = [x \in DOMAIN registry \cup {s} |-> IF x = s THEN e ELSE registry[x]]
             /\ live' = live \cup {s}
    BY ToolAssumption DEF A!UserOpens
  <2>2. UNCHANGED <<mode, context, profiles, secrets, proxies>>
    BY DEF A!UserOpens, A!settings, A!disk
  <2> QED
    BY <2>1, <2>2 DEF A!IInv, A!TypeOK, A!WorldTyped
<1>2. A!EditsTyped'
  BY ToolAssumption DEF A!IInv, A!TypeOK, A!EditsTyped, A!UserOpens, A!User, A!settings, A!disk,
     A!ghosts
<1>3. A!ChangesPassTheGate'
  BY DEF A!IInv, A!ChangesPassTheGate, A!UserOpens, A!User, A!settings, A!disk, A!ghosts
<1>4. A!SavedInside'
  BY DEF A!IInv, A!SavedInside, A!UserOpens, A!User, A!settings, A!disk, A!ghosts
<1>5. A!ChatsApart'
  BY DEF A!IInv, A!ChatsApart, A!UserOpens, A!User, A!settings, A!disk, A!ghosts
<1> QED
  BY <1>c, <1>1, <1>2, <1>3, <1>4, <1>5 DEF A!IInv, A!TypeOK

LEMMA ToolDisconnectsStep ==
  ASSUME A!IInv, A!Disconnects
  PROVE  A!IInv'
<1>c. A!CallsTyped' /\ A!Gated' /\ A!CredentialsAreBound' /\ A!AnswersAreCapped'
  BY DEF A!IInv, A!TypeOK, A!CallsTyped, A!Gated, A!CredentialsAreBound, A!AnswersAreCapped,
     A!Disconnects, A!ghosts
<1>1. A!WorldTyped'
  BY DEF A!IInv, A!TypeOK, A!WorldTyped, A!Disconnects, A!User, A!Forgotten, A!settings, A!disk,
     A!ghosts, A!Record, A!Type
<1>2. A!EditsTyped'
  BY ToolAssumption DEF A!IInv, A!TypeOK, A!EditsTyped, A!Disconnects, A!User, A!Forgotten,
     A!settings, A!disk, A!ghosts
<1>3. A!ChangesPassTheGate'
  BY DEF A!IInv, A!ChangesPassTheGate, A!Disconnects, A!User, A!Forgotten, A!settings, A!disk,
     A!ghosts
<1>4. A!SavedInside'
  BY DEF A!IInv, A!SavedInside, A!Disconnects, A!User, A!Forgotten, A!settings, A!disk, A!ghosts
<1>5. A!ChatsApart'
  BY DEF A!IInv, A!ChatsApart, A!Disconnects, A!User, A!Forgotten, A!settings, A!disk, A!ghosts
<1> QED
  BY <1>c, <1>1, <1>2, <1>3, <1>4, <1>5 DEF A!IInv, A!TypeOK

LEMMA ToolNextStep == ASSUME A!IInv, A!Next PROVE A!IInv'
<1>1. ASSUME NEW c \in AiCallId,
             A!ExecuteTool(c) \/ A!BulkDownload(c) \/ A!Answered(c) \/ A!ListProfiles(c) \/ A!GetConnector(c)
      PROVE  A!IInv'
  BY <1>1, ToolExecuteToolStep, ToolBulkDownloadStep, ToolAnsweredStep, ToolListProfilesStep,
     ToolGetConnectorStep
<1>2. ASSUME NEW c \in AiCallId,
             A!ResolveRemoteConfig(c) \/ A!Dialed(c) \/ A!FileActs(c) \/ A!ReadFile(c) \/ A!DownloadFile(c)
      PROVE  A!IInv'
  BY <1>2, ToolResolveRemoteConfigStep, ToolDialedStep, ToolFileActsStep, ToolReadFileStep,
     ToolDownloadFileStep
<1>3. ASSUME NEW c \in AiCallId, A!BulkSent(c) \/ A!Execute(c) \/ A!OpenTerminal(c) \/ A!SessionRead(c)
      PROVE  A!IInv'
  BY <1>3, ToolBulkSentStep, ToolExecuteStep, ToolOpenTerminalStep, ToolSessionReadStep
<1>4. ASSUME NEW c \in AiCallId, A!SessionList(c) \/ A!SessionWrite(c) \/ A!ProfileList(c)
      PROVE  A!IInv'
  BY <1>4, ToolSessionListStep, ToolSessionWriteStep, ToolProfileListStep
<1>5. CASE A!EditProfile \/ A!DeleteSecret \/ A!UserOpens \/ A!Disconnects
  BY <1>5, ToolEditProfileStep, ToolDeleteSecretStep, ToolUserOpensStep, ToolDisconnectsStep
<1> QED
  BY <1>1, <1>2, <1>3, <1>4, <1>5 DEF A!Next

-----------------------------------------------------------------------------
\* What terminals print: what is kept and was brought is not newer than the last look.

\* An element more,
LEMMA ContextAppended ==
  ASSUME NEW T, NEW q \in Seq(T), NEW y \in T
  PROVE  /\ Append(q, y) \in Seq(T) /\ DOMAIN q = 1..Len(q)
         /\ Len(q) \in Nat /\ DOMAIN Append(q, y) = 1..(Len(q) + 1)
         /\ \A j \in 1..(Len(q) + 1) : Append(q, y)[j] = IF j <= Len(q) THEN q[j] ELSE y
         /\ I!Range(Append(q, y)) = I!Range(q) \cup {y}
<1> DEFINE p == Append(q, y)
<1>1. /\ Len(q) \in Nat /\ DOMAIN q = 1..Len(q) /\ p \in Seq(T)
      /\ DOMAIN p = 1..(Len(q) + 1)
      /\ \A j \in 1..(Len(q) + 1) : p[j] = IF j <= Len(q) THEN q[j] ELSE y
  BY AppendProperties, LenProperties
<1> HIDE DEF p
<1>2. \A j \in 1..Len(q) : j \in 1..(Len(q) + 1) /\ p[j] = q[j]
  BY <1>1
<1>3. Len(q) + 1 \in 1..(Len(q) + 1) /\ p[Len(q) + 1] = y
  BY <1>1
<1>4. \A j \in 1..(Len(q) + 1) : j \in 1..Len(q) \/ j = Len(q) + 1
  BY <1>1
<1>5. ASSUME NEW z \in I!Range(p) PROVE z \in I!Range(q) \/ z = y
  <2>1. PICK j \in 1..(Len(q) + 1) : z = p[j]
    BY <1>1, <1>5 DEF I!Range
  <2> QED BY <2>1, <1>1, <1>2, <1>3, <1>4 DEF I!Range
<1>6. ASSUME NEW z \in I!Range(q) PROVE z \in I!Range(p)
  <2>1. PICK j \in 1..Len(q) : z = q[j]
    BY <1>1, <1>6 DEF I!Range
  <2> QED BY <2>1, <1>1, <1>2 DEF I!Range
<1>7. y \in I!Range(p)
  BY <1>1, <1>3 DEF I!Range
<1>8. I!Range(p) = I!Range(q) \cup {y}
  BY <1>5, <1>6, <1>7
<1> QED BY <1>1, <1>8 DEF p

\* and the first one less.
LEMMA ContextShifted ==
  ASSUME NEW T, NEW q \in Seq(T), NEW y \in T,
         NEW p, p = Append(q, y) \/ p = Tail(Append(q, y))
  PROVE  /\ p \in Seq(T)
         /\ \E d \in {0, 1} : \A i \in DOMAIN p :
              /\ i \in Nat /\ p[i] = IF i + d = Len(q) + 1 THEN y ELSE q[i + d]
              /\ i + d # Len(q) + 1 => i + d \in DOMAIN q
<1> DEFINE l == Append(q, y)
<1>1. /\ l \in Seq(T) /\ DOMAIN q = 1..Len(q)
      /\ Len(q) \in Nat /\ DOMAIN l = 1..(Len(q) + 1)
      /\ \A j \in 1..(Len(q) + 1) : l[j] = IF j <= Len(q) THEN q[j] ELSE y
  BY ContextAppended
<1>2. l # <<>> /\ Len(l) = Len(q) + 1
  BY AppendProperties
<1> HIDE DEF l
<1>3. CASE p = l
  <2>1. ASSUME NEW i \in DOMAIN p
        PROVE  /\ i \in Nat /\ p[i] = IF i + 0 = Len(q) + 1 THEN y ELSE q[i + 0]
               /\ i + 0 # Len(q) + 1 => i + 0 \in DOMAIN q
    <3>0. DOMAIN p = 1..(Len(q) + 1) /\ Len(q) \in Nat
      <4>1. DOMAIN l = 1..(Len(q) + 1) /\ Len(q) \in Nat
        BY <1>1
      <4> QED BY <4>1, <1>3, Zenon
    <3>1. i \in 1..(Len(q) + 1) /\ i \in Nat /\ i + 0 = i
      BY <3>0
    <3>2. p[i] = IF i <= Len(q) THEN q[i] ELSE y
      BY Zenon, <3>1, <1>1, <1>3
    <3>3. i # Len(q) + 1 <=> i <= Len(q)
      BY <3>1, <1>1
    <3>4. i # Len(q) + 1 => i \in 1..Len(q)
      BY <3>1, <1>1
    <3> QED BY <3>1, <3>2, <3>3, <3>4, <1>1
  <2> QED BY Zenon, <2>1, <1>1, <1>3
<1>4. CASE p = Tail(l)
  <2>1. /\ p \in Seq(T) /\ Len(p) = Len(q)
        /\ \A i \in 1..Len(q) : p[i] = l[i + 1]
    BY <1>1, <1>2, <1>4, HeadTailProperties
  <2>2. DOMAIN p = 1..Len(q)
    BY <2>1, LenProperties
  <2>3. ASSUME NEW i \in DOMAIN p
        PROVE  /\ i \in Nat /\ p[i] = IF i + 1 = Len(q) + 1 THEN y ELSE q[i + 1]
               /\ i + 1 # Len(q) + 1 => i + 1 \in DOMAIN q
    <3>0. Len(q) \in Nat
      BY <1>1
    <3>1. i \in 1..Len(q) /\ i \in Nat /\ i + 1 \in 1..(Len(q) + 1)
      BY <2>2, <3>0
    <3>2. p[i] = IF i + 1 <= Len(q) THEN q[i + 1] ELSE y
      BY <3>1, <1>1, <2>1
    <3>3. i + 1 # Len(q) + 1 <=> i + 1 <= Len(q)
      BY <3>1, <1>1
    <3>4. i + 1 # Len(q) + 1 => i + 1 \in 1..Len(q)
      BY <3>1, <1>1
    <3> QED BY <3>1, <3>2, <3>3, <3>4, <1>1
  <2> QED BY <2>1, <2>3
<1> QED BY <1>3, <1>4 DEF l

\* What Only computes, step by step,
LEMMA ContextOnlyWalks ==
  ASSUME NEW T, NEW seq \in Seq(T), NEW S
  PROVE  \E w : /\ I!Only(seq, S) = w[Len(seq)] /\ w[0] = <<>>
                /\ \A i \in 1..Len(seq) :
                     w[i] = IF seq[i] \in S THEN Append(w[i - 1], seq[i]) ELSE w[i - 1]
<1> DEFINE X == Seq(T)
           f == [x \in X \X T |-> IF x[2] \in S THEN Append(x[1], x[2]) ELSE x[1]]
           n == Len(seq)
           Next1(G) == [i \in 0..n |->
                          IF i = 0 THEN <<>>
                          ELSE IF seq[i] \in S THEN Append(G[i - 1], seq[i]) ELSE G[i - 1]]
           w == CHOOSE G : G = Next1(G)
<1>0. n \in Nat /\ DOMAIN seq = 1..n
  BY LenProperties
<1>1. w = Next1(w)
  <2>1. f \in [X \X T -> X]
    BY AppendProperties
  <2>2. PICK u \in [0..n -> X] : u[0] = <<>> /\ \A i \in 1..n : u[i] = f[<<u[i - 1], seq[i]>>]
    <3>1. Walker(X, <<>>, T, seq, f)
      BY <2>1, EmptySeq DEF Walker
    <3> HIDE DEF f
    <3>2. \E u : Walk(X, <<>>, seq, f, u)
      BY <3>1, WalkExists
    <3> QED BY <3>2 DEF Walk
  <2> HIDE DEF X
  <2>3. \A i \in 0..n : u[i] = Next1(u)[i]
    <3> TAKE i \in 0..n
    <3>1. i # 0 => i \in 1..n /\ u[i - 1] \in X /\ seq[i] \in T
      BY <1>0, ElementOfSeq
    <3> QED BY <3>1, <2>2
  <2>4. u = Next1(u)
    BY <2>3, <2>2
  <2> QED BY <2>4
<1>2. I!Only(seq, S) = w[n]
  BY DEF I!Only
<1> HIDE DEF w
<1>3. w[0] = <<>>
  BY <1>0, <1>1
<1>4. \A i \in 1..n : w[i] = IF seq[i] \in S THEN Append(w[i - 1], seq[i]) ELSE w[i - 1]
  <2> TAKE i \in 1..n
  <2>1. i \in 0..n /\ i # 0
    BY <1>0
  <2>2. w[i] = Next1(w)[i]
    <3> HIDE DEF Next1
    <3> QED BY <1>1
  <2> HIDE DEF n
  <2> QED BY <2>1, <2>2
<1> QED BY <1>2, <1>3, <1>4

\* and so what it gives.
LEMMA ContextOnlyGives ==
  ASSUME NEW T, NEW seq \in Seq(T), NEW S
  PROVE  /\ I!Only(seq, S) \in Seq(T) /\ I!Range(I!Only(seq, S)) = I!Range(seq) \cap S
         /\ (\A i, j \in DOMAIN seq : seq[i] = seq[j] => i = j)
              => \A i, j \in DOMAIN I!Only(seq, S) : I!Only(seq, S)[i] = I!Only(seq, S)[j] => i = j
<1>1. PICK w : /\ I!Only(seq, S) = w[Len(seq)] /\ w[0] = <<>>
               /\ \A i \in 1..Len(seq) :
                    w[i] = IF seq[i] \in S THEN Append(w[i - 1], seq[i]) ELSE w[i - 1]
  BY ContextOnlyWalks
<1> DEFINE n == Len(seq)
           Each(q) == \A i, j \in DOMAIN q : q[i] = q[j] => i = j
           Good(i) == /\ w[i] \in Seq(T)
                      /\ \A y : y \in I!Range(w[i]) <=> y \in S /\ \E j \in 1..i : y = seq[j]
                      /\ Each(seq) => Each(w[i])
           K == {i \in Nat : i <= n => Good(i)}
<1>0. n \in Nat /\ DOMAIN seq = 1..n
  BY LenProperties
<1>2. 0 \in K
  <2>1. w[0] = <<>> /\ DOMAIN w[0] = {}
    BY <1>1, EmptySeq
  <2>2. w[0] \in Seq(T)
    BY <2>1, EmptySeq
  <2>3. \A y : y \notin I!Range(w[0])
    <3> HIDE DEF n
    <3> QED BY <2>1 DEF I!Range
  <2>4. Each(w[0])
    BY <2>1
  <2>5. \A y : ~\E j \in 1..0 : y = seq[j]
    OBVIOUS
  <2> HIDE DEF Each
  <2> QED BY <2>2, <2>3, <2>4, <2>5
<1>3. ASSUME NEW i \in Nat, i \in K PROVE i + 1 \in K
  <2> SUFFICES ASSUME i + 1 <= n PROVE Good(i + 1)
    OBVIOUS
  <2>0. Good(i) /\ i + 1 \in 1..n /\ (i + 1) - 1 = i
    BY <1>3, <1>0
  <2>1. CASE seq[i + 1] \notin S
    <3>1. w[i + 1] = w[i]
      BY <1>1, <2>0, <2>1
    <3>2. \A y \in S : (\E j \in 1..(i + 1) : y = seq[j]) <=> \E j \in 1..i : y = seq[j]
      BY <2>1
    <3> QED BY <3>1, <3>2, <2>0
  <2>2. CASE seq[i + 1] \in S
    <3> DEFINE q == w[i]
               y == seq[i + 1]
    <3>1. w[i + 1] = Append(q, y) /\ q \in Seq(T) /\ y \in T
      BY <1>1, <2>0, <2>2, <1>0, ElementOfSeq
    <3>2. Len(q) \in Nat /\ DOMAIN q = 1..Len(q) /\ Append(q, y) \in Seq(T)
          /\ DOMAIN Append(q, y) = 1..(Len(q) + 1)
          /\ \A j \in 1..(Len(q) + 1) : Append(q, y)[j] = IF j <= Len(q) THEN q[j] ELSE y
      <4> HIDE DEF q, y
      <4> QED BY <3>1, AppendProperties, LenProperties
    <3> HIDE DEF y
    <3>3. \A z : z \in I!Range(Append(q, y)) <=> z \in I!Range(q) \/ z = y
      <4> HIDE DEF q
      <4> QED BY <3>1, ContextAppended
    <3>4. \A z : (\E j \in 1..(i + 1) : z = seq[j]) <=> (\E j \in 1..i : z = seq[j]) \/ z = y
      BY DEF y
    <3>5. y \in S
      BY <2>2 DEF y
    <3>6. Each(seq) => Each(Append(q, y))
      <4> SUFFICES ASSUME Each(seq) PROVE Each(Append(q, y))
        OBVIOUS
      <4>1. y \notin I!Range(q)
        <5> SUFFICES ASSUME y \in I!Range(q) PROVE FALSE
          OBVIOUS
        <5>1. PICK j \in 1..i : y = seq[j]
          BY <2>0
        <5>2. j \in DOMAIN seq /\ i + 1 \in DOMAIN seq /\ j # i + 1
          BY <1>0, <2>0
        <5> QED BY <5>1, <5>2 DEF y
      <4>2. Each(q)
        BY <2>0
      <4> HIDE DEF q
      <4> QED BY <4>1, <4>2, <3>2 DEF I!Range
    <3> HIDE DEF q, Each
    <3>7. \A z : z \in I!Range(q) <=> z \in S /\ \E j \in 1..i : z = seq[j]
      BY <2>0 DEF q
    <3> QED BY <3>1, <3>2, <3>3, <3>4, <3>5, <3>6, <3>7
  <2> QED BY <2>1, <2>2
<1> HIDE DEF K
<1>4. Nat \subseteq K
  BY <1>2, <1>3, Induct
<1>5. Good(n)
  <2> HIDE DEF Good
  <2> QED BY <1>4, <1>0 DEF K
<1>6. w[n] = I!Only(seq, S)
  BY <1>1
<1>7. I!Range(seq) = {seq[j] : j \in 1..n}
  BY <1>0 DEF I!Range
<1> QED BY <1>5, <1>6, <1>7

\* The steps of the registry
LEMMA ContextInitHolds == I!Init => I!IInv
<1> SUFFICES ASSUME I!Init PROVE I!IInv
  OBVIOUS
<1> USE DEF I!Init
<1>0. <<>> \in Seq(ShellId) /\ <<>> \in Seq(I!Output) /\ DOMAIN <<>> = {}
  BY EmptySeq
<1>1. I!TypeOK
  BY <1>0, ContextAssumption DEF I!TypeOK, I!Range
<1>2. I!ToldOnce
  BY <1>0 DEF I!ToldOnce
<1>3. I!OutputArrives
  BY <1>0 DEF I!OutputArrives, I!Range
<1> QED BY <1>1, <1>2, <1>3 DEF I!IInv, I!NothingTwice

LEMMA ContextStepRegister ==
  ASSUME I!IInv, NEW s \in ShellId, I!Register(s)
  PROVE  I!IInv'
<1> DEFINE registered == v2
           buffer == v4
           lastSent == v5
           sent == v10
           passed == v12
<1> USE DEF I!Register, I!marks
<1>0. I!TypeOK /\ I!ToldOnce /\ I!OutputArrives /\ I!NothingTwice
  BY DEF I!IInv
<1>1. <<>> \in Seq(I!Output) /\ DOMAIN <<>> = {}
  BY EmptySeq
<1>a. /\ Append(registered, s) \in Seq(ShellId) /\ Len(registered) \in Nat
      /\ DOMAIN Append(registered, s) = 1..(Len(registered) + 1)
      /\ \A j \in 1..(Len(registered) + 1) :
           Append(registered, s)[j] = IF j <= Len(registered) THEN registered[j] ELSE s
      /\ I!Range(Append(registered, s)) = I!Range(registered) \cup {s}
  <2>1. registered \in Seq(ShellId)
    BY <1>0 DEF I!TypeOK
  <2> QED BY <2>1, ContextAppended
<1>2. /\ registered' \in Seq(ShellId) /\ I!Range(registered') = I!Range(registered) \cup {s}
      /\ \A i, j \in DOMAIN registered' : registered'[i] = registered'[j] => i = j
  <2> USE <1>0 DEF I!TypeOK
  <2>0. DOMAIN registered = 1..Len(registered)
    BY LenProperties
  <2>1. CASE I!Contains(registered, s)
    <3>1. s \in I!Range(registered) /\ registered' = registered
      BY Zenon, <2>0, <2>1 DEF I!Contains, I!Range
    <3> QED BY <3>1
  <2>2. CASE ~I!Contains(registered, s)
    <3>1. s \notin I!Range(registered) /\ registered' = Append(registered, s)
      BY <2>0, <2>2 DEF I!Contains, I!Range
    <3>3. ASSUME NEW i \in DOMAIN registered', NEW j \in DOMAIN registered',
                 registered'[i] = registered'[j]
          PROVE  i = j
      BY <2>0, <3>1, <1>a, <3>3 DEF I!Range
    <3> QED BY <3>1, <1>a, <3>3
  <2> QED BY <2>1, <2>2
<1>3. /\ buffer' \in [ShellId -> Seq(I!Output)] /\ buffer'[s] = <<>>
      /\ \A r \in ShellId \ {s} : buffer'[r] = buffer[r]
  BY <1>0, <1>1 DEF I!TypeOK
<1>4. I!Incremental' = I!Incremental
  BY DEF I!Incremental
<1>5. I!TypeOK'
  BY <1>0, <1>2, <1>3 DEF I!TypeOK, I!historyVars, I!Output
<1>6. I!ToldOnce'
  BY <1>0, <1>1, <1>2, <1>3, <1>4 DEF I!ToldOnce, I!historyVars
<1>7. I!OutputArrives'
  <2>1. ASSUME I!Incremental, NEW r \in I!Range(registered'), NEW i \in DOMAIN buffer'[r]
        PROVE  buffer'[r][i].id \in sent \cup passed \/ buffer'[r][i].ts > lastSent[r]
    <3>1. r # s
      BY <1>1, <1>3, <2>1
    <3>2. r \in I!Range(registered) /\ r \in ShellId
      BY <3>1, <1>2, <1>0 DEF I!TypeOK, I!Range
    <3> QED BY <3>1, <3>2, <1>0, <1>3, <2>1 DEF I!OutputArrives
  <2> QED BY <2>1, <1>4 DEF I!OutputArrives, I!historyVars
<1>8. I!NothingTwice'
  BY <1>0, <1>4 DEF I!NothingTwice, I!historyVars
<1> QED BY <1>5, <1>6, <1>7, <1>8 DEF I!IInv

LEMMA ContextStepPrints ==
  ASSUME I!IInv, NEW s \in ShellId, I!Prints(s)
  PROVE  I!IInv'
<1> DEFINE settings == v1
           registered == v2
           running == v3
           buffer == v4
           lastSent == v5
           clock == v7
           outputs == v8
           asks == v9
           sent == v10
           again == v11
           passed == v12
           forgotten == v13
<1> DEFINE output == [id |-> outputs + 1, ts |-> clock]
<1>0. I!TypeOK /\ I!ToldOnce /\ I!OutputArrives /\ I!NothingTwice
  BY DEF I!IInv
<1>1. output \in I!Output /\ output.id = outputs + 1 /\ output.ts = clock /\ outputs \in Nat
      /\ outputs' = outputs + 1 /\ outputs' \in 0..ContextMaxOutputs
  BY <1>0, ContextAssumption DEF I!Prints, I!TypeOK, I!Output
<1>2. /\ s \in I!Range(registered)
      /\ UNCHANGED <<settings, registered, running, lastSent, v6, clock, asks, sent, again, forgotten>>
      /\ passed' = IF lastSent[s] = clock THEN passed \cup {output.id} ELSE passed
  BY <1>0 DEF I!Prints, I!TypeOK, I!marks
<1>3. buffer'[s] = Append(buffer[s], output) \/ buffer'[s] = Tail(Append(buffer[s], output))
  BY <1>0 DEF I!Prints, I!TypeOK
<1>4. \A r \in ShellId \ {s} : buffer'[r] = buffer[r]
  BY <1>0 DEF I!Prints, I!TypeOK
<1> HIDE DEF output
<1>5. /\ buffer'[s] \in Seq(I!Output)
      /\ \E d \in {0, 1} : \A i \in DOMAIN buffer'[s] :
           /\ i \in Nat
           /\ buffer'[s][i] = IF i + d = Len(buffer[s]) + 1 THEN output ELSE buffer[s][i + d]
           /\ i + d # Len(buffer[s]) + 1 => i + d \in DOMAIN buffer[s]
  <2> DEFINE q == buffer[s]
             p == buffer'[s]
  <2>1. q \in Seq(I!Output)
    BY <1>0 DEF I!TypeOK
  <2>2. p = Append(q, output) \/ p = Tail(Append(q, output))
    BY <1>3
  <2> HIDE DEF p, q
  <2>3. /\ p \in Seq(I!Output)
        /\ \E d \in {0, 1} : \A i \in DOMAIN p :
              /\ i \in Nat /\ p[i] = IF i + d = Len(q) + 1 THEN output ELSE q[i + d]
              /\ i + d # Len(q) + 1 => i + d \in DOMAIN q
    <3>1. output \in I!Output
      BY <1>1
    <3>2. \A x \in Seq(I!Output) : \A z : z = Append(x, output) \/ z = Tail(Append(x, output)) =>
            /\ z \in Seq(I!Output)
            /\ \E d \in {0, 1} : \A i \in DOMAIN z :
                 /\ i \in Nat /\ z[i] = IF i + d = Len(x) + 1 THEN output ELSE x[i + d]
                 /\ i + d # Len(x) + 1 => i + d \in DOMAIN x
      BY <3>1, ContextShifted, ZenonT(60)
    <3> QED BY <2>1, <2>2, <3>2, ZenonT(60)
  <2> QED BY <2>3 DEF p, q
<1>6. PICK d \in {0, 1} : \A i \in DOMAIN buffer'[s] :
           /\ i \in Nat
           /\ buffer'[s][i] = IF i + d = Len(buffer[s]) + 1 THEN output ELSE buffer[s][i + d]
           /\ i + d # Len(buffer[s]) + 1 => i + d \in DOMAIN buffer[s]
  BY <1>5
<1>7. buffer' \in [ShellId -> Seq(I!Output)]
  <2>1. buffer' = [buffer EXCEPT ![s] = buffer'[s]]
    BY <1>0 DEF I!Prints, I!TypeOK
  <2>2. buffer \in [ShellId -> Seq(I!Output)]
    BY <1>0 DEF I!TypeOK
  <2> QED BY <2>1, <2>2, <1>5
<1>8. I!Incremental' = I!Incremental
  BY <1>2 DEF I!Incremental
<1>9. I!TypeOK'
  <2>1. sent \subseteq 1..outputs' /\ passed \subseteq 1..outputs' /\ output.id \in 1..outputs'
    BY <1>0, <1>1 DEF I!TypeOK
  <2>2. passed' \subseteq 1..outputs'
    BY <2>1, <1>2
  <2> QED BY <1>0, <1>1, <1>2, <1>7, <2>1, <2>2 DEF I!TypeOK, I!Output
<1>10. \A r \in ShellId : \A i \in DOMAIN buffer[r] :
         /\ buffer[r][i].id <= outputs /\ buffer[r][i].id \in Nat
         /\ buffer[r][i].ts \in Nat /\ buffer[r][i].ts <= clock
  <2> TAKE r \in ShellId
  <2> TAKE i \in DOMAIN buffer[r]
  <2>1. buffer[r][i] \in I!Output
    BY <1>0, ElementOfSeq, LenProperties DEF I!TypeOK
  <2>2. buffer[r][i].id \in Nat /\ buffer[r][i].ts \in Nat
    BY <2>1 DEF I!Output
  <2> QED BY <2>2, <1>0 DEF I!ToldOnce
<1>11. I!ToldOnce'
  <2>1. \A r \in ShellId \ I!Range(registered)' : buffer'[r] = <<>>
    BY <1>0, <1>2, <1>4 DEF I!ToldOnce
  <2>2. ASSUME NEW r \in ShellId, NEW i \in DOMAIN buffer'[r]
        PROVE  /\ buffer'[r][i].id <= outputs' /\ buffer'[r][i].ts <= clock
               /\ I!Incremental /\ buffer'[r][i].id \in sent \ forgotten => buffer'[r][i].ts <= lastSent[r]
    <3>1. CASE r # s
      BY <3>1, <1>0, <1>1, <1>4, <1>10, <2>2 DEF I!ToldOnce
    <3>2. CASE r = s /\ i + d = Len(buffer[s]) + 1
      <4>1. buffer'[r][i] = output
        BY <3>2, <1>6, <2>2
      <4>2. output.id \notin sent
        BY <1>0, <1>1 DEF I!TypeOK
      <4>3. clock \in Nat
        BY <1>0 DEF I!TypeOK
      <4> QED BY <4>1, <4>2, <4>3, <1>1
    <3>3. CASE r = s /\ i + d # Len(buffer[s]) + 1
      <4>1. buffer'[r][i] = buffer[r][i + d] /\ i + d \in DOMAIN buffer[r]
        BY <3>3, <1>6, <2>2
      <4>2. buffer[r][i + d].id <= outputs' /\ buffer[r][i + d].ts <= clock
        BY <4>1, <1>10, <1>1
      <4>3. I!Incremental /\ buffer[r][i + d].id \in sent \ forgotten => buffer[r][i + d].ts <= lastSent[r]
        BY <4>1, <1>0 DEF I!ToldOnce
      <4> QED BY <4>1, <4>2, <4>3
    <3> QED BY <3>1, <3>2, <3>3
  <2>3. ASSUME NEW r \in ShellId, NEW q \in ShellId,
               NEW i \in DOMAIN buffer'[r], NEW j \in DOMAIN buffer'[q],
               buffer'[r][i].id = buffer'[q][j].id
        PROVE  r = q /\ i = j
    <3> DEFINE New(t, k) == t = s /\ k + d = Len(buffer[s]) + 1
               Old(t, k) == IF t = s THEN k + d ELSE k
    <3>1. ASSUME NEW t \in ShellId, NEW k \in DOMAIN buffer'[t]
          PROVE  /\ New(t, k) => buffer'[t][k].id = outputs + 1
                 /\ ~New(t, k) => /\ buffer'[t][k] = buffer[t][Old(t, k)]
                                  /\ Old(t, k) \in DOMAIN buffer[t]
                                  /\ buffer'[t][k].id # outputs + 1
      <4>1. CASE t # s
        <5>1. buffer'[t] = buffer[t] /\ Old(t, k) = k /\ ~New(t, k)
          BY <4>1, <1>4
        <5> HIDE DEF Old, New
        <5> QED BY <5>1, <1>10, <1>1, <3>1
      <4>2. CASE t = s /\ New(t, k)
        BY <4>2, <1>6, <1>1, <3>1
      <4>3. CASE t = s /\ ~New(t, k)
        <5>1. buffer'[t][k] = buffer[t][k + d] /\ k + d \in DOMAIN buffer[t] /\ Old(t, k) = k + d
          BY <4>3, <1>6, <3>1
        <5>2. buffer[t][k + d].id # outputs + 1
          BY <5>1, <1>10, <1>1
        <5> HIDE DEF New, Old
        <5> QED BY <4>3, <5>1, <5>2
      <4> QED BY <4>1, <4>2, <4>3
    <3>2. i \in Nat /\ j \in Nat
      <4>1. buffer'[r] \in Seq(I!Output) /\ buffer'[q] \in Seq(I!Output)
        BY <1>7
      <4> QED BY <4>1, LenProperties
    <3>3. CASE New(r, i)
      <4>1. New(q, j)
        <5> HIDE DEF New, Old
        <5> QED BY <3>1, <3>3, <2>3
      <4> QED BY <3>2, <3>3, <4>1, <1>6
    <3>4. CASE ~New(r, i)
      <4>1. ~New(q, j)
        <5> HIDE DEF New, Old
        <5> QED BY <3>1, <3>4, <2>3
      <4>2. buffer[r][Old(r, i)].id = buffer[q][Old(q, j)].id
            /\ Old(r, i) \in DOMAIN buffer[r] /\ Old(q, j) \in DOMAIN buffer[q]
        <5> HIDE DEF New, Old
        <5> QED BY <3>1, <3>4, <4>1, <2>3
      <4>3. r = q /\ Old(r, i) = Old(q, j)
        <5> HIDE DEF New, Old
        <5> QED BY <4>2, <1>0 DEF I!ToldOnce
      <4> QED BY <4>3, <3>2
    <3> QED BY <3>3, <3>4
  <2>4. \A r \in ShellId : lastSent'[r] <= clock'
    BY <1>0, <1>2 DEF I!ToldOnce
  <2> QED BY <2>1, <2>2, <2>3, <2>4, <1>2, <1>8 DEF I!ToldOnce
<1>12. I!OutputArrives'
  <2>1. ASSUME I!Incremental, NEW r \in I!Range(registered), NEW i \in DOMAIN buffer'[r]
        PROVE  buffer'[r][i].id \in sent \cup passed' \/ buffer'[r][i].ts > lastSent[r]
    <3>0. r \in ShellId /\ passed \subseteq passed'
      BY <1>0, <1>2 DEF I!TypeOK, I!Range
    <3>1. CASE r # s
      BY <3>0, <3>1, <1>0, <1>4, <2>1 DEF I!OutputArrives
    <3>2. CASE r = s /\ i + d = Len(buffer[s]) + 1
      <4>1. buffer'[r][i] = output
        BY <3>2, <1>6, <2>1
      <4>2. lastSent[s] <= clock /\ clock \in Nat /\ lastSent[s] \in Nat
        BY <1>0 DEF I!TypeOK, I!ToldOnce
      <4>3. CASE lastSent[s] = clock
        BY <4>1, <4>3, <1>2
      <4>4. CASE lastSent[s] # clock
        BY <4>1, <4>2, <4>4, <1>1, <3>2
      <4> QED BY <4>3, <4>4
    <3>3. CASE r = s /\ i + d # Len(buffer[s]) + 1
      <4>1. buffer'[r][i] = buffer[r][i + d] /\ i + d \in DOMAIN buffer[r]
        BY <3>3, <1>6, <2>1
      <4>2. buffer[r][i + d].id \in sent \cup passed \/ buffer[r][i + d].ts > lastSent[r]
        BY <4>1, <1>0, <2>1 DEF I!OutputArrives
      <4> QED BY <3>0, <4>1, <4>2
    <3> QED BY <3>1, <3>2, <3>3
  <2> QED BY <2>1, <1>2, <1>8 DEF I!OutputArrives
<1>13. I!NothingTwice'
  BY <1>0, <1>2, <1>8 DEF I!NothingTwice
<1> QED BY <1>9, <1>11, <1>12, <1>13 DEF I!IInv

LEMMA ContextStepDies ==
  ASSUME I!IInv, NEW s \in ShellId, I!Dies(s)
  PROVE  I!IInv'
<1> USE DEF I!Dies, I!marks, I!historyVars
<1>1. I!TypeOK'
  BY DEF I!IInv, I!TypeOK, I!Output
<1>2. I!ToldOnce' /\ I!OutputArrives' /\ I!NothingTwice'
  BY DEF I!IInv, I!ToldOnce, I!OutputArrives, I!NothingTwice, I!Incremental
<1> QED BY <1>1, <1>2 DEF I!IInv

LEMMA ContextStepUnregister ==
  ASSUME I!IInv, NEW s \in ShellId, I!Unregister(s)
  PROVE  I!IInv'
<1> DEFINE registered == v2
           buffer == v4
           lastSent == v5
           clock == v7
           outputs == v8
           sent == v10
           passed == v12
           forgotten == v13
<1> USE DEF I!Unregister, I!marks
<1>0. I!TypeOK /\ I!ToldOnce /\ I!OutputArrives /\ I!NothingTwice
  BY DEF I!IInv
<1>1. <<>> \in Seq(I!Output) /\ DOMAIN <<>> = {}
  BY EmptySeq
<1>2. /\ registered' \in Seq(ShellId) /\ I!Range(registered') = I!Range(registered) \ {s}
      /\ \A i, j \in DOMAIN registered' : registered'[i] = registered'[j] => i = j
  <2>0. registered \in Seq(ShellId) /\ I!Range(registered) \subseteq ShellId
        /\ \A i, j \in DOMAIN registered : registered[i] = registered[j] => i = j
    BY <1>0 DEF I!TypeOK, I!Range
  <2> DEFINE only == I!Only(registered, ShellId \ {s})
  <2>1. /\ only \in Seq(ShellId) /\ I!Range(only) = I!Range(registered) \cap (ShellId \ {s})
        /\ \A i, j \in DOMAIN only : only[i] = only[j] => i = j
    BY <2>0, ContextOnlyGives
  <2>2. registered' = only
    OBVIOUS
  <2> HIDE DEF only
  <2> QED BY <2>0, <2>1, <2>2
<1>3. /\ buffer' \in [ShellId -> Seq(I!Output)] /\ buffer'[s] = <<>>
      /\ \A r \in ShellId \ {s} : buffer'[r] = buffer[r]
  BY <1>0, <1>1 DEF I!TypeOK
<1>4. I!Incremental' = I!Incremental
  BY DEF I!Incremental
<1>5. I!TypeOK'
  BY <1>0, <1>2, <1>3 DEF I!TypeOK, I!historyVars, I!Output
<1>6. I!ToldOnce'
  <2>1. \A r \in ShellId : \A i \in DOMAIN buffer'[r] :
          r # s /\ buffer'[r] = buffer[r] /\ i \in DOMAIN buffer[r]
    BY <1>1, <1>3
  <2>2. \A r \in ShellId \ I!Range(registered') : buffer'[r] = <<>>
    <3> TAKE r \in ShellId \ I!Range(registered')
    <3>1. CASE r = s
      BY <3>1, <1>3
    <3>2. CASE r # s
      BY <3>2, <1>0, <1>2, <1>3 DEF I!ToldOnce
    <3> QED BY <3>1, <3>2
  <2>3. ASSUME NEW r \in ShellId, NEW q \in ShellId,
               NEW i \in DOMAIN buffer'[r], NEW j \in DOMAIN buffer'[q],
               buffer'[r][i].id = buffer'[q][j].id
        PROVE  r = q /\ i = j
    BY <2>1, <2>3, <1>0 DEF I!ToldOnce
  <2>4. ASSUME NEW r \in ShellId, NEW i \in DOMAIN buffer'[r]
        PROVE  /\ buffer'[r][i].id <= outputs /\ buffer'[r][i].ts <= clock
               /\ I!Incremental /\ buffer'[r][i].id \in sent \ forgotten => buffer'[r][i].ts <= lastSent[r]
    BY <2>1, <2>4, <1>0 DEF I!ToldOnce
  <2>5. \A r \in ShellId : lastSent[r] <= clock
    BY <1>0 DEF I!ToldOnce
  <2>6. UNCHANGED <<outputs, clock, lastSent, sent, forgotten>>
    BY DEF I!historyVars
  <2>7. \A r \in ShellId : lastSent'[r] <= clock'
    BY <2>5, <2>6
  <2>8. \A r \in ShellId : \A i \in DOMAIN buffer'[r] :
          /\ buffer'[r][i].id <= outputs' /\ buffer'[r][i].ts <= clock'
          /\ I!Incremental' /\ buffer'[r][i].id \in sent' \ forgotten' => buffer'[r][i].ts <= lastSent'[r]
    BY <2>4, <2>6, <1>4
  <2>9. \A r, q \in ShellId : \A i \in DOMAIN buffer'[r], j \in DOMAIN buffer'[q] :
          buffer'[r][i].id = buffer'[q][j].id => r = q /\ i = j
    BY <2>3
  <2> QED BY <2>2, <2>7, <2>8, <2>9, Zenon DEF I!ToldOnce
<1>7. I!OutputArrives'
  <2>1. ASSUME I!Incremental, NEW r \in I!Range(registered'), NEW i \in DOMAIN buffer'[r]
        PROVE  buffer'[r][i].id \in sent \cup passed \/ buffer'[r][i].ts > lastSent[r]
    <3>1. I!Range(registered) \subseteq ShellId
      BY <1>0, ElementOfSeq, LenProperties DEF I!TypeOK, I!Range
    <3>2. r # s /\ r \in I!Range(registered) /\ r \in ShellId
      BY <1>2, <2>1, <3>1
    <3> QED BY <3>2, <1>0, <1>3, <2>1 DEF I!OutputArrives
  <2> QED BY <2>1, <1>4 DEF I!OutputArrives, I!historyVars
<1>8. I!NothingTwice'
  BY <1>0, <1>4 DEF I!NothingTwice, I!historyVars
<1> QED BY <1>5, <1>6, <1>7, <1>8 DEF I!IInv

LEMMA ContextStepTick ==
  ASSUME I!IInv, I!Tick
  PROVE  I!IInv'
<1> DEFINE buffer == v4
           lastSent == v5
           clock == v7
<1> USE DEF I!Tick, I!marks, I!historyVars
<1>0. clock \in Nat /\ clock' = clock + 1 /\ clock' \in 1..MaxClock
  BY ContextAssumption DEF I!IInv, I!TypeOK
<1>1. I!TypeOK'
  BY <1>0 DEF I!IInv, I!TypeOK, I!Output
<1>2. I!ToldOnce'
  <2>1. \A r \in ShellId : \A i \in DOMAIN buffer[r] : buffer[r][i].ts \in Nat
    <3> TAKE r \in ShellId
    <3> TAKE i \in DOMAIN buffer[r]
    <3>1. buffer[r][i] \in I!Output
      BY ElementOfSeq, LenProperties DEF I!IInv, I!TypeOK
    <3> QED BY <3>1 DEF I!Output
  <2>2. \A r \in ShellId : lastSent[r] \in Nat
    BY DEF I!IInv, I!TypeOK
  <2>3. \A r \in ShellId : lastSent[r] <= clock'
    BY <1>0, <2>2 DEF I!IInv, I!ToldOnce
  <2>4. \A r \in ShellId : \A i \in DOMAIN buffer[r] : buffer[r][i].ts <= clock'
    BY <1>0, <2>1 DEF I!IInv, I!ToldOnce
  <2> QED BY <2>3, <2>4 DEF I!IInv, I!ToldOnce, I!Incremental
<1>3. I!OutputArrives' /\ I!NothingTwice'
  BY DEF I!IInv, I!OutputArrives, I!NothingTwice, I!Incremental
<1> QED BY <1>1, <1>2, <1>3 DEF I!IInv

-----------------------------------------------------------------------------
\* A question.

LEMMA ContextLinesAreSessions ==
  ASSUME I!TypeOK, NEW chat, NEW activeTab, NEW cross
  PROVE  LET scope == I!InScope(chat, activeTab, cross)
             lines == I!Only(scope, {s \in ShellId : I!HasLine(s)})
         IN  /\ scope \in Seq(ShellId) /\ lines \in Seq(ShellId) /\ (scope = <<>> => lines = <<>>)
             /\ I!Range(lines) = I!Range(scope) \cap {s \in ShellId : I!HasLine(s)}
<1> DEFINE registered == v2
<1> DEFINE scope == I!InScope(chat, activeTab, cross)
           first == IF I!Contains(registered, activeTab) THEN <<activeTab>> ELSE <<>>
           S == {s \in ShellId \ UserSession : cross \/ SessionChat[s] = chat}
           L == {s \in ShellId : I!HasLine(s)}
           lines == I!Only(scope, L)
<1>1. registered \in Seq(ShellId) /\ DOMAIN registered = 1..Len(registered)
  BY LenProperties DEF I!TypeOK
<1>2. first \in Seq(ShellId)
  <2>1. CASE I!Contains(registered, activeTab)
    <3>1. activeTab \in ShellId
      BY <1>1, <2>1, ElementOfSeq DEF I!Contains
    <3> QED BY <2>1, <3>1
  <2>2. CASE ~I!Contains(registered, activeTab)
    BY <2>2, EmptySeq
  <2> QED BY <2>1, <2>2
<1>3. scope = first \o I!Only(registered, S)
  BY DEF I!InScope
<1>4. I!Only(registered, S) \in Seq(ShellId)
  <2> HIDE DEF S
  <2> QED BY <1>1, ContextOnlyGives
<1> HIDE DEF first, S, L, scope
<1>5. scope \in Seq(ShellId)
  BY <1>2, <1>3, <1>4, ConcatProperties
<1>6. lines \in Seq(ShellId) /\ I!Range(lines) = I!Range(scope) \cap L
  BY <1>5, ContextOnlyGives
<1>7. ASSUME scope = <<>> PROVE lines = <<>>
  <2>1. I!Range(scope) = {}
    BY <1>7, EmptySeq DEF I!Range
  <2> HIDE DEF lines
  <2>2. I!Range(lines) = {}
    BY <1>6, <2>1
  <2>3. lines # <<>> => 1 \in DOMAIN lines
    BY <1>6, LenProperties, EmptySeq
  <2> QED BY <2>2, <2>3 DEF I!Range
<1> HIDE DEF lines
<1> QED BY <1>5, <1>6, <1>7 DEF lines, L, scope

\* What a line brings or leaves out are outputs that the session keeps; those it
\* brings, if only what is new is told, are newer than the last look, and what is
\* new is among both.
LEMMA ContextLinesBring ==
  ASSUME NEW s \in ShellId
  PROVE  /\ \A id \in I!LineOf(s) \cup I!LeftOut(s) : \E i \in DOMAIN v4[s] : id = v4[s][i].id
         /\ I!Incremental => \A id \in I!LineOf(s) : \E i \in DOMAIN v4[s] :
              id = v4[s][i].id /\ v4[s][i].ts > I!Since[s]
         /\ I!Incremental => \A i \in DOMAIN v4[s] :
              v4[s][i].ts > I!Since[s] => v4[s][i].id \in I!LineOf(s) \cup I!LeftOut(s)
<1> DEFINE buffer == v4
           text == I!Text(s)
           tail == I!End(s)
<1>1. /\ text \subseteq I!Range(buffer[s])
      /\ I!Incremental => text = {output \in I!Range(buffer[s]) : output.ts > I!Since[s]}
  BY DEF I!Text, I!NewOutput
<1>2. I!LineOf(s) = IF I!Summarised(s) THEN {} ELSE I!Ids(tail)
  BY DEF I!LineOf
<1>3. tail \subseteq text
  BY DEF I!End
<1>4. I!LeftOut(s) = (IF I!Summarised(s) THEN I!Ids(I!Range(buffer[s])) ELSE I!Ids(text)) \ I!LineOf(s)
  BY DEF I!LeftOut
<1> HIDE DEF text, tail
<1>5. ASSUME NEW id \in I!LineOf(s) \cup I!LeftOut(s)
      PROVE  \E i \in DOMAIN buffer[s] : id = buffer[s][i].id
  <2>1. id \in I!Ids(I!Range(buffer[s]))
    BY <1>1, <1>2, <1>3, <1>4, <1>5 DEF I!Ids
  <2> QED BY <2>1 DEF I!Ids, I!Range
<1>6. ASSUME I!Incremental, NEW id \in I!LineOf(s)
      PROVE  \E i \in DOMAIN buffer[s] : id = buffer[s][i].id /\ buffer[s][i].ts > I!Since[s]
  <2>1. PICK o \in text : id = o.id
    BY <1>2, <1>3, <1>6 DEF I!Ids
  <2>2. o \in I!Range(buffer[s]) /\ o.ts > I!Since[s]
    BY <1>1, <1>6
  <2> QED BY <2>1, <2>2 DEF I!Range
<1>7. ASSUME I!Incremental, NEW i \in DOMAIN buffer[s], buffer[s][i].ts > I!Since[s]
      PROVE  buffer[s][i].id \in I!LineOf(s) \cup I!LeftOut(s)
  <2>1. buffer[s][i] \in I!Range(buffer[s]) /\ buffer[s][i] \in text
    BY <1>1, <1>7 DEF I!Range
  <2>2. buffer[s][i].id \in I!Ids(I!Range(buffer[s])) /\ buffer[s][i].id \in I!Ids(text)
    BY <2>1 DEF I!Ids
  <2> QED BY <1>4, <2>2
<1> QED BY <1>5, <1>6, <1>7

\* What a question does to the marks.
LEMMA ContextMarks ==
  ASSUME I!IInv, NEW scope \in Seq(ShellId), NEW lines \in Seq(ShellId),
         scope = <<>> => lines = <<>>, I!Marked(scope, lines)
  PROVE  /\ v5' \in [ShellId -> 0..MaxClock] /\ v6' \in Seq(ShellId) /\ v13 \subseteq v13'
         /\ \A s \in ShellId :
              /\ v5'[s] <= v7 /\ I!Since[s] \in {0, v5[s]} /\ v5[s] \in Nat
              /\ I!Incremental /\ s \in I!Range(lines) => v5'[s] = v7
              /\ s \in I!Range(v2) =>
                   \/ v5'[s] = v5[s]
                   \/ I!Incremental /\ s \in I!Range(lines)
                   \/ v5'[s] = 0 /\ \A i \in DOMAIN v4[s] : v4[s][i].id \in v13'
              /\ s \in I!Range(lines) =>
                   \/ I!Since[s] = v5[s]
                   \/ \A i \in DOMAIN v4[s] : v4[s][i].id \in v13'
<1> DEFINE registered == v2
           buffer == v4
           lastSent == v5
           order == v6
           clock == v7
           forgotten == v13
<1>1. /\ lastSent \in [ShellId -> 0..MaxClock] /\ clock \in 1..MaxClock /\ MaxClock \in Nat
      /\ order \in Seq(ShellId) /\ registered \in Seq(ShellId)
      /\ \A s \in ShellId : lastSent[s] <= clock
  BY ContextAssumption DEF I!IInv, I!TypeOK, I!ToldOnce
<1>2. I!Since \in [ShellId -> 0..MaxClock]
      /\ \A s \in ShellId : I!Since[s] = IF s \in I!Dropped THEN 0 ELSE lastSent[s]
  BY <1>1 DEF I!Since
<1>3. CASE scope = <<>>
  <2>1. lastSent' = [s \in ShellId |-> IF I!Contains(registered, s) THEN lastSent[s] ELSE 0]
        /\ order' = I!Only(order, I!Range(registered)) /\ UNCHANGED forgotten
    BY <1>3 DEF I!Marked
  <2>2. order' \in Seq(ShellId)
    BY <1>1, <2>1, ContextOnlyGives
  <2>3. I!Range(lines) = {}
    BY <1>3, EmptySeq DEF I!Range
  <2>4. \A s \in I!Range(registered) : I!Contains(registered, s)
    BY <1>1, LenProperties DEF I!Range, I!Contains
  <2> QED BY <1>1, <1>2, <2>1, <2>2, <2>3, <2>4
<1>4. CASE scope # <<>>
  <2> DEFINE added == IF I!Incremental THEN I!Only(lines, {s \in ShellId : I!Since[s] = 0}) ELSE <<>>
             left == I!Only(order, ShellId \ I!Dropped)
  <2>1. lastSent' = [s \in ShellId |-> IF I!Incremental /\ s \in I!Range(lines)
                                       THEN clock ELSE I!Since[s]]
    BY <1>4 DEF I!Marked
  <2>2. order' = left \o added
    BY <1>4 DEF I!Marked
  <2>3. forgotten' = forgotten \cup UNION {I!Ids(I!Range(buffer[s])) : s \in I!Dropped}
    BY <1>4 DEF I!Marked
  <2>4. left \in Seq(ShellId)
    BY <1>1, ContextOnlyGives
  <2>5. added \in Seq(ShellId)
    <3>1. CASE I!Incremental
      <4>1. I!Only(lines, {s \in ShellId : I!Since[s] = 0}) \in Seq(ShellId)
        BY ContextOnlyGives
      <4> QED BY <3>1, <4>1
    <3>2. CASE ~I!Incremental
      BY <3>2, EmptySeq
    <3> QED BY <3>1, <3>2
  <2> HIDE DEF left, added
  <2>6. order' \in Seq(ShellId)
    BY <2>2, <2>4, <2>5, ConcatProperties
  <2>7. ASSUME NEW s \in I!Dropped, NEW i \in DOMAIN buffer[s]
        PROVE  buffer[s][i].id \in forgotten'
    <3>1. buffer[s][i].id \in I!Ids(I!Range(buffer[s]))
      BY DEF I!Ids, I!Range
    <3> QED BY <2>3, <3>1
  <2>8. lastSent' \in [ShellId -> 0..MaxClock] /\ forgotten \subseteq forgotten'
    BY <1>1, <1>2, <2>1, <2>3
  <2>9. ASSUME NEW s \in ShellId
        PROVE  /\ lastSent'[s] = IF I!Incremental /\ s \in I!Range(lines) THEN clock ELSE I!Since[s]
               /\ I!Since[s] = IF s \in I!Dropped THEN 0 ELSE lastSent[s]
               /\ lastSent[s] \in Nat /\ lastSent[s] <= clock /\ clock \in Nat
    BY <1>1, <1>2, <2>1
  <2> QED BY <2>6, <2>7, <2>8, <2>9
<1> QED BY <1>3, <1>4

LEMMA ContextStepAsk ==
  ASSUME I!IInv, NEW chat, NEW activeTab, NEW cross, I!Ask(chat, activeTab, cross)
  PROVE  I!IInv'
<1> DEFINE settings == v1
           registered == v2
           running == v3
           buffer == v4
           lastSent == v5
           order == v6
           clock == v7
           outputs == v8
           asks == v9
           sent == v10
           again == v11
           passed == v12
           forgotten == v13
<1> DEFINE scope == I!InScope(chat, activeTab, cross)
           lines == I!Only(scope, {s \in ShellId : I!HasLine(s)})
<1>0. I!TypeOK /\ I!ToldOnce /\ I!OutputArrives /\ I!NothingTwice
  BY DEF I!IInv
<1>1. /\ scope \in Seq(ShellId) /\ lines \in Seq(ShellId) /\ (scope = <<>> => lines = <<>>)
      /\ I!Range(lines) = I!Range(scope) \cap {s \in ShellId : I!HasLine(s)}
  <2> HIDE DEF scope, lines
  <2> QED BY <1>0, ContextLinesAreSessions DEF scope, lines
<1>2. /\ asks < ContextMaxAsks /\ asks' = asks + 1 /\ I!Marked(scope, lines)
      /\ UNCHANGED <<settings, registered, running, buffer, clock, outputs>>
  BY DEF I!Ask
<1> DEFINE known == UNION {I!LeftOut(s) : s \in I!Range(lines)}
<1>3. PICK kept \in I!Kept(lines) :
        /\ sent' = sent \cup I!Told(lines, 1, kept)
        /\ again' = again \cup (sent \cap I!Told(lines, 1, kept))
        /\ passed' = passed \cup I!Told(lines, kept + 1, Len(lines)) \cup known
  BY DEF I!Ask
<1> DEFINE brought == I!Told(lines, 1, kept)
           cut == I!Told(lines, kept + 1, Len(lines))
<1> HIDE DEF scope, lines
<1>4. /\ sent' = sent \cup brought /\ again' = again \cup (sent \cap brought)
      /\ passed' = passed \cup cut \cup known
  BY <1>3
<1>5. Len(lines) \in Nat /\ DOMAIN lines = 1..Len(lines) /\ kept \in 0..Len(lines)
  <2>1. Len(lines) \in Nat /\ DOMAIN lines = 1..Len(lines)
    BY <1>1, LenProperties
  <2>2. kept \in 0..Len(lines) \/ kept = Len(lines)
    BY DEF I!Kept
  <2> QED BY <2>1, <2>2
<1>6. \A i \in 1..Len(lines) : lines[i] \in ShellId /\ lines[i] \in I!Range(lines)
  BY <1>1, <1>5, ElementOfSeq DEF I!Range
<1>7. I!Range(lines) \subseteq ShellId
  BY <1>1
\* what is brought, cut or left out comes from a line
<1>8. /\ \A id \in brought : \E s \in I!Range(lines) : id \in I!LineOf(s)
      /\ \A id \in cut : \E s \in I!Range(lines) : id \in I!LineOf(s)
      /\ \A id \in known : \E s \in I!Range(lines) : id \in I!LeftOut(s)
  <2>1. \A j \in 1..kept : j \in 1..Len(lines)
    BY <1>5
  <2>2. \A j \in kept + 1..Len(lines) : j \in 1..Len(lines)
    BY <1>5
  <2> QED BY <2>1, <2>2, <1>6 DEF I!Told
<1>9. \A s \in I!Range(lines) : I!LineOf(s) \cup I!LeftOut(s) \subseteq brought \cup cut \cup known
  <2> TAKE s \in I!Range(lines)
  <2>1. PICK j \in 1..Len(lines) : s = lines[j]
    BY <1>5 DEF I!Range
  <2>2. j \in 1..kept \/ j \in kept + 1..Len(lines)
    BY <1>5
  <2>3. I!LineOf(s) \subseteq brought \cup cut
    BY <2>1, <2>2 DEF I!Told
  <2>4. I!LeftOut(s) \subseteq known
    OBVIOUS
  <2> HIDE DEF brought, cut, known
  <2> QED BY <2>3, <2>4
<1> HIDE DEF brought, cut, known
<1>10. ASSUME NEW id \in brought \cup cut \cup known
       PROVE  \E s \in I!Range(lines) : \E i \in DOMAIN buffer[s] : id = buffer[s][i].id
  <2>1. PICK s \in I!Range(lines) : id \in I!LineOf(s) \cup I!LeftOut(s)
    BY <1>8, <1>10
  <2> QED BY <2>1, <1>7, ContextLinesBring
<1>11. I!Incremental' = I!Incremental
  BY <1>2 DEF I!Incremental
<1>12. I!Range(registered) \subseteq ShellId
  BY <1>0, ElementOfSeq, LenProperties DEF I!TypeOK, I!Range
<1>13. /\ lastSent' \in [ShellId -> 0..MaxClock] /\ order' \in Seq(ShellId) /\ forgotten \subseteq forgotten'
       /\ \A s \in ShellId :
            /\ lastSent'[s] <= clock /\ I!Since[s] \in {0, lastSent[s]} /\ lastSent[s] \in Nat
            /\ I!Incremental /\ s \in I!Range(lines) => lastSent'[s] = clock
            /\ s \in I!Range(registered) =>
                 \/ lastSent'[s] = lastSent[s]
                 \/ I!Incremental /\ s \in I!Range(lines)
                 \/ lastSent'[s] = 0 /\ \A i \in DOMAIN buffer[s] : buffer[s][i].id \in forgotten'
            /\ s \in I!Range(lines) =>
                 \/ I!Since[s] = lastSent[s]
                 \/ \A i \in DOMAIN buffer[s] : buffer[s][i].id \in forgotten'
  BY <1>1, <1>2, ContextMarks
<1>14. ASSUME NEW s \in ShellId, NEW i \in DOMAIN buffer[s]
       PROVE  /\ s \in I!Range(registered) /\ buffer[s][i].id \in 1..outputs
              /\ buffer[s][i].ts \in Nat \ {0} /\ buffer[s][i].ts <= clock
  <2>1. s \in I!Range(registered)
    BY <1>0, <1>14, EmptySeq DEF I!ToldOnce
  <2>2. buffer[s][i] \in I!Output
    BY <1>0, ElementOfSeq, LenProperties DEF I!TypeOK
  <2>3. buffer[s][i].id \in Nat \ {0} /\ buffer[s][i].ts \in Nat \ {0} /\ outputs \in Nat
    BY <1>0, <2>2 DEF I!Output, I!TypeOK
  <2>4. buffer[s][i].id <= outputs /\ buffer[s][i].ts <= clock
    BY <1>0 DEF I!ToldOnce
  <2> QED BY <2>1, <2>3, <2>4
<1>15. I!TypeOK'
  <2>1. brought \cup cut \cup known \subseteq 1..outputs
    BY <1>7, <1>10, <1>14
  <2>2. asks' \in 0..ContextMaxAsks
    BY <1>0, <1>2, ContextAssumption DEF I!TypeOK
  <2>3. sent' \subseteq 1..outputs /\ again' \subseteq sent' /\ passed' \subseteq 1..outputs
    BY <1>0, <1>4, <2>1 DEF I!TypeOK
  <2> QED BY <1>0, <1>2, <1>13, <2>2, <2>3 DEF I!TypeOK, I!Output
<1>16. I!ToldOnce'
  <2>1. ASSUME I!Incremental, NEW s \in ShellId, NEW i \in DOMAIN buffer[s],
               buffer[s][i].id \in sent' \ forgotten'
        PROVE  buffer[s][i].ts <= lastSent'[s]
    <3>0. s \in I!Range(registered) /\ buffer[s][i].ts <= clock
      BY <1>14
    <3>1. CASE s \in I!Range(lines)
      BY <3>0, <3>1, <1>13, <2>1
    <3>2. CASE s \notin I!Range(lines)
      <4>1. buffer[s][i].id \notin brought
        <5> SUFFICES ASSUME buffer[s][i].id \in brought PROVE FALSE
          OBVIOUS
        <5>1. PICK r \in I!Range(lines) : \E j \in DOMAIN buffer[r] : buffer[s][i].id = buffer[r][j].id
          BY <1>10
        <5>2. r \in ShellId
          BY <1>7
        <5>3. s = r
          BY <5>1, <5>2, <1>0 DEF I!ToldOnce
        <5> QED BY <5>1, <5>3, <3>2
      <4>2. buffer[s][i].id \in sent \ forgotten
        BY <1>4, <1>13, <2>1, <4>1
      <4>3. lastSent'[s] = lastSent[s]
        BY <1>13, <2>1, <3>0, <3>2
      <4> QED BY <4>2, <4>3, <2>1, <1>0 DEF I!ToldOnce
    <3> QED BY <3>1, <3>2
  <2>2. \A s \in ShellId : lastSent'[s] <= clock
    BY <1>13
  <2>3. /\ \A s \in ShellId \ I!Range(registered) : buffer[s] = <<>>
        /\ \A s, r \in ShellId : \A i \in DOMAIN buffer[s], j \in DOMAIN buffer[r] :
             buffer[s][i].id = buffer[r][j].id => s = r /\ i = j
        /\ \A s \in ShellId : \A i \in DOMAIN buffer[s] :
             buffer[s][i].id <= outputs /\ buffer[s][i].ts <= clock
    BY <1>0 DEF I!ToldOnce
  <2> QED BY <2>1, <2>2, <2>3, <1>2, <1>11 DEF I!ToldOnce
<1>17. I!OutputArrives'
  <2>1. ASSUME I!Incremental, NEW s \in I!Range(registered), NEW i \in DOMAIN buffer[s]
        PROVE  buffer[s][i].id \in sent' \cup passed' \/ buffer[s][i].ts > lastSent'[s]
    <3>0. s \in ShellId /\ buffer[s][i].ts \in Nat \ {0} /\ lastSent[s] \in Nat
      BY <1>12, <1>13, <1>14
    <3>1. sent \cup passed \cup brought \cup cut \cup known = sent' \cup passed'
      BY <1>4
    <3>2. buffer[s][i].id \in sent \cup passed \/ buffer[s][i].ts > lastSent[s]
      BY <1>0, <2>1 DEF I!OutputArrives
    <3>3. CASE buffer[s][i].id \in sent \cup passed
      BY <3>1, <3>3
    <3>4. CASE buffer[s][i].ts > lastSent[s] /\ s \in I!Range(lines)
      <4>1. buffer[s][i].ts > I!Since[s]
        BY <3>0, <3>4, <1>13
      <4>2. buffer[s][i].id \in I!LineOf(s) \cup I!LeftOut(s)
        BY <3>0, <4>1, <2>1, ContextLinesBring
      <4> QED BY <3>1, <3>4, <4>2, <1>9
    <3>5. CASE buffer[s][i].ts > lastSent[s] /\ s \notin I!Range(lines)
      <4>1. lastSent'[s] = lastSent[s] \/ lastSent'[s] = 0
        BY <1>13, <2>1, <3>0, <3>5
      <4> QED BY <3>0, <3>5, <4>1
    <3> QED BY <3>2, <3>3, <3>4, <3>5
  <2> QED BY <2>1, <1>2, <1>11 DEF I!OutputArrives
<1>18. I!NothingTwice'
  <2> SUFFICES ASSUME I!Incremental PROVE again' \subseteq forgotten'
    BY <1>11 DEF I!NothingTwice
  <2>1. ASSUME NEW id \in sent \cap brought, id \notin forgotten' PROVE FALSE
    <3>1. PICK s \in I!Range(lines) : id \in I!LineOf(s)
      BY <1>8, <2>1
    <3>2. s \in ShellId
      BY <1>7
    <3>3. PICK i \in DOMAIN buffer[s] : id = buffer[s][i].id /\ buffer[s][i].ts > I!Since[s]
      BY <3>1, <3>2, ContextLinesBring
    <3>4. I!Since[s] = lastSent[s] /\ lastSent[s] \in Nat
      BY <1>13, <2>1, <3>1, <3>2, <3>3
    <3>5. buffer[s][i].ts <= lastSent[s]
      BY <2>1, <3>2, <3>3, <1>0, <1>13 DEF I!ToldOnce
    <3>6. buffer[s][i].ts \in Nat
      BY <1>14, <3>2
    <3> QED BY <3>3, <3>4, <3>5, <3>6
  <2> QED BY <1>0, <1>4, <1>13, <2>1 DEF I!NothingTwice
<1> QED BY <1>15, <1>16, <1>17, <1>18 DEF I!IInv

LEMMA ContextStutterStep == ASSUME I!IInv, UNCHANGED I!vars PROVE I!IInv'
<1> USE DEF I!vars
<1>1. I!TypeOK'
  BY DEF I!IInv, I!TypeOK, I!Output
<1>2. I!ToldOnce'
  BY DEF I!IInv, I!ToldOnce, I!Incremental
<1>3. I!OutputArrives' /\ I!NothingTwice'
  BY DEF I!IInv, I!OutputArrives, I!NothingTwice, I!Incremental
<1> QED BY <1>1, <1>2, <1>3 DEF I!IInv

LEMMA ContextNextStep == ASSUME I!IInv, I!Next PROVE I!IInv'
<1>1. ASSUME NEW s \in ShellId, I!Register(s) \/ I!Dies(s) \/ I!Unregister(s) \/ I!Prints(s)
      PROVE  I!IInv'
  BY <1>1, ContextStepRegister, ContextStepDies, ContextStepUnregister, ContextStepPrints
<1>2. ASSUME NEW chat \in ContextChat, NEW activeTab \in UserSession \cup {None},
             NEW cross \in BOOLEAN, I!Ask(chat, activeTab, cross)
      PROVE  I!IInv'
  BY <1>2, ContextStepAsk
<1>3. CASE I!Tick
  BY <1>3, ContextStepTick
<1> QED BY <1>1, <1>2, <1>3, ZenonT(60) DEF I!Next

-----------------------------------------------------------------------------
\* The parts together.

LEMMA BackendsInitHolds ==
  ASSUME BackendsInit
  PROVE  BackendsInv
<1>1. CASE part = "cloud" /\ C!Init
  BY <1>1, CloudInitHolds DEF BackendsInv
<1>2. CASE part = "plugins" /\ P!Init
  BY <1>2, PluginInitHolds DEF BackendsInv
<1>3. CASE part = "requests" /\ R!Init
  BY <1>3, FilesInitHolds DEF BackendsInv
<1>4. CASE part = "server" /\ V!Init
  BY <1>4, ServerInitHolds DEF BackendsInv
<1>5. CASE part = "headless" /\ H!Init
  BY <1>5, HeadlessInitHolds DEF BackendsInv
<1>6. CASE part = "tools" /\ A!Init
  BY <1>6, ToolInitHolds DEF BackendsInv
<1>7. CASE part = "context" /\ I!Init
  BY <1>7, ContextInitHolds DEF BackendsInv
<1> QED
  BY <1>1, <1>2, <1>3, <1>4, <1>5, <1>6, <1>7 DEF BackendsInit

LEMMA BackendsStep ==
  ASSUME BackendsInv, [UNCHANGED part /\ BackendsNext]_vars
  PROVE  BackendsInv'
<1>1. CASE part = "cloud"
  <2>1. C!IInv /\ part' = part
    BY <1>1 DEF BackendsInv, vars
  <2>2. CASE C!Next
    BY <1>1, <2>1, <2>2, CloudNextStep DEF BackendsInv
  <2>3. CASE UNCHANGED vars
    <3>1. UNCHANGED C!vars
      BY <2>3 DEF vars, C!vars
    <3> QED
      BY <1>1, <2>1, <3>1, CloudStutterStep DEF BackendsInv
  <2> QED
    BY <1>1, <2>2, <2>3 DEF BackendsNext
<1>2. CASE part = "plugins"
  <2>1. P!IInv /\ part' = part
    BY <1>2 DEF BackendsInv, vars
  <2>2. CASE P!Next
    BY <1>2, <2>1, <2>2, PluginNextStep DEF BackendsInv
  <2>3. CASE UNCHANGED vars
    <3>1. UNCHANGED P!vars
      BY <2>3 DEF vars, P!vars, P!mainVars, P!mainButUnread, P!frontVars
    <3> QED
      BY <1>2, <2>1, <3>1, PluginStutterStep DEF BackendsInv
  <2> QED
    BY <1>2, <2>2, <2>3 DEF BackendsNext
<1>3. CASE part = "requests"
  <2>1. R!IInv /\ part' = part
    BY <1>3 DEF BackendsInv, vars
  <2>2. CASE R!Next
    BY <1>3, <2>1, <2>2, FilesNextStep DEF BackendsInv
  <2>3. CASE UNCHANGED vars
    <3>1. UNCHANGED R!vars
      BY <2>3 DEF vars, R!vars
    <3> QED
      BY <1>3, <2>1, <3>1, FilesStutterStep DEF BackendsInv
  <2> QED
    BY <1>3, <2>2, <2>3 DEF BackendsNext
<1>4. CASE part = "server"
  <2>1. V!IInv /\ part' = part
    BY <1>4 DEF BackendsInv, vars
  <2>2. CASE V!Next
    BY <1>4, <2>1, <2>2, ServerNextStep DEF BackendsInv
  <2>3. CASE UNCHANGED vars
    <3>1. UNCHANGED V!vars
      BY <2>3 DEF vars, V!vars
    <3> QED
      BY <1>4, <2>1, <3>1, ServerStutterStep DEF BackendsInv
  <2> QED
    BY <1>4, <2>2, <2>3 DEF BackendsNext
<1>5. CASE part = "headless"
  <2>1. H!IInv /\ part' = part
    BY <1>5 DEF BackendsInv, vars
  <2>2. CASE H!Next
    BY <1>5, <2>1, <2>2, HeadlessNextStep DEF BackendsInv
  <2>3. CASE UNCHANGED vars
    <3>1. UNCHANGED H!vars
      BY <2>3 DEF vars, H!vars
    <3> QED
      BY <1>5, <2>1, <3>1, HeadlessStutterStep DEF BackendsInv
  <2> QED
    BY <1>5, <2>2, <2>3 DEF BackendsNext
<1>6. CASE part = "tools"
  <2>1. A!IInv /\ part' = part
    BY <1>6 DEF BackendsInv, vars
  <2>2. CASE A!Next
    BY <1>6, <2>1, <2>2, ToolNextStep DEF BackendsInv
  <2>3. CASE UNCHANGED vars
    <3>1. UNCHANGED A!vars
      BY <2>3 DEF vars, A!vars
    <3> QED
      BY <1>6, <2>1, <3>1, ToolStutterStep DEF BackendsInv
  <2> QED
    BY <1>6, <2>2, <2>3 DEF BackendsNext
<1>7. CASE part = "context"
  <2>1. I!IInv /\ part' = part
    BY <1>7 DEF BackendsInv, vars
  <2>2. CASE I!Next
    BY <1>7, <2>1, <2>2, ContextNextStep DEF BackendsInv
  <2>3. CASE UNCHANGED vars
    <3>1. UNCHANGED I!vars
      BY <2>3 DEF vars, I!vars
    <3> QED
      BY <1>7, <2>1, <3>1, ContextStutterStep DEF BackendsInv
  <2> QED
    BY <1>7, <2>2, <2>3 DEF BackendsNext
<1>8. CASE part \notin {"cloud", "plugins", "requests", "server", "headless", "tools", "context"}
  <2>1. part' = part
    BY DEF vars
  <2> QED
    BY <1>8, <2>1 DEF BackendsInv
<1> QED
  BY <1>1, <1>2, <1>3, <1>4, <1>5, <1>6, <1>7, <1>8

\* Every part keeps its inductive invariant, and with it its types, whatever is
\* synchronised, installed, copied, typed, asked and printed.
THEOREM BackendsInvariant == BackendsSpec => []BackendsInv
<1>1. BackendsInit => BackendsInv
  BY BackendsInitHolds
<1>2. BackendsInv /\ [UNCHANGED part /\ BackendsNext]_vars => BackendsInv'
  BY BackendsStep
<1> QED
  BY <1>1, <1>2, PTL DEF BackendsSpec

\* A plugin that was enabled and left alone is loaded and has its handler, and the
\* frontend of every plugin that a load was to read is registered once no load
\* is under way: for any plugins and manifests, any number of overlapping loads
\* (pluginManager.js, plugin-loader.service.ts).
THEOREM PluginsAreServed == BackendsSpec => []PluginsServe
<1>1. BackendsInv => PluginsServe
  BY PluginFollows DEF BackendsInv, PluginsServe, P!IInv
<1> QED
  BY <1>1, BackendsInvariant, PTL

\* Contents survive concurrent copies, moves and uploads, and connections that
\* break halfway; a download is what a reloaded store shows, and is never
\* written over before what it replaces is in the backup: for any stores,
\* directories, parts and requests (sftp.js, ftp.js, samba.js, cloudService.js).
THEOREM NothingIsLost == BackendsSpec => []NothingLost
<1>1. BackendsInv => NothingLost
  <2>1. R!IInv => R!NothingLost
    BY FilesNothingIsLost
  <2>2. C!IInv => C!ReloadedShowDownload /\ C!ReplacedIsKept
    BY DEF C!IInv, C!BackedUpFirst
  <2> QED
    BY <2>1, <2>2 DEF BackendsInv, NothingLost
<1> QED
  BY <1>1, BackendsInvariant, PTL

\* The servers answer every request that has an id, once and in order, and find
\* the profile that was named; the key file opens what the commands write or
\* vouch for: for any lines, profiles and keys, any commands at a time
\* (mcp/server.js, acp/server.js, masterkey, cloud and doctor/command.js).
THEOREM HeadlessIsSound == BackendsSpec => []HeadlessSound
<1>1. BackendsInv => HeadlessSound
  BY DEF BackendsInv, HeadlessSound, V!IInv, H!IInv
<1> QED
  BY <1>1, BackendsInvariant, PTL

\* What the tools of the AI do went through the gate, connects with what the
\* profile was bound to, is saved inside the download directory, stays in its chat
\* and is capped; what terminals print is told, and once: for any tools, calls,
\* paths, sizes, sessions and questions (toolDefinitions.js, runtimeAPI.js, aiChat.js).
THEOREM ToolEffectsAreGuarded == BackendsSpec => []ToolEffects
<1>1. BackendsInv => ToolEffects
  BY DEF BackendsInv, ToolEffects, A!IInv, I!IInv
<1> QED
  BY <1>1, BackendsInvariant, PTL
==============================================================================
