--------------------------- MODULE Backup_proofs ---------------------------
(***************************************************************************)
(* Proofs about Backup, for any contents, keys and number of backups, with *)
(* everything that may go on beside them.                                  *)
(***************************************************************************)
EXTENDS Backup, BlobStore_proofs

Places    == Names \X Suffixes
FarPlaces == Names \X {"", "partial"}

-----------------------------------------------------------------------------
(* Types *)

RootOK     == root \in [Places -> Folder \cup {Nothing}]
FarOK      == far \in [FarPlaces -> Folder \cup {Nothing}]
EnvOK      == env \in [Environments -> Environment \cup {Nothing}]
KeysOK     == keys \in [current: Keys \cup {None}, previous: Keys \cup {None}]
OpOK       == /\ op \in Operation
              /\ op.phase = "idle" => op = NoOperation
              /\ op.phase \notin {"idle", "copying"} => op.name \in Names
              /\ op.phase \in {"restoring", "opening", "restored"} => op.env \in Environments
RemovingOK == removing \subseteq [at: Places, open: BOOLEAN, pruned: BOOLEAN]
MadeOK     == made \in 0..MaxBackups
HistoryOK  == /\ finished \subseteq Names /\ doomed \subseteq Names
              /\ aside \subseteq Names /\ trimmed \subseteq Names

LEMMA TypeParts ==
    BackupTypeOK <=> RootOK /\ FarOK /\ EnvOK /\ KeysOK /\ OpOK /\ RemovingOK /\ MadeOK /\ HistoryOK
BY DEF BackupTypeOK, RootOK, FarOK, EnvOK, KeysOK, OpOK, RemovingOK, MadeOK, HistoryOK, Places, FarPlaces

LEMMA TypePartsNext ==
    BackupTypeOK' <=> RootOK' /\ FarOK' /\ EnvOK' /\ KeysOK' /\ OpOK' /\ RemovingOK' /\ MadeOK' /\ HistoryOK'
BY DEF BackupTypeOK, RootOK, FarOK, EnvOK, KeysOK, OpOK, RemovingOK, MadeOK, HistoryOK, Places, FarPlaces

\* What is left alone keeps its type.
LEMMA Untouched ==
    ASSUME BackupTypeOK
    PROVE  /\ UNCHANGED root => RootOK'
           /\ UNCHANGED far => FarOK'
           /\ UNCHANGED env => EnvOK'
           /\ UNCHANGED keys => KeysOK'
           /\ UNCHANGED op => OpOK'
           /\ UNCHANGED removing => RemovingOK'
           /\ UNCHANGED made => MadeOK'
           /\ UNCHANGED history => HistoryOK'
BY DEF BackupTypeOK, RootOK, FarOK, EnvOK, KeysOK, OpOK, RemovingOK, MadeOK, HistoryOK, Places, FarPlaces, history

\* What stands at one place is changed.
LEMMA RootChanged ==
    ASSUME BackupTypeOK, NEW f \in Places, NEW v \in Folder \cup {Nothing}, root' = [root EXCEPT ![f] = v]
    PROVE  RootOK' /\ root'[f] = v /\ \A g \in Places \ {f} : root'[g] = root[g]
BY DEF BackupTypeOK, RootOK, Places

LEMMA FarChanged ==
    ASSUME BackupTypeOK, NEW f \in FarPlaces, NEW v \in Folder \cup {Nothing}, far' = [far EXCEPT ![f] = v]
    PROVE  FarOK' /\ far'[f] = v /\ \A g \in FarPlaces \ {f} : far'[g] = far[g]
BY DEF BackupTypeOK, FarOK, FarPlaces

LEMMA NewFolderTyped == ASSUME NEW s \in Sealings PROVE NewFolder(s) \in Folder
BY DEF NewFolder, Folder

\* The operation ends, or goes on.
LEMMA Stopped == Stop => OpOK' /\ op' = NoOperation /\ op'.phase = "idle"
BY DEF Stop, OpOK, NoOperation, Operation, Phases, Sealings

LEMMA GoneTo ==
    ASSUME BackupTypeOK, op.name \in Names, NEW phase \in Phases \ {"idle", "restoring", "opening"}, Goto(phase),
           phase = "restored" => op.env \in Environments
    PROVE  /\ OpOK' /\ op' \in Operation /\ op'.phase = phase
           /\ op'.name = op.name /\ op'.env = op.env /\ op'.salt = op.salt /\ op'.from = op.from
           /\ op'.todo = op.todo /\ op'.lost = op.lost /\ op'.queue = op.queue
BY DEF BackupTypeOK, OpOK, Goto, Operation

\* What an operation works on is there, and no removal is at work on it.
Making      == {"begun", "snapped", "walking", "written"}
Reseals     == {"resealing", "resealed", "setaside"}
Restoration == {"restoring", "opening", "restored"}

Present ==
    /\ op.phase \in Making => root[op.name, "partial"] # Nothing
    /\ op.phase \in Reseals => root[op.name, "resealing"] # Nothing
    /\ op.phase \in Restoration => env[op.env] # Nothing
    /\ op.phase = "sending" => far[op.name, "partial"] # Nothing
    /\ \A r \in removing : r.at[2] \in {"", "replaced"}

Typed == TypeOK /\ BackupTypeOK /\ Present

LEMMA Folders ==
    ASSUME Typed
    PROVE  /\ op.phase \notin {"idle", "copying"} => op.name \in Names
           /\ \A n \in Names : \A s \in Suffixes : <<n, s>> \in Places
           /\ \A n \in Names : \A s \in {"", "partial"} : <<n, s>> \in FarPlaces
           /\ op.phase \in Making => root[op.name, "partial"] \in Folder
           /\ op.phase \in Reseals => root[op.name, "resealing"] \in Folder
           /\ op.phase \in Restoration => op.env \in Environments /\ env[op.env] \in Environment
           /\ op.phase = "sending" => far[op.name, "partial"] \in Folder
           /\ \A n \in Names : Standing(n) # Nothing => Standing(n) \in Folder
           /\ \A n \in Names : far[n, ""] # Nothing => far[n, ""] \in Folder
<1>1. op.phase \notin {"idle", "copying"} => op.name \in Names
  BY DEF Typed, BackupTypeOK
<1>2. op.phase \in Restoration => op.env \in Environments
  BY DEF Typed, BackupTypeOK, Restoration
<1>3. \A n \in Names : \A s \in Suffixes : <<n, s>> \in Places
  BY DEF Places
<1>4. \A n \in Names : \A s \in {"", "partial"} : <<n, s>> \in FarPlaces
  BY DEF FarPlaces
<1>5. root \in [Places -> Folder \cup {Nothing}] /\ far \in [FarPlaces -> Folder \cup {Nothing}]
  BY TypeParts DEF Typed, RootOK, FarOK
<1>6. env \in [Environments -> Environment \cup {Nothing}]
  BY TypeParts DEF Typed, EnvOK
<1> QED
  BY <1>1, <1>2, <1>3, <1>4, <1>5, <1>6
  DEF Typed, Present, Making, Reseals, Restoration, Suffixes, Standing

LEMMA Edited ==
    ASSUME BackupTypeOK, op.phase # "idle", NEW todo \in SUBSET Hashes, op' = [op EXCEPT !.todo = todo]
    PROVE  /\ OpOK' /\ op' \in Operation /\ op'.phase = op.phase /\ op'.todo = todo
           /\ op'.name = op.name /\ op'.env = op.env /\ op'.salt = op.salt /\ op'.from = op.from
           /\ op'.lost = op.lost /\ op'.queue = op.queue
BY DEF BackupTypeOK, OpOK, Operation

\* The contents, the folder of an operation: a rename takes removals along.
LEMMA Renamed ==
    ASSUME Typed, NEW f \in Places, NEW g \in Places, f # g, g[2] \in {"", "replaced"}, Rename(f, g)
    PROVE  /\ RootOK' /\ RemovingOK'
           /\ root'[g] = root[f] /\ root'[f] = Nothing
           /\ \A p \in Places \ {f, g} : root'[p] = root[p]
           /\ \A r \in removing' : \E q \in removing : r.at = q.at \/ (q.at = f /\ r.at = g)
           /\ \A r \in removing' : r.at[2] \in {"", "replaced"}
<1>1. root \in [Places -> Folder \cup {Nothing}] /\ removing \subseteq [at: Places, open: BOOLEAN, pruned: BOOLEAN]
  BY TypeParts DEF Typed, RootOK, RemovingOK
<1>2. root' = [root EXCEPT ![g] = root[f], ![f] = Nothing]
  BY DEF Rename
<1>3. RootOK' /\ root'[g] = root[f] /\ root'[f] = Nothing /\ \A p \in Places \ {f, g} : root'[p] = root[p]
  BY <1>1, <1>2 DEF RootOK
<1>4. ASSUME NEW r \in removing'
      PROVE  /\ r \in [at: Places, open: BOOLEAN, pruned: BOOLEAN]
             /\ \E q \in removing : r.at = q.at \/ (q.at = f /\ r.at = g)
  <2>1. PICK q \in removing : r = IF q.at = f /\ q.open THEN [q EXCEPT !.at = g] ELSE q
    BY <1>4 DEF Rename
  <2>2. q \in [at: Places, open: BOOLEAN, pruned: BOOLEAN]
    BY <1>1
  <2>3. CASE q.at = f /\ q.open
    <3>1. r = [q EXCEPT !.at = g]
      BY <2>1, <2>3
    <3>2. r.at = g /\ r \in [at: Places, open: BOOLEAN, pruned: BOOLEAN]
      BY <2>2, <3>1
    <3> QED BY <2>3, <3>2
  <2>4. CASE ~(q.at = f /\ q.open)
    <3>1. r = q
      BY <2>1, <2>4
    <3>2. r \in [at: Places, open: BOOLEAN, pruned: BOOLEAN]
      BY <2>2, <3>1
    <3>3. \E p \in removing : r.at = p.at
      BY <2>1, <3>1
    <3> QED BY <3>2, <3>3
  <2> QED BY <2>3, <2>4
<1>5. \A r \in removing : r.at[2] \in {"", "replaced"}
  BY DEF Typed, Present
<1> QED BY <1>3, <1>4, <1>5 DEF RemovingOK

\* A backup gets a name of its own.
LEMMA NextName == ASSUME BackupTypeOK, NEW s, BeginBackup(s) PROVE made' \in Names /\ MadeOK'
<1>1. made \in 0..MaxBackups /\ made' = made + 1 /\ made < MaxBackups /\ MaxBackups \in Nat
  BY BackupConstants DEF BackupTypeOK, BeginBackup
<1> QED BY <1>1 DEF Names, MadeOK

LEMMA BackupStepTyped == ASSUME Typed, BackupStep PROVE BackupTypeOK' /\ Present'
<1> USE DEF folderVars, history
<1>0. BackupTypeOK
  BY DEF Typed
<1>1. ASSUME NEW s \in Sealings, BeginBackup(s) PROVE BackupTypeOK' /\ Present'
  <2>1. made' \in Names /\ MadeOK'
    BY <1>0, <1>1, NextName
  <2>2. OpOK'
    BY <1>1, <2>1 DEF BeginBackup, Operation, NoOperation, Phases, OpOK
  <2>3. PICK n \in Names : n = made'
    BY <2>1
  <2>4. <<n, "partial">> \in Places
    BY DEF Places, Suffixes
  <2>5. NewFolder(s) \in Folder /\ NewFolder(s) # Nothing
    BY <1>1, NewFolderTyped, NothingIsNone
  <2>6. root' = [root EXCEPT ![<<n, "partial">>] = NewFolder(s)]
    BY <1>1, <2>3 DEF BeginBackup
  <2>7. RootOK' /\ root'[n, "partial"] = NewFolder(s)
    BY <1>0, <2>4, <2>5, <2>6, RootChanged
  <2>8. op'.name = n /\ op'.phase = "begun"
    BY <1>1, <2>3 DEF BeginBackup, NoOperation
  <2>9. Present'
    BY <1>1, <2>5, <2>7, <2>8 DEF BeginBackup, Present, Typed, Making, Reseals, Restoration
  <2> QED BY <1>0, <1>1, <2>1, <2>2, <2>7, <2>9, Untouched, TypePartsNext DEF BeginBackup
<1>2. CASE Snapshot
  <2> DEFINE f == <<op.name, "partial">>
  <2> DEFINE v == [root[f] EXCEPT !.database = TRUE, !.names = {h \in Hashes : Referenced(h)}]
  <2>1. op.name \in Names /\ f \in Places /\ root[f] \in Folder
    BY <1>2, Folders DEF Snapshot, Making, Suffixes
  <2>2. OpOK' /\ op'.phase = "snapped" /\ op'.name = op.name
    BY <1>0, <1>2, <2>1, GoneTo DEF Snapshot, Phases
  <2>3. v \in Folder
    BY <2>1 DEF Folder
  <2>4. root' = [root EXCEPT ![f] = v]
    BY <1>2 DEF Snapshot
  <2>5. RootOK' /\ root'[f] # Nothing
    BY <1>0, <2>1, <2>3, <2>4, RootChanged, NothingIsNone
  <2>6. Present'
    BY <1>2, <2>2, <2>5 DEF Snapshot, Present, Typed, Making, Reseals, Restoration
  <2> QED BY <1>0, <1>2, <2>2, <2>5, <2>6, Untouched, TypePartsNext DEF Snapshot
<1>3. CASE BeginWalk
  <2>1. op \in Operation /\ op.phase = "snapped" /\ op.name \in Names
    BY <1>3, Folders DEF BeginWalk, Typed, BackupTypeOK
  <2> DEFINE from == IF \E n \in Names : Latest(n) /\ SameSealing(n, op.salt)
                     THEN CHOOSE n \in Names : Latest(n) ELSE 0
  <2>2. from \in Names \cup {0}
    OBVIOUS
  <2>3. op' = [op EXCEPT !.phase = "walking", !.todo = Hashes, !.from = from]
    BY <1>3 DEF BeginWalk
  <2>4. OpOK' /\ op'.phase = "walking" /\ op'.name = op.name
    BY <2>1, <2>2, <2>3 DEF OpOK, Operation, Phases
  <2>5. Present'
    BY <1>3, <2>1, <2>4 DEF BeginWalk, Present, Typed, Making, Reseals, Restoration
  <2> QED BY <1>0, <1>3, <2>4, <2>5, Untouched, TypePartsNext DEF BeginWalk
<1>4. ASSUME NEW h \in Hashes, CopyFile(h) PROVE BackupTypeOK' /\ Present'
  <2> DEFINE f == <<op.name, "partial">>
  <2>1. op.name \in Names /\ f \in Places /\ root[f] \in Folder /\ op.phase = "walking" /\ op \in Operation
    BY <1>4, <1>0, Folders DEF CopyFile, Making, Suffixes, BackupTypeOK
  <2>2. OpOK' /\ op'.phase = "walking" /\ op'.name = op.name
    BY <1>0, <1>4, <2>1, Edited DEF CopyFile, Operation
  <2>3. RootOK' /\ root'[f] # Nothing
    <3>1. CASE h \notin files
      BY <1>0, <1>4, <2>1, <3>1, Untouched, NothingIsNone DEF CopyFile
    <3>2. CASE h \in files
      <4>1. PICK x \in Shared(h) \cup {<<h, op.salt>>} : root' = [root EXCEPT ![f].has = @ \cup {x}]
        BY <1>4, <3>2 DEF CopyFile
      <4>2. op.from # 0 /\ Standing(op.from) # Nothing => Standing(op.from) \in Folder
        BY <2>1, Folders DEF Operation
      <4>3. Shared(h) \subseteq Hashes \X Sealings
        BY <4>2 DEF Shared, Folder
      <4>4. x \in Hashes \X Sealings
        BY <2>1, <4>1, <4>3 DEF Operation
      <4>5. [root[f] EXCEPT !.has = root[f].has \cup {x}] \in Folder
        BY <2>1, <4>4 DEF Folder
      <4>6. root' = [root EXCEPT ![f] = [root[f] EXCEPT !.has = root[f].has \cup {x}]]
        BY <4>1
      <4> QED BY <1>0, <2>1, <4>5, <4>6, RootChanged, NothingIsNone
    <3> QED BY <3>1, <3>2
  <2>4. Present'
    BY <1>4, <2>2, <2>3 DEF CopyFile, Present, Typed, Making, Reseals, Restoration
  <2> QED BY <1>0, <1>4, <2>2, <2>3, <2>4, Untouched, TypePartsNext DEF CopyFile
<1>5. CASE WriteManifest
  <2> DEFINE f == <<op.name, "partial">>
  <2> DEFINE v == [root[f] EXCEPT !.manifest = TRUE, !.kept = root[f].has, !.lost = op.lost]
  <2>1. op.name \in Names /\ f \in Places /\ root[f] \in Folder /\ op \in Operation
    BY <1>5, <1>0, Folders DEF WriteManifest, Making, Suffixes, BackupTypeOK
  <2>2. OpOK' /\ op'.phase = "written" /\ op'.name = op.name
    BY <1>0, <1>5, <2>1, GoneTo DEF WriteManifest, Phases
  <2>3. v \in Folder
    BY <2>1 DEF Folder, Operation
  <2>4. root' = [root EXCEPT ![f] = v]
    BY <1>5 DEF WriteManifest
  <2>5. RootOK' /\ root'[f] # Nothing
    BY <1>0, <2>1, <2>3, <2>4, RootChanged, NothingIsNone
  <2>6. Present'
    BY <1>5, <2>2, <2>5 DEF WriteManifest, Present, Typed, Making, Reseals, Restoration
  <2> QED BY <1>0, <1>5, <2>2, <2>5, <2>6, Untouched, TypePartsNext DEF WriteManifest
<1>6. CASE PutInPlace
  <2> DEFINE f == <<op.name, "partial">>
  <2> DEFINE g == <<op.name, "">>
  <2>1. op.name \in Names /\ f \in Places /\ g \in Places
    BY <1>6, <1>0, Folders DEF PutInPlace, Suffixes
  <2>2. OpOK' /\ op'.phase = "placed"
    BY <1>0, <1>6, <2>1, GoneTo DEF PutInPlace, Phases
  <2>3. RootOK' /\ RemovingOK' /\ \A r \in removing' : r.at[2] \in {"", "replaced"}
    BY <1>6, <2>1, Renamed DEF PutInPlace
  <2>4. HistoryOK'
    BY <1>0, <1>6, <2>1 DEF PutInPlace, HistoryOK, BackupTypeOK
  <2>5. Present'
    BY <2>2, <2>3 DEF Present, Making, Reseals, Restoration
  <2> QED BY <1>0, <1>6, <2>2, <2>3, <2>4, <2>5, Untouched, TypePartsNext DEF PutInPlace
<1>7. CASE FailBackup
  <2> DEFINE f == <<op.name, "partial">>
  <2>1. op.name \in Names /\ f \in Places /\ root[f] \in Folder
    BY <1>7, <1>0, Folders DEF FailBackup, Making, Suffixes
  <2>2. OpOK' /\ op'.phase = "idle"
    BY <1>7, Stopped DEF FailBackup
  <2>3. PICK left \in Folder \cup {Nothing} : root' = [root EXCEPT ![f] = left]
    BY <1>7, <2>1 DEF FailBackup, Removed
  <2>4. RootOK'
    BY <1>0, <2>1, <2>3, RootChanged
  <2>5. Present'
    BY <1>7, <2>2 DEF FailBackup, Present, Typed, Making, Reseals, Restoration
  <2> QED BY <1>0, <1>7, <2>2, <2>4, <2>5, Untouched, TypePartsNext DEF FailBackup
<1>8. CASE BeginPrune
  <2> DEFINE old == AllListed \ Newest(AllListed)
  <2>1. op.name \in Names /\ old \subseteq Names
    BY <1>8, <1>0, Folders DEF BeginPrune, AllListed
  <2>2. OpOK' /\ op'.phase = "pruning"
    BY <1>0, <1>8, <2>1, GoneTo DEF BeginPrune, Phases
  <2>3. removing' = removing \cup {[at |-> <<n, "">>, open |-> FALSE, pruned |-> TRUE] : n \in old}
    BY <1>8 DEF BeginPrune
  <2>4. \A n \in old : <<n, "">> \in Places
    BY <2>1 DEF Places, Suffixes
  <2>5. RemovingOK' /\ \A r \in removing' : r.at[2] \in {"", "replaced"}
    <3>1. removing \subseteq [at: Places, open: BOOLEAN, pruned: BOOLEAN]
      BY <1>0, TypeParts DEF RemovingOK
    <3>2. \A r \in removing : r.at[2] \in {"", "replaced"}
      BY DEF Typed, Present
    <3>3. \A n \in old : [at |-> <<n, "">>, open |-> FALSE, pruned |-> TRUE] \in [at: Places, open: BOOLEAN, pruned: BOOLEAN]
      BY <2>4
    <3>4. ASSUME NEW r \in removing'
          PROVE  r \in [at: Places, open: BOOLEAN, pruned: BOOLEAN] /\ r.at[2] \in {"", "replaced"}
      <4>1. CASE r \in removing
        BY <3>1, <3>2, <4>1
      <4>2. CASE r \notin removing
        <5>1. PICK n \in old : r = [at |-> <<n, "">>, open |-> FALSE, pruned |-> TRUE]
          BY <2>3, <3>4, <4>2
        <5> QED BY <3>3, <5>1
      <4> QED BY <4>1, <4>2
    <3> QED BY <3>4 DEF RemovingOK
  <2>6. HistoryOK'
    BY <1>0, <1>8, <2>1 DEF BeginPrune, HistoryOK, BackupTypeOK
  <2>7. Present'
    BY <1>8, <2>2, <2>5 DEF BeginPrune, Present, Typed, Making, Reseals, Restoration
  <2> QED BY <1>0, <1>8, <2>2, <2>5, <2>6, <2>7, Untouched, TypePartsNext DEF BeginPrune
<1>9. CASE PrunePartials
  <2>1. op.name \in Names
    BY <1>9, Folders DEF PrunePartials
  <2>2. OpOK' /\ op'.phase = "pruned"
    BY <1>0, <1>9, <2>1, GoneTo DEF PrunePartials, Phases
  <2>3. RootOK'
    BY <1>0, <1>9 DEF PrunePartials, BackupTypeOK, RootOK, Places
  <2>4. Present'
    BY <1>9, <2>2 DEF PrunePartials, Present, Typed, Making, Reseals, Restoration
  <2> QED BY <1>0, <1>9, <2>2, <2>3, <2>4, Untouched, TypePartsNext DEF PrunePartials
<1> QED BY <1>1, <1>2, <1>3, <1>4, <1>5, <1>6, <1>7, <1>8, <1>9 DEF BackupStep

LEMMA PairOf == ASSUME NEW A, NEW B, NEW f \in A \X B PROVE f = <<f[1], f[2]>> /\ f[1] \in A /\ f[2] \in B
OBVIOUS

LEMMA OtherPlace ==
    ASSUME NEW n \in Names, NEW s \in Suffixes, NEW f \in Places, f[2] # s
    PROVE  <<n, s>> \in Places \ {f}
<1>1. <<n, s>>[2] = s
  OBVIOUS
<1> QED BY <1>1 DEF Places

\* A removal takes something out of a folder, and leaves the rest.
LEMMA PieceRemoved ==
    ASSUME NEW r, root[r.at] \in Folder, RemovePiece(r)
    PROVE  \E v \in Folder :
              /\ root' = [root EXCEPT ![r.at] = v]
              /\ v.has \subseteq root[r.at].has
              /\ v.names = root[r.at].names /\ v.salt = root[r.at].salt
              /\ v.kept = root[r.at].kept /\ v.lost = root[r.at].lost
              /\ v.record => root[r.at].record
<1> DEFINE F == root[r.at]
<1>1. ASSUME NEW x \in F.has, root' = [root EXCEPT ![r.at].has = @ \ {x}]
      PROVE  root' = [root EXCEPT ![r.at] = [F EXCEPT !.has = F.has \ {x}]] /\ [F EXCEPT !.has = F.has \ {x}] \in Folder
  BY <1>1 DEF Folder
<1>2. CASE \E x \in F.has : root' = [root EXCEPT ![r.at].has = @ \ {x}]
  BY <1>1, <1>2 DEF Folder
<1>3. CASE root' = [root EXCEPT ![r.at].database = FALSE]
  <2>1. [F EXCEPT !.database = FALSE] \in Folder
    BY DEF Folder
  <2> QED BY <1>3, <2>1 DEF Folder
<1>4. CASE root' = [root EXCEPT ![r.at].manifest = FALSE]
  <2>1. [F EXCEPT !.manifest = FALSE] \in Folder
    BY DEF Folder
  <2> QED BY <1>4, <2>1 DEF Folder
<1>5. CASE root' = [root EXCEPT ![r.at].record = FALSE]
  <2>1. [F EXCEPT !.record = FALSE] \in Folder
    BY DEF Folder
  <2> QED BY <1>5, <2>1 DEF Folder
<1> QED BY <1>2, <1>3, <1>4, <1>5 DEF RemovePiece

LEMMA RemovalStepTyped == ASSUME Typed, RemovalStep PROVE BackupTypeOK' /\ Present'
<1> USE DEF folderVars, history
<1>0. BackupTypeOK /\ removing \subseteq [at: Places, open: BOOLEAN, pruned: BOOLEAN]
      /\ \A r \in removing : r.at[2] \in {"", "replaced"}
  BY TypeParts DEF Typed, RemovingOK, Present
<1>1. ASSUME NEW n \in Names, DeleteBackup(n) PROVE BackupTypeOK' /\ Present'
  <2> DEFINE q == [at |-> <<n, "">>, open |-> FALSE, pruned |-> FALSE]
  <2>1. q \in [at: Places, open: BOOLEAN, pruned: BOOLEAN] /\ q.at[2] = ""
    BY DEF Places, Suffixes
  <2>2. RemovingOK' /\ \A r \in removing' : r.at[2] \in {"", "replaced"}
    BY <1>0, <1>1, <2>1 DEF DeleteBackup, RemovingOK
  <2>3. HistoryOK'
    BY <1>0, <1>1 DEF DeleteBackup, HistoryOK, BackupTypeOK
  <2>4. Present'
    BY <1>1, <2>2 DEF DeleteBackup, Present, Typed, Making, Reseals, Restoration
  <2> QED BY <1>0, <1>1, <2>2, <2>3, <2>4, Untouched, TypePartsNext DEF DeleteBackup
<1>2. ASSUME NEW r \in removing, OpenFolder(r) PROVE BackupTypeOK' /\ Present'
  <2>1. [r EXCEPT !.open = TRUE] \in [at: Places, open: BOOLEAN, pruned: BOOLEAN] /\ [r EXCEPT !.open = TRUE].at = r.at
    BY <1>0
  <2>2. RemovingOK' /\ \A q \in removing' : q.at[2] \in {"", "replaced"}
    BY <1>0, <1>2, <2>1 DEF OpenFolder, RemovingOK
  <2>3. Present'
    BY <1>2, <2>2 DEF OpenFolder, Present, Typed, Making, Reseals, Restoration
  <2> QED BY <1>0, <1>2, <2>2, <2>3, Untouched, TypePartsNext DEF OpenFolder
<1>3. ASSUME NEW r \in removing, RemovePiece(r) PROVE BackupTypeOK' /\ Present'
  <2>1. r.at \in Places /\ r.at[2] \in {"", "replaced"} /\ root[r.at] \in Folder
    BY <1>0, <1>3, TypeParts DEF RemovePiece, RootOK
  <2>2. PICK v \in Folder : root' = [root EXCEPT ![r.at] = v]
    BY <1>3, <2>1, PieceRemoved
  <2>3. RootOK' /\ \A g \in Places \ {r.at} : root'[g] = root[g]
    BY <1>0, <2>1, <2>2, RootChanged
  <2>4. Present'
    <3>1. op.phase \in Making \cup Reseals => op.name \in Names
      BY Folders DEF Making, Reseals
    <3>2. op.phase \in Making => root'[op.name, "partial"] # Nothing
      <4>1. ASSUME op.phase \in Making PROVE <<op.name, "partial">> \in Places \ {r.at}
        BY <2>1, <3>1, <4>1, OtherPlace DEF Suffixes
      <4> QED BY <2>3, <4>1 DEF Typed, Present
    <3>3. op.phase \in Reseals => root'[op.name, "resealing"] # Nothing
      <4>1. ASSUME op.phase \in Reseals PROVE <<op.name, "resealing">> \in Places \ {r.at}
        BY <2>1, <3>1, <4>1, OtherPlace DEF Suffixes
      <4> QED BY <2>3, <4>1 DEF Typed, Present
    <3> QED BY <1>3, <3>2, <3>3 DEF RemovePiece, Typed, Present
  <2> QED BY <1>0, <1>3, <2>3, <2>4, Untouched, TypePartsNext DEF RemovePiece
<1>4. ASSUME NEW r \in removing, EndRemoval(r) PROVE BackupTypeOK' /\ Present'
  <2>1. r.at \in Places /\ r.at[2] \in {"", "replaced"}
    BY <1>0
  <2>2. RootOK' /\ \A g \in Places \ {r.at} : root'[g] = root[g]
    <3>1. CASE UNCHANGED root
      BY <1>0, <3>1, Untouched
    <3>2. CASE root' = [root EXCEPT ![r.at] = Nothing]
      BY <1>0, <2>1, <3>2, RootChanged
    <3> QED BY <1>4, <3>1, <3>2 DEF EndRemoval
  <2>3. RemovingOK' /\ \A q \in removing' : q.at[2] \in {"", "replaced"}
    BY <1>0, <1>4 DEF EndRemoval, RemovingOK
  <2>4. Present'
    <3>1. op.phase \in Making \cup Reseals => op.name \in Names
      BY Folders DEF Making, Reseals
    <3>2. op.phase \in Making => root'[op.name, "partial"] # Nothing
      <4>1. ASSUME op.phase \in Making PROVE <<op.name, "partial">> \in Places \ {r.at}
        BY <2>1, <3>1, <4>1, OtherPlace DEF Suffixes
      <4> QED BY <2>2, <4>1 DEF Typed, Present
    <3>3. op.phase \in Reseals => root'[op.name, "resealing"] # Nothing
      <4>1. ASSUME op.phase \in Reseals PROVE <<op.name, "resealing">> \in Places \ {r.at}
        BY <2>1, <3>1, <4>1, OtherPlace DEF Suffixes
      <4> QED BY <2>2, <4>1 DEF Typed, Present
    <3> QED BY <1>4, <2>3, <3>2, <3>3 DEF EndRemoval, Typed, Present
  <2> QED BY <1>0, <1>4, <2>2, <2>3, <2>4, Untouched, TypePartsNext DEF EndRemoval
<1> QED BY <1>1, <1>2, <1>3, <1>4 DEF RemovalStep

LEMMA CopyStepTyped == ASSUME Typed, CopyStep PROVE BackupTypeOK' /\ Present'
<1> USE DEF folderVars, history
<1>0. BackupTypeOK /\ op \in Operation
  BY DEF Typed, BackupTypeOK
<1>1. CASE BeginCopies
  <2>1. CASE Stop
    BY <1>0, <1>1, <2>1, Stopped, Untouched, TypePartsNext DEF BeginCopies, Present, Typed, Making, Reseals, Restoration
  <2>2. CASE op' = [NoOperation EXCEPT !.phase = "copying", !.queue = Waiting]
    <3>1. Waiting \subseteq Names
      BY DEF Waiting, Newest, AllListed
    <3>2. OpOK' /\ op'.phase = "copying"
      BY <2>2, <3>1 DEF OpOK, Operation, NoOperation, Phases, Sealings
    <3> QED
      BY <1>0, <1>1, <3>2, Untouched, TypePartsNext DEF BeginCopies, Present, Typed, Making, Reseals, Restoration
  <2> QED BY <1>1, <2>1, <2>2 DEF BeginCopies
<1>2. ASSUME NEW n \in Names, BeginCopy(n) PROVE BackupTypeOK' /\ Present'
  <2>1. CASE op' = [op EXCEPT !.phase = "sent", !.name = n] /\ UNCHANGED far
    <3>1. OpOK' /\ op'.phase = "sent"
      BY <1>0, <2>1 DEF OpOK, Operation, Phases
    <3> QED
      BY <1>0, <1>2, <2>1, <3>1, Untouched, TypePartsNext DEF BeginCopy, Present, Typed, Making, Reseals, Restoration
  <2>2. CASE /\ op' = [op EXCEPT !.phase = "sending", !.name = n, !.todo = Hashes]
             /\ far' = [far EXCEPT ![<<n, "">>] = Nothing, ![<<n, "partial">>] = NewFolder(Plain)]
    <3>1. OpOK' /\ op'.phase = "sending" /\ op'.name = n
      BY <1>0, <2>2 DEF OpOK, Operation, Phases
    <3>2. NewFolder(Plain) \in Folder /\ NewFolder(Plain) # Nothing
      BY NewFolderTyped, NothingIsNone DEF Sealings
    <3>3. FarOK' /\ far'[n, "partial"] # Nothing
      BY <1>0, <2>2, <3>2, TypeParts DEF FarOK, FarPlaces
    <3> QED
      BY <1>0, <1>2, <3>1, <3>3, Untouched, TypePartsNext DEF BeginCopy, Present, Typed, Making, Reseals, Restoration
  <2> QED BY <1>2, <2>1, <2>2 DEF BeginCopy
<1>3. ASSUME NEW h \in Hashes, SendFile(h) PROVE BackupTypeOK' /\ Present'
  <2> DEFINE f == <<op.name, "partial">>
  <2> DEFINE v == [far[f] EXCEPT !.has = far[f].has \cup {x \in Standing(op.name).has : x[1] = h},
                                 !.database = far[f].database \/ Standing(op.name).database]
  <2>1. op.name \in Names /\ f \in FarPlaces /\ far[f] \in Folder /\ Standing(op.name) \in Folder
    BY <1>3, Folders DEF SendFile
  <2>2. v \in Folder
    BY <2>1 DEF Folder
  <2>3. far' = [far EXCEPT ![f] = v]
    BY <1>3, <2>1, TypeParts DEF SendFile, FarOK, Typed
  <2>4. FarOK' /\ far'[f] # Nothing
    BY <1>0, <2>1, <2>2, <2>3, FarChanged, NothingIsNone
  <2>5. OpOK' /\ op'.phase = "sending" /\ op'.name = op.name
    BY <1>0, <1>3, Edited DEF SendFile, Operation
  <2>6. Present'
    BY <1>3, <2>4, <2>5 DEF SendFile, Present, Typed, Making, Reseals, Restoration
  <2> QED BY <1>0, <1>3, <2>4, <2>5, <2>6, Untouched, TypePartsNext DEF SendFile
<1>4. CASE PlaceCopy
  <2>1. op.name \in Names /\ far[op.name, "partial"] \in Folder /\ Standing(op.name) \in Folder
    BY <1>4, Folders DEF PlaceCopy, Listed
  <2>2. Sent(op.name) \in Folder
    BY <2>1 DEF Sent, Folder
  <2>3. FarOK'
    BY <1>0, <1>4, <2>2, TypeParts DEF PlaceCopy, FarOK
  <2>4. OpOK' /\ op'.phase = "sent"
    BY <1>0, <1>4, <2>1, GoneTo DEF PlaceCopy, Phases
  <2>5. HistoryOK'
    BY <1>0, <1>4 DEF PlaceCopy, HistoryOK, BackupTypeOK
  <2>6. Present'
    BY <1>4, <2>4 DEF PlaceCopy, Present, Typed, Making, Reseals, Restoration
  <2> QED BY <1>0, <1>4, <2>3, <2>4, <2>5, <2>6, Untouched, TypePartsNext DEF PlaceCopy
<1>5. CASE RecordCopy
  <2> DEFINE f == <<op.name, "">>
  <2>1. op.name \in Names /\ f \in Places /\ root[f] \in Folder
    BY <1>5, Folders DEF RecordCopy, Standing, Suffixes
  <2>2. [root[f] EXCEPT !.record = TRUE] \in Folder
    BY <2>1 DEF Folder
  <2>3. RootOK'
    BY <1>0, <1>5, <2>1, <2>2, RootChanged DEF RecordCopy
  <2>4. OpOK' /\ op'.phase = "copying"
    BY <1>0, <1>5 DEF RecordCopy, OpOK, Operation, Phases
  <2>5. Present'
    BY <1>5, <2>4 DEF RecordCopy, Present, Typed, Making, Reseals, Restoration
  <2> QED BY <1>0, <1>5, <2>3, <2>4, <2>5, Untouched, TypePartsNext DEF RecordCopy
<1>6. CASE FailCopy
  <2> DEFINE f == <<op.name, "partial">>
  <2>1. f \in FarPlaces
    BY <1>6, Folders DEF FailCopy
  <2>2. PICK left \in {Nothing, far[f]} : far' = [far EXCEPT ![f] = left]
    BY <1>6 DEF FailCopy, Removed
  <2>3. left \in Folder \cup {Nothing}
    BY <2>1, <2>2, TypeParts DEF Typed, FarOK
  <2>4. FarOK'
    BY <1>0, <2>1, <2>2, <2>3, FarChanged
  <2> QED
    BY <1>0, <1>6, <2>4, Stopped, Untouched, TypePartsNext DEF FailCopy, Present, Typed, Making, Reseals, Restoration
<1>7. CASE TrimCopies
  <2> DEFINE all == {n \in Names : far[n, ""] # Nothing /\ far[n, ""].manifest}
  <2> DEFINE old == all \ Newest(all)
  <2>1. PICK torn \in SUBSET old :
          far' = [f \in DOMAIN far |->
                    IF f[2] = "partial" \/ f[1] \in old \ torn THEN Nothing
                    ELSE IF f[1] \in torn THEN [far[f] EXCEPT !.has = {}] ELSE far[f]]
    BY <1>7 DEF TrimCopies
  <2>2. far \in [FarPlaces -> Folder \cup {Nothing}]
    BY TypeParts DEF Typed, FarOK
  <2>3. ASSUME NEW f \in FarPlaces, f[2] # "partial", f[1] \in torn PROVE [far[f] EXCEPT !.has = {}] \in Folder
    <3>1. f = <<f[1], "">> /\ f[1] \in Names
      <4>1. f = <<f[1], f[2]>> /\ f[1] \in Names /\ f[2] \in {"", "partial"}
        BY <2>3, PairOf DEF FarPlaces
      <4> QED BY <2>3, <4>1
    <3>2. far[f[1], ""] # Nothing
      BY <2>1, <2>3
    <3>3. far[f] \in Folder
      BY <2>2, <3>1, <3>2
    <3> QED BY <3>3 DEF Folder
  <2>4. FarOK'
    BY <2>1, <2>2, <2>3 DEF FarOK
  <2>5. HistoryOK'
    BY <1>0, <1>7 DEF TrimCopies, HistoryOK, BackupTypeOK
  <2> QED
    BY <1>0, <1>7, <2>4, <2>5, Stopped, Untouched, TypePartsNext DEF TrimCopies, Present, Typed, Making, Reseals, Restoration
<1> QED BY <1>1, <1>2, <1>3, <1>4, <1>5, <1>6, <1>7 DEF CopyStep

LEMMA ResealStepTyped == ASSUME Typed, ResealStep PROVE BackupTypeOK' /\ Present'
<1> USE DEF folderVars, history
<1>0. BackupTypeOK /\ op \in Operation /\ root \in [Places -> Folder \cup {Nothing}]
  BY TypeParts DEF Typed, BackupTypeOK, RootOK
<1>1. ASSUME NEW n \in Names, NEW s \in Salts, BeginReseal(n, s) PROVE BackupTypeOK' /\ Present'
  <2> DEFINE v == [NewFolder(s) EXCEPT !.lost = Standing(n).lost]
  <2>1. Standing(n) \in Folder /\ s \in Sealings
    BY <1>1, Folders DEF BeginReseal, Listed, Sealings
  <2>2. v \in Folder /\ v # Nothing
    BY <2>1, NewFolderTyped, NothingIsNone DEF Folder
  <2>3. root' = [root EXCEPT ![<<n, "resealing">>] = v, ![<<n, "replaced">>] = Nothing]
    BY <1>1 DEF BeginReseal
  <2>4. RootOK' /\ root'[n, "resealing"] = v
    BY <1>0, <2>2, <2>3, Folders DEF RootOK, Suffixes
  <2>5. OpOK' /\ op'.phase = "resealing" /\ op'.name = n
    BY <1>1, <2>1 DEF BeginReseal, OpOK, Operation, NoOperation, Phases
  <2>6. Present'
    BY <1>1, <2>2, <2>4, <2>5 DEF BeginReseal, Present, Typed, Making, Reseals, Restoration
  <2> QED BY <1>0, <1>1, <2>4, <2>5, <2>6, Untouched, TypePartsNext DEF BeginReseal
<1>2. ASSUME NEW h \in Hashes, ResealFile(h) PROVE BackupTypeOK' /\ Present'
  <2> DEFINE f == <<op.name, "resealing">>
  <2>1. op.name \in Names /\ f \in Places /\ root[f] \in Folder
    BY <1>2, Folders DEF ResealFile, Reseals, Suffixes
  <2>2. [root[f] EXCEPT !.has = root[f].has \cup {<<h, op.salt>>}] \in Folder
    BY <1>0, <2>1 DEF Folder, Operation
  <2>3. RootOK' /\ root'[f] # Nothing
    <3>1. CASE UNCHANGED root
      BY <1>0, <2>1, <3>1, Untouched, NothingIsNone
    <3>2. CASE root' = [root EXCEPT ![f].has = @ \cup {<<h, op.salt>>}]
      BY <1>0, <2>1, <2>2, <3>2, RootChanged, NothingIsNone
    <3> QED BY <1>2, <3>1, <3>2 DEF ResealFile
  <2>4. OpOK' /\ op'.phase = "resealing" /\ op'.name = op.name
    BY <1>0, <1>2, Edited DEF ResealFile, Operation
  <2>5. Present'
    BY <1>2, <2>3, <2>4 DEF ResealFile, Present, Typed, Making, Reseals, Restoration
  <2> QED BY <1>0, <1>2, <2>3, <2>4, <2>5, Untouched, TypePartsNext DEF ResealFile
<1>3. CASE WriteResealed
  <2> DEFINE f == <<op.name, "resealing">>
  <2> DEFINE B == Standing(op.name)
  <2> DEFINE v == [root[f] EXCEPT !.database = B.database, !.names = B.names, !.manifest = TRUE, !.kept = root[f].has]
  <2>1. op.name \in Names /\ f \in Places /\ root[f] \in Folder /\ B \in Folder
    BY <1>3, Folders DEF WriteResealed, Reseals, Suffixes
  <2>2. v \in Folder
    BY <2>1 DEF Folder
  <2>3. root' = [root EXCEPT ![f] = v]
    BY <1>3 DEF WriteResealed
  <2>4. RootOK' /\ root'[f] # Nothing
    BY <1>0, <2>1, <2>2, <2>3, RootChanged, NothingIsNone
  <2>5. OpOK' /\ op'.phase = "resealed" /\ op'.name = op.name
    BY <1>0, <1>3, <2>1, GoneTo DEF WriteResealed, Phases
  <2>6. Present'
    BY <1>3, <2>4, <2>5 DEF WriteResealed, Present, Typed, Making, Reseals, Restoration
  <2> QED BY <1>0, <1>3, <2>4, <2>5, <2>6, Untouched, TypePartsNext DEF WriteResealed
<1>4. ASSUME NEW f \in Places, NEW left \in Removed(root[f]), root' = [root EXCEPT ![f] = left] PROVE RootOK'
  <2>1. left \in Folder \cup {Nothing}
    BY <1>0, <1>4 DEF Removed
  <2> QED BY <1>0, <1>4, <2>1, RootChanged
<1>5. CASE FailReseal
  <2>1. RootOK'
    BY <1>4, <1>5, Folders DEF FailReseal, Suffixes
  <2> QED
    BY <1>0, <1>5, <2>1, Stopped, Untouched, TypePartsNext DEF FailReseal, Present, Typed, Making, Reseals, Restoration
<1>6. CASE DropLeftover
  <2>1. RootOK'
    BY <1>4, <1>6, Folders DEF DropLeftover, Suffixes
  <2> QED
    BY <1>0, <1>6, <2>1, Stopped, Untouched, TypePartsNext DEF DropLeftover, Present, Typed, Making, Reseals, Restoration
<1>7. CASE SetAside
  <2>1. op.name \in Names
    BY <1>7, Folders DEF SetAside
  <2>2. \A s \in Suffixes : <<op.name, s>> \in Places
    BY <2>1, Folders
  <2>3. RootOK' /\ RemovingOK' /\ (\A r \in removing' : r.at[2] \in {"", "replaced"})
        /\ root'[op.name, "resealing"] = root[op.name, "resealing"]
    <3> DEFINE f == <<op.name, "">>
    <3> DEFINE g == <<op.name, "replaced">>
    <3>1. f \in Places /\ g \in Places /\ f # g /\ g[2] = "replaced"
      BY <2>2 DEF Suffixes
    <3>2. <<op.name, "resealing">> \in Places \ {f, g}
      BY <2>2 DEF Suffixes
    <3>3. Rename(f, g)
      BY <1>7 DEF SetAside
    <3>4. RootOK' /\ RemovingOK' /\ \A r \in removing' : r.at[2] \in {"", "replaced"}
      BY <3>1, <3>3, Renamed
    <3>5. \A p \in Places \ {f, g} : root'[p] = root[p]
      BY <3>1, <3>3, Renamed
    <3> QED BY <3>2, <3>4, <3>5
  <2>4. OpOK' /\ op'.phase = "setaside" /\ op'.name = op.name
    BY <1>0, <1>7, <2>1, GoneTo DEF SetAside, Phases
  <2>5. Present'
    BY <1>7, <2>3, <2>4 DEF SetAside, Present, Typed, Making, Reseals, Restoration
  <2> QED BY <1>0, <1>7, <2>3, <2>4, <2>5, Untouched, TypePartsNext DEF SetAside
<1>8. CASE PutResealed
  <2>1. op.name \in Names
    BY <1>8, Folders DEF PutResealed
  <2>2. \A s \in Suffixes : <<op.name, s>> \in Places
    BY <2>1, Folders
  <2>3. RootOK' /\ RemovingOK' /\ \A r \in removing' : r.at[2] \in {"", "replaced"}
    BY <1>8, <2>2, Renamed DEF PutResealed, Suffixes
  <2>4. OpOK' /\ op'.phase = "swapped"
    BY <1>0, <1>8, <2>1, GoneTo DEF PutResealed, Phases
  <2>5. Present'
    BY <2>3, <2>4 DEF Present, Making, Reseals, Restoration
  <2> QED BY <1>0, <1>8, <2>3, <2>4, <2>5, Untouched, TypePartsNext DEF PutResealed
<1>9. CASE PutBack
  <2>1. op.name \in Names
    BY <1>9, Folders DEF PutBack
  <2>2. \A s \in Suffixes : <<op.name, s>> \in Places
    BY <2>1, Folders
  <2>3. RootOK' /\ RemovingOK' /\ \A r \in removing' : r.at[2] \in {"", "replaced"}
    <3>1. CASE Rename(<<op.name, "replaced">>, <<op.name, "">>)
      BY <2>2, <3>1, Renamed DEF Suffixes
    <3>2. CASE UNCHANGED <<root, removing>>
      BY <1>0, <3>2, Untouched DEF Typed, Present
    <3> QED BY <1>9, <3>1, <3>2 DEF PutBack
  <2>4. HistoryOK'
    BY <1>0, <1>9, <2>1 DEF PutBack, HistoryOK, BackupTypeOK
  <2>5. OpOK' /\ op'.phase = "putback"
    BY <1>0, <1>9, <2>1, GoneTo DEF PutBack, Phases
  <2>6. Present'
    BY <2>3, <2>5 DEF Present, Making, Reseals, Restoration
  <2> QED BY <1>0, <1>9, <2>3, <2>4, <2>5, <2>6, Untouched, TypePartsNext DEF PutBack
<1> QED BY <1>1, <1>2, <1>3, <1>5, <1>6, <1>7, <1>8, <1>9 DEF ResealStep

LEMMA EnvChanged ==
    ASSUME BackupTypeOK, NEW e \in Environments, NEW v \in Environment \cup {Nothing}, env' = [env EXCEPT ![e] = v]
    PROVE  EnvOK' /\ env'[e] = v /\ \A d \in Environments \ {e} : env'[d] = env[d]
BY DEF BackupTypeOK, EnvOK

LEMMA RestoreStepTyped == ASSUME Typed, RestoreStep PROVE BackupTypeOK' /\ Present'
<1> USE DEF folderVars, history
<1>0. BackupTypeOK /\ op \in Operation /\ env \in [Environments -> Environment \cup {Nothing}]
  BY TypeParts DEF Typed, BackupTypeOK, EnvOK
<1>1. ASSUME NEW n \in Names, NEW e \in Environments, BeginRestore(n, e) PROVE BackupTypeOK' /\ Present'
  <2> DEFINE v == [state |-> "restoring", of |-> n, names |-> {}, has |-> {}, lost |-> Standing(n).lost]
  <2>1. Standing(n) \in Folder
    BY <1>1, Folders DEF BeginRestore, Listed
  <2>2. v \in Environment /\ Standing(n).salt \in Sealings
    BY <2>1 DEF Folder, Environment
  <2>3. EnvOK' /\ env'[e] # Nothing
    BY <1>0, <1>1, <2>2, EnvChanged, NothingIsNone DEF BeginRestore
  <2>4. OpOK' /\ op'.phase = "restoring" /\ op'.env = e
    BY <1>1, <2>2 DEF BeginRestore, OpOK, Operation, NoOperation, Phases
  <2>5. Present'
    BY <1>1, <2>3, <2>4 DEF BeginRestore, Present, Typed, Making, Reseals, Restoration
  <2> QED BY <1>0, <1>1, <2>3, <2>4, <2>5, Untouched, TypePartsNext DEF BeginRestore
<1>2. CASE RestoreDatabase
  <2> DEFINE v == [env[op.env] EXCEPT !.names = Standing(op.name).names]
  <2>1. op.env \in Environments /\ env[op.env] \in Environment /\ op.name \in Names /\ Standing(op.name) \in Folder
    BY <1>2, Folders DEF RestoreDatabase, Restoration
  <2>2. v \in Environment
    BY <2>1 DEF Folder, Environment
  <2>3. EnvOK' /\ env'[op.env] # Nothing
    BY <1>0, <1>2, <2>1, <2>2, EnvChanged, NothingIsNone DEF RestoreDatabase
  <2>4. OpOK' /\ op'.phase = "opening" /\ op'.env = op.env
    BY <1>0, <1>2, <2>1 DEF RestoreDatabase, OpOK, Operation, Phases
  <2>5. Present'
    BY <1>2, <2>3, <2>4 DEF RestoreDatabase, Present, Typed, Making, Reseals, Restoration
  <2> QED BY <1>0, <1>2, <2>3, <2>4, <2>5, Untouched, TypePartsNext DEF RestoreDatabase
<1>3. ASSUME NEW h \in Hashes, RestoreFile(h) PROVE BackupTypeOK' /\ Present'
  <2>1. op.env \in Environments /\ env[op.env] \in Environment
    BY <1>3, Folders DEF RestoreFile, Restoration
  <2>2. PICK has \in SUBSET Hashes : env' = [env EXCEPT ![op.env].has = has]
    BY <1>3, <2>1 DEF RestoreFile, Environment
  <2>3. [env[op.env] EXCEPT !.has = has] \in Environment
    BY <2>1, <2>2 DEF Environment
  <2>4. EnvOK' /\ env'[op.env] # Nothing
    BY <1>0, <2>1, <2>2, <2>3, EnvChanged, NothingIsNone
  <2>5. OpOK' /\ op'.phase = "opening" /\ op'.env = op.env
    BY <1>0, <1>3, Edited DEF RestoreFile, Operation
  <2>6. Present'
    BY <1>3, <2>4, <2>5 DEF RestoreFile, Present, Typed, Making, Reseals, Restoration
  <2> QED BY <1>0, <1>3, <2>4, <2>5, <2>6, Untouched, TypePartsNext DEF RestoreFile
<1>4. CASE PlaceRestored
  <2>1. op.env \in Environments /\ env[op.env] \in Environment /\ op.name \in Names
    BY <1>4, Folders DEF PlaceRestored, Restoration
  <2>2. [env[op.env] EXCEPT !.state = "placed"] \in Environment
    BY <2>1 DEF Environment
  <2>3. EnvOK' /\ env'[op.env] # Nothing
    BY <1>0, <1>4, <2>1, <2>2, EnvChanged, NothingIsNone DEF PlaceRestored
  <2>4. OpOK' /\ op'.phase = "restored" /\ op'.env = op.env
    BY <1>0, <1>4, <2>1, GoneTo DEF PlaceRestored, Phases
  <2>5. Present'
    BY <1>4, <2>3, <2>4 DEF PlaceRestored, Present, Typed, Making, Reseals, Restoration
  <2> QED BY <1>0, <1>4, <2>3, <2>4, <2>5, Untouched, TypePartsNext DEF PlaceRestored
<1>5. CASE CheckRestored
  <2>1. op.env \in Environments /\ env[op.env] \in Environment
    BY <1>5, Folders DEF CheckRestored, Restoration
  <2>2. PICK end \in {[env[op.env] EXCEPT !.state = "ready"], env[op.env], Nothing} : env' = [env EXCEPT ![op.env] = end]
    BY <1>5 DEF CheckRestored
  <2>3. end \in Environment \cup {Nothing}
    BY <2>1, <2>2 DEF Environment
  <2>4. EnvOK'
    BY <1>0, <2>1, <2>2, <2>3, EnvChanged
  <2> QED
    BY <1>0, <1>5, <2>4, Stopped, Untouched, TypePartsNext DEF CheckRestored, Present, Typed, Making, Reseals, Restoration
<1>6. CASE FailRestore
  <2>1. op.env \in Environments /\ env[op.env] \in Environment
    BY <1>6, Folders DEF FailRestore, Restoration
  <2>2. PICK left \in {Nothing, env[op.env]} : env' = [env EXCEPT ![op.env] = left]
    BY <1>6 DEF FailRestore, Removed
  <2>3. EnvOK'
    BY <1>0, <2>1, <2>2, EnvChanged
  <2> QED
    BY <1>0, <1>6, <2>3, Stopped, Untouched, TypePartsNext DEF FailRestore, Present, Typed, Making, Reseals, Restoration
<1> QED BY <1>1, <1>2, <1>3, <1>4, <1>5, <1>6 DEF RestoreStep

\* Every step keeps the types, and what the operation works on.
LEMMA BackupTyped == ASSUME Typed, [BackupNext]_backupVars PROVE Typed'
<1> USE DEF folderVars, history
<1>0. BackupTypeOK /\ op \in Operation
  BY DEF Typed, BackupTypeOK
<1>1. [Next]_vars
  BY DEF BackupNext, BackupStep, RemovalStep, CopyStep, ResealStep, RestoreStep, Store, RestartServer, Next,
         BeginBackup, Snapshot, BeginWalk, CopyFile, WriteManifest, PutInPlace, FailBackup, BeginPrune, PrunePartials,
         DeleteBackup, OpenFolder, RemovePiece, EndRemoval,
         BeginCopies, BeginCopy, SendFile, PlaceCopy, RecordCopy, FailCopy, TrimCopies,
         BeginReseal, ResealFile, WriteResealed, FailReseal, SetAside, PutResealed, PutBack, DropLeftover,
         BeginRestore, RestoreDatabase, RestoreFile, PlaceRestored, CheckRestored, FailRestore, backupVars
<1>2. TypeOK'
  BY <1>1, NextTyped DEF Typed
<1>3. CASE Store
  <2>1. OpOK' /\ op'.phase = op.phase /\ op'.name = op.name /\ op'.env = op.env
    <3>1. CASE op.phase \notin {"snapped", "walking"}
      BY <1>0, <1>3, <3>1, Untouched DEF Store
    <3>2. CASE op.phase \in {"snapped", "walking"}
      <4>1. files \in SUBSET Hashes
        BY DEF Typed, TypeOK
      <4>2. op' \in Operation /\ op'.phase = op.phase /\ op'.name = op.name /\ op'.env = op.env
        BY <1>0, <1>3, <3>2, <4>1 DEF Operation, Store
      <4> QED BY <1>0, <3>2, <4>2 DEF OpOK, BackupTypeOK
    <3> QED BY <3>1, <3>2
  <2>2. Present'
    BY <1>3, <2>1 DEF Store, Present, Typed
  <2> QED BY <1>0, <1>2, <1>3, <2>1, <2>2, Untouched, TypePartsNext DEF Store, Typed
<1>4. CASE RestartServer
  <2>1. RemovingOK' /\ KeysOK' /\ HistoryOK'
    BY <1>0, <1>4 DEF RestartServer, RemovingOK, KeysOK, HistoryOK, BackupTypeOK
  <2>2. Present'
    BY <1>4, Stopped DEF RestartServer, Present, Making, Reseals, Restoration
  <2> QED BY <1>0, <1>2, <1>4, <2>1, <2>2, Stopped, Untouched, TypePartsNext DEF RestartServer, Typed
<1>5. CASE UNCHANGED backupVars
  BY <1>0, <1>2, <1>5, Untouched, TypePartsNext DEF backupVars, ownVars, Typed, Present
<1> QED
  BY <1>2, <1>3, <1>4, <1>5, BackupStepTyped, RemovalStepTyped, CopyStepTyped, ResealStepTyped, RestoreStepTyped
  DEF BackupNext, Typed

\* At first there are no backups.
LEMMA BackupInitTyped == BackupInit => Typed
<1> SUFFICES ASSUME BackupInit PROVE Typed
  OBVIOUS
<1>1. TypeOK
  BY InitInv DEF BackupInit, Inv
<1>2. RootOK /\ FarOK /\ EnvOK /\ KeysOK
  BY DEF BackupInit, RootOK, FarOK, EnvOK, KeysOK, Places, FarPlaces
<1>3. OpOK /\ op.phase = "idle"
  BY DEF BackupInit, OpOK, NoOperation, Operation, Phases, Sealings
<1>4. RemovingOK /\ MadeOK /\ HistoryOK
  <2>1. MaxBackups \in Nat
    BY BackupConstants
  <2>2. RemovingOK
    BY DEF BackupInit, RemovingOK
  <2>3. MadeOK
    <3>1. made = 0
      BY DEF BackupInit
    <3> QED BY <2>1, <3>1 DEF MadeOK
  <2>4. HistoryOK
    <3>1. finished = {} /\ doomed = {} /\ aside = {} /\ trimmed = {}
      BY DEF BackupInit
    <3> QED BY <3>1 DEF HistoryOK
  <2> QED BY <2>2, <2>3, <2>4
<1>5. Present
  BY <1>3 DEF BackupInit, Present, Making, Reseals, Restoration
<1> QED BY <1>1, <1>2, <1>3, <1>4, <1>5, TypeParts DEF Typed

\* The folders, the operation and the removals have their types, and what an
\* operation works on is there as long as it works on it (make_backup,
\* reseal_backup, restore_backup, copy_backup).
THEOREM BackupTypeCorrect == BackupSpec => []BackupTypeOK
<1>1. Typed /\ [BackupNext]_backupVars => Typed'
  BY BackupTyped
<1>2. Typed => BackupTypeOK
  BY DEF Typed
<1> QED BY <1>1, <1>2, BackupInitTyped, PTL DEF BackupSpec

-----------------------------------------------------------------------------
(* What was finished stays whole *)

\* Every file in a folder is sealed the way its manifest names.
SealedAs(f) == \A x \in f.has : x[2] = f.salt
Sealed      == \A f \in Places : root[f] # Nothing => SealedAs(root[f])

DoomedOnly == \A r \in removing : r.at[1] \in doomed

StandingWhole == \A n \in Names \ doomed : Standing(n) # Nothing => Whole(Standing(n))

StillThere ==
    \A n \in finished \ (doomed \cup aside) : Standing(n) # Nothing \/ (op.phase = "setaside" /\ op.name = n)

\* A backup on its way has, or is about to copy, what its database refers to.
MakingOK ==
    op.phase \in Making =>
        LET P == root[op.name, "partial"] IN
        /\ P.salt = op.salt
        /\ op.phase \in {"snapped", "walking"} => P.database
        /\ op.phase = "snapped" => P.names \subseteq files \cup op.lost
        /\ op.phase = "walking" =>
              /\ \A h \in P.names \ op.lost : <<h, op.salt>> \in P.has \/ h \in op.todo \cap files
              /\ op.from # 0 /\ Standing(op.from) # Nothing => Standing(op.from).salt = op.salt
        /\ op.phase = "written" => Whole(P)

\* So has a backup that is sealed again what the old folder has.
ResealOK ==
    op.phase \in Reseals =>
        LET S == root[op.name, "resealing"]
            B == Standing(op.name) IN
        /\ S.salt = op.salt
        /\ op.phase = "setaside" => B = Nothing
        /\ op.name \notin doomed =>
              /\ op.phase = "resealing" =>
                    /\ B # Nothing /\ S.lost = B.lost
                    /\ \A h \in B.names \ B.lost : h \in op.todo \/ <<h, op.salt>> \in S.has
              /\ op.phase = "resealed" => Whole(S)
              /\ op.phase = "setaside" => Whole(S) /\ Whole(root[op.name, "replaced"])

KeepInv == Sealed /\ DoomedOnly /\ StandingWhole /\ StillThere /\ MakingOK /\ ResealOK

\* Neither a backup is made nor one sealed again.
LEMMA NotAtWork == ASSUME op.phase \notin Making \cup Reseals PROVE MakingOK /\ ResealOK
BY DEF MakingOK, ResealOK

LEMMA NotAtWorkNext == ASSUME op'.phase \notin Making \cup Reseals PROVE MakingOK' /\ ResealOK'
BY DEF MakingOK, ResealOK

\* The folders are left alone by an operation of another kind.
LEMMA KeepFrame ==
    ASSUME KeepInv, UNCHANGED <<root, removing, finished, doomed, aside>>,
           op.phase \notin Making \cup Reseals, op'.phase \notin Making \cup Reseals
    PROVE  KeepInv'
<1>1. Sealed' /\ DoomedOnly' /\ StandingWhole'
  BY DEF KeepInv, Sealed, SealedAs, DoomedOnly, StandingWhole, Standing, Whole
<1>2. StillThere'
  BY DEF KeepInv, StillThere, Standing, Reseals
<1> QED BY <1>1, <1>2, NotAtWorkNext DEF KeepInv

\* One folder changes.
LEMMA SealedNext ==
    ASSUME Sealed, NEW f \in Places, \A g \in Places \ {f} : root'[g] = root[g],
           root'[f] # Nothing => SealedAs(root'[f])
    PROVE  Sealed'
BY DEF Sealed, SealedAs

\* What stands stays, and the operation is not one between two renames, or stays it.
LEMMA StandingNext ==
    ASSUME StandingWhole, StillThere, \A n \in Names : root'[n, ""] = root[n, ""],
           UNCHANGED <<finished, doomed, aside>>, finished \subseteq Names,
           op.phase # "setaside"
    PROVE  StandingWhole' /\ StillThere'
<1>1. \A n \in Names : Standing(n)' = Standing(n)
  BY DEF Standing
<1>2. StandingWhole'
  BY <1>1 DEF StandingWhole, Whole
<1>3. StillThere'
  BY <1>1 DEF StillThere
<1> QED BY <1>2, <1>3

LEMMA AtPlaces ==
    ASSUME NEW f \in Places, f[2] # "", \A g \in Places \ {f} : root'[g] = root[g]
    PROVE  \A n \in Names : root'[n, ""] = root[n, ""]
BY OtherPlace DEF Suffixes

\* The folder of a backup on its way changes.
LEMMA MakingStep ==
    ASSUME Typed, KeepInv, op.phase \in Making, NEW v \in Folder \cup {Nothing}, v # Nothing => SealedAs(v),
           root' = [root EXCEPT ![<<op.name, "partial">>] = v],
           UNCHANGED <<removing, finished, doomed, aside>>
    PROVE  /\ Sealed' /\ DoomedOnly' /\ StandingWhole' /\ StillThere'
           /\ root'[op.name, "partial"] = v
           /\ \A n \in Names : root'[n, ""] = root[n, ""]
<1> DEFINE f == <<op.name, "partial">>
<1>1. f \in Places /\ f[2] = "partial" /\ BackupTypeOK /\ finished \subseteq Names
  BY Folders DEF Making, Suffixes, Typed, BackupTypeOK
<1>2. root'[f] = v /\ \A g \in Places \ {f} : root'[g] = root[g]
  BY <1>1, RootChanged
<1>3. Sealed'
  BY <1>1, <1>2, SealedNext DEF KeepInv
<1>4. \A n \in Names : root'[n, ""] = root[n, ""]
  BY <1>1, <1>2, AtPlaces
<1>5. StandingWhole' /\ StillThere'
  BY <1>1, <1>4, StandingNext DEF KeepInv, Making
<1> QED BY <1>2, <1>3, <1>4, <1>5 DEF KeepInv, DoomedOnly

\* A rename within a backup takes along removals of that backup.
LEMMA RenamedDoomed ==
    ASSUME DoomedOnly, doomed' = doomed, NEW f, NEW g, f[1] = g[1], Rename(f, g)
    PROVE  DoomedOnly'
<1>1. ASSUME NEW r \in removing' PROVE r.at[1] \in doomed
  <2>1. PICK q \in removing : r = IF q.at = f /\ q.open THEN [q EXCEPT !.at = g] ELSE q
    BY <1>1 DEF Rename
  <2>2. q.at[1] \in doomed
    BY <2>1 DEF DoomedOnly
  <2>3. r.at = q.at \/ (q.at = f /\ r.at = g)
    BY <2>1
  <2> QED BY <2>2, <2>3
<1> QED BY <1>1 DEF DoomedOnly

LEMMA BackupStepKeeps == ASSUME Typed, Typed', Inv, KeepInv, BackupStep PROVE KeepInv'
<1> USE DEF folderVars, history
<1>0. BackupTypeOK /\ op \in Operation /\ finished \subseteq Names
  BY DEF Typed, BackupTypeOK
<1>1. ASSUME NEW s \in Sealings, BeginBackup(s) PROVE KeepInv'
  <2>1. PICK n \in Names : n = made'
    BY <1>0, <1>1, NextName
  <2> DEFINE f == <<n, "partial">>
  <2>2. f \in Places /\ f[2] = "partial"
    BY DEF Places, Suffixes
  <2>3. root' = [root EXCEPT ![f] = NewFolder(s)] /\ NewFolder(s) \in Folder
    BY <1>1, <2>1, NewFolderTyped DEF BeginBackup
  <2>4. root'[f] = NewFolder(s) /\ \A g \in Places \ {f} : root'[g] = root[g]
    BY <1>0, <2>2, <2>3, RootChanged
  <2>5. Sealed'
    BY <2>2, <2>4, SealedNext DEF KeepInv, SealedAs, NewFolder
  <2>6. StandingWhole' /\ StillThere'
    BY <1>0, <1>1, <2>2, <2>4, AtPlaces, StandingNext DEF KeepInv, BeginBackup
  <2>7. op'.name = n /\ op'.phase = "begun" /\ op'.salt = s
    BY <1>1, <2>1 DEF BeginBackup, NoOperation
  <2>8. MakingOK' /\ ResealOK'
    <3>1. ResealOK'
      BY <2>7 DEF ResealOK, Reseals
    <3>2. root'[op'.name, "partial"] = NewFolder(s) /\ NewFolder(s).salt = s
      BY <2>4, <2>7 DEF NewFolder
    <3> QED BY <2>7, <3>1, <3>2 DEF MakingOK
  <2> QED BY <1>1, <2>5, <2>6, <2>8 DEF KeepInv, BeginBackup, DoomedOnly
<1>2. CASE Snapshot
  <2> DEFINE f == <<op.name, "partial">>
  <2> DEFINE N == {h \in Hashes : Referenced(h)}
  <2> DEFINE v == [root[f] EXCEPT !.database = TRUE, !.names = N]
  <2>1. op.name \in Names /\ op.phase \in Making /\ root[f] \in Folder /\ root[f] # Nothing /\ f \in Places
    BY <1>2, Folders, NothingIsNone DEF Snapshot, Making, Suffixes
  <2>2. v \in Folder /\ v.has = root[f].has /\ v.salt = root[f].salt /\ v.database /\ v.names = N
    BY <2>1 DEF Folder
  <2>3. SealedAs(v)
    BY <2>1, <2>2 DEF KeepInv, Sealed, SealedAs
  <2>4. root' = [root EXCEPT ![f] = v]
    BY <1>2 DEF Snapshot
  <2>5. Sealed' /\ DoomedOnly' /\ StandingWhole' /\ StillThere' /\ root'[f] = v
    BY <1>2, <2>1, <2>2, <2>3, <2>4, MakingStep DEF Snapshot
  <2>6. op'.phase = "snapped" /\ op'.name = op.name /\ op'.salt = op.salt
    BY <1>0, <1>2, <2>1, GoneTo DEF Snapshot, Phases
  <2>7. N \subseteq files /\ files' = files
    BY <1>2 DEF Inv, ContentIsStored, Snapshot, vars, blobVars
  <2>8. v.salt = op.salt
    BY <2>1, <2>2 DEF KeepInv, MakingOK
  <2>9. MakingOK' /\ ResealOK'
    <3>1. ResealOK'
      BY <2>6 DEF ResealOK, Reseals
    <3> QED BY <2>2, <2>5, <2>6, <2>7, <2>8, <3>1 DEF MakingOK
  <2> QED BY <2>5, <2>9 DEF KeepInv
<1>3. CASE BeginWalk
  <2> DEFINE P == root[op.name, "partial"]
  <2> DEFINE from == IF \E n \in Names : Latest(n) /\ SameSealing(n, op.salt)
                     THEN CHOOSE n \in Names : Latest(n) ELSE 0
  <2>1. op.phase = "snapped" /\ op.name \in Names /\ P \in Folder
    BY <1>3, Folders DEF BeginWalk, Making
  <2>2. /\ op'.phase = "walking" /\ op'.name = op.name /\ op'.salt = op.salt /\ op'.lost = op.lost
        /\ op'.todo = Hashes /\ op'.from = from
    BY <1>0, <1>3 DEF BeginWalk, Operation
  <2>3. UNCHANGED <<root, files, removing, finished, doomed, aside>>
    BY <1>3 DEF BeginWalk, vars, blobVars
  <2>4. Sealed' /\ DoomedOnly' /\ StandingWhole'
    BY <2>3 DEF KeepInv, Sealed, SealedAs, DoomedOnly, StandingWhole, Standing, Whole
  <2>5. StillThere'
    BY <2>1, <2>3 DEF KeepInv, StillThere, Standing
  <2>6. from # 0 => Standing(from).salt = op.salt
    <3>1. SUFFICES ASSUME NEW n \in Names, Latest(n), SameSealing(n, op.salt)
                   PROVE  Standing(CHOOSE m \in Names : Latest(m)).salt = op.salt
      OBVIOUS
    <3>2. ASSUME NEW m \in Names, Latest(m) PROVE m = n
      <4>1. m <= n /\ n <= m /\ m \in Int /\ n \in Int
        BY <3>1, <3>2 DEF Latest, AllListed, Names
      <4> QED BY <4>1
    <3>3. (CHOOSE m \in Names : Latest(m)) = n
      BY <3>1, <3>2
    <3> QED BY <3>1, <3>3 DEF SameSealing
  <2>7. P.salt = op.salt /\ P.database /\ P.names \subseteq files \cup op.lost /\ P.names \subseteq Hashes
    BY <2>1 DEF KeepInv, MakingOK, Making, Folder
  <2>8. MakingOK'
    BY <2>2, <2>3, <2>6, <2>7 DEF MakingOK, Standing
  <2>9. ResealOK'
    BY <2>2 DEF ResealOK, Reseals
  <2> QED BY <2>4, <2>5, <2>8, <2>9 DEF KeepInv
<1>4. ASSUME NEW h \in Hashes, CopyFile(h) PROVE KeepInv'
  <2> DEFINE f == <<op.name, "partial">>
  <2> DEFINE X == <<h, op.salt>>
  <2>1. op.phase = "walking" /\ op.name \in Names /\ root[f] \in Folder /\ root[f] # Nothing
    BY <1>4, Folders, NothingIsNone DEF CopyFile, Making
  <2>2. /\ op'.phase = "walking" /\ op'.name = op.name /\ op'.salt = op.salt /\ op'.lost = op.lost
        /\ op'.todo = op.todo \ {h} /\ op'.from = op.from
    <3>1. op.todo \ {h} \in SUBSET Hashes
      BY <1>0 DEF Operation
    <3> QED BY <1>0, <1>4, <2>1, <3>1, Edited DEF CopyFile
  <2>3. files' = files /\ UNCHANGED <<removing, finished, doomed, aside>>
    BY <1>4 DEF CopyFile, vars, blobVars
  <2>4. /\ root[f].salt = op.salt /\ root[f].database /\ SealedAs(root[f])
        /\ \A g \in root[f].names \ op.lost : <<g, op.salt>> \in root[f].has \/ g \in op.todo \cap files
        /\ op.from # 0 /\ Standing(op.from) # Nothing => Standing(op.from).salt = op.salt
    <3>1. f \in Places
      BY <2>1 DEF Places, Suffixes
    <3> QED BY <2>1, <3>1 DEF KeepInv, MakingOK, Making, Sealed
  <2>5. PICK v \in Folder : /\ root' = [root EXCEPT ![f] = v]
                            /\ v.has = root[f].has \cup (IF h \in files THEN {X} ELSE {})
                            /\ v.salt = op.salt /\ v.database /\ v.names = root[f].names
    <3>1. CASE h \notin files
      <4>1. root' = root
        BY <1>4, <3>1 DEF CopyFile
      <4>2. root = [root EXCEPT ![f] = root[f]]
        BY TypeParts DEF Typed, RootOK
      <4> QED BY <2>1, <2>4, <3>1, <4>1, <4>2
    <3>2. CASE h \in files
      <4>1. PICK x \in Shared(h) \cup {X} : root' = [root EXCEPT ![f].has = @ \cup {x}]
        BY <1>4, <3>2 DEF CopyFile
      <4>2. x = X
        <5>1. ASSUME x \in Shared(h) PROVE x = X
          <6>1. op.from \in Names /\ op.from # 0 /\ Standing(op.from) # Nothing /\ x \in Standing(op.from).has /\ x[1] = h
            BY <1>0, <5>1 DEF Shared, Operation
          <6>2. Standing(op.from) \in Folder /\ <<op.from, "">> \in Places
            BY <6>1, Folders DEF Suffixes
          <6>3. x \in Hashes \X Sealings
            BY <6>1, <6>2 DEF Folder
          <6>4. x[2] = op.salt
            BY <2>4, <6>1, <6>2 DEF KeepInv, Sealed, SealedAs, Standing
          <6> QED BY <6>1, <6>3, <6>4, PairOf
        <5> QED BY <4>1, <5>1
      <4>3. X \in Hashes \X Sealings
        BY <1>0 DEF Operation
      <4>4. [root[f] EXCEPT !.has = root[f].has \cup {X}] \in Folder
        BY <2>1, <4>3 DEF Folder
      <4>5. root' = [root EXCEPT ![f] = [root[f] EXCEPT !.has = root[f].has \cup {X}]]
        BY <4>1, <4>2
      <4>6. /\ [root[f] EXCEPT !.has = root[f].has \cup {X}].has = root[f].has \cup {X}
            /\ [root[f] EXCEPT !.has = root[f].has \cup {X}].salt = root[f].salt
            /\ [root[f] EXCEPT !.has = root[f].has \cup {X}].database = root[f].database
            /\ [root[f] EXCEPT !.has = root[f].has \cup {X}].names = root[f].names
        BY <2>1 DEF Folder
      <4> QED BY <2>4, <3>2, <4>4, <4>5, <4>6
    <3> QED BY <3>1, <3>2
  <2>6. SealedAs(v)
    BY <2>4, <2>5 DEF SealedAs
  <2>7. Sealed' /\ DoomedOnly' /\ StandingWhole' /\ StillThere' /\ root'[f] = v /\ \A n \in Names : root'[n, ""] = root[n, ""]
    BY <2>1, <2>3, <2>5, <2>6, MakingStep DEF Making
  <2>8. op.from # 0 /\ root'[op.from, ""] # Nothing => root'[op.from, ""].salt = op.salt
    <3>1. op.from # 0 => root'[op.from, ""] = root[op.from, ""]
      BY <1>0, <2>7 DEF Operation
    <3> QED BY <2>4, <3>1 DEF Standing
  <2>9. \A g \in v.names \ op.lost : <<g, op.salt>> \in v.has \/ g \in op'.todo \cap files
    BY <2>2, <2>4, <2>5
  <2>10. MakingOK'
    BY <2>2, <2>3, <2>5, <2>7, <2>8, <2>9 DEF MakingOK, Standing
  <2>11. ResealOK'
    BY <2>2 DEF ResealOK, Reseals
  <2> QED BY <2>7, <2>10, <2>11 DEF KeepInv
<1>5. CASE WriteManifest
  <2> DEFINE f == <<op.name, "partial">>
  <2> DEFINE v == [root[f] EXCEPT !.manifest = TRUE, !.kept = root[f].has, !.lost = op.lost]
  <2>1. op.phase = "walking" /\ op.todo = {} /\ op.name \in Names /\ root[f] \in Folder /\ root[f] # Nothing /\ f \in Places
    BY <1>5, Folders, NothingIsNone DEF WriteManifest, Making, Suffixes
  <2>2. /\ root[f].salt = op.salt /\ root[f].database /\ SealedAs(root[f])
        /\ \A g \in root[f].names \ op.lost : <<g, op.salt>> \in root[f].has
    BY <2>1 DEF KeepInv, MakingOK, Making, Sealed
  <2>3. /\ v \in Folder /\ v.has = root[f].has /\ v.salt = root[f].salt /\ v.database = root[f].database
        /\ v.names = root[f].names /\ v.manifest /\ v.lost = op.lost
    BY <1>0, <2>1 DEF Folder, Operation
  <2>4. SealedAs(v) /\ Whole(v)
    BY <2>2, <2>3, NothingIsNone DEF SealedAs, Whole
  <2>5. root' = [root EXCEPT ![f] = v] /\ UNCHANGED <<removing, finished, doomed, aside>>
    BY <1>5 DEF WriteManifest
  <2>6. Sealed' /\ DoomedOnly' /\ StandingWhole' /\ StillThere' /\ root'[f] = v
    BY <2>1, <2>3, <2>4, <2>5, MakingStep DEF Making
  <2>7. op'.phase = "written" /\ op'.name = op.name /\ op'.salt = op.salt
    BY <1>0, <1>5, <2>1, GoneTo DEF WriteManifest, Phases
  <2>8. MakingOK' /\ ResealOK'
    <3>1. ResealOK'
      BY <2>7 DEF ResealOK, Reseals
    <3>2. root'[op'.name, "partial"] = v
      BY <2>6, <2>7
    <3> QED BY <2>2, <2>3, <2>4, <2>7, <3>1, <3>2 DEF MakingOK
  <2> QED BY <2>6, <2>8 DEF KeepInv
<1>6. CASE PutInPlace
  <2> DEFINE f == <<op.name, "partial">>
  <2> DEFINE g == <<op.name, "">>
  <2>1. op.phase = "written" /\ op.name \in Names /\ f \in Places /\ g \in Places /\ f # g /\ g[2] = ""
    BY <1>6, Folders DEF PutInPlace, Suffixes
  <2>2. Rename(f, g)
    BY <1>6 DEF PutInPlace
  <2>3. /\ root'[g] = root[f] /\ root'[f] = Nothing /\ \A p \in Places \ {f, g} : root'[p] = root[p]
        /\ \A r \in removing' : \E q \in removing : r.at = q.at \/ (q.at = f /\ r.at = g)
    <3> HIDE DEF f, g
    <3>1. root'[g] = root[f] /\ root'[f] = Nothing /\ \A p \in Places \ {f, g} : root'[p] = root[p]
      BY <2>1, <2>2, Renamed
    <3>2. ASSUME NEW r \in removing' PROVE \E q \in removing : r.at = q.at \/ (q.at = f /\ r.at = g)
      <4>1. PICK q \in removing : r = IF q.at = f /\ q.open THEN [q EXCEPT !.at = g] ELSE q
        BY <2>2, <3>2 DEF Rename
      <4>2. r.at = q.at \/ (q.at = f /\ r.at = g)
        BY <4>1
      <4> QED BY <4>2
    <3> QED BY <3>1, <3>2
  <2>4. UNCHANGED <<doomed, aside>> /\ finished' = finished \cup {op.name}
    BY <1>6 DEF PutInPlace
  <2>5. root[f] # Nothing /\ Whole(root[f])
    BY <2>1 DEF Typed, Present, KeepInv, MakingOK, Making
  <2>6. \A n \in Names \ {op.name} : root'[n, ""] = root[n, ""]
    <3>1. ASSUME NEW n \in Names \ {op.name} PROVE <<n, "">> \in Places \ {f, g}
      BY DEF Places, Suffixes
    <3> QED BY <2>3, <3>1
  <2>7. Sealed'
    <3> HIDE DEF f, g
    <3>1. ASSUME NEW p \in Places, root'[p] # Nothing PROVE \E q \in Places : root'[p] = root[q]
      BY <2>1, <2>3, <3>1
    <3> QED BY <3>1 DEF KeepInv, Sealed, SealedAs
  <2>8. DoomedOnly'
    <3>1. DoomedOnly /\ doomed' = doomed /\ f[1] = g[1]
      BY <2>4 DEF KeepInv
    <3> QED BY <2>2, <3>1, RenamedDoomed
  <2>9. StandingWhole'
    <3>1. ASSUME NEW n \in Names \ doomed, root'[n, ""] # Nothing PROVE Whole(root'[n, ""])
      <4>1. CASE n = op.name
        BY <2>3, <2>5, <4>1
      <4>2. CASE n # op.name
        BY <2>6, <3>1, <4>2 DEF KeepInv, StandingWhole, Standing
      <4> QED BY <4>1, <4>2
    <3> QED BY <2>4, <3>1 DEF StandingWhole, Standing
  <2>10. StillThere'
    BY <1>0, <2>1, <2>3, <2>4, <2>5, <2>6 DEF KeepInv, StillThere, Standing
  <2>11. op'.phase = "placed"
    BY <1>0, <1>6, <2>1, GoneTo DEF PutInPlace, Phases
  <2> QED BY <2>7, <2>8, <2>9, <2>10, <2>11, NotAtWorkNext DEF KeepInv, Making, Reseals
<1>7. CASE FailBackup
  <2> DEFINE f == <<op.name, "partial">>
  <2>1. op.phase \in Making /\ op.name \in Names /\ f \in Places /\ root[f] \in Folder
    BY <1>7, <1>0, Folders DEF FailBackup, Making, Suffixes
  <2>2. PICK left \in {Nothing, root[f]} : root' = [root EXCEPT ![f] = left]
    BY <1>7, <2>1 DEF FailBackup, Removed
  <2>3. left \in Folder \cup {Nothing} /\ (left # Nothing => SealedAs(left))
    BY <2>1, <2>2 DEF KeepInv, Sealed
  <2>4. UNCHANGED <<removing, finished, doomed, aside>>
    BY <1>7 DEF FailBackup
  <2>5. Sealed' /\ DoomedOnly' /\ StandingWhole' /\ StillThere'
    BY <2>1, <2>2, <2>3, <2>4, MakingStep
  <2> QED BY <1>7, <2>5, Stopped, NotAtWorkNext DEF FailBackup, KeepInv, Making, Reseals
<1>8. CASE BeginPrune
  <2> DEFINE old == AllListed \ Newest(AllListed)
  <2>1. op.phase = "placed" /\ op.name \in Names /\ UNCHANGED <<root, finished, aside>> /\ doomed' = doomed \cup old
    BY <1>8, Folders DEF BeginPrune
  <2>2. DoomedOnly'
    <3>1. removing' = removing \cup {[at |-> <<n, "">>, open |-> FALSE, pruned |-> TRUE] : n \in old}
      BY <1>8 DEF BeginPrune
    <3>2. ASSUME NEW r \in removing', r \notin removing PROVE r.at[1] \in old
      <4>1. PICK n \in old : r = [at |-> <<n, "">>, open |-> FALSE, pruned |-> TRUE]
        BY <3>1, <3>2
      <4> QED BY <4>1
    <3> QED BY <2>1, <3>2 DEF KeepInv, DoomedOnly
  <2>3. Sealed' /\ StandingWhole' /\ StillThere'
    BY <2>1 DEF KeepInv, Sealed, SealedAs, StandingWhole, Standing, Whole, StillThere
  <2>4. op'.phase = "pruning"
    BY <1>0, <1>8, <2>1, GoneTo DEF BeginPrune, Phases
  <2> QED BY <2>2, <2>3, <2>4, NotAtWorkNext DEF KeepInv, Making, Reseals
<1>9. CASE PrunePartials
  <2>1. op.phase = "pruning" /\ op.name \in Names
    BY <1>9, Folders DEF PrunePartials
  <2>2. root \in [Places -> Folder \cup {Nothing}] /\ UNCHANGED <<removing, finished, doomed, aside>>
    BY <1>9, TypeParts DEF PrunePartials, Typed, RootOK
  <2>3. PICK kept \in SUBSET {f \in Places : f[2] # "" /\ root[f] # Nothing} :
          root' = [f \in DOMAIN root |-> IF f[2] = "" \/ f \in kept THEN root[f] ELSE Nothing]
    BY <1>9 DEF PrunePartials, Places
  <2>4. \A f \in Places : root'[f] \in {root[f], Nothing}
    BY <2>2, <2>3
  <2>5. \A n \in Names : root'[n, ""] = root[n, ""]
    <3>1. ASSUME NEW n \in Names PROVE <<n, "">> \in Places /\ <<n, "">>[2] = ""
      BY DEF Places, Suffixes
    <3> QED BY <2>2, <2>3, <3>1
  <2>6. Sealed'
    BY <2>4 DEF KeepInv, Sealed, SealedAs
  <2>7. StandingWhole' /\ StillThere'
    BY <1>0, <2>1, <2>2, <2>5, StandingNext DEF KeepInv
  <2>8. op'.phase = "pruned"
    BY <1>0, <1>9, <2>1, GoneTo DEF PrunePartials, Phases
  <2> QED BY <2>2, <2>6, <2>7, <2>8, NotAtWorkNext DEF KeepInv, DoomedOnly, Making, Reseals
<1> QED BY <1>1, <1>2, <1>3, <1>4, <1>5, <1>6, <1>7, <1>8, <1>9 DEF BackupStep

\* A removal takes something out of the folder of a backup that is doomed.
LEMMA RemovedFrom ==
    ASSUME Typed, KeepInv, NEW r \in removing, root[r.at] # Nothing, NEW v \in Folder \cup {Nothing},
           v # Nothing => v.has \subseteq root[r.at].has /\ v.salt = root[r.at].salt,
           root' = [root EXCEPT ![r.at] = v], removing' \subseteq removing,
           UNCHANGED <<files, op, finished, doomed, aside>>
    PROVE  KeepInv'
<1>1. r.at \in Places /\ r.at[2] \in {"", "replaced"} /\ r.at[1] \in doomed
  <2>1. r.at \in Places
    BY TypeParts DEF Typed, RemovingOK
  <2> QED BY <2>1 DEF Typed, Present, KeepInv, DoomedOnly
<1>2. BackupTypeOK /\ op \in Operation
  BY DEF Typed, BackupTypeOK
<1>3. root'[r.at] = v /\ \A g \in Places \ {r.at} : root'[g] = root[g]
  BY <1>1, <1>2, RootChanged
<1>4. Sealed'
  <2>1. v # Nothing => SealedAs(v)
    BY <1>1 DEF KeepInv, Sealed, SealedAs
  <2>2. root'[r.at] # Nothing => SealedAs(root'[r.at])
    BY <1>3, <2>1
  <2> QED BY <1>1, <1>3, <2>2, SealedNext DEF KeepInv
<1>5. \A n \in Names \ doomed : \A s \in Suffixes : root'[n, s] = root[n, s]
  <2>1. ASSUME NEW n \in Names \ doomed, NEW s \in Suffixes PROVE <<n, s>> \in Places \ {r.at}
    <3>1. <<n, s>>[1] = n /\ n # r.at[1] /\ <<n, s>> \in Places
      BY <1>1 DEF Places
    <3> QED BY <3>1
  <2> QED BY <1>3, <2>1
<1>6. StandingWhole'
  <2>1. \A n \in Names \ doomed : root'[n, ""] = root[n, ""]
    BY <1>5 DEF Suffixes
  <2>2. \A n \in Names \ doomed : root'[n, ""] # Nothing => Whole(root'[n, ""])
    BY <2>1 DEF KeepInv, StandingWhole, Standing
  <2> QED BY <2>2 DEF StandingWhole, Standing
<1>7. StillThere'
  <2>1. \A n \in Names \ doomed : root'[n, ""] = root[n, ""]
    BY <1>5 DEF Suffixes
  <2> QED BY <1>2, <2>1 DEF KeepInv, StillThere, Standing, BackupTypeOK
<1>8. \A n \in Names : \A s \in {"partial", "resealing"} : root'[n, s] = root[n, s]
  <2>1. ASSUME NEW n \in Names, NEW s \in {"partial", "resealing"} PROVE <<n, s>> \in Places \ {r.at}
    BY <1>1, OtherPlace DEF Suffixes
  <2> QED BY <1>3, <2>1
<1>9. MakingOK'
  <2>1. SUFFICES ASSUME op.phase \in Making PROVE MakingOK'
    BY DEF MakingOK
  <2>2. op.name \in Names
    BY <2>1, Folders DEF Making
  <2>3. root'[op.name, "partial"] = root[op.name, "partial"]
    BY <1>8, <2>2
  <2>4. ASSUME op.phase = "walking", op.from # 0, root'[op.from, ""] # Nothing
        PROVE  root'[op.from, ""].salt = op.salt
    <3>1. op.from \in Names /\ <<op.from, "">> \in Places
      BY <1>2, <2>4 DEF Operation, Places, Suffixes
    <3>2. root[op.from, ""] # Nothing
      BY <1>3, <2>4, <3>1
    <3>3. root[op.from, ""].salt = op.salt
      BY <2>4, <3>2 DEF KeepInv, MakingOK, Making, Standing
    <3> QED BY <1>3, <2>4, <3>1, <3>3
  <2> QED BY <2>3, <2>4 DEF KeepInv, MakingOK, Standing, Whole
<1>10. ResealOK'
  <2>1. SUFFICES ASSUME op.phase \in Reseals PROVE ResealOK'
    BY DEF ResealOK
  <2>2. op.name \in Names
    BY <2>1, Folders DEF Reseals
  <2>3. root'[op.name, "resealing"] = root[op.name, "resealing"]
    BY <1>8, <2>2
  <2>4. op.phase = "setaside" => root'[op.name, ""] = Nothing
    <3>1. ASSUME op.phase = "setaside" PROVE <<op.name, "">> \in Places \ {r.at}
      <4>1. root[op.name, ""] = Nothing
        BY <3>1 DEF KeepInv, ResealOK, Reseals, Standing
      <4> QED BY <2>2, <4>1, Folders DEF Suffixes
    <3> QED BY <1>3, <3>1 DEF KeepInv, ResealOK, Reseals, Standing
  <2>5. op.name \notin doomed =>
          root'[op.name, ""] = root[op.name, ""] /\ root'[op.name, "replaced"] = root[op.name, "replaced"]
    BY <1>5, <2>2 DEF Suffixes
  <2> QED BY <2>1, <2>3, <2>4, <2>5 DEF KeepInv, ResealOK, Standing, Whole
<1>11. DoomedOnly'
  BY DEF KeepInv, DoomedOnly
<1> QED BY <1>4, <1>6, <1>7, <1>9, <1>10, <1>11 DEF KeepInv

LEMMA RemovalStepKeeps == ASSUME Typed, Typed', KeepInv, RemovalStep PROVE KeepInv'
<1> USE DEF folderVars, history
<1>1. ASSUME NEW n \in Names, DeleteBackup(n) PROVE KeepInv'
  <2>1. op.phase = "idle" /\ op' = op /\ UNCHANGED <<root, finished, aside>> /\ doomed' = doomed \cup {n}
    BY <1>1 DEF DeleteBackup
  <2>2. DoomedOnly'
    <3>1. \A r \in removing' : r \in removing \/ r = [at |-> <<n, "">>, open |-> FALSE, pruned |-> FALSE]
      BY <1>1 DEF DeleteBackup
    <3>2. [at |-> <<n, "">>, open |-> FALSE, pruned |-> FALSE].at[1] = n
      OBVIOUS
    <3> QED BY <2>1, <3>1, <3>2 DEF KeepInv, DoomedOnly
  <2>3. Sealed' /\ StandingWhole' /\ StillThere'
    BY <2>1 DEF KeepInv, Sealed, SealedAs, StandingWhole, Standing, Whole, StillThere
  <2> QED BY <2>1, <2>2, <2>3, NotAtWorkNext DEF KeepInv, Making, Reseals
<1>2. ASSUME NEW r \in removing, OpenFolder(r) PROVE KeepInv'
  <2>1. UNCHANGED <<root, files, op, finished, doomed, aside>>
    BY <1>2 DEF OpenFolder, vars, blobVars
  <2>2. DoomedOnly'
    <3>1. \A q \in removing' : q \in removing \/ q = [r EXCEPT !.open = TRUE]
      BY <1>2 DEF OpenFolder
    <3>2. r \in [at: Places, open: BOOLEAN, pruned: BOOLEAN]
      BY TypeParts DEF Typed, RemovingOK
    <3>3. [r EXCEPT !.open = TRUE].at = r.at
      BY <3>2
    <3> QED BY <2>1, <3>1, <3>3 DEF KeepInv, DoomedOnly
  <2>3. Sealed' /\ StandingWhole' /\ StillThere'
    BY <2>1 DEF KeepInv, Sealed, SealedAs, StandingWhole, Standing, Whole, StillThere
  <2>4. MakingOK' /\ ResealOK'
    BY <2>1 DEF KeepInv, MakingOK, ResealOK, Standing, Whole
  <2> QED BY <2>2, <2>3, <2>4 DEF KeepInv
<1>3. ASSUME NEW r \in removing, RemovePiece(r) PROVE KeepInv'
  <2>1. root[r.at] # Nothing /\ removing' = removing /\ UNCHANGED <<files, op, finished, doomed, aside>>
    BY <1>3 DEF RemovePiece, vars, blobVars
  <2>2. root[r.at] \in Folder
    BY <2>1, TypeParts DEF Typed, RootOK, RemovingOK
  <2>3. PICK v \in Folder : root' = [root EXCEPT ![r.at] = v] /\ v.has \subseteq root[r.at].has /\ v.salt = root[r.at].salt
    BY <1>3, <2>2, PieceRemoved
  <2> QED BY <2>1, <2>3, RemovedFrom
<1>4. ASSUME NEW r \in removing, EndRemoval(r) PROVE KeepInv'
  <2>1. removing' \subseteq removing /\ UNCHANGED <<files, op, finished, doomed, aside>>
    BY <1>4 DEF EndRemoval, vars, blobVars
  <2>2. CASE UNCHANGED root
    BY <2>1, <2>2 DEF KeepInv, Sealed, SealedAs, DoomedOnly, StandingWhole, Standing, Whole, StillThere, MakingOK, ResealOK
  <2>3. CASE root[r.at] # Nothing /\ root' = [root EXCEPT ![r.at] = Nothing]
    BY <2>1, <2>3, RemovedFrom
  <2> QED BY <1>4, <2>2, <2>3 DEF EndRemoval, Emptied
<1> QED BY <1>1, <1>2, <1>3, <1>4 DEF RemovalStep

LEMMA CopyStepKeeps == ASSUME Typed, Typed', KeepInv, CopyStep PROVE KeepInv'
<1> USE DEF folderVars, history
<1>0. BackupTypeOK /\ op \in Operation
  BY DEF Typed, BackupTypeOK
<1>1. CASE BeginCopies
  <2>1. op'.phase \in {"idle", "copying"}
    BY <1>1, Stopped DEF BeginCopies, NoOperation
  <2> QED BY <1>1, <2>1, KeepFrame DEF BeginCopies, Making, Reseals
<1>2. ASSUME NEW n \in Names, BeginCopy(n) PROVE KeepInv'
  <2>1. op'.phase \in {"sent", "sending"}
    BY <1>0, <1>2 DEF BeginCopy, Operation
  <2> QED BY <1>2, <2>1, KeepFrame DEF BeginCopy, Making, Reseals
<1>3. ASSUME NEW h \in Hashes, SendFile(h) PROVE KeepInv'
  <2>1. op'.phase = "sending"
    BY <1>0, <1>3 DEF SendFile, Operation
  <2> QED BY <1>3, <2>1, KeepFrame DEF SendFile, Making, Reseals
<1>4. CASE PlaceCopy
  <2>1. op'.phase = "sent"
    BY <1>0, <1>4 DEF PlaceCopy, Goto, Operation
  <2> QED BY <1>4, <2>1, KeepFrame DEF PlaceCopy, Making, Reseals
<1>5. CASE RecordCopy
  <2> DEFINE f == <<op.name, "">>
  <2> DEFINE v == [root[f] EXCEPT !.record = TRUE]
  <2>1. op.phase = "sent" /\ op'.phase = "copying" /\ f \in Places /\ root[f] \in Folder
    BY <1>0, <1>5, Folders DEF RecordCopy, Operation, Standing, Suffixes
  <2>2. /\ v \in Folder /\ v # Nothing /\ v.has = root[f].has /\ v.salt = root[f].salt /\ v.names = root[f].names
        /\ v.lost = root[f].lost /\ v.database = root[f].database /\ v.manifest = root[f].manifest
    BY <2>1, NothingIsNone DEF Folder
  <2>3. root'[f] = v /\ \A g \in Places \ {f} : root'[g] = root[g]
    BY <1>0, <1>5, <2>1, <2>2, RootChanged DEF RecordCopy
  <2>4. UNCHANGED <<removing, finished, doomed, aside>>
    BY <1>5 DEF RecordCopy
  <2>5. root[f] # Nothing
    BY <2>1, NothingIsNone
  <2>6. Sealed'
    <3>1. SealedAs(v)
      BY <2>1, <2>2, <2>5 DEF KeepInv, Sealed, SealedAs
    <3> QED BY <2>1, <2>3, <3>1, SealedNext DEF KeepInv
  <2>7. StandingWhole'
    <3>1. ASSUME NEW n \in Names \ doomed, root'[n, ""] # Nothing PROVE Whole(root'[n, ""])
      <4>1. CASE n = op.name
        <5>1. Whole(root[f])
          BY <2>5, <4>1 DEF KeepInv, StandingWhole, Standing
        <5> QED BY <2>2, <2>3, <4>1, <5>1 DEF Whole
      <4>2. CASE n # op.name
        <5>1. <<n, "">> \in Places \ {f}
          BY <4>2 DEF Places, Suffixes
        <5> QED BY <2>3, <3>1, <5>1 DEF KeepInv, StandingWhole, Standing
      <4> QED BY <4>1, <4>2
    <3> QED BY <2>4, <3>1 DEF StandingWhole, Standing
  <2>8. StillThere'
    <3>1. \A n \in Names : root[n, ""] # Nothing => root'[n, ""] # Nothing
      <4>1. ASSUME NEW n \in Names PROVE <<n, "">> \in Places
        BY DEF Places, Suffixes
      <4> QED BY <2>2, <2>3, <4>1
    <3> QED BY <1>0, <2>1, <2>4, <3>1 DEF KeepInv, StillThere, Standing, BackupTypeOK
  <2> QED BY <2>1, <2>4, <2>6, <2>7, <2>8, NotAtWorkNext DEF KeepInv, DoomedOnly, Making, Reseals
<1>6. CASE FailCopy
  BY <1>6, Stopped, KeepFrame DEF FailCopy, Making, Reseals
<1>7. CASE TrimCopies
  BY <1>7, Stopped, KeepFrame DEF TrimCopies, Making, Reseals
<1> QED BY <1>1, <1>2, <1>3, <1>4, <1>5, <1>6, <1>7 DEF CopyStep

LEMMA RestoreStepKeeps == ASSUME Typed, Typed', KeepInv, RestoreStep PROVE KeepInv'
<1> USE DEF folderVars, history
<1>0. BackupTypeOK /\ op \in Operation
  BY DEF Typed, BackupTypeOK
<1>1. ASSUME NEW n \in Names, NEW e \in Environments, BeginRestore(n, e) PROVE KeepInv'
  <2>1. op'.phase = "restoring"
    BY <1>1 DEF BeginRestore, NoOperation
  <2> QED BY <1>1, <2>1, KeepFrame DEF BeginRestore, Making, Reseals
<1>2. CASE RestoreDatabase
  <2>1. op'.phase = "opening"
    BY <1>0, <1>2 DEF RestoreDatabase, Operation
  <2> QED BY <1>2, <2>1, KeepFrame DEF RestoreDatabase, Making, Reseals
<1>3. ASSUME NEW h \in Hashes, RestoreFile(h) PROVE KeepInv'
  <2>1. op'.phase = "opening"
    BY <1>0, <1>3 DEF RestoreFile, Operation
  <2> QED BY <1>3, <2>1, KeepFrame DEF RestoreFile, Making, Reseals
<1>4. CASE PlaceRestored
  <2>1. op'.phase = "restored"
    BY <1>0, <1>4 DEF PlaceRestored, Goto, Operation
  <2> QED BY <1>4, <2>1, KeepFrame DEF PlaceRestored, Making, Reseals
<1>5. CASE CheckRestored
  BY <1>5, Stopped, KeepFrame DEF CheckRestored, Making, Reseals
<1>6. CASE FailRestore
  BY <1>6, Stopped, KeepFrame DEF FailRestore, Making, Reseals
<1> QED BY <1>1, <1>2, <1>3, <1>4, <1>5, <1>6 DEF RestoreStep

\* The folder of a backup that is sealed again changes.
LEMMA ResealedFolder ==
    ASSUME Typed, KeepInv, op.phase \in Reseals \ {"setaside"}, NEW v \in Folder \cup {Nothing}, v # Nothing => SealedAs(v),
           root' = [root EXCEPT ![<<op.name, "resealing">>] = v],
           UNCHANGED <<removing, finished, doomed, aside>>
    PROVE  /\ Sealed' /\ DoomedOnly' /\ StandingWhole' /\ StillThere'
           /\ root'[op.name, "resealing"] = v
           /\ \A n \in Names : root'[n, ""] = root[n, ""]
<1> DEFINE f == <<op.name, "resealing">>
<1>1. f \in Places /\ f[2] = "resealing" /\ BackupTypeOK /\ finished \subseteq Names
  BY Folders DEF Reseals, Suffixes, Typed, BackupTypeOK
<1>2. root'[f] = v /\ \A g \in Places \ {f} : root'[g] = root[g]
  BY <1>1, RootChanged
<1>3. Sealed'
  BY <1>1, <1>2, SealedNext DEF KeepInv
<1>4. \A n \in Names : root'[n, ""] = root[n, ""]
  BY <1>1, <1>2, AtPlaces
<1>5. StandingWhole' /\ StillThere'
  BY <1>1, <1>4, StandingNext DEF KeepInv
<1> QED BY <1>2, <1>3, <1>4, <1>5 DEF KeepInv, DoomedOnly

\* A folder takes the name of the backup.
LEMMA PutUnderName ==
    ASSUME Typed, KeepInv, op.name \in Names, NEW s \in Suffixes \ {""}, Rename(<<op.name, s>>, <<op.name, "">>),
           op.name \notin doomed => Whole(root[op.name, s]),
           UNCHANGED <<finished, doomed, aside>>, op'.phase \notin Making \cup Reseals
    PROVE  KeepInv'
<1> DEFINE f == <<op.name, s>>
<1> DEFINE g == <<op.name, "">>
<1>1. f \in Places /\ g \in Places /\ g[2] = "" /\ f # g /\ f[1] = g[1]
  BY DEF Places, Suffixes
<1>2. /\ root'[g] = root[f] /\ root'[f] = Nothing /\ root[f] # Nothing
      /\ \A p \in Places \ {f, g} : root'[p] = root[p]
  <2>1. Rename(f, g)
    OBVIOUS
  <2> HIDE DEF f, g
  <2>2. root[f] # Nothing
    BY <2>1 DEF Rename
  <2> QED BY <1>1, <2>1, <2>2, Renamed
<1>3. Sealed'
  <2>1. ASSUME NEW p \in Places, root'[p] # Nothing PROVE SealedAs(root'[p])
    <3>1. SealedAs(root[f])
      BY <1>1, <1>2 DEF KeepInv, Sealed
    <3>2. p \notin {f, g} => SealedAs(root'[p])
      BY <1>2, <2>1 DEF KeepInv, Sealed
    <3> QED BY <1>2, <2>1, <3>1, <3>2
  <2> QED BY <2>1 DEF Sealed, SealedAs
<1>4. DoomedOnly'
  BY <1>1, RenamedDoomed DEF KeepInv
<1>5. \A n \in Names \ {op.name} : root'[n, ""] = root[n, ""]
  <2>1. ASSUME NEW n \in Names \ {op.name} PROVE <<n, "">> \in Places \ {f, g}
    BY DEF Places, Suffixes
  <2> QED BY <1>2, <2>1
<1>6. StandingWhole'
  <2>1. ASSUME NEW n \in Names \ doomed, root'[n, ""] # Nothing PROVE Whole(root'[n, ""])
    <3>1. CASE n = op.name
      BY <1>2, <3>1
    <3>2. CASE n # op.name
      BY <1>5, <2>1, <3>2 DEF KeepInv, StandingWhole, Standing
    <3> QED BY <3>1, <3>2
  <2> QED BY <2>1 DEF StandingWhole, Standing
<1>7. StillThere'
  <2>1. finished \subseteq Names
    BY DEF Typed, BackupTypeOK
  <2> QED BY <1>2, <1>5, <2>1 DEF KeepInv, StillThere, Standing
<1> QED BY <1>3, <1>4, <1>6, <1>7, NotAtWorkNext DEF KeepInv

LEMMA ResealStepKeeps == ASSUME Typed, Typed', KeepInv, ResealStep PROVE KeepInv'
<1> USE DEF folderVars, history
<1>0. BackupTypeOK /\ op \in Operation /\ finished \subseteq Names
  BY DEF Typed, BackupTypeOK
<1>1. ASSUME NEW n \in Names, NEW s \in Salts, BeginReseal(n, s) PROVE KeepInv'
  <2> DEFINE f == <<n, "resealing">>
  <2> DEFINE g == <<n, "replaced">>
  <2> DEFINE v == [NewFolder(s) EXCEPT !.lost = Standing(n).lost]
  <2>1. op.phase = "idle" /\ Standing(n) # Nothing /\ Standing(n) \in Folder /\ s \in Sealings
    BY <1>1, Folders DEF BeginReseal, Listed, Sealings
  <2>2. f \in Places /\ g \in Places /\ f # g /\ f[2] = "resealing" /\ g[2] = "replaced"
    BY DEF Places, Suffixes
  <2>3. root \in [Places -> Folder \cup {Nothing}] /\ root' = [root EXCEPT ![f] = v, ![g] = Nothing]
    BY <1>1, TypeParts DEF BeginReseal, Typed, RootOK
  <2>4. v.has = {} /\ v.salt = s /\ v.lost = Standing(n).lost
    BY DEF NewFolder
  <2>5. root'[f] = v /\ root'[g] = Nothing /\ \A p \in Places \ {f, g} : root'[p] = root[p]
    BY <2>2, <2>3
  <2>6. Sealed'
    <3>1. SealedAs(v)
      BY <2>4 DEF SealedAs
    <3> QED BY <2>5, <3>1 DEF KeepInv, Sealed, SealedAs
  <2>7. \A m \in Names : root'[m, ""] = root[m, ""]
    <3>1. ASSUME NEW m \in Names PROVE <<m, "">> \in Places \ {f, g}
      BY DEF Places, Suffixes
    <3> QED BY <2>5, <3>1
  <2>8. UNCHANGED <<removing, finished, doomed, aside>>
    BY <1>1 DEF BeginReseal
  <2>9. StandingWhole' /\ StillThere'
    BY <1>0, <2>1, <2>7, <2>8, StandingNext DEF KeepInv
  <2>10. op'.phase = "resealing" /\ op'.name = n /\ op'.salt = s /\ op'.todo = Hashes
    BY <1>1 DEF BeginReseal, NoOperation
  <2>11. ResealOK'
    <3>1. root'[op'.name, "resealing"] = v /\ root'[op'.name, ""] = root[n, ""]
      BY <2>5, <2>7, <2>10
    <3>2. root[n, ""].names \subseteq Hashes
      BY <2>1 DEF Folder, Standing
    <3> QED BY <2>1, <2>4, <2>8, <2>10, <3>1, <3>2 DEF ResealOK, Standing
  <2>12. MakingOK'
    BY <2>10 DEF MakingOK, Making
  <2> QED BY <2>6, <2>8, <2>9, <2>11, <2>12 DEF KeepInv, DoomedOnly
<1>2. ASSUME NEW h \in Hashes, ResealFile(h) PROVE KeepInv'
  <2> DEFINE f == <<op.name, "resealing">>
  <2> DEFINE X == <<h, op.salt>>
  <2> DEFINE B == root[op.name, ""]
  <2>1. op.phase = "resealing" /\ op.name \in Names /\ f \in Places /\ root[f] \in Folder /\ root[f] # Nothing /\ B # Nothing
    BY <1>2, Folders, NothingIsNone DEF ResealFile, Reseals, Suffixes, Standing
  <2>2. op'.phase = "resealing" /\ op'.name = op.name /\ op'.salt = op.salt /\ op'.todo = op.todo \ {h}
    <3>1. op.todo \ {h} \in SUBSET Hashes
      BY <1>0 DEF Operation
    <3> QED BY <1>0, <1>2, <2>1, <3>1, Edited DEF ResealFile
  <2>3. UNCHANGED <<removing, finished, doomed, aside>>
    BY <1>2 DEF ResealFile
  <2>4. root[f].salt = op.salt /\ SealedAs(root[f])
    BY <2>1 DEF KeepInv, ResealOK, Reseals, Sealed
  <2>5. PICK v \in Folder : /\ root' = [root EXCEPT ![f] = v]
                            /\ v.has = root[f].has \cup (IF \E x \in B.has : x[1] = h THEN {X} ELSE {})
                            /\ v.salt = op.salt /\ v.lost = root[f].lost
    <3>1. CASE ~\E x \in B.has : x[1] = h
      <4>1. root' = root
        BY <1>2, <3>1 DEF ResealFile, Standing
      <4>2. root = [root EXCEPT ![f] = root[f]]
        BY TypeParts DEF Typed, RootOK
      <4> QED BY <2>1, <2>4, <3>1, <4>1, <4>2
    <3>2. CASE \E x \in B.has : x[1] = h
      <4>1. X \in Hashes \X Sealings
        BY <1>0 DEF Operation
      <4>2. [root[f] EXCEPT !.has = root[f].has \cup {X}] \in Folder
        BY <2>1, <4>1 DEF Folder
      <4>3. root' = [root EXCEPT ![f] = [root[f] EXCEPT !.has = root[f].has \cup {X}]]
        BY <1>2, <3>2 DEF ResealFile, Standing
      <4>4. /\ [root[f] EXCEPT !.has = root[f].has \cup {X}].has = root[f].has \cup {X}
            /\ [root[f] EXCEPT !.has = root[f].has \cup {X}].salt = root[f].salt
            /\ [root[f] EXCEPT !.has = root[f].has \cup {X}].lost = root[f].lost
        BY <2>1 DEF Folder
      <4> QED BY <2>4, <3>2, <4>2, <4>3, <4>4
    <3> QED BY <3>1, <3>2
  <2>6. SealedAs(v)
    <3>1. ASSUME NEW x \in v.has PROVE x[2] = op.salt
      <4>1. x \in root[f].has \/ x = X
        BY <2>5, <3>1
      <4> QED BY <2>4, <4>1 DEF SealedAs
    <3> QED BY <2>5, <3>1 DEF SealedAs
  <2>7. /\ Sealed' /\ DoomedOnly' /\ StandingWhole' /\ StillThere' /\ root'[f] = v
        /\ \A n \in Names : root'[n, ""] = root[n, ""]
    BY <2>1, <2>3, <2>5, <2>6, ResealedFolder DEF Reseals
  <2>8. ASSUME op.name \notin doomed
        PROVE  v.lost = B.lost /\ \A g \in B.names \ B.lost : g \in op'.todo \/ <<g, op.salt>> \in v.has
    <3>1. root[f].lost = B.lost /\ \A g \in B.names \ B.lost : g \in op.todo \/ <<g, op.salt>> \in root[f].has
      BY <2>1, <2>8 DEF KeepInv, ResealOK, Reseals, Standing
    <3>2. Whole(B)
      BY <2>1, <2>8 DEF KeepInv, StandingWhole, Standing
    <3>3. h \in B.names \ B.lost => \E x \in B.has : x[1] = h
      BY <3>2 DEF Whole
    <3> QED BY <2>2, <2>5, <3>1, <3>3
  <2>9. ResealOK'
    <3>1. root'[op'.name, "resealing"] = v /\ root'[op'.name, ""] = B
      BY <2>1, <2>2, <2>7
    <3> QED BY <2>1, <2>2, <2>3, <2>5, <2>8, <3>1 DEF ResealOK, Standing
  <2>10. MakingOK'
    BY <2>2 DEF MakingOK, Making
  <2> QED BY <2>7, <2>9, <2>10 DEF KeepInv
<1>3. CASE WriteResealed
  <2> DEFINE f == <<op.name, "resealing">>
  <2> DEFINE B == root[op.name, ""]
  <2> DEFINE v == [root[f] EXCEPT !.database = B.database, !.names = B.names, !.manifest = TRUE, !.kept = root[f].has]
  <2>1. /\ op.phase = "resealing" /\ op.todo = {} /\ op.name \in Names /\ f \in Places
        /\ root[f] \in Folder /\ root[f] # Nothing /\ B \in Folder /\ B # Nothing
    BY <1>3, Folders, NothingIsNone DEF WriteResealed, Reseals, Suffixes, Standing
  <2>2. root[f].salt = op.salt /\ SealedAs(root[f])
    BY <2>1 DEF KeepInv, ResealOK, Reseals, Sealed
  <2>3. /\ v \in Folder /\ v # Nothing /\ v.has = root[f].has /\ v.salt = op.salt /\ v.lost = root[f].lost
        /\ v.database = B.database /\ v.names = B.names /\ v.manifest
    BY <2>1, <2>2, NothingIsNone DEF Folder
  <2>4. SealedAs(v)
    BY <2>2, <2>3 DEF SealedAs
  <2>5. root' = [root EXCEPT ![f] = v] /\ UNCHANGED <<removing, finished, doomed, aside>>
    BY <1>3 DEF WriteResealed, Standing
  <2>6. /\ Sealed' /\ DoomedOnly' /\ StandingWhole' /\ StillThere' /\ root'[f] = v
    BY <2>1, <2>3, <2>4, <2>5, ResealedFolder DEF Reseals
  <2>7. op'.phase = "resealed" /\ op'.name = op.name /\ op'.salt = op.salt
    BY <1>0, <1>3, <2>1, GoneTo DEF WriteResealed, Phases
  <2>8. op.name \notin doomed => Whole(v)
    <3>1. ASSUME op.name \notin doomed PROVE Whole(v)
      <4>1. root[f].lost = B.lost /\ \A g \in B.names \ B.lost : <<g, op.salt>> \in root[f].has
        BY <2>1, <3>1 DEF KeepInv, ResealOK, Reseals, Standing
      <4>2. Whole(B)
        BY <2>1, <3>1 DEF KeepInv, StandingWhole, Standing
      <4> QED BY <2>3, <2>4, <4>1, <4>2 DEF Whole, SealedAs
    <3> QED BY <3>1
  <2>9. ResealOK'
    <3>1. root'[op'.name, "resealing"] = v
      BY <2>6, <2>7
    <3> QED BY <2>3, <2>5, <2>7, <2>8, <3>1 DEF ResealOK
  <2>10. MakingOK'
    BY <2>7 DEF MakingOK, Making
  <2> QED BY <2>6, <2>9, <2>10 DEF KeepInv
<1>4. CASE FailReseal
  <2> DEFINE f == <<op.name, "resealing">>
  <2>1. op.phase \in Reseals \ {"setaside"} /\ f \in Places /\ root[f] \in Folder
    BY <1>4, Folders DEF FailReseal, Reseals, Suffixes
  <2>2. PICK left \in {Nothing, root[f]} : root' = [root EXCEPT ![f] = left]
    BY <1>4 DEF FailReseal, Removed
  <2>3. left \in Folder \cup {Nothing} /\ (left # Nothing => SealedAs(left))
    BY <2>1, <2>2 DEF KeepInv, Sealed
  <2>4. UNCHANGED <<removing, finished, doomed, aside>>
    BY <1>4 DEF FailReseal
  <2>5. Sealed' /\ DoomedOnly' /\ StandingWhole' /\ StillThere'
    BY <2>1, <2>2, <2>3, <2>4, ResealedFolder
  <2> QED BY <1>4, <2>5, Stopped, NotAtWorkNext DEF FailReseal, KeepInv, Making, Reseals
<1>5. CASE SetAside
  <2> DEFINE f == <<op.name, "">>
  <2> DEFINE g == <<op.name, "replaced">>
  <2>1. op.phase = "resealed" /\ op.name \in Names /\ f \in Places /\ g \in Places /\ f # g /\ f[1] = g[1] /\ g[2] = "replaced"
    BY <1>5, Folders DEF SetAside, Suffixes
  <2>2. Rename(f, g) /\ UNCHANGED <<finished, doomed, aside>>
    BY <1>5 DEF SetAside
  <2>3. /\ root'[g] = root[f] /\ root'[f] = Nothing /\ root[f] # Nothing
        /\ \A p \in Places \ {f, g} : root'[p] = root[p]
    <3> HIDE DEF f, g
    <3>1. Rename(f, g) /\ root[f] # Nothing
      BY <2>2 DEF Rename
    <3> QED BY <2>1, <3>1, Renamed
  <2>4. Sealed'
    BY <2>1, <2>3 DEF KeepInv, Sealed, SealedAs
  <2>5. DoomedOnly'
    BY <2>1, <2>2, RenamedDoomed DEF KeepInv
  <2>6. \A n \in Names \ {op.name} : root'[n, ""] = root[n, ""]
    <3>1. ASSUME NEW n \in Names \ {op.name} PROVE <<n, "">> \in Places \ {f, g}
      BY DEF Places, Suffixes
    <3> QED BY <2>3, <3>1
  <2>7. op'.phase = "setaside" /\ op'.name = op.name /\ op'.salt = op.salt
    BY <1>0, <1>5, <2>1, GoneTo DEF SetAside, Phases
  <2>8. StandingWhole'
    <3>1. ASSUME NEW n \in Names \ doomed, root'[n, ""] # Nothing PROVE Whole(root'[n, ""])
      BY <2>3, <2>6, <3>1 DEF KeepInv, StandingWhole, Standing
    <3> QED BY <2>2, <3>1 DEF StandingWhole, Standing
  <2>9. StillThere'
    BY <1>0, <2>1, <2>2, <2>6, <2>7 DEF KeepInv, StillThere, Standing
  <2>10. ResealOK'
    <3>1. root'[op.name, "resealing"] = root[op.name, "resealing"]
      <4>1. <<op.name, "resealing">> \in Places \ {f, g}
        BY <2>1 DEF Places, Suffixes
      <4> QED BY <2>3, <4>1
    <3>2. root[op.name, "resealing"].salt = op.salt /\ (op.name \notin doomed => Whole(root[op.name, "resealing"]))
      BY <2>1 DEF KeepInv, ResealOK, Reseals
    <3>3. op.name \notin doomed => Whole(root[f])
      BY <2>1, <2>3 DEF KeepInv, StandingWhole, Standing
    <3>4. /\ root'[op'.name, "resealing"] = root[op.name, "resealing"]
          /\ root'[op'.name, "replaced"] = root[f] /\ root'[op'.name, ""] = Nothing
      BY <2>3, <2>7, <3>1
    <3> QED BY <2>2, <2>7, <3>2, <3>3, <3>4 DEF ResealOK, Standing
  <2>11. MakingOK'
    BY <2>7 DEF MakingOK, Making
  <2> QED BY <2>4, <2>5, <2>8, <2>9, <2>10, <2>11 DEF KeepInv
<1>6. CASE PutResealed
  <2>1. op.phase = "setaside" /\ op.name \in Names /\ UNCHANGED <<finished, doomed, aside>>
    BY <1>6, Folders DEF PutResealed
  <2>2. op.name \notin doomed => Whole(root[op.name, "resealing"])
    BY <2>1 DEF KeepInv, ResealOK, Reseals
  <2>3. op'.phase = "swapped"
    BY <1>0, <1>6, <2>1, GoneTo DEF PutResealed, Phases
  <2> QED BY <1>6, <2>1, <2>2, <2>3, PutUnderName DEF PutResealed, Suffixes, Making, Reseals
<1>7. CASE PutBack
  <2>1. op.phase = "setaside" /\ op.name \in Names /\ UNCHANGED <<finished, doomed>>
    BY <1>7, Folders DEF PutBack
  <2>2. op'.phase = "putback"
    BY <1>0, <1>7, <2>1, GoneTo DEF PutBack, Phases
  <2>3. CASE Rename(<<op.name, "replaced">>, <<op.name, "">>) /\ UNCHANGED aside
    <3>1. op.name \notin doomed => Whole(root[op.name, "replaced"])
      BY <2>1 DEF KeepInv, ResealOK, Reseals
    <3> QED BY <2>1, <2>2, <2>3, <3>1, PutUnderName DEF Suffixes, Making, Reseals
  <2>4. CASE aside' = aside \cup {op.name} /\ UNCHANGED <<root, removing>>
    <3>1. Sealed' /\ DoomedOnly' /\ StandingWhole'
      BY <2>1, <2>4 DEF KeepInv, Sealed, SealedAs, DoomedOnly, StandingWhole, Standing, Whole
    <3>2. StillThere'
      BY <2>1, <2>4 DEF KeepInv, StillThere, Standing
    <3> QED BY <2>2, <3>1, <3>2, NotAtWorkNext DEF KeepInv, Making, Reseals
  <2> QED BY <1>7, <2>3, <2>4 DEF PutBack
<1>8. CASE DropLeftover
  <2> DEFINE f == <<op.name, IF op.phase = "putback" THEN "resealing" ELSE "replaced">>
  <2>1. op.phase \in {"swapped", "putback"} /\ f \in Places /\ f[2] \in {"replaced", "resealing"}
    BY <1>8, Folders DEF DropLeftover, Suffixes
  <2>2. PICK left \in {Nothing, root[f]} : root' = [root EXCEPT ![f] = left]
    BY <1>8 DEF DropLeftover, Removed
  <2>3. left \in Folder \cup {Nothing} /\ (left # Nothing => SealedAs(left))
    BY <2>1, <2>2, TypeParts DEF KeepInv, Sealed, Typed, RootOK
  <2>4. root'[f] = left /\ \A g \in Places \ {f} : root'[g] = root[g]
    BY <1>0, <2>1, <2>2, <2>3, RootChanged
  <2>5. Sealed'
    BY <2>1, <2>3, <2>4, SealedNext DEF KeepInv
  <2>6. UNCHANGED <<removing, finished, doomed, aside>>
    BY <1>8 DEF DropLeftover
  <2>7. \A n \in Names : root'[n, ""] = root[n, ""]
    BY <2>1, <2>4, AtPlaces
  <2>8. StandingWhole' /\ StillThere'
    BY <1>0, <2>1, <2>6, <2>7, StandingNext DEF KeepInv
  <2> QED BY <1>8, <2>5, <2>6, <2>8, Stopped, NotAtWorkNext DEF DropLeftover, KeepInv, DoomedOnly, Making, Reseals
<1> QED BY <1>1, <1>2, <1>3, <1>4, <1>5, <1>6, <1>7, <1>8 DEF ResealStep

LEMMA StoreKeeps == ASSUME Typed, KeepInv, Store PROVE KeepInv'
<1> USE DEF folderVars, history
<1>1. UNCHANGED <<root, removing, finished, doomed, aside>>
  BY DEF Store
<1>2. op' = IF op.phase \in {"snapped", "walking"} THEN [op EXCEPT !.lost = op.lost \cup (files \ files')] ELSE op
  BY DEF Store
<1>3. op \in Operation
  BY DEF Typed, BackupTypeOK
<1>4. /\ op'.phase = op.phase /\ op'.name = op.name /\ op'.salt = op.salt /\ op'.from = op.from /\ op'.todo = op.todo
      /\ op.phase \in {"snapped", "walking"} => op'.lost = op.lost \cup (files \ files')
  BY <1>2, <1>3 DEF Operation
<1>5. Sealed' /\ DoomedOnly' /\ StandingWhole'
  BY <1>1 DEF KeepInv, Sealed, SealedAs, DoomedOnly, StandingWhole, Standing, Whole
<1>6. StillThere'
  BY <1>1, <1>4 DEF KeepInv, StillThere, Standing
<1>7. MakingOK'
  <2>1. ASSUME op.phase = "walking"
        PROVE  \A h \in root[op.name, "partial"].names \ op'.lost :
                  <<h, op.salt>> \in root[op.name, "partial"].has \/ h \in op.todo \cap files'
    BY <1>4, <2>1 DEF KeepInv, MakingOK, Making
  <2>2. op.phase = "snapped" => root[op.name, "partial"].names \subseteq files' \cup op'.lost
    BY <1>4 DEF KeepInv, MakingOK, Making
  <2> QED BY <1>1, <1>4, <2>1, <2>2 DEF KeepInv, MakingOK, Standing, Whole
<1>8. ResealOK'
  BY <1>1, <1>4 DEF KeepInv, ResealOK, Standing, Whole
<1> QED BY <1>5, <1>6, <1>7, <1>8 DEF KeepInv

LEMMA RestartServerKeeps == ASSUME Typed, KeepInv, RestartServer PROVE KeepInv'
<1> USE DEF folderVars, history
<1>1. UNCHANGED <<root, finished, doomed>> /\ removing' = {} /\ op'.phase = "idle"
  BY Stopped DEF RestartServer
<1>2. aside' = IF op.phase = "setaside" THEN aside \cup {op.name} ELSE aside
  BY DEF RestartServer
<1>3. Sealed' /\ DoomedOnly' /\ StandingWhole'
  BY <1>1 DEF KeepInv, Sealed, SealedAs, DoomedOnly, StandingWhole, Standing, Whole
<1>4. StillThere'
  BY <1>1, <1>2 DEF KeepInv, StillThere, Standing
<1> QED BY <1>1, <1>3, <1>4, NotAtWorkNext DEF KeepInv, Making, Reseals

\* Every step of a backup is one of the stored contents, or leaves them alone.
LEMMA StoreStep == [BackupNext]_backupVars => [Next]_vars
BY DEF BackupNext, BackupStep, RemovalStep, CopyStep, ResealStep, RestoreStep, Store, RestartServer, Next,
       BeginBackup, Snapshot, BeginWalk, CopyFile, WriteManifest, PutInPlace, FailBackup, BeginPrune, PrunePartials,
       DeleteBackup, OpenFolder, RemovePiece, EndRemoval,
       BeginCopies, BeginCopy, SendFile, PlaceCopy, RecordCopy, FailCopy, TrimCopies,
       BeginReseal, ResealFile, WriteResealed, FailReseal, SetAside, PutResealed, PutBack, DropLeftover,
       BeginRestore, RestoreDatabase, RestoreFile, PlaceRestored, CheckRestored, FailRestore, backupVars

LEMMA BackupKept == ASSUME Typed, Typed', Inv, KeepInv, [BackupNext]_backupVars PROVE KeepInv'
<1>1. CASE UNCHANGED backupVars
  BY <1>1 DEF backupVars, vars, blobVars, ownVars, folderVars, history,
     KeepInv, Sealed, SealedAs, DoomedOnly, StandingWhole, StillThere, MakingOK, ResealOK, Standing, Whole
<1> QED
  BY <1>1, BackupStepKeeps, RemovalStepKeeps, CopyStepKeeps, ResealStepKeeps, RestoreStepKeeps, StoreKeeps, RestartServerKeeps
  DEF BackupNext

LEMMA KeptInit == BackupInit => KeepInv
<1> SUFFICES ASSUME BackupInit PROVE KeepInv
  OBVIOUS
<1>1. \A f \in Places : root[f] = Nothing
  BY DEF BackupInit, Places
<1>2. \A n \in Names : Standing(n) = Nothing
  BY <1>1 DEF Standing, Places, Suffixes
<1>3. op.phase = "idle" /\ removing = {} /\ finished = {}
  BY DEF BackupInit, NoOperation
<1> QED BY <1>1, <1>2, <1>3, NotAtWork DEF KeepInv, Sealed, DoomedOnly, StandingWhole, StillThere, Making, Reseals

LEMMA KeptShown == ASSUME Typed, KeepInv PROVE BackupsAreKept
<1>1. finished \subseteq Names
  BY DEF Typed, BackupTypeOK
<1>2. ASSUME NEW n \in finished \ (doomed \cup aside), Standing(n) # Nothing PROVE Whole(Standing(n))
  BY <1>1, <1>2 DEF KeepInv, StandingWhole
<1>3. ASSUME NEW n \in finished \ (doomed \cup aside), op.phase = "setaside", op.name = n
      PROVE  Whole(root[n, "replaced"]) /\ Whole(root[n, "resealing"])
  BY <1>3 DEF KeepInv, ResealOK, Reseals
<1> QED BY <1>2, <1>3 DEF KeepInv, StillThere, BackupsAreKept

\* A backup that was finished can be restored from until somebody, or the pruning,
\* begins to remove it: whatever is stored, deleted and collected while it is made
\* (fill_backup), whatever is removed beside it, and however a reseal ends, but one
\* cut off between its two renames (reseal_backup).
THEOREM FinishedKept == BackupSpec => []BackupsAreKept
<1> DEFINE I == Typed /\ Inv /\ KeepInv
<1>1. BackupInit => I
  BY BackupInitTyped, KeptInit, InitInv DEF BackupInit
<1>2. I /\ [BackupNext]_backupVars => I'
  BY BackupTyped, BackupKept, StoreStep, NextInv
<1>3. I => BackupsAreKept
  BY KeptShown
<1> QED BY <1>1, <1>2, <1>3, PTL DEF BackupSpec

-----------------------------------------------------------------------------
(* What is restored is whole *)

\* A restore has, or is about to open, what the backup has, unless that is doomed.
RestoringOK ==
    op.phase \in Restoration =>
        LET E == env[op.env]
            B == Standing(op.name) IN
        /\ E.of = op.name /\ E.state # "ready"
        /\ op.name \notin doomed =>
              /\ op.phase \in {"restoring", "opening"} => B # Nothing /\ E.lost = B.lost
              /\ op.phase = "opening" =>
                    E.names = B.names /\ \A h \in E.names \ E.lost : h \in E.has \/ h \in op.todo
              /\ op.phase = "restored" => E.names \ E.has \subseteq E.lost

RestoreInv == RestoringOK /\ RestoredIsWhole

\* No restore is at work, and the environments are left alone.
LEMMA RestoreFrame ==
    ASSUME RestoreInv, env' = env, doomed \subseteq doomed', op'.phase \notin Restoration PROVE RestoreInv'
BY DEF RestoreInv, RestoringOK, RestoredIsWhole

\* A restore goes on beside other steps.
LEMMA RestoreBeside ==
    ASSUME RestoreInv, Typed, env' = env, doomed \subseteq doomed', op' = op,
           \A n \in Names \ doomed : root'[n, ""] = root[n, ""]
    PROVE  RestoreInv'
<1>1. op.phase \in Restoration => op.name \in Names
  BY Folders DEF Restoration
<1>2. RestoringOK'
  BY <1>1 DEF RestoreInv, RestoringOK, Standing
<1> QED BY <1>2 DEF RestoreInv, RestoredIsWhole

\* The environment of a restore is changed.
LEMMA RestoreStepFrame ==
    ASSUME Typed, RestoreInv, UNCHANGED doomed, NEW e \in Environments, NEW v \in Environment \cup {Nothing},
           env' = [env EXCEPT ![e] = v],
           v # Nothing /\ v.state = "ready" /\ v.of \notin doomed => v.names \ v.has \subseteq v.lost
    PROVE  RestoredIsWhole' /\ env'[e] = v
<1>1. env'[e] = v /\ \A d \in Environments \ {e} : env'[d] = env[d]
  BY EnvChanged DEF Typed
<1> QED BY <1>1 DEF RestoreInv, RestoredIsWhole

\* What a removal changes belongs to a backup that is doomed.
LEMMA RemovalSpares ==
    ASSUME Typed, KeepInv, RemovalStep
    PROVE  /\ \A n \in Names \ doomed : root'[n, ""] = root[n, ""]
           /\ doomed \subseteq doomed' /\ op' = op /\ env' = env
<1> USE DEF folderVars, history
<1>1. ASSUME NEW r \in removing, NEW v \in Folder \cup {Nothing}, root' = [root EXCEPT ![r.at] = v],
             NEW n \in Names \ doomed
      PROVE  root'[n, ""] = root[n, ""]
  <2>1. r.at \in Places /\ r.at[1] \in doomed /\ BackupTypeOK
    BY TypeParts DEF Typed, RemovingOK, KeepInv, DoomedOnly
  <2>2. <<n, "">> \in Places \ {r.at}
    <3>1. <<n, "">>[1] = n /\ <<n, "">> \in Places /\ n # r.at[1]
      BY <2>1 DEF Places, Suffixes
    <3> QED BY <3>1
  <2>3. \A g \in Places \ {r.at} : root'[g] = root[g]
    BY <1>1, <2>1, RootChanged
  <2> QED BY <2>2, <2>3
<1>2. ASSUME NEW n \in Names, DeleteBackup(n) PROVE UNCHANGED <<root, op, env>> /\ doomed \subseteq doomed'
  BY <1>2 DEF DeleteBackup
<1>3. ASSUME NEW r \in removing, OpenFolder(r) PROVE UNCHANGED <<root, op, env, doomed>>
  BY <1>3 DEF OpenFolder
<1>4. ASSUME NEW r \in removing, RemovePiece(r)
      PROVE  (\E v \in Folder : root' = [root EXCEPT ![r.at] = v]) /\ UNCHANGED <<op, env, doomed>>
  <2>1. root[r.at] \in Folder
    BY <1>4, TypeParts DEF Typed, RootOK, RemovingOK, RemovePiece
  <2> QED BY <1>4, <2>1, PieceRemoved DEF RemovePiece
<1>5. ASSUME NEW r \in removing, EndRemoval(r)
      PROVE  (root' = root \/ root' = [root EXCEPT ![r.at] = Nothing]) /\ UNCHANGED <<op, env, doomed>>
  BY <1>5 DEF EndRemoval
<1> QED BY <1>1, <1>2, <1>3, <1>4, <1>5 DEF RemovalStep

\* The other operations are no restores.
LEMMA OtherOperations ==
    ASSUME Typed, BackupStep \/ CopyStep \/ ResealStep \/ RestartServer
    PROVE  env' = env /\ doomed \subseteq doomed' /\ op'.phase \notin Restoration
<1> USE DEF folderVars, history
<1>0. op \in Operation
  BY DEF Typed, BackupTypeOK
<1>1. CASE BackupStep
  BY <1>0, <1>1, Stopped DEF BackupStep, BeginBackup, Snapshot, BeginWalk, CopyFile, WriteManifest, PutInPlace,
     FailBackup, BeginPrune, PrunePartials, Goto, Operation, NoOperation, Restoration
<1>2. CASE CopyStep
  BY <1>0, <1>2, Stopped DEF CopyStep, BeginCopies, BeginCopy, SendFile, PlaceCopy, RecordCopy, FailCopy, TrimCopies,
     Goto, Operation, NoOperation, Restoration
<1>3. CASE ResealStep
  BY <1>0, <1>3, Stopped DEF ResealStep, BeginReseal, ResealFile, WriteResealed, FailReseal, SetAside, PutResealed,
     PutBack, DropLeftover, Goto, Operation, NoOperation, Restoration
<1>4. CASE RestartServer
  BY <1>4, Stopped DEF RestartServer, Restoration
<1> QED BY <1>1, <1>2, <1>3, <1>4

LEMMA RestoreStepRestores == ASSUME Typed, KeepInv, RestoreInv, RestoreStep PROVE RestoreInv'
<1> USE DEF folderVars, history
<1>0. BackupTypeOK /\ op \in Operation
  BY DEF Typed, BackupTypeOK
<1>1. ASSUME NEW n \in Names, NEW e \in Environments, BeginRestore(n, e) PROVE RestoreInv'
  <2> DEFINE v == [state |-> "restoring", of |-> n, names |-> {}, has |-> {}, lost |-> Standing(n).lost]
  <2>1. Standing(n) \in Folder /\ Standing(n) # Nothing
    BY <1>1, Folders DEF BeginRestore, Listed
  <2>2. v \in Environment
    BY <2>1 DEF Folder, Environment
  <2>3. env' = [env EXCEPT ![e] = v] /\ UNCHANGED <<root, doomed>>
    BY <1>1 DEF BeginRestore
  <2>4. RestoredIsWhole' /\ env'[e] = v
    BY <2>2, <2>3, RestoreStepFrame
  <2>5. op'.phase = "restoring" /\ op'.env = e /\ op'.name = n
    BY <1>1 DEF BeginRestore, NoOperation
  <2>6. RestoringOK'
    <3>1. env'[op'.env] = v /\ root'[op'.name, ""] = Standing(n)
      BY <2>3, <2>4, <2>5 DEF Standing
    <3>2. v.of = n /\ v.state # "ready" /\ v.lost = Standing(n).lost
      OBVIOUS
    <3> QED BY <2>1, <2>5, <3>1, <3>2 DEF RestoringOK, Standing
  <2> QED BY <2>4, <2>6 DEF RestoreInv
<1>2. CASE RestoreDatabase
  <2> DEFINE E == env[op.env]
  <2> DEFINE B == Standing(op.name)
  <2> DEFINE v == [E EXCEPT !.names = B.names]
  <2>1. op.phase = "restoring" /\ op.env \in Environments /\ E \in Environment /\ op.name \in Names /\ B \in Folder /\ B # Nothing
    BY <1>2, Folders DEF RestoreDatabase, Restoration
  <2>2. v \in Environment /\ v.state = E.state /\ v.of = E.of /\ v.lost = E.lost /\ v.names = B.names /\ B.names \subseteq Hashes
    BY <2>1 DEF Folder, Environment
  <2>3. env' = [env EXCEPT ![op.env] = v] /\ UNCHANGED <<root, doomed>>
    BY <1>2 DEF RestoreDatabase
  <2>4. E.of = op.name /\ E.state # "ready" /\ (op.name \notin doomed => E.lost = B.lost)
    BY <2>1 DEF RestoreInv, RestoringOK, Restoration
  <2>5. RestoredIsWhole' /\ env'[op.env] = v
    BY <2>1, <2>2, <2>3, <2>4, RestoreStepFrame
  <2>6. op'.phase = "opening" /\ op'.env = op.env /\ op'.name = op.name /\ op'.todo = Hashes
    BY <1>0, <1>2 DEF RestoreDatabase, Operation
  <2>7. RestoringOK'
    <3>1. env'[op'.env] = v /\ root'[op'.name, ""] = B
      BY <2>3, <2>5, <2>6 DEF Standing
    <3> QED BY <2>1, <2>2, <2>3, <2>4, <2>6, <3>1 DEF RestoringOK, Standing
  <2> QED BY <2>5, <2>7 DEF RestoreInv
<1>3. ASSUME NEW h \in Hashes, RestoreFile(h) PROVE RestoreInv'
  <2> DEFINE E == env[op.env]
  <2> DEFINE B == Standing(op.name)
  <2> DEFINE found == IF B = Nothing THEN {} ELSE {x \in B.has : x[1] = h}
  <2> DEFINE has == IF found = {} THEN E.has ELSE E.has \cup {h}
  <2> DEFINE v == [E EXCEPT !.has = has]
  <2>1. op.phase = "opening" /\ op.env \in Environments /\ E \in Environment /\ op.name \in Names
    BY <1>3, Folders DEF RestoreFile, Restoration
  <2>2. v \in Environment /\ v.state = E.state /\ v.of = E.of /\ v.lost = E.lost /\ v.names = E.names /\ v.has = has
    <3>1. has \in SUBSET Hashes
      BY <2>1 DEF Environment
    <3> QED BY <2>1, <3>1 DEF Environment
  <2>3. env' = [env EXCEPT ![op.env] = v] /\ UNCHANGED <<root, doomed>>
    BY <1>3 DEF RestoreFile
  <2>4. /\ E.of = op.name /\ E.state # "ready"
        /\ op.name \notin doomed => /\ B # Nothing /\ E.lost = B.lost /\ E.names = B.names
                                    /\ \A g \in E.names \ E.lost : g \in E.has \/ g \in op.todo
    BY <2>1 DEF RestoreInv, RestoringOK, Restoration
  <2>5. RestoredIsWhole' /\ env'[op.env] = v
    <3>1. v.state # "ready"
      BY <2>2, <2>4
    <3> HIDE DEF v
    <3> QED BY <2>1, <2>2, <2>3, <3>1, RestoreStepFrame
  <2>6. op'.phase = "opening" /\ op'.env = op.env /\ op'.name = op.name /\ op'.todo = op.todo \ {h}
    <3>1. op.todo \ {h} \in SUBSET Hashes
      BY <1>0 DEF Operation
    <3> QED BY <1>0, <1>3, <2>1, <3>1, Edited DEF RestoreFile
  <2>7. op.name \notin doomed /\ h \in E.names \ E.lost => h \in has
    <3>1. ASSUME op.name \notin doomed, h \in E.names \ E.lost PROVE found # {}
      <4>1. Whole(B)
        BY <2>1, <2>4, <3>1 DEF KeepInv, StandingWhole
      <4>2. <<h, B.salt>> \in B.has
        BY <2>4, <3>1, <4>1 DEF Whole
      <4> QED BY <2>4, <3>1, <4>2
    <3> QED BY <3>1
  <2>8. op.name \notin doomed => \A g \in v.names \ v.lost : g \in v.has \/ g \in op'.todo
    BY <2>2, <2>4, <2>6, <2>7
  <2>9. RestoringOK'
    <3>1. env'[op'.env] = v /\ root'[op'.name, ""] = B
      BY <2>3, <2>5, <2>6 DEF Standing
    <3> QED BY <2>1, <2>2, <2>3, <2>4, <2>6, <2>8, <3>1 DEF RestoringOK, Standing
  <2> QED BY <2>5, <2>9 DEF RestoreInv
<1>4. CASE PlaceRestored
  <2> DEFINE E == env[op.env]
  <2> DEFINE v == [E EXCEPT !.state = "placed"]
  <2>1. op.phase = "opening" /\ op.todo = {} /\ op.env \in Environments /\ E \in Environment /\ op.name \in Names
    BY <1>4, Folders DEF PlaceRestored, Restoration
  <2>2. v \in Environment /\ v.state = "placed" /\ v.of = E.of /\ v.lost = E.lost /\ v.names = E.names /\ v.has = E.has
    BY <2>1 DEF Environment
  <2>3. env' = [env EXCEPT ![op.env] = v] /\ UNCHANGED <<root, doomed>>
    BY <1>4 DEF PlaceRestored
  <2>4. E.of = op.name /\ (op.name \notin doomed => \A h \in E.names \ E.lost : h \in E.has)
    BY <2>1 DEF RestoreInv, RestoringOK, Restoration
  <2>5. RestoredIsWhole' /\ env'[op.env] = v
    BY <2>1, <2>2, <2>3, RestoreStepFrame
  <2>6. op'.phase = "restored" /\ op'.env = op.env /\ op'.name = op.name
    BY <1>0, <1>4 DEF PlaceRestored, Goto, Operation
  <2>7. RestoringOK'
    <3>1. env'[op'.env] = v
      BY <2>5, <2>6
    <3> QED BY <2>2, <2>3, <2>4, <2>6, <3>1 DEF RestoringOK
  <2> QED BY <2>5, <2>7 DEF RestoreInv
<1>5. CASE CheckRestored
  <2> DEFINE E == env[op.env]
  <2>1. op.phase = "restored" /\ op.env \in Environments /\ E \in Environment
    BY <1>5, Folders DEF CheckRestored, Restoration
  <2>2. PICK end \in {[E EXCEPT !.state = "ready"], E, Nothing} : env' = [env EXCEPT ![op.env] = end]
    BY <1>5 DEF CheckRestored
  <2>3. E.of = op.name /\ E.state # "ready" /\ (op.name \notin doomed => E.names \ E.has \subseteq E.lost)
    BY <2>1 DEF RestoreInv, RestoringOK, Restoration
  <2>4. /\ end \in Environment \cup {Nothing}
        /\ end # Nothing /\ end.state = "ready" /\ end.of \notin doomed => end.names \ end.has \subseteq end.lost
    BY <2>1, <2>2, <2>3 DEF Environment
  <2>5. UNCHANGED doomed /\ op'.phase = "idle"
    BY <1>5, Stopped DEF CheckRestored
  <2>6. RestoredIsWhole'
    BY <2>1, <2>2, <2>4, <2>5, RestoreStepFrame
  <2> QED BY <2>5, <2>6 DEF RestoreInv, RestoringOK, Restoration
<1>6. CASE FailRestore
  <2> DEFINE E == env[op.env]
  <2>1. op.phase \in {"restoring", "opening"} /\ op.env \in Environments /\ E \in Environment
    BY <1>6, Folders DEF FailRestore, Restoration
  <2>2. PICK left \in {Nothing, E} : env' = [env EXCEPT ![op.env] = left]
    BY <1>6 DEF FailRestore, Removed
  <2>3. E.state # "ready"
    BY <2>1 DEF RestoreInv, RestoringOK, Restoration
  <2>4. UNCHANGED doomed /\ op'.phase = "idle"
    BY <1>6, Stopped DEF FailRestore
  <2>5. RestoredIsWhole'
    BY <2>1, <2>2, <2>3, <2>4, RestoreStepFrame
  <2> QED BY <2>4, <2>5 DEF RestoreInv, RestoringOK, Restoration
<1> QED BY <1>1, <1>2, <1>3, <1>4, <1>5, <1>6 DEF RestoreStep

LEMMA StoreRestores == ASSUME Typed, RestoreInv, Store PROVE RestoreInv'
<1>1. UNCHANGED <<root, env, doomed>>
  BY DEF Store, folderVars, history
<1>2. op \in Operation
  BY DEF Typed, BackupTypeOK
<1>3. op' = op \/ op'.phase \in {"snapped", "walking"}
  BY <1>2 DEF Store, Operation
<1>4. CASE op' = op
  BY <1>1, <1>4, RestoreBeside
<1>5. CASE op'.phase \in {"snapped", "walking"}
  BY <1>1, <1>5, RestoreFrame DEF Restoration
<1> QED BY <1>3, <1>4, <1>5

LEMMA BackupRestores == ASSUME Typed, KeepInv, RestoreInv, [BackupNext]_backupVars PROVE RestoreInv'
<1>1. CASE UNCHANGED backupVars
  BY <1>1, RestoreBeside DEF backupVars, ownVars, folderVars, history
<1>2. CASE RemovalStep
  BY <1>2, RemovalSpares, RestoreBeside
<1>3. CASE BackupStep \/ CopyStep \/ ResealStep \/ RestartServer
  BY <1>3, OtherOperations, RestoreFrame
<1> QED BY <1>1, <1>2, <1>3, RestoreStepRestores, StoreRestores DEF BackupNext

LEMMA RestoreInit == BackupInit => RestoreInv
<1> SUFFICES ASSUME BackupInit PROVE RestoreInv
  OBVIOUS
<1>1. \A e \in Environments : env[e] = Nothing
  BY DEF BackupInit
<1>2. op.phase = "idle"
  BY DEF BackupInit, NoOperation
<1> QED BY <1>1, <1>2 DEF RestoreInv, RestoringOK, RestoredIsWhole, Restoration

\* An environment that a restore calls ready has every content that its database
\* refers to and that was not collected while the backup was made, although a file
\* that is missing is passed by (copy_into): only a backup whose removal has begun
\* can lack one.
THEOREM RestoredWhole == BackupSpec => []RestoredIsWhole
<1> DEFINE I == Typed /\ Inv /\ KeepInv /\ RestoreInv
<1>1. BackupInit => I
  BY BackupInitTyped, KeptInit, RestoreInit, InitInv DEF BackupInit
<1>2. I /\ [BackupNext]_backupVars => I'
  BY BackupTyped, BackupKept, BackupRestores, StoreStep, NextInv
<1>3. I => RestoredIsWhole
  BY DEF RestoreInv
<1> QED BY <1>1, <1>2, <1>3, PTL DEF BackupSpec

-----------------------------------------------------------------------------
(* A record means a copy *)

\* The second copy of a backup with the manifest of `f` is there and checks out.
CopyOf(n, f) ==
    /\ far[n, ""] # Nothing /\ far[n, ""].manifest /\ ChecksOut(far[n, ""])
    /\ far[n, ""].salt = f.salt /\ far[n, ""].kept = f.kept

Unfinished   == {"partial", "resealing"}
NoRecordYet  == \A f \in Places : f[2] \in Unfinished /\ root[f] # Nothing => ~root[f].record
FarManifest  == \A n \in Names : far[n, ""] # Nothing => far[n, ""].manifest

\* What waits to be copied has no record, and what was copied can have one.
Copying == {"copying", "sending", "sent"}
QueueOK ==
    op.phase \in Copying =>
        /\ \A m \in op.queue : Standing(m) # Nothing => ~Standing(m).record
        /\ op.phase # "copying" => op.name \in op.queue
        /\ op.phase = "sent" /\ Standing(op.name) # Nothing /\ op.name \notin trimmed =>
              CopyOf(op.name, Standing(op.name))

\* The folder a reseal set aside may be put back.
AsideOK ==
    op.phase = "setaside" /\ op.name \notin trimmed =>
        LET f == root[op.name, "replaced"] IN f # Nothing /\ f.record => CopyOf(op.name, f)

RecordInv == NoRecordYet /\ FarManifest /\ QueueOK /\ AsideOK /\ RecordMeansCopy

LEMMA RecordUntouched ==
    ASSUME RecordMeansCopy, root' = root, trimmed' = trimmed,
           \A n \in Names : far'[n, ""] = far[n, ""]
    PROVE  RecordMeansCopy'
<1>1. \A n \in Names : Standing(n)' = Standing(n)
  BY DEF Standing
<1> QED BY <1>1 DEF RecordMeansCopy, ChecksOut

\* A folder is left alone, removed, or loses its record or other things; the
\* manifest says what it said.
Lessened(f, g) ==
    g # Nothing => f # Nothing /\ g.salt = f.salt /\ g.kept = f.kept /\ (g.record => f.record)

LEMMA RecordLessened ==
    ASSUME RecordMeansCopy, far' = far, trimmed' = trimmed,
           \A n \in Names : Lessened(root[n, ""], root'[n, ""])
    PROVE  RecordMeansCopy'
BY DEF RecordMeansCopy, Lessened, Standing, ChecksOut

\* The copies are left alone, no folder under a name gains a record, and no copy is
\* on its way.
LEMMA RecordFrame ==
    ASSUME RecordInv, UNCHANGED <<far, trimmed>>, op'.phase \notin Copying \cup {"setaside"}, NoRecordYet',
           \A n \in Names : Lessened(root[n, ""], root'[n, ""])
    PROVE  RecordInv'
<1>1. FarManifest'
  BY DEF RecordInv, FarManifest
<1>2. QueueOK' /\ AsideOK'
  BY DEF QueueOK, AsideOK
<1> QED BY <1>1, <1>2, RecordLessened DEF RecordInv

\* All folders are left alone or lessened, whatever the operation is at.
LEMMA RecordBeside ==
    ASSUME RecordInv, Typed, UNCHANGED <<far, trimmed>>, \A f \in Places : Lessened(root[f], root'[f]),
           op' = op \/ op'.phase \notin Copying \cup {"setaside"}
    PROVE  RecordInv'
<1>1. NoRecordYet'
  BY DEF RecordInv, NoRecordYet, Lessened
<1>2. \A n \in Names : \A s \in Suffixes : Lessened(root[n, s], root'[n, s])
  BY Folders
<1>3. FarManifest'
  BY DEF RecordInv, FarManifest
<1>4. CASE op' = op
  <2>1. op.phase \in Copying => \A m \in op.queue : m \in Names
    BY DEF Typed, BackupTypeOK, Operation
  <2>2. op.phase \in Copying \ {"copying"} \/ op.phase = "setaside" => op.name \in Names
    BY Folders DEF Copying
  <2>3. QueueOK'
    <3>1. ASSUME op.phase \in Copying, NEW m \in op.queue, root'[m, ""] # Nothing PROVE ~root'[m, ""].record
      <4>1. Lessened(root[m, ""], root'[m, ""])
        BY <1>2, <2>1, <3>1 DEF Suffixes
      <4> QED BY <3>1, <4>1 DEF RecordInv, QueueOK, Standing, Lessened
    <3>2. ASSUME op.phase = "sent", root'[op.name, ""] # Nothing, op.name \notin trimmed
          PROVE  CopyOf(op.name, root'[op.name, ""])
      <4>1. Lessened(root[op.name, ""], root'[op.name, ""])
        BY <1>2, <2>2, <3>2 DEF Suffixes, Copying
      <4> QED BY <3>2, <4>1 DEF RecordInv, QueueOK, Copying, Standing, Lessened, CopyOf
    <3> QED BY <1>4, <3>1, <3>2 DEF RecordInv, QueueOK, Standing, CopyOf, ChecksOut
  <2>4. AsideOK'
    <3>1. ASSUME op.phase = "setaside", op.name \notin trimmed,
                 root'[op.name, "replaced"] # Nothing, root'[op.name, "replaced"].record
          PROVE  CopyOf(op.name, root'[op.name, "replaced"])
      <4>1. Lessened(root[op.name, "replaced"], root'[op.name, "replaced"])
        BY <1>2, <2>2, <3>1 DEF Suffixes
      <4> QED BY <3>1, <4>1 DEF RecordInv, AsideOK, Lessened, CopyOf
    <3> QED BY <1>4, <3>1 DEF AsideOK, CopyOf, ChecksOut
  <2>5. RecordMeansCopy'
    BY <1>2, RecordLessened DEF RecordInv, Suffixes
  <2> QED BY <1>1, <1>3, <2>3, <2>4, <2>5 DEF RecordInv
<1>5. CASE op'.phase \notin Copying \cup {"setaside"}
  BY <1>1, <1>2, <1>5, RecordFrame DEF Suffixes
<1> QED BY <1>4, <1>5

LEMMA Alike == ASSUME NEW f PROVE Lessened(f, f) /\ Lessened(f, Nothing)
BY DEF Lessened

\* The folder of a backup on its way, or of one that is sealed again, changes.
LEMMA RecordUnfinished ==
    ASSUME RecordInv, Typed, NEW f \in Places, f[2] \in Unfinished, NEW v \in Folder \cup {Nothing},
           v # Nothing => ~v.record, root' = [root EXCEPT ![f] = v],
           UNCHANGED <<far, trimmed>>, op'.phase \notin Copying \cup {"setaside"}
    PROVE  RecordInv'
<1>1. root'[f] = v /\ \A g \in Places \ {f} : root'[g] = root[g]
  BY RootChanged DEF Typed
<1>2. NoRecordYet'
  BY <1>1 DEF RecordInv, NoRecordYet
<1>3. \A n \in Names : Lessened(root[n, ""], root'[n, ""])
  BY <1>1, AtPlaces, Alike DEF Unfinished
<1> QED BY <1>2, <1>3, RecordFrame

\* A folder takes the name of the backup.
LEMMA RecordRenamed ==
    ASSUME Typed, RecordInv, op.name \in Names, NEW s \in Suffixes \ {""}, Rename(<<op.name, s>>, <<op.name, "">>),
           root[op.name, s].record /\ op.name \notin trimmed => CopyOf(op.name, root[op.name, s]),
           UNCHANGED <<far, trimmed>>, op'.phase \notin Copying \cup {"setaside"}
    PROVE  RecordInv'
<1> DEFINE f == <<op.name, s>>
<1> DEFINE g == <<op.name, "">>
<1>1. f \in Places /\ g \in Places /\ g[2] = "" /\ f # g
  BY DEF Places, Suffixes
<1>2. /\ root'[g] = root[f] /\ root'[f] = Nothing /\ root[f] # Nothing
      /\ \A p \in Places \ {f, g} : root'[p] = root[p]
  <2>1. Rename(f, g) /\ root[f] # Nothing
    BY DEF Rename
  <2>2. Typed /\ g[2] \in {"", "replaced"}
    BY <1>1
  <2> HIDE DEF f, g
  <2> QED BY <1>1, <2>1, <2>2, Renamed
<1>3. NoRecordYet'
  <2>1. ASSUME NEW p \in Places, p[2] \in Unfinished, root'[p] # Nothing PROVE root'[p] = root[p]
    <3>1. p # g /\ p # f
      BY <1>1, <1>2, <2>1 DEF Unfinished
    <3> QED BY <1>2, <3>1
  <2> QED BY <2>1 DEF RecordInv, NoRecordYet
<1>4. RecordMeansCopy'
  <2>1. ASSUME NEW n \in Names \ trimmed, root'[n, ""] # Nothing, root'[n, ""].record PROVE CopyOf(n, root'[n, ""])
    <3>1. CASE n = op.name
      BY <1>2, <2>1, <3>1
    <3>2. CASE n # op.name
      <4>1. <<n, "">> \in Places \ {f, g}
        BY <3>2 DEF Places, Suffixes
      <4>2. root'[n, ""] = root[n, ""]
        BY <1>2, <4>1
      <4> QED BY <2>1, <4>2 DEF RecordInv, RecordMeansCopy, Standing, CopyOf
    <3> QED BY <3>1, <3>2
  <2> QED BY <2>1 DEF RecordMeansCopy, Standing, CopyOf, ChecksOut
<1>5. FarManifest' /\ QueueOK' /\ AsideOK'
  BY DEF RecordInv, FarManifest, QueueOK, AsideOK
<1> QED BY <1>3, <1>4, <1>5 DEF RecordInv

LEMMA BackupStepRecords == ASSUME Typed, RecordInv, BackupStep PROVE RecordInv'
<1> USE DEF folderVars, history
<1>0. BackupTypeOK /\ op \in Operation
  BY DEF Typed, BackupTypeOK
<1> DEFINE f == <<op.name, "partial">>
<1>1. ASSUME NEW s \in Sealings, BeginBackup(s) PROVE RecordInv'
  <2>1. PICK n \in Names : n = made'
    BY <1>0, <1>1, NextName
  <2>2. <<n, "partial">> \in Places /\ <<n, "partial">>[2] \in Unfinished
    BY DEF Places, Suffixes, Unfinished
  <2>3. root' = [root EXCEPT ![<<n, "partial">>] = NewFolder(s)] /\ NewFolder(s) \in Folder /\ ~NewFolder(s).record
    BY <1>1, <2>1, NewFolderTyped DEF BeginBackup, NewFolder
  <2>4. op'.phase = "begun" /\ UNCHANGED <<far, trimmed>>
    BY <1>1 DEF BeginBackup, NoOperation
  <2> QED BY <2>2, <2>3, <2>4, RecordUnfinished DEF Copying
<1>2. ASSUME op.phase \in Making, NEW v \in Folder \cup {Nothing}, v # Nothing => v.record = root[f].record,
             root' = [root EXCEPT ![f] = v], UNCHANGED <<far, trimmed>>, op'.phase \in Making \cup {"idle"}
      PROVE  RecordInv'
  <2>1. f \in Places /\ f[2] \in Unfinished /\ root[f] \in Folder
    BY <1>2, Folders DEF Making, Suffixes, Unfinished
  <2>2. ~root[f].record
    BY <1>2, <2>1, NothingIsNone DEF RecordInv, NoRecordYet
  <2> QED BY <1>2, <2>1, <2>2, RecordUnfinished DEF Copying, Making
<1>3. CASE Snapshot
  <2> DEFINE N == {h \in Hashes : Referenced(h)}
  <2> DEFINE v == [root[f] EXCEPT !.database = TRUE, !.names = N]
  <2>1. op.phase = "begun" /\ root[f] \in Folder
    BY <1>3, Folders DEF Snapshot, Making
  <2>2. v \in Folder /\ v.record = root[f].record
    BY <2>1 DEF Folder
  <2>3. op'.phase = "snapped"
    BY <1>0, <1>3 DEF Snapshot, Goto, Operation
  <2>4. root' = [root EXCEPT ![f] = v] /\ UNCHANGED <<far, trimmed>>
    BY <1>3 DEF Snapshot
  <2> QED BY <1>2, <2>1, <2>2, <2>3, <2>4 DEF Making
<1>4. CASE BeginWalk
  <2>1. op'.phase = "walking"
    BY <1>0, <1>4 DEF BeginWalk, Operation
  <2> QED BY <1>4, <2>1, RecordBeside, Alike DEF BeginWalk, Copying
<1>5. ASSUME NEW h \in Hashes, CopyFile(h) PROVE RecordInv'
  <2>1. op.phase = "walking" /\ root[f] \in Folder /\ op.name \in Names
    BY <1>5, Folders DEF CopyFile, Making
  <2>2. op'.phase = "walking" /\ UNCHANGED <<far, trimmed>>
    BY <1>0, <1>5, <2>1 DEF CopyFile, Operation
  <2>3. CASE UNCHANGED root
    BY <2>2, <2>3, RecordBeside, Alike DEF Copying
  <2>4. CASE h \in files
    <3>1. PICK x \in Shared(h) \cup {<<h, op.salt>>} : root' = [root EXCEPT ![f].has = @ \cup {x}]
      BY <1>5, <2>4 DEF CopyFile
    <3>2. op.from # 0 /\ Standing(op.from) # Nothing => Standing(op.from) \in Folder
      BY <1>0, Folders DEF Operation
    <3>3. Shared(h) \subseteq Hashes \X Sealings
      BY <3>2 DEF Shared, Folder
    <3>4. x \in Hashes \X Sealings
      BY <1>0, <3>1, <3>3 DEF Operation
    <3>5. [root[f] EXCEPT !.has = root[f].has \cup {x}] \in Folder
          /\ [root[f] EXCEPT !.has = root[f].has \cup {x}].record = root[f].record
      BY <2>1, <3>4 DEF Folder
    <3>6. root' = [root EXCEPT ![f] = [root[f] EXCEPT !.has = root[f].has \cup {x}]]
      BY <3>1
    <3> QED BY <1>2, <2>1, <2>2, <3>5, <3>6 DEF Making
  <2> QED BY <1>5, <2>3, <2>4 DEF CopyFile
<1>6. CASE WriteManifest
  <2> DEFINE v == [root[f] EXCEPT !.manifest = TRUE, !.kept = root[f].has, !.lost = op.lost]
  <2>1. op.phase = "walking" /\ root[f] \in Folder
    BY <1>6, Folders DEF WriteManifest, Making
  <2>2. v \in Folder /\ v.record = root[f].record
    BY <1>0, <2>1 DEF Folder, Operation
  <2>3. op'.phase = "written"
    BY <1>0, <1>6 DEF WriteManifest, Goto, Operation
  <2>4. root' = [root EXCEPT ![f] = v] /\ UNCHANGED <<far, trimmed>>
    BY <1>6 DEF WriteManifest
  <2> QED BY <1>2, <2>1, <2>2, <2>3, <2>4 DEF Making
<1>7. CASE PutInPlace
  <2>1. op.phase = "written" /\ op.name \in Names /\ f \in Places /\ root[f] \in Folder
    BY <1>7, Folders DEF PutInPlace, Making, Suffixes
  <2>2. ~root[f].record
    BY <2>1, NothingIsNone DEF RecordInv, NoRecordYet, Unfinished
  <2>3. op'.phase = "placed"
    BY <1>0, <1>7 DEF PutInPlace, Goto, Operation
  <2> QED BY <1>7, <2>1, <2>2, <2>3, RecordRenamed DEF PutInPlace, Suffixes, Copying
<1>8. CASE FailBackup
  <2>1. op.phase \in Making /\ root[f] \in Folder
    BY <1>8, Folders DEF FailBackup, Making
  <2>2. PICK left \in {Nothing, root[f]} : root' = [root EXCEPT ![f] = left]
    BY <1>8 DEF FailBackup, Removed
  <2>3. UNCHANGED <<far, trimmed>> /\ op'.phase = "idle"
    BY <1>8, Stopped DEF FailBackup
  <2> QED BY <1>2, <2>1, <2>2, <2>3
<1>9. CASE BeginPrune
  <2>1. op'.phase = "pruning"
    BY <1>0, <1>9 DEF BeginPrune, Goto, Operation
  <2> QED BY <1>9, <2>1, RecordBeside, Alike DEF BeginPrune, Copying
<1>10. CASE PrunePartials
  <2>1. op'.phase = "pruned"
    BY <1>0, <1>10 DEF PrunePartials, Goto, Operation
  <2>2. root \in [Places -> Folder \cup {Nothing}]
    BY TypeParts DEF Typed, RootOK
  <2>3. \A p \in Places : root'[p] = root[p] \/ root'[p] = Nothing
    BY <1>10, <2>2 DEF PrunePartials
  <2>4. \A p \in Places : Lessened(root[p], root'[p])
    BY <2>3, Alike
  <2> QED BY <1>10, <2>1, <2>4, RecordBeside DEF PrunePartials, Copying
<1> QED BY <1>1, <1>3, <1>4, <1>5, <1>6, <1>7, <1>8, <1>9, <1>10 DEF BackupStep

LEMMA RemovalStepRecords == ASSUME Typed, RecordInv, RemovalStep PROVE RecordInv'
<1> USE DEF folderVars, history
<1>1. ASSUME NEW n \in Names, DeleteBackup(n) PROVE RecordInv'
  BY <1>1, RecordBeside, Alike DEF DeleteBackup
<1>2. ASSUME NEW r \in removing, OpenFolder(r) PROVE RecordInv'
  BY <1>2, RecordBeside, Alike DEF OpenFolder
<1>3. ASSUME NEW r \in removing, NEW v \in Folder \cup {Nothing}, Lessened(root[r.at], v),
             root' = [root EXCEPT ![r.at] = v], UNCHANGED <<far, trimmed, op>>
      PROVE  RecordInv'
  <2>1. r.at \in Places /\ BackupTypeOK
    BY TypeParts DEF Typed, RemovingOK
  <2>2. root'[r.at] = v /\ \A g \in Places \ {r.at} : root'[g] = root[g]
    BY <1>3, <2>1, RootChanged
  <2>3. \A p \in Places : Lessened(root[p], root'[p])
    BY <1>3, <2>2, Alike
  <2> QED BY <1>3, <2>3, RecordBeside
<1>4. ASSUME NEW r \in removing, RemovePiece(r) PROVE RecordInv'
  <2>1. root[r.at] # Nothing /\ root[r.at] \in Folder
    BY <1>4, TypeParts DEF Typed, RootOK, RemovingOK, RemovePiece
  <2>2. PICK v \in Folder : /\ root' = [root EXCEPT ![r.at] = v]
                            /\ v.salt = root[r.at].salt /\ v.kept = root[r.at].kept /\ (v.record => root[r.at].record)
    BY <1>4, <2>1, PieceRemoved
  <2>3. Lessened(root[r.at], v)
    BY <2>1, <2>2 DEF Lessened
  <2> QED BY <1>3, <1>4, <2>2, <2>3 DEF RemovePiece
<1>5. ASSUME NEW r \in removing, EndRemoval(r) PROVE RecordInv'
  <2>1. UNCHANGED <<far, trimmed, op>>
    BY <1>5 DEF EndRemoval
  <2>2. CASE UNCHANGED root
    BY <2>1, <2>2, RecordBeside, Alike
  <2>3. CASE root' = [root EXCEPT ![r.at] = Nothing]
    BY <1>3, <2>1, <2>3, Alike
  <2> QED BY <1>5, <2>2, <2>3 DEF EndRemoval
<1> QED BY <1>1, <1>2, <1>4, <1>5 DEF RemovalStep

\* One second copy changes, of a backup that has no record or whose copy this is.
LEMMA FarChangedRecords ==
    ASSUME Typed, RecordInv, op.phase \in Copying, NEW n \in Names, UNCHANGED root, trimmed' \cup {n} = trimmed \cup {n},
           \A m \in Names \ {n} : far'[m, ""] = far[m, ""], FarManifest',
           Standing(n) # Nothing => ~Standing(n).record
    PROVE  NoRecordYet' /\ RecordMeansCopy'
<1>1. NoRecordYet'
  BY DEF RecordInv, NoRecordYet
<1>2. ASSUME NEW m \in Names \ trimmed', Standing(m) # Nothing, Standing(m).record
      PROVE  m # n /\ m \notin trimmed
  BY <1>2
<1>3. RecordMeansCopy'
  <2>1. \A m \in Names \ trimmed' : Standing(m) # Nothing /\ Standing(m).record => m \in Names \ {n} /\ m \notin trimmed
    BY <1>2
  <2> QED BY <2>1 DEF RecordInv, RecordMeansCopy, Standing, ChecksOut
<1> QED BY <1>1, <1>3

LEMMA CopyStepRecords == ASSUME Typed, Typed', RecordInv, CopyStep PROVE RecordInv'
<1> USE DEF folderVars, history
<1>0. BackupTypeOK /\ op \in Operation /\ far \in [FarPlaces -> Folder \cup {Nothing}]
  BY TypeParts DEF Typed, BackupTypeOK, FarOK
<1>1. CASE BeginCopies
  <2>1. CASE Stop
    BY <1>1, <2>1, Stopped, RecordBeside, Alike DEF BeginCopies, Copying
  <2>2. CASE op' = [NoOperation EXCEPT !.phase = "copying", !.queue = Waiting]
    <3>1. op'.phase = "copying" /\ op'.queue = Waiting
      BY <2>2 DEF NoOperation
    <3>2. UNCHANGED <<root, far, trimmed>>
      BY <1>1 DEF BeginCopies
    <3>3. \A m \in Waiting : ~Standing(m).record
      BY DEF Waiting
    <3>4. QueueOK'
      BY <3>1, <3>2, <3>3 DEF QueueOK, Standing
    <3>5. NoRecordYet' /\ FarManifest' /\ RecordMeansCopy' /\ AsideOK'
      BY <3>1, <3>2 DEF RecordInv, NoRecordYet, FarManifest, RecordMeansCopy, AsideOK, Standing, ChecksOut
    <3> QED BY <3>4, <3>5 DEF RecordInv
  <2> QED BY <1>1, <2>1, <2>2 DEF BeginCopies
<1>2. ASSUME NEW n \in Names, BeginCopy(n) PROVE RecordInv'
  <2>1. op.phase = "copying" /\ n \in op.queue /\ UNCHANGED <<root, trimmed>>
    BY <1>2 DEF BeginCopy
  <2>2. \A m \in op.queue : Standing(m) # Nothing => ~Standing(m).record
    BY <2>1 DEF RecordInv, QueueOK, Copying
  <2>3. CASE /\ far[n, ""] # Nothing /\ SameManifest(n) /\ ChecksOut(far[n, ""])
             /\ op' = [op EXCEPT !.phase = "sent", !.name = n] /\ UNCHANGED far
    <3>1. op'.phase = "sent" /\ op'.name = n /\ op'.queue = op.queue
      BY <1>0, <2>3 DEF Operation
    <3>2. far[n, ""].manifest
      BY <2>3 DEF RecordInv, FarManifest
    <3>3. CopyOf(n, Standing(n))
      BY <2>3, <3>2 DEF CopyOf, SameManifest
    <3>4. QueueOK'
      BY <2>1, <2>2, <2>3, <3>1, <3>3 DEF QueueOK, Standing, CopyOf, ChecksOut
    <3>5. NoRecordYet' /\ FarManifest' /\ RecordMeansCopy' /\ AsideOK'
      BY <2>1, <2>3, <3>1 DEF RecordInv, NoRecordYet, FarManifest, RecordMeansCopy, AsideOK, Standing, ChecksOut
    <3> QED BY <3>4, <3>5 DEF RecordInv
  <2>4. CASE /\ op' = [op EXCEPT !.phase = "sending", !.name = n, !.todo = Hashes]
             /\ far' = [far EXCEPT ![<<n, "">>] = Nothing, ![<<n, "partial">>] = NewFolder(Plain)]
    <3>1. op'.phase = "sending" /\ op'.name = n /\ op'.queue = op.queue
      BY <1>0, <2>4 DEF Operation
    <3>2. far'[n, ""] = Nothing /\ \A m \in Names \ {n} : far'[m, ""] = far[m, ""]
      <4>1. <<n, "">> \in FarPlaces /\ <<n, "partial">> \in FarPlaces /\ <<n, "">> # <<n, "partial">>
        BY DEF FarPlaces
      <4>2. ASSUME NEW m \in Names \ {n}
            PROVE  <<m, "">> \in FarPlaces /\ <<m, "">> # <<n, "">> /\ <<m, "">> # <<n, "partial">>
        BY DEF FarPlaces
      <4> QED BY <1>0, <2>4, <4>1, <4>2
    <3>3. FarManifest'
      BY <3>2 DEF RecordInv, FarManifest
    <3>4. NoRecordYet' /\ RecordMeansCopy'
      BY <2>1, <2>2, <3>2, <3>3, FarChangedRecords DEF Copying
    <3>5. QueueOK'
      BY <2>1, <2>2, <3>1 DEF QueueOK, Standing
    <3>6. AsideOK'
      BY <3>1 DEF AsideOK
    <3> QED BY <3>3, <3>4, <3>5, <3>6 DEF RecordInv
  <2> QED BY <1>2, <2>3, <2>4 DEF BeginCopy
<1>3. ASSUME NEW h \in Hashes, SendFile(h) PROVE RecordInv'
  <2> DEFINE f == <<op.name, "partial">>
  <2> DEFINE v == [far[f] EXCEPT !.has = far[f].has \cup {x \in Standing(op.name).has : x[1] = h},
                                 !.database = far[f].database \/ Standing(op.name).database]
  <2>1. op.phase = "sending" /\ op.name \in Names /\ f \in FarPlaces /\ far[f] \in Folder /\ Standing(op.name) \in Folder
    BY <1>3, Folders DEF SendFile
  <2>2. v \in Folder
    BY <2>1 DEF Folder
  <2>3. far' = [far EXCEPT ![f] = v] /\ UNCHANGED <<root, trimmed>>
    BY <1>0, <1>3, <2>1 DEF SendFile
  <2>4. \A m \in Names : far'[m, ""] = far[m, ""]
    <3>1. \A g \in FarPlaces \ {f} : far'[g] = far[g]
      BY <1>0, <2>1, <2>2, <2>3, FarChanged
    <3>2. ASSUME NEW m \in Names PROVE <<m, "">> \in FarPlaces \ {f}
      BY DEF FarPlaces
    <3> QED BY <3>1, <3>2
  <2>5. op'.phase = "sending" /\ op'.name = op.name /\ op'.queue = op.queue
    BY <1>0, <1>3 DEF SendFile, Operation
  <2>6. QueueOK'
    BY <2>1, <2>3, <2>5 DEF RecordInv, QueueOK, Copying, Standing
  <2>7. NoRecordYet' /\ FarManifest' /\ RecordMeansCopy' /\ AsideOK'
    <3>1. NoRecordYet' /\ FarManifest'
      BY <2>3, <2>4 DEF RecordInv, NoRecordYet, FarManifest
    <3>2. RecordMeansCopy'
      BY <2>3, <2>4, RecordUntouched DEF RecordInv
    <3> QED BY <2>5, <3>1, <3>2 DEF AsideOK
  <2> QED BY <2>6, <2>7 DEF RecordInv
<1>4. CASE PlaceCopy
  <2> DEFINE n == op.name
  <2> DEFINE v == Sent(op.name)
  <2>1. /\ op.phase = "sending" /\ n \in Names /\ Standing(n) \in Folder /\ Standing(n) # Nothing /\ Standing(n).manifest
        /\ far[n, "partial"] \in Folder
    BY <1>4, Folders DEF PlaceCopy, Listed
  <2>2. v \in Folder /\ v.manifest /\ v.salt = Standing(n).salt /\ v.kept = Standing(n).kept /\ ChecksOut(v)
    <3>1. v \in Folder /\ v.manifest = Standing(n).manifest /\ v.salt = Standing(n).salt /\ v.kept = Standing(n).kept
      BY <2>1 DEF Sent, Folder
    <3> QED BY <1>4, <2>1, <3>1 DEF PlaceCopy
  <2>3. far' = [far EXCEPT ![<<n, "partial">>] = Nothing, ![<<n, "">>] = v] /\ trimmed' = trimmed \ {n} /\ UNCHANGED root
    BY <1>4 DEF PlaceCopy
  <2>4. far'[n, ""] = v /\ \A m \in Names \ {n} : far'[m, ""] = far[m, ""]
    <3>1. <<n, "">> \in FarPlaces /\ <<n, "partial">> \in FarPlaces /\ <<n, "">> # <<n, "partial">>
      BY <2>1 DEF FarPlaces
    <3>2. ASSUME NEW m \in Names \ {n}
          PROVE  <<m, "">> \in FarPlaces /\ <<m, "">> # <<n, "">> /\ <<m, "">> # <<n, "partial">>
      BY DEF FarPlaces
    <3> QED BY <1>0, <2>3, <3>1, <3>2
  <2>5. n \in op.queue /\ \A m \in op.queue : Standing(m) # Nothing => ~Standing(m).record
    BY <2>1 DEF RecordInv, QueueOK, Copying
  <2>6. FarManifest'
    <3>1. ASSUME NEW m \in Names, far'[m, ""] # Nothing PROVE far'[m, ""].manifest
      <4>1. CASE m = n
        BY <2>2, <2>4, <4>1
      <4>2. CASE m # n
        BY <2>4, <3>1, <4>2 DEF RecordInv, FarManifest
      <4> QED BY <4>1, <4>2
    <3> QED BY <3>1 DEF FarManifest
  <2>7. NoRecordYet' /\ RecordMeansCopy'
    <3>1. trimmed' \cup {n} = trimmed \cup {n}
      BY <2>3
    <3> QED BY <2>1, <2>3, <2>4, <2>5, <2>6, <3>1, FarChangedRecords DEF Copying
  <2>8. op'.phase = "sent" /\ op'.name = n /\ op'.queue = op.queue
    BY <1>0, <1>4 DEF PlaceCopy, Goto, Operation
  <2>9. QueueOK'
    <3>1. far'[n, ""] # Nothing /\ far'[n, ""].manifest /\ ChecksOut(far'[n, ""])
          /\ far'[n, ""].salt = Standing(n).salt /\ far'[n, ""].kept = Standing(n).kept
      BY <2>2, <2>4, NothingIsNone
    <3> QED BY <2>3, <2>5, <2>8, <3>1 DEF QueueOK, CopyOf, ChecksOut, Standing
  <2>10. AsideOK'
    BY <2>8 DEF AsideOK
  <2> QED BY <2>6, <2>7, <2>9, <2>10 DEF RecordInv
<1>5. CASE RecordCopy
  <2> DEFINE n == op.name
  <2> DEFINE f == <<op.name, "">>
  <2> DEFINE v == [root[f] EXCEPT !.record = TRUE]
  <2>1. op.phase = "sent" /\ n \in Names /\ f \in Places /\ root[f] \in Folder /\ root[f] # Nothing
    BY <1>5, Folders, NothingIsNone DEF RecordCopy, Standing, Suffixes
  <2>2. v \in Folder /\ v.salt = root[f].salt /\ v.kept = root[f].kept
    BY <2>1 DEF Folder
  <2>3. root' = [root EXCEPT ![f] = v] /\ UNCHANGED <<far, trimmed>>
    BY <1>5 DEF RecordCopy
  <2>4. root'[f] = v /\ \A g \in Places \ {f} : root'[g] = root[g]
    BY <1>0, <2>1, <2>2, <2>3, RootChanged
  <2>5. op'.phase = "copying" /\ op'.queue = op.queue \ {n} /\ op.queue \subseteq Names
    BY <1>0, <1>5 DEF RecordCopy, Operation
  <2>6. \A m \in Names \ {n} : root'[m, ""] = root[m, ""]
    <3>1. ASSUME NEW m \in Names \ {n} PROVE <<m, "">> \in Places \ {f}
      BY DEF Places, Suffixes
    <3> QED BY <2>4, <3>1
  <2>7. NoRecordYet'
    <3>1. f[2] = ""
      OBVIOUS
    <3> QED BY <2>4, <3>1 DEF RecordInv, NoRecordYet, Unfinished
  <2>8. n \notin trimmed => CopyOf(n, root[f])
    BY <2>1 DEF RecordInv, QueueOK, Copying, Standing
  <2>9. RecordMeansCopy'
    <3>1. ASSUME NEW m \in Names \ trimmed, root'[m, ""] # Nothing, root'[m, ""].record PROVE CopyOf(m, root'[m, ""])
      <4>1. CASE m = n
        BY <2>2, <2>4, <2>8, <3>1, <4>1 DEF CopyOf
      <4>2. CASE m # n
        BY <2>6, <3>1, <4>2 DEF RecordInv, RecordMeansCopy, Standing, CopyOf
      <4> QED BY <4>1, <4>2
    <3> QED BY <2>3, <3>1 DEF RecordMeansCopy, Standing, CopyOf, ChecksOut
  <2>10. QueueOK'
    <3>1. \A m \in op.queue \ {n} : root[m, ""] # Nothing => ~root[m, ""].record
      BY <2>1 DEF RecordInv, QueueOK, Copying, Standing
    <3> QED BY <2>5, <2>6, <3>1 DEF QueueOK, Standing
  <2>11. FarManifest' /\ AsideOK'
    BY <2>3, <2>5 DEF RecordInv, FarManifest, AsideOK
  <2> QED BY <2>7, <2>9, <2>10, <2>11 DEF RecordInv
<1>6. CASE FailCopy
  <2> DEFINE f == <<op.name, "partial">>
  <2>1. f \in FarPlaces /\ UNCHANGED <<root, trimmed>> /\ op'.phase = "idle"
    BY <1>6, Folders, Stopped DEF FailCopy
  <2>2. PICK left \in {Nothing, far[f]} : far' = [far EXCEPT ![f] = left]
    BY <1>6 DEF FailCopy, Removed
  <2>3. \A m \in Names : far'[m, ""] = far[m, ""]
    <3>1. left \in Folder \cup {Nothing}
      BY <1>0, <2>1, <2>2
    <3>2. \A g \in FarPlaces \ {f} : far'[g] = far[g]
      BY <1>0, <2>1, <2>2, <3>1, FarChanged
    <3>3. ASSUME NEW m \in Names PROVE <<m, "">> \in FarPlaces \ {f}
      BY DEF FarPlaces
    <3> QED BY <3>2, <3>3
  <2>4. NoRecordYet' /\ FarManifest' /\ RecordMeansCopy'
    BY <2>1, <2>3 DEF RecordInv, NoRecordYet, FarManifest, RecordMeansCopy, Standing, ChecksOut
  <2>5. QueueOK' /\ AsideOK'
    BY <2>1 DEF QueueOK, AsideOK, Copying
  <2> QED BY <2>4, <2>5 DEF RecordInv
<1>7. CASE TrimCopies
  <2> DEFINE all == {n \in Names : far[n, ""] # Nothing /\ far[n, ""].manifest}
  <2> DEFINE old == all \ Newest(all)
  <2>1. PICK torn \in SUBSET old :
          far' = [f \in DOMAIN far |->
                    IF f[2] = "partial" \/ f[1] \in old \ torn THEN Nothing
                    ELSE IF f[1] \in torn THEN [far[f] EXCEPT !.has = {}] ELSE far[f]]
    BY <1>7 DEF TrimCopies
  <2>2. UNCHANGED root /\ trimmed' = trimmed \cup old /\ op'.phase = "idle"
    BY <1>7, Stopped DEF TrimCopies
  <2>3. \A m \in Names : far'[m, ""] = IF m \in old \ torn THEN Nothing
                                       ELSE IF m \in torn THEN [far[m, ""] EXCEPT !.has = {}] ELSE far[m, ""]
    <3>1. ASSUME NEW m \in Names PROVE <<m, "">> \in FarPlaces /\ <<m, "">>[1] = m /\ <<m, "">>[2] = ""
      BY DEF FarPlaces
    <3> QED BY <1>0, <2>1, <3>1
  <2>4. FarManifest'
    <3>1. ASSUME NEW m \in Names, far'[m, ""] # Nothing PROVE far'[m, ""].manifest
      <4>1. CASE m \in torn
        <5>1. far[m, ""] # Nothing /\ far[m, ""].manifest /\ far[m, ""] \in Folder
          BY <2>1, <4>1, Folders
        <5>2. [far[m, ""] EXCEPT !.has = {}].manifest = far[m, ""].manifest
          BY <5>1 DEF Folder
        <5> QED BY <2>3, <4>1, <5>1, <5>2
      <4>2. CASE m \notin torn
        BY <2>3, <3>1, <4>2 DEF RecordInv, FarManifest
      <4> QED BY <4>1, <4>2
    <3> QED BY <3>1 DEF FarManifest
  <2>5. \A m \in Names \ trimmed' : m \notin trimmed /\ far'[m, ""] = far[m, ""]
    BY <2>1, <2>2, <2>3
  <2>6. NoRecordYet' /\ RecordMeansCopy'
    BY <2>2, <2>5 DEF RecordInv, NoRecordYet, RecordMeansCopy, Standing, ChecksOut
  <2>7. QueueOK' /\ AsideOK'
    BY <2>2 DEF QueueOK, AsideOK, Copying
  <2> QED BY <2>4, <2>6, <2>7 DEF RecordInv
<1> QED BY <1>1, <1>2, <1>3, <1>4, <1>5, <1>6, <1>7 DEF CopyStep

LEMMA ResealStepRecords == ASSUME Typed, RecordInv, ResealStep PROVE RecordInv'
<1> USE DEF folderVars, history
<1>0. BackupTypeOK /\ op \in Operation
  BY DEF Typed, BackupTypeOK
<1> DEFINE R == <<op.name, "resealing">>
<1>1. ASSUME NEW n \in Names, NEW s \in Salts, BeginReseal(n, s) PROVE RecordInv'
  <2> DEFINE f == <<n, "resealing">>
  <2> DEFINE g == <<n, "replaced">>
  <2> DEFINE v == [NewFolder(s) EXCEPT !.lost = Standing(n).lost]
  <2>1. root \in [Places -> Folder \cup {Nothing}] /\ root' = [root EXCEPT ![f] = v, ![g] = Nothing]
    BY <1>1, TypeParts DEF BeginReseal, Typed, RootOK
  <2>2. f \in Places /\ g \in Places /\ f # g
    BY DEF Places, Suffixes
  <2>3. root'[f] = v /\ root'[g] = Nothing /\ \A p \in Places \ {f, g} : root'[p] = root[p]
    BY <2>1, <2>2
  <2>4. ~v.record
    BY DEF NewFolder
  <2>5. NoRecordYet'
    BY <2>3, <2>4 DEF RecordInv, NoRecordYet
  <2>6. \A m \in Names : Lessened(root[m, ""], root'[m, ""])
    <3>1. ASSUME NEW m \in Names PROVE <<m, "">> \in Places \ {f, g}
      BY DEF Places, Suffixes
    <3> QED BY <2>3, <3>1, Alike
  <2>7. op'.phase = "resealing" /\ UNCHANGED <<far, trimmed>>
    BY <1>1 DEF BeginReseal, NoOperation
  <2> QED BY <2>5, <2>6, <2>7, RecordFrame DEF Copying
<1>2. ASSUME op.phase \in Reseals, NEW v \in Folder \cup {Nothing}, v # Nothing => v.record = root[R].record,
             root' = [root EXCEPT ![R] = v], UNCHANGED <<far, trimmed>>, op'.phase \in {"resealing", "resealed", "idle"}
      PROVE  RecordInv'
  <2>1. R \in Places /\ R[2] \in Unfinished /\ root[R] \in Folder
    BY <1>2, Folders DEF Reseals, Suffixes, Unfinished
  <2>2. ~root[R].record
    BY <1>2, <2>1, NothingIsNone DEF RecordInv, NoRecordYet
  <2> QED BY <1>2, <2>1, <2>2, RecordUnfinished DEF Copying
<1>3. ASSUME NEW h \in Hashes, ResealFile(h) PROVE RecordInv'
  <2> DEFINE v == [root[R] EXCEPT !.has = root[R].has \cup {<<h, op.salt>>}]
  <2>1. op.phase = "resealing" /\ root[R] \in Folder
    BY <1>3, Folders DEF ResealFile, Reseals
  <2>2. op'.phase = "resealing" /\ UNCHANGED <<far, trimmed>>
    BY <1>0, <1>3, <2>1 DEF ResealFile, Operation
  <2>3. CASE UNCHANGED root
    BY <2>2, <2>3, RecordBeside, Alike DEF Copying
  <2>4. CASE root' = [root EXCEPT ![R] = v]
    <3>1. v \in Folder /\ v.record = root[R].record
      BY <1>0, <2>1 DEF Folder, Operation
    <3> QED BY <1>2, <2>1, <2>2, <2>4, <3>1 DEF Reseals
  <2> QED BY <1>3, <2>3, <2>4 DEF ResealFile
<1>4. CASE WriteResealed
  <2> DEFINE B == Standing(op.name)
  <2> DEFINE v == [root[R] EXCEPT !.database = B.database, !.names = B.names, !.manifest = TRUE, !.kept = root[R].has]
  <2>1. op.phase = "resealing" /\ root[R] \in Folder /\ B \in Folder
    BY <1>4, Folders DEF WriteResealed, Reseals
  <2>2. v \in Folder /\ v.record = root[R].record
    BY <2>1 DEF Folder
  <2>3. op'.phase = "resealed" /\ root' = [root EXCEPT ![R] = v] /\ UNCHANGED <<far, trimmed>>
    BY <1>0, <1>4 DEF WriteResealed, Goto, Operation
  <2> QED BY <1>2, <2>1, <2>2, <2>3 DEF Reseals
<1>5. CASE FailReseal
  <2>1. op.phase \in Reseals /\ root[R] \in Folder
    BY <1>5, Folders DEF FailReseal, Reseals
  <2>2. PICK left \in {Nothing, root[R]} : root' = [root EXCEPT ![R] = left]
    BY <1>5 DEF FailReseal, Removed
  <2>3. UNCHANGED <<far, trimmed>> /\ op'.phase = "idle"
    BY <1>5, Stopped DEF FailReseal
  <2> QED BY <1>2, <2>1, <2>2, <2>3
<1>6. CASE SetAside
  <2> DEFINE f == <<op.name, "">>
  <2> DEFINE g == <<op.name, "replaced">>
  <2>1. op.phase = "resealed" /\ op.name \in Names /\ f \in Places /\ g \in Places /\ f # g /\ g[2] = "replaced"
    BY <1>6, Folders DEF SetAside, Suffixes
  <2>2. Rename(f, g) /\ UNCHANGED <<far, trimmed>>
    BY <1>6 DEF SetAside
  <2>3. root'[g] = root[f] /\ root'[f] = Nothing /\ root[f] # Nothing /\ \A p \in Places \ {f, g} : root'[p] = root[p]
    <3> HIDE DEF f, g
    <3>1. Rename(f, g) /\ root[f] # Nothing
      BY <2>2 DEF Rename
    <3> QED BY <2>1, <3>1, Renamed
  <2>4. NoRecordYet'
    <3>1. ASSUME NEW p \in Places, p[2] \in Unfinished, root'[p] # Nothing PROVE root'[p] = root[p]
      <4>1. p # g /\ p # f
        BY <2>1, <2>3, <3>1 DEF Unfinished
      <4> QED BY <2>3, <4>1
    <3> QED BY <3>1 DEF RecordInv, NoRecordYet
  <2>5. RecordMeansCopy'
    <3>1. ASSUME NEW n \in Names PROVE Lessened(root[n, ""], root'[n, ""])
      <4>1. CASE n = op.name
        BY <2>3, <4>1, Alike
      <4>2. CASE n # op.name
        <5>1. <<n, "">> \in Places \ {f, g}
          BY <4>2 DEF Places, Suffixes
        <5> QED BY <2>3, <5>1, Alike
      <4> QED BY <4>1, <4>2
    <3> QED BY <2>2, <3>1, RecordLessened DEF RecordInv
  <2>6. op'.phase = "setaside" /\ op'.name = op.name
    BY <1>0, <1>6 DEF SetAside, Goto, Operation
  <2>7. AsideOK'
    <3>1. root[f].record /\ op.name \notin trimmed => CopyOf(op.name, root[f])
      BY <2>1, <2>3 DEF RecordInv, RecordMeansCopy, Standing, CopyOf
    <3>2. root'[op'.name, "replaced"] = root[f]
      BY <2>3, <2>6
    <3> QED BY <2>2, <2>6, <3>1, <3>2 DEF AsideOK, CopyOf, ChecksOut
  <2>8. FarManifest' /\ QueueOK'
    BY <2>2, <2>6 DEF RecordInv, FarManifest, QueueOK, Copying
  <2> QED BY <2>4, <2>5, <2>7, <2>8 DEF RecordInv
<1>7. CASE PutResealed
  <2>1. op.phase = "setaside" /\ op.name \in Names /\ R \in Places /\ root[R] \in Folder
    BY <1>7, Folders DEF PutResealed, Reseals, Suffixes
  <2>2. ~root[R].record
    BY <2>1, NothingIsNone DEF RecordInv, NoRecordYet, Unfinished
  <2>3. op'.phase = "swapped"
    BY <1>0, <1>7 DEF PutResealed, Goto, Operation
  <2> QED BY <1>7, <2>1, <2>2, <2>3, RecordRenamed DEF PutResealed, Suffixes, Copying
<1>8. CASE PutBack
  <2>1. op.phase = "setaside" /\ op.name \in Names /\ op'.phase = "putback" /\ UNCHANGED <<far, trimmed>>
    BY <1>0, <1>8, Folders DEF PutBack, Goto, Operation
  <2>2. CASE Rename(<<op.name, "replaced">>, <<op.name, "">>)
    <3>1. root[op.name, "replaced"].record /\ op.name \notin trimmed => CopyOf(op.name, root[op.name, "replaced"])
      BY <2>1, <2>2 DEF RecordInv, AsideOK, Rename
    <3> QED BY <2>1, <2>2, <3>1, RecordRenamed DEF Suffixes, Copying
  <2>3. CASE UNCHANGED root
    BY <2>1, <2>3, RecordBeside, Alike DEF Copying
  <2> QED BY <1>8, <2>2, <2>3 DEF PutBack
<1>9. CASE DropLeftover
  <2> DEFINE f == <<op.name, IF op.phase = "putback" THEN "resealing" ELSE "replaced">>
  <2>1. f \in Places /\ op'.phase = "idle" /\ UNCHANGED <<far, trimmed>>
    BY <1>9, Folders, Stopped DEF DropLeftover, Suffixes
  <2>2. PICK left \in {Nothing, root[f]} : root' = [root EXCEPT ![f] = left]
    BY <1>9 DEF DropLeftover, Removed
  <2>3. left \in Folder \cup {Nothing}
    BY <2>1, <2>2, TypeParts DEF Typed, RootOK
  <2>4. root'[f] = left /\ \A g \in Places \ {f} : root'[g] = root[g]
    BY <1>0, <2>1, <2>2, <2>3, RootChanged
  <2>5. \A p \in Places : Lessened(root[p], root'[p])
    BY <2>2, <2>4, Alike
  <2> QED BY <2>1, <2>5, RecordBeside DEF Copying
<1> QED BY <1>1, <1>3, <1>4, <1>5, <1>6, <1>7, <1>8, <1>9 DEF ResealStep

LEMMA RestoreStepRecords == ASSUME Typed, RecordInv, RestoreStep PROVE RecordInv'
<1>1. UNCHANGED <<root, far, trimmed>>
  BY DEF RestoreStep, BeginRestore, RestoreDatabase, RestoreFile, PlaceRestored, CheckRestored, FailRestore, history
<1>2. op \in Operation
  BY DEF Typed, BackupTypeOK
<1>3. op'.phase \in Restoration \cup {"idle"}
  BY <1>2, Stopped DEF RestoreStep, BeginRestore, RestoreDatabase, RestoreFile, PlaceRestored, CheckRestored, FailRestore,
     Goto, Operation, NoOperation, Restoration
<1> QED BY <1>1, <1>3, RecordBeside, Alike DEF Restoration, Copying

LEMMA BackupRecords == ASSUME Typed, Typed', RecordInv, [BackupNext]_backupVars PROVE RecordInv'
<1>1. CASE UNCHANGED backupVars
  BY <1>1, RecordBeside, Alike DEF backupVars, ownVars, folderVars, history
<1>2. CASE Store
  <2>1. op \in Operation
    BY DEF Typed, BackupTypeOK
  <2>2. op' = op \/ op'.phase \in {"snapped", "walking"}
    BY <1>2, <2>1 DEF Store, Operation
  <2>3. UNCHANGED <<root, far, trimmed>>
    BY <1>2 DEF Store, folderVars, history
  <2> QED BY <2>2, <2>3, RecordBeside, Alike DEF Copying
<1>3. CASE RestartServer
  BY <1>3, Stopped, RecordBeside, Alike DEF RestartServer, folderVars, Copying
<1> QED
  BY <1>1, <1>2, <1>3, BackupStepRecords, RemovalStepRecords, CopyStepRecords, ResealStepRecords, RestoreStepRecords
  DEF BackupNext

LEMMA RecordInit == BackupInit => RecordInv
<1> SUFFICES ASSUME BackupInit PROVE RecordInv
  OBVIOUS
<1>1. \A f \in Places : root[f] = Nothing
  BY DEF BackupInit, Places
<1>2. \A n \in Names : Standing(n) = Nothing /\ far[n, ""] = Nothing
  BY <1>1 DEF BackupInit, Standing, Places, Suffixes
<1>3. op.phase = "idle"
  BY DEF BackupInit, NoOperation
<1> QED BY <1>1, <1>2, <1>3 DEF RecordInv, NoRecordYet, FarManifest, QueueOK, AsideOK, RecordMeansCopy, Copying

\* A backup that says it was copied (record_copy) has a copy in the other folder with
\* its manifest and every file that names, whatever was removed while it was sent:
\* a copy that is not complete is never put in place (copy_files), and one that is
\* there already is looked through before it is trusted (copy_backup).
THEOREM RecordsHold == BackupSpec => []RecordMeansCopy
<1> DEFINE I == Typed /\ RecordInv
<1>1. BackupInit => I
  BY BackupInitTyped, RecordInit
<1>2. I /\ [BackupNext]_backupVars => I'
  BY BackupTyped, BackupRecords
<1>3. I => RecordMeansCopy
  BY DEF RecordInv
<1> QED BY <1>1, <1>2, <1>3, PTL DEF BackupSpec

=============================================================================
