------------------------------- MODULE Backup -------------------------------
(***************************************************************************)
(* Backups of an environment: apps/server/src/backup.rs and                *)
(* backup_copy.rs, over the stored contents of BlobStore, which go on      *)
(* being stored, deleted and collected meanwhile.                          *)
(*                                                                         *)
(* One operation runs at a time (BackupStatus::running): a backup, followed *)
(* by its second copy, a copy alone, a restore, or a reseal with a new     *)
(* key.  Deleting a backup only looks whether one runs, and then removes   *)
(* the folder piece by piece beside whatever begins next.  Any step of the *)
(* file system may fail, and the process may end between any two of them.  *)
(***************************************************************************)
EXTENDS BlobStore, FiniteSets

CONSTANTS MaxBackups,    \* bound: backups ever begun, each in a second of its own
          Keep,          \* setting backup_keep
          Keys,          \* passphrases
          Salts, KeyOf,  \* ways of sealing, and the passphrase that opens each
          Plain,         \* the way of a backup that is not sealed
          Environments,  \* names of restored environments
          Nothing        \* no folder

ASSUME BackupConstants ==
    /\ MaxBackups \in Nat
    /\ Keep \in Nat \ {0}
    /\ KeyOf \in [Salts -> Keys]
    /\ Plain \notin Salts
    /\ None \notin Keys \cup Environments

VARIABLES
    root,      \* the backup folder: what stands under each name and suffix
    far,       \* the folder of second copies
    env,       \* environment folders that restores made
    keys,      \* REPOMEMO_BACKUP_KEY and REPOMEMO_BACKUP_KEY_PREVIOUS
    op,        \* the operation that runs
    removing,  \* removals at work in the backup folder
    made,      \* backups begun
    finished,  \* backups that were put in place                  (history)
    doomed,    \* backups whose removal was ever begun            (history)
    aside,     \* backups that a reseal left without their folder (history)
    trimmed    \* second copies whose removal was ever begun      (history)

folderVars == <<root, far, env>>
history    == <<finished, doomed, aside, trimmed>>
ownVars    == <<folderVars, keys, op, removing, made, history>>
backupVars == <<vars, ownVars>>

Names    == 1..MaxBackups
Suffixes == {"", "partial", "resealing", "replaced"}
Sealings == Salts \cup {Plain}

\* database, manifest, record: whether repomemo.sqlite, manifest.json, copy.json are
\* there.  names: what the database refers to.  has: the stored files, each with the
\* way it is sealed.  salt, kept: what the manifest says, kept being the number and
\* size of the files.  lost: what was collected since the snapshot (history).
Folder == [database: BOOLEAN, names: SUBSET Hashes, has: SUBSET (Hashes \X Sealings),
           manifest: BOOLEAN, salt: Sealings, kept: SUBSET (Hashes \X Sealings),
           lost: SUBSET Hashes, record: BOOLEAN]
NewFolder(s) == [database |-> FALSE, names |-> {}, has |-> {}, manifest |-> FALSE, salt |-> s,
                 kept |-> {}, lost |-> {}, record |-> FALSE]

Environment == [state: {"restoring", "placed", "ready"}, of: Names,
                names: SUBSET Hashes, has: SUBSET Hashes, lost: SUBSET Hashes]

ASSUME NothingIsNone == Nothing \notin Folder \cup Environment

Phases == {"idle", "begun", "snapped", "walking", "written", "placed", "pruning", "pruned",
           "copying", "sending", "sent", "resealing", "resealed", "setaside", "swapped", "putback",
           "restoring", "opening", "restored"}
Operation == [phase: Phases, name: Names \cup {0}, salt: Sealings, from: Names \cup {0},
              todo: SUBSET Hashes, lost: SUBSET Hashes, env: Environments \cup {None},
              queue: SUBSET Names]
NoOperation == [phase |-> "idle", name |-> 0, salt |-> Plain, from |-> 0, todo |-> {},
                lost |-> {}, env |-> None, queue |-> {}]

BackupTypeOK ==
    /\ root \in [Names \X Suffixes -> Folder \cup {Nothing}]
    /\ far \in [Names \X {"", "partial"} -> Folder \cup {Nothing}]
    /\ env \in [Environments -> Environment \cup {Nothing}]
    /\ keys \in [current: Keys \cup {None}, previous: Keys \cup {None}]
    /\ op \in Operation
    /\ op.phase = "idle" => op = NoOperation
    /\ op.phase \notin {"idle", "copying"} => op.name \in Names
    /\ op.phase \in {"restoring", "opening", "restored"} => op.env \in Environments
    /\ removing \subseteq [at: Names \X Suffixes, open: BOOLEAN, pruned: BOOLEAN]
    /\ made \in 0..MaxBackups
    /\ finished \subseteq Names /\ doomed \subseteq Names /\ aside \subseteq Names /\ trimmed \subseteq Names

BackupInit ==
    /\ Init
    /\ root = [f \in Names \X Suffixes |-> Nothing]
    /\ far = [f \in Names \X {"", "partial"} |-> Nothing]
    /\ env = [e \in Environments |-> Nothing]
    /\ keys \in [current: Keys \cup {None}, previous: {None}]
    /\ op = NoOperation
    /\ removing = {} /\ made = 0
    /\ finished = {} /\ doomed = {} /\ aside = {} /\ trimmed = {}

-----------------------------------------------------------------------------
(* What stands in the folders *)

Standing(n) == root[n, ""]
Listed(n) == Standing(n) # Nothing /\ Standing(n).manifest

\* The first `Keep` of a set of backups, newest first, and the others.
Newest(S)    == {n \in S : Cardinality({m \in S : m > n}) < Keep}
AllListed    == {n \in Names : Listed(n)}
Latest(n)    == Listed(n) /\ \A m \in AllListed : m <= n

\* A new salt; the model has no more of them than Salts.
Unused(s) ==
    /\ \A f \in Names \X Suffixes : root[f] # Nothing => root[f].salt # s
    /\ \A f \in Names \X {"", "partial"} : far[f] # Nothing => far[f].salt # s
NewSalts == {s \in Salts : KeyOf[s] = keys.current /\ Unused(s)}

\* Mutant of SameSealing: any file of the right size will do.
AnySealing(n, s) == TRUE

\* Unchanged files are shared only with a backup sealed the same way.
SameSealing(n, s) == Standing(n).salt = s

\* choose_cipher: the salt of the newest backup, if the passphrase opens it.
Ciphers ==
    IF keys.current = None THEN {Plain}
    ELSE LET usable == {Standing(n).salt : n \in {m \in Names : Latest(m)}} IN
         IF \E s \in usable \cap Salts : KeyOf[s] = keys.current THEN usable ELSE NewSalts

Goto(phase) == op' = [op EXCEPT !.phase = phase]

\* Mutant of Stop: the status is marked, not begun anew.
StopInPlace == op' = [op EXCEPT !.phase = "idle"]
Stop        == op' = NoOperation

\* What is left of a folder after remove_dir_all: of an unlisted one whether it is
\* there is all that matters.
Removed(f) == {Nothing, f}

\* A folder that is renamed takes along the removals that have opened it.
Rename(f, g) ==
    /\ root[f] # Nothing /\ root[g] = Nothing
    /\ root' = [root EXCEPT ![g] = root[f], ![f] = Nothing]
    /\ removing' = {IF r.at = f /\ r.open THEN [r EXCEPT !.at = g] ELSE r : r \in removing}


-----------------------------------------------------------------------------
(* Making a backup *)

\* begin, and make_backup up to fill_backup.
BeginBackup(s) ==
    /\ op.phase = "idle"
    /\ made < MaxBackups
    /\ s \in Ciphers
    /\ made' = made + 1
    /\ root' = [root EXCEPT ![<<made', "partial">>] = NewFolder(s)]
    /\ op' = [NoOperation EXCEPT !.phase = "begun", !.name = made', !.salt = s]
    /\ UNCHANGED <<vars, far, env, keys, removing, history>>

\* snapshot_database: one read of the database, sealed at once.
Snapshot ==
    LET f == <<op.name, "partial">> IN
    /\ op.phase = "begun"
    /\ root' = [root EXCEPT ![f].database = TRUE, ![f].names = {h \in Hashes : Referenced(h)}]
    /\ Goto("snapped")
    /\ UNCHANGED <<vars, far, env, keys, removing, made, history>>

\* The backup whose files may be shared is looked up again, and the walk begins.
BeginWalk ==
    /\ op.phase = "snapped"
    /\ op' = [op EXCEPT !.phase = "walking", !.todo = Hashes,
                        !.from = IF \E n \in Names : Latest(n) /\ SameSealing(n, op.salt)
                                 THEN CHOOSE n \in Names : Latest(n) ELSE 0]
    /\ UNCHANGED <<vars, folderVars, keys, removing, made, history>>

\* What a file may be shared with: its copy in the backup before, if it is still there.
Shared(h) ==
    IF op.from = 0 \/ Standing(op.from) = Nothing THEN {}
    ELSE {x \in Standing(op.from).has : x[1] = h}

\* copy_files passes a content by: its file is shared or copied, if it is there.
CopyFile(h) ==
    LET f == <<op.name, "partial">> IN
    /\ op.phase = "walking"
    /\ h \in op.todo
    /\ IF h \in files
       THEN \E x \in Shared(h) \cup {<<h, op.salt>>} : root' = [root EXCEPT ![f].has = @ \cup {x}]
       ELSE UNCHANGED root
    /\ op' = [op EXCEPT !.todo = @ \ {h}]
    /\ UNCHANGED <<vars, far, env, keys, removing, made, history>>

\* The key file, the totals and the manifest.
WriteManifest ==
    LET f == <<op.name, "partial">> IN
    /\ op.phase = "walking"
    /\ op.todo = {}
    /\ root' = [root EXCEPT ![f] = [@ EXCEPT !.manifest = TRUE, !.kept = root[f].has, !.lost = op.lost]]
    /\ Goto("written")
    /\ UNCHANGED <<vars, far, env, keys, removing, made, history>>

PutInPlace ==
    /\ op.phase = "written"
    /\ Rename(<<op.name, "partial">>, <<op.name, "">>)
    /\ Goto("placed")
    /\ finished' = finished \cup {op.name}
    /\ UNCHANGED <<vars, far, env, keys, made, doomed, aside, trimmed>>

\* An error on the way: what was made is removed, but after a rename that fails.
FailBackup ==
    LET f == <<op.name, "partial">> IN
    /\ op.phase \in {"begun", "snapped", "walking", "written"}
    /\ \E left \in IF op.phase = "written" THEN {root[f]} ELSE Removed(root[f]) :
         root' = [root EXCEPT ![f] = left]
    /\ Stop
    /\ UNCHANGED <<vars, far, env, keys, removing, made, history>>

\* prune lists what is beyond the number to keep, and removes it.
BeginPrune ==
    LET old == AllListed \ Newest(AllListed) IN
    /\ op.phase = "placed"
    /\ removing' = removing \cup {[at |-> <<n, "">>, open |-> FALSE, pruned |-> TRUE] : n \in old}
    /\ doomed' = doomed \cup old
    /\ Goto("pruning")
    /\ UNCHANGED <<vars, folderVars, keys, made, finished, aside, trimmed>>

\* Then whatever did not finish.
PrunePartials ==
    /\ op.phase = "pruning"
    /\ \A r \in removing : ~r.pruned
    /\ \E kept \in SUBSET {f \in Names \X Suffixes : f[2] # "" /\ root[f] # Nothing} :
         root' = [f \in DOMAIN root |-> IF f[2] = "" \/ f \in kept THEN root[f] ELSE Nothing]
    /\ Goto("pruned")
    /\ UNCHANGED <<vars, far, env, keys, removing, made, history>>

-----------------------------------------------------------------------------
(* Removing backups *)

\* delete_backup: nothing runs, and the folder is there.
DeleteBackup(n) ==
    /\ op.phase = "idle"
    /\ Standing(n) # Nothing
    /\ removing' = removing \cup {[at |-> <<n, "">>, open |-> FALSE, pruned |-> FALSE]}
    /\ doomed' = doomed \cup {n}
    /\ UNCHANGED <<vars, folderVars, keys, op, made, finished, aside, trimmed>>

\* remove_dir_all opens the folder, removes what is in it in any order, and then
\* the folder; an error ends it anywhere.
OpenFolder(r) ==
    /\ ~r.open
    /\ root[r.at] # Nothing
    /\ removing' = (removing \ {r}) \cup {[r EXCEPT !.open = TRUE]}
    /\ UNCHANGED <<vars, folderVars, keys, op, made, history>>

RemovePiece(r) ==
    /\ r.open
    /\ root[r.at] # Nothing
    /\ \/ \E x \in root[r.at].has : root' = [root EXCEPT ![r.at].has = @ \ {x}]
       \/ root[r.at].database /\ root' = [root EXCEPT ![r.at].database = FALSE]
       \/ root[r.at].manifest /\ root' = [root EXCEPT ![r.at].manifest = FALSE]
       \/ root[r.at].record /\ root' = [root EXCEPT ![r.at].record = FALSE]
    /\ UNCHANGED <<vars, far, env, keys, op, removing, made, history>>

Emptied(f) == f # Nothing /\ f.has = {} /\ ~f.database /\ ~f.manifest /\ ~f.record

EndRemoval(r) ==
    /\ removing' = removing \ {r}
    /\ \/ UNCHANGED root
       \/ r.open /\ Emptied(root[r.at]) /\ root' = [root EXCEPT ![r.at] = Nothing]
    /\ UNCHANGED <<vars, far, env, keys, op, made, history>>


-----------------------------------------------------------------------------
(* Second copies *)

Waiting == {n \in Newest(AllListed) : ~Standing(n).record}

\* copy_pending, after a backup or by itself; if there is a folder for copies, and
\* something waits.
BeginCopies ==
    /\ op.phase \in {"idle", "pruned"}
    /\ \/ op.phase = "pruned" /\ Stop
       \/ Waiting # {} /\ op' = [NoOperation EXCEPT !.phase = "copying", !.queue = Waiting]
    /\ UNCHANGED <<vars, folderVars, keys, removing, made, history>>

\* Whether the copy has the manifest of the backup, and checks out.
SameManifest(n) ==
    /\ Standing(n) # Nothing
    /\ Standing(n).manifest = far[n, ""].manifest
    /\ Standing(n).manifest => Standing(n).salt = far[n, ""].salt /\ Standing(n).kept = far[n, ""].kept
ChecksOut(c) == c.database /\ c.has = c.kept

\* copy_backup, of the oldest that waits: a copy that is there and good is kept, any
\* other is made afresh.
BeginCopy(n) ==
    /\ n \in op.queue /\ \A m \in op.queue : n <= m
    /\ op.phase = "copying"
    /\ IF far[n, ""] # Nothing /\ SameManifest(n) /\ ChecksOut(far[n, ""])
       THEN /\ op' = [op EXCEPT !.phase = "sent", !.name = n]
            /\ UNCHANGED far
       ELSE /\ op' = [op EXCEPT !.phase = "sending", !.name = n, !.todo = Hashes]
            /\ far' = [far EXCEPT ![<<n, "">>] = Nothing, ![<<n, "partial">>] = NewFolder(Plain)]
    /\ UNCHANGED <<vars, root, env, keys, removing, made, history>>

\* A file is sent and read back; or it is linked to that of the copy before, when the
\* hash that copy has noted for it is the file's (the linked one is not read).
SendFile(h) ==
    LET n == op.name IN
    /\ op.phase = "sending"
    /\ h \in op.todo
    /\ Standing(n) # Nothing
    /\ far' = [far EXCEPT ![<<n, "partial">>].has = @ \cup {x \in Standing(n).has : x[1] = h},
                          ![<<n, "partial">>].database = @ \/ Standing(n).database]
    /\ op' = [op EXCEPT !.todo = @ \ {h}]
    /\ UNCHANGED <<vars, root, env, keys, removing, made, history>>

\* What was sent, with the manifest of the backup.
Sent(n) == [Standing(n) EXCEPT !.has = far[n, "partial"].has, !.database = far[n, "partial"].database,
                             !.record = FALSE]

\* Mutant of PlaceCopy: the totals are not compared.
PlaceAny ==
    LET n == op.name IN
    /\ op.phase = "sending" /\ op.todo = {}
    /\ Listed(n)
    /\ far' = [far EXCEPT ![<<n, "partial">>] = Nothing, ![<<n, "">>] = Sent(n)]
    /\ trimmed' = trimmed \ {n}
    /\ Goto("sent")
    /\ UNCHANGED <<vars, root, env, keys, removing, made, finished, doomed, aside>>

\* The totals are those of the manifest, which is sent last.
PlaceCopy ==
    LET n == op.name IN
    /\ op.phase = "sending" /\ op.todo = {}
    /\ Listed(n)
    /\ ChecksOut(Sent(n))
    /\ far' = [far EXCEPT ![<<n, "partial">>] = Nothing, ![<<n, "">>] = Sent(n)]
    /\ trimmed' = trimmed \ {n}
    /\ Goto("sent")
    /\ UNCHANGED <<vars, root, env, keys, removing, made, finished, doomed, aside>>

RecordCopy ==
    /\ op.phase = "sent"
    /\ Standing(op.name) # Nothing
    /\ root' = [root EXCEPT ![<<op.name, "">>].record = TRUE]
    /\ op' = [op EXCEPT !.phase = "copying", !.queue = @ \ {op.name}]
    /\ UNCHANGED <<vars, far, env, keys, removing, made, history>>

\* The share is down, a file is gone or is not what it should be, the record
\* cannot be written: the backups left are for another time.
FailCopy ==
    /\ op.phase \in {"sending", "sent"}
    /\ \E left \in Removed(far[op.name, "partial"]) : far' = [far EXCEPT ![<<op.name, "partial">>] = left]
    /\ Stop
    /\ UNCHANGED <<vars, root, env, keys, removing, made, history>>

\* prune_copies, of complete copies and of what did not finish.  A removal that
\* fails or is cut off leaves some of the files.
TrimCopies ==
    LET all == {n \in Names : far[n, ""] # Nothing /\ far[n, ""].manifest}
        old == all \ Newest(all) IN
    /\ op.phase = "copying" /\ op.queue = {}
    /\ \E torn \in SUBSET old :
         far' = [f \in DOMAIN far |->
                    IF f[2] = "partial" \/ f[1] \in old \ torn THEN Nothing
                    ELSE IF f[1] \in torn THEN [far[f] EXCEPT !.has = {}] ELSE far[f]]
    /\ trimmed' = trimmed \cup old
    /\ Stop
    /\ UNCHANGED <<vars, root, env, keys, removing, made, finished, doomed, aside>>

-----------------------------------------------------------------------------
(* Sealing a backup again with a new key *)

\* start_reseal, and reseal_backup up to the sealing: the previous key opens the
\* backup, the current one does not.
BeginReseal(n, s) ==
    /\ op.phase = "idle"
    /\ Listed(n)
    /\ Standing(n).salt \in Salts
    /\ keys.current # None /\ KeyOf[Standing(n).salt] # keys.current
    /\ keys.previous # None /\ KeyOf[Standing(n).salt] = keys.previous
    /\ s \in NewSalts
    /\ root' = [root EXCEPT ![<<n, "resealing">>] = [NewFolder(s) EXCEPT !.lost = Standing(n).lost],
                            ![<<n, "replaced">>] = Nothing]
    /\ op' = [NoOperation EXCEPT !.phase = "resealing", !.name = n, !.salt = s, !.todo = Hashes]
    /\ UNCHANGED <<vars, far, env, keys, removing, made, history>>

ResealFile(h) ==
    LET n == op.name IN
    /\ op.phase = "resealing"
    /\ h \in op.todo
    /\ Standing(n) # Nothing
    /\ IF \E x \in Standing(n).has : x[1] = h
       THEN root' = [root EXCEPT ![<<n, "resealing">>].has = @ \cup {<<h, op.salt>>}]
       ELSE UNCHANGED root
    /\ op' = [op EXCEPT !.todo = @ \ {h}]
    /\ UNCHANGED <<vars, far, env, keys, removing, made, history>>

\* The database, the totals and the new manifest, without a record of a copy.
WriteResealed ==
    LET n == op.name IN
    /\ op.phase = "resealing"
    /\ op.todo = {}
    /\ Standing(n) # Nothing
    /\ root' = [root EXCEPT ![<<n, "resealing">>] =
                   [@ EXCEPT !.database = Standing(n).database, !.names = Standing(n).names,
                             !.manifest = TRUE, !.kept = root[n, "resealing"].has]]
    /\ Goto("resealed")
    /\ UNCHANGED <<vars, far, env, keys, removing, made, history>>

\* A file cannot be read, written or opened.
FailReseal ==
    LET f == <<op.name, "resealing">> IN
    /\ op.phase \in {"resealing", "resealed"}
    /\ \E left \in Removed(root[f]) : root' = [root EXCEPT ![f] = left]
    /\ Stop
    /\ UNCHANGED <<vars, far, env, keys, removing, made, history>>

SetAside ==
    /\ op.phase = "resealed"
    /\ Rename(<<op.name, "">>, <<op.name, "replaced">>)
    /\ Goto("setaside")
    /\ UNCHANGED <<vars, far, env, keys, made, history>>

PutResealed ==
    /\ op.phase = "setaside"
    /\ Rename(<<op.name, "resealing">>, <<op.name, "">>)
    /\ Goto("swapped")
    /\ UNCHANGED <<vars, far, env, keys, made, history>>

\* The second rename failed: the old folder is put back, unless that fails too, ...
PutBack ==
    /\ op.phase = "setaside"
    /\ \/ Rename(<<op.name, "replaced">>, <<op.name, "">>) /\ UNCHANGED aside
       \/ aside' = aside \cup {op.name} /\ UNCHANGED <<root, removing>>
    /\ Goto("putback")
    /\ UNCHANGED <<vars, far, env, keys, made, finished, doomed, trimmed>>

\* ... and the new one is removed either way; after both renames it is the old one.
DropLeftover ==
    LET f == <<op.name, IF op.phase = "putback" THEN "resealing" ELSE "replaced">> IN
    /\ op.phase \in {"swapped", "putback"}
    /\ \E left \in Removed(root[f]) : root' = [root EXCEPT ![f] = left]
    /\ Stop
    /\ UNCHANGED <<vars, far, env, keys, removing, made, history>>


-----------------------------------------------------------------------------
(* Restoring into a new environment *)

Opens(s) == s \in Salts => keys.current # None /\ KeyOf[s] \in {keys.current, keys.previous}

\* start_restore, and restore_backup up to copy_into.  A folder with SHA256SUMS has to
\* agree with them: that is a second copy which somebody has put among the backups, and
\* nothing in the model does.
BeginRestore(n, e) ==
    /\ op.phase = "idle"
    /\ Listed(n)
    /\ Opens(Standing(n).salt)
    /\ env[e] = Nothing
    /\ env' = [env EXCEPT ![e] = [state |-> "restoring", of |-> n, names |-> {}, has |-> {}, lost |-> Standing(n).lost]]
    /\ op' = [NoOperation EXCEPT !.phase = "restoring", !.name = n, !.env = e, !.salt = Standing(n).salt]
    /\ UNCHANGED <<vars, root, far, keys, removing, made, history>>

\* copy_into: the database first, ...
RestoreDatabase ==
    /\ op.phase = "restoring"
    /\ Standing(op.name) # Nothing /\ Standing(op.name).database
    /\ env' = [env EXCEPT ![op.env].names = Standing(op.name).names]
    /\ op' = [op EXCEPT !.phase = "opening", !.todo = Hashes]
    /\ UNCHANGED <<vars, root, far, keys, removing, made, history>>

\* ... then the files: one that is gone is passed by, one that does not open is an error.
RestoreFile(h) ==
    LET found == IF Standing(op.name) = Nothing THEN {} ELSE {x \in Standing(op.name).has : x[1] = h} IN
    /\ op.phase = "opening"
    /\ h \in op.todo
    /\ found \subseteq {<<h, op.salt>>}
    /\ env' = [env EXCEPT ![op.env].has = IF found = {} THEN @ ELSE @ \cup {h}]
    /\ op' = [op EXCEPT !.todo = @ \ {h}]
    /\ UNCHANGED <<vars, root, far, keys, removing, made, history>>

\* Mutant of PlaceRestored: the copy is not awaited.
PlaceEarly ==
    /\ op.phase = "opening"
    /\ env' = [env EXCEPT ![op.env].state = "placed"]
    /\ Goto("restored")
    /\ UNCHANGED <<vars, root, far, keys, removing, made, history>>

PlaceRestored ==
    /\ op.phase = "opening" /\ op.todo = {}
    /\ env' = [env EXCEPT ![op.env].state = "placed"]
    /\ Goto("restored")
    /\ UNCHANGED <<vars, root, far, keys, removing, made, history>>

\* The database opens, is sound and can be counted; or does not, and all is removed;
\* or cannot be counted, and stays.
CheckRestored ==
    /\ op.phase = "restored"
    /\ \E end \in {[env[op.env] EXCEPT !.state = "ready"], env[op.env], Nothing} :
         env' = [env EXCEPT ![op.env] = end]
    /\ Stop
    /\ UNCHANGED <<vars, root, far, keys, removing, made, history>>

\* An error in the copy, or a rename that fails.
FailRestore ==
    /\ op.phase \in {"restoring", "opening"}
    /\ \E left \in Removed(env[op.env]) : env' = [env EXCEPT ![op.env] = left]
    /\ Stop
    /\ UNCHANGED <<vars, root, far, keys, removing, made, history>>

-----------------------------------------------------------------------------
(* The stored contents go on, and the process ends *)

\* A step of BlobStore.  What is collected after the snapshot is lost to it.
Store ==
    /\ \/ Others
       \/ \E p \in Passes : Begin(p) \/ WorkStep(p) \/ End(p)
    /\ op' = IF op.phase \in {"snapped", "walking"} THEN [op EXCEPT !.lost = @ \cup (files \ files')] ELSE op
    /\ UNCHANGED <<folderVars, keys, removing, made, history>>

\* The process ends with everything half done, and starts with other keys perhaps.
RestartServer ==
    /\ Restart
    /\ Stop
    /\ removing' = {}
    /\ aside' = IF op.phase = "setaside" THEN aside \cup {op.name} ELSE aside
    /\ keys' \in [current: Keys \cup {None}, previous: Keys \cup {None}]
    /\ UNCHANGED <<folderVars, made, finished, doomed, trimmed>>

BackupStep ==
    \/ \E s \in Sealings : BeginBackup(s)
    \/ Snapshot
    \/ BeginWalk
    \/ \E h \in Hashes : CopyFile(h)
    \/ WriteManifest
    \/ PutInPlace
    \/ FailBackup
    \/ BeginPrune
    \/ PrunePartials

RemovalStep ==
    \/ \E n \in Names : DeleteBackup(n)
    \/ \E r \in removing : OpenFolder(r) \/ RemovePiece(r) \/ EndRemoval(r)

CopyStep ==
    \/ BeginCopies
    \/ \E n \in Names : BeginCopy(n)
    \/ \E h \in Hashes : SendFile(h)
    \/ PlaceCopy
    \/ RecordCopy
    \/ FailCopy
    \/ TrimCopies

ResealStep ==
    \/ \E n \in Names, s \in Salts : BeginReseal(n, s)
    \/ \E h \in Hashes : ResealFile(h)
    \/ WriteResealed
    \/ FailReseal
    \/ SetAside
    \/ PutResealed
    \/ PutBack
    \/ DropLeftover

RestoreStep ==
    \/ \E n \in Names, e \in Environments : BeginRestore(n, e)
    \/ RestoreDatabase
    \/ \E h \in Hashes : RestoreFile(h)
    \/ PlaceRestored
    \/ CheckRestored
    \/ FailRestore

BackupNext ==
    \/ BackupStep
    \/ RemovalStep
    \/ CopyStep
    \/ ResealStep
    \/ RestoreStep
    \/ Store
    \/ RestartServer

BackupSpec == BackupInit /\ [][BackupNext]_backupVars

-----------------------------------------------------------------------------
(* Properties *)

\* A folder from which everything can be had: it has its database and manifest,
\* every file it has opens with the way of sealing its manifest names, and it has
\* every content its database refers to that was not collected while it was made.
Whole(f) ==
    /\ f # Nothing /\ f.database /\ f.manifest
    /\ \A x \in f.has : x[2] = f.salt
    /\ \A h \in f.names \ f.lost : <<h, f.salt>> \in f.has

\* A backup that was finished stays whole, under its name or, while a reseal puts
\* the new folder in its place, beside it: through collections, failures and
\* restarts, until somebody or the pruning begins to remove it.  (`aside`: but for a
\* reseal that ends between its two renames.)
BackupsAreKept ==
    \A n \in finished \ (doomed \cup aside) :
        \/ Whole(Standing(n))
        \/ /\ op.phase = "setaside" /\ op.name = n
           /\ Whole(root[n, "replaced"]) /\ Whole(root[n, "resealing"])

\* A restore that reported success has everything the backup has to give, whatever
\* ran beside it, unless the backup was being removed.
RestoredIsWhole ==
    \A e \in Environments :
        env[e] # Nothing /\ env[e].state = "ready" /\ env[e].of \notin doomed =>
            env[e].names \ env[e].has \subseteq env[e].lost

\* A backup whose second copy is recorded has one with the same manifest and every
\* file, even if the backup was removed while it was sent; until the copy is trimmed.
RecordMeansCopy ==
    \A n \in Names \ trimmed :
        Standing(n) # Nothing /\ Standing(n).record =>
            /\ far[n, ""] # Nothing /\ far[n, ""].manifest /\ ChecksOut(far[n, ""])
            /\ far[n, ""].salt = Standing(n).salt /\ far[n, ""].kept = Standing(n).kept
=============================================================================
