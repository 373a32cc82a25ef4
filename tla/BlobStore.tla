----------------------------- MODULE BlobStore -----------------------------
(***************************************************************************)
(* Stored contents: crates/storage/src/artifacts.rs and staging.rs.        *)
(*                                                                         *)
(* A content is a file named by its hash and a row in `blobs`.  Handlers   *)
(* store contents and then make files (artifacts) refer to them; replacing *)
(* a file's content keeps the one before as a version.  Collection passes  *)
(* delete the contents nothing refers to, once they have not been stored   *)
(* for a grace time, and sweep files that have no row.  One lock           *)
(* (blob_lock) is held while a content is stored and while one is deleted. *)
(* A handler can be dropped at any await (its connection closes, its time  *)
(* is over); what it had handed to the database or the disk is done all    *)
(* the same, without its lock.  The process can end at any point.          *)
(* (Passes that run in a handler, and can be dropped too: Maintenance.)    *)
(***************************************************************************)
EXTENDS Integers, Sequences

CONSTANTS Artifacts,    \* ids of files
          Hashes,       \* contents
          PathOf,       \* the path of each file: two files of one path differ in content
          Clients,      \* request handlers in flight
          Passes,       \* maintenance passes that may be at work
          MaxVersions,  \* bound: versions kept of each file
          None, Gone    \* a file not made yet, and a deleted one

ASSUME ConstantsOK ==
    /\ MaxVersions \in [Artifacts -> Nat]
    /\ None \notin Hashes \cup Artifacts \cup Clients \cup Passes
    /\ Gone \notin Hashes /\ Gone # None
    /\ Clients \cap Passes = {}

VARIABLES
    rows,      \* blobs rows
    aged,      \* those whose created_at is older than the grace
    files,     \* files in the blob folder under their final name
    content,   \* artifacts.content_hash
    versions,  \* artifact_versions.content_hash in the order of version
    had,       \* every content a file has had (read by VersionsKept only)
    lock,      \* who holds blob_lock
    client,    \* handlers
    pass       \* maintenance passes

blobVars == <<rows, aged, files>>
fileVars == <<content, versions, had>>
vars == <<blobVars, fileVars, lock, client, pass>>

NoClient == [phase |-> "idle", file |-> None, hash |-> None, seen |-> None]
NoPass   == [phase |-> "idle", old |-> {}, todo |-> {}, hash |-> None]

Handlers == [phase: {"idle", "received", "recorded", "stored", "restoring", "replacing"},
             file: Artifacts \cup {None}, hash: Hashes \cup {None}, seen: Hashes \cup {None}]
Works    == [phase: {"idle", "begun", "collecting", "removing", "collected", "sweeping", "swept"},
             old: SUBSET Hashes, todo: SUBSET Hashes, hash: Hashes \cup {None}]

TypeOK ==
    /\ rows \in SUBSET Hashes /\ aged \in SUBSET rows /\ files \in SUBSET Hashes
    /\ content \in [Artifacts -> Hashes \cup {None, Gone}]
    /\ versions \in [Artifacts -> Seq(Hashes)]
    /\ had \in [Artifacts -> SUBSET Hashes]
    /\ lock \in Clients \cup Passes \cup {None}
    /\ client \in [Clients -> Handlers]
    /\ \A c \in Clients : client[c].phase # "idle" =>
          client[c].file \in Artifacts /\ client[c].hash \in Hashes
    /\ \A c \in Clients : client[c].phase = "replacing" => client[c].seen \in Hashes
    /\ pass \in [Passes -> Works]
    /\ \A p \in Passes : pass[p].phase = "removing" => pass[p].hash \in Hashes

Init ==
    /\ rows = {} /\ aged = {} /\ files = {}
    /\ content = [a \in Artifacts |-> None]
    /\ versions = [a \in Artifacts |-> <<>>]
    /\ had = [a \in Artifacts |-> {}]
    /\ lock = None
    /\ client = [c \in Clients |-> NoClient]
    /\ pass = [p \in Passes |-> NoPass]

Exists(a)     == content[a] \in Hashes
VersionsOf(a) == {versions[a][i] : i \in DOMAIN versions[a]}
Referenced(h) == \E a \in Artifacts : content[a] = h \/ h \in VersionsOf(a)

\* artifacts is UNIQUE (workspace, source, path, content_hash).
Duplicate(a, h) == \E b \in Artifacts \ {a} : PathOf[b] = PathOf[a] /\ content[b] = h

-----------------------------------------------------------------------------
(* Storing a content *)

\* A new file's upload, or a new version of one, with its bytes received.
Receive(c, a, h) ==
    /\ client[c].phase = "idle"
    /\ \/ Exists(a)
       \/ content[a] = None /\ \A d \in Clients : client[d].file # a
    /\ client' = [client EXCEPT ![c] = [phase |-> "received", file |-> a, hash |-> h, seen |-> None]]
    /\ UNCHANGED <<blobVars, fileVars, lock, pass>>

\* Mutant of RecordBlob: a row that is there keeps its created_at.
RecordOnce(c) ==
    LET h == client[c].hash IN
    /\ client[c].phase = "received"
    /\ lock = None
    /\ lock' = c
    /\ rows' = rows \cup {h}
    /\ client' = [client EXCEPT ![c].phase = "recorded"]
    /\ UNCHANGED <<aged, files, fileVars, pass>>

\* store_blob, store_staged_blob: under the lock the row is written, or its
\* created_at renewed, before the file is.
RecordBlob(c) ==
    LET h == client[c].hash IN
    /\ client[c].phase = "received"
    /\ lock = None
    /\ lock' = c
    /\ rows' = rows \cup {h}
    /\ aged' = aged \ {h}
    /\ pass' = [p \in Passes |-> [pass[p] EXCEPT !.old = @ \ {h}]]
    /\ client' = [client EXCEPT ![c].phase = "recorded"]
    /\ UNCHANGED <<files, fileVars>>

\* The file appears under its name in one rename, if it is not there.
WriteFile(c) ==
    /\ client[c].phase = "recorded"
    /\ files' = files \cup {client[c].hash}
    /\ lock' = None
    /\ client' = [client EXCEPT ![c].phase = "stored"]
    /\ UNCHANGED <<rows, aged, fileVars, pass>>

Finish(c) == client' = [client EXCEPT ![c] = NoClient]

\* store_artifact: INSERT OR IGNORE; the blob must have its row.
StoreArtifact(c) ==
    LET a == client[c].file
        h == client[c].hash IN
    /\ client[c].phase = "stored"
    /\ content[a] = None
    /\ IF h \in rows /\ ~Duplicate(a, h)
       THEN /\ content' = [content EXCEPT ![a] = h]
            /\ had' = [had EXCEPT ![a] = {h}]
       ELSE UNCHANGED <<content, had>>
    /\ Finish(c)
    /\ UNCHANGED <<blobVars, versions, lock, pass>>

\* restore_artifact_version up to its call of replace_artifact_content.
Restore(c, a) ==
    /\ client[c].phase = "idle"
    /\ Exists(a)
    /\ \E h \in VersionsOf(a) \cap files :
         client' = [client EXCEPT ![c] = [phase |-> "restoring", file |-> a, hash |-> h, seen |-> None]]
    /\ UNCHANGED <<blobVars, fileVars, lock, pass>>

\* Mutant of ReadCurrent: no error when the file is gone.
ReadAnyway(c) ==
    LET a == client[c].file IN
    /\ client[c].phase \in {"stored", "restoring"}
    /\ content[a] # None
    /\ IF content[a] # client[c].hash
       THEN /\ Len(versions[a]) < MaxVersions[a]
            /\ client' = [client EXCEPT ![c].phase = "replacing", ![c].seen = content[a]]
       ELSE Finish(c)
    /\ UNCHANGED <<blobVars, fileVars, lock, pass>>

\* replace_artifact_content reads the file before its transaction.
ReadCurrent(c) ==
    LET a == client[c].file IN
    /\ client[c].phase \in {"stored", "restoring"}
    /\ content[a] # None
    /\ IF Exists(a) /\ content[a] # client[c].hash
       THEN /\ Len(versions[a]) < MaxVersions[a]
            /\ client' = [client EXCEPT ![c].phase = "replacing", ![c].seen = content[a]]
       ELSE Finish(c)
    /\ UNCHANGED <<blobVars, fileVars, lock, pass>>

\* Its transaction: the new content, and the one it read as the next version.
\* The whole of it fails when the file or the blob's row is gone, or another
\* file of this path holds the content.
ReplaceContent(c) ==
    LET a == client[c].file
        h == client[c].hash IN
    /\ client[c].phase = "replacing"
    /\ IF Exists(a) /\ h \in rows /\ ~Duplicate(a, h)
       THEN /\ content' = [content EXCEPT ![a] = h]
            /\ versions' = [versions EXCEPT ![a] = Append(@, client[c].seen)]
            /\ had' = [had EXCEPT ![a] = @ \cup {h}]
       ELSE UNCHANGED fileVars
    /\ Finish(c)
    /\ UNCHANGED <<blobVars, lock, pass>>

\* delete_artifact; its versions go with it.
DeleteArtifact(a) ==
    /\ Exists(a)
    /\ content' = [content EXCEPT ![a] = Gone]
    /\ versions' = [versions EXCEPT ![a] = <<>>]
    /\ had' = [had EXCEPT ![a] = {}]
    /\ UNCHANGED <<blobVars, lock, client, pass>>

\* A handler fails or is dropped; a row or a rename it had begun may still be done.
Drop(c) ==
    LET h == client[c].hash IN
    /\ client[c].phase # "idle"
    /\ Finish(c)
    /\ lock' = IF lock = c THEN None ELSE lock
    /\ \/ /\ client[c].phase = "received"
          /\ rows' = rows \cup {h}
          /\ aged' = aged \ {h}
          /\ pass' = [p \in Passes |-> [pass[p] EXCEPT !.old = @ \ {h}]]
          /\ UNCHANGED files
       \/ /\ client[c].phase = "recorded"
          /\ files' = files \cup {h}
          /\ UNCHANGED <<rows, aged, pass>>
       \/ UNCHANGED <<blobVars, pass>>
    /\ UNCHANGED fileVars

\* What a handler has stored, or what two that replace one file hand on to each
\* other, must not grow old before they are done.
InUse(c) ==
    IF client[c].phase \in {"recorded", "stored", "replacing"}
    THEN {client[c].hash, client[c].seen, content[client[c].file]}
    ELSE {}

\* An hour passes since a content was last stored: longer than handlers take
\* from storing it to referring to it.
Age(h) ==
    /\ h \in rows \ aged
    /\ \A c \in Clients : h \notin InUse(c)
    /\ aged' = aged \cup {h}
    /\ UNCHANGED <<rows, files, fileVars, lock, client, pass>>

-----------------------------------------------------------------------------
(* Collecting *)

Begin(p) ==
    /\ pass[p].phase = "idle"
    /\ pass' = [pass EXCEPT ![p].phase = "begun"]
    /\ UNCHANGED <<blobVars, fileVars, lock, client>>

\* collect_orphan_blobs fixes its cutoff and lists what looks unreferenced.
ListOrphans(p) ==
    /\ pass[p].phase = "begun"
    /\ pass' = [pass EXCEPT ![p] = [phase |-> "collecting", old |-> aged,
                                    todo |-> {h \in aged : ~Referenced(h)}, hash |-> None]]
    /\ UNCHANGED <<blobVars, fileVars, lock, client>>

\* Mutant of DeleteRow: what was listed is deleted without a second look.
DeleteListed(p, h) ==
    /\ pass[p].phase = "collecting"
    /\ h \in pass[p].todo
    /\ lock = None
    /\ rows' = rows \ {h}
    /\ aged' = aged \ {h}
    /\ lock' = p
    /\ pass' = [pass EXCEPT ![p].phase = "removing", ![p].todo = @ \ {h}, ![p].hash = h]
    /\ UNCHANGED <<files, fileVars, client>>

\* Under the lock, the conditions are checked again and the row deleted.
DeleteRow(p, h) ==
    /\ pass[p].phase = "collecting"
    /\ h \in pass[p].todo
    /\ lock = None
    /\ IF h \in rows \cap pass[p].old /\ ~Referenced(h)
       THEN /\ rows' = rows \ {h}
            /\ aged' = aged \ {h}
            /\ lock' = p
            /\ pass' = [pass EXCEPT ![p].phase = "removing", ![p].todo = @ \ {h}, ![p].hash = h]
       ELSE /\ pass' = [pass EXCEPT ![p].todo = @ \ {h}]
            /\ UNCHANGED <<rows, aged, lock>>
    /\ UNCHANGED <<files, fileVars, client>>

\* Still under the lock, the file; an error leaves it behind.
RemoveFile(p) ==
    /\ pass[p].phase = "removing"
    /\ files' \in {files, files \ {pass[p].hash}}
    /\ lock' = None
    /\ pass' = [pass EXCEPT ![p].phase = "collecting", ![p].hash = None]
    /\ UNCHANGED <<rows, aged, fileVars, client>>

\* The collection is done, or a statement of it failed, the listing or a
\* deletion, under the lock.
EndCollect(p) ==
    /\ pass[p].phase \in {"begun", "collecting"}
    /\ pass[p].todo = {} \/ lock = None
    /\ pass' = [pass EXCEPT ![p] = [NoPass EXCEPT !.phase = "collected"]]
    /\ UNCHANGED <<blobVars, fileVars, lock, client>>

\* sweep_untracked_blob_files walks the folder first.
ListFiles(p) ==
    /\ pass[p].phase = "collected"
    /\ pass' = [pass EXCEPT ![p].phase = "sweeping", ![p].todo = files]
    /\ UNCHANGED <<blobVars, fileVars, lock, client>>

\* Mutant of SweepFile: only files under a temporary name are removed.
SweepNothing(p, h) ==
    /\ pass[p].phase = "sweeping"
    /\ h \in pass[p].todo
    /\ lock = None
    /\ pass' = [pass EXCEPT ![p].todo = @ \ {h}]
    /\ UNCHANGED <<blobVars, fileVars, lock, client>>

\* Under the lock a file without a row is removed, or not if that fails.  (A
\* file younger than the grace waits for a later sweep: every file here is old.)
SweepFile(p, h) ==
    /\ pass[p].phase = "sweeping"
    /\ h \in pass[p].todo
    /\ lock = None
    /\ files' \in IF h \in rows THEN {files} ELSE {files, files \ {h}}
    /\ pass' = [pass EXCEPT ![p].todo = @ \ {h}]
    /\ UNCHANGED <<rows, aged, fileVars, lock, client>>

\* The sweep is done, or its look at a row, under the lock, failed.
EndSweep(p) ==
    /\ pass[p].phase = "sweeping"
    /\ pass[p].todo = {} \/ lock = None
    /\ pass' = [pass EXCEPT ![p] = [NoPass EXCEPT !.phase = "swept"]]
    /\ UNCHANGED <<blobVars, fileVars, lock, client>>

\* The pass ends, with a sweep or without one.
End(p) ==
    /\ pass[p].phase \in {"collected", "swept"}
    /\ pass' = [pass EXCEPT ![p] = NoPass]
    /\ UNCHANGED <<blobVars, fileVars, lock, client>>

\* The process ends at any point, with what it had begun done or not.
Restart ==
    /\ lock' = None
    /\ client' = [c \in Clients |-> NoClient]
    /\ pass' = [p \in Passes |-> NoPass]
    /\ \/ UNCHANGED files
       \/ \E c \in Clients : client[c].phase = "recorded" /\ files' = files \cup {client[c].hash}
       \/ \E p \in Passes : pass[p].phase = "removing" /\ files' = files \ {pass[p].hash}
    /\ UNCHANGED <<rows, aged, fileVars>>

-----------------------------------------------------------------------------
HandlerStep(c) ==
    \/ \E a \in Artifacts : Restore(c, a) \/ \E h \in Hashes : Receive(c, a, h)
    \/ RecordBlob(c)
    \/ WriteFile(c)
    \/ StoreArtifact(c)
    \/ ReadCurrent(c)
    \/ ReplaceContent(c)
    \/ Drop(c)

WorkStep(p) ==
    \/ ListOrphans(p)
    \/ \E h \in Hashes : DeleteRow(p, h) \/ SweepFile(p, h)
    \/ RemoveFile(p)
    \/ EndCollect(p)
    \/ ListFiles(p)
    \/ EndSweep(p)

\* What goes on outside the passes.
Others ==
    \/ \E c \in Clients : HandlerStep(c)
    \/ \E a \in Artifacts : DeleteArtifact(a)
    \/ \E h \in Hashes : Age(h)

Next ==
    \/ Others
    \/ \E p \in Passes : Begin(p) \/ WorkStep(p) \/ End(p)
    \/ Restart

Spec == Init /\ [][Next]_vars

-----------------------------------------------------------------------------
(* Properties *)

\* Whatever a file or one of its versions refers to can be read: its row and
\* its file are there, through every interleaving of uploads of one content,
\* deletions, collections, sweeps, dropped handlers and restarts.
ContentIsStored ==
    \A h \in Hashes : Referenced(h) => h \in rows \cap files

\* What store_blob has answered for is still there when the handler refers to
\* it, although nothing referred to it in between.
StoredIsKept ==
    \A c \in Clients : client[c].phase = "stored" => client[c].hash \in rows \cap files

\* The history of a file only grows and no version is lost
\* (restore_artifact_version): every content a file has had is its content or
\* one of its versions.
VersionsKept ==
    \A a \in Artifacts : Exists(a) => had[a] \subseteq VersionsOf(a) \cup {content[a]}
=============================================================================
