-------------------------- MODULE BlobStore_proofs --------------------------
(***************************************************************************)
(* Proofs about BlobStore, for any files, contents, handlers, passes and   *)
(* number of versions.                                                     *)
(***************************************************************************)
EXTENDS BlobStore, TLAPS

USE DEF Exists, Duplicate

-----------------------------------------------------------------------------
(* Versions *)

\* The versions of a file are among the contents (VersionsOf, artifact_versions).
LEMMA VersionsAreHashes ==
    ASSUME TypeOK, NEW a \in Artifacts
    PROVE  VersionsOf(a) \subseteq Hashes
BY DEF TypeOK, VersionsOf

\* Recording a version adds it to its file's and leaves the other files'
\* (the INSERT of replace_artifact_content).
LEMMA VersionAdded ==
    ASSUME TypeOK, NEW a \in Artifacts, NEW h \in Hashes,
           versions' = [versions EXCEPT ![a] = Append(@, h)]
    PROVE  /\ VersionsOf(a)' = VersionsOf(a) \cup {h}
           /\ \A b \in Artifacts \ {a} : VersionsOf(b)' = VersionsOf(b)
<1>1. versions[a] \in Seq(Hashes) /\ versions'[a] = Append(versions[a], h)
  BY DEF TypeOK
<1>2. DOMAIN versions'[a] = (DOMAIN versions[a]) \cup {Len(versions[a]) + 1}
  BY <1>1
<1>3. \A i \in DOMAIN versions[a] : versions'[a][i] = versions[a][i]
  BY <1>1
<1>4. versions'[a][Len(versions[a]) + 1] = h
  BY <1>1
<1>5. VersionsOf(a)' = VersionsOf(a) \cup {h}
  BY <1>2, <1>3, <1>4 DEF VersionsOf
<1>6. \A b \in Artifacts \ {a} : VersionsOf(b)' = VersionsOf(b)
  BY DEF TypeOK, VersionsOf
<1> QED BY <1>5, <1>6

-----------------------------------------------------------------------------
(* Types *)

\* A handler's record stays one when its handler finishes.
LEMMA FinishTyped ==
    ASSUME TypeOK, NEW c \in Clients, Finish(c)
    PROVE  /\ client' \in [Clients -> Handlers]
           /\ \A d \in Clients : client'[d].phase # "idle" =>
                 client'[d].file \in Artifacts /\ client'[d].hash \in Hashes
           /\ \A d \in Clients : client'[d].phase = "replacing" => client'[d].seen \in Hashes
BY DEF TypeOK, Finish, NoClient, Handlers

\* Renewing a row takes its content from the passes' lists of old ones.
LEMMA RenewTyped ==
    ASSUME TypeOK, NEW h \in Hashes,
           pass' = [p \in Passes |-> [pass[p] EXCEPT !.old = @ \ {h}]]
    PROVE  /\ pass' \in [Passes -> Works]
           /\ \A p \in Passes : pass'[p].phase = "removing" => pass'[p].hash \in Hashes
<1>1. \A p \in Passes : pass[p] \in Works
  BY DEF TypeOK
<1>2. \A p \in Passes : pass'[p] = [pass[p] EXCEPT !.old = @ \ {h}]
  OBVIOUS
<1>3. \A w \in Works : /\ [w EXCEPT !.old = @ \ {h}] \in Works
                      /\ [w EXCEPT !.old = @ \ {h}].phase = w.phase
                      /\ [w EXCEPT !.old = @ \ {h}].hash = w.hash
  BY DEF Works
<1>4. \A p \in Passes : pass'[p] \in Works /\ pass'[p].phase = pass[p].phase /\ pass'[p].hash = pass[p].hash
  BY <1>1, <1>2, <1>3
<1>5. pass' \in [Passes -> Works]
  BY <1>4
<1> QED BY <1>4, <1>5 DEF TypeOK

\* A pass that takes up another record of its work keeps the types.
LEMMA WorkTyped ==
    ASSUME TypeOK, NEW p \in Passes, NEW w \in Works,
           w.phase = "removing" => w.hash \in Hashes,
           pass' = [pass EXCEPT ![p] = w]
    PROVE  /\ pass' \in [Passes -> Works]
           /\ \A q \in Passes : pass'[q].phase = "removing" => pass'[q].hash \in Hashes
BY DEF TypeOK

\* Every step keeps the types.
LEMMA NextTyped == ASSUME TypeOK, [Next]_vars PROVE TypeOK'
<1>1. ASSUME NEW c \in Clients, NEW a \in Artifacts, NEW h \in Hashes, Receive(c, a, h) PROVE TypeOK'
  BY <1>1 DEF TypeOK, Receive, Handlers, blobVars, fileVars
<1>2. ASSUME NEW c \in Clients, NEW a \in Artifacts, Restore(c, a) PROVE TypeOK'
  BY <1>2, VersionsAreHashes DEF TypeOK, Restore, Handlers, blobVars, fileVars
<1>3. ASSUME NEW c \in Clients, RecordBlob(c) PROVE TypeOK'
  <2>1. client[c].hash \in Hashes BY <1>3 DEF TypeOK, RecordBlob
  <2>2. /\ pass' \in [Passes -> Works]
        /\ \A p \in Passes : pass'[p].phase = "removing" => pass'[p].hash \in Hashes
    BY <1>3, <2>1, RenewTyped DEF RecordBlob
  <2> QED BY <1>3, <2>1, <2>2 DEF TypeOK, RecordBlob, Handlers, fileVars
<1>4. ASSUME NEW c \in Clients, WriteFile(c) PROVE TypeOK'
  BY <1>4 DEF TypeOK, WriteFile, Handlers, fileVars
<1>5. ASSUME NEW c \in Clients, StoreArtifact(c) PROVE TypeOK'
  <2>1. client[c].file \in Artifacts /\ client[c].hash \in Hashes
    BY <1>5 DEF TypeOK, StoreArtifact
  <2>2. content' \in [Artifacts -> Hashes \cup {None, Gone}] /\ had' \in [Artifacts -> SUBSET Hashes]
    <3>1. CASE UNCHANGED <<content, had>> BY <3>1 DEF TypeOK
    <3>2. CASE /\ content' = [content EXCEPT ![client[c].file] = client[c].hash]
               /\ had' = [had EXCEPT ![client[c].file] = {client[c].hash}]
      BY <2>1, <3>2 DEF TypeOK
    <3> QED BY <1>5, <3>1, <3>2 DEF StoreArtifact
  <2>3. Finish(c) BY <1>5 DEF StoreArtifact
  <2> QED BY <1>5, <2>2, <2>3, FinishTyped DEF TypeOK, StoreArtifact, blobVars
<1>6. ASSUME NEW c \in Clients, ReadCurrent(c) PROVE TypeOK'
  <2>1. CASE Finish(c)
    BY <1>6, <2>1, FinishTyped DEF TypeOK, ReadCurrent, blobVars, fileVars
  <2>2. CASE /\ content[client[c].file] \in Hashes
             /\ client' = [client EXCEPT ![c].phase = "replacing", ![c].seen = content[client[c].file]]
    <3>1. client[c] \in Handlers
      BY DEF TypeOK
    <3>2. client' = [client EXCEPT ![c] = [client[c] EXCEPT !.phase = "replacing",
                                                           !.seen = content[client[c].file]]]
      BY <2>2
    <3>3. [client[c] EXCEPT !.phase = "replacing", !.seen = content[client[c].file]] \in Handlers
      BY <2>2, <3>1 DEF Handlers
    <3>4. client' \in [Clients -> Handlers]
      BY <3>2, <3>3 DEF TypeOK
    <3>5. client'[c].file = client[c].file /\ client'[c].hash = client[c].hash /\ client'[c].seen \in Hashes
      BY <2>2, <3>1, <3>2 DEF Handlers, TypeOK
    <3>6. client[c].phase # "idle"
      BY <1>6 DEF ReadCurrent
    <3>7. \A d \in Clients \ {c} : client'[d] = client[d]
      BY <3>2 DEF TypeOK
    <3>8. UNCHANGED <<rows, aged, files, content, versions, had, lock, pass>>
      BY <1>6 DEF ReadCurrent, blobVars, fileVars
    <3> QED BY <3>4, <3>5, <3>6, <3>7, <3>8 DEF TypeOK
  <2> QED BY <1>6, <2>1, <2>2 DEF ReadCurrent
<1>7. ASSUME NEW c \in Clients, ReplaceContent(c) PROVE TypeOK'
  <2>1. client[c].file \in Artifacts /\ client[c].hash \in Hashes /\ client[c].seen \in Hashes
    BY <1>7 DEF TypeOK, ReplaceContent
  <2>2. versions' \in [Artifacts -> Seq(Hashes)]
    <3>1. CASE UNCHANGED versions BY <3>1 DEF TypeOK
    <3>2. CASE versions' = [versions EXCEPT ![client[c].file] = Append(@, client[c].seen)]
      <4>1. Append(versions[client[c].file], client[c].seen) \in Seq(Hashes)
        BY <2>1 DEF TypeOK
      <4> QED BY <2>1, <3>2, <4>1 DEF TypeOK
    <3> QED BY <1>7, <3>1, <3>2 DEF ReplaceContent, fileVars
  <2>3. content' \in [Artifacts -> Hashes \cup {None, Gone}] /\ had' \in [Artifacts -> SUBSET Hashes]
    <3>1. CASE UNCHANGED fileVars BY <3>1 DEF TypeOK, fileVars
    <3>2. CASE /\ content' = [content EXCEPT ![client[c].file] = client[c].hash]
               /\ had' = [had EXCEPT ![client[c].file] = @ \cup {client[c].hash}]
      BY <2>1, <3>2 DEF TypeOK
    <3> QED BY <1>7, <3>1, <3>2 DEF ReplaceContent
  <2>4. Finish(c) BY <1>7 DEF ReplaceContent
  <2> QED BY <1>7, <2>2, <2>3, <2>4, FinishTyped DEF TypeOK, ReplaceContent, blobVars
<1>8. ASSUME NEW c \in Clients, Drop(c) PROVE TypeOK'
  <2>1. client[c].hash \in Hashes BY <1>8 DEF TypeOK, Drop
  <2>2. /\ pass' \in [Passes -> Works]
        /\ \A p \in Passes : pass'[p].phase = "removing" => pass'[p].hash \in Hashes
    BY <1>8, <2>1, RenewTyped DEF Drop, TypeOK
  <2>3. rows' \in SUBSET Hashes /\ aged' \in SUBSET rows' /\ files' \in SUBSET Hashes
    BY <1>8, <2>1 DEF TypeOK, Drop, blobVars
  <2>4. lock' \in Clients \cup Passes \cup {None}
    BY <1>8 DEF TypeOK, Drop
  <2> QED BY <1>8, <2>2, <2>3, <2>4, FinishTyped DEF TypeOK, Drop, fileVars
<1>9. ASSUME NEW a \in Artifacts, DeleteArtifact(a) PROVE TypeOK'
  BY <1>9 DEF TypeOK, DeleteArtifact, blobVars
<1>10. ASSUME NEW h \in Hashes, Age(h) PROVE TypeOK'
  BY <1>10 DEF TypeOK, Age, fileVars
<1>11. ASSUME NEW p \in Passes, Begin(p) PROVE TypeOK'
  BY <1>11 DEF TypeOK, Begin, Works, blobVars, fileVars
<1>12. ASSUME NEW p \in Passes, ListOrphans(p) PROVE TypeOK'
  BY <1>12 DEF TypeOK, ListOrphans, Works, blobVars, fileVars
<1>13. ASSUME NEW p \in Passes, NEW h \in Hashes, DeleteRow(p, h) PROVE TypeOK'
  <2>1. pass' \in [Passes -> Works] /\ \A q \in Passes : pass'[q].phase = "removing" => pass'[q].hash \in Hashes
    <3>1. CASE pass' = [pass EXCEPT ![p].phase = "removing", ![p].todo = @ \ {h}, ![p].hash = h]
      <4>1. pass[p] \in Works BY DEF TypeOK
      <4>2. \A q \in Passes \ {p} : pass'[q] = pass[q] BY <3>1 DEF TypeOK
      <4>3. pass'[p] = [[[pass[p] EXCEPT !.phase = "removing"] EXCEPT !.todo = @ \ {h}] EXCEPT !.hash = h]
        BY <3>1 DEF TypeOK
      <4>4. pass'[p] \in Works BY <4>1, <4>3 DEF Works
      <4>5. pass' \in [Passes -> Works] BY <3>1, <4>2, <4>4 DEF TypeOK
      <4>6. pass'[p].hash = h BY <4>1, <4>3 DEF Works
      <4> QED BY <4>2, <4>5, <4>6 DEF TypeOK
    <3>2. CASE pass' = [pass EXCEPT ![p].todo = @ \ {h}]
      <4>1. pass[p] \in Works
        BY DEF TypeOK
      <4>2. [pass[p] EXCEPT !.todo = @ \ {h}] \in Works
        BY <4>1 DEF Works
      <4>3. [pass[p] EXCEPT !.todo = @ \ {h}].phase = pass[p].phase
            /\ [pass[p] EXCEPT !.todo = @ \ {h}].hash = pass[p].hash
        BY <4>1 DEF Works
      <4>4. pass' = [pass EXCEPT ![p] = [pass[p] EXCEPT !.todo = @ \ {h}]]
        BY <3>2
      <4> QED BY <4>2, <4>3, <4>4, WorkTyped DEF TypeOK
    <3> QED BY <1>13, <3>1, <3>2 DEF DeleteRow
  <2>2. rows' \in SUBSET Hashes /\ aged' \in SUBSET rows' /\ lock' \in Clients \cup Passes \cup {None}
    BY <1>13 DEF TypeOK, DeleteRow
  <2> QED BY <1>13, <2>1, <2>2 DEF TypeOK, DeleteRow, fileVars
<1>14. ASSUME NEW p \in Passes, RemoveFile(p) PROVE TypeOK'
  <2>1. pass[p] \in Works
    BY DEF TypeOK
  <2>2. [pass[p] EXCEPT !.phase = "collecting", !.hash = None] \in Works
        /\ [pass[p] EXCEPT !.phase = "collecting", !.hash = None].phase = "collecting"
    BY <2>1 DEF Works
  <2>3. pass' = [pass EXCEPT ![p] = [pass[p] EXCEPT !.phase = "collecting", !.hash = None]]
    BY <1>14 DEF RemoveFile
  <2>4. /\ pass' \in [Passes -> Works]
        /\ \A q \in Passes : pass'[q].phase = "removing" => pass'[q].hash \in Hashes
    BY <2>2, <2>3, WorkTyped
  <2>5. files' \in SUBSET Hashes
    BY <1>14 DEF TypeOK, RemoveFile
  <2> QED BY <1>14, <2>4, <2>5 DEF TypeOK, RemoveFile, fileVars
<1>15. ASSUME NEW p \in Passes, EndCollect(p) PROVE TypeOK'
  BY <1>15 DEF TypeOK, EndCollect, NoPass, Works, blobVars, fileVars
<1>16. ASSUME NEW p \in Passes, ListFiles(p) PROVE TypeOK'
  <2>1. pass[p] \in Works
    BY DEF TypeOK
  <2>2. [pass[p] EXCEPT !.phase = "sweeping", !.todo = files] \in Works
        /\ [pass[p] EXCEPT !.phase = "sweeping", !.todo = files].phase = "sweeping"
    BY <2>1 DEF Works, TypeOK
  <2>3. pass' = [pass EXCEPT ![p] = [pass[p] EXCEPT !.phase = "sweeping", !.todo = files]]
    BY <1>16 DEF ListFiles
  <2>4. /\ pass' \in [Passes -> Works]
        /\ \A q \in Passes : pass'[q].phase = "removing" => pass'[q].hash \in Hashes
    BY <2>2, <2>3, WorkTyped
  <2> QED BY <1>16, <2>4 DEF TypeOK, ListFiles, blobVars, fileVars
<1>17. ASSUME NEW p \in Passes, NEW h \in Hashes, SweepFile(p, h) PROVE TypeOK'
  BY <1>17 DEF TypeOK, SweepFile, Works, fileVars
<1>18. ASSUME NEW p \in Passes, EndSweep(p) PROVE TypeOK'
  BY <1>18 DEF TypeOK, EndSweep, NoPass, Works, blobVars, fileVars
<1>19. ASSUME NEW p \in Passes, End(p) PROVE TypeOK'
  BY <1>19 DEF TypeOK, End, NoPass, Works, blobVars, fileVars
<1>20. ASSUME Restart PROVE TypeOK'
  <2>1. files' \in SUBSET Hashes
    BY <1>20 DEF TypeOK, Restart
  <2> QED BY <1>20, <2>1, ConstantsOK DEF TypeOK, Restart, NoClient, NoPass, Handlers, Works, fileVars
<1>21. ASSUME UNCHANGED vars PROVE TypeOK'
  BY <1>21 DEF TypeOK, vars, blobVars, fileVars
<1> QED
  BY <1>1, <1>2, <1>3, <1>4, <1>5, <1>6, <1>7, <1>8, <1>9, <1>10, <1>11, <1>12, <1>13,
     <1>14, <1>15, <1>16, <1>17, <1>18, <1>19, <1>20, <1>21
  DEF Next, Others, HandlerStep, WorkStep

\* Every variable keeps its type in every reachable state.
THEOREM TypeCorrect == Spec => []TypeOK
<1>1. Init => TypeOK
  BY ConstantsOK DEF Init, TypeOK, NoClient, NoPass, Handlers, Works
<1> QED BY <1>1, NextTyped, PTL DEF Spec

-----------------------------------------------------------------------------
(* The inductive invariant *)

\* A content no pass will delete: its row is younger than every cutoff.
Safe(h) ==
    /\ h \in rows /\ h \notin aged
    /\ \A p \in Passes : h \notin pass[p].old /\ ~(pass[p].phase = "removing" /\ pass[p].hash = h)

Kept(h) == Safe(h) /\ h \in files

\* A content that may be referred to by file a: fresh, or one of its versions.
Backed(a, h) == Kept(h) \/ (Exists(a) => h \in VersionsOf(a))

\* The lock is held while a content is between its row and its file.
LockHeld ==
    /\ \A c \in Clients : client[c].phase = "recorded" => lock = c
    /\ \A p \in Passes : pass[p].phase = "removing" => lock = p

RemovedIsUnused == \A p \in Passes : pass[p].phase = "removing" => ~Referenced(pass[p].hash)

\* What a handler has stored, restores or replaces is kept:
StoringIsSafe(c) ==
    /\ client[c].phase = "recorded" => Safe(client[c].hash)
    /\ client[c].phase = "stored" => Kept(client[c].hash)

\* a restored version stays one as long as the file is there;
RestoringIsBacked(c) ==
    client[c].phase = "restoring" =>
        /\ content[client[c].file] # None
        /\ Exists(client[c].file) => client[c].hash \in VersionsOf(client[c].file)

\* a handler about to replace a content that is no longer the one it has read
\* neither records nor overwrites one that may go.
ReplacingIsBacked(c) ==
    client[c].phase = "replacing" =>
        LET a == client[c].file IN
        /\ content[a] # None
        /\ Backed(a, client[c].hash)
        /\ client[c].seen # content[a] => Backed(a, client[c].seen) /\ Backed(a, content[a])

HandlerOK(c) == StoringIsSafe(c) /\ RestoringIsBacked(c) /\ ReplacingIsBacked(c)

Inv ==
    /\ TypeOK
    /\ ContentIsStored
    /\ LockHeld
    /\ RemovedIsUnused
    /\ \A c \in Clients : HandlerOK(c)

\* A step that leaves the files and a handler alone, and keeps what the handler
\* has to do with, leaves the handler as it should be.
LEMMA HandlerFrame ==
    ASSUME TypeOK, NEW d \in Clients, HandlerOK(d), client'[d] = client[d],
           UNCHANGED <<content, versions>>,
           \A h \in InUse(d) : (Safe(h) => Safe(h)') /\ (Kept(h) => Kept(h)')
    PROVE  HandlerOK(d)'
<1>1. \A a, h : h \in InUse(d) /\ Backed(a, h) => Backed(a, h)'
  BY DEF Backed, VersionsOf
<1>2. StoringIsSafe(d)'
  BY DEF HandlerOK, StoringIsSafe, InUse
<1>3. RestoringIsBacked(d)'
  BY DEF HandlerOK, RestoringIsBacked, VersionsOf
<1>4. ReplacingIsBacked(d)'
  BY <1>1 DEF HandlerOK, ReplacingIsBacked, InUse
<1> QED BY <1>2, <1>3, <1>4 DEF HandlerOK

\* The same for every handler.
LEMMA HandlersFrame ==
    ASSUME Inv, UNCHANGED <<client, content, versions>>,
           \A c \in Clients : \A h \in InUse(c) : (Safe(h) => Safe(h)') /\ (Kept(h) => Kept(h)')
    PROVE  \A c \in Clients : HandlerOK(c)'
BY HandlerFrame DEF Inv

\* An idle handler is as it should be.
LEMMA IdleOK == ASSUME NEW c, client[c].phase \in {"idle", "received"} PROVE HandlerOK(c)
BY DEF HandlerOK, StoringIsSafe, RestoringIsBacked, ReplacingIsBacked

\* What is referred to does not change with the rest.
LEMMA SameReferences ==
    ASSUME UNCHANGED <<content, versions>>
    PROVE  \A h : Referenced(h)' <=> Referenced(h)
BY DEF Referenced, VersionsOf

-----------------------------------------------------------------------------
(* Steps of a pass *)

\* A step of a pass that has no content in its hands, deletes no row and adds
\* none to its old ones that may be kept.
LEMMA PassFrame ==
    ASSUME Inv, TypeOK', NEW p \in Passes,
           UNCHANGED <<rows, aged, content, versions, lock, client>>,
           \A h \in rows : h \in files => h \in files',
           \A q \in Passes \ {p} : pass'[q] = pass[q],
           pass'[p].old \subseteq pass[p].old \cup aged,
           pass[p].phase # "removing", pass'[p].phase # "removing"
    PROVE  Inv'
<1>1. \A h : (Safe(h) => Safe(h)') /\ (Kept(h) => Kept(h)')
  BY DEF Safe, Kept
<1>2. ContentIsStored'
  BY SameReferences DEF Inv, ContentIsStored
<1>3. LockHeld'
  BY DEF Inv, LockHeld
<1>4. RemovedIsUnused'
  BY SameReferences DEF Inv, RemovedIsUnused
<1>5. \A c \in Clients : HandlerOK(c)'
  BY <1>1, HandlersFrame
<1> QED BY <1>2, <1>3, <1>4, <1>5 DEF Inv

\* A pass that begins has nothing in its hands.
LEMMA BeginKeeps == ASSUME Inv, TypeOK', NEW p \in Passes, Begin(p) PROVE Inv'
BY PassFrame DEF Inv, TypeOK, Begin, blobVars, fileVars

\* A pass that lists what looks unreferenced deletes nothing yet.
LEMMA ListOrphansKeeps == ASSUME Inv, TypeOK', NEW p \in Passes, ListOrphans(p) PROVE Inv'
BY PassFrame DEF Inv, TypeOK, ListOrphans, blobVars, fileVars

\* A collection that ends gives up its list.
LEMMA EndCollectKeeps == ASSUME Inv, TypeOK', NEW p \in Passes, EndCollect(p) PROVE Inv'
BY PassFrame DEF Inv, TypeOK, EndCollect, NoPass, blobVars, fileVars

\* A sweep that walks the folder removes nothing yet.
LEMMA ListFilesKeeps == ASSUME Inv, TypeOK', NEW p \in Passes, ListFiles(p) PROVE Inv'
<1>1. /\ UNCHANGED <<rows, aged, files, content, versions, lock, client>>
      /\ \A q \in Passes \ {p} : pass'[q] = pass[q]
      /\ pass[p].phase = "collected" /\ pass'[p].phase = "sweeping" /\ pass'[p].old = pass[p].old
  BY DEF Inv, TypeOK, ListFiles, Works, blobVars, fileVars
<1> QED BY <1>1, PassFrame

\* A file that is swept has no row, so its content is neither used nor kept.
LEMMA SweepFileKeeps == ASSUME Inv, TypeOK', NEW p \in Passes, NEW h \in Hashes, SweepFile(p, h) PROVE Inv'
BY PassFrame DEF Inv, TypeOK, SweepFile, Works, fileVars

\* A sweep that ends gives up its list.
LEMMA EndSweepKeeps == ASSUME Inv, TypeOK', NEW p \in Passes, EndSweep(p) PROVE Inv'
BY PassFrame DEF Inv, TypeOK, EndSweep, NoPass, blobVars, fileVars

\* A pass that ends leaves everything as it is.
LEMMA EndKeeps == ASSUME Inv, TypeOK', NEW p \in Passes, End(p) PROVE Inv'
BY PassFrame DEF Inv, TypeOK, End, NoPass, blobVars, fileVars

\* The row that goes is old and unused, so it is nobody's.
LEMMA DeleteRowKeeps == ASSUME Inv, TypeOK', NEW p \in Passes, NEW h \in Hashes, DeleteRow(p, h) PROVE Inv'
<1>1. /\ UNCHANGED <<files, content, versions, client>>
      /\ \A q \in Passes \ {p} : pass'[q] = pass[q]
      /\ lock = None /\ pass[p].phase = "collecting"
  BY DEF Inv, TypeOK, DeleteRow, fileVars
<1>2. CASE h \in rows \cap pass[p].old /\ ~Referenced(h)
  <2>1. /\ rows' = rows \ {h} /\ aged' = aged \ {h} /\ lock' = p
        /\ pass'[p].phase = "removing" /\ pass'[p].hash = h /\ pass'[p].old = pass[p].old
    BY <1>2 DEF Inv, TypeOK, DeleteRow, Works
  <2>2. \A x : (Safe(x) => Safe(x)') /\ (Kept(x) => Kept(x)')
    BY <1>1, <1>2, <2>1 DEF Safe, Kept
  <2>3. ContentIsStored'
    BY <1>1, <1>2, <2>1, SameReferences DEF Inv, ContentIsStored
  <2>4. LockHeld'
    BY <1>1, <2>1, ConstantsOK DEF Inv, LockHeld
  <2>5. RemovedIsUnused'
    BY <1>1, <1>2, <2>1, SameReferences DEF Inv, RemovedIsUnused
  <2>6. \A c \in Clients : HandlerOK(c)'
    BY <1>1, <2>2, HandlersFrame
  <2> QED BY <1>1, <2>3, <2>4, <2>5, <2>6 DEF Inv
<1>3. CASE ~(h \in rows \cap pass[p].old /\ ~Referenced(h))
  <2>1. /\ UNCHANGED <<rows, aged, lock>>
        /\ pass'[p].phase = "collecting" /\ pass'[p].old = pass[p].old
    BY <1>1, <1>3 DEF Inv, TypeOK, DeleteRow, Works
  <2> QED BY <1>1, <2>1, PassFrame
<1> QED BY <1>2, <1>3

\* The file that goes is of a content that is neither used nor kept.
LEMMA RemoveFileKeeps == ASSUME Inv, TypeOK', NEW p \in Passes, RemoveFile(p) PROVE Inv'
<1>1. /\ UNCHANGED <<rows, aged, content, versions, client>>
      /\ files \ {pass[p].hash} \subseteq files'
      /\ \A q \in Passes \ {p} : pass'[q] = pass[q]
      /\ pass'[p].old = pass[p].old
      /\ pass[p].phase = "removing" /\ pass'[p].phase = "collecting"
  BY DEF Inv, TypeOK, RemoveFile, Works, fileVars
<1>2. lock = p /\ ~Referenced(pass[p].hash)
  BY <1>1 DEF Inv, LockHeld, RemovedIsUnused
<1>3. \A x : (Safe(x) => Safe(x)') /\ (Kept(x) => Kept(x)')
  BY <1>1 DEF Safe, Kept
<1>4. ContentIsStored'
  BY <1>1, <1>2, SameReferences DEF Inv, ContentIsStored
<1>5. LockHeld'
  <2>1. \A c \in Clients : client[c].phase # "recorded"
    BY <1>2, ConstantsOK DEF Inv, LockHeld
  <2>2. \A q \in Passes : pass'[q].phase # "removing"
    BY <1>1, <1>2 DEF Inv, LockHeld
  <2> QED BY <1>1, <2>1, <2>2 DEF LockHeld
<1>6. RemovedIsUnused'
  BY <1>1, SameReferences DEF Inv, RemovedIsUnused
<1>7. \A c \in Clients : HandlerOK(c)'
  BY <1>1, <1>3, HandlersFrame
<1> QED BY <1>1, <1>4, <1>5, <1>6, <1>7 DEF Inv

-----------------------------------------------------------------------------
(* Steps outside the passes that leave the files alone *)

\* The phase a handler leaves and the one it enters: what holds the lock.
LEMMA LockFrame ==
    ASSUME LockHeld, NEW c \in Clients,
           \A d \in Clients \ {c} : client'[d] = client[d],
           client'[c].phase # "recorded",
           lock' = IF lock = c THEN None ELSE lock,
           \A p \in Passes : pass'[p].phase = pass[p].phase
    PROVE  LockHeld'
BY ConstantsOK DEF LockHeld

\* A handler takes up a content; nothing else changes.
LEMMA ClientFrame ==
    ASSUME Inv, TypeOK', NEW c \in Clients,
           UNCHANGED <<blobVars, content, versions, lock, pass>>,
           \A d \in Clients \ {c} : client'[d] = client[d],
           client[c].phase # "recorded", client'[c].phase # "recorded",
           HandlerOK(c)'
    PROVE  Inv'
<1>1. \A h : (Safe(h) => Safe(h)') /\ (Kept(h) => Kept(h)')
  BY DEF Safe, Kept, blobVars
<1>2. \A d \in Clients \ {c} : HandlerOK(d)'
  BY <1>1, HandlerFrame DEF Inv
<1>3. ContentIsStored'
  BY SameReferences DEF Inv, ContentIsStored, blobVars
<1>4. LockHeld'
  BY DEF Inv, LockHeld
<1>5. RemovedIsUnused'
  BY SameReferences DEF Inv, RemovedIsUnused
<1> QED BY <1>2, <1>3, <1>4, <1>5 DEF Inv

\* A handler that has received its bytes has stored nothing yet.
LEMMA ReceiveKeeps ==
    ASSUME Inv, TypeOK', NEW c \in Clients, NEW a \in Artifacts, NEW h \in Hashes, Receive(c, a, h)
    PROVE  Inv'
<1>1. client'[c].phase = "received" /\ \A d \in Clients \ {c} : client'[d] = client[d]
  BY DEF Inv, TypeOK, Receive
<1>2. HandlerOK(c)'
  BY <1>1 DEF HandlerOK, StoringIsSafe, RestoringIsBacked, ReplacingIsBacked
<1> QED BY <1>1, <1>2, ClientFrame DEF Receive, fileVars

\* The version a handler restores is backed by the version itself.
LEMMA RestoreKeeps == ASSUME Inv, TypeOK', NEW c \in Clients, NEW a \in Artifacts, Restore(c, a) PROVE Inv'
<1>1. PICK h \in VersionsOf(a) :
         client' = [client EXCEPT ![c] = [phase |-> "restoring", file |-> a, hash |-> h, seen |-> None]]
  BY DEF Restore
<1>2. /\ client'[c] = [phase |-> "restoring", file |-> a, hash |-> h, seen |-> None]
      /\ \A d \in Clients \ {c} : client'[d] = client[d]
  BY <1>1 DEF Inv, TypeOK
<1>3. content[a] # None /\ UNCHANGED <<content, versions>>
  BY ConstantsOK DEF Restore, fileVars
<1>4. HandlerOK(c)'
  BY <1>2, <1>3 DEF HandlerOK, StoringIsSafe, RestoringIsBacked, ReplacingIsBacked, VersionsOf
<1> QED BY <1>2, <1>4, ClientFrame DEF Restore, fileVars

\* What the handler reads is the current content.
LEMMA ReadCurrentKeeps == ASSUME Inv, TypeOK', NEW c \in Clients, ReadCurrent(c) PROVE Inv'
<1> DEFINE a == client[c].file
           h == client[c].hash
<1>1. /\ client[c].phase \in {"stored", "restoring"} /\ content[a] # None
      /\ UNCHANGED <<blobVars, content, versions, lock, pass>>
  BY DEF ReadCurrent, fileVars
<1>2. HandlerOK(c)
  BY DEF Inv
<1>3. CASE Finish(c)
  <2>1. client'[c].phase = "idle" /\ \A d \in Clients \ {c} : client'[d] = client[d]
    BY <1>3 DEF Inv, TypeOK, Finish, NoClient
  <2>2. HandlerOK(c)'
    BY <2>1 DEF HandlerOK, StoringIsSafe, RestoringIsBacked, ReplacingIsBacked
  <2> QED BY <1>1, <2>1, <2>2, ClientFrame
<1>4. CASE client' = [client EXCEPT ![c].phase = "replacing", ![c].seen = content[a]]
  <2>1. /\ client'[c].phase = "replacing" /\ client'[c].file = a /\ client'[c].hash = h
        /\ client'[c].seen = content[a]
        /\ \A d \in Clients \ {c} : client'[d] = client[d]
    BY <1>4 DEF Inv, TypeOK, Handlers
  <2>2. Backed(a, h)
    BY <1>1, <1>2 DEF HandlerOK, StoringIsSafe, RestoringIsBacked, Backed
  <2>3. Backed(a, h)'
    BY <1>1, <2>1, <2>2 DEF Backed, Kept, Safe, VersionsOf, blobVars
  <2>4. HandlerOK(c)'
    BY <1>1, <2>1, <2>3 DEF HandlerOK, StoringIsSafe, RestoringIsBacked, ReplacingIsBacked
  <2> QED BY <1>1, <2>1, <2>4, ClientFrame
<1> QED BY <1>3, <1>4 DEF ReadCurrent

\* No handler that is under way has to do with a content that grows old.
LEMMA AgeKeeps == ASSUME Inv, TypeOK', NEW h \in Hashes, Age(h) PROVE Inv'
<1>1. /\ UNCHANGED <<rows, files, content, versions, lock, client, pass>>
      /\ aged' = aged \cup {h}
      /\ \A c \in Clients : h \notin InUse(c)
  BY DEF Age, fileVars
<1>2. \A c \in Clients : \A x \in InUse(c) : (Safe(x) => Safe(x)') /\ (Kept(x) => Kept(x)')
  BY <1>1 DEF Safe, Kept
<1>3. ContentIsStored'
  BY <1>1, SameReferences DEF Inv, ContentIsStored
<1>4. LockHeld' /\ RemovedIsUnused'
  BY <1>1, SameReferences DEF Inv, LockHeld, RemovedIsUnused
<1> QED BY <1>1, <1>2, <1>3, <1>4, HandlersFrame DEF Inv

-----------------------------------------------------------------------------
(* Storing *)

\* Renewing a row makes its content safe as long as no pass has it in its hands,
\* and leaves the others as safe as they were.
LEMMA RenewKeeps ==
    ASSUME Inv, NEW h \in Hashes,
           rows' = rows \cup {h}, aged' = aged \ {h},
           pass' = [p \in Passes |-> [pass[p] EXCEPT !.old = @ \ {h}]]
    PROVE  /\ \A p \in Passes : pass'[p].phase = pass[p].phase /\ pass'[p].hash = pass[p].hash
           /\ \A x : Safe(x) => Safe(x)'
           /\ (\A p \in Passes : pass[p].phase # "removing") => Safe(h)'
<1>1. \A p \in Passes : /\ pass'[p].phase = pass[p].phase /\ pass'[p].hash = pass[p].hash
                        /\ pass'[p].old = pass[p].old \ {h}
  BY DEF Inv, TypeOK, Works
<1> QED BY <1>1 DEF Safe

\* The renewed row is safe from every pass, under the lock.
LEMMA RecordBlobKeeps == ASSUME Inv, TypeOK', NEW c \in Clients, RecordBlob(c) PROVE Inv'
<1> DEFINE h == client[c].hash
<1>1. h \in Hashes /\ lock = None
  BY DEF Inv, TypeOK, RecordBlob
<1>2. /\ rows' = rows \cup {h} /\ aged' = aged \ {h}
      /\ pass' = [p \in Passes |-> [pass[p] EXCEPT !.old = @ \ {h}]]
      /\ lock' = c
      /\ UNCHANGED <<files, content, versions>>
  BY DEF RecordBlob, fileVars
<1>3. /\ client'[c].phase = "recorded" /\ client'[c].hash = h
      /\ \A d \in Clients \ {c} : client'[d] = client[d]
  BY DEF Inv, TypeOK, RecordBlob, Handlers
<1>4. /\ \A p \in Passes : pass[p].phase # "removing"
      /\ \A d \in Clients : client[d].phase # "recorded"
  BY <1>1, ConstantsOK DEF Inv, LockHeld
<1>5. /\ \A p \in Passes : pass'[p].phase = pass[p].phase
      /\ \A x : Safe(x) => Safe(x)'
      /\ h \in rows' /\ h \notin aged'
      /\ \A p \in Passes : h \notin pass'[p].old
  <2>1. \A p \in Passes : pass'[p].old = pass[p].old \ {h}
    BY <1>2 DEF Inv, TypeOK, Works
  <2> QED BY <1>1, <1>2, <2>1, RenewKeeps
<1>6. \A d \in Clients \ {c} : HandlerOK(d)'
  BY <1>2, <1>3, <1>5, HandlerFrame DEF Inv, Kept
<1>7. HandlerOK(c)'
  BY <1>3, <1>4, <1>5 DEF HandlerOK, StoringIsSafe, RestoringIsBacked, ReplacingIsBacked, Safe
<1>8. ContentIsStored'
  BY <1>2, SameReferences DEF Inv, ContentIsStored
<1>9. LockHeld'
  BY <1>2, <1>3, <1>4, <1>5 DEF LockHeld
<1>10. RemovedIsUnused'
  BY <1>4, <1>5 DEF RemovedIsUnused
<1> QED BY <1>2, <1>6, <1>7, <1>8, <1>9, <1>10 DEF Inv

\* The file appears while the row is safe, and the lock is given back.
LEMMA WriteFileKeeps == ASSUME Inv, TypeOK', NEW c \in Clients, WriteFile(c) PROVE Inv'
<1> DEFINE h == client[c].hash
<1>1. /\ files' = files \cup {h} /\ lock' = None
      /\ UNCHANGED <<rows, aged, content, versions, pass>>
      /\ client[c].phase = "recorded"
  BY DEF WriteFile, fileVars
<1>2. /\ client'[c].phase = "stored" /\ client'[c].hash = h
      /\ \A d \in Clients \ {c} : client'[d] = client[d]
  BY DEF Inv, TypeOK, WriteFile, Handlers
<1>3. lock = c /\ Safe(h)
  BY <1>1 DEF Inv, LockHeld, HandlerOK, StoringIsSafe
<1>4. \A x : (Safe(x) => Safe(x)') /\ (Kept(x) => Kept(x)')
  BY <1>1 DEF Safe, Kept
<1>5. \A d \in Clients \ {c} : HandlerOK(d)'
  BY <1>1, <1>2, <1>4, HandlerFrame DEF Inv
<1>6. HandlerOK(c)'
  BY <1>1, <1>2, <1>3, <1>4 DEF HandlerOK, StoringIsSafe, RestoringIsBacked, ReplacingIsBacked, Kept, Safe
<1>7. ContentIsStored'
  BY <1>1, SameReferences DEF Inv, ContentIsStored
<1>8. LockHeld'
  BY <1>1, <1>2, <1>3, LockFrame DEF Inv
<1>9. RemovedIsUnused'
  BY <1>1, SameReferences DEF Inv, RemovedIsUnused
<1> QED BY <1>1, <1>5, <1>6, <1>7, <1>8, <1>9 DEF Inv

\* A dropped handler leaves at most a renewed row or a file of a safe one.
LEMMA DropKeeps == ASSUME Inv, TypeOK', NEW c \in Clients, Drop(c) PROVE Inv'
<1> DEFINE h == client[c].hash
<1>1. /\ UNCHANGED <<content, versions>>
      /\ lock' = IF lock = c THEN None ELSE lock
      /\ client'[c].phase = "idle" /\ \A d \in Clients \ {c} : client'[d] = client[d]
      /\ h \in Hashes
  BY DEF Inv, TypeOK, Drop, Finish, NoClient, fileVars
<1>2. /\ rows \subseteq rows' /\ files \subseteq files'
      /\ \A p \in Passes : pass'[p].phase = pass[p].phase /\ pass'[p].hash = pass[p].hash
      /\ \A x : Safe(x) => Safe(x)'
  <2>1. CASE /\ rows' = rows \cup {h} /\ aged' = aged \ {h} /\ UNCHANGED files
             /\ pass' = [p \in Passes |-> [pass[p] EXCEPT !.old = @ \ {h}]]
    BY <1>1, <2>1, RenewKeeps
  <2>2. CASE files \subseteq files' /\ UNCHANGED <<rows, aged, pass>>
    BY <2>2 DEF Safe
  <2> QED BY <2>1, <2>2 DEF Drop, blobVars
<1>3. \A d \in Clients \ {c} : HandlerOK(d)'
  BY <1>1, <1>2, HandlerFrame DEF Inv, Kept
<1>4. HandlerOK(c)'
  BY <1>1 DEF HandlerOK, StoringIsSafe, RestoringIsBacked, ReplacingIsBacked
<1>5. ContentIsStored'
  BY <1>1, <1>2, SameReferences DEF Inv, ContentIsStored
<1>6. LockHeld'
  BY <1>1, <1>2, LockFrame DEF Inv
<1>7. RemovedIsUnused'
  BY <1>1, <1>2, SameReferences DEF Inv, RemovedIsUnused
<1> QED BY <1>1, <1>3, <1>4, <1>5, <1>6, <1>7 DEF Inv

-----------------------------------------------------------------------------
(* Referring to what is stored *)

\* A file that refers to a kept content, or to none any more, disturbs no pass
\* and nothing that is stored.
LEMMA ReferenceFrame ==
    ASSUME Inv, UNCHANGED <<blobVars, pass>>,
           \A x \in Hashes : Referenced(x)' => Referenced(x) \/ Kept(x)
    PROVE  /\ ContentIsStored' /\ RemovedIsUnused'
           /\ \A x : (Safe(x) => Safe(x)') /\ (Kept(x) => Kept(x)')
<1>1. ContentIsStored'
  BY DEF Inv, ContentIsStored, Kept, Safe, blobVars
<1>2. RemovedIsUnused'
  BY DEF Inv, TypeOK, RemovedIsUnused, Kept, Safe
<1> QED BY <1>1, <1>2 DEF Kept, Safe, blobVars

\* The content a new file refers to is still stored.
LEMMA StoreArtifactKeeps == ASSUME Inv, TypeOK', NEW c \in Clients, StoreArtifact(c) PROVE Inv'
<1> DEFINE a == client[c].file
           h == client[c].hash
<1>1. /\ client[c].phase = "stored" /\ content[a] = None
      /\ UNCHANGED <<blobVars, versions, lock, pass>>
      /\ client'[c].phase = "idle" /\ \A d \in Clients \ {c} : client'[d] = client[d]
      /\ a \in Artifacts /\ h \in Hashes
  BY DEF Inv, TypeOK, StoreArtifact, Finish, NoClient
<1>2. Kept(h)
  BY <1>1 DEF Inv, HandlerOK, StoringIsSafe
<1>3. \A b \in Artifacts : content'[b] = content[b] \/ (b = a /\ content'[b] = h)
  <2>1. CASE UNCHANGED content
    BY <2>1
  <2>2. CASE content' = [content EXCEPT ![a] = h]
    BY <1>1, <2>2 DEF Inv, TypeOK
  <2> QED BY <2>1, <2>2 DEF StoreArtifact
<1>4. \A x \in Hashes : Referenced(x)' => Referenced(x) \/ Kept(x)
  BY <1>1, <1>2, <1>3 DEF Referenced, VersionsOf
<1>5. /\ ContentIsStored' /\ RemovedIsUnused'
      /\ \A x : (Safe(x) => Safe(x)') /\ (Kept(x) => Kept(x)')
  BY <1>1, <1>4, ReferenceFrame
<1>6. \A d \in Clients \ {c} : HandlerOK(d)'
  <2> SUFFICES ASSUME NEW d \in Clients \ {c} PROVE HandlerOK(d)'
    OBVIOUS
  <2>1. HandlerOK(d) /\ client'[d] = client[d]
    BY <1>1 DEF Inv
  <2>2. CASE client[d].phase \in {"restoring", "replacing"}
    <3>1. content[client[d].file] # None /\ client[d].file \in Artifacts
      BY <2>1, <2>2 DEF Inv, TypeOK, HandlerOK, RestoringIsBacked, ReplacingIsBacked
    <3>2. content'[client[d].file] = content[client[d].file]
      BY <1>1, <1>3, <3>1
    <3>3. \A x : Backed(client[d].file, x) => Backed(client[d].file, x)'
      BY <1>1, <1>5, <2>1, <3>2 DEF Backed, VersionsOf
    <3> QED BY <1>1, <2>1, <2>2, <3>2, <3>3
            DEF HandlerOK, StoringIsSafe, RestoringIsBacked, ReplacingIsBacked, VersionsOf
  <2>3. CASE client[d].phase \notin {"restoring", "replacing"}
    BY <1>5, <2>1, <2>3 DEF HandlerOK, StoringIsSafe, RestoringIsBacked, ReplacingIsBacked
  <2> QED BY <2>2, <2>3
<1>7. HandlerOK(c)'
  BY <1>1 DEF HandlerOK, StoringIsSafe, RestoringIsBacked, ReplacingIsBacked
<1>8. LockHeld'
  BY <1>1 DEF Inv, LockHeld
<1> QED BY <1>1, <1>5, <1>6, <1>7, <1>8 DEF Inv

\* A replacement puts in a content that is kept or was a version, and records one
\* that is current, kept or a version.  The content it overwrites is recorded, or
\* kept, or a version already: those who have read it may still record it.
LEMMA ReplaceContentKeeps == ASSUME Inv, TypeOK', NEW c \in Clients, ReplaceContent(c) PROVE Inv'
<1> PICK a \in Artifacts, h \in Hashes, old \in Hashes :
         a = client[c].file /\ h = client[c].hash /\ old = client[c].seen
  BY DEF Inv, TypeOK, ReplaceContent
<1>1. /\ client[c].phase = "replacing"
      /\ UNCHANGED <<blobVars, lock, pass>>
      /\ client'[c].phase = "idle" /\ \A d \in Clients \ {c} : client'[d] = client[d]
  BY DEF Inv, TypeOK, ReplaceContent, Finish, NoClient
<1>2. HandlerOK(c)'
  BY <1>1 DEF HandlerOK, StoringIsSafe, RestoringIsBacked, ReplacingIsBacked
<1>3. CASE UNCHANGED fileVars
  BY <1>1, <1>2, <1>3, ClientFrame DEF fileVars
<1>4. CASE /\ Exists(a)
           /\ content' = [content EXCEPT ![a] = h]
           /\ versions' = [versions EXCEPT ![a] = Append(@, old)]
  <2>1. /\ content'[a] = h
        /\ \A b \in Artifacts \ {a} : content'[b] = content[b] /\ VersionsOf(b)' = VersionsOf(b)
        /\ VersionsOf(a)' = VersionsOf(a) \cup {old}
    <3>1. /\ VersionsOf(a)' = VersionsOf(a) \cup {old}
          /\ \A b \in Artifacts \ {a} : VersionsOf(b)' = VersionsOf(b)
      BY <1>4, VersionAdded DEF Inv
    <3> QED BY <1>4, <3>1 DEF Inv, TypeOK
  <2>2. /\ Kept(h) \/ h \in VersionsOf(a)
        /\ Kept(old) \/ old \in VersionsOf(a) \/ old = content[a]
        /\ Kept(content[a]) \/ content[a] \in VersionsOf(a)'
    BY <1>1, <1>4, <2>1 DEF Inv, HandlerOK, ReplacingIsBacked, Backed
  <2>3. \A x \in Hashes : Referenced(x)' => Referenced(x) \/ Kept(x)
    <3> SUFFICES ASSUME NEW x \in Hashes, NEW b \in Artifacts, content'[b] = x \/ x \in VersionsOf(b)'
                 PROVE  Referenced(x) \/ Kept(x)
      BY DEF Referenced
    <3>1. CASE b = a
      BY <2>1, <2>2, <3>1 DEF Referenced
    <3>2. CASE b # a
      BY <2>1, <3>2 DEF Referenced
    <3> QED BY <3>1, <3>2
  <2>4. /\ ContentIsStored' /\ RemovedIsUnused'
        /\ \A x : (Safe(x) => Safe(x)') /\ (Kept(x) => Kept(x)')
    BY <1>1, <2>3, ReferenceFrame
  <2>5. \A x : Backed(a, x) => Kept(x)' \/ x \in VersionsOf(a)'
    BY <1>4, <2>1, <2>4 DEF Backed
  <2>6. \A d \in Clients \ {c} : HandlerOK(d)'
    <3> SUFFICES ASSUME NEW d \in Clients \ {c} PROVE HandlerOK(d)'
      OBVIOUS
    <3> DEFINE b == client[d].file
    <3>1. HandlerOK(d) /\ client'[d] = client[d]
      BY <1>1 DEF Inv
    <3>2. StoringIsSafe(d)'
      BY <2>4, <3>1 DEF HandlerOK, StoringIsSafe
    <3>3. ASSUME client[d].phase \in {"restoring", "replacing"} PROVE b \in Artifacts /\ content[b] # None
      BY <3>1, <3>3 DEF Inv, TypeOK, HandlerOK, RestoringIsBacked, ReplacingIsBacked
    <3>4. h # None
      BY <1>1, ConstantsOK
    <3>5. RestoringIsBacked(d)'
      <4> SUFFICES ASSUME client[d].phase = "restoring" PROVE RestoringIsBacked(d)'
        BY <3>1 DEF RestoringIsBacked
      <4>1. CASE b # a
        BY <2>1, <3>1, <3>3, <4>1 DEF HandlerOK, RestoringIsBacked
      <4>2. CASE b = a
        BY <1>4, <2>1, <3>1, <3>4, <4>2 DEF HandlerOK, RestoringIsBacked
      <4> QED BY <4>1, <4>2
    <3>6. ReplacingIsBacked(d)'
      <4> SUFFICES ASSUME client[d].phase = "replacing" PROVE ReplacingIsBacked(d)'
        BY <3>1 DEF ReplacingIsBacked
      <4>1. CASE b # a
        <5>1. content'[b] = content[b] /\ VersionsOf(b)' = VersionsOf(b)
          BY <2>1, <3>1, <3>3, <4>1
        <5>2. \A x : Backed(b, x) => Kept(x)' \/ (content'[b] \in Hashes => x \in VersionsOf(b)')
          BY <2>4, <5>1 DEF Backed
        <5> QED BY <3>1, <3>3, <5>1, <5>2 DEF HandlerOK, ReplacingIsBacked, Backed
      <4>2. CASE b = a
        <5>1. Kept(client[d].hash)' \/ client[d].hash \in VersionsOf(a)'
          BY <2>5, <3>1, <4>2 DEF HandlerOK, ReplacingIsBacked
        <5>2. Kept(client[d].seen)' \/ client[d].seen \in VersionsOf(a)'
          BY <2>2, <2>4, <2>5, <3>1, <4>2 DEF HandlerOK, ReplacingIsBacked
        <5>3. Kept(h)' \/ h \in VersionsOf(a)'
          BY <2>1, <2>2, <2>4
        <5> QED BY <2>1, <3>1, <3>4, <4>2, <5>1, <5>2, <5>3 DEF ReplacingIsBacked, Backed
      <4> QED BY <4>1, <4>2
    <3> QED BY <3>2, <3>5, <3>6 DEF HandlerOK
  <2>7. LockHeld'
    BY <1>1 DEF Inv, LockHeld
  <2> QED BY <1>1, <1>2, <2>4, <2>6, <2>7 DEF Inv
<1> QED BY <1>3, <1>4 DEF ReplaceContent

\* A deleted file refers to nothing, and a handler that restores or replaces it
\* finds it gone.
LEMMA DeleteArtifactKeeps == ASSUME Inv, TypeOK', NEW a \in Artifacts, DeleteArtifact(a) PROVE Inv'
<1>1. /\ UNCHANGED <<blobVars, lock, client, pass>>
      /\ content'[a] = Gone /\ VersionsOf(a)' = {}
      /\ \A b \in Artifacts \ {a} : content'[b] = content[b] /\ VersionsOf(b)' = VersionsOf(b)
  BY DEF Inv, TypeOK, DeleteArtifact, VersionsOf
<1>2. \A x \in Hashes : Referenced(x)' => Referenced(x)
  BY <1>1, ConstantsOK DEF Referenced
<1>3. /\ ContentIsStored' /\ RemovedIsUnused'
      /\ \A x : (Safe(x) => Safe(x)') /\ (Kept(x) => Kept(x)')
  BY <1>1, <1>2, ReferenceFrame
<1>4. LockHeld'
  BY <1>1 DEF Inv, LockHeld
<1>5. \A c \in Clients : HandlerOK(c)'
  <2> SUFFICES ASSUME NEW c \in Clients PROVE HandlerOK(c)'
    OBVIOUS
  <2> DEFINE b == client[c].file
  <2>1. HandlerOK(c) /\ client' = client
    BY <1>1 DEF Inv
  <2>2. StoringIsSafe(c)'
    BY <1>3, <2>1 DEF HandlerOK, StoringIsSafe
  <2>3. CASE client[c].phase \in {"restoring", "replacing"} /\ b = a
    BY <1>1, <2>1, <2>2, <2>3, ConstantsOK DEF HandlerOK, RestoringIsBacked, ReplacingIsBacked, Backed
  <2>4. CASE client[c].phase \in {"restoring", "replacing"} /\ b # a
    <3>1. content'[b] = content[b] /\ VersionsOf(b)' = VersionsOf(b)
      BY <1>1, <2>4 DEF Inv, TypeOK
    <3>2. \A x : Backed(b, x) => Kept(x)' \/ (content'[b] \in Hashes => x \in VersionsOf(b)')
      BY <1>3, <3>1 DEF Backed
    <3> QED BY <2>1, <2>2, <3>1, <3>2 DEF HandlerOK, RestoringIsBacked, ReplacingIsBacked, Backed
  <2>5. CASE client[c].phase \notin {"restoring", "replacing"}
    BY <2>1, <2>2, <2>5 DEF HandlerOK, RestoringIsBacked, ReplacingIsBacked
  <2> QED BY <2>3, <2>4, <2>5
<1> QED BY <1>1, <1>3, <1>4, <1>5 DEF Inv

-----------------------------------------------------------------------------
(* Restarts, and the theorems *)

\* A restart leaves no handler and no pass; a removal it lets be done is of a
\* content that is not used.
LEMMA RestartKeeps == ASSUME Inv, TypeOK', Restart PROVE Inv'
<1>1. /\ UNCHANGED <<rows, aged, content, versions>> /\ lock' = None
      /\ \A c \in Clients : client'[c].phase = "idle"
      /\ \A p \in Passes : pass'[p].phase = "idle"
  BY DEF Restart, NoClient, NoPass, fileVars
<1>2. \A h \in Hashes : Referenced(h) /\ h \in files => h \in files'
  BY DEF Restart, Inv, RemovedIsUnused
<1>3. ContentIsStored'
  BY <1>1, <1>2, SameReferences DEF Inv, ContentIsStored
<1>4. \A c \in Clients : HandlerOK(c)'
  BY <1>1 DEF HandlerOK, StoringIsSafe, RestoringIsBacked, ReplacingIsBacked
<1> QED BY <1>1, <1>3, <1>4 DEF Inv, LockHeld, RemovedIsUnused

\* Nothing is stored at first.
LEMMA InitInv == Init => Inv
<1> SUFFICES ASSUME Init PROVE Inv
  OBVIOUS
<1>1. TypeOK
  BY ConstantsOK DEF Init, TypeOK, NoClient, NoPass, Handlers, Works
<1>2. \A h \in Hashes : ~Referenced(h)
  BY ConstantsOK DEF Init, Referenced, VersionsOf
<1> QED
  BY <1>1, <1>2 DEF Init, Inv, ContentIsStored, LockHeld, RemovedIsUnused, HandlerOK, StoringIsSafe,
                    RestoringIsBacked, ReplacingIsBacked, NoClient, NoPass

\* Every step keeps the invariant.
LEMMA NextInv == ASSUME Inv, [Next]_vars PROVE Inv'
<1>1. TypeOK'
  BY NextTyped DEF Inv
<1>2. CASE Others
  BY <1>1, <1>2, ReceiveKeeps, RestoreKeeps, RecordBlobKeeps, WriteFileKeeps, StoreArtifactKeeps,
     ReadCurrentKeeps, ReplaceContentKeeps, DropKeeps, DeleteArtifactKeeps, AgeKeeps
  DEF Others, HandlerStep
<1>3. CASE \E p \in Passes : Begin(p) \/ WorkStep(p) \/ End(p)
  BY <1>1, <1>3, BeginKeeps, ListOrphansKeeps, DeleteRowKeeps, RemoveFileKeeps, EndCollectKeeps,
     ListFilesKeeps, SweepFileKeeps, EndSweepKeeps, EndKeeps
  DEF WorkStep
<1>4. CASE Restart
  BY <1>1, <1>4, RestartKeeps
<1>5. CASE UNCHANGED vars
  <2>1. UNCHANGED <<blobVars, content, versions, lock, client, pass>>
    BY <1>5 DEF vars, fileVars
  <2>2. \A h : (Safe(h) => Safe(h)') /\ (Kept(h) => Kept(h)')
    BY <2>1 DEF Safe, Kept, blobVars
  <2>3. \A c \in Clients : HandlerOK(c)'
    BY <2>1, <2>2, HandlersFrame
  <2>4. ContentIsStored' /\ LockHeld' /\ RemovedIsUnused'
    BY <2>1, SameReferences DEF Inv, ContentIsStored, LockHeld, RemovedIsUnused, blobVars
  <2> QED BY <1>1, <2>1, <2>3, <2>4 DEF Inv
<1> QED BY <1>2, <1>3, <1>4, <1>5 DEF Next

\* As long as no pass runs in a handler that can be dropped, what a file or one of
\* its versions refers to can be read (blob_lock, the grace and the second look of
\* collect_orphan_blobs).
THEOREM ContentStored == Spec => []ContentIsStored
<1>1. Inv /\ [Next]_vars => Inv'
  BY NextInv
<1>2. Inv => ContentIsStored
  BY DEF Inv
<1> QED BY <1>1, <1>2, InitInv, PTL DEF Spec

\* Nor does what a handler has stored go before it refers to it (store_blob).
THEOREM StoredKept == Spec => []StoredIsKept
<1>1. Inv /\ [Next]_vars => Inv'
  BY NextInv
<1>2. Inv => StoredIsKept
  BY DEF Inv, HandlerOK, StoringIsSafe, Kept, Safe, StoredIsKept
<1> QED BY <1>1, <1>2, InitInv, PTL DEF Spec

-----------------------------------------------------------------------------
(* Versions, while replacements take turns *)

\* No two handlers are between reading a file and their transaction on it.
OneReplacer ==
    \A c, d \in Clients :
        /\ client[c].phase = "replacing" /\ client[d].phase = "replacing"
        /\ client[c].file = client[d].file
        => c = d

\* The content a handler has read is the one it replaces.
SeenIsCurrent ==
    \A c \in Clients :
        client[c].phase = "replacing" /\ Exists(client[c].file) => client[c].seen = content[client[c].file]

VersionInv == Inv /\ SeenIsCurrent /\ VersionsKept

\* A step that leaves the files alone, and after which a handler that replaces
\* one has read it as it is, keeps the versions.
LEMMA VersionFrame ==
    ASSUME VersionInv, UNCHANGED fileVars,
           \A c \in Clients : client'[c].phase = "replacing" =>
                client'[c] = client[c] \/ client'[c].seen = content[client'[c].file]
    PROVE  SeenIsCurrent' /\ VersionsKept'
<1>1. SeenIsCurrent'
  BY DEF VersionInv, SeenIsCurrent, Exists, fileVars
<1>2. VersionsKept'
  BY DEF VersionInv, VersionsKept, VersionsOf, Exists, fileVars
<1> QED BY <1>1, <1>2

\* A handler that reads a file before its transaction has read what is there.
LEMMA ReadCurrentSees ==
    ASSUME VersionInv, NEW c \in Clients, ReadCurrent(c)
    PROVE  SeenIsCurrent' /\ VersionsKept'
<1>1. client \in [Clients -> Handlers] /\ UNCHANGED fileVars
  BY DEF VersionInv, Inv, TypeOK, ReadCurrent
<1> DEFINE h == [client[c] EXCEPT !.phase = "replacing", !.seen = content[client[c].file]]
<1>2. h.file = client[c].file /\ h.seen = content[client[c].file]
  BY <1>1 DEF Handlers
<1>3. client' = [client EXCEPT ![c] = h] \/ client' = [client EXCEPT ![c] = NoClient]
  BY DEF ReadCurrent, Finish
<1> HIDE DEF h
<1>4. ASSUME NEW d \in Clients, client'[d].phase = "replacing"
      PROVE  client'[d] = client[d] \/ client'[d].seen = content[client'[d].file]
  BY <1>1, <1>2, <1>3, <1>4 DEF NoClient
<1> QED BY <1>1, <1>4, VersionFrame

\* A new file has its first content, and nobody has read it yet.
LEMMA StoreArtifactRecords ==
    ASSUME VersionInv, NEW c \in Clients, StoreArtifact(c)
    PROVE  SeenIsCurrent' /\ VersionsKept'
<1> DEFINE a == client[c].file
           h == client[c].hash
<1>1. /\ a \in Artifacts /\ h \in Hashes /\ content[a] = None /\ client[c].phase = "stored"
      /\ client'[c].phase = "idle" /\ \A d \in Clients \ {c} : client'[d] = client[d]
      /\ versions' = versions
  BY DEF VersionInv, Inv, TypeOK, StoreArtifact, Finish, NoClient
<1>2. \A d \in Clients : client'[d].phase = "replacing" => client'[d] = client[d]
  BY <1>1
<1>3. CASE UNCHANGED <<content, had>>
  BY <1>1, <1>2, <1>3, VersionFrame DEF fileVars
<1>4. CASE content' = [content EXCEPT ![a] = h] /\ had' = [had EXCEPT ![a] = {h}]
  <2>1. /\ content'[a] = h /\ had'[a] = {h}
        /\ \A b \in Artifacts \ {a} : content'[b] = content[b] /\ had'[b] = had[b]
    BY <1>1, <1>4 DEF VersionInv, Inv, TypeOK
  <2>2. \A d \in Clients : client'[d].phase = "replacing" => client[d].file \in Artifacts \ {a}
    BY <1>1, <1>2 DEF VersionInv, Inv, TypeOK, HandlerOK, ReplacingIsBacked
  <2>3. SeenIsCurrent'
    BY <1>2, <2>1, <2>2 DEF VersionInv, SeenIsCurrent, Exists
  <2>4. VersionsKept'
    BY <1>1, <2>1 DEF VersionInv, VersionsKept, VersionsOf, Exists
  <2> QED BY <2>3, <2>4
<1> QED BY <1>3, <1>4 DEF StoreArtifact

\* A replacement records the content that it overwrites, as it alone has read it.
LEMMA ReplaceContentRecords ==
    ASSUME VersionInv, OneReplacer, NEW c \in Clients, ReplaceContent(c)
    PROVE  SeenIsCurrent' /\ VersionsKept'
<1> PICK a \in Artifacts, h \in Hashes, old \in Hashes :
         a = client[c].file /\ h = client[c].hash /\ old = client[c].seen
  BY DEF VersionInv, Inv, TypeOK, ReplaceContent
<1>1. /\ client[c].phase = "replacing"
      /\ client'[c].phase = "idle" /\ \A d \in Clients \ {c} : client'[d] = client[d]
  BY DEF VersionInv, Inv, TypeOK, ReplaceContent, Finish, NoClient
<1>2. \A d \in Clients : client'[d].phase = "replacing" => d # c /\ client'[d] = client[d]
  BY <1>1
<1>3. CASE UNCHANGED fileVars
  BY <1>2, <1>3, VersionFrame
<1>4. CASE /\ Exists(a)
           /\ content' = [content EXCEPT ![a] = h]
           /\ versions' = [versions EXCEPT ![a] = Append(@, old)]
           /\ had' = [had EXCEPT ![a] = @ \cup {h}]
  <2>1. /\ VersionsOf(a)' = VersionsOf(a) \cup {old}
        /\ \A b \in Artifacts \ {a} : VersionsOf(b)' = VersionsOf(b)
    BY <1>4, VersionAdded DEF VersionInv, Inv
  <2>2. /\ content'[a] = h /\ had'[a] = had[a] \cup {h}
        /\ \A b \in Artifacts \ {a} : content'[b] = content[b] /\ had'[b] = had[b]
    BY <1>4 DEF VersionInv, Inv, TypeOK
  <2>3. old = content[a]
    BY <1>1, <1>4 DEF VersionInv, SeenIsCurrent
  <2>4. \A d \in Clients : client'[d].phase = "replacing" => client[d].file \in Artifacts \ {a}
    BY <1>1, <1>2 DEF VersionInv, Inv, TypeOK, OneReplacer
  <2>5. SeenIsCurrent'
    BY <1>2, <2>2, <2>4 DEF VersionInv, SeenIsCurrent, Exists
  <2>6. ASSUME NEW b \in Artifacts, Exists(b)'
        PROVE  had'[b] \subseteq VersionsOf(b)' \cup {content'[b]}
    <3>1. CASE b = a
      <4>1. had[a] \subseteq VersionsOf(a) \cup {content[a]}
        BY <1>4 DEF VersionInv, VersionsKept
      <4> QED BY <3>1, <4>1, <2>1, <2>2, <2>3
    <3>2. CASE b # a
      BY <2>1, <2>2, <2>6, <3>2 DEF VersionInv, VersionsKept, Exists
    <3> QED BY <3>1, <3>2
  <2>7. VersionsKept'
    BY <2>6 DEF VersionsKept
  <2> QED BY <2>5, <2>7
<1> QED BY <1>3, <1>4 DEF ReplaceContent

\* A deleted file has no history.
LEMMA DeleteArtifactForgets ==
    ASSUME VersionInv, NEW a \in Artifacts, DeleteArtifact(a)
    PROVE  SeenIsCurrent' /\ VersionsKept'
<1>1. /\ client' = client /\ content'[a] = Gone
      /\ \A b \in Artifacts \ {a} : content'[b] = content[b] /\ versions'[b] = versions[b] /\ had'[b] = had[b]
  BY DEF VersionInv, Inv, TypeOK, DeleteArtifact
<1>2. \A b \in Artifacts : Exists(b)' => b # a /\ Exists(b)
  BY <1>1, ConstantsOK DEF Exists
<1>3. \A c \in Clients : client[c].phase = "replacing" => client[c].file \in Artifacts
  BY DEF VersionInv, Inv, TypeOK
<1>4. SeenIsCurrent'
  BY <1>1, <1>2, <1>3 DEF VersionInv, SeenIsCurrent
<1>5. VersionsKept'
  BY <1>1, <1>2 DEF VersionInv, VersionsKept, VersionsOf
<1> QED BY <1>4, <1>5

\* No version of a file is lost, through any uploads, restores, deletions, drops
\* and restarts, as long as no two replacements of one file overlap: it is only
\* that overlap of replace_artifact_content which loses one.
THEOREM VersionsStay == Spec /\ []OneReplacer => []VersionsKept
<1>1. ASSUME VersionInv, OneReplacer, [Next]_vars
      PROVE  VersionInv'
  <2>1. Inv'
    BY <1>1, NextInv DEF VersionInv
  <2>2. ASSUME UNCHANGED fileVars,
               \A c \in Clients : client'[c].phase = "replacing" => client'[c] = client[c]
        PROVE  SeenIsCurrent' /\ VersionsKept'
    BY <1>1, <2>2, VersionFrame
  <2>3. ASSUME NEW c \in Clients, HandlerStep(c)
        PROVE  SeenIsCurrent' /\ VersionsKept'
    <3>1. ASSUME NEW h \in {"received", "restoring", "recorded", "stored", "idle"},
                 UNCHANGED fileVars, client'[c].phase = h,
                 \A d \in Clients \ {c} : client'[d] = client[d]
          PROVE  SeenIsCurrent' /\ VersionsKept'
      BY <2>2, <3>1
    <3>2. client \in [Clients -> Handlers]
      BY <1>1 DEF VersionInv, Inv, TypeOK
    <3>3. ASSUME NEW a \in Artifacts, Restore(c, a) \/ \E h \in Hashes : Receive(c, a, h)
          PROVE  SeenIsCurrent' /\ VersionsKept'
      BY <3>1, <3>2, <3>3 DEF Restore, Receive
    <3>4. CASE RecordBlob(c)
      BY <3>1, <3>2, <3>4 DEF RecordBlob, Handlers
    <3>5. CASE WriteFile(c)
      BY <3>1, <3>2, <3>5 DEF WriteFile, fileVars, Handlers
    <3>6. CASE Drop(c)
      BY <3>1, <3>2, <3>6 DEF Drop, Finish, NoClient
    <3> QED
      BY <1>1, <2>3, <3>3, <3>4, <3>5, <3>6, StoreArtifactRecords, ReadCurrentSees, ReplaceContentRecords
      DEF HandlerStep
  <2>4. ASSUME NEW a \in Artifacts, DeleteArtifact(a)
        PROVE  SeenIsCurrent' /\ VersionsKept'
    BY <1>1, <2>4, DeleteArtifactForgets
  <2>5. ASSUME NEW h \in Hashes, Age(h)
        PROVE  SeenIsCurrent' /\ VersionsKept'
    BY <2>2, <2>5 DEF Age
  <2>6. ASSUME NEW p \in Passes, Begin(p) \/ WorkStep(p) \/ End(p)
        PROVE  SeenIsCurrent' /\ VersionsKept'
    <3>1. UNCHANGED <<fileVars, client>>
      BY <2>6 DEF Begin, End, WorkStep, ListOrphans, DeleteRow, SweepFile, RemoveFile, EndCollect, ListFiles, EndSweep
    <3> QED BY <2>2, <3>1
  <2>7. ASSUME Restart
        PROVE  SeenIsCurrent' /\ VersionsKept'
    BY <2>2, <2>7 DEF Restart, NoClient
  <2>8. ASSUME UNCHANGED vars
        PROVE  SeenIsCurrent' /\ VersionsKept'
    BY <2>2, <2>8 DEF vars
  <2> QED BY <1>1, <2>1, <2>3, <2>4, <2>5, <2>6, <2>7, <2>8 DEF VersionInv, Next, Others
<1>2. ASSUME Init PROVE VersionInv
  <2>1. Inv
    BY <1>2, InitInv
  <2>2. SeenIsCurrent /\ VersionsKept
    BY <1>2 DEF Init, SeenIsCurrent, VersionsKept, NoClient
  <2> QED BY <2>1, <2>2 DEF VersionInv
<1>3. VersionInv => VersionsKept
  BY DEF VersionInv
<1> QED BY <1>1, <1>2, <1>3, PTL DEF Spec
=============================================================================
