------------------------- MODULE Maintenance_proofs -------------------------
(***************************************************************************)
(* Proofs about Maintenance, for any passes, droppable or not, and any     *)
(* number of restarts.                                                     *)
(***************************************************************************)
EXTENDS Maintenance, BlobStore_proofs

Typed == TypeOK /\ late \in SUBSET Hashes

\* Every step keeps the types, those of a dropped pass too.
LEMMA MaintenanceTyped == ASSUME Typed, [MaintenanceNext]_maintenanceVars PROVE Typed'
<1>1. CASE [Next]_vars /\ late' \in {late, {}}
  BY <1>1, NextTyped DEF Typed
<1>2. ASSUME NEW p \in Passes, DropManual(p) PROVE Typed'
  <2>1. pass' \in [Passes -> Works] /\ \A q \in Passes : pass'[q].phase = "removing" => pass'[q].hash \in Hashes
    BY <1>2 DEF Typed, TypeOK, DropManual, NoPass, Works
  <2>2. rows' \in SUBSET Hashes /\ aged' \in SUBSET rows' /\ late' \in SUBSET Hashes
    BY <1>2 DEF Typed, TypeOK, DropManual, Works
  <2>3. lock' \in Clients \cup Passes \cup {None}
    BY <1>2 DEF Typed, TypeOK, DropManual
  <2> QED BY <1>2, <2>1, <2>2, <2>3 DEF Typed, TypeOK, DropManual, fileVars
<1>3. ASSUME NEW h \in Hashes, RemoveLate(h) PROVE Typed'
  BY <1>3 DEF Typed, TypeOK, RemoveLate, fileVars
<1> QED
  BY <1>1, <1>2, <1>3
  DEF MaintenanceNext, maintenanceVars, ownVars, Next, Start, Work, Stop, RestartServer

AtWorkMeansRunning == \A p \in Passes : pass[p].phase # "idle" => running

PassInv == Typed /\ OnePassAtATime /\ AtWorkMeansRunning

\* Two passes are never at work at once (run_tracked), with drops and restarts.
THEOREM OnePass == MaintenanceSpec => []OnePassAtATime
<1>1. MaintenanceInit => PassInv
  BY ConstantsOK DEF MaintenanceInit, PassInv, Typed, OnePassAtATime, AtWorkMeansRunning, Init, TypeOK,
                     NoClient, NoPass, Handlers, Works
<1>2. ASSUME PassInv, [MaintenanceNext]_maintenanceVars PROVE PassInv'
  <2>1. Typed'
    BY <1>2, MaintenanceTyped DEF PassInv
  <2>2. CASE Others /\ UNCHANGED ownVars
    <3>1. CASE UNCHANGED pass
      BY <1>2, <2>1, <2>2, <3>1 DEF PassInv, OnePassAtATime, AtWorkMeansRunning, ownVars
    <3>2. CASE \E h \in Hashes : pass' = [p \in Passes |-> [pass[p] EXCEPT !.old = @ \ {h}]]
      <4>1. \A p \in Passes : pass'[p].phase = pass[p].phase
        BY <1>2, <3>2 DEF PassInv, Typed, TypeOK, Works
      <4> QED BY <1>2, <2>1, <2>2, <4>1 DEF PassInv, OnePassAtATime, AtWorkMeansRunning, ownVars
    <3>3. \A c \in Clients : client[c].phase # "idle" => client[c].hash \in Hashes
      BY <1>2 DEF PassInv, Typed, TypeOK
    <3>4. UNCHANGED pass \/ \E h \in Hashes : pass' = [p \in Passes |-> [pass[p] EXCEPT !.old = @ \ {h}]]
      BY <2>2, <3>3
      DEF Others, HandlerStep, Receive, Restore, RecordBlob, WriteFile, StoreArtifact,
          ReadCurrent, ReplaceContent, Drop, DeleteArtifact, Age
    <3> QED BY <3>1, <3>2, <3>4
  <2>3. ASSUME NEW p \in Passes, Start(p) PROVE PassInv'
    <3>1. \A q \in Passes \ {p} : pass'[q] = pass[q] /\ pass[q].phase = "idle"
      BY <1>2, <2>3 DEF PassInv, AtWorkMeansRunning, TypeOK, Start, Begin
    <3> QED BY <2>1, <2>3, <3>1 DEF PassInv, OnePassAtATime, AtWorkMeansRunning, Start
  <2>4. ASSUME NEW p \in Passes, Work(p) PROVE PassInv'
    <3>1. pass[p].phase # "idle" /\ \A q \in Passes \ {p} : pass'[q] = pass[q]
      BY <1>2, <2>4
      DEF PassInv, Typed, TypeOK, Work, WorkStep, ListOrphans, DeleteRow, SweepFile, RemoveFile, EndCollect, ListFiles, EndSweep
    <3> QED BY <1>2, <2>1, <2>4, <3>1 DEF PassInv, OnePassAtATime, AtWorkMeansRunning, Work, ownVars
  <2>5. ASSUME NEW p \in Passes, Stop(p) PROVE PassInv'
    <3>1. /\ pass[p].phase # "idle" /\ pass'[p].phase = "idle"
          /\ \A q \in Passes \ {p} : pass'[q] = pass[q]
      BY <1>2, <2>5 DEF PassInv, Typed, TypeOK, Stop, End, NoPass
    <3> QED BY <1>2, <2>1, <3>1 DEF PassInv, OnePassAtATime, AtWorkMeansRunning
  <2>6. ASSUME NEW p \in Passes, DropManual(p) PROVE PassInv'
    <3>1. pass'[p].phase = "idle" /\ \A q \in Passes \ {p} : pass'[q] = pass[q]
      BY <1>2, <2>6 DEF PassInv, Typed, TypeOK, DropManual, NoPass
    <3> QED BY <1>2, <2>1, <2>6, <3>1 DEF PassInv, OnePassAtATime, AtWorkMeansRunning, DropManual
  <2>7. CASE RestartServer
    BY <2>1, <2>7 DEF PassInv, OnePassAtATime, AtWorkMeansRunning, RestartServer, Restart, NoPass
  <2>8. ASSUME NEW h \in Hashes, RemoveLate(h) PROVE PassInv'
    BY <1>2, <2>1, <2>8 DEF PassInv, OnePassAtATime, AtWorkMeansRunning, RemoveLate
  <2>9. CASE UNCHANGED maintenanceVars
    BY <1>2, <2>1, <2>9 DEF PassInv, OnePassAtATime, AtWorkMeansRunning, maintenanceVars, ownVars, vars
  <2> QED BY <1>2, <2>2, <2>3, <2>4, <2>5, <2>6, <2>7, <2>8, <2>9 DEF MaintenanceNext
<1>3. PassInv => OnePassAtATime
  BY DEF PassInv
<1> QED BY <1>1, <1>2, <1>3, PTL DEF MaintenanceSpec

-----------------------------------------------------------------------------
(* What BlobStore promises, with passes that may be dropped *)

\* The removals that a dropped pass leaves to a thread, which holds no lock,
\* reach no content that was stored again meanwhile.
LateIsForgotten == \A h \in Hashes : RemoveLate(h) => h \notin rows

\* A step that frees the lock and takes the rows of contents that are not kept
\* leaves the rest as it should be.
LEMMA FreedKeeps ==
    ASSUME Inv, TypeOK', NEW p \in Passes,
           UNCHANGED <<files, content, versions, client>>,
           lock' = IF lock = p THEN None ELSE lock,
           pass' = [pass EXCEPT ![p] = NoPass],
           \A h \in rows : Safe(h) \/ Referenced(h) => h \in rows',
           aged' \subseteq aged
    PROVE  Inv'
<1>1. /\ pass'[p].phase = "idle" /\ pass'[p].old = {}
      /\ \A q \in Passes \ {p} : pass'[q] = pass[q]
  BY DEF Inv, TypeOK, NoPass
<1>2. \A h : (Safe(h) => Safe(h)') /\ (Kept(h) => Kept(h)')
  BY <1>1 DEF Safe, Kept
<1>3. ContentIsStored'
  BY SameReferences DEF Inv, ContentIsStored
<1>4. LockHeld'
  BY <1>1, ConstantsOK DEF Inv, LockHeld
<1>5. RemovedIsUnused'
  BY <1>1, SameReferences DEF Inv, RemovedIsUnused
<1>6. \A c \in Clients : HandlerOK(c)'
  BY <1>2, HandlersFrame
<1> QED BY <1>3, <1>4, <1>5, <1>6 DEF Inv

\* A pass of a person that is dropped is no pass any more, and its lock is free.
LEMMA DropManualKeeps == ASSUME Inv, TypeOK', NEW p \in Passes, DropManual(p) PROVE Inv'
<1>1. /\ UNCHANGED <<files, content, versions, client>>
      /\ lock' = IF lock = p THEN None ELSE lock
      /\ pass' = [pass EXCEPT ![p] = NoPass]
  BY DEF DropManual, fileVars
<1>2. (\A h \in rows : Safe(h) \/ Referenced(h) => h \in rows') /\ aged' \subseteq aged
  <2>1. CASE UNCHANGED <<rows, aged>>
    BY <2>1
  <2>2. ASSUME NEW h \in pass[p].todo \cap pass[p].old, ~Referenced(h),
               rows' = rows \ {h}, aged' = aged \ {h}
        PROVE  (\A x \in rows : Safe(x) \/ Referenced(x) => x \in rows') /\ aged' \subseteq aged
    BY <2>2 DEF Safe
  <2> QED BY <2>1, <2>2 DEF DropManual
<1> QED BY <1>1, <1>2, FreedKeeps

\* A file without a row is nobody's.
LEMMA LateKeeps ==
    ASSUME Inv, TypeOK', NEW h \in Hashes, RemoveLate(h), h \notin rows
    PROVE  Inv'
<1>1. /\ UNCHANGED <<rows, aged, content, versions, lock, client, pass>>
      /\ \A x \in rows : x \in files => x \in files'
  BY DEF RemoveLate, fileVars
<1>2. \A x : (Safe(x) => Safe(x)') /\ (Kept(x) => Kept(x)')
  BY <1>1 DEF Safe, Kept
<1>3. ContentIsStored'
  BY <1>1, SameReferences DEF Inv, ContentIsStored
<1>4. LockHeld' /\ RemovedIsUnused'
  BY <1>1, SameReferences DEF Inv, LockHeld, RemovedIsUnused
<1>5. \A c \in Clients : HandlerOK(c)'
  BY <1>1, <1>2, HandlersFrame
<1> QED BY <1>3, <1>4, <1>5 DEF Inv

\* Passes that people start and drop do no harm, with any number of them dropped
\* at any point, but for one: whatever is referred to or was just stored can be
\* read as long as no file is removed late whose content has a row again.
THEOREM DroppedPassesKeep ==
    MaintenanceSpec /\ [][LateIsForgotten]_maintenanceVars => [](ContentIsStored /\ StoredIsKept)
<1>1. ASSUME Inv, [MaintenanceNext]_maintenanceVars, [LateIsForgotten]_maintenanceVars, Typed'
      PROVE  Inv'
  <2>1. TypeOK'
    BY <1>1 DEF Typed
  <2>2. CASE [Next]_vars
    BY <1>1, <2>2, NextInv
  <2>3. ASSUME NEW p \in Passes, DropManual(p) PROVE Inv'
    BY <1>1, <2>1, <2>3, DropManualKeeps
  <2>4. ASSUME NEW h \in Hashes, RemoveLate(h) PROVE Inv'
    <3>1. late' # late
      BY <2>4 DEF RemoveLate
    <3>2. h \notin rows
      BY <1>1, <2>4, <3>1 DEF LateIsForgotten, maintenanceVars, ownVars
    <3> QED BY <1>1, <2>1, <2>4, <3>2, LateKeeps
  <2> QED
    BY <1>1, <2>2, <2>3, <2>4
    DEF MaintenanceNext, maintenanceVars, ownVars, Next, Start, Work, Stop, RestartServer
<1>2. MaintenanceInit => Inv /\ Typed
  BY InitInv DEF MaintenanceInit, Inv, Typed
<1>3. Typed /\ [MaintenanceNext]_maintenanceVars => Typed'
  BY MaintenanceTyped
<1>4. Inv => ContentIsStored /\ StoredIsKept
  BY DEF Inv, HandlerOK, StoringIsSafe, Kept, Safe, StoredIsKept
<1> QED BY <1>1, <1>2, <1>3, <1>4, PTL DEF MaintenanceSpec
=============================================================================
