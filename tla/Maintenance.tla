---------------------------- MODULE Maintenance ----------------------------
(***************************************************************************)
(* Maintenance passes over the stored contents: apps/server/src/           *)
(* maintenance.rs, with the passes of BlobStore.                           *)
(*                                                                         *)
(* A pass is run by the loop or by a person's request, never two at once:  *)
(* `running` is set when one begins and reset when it ends.  Only a        *)
(* person's pass runs in a request handler and can be dropped with it.     *)
(***************************************************************************)
EXTENDS BlobStore

CONSTANTS Droppable,    \* the passes that run in a request handler
          MaxRestarts   \* bound: restarts of the server

ASSUME PassesOK == Droppable \subseteq Passes /\ MaxRestarts \in Nat

VARIABLES
    running,   \* MaintenanceStatus::running
    late,      \* files a dropped pass had begun to remove
    restarts

ownVars == <<running, late, restarts>>
maintenanceVars == <<vars, ownVars>>

MaintenanceInit == Init /\ running = FALSE /\ late = {} /\ restarts = 0

\* Mutant of Start: the flag is set but not looked at.
StartAnyway(p) ==
    /\ running' = TRUE
    /\ Begin(p)
    /\ UNCHANGED <<late, restarts>>

\* run_tracked answers None when the flag is set.
Start(p) ==
    /\ ~running
    /\ running' = TRUE
    /\ Begin(p)
    /\ UNCHANGED <<late, restarts>>

\* Only the loop's pass may be one without a sweep.
Stop(p) ==
    /\ p \in Droppable => pass[p].phase = "swept"
    /\ running' = FALSE
    /\ End(p)
    /\ UNCHANGED <<late, restarts>>

\* The handler of a person's pass is dropped: the rest of run_tracked never runs.
\* What it had begun is done later, without the lock: the deletion of a row, the
\* removal of a file.
DropManual(p) ==
    /\ p \in Droppable
    /\ pass[p].phase # "idle"
    /\ pass' = [pass EXCEPT ![p] = NoPass]
    /\ lock' = IF lock = p THEN None ELSE lock
    /\ \/ UNCHANGED <<rows, aged, late>>
       \/ \E h \in pass[p].todo \cap pass[p].old :
            /\ pass[p].phase = "collecting" /\ ~Referenced(h)
            /\ rows' = rows \ {h}
            /\ aged' = aged \ {h}
            /\ UNCHANGED late
       \/ /\ pass[p].phase = "removing"
          /\ late' = late \cup {pass[p].hash}
          /\ UNCHANGED <<rows, aged>>
       \/ \E h \in pass[p].todo \ rows :
            /\ pass[p].phase = "sweeping"
            /\ lock = None
            /\ late' = late \cup {h}
            /\ UNCHANGED <<rows, aged>>
    /\ UNCHANGED <<files, fileVars, client, running, restarts>>

\* tokio::fs::remove_file runs in a thread of its own, which nothing drops.
RemoveLate(h) ==
    /\ h \in late
    /\ late' = late \ {h}
    /\ files' \in {files, files \ {h}}
    /\ UNCHANGED <<rows, aged, fileVars, lock, client, pass, running, restarts>>

RestartServer ==
    /\ restarts < MaxRestarts
    /\ restarts' = restarts + 1
    /\ Restart
    /\ running' = FALSE
    /\ late' = {}

Work(p) == WorkStep(p) /\ UNCHANGED ownVars

MaintenanceNext ==
    \/ Others /\ UNCHANGED ownVars
    \/ \E p \in Passes : Start(p) \/ Work(p) \/ Stop(p) \/ DropManual(p)
    \/ RestartServer
    \/ \E h \in Hashes : RemoveLate(h)

MaintenanceSpec == MaintenanceInit /\ [][MaintenanceNext]_maintenanceVars

Removes(p, h) == SweepFile(p, h) /\ h \notin files'

\* Time passes, and handlers and the loop go on (a person's pass may not).  The
\* loop comes round, sweeps once a day, and no statement fails every time; tokio
\* gives its lock in the order it was asked for.
Fairness ==
    /\ \A h \in Hashes : WF_maintenanceVars(Age(h) /\ UNCHANGED ownVars)
    /\ \A c \in Clients :
         /\ SF_maintenanceVars(RecordBlob(c) /\ UNCHANGED ownVars)
         /\ WF_maintenanceVars(WriteFile(c) /\ UNCHANGED ownVars)
    /\ \A p \in Passes \ Droppable :
         /\ SF_maintenanceVars(Start(p))
         /\ SF_maintenanceVars(Work(p) \/ Stop(p))
         /\ SF_maintenanceVars(ListOrphans(p) /\ UNCHANGED ownVars)
         /\ SF_maintenanceVars(ListFiles(p) /\ UNCHANGED ownVars)
         /\ \A h \in Hashes :
              /\ SF_maintenanceVars(DeleteRow(p, h) /\ UNCHANGED ownVars)
              /\ SF_maintenanceVars(Removes(p, h) /\ UNCHANGED ownVars)

FairSpec == MaintenanceSpec /\ Fairness

-----------------------------------------------------------------------------
(* Properties *)

\* Two passes are never at work at once, whoever asked for them, across drops
\* and restarts.
OnePassAtATime ==
    \A p, q \in Passes : pass[p].phase # "idle" /\ pass[q].phase # "idle" => p = q

Unused(h) == ~Referenced(h) /\ \A c \in Clients : h \notin {client[c].hash, client[c].seen}

\* What nothing refers to is reclaimed, unless it is stored again first: the
\* row by a collection, a file left without one by a sweep.  As long as passes go
\* on: a pass that is dropped leaves `running` set and stops them for good.
OrphansReclaimed ==
    []<>~running =>
        \A h \in Hashes : (Unused(h) /\ h \in rows \cup files) ~> (h \notin rows \cup files \/ ~Unused(h))
=============================================================================
