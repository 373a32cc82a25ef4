------------------------------ MODULE MCBackup ------------------------------
(***************************************************************************)
(* Instances of Backup for TLC: every file has one path, as in MCBlobStore. *)
(***************************************************************************)
EXTENDS Backup, TLC

CONSTANTS path, e1,
          replaced,   \* the files that are replaced
          times,      \* how often
          k1, k2,     \* two passphrases
          s1, s2, s3  \* two ways of sealing for the first, one for the second

MCPathOf      == [a \in Artifacts |-> path]
MCMaxVersions == [a \in Artifacts |-> IF a \in replaced THEN times ELSE 0]
MCKeyOf       == [s \in Salts |-> IF s = s2 THEN k2 ELSE k1]

Interchangeable == Permutations(Hashes) \cup Permutations({s1, s3})

NoCopies == \A f \in DOMAIN far : far[f] = Nothing

Busy == {c \in Clients : client[c] # NoClient} \cup {p \in Passes : pass[p] # NoPass}
OneFile ==
    /\ Cardinality({a \in Artifacts : content[a] # None}) <= 1
    /\ \A a \in Artifacts : versions[a] = <<>>
    /\ Cardinality(Busy) <= 1

\* The stored contents by themselves; ...
Contents == op = NoOperation /\ made = 0 /\ UNCHANGED ownVars /\ OneFile'

\* ... a plain backup while contents are stored, deleted and collected; ...
BackingUp ==
    /\ made = 1 /\ op.phase \in {"begun", "snapped", "walking", "written", "placed"}
    /\ keys.current = None
    /\ OneFile

\* ... or, with one content stored and left alone, two backups of which one is removed, and
\* copied, one that is deleted and restored, or two that are sealed with new keys and
\* restored.
AtRest ==
    /\ Busy = {} /\ aged = {} /\ OneFile
    /\ Cardinality(rows) = 1 /\ files = rows /\ \E a \in Artifacts : content[a] \in rows
Unsealed  == \A f \in DOMAIN root : root[f] # Nothing => root[f].salt = Plain
Plainly   == AtRest /\ keys = [current |-> None, previous |-> None] /\ Unsealed /\ Cardinality(removing) <= 1
Lossless == \A f \in DOMAIN root : root[f] # Nothing => root[f].names \subseteq rows /\ root[f].lost = {}
Copying   == Plainly /\ Lossless /\ env[e1] = Nothing /\ Cardinality(doomed) <= 1
Restoring == Plainly /\ made <= 1 /\ NoCopies
Resealing == AtRest /\ Lossless /\ NoCopies /\ doomed = {}

Explore ==
    /\ BackupInit
    /\ [][BackupNext /\ (Contents \/ BackingUp' \/ Copying' \/ Restoring' \/ Resealing')]_backupVars
=============================================================================
