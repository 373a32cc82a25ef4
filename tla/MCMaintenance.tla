--------------------------- MODULE MCMaintenance ---------------------------
(* Maintenance on small sets: every file has one path in one workspace. *)
EXTENDS Maintenance

CONSTANTS path,
          replaced,   \* the files that are replaced
          times       \* how often

MCPathOf == [a \in Artifacts |-> path]

MCMaxVersions == [a \in Artifacts |-> IF a \in replaced THEN times ELSE 0]
=============================================================================
