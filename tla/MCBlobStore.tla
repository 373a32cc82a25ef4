---------------------------- MODULE MCBlobStore ----------------------------
(* BlobStore on small sets: every file has one path in one workspace. *)
EXTENDS BlobStore, TLC

CONSTANTS path,
          replaced,   \* the files that are replaced
          times       \* how often

MCPathOf == [a \in Artifacts |-> path]

MCMaxVersions == [a \in Artifacts |-> IF a \in replaced THEN times ELSE 0]

Interchangeable ==
    Permutations(Clients) \cup Permutations(Hashes)
=============================================================================
