--------------------------- MODULE MCVectorIndex ---------------------------
(***************************************************************************)
(* Instances of VectorIndex, and of the Embedding it extends, for TLC.     *)
(***************************************************************************)
EXTENDS VectorIndex, TLC

CONSTANTS w1, w2, m2

\* Two passages of one workspace and one of another.
MCWorkspaceOf == [p \in Passages |-> IF p = 3 THEN w2 ELSE w1]

\* Two workspaces take turns without faults and edits, and are searched once all is
\* stored; or one is edited, fails, restarts and uses its allowance up; or one is
\* edited and searched.
TwoWorkspaces ==
    /\ days + edits + faults = 0
    /\ begun = 0 \/ \A p \in Passages : passage[p] = "live"
OneWorkspace == passage[3] = "unborn" /\ provider[w2] = None /\ w2 \notin waiting
Explored == TwoWorkspaces \/ (OneWorkspace /\ (begun = 0 \/ (faults = 0 /\ days + edits <= 1)))

ExploreInit == AllInit /\ m2 \notin {provider[w1], provider[w2]}
Explore == ExploreInit /\ [][IndexNext /\ Explored']_allVars

\* Embedding's Fairness, of the steps that are explored.
Within == begun' = begun /\ Explored'
ExploreFairly ==
    /\ Explore
    /\ WF_vars(Receive /\ Within)
    /\ \A s \in Permits : WF_vars(Spawn(s) /\ Within) /\ WF_vars(PassStep(s) /\ Within)
    /\ \A c \in Handlers : WF_vars(ClearVectors(c) /\ Within)
    /\ \A c \in Callers : WF_vars(Request(c) /\ Within)
    /\ \A w \in Workspaces : WF_vars(Resume(w) /\ Within)
=============================================================================
