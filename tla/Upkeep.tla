------------------------------- MODULE Upkeep -------------------------------
(***************************************************************************)
(* What a background queue promises for the things it keeps up to date: a  *)
(* thing that has fallen behind stays arranged for (somebody will ask for  *)
(* it, it waits, or it is being worked on) until it has caught up.         *)
(* embedding.rs promises this for the vectors of a workspace.              *)
(***************************************************************************)
CONSTANT Things

VARIABLES
    behind,     \* the things that are out of date
    arranged    \* the things somebody is going to bring up to date

vars == <<behind, arranged>>

Init == behind = {} /\ arranged = {}

\* A thing falls behind: whoever makes it so arranges for it in the same step.
FallBehind(x) == behind' = behind \cup {x} /\ arranged' = arranged \cup {x}

\* Asking again for things that are arranged for, or up to date, does no harm.
Arrange(S) == behind' = behind /\ arranged' = arranged \cup S

CatchUp(x) == behind' = behind \ {x} /\ arranged' \in {arranged, arranged \ {x}}

\* Only a thing that is up to date is let go.
StandDown(x) == x \notin behind /\ arranged' = arranged \ {x} /\ behind' = behind

Next ==
    \/ \E x \in Things : FallBehind(x) \/ CatchUp(x) \/ StandDown(x)
    \/ \E S \in SUBSET Things : Arrange(S)

Spec == Init /\ [][Next]_vars
=============================================================================
