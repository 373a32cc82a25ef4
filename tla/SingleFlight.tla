---------------------------- MODULE SingleFlight ----------------------------
(***************************************************************************)
(* What a queue with retries promises for each of the things it works on:  *)
(* however many ask, a thing has one request, which waits, is worked on    *)
(* and ends, or rests after a failure and waits again, once for every      *)
(* delay there is.  indexing.rs promises this for files.                   *)
(***************************************************************************)
EXTENDS Integers

CONSTANTS Things, Retries

VARIABLES
    waiting,    \* requests nobody works on yet
    working,    \* requests somebody works on
    resting     \* requests that failed and wait for their delay

vars == <<waiting, working, resting>>

Init == waiting = {} /\ working = {} /\ resting = {}

InFlight(x) == \E r \in waiting \cup working \cup resting : r.file = x

\* Only a thing that has no request gets one, and its attempts start anew.
Ask(x) ==
    /\ ~InFlight(x)
    /\ waiting' = waiting \cup {[file |-> x, attempt |-> 0]}
    /\ UNCHANGED <<working, resting>>

Begin(r) ==
    /\ waiting' = waiting \ {r} /\ working' = working \cup {r}
    /\ UNCHANGED resting

\* A failed attempt uses up one of the retries.
Rest(r) ==
    /\ r.attempt < Retries
    /\ working' = working \ {r}
    /\ resting' = resting \cup {[file |-> r.file, attempt |-> r.attempt + 1]}
    /\ UNCHANGED waiting

Again(r) ==
    /\ resting' = resting \ {r} /\ waiting' = waiting \cup {r}
    /\ UNCHANGED working

End(r) ==
    /\ working' = working \ {r}
    /\ UNCHANGED <<waiting, resting>>

\* The process that holds the requests ends.
LoseAll == waiting' = {} /\ working' = {} /\ resting' = {}

Next ==
    \/ \E x \in Things : Ask(x)
    \/ \E r \in waiting : Begin(r)
    \/ \E r \in working : Rest(r) \/ End(r)
    \/ \E r \in resting : Again(r)
    \/ LoseAll

Spec == Init /\ [][Next]_vars
=============================================================================
