---------------------------- MODULE MCIndexQueue ----------------------------
(***************************************************************************)
(* Instances of IndexQueue for TLC.                                        *)
(***************************************************************************)
EXTENDS IndexQueue, FiniteSets, TLC

CONSTANTS a1, a2, b1, w1, w2, s1, s2, j1, j2

\* Two files of a busy workspace and one of another, or part of them.
MCWorkspaceOf == [a \in Artifacts |-> IF a = b1 THEN w2 ELSE w1]

\* Handlers and permits are interchangeable.
Interchangeable == Permutations(Clients) \cup Permutations(Slots)

\* One file with everything that may happen to it, at most one of it a restart or a
\* failed statement; or three files that take turns, each stored once, with one
\* handler and one permit at work and no jobs, restarts and failed statements.
OneFile == restarts + faults <= 1 /\ \A a \in Artifacts \ {a1} : content[a] = 0
TakingTurns ==
    /\ restarts + faults = 0
    /\ \A a \in Artifacts : content[a] <= 1
    /\ \A j \in JobIds : jobs[j] = NoJob
    /\ \A r \in sleeping : r.file = b1
    /\ Cardinality({c \in Clients : client[c] # NoClient}) <= 1
    /\ Cardinality({s \in Slots : task[s] # NoTask}) <= 1

Explore == Init /\ [][Next /\ (OneFile' \/ TakingTurns')]_vars

\* A file stored once whose passes people ask for: with two permits, while the
\* file stays and only the passes people asked for fail; or with one permit at
\* work, a restart or a failed statement.  Or a file that is stored again and for
\* which nobody asks.  Ids and permits, which are alike, are used in one order.
OneBusy == \E t \in Slots : \A s \in Slots \ {t} : task[s] = NoTask
Undisturbed ==
    /\ restarts + faults = 0
    /\ \A a \in Artifacts : content[a] # Deleted
    /\ \A s \in Slots : task[s].phase = "failed" => task[s].job # None
AskedFor == OneFile /\ (Undisturbed \/ OneBusy) /\ \A a \in Artifacts : content[a] <= 1
StoredAgain == OneFile /\ OneBusy /\ \A j \in JobIds : jobs[j] = NoJob
InOrder ==
    /\ jobs'[j2] # NoJob => jobs'[j1] # NoJob
    /\ task[s2] = NoTask /\ task'[s2] # NoTask => task[s1] # NoTask
Within == (AskedFor' \/ StoredAgain') /\ InOrder

FairExplore ==
    /\ Init /\ [][Next /\ Within]_vars
    /\ \A c \in Clients : WF_vars(HandlerStep(c) /\ Within)
    /\ \A s \in Slots : WF_vars(TaskStep(s) /\ Within)
    /\ WF_vars(\E s \in Slots : Pick(s) /\ Within)
    /\ \A a \in Artifacts : WF_vars(\E r \in sleeping : r.file = a /\ WakeRetry(r) /\ Within)
    /\ WF_vars(ResumeList /\ Within)
    /\ \A a \in Artifacts : WF_vars(ResumePush(a) /\ Within)
=============================================================================
