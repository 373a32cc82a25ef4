----------------------------- MODULE MCRepoSync -----------------------------
\* Two commits for RepoSync that replace each other.  Two files with one content
\* move, one of them edited; a third turns binary.
EXTENDS RepoSync, TLC

CONSTANTS c1, c2, x, y, bin

MCTree == (c1 :> <<x, x, None, None, y>>) @@ (c2 :> <<None, None, x, y, bin>>)

\* c2 only removes a file.
RemovedTree == (c1 :> <<x, None, y>>) @@ (c2 :> <<x, None, None>>)

MCPushes == {<<c1, c2>>, <<c2, c1>>}

\* The rules may leave the first path out; or they are Few for ever.
Few == {1, 3, 5}
MCSettings == {1..5, 2..5, Few}
SmallSettings == {1..3}

\* What is explored: a repository with few files, with its poller, an edit and
\* a fault; or one with all files and both sets of rules, synced by a person and
\* after restarts, with an edit or a fault.
Polled == meta.settings = Few
Unpolled ==
    /\ starter["poll"] = "idle" /\ attempt = None
    /\ ~(running /\ \E k \in Starters : starter[k] = "asked")
    /\ edits + faults <= 1
Explored == (Polled <=> Polled') /\ (Polled' \/ Unpolled')

Explore == Init /\ [][Next /\ Explored]_vars
ExploreFairly ==
    /\ Explore
    /\ \A s \in Syncs : WF_vars(SyncStep(s) /\ Explored)
    /\ \A k \in Starters : WF_vars(Claim(k) /\ Explored) /\ WF_vars(Begin(k) /\ Explored)
    /\ WF_vars(Poll /\ Explored) /\ WF_vars(Expire /\ Explored)

\* Follows is about a repository that is polled.
FollowsWhenPolled == []Polled => Follows
=============================================================================
