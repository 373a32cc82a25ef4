------------------------------ MODULE RepoSync ------------------------------
(***************************************************************************)
(* One git repository linked to a workspace, and the syncs that follow it: *)
(* the runner of apps/server/src/repositories.rs, the engine of            *)
(* crates/api/src/repo_sync.rs and the rows of crates/storage/src/repo.rs. *)
(*                                                                         *)
(* A sync reads the link's metadata once, plans the difference between the *)
(* commit and the stored files, stores it file by file, records the        *)
(* commit and indexes what changed.  An administrator may edit the         *)
(* settings meanwhile; both write the whole metadata they once read.       *)
(*                                                                         *)
(* Paths are numbers, in the order git lists them.  A blob is a content,   *)
(* settings are the paths the include and exclude rules let through.       *)
(***************************************************************************)
EXTENDS Integers

CONSTANTS Paths, Blobs, Commits, Artifacts,
          Tree,          \* the files of each commit: [Commits -> [Paths -> Blobs \cup {None}]]
          NotText,       \* blobs that are not indexable text
          Settings,      \* sets of paths the rules may let through
          Pushes,        \* moves of the branch: pairs of commits
          Starters,      \* who calls start: the poller, people and webhooks, the startup
          Syncs,         \* spawned tasks
          ProgressEvery, \* PROGRESS_EVERY: files between two looks at a cancellation
          MaxEdits,      \* bound: edits of the link
          MaxFaults,     \* bound: failures, cancellations, dropped requests, restarts
          None

ASSUME ConstantsOK ==
    /\ Paths \subseteq Nat /\ Artifacts \subseteq Nat
    /\ NotText \subseteq Blobs
    /\ Settings \subseteq SUBSET Paths
    /\ Tree \in [Commits -> [Paths -> Blobs \cup {None}]]
    /\ Pushes \subseteq Commits \X Commits
    /\ Starters \subseteq {"poll", "person", "resume"}
    /\ ProgressEvery \in Nat \ {0} /\ MaxEdits \in Nat /\ MaxFaults \in Nat
    /\ None \notin Paths \cup Artifacts /\ None \notin Settings
    /\ None \notin Blobs \cup Commits

VARIABLES
    head,      \* the commit the branch points at
    meta,      \* sources.metadata_json
    rows,      \* repo_files, with the artifact of each row
    running,   \* RepoSyncRunner::running holds the repository
    starter,   \* calls of start in flight
    attempt,   \* RepoSyncRunner::auto_attempts of the last hour
    sync,      \* the tasks start spawns
    edit,      \* update_repo_source in flight
    edits, faults

runner == <<running, starter, attempt>>
vars == <<head, meta, rows, runner, sync, edit, edits, faults>>

\* `whole`: last_report is there, was not cancelled and left no file failed.
Metas == [settings: Settings, commit: Commits \cup {None},
          with: Settings \cup {None}, whole: BOOLEAN]

\* `indexed` is artifacts.indexed_at IS NOT NULL; `passages` is what the
\* stored chunks were cut from, a set of at most one <<path, blob>>.
Rows == [art: Artifacts \cup {None}, blob: Blobs \cup {None}, removed: BOOLEAN,
         indexed: BOOLEAN, passages: SUBSET (Paths \X (Blobs \cup {None}))]
NoRow == [art |-> None, blob |-> None, removed |-> FALSE, indexed |-> FALSE, passages |-> {}]

\* `plan` maps a changed path to the row the change is made to: itself for an
\* update, another path for a rename, None for a new file.
Phases == {"idle", "queued", "reading", "storing", "removing", "indexing", "finishing", "ended"}
Tasks == [phase: Phases, meta: Metas, commit: Commits \cup {None},
          plan: [Paths -> Paths \cup {None}], todo: SUBSET Paths, gone: SUBSET Paths,
          done: Nat, cancel: BOOLEAN, cancelled: BOOLEAN, failed: BOOLEAN, nothing: BOOLEAN]

\* A link no one has synced yet, with the settings s.
Linked(s) == [settings |-> s, commit |-> None, with |-> None, whole |-> FALSE]
NoSync == [phase |-> "idle", meta |-> Linked(CHOOSE s \in Settings : TRUE), commit |-> None,
           plan |-> [p \in Paths |-> None], todo |-> {}, gone |-> {}, done |-> 0,
           cancel |-> FALSE, cancelled |-> FALSE, failed |-> FALSE, nothing |-> FALSE]
Edits == [phase: {"idle", "read"}, meta: Metas]
NoEdit == [phase |-> "idle", meta |-> NoSync.meta]

TypeOK ==
    /\ head \in Commits
    /\ meta \in Metas
    /\ rows \in [Paths -> Rows]
    /\ running \in BOOLEAN
    /\ starter \in [Starters -> {"idle", "asked", "claimed"}]
    /\ attempt \in Commits \cup {None}
    /\ sync \in [Syncs -> Tasks]
    /\ \A s \in Syncs :
         sync[s].phase \notin {"idle", "queued", "reading", "ended"} => sync[s].commit \in Commits
    /\ edit \in Edits
    /\ edits \in 0..MaxEdits /\ faults \in 0..MaxFaults

\* connect_repository: the link is stored and its first sync asked for.
Init ==
    /\ head \in Commits
    /\ \E s \in Settings : meta = Linked(s)
    /\ rows = [p \in Paths |-> NoRow]
    /\ running = FALSE
    /\ starter = [x \in Starters |-> IF x = "person" THEN "asked" ELSE "idle"]
    /\ attempt = None
    /\ sync = [s \in Syncs |-> NoSync]
    /\ edit = NoEdit
    /\ edits = 0 /\ faults = 0

Least(p, S) == p \in S /\ \A q \in S : p <= q
Live(p) == rows[p].art # None /\ ~rows[p].removed
Fault == faults < MaxFaults /\ faults' = faults + 1

-----------------------------------------------------------------------------
(* The runner *)

\* External: someone pushes, resets or force-pushes the branch.
Push(c) ==
    /\ <<head, c>> \in Pushes
    /\ head' = c
    /\ UNCHANGED <<meta, rows, runner, sync, edit, edits, faults>>

\* sync_repository and the repository webhooks: a request handler calls start.
Ask ==
    /\ "person" \in Starters /\ starter["person"] = "idle"
    /\ starter' = [starter EXCEPT !["person"] = "asked"]
    /\ UNCHANGED <<head, meta, rows, running, attempt, sync, edit, edits, faults>>

\* poll_once: the branch moved since the last sync, and this commit was not
\* tried in the last hour.
Poll ==
    /\ "poll" \in Starters /\ starter["poll"] = "idle"
    /\ ~running
    /\ meta.commit \notin {None, head}
    /\ attempt # head
    /\ attempt' = head
    /\ starter' = [starter EXCEPT !["poll"] = "asked"]
    /\ UNCHANGED <<head, meta, rows, running, sync, edit, edits, faults>>

\* AUTO_SYNC_RETRY_AFTER has passed.
Expire ==
    /\ attempt # None
    /\ attempt' = None
    /\ UNCHANGED <<head, meta, rows, running, starter, sync, edit, edits, faults>>

\* Mutant of Claim: nobody looks whether the repository is syncing.
ClaimAnyway(x) ==
    /\ starter[x] = "asked"
    /\ running' = TRUE
    /\ starter' = [starter EXCEPT ![x] = "claimed"]
    /\ UNCHANGED <<head, meta, rows, attempt, sync, edit, edits, faults>>

\* start, up to its first await: the repository is entered in `running`, or a
\* sync is under way already.
Claim(x) ==
    /\ starter[x] = "asked"
    /\ running' = TRUE
    /\ starter' = [starter EXCEPT ![x] = IF running THEN "idle" ELSE "claimed"]
    /\ UNCHANGED <<head, meta, rows, attempt, sync, edit, edits, faults>>

\* begin_repo_sync made the job; the task is spawned.
Begin(x) ==
    /\ starter[x] = "claimed"
    /\ starter' = [starter EXCEPT ![x] = "idle"]
    /\ \E s \in Syncs :
         /\ sync[s].phase = "idle"
         /\ sync' = [sync EXCEPT ![s] = [NoSync EXCEPT !.phase = "queued"]]
    /\ UNCHANGED <<head, meta, rows, running, attempt, edit, edits, faults>>

\* No room for the sync, or its job could not be made.
BeginFails(x) ==
    /\ Fault
    /\ starter[x] = "claimed"
    /\ starter' = [starter EXCEPT ![x] = "idle"]
    /\ running' = FALSE
    /\ UNCHANGED <<head, meta, rows, attempt, sync, edit, edits>>

\* The client of a handler is gone: its call of start stops at an await.
DropPerson ==
    /\ Fault
    /\ "person" \in Starters /\ starter["person"] = "claimed"
    /\ starter' = [starter EXCEPT !["person"] = "idle"]
    /\ UNCHANGED <<head, meta, rows, running, attempt, sync, edit, edits>>

\* Mutant of Forget: the repository stays in `running`.
ForgetTask(s) ==
    /\ sync[s].phase = "ended"
    /\ sync' = [sync EXCEPT ![s] = NoSync]
    /\ UNCHANGED <<head, meta, rows, runner, edit, edits, faults>>

\* The task has released its permit and forgets the repository.
Forget(s) ==
    /\ sync[s].phase = "ended"
    /\ sync' = [sync EXCEPT ![s] = NoSync]
    /\ running' = FALSE
    /\ UNCHANGED <<head, meta, rows, starter, attempt, edit, edits, faults>>

\* The process ends and comes back; resume_all syncs every repository.
Restart ==
    /\ Fault
    /\ running' = FALSE
    /\ starter' = [x \in Starters |-> IF x = "resume" THEN "asked" ELSE "idle"]
    /\ attempt' = None
    /\ sync' = [s \in Syncs |-> NoSync]
    /\ edit' = NoEdit
    /\ UNCHANGED <<head, meta, rows, edits>>

-----------------------------------------------------------------------------
(* The settings *)

\* update_repo_source reads the link, then asks git about the branch.
ReadLink ==
    /\ edit.phase = "idle" /\ edits < MaxEdits
    /\ edit' = [phase |-> "read", meta |-> meta]
    /\ edits' = edits + 1
    /\ UNCHANGED <<head, meta, rows, runner, sync, faults>>

\* It writes the metadata it read, with the new settings in it.
\* store_repo_summary writes in the same way and leaves the settings alone.
SaveSettings(s) ==
    /\ edit.phase = "read"
    /\ meta' = [edit.meta EXCEPT !.settings = s]
    /\ edit' = NoEdit
    /\ UNCHANGED <<head, rows, runner, sync, edits, faults>>

-----------------------------------------------------------------------------
(* What a sync has to do *)

\* The files of a commit that the rules let through.
Wanted(c, s) == {p \in s : Tree[c][p] # None}

\* The files that stay once those that are not text are left out.
Texts(c, s) == {p \in Wanted(c, s) : Tree[c][p] \notin NotText}

Vanished(c, s) == {p \in Paths : Live(p)} \ Wanted(c, s)
\* Mutant of Changed: a removed row with the same blob counts as unchanged.
ChangedBlob(c, s) == {p \in Wanted(c, s) : rows[p].blob # Tree[c][p]}
Changed(c, s) == {p \in Wanted(c, s) : ~Live(p) \/ rows[p].blob # Tree[c][p]}
\* Mutant of Unrowed: a removed row does not count as a row.
UnrowedOrRemoved(c, s) == {p \in Changed(c, s) : ~Live(p)}
Unrowed(c, s) == {p \in Changed(c, s) : rows[p].art = None}

\* External: the renames git diff -M names between two commits, as the old path
\* of each new one.  Equal contents are paired first; beyond that, what counts
\* as similar is git's affair.
GitRenames(from, to) ==
    LET old == {p \in Paths : Tree[from][p] # None /\ Tree[to][p] = None}
        new == {p \in Paths : Tree[from][p] = None /\ Tree[to][p] # None}
        Same(r, p) == r # None /\ Tree[from][r] = Tree[to][p]
    IN {g \in [new -> old \cup {None}] :
          /\ \A p, q \in new : g[p] = g[q] => p = q \/ g[p] = None
          /\ \A p \in new, r \in old : Same(r, p) =>
               Same(g[p], p) \/ \E q \in new : g[q] = r /\ Same(r, q)}

\* renamed_files: asked only when another commit was synced before, and not
\* missed when it fails.
Renames(from, to) ==
    {<<>>} \cup IF from = None \/ from = to THEN {} ELSE GitRenames(from, to)

\* The row each new path takes over: one that vanished with the same content
\* and is still left, else the one git names if it vanished, else none.
Sources(c, s, from) ==
    LET new == Unrowed(c, s)
        gone == Vanished(c, s)
        Left(f, p) == {r \in gone : rows[r].blob = Tree[c][p]} \ {f[q] : q \in {q \in new : q < p}}
    IN {f \in [new -> gone \cup {None}] :
          \E g \in Renames(from, c) : \A p \in new :
             IF Left(f, p) # {} THEN f[p] \in Left(f, p)
             ELSE f[p] = IF p \in DOMAIN g /\ g[p] \in gone THEN g[p] ELSE None}

Pending == {p \in Paths : Live(p) /\ ~rows[p].indexed}

\* nothing_to_sync
NothingToSync(m, c) ==
    /\ m.commit = c /\ m.with = m.settings /\ m.whole
    /\ Pending = {}

-----------------------------------------------------------------------------
(* The sync *)

Become(s, t) == sync' = [sync EXCEPT ![s] = t]
AfterOne(s, p) == [sync[s] EXCEPT !.todo = @ \ {p}, !.done = @ + 1]
Stopped(s) == sync[s].cancel /\ sync[s].done % ProgressEvery = 0

\* The permit is free, the link is read; the repository is fetched or opened.
ReadSource(s) ==
    /\ sync[s].phase = "queued"
    /\ Become(s, [sync[s] EXCEPT !.phase = "reading", !.meta = meta])
    /\ UNCHANGED <<head, meta, rows, runner, edit, edits, faults>>

\* The branch is resolved: either there is nothing to do,
Skip(s) ==
    /\ sync[s].phase = "reading"
    /\ NothingToSync(sync[s].meta, head)
    /\ Become(s, [sync[s] EXCEPT !.phase = "finishing", !.commit = head, !.nothing = TRUE])
    /\ UNCHANGED <<head, meta, rows, runner, edit, edits, faults>>

\* or the tree is listed and compared with what is stored.
Plan(s) ==
    LET m == sync[s].meta
        new == Unrowed(head, m.settings) IN
    /\ sync[s].phase = "reading"
    /\ ~NothingToSync(m, head)
    /\ \E f \in Sources(head, m.settings, m.commit) :
         Become(s, [sync[s] EXCEPT !.phase = "storing", !.commit = head,
                      !.plan = [p \in Paths |-> IF p \in new THEN f[p] ELSE p],
                      !.todo = Changed(head, m.settings),
                      !.gone = Vanished(head, m.settings) \ {f[p] : p \in new}])
    /\ UNCHANGED <<head, meta, rows, runner, edit, edits, faults>>

\* A cancellation is seen: the removals are left out too.
StopStoring(s) ==
    /\ sync[s].phase = "storing" /\ sync[s].todo # {}
    /\ Stopped(s)
    /\ Become(s, [sync[s] EXCEPT !.phase = "removing", !.gone = {}, !.cancelled = TRUE])
    /\ UNCHANGED <<head, meta, rows, runner, edit, edits, faults>>

Storing(s, p) == sync[s].phase = "storing" /\ Least(p, sync[s].todo) /\ ~Stopped(s)

\* Mutant of LeaveBinary: every binary file is left out as a removal.
LeaveAnyBinary(s, p) ==
    /\ Storing(s, p)
    /\ Tree[sync[s].commit][p] \in NotText
    /\ Become(s, [AfterOne(s, p) EXCEPT !.gone = @ \cup {sync[s].plan[p]}])
    /\ UNCHANGED <<head, meta, rows, runner, edit, edits, faults>>

\* A file that turned binary leaves the index like a deleted one.
LeaveBinary(s, p) ==
    LET from == sync[s].plan[p] IN
    /\ Storing(s, p)
    /\ Tree[sync[s].commit][p] \in NotText
    /\ Become(s, [AfterOne(s, p) EXCEPT !.gone =
                    IF from # None /\ (from # p \/ ~rows[p].removed) THEN @ \cup {from} ELSE @])
    /\ UNCHANGED <<head, meta, rows, runner, edit, edits, faults>>

\* add_repo_file
AddFile(s, p) ==
    LET b == Tree[sync[s].commit][p]
        used == {rows[q].art : q \in Paths} IN
    /\ Storing(s, p)
    /\ b \notin NotText /\ sync[s].plan[p] = None
    /\ \E a \in Artifacts :
         /\ Least(a, Artifacts \ used)
         /\ rows' = [rows EXCEPT ![p] = [NoRow EXCEPT !.art = a, !.blob = b]]
    /\ Become(s, AfterOne(s, p))
    /\ UNCHANGED <<head, meta, runner, edit, edits, faults>>

\* Mutant of Rewritten: only a new content is indexed again.
RewrittenIfChanged(old, p, r, b) ==
    [old EXCEPT !.blob = b, !.removed = FALSE, !.indexed = @ /\ old.blob = b]

\* update_repo_file: the row r becomes the row of p, with the content b.
Rewritten(old, p, r, b) ==
    [old EXCEPT !.blob = b, !.removed = FALSE,
                !.indexed = @ /\ old.blob = b /\ ~old.removed /\ r = p]

ChangeFile(s, p) ==
    LET r == sync[s].plan[p]
        b == Tree[sync[s].commit][p] IN
    /\ Storing(s, p)
    /\ b \notin NotText
    /\ r # None /\ rows[r].art # None
    /\ rows' = [rows EXCEPT ![r] = NoRow, ![p] = Rewritten(rows[r], p, r, b)]
    /\ Become(s, AfterOne(s, p))
    /\ UNCHANGED <<head, meta, runner, edit, edits, faults>>

\* Two new paths were given the same row (one by its content, one by git): the
\* second finds its artifact in another row, which idx_repo_files_artifact
\* refuses.  The sync fails.
Clash(s, p) ==
    LET r == sync[s].plan[p] IN
    /\ Storing(s, p)
    /\ Tree[sync[s].commit][p] \notin NotText
    /\ r # None /\ rows[r].art = None
    /\ Become(s, [sync[s] EXCEPT !.phase = "ended"])
    /\ UNCHANGED <<head, meta, rows, runner, edit, edits, faults>>

EndStoring(s) ==
    /\ sync[s].phase = "storing" /\ sync[s].todo = {}
    /\ Become(s, [sync[s] EXCEPT !.phase = "removing"])
    /\ UNCHANGED <<head, meta, rows, runner, edit, edits, faults>>

\* remove_repo_file: the row and its artifact stay, the passages go.
RemoveFile(s, p) ==
    /\ sync[s].phase = "removing" /\ p \in sync[s].gone
    /\ rows' = IF rows[p].art = None THEN rows
               ELSE [rows EXCEPT ![p] = [@ EXCEPT !.removed = TRUE, !.indexed = TRUE, !.passages = {}]]
    /\ Become(s, [sync[s] EXCEPT !.gone = @ \ {p}])
    /\ UNCHANGED <<head, meta, runner, edit, edits, faults>>

\* The tree is stored: the commit is written before the slower indexing.
Record(s) ==
    LET t == sync[s]
        m == IF t.cancelled THEN [t.meta EXCEPT !.whole = FALSE]
             ELSE [t.meta EXCEPT !.commit = t.commit, !.with = t.meta.settings, !.whole = TRUE] IN
    /\ t.phase = "removing" /\ t.gone = {}
    /\ meta' = m
    /\ Become(s, [t EXCEPT !.phase = IF t.cancelled THEN "finishing" ELSE "indexing",
                           !.meta = m, !.todo = IF t.cancelled THEN {} ELSE Pending, !.done = 0])
    /\ UNCHANGED <<head, rows, runner, edit, edits, faults>>

StopIndexing(s) ==
    /\ sync[s].phase = "indexing" /\ sync[s].todo # {}
    /\ Stopped(s)
    /\ Become(s, [sync[s] EXCEPT !.phase = "finishing", !.cancelled = TRUE])
    /\ UNCHANGED <<head, meta, rows, runner, edit, edits, faults>>

Indexing(s, p) == sync[s].phase = "indexing" /\ Least(p, sync[s].todo) /\ ~Stopped(s)

\* index_artifact_inner
IndexFile(s, p) ==
    /\ Indexing(s, p)
    /\ rows' = [rows EXCEPT ![p] = [@ EXCEPT !.indexed = TRUE, !.passages = {<<p, rows[p].blob>>}]]
    /\ Become(s, AfterOne(s, p))
    /\ UNCHANGED <<head, meta, runner, edit, edits, faults>>

IndexFails(s, p) ==
    /\ Fault
    /\ Indexing(s, p)
    /\ Become(s, [AfterOne(s, p) EXCEPT !.failed = TRUE])
    /\ UNCHANGED <<head, meta, rows, runner, edit, edits>>

EndIndexing(s) ==
    /\ sync[s].phase = "indexing" /\ sync[s].todo = {}
    /\ Become(s, [sync[s] EXCEPT !.phase = "finishing"])
    /\ UNCHANGED <<head, meta, rows, runner, edit, edits, faults>>

\* The outcome is stored, in the metadata the sync has read and changed.
Finish(s) ==
    LET t == sync[s] IN
    /\ t.phase = "finishing"
    /\ meta' = [t.meta EXCEPT !.whole = ~t.cancelled /\ ~t.failed]
    /\ Become(s, [t EXCEPT !.phase = "ended"])
    /\ UNCHANGED <<head, rows, runner, edit, edits, faults>>

\* Any other step of a sync may fail (git, the disk, the database): last_error
\* is stored in the metadata as it is now, which changes nothing else.
SyncFails(s) ==
    /\ Fault
    /\ sync[s].phase \notin {"idle", "ended"}
    /\ Become(s, [sync[s] EXCEPT !.phase = "ended"])
    /\ UNCHANGED <<head, meta, rows, runner, edit, edits>>

\* request_job_cancel
Cancel(s) ==
    /\ Fault
    /\ sync[s].phase \notin {"idle", "ended"} /\ ~sync[s].cancel
    /\ Become(s, [sync[s] EXCEPT !.cancel = TRUE])
    /\ UNCHANGED <<head, meta, rows, runner, edit, edits>>

-----------------------------------------------------------------------------
StoreStep(s) ==
    \/ \E p \in Paths : LeaveBinary(s, p) \/ AddFile(s, p) \/ ChangeFile(s, p) \/ Clash(s, p)
    \/ StopStoring(s)
    \/ EndStoring(s)
    \/ \E p \in Paths : RemoveFile(s, p)

IndexStep(s) ==
    \/ \E p \in Paths : IndexFile(s, p)
    \/ StopIndexing(s)
    \/ EndIndexing(s)

SyncStep(s) ==
    \/ ReadSource(s) \/ Skip(s) \/ Plan(s)
    \/ StoreStep(s)
    \/ Record(s)
    \/ IndexStep(s)
    \/ Finish(s) \/ Forget(s)

StarterStep == Poll \/ Expire \/ \E x \in Starters : Claim(x) \/ Begin(x)

Faulty ==
    \/ \E x \in Starters : BeginFails(x)
    \/ DropPerson
    \/ Restart
    \/ \E s \in Syncs : SyncFails(s) \/ Cancel(s) \/ \E p \in Paths : IndexFails(s, p)

Next ==
    \/ \E c \in Commits : Push(c)
    \/ Ask
    \/ StarterStep
    \/ ReadLink \/ \E s \in Settings : SaveSettings(s)
    \/ \E s \in Syncs : SyncStep(s)
    \/ Faulty

Spec == Init /\ [][Next]_vars

\* Tasks run, calls of start come back and the poller makes its rounds.
Fairness ==
    /\ \A s \in Syncs : WF_vars(SyncStep(s))
    /\ \A x \in Starters : WF_vars(Claim(x)) /\ WF_vars(Begin(x))
    /\ WF_vars(Poll) /\ WF_vars(Expire)

FairSpec == Spec /\ Fairness

-----------------------------------------------------------------------------
(* Properties *)

Syncing(s) == sync[s].phase \notin {"idle", "ended"}

\* A repository is never synced by two tasks at once, however polls, people,
\* webhooks and restarts ask for it (RepoSyncRunner: "never two for the same
\* repository").
OneSyncAtATime == \A s, t \in Syncs : Syncing(s) /\ Syncing(t) => s = t

\* When a sync that was not cancelled has recorded its commit, the files in
\* the tree are those of the commit that its rules let through and are text,
\* with their contents, whatever was stored, renamed, removed, brought back or
\* left half done before.
SyncStoresTree ==
    \A s \in Syncs : LET t == sync[s] IN
      t.phase \in {"indexing", "finishing"} /\ ~t.cancelled /\ ~t.nothing =>
        /\ {p \in Paths : Live(p)} = Texts(t.commit, t.meta.settings)
        /\ \A p \in Paths : Live(p) => rows[p].blob = Tree[t.commit][p]

\* Search returns what is in the tree: the passages of a file that counts as
\* indexed are those of its content under its path, and a file that left the
\* tree has none.
IndexedIsCurrent ==
    \A p \in Paths : rows[p].art # None =>
      /\ rows[p].removed => rows[p].passages = {} /\ rows[p].indexed
      /\ ~rows[p].removed /\ rows[p].indexed => rows[p].passages = {<<p, rows[p].blob>>}

\* Comments, tasks and cards point at artifacts: a sync may move one to another
\* path or mark it removed, and never loses it or gives it to two files.
ArtsOf(r) == {r[p].art : p \in Paths} \ {None}
ArtifactsStay ==
    [][/\ ArtsOf(rows) \subseteq ArtsOf(rows')
       /\ \A p, q \in Paths : rows'[p].art = rows'[q].art /\ rows'[p].art # None => p = q]_vars

\* A handler dropped inside start (a fault) leaves the repository in `running`.
Stuck ==
    /\ running /\ faults > 0
    /\ \A s \in Syncs : sync[s].phase = "idle"
    /\ \A x \in Starters : starter[x] # "claimed"

\* A branch that moved and stays is synced, when the repository was synced
\* once: failures, cancellations, clashes and restarts only delay it.  (It is
\* not when a dropped handler has left the repository in `running`, or when an
\* edit has written back the metadata from before the first sync.)
Follows ==
    \A c \in Commits :
      (head = c /\ meta.commit # None) ~>
        (meta.commit = c \/ head # c \/ meta.commit = None \/ Stuck)

\* A sync that finds nothing to do is right: the stored files are those of the
\* commit ("Brings the source in step with its repository").
NothingMeansInStep ==
    \A s \in Syncs : LET t == sync[s] IN
      t.nothing /\ t.phase = "finishing" =>
        {p \in Paths : Live(p)} = Texts(t.commit, t.meta.settings)
=============================================================================
