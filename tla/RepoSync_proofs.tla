--------------------------- MODULE RepoSync_proofs ---------------------------
(***************************************************************************)
(* Proofs about RepoSync, for any commits, paths, rules, pushes, edits and *)
(* faults.                                                                 *)
(***************************************************************************)
EXTENDS RepoSync, TLAPS

-----------------------------------------------------------------------------
(* Types *)

\* A task that has not begun is a task: there are settings to copy.
LEMMA FreshTyped ==
    ASSUME TypeOK
    PROVE  NoSync \in Tasks /\ NoEdit \in Edits /\ \A s \in Settings : Linked(s) \in Metas
<1>1. Settings # {}
  BY DEF TypeOK, Metas
<1>2. \A s \in Settings : Linked(s) \in Metas
  BY DEF Linked, Metas
<1> QED BY <1>1, <1>2 DEF NoSync, NoEdit, Tasks, Edits, Phases

\* Replacing a task by a task keeps the types (sync' in every step of a sync).
LEMMA TaskTyped ==
    ASSUME TypeOK, NEW s \in Syncs, NEW t \in Tasks, Become(s, t),
           t.phase \notin {"idle", "queued", "reading", "ended"} => t.commit \in Commits
    PROVE  /\ sync' \in [Syncs -> Tasks]
           /\ \A r \in Syncs :
                sync'[r].phase \notin {"idle", "queued", "reading", "ended"} => sync'[r].commit \in Commits
BY DEF TypeOK, Become

\* A task that moves on by one file is still a task.
LEMMA AfterOneTyped ==
    ASSUME TypeOK, NEW s \in Syncs, NEW p
    PROVE  /\ AfterOne(s, p) \in Tasks
           /\ AfterOne(s, p).phase = sync[s].phase /\ AfterOne(s, p).commit = sync[s].commit
<1>1. sync[s] \in Tasks
  BY DEF TypeOK
<1>2. sync[s].todo \ {p} \in SUBSET Paths /\ sync[s].done + 1 \in Nat
  BY <1>1 DEF Tasks
<1> QED BY <1>1, <1>2 DEF AfterOne, Tasks

\* Faults are counted up to their bound.
LEMMA FaultTyped == ASSUME TypeOK, Fault PROVE faults' \in 0..MaxFaults
BY ConstantsOK DEF TypeOK, Fault

\* The steps of the runner keep the types.
LEMMA RunnerTyped ==
    ASSUME TypeOK,
           \/ \E c \in Commits : Push(c)
           \/ Ask \/ StarterStep \/ ReadLink \/ \E s \in Settings : SaveSettings(s)
           \/ \E x \in Starters : BeginFails(x)
           \/ DropPerson \/ Restart
    PROVE  TypeOK'
<1> USE ConstantsOK
<1>1. CASE \E c \in Commits : Push(c)
  BY <1>1 DEF TypeOK, Push, runner
<1>2. CASE Ask
  BY <1>2 DEF TypeOK, Ask
<1>3. CASE Poll \/ Expire
  BY <1>3 DEF TypeOK, Poll, Expire
<1>4. ASSUME NEW x \in Starters, Claim(x) PROVE TypeOK'
  BY <1>4 DEF TypeOK, Claim
<1>5. ASSUME NEW x \in Starters, Begin(x) PROVE TypeOK'
  <2>1. PICK s \in Syncs : sync' = [sync EXCEPT ![s] = [NoSync EXCEPT !.phase = "queued"]]
    BY <1>5 DEF Begin
  <2>2. [NoSync EXCEPT !.phase = "queued"] \in Tasks /\ [NoSync EXCEPT !.phase = "queued"].phase = "queued"
    BY FreshTyped DEF Tasks, Phases
  <2>3. sync' \in [Syncs -> Tasks]
        /\ \A r \in Syncs : sync'[r].phase \notin {"idle", "queued", "reading", "ended"} => sync'[r].commit \in Commits
    BY <2>1, <2>2, TaskTyped DEF Become
  <2> QED BY <1>5, <2>3 DEF TypeOK, Begin
<1>6. ASSUME NEW x \in Starters, BeginFails(x) PROVE TypeOK'
  <2>1. starter' \in [Starters -> {"idle", "asked", "claimed"}] /\ faults' \in 0..MaxFaults
    BY <1>6, FaultTyped DEF TypeOK, BeginFails
  <2> QED BY <1>6, <2>1 DEF TypeOK, BeginFails
<1>7. CASE DropPerson
  BY <1>7 DEF TypeOK, DropPerson, Fault
<1>8. CASE Restart
  <2>1. NoSync \in Tasks /\ NoSync.phase = "idle" /\ NoEdit \in Edits
    BY FreshTyped DEF NoSync
  <2>2. faults' \in 0..MaxFaults /\ starter' \in [Starters -> {"idle", "asked", "claimed"}]
    BY <1>8, FaultTyped DEF Restart
  <2>3. sync' \in [Syncs -> Tasks] /\ \A s \in Syncs : sync'[s].phase = "idle"
    BY <1>8, <2>1 DEF Restart
  <2> QED BY <1>8, <2>1, <2>2, <2>3 DEF TypeOK, Restart
<1>9. CASE ReadLink
  BY <1>9 DEF TypeOK, ReadLink, Edits, runner
<1>10. ASSUME NEW s \in Settings, SaveSettings(s) PROVE TypeOK'
  <2>1. [edit.meta EXCEPT !.settings = s] \in Metas
    BY DEF TypeOK, Edits, Metas
  <2> QED BY <1>10, <2>1, FreshTyped DEF TypeOK, SaveSettings, runner
<1> QED BY <1>1, <1>2, <1>3, <1>4, <1>5, <1>6, <1>7, <1>8, <1>9, <1>10 DEF StarterStep

\* The rows a sync writes are rows.
LEMMA RewrittenTyped ==
    ASSUME NEW old \in Rows, NEW p, NEW r, NEW b \in Blobs \cup {None}
    PROVE  Rewritten(old, p, r, b) \in Rows
BY DEF Rows, Rewritten

\* What a commit has at a path.
LEMMA TreeTyped ==
    ASSUME NEW c \in Commits, NEW p \in Paths
    PROVE  Tree[c][p] \in Blobs \cup {None}
BY ConstantsOK

\* Reading, skipping and planning keep the types.
LEMMA PlanTyped ==
    ASSUME TypeOK, NEW s \in Syncs, ReadSource(s) \/ Skip(s) \/ Plan(s)
    PROVE  TypeOK'
<1>0. sync[s] \in Tasks /\ head \in Commits /\ meta \in Metas
  BY DEF TypeOK
<1>1. CASE ReadSource(s)
  <2>1. [sync[s] EXCEPT !.phase = "reading", !.meta = meta] \in Tasks
    BY <1>0 DEF Tasks, Phases
  <2>2. [sync[s] EXCEPT !.phase = "reading", !.meta = meta].phase = "reading"
    BY <1>0 DEF Tasks
  <2> QED BY <1>1, <2>1, <2>2, TaskTyped DEF TypeOK, ReadSource, runner
<1>2. CASE Skip(s)
  <2> DEFINE t == [sync[s] EXCEPT !.phase = "finishing", !.commit = head, !.nothing = TRUE]
  <2>1. t \in Tasks /\ t.commit \in Commits
    BY <1>0 DEF Tasks, Phases
  <2>2. Become(s, t)
    BY <1>2 DEF Skip
  <2> HIDE DEF t
  <2> QED BY <1>2, <2>1, <2>2, TaskTyped DEF TypeOK, Skip, runner
<1>3. CASE Plan(s)
  <2> DEFINE m == sync[s].meta
             new == Unrowed(head, m.settings)
             gone == Vanished(head, m.settings)
             T(f) == [sync[s] EXCEPT !.phase = "storing", !.commit = head,
                        !.plan = [p \in Paths |-> IF p \in new THEN f[p] ELSE p],
                        !.todo = Changed(head, m.settings),
                        !.gone = gone \ {f[p] : p \in new}]
  <2>1. PICK f \in Sources(head, m.settings, m.commit) : Become(s, T(f))
    BY <1>3 DEF Plan
  <2>2. gone \subseteq Paths
    BY DEF Vanished
  <2>3. Changed(head, m.settings) \subseteq Paths
    <3>1. m.settings \subseteq Paths
      BY <1>0, ConstantsOK DEF Tasks, Metas
    <3> QED BY <3>1 DEF Changed, Wanted
  <2>4. f \in [new -> gone \cup {None}]
    BY <2>1 DEF Sources
  <2>5. [p \in Paths |-> IF p \in new THEN f[p] ELSE p] \in [Paths -> Paths \cup {None}]
    BY <2>2, <2>4
  <2>6. T(f) \in Tasks /\ T(f).commit \in Commits
    BY <1>0, <2>2, <2>3, <2>5 DEF Tasks, Phases
  <2> HIDE DEF T, m, new, gone
  <2> QED BY <1>3, <2>1, <2>6, TaskTyped DEF TypeOK, Plan, runner
<1> QED BY <1>1, <1>2, <1>3

\* Storing files and removing those that are gone keep the types.
LEMMA StoreTyped ==
    ASSUME TypeOK, NEW s \in Syncs, StoreStep(s)
    PROVE  TypeOK'
<1>0. sync[s] \in Tasks /\ rows \in [Paths -> Rows]
  BY DEF TypeOK
<1>1. ASSUME NEW p \in Paths, LeaveBinary(s, p) PROVE TypeOK'
  <2> DEFINE from == sync[s].plan[p]
             t == [AfterOne(s, p) EXCEPT !.gone =
                     IF from # None /\ (from # p \/ ~rows[p].removed) THEN @ \cup {from} ELSE @]
  <2>1. from \in Paths \cup {None}
    BY <1>0 DEF Tasks
  <2>2. AfterOne(s, p) \in Tasks /\ AfterOne(s, p).commit = sync[s].commit
    BY AfterOneTyped
  <2>3. t \in Tasks /\ t.commit = sync[s].commit
    BY <2>1, <2>2 DEF Tasks
  <2>4. sync[s].commit \in Commits
    BY <1>1 DEF LeaveBinary, Storing, TypeOK
  <2>5. Become(s, t)
    BY <1>1 DEF LeaveBinary
  <2> HIDE DEF t, from
  <2> QED BY <1>1, <2>3, <2>4, <2>5, TaskTyped DEF TypeOK, LeaveBinary, runner
<1>2. ASSUME NEW p \in Paths, AddFile(s, p) PROVE TypeOK'
  <2>1. sync[s].commit \in Commits
    BY <1>2 DEF AddFile, Storing, TypeOK
  <2>2. Tree[sync[s].commit][p] \in Blobs \cup {None}
    BY <2>1, TreeTyped
  <2>3. rows' \in [Paths -> Rows]
    <3>1. PICK a \in Artifacts :
            rows' = [rows EXCEPT ![p] = [NoRow EXCEPT !.art = a, !.blob = Tree[sync[s].commit][p]]]
      BY <1>2 DEF AddFile
    <3>2. [NoRow EXCEPT !.art = a, !.blob = Tree[sync[s].commit][p]] \in Rows
      BY <2>2 DEF NoRow, Rows
    <3> QED BY <1>0, <3>1, <3>2
  <2>4. Become(s, AfterOne(s, p))
    BY <1>2 DEF AddFile
  <2> QED BY <1>2, <2>1, <2>3, <2>4, AfterOneTyped, TaskTyped DEF TypeOK, AddFile, runner
<1>3. ASSUME NEW p \in Paths, ChangeFile(s, p) PROVE TypeOK'
  <2> DEFINE r == sync[s].plan[p]
             b == Tree[sync[s].commit][p]
  <2>1. sync[s].commit \in Commits
    BY <1>3 DEF ChangeFile, Storing, TypeOK
  <2>2. r \in Paths
    BY <1>0, <1>3 DEF ChangeFile, Tasks
  <2>3. Rewritten(rows[r], p, r, b) \in Rows /\ NoRow \in Rows
    BY <1>0, <2>1, <2>2, TreeTyped, RewrittenTyped DEF NoRow, Rows
  <2>4. rows' \in [Paths -> Rows]
    BY <1>0, <1>3, <2>3 DEF ChangeFile
  <2>5. Become(s, AfterOne(s, p))
    BY <1>3 DEF ChangeFile
  <2> HIDE DEF r, b
  <2> QED BY <1>3, <2>1, <2>4, <2>5, AfterOneTyped, TaskTyped DEF TypeOK, ChangeFile, runner
<1>4. ASSUME NEW p \in Paths, Clash(s, p) PROVE TypeOK'
  <2>1. [sync[s] EXCEPT !.phase = "ended"] \in Tasks /\ [sync[s] EXCEPT !.phase = "ended"].phase = "ended"
    BY <1>0 DEF Tasks, Phases
  <2> QED BY <1>4, <2>1, TaskTyped DEF TypeOK, Clash, runner
<1>5. CASE StopStoring(s)
  <2> DEFINE t == [sync[s] EXCEPT !.phase = "removing", !.gone = {}, !.cancelled = TRUE]
  <2>1. t \in Tasks /\ t.commit = sync[s].commit
    BY <1>0 DEF Tasks, Phases
  <2>2. sync[s].commit \in Commits /\ Become(s, t)
    BY <1>5 DEF StopStoring, TypeOK
  <2> HIDE DEF t
  <2> QED BY <1>5, <2>1, <2>2, TaskTyped DEF TypeOK, StopStoring, runner
<1>6. CASE EndStoring(s)
  <2> DEFINE t == [sync[s] EXCEPT !.phase = "removing"]
  <2>1. t \in Tasks /\ t.commit = sync[s].commit
    BY <1>0 DEF Tasks, Phases
  <2>2. sync[s].commit \in Commits /\ Become(s, t)
    BY <1>6 DEF EndStoring, TypeOK
  <2> HIDE DEF t
  <2> QED BY <1>6, <2>1, <2>2, TaskTyped DEF TypeOK, EndStoring, runner
<1>7. ASSUME NEW p \in Paths, RemoveFile(s, p) PROVE TypeOK'
  <2> DEFINE t == [sync[s] EXCEPT !.gone = @ \ {p}]
  <2>1. t \in Tasks /\ t.commit = sync[s].commit
    BY <1>0 DEF Tasks
  <2>2. sync[s].commit \in Commits /\ Become(s, t)
    BY <1>7 DEF RemoveFile, TypeOK
  <2>3. rows' \in [Paths -> Rows]
    <3>1. [rows[p] EXCEPT !.removed = TRUE, !.indexed = TRUE, !.passages = {}] \in Rows
      BY <1>0 DEF Rows
    <3> QED BY <1>0, <1>7, <3>1 DEF RemoveFile
  <2> HIDE DEF t
  <2> QED BY <1>7, <2>1, <2>2, <2>3, TaskTyped DEF TypeOK, RemoveFile, runner
<1> QED BY <1>1, <1>2, <1>3, <1>4, <1>5, <1>6, <1>7 DEF StoreStep

\* Recording, indexing, finishing and failing keep the types.
LEMMA EndTyped ==
    ASSUME TypeOK, NEW s \in Syncs,
           \/ Record(s) \/ IndexStep(s) \/ Finish(s) \/ Forget(s)
           \/ SyncFails(s) \/ Cancel(s) \/ \E p \in Paths : IndexFails(s, p)
    PROVE  TypeOK'
<1>0. sync[s] \in Tasks /\ rows \in [Paths -> Rows]
  BY DEF TypeOK
<1>1. CASE Record(s)
  <2> DEFINE m == IF sync[s].cancelled THEN [sync[s].meta EXCEPT !.whole = FALSE]
                  ELSE [sync[s].meta EXCEPT !.commit = sync[s].commit, !.with = sync[s].meta.settings,
                                            !.whole = TRUE]
             t == [sync[s] EXCEPT !.phase = IF sync[s].cancelled THEN "finishing" ELSE "indexing",
                     !.meta = m, !.todo = IF sync[s].cancelled THEN {} ELSE Pending, !.done = 0]
  <2>1. sync[s].commit \in Commits /\ Become(s, t) /\ meta' = m
    BY <1>1 DEF Record, TypeOK
  <2>2. m \in Metas
    BY <1>0, <2>1 DEF Metas, Tasks
  <2>3. Pending \subseteq Paths
    BY DEF Pending
  <2> HIDE DEF m
  <2>4. t \in Tasks /\ t.commit = sync[s].commit
    BY <1>0, <2>2, <2>3 DEF Tasks, Phases
  <2> HIDE DEF t
  <2> QED BY <1>1, <2>1, <2>2, <2>4, TaskTyped DEF TypeOK, Record, runner
<1>2. ASSUME NEW p \in Paths, IndexFile(s, p) PROVE TypeOK'
  <2>1. rows' \in [Paths -> Rows]
    <3>1. {<<p, rows[p].blob>>} \in SUBSET (Paths \X (Blobs \cup {None}))
      BY <1>0 DEF Rows
    <3> DEFINE row == [rows[p] EXCEPT !.indexed = TRUE, !.passages = {<<p, rows[p].blob>>}]
    <3>2. row \in Rows
      <4>1. \A v \in SUBSET (Paths \X (Blobs \cup {None})) :
              [rows[p] EXCEPT !.indexed = TRUE, !.passages = v] \in Rows
        BY <1>0 DEF Rows
      <4> QED BY <3>1, <4>1
    <3>3. rows' = [rows EXCEPT ![p] = row]
      BY <1>2 DEF IndexFile
    <3> HIDE DEF row
    <3> QED BY <1>0, <3>2, <3>3
  <2>2. sync[s].commit \in Commits /\ Become(s, AfterOne(s, p))
    BY <1>2 DEF IndexFile, Indexing, TypeOK
  <2> QED BY <1>2, <2>1, <2>2, AfterOneTyped, TaskTyped DEF TypeOK, IndexFile, runner
<1>3. CASE StopIndexing(s)
  <2> DEFINE t == [sync[s] EXCEPT !.phase = "finishing", !.cancelled = TRUE]
  <2>1. t \in Tasks /\ t.commit = sync[s].commit
    BY <1>0 DEF Tasks, Phases
  <2>2. sync[s].commit \in Commits /\ Become(s, t)
    BY <1>3 DEF StopIndexing, TypeOK
  <2> HIDE DEF t
  <2> QED BY <1>3, <2>1, <2>2, TaskTyped DEF TypeOK, StopIndexing, runner
<1>4. CASE EndIndexing(s)
  <2> DEFINE t == [sync[s] EXCEPT !.phase = "finishing"]
  <2>1. t \in Tasks /\ t.commit = sync[s].commit
    BY <1>0 DEF Tasks, Phases
  <2>2. sync[s].commit \in Commits /\ Become(s, t)
    BY <1>4 DEF EndIndexing, TypeOK
  <2> HIDE DEF t
  <2> QED BY <1>4, <2>1, <2>2, TaskTyped DEF TypeOK, EndIndexing, runner
<1>5. CASE Finish(s)
  <2> DEFINE t == [sync[s] EXCEPT !.phase = "ended"]
  <2>1. t \in Tasks /\ t.phase = "ended" /\ Become(s, t)
    BY <1>0, <1>5 DEF Tasks, Phases, Finish
  <2>2. meta' \in Metas
    BY <1>0, <1>5 DEF Finish, Metas, Tasks
  <2> HIDE DEF t
  <2> QED BY <1>5, <2>1, <2>2, TaskTyped DEF TypeOK, Finish, runner
<1>6. CASE Forget(s)
  <2>1. NoSync \in Tasks /\ NoSync.phase = "idle"
    BY FreshTyped DEF NoSync
  <2> QED BY <1>6, <2>1 DEF TypeOK, Forget
<1>7. CASE SyncFails(s)
  <2> DEFINE t == [sync[s] EXCEPT !.phase = "ended"]
  <2>1. t \in Tasks /\ t.phase = "ended" /\ Become(s, t)
    BY <1>0, <1>7 DEF Tasks, Phases, SyncFails
  <2>2. faults' \in 0..MaxFaults
    BY <1>7, FaultTyped DEF SyncFails
  <2> HIDE DEF t
  <2> QED BY <1>7, <2>1, <2>2, TaskTyped DEF TypeOK, SyncFails, runner
<1>8. CASE Cancel(s)
  <2> DEFINE t == [sync[s] EXCEPT !.cancel = TRUE]
  <2>1. t \in Tasks /\ t.phase = sync[s].phase /\ t.commit = sync[s].commit /\ Become(s, t)
    BY <1>0, <1>8 DEF Tasks, Cancel
  <2>2. faults' \in 0..MaxFaults
    BY <1>8, FaultTyped DEF Cancel
  <2>3. t.phase \notin {"idle", "queued", "reading", "ended"} => t.commit \in Commits
    BY <2>1 DEF TypeOK
  <2> HIDE DEF t
  <2> QED BY <1>8, <2>1, <2>2, <2>3, TaskTyped DEF TypeOK, Cancel, runner
<1>9. ASSUME NEW p \in Paths, IndexFails(s, p) PROVE TypeOK'
  <2> DEFINE t == [AfterOne(s, p) EXCEPT !.failed = TRUE]
  <2>1. t \in Tasks /\ t.commit = sync[s].commit
    BY AfterOneTyped DEF Tasks
  <2>2. sync[s].commit \in Commits /\ Become(s, t)
    BY <1>9 DEF IndexFails, Indexing, TypeOK
  <2>3. faults' \in 0..MaxFaults
    BY <1>9, FaultTyped DEF IndexFails
  <2> HIDE DEF t
  <2> QED BY <1>9, <2>1, <2>2, <2>3, TaskTyped DEF TypeOK, IndexFails, runner
<1> QED BY <1>1, <1>2, <1>3, <1>4, <1>5, <1>6, <1>7, <1>8, <1>9 DEF IndexStep

\* Every step keeps the types.
LEMMA NextTyped == ASSUME TypeOK, [Next]_vars PROVE TypeOK'
<1>1. CASE UNCHANGED vars
  BY <1>1 DEF TypeOK, vars, runner
<1>2. ASSUME NEW s \in Syncs, SyncStep(s) PROVE TypeOK'
  BY <1>2, PlanTyped, StoreTyped, EndTyped DEF SyncStep
<1>3. CASE Faulty
  BY <1>3, RunnerTyped, EndTyped DEF Faulty
<1> QED BY <1>1, <1>2, <1>3, RunnerTyped DEF Next

\* Every variable of RepoSync keeps its type (the columns and fields of
\* RepoSourceMetadata, RepoFileRecord and RepoSyncRunner).
THEOREM TypeCorrect == Spec => []TypeOK
<1>1. Init => TypeOK
  <2> SUFFICES ASSUME Init PROVE TypeOK
    OBVIOUS
  <2>1. PICK s \in Settings : meta = Linked(s)
    BY DEF Init
  <2>2. meta \in Metas /\ NoSync.meta \in Metas
    BY <2>1 DEF Linked, Metas, NoSync
  <2>3. NoSync \in Tasks /\ NoEdit \in Edits /\ NoSync.phase = "idle"
    BY <2>2 DEF NoSync, NoEdit, Tasks, Edits, Phases
  <2>4. NoRow \in Rows
    BY DEF NoRow, Rows
  <2>5. /\ sync \in [Syncs -> Tasks] /\ \A r \in Syncs : sync[r].phase = "idle"
        /\ rows \in [Paths -> Rows]
    BY <2>3, <2>4 DEF Init
  <2>6. starter \in [Starters -> {"idle", "asked", "claimed"}]
    BY DEF Init
  <2>7. edit \in Edits /\ edits \in 0..MaxEdits /\ faults \in 0..MaxFaults
    BY <2>3, ConstantsOK DEF Init
  <2> QED BY <2>2, <2>5, <2>6, <2>7 DEF Init, TypeOK
<1> QED BY <1>1, NextTyped, PTL DEF Spec

-----------------------------------------------------------------------------
(* One sync at a time *)

Busy(s) == sync[s].phase # "idle"
Claims(x) == starter[x] = "claimed"

\* What the entry in `running` stands for: at most one call of start that has
\* claimed the repository, or one task, and neither without the entry.
OneOwner ==
    /\ \A s, r \in Syncs : Busy(s) /\ Busy(r) => s = r
    /\ \A x, y \in Starters : Claims(x) /\ Claims(y) => x = y
    /\ \A x \in Starters, s \in Syncs : ~(Claims(x) /\ Busy(s))
    /\ (\E x \in Starters : Claims(x)) \/ (\E s \in Syncs : Busy(s)) => running

TaskStep(s) ==
    \/ ReadSource(s) \/ Skip(s) \/ Plan(s) \/ StoreStep(s) \/ Record(s) \/ IndexStep(s) \/ Finish(s)
    \/ SyncFails(s) \/ Cancel(s) \/ \E p \in Paths : IndexFails(s, p)

\* A step of a task is one of a task that has begun, and of no other.
LEMMA TaskStepOwn ==
    ASSUME TypeOK, NEW s \in Syncs, TaskStep(s)
    PROVE  /\ Busy(s)
           /\ \A r \in Syncs \ {s} : sync'[r] = sync[r]
           /\ UNCHANGED runner
<1>1. CASE ReadSource(s) \/ Skip(s)
  BY <1>1 DEF ReadSource, Skip, Busy, Become, TypeOK
<1>2. CASE Plan(s)
  BY <1>2 DEF Plan, Busy, Become, TypeOK
<1>3. CASE StoreStep(s)
  BY <1>3 DEF StoreStep, LeaveBinary, AddFile, ChangeFile, Clash, StopStoring, EndStoring, RemoveFile,
              Storing, Busy, Become, TypeOK
<1>4. CASE Record(s) \/ IndexStep(s) \/ Finish(s) \/ \E p \in Paths : IndexFails(s, p)
  BY <1>4 DEF Record, IndexStep, IndexFile, IndexFails, StopIndexing, EndIndexing, Finish,
              Indexing, Busy, Become, TypeOK
<1>5. CASE SyncFails(s) \/ Cancel(s)
  BY <1>5 DEF SyncFails, Cancel, Busy, Become, TypeOK
<1> QED BY <1>1, <1>2, <1>3, <1>4, <1>5 DEF TaskStep

\* Every step keeps one owner at most.
LEMMA NextOneOwner == ASSUME TypeOK, OneOwner, [Next]_vars PROVE OneOwner'
<1> USE DEF Busy, Claims
<1>1. ASSUME UNCHANGED <<runner, sync>> PROVE OneOwner'
  BY <1>1 DEF OneOwner, runner
<1>2. ASSUME NEW s \in Syncs, TaskStep(s) PROVE OneOwner'
  BY <1>2, TaskStepOwn DEF OneOwner, runner
<1>3. ASSUME NEW s \in Syncs, Forget(s) PROVE OneOwner'
  <2>1. \A r \in Syncs : sync'[r].phase = "idle"
    BY <1>3 DEF Forget, OneOwner, TypeOK, NoSync
  <2>2. \A x \in Starters : ~Claims(x)'
    BY <1>3 DEF Forget, OneOwner
  <2> QED BY <2>1, <2>2 DEF OneOwner
<1>4. ASSUME NEW x \in Starters, Begin(x) PROVE OneOwner'
  <2>1. PICK s \in Syncs : sync' = [sync EXCEPT ![s] = [NoSync EXCEPT !.phase = "queued"]]
    BY <1>4 DEF Begin
  <2>2. \A r \in Syncs \ {s} : sync'[r].phase = "idle"
    BY <1>4, <2>1 DEF Begin, OneOwner, TypeOK
  <2>3. \A y \in Starters : ~Claims(y)'
    BY <1>4 DEF Begin, OneOwner, TypeOK
  <2>4. running'
    BY <1>4 DEF Begin, OneOwner
  <2> QED BY <2>2, <2>3, <2>4 DEF OneOwner
<1>5. ASSUME NEW x \in Starters, Claim(x) PROVE OneOwner'
  <2>1. CASE running
    BY <1>5, <2>1 DEF Claim, OneOwner, TypeOK
  <2>2. CASE ~running
    BY <1>5, <2>2 DEF Claim, OneOwner, TypeOK
  <2> QED BY <2>1, <2>2
<1>6. ASSUME NEW x \in Starters, BeginFails(x) PROVE OneOwner'
  BY <1>6 DEF BeginFails, OneOwner, TypeOK
<1>7. CASE DropPerson \/ Ask \/ Poll
  BY <1>7 DEF DropPerson, Ask, Poll, OneOwner, TypeOK
<1>8. CASE Restart
  BY <1>8 DEF Restart, OneOwner, NoSync
<1>9. CASE Expire
  BY <1>9 DEF Expire, OneOwner
<1>10. CASE \/ UNCHANGED vars \/ ReadLink
            \/ (\E c \in Commits : Push(c)) \/ (\E s \in Settings : SaveSettings(s))
  BY <1>1, <1>10 DEF vars, ReadLink, Push, SaveSettings
<1> QED
  BY <1>2, <1>3, <1>4, <1>5, <1>6, <1>7, <1>8, <1>9, <1>10
  DEF Next, SyncStep, StarterStep, Faulty, TaskStep

\* The entry in `running` always stands for one call or one task at most.
LEMMA OwnerStays == Spec => []OneOwner
<1>1. Init => OneOwner
  <2> SUFFICES ASSUME Init PROVE OneOwner
    OBVIOUS
  <2>1. \A s \in Syncs : ~Busy(s)
    BY DEF Init, Busy, NoSync
  <2>2. \A x \in Starters : ~Claims(x)
    BY DEF Init, Claims
  <2> QED BY <2>1, <2>2 DEF OneOwner
<1> QED BY <1>1, NextOneOwner, TypeCorrect, PTL DEF Spec

\* A repository is never synced by two tasks at once (RepoSyncRunner::running),
\* whoever asks, fails, is dropped or restarts.
THEOREM OneSync == Spec => []OneSyncAtATime
<1>1. OneOwner => OneSyncAtATime
  BY DEF OneOwner, OneSyncAtATime, Busy, Syncing
<1> QED BY <1>1, OwnerStays, PTL

-----------------------------------------------------------------------------
(* What a step does to the rows *)

\* The four steps that write a row, all of a task that stores, removes or
\* indexes.
RowStep(s) ==
    \E p \in Paths : AddFile(s, p) \/ ChangeFile(s, p) \/ RemoveFile(s, p) \/ IndexFile(s, p)

\* A step writes rows, or leaves them as they are.
LEMMA RowSteps ==
    ASSUME TypeOK, [Next]_vars
    PROVE  UNCHANGED rows \/ \E s \in Syncs : RowStep(s)
<1>1. ASSUME NEW s \in Syncs, SyncStep(s) PROVE UNCHANGED rows \/ RowStep(s)
  <2>1. CASE ReadSource(s) \/ Skip(s) \/ Plan(s) \/ Record(s) \/ Finish(s) \/ Forget(s)
    BY <2>1 DEF ReadSource, Skip, Plan, Record, Finish, Forget
  <2>2. CASE StoreStep(s)
    BY <2>2 DEF StoreStep, RowStep, LeaveBinary, Clash, StopStoring, EndStoring
  <2>3. CASE IndexStep(s)
    BY <2>3 DEF IndexStep, RowStep, StopIndexing, EndIndexing
  <2> QED BY <1>1, <2>1, <2>2, <2>3 DEF SyncStep
<1>2. CASE StarterStep \/ Faulty
  BY <1>2 DEF StarterStep, Poll, Expire, Claim, Begin, Faulty, BeginFails, DropPerson, Restart,
              SyncFails, Cancel, IndexFails
<1>3. CASE \/ UNCHANGED vars \/ Ask \/ ReadLink
           \/ (\E c \in Commits : Push(c)) \/ (\E s \in Settings : SaveSettings(s))
  BY <1>3 DEF vars, Ask, ReadLink, Push, SaveSettings
<1> QED BY <1>1, <1>2, <1>3 DEF Next

\* A task that is past its first steps was there before, and no other task is:
\* either it has not moved, or the step is its own.
LEMMA BusyBefore ==
    ASSUME TypeOK, OneOwner, [Next]_vars, NEW s \in Syncs,
           sync'[s].phase \notin {"idle", "queued"}
    PROVE  \/ /\ sync'[s] = sync[s]
              /\ \A r \in Syncs : ~RowStep(r)
           \/ TaskStep(s)
<1>1. ASSUME NEW r \in Syncs, TaskStep(r) \/ RowStep(r) PROVE TaskStep(r) /\ (r = s \/ sync'[s] = sync[s])
  <2>1. TaskStep(r)
    BY <1>1 DEF RowStep, TaskStep, StoreStep, IndexStep
  <2> QED BY <2>1, TaskStepOwn
<1>2. ASSUME NEW r \in Syncs, TaskStep(r), sync'[s] = sync[s] PROVE r = s
  BY <1>2, TaskStepOwn DEF OneOwner, Busy
<1>3. (\E r \in Syncs : TaskStep(r)) \/ sync'[s] = sync[s]
  <2>1. CASE \E r \in Syncs : SyncStep(r) /\ ~Forget(r)
    BY <2>1 DEF SyncStep, TaskStep
  <2>2. CASE \E r \in Syncs : Forget(r)
    BY <2>2 DEF Forget, TypeOK, NoSync
  <2>3. CASE \E x \in Starters : Begin(x)
    BY <2>3 DEF Begin, TypeOK, NoSync
  <2>4. CASE Restart
    BY <2>4 DEF Restart, NoSync
  <2>5. CASE \E r \in Syncs : SyncFails(r) \/ Cancel(r) \/ \E p \in Paths : IndexFails(r, p)
    BY <2>5 DEF TaskStep
  <2>6. CASE \/ UNCHANGED vars \/ Ask \/ Poll \/ Expire \/ ReadLink \/ DropPerson
             \/ (\E c \in Commits : Push(c)) \/ (\E t \in Settings : SaveSettings(t))
             \/ (\E x \in Starters : Claim(x) \/ BeginFails(x))
    BY <2>6 DEF vars, Ask, Poll, Expire, ReadLink, DropPerson, Push, SaveSettings, Claim, BeginFails
  <2> QED BY <2>1, <2>2, <2>3, <2>4, <2>5, <2>6 DEF Next, StarterStep, Faulty
<1> QED BY <1>1, <1>2, <1>3

\* The steps that start, store or end a sync do not lead to what follows storing.
LEMMA LeavesStored ==
    ASSUME TypeOK, NEW s \in Syncs,
           ReadSource(s) \/ Plan(s) \/ StoreStep(s) \/ Finish(s) \/ SyncFails(s)
    PROVE  sync'[s].phase \notin {"indexing", "finishing"}
<1>0. sync[s] \in Tasks /\ sync \in [Syncs -> Tasks]
  BY DEF TypeOK
<1>1. CASE ReadSource(s)
  BY <1>0, <1>1 DEF Become, ReadSource, Tasks
<1>2. CASE Plan(s)
  BY <1>0, <1>2 DEF Become, Plan, Tasks
<1>3. ASSUME NEW p \in Paths, LeaveBinary(s, p) \/ AddFile(s, p) \/ ChangeFile(s, p)
      PROVE  sync'[s].phase \notin {"indexing", "finishing"}
  <2>0. AfterOne(s, p) \in Tasks /\ AfterOne(s, p).phase = sync[s].phase
    BY AfterOneTyped
  <2>1. CASE AddFile(s, p) \/ ChangeFile(s, p)
    <3>1. Become(s, AfterOne(s, p)) /\ sync[s].phase = "storing"
      BY <2>1 DEF AddFile, ChangeFile, Storing
    <3> QED BY <1>0, <2>0, <3>1 DEF Become
  <2>2. CASE LeaveBinary(s, p)
    <3>1. PICK gone : Become(s, [AfterOne(s, p) EXCEPT !.gone = gone])
      BY <2>2 DEF LeaveBinary
    <3>2. sync[s].phase = "storing"
      BY <2>2 DEF LeaveBinary, Storing
    <3>3. sync'[s] = [AfterOne(s, p) EXCEPT !.gone = gone]
      BY <1>0, <3>1 DEF Become
    <3> QED BY <2>0, <3>2, <3>3 DEF Tasks
  <2> QED BY <1>3, <2>1, <2>2
<1>4. ASSUME NEW p \in Paths, Clash(s, p) \/ RemoveFile(s, p)
      PROVE  sync'[s].phase \notin {"indexing", "finishing"}
  <2>1. CASE Clash(s, p)
    BY <1>0, <2>1 DEF Become, Clash, Tasks
  <2>2. CASE RemoveFile(s, p)
    BY <1>0, <2>2 DEF Become, RemoveFile, Tasks
  <2> QED BY <1>4, <2>1, <2>2
<1>5. CASE StopStoring(s) \/ EndStoring(s)
  <2>1. CASE StopStoring(s)
    BY <1>0, <2>1 DEF Become, StopStoring, Tasks
  <2>2. CASE EndStoring(s)
    BY <1>0, <2>2 DEF Become, EndStoring, Tasks
  <2> QED BY <1>5, <2>1, <2>2
<1>6. CASE Finish(s) \/ SyncFails(s)
  <2>1. CASE Finish(s)
    BY <1>0, <2>1 DEF Become, Finish, Tasks
  <2>2. CASE SyncFails(s)
    BY <1>0, <2>2 DEF Become, SyncFails, Tasks
  <2> QED BY <1>6, <2>1, <2>2
<1> QED BY <1>1, <1>2, <1>3, <1>4, <1>5, <1>6 DEF StoreStep

\* Nor do skipping and the end of indexing lead into indexing.
LEMMA LeavesIndexing ==
    ASSUME TypeOK, NEW s \in Syncs,
           \/ ReadSource(s) \/ Skip(s) \/ Plan(s) \/ StoreStep(s)
           \/ Finish(s) \/ SyncFails(s) \/ StopIndexing(s) \/ EndIndexing(s)
    PROVE  sync'[s].phase # "indexing"
<1>0. sync[s] \in Tasks /\ sync \in [Syncs -> Tasks]
  BY DEF TypeOK
<1>1. CASE Skip(s)
  BY <1>0, <1>1 DEF Become, Skip, Tasks
<1>2. CASE StopIndexing(s)
  BY <1>0, <1>2 DEF Become, StopIndexing, Tasks
<1>3. CASE EndIndexing(s)
  BY <1>0, <1>3 DEF Become, EndIndexing, Tasks
<1> QED BY <1>1, <1>2, <1>3, LeavesStored

\* The steps that neither plan, store nor remove files do not lead to either.
LEMMA LeavesTree ==
    ASSUME TypeOK, NEW s \in Syncs,
           \/ ReadSource(s) \/ Skip(s)
           \/ (\E p \in Paths : Clash(s, p) \/ IndexFails(s, p))
           \/ Record(s) \/ IndexStep(s) \/ Finish(s) \/ SyncFails(s)
    PROVE  sync'[s].phase \notin {"storing", "removing"}
<1>0. sync[s] \in Tasks /\ sync \in [Syncs -> Tasks]
  BY DEF TypeOK
<1>1. CASE ReadSource(s)
  BY <1>0, <1>1 DEF Become, ReadSource, Tasks
<1>2. CASE Skip(s) \/ \E p \in Paths : Clash(s, p)
  <2>1. CASE Skip(s)
    BY <1>0, <2>1 DEF Become, Skip, Tasks
  <2>2. CASE \E p \in Paths : Clash(s, p)
    BY <1>0, <2>2 DEF Become, Clash, Tasks
  <2> QED BY <1>2, <2>1, <2>2
<1>3. ASSUME NEW p \in Paths, IndexFails(s, p) \/ IndexFile(s, p)
      PROVE  sync'[s].phase \notin {"storing", "removing"}
  <2>1. CASE IndexFails(s, p)
    BY <1>0, <2>1 DEF Become, IndexFails, Indexing, AfterOne, Tasks
  <2>2. CASE IndexFile(s, p)
    BY <1>0, <2>2 DEF Become, IndexFile, Indexing, AfterOne, Tasks
  <2> QED BY <1>3, <2>1, <2>2
<1>4. CASE Record(s)
  BY <1>0, <1>4 DEF Become, Record, Tasks
<1>5. CASE StopIndexing(s) \/ EndIndexing(s) \/ Finish(s) \/ SyncFails(s)
  <2>1. CASE StopIndexing(s)
    BY <1>0, <2>1 DEF Become, StopIndexing, Tasks
  <2>2. CASE EndIndexing(s)
    BY <1>0, <2>2 DEF Become, EndIndexing, Tasks
  <2>3. CASE Finish(s)
    BY <1>0, <2>3 DEF Become, Finish, Tasks
  <2>4. CASE SyncFails(s)
    BY <1>0, <2>4 DEF Become, SyncFails, Tasks
  <2> QED BY <1>5, <2>1, <2>2, <2>3, <2>4
<1> QED BY <1>1, <1>2, <1>3, <1>4, <1>5 DEF IndexStep

\* All but planning and storing a file do not lead into storing.
LEMMA LeavesStoring ==
    ASSUME TypeOK, NEW s \in Syncs,
           \/ ReadSource(s) \/ Skip(s) \/ StopStoring(s) \/ EndStoring(s)
           \/ (\E p \in Paths : Clash(s, p) \/ RemoveFile(s, p) \/ IndexFails(s, p))
           \/ Record(s) \/ IndexStep(s) \/ Finish(s) \/ SyncFails(s)
    PROVE  sync'[s].phase # "storing"
<1>0. sync[s] \in Tasks /\ sync \in [Syncs -> Tasks]
  BY DEF TypeOK
<1>1. CASE StopStoring(s)
  BY <1>0, <1>1 DEF Become, StopStoring, Tasks
<1>2. CASE EndStoring(s)
  BY <1>0, <1>2 DEF Become, EndStoring, Tasks
<1>3. CASE \E p \in Paths : RemoveFile(s, p)
  BY <1>0, <1>3 DEF Become, RemoveFile, Tasks
<1> QED BY <1>1, <1>2, <1>3, LeavesTree

-----------------------------------------------------------------------------
(* What search returns *)

\* Only files that are in the tree wait to be indexed.
WorkIsLive == \A s \in Syncs : sync[s].phase = "indexing" => \A p \in sync[s].todo : Live(p)

SearchInv == IndexedIsCurrent /\ WorkIsLive

\* The files left to index stay in the tree: nobody else changes the rows.
LEMMA WorkStaysLive ==
    ASSUME TypeOK, OneOwner, WorkIsLive, [Next]_vars
    PROVE  WorkIsLive'
<1> SUFFICES ASSUME NEW s \in Syncs, sync'[s].phase = "indexing", NEW p \in sync'[s].todo
             PROVE  Live(p)'
  BY DEF WorkIsLive
<1>0. sync'[s] \in Tasks /\ p \in Paths
  BY NextTyped DEF TypeOK, Tasks
<1>1. CASE sync'[s] = sync[s] /\ \A r \in Syncs : ~RowStep(r)
  BY <1>1, RowSteps DEF WorkIsLive, Live
<1>2. CASE TaskStep(s)
  <2>1. CASE Record(s)
    BY <2>1 DEF Record, Become, TypeOK, Pending, Live
  <2>2. CASE \E q \in Paths : IndexFile(s, q)
    BY <2>2, <1>0 DEF IndexFile, Indexing, Least, Become, AfterOne, TypeOK, Rows, WorkIsLive, Live
  <2>3. CASE \E q \in Paths : IndexFails(s, q)
    BY <2>3 DEF IndexFails, Indexing, Become, AfterOne, TypeOK, WorkIsLive, Live
  <2>4. CASE Cancel(s)
    BY <2>4 DEF Cancel, Become, TypeOK, WorkIsLive, Live
  <2>5. CASE \/ ReadSource(s) \/ Skip(s) \/ Plan(s) \/ StoreStep(s)
             \/ Finish(s) \/ SyncFails(s) \/ StopIndexing(s) \/ EndIndexing(s)
    BY <2>5, LeavesIndexing
  <2> QED BY <1>2, <2>1, <2>2, <2>3, <2>4, <2>5 DEF TaskStep, IndexStep
<1> QED BY <1>1, <1>2, BusyBefore

\* Each of the four steps that write a row leaves its passages current.
LEMMA PassagesStayCurrent ==
    ASSUME TypeOK, SearchInv, [Next]_vars
    PROVE  IndexedIsCurrent'
<1>1. CASE UNCHANGED rows
  BY <1>1 DEF SearchInv, IndexedIsCurrent
<1>2. ASSUME NEW s \in Syncs, NEW p \in Paths, AddFile(s, p) PROVE IndexedIsCurrent'
  BY <1>2 DEF AddFile, NoRow, SearchInv, IndexedIsCurrent, TypeOK
<1>3. ASSUME NEW s \in Syncs, NEW p \in Paths, ChangeFile(s, p) PROVE IndexedIsCurrent'
  <2> DEFINE r == sync[s].plan[p]
             b == Tree[sync[s].commit][p]
  <2>1. r \in Paths /\ rows[r] \in Rows /\ rows[r].art # None
    BY <1>3 DEF ChangeFile, TypeOK, Tasks
  <2>2. rows' = [rows EXCEPT ![r] = NoRow, ![p] = Rewritten(rows[r], p, r, b)]
    BY <1>3 DEF ChangeFile
  <2>3. rows'[p] = Rewritten(rows[r], p, r, b)
    BY <2>1, <2>2 DEF TypeOK
  <2>4. \A q \in Paths \ {p} : rows'[q] = rows[q] \/ rows'[q] = NoRow
    BY <2>1, <2>2 DEF TypeOK
  <2>5. \A q \in Paths \ {p} : rows'[q].art # None => rows'[q] = rows[q]
    BY <2>4 DEF NoRow
  <2>6. ~rows'[p].removed /\ (rows'[p].indexed => rows'[p].passages = {<<p, rows'[p].blob>>})
    <3>1. /\ rows'[p].removed = FALSE /\ rows'[p].blob = b /\ rows'[p].passages = rows[r].passages
          /\ rows'[p].indexed => rows[r].indexed /\ rows[r].blob = b /\ ~rows[r].removed /\ r = p
      <4> HIDE DEF r, b
      <4> QED BY <2>1, <2>3 DEF Rewritten, Rows
    <3>2. rows'[p].indexed => rows[r].passages = {<<p, b>>}
      BY <2>1, <3>1 DEF SearchInv, IndexedIsCurrent
    <3> HIDE DEF r, b
    <3> QED BY <3>1, <3>2
  <2> QED BY <2>5, <2>6 DEF SearchInv, IndexedIsCurrent
<1>4. ASSUME NEW s \in Syncs, NEW p \in Paths, RemoveFile(s, p) PROVE IndexedIsCurrent'
  BY <1>4 DEF RemoveFile, SearchInv, IndexedIsCurrent, TypeOK, Rows
<1>5. ASSUME NEW s \in Syncs, NEW p \in Paths, IndexFile(s, p) PROVE IndexedIsCurrent'
  <2>1. ~rows[p].removed
    BY <1>5 DEF IndexFile, Indexing, Least, SearchInv, WorkIsLive, Live
  <2> QED BY <1>5, <2>1 DEF IndexFile, SearchInv, IndexedIsCurrent, TypeOK, Rows
<1> QED BY <1>1, <1>2, <1>3, <1>4, <1>5, RowSteps DEF RowStep

\* The passages of a file that counts as indexed are those of its content under
\* its path, and a file that left the tree has none (update_repo_file,
\* remove_repo_file, list_repo_artifacts_needing_index).
THEOREM SearchIsCurrent == Spec => []IndexedIsCurrent
<1>1. Init => SearchInv
  <2>1. Init => \A p \in Paths : rows[p].art = None
    <3>1. NoRow.art = None
      BY DEF NoRow
    <3> QED BY <3>1 DEF Init
  <2>2. Init => \A s \in Syncs : sync[s].phase = "idle"
    BY DEF Init, NoSync
  <2> QED BY <2>1, <2>2 DEF SearchInv, IndexedIsCurrent, WorkIsLive
<1>2. TypeOK /\ OneOwner /\ SearchInv /\ [Next]_vars => SearchInv'
  BY WorkStaysLive, PassagesStayCurrent DEF SearchInv
<1>3. SearchInv => IndexedIsCurrent
  BY DEF SearchInv
<1> QED BY <1>1, <1>2, <1>3, OwnerStays, TypeCorrect, PTL DEF Spec

-----------------------------------------------------------------------------
(* Artifacts *)

ArtsDiffer == \A p, q \in Paths : rows[p].art = rows[q].art /\ rows[p].art # None => p = q

\* A path that takes over another row, or gets a new one, has none of its own.
NewHasNone ==
    \A s \in Syncs : sync[s].phase = "storing" =>
      \A p \in sync[s].todo : sync[s].plan[p] # p => rows[p].art = None

ArtifactInv == ArtsDiffer /\ NewHasNone

\* A path left to store that has no row of its own gets none from another.
LEMMA NewStaysWithoutRow ==
    ASSUME TypeOK, OneOwner, NewHasNone, [Next]_vars
    PROVE  NewHasNone'
<1> SUFFICES ASSUME NEW s \in Syncs, sync'[s].phase = "storing",
                    NEW p \in sync'[s].todo, sync'[s].plan[p] # p
             PROVE  rows'[p].art = None
  BY DEF NewHasNone
<1>0. sync'[s] \in Tasks /\ sync[s] \in Tasks /\ p \in Paths
  BY NextTyped DEF TypeOK, Tasks
<1>1. CASE sync'[s] = sync[s] /\ \A r \in Syncs : ~RowStep(r)
  BY <1>1, RowSteps DEF NewHasNone
<1>2. CASE TaskStep(s)
  <2>1. CASE Plan(s)
    <3>1. rows' = rows /\ p \in Changed(head, sync[s].meta.settings)
      BY <2>1 DEF Plan, Become, TypeOK
    <3>2. p \in Unrowed(head, sync[s].meta.settings)
      BY <2>1, <1>0 DEF Plan, Become, TypeOK
    <3> QED BY <3>1, <3>2 DEF Unrowed
  <2>2. CASE \E q \in Paths : LeaveBinary(s, q)
    BY <2>2 DEF LeaveBinary, Become, AfterOne, Storing, TypeOK, NewHasNone
  <2>3. ASSUME NEW q \in Paths, AddFile(s, q) PROVE rows'[p].art = None
    BY <2>3, <1>0 DEF AddFile, Become, AfterOne, Storing, TypeOK, NewHasNone
  <2>4. ASSUME NEW q \in Paths, ChangeFile(s, q) PROVE rows'[p].art = None
    <3>1. p # q /\ p \in sync[s].todo /\ sync[s].plan[p] # p /\ sync[s].phase = "storing"
      BY <2>4, <1>0 DEF ChangeFile, Become, AfterOne, Storing, TypeOK
    <3>2. rows'[p] = rows[p] \/ rows'[p] = NoRow
      BY <2>4, <3>1, <1>0 DEF ChangeFile, TypeOK
    <3> QED BY <3>1, <3>2 DEF NewHasNone, NoRow
  <2>5. CASE Cancel(s)
    BY <2>5 DEF Cancel, Become, TypeOK, NewHasNone
  <2>6. CASE \/ ReadSource(s) \/ Skip(s) \/ StopStoring(s) \/ EndStoring(s)
             \/ (\E q \in Paths : Clash(s, q) \/ RemoveFile(s, q) \/ IndexFails(s, q))
             \/ Record(s) \/ IndexStep(s) \/ Finish(s) \/ SyncFails(s)
    BY <2>6, LeavesStoring
  <2> QED BY <1>2, <2>1, <2>2, <2>3, <2>4, <2>5, <2>6 DEF TaskStep, StoreStep
<1> QED BY <1>1, <1>2, BusyBefore

\* A step keeps the artifacts it finds, each in one row at most.
LEMMA RowsKeepArtifacts ==
    ASSUME TypeOK, ArtifactInv, [Next]_vars
    PROVE  ArtsOf(rows) \subseteq ArtsOf(rows') /\ ArtsDiffer'
<1> USE DEF ArtsOf, ArtsDiffer, ArtifactInv
<1>1. CASE UNCHANGED rows
  BY <1>1
<1>2. ASSUME NEW s \in Syncs, NEW p \in Paths, AddFile(s, p)
      PROVE  ArtsOf(rows) \subseteq ArtsOf(rows') /\ ArtsDiffer'
  <2>1. PICK a \in Artifacts : /\ Least(a, Artifacts \ {rows[q].art : q \in Paths})
                               /\ rows' = [rows EXCEPT ![p] = [NoRow EXCEPT !.art = a,
                                                                !.blob = Tree[sync[s].commit][p]]]
    BY <1>2 DEF AddFile
  <2>2. \A q \in Paths : rows[q].art # a
    BY <2>1 DEF Least
  <2>3. rows[p].art = None
    <3>1. sync[s].phase = "storing" /\ p \in sync[s].todo /\ sync[s].plan[p] = None
      BY <1>2 DEF AddFile, Storing, Least
    <3> QED BY <3>1, ConstantsOK DEF NewHasNone
  <2>4. rows'[p].art = a /\ \A q \in Paths \ {p} : rows'[q] = rows[q]
    BY <2>1 DEF TypeOK, NoRow
  <2> QED BY <2>2, <2>3, <2>4
<1>3. ASSUME NEW s \in Syncs, NEW p \in Paths, ChangeFile(s, p)
      PROVE  ArtsOf(rows) \subseteq ArtsOf(rows') /\ ArtsDiffer'
  <2> DEFINE r == sync[s].plan[p]
             b == Tree[sync[s].commit][p]
  <2>1. /\ r \in Paths /\ rows[r] \in Rows /\ rows[r].art # None
        /\ rows' = [rows EXCEPT ![r] = NoRow, ![p] = Rewritten(rows[r], p, r, b)]
    BY <1>3 DEF ChangeFile, TypeOK, Tasks
  <2>2. r = p \/ rows[p].art = None
    BY <1>3 DEF ChangeFile, Storing, Least, NewHasNone
  <2>3. rows'[p].art = rows[r].art
    BY <2>1 DEF TypeOK, Rewritten, Rows
  <2>4. r # p => rows'[r].art = None
    BY <2>1 DEF TypeOK, NoRow
  <2>5. \A q \in Paths \ {p, r} : rows'[q] = rows[q]
    BY <2>1 DEF TypeOK
  <2> HIDE DEF r, b
  <2>6. \A q \in Paths : \E q2 \in Paths : rows[q].art # None => rows'[q2].art = rows[q].art
    BY <2>1, <2>2, <2>3, <2>5
  <2>7. ArtsDiffer'
    <3>1. \A q \in Paths \ {p} : rows'[q].art # None => q # r /\ rows'[q].art = rows[q].art
      BY <2>4, <2>5
    <3>2. \A q \in Paths \ {p} : rows'[q].art # None => rows'[q].art # rows[r].art
      BY <2>1, <3>1
    <3> QED BY <2>3, <3>1, <3>2
  <2> QED BY <2>6, <2>7
<1>4. ASSUME NEW s \in Syncs, NEW p \in Paths, RemoveFile(s, p) \/ IndexFile(s, p)
      PROVE  ArtsOf(rows) \subseteq ArtsOf(rows') /\ ArtsDiffer'
  <2>1. \A q \in Paths : rows'[q].art = rows[q].art
    <3>1. rows \in [Paths -> Rows] /\ rows[p] \in Rows
      BY DEF TypeOK
    <3>2. CASE RemoveFile(s, p)
      BY <3>1, <3>2 DEF RemoveFile, Rows
    <3>3. CASE IndexFile(s, p)
      <4>1. \A v : [rows[p] EXCEPT !.indexed = TRUE, !.passages = v].art = rows[p].art
        BY <3>1 DEF Rows
      <4> QED BY <3>1, <3>3, <4>1 DEF IndexFile
    <3> QED BY <1>4, <3>2, <3>3
  <2> QED BY <2>1
<1> QED BY <1>1, <1>2, <1>3, <1>4, RowSteps DEF RowStep

\* A sync never loses an artifact and never gives it to two files, whatever
\* renames it plans (plan, add_repo_file, update_repo_file, remove_repo_file).
THEOREM ArtifactsAreKept == Spec => ArtifactsStay
<1>1. Init => ArtifactInv
  <2>1. Init => \A p \in Paths : rows[p].art = None
    <3>1. NoRow.art = None
      BY DEF NoRow
    <3> QED BY <3>1 DEF Init
  <2>2. Init => \A s \in Syncs : sync[s].phase = "idle"
    BY DEF Init, NoSync
  <2> QED BY <2>1, <2>2 DEF ArtifactInv, ArtsDiffer, NewHasNone
<1>2. TypeOK /\ OneOwner /\ ArtifactInv /\ [Next]_vars => ArtifactInv'
  BY NewStaysWithoutRow, RowsKeepArtifacts DEF ArtifactInv
<1>3. TypeOK /\ ArtifactInv /\ [Next]_vars =>
        [/\ ArtsOf(rows) \subseteq ArtsOf(rows')
         /\ \A p, q \in Paths : rows'[p].art = rows'[q].art /\ rows'[p].art # None => p = q]_vars
  BY RowsKeepArtifacts DEF ArtsDiffer
<1> QED BY <1>1, <1>2, <1>3, OwnerStays, TypeCorrect, PTL DEF Spec, ArtifactsStay
\* Removing and indexing a file leave every file its artifact and its content.
LEMMA KeepsContents ==
    ASSUME TypeOK, NEW s \in Syncs, NEW p \in Paths, RemoveFile(s, p) \/ IndexFile(s, p)
    PROVE  /\ \A q \in Paths : rows'[q].art = rows[q].art /\ rows'[q].blob = rows[q].blob
           /\ \A q \in Paths \ {p} : rows'[q] = rows[q]
           /\ RemoveFile(s, p) => ~Live(p)'
           /\ IndexFile(s, p) => rows'[p].removed = rows[p].removed
<1>1. rows \in [Paths -> Rows] /\ rows[p] \in Rows
  BY DEF TypeOK
<1>2. CASE RemoveFile(s, p) /\ rows[p].art = None
  BY <1>2 DEF RemoveFile, Live, IndexFile, Indexing
<1>3. CASE RemoveFile(s, p) /\ rows[p].art # None
  <2> DEFINE row == [rows[p] EXCEPT !.removed = TRUE, !.indexed = TRUE, !.passages = {}]
  <2>1. row.art = rows[p].art /\ row.blob = rows[p].blob /\ row.removed
    BY <1>1 DEF Rows
  <2>2. rows' = [rows EXCEPT ![p] = row]
    BY <1>3 DEF RemoveFile
  <2> HIDE DEF row
  <2> QED BY <1>1, <1>3, <2>1, <2>2 DEF Live, RemoveFile, IndexFile, Indexing
<1>4. CASE IndexFile(s, p)
  <2> DEFINE row == [rows[p] EXCEPT !.indexed = TRUE, !.passages = {<<p, rows[p].blob>>}]
  <2>1. row.art = rows[p].art /\ row.blob = rows[p].blob /\ row.removed = rows[p].removed
    <3>1. \A v : LET w == [rows[p] EXCEPT !.indexed = TRUE, !.passages = v]
                 IN  w.art = rows[p].art /\ w.blob = rows[p].blob /\ w.removed = rows[p].removed
      BY <1>1 DEF Rows
    <3> QED BY <3>1
  <2>2. rows' = [rows EXCEPT ![p] = row]
    BY <1>4 DEF IndexFile
  <2> HIDE DEF row
  <2> QED BY <1>1, <1>4, <2>1, <2>2 DEF RemoveFile, IndexFile, Indexing
<1> QED BY <1>2, <1>3, <1>4

-----------------------------------------------------------------------------
(* What a complete sync leaves *)

\* Rows hold text: a file that is not is never stored.
TextRows == \A p \in Paths : rows[p].art # None => rows[p].blob \notin NotText

\* What is stored already, and what is left to do, while the tree of a commit is
\* stored: files left to store are of the commit, and no other file of it is taken
\* over or removed; every other text of the commit is there; and what does not
\* belong there is going to be removed or taken over.
OnTheWay(s) ==
    LET t      == sync[s]
        wanted == Wanted(t.commit, t.meta.settings)
        texts  == Texts(t.commit, t.meta.settings)
    IN
    /\ t.phase = "removing" => t.todo = {}
    /\ t.todo \subseteq wanted
    /\ t.gone \cap texts = {}
    /\ \A p \in t.todo : t.plan[p] \notin {p, None} => t.plan[p] \notin wanted
    /\ \A p \in texts \ t.todo : Live(p) /\ rows[p].blob = Tree[t.commit][p]
    /\ \A p \in Paths \ texts : Live(p) => p \in t.gone \/ \E q \in t.todo : t.plan[q] = p

\* The same when all is done.
InStep(s) ==
    LET t == sync[s] IN
    /\ {p \in Paths : Live(p)} = Texts(t.commit, t.meta.settings)
    /\ \A p \in Paths : Live(p) => rows[p].blob = Tree[t.commit][p]

Underway(s) == sync[s].phase \in {"storing", "removing"} /\ ~sync[s].cancelled
Complete(s) == sync[s].phase \in {"indexing", "finishing"} /\ ~sync[s].cancelled /\ ~sync[s].nothing

TreeInv ==
    /\ TextRows /\ NewHasNone
    /\ \A s \in Syncs : Underway(s) => OnTheWay(s)
    /\ \A s \in Syncs : Complete(s) => InStep(s)

\* A row is written with text, or keeps its content.
LEMMA RowsStayText ==
    ASSUME TypeOK, TextRows, [Next]_vars
    PROVE  TextRows'
<1>1. CASE UNCHANGED rows
  BY <1>1 DEF TextRows
<1>2. ASSUME NEW s \in Syncs, NEW p \in Paths, AddFile(s, p) PROVE TextRows'
  BY <1>2 DEF AddFile, NoRow, TextRows, TypeOK
<1>3. ASSUME NEW s \in Syncs, NEW p \in Paths, ChangeFile(s, p) PROVE TextRows'
  <2> DEFINE r == sync[s].plan[p]
             b == Tree[sync[s].commit][p]
  <2>1. /\ r \in Paths /\ rows[r] \in Rows /\ b \notin NotText
        /\ rows' = [rows EXCEPT ![r] = NoRow, ![p] = Rewritten(rows[r], p, r, b)]
    BY <1>3 DEF ChangeFile, TypeOK, Tasks
  <2> HIDE DEF r, b
  <2>2. rows'[p].blob = b
    BY <2>1 DEF TypeOK, Rewritten, Rows
  <2>3. \A q \in Paths \ {p} : rows'[q] = rows[q] \/ rows'[q] = NoRow
    BY <2>1 DEF TypeOK
  <2>4. NoRow.art = None
    BY DEF NoRow
  <2>5. \A q \in Paths : rows'[q].art # None => rows'[q].blob = b \/ rows'[q] = rows[q]
    BY <2>2, <2>3, <2>4
  <2> QED BY <2>1, <2>5 DEF TextRows
<1>4. ASSUME NEW s \in Syncs, NEW p \in Paths, RemoveFile(s, p) \/ IndexFile(s, p) PROVE TextRows'
  BY <1>4, KeepsContents DEF TextRows
<1> QED BY <1>1, <1>2, <1>3, <1>4, RowSteps DEF RowStep

\* What the steps of storing and removing do to their own task.
LEMMA OwnTask ==
    ASSUME TypeOK, NEW s \in Syncs, NEW p \in Paths
    PROVE  LET t == sync[s] IN LET u == sync'[s] IN
           /\ LeaveBinary(s, p) \/ AddFile(s, p) \/ ChangeFile(s, p) =>
                /\ t.phase = "storing" /\ p \in t.todo
                /\ u.phase = "storing" /\ u.commit = t.commit /\ u.meta = t.meta /\ u.plan = t.plan
                /\ u.todo = t.todo \ {p} /\ u.cancelled = t.cancelled
           /\ AddFile(s, p) \/ ChangeFile(s, p) => u.gone = t.gone
           /\ LeaveBinary(s, p) =>
                u.gone = IF t.plan[p] # None /\ (t.plan[p] # p \/ ~rows[p].removed)
                         THEN t.gone \cup {t.plan[p]} ELSE t.gone
           /\ RemoveFile(s, p) =>
                /\ t.phase = "removing" /\ p \in t.gone
                /\ u.phase = "removing" /\ u.commit = t.commit /\ u.meta = t.meta /\ u.plan = t.plan
                /\ u.todo = t.todo /\ u.gone = t.gone \ {p} /\ u.cancelled = t.cancelled
<1>0. sync[s] \in Tasks /\ sync \in [Syncs -> Tasks]
  BY DEF TypeOK
<1>1. CASE AddFile(s, p) \/ ChangeFile(s, p)
  <2>1. sync'[s] = AfterOne(s, p) /\ sync[s].phase = "storing" /\ p \in sync[s].todo
    BY <1>0, <1>1 DEF AddFile, ChangeFile, Become, Storing, Least
  <2> QED BY <1>0, <1>1, <2>1 DEF AfterOne, Tasks, LeaveBinary, RemoveFile, AddFile, ChangeFile
<1>2. CASE LeaveBinary(s, p)
  <2> DEFINE gone == IF sync[s].plan[p] # None /\ (sync[s].plan[p] # p \/ ~rows[p].removed)
                     THEN sync[s].gone \cup {sync[s].plan[p]} ELSE sync[s].gone
  <2>0. AfterOne(s, p).gone = sync[s].gone
    BY <1>0 DEF AfterOne, Tasks
  <2>1. sync'[s] = [AfterOne(s, p) EXCEPT !.gone = gone] /\ sync[s].phase = "storing" /\ p \in sync[s].todo
    BY <1>0, <1>2, <2>0 DEF LeaveBinary, Become, Storing, Least
  <2> HIDE DEF gone
  <2>2. LET u == sync'[s] IN
        /\ u.phase = "storing" /\ u.commit = sync[s].commit /\ u.meta = sync[s].meta /\ u.plan = sync[s].plan
        /\ u.todo = sync[s].todo \ {p} /\ u.cancelled = sync[s].cancelled /\ u.gone = gone
    BY <1>0, <2>1 DEF AfterOne, Tasks
  <2>3. ~AddFile(s, p) /\ ~ChangeFile(s, p) /\ ~RemoveFile(s, p)
    BY <1>2 DEF LeaveBinary, AddFile, ChangeFile, RemoveFile, Storing
  <2> QED BY <2>1, <2>2, <2>3 DEF gone
<1>3. CASE RemoveFile(s, p)
  <2>1. sync'[s] = [sync[s] EXCEPT !.gone = @ \ {p}] /\ sync[s].phase = "removing" /\ p \in sync[s].gone
    BY <1>0, <1>3 DEF RemoveFile, Become
  <2>2. ~AddFile(s, p) /\ ~ChangeFile(s, p) /\ ~LeaveBinary(s, p)
    BY <1>3 DEF LeaveBinary, AddFile, ChangeFile, RemoveFile, Storing
  <2> QED BY <1>0, <2>1, <2>2 DEF Tasks
<1>4. CASE ~(AddFile(s, p) \/ ChangeFile(s, p) \/ LeaveBinary(s, p) \/ RemoveFile(s, p))
  BY <1>4
<1> QED BY <1>1, <1>2, <1>3, <1>4

\* A plan is on the way from the start.
LEMMA PlanOnTheWay ==
    ASSUME TypeOK, TextRows, NEW s \in Syncs, Plan(s)
    PROVE  OnTheWay(s)'
<1> DEFINE m == sync[s].meta
           new == Unrowed(head, m.settings)
           vanished == Vanished(head, m.settings)
           changed == Changed(head, m.settings)
           wanted == Wanted(head, m.settings)
           texts == Texts(head, m.settings)
<1>1. PICK f \in Sources(head, m.settings, m.commit) :
         Become(s, [sync[s] EXCEPT !.phase = "storing", !.commit = head,
                      !.plan = [p \in Paths |-> IF p \in new THEN f[p] ELSE p],
                      !.todo = changed, !.gone = vanished \ {f[p] : p \in new}])
  BY DEF Plan
<1>2. f \in [new -> vanished \cup {None}]
  BY <1>1 DEF Sources
<1>3. sync[s] \in Tasks /\ wanted \subseteq Paths /\ new \subseteq changed /\ changed \subseteq wanted
  BY ConstantsOK DEF TypeOK, Tasks, Metas, Wanted, Unrowed, Changed
<1>4. /\ sync'[s].phase = "storing" /\ sync'[s].commit = head /\ sync'[s].meta = m
      /\ sync'[s].plan = [p \in Paths |-> IF p \in new THEN f[p] ELSE p]
      /\ sync'[s].todo = changed /\ sync'[s].gone = vanished \ {f[p] : p \in new}
  <2> HIDE DEF new, vanished, changed
  <2> QED BY <1>1, <1>3 DEF Become, TypeOK, Tasks
<1>5. rows' = rows
  BY DEF Plan
<1>6. vanished \cap wanted = {} /\ texts \subseteq wanted
  BY DEF Vanished, Texts
<1>7. \A p \in changed : sync'[s].plan[p] \notin {p, None} => sync'[s].plan[p] \notin wanted
  <2> SUFFICES ASSUME NEW p \in changed, sync'[s].plan[p] \notin {p, None} PROVE sync'[s].plan[p] \in vanished
    BY <1>6
  <2> HIDE DEF m, new, vanished, changed, wanted
  <2> QED BY <1>2, <1>3, <1>4
<1>8. \A p \in texts \ changed : Live(p) /\ rows[p].blob = Tree[head][p]
  BY <1>6 DEF Texts, Changed
<1>9. ASSUME NEW p \in Paths \ texts, Live(p)
      PROVE  p \in sync'[s].gone \/ \E q \in changed : sync'[s].plan[q] = p
  <2>1. CASE p \in wanted
    <3>1. p \in changed
      BY <1>9, <2>1 DEF Texts, Changed, TextRows, Live
    <3>2. p \notin new
      BY <1>9 DEF Unrowed, Live
    <3> HIDE DEF m, new, vanished, changed, wanted
    <3> QED BY <1>4, <3>1, <3>2
  <2>2. CASE p \notin wanted
    <3>1. p \in vanished
      BY <1>9, <2>2 DEF Vanished
    <3> HIDE DEF m, new, vanished, changed, wanted
    <3>2. CASE \E q \in new : p = f[q]
      BY <1>3, <1>4, <3>2
    <3> QED BY <1>4, <3>1, <3>2
  <2> QED BY <2>1, <2>2
<1>10. changed \cap Paths = changed /\ sync'[s].gone \cap texts = {}
  <2> HIDE DEF m, new, vanished, changed, wanted, texts
  <2> QED BY <1>3, <1>4, <1>6
<1>11. \A p \in Paths : Live(p)' <=> Live(p)
  BY <1>5 DEF Live
<1> HIDE DEF new, vanished, changed
<1> QED BY <1>3, <1>4, <1>5, <1>7, <1>8, <1>9, <1>10, <1>11 DEF OnTheWay, Wanted, Texts

\* Storing a file, or leaving out one that is not text.
LEMMA StoreOnTheWay ==
    ASSUME TypeOK, NewHasNone, NEW s \in Syncs, OnTheWay(s), NEW p \in Paths,
           LeaveBinary(s, p) \/ AddFile(s, p) \/ ChangeFile(s, p)
    PROVE  OnTheWay(s)'
<1> DEFINE t == sync[s]
           wanted == Wanted(t.commit, t.meta.settings)
           texts == Texts(t.commit, t.meta.settings)
<1>1. /\ t.phase = "storing" /\ p \in t.todo /\ t \in Tasks
      /\ sync'[s].phase = "storing" /\ sync'[s].commit = t.commit /\ sync'[s].meta = t.meta
      /\ sync'[s].plan = t.plan /\ sync'[s].todo = t.todo \ {p}
      /\ t.gone \subseteq sync'[s].gone
  <2>1. t \in Tasks
    BY DEF TypeOK
  <2> QED BY <2>1, OwnTask
<1>2. /\ t.todo \subseteq wanted /\ t.gone \cap texts = {} /\ t.todo \subseteq Paths
      /\ \A q \in t.todo : t.plan[q] \notin {q, None} => t.plan[q] \notin wanted
      /\ \A q \in texts \ t.todo : Live(q) /\ rows[q].blob = Tree[t.commit][q]
      /\ \A q \in Paths \ texts : Live(q) => q \in t.gone \/ \E x \in t.todo : t.plan[x] = q
      /\ texts = {q \in wanted : Tree[t.commit][q] \notin NotText}
  BY <1>1 DEF OnTheWay, Texts, Tasks
<1>3. t.plan[p] # p => rows[p].art = None
  BY <1>1 DEF NewHasNone
<1> SUFFICES /\ sync'[s].gone \cap texts = {}
             /\ \A q \in texts \ sync'[s].todo : Live(q)' /\ rows'[q].blob = Tree[t.commit][q]
             /\ \A q \in Paths \ texts :
                  Live(q)' => q \in sync'[s].gone \/ \E x \in sync'[s].todo : t.plan[x] = q
  BY <1>1, <1>2 DEF OnTheWay, Wanted, Texts
<1>4. CASE LeaveBinary(s, p)
  <2>1. rows' = rows /\ p \notin texts
    BY <1>2, <1>4 DEF LeaveBinary
  <2>2. sync'[s].gone = IF t.plan[p] # None /\ (t.plan[p] # p \/ ~rows[p].removed)
                        THEN t.gone \cup {t.plan[p]} ELSE t.gone
    BY <1>4, OwnTask
  <2>3. \A q \in Paths : Live(q)' <=> Live(q)
    BY <2>1 DEF Live
  <2>4. sync'[s].gone \cap texts = {}
    BY <1>1, <1>2, <2>1, <2>2
  <2>5. \A q \in Paths \ texts : Live(q) => q \in sync'[s].gone \/ \E x \in sync'[s].todo : t.plan[x] = q
    <3> SUFFICES ASSUME NEW q \in Paths \ texts, Live(q), t.plan[p] = q PROVE q \in sync'[s].gone
      BY <1>1, <1>2
    <3>1. q # None
      BY ConstantsOK
    <3>2. q = p => ~rows[p].removed
      BY DEF Live
    <3> QED BY <2>2, <3>1, <3>2
  <2>6. \A q \in texts \ sync'[s].todo : Live(q)' /\ rows'[q].blob = Tree[t.commit][q]
    <3>1. t.meta.settings \subseteq Paths
      BY <1>1, ConstantsOK DEF Tasks, Metas
    <3>2. texts \subseteq Paths
      BY <3>1, ConstantsOK DEF Texts, Wanted
    <3>3. texts \ sync'[s].todo \subseteq texts \ t.todo
      BY <1>1, <2>1
    <3> HIDE DEF texts
    <3> QED BY <1>2, <2>1, <2>3, <3>2, <3>3
  <2>7. \A q \in Paths \ texts : Live(q)' => q \in sync'[s].gone \/ \E x \in sync'[s].todo : t.plan[x] = q
    BY <2>3, <2>5
  <2> HIDE DEF texts
  <2> QED BY <2>4, <2>6, <2>7
<1>5. CASE AddFile(s, p) \/ ChangeFile(s, p)
  <2>1. /\ p \in texts /\ sync'[s].gone = t.gone
        /\ Live(p)' /\ rows'[p].blob = Tree[t.commit][p]
        /\ \A q \in Paths \ {p} : rows'[q] = rows[q] \/ (t.plan[p] = q /\ rows'[q] = NoRow)
        /\ t.plan[p] \in Paths \ {p} => rows'[t.plan[p]] = NoRow
    <3>1. p \in texts /\ sync'[s].gone = t.gone
      BY <1>1, <1>2, <1>5, OwnTask DEF AddFile, ChangeFile
    <3>2. CASE AddFile(s, p)
      <4>1. PICK a \in Artifacts : rows' = [rows EXCEPT ![p] = [NoRow EXCEPT !.art = a, !.blob = Tree[t.commit][p]]]
        BY <3>2 DEF AddFile
      <4>2. rows'[p].art = a /\ rows'[p].blob = Tree[t.commit][p] /\ rows'[p].removed = FALSE
        BY <4>1 DEF TypeOK, NoRow
      <4>3. t.plan[p] = None /\ None \notin Paths /\ None \notin Artifacts
        BY <3>2, ConstantsOK DEF AddFile
      <4>4. \A q \in Paths \ {p} : rows'[q] = rows[q]
        BY <4>1 DEF TypeOK
      <4> QED BY <3>1, <4>2, <4>3, <4>4 DEF Live
    <3>3. CASE ChangeFile(s, p)
      <4> DEFINE r == t.plan[p]
                 b == Tree[t.commit][p]
      <4>1. /\ r \in Paths /\ rows[r] \in Rows /\ rows[r].art # None
            /\ rows' = [rows EXCEPT ![r] = NoRow, ![p] = Rewritten(rows[r], p, r, b)]
        BY <1>1, <3>3 DEF ChangeFile, TypeOK, Tasks
      <4> HIDE DEF r, b
      <4>2. rows'[p].art = rows[r].art /\ rows'[p].blob = b /\ rows'[p].removed = FALSE
        BY <4>1 DEF TypeOK, Rewritten, Rows
      <4>3. \A q \in Paths \ {p} : rows'[q] = rows[q] \/ (r = q /\ rows'[q] = NoRow)
        BY <4>1 DEF TypeOK
      <4>4. r # p => rows'[r] = NoRow
        BY <4>1 DEF TypeOK
      <4> QED BY <3>1, <4>1, <4>2, <4>3, <4>4 DEF Live, r, b
    <3> QED BY <1>5, <3>2, <3>3
  <2>2. \A q \in Paths \ {p} : Live(q)' => Live(q) /\ t.plan[p] # q
    <3>1. NoRow.art = None
      BY DEF NoRow
    <3> QED BY <2>1, <3>1 DEF Live
  <2>3. \A q \in texts \ t.todo : rows'[q] = rows[q] /\ q \in Paths
    <3> SUFFICES ASSUME NEW q \in texts \ t.todo PROVE q \in Paths /\ q # p /\ t.plan[p] # q
      BY <2>1
    <3>1. q \in Paths /\ q # p /\ q \in wanted /\ q # None
      <4>1. t.meta.settings \subseteq Paths
        BY <1>1, ConstantsOK DEF Tasks, Metas
      <4> QED BY <1>1, <1>2, <4>1, ConstantsOK DEF Wanted
    <3> QED BY <1>1, <1>2, <3>1
  <2>4. \A q \in texts \ sync'[s].todo : Live(q)' /\ rows'[q].blob = Tree[t.commit][q]
    BY <1>1, <1>2, <2>1, <2>3 DEF Live
  <2>5. \A q \in Paths \ texts : Live(q)' => q \in sync'[s].gone \/ \E x \in sync'[s].todo : t.plan[x] = q
    BY <1>1, <1>2, <2>1, <2>2
  <2>6. sync'[s].gone \cap texts = {}
    BY <1>2, <2>1
  <2> HIDE DEF texts
  <2> QED BY <2>4, <2>5, <2>6
<1> QED BY <1>4, <1>5

\* A tree that is being stored and removed stays on the way.
LEMMA UnderwayStays ==
    ASSUME TypeOK, OneOwner, TreeInv, [Next]_vars, NEW s \in Syncs, Underway(s)'
    PROVE  OnTheWay(s)'
<1>0. sync[s] \in Tasks /\ sync \in [Syncs -> Tasks]
  BY DEF TypeOK
<1>1. CASE sync'[s] = sync[s] /\ \A r \in Syncs : ~RowStep(r)
  <2>1. OnTheWay(s) /\ rows' = rows
    BY <1>1, RowSteps DEF TreeInv, Underway
  <2>2. \A p \in Paths : Live(p)' <=> Live(p)
    BY <2>1 DEF Live
  <2>3. sync[s].meta.settings \subseteq Paths
    BY <1>0, ConstantsOK DEF Tasks, Metas
  <2> QED BY <1>1, <2>1, <2>2, <2>3 DEF OnTheWay, Wanted, Texts
<1>2. CASE TaskStep(s)
  <2>1. CASE Plan(s)
    BY <2>1, PlanOnTheWay DEF TreeInv
  <2>2. ASSUME NEW p \in Paths, LeaveBinary(s, p) \/ AddFile(s, p) \/ ChangeFile(s, p) PROVE OnTheWay(s)'
    <3>1. OnTheWay(s)
      BY <2>2, OwnTask DEF TreeInv, Underway
    <3> QED BY <2>2, <3>1, StoreOnTheWay DEF TreeInv
  <2>3. CASE EndStoring(s)
    <3>1. /\ sync'[s] = [sync[s] EXCEPT !.phase = "removing"]
          /\ sync[s].phase = "storing" /\ sync[s].todo = {} /\ rows' = rows
      BY <1>0, <2>3 DEF EndStoring, Become
    <3>2. LET t == sync[s] IN LET u == sync'[s] IN
          /\ u.commit = t.commit /\ u.meta = t.meta /\ u.plan = t.plan /\ u.todo = t.todo
          /\ u.gone = t.gone /\ u.cancelled = t.cancelled
      BY <1>0, <3>1 DEF Tasks
    <3>3. OnTheWay(s)
      BY <3>1, <3>2 DEF TreeInv, Underway
    <3>4. \A p \in Paths : Live(p)' <=> Live(p)
      BY <3>1 DEF Live
    <3>5. sync[s].meta.settings \subseteq Paths
      BY <1>0, ConstantsOK DEF Tasks, Metas
    <3> QED BY <3>1, <3>2, <3>3, <3>4, <3>5 DEF OnTheWay, Wanted, Texts
  <2>4. ASSUME NEW p \in Paths, RemoveFile(s, p) PROVE OnTheWay(s)'
    <3>1. LET t == sync[s] IN LET u == sync'[s] IN
          /\ t.phase = "removing" /\ p \in t.gone
          /\ u.phase = "removing" /\ u.commit = t.commit /\ u.meta = t.meta /\ u.plan = t.plan
          /\ u.todo = t.todo /\ u.gone = t.gone \ {p} /\ u.cancelled = t.cancelled
      BY <2>4, OwnTask
    <3>2. OnTheWay(s)
      BY <3>1 DEF TreeInv, Underway
    <3>3. (\A q \in Paths \ {p} : rows'[q] = rows[q]) /\ ~Live(p)'
      BY <2>4, KeepsContents
    <3>4. \A q \in Paths \ {p} : Live(q)' <=> Live(q)
      BY <3>3 DEF Live
    <3>5. sync[s].meta.settings \subseteq Paths
      BY <1>0, ConstantsOK DEF Tasks, Metas
    <3> QED BY <3>1, <3>2, <3>3, <3>4, <3>5 DEF OnTheWay, Wanted, Texts
  <2>5. CASE Cancel(s)
    <3>1. sync'[s] = [sync[s] EXCEPT !.cancel = TRUE] /\ rows' = rows
      BY <1>0, <2>5 DEF Cancel, Become
    <3>2. LET t == sync[s] IN LET u == sync'[s] IN
          /\ u.commit = t.commit /\ u.meta = t.meta /\ u.plan = t.plan /\ u.todo = t.todo
          /\ u.gone = t.gone /\ u.cancelled = t.cancelled /\ u.phase = t.phase
      BY <1>0, <3>1 DEF Tasks
    <3>3. OnTheWay(s)
      BY <3>2 DEF TreeInv, Underway
    <3>4. \A p \in Paths : Live(p)' <=> Live(p)
      BY <3>1 DEF Live
    <3>5. sync[s].meta.settings \subseteq Paths
      BY <1>0, ConstantsOK DEF Tasks, Metas
    <3> QED BY <3>1, <3>2, <3>3, <3>4, <3>5 DEF OnTheWay, Wanted, Texts
  <2>6. CASE StopStoring(s)
    BY <1>0, <2>6 DEF StopStoring, Become, Tasks, Underway
  <2>7. CASE \/ ReadSource(s) \/ Skip(s)
             \/ (\E p \in Paths : Clash(s, p) \/ IndexFails(s, p))
             \/ Record(s) \/ IndexStep(s) \/ Finish(s) \/ SyncFails(s)
    BY <2>7, LeavesTree DEF Underway
  <2> QED BY <1>2, <2>1, <2>2, <2>3, <2>4, <2>5, <2>6, <2>7 DEF TaskStep, StoreStep
<1> QED BY <1>1, <1>2, BusyBefore DEF Underway


\* What is complete stays complete until the sync ends.
LEMMA CompleteStays ==
    ASSUME TypeOK, OneOwner, TreeInv, [Next]_vars, NEW s \in Syncs, Complete(s)'
    PROVE  InStep(s)'
<1> DEFINE Same == LET t == sync[s] IN LET u == sync'[s] IN
                   /\ u.commit = t.commit /\ u.meta.settings = t.meta.settings
                   /\ u.nothing = t.nothing /\ u.cancelled = t.cancelled
<1>0. sync[s] \in Tasks /\ sync \in [Syncs -> Tasks]
  BY DEF TypeOK
<1>1. ASSUME InStep(s), Same,
             \A p \in Paths : rows'[p].art = rows[p].art /\ rows'[p].blob = rows[p].blob
                              /\ rows'[p].removed = rows[p].removed
      PROVE  InStep(s)'
  <2>1. \A p \in Paths : Live(p)' <=> Live(p)
    BY <1>1 DEF Live
  <2>2. sync[s].meta.settings \subseteq Paths
    BY <1>0, ConstantsOK DEF Tasks, Metas
  <2> QED BY <1>1, <2>1, <2>2 DEF InStep, Wanted, Texts
<1>2. CASE sync'[s] = sync[s] /\ \A r \in Syncs : ~RowStep(r)
  <2>1. InStep(s) /\ rows' = rows
    BY <1>2, RowSteps DEF TreeInv, Complete
  <2> QED BY <1>1, <1>2, <2>1
<1>3. CASE TaskStep(s)
  <2>1. CASE Record(s)
    <3>1. rows' = rows /\ sync[s].phase = "removing" /\ sync[s].gone = {}
      BY <2>1 DEF Record
    <3>2. ~sync[s].cancelled /\ Same
      BY <1>0, <2>1 DEF Record, Become, Tasks, Metas, Complete
    <3>3. OnTheWay(s)
      BY <3>1, <3>2 DEF TreeInv, Underway
    <3>4. InStep(s)
      <4> DEFINE texts == Texts(sync[s].commit, sync[s].meta.settings)
      <4>1. sync[s].todo = {} /\ sync[s].gone = {}
        BY <3>1, <3>3 DEF OnTheWay
      <4>2. /\ \A p \in texts : Live(p) /\ rows[p].blob = Tree[sync[s].commit][p]
            /\ \A p \in Paths \ texts : ~Live(p)
        BY <3>3, <4>1 DEF OnTheWay
      <4>3. sync[s].meta.settings \subseteq Paths
        BY <1>0, ConstantsOK DEF Tasks, Metas
      <4>4. texts \subseteq Paths
        BY <4>3, ConstantsOK DEF Texts, Wanted
      <4> HIDE DEF texts
      <4>5. {p \in Paths : Live(p)} = texts
        BY <4>2, <4>4
      <4> QED BY <4>2, <4>5 DEF InStep, texts
    <3> QED BY <1>1, <3>1, <3>2, <3>4
  <2>2. ASSUME NEW p \in Paths, IndexFile(s, p) \/ IndexFails(s, p) PROVE InStep(s)'
    <3>1. Same /\ sync[s].phase = "indexing"
      <4>1. /\ sync[s].phase = "indexing"
            /\ sync'[s] = AfterOne(s, p) \/ sync'[s] = [AfterOne(s, p) EXCEPT !.failed = TRUE]
        BY <1>0, <2>2 DEF IndexFile, IndexFails, Indexing, Become
      <4>2. CASE sync'[s] = AfterOne(s, p)
        BY <1>0, <4>1, <4>2 DEF AfterOne, Tasks
      <4>3. CASE sync'[s] = [AfterOne(s, p) EXCEPT !.failed = TRUE]
        BY <1>0, <4>1, <4>3 DEF AfterOne, Tasks
      <4> QED BY <4>1, <4>2, <4>3
    <3>2. InStep(s)
      BY <3>1 DEF TreeInv, Complete
    <3>3. CASE IndexFile(s, p)
      BY <1>1, <3>1, <3>2, <3>3, KeepsContents
    <3>4. CASE IndexFails(s, p)
      BY <1>1, <3>1, <3>2, <3>4 DEF IndexFails
    <3> QED BY <2>2, <3>3, <3>4
  <2>3. CASE EndIndexing(s) \/ Cancel(s)
    <3>1. Same /\ rows' = rows /\ (sync[s].phase \in {"indexing", "finishing"})
      <4>1. CASE EndIndexing(s)
        BY <1>0, <4>1 DEF EndIndexing, Become, Tasks
      <4>2. CASE Cancel(s)
        BY <1>0, <4>2 DEF Cancel, Become, Tasks, Complete
      <4> QED BY <2>3, <4>1, <4>2
    <3>2. InStep(s)
      BY <3>1 DEF TreeInv, Complete
    <3> QED BY <1>1, <3>1, <3>2
  <2>4. CASE StopIndexing(s) \/ Skip(s)
    <3>1. CASE StopIndexing(s)
      BY <1>0, <3>1 DEF StopIndexing, Become, Tasks, Complete
    <3>2. CASE Skip(s)
      BY <1>0, <3>2 DEF Skip, Become, Tasks, Complete
    <3> QED BY <2>4, <3>1, <3>2
  <2>5. CASE ReadSource(s) \/ Plan(s) \/ StoreStep(s) \/ Finish(s) \/ SyncFails(s)
    BY <2>5, LeavesStored DEF Complete
  <2> QED BY <1>3, <2>1, <2>2, <2>3, <2>4, <2>5 DEF TaskStep, IndexStep
<1> QED BY <1>2, <1>3, BusyBefore DEF Complete

\* After a sync the tree is the commit's: what was recorded as indexed by
\* RepoSyncRunner::sync is what `plan` wanted, renames, removals and files
\* that are not text included.
THEOREM SyncStores == Spec => []SyncStoresTree
<1>1. Init => TreeInv
  <2>1. Init => \A p \in Paths : rows[p].art = None
    <3>1. NoRow.art = None
      BY DEF NoRow
    <3> QED BY <3>1 DEF Init
  <2>2. Init => \A s \in Syncs : sync[s].phase = "idle"
    BY DEF Init, NoSync
  <2> QED BY <2>1, <2>2 DEF TreeInv, TextRows, NewHasNone, Underway, Complete
<1>2. TypeOK /\ OneOwner /\ TreeInv /\ [Next]_vars => TreeInv'
  <2> SUFFICES ASSUME TypeOK, OneOwner, TreeInv, [Next]_vars PROVE TreeInv'
    OBVIOUS
  <2>1. TextRows' /\ NewHasNone'
    BY RowsStayText, NewStaysWithoutRow DEF TreeInv
  <2>2. \A s \in Syncs : Underway(s)' => OnTheWay(s)'
    BY UnderwayStays
  <2>3. \A s \in Syncs : Complete(s)' => InStep(s)'
    BY CompleteStays
  <2> QED BY <2>1, <2>2, <2>3 DEF TreeInv
<1>3. TreeInv => SyncStoresTree
  BY DEF TreeInv, Complete, InStep, SyncStoresTree
<1> QED BY <1>1, <1>2, <1>3, OwnerStays, TypeCorrect, PTL DEF Spec

-----------------------------------------------------------------------------
(* When finding nothing to do is right *)

Stored == {p \in Paths : Live(p)}

StoredIs(c, s) == Stored = Texts(c, s)

\* The commit and rules recorded of a whole sync are those of the stored files.
InTree(m) == m.whole => StoredIs(m.commit, m.with)

AtStore(s) == sync[s].phase \in {"storing", "removing"}

\* What a task has read, recorded or found of the files is so.
TaskRight(t) ==
    /\ t.phase = "reading" => InTree(t.meta)
    /\ t.phase \in {"indexing", "finishing"} /\ ~t.cancelled => StoredIs(t.meta.commit, t.meta.with)
    /\ t.phase = "finishing" /\ t.nothing => StoredIs(t.commit, t.meta.settings)

RecordInv ==
    /\ (\A s \in Syncs : ~AtStore(s)) => InTree(meta)
    /\ \A s \in Syncs : TaskRight(sync[s])

\* A sync that has begun to store or remove files goes on until it has recorded
\* what it did.
SyncsRecord == \A s \in Syncs : AtStore(s) => sync'[s].phase \notin {"idle", "ended"}

\* An edit writes back the record that is there.
EditsKeepRecord ==
    edit.phase = "read" /\ edit'.phase = "idle" /\ meta'.whole =>
        meta.whole /\ meta'.commit = meta.commit /\ meta'.with = meta.with

\* While a task stores, nothing is said of the record.
LEMMA StoringRight ==
    ASSUME OneOwner, NEW s \in Syncs, Busy(s),
           \A r \in Syncs \ {s} : sync'[r] = sync[r], AtStore(s)'
    PROVE  RecordInv'
<1>1. \A r \in Syncs \ {s} : sync'[r].phase = "idle"
  BY DEF OneOwner, Busy
<1>2. \A r \in Syncs : TaskRight(sync[r])'
  BY <1>1 DEF TaskRight, AtStore
<1> QED BY <1>2 DEF RecordInv

\* A step of a task that leaves the files and the record.
LEMMA TaskStaysRight ==
    ASSUME OneOwner, RecordInv, NEW s \in Syncs, Busy(s), ~AtStore(s),
           \A r \in Syncs \ {s} : sync'[r] = sync[r],
           meta' = meta, Stored' = Stored, TaskRight(sync[s])'
    PROVE  RecordInv'
<1>1. \A r \in Syncs \ {s} : sync[r].phase = "idle" /\ sync'[r].phase = "idle"
  BY DEF OneOwner, Busy
<1>2. InTree(meta)
  BY <1>1 DEF RecordInv, AtStore
<1>3. InTree(meta)'
  BY <1>2 DEF InTree, StoredIs
<1>4. \A r \in Syncs : TaskRight(sync[r])'
  BY <1>1 DEF TaskRight
<1> QED BY <1>3, <1>4 DEF RecordInv

\* A step that leaves the files and every task, or ends it, and the record.
LEMMA OthersRight ==
    ASSUME RecordInv, Stored' = Stored,
           \A s \in Syncs : \/ sync'[s] = sync[s]
                            \/ sync'[s].phase \in {"idle", "queued", "ended"} /\ ~AtStore(s),
           \/ meta' = meta
           \/ meta'.whole => meta.whole /\ meta'.commit = meta.commit /\ meta'.with = meta.with
    PROVE  RecordInv'
<1>1. \A s \in Syncs : TaskRight(sync[s])'
  BY DEF RecordInv, TaskRight, InTree, StoredIs
<1>2. (\A s \in Syncs : ~AtStore(s)') => \A s \in Syncs : ~AtStore(s)
  BY DEF AtStore
<1>3. (\A s \in Syncs : ~AtStore(s)') => InTree(meta)'
  BY <1>2 DEF RecordInv, InTree, StoredIs
<1> QED BY <1>1, <1>3 DEF RecordInv

\* The same files are stored when the rows are left, or only indexed.
LEMMA StoredStays ==
    ASSUME TypeOK, rows' = rows \/ \E s \in Syncs, p \in Paths : IndexFile(s, p)
    PROVE  Stored' = Stored
<1>1. CASE rows' = rows
  BY <1>1 DEF Stored, Live
<1>2. ASSUME NEW s \in Syncs, NEW p \in Paths, IndexFile(s, p)
      PROVE  Stored' = Stored
  <2>1. \A q \in Paths : rows'[q].art = rows[q].art /\ rows'[q].removed = rows[q].removed
    BY <1>2, KeepsContents
  <2> QED BY <2>1 DEF Stored, Live
<1> QED BY <1>1, <1>2

\* A task that stores goes on storing, records, fails, or ends in a clash.
LEMMA StoringSteps ==
    ASSUME TypeOK, NEW s \in Syncs, TaskStep(s), AtStore(s)
    PROVE  AtStore(s)' \/ Record(s) \/ sync'[s].phase = "ended"
<1>0. sync[s] \in Tasks /\ sync \in [Syncs -> Tasks]
  BY DEF TypeOK
<1>1. ASSUME NEW p \in Paths, LeaveBinary(s, p)
      PROVE  AtStore(s)'
  BY <1>0, <1>1 DEF LeaveBinary, Storing, Become, AfterOne, AtStore, Tasks
<1>2. ASSUME NEW p \in Paths, AddFile(s, p) \/ ChangeFile(s, p)
      PROVE  AtStore(s)'
  <2>1. sync[s].phase = "storing" /\ sync' = [sync EXCEPT ![s] = AfterOne(s, p)]
    BY <1>2 DEF AddFile, ChangeFile, Storing, Become
  <2> QED BY <1>0, <2>1 DEF AfterOne, AtStore, Tasks
<1>3. ASSUME NEW p \in Paths, Clash(s, p)
      PROVE  sync'[s].phase = "ended"
  BY <1>0, <1>3 DEF Clash, Become, Tasks
<1>4. ASSUME NEW p \in Paths, RemoveFile(s, p)
      PROVE  AtStore(s)'
  BY <1>0, <1>4 DEF RemoveFile, Become, AtStore, Tasks
<1>5. CASE StopStoring(s)
  BY <1>0, <1>5 DEF StopStoring, Become, AtStore, Tasks
<1>6. CASE EndStoring(s)
  BY <1>0, <1>6 DEF EndStoring, Become, AtStore, Tasks
<1>7. CASE SyncFails(s)
  BY <1>0, <1>7 DEF SyncFails, Become, Tasks
<1>8. CASE Cancel(s)
  BY <1>0, <1>8 DEF Cancel, Become, AtStore, Tasks
<1>9. ~(ReadSource(s) \/ Skip(s) \/ Plan(s) \/ IndexStep(s) \/ Finish(s) \/ \E p \in Paths : IndexFails(s, p))
  BY DEF AtStore, ReadSource, Skip, Plan, IndexStep, IndexFile, Indexing, StopIndexing, EndIndexing, Finish, IndexFails
<1> QED BY <1>1, <1>2, <1>3, <1>4, <1>5, <1>6, <1>7, <1>8, <1>9 DEF TaskStep, StoreStep

\* Only Skip finds nothing to do.
FoundAtEnd == \A s \in Syncs : sync[s].nothing => sync[s].phase \in {"finishing", "ended"}

\* No other step of a task changes whether it found nothing to do.
LEMMA OnlySkipFinds ==
    ASSUME TypeOK, NEW s \in Syncs, TaskStep(s), ~Skip(s)
    PROVE  sync'[s].nothing = sync[s].nothing
<1>0. sync[s] \in Tasks /\ sync \in [Syncs -> Tasks]
  BY DEF TypeOK
<1>1. CASE ReadSource(s)
  BY <1>0, <1>1 DEF ReadSource, Become, Tasks
<1>2. CASE Plan(s)
  BY <1>0, <1>2 DEF Plan, Become, Tasks
<1>3. CASE \E p \in Paths : LeaveBinary(s, p)
  BY <1>0, <1>3 DEF LeaveBinary, AfterOne, Become, Tasks
<1>4. CASE \E p \in Paths : AddFile(s, p) \/ ChangeFile(s, p)
  <2>1. PICK p \in Paths : sync' = [sync EXCEPT ![s] = AfterOne(s, p)]
    BY <1>4 DEF AddFile, ChangeFile, Become
  <2> QED BY <1>0, <2>1 DEF AfterOne, Tasks
<1>5. CASE \E p \in Paths : Clash(s, p)
  BY <1>0, <1>5 DEF Clash, Become, Tasks
<1>6. CASE \E p \in Paths : RemoveFile(s, p)
  BY <1>0, <1>6 DEF RemoveFile, Become, Tasks
<1>7. CASE StopStoring(s)
  BY <1>0, <1>7 DEF StopStoring, Become, Tasks
<1>8. CASE EndStoring(s)
  BY <1>0, <1>8 DEF EndStoring, Become, Tasks
<1>9. CASE Record(s)
  BY <1>0, <1>9 DEF Record, Become, Tasks
<1>10. CASE \E p \in Paths : IndexFile(s, p)
  BY <1>0, <1>10 DEF IndexFile, AfterOne, Become, Tasks
<1>11. CASE \E p \in Paths : IndexFails(s, p)
  BY <1>0, <1>11 DEF IndexFails, AfterOne, Become, Tasks
<1>12. CASE StopIndexing(s)
  BY <1>0, <1>12 DEF StopIndexing, Become, Tasks
<1>13. CASE EndIndexing(s)
  BY <1>0, <1>13 DEF EndIndexing, Become, Tasks
<1>14. CASE Finish(s)
  BY <1>0, <1>14 DEF Finish, Become, Tasks
<1>15. CASE SyncFails(s)
  BY <1>0, <1>15 DEF SyncFails, Become, Tasks
<1>16. CASE Cancel(s)
  BY <1>0, <1>16 DEF Cancel, Become, Tasks
<1> QED
  BY <1>1, <1>2, <1>3, <1>4, <1>5, <1>6, <1>7, <1>8, <1>9, <1>10, <1>11, <1>12, <1>13, <1>14, <1>15, <1>16
  DEF TaskStep, StoreStep, IndexStep

\* A task that is finishing ends or goes on finishing.
LEMMA FinishingEnds ==
    ASSUME TypeOK, NEW s \in Syncs, TaskStep(s), sync[s].phase \in {"finishing", "ended"}
    PROVE  sync'[s].phase \in {"finishing", "ended"}
<1>0. sync[s] \in Tasks /\ sync \in [Syncs -> Tasks]
  BY DEF TypeOK
<1>1. Finish(s) \/ SyncFails(s) \/ Cancel(s)
  BY DEF TaskStep, StoreStep, IndexStep, ReadSource, Skip, Plan, LeaveBinary, AddFile, ChangeFile, Clash,
         Storing, StopStoring, EndStoring, RemoveFile, Record, IndexFile, IndexFails, Indexing,
         StopIndexing, EndIndexing
<1>2. CASE Finish(s)
  BY <1>0, <1>2 DEF Finish, Become, Tasks
<1>3. CASE SyncFails(s)
  BY <1>0, <1>3 DEF SyncFails, Become, Tasks
<1>4. CASE Cancel(s)
  BY <1>0, <1>4 DEF Cancel, Become, Tasks
<1> QED BY <1>1, <1>2, <1>3, <1>4

\* The other steps leave the files and every task, or start or end one.
OtherStep ==
    \/ UNCHANGED vars
    \/ \E c \in Commits : Push(c)
    \/ Ask \/ StarterStep \/ ReadLink
    \/ \E s \in Settings : SaveSettings(s)
    \/ \E s \in Syncs : Forget(s)
    \/ \E x \in Starters : BeginFails(x)
    \/ DropPerson \/ Restart

\* Every step is one of a task or one of these.
LEMMA StepsOfTasks == [Next]_vars => OtherStep \/ \E s \in Syncs : TaskStep(s)
BY DEF Next, OtherStep, SyncStep, TaskStep, Faulty

\* They leave the rows, and a task they touch is gone or new.
LEMMA OtherSteps ==
    ASSUME TypeOK, OtherStep
    PROVE  /\ rows' = rows
           /\ \A s \in Syncs : \/ sync'[s] = sync[s]
                               \/ sync'[s].phase \in {"idle", "queued"} /\ ~sync'[s].nothing
<1>0. NoSync.phase = "idle" /\ ~NoSync.nothing
  BY DEF NoSync
<1>1. CASE \E s \in Syncs : Forget(s)
  BY <1>0, <1>1 DEF Forget, TypeOK
<1>2. CASE Restart
  BY <1>0, <1>2 DEF Restart
<1>3. ASSUME NEW x \in Starters, Begin(x)
      PROVE  /\ rows' = rows
             /\ \A s \in Syncs : \/ sync'[s] = sync[s]
                                 \/ sync'[s].phase \in {"idle", "queued"} /\ ~sync'[s].nothing
  <2>1. LET t == [NoSync EXCEPT !.phase = "queued"] IN t.phase = "queued" /\ ~t.nothing
    BY DEF NoSync
  <2> QED BY <1>3, <2>1 DEF Begin, TypeOK
<1>4. CASE \/ UNCHANGED vars \/ Ask \/ Poll \/ Expire \/ ReadLink \/ DropPerson
           \/ (\E c \in Commits : Push(c)) \/ (\E s \in Settings : SaveSettings(s))
           \/ \E x \in Starters : Claim(x) \/ BeginFails(x)
  BY <1>4 DEF vars, Ask, Poll, Expire, ReadLink, DropPerson, Push, SaveSettings, Claim, BeginFails
<1> QED BY <1>1, <1>2, <1>3, <1>4 DEF OtherStep, StarterStep

\* A task that found nothing to do is at its end, whatever the step.
LEMMA FoundStays == ASSUME TypeOK, FoundAtEnd, [Next]_vars PROVE FoundAtEnd'
<1>1. CASE OtherStep
  BY <1>1, OtherSteps DEF FoundAtEnd
<1>2. ASSUME NEW s \in Syncs, TaskStep(s) PROVE FoundAtEnd'
  <2>1. \A r \in Syncs \ {s} : sync'[r] = sync[r]
    BY <1>2, TaskStepOwn
  <2>2. CASE Skip(s)
    <3>1. sync[s] \in Tasks /\ sync \in [Syncs -> Tasks]
      BY DEF TypeOK
    <3>2. sync'[s].phase = "finishing"
      BY <2>2, <3>1 DEF Skip, Become, Tasks
    <3> QED BY <2>1, <3>2 DEF FoundAtEnd
  <2>3. CASE ~Skip(s)
    <3>1. sync'[s].nothing => sync'[s].phase \in {"finishing", "ended"}
      BY <1>2, <2>3, OnlySkipFinds, FinishingEnds DEF FoundAtEnd
    <3> QED BY <2>1, <3>1 DEF FoundAtEnd
  <2> QED BY <2>2, <2>3
<1> QED BY <1>1, <1>2, StepsOfTasks

\* Recording the commit of a sync that stored the tree.
LEMMA RecordingRight ==
    ASSUME TypeOK, TypeOK', OneOwner, SyncStoresTree', FoundAtEnd, NEW s \in Syncs, Record(s)
    PROVE  RecordInv'
<1> DEFINE t == sync[s]
<1>0. t \in Tasks /\ sync \in [Syncs -> Tasks] /\ meta' \in Metas /\ TaskStep(s)
  BY DEF TypeOK, TaskStep
<1>1. t.phase = "removing" /\ rows' = rows /\ sync'[s].meta = meta' /\ sync'[s].cancelled = t.cancelled
  BY <1>0 DEF Record, Become, Tasks
<1>2. ~t.nothing
  BY <1>1 DEF FoundAtEnd
<1>3. ~sync'[s].nothing
  <2>1. ~Skip(s)
    BY <1>1 DEF Skip
  <2> QED BY <1>0, <1>2, <2>1, OnlySkipFinds
<1>4. CASE t.cancelled
  <2>1. ~meta'.whole /\ sync'[s].phase = "finishing"
    BY <1>0, <1>4 DEF Record, Become, Tasks, Metas
  <2>2. \A r \in Syncs \ {s} : sync'[r].phase = "idle"
    BY <1>0, TaskStepOwn DEF OneOwner, Busy
  <2>3. \A r \in Syncs : TaskRight(sync[r])'
    BY <1>1, <1>3, <1>4, <2>1, <2>2 DEF TaskRight
  <2> QED BY <2>1, <2>3 DEF RecordInv, InTree
<1>5. CASE ~t.cancelled
  <2>1. /\ sync'[s].phase = "indexing" /\ sync'[s].commit = t.commit
        /\ meta'.commit = t.commit /\ meta'.with = t.meta.settings /\ meta'.settings = t.meta.settings
    BY <1>0, <1>5 DEF Record, Become, Tasks, Metas
  <2>2. Stored' = Texts(sync'[s].commit, sync'[s].meta.settings)
    BY <1>1, <1>3, <1>5, <2>1 DEF SyncStoresTree, Stored
  <2>3. Stored' = Texts(meta'.commit, meta'.with)
    BY <1>1, <2>1, <2>2
  <2>4. \A r \in Syncs \ {s} : sync'[r].phase = "idle"
    BY <1>0, TaskStepOwn DEF OneOwner, Busy
  <2>5. \A r \in Syncs : TaskRight(sync[r])'
    BY <1>1, <2>1, <2>3, <2>4 DEF TaskRight, StoredIs
  <2> QED BY <2>3, <2>5 DEF RecordInv, InTree, StoredIs
<1> QED BY <1>4, <1>5

\* The steps of a task that is not storing.
LEMMA QuietTaskRight ==
    ASSUME TypeOK, OneOwner, FoundAtEnd, FoundAtEnd', RecordInv, NEW s \in Syncs, TaskStep(s), ~AtStore(s)
    PROVE  RecordInv'
<1> DEFINE t == sync[s]
           u == sync'[s]
<1>0. t \in Tasks /\ sync \in [Syncs -> Tasks]
  BY DEF TypeOK
<1>1. Busy(s) /\ (\A r \in Syncs \ {s} : sync'[r] = sync[r]) /\ \A r \in Syncs \ {s} : sync[r].phase = "idle"
  BY TaskStepOwn DEF OneOwner, Busy
<1>2. InTree(meta) /\ TaskRight(t)
  BY <1>1 DEF RecordInv, AtStore
<1>3. CASE ReadSource(s)
  <2>1. u.phase = "reading" /\ u.meta = meta /\ rows' = rows /\ meta' = meta
    BY <1>0, <1>3 DEF ReadSource, Become, Tasks
  <2>2. Stored' = Stored
    BY <2>1, StoredStays
  <2>3. TaskRight(t)'
    BY <1>2, <2>1, <2>2 DEF TaskRight, InTree, StoredIs
  <2> QED BY <1>1, <2>1, <2>2, <2>3, TaskStaysRight
<1>4. CASE Skip(s)
  <2>1. /\ u.phase = "finishing" /\ u.meta = t.meta /\ u.commit = head /\ rows' = rows /\ meta' = meta
        /\ t.phase = "reading" /\ NothingToSync(t.meta, head)
    BY <1>0, <1>4 DEF Skip, Become, Tasks
  <2>2. Stored' = Stored
    BY <2>1, StoredStays
  <2>3. StoredIs(t.meta.commit, t.meta.with) /\ t.meta.commit = head /\ t.meta.with = t.meta.settings
    BY <1>2, <2>1 DEF NothingToSync, TaskRight, InTree
  <2>4. TaskRight(t)'
    BY <2>1, <2>2, <2>3 DEF TaskRight, InTree, StoredIs
  <2> QED BY <1>1, <2>1, <2>2, <2>4, TaskStaysRight
<1>5. CASE Plan(s)
  <2>1. u.phase = "storing"
    BY <1>0, <1>5 DEF Plan, Become, Tasks
  <2> QED BY <1>1, <2>1, StoringRight DEF AtStore
<1>6. CASE IndexStep(s) \/ (\E p \in Paths : IndexFails(s, p)) \/ Cancel(s)
  <2>1. /\ u.phase = t.phase \/ (t.phase = "indexing" /\ u.phase = "finishing")
        /\ u.meta = t.meta /\ u.commit = t.commit /\ (t.cancelled => u.cancelled) /\ u.nothing = t.nothing
        /\ meta' = meta
    <3>1. CASE \E p \in Paths : IndexFile(s, p)
      BY <1>0, <3>1 DEF IndexFile, Indexing, AfterOne, Become, Tasks
    <3>2. CASE \E p \in Paths : IndexFails(s, p)
      BY <1>0, <3>2 DEF IndexFails, Indexing, AfterOne, Become, Tasks
    <3>3. CASE StopIndexing(s)
      BY <1>0, <3>3 DEF StopIndexing, Become, Tasks
    <3>4. CASE EndIndexing(s)
      BY <1>0, <3>4 DEF EndIndexing, Become, Tasks
    <3>5. CASE Cancel(s)
      BY <1>0, <3>5 DEF Cancel, Become, Tasks
    <3> QED BY <1>6, <3>1, <3>2, <3>3, <3>4, <3>5 DEF IndexStep
  <2>2. Stored' = Stored
    <3>1. rows' = rows \/ \E p \in Paths : IndexFile(s, p)
      BY <1>6 DEF IndexStep, StopIndexing, EndIndexing, IndexFails, Cancel
    <3> QED BY <3>1, StoredStays
  <2>3. t.phase = "indexing" => ~t.nothing
    BY DEF FoundAtEnd
  <2>4. TaskRight(t)'
    BY <1>2, <2>1, <2>2, <2>3 DEF TaskRight, InTree, StoredIs
  <2> QED BY <1>1, <2>1, <2>2, <2>4, TaskStaysRight
<1>7. CASE SyncFails(s)
  <2>1. u.phase = "ended" /\ rows' = rows /\ meta' = meta
    BY <1>0, <1>7 DEF SyncFails, Become, Tasks
  <2>2. Stored' = Stored
    BY <2>1, StoredStays
  <2>3. TaskRight(t)'
    BY <2>1 DEF TaskRight
  <2> QED BY <1>1, <2>1, <2>2, <2>3, TaskStaysRight
<1>8. CASE Finish(s)
  <2>1. /\ u.phase = "ended" /\ rows' = rows /\ t.phase = "finishing"
        /\ meta'.commit = t.meta.commit /\ meta'.with = t.meta.with /\ (meta'.whole => ~t.cancelled)
    BY <1>0, <1>8 DEF Finish, Become, Tasks, Metas
  <2>2. Stored' = Stored
    BY <2>1, StoredStays
  <2>3. InTree(meta)'
    BY <1>2, <2>1, <2>2 DEF TaskRight, InTree, StoredIs
  <2>4. \A r \in Syncs : TaskRight(sync[r])'
    BY <1>1, <2>1 DEF TaskRight
  <2> QED BY <2>3, <2>4 DEF RecordInv
<1>9. ~(StoreStep(s) \/ Record(s))
  BY DEF AtStore, StoreStep, LeaveBinary, AddFile, ChangeFile, Clash, Storing, StopStoring, EndStoring,
         RemoveFile, Record
<1> QED BY <1>3, <1>4, <1>5, <1>6, <1>7, <1>8, <1>9 DEF TaskStep

\* What is recorded stays right under every step.
LEMMA RecordStays ==
    ASSUME TypeOK, TypeOK', OneOwner, SyncStoresTree', FoundAtEnd, FoundAtEnd', RecordInv,
           [Next]_vars, [SyncsRecord /\ EditsKeepRecord]_vars
    PROVE  RecordInv'
<1>1. CASE OtherStep
  <2>1. Stored' = Stored
    BY <1>1, OtherSteps, StoredStays
  <2>2. \A s \in Syncs : \/ sync'[s] = sync[s]
                         \/ sync'[s].phase \in {"idle", "queued", "ended"} /\ ~AtStore(s)
    <3>1. ASSUME NEW s \in Syncs, sync'[s] # sync[s]
          PROVE  sync'[s].phase \in {"idle", "queued"} /\ ~AtStore(s)
      <4>1. sync'[s].phase \in {"idle", "queued"}
        BY <1>1, <3>1, OtherSteps
      <4>2. CASE sync'[s].phase = "idle"
        BY <3>1, <4>2 DEF SyncsRecord, vars
      <4>3. CASE sync'[s].phase = "queued"
        <5>1. \E x \in Starters : Begin(x)
          <6>1. NoSync.phase = "idle"
            BY DEF NoSync
          <6>2. ~Restart /\ ~\E r \in Syncs : Forget(r)
            BY <3>1, <4>3, <6>1 DEF Restart, Forget, TypeOK
          <6> QED BY <1>1, <3>1, <6>2
              DEF OtherStep, StarterStep, vars, Ask, Poll, Expire, ReadLink, DropPerson, Push, SaveSettings,
                  Claim, BeginFails
        <5> QED BY <3>1, <5>1 DEF Begin, TypeOK, AtStore
      <4> QED BY <4>1, <4>2, <4>3
    <3> QED BY <3>1
  <2>3. \/ meta' = meta
        \/ meta'.whole => meta.whole /\ meta'.commit = meta.commit /\ meta'.with = meta.with
    <3>1. CASE \E s \in Settings : SaveSettings(s)
      <4>1. edit.phase = "read" /\ edit'.phase = "idle"
        BY <3>1 DEF SaveSettings, NoEdit
      <4> QED BY <4>1 DEF EditsKeepRecord, vars
    <3>2. CASE ~\E s \in Settings : SaveSettings(s)
      BY <1>1, <3>2 DEF OtherStep, StarterStep, vars, Ask, Poll, Expire, ReadLink, DropPerson, Push,
                        Claim, Begin, BeginFails, Forget, Restart
    <3> QED BY <3>1, <3>2
  <2> QED BY <2>1, <2>2, <2>3, OthersRight
<1>2. ASSUME NEW s \in Syncs, TaskStep(s) PROVE RecordInv'
  <2>1. CASE ~AtStore(s)
    BY <1>2, <2>1, QuietTaskRight
  <2>2. CASE AtStore(s)
    <3>1. Busy(s) /\ \A r \in Syncs \ {s} : sync'[r] = sync[r]
      BY <1>2, TaskStepOwn
    <3>2. CASE AtStore(s)'
      BY <3>1, <3>2, StoringRight
    <3>3. CASE Record(s)
      BY <3>3, RecordingRight
    <3>4. CASE sync'[s].phase = "ended"
      <4>1. sync' # sync
        BY <2>2, <3>4 DEF AtStore
      <4> QED BY <2>2, <3>4, <4>1 DEF SyncsRecord, vars
    <3> QED BY <1>2, <2>2, <3>2, <3>3, <3>4, StoringSteps
  <2> QED BY <2>1, <2>2
<1> QED BY <1>1, <1>2, StepsOfTasks

\* nothing_to_sync trusts the record of the last sync.  Unless a sync breaks off
\* (it fails, clashes or is lost in a restart) after it began to store and
\* before it has recorded, or an edit writes back a record that is not there
\* any more, it trusts it rightly: when a sync finds nothing to do, the stored
\* files are those of the commit.
THEOREM NothingIsInStep ==
    Spec /\ [][SyncsRecord /\ EditsKeepRecord]_vars => []NothingMeansInStep
<1>1. Init => FoundAtEnd /\ RecordInv
  <2> SUFFICES ASSUME Init PROVE FoundAtEnd /\ RecordInv
    OBVIOUS
  <2>1. \A s \in Syncs : sync[s].phase = "idle" /\ ~sync[s].nothing
    BY DEF Init, NoSync
  <2>2. ~meta.whole
    BY DEF Init, Linked
  <2> QED BY <2>1, <2>2 DEF FoundAtEnd, RecordInv, TaskRight, InTree
<1>2. TypeOK /\ FoundAtEnd /\ [Next]_vars => FoundAtEnd'
  BY FoundStays
<1>3. TypeOK /\ TypeOK' /\ OneOwner /\ SyncStoresTree' /\ FoundAtEnd /\ FoundAtEnd' /\ RecordInv
      /\ [Next]_vars /\ [SyncsRecord /\ EditsKeepRecord]_vars => RecordInv'
  BY RecordStays
<1>4. RecordInv => NothingMeansInStep
  BY DEF RecordInv, TaskRight, StoredIs, Stored, NothingMeansInStep
<1> QED BY <1>1, <1>2, <1>3, <1>4, TypeCorrect, OwnerStays, SyncStores, PTL DEF Spec
=============================================================================
