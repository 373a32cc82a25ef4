----------------------------- MODULE IndexQueue -----------------------------
(***************************************************************************)
(* Background indexing of shared evidence: apps/server/src/indexing.rs,    *)
(* with the rows it reads and writes in SQLite.                            *)
(*                                                                         *)
(* One dispatcher (run_worker) takes a permit, pops a request from a queue *)
(* that serves workspaces in turn, and spawns a task for it.  `queued` is  *)
(* the set of files that already have a request, a task or a scheduled     *)
(* retry; `manual` holds the job a person asked for.  Handlers replace     *)
(* contents and ask for passes meanwhile.                                  *)
(*                                                                         *)
(* A file's content is the number of times it was stored.  Only the jobs   *)
(* of enqueue_manual are rows here: the job of an automatic pass begins    *)
(* and ends with its task.                                                 *)
(***************************************************************************)
EXTENDS Integers, Sequences

CONSTANTS Artifacts, Workspaces,
          WorkspaceOf,   \* the workspace of each file
          Slots,         \* the permits of run_worker's semaphore
          Clients,       \* request handlers in flight
          JobIds,        \* ids of indexing_jobs rows (bounds manual requests)
          MaxContent,    \* bound: contents stored per file
          MaxRetries,    \* RETRY_DELAYS.len()
          MaxRestarts,   \* bound: crashes or restarts of the server
          MaxFaults,     \* bound: statements that close or record something and fail
          None

ASSUME ConstantsOK ==
    /\ WorkspaceOf \in [Artifacts -> Workspaces]
    /\ MaxContent \in Nat /\ MaxRetries \in Nat /\ MaxRestarts \in Nat /\ MaxFaults \in Nat
    /\ None \notin Artifacts \cup JobIds

VARIABLES
    content,    \* artifacts.content_hash: 0 not stored yet, -1 deleted
    chunksOf,   \* the content the stored passages were cut from, 0 for none
    indexedAt,  \* artifacts.indexed_at IS NOT NULL
    failure,    \* files with an artifact_index_failures row
    jobs,       \* indexing_jobs rows
    queue,      \* FairIndexQueue::by_workspace
    turns,      \* FairIndexQueue::turns
    queued,     \* IndexQueue::queued
    sleeping,   \* retries waiting for their delay
    manual,     \* IndexQueue::manual
    task,       \* the spawned task that holds each permit
    listed,     \* files resume_pending has listed and not pushed yet
    client,     \* request handlers between two awaits
    strays,     \* history: running jobs nobody will close before the next start
    restarts, faults

dbVars    == <<content, chunksOf, indexedAt, failure>>
queueVars == <<queue, turns, queued, sleeping>>
bounds    == <<restarts, faults>>
vars == <<dbVars, jobs, queueVars, manual, task, listed, client, strays, bounds>>

Deleted == -1
Requests == [file: Artifacts, attempt: 0..MaxRetries]
NoEntry  == [job |-> None, pending |-> FALSE]
NoJob    == [file |-> None, status |-> "unused"]
NoTask   == [phase |-> "idle", file |-> None, attempt |-> 0, job |-> None, read |-> 0]
NoClient == [phase |-> "idle", file |-> None, unindexed |-> FALSE, job |-> None]

\* Phases in which a task still answers for its file's mark in `queued`.
Holding == {"picked", "begun", "analysing", "written", "failed", "unlisting", "done"}
Phases  == Holding \cup {"idle", "forgotten", "requeue"}

\* Phases in which a task works for the job it took.
InHand == {"begun", "analysing", "written", "failed"}

Jobs     == [file: Artifacts \cup {None}, status: {"unused", "running", "completed", "failed"}]
Entries  == [job: JobIds \cup {None}, pending: BOOLEAN]
Tasks    == [phase: Phases, file: Artifacts \cup {None}, attempt: 0..MaxRetries,
             job: JobIds \cup {None}, read: 0..MaxContent]
Handlers == [phase: {"idle", "stored", "read", "made", "asked"}, file: Artifacts \cup {None},
             unindexed: BOOLEAN, job: JobIds \cup {None}]

TypeOK ==
    /\ content \in [Artifacts -> {Deleted} \cup 0..MaxContent]
    /\ chunksOf \in [Artifacts -> 0..MaxContent]
    /\ indexedAt \in [Artifacts -> BOOLEAN]
    /\ failure \in SUBSET Artifacts
    /\ jobs \in [JobIds -> Jobs]
    /\ queue \in [Workspaces -> Seq(Requests)]
    /\ turns \in Seq(Workspaces)
    /\ queued \in SUBSET Artifacts
    /\ sleeping \in SUBSET Requests
    /\ manual \in [Artifacts -> Entries]
    /\ task \in [Slots -> Tasks]
    /\ \A s \in Slots : task[s].phase # "idle" => task[s].file \in Artifacts
    /\ listed \in SUBSET Artifacts
    /\ client \in [Clients -> Handlers]
    /\ \A c \in Clients : client[c].phase # "idle" => client[c].file \in Artifacts
    /\ \A c \in Clients : client[c].phase = "made" => client[c].job \in JobIds
    /\ strays \in SUBSET JobIds
    /\ restarts \in 0..MaxRestarts /\ faults \in 0..MaxFaults

Init ==
    /\ content = [a \in Artifacts |-> 0]
    /\ chunksOf = [a \in Artifacts |-> 0]
    /\ indexedAt = [a \in Artifacts |-> FALSE]
    /\ failure = {}
    /\ jobs = [j \in JobIds |-> NoJob]
    /\ queue = [w \in Workspaces |-> <<>>]
    /\ turns = <<>>
    /\ queued = {}
    /\ sleeping = {}
    /\ manual = [a \in Artifacts |-> NoEntry]
    /\ task = [s \in Slots |-> NoTask]
    /\ listed = {}
    /\ client = [c \in Clients |-> NoClient]
    /\ strays = {}
    /\ restarts = 0 /\ faults = 0

Stored(a) == content[a] > 0

\* A statement that fails: the caller goes on with its error or without it.
Fault == faults < MaxFaults /\ faults' = faults + 1

\* A handler holds the lock of `manual` while it makes a job.
Locked == \E c \in Clients : client[c].phase = "made"

-----------------------------------------------------------------------------
(* The fair queue *)

\* Mutant of Push: a turn for every request.
PushWithTurn(r) ==
    /\ turns' = Append(turns, WorkspaceOf[r.file])
    /\ queue' = [queue EXCEPT ![WorkspaceOf[r.file]] = Append(@, r)]

\* FairIndexQueue::push: an empty workspace gets a turn behind the others.
Push(r) ==
    LET w == WorkspaceOf[r.file] IN
    /\ turns' = IF queue[w] = <<>> THEN Append(turns, w) ELSE turns
    /\ queue' = [queue EXCEPT ![w] = Append(@, r)]

\* Mutant of Pop: a workspace with more requests keeps its place.
PopInPlace ==
    LET w == Head(turns) IN
    /\ turns # <<>>
    /\ queue' = [queue EXCEPT ![w] = Tail(@)]
    /\ turns' = IF Tail(queue[w]) = <<>> THEN Tail(turns) ELSE turns

\* FairIndexQueue::pop: the first workspace's oldest request; the workspace
\* goes to the back if it has more.
Pop ==
    LET w == Head(turns) IN
    /\ turns # <<>>
    /\ queue' = [queue EXCEPT ![w] = Tail(@)]
    /\ turns' = IF Tail(queue[w]) = <<>> THEN Tail(turns) ELSE Append(Tail(turns), w)

\* Mutant of QueueRequest: the mark is set but not looked at.
QueueAlways(a) ==
    /\ queued' = queued \cup {a}
    /\ Push([file |-> a, attempt |-> 0])

\* queue_request: nothing when the file is already waiting or running.
QueueRequest(a) ==
    \/ /\ a \in queued
       /\ UNCHANGED <<queued, queue, turns>>
    \/ /\ a \notin queued
       /\ queued' = queued \cup {a}
       /\ Push([file |-> a, attempt |-> 0])

-----------------------------------------------------------------------------
(* Request handlers *)

\* create_text_artifact, upload_artifact, upload_artifact_version and
\* restore_artifact_version: the transaction that stores a content.
Store(c, a) ==
    /\ client[c].phase = "idle"
    /\ content[a] \in 0..(MaxContent - 1)
    /\ content' = [content EXCEPT ![a] = @ + 1]
    /\ indexedAt' = [indexedAt EXCEPT ![a] = FALSE]
    /\ client' = [client EXCEPT ![c] = [NoClient EXCEPT !.phase = "stored", !.file = a]]
    /\ UNCHANGED <<chunksOf, failure, jobs, queueVars, manual, task, listed, strays, bounds>>

\* The summary the storage call returns, read after its transaction.
ReadSummary(c) ==
    LET a == client[c].file IN
    /\ client[c].phase = "stored"
    /\ client' = [client EXCEPT ![c] =
                    IF Stored(a) THEN [@ EXCEPT !.phase = "read", !.unindexed = ~indexedAt[a]]
                    ELSE NoClient]
    /\ UNCHANGED <<dbVars, jobs, queueVars, manual, task, listed, strays, bounds>>

\* IndexQueue::enqueue with that summary.
Enqueue(c) ==
    /\ client[c].phase = "read"
    /\ \/ client[c].unindexed /\ QueueRequest(client[c].file)
       \/ ~client[c].unindexed /\ UNCHANGED <<queued, queue, turns>>
    /\ client' = [client EXCEPT ![c] = NoClient]
    /\ UNCHANGED <<dbVars, jobs, sleeping, manual, task, listed, strays, bounds>>

\* The person's connection closes and the handler is dropped at an await, or a
\* statement of it fails.  A job it has just made is left running, without an
\* entry: the stamp of who asked comes between the two.
Disconnect(c) ==
    /\ client[c].phase \in {"stored", "read", "made"}
    /\ client' = [client EXCEPT ![c] = NoClient]
    /\ strays' = strays \cup {j \in JobIds : client[c].phase = "made" /\ client[c].job = j}
    /\ UNCHANGED <<dbVars, jobs, queueVars, manual, task, listed, bounds>>

\* Mutant of AskForPass: the entry of an earlier request is not looked up.
AskAnew(c, a) ==
    /\ client[c].phase = "idle"
    /\ ~Locked
    /\ Stored(a)
    /\ \E j \in JobIds :
         /\ jobs[j] = NoJob
         /\ jobs' = [jobs EXCEPT ![j] = [file |-> a, status |-> "running"]]
         /\ client' = [client EXCEPT ![c] = [NoClient EXCEPT !.phase = "made", !.file = a, !.job = j]]
    /\ UNCHANGED <<dbVars, queueVars, manual, task, listed, strays, bounds>>

\* enqueue_manual takes the lock of `manual` and makes a job, unless the file
\* has an entry, whose job is then the answer (no state changes).
AskForPass(c, a) ==
    /\ client[c].phase = "idle"
    /\ ~Locked
    /\ Stored(a)
    /\ manual[a] = NoEntry
    /\ \E j \in JobIds :
         /\ jobs[j] = NoJob
         /\ jobs' = [jobs EXCEPT ![j] = [file |-> a, status |-> "running"]]
         /\ client' = [client EXCEPT ![c] = [NoClient EXCEPT !.phase = "made", !.file = a, !.job = j]]
    /\ UNCHANGED <<dbVars, queueVars, manual, task, listed, strays, bounds>>

\* With the stamp made, the job gets its entry and the lock is given back.
ListAsked(c) ==
    /\ client[c].phase = "made"
    /\ manual' = [manual EXCEPT ![client[c].file] = [job |-> client[c].job, pending |-> TRUE]]
    /\ client' = [client EXCEPT ![c].phase = "asked", ![c].job = None]
    /\ UNCHANGED <<dbVars, jobs, queueVars, task, listed, strays, bounds>>

\* The queue_request that enqueue_manual makes after its lock.
QueueAsked(c) ==
    /\ client[c].phase = "asked"
    /\ QueueRequest(client[c].file)
    /\ client' = [client EXCEPT ![c] = NoClient]
    /\ UNCHANGED <<dbVars, jobs, sleeping, manual, task, listed, strays, bounds>>

DeleteArtifact(a) ==
    /\ Stored(a)
    /\ content' = [content EXCEPT ![a] = Deleted]
    /\ chunksOf' = [chunksOf EXCEPT ![a] = 0]
    /\ indexedAt' = [indexedAt EXCEPT ![a] = FALSE]
    /\ UNCHANGED <<failure, jobs, queueVars, manual, task, listed, client, strays, bounds>>

-----------------------------------------------------------------------------
(* The dispatcher and its tasks *)

\* run_worker: a permit is free and the queue has a request.
Pick(s) ==
    /\ task[s].phase = "idle"
    /\ Pop
    /\ LET r == Head(queue[Head(turns)]) IN
       task' = [task EXCEPT ![s] = [phase |-> "picked", file |-> r.file, attempt |-> r.attempt,
                                    job |-> None, read |-> 0]]
    /\ UNCHANGED <<dbVars, jobs, queued, sleeping, manual, listed, client, strays, bounds>>

Goto(s, phase) == task' = [task EXCEPT ![s].phase = phase]

\* index_one takes the work a person asked for, if there is any.
Claim(s) ==
    LET a == task[s].file IN
    /\ task[s].phase = "picked"
    /\ ~Locked
    /\ \/ /\ manual[a].pending
          /\ manual' = [manual EXCEPT ![a].pending = FALSE]
          /\ task' = [task EXCEPT ![s].phase = "begun", ![s].job = manual[a].job]
       \/ /\ ~manual[a].pending
          /\ Goto(s, "begun")
          /\ UNCHANGED manual
    /\ UNCHANGED <<dbVars, jobs, queueVars, listed, client, strays, bounds>>

\* index_artifact_inner reads the file's bytes.
ReadBlob(s) ==
    LET a == task[s].file IN
    /\ task[s].phase = "begun"
    /\ \/ /\ Stored(a)
          /\ task' = [task EXCEPT ![s].phase = "analysing", ![s].read = content[a]]
       \/ ~Stored(a) /\ Goto(s, "failed")
    /\ UNCHANGED <<dbVars, jobs, queueVars, manual, listed, client, strays, bounds>>

\* No provider, no budget left, an unreadable file, a database error.
AnalyseFails(s) ==
    /\ task[s].phase = "analysing"
    /\ Goto(s, "failed")
    /\ UNCHANGED <<dbVars, jobs, queueVars, manual, listed, client, strays, bounds>>

\* replace_artifact_index, one transaction; a deleted file's passages have no
\* row to belong to, and a file without passages updates nothing.
WriteIndex(s) ==
    LET a == task[s].file IN
    /\ task[s].phase = "analysing"
    /\ \/ /\ Stored(a)
          /\ chunksOf' = [chunksOf EXCEPT ![a] = task[s].read]
          /\ indexedAt' = [indexedAt EXCEPT ![a] = TRUE]
          /\ Goto(s, "written")
       \/ /\ ~Stored(a)
          /\ \E phase \in {"written", "failed"} : Goto(s, phase)
          /\ UNCHANGED <<chunksOf, indexedAt>>
    /\ UNCHANGED <<content, failure, jobs, queueVars, manual, listed, client, strays, bounds>>

\* update_indexing_job at the end of a pass.  When it fails nobody tries again.
CloseJob(s, status) ==
    \/ /\ jobs' = [jobs EXCEPT ![task[s].job].status = status]
       /\ UNCHANGED <<strays, faults>>
    \/ /\ Fault
       /\ strays' = strays \cup {task[s].job}
       /\ UNCHANGED jobs

\* finish_index_artifact after a success: the failure's row goes (or stays, by
\* an error that is ignored) and the job is closed.  A pass of the queue's own
\* that cannot close its job counts as failed.
Succeed(s) ==
    /\ task[s].phase = "written"
    /\ failure' \in {failure, failure \ {task[s].file}}
    /\ \/ task[s].job # None /\ CloseJob(s, "completed") /\ Goto(s, "unlisting")
       \/ task[s].job = None /\ Goto(s, "done") /\ UNCHANGED <<jobs, strays, faults>>
       \/ task[s].job = None /\ Fault /\ Goto(s, "failed") /\ UNCHANGED <<jobs, strays>>
    /\ UNCHANGED <<content, chunksOf, indexedAt, queueVars, manual, listed, client, restarts>>

\* A person's pass fails with its job and has no retry.
FailManual(s) ==
    /\ task[s].phase = "failed"
    /\ task[s].job # None
    /\ CloseJob(s, "failed")
    /\ Goto(s, "unlisting")
    /\ UNCHANGED <<dbVars, queueVars, manual, listed, client, restarts>>

\* Mutant of ScheduleRetry: the file leaves `queued` while its retry sleeps.
RetryUnmarked(s) ==
    /\ task[s].phase = "failed"
    /\ task[s].job = None
    /\ task[s].attempt < MaxRetries
    /\ sleeping' = sleeping \cup {[file |-> task[s].file, attempt |-> task[s].attempt + 1]}
    /\ queued' = queued \ {task[s].file}
    /\ task' = [task EXCEPT ![s] = NoTask]
    /\ UNCHANGED <<dbVars, jobs, queue, turns, manual, listed, client, strays, bounds>>

\* Mutant of ScheduleRetry: one retry more than there are delays.
RetryOnceMore(s) ==
    /\ task[s].phase = "failed"
    /\ task[s].job = None
    /\ sleeping' = sleeping \cup {[file |-> task[s].file, attempt |-> task[s].attempt + 1]}
    /\ task' = [task EXCEPT ![s] = NoTask]
    /\ UNCHANGED <<dbVars, jobs, queue, turns, queued, manual, listed, client, strays, bounds>>

\* An automatic pass is retried after a delay: the file stays in `queued` and
\* the permit is given back.
ScheduleRetry(s) ==
    /\ task[s].phase = "failed"
    /\ task[s].job = None
    /\ task[s].attempt < MaxRetries
    /\ sleeping' = sleeping \cup {[file |-> task[s].file, attempt |-> task[s].attempt + 1]}
    /\ task' = [task EXCEPT ![s] = NoTask]
    /\ UNCHANGED <<dbVars, jobs, queue, turns, queued, manual, listed, client, strays, bounds>>

\* Mutant of GiveUp: the failure is logged and not recorded.
GiveUpInSilence(s) ==
    /\ task[s].phase = "failed"
    /\ task[s].job = None
    /\ task[s].attempt = MaxRetries
    /\ Goto(s, "done")
    /\ UNCHANGED <<dbVars, jobs, queueVars, manual, listed, client, strays, bounds>>

\* record_index_failure after the last retry; when that fails it is logged.
GiveUp(s) ==
    /\ task[s].phase = "failed"
    /\ task[s].job = None
    /\ task[s].attempt = MaxRetries
    /\ \/ failure' = failure \cup {task[s].file} /\ UNCHANGED faults
       \/ Fault /\ UNCHANGED failure
    /\ Goto(s, "done")
    /\ UNCHANGED <<content, chunksOf, indexedAt, jobs, queueVars, manual, listed, client, strays, restarts>>

\* index_one removes the file's entry once a person's pass is over.  It does not
\* look whose it is: an entry that waits goes with it, and its job has nobody.
Unlist(s) ==
    LET a == task[s].file IN
    /\ task[s].phase = "unlisting"
    /\ ~Locked
    /\ manual' = [manual EXCEPT ![a] = NoEntry]
    /\ strays' = strays \cup {j \in JobIds : manual[a] = [job |-> j, pending |-> TRUE]}
    /\ Goto(s, "done")
    /\ UNCHANGED <<dbVars, jobs, queueVars, listed, client, bounds>>

Forget(s) ==
    /\ task[s].phase = "done"
    /\ queued' = queued \ {task[s].file}
    /\ Goto(s, "forgotten")
    /\ UNCHANGED <<dbVars, jobs, queue, turns, sleeping, manual, listed, client, strays, bounds>>

\* Mutant of CheckManual: the task ends without looking.
CheckNothing(s) ==
    /\ task[s].phase = "forgotten"
    /\ task' = [task EXCEPT ![s] = NoTask]
    /\ UNCHANGED <<dbVars, jobs, queueVars, manual, listed, client, strays, bounds>>

\* The task looks for a person's request that arrived after it was picked up;
\* an entry whose work was taken is removed.
CheckManual(s) ==
    LET a == task[s].file IN
    /\ task[s].phase = "forgotten"
    /\ ~Locked
    /\ \/ manual[a].pending /\ Goto(s, "requeue") /\ UNCHANGED manual
       \/ /\ ~manual[a].pending
          /\ manual' = [manual EXCEPT ![a] = NoEntry]
          /\ task' = [task EXCEPT ![s] = NoTask]
    /\ UNCHANGED <<dbVars, jobs, queueVars, listed, client, strays, bounds>>

Requeue(s) ==
    /\ task[s].phase = "requeue"
    /\ QueueRequest(task[s].file)
    /\ task' = [task EXCEPT ![s] = NoTask]
    /\ UNCHANGED <<dbVars, jobs, sleeping, manual, listed, client, strays, bounds>>

\* Mutant of WakeRetry: a request that comes back counts its attempts anew.
WakeAfresh(r) ==
    /\ r \in sleeping
    /\ sleeping' = sleeping \ {r}
    /\ Push([r EXCEPT !.attempt = 0])
    /\ UNCHANGED <<dbVars, jobs, queued, manual, task, listed, client, strays, bounds>>

\* The spawned sleep of a retry ends.
WakeRetry(r) ==
    /\ r \in sleeping
    /\ sleeping' = sleeping \ {r}
    /\ Push(r)
    /\ UNCHANGED <<dbVars, jobs, queued, manual, task, listed, client, strays, bounds>>

-----------------------------------------------------------------------------
(* Resuming and restarting *)

NeedsIndex == {a \in Artifacts : Stored(a) /\ ~indexedAt[a]}

\* resume_pending lists the files without an index (maintenance, a saved
\* vision provider, a workspace import), then pushes them one by one.
ResumeList ==
    /\ ~(NeedsIndex \subseteq listed)
    /\ listed' = listed \cup NeedsIndex
    /\ UNCHANGED <<dbVars, jobs, queueVars, manual, task, client, strays, bounds>>

ResumePush(a) ==
    /\ a \in listed
    /\ listed' = listed \ {a}
    /\ QueueRequest(a)
    /\ UNCHANGED <<dbVars, jobs, sleeping, manual, task, client, strays, bounds>>

\* Mutant of CloseInterrupted: the next process leaves the jobs as they are.
CloseNothing == UNCHANGED jobs

\* fail_all_interrupted_jobs.
CloseInterrupted ==
    jobs' = [j \in JobIds |-> IF jobs[j].status = "running"
                              THEN [jobs[j] EXCEPT !.status = "failed"] ELSE jobs[j]]

\* The process ends at any point; the next one closes the jobs it left before
\* its queue resumes.
Restart ==
    /\ restarts < MaxRestarts
    /\ restarts' = restarts + 1
    /\ CloseInterrupted
    /\ queue' = [w \in Workspaces |-> <<>>]
    /\ turns' = <<>>
    /\ queued' = {}
    /\ sleeping' = {}
    /\ manual' = [a \in Artifacts |-> NoEntry]
    /\ task' = [s \in Slots |-> NoTask]
    /\ client' = [c \in Clients |-> NoClient]
    /\ listed' = NeedsIndex
    /\ strays' = {}
    /\ UNCHANGED <<dbVars, faults>>

-----------------------------------------------------------------------------
TaskStep(s) ==
    \/ Claim(s)
    \/ ReadBlob(s)
    \/ AnalyseFails(s)
    \/ WriteIndex(s)
    \/ Succeed(s)
    \/ FailManual(s)
    \/ ScheduleRetry(s)
    \/ GiveUp(s)
    \/ Unlist(s)
    \/ Forget(s)
    \/ CheckManual(s)
    \/ Requeue(s)

HandlerStep(c) ==
    \/ ReadSummary(c)
    \/ Enqueue(c)
    \/ ListAsked(c)
    \/ QueueAsked(c)

Next ==
    \/ \E c \in Clients, a \in Artifacts : Store(c, a) \/ AskForPass(c, a)
    \/ \E c \in Clients : HandlerStep(c) \/ Disconnect(c)
    \/ \E a \in Artifacts : DeleteArtifact(a) \/ ResumePush(a)
    \/ \E s \in Slots : Pick(s) \/ TaskStep(s)
    \/ \E r \in sleeping : WakeRetry(r)
    \/ ResumeList
    \/ Restart

Spec == Init /\ [][Next]_vars

\* Tokio keeps running a ready task, a delay ends, the dispatcher takes the
\* next request, the maintenance loop comes round.  Nobody has to upload, ask,
\* delete, disconnect or crash.
Fairness ==
    /\ \A c \in Clients : WF_vars(HandlerStep(c))
    /\ \A s \in Slots : WF_vars(TaskStep(s))
    /\ WF_vars(\E s \in Slots : Pick(s))
    /\ \A a \in Artifacts : WF_vars(\E r \in sleeping : r.file = a /\ WakeRetry(r))
    /\ WF_vars(ResumeList)
    /\ \A a \in Artifacts : WF_vars(ResumePush(a))

FairSpec == Spec /\ Fairness

-----------------------------------------------------------------------------
(* Properties *)

Holds(s, a) == task[s].phase \in Holding /\ task[s].file = a
Waits(a)    == \E w \in Workspaces : \E i \in DOMAIN queue[w] : queue[w][i].file = a
Sleeps(a)   == \E r \in sleeping : r.file = a

\* However many uploads, retries, resumes and requests meet, a file is worked
\* on by one task at a time: there is never a second waiting request, a second
\* scheduled retry or a second task for it.
OneTokenPerFile ==
    /\ \A s, t \in Slots, a \in Artifacts : Holds(s, a) /\ Holds(t, a) => s = t
    /\ \A r, q \in sleeping : r.file = q.file => r = q
    /\ \A w \in Workspaces : \A i, j \in DOMAIN queue[w] :
          queue[w][i].file = queue[w][j].file => i = j
    /\ \A a \in Artifacts :
          /\ ~(Waits(a) /\ Sleeps(a))
          /\ \A s \in Slots : Holds(s, a) => ~Waits(a) /\ ~Sleeps(a)

\* The mark in `queued` that makes queue_request drop a request is there
\* exactly while something will still work on the file: a mark left behind
\* would keep the file out of the index until the next restart.
MarksAreBacked ==
    \A a \in Artifacts :
        a \in queued <=> Waits(a) \/ Sleeps(a) \/ \E s \in Slots : Holds(s, a)

\* FairIndexQueue keeps two structures in step: the workspaces with requests
\* are those with a turn, once each, and hold only their own files' requests.
\* A workspace without a turn would wait for ever.
TurnsMatchQueues ==
    /\ \A i, j \in DOMAIN turns : turns[i] = turns[j] => i = j
    /\ \A w \in Workspaces : queue[w] # <<>> <=> \E i \in DOMAIN turns : turns[i] = w
    /\ \A w \in Workspaces : \A i \in DOMAIN queue[w] : WorkspaceOf[queue[w][i].file] = w

\* The requests a file may have: in the queue, in a task's hands, asleep.
Waiting == UNION {{queue[w][i] : i \in DOMAIN queue[w]} : w \in Workspaces}
Held(s) == [file |-> task[s].file, attempt |-> task[s].attempt]
Working == {Held(s) : s \in {t \in Slots : task[t].phase \in Holding}}

Flight == INSTANCE SingleFlight
              WITH Things <- Artifacts, Retries <- MaxRetries,
                   waiting <- Waiting, working <- Working, resting <- sleeping

\* "A failed attempt is retried after each of these delays, then given up on":
\* a file's request goes from the queue to a task, from a failed task through
\* one delay back to the queue, keeps count of its attempts on the way, and is
\* over before the file has another.
OneFlight == Flight!Spec

Taken == \E s \in Slots : task[s].phase = "idle" /\ task'[s].phase = "picked"

\* A busy workspace takes turns with the others: each request taken brings
\* every other waiting workspace one turn nearer, and nothing sets one back.
TurnsComeRound ==
    [][restarts' = restarts =>
         \A i \in 2..Len(turns) :
            LET j == IF Taken THEN i - 1 ELSE i
            IN  j \in DOMAIN turns' /\ turns'[j] = turns[i]]_vars

\* A slow pass of the queue never writes passages over those of a newer
\* content: its passes over one file are one after another, so what they make
\* searchable only advances.
ChunksNeverGoBack ==
    [][\A a \in Artifacts : content'[a] # Deleted => chunksOf'[a] >= chunksOf[a]]_vars

Running(j)  == jobs[j].status = "running"
WorksFor(s, j) == task[s].job = j /\ task[s].phase \in InHand /\ task[s].file = jobs[j].file

Owned(j) ==
    \/ \E c \in Clients : client[c].phase = "made" /\ client[c].job = j
    \/ manual[jobs[j].file] = [job |-> j, pending |-> TRUE]
    \/ \E s \in Slots : WorksFor(s, j)

\* A running job is in the hands of the handler that makes it, of its waiting
\* entry or of a task, which will close it, at any number of permits.  Only three
\* events make strays: its handler ends before the entry, closing it fails, or
\* the pass of an earlier request removes its entry.
JobsAreOwned == \A j \in JobIds : Running(j) => j \in strays \/ Owned(j)

\* A task works for the job although the file's entry is gone or another's.
Overtaken(j) == \E s \in Slots : WorksFor(s, j) /\ manual[jobs[j].file].job # j

\* Asking again makes no second job, with any number of permits, but for strays
\* and for one that waits while an overtaken one is worked on.
OneJobPerFile ==
    \A j, k \in JobIds \ strays :
        Running(j) /\ Running(k) /\ jobs[j].file = jobs[k].file /\ j # k
            => (Overtaken(j) <=> ~Overtaken(k))

\* A person's job ends, completed or failed: the entry is claimed by the pass
\* that is on its way or queued again when that pass had already begun.  Only a
\* stray waits for the next start.
JobsEnd == \A j \in JobIds : Running(j) ~> ~Running(j) \/ j \in strays

\* A stored file does not stay unindexed in silence: it gets an index or a
\* recorded failure, whichever of upload, crash, disconnect and retry meet.
FilesSettle ==
    \A a \in Artifacts :
        Stored(a) /\ ~indexedAt[a] ~> indexedAt[a] \/ a \in failure \/ ~Stored(a)

\* replace_artifact_content: the file "is indexed again", so the new content
\* reaches the index, unless its indexing is recorded as failed.
ReplacedContentIsIndexed ==
    \A a \in Artifacts, n \in 1..MaxContent :
        content[a] = n ~> chunksOf[a] >= n \/ a \in failure \/ ~Stored(a)
=============================================================================
