----------------------------- MODULE Embedding -----------------------------
(***************************************************************************)
(* The background embedding of passages: apps/server/src/embedding.rs (the *)
(* queue and its worker), crates/api/src/embeddings.rs (a pass),           *)
(* crates/api/src/budget.rs (the daily allowance) and the rows they read   *)
(* and write (crates/storage/src/search.rs).                               *)
(*                                                                         *)
(* Whoever writes passages or changes a provider requests its workspace.   *)
(* A workspace waits at most once; the worker takes the next one from the  *)
(* channel when it has a permit, takes it out of `waiting` and spawns a    *)
(* pass, which embeds the missing passages batch by batch and, after       *)
(* MaxBatches, requests its own workspace again.  Every database statement *)
(* or transaction and every answer of the provider is a step.              *)
(***************************************************************************)
EXTENDS Naturals, Sequences, FiniteSets

CONSTANTS
    Workspaces,
    Passages,        \* numbers, in the order of (artifact, chunk_index)
    WorkspaceOf,
    Models,
    Permits,         \* `concurrency` of the worker
    Tasks,           \* indexing tasks and syncs, which request when they are done
    Handlers,        \* requests of people, dropped with their connection
    Batch,           \* EMBED_BATCH
    MaxBatches,      \* of a pass, before it yields
    DailyLimit,      \* background calls of a workspace a day; 0 is no limit
    MaxDays,         \* bound: midnights
    MaxEdits,        \* bound: saved providers and rebuilds
    MaxFaults,       \* bound: failures, cancellations, lost requests, restarts
    None

ASSUME ConstantsOK ==
    /\ Passages \subseteq Nat /\ IsFiniteSet(Passages)
    /\ WorkspaceOf \in [Passages -> Workspaces]
    /\ Batch \in Nat \ {0} /\ MaxBatches \in Nat \ {0} /\ DailyLimit \in Nat
    /\ {MaxDays, MaxEdits, MaxFaults} \subseteq Nat
    /\ None \notin Workspaces \cup Models \cup Passages
    /\ Tasks \cap Handlers = {}

Callers == Tasks \cup Handlers

VARIABLES
    passage,    \* a passage's row: "unborn", "live" or "gone" (ids are never used again)
    vector,     \* the model of a passage's row in chunk_embeddings
    provider,   \* the model of a workspace's enabled embedding provider
    leftover,   \* workspaces with a running job that no pass works for
    waiting,    \* EmbeddingQueue::waiting
    channel,    \* the unbounded channel to the worker
    held,       \* what the worker has received and has no permit for yet
    pass,       \* what each permit's pass does
    caller,     \* who is about to request a workspace
    spent,      \* BackgroundAiBudget: calls of today
    days, edits, faults,
    letOff      \* history: workspaces whose last pass or request ended in a fault

rowVars == <<passage, vector, provider>>
queueVars == <<waiting, channel, held>>
bounds == <<days, edits, faults>>
vars == <<rowVars, leftover, queueVars, pass, caller, spent, bounds, letOff>>

Passes == [phase: {"idle", "begun", "counting", "looking", "asking", "stored"},
           ws: Workspaces \cup {None}, model: Models \cup {None},
           missing: Nat, completed: Nat, batches: Nat,
           batch: SUBSET Passages, cancelled: BOOLEAN]
NoPass == [phase |-> "idle", ws |-> None, model |-> None, missing |-> 0, completed |-> 0,
           batches |-> 0, batch |-> {}, cancelled |-> FALSE]
Requests == [phase: {"idle", "checked", "due"}, ws: Workspaces \cup {None}]
NoRequest == [phase |-> "idle", ws |-> None]

TypeOK ==
    /\ passage \in [Passages -> {"unborn", "live", "gone"}]
    /\ vector \in [Passages -> Models \cup {None}]
    /\ provider \in [Workspaces -> Models \cup {None}]
    /\ leftover \subseteq Workspaces /\ waiting \subseteq Workspaces /\ letOff \subseteq Workspaces
    /\ channel \in Seq(Workspaces) /\ held \in Workspaces \cup {None}
    /\ pass \in [Permits -> Passes]
    /\ \A s \in Permits : (pass[s].phase = "idle") = (pass[s].ws = None)
    /\ caller \in [Callers -> Requests]
    /\ \A c \in Callers : (caller[c].phase = "idle") = (caller[c].ws = None)
    /\ spent \in [Workspaces -> Nat]
    /\ days \in 0..MaxDays /\ edits \in 0..MaxEdits /\ faults \in 0..MaxFaults

Init ==
    /\ passage = [p \in Passages |-> "unborn"]
    /\ vector = [p \in Passages |-> None]
    /\ provider \in [Workspaces -> Models \cup {None}]
    /\ leftover = {} /\ waiting = {} /\ channel = <<>> /\ held = None
    /\ pass = [s \in Permits |-> NoPass]
    /\ caller = [c \in Callers |-> NoRequest]
    /\ spent = [w \in Workspaces |-> 0]
    /\ days = 0 /\ edits = 0 /\ faults = 0 /\ letOff = {}

Live(w) == {p \in Passages : WorkspaceOf[p] = w /\ passage[p] = "live"}
Missing(w, m) == {p \in Live(w) : vector[p] # m}
Embedded(w, m) == {p \in Live(w) : vector[p] = m}
Working(s) == pass[s].phase # "idle"

\* A count, kept only up to the number it is compared with.
AtMost(n, limit) == IF n <= limit THEN n ELSE limit

Fault == faults < MaxFaults /\ faults' = faults + 1
Edit == edits < MaxEdits /\ edits' = edits + 1

-----------------------------------------------------------------------------
(* The queue *)

\* Mutant of Queue: a request for a workspace at work is coalesced too.
QueueIfIdle(w) ==
    IF w \in waiting \/ \E s \in Permits : pass[s].ws = w
    THEN UNCHANGED <<waiting, channel>>
    ELSE waiting' = waiting \cup {w} /\ channel' = Append(channel, w)

\* Mutant of Queue: a workspace that waits already is queued again.
QueueAlways(w) == waiting' = waiting \cup {w} /\ channel' = Append(channel, w)

\* EmbeddingQueue::request: a workspace that waits already is not queued again.
Queue(w) ==
    IF w \in waiting
    THEN UNCHANGED <<waiting, channel>>
    ELSE waiting' = waiting \cup {w} /\ channel' = Append(channel, w)

\* The worker receives the next workspace and waits for a permit.
Receive ==
    /\ held = None /\ channel # <<>>
    /\ held' = Head(channel)
    /\ channel' = Tail(channel)
    /\ UNCHANGED <<rowVars, leftover, waiting, pass, caller, spent, bounds, letOff>>

\* Mutant of Spawn: the workspace is still in `waiting` while its pass runs.
SpawnWaiting(s) ==
    /\ held # None /\ ~Working(s)
    /\ held' = None
    /\ pass' = [pass EXCEPT ![s] = [NoPass EXCEPT !.phase = "begun", !.ws = held]]
    /\ letOff' = letOff \ {held}
    /\ UNCHANGED <<rowVars, leftover, waiting, channel, caller, spent, bounds>>

\* With a permit: out of `waiting` first, then the pass is spawned.
Spawn(s) ==
    /\ held # None /\ ~Working(s)
    /\ waiting' = waiting \ {held}
    /\ held' = None
    /\ pass' = [pass EXCEPT ![s] = [NoPass EXCEPT !.phase = "begun", !.ws = held]]
    /\ letOff' = letOff \ {held}
    /\ UNCHANGED <<rowVars, leftover, channel, caller, spent, bounds>>

-----------------------------------------------------------------------------
(* A pass: embed_missing_chunks_limited *)

\* Mutant of End: the permit's record is not reset.
EndInPlace(s) == pass' = [pass EXCEPT ![s].phase = "idle"]

\* It returns, and its permit is free.
End(s) == pass' = [pass EXCEPT ![s] = NoPass]

\* The provider's settings; without an enabled one there is nothing to do.
ReadProvider(s) ==
    LET m == provider[pass[s].ws] IN
    /\ pass[s].phase = "begun"
    /\ IF m = None THEN End(s)
       ELSE pass' = [pass EXCEPT ![s].phase = "counting", ![s].model = m]
    /\ UNCHANGED <<rowVars, leftover, queueVars, caller, spent, bounds, letOff>>

\* embedding_coverage; when something is missing a job is made for it.
Count(s) ==
    LET n == Cardinality(Missing(pass[s].ws, pass[s].model)) IN
    /\ pass[s].phase = "counting"
    /\ IF n = 0 THEN End(s) ELSE pass' = [pass EXCEPT ![s].phase = "looking", ![s].missing = n]
    /\ UNCHANGED <<rowVars, leftover, queueVars, caller, spent, bounds, letOff>>

\* The first Batch of the missing passages.
NextBatch(w, m) ==
    {p \in Missing(w, m) : Cardinality({q \in Missing(w, m) : q < p}) < Batch}

\* try_spend: nothing is spent when it would go over the limit.
Affordable(w) == DailyLimit = 0 \/ spent[w] < DailyLimit

\* The next batch goes to the provider; nothing is missing: the job is completed;
\* the allowance is used up: the job failed for today.
Look(s) ==
    LET w == pass[s].ws
        b == NextBatch(w, pass[s].model)
    IN
    /\ pass[s].phase = "looking"
    /\ ~pass[s].cancelled
    /\ IF b # {} /\ Affordable(w)
       THEN /\ pass' = [pass EXCEPT ![s].phase = "asking", ![s].batch = b]
            /\ spent' = IF DailyLimit = 0 THEN spent ELSE [spent EXCEPT ![w] = @ + 1]
            /\ UNCHANGED letOff
       ELSE /\ End(s)
            /\ letOff' = IF b = {} THEN letOff ELSE letOff \cup {w}
            /\ UNCHANGED spent
    /\ UNCHANGED <<rowVars, leftover, queueVars, caller, bounds>>

\* A person cancels the running job; the pass sees it before its next batch.
Cancel(s) ==
    /\ pass[s].phase \in {"looking", "asking", "stored"}
    /\ ~pass[s].cancelled
    /\ Fault
    /\ pass' = [pass EXCEPT ![s].cancelled = TRUE]
    /\ UNCHANGED <<rowVars, leftover, queueVars, caller, spent, days, edits, letOff>>

StopCancelled(s) ==
    /\ pass[s].phase = "looking"
    /\ pass[s].cancelled
    /\ End(s)
    /\ letOff' = letOff \cup {pass[s].ws}
    /\ UNCHANGED <<rowVars, leftover, queueVars, caller, spent, bounds>>

\* The provider fails: the job records the reason.
ProviderFails(s) ==
    /\ pass[s].phase = "asking"
    /\ Fault
    /\ End(s)
    /\ letOff' = letOff \cup {pass[s].ws}
    /\ UNCHANGED <<rowVars, leftover, queueVars, caller, spent, days, edits>>

\* upsert_embeddings, one transaction: the answer's vectors are stored.
StoreVectors(s) ==
    /\ pass[s].phase = "asking"
    /\ pass[s].batch \subseteq Live(pass[s].ws)
    /\ vector' = [p \in Passages |-> IF p \in pass[s].batch THEN pass[s].model ELSE vector[p]]
    /\ pass' = [pass EXCEPT ![s].phase = "stored"]
    /\ UNCHANGED <<passage, provider, leftover, queueVars, caller, spent, bounds, letOff>>

\* A passage of the batch is gone: the foreign key fails the whole transaction,
\* the error leaves through `?`, and nobody closes the job.
StoreFails(s) ==
    /\ pass[s].phase = "asking"
    /\ ~(pass[s].batch \subseteq Live(pass[s].ws))
    /\ End(s)
    /\ leftover' = leftover \cup {pass[s].ws}
    /\ letOff' = letOff \cup {pass[s].ws}
    /\ UNCHANGED <<rowVars, queueVars, caller, spent, bounds>>

\* Mutant of Proceed: a pass that yields does not ask for its next turn.
ProceedOrStop(s) ==
    LET done == pass[s].completed + Cardinality(pass[s].batch)
        yields == pass[s].batches + 1 >= MaxBatches /\ done < pass[s].missing
    IN
    /\ pass[s].phase = "stored"
    /\ IF yields THEN End(s)
       ELSE pass' = [pass EXCEPT ![s].phase = "looking", ![s].batch = {},
                                 ![s].completed = AtMost(done, pass[s].missing),
                                 ![s].batches = AtMost(@ + 1, MaxBatches)]
    /\ UNCHANGED <<rowVars, leftover, queueVars, caller, spent, bounds, letOff>>

\* The batch is counted.  A pass that has done its batches and was not asked to
\* do fewer passages requests its workspace again and gives the permit back.
Proceed(s) ==
    LET done == pass[s].completed + Cardinality(pass[s].batch)
        yields == pass[s].batches + 1 >= MaxBatches /\ done < pass[s].missing
    IN
    /\ pass[s].phase = "stored"
    /\ IF yields THEN End(s) /\ Queue(pass[s].ws)
       ELSE /\ pass' = [pass EXCEPT ![s].phase = "looking", ![s].batch = {},
                                    ![s].completed = AtMost(done, pass[s].missing),
                                    ![s].batches = AtMost(@ + 1, MaxBatches)]
            /\ UNCHANGED <<waiting, channel>>
    /\ UNCHANGED <<rowVars, leftover, held, caller, spent, bounds, letOff>>

-----------------------------------------------------------------------------
(* Who requests a workspace *)

\* A file is indexed again: some passages of its workspace go, others are new.
\* The task or sync that did it requests the workspace afterwards.
IndexFile(c, w, old, new) ==
    /\ caller[c].phase = "idle"
    /\ old \subseteq Live(w)
    /\ new # {} /\ \A p \in new : WorkspaceOf[p] = w /\ passage[p] = "unborn"
    /\ passage' = [p \in Passages |-> IF p \in old THEN "gone" ELSE IF p \in new THEN "live" ELSE passage[p]]
    /\ vector' = [p \in Passages |-> IF p \in old THEN None ELSE vector[p]]
    /\ caller' = [caller EXCEPT ![c] = [phase |-> "due", ws |-> w]]
    /\ UNCHANGED <<provider, leftover, queueVars, pass, spent, bounds, letOff>>

\* Passages go with their file; nobody requests anything.
DeleteFile(w, old) ==
    /\ old # {} /\ old \subseteq Live(w)
    /\ passage' = [p \in Passages |-> IF p \in old THEN "gone" ELSE passage[p]]
    /\ vector' = [p \in Passages |-> IF p \in old THEN None ELSE vector[p]]
    /\ UNCHANGED <<provider, leftover, queueVars, pass, caller, spent, bounds, letOff>>

\* A person saves the workspace's provider: another model, or disabled.
SaveProvider(c, w, m) ==
    /\ caller[c].phase = "idle"
    /\ m # provider[w]
    /\ Edit
    /\ provider' = [provider EXCEPT ![w] = m]
    /\ caller' = [caller EXCEPT ![c] = IF m = None THEN NoRequest ELSE [phase |-> "due", ws |-> w]]
    /\ UNCHANGED <<passage, vector, leftover, queueVars, pass, spent, days, faults, letOff>>

\* "embeddings rebuild" of the console refuses while an embedding job runs, ...
CheckRebuild(c, w) ==
    /\ caller[c].phase = "idle"
    /\ provider[w] # None
    /\ w \notin leftover
    /\ \A s \in Permits : pass[s].ws = w => pass[s].phase \in {"begun", "counting"}
    /\ Edit
    /\ caller' = [caller EXCEPT ![c] = [phase |-> "checked", ws |-> w]]
    /\ UNCHANGED <<rowVars, leftover, queueVars, pass, spent, days, faults, letOff>>

\* ... then removes the workspace's vectors, and requests it.
ClearVectors(c) ==
    /\ caller[c].phase = "checked"
    /\ vector' = [p \in Passages |-> IF WorkspaceOf[p] = caller[c].ws THEN None ELSE vector[p]]
    /\ caller' = [caller EXCEPT ![c].phase = "due"]
    /\ UNCHANGED <<passage, provider, leftover, queueVars, pass, spent, bounds, letOff>>

Request(c) ==
    /\ caller[c].phase = "due"
    /\ Queue(caller[c].ws)
    /\ caller' = [caller EXCEPT ![c] = NoRequest]
    /\ UNCHANGED <<rowVars, leftover, held, pass, spent, bounds, letOff>>

\* A handler is dropped before it requests, or a sync fails after it has
\* indexed files: only the next request helps.
LoseRequest(c) ==
    /\ caller[c].phase # "idle"
    /\ Fault
    /\ letOff' = letOff \cup {caller[c].ws}
    /\ caller' = [caller EXCEPT ![c] = NoRequest]
    /\ UNCHANGED <<rowVars, leftover, queueVars, pass, spent, days, edits>>

\* Maintenance and the start request every workspace (resume_pending).
Resume(w) ==
    /\ w \notin waiting
    /\ Queue(w)
    /\ UNCHANGED <<rowVars, leftover, held, pass, caller, spent, bounds, letOff>>

\* The next day of try_spend.
Midnight ==
    /\ days < MaxDays
    /\ days' = days + 1
    /\ spent' = [w \in Workspaces |-> 0]
    /\ UNCHANGED <<rowVars, leftover, queueVars, pass, caller, edits, faults, letOff>>

\* The memory is gone, running jobs are closed, the allowance starts again.
Restart ==
    /\ Fault
    /\ leftover' = {} /\ waiting' = {} /\ channel' = <<>> /\ held' = None
    /\ pass' = [s \in Permits |-> NoPass]
    /\ caller' = [c \in Callers |-> NoRequest]
    /\ spent' = [w \in Workspaces |-> 0]
    /\ letOff' = Workspaces
    /\ UNCHANGED <<rowVars, days, edits>>

-----------------------------------------------------------------------------
PassStep(s) ==
    \/ ReadProvider(s) \/ Count(s) \/ Look(s) \/ StopCancelled(s)
    \/ StoreVectors(s) \/ StoreFails(s) \/ Proceed(s)

PeopleStep(c) ==
    \/ \E w \in Workspaces, m \in Models \cup {None} : SaveProvider(c, w, m)
    \/ \E w \in Workspaces : CheckRebuild(c, w)

FileStep ==
    \E w \in Workspaces, old \in SUBSET Passages :
        \/ DeleteFile(w, old)
        \/ \E c \in Tasks, new \in SUBSET Passages : IndexFile(c, w, old, new)

\* The steps that no copy of the vectors takes part in (see VectorIndex).
Quiet ==
    \/ Receive
    \/ \E s \in Permits :
        \/ Spawn(s) \/ ReadProvider(s) \/ Count(s) \/ Look(s)
        \/ Cancel(s) \/ StopCancelled(s) \/ ProviderFails(s) \/ StoreFails(s)
    \/ \E c \in Handlers : PeopleStep(c)
    \/ \E c \in Callers : Request(c) \/ LoseRequest(c)
    \/ \E w \in Workspaces : Resume(w)
    \/ FileStep
    \/ Midnight

Next ==
    \/ Quiet
    \/ \E s \in Permits : StoreVectors(s) \/ Proceed(s)
    \/ \E c \in Handlers : ClearVectors(c)
    \/ Restart

Spec == Init /\ [][Next]_vars

\* The runtime polls the worker, the passes and the tasks; a person's handler
\* goes on until it is dropped, and maintenance comes round.
Fairness ==
    /\ WF_vars(Receive)
    /\ \A s \in Permits : WF_vars(Spawn(s)) /\ WF_vars(PassStep(s))
    /\ \A c \in Handlers : WF_vars(ClearVectors(c))
    /\ \A c \in Callers : WF_vars(Request(c))
    /\ \A w \in Workspaces : WF_vars(Resume(w))

FairSpec == Spec /\ Fairness

-----------------------------------------------------------------------------
(* Properties *)

\* The workspaces in the order the worker takes them.
Line == (IF held = None THEN <<>> ELSE <<held>>) \o channel

\* A workspace waits exactly when it is once in the worker's line: none is in
\* `waiting` without anybody coming for it (it could never be requested again),
\* and none is in line twice.
WaitingIsQueued ==
    /\ \A i, j \in DOMAIN Line : Line[i] = Line[j] => i = j
    /\ {Line[i] : i \in DOMAIN Line} = waiting

Behind == {w \in Workspaces : provider[w] # None /\ Missing(w, provider[w]) # {}}

\* Who is going to embed a workspace: its entry in the queue, a pass that has
\* not read the provider yet or works with its model, somebody who is about to
\* request it, or, after a fault, the next maintenance.
Asked(w) == \E c \in Callers : caller[c].ws = w
AtWork(w) == \E s \in Permits : pass[s].ws = w /\ (pass[s].phase = "begun" \/ pass[s].model = provider[w])
Arranged == {w \in Workspaces : w \in waiting \/ Asked(w) \/ AtWork(w) \/ w \in letOff}

\* A workspace with passages that have no vector of its provider's model is
\* never forgotten: the request made while its pass ran is not lost, nor is
\* the turn that a pass gives up.
MissingIsRequested == Behind \subseteq Arranged

\* The queue keeps the vectors up the way Upkeep promises.
Vectors == INSTANCE Upkeep WITH Things <- Workspaces, behind <- Behind, arranged <- Arranged
KeepsVectorsUp == Vectors!Spec

\* "every chunk without a vector from the current embedding model" is embedded
\* in the end, when faults, edits and new passages end: or the allowance is used up.
PassagesAreEmbedded ==
    \A w \in Workspaces : <>[](provider[w] # None => Missing(w, provider[w]) = {} \/ ~Affordable(w))

=============================================================================
