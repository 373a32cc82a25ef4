-------------------------- MODULE IndexQueue_proofs --------------------------
(***************************************************************************)
(* The safety of IndexQueue for every number of files, workspaces,         *)
(* permits, handlers, contents and retries.                                *)
(***************************************************************************)
EXTENDS IndexQueue, TLAPS

\* What keeps a file's request unique, together with the marks it rests on.
Tokens == OneTokenPerFile /\ MarksAreBacked /\ TurnsMatchQueues

QueueTypes == queue \in [Workspaces -> Seq(Requests)] /\ turns \in Seq(Workspaces)

-----------------------------------------------------------------------------
(* The fair queue *)

\* Push adds its file to those waiting, at the end of its workspace's queue.
LEMMA PushKeeps ==
    ASSUME QueueTypes, TurnsMatchQueues, NEW r \in Requests, Push(r), ~Waits(r.file),
           \A w \in Workspaces : \A i, j \in DOMAIN queue[w] :
              queue[w][i].file = queue[w][j].file => i = j
    PROVE  /\ QueueTypes'
           /\ TurnsMatchQueues'
           /\ \A w \in Workspaces : \A i, j \in DOMAIN queue[w]' :
                 queue[w][i].file' = queue[w][j].file' => i = j
           /\ \A a \in Artifacts : Waits(a)' <=> Waits(a) \/ a = r.file
<1> DEFINE v == WorkspaceOf[r.file]
<1>1. v \in Workspaces /\ r.file \in Artifacts
  BY ConstantsOK DEF Requests
<1>2. /\ queue' = [queue EXCEPT ![v] = Append(@, r)]
      /\ turns' = IF queue[v] = <<>> THEN Append(turns, v) ELSE turns
  BY DEF Push
<1>3. QueueTypes'
  BY <1>1, <1>2 DEF QueueTypes
<1>4. /\ queue[v] \in Seq(Requests)
      /\ queue'[v] = Append(queue[v], r)
      /\ \A w \in Workspaces : w # v => queue'[w] = queue[w]
  BY <1>1, <1>2 DEF QueueTypes
<1>5. /\ DOMAIN queue'[v] = 1..(Len(queue[v]) + 1)
      /\ \A i \in 1..Len(queue[v]) : queue'[v][i] = queue[v][i]
      /\ queue'[v][Len(queue[v]) + 1] = r
      /\ DOMAIN queue[v] = 1..Len(queue[v])
      /\ Len(queue[v]) \in Nat
  BY <1>4
<1>6. \A a \in Artifacts : Waits(a)' <=> Waits(a) \/ a = r.file
  <2> SUFFICES ASSUME NEW a \in Artifacts
               PROVE  Waits(a)' <=> Waits(a) \/ a = r.file
    OBVIOUS
  <2>1. ASSUME Waits(a)'
        PROVE  Waits(a) \/ a = r.file
    <3>1. PICK w \in Workspaces : \E i \in DOMAIN queue'[w] : queue'[w][i].file = a
      BY <2>1 DEF Waits
    <3>2. PICK i \in DOMAIN queue'[w] : queue'[w][i].file = a
      BY <3>1
    <3>3. CASE w # v
      BY <3>2, <3>3, <1>4 DEF Waits
    <3>4. CASE w = v
      BY <3>2, <3>4, <1>1, <1>5, SMTT(20) DEF Waits
    <3> QED BY <3>3, <3>4
  <2>2. ASSUME Waits(a)
        PROVE  Waits(a)'
    <3>1. PICK w \in Workspaces : \E i \in DOMAIN queue[w] : queue[w][i].file = a
      BY <2>2 DEF Waits
    <3>2. PICK i \in DOMAIN queue[w] : queue[w][i].file = a
      BY <3>1
    <3>3. i \in DOMAIN queue'[w] /\ queue'[w][i].file = a
      <4>1. CASE w # v
        BY <4>1, <3>2, <1>4
      <4>2. CASE w = v
        BY <4>2, <3>2, <1>5
      <4> QED BY <4>1, <4>2
    <3> QED BY <3>3 DEF Waits
  <2>3. r.file = a => Waits(a)'
    BY <1>1, <1>5 DEF Waits
  <2> QED BY <2>1, <2>2, <2>3
<1>7. \A w \in Workspaces : \A i, j \in DOMAIN queue[w]' :
         queue[w][i].file' = queue[w][j].file' => i = j
  <2> SUFFICES ASSUME NEW w \in Workspaces, NEW i \in DOMAIN queue'[w], NEW j \in DOMAIN queue'[w],
                      queue'[w][i].file = queue'[w][j].file
               PROVE  i = j
    OBVIOUS
  <2>1. CASE w # v
    BY <2>1, <1>4
  <2>2. CASE w = v
    <3>1. \A k \in 1..Len(queue[v]) : queue[v][k].file # r.file
      BY <1>1, <1>5 DEF Waits
    <3>2. CASE i \in 1..Len(queue[v]) /\ j \in 1..Len(queue[v])
      BY <2>2, <3>2, <1>1, <1>5
    <3>3. CASE i = Len(queue[v]) + 1 /\ j \in 1..Len(queue[v])
      BY <2>2, <3>1, <3>3, <1>5
    <3>4. CASE i \in 1..Len(queue[v]) /\ j = Len(queue[v]) + 1
      BY <2>2, <3>1, <3>4, <1>5
    <3>5. CASE i = Len(queue[v]) + 1 /\ j = Len(queue[v]) + 1
      BY <3>5
    <3>6. i \in 1..(Len(queue[v]) + 1) /\ j \in 1..(Len(queue[v]) + 1)
      BY <2>2, <1>5
    <3> QED BY <3>2, <3>3, <3>4, <3>5, <3>6, <1>5
  <2> QED BY <2>1, <2>2
<1>8. TurnsMatchQueues'
  <2>1. \A w \in Workspaces : \A i \in DOMAIN queue'[w] : WorkspaceOf[queue'[w][i].file] = w
    <3> SUFFICES ASSUME NEW w \in Workspaces, NEW i \in DOMAIN queue'[w]
                 PROVE  WorkspaceOf[queue'[w][i].file] = w
      OBVIOUS
    <3>1. CASE w # v
      BY <3>1, <1>4 DEF TurnsMatchQueues
    <3>2. CASE w = v /\ i \in 1..Len(queue[v])
      BY <3>2, <1>1, <1>5 DEF TurnsMatchQueues
    <3>3. CASE w = v /\ i = Len(queue[v]) + 1
      BY <3>3, <1>5
    <3> QED BY <3>1, <3>2, <3>3, <1>5
  <2>2. queue'[v] # <<>>
    BY <1>5
  <2>3. CASE queue[v] = <<>>
    <3>1. turns' = Append(turns, v)
      BY <2>3, <1>2
    <3>2. /\ Len(turns) \in Nat
          /\ DOMAIN turns = 1..Len(turns)
          /\ DOMAIN turns' = 1..(Len(turns) + 1)
          /\ \A i \in 1..Len(turns) : turns'[i] = turns[i]
          /\ turns'[Len(turns) + 1] = v
      BY <3>1, <1>1 DEF QueueTypes
    <3>3. \A i \in 1..Len(turns) : turns[i] # v
      BY <2>3, <1>1, <3>2 DEF TurnsMatchQueues
    <3>4. \A i, j \in DOMAIN turns' : turns'[i] = turns'[j] => i = j
      BY <3>2, <3>3 DEF TurnsMatchQueues
    <3>5. \A w \in Workspaces : queue'[w] # <<>> <=> \E i \in DOMAIN turns' : turns'[i] = w
      <4> SUFFICES ASSUME NEW w \in Workspaces
                   PROVE  queue'[w] # <<>> <=> \E i \in DOMAIN turns' : turns'[i] = w
        OBVIOUS
      <4>1. CASE w = v
        BY <4>1, <3>2, <2>2
      <4>2. CASE w # v
        BY <4>2, <3>2, <1>4 DEF TurnsMatchQueues
      <4> QED BY <4>1, <4>2
    <3> QED BY <2>1, <3>4, <3>5 DEF TurnsMatchQueues
  <2>4. CASE queue[v] # <<>>
    <3>1. turns' = turns
      BY <2>4, <1>2
    <3>2. \A w \in Workspaces : queue'[w] # <<>> <=> queue[w] # <<>>
      BY <1>4, <2>2, <2>4
    <3> QED BY <2>1, <3>1, <3>2 DEF TurnsMatchQueues
  <2> QED BY <2>3, <2>4
<1> QED BY <1>3, <1>6, <1>7, <1>8

\* Pop takes a waiting file out, the oldest of the first workspace.
LEMMA PopKeeps ==
    ASSUME QueueTypes, TurnsMatchQueues, Pop,
           \A w \in Workspaces : \A i, j \in DOMAIN queue[w] :
              queue[w][i].file = queue[w][j].file => i = j
    PROVE  LET r == Head(queue[Head(turns)]) IN
           /\ QueueTypes'
           /\ TurnsMatchQueues'
           /\ \A w \in Workspaces : \A i, j \in DOMAIN queue[w]' :
                 queue[w][i].file' = queue[w][j].file' => i = j
           /\ r \in Requests
           /\ Waits(r.file)
           /\ \A a \in Artifacts : Waits(a)' <=> Waits(a) /\ a # r.file
<1> DEFINE v == Head(turns)
           r == Head(queue[v])
           n == Len(queue[v])
<1>1. /\ turns # <<>>
      /\ queue' = [queue EXCEPT ![v] = Tail(@)]
      /\ turns' = IF Tail(queue[v]) = <<>> THEN Tail(turns) ELSE Append(Tail(turns), v)
  BY DEF Pop
<1>2. /\ v \in Workspaces
      /\ Len(turns) \in Nat \ {0}
      /\ DOMAIN turns = 1..Len(turns)
      /\ turns[1] = v
      /\ Tail(turns) \in Seq(Workspaces)
      /\ DOMAIN Tail(turns) = 1..(Len(turns) - 1)
      /\ Len(Tail(turns)) = Len(turns) - 1
      /\ \A i \in 1..(Len(turns) - 1) : Tail(turns)[i] = turns[i + 1]
  BY <1>1 DEF QueueTypes
<1>3. queue[v] \in Seq(Requests) /\ queue[v] # <<>>
  <2>1. queue[v] \in Seq(Requests)
    BY <1>2 DEF QueueTypes
  <2>2. 1 \in DOMAIN turns /\ turns[1] = v
    BY <1>2
  <2>3. queue[v] # <<>>
    BY <1>2, <2>2 DEF TurnsMatchQueues
  <2> QED BY <2>1, <2>3
<1>4. /\ n \in Nat \ {0}
      /\ DOMAIN queue[v] = 1..n
      /\ queue[v][1] = r
      /\ r \in Requests
      /\ Tail(queue[v]) \in Seq(Requests)
      /\ DOMAIN Tail(queue[v]) = 1..(n - 1)
      /\ \A i \in 1..(n - 1) : Tail(queue[v])[i] = queue[v][i + 1]
  BY <1>3
<1>5. /\ queue'[v] = Tail(queue[v])
      /\ \A w \in Workspaces : w # v => queue'[w] = queue[w]
  BY <1>1, <1>2 DEF QueueTypes
<1>6. QueueTypes'
  <2>1. turns' \in Seq(Workspaces)
    BY <1>1, <1>2
  <2> QED BY <2>1, <1>1, <1>4 DEF QueueTypes
<1>7. Waits(r.file)
  BY <1>2, <1>4 DEF Waits
<1>8. \A w \in Workspaces : \A i \in DOMAIN queue[w] :
         queue[w][i].file = r.file => w = v /\ i = 1
  BY <1>2, <1>4 DEF TurnsMatchQueues
<1>9. \A a \in Artifacts : Waits(a)' <=> Waits(a) /\ a # r.file
  <2> SUFFICES ASSUME NEW a \in Artifacts
               PROVE  Waits(a)' <=> Waits(a) /\ a # r.file
    OBVIOUS
  <2>1. ASSUME Waits(a)'
        PROVE  Waits(a) /\ a # r.file
    <3>1. PICK w \in Workspaces : \E i \in DOMAIN queue'[w] : queue'[w][i].file = a
      BY <2>1 DEF Waits
    <3>2. PICK i \in DOMAIN queue'[w] : queue'[w][i].file = a
      BY <3>1
    <3>3. CASE w # v
      BY <3>2, <3>3, <1>5, <1>8 DEF Waits
    <3>4. CASE w = v
      <4>1. i + 1 \in DOMAIN queue[v] /\ queue[v][i + 1].file = a /\ i + 1 # 1
        BY <3>2, <3>4, <1>4, <1>5
      <4> QED BY <4>1, <1>2, <1>8 DEF Waits
    <3> QED BY <3>3, <3>4
  <2>2. ASSUME Waits(a), a # r.file
        PROVE  Waits(a)'
    <3>1. PICK w \in Workspaces : \E i \in DOMAIN queue[w] : queue[w][i].file = a
      BY <2>2 DEF Waits
    <3>2. PICK i \in DOMAIN queue[w] : queue[w][i].file = a
      BY <3>1
    <3>3. CASE w # v
      BY <3>2, <3>3, <1>5 DEF Waits
    <3>4. CASE w = v
      <4>1. i \in 2..n
        BY <3>2, <3>4, <2>2, <1>4
      <4>2. i - 1 \in DOMAIN queue'[v] /\ queue'[v][i - 1].file = a
        BY <4>1, <3>2, <3>4, <1>4, <1>5, SMTT(20)
      <4> QED BY <4>2, <1>2 DEF Waits
    <3> QED BY <3>3, <3>4
  <2> QED BY <2>1, <2>2
<1>10. \A w \in Workspaces : \A i, j \in DOMAIN queue[w]' :
          queue[w][i].file' = queue[w][j].file' => i = j
  <2> SUFFICES ASSUME NEW w \in Workspaces, NEW i \in DOMAIN queue'[w], NEW j \in DOMAIN queue'[w],
                      queue'[w][i].file = queue'[w][j].file
               PROVE  i = j
    OBVIOUS
  <2>1. CASE w # v
    BY <2>1, <1>5
  <2>2. CASE w = v
    <3>1. /\ i \in 1..(n - 1) /\ j \in 1..(n - 1)
          /\ queue[v][i + 1].file = queue[v][j + 1].file
      BY <2>2, <1>4, <1>5
    <3>2. i + 1 \in DOMAIN queue[v] /\ j + 1 \in DOMAIN queue[v]
      BY <3>1, <1>4
    <3>3. i + 1 = j + 1
      BY <3>1, <3>2, <1>2
    <3> QED BY <3>1, <3>3
  <2> QED BY <2>1, <2>2
<1>11. TurnsMatchQueues'
  <2>1. \A w \in Workspaces : \A i \in DOMAIN queue'[w] : WorkspaceOf[queue'[w][i].file] = w
    <3> SUFFICES ASSUME NEW w \in Workspaces, NEW i \in DOMAIN queue'[w]
                 PROVE  WorkspaceOf[queue'[w][i].file] = w
      OBVIOUS
    <3>1. CASE w # v
      BY <3>1, <1>5 DEF TurnsMatchQueues
    <3>2. CASE w = v
      <4>1. i + 1 \in DOMAIN queue[v] /\ queue'[v][i] = queue[v][i + 1]
        BY <3>2, <1>4, <1>5
      <4> QED BY <4>1, <3>2, <1>2 DEF TurnsMatchQueues
    <3> QED BY <3>1, <3>2
  <2>2. \A i \in 2..Len(turns) : turns[i] # v
    BY <1>2 DEF TurnsMatchQueues
  <2>3. \A w \in Workspaces : w # v =>
           (queue'[w] # <<>> <=> \E i \in 2..Len(turns) : turns[i] = w)
    BY <1>2, <1>5 DEF TurnsMatchQueues
  <2>4. CASE Tail(queue[v]) = <<>>
    <3>1. turns' = Tail(turns)
      BY <2>4, <1>1
    <3>2. /\ DOMAIN turns' = 1..(Len(turns) - 1)
          /\ \A i \in 1..(Len(turns) - 1) : turns'[i] = turns[i + 1]
      BY <3>1, <1>2
    <3>3. \A i, j \in DOMAIN turns' : turns'[i] = turns'[j] => i = j
      <4> SUFFICES ASSUME NEW i \in DOMAIN turns', NEW j \in DOMAIN turns', turns'[i] = turns'[j]
                   PROVE  i = j
        OBVIOUS
      <4>1. i + 1 \in DOMAIN turns /\ j + 1 \in DOMAIN turns /\ turns[i + 1] = turns[j + 1]
        BY <3>2, <1>2
      <4>2. i + 1 = j + 1
        BY <4>1 DEF TurnsMatchQueues
      <4> QED BY <4>2, <3>2, <1>2
    <3>4. \A w \in Workspaces :
             (\E i \in DOMAIN turns' : turns'[i] = w) <=> \E i \in 2..Len(turns) : turns[i] = w
      <4> SUFFICES ASSUME NEW w \in Workspaces
                   PROVE  (\E i \in DOMAIN turns' : turns'[i] = w)
                             <=> \E i \in 2..Len(turns) : turns[i] = w
        OBVIOUS
      <4>1. ASSUME NEW i \in DOMAIN turns', turns'[i] = w
            PROVE  i + 1 \in 2..Len(turns) /\ turns[i + 1] = w
        BY <4>1, <3>2, <1>2
      <4>2. ASSUME NEW i \in 2..Len(turns), turns[i] = w
            PROVE  i - 1 \in DOMAIN turns' /\ turns'[i - 1] = w
        BY <4>2, <3>2, <1>2
      <4> QED BY <4>1, <4>2
    <3>5. queue'[v] = <<>> /\ ~ \E i \in DOMAIN turns' : turns'[i] = v
      BY <2>2, <2>4, <3>4, <1>2, <1>5
    <3>6. \A w \in Workspaces : queue'[w] # <<>> <=> \E i \in DOMAIN turns' : turns'[i] = w
      BY <2>3, <3>4, <3>5
    <3> QED BY <2>1, <3>3, <3>6 DEF TurnsMatchQueues
  <2>5. CASE Tail(queue[v]) # <<>>
    <3> DEFINE m == Len(turns)
    <3>1. turns' = Append(Tail(turns), v)
      BY <2>5, <1>1
    <3>2. /\ DOMAIN turns' = 1..m
          /\ \A i \in 1..(m - 1) : turns'[i] = turns[i + 1]
          /\ turns'[m] = v
          /\ m \in Nat \ {0}
      BY <3>1, <1>2
    <3>3. \A i, j \in DOMAIN turns' : turns'[i] = turns'[j] => i = j
      <4> SUFFICES ASSUME NEW i \in 1..m, NEW j \in 1..m, turns'[i] = turns'[j]
                   PROVE  i = j
        BY <3>2
      <4>1. CASE i # m /\ j # m
        <5>1. i \in 1..(m - 1) /\ j \in 1..(m - 1)
          BY <4>1, <3>2
        <5>2. turns[i + 1] = turns[j + 1]
          BY <5>1, <3>2
        <5>3. i + 1 \in DOMAIN turns /\ j + 1 \in DOMAIN turns
          BY <5>1, <3>2, <1>2
        <5>4. i + 1 = j + 1
          BY <5>2, <5>3 DEF TurnsMatchQueues
        <5> QED BY <5>1, <5>4, <3>2
      <4>2. CASE i = m /\ j # m
        BY <4>2, <3>2, <2>2
      <4>3. CASE i # m /\ j = m
        BY <4>3, <3>2, <2>2
      <4> QED BY <4>1, <4>2, <4>3
    <3>4. \A w \in Workspaces : w # v =>
             ((\E i \in DOMAIN turns' : turns'[i] = w) <=> \E i \in 2..Len(turns) : turns[i] = w)
      <4> SUFFICES ASSUME NEW w \in Workspaces, w # v
                   PROVE  (\E i \in DOMAIN turns' : turns'[i] = w)
                             <=> \E i \in 2..Len(turns) : turns[i] = w
        OBVIOUS
      <4>1. ASSUME NEW i \in DOMAIN turns', turns'[i] = w
            PROVE  i + 1 \in 2..Len(turns) /\ turns[i + 1] = w
        BY <4>1, <3>2, <1>2
      <4>2. ASSUME NEW i \in 2..Len(turns), turns[i] = w
            PROVE  i - 1 \in DOMAIN turns' /\ turns'[i - 1] = w
        BY <4>2, <3>2, <1>2
      <4> QED BY <4>1, <4>2
    <3>5. queue'[v] # <<>> /\ \E i \in DOMAIN turns' : turns'[i] = v
      BY <2>5, <3>2, <1>5
    <3>6. \A w \in Workspaces : queue'[w] # <<>> <=> \E i \in DOMAIN turns' : turns'[i] = w
      BY <2>3, <3>4, <3>5
    <3> QED BY <2>1, <3>3, <3>6 DEF TurnsMatchQueues
  <2> QED BY <2>4, <2>5
<1> QED BY <1>4, <1>6, <1>7, <1>9, <1>10, <1>11

-----------------------------------------------------------------------------
(* Types *)

\* The disjuncts of a step, one per operation.
LEMMA Steps ==
    ASSUME [Next]_vars
    PROVE  \/ \E c \in Clients, a \in Artifacts : Store(c, a)
           \/ \E c \in Clients, a \in Artifacts : AskForPass(c, a)
           \/ \E c \in Clients : ReadSummary(c)
           \/ \E c \in Clients : Enqueue(c)
           \/ \E c \in Clients : ListAsked(c)
           \/ \E c \in Clients : QueueAsked(c)
           \/ \E c \in Clients : Disconnect(c)
           \/ \E a \in Artifacts : DeleteArtifact(a)
           \/ \E a \in Artifacts : ResumePush(a)
           \/ \E s \in Slots : Pick(s)
           \/ \E s \in Slots : TaskStep(s)
           \/ \E r \in sleeping : WakeRetry(r)
           \/ ResumeList
           \/ Restart
           \/ UNCHANGED vars
BY DEF Next, HandlerStep

\* A request that is added keeps the queue and the marks well typed.
LEMMA RequestTypes ==
    ASSUME TypeOK, NEW a \in Artifacts, QueueRequest(a)
    PROVE  QueueTypes' /\ queued' \in SUBSET Artifacts
<1>1. [file |-> a, attempt |-> 0] \in Requests
  BY ConstantsOK DEF Requests
<1>2. WorkspaceOf[a] \in Workspaces
  BY ConstantsOK
<1>3. CASE UNCHANGED <<queued, queue, turns>>
  BY <1>3 DEF TypeOK, QueueTypes
<1>4. CASE queued' = queued \cup {a} /\ Push([file |-> a, attempt |-> 0])
  <2>1. queue' = [queue EXCEPT ![WorkspaceOf[a]] = Append(@, [file |-> a, attempt |-> 0])]
    BY <1>4 DEF Push
  <2>2. turns' = turns \/ turns' = Append(turns, WorkspaceOf[a])
    BY <1>4 DEF Push
  <2>3. queue' \in [Workspaces -> Seq(Requests)]
    BY <2>1, <1>1, <1>2 DEF TypeOK
  <2>4. turns \in Seq(Workspaces) /\ Append(turns, WorkspaceOf[a]) \in Seq(Workspaces)
    BY <1>2 DEF TypeOK
  <2> QED BY <2>2, <2>3, <2>4, <1>4 DEF TypeOK, QueueTypes
<1> QED BY <1>3, <1>4 DEF QueueRequest

\* The types hold at first.
LEMMA InitTypes == Init => TypeOK
<1>1. NoJob \in Jobs /\ NoEntry \in Entries /\ NoClient \in Handlers
  BY DEF NoJob, Jobs, NoEntry, Entries, NoClient, Handlers
<1>2. NoTask \in Tasks /\ NoTask.phase = "idle" /\ NoClient.phase = "idle"
  BY ConstantsOK DEF NoTask, Tasks, Phases, NoClient
<1> QED BY <1>1, <1>2, ConstantsOK DEF Init, TypeOK

\* A task that moves on keeps its file, its job and what it read.
LEMMA GotoTypes ==
    ASSUME TypeOK, NEW s \in Slots, task[s].phase # "idle", NEW p \in Phases, Goto(s, p)
    PROVE  /\ task' \in [Slots -> Tasks]
           /\ \A t \in Slots : task'[t].phase # "idle" => task'[t].file \in Artifacts
<1>1. /\ task \in [Slots -> Tasks]
      /\ \A t \in Slots : task[t].phase # "idle" => task[t].file \in Artifacts
  BY DEF TypeOK
<1>2. task' = [task EXCEPT ![s].phase = p]
  BY DEF Goto
<1>3. task' \in [Slots -> Tasks]
  BY <1>1, <1>2 DEF Tasks
<1>4. \A t \in Slots : task'[t].file = task[t].file /\ (t # s => task'[t].phase = task[t].phase)
  BY <1>1, <1>2 DEF Tasks
<1> QED BY <1>1, <1>3, <1>4

\* A task that ends leaves its permit free.
LEMMA EndTypes ==
    ASSUME TypeOK, NEW s \in Slots, task' = [task EXCEPT ![s] = NoTask]
    PROVE  /\ task' \in [Slots -> Tasks]
           /\ \A t \in Slots : task'[t].phase # "idle" => task'[t].file \in Artifacts
<1>1. NoTask \in Tasks /\ NoTask.phase = "idle"
  BY ConstantsOK DEF NoTask, Tasks, Phases
<1> QED BY <1>1 DEF TypeOK

ClosedOK == jobs \in [JobIds -> Jobs] /\ strays \in SUBSET JobIds /\ faults \in 0..MaxFaults

\* A job that is closed, or stays open by a fault.
LEMMA CloseTypes ==
    ASSUME TypeOK, NEW s \in Slots, task[s].job # None, NEW status \in {"completed", "failed"},
           CloseJob(s, status)
    PROVE  ClosedOK'
<1>1. task[s].job \in JobIds
  BY DEF TypeOK, Tasks
<1>2. CASE jobs' = [jobs EXCEPT ![task[s].job].status = status] /\ UNCHANGED <<strays, faults>>
  <2>1. [jobs[task[s].job] EXCEPT !.status = status] \in Jobs
    BY <1>1 DEF TypeOK, Jobs
  <2>2. jobs' = [jobs EXCEPT ![task[s].job] = [@ EXCEPT !.status = status]]
    BY <1>2
  <2> QED BY <1>2, <2>1, <2>2 DEF TypeOK, ClosedOK
<1>3. CASE Fault /\ strays' = strays \cup {task[s].job} /\ UNCHANGED jobs
  BY <1>1, <1>3, ConstantsOK DEF TypeOK, Fault, ClosedOK
<1> QED BY <1>2, <1>3 DEF CloseJob

\* One case per step of a task.
LEMMA TaskTypes ==
    ASSUME TypeOK, NEW s \in Slots, TaskStep(s)
    PROVE  TypeOK'
<1> DEFINE TaskOK == /\ task \in [Slots -> Tasks]
                     /\ \A t \in Slots : task[t].phase # "idle" => task[t].file \in Artifacts
           a == task[s].file
<1>1. /\ TaskOK
      /\ {"begun", "analysing", "written", "failed", "unlisting", "done", "forgotten", "requeue"}
            \subseteq Phases
  BY DEF TypeOK, Phases, Holding
<1>2. /\ task[s] \in Tasks /\ task[s].job \in JobIds \cup {None} /\ task[s].attempt \in 0..MaxRetries
      /\ task[s].read \in 0..MaxContent /\ task[s].phase \in Phases
      /\ task[s].phase # "idle" => a \in Artifacts
  BY <1>1 DEF Tasks
<1>3. CASE Claim(s)
  <2>1. a \in Artifacts /\ manual[a] \in Entries
    BY <1>2, <1>3 DEF Claim, TypeOK
  <2>2. manual' \in [Artifacts -> Entries]
    <3>1. CASE UNCHANGED manual
      BY <3>1 DEF TypeOK
    <3>2. CASE manual' = [manual EXCEPT ![a].pending = FALSE]
      <4>1. manual' = [manual EXCEPT ![a] = [@ EXCEPT !.pending = FALSE]]
        BY <3>2
      <4>2. [manual[a] EXCEPT !.pending = FALSE] \in Entries
        BY <2>1 DEF Entries
      <4> QED BY <4>1, <4>2 DEF TypeOK
    <3> QED BY <3>1, <3>2, <1>3 DEF Claim
  <2>3. TaskOK'
    <3>1. CASE task' = [task EXCEPT ![s].phase = "begun", ![s].job = manual[a].job]
      <4>1. manual[a].job \in JobIds \cup {None}
        BY <2>1 DEF Entries
      <4>2. task' = [task EXCEPT ![s] = [@ EXCEPT !.phase = "begun", !.job = manual[a].job]]
        BY <3>1
      <4>3. [task[s] EXCEPT !.phase = "begun", !.job = manual[a].job] \in Tasks
        BY <4>1, <1>1, <1>2 DEF Tasks
      <4> QED BY <4>2, <4>3, <1>1, <1>2, <2>1 DEF Tasks
    <3>2. CASE Goto(s, "begun")
      BY <3>2, <1>1, <1>3, GotoTypes DEF Claim
    <3> QED BY <3>1, <3>2, <1>3 DEF Claim
  <2> QED BY <2>2, <2>3, <1>3 DEF TypeOK, Claim, dbVars, queueVars, bounds
<1>4. CASE ReadBlob(s)
  <2>1. TaskOK'
    <3>1. CASE Stored(a) /\ task' = [task EXCEPT ![s].phase = "analysing", ![s].read = content[a]]
      <4>1. content[a] \in 0..MaxContent /\ a \in Artifacts
        BY <3>1, <1>2, <1>4, ConstantsOK DEF TypeOK, Stored, Deleted, ReadBlob
      <4>2. task' = [task EXCEPT ![s] = [@ EXCEPT !.phase = "analysing", !.read = content[a]]]
        BY <3>1
      <4>3. [task[s] EXCEPT !.phase = "analysing", !.read = content[a]] \in Tasks
        BY <4>1, <1>1, <1>2 DEF Tasks
      <4> QED BY <4>1, <4>2, <4>3, <1>1, <1>2 DEF Tasks
    <3>2. CASE Goto(s, "failed")
      BY <3>2, <1>1, <1>4, GotoTypes DEF ReadBlob
    <3> QED BY <3>1, <3>2, <1>4 DEF ReadBlob
  <2> QED BY <2>1, <1>4 DEF TypeOK, ReadBlob, dbVars, queueVars, bounds
<1>5. CASE AnalyseFails(s)
  <2>1. TaskOK'
    BY <1>1, <1>5, GotoTypes DEF AnalyseFails
  <2> QED BY <2>1, <1>5 DEF TypeOK, AnalyseFails, dbVars, queueVars, bounds
<1>6. CASE WriteIndex(s)
  <2>1. TaskOK'
    BY <1>1, <1>6, GotoTypes DEF WriteIndex
  <2>2. chunksOf' \in [Artifacts -> 0..MaxContent] /\ indexedAt' \in [Artifacts -> BOOLEAN]
    BY <1>2, <1>6 DEF TypeOK, WriteIndex
  <2> QED BY <2>1, <2>2, <1>6 DEF TypeOK, WriteIndex, queueVars, bounds
<1>7. CASE Succeed(s)
  <2>1. TaskOK'
    BY <1>1, <1>7, GotoTypes DEF Succeed
  <2>2. ClosedOK'
    <3>1. CASE task[s].job # None /\ CloseJob(s, "completed")
      BY <3>1, CloseTypes
    <3>2. CASE task[s].job = None
      BY <3>2, <1>7, ConstantsOK DEF Succeed, Fault, TypeOK, ClosedOK
    <3> QED BY <3>1, <3>2, <1>7 DEF Succeed
  <2> QED BY <2>1, <2>2, <1>7 DEF TypeOK, ClosedOK, Succeed, queueVars
<1>8. CASE FailManual(s)
  <2>1. TaskOK'
    BY <1>1, <1>8, GotoTypes DEF FailManual
  <2>2. ClosedOK'
    BY <1>8, CloseTypes DEF FailManual
  <2> QED BY <2>1, <2>2, <1>8 DEF TypeOK, ClosedOK, FailManual, dbVars, queueVars
<1>9. CASE ScheduleRetry(s)
  <2>1. TaskOK'
    BY <1>9, EndTypes DEF ScheduleRetry
  <2>2. [file |-> a, attempt |-> task[s].attempt + 1] \in Requests
    BY <1>2, <1>9, ConstantsOK DEF ScheduleRetry, Requests
  <2> QED BY <2>1, <2>2, <1>9 DEF TypeOK, ScheduleRetry, dbVars, bounds
<1>10. CASE GiveUp(s)
  <2>1. TaskOK'
    BY <1>1, <1>10, GotoTypes DEF GiveUp
  <2> QED BY <2>1, <1>2, <1>10, ConstantsOK DEF TypeOK, GiveUp, Fault, queueVars
<1>11. CASE Unlist(s)
  <2>1. TaskOK'
    BY <1>1, <1>11, GotoTypes DEF Unlist
  <2>2. NoEntry \in Entries
    BY DEF NoEntry, Entries
  <2> QED BY <2>1, <2>2, <1>11 DEF TypeOK, Unlist, dbVars, queueVars, bounds
<1>12. CASE Forget(s)
  <2>1. TaskOK'
    BY <1>1, <1>12, GotoTypes DEF Forget
  <2> QED BY <2>1, <1>12 DEF TypeOK, Forget, dbVars, bounds
<1>13. CASE CheckManual(s)
  <2>1. TaskOK'
    BY <1>1, <1>13, GotoTypes, EndTypes DEF CheckManual
  <2>2. NoEntry \in Entries
    BY DEF NoEntry, Entries
  <2> QED BY <2>1, <2>2, <1>13 DEF TypeOK, CheckManual, dbVars, queueVars, bounds
<1>14. CASE Requeue(s)
  <2>1. TaskOK'
    BY <1>14, EndTypes DEF Requeue
  <2>2. QueueTypes' /\ queued' \in SUBSET Artifacts
    BY <1>2, <1>14, RequestTypes DEF Requeue
  <2> QED BY <2>1, <2>2, <1>14 DEF TypeOK, Requeue, QueueTypes, dbVars, bounds
<1> QED BY <1>3, <1>4, <1>5, <1>6, <1>7, <1>8, <1>9, <1>10, <1>11, <1>12, <1>13, <1>14 DEF TaskStep

\* Every step keeps the types.
LEMMA NextTypes == TypeOK /\ TurnsMatchQueues /\ [Next]_vars => TypeOK'
<1> SUFFICES ASSUME TypeOK, TurnsMatchQueues, [Next]_vars
             PROVE  TypeOK'
  OBVIOUS
<1> USE DEF dbVars, queueVars, bounds, Stored, Deleted
<1>0. /\ NoJob \in Jobs /\ NoEntry \in Entries
      /\ NoClient \in Handlers /\ NoClient.phase = "idle"
      /\ NoTask \in Tasks /\ NoTask.phase = "idle"
  BY ConstantsOK DEF NoJob, Jobs, NoEntry, Entries, NoClient, Handlers, NoTask, Tasks, Phases
<1>1. ASSUME NEW c \in Clients, NEW a \in Artifacts, Store(c, a)
      PROVE  TypeOK'
  <2>1. content' \in [Artifacts -> {Deleted} \cup 0..MaxContent] /\ indexedAt' \in [Artifacts -> BOOLEAN]
    BY <1>1, ConstantsOK DEF TypeOK, Store
  <2>2. [NoClient EXCEPT !.phase = "stored", !.file = a] \in Handlers
    BY <1>0 DEF Handlers
  <2>3. /\ client' \in [Clients -> Handlers]
        /\ client'[c].phase = "stored" /\ client'[c].file = a
        /\ \A d \in Clients : d # c => client'[d] = client[d]
    BY <1>1, <2>2 DEF TypeOK, Store, NoClient
  <2> QED BY <1>1, <2>1, <2>3 DEF TypeOK, Store
<1>2. ASSUME NEW c \in Clients, NEW a \in Artifacts, AskForPass(c, a)
      PROVE  TypeOK'
  <2>1. PICK j \in JobIds :
           /\ jobs' = [jobs EXCEPT ![j] = [file |-> a, status |-> "running"]]
           /\ client' = [client EXCEPT ![c] = [NoClient EXCEPT !.phase = "made", !.file = a, !.job = j]]
    BY <1>2 DEF AskForPass
  <2>2. jobs' \in [JobIds -> Jobs]
    BY <2>1 DEF TypeOK, Jobs
  <2>3. [NoClient EXCEPT !.phase = "made", !.file = a, !.job = j] \in Handlers
    BY <1>0 DEF Handlers
  <2>4. /\ client' \in [Clients -> Handlers]
        /\ client'[c].phase = "made" /\ client'[c].file = a /\ client'[c].job = j
        /\ \A d \in Clients : d # c => client'[d] = client[d]
    BY <2>1, <2>3 DEF TypeOK, NoClient
  <2> QED BY <1>2, <2>2, <2>4 DEF TypeOK, AskForPass
<1>3. ASSUME NEW c \in Clients, ReadSummary(c)
      PROVE  TypeOK'
  BY <1>0, <1>3 DEF TypeOK, ReadSummary, Handlers
<1>4. ASSUME NEW c \in Clients, Enqueue(c)
      PROVE  TypeOK'
  <2>1. client[c].file \in Artifacts
    BY <1>4 DEF TypeOK, Enqueue
  <2>2. QueueTypes' /\ queued' \in SUBSET Artifacts
    BY <2>1, <1>4, RequestTypes DEF TypeOK, Enqueue, QueueTypes
  <2> QED BY <2>2, <1>0, <1>4 DEF TypeOK, Enqueue, QueueTypes
<1>5. ASSUME NEW c \in Clients, QueueAsked(c)
      PROVE  TypeOK'
  <2>1. client[c].file \in Artifacts
    BY <1>5 DEF TypeOK, QueueAsked
  <2>2. QueueTypes' /\ queued' \in SUBSET Artifacts
    BY <2>1, <1>5, RequestTypes DEF TypeOK, QueueAsked, QueueTypes
  <2> QED BY <2>2, <1>0, <1>5 DEF TypeOK, QueueAsked, QueueTypes
<1>6. ASSUME NEW c \in Clients, Disconnect(c)
      PROVE  TypeOK'
  BY <1>0, <1>6 DEF TypeOK, Disconnect
<1>7. ASSUME NEW a \in Artifacts, DeleteArtifact(a)
      PROVE  TypeOK'
  BY <1>7, ConstantsOK DEF TypeOK, DeleteArtifact
<1>8. ASSUME NEW a \in Artifacts, ResumePush(a)
      PROVE  TypeOK'
  <2>1. QueueTypes' /\ queued' \in SUBSET Artifacts
    BY <1>8, RequestTypes DEF ResumePush
  <2> QED BY <2>1, <1>8 DEF TypeOK, ResumePush, QueueTypes
<1>9. ASSUME NEW s \in Slots, Pick(s)
      PROVE  TypeOK'
  <2> DEFINE v == Head(turns)
             r == Head(queue[v])
  <2>1. v \in Workspaces /\ Tail(turns) \in Seq(Workspaces) /\ Len(turns) \in Nat \ {0} /\ turns[1] = v
    BY <1>9 DEF Pick, Pop, TypeOK
  <2>2. 1 \in DOMAIN turns
    BY <2>1 DEF TypeOK
  <2>3. queue[v] # <<>> /\ queue[v] \in Seq(Requests)
    BY <2>1, <2>2 DEF TypeOK, TurnsMatchQueues
  <2>4. r \in Requests /\ Tail(queue[v]) \in Seq(Requests)
    BY <2>3
  <2>5. turns' \in Seq(Workspaces)
    BY <1>9, <2>1 DEF Pick, Pop
  <2>6. queue' \in [Workspaces -> Seq(Requests)]
    BY <1>9, <2>1, <2>4 DEF Pick, Pop, TypeOK
  <2>7. [phase |-> "picked", file |-> r.file, attempt |-> r.attempt, job |-> None, read |-> 0] \in Tasks
    BY <2>4, ConstantsOK DEF Requests, Tasks, Phases, Holding
  <2>8. r.file \in Artifacts
    BY <2>4 DEF Requests
  <2> QED BY <1>9, <2>5, <2>6, <2>7, <2>8 DEF Pick, TypeOK
<1>10. ASSUME NEW s \in Slots, TaskStep(s)
       PROVE  TypeOK'
  BY <1>10, TaskTypes
<1>11. ASSUME NEW r \in sleeping, WakeRetry(r)
       PROVE  TypeOK'
  <2>1. r \in Requests /\ WorkspaceOf[r.file] \in Workspaces
    BY ConstantsOK DEF TypeOK, Requests
  <2>2. QueueTypes'
    BY <2>1, <1>11 DEF TypeOK, WakeRetry, Push, QueueTypes
  <2> QED BY <2>2, <1>11 DEF TypeOK, WakeRetry, QueueTypes
<1>12. CASE ResumeList
  BY <1>12 DEF TypeOK, ResumeList, NeedsIndex
<1>13. CASE Restart
  <2>1. jobs' \in [JobIds -> Jobs]
    BY <1>13 DEF TypeOK, Restart, CloseInterrupted, Jobs
  <2>2. queue' \in [Workspaces -> Seq(Requests)] /\ turns' \in Seq(Workspaces)
    BY <1>13 DEF Restart
  <2>3. restarts' \in 0..MaxRestarts
    BY <1>13, ConstantsOK DEF TypeOK, Restart
  <2>4. listed' \in SUBSET Artifacts /\ queued' \in SUBSET Artifacts /\ sleeping' \in SUBSET Requests
    BY <1>13 DEF Restart, NeedsIndex
  <2>5. /\ manual' \in [Artifacts -> Entries]
        /\ task' \in [Slots -> Tasks] /\ \A s \in Slots : task'[s].phase = "idle"
        /\ client' \in [Clients -> Handlers] /\ \A c \in Clients : client'[c].phase = "idle"
    BY <1>0, <1>13 DEF Restart
  <2> QED BY <2>1, <2>2, <2>3, <2>4, <2>5, <1>13 DEF TypeOK, Restart
<1>14. CASE UNCHANGED vars
  BY <1>14 DEF TypeOK, vars
<1>15. ASSUME NEW c \in Clients, ListAsked(c)
       PROVE  TypeOK'
  <2>1. client[c].file \in Artifacts /\ client[c].job \in JobIds /\ client[c] \in Handlers
    BY <1>15 DEF TypeOK, ListAsked
  <2>2. manual' \in [Artifacts -> Entries]
    BY <1>15, <2>1 DEF TypeOK, ListAsked, Entries
  <2>3. /\ client' \in [Clients -> Handlers]
        /\ client'[c].phase = "asked" /\ client'[c].file = client[c].file
        /\ \A d \in Clients : d # c => client'[d] = client[d]
    BY <1>15, <2>1 DEF TypeOK, ListAsked, Handlers
  <2> QED BY <1>15, <2>1, <2>2, <2>3 DEF TypeOK, ListAsked
<1> QED BY <1>1, <1>2, <1>3, <1>4, <1>5, <1>6, <1>7, <1>8, <1>9, <1>10, <1>11, <1>12, <1>13, <1>14, <1>15, Steps

-----------------------------------------------------------------------------
(* One request, retry or task per file, and the marks that make it so *)

SameHolds == \A s \in Slots, a \in Artifacts : Holds(s, a)' <=> Holds(s, a)

\* Tokens is about the queue, its marks, the sleeping retries and who holds
\* which file: a step that leaves them as they are preserves it.
LEMMA SameTokens ==
    ASSUME Tokens, UNCHANGED queueVars, SameHolds
    PROVE  Tokens'
<1>1. /\ \A a \in Artifacts : Waits(a)' <=> Waits(a)
      /\ \A a \in Artifacts : Sleeps(a)' <=> Sleeps(a)
  BY DEF Waits, Sleeps, queueVars
<1>2. TurnsMatchQueues'
  BY DEF Tokens, TurnsMatchQueues, queueVars
<1>3. MarksAreBacked'
  BY <1>1 DEF Tokens, MarksAreBacked, SameHolds, queueVars
<1>4. OneTokenPerFile'
  BY <1>1 DEF Tokens, OneTokenPerFile, SameHolds, queueVars
<1> QED BY <1>2, <1>3, <1>4 DEF Tokens

\* queue_request adds a request only for a file that has none of them.
LEMMA RequestKeeps ==
    ASSUME QueueTypes, Tokens, NEW a \in Artifacts, QueueRequest(a),
           UNCHANGED sleeping, SameHolds
    PROVE  Tokens'
<1>1. CASE a \in queued
  BY <1>1, SameTokens DEF QueueRequest, queueVars
<1>2. CASE a \notin queued
  <2> DEFINE r == [file |-> a, attempt |-> 0]
  <2>1. r \in Requests /\ r.file = a
    BY ConstantsOK DEF Requests
  <2>2. /\ ~Waits(a) /\ ~Sleeps(a)
        /\ \A s \in Slots : ~Holds(s, a)
    BY <1>2 DEF Tokens, MarksAreBacked
  <2>3. Push(r) /\ queued' = queued \cup {a}
    BY <1>2 DEF QueueRequest
  <2>4. /\ TurnsMatchQueues'
        /\ \A w \in Workspaces : \A i, j \in DOMAIN queue[w]' :
              queue[w][i].file' = queue[w][j].file' => i = j
        /\ \A b \in Artifacts : Waits(b)' <=> Waits(b) \/ b = a
    <3> HIDE DEF r
    <3> QED BY <2>1, <2>2, <2>3, PushKeeps DEF Tokens, OneTokenPerFile
  <2>5. \A b \in Artifacts : Sleeps(b)' <=> Sleeps(b)
    BY DEF Sleeps
  <2>6. MarksAreBacked'
    BY <2>2, <2>3, <2>4, <2>5 DEF Tokens, MarksAreBacked, SameHolds
  <2>7. OneTokenPerFile'
    BY <2>2, <2>4, <2>5 DEF Tokens, OneTokenPerFile, SameHolds
  <2> QED BY <2>4, <2>6, <2>7 DEF Tokens
<1> QED BY <1>1, <1>2

\* A task that stays between its pick-up and its forgetting keeps its file;
\* one that is past it has none to keep.
LEMMA StaysHolding ==
    ASSUME task \in [Slots -> Tasks], NEW s \in Slots,
           task' \in [Slots -> Tasks],
           \A t \in Slots : t # s => task'[t] = task[t],
           \/ task[s].phase \in Holding /\ task'[s].phase \in Holding /\ task'[s].file = task[s].file
           \/ task[s].phase \notin Holding /\ task'[s].phase \notin Holding
    PROVE  SameHolds
BY DEF SameHolds, Holds

\* A task that moves on holds its file as long as its phase says so.
LEMMA GotoHolds ==
    ASSUME task \in [Slots -> Tasks], NEW s \in Slots, NEW p \in Phases, Goto(s, p),
           task[s].phase \in Holding <=> p \in Holding
    PROVE  SameHolds
<1>1. /\ task'[s].phase = p /\ task'[s].file = task[s].file
      /\ \A t \in Slots : t # s => task'[t] = task[t]
  BY DEF Goto, Tasks
<1> QED BY <1>1 DEF SameHolds, Holds

\* A permit given back by a task that holds no file changes nothing.
LEMMA EndHolds ==
    ASSUME task \in [Slots -> Tasks], NEW s \in Slots, task[s].phase \notin Holding,
           task' = [task EXCEPT ![s] = NoTask]
    PROVE  SameHolds
<1>1. NoTask.phase \notin Holding
  BY DEF NoTask, Holding
<1> QED BY <1>1 DEF SameHolds, Holds

-----------------------------------------------------------------------------
(* The steps of a task *)

\* A failed automatic pass hands its file from the task to a sleeping retry.
LEMMA RetryTokens ==
    ASSUME TypeOK, Tokens, NEW s \in Slots, ScheduleRetry(s)
    PROVE  Tokens'
<1> DEFINE a == task[s].file
           r == [file |-> a, attempt |-> task[s].attempt + 1]
<1>1. /\ task \in [Slots -> Tasks] /\ a \in Artifacts
      /\ Holds(s, a)
      /\ sleeping' = sleeping \cup {r}
      /\ task' = [task EXCEPT ![s] = NoTask]
      /\ UNCHANGED <<queue, turns, queued>>
  BY DEF TypeOK, ScheduleRetry, Holds, Holding
<1>2. NoTask.phase \notin Holding
  BY DEF NoTask, Holding
<1>3. ~Waits(a) /\ ~Sleeps(a) /\ \A t \in Slots : t # s => ~Holds(t, a)
  BY <1>1 DEF Tokens, OneTokenPerFile
<1>4. \A t \in Slots, b \in Artifacts : Holds(t, b)' <=> Holds(t, b) /\ t # s
  BY <1>1, <1>2 DEF Holds
<1>5. \A b \in Artifacts : Holds(s, b) => b = a
  BY DEF Holds
<1>6. /\ \A b \in Artifacts : Waits(b)' <=> Waits(b)
      /\ \A b \in Artifacts : Sleeps(b)' <=> Sleeps(b) \/ b = a
  <2>1. r.file = a
    OBVIOUS
  <2>2. \A b \in Artifacts : Waits(b)' <=> Waits(b)
    BY <1>1 DEF Waits
  <2>3. \A b \in Artifacts : (\E q \in sleeping' : q.file = b) <=> (\E q \in sleeping : q.file = b) \/ b = a
    <3> HIDE DEF r
    <3> QED BY <1>1, <2>1
  <2> QED BY <2>2, <2>3 DEF Sleeps
<1>7. TurnsMatchQueues'
  BY <1>1 DEF Tokens, TurnsMatchQueues
<1>8. MarksAreBacked'
  BY <1>1, <1>4, <1>5, <1>6 DEF Tokens, MarksAreBacked
<1>9. OneTokenPerFile'
  <2>1. \A p, q \in sleeping' : p.file = q.file => p = q
    BY <1>1, <1>3 DEF Tokens, OneTokenPerFile, Sleeps
  <2> QED BY <2>1, <1>1, <1>3, <1>4, <1>6 DEF Tokens, OneTokenPerFile
<1> QED BY <1>7, <1>8, <1>9 DEF Tokens

\* A task that is done takes its file's mark with it.
LEMMA ForgetTokens ==
    ASSUME TypeOK, Tokens, NEW s \in Slots, Forget(s)
    PROVE  Tokens'
<1> DEFINE a == task[s].file
<1>1. /\ task \in [Slots -> Tasks] /\ a \in Artifacts
      /\ Holds(s, a)
      /\ queued' = queued \ {a}
      /\ task' = [task EXCEPT ![s].phase = "forgotten"]
      /\ UNCHANGED <<queue, turns, sleeping>>
  BY DEF TypeOK, Forget, Goto, Holds, Holding
<1>2. ~Waits(a) /\ ~Sleeps(a) /\ \A t \in Slots : t # s => ~Holds(t, a)
  BY <1>1 DEF Tokens, OneTokenPerFile
<1>3. /\ task'[s].phase = "forgotten"
      /\ \A t \in Slots : t # s => task'[t] = task[t]
  BY <1>1 DEF Tasks
<1>4. \A t \in Slots, b \in Artifacts : Holds(t, b)' <=> Holds(t, b) /\ t # s
  BY <1>3 DEF Holds, Holding
<1>5. \A b \in Artifacts : Holds(s, b) => b = a
  BY DEF Holds
<1>6. /\ \A b \in Artifacts : Waits(b)' <=> Waits(b)
      /\ \A b \in Artifacts : Sleeps(b)' <=> Sleeps(b)
  BY <1>1 DEF Waits, Sleeps
<1>7. TurnsMatchQueues'
  BY <1>1 DEF Tokens, TurnsMatchQueues
<1>8. MarksAreBacked'
  BY <1>1, <1>2, <1>4, <1>5, <1>6 DEF Tokens, MarksAreBacked
<1>9. OneTokenPerFile'
  BY <1>1, <1>4, <1>6 DEF Tokens, OneTokenPerFile
<1> QED BY <1>7, <1>8, <1>9 DEF Tokens

\* Every step of a task keeps the tokens.
LEMMA TaskTokens ==
    ASSUME TypeOK, Tokens, NEW s \in Slots, TaskStep(s)
    PROVE  Tokens'
<1>0. task \in [Slots -> Tasks] /\ task[s] \in Tasks
  BY DEF TypeOK
<1>p. /\ Holding \subseteq Phases
      /\ {"picked", "begun", "analysing", "written", "failed", "unlisting", "done"} = Holding
      /\ {"idle", "forgotten", "requeue"} \subseteq Phases
      /\ "idle" \notin Holding /\ "forgotten" \notin Holding /\ "requeue" \notin Holding
  BY DEF Phases, Holding
<1>1. CASE Claim(s)
  <2>1. CASE task' = [task EXCEPT ![s].phase = "begun", ![s].job = manual[task[s].file].job]
    <3>1. task'[s].phase = "begun" /\ task'[s].file = task[s].file
          /\ \A t \in Slots : t # s => task'[t] = task[t]
      BY <2>1, <1>0 DEF Tasks
    <3>2. SameHolds
      BY <3>1, <1>1, <1>p DEF SameHolds, Holds, Claim
    <3> QED BY <3>2, <1>1, SameTokens DEF Claim
  <2>2. CASE Goto(s, "begun")
    BY <2>2, <1>0, <1>p, <1>1, GotoHolds, SameTokens DEF Claim
  <2> QED BY <2>1, <2>2, <1>1 DEF Claim
<1>2. CASE ReadBlob(s)
  <2>1. CASE task' = [task EXCEPT ![s].phase = "analysing", ![s].read = content[task[s].file]]
    <3>1. task'[s].phase = "analysing" /\ task'[s].file = task[s].file
          /\ \A t \in Slots : t # s => task'[t] = task[t]
      BY <2>1, <1>0 DEF Tasks
    <3>2. SameHolds
      BY <3>1, <1>2, <1>p DEF SameHolds, Holds, ReadBlob
    <3> QED BY <3>2, <1>2, SameTokens DEF ReadBlob
  <2>2. CASE Goto(s, "failed")
    BY <2>2, <1>0, <1>p, <1>2, GotoHolds, SameTokens DEF ReadBlob
  <2> QED BY <2>1, <2>2, <1>2 DEF ReadBlob
<1>3. CASE AnalyseFails(s)
  BY <1>0, <1>p, <1>3, GotoHolds, SameTokens DEF AnalyseFails
<1>4. CASE WriteIndex(s)
  BY <1>0, <1>p, <1>4, GotoHolds, SameTokens DEF WriteIndex
<1>5. CASE Succeed(s)
  BY <1>0, <1>p, <1>5, GotoHolds, SameTokens DEF Succeed
<1>6. CASE FailManual(s)
  BY <1>0, <1>p, <1>6, GotoHolds, SameTokens DEF FailManual
<1>7. CASE ScheduleRetry(s)
  BY <1>7, RetryTokens
<1>8. CASE GiveUp(s)
  BY <1>0, <1>p, <1>8, GotoHolds, SameTokens DEF GiveUp
<1>9. CASE Unlist(s)
  BY <1>0, <1>p, <1>9, GotoHolds, SameTokens DEF Unlist
<1>10. CASE Forget(s)
  BY <1>10, ForgetTokens
<1>11. CASE CheckManual(s)
  <2>1. CASE Goto(s, "requeue")
    BY <2>1, <1>0, <1>p, <1>11, GotoHolds, SameTokens DEF CheckManual
  <2>2. CASE task' = [task EXCEPT ![s] = NoTask]
    BY <2>2, <1>0, <1>p, <1>11, EndHolds, SameTokens DEF CheckManual
  <2> QED BY <2>1, <2>2, <1>11 DEF CheckManual
<1>12. CASE Requeue(s)
  <2>1. SameHolds
    BY <1>0, <1>p, <1>12, EndHolds DEF Requeue
  <2>2. QueueTypes /\ task[s].file \in Artifacts
    BY <1>12 DEF TypeOK, QueueTypes, Requeue
  <2> QED BY <2>1, <2>2, <1>12, RequestKeeps DEF Requeue
<1> QED BY <1>1, <1>2, <1>3, <1>4, <1>5, <1>6, <1>7, <1>8, <1>9, <1>10, <1>11, <1>12 DEF TaskStep

-----------------------------------------------------------------------------
(* The dispatcher, the retries and a restart *)

\* A permit takes over the file of the request it pops.
LEMMA PickTokens ==
    ASSUME TypeOK, Tokens, NEW s \in Slots, Pick(s)
    PROVE  Tokens'
<1> DEFINE r == Head(queue[Head(turns)])
           t0 == [phase |-> "picked", file |-> r.file, attempt |-> r.attempt, job |-> None, read |-> 0]
<1>1. /\ task \in [Slots -> Tasks]
      /\ task[s].phase = "idle"
      /\ task' = [task EXCEPT ![s] = t0]
      /\ UNCHANGED <<queued, sleeping>>
  BY DEF TypeOK, Pick
<1>2. /\ TurnsMatchQueues'
      /\ \A w \in Workspaces : \A i, j \in DOMAIN queue[w]' :
            queue[w][i].file' = queue[w][j].file' => i = j
      /\ r \in Requests
      /\ Waits(r.file)
      /\ \A a \in Artifacts : Waits(a)' <=> Waits(a) /\ a # r.file
  BY PopKeeps DEF Pick, Tokens, OneTokenPerFile, TypeOK, QueueTypes
<1>3. r.file \in Artifacts
  BY <1>2 DEF Requests
<1> DEFINE a == r.file
<1>4. ~Sleeps(a) /\ \A t \in Slots : ~Holds(t, a)
  BY <1>2, <1>3 DEF Tokens, OneTokenPerFile
<1>5. \A t \in Slots, b \in Artifacts : Holds(t, b)' <=> Holds(t, b) \/ (t = s /\ b = a)
  <2>1. t0.phase \in Holding /\ t0.file = a /\ "idle" \notin Holding
    BY DEF Holding
  <2>2. task'[s] = t0 /\ \A t \in Slots : t # s => task'[t] = task[t]
    BY <1>1
  <2> HIDE DEF t0
  <2> QED BY <2>1, <2>2, <1>1 DEF Holds
<1>6. \A b \in Artifacts : Sleeps(b)' <=> Sleeps(b)
  BY <1>1 DEF Sleeps
<1> HIDE DEF r, t0
<1>7. MarksAreBacked'
  BY <1>1, <1>2, <1>3, <1>5, <1>6 DEF Tokens, MarksAreBacked
<1>8. OneTokenPerFile'
  BY <1>1, <1>2, <1>3, <1>4, <1>5, <1>6 DEF Tokens, OneTokenPerFile
<1> QED BY <1>2, <1>7, <1>8 DEF Tokens

\* A retry whose delay is over waits in the queue instead.
LEMMA WakeTokens ==
    ASSUME TypeOK, Tokens, NEW r \in sleeping, WakeRetry(r)
    PROVE  Tokens'
<1> DEFINE a == r.file
<1>1. /\ r \in Requests /\ a \in Artifacts
      /\ Push(r)
      /\ sleeping' = sleeping \ {r}
      /\ UNCHANGED <<queued, task>>
  BY DEF TypeOK, WakeRetry, Requests
<1>2. Sleeps(a)
  BY DEF Sleeps
<1>3. ~Waits(a) /\ \A s \in Slots : ~Holds(s, a)
  BY <1>1, <1>2 DEF Tokens, OneTokenPerFile
<1>4. /\ TurnsMatchQueues'
      /\ \A w \in Workspaces : \A i, j \in DOMAIN queue[w]' :
            queue[w][i].file' = queue[w][j].file' => i = j
      /\ \A b \in Artifacts : Waits(b)' <=> Waits(b) \/ b = a
  BY <1>1, <1>3, PushKeeps DEF Tokens, OneTokenPerFile, TypeOK, QueueTypes
<1>5. \A b \in Artifacts : Sleeps(b)' <=> Sleeps(b) /\ b # a
  BY <1>1 DEF Sleeps, Tokens, OneTokenPerFile
<1>6. \A s \in Slots, b \in Artifacts : Holds(s, b)' <=> Holds(s, b)
  BY <1>1 DEF Holds
<1>7. MarksAreBacked'
  BY <1>1, <1>2, <1>4, <1>5, <1>6 DEF Tokens, MarksAreBacked
<1>8. OneTokenPerFile'
  BY <1>1, <1>3, <1>4, <1>5, <1>6 DEF Tokens, OneTokenPerFile
<1> QED BY <1>4, <1>7, <1>8 DEF Tokens

\* A process that begins has an empty queue and no task.
LEMMA EmptyTokens ==
    ASSUME queue = [w \in Workspaces |-> <<>>], turns = <<>>, queued = {}, sleeping = {},
           task = [s \in Slots |-> NoTask]
    PROVE  Tokens
<1>1. \A s \in Slots, a \in Artifacts : ~Holds(s, a)
  BY DEF Holds, NoTask, Holding
<1>2. \A a \in Artifacts : ~Waits(a) /\ ~Sleeps(a)
  BY DEF Waits, Sleeps
<1>3. TurnsMatchQueues
  BY DEF TurnsMatchQueues
<1>4. MarksAreBacked
  BY <1>1, <1>2 DEF MarksAreBacked
<1>5. OneTokenPerFile
  BY <1>1, <1>2 DEF OneTokenPerFile
<1> QED BY <1>3, <1>4, <1>5 DEF Tokens

\* Every step keeps the tokens.
LEMMA NextTokens == TypeOK /\ Tokens /\ [Next]_vars => Tokens'
<1> SUFFICES ASSUME TypeOK, Tokens, [Next]_vars
             PROVE  Tokens'
  OBVIOUS
<1>0. QueueTypes
  BY DEF TypeOK, QueueTypes
<1>h. UNCHANGED task => SameHolds
  BY DEF SameHolds, Holds
<1>1. ASSUME NEW c \in Clients, NEW a \in Artifacts, Store(c, a)
      PROVE  Tokens'
  BY <1>1, <1>h, SameTokens DEF Store
<1>2. ASSUME NEW c \in Clients, NEW a \in Artifacts, AskForPass(c, a)
      PROVE  Tokens'
  BY <1>2, <1>h, SameTokens DEF AskForPass
<1>3. ASSUME NEW c \in Clients, ReadSummary(c)
      PROVE  Tokens'
  BY <1>3, <1>h, SameTokens DEF ReadSummary
<1>4. ASSUME NEW c \in Clients, Enqueue(c)
      PROVE  Tokens'
  <2>1. CASE UNCHANGED <<queued, queue, turns>>
    BY <2>1, <1>4, <1>h, SameTokens DEF Enqueue, queueVars
  <2>2. CASE QueueRequest(client[c].file)
    <3>1. client[c].file \in Artifacts
      BY <1>4 DEF TypeOK, Enqueue
    <3> QED BY <3>1, <2>2, <1>0, <1>4, <1>h, RequestKeeps DEF Enqueue
  <2> QED BY <2>1, <2>2, <1>4 DEF Enqueue
<1>5. ASSUME NEW c \in Clients, QueueAsked(c)
      PROVE  Tokens'
  <2>1. client[c].file \in Artifacts
    BY <1>5 DEF TypeOK, QueueAsked
  <2> QED BY <2>1, <1>0, <1>5, <1>h, RequestKeeps DEF QueueAsked
<1>6. ASSUME NEW c \in Clients, Disconnect(c)
      PROVE  Tokens'
  BY <1>6, <1>h, SameTokens DEF Disconnect
<1>7. ASSUME NEW a \in Artifacts, DeleteArtifact(a)
      PROVE  Tokens'
  BY <1>7, <1>h, SameTokens DEF DeleteArtifact
<1>8. ASSUME NEW a \in Artifacts, ResumePush(a)
      PROVE  Tokens'
  BY <1>0, <1>8, <1>h, RequestKeeps DEF ResumePush
<1>9. ASSUME NEW s \in Slots, Pick(s)
      PROVE  Tokens'
  BY <1>9, PickTokens
<1>10. ASSUME NEW s \in Slots, TaskStep(s)
       PROVE  Tokens'
  BY <1>10, TaskTokens
<1>11. ASSUME NEW r \in sleeping, WakeRetry(r)
       PROVE  Tokens'
  BY <1>11, WakeTokens
<1>12. CASE ResumeList
  BY <1>12, <1>h, SameTokens DEF ResumeList
<1>13. CASE Restart
  <2>1. /\ queue' = [w \in Workspaces |-> <<>>] /\ turns' = <<>>
        /\ queued' = {} /\ sleeping' = {}
        /\ task' = [s \in Slots |-> NoTask]
    BY <1>13 DEF Restart
  <2>2. \A s \in Slots, a \in Artifacts : ~Holds(s, a)'
    BY <2>1 DEF Holds, NoTask, Holding
  <2>3. \A a \in Artifacts : ~Waits(a)' /\ ~Sleeps(a)'
    BY <2>1 DEF Waits, Sleeps
  <2>4. TurnsMatchQueues'
    BY <2>1 DEF TurnsMatchQueues
  <2>5. MarksAreBacked'
    BY <2>1, <2>2, <2>3 DEF MarksAreBacked
  <2>6. OneTokenPerFile'
    BY <2>1, <2>2, <2>3 DEF OneTokenPerFile
  <2> QED BY <2>4, <2>5, <2>6 DEF Tokens
<1>14. CASE UNCHANGED vars
  BY <1>14, <1>h, SameTokens DEF vars
<1>15. ASSUME NEW c \in Clients, ListAsked(c)
       PROVE  Tokens'
  BY <1>15, <1>h, SameTokens DEF ListAsked
<1> QED BY <1>1, <1>2, <1>3, <1>4, <1>5, <1>6, <1>7, <1>8, <1>9, <1>10, <1>11, <1>12, <1>13, <1>14, <1>15, Steps

-----------------------------------------------------------------------------
(* The invariants of every run *)

IInv == TypeOK /\ Tokens

\* The inductive invariant holds in every reachable state.
LEMMA Invariance == Spec => []IInv
<1>1. Init => IInv
  <2>1. Init => Tokens
    BY EmptyTokens DEF Init
  <2> QED BY <2>1, InitTypes DEF IInv
<1>2. IInv /\ [Next]_vars => IInv'
  BY NextTypes, NextTokens DEF IInv, Tokens
<1> QED BY <1>1, <1>2, PTL DEF Spec

\* Every variable keeps its type: in particular no retry is numbered beyond
\* RETRY_DELAYS, and a task that runs has a file.
THEOREM TypeCorrect == Spec => []TypeOK
<1>1. IInv => TypeOK
  BY DEF IInv
<1> QED BY <1>1, Invariance, PTL

\* A file is worked on by one task, retry or request at a time (queue_request,
\* the retries of index_one and the requests of enqueue_manual together).
THEOREM OneToken == Spec => []OneTokenPerFile
<1>1. IInv => OneTokenPerFile
  BY DEF IInv, Tokens
<1> QED BY <1>1, Invariance, PTL

\* `queued` holds exactly the files something will still work on.
THEOREM MarksBacked == Spec => []MarksAreBacked
<1>1. IInv => MarksAreBacked
  BY DEF IInv, Tokens
<1> QED BY <1>1, Invariance, PTL

\* FairIndexQueue's turns and queues agree.
THEOREM TurnsMatch == Spec => []TurnsMatchQueues
<1>1. IInv => TurnsMatchQueues
  BY DEF IInv, Tokens
<1> QED BY <1>1, Invariance, PTL

-----------------------------------------------------------------------------
(* What becomes searchable only advances *)

\* The stored passages are no newer than the file, and a pass at work has read
\* a content at least as new as the passages it will replace.
ReadsAhead(s) ==
    task[s].phase = "analysing" =>
        LET a == task[s].file IN
        /\ content[a] # 0
        /\ Stored(a) => chunksOf[a] <= task[s].read /\ task[s].read <= content[a]

Advancing ==
    /\ \A a \in Artifacts : Stored(a) => chunksOf[a] <= content[a]
    /\ \A a \in Artifacts : ~Stored(a) => chunksOf[a] = 0
    /\ \A s \in Slots : ReadsAhead(s)

\* A step that changes no passage, lets contents only grow or go, and starts no
\* pass, keeps them so.
LEMMA StillAdvancing ==
    ASSUME TypeOK, Advancing, UNCHANGED <<content, chunksOf>>,
           \A s \in Slots : task'[s].phase = "analysing" => task'[s] = task[s]
    PROVE  Advancing'
<1>1. \A a : Stored(a)' <=> Stored(a)
  BY DEF Stored
<1>2. /\ \A a \in Artifacts : Stored(a)' => chunksOf'[a] <= content'[a]
      /\ \A a \in Artifacts : ~Stored(a)' => chunksOf'[a] = 0
  BY <1>1 DEF Advancing
<1>3. \A s \in Slots : ReadsAhead(s)'
  BY DEF Advancing, ReadsAhead, Stored
<1> QED BY <1>2, <1>3 DEF Advancing

\* A task that moves on to anything but analysing, or ends.
LEMMA NotAnalysing ==
    ASSUME TypeOK, NEW s \in Slots, NEW p \in Phases \ {"analysing"},
           Goto(s, p) \/ task' = [task EXCEPT ![s] = NoTask]
    PROVE  \A t \in Slots : task'[t].phase = "analysing" => task'[t] = task[t]
<1>1. task \in [Slots -> Tasks] /\ NoTask.phase # "analysing"
  BY DEF TypeOK, NoTask
<1>2. CASE Goto(s, p)
  <2>1. task'[s].phase = p /\ \A t \in Slots : t # s => task'[t] = task[t]
    BY <1>1, <1>2 DEF Goto, Tasks
  <2> QED BY <2>1
<1>3. CASE task' = [task EXCEPT ![s] = NoTask]
  BY <1>1, <1>3
<1> QED BY <1>2, <1>3

\* The passages a task writes are not behind those that are stored.
LEMMA WriteAdvances ==
    ASSUME TypeOK, Tokens, Advancing, NEW s \in Slots, WriteIndex(s)
    PROVE  /\ Advancing'
           /\ \A a \in Artifacts : chunksOf'[a] >= chunksOf[a]
<1> DEFINE a == task[s].file
<1>1. /\ task[s].phase = "analysing" /\ a \in Artifacts /\ task[s] \in Tasks
      /\ task \in [Slots -> Tasks] /\ chunksOf \in [Artifacts -> 0..MaxContent]
      /\ \A b \in Artifacts : content[b] \in Int /\ chunksOf[b] \in Int
      /\ task[s].read \in Int
      /\ UNCHANGED content
  BY ConstantsOK DEF TypeOK, WriteIndex, Tasks, Deleted
<1>2. \A t \in Slots : task'[t].phase = "analysing" => task'[t] = task[t] /\ t # s
  <2>1. \E p \in Phases \ {"analysing"} : Goto(s, p)
    BY DEF WriteIndex, Phases, Holding
  <2>2. task'[s].phase # "analysing"
    BY <2>1, <1>1 DEF Goto, Tasks
  <2> QED BY <2>1, <2>2, NotAnalysing
<1>3. CASE ~Stored(a) /\ UNCHANGED chunksOf
  BY <1>1, <1>2, <1>3, StillAdvancing
<1>4. CASE Stored(a) /\ chunksOf' = [chunksOf EXCEPT ![a] = task[s].read]
  <2>1. chunksOf[a] <= task[s].read /\ task[s].read <= content[a]
    BY <1>1, <1>4 DEF Advancing, ReadsAhead
  <2>2. chunksOf'[a] = task[s].read /\ \A b \in Artifacts : b # a => chunksOf'[b] = chunksOf[b]
    BY <1>1, <1>4
  <2>3. \A t \in Slots : task'[t].phase = "analysing" => task'[t].file # a
    <3>1. \A t \in Slots : task[t].phase = "analysing" => (Holds(t, a) <=> task[t].file = a)
      BY DEF Holds, Holding
    <3> QED BY <3>1, <1>1, <1>2 DEF Tokens, OneTokenPerFile
  <2>4. \A b : Stored(b)' <=> Stored(b)
    BY <1>1 DEF Stored
  <2>5. \A t \in Slots : task'[t].phase = "analysing" => task'[t].file \in Artifacts
    BY <1>2 DEF TypeOK
  <2>6. /\ \A b \in Artifacts : Stored(b)' => chunksOf'[b] <= content'[b]
        /\ \A b \in Artifacts : ~Stored(b)' => chunksOf'[b] = 0
    BY <2>1, <2>2, <2>4, <1>1, <1>4 DEF Advancing
  <2>7. \A t \in Slots : ReadsAhead(t)'
    <3> SUFFICES ASSUME NEW t \in Slots, task'[t].phase = "analysing"
                 PROVE  /\ content'[task'[t].file] # 0
                        /\ content'[task'[t].file] > 0 =>
                              /\ chunksOf'[task'[t].file] <= task'[t].read
                              /\ task'[t].read <= content'[task'[t].file]
      BY DEF ReadsAhead, Stored
    <3>1. task'[t] = task[t] /\ ReadsAhead(t)
      BY <1>2 DEF Advancing
    <3>2. chunksOf'[task[t].file] = chunksOf[task[t].file]
      BY <2>2, <2>3, <2>5, <3>1
    <3> QED BY <3>1, <3>2, <1>1 DEF ReadsAhead, Stored
  <2>8. \A b \in Artifacts : chunksOf'[b] >= chunksOf[b]
    BY <2>1, <2>2, <1>1
  <2> QED BY <2>6, <2>7, <2>8 DEF Advancing
<1>5. \/ ~Stored(a) /\ UNCHANGED chunksOf
      \/ Stored(a) /\ chunksOf' = [chunksOf EXCEPT ![a] = task[s].read]
  BY DEF WriteIndex
<1>6. UNCHANGED chunksOf => \A b \in Artifacts : chunksOf'[b] >= chunksOf[b]
  BY <1>1
<1> QED BY <1>3, <1>4, <1>5, <1>6

\* A content that is stored is newer than anything cut or read before it.
LEMMA StoreAdvances ==
    ASSUME TypeOK, Advancing, NEW c \in Clients, NEW a \in Artifacts, Store(c, a)
    PROVE  Advancing'
<1>1. /\ content' = [content EXCEPT ![a] = @ + 1]
      /\ content \in [Artifacts -> {Deleted} \cup 0..MaxContent]
      /\ content[a] \in Nat
      /\ UNCHANGED <<chunksOf, task>>
      /\ \A b \in Artifacts : content[b] \in Int /\ chunksOf[b] \in Int
      /\ \A s \in Slots : task[s].phase # "idle" => task[s].file \in Artifacts
      /\ \A s \in Slots : task[s].read \in Int
  BY ConstantsOK DEF TypeOK, Store, queueVars, Tasks, Deleted
<1>2. content'[a] = content[a] + 1 /\ \A b \in Artifacts : b # a => content'[b] = content[b]
  BY <1>1
<1>3. /\ \A b \in Artifacts : Stored(b)' => chunksOf'[b] <= content'[b]
      /\ \A b \in Artifacts : ~Stored(b)' => chunksOf'[b] = 0
  BY <1>1, <1>2 DEF Advancing, Stored
<1>4. \A s \in Slots : ReadsAhead(s)'
  BY <1>1, <1>2 DEF Advancing, ReadsAhead, Stored
<1> QED BY <1>3, <1>4 DEF Advancing

\* A deleted file has no passages and gets none.
LEMMA DeleteAdvances ==
    ASSUME TypeOK, Advancing, NEW a \in Artifacts, DeleteArtifact(a)
    PROVE  Advancing'
<1>1. /\ content' = [content EXCEPT ![a] = Deleted] /\ chunksOf' = [chunksOf EXCEPT ![a] = 0]
      /\ content \in [Artifacts -> {Deleted} \cup 0..MaxContent]
      /\ chunksOf \in [Artifacts -> 0..MaxContent]
      /\ UNCHANGED task
      /\ \A s \in Slots : task[s].phase # "idle" => task[s].file \in Artifacts
  BY DEF TypeOK, DeleteArtifact
<1>2. /\ content'[a] = -1 /\ chunksOf'[a] = 0
      /\ \A b \in Artifacts : b # a => content'[b] = content[b] /\ chunksOf'[b] = chunksOf[b]
  BY <1>1 DEF Deleted
<1>3. /\ \A b \in Artifacts : Stored(b)' => chunksOf'[b] <= content'[b]
      /\ \A b \in Artifacts : ~Stored(b)' => chunksOf'[b] = 0
  BY <1>2 DEF Advancing, Stored
<1>4. \A s \in Slots : ReadsAhead(s)'
  BY <1>1, <1>2 DEF Advancing, ReadsAhead, Stored
<1> QED BY <1>3, <1>4 DEF Advancing

\* A pass reads the content of now.
LEMMA ReadAdvances ==
    ASSUME TypeOK, Advancing, NEW s \in Slots, ReadBlob(s)
    PROVE  Advancing'
<1> DEFINE a == task[s].file
<1>1. /\ task \in [Slots -> Tasks] /\ a \in Artifacts
      /\ UNCHANGED <<content, chunksOf>>
      /\ content[a] \in Int
  BY ConstantsOK DEF TypeOK, ReadBlob, dbVars, Deleted
<1>2. CASE Goto(s, "failed")
  <2>1. "failed" \in Phases \ {"analysing"}
    BY DEF Phases, Holding
  <2> QED BY <2>1, <1>1, <1>2, NotAnalysing, StillAdvancing
<1>3. CASE Stored(a) /\ task' = [task EXCEPT ![s].phase = "analysing", ![s].read = content[a]]
  <2>1. /\ task'[s].file = a /\ task'[s].read = content[a]
        /\ \A t \in Slots : t # s => task'[t] = task[t]
    BY <1>1, <1>3 DEF Tasks
  <2>2. ReadsAhead(s)'
    BY <2>1, <1>1, <1>3 DEF Advancing, ReadsAhead, Stored
  <2>3. \A t \in Slots : t # s => ReadsAhead(t)'
    BY <2>1, <1>1 DEF Advancing, ReadsAhead, Stored
  <2>4. /\ \A b \in Artifacts : Stored(b)' => chunksOf'[b] <= content'[b]
        /\ \A b \in Artifacts : ~Stored(b)' => chunksOf'[b] = 0
    BY <1>1 DEF Advancing, Stored
  <2> QED BY <2>2, <2>3, <2>4 DEF Advancing
<1> QED BY <1>2, <1>3 DEF ReadBlob

\* Every step keeps the passages advancing, and takes none back.
LEMMA NextAdvances ==
    ASSUME TypeOK, Tokens, Advancing, [Next]_vars
    PROVE  /\ Advancing'
           /\ \A a \in Artifacts : content'[a] # Deleted => chunksOf'[a] >= chunksOf[a]
<1> DEFINE Grows == \A a \in Artifacts : content'[a] # Deleted => chunksOf'[a] >= chunksOf[a]
<1>0. /\ UNCHANGED chunksOf => Grows
      /\ UNCHANGED <<content, chunksOf, task>> => Advancing'
  <2>1. \A a \in Artifacts : chunksOf[a] \in Int
    BY ConstantsOK DEF TypeOK
  <2> QED BY <2>1, StillAdvancing
<1>1. ASSUME NEW c \in Clients, NEW a \in Artifacts, Store(c, a)
      PROVE  Advancing' /\ Grows
  BY <1>0, <1>1, StoreAdvances DEF Store
<1>2. ASSUME NEW c \in Clients, NEW a \in Artifacts, AskForPass(c, a)
      PROVE  Advancing' /\ Grows
  BY <1>0, <1>2 DEF AskForPass, dbVars
<1>3. ASSUME NEW c \in Clients, ReadSummary(c)
      PROVE  Advancing' /\ Grows
  BY <1>0, <1>3 DEF ReadSummary, dbVars
<1>4. ASSUME NEW c \in Clients, Enqueue(c)
      PROVE  Advancing' /\ Grows
  BY <1>0, <1>4 DEF Enqueue, dbVars
<1>5. ASSUME NEW c \in Clients, QueueAsked(c)
      PROVE  Advancing' /\ Grows
  BY <1>0, <1>5 DEF QueueAsked, dbVars
<1>6. ASSUME NEW c \in Clients, Disconnect(c)
      PROVE  Advancing' /\ Grows
  BY <1>0, <1>6 DEF Disconnect, dbVars
<1>7. ASSUME NEW a \in Artifacts, DeleteArtifact(a)
      PROVE  Advancing' /\ Grows
  <2>1. Grows
    BY <1>7, ConstantsOK DEF TypeOK, DeleteArtifact
  <2> QED BY <2>1, <1>7, DeleteAdvances
<1>8. ASSUME NEW a \in Artifacts, ResumePush(a)
      PROVE  Advancing' /\ Grows
  BY <1>0, <1>8 DEF ResumePush, dbVars
<1>9. ASSUME NEW s \in Slots, Pick(s)
      PROVE  Advancing' /\ Grows
  <2>1. /\ UNCHANGED <<content, chunksOf>>
        /\ \A t \in Slots : task'[t].phase = "analysing" => task'[t] = task[t]
    BY <1>9 DEF TypeOK, Pick, dbVars
  <2> QED BY <2>1, <1>0, StillAdvancing
<1>10. ASSUME NEW s \in Slots, TaskStep(s)
       PROVE  Advancing' /\ Grows
  <2>p. Phases \ {"analysing"} = {"idle", "picked", "begun", "written", "failed", "unlisting", "done",
                                  "forgotten", "requeue"}
    BY DEF Phases, Holding
  <2>1. CASE ReadBlob(s)
    BY <2>1, <1>0, ReadAdvances DEF ReadBlob, dbVars
  <2>2. CASE WriteIndex(s)
    BY <2>2, WriteAdvances
  <2>3. CASE Claim(s) /\ ~Goto(s, "begun")
    <3>1. task' = [task EXCEPT ![s].phase = "begun", ![s].job = manual[task[s].file].job]
      BY <2>3 DEF Claim
    <3>2. \A t \in Slots : task'[t].phase = "analysing" => task'[t] = task[t]
      BY <3>1 DEF TypeOK, Tasks
    <3> QED BY <3>2, <2>3, <1>0, StillAdvancing DEF Claim, dbVars
  <2>4. CASE \/ Claim(s) /\ Goto(s, "begun")
             \/ AnalyseFails(s) \/ Succeed(s) \/ FailManual(s) \/ ScheduleRetry(s) \/ GiveUp(s)
             \/ Unlist(s) \/ Forget(s) \/ CheckManual(s) \/ Requeue(s)
    <3>1. UNCHANGED <<content, chunksOf>>
      BY <2>4 DEF Claim, AnalyseFails, Succeed, FailManual, ScheduleRetry, GiveUp, Unlist, Forget,
                  CheckManual, Requeue, dbVars
    <3>2. \/ \E p \in Phases \ {"analysing"} : Goto(s, p)
          \/ task' = [task EXCEPT ![s] = NoTask]
      BY <2>4, <2>p DEF Claim, AnalyseFails, Succeed, FailManual, ScheduleRetry, GiveUp, Unlist,
                        Forget, CheckManual, Requeue
    <3> QED BY <3>1, <3>2, <2>p, <1>0, NotAnalysing, StillAdvancing
  <2> QED BY <2>1, <2>2, <2>3, <2>4, <1>10 DEF TaskStep
<1>11. ASSUME NEW r \in sleeping, WakeRetry(r)
       PROVE  Advancing' /\ Grows
  BY <1>0, <1>11 DEF WakeRetry, dbVars
<1>12. CASE ResumeList
  BY <1>0, <1>12 DEF ResumeList, dbVars
<1>13. CASE Restart
  <2>1. /\ UNCHANGED <<content, chunksOf>>
        /\ \A s \in Slots : task'[s].phase # "analysing"
    BY <1>13 DEF Restart, NoTask, dbVars
  <2> QED BY <2>1, <1>0, StillAdvancing
<1>14. CASE UNCHANGED vars
  BY <1>0, <1>14 DEF vars, dbVars
<1>15. ASSUME NEW c \in Clients, ListAsked(c)
       PROVE  Advancing' /\ Grows
  BY <1>0, <1>15 DEF ListAsked, dbVars
<1> QED BY <1>1, <1>2, <1>3, <1>4, <1>5, <1>6, <1>7, <1>8, <1>9, <1>10, <1>11, <1>12, <1>13, <1>14, <1>15, Steps

\* A slow pass of the queue never writes passages over those of a newer
\* content, at any number of permits.
THEOREM ChunksAdvance == Spec => ChunksNeverGoBack
<1>1. Init => Advancing
  <2>1. Init => \A s \in Slots : task[s].phase # "analysing"
    BY DEF Init, NoTask
  <2> QED BY <2>1 DEF Init, Advancing, ReadsAhead, Stored
<1>2. IInv /\ Advancing /\ [Next]_vars => Advancing'
  BY NextAdvances DEF IInv
<1>3. IInv /\ Advancing /\ [Next]_vars =>
        [\A a \in Artifacts : content'[a] # Deleted => chunksOf'[a] >= chunksOf[a]]_vars
  BY NextAdvances DEF IInv
<1> QED BY <1>1, <1>2, <1>3, Invariance, PTL DEF Spec, ChunksNeverGoBack

-----------------------------------------------------------------------------
(* Workspaces take turns *)

\* A waiting workspace keeps its turn, or comes one nearer when one is taken.
NoTurnLost ==
    \A i \in 2..Len(turns) :
        LET j == IF Taken THEN i - 1 ELSE i
        IN  j \in DOMAIN turns' /\ turns'[j] = turns[i]

\* Turns that are kept, with at most one more behind them, lose none.
LEMMA TurnsAppended ==
    ASSUME turns \in Seq(Workspaces), ~Taken,
           turns' = turns \/ \E w \in Workspaces : turns' = Append(turns, w)
    PROVE  NoTurnLost
<1>1. CASE turns' = turns
  BY <1>1 DEF NoTurnLost
<1>2. ASSUME NEW w \in Workspaces, turns' = Append(turns, w)
      PROVE  NoTurnLost
  <2>1. /\ Len(turns) \in Nat
        /\ DOMAIN turns' = 1..(Len(turns) + 1)
        /\ \A i \in 1..Len(turns) : turns'[i] = turns[i]
    BY <1>2
  <2> QED BY <2>1 DEF NoTurnLost
<1> QED BY <1>1, <1>2

\* A request goes behind the others.
LEMMA RequestAppends ==
    ASSUME NEW a \in Artifacts, QueueRequest(a)
    PROVE  turns' = turns \/ \E w \in Workspaces : turns' = Append(turns, w)
<1>1. WorkspaceOf[a] \in Workspaces
  BY ConstantsOK
<1> QED BY <1>1 DEF QueueRequest, Push

\* The first workspace's turn is taken: the others come one nearer.
LEMMA PopAdvances ==
    ASSUME TypeOK, NEW s \in Slots, Pick(s)
    PROVE  NoTurnLost
<1>1. task \in [Slots -> Tasks] /\ turns \in Seq(Workspaces) /\ turns # <<>>
  BY DEF TypeOK, Pick, Pop
<1>2. Taken
  BY <1>1 DEF Taken, Pick
<1>3. /\ Head(turns) \in Workspaces
      /\ Len(turns) \in Nat \ {0}
      /\ Tail(turns) \in Seq(Workspaces)
      /\ Len(Tail(turns)) = Len(turns) - 1
      /\ \A i \in 1..(Len(turns) - 1) : Tail(turns)[i] = turns[i + 1]
  BY <1>1
<1>4. /\ \A i \in 1..(Len(turns) - 1) : i \in DOMAIN turns' /\ turns'[i] = turns[i + 1]
  <2>1. CASE turns' = Tail(turns)
    BY <1>3, <2>1
  <2>2. CASE turns' = Append(Tail(turns), Head(turns))
    BY <1>3, <2>2
  <2> QED BY <2>1, <2>2 DEF Pick, Pop
<1>5. \A i \in 2..Len(turns) : i - 1 \in 1..(Len(turns) - 1) /\ (i - 1) + 1 = i
  BY <1>3
<1> QED BY <1>2, <1>4, <1>5 DEF NoTurnLost

\* A task that is at work takes no turn.
LEMMA TaskTakesNoTurn ==
    ASSUME TypeOK, NEW s \in Slots, TaskStep(s)
    PROVE  ~Taken
<1>1. task \in [Slots -> Tasks] /\ NoTask.phase # "picked"
  BY DEF TypeOK, NoTask
<1>2. task[s].phase # "idle"
  BY DEF TaskStep, Claim, ReadBlob, AnalyseFails, WriteIndex, Succeed, FailManual, ScheduleRetry, GiveUp,
         Unlist, Forget, CheckManual, Requeue
<1>3. \A t \in Slots : t # s => task'[t] = task[t]
  BY <1>1 DEF TaskStep, Claim, ReadBlob, AnalyseFails, WriteIndex, Succeed, FailManual, ScheduleRetry,
              GiveUp, Unlist, Forget, CheckManual, Requeue, Goto
<1> QED BY <1>2, <1>3 DEF Taken

\* Every step but a restart loses no turn.
LEMMA NextTurns ==
    ASSUME TypeOK, [Next]_vars, restarts' = restarts
    PROVE  NoTurnLost
<1>0. turns \in Seq(Workspaces) /\ (UNCHANGED task => ~Taken)
  BY DEF TypeOK, Taken
<1>1. ASSUME NEW a \in Artifacts, QueueRequest(a), ~Taken
      PROVE  NoTurnLost
  BY <1>0, <1>1, RequestAppends, TurnsAppended
<1>2. ASSUME NEW c \in Clients, Enqueue(c) \/ QueueAsked(c)
      PROVE  NoTurnLost
  <2>1. client[c].file \in Artifacts
    BY <1>2 DEF TypeOK, Enqueue, QueueAsked
  <2>2. UNCHANGED task /\ (UNCHANGED turns \/ QueueRequest(client[c].file))
    BY <1>2 DEF Enqueue, QueueAsked
  <2> QED BY <2>1, <2>2, <1>0, <1>1, TurnsAppended
<1>3. ASSUME NEW a \in Artifacts, ResumePush(a)
      PROVE  NoTurnLost
  BY <1>0, <1>1, <1>3 DEF ResumePush
<1>4. ASSUME NEW s \in Slots, Pick(s)
      PROVE  NoTurnLost
  BY <1>4, PopAdvances
<1>5. ASSUME NEW s \in Slots, TaskStep(s)
      PROVE  NoTurnLost
  <2>1. ~Taken
    BY <1>5, TaskTakesNoTurn
  <2>2. CASE Requeue(s)
    <3>1. task[s].file \in Artifacts
      BY <2>2 DEF TypeOK, Requeue
    <3> QED BY <2>1, <2>2, <3>1, <1>1 DEF Requeue
  <2>3. CASE ~Requeue(s)
    <3>1. UNCHANGED turns
      BY <1>5, <2>3 DEF TaskStep, Claim, ReadBlob, AnalyseFails, WriteIndex, Succeed, FailManual,
                        ScheduleRetry, GiveUp, Unlist, Forget, CheckManual, queueVars
    <3> QED BY <2>1, <3>1, <1>0, TurnsAppended
  <2> QED BY <2>2, <2>3
<1>6. ASSUME NEW r \in sleeping, WakeRetry(r)
      PROVE  NoTurnLost
  <2>1. WorkspaceOf[r.file] \in Workspaces
    BY ConstantsOK DEF TypeOK, Requests
  <2>2. UNCHANGED task /\ (turns' = turns \/ turns' = Append(turns, WorkspaceOf[r.file]))
    BY <1>6 DEF WakeRetry, Push
  <2> QED BY <2>1, <2>2, <1>0, TurnsAppended
<1>7. ~Restart
  BY ConstantsOK DEF Restart, TypeOK
<1>8. CASE \/ \E c \in Clients, a \in Artifacts : Store(c, a) \/ AskForPass(c, a)
           \/ \E c \in Clients : ReadSummary(c) \/ ListAsked(c) \/ Disconnect(c)
           \/ \E a \in Artifacts : DeleteArtifact(a)
           \/ ResumeList
           \/ UNCHANGED vars
  <2>1. UNCHANGED <<turns, task>>
    BY <1>8 DEF Store, AskForPass, ReadSummary, ListAsked, Disconnect, DeleteArtifact, ResumeList, vars, queueVars
  <2> QED BY <2>1, <1>0, TurnsAppended
<1> QED BY <1>2, <1>3, <1>4, <1>5, <1>6, <1>7, <1>8, Steps

\* FairIndexQueue is fair: a busy workspace takes turns with the others, and no
\* push, pop or retry sets a waiting one back.
THEOREM TurnsCome == Spec => TurnsComeRound
<1>1. IInv /\ [Next]_vars => [restarts' = restarts => NoTurnLost]_vars
  BY NextTurns DEF IInv
<1>2. [restarts' = restarts => NoTurnLost]_vars
         => [restarts' = restarts =>
               \A i \in 2..Len(turns) :
                  LET j == IF Taken THEN i - 1 ELSE i
                  IN  j \in DOMAIN turns' /\ turns'[j] = turns[i]]_vars
  BY DEF NoTurnLost
<1> QED BY <1>1, <1>2, Invariance, PTL DEF Spec, TurnsComeRound

-----------------------------------------------------------------------------
(* The jobs people ask for *)

\* One handler at a time makes a job, for a file without an entry.
MakingOK ==
    /\ \A c, d \in Clients : client[c].phase = "made" /\ client[d].phase = "made" => c = d
    /\ \A c \in Clients :
          client[c].phase = "made" =>
             manual[client[c].file] = NoEntry /\ jobs[client[c].job].file = client[c].file

JobInv == JobsAreOwned /\ MakingOK

\* Who makes a job goes on while the entries stay, and nobody begins to.
LEMMA StillMaking ==
    ASSUME TypeOK, MakingOK,
           \A c \in Clients : client'[c].phase = "made" => client'[c] = client[c],
           \A j \in JobIds : jobs'[j].file = jobs[j].file,
           UNCHANGED manual \/ ~Locked'
    PROVE  MakingOK'
<1>1. \A c \in Clients : client[c].phase = "made" => client[c].job \in JobIds
  BY DEF TypeOK
<1>2. CASE UNCHANGED manual
  <2>1. \A c, d \in Clients : client'[c].phase = "made" /\ client'[d].phase = "made" => c = d
    BY DEF MakingOK
  <2>2. ASSUME NEW c \in Clients, client'[c].phase = "made"
        PROVE  manual'[client'[c].file] = NoEntry /\ jobs'[client'[c].job].file = client'[c].file
    <3>1. client'[c] = client[c] /\ client[c].job \in JobIds
      BY <2>2, <1>1
    <3>2. manual[client[c].file] = NoEntry /\ jobs[client[c].job].file = client[c].file
      BY <2>2, <3>1 DEF MakingOK
    <3> QED BY <3>1, <3>2, <1>2
  <2> QED BY <2>1, <2>2 DEF MakingOK
<1>3. CASE ~Locked'
  BY <1>3 DEF MakingOK, Locked
<1> QED BY <1>2, <1>3

\* A step of one task keeps every job owned if it does so for those in its hands
\* and for those of the entries it changes.
LEMMA TaskHands ==
    ASSUME JobsAreOwned, NEW s \in Slots, UNCHANGED client, strays \subseteq strays',
           \A t \in Slots : t # s => task'[t] = task[t],
           \A j \in JobIds : jobs'[j].file = jobs[j].file /\ (Running(j)' => Running(j)),
           \A j \in JobIds : Running(j)' /\ WorksFor(s, j) => j \in strays' \/ Owned(j)',
           \A j \in JobIds : manual[jobs[j].file] = [job |-> j, pending |-> TRUE]
                               => j \in strays' \/ Owned(j)'
    PROVE  JobsAreOwned'
<1> SUFFICES ASSUME NEW j \in JobIds, Running(j)', j \notin strays'
             PROVE  Owned(j)'
  BY DEF JobsAreOwned
<1>1. Owned(j) /\ jobs'[j].file = jobs[j].file
  BY DEF JobsAreOwned
<1>2. CASE \E c \in Clients : client[c].phase = "made" /\ client[c].job = j
  BY <1>2 DEF Owned
<1>3. CASE manual[jobs[j].file] = [job |-> j, pending |-> TRUE]
  BY <1>3
<1>4. ASSUME NEW t \in Slots, WorksFor(t, j)
      PROVE  Owned(j)'
  <2>1. CASE t = s
    BY <2>1, <1>4
  <2>2. CASE t # s
    BY <2>2, <1>1, <1>4 DEF WorksFor, Owned
  <2> QED BY <2>1, <2>2
<1> QED BY <1>1, <1>2, <1>3, <1>4 DEF Owned

\* A step of one task that leaves jobs and entries, and goes on with its job or
\* had none in hand.
LEMMA TaskOnly ==
    ASSUME TypeOK, JobInv, NEW s \in Slots, UNCHANGED <<jobs, manual, client, strays>>,
           \A t \in Slots : t # s => task'[t] = task[t],
           \/ task[s].job = None \/ task[s].phase \notin InHand
           \/ /\ task'[s].job = task[s].job /\ task'[s].file = task[s].file
              /\ task'[s].phase \in InHand
    PROVE  JobInv'
<1>1. MakingOK'
  BY StillMaking DEF JobInv
<1>2. None \notin JobIds
  BY ConstantsOK
<1>3. \A j \in JobIds : WorksFor(s, j) => WorksFor(s, j)'
  BY <1>2 DEF WorksFor
<1>4. \A j \in JobIds : WorksFor(s, j) => Owned(j)'
  BY <1>3 DEF Owned
<1>5. \A j \in JobIds : manual[jobs[j].file] = [job |-> j, pending |-> TRUE] => Owned(j)'
  BY DEF Owned
<1>6. \A j \in JobIds : jobs'[j].file = jobs[j].file /\ (Running(j)' => Running(j))
  BY DEF Running
<1>7. JobsAreOwned'
  BY <1>4, <1>5, <1>6, TaskHands DEF JobInv
<1> QED BY <1>1, <1>7 DEF JobInv

\* A task that moves on or ends leaves the others.
LEMMA OthersStay ==
    ASSUME TypeOK, NEW s \in Slots, TaskStep(s)
    PROVE  \A t \in Slots : t # s => task'[t] = task[t]
BY DEF TypeOK, TaskStep, Claim, ReadBlob, AnalyseFails, WriteIndex, Succeed, FailManual, ScheduleRetry,
       GiveUp, Unlist, Forget, CheckManual, Requeue, Goto

\* A job is made by the handler that will give it its entry.
LEMMA AskJobs ==
    ASSUME TypeOK, JobInv, NEW c \in Clients, NEW a \in Artifacts, AskForPass(c, a)
    PROVE  JobInv'
<1>1. PICK j \in JobIds :
         /\ jobs[j] = NoJob
         /\ jobs' = [jobs EXCEPT ![j] = [file |-> a, status |-> "running"]]
         /\ client' = [client EXCEPT ![c] = [NoClient EXCEPT !.phase = "made", !.file = a, !.job = j]]
  BY DEF AskForPass
<1>2. /\ client[c].phase = "idle" /\ ~Locked /\ manual[a] = NoEntry
      /\ UNCHANGED <<manual, task, strays>>
  BY DEF AskForPass
<1>3. /\ client'[c].phase = "made" /\ client'[c].file = a /\ client'[c].job = j
      /\ \A d \in Clients : d # c => client'[d] = client[d]
  BY <1>1 DEF TypeOK, NoClient
<1>4. /\ jobs'[j].file = a
      /\ \A k \in JobIds : k # j => jobs'[k] = jobs[k]
  BY <1>1 DEF TypeOK
<1>5. MakingOK'
  BY <1>2, <1>3, <1>4 DEF MakingOK, Locked, NoEntry
<1>6. JobsAreOwned'
  <2> SUFFICES ASSUME NEW k \in JobIds, Running(k)'
               PROVE  k \in strays' \/ Owned(k)'
    BY DEF JobsAreOwned
  <2>1. CASE k = j
    BY <2>1, <1>3 DEF Owned
  <2>2. CASE k # j
    <3>1. jobs'[k] = jobs[k] /\ Running(k)
      BY <2>2, <1>4 DEF Running
    <3>2. k \in strays \/ Owned(k)
      BY <3>1 DEF JobInv, JobsAreOwned
    <3> QED BY <3>1, <3>2, <1>2, <1>3 DEF Owned, WorksFor
  <2> QED BY <2>1, <2>2
<1> QED BY <1>5, <1>6 DEF JobInv

\* The entry takes the job over; there was none.
LEMMA ListJobs ==
    ASSUME TypeOK, JobInv, NEW c \in Clients, ListAsked(c)
    PROVE  JobInv'
<1> DEFINE a == client[c].file
           j == client[c].job
<1>1. /\ client[c].phase = "made" /\ a \in Artifacts /\ j \in JobIds
      /\ manual' = [manual EXCEPT ![a] = [job |-> j, pending |-> TRUE]]
      /\ client' = [client EXCEPT ![c].phase = "asked", ![c].job = None]
      /\ UNCHANGED <<jobs, task, strays>>
  BY DEF TypeOK, ListAsked
<1>2. /\ manual'[a] = [job |-> j, pending |-> TRUE]
      /\ \A b \in Artifacts : b # a => manual'[b] = manual[b]
  BY <1>1 DEF TypeOK
<1>3. /\ client'[c].phase = "asked"
      /\ \A d \in Clients : d # c => client'[d] = client[d]
  BY <1>1 DEF TypeOK, Handlers
<1>4. MakingOK'
  <2>1. ~Locked'
    BY <1>1, <1>3 DEF Locked, JobInv, MakingOK
  <2> QED BY <2>1, <1>1, <1>3, StillMaking DEF JobInv
<1>5. JobsAreOwned'
  <2> SUFFICES ASSUME NEW k \in JobIds, Running(k), k \notin strays
               PROVE  Owned(k)'
    BY <1>1 DEF JobsAreOwned, Running
  <2>1. Owned(k)
    BY DEF JobInv, JobsAreOwned
  <2>2. ASSUME NEW d \in Clients, client[d].phase = "made", client[d].job = k
        PROVE  Owned(k)'
    <3>1. k = j /\ jobs[j].file = a
      BY <2>2, <1>1 DEF JobInv, MakingOK
    <3> QED BY <3>1, <1>1, <1>2 DEF Owned
  <2>3. CASE manual[jobs[k].file] = [job |-> k, pending |-> TRUE]
    <3>1. jobs[k].file # a
      BY <2>3, <1>1 DEF JobInv, MakingOK, NoEntry
    <3>2. manual'[jobs[k].file] = manual[jobs[k].file]
      BY <3>1, <1>1 DEF TypeOK
    <3> QED BY <2>3, <3>2, <1>1 DEF Owned
  <2>4. ASSUME NEW s \in Slots, WorksFor(s, k)
        PROVE  Owned(k)'
    BY <2>4, <1>1 DEF Owned, WorksFor
  <2> QED BY <2>1, <2>2, <2>3, <2>4 DEF Owned
<1> QED BY <1>4, <1>5 DEF JobInv

\* A pass takes its file's waiting job into its hands.
LEMMA ClaimJobs ==
    ASSUME TypeOK, JobInv, NEW s \in Slots, Claim(s)
    PROVE  JobInv'
<1> DEFINE a == task[s].file
<1>1. /\ task[s].phase = "picked" /\ a \in Artifacts /\ ~Locked
      /\ task \in [Slots -> Tasks] /\ manual \in [Artifacts -> Entries]
      /\ UNCHANGED <<jobs, client, strays>>
  BY DEF TypeOK, Claim
<1>2. \A t \in Slots : t # s => task'[t] = task[t]
  BY OthersStay DEF TaskStep
<1>3. MakingOK'
  BY <1>1, StillMaking DEF JobInv, Locked
<1>4. CASE UNCHANGED manual /\ Goto(s, "begun")
  <2>1. task[s].phase \notin InHand
    BY <1>1 DEF InHand
  <2> QED BY <2>1, <1>1, <1>2, <1>4, TaskOnly
<1>5. CASE /\ manual[a].pending
           /\ manual' = [manual EXCEPT ![a].pending = FALSE]
           /\ task' = [task EXCEPT ![s].phase = "begun", ![s].job = manual[a].job]
  <2>1. task'[s].phase = "begun" /\ task'[s].job = manual[a].job /\ task'[s].file = a
    BY <1>1, <1>5 DEF Tasks
  <2>2. \A b \in Artifacts : b # a => manual'[b] = manual[b]
    BY <1>1, <1>5
  <2>3. \A j \in JobIds : ~WorksFor(s, j)
    BY <1>1 DEF WorksFor, InHand
  <2>4. ASSUME NEW j \in JobIds, manual[jobs[j].file] = [job |-> j, pending |-> TRUE]
        PROVE  Owned(j)'
    <3>1. CASE jobs[j].file = a
      <4>1. WorksFor(s, j)'
        BY <3>1, <2>1, <2>4, <1>1 DEF WorksFor, InHand
      <4> QED BY <4>1 DEF Owned
    <3>2. CASE jobs[j].file # a
      <4>1. manual'[jobs[j].file] = manual[jobs[j].file]
        BY <3>2, <1>1, <1>5
      <4> QED BY <4>1, <2>4, <1>1 DEF Owned
    <3> QED BY <3>1, <3>2
  <2>5. \A j \in JobIds : jobs'[j].file = jobs[j].file /\ (Running(j)' => Running(j))
    BY <1>1 DEF Running
  <2>6. JobsAreOwned'
    BY <2>3, <2>4, <2>5, <1>1, <1>2, TaskHands DEF JobInv
  <2> QED BY <2>6, <1>3 DEF JobInv
<1> QED BY <1>4, <1>5 DEF Claim

\* The pass that ends closes its job, or leaves a stray.
LEMMA CloseJobs ==
    ASSUME TypeOK, JobInv, NEW s \in Slots, NEW status \in {"completed", "failed"},
           TaskStep(s), task[s].job # None, CloseJob(s, status), UNCHANGED <<manual, client>>
    PROVE  JobInv'
<1>1. PICK k \in JobIds : k = task[s].job
  BY DEF TypeOK, Tasks
<1>0. jobs \in [JobIds -> Jobs]
  BY DEF TypeOK
<1>2. \/ jobs' = [jobs EXCEPT ![k].status = status] /\ strays' = strays
      \/ jobs' = jobs /\ strays' = strays \cup {k}
  BY <1>1 DEF CloseJob
<1>3. /\ \A j \in JobIds : jobs'[j].file = jobs[j].file /\ (Running(j)' => Running(j))
      /\ Running(k)' => k \in strays'
  <2>1. CASE jobs' = [jobs EXCEPT ![k].status = status]
    <3>1. jobs'[k].file = jobs[k].file /\ jobs'[k].status = status
      BY <2>1, <1>0 DEF Jobs
    <3>2. \A j \in JobIds : j # k => jobs'[j] = jobs[j]
      BY <2>1, <1>0
    <3> QED BY <3>1, <3>2, <1>1 DEF Running
  <2>2. CASE jobs' = jobs /\ strays' = strays \cup {k}
    BY <2>2 DEF Running
  <2> QED BY <1>2, <2>1, <2>2
<1>5. \A j \in JobIds : Running(j)' /\ WorksFor(s, j) => j \in strays' \/ Owned(j)'
  BY <1>1, <1>3 DEF WorksFor
<1>6. \A j \in JobIds : manual[jobs[j].file] = [job |-> j, pending |-> TRUE] => Owned(j)'
  BY <1>3 DEF Owned
<1>7. strays \subseteq strays'
  BY <1>2
<1>8. JobsAreOwned'
  BY <1>3, <1>5, <1>6, <1>7, OthersStay, TaskHands DEF JobInv
<1>9. MakingOK'
  <2>1. \A j \in JobIds : jobs'[j].file = jobs[j].file
    BY <1>3
  <2> QED BY <2>1, StillMaking DEF JobInv
<1> QED BY <1>8, <1>9 DEF JobInv

\* Removing an entry leaves a stray when it was waiting, and nothing else.
LEMMA RemoveJobs ==
    ASSUME TypeOK, JobInv, NEW s \in Slots, Unlist(s) \/ (CheckManual(s) /\ ~manual[task[s].file].pending)
    PROVE  JobInv'
<1> DEFINE a == task[s].file
<1>1. /\ task[s].phase \in {"unlisting", "forgotten"} /\ a \in Artifacts /\ ~Locked
      /\ manual' = [manual EXCEPT ![a] = NoEntry]
      /\ manual \in [Artifacts -> Entries]
      /\ UNCHANGED <<jobs, client>> /\ strays \subseteq strays'
  BY DEF TypeOK, Unlist, CheckManual
<1>2. \A t \in Slots : t # s => task'[t] = task[t]
  BY OthersStay DEF TaskStep
<1>3. MakingOK'
  BY <1>1, StillMaking DEF JobInv, Locked
<1>4. \A j \in JobIds : ~WorksFor(s, j)
  BY <1>1 DEF WorksFor, InHand
<1>5. ASSUME NEW j \in JobIds, manual[jobs[j].file] = [job |-> j, pending |-> TRUE]
      PROVE  j \in strays' \/ Owned(j)'
  <2>1. CASE jobs[j].file = a
    BY <2>1, <1>5 DEF Unlist
  <2>2. CASE jobs[j].file # a
    <3>1. manual'[jobs[j].file] = manual[jobs[j].file]
      BY <2>2, <1>1
    <3> QED BY <3>1, <1>1, <1>5 DEF Owned
  <2> QED BY <2>1, <2>2
<1>6. \A j \in JobIds : jobs'[j].file = jobs[j].file /\ (Running(j)' => Running(j))
  BY <1>1 DEF Running
<1>7. JobsAreOwned'
  BY <1>1, <1>2, <1>4, <1>5, <1>6, TaskHands DEF JobInv
<1> QED BY <1>3, <1>7 DEF JobInv

\* Every step of a task keeps the jobs owned.
LEMMA TaskJobs ==
    ASSUME TypeOK, JobInv, NEW s \in Slots, TaskStep(s)
    PROVE  JobInv'
<1>0. /\ task[s] \in Tasks /\ task \in [Slots -> Tasks]
      /\ \A t \in Slots : t # s => task'[t] = task[t]
  BY OthersStay DEF TypeOK
<1>g. ASSUME NEW p \in InHand, Goto(s, p)
      PROVE  task'[s].job = task[s].job /\ task'[s].file = task[s].file /\ task'[s].phase \in InHand
  BY <1>0, <1>g DEF Goto, Tasks
<1>p. InHand = {"begun", "analysing", "written", "failed"}
  BY DEF InHand
<1>1. CASE ReadBlob(s) \/ AnalyseFails(s) \/ WriteIndex(s)
  <2>1. task'[s].job = task[s].job /\ task'[s].file = task[s].file /\ task'[s].phase \in InHand
    <3>1. CASE task' = [task EXCEPT ![s].phase = "analysing", ![s].read = content[task[s].file]]
      BY <3>1, <1>0, <1>p DEF Tasks
    <3>2. CASE \E p \in InHand : Goto(s, p)
      BY <3>2, <1>g
    <3> QED BY <1>1, <1>p, <3>1, <3>2 DEF ReadBlob, AnalyseFails, WriteIndex
  <2>2. UNCHANGED <<jobs, manual, client, strays>>
    BY <1>1 DEF ReadBlob, AnalyseFails, WriteIndex
  <2> QED BY <2>1, <2>2, <1>0, TaskOnly
<1>2. CASE Succeed(s) \/ FailManual(s)
  <2>1. CASE task[s].job # None
    <3>1. UNCHANGED <<manual, client>> /\ \E status \in {"completed", "failed"} : CloseJob(s, status)
      BY <1>2, <2>1 DEF Succeed, FailManual
    <3> QED BY <3>1, <2>1, CloseJobs
  <2>2. CASE task[s].job = None
    <3>1. UNCHANGED <<jobs, manual, client, strays>>
      BY <1>2, <2>2 DEF Succeed, FailManual
    <3> QED BY <3>1, <2>2, <1>0, TaskOnly
  <2> QED BY <2>1, <2>2
<1>3. CASE ScheduleRetry(s) \/ GiveUp(s)
  <2>1. task[s].job = None /\ UNCHANGED <<jobs, manual, client, strays>>
    BY <1>3 DEF ScheduleRetry, GiveUp
  <2> QED BY <2>1, <1>0, TaskOnly
<1>4. CASE Forget(s) \/ Requeue(s) \/ (CheckManual(s) /\ manual[task[s].file].pending)
  <2>1. task[s].phase \notin InHand
    BY <1>4, <1>p DEF Forget, Requeue, CheckManual
  <2>2. UNCHANGED <<jobs, manual, client, strays>>
    BY <1>4 DEF Forget, Requeue, CheckManual
  <2> QED BY <2>1, <2>2, <1>0, TaskOnly
<1> QED BY <1>1, <1>2, <1>3, <1>4, ClaimJobs, RemoveJobs DEF TaskStep

\* Outside the tasks, a job that is being made goes on or becomes a stray.
LEMMA ElsewhereJobs ==
    ASSUME TypeOK, JobInv, UNCHANGED <<jobs, manual>>, strays \subseteq strays',
           \A s \in Slots, j \in JobIds : WorksFor(s, j) => WorksFor(s, j)',
           \A c \in Clients :
              /\ client'[c].phase = "made" => client'[c] = client[c]
              /\ client[c].phase = "made" => client'[c] = client[c] \/ client[c].job \in strays'
    PROVE  JobInv'
<1>1. MakingOK'
  BY StillMaking DEF JobInv
<1>2. JobsAreOwned'
  <2> SUFFICES ASSUME NEW j \in JobIds, Running(j), j \notin strays'
               PROVE  Owned(j)'
    BY DEF JobsAreOwned, Running
  <2>1. Owned(j)
    BY DEF JobInv, JobsAreOwned
  <2> QED BY <2>1 DEF Owned
<1> QED BY <1>1, <1>2 DEF JobInv

\* Every step keeps the jobs owned.
LEMMA NextJobs == TypeOK /\ JobInv /\ [Next]_vars => JobInv'
<1> SUFFICES ASSUME TypeOK, JobInv, [Next]_vars
             PROVE  JobInv'
  OBVIOUS
<1> USE DEF dbVars, queueVars
<1>0. /\ UNCHANGED <<jobs, task>> => \A s \in Slots, j \in JobIds : WorksFor(s, j) => WorksFor(s, j)'
      /\ NoClient.phase = "idle"
  BY DEF WorksFor, NoClient
<1>1. CASE UNCHANGED <<jobs, manual, task, client, strays>>
  BY <1>0, <1>1, ElsewhereJobs
<1>2. ASSUME NEW c \in Clients,
             (\E a \in Artifacts : Store(c, a)) \/ ReadSummary(c) \/ Enqueue(c) \/ QueueAsked(c)
      PROVE  JobInv'
  <2>1. UNCHANGED <<jobs, manual, task, strays>>
    BY <1>2 DEF Store, ReadSummary, Enqueue, QueueAsked
  <2>2. client[c].phase # "made" /\ client'[c].phase # "made" /\ \A d \in Clients : d # c => client'[d] = client[d]
    <3>1. client \in [Clients -> Handlers]
      BY DEF TypeOK
    <3>2. client[c].phase # "made"
      BY <1>2 DEF Store, ReadSummary, Enqueue, QueueAsked
    <3>3. ASSUME NEW h, client' = [client EXCEPT ![c] = h]
          PROVE  client'[c] = h /\ \A d \in Clients : d # c => client'[d] = client[d]
      BY <3>1, <3>3
    <3>4. CASE client' = [client EXCEPT ![c] = NoClient]
      BY <1>0, <3>2, <3>3, <3>4
    <3>5. ASSUME NEW a, client' = [client EXCEPT ![c] = [NoClient EXCEPT !.phase = "stored", !.file = a]]
          PROVE  client'[c].phase # "made" /\ \A d \in Clients : d # c => client'[d] = client[d]
      BY <3>1, <3>5 DEF NoClient
    <3>6. ASSUME NEW u, client' = [client EXCEPT ![c].phase = "read", ![c].unindexed = u]
          PROVE  client'[c].phase # "made" /\ \A d \in Clients : d # c => client'[d] = client[d]
      BY <3>1, <3>6 DEF Handlers
    <3>7. CASE \E a \in Artifacts : Store(c, a)
      BY <3>2, <3>5, <3>7 DEF Store
    <3>8. CASE ReadSummary(c)
      <4>1. CASE Stored(client[c].file)
        BY <3>2, <3>6, <3>8, <4>1 DEF ReadSummary
      <4> QED BY <3>4, <3>8, <4>1 DEF ReadSummary
    <3> QED BY <1>2, <3>4, <3>7, <3>8 DEF Enqueue, QueueAsked
  <2> QED BY <1>0, <2>1, <2>2, ElsewhereJobs
<1>3. ASSUME NEW c \in Clients, Disconnect(c)
      PROVE  JobInv'
  <2>1. /\ client'[c].phase = "idle" /\ \A d \in Clients : d # c => client'[d] = client[d]
        /\ client[c].phase = "made" => client[c].job \in strays'
    BY <1>0, <1>3 DEF TypeOK, Disconnect
  <2>2. UNCHANGED <<jobs, manual, task>> /\ strays \subseteq strays'
    BY <1>3 DEF Disconnect
  <2> QED BY <1>0, <2>1, <2>2, ElsewhereJobs
<1>4. ASSUME NEW s \in Slots, Pick(s)
      PROVE  JobInv'
  <2>1. /\ task[s].phase \notin InHand /\ \A t \in Slots : t # s => task'[t] = task[t]
        /\ UNCHANGED <<jobs, manual, client, strays>>
    BY <1>4 DEF TypeOK, Pick, InHand
  <2> QED BY <2>1, TaskOnly
<1>5. CASE Restart
  <2>1. \A c \in Clients : client'[c].phase # "made"
    BY <1>0, <1>5 DEF Restart
  <2>2. \A j \in JobIds : ~Running(j)'
    BY <1>5 DEF TypeOK, Restart, CloseInterrupted, Running, Jobs
  <2> QED BY <2>1, <2>2 DEF JobInv, JobsAreOwned, MakingOK
<1>6. CASE \/ \E a \in Artifacts : DeleteArtifact(a) \/ ResumePush(a)
           \/ \E r \in sleeping : WakeRetry(r)
           \/ ResumeList \/ UNCHANGED vars
  BY <1>1, <1>6 DEF DeleteArtifact, ResumePush, WakeRetry, ResumeList, vars
<1> QED BY <1>2, <1>3, <1>4, <1>5, <1>6, AskJobs, ListJobs, TaskJobs, Steps

\* The jobs' invariant holds in every reachable state.
LEMMA JobInvariance == Spec => []JobInv
<1>1. Init => JobInv
  <2>1. Init => \A c \in Clients : client[c].phase # "made"
    BY DEF Init, NoClient
  <2>2. Init => \A j \in JobIds : ~Running(j)
    BY DEF Init, Running, NoJob
  <2> QED BY <2>1, <2>2 DEF JobInv, JobsAreOwned, MakingOK
<1>2. IInv /\ JobInv /\ [Next]_vars => JobInv'
  BY NextJobs DEF IInv
<1> QED BY <1>1, <1>2, Invariance, PTL DEF Spec

\* enqueue_manual and index_one hand a job on without ever letting go of it, at
\* any number of permits: but for the strays, somebody will close it.
THEOREM JobsOwned == Spec => []JobsAreOwned
<1>1. JobInv => JobsAreOwned
  BY DEF JobInv
<1> QED BY <1>1, JobInvariance, PTL

\* What enqueue_manual's lock and entry give, at any number of permits: a file
\* has one job, or a second one that waits while an overtaken one is worked on.
THEOREM OneJob == Spec => []OneJobPerFile
<1>1. TypeOK /\ Tokens /\ JobInv => OneJobPerFile
  <2> SUFFICES ASSUME TypeOK, Tokens, JobInv, NEW j \in JobIds \ strays, NEW k \in JobIds \ strays,
                      Running(j), Running(k), jobs[j].file = jobs[k].file, j # k
               PROVE  Overtaken(j) <=> ~Overtaken(k)
    BY DEF OneJobPerFile
  <2> DEFINE a == jobs[j].file
             Works(i) == \E s \in Slots : WorksFor(s, i)
             Made(i) == \E c \in Clients : client[c].phase = "made" /\ client[c].job = i
             Entered(i) == manual[jobs[i].file] = [job |-> i, pending |-> TRUE]
  <2>1. Owned(j) /\ Owned(k)
    BY DEF JobInv, JobsAreOwned
  <2>2. ~(Works(j) /\ Works(k))
    <3> SUFFICES ASSUME NEW s \in Slots, NEW t \in Slots, WorksFor(s, j), WorksFor(t, k)
                 PROVE  FALSE
      OBVIOUS
    <3>1. /\ task[s].phase \in Holding /\ task[t].phase \in Holding
          /\ task[s].file = a /\ task[t].file = a /\ a \in Artifacts
      BY DEF WorksFor, InHand, Holding, TypeOK
    <3>2. s = t
      BY <3>1 DEF Tokens, OneTokenPerFile, Holds
    <3> QED BY <3>2 DEF WorksFor
  <2>3. ASSUME NEW i \in {j, k}, Made(i)
        PROVE  manual[a].job = None
    <3>1. PICK c \in Clients : client[c].phase = "made" /\ client[c].job = i
      BY <2>3
    <3>2. manual[client[c].file] = NoEntry /\ client[c].file = a
      BY <3>1 DEF JobInv, MakingOK
    <3> QED BY <3>2 DEF NoEntry
  <2>4. \A i \in {j, k} : Entered(i) => manual[a].job = i
    OBVIOUS
  <2>5. ~(Made(j) /\ Made(k))
    BY DEF JobInv, MakingOK
  <2>6. None \notin {j, k}
    BY ConstantsOK
  <2>7. Works(j) \/ Works(k)
    BY <2>1, <2>3, <2>4, <2>5, <2>6 DEF Owned
  <2>8. \A i \in {j, k} : Overtaken(i) <=> Works(i) /\ manual[a].job # i
    BY DEF Overtaken
  <2>9. Works(j) => manual[a].job # j
    BY <2>1, <2>2, <2>3, <2>4, <2>6 DEF Owned
  <2>10. Works(k) => manual[a].job # k
    BY <2>1, <2>2, <2>3, <2>4, <2>6 DEF Owned
  <2> QED BY <2>2, <2>7, <2>8, <2>9, <2>10
<1> QED BY <1>1, Invariance, JobInvariance, PTL DEF IInv

-----------------------------------------------------------------------------
(* One flight at a time: the refinement of SingleFlight *)

\* What waits is what some place of some queue holds.
LEMMA WaitingIs ==
    \A r : r \in Waiting <=> \E w \in Workspaces : \E i \in DOMAIN queue[w] : queue[w][i] = r
BY DEF Waiting

\* A push makes its request wait.
LEMMA PushWaits ==
    ASSUME QueueTypes, NEW r \in Requests, Push(r)
    PROVE  Waiting' = Waiting \cup {r}
<1> DEFINE v == WorkspaceOf[r.file]
<1>1. v \in Workspaces /\ queue \in [Workspaces -> Seq(Requests)]
  BY ConstantsOK DEF Requests, QueueTypes
<1>2. queue' = [queue EXCEPT ![v] = Append(@, r)]
  BY DEF Push
<1> HIDE DEF v
<1>3. queue'[v] = Append(queue[v], r) /\ queue[v] \in Seq(Requests)
  BY <1>1, <1>2
<1>4. /\ DOMAIN queue'[v] = 1..(Len(queue[v]) + 1) /\ DOMAIN queue[v] = 1..Len(queue[v])
      /\ Len(queue[v]) \in Nat
      /\ \A i \in 1..Len(queue[v]) : queue'[v][i] = queue[v][i]
      /\ queue'[v][Len(queue[v]) + 1] = r
  BY <1>3
<1>5. \A w \in Workspaces \ {v} : queue'[w] = queue[w]
  BY <1>1, <1>2
<1>6. ASSUME NEW q
      PROVE  (\E w \in Workspaces : \E i \in DOMAIN queue'[w] : queue'[w][i] = q)
             <=> (\E w \in Workspaces : \E i \in DOMAIN queue[w] : queue[w][i] = q) \/ q = r
  <2>1. (\E i \in DOMAIN queue'[v] : queue'[v][i] = q) <=> (\E i \in DOMAIN queue[v] : queue[v][i] = q) \/ q = r
    BY <1>4
  <2> QED BY <2>1, <1>1, <1>5
<1>7. \A q : q \in Waiting' <=> q \in Waiting \/ q = r
  BY <1>6 DEF Waiting
<1> QED BY <1>7

\* A pop takes out a request that waited, which waits nowhere else.
LEMMA PopWaits ==
    ASSUME TypeOK, Tokens, Pop
    PROVE  LET r == Head(queue[Head(turns)]) IN
           r \in Waiting /\ Waiting' = Waiting \ {r}
<1> DEFINE v == Head(turns)
           r == Head(queue[v])
<1>1. v \in Workspaces /\ Len(turns) \in Nat \ {0} /\ turns[1] = v
  BY DEF Pop, TypeOK
<1>2. queue[v] # <<>> /\ queue[v] \in Seq(Requests) /\ queue \in [Workspaces -> Seq(Requests)]
  <2>1. 1 \in DOMAIN turns
    BY <1>1 DEF TypeOK
  <2> QED BY <1>1, <2>1 DEF TypeOK, Tokens, TurnsMatchQueues
<1>3. queue' = [queue EXCEPT ![v] = Tail(@)]
  BY DEF Pop
<1>4. \A w \in Workspaces : \A i \in DOMAIN queue[w] : WorkspaceOf[queue[w][i].file] = w
  BY DEF Tokens, TurnsMatchQueues
<1>5. \A w \in Workspaces : \A i, j \in DOMAIN queue[w] : queue[w][i].file = queue[w][j].file => i = j
  BY DEF Tokens, OneTokenPerFile
<1>6. queue'[v] = Tail(queue[v]) /\ \A w \in Workspaces \ {v} : queue'[w] = queue[w]
  BY <1>1, <1>2, <1>3
<1>7. r = queue[v][1] /\ 1 \in DOMAIN queue[v]
  BY <1>2
<1>8. /\ DOMAIN queue[v] = 1..Len(queue[v]) /\ DOMAIN queue'[v] = 1..(Len(queue[v]) - 1)
      /\ Len(queue[v]) \in Nat \ {0}
      /\ \A i \in 1..(Len(queue[v]) - 1) : queue'[v][i] = queue[v][i + 1]
  BY <1>2, <1>6
<1> HIDE DEF v, r
<1>9. \A q : (\E i \in DOMAIN queue'[v] : queue'[v][i] = q)
            <=> (\E i \in DOMAIN queue[v] : i # 1 /\ queue[v][i] = q)
  <2>1. \A i \in DOMAIN queue'[v] : i + 1 \in DOMAIN queue[v] /\ i + 1 # 1 /\ queue'[v][i] = queue[v][i + 1]
    BY <1>8
  <2>2. ASSUME NEW i \in DOMAIN queue[v], i # 1
        PROVE  i - 1 \in DOMAIN queue'[v] /\ queue'[v][i - 1] = queue[v][i]
    <3>1. i - 1 \in 1..(Len(queue[v]) - 1) /\ (i - 1) + 1 = i
      BY <1>8, <2>2
    <3> QED BY <1>8, <3>1
  <2> QED BY <2>1, <2>2
<1>10. \A i \in DOMAIN queue[v] : i # 1 <=> queue[v][i] # r
  BY <1>1, <1>5, <1>7
<1>11. \A w \in Workspaces \ {v} : \A i \in DOMAIN queue[w] : queue[w][i] # r
  BY <1>1, <1>4, <1>7
<1>12. ASSUME NEW q
       PROVE  (\E w \in Workspaces : \E i \in DOMAIN queue'[w] : queue'[w][i] = q)
              <=> (\E w \in Workspaces : \E i \in DOMAIN queue[w] : queue[w][i] = q) /\ q # r
  <2>1. (\E i \in DOMAIN queue'[v] : queue'[v][i] = q) <=> (\E i \in DOMAIN queue[v] : queue[v][i] = q) /\ q # r
    BY <1>9, <1>10
  <2>2. \A w \in Workspaces \ {v} :
          (\E i \in DOMAIN queue'[w] : queue'[w][i] = q) <=> (\E i \in DOMAIN queue[w] : queue[w][i] = q) /\ q # r
    BY <1>6, <1>11
  <2> QED BY <2>1, <2>2
<1>13. \A q : q \in Waiting' <=> q \in Waiting /\ q # r
  BY <1>12 DEF Waiting
<1>14. r \in Waiting
  BY <1>1, <1>7, WaitingIs
<1> QED BY <1>13, <1>14 DEF v, r

Others(s) == \A t \in Slots \ {s} : task'[t] = task[t]

\* A task that goes on with its request, or has none, leaves the work as it is.
LEMMA WorkStays ==
    ASSUME NEW s \in Slots, Others(s),
           \/ /\ task[s].phase \in Holding /\ task'[s].phase \in Holding
              /\ task'[s].file = task[s].file /\ task'[s].attempt = task[s].attempt
           \/ task[s].phase \notin Holding /\ task'[s].phase \notin Holding
    PROVE  Working' = Working
<1>1. \A t \in Slots : (task'[t].phase \in Holding <=> task[t].phase \in Holding)
                       /\ (task[t].phase \in Holding => Held(t)' = Held(t))
  BY DEF Others, Held
<1> QED BY <1>1 DEF Working

\* One that takes a request works on it.
LEMMA WorkTaken ==
    ASSUME NEW s \in Slots, Others(s), task[s].phase \notin Holding, task'[s].phase \in Holding
    PROVE  Working' = Working \cup {Held(s)'}
<1>1. \A t \in Slots \ {s} : task'[t].phase = task[t].phase /\ Held(t)' = Held(t)
  BY DEF Others, Held
<1> QED BY <1>1 DEF Working

\* One that lets go of its request was the only one to work on it.
LEMMA WorkLeft ==
    ASSUME TypeOK, Tokens, NEW s \in Slots, Others(s),
           task[s].phase \in Holding, task'[s].phase \notin Holding
    PROVE  Held(s) \in Working /\ Working' = Working \ {Held(s)}
<1>1. \A t \in Slots \ {s} : task'[t].phase = task[t].phase /\ Held(t)' = Held(t)
  BY DEF Others, Held
<1>2. "idle" \notin Holding
  BY DEF Holding
<1>3. \A t \in Slots \ {s} : task[t].phase \in Holding => task[t].file # task[s].file
  BY <1>2 DEF TypeOK, Tokens, OneTokenPerFile, Holds
<1>4. \A t \in Slots \ {s} : task[t].phase \in Holding => Held(t) # Held(s)
  BY <1>3 DEF Held
<1> QED BY <1>1, <1>4 DEF Working

\* A request for a file that has none is asked for; one for a marked file is dropped.
LEMMA RequestFlies ==
    ASSUME TypeOK, Tokens, NEW a \in Artifacts, QueueRequest(a), UNCHANGED sleeping, Working' = Working
    PROVE  [Flight!Next]_<<Waiting, Working, sleeping>>
<1>1. CASE a \in queued
  BY <1>1 DEF QueueRequest, Waiting
<1>2. CASE a \notin queued
  <2> DEFINE r == [file |-> a, attempt |-> 0]
  <2>1. r \in Requests
    BY ConstantsOK DEF Requests
  <2>2. Waiting' = Waiting \cup {r}
    <3> HIDE DEF r
    <3>1. Push(r)
      BY <1>2 DEF QueueRequest, r
    <3> QED BY <2>1, <3>1, PushWaits DEF TypeOK, QueueTypes
  <2>3. ~Waits(a) /\ ~Sleeps(a) /\ \A s \in Slots : ~Holds(s, a)
    BY <1>2 DEF Tokens, MarksAreBacked
  <2>4. \A q \in Waiting : q.file # a
    BY <2>3, WaitingIs DEF Waits
  <2>5. \A q \in Working : q.file # a
    BY <2>3 DEF Working, Held, Holds
  <2>6. \A q \in sleeping : q.file # a
    BY <2>3 DEF Sleeps
  <2>7. Flight!Ask(a)
    BY <2>2, <2>4, <2>5, <2>6 DEF Flight!Ask, Flight!InFlight
  <2> QED BY <2>7 DEF Flight!Next
<1> QED BY <1>1, <1>2

\* A permit begins the request it pops.
LEMMA PickFlies ==
    ASSUME TypeOK, Tokens, NEW s \in Slots, Pick(s)
    PROVE  Flight!Next
<1> DEFINE r == Head(queue[Head(turns)])
<1>1. r \in Waiting /\ Waiting' = Waiting \ {r}
  BY PopWaits DEF Pick
<1>2. r \in Requests
  BY <1>1, WaitingIs DEF TypeOK
<1>3. /\ task' = [task EXCEPT ![s] = [phase |-> "picked", file |-> r.file, attempt |-> r.attempt,
                                      job |-> None, read |-> 0]]
      /\ task[s].phase = "idle" /\ sleeping' = sleeping /\ task \in [Slots -> Tasks]
  BY DEF Pick, TypeOK
<1> HIDE DEF r
<1>4. /\ task'[s].phase = "picked" /\ task'[s].file = r.file /\ task'[s].attempt = r.attempt
      /\ Others(s)
  BY <1>3 DEF Others
<1>5. Held(s)' = r
  <2>1. r = [file |-> r.file, attempt |-> r.attempt]
    BY <1>2 DEF Requests
  <2> QED BY <1>4, <2>1 DEF Held
<1>6. Working' = Working \cup {r}
  BY <1>3, <1>4, <1>5, WorkTaken DEF Holding
<1>7. Flight!Begin(r)
  BY <1>1, <1>3, <1>6 DEF Flight!Begin
<1> QED BY <1>1, <1>7 DEF Flight!Next

\* A failed attempt rests, with one retry used up.
LEMMA RetryFlies ==
    ASSUME TypeOK, Tokens, NEW s \in Slots, ScheduleRetry(s)
    PROVE  Flight!Next
<1>1. /\ task' = [task EXCEPT ![s] = NoTask] /\ queue' = queue
      /\ task[s].phase = "failed" /\ task \in [Slots -> Tasks] /\ task[s].attempt < MaxRetries
      /\ sleeping' = sleeping \cup {[file |-> task[s].file, attempt |-> task[s].attempt + 1]}
  BY DEF ScheduleRetry, TypeOK
<1>2. Others(s) /\ task[s].phase \in Holding /\ task'[s].phase \notin Holding
  BY <1>1 DEF Others, NoTask, Holding
<1>3. Held(s) \in Working /\ Working' = Working \ {Held(s)}
  BY <1>2, WorkLeft
<1>4. Waiting' = Waiting
  BY <1>1 DEF Waiting
<1>5. Flight!Rest(Held(s))
  BY <1>1, <1>3, <1>4 DEF Flight!Rest, Held
<1> QED BY <1>3, <1>5 DEF Flight!Next

\* A task that forgets its file has ended the request.
LEMMA ForgetFlies ==
    ASSUME TypeOK, Tokens, NEW s \in Slots, Forget(s)
    PROVE  Flight!Next
<1>1. /\ task' = [task EXCEPT ![s].phase = "forgotten"] /\ queue' = queue /\ sleeping' = sleeping
      /\ task[s].phase = "done" /\ task \in [Slots -> Tasks]
  BY DEF Forget, Goto, TypeOK
<1>2. Others(s) /\ task[s].phase \in Holding /\ task'[s].phase \notin Holding
  BY <1>1 DEF Others, Holding, Tasks
<1>3. Held(s) \in Working /\ Working' = Working \ {Held(s)}
  BY <1>2, WorkLeft
<1>4. Waiting' = Waiting
  BY <1>1 DEF Waiting
<1>5. Flight!End(Held(s))
  BY <1>1, <1>3, <1>4 DEF Flight!End
<1> QED BY <1>3, <1>5 DEF Flight!Next

\* A retry that wakes waits again, and counts what it has counted.
LEMMA WakeFlies ==
    ASSUME TypeOK, NEW r \in sleeping, WakeRetry(r)
    PROVE  Flight!Next
<1>1. r \in Requests /\ sleeping' = sleeping \ {r} /\ task' = task
  BY DEF WakeRetry, TypeOK
<1>2. Waiting' = Waiting \cup {r}
  BY <1>1, PushWaits DEF WakeRetry, TypeOK, QueueTypes
<1>3. Working' = Working
  BY <1>1 DEF Working, Held
<1>4. Flight!Again(r)
  BY <1>1, <1>2, <1>3 DEF Flight!Again
<1> QED BY <1>4 DEF Flight!Next

\* The other steps of a task leave its request where it is.
LEMMA TaskGoesOn ==
    ASSUME TypeOK, NEW s \in Slots, TaskStep(s), ~ScheduleRetry(s), ~Forget(s)
    PROVE  Working' = Working /\ (Requeue(s) \/ UNCHANGED <<Waiting, sleeping>>)
<1>0. task[s] \in Tasks /\ task \in [Slots -> Tasks] /\ NoTask.phase = "idle"
  BY DEF TypeOK, NoTask
<1>1. Others(s)
  BY <1>0 DEF TaskStep, Claim, ReadBlob, AnalyseFails, WriteIndex, Succeed, FailManual, GiveUp, Unlist,
              CheckManual, Requeue, Goto, Others
<1>2. CASE Claim(s) \/ ReadBlob(s) \/ AnalyseFails(s) \/ WriteIndex(s) \/ Succeed(s) \/ FailManual(s)
           \/ GiveUp(s) \/ Unlist(s)
  <2>1. queue' = queue /\ sleeping' = sleeping
    BY <1>2 DEF Claim, ReadBlob, AnalyseFails, WriteIndex, Succeed, FailManual, GiveUp, Unlist, queueVars
  <2>2. task[s].phase \in Holding
    BY <1>2 DEF Claim, ReadBlob, AnalyseFails, WriteIndex, Succeed, FailManual, GiveUp, Unlist, Holding
  <2>3. task'[s].phase \in Holding /\ task'[s].file = task[s].file /\ task'[s].attempt = task[s].attempt
    <3>1. ASSUME NEW p \in Holding, Goto(s, p)
          PROVE  task'[s].phase \in Holding /\ task'[s].file = task[s].file /\ task'[s].attempt = task[s].attempt
      BY <1>0, <3>1 DEF Goto, Tasks
    <3>2. {"begun", "analysing", "failed", "written", "unlisting", "done"} \subseteq Holding
      BY DEF Holding
    <3>3. CASE Claim(s)
      BY <1>0, <3>1, <3>2, <3>3 DEF Claim, Tasks
    <3>4. CASE ReadBlob(s)
      BY <1>0, <3>1, <3>2, <3>4 DEF ReadBlob, Tasks
    <3>5. CASE AnalyseFails(s) \/ FailManual(s) \/ GiveUp(s) \/ Unlist(s)
      BY <3>1, <3>2, <3>5 DEF AnalyseFails, FailManual, GiveUp, Unlist
    <3>6. CASE WriteIndex(s)
      BY <3>1, <3>2, <3>6 DEF WriteIndex
    <3>7. CASE Succeed(s)
      BY <3>1, <3>2, <3>7 DEF Succeed
    <3> QED BY <1>2, <3>3, <3>4, <3>5, <3>6, <3>7
  <2> QED BY <1>1, <2>1, <2>2, <2>3, WorkStays DEF Waiting
<1>3. CASE CheckManual(s)
  <2>0. task[s].phase = "forgotten"
    BY <1>3 DEF CheckManual
  <2>1. task'[s].phase \notin Holding
    <3>1. CASE Goto(s, "requeue")
      <4>1. task'[s].phase = "requeue"
        BY <1>0, <3>1 DEF Goto, Tasks
      <4> QED BY <4>1 DEF Holding
    <3>2. CASE task' = [task EXCEPT ![s] = NoTask]
      <4>1. task'[s].phase = "idle"
        BY <1>0, <3>2
      <4> QED BY <4>1 DEF Holding
    <3> QED BY <1>3, <3>1, <3>2 DEF CheckManual
  <2>2. queue' = queue /\ sleeping' = sleeping
    BY <1>3 DEF CheckManual, queueVars
  <2>3. task[s].phase \notin Holding
    BY <2>0 DEF Holding
  <2> QED BY <1>1, <2>1, <2>2, <2>3, WorkStays DEF Waiting
<1>4. CASE Requeue(s)
  <2>1. task[s].phase \notin Holding /\ task'[s].phase \notin Holding
    BY <1>0, <1>4 DEF Requeue, Holding
  <2> QED BY <1>1, <1>4, <2>1, WorkStays
<1> QED BY <1>2, <1>3, <1>4 DEF TaskStep

\* Every step of the queue is one of SingleFlight or leaves the requests.
LEMMA NextFlies ==
    ASSUME TypeOK, Tokens, [Next]_vars
    PROVE  [Flight!Next]_<<Waiting, Working, sleeping>>
<1> USE DEF queueVars
<1>0. ASSUME UNCHANGED <<queue, sleeping, task>>
      PROVE  UNCHANGED <<Waiting, Working, sleeping>>
  BY <1>0 DEF Waiting, Working, Held
<1>1. ASSUME NEW c \in Clients, Enqueue(c) \/ QueueAsked(c)
      PROVE  [Flight!Next]_<<Waiting, Working, sleeping>>
  <2>1. task' = task /\ sleeping' = sleeping
    BY <1>1 DEF Enqueue, QueueAsked
  <2>2. Working' = Working
    BY <2>1 DEF Working, Held
  <2>3. client[c].file \in Artifacts
    BY <1>1 DEF Enqueue, QueueAsked, TypeOK
  <2>4. QueueRequest(client[c].file) \/ queue' = queue
    BY <1>1 DEF Enqueue, QueueAsked
  <2> QED BY <1>0, <2>1, <2>2, <2>3, <2>4, RequestFlies
<1>2. ASSUME NEW a \in Artifacts, ResumePush(a)
      PROVE  [Flight!Next]_<<Waiting, Working, sleeping>>
  <2>1. Working' = Working
    BY <1>2 DEF ResumePush, Working, Held
  <2> QED BY <1>2, <2>1, RequestFlies DEF ResumePush
<1>3. ASSUME NEW s \in Slots, TaskStep(s)
      PROVE  [Flight!Next]_<<Waiting, Working, sleeping>>
  <2>1. CASE ScheduleRetry(s) \/ Forget(s)
    BY <2>1, RetryFlies, ForgetFlies
  <2>2. CASE Requeue(s)
    <3>1. task[s].file \in Artifacts /\ ~ScheduleRetry(s) /\ ~Forget(s)
      BY <2>2 DEF Requeue, ScheduleRetry, Forget, TypeOK
    <3> QED BY <1>3, <2>2, <3>1, TaskGoesOn, RequestFlies DEF Requeue
  <2> QED BY <1>3, <2>1, <2>2, TaskGoesOn
<1>4. CASE Restart
  <2>1. Waiting' = {}
    BY <1>4 DEF Restart, Waiting
  <2>2. Working' = {}
    BY <1>4 DEF Restart, Working, NoTask, Holding
  <2>3. Flight!LoseAll
    BY <1>4, <2>1, <2>2 DEF Flight!LoseAll, Restart
  <2> QED BY <2>3 DEF Flight!Next
<1>5. CASE \/ \E c \in Clients, a \in Artifacts : Store(c, a) \/ AskForPass(c, a)
           \/ \E c \in Clients : ReadSummary(c) \/ ListAsked(c) \/ Disconnect(c)
           \/ \E a \in Artifacts : DeleteArtifact(a)
           \/ ResumeList \/ UNCHANGED vars
  BY <1>0, <1>5 DEF Store, AskForPass, ReadSummary, ListAsked, Disconnect, DeleteArtifact, ResumeList, vars
<1> QED BY <1>1, <1>2, <1>3, <1>4, <1>5, PickFlies, WakeFlies, Steps

\* indexing.rs keeps what its RETRY_DELAYS and its fair queue are for: a file has
\* one request, whoever asks for it; a request that fails comes back after each
\* delay once, with its count, and the file has no other before it is over.
THEOREM OneFlightEach == Spec => OneFlight
<1>1. Init => Flight!Init
  <2>1. Init => Waiting = {}
    BY DEF Init, Waiting
  <2>2. Init => Working = {}
    BY DEF Init, Working, NoTask, Holding
  <2> QED BY <2>1, <2>2 DEF Init, Flight!Init
<1>2. IInv /\ [Next]_vars => [Flight!Next]_<<Waiting, Working, sleeping>>
  BY NextFlies DEF IInv
<1> QED BY <1>1, <1>2, Invariance, PTL DEF Spec, OneFlight, Flight!Spec, Flight!vars
=============================================================================
