-------------------------- MODULE Embedding_proofs --------------------------
(***************************************************************************)
(* Proofs about Embedding, for any workspaces, passages, models and        *)
(* callers; what needs a single permit says so.                            *)
(***************************************************************************)
EXTENDS Embedding, TLAPS, FiniteSetTheorems, WellFoundedInduction

-----------------------------------------------------------------------------
(* Types *)

\* What is missing can be counted.
LEMMA MissingFinite ==
    ASSUME NEW w, NEW m
    PROVE  /\ Missing(w, m) \subseteq Passages /\ IsFiniteSet(Missing(w, m))
           /\ Cardinality(Missing(w, m)) \in Nat
           /\ Cardinality(Missing(w, m)) = 0 <=> Missing(w, m) = {}
<1>1. Missing(w, m) \in SUBSET Passages
  BY DEF Missing, Live
<1>2. IsFiniteSet(Missing(w, m))
  BY <1>1, ConstantsOK, FS_Subset
<1> QED BY <1>1, <1>2, FS_CardinalityType, FS_EmptySet

\* A pass in the place of another keeps the types.
LEMMA PassTyped ==
    ASSUME TypeOK, NEW s \in Permits, NEW t \in Passes, (t.phase = "idle") = (t.ws = None),
           pass' = [pass EXCEPT ![s] = t]
    PROVE  /\ pass' \in [Permits -> Passes]
           /\ \A r \in Permits : (pass'[r].phase = "idle") = (pass'[r].ws = None)
BY DEF TypeOK

LEMMA CallerTyped ==
    ASSUME TypeOK, NEW c \in Callers, NEW k \in Requests, (k.phase = "idle") = (k.ws = None),
           caller' = [caller EXCEPT ![c] = k]
    PROVE  /\ caller' \in [Callers -> Requests]
           /\ \A d \in Callers : (caller'[d].phase = "idle") = (caller'[d].ws = None)
BY DEF TypeOK

LEMMA IdleTyped ==
    /\ NoPass \in Passes /\ NoPass.phase = "idle" /\ NoPass.ws = None
    /\ NoRequest \in Requests /\ NoRequest.phase = "idle" /\ NoRequest.ws = None
BY DEF NoPass, Passes, NoRequest, Requests

LEMMA QueueTyped ==
    ASSUME TypeOK, NEW w \in Workspaces, Queue(w)
    PROVE  waiting' \subseteq Workspaces /\ channel' \in Seq(Workspaces)
<1>1. channel \in Seq(Workspaces) /\ waiting \subseteq Workspaces
  BY DEF TypeOK
<1>2. Append(channel, w) \in Seq(Workspaces)
  BY <1>1
<1> QED BY <1>1, <1>2, Zenon DEF Queue

LEMMA BoundsTyped ==
    ASSUME TypeOK
    PROVE  /\ Fault => faults' \in 0..MaxFaults
           /\ Edit => edits' \in 0..MaxEdits
<1>1. {MaxFaults, MaxEdits} \subseteq Nat /\ faults \in 0..MaxFaults /\ edits \in 0..MaxEdits
  BY ConstantsOK DEF TypeOK
<1> QED BY <1>1 DEF Fault, Edit

\* The steps of the worker and of a pass keep the types.
LEMMA WorkTyped ==
    ASSUME TypeOK, Receive \/ \E s \in Permits : Spawn(s) \/ Cancel(s) \/ ProviderFails(s) \/ PassStep(s)
    PROVE  TypeOK'
<1> USE DEF rowVars, queueVars, bounds
<1>1. CASE Receive
  <2>1. Head(channel) \in Workspaces /\ Tail(channel) \in Seq(Workspaces)
    BY <1>1 DEF TypeOK, Receive
  <2> QED BY <1>1, <2>1 DEF TypeOK, Receive
<1>2. ASSUME NEW s \in Permits, Spawn(s) PROVE TypeOK'
  <2> DEFINE t == [NoPass EXCEPT !.phase = "begun", !.ws = held]
  <2>1. held \in Workspaces /\ held # None
    BY <1>2 DEF TypeOK, Spawn
  <2>2. t \in Passes /\ t.phase = "begun" /\ t.ws = held
    BY <2>1 DEF NoPass, Passes
  <2>3. pass' = [pass EXCEPT ![s] = t]
    BY <1>2 DEF Spawn
  <2> HIDE DEF t
  <2>4. pass' \in [Permits -> Passes] /\ \A r \in Permits : (pass'[r].phase = "idle") = (pass'[r].ws = None)
    BY <2>1, <2>2, <2>3, PassTyped
  <2> QED BY <1>2, <2>1, <2>4 DEF TypeOK, Spawn
<1>e. ASSUME NEW s \in Permits, End(s)
      PROVE  pass' \in [Permits -> Passes] /\ \A r \in Permits : (pass'[r].phase = "idle") = (pass'[r].ws = None)
  BY <1>e, PassTyped, IdleTyped DEF End
<1>p. ASSUME NEW s \in Permits, Working(s)
      PROVE  pass[s] \in Passes /\ pass[s].ws \in Workspaces /\ pass[s].ws # None
  BY <1>p DEF TypeOK, Working, Passes
<1>3. ASSUME NEW s \in Permits, ReadProvider(s) PROVE TypeOK'
  <2> DEFINE m == provider[pass[s].ws]
             t == [pass[s] EXCEPT !.phase = "counting", !.model = m]
  <2>1. pass[s] \in Passes /\ pass[s].ws \in Workspaces /\ pass[s].ws # None
    BY <1>3, <1>p DEF ReadProvider, Working
  <2>2. t \in Passes /\ t.phase = "counting" /\ t.ws = pass[s].ws
    BY <2>1 DEF TypeOK, Passes
  <2>3. End(s) \/ pass' = [pass EXCEPT ![s] = t]
    BY <1>3 DEF ReadProvider
  <2> HIDE DEF t
  <2>4. pass' \in [Permits -> Passes] /\ \A r \in Permits : (pass'[r].phase = "idle") = (pass'[r].ws = None)
    BY <1>e, <2>1, <2>2, <2>3, PassTyped
  <2> QED BY <1>3, <2>4 DEF TypeOK, ReadProvider
<1>4. ASSUME NEW s \in Permits, Count(s) PROVE TypeOK'
  <2> DEFINE n == Cardinality(Missing(pass[s].ws, pass[s].model))
             t == [pass[s] EXCEPT !.phase = "looking", !.missing = n]
  <2>1. pass[s] \in Passes /\ pass[s].ws \in Workspaces /\ pass[s].ws # None
    BY <1>4, <1>p DEF Count, Working
  <2>2. t \in Passes /\ t.phase = "looking" /\ t.ws = pass[s].ws
    BY <2>1, MissingFinite DEF Passes
  <2>3. End(s) \/ pass' = [pass EXCEPT ![s] = t]
    BY <1>4 DEF Count
  <2> HIDE DEF t
  <2>4. pass' \in [Permits -> Passes] /\ \A r \in Permits : (pass'[r].phase = "idle") = (pass'[r].ws = None)
    BY <1>e, <2>1, <2>2, <2>3, PassTyped
  <2> QED BY <1>4, <2>4 DEF TypeOK, Count
<1>5. ASSUME NEW s \in Permits, Look(s) PROVE TypeOK'
  <2> DEFINE w == pass[s].ws
             b == NextBatch(w, pass[s].model)
             t == [pass[s] EXCEPT !.phase = "asking", !.batch = b]
  <2>1. pass[s] \in Passes /\ w \in Workspaces /\ w # None
    BY <1>5, <1>p DEF Look, Working
  <2>2. b \subseteq Passages
    BY DEF NextBatch, Missing, Live
  <2>3. t \in Passes /\ t.phase = "asking" /\ t.ws = w
    BY <2>1, <2>2 DEF Passes
  <2>4. End(s) \/ pass' = [pass EXCEPT ![s] = t]
    BY <1>5 DEF Look
  <2>5. /\ spent' = spent \/ spent' = [spent EXCEPT ![w] = @ + 1]
        /\ letOff' = letOff \/ letOff' = letOff \cup {w}
    BY <1>5 DEF Look
  <2> HIDE DEF t
  <2>6. pass' \in [Permits -> Passes] /\ \A r \in Permits : (pass'[r].phase = "idle") = (pass'[r].ws = None)
    BY <1>e, <2>1, <2>3, <2>4, PassTyped
  <2>7. spent' \in [Workspaces -> Nat] /\ letOff' \subseteq Workspaces
    <3>1. spent \in [Workspaces -> Nat] /\ letOff \subseteq Workspaces
      BY DEF TypeOK
    <3> HIDE DEF w
    <3> QED BY <2>1, <2>5, <3>1
  <2> QED BY <1>5, <2>6, <2>7 DEF TypeOK, Look
<1>6. ASSUME NEW s \in Permits, Cancel(s) PROVE TypeOK'
  <2> DEFINE t == [pass[s] EXCEPT !.cancelled = TRUE]
  <2>1. pass[s] \in Passes /\ pass[s].ws # None /\ pass[s].phase # "idle"
    BY <1>6, <1>p DEF Cancel, Working
  <2>2. t \in Passes /\ t.phase = pass[s].phase /\ t.ws = pass[s].ws
    BY <2>1 DEF Passes
  <2>3. pass' = [pass EXCEPT ![s] = t]
    BY <1>6 DEF Cancel
  <2> HIDE DEF t
  <2>4. pass' \in [Permits -> Passes] /\ \A r \in Permits : (pass'[r].phase = "idle") = (pass'[r].ws = None)
    BY <2>1, <2>2, <2>3, PassTyped
  <2> QED BY <1>6, <2>4, BoundsTyped DEF TypeOK, Cancel
<1>7. ASSUME NEW s \in Permits, StopCancelled(s) \/ ProviderFails(s) \/ StoreFails(s) PROVE TypeOK'
  <2>1. pass[s].ws \in Workspaces
    BY <1>7, <1>p DEF StopCancelled, ProviderFails, StoreFails, Working
  <2>2. pass' \in [Permits -> Passes] /\ \A r \in Permits : (pass'[r].phase = "idle") = (pass'[r].ws = None)
    BY <1>7, <1>e DEF StopCancelled, ProviderFails, StoreFails
  <2>3. faults' \in 0..MaxFaults
    BY <1>7, BoundsTyped DEF TypeOK, StopCancelled, ProviderFails, StoreFails
  <2> QED BY <1>7, <2>1, <2>2, <2>3 DEF TypeOK, StopCancelled, ProviderFails, StoreFails
<1>8. ASSUME NEW s \in Permits, StoreVectors(s) PROVE TypeOK'
  <2> DEFINE t == [pass[s] EXCEPT !.phase = "stored"]
  <2>1. pass[s] \in Passes /\ pass[s].ws # None
    BY <1>8, <1>p DEF StoreVectors, Working
  <2>2. t \in Passes /\ t.phase = "stored" /\ t.ws = pass[s].ws
    BY <2>1 DEF Passes
  <2>3. pass' = [pass EXCEPT ![s] = t]
    BY <1>8 DEF StoreVectors
  <2>4. vector' \in [Passages -> Models \cup {None}]
    BY <1>8, <2>1 DEF TypeOK, StoreVectors, Passes
  <2> HIDE DEF t
  <2>5. pass' \in [Permits -> Passes] /\ \A r \in Permits : (pass'[r].phase = "idle") = (pass'[r].ws = None)
    BY <2>1, <2>2, <2>3, PassTyped
  <2> QED BY <1>8, <2>4, <2>5 DEF TypeOK, StoreVectors
<1>9. ASSUME NEW s \in Permits, Proceed(s) PROVE TypeOK'
  <2> DEFINE done == pass[s].completed + Cardinality(pass[s].batch)
             t == [pass[s] EXCEPT !.phase = "looking", !.batch = {},
                                  !.completed = AtMost(done, pass[s].missing),
                                  !.batches = AtMost(@ + 1, MaxBatches)]
  <2>1. pass[s] \in Passes /\ pass[s].ws \in Workspaces /\ pass[s].ws # None
    BY <1>9, <1>p DEF Proceed, Working
  <2>2. Cardinality(pass[s].batch) \in Nat
    <3>1. pass[s].batch \in SUBSET Passages
      BY <2>1 DEF Passes
    <3> QED BY <3>1, ConstantsOK, FS_Subset, FS_CardinalityType
  <2>3. AtMost(done, pass[s].missing) \in Nat /\ AtMost(pass[s].batches + 1, MaxBatches) \in Nat
    BY <2>1, <2>2, ConstantsOK DEF AtMost, Passes
  <2>4. t \in Passes /\ t.phase = "looking" /\ t.ws = pass[s].ws
    BY <2>1, <2>3 DEF Passes
  <2>5. \/ End(s) /\ Queue(pass[s].ws)
        \/ pass' = [pass EXCEPT ![s] = t] /\ UNCHANGED <<waiting, channel>>
    BY <1>9 DEF Proceed
  <2> HIDE DEF t
  <2>6. pass' \in [Permits -> Passes] /\ \A r \in Permits : (pass'[r].phase = "idle") = (pass'[r].ws = None)
    BY <1>e, <2>1, <2>4, <2>5, PassTyped
  <2>7. waiting' \subseteq Workspaces /\ channel' \in Seq(Workspaces)
    BY <2>1, <2>5, QueueTyped DEF TypeOK
  <2> QED BY <1>9, <2>6, <2>7 DEF TypeOK, Proceed
<1> QED BY <1>1, <1>2, <1>3, <1>4, <1>5, <1>6, <1>7, <1>8, <1>9 DEF PassStep

\* The steps of the people, tasks and files keep the types.
LEMMA CallersTyped ==
    ASSUME TypeOK,
           \/ FileStep \/ Midnight \/ Restart
           \/ \E c \in Handlers : PeopleStep(c) \/ ClearVectors(c)
           \/ \E c \in Callers : Request(c) \/ LoseRequest(c)
           \/ \E w \in Workspaces : Resume(w)
    PROVE  TypeOK'
<1> USE DEF rowVars, queueVars, bounds
<1>d. ASSUME NEW w \in Workspaces
      PROVE  LET k == [phase |-> "due", ws |-> w]
                 l == [phase |-> "checked", ws |-> w]
             IN  /\ k \in Requests /\ (k.phase = "idle") = (k.ws = None)
                 /\ l \in Requests /\ (l.phase = "idle") = (l.ws = None)
  BY <1>d, ConstantsOK DEF Requests
<1>1. ASSUME NEW w \in Workspaces, NEW old \in SUBSET Passages, DeleteFile(w, old) PROVE TypeOK'
  BY <1>1 DEF TypeOK, DeleteFile
<1>2. ASSUME NEW w \in Workspaces, NEW old \in SUBSET Passages, NEW c \in Tasks, NEW new \in SUBSET Passages,
             IndexFile(c, w, old, new)
      PROVE  TypeOK'
  <2>1. c \in Callers /\ caller' = [caller EXCEPT ![c] = [phase |-> "due", ws |-> w]]
    BY <1>2 DEF IndexFile, Callers
  <2>2. caller' \in [Callers -> Requests] /\ \A d \in Callers : (caller'[d].phase = "idle") = (caller'[d].ws = None)
    BY <1>d, <2>1, CallerTyped
  <2>3. passage' \in [Passages -> {"unborn", "live", "gone"}] /\ vector' \in [Passages -> Models \cup {None}]
    BY <1>2 DEF TypeOK, IndexFile
  <2> QED BY <1>2, <2>2, <2>3 DEF TypeOK, IndexFile
<1>3. CASE Midnight
  <2>1. days' \in 0..MaxDays
    <3>1. MaxDays \in Nat /\ days \in 0..MaxDays
      BY ConstantsOK DEF TypeOK
    <3> QED BY <1>3, <3>1 DEF Midnight
  <2> QED BY <1>3, <2>1 DEF TypeOK, Midnight
<1>4. CASE Restart
  <2>1. faults' \in 0..MaxFaults
    BY <1>4, BoundsTyped DEF Restart
  <2>2. pass' \in [Permits -> Passes] /\ \A s \in Permits : (pass'[s].phase = "idle") = (pass'[s].ws = None)
    BY <1>4, IdleTyped DEF Restart
  <2>3. caller' \in [Callers -> Requests] /\ \A c \in Callers : (caller'[c].phase = "idle") = (caller'[c].ws = None)
    BY <1>4, IdleTyped DEF Restart
  <2>4. channel' \in Seq(Workspaces)
    BY <1>4 DEF Restart
  <2> QED BY <1>4, <2>1, <2>2, <2>3, <2>4 DEF TypeOK, Restart
<1>5. ASSUME NEW c \in Handlers, NEW w \in Workspaces, NEW m \in Models \cup {None}, SaveProvider(c, w, m) PROVE TypeOK'
  <2>1. c \in Callers /\ \/ caller' = [caller EXCEPT ![c] = [phase |-> "due", ws |-> w]]
                         \/ caller' = [caller EXCEPT ![c] = NoRequest]
    BY <1>5 DEF SaveProvider, Callers
  <2>2. caller' \in [Callers -> Requests] /\ \A d \in Callers : (caller'[d].phase = "idle") = (caller'[d].ws = None)
    BY <1>d, <2>1, CallerTyped, IdleTyped
  <2>3. edits' \in 0..MaxEdits
    BY <1>5, BoundsTyped DEF SaveProvider
  <2>4. provider' \in [Workspaces -> Models \cup {None}]
    BY <1>5 DEF TypeOK, SaveProvider
  <2> QED BY <1>5, <2>2, <2>3, <2>4 DEF TypeOK, SaveProvider
<1>6. ASSUME NEW c \in Handlers, NEW w \in Workspaces, CheckRebuild(c, w) PROVE TypeOK'
  <2>1. c \in Callers /\ caller' = [caller EXCEPT ![c] = [phase |-> "checked", ws |-> w]]
    BY <1>6 DEF CheckRebuild, Callers
  <2>2. caller' \in [Callers -> Requests] /\ \A d \in Callers : (caller'[d].phase = "idle") = (caller'[d].ws = None)
    BY <1>d, <2>1, CallerTyped
  <2> QED BY <1>6, <2>2, BoundsTyped DEF TypeOK, CheckRebuild
<1>7. ASSUME NEW c \in Handlers, ClearVectors(c) PROVE TypeOK'
  <2> DEFINE w == caller[c].ws
  <2>1. c \in Callers /\ caller[c] \in Requests /\ w \in Workspaces
    BY <1>7 DEF TypeOK, ClearVectors, Callers, Requests
  <2>2. [caller[c] EXCEPT !.phase = "due"] = [phase |-> "due", ws |-> w]
    BY <2>1 DEF Requests
  <2>3. caller' = [caller EXCEPT ![c] = [phase |-> "due", ws |-> w]]
    BY <1>7, <2>2 DEF ClearVectors
  <2>4. caller' \in [Callers -> Requests] /\ \A d \in Callers : (caller'[d].phase = "idle") = (caller'[d].ws = None)
    BY <1>d, <2>1, <2>3, CallerTyped
  <2>5. vector' \in [Passages -> Models \cup {None}]
    BY <1>7 DEF TypeOK, ClearVectors
  <2> QED BY <1>7, <2>4, <2>5 DEF TypeOK, ClearVectors
<1>8. ASSUME NEW c \in Callers, Request(c) \/ LoseRequest(c) PROVE TypeOK'
  <2>1. caller' = [caller EXCEPT ![c] = NoRequest] /\ caller[c].phase # "idle"
    BY <1>8 DEF Request, LoseRequest
  <2>2. caller' \in [Callers -> Requests] /\ \A d \in Callers : (caller'[d].phase = "idle") = (caller'[d].ws = None)
    BY <2>1, CallerTyped, IdleTyped
  <2>3. caller[c].ws \in Workspaces
    BY <2>1 DEF TypeOK, Requests
  <2>4. waiting' \subseteq Workspaces /\ channel' \in Seq(Workspaces) /\ letOff' \subseteq Workspaces
    BY <1>8, <2>3, QueueTyped DEF TypeOK, Request, LoseRequest
  <2>5. faults' \in 0..MaxFaults
    BY <1>8, BoundsTyped DEF TypeOK, Request, LoseRequest
  <2> QED BY <1>8, <2>2, <2>4, <2>5 DEF TypeOK, Request, LoseRequest
<1>9. ASSUME NEW w \in Workspaces, Resume(w) PROVE TypeOK'
  BY <1>9, QueueTyped DEF TypeOK, Resume
<1> QED BY <1>1, <1>2, <1>3, <1>4, <1>5, <1>6, <1>7, <1>8, <1>9 DEF FileStep, PeopleStep

LEMMA StepTyped == ASSUME TypeOK, [Next]_vars PROVE TypeOK'
<1>1. CASE UNCHANGED vars
  BY <1>1 DEF TypeOK, vars, rowVars, queueVars, bounds
<1> QED BY <1>1, WorkTyped, CallersTyped DEF Next, Quiet, PassStep

LEMMA InitTyped == Init => TypeOK
<1>1. {MaxDays, MaxEdits, MaxFaults} \subseteq Nat
  BY ConstantsOK
<1>2. Init => faults \in 0..MaxFaults /\ edits \in 0..MaxEdits /\ days \in 0..MaxDays /\ channel \in Seq(Workspaces)
  BY <1>1 DEF Init
<1> QED BY <1>2, IdleTyped DEF Init, TypeOK

\* The rows, the queue, the passes and the requests have their types; a pass or a
\* request has a workspace exactly when it is at work.
THEOREM TypeCorrect == Spec => []TypeOK
BY InitTyped, StepTyped, PTL DEF Spec

-----------------------------------------------------------------------------
(* The queue *)

\* The line has what is held in front of the channel.
LEMMA LineIs ==
    ASSUME TypeOK
    PROVE  /\ held = None => Line = channel
           /\ held # None => /\ Line \in Seq(Workspaces) /\ Len(Line) = Len(channel) + 1
                             /\ Line[1] = held
                             /\ \A i \in 1..Len(channel) : Line[i + 1] = channel[i]
<1>1. channel \in Seq(Workspaces)
  BY DEF TypeOK
<1>2. CASE held = None
  BY <1>1, <1>2 DEF Line
<1>3. CASE held # None
  <2>1. <<held>> \in Seq(Workspaces) /\ Len(<<held>>) = 1 /\ <<held>>[1] = held
    BY <1>3 DEF TypeOK
  <2>2. Line = <<held>> \o channel
    BY <1>3 DEF Line
  <2>3. Line \in Seq(Workspaces) /\ Len(Line) = 1 + Len(channel)
    BY <1>1, <2>1, <2>2
  <2>4. Line[1] = held /\ \A i \in 1..Len(channel) : Line[i + 1] = channel[i]
    BY <1>1, <2>1, <2>2
  <2> QED BY <1>3, <2>3, <2>4
<1> QED BY <1>2, <1>3

\* A line without repetitions, whose members are a set.
Lines(l, S) ==
    /\ \A i, j \in 1..Len(l) : l[i] = l[j] => i = j
    /\ \A i \in 1..Len(l) : l[i] \in S
    /\ \A x \in S : \E i \in 1..Len(l) : l[i] = x

LEMMA WaitingLines == ASSUME TypeOK PROVE WaitingIsQueued <=> Lines(Line, waiting)
<1>1. Line \in Seq(Workspaces)
  BY LineIs DEF TypeOK
<1>2. DOMAIN Line = 1..Len(Line)
  BY <1>1
<1> QED BY <1>2 DEF WaitingIsQueued, Lines

\* The end of a line is its longest part: one more joins behind it.
LEMMA JoinLine ==
    ASSUME NEW l \in Seq(Workspaces), NEW S, NEW w \in Workspaces, w \notin S, Lines(l, S)
    PROVE  Lines(Append(l, w), S \cup {w})
<1>1. /\ Len(Append(l, w)) = Len(l) + 1 /\ Append(l, w)[Len(l) + 1] = w
      /\ \A i \in 1..Len(l) : Append(l, w)[i] = l[i]
  OBVIOUS
<1>2. Len(l) \in Nat /\ \A i \in 1..(Len(l) + 1) : i \in 1..Len(l) \/ i = Len(l) + 1
  OBVIOUS
<1> QED BY <1>1, <1>2 DEF Lines

\* The first of a line leaves it.
LEMMA LeaveLine ==
    ASSUME NEW l \in Seq(Workspaces), NEW k \in Seq(Workspaces), NEW S,
           Len(l) = Len(k) + 1, \A i \in 1..Len(k) : l[i + 1] = k[i], Lines(l, S)
    PROVE  Lines(k, S \ {l[1]})
<1>1. Len(k) \in Nat /\ \A i \in 1..Len(k) : i + 1 \in 1..Len(l) /\ i + 1 # 1 /\ 1 \in 1..Len(l)
  OBVIOUS
<1>2. ASSUME NEW x \in S \ {l[1]} PROVE \E i \in 1..Len(k) : k[i] = x
  <2>1. PICK i \in 1..Len(l) : l[i] = x
    BY <1>2 DEF Lines
  <2>2. i # 1 /\ i - 1 \in 1..Len(k) /\ (i - 1) + 1 = i
    BY <1>1, <1>2, <2>1
  <2> QED BY <2>1, <2>2
<1>3. ASSUME NEW i \in 1..Len(k), NEW j \in 1..Len(k), k[i] = k[j] PROVE i = j
  <2>1. l[i + 1] = l[j + 1] /\ i + 1 \in 1..Len(l) /\ j + 1 \in 1..Len(l)
    BY <1>1, <1>3
  <2>2. i + 1 = j + 1
    BY <2>1 DEF Lines
  <2> QED BY <2>2
<1>4. ASSUME NEW i \in 1..Len(k) PROVE k[i] \in S \ {l[1]}
  <2>1. k[i] = l[i + 1] /\ i + 1 \in 1..Len(l) /\ 1 \in 1..Len(l) /\ i + 1 # 1
    BY <1>1
  <2> QED BY <2>1 DEF Lines
<1> QED BY <1>2, <1>3, <1>4 DEF Lines

LineInv == TypeOK /\ WaitingIsQueued

LEMMA StepLine == ASSUME LineInv, [Next]_vars PROVE LineInv'
<1> USE DEF rowVars, queueVars, bounds
<1>0. TypeOK /\ TypeOK' /\ Lines(Line, waiting) /\ (WaitingIsQueued' <=> Lines(Line, waiting)')
  <2>1. TypeOK => (WaitingIsQueued <=> Lines(Line, waiting))
    BY WaitingLines
  <2>2. TypeOK /\ TypeOK'
    BY StepTyped DEF LineInv
  <2>3. (TypeOK => (WaitingIsQueued <=> Lines(Line, waiting)))'
    BY WaitingLines, PTL
  <2> QED BY <2>1, <2>2, <2>3 DEF LineInv
<1>1. CASE UNCHANGED <<waiting, channel, held>>
  BY <1>0, <1>1 DEF LineInv, WaitingIsQueued, Line
<1>2. ASSUME NEW w \in Workspaces, Queue(w), UNCHANGED held PROVE LineInv'
  <2>1. CASE w \in waiting
    BY <1>1, <1>2, <2>1 DEF Queue
  <2>2. CASE w \notin waiting
    <3>1. channel' = Append(channel, w) /\ waiting' = waiting \cup {w}
      BY <1>2, <2>2 DEF Queue
    <3>2. Line \in Seq(Workspaces)
      BY <1>0, LineIs DEF TypeOK
    <3>3. Line' = Append(Line, w)
      <4>1. channel \in Seq(Workspaces)
        BY <1>0 DEF TypeOK
      <4>2. CASE held = None
        <5>1. Line = channel /\ Line' = channel'
          BY <1>2, <4>1, <4>2, <3>1 DEF Line
        <5> QED BY <3>1, <5>1
      <4>3. CASE held # None
        <5>1. held \in Workspaces
          BY <1>0, <4>3 DEF TypeOK
        <5>2. Line = <<held>> \o channel /\ Line' = <<held>> \o channel'
          BY <1>2, <4>3 DEF Line
        <5>3. <<held>> \o Append(channel, w) = Append(<<held>> \o channel, w)
          BY <4>1, <5>1
        <5> QED BY <3>1, <5>2, <5>3
      <4> QED BY <4>2, <4>3
    <3>4. Lines(Line', waiting')
      BY <1>0, <2>2, <3>1, <3>2, <3>3, JoinLine
    <3>5. Lines(Line, waiting)'
      BY <3>4 DEF Lines
    <3> QED BY <1>0, <3>5 DEF LineInv
  <2> QED BY <2>1, <2>2
<1>3. CASE Receive
  <2>1. Line' = Line
    <3>1. channel \in Seq(Workspaces) /\ channel # <<>> /\ held = None
      BY <1>0, <1>3 DEF TypeOK, Receive
    <3>2. Head(channel) # None /\ Head(channel) \in Workspaces
      BY <3>1, ConstantsOK
    <3>3. Line = channel /\ Line' = <<Head(channel)>> \o Tail(channel)
      BY <1>3, <3>1, <3>2 DEF Receive, Line
    <3>4. <<Head(channel)>> \o Tail(channel) = channel
      BY <3>1, <3>2
    <3> QED BY <3>3, <3>4
  <2> QED BY <1>0, <1>3, <2>1 DEF LineInv, WaitingIsQueued, Receive
<1>4. ASSUME NEW s \in Permits, Spawn(s) PROVE LineInv'
  <2>1. held # None /\ held' = None /\ channel' = channel /\ waiting' = waiting \ {held}
    BY <1>4 DEF Spawn
  <2>2. Line \in Seq(Workspaces) /\ Len(Line) = Len(channel) + 1 /\ Line[1] = held
        /\ \A i \in 1..Len(channel) : Line[i + 1] = channel[i]
    BY <1>0, <2>1, LineIs
  <2>3. Line' = channel /\ channel \in Seq(Workspaces)
    BY <1>0, <2>1 DEF Line, TypeOK
  <2>4. Lines(channel, waiting \ {Line[1]})
    BY <1>0, <2>2, <2>3, LeaveLine
  <2>5. Lines(Line, waiting)'
    BY <2>1, <2>2, <2>3, <2>4 DEF Lines
  <2> QED BY <1>0, <2>5 DEF LineInv
<1>5. ASSUME NEW s \in Permits, Proceed(s) PROVE LineInv'
  <2>1. pass[s].ws \in Workspaces
    <3>1. pass[s] \in Passes /\ pass[s].phase = "stored" /\ (pass[s].phase = "idle") = (pass[s].ws = None)
      BY <1>0, <1>5 DEF TypeOK, Proceed
    <3> QED BY <3>1 DEF Passes
  <2>2. (Queue(pass[s].ws) /\ UNCHANGED held) \/ UNCHANGED <<waiting, channel, held>>
    BY <1>5 DEF Proceed
  <2>3. CASE Queue(pass[s].ws) /\ UNCHANGED held
    BY <1>2, <2>1, <2>3
  <2> QED BY <1>1, <2>2, <2>3
<1>6. ASSUME NEW c \in Callers, Request(c) PROVE LineInv'
  <2>1. caller[c] \in Requests /\ (caller[c].ws = None => caller[c].phase = "idle")
    BY <1>0 DEF TypeOK
  <2>2. caller[c].phase = "due" /\ Queue(caller[c].ws) /\ UNCHANGED held
    BY <1>6 DEF Request
  <2>3. caller[c].ws \in Workspaces
    BY <2>1, <2>2 DEF Requests
  <2> QED BY <1>2, <2>2, <2>3
<1>7. ASSUME NEW w \in Workspaces, Resume(w) PROVE LineInv'
  BY <1>2, <1>7 DEF Resume
<1>8. CASE Restart
  <2>1. Line' = <<>> /\ waiting' = {}
    BY <1>8 DEF Restart, Line
  <2> QED BY <1>0, <2>1 DEF LineInv, WaitingIsQueued
<1>9. ASSUME NEW s \in Permits,
             \/ ReadProvider(s) \/ Count(s) \/ Look(s) \/ Cancel(s) \/ StopCancelled(s)
             \/ ProviderFails(s) \/ StoreFails(s) \/ StoreVectors(s)
      PROVE  LineInv'
  BY <1>1, <1>9
  DEF ReadProvider, Count, Look, Cancel, StopCancelled, ProviderFails, StoreFails, StoreVectors
<1>10. CASE FileStep \/ Midnight \/ (\E c \in Handlers : PeopleStep(c) \/ ClearVectors(c)) \/ \E c \in Callers : LoseRequest(c)
  BY <1>1, <1>10
  DEF FileStep, DeleteFile, IndexFile, Midnight, PeopleStep, SaveProvider, CheckRebuild, ClearVectors, LoseRequest
<1>11. CASE UNCHANGED vars
  BY <1>1, <1>11 DEF vars
<1> QED
  BY <1>3, <1>4, <1>5, <1>6, <1>7, <1>8, <1>9, <1>10, <1>11 DEF Next, Quiet

\* A workspace is in `waiting` exactly when it is once in the worker's line.
THEOREM WaitingQueued == Spec => []WaitingIsQueued
<1>1. Init => LineInv
  <2> SUFFICES ASSUME Init PROVE LineInv
    OBVIOUS
  <2>1. Line = <<>> /\ waiting = {}
    BY DEF Init, Line
  <2> QED BY <2>1, InitTyped DEF LineInv, WaitingIsQueued
<1>2. LineInv => WaitingIsQueued
  BY DEF LineInv
<1> QED BY <1>1, <1>2, StepLine, PTL DEF Spec

-----------------------------------------------------------------------------
(* Nothing is forgotten: for one permit *)

\* The natural numbers have no descending sequence.
LEMMA LessIsWellFounded == IsWellFoundedOn({x \in Nat \X Nat : x[1] < x[2]}, Nat)
BY NatLessThanWellFounded DEF OpToRel

\* A pass that finds no batch finds nothing missing.
LEMMA NoBatchNoneMissing ==
    ASSUME NEW w, NEW m, NextBatch(w, m) = {}
    PROVE  Missing(w, m) = {}
<1> SUFFICES ASSUME Missing(w, m) # {} PROVE FALSE
  OBVIOUS
<1>1. Missing(w, m) \in SUBSET Nat /\ Batch \in Nat /\ Batch > 0
  <2>1. Missing(w, m) \subseteq Passages
    BY MissingFinite
  <2>2. Passages \subseteq Nat /\ Batch \in Nat \ {0}
    BY ConstantsOK
  <2>3. Missing(w, m) \in SUBSET Nat
    BY <2>1, <2>2, Zenon
  <2>4. Batch > 0
    BY <2>2
  <2> QED BY <2>2, <2>3, <2>4
<1>2. PICK p \in Missing(w, m) : \A q \in Missing(w, m) : <<q, p>> \notin {x \in Nat \X Nat : x[1] < x[2]}
  BY <1>1, LessIsWellFounded, WFMin
<1>3. {q \in Missing(w, m) : q < p} = {}
  <2> SUFFICES ASSUME NEW q \in Missing(w, m), q < p PROVE FALSE
    OBVIOUS
  <2>1. q \in Nat /\ p \in Nat
    BY <1>1
  <2> QED BY <1>2, <2>1
<1>4. Cardinality({q \in Missing(w, m) : q < p}) < Batch
  BY <1>1, <1>3, FS_EmptySet
<1> QED BY <1>2, <1>4 DEF NextBatch

\* Somebody else is going to ask for a workspace than the passes at work on it.
Awaited(w) == w \in waiting \/ Asked(w) \/ w \in letOff

\* A pass of another model than the provider's does not count.
StaleIsAwaited(w) ==
    \A s \in Permits :
        /\ pass[s].ws = w /\ pass[s].phase # "begun"
        /\ pass[s].model # provider[w] /\ provider[w] # None
        => Awaited(w)

Kept(w) == (w \in Behind => w \in Arranged) /\ StaleIsAwaited(w)

UpkeepInv ==
    /\ LineInv
    /\ \A w \in Workspaces : Kept(w)

\* What a step does to the workspaces it is not about: nothing that counts.
Spared(w) ==
    /\ provider'[w] = provider[w]
    /\ Live(w)' = Live(w) /\ \A p \in Live(w) : vector'[p] = vector[p]
    /\ Awaited(w)' <=> Awaited(w)
    /\ \A s \in Permits :
         (pass'[s].ws = w \/ pass[s].ws = w) =>
            pass'[s].ws = pass[s].ws /\ pass'[s].model = pass[s].model
            /\ (pass'[s].phase = "begun" <=> pass[s].phase = "begun")

LEMMA SparedStays ==
    ASSUME NEW w \in Workspaces, Spared(w)
    PROVE  /\ w \in Behind' <=> w \in Behind
           /\ w \in Arranged' <=> w \in Arranged
           /\ Kept(w) => Kept(w)'
<1>1. w \in Behind' <=> w \in Behind
  <2>1. Missing(w, provider[w])' = Missing(w, provider[w])
    BY DEF Spared, Missing
  <2> QED BY <2>1 DEF Behind, Spared
<1>2. AtWork(w)' <=> AtWork(w)
  BY DEF Spared, AtWork
<1>3. w \in Arranged' <=> w \in Arranged
  BY <1>2 DEF Arranged, Spared, Awaited
<1>4. StaleIsAwaited(w) => StaleIsAwaited(w)'
  BY DEF Spared, StaleIsAwaited
<1> QED BY <1>1, <1>3, <1>4 DEF Kept

\* A workspace that is awaited is kept.
LEMMA AwaitedIsKept == ASSUME NEW w \in Workspaces, Awaited(w)' PROVE Kept(w)'
BY DEF Kept, Awaited, Arranged, StaleIsAwaited

\* What a step does: it is about one workspace, which is kept, or about none, or
\* it is a restart.
AboutOne ==
    \/ \A x \in Workspaces : Spared(x)
    \/ \E w \in Workspaces : Kept(w)' /\ \A x \in Workspaces \ {w} : Spared(x)
    \/ Restart

OnePermit == \A s, t \in Permits : s = t

\* What is neither a row, a pass, a request nor a mark spares every workspace.
LEMMA QuietSpares ==
    ASSUME UNCHANGED <<passage, vector, provider, waiting, letOff, caller>>,
           \A s \in Permits : /\ pass'[s].ws = pass[s].ws /\ pass'[s].model = pass[s].model
                              /\ pass'[s].phase = "begun" <=> pass[s].phase = "begun"
    PROVE  \A x \in Workspaces : Spared(x)
BY DEF Spared, Live, Awaited, Asked

\* A pass that ends, or goes on for its own workspace, spares the others.
LEMMA PassSpares ==
    ASSUME TypeOK, NEW s \in Permits, NEW x \in Workspaces, pass[s].ws # x,
           UNCHANGED <<passage, provider, caller>>, \A p \in Live(x) : vector'[p] = vector[p],
           x \in waiting' <=> x \in waiting, x \in letOff' <=> x \in letOff,
           pass'[s].ws # x, \A r \in Permits \ {s} : pass'[r] = pass[r]
    PROVE  Spared(x)
BY DEF Spared, Live, Awaited, Asked

\* What a caller does for a workspace spares the others.
LEMMA CallerSpares ==
    ASSUME TypeOK, NEW c \in Callers, NEW x \in Workspaces, caller[c].ws # x, caller'[c].ws # x,
           \A d \in Callers \ {c} : caller'[d] = caller[d],
           UNCHANGED pass, provider'[x] = provider[x],
           Live(x)' = Live(x), \A p \in Live(x) : vector'[p] = vector[p],
           x \in waiting' <=> x \in waiting, x \in letOff' <=> x \in letOff
    PROVE  Spared(x)
BY DEF Spared, Awaited, Asked

LEMMA WorkIsAboutOne ==
    ASSUME OnePermit, UpkeepInv, NEW s \in Permits,
           \/ Spawn(s) \/ ReadProvider(s) \/ Count(s) \/ Look(s) \/ Cancel(s) \/ StopCancelled(s)
           \/ ProviderFails(s) \/ StoreFails(s) \/ StoreVectors(s) \/ Proceed(s)
    PROVE  AboutOne
<1> USE DEF rowVars, queueVars, bounds
<1>0. /\ TypeOK /\ pass \in [Permits -> Passes] /\ None \notin Workspaces
      /\ \A w \in Workspaces : Kept(w)
      /\ \A r \in Permits : (pass[r].phase = "idle") = (pass[r].ws = None)
      /\ \A r \in Permits : r = s
  BY ConstantsOK DEF UpkeepInv, LineInv, TypeOK, OnePermit
<1> DEFINE w == pass[s].ws
<1>1. CASE Spawn(s)
  <2>1. /\ held \in Workspaces /\ w = None
        /\ pass'[s].ws = held /\ pass'[s].phase = "begun" /\ \A r \in Permits \ {s} : pass'[r] = pass[r]
    <3>1. held \in Workspaces /\ held # None
      BY <1>0, <1>1 DEF TypeOK, Spawn
    <3>2. pass' = [pass EXCEPT ![s] = [NoPass EXCEPT !.phase = "begun", !.ws = held]]
      BY <1>1 DEF Spawn
    <3>3. pass'[s] = [NoPass EXCEPT !.phase = "begun", !.ws = held]
      BY <1>0, <3>2
    <3>4. pass'[s].phase = "begun" /\ pass'[s].ws = held
      BY <3>3 DEF NoPass
    <3> QED BY <1>0, <1>1, <3>1, <3>2, <3>4 DEF Spawn, Working
  <2>2. \A x \in Workspaces \ {held} : Spared(x)
    <3> SUFFICES ASSUME NEW x \in Workspaces \ {held} PROVE Spared(x)
      OBVIOUS
    <3>1. pass[s].ws # x /\ pass'[s].ws # x
      BY <1>0, <2>1
    <3>2. (x \in waiting' <=> x \in waiting) /\ (x \in letOff' <=> x \in letOff)
      BY <1>1 DEF Spawn
    <3>3. UNCHANGED <<passage, vector, provider, caller>>
      BY <1>1 DEF Spawn
    <3> QED BY <1>0, <2>1, <3>1, <3>2, <3>3, PassSpares
  <2>3. \E h \in Workspaces : Kept(h)' /\ \A x \in Workspaces \ {h} : Spared(x)
    <3>1. PICK h \in Workspaces : h = held
      BY <2>1
    <3>2. pass'[s].ws = h /\ pass'[s].phase = "begun"
      BY <2>1, <3>1
    <3>3. Kept(h)'
      BY <1>0, <3>2 DEF Kept, Arranged, AtWork, StaleIsAwaited
    <3> QED BY <2>2, <3>1, <3>3
  <2> QED BY <2>3 DEF AboutOne
<1>w. ASSUME Working(s) PROVE w \in Workspaces
  BY <1>0, <1>w DEF Passes, Working
\* The pass ends, and there is nothing left to do or somebody is going to ask.
<1>2. ASSUME Working(s), End(s), UNCHANGED <<passage, vector, provider, caller>>,
             waiting' \in {waiting, waiting \cup {w}}, letOff' \in {letOff, letOff \cup {w}},
             w \in Behind => Awaited(w) \/ w \in waiting' \/ w \in letOff'
      PROVE  AboutOne
  <2>1. w \in Workspaces /\ pass'[s].ws = None /\ \A r \in Permits \ {s} : pass'[r] = pass[r]
    BY <1>0, <1>2, <1>w DEF End, NoPass
  <2>2. \A x \in Workspaces \ {w} : Spared(x)
    <3> SUFFICES ASSUME NEW x \in Workspaces \ {w} PROVE Spared(x)
      OBVIOUS
    <3> QED BY <1>0, <1>2, <2>1, PassSpares
  <2>3. PICK v \in Workspaces : v = w
    BY <2>1
  <2>4. v \in Behind' => v \in Behind
    BY <1>2 DEF Behind, Missing, Live
  <2>5. v \in Behind' => Awaited(v)'
    BY <1>2, <2>3, <2>4 DEF Awaited, Asked
  <2>6. StaleIsAwaited(v)'
    BY <1>0, <2>1 DEF StaleIsAwaited
  <2>7. Kept(v)'
    BY <2>5, <2>6 DEF Kept, Awaited, Arranged
  <2> QED BY <2>2, <2>3, <2>7 DEF AboutOne
<1>3. CASE ReadProvider(s)
  <2>1. Working(s) /\ w \in Workspaces /\ pass[s].phase = "begun"
    BY <1>3, <1>w DEF ReadProvider, Working
  <2>2. CASE provider[w] = None
    <3>1. w \notin Behind
      BY <2>2 DEF Behind
    <3> QED BY <1>2, <1>3, <2>1, <2>2, <3>1 DEF ReadProvider
  <2>3. CASE provider[w] # None
    <3>1. PICK v \in Workspaces : v = w
      BY <2>1
    <3>2. /\ pass'[s].ws = v /\ pass'[s].model = provider'[v] /\ provider'[v] # None
          /\ \A r \in Permits \ {s} : pass'[r] = pass[r]
      BY <1>0, <1>3, <2>3, <3>1 DEF ReadProvider, Passes
    <3>3. Kept(v)'
      BY <1>0, <3>2 DEF Kept, Arranged, AtWork, StaleIsAwaited
    <3>4. \A x \in Workspaces \ {v} : Spared(x)
      <4> SUFFICES ASSUME NEW x \in Workspaces \ {v} PROVE Spared(x)
        OBVIOUS
      <4>1. UNCHANGED <<passage, vector, provider, caller, waiting, letOff>>
        BY <1>3 DEF ReadProvider
      <4> QED BY <1>0, <3>1, <3>2, <4>1, PassSpares
    <3> QED BY <3>3, <3>4 DEF AboutOne
  <2> QED BY <2>2, <2>3
\* A pass of the provider's model that finds nothing missing leaves nothing behind;
\* for a pass of another model somebody is going to ask.
<1>f. ASSUME Working(s), pass[s].phase # "begun", Missing(w, pass[s].model) = {} PROVE w \in Behind => Awaited(w)
  <2>1. Kept(w)
    BY <1>0, <1>f, <1>w
  <2>2. CASE pass[s].model = provider[w]
    BY <1>f, <2>2 DEF Behind
  <2>3. CASE pass[s].model # provider[w]
    <3>1. provider[w] # None => Awaited(w)
      BY <1>f, <2>1, <2>3 DEF Kept, StaleIsAwaited
    <3> QED BY <3>1 DEF Behind
  <2> QED BY <2>2, <2>3
\* A pass that goes on for the same workspace and model.
<1>g. ASSUME NEW t, pass' = [pass EXCEPT ![s] = t], t.ws = w, t.model = pass[s].model,
             pass[s].phase # "begun", t.phase # "begun",
             UNCHANGED <<passage, vector, provider, waiting, letOff, caller>>
      PROVE  AboutOne
  <2>1. pass'[s] = t /\ \A r \in Permits \ {s} : pass'[r] = pass[r]
    BY <1>0, <1>g
  <2>2. \A r \in Permits : /\ pass'[r].ws = pass[r].ws /\ pass'[r].model = pass[r].model
                           /\ pass'[r].phase = "begun" <=> pass[r].phase = "begun"
    BY <1>0, <1>g, <2>1
  <2> QED BY <1>g, <2>2, QuietSpares DEF AboutOne
<1>4. CASE Count(s)
  <2>1. Working(s) /\ pass[s].phase # "begun"
    BY <1>4 DEF Count, Working
  <2>2. CASE Cardinality(Missing(w, pass[s].model)) = 0
    <3>1. Missing(w, pass[s].model) = {}
      BY <2>2, MissingFinite
    <3> QED BY <1>2, <1>4, <1>f, <2>1, <2>2, <3>1 DEF Count
  <2>3. CASE Cardinality(Missing(w, pass[s].model)) # 0
    <3> DEFINE t == [pass[s] EXCEPT !.phase = "looking", !.missing = Cardinality(Missing(w, pass[s].model))]
    <3>1. t.ws = w /\ t.model = pass[s].model /\ t.phase # "begun"
      BY <1>0 DEF Passes
    <3>2. pass' = [pass EXCEPT ![s] = t]
      BY <1>4, <2>3 DEF Count
    <3> HIDE DEF t
    <3> QED BY <1>4, <1>g, <2>1, <3>1, <3>2 DEF Count
  <2> QED BY <2>2, <2>3
<1>5. CASE Look(s)
  <2> DEFINE b == NextBatch(w, pass[s].model)
  <2>1. Working(s) /\ pass[s].phase # "begun"
    BY <1>5 DEF Look, Working
  <2>2. CASE b # {} /\ Affordable(w)
    <3> DEFINE t == [pass[s] EXCEPT !.phase = "asking", !.batch = b]
    <3>1. t.ws = w /\ t.model = pass[s].model /\ t.phase # "begun"
      BY <1>0 DEF Passes
    <3>2. pass' = [pass EXCEPT ![s] = t] /\ UNCHANGED letOff
      BY <1>5, <2>2 DEF Look
    <3> HIDE DEF t
    <3> QED BY <1>5, <1>g, <2>1, <3>1, <3>2 DEF Look
  <2>3. CASE b = {}
    <3>1. Missing(w, pass[s].model) = {}
      BY <2>3, NoBatchNoneMissing
    <3> QED BY <1>2, <1>5, <1>f, <2>1, <2>3, <3>1 DEF Look
  <2>4. CASE b # {} /\ ~Affordable(w)
    <3>1. letOff' = letOff \cup {w} /\ End(s)
      BY <1>5, <2>4 DEF Look
    <3> QED BY <1>2, <1>5, <2>1, <3>1 DEF Look
  <2> QED BY <2>2, <2>3, <2>4
<1>6. CASE Cancel(s)
  <2> DEFINE t == [pass[s] EXCEPT !.cancelled = TRUE]
  <2>1. t.ws = w /\ t.model = pass[s].model /\ t.phase # "begun" /\ pass[s].phase # "begun"
    BY <1>0, <1>6 DEF Passes, Cancel
  <2>2. pass' = [pass EXCEPT ![s] = t]
    BY <1>6 DEF Cancel
  <2> HIDE DEF t
  <2> QED BY <1>6, <1>g, <2>1, <2>2 DEF Cancel
<1>7. CASE StopCancelled(s) \/ ProviderFails(s) \/ StoreFails(s)
  <2>1. Working(s) /\ End(s) /\ letOff' = letOff \cup {w} /\ UNCHANGED <<passage, vector, provider, caller, waiting>>
    BY <1>7 DEF StopCancelled, ProviderFails, StoreFails, Working
  <2> QED BY <1>2, <2>1
<1>8. CASE StoreVectors(s)
  <2> DEFINE t == [pass[s] EXCEPT !.phase = "stored"]
  <2>1. /\ t.ws = w /\ t.model = pass[s].model /\ t.phase # "begun" /\ pass[s].phase # "begun"
        /\ Working(s) /\ w \in Workspaces
    BY <1>0, <1>8, <1>w DEF Passes, StoreVectors, Working
  <2>2. pass' = [pass EXCEPT ![s] = t]
    BY <1>8 DEF StoreVectors
  <2> HIDE DEF t
  <2>3. pass'[s] = t /\ \A r \in Permits \ {s} : pass'[r] = pass[r]
    BY <1>0, <2>2
  <2>4. PICK v \in Workspaces : v = w
    BY <2>1
  <2>5. UNCHANGED <<passage, provider, caller, waiting, letOff>>
    BY <1>8 DEF StoreVectors
  <2>6. \A x \in Workspaces \ {v} : Spared(x)
    <3> SUFFICES ASSUME NEW x \in Workspaces \ {v} PROVE Spared(x)
      OBVIOUS
    <3>1. \A p \in Live(x) : vector'[p] = vector[p]
      BY <1>8, <2>4 DEF StoreVectors, Live
    <3>2. pass'[s].ws # x /\ pass[s].ws # x
      BY <2>1, <2>3, <2>4
    <3> QED BY <1>0, <2>3, <2>5, <3>1, <3>2, PassSpares
  <2>7. Awaited(v)' <=> Awaited(v)
    BY <2>5 DEF Awaited, Asked
  <2>8. /\ pass'[s].ws = v /\ pass'[s].phase # "begun" /\ pass'[s].model = pass[s].model
        /\ pass[s].ws = v /\ pass[s].phase # "begun" /\ provider' = provider
    BY <2>1, <2>3, <2>4, <2>5
  <2>9. Kept(v)'
    <3>1. pass[s].model = provider[v] \/ provider[v] = None \/ Awaited(v)
      BY <1>0, <2>8 DEF Kept, StaleIsAwaited
    <3>2. CASE pass[s].model = provider[v]
      BY <1>0, <2>8, <3>2 DEF Kept, Arranged, AtWork, StaleIsAwaited
    <3>3. CASE provider[v] = None
      BY <2>8, <3>3 DEF Kept, Behind, StaleIsAwaited
    <3>4. CASE Awaited(v)
      BY <2>7, <3>4, AwaitedIsKept
    <3> QED BY <3>1, <3>2, <3>3, <3>4
  <2> QED BY <2>6, <2>9 DEF AboutOne
<1>9. CASE Proceed(s)
  <2>1. Working(s) /\ pass[s].phase # "begun" /\ UNCHANGED <<passage, vector, provider, caller, letOff>>
    BY <1>9 DEF Proceed, Working
  <2>2. CASE End(s) /\ Queue(w)
    <3>1. waiting' \in {waiting, waiting \cup {w}} /\ w \in waiting'
      BY <2>2 DEF Queue
    <3> QED BY <1>2, <2>1, <2>2, <3>1
  <2>3. CASE ~(End(s) /\ Queue(w))
    <3> DEFINE t == [pass[s] EXCEPT !.phase = "looking", !.batch = {},
                                    !.completed = AtMost(pass[s].completed + Cardinality(pass[s].batch), pass[s].missing),
                                    !.batches = AtMost(@ + 1, MaxBatches)]
    <3>1. t.ws = w /\ t.model = pass[s].model /\ t.phase # "begun"
      BY <1>0 DEF Passes
    <3>2. pass' = [pass EXCEPT ![s] = t] /\ UNCHANGED waiting
      BY <1>9, <2>3 DEF Proceed
    <3> HIDE DEF t
    <3> QED BY <1>g, <2>1, <3>1, <3>2
  <2> QED BY <2>2, <2>3
<1> QED BY <1>1, <1>3, <1>4, <1>5, <1>6, <1>7, <1>8, <1>9

LEMMA CallersAreAboutOne ==
    ASSUME UpkeepInv,
           \/ FileStep
           \/ \E c \in Handlers : PeopleStep(c) \/ ClearVectors(c)
           \/ \E c \in Callers : Request(c) \/ LoseRequest(c)
           \/ \E w \in Workspaces : Resume(w)
    PROVE  AboutOne
<1> USE DEF rowVars, queueVars, bounds
<1>0. /\ TypeOK /\ caller \in [Callers -> Requests] /\ None \notin Workspaces
      /\ \A w \in Workspaces : Kept(w)
      /\ \A c \in Callers : (caller[c].phase = "idle") = (caller[c].ws = None)
      /\ Handlers \subseteq Callers /\ Tasks \subseteq Callers
  BY ConstantsOK DEF UpkeepInv, LineInv, TypeOK, Callers
\* A caller that has a workspace awaits it.
<1>1. ASSUME NEW c \in Callers, NEW w \in Workspaces, caller'[c].ws = w
      PROVE  Kept(w)'
  BY <1>1, AwaitedIsKept DEF Awaited, Asked
<1>2. ASSUME NEW w \in Workspaces, NEW old \in SUBSET Passages, DeleteFile(w, old) PROVE AboutOne
  <2>1. \A x \in Workspaces : Live(x)' = Live(x) \ old /\ \A p \in Live(x)' : vector'[p] = vector[p]
    BY <1>0, <1>2 DEF TypeOK, DeleteFile, Live
  <2>2. \A x \in Workspaces \ {w} : Live(x)' = Live(x)
    BY <1>2, <2>1 DEF DeleteFile, Live
  <2>3. UNCHANGED <<provider, waiting, letOff, caller, pass>>
    BY <1>2 DEF DeleteFile
  <2>4. \A x \in Workspaces \ {w} : Spared(x)
    BY <2>1, <2>2, <2>3 DEF Spared, Awaited, Asked
  <2>5. w \in Behind' => w \in Behind
    BY <2>1, <2>3 DEF Behind, Missing
  <2>6. Kept(w)'
    BY <1>0, <2>3, <2>5 DEF Kept, Arranged, Asked, AtWork, StaleIsAwaited, Awaited
  <2> QED BY <2>4, <2>6 DEF AboutOne
<1>3. ASSUME NEW w \in Workspaces, NEW old \in SUBSET Passages, NEW c \in Tasks, NEW new \in SUBSET Passages,
             IndexFile(c, w, old, new)
      PROVE  AboutOne
  <2>1. /\ c \in Callers /\ caller'[c].ws = w /\ caller[c].ws = None
        /\ \A d \in Callers \ {c} : caller'[d] = caller[d]
    BY <1>0, <1>3 DEF IndexFile
  <2>2. \A x \in Workspaces \ {w} : Live(x)' = Live(x) /\ \A p \in Live(x) : vector'[p] = vector[p]
    BY <1>0, <1>3 DEF TypeOK, IndexFile, Live
  <2>3. UNCHANGED <<provider, waiting, letOff, pass>>
    BY <1>3 DEF IndexFile
  <2>4. \A x \in Workspaces \ {w} : Spared(x)
    BY <1>0, <2>1, <2>2, <2>3, CallerSpares
  <2> QED BY <1>1, <2>1, <2>4 DEF AboutOne
<1>4. ASSUME NEW c \in Handlers, NEW w \in Workspaces, NEW m \in Models \cup {None}, SaveProvider(c, w, m) PROVE AboutOne
  <2>1. /\ c \in Callers /\ caller[c].ws = None
        /\ caller'[c].ws = IF m = None THEN None ELSE w
        /\ \A d \in Callers \ {c} : caller'[d] = caller[d]
    BY <1>0, <1>4 DEF SaveProvider, NoRequest
  <2>2. provider'[w] = m /\ \A x \in Workspaces \ {w} : provider'[x] = provider[x]
    BY <1>0, <1>4 DEF TypeOK, SaveProvider
  <2>3. UNCHANGED <<passage, vector, waiting, letOff, pass>>
    BY <1>4 DEF SaveProvider
  <2>4. \A x \in Workspaces \ {w} : Spared(x)
    <3> SUFFICES ASSUME NEW x \in Workspaces \ {w} PROVE Spared(x)
      OBVIOUS
    <3>1. caller[c].ws # x /\ caller'[c].ws # x
      BY <1>0, <2>1
    <3>2. Live(x)' = Live(x) /\ \A p \in Live(x) : vector'[p] = vector[p]
      BY <2>3 DEF Live
    <3> QED BY <1>0, <2>1, <2>2, <2>3, <3>1, <3>2, CallerSpares
  <2>5. CASE m = None
    <3>1. Kept(w)'
      BY <2>2, <2>5 DEF Kept, Behind, StaleIsAwaited
    <3> QED BY <2>4, <3>1 DEF AboutOne
  <2>6. CASE m # None
    BY <1>1, <2>1, <2>4, <2>6 DEF AboutOne
  <2> QED BY <2>5, <2>6
<1>5. ASSUME NEW c \in Handlers, NEW w \in Workspaces, CheckRebuild(c, w) PROVE AboutOne
  <2>1. /\ c \in Callers /\ caller'[c].ws = w /\ caller[c].ws = None
        /\ \A d \in Callers \ {c} : caller'[d] = caller[d]
    BY <1>0, <1>5 DEF CheckRebuild
  <2>2. UNCHANGED <<passage, vector, provider, waiting, letOff, pass>>
    BY <1>5 DEF CheckRebuild
  <2>3. \A x \in Workspaces \ {w} : Spared(x)
    <3> SUFFICES ASSUME NEW x \in Workspaces \ {w} PROVE Spared(x)
      OBVIOUS
    <3>1. Live(x)' = Live(x) /\ \A p \in Live(x) : vector'[p] = vector[p]
      BY <2>2 DEF Live
    <3> QED BY <1>0, <2>1, <2>2, <3>1, CallerSpares
  <2> QED BY <1>1, <2>1, <2>3 DEF AboutOne
<1>6. ASSUME NEW c \in Handlers, ClearVectors(c) PROVE AboutOne
  <2>1. PICK w \in Workspaces : w = caller[c].ws
    BY <1>0, <1>6 DEF ClearVectors, Requests
  <2>2. c \in Callers /\ caller'[c].ws = w /\ \A d \in Callers \ {c} : caller'[d] = caller[d]
    BY <1>0, <1>6, <2>1 DEF ClearVectors, Requests
  <2>3. UNCHANGED <<passage, provider, waiting, letOff, pass>>
    BY <1>6 DEF ClearVectors
  <2>4. \A x \in Workspaces \ {w} : Live(x)' = Live(x) /\ \A p \in Live(x) : vector'[p] = vector[p]
    BY <1>6, <2>1, <2>3 DEF ClearVectors, Live
  <2>5. \A x \in Workspaces \ {w} : Spared(x)
    BY <1>0, <2>1, <2>2, <2>3, <2>4, CallerSpares
  <2> QED BY <1>1, <2>2, <2>5 DEF AboutOne
<1>7. ASSUME NEW c \in Callers, Request(c) \/ LoseRequest(c) PROVE AboutOne
  <2>1. PICK w \in Workspaces : w = caller[c].ws
    BY <1>0, <1>7 DEF Request, LoseRequest, Requests
  <2>2. caller'[c].ws = None /\ \A d \in Callers \ {c} : caller'[d] = caller[d]
    BY <1>0, <1>7 DEF Request, LoseRequest, NoRequest
  <2>3. UNCHANGED <<passage, vector, provider, pass>>
    BY <1>7 DEF Request, LoseRequest
  <2>4. /\ w \in waiting' \/ w \in letOff'
        /\ waiting' \in {waiting, waiting \cup {w}} /\ letOff' \in {letOff, letOff \cup {w}}
    BY <1>7, <2>1 DEF Request, LoseRequest, Queue
  <2>5. \A x \in Workspaces \ {w} : Spared(x)
    <3> SUFFICES ASSUME NEW x \in Workspaces \ {w} PROVE Spared(x)
      OBVIOUS
    <3>1. Live(x)' = Live(x) /\ \A p \in Live(x) : vector'[p] = vector[p]
      BY <2>3 DEF Live
    <3>2. caller[c].ws # x /\ caller'[c].ws # x
      BY <1>0, <2>1, <2>2
    <3> QED BY <1>0, <2>2, <2>3, <2>4, <3>1, <3>2, CallerSpares
  <2>6. Kept(w)'
    BY <2>4, AwaitedIsKept DEF Awaited
  <2> QED BY <2>5, <2>6 DEF AboutOne
<1>8. ASSUME NEW w \in Workspaces, Resume(w) PROVE AboutOne
  <2>1. waiting' = waiting \cup {w} /\ UNCHANGED <<passage, vector, provider, caller, letOff, pass>>
    BY <1>8 DEF Resume, Queue
  <2>2. \A x \in Workspaces \ {w} : Spared(x)
    BY <2>1 DEF Spared, Awaited, Asked, Live
  <2>3. Kept(w)'
    BY <2>1, AwaitedIsKept DEF Awaited
  <2> QED BY <2>2, <2>3 DEF AboutOne
<1> QED BY <1>2, <1>3, <1>4, <1>5, <1>6, <1>7, <1>8 DEF FileStep, PeopleStep

LEMMA StepIsAboutOne ==
    ASSUME OnePermit, UpkeepInv, [Next]_vars
    PROVE  AboutOne
<1>1. CASE UNCHANGED vars \/ Receive \/ Midnight
  <2>1. UNCHANGED <<passage, vector, provider, waiting, letOff, caller, pass>>
    BY <1>1 DEF vars, rowVars, queueVars, bounds, Receive, Midnight
  <2> QED BY <2>1, QuietSpares DEF AboutOne
<1> QED BY <1>1, WorkIsAboutOne, CallersAreAboutOne DEF Next, Quiet, AboutOne

LEMMA StepKeeps == ASSUME OnePermit, UpkeepInv, [Next]_vars PROVE UpkeepInv'
<1>1. LineInv'
  BY StepLine DEF UpkeepInv
<1>2. CASE Restart
  <2>1. \A w \in Workspaces : Awaited(w)'
    BY <1>2 DEF Restart, Awaited
  <2> QED BY <1>1, <2>1, AwaitedIsKept DEF UpkeepInv
<1>3. CASE \A x \in Workspaces : Spared(x)
  BY <1>1, <1>3, SparedStays DEF UpkeepInv
<1>4. CASE \E w \in Workspaces : Kept(w)' /\ \A x \in Workspaces \ {w} : Spared(x)
  BY <1>1, <1>4, SparedStays DEF UpkeepInv
<1> QED BY <1>2, <1>3, <1>4, StepIsAboutOne DEF AboutOne

LEMMA InitKeeps == Init => UpkeepInv
<1> SUFFICES ASSUME Init PROVE UpkeepInv
  OBVIOUS
<1>1. Line = <<>> /\ waiting = {}
  BY DEF Init, Line
<1>2. LineInv
  BY <1>1, InitTyped DEF LineInv, WaitingIsQueued
<1>3. Behind = {}
  BY DEF Init, Behind, Missing, Live
<1>4. \A w \in Workspaces : StaleIsAwaited(w)
  BY ConstantsOK DEF Init, StaleIsAwaited, NoPass
<1> QED BY <1>2, <1>3, <1>4 DEF UpkeepInv, Kept

\* With one permit, a workspace with missing vectors is never forgotten: it waits,
\* a pass of its model works for it, somebody is about to request it, or its last
\* pass or request failed.
THEOREM NothingForgotten == ASSUME OnePermit PROVE Spec => []MissingIsRequested
<1>1. UpkeepInv => MissingIsRequested
  BY DEF UpkeepInv, Kept, MissingIsRequested, Behind
<1>2. UpkeepInv /\ [Next]_vars => UpkeepInv'
  BY StepKeeps
<1> QED BY <1>1, <1>2, InitKeeps, PTL DEF Spec

\* With one permit the queue implements Upkeep: every step lets a workspace fall
\* behind and arranges for it, arranges for some, catches up, or lets one go that
\* is up to date.
THEOREM QueueKeepsUp == ASSUME OnePermit PROVE Spec => KeepsVectorsUp
<1>1. ASSUME Init PROVE Vectors!Init
  <2>1. Behind = {}
    BY <1>1 DEF Init, Behind, Missing, Live
  <2>2. Arranged = {}
    BY <1>1, ConstantsOK DEF Init, Arranged, Asked, AtWork, NoRequest, NoPass
  <2> QED BY <2>1, <2>2 DEF Vectors!Init
<1>2. ASSUME UpkeepInv, UpkeepInv', [Next]_vars PROVE [Vectors!Next]_<<Behind, Arranged>>
  <2>0. /\ Behind \subseteq Workspaces /\ Arranged \subseteq Workspaces
        /\ Behind' \subseteq Workspaces /\ Arranged' \subseteq Workspaces
    BY DEF Behind, Arranged
  <2>1. CASE \A x \in Workspaces : Spared(x)
    BY <2>0, <2>1, SparedStays
  <2>2. CASE \E w \in Workspaces : Kept(w)' /\ \A x \in Workspaces \ {w} : Spared(x)
    <3>1. PICK w \in Workspaces : \A x \in Workspaces \ {w} : Spared(x)
      BY <2>2
    <3>2. \A x \in Workspaces \ {w} : (x \in Behind' <=> x \in Behind) /\ (x \in Arranged' <=> x \in Arranged)
      BY <3>1, SparedStays
    <3>3. (w \in Behind => w \in Arranged) /\ (w \in Behind' => w \in Arranged')
      BY <1>2 DEF UpkeepInv, Kept
    <3>4. CASE w \in Behind' /\ w \in Behind
      BY <2>0, <3>2, <3>3, <3>4
    <3>5. CASE w \in Behind' /\ w \notin Behind
      <4>1. Vectors!FallBehind(w)
        BY <2>0, <3>2, <3>3, <3>5 DEF Vectors!FallBehind
      <4> QED BY <4>1 DEF Vectors!Next
    <3>6. CASE w \notin Behind' /\ w \in Behind
      <4>1. Vectors!CatchUp(w)
        BY <2>0, <3>2, <3>3, <3>6 DEF Vectors!CatchUp
      <4> QED BY <4>1 DEF Vectors!Next
    <3>7. CASE w \notin Behind' /\ w \notin Behind /\ w \in Arranged'
      <4>1. Vectors!Arrange({w})
        BY <2>0, <3>2, <3>7 DEF Vectors!Arrange
      <4> QED BY <4>1 DEF Vectors!Next
    <3>8. CASE w \notin Behind' /\ w \notin Behind /\ w \notin Arranged'
      <4>1. Vectors!StandDown(w)
        BY <2>0, <3>2, <3>8 DEF Vectors!StandDown
      <4> QED BY <4>1 DEF Vectors!Next
    <3> QED BY <3>4, <3>5, <3>6, <3>7, <3>8
  <2>3. CASE Restart
    <3>1. Behind' = Behind
      BY <2>3 DEF Restart, Behind, Missing, Live, rowVars
    <3>2. Arranged' = Arranged \cup Workspaces
      BY <2>0, <2>3 DEF Restart, Arranged
    <3>3. Vectors!Arrange(Workspaces)
      BY <3>1, <3>2 DEF Vectors!Arrange
    <3> QED BY <3>3 DEF Vectors!Next
  <2> QED BY <1>2, <2>1, <2>2, <2>3, StepIsAboutOne DEF AboutOne
<1>3. UpkeepInv /\ [Next]_vars => UpkeepInv'
  BY StepKeeps
<1>4. Init => Vectors!Init
  BY <1>1
<1>5. UpkeepInv /\ UpkeepInv' /\ [Next]_vars => [Vectors!Next]_<<Behind, Arranged>>
  BY <1>2
<1> QED BY <1>3, <1>4, <1>5, InitKeeps, PTL DEF Spec, KeepsVectorsUp, Vectors!Spec, Vectors!vars

=============================================================================
