-------------------------- MODULE MailOutbox_proofs --------------------------
(***************************************************************************)
(* Proofs about MailOutbox, for any mails, senders, people and limits.     *)
(***************************************************************************)
EXTENDS MailOutbox, TLAPS, FiniteSetTheorems

-----------------------------------------------------------------------------
(* Types *)

\* The faults that are counted are counted in natural numbers.
LEMMA FaultTyped == ASSUME MailTypeOK, Fault PROVE faults' \in Nat
BY DEF MailTypeOK, Fault

\* Features, people and administrators keep the types.
LEMMA OutsideTyped ==
    ASSUME MailTypeOK,
           \/ \E s \in Senders :
                 \/ \E k \in {"notice", "test"} : CheckOutbox(s, k)
                 \/ GiveUp(s)
                 \/ \E m \in Mails : Enqueue(s, m)
           \/ SaveSettings
           \/ \E p \in People : Notify(p) \/ DayPasses(p)
           \/ \E m \in Mails : FallDue(m) \/ Prune(m)
    PROVE  MailTypeOK'
<1> USE DEF mailVars, digestVars, historyVars, boundVars
<1>1. ASSUME NEW s \in Senders, NEW k \in {"notice", "test"}, CheckOutbox(s, k) PROVE MailTypeOK'
  BY <1>1 DEF MailTypeOK, CheckOutbox
<1>2. ASSUME NEW s \in Senders, GiveUp(s) PROVE MailTypeOK'
  BY <1>2 DEF MailTypeOK, GiveUp
<1>3. ASSUME NEW s \in Senders, NEW m \in Mails, Enqueue(s, m) PROVE MailTypeOK'
  BY <1>3 DEF MailTypeOK, Enqueue, Insert, Kinds
<1>4. CASE SaveSettings
  BY <1>4 DEF MailTypeOK, SaveSettings
<1>5. ASSUME NEW p \in People, Notify(p) PROVE MailTypeOK'
  BY <1>5 DEF MailTypeOK, Notify
<1>6. ASSUME NEW p \in People, DayPasses(p) PROVE MailTypeOK'
  BY <1>6 DEF MailTypeOK, DayPasses
<1>7. ASSUME NEW m \in Mails, FallDue(m) PROVE MailTypeOK'
  BY <1>7 DEF MailTypeOK, FallDue
<1>8. ASSUME NEW m \in Mails, Prune(m) PROVE MailTypeOK'
  BY <1>8 DEF MailTypeOK, Prune
<1> QED BY <1>1, <1>2, <1>3, <1>4, <1>5, <1>6, <1>7, <1>8

\* The worker's rounds keep the types.
LEMMA RoundTyped == ASSUME MailTypeOK, RoundStep \/ Restart PROVE MailTypeOK'
<1> USE DEF mailVars, digestVars, historyVars, boundVars
<1>0. worker \in Workers /\ Rest \in Workers /\ Rest.phase = "resting"
  BY DEF MailTypeOK, Workers, Rest
<1>1. CASE Requeue
  <2>1. Batch = {} /\ worker' = Rest
    BY <1>1 DEF MailTypeOK, Requeue, At, Batch
  <2>2. status' \in [Mails -> {"unborn", "queued", "sending", "sent", "failed", "pruned"}] /\ due' \in [Mails -> BOOLEAN]
    BY <1>1 DEF MailTypeOK, Requeue
  <2>3. faults' \in Nat /\ forgotten' \subseteq Mails
    BY <1>1, FaultTyped DEF MailTypeOK, Requeue, With
  <2> QED BY <1>0, <1>1, <2>1, <2>2, <2>3 DEF MailTypeOK, Requeue, Batch
<1>2. CASE BeginRound
  <2>1. PICK people \in SUBSET People : worker' = [worker EXCEPT !.phase = "digesting", !.todo = people]
    BY <1>2 DEF BeginRound
  <2>2. worker' \in Workers
    BY <1>0, <2>1 DEF Workers
  <2>3. \A m \in Mails : delivery[m] = "none"
    BY <1>2 DEF MailTypeOK, BeginRound, At
  <2> QED BY <1>2, <2>2, <2>3 DEF MailTypeOK, BeginRound
<1>3. CASE EndDigests \/ ClaimFails
  <2>1. faults' \in Nat
    BY <1>3, FaultTyped DEF MailTypeOK, EndDigests, ClaimFails
  <2> QED BY <1>0, <1>3, <2>1 DEF MailTypeOK, EndDigests, ClaimFails, At, Workers
<1>4. CASE Claim
  <2>1. worker' \in Workers
    BY <1>0, <1>4 DEF Claim, Go, Workers
  <2>2. status' \in [Mails -> {"unborn", "queued", "sending", "sent", "failed", "pruned"}] /\ delivery' \in [Mails -> Deliveries]
    BY <1>4 DEF MailTypeOK, Claim, Deliveries
  <2>3. \A m \in Mails : delivery'[m] # "none" => worker'.phase \in {"claimed", "delivering"}
    BY <1>0, <1>4 DEF MailTypeOK, Claim, At, Go, Workers
  <2> QED BY <1>4, <2>1, <2>2, <2>3 DEF MailTypeOK, Claim
<1>5. CASE ReadSettings
  <2>1. faults' \in Nat
    BY <1>5, FaultTyped DEF MailTypeOK, ReadSettings
  <2> QED BY <1>0, <1>5, <2>1 DEF MailTypeOK, ReadSettings, At, Go, Workers
<1>6. CASE EndRound
  BY <1>0, <1>6 DEF MailTypeOK, EndRound, Batch
<1>7. ASSUME NEW p \in People, ReadNotices(p) PROVE MailTypeOK'
  <2>0. /\ [worker EXCEPT !.phase = "noticed", !.todo = @ \ {p}, !.person = {p}] \in Workers
        /\ [worker EXCEPT !.todo = @ \ {p}] \in Workers
    BY <1>0 DEF Workers
  <2>1. worker' \in Workers /\ worker.phase = "digesting"
    BY <2>0, <1>7 DEF ReadNotices, At
  <2> QED BY <1>0, <1>7, <2>1 DEF MailTypeOK, ReadNotices
<1>8. ASSUME NEW p \in People, RecordDigest(p) \/ SkipDigest(p) PROVE MailTypeOK'
  <2>1. faults' \in Nat
    BY <1>8, FaultTyped DEF MailTypeOK, RecordDigest, SkipDigest
  <2>2. candidate' \in [People -> BOOLEAN] /\ unread' \in [People -> BOOLEAN]
    BY <1>8 DEF MailTypeOK, RecordDigest, SkipDigest
  <2>3. worker' \in Workers
    BY <1>0, <1>8 DEF RecordDigest, SkipDigest, Workers
  <2>4. \A m \in Mails : delivery[m] = "none"
    BY <1>8 DEF MailTypeOK, RecordDigest, SkipDigest, At
  <2> QED BY <1>8, <2>1, <2>2, <2>3, <2>4 DEF MailTypeOK, RecordDigest, SkipDigest
<1>9. ASSUME NEW p \in People, NEW m \in Mails, QueueDigest(p, m) PROVE MailTypeOK'
  <2>1. faults' \in Nat /\ worker' \in Workers
    BY <1>0, <1>9, FaultTyped DEF MailTypeOK, QueueDigest, Go, Workers
  <2>2. \A n \in Mails : delivery[n] = "none"
    BY <1>9 DEF MailTypeOK, QueueDigest, At
  <2> QED BY <1>9, <2>1, <2>2 DEF MailTypeOK, QueueDigest, Insert, Kinds
<1>10. CASE Restart
  BY <1>0, <1>10 DEF MailTypeOK, Restart, Deliveries, Workers
<1> QED BY <1>1, <1>2, <1>3, <1>4, <1>5, <1>6, <1>7, <1>8, <1>9, <1>10 DEF RoundStep

\* A delivery's steps keep the types.
LEMMA DeliveryTyped == ASSUME MailTypeOK, NEW m \in Mails, DeliveryStep(m) PROVE MailTypeOK'
<1> USE DEF mailVars, digestVars, historyVars, boundVars, Delivers, At, Deliveries
<1>1. CASE Refuse(m)
  BY <1>1 DEF MailTypeOK, Refuse
<1>2. CASE Try(m)
  BY <1>2 DEF MailTypeOK, Try
<1>3. CASE Answer(m)
  BY <1>3 DEF MailTypeOK, Answer, Fault
<1>4. CASE Quit(m)
  BY <1>4 DEF MailTypeOK, Quit, Fault
<1>5. CASE Record(m)
  BY <1>5 DEF MailTypeOK, Record
<1>6. CASE RecordFails(m)
  BY <1>6 DEF MailTypeOK, RecordFails, Fault
<1> QED BY <1>1, <1>2, <1>3, <1>4, <1>5, <1>6 DEF DeliveryStep

LEMMA StepTyped == ASSUME MailTypeOK, [Next]_vars PROVE MailTypeOK'
<1>1. CASE UNCHANGED vars
  BY <1>1 DEF MailTypeOK, vars, mailVars, digestVars, historyVars, boundVars
<1> QED BY <1>1, OutsideTyped, RoundTyped, DeliveryTyped DEF Next

\* The outbox, the worker and the deliveries have their types; only mails the
\* worker has claimed are being delivered.
THEOREM MailTypeCorrect == Spec => []MailTypeOK
<1>1. Init => MailTypeOK
  <2>1. worker = [Rest EXCEPT !.phase = "starting"] => worker \in Workers
    BY DEF Workers, Rest
  <2> QED BY <2>1, MailConstantsOK DEF Init, MailTypeOK, Kinds, Deliveries
<1> QED BY <1>1, StepTyped, PTL DEF Spec

-----------------------------------------------------------------------------
(* What the worker leaves behind *)

\* A mail that is being delivered is 'sending', and a forgotten one too: it is
\* not delivered.  Only a start, or nobody, has a mail that is in no batch.
Handled ==
    /\ MailTypeOK /\ SendingIsHandled
    /\ \A m \in Mails : delivery[m] # "none" => status[m] = "sending"
    /\ \A m \in forgotten : status[m] = "sending" /\ delivery[m] = "none"

LEMMA StepHandled == ASSUME Handled, [Next]_vars PROVE Handled'
<1> USE DEF mailVars, digestVars, historyVars, boundVars
<1>0. MailTypeOK /\ MailTypeOK' /\ forgotten \subseteq Mails
  BY StepTyped DEF Handled, MailTypeOK
<1>1. CASE UNCHANGED <<status, delivery, forgotten>> /\ (At("starting") => At("starting")')
  BY <1>0, <1>1 DEF Handled, SendingIsHandled, With, Batch
<1>2. CASE \E s \in Senders : \/ \E k \in {"notice", "test"} : CheckOutbox(s, k)
                              \/ GiveUp(s)
  BY <1>1, <1>2 DEF CheckOutbox, GiveUp, At
<1>3. ASSUME NEW m \in Mails, NEW k, Insert(m, k), UNCHANGED <<delivery, forgotten>>,
             At("starting") => At("starting")'
      PROVE  Handled'
  <2>1. m \notin Batch /\ m \notin forgotten
    BY <1>3 DEF Handled, Insert, With, Batch
  <2>2. With("sending")' = With("sending")
    BY <1>0, <1>3 DEF MailTypeOK, Insert, With
  <2>3. \A n \in Mails \ {m} : status'[n] = status[n]
    BY <1>0, <1>3 DEF MailTypeOK, Insert
  <2>4. Batch' = Batch
    BY <1>3 DEF Batch
  <2>5. SendingIsHandled'
    BY <1>3, <2>2, <2>4 DEF Handled, SendingIsHandled
  <2>6. delivery[m] = "none"
    BY <2>1 DEF Batch
  <2> QED BY <1>0, <1>3, <2>1, <2>3, <2>5, <2>6 DEF Handled
<1>4. ASSUME NEW s \in Senders, NEW m \in Mails, Enqueue(s, m) PROVE Handled'
  BY <1>3, <1>4 DEF Enqueue, At
<1>5. ASSUME NEW p \in People, NEW m \in Mails, QueueDigest(p, m) PROVE Handled'
  <2>1. UNCHANGED <<delivery, forgotten>> /\ (At("starting") => At("starting")')
    BY <1>5 DEF QueueDigest, At
  <2>2. Insert(m, "digest")
    BY <1>5 DEF QueueDigest
  <2> QED BY <1>3, <2>1, <2>2
<1>6. CASE SaveSettings \/ (\E p \in People : Notify(p) \/ DayPasses(p)) \/ \E m \in Mails : FallDue(m)
  BY <1>1, <1>6 DEF SaveSettings, Notify, DayPasses, FallDue, At
<1>7. ASSUME NEW m \in Mails, Prune(m) PROVE Handled'
  <2>1. m \notin Batch /\ m \notin forgotten
    BY <1>7 DEF Handled, Prune, Batch
  <2>2. With("sending")' = With("sending")
    BY <1>0, <1>7 DEF MailTypeOK, Prune, With
  <2>3. \A n \in Mails \ {m} : status'[n] = status[n]
    BY <1>0, <1>7 DEF MailTypeOK, Prune
  <2> QED BY <1>0, <1>7, <2>1, <2>2, <2>3 DEF Handled, SendingIsHandled, Batch, Prune, At
<1>8. CASE Requeue
  <2>1. Batch = {}
    BY <1>0, <1>8 DEF MailTypeOK, Requeue, At, Batch
  <2>2. CASE status' = [m \in Mails |-> IF status[m] = "sending" THEN "queued" ELSE status[m]] /\ forgotten' = {}
    BY <1>0, <1>8, <2>1, <2>2 DEF Handled, SendingIsHandled, With, Batch, Requeue
  <2>3. CASE forgotten' = With("sending") /\ UNCHANGED mailVars
    BY <1>0, <1>8, <2>1, <2>3 DEF Handled, SendingIsHandled, With, Batch, Requeue
  <2> QED BY <1>8, <2>2, <2>3 DEF Requeue
<1>9. CASE BeginRound \/ EndDigests \/ ClaimFails \/ ReadSettings \/ EndRound
  BY <1>1, <1>9 DEF BeginRound, EndDigests, ClaimFails, ReadSettings, EndRound, At, Go
<1>10. CASE \E p \in People : ReadNotices(p) \/ SkipDigest(p) \/ RecordDigest(p)
  BY <1>1, <1>10 DEF ReadNotices, SkipDigest, RecordDigest, At
<1>11. CASE Claim
  <2>1. PICK claimed \in SUBSET DueMails :
           /\ status' = [m \in Mails |-> IF m \in claimed THEN "sending" ELSE status[m]]
           /\ delivery' = [m \in Mails |-> IF m \in claimed THEN "claimed" ELSE delivery[m]]
    BY <1>11 DEF Claim
  <2>2. \A m \in claimed : m \in Mails /\ m \notin forgotten
    BY <1>0, <2>1 DEF Handled, DueMails, With
  <2>3. ~At("starting")
    BY <1>11 DEF Claim, At
  <2> QED BY <1>0, <1>11, <2>1, <2>2, <2>3 DEF Handled, SendingIsHandled, With, Batch, Claim
<1>12. CASE Restart
  BY <1>0, <1>12 DEF Handled, SendingIsHandled, Restart, With, At, Rest
<1>13. ASSUME NEW m \in Mails, NEW from \in Deliveries \ {"none"}, NEW to \in Deliveries \ {"none"}, Delivers(m, from, to),
              UNCHANGED <<mailVars, forgotten, worker>>
       PROVE  Handled'
  <2>1. m \in Batch /\ status[m] = "sending" /\ m \notin forgotten
    BY <1>13 DEF Handled, Delivers, Batch
  <2>2. \A n \in Mails : delivery'[n] = IF n = m THEN to ELSE delivery[n]
    BY <1>0, <1>13 DEF MailTypeOK, Delivers
  <2>3. Batch' = Batch /\ to # "none"
    BY <1>13, <2>1, <2>2 DEF Batch
  <2>4. UNCHANGED <<status, forgotten, worker>>
    BY <1>13
  <2>5. SendingIsHandled'
    BY <2>3, <2>4 DEF Handled, SendingIsHandled, With, At
  <2> QED BY <1>0, <2>1, <2>2, <2>3, <2>4, <2>5 DEF Handled
<1>14. ASSUME NEW m \in Mails, Refuse(m) \/ Try(m) \/ Answer(m) \/ Quit(m) PROVE Handled'
  <2>1. PICK from \in Deliveries \ {"none"}, to \in Deliveries \ {"none"} : Delivers(m, from, to)
    BY <1>14 DEF Refuse, Try, Answer, Quit, Deliveries
  <2>2. UNCHANGED <<mailVars, forgotten, worker>>
    BY <1>14 DEF Refuse, Try, Answer, Quit
  <2> QED BY <1>13, <2>1, <2>2
<1>15. ASSUME NEW m \in Mails, Record(m) PROVE Handled'
  <2>1. m \in Batch /\ status[m] = "sending" /\ m \notin forgotten
    BY <1>15 DEF Handled, Record, Batch
  <2>2. delivery'[m] = "none" /\ status'[m] # "sending"
        /\ \A n \in Mails \ {m} : delivery'[n] = delivery[n] /\ status'[n] = status[n]
    BY <1>0, <1>15 DEF MailTypeOK, Record
  <2> QED BY <1>0, <1>15, <2>1, <2>2 DEF Handled, SendingIsHandled, With, Batch, Record, At
<1>16. ASSUME NEW m \in Mails, RecordFails(m) PROVE Handled'
  <2>1. m \in Batch /\ status[m] = "sending"
    BY <1>16 DEF Handled, RecordFails, Batch
  <2>2. delivery'[m] = "none" /\ \A n \in Mails \ {m} : delivery'[n] = delivery[n]
    BY <1>0, <1>16 DEF MailTypeOK, RecordFails
  <2> QED BY <1>0, <1>16, <2>1, <2>2 DEF Handled, SendingIsHandled, With, Batch, RecordFails, At
<1>17. CASE UNCHANGED vars
  BY <1>1, <1>17 DEF vars, At
<1> QED
  BY <1>2, <1>4, <1>5, <1>6, <1>7, <1>8, <1>9, <1>10, <1>11, <1>12, <1>14, <1>15, <1>16, <1>17
  DEF Next, RoundStep, DeliveryStep

LEMMA InitHandled == Init => Handled
<1> SUFFICES ASSUME Init PROVE Handled
  OBVIOUS
<1>1. worker \in Workers
  BY DEF Init, Workers, Rest
<1>2. MailTypeOK
  BY <1>1, MailConstantsOK DEF Init, MailTypeOK, Kinds, Deliveries
<1> QED BY <1>2 DEF Init, Handled, SendingIsHandled, With

\* No mail is left 'sending' by a worker that is past its start, unless the
\* record of its delivery (or its requeueing) failed.
THEOREM NothingLeftBehind == Spec => []SendingIsHandled
<1>1. Handled => SendingIsHandled
  BY DEF Handled
<1> QED BY <1>1, InitHandled, StepHandled, PTL DEF Spec

-----------------------------------------------------------------------------
(* Tries *)

\* A mail was tried once more than its attempts and the restarts say.
Uncounted(m) == ~At("starting") /\ (delivery[m] \notin {"none", "claimed"} \/ m \in forgotten)

TriesInv ==
    /\ Handled
    /\ \A m \in Mails :
         /\ tries[m] <= attempts[m] + restarts + IF Uncounted(m) THEN 1 ELSE 0
         /\ attempts[m] <= MaxAttempts
         /\ status[m] \in {"queued", "sending"} => attempts[m] < MaxAttempts
         /\ status[m] = "unborn" => attempts[m] = 0

LEMMA StepTries == ASSUME TriesInv, [Next]_vars PROVE TriesInv'
<1> USE DEF mailVars, digestVars, historyVars, boundVars
<1>0. /\ Handled /\ Handled' /\ MaxAttempts \in Nat \ {0}
      /\ \A m \in Mails : /\ attempts[m] \in Nat /\ tries[m] \in Nat /\ restarts \in Nat
                          /\ delivery[m] # "none" => status[m] = "sending" /\ m \notin forgotten
  BY StepHandled, MailConstantsOK DEF TriesInv, Handled, MailTypeOK
<1>1. CASE /\ UNCHANGED <<status, attempts, delivery, forgotten, tries, restarts>>
           /\ ~At("starting") /\ ~At("starting")'
  BY <1>0, <1>1 DEF TriesInv, Uncounted
<1>2. CASE UNCHANGED <<status, attempts, delivery, forgotten, tries, restarts, worker>>
  BY <1>0, <1>2 DEF TriesInv, Uncounted, At
<1>3. CASE \/ \E s \in Senders : GiveUp(s) \/ \E k \in {"notice", "test"} : CheckOutbox(s, k)
           \/ SaveSettings \/ (\E p \in People : Notify(p) \/ DayPasses(p)) \/ \E m \in Mails : FallDue(m)
  BY <1>2, <1>3 DEF CheckOutbox, GiveUp, SaveSettings, Notify, DayPasses, FallDue
<1>4. CASE \/ BeginRound \/ EndDigests \/ ClaimFails \/ ReadSettings \/ EndRound
           \/ \E p \in People : ReadNotices(p) \/ SkipDigest(p) \/ RecordDigest(p)
  <2>1. UNCHANGED <<status, attempts, delivery, forgotten, tries, restarts>>
    BY <1>4 DEF BeginRound, EndDigests, ClaimFails, ReadSettings, EndRound, ReadNotices, SkipDigest, RecordDigest
  <2>2. worker \in Workers
    BY <1>0 DEF Handled, MailTypeOK
  <2>3. ~At("starting") /\ ~At("starting")'
    <3>0. CASE BeginRound
      <4>1. At("resting")
        BY <3>0 DEF BeginRound
      <4>2. PICK people : worker' = [worker EXCEPT !.phase = "digesting", !.todo = people]
        BY <3>0 DEF BeginRound
      <4> QED BY <2>2, <4>1, <4>2 DEF Workers, At
    <3>1. CASE EndDigests \/ ClaimFails
      BY <2>2, <3>1 DEF Workers, EndDigests, ClaimFails, At, Rest
    <3>2. CASE ReadSettings
      BY <2>2, <3>2 DEF Workers, ReadSettings, At, Go
    <3>3. CASE EndRound
      BY <3>3 DEF EndRound, At, Rest
    <3>4. CASE \E p \in People : ReadNotices(p)
      BY <2>2, <3>4 DEF Workers, ReadNotices, At
    <3>5. CASE \E p \in People : SkipDigest(p) \/ RecordDigest(p)
      BY <2>2, <3>5 DEF Workers, SkipDigest, RecordDigest, At
    <3> QED BY <1>4, <3>0, <3>1, <3>2, <3>3, <3>4, <3>5
  <2> QED BY <1>1, <2>1, <2>3
<1>5. ASSUME NEW m \in Mails, NEW k, Insert(m, k), UNCHANGED <<delivery, forgotten, tries, restarts>>,
             At("starting")' <=> At("starting")
      PROVE  TriesInv'
  <2>1. \A n \in Mails : status'[n] = status[n] \/ status[n] = "unborn"
    BY <1>0, <1>5 DEF Handled, MailTypeOK, Insert
  <2>2. \A n \in Mails : Uncounted(n)' <=> Uncounted(n)
    BY <1>5 DEF Uncounted
  <2>3. \A n \in Mails : status[n] = "unborn" => attempts[n] < MaxAttempts
    BY <1>0 DEF TriesInv
  <2>4. UNCHANGED attempts /\ \A n \in Mails : status'[n] = "unborn" => status[n] = "unborn"
    BY <1>0, <1>5 DEF Handled, MailTypeOK, Insert
  <2> QED BY <1>0, <1>5, <2>1, <2>2, <2>3, <2>4 DEF TriesInv
<1>6. CASE \E m \in Mails : (\E s \in Senders : Enqueue(s, m)) \/ \E p \in People : QueueDigest(p, m)
  <2>1. PICK m \in Mails : (\E s \in Senders : Enqueue(s, m)) \/ \E p \in People : QueueDigest(p, m)
    BY <1>6
  <2>2. \E k : Insert(m, k)
    BY <2>1 DEF Enqueue, QueueDigest
  <2>3. UNCHANGED <<delivery, forgotten, tries, restarts>>
    BY <2>1 DEF Enqueue, QueueDigest
  <2>4. worker \in Workers
    BY <1>0 DEF Handled, MailTypeOK
  <2>5. \/ ~At("starting") /\ ~At("starting")'
        \/ UNCHANGED worker
    <3>1. CASE \E s \in Senders : Enqueue(s, m)
      BY <3>1 DEF Enqueue
    <3>2. CASE \E p \in People : QueueDigest(p, m)
      <4>1. /\ At("noticed")
            /\ \/ Go("queued")
               \/ worker' = [worker EXCEPT !.phase = "digesting", !.person = {}]
        BY <3>2 DEF QueueDigest
      <4> QED BY <2>4, <4>1 DEF At, Go, Workers
    <3> QED BY <2>1, <3>1, <3>2
  <2> QED BY <1>5, <2>2, <2>3, <2>5 DEF At
<1>7. ASSUME NEW m \in Mails, Prune(m) PROVE TriesInv'
  <2>1. \A n \in Mails : status'[n] = status[n] \/ status'[n] = "pruned"
    BY <1>0, <1>7 DEF Handled, MailTypeOK, Prune
  <2>2. UNCHANGED <<attempts, delivery, forgotten, tries, restarts, worker>>
    BY <1>7 DEF Prune
  <2>3. \A n \in Mails : Uncounted(n)' <=> Uncounted(n)
    BY <2>2 DEF Uncounted, At
  <2> QED BY <1>0, <2>1, <2>2, <2>3 DEF TriesInv
<1>8. CASE Requeue
  <2>1. \A m \in Mails : /\ status'[m] \in {status[m], "queued"}
                         /\ status'[m] # status[m] => status[m] = "sending"
    BY <1>0, <1>8 DEF Handled, MailTypeOK, Requeue
  <2>2. \A m \in Mails : tries[m] <= attempts[m] + restarts
    BY <1>0, <1>8 DEF TriesInv, Uncounted, Requeue
  <2>3. UNCHANGED <<tries, attempts, restarts>>
    BY <1>8 DEF Requeue
  <2>4. \A m \in Mails : tries'[m] <= attempts'[m] + restarts' + IF Uncounted(m)' THEN 1 ELSE 0
    BY <1>0, <2>2, <2>3
  <2> QED BY <1>0, <2>1, <2>3, <2>4 DEF TriesInv
<1>9. CASE Claim
  <2>1. \A m \in Mails : /\ status'[m] \in {status[m], "sending"}
                         /\ status'[m] # status[m] => status[m] = "queued"
    BY <1>0, <1>9 DEF Handled, MailTypeOK, Claim, DueMails, With
  <2>2. \A m \in Mails : Uncounted(m) => Uncounted(m)'
    <3>1. ~At("starting") /\ ~At("starting")'
      BY <1>0, <1>9 DEF Handled, MailTypeOK, Workers, Claim, At, Go
    <3>2. \A m \in Mails : delivery'[m] = delivery[m] \/ (status[m] = "queued" /\ delivery'[m] = "claimed")
      BY <1>0, <1>9 DEF Handled, MailTypeOK, Claim, DueMails, With
    <3> QED BY <1>0, <1>9, <3>1, <3>2 DEF Uncounted, Claim
  <2>3. UNCHANGED <<tries, attempts, restarts>>
    BY <1>9 DEF Claim
  <2> QED BY <1>0, <2>1, <2>2, <2>3 DEF TriesInv
<1>10. CASE Restart
  BY <1>0, <1>10 DEF TriesInv, Uncounted, Restart
<1>11. ASSUME NEW m \in Mails, NEW from \in Deliveries \ {"none"}, NEW to \in Deliveries \ {"none", "claimed"},
              Delivers(m, from, to), from = "claimed" => tries'[m] <= tries[m] + 1, from # "claimed" => UNCHANGED tries,
              tries' \in [Mails -> Nat], \A n \in Mails \ {m} : tries'[n] = tries[n],
              UNCHANGED <<mailVars, forgotten, worker, restarts>>
       PROVE  TriesInv'
  <2>1. \A n \in Mails : delivery'[n] = IF n = m THEN to ELSE delivery[n]
    BY <1>0, <1>11 DEF Handled, MailTypeOK, Delivers
  <2>2. /\ ~At("starting") /\ ~At("starting")' /\ delivery[m] = from
        /\ from # "none" /\ to # "none" /\ to # "claimed"
    BY <1>11 DEF Delivers, At
  <2>3. tries'[m] \in Nat /\ UNCHANGED <<status, attempts, forgotten, restarts>>
    BY <1>11
  <2>4. Uncounted(m)' /\ (from = "claimed" => ~Uncounted(m)) /\ (from # "claimed" => Uncounted(m))
    BY <1>0, <2>1, <2>2 DEF Uncounted
  <2>5. \A n \in Mails \ {m} : Uncounted(n)' <=> Uncounted(n)
    BY <2>1, <2>2, <2>3 DEF Uncounted
  <2>6. tries'[m] <= attempts[m] + restarts + 1
    BY <1>0, <1>11, <2>3, <2>4 DEF TriesInv
  <2> QED BY <1>0, <1>11, <2>3, <2>4, <2>5, <2>6 DEF TriesInv
<1>12. ASSUME NEW m \in Mails, Refuse(m) \/ Try(m) \/ Answer(m) \/ Quit(m) PROVE TriesInv'
  <2>1. PICK from \in Deliveries \ {"none"}, to \in Deliveries \ {"none", "claimed"} :
           /\ Delivers(m, from, to)
           /\ \/ from = "claimed" /\ Refuse(m)
              \/ from = "claimed" /\ Try(m)
              \/ from # "claimed" /\ (Answer(m) \/ Quit(m))
    BY <1>12 DEF Refuse, Try, Answer, Quit, Deliveries
  <2>2. UNCHANGED <<mailVars, forgotten, worker, restarts>>
    BY <1>12 DEF Refuse, Try, Answer, Quit
  <2>3. tries' \in [Mails -> Nat]
    BY <1>0 DEF Handled, MailTypeOK
  <2>4. /\ from = "claimed" => tries'[m] <= tries[m] + 1
        /\ from # "claimed" => UNCHANGED tries
        /\ \A n \in Mails \ {m} : tries'[n] = tries[n]
    BY <1>0, <2>1 DEF Handled, MailTypeOK, Refuse, Try, Answer, Quit
  <2> QED BY <1>11, <2>1, <2>2, <2>3, <2>4
<1>13. ASSUME NEW m \in Mails, Record(m) PROVE TriesInv'
  <2>1. /\ status[m] = "sending" /\ ~At("starting") /\ ~At("starting")' /\ m \notin forgotten
        /\ attempts[m] < MaxAttempts /\ tries[m] <= attempts[m] + restarts + 1
    BY <1>0, <1>13 DEF TriesInv, Record, At
  <2>2. /\ attempts'[m] = attempts[m] + 1 /\ status'[m] \in {"sent", "queued", "failed"}
        /\ status'[m] = "queued" => attempts[m] + 1 < MaxAttempts
    BY <1>0, <1>13 DEF Handled, MailTypeOK, Record, TriesAgain
  <2>3. \A n \in Mails \ {m} : delivery'[n] = delivery[n] /\ status'[n] = status[n] /\ attempts'[n] = attempts[n]
    BY <1>0, <1>13 DEF Handled, MailTypeOK, Record
  <2>4. UNCHANGED <<tries, restarts, forgotten>>
    BY <1>13 DEF Record
  <2>5. \A n \in Mails \ {m} : Uncounted(n)' <=> Uncounted(n)
    BY <2>1, <2>3, <2>4 DEF Uncounted
  <2> QED BY <1>0, <2>1, <2>2, <2>3, <2>4, <2>5 DEF TriesInv
<1>14. ASSUME NEW m \in Mails, RecordFails(m) PROVE TriesInv'
  <2>1. /\ ~At("starting") /\ ~At("starting")' /\ m \in forgotten'
        /\ delivery[m] \notin {"none", "claimed"}
    BY <1>14 DEF RecordFails, At
  <2>2. \A n \in Mails \ {m} : delivery'[n] = delivery[n] /\ (n \in forgotten' <=> n \in forgotten)
    BY <1>0, <1>14 DEF Handled, MailTypeOK, RecordFails
  <2>3. UNCHANGED <<tries, restarts, attempts, status>>
    BY <1>14 DEF RecordFails
  <2>4. \A n \in Mails : Uncounted(n)' <=> Uncounted(n)
    BY <2>1, <2>2 DEF Uncounted
  <2> QED BY <1>0, <2>3, <2>4 DEF TriesInv
<1>15. CASE UNCHANGED vars
  BY <1>2, <1>15 DEF vars
<1> QED
  BY <1>3, <1>4, <1>6, <1>7, <1>8, <1>9, <1>10, <1>12, <1>13, <1>14, <1>15 DEF Next, RoundStep, DeliveryStep

\* A mail is tried at most MaxAttempts times, and once more for each restart.
THEOREM TriesBounded == Spec => []TriesAreBounded
<1>1. Init => TriesInv
  BY InitHandled, MailConstantsOK DEF Init, TriesInv
<1>2. TriesInv => TriesAreBounded
  <2> SUFFICES ASSUME TriesInv, NEW m \in Mails PROVE tries[m] <= MaxAttempts + restarts
    BY DEF TriesAreBounded
  <2>1. /\ attempts[m] \in Nat /\ tries[m] \in Nat /\ restarts \in Nat /\ MaxAttempts \in Nat
        /\ Uncounted(m) => status[m] = "sending"
    BY MailConstantsOK DEF TriesInv, Handled, MailTypeOK, Uncounted
  <2> QED BY <2>1 DEF TriesInv
<1> QED BY <1>1, <1>2, StepTries, PTL DEF Spec

-----------------------------------------------------------------------------
(* Copies *)

\* The last copy of a mail is the one its row, or its delivery, still counts on.
Counted(m) == status[m] \in {"sent", "pruned"} \/ delivery[m] \in {"accepted", "answered", "sent"}

CopiesInv ==
    /\ Handled
    /\ \A m \in Mails : copies[m] <= faults + restarts + IF Counted(m) THEN 1 ELSE 0

LEMMA StepCopies == ASSUME CopiesInv, [Next]_vars PROVE CopiesInv'
<1> USE DEF mailVars, digestVars, historyVars, boundVars
<1>0. /\ Handled /\ Handled'
      /\ \A m \in Mails : /\ copies[m] \in Nat /\ restarts \in Nat /\ faults \in Nat
                          /\ delivery[m] # "none" => status[m] = "sending"
  BY StepHandled DEF CopiesInv, Handled, MailTypeOK
\* Faults and restarts only add room.
<1>1. CASE /\ UNCHANGED copies /\ \A m \in Mails : Counted(m) => Counted(m)'
           /\ \/ UNCHANGED <<faults, restarts>>
              \/ faults' = faults + 1 /\ UNCHANGED restarts
  BY <1>0, <1>1 DEF CopiesInv
<1>2. CASE /\ UNCHANGED <<status, delivery, copies, restarts>>
           /\ \/ UNCHANGED faults
              \/ Fault
  BY <1>1, <1>2 DEF Counted, Fault
<1>3. CASE \/ \E s \in Senders : GiveUp(s) \/ \E k \in {"notice", "test"} : CheckOutbox(s, k)
           \/ SaveSettings \/ (\E p \in People : Notify(p) \/ DayPasses(p)) \/ \E m \in Mails : FallDue(m)
  BY <1>2, <1>3 DEF CheckOutbox, GiveUp, SaveSettings, Notify, DayPasses, FallDue
<1>4. CASE \/ BeginRound \/ EndDigests \/ ClaimFails \/ ReadSettings \/ EndRound
           \/ \E p \in People : ReadNotices(p) \/ SkipDigest(p) \/ RecordDigest(p)
  BY <1>2, <1>4
  DEF BeginRound, EndDigests, ClaimFails, ReadSettings, EndRound, ReadNotices, SkipDigest, RecordDigest
<1>5. CASE \E m \in Mails : (\E s \in Senders : Enqueue(s, m)) \/ \E p \in People : QueueDigest(p, m)
  <2>1. UNCHANGED <<copies, delivery, restarts>> /\ (UNCHANGED faults \/ Fault)
    BY <1>5 DEF Enqueue, QueueDigest
  <2>2. \A m \in Mails : status[m] # "unborn" => status'[m] = status[m]
    BY <1>0, <1>5 DEF Handled, MailTypeOK, Enqueue, QueueDigest, Insert
  <2>3. \A m \in Mails : Counted(m) => Counted(m)'
    BY <2>1, <2>2 DEF Counted
  <2> QED BY <1>1, <2>1, <2>3 DEF Fault
<1>6. ASSUME NEW m \in Mails, Prune(m) PROVE CopiesInv'
  <2>1. CASE status[m] = "sent"
    <3>1. \A n \in Mails : Counted(n) => Counted(n)'
      BY <1>0, <1>6 DEF Handled, MailTypeOK, Prune, Counted
    <3> QED BY <1>1, <1>6, <3>1 DEF Prune
  <2>2. CASE status[m] # "sent"
    <3>1. \A n \in Mails : Counted(n) => Counted(n)'
      BY <1>0, <1>6 DEF Handled, MailTypeOK, Prune, Counted
    <3> QED BY <1>1, <1>6, <3>1 DEF Prune
  <2> QED BY <2>1, <2>2
<1>7. CASE Requeue
  <2>1. \A m \in Mails : status'[m] = status[m] \/ (status[m] = "sending" /\ status'[m] = "queued")
    BY <1>0, <1>7 DEF Handled, MailTypeOK, Requeue
  <2>2. UNCHANGED <<copies, restarts, delivery>> /\ (UNCHANGED faults \/ Fault)
    BY <1>7 DEF Requeue
  <2>3. \A m \in Mails : Counted(m) => Counted(m)'
    BY <2>1, <2>2 DEF Counted
  <2> QED BY <1>1, <2>2, <2>3 DEF Fault
<1>8. CASE Claim
  <2>1. \A m \in Mails : \/ status'[m] = status[m] /\ delivery'[m] = delivery[m]
                         \/ status[m] = "queued" /\ status'[m] = "sending" /\ delivery'[m] = "claimed"
    BY <1>0, <1>8 DEF Handled, MailTypeOK, Claim, DueMails, With
  <2>2. \A m \in Mails : Counted(m) => Counted(m)'
    BY <1>0, <2>1 DEF Counted
  <2> QED BY <1>1, <1>8, <2>2 DEF Claim
<1>9. CASE Restart
  <2>1. restarts' = restarts + 1 /\ UNCHANGED <<status, faults, copies>> /\ \A m \in Mails : delivery'[m] = "none"
    BY <1>9 DEF Restart
  <2>2. ASSUME NEW m \in Mails
        PROVE  copies'[m] <= faults' + restarts' + IF Counted(m)' THEN 1 ELSE 0
    BY <1>0, <2>1 DEF CopiesInv
  <2> QED BY <1>0, <2>2 DEF CopiesInv
<1>10. ASSUME NEW m \in Mails, NEW from \in Deliveries, NEW to \in Deliveries, Delivers(m, from, to), from # "none",
              UNCHANGED <<mailVars, restarts>>,
              \A n \in Mails \ {m} : copies'[n] = copies[n],
              \/ /\ from = "claimed" /\ to = "accepted"
                 /\ copies'[m] = copies[m] + 1 /\ UNCHANGED faults
              \/ /\ to \notin {"accepted", "answered", "sent"} /\ from = "claimed"
                 /\ copies'[m] = copies[m] /\ UNCHANGED faults
              \/ /\ to \in {"answered", "sent"} /\ from \in {"accepted", "answered"}
                 /\ copies'[m] = copies[m] /\ UNCHANGED faults
              \/ copies'[m] = copies[m] /\ Fault
       PROVE  CopiesInv'
  <2>1. \A n \in Mails : delivery'[n] = IF n = m THEN to ELSE delivery[n]
    BY <1>0, <1>10 DEF Handled, MailTypeOK, Delivers
  <2>2. delivery[m] = from /\ status[m] = "sending" /\ UNCHANGED <<status, restarts>>
    BY <1>0, <1>10 DEF Delivers
  <2>3. \A n \in Mails \ {m} : Counted(n)' <=> Counted(n)
    BY <2>1, <2>2 DEF Counted
  <2>4. /\ Counted(m) <=> from \in {"accepted", "answered", "sent"}
        /\ Counted(m)' <=> to \in {"accepted", "answered", "sent"}
    BY <2>1, <2>2 DEF Counted
  <2>5. faults' \in {faults, faults + 1}
    BY <1>10 DEF Fault
  <2>6. ASSUME NEW n \in Mails \ {m}
        PROVE  copies'[n] <= faults' + restarts' + IF Counted(n)' THEN 1 ELSE 0
    BY <1>0, <1>10, <2>2, <2>3, <2>5 DEF CopiesInv
  <2>7. copies[m] <= faults + restarts + IF Counted(m) THEN 1 ELSE 0
    BY DEF CopiesInv
  <2>8. copies'[m] <= faults' + restarts' + IF Counted(m)' THEN 1 ELSE 0
    BY <1>0, <1>10, <2>2, <2>4, <2>7 DEF Fault
  <2> QED BY <1>0, <2>6, <2>8 DEF CopiesInv
<1>11. ASSUME NEW m \in Mails, Refuse(m) \/ Try(m) \/ Answer(m) \/ Quit(m) PROVE CopiesInv'
  <2>1. UNCHANGED <<mailVars, restarts>>
    BY <1>11 DEF Refuse, Try, Answer, Quit
  <2>2. CASE Refuse(m)
    BY <1>10, <2>1, <2>2 DEF Refuse, Deliveries
  <2>3. CASE Try(m)
    <3>1. UNCHANGED faults
      BY <2>3 DEF Try
    <3>2. CASE Delivers(m, "claimed", "accepted") /\ copies' = [copies EXCEPT ![m] = @ + 1]
      <4>1. copies'[m] = copies[m] + 1 /\ \A n \in Mails \ {m} : copies'[n] = copies[n]
        BY <1>0, <3>2 DEF Handled, MailTypeOK
      <4> QED BY <1>10, <2>1, <3>1, <3>2, <4>1 DEF Deliveries
    <3>3. CASE Delivers(m, "claimed", "temporary") /\ UNCHANGED copies
      BY <1>10, <2>1, <3>1, <3>3 DEF Deliveries
    <3>4. CASE Delivers(m, "claimed", "permanent") /\ UNCHANGED copies
      BY <1>10, <2>1, <3>1, <3>4 DEF Deliveries
    <3> QED BY <2>3, <3>2, <3>3, <3>4 DEF Try
  <2>4. CASE Answer(m)
    BY <1>10, <2>1, <2>4 DEF Answer, Deliveries
  <2>5. CASE Quit(m)
    BY <1>10, <2>1, <2>5 DEF Quit, Deliveries
  <2> QED BY <1>11, <2>2, <2>3, <2>4, <2>5
<1>12. ASSUME NEW m \in Mails, Record(m) PROVE CopiesInv'
  <2>1. /\ delivery[m] \in {"sent", "temporary", "permanent"} /\ status[m] = "sending"
        /\ delivery[m] = "sent" => status'[m] = "sent"
    BY <1>0, <1>12 DEF Handled, MailTypeOK, Record
  <2>2. \A n \in Mails \ {m} : status'[n] = status[n] /\ delivery'[n] = delivery[n]
    BY <1>0, <1>12 DEF Handled, MailTypeOK, Record
  <2>3. \A n \in Mails : Counted(n) => Counted(n)'
    BY <2>1, <2>2 DEF Counted
  <2> QED BY <1>1, <1>12, <2>3 DEF Record
<1>13. ASSUME NEW m \in Mails, RecordFails(m) PROVE CopiesInv'
  <2>1. faults' = faults + 1 /\ UNCHANGED <<copies, restarts, status>>
    BY <1>13 DEF RecordFails, Fault
  <2>2. \A n \in Mails \ {m} : delivery'[n] = delivery[n]
    BY <1>0, <1>13 DEF Handled, MailTypeOK, RecordFails
  <2>3. \A n \in Mails \ {m} : Counted(n)' <=> Counted(n)
    BY <2>1, <2>2 DEF Counted
  <2>4. ASSUME NEW n \in Mails
        PROVE  copies'[n] <= faults' + restarts' + IF Counted(n)' THEN 1 ELSE 0
    BY <1>0, <2>1, <2>3 DEF CopiesInv
  <2> QED BY <1>0, <2>4 DEF CopiesInv
<1>14. CASE UNCHANGED vars
  BY <1>2, <1>14 DEF vars
<1> QED
  BY <1>3, <1>4, <1>5, <1>6, <1>7, <1>8, <1>9, <1>11, <1>12, <1>13, <1>14 DEF Next, RoundStep, DeliveryStep

\* A mail reaches its recipient once, and once more only for a lost answer, a
\* failed record or a restart.
THEOREM CopiesBounded == Spec => []CopiesAreBounded
<1>1. Init => CopiesInv
  BY InitHandled DEF Init, CopiesInv
<1>2. CopiesInv => CopiesAreBounded
  BY DEF CopiesInv, Handled, MailTypeOK, CopiesAreBounded
<1> QED BY <1>1, <1>2, StepCopies, PTL DEF Spec

-----------------------------------------------------------------------------
(* Digests *)

\* A day has its digest: it is recorded, or about to be.
Digested(p) == ~candidate[p] \/ (At("queued") /\ p \in worker.person)

DigestInv ==
    /\ MailTypeOK
    /\ \A p \in People : digests[p] <= days[p] + faults + restarts + IF Digested(p) THEN 1 ELSE 0
    /\ \A p \in worker.todo \cup worker.person : candidate[p]
    /\ worker.todo \cap worker.person = {}
    /\ worker.person # {} => At("noticed") \/ At("queued")

LEMMA StepDigests == ASSUME DigestInv, [Next]_vars PROVE DigestInv'
<1> USE DEF mailVars, digestVars, historyVars, boundVars
<1>0. /\ MailTypeOK /\ MailTypeOK' /\ worker \in Workers
      /\ restarts \in Nat /\ faults \in Nat /\ \A p \in People : digests[p] \in Nat /\ days[p] \in Nat
  BY StepTyped DEF DigestInv, MailTypeOK
<1>1. CASE /\ UNCHANGED <<candidate, digests, days, worker, restarts>>
           /\ UNCHANGED faults \/ Fault
  BY <1>0, <1>1 DEF DigestInv, Digested, At, Fault
<1>2. CASE \/ \E s \in Senders : GiveUp(s) \/ (\E k \in {"notice", "test"} : CheckOutbox(s, k)) \/ \E m \in Mails : Enqueue(s, m)
           \/ SaveSettings \/ (\E p \in People : Notify(p)) \/ \E m \in Mails : FallDue(m) \/ Prune(m)
  BY <1>1, <1>2 DEF CheckOutbox, GiveUp, Enqueue, SaveSettings, Notify, FallDue, Prune
<1>3. CASE \E m \in Mails : DeliveryStep(m)
  BY <1>1, <1>3 DEF DeliveryStep, Refuse, Try, Answer, Quit, Record, RecordFails
<1>4. ASSUME NEW p \in People, DayPasses(p) PROVE DigestInv'
  <2>1. /\ ~candidate[p] /\ days'[p] = days[p] + 1 /\ candidate'[p]
        /\ \A q \in People \ {p} : days'[q] = days[q] /\ candidate'[q] = candidate[q]
    BY <1>0, <1>4 DEF MailTypeOK, DayPasses
  <2>2. UNCHANGED <<digests, worker, faults, restarts>>
    BY <1>4 DEF DayPasses
  <2>3. \A q \in worker.todo \cup worker.person : candidate'[q]
    BY <1>0, <2>1 DEF DigestInv, Workers
  <2>4. \A q \in People \ {p} : Digested(q)' <=> Digested(q)
    BY <2>1, <2>2 DEF Digested, At
  <2> QED BY <1>0, <2>1, <2>2, <2>3, <2>4 DEF DigestInv, At
<1>5. ASSUME NEW p \in People, NEW m \in Mails, QueueDigest(p, m) PROVE DigestInv'
  <2>1. At("noticed") /\ worker.person = {p} /\ candidate[p] /\ ~Digested(p)
    BY <1>5 DEF DigestInv, QueueDigest, Digested, At
  <2>2. digests'[p] = digests[p] + 1 /\ \A q \in People \ {p} : digests'[q] = digests[q]
    BY <1>0, <1>5 DEF MailTypeOK, QueueDigest
  <2>3. UNCHANGED <<candidate, days, restarts>> /\ worker'.todo = worker.todo
    BY <1>0, <1>5 DEF QueueDigest, Go, Workers
  <2>4. CASE Go("queued") /\ UNCHANGED faults
    <3>1. At("queued")' /\ worker'.person = {p} /\ Digested(p)'
      BY <1>0, <2>1, <2>4 DEF Digested, At, Go, Workers
    <3>2. \A q \in People \ {p} : Digested(q)' <=> Digested(q)
      BY <2>1, <2>3, <3>1 DEF Digested
    <3> QED BY <1>0, <2>1, <2>2, <2>3, <2>4, <3>1, <3>2 DEF DigestInv
  \* It is not read back: a fault, which makes up for the digest.
  <2>5. CASE Fault /\ worker' = [worker EXCEPT !.phase = "digesting", !.person = {}]
    <3>1. worker'.person = {} /\ faults' = faults + 1
      BY <1>0, <2>5 DEF Fault, Workers
    <3>2. \A q \in People \ {p} : Digested(q) => Digested(q)'
      BY <2>1, <2>3 DEF Digested
    <3>3. ASSUME NEW q \in People
          PROVE  digests'[q] <= days'[q] + faults' + restarts' + IF Digested(q)' THEN 1 ELSE 0
      BY <1>0, <2>1, <2>2, <2>3, <3>1, <3>2 DEF DigestInv
    <3> QED BY <1>0, <2>3, <3>1, <3>3 DEF DigestInv
  <2> QED BY <1>5, <2>4, <2>5 DEF QueueDigest
<1>6. ASSUME NEW p \in People, RecordDigest(p) PROVE DigestInv'
  <2>1. /\ At("queued") /\ worker.person = {p} /\ ~At("queued")' /\ worker'.person = {}
        /\ worker'.todo = worker.todo
    BY <1>0, <1>6 DEF RecordDigest, At, Workers
  <2>2. UNCHANGED <<days, restarts, digests>> /\ Digested(p)
    BY <1>6, <2>1 DEF RecordDigest, Digested
  <2>3. CASE candidate' = [candidate EXCEPT ![p] = FALSE] /\ UNCHANGED faults
    <3>1. ~candidate'[p] /\ \A q \in People \ {p} : candidate'[q] = candidate[q]
      BY <1>0, <2>3 DEF MailTypeOK
    <3>2. \A q \in People : Digested(q)' <=> Digested(q)
      BY <2>1, <2>2, <3>1 DEF Digested
    <3>3. p \notin worker.todo
      BY <2>1 DEF DigestInv
    <3> QED BY <1>0, <2>1, <2>2, <2>3, <3>1, <3>2, <3>3 DEF DigestInv, Workers
  <2>4. CASE Fault /\ UNCHANGED candidate
    <3>1. \A q \in People \ {p} : Digested(q)' <=> Digested(q)
      BY <2>1, <2>4 DEF Digested
    <3>2. faults' = faults + 1
      BY <2>4 DEF Fault
    <3> QED BY <1>0, <2>1, <2>2, <2>4, <3>1, <3>2 DEF DigestInv
  <2> QED BY <1>6, <2>3, <2>4 DEF RecordDigest
\* The other steps of the worker neither queue nor record a digest.
<1>7. CASE /\ UNCHANGED <<candidate, digests, days, restarts>>
           /\ UNCHANGED faults \/ Fault
           /\ ~At("queued")
           /\ \A p \in worker'.todo \cup worker'.person : candidate[p]
           /\ worker'.todo \cap worker'.person = {}
           /\ worker'.person # {} => At("noticed")'
  <2>1. \A q \in People : Digested(q) => Digested(q)'
    BY <1>7 DEF Digested
  <2>2. ASSUME NEW p \in People
        PROVE  digests'[p] <= days'[p] + faults' + restarts' + IF Digested(p)' THEN 1 ELSE 0
    BY <1>0, <1>7, <2>1 DEF DigestInv, Fault
  <2> QED BY <1>0, <1>7, <2>2 DEF DigestInv
<1>8. CASE Requeue \/ EndDigests \/ ClaimFails \/ EndRound
  BY <1>7, <1>8 DEF Requeue, EndDigests, ClaimFails, EndRound, Rest, At
<1>9. CASE BeginRound
  <2>1. ~At("queued") /\ worker.person = {} /\ worker'.person = {} /\ \A p \in worker'.todo : candidate[p]
    BY <1>0, <1>9 DEF DigestInv, BeginRound, At, Workers
  <2> QED BY <1>7, <1>9, <2>1 DEF BeginRound
<1>10. CASE Claim \/ ReadSettings
  <2>1. ~At("queued") /\ worker.person = {} /\ worker'.person = {} /\ worker'.todo = worker.todo
    BY <1>0, <1>10 DEF DigestInv, Claim, ReadSettings, At, Go, Workers
  <2> QED BY <1>7, <1>10, <2>1 DEF DigestInv, Claim, ReadSettings
<1>11. ASSUME NEW p \in People, ReadNotices(p) PROVE DigestInv'
  <2>1. ~At("queued") /\ worker.person = {} /\ p \in worker.todo
    BY <1>11 DEF DigestInv, ReadNotices, At
  <2>2. /\ worker'.todo = worker.todo \ {p}
        /\ worker'.person = {} \/ (worker'.person = {p} /\ At("noticed")')
    BY <1>0, <1>11, <2>1 DEF ReadNotices, At, Workers
  <2> QED BY <1>7, <1>11, <2>1, <2>2 DEF DigestInv, ReadNotices
<1>12. ASSUME NEW p \in People, SkipDigest(p) PROVE DigestInv'
  <2>1. ~At("queued") /\ worker'.person = {} /\ worker'.todo = worker.todo
    BY <1>0, <1>12 DEF SkipDigest, At, Workers
  <2> QED BY <1>7, <1>12, <2>1 DEF DigestInv, SkipDigest
<1>13. CASE Restart
  <2>1. worker'.todo = {} /\ worker'.person = {}
    BY <1>13 DEF Restart, Rest
  <2>2. restarts' = restarts + 1 /\ UNCHANGED <<candidate, digests, days, faults>>
    BY <1>13 DEF Restart
  <2>3. ASSUME NEW p \in People
        PROVE  digests'[p] <= days'[p] + faults' + restarts' + IF Digested(p)' THEN 1 ELSE 0
    BY <1>0, <2>2 DEF DigestInv
  <2> QED BY <1>0, <2>1, <2>3 DEF DigestInv
<1>14. CASE UNCHANGED vars
  BY <1>1, <1>14 DEF vars
<1> QED
  BY <1>2, <1>3, <1>4, <1>5, <1>6, <1>8, <1>9, <1>10, <1>11, <1>12, <1>13, <1>14 DEF Next, RoundStep

\* A person's digests are at most one a day, and one more for each fault or restart.
THEOREM DigestsBounded == Spec => []OneDigestADay
<1>1. Init => DigestInv
  <2> SUFFICES ASSUME Init PROVE DigestInv
    OBVIOUS
  <2>1. MailTypeOK
    BY InitHandled DEF Handled
  <2>2. worker.todo = {} /\ worker.person = {}
    BY DEF Init, Rest
  <2> QED BY <2>1, <2>2 DEF Init, DigestInv
<1>2. DigestInv => OneDigestADay
  BY DEF DigestInv, MailTypeOK, OneDigestADay
<1> QED BY <1>1, <1>2, StepDigests, PTL DEF Spec

-----------------------------------------------------------------------------
(* The limit of the outbox *)

Limited == {m \in Waiting : kind[m] # "digest"}
Busy == {s \in Senders : sender[s] # "idle"}

\* A sender past its look at the outbox has its place reserved among them.
WaitingInv ==
    /\ Handled
    /\ Cardinality(Limited) + Cardinality(Busy) <= (MaxWaiting - 1) + Cardinality(Senders)

Sizes ==
    /\ IsFiniteSet(Limited) /\ Cardinality(Limited) \in Nat
    /\ IsFiniteSet(Busy) /\ Cardinality(Busy) \in Nat
    /\ Cardinality(Limited) <= Cardinality(Waiting) /\ Cardinality(Waiting) \in Nat
    /\ Cardinality(Busy) <= Cardinality(Senders) /\ Cardinality(Senders) \in Nat

LEMMA SizesOK == Sizes
<1>1. Waiting \in SUBSET Mails /\ Limited \in SUBSET Waiting /\ Busy \in SUBSET Senders
  BY DEF Waiting, With, Limited, Busy
<1>2. IsFiniteSet(Mails) /\ IsFiniteSet(Senders)
  BY MailConstantsOK
<1>3. IsFiniteSet(Waiting) /\ IsFiniteSet(Busy) /\ Cardinality(Busy) <= Cardinality(Senders)
  BY <1>1, <1>2, FS_Subset
<1>4. IsFiniteSet(Limited) /\ Cardinality(Limited) <= Cardinality(Waiting)
  BY <1>1, <1>3, FS_Subset
<1> QED BY <1>2, <1>3, <1>4, FS_CardinalityType DEF Sizes

LEMMA StepWaiting == ASSUME WaitingInv, [Next]_vars PROVE WaitingInv'
<1> USE DEF mailVars, digestVars, historyVars, boundVars
<1>0. /\ Handled /\ Handled' /\ MailTypeOK /\ MailTypeOK' /\ MaxWaiting \in Nat \ {0}
      /\ MaxWaitingForTest \in Nat /\ MaxWaitingForTest + 1 <= MaxWaiting
  BY StepHandled, MailConstantsOK DEF WaitingInv, Handled
<1>s. Sizes /\ Sizes'
  BY SizesOK, PTL
\* Nothing is added to either.
<1>1. CASE Limited' \subseteq Limited /\ Busy' \subseteq Busy
  <2>1. Cardinality(Limited') <= Cardinality(Limited) /\ Cardinality(Busy') <= Cardinality(Busy)
    BY <1>1, <1>s, FS_Subset DEF Sizes
  <2> QED BY <1>0, <1>s, <2>1 DEF WaitingInv, Sizes
<1>2. CASE /\ \A m \in Mails : status'[m] \in {"queued", "sending"} => status[m] \in {"queued", "sending"}
           /\ UNCHANGED kind /\ \A s \in Senders : sender'[s] \in {sender[s], "idle"}
  BY <1>1, <1>2 DEF Limited, Waiting, With, Busy
<1>3. ASSUME NEW s \in Senders, NEW k \in {"notice", "test"}, CheckOutbox(s, k) PROVE WaitingInv'
  <2>1. Cardinality(Waiting) <= MaxWaiting - 1
    BY <1>0, <1>3, <1>s DEF CheckOutbox, Sizes
  <2>2. Limited' = Limited
    BY <1>3 DEF CheckOutbox, Limited, Waiting, With
  <2> QED BY <1>0, <1>s, <2>1, <2>2 DEF WaitingInv, Sizes
<1>4. ASSUME NEW s \in Senders, GiveUp(s) PROVE WaitingInv'
  <2>1. \A x \in Senders : sender'[x] \in {sender[x], "idle"}
    BY <1>0, <1>4 DEF MailTypeOK, GiveUp
  <2> QED BY <1>2, <1>4, <2>1 DEF GiveUp
<1>5. ASSUME NEW s \in Senders, NEW m \in Mails, Enqueue(s, m) PROVE WaitingInv'
  <2>1. Busy' = Busy \ {s} /\ s \in Busy
    BY <1>0, <1>5 DEF MailTypeOK, Enqueue, Busy
  <2>2. Limited' \subseteq Limited \cup {m}
    BY <1>0, <1>5 DEF MailTypeOK, Enqueue, Insert, Limited, Waiting, With
  <2>3. Cardinality(Busy') = Cardinality(Busy) - 1
    BY <1>s, <2>1, FS_RemoveElement DEF Sizes
  <2>4. IsFiniteSet(Limited \cup {m}) /\ Cardinality(Limited \cup {m}) <= Cardinality(Limited) + 1
    <3>1. IsFiniteSet(Limited) /\ Cardinality(Limited) \in Nat
      BY <1>s DEF Sizes
    <3>2. /\ IsFiniteSet(Limited \cup {m})
          /\ Cardinality(Limited \cup {m}) = IF m \in Limited THEN Cardinality(Limited) ELSE Cardinality(Limited) + 1
      BY <3>1, FS_AddElement
    <3> QED BY <3>1, <3>2
  <2>5. Cardinality(Limited') <= Cardinality(Limited \cup {m})
    BY <2>2, <2>4, FS_Subset
  <2>6. Cardinality(Limited \cup {m}) \in Nat
    BY <2>4, FS_CardinalityType
  <2> QED BY <1>0, <1>s, <2>3, <2>4, <2>5, <2>6 DEF WaitingInv, Sizes
<1>6. ASSUME NEW p \in People, NEW m \in Mails, QueueDigest(p, m) PROVE WaitingInv'
  <2>1. kind'[m] = "digest" /\ \A n \in Mails \ {m} : status'[n] = status[n] /\ kind'[n] = kind[n]
    BY <1>0, <1>6 DEF MailTypeOK, QueueDigest, Insert
  <2>2. UNCHANGED sender
    BY <1>6 DEF QueueDigest
  <2> QED BY <1>1, <2>1, <2>2 DEF Limited, Waiting, With, Busy
<1>7. CASE SaveSettings \/ (\E p \in People : Notify(p) \/ DayPasses(p)) \/ \E m \in Mails : FallDue(m)
  BY <1>2, <1>7 DEF SaveSettings, Notify, DayPasses, FallDue
<1>8. CASE \/ BeginRound \/ EndDigests \/ ClaimFails \/ ReadSettings \/ EndRound
           \/ \E p \in People : ReadNotices(p) \/ SkipDigest(p) \/ RecordDigest(p)
  BY <1>2, <1>8
  DEF BeginRound, EndDigests, ClaimFails, ReadSettings, EndRound, ReadNotices, SkipDigest, RecordDigest
<1>9. CASE Claim \/ Requeue \/ \E m \in Mails : Prune(m) \/ Record(m)
  <2>1. UNCHANGED <<kind, sender>>
    BY <1>9 DEF Claim, Requeue, Prune, Record
  <2>2. \A m \in Mails : status'[m] \in {"queued", "sending"} => status[m] \in {"queued", "sending"}
    <3>1. CASE Claim
      BY <1>0, <3>1 DEF MailTypeOK, Claim, DueMails, With
    <3>2. CASE Requeue
      BY <1>0, <3>2 DEF MailTypeOK, Requeue
    <3>3. CASE \E m \in Mails : Prune(m)
      BY <1>0, <3>3 DEF MailTypeOK, Prune
    <3>4. CASE \E m \in Mails : Record(m)
      <4>1. PICK m \in Mails : Record(m)
        BY <3>4
      <4>2. status[m] = "sending" /\ \A n \in Mails \ {m} : status'[n] = status[n]
        BY <1>0, <4>1 DEF Handled, MailTypeOK, Record
      <4> QED BY <4>2
    <3> QED BY <1>9, <3>1, <3>2, <3>3, <3>4
  <2> QED BY <1>2, <2>1, <2>2
<1>10. CASE \E m \in Mails : Refuse(m) \/ Try(m) \/ Answer(m) \/ Quit(m) \/ RecordFails(m)
  BY <1>2, <1>10 DEF Refuse, Try, Answer, Quit, RecordFails
<1>11. CASE Restart
  BY <1>0, <1>2, <1>11 DEF Restart
<1>12. CASE UNCHANGED vars
  BY <1>2, <1>12 DEF vars
<1> QED
  BY <1>3, <1>4, <1>5, <1>6, <1>7, <1>8, <1>9, <1>10, <1>11, <1>12 DEF Next, RoundStep, DeliveryStep

\* The outbox passes its limit by at most one mail for each feature at work.
THEOREM WaitingBounded == Spec => []WaitingIsBounded
<1>1. Init => WaitingInv
  <2> SUFFICES ASSUME Init PROVE WaitingInv
    OBVIOUS
  <2>1. Limited = {} /\ Busy = {}
    BY DEF Init, Limited, Waiting, With, Busy
  <2>2. MaxWaiting - 1 \in Nat
    BY MailConstantsOK
  <2> QED BY <2>1, <2>2, SizesOK, InitHandled, FS_EmptySet DEF WaitingInv, Sizes
<1>2. WaitingInv => WaitingIsBounded
  BY SizesOK, MailConstantsOK DEF WaitingInv, Sizes, WaitingIsBounded, Limited
<1> QED BY <1>1, <1>2, StepWaiting, PTL DEF Spec

=============================================================================
