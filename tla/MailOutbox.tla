----------------------------- MODULE MailOutbox -----------------------------
(***************************************************************************)
(* Outgoing mail: apps/server/src/mail.rs (the outbox and its worker),     *)
(* crates/mail/src/smtp.rs (a delivery) and crates/storage/src/mail.rs     *)
(* (their rows).                                                           *)
(*                                                                         *)
(* Features put mails in the outbox and return.  One worker queues the     *)
(* daily digests, claims the mails that are due, hands them to the mail    *)
(* server side by side, and records what came of each: sent, due again     *)
(* later, or given up.  A mail whose record fails stays 'sending' until    *)
(* the server starts again.                                                *)
(***************************************************************************)
EXTENDS Naturals, FiniteSets

CONSTANTS
    Mails,              \* numbers, in the order of created_at
    Senders,            \* requests that cause mails
    People,             \* who asked for the daily digest
    MaxWaiting,         \* waiting mails beyond which no feature adds one
    MaxWaitingForTest,  \* beyond which no test is added
    BatchSize,          \* BATCH
    MaxAttempts,        \* MAX_ATTEMPTS
    MaxDays,            \* bound: for each person, days after a digest
    MaxEdits,           \* bound: saved settings
    MaxFaults,          \* bound: lost answers and failed statements
    MaxRestarts         \* bound

ASSUME MailConstantsOK ==
    /\ Mails \subseteq Nat /\ IsFiniteSet(Mails)
    /\ IsFiniteSet(Senders)
    /\ {MaxWaiting, BatchSize, MaxAttempts} \subseteq Nat \ {0}
    /\ MaxWaitingForTest \in Nat /\ MaxWaitingForTest < MaxWaiting
    /\ {MaxDays, MaxEdits, MaxFaults, MaxRestarts} \subseteq Nat

VARIABLES
    status,     \* of each mail; "unborn" before its insert
    kind,       \* "notice", "test" or "digest"
    attempts,   \* counted by the records
    due,        \* next_attempt_at has come
    ready,      \* a server and a sender are saved and sending is on
    sender,     \* a request between its look at the outbox and its insert
    worker,     \* the worker's place in its round
    delivery,   \* a claimed mail's place in its delivery
    unread,     \* a person has unread notices that came after last_sent_at
    candidate,  \* last_sent_at is a day ago
    tries,      \* history: deliveries begun
    copies,     \* history: times the mail server took the mail
    forgotten,  \* history: mails whose last record, or requeue, failed
    digests,    \* history: digests queued for a person
    days, edits, faults, restarts

mailVars == <<status, kind, attempts, due>>
digestVars == <<unread, candidate, digests>>
historyVars == <<tries, copies, forgotten>>
boundVars == <<days, edits, faults, restarts>>
vars == <<mailVars, ready, sender, worker, delivery, digestVars, historyVars, boundVars>>

Kinds == {"notice", "test", "digest"}
Workers == [phase: {"starting", "resting", "digesting", "noticed", "queued", "claiming", "claimed", "delivering"},
            todo: SUBSET People, person: SUBSET People, ready: BOOLEAN]
Rest == [phase |-> "resting", todo |-> {}, person |-> {}, ready |-> FALSE]
Deliveries == {"none", "claimed", "accepted", "answered", "temporary", "permanent", "sent"}

MailTypeOK ==
    /\ status \in [Mails -> {"unborn", "queued", "sending", "sent", "failed", "pruned"}]
    /\ kind \in [Mails -> Kinds]
    /\ attempts \in [Mails -> Nat] /\ due \in [Mails -> BOOLEAN]
    /\ ready \in BOOLEAN
    /\ sender \in [Senders -> {"idle", "notice", "test"}]
    /\ worker \in Workers
    /\ delivery \in [Mails -> Deliveries]
    /\ \A m \in Mails : delivery[m] # "none" => worker.phase \in {"claimed", "delivering"}
    /\ unread \in [People -> BOOLEAN] /\ candidate \in [People -> BOOLEAN]
    /\ digests \in [People -> Nat] /\ days \in [People -> Nat]
    /\ tries \in [Mails -> Nat] /\ copies \in [Mails -> Nat] /\ forgotten \subseteq Mails
    /\ edits \in Nat /\ faults \in Nat /\ restarts \in Nat

Init ==
    /\ status = [m \in Mails |-> "unborn"]
    /\ kind = [m \in Mails |-> "notice"]
    /\ attempts = [m \in Mails |-> 0] /\ due = [m \in Mails |-> FALSE]
    /\ ready = TRUE
    /\ sender = [s \in Senders |-> "idle"]
    /\ worker = [Rest EXCEPT !.phase = "starting"]
    /\ delivery = [m \in Mails |-> "none"]
    /\ unread = [p \in People |-> FALSE] /\ candidate = [p \in People |-> TRUE]
    /\ digests = [p \in People |-> 0] /\ days = [p \in People |-> 0]
    /\ tries = [m \in Mails |-> 0] /\ copies = [m \in Mails |-> 0] /\ forgotten = {}
    /\ edits = 0 /\ faults = 0 /\ restarts = 0

With(st) == {m \in Mails : status[m] = st}
Waiting == With("queued") \cup With("sending")
Batch == {m \in Mails : delivery[m] # "none"}

Fault == faults < MaxFaults /\ faults' = faults + 1

-----------------------------------------------------------------------------
(* Features *)

\* Mutant of CheckOutbox: one more mail may wait.
CheckLoosely(s, k) ==
    /\ sender[s] = "idle"
    /\ ready
    /\ Cardinality(Waiting) <= IF k = "test" THEN MaxWaitingForTest ELSE MaxWaiting
    /\ sender' = [sender EXCEPT ![s] = k]
    /\ UNCHANGED <<mailVars, ready, worker, delivery, digestVars, historyVars, boundVars>>

\* send_to and send_test: mail is set up, and few enough mails wait.
CheckOutbox(s, k) ==
    /\ sender[s] = "idle"
    /\ ready
    /\ Cardinality(Waiting) < IF k = "test" THEN MaxWaitingForTest + 1 ELSE MaxWaiting
    /\ sender' = [sender EXCEPT ![s] = k]
    /\ UNCHANGED <<mailVars, ready, worker, delivery, digestVars, historyVars, boundVars>>

\* enqueue_mail: the next mail, due at once.
Insert(m, k) ==
    /\ status[m] = "unborn" /\ \A n \in With("unborn") : m <= n
    /\ status' = [status EXCEPT ![m] = "queued"]
    /\ kind' = [kind EXCEPT ![m] = k]
    /\ due' = [due EXCEPT ![m] = TRUE]
    /\ UNCHANGED attempts

Enqueue(s, m) ==
    /\ sender[s] # "idle"
    /\ Insert(m, sender[s])
    /\ sender' = [sender EXCEPT ![s] = "idle"]
    /\ UNCHANGED <<ready, worker, delivery, digestVars, historyVars, boundVars>>

\* The request ends before its insert: an error, or its connection closed.
GiveUp(s) ==
    /\ sender[s] # "idle"
    /\ sender' = [sender EXCEPT ![s] = "idle"]
    /\ UNCHANGED <<mailVars, ready, worker, delivery, digestVars, historyVars, boundVars>>

\* An administrator switches sending on or off.
SaveSettings ==
    /\ edits < MaxEdits
    /\ edits' = edits + 1
    /\ ready' = ~ready
    /\ UNCHANGED <<mailVars, sender, worker, delivery, digestVars, historyVars, days, faults, restarts>>

\* A notice for a person, and the person reading all of them.
Notify(p) ==
    /\ unread' = [unread EXCEPT ![p] = ~@]
    /\ UNCHANGED <<mailVars, ready, sender, worker, delivery, candidate, digests, historyVars, boundVars>>

\* last_sent_at of a person becomes older than a day.
DayPasses(p) ==
    /\ ~candidate[p]
    /\ days[p] < MaxDays
    /\ days' = [days EXCEPT ![p] = @ + 1]
    /\ candidate' = [candidate EXCEPT ![p] = TRUE]
    /\ UNCHANGED <<mailVars, ready, sender, worker, delivery, unread, digests, historyVars, edits, faults, restarts>>

\* next_attempt_at of a mail comes.
FallDue(m) ==
    /\ status[m] = "queued" /\ ~due[m]
    /\ due' = [due EXCEPT ![m] = TRUE]
    /\ UNCHANGED <<status, kind, attempts, ready, sender, worker, delivery, digestVars, historyVars, boundVars>>

-----------------------------------------------------------------------------
(* The worker *)

At(phase) == worker.phase = phase
Go(phase) == worker' = [worker EXCEPT !.phase = phase]

\* Mutant of Requeue: interrupted mails stay as they are.
StartOnly ==
    /\ At("starting")
    /\ worker' = Rest
    /\ UNCHANGED <<mailVars, forgotten, faults>>
    /\ UNCHANGED <<ready, sender, delivery, digestVars, tries, copies, days, edits, restarts>>

\* requeue_interrupted_mail: what a stopped server was sending is due again; if
\* the statement fails it is not.
Requeue ==
    /\ At("starting")
    /\ worker' = Rest
    /\ \/ /\ status' = [m \in Mails |-> IF status[m] = "sending" THEN "queued" ELSE status[m]]
          /\ due' = [m \in Mails |-> due[m] \/ status[m] = "sending"]
          /\ forgotten' = {}
          /\ UNCHANGED <<kind, attempts, faults>>
       \/ /\ Fault
          /\ forgotten' = With("sending")
          /\ UNCHANGED mailVars
    /\ UNCHANGED <<ready, sender, delivery, digestVars, tries, copies, days, edits, restarts>>

\* A round begins with the digests: digest_candidates, when mail is set up and
\* both can be read.
BeginRound ==
    /\ At("resting")
    /\ \E people \in {{p \in People : candidate[p]}, {}} :
          /\ people # {} => ready
          /\ worker' = [worker EXCEPT !.phase = "digesting", !.todo = people]
    /\ UNCHANGED <<mailVars, ready, sender, delivery, digestVars, historyVars, boundVars>>

\* unread_notices_since: a person without any (or an error) is passed over.
ReadNotices(p) ==
    /\ At("digesting")
    /\ p \in worker.todo
    /\ \/ unread[p] /\ worker' = [worker EXCEPT !.phase = "noticed", !.todo = @ \ {p}, !.person = {p}]
       \/ worker' = [worker EXCEPT !.todo = @ \ {p}]
    /\ UNCHANGED <<mailVars, ready, sender, delivery, digestVars, historyVars, boundVars>>

\* The digest is put in the outbox, however many mails wait there, and read back;
\* when that fails it stays there, and the person's turn is over.
QueueDigest(p, m) ==
    /\ At("noticed") /\ worker.person = {p}
    /\ Insert(m, "digest")
    /\ digests' = [digests EXCEPT ![p] = @ + 1]
    /\ \/ Go("queued") /\ UNCHANGED faults
       \/ Fault /\ worker' = [worker EXCEPT !.phase = "digesting", !.person = {}]
    /\ UNCHANGED <<ready, sender, delivery, unread, candidate, historyVars, days, edits, restarts>>

\* The digest could not be inserted: the next person's turn comes.
SkipDigest(p) ==
    /\ At("noticed") /\ worker.person = {p}
    /\ \/ With("unborn") = {} /\ UNCHANGED faults
       \/ Fault
    /\ worker' = [worker EXCEPT !.phase = "digesting", !.person = {}]
    /\ UNCHANGED <<mailVars, ready, sender, delivery, digestVars, historyVars, days, edits, restarts>>

\* Mutant of RecordDigest: the person stays a candidate.
RecordNothing(p) ==
    /\ At("queued") /\ worker.person = {p}
    /\ worker' = [worker EXCEPT !.phase = "digesting", !.person = {}]
    /\ UNCHANGED <<candidate, unread, faults>>
    /\ UNCHANGED <<mailVars, ready, sender, delivery, digests, historyVars, days, edits, restarts>>

\* record_digest_sent: what came until now is of the past; or the statement fails.
RecordDigest(p) ==
    /\ At("queued") /\ worker.person = {p}
    /\ worker' = [worker EXCEPT !.phase = "digesting", !.person = {}]
    /\ \/ /\ candidate' = [candidate EXCEPT ![p] = FALSE]
          /\ unread' = [unread EXCEPT ![p] = FALSE]
          /\ UNCHANGED faults
       \/ Fault /\ UNCHANGED <<candidate, unread>>
    /\ UNCHANGED <<mailVars, ready, sender, delivery, digests, historyVars, days, edits, restarts>>

\* Every person's turn is over.
EndDigests ==
    /\ At("digesting") /\ worker.todo = {}
    /\ worker' = [Rest EXCEPT !.phase = "claiming"]
    /\ UNCHANGED <<mailVars, ready, sender, delivery, digestVars, historyVars, boundVars>>

DueMails == {m \in With("queued") : due[m]}

\* Mutant of Claim: a mail that was tried before is not taken.
ClaimFresh ==
    LET fresh   == {m \in DueMails : attempts[m] = 0}
        claimed == {m \in fresh : Cardinality({n \in fresh : n < m}) < BatchSize} IN
    /\ At("claiming")
    /\ status' = [m \in Mails |-> IF m \in claimed THEN "sending" ELSE status[m]]
    /\ delivery' = [m \in Mails |-> IF m \in claimed THEN "claimed" ELSE delivery[m]]
    /\ Go(IF claimed = {} THEN "resting" ELSE "claimed")
    /\ UNCHANGED <<kind, attempts, due, ready, sender, digestVars, historyVars, boundVars>>

\* claim_due_mail: the oldest mails that are due are 'sending'.
Claim ==
    LET claimed == {m \in DueMails : Cardinality({n \in DueMails : n < m}) < BatchSize} IN
    /\ At("claiming")
    /\ status' = [m \in Mails |-> IF m \in claimed THEN "sending" ELSE status[m]]
    /\ delivery' = [m \in Mails |-> IF m \in claimed THEN "claimed" ELSE delivery[m]]
    /\ Go(IF claimed = {} THEN "resting" ELSE "claimed")
    /\ UNCHANGED <<kind, attempts, due, ready, sender, digestVars, historyVars, boundVars>>

\* Its transaction fails: nothing is claimed until the next round.
ClaimFails ==
    /\ At("claiming")
    /\ Fault
    /\ worker' = Rest
    /\ UNCHANGED <<mailVars, ready, sender, delivery, digestVars, historyVars, days, edits, restarts>>

\* mail_settings, once for the batch; settings that cannot be read are none.
ReadSettings ==
    /\ At("claimed")
    /\ \/ worker' = [worker EXCEPT !.phase = "delivering", !.ready = ready] /\ UNCHANGED faults
       \/ Fault /\ Go("delivering")
    /\ UNCHANGED <<mailVars, ready, sender, delivery, digestVars, historyVars, days, edits, restarts>>

\* Mutant of EndRound: the batch is not waited for.
EndEarly ==
    /\ At("delivering")
    /\ worker' = Rest
    /\ UNCHANGED <<mailVars, ready, sender, delivery, digestVars, historyVars, boundVars>>

\* Every delivery of the batch is over.  Once an hour old mails are removed.
EndRound ==
    /\ At("delivering") /\ Batch = {}
    /\ worker' = Rest
    /\ UNCHANGED <<mailVars, ready, sender, delivery, digestVars, historyVars, boundVars>>

Prune(m) ==
    /\ At("resting")
    /\ status[m] \in {"sent", "failed"}
    /\ status' = [status EXCEPT ![m] = "pruned"]
    /\ UNCHANGED <<kind, attempts, due, ready, sender, worker, delivery, digestVars, historyVars, boundVars>>

-----------------------------------------------------------------------------
(* A delivery: deliver_one and the SMTP dialogue *)

Delivers(m, from, to) ==
    /\ At("delivering")
    /\ delivery[m] = from
    /\ delivery' = [delivery EXCEPT ![m] = to]

\* Mail is not set up any more: given up at once.
Refuse(m) ==
    /\ Delivers(m, "claimed", "permanent")
    /\ ~worker.ready
    /\ UNCHANGED <<mailVars, ready, sender, worker, digestVars, historyVars, boundVars>>

\* The dialogue up to the end of the message: the server takes it, or it or the
\* network refuses, for now (4xx, no connection, no answer) or for good (5xx).
Try(m) ==
    /\ worker.ready
    /\ tries' = [tries EXCEPT ![m] = @ + 1]
    /\ \/ Delivers(m, "claimed", "accepted") /\ copies' = [copies EXCEPT ![m] = @ + 1]
       \/ Delivers(m, "claimed", "temporary") /\ UNCHANGED copies
       \/ Delivers(m, "claimed", "permanent") /\ UNCHANGED copies
    /\ UNCHANGED <<mailVars, ready, sender, worker, digestVars, forgotten, boundVars>>

\* Its answer arrives, or is lost: then it counts as a failure to try again.
Answer(m) ==
    /\ \/ Delivers(m, "accepted", "answered") /\ UNCHANGED faults
       \/ Delivers(m, "accepted", "temporary") /\ Fault
    /\ UNCHANGED <<mailVars, ready, sender, worker, digestVars, historyVars, days, edits, restarts>>

\* Mutant of Quit: its result decides.
QuitOrFail(m) ==
    /\ \/ Delivers(m, "answered", "sent")
       \/ Delivers(m, "answered", "temporary")
    /\ UNCHANGED faults
    /\ UNCHANGED <<mailVars, ready, sender, worker, digestVars, historyVars, days, edits, restarts>>

\* QUIT, whose own result is ignored; but the time for the whole delivery may
\* be over while its reply is awaited.
Quit(m) ==
    /\ \/ Delivers(m, "answered", "sent") /\ UNCHANGED faults
       \/ Delivers(m, "answered", "temporary") /\ Fault
    /\ UNCHANGED <<mailVars, ready, sender, worker, digestVars, historyVars, days, edits, restarts>>

\* next_attempt: another one is planned.
TriesAgain(m) == delivery[m] = "temporary" /\ attempts[m] + 1 < MaxAttempts

\* Mutant of Record: an attempt that is retried is not counted.
RecordUncounted(m) ==
    /\ At("delivering") /\ delivery[m] \in {"sent", "temporary", "permanent"}
    /\ delivery' = [delivery EXCEPT ![m] = "none"]
    /\ attempts' = [attempts EXCEPT ![m] = IF TriesAgain(m) THEN @ ELSE @ + 1]
    /\ status' = [status EXCEPT ![m] = IF delivery[m] = "sent" THEN "sent"
                                       ELSE IF TriesAgain(m) THEN "queued" ELSE "failed"]
    /\ due' = [due EXCEPT ![m] = FALSE]
    /\ UNCHANGED <<kind, ready, sender, worker, digestVars, historyVars, boundVars>>

\* mark_mail_sent, retry_mail_later, mark_mail_failed.
Record(m) ==
    /\ At("delivering") /\ delivery[m] \in {"sent", "temporary", "permanent"}
    /\ delivery' = [delivery EXCEPT ![m] = "none"]
    /\ attempts' = [attempts EXCEPT ![m] = @ + 1]
    /\ status' = [status EXCEPT ![m] = IF delivery[m] = "sent" THEN "sent"
                                       ELSE IF TriesAgain(m) THEN "queued" ELSE "failed"]
    /\ due' = [due EXCEPT ![m] = FALSE]
    /\ UNCHANGED <<kind, ready, sender, worker, digestVars, historyVars, boundVars>>

\* The record fails, which is at most logged.
RecordFails(m) ==
    /\ At("delivering") /\ delivery[m] \in {"sent", "temporary", "permanent"}
    /\ Fault
    /\ delivery' = [delivery EXCEPT ![m] = "none"]
    /\ forgotten' = forgotten \cup {m}
    /\ UNCHANGED <<mailVars, ready, sender, worker, digestVars, tries, copies, days, edits, restarts>>

\* The process ends, or the environment is detached, at any point.
Restart ==
    /\ restarts < MaxRestarts
    /\ restarts' = restarts + 1
    /\ sender' = [s \in Senders |-> "idle"]
    /\ worker' = [Rest EXCEPT !.phase = "starting"]
    /\ delivery' = [m \in Mails |-> "none"]
    /\ UNCHANGED <<mailVars, ready, digestVars, historyVars, days, edits, faults>>

-----------------------------------------------------------------------------
DeliveryStep(m) == Refuse(m) \/ Try(m) \/ Answer(m) \/ Quit(m) \/ Record(m) \/ RecordFails(m)

RoundStep ==
    \/ Requeue \/ BeginRound \/ EndDigests \/ Claim \/ ClaimFails \/ ReadSettings \/ EndRound
    \/ \E p \in People : ReadNotices(p) \/ SkipDigest(p) \/ RecordDigest(p) \/ \E m \in Mails : QueueDigest(p, m)

Next ==
    \/ \E s \in Senders :
          \/ \E k \in {"notice", "test"} : CheckOutbox(s, k)
          \/ GiveUp(s)
          \/ \E m \in Mails : Enqueue(s, m)
    \/ SaveSettings
    \/ \E p \in People : Notify(p) \/ DayPasses(p)
    \/ RoundStep
    \/ \E m \in Mails : FallDue(m) \/ Prune(m) \/ DeliveryStep(m)
    \/ Restart

Spec == Init /\ [][Next]_vars

\* Time passes, the worker's loop goes on, and each delivery ends: every reply
\* and the whole of it have a time limit.
Fairness ==
    /\ WF_vars(RoundStep)
    /\ \A m \in Mails : WF_vars(FallDue(m)) /\ WF_vars(DeliveryStep(m))

FairSpec == Spec /\ Fairness

-----------------------------------------------------------------------------
(* Properties *)

\* Features that look at the outbox at the same moment pass its limit together,
\* but never by more than there are of them (digests are not limited).
WaitingIsBounded ==
    Cardinality({m \in Waiting : kind[m] # "digest"}) <= (MaxWaiting - 1) + Cardinality(Senders)

\* Each delivery is counted, but for those that a restart interrupts or whose
\* record failed before one.
TriesAreBounded == \A m \in Mails : tries[m] <= MaxAttempts + restarts

\* A recipient gets a mail twice only after a fault (the server's answer, or our
\* record of it, is lost, or the time is over while QUIT is answered) or a restart.
CopiesAreBounded == \A m \in Mails : copies[m] <= 1 + faults + restarts

\* A mail is 'sending' only while the worker has it, or is about to requeue it,
\* or its record failed: no claimed mail is left behind by the worker.
SendingIsHandled ==
    With("sending") \subseteq Batch \cup forgotten \cup IF At("starting") THEN Mails ELSE {}

\* "at most one a day each": a second digest of a day needs a fault (the first one
\* is not read back, or not recorded) or a restart between queueing the first one
\* and recording it.
OneDigestADay == \A p \in People : digests[p] <= 1 + days[p] + faults + restarts

\* Every mail that waits is sent or given up in the end, unless its record failed:
\* then only the next start helps.
MailsEnd == \A m \in Mails : m \in Waiting ~> (m \notin Waiting \/ m \in forgotten)
=============================================================================
