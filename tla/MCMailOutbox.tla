---------------------------- MODULE MCMailOutbox ----------------------------
(***************************************************************************)
(* Instances of MailOutbox for TLC.  What is explored: people's digests,   *)
(* or mails of features; with three mails no faults, restarts or settings, *)
(* and with fewer faults and restarts, or settings.  One mail is pruned.    *)
(***************************************************************************)
EXTENDS MailOutbox

DigestsOnly == \A s \in Senders : sender[s] = "idle" /\ \A m \in Mails : status[m] # "unborn" => kind[m] = "digest"
FeaturesOnly == worker.person = {} /\ \A p \in People : ~unread[p] /\ digests[p] = 0
TwoMails == \A m \in Mails : m > 2 => status[m] = "unborn"
Explored ==
    /\ DigestsOnly \/ FeaturesOnly
    /\ edits = 0 \/ faults + restarts = 0
    /\ TwoMails \/ DigestsOnly \/ edits + faults + restarts = 0
    /\ \A m \in Mails : status[m] = "pruned" => m = 1 /\ edits + faults + restarts = 0

Explore ==
    /\ Init
    /\ [][Next /\ Explored']_vars
    /\ WF_vars(RoundStep /\ Explored')
    /\ \A m \in Mails : WF_vars(FallDue(m) /\ Explored') /\ WF_vars(DeliveryStep(m) /\ Explored')
=============================================================================
