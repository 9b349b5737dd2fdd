---------------------------- MODULE ReliableQueue ----------------------------
(***************************************************************************)
(* What the consumers of AwsSqsService promise those who publish: however  *)
(* often a message is delivered, to however many consumers, it leaves the  *)
(* queue once, for good, and only when the work it asks for is settled.    *)
(* ResumePipeline and Notifications both implement this.                   *)
(***************************************************************************)
CONSTANT Message

VARIABLES
    queued,     \* messages in the queue, those out for delivery among them
    settled,    \* messages whose work is done, or can no longer be done
    gone        \* messages deleted from the queue

vars == <<queued, settled, gone>>

Init == queued = {} /\ settled = {} /\ gone = {}

Publish(m) ==
    /\ m \notin queued \cup gone
    /\ queued' = queued \cup {m}
    /\ UNCHANGED <<settled, gone>>

\* The work may also be settled by others, before the message is queued.
Settle(m) ==
    /\ settled' = settled \cup {m}
    /\ UNCHANGED <<queued, gone>>

Delete(m) ==
    /\ m \in queued \cap settled
    /\ queued' = queued \ {m}
    /\ gone' = gone \cup {m}
    /\ UNCHANGED settled

Next == \E m \in Message : Publish(m) \/ Settle(m) \/ Delete(m)

Spec == Init /\ [][Next]_vars

=============================================================================
