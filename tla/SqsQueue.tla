------------------------------ MODULE SqsQueue ------------------------------
(***************************************************************************)
(* An SQS queue, as AwsSqsService uses it: what its three calls do to the  *)
(* state q of the messages of one queue.  SQS delivers at least once: a    *)
(* message that was received and not deleted becomes visible again.        *)
(***************************************************************************)
EXTENDS Naturals, FiniteSets

Published(q, m) == [q EXCEPT ![m] = "visible"]

\* A poll may come back with fewer messages than there are.
Receivable(q, S, maxMessages) ==
    /\ Cardinality(S) <= maxMessages
    /\ \A m \in S : q[m] = "visible"
Received(q, S) == [m \in DOMAIN q |-> IF m \in S THEN "hidden" ELSE q[m]]

\* The visibility timeout passes, whether or not a consumer is still busy.
Returned(q, m) == [q EXCEPT ![m] = "visible"]

\* The receipt handle stays good: a message may be deleted by a consumer
\* whose delivery has timed out.
Deleted(q, m) == [q EXCEPT ![m] = "deleted"]

=============================================================================
