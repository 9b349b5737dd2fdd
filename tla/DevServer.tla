----------------------------- MODULE DevServer -----------------------------
(***************************************************************************)
(* The job board on the development machine that stops itself: its calls   *)
(* do not count as activity, and those in flight are rolled back when the  *)
(* machine goes down.                                                      *)
(***************************************************************************)
EXTENDS JobBoard, ActivityTimer

vars == <<jobVars, timerVars>>

TypeOK == JobTypeOK /\ TimerTypeOK

Init == JobInit /\ TimerInit

Serve == up /\ JobNext /\ UNCHANGED timerVars

\* Postgres rolls back the transactions of a client that is gone.
GoDown ==
    /\ StopSucceeds
    /\ Answer(Call)
    /\ stale' = {}
    /\ UNCHANGED <<row, created, deleted, reverted>>

Timing ==
    /\ Boot \/ UpdateActivity \/ Tick \/ ShutdownEC2Instance \/ StopFails
    /\ UNCHANGED jobVars

Next == Serve \/ GoDown \/ Timing

\* Time passes, timeouts run out and EC2 answers, while requests come as they
\* like.
Spec ==
    /\ Init /\ [][Next]_vars
    /\ WF_vars(Tick /\ UNCHANGED jobVars)
    /\ WF_vars(ShutdownEC2Instance /\ UNCHANGED jobVars)
    /\ WF_vars(GoDown \/ (StopFails /\ UNCHANGED jobVars))
=============================================================================
