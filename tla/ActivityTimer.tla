--------------------------- MODULE ActivityTimer ---------------------------
(***************************************************************************)
(* The development machine stops itself: AppService arms a timeout when    *)
(* the process starts, arms it anew on every POST app/update-activity, and *)
(* asks EC2 to stop the instance when it runs out.  A request that fails   *)
(* is logged and not repeated.                                             *)
(***************************************************************************)
EXTENDS Naturals

CONSTANTS
    Timeout,    \* TIMEOUT_MINUTES, in ticks
    MaxStops    \* bound: stop requests at one time

ASSUME TimerAssumption == Timeout \in Nat \ {0} /\ MaxStops \in Nat \ {0}

VARIABLES
    up,         \* the machine, and the process on it, runs
    timers,     \* ticks left to each armed timeout
    stops,      \* stop requests EC2 has not answered
    idle,       \* history: ticks since the start or the last activity
    lastIdle,   \* history: idle when a stop was last asked for
    stopFailed  \* history: a stop failed and nobody was active since

timerVars == <<up, timers, stops, idle, lastIdle, stopFailed>>

TimerTypeOK ==
    /\ up \in BOOLEAN
    /\ timers \subseteq 0..Timeout
    /\ \A s, t \in timers : s = t       \* one timeout at most is armed
    /\ stops \in 0..MaxStops
    /\ idle \in 0..Timeout /\ lastIdle \in 0..Timeout
    /\ stopFailed \in BOOLEAN

TimerInit ==
    /\ up = FALSE
    /\ timers = {} /\ stops = 0
    /\ idle = 0 /\ lastIdle = Timeout
    /\ stopFailed = FALSE

\* Mutant: the old timeout is not cleared.
ResetAdds == timers' = timers \cup {Timeout}

\* clearTimeout() also stops one that is due and whose callback has not run.
ResetTimer == timers' = {Timeout}

\* Mutant: onModuleInit does not arm the timeout.
BootUnarmed ==
    /\ ~up /\ up' = TRUE
    /\ idle' = 0
    /\ UNCHANGED <<timers, stops, lastIdle, stopFailed>>

\* onModuleInit in the development environment.
Boot ==
    /\ ~up /\ up' = TRUE
    /\ ResetTimer
    /\ idle' = 0
    /\ UNCHANGED <<stops, lastIdle, stopFailed>>

UpdateActivity ==
    /\ up
    /\ ResetTimer
    /\ idle' = 0 /\ stopFailed' = FALSE
    /\ UNCHANGED <<up, stops, lastIdle>>

\* A timeout that is due waits for the event loop; counting stops at Timeout.
Tick ==
    /\ up
    /\ timers' = {IF t = 0 THEN 0 ELSE t - 1 : t \in timers}
    /\ idle' = IF idle = Timeout THEN idle ELSE idle + 1
    /\ UNCHANGED <<up, stops, lastIdle, stopFailed>>

\* The timeout runs out: StopInstances is sent.
ShutdownEC2Instance ==
    /\ up /\ 0 \in timers /\ stops < MaxStops
    /\ timers' = timers \ {0}
    /\ stops' = stops + 1
    /\ lastIdle' = idle
    /\ UNCHANGED <<up, idle, stopFailed>>

\* The machine goes down with everything on it.
StopSucceeds ==
    /\ up /\ stops > 0
    /\ up' = FALSE
    /\ timers' = {} /\ stops' = 0
    /\ idle' = 0 /\ stopFailed' = FALSE
    /\ UNCHANGED lastIdle

StopFails ==
    /\ up /\ stops > 0
    /\ stops' = stops - 1
    /\ stopFailed' = TRUE
    /\ UNCHANGED <<up, timers, idle, lastIdle>>

-----------------------------------------------------------------------------
(* Properties.                                                              *)

\* The machine asks to be stopped only after the whole timeout has passed
\* without a POST app/update-activity, however activity and timeouts race
\* (resetTimer).
StopsOnlyWhenIdle == lastIdle = Timeout

\* A machine nobody is active on is stopped in the end, unless the request to
\* stop it has failed: nothing repeats it (shutdownEC2Instance).
IdleMachineStops == up ~> (~up \/ idle = 0 \/ stopFailed)
=============================================================================
