------------------------------ MODULE Schedule ------------------------------
(***************************************************************************)
(* When runCollector (internal/app/runner.go) samples: the grid of wake-up *)
(* times, ComputeNextSleep, and the backend's resets.  Times are integers  *)
(* counted from the entry of the loop; the program's are of the monotonic  *)
(* clock, so that setting the clock does not matter.                       *)
(***************************************************************************)
EXTENDS Integers

CONSTANTS Periods,        \* 1 / rate
          ResetInterval,  \* backendResetInterval
          MaxTime,        \* bound: no sample begins later, no call takes until later
          MaxLate         \* bound: how late a timer may fire

VARIABLES
    now,
    period,
    wakeAt,   \* nextWakeAt
    resetAt,
    phase,    \* "loop", "reset", "sample", "record", "asleep", "returned"
    alarm,    \* when the timer of sleepWithContext is due
    samples,  \* history: samples begun
    overran   \* history: a sample ended after the next one was due

Init ==
    /\ period \in Periods
    /\ now = 0 /\ wakeAt = period /\ resetAt = ResetInterval
    /\ phase = "loop" /\ alarm = 0 /\ samples = 0 /\ overran = FALSE

(* A call may take time. *)
Elapse == now' = now \/ (now < MaxTime /\ now' = now + 1)

Loop ==
    /\ phase = "loop" /\ now < MaxTime
    /\ IF now < resetAt THEN phase' = "sample" /\ samples' = samples + 1
                        ELSE phase' = "reset" /\ UNCHANGED samples
    /\ UNCHANGED <<now, period, wakeAt, resetAt, alarm, overran>>

(* Whether it fails or not, the next reset is an interval away. *)
Reset ==
    /\ phase = "reset"
    /\ Elapse /\ resetAt' = now' + ResetInterval
    /\ phase' = "sample" /\ samples' = samples + 1
    /\ UNCHANGED <<period, wakeAt, alarm, overran>>

(* The backend is asked once more, or has returned its sample. *)
Query(last) ==
    /\ phase = "sample"
    /\ Elapse
    /\ phase' = IF last THEN "record" ELSE phase
    /\ UNCHANGED <<period, wakeAt, resetAt, alarm, samples, overran>>

(* Mutant: after an overrun the grid starts anew. *)
ComputeNextSleepShifted(t, wake) ==
    LET next == IF wake >= t THEN wake ELSE t + period
    IN  [sleep |-> next - t, wakeAt |-> next + period]

(* ComputeNextSleep: the wake-ups that have passed are skipped. *)
ComputeNextSleep(t, wake) ==
    LET next == CHOOSE w \in {wake + k * period : k \in 0..t} :
                    w >= t /\ (w = wake \/ w - period < t)
    IN  [sleep |-> next - t, wakeAt |-> next + period]

Sleep ==
    /\ phase = "record"
    /\ LET n == ComputeNextSleep(now, wakeAt)
       IN  alarm' = now + n.sleep /\ wakeAt' = n.wakeAt
    /\ overran' = (overran \/ now > wakeAt)
    /\ phase' = "asleep"
    /\ UNCHANGED <<now, period, resetAt, samples>>

(* The timer fires at its time or later: the machine may be suspended. *)
Wake ==
    /\ phase = "asleep"
    /\ now' \in alarm..alarm + MaxLate
    /\ phase' = "loop"
    /\ UNCHANGED <<period, wakeAt, resetAt, alarm, samples, overran>>

(* The context ends at the top of the loop or during the sleep. *)
Cancelled ==
    /\ phase \in {"loop", "asleep"}
    /\ phase' = "returned"
    /\ UNCHANGED <<now, period, wakeAt, resetAt, alarm, samples, overran>>

-----------------------------------------------------------------------------
(* At most one sample begins for each multiple of the period, however long *)
(* samples take and however late timers fire; the loop is asleep until the *)
(* nearest such multiple that is still to come, and a loop that was never  *)
(* late has taken the sample of each one (runner.go 145-146, 172-182).     *)
OneSamplePerSlot ==
    /\ samples <= 1 + now \div period
    /\ phase = "asleep" => /\ alarm % period = 0 /\ alarm - now \in 0..period
                           /\ overran \/ alarm = samples * period
=============================================================================
