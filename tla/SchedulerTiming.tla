--------------------------- MODULE SchedulerTiming ---------------------------
(* Scheduler with a history variable: the time since each task was started. *)
EXTENDS Scheduler

VARIABLE sinceStart  \* milliseconds since the last start, up to the period

timingVars == <<vars, sinceStart>>

Starts(t) == ~running[t] /\ running'[t]

TimingInit == Init /\ sinceStart = Period

TimingNext ==
  /\ Next
  /\ sinceStart' = [t \in Task |->
       CASE Starts(t) -> 0
         [] now' # now /\ sinceStart[t] < Period[t] -> sinceStart[t] + 1
         [] OTHER -> sinceStart[t]]

TimingSpec == TimingInit /\ [][TimingNext]_timingVars

\* The period of a task is the "minimum time between task starts, in
\* milliseconds" (runtime_scheduler.h).  The code counts the period from the
\* sample taken as the pass began, which may be long before the task starts.
MinimumPeriod ==
  [][\A t \in Task : Starts(t) => sinceStart[t] >= Period[t]]_timingVars
=============================================================================
