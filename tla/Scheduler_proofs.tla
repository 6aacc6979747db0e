--------------------------- MODULE Scheduler_proofs ---------------------------
(***************************************************************************)
(* Proofs about Scheduler, for every task table, every number of hooks and *)
(* every counter width.                                                    *)
(***************************************************************************)
EXTENDS Scheduler, TLAPS

(* Where a level is in runtime_scheduler_run_task: it has set the active    *)
(* flag and must restore it (InRun), it has set the active priority and     *)
(* must restore that (Owns), it has found that its priority may run (Chose), *)
(* it has picked a task (Picked).                                           *)
Owns(l)   == pc[l] \in {"mark", "callback", "deprioritise"}
InRun(l)  == Owns(l) \/ pc[l] \in {"prioritise", "deactivate"}
Picked(l) == InRun(l) \/ pc[l] \in {"reschedule", "activate"}
Chose(l)  == Picked(l) \/ pc[l] = "task"

\* A picked task is in the table and has the priority the pass has come to.
PickedInv ==
  /\ \A l \in Level : Picked(l) => idx[l] \in Task /\ Priority[idx[l]] = pri[l]
  /\ \A l \in Level : Chose(l) => pri[l] \in Prio

\* The active flag says whether a level is inside run_task, and a level saved
\* what it said of the levels below.
ActiveInv ==
  /\ \A k \in Level : InRun(k) => active
  /\ active => \E k \in Level : InRun(k)
  /\ \A l \in Level : InRun(l) =>
       /\ \A k \in Level : k < l /\ InRun(k) => savedActive[l]
       /\ savedActive[l] => \E k \in Level : k < l /\ InRun(k)

\* The active priority is a bound on the priorities of the levels that own it,
\* and a level saved such a bound for the levels below.
ActivePriorityInv ==
  /\ \A k \in Level : Owns(k) => activePriority <= Priority[idx[k]]
  /\ (\A k \in Level : ~Owns(k)) => activePriority = LowestPriority
  /\ \A l \in Level : InRun(l) =>
       /\ \A k \in Level : k < l /\ Owns(k) => savedPriority[l] <= Priority[idx[k]]
       /\ (\A k \in Level : k < l => ~Owns(k)) => savedPriority[l] = LowestPriority

\* A level that has chosen a priority chose one more urgent than every level
\* below it owns.
ChoiceInv ==
  \A k, l \in Level : k < l /\ Owns(k) /\ Chose(l) => pri[l] < Priority[idx[k]]

RunningInv ==
  \A t \in Task : running[t] <=> \E l \in Level : InCallback(l) /\ idx[l] = t

TypeInv == TypeOK /\ PickedInv
IInv    == ActiveInv /\ ActivePriorityInv /\ ChoiceInv /\ RunningInv

-----------------------------------------------------------------------------
(* Facts about the constants, so that the sets they bound stay opaque below. *)

\* Levels, tasks, positions in the table and priorities.
LEMMA ConstantFacts ==
  /\ Level \subseteq Int
  /\ Task \subseteq 1..(TaskCount + 1) /\ 1 \in 1..(TaskCount + 1)
  /\ \A i \in 1..(TaskCount + 1) : i <= TaskCount => i \in Task /\ i + 1 \in 1..(TaskCount + 1)
  /\ Prio \subseteq Nat /\ LowestPriority \in Prio /\ 0 \in Prio
  /\ Prio \subseteq 0..(LowestPriority + 1)
  /\ \A p \in 0..(LowestPriority + 1) : p <= LowestPriority <=> p \in Prio
  /\ \A p \in Prio : p + 1 \in 0..(LowestPriority + 1)
  /\ \A p \in Prio : p <= LowestPriority
  /\ Priority \in [Task -> Prio]
  BY TaskCountAssumption, HookLevelsAssumption, PriorityAssumption
  DEF Level, Task, Prio

\* The counter stays in its range when it advances or a period is added.
LEMMA ClockFacts ==
  /\ 0 \in Clock
  /\ \A s \in Clock, t \in Task : (s + Period[t]) % (2 * Half) \in Clock
  /\ \A s \in Clock : (s + 1) % (2 * Half) \in Clock
<1>1. Half \in Nat \ {0} /\ \A t \in Task : Period[t] \in Nat
  BY TimeAssumption
<1>2. \A n \in Nat : n % (2 * Half) \in Clock
  BY <1>1, Z3 DEF Clock
<1>3. Clock \subseteq Nat /\ 0 \in Clock
  BY <1>1 DEF Clock
<1>4. QED
  BY <1>1, <1>2, <1>3

-----------------------------------------------------------------------------
(* Types, and the task a level has picked.                                  *)

\* The scheduler starts with every variable of its type and no task picked.
LEMMA InitTypeInv == Init => TypeInv
  BY ConstantFacts, ClockFacts
  DEF Init, TypeInv, TypeOK, Steps, PickedInv, Picked, Chose, InRun, Owns

\* Every step keeps the types and picks tasks of the priority it has come to.
LEMMA NextTypeInv == TypeInv /\ [Next]_vars => TypeInv'
<1> SUFFICES ASSUME TypeInv, [Next]_vars PROVE TypeInv'
  OBVIOUS
<1> USE ConstantFacts, ClockFacts
    DEF TypeInv, TypeOK, Steps, PickedInv, Picked, Chose, InRun, Owns,
        scheduler, loop, saved
<1>1. CASE UNCHANGED vars
  BY <1>1 DEF vars
<1>2. CASE Tick
  BY <1>2 DEF Tick
<1>3. ASSUME NEW m \in Level, BeginPass(m) PROVE TypeInv'
  BY <1>3 DEF BeginPass
<1>4. ASSUME NEW m \in Level, EndPass(m) PROVE TypeInv'
  BY <1>4 DEF EndPass, Goto, Top
<1>5. ASSUME NEW m \in Level, EnterPriority(m) PROVE TypeInv'
  BY <1>5 DEF EnterPriority, Goto, Top
<1>6. ASSUME NEW m \in Level, SkipPriority(m) PROVE TypeInv'
  BY <1>6 DEF SkipPriority, Goto, Top
<1>7. ASSUME NEW m \in Level, SkipTask(m) PROVE TypeInv'
  BY <1>7 DEF SkipTask, Goto, Top
<1>8. ASSUME NEW m \in Level, SelectTask(m) PROVE TypeInv'
  BY <1>8 DEF SelectTask, Goto, Top, Ready, ReadyIgnoringContext
<1>9. ASSUME NEW m \in Level, EndTasks(m) PROVE TypeInv'
  BY <1>9 DEF EndTasks, Goto, Top
<1>10. ASSUME NEW m \in Level, Reschedule(m) PROVE TypeInv'
  BY <1>10 DEF Reschedule, Goto, Top
<1>11. ASSUME NEW m \in Level, Activate(m) PROVE TypeInv'
  BY <1>11 DEF Activate, Goto, Top
<1>12. ASSUME NEW m \in Level, Prioritise(m) PROVE TypeInv'
  BY <1>12 DEF Prioritise, Goto, Top
<1>13. ASSUME NEW m \in Level, StartCallback(m) PROVE TypeInv'
  BY <1>13 DEF StartCallback, Goto, Top
<1>14. ASSUME NEW m \in Level, EndCallback(m) PROVE TypeInv'
  BY <1>14 DEF EndCallback, Goto, Top
<1>15. ASSUME NEW m \in Level, Deprioritise(m) PROVE TypeInv'
  BY <1>15 DEF Deprioritise, Goto, Top
<1>16. ASSUME NEW m \in Level, Deactivate(m) PROVE TypeInv'
  <2>1. idx[m] \in Task /\ idx[m] \in 1..(TaskCount + 1) /\ idx[m] <= TaskCount
    BY <1>16, TaskCountAssumption DEF Deactivate, Goto, Task
  <2>2. TypeOK'
    BY <1>16, <2>1 DEF Deactivate, Goto, Top
  <2>3. PickedInv'
    BY <1>16 DEF Deactivate, Goto, Top
  <2>4. QED
    BY <2>2, <2>3
<1>17. QED
  BY <1>1, <1>2, <1>3, <1>4, <1>5, <1>6, <1>7, <1>8, <1>9, <1>10, <1>11, <1>12,
     <1>13, <1>14, <1>15, <1>16 DEF Next, LevelStep

-----------------------------------------------------------------------------
(* The bookkeeping of runtime_scheduler_run_task.                          *)

\* The scheduler starts with no callback recorded and none in progress.
LEMMA InitIInv == Init => IInv
  BY ConstantFacts
  DEF Init, IInv, ActiveInv, ActivePriorityInv, ChoiceInv, RunningInv,
      Picked, Chose, InRun, Owns, InCallback

\* Every step of the bookkeeping around callbacks keeps the four parts in agreement.
LEMMA NextIInv == TypeInv /\ IInv /\ [Next]_vars => IInv'
<1> SUFFICES ASSUME TypeInv, IInv, [Next]_vars PROVE IInv'
  OBVIOUS
<1> USE ConstantFacts
    DEF IInv, TypeInv, TypeOK, Steps, PickedInv, Picked, Chose, InRun, Owns, InCallback,
        scheduler, loop, saved
<1>1. CASE UNCHANGED vars
  BY <1>1 DEF vars, ActiveInv, ActivePriorityInv, ChoiceInv, RunningInv
<1>2. CASE Tick
  BY <1>2 DEF Tick, ActiveInv, ActivePriorityInv, ChoiceInv, RunningInv
<1>3. ASSUME NEW m \in Level, BeginPass(m) PROVE IInv'
  <2>1. ActiveInv'
    BY <1>3 DEF BeginPass, ActiveInv
  <2>2. ActivePriorityInv'
    BY <1>3 DEF BeginPass, ActivePriorityInv, ActiveInv, ChoiceInv
  <2>3. ChoiceInv'
    BY <1>3 DEF BeginPass, ChoiceInv, ActiveInv, ActivePriorityInv
  <2>4. RunningInv'
    BY <1>3 DEF BeginPass, RunningInv, ActiveInv, ActivePriorityInv, ChoiceInv
  <2>5. QED
    BY <2>1, <2>2, <2>3, <2>4
<1>4. ASSUME NEW m \in Level, EndPass(m) PROVE IInv'
  <2>1. ActiveInv'
    BY <1>4 DEF EndPass, Goto, Top, ActiveInv
  <2>2. ActivePriorityInv'
    BY <1>4 DEF EndPass, Goto, Top, ActivePriorityInv, ActiveInv, ChoiceInv
  <2>3. ChoiceInv'
    BY <1>4 DEF EndPass, Goto, Top, ChoiceInv, ActiveInv, ActivePriorityInv
  <2>4. RunningInv'
    BY <1>4 DEF EndPass, Goto, Top, RunningInv, ActiveInv, ActivePriorityInv, ChoiceInv
  <2>5. QED
    BY <2>1, <2>2, <2>3, <2>4
<1>5. ASSUME NEW m \in Level, EnterPriority(m) PROVE IInv'
  <2>1. ActiveInv'
    BY <1>5 DEF EnterPriority, Goto, Top, PriorityCanRunNow, ActiveInv
  <2>2. ActivePriorityInv'
    BY <1>5 DEF EnterPriority, Goto, Top, PriorityCanRunNow, ActivePriorityInv, ActiveInv, ChoiceInv
  <2>3. ChoiceInv'
    BY <1>5 DEF EnterPriority, Goto, Top, PriorityCanRunNow, ChoiceInv, ActiveInv, ActivePriorityInv
  <2>4. RunningInv'
    BY <1>5 DEF EnterPriority, Goto, Top, PriorityCanRunNow, RunningInv, ActiveInv,
       ActivePriorityInv, ChoiceInv
  <2>5. QED
    BY <2>1, <2>2, <2>3, <2>4
<1>6. ASSUME NEW m \in Level, SkipPriority(m) PROVE IInv'
  <2>1. ActiveInv'
    BY <1>6 DEF SkipPriority, Goto, Top, ActiveInv
  <2>2. ActivePriorityInv'
    BY <1>6 DEF SkipPriority, Goto, Top, ActivePriorityInv, ActiveInv, ChoiceInv
  <2>3. ChoiceInv'
    BY <1>6 DEF SkipPriority, Goto, Top, ChoiceInv, ActiveInv, ActivePriorityInv
  <2>4. RunningInv'
    BY <1>6 DEF SkipPriority, Goto, Top, RunningInv, ActiveInv, ActivePriorityInv, ChoiceInv
  <2>5. QED
    BY <2>1, <2>2, <2>3, <2>4
<1>7. ASSUME NEW m \in Level, SkipTask(m) PROVE IInv'
  <2>1. ActiveInv'
    BY <1>7 DEF SkipTask, Goto, Top, ActiveInv
  <2>2. ActivePriorityInv'
    BY <1>7 DEF SkipTask, Goto, Top, ActivePriorityInv, ActiveInv, ChoiceInv
  <2>3. ChoiceInv'
    BY <1>7 DEF SkipTask, Goto, Top, ChoiceInv, ActiveInv, ActivePriorityInv
  <2>4. RunningInv'
    BY <1>7 DEF SkipTask, Goto, Top, RunningInv, ActiveInv, ActivePriorityInv, ChoiceInv
  <2>5. QED
    BY <2>1, <2>2, <2>3, <2>4
<1>8. ASSUME NEW m \in Level, SelectTask(m) PROVE IInv'
  <2>1. ActiveInv'
    BY <1>8 DEF SelectTask, Goto, Top, ActiveInv
  <2>2. ActivePriorityInv'
    BY <1>8 DEF SelectTask, Goto, Top, ActivePriorityInv, ActiveInv, ChoiceInv
  <2>3. ChoiceInv'
    BY <1>8 DEF SelectTask, Goto, Top, ChoiceInv, ActiveInv, ActivePriorityInv
  <2>4. RunningInv'
    BY <1>8 DEF SelectTask, Goto, Top, RunningInv, ActiveInv, ActivePriorityInv, ChoiceInv
  <2>5. QED
    BY <2>1, <2>2, <2>3, <2>4
<1>9. ASSUME NEW m \in Level, EndTasks(m) PROVE IInv'
  <2>1. ActiveInv'
    BY <1>9 DEF EndTasks, Goto, Top, ActiveInv
  <2>2. ActivePriorityInv'
    BY <1>9 DEF EndTasks, Goto, Top, ActivePriorityInv, ActiveInv, ChoiceInv
  <2>3. ChoiceInv'
    BY <1>9 DEF EndTasks, Goto, Top, ChoiceInv, ActiveInv, ActivePriorityInv
  <2>4. RunningInv'
    BY <1>9 DEF EndTasks, Goto, Top, RunningInv, ActiveInv, ActivePriorityInv, ChoiceInv
  <2>5. QED
    BY <2>1, <2>2, <2>3, <2>4
<1>10. ASSUME NEW m \in Level, Reschedule(m) PROVE IInv'
  <2>1. ActiveInv'
    BY <1>10 DEF Reschedule, Goto, Top, ActiveInv
  <2>2. ActivePriorityInv'
    BY <1>10 DEF Reschedule, Goto, Top, ActivePriorityInv, ActiveInv, ChoiceInv
  <2>3. ChoiceInv'
    BY <1>10 DEF Reschedule, Goto, Top, ChoiceInv, ActiveInv, ActivePriorityInv
  <2>4. RunningInv'
    BY <1>10 DEF Reschedule, Goto, Top, RunningInv, ActiveInv, ActivePriorityInv, ChoiceInv
  <2>5. QED
    BY <2>1, <2>2, <2>3, <2>4
<1>11. ASSUME NEW m \in Level, Activate(m) PROVE IInv'
  <2>1. ActiveInv'
    BY <1>11 DEF Activate, Goto, Top, ActiveInv
  <2>2. ActivePriorityInv'
    BY <1>11 DEF Activate, Goto, Top, ActivePriorityInv, ActiveInv, ChoiceInv
  <2>3. ChoiceInv'
    BY <1>11 DEF Activate, Goto, Top, ChoiceInv, ActiveInv, ActivePriorityInv
  <2>4. RunningInv'
    BY <1>11 DEF Activate, Goto, Top, RunningInv, ActiveInv, ActivePriorityInv, ChoiceInv
  <2>5. QED
    BY <2>1, <2>2, <2>3, <2>4
<1>12. ASSUME NEW m \in Level, Prioritise(m) PROVE IInv'
  <2>1. ActiveInv'
    BY <1>12 DEF Prioritise, Goto, Top, ActiveInv
  <2>2. ActivePriorityInv'
    BY <1>12 DEF Prioritise, Goto, Top, ActivePriorityInv, ActiveInv, ChoiceInv
  <2>3. ChoiceInv'
    BY <1>12 DEF Prioritise, Goto, Top, ChoiceInv, ActiveInv, ActivePriorityInv
  <2>4. RunningInv'
    BY <1>12 DEF Prioritise, Goto, Top, RunningInv, ActiveInv, ActivePriorityInv, ChoiceInv
  <2>5. QED
    BY <2>1, <2>2, <2>3, <2>4
<1>13. ASSUME NEW m \in Level, StartCallback(m) PROVE IInv'
  <2>1. ActiveInv'
    BY <1>13 DEF StartCallback, Goto, Top, ActiveInv
  <2>2. ActivePriorityInv'
    BY <1>13 DEF StartCallback, Goto, Top, ActivePriorityInv, ActiveInv, ChoiceInv
  <2>3. ChoiceInv'
    BY <1>13 DEF StartCallback, Goto, Top, ChoiceInv, ActiveInv, ActivePriorityInv
  <2>4. RunningInv'
    BY <1>13 DEF StartCallback, Goto, Top, RunningInv, ActiveInv, ActivePriorityInv, ChoiceInv
  <2>5. QED
    BY <2>1, <2>2, <2>3, <2>4
<1>14. ASSUME NEW m \in Level, EndCallback(m) PROVE IInv'
  <2>1. ActiveInv'
    BY <1>14 DEF EndCallback, Goto, Top, ActiveInv
  <2>2. ActivePriorityInv'
    BY <1>14 DEF EndCallback, Goto, Top, ActivePriorityInv, ActiveInv, ChoiceInv
  <2>3. ChoiceInv'
    BY <1>14 DEF EndCallback, Goto, Top, ChoiceInv, ActiveInv, ActivePriorityInv
  <2>4. RunningInv'
    BY <1>14 DEF EndCallback, Goto, Top, RunningInv, ActiveInv, ActivePriorityInv, ChoiceInv
  <2>5. QED
    BY <2>1, <2>2, <2>3, <2>4
<1>15. ASSUME NEW m \in Level, Deprioritise(m) PROVE IInv'
  <2>1. ActiveInv'
    BY <1>15 DEF Deprioritise, Goto, Top, ActiveInv
  <2>2. ActivePriorityInv'
    BY <1>15 DEF Deprioritise, Goto, Top, ActivePriorityInv, ActiveInv, ChoiceInv
  <2>3. ChoiceInv'
    BY <1>15 DEF Deprioritise, Goto, Top, ChoiceInv, ActiveInv, ActivePriorityInv
  <2>4. RunningInv'
    BY <1>15 DEF Deprioritise, Goto, Top, RunningInv, ActiveInv, ActivePriorityInv, ChoiceInv
  <2>5. QED
    BY <2>1, <2>2, <2>3, <2>4
<1>16. ASSUME NEW m \in Level, Deactivate(m) PROVE IInv'
  <2>1. ActiveInv'
    BY <1>16 DEF Deactivate, Goto, Top, ActiveInv
  <2>2. ActivePriorityInv'
    BY <1>16 DEF Deactivate, Goto, Top, ActivePriorityInv, ActiveInv, ChoiceInv
  <2>3. ChoiceInv'
    BY <1>16 DEF Deactivate, Goto, Top, ChoiceInv, ActiveInv, ActivePriorityInv
  <2>4. RunningInv'
    BY <1>16 DEF Deactivate, Goto, Top, RunningInv, ActiveInv, ActivePriorityInv, ChoiceInv
  <2>5. QED
    BY <2>1, <2>2, <2>3, <2>4
<1>17. QED
  BY <1>1, <1>2, <1>3, <1>4, <1>5, <1>6, <1>7, <1>8, <1>9, <1>10, <1>11, <1>12,
     <1>13, <1>14, <1>15, <1>16 DEF Next, LevelStep

-----------------------------------------------------------------------------
(* Theorems.                                                               *)

\* Every variable of the scheduler keeps its type, and a pass that has picked a
\* task has picked a record of the table of the priority it has come to.
THEOREM TypeCorrect == Spec => [](TypeOK /\ PickedInv)
<1>1. Init => TypeInv
  BY InitTypeInv
<1>2. TypeInv /\ [Next]_vars => TypeInv'
  BY NextTypeInv
<1>3. QED
  BY <1>1, <1>2, PTL DEF Spec, TypeInv

\* The bookkeeping around callbacks is an invariant of the scheduler.
THEOREM Bookkeeping == Spec => []IInv
<1>1. Init => IInv
  BY InitIInv
<1>2. TypeInv /\ IInv /\ [Next]_vars => IInv'
  BY NextIInv
<1>3. QED
  BY <1>1, <1>2, TypeCorrect, PTL DEF Spec, TypeInv

\* A callback is interrupted only by a strictly more urgent one
\* (runtime_scheduler_priority_can_run_now and runtime_scheduler_run_task),
\* for any number of hooks that may interrupt each other.
THEOREM PreemptionIsStrict == Spec => []StrictPreemption
<1>1. TypeInv /\ IInv => StrictPreemption
  BY DEF TypeInv, IInv, PickedInv, ChoiceInv, StrictPreemption, InCallback,
         Chose, Picked, InRun, Owns
<1>2. QED
  BY <1>1, TypeCorrect, Bookkeeping, PTL DEF TypeInv

\* A task is never re-entered, and its running flag is exact.
THEOREM TasksAreNotReentered == Spec => []NoReentry
<1>1. TypeInv /\ IInv => NoReentry
  <2> SUFFICES ASSUME TypeInv, IInv PROVE NoReentry
    OBVIOUS
  <2>1. ASSUME NEW k \in Level, NEW l \in Level,
               k < l, InCallback(k), InCallback(l), idx[k] = idx[l]
        PROVE  FALSE
    <3>1. pri[l] < Priority[idx[k]]
      BY <2>1 DEF IInv, ChoiceInv, InCallback, Chose, Picked, InRun, Owns
    <3>2. idx[l] \in Task /\ Priority[idx[l]] = pri[l]
      BY <2>1 DEF TypeInv, PickedInv, InCallback, Picked, InRun, Owns
    <3>3. Priority[idx[l]] \in Int
      BY <3>2, PriorityAssumption DEF Prio
    <3>4. pri[l] < Priority[idx[l]] /\ Priority[idx[l]] = pri[l]
      BY <2>1, <3>1, <3>2
    <3>5. QED
      BY <3>3, <3>4
  <2>2. \A k, l \in Level : k < l \/ k = l \/ l < k
    BY ConstantFacts
  <2>3. QED
    BY <2>1, <2>2 DEF NoReentry, IInv, RunningInv
<1>2. QED
  BY <1>1, TypeCorrect, Bookkeeping, PTL DEF TypeInv

\* Wherever a pass decides what to run, active_callback says whether there are callbacks
\* that it interrupted, and active_priority is no less urgent than any of them.
THEOREM ActiveStateIsRestored == Spec => []ActiveMatchesInterrupted
<1>1. TypeInv /\ IInv => ActiveMatchesInterrupted
  BY ConstantFacts DEF TypeInv, TypeOK, IInv, ActiveInv, ActivePriorityInv,
     ActiveMatchesInterrupted, InCallback, InRun, Owns
<1>2. QED
  BY <1>1, TypeCorrect, Bookkeeping, PTL DEF TypeInv

-----------------------------------------------------------------------------
(* One hook: the tasks of the hook and those of the main loop are disjoint. *)

DueInv ==
  \A l \in Level :
    /\ Picked(l) => TaskIsPreemptive(idx[l]) = (l # 0)
    /\ pc[l] = "reschedule" => Due(l, idx[l])

\* With one hook, nothing that runs the task comes between check and reschedule.
LEMMA NextDueInv ==
  HookLevels <= 1 /\ TypeInv /\ DueInv /\ [Next]_vars => DueInv'
<1> SUFFICES ASSUME HookLevels <= 1, TypeInv, DueInv, [Next]_vars PROVE DueInv'
  OBVIOUS
<1>1. \A k, l \in Level : (k # 0) = (l # 0) => k = l
  BY HookLevelsAssumption DEF Level
<1> USE ConstantFacts
    DEF DueInv, Due, TypeInv, TypeOK, PickedInv, Picked, InRun, Owns, scheduler, loop, saved
<1>2. CASE UNCHANGED vars
  BY <1>2 DEF vars, TaskIsPreemptive
<1>3. CASE Tick
  BY <1>3 DEF Tick, TaskIsPreemptive
<1>4. ASSUME NEW m \in Level, BeginPass(m) PROVE DueInv'
  BY <1>4 DEF BeginPass, TaskIsPreemptive
<1>5. ASSUME NEW m \in Level, EndPass(m) PROVE DueInv'
  BY <1>5 DEF EndPass, Goto, Top, TaskIsPreemptive
<1>6. ASSUME NEW m \in Level, EnterPriority(m) PROVE DueInv'
  BY <1>6 DEF EnterPriority, Goto, Top, TaskIsPreemptive
<1>7. ASSUME NEW m \in Level, SkipPriority(m) PROVE DueInv'
  BY <1>7 DEF SkipPriority, Goto, Top, TaskIsPreemptive
<1>8. ASSUME NEW m \in Level, SkipTask(m) PROVE DueInv'
  BY <1>8 DEF SkipTask, Goto, Top, TaskIsPreemptive
<1>9. ASSUME NEW m \in Level, SelectTask(m) PROVE DueInv'
  BY <1>9 DEF SelectTask, Goto, Top, Ready, ReadyIgnoringContext, TimeHasArrived
<1>10. ASSUME NEW m \in Level, EndTasks(m) PROVE DueInv'
  BY <1>10 DEF EndTasks, Goto, Top, TaskIsPreemptive
<1>11. ASSUME NEW m \in Level, Reschedule(m) PROVE DueInv'
  BY <1>11, <1>1 DEF Reschedule, Goto, Top, TaskIsPreemptive
<1>12. ASSUME NEW m \in Level, Activate(m) PROVE DueInv'
  BY <1>12 DEF Activate, Goto, Top, TaskIsPreemptive
<1>13. ASSUME NEW m \in Level, Prioritise(m) PROVE DueInv'
  BY <1>13 DEF Prioritise, Goto, Top, TaskIsPreemptive
<1>14. ASSUME NEW m \in Level, StartCallback(m) PROVE DueInv'
  BY <1>14 DEF StartCallback, Goto, Top, TaskIsPreemptive
<1>15. ASSUME NEW m \in Level, EndCallback(m) PROVE DueInv'
  BY <1>15 DEF EndCallback, Goto, Top, TaskIsPreemptive
<1>16. ASSUME NEW m \in Level, Deprioritise(m) PROVE DueInv'
  BY <1>16 DEF Deprioritise, Goto, Top, TaskIsPreemptive
<1>17. ASSUME NEW m \in Level, Deactivate(m) PROVE DueInv'
  BY <1>17 DEF Deactivate, Goto, Top, TaskIsPreemptive
<1>18. QED
  BY <1>2, <1>3, <1>4, <1>5, <1>6, <1>7, <1>8, <1>9, <1>10, <1>11, <1>12,
     <1>13, <1>14, <1>15, <1>16, <1>17 DEF Next, LevelStep

\* With at most one hook above the main loop, a task that a pass has found due
\* is still due when the pass reschedules it.
THEOREM OneHookStillDue == HookLevels <= 1 /\ Spec => []StillDue
<1> SUFFICES ASSUME HookLevels <= 1 PROVE Spec => []StillDue
  OBVIOUS
<1>1. Init => DueInv
  BY ConstantFacts DEF Init, DueInv, Picked, InRun, Owns
<1>2. TypeInv /\ DueInv /\ [Next]_vars => DueInv'
  BY NextDueInv
<1>3. DueInv => StillDue
  BY DEF DueInv, StillDue
<1>4. QED
  BY <1>1, <1>2, <1>3, TypeCorrect, PTL DEF Spec, TypeInv
-----------------------------------------------------------------------------
(* The order in which a pass serves the tasks.                             *)

\* A pass works on the sample of the clock it took: it is not older than the
\* longest pass, and no older than that beside the sample of a pass it interrupts.
SampleInv ==
  /\ \A l \in Level : pc[l] # "idle" => Since(now, sample[l]) <= MaxPass
  /\ \A k, l \in Level :
       k < l /\ pc[k] # "idle" /\ pc[l] # "idle" => Since(sample[l], sample[k]) <= MaxPass
  /\ \A l \in Level : pc[l] = "idle" => pri[l] = 0

\* Level k is the first, from level l up, that is inside run_task.
FirstInRun(l, k) == l <= k /\ InRun(k) /\ \A j \in Level : l <= j /\ j < k => ~InRun(j)

\* A level that has restored the active priority restored the one it saved, and
\* the levels above it see that one.
RestoredInv ==
  \A m \in Level : pc[m] = "deactivate" =>
    /\ (\A k \in Level : k > m => ~InRun(k)) => activePriority = savedPriority[m]
    /\ \A k \in Level : FirstInRun(m + 1, k) => savedPriority[k] = savedPriority[m]

\* Priority p may run when level l decides next: what the record of the active
\* callback says of it when the levels from l up have restored it.
MayRunAt(l, p) ==
  /\ (\A k \in Level : l <= k => ~InRun(k)) => PriorityCanRunNow(p)
  /\ \A k \in Level : FirstInRun(l, k) => ~savedActive[k] \/ p < savedPriority[k]

\* The pass of level l has come past task t.
Passed(l, t) ==
  \/ Priority[t] < pri[l]
  \/ /\ Priority[t] = pri[l] /\ pc[l] # "priority"
     /\ \/ t < idx[l]
        \/ t = idx[l] /\ (InRun(l) \/ pc[l] = "activate")

\* A pass leaves no task behind that it could have run.
ServedInv ==
  \A l \in Level, t \in Task :
    /\ pc[l] # "idle" /\ Passed(l, t) /\ MayRunAt(l, Priority[t])
    /\ Enabled[t] /\ TaskIsPreemptive(t) = (l # 0) /\ Period[t] > 0
    => ~Due(l, t)

\* How long one reading of the counter is after another.
LEMMA SinceIs ==
  ASSUME NEW a \in Clock, NEW b \in Clock
  PROVE  /\ Since(a, b) = IF b <= a THEN a - b ELSE a - b + 2 * Half
         /\ Since(a, b) \in Clock
<1> DEFINE n == 2 * Half
           d == a - b
<1>1. n \in Nat \ {0} /\ a \in 0..(n - 1) /\ b \in 0..(n - 1) /\ d \in Int
  BY TimeAssumption DEF Clock
<1>2. \A N \in Nat \ {0}, x \in Int :
        /\ 0 <= x /\ x < N => x % N = x
        /\ -N <= x /\ x < 0 => x % N = x + N
  BY Z3
<1>3. -n <= d /\ d < n
  BY <1>1
<1>4. d % n = IF 0 <= d THEN d ELSE d + n
  <2> HIDE DEF n, d
  <2> QED BY <1>1, <1>2, <1>3
<1>5. Since(a, b) = d % n
  BY DEF Since
<1>6. Since(a, b) = IF b <= a THEN a - b ELSE a - b + n
  BY <1>1, <1>4, <1>5
<1>7. QED
  BY <1>1, <1>6 DEF Clock

\* The counter after a number of milliseconds less than its range.
LEMMA LaterIs ==
  ASSUME NEW a \in Clock, NEW p \in Nat, p < 2 * Half
  PROVE  /\ (a + p) % (2 * Half) = IF a + p < 2 * Half THEN a + p ELSE a + p - 2 * Half
         /\ (a + p) % (2 * Half) \in Clock
<1> DEFINE n == 2 * Half
           x == a + p
<1>1. n \in Nat \ {0} /\ a \in 0..(n - 1) /\ x \in Int /\ 0 <= x /\ x < 2 * n
  BY TimeAssumption DEF Clock
<1>2. \A N \in Nat \ {0}, y \in Int :
        /\ 0 <= y /\ y < N => y % N = y
        /\ N <= y /\ y < 2 * N => y % N = y - N
  BY Z3
<1>3. x % n = IF x < n THEN x ELSE x - n
  <2> HIDE DEF n, x
  <2>1. n \in Int
    BY <1>1
  <2>2. CASE x < n
    BY <1>1, <1>2, <2>2
  <2>3. CASE ~(x < n)
    <3>1. n <= x /\ x < 2 * n
      BY <1>1, <2>1, <2>3
    <3>2. x % n = x - n
      BY <1>1, <1>2, <3>1
    <3>3. QED
      BY <2>3, <3>2
  <2>4. QED
    BY <2>2, <2>3
<1>4. QED
  BY <1>1, <1>3 DEF Clock

\* A tick of the counter adds one to the age of a sample.
LEMMA SinceAfterTick ==
  ASSUME NEW a \in Clock, NEW s \in Clock, Since(a, s) < MaxPass
  PROVE  Since((a + 1) % (2 * Half), s) <= MaxPass
<1>1. MaxPass \in Nat /\ MaxPass < Half /\ Half \in Nat \ {0}
  BY TimeAssumption, TaskCountAssumption DEF Task
<1> DEFINE c == (a + 1) % (2 * Half)
<1>2. c = (IF a + 1 < 2 * Half THEN a + 1 ELSE a + 1 - 2 * Half) /\ c \in Clock
  BY <1>1, LaterIs
<1> HIDE DEF c
<1>3. Since(c, s) = IF s <= c THEN c - s ELSE c - s + 2 * Half
  BY <1>2, SinceIs
<1>4. Since(a, s) = IF s <= a THEN a - s ELSE a - s + 2 * Half
  BY SinceIs
<1>5. Since(c, s) <= MaxPass
  BY <1>1, <1>2, <1>3, <1>4 DEF Clock
<1>6. QED
  BY <1>5 DEF c

\* A task that a pass reschedules is not due by the sample of that pass, nor by
\* one that is older by no more than a pass takes.
LEMMA NotDueAgain ==
  ASSUME NEW a \in Clock, NEW b \in Clock, NEW t \in Task,
         Period[t] > 0, Since(b, a) <= MaxPass
  PROVE  ~(Since(a, (b + Period[t]) % (2 * Half)) < Half)
<1> DEFINE p == Period[t]
           c == (b + p) % (2 * Half)
<1>1. /\ p \in Nat /\ p > 0 /\ Half \in Nat \ {0}
      /\ MaxPass \in Nat /\ MaxPass + p < Half
  BY TimeAssumption
<1>2. c = (IF b + p < 2 * Half THEN b + p ELSE b + p - 2 * Half) /\ c \in Clock
  <2> HIDE DEF p
  <2>1. p < 2 * Half
    BY <1>1
  <2>2. QED
    BY <1>1, <2>1, LaterIs
<1> HIDE DEF c, p
<1>3. Since(a, c) = IF c <= a THEN a - c ELSE a - c + 2 * Half
  BY <1>2, SinceIs
<1>4. Since(b, a) = IF a <= b THEN b - a ELSE b - a + 2 * Half
  BY SinceIs
<1>5. ~(Since(a, c) < Half)
  BY <1>1, <1>2, <1>3, <1>4 DEF Clock
<1>6. QED
  BY <1>5 DEF c, p

\* No pass has begun, so none has left a task behind.
LEMMA InitOrderInv == Init => SampleInv /\ RestoredInv /\ ServedInv
  BY ConstantFacts DEF Init, SampleInv, RestoredInv, ServedInv, InRun, Owns

\* A step of a level that is in a pass and stays in it changes nothing that the
\* ages of the samples depend on.
LEMMA NextSampleInv == TypeInv /\ SampleInv /\ [Next]_vars => SampleInv'
<1> SUFFICES ASSUME TypeInv, SampleInv, [Next]_vars PROVE SampleInv'
  OBVIOUS
<1>0. /\ pc \in [Level -> Steps] /\ now \in Clock /\ sample \in [Level -> Clock]
      /\ pri \in [Level -> 0..(LowestPriority + 1)]
  BY DEF TypeInv, TypeOK
<1>a. MaxPass \in Nat
  BY TimeAssumption
<1>1. CASE UNCHANGED vars
  BY <1>1 DEF vars, SampleInv, loop
<1>2. CASE Tick
  <2>1. pc' = pc /\ sample' = sample /\ pri' = pri /\ now' = (now + 1) % (2 * Half)
    BY <1>2 DEF Tick, loop
  <2>2. ASSUME NEW l \in Level, pc[l] # "idle" PROVE Since(now', sample[l]) <= MaxPass
    <3>1. Since(now, sample[l]) < MaxPass
      BY <1>2, <2>2 DEF Tick
    <3>2. QED
      BY <1>0, <2>1, <3>1, SinceAfterTick
  <2>3. QED
    BY <2>1, <2>2 DEF SampleInv, Since
<1>3. ASSUME NEW m \in Level, BeginPass(m) PROVE SampleInv'
  <2>1. /\ now' = now /\ pri' = pri
        /\ pc' = [pc EXCEPT ![m] = "priority"] /\ sample' = [sample EXCEPT ![m] = now]
        /\ \A k \in Level : k >= m => pc[k] = "idle"
    BY <1>3 DEF BeginPass
  <2>2. Since(now, now) = 0
    BY <1>0, SinceIs DEF Clock
  <2>3. \A l \in Level : pc'[l] # "idle" => Since(now', sample'[l]) <= MaxPass
    BY <1>0, <1>a, <2>1, <2>2 DEF SampleInv
  <2>4. ASSUME NEW k \in Level, NEW l \in Level, k < l, pc'[k] # "idle", pc'[l] # "idle"
        PROVE  Since(sample'[l], sample'[k]) <= MaxPass
    <3>1. k # m /\ pc[k] # "idle" /\ sample'[k] = sample[k]
      BY <1>0, <2>1, <2>4, ConstantFacts
    <3>2. CASE l = m
      BY <1>0, <2>1, <3>1, <3>2 DEF SampleInv
    <3>3. CASE l # m
      BY <1>0, <2>1, <2>4, <3>1, <3>3 DEF SampleInv
    <3>4. QED
      BY <3>2, <3>3
  <2>5. \A l \in Level : pc'[l] = "idle" => pri'[l] = 0
    BY <1>0, <2>1 DEF SampleInv
  <2>6. QED
    BY <2>3, <2>4, <2>5 DEF SampleInv
<1>4. ASSUME NEW m \in Level, EndPass(m) PROVE SampleInv'
  <2>1. /\ now' = now /\ pc' = [pc EXCEPT ![m] = "idle"]
        /\ pri' = [pri EXCEPT ![m] = 0] /\ sample' = [sample EXCEPT ![m] = 0]
    BY <1>4 DEF EndPass, Goto
  <2>2. QED
    BY <1>0, <2>1 DEF SampleInv
<1>5. ASSUME NEW m \in Level, LevelStep(m), ~BeginPass(m), ~EndPass(m) PROVE SampleInv'
  <2>1. /\ now' = now /\ sample' = sample
        /\ \A l \in Level : (pc'[l] = "idle" <=> pc[l] = "idle")
                            /\ (pc[l] = "idle" => pri'[l] = pri[l])
    BY <1>0, <1>5
    DEF LevelStep, EnterPriority, SkipPriority, SkipTask, SelectTask, EndTasks, Reschedule,
        Activate, Prioritise, StartCallback, EndCallback, Deprioritise, Deactivate, Goto,
        Top, loop
  <2>2. QED
    BY <2>1 DEF SampleInv
<1>6. QED
  BY <1>1, <1>2, <1>3, <1>4, <1>5 DEF Next

\* The saved priority that a level restores is the one the levels above it see.
LEMMA NextRestoredInv == TypeInv /\ RestoredInv /\ [Next]_vars => RestoredInv'
<1> SUFFICES ASSUME TypeInv, RestoredInv, [Next]_vars PROVE RestoredInv'
  OBVIOUS
<1>0. /\ pc \in [Level -> Steps] /\ savedPriority \in [Level -> Prio] /\ Level \subseteq Int
  BY ConstantFacts DEF TypeInv, TypeOK
<1> DEFINE Same ==
      /\ activePriority' = activePriority /\ savedPriority' = savedPriority
      /\ \A k \in Level : (InRun(k))' <=> InRun(k)
      /\ \A k \in Level : pc'[k] = "deactivate" => pc[k] = "deactivate"
<1>1. ASSUME Same PROVE RestoredInv'
  BY <1>1 DEF RestoredInv, FirstInRun
<1>2. CASE UNCHANGED vars
  BY <1>1, <1>2 DEF vars, scheduler, saved, InRun, Owns
<1>3. CASE Tick
  BY <1>1, <1>3 DEF Tick, scheduler, saved, InRun, Owns
<1>4. ASSUME NEW m \in Level,
             \/ BeginPass(m) \/ EndPass(m) \/ EnterPriority(m) \/ SkipPriority(m)
             \/ SkipTask(m) \/ SelectTask(m) \/ EndTasks(m) \/ Reschedule(m)
             \/ StartCallback(m) \/ EndCallback(m)
      PROVE  RestoredInv'
  <2>1. activePriority' = activePriority /\ savedPriority' = savedPriority
    BY <1>4
    DEF BeginPass, EndPass, EnterPriority, SkipPriority, SkipTask, SelectTask, EndTasks,
        Reschedule, StartCallback, EndCallback, scheduler, saved
  <2>2. ASSUME NEW k \in Level
        PROVE  ((InRun(k))' <=> InRun(k)) /\ (pc'[k] = "deactivate" => pc[k] = "deactivate")
    BY <1>0, <1>4
    DEF BeginPass, EndPass, EnterPriority, SkipPriority, SkipTask, SelectTask, EndTasks,
        Reschedule, StartCallback, EndCallback, Goto, Top, InRun, Owns
  <2>3. QED
    BY <1>1, <2>1, <2>2
<1>5. ASSUME NEW m \in Level, Prioritise(m) PROVE RestoredInv'
  <2>1. /\ savedPriority' = savedPriority /\ InRun(m) /\ pc[m] # "deactivate"
        /\ \A k \in Level : k > m => pc[k] = "idle"
    BY <1>0, <1>5 DEF Prioritise, Goto, Top, saved, InRun
  <2>2. \A k \in Level : ((InRun(k))' <=> InRun(k))
                         /\ (pc'[k] = "deactivate" => pc[k] = "deactivate")
    BY <1>0, <1>5 DEF Prioritise, Goto, InRun, Owns
  <2>3. ASSUME NEW n \in Level, pc'[n] = "deactivate" PROVE n < m
    BY <1>0, <2>1, <2>2, <2>3
  <2>4. QED
    BY <2>1, <2>2, <2>3 DEF RestoredInv, FirstInRun
<1>6. ASSUME NEW m \in Level, Deprioritise(m) PROVE RestoredInv'
  <2>1. /\ savedPriority' = savedPriority /\ InRun(m) /\ pc[m] # "deactivate"
        /\ \A k \in Level : k > m => pc[k] = "idle" /\ ~InRun(k)
        /\ activePriority' = savedPriority[m]
    BY <1>0, <1>6 DEF Deprioritise, Goto, Top, saved, InRun, Owns
  <2>2. \A k \in Level : ((InRun(k))' <=> InRun(k))
                         /\ (pc'[k] = "deactivate" => pc[k] = "deactivate" \/ k = m)
    BY <1>0, <1>6 DEF Deprioritise, Goto, InRun, Owns
  <2>3. ASSUME NEW n \in Level, pc'[n] = "deactivate" PROVE n < m \/ n = m
    BY <1>0, <2>1, <2>2, <2>3
  <2>4. \A k \in Level : ~(FirstInRun(m + 1, k))'
    BY <1>0, <2>1, <2>2 DEF FirstInRun
  <2>5. QED
    BY <1>0, <2>1, <2>2, <2>3, <2>4 DEF RestoredInv, FirstInRun
<1>7. ASSUME NEW m \in Level, Activate(m) PROVE RestoredInv'
  <2>1. /\ savedPriority' = [savedPriority EXCEPT ![m] = activePriority]
        /\ activePriority' = activePriority /\ pc[m] = "activate"
        /\ \A k \in Level : k > m => pc[k] = "idle" /\ ~InRun(k)
    BY <1>0, <1>7 DEF Activate, Goto, Top, InRun, Owns
  <2>2. /\ ~InRun(m) /\ (InRun(m))'
        /\ \A k \in Level : k # m => ((InRun(k))' <=> InRun(k))
        /\ \A k \in Level : pc'[k] = "deactivate" => pc[k] = "deactivate"
    BY <1>0, <1>7 DEF Activate, Goto, InRun, Owns
  <2>3. ASSUME NEW n \in Level, pc'[n] = "deactivate"
        PROVE  /\ ~(\A k \in Level : k > n => ~(InRun(k))')
               /\ \A k \in Level : (FirstInRun(n + 1, k))' =>
                                     savedPriority'[k] = savedPriority'[n]
    <3>1. n < m /\ pc[n] = "deactivate" /\ savedPriority'[n] = savedPriority[n]
      BY <1>0, <2>1, <2>2, <2>3
    <3>2. ASSUME NEW k \in Level, (FirstInRun(n + 1, k))'
          PROVE  savedPriority'[k] = savedPriority[n]
      <4>1. CASE k = m
        <5>1. \A j \in Level : j > n => ~InRun(j)
          BY <1>0, <2>1, <2>2, <3>2, <4>1 DEF FirstInRun
        <5>2. QED
          BY <1>0, <2>1, <3>1, <4>1, <5>1 DEF RestoredInv
      <4>2. CASE k # m
        <5>1. FirstInRun(n + 1, k) /\ savedPriority'[k] = savedPriority[k]
          BY <1>0, <2>1, <2>2, <3>2, <4>2 DEF FirstInRun
        <5>2. QED
          BY <3>1, <5>1 DEF RestoredInv
      <4>3. QED
        BY <4>1, <4>2
    <3>3. QED
      BY <1>0, <2>2, <3>1, <3>2
  <2>4. QED
    BY <2>3 DEF RestoredInv
<1>8. ASSUME NEW m \in Level, Deactivate(m) PROVE RestoredInv'
  <2>1. /\ savedPriority' = [savedPriority EXCEPT ![m] = 0]
        /\ activePriority' = activePriority /\ pc[m] = "deactivate"
        /\ \A k \in Level : k > m => pc[k] = "idle" /\ ~InRun(k)
    BY <1>0, <1>8 DEF Deactivate, Goto, Top, InRun, Owns
  <2>2. /\ InRun(m) /\ ~(InRun(m))' /\ pc'[m] = "task"
        /\ \A k \in Level : k # m => ((InRun(k))' <=> InRun(k))
        /\ \A k \in Level : pc'[k] = "deactivate" => pc[k] = "deactivate"
    BY <1>0, <1>8 DEF Deactivate, Goto, InRun, Owns
  <2>3. activePriority = savedPriority[m]
    BY <2>1 DEF RestoredInv
  <2>4. ASSUME NEW n \in Level, pc'[n] = "deactivate"
        PROVE  /\ (\A k \in Level : k > n => ~(InRun(k))') =>
                    activePriority' = savedPriority'[n]
               /\ \A k \in Level : (FirstInRun(n + 1, k))' =>
                                     savedPriority'[k] = savedPriority'[n]
    <3>1. n < m /\ pc[n] = "deactivate" /\ savedPriority'[n] = savedPriority[n]
      BY <1>0, <2>1, <2>2, <2>4
    <3>2. ASSUME \A k \in Level : k > n => ~(InRun(k))'
          PROVE  activePriority' = savedPriority[n]
      <4>1. FirstInRun(n + 1, m)
        BY <1>0, <2>2, <3>1, <3>2 DEF FirstInRun
      <4>2. QED
        BY <2>1, <2>3, <3>1, <4>1 DEF RestoredInv
    <3>3. ASSUME NEW k \in Level, (FirstInRun(n + 1, k))'
          PROVE  savedPriority'[k] = savedPriority[n]
      <4>1. k < m
        BY <1>0, <2>1, <2>2, <3>3 DEF FirstInRun
      <4>2. FirstInRun(n + 1, k) /\ savedPriority'[k] = savedPriority[k]
        BY <1>0, <2>1, <2>2, <3>3, <4>1 DEF FirstInRun
      <4>3. QED
        BY <3>1, <4>2 DEF RestoredInv
    <3>4. QED
      BY <3>1, <3>2, <3>3
  <2>5. QED
    BY <2>4 DEF RestoredInv
<1>9. QED
  BY <1>2, <1>3, <1>4, <1>5, <1>6, <1>7, <1>8 DEF Next, LevelStep

\* A pass keeps what may run at its decisions: the levels that interrupt it, and its
\* own callbacks, restore the record of the active callback.
LEMMA MayRunKept ==
  ASSUME TypeInv, RestoredInv, NEW m \in Level, LevelStep(m),
         NEW l \in Level, pc[l] # "idle", NEW p \in Prio, (MayRunAt(l, p))'
  PROVE  MayRunAt(l, p)
<1>0. /\ pc \in [Level -> Steps] /\ savedPriority \in [Level -> Prio] /\ Level \subseteq Int
      /\ savedActive \in [Level -> BOOLEAN] /\ Prio \subseteq Int
  BY ConstantFacts DEF TypeInv, TypeOK
<1>1. ASSUME \A k \in Level : (InRun(k))' <=> InRun(k),
             savedActive' = savedActive, savedPriority' = savedPriority,
             \/ UNCHANGED <<active, activePriority>>
             \/ l <= m /\ InRun(m)
      PROVE  MayRunAt(l, p)
  BY <1>1 DEF MayRunAt, FirstInRun, PriorityCanRunNow
<1>2. CASE \/ BeginPass(m) \/ EndPass(m) \/ EnterPriority(m) \/ SkipPriority(m)
           \/ SkipTask(m) \/ SelectTask(m) \/ EndTasks(m) \/ Reschedule(m)
           \/ StartCallback(m) \/ EndCallback(m)
  <2>1. UNCHANGED <<active, activePriority, savedActive, savedPriority>>
    BY <1>2
    DEF BeginPass, EndPass, EnterPriority, SkipPriority, SkipTask, SelectTask, EndTasks,
        Reschedule, StartCallback, EndCallback, scheduler, saved
  <2>2. ASSUME NEW k \in Level PROVE (InRun(k))' <=> InRun(k)
    BY <1>0, <1>2
    DEF BeginPass, EndPass, EnterPriority, SkipPriority, SkipTask, SelectTask, EndTasks,
        Reschedule, StartCallback, EndCallback, Goto, Top, InRun, Owns
  <2>3. QED
    BY <1>1, <2>1, <2>2
<1>3. CASE Prioritise(m) \/ Deprioritise(m)
  <2>1. UNCHANGED <<savedActive, savedPriority>> /\ InRun(m)
        /\ \A k \in Level : k > m => pc[k] = "idle"
    BY <1>3 DEF Prioritise, Deprioritise, Goto, Top, saved, InRun, Owns
  <2>2. l <= m
    BY <1>0, <2>1
  <2>3. ASSUME NEW k \in Level PROVE (InRun(k))' <=> InRun(k)
    BY <1>0, <1>3 DEF Prioritise, Deprioritise, Goto, Top, InRun, Owns
  <2>4. QED
    BY <1>1, <2>1, <2>2, <2>3
<1>4. CASE Activate(m)
  <2>1. /\ savedPriority' = [savedPriority EXCEPT ![m] = activePriority]
        /\ savedActive' = [savedActive EXCEPT ![m] = active]
        /\ pc[m] = "activate" /\ ~InRun(m) /\ (InRun(m))'
        /\ \A k \in Level : k > m => pc[k] = "idle" /\ ~InRun(k)
        /\ \A k \in Level : k # m => ((InRun(k))' <=> InRun(k))
    BY <1>0, <1>4 DEF Activate, Goto, Top, InRun, Owns
  <2>2. l <= m
    BY <1>0, <2>1
  <2>3. ASSUME \A k \in Level : l <= k => ~InRun(k) PROVE PriorityCanRunNow(p)
    <3>1. (FirstInRun(l, m))'
      BY <1>0, <2>1, <2>2, <2>3 DEF FirstInRun
    <3>2. ~savedActive'[m] \/ p < savedPriority'[m]
      BY <3>1 DEF MayRunAt
    <3>3. QED
      BY <1>0, <2>1, <3>2 DEF PriorityCanRunNow
  <2>4. ASSUME NEW k \in Level, FirstInRun(l, k) PROVE ~savedActive[k] \/ p < savedPriority[k]
    <3>1. k # m /\ k < m
      BY <1>0, <2>1, <2>4 DEF FirstInRun
    <3>2. (FirstInRun(l, k))'
      BY <1>0, <2>1, <2>4, <3>1 DEF FirstInRun
    <3>3. QED
      BY <1>0, <2>1, <3>1, <3>2 DEF MayRunAt
  <2>5. QED
    BY <2>3, <2>4 DEF MayRunAt
<1>5. CASE Deactivate(m)
  <2>1. /\ savedPriority' = [savedPriority EXCEPT ![m] = 0]
        /\ savedActive' = [savedActive EXCEPT ![m] = FALSE]
        /\ active' = savedActive[m] /\ activePriority' = activePriority
        /\ pc[m] = "deactivate" /\ InRun(m) /\ ~(InRun(m))'
        /\ \A k \in Level : k > m => pc[k] = "idle" /\ ~InRun(k)
        /\ \A k \in Level : k # m => ((InRun(k))' <=> InRun(k))
    BY <1>0, <1>5 DEF Deactivate, Goto, Top, InRun, Owns
  <2>2. l <= m
    BY <1>0, <2>1
  <2>3. activePriority = savedPriority[m]
    BY <2>1 DEF RestoredInv
  <2>4. ~(\A k \in Level : l <= k => ~InRun(k))
    BY <2>1, <2>2
  <2>5. ASSUME NEW k \in Level, FirstInRun(l, k) PROVE ~savedActive[k] \/ p < savedPriority[k]
    <3>1. k <= m
      BY <1>0, <2>1, <2>5 DEF FirstInRun
    <3>2. CASE k = m
      <4>1. \A j \in Level : l <= j => ~(InRun(j))'
        BY <1>0, <2>1, <2>5, <3>2 DEF FirstInRun
      <4>2. ~active' \/ p < activePriority'
        BY <4>1 DEF MayRunAt, PriorityCanRunNow
      <4>3. QED
        BY <2>1, <2>3, <3>2, <4>2
    <3>3. CASE k # m
      <4>1. (FirstInRun(l, k))'
        BY <1>0, <2>1, <2>5, <3>1, <3>3 DEF FirstInRun
      <4>2. QED
        BY <1>0, <2>1, <3>3, <4>1 DEF MayRunAt
    <3>4. QED
      BY <3>2, <3>3
  <2>6. QED
    BY <2>4, <2>5 DEF MayRunAt
<1>6. QED
  BY <1>2, <1>3, <1>4, <1>5 DEF LevelStep

\* Where a level decides, what may run at its decisions is what may run now.
LEMMA MayRunNow ==
  ASSUME TypeInv, NEW m \in Level, Top(m), ~InRun(m), NEW p
  PROVE  MayRunAt(m, p) <=> PriorityCanRunNow(p)
<1>1. Level \subseteq Int
  BY ConstantFacts
<1>2. \A k \in Level : m <= k => ~InRun(k)
  BY <1>1 DEF Top, InRun, Owns
<1>3. QED
  BY <1>2 DEF MayRunAt, FirstInRun

\* A task that may run now is not in progress below a level that has come to its
\* priority.
LEMMA MayRunIsIdle ==
  ASSUME TypeInv, IInv, NEW m \in Level, Top(m), pc[m] = "task", NEW t \in Task,
         Priority[t] = pri[m]
  PROVE  ~running[t]
<1>0. Level \subseteq Int /\ Priority[t] \in Int
  <2>1. Priority[t] \in Prio /\ Prio \subseteq Nat /\ Level \subseteq Int
    BY ConstantFacts
  <2>2. Priority[t] \in Nat
    BY <2>1
  <2>3. QED
    BY <2>1, <2>2
<1> SUFFICES ASSUME NEW k \in Level, InCallback(k), idx[k] = t PROVE FALSE
  BY DEF IInv, RunningInv
<1>1. k < m
  BY <1>0 DEF Top, InCallback
<1>2. pri[m] < Priority[idx[k]]
  BY <1>1 DEF IInv, ChoiceInv, Owns, Chose, InCallback
<1>3. QED
  BY <1>0, <1>2

\* What the passes have left behind stays not due: a pass moves past a task that
\* may run only when it is not due or has just been rescheduled.
LEMMA NextServedInv ==
  TypeInv /\ IInv /\ SampleInv /\ RestoredInv /\ ServedInv /\ [Next]_vars => ServedInv'
<1> SUFFICES ASSUME TypeInv, IInv, SampleInv, RestoredInv, ServedInv, [Next]_vars,
                    NEW l \in Level, NEW t \in Task,
                    pc'[l] # "idle", (Passed(l, t))', (MayRunAt(l, Priority[t]))',
                    Enabled[t], TaskIsPreemptive(t) = (l # 0), Period[t] > 0
             PROVE  (~Due(l, t))'
  BY DEF ServedInv, TaskIsPreemptive
<1>0. /\ pc \in [Level -> Steps] /\ nextRun \in [Task -> Clock] /\ sample \in [Level -> Clock]
      /\ idx \in [Level -> 1..(TaskCount + 1)] /\ pri \in [Level -> 0..(LowestPriority + 1)]
      /\ Level \subseteq Int
  BY ConstantFacts DEF TypeInv, TypeOK
<1>a. Priority[t] \in Prio /\ Priority[t] \in Nat
  <2>1. Priority[t] \in Prio /\ Prio \subseteq Nat
    BY ConstantFacts
  <2>2. QED
    BY <2>1
<1>b. t \in 1..TaskCount /\ TaskCount \in Nat
  BY TaskCountAssumption DEF Task
<1>1. ASSUME pc[l] # "idle", Passed(l, t), MayRunAt(l, Priority[t]),
             nextRun'[t] = nextRun[t], sample'[l] = sample[l]
      PROVE  (~Due(l, t))'
  <2>1. ~Due(l, t)
    BY <1>1 DEF ServedInv
  <2>2. QED
    BY <1>1, <2>1 DEF Due
<1>2. CASE UNCHANGED vars
  BY <1>1, <1>2
  DEF vars, loop, scheduler, saved, Passed, MayRunAt, FirstInRun, InRun, Owns,
      PriorityCanRunNow
<1>3. CASE Tick
  BY <1>1, <1>3
  DEF Tick, loop, scheduler, saved, Passed, MayRunAt, FirstInRun, InRun, Owns,
      PriorityCanRunNow
<1>4. ASSUME NEW m \in Level, LevelStep(m) PROVE (~Due(l, t))'
  <2>1. ASSUME pc[l] # "idle" PROVE MayRunAt(l, Priority[t])
    BY <1>4, <1>a, <2>1, MayRunKept
  <2>2. CASE l # m
    <3>1. pc'[l] = pc[l] /\ pri'[l] = pri[l] /\ idx'[l] = idx[l] /\ sample'[l] = sample[l]
          /\ ((InRun(l))' <=> InRun(l))
      BY <1>0, <1>4, <2>2
      DEF LevelStep, BeginPass, EndPass, EnterPriority, SkipPriority, SkipTask, SelectTask,
          EndTasks, Reschedule, Activate, Prioritise, StartCallback, EndCallback,
          Deprioritise, Deactivate, Goto, loop, InRun, Owns
    <3>2. pc[l] # "idle" /\ Passed(l, t) /\ MayRunAt(l, Priority[t])
      BY <2>1, <3>1 DEF Passed
    <3>3. CASE nextRun'[t] = nextRun[t]
      BY <1>1, <3>1, <3>2, <3>3
    <3>4. CASE nextRun'[t] # nextRun[t]
      <4>1. Reschedule(m)
        BY <1>4, <3>4
        DEF LevelStep, BeginPass, EndPass, EnterPriority, SkipPriority, SkipTask,
            SelectTask, EndTasks, Activate, Prioritise, StartCallback, EndCallback,
            Deprioritise, Deactivate
      <4>2. idx[m] = t /\ nextRun'[t] = (sample[m] + Period[t]) % (2 * Half)
            /\ Top(m)
        BY <1>0, <3>4, <4>1 DEF Reschedule, Goto
      <4>3. l < m /\ pc[m] # "idle"
        BY <1>0, <2>2, <3>2, <4>2 DEF Top
      <4>4. Since(sample[m], sample[l]) <= MaxPass
        BY <3>2, <4>3 DEF SampleInv
      <4>5. sample[l] \in Clock /\ sample[m] \in Clock
        BY <1>0
      <4>6. ~(Since(sample[l], (sample[m] + Period[t]) % (2 * Half)) < Half)
        BY <4>4, <4>5, NotDueAgain
      <4>7. QED
        BY <3>1, <4>2, <4>6 DEF Due
    <3>5. QED
      BY <3>3, <3>4
  <2>3. CASE l = m
    <3>1. CASE BeginPass(m)
      <4>1. pri'[m] = 0 /\ pc'[m] = "priority"
        BY <1>0, <3>1 DEF BeginPass, SampleInv
      <4>2. QED
        BY <1>a, <2>3, <4>1 DEF Passed
    <3>2. CASE EndPass(m)
      BY <1>0, <2>3, <3>2 DEF EndPass, Goto
    <3>3. CASE EnterPriority(m)
      <4>1. /\ pc[m] = "priority" /\ pc'[m] = "task" /\ idx'[m] = 1
            /\ pri' = pri /\ nextRun' = nextRun /\ sample' = sample
        BY <1>0, <3>3 DEF EnterPriority, Goto
      <4>2. Passed(m, t)
        BY <1>b, <2>3, <4>1 DEF Passed, InRun, Owns
      <4>3. QED
        BY <1>1, <2>1, <2>3, <4>1, <4>2
    <3>4. CASE SkipPriority(m)
      <4>1. /\ pc[m] = "priority" /\ pc'[m] = "priority" /\ Top(m) /\ pri'[m] = pri[m] + 1
            /\ nextRun' = nextRun /\ sample' = sample /\ ~PriorityCanRunNow(pri[m])
        BY <1>0, <3>4 DEF SkipPriority, Goto
      <4>2. MayRunAt(m, Priority[t])
        BY <2>1, <2>3, <4>1
      <4>3. ~InRun(m)
        BY <4>1 DEF InRun, Owns
      <4>4. PriorityCanRunNow(Priority[t])
        BY <4>1, <4>2, <4>3, MayRunNow
      <4>5. Priority[t] # pri[m]
        BY <4>1, <4>4
      <4>6. Priority[t] < pri[m] + 1 /\ pri[m] \in Nat
        BY <1>0, <2>3, <4>1, PriorityAssumption DEF Passed
      <4>7. Passed(m, t)
        BY <1>a, <4>5, <4>6 DEF Passed
      <4>8. QED
        BY <1>1, <2>3, <4>1, <4>2, <4>7
    <3>5. CASE SkipTask(m)
      <4>1. /\ pc[m] = "task" /\ pc'[m] = "task" /\ Top(m) /\ idx'[m] = idx[m] + 1
            /\ pri' = pri /\ nextRun' = nextRun /\ sample' = sample
            /\ ~Ready(m, idx[m])
        BY <1>0, <3>5 DEF SkipTask, Goto
      <4>2. \/ Priority[t] < pri[m]
            \/ Priority[t] = pri[m] /\ t < idx[m] + 1
        BY <2>3, <4>1 DEF Passed, InRun, Owns
      <4>3. CASE Priority[t] = pri[m] /\ t = idx[m]
        <5>1. ~running[t]
          BY <4>1, <4>3, MayRunIsIdle
        <5>2. ~TimeHasArrived(sample[m], nextRun[t])
          BY <2>3, <4>1, <4>3, <5>1 DEF Ready, ReadyIgnoringContext
        <5>3. QED
          BY <2>3, <4>1, <5>2 DEF Due, TimeHasArrived
      <4>4. CASE ~(Priority[t] = pri[m] /\ t = idx[m])
        <5>1. Passed(m, t)
          BY <1>0, <1>b, <4>1, <4>2, <4>4 DEF Passed
        <5>2. QED
          BY <1>1, <2>1, <2>3, <4>1, <5>1
      <4>5. QED
        BY <4>3, <4>4
    <3>6. CASE SelectTask(m)
      <4>1. /\ pc[m] = "task" /\ pc'[m] = "reschedule" /\ idx' = idx
            /\ pri' = pri /\ nextRun' = nextRun /\ sample' = sample
        BY <1>0, <3>6 DEF SelectTask, Goto, loop
      <4>2. Passed(m, t)
        BY <2>3, <4>1 DEF Passed, InRun, Owns
      <4>3. QED
        BY <1>1, <2>1, <2>3, <4>1, <4>2
    <3>7. CASE EndTasks(m)
      <4>1. /\ pc[m] = "task" /\ pc'[m] = "priority" /\ idx[m] > TaskCount
            /\ pri'[m] = pri[m] + 1 /\ nextRun' = nextRun /\ sample' = sample
        BY <1>0, <3>7 DEF EndTasks, Goto
      <4>2. Priority[t] < pri[m] + 1 /\ pri[m] \in Nat /\ t < idx[m]
        BY <1>0, <1>b, <2>3, <4>1, PriorityAssumption DEF Passed
      <4>3. Passed(m, t)
        BY <1>a, <4>1, <4>2 DEF Passed
      <4>4. QED
        BY <1>1, <2>1, <2>3, <4>1, <4>3
    <3>8. CASE Reschedule(m)
      <4>1. /\ pc[m] = "reschedule" /\ pc'[m] = "activate" /\ idx' = idx /\ pri' = pri
            /\ sample' = sample
            /\ nextRun' = [nextRun EXCEPT ![idx[m]] =
                             (sample[m] + Period[idx[m]]) % (2 * Half)]
        BY <1>0, <3>8 DEF Reschedule, Goto, loop
      <4>2. CASE t = idx[m]
        <5>1. nextRun'[t] = (sample[m] + Period[t]) % (2 * Half)
          BY <1>0, <4>1, <4>2
        <5>2. sample[m] \in Clock /\ Since(sample[m], sample[m]) = 0
          BY <1>0, SinceIs DEF Clock
        <5>3. Since(sample[m], sample[m]) <= MaxPass
          BY <5>2, TimeAssumption
        <5>4. ~(Since(sample[m], (sample[m] + Period[t]) % (2 * Half)) < Half)
          BY <5>2, <5>3, NotDueAgain
        <5>5. QED
          BY <2>3, <4>1, <5>1, <5>4 DEF Due
      <4>3. CASE t # idx[m]
        <5>1. Passed(m, t) /\ nextRun'[t] = nextRun[t]
          BY <1>0, <2>3, <4>1, <4>3 DEF Passed, InRun, Owns
        <5>2. QED
          BY <1>1, <2>1, <2>3, <4>1, <5>1
      <4>4. QED
        BY <4>2, <4>3
    <3>9. CASE \/ Activate(m) \/ Prioritise(m) \/ StartCallback(m) \/ EndCallback(m)
               \/ Deprioritise(m)
      <4>1. /\ pc[m] # "idle" /\ pc[m] # "priority" /\ (InRun(m) \/ pc[m] = "activate")
            /\ idx' = idx /\ pri' = pri /\ nextRun' = nextRun /\ sample' = sample
        BY <1>0, <3>9
        DEF Activate, Prioritise, StartCallback, EndCallback, Deprioritise, Goto, loop,
            InRun, Owns
      <4>2. Passed(m, t)
        BY <2>3, <4>1 DEF Passed
      <4>3. QED
        BY <1>1, <2>1, <2>3, <4>1, <4>2
    <3>10. CASE Deactivate(m)
      <4>1. /\ pc[m] = "deactivate" /\ pc'[m] = "task" /\ InRun(m) /\ idx'[m] = idx[m] + 1
            /\ pri' = pri /\ nextRun' = nextRun /\ sample' = sample
        BY <1>0, <3>10 DEF Deactivate, Goto, InRun
      <4>2. \/ Priority[t] < pri[m]
            \/ Priority[t] = pri[m] /\ t < idx[m] + 1
        BY <2>3, <4>1 DEF Passed, InRun, Owns
      <4>3. Passed(m, t)
        BY <1>0, <1>b, <4>1, <4>2 DEF Passed
      <4>4. QED
        BY <1>1, <2>1, <2>3, <4>1, <4>3
    <3>11. QED
      BY <1>4, <3>1, <3>2, <3>3, <3>4, <3>5, <3>6, <3>7, <3>8, <3>9, <3>10 DEF LevelStep
  <2>4. QED
    BY <2>2, <2>3
<1>5. QED
  BY <1>2, <1>3, <1>4 DEF Next

\* When a pass has come to a priority it leaves no more urgent periodic task of its
\* context behind that may run and was due when the pass began
\* (runtime_scheduler_run_pass), whatever hooks interrupted it, and across a wrap of
\* the counter.
THEOREM PassServesInOrder == Spec => []ServedInPriorityOrder
<1>1. Init => SampleInv /\ RestoredInv /\ ServedInv
  BY InitOrderInv
<1>2. TypeInv /\ IInv /\ SampleInv /\ RestoredInv /\ ServedInv /\ [Next]_vars
        => (SampleInv /\ RestoredInv /\ ServedInv)'
  BY NextSampleInv, NextRestoredInv, NextServedInv
<1>3. TypeInv /\ ServedInv => ServedInPriorityOrder
  <2> SUFFICES ASSUME TypeInv, ServedInv, NEW l \in Level, Top(l), pc[l] = "priority",
                      NEW t \in Task, Enabled[t], TaskIsPreemptive(t) = (l # 0),
                      Priority[t] < pri[l], PriorityCanRunNow(Priority[t]), Period[t] > 0
               PROVE  ~Due(l, t)
    BY DEF ServedInPriorityOrder
  <2>1. MayRunAt(l, Priority[t])
    BY MayRunNow DEF InRun, Owns
  <2>2. QED
    BY <2>1 DEF ServedInv, Passed
<1>4. QED
  BY <1>1, <1>2, <1>3, TypeCorrect, Bookkeeping, PTL DEF Spec, TypeInv
=============================================================================
