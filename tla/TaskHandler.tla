---------------------------- MODULE TaskHandler ----------------------------
(***************************************************************************)
(* The loop every device runs: TaskHandler initialises the tasks of a list *)
(* and gives each pass of loop() to one or two of them.  What the other    *)
(* modules assume of their run() functions - that each is called again and *)
(* again - rests on it.                                                    *)
(***************************************************************************)
EXTENDS Integers

CONSTANT
  TaskLists   \* template arguments, and the entries that are no nullptr

ASSUME TaskAssumption ==
  \A l \in TaskLists : /\ l.taskNum \in Nat \ {0}
                       /\ l.fullRoundRobin \in BOOLEAN
                       /\ l.tasks \subseteq 0..(l.taskNum - 1)

VARIABLES
  list,         \* the list of this device
  currentTask,
  looping,      \* setup() is over
  leftOut        \* passes since an entry was last served, or since the loop began

taskVars == <<list, currentTask, looping, leftOut>>

Entries == 0..(list.taskNum - 1)
NoneLeftOut == [i \in Entries |-> 0]

TaskInit ==
  /\ list \in TaskLists
  /\ currentTask = 0 /\ looping = FALSE
  /\ leftOut = NoneLeftOut

\* setup(): every task is initialised, also after one that failed; any failure
\* restarts the device.
initTasks ==
  /\ ~looping
  /\ \E failureMask \in SUBSET list.tasks : looping' = (failureMask = {})
  /\ UNCHANGED <<list, currentTask, leftOut>>

-----------------------------------------------------------------------------
singleTaskOnly == list.taskNum = 1

\* The entry that follows, full round-robin: from the last one back to the first.
followsInFull(current) == IF current + 1 >= list.taskNum THEN 0 ELSE current + 1

\* Mutant: the alternating entry starts over with the first, which runs anyway.
followsInPartialFromFirst(current) == IF current + 1 >= list.taskNum THEN 0 ELSE current + 1

\* The entry that follows, partial round-robin: back to the second, the first
\* being run in every pass.
followsInPartial(current) == IF current + 1 >= list.taskNum THEN 1 ELSE current + 1

serve(served) == leftOut' = [i \in Entries |-> IF i \in served THEN 0 ELSE leftOut[i] + 1]

runSingleTask ==
  /\ singleTaskOnly
  /\ serve({0})
  /\ UNCHANGED currentTask

runFullRoundRobin ==
  /\ ~singleTaskOnly /\ list.fullRoundRobin
  /\ serve({currentTask})
  /\ currentTask' = followsInFull(currentTask)

runPartialRoundRobin ==
  /\ ~singleTaskOnly /\ ~list.fullRoundRobin
  /\ currentTask' = followsInPartial(currentTask)
  /\ serve({0, currentTask'})

\* One pass of loop().  A nullptr is passed over in its turn; a task that fails
\* only shows in the mask, which loop() drops.
runTasks ==
  /\ looping
  /\ runSingleTask \/ runFullRoundRobin \/ runPartialRoundRobin
  /\ UNCHANGED <<list, looping>>

\* A task that does not come back leaves the watchdog unfed.
watchdogBites ==
  /\ looping
  /\ looping' = FALSE /\ currentTask' = 0 /\ leftOut' = NoneLeftOut
  /\ UNCHANGED list

TaskNext == initTasks \/ runTasks \/ watchdogBites

TaskSpec == TaskInit /\ [][TaskNext]_taskVars

-----------------------------------------------------------------------------
\* How many passes an entry may be left out in a row.
patience(i) ==
  IF list.fullRoundRobin \/ singleTaskOnly THEN list.taskNum - 1
  ELSE IF i = 0 THEN 0 ELSE list.taskNum - 2

\* No task is left out longer than the others need for one turn each, from the
\* first pass on and whichever tasks fail or are absent: the fairness the other
\* modules assume of their run() (runFullRoundRobin, runPartialRoundRobin).
EveryTaskServed == \A i \in Entries : leftOut[i] <= patience(i)
=============================================================================
