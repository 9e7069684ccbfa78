---------------------------- MODULE TaskManager ----------------------------
(***************************************************************************)
(* The round robin scheduler: class TaskManager (src/src/multitasking.cpp).*)
(*                                                                         *)
(* The processor state of a task that does not run lies on the task's      *)
(* stack; cpustate[t] is the pointer to it.                                *)
(***************************************************************************)
EXTENDS Integers, Sequences

CONSTANTS
  Tasks,        \* the tasks that may be added
  MaxTasks      \* the length of TaskManager::tasks (256)

VARIABLES
  tasks,        \* tasks[0..numTasks-1], as a sequence
  currentTask,  \* the index of the task that runs, -1 before the first
  cpustate      \* where the state of each task is saved

taskVars == <<tasks, currentTask, cpustate>>

numTasks == Len(tasks)

TaskAt(i) == tasks[i + 1]

TaskInit(saved) ==
  /\ tasks = <<>>
  /\ currentTask = -1
  /\ cpustate = saved

(* A full array refuses the task. *)
AddTask(t) ==
  /\ tasks' = IF numTasks >= MaxTasks THEN tasks ELSE Append(tasks, t)
  /\ UNCHANGED <<currentTask, cpustate>>

ScheduleForgettingState(frame, next) ==
  \/ numTasks = 0 /\ next = frame /\ UNCHANGED taskVars
  \/ /\ numTasks > 0
     /\ cpustate' = cpustate
     /\ currentTask' = (currentTask + 1) % numTasks
     /\ next = cpustate'[tasks[currentTask' + 1]]
     /\ UNCHANGED tasks

ScheduleSkippingLast(frame, next) ==
  \/ numTasks = 0 /\ next = frame /\ UNCHANGED taskVars
  \/ /\ numTasks > 0
     /\ cpustate' = IF currentTask >= 0
                      THEN [cpustate EXCEPT ![TaskAt(currentTask)] = frame]
                      ELSE cpustate
     /\ currentTask' = IF currentTask + 1 >= numTasks - 1 THEN 0 ELSE currentTask + 1
     /\ next = cpustate'[tasks[currentTask' + 1]]
     /\ UNCHANGED tasks

ScheduleSavingKernel(frame, next) ==
  \/ numTasks = 0 /\ next = frame /\ UNCHANGED taskVars
  \/ /\ numTasks > 0
     /\ cpustate' = [cpustate EXCEPT ![TaskAt((currentTask + numTasks) % numTasks)] = frame]
     /\ currentTask' = (currentTask + 1) % numTasks
     /\ next = cpustate'[tasks[currentTask' + 1]]
     /\ UNCHANGED tasks

(* The interrupted task's state is at frame; the processor goes on with    *)
(* the one at next.  The first call has no current task to save.           *)
Schedule(frame, next) ==
  \/ numTasks = 0 /\ next = frame /\ UNCHANGED taskVars
  \/ /\ numTasks > 0
     /\ cpustate' = IF currentTask >= 0
                      THEN [cpustate EXCEPT ![TaskAt(currentTask)] = frame]
                      ELSE cpustate
     /\ currentTask' = (currentTask + 1) % numTasks
     /\ next = cpustate'[tasks[currentTask' + 1]]
     /\ UNCHANGED tasks

=============================================================================
