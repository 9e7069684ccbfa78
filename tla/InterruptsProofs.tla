-------------------------- MODULE InterruptsProofs --------------------------
(***************************************************************************)
(* Who runs, and that it goes on where it was left, for any set of tasks,  *)
(* interrupt lines and system calls and any number of switches.            *)
(***************************************************************************)
EXTENDS Interrupts, SequenceTheorems, TLAPS

(* The context that runs, or that the stub is about to return to.          *)
Owner == IF mode = "return" THEN esp[1] ELSE cpu.ctx

(* The scheduler knows who runs, and whose state it keeps for whom.        *)
SchedulerKnows ==
  /\ tasks \in Seq(Tasks)
  /\ currentTask \in -1..(Len(tasks) - 1)
  /\ cpustate = [t \in Tasks |-> cpustate[t]]
  /\ \A t \in Tasks : cpustate[t][1] = t
  /\ Owner = IF currentTask = -1 THEN Kernel ELSE tasks[currentTask + 1]

CpuWellFormed ==
  /\ cpu = [ctx |-> cpu.ctx, eip |-> cpu.eip, regs |-> cpu.regs]
  /\ mode \in {"run", "handle", "return"}
  /\ mode = "handle" => esp[1] = cpu.ctx

Ownership == SchedulerKnows /\ CpuWellFormed

(* The owner is a context.                                                 *)
LEMMA OwnerIsContext ==
  ASSUME Ownership
  PROVE  Owner \in Contexts /\ (Owner = Kernel <=> currentTask = -1)
BY InterruptsAssumption, SMT DEF Ownership, SchedulerKnows, Contexts

LEMMA InitOwnership == Init => Ownership
<1> SUFFICES ASSUME Init
             PROVE  Ownership
  OBVIOUS
<1>1. SchedulerKnows
  BY SMT DEF Init, TaskInit, SchedulerKnows, Owner
<1>2. CpuWellFormed
  BY SMT DEF Init, CpuWellFormed
<1> QED
  BY <1>1, <1>2 DEF Ownership

(* Nothing but the scheduler changes what it knows.                        *)
LEMMA SchedulerUntouched ==
  ASSUME SchedulerKnows, UNCHANGED taskVars, Owner' = Owner
  PROVE  SchedulerKnows'
BY Zenon DEF SchedulerKnows, taskVars

(* A turn of the round robin: the interrupted task is saved, the next one  *)
(* is the owner.                                                           *)
LEMMA ScheduleKnows ==
  ASSUME Ownership, mode = "handle", NEW next, Schedule(esp, next)
  PROVE  /\ tasks' \in Seq(Tasks) /\ currentTask' \in -1..(Len(tasks') - 1)
         /\ cpustate' = [t \in Tasks |-> cpustate'[t]]
         /\ \A t \in Tasks : cpustate'[t][1] = t
         /\ next[1] = IF currentTask' = -1 THEN Kernel ELSE tasks'[currentTask' + 1]
<1>1. CASE numTasks = 0
  BY <1>1, SMT DEF Ownership, SchedulerKnows, CpuWellFormed, Owner, Schedule, taskVars, numTasks
<1>2. CASE numTasks > 0
  <2>1. tasks' = tasks /\ tasks \in Seq(Tasks) /\ Len(tasks) \in Nat \ {0}
    BY <1>2, SMT DEF Ownership, SchedulerKnows, Schedule, numTasks
  <2>2. currentTask' \in 0..(Len(tasks) - 1)
    BY <1>2, <2>1, SMT DEF Ownership, SchedulerKnows, Schedule, numTasks
  <2>3. cpustate' = [t \in Tasks |-> cpustate'[t]] /\ \A t \in Tasks : cpustate'[t][1] = t
    BY <1>2, SMT DEF Ownership, SchedulerKnows, CpuWellFormed, Owner, Schedule, numTasks, TaskAt
  <2>4. next = cpustate'[tasks[currentTask' + 1]]
    BY <1>2, SMT DEF Schedule, numTasks
  <2>5. tasks[currentTask' + 1] \in Tasks
    BY <2>1, <2>2, SMT
  <2> QED
    BY <2>1, <2>2, <2>3, <2>4, <2>5, SMT
<1> QED
  BY <1>1, <1>2, SMT DEF Ownership, SchedulerKnows, numTasks

LEMMA EnterKeepsOwner ==
  ASSUME Ownership, NEW v, mode = "run", Enter(v)
  PROVE  Ownership' /\ cpu' = cpu
<1>1. UNCHANGED <<taskVars, cpu>> /\ mode' = "handle" /\ esp'[1] = cpu.ctx
  BY SMT DEF Enter
<1>2. Owner' = Owner
  BY <1>1, SMT DEF Owner
<1>3. SchedulerKnows'
  BY <1>1, <1>2, SchedulerUntouched DEF Ownership
<1>4. CpuWellFormed'
  BY <1>1, SMT DEF Ownership, CpuWellFormed
<1> QED
  BY <1>1, <1>3, <1>4 DEF Ownership

LEMMA HandleKeepsOwner ==
  ASSUME Ownership, HandleInterrupt
  PROVE  Ownership' /\ cpu' = cpu
<1>1. mode = "handle" /\ mode' = "return" /\ cpu' = cpu
  BY Zenon DEF HandleInterrupt
<1>2. CpuWellFormed'
  BY <1>1, SMT DEF Ownership, CpuWellFormed
<1>3. SchedulerKnows'
  <2>1. CASE UNCHANGED taskVars /\ esp' = esp
    <3>1. Owner' = Owner
      BY <1>1, <2>1, SMT DEF Owner, Ownership, CpuWellFormed
    <3> QED
      BY <2>1, <3>1, SchedulerUntouched DEF Ownership
  <2>2. CASE Schedule(esp, esp')
    <3>1. Owner' = esp'[1]
      BY <1>1, SMT DEF Owner
    <3> QED
      BY <1>1, <2>2, <3>1, ScheduleKnows, Zenon DEF SchedulerKnows
  <2> QED
    BY <2>1, <2>2, Zenon DEF HandleInterrupt, DoHandleInterrupt
<1> QED
  BY <1>1, <1>2, <1>3 DEF Ownership

LEMMA ReturnKeepsOwner ==
  ASSUME Ownership, Return
  PROVE  Ownership' /\ cpu'.ctx = Owner
<1>1. /\ mode = "return" /\ mode' = "run"
      /\ cpu' = [ctx |-> esp[1], regs |-> Popped(0), eip |-> Popped(2)]
      /\ UNCHANGED taskVars
  BY Zenon DEF Return
<1>2. Owner' = Owner /\ cpu'.ctx = Owner
  BY <1>1, SMT DEF Owner
<1>3. SchedulerKnows'
  BY <1>1, <1>2, SchedulerUntouched DEF Ownership
<1>4. CpuWellFormed'
  BY <1>1, SMT DEF CpuWellFormed
<1> QED
  BY <1>2, <1>3, <1>4 DEF Ownership

(* Everything else is done by a context that goes on running.              *)
LEMMA OthersKeepOwner ==
  ASSUME Ownership, UNCHANGED <<taskVars, mode, esp>>,
         cpu' = [ctx |-> cpu.ctx, eip |-> cpu'.eip, regs |-> cpu'.regs]
  PROVE  Ownership' /\ cpu'.ctx = cpu.ctx
<1>1. cpu'.ctx = cpu.ctx
  BY SMT
<1>2. Owner' = Owner
  BY <1>1, SMT DEF Owner
<1>3. SchedulerKnows'
  BY <1>2, SchedulerUntouched DEF Ownership
<1>4. CpuWellFormed'
  BY <1>1, SMT DEF Ownership, CpuWellFormed
<1> QED
  BY <1>1, <1>3, <1>4 DEF Ownership

(* A task added at boot comes behind the others.                           *)
LEMMA BootTaskKeepsOwner ==
  ASSUME Ownership, NEW t \in Tasks, BootTask(t)
  PROVE  Ownership' /\ cpu' = cpu
<1>1. UNCHANGED <<cpu, mode, esp, currentTask, cpustate>>
  BY Zenon DEF BootTask, AddTask, cpuVars
<1>2. tasks' = tasks \/ tasks' = Append(tasks, t)
  BY Zenon DEF BootTask, AddTask
<1>3. SchedulerKnows'
  <2>1. tasks \in Seq(Tasks) /\ t \in Tasks /\ currentTask \in -1..(Len(tasks) - 1)
    BY Zenon DEF Ownership, SchedulerKnows
  <2>2. /\ tasks' \in Seq(Tasks) /\ currentTask \in -1..(Len(tasks') - 1)
        /\ currentTask # -1 => tasks'[currentTask + 1] = tasks[currentTask + 1]
    <3>1. CASE tasks' = tasks
      BY <2>1, <3>1
    <3>2. CASE tasks' = Append(tasks, t)
      BY <2>1, <3>2, SMTT(40)
    <3> QED
      BY <1>2, <3>1, <3>2
  <2>3. Owner' = Owner
    BY <1>1, Zenon DEF Owner
  <2> QED
    BY <1>1, <2>2, <2>3, Zenon DEF Ownership, SchedulerKnows
<1>4. CpuWellFormed'
  BY <1>1, SMT DEF Ownership, CpuWellFormed
<1> QED
  BY <1>1, <1>3, <1>4 DEF Ownership

(* A step keeps the invariant; and unless it is a return, who runs.        *)
LEMMA NextOwnership ==
  ASSUME Ownership, [Next]_vars
  PROVE  Ownership' /\ (cpu'.ctx = cpu.ctx \/ (mode = "return" /\ cpu'.ctx = Owner))
<1>1. CASE Device
  <2>1. UNCHANGED <<taskVars, cpu, mode, esp>>
    BY <1>1, Zenon DEF Device, cpuVars
  <2> QED
    BY <2>1, OthersKeepOwner, Zenon DEF Ownership, CpuWellFormed
<1>2. CASE Interrupt
  BY <1>2, EnterKeepsOwner, Zenon DEF Interrupt
<1>3. CASE HandleInterrupt
  BY <1>3, HandleKeepsOwner, Zenon
<1>4. CASE Return
  BY <1>4, ReturnKeepsOwner, Zenon DEF Return
<1>5. ASSUME NEW x \in Contexts, Execute(x)
      PROVE  Ownership' /\ cpu'.ctx = cpu.ctx
  <2>1. UNCHANGED <<taskVars, mode, esp>>
    BY <1>5, Zenon DEF Execute
  <2>2. cpu' = [ctx |-> cpu.ctx, eip |-> Following(cpu.eip), regs |-> Following(cpu.regs)]
    BY <1>5, Zenon DEF Execute, Running
  <2>3. cpu' = [ctx |-> cpu.ctx, eip |-> cpu'.eip, regs |-> cpu'.regs]
    BY <2>2, SMT
  <2> QED
    BY <2>1, <2>3, OthersKeepOwner, Zenon
<1>6. ASSUME NEW x \in Contexts, SystemCall(x)
      PROVE  Ownership' /\ cpu' = cpu
  BY <1>6, EnterKeepsOwner, Zenon DEF SystemCall, Running
<1>7. ASSUME NEW x \in Contexts, NEW v \in Exceptions, Exception(x, v)
      PROVE  Ownership' /\ cpu' = cpu
  BY <1>7, EnterKeepsOwner, Zenon DEF Exception, Running
<1>8. ASSUME NEW t \in Tasks, BootTask(t)
      PROVE  Ownership' /\ cpu' = cpu
  BY <1>8, BootTaskKeepsOwner
<1>9. CASE CallActivate \/ DisableInterrupts \/ Activate \/ UNCHANGED vars
  <2>1. UNCHANGED <<taskVars, cpu, mode, esp>>
    BY <1>9, Zenon DEF CallActivate, DisableInterrupts, Activate, cpuVars, vars
  <2> QED
    BY <2>1, OthersKeepOwner, Zenon DEF Ownership, CpuWellFormed
<1> QED
  BY <1>1, <1>2, <1>3, <1>4, <1>5, <1>6, <1>7, <1>8, <1>9, Zenon DEF Next

(* At every step of the stub and the scheduler the processor and every      *)
(* pointer the scheduler keeps belong to the context they are taken for.    *)
THEOREM OwnershipHolds == Spec => []Ownership
<1>1. Ownership /\ [Next]_vars => Ownership'
  BY NextOwnership
<1> QED
  BY InitOwnership, <1>1, PTL DEF Spec

(* After the first turn of the round robin there is always a current task. *)
TaskIsCurrent == cpu.ctx # Kernel => currentTask # -1

LEMMA NextTaskIsCurrent ==
  ASSUME Ownership, TaskIsCurrent, [Next]_vars
  PROVE  TaskIsCurrent' /\ (cpu.ctx # Kernel => cpu'.ctx # Kernel)
<1>1. currentTask # -1 => currentTask' # -1
  <2>1. CASE currentTask' = currentTask
    BY <2>1
  <2>2. CASE HandleInterrupt
    <3>1. CASE Schedule(esp, esp')
      BY <3>1, SMT DEF Schedule, taskVars, numTasks, Ownership, SchedulerKnows
    <3>2. CASE UNCHANGED taskVars
      BY <3>2, Zenon DEF taskVars
    <3> QED
      BY <2>2, <3>1, <3>2, Zenon DEF HandleInterrupt, DoHandleInterrupt
  <2> QED
    BY <2>1, <2>2, Zenon
       DEF Next, Device, Interrupt, Enter, Return, Execute, SystemCall, Exception, BootTask,
           AddTask, CallActivate, DisableInterrupts, Activate, vars, taskVars
<1>2. cpu'.ctx = cpu.ctx \/ cpu'.ctx = Owner
  BY NextOwnership, Zenon
<1>3. Owner # Kernel <=> currentTask # -1
  BY OwnerIsContext, Zenon
<1> QED
  BY <1>1, <1>2, <1>3, NextOwnership, Zenon DEF TaskIsCurrent, Owner

(* Once a task runs, the processor never comes back to kernelMain: its     *)
(* state is saved nowhere, and the scheduler only gives out the states of  *)
(* tasks.                                                                  *)
THEOREM KernelIsNeverResumed == Spec => KernelNeverResumed
<1>1. Init => TaskIsCurrent
  BY SMT DEF Init, TaskIsCurrent
<1>2. Ownership /\ TaskIsCurrent /\ [Next]_vars =>
        TaskIsCurrent' /\ [cpu.ctx # Kernel => cpu'.ctx # Kernel]_vars
  BY NextTaskIsCurrent, Zenon
<1> QED
  BY OwnershipHolds, <1>1, <1>2, PTL DEF Spec, KernelNeverResumed

-----------------------------------------------------------------------------
(* The stacks.  What Enter leaves on the stack of a context that has       *)
(* executed n instructions.                                                *)

Frame(flag, error, n) ==
  <<Word("eflags", flag), Word("cs", 0), Word("eip", n), error, Word("regs", n)>>

(* Context x waits, with its state d words up its stack.                   *)
Suspended(x, d) ==
  \E flag \in {0, 1}, error \in Words :
    /\ stack[x] = Locals(done[x]) \o Frame(flag, error, done[x])
    /\ d = Len(Locals(done[x])) + 5
    /\ x # Kernel => flag = 1

StacksTyped ==
  /\ irr \subseteq Lines
  /\ done \in [Contexts -> 0..(Turns - 1)]
  /\ stack = [x \in Contexts |-> stack[x]]

RunsWhereLeft ==
  mode = "run" =>
    /\ cpu.eip = Word("eip", done[cpu.ctx]) /\ cpu.regs = Word("regs", done[cpu.ctx])
    /\ stack[cpu.ctx] = Locals(done[cpu.ctx])
    /\ cpu.ctx # Kernel => IF1

OwnerSuspended == mode # "run" => Suspended(Owner, esp[2])

OthersSuspended == \A t \in Tasks \ {Owner} : Suspended(t, cpustate[t][2])

Stacks == StacksTyped /\ RunsWhereLeft /\ OwnerSuspended /\ OthersSuspended

(* Local words and frames, word by word.                                   *)
LEMMA StackParts ==
  ASSUME NEW n \in Nat, NEW flag \in {0, 1}, NEW error \in Words
  PROVE  /\ Locals(n) \in Seq(Words) /\ Len(Locals(n)) \in {0, 1}
         /\ Frame(flag, error, n) \in Seq(Words) /\ Len(Frame(flag, error, n)) = 5
         /\ Frame(flag, error, n)[1] = Word("eflags", flag)
         /\ Frame(flag, error, n)[3] = Word("eip", n)
         /\ Frame(flag, error, n)[5] = Word("regs", n)
<1> DEFINE a == Word("eflags", flag)
           b == Word("cs", 0)
           c == Word("eip", n)
           r == Word("regs", n)
           l == Word("local", 0)
<1>1. Frame(flag, error, n) = <<a, b, c, error, r>>
  BY DEF Frame
<1>2. Locals(n) = <<l>> \/ Locals(n) = << >>
  BY DEF Locals
<1>3. {a, b, c, r, l} \subseteq Words
  BY SMT DEF Word, Words
<1> HIDE DEF a, b, c, r, l
<1>4. <<a, b, c, error, r>> \in Seq(Words)
  BY <1>3, SMT
<1>5. Locals(n) \in Seq(Words) /\ Len(Locals(n)) \in {0, 1}
  <2>1. CASE Locals(n) = <<l>>
    <3>1. <<l>> \in Seq(Words) /\ Len(<<l>>) = 1
      BY <1>3, SMT
    <3> QED
      BY <2>1, <3>1, Zenon
  <2>2. CASE Locals(n) = << >>
    BY <2>2, EmptySeq, Zenon
  <2> QED
    BY <1>2, <2>1, <2>2
<1> QED
  BY <1>1, <1>4, <1>5, SMT DEF a, c, r

(* A frame on top of a stack.                                              *)
OnTop(s, n, flag) ==
  /\ Len(s) = Len(Locals(n)) + 5
  /\ SubSeq(s, 1, Len(s) - 5) = Locals(n)
  /\ s[Len(s)] = Word("regs", n)
  /\ s[Len(s) - 2] = Word("eip", n)
  /\ s[Len(s) - 4] = Word("eflags", flag)
  /\ {Len(s), Len(s) - 2, Len(s) - 4} \subseteq DOMAIN s

LEMMA FrameOnTop ==
  ASSUME NEW n \in Nat, NEW flag \in {0, 1}, NEW error \in Words, NEW s,
         s = Locals(n) \o Frame(flag, error, n)
  PROVE  OnTop(s, n, flag)
<1> DEFINE l == Locals(n)
           t == Frame(flag, error, n)
<1>1. /\ l \in Seq(Words) /\ Len(l) \in {0, 1}
      /\ t \in Seq(Words) /\ Len(t) = 5
      /\ t[1] = Word("eflags", flag) /\ t[3] = Word("eip", n) /\ t[5] = Word("regs", n)
  BY StackParts, Zenon
<1>2. s = l \o t
  OBVIOUS
<1> HIDE DEF l, t
<1>3. /\ s \in Seq(Words) /\ Len(s) = Len(l) + 5
      /\ \A i \in 1..Len(l) + 5 : s[i] = IF i <= Len(l) THEN l[i] ELSE t[i - Len(l)]
  <2>1. /\ l \o t \in Seq(Words) /\ Len(l \o t) = Len(l) + Len(t)
        /\ \A i \in 1..Len(l) + Len(t) : (l \o t)[i] = IF i <= Len(l) THEN l[i] ELSE t[i - Len(l)]
    BY <1>1, ConcatProperties, Zenon
  <2> QED
    BY <1>1, <1>2, <2>1
<1>4. SubSeq(s, 1, Len(l)) = l
  <2>1. CASE Len(l) = 0
    <3>1. l = << >>
      BY <1>1, <2>1, EmptySeq, SMT
    <3>2. SubSeq(s, 1, Len(l)) = << >>
      BY <2>1, SubSeqEmpty, SMT
    <3> QED
      BY <3>1, <3>2
  <2>2. CASE Len(l) = 1
    <3>1. SubSeq(s, 1, Len(l)) = SubSeq(l, 1, Len(l))
      <4>1. 1 \in 1..Len(l) /\ Len(l) \in 1..Len(l)
        BY <2>2, SMT
      <4> QED
        BY <1>1, <1>2, <4>1, SubSeqOfConcat1
    <3> QED
      BY <1>1, <3>1, SubSeqFull, Zenon
  <2> QED
    BY <1>1, <2>1, <2>2, Zenon
<1>5. s[Len(s)] = t[5] /\ s[Len(s) - 2] = t[3] /\ s[Len(s) - 4] = t[1]
  <2>1. \A k \in {1, 3, 5} : s[Len(l) + k] = t[k]
    <3> SUFFICES ASSUME NEW k \in {1, 3, 5}
                 PROVE  s[Len(l) + k] = t[k]
      BY Zenon
    <3>1. Len(l) + k \in 1..Len(l) + 5 /\ ~(Len(l) + k <= Len(l)) /\ (Len(l) + k) - Len(l) = k
      BY <1>1, SMT
    <3> QED
      BY <1>3, <3>1, Zenon
  <2>2. Len(s) = Len(l) + 5 /\ Len(s) - 2 = Len(l) + 3 /\ Len(s) - 4 = Len(l) + 1
    BY <1>1, <1>3, SMT
  <2> QED
    BY <2>1, <2>2, Zenon
<1>6. {Len(s), Len(s) - 2, Len(s) - 4} \subseteq DOMAIN s
  BY <1>1, <1>3, SMT
<1>7. Len(s) - 5 = Len(l)
  BY <1>1, <1>3, SMT
<1> QED
  BY <1>1, <1>3, <1>4, <1>5, <1>6, <1>7 DEF l, OnTop

(* Pushing a frame one part after the other.                               *)
LEMMA FramePushed ==
  ASSUME NEW n \in Nat, NEW flag, NEW error
  PROVE  Locals(n) \o <<Word("eflags", flag), Word("cs", 0), Word("eip", n)>>
                   \o <<error>> \o <<Word("regs", n)>>
           = Locals(n) \o Frame(flag, error, n)
<1> DEFINE a == Word("eflags", flag)
           b == Word("cs", 0)
           c == Word("eip", n)
           r == Word("regs", n)
           l == Word("local", 0)
<1>1. Frame(flag, error, n) = <<a, b, c, error, r>>
  BY DEF Frame
<1>2. Locals(n) = <<l>> \/ Locals(n) = << >>
  BY DEF Locals
<1> HIDE DEF a, b, c, r, l
<1>3. Locals(n) \o <<a, b, c>> \o <<error>> \o <<r>> = Locals(n) \o <<a, b, c, error, r>>
  BY <1>2, SMT
<1> QED
  BY <1>1, <1>3, Zenon DEF a, b, c, r

(* A context whose stack and count stay is as suspended as it was.         *)
LEMMA StaysSuspended ==
  ASSUME NEW x, NEW d, Suspended(x, d), stack'[x] = stack[x], done'[x] = done[x]
  PROVE  Suspended(x, d)'
BY Zenon DEF Suspended

(* If nothing moves on any stack and the same context runs, all stays.     *)
LEMMA StacksUntouched ==
  ASSUME Ownership, Stacks, UNCHANGED <<stack, done, mode, esp, cpu, cpustate>>,
         irr' \subseteq Lines, mode = "run" /\ cpu.ctx # Kernel => IF1'
  PROVE  Stacks'
<1>1. Owner' = Owner
  BY Zenon DEF Owner
<1>2. StacksTyped' /\ RunsWhereLeft'
  BY SMT DEF Stacks, StacksTyped, RunsWhereLeft
<1>3. OwnerSuspended'
  BY <1>1, Zenon DEF Stacks, OwnerSuspended, Suspended
<1>4. OthersSuspended'
  BY <1>1, Zenon DEF Stacks, OthersSuspended, Suspended
<1> QED
  BY <1>2, <1>3, <1>4 DEF Stacks

LEMMA InitStacks == Init => Stacks
<1> SUFFICES ASSUME Init
             PROVE  Stacks
  OBVIOUS
<1>1. Locals(0) = << >>
  BY SMT DEF Locals
<1>2. StacksTyped
  BY InterruptsAssumption, SMT DEF Init, PicInit, StacksTyped
<1>3. RunsWhereLeft /\ OwnerSuspended
  BY <1>1, SMT DEF Init, RunsWhereLeft, OwnerSuspended, Contexts
<1>4. OthersSuspended
  <2> SUFFICES ASSUME NEW t \in Tasks
               PROVE  Suspended(t, cpustate[t][2])
    BY Zenon DEF OthersSuspended
  <2>1. stack[t] = FirstFrame /\ done[t] = 0 /\ cpustate[t][2] = 5
    BY InterruptsAssumption, SMT DEF Init, TaskInit, FrameWords, Contexts
  <2>2. FirstFrame = Frame(1, Word("error", 0), 0)
    BY DEF FirstFrame, Frame
  <2>3. Word("error", 0) \in Words
    BY SMT DEF Word, Words
  <2>4. Frame(1, Word("error", 0), 0) \in Seq(Words)
    BY <2>3, StackParts
  <2>5. stack[t] = Locals(done[t]) \o Frame(1, Word("error", 0), done[t])
    BY <1>1, <2>1, <2>2, <2>4, ConcatEmptySeq
  <2>6. cpustate[t][2] = Len(Locals(done[t])) + 5
    BY <1>1, <2>1, SMT
  <2> QED
    BY <2>3, <2>5, <2>6, SMT DEF Suspended
<1> QED
  BY <1>2, <1>3, <1>4 DEF Stacks

(* What Enter pushes is a frame.                                           *)
LEMMA EnterPushes ==
  ASSUME Ownership, Stacks, mode = "run",
         NEW v, NEW error \in Words, ErrorWord(v) = <<error>>, Enter(v)
  PROVE  \E x, flag, s :
           /\ x \in Contexts /\ flag \in {0, 1}
           /\ x = Owner /\ Owner' = x
           /\ flag = IF IF1 THEN 1 ELSE 0
           /\ x # Kernel => flag = 1
           /\ s = Locals(done[x]) \o Frame(flag, error, done[x])
           /\ Len(s) = Len(Locals(done[x])) + 5
           /\ s[Len(s) - 4] = Word("eflags", flag)
           /\ stack' = [stack EXCEPT ![x] = s] /\ esp' = <<x, Len(s)>>
           /\ stack'[x] = s /\ \A t \in Contexts \ {x} : stack'[t] = stack[t]
<1>1. PICK x, flag, s :
        /\ x = cpu.ctx /\ flag = IF IF1 THEN 1 ELSE 0
        /\ s = stack[x] \o <<Word("eflags", flag), Word("cs", 0), cpu.eip>>
                        \o <<error>> \o <<cpu.regs>>
  BY Zenon
<1>2. /\ UNCHANGED <<taskVars, cpu, done>> /\ mode' = "handle"
      /\ stack' = [stack EXCEPT ![x] = s]
      /\ esp' = <<x, Len(s)>>
  BY <1>1, Zenon DEF Enter
<1>3. Owner = x /\ Owner' = x
  BY <1>1, <1>2, SMT DEF Owner
<1>4. x \in Contexts /\ done[x] \in Nat
  BY <1>3, OwnerIsContext, InterruptsAssumption, SMT DEF Stacks, StacksTyped
<1>5. s = Locals(done[x]) \o Frame(flag, error, done[x])
  <2>1. /\ stack[x] = Locals(done[x]) /\ cpu.eip = Word("eip", done[x])
        /\ cpu.regs = Word("regs", done[x])
    BY <1>1, Zenon DEF Stacks, RunsWhereLeft
  <2> QED
    <3>1. PICK n \in Nat : n = done[x]
      BY <1>4, Zenon
    <3>2. stack[x] = Locals(n) /\ cpu.eip = Word("eip", n) /\ cpu.regs = Word("regs", n)
      BY <2>1, <3>1, Zenon
    <3>3. s = Locals(n) \o <<Word("eflags", flag), Word("cs", 0), Word("eip", n)>>
                        \o <<error>> \o <<Word("regs", n)>>
      BY <1>1, <3>2, Zenon
    <3> QED
      BY <3>1, <3>3, FramePushed, Zenon
<1>6. flag \in {0, 1} /\ (x # Kernel => flag = 1)
  BY <1>1, Zenon DEF Stacks, RunsWhereLeft
<1>7. Len(s) = Len(Locals(done[x])) + 5 /\ s[Len(s) - 4] = Word("eflags", flag)
  <2>1. PICK n \in Nat : n = done[x]
    BY <1>4, Zenon
  <2>2. s = Locals(n) \o Frame(flag, error, n)
    BY <1>5, <2>1, Zenon
  <2>3. flag \in {0, 1}
    BY <1>6, Zenon
  <2>4. OnTop(s, n, flag)
    BY <2>2, <2>3, FrameOnTop, Zenon
  <2>5. Len(s) = Len(Locals(n)) + 5 /\ s[Len(s) - 4] = Word("eflags", flag)
    BY <2>4, Zenon DEF OnTop
  <2> QED
    BY <2>1, <2>5, Zenon
<1>8. stack'[x] = s /\ \A t \in Contexts \ {x} : stack'[t] = stack[t]
  BY <1>2, <1>4, Zenon DEF Stacks, StacksTyped
<1> QED
  BY <1>1, <1>2, <1>3, <1>4, <1>5, <1>6, <1>7, <1>8, Zenon

(* The interrupt's frame suspends whom it interrupts.                      *)
LEMMA EnterKeepsStacks ==
  ASSUME Ownership, Stacks, mode = "run", irr' \subseteq Lines,
         NEW v, NEW error \in Words, ErrorWord(v) = <<error>>, Enter(v)
  PROVE  Stacks'
<1>1. PICK x, flag, s :
        /\ x \in Contexts /\ flag \in {0, 1}
        /\ x = Owner /\ Owner' = x
        /\ flag = IF IF1 THEN 1 ELSE 0
        /\ x # Kernel => flag = 1
        /\ s = Locals(done[x]) \o Frame(flag, error, done[x])
        /\ Len(s) = Len(Locals(done[x])) + 5
        /\ s[Len(s) - 4] = Word("eflags", flag)
        /\ stack' = [stack EXCEPT ![x] = s] /\ esp' = <<x, Len(s)>>
        /\ stack'[x] = s /\ \A t \in Contexts \ {x} : stack'[t] = stack[t]
  BY EnterPushes
<1>2. UNCHANGED <<taskVars, cpu, done>> /\ mode' = "handle"
  BY Zenon DEF Enter
<1>3. OwnerSuspended'
  <2>1. esp'[2] = Len(s)
    BY <1>1, SMT
  <2>2. Suspended(x, esp[2])'
    BY <1>1, <1>2, <2>1, Zenon DEF Suspended
  <2> QED
    BY <1>1, <2>2, Zenon DEF OwnerSuspended
<1>4. OthersSuspended'
  <2> SUFFICES ASSUME NEW t \in Tasks \ {x}
               PROVE  Suspended(t, cpustate[t][2])'
    BY <1>1, Zenon DEF OthersSuspended
  <2>1. stack'[t] = stack[t] /\ done' = done /\ cpustate' = cpustate
    BY <1>1, <1>2, Zenon DEF taskVars, Contexts
  <2>2. Suspended(t, cpustate[t][2])
    BY <1>1, Zenon DEF Stacks, OthersSuspended
  <2> QED
    BY <2>1, <2>2, StaysSuspended, Zenon
<1>5. StacksTyped'
  <2>1. stack' = [y \in Contexts |-> stack'[y]]
    BY <1>1, Zenon DEF Stacks, StacksTyped
  <2> QED
    BY <1>2, <2>1, Zenon DEF Stacks, StacksTyped
<1>6. RunsWhereLeft'
  BY <1>2, Zenon DEF RunsWhereLeft
<1> QED
  BY <1>3, <1>4, <1>5, <1>6 DEF Stacks

(* The words the processor and the stubs push in the place of the error:   *)
(* one, unless the exception is one for which the processor pushes none.   *)
LEMMA OneErrorWord ==
  ASSUME NEW v \in Nat, v >= 32 \/ v \in WithErrorCode
  PROVE  \E error \in Words : ErrorWord(v) = <<error>>
<1>1. Word("error", v) \in Words /\ Word("error", 0) \in Words
  BY SMT DEF Word, Words
<1>2. CASE v >= 32
  BY <1>1, <1>2, SMT DEF ErrorWord, hardwareInterruptOffset
<1>3. CASE v \in WithErrorCode
  BY <1>1, <1>3, SMT DEF ErrorWord
<1> QED
  BY <1>2, <1>3

(* The handler leaves the stacks alone; the scheduler saves the frame of   *)
(* the current task and gives out another one.                             *)
LEMMA HandleKeepsStacks ==
  ASSUME Ownership, Stacks, HandleInterrupt
  PROVE  Stacks'
<1>1. /\ mode = "handle" /\ mode' = "return"
      /\ UNCHANGED <<stack, done>>
  BY Zenon DEF HandleInterrupt
<1>2. irr' = irr
  BY SMT DEF HandleInterrupt, DoHandleInterrupt, Acknowledge, picVars
<1>3. StacksTyped' /\ RunsWhereLeft'
  BY <1>1, <1>2, SMT DEF Stacks, StacksTyped, RunsWhereLeft
<1>4. Owner = cpu.ctx /\ esp[1] = cpu.ctx
  BY <1>1, SMT DEF Owner, Ownership, CpuWellFormed
<1>5. \A x, d : Suspended(x, d) => Suspended(x, d)'
  BY <1>1, StaysSuspended, Zenon
<1>6. Suspended(Owner, esp[2])
  BY <1>1, SMT DEF Stacks, OwnerSuspended
<1>7. CASE UNCHANGED taskVars /\ esp' = esp
  <2>1. Owner' = Owner
    BY <1>1, <1>4, <1>7, SMT DEF Owner
  <2>2. OwnerSuspended'
    BY <1>5, <1>6, <1>7, <2>1, Zenon DEF OwnerSuspended
  <2>3. OthersSuspended'
    BY <1>5, <1>7, <2>1, Zenon DEF Stacks, OthersSuspended, taskVars
  <2> QED
    BY <1>3, <2>2, <2>3 DEF Stacks
<1>8. CASE numTasks > 0 /\ Schedule(esp, esp')
  <2>1. /\ cpustate' = IF currentTask >= 0
                         THEN [cpustate EXCEPT ![TaskAt(currentTask)] = esp]
                         ELSE cpustate
        /\ currentTask' = (currentTask + 1) % numTasks
        /\ esp' = cpustate'[tasks[currentTask' + 1]]
        /\ tasks' = tasks
    BY <1>8, SMT DEF Schedule, numTasks
  <2>2. \A t \in Tasks : Suspended(t, cpustate'[t][2])
    <3> SUFFICES ASSUME NEW t \in Tasks
                 PROVE  Suspended(t, cpustate'[t][2])
      OBVIOUS
    <3>1. CASE t = Owner
      <4>1. currentTask >= 0 /\ TaskAt(currentTask) = t
        BY <3>1, InterruptsAssumption, SMT DEF Ownership, SchedulerKnows, TaskAt
      <4>2. cpustate'[t] = esp
        BY <2>1, <4>1, Zenon DEF Ownership, SchedulerKnows
      <4> QED
        BY <1>6, <3>1, <4>2, Zenon
    <3>2. CASE t # Owner
      <4>1. currentTask >= 0 => TaskAt(currentTask) # t
        BY <3>2, SMT DEF Ownership, SchedulerKnows, TaskAt
      <4>2. cpustate'[t] = cpustate[t]
        BY <2>1, <4>1, Zenon DEF Ownership, SchedulerKnows
      <4> QED
        BY <3>2, <4>2, Zenon DEF Stacks, OthersSuspended
    <3> QED
      BY <3>1, <3>2
  <2>3. tasks[currentTask' + 1] \in Tasks
    <3>1. tasks \in Seq(Tasks) /\ Len(tasks) \in Nat \ {0} /\ currentTask \in Int
      BY <1>8, SMT DEF Ownership, SchedulerKnows, numTasks
    <3>2. currentTask' + 1 \in 1..Len(tasks)
      BY <1>8, <2>1, <3>1, SMT DEF Ownership, SchedulerKnows, numTasks
    <3> QED
      BY <3>1, <3>2, ElementOfSeq, Zenon
  <2>4. PICK next \in Tasks : esp' = cpustate'[next] /\ cpustate'[next][1] = next
    <3>1. \A t \in Tasks : cpustate'[t][1] = t
      BY HandleKeepsOwner DEF Ownership, SchedulerKnows
    <3> QED
      BY <2>1, <2>3, <3>1, Zenon
  <2>5. Owner' = next
    BY <1>1, <2>4, SMT DEF Owner
  <2>6. OwnerSuspended'
    <3>1. Suspended(next, esp'[2])
      BY <2>2, <2>4, Zenon
    <3> QED
      BY <1>5, <2>5, <3>1, Zenon DEF OwnerSuspended
  <2>7. OthersSuspended'
    BY <1>5, <2>2, Zenon DEF OthersSuspended
  <2> QED
    BY <1>3, <2>6, <2>7 DEF Stacks
<1> QED
  BY <1>7, <1>8, Zenon DEF HandleInterrupt, DoHandleInterrupt, Schedule

(* The stub pops what the frame says, and the stack is as high as before.  *)
LEMMA ReturnKeepsStacks ==
  ASSUME Ownership, Stacks, Return
  PROVE  Stacks'
<1>1. PICK x : x = esp[1]
  BY Zenon
<1>2. /\ mode = "return" /\ mode' = "run" /\ Owner = x
      /\ cpu' = [ctx |-> x, regs |-> Popped(0), eip |-> Popped(2)]
      /\ stack' = [stack EXCEPT ![x] = SubSeq(@, 1, esp[2] - FrameWords)]
      /\ IF1' = (Popped(4)[2] = 1)
      /\ UNCHANGED <<taskVars, irr, done>>
  BY <1>1, Zenon DEF Return, picVars, Owner
<1>3. x \in Contexts /\ done[x] \in Nat
  BY <1>2, OwnerIsContext, InterruptsAssumption, SMT DEF Stacks, StacksTyped
<1>4. Owner' = x /\ cpu'.ctx = x
  BY <1>2, SMT DEF Owner
<1>5. PICK n \in Nat : n = done[x]
  BY <1>3, Zenon
<1>6. PICK s, d : s = stack[x] /\ d = esp[2]
  BY Zenon
<1>7. PICK flag \in {0, 1}, error \in Words :
        /\ s = Locals(n) \o Frame(flag, error, n)
        /\ d = Len(Locals(n)) + 5
        /\ x # Kernel => flag = 1
  BY <1>2, <1>5, <1>6, SMT DEF Stacks, OwnerSuspended, Suspended
<1>8. /\ d = Len(s) /\ SubSeq(s, 1, d - 5) = Locals(n)
      /\ s[d] = Word("regs", n) /\ s[d - 2] = Word("eip", n)
      /\ s[d - 4] = Word("eflags", flag)
      /\ {d, d - 2, d - 4} \subseteq DOMAIN s
  <2>1. OnTop(s, n, flag)
    BY <1>7, FrameOnTop, Zenon
  <2>2. d = Len(s)
    BY <1>7, <2>1, Zenon DEF OnTop
  <2> QED
    BY <2>1, <2>2, Zenon DEF OnTop
<1>9. d \in Nat /\ d - 0 = d
  BY <1>7, StackParts, SMT
<1>10. /\ Popped(0) = Word("regs", n) /\ Popped(2) = Word("eip", n)
      /\ Popped(4) = Word("eflags", flag)
  BY <1>1, <1>5, <1>6, <1>8, <1>9, Zenon DEF Popped
<1>11. stack'[x] = Locals(n) /\ \A y \in Contexts \ {x} : stack'[y] = stack[y]
  BY <1>2, <1>3, <1>5, <1>6, <1>8, Zenon DEF Stacks, StacksTyped, FrameWords
<1>12. StacksTyped'
  BY <1>2, Zenon DEF Stacks, StacksTyped
<1>13. RunsWhereLeft'
  <2>1. cpu'.eip = Word("eip", n) /\ cpu'.regs = Word("regs", n)
    BY <1>2, <1>10, SMT
  <2>2. x # Kernel => IF1'
    <3>1. Popped(4)[2] = flag
      BY <1>10, SMT DEF Word
    <3> QED
      BY <1>2, <1>7, <3>1, Zenon
  <2>3. done'[x] = n
    BY <1>2, <1>5, <1>6, Zenon
  <2> QED
    BY <1>4, <1>11, <2>1, <2>2, <2>3, Zenon DEF RunsWhereLeft
<1>14. OwnerSuspended'
  BY <1>2, Zenon DEF OwnerSuspended
<1>15. OthersSuspended'
  <2> SUFFICES ASSUME NEW t \in Tasks \ {x}
               PROVE  Suspended(t, cpustate[t][2])'
    BY <1>4, Zenon DEF OthersSuspended
  <2>1. stack'[t] = stack[t] /\ done' = done /\ cpustate' = cpustate
    BY <1>2, <1>11, Zenon DEF taskVars, Contexts
  <2>2. Suspended(t, cpustate[t][2])
    BY <1>2, Zenon DEF Stacks, OthersSuspended
  <2> QED
    BY <2>1, <2>2, StaysSuspended, Zenon
<1> QED
  BY <1>12, <1>13, <1>14, <1>15 DEF Stacks

(* An instruction pushes or pops a word of its context, and counts.        *)
LEMMA ExecuteKeepsStacks ==
  ASSUME Ownership, Stacks, NEW x \in Contexts, Execute(x)
  PROVE  Stacks'
<1>1. /\ mode = "run" /\ x = cpu.ctx
      /\ stack' = [stack EXCEPT ![x] = IF cpu.eip[2] % 2 = 0 THEN Append(@, Word("local", 0))
                                                             ELSE Front(@)]
      /\ cpu' = [ctx |-> x, eip |-> Following(cpu.eip), regs |-> Following(cpu.regs)]
      /\ done' = [done EXCEPT ![x] = (@ + 1) % Turns]
      /\ UNCHANGED <<cpustate, irr, IF1, mode, esp>>
  BY Zenon DEF Execute, Running, taskVars, picVars
<1>2. Owner = x /\ Owner' = x
  BY <1>1, SMT DEF Owner
<1>3. PICK n \in 0..(Turns - 1) : n = done[x]
  BY InterruptsAssumption, SMT DEF Stacks, StacksTyped
<1>4. PICK next \in 0..(Turns - 1) :
        /\ next = (n + 1) % Turns
        /\ IF n % 2 = 0 THEN next % 2 = 1 ELSE next % 2 # 1
  <2>1. CASE n + 1 = Turns
    BY <1>3, <2>1, InterruptsAssumption, SMTT(40)
  <2>2. CASE n + 1 < Turns
    <3>1. (n + 1) % Turns = n + 1
      BY <1>3, <2>2, InterruptsAssumption, SMTT(40)
    <3>2. n + 1 \in 0..(Turns - 1)
      BY <1>3, <2>2, InterruptsAssumption, SMTT(40)
    <3>3. IF n % 2 = 0 THEN (n + 1) % 2 = 1 ELSE (n + 1) % 2 # 1
      BY <1>3, InterruptsAssumption, SMTT(40)
    <3> QED
      BY <3>1, <3>2, <3>3, Zenon
  <2> QED
    BY <1>3, <2>1, <2>2, InterruptsAssumption, SMTT(40)
<1>5. /\ stack[x] = Locals(n) /\ cpu.eip = Word("eip", n) /\ cpu.regs = Word("regs", n)
      /\ x # Kernel => IF1
  BY <1>1, <1>3, Zenon DEF Stacks, RunsWhereLeft
<1>6. cpu.eip[2] = n /\ Following(cpu.eip) = Word("eip", next) /\ Following(cpu.regs) = Word("regs", next)
  BY <1>4, <1>5, SMT DEF Following, Word
<1>7. /\ done'[x] = next /\ \A y \in Contexts \ {x} : done'[y] = done[y]
      /\ done' \in [Contexts -> 0..(Turns - 1)]
  BY <1>1, <1>3, <1>4, SMT DEF Stacks, StacksTyped
<1>8. (IF n % 2 = 0 THEN Append(Locals(n), Word("local", 0)) ELSE Front(Locals(n))) = Locals(next)
  <2> DEFINE l == Word("local", 0)
  <2>1. /\ Locals(n) = IF n % 2 = 0 THEN << >> ELSE <<l>>
        /\ Locals(next) = IF n % 2 = 0 THEN <<l>> ELSE << >>
    BY <1>3, <1>4, SMT DEF Locals
  <2> HIDE DEF l
  <2>2. Append(<< >>, l) = <<l>>
    BY SMT
  <2>3. Front(<<l>>) = << >>
    BY SMT DEF Front
  <2> QED
    BY <2>1, <2>2, <2>3 DEF l
<1>9. stack'[x] = Locals(next) /\ \A y \in Contexts \ {x} : stack'[y] = stack[y]
  BY <1>1, <1>5, <1>6, <1>8, Zenon DEF Stacks, StacksTyped
<1>10. StacksTyped'
  <2>1. stack' = [y \in Contexts |-> stack'[y]]
    BY <1>1, Zenon DEF Stacks, StacksTyped
  <2> QED
    BY <1>1, <1>7, <2>1, Zenon DEF Stacks, StacksTyped
<1>11. RunsWhereLeft'
  <2>1. cpu'.ctx = x /\ cpu'.eip = Word("eip", next) /\ cpu'.regs = Word("regs", next)
    BY <1>1, <1>6, SMT
  <2> QED
    BY <1>1, <1>5, <1>7, <1>9, <2>1, Zenon DEF RunsWhereLeft
<1>12. OwnerSuspended'
  BY <1>1, Zenon DEF OwnerSuspended
<1>13. OthersSuspended'
  <2> SUFFICES ASSUME NEW t \in Tasks \ {x}
               PROVE  Suspended(t, cpustate[t][2])'
    BY <1>2, Zenon DEF OthersSuspended
  <2>1. stack'[t] = stack[t] /\ done'[t] = done[t] /\ cpustate' = cpustate
    BY <1>1, <1>7, <1>9, Zenon DEF Contexts
  <2>2. Suspended(t, cpustate[t][2])
    BY <1>2, Zenon DEF Stacks, OthersSuspended
  <2> QED
    BY <2>1, <2>2, StaysSuspended, Zenon
<1> QED
  BY <1>10, <1>11, <1>12, <1>13 DEF Stacks

LEMMA NextStacks ==
  ASSUME Exceptions \subseteq WithErrorCode, Ownership, Stacks, [Next]_vars
  PROVE  Stacks'
<1>1. CASE Device
  <2>1. UNCHANGED <<stack, done, mode, esp, cpu, cpustate, IF1>> /\ irr' \subseteq Lines
    BY <1>1, Zenon DEF Device, Raise, cpuVars, taskVars, Stacks, StacksTyped
  <2> QED
    BY <2>1, StacksUntouched, Zenon DEF Stacks, RunsWhereLeft
<1>2. CASE Interrupt
  <2>1. PICK q \in irr : Accept(q) /\ Enter(hardwareInterruptOffset + q) /\ mode = "run"
    BY <1>2, Zenon DEF Interrupt
  <2>2. hardwareInterruptOffset + q \in Nat /\ hardwareInterruptOffset + q >= 32
    BY InterruptsAssumption, SMT DEF Stacks, StacksTyped, hardwareInterruptOffset
  <2>3. irr' \subseteq Lines
    BY <2>1, Zenon DEF Accept, Stacks, StacksTyped
  <2> QED
    BY <2>1, <2>2, <2>3, OneErrorWord, EnterKeepsStacks, Zenon
<1>3. CASE HandleInterrupt
  BY <1>3, HandleKeepsStacks
<1>4. CASE Return
  BY <1>4, ReturnKeepsStacks
<1>5. ASSUME NEW x \in Contexts, Execute(x)
      PROVE  Stacks'
  BY <1>5, ExecuteKeepsStacks
<1>6. ASSUME NEW x \in Contexts, SystemCall(x)
      PROVE  Stacks'
  <2>1. Syscall \in Nat /\ Syscall >= 32
    BY SMT DEF Syscall, hardwareInterruptOffset
  <2>2. mode = "run" /\ Enter(Syscall) /\ irr' \subseteq Lines
    BY <1>6, Zenon DEF SystemCall, Running, picVars, Stacks, StacksTyped
  <2> QED
    BY <2>1, <2>2, OneErrorWord, EnterKeepsStacks, Zenon
<1>7. ASSUME NEW x \in Contexts, NEW v \in Exceptions, Exception(x, v)
      PROVE  Stacks'
  <2>1. v \in Nat /\ v \in WithErrorCode
    BY InterruptsAssumption, SMT
  <2>2. mode = "run" /\ Enter(v) /\ irr' \subseteq Lines
    BY <1>7, Zenon DEF Exception, Running, picVars, Stacks, StacksTyped
  <2> QED
    BY <2>1, <2>2, OneErrorWord, EnterKeepsStacks, Zenon
<1>8. CASE \/ \E t \in Tasks : BootTask(t)
           \/ CallActivate \/ DisableInterrupts \/ Activate \/ UNCHANGED vars
  <2>1. UNCHANGED <<stack, done, mode, esp, cpu, cpustate>> /\ irr' \subseteq Lines
    BY <1>8, Zenon
       DEF BootTask, AddTask, CallActivate, DisableInterrupts, Activate, vars, cpuVars, picVars,
           taskVars, Stacks, StacksTyped
  <2>2. mode = "run" /\ cpu.ctx # Kernel => IF1'
    BY <1>8, Zenon
       DEF BootTask, CallActivate, DisableInterrupts, Activate, InKernel, Running, vars, cpuVars,
           Stacks, RunsWhereLeft
  <2> QED
    BY <2>1, <2>2, StacksUntouched, Zenon
<1> QED
  BY <1>1, <1>2, <1>3, <1>4, <1>5, <1>6, <1>7, <1>8, Zenon DEF Next

-----------------------------------------------------------------------------
(* Whatever interrupts it and however often the scheduler switches, every  *)
(* context goes on with the instruction, the registers and the stack it    *)
(* was left with, if only exceptions with an error code occur.             *)
THEOREM ContextsArePreserved ==
  ASSUME Exceptions \subseteq WithErrorCode
  PROVE  Spec => []ContextPreserved
<1>1. Ownership /\ Stacks /\ [Next]_vars => Stacks'
  BY NextStacks
<1>2. Ownership /\ Stacks => ContextPreserved
  <2> SUFFICES ASSUME Ownership, Stacks, mode = "run"
               PROVE  /\ cpu.eip = Word("eip", done[cpu.ctx])
                      /\ cpu.regs = Word("regs", done[cpu.ctx])
                      /\ stack[cpu.ctx] = Locals(done[cpu.ctx])
                      /\ \A t \in Tasks \ {cpu.ctx} :
                           cpustate[t][1] = t /\ Continues(t, cpustate[t][2])
    BY Zenon DEF ContextPreserved
  <2>1. ASSUME NEW t \in Tasks \ {cpu.ctx}
        PROVE  Continues(t, cpustate[t][2])
    <3>1. PICK n \in Nat : n = done[t]
      BY InterruptsAssumption, SMT DEF Stacks, StacksTyped, Contexts
    <3>2. PICK s, d : s = stack[t] /\ d = cpustate[t][2]
      BY Zenon
    <3>3. Suspended(t, d) /\ t # Kernel
      BY <3>1, <3>2, InterruptsAssumption, SMT DEF Stacks, OthersSuspended, Owner
    <3>4. PICK error \in Words :
            s = Locals(n) \o Frame(1, error, n) /\ d = Len(Locals(n)) + 5
      BY <3>1, <3>2, <3>3, Zenon DEF Suspended
    <3>5. OnTop(s, n, 1)
      BY <3>4, FrameOnTop, Zenon
    <3>6. d = Len(s)
      BY <3>4, <3>5, Zenon DEF OnTop
    <3> QED
      BY <3>1, <3>2, <3>5, <3>6, Zenon DEF Continues, FrameWords, OnTop
  <2> QED
    BY <2>1, Zenon DEF Ownership, SchedulerKnows, Stacks, RunsWhereLeft
<1> QED
  BY OwnershipHolds, InitStacks, <1>1, <1>2, PTL DEF Spec

-----------------------------------------------------------------------------
(* The controllers, while Activate is called at most once: interrupts are  *)
(* accepted only when there is a manager to acknowledge them.              *)

Requested == vector - hardwareInterruptOffset

InService ==
  IF mode = "handle" /\ vector \in 32..47
    THEN /\ active
         /\ master = {MasterLine(Requested)}
         /\ slave = IF Requested >= 8 THEN {Requested} ELSE {}
    ELSE master = {} /\ slave = {}

ManagerReady ==
  /\ main = "boot" => activations = 0 /\ ~active
  /\ main = "loop" => activations = 1
  /\ main = "activate" => activations = 1
  /\ main # "cli"
  /\ IF1 => active
  /\ mode # "run" /\ stack[Owner][esp[2] - 4] = Word("eflags", 1) => active

Served ==
  /\ activations \in Nat /\ vector \in Nat
  /\ activations <= 1 => InService /\ ManagerReady

(* The end of interrupt command clears the one line in service.            *)
LEMMA EndedLast ==
  ASSUME NEW q \in Nat
  PROVE  Ended({q}) = {} /\ Ended({}) = {}
<1>1. Min({q}) = q
  <2>1. q \in {q} /\ \A y \in {q} : q <= y
    BY SMT
  <2> QED
    BY <2>1, Zenon DEF Min
<1> QED
  BY <1>1, Zenon DEF Ended

LEMMA InitServed == Init => Served
BY SMT DEF Init, PicInit, Served, InService, ManagerReady

LEMMA EnterKeepsServed ==
  ASSUME Ownership, Stacks, Served, mode = "run",
         NEW v \in Nat, NEW error \in Words, ErrorWord(v) = <<error>>, Enter(v),
         IF v \in 32..47
           THEN /\ IF1
                /\ master' = master \cup {MasterLine(v - 32)}
                /\ slave' = IF v - 32 >= 8 THEN slave \cup {v - 32} ELSE slave
           ELSE UNCHANGED <<master, slave>>
  PROVE  Served'
<1>1. /\ UNCHANGED <<active, main, activations>> /\ mode' = "handle" /\ vector' = v /\ IF1' = FALSE
  BY Zenon DEF Enter, kernelVars
<1>2. PICK x, flag, s :
        /\ Owner' = x
        /\ flag = IF IF1 THEN 1 ELSE 0
        /\ s[Len(s) - 4] = Word("eflags", flag)
        /\ esp' = <<x, Len(s)>>
        /\ stack'[x] = s
  BY EnterPushes
<1>3. ASSUME activations <= 1
      PROVE  InService' /\ ManagerReady'
  <2>1. master = {} /\ slave = {} /\ (IF1 => active)
    BY <1>3, Zenon DEF Served, InService, ManagerReady
  <2>2. InService'
    <3>1. CASE v \in 32..47
      <4>1. Requested' = v - 32
        BY <1>1, SMT DEF Requested, hardwareInterruptOffset
      <4> QED
        BY <1>1, <2>1, <3>1, <4>1, Zenon DEF InService
    <3>2. CASE v \notin 32..47
      BY <1>1, <2>1, <3>2, Zenon DEF InService
    <3> QED
      BY <3>1, <3>2
  <2>3. stack'[Owner'][esp'[2] - 4] = Word("eflags", flag)
    <3>1. esp'[2] = Len(s)
      BY <1>2, SMT
    <3> QED
      BY <1>2, <3>1, Zenon
  <2>4. Word("eflags", flag) = Word("eflags", 1) => IF1
    BY <1>2, SMT DEF Word
  <2>5. ManagerReady'
    BY <1>1, <1>3, <2>1, <2>3, <2>4, Zenon DEF ManagerReady, Served
  <2> QED
    BY <2>2, <2>5
<1> QED
  BY <1>1, <1>3, Zenon DEF Served

(* The handler acknowledges what was accepted at both controllers, and no  *)
(* frame with interrupts on is given out without a manager.                *)
LEMMA HandleKeepsServed ==
  ASSUME Ownership, Stacks, Served, HandleInterrupt
  PROVE  Served'
<1>1. /\ mode = "handle" /\ mode' = "return"
      /\ UNCHANGED <<active, main, activations, IF1, stack, vector>>
  BY Zenon DEF HandleInterrupt, kernelVars
<1>2. ASSUME activations <= 1
      PROVE  InService'
  <2>1. InService
    BY <1>2, Zenon DEF Served
  <2>2. CASE vector \in 32..47
    <3>1. /\ active /\ master = {MasterLine(Requested)}
          /\ slave = IF Requested >= 8 THEN {Requested} ELSE {}
      BY <1>1, <2>1, <2>2, Zenon DEF InService
    <3>2. Acknowledge(vector)
      BY <3>1, Zenon DEF HandleInterrupt, DoHandleInterrupt
    <3>3. /\ hardwareInterruptOffset <= vector /\ vector < hardwareInterruptOffset + 16
          /\ (hardwareInterruptOffset + 8 <= vector <=> Requested >= 8)
          /\ Requested \in Nat /\ MasterLine(Requested) \in Nat
      BY <2>2, SMT DEF hardwareInterruptOffset, Requested, MasterLine, Cascade
    <3>4. master' = Ended(master) /\ slave' = IF Requested >= 8 THEN Ended(slave) ELSE slave
      BY <3>2, <3>3, Zenon DEF Acknowledge
    <3>5. master' = {} /\ slave' = {}
      BY <3>1, <3>3, <3>4, EndedLast, Zenon
    <3> QED
      BY <1>1, <3>5, Zenon DEF InService
  <2>3. CASE vector \notin 32..47
    <3>1. master = {} /\ slave = {}
      BY <2>1, <2>3, Zenon DEF InService
    <3>2. ~(hardwareInterruptOffset <= vector /\ vector < hardwareInterruptOffset + 16)
      BY <2>3, SMT DEF hardwareInterruptOffset, Served
    <3>3. UNCHANGED picVars
      BY <3>2, Zenon DEF HandleInterrupt, DoHandleInterrupt, Acknowledge
    <3> QED
      BY <1>1, <3>1, <3>3, SMT DEF InService, picVars
  <2> QED
    BY <2>2, <2>3
<1>3. ASSUME activations <= 1
      PROVE  ManagerReady'
  <2>1. ManagerReady
    BY <1>3, Zenon DEF Served
  <2>2. CASE active
    BY <1>1, <2>1, <2>2, Zenon DEF ManagerReady
  <2>3. CASE ~active
    <3>1. UNCHANGED esp /\ Owner' = Owner
      BY <1>1, <2>3, SMT DEF HandleInterrupt, Owner, Ownership, CpuWellFormed
    <3> QED
      BY <1>1, <2>1, <3>1, Zenon DEF ManagerReady
  <2> QED
    BY <2>2, <2>3
<1> QED
  BY <1>1, <1>2, <1>3, Zenon DEF Served

LEMMA ReturnKeepsServed ==
  ASSUME Ownership, Stacks, Served, Return
  PROVE  Served'
<1>1. /\ mode = "return" /\ mode' = "run" /\ Owner = esp[1]
      /\ IF1' = (Popped(4)[2] = 1)
      /\ UNCHANGED <<active, main, activations, master, slave, vector>>
  BY Zenon DEF Return, kernelVars, picVars, Owner
<1>2. PICK x : x = Owner /\ done[x] \in Nat
  BY OwnerIsContext, InterruptsAssumption, SMT DEF Stacks, StacksTyped
<1>3. PICK n \in Nat : n = done[x]
  BY <1>2, Zenon
<1>4. PICK s, d : s = stack[x] /\ d = esp[2]
  BY Zenon
<1>5. PICK flag \in {0, 1}, error \in Words :
        s = Locals(n) \o Frame(flag, error, n) /\ d = Len(Locals(n)) + 5
  <2>1. mode # "run"
    BY <1>1, SMT
  <2>2. Suspended(x, d)
    BY <1>2, <1>3, <1>4, <2>1, Zenon DEF Stacks, OwnerSuspended
  <2> QED
    BY <1>2, <1>3, <1>4, <2>2, Zenon DEF Suspended
<1>6. OnTop(s, n, flag)
  BY <1>5, FrameOnTop, Zenon
<1>7. d = Len(s) /\ d - 4 \in DOMAIN s /\ s[d - 4] = Word("eflags", flag)
  BY <1>5, <1>6, Zenon DEF OnTop
<1>8. Popped(4) = Word("eflags", flag)
  BY <1>1, <1>2, <1>3, <1>4, <1>7, Zenon DEF Popped
<1>9. ASSUME activations <= 1
      PROVE  InService' /\ ManagerReady'
  <2>1. InService /\ ManagerReady
    BY <1>9, Zenon DEF Served
  <2>2. IF1' => Word("eflags", flag) = Word("eflags", 1)
    <3>1. Popped(4)[2] = flag
      BY <1>8, SMT DEF Word
    <3> QED
      BY <1>1, <3>1, Zenon
  <2>3. IF1' => active
    BY <1>1, <1>2, <1>3, <1>4, <1>7, <2>1, <2>2, Zenon DEF ManagerReady
  <2> QED
    BY <1>1, <2>1, <2>3, Zenon DEF InService, ManagerReady
<1> QED
  BY <1>1, <1>9, Zenon DEF Served

(* What neither enters nor leaves the stub runs with it unused.            *)
LEMMA RunningKeepsServed ==
  ASSUME Served, mode = "run", mode' = "run", UNCHANGED <<master, slave, vector>>,
         activations' \in Nat, activations <= activations',
         activations' <= 1 =>
           /\ main' = "boot" => activations' = 0 /\ ~active'
           /\ main' = "loop" => activations' = 1
           /\ main' = "activate" => activations' = 1
           /\ main' # "cli"
           /\ IF1' => active'
  PROVE  Served'
<1>1. activations' <= 1 => activations <= 1
  BY SMT DEF Served
<1> QED
  BY <1>1, Zenon DEF Served, InService, ManagerReady

LEMMA ServedUntouched ==
  ASSUME Served, UNCHANGED <<master, slave, vector, mode, active, activations, main, IF1, esp,
                             stack, cpu>>
  PROVE  Served'
BY Zenon DEF Served, InService, ManagerReady, Requested, Owner

LEMMA NextServed ==
  ASSUME Exceptions \subseteq WithErrorCode, Ownership, Stacks, Served, [Next]_vars
  PROVE  Served'
<1>1. CASE Device
  BY <1>1, ServedUntouched, Zenon DEF Device, Raise, cpuVars, kernelVars
<1>2. CASE Interrupt
  <2>1. PICK q \in irr : Accept(q) /\ Enter(hardwareInterruptOffset + q) /\ mode = "run" /\ IF1
    BY <1>2, Zenon DEF Interrupt
  <2>2. PICK v : v = hardwareInterruptOffset + q
    BY Zenon
  <2>3. q \in 0..15
    BY <2>1, InterruptsAssumption, Zenon DEF Stacks, StacksTyped
  <2>4. v \in Nat /\ v >= 32 /\ v \in 32..47 /\ v - 32 = q
    BY <2>2, <2>3, SMT DEF hardwareInterruptOffset
  <2>5. PICK error \in Words : ErrorWord(v) = <<error>>
    BY <2>4, OneErrorWord, Zenon
  <2>6. /\ master' = master \cup {MasterLine(q)}
        /\ slave' = IF q >= 8 THEN slave \cup {q} ELSE slave
    BY <2>1, Zenon DEF Accept
  <2>7. Enter(v)
    BY <2>1, <2>2, Zenon
  <2> QED
    BY <2>1, <2>4, <2>5, <2>6, <2>7, EnterKeepsServed, Zenon
<1>3. CASE HandleInterrupt
  BY <1>3, HandleKeepsServed
<1>4. CASE Return
  BY <1>4, ReturnKeepsServed
<1>5. ASSUME NEW x \in Contexts, Execute(x)
      PROVE  Served'
  <2>1. /\ mode = "run" /\ mode' = "run"
        /\ UNCHANGED <<master, slave, vector, active, main, activations, IF1>>
    BY <1>5, Zenon DEF Execute, Running, picVars, kernelVars
  <2> QED
    BY <2>1, RunningKeepsServed, SMT DEF Served, ManagerReady
<1>6. ASSUME NEW x \in Contexts, SystemCall(x)
      PROVE  Served'
  <2>1. Syscall \in Nat /\ Syscall >= 32 /\ Syscall \notin 32..47
    BY SMT DEF Syscall, hardwareInterruptOffset
  <2>2. mode = "run" /\ Enter(Syscall) /\ UNCHANGED <<master, slave>>
    BY <1>6, Zenon DEF SystemCall, Running, picVars
  <2>3. PICK error \in Words : ErrorWord(Syscall) = <<error>>
    BY <2>1, OneErrorWord, Zenon
  <2> QED
    BY <2>1, <2>2, <2>3, EnterKeepsServed, Zenon
<1>7. ASSUME NEW x \in Contexts, NEW v \in Exceptions, Exception(x, v)
      PROVE  Served'
  <2>1. v \in Nat /\ v \in WithErrorCode /\ v \notin 32..47
    BY InterruptsAssumption, SMT
  <2>2. mode = "run" /\ Enter(v) /\ UNCHANGED <<master, slave>>
    BY <1>7, Zenon DEF Exception, Running, picVars
  <2>3. PICK error \in Words : ErrorWord(v) = <<error>>
    BY <2>1, OneErrorWord, Zenon
  <2> QED
    BY <2>1, <2>2, <2>3, EnterKeepsServed, Zenon
<1>8. ASSUME NEW t \in Tasks, BootTask(t)
      PROVE  Served'
  BY <1>8, ServedUntouched, Zenon DEF BootTask, picVars, cpuVars, kernelVars
<1>9. CASE CallActivate
  <2>1. /\ mode = "run" /\ mode' = "run" /\ main \in {"boot", "loop"}
        /\ activations' = activations + 1
        /\ main' = IF active THEN "cli" ELSE "activate"
        /\ UNCHANGED <<master, slave, vector, IF1>>
    BY <1>9, Zenon DEF CallActivate, Running, picVars, cpuVars
  <2>2. activations \in Nat
    BY Zenon DEF Served
  <2>3. ASSUME activations' <= 1
        PROVE  activations = 0 /\ main = "boot" /\ ~IF1 /\ ~active
    <3>1. activations = 0
      BY <2>1, <2>2, <2>3, SMT
    <3>2. ManagerReady
      BY <3>1, SMT DEF Served
    <3> QED
      BY <2>1, <3>1, <3>2, SMT DEF ManagerReady
  <2> QED
    BY <2>1, <2>2, <2>3, RunningKeepsServed, SMT
<1>10. CASE DisableInterrupts
  <2>1. /\ mode = "run" /\ mode' = "run" /\ main = "cli"
        /\ UNCHANGED <<master, slave, vector, activations>>
    BY <1>10, Zenon DEF DisableInterrupts, InKernel, Running, picVars
  <2>2. activations \in Nat /\ ~(activations <= 1)
    BY <2>1, Zenon DEF Served, ManagerReady
  <2> QED
    BY <2>1, <2>2, RunningKeepsServed, SMT
<1>11. CASE Activate
  <2>1. /\ mode = "run" /\ mode' = "run" /\ main = "activate" /\ main' = "loop" /\ active'
        /\ UNCHANGED <<master, slave, vector, activations>>
    BY <1>11, Zenon DEF Activate, InKernel, Running, picVars
  <2>2. activations \in Nat /\ (activations <= 1 => activations = 1)
    BY <2>1, Zenon DEF Served, ManagerReady
  <2> QED
    BY <2>1, <2>2, RunningKeepsServed, SMT
<1>12. CASE UNCHANGED vars
  BY <1>12, ServedUntouched, Zenon DEF vars, picVars, cpuVars, kernelVars
<1> QED
  BY <1>1, <1>2, <1>3, <1>4, <1>5, <1>6, <1>7, <1>8, <1>9, <1>10, <1>11, <1>12, Zenon DEF Next

(* Whenever the interrupted program goes on, both controllers have been    *)
(* told that every interrupt they delivered is dealt with, if Activate was *)
(* called at most once and only exceptions with an error code occur.       *)
THEOREM InterruptsAreAcknowledged ==
  ASSUME Exceptions \subseteq WithErrorCode
  PROVE  Spec => []Acknowledged
<1>1. Ownership /\ Stacks /\ [Next]_vars => Stacks'
  BY NextStacks
<1>2. Ownership /\ Stacks /\ Served /\ [Next]_vars => Served'
  BY NextServed
<1>3. Served => Acknowledged
  BY SMT DEF Served, InService, Acknowledged
<1> QED
  BY OwnershipHolds, InitStacks, InitServed, <1>1, <1>2, <1>3, PTL DEF Spec

=============================================================================
