---------------------------- MODULE Interrupts -----------------------------
(***************************************************************************)
(* Interrupts and the switch between tasks: the entry stubs                *)
(* (interruptstubs.s), class InterruptManager (interrupts.cpp), the system *)
(* call handler (syscalls.cpp) and the task stacks (multitasking.cpp),     *)
(* composed with the scheduler and the interrupt controllers.              *)
(*                                                                         *)
(* Everything runs in ring 0, so an interrupt pushes onto the stack of the *)
(* context it interrupts.  A stack is a sequence of words, the last one on *)
(* top; a word is what was pushed and a number that tells two pushes of    *)
(* the same thing apart.  The seven registers the stub pushes are one word.*)
(* A pointer to a saved CPUState is <<context, height of its top word>>.   *)
(*                                                                         *)
(* The gates are interrupt gates: the handler runs with interrupts off, so *)
(* one step stands for the whole of HandleInterrupt.                       *)
(***************************************************************************)
EXTENDS TaskManager, PIC, SequencesExt

CONSTANTS
  Kernel,          \* the context kernelMain runs in
  Exceptions,      \* the processor exceptions that occur
  MaxActivations,  \* how often kernelMain calls Activate (once)
  Turns            \* instructions are numbered modulo Turns

ASSUME InterruptsAssumption ==
  /\ Turns \in Nat /\ Turns > 0 /\ Turns % 2 = 0
  /\ Kernel \notin Tasks
  /\ Lines \subseteq 0..15 /\ Exceptions \subseteq 0..31

hardwareInterruptOffset == 32

(* int 0x80; its stub and SyscallHandler both add the offset to the number. *)
Syscall == 128 + hardwareInterruptOffset

(* The exceptions for which the processor pushes an error code. *)
WithErrorCode == {8, 10, 11, 12, 13, 14, 17}

Contexts == Tasks \cup {Kernel}

VARIABLES
  cpu,          \* the context that runs, its next instruction, its registers
  IF1,          \* the processor accepts interrupts
  stack,        \* the stack of each context
  mode,         \* "run", "handle" inside the stub, "return" on its way out
  vector,       \* the interrupt that is handled
  esp,          \* the CPUState the stub returns to
  active,       \* ActiveInterruptManager # 0
  main,         \* where kernelMain is: "boot", "activate", "cli", "loop"
  activations,  \* calls of Activate so far
  done          \* instructions each context has executed (history)

cpuVars == <<cpu, IF1, stack, mode, vector, esp>>
kernelVars == <<active, main, activations>>
vars == <<taskVars, picVars, cpuVars, kernelVars, done>>

Word(what, n) == <<what, n>>

(* What the constructor of Task leaves on the task's stack: a state that   *)
(* starts at the entry point, with interrupts on (eflags = 0x202).         *)
FirstFrame == <<Word("eflags", 1), Word("cs", 0), Word("eip", 0), Word("error", 0),
                Word("regs", 0)>>

FrameWords == 5

Init ==
  /\ TaskInit([t \in Tasks |-> <<t, FrameWords>>])
  /\ PicInit
  /\ cpu = [ctx |-> Kernel, eip |-> Word("eip", 0), regs |-> Word("regs", 0)]
  /\ IF1 = FALSE
  /\ stack = [x \in Contexts |-> IF x = Kernel THEN <<>> ELSE FirstFrame]
  /\ mode = "run" /\ vector = 0 /\ esp = <<Kernel, 0>>
  /\ active = FALSE /\ main = "boot" /\ activations = 0
  /\ done = [x \in Contexts |-> 0]

-----------------------------------------------------------------------------
(* The processor and the stubs *)

(* Between two instructions the processor takes a presented interrupt      *)
(* rather than the next instruction.                                       *)
Interruptible == IF1 /\ \E q \in irr : Presented(q)

Running(x) == mode = "run" /\ cpu.ctx = x /\ ~Interruptible

(* Each context calls and returns by turns: its even instructions push a   *)
(* word, its odd ones pop it.                                              *)
Locals(n) == IF n % 2 = 1 THEN <<Word("local", 0)>> ELSE <<>>

Following(word) == Word(word[1], (word[2] + 1) % Turns)

Execute(x) ==
  /\ Running(x)
  /\ stack' = [stack EXCEPT ![x] = IF cpu.eip[2] % 2 = 0 THEN Append(@, Word("local", 0))
                                                         ELSE Front(@)]
  /\ cpu' = [ctx |-> x, eip |-> Following(cpu.eip), regs |-> Following(cpu.regs)]
  /\ done' = [done EXCEPT ![x] = (@ + 1) % Turns]
  /\ UNCHANGED <<taskVars, picVars, kernelVars, IF1, mode, vector, esp>>

(* The words an interrupt leaves for the stub of vector v: HandleException *)
(* relies on the processor for the error code, HandleInterruptRequest      *)
(* pushes a zero in its place.                                             *)
ErrorWord(v) ==
  IF v < hardwareInterruptOffset
    THEN IF v \in WithErrorCode THEN <<Word("error", v)>> ELSE <<>>
    ELSE <<Word("error", 0)>>

(* The processor pushes eflags, cs and eip, and int_bottom the registers.  *)
Enter(v) ==
  LET x == cpu.ctx
      s == stack[x] \o <<Word("eflags", IF IF1 THEN 1 ELSE 0), Word("cs", 0), cpu.eip>>
                    \o ErrorWord(v) \o <<cpu.regs>>
  IN  /\ stack' = [stack EXCEPT ![x] = s]
      /\ esp' = <<x, Len(s)>>
      /\ vector' = v
      /\ mode' = "handle"
      /\ IF1' = FALSE
      /\ UNCHANGED <<taskVars, kernelVars, cpu, done>>

Interrupt ==
  /\ mode = "run" /\ IF1
  /\ \E q \in irr :
       /\ Presented(q)
       /\ Accept(q)
       /\ Enter(hardwareInterruptOffset + q)

(* int $0x80 of sysprintf: the next instruction is the one behind it.  The *)
(* handler prints and returns esp as it got it.                            *)
SystemCall(x) == Running(x) /\ x # Kernel /\ Enter(Syscall) /\ UNCHANGED picVars

Exception(x, v) == Running(x) /\ main # "boot" /\ Enter(v) /\ UNCHANGED picVars

-----------------------------------------------------------------------------
(* InterruptManager *)

AcknowledgeMasterOnly(v) ==
  IF hardwareInterruptOffset <= v /\ v < hardwareInterruptOffset + 16
    THEN /\ master' = Ended(master)
         /\ UNCHANGED <<irr, slave>>
    ELSE UNCHANGED picVars

(* The end of DoHandleInterrupt. *)
Acknowledge(v) ==
  IF hardwareInterruptOffset <= v /\ v < hardwareInterruptOffset + 16
    THEN /\ master' = Ended(master)
         /\ slave' = IF hardwareInterruptOffset + 8 <= v THEN Ended(slave) ELSE slave
         /\ UNCHANGED irr
    ELSE UNCHANGED picVars

(* The drivers' handlers return the esp they get; the timer, which has no  *)
(* handler, goes to the scheduler.                                         *)
DoHandleInterrupt ==
  /\ IF vector = hardwareInterruptOffset
       THEN Schedule(esp, esp')
       ELSE esp' = esp /\ UNCHANGED taskVars
  /\ Acknowledge(vector)

HandleInterrupt ==
  /\ mode = "handle"
  /\ IF active THEN DoHandleInterrupt ELSE UNCHANGED <<esp, taskVars, picVars>>
  /\ mode' = "return"
  /\ UNCHANGED <<kernelVars, cpu, IF1, stack, vector, done>>

(* The word i places below the top of the frame at esp. *)
Popped(i) ==
  LET s == stack[esp[1]]  d == esp[2] - i
  IN  IF d \in DOMAIN s THEN s[d] ELSE Word("none", 0)

(* The stub pops the registers, drops the error code, and iret pops eip,   *)
(* cs and eflags, and with them the interrupt flag.                        *)
Return ==
  LET x == esp[1] IN
  /\ mode = "return"
  /\ cpu' = [ctx |-> x, regs |-> Popped(0), eip |-> Popped(2)]
  /\ stack' = [stack EXCEPT ![x] = SubSeq(@, 1, esp[2] - FrameWords)]
  /\ IF1' = (Popped(4)[2] = 1)
  /\ mode' = "run"
  /\ UNCHANGED <<taskVars, picVars, kernelVars, vector, esp, done>>

-----------------------------------------------------------------------------
(* kernelMain *)

InKernel(where) == Running(Kernel) /\ main = where

BootTask(t) ==
  /\ InKernel("boot")
  /\ AddTask(t)
  /\ UNCHANGED <<picVars, cpuVars, kernelVars, done>>

(* Activate: an active manager is deactivated first, which sets            *)
(* ActiveInterruptManager to 0 and then turns interrupts off.              *)
CallActivate ==
  /\ main \in {"boot", "loop"} /\ Running(Kernel)
  /\ activations < MaxActivations
  /\ activations' = activations + 1
  /\ active' = FALSE
  /\ main' = IF active THEN "cli" ELSE "activate"
  /\ UNCHANGED <<taskVars, picVars, cpuVars, done>>

DisableInterrupts ==
  /\ InKernel("cli")
  /\ IF1' = FALSE
  /\ main' = "activate"
  /\ UNCHANGED <<taskVars, picVars, cpu, stack, mode, vector, esp, active, activations, done>>

Activate ==
  /\ InKernel("activate")
  /\ active' = TRUE
  /\ IF1' = TRUE
  /\ main' = "loop"
  /\ UNCHANGED <<taskVars, picVars, cpu, stack, mode, vector, esp, activations, done>>

-----------------------------------------------------------------------------
Device == \E q \in Lines : Raise(q) /\ UNCHANGED <<taskVars, cpuVars, kernelVars, done>>

Timer == Raise(0) /\ UNCHANGED <<taskVars, cpuVars, kernelVars, done>>

Next ==
  \/ Device
  \/ Interrupt
  \/ HandleInterrupt
  \/ Return
  \/ \E x \in Contexts : Execute(x) \/ SystemCall(x)
  \/ \E x \in Contexts, v \in Exceptions : Exception(x, v)
  \/ \E t \in Tasks : BootTask(t)
  \/ CallActivate \/ DisableInterrupts \/ Activate

(* The clock keeps ticking, the processor keeps executing, and kernelMain  *)
(* gets to Activate.                                                       *)
Fairness ==
  /\ WF_vars(Timer)
  /\ WF_vars(Interrupt) /\ WF_vars(HandleInterrupt) /\ WF_vars(Return)
  /\ WF_vars(CallActivate /\ main = "boot") /\ WF_vars(DisableInterrupts) /\ WF_vars(Activate)

Spec == Init /\ [][Next]_vars /\ Fairness

-----------------------------------------------------------------------------
(* Properties *)

Words == {"eflags", "cs", "eip", "error", "regs", "local", "none"} \X Nat

(* Pointers point into stacks, and tasks[] is not written past its end.    *)
TypeOK ==
  /\ tasks \in Seq(Tasks) /\ numTasks <= MaxTasks
  /\ currentTask \in -1..(numTasks - 1)
  /\ cpustate \in [Tasks -> Contexts \X Nat]
  /\ irr \subseteq Lines /\ master \subseteq 0..7 /\ slave \subseteq 8..15
  /\ cpu \in [ctx : Contexts, eip : Words, regs : Words]
  /\ IF1 \in BOOLEAN /\ active \in BOOLEAN
  /\ stack \in [Contexts -> Seq(Words)]
  /\ mode \in {"run", "handle", "return"} /\ vector \in 0..255
  /\ esp \in Contexts \X Nat
  /\ main \in {"boot", "activate", "cli", "loop"}
  /\ activations \in 0..MaxActivations
  /\ done \in [Contexts -> 0..(Turns - 1)]

(* The frame of five words at height d of context x continues x where it   *)
(* was left.                                                               *)
Continues(x, d) ==
  /\ d = Len(stack[x])
  /\ SubSeq(stack[x], 1, d - FrameWords) = Locals(done[x])
  /\ stack[x][d] = Word("regs", done[x])
  /\ stack[x][d - 2] = Word("eip", done[x])
  /\ stack[x][d - 4] = Word("eflags", 1)

(* Whatever interrupts it and however often the scheduler switches, a      *)
(* context goes on with the instruction and the registers it was left      *)
(* with, on a stack that is as high as it was; and a task that waits has   *)
(* its state on its own stack, under the pointer the scheduler keeps.      *)
ContextPreserved ==
  mode = "run" =>
    /\ cpu.eip = Word("eip", done[cpu.ctx]) /\ cpu.regs = Word("regs", done[cpu.ctx])
    /\ stack[cpu.ctx] = Locals(done[cpu.ctx])
    /\ \A t \in Tasks \ {cpu.ctx} : cpustate[t][1] = t /\ Continues(t, cpustate[t][2])

(* Once a task runs, the processor never comes back to kernelMain          *)
(* (the comment above Activate in kernel.cpp).                             *)
KernelNeverResumed == [][cpu.ctx # Kernel => cpu'.ctx # Kernel]_vars

(* When the interrupted program goes on, every interrupt has been          *)
(* acknowledged at the controllers it came through: none blocks a later    *)
(* one.  Only while Activate is called once: an interrupt that comes       *)
(* between the two statements of Deactivate finds no manager, and is never *)
(* acknowledged.                                                           *)
Acknowledged == mode = "run" /\ activations <= 1 => master = {} /\ slave = {}

(* What a handler is given as a CPUState has in its field eip what the     *)
(* processor pushed as eip (the comment in struct CPUState).               *)
FrameIsCPUState ==
  mode = "handle" =>
    /\ esp[2] >= FrameWords
    /\ stack[esp[1]][esp[2] - 2][1] = "eip"

(* Round robin serves everyone: every task that was added runs again and   *)
(* again, whatever the other tasks and devices do, unless Activate is      *)
(* called a second time.                                                   *)
EveryTaskRuns ==
  \A t \in Tasks :
    (main = "loop" /\ t \in Range(tasks)) ~> ((mode = "run" /\ cpu.ctx = t) \/ activations > 1)

=============================================================================
