------------------------------- MODULE Procs -------------------------------
(***************************************************************************)
(* The process table of bozOS and everything that changes it: boot, the    *)
(* execute and halt system calls, and task_switch, the PIT handler.        *)
(* (multi_term.c, syscalls.c, scheduling.c, kernel.c)                      *)
(*                                                                         *)
(* A process is its slot number.  Slot p owns a PCB, an 8 KiB kernel stack *)
(* and a 4 MiB user page, all three at addresses computed from p.  Each of *)
(* the three terminals keeps a linked list of PCBs, from its base shell    *)
(* (pcb_head) through child_pcb to the program in the foreground, the only *)
(* one of the list that runs.                                              *)
(*                                                                         *)
(* Atomicity.  execute and halt start with cli().  task_switch runs with   *)
(* the PIT, the highest priority line of the PIC, in service until its     *)
(* send_eoi, so nothing nests in it before that.  Each is one action.      *)
(***************************************************************************)
EXTENDS Integers

CONSTANTS
    MAX_PROCESSES,     \* number of slots (6 in the build)
    NULL,              \* the null pointer
    Status,            \* exit statuses that programs pass to halt
    ExecBeforeShells   \* may programs run before all base shells are up?

Pids  == 0..(MAX_PROCESSES - 1)
Terms == 0..2

PROG_DIED_BY_EXCEPTION == 255

\* Three base shells have to fit.
ASSUME ProcsAssumption ==
    /\ MAX_PROCESSES \in Nat /\ MAX_PROCESSES >= 3
    /\ NULL \notin Int
    /\ Status \subseteq 0..255 /\ PROG_DIED_BY_EXCEPTION \in Status
    /\ ExecBeforeShells \in BOOLEAN

VARIABLES
    process_usage,  \* slot -> NOT_USED or IN_USE
    pcb_head,       \* terminal -> base of its PCB list, or NULL
    child_pcb,      \* slot -> next PCB of the list, or NULL
    active_task,    \* the terminal whose foreground program runs
    page,           \* physical page mapped at USER_MEM_V, or NULL
    esp0,           \* tss.esp0: kernel stack the next kernel entry uses
    self_esp,       \* slot -> frame of the execute() that created it
    esp_switch,     \* slot -> frame in which task_switch left it
    kstack,         \* slot -> the frame live on its kernel stack
    cpu,            \* the process the CPU executes; NULL while booting
    ret             \* what execute just returned to cpu; NULL: nothing

vars == << process_usage, pcb_head, child_pcb, active_task, page, esp0,
           self_esp, esp_switch, kstack, cpu, ret >>

-----------------------------------------------------------------------------
(* Memory layout: what execute computes from the slot number. *)

KERNEL_BASE    == 8388608
PCB_OFFSET     == 8192
USER_MEM_P     == 8388608
USER_PROG_SIZE == 4194304

get_PCB_base(p) == KERNEL_BASE - (p + 1) * PCB_OFFSET
SelfKStack(p)   == KERNEL_BASE - p * PCB_OFFSET - 4
SelfPage(p)     == USER_MEM_P + p * USER_PROG_SIZE

(* A saved ESP/EBP pair points at a frame on the kernel stack of slot "on":*)
(* a call of execute, or a task_switch interrupted half way.  kstack[p]    *)
(* says what is really there: "run" when p is not suspended (its stack is  *)
(* rewritten by the next kernel entry), else the kind of p's last frame.   *)
FrameKinds == {"exec", "tick"}
Frame(on, kind) == [on |-> on, kind |-> kind]
Frames == [on : Pids, kind : FrameKinds]
Live(f) == kstack[f.on] = f.kind

\* The boot stack (boot.S) starts where slot 0's kernel stack does.
CurStack == IF cpu = NULL THEN 0 ELSE cpu

-----------------------------------------------------------------------------
(* PCB lists.  Chain(t) is what the loops over child_pcb visit: the least  *)
(* set that holds the head and is closed under child_pcb.                  *)

Closed(child, S) == \A p \in S : child[p] \in S \cup {NULL}
ChainFrom(head, child) ==
    {p \in Pids : \A S \in SUBSET Pids :
        head \in S \cup {NULL} /\ Closed(child, S) => p \in S}
Chain(t) == ChainFrom(pcb_head[t], child_pcb)

IsTail(t, p) == p \in Chain(t) /\ child_pcb[p] = NULL

\* Mutant: the lookup does not walk the list.
get_PCB_tail_NoWalk(t) == pcb_head[t]

get_PCB_tail(t) == IF pcb_head[t] = NULL THEN NULL
                   ELSE CHOOSE p \in Pids : IsTail(t, p)

IsFull(usage) == \A p \in Pids : usage[p] = "IN_USE"
IsLowestFree(usage, p) ==
    usage[p] = "NOT_USED" /\ \A q \in Pids : q < p => usage[q] = "IN_USE"

\* Mutant: pid taken as counted from 1.
unset_process_usage_OffByOne(p) ==
    [process_usage EXCEPT ![p - 1] = "NOT_USED"]

\* The usage table after unset_process_usage(p).
unset_process_usage(p) == [process_usage EXCEPT ![p] = "NOT_USED"]

\* add_PCB(t) started from the given usage table and heads, taking slot p.
add_PCB(usage, heads, t, p) ==
    /\ IsLowestFree(usage, p)
    /\ process_usage' = [usage EXCEPT ![p] = "IN_USE"]
    /\ IF heads[t] = NULL
       THEN /\ pcb_head' = [heads EXCEPT ![t] = p]
            /\ UNCHANGED child_pcb
       ELSE /\ pcb_head' = heads
            /\ child_pcb' = [child_pcb EXCEPT ![get_PCB_tail(t)] = p]

\* Mutant: tss.esp0 is left at the old kernel stack.
SetPageAndStack_NoStack(p) == page' = SelfPage(p) /\ UNCHANGED esp0

\* Mutant: the page is computed as get_PCB_base computes its address.
SetPageAndStack_NextPage(p) == page' = SelfPage(p + 1) /\ esp0' = SelfKStack(p)

\* Give the CPU the user page and the kernel stack of p.
SetPageAndStack(p) ==
    /\ page' = SelfPage(p)
    /\ esp0' = SelfKStack(p)

\* Mutant: the caller's frame is recorded only in a PCB that has none yet.
StartProcess_StaleCaller(p, below) ==
    /\ SetPageAndStack(p)
    /\ self_esp' = IF self_esp[p] # NULL THEN self_esp
                   ELSE [self_esp EXCEPT ![p] = Frame(CurStack, "exec")]
    /\ kstack' = [kstack EXCEPT ![CurStack] = below, ![p] = "run"]
    /\ cpu' = p
    /\ ret' = NULL

(* The rest of a successful execute, for the new process p: map its page,  *)
(* fill in its PCB (child_pcb is NOT among the fields it writes), point    *)
(* tss.esp0 at its kernel stack and IRET into it.  The frame that calls    *)
(* execute is on the current stack, whose last frame is then "below".      *)
StartProcess(p, below) ==
    LET caller == Frame(CurStack, "exec")
    IN  /\ SetPageAndStack(p)
        /\ self_esp' = [self_esp EXCEPT ![p] = caller]
        /\ kstack' = [kstack EXCEPT ![CurStack] = below, ![p] = "run"]
        /\ cpu' = p
        /\ ret' = NULL

-----------------------------------------------------------------------------
(* multi_term_init and pit_init, run with interrupts off.  The PCBs lie in *)
(* memory no code initialises; the emulator hands it over zeroed, and that *)
(* is the NULL every child_pcb starts with.                                *)
Init ==
    /\ process_usage = [p \in Pids |-> "NOT_USED"]
    /\ pcb_head = [t \in Terms |-> NULL]
    /\ child_pcb = [p \in Pids |-> NULL]
    /\ active_task = 0
    /\ page = NULL
    /\ esp0 = NULL
    /\ self_esp = [p \in Pids |-> NULL]
    /\ esp_switch = [p \in Pids |-> NULL]
    /\ kstack = [p \in Pids |-> "run"]
    /\ cpu = NULL
    /\ ret = NULL

\* execute("shell") at the end of entry() in kernel.c.
Boot ==
    /\ cpu = NULL
    /\ \E p \in Pids :
          /\ add_PCB(process_usage, pcb_head, active_task, p)
          /\ StartProcess(p, "exec")
          /\ esp_switch' = [esp_switch EXCEPT ![p] = Frame(CurStack, "exec")]
    /\ UNCHANGED active_task

(* Until the PIT has launched the other two base shells, two ticks after   *)
(* boot, the first shell waits for a line to be typed.  A program runs in  *)
(* that window only if ExecBeforeShells.                                   *)
ShellsUp == \A t \in Terms : pcb_head[t] # NULL

\* The execute system call, made by the running program.
Execute ==
    /\ cpu # NULL /\ (ShellsUp \/ ExecBeforeShells)
    /\ \E p \in Pids :
          /\ add_PCB(process_usage, pcb_head, active_task, p)
          /\ StartProcess(p, "exec")
          /\ esp_switch' = [esp_switch EXCEPT ![p] = Frame(CurStack, "exec")]
    /\ UNCHANGED active_task

\* Its failures: no such executable (-1), or no slot left (256).
ExecuteFails ==
    /\ cpu # NULL /\ (ShellsUp \/ ExecBeforeShells)
    /\ \/ ret' = -1
       \/ IsFull(process_usage) /\ ret' = 256
    /\ UNCHANGED << process_usage, pcb_head, child_pcb, active_task, page,
                    esp0, self_esp, esp_switch, kstack, cpu >>

-----------------------------------------------------------------------------
(* halt, called by a program or, with status 255, by an exception handler. *)
(* It acts on the foreground process of active_task.  In a state where     *)
(* active_task has no process it dereferences NULL and faults for ever:    *)
(* the model then has no step.                                             *)

HaltStatus(status) == IF status = PROG_DIED_BY_EXCEPTION THEN 256 ELSE status

\* Resume the execute() that created the halting process.
HaltProgram(status) ==
    LET self == get_PCB_tail(active_task)
        frame == self_esp[self]
    IN  /\ cpu # NULL /\ self # NULL
        /\ pcb_head[active_task] # self
        /\ process_usage' = unset_process_usage(self)
        /\ \E parent \in Chain(active_task) :
              /\ child_pcb[parent] = self
              /\ child_pcb' = [child_pcb EXCEPT ![parent] = NULL]
              /\ SetPageAndStack(parent)
        /\ cpu' = frame.on
        /\ kstack' = [kstack EXCEPT ![frame.on] = "run"]
        /\ ret' = HaltStatus(status)
        /\ UNCHANGED << pcb_head, active_task, self_esp, esp_switch >>

\* A base shell that halts is replaced by a new one, in the lowest free slot.
HaltBaseShell ==
    LET self == get_PCB_tail(active_task)
        usage == unset_process_usage(self)
        heads == [pcb_head EXCEPT ![active_task] = NULL]
    IN  /\ cpu # NULL /\ self # NULL
        /\ pcb_head[active_task] = self
        /\ \E p \in Pids :
              /\ add_PCB(usage, heads, active_task, p)
              /\ StartProcess(p, "exec")
              /\ esp_switch' = [esp_switch EXCEPT
                                  ![p] = Frame(CurStack, "exec")]
        /\ UNCHANGED active_task

(* The handlers of the 20 exceptions and of the reserved vectors differ in *)
(* what they print only.                                                   *)
handle_exception == HaltProgram(PROG_DIED_BY_EXCEPTION) \/ HaltBaseShell

-----------------------------------------------------------------------------
(* task_switch, the PIT handler.  Its early return, taken while the        *)
(* outgoing terminal has no process, changes nothing and is a stuttering   *)
(* step.                                                                   *)

\* Mutant: the outgoing stack pointer is not saved.
SavedAtTick_Forgotten(outgoing) == esp_switch

\* esp_switch once the outgoing process has its stack pointer saved.
SavedAtTick(outgoing) ==
    [esp_switch EXCEPT ![outgoing] = Frame(cpu, "tick")]

\* Mutant: the third terminal is left out of the rotation.
NextTask_OfTwo == (active_task + 1) % 2

NextTask == (active_task + 1) % 3

\* Switch to the foreground process of the next terminal.
SwitchTo ==
    LET outgoing == get_PCB_tail(active_task)
        incoming == get_PCB_tail(NextTask)
        frame == esp_switch[incoming]
    IN  /\ cpu # NULL /\ outgoing # NULL /\ incoming # NULL
        /\ active_task' = NextTask
        /\ SetPageAndStack(incoming)
        /\ esp_switch' = SavedAtTick(outgoing)
        /\ kstack' = [kstack EXCEPT ![cpu] = "tick", ![frame.on] = "run"]
        /\ cpu' = frame.on
        /\ ret' = NULL
        /\ UNCHANGED << process_usage, pcb_head, child_pcb, self_esp >>

\* The next terminal has no shell yet: launch it.
Launch ==
    LET outgoing == get_PCB_tail(active_task)
    IN  /\ cpu # NULL /\ outgoing # NULL
        /\ get_PCB_tail(NextTask) = NULL
        /\ active_task' = NextTask
        /\ \E p \in Pids :
              /\ add_PCB(process_usage, pcb_head, NextTask, p)
              /\ StartProcess(p, "tick")
              /\ esp_switch' = [SavedAtTick(outgoing) EXCEPT
                                  ![p] = Frame(cpu, "exec")]

\* The launch finds no free slot, and task_switch returns to its caller.
LaunchFails ==
    LET outgoing == get_PCB_tail(active_task)
    IN  /\ cpu # NULL /\ outgoing # NULL
        /\ get_PCB_tail(NextTask) = NULL
        /\ IsFull(process_usage)
        /\ active_task' = NextTask
        /\ esp_switch' = SavedAtTick(outgoing)
        /\ ret' = NULL
        /\ UNCHANGED << process_usage, pcb_head, child_pcb, page, esp0,
                        self_esp, kstack, cpu >>

TaskSwitch == SwitchTo \/ Launch \/ LaunchFails

Next ==
    \/ Boot
    \/ Execute
    \/ ExecuteFails
    \/ \E status \in Status : HaltProgram(status)
    \/ HaltBaseShell
    \/ handle_exception
    \/ SwitchTo
    \/ Launch
    \/ LaunchFails

\* The PIT ticks for ever and user code runs with interrupts enabled.
Fairness == WF_vars(Boot) /\ WF_vars(TaskSwitch)

Spec == Init /\ [][Next]_vars /\ Fairness

-----------------------------------------------------------------------------
(* Every variable keeps its type. *)
TypeOK ==
    /\ process_usage \in [Pids -> {"NOT_USED", "IN_USE"}]
    /\ pcb_head \in [Terms -> Pids \cup {NULL}]
    /\ child_pcb \in [Pids -> Pids \cup {NULL}]
    /\ active_task \in Terms
    /\ page \in {SelfPage(p) : p \in Pids} \cup {NULL}
    /\ esp0 \in {SelfKStack(p) : p \in Pids} \cup {NULL}
    /\ self_esp \in [Pids -> Frames \cup {NULL}]
    /\ esp_switch \in [Pids -> Frames \cup {NULL}]
    /\ kstack \in [Pids -> FrameKinds \cup {"run"}]
    /\ cpu \in Pids \cup {NULL}
    /\ ret \in -1..256 \cup {NULL}

(* add_PCB links a slot into a list without writing the slot's own         *)
(* child_pcb, and execute never does either: a free slot must have been    *)
(* left with a NULL link by whoever used it last.                          *)
FreeSlotHasNoChild ==
    \A p \in Pids : process_usage[p] = "NOT_USED" => child_pcb[p] = NULL

(* The usage table and the three lists, written by different functions,    *)
(* agree: a slot is in use iff it is on a list, and on one list only.      *)
SlotsMatchLists ==
    /\ \A p \in Pids : process_usage[p] = "IN_USE"
                          <=> \E t \in Terms : p \in Chain(t)
    /\ \A t, u \in Terms : t # u => Chain(t) \cap Chain(u) = {}

(* The loops over child_pcb end, always at the same PCB: a list that has a *)
(* head has one and only one foreground process.                           *)
OneForeground ==
    \A t \in Terms : pcb_head[t] # NULL =>
        /\ \E p \in Pids : IsTail(t, p)
        /\ \A p, q \in Pids : IsTail(t, p) /\ IsTail(t, q) => p = q

(* What task_switch and halt assume when they look up "the current" PCB:   *)
(* the CPU runs the foreground process of active_task, in that process's   *)
(* page and with tss.esp0 at that process's kernel stack.                  *)
RunningIsForeground ==
    cpu # NULL => /\ IsTail(active_task, cpu)
                  /\ page = SelfPage(cpu)
                  /\ esp0 = SelfKStack(cpu)

(* The same, with the one exception the code leaves open: if a launch finds*)
(* all slots taken, task_switch goes back to the old process although      *)
(* active_task is already the terminal without a shell.                    *)
RunningUnlessLaunchFailed ==
    cpu # NULL => /\ page = SelfPage(cpu)
                  /\ esp0 = SelfKStack(cpu)
                  /\ \/ IsTail(active_task, cpu)
                     \/ /\ pcb_head[active_task] = NULL
                        /\ IsFull(process_usage)

(* The frame task_switch will load for a waiting foreground process is one *)
(* that task_switch left on that process's own kernel stack, still there:  *)
(* never the stale pointer execute put in the new PCB.                     *)
WaitingFrameIsLive ==
    \A t \in Terms, p \in Pids : IsTail(t, p) /\ p # cpu =>
        esp_switch[p] = Frame(p, "tick") /\ Live(esp_switch[p])

(* The frame halt will jump to for a child is the execute() call of its    *)
(* parent, still live on the parent's stack whatever the other terminals   *)
(* did in the meantime.                                                    *)
CallerFrameIsLive ==
    \A p, q \in Pids : child_pcb[q] = p =>
        self_esp[p] = Frame(q, "exec") /\ Live(self_esp[p])

(* When a process leaves its parent's list, the CPU goes on in that parent,*)
(* in the parent's page and on the parent's kernel stack.                  *)
HaltReturnsToParent ==
    [][\A q \in Pids : child_pcb[q] # NULL /\ child_pcb'[q] = NULL =>
          cpu' = q /\ page' = SelfPage(q) /\ esp0' = SelfKStack(q)]_vars

(* task_switch shares the CPU: every terminal gets a shell, and its        *)
(* foreground process runs again and again.                                *)
EveryTerminalRuns ==
    \A t \in Terms : []<>(cpu # NULL /\ IsTail(t, cpu))
=============================================================================
