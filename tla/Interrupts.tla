---------------------------- MODULE Interrupts ----------------------------
(***************************************************************************)
(* Interrupts from the device to the handler: the order of initialisation, *)
(* the two 8259 controllers with their masks, priorities and EOIs, the     *)
(* IDT, the handlers of PIT, keyboard and RTC on the stacks of the tasks,  *)
(* and the scan codes the keyboard handler reads.                          *)
(* (i8259.c, IDT.c, IDT_asm.S, kernel.c, scheduling.c, RTC_handler.c)      *)
(*                                                                         *)
(* The gates are trap gates: a handler runs with interrupts enabled, and   *)
(* what keeps others away is the bit of its line in the controller until   *)
(* its EOI.  The PIT has the highest priority.  It may interrupt a handler *)
(* before that handler's EOI and take the CPU to another task, with the    *)
(* line still in service.                                                  *)
(***************************************************************************)
EXTENDS Keys, Sequences

CONSTANTS
    MAX_TERM_N,  \* number of tasks (3 in the build)
    Codes,       \* press codes of the keys the user has
    MaxPresses   \* bound: press codes sent while a key is held down

ASSUME InterruptsAssumption ==
    /\ MAX_TERM_N \in Nat \ {0}
    /\ Codes \subseteq 1..(BASE_KB_SIZE - 1)
    /\ MaxPresses \in 1..15  \* the 16th would carry into the next digit

PIT_IRQ_NUM  == 0
KB_IRQ       == 1
ICW3_SLAVE   == 2
RTC_IRQ_ADDR == 8
Lines == {PIT_IRQ_NUM, KB_IRQ, RTC_IRQ_ADDR}
Tasks == 0..(MAX_TERM_N - 1)
NoCode == 0

VARIABLES
    boot,         \* the next step of entry() and of the init functions
    unmasked,     \* lines enabled in master_mask and slave_mask
    present,      \* lines whose gate in the IDT is present
    irr,          \* lines that request an interrupt
    in_service,   \* lines whose EOI is awaited, the cascade included
    stack,        \* task -> the handlers interrupted or running on its stack
    active_task,
    launched,     \* tasks whose shell has been started
    reg_c_read,   \* has the RTC's register C been read since it interrupted?
    outbuf,       \* the scan code the keyboard controller holds
    key_status,
    presses,      \* modifier -> press codes sent since it is held down
    caps          \* is Caps Lock on, as its user sees it?

picVars == << boot, unmasked, present >>
kbVars == << outbuf, key_status, presses, caps >>
vars == << picVars, irr, in_service, stack, active_task, launched,
           reg_c_read, kbVars >>

Held == Modifiers \cap Codes

Init ==
    /\ boot = 1
    /\ unmasked = {} /\ present = {} /\ irr = {} /\ in_service = {}
    /\ stack = [t \in Tasks |-> << >>]
    /\ active_task = 0 /\ launched = {}
    /\ reg_c_read = TRUE
    /\ outbuf = NoCode /\ key_status = 0 /\ caps = FALSE
    /\ presses = [k \in Held |-> 0]

-----------------------------------------------------------------------------
(* entry().  enable_irq and set_IDT_wrapper are called in this order by    *)
(* each device's init function; init_IDT has left the gates of all devices *)
(* not present.                                                            *)

Step(what, line) == [do |-> what, line |-> line]

\* Mutant: interrupts are enabled before the last device is set up.
BootSteps_EarlySti ==
    << Step("enable_irq", ICW3_SLAVE),
       Step("enable_irq", KB_IRQ), Step("set_IDT_wrapper", KB_IRQ),
       Step("BIT_6_SWITCH", RTC_IRQ_ADDR),
       Step("enable_irq", RTC_IRQ_ADDR), Step("set_IDT_wrapper", RTC_IRQ_ADDR),
       Step("sti", 0),
       Step("enable_irq", PIT_IRQ_NUM), Step("set_IDT_wrapper", PIT_IRQ_NUM),
       Step("execute", 0) >>

BootSteps ==
    << Step("enable_irq", ICW3_SLAVE),
       Step("enable_irq", KB_IRQ), Step("set_IDT_wrapper", KB_IRQ),
       Step("BIT_6_SWITCH", RTC_IRQ_ADDR),
       Step("enable_irq", RTC_IRQ_ADDR), Step("set_IDT_wrapper", RTC_IRQ_ADDR),
       Step("enable_irq", PIT_IRQ_NUM), Step("set_IDT_wrapper", PIT_IRQ_NUM),
       Step("sti", 0),
       Step("execute", 0) >>

Booted(what) == \E n \in 1..(boot - 1) : BootSteps[n].do = what
IntFlag == Booted("sti")

Boot ==
    /\ boot <= Len(BootSteps)
    /\ active_task = 0 /\ stack[0] = << >>
    /\ LET step == BootSteps[boot]
       IN  /\ unmasked' = IF step.do = "enable_irq"
                          THEN unmasked \cup {step.line} ELSE unmasked
           /\ present' = IF step.do = "set_IDT_wrapper"
                         THEN present \cup {step.line} ELSE present
           /\ launched' = IF step.do = "execute" THEN {0} ELSE launched
    /\ boot' = boot + 1
    /\ UNCHANGED << irr, in_service, stack, active_task, reg_c_read, kbVars >>

-----------------------------------------------------------------------------
(* The devices.  The period of the PIT is longer than its handler; the RTC *)
(* is silent until its register C is read; the keyboard may be used once   *)
(* i8259_init has reset the controllers.                                   *)

Tick ==
    /\ {PIT_IRQ_NUM} \cap (irr \cup in_service) = {}
    /\ irr' = irr \cup {PIT_IRQ_NUM}
    /\ UNCHANGED << picVars, in_service, stack, active_task, launched,
                    reg_c_read, kbVars >>

RtcInterrupt ==
    /\ Booted("BIT_6_SWITCH") /\ reg_c_read
    /\ irr' = irr \cup {RTC_IRQ_ADDR}
    /\ reg_c_read' = FALSE
    /\ UNCHANGED << picVars, in_service, stack, active_task, launched, kbVars >>

\* The user presses, holds or releases a key and the controller has room.
KeyEvent(code) ==
    /\ outbuf = NoCode
    /\ boot > 1
    /\ outbuf' = code
    /\ irr' = irr \cup {KB_IRQ}
    /\ UNCHANGED << picVars, in_service, stack, active_task, launched,
                    reg_c_read, key_status >>

KeyPressed(code) ==
    /\ KeyEvent(code)
    /\ IF code \in Held
       THEN /\ presses[code] < MaxPresses
            /\ presses' = [presses EXCEPT ![code] = @ + 1]
       ELSE UNCHANGED presses
    /\ caps' = (caps # (code = CAPS_PRESSED))

KeyReleased(code) ==
    /\ KeyEvent(Released(code))
    /\ presses[code] > 0
    /\ presses' = [presses EXCEPT ![code] = 0]
    /\ UNCHANGED caps

-----------------------------------------------------------------------------
(* The controllers. *)

Master(line) == IF line < 8 THEN line ELSE ICW3_SLAVE

Requesting(line) ==
    /\ line \in irr /\ {line, Master(line)} \subseteq unmasked
    /\ \A s \in in_service : s < 8 => s > Master(line)
    /\ line >= 8 => line \notin in_service

(* The request of highest priority interrupts the running task, before its *)
(* next instruction.                                                       *)
Interrupted == IntFlag /\ \E line \in Lines : Requesting(line)

Deliver(line) ==
    /\ IntFlag
    /\ Requesting(line)
    /\ \A l \in Lines : Requesting(l) => Master(l) >= Master(line)
    /\ irr' = irr \ {line}
    /\ in_service' = in_service \cup {line, Master(line)}
    /\ stack' = [stack EXCEPT ![active_task] =
                    Append(@, [line |-> line, acked |-> FALSE])]
    /\ UNCHANGED << picVars, active_task, launched, reg_c_read, kbVars >>

\* Mutant: the master hears nothing of an interrupt of the slave.
send_eoi_SlaveOnly(line) == in_service' = in_service \ {line}

\* Specific EOIs: to the slave, and to the master for the slave's input.
send_eoi(line) == in_service' = in_service \ {line, Master(line)}

-----------------------------------------------------------------------------
(* The handlers, on the stack of task t. *)

Top(t) == stack[t][Len(stack[t])]
Handling(t, line, acked) ==
    /\ t = active_task /\ ~Interrupted
    /\ stack[t] # << >>
    /\ Top(t) = [line |-> line, acked |-> acked]

Acked(t) == [stack EXCEPT ![t][Len(stack[t])].acked = TRUE]
Popped(t) == [stack EXCEPT ![t] = SubSeq(@, 1, Len(@) - 1)]

kb_int_handler(t) ==
    \/ /\ Handling(t, KB_IRQ, FALSE)
       /\ send_eoi(KB_IRQ)
       /\ stack' = Acked(t)
       /\ UNCHANGED << picVars, irr, active_task, launched, reg_c_read,
                       kbVars >>
    \/ /\ Handling(t, KB_IRQ, TRUE)
       /\ key_status' = NewStatus(key_status, outbuf)
       /\ outbuf' = NoCode
       /\ stack' = Popped(t)
       /\ UNCHANGED << picVars, irr, in_service, active_task, launched,
                       reg_c_read, presses, caps >>

rtc_handler(t) ==
    \/ /\ Handling(t, RTC_IRQ_ADDR, FALSE)
       /\ send_eoi(RTC_IRQ_ADDR)
       /\ stack' = Acked(t)
       /\ UNCHANGED << picVars, irr, active_task, launched, reg_c_read,
                       kbVars >>
    \/ /\ Handling(t, RTC_IRQ_ADDR, TRUE)
       /\ reg_c_read' = TRUE
       /\ stack' = Popped(t)
       /\ UNCHANGED << picVars, irr, in_service, active_task, launched,
                       kbVars >>

Incoming(t) == (t + 1) % MAX_TERM_N

(* task_switch: before the first shell it only acknowledges.  To a task    *)
(* with a shell it goes by loading that task's stack, on which the handler *)
(* then returns; the outgoing task stays in its handler.  For a task       *)
(* without one it starts a shell, having sent the EOI first.               *)
task_switch(t) ==
    /\ Handling(t, PIT_IRQ_NUM, FALSE)
    /\ send_eoi(PIT_IRQ_NUM)
    /\ \/ /\ t \notin launched
          /\ stack' = Popped(t)
          /\ UNCHANGED << active_task, launched >>
       \/ /\ t \in launched /\ Incoming(t) \in launched
          /\ stack' = [Acked(t) EXCEPT ![Incoming(t)] =
                          SubSeq(@, 1, Len(@) - 1)]
          /\ active_task' = Incoming(t)
          /\ UNCHANGED launched
       \/ /\ t \in launched /\ Incoming(t) \notin launched
          /\ stack' = Acked(t)
          /\ active_task' = Incoming(t)
          /\ launched' = launched \cup {Incoming(t)}
    /\ UNCHANGED << picVars, irr, reg_c_read, kbVars >>

Handler(t) == kb_int_handler(t) \/ rtc_handler(t) \/ task_switch(t)

-----------------------------------------------------------------------------
Next ==
    \/ Boot
    \/ Tick
    \/ RtcInterrupt
    \/ \E code \in Codes : KeyPressed(code)
    \/ \E code \in Held : KeyReleased(code)
    \/ \E line \in Lines : Deliver(line)
    \/ \E t \in Tasks : Handler(t)

(* The PIT goes on ticking, the CPU takes the interrupts the controllers   *)
(* raise, and a time slice is long enough for the task to get on with what *)
(* it does.                                                                *)
Fairness ==
    /\ SF_vars(Boot)
    /\ WF_vars(Tick)
    /\ \A line \in Lines : SF_vars(Deliver(line))
    /\ WF_vars(\E t \in Tasks : task_switch(t))
    /\ \A t \in Tasks : SF_vars(kb_int_handler(t) \/ rtc_handler(t))

Spec == Init /\ [][Next]_vars /\ Fairness

-----------------------------------------------------------------------------
Frames == UNION {{<< t, n >> : n \in 1..Len(stack[t])} : t \in Tasks}
Owing(line) == {f \in Frames : stack[f[1]][f[2]] =
                                  [line |-> line, acked |-> FALSE]}

(* A line is in service exactly while one handler of it, running or        *)
(* interrupted, on the stack of whichever task, has yet to send its EOI:   *)
(* none is lost when task_switch leaves a handler for another stack, and   *)
(* none is sent for a line that is not in service.                         *)
EoiOwed ==
    /\ in_service \ {ICW3_SLAVE} = {l \in Lines : Owing(l) # {}}
    /\ (ICW3_SLAVE \in in_service) = (RTC_IRQ_ADDR \in in_service)
    /\ \A l \in Lines : \A f, g \in Owing(l) : f = g

(* Once interrupts are enabled, every line that may interrupt has a gate   *)
(* that is present: init_IDT marks all of them not present, and the init   *)
(* functions enable a line before they set its gate.                       *)
GateReady == IntFlag => unmasked \cap Lines \subseteq present

OnlyHeld(k, n) ==
    k \in Held /\ presses = [j \in Held |-> IF j = k THEN n ELSE 0]
A_PRESSED == 30

(* When every scan code has been read, a key does what the modifiers that  *)
(* are down call for, on whichever tasks' stacks the codes were handled.   *)
(* With none down, however often its press code was repeated, a letter is  *)
(* looked up by Caps Lock alone, and L and F1 are no commands; with Shift  *)
(* or Alt just pressed, get_scan_code takes the shifted table or switches  *)
(* terminals.                                                              *)
KeysAgree ==
    outbuf = NoCode =>
        /\ (\A k \in Held : presses[k] = 0) =>
              \A code \in {A_PRESSED, L_PRESSED, FN(1)} :
                  Effect(key_status, code) = IF caps THEN "caps" ELSE "base"
        /\ OnlyHeld(SHIFT_PRESSED, 1) =>
              Effect(key_status, A_PRESSED) = IF caps THEN "both" ELSE "shift"
        /\ OnlyHeld(ALT_PRESSED, 1) => Effect(key_status, FN(1)) = "switch"

(* Every request is served, also when the handler that holds the line was  *)
(* interrupted before its EOI and its task waits for its turn.             *)
IrqServed ==
    \A line \in Lines : (line \in irr) ~> (line \notin irr)
=============================================================================
