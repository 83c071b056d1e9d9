-------------------------------- MODULE Rtc --------------------------------
(***************************************************************************)
(* The real-time clock: its interrupt handler, rtc_read, which waits for an*)
(* interrupt, and rtc_write and rtc_open, which set the one rate all       *)
(* terminals share.  (RTC_handler.c)                                       *)
(*                                                                         *)
(* The chip's registers are reached through an index port and a data port: *)
(* select a register, then read or write it.  The handler does that too,   *)
(* and it runs, like everything here, with interrupts enabled.             *)
(*                                                                         *)
(* Atomicity.  A step is one port access or one access to a flag.  The PIT *)
(* may switch tasks, and the clock may interrupt, between any two.  The    *)
(* history variable crossed tells whether a selection has come between     *)
(* another selection and the access it was for.                            *)
(***************************************************************************)
EXTENDS Integers, Sequences, FiniteSetsExt

CONSTANTS
    MAX_TERM_N,  \* number of terminals (3 in the build)
    INIT_RATE,   \* the rate rtc_open sets
    Rates,       \* the rates, in Hz, that programs ask for
    MaxNested,   \* bound on handlers half way on one stack
    MaxOwed      \* bound of the history variable owed

Terms == 0..(MAX_TERM_N - 1)

ASSUME RtcAssumption ==
    /\ MAX_TERM_N \in Nat \ {0}
    /\ Rates \subseteq Int /\ INIT_RATE \in Rates
    /\ INIT_RATE \in {2, 4, 8, 16, 32, 64, 128, 256, 512}
    \* One interrupt may be left over when the next one comes.
    /\ MaxOwed \in Nat /\ MaxOwed >= 2
    /\ MaxNested \in Nat \ {0}

VARIABLES
    active_task,     \* the terminal whose program runs
    interrupt_flag,  \* terminal -> has an interrupt come?
    handler,         \* task -> the handlers on its stack: their next steps
    call,            \* task -> its rtc_read or rtc_write
    index,           \* the register the index port selects
    raised,          \* has the chip raised an interrupt, C not yet read?
    regA,            \* register A: the clock's divider and the rate
    owed,            \* history: task -> interrupts that began, less reads
                     \* that returned, since the last one that counted
    crossed          \* history: has a selection met one not yet used?

vars == << active_task, interrupt_flag, handler, call, index, raised, regA,
           owed, crossed >>

\* The handler's steps: a flag for each terminal, the last one with the EOI,
\* then "select C" and "read C".
SelectC == MAX_TERM_N
ReadC   == MAX_TERM_N + 1
Steps   == 0..ReadC

NoCall == [pc |-> "none", rate |-> INIT_RATE, previous |-> "divider"]

Init ==
    /\ active_task = 0
    /\ interrupt_flag = [t \in Terms |-> 0]
    /\ handler = [t \in Terms |-> << >>]
    /\ call = [t \in Terms |-> NoCall]
    /\ index = "B" /\ raised = FALSE
    /\ regA = [upper |-> "divider", code |-> 6]
    /\ owed = [t \in Terms |-> 0]
    /\ crossed = FALSE

-----------------------------------------------------------------------------
(* rtc_handler: one store per terminal, then register C is read. *)

\* A handler, on whichever stack, is at a step of S.
HandlerIn(S) == \E t \in Terms : \E k \in DOMAIN handler[t] : handler[t][k] \in S

(* The chip counts with its divider only, and raises no second interrupt   *)
(* before its register C has been read; the PIC passes none on before the  *)
(* EOI of the last one.                                                    *)
Irq ==
    /\ ~raised /\ regA.upper = "divider"
    /\ ~HandlerIn(0..(SelectC - 1)) /\ Len(handler[active_task]) < MaxNested
    /\ raised' = TRUE
    /\ handler' = [handler EXCEPT ![active_task] = << 0 >> \o @]
    /\ owed' = [t \in Terms |-> Min({owed[t] + 1, MaxOwed})]
    /\ UNCHANGED << active_task, interrupt_flag, call, index, regA, crossed >>

\* A call has selected register A and not accessed it yet.
CallSelected == \E t \in Terms : call[t].pc \in {"get", "put"}

\* The handler on top of the running task's stack does its next step.
StepDone(step) == handler' = [handler EXCEPT ![active_task] =
                     IF step = ReadC THEN Tail(@) ELSE << step + 1 >> \o Tail(@)]

\* Mutant: the flag of the last terminal is forgotten.
rtc_handler_ForgetsLast ==
    /\ handler[active_task] # << >>
    /\ LET step == Head(handler[active_task])
       IN  /\ interrupt_flag' = [t \in Terms |->
                 IF t = step /\ t # MAX_TERM_N - 1 THEN 1 ELSE interrupt_flag[t]]
           /\ index' = IF step = SelectC THEN "C" ELSE index
           /\ crossed' = (crossed \/ (step = SelectC /\ CallSelected))
           /\ raised' = (raised /\ ~(step = ReadC /\ index = "C"))
           /\ StepDone(step)
    /\ UNCHANGED << active_task, call, regA, owed >>

rtc_handler ==
    /\ handler[active_task] # << >>
    /\ LET step == Head(handler[active_task])
       IN  /\ interrupt_flag' = [t \in Terms |->
                 IF t = step THEN 1 ELSE interrupt_flag[t]]
           /\ index' = IF step = SelectC THEN "C" ELSE index
           /\ crossed' = (crossed \/ (step = SelectC /\ CallSelected))
           /\ raised' = (raised /\ ~(step = ReadC /\ index = "C"))
           /\ StepDone(step)
    /\ UNCHANGED << active_task, call, regA, owed >>

-----------------------------------------------------------------------------
(* The system calls.  A task whose kernel stack holds the handler does not *)
(* get on with its call before the handler has ended.                      *)

Runs(t) == active_task = t /\ handler[t] = << >>
At(t, pc) == Runs(t) /\ call[t].pc = pc
Goto(t, pc) == call' = [call EXCEPT ![t].pc = pc]
Enter(t, pc) == call' = [call EXCEPT ![t] = [NoCall EXCEPT !.pc = pc]]

ReadStart(t) ==
    /\ At(t, "none")
    /\ Enter(t, "spin")
    /\ UNCHANGED << active_task, interrupt_flag, handler, index, raised, regA,
                    owed, crossed >>

ReadSpin(t) ==
    /\ At(t, "spin") /\ interrupt_flag[t] # 0
    /\ Goto(t, "reset")
    /\ UNCHANGED << active_task, interrupt_flag, handler, index, raised, regA,
                    owed, crossed >>

\* Mutant: the flag is left set.
ReadReset_Kept(t) ==
    /\ At(t, "reset")
    /\ owed' = [owed EXCEPT ![t] = @ - 1]
    /\ Enter(t, "returned")
    /\ UNCHANGED << active_task, interrupt_flag, handler, index, raised, regA,
                    crossed >>

ReadReset(t) ==
    /\ At(t, "reset")
    /\ interrupt_flag' = [interrupt_flag EXCEPT ![t] = 0]
    /\ owed' = [owed EXCEPT ![t] = @ - 1]
    /\ Enter(t, "returned")
    /\ UNCHANGED << active_task, handler, index, raised, regA, crossed >>

\* The codes for 2, 4, ... 512 Hz, from the table of rtc_write.
OUT_RATE == << 15, 14, 13, 12, 11, 10, 9, 8, 7 >>
IsRate(rate) == \E k \in DOMAIN OUT_RATE : rate = 2^k

\* Mutant: the table is off by one.
OutRate_OffByOne(rate) == 15 - (CHOOSE k \in DOMAIN OUT_RATE : rate = 2^k)

OutRate(rate) == OUT_RATE[CHOOSE k \in DOMAIN OUT_RATE : rate = 2^k]

\* rtc_write, or rtc_open with INIT_RATE.  A rate that is not in the table
\* makes rtc_write return -1 and change nothing: no step.
WriteStart(t) ==
    /\ At(t, "none")
    /\ \E rate \in {r \in Rates : IsRate(r)} :
          call' = [call EXCEPT ![t] = [NoCall EXCEPT !.pc = "select",
                                                     !.rate = rate]]
    /\ UNCHANGED << active_task, interrupt_flag, handler, index, raised, regA,
                    owed, crossed >>

WriteSelect(t) ==
    /\ \/ At(t, "select") /\ Goto(t, "get")
       \/ At(t, "reselect") /\ Goto(t, "put")
       \/ At(t, "unmask") /\ Goto(t, "returned")
    /\ index' = "A"
    /\ crossed' = (crossed \/ HandlerIn({ReadC}))
    /\ UNCHANGED << active_task, interrupt_flag, handler, raised, regA, owed >>

(* The upper half of register A holds the divider, that of C flags; and to *)
(* read C acknowledges the interrupt, whoever does it.                     *)
WriteGet(t) ==
    /\ At(t, "get")
    /\ call' = [call EXCEPT ![t].pc = "reselect",
           ![t].previous = IF index = "A" THEN regA.upper ELSE "flags"]
    /\ raised' = (raised /\ index # "C")
    /\ UNCHANGED << active_task, interrupt_flag, handler, index, regA, owed,
                    crossed >>

\* Register C cannot be written.
WritePut(t) ==
    /\ At(t, "put")
    /\ regA' = IF index = "A" THEN [upper |-> call[t].previous,
                                    code  |-> OutRate(call[t].rate)]
                              ELSE regA
    /\ Enter(t, "unmask")
    /\ UNCHANGED << active_task, interrupt_flag, handler, index, raised, owed,
                    crossed >>

Return(t) ==
    /\ At(t, "returned") /\ Enter(t, "none")
    /\ UNCHANGED << active_task, interrupt_flag, handler, index, raised, regA,
                    owed, crossed >>

CallStep(t) == \/ ReadSpin(t) \/ ReadReset(t) \/ WriteSelect(t)
               \/ WriteGet(t) \/ WritePut(t) \/ Return(t)

\* task_switch, seen from here.
Tick ==
    /\ active_task' = (active_task + 1) % MAX_TERM_N
    /\ UNCHANGED << interrupt_flag, handler, call, index, raised, regA, owed,
                    crossed >>

Next ==
    \/ Irq
    \/ rtc_handler
    \/ \E t \in Terms : ReadStart(t)
    \/ \E t \in Terms : WriteStart(t)
    \/ \E t \in Terms : CallStep(t)
    \/ Tick

(* PIT and RTC are periodic; a time slice is long enough for a handler and *)
(* for the steps of a system call.                                         *)
Fairness ==
    /\ SF_vars(Tick) /\ SF_vars(Irq)
    /\ \A t \in Terms : SF_vars(active_task = t /\ rtc_handler)
    /\ \A t \in Terms : SF_vars(CallStep(t))

Spec == Init /\ [][Next]_vars /\ Fairness

-----------------------------------------------------------------------------
(* Every variable keeps its type. *)
TypeOK ==
    /\ active_task \in Terms
    /\ interrupt_flag \in [Terms -> {0, 1}]
    /\ handler \in [Terms -> Seq(Steps)]
    /\ call \in [Terms -> [pc : {"none", "spin", "reset", "select", "get",
                               "reselect", "put", "unmask", "returned"},
                         rate : Rates, previous : {"divider", "flags"}]]
    /\ index \in {"A", "B", "C"} /\ raised \in BOOLEAN
    /\ regA \in [upper : {"divider", "flags"}, code : 0..15]
    /\ owed \in [Terms -> Int] /\ crossed \in BOOLEAN

(* One interrupt lets at most one rtc_read per terminal return, also when  *)
(* it comes while the handler or the read is half way: a program that waits*)
(* n times does not run ahead of the clock.                                *)
NoInterruptCountedTwice == \A t \in Terms : owed[t] >= 0

(* rtc_read returns: the flag the handler sets for a terminal is kept until*)
(* that terminal's program has seen it, and the handler has always read    *)
(* register C, without which no further interrupt would come; unless       *)
(* selections of the two registers have crossed.                           *)
ReadReturns ==
    \A t \in Terms : call[t].pc = "spin" ~> (call[t].pc = "returned" \/ crossed)

\* The frequency the chip produces for a code, from its data sheet.
Frequency(code) == 32768 \div 2^(code - 1)

(* rtc_write's result is a "changed rate of RTC", and it writes "only our  *)
(* rate to A": once a call has stored the rate, the chip ticks at the rate *)
(* asked for, with its divider, without which it stops, in place.  Task    *)
(* switches and other calls between a selection and its access do no harm; *)
(* only crossed selections do, of register C by the handler.               *)
RateIsWritten ==
    [][\A t \in Terms :
          ~crossed /\ call[t].pc = "put" /\ call'[t].pc = "unmask" =>
             /\ regA'.upper = "divider"
             /\ Frequency(regA'.code) = call[t].rate]_vars
=============================================================================
