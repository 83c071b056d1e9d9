------------------------------- MODULE Input -------------------------------
(***************************************************************************)
(* From the keyboard to a program: the keyboard interrupt handler with its *)
(* line buffer, the terminal switch, and terminal_read.                    *)
(* (keyboard.c, terminal.c, the keyboard half of switch_terminal)          *)
(*                                                                         *)
(* There is ONE line buffer, kb_buf, for the terminal on the screen; the   *)
(* other terminals' half-typed lines wait in the terminal table.  There is *)
(* ONE buffer, int_buf, for a finished line on its way to a program, and   *)
(* one Enter flag per terminal.                                            *)
(*                                                                         *)
(* Atomicity.  The handler acknowledges its interrupt first and runs with  *)
(* interrupts enabled, so between any two of its steps the PIT may take    *)
(* the CPU away, and another key may be handled, on top of it or on the    *)
(* stack of the next task.  terminal_read runs with interrupts enabled     *)
(* too.  A step is one pass over a buffer (strlen, memcpy, copy_kb_buf) in *)
(* the handler and one byte in terminal_read.                              *)
(***************************************************************************)
EXTENDS Integers, Sequences

CONSTANTS
    MAX_TERM_N,  \* number of terminals (3 in the build)
    KB_SIZE,     \* size of the three kinds of buffers (128 in the build)
    NUL, NL,     \* the characters '\0' and '\n'
    SOH,         \* the low byte of the flag ENTER_RELEASED, 1
    Letters,     \* every other character
    Typists,     \* terminals on which letters are typed
    NBytes,      \* buffer sizes programs pass to terminal_read
    Preempted,   \* may the PIT or another key interrupt the handler?
    MaxTodo,     \* bound on what handlers have left to do on one stack
    OneLine      \* does the user wait for a line to be read before
                 \* pressing Enter again, on whichever terminal?

Terms == 0..(MAX_TERM_N - 1)
Index == 0..(KB_SIZE - 1)

\* A character remembers the terminal that was on the screen when it was typed.
Char  == [by : Terms, key : Letters]
Byte  == Char \cup {NUL, NL, SOH}

ASSUME InputAssumption ==
    /\ MAX_TERM_N \in Nat \ {0}
    /\ KB_SIZE \in Nat /\ KB_SIZE >= 2
    /\ NUL \notin Char /\ NL \notin Char /\ SOH \notin Char
    /\ NUL # NL /\ NUL # SOH /\ NL # SOH
    /\ NBytes \subseteq Nat \ {0} /\ Typists \subseteq Terms
    /\ Preempted \in BOOLEAN /\ OneLine \in BOOLEAN
    /\ MaxTodo \in Nat

VARIABLES
    active_terminal,        \* the terminal on the screen
    active_task,            \* the terminal whose program runs
    kb_buf,                 \* the line being typed
    table_kb_buf,           \* terminal_table[t].kb_buf
    int_buf,                \* the line being handed over
    terminal_read_release,  \* terminal -> has Enter been pressed?
    handler,                \* task -> what its keyboard handler has left to do
    reader                  \* task -> its call of terminal_read

kbVars == << active_terminal, kb_buf, table_kb_buf, handler >>
vars == << active_terminal, active_task, kb_buf, table_kb_buf, int_buf,
           terminal_read_release, handler, reader >>

-----------------------------------------------------------------------------
EmptyBuf == [i \in Index |-> NUL]

\* The length of the string in a buffer, which ends at its first NUL.
strlen(buf) == CHOOSE n \in Index :
                  buf[n] = NUL /\ \A m \in 0..(n - 1) : buf[m] # NUL
String(buf) == [n \in 1..strlen(buf) |-> buf[n - 1]]

\* terminal_read calls: "idle" (none), waiting for Enter, copying byte i,
\* shifting what follows the line from i down to c, or about to return.
NoRead == [pc |-> "idle", n |-> 0, i |-> 0, c |-> 0, dest |-> << >>]

Init ==
    /\ active_terminal = 0
    /\ active_task = 0
    /\ kb_buf = EmptyBuf
    /\ table_kb_buf = [t \in Terms |-> EmptyBuf]
    /\ int_buf = EmptyBuf
    /\ terminal_read_release = [t \in Terms |-> "ENTER_WAITING"]
    /\ handler = [t \in Terms |-> << >>]
    /\ reader = [t \in Terms |-> NoRead]

-----------------------------------------------------------------------------
(* The keyboard handler.  An interrupt arrives on the stack of the running *)
(* task; get_scan_code decodes the key and leaves the steps to do.  They   *)
(* come before those of a handler that is interrupted.                     *)

Op(name, arg) == [op |-> name, arg |-> arg, len |-> 0]

Irq(ops) ==
    /\ \/ handler[active_task] = << >>
       \/ Preempted /\ Len(ops) + Len(handler[active_task]) <= MaxTodo
    /\ handler' = [handler EXCEPT ![active_task] = ops \o @]

KeyChar(k) ==
    /\ active_terminal \in Typists
    /\ Irq(<< Op("add", [by |-> active_terminal, key |-> k]) >>)
    /\ UNCHANGED << active_terminal, active_task, kb_buf, table_kb_buf,
                    int_buf, terminal_read_release, reader >>

KeyBackspace ==
    /\ Irq(<< Op("del", NUL) >>)
    /\ UNCHANGED << active_terminal, active_task, kb_buf, table_kb_buf,
                    int_buf, terminal_read_release, reader >>

\* The user presses Enter again only once every line has been read.
AllLinesRead == \A t \in Terms :
    /\ terminal_read_release[t] = "ENTER_WAITING"
    /\ reader[t].pc \in {"idle", "spin"}

\* Mutant: the flag of the running task is set, not of the one on screen.
KeyEnter_OfTask ==
    /\ OneLine => AllLinesRead
    /\ Irq(<< Op("add", NL), Op("copy", NUL) >>)
    /\ terminal_read_release' = [terminal_read_release EXCEPT
                                   ![active_task] = "ENTER_RELEASED"]
    /\ UNCHANGED << active_terminal, active_task, kb_buf, table_kb_buf,
                    int_buf, reader >>

KeyEnter ==
    /\ OneLine => AllLinesRead
    /\ Irq(<< Op("add", NL), Op("copy", NUL) >>)
    /\ terminal_read_release' = [terminal_read_release EXCEPT
                                   ![active_terminal] = "ENTER_RELEASED"]
    /\ UNCHANGED << active_terminal, active_task, kb_buf, table_kb_buf,
                    int_buf, reader >>

KeyCtrlL ==
    /\ Irq(<< >>)
    /\ kb_buf' = [kb_buf EXCEPT ![0] = NUL]
    /\ UNCHANGED << active_terminal, active_task, table_kb_buf, int_buf,
                    terminal_read_release, reader >>

\* Alt and a function key: switch_terminal(new), four steps.
KeySwitch(new) ==
    /\ new # active_terminal
    /\ Irq(<< Op("save", new), Op("clear", new), Op("load", new),
              Op("show", new) >>)
    /\ UNCHANGED << active_terminal, active_task, kb_buf, table_kb_buf,
                    int_buf, terminal_read_release, reader >>

-----------------------------------------------------------------------------
(* The steps of the handler that runs on task t. *)

Doing(t, name) == handler[t] # << >> /\ Head(handler[t]).op = name
StepDone(t) == handler' = [handler EXCEPT ![t] = Tail(@)]

\* Mutant: no room is kept for the terminating NUL.
AddLen_NoRoom(t) ==
    /\ Doing(t, "add")
    /\ handler' = [handler EXCEPT ![t][1].op = "put",
                                  ![t][1].len = strlen(kb_buf)]
    /\ UNCHANGED << active_terminal, kb_buf, table_kb_buf, int_buf >>

\* add_char_to_buf: the length is read first, then the character stored.
AddLen(t) ==
    /\ Doing(t, "add")
    /\ LET len == strlen(kb_buf)
       IN  IF len < KB_SIZE - 1
           THEN handler' = [handler EXCEPT ![t][1].op = "put",
                                           ![t][1].len = len]
           ELSE StepDone(t)
    /\ UNCHANGED << active_terminal, kb_buf, table_kb_buf, int_buf >>

AddPut(t) ==
    /\ Doing(t, "put")
    /\ LET todo == Head(handler[t])
       IN  kb_buf' = [kb_buf EXCEPT ![todo.len + 1] = NUL,
                                    ![todo.len] = todo.arg]
    /\ StepDone(t)
    /\ UNCHANGED << active_terminal, table_kb_buf, int_buf >>

\* del_char_from_buf, likewise.
DelLen(t) ==
    /\ Doing(t, "del")
    /\ LET len == strlen(kb_buf)
       IN  IF len > 0
           THEN handler' = [handler EXCEPT ![t][1].op = "erase",
                                           ![t][1].len = len]
           ELSE StepDone(t)
    /\ UNCHANGED << active_terminal, kb_buf, table_kb_buf, int_buf >>

\* Mutant: the terminator is erased instead of the last character.
DelErase_OffByOne(t) ==
    /\ Doing(t, "erase")
    /\ kb_buf' = [kb_buf EXCEPT ![Head(handler[t]).len] = NUL]
    /\ StepDone(t)
    /\ UNCHANGED << active_terminal, table_kb_buf, int_buf >>

DelErase(t) ==
    /\ Doing(t, "erase")
    /\ kb_buf' = [kb_buf EXCEPT ![Head(handler[t]).len - 1] = NUL]
    /\ StepDone(t)
    /\ UNCHANGED << active_terminal, table_kb_buf, int_buf >>

\* copy_kb_buf moves the bytes up to the first newline, if there is one.
BeforeNewline(buf) == {i \in Index : \A m \in 0..(i - 1) : buf[m] # NL}
copy_kb_buf(t) ==
    /\ Doing(t, "copy")
    /\ LET moved == BeforeNewline(kb_buf)
       IN  /\ int_buf' = [i \in Index |-> IF i \in moved THEN kb_buf[i]
                                                         ELSE int_buf[i]]
           /\ kb_buf' = [i \in Index |-> IF i \in moved THEN NUL
                                                        ELSE kb_buf[i]]
    /\ StepDone(t)
    /\ UNCHANGED << active_terminal, table_kb_buf >>

switch_terminal(t) ==
    /\ \/ /\ Doing(t, "save")
          /\ table_kb_buf' = [table_kb_buf EXCEPT ![active_terminal] = kb_buf]
          /\ UNCHANGED << active_terminal, kb_buf >>
       \/ /\ Doing(t, "clear")
          /\ kb_buf' = EmptyBuf
          /\ UNCHANGED << active_terminal, table_kb_buf >>
       \/ /\ Doing(t, "load")
          /\ kb_buf' = table_kb_buf[Head(handler[t]).arg]
          /\ UNCHANGED << active_terminal, table_kb_buf >>
       \/ /\ Doing(t, "show")
          /\ active_terminal' = Head(handler[t]).arg
          /\ UNCHANGED << kb_buf, table_kb_buf >>
    /\ StepDone(t)
    /\ UNCHANGED << int_buf >>

HandlerStep ==
    /\ \/ AddLen(active_task)
       \/ AddPut(active_task)
       \/ DelLen(active_task)
       \/ DelErase(active_task)
       \/ copy_kb_buf(active_task)
       \/ switch_terminal(active_task)
    /\ UNCHANGED << active_task, terminal_read_release, reader >>

-----------------------------------------------------------------------------
(* terminal_read, called by the program that task t runs. *)

Reading(t, pc) == active_task = t /\ handler[t] = << >> /\ reader[t].pc = pc

ReadStart(t) ==
    /\ Reading(t, "idle")
    /\ \E n \in NBytes :
          reader' = [reader EXCEPT ![t] =
              [NoRead EXCEPT !.pc = "spin",
                             !.n = IF n < KB_SIZE THEN n ELSE KB_SIZE]]
    /\ UNCHANGED << kbVars, active_task, int_buf, terminal_read_release >>

ReadSpin(t) ==
    /\ Reading(t, "spin")
    /\ terminal_read_release[t] = "ENTER_RELEASED"
    /\ reader' = [reader EXCEPT ![t].pc = "copy"]
    /\ UNCHANGED << kbVars, active_task, int_buf, terminal_read_release >>

ReadByte(t) ==
    LET r == reader[t]
    IN  /\ Reading(t, "copy") /\ r.i < r.n
        /\ IF int_buf[r.i] = NL
           THEN /\ reader' = [reader EXCEPT ![t].pc = "reset"]
                /\ UNCHANGED int_buf
           ELSE /\ reader' = [reader EXCEPT ![t].i = @ + 1,
                                ![t].dest = Append(@, int_buf[r.i])]
                /\ int_buf' = [int_buf EXCEPT ![r.i] = NUL]
        /\ UNCHANGED << kbVars, active_task, terminal_read_release >>

(* The last byte of the program's buffer becomes a newline, whether or not *)
(* one was read; dest holds the i bytes that count as read.                *)
ReadReset(t) ==
    LET r == reader[t]
    IN  /\ \/ Reading(t, "reset")
           \/ Reading(t, "copy") /\ r.i = r.n
        /\ terminal_read_release' = [terminal_read_release EXCEPT
                                       ![t] = "ENTER_WAITING"]
        /\ reader' = [reader EXCEPT ![t].pc = "shift", ![t].i = @ + 1,
                        ![t].dest = IF r.i = r.n THEN [@ EXCEPT ![r.n] = NL]
                                                 ELSE @]
        /\ UNCHANGED << kbVars, active_task, int_buf >>

(* The shift loop.  After a line without newline it reads past the end of  *)
(* int_buf, where the compiler puts terminal_read_release: first comes the *)
(* low byte of terminal 0's flag, then a byte that is always zero.         *)
SourceByte(i) ==
    CASE i \in Index -> int_buf[i]
      [] i = KB_SIZE /\ terminal_read_release[0] = "ENTER_RELEASED" -> SOH
      [] OTHER -> NUL

\* Mutant: the indices of the loop are not advanced.
ReadShift_Stuck(t) ==
    LET r == reader[t]
    IN  /\ Reading(t, "shift") /\ SourceByte(r.i) # NUL
        /\ int_buf' = [int_buf EXCEPT ![r.c] = SourceByte(r.i)]
        /\ UNCHANGED << kbVars, active_task, terminal_read_release, reader >>

\* A byte is moved down and zeroed where it was, in the flag too.
ReadShift(t) ==
    LET r == reader[t]
    IN  /\ Reading(t, "shift") /\ SourceByte(r.i) # NUL
        /\ int_buf' = [k \in Index |-> CASE k = r.i -> NUL
                                          [] k = r.c /\ k # r.i -> SourceByte(r.i)
                                          [] OTHER -> int_buf[k]]
        /\ terminal_read_release' =
              IF r.i \in Index THEN terminal_read_release
              ELSE [terminal_read_release EXCEPT ![0] = "ENTER_WAITING"]
        /\ reader' = [reader EXCEPT ![t].c = @ + 1, ![t].i = @ + 1]
        /\ UNCHANGED << kbVars, active_task >>

ReadDone(t) ==
    /\ Reading(t, "shift") /\ SourceByte(reader[t].i) = NUL
    /\ reader' = [reader EXCEPT ![t].pc = "done"]
    /\ UNCHANGED << kbVars, active_task, int_buf, terminal_read_release >>

ReadReturn(t) ==
    /\ Reading(t, "done")
    /\ reader' = [reader EXCEPT ![t] = NoRead]
    /\ UNCHANGED << kbVars, active_task, int_buf, terminal_read_release >>

\* What a call that has begun does next, once Enter has been pressed.
ReadStep(t) == \/ ReadSpin(t) \/ ReadByte(t) \/ ReadReset(t)
               \/ ReadShift(t) \/ ReadDone(t) \/ ReadReturn(t)

-----------------------------------------------------------------------------
\* Mutant: no wrap-around.
Tick_NoWrap ==
    /\ Preempted \/ handler[active_task] = << >>
    /\ active_task' = active_task + 1
    /\ UNCHANGED << kbVars, int_buf, terminal_read_release, reader >>

\* task_switch, seen from here.
Tick ==
    /\ Preempted \/ handler[active_task] = << >>
    /\ active_task' = (active_task + 1) % MAX_TERM_N
    /\ UNCHANGED << kbVars, int_buf, terminal_read_release, reader >>

Next ==
    \/ \E k \in Letters : KeyChar(k)
    \/ KeyBackspace
    \/ KeyEnter
    \/ KeyCtrlL
    \/ \E new \in Terms : KeySwitch(new)
    \/ HandlerStep
    \/ \E t \in Terms : ReadStart(t)
    \/ \E t \in Terms : ReadStep(t)
    \/ Tick

(* The PIT ticks for ever; a tick that comes during another handler stays  *)
(* pending in the PIC.  A time slice is long enough for the task to get on *)
(* with its handler or its system call, however fast keys are pressed.     *)
Fairness ==
    /\ SF_vars(Tick)
    /\ \A t \in Terms : /\ SF_vars(active_task = t /\ HandlerStep)
                        /\ SF_vars(ReadStep(t))

Spec == Init /\ [][Next]_vars /\ Fairness

-----------------------------------------------------------------------------
(* Every variable keeps its type: lengths used by the handler are indices  *)
(* of the line buffer, and terminal_read stays in int_buf, except that the *)
(* shift loop of a call that takes a whole line looks at up to two bytes   *)
(* behind it.                                                              *)
TypeOK ==
    /\ active_terminal \in Terms /\ active_task \in Terms
    /\ kb_buf \in [Index -> Byte]
    /\ table_kb_buf \in [Terms -> [Index -> Byte]]
    /\ int_buf \in [Index -> Byte]
    /\ terminal_read_release \in
          [Terms -> {"ENTER_WAITING", "ENTER_RELEASED"}]
    /\ \A t \in Terms :
          /\ \A k \in DOMAIN handler[t] : handler[t][k].len \in Index
          /\ reader[t].n \in 0..KB_SIZE
          /\ \/ reader[t].i \in Index
             \/ reader[t].n >= KB_SIZE - 1 /\ reader[t].i \in {KB_SIZE, KB_SIZE + 1}
          /\ reader[t].pc = "copy" => reader[t].i <= reader[t].n
          /\ reader[t].c \in Index
          /\ \A k \in DOMAIN reader[t].dest : reader[t].dest[k] \in Byte

(* The strlen on every line buffer ends inside the buffer, whatever other  *)
(* handlers did between the reading of a length and its use, and so does   *)
(* the shift loop on int_buf, whatever lines were copied over it.          *)
LinesTerminated ==
    /\ kb_buf[KB_SIZE - 1] = NUL
    /\ \A t \in Terms : table_kb_buf[t][KB_SIZE - 1] = NUL
    /\ int_buf[KB_SIZE - 1] = NUL

(* The bug log (Checkpoint 5) reports lines fed to the wrong terminal, and *)
(* three Enter flags as the cure: what a program reads was typed on its    *)
(* own terminal.                                                           *)
ReadsOwnTerminal ==
    \A t \in Terms : reader[t].pc = "done" =>
        \A k \in DOMAIN reader[t].dest :
            reader[t].dest[k] \in Char => reader[t].dest[k].by = t

\* Another reader's shift loop has run into the flag of terminal 0.
FlagTaken(t) ==
    /\ t = 0
    /\ \E u \in Terms \ {t} : /\ reader[u].pc = "shift"
                              /\ reader[u].i = KB_SIZE + 1 /\ reader[u].c = 1

(* A program that waits for Enter after Enter was pressed on its terminal  *)
(* gets a line: no other terminal's reader takes the flag away, except     *)
(* that of terminal 0 by reading a line that fills its buffer but for one  *)
(* byte.                                                                   *)
EnterIsAnswered ==
    \A t \in Terms :
        (reader[t].pc = "spin" /\ terminal_read_release[t] = "ENTER_RELEASED")
            ~> (reader[t].pc = "done" \/ FlagTaken(t))
=============================================================================
