------------------------------- MODULE Screen -------------------------------
(***************************************************************************)
(* What is written where on the screens of the terminals: putc, the echo   *)
(* of the keyboard driver, scrolling, the terminal switch and vidmap.      *)
(* (lib.c, keyboard.c, multi_term.c, terminal_write, vidmap)               *)
(*                                                                         *)
(* Video memory is one array of cells: the page the VGA shows, then one    *)
(* page for each terminal.  The terminal on the screen lives in the first  *)
(* page, the others in their own.  A cell holds its colour, which names    *)
(* the terminal that wrote it, or is blank.                                *)
(*                                                                         *)
(* Atomicity.  System calls and handlers run with interrupts enabled.      *)
(*  - putc chooses the page, stores, tests the position and moves it, one  *)
(*    step each; other tasks run in between, and, if PutcInterrupted, so   *)
(*    do the handlers of keys.                                             *)
(*  - switch_terminal and vidmap take one step for each pass over a page   *)
(*    and for each entry of the page table.  If Preempted, other tasks and *)
(*    keys come in between, a further switch among them.                   *)
(*  - The echo of one key is one step.                                     *)
(* ACTIVE_TASK is the task t that takes the step.  The blinking cursor is  *)
(* left out.                                                               *)
(***************************************************************************)
EXTENDS Integers, Sequences

CONSTANTS
    MAX_TERM_N,          \* number of terminals (3 in the build)
    NUM_ROWS, NUM_COLS,  \* size of the screen (25 and 80)
    KB_SIZE,             \* size of the line buffer (128)
    PAGE,                \* cells in a page of video memory (2048)
    Blank,
    PutcInterrupted,     \* may a key be handled in the middle of putc?
    Preempted,           \* may anything else run in the middle of
                         \* switch_terminal and of vidmap?
    MaxCalls,            \* bound on the calls of these two on one stack
    TypeAhead,           \* does a program print while its user is typing?
    VidmapHidden,        \* is vidmap called by terminals not on the screen?
    VidTasks,            \* tasks whose programs call vidmap
    VidCells             \* cells that programs write through vidmap

Terms  == 0..(MAX_TERM_N - 1)
Window == 0..(NUM_ROWS * NUM_COLS - 1)

\* The page of the VGA and those of the terminals, which paging_init maps.
Memory == 0..(PAGE * (MAX_TERM_N + 1) - 1)

LastRow == NUM_ROWS - 1

(* The last inequality is what an undisturbed line needs: one that starts  *)
(* in the last column of the last row but one and fills the buffer.        *)
ASSUME ScreenAssumption ==
    /\ MAX_TERM_N \in Nat \ {0}
    /\ NUM_ROWS \in Nat /\ NUM_ROWS >= 2
    /\ NUM_COLS \in Nat \ {0}
    /\ KB_SIZE \in Nat /\ KB_SIZE >= 2
    /\ PAGE \in Nat /\ PAGE >= NUM_ROWS * NUM_COLS
    /\ Blank \notin Terms
    /\ {PutcInterrupted, Preempted, TypeAhead, VidmapHidden} \subseteq BOOLEAN
    /\ MaxCalls \in Nat \ {0}
    /\ VidTasks \subseteq Terms /\ VidCells \subseteq Window
    /\ NUM_COLS * (NUM_ROWS - 1) + KB_SIZE - 3 < PAGE

VARIABLES
    active_terminal,  \* the terminal on the screen
    mem,              \* video memory
    x, y,             \* terminal -> where its next output goes
    kb_len,           \* strlen(kb_buf): the line being typed
    table_len,        \* terminal -> strlen of its kb_buf in terminal_table
    vidmap_ptable,    \* terminal -> the page its vidmap address leads to
    mapped,           \* terminals whose program has called vidmap
    putting,          \* task -> its call of putc
    calls,            \* task -> its calls of vidmap and switch_terminal
    settled           \* history: the call that began last began alone and,
                      \* if it is vidmap, on the terminal shown

vars == << active_terminal, mem, x, y, kb_len, table_len, vidmap_ptable,
           mapped, putting, calls, settled >>

-----------------------------------------------------------------------------
VIDEO == 0
video(t) == PAGE * (t + 1)

\* Mutant: the output of a task goes where the user looks.
get_video_mem_Shown(t) == VIDEO

get_video_mem(t) == IF t = active_terminal THEN VIDEO ELSE video(t)

video_scroll(m, page) ==
    [a \in Memory |->
        CASE a - page \in 0..(NUM_COLS * LastRow - 1) -> m[a + NUM_COLS]
          [] a - page \in Window \ (0..(NUM_COLS * LastRow - 1)) -> Blank
          [] OTHER -> m[a]]

NotPresent == -1
NoPutc == [pc |-> "none", video_mem |-> NotPresent,
           newline |-> FALSE, scroll |-> FALSE]

\* multi_term_init, and clear_screen before the first shell starts.
Init ==
    /\ active_terminal = 0
    /\ mem = [a \in Memory |-> Blank]
    /\ x = [t \in Terms |-> 0]
    /\ y = [t \in Terms |-> 0]
    /\ kb_len = 0
    /\ table_len = [t \in Terms |-> 0]
    /\ vidmap_ptable = [t \in Terms |-> NotPresent]
    /\ mapped = {}
    /\ putting = [t \in Terms |-> NoPutc]
    /\ calls = [t \in Terms |-> << >>]
    /\ settled = TRUE

-----------------------------------------------------------------------------
(* The calls of vidmap and switch_terminal under way.  A task's stack      *)
(* holds at most one vidmap and, above it, the switches of the keys that   *)
(* came while the task ran; the innermost call comes first.                *)

Alone == \A t \in Terms : calls[t] = << >>

\* A step of anything but the call under way.
Calm == Preempted \/ Alone

\* Task t is not in a handler or in vidmap.
Free(t) == calls[t] = << >>

\* Task t is at step pc of its innermost call.
At(t, pc) == calls[t] # << >> /\ Head(calls[t]).pc = pc

\* That call has copied the old screen away.
Saved == \E t \in Terms : /\ calls[t] # << >>
                          /\ Head(calls[t]).op = "switch_terminal"
                          /\ Head(calls[t]).pc # "save"

\* Where terminal t's screen is kept, and how long its line is.
Home(t) == IF t = active_terminal /\ ~Saved THEN VIDEO ELSE video(t)
LineLen(t) == IF t = active_terminal /\ ~Saved THEN kb_len ELSE table_len[t]

Begin(t, op, pc, term) ==
    /\ Calm
    /\ Len(calls[t]) < MaxCalls
    /\ calls' = [calls EXCEPT ![t] =
                    << [op |-> op, pc |-> pc, term |-> term, i |-> 0] >> \o @]

\* The calls of task t when the innermost one goes on at pc.
Continued(t, pc, i) ==
    << [Head(calls[t]) EXCEPT !.pc = pc, !.i = i] >> \o Tail(calls[t])

GoTo(t, pc, i) == calls' = [calls EXCEPT ![t] = Continued(t, pc, i)]

Return(t) == calls' = [calls EXCEPT ![t] = Tail(@)]

-----------------------------------------------------------------------------
(* Programs.  printf (with puts), for the kernel's messages, and           *)
(* terminal_write call putc for each character with nothing in between;    *)
(* each call is PutcStart to PutcMove.                                     *)

PutcStart(t, newline) ==
    /\ Calm /\ Free(t)
    /\ putting[t] = NoPutc
    /\ TypeAhead \/ LineLen(t) = 0
    /\ putting' = [putting EXCEPT ![t] =
                      [pc |-> IF newline THEN "test" ELSE "store",
                       video_mem |-> get_video_mem(t),
                       newline |-> newline, scroll |-> FALSE]]
    /\ UNCHANGED << active_terminal, mem, x, y, kb_len, table_len,
                    vidmap_ptable, mapped, calls, settled >>

\* The text is arbitrary: a newline or another character comes next.
printf(t) == \E newline \in BOOLEAN : PutcStart(t, newline)
terminal_write(t) == \E newline \in BOOLEAN : PutcStart(t, newline)

PutcStore(t) ==
    /\ Calm /\ Free(t)
    /\ putting[t].pc = "store"
    /\ mem' = [mem EXCEPT
                  ![putting[t].video_mem + NUM_COLS * y[t] + x[t]] = t]
    /\ putting' = [putting EXCEPT ![t].pc = "test"]
    /\ UNCHANGED << active_terminal, x, y, kb_len, table_len,
                    vidmap_ptable, mapped, calls, settled >>

PutcTest(t) ==
    /\ Calm /\ Free(t)
    /\ putting[t].pc = "test"
    /\ putting' = [putting EXCEPT
         ![t].pc = "move",
         ![t].scroll = /\ y[t] = LastRow
                       /\ putting[t].newline \/ x[t] = NUM_COLS - 1]
    /\ UNCHANGED << active_terminal, mem, x, y, kb_len, table_len,
                    vidmap_ptable, mapped, calls, settled >>

\* Where the next character of task t goes when the page is not scrolled.
NextCol(t) == IF putting[t].newline THEN 0 ELSE (x[t] + 1) % NUM_COLS
NextRow(t) == CASE putting[t].newline -> y[t] + 1
                [] ~putting[t].newline /\ NextCol(t) = 0 ->
                     (y[t] + 1) % NUM_ROWS
                [] OTHER -> y[t] % NUM_ROWS

PutcMove(t) ==
    /\ Calm /\ Free(t)
    /\ putting[t].pc = "move"
    /\ IF putting[t].scroll
       THEN /\ mem' = video_scroll(mem, get_video_mem(t))
            /\ x' = [x EXCEPT ![t] = 0]
            /\ y' = [y EXCEPT ![t] = IF putting[t].newline THEN @ ELSE LastRow]
       ELSE /\ x' = [x EXCEPT ![t] = NextCol(t)]
            /\ y' = [y EXCEPT ![t] = NextRow(t)]
            /\ UNCHANGED mem
    /\ putting' = [putting EXCEPT ![t] = NoPutc]
    /\ UNCHANGED << active_terminal, kb_len, table_len, vidmap_ptable, mapped,
                    calls, settled >>

(* A bad pointer is refused without effect.  The entry of the caller's     *)
(* terminal is made to lead to the screen, whichever terminal is shown.    *)
vidmap(t) ==
    /\ Free(t)
    /\ putting[t] = NoPutc
    /\ VidmapHidden \/ t = active_terminal
    /\ Begin(t, "vidmap", "absent", t)
    /\ settled' = (Alone /\ t = active_terminal)
    /\ UNCHANGED << active_terminal, mem, x, y, kb_len, table_len,
                    vidmap_ptable, mapped, putting >>

\* All entries of the table are marked not present.
VidmapAbsent(t) ==
    /\ At(t, "absent")
    /\ vidmap_ptable' = [u \in Terms |-> NotPresent]
    /\ GoTo(t, "entries", 0)
    /\ UNCHANGED << active_terminal, mem, x, y, kb_len, table_len, mapped,
                    putting, settled >>

(* vidmap and switch_terminal let each entry lead to its terminal's page,  *)
(* one after the other, and at last one of them to the screen.             *)
SetEntry(t) ==
    LET call == Head(calls[t])
        last == call.i = MAX_TERM_N
    IN  /\ At(t, "entries")
        /\ vidmap_ptable' =
             IF last THEN [vidmap_ptable EXCEPT ![call.term] = VIDEO]
                     ELSE [vidmap_ptable EXCEPT ![call.i] = video(call.i)]
        /\ IF last THEN GoTo(t, "done", 0) ELSE GoTo(t, "entries", call.i + 1)
        /\ UNCHANGED << active_terminal, mem, x, y, kb_len, table_len, mapped,
                        putting, settled >>

VidmapReturn(t) ==
    /\ At(t, "done")
    /\ Head(calls[t]).op = "vidmap"
    /\ mapped' = mapped \cup {t}
    /\ Return(t)
    /\ UNCHANGED << active_terminal, mem, x, y, kb_len, table_len,
                    vidmap_ptable, putting, settled >>

\* A program writes through the address it got.
VidWrite(t, c) ==
    /\ Calm /\ Free(t)
    /\ t \in mapped
    /\ putting[t] = NoPutc
    /\ vidmap_ptable[t] # NotPresent
    /\ mem' = [mem EXCEPT ![vidmap_ptable[t] + c] = t]
    /\ UNCHANGED << active_terminal, x, y, kb_len, table_len, vidmap_ptable,
                    mapped, putting, calls, settled >>

\* It does so in the middle of another task's vidmap: a page fault ends it.
VidFault(t) ==
    /\ Calm /\ Free(t)
    /\ t \in mapped
    /\ putting[t] = NoPutc
    /\ vidmap_ptable[t] = NotPresent
    /\ mapped' = mapped \ {t}
    /\ UNCHANGED << active_terminal, mem, x, y, kb_len, table_len,
                    vidmap_ptable, putting, calls, settled >>

-----------------------------------------------------------------------------
(* The keyboard handler, which works on the terminal on the screen. *)

KeyHandled ==
    /\ Calm
    /\ PutcInterrupted \/ \A t \in Terms : putting[t] = NoPutc
    /\ UNCHANGED << mapped, putting >>

\* A key that does nothing but change the line and its echo.
KeyEchoed ==
    /\ KeyHandled
    /\ UNCHANGED << active_terminal, table_len, vidmap_ptable, calls, settled >>

\* The echo works on a record of video memory and position.
Echo == [mem |-> mem, x |-> x[active_terminal], y |-> y[active_terminal]]
SetEcho(e) == /\ mem' = e.mem
              /\ x' = [x EXCEPT ![active_terminal] = e.x]
              /\ y' = [y EXCEPT ![active_terminal] = e.y]

convert_to_vid_idx(e, buf_len) == NUM_COLS * e.y + e.x + buf_len

\* Mutant: the last row is not treated specially.
put_newln_kb_NoScroll(e) == [mem |-> e.mem, x |-> 0, y |-> e.y + 1]

put_newln_kb(e) ==
    IF e.y = LastRow
    THEN [mem |-> video_scroll(e.mem, VIDEO), x |-> 0, y |-> e.y]
    ELSE [mem |-> e.mem, x |-> 0, y |-> e.y + 1]

\* Mutant: a line that reaches the corner is not scrolled.
EchoCorner_NoScroll(before, buf_len, e) == e

(* The end of add_char_to_buf: when the line has reached the corner, the   *)
(* screen is scrolled and the line's start moves up with it.  The position *)
(* tested is the one the function began with.                              *)
EchoCorner(before, buf_len, e) ==
    IF before.y = LastRow /\ buf_len + before.x = NUM_COLS - 1
    THEN [mem |-> video_scroll(e.mem, VIDEO), x |-> e.x, y |-> before.y - 1]
    ELSE e

KeyChar ==
    LET t == active_terminal
        at == VIDEO + convert_to_vid_idx(Echo, kb_len)
    IN  /\ KeyEchoed
        /\ kb_len < KB_SIZE - 1
        /\ SetEcho(EchoCorner(Echo, kb_len,
                              [Echo EXCEPT !.mem = [@ EXCEPT ![at] = t]]))
        /\ kb_len' = kb_len + 1

KeyBackspace ==
    LET at == VIDEO + convert_to_vid_idx(Echo, kb_len) - 1
    IN  /\ KeyEchoed
        /\ kb_len > 0
        /\ SetEcho([Echo EXCEPT !.mem = [@ EXCEPT ![at] = Blank]])
        /\ kb_len' = kb_len - 1

\* The newline is echoed and the line handed over (copy_kb_buf).
KeyEnter ==
    LET full == kb_len = KB_SIZE - 1
        once == put_newln_kb(Echo)
        e == IF full \/ kb_len + Echo.x >= NUM_COLS THEN put_newln_kb(once)
                                                    ELSE once
    IN  /\ KeyEchoed
        /\ SetEcho(IF full THEN e ELSE EchoCorner(Echo, kb_len, e))
        /\ kb_len' = 0

Cleared(m) == [a \in Memory |-> IF a - VIDEO \in Window THEN Blank ELSE m[a]]

clear_screen == SetEcho([mem |-> Cleared(mem), x |-> 0, y |-> 0])

KeyCtrlL ==
    /\ KeyEchoed
    /\ clear_screen
    /\ kb_len' = 0

-----------------------------------------------------------------------------
(* The terminal switch, on the stack of the task t that the key came upon. *)

\* memcpy of a screen.
Copied(m, from, to) ==
    [a \in Memory |-> IF a - to \in Window THEN m[a - to + from] ELSE m[a]]

switch_terminal(t, new) ==
    /\ KeyHandled
    /\ new # active_terminal
    /\ Begin(t, "switch_terminal", "save", new)
    /\ settled' = Alone
    /\ UNCHANGED << active_terminal, mem, x, y, kb_len, table_len,
                    vidmap_ptable >>

\* Screen and line of the terminal shown are put away.
SwitchSave(t) ==
    /\ At(t, "save")
    /\ mem' = Copied(mem, VIDEO, video(active_terminal))
    /\ table_len' = [table_len EXCEPT ![active_terminal] = kb_len]
    /\ GoTo(t, "clear", 0)
    /\ UNCHANGED << active_terminal, x, y, kb_len, vidmap_ptable, mapped,
                    putting, settled >>

SwitchClear(t) ==
    /\ At(t, "clear")
    /\ mem' = Cleared(mem)
    /\ kb_len' = 0
    /\ GoTo(t, "load", 0)
    /\ UNCHANGED << active_terminal, x, y, table_len, vidmap_ptable, mapped,
                    putting, settled >>

\* Mutant: the table entries are left as vidmap set them.
SwitchLoad_NoRemap(t) ==
    LET new == Head(calls[t]).term
    IN  /\ At(t, "load")
        /\ mem' = Copied(mem, video(new), VIDEO)
        /\ kb_len' = table_len[new]
        /\ GoTo(t, "done", 0)
        /\ UNCHANGED << active_terminal, x, y, table_len, vidmap_ptable,
                        mapped, putting, settled >>

SwitchLoad(t) ==
    LET new == Head(calls[t]).term
    IN  /\ At(t, "load")
        /\ mem' = Copied(mem, video(new), VIDEO)
        /\ kb_len' = table_len[new]
        /\ GoTo(t, "entries", 0)
        /\ UNCHANGED << active_terminal, x, y, table_len, vidmap_ptable,
                        mapped, putting, settled >>

SwitchShow(t) ==
    /\ At(t, "done")
    /\ Head(calls[t]).op = "switch_terminal"
    /\ active_terminal' = Head(calls[t]).term
    /\ Return(t)
    /\ UNCHANGED << mem, x, y, kb_len, table_len, vidmap_ptable, mapped,
                    putting, settled >>

-----------------------------------------------------------------------------
Next ==
    \/ \E t \in Terms : printf(t)
    \/ \E t \in Terms : terminal_write(t)
    \/ \E t \in Terms : PutcStore(t)
    \/ \E t \in Terms : PutcTest(t)
    \/ \E t \in Terms : PutcMove(t)
    \/ \E t \in VidTasks : vidmap(t)
    \/ \E t \in Terms : VidmapAbsent(t)
    \/ \E t \in Terms : SetEntry(t)
    \/ \E t \in Terms : VidmapReturn(t)
    \/ \E t \in Terms, c \in VidCells : VidWrite(t, c)
    \/ \E t \in Terms : VidFault(t)
    \/ KeyChar
    \/ KeyBackspace
    \/ KeyEnter
    \/ KeyCtrlL
    \/ \E t \in Terms, new \in Terms : switch_terminal(t, new)
    \/ \E t \in Terms : SwitchSave(t)
    \/ \E t \in Terms : SwitchClear(t)
    \/ \E t \in Terms : SwitchLoad(t)
    \/ \E t \in Terms : SwitchShow(t)

Spec == Init /\ [][Next]_vars

-----------------------------------------------------------------------------
Places == {NotPresent, VIDEO} \cup {video(t) : t \in Terms}

PutcCalls == [pc : {"none", "store", "test", "move"}, video_mem : Places,
              newline : BOOLEAN, scroll : BOOLEAN]

VidmapCalls == [op : {"vidmap"}, pc : {"absent", "entries", "done"},
                term : Terms, i : 0..MAX_TERM_N]

SwitchCalls == [op : {"switch_terminal"},
                pc : {"save", "clear", "load", "entries", "done"},
                term : Terms, i : 0..MAX_TERM_N]

(* Every variable keeps its type: positions stay on the screen, as long as *)
(* the test of a position and its change in putc are not torn apart by the *)
(* echo of a key (a newline between the two takes y to NUM_ROWS).          *)
TypeOK ==
    /\ active_terminal \in Terms
    /\ mem \in [Memory -> Terms \cup {Blank}]
    /\ x \in [Terms -> 0..(NUM_COLS - 1)]
    /\ y \in [Terms -> 0..(NUM_ROWS - 1)]
    /\ kb_len \in 0..(KB_SIZE - 1)
    /\ table_len \in [Terms -> 0..(KB_SIZE - 1)]
    /\ vidmap_ptable \in [Terms -> Places]
    /\ mapped \subseteq Terms
    /\ putting \in [Terms -> PutcCalls]
    /\ calls \in [Terms -> Seq(VidmapCalls \cup SwitchCalls)]
    /\ settled \in BOOLEAN

(* The echo of add_char_to_buf is not bounded by the size of the screen:   *)
(* it runs on from where the line began.  It still stays in the page the   *)
(* VGA shows and does not reach the saved screen of the first terminal,    *)
(* thanks to the one scroll in the corner.                                 *)
EchoInPage ==
    \A t \in Terms : LineLen(t) < KB_SIZE - 1 =>
        NUM_COLS * y[t] + x[t] + LineLen(t) < PAGE

(* The address a program got from vidmap leads to its own terminal's       *)
(* screen, shown or hidden, whenever no call of switch_terminal or vidmap  *)
(* is under way and the last one to begin was not mixed up with another    *)
(* (nor vidmap for a hidden terminal): one undisturbed switch or call      *)
(* repairs the table, whatever half-done calls have left in it.            *)
MappingFollowsSwitch ==
    settled /\ Alone => \A t \in mapped : vidmap_ptable[t] = Home(t)

\* The screen kept in page p of memory m.
View(m, p) == [c \in Window |-> m[p + c]]

Abstract == INSTANCE TermScreens WITH
    shown <- active_terminal,
    cells <- [t \in Terms |-> View(mem, Home(t))],
    len <- [t \in Terms |-> LineLen(t)]

(* The pages of video memory, their copying on a switch, the choice of the *)
(* page in putc and the page table of vidmap together give every terminal  *)
(* a screen of its own.                                                    *)
ImplementsTermScreens == Abstract!Spec
=============================================================================
