# bozOS in TLA+

bozOS is a small Unix-like kernel for the x86 PC (`src/student-distrib`): three
text terminals, up to six processes, a read-only file system, a keyboard, a
real-time clock, and a round-robin scheduler driven by the PIT. This directory
models the parts of it whose correctness depends on the order of system calls
and interrupts, and its one large user program, `fish`; it model-checks them with
TLC, and with TLAPS it proves every safety property that the runs check, for all sizes,
two refinements of abstract specifications among them.

Contents: [inventory](#inventory) - [modules](#modules) - [runs](#runs) -
[bounds](#bounds) - [fairness](#fairness) - [proofs](#proofs) -
[disagreements found](#disagreements-between-code-and-documentation) -
[what is left out](#what-is-not-modelled) - [plan](#plan)

## Inventory

| component | state it keeps | operations | what makes it hard | correct means |
|---|---|---|---|---|
| process table, PCB lists (`multi_term.c`) | `process_usage[6]`, one linked list of PCBs per terminal | `add_PCB`, `unset_process_usage`, `get_PCB_tail`, `get_PCB_base` | two structures for one fact; slots reused in any order; `child_pcb` never initialised | table and lists agree, a list has exactly one foreground process |
| `execute`, `halt` (`syscalls.c`) | page directory entry of the user page, `tss.esp0`, stack pointers saved in the PCB | start a program, end it, respawn a base shell | jumps into stack frames saved long ago; table full; early returns | the parent goes on, on its own page and stack |
| scheduler (`scheduling.c`) | `active_task`, saved stack pointers | `pit_init`, `task_switch` | the PIT interrupts anything; launches the shells of terminals 1 and 2 in the middle of a switch | the process looked up is the one that runs; every terminal keeps running |
| boot (`kernel.c`, `boot.S`) | - | `entry`: initialise, `sti`, `execute("shell")` | its stack is also slot 0's kernel stack | the first shell starts |
| keyboard (`keyboard.c`) | `kb_buf`, `key_status` | `kbd_handler`, `add_char_to_buf`, `del_char_from_buf`, `copy_kb_buf` | acknowledges the interrupt first and runs with interrupts on: handlers overlap | line buffers stay strings and hold what was typed |
| terminals (`terminal.c`, `multi_term.c`) | `int_buf`, `terminal_read_release[3]`, the terminal table, `active_terminal` | `terminal_read`, `terminal_write`, `switch_terminal` | one hand-over buffer for three terminals, busy waiting on a flag | a program reads the line entered on its terminal |
| file system (`filesystem.c`) | position in each descriptor; `dread_loc`, one for all | `read_data`, `fread`, `dread`, lookups | block and file boundaries, machine words, a shared position | every byte once and in order, loops end |
| descriptors (`syscalls.c`) | `fd[8]` in each PCB | `open`, `close`, `read`, `write`, their set-up in `execute`, clean-up in `halt` | PCB memory is reused; `open` finds, then fills | open files are never overwritten, tables are in place, an argument is the program's own |
| RTC (`RTC_handler.c`) | one interrupt flag per terminal, one rate for all | `rtc_open`, `rtc_read`, `rtc_write`, handler | flag stale when the wait begins; ports shared with the handler | reads return, at most one per interrupt; the rate asked for is set |
| screen, `vidmap` (`lib.c`, `keyboard.c`, `multi_term.c`, `syscalls.c`) | four pages of video memory, a position per terminal, the `vidmap` page table | `putc`, scrolling, the echo, `switch_terminal`, `vidmap` | output of hidden terminals; an echo that is not bounded by the screen; table entries that must follow every switch | each terminal has a screen of its own; the echo stays in its page |
| modifier keys (`keyboard.c`) | `key_status` | press, repeat, release | counting up, masking out | a key means what the modifiers that are down say |
| interrupt controllers, IDT (`i8259.c`, `IDT.c`, `IDT_asm.S`) | masks, lines in service, gates | `enable_irq`, `send_eoi`, `set_IDT_wrapper`, entry and return of handlers | a handler is left for another task before its EOI; lines enabled before their gates | one EOI for each interrupt, every request served |
| exception handlers (`IDT.c`) | - | print, `halt(255)` | a dying program is the foreground of a task | as `halt` |
| `fish` (`fish.c`, `blink.S`) | pool and list of blinkers, two file positions | `add_frames`, `mp1_ioctl`, the tasklet | two files read in step; slots chosen by location; C and assembly | the picture is complete, the list ends, the program ends |
| paging set-up, GDT | set once | initialisation | - | - |
| other user programs | - | system calls in any order | - | the environment of the models |

How they interact. Programs enter the kernel by `int 0x80`; `execute` and
`halt` start with `cli()`. `task_switch` runs inside the PIT interrupt, the
PIC's highest priority, until its `send_eoi`. All gates of the IDT are set up
as trap gates (their type bits are 1111b; a comment and the bug log speak of
01110b), so interrupts stay enabled in handlers and system calls. The keyboard handler writes
`kb_buf`, `int_buf` and the Enter flags; `terminal_read`, running in the program of some
task, waits for them. `active_task` (whose program runs) and
`active_terminal` (who is on the screen) are independent.

The hazards that follow from this are listed, with their lines, in
`PROJECT.json`; the properties below are aimed at them.

## Modules

| module | what it is | code |
|---|---|---|
| `Procs` | processes: boot, execute, halt, task_switch | `multi_term.c`, `syscalls.c`, `scheduling.c`, `kernel.c` |
| `TaskStacks` | abstract: one stack of programs per terminal, turns | what `Procs` promises |
| `ProcStacks` | the PCB lists as sequences, refinement mapping from `Procs` to `TaskStacks` | the loops over `child_pcb` |
| `MCProcs` | TLC instance of `Procs` | |
| `ProcsProofs` | inductive invariant of `Procs`, theorems, the refinement | |
| `Input` | keyboard handler, terminal switch, `terminal_read` | `keyboard.c`, `terminal.c`, `multi_term.c` |
| `InputHistory` | `Input` with what the user typed as history variables | |
| `MCInput` | TLC instance of the two | |
| `InputProofs` | inductive invariants of `Input` and `InputHistory`, theorems | |
| `Files` | look-up of names, `read_data`, `fread`, `dread` | `filesystem.c`, `syscalls.c` |
| `MCFiles` | TLC instance of `Files` | |
| `FilesProofs` | invariants of reads and of listings, theorems | |
| `FdTable` | descriptors and arguments of processes in reused slots; composed with `TaskStacks` | `syscalls.c` |
| `MCFdTable` | TLC instance of `FdTable` | |
| `FdTableProofs` | inductive invariant of `FdTable`, theorems | |
| `Rtc` | RTC handler, `rtc_read`, `rtc_write`, `rtc_open`, access by access (checked directly, no instance module) | `RTC_handler.c` |
| `RtcProofs` | invariants of `Rtc`, theorems | |
| `Screen` | video memory: `putc`, echo, scrolling, terminal switch, `vidmap`; refinement mapping to `TermScreens` | `lib.c`, `keyboard.c`, `multi_term.c`, `syscalls.c` |
| `TermScreens` | abstract: a screen of its own for every terminal | what `Screen` promises |
| `MCScreen` | a view of `Screen` for TLC | |
| `ScreenProofs` | invariants of `Screen`, theorems, the refinement | |
| `Keys` | `key_status` and the table a key is looked up in, as operators | `keyboard.c`, `keyboard.h` |
| `Interrupts` | boot order, 8259s, IDT, handlers on the tasks' stacks; uses `Keys` | `i8259.c`, `IDT.c`, `IDT_asm.S`, `kernel.c`, `scheduling.c` |
| `MCInterrupts` | TLC instance of `Interrupts` | |
| `InterruptsProofs` | invariants of gates, EOIs and modifiers, theorems | |
| `Fish` | `add_frames`, the blinkers, the tasklet | `fish.c`, `blink.S` |
| `MCFish` | TLC instance of `Fish` | |
| `FishProofs` | invariants of list, picture and blinking, theorems | |

### Procs

A process is a slot number; `get_PCB_base`, `SelfKStack` and `SelfPage` are the
addresses the code computes from it. The PCB lists are the functions `pcb_head`
and `child_pcb`; the code's loops over `child_pcb` become `Chain(t)`, the least
set closed under the link (so the model does not assume that loops end: that is
`OneForeground`).

Stack pointers are modelled as frames. `kstack[p]` says what really lies on top
of p's kernel stack: nothing of interest (`"run"`, p is not suspended), a call
of `execute` waiting for a child, or a `task_switch` cut in the middle.
`self_esp[p]` and `esp_switch[p]` are the PCB fields: pointers to such frames.
A pointer is live if the frame it describes is still there. Loading a pointer
makes the CPU run on the stack it points to (`cpu' = frame.on`), so a stale
pointer would show as the wrong process running.

Actions: `Boot`, `Execute`, `ExecuteFails`, `HaltProgram`, `HaltBaseShell`,
`handle_exception` (the 20 handlers of `IDT.c` differ in their message only), `SwitchTo`, `Launch`, `LaunchFails`. What the code does and the actions say:

- `execute` does not write `child_pcb`; it relies on zeroed memory at boot and
  on `halt` clearing the link (`FreeSlotHasNoChild`).
- `execute` fills the new PCB's scheduling pointers with its caller's; they are
  overwritten by the first tick before anybody loads them (`WaitingFrameIsLive`).
- A base shell that halts frees its slot and its successor takes the lowest
  free one, which may be another. Its caller frame dangles; nobody uses it,
  because a base shell never returns.
- The boot stack starts at 0x800000, where slot 0's kernel stack does.
- `halt` reports status 255 as 256; a full table also makes `execute` return 256.
- `task_switch` has moved `active_task` on before it launches a shell. If no
  slot is left, it goes back to the old process under the wrong `active_task`
  (`LaunchFails`), and from then on every tick takes the early return; a `halt`
  then finds no PCB, and faults. This needs a program to start three others (of
  six slots) within two ticks after boot. The constant `ExecBeforeShells` says whether programs run in that window.
- The early return of `task_switch`, which boot relies on since `sti()` precedes
  `execute("shell")`, changes nothing: a stuttering step.
- The late failure of `execute` (`read_data` failing after `add_PCB`) would
  leak a slot. It cannot happen: the same file was read twice before.

### Input

`kb_buf`, `table_kb_buf` (the copies in the terminal table), `int_buf` and
`terminal_read_release` are the code's. Characters carry the terminal they were
typed on, so that mixing shows. `handler[t]` is what the keyboard handlers that
interrupted task t still have to do, the innermost first; a step is one pass over
a buffer, so that the length read by `add_char_to_buf` may be stale when it is
used. `reader[t]` is task t's call of `terminal_read`, one byte per step.
`Preempted` says whether the PIT or a further key may cut a handler in two (the
EOI is sent first), `MaxTodo` bounds the steps left on one stack; `OneLine` says
whether the user waits for a line to be read before pressing Enter again.

What the model shows about the code beyond its properties:

- The Enter flag is set before the line is copied. With `Preempted`, a reader
  can run in between and returns the previous contents of `int_buf`;
  `ReadsOwnLine` is therefore checked without it.
- An Enter pressed between a reader's copy and its reset of the flag is lost.
- A line of `KB_SIZE - 1` characters has no room for its newline, and the shift
  loop of `terminal_read` may then begin behind `int_buf`, at
  `terminal_read_release`, which the compiler puts there (`SourceByte`). A call
  with `KB_SIZE - 1` bytes begins at the low byte of terminal 0's flag: if Enter
  is pending there, the byte (`SOH`) is copied into `int_buf` and cleared in the
  flag, and the program that waits on terminal 0 goes on waiting.
  `EnterIsAnswered` names this case, `FlagTaken`, and shows that there is no other.
  A call with `KB_SIZE` bytes begins one byte further, which is zero, and stops.
- A tick or a key in the middle of `switch_terminal` lets a key work on the new
  line and the old terminal number: the lines stay terminated
  (`LinesTerminated`), but text may go to the wrong one, which is why
  `LineIsTyped` has the hypothesis `~Preempted`.
- `terminal_read` with 0 bytes stores a newline in front of the program's buffer
  (user memory; `NBytes` leaves 0 out).

### Files

A call of `fread` runs `read_data` one block per step; other processes may run
between two blocks. The bytes copied are represented by their positions in the
file. `read_data` computes the end of the file as the end of its last block,
so programs may get padding; `OverrunIsBounded` says how much.
`offset + length` is compared as a signed word, `Signed`, with `WORD` the size
of a word. `dread_loc` is shared by all processes; reading and incrementing it
are two steps.

`read_dentry_by_name` compares the first `FILE_NAME_LEN` characters (`Cut`): a longer
name opens the file whose name it extends, and the empty name opens nothing. It goes through
entries 0 to `MAX_D_ENTRIES - 1`, while `read_dentry_by_index` allows
`MAX_D_ENTRIES` too: an entry there is listed by `dread` and cannot be opened.
`open` keeps the inode number in one byte (`% BYTE`), so in an image with more than 256
inodes it would read another file.

The image is taken to be well formed: data block and inode numbers are in range, so
the checks of `read_data` that return -1 for others do not show.

### FdTable

`FdTable` says what `execute`, `halt`, `open`, `close` and `read` do to `fd_arr` in
the PCBs. Who runs, starts and ends is `Tasks == INSTANCE TaskStacks`, the
specification `Procs` implements: `execute` is `Tasks!Start` with the set-up of
the new PCB, `halt` is `Tasks!End` with the clean-up, `task_switch` is
`Tasks!Rotate`, which may launch a shell. `open` is two actions, `openFind` and
`openFill`, since a tick may come in between. `write` and `getargs` change
nothing; failing calls are no steps.

- `halt` leaves the descriptors of a base shell open: it has called
  `execute("shell")` before it gets to them, and never returns. The next user of
  the slot clears them in `execute`.
- `close` leaves the operation table in a closed descriptor; only the flag counts.
- An argument that does not end within the first 128 characters of the command
  line is dropped (`arg_nbytes` stays 0): for the model, no argument.

### Rtc

The chip is an index port (`index`), register A (`regA`: the divider in its upper
half, the rate's code below) and the interrupt it holds until register C is read
(`raised`). Handler, reads and writes move one access at a time; `handler` and
`call[t]` say how far they are. `owed` is a history variable: interrupts less
reads that have returned, so that it is negative if one interrupt ends two reads.

- Nothing keeps interrupts away from `rtc_write`, and the handler uses the
  same ports. The history variable `crossed` says whether a selection of one
  register has come between a selection of the other and its access; the model
  goes on after that, and shows what happens: a tick between the handler's
  selection of C and its read, then a selection of A in `rtc_write`, and the
  handler reads A instead of C, so that the chip raises no further interrupt; or the
  handler comes between a selection of A and its access, and the flags of C are
  stored over the divider, or the rate goes to C. `RateIsWritten` and `ReadReturns`
  say that nothing else can go wrong: not the writes of two tasks cut into each
  other, nor a handler on top of another one.
- Whoever reads register C acknowledges the interrupt, `rtc_write` too.
- All terminals share one rate; `rtc_open` resets it to 2 Hz for everybody.
- An interrupt between the end of a wait and the reset of the flag is not counted.
- `MaxOwed` caps the history variable and must be at least 2: one interrupt may be left over
  when the next comes.

### Screen

Video memory is one array: the page the VGA shows, then one page per terminal.
The terminal on the screen is kept in the first, the others in their own; a
switch copies both ways. A cell holds its colour only, which names the terminal
that wrote it, so that output on a foreign screen shows. Keys work on
`active_terminal`, programs on `active_task`, as in the code. `TermScreens` has
no pages: what a terminal's user and programs write goes to that terminal's
screen, and a switch only changes which one is shown. Scrolling by the echo is
left open there (`\E rows`): where the code scrolls is its own business, that
only the screen shown scrolls is not.

The echo of `add_char_to_buf` is stored at the line's start plus its length,
with no test against the screen or the page. Only the scroll in the bottom right
corner keeps a long line from reaching the next page, which is the saved screen
of terminal 0. `EchoInPage` says it does, and needs the inequality between
screen, buffer and page size in `ScreenAssumption` (80 * 24 + 125 < 2048).

`putc` takes a step to choose its page, one to store, one to test the position and
one to move it. `switch_terminal` and `vidmap` take a step for each pass over a
page (save, clear, load) and for each entry of the page table; `active_terminal` is
set in the last. A task's calls form a stack (`calls`), since the key that switches may come
inside a `vidmap` or inside another switch. The echo of one key is one step.

Four constants name what may happen between these steps. What goes wrong with each:

- `PutcInterrupted`: a key is handled inside `putc`. A terminal switch after the
  page is chosen puts the character on the terminal that has just come to the
  screen. An Enter between the test of the position and its move takes `y` to
  `NUM_ROWS`, and the next output lands behind the last row.
- `Preempted`: other tasks run, and keys come, inside `switch_terminal` and `vidmap`.
  Both run with interrupts enabled, the handler after its EOI. Between the load
  of the new screen and the last step, the old terminal's program is still
  taken for the one shown: its output goes to the new terminal's screen. What it
  prints between save and load is lost, or, after a scroll, mixed.
  `vidmap` marks all entries not present before it sets them again: another
  terminal's program that uses its address meanwhile dies by a page fault (`VidFault`).
  A `vidmap` between a switch's entries and its last step, or one switch inside
  another, leaves entries of both in the table.
- `TypeAhead`: a program prints while its user types, which moves the start of the
  echo; the corner test is one for equality and may be missed, and the echo of a full
  line in the last row then reaches cell 24 * 80 + 79 + 126 = 2125 of a page of 2048.
- `VidmapHidden`: `vidmap` is called on a hidden terminal. The caller's entry then leads
  to the screen; until the next switch its program draws on the
  terminal the user looks at.

`ImplementsTermScreens` is checked and proved with all four `FALSE`: other tasks still run
between any two steps of `putc`, but not inside a switch. It fails with any one of them
`TRUE`. `MappingFollowsSwitch` is about the opposite case, `Preempted`
and `VidmapHidden` both `TRUE`: whatever half-done calls have left in the table, one switch, or
one `vidmap` on the terminal shown, that begins when no other is under way and is not
joined by another (`settled`) repairs it.

### Keys and Interrupts

`Keys` is `get_scan_code` as far as it depends on the code and `key_status`: one
hexadecimal digit per modifier, raised by every press code and masked out by the
release. `Interrupts` delivers the codes. Its state is that of the two 8259s
(`irr`, `in_service`, `unmasked`), the gates (`present`), and for each task the
handlers on its kernel stack. Gates are trap gates, so only a line in service
keeps others away. `task_switch` is the interesting handler: it acknowledges
the PIT on the outgoing task's stack and returns on the incoming one's, leaving
whatever the outgoing task was in, a keyboard or RTC handler without its EOI
included. `BootSteps` is the order of calls in `entry()`.

What the model says about the code beyond its properties:

- The masks that clear a modifier keep one bit of each other digit. That is
  harmless for the keys' meaning after all keys are up (`KeysAgree`), but while
  Shift is held its repeated codes make the status 2, 3, ..., for which the "both" table
  is used; and Ctrl or Alt repeated an even number of times are not recognised.
- The 16th press code of a held key carries into the next digit: holding Shift
  turns Caps Lock over. `MaxPresses <= 15` is an assumption.
- The handler reads the scan code after its EOI. The model reads it and updates
  `key_status` in one step; a tick between the two could let the next code overtake.
- The exception wrappers remove their error code with `addl ONE_LEVEL, %esp`,
  a load from address 4. It is never executed: no exception handler returns.

### Fish

The program is sequential: what varies is the two files. A step is one pass of
the inner loop of `add_frames`, one call of `mp1_ioctl` or one blinker in the
tasklet. `Picture` is the reference: the characters of the two texts by row and
column, computed from the text and not by reading in step.

- The location is an `unsigned short`, `row * 80 + column + 40`, and 0 is the mark of
  a free slot. The shipped frames, of 11 rows, are far from its limit; a frame with a
  character in row 818, column 56 has one whose location, 65536, is stored as 0
  (`Location`, modulo `LOCATIONS`). Its blinker is in the list and its slot counts as
  free, the next one is put in the same slot and linked to itself, and the tasklet
  walks round it for ever. Characters in later rows wrap to the top of the screen and are drawn there.
  The properties name the two cases: `NoneAtZero` (no character of either frame has
  a location that is stored as 0) for list, lockstep, what is shown and the end of the program,
  `NoneWraps` (all locations fit) for the picture.
- `mp1_ioctl_sync` picks the character by a `cmovl` after `testb`, which never
  moves: the synced blinker is first shown off. `ShowsStatus` leaves it out until
  the next phase.
- `mp1_ioctl_remove` leaves the character of the blinker that goes on the screen, also where
  another blinker is under it. That the other one is then shown as its status says
  is owed to the three waits of 100 ticks before the removal being a whole number of
  blinks of 15. For other lengths `ShowsStatus` fails: TLC finds a trace
  with `SIZE = 3`, `WAIT = 1`, `FRAME_LENGTH = 2`, `NUM_COLS = 1`, `EXTRA = 2`.

## Runs

| run | module, cfg | shows |
|---|---|---|
| `procs` | `MCProcs`, `MCProcs.cfg` | table and lists agree, the CPU runs the foreground process, saved pointers are live, halt returns to the parent, every terminal runs for ever, `Procs` implements `TaskStacks` |
| `procs_early` | `MCProcs`, `MCProcsEarly.cfg` | with programs started at any time, the CPU leaves the foreground process of `active_task` only by a failed launch |
| `input` | `MCInput`, `MCInput.cfg` | lines survive terminal switches; a read returns the line entered on its own terminal, cut to its room and ended by a newline, and nothing left over from earlier reads |
| `input_answer` | `Input`, `MCInputAnswer.cfg` | a waiting program whose terminal's Enter was pressed gets out of its wait and of its loops, also if Enter is pressed while they run, unless another reader's shift loop has run into its flag |
| `input_free` | `Input`, `MCInputFree.cfg` | violation: see below |
| `files` | `MCFiles`, `MCFiles.cfg` | reads deliver the next bytes, padding is bounded, listings are complete, loops end |
| `fds` | `MCFdTable`, `MCFdTable.cfg` | descriptors in use have tables, open files are kept, waiting processes keep their descriptors, arguments are the program's own |
| `rtc` | `Rtc`, `MCRtc.cfg` | no interrupt ends two reads of one terminal; reads return and the rate asked for is set unless selections have crossed |
| `screen` | `Screen`, `MCScreen.cfg` | with nothing inside a switch and no key inside `putc`: positions stay on the screen, the echo stays in its page, `Screen` implements `TermScreens` |
| `screen_preempted` | `MCScreen`, `MCScreenPreempted.cfg` | with `vidmap` and switches cut into one another at any step: an undisturbed one repairs the page table for every program that has an address |
| `interrupts` | `MCInterrupts`, `MCInterrupts.cfg` | one EOI is owed for each line in service, no line interrupts without a gate, keys mean what the modifiers say, every request is served |
| `fish` | `MCFish`, `MCFish.cfg` | while locations do not wrap (to 0): the blinkers are the picture, list and pool agree, closed files are not read, the screen shows the blinkers' status, synced blinkers stay in step, the program ends |

Every property of a passing run has a mutant: an operator next to the
definition it changes, marked `Mutant:` in the modules, with a bug this code could
have had. TLC finds the property violated with it.

## Bounds

- `Procs`: 5 slots (4 in the early run) for the code's 6. With three base
  shells this leaves two programs, enough for a full table, a chain of three on
  one terminal, programs on two terminals at once and respawns into a foreign
  slot. Statuses 0 and 255. In the early run, 4 slots let a launch
  fail. The proofs have no such bound. `CHECK_DEADLOCK FALSE` in the early run:
  after a failed launch the machine may really be stuck in faults.
- `Input`: 2 terminals for 3, buffers of 3 bytes for
  128, one letter (the character also carries its terminal). Lines that are
  empty, partly filled and full all occur, and reads with less room, exactly
  enough (`KB_SIZE - 1` among them) and too much. The answer run has buffers of 2 bytes, reads of 1,
  which is `KB_SIZE - 1`, and letters on terminal 1 only (`Typists`): the flag of
  terminal 0 is taken by a reader on terminal 1 in it.
  No run sets `Preempted` (so `MaxTodo` is 0): `LinesTerminated` is proved for it.
- `Files`: blocks of 4 bytes; the directory and files of 0, 4, 6, 9 and 7 bytes (empty, a whole
  block, part of the second, part of the third), one of them with a name of full length
  and one in an entry that look-ups do not reach; pieces of 1, 3, 6 and 31: all
  alignments with a block, pieces over two blocks, and a sum of offset and
  length that overflows a six-bit signed word. Two processes. `BYTE` is 8: the inodes of the directory fit.
- `FdTable`: 4 slots (three shells and a program, and respawns), 4 descriptors
  for 8, one kind of file, one argument or none, 3 opens in all: a process can
  fill its table and try once more, close and open again, and leave stale
  entries to the next user of its slot. `MaxPos` is 1: a position is fresh or moved.
- `Rtc`: 2 terminals for 3; rate 2, the one `rtc_open` sets, and 3, which is not in the table;
  `MaxNested` 1: one handler on each of the two stacks, so that they overlap through
  ticks. Handlers on top of one another, and writers with different rates, are
  covered by the theorems, which have no bound. `MaxOwed` caps the history variable
  from above, which can only make `NoInterruptCountedTwice` harder to satisfy.
- `Screen`: 2 terminals, a screen of 2 by 2 cells in a page of 4, lines of up to 3
  characters: lines that start in every cell, wrap, fill the buffer and reach the corner all
  occur, and the page is the smallest `ScreenAssumption` allows, so an echo one
  cell too far shows. One task (`VidTasks`) calls `vidmap` and writes the last cell;
  `MaxCalls` is 1, which without preemption is no bound. The preempted run has
  `MaxCalls` 2: a switch inside a `vidmap` or inside another switch, on each of the two
  stacks. Its screen is of the least size and its states are compared by `VIEW TableView`,
  without contents, lines and positions: the table of `vidmap` does not
  depend on them. The theorem `ScreenMapping` has neither bound nor view.
- `Interrupts`: 2 tasks, the keys Shift, Alt and Caps Lock, at most 2 press codes
  of a held key (a press and a repeat). With three lines and two tasks a handler is cut
  before its EOI, its line requests again meanwhile, and both tasks are in
  handlers at once. Nesting is not bounded: lines in service bound it.
- `Fish`: every pair of texts of up to 3 characters out of a letter, a space and
  a newline, and of 4 out of a letter and a newline, with lines and files of different lengths, blank lines
  and missing last newlines. The screen has 3 columns and 7 cells, less than
  the longest pictures need, and locations are stored modulo 8 (`LOCATIONS`): texts of three rows
  have characters that wrap to 0, those of four others. Without the premises `NoneAtZero` and
  `NoneWraps` TLC finds each property that has one violated. The later blinker lies under one of the picture in
  some and not in others. Lengths of 3 and 2 with 4 ticks in each phase make
  blinkers turn over in every phase, and the sync fall in different places of a period.

Symmetry (of the slots) is used in `fds` only, which checks no liveness: nothing
in `FdTable` or `TaskStacks` tells slots apart. `Procs` hands out the lowest free
slot and has no such symmetry.

## Fairness

- `Procs`: weak fairness of `Boot` (the kernel runs it unconditionally) and of
  `TaskSwitch`: the PIT ticks for ever, and user code runs with interrupts on.
  None of the programs' own actions: they need not call anything.
- `Input`: strong fairness of the tick (a tick during another handler stays
  pending in the PIC) and, per task, of the handler's and the reader's next
  step: a time slice lasts milliseconds, far longer than a handler or a read.
  Not of keys.
- `Files`: weak fairness of each process's read loop, which is what the
  scheduler provides.
- `Rtc`: strong fairness of tick, interrupt, handler and calls, as in `Input`; the
  PIT and the RTC are periodic. Programs need not call anything.
- `Interrupts`: weak fairness of the PIT's tick and of `task_switch`, which nothing
  interrupts; strong fairness of boot, of the delivery of each line and of each task's keyboard and
  RTC handlers: they can be put off by ticks again and again, but a time slice
  is longer than a handler. Not of keys, nor of the RTC's interrupts.
- `Fish`: weak fairness of its next step: the program is scheduled, and the RTC
  interrupts (which `ReadReturns` of `Rtc` turns into reads that return).
- `FdTable` and `Screen` have no liveness property, and no fairness.

## Proofs

Every invariant and every action property of a passing run is a theorem here, for
all values of the constants that the `ASSUME` of its module admits. Where a theorem
has a hypothesis, it is a constant that restricts the environment
(`~Preempted`, `OneLine`, `~ExecBeforeShells`, ...), with the value the run gives it, or a
condition on sizes; the sections above say what happens without it. The constants that only bound
the runs (`MaxTodo`, `MaxNested`, `MaxCalls`, `MaxOwed`, ...) may have any value.

| module | theorem | states | if |
|---|---|---|---|
| `ProcsProofs` | `ProcsSafety`, with `ProcsTypes`, `ProcsTable`, `ProcsFrames`, `ProcsRunningUnless` as its parts | `TypeOK`, `SlotsMatchLists`, `WaitingFrameIsLive`, `RunningUnlessLaunchFailed`, and `FreeSlotHasNoChild`, `OneForeground`, `CallerFrameIsLive` | |
| | `ProcsHaltReturns` | `HaltReturnsToParent` | |
| | `ProcsRunning` | `RunningIsForeground` | `~ExecBeforeShells` |
| | `ProcsImplements` | initial states and steps are those of `TaskStacks` | `~ExecBeforeShells` |
| `InputProofs` | `InputSafety`, with `InputTypes`, `InputLines` | `TypeOK`, `LinesTerminated` | |
| | `InputTyped` | `LineIsTyped` | `~Preempted` |
| | `InputReads` | `ReadsOwnLine` | `~Preempted`, `OneLine` |
| `ScreenProofs` | `ScreenTypes` | `TypeOK` | `~PutcInterrupted` |
| | `ScreenMapping` | `MappingFollowsSwitch` | |
| | `ScreenEcho` | `EchoInPage` | `~TypeAhead`, `~PutcInterrupted`, `~Preempted` |
| | `ScreenImplements` | `ImplementsTermScreens` | these and `~VidmapHidden` |
| `FilesProofs` | `FilesReads`, `FilesOverrun` | `ReadsNextBytes`, `OverrunIsBounded` | |
| | `FilesListing` | `ListingComplete` | `OneLister` |
| `FdTableProofs` | `FdTypes`, `FdTables`, `FdArgs` | `TypeOK`, `TablesInPlace`, `ArgIsOwn` | |
| | `FdWaiting`, `FdOpenKept` | `WaitingKeepsDescriptors`, `OpenFilesKept` | |
| `RtcProofs` | `RtcTypes`, `RtcNotTwice` | `TypeOK`, `NoInterruptCountedTwice` | |
| | `RtcRate` | `RateIsWritten` | |
| `InterruptsProofs` | `InterruptsGates`, `InterruptsEoi`, `InterruptsKeys` | `GateReady`, `EoiOwed`, `KeysAgree` | |
| `FishProofs` | `FishOpen`, `FishList`, `FishLockstep` | `ReadsOpenFile`, `ListMatchesPool`, `Lockstep` | |
| | `FishShows` | `ShowsStatus` | `3 * WAIT` a multiple of `FRAME_LENGTH` |
| | `FishFrames` | `FramesComplete` | `Narrow`: no line of a frame is wider than the screen |

### Processes

The inductive invariant `IInv` is `TypeOK`, `TableInv` (shape of
the lists: table and lists agree, lists are disjoint, a list with a head has
exactly one tail, nobody has two parents, free slots have no link), `BootInv`
(nothing exists before the first shell), `CpuStackInv` (nothing suspended lies
on the running stack), and the three properties about the running process and
the saved frames. None is inductive alone: that halt returns to the parent needs the parent's frame to
be live; that it stays live needs that nobody else runs on
the parent's stack, hence that the lists are disjoint and the CPU is a tail;
and that a tick saves the right pointer needs the CPU to be the tail
`task_switch` looks up.

The list facts are separate lemmas about `ChainFrom`, the least closed set:
appending behind the tail (`ChainAppend`, `AddBehindTail`), cutting the tail off
(`ChainCut`, `RemoveTail`), and changes off the list (`ChainOther`). The least
set makes induction over lists unnecessary: to show that a list lies in a set
it suffices that the set is closed. Then there is one lemma per action
(`StepCases` reduces an exception to the `halt` it ends in).

`ProcsRunning` adds `EarlyInv` (before all shells are up, nobody has a child)
and the pigeonhole `FullMeansShellsUp`: three slots cannot be filled by fewer
than three base shells, so no launch finds the table full.

`ProcsImplements` is about `ProcStacks`, which reads the list of a terminal as a
sequence. Its invariant `StackInv` says that this sequence is the list: it begins at
the head, each link leads to the next element, the last has none, and no slot
occurs twice (`IsList`). `ListIs` shows that such a sequence is what `ListFrom` computes: two
solutions of its recursion would differ at a smallest place, and `MAX_PROCESSES` passes are
enough by a pigeonhole (`ListFits`); `ListPush` and `ListPop` say what
`add_PCB` and `halt` do to it. One lemma per action then shows the step of `TaskStacks` it
takes: `Launch` and `SwitchTo` are `Rotate`, `Boot` and `Execute` are `Start`, `HaltProgram` is
`End`, `HaltBaseShell` is `Replace`, a failing `execute` is a stutter, and a failing launch does not happen.

### Input

`LinesTerminated` is not inductive: a handler stores at a length it read
earlier. The invariant `LInv` adds what is known of lengths in flight (`Ops`: a
pending store has `len + 1 < KB_SIZE`, a pending erasure `len > 0`, however the
buffer has changed since) and of calls of `terminal_read` (`Calls`: `i <= n`
while copying, `c < i` while shifting). That `strlen` is defined needs the least
element of a set of naturals, taken from the library's well-foundedness of `<`.
`i` may pass the end of the buffer only for calls of `KB_SIZE - 1` bytes or more, by two.
All of this holds with `Preempted` and nested handlers too.

`LineInv`, for `InputTyped`, describes the one handler there is without
preemption by what it has left to do: `Editing` a line (before and after the length was
read, at the newline, before the buffer is saved), `Copying` an entered line,
`Switching` (the line of the old terminal is saved, that of the new not yet loaded).
In each the buffer holds a known line; the tables of hidden terminals hold what was typed there.

`ReadInv`, for `InputReads`, says that at most one terminal is `Busy`, from its Enter
to the return of the read, so nobody else writes `int_buf` meanwhile. `Carries`: `int_buf` from
the reader's index on, and the program's buffer before it, are the line entered. The full
line, which has no newline, is what makes its cases.

### Screens

`ScreenTypes` is arithmetic: every page and what is scrolled
in it lies within video memory. `ScrollInv` says that between `putc`'s test and its move the
position is still the one tested, which is where the hypothesis is used. `MapInv`, for
`ScreenMapping`: if the call that began last was alone and no other has begun since, it is the only one
under way, and the entries it has set so far are right; when it has returned, all are.
`CallInv`, without preemption: at most one call is under way. `EchoInPage` is not inductive:
`EchoInv` says that a line starting in the last row has not reached the corner
(the scroll there moves its start up a row just in time), and that no `putc` is under
way on a terminal with a line half typed. A line that starts higher ends within the page by
the last inequality of `ScreenAssumption`.

`ScreenImplements` needs both and `PutInv` (a `putc` under way stores to
the page its terminal is in now). Every action is then shown to change the
screen of one terminal, at the cell `TermScreens` says, or to scroll it; the steps
of a switch change none: from the save to the last step the screen that goes is kept in its
own page (`Home`), though it is still on the VGA's.

### Files, descriptors, clock

`FilesInv`: while a call is in its loop (`Reading`), the bytes copied are consecutive
from the file position, copied and left make up what is wanted, and after
the first block the copy has reached the border of block `i` unless it is finished; a call that
has come back has `Returned` what the properties say. The division by `BLK_SZ` and
the wrap-around of `offset + length` are lemmas of their own (`BlocksUsed`,
`WantedBounds`). Since a process only changes its own entry, interleaving is one lemma.
`ListInv` with `OneLister`: there is one lister, and `dread_loc` is the number of names it has.

`FdInv` begins with the invariant of `TaskStacks` (slots occur once on the stacks,
the running process is on top), proved here from that module's actions, not from
`Procs`. `OpenFree` is what makes the two halves of `open` safe: the
descriptor chosen is still free and its process live when it is filled. `StdFds`, `HaveTables` and
`Args` speak of live slots only, so that garbage in free ones is no matter.

`RtcInv` counts: `Covered` says that interrupts less reads is at least
one for a flag that is set (or a wait that has seen it) plus one for a handler that has yet to set it.
`RateInv`: unless selections have crossed, the index register is A between a
call's selection and its access, whoever else selects it, and what the call has read is the divider.

### Interrupts

`GatesSet` says which gates are present after each step of boot. `EoiInv`: each
line is in service iff exactly one frame of it on all stacks together has not been
acknowledged, the cascade iff the RTC is; and `Parked`: a task that waits
ends in an acknowledged frame of the PIT, so that returning to it pops the right
one. `KeyInv` says that the status, after the codes still in the queue, is a sum of one digit per
modifier, zero for those that are up; the masks' arithmetic is done by lemmas on digits, up to 15.

### Fish

`Wrapped` and the lemmas around it turn `NoneAtZero`, a condition on the texts, into what the list
needs: no blinker is put into a slot that stays marked free.
`BaseInv` describes the list by two numbers, `k` slots in use and a hole `h`: slot `s`
is linked to `s - 1`, or over the hole. With that the n-th element is a formula (`Place`), shown
equal to the recursive function `Nth`. `SyncInv` compares two blinkers as they will be
when the tasklet has come past both (`Due`), since in the middle of a tick one is ahead.
`ShowInv` is about a blinker alone in its place; that one that becomes alone by the
removal is shown right is `FreshInv` and the hypothesis on `WAIT`.
`TextInv` relates the two reads in step to rows and columns of the texts
(`Where`, `Finished`), and `DrawInv` says what has been drawn up to the present row
and column and that slots are taken in order of location (slot `s` at `s + OFFSET` or
behind), so that the pool lasts as long as the screen does. The hypothesis `Narrow` is needed for that order; the frames in
the repository are 24 characters wide.

### Only model-checked

- The liveness properties `EveryTerminalRuns`, `EnterIsAnswered`, `ReadingEnds`, `ReadReturns`,
  `IrqServed`, `FishEnds`, and the fairness of `ImplementsTaskStacks`: the prover does not
  handle `ENABLED`, which weak and strong fairness are defined by.
- Properties with their hypotheses dropped are not theorems: they are false, and the sections
  above say how.

No module with a proof reaches a recursive operator; recursive functions and folds take their place.

## Disagreements between code and documentation

- `input_free`. The bug log (`bug_log.txt`, Checkpoint 5) reports lines going
  to the wrong terminal and gives three Enter flags as the fix. `int_buf` is
  still shared: Enter on terminal 0, a switch, a line and Enter on terminal 1
  before terminal 0's program has read, and that program reads the line of
  terminal 1.

Further ones, which no run of their own shows (most are what a passing run's
constant or assumption leaves out):

- The comment on `dread` says it returns 0 "if we have no more files left to
  read". Two processes that list at once share `dread_loc`: each gets some of the
  names, and one is told the end has come without having them all
  (`OneLister = FALSE` in `Files`).
- The header of `rtc_read` says it blocks "until next one arrives". The flag is
  not cleared before the wait: an interrupt that came before the call ends it at once.
- Comments in `rtc_write` say "write only our rate to A" and "read immediately
  after or the RTC may be left in an unknown state". Its accesses can be separated
  by the RTC's own interrupt, whose handler selects register C: then the upper
  half of C is stored in A over the divider, or the rate goes to C
  (`crossed` in `Rtc`).
- The bug log (Checkpoint 5) gives the distinction of `ACTIVE_TERMINAL` and
  `ACTIVE_TASK` as the cure for output on the wrong terminal. `vidmap` on a hidden
  terminal, a switch in the middle of `putc` and a tick in the middle of a switch still cause it
  (`VidmapHidden`, `PutcInterrupted`, `Preempted` in `Screen`).

## What is not modelled

- GDT, LDT and TSS set-up, and of paging all but its result: straight-line code that runs once.
  The video pages it maps are `Memory` in `Screen`, and the one
  entry that changes, the user page, is `page` in `Procs`.
- Register saving in `IDT_asm.S` and the system call jump table. The models take a
  call or an interrupt to return to where it came from with its registers.
- The parsing of the command line, the check of the executable's magic number
  and the loading of its image are in `Procs` only as success or failure.
- The blinking cursor, the formats of `printf` and the string functions of
  `lib.c`, which have no state of their own.
- In `fish`, `mp1_ioctl_find`, which it never calls, and its exits when a frame
  is missing. The other user programs are the environment: system calls in any order.
- In-kernel tests (`tests.c`), which are not part of the running system.

## Plan

In this order; 1 to 9 are done.

1. `Procs`, `TaskStacks`, `ProcsProofs`: the core.
2. `Input`, `InputHistory`, `InputProofs`: from the keyboard to a program.
3. `Files`, `FilesProofs`.
4. `FdTable`, `FdTableProofs`.
5. `Rtc`, `RtcProofs`.
6. `Screen`, `TermScreens`, `ScreenProofs`: what is written on which screen.
7. `Keys`, `Interrupts`, `InterruptsProofs`: modifiers under key repeat, masks, EOIs, handlers left half way.
8. `Fish`, `FishProofs`.
9. Both refinements proved: `ScreenImplements`, and `ProcsImplements` over a mapping without
   recursive operators (`ProcStacks`).
10. `Layout`: the tables of `paging.c`, and that PCBs, kernel stacks and pages of
    different slots do not overlap; the command line of `execute` as a pure
    function against a reference.
