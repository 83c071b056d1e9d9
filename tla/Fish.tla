-------------------------------- MODULE Fish --------------------------------
(***************************************************************************)
(* The animation program: add_frames, which turns two text files into      *)
(* blinking characters, the pool and list of blinkers behind mp1_ioctl,    *)
(* and the tasklet that runs after each read of the RTC.                   *)
(* (fish.c, blink.S)                                                       *)
(*                                                                         *)
(* The program is sequential; what varies is the two files.  The system    *)
(* calls it makes succeed (open fails only if a frame is missing).         *)
(* A step is one pass of add_frames's inner loop, one call of mp1_ioctl,   *)
(* or one blinker in the tasklet.  Lengths stay far from 2^16, where the   *)
(* tasklet's signed test of the countdown would matter; the location of a  *)
(* character wraps there, and a text of more than 818 rows gets that far.  *)
(***************************************************************************)
EXTENDS Integers, Sequences, FiniteSetsExt

CONSTANTS
    Frames,        \* the texts a frame file may have
    NL, SPACE,     \* '\n' and ' '
    NUM_COLS,      \* columns of the screen (80)
    SIZE,          \* cells of the screen, and blinkers in the pool (80*25)
    LOCATIONS,     \* values of the unsigned short location (2^16)
    OFFSET,        \* where the first character goes (40)
    EXTRA,         \* the location of the blinker added later (6*80+60)
    FRAME_LENGTH,  \* on_length and off_length of the frames' blinkers (15)
    ON_LENGTH, OFF_LENGTH,  \* those of the one added later (7 and 6)
    WAIT           \* RTC interrupts awaited in each phase (100)

\* The tasklet tests a countdown as a signed word of 16 bits.
SHRT_MAX == 32767

ASSUME FishAssumption ==
    /\ NUM_COLS \in Nat \ {0} /\ SIZE \in Nat \ {0}
    /\ LOCATIONS \in Nat /\ LOCATIONS >= SIZE
    /\ OFFSET \in 1..(SIZE - 1) /\ EXTRA \in 1..(SIZE - 1)
    /\ FRAME_LENGTH \in 1..SHRT_MAX
    /\ ON_LENGTH \in 1..SHRT_MAX /\ OFF_LENGTH \in 1..SHRT_MAX
    /\ WAIT \in Nat \ {0}

\* The frames are texts.
ASSUME TextAssumption ==
    /\ NL \notin {SPACE, "0"}
    /\ \A text \in Frames : text \in Seq(Range(text))

NULL == SIZE
Slots == 0..(SIZE - 1)
Fds == {0, 1}

VARIABLES
    file,         \* fd -> the frame
    pos, c, eof,  \* fd -> file position, last character, seen the end?
    open,         \* the descriptors not closed yet
    row, col,
    pool,         \* blink_array
    list_head,    \* mp1_list_head
    vmem,         \* the characters on the screen
    pc,           \* "frames", "wait" (for the RTC), "tasklet" or "done"
    at,           \* the tasklet's place in the list
    phase,        \* which of main's four waiting loops
    waited        \* passes of that loop

fileVars == << pos, c, eof, open, row, col >>
listVars == << pool, list_head, vmem >>
vars == << file, fileVars, listVars, pc, at, phase, waited >>

-----------------------------------------------------------------------------
FreeBlink == [location |-> 0, on_char |-> SPACE, off_char |-> SPACE,
              on_length |-> 0, off_length |-> 0, countdown |-> 0,
              status |-> 0, next |-> NULL]

Blink(location, on, off, on_length, off_length) ==
    [FreeBlink EXCEPT !.location = location, !.on_char = on, !.off_char = off,
                      !.on_length = on_length, !.off_length = off_length]

Init ==
    /\ file \in [Fds -> Frames]
    /\ pos = [f \in Fds |-> 0]
    /\ c = [f \in Fds |-> "0"]
    /\ eof = [f \in Fds |-> FALSE]
    /\ open = Fds
    /\ row = 0 /\ col = 0
    /\ pool = [s \in Slots |-> FreeBlink]
    /\ list_head = NULL
    /\ vmem = [l \in Slots |-> SPACE]
    /\ pc = "frames" /\ at = NULL /\ phase = 1 /\ waited = 0

-----------------------------------------------------------------------------
(* mp1_ioctl. *)

Poke(location, char) == vmem' = [vmem EXCEPT ![location] = char]

\* Mutant: a slot in use is handed out again.
mp1_malloc_First == {0}

\* The first slot of the pool that is free, which its location 0 says.
mp1_malloc ==
    {s \in Slots : pool[s].location = 0
                      /\ \A r \in 0..(s - 1) : pool[r].location # 0}

mp1_ioctl_add(b) ==
    IF b.location >= SIZE \/ mp1_malloc = {} THEN UNCHANGED listVars
    ELSE \E s \in mp1_malloc :
           /\ pool' = [pool EXCEPT ![s] =
                         [b EXCEPT !.status = 1, !.countdown = b.on_length,
                                   !.next = list_head]]
           /\ list_head' = s
           /\ Poke(b.location, b.on_char)

\* The list as slots in order, ended by NULL.
Nth[n \in 0..SIZE] ==
    IF n = 0 THEN list_head
    ELSE IF Nth[n - 1] = NULL THEN NULL ELSE pool[Nth[n - 1]].next

\* The first blinker of the list at a location, or NULL.
mp1_find_helper(location) ==
    LET hits == {n \in 0..SIZE : Nth[n] # NULL
                                   /\ pool[Nth[n]].location = location}
    IN  IF hits = {} THEN NULL
        ELSE Nth[CHOOSE n \in hits : \A m \in hits : n <= m]

\* Unlink the blinker from its predecessor, or from the head, and free it.
mp1_ioctl_remove(location) ==
    LET b == mp1_find_helper(location)
        unlinked == [s \in Slots |-> IF pool[s].next = b
                                     THEN [pool[s] EXCEPT !.next = pool[b].next]
                                     ELSE pool[s]]
    IN  IF b = NULL THEN UNCHANGED listVars
        ELSE /\ pool' = [unlinked EXCEPT ![b] = FreeBlink]
             /\ list_head' = IF list_head = b THEN pool[b].next ELSE list_head
             /\ UNCHANGED vmem

\* Mutant: the phase of the first blinker is not copied.
mp1_ioctl_sync_NoStatus(from, to) ==
    LET a == mp1_find_helper(from)
        b == mp1_find_helper(to)
    IN  IF a = NULL \/ b = NULL THEN UNCHANGED listVars
        ELSE /\ pool' = [pool EXCEPT ![b].on_length = pool[a].on_length,
                                     ![b].off_length = pool[a].off_length,
                                     ![b].countdown = pool[a].countdown]
             /\ Poke(to, pool[b].off_char)
             /\ UNCHANGED list_head

(* The character shown afterwards is the off_char whatever the status:     *)
(* cmovl tests the sign of "testb $1", which is never negative.            *)
mp1_ioctl_sync(from, to) ==
    LET a == mp1_find_helper(from)
        b == mp1_find_helper(to)
    IN  IF a = NULL \/ b = NULL THEN UNCHANGED listVars
        ELSE /\ pool' = [pool EXCEPT ![b].on_length = pool[a].on_length,
                                     ![b].off_length = pool[a].off_length,
                                     ![b].countdown = pool[a].countdown,
                                     ![b].status = pool[a].status]
             /\ Poke(to, pool[b].off_char)
             /\ UNCHANGED list_head

-----------------------------------------------------------------------------
(* add_frames.  Both files are read in step, row by row; a file whose line *)
(* has ended waits for the other one.                                      *)

AtEnd(f)  == pos[f] = Len(file[f])
Reads(f)  == c[f] # NL

\* Mutant: a line that has ended does not wait for the other file's.
NextC_NoWait(f) == IF ~AtEnd(f) THEN file[f][pos[f] + 1] ELSE NL

NextC(f)  == IF Reads(f) /\ ~AtEnd(f) THEN file[f][pos[f] + 1] ELSE NL
SeesEof(f) == eof[f] \/ (Reads(f) /\ AtEnd(f))

Advance == pos' = [f \in Fds |-> IF Reads(f) /\ ~AtEnd(f) THEN pos[f] + 1
                                                          ELSE pos[f]]
Shown(f) == IF NextC(f) = NL THEN SPACE ELSE NextC(f)

\* Where the character of a row and column goes, and what is stored of it.
Cell(r, k) == r * NUM_COLS + k + OFFSET
Location(r, k) == Cell(r, k) % LOCATIONS

AddPair ==
    /\ pc = "frames"
    /\ \E f \in Fds : NextC(f) # NL
    /\ c' = [f \in Fds |-> NextC(f)]
    /\ eof' = [f \in Fds |-> SeesEof(f)]
    /\ Advance
    /\ IF \E f \in Fds : Shown(f) # SPACE
       THEN mp1_ioctl_add(Blink(Location(row, col), Shown(0), Shown(1),
                                FRAME_LENGTH, FRAME_LENGTH))
       ELSE UNCHANGED listVars
    /\ col' = col + 1
    /\ UNCHANGED << file, open, row, pc, at, phase, waited >>

\* Mutant: after the end of a file the next row is awaited from it again.
NextRow_Reread(f) == "0"

NextRow(f) == IF SeesEof(f) THEN NL ELSE "0"

(* Both lines have ended.  A file at its end is closed, again in each row  *)
(* until the other one ends too.                                           *)
EndRow ==
    /\ pc = "frames"
    /\ \A f \in Fds : NextC(f) = NL
    /\ c' = [f \in Fds |-> NextRow(f)]
    /\ eof' = [f \in Fds |-> SeesEof(f)]
    /\ open' = {f \in open : ~SeesEof(f)}
    /\ Advance
    /\ row' = row + 1 /\ col' = 0
    /\ pc' = IF \A f \in Fds : SeesEof(f) THEN "wait" ELSE "frames"
    /\ UNCHANGED << file, listVars, at, phase, waited >>

-----------------------------------------------------------------------------
RtcRead ==
    /\ pc = "wait" /\ waited < WAIT
    /\ pc' = "tasklet" /\ at' = list_head
    /\ waited' = waited + 1
    /\ UNCHANGED << file, fileVars, listVars, phase >>

\* Mutant: the status is not inverted.
Toggled_Not(b) == [b EXCEPT !.countdown = IF b.status = 1 THEN b.off_length
                                                          ELSE b.on_length]

Toggled(b) == [b EXCEPT !.status = 1 - @,
                        !.countdown = IF b.status = 1 THEN b.off_length
                                                      ELSE b.on_length]

mp1_rtc_tasklet ==
    LET b == pool[at]
    IN  /\ pc = "tasklet" /\ at # NULL
        /\ IF b.countdown - 1 > 0
           THEN /\ pool' = [pool EXCEPT ![at].countdown = @ - 1]
                /\ UNCHANGED vmem
           ELSE /\ pool' = [pool EXCEPT ![at] = Toggled(b)]
                /\ Poke(b.location, IF b.status = 1 THEN b.off_char
                                                    ELSE b.on_char)
        /\ at' = b.next
        /\ UNCHANGED << file, fileVars, list_head, pc, phase, waited >>

TaskletEnd ==
    /\ pc = "tasklet" /\ at = NULL
    /\ pc' = "wait"
    /\ UNCHANGED << file, fileVars, listVars, at, phase, waited >>

\* What main does after each of its waiting loops.
NextPhase ==
    /\ pc = "wait" /\ waited = WAIT
    /\ \/ phase = 1 /\ mp1_ioctl_add(Blink(EXTRA, "I", "M", ON_LENGTH,
                                           OFF_LENGTH))
       \/ phase = 2 /\ mp1_ioctl_sync(OFFSET, EXTRA)
       \/ phase = 3 /\ mp1_ioctl_remove(EXTRA)
       \/ phase = 4 /\ UNCHANGED listVars
    /\ phase' = phase + 1 /\ waited' = 0
    /\ pc' = IF phase = 4 THEN "done" ELSE "wait"
    /\ UNCHANGED << file, fileVars, at >>

Done == pc = "done" /\ UNCHANGED vars

Next == AddPair \/ EndRow \/ RtcRead \/ mp1_rtc_tasklet \/ TaskletEnd
          \/ NextPhase \/ Done

\* The program runs on, and the RTC goes on interrupting.
Spec == Init /\ [][Next]_vars /\ WF_vars(Next)

-----------------------------------------------------------------------------
(* Row and column of a frame's characters, by definition. *)
RowOf(text, i) == Cardinality({j \in 1..(i - 1) : text[j] = NL})
ColOf(text, i) == i - 1 - Max({0} \cup {j \in 1..(i - 1) : text[j] = NL})

CellOf(f, i) == Cell(RowOf(file[f], i), ColOf(file[f], i))
Marks(f) == {i \in DOMAIN file[f] : file[f][i] \notin {NL, SPACE}}

(* What the files must be like.  No character may be stored at location 0: *)
(* its blinker would be listed and yet be free to mp1_malloc, and the next *)
(* one added would be linked to itself.  If no location wraps at all, no   *)
(* character of a low row appears at the top of the screen either.         *)
NoneAtZero == \A f \in Fds : \A i \in Marks(f) : CellOf(f, i) % LOCATIONS # 0
NoneWraps == \A f \in Fds : \A i \in Marks(f) : CellOf(f, i) < LOCATIONS

Listed == {Nth[n] : n \in 0..SIZE} \ {NULL}

(* The list ends, holds every blinker of the pool that is in use and no    *)
(* other, and none twice, although slots are chosen by their location and  *)
(* freed by clearing them (mp1_malloc, mp1_free, mp1_ioctl_remove); unless *)
(* the files have a character whose location wraps to 0.                   *)
ListMatchesPool == NoneAtZero =>
    /\ Listed = {s \in Slots : pool[s].location # 0}
    /\ \A m, n \in 0..SIZE : m # n /\ Nth[m] = Nth[n] => Nth[m] = NULL

\* The character of a frame at a row and column, by definition.
CharAt(text, r, k) ==
    LET here == {i \in DOMAIN text : /\ text[i] # NL
                                     /\ RowOf(text, i) = r
                                     /\ ColOf(text, i) = k}
    IN  IF here = {} THEN SPACE ELSE text[CHOOSE i \in here : TRUE]

Picture ==
    LET bound == 0..Max({Len(file[f]) : f \in Fds})
    IN  {<< Cell(r, k), CharAt(file[0], r, k), CharAt(file[1], r, k) >>
            : r \in bound, k \in bound}

(* add_frames makes a blinker of every place that is not blank in both     *)
(* frames and fits on the screen, with the right two characters, whatever  *)
(* the lengths of the lines and which file or line ends first, and of no   *)
(* other place; unless the files are so long that a location wraps.        *)
FramesComplete ==
    (NoneWraps /\ pc # "frames" /\ phase = 1) =>
        {<< pool[s].location, pool[s].on_char, pool[s].off_char >>
            : s \in Listed}
          = {p \in Picture : p[1] < SIZE /\ << p[2], p[3] >> # << SPACE, SPACE >>}

(* A frame is not read after its end has been seen and it was closed,      *)
(* however many rows the other one still has.                              *)
ReadsOpenFile ==
    \A f \in Fds : (pc = "frames" /\ Reads(f)) => f \in open

(* The screen shows the character that a blinker's status says, between    *)
(* runs of the tasklet.  Excepted are places two blinkers share, and the   *)
(* blinker that was synced: it is shown off at first, even if it is on;    *)
(* and files with a character at location 0.                               *)
ShowsStatus ==
    (NoneAtZero /\ pc = "wait") => \A s \in Listed :
        \/ \E r \in Listed \ {s} : pool[r].location = pool[s].location
        \/ phase = 3 /\ pool[s].location = EXTRA
        \/ vmem[pool[s].location] = IF pool[s].status = 1
                                    THEN pool[s].on_char ELSE pool[s].off_char

(* Two synced blinkers stay in step at every tick from then on, if the     *)
(* list is sound (no character at location 0).                             *)
Lockstep ==
    LET a == mp1_find_helper(OFFSET)
        b == mp1_find_helper(EXTRA)
    IN  (NoneAtZero /\ phase = 3 /\ pc = "wait" /\ a # NULL /\ b # NULL) =>
            << pool[a].countdown, pool[a].status >>
              = << pool[b].countdown, pool[b].status >>

(* The program ends: add_frames sees the end of both files, and the walk   *)
(* of the list that each tick does is finite; unless a character wraps to  *)
(* location 0, when the tasklet may go round a blinker for ever.           *)
FishEnds == NoneAtZero => <>(pc = "done")
=============================================================================
