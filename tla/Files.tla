------------------------------- MODULE Files -------------------------------
(***************************************************************************)
(* Reading the file system: the look-up of a name; read_data, the copy out *)
(* of a file block by block; fread, which reads a file piece by piece      *)
(* through a descriptor; dread, which lists the directory name by name.    *)
(* (filesystem.c, open in syscalls.c)                                      *)
(*                                                                         *)
(* A step of read_data is one block.  Each process keeps its file position *)
(* in its own descriptor.  The directory position, dread_loc, is one       *)
(* global variable that every process shares, read at the start of dread   *)
(* and incremented at its end with interrupts enabled: two steps.          *)
(***************************************************************************)
EXTENDS Integers, Sequences, FiniteSetsExt

CONSTANTS
    Procs,       \* processes that read files, each with one descriptor
    Names,       \* names that programs open; NoName is the empty one
    NoName,
    Cut,         \* name -> its first FILE_NAME_LEN characters
    dirEntries,  \* number of entries of the directory in use
    dentries,    \* index -> fileName, fileType and inode
    inodes,      \* number -> the length of the file
    MAX_D_ENTRIES,  \* entries that a look-up by name goes through
    NBytes,      \* sizes that programs ask for
    BLK_SZ,      \* bytes in a data block (4096 in the build)
    WORD,        \* 2^32, the range of a machine word
    BYTE,        \* 2^8, the range of fd_t.inode_number
    OneLister    \* is the directory listed by one process at a time,
                 \* and always to its end?

ASSUME FilesAssumption ==
    /\ NBytes \subseteq Nat \ {0} /\ BLK_SZ \in Nat \ {0}
    /\ WORD \in Nat \ {0} /\ \A n \in NBytes : n < WORD \div 2
    /\ MAX_D_ENTRIES \in Nat
    /\ dirEntries \in 0..(MAX_D_ENTRIES + 1)  \* what the first block holds
    /\ DOMAIN dentries = 0..(dirEntries - 1)
    \* A well-formed image: what refers to an inode finds one, and what an
    \* inode refers to is a data block, so read_data's checks do not fail.
    /\ BYTE \in Nat \ {0} /\ \A n \in DOMAIN inodes : inodes[n] \in Nat
    /\ \A i \in DOMAIN dentries : /\ dentries[i].inode % BYTE \in DOMAIN inodes
                                  /\ dentries[i].fileName # NoName
    /\ OneLister \in BOOLEAN

VARIABLES
    fd,         \* process -> its descriptor
    dread_loc,  \* index of the next name any dread returns
    call,       \* process -> its last or current read
    names       \* process -> names it got since it opened the directory

vars == << fd, dread_loc, call, names >>

Closed == [kind |-> "closed", length |-> 0, file_position |-> 0]

\* A read: the bytes copied so far as their places in the file, block i to
\* be copied next, the bytes_to_copy that are left.
NoCall == [state |-> "none", from |-> 0, nbytes |-> 0, data |-> << >>,
           i |-> 0, left |-> 0, ret |-> 0]

-----------------------------------------------------------------------------
(* The directory.  Entries behind the used ones have no name.  A look-up   *)
(* gives the entry found, or none.                                         *)

strncmp(s, t) == IF Cut[s] = Cut[t] THEN 0 ELSE 1

read_dentry_by_name(fname) ==
    LET hits == {i \in DOMAIN dentries :
                    /\ fname # NoName /\ i < MAX_D_ENTRIES
                    /\ strncmp(fname, dentries[i].fileName) = 0}
    IN  {dentries[i] : i \in {j \in hits : \A k \in hits : j <= k}}

read_dentry_by_index(i) ==
    IF i > MAX_D_ENTRIES THEN {} ELSE {dentries[i]}

-----------------------------------------------------------------------------
(* read_data(inode, offset, buf, length) on a file of len bytes: how much  *)
(* is to be copied, and how much of it from a block.  Block i of the file  *)
(* holds its bytes from i * BLK_SZ on.  What the last block holds behind   *)
(* the end of the file is padding, and so is the block that the inode's    *)
(* first unused entry, zero in the image, refers to.                       *)

Signed(x) == IF x % WORD < WORD \div 2 THEN x % WORD ELSE (x % WORD) - WORD

\* Mutant: a last, partly filled block is not counted.
blocks_used_Floor(len) == len \div BLK_SZ

blocks_used(len) == len \div BLK_SZ + 1

bytes_to_copy(len, offset, length) ==
    IF Signed(offset + length) > blocks_used(len) * BLK_SZ
    THEN len - offset
    ELSE Min({length, len})

\* Mutant: the rest of the first block is not taken into account.
copy_len_WholeBlock(left, initial_offset) == Min({left, BLK_SZ})

copy_len(left, initial_offset) == Min({left, BLK_SZ, BLK_SZ - initial_offset})

\* The checks of the call; those of inode and block numbers do not fail.
ReadFails(len, offset, length) == offset > len \/ length = 0 \/ len = 0

-----------------------------------------------------------------------------
Init ==
    /\ fd = [p \in Procs |-> Closed]
    /\ dread_loc = 0
    /\ call = [p \in Procs |-> NoCall]
    /\ names = [p \in Procs |-> << >>]

Ready(p, kind) == fd[p].kind = kind /\ call[p].state # "busy"

\* The last read returned 0: there was nothing left.
AtEnd(p) == call[p].state = "returned" /\ call[p].ret = 0

\* fopen looks the name up again; dopen does nothing.
fopen(fname) == read_dentry_by_name(fname) # {}

Reset(p) ==
    /\ call' = [call EXCEPT ![p] = NoCall]
    /\ names' = [names EXCEPT ![p] = << >>]
    /\ UNCHANGED dread_loc

(* open; a name that is not found makes it return -1 without effect.  The  *)
(* descriptor keeps the low byte of the inode number; it stands here as the*)
(* length of the file that fread finds under it.                           *)
OpenFile(p) ==
    /\ Ready(p, "closed")
    /\ \E fname \in Names : \E dentry \in read_dentry_by_name(fname) :
          /\ dentry.fileType = "file"
          /\ fopen(fname)
          /\ fd' = [fd EXCEPT ![p] = [kind |-> "file",
                                     length |-> inodes[dentry.inode % BYTE],
                                     file_position |-> 0]]
    /\ Reset(p)

OpenDir(p) ==
    /\ Ready(p, "closed")
    /\ \E fname \in Names : \E dentry \in read_dentry_by_name(fname) :
          dentry.fileType = "dir"
    /\ OneLister => \A q \in Procs : fd[q].kind # "dir"
    /\ fd' = [fd EXCEPT ![p] = [Closed EXCEPT !.kind = "dir"]]
    /\ Reset(p)

\* close, or the death of the process.
Close(p) ==
    /\ fd[p].kind # "closed"
    /\ OneLister /\ fd[p].kind = "dir" => AtEnd(p)
    /\ fd' = [fd EXCEPT ![p] = Closed]
    /\ Reset(p)

\* fread up to the loop of read_data.
fread(p, n) ==
    LET pos == fd[p].file_position
        len == fd[p].length
        asked == [NoCall EXCEPT !.from = pos, !.nbytes = n]
    IN  /\ Ready(p, "file")
        /\ \/ /\ pos >= len
              /\ call' = [call EXCEPT ![p] = [asked EXCEPT !.state = "returned"]]
           \/ /\ pos < len /\ ReadFails(len, pos, n)
              /\ call' = [call EXCEPT ![p] = [asked EXCEPT !.state = "returned",
                                                           !.ret = -1]]
           \/ /\ pos < len /\ ~ReadFails(len, pos, n)
              /\ call' = [call EXCEPT ![p] =
                            [asked EXCEPT !.state = "busy",
                                          !.i = pos \div BLK_SZ,
                                          !.left = bytes_to_copy(len, pos, n)]]
        /\ UNCHANGED << fd, dread_loc, names >>

\* The loop is in front of block i.
Copying(p) == fd[p].kind = "file" /\ call[p].state = "busy"
LoopEnds(p) == \/ call[p].i = blocks_used(fd[p].length)
               \/ call[p].data # << >> /\ call[p].left <= 0

\* One pass: a block, or the part of it that is wanted.
read_data(p) ==
    LET c == call[p]
        initial_offset == IF c.i = c.from \div BLK_SZ THEN c.from % BLK_SZ ELSE 0
        n == copy_len(c.left, initial_offset)
    IN  /\ Copying(p) /\ ~LoopEnds(p)
        /\ call' = [call EXCEPT
              ![p].data = @ \o [k \in 1..n |-> c.i * BLK_SZ + initial_offset + k - 1],
              ![p].left = @ - n,
              ![p].i = @ + 1]
        /\ UNCHANGED << fd, dread_loc, names >>

\* Mutant: the position does not move when the end of the file is reached.
freadEnd_NoAdvance(p) ==
    LET n == Len(call[p].data)
    IN  /\ Copying(p) /\ LoopEnds(p)
        /\ call' = [call EXCEPT ![p].state = "returned", ![p].ret = n]
        /\ fd' = [fd EXCEPT ![p].file_position =
                     IF @ + n < fd[p].length THEN @ + n ELSE @]
        /\ UNCHANGED << dread_loc, names >>

\* fread from the loop on.
freadEnd(p) ==
    LET n == Len(call[p].data)
    IN  /\ Copying(p) /\ LoopEnds(p)
        /\ call' = [call EXCEPT ![p].state = "returned", ![p].ret = n]
        /\ fd' = [fd EXCEPT ![p].file_position = @ + n]
        /\ UNCHANGED << dread_loc, names >>

\* Mutant: the position is left at the end.
dreadEnd_NoReset(p) ==
    /\ Ready(p, "dir")
    /\ dread_loc + 1 > dirEntries
    /\ call' = [call EXCEPT ![p] = [NoCall EXCEPT !.state = "returned"]]
    /\ UNCHANGED << fd, dread_loc, names >>

\* dread: no name is left, and the position goes back to the start.
dreadEnd(p) ==
    /\ Ready(p, "dir")
    /\ dread_loc + 1 > dirEntries
    /\ dread_loc' = 0
    /\ call' = [call EXCEPT ![p] = [NoCall EXCEPT !.state = "returned"]]
    /\ UNCHANGED << fd, names >>

\* dread: copy the name out (after a 0, for the next listing),
dreadName(p) ==
    /\ Ready(p, "dir")
    /\ dread_loc + 1 <= dirEntries
    /\ \E dentry \in read_dentry_by_index(dread_loc) :
          names' = [names EXCEPT ![p] =
                      Append(IF AtEnd(p) THEN << >> ELSE @, dentry.fileName)]
    /\ call' = [call EXCEPT ![p] = [NoCall EXCEPT !.state = "busy"]]
    /\ UNCHANGED << fd, dread_loc >>

\* then increment the position and return the length of the name.
dreadNext(p) ==
    /\ fd[p].kind = "dir" /\ call[p].state = "busy"
    /\ dread_loc' = dread_loc + 1
    /\ call' = [call EXCEPT ![p] = [NoCall EXCEPT !.state = "returned", !.ret = 1]]
    /\ UNCHANGED << fd, names >>

dread(p) == dreadEnd(p) \/ dreadName(p) \/ dreadNext(p)

Next == \E p \in Procs :
    \/ OpenFile(p)
    \/ OpenDir(p)
    \/ Close(p)
    \/ \E n \in NBytes : fread(p, n)
    \/ read_data(p)
    \/ freadEnd(p)
    \/ dreadEnd(p)
    \/ dreadName(p)
    \/ dreadNext(p)

\* A program that reads in a loop gets its turn again and again.
Fairness == \A p \in Procs :
    /\ WF_vars((\E n \in NBytes : fread(p, n)) \/ read_data(p) \/ freadEnd(p))
    /\ WF_vars(dread(p))

Spec == Init /\ [][Next]_vars /\ Fairness

-----------------------------------------------------------------------------
(* Every variable keeps its type. *)
TypeOK ==
    /\ dread_loc \in 0..dirEntries
    /\ \A p \in Procs :
          /\ fd[p].kind \in {"closed", "file", "dir"}
          /\ fd[p].file_position \in Nat /\ fd[p].length \in Nat
          /\ call[p].state \in {"none", "busy", "returned"}
          /\ call[p].ret \in Nat \cup {-1}
          /\ \A k \in DOMAIN names[p] :
                \E i \in DOMAIN dentries : names[p][k] = dentries[i].fileName

(* The bug log (Checkpoint 2) has fread miss bytes where a read crosses    *)
(* from one block into the next.  Every piece a program reads starts with  *)
(* the next bytes of the file, as many as it asked for or the file has     *)
(* left, none skipped, repeated or out of order, wherever the piece starts *)
(* and ends and also where offset + length overflows.                      *)
ReadsNextBytes ==
    \A p \in Procs :
        LET c == call[p]
            due == Min({c.nbytes, fd[p].length - c.from})
        IN  fd[p].kind = "file" /\ c.state = "returned" /\ due > 0 =>
                /\ c.ret >= due
                /\ \A k \in 1..due : c.data[k] = c.from + k - 1

(* read_data rounds the end of the file up to a block.  A program may get  *)
(* padding behind the end, but no more bytes than it has room for, none    *)
(* from beyond the block that follows the last full one, and only once:    *)
(* the next read is at the end.                                            *)
OverrunIsBounded ==
    \A p \in Procs :
        LET c == call[p]
        IN  fd[p].kind = "file" /\ c.state = "returned" =>
                /\ c.ret <= c.nbytes
                /\ c.from + c.ret <= (fd[p].length \div BLK_SZ + 1) * BLK_SZ
                /\ c.from >= fd[p].length => c.ret = 0

(* dread returns 0 when there are "no more files left to read": whoever    *)
(* gets the 0 has got every name of the directory, in order.               *)
ListingComplete ==
    \A p \in Procs : fd[p].kind = "dir" /\ AtEnd(p) =>
        names[p] = [k \in 1..dirEntries |-> dentries[k - 1].fileName]

(* A program that reads in a loop reaches the 0 that ends its loop. *)
ReadingEnds ==
    \A p \in Procs :
        fd[p].kind # "closed" ~> AtEnd(p) \/ fd[p].kind = "closed"
=============================================================================
