------------------------------ MODULE FdTable ------------------------------
(***************************************************************************)
(* The descriptors and the argument of every process, from its execute to  *)
(* its halt, over slots that are used again and again: open, close, read,  *)
(* write and getargs, and what execute and halt do to the PCB's fd_arr.    *)
(* (syscalls.c)                                                            *)
(*                                                                         *)
(* Which process runs is taken from TaskStacks, which Procs implements.    *)
(* open runs with interrupts enabled: it finds a descriptor, then fills it *)
(* in, and other terminals may have had turns in between.                  *)
(***************************************************************************)
EXTENDS Integers, FiniteSetsExt

CONSTANTS
    Slots,      \* PCB slots
    NULL,       \* the null pointer; also: no argument, no open in progress
    MAX_FILES,  \* descriptors of a PCB (8 in the build)
    Kinds,      \* what open installs: an operation table (and its inode)
    Words,      \* arguments that programs are started with
    MaxPos,     \* bound of file positions
    MaxOpens    \* bound on the number of opens

VARIABLES
    stacks, turn, running,  \* as in TaskStacks
    fd_arr,     \* slot -> descriptor -> fotp, file_position, in_use_flag
    arg,        \* slot -> the argument kept in fd_arr[0].arg
    opening,    \* slot -> the open it is in the middle of, or NULL
    given,      \* history: slot -> the argument its program was given
    opens       \* number of opens so far

Tasks == INSTANCE TaskStacks

taskVars == << stacks, turn, running >>
vars == << stacks, turn, running, fd_arr, arg, opening, given, opens >>

ASSUME FdAssumption ==
    /\ MAX_FILES \in Nat /\ MAX_FILES > 2
    /\ NULL \notin Slots \cup Kinds \cup Words \cup {"stdin", "stdout"}
    /\ MaxPos \in Nat /\ MaxOpens \in Nat

Fds == 0..(MAX_FILES - 1)

-----------------------------------------------------------------------------
Unused == [fotp |-> NULL, file_position |-> 0, in_use_flag |-> "NOT_IN_USE"]
InUse(fotp) == [fotp |-> fotp, file_position |-> 0, in_use_flag |-> "IN_USE"]

\* The array execute sets up.
FreshFds == [i \in Fds |-> CASE i = 0 -> InUse("stdin")
                             [] i = 1 -> InUse("stdout")
                             [] OTHER -> Unused]

\* Mutant: the buffer is not flushed, and without argument nothing is copied.
CopyArg_NoFlush(old, word) == IF word = NULL THEN old ELSE word

\* The argument buffer once execute has flushed it and copied the word.
CopyArg(old, word) == word

\* execute's part in the PCB of the new process p.
SetUp(p) ==
    /\ fd_arr' = [fd_arr EXCEPT ![p] = FreshFds]
    /\ \E word \in Words \cup {NULL} :
          /\ arg' = [arg EXCEPT ![p] = CopyArg(@, word)]
          /\ given' = [given EXCEPT ![p] = word]

\* Nothing is known of the memory of a PCB before its first use but that it
\* is zeroed.
Init ==
    /\ Tasks!Init
    /\ fd_arr = [p \in Slots |-> [i \in Fds |-> Unused]]
    /\ arg = [p \in Slots |-> NULL]
    /\ opening = [p \in Slots |-> NULL]
    /\ given = [p \in Slots |-> NULL]
    /\ opens = 0

\* The running program is not in the middle of an open.
Calling == running # NULL /\ opening[running] = NULL

execute ==
    /\ running = NULL \/ Calling
    /\ Tasks!Start
    /\ SetUp(running')
    /\ UNCHANGED << opening, opens >>

\* Mutant: the parent's descriptors are closed instead of the child's.
ClosedByHalt_Parent(self, parent) ==
    [fd_arr EXCEPT ![parent] = [i \in Fds |->
        IF @[i].in_use_flag = "IN_USE" THEN Unused ELSE @[i]]]

ClosedByHalt(self, parent) ==
    [fd_arr EXCEPT ![self] = [i \in Fds |->
        IF @[i].in_use_flag = "IN_USE" THEN Unused ELSE @[i]]]

halt ==
    /\ Calling
    /\ Tasks!End
    /\ fd_arr' = ClosedByHalt(running, running')
    /\ UNCHANGED << arg, opening, given, opens >>

\* The base shell's own descriptors are left as they are.
haltBaseShell ==
    /\ Calling
    /\ Tasks!Replace
    /\ SetUp(running')
    /\ UNCHANGED << opening, opens >>

task_switch ==
    /\ Tasks!Rotate
    /\ IF stacks' = stacks THEN UNCHANGED << fd_arr, arg, given >>
                           ELSE SetUp(running')
    /\ UNCHANGED << opening, opens >>

-----------------------------------------------------------------------------
(* open, in its two halves.  A name that does not exist, or no descriptor  *)
(* left: it returns -1 and has changed nothing.                            *)
\* Mutant: one descriptor more than there are is considered.
FreeFds_OneMore(p) == {i \in 0..MAX_FILES :
    i = MAX_FILES \/ fd_arr[p][i].in_use_flag # "IN_USE"}

FreeFds(p) == {i \in Fds : fd_arr[p][i].in_use_flag # "IN_USE"}

\* Mutant: the search stops at the first descriptor behind stdout.
LowestFree_First(p) == 2

LowestFree(p) == Min(FreeFds(p))

openFind ==
    /\ Calling /\ opens < MaxOpens
    /\ FreeFds(running) # {}
    /\ \E kind \in Kinds : opening' = [opening EXCEPT ![running] =
          [fd |-> LowestFree(running), kind |-> kind]]
    /\ opens' = opens + 1
    /\ UNCHANGED << taskVars, fd_arr, arg, given >>

openFill ==
    /\ running # NULL /\ opening[running] # NULL
    /\ LET o == opening[running]
       IN  fd_arr' = [fd_arr EXCEPT ![running][o.fd] = InUse(o.kind)]
    /\ opening' = [opening EXCEPT ![running] = NULL]
    /\ UNCHANGED << taskVars, arg, given, opens >>

\* Mutant: stdin and stdout may be closed.
MayClose_All(p, i) == fd_arr[p][i].in_use_flag = "IN_USE"

MayClose(p, i) == i \notin {0, 1} /\ fd_arr[p][i].in_use_flag = "IN_USE"

\* close keeps the operation table and the position; the tables' own close
\* functions return 0.
close ==
    /\ Calling
    /\ \E i \in Fds :
          /\ MayClose(running, i)
          /\ fd_arr' = [fd_arr EXCEPT ![running][i].in_use_flag = "NOT_IN_USE"]
    /\ UNCHANGED << taskVars, arg, opening, given, opens >>

\* read through a file's descriptor: fread moves the position.  The other
\* reads and all writes change nothing here.
read ==
    /\ Calling
    /\ \E i \in Fds :
          /\ fd_arr[running][i].in_use_flag = "IN_USE"
          /\ fd_arr[running][i].fotp = "file"
          /\ fd_arr[running][i].file_position < MaxPos
          /\ fd_arr' = [fd_arr EXCEPT ![running][i].file_position = @ + 1]
    /\ UNCHANGED << taskVars, arg, opening, given, opens >>

\* getargs changes nothing; NULL: it returns -1, there is no argument.
getargs(p) == arg[p]

Next ==
    \/ execute
    \/ halt
    \/ haltBaseShell
    \/ task_switch
    \/ openFind
    \/ openFill
    \/ close
    \/ read

Spec == Init /\ [][Next]_vars

-----------------------------------------------------------------------------
Live == UNION {{stacks[t][k] : k \in DOMAIN stacks[t]} : t \in Tasks!Terms}

(* Every variable keeps its type. *)
TypeOK ==
    /\ fd_arr \in [Slots -> [Fds ->
          [fotp : Kinds \cup {"stdin", "stdout", NULL},
           file_position : 0..MaxPos,
           in_use_flag : {"IN_USE", "NOT_IN_USE"}]]]
    /\ arg \in [Slots -> Words \cup {NULL}]
    /\ opening \in [Slots -> [fd : Fds, kind : Kinds] \cup {NULL}]

(* read and write call through fotp, write and close without a check for   *)
(* NULL: a descriptor in use has its table, and stdin and stdout are there *)
(* from a process's start to its end, whatever it closes.                  *)
TablesInPlace ==
    \A p \in Live :
        /\ fd_arr[p][0].in_use_flag = "IN_USE" /\ fd_arr[p][0].fotp = "stdin"
        /\ fd_arr[p][1].in_use_flag = "IN_USE" /\ fd_arr[p][1].fotp = "stdout"
        /\ \A i \in Fds : fd_arr[p][i].in_use_flag = "IN_USE"
                             => fd_arr[p][i].fotp # NULL

(* A process that waits, for its child or for its turn, finds its          *)
(* descriptors and positions as it left them, however many programs have   *)
(* run in other slots.                                                     *)
WaitingKeepsDescriptors ==
    [][\A p \in Live : p # running /\ p \in Live' =>
          fd_arr'[p] = fd_arr[p]]_vars

(* The descriptor an open fills in is still the free one it found: no open *)
(* file is overwritten while the process that opened it lives.             *)
OpenFilesKept ==
    [][\A p \in Live, i \in Fds :
          LET old == fd_arr[p][i]
              new == fd_arr'[p][i]
          IN  /\ p \in Live' /\ p = running /\ stacks' = stacks
              /\ old.in_use_flag = "IN_USE" /\ new.in_use_flag = "IN_USE"
              => /\ new.fotp = old.fotp
                 /\ new.file_position >= old.file_position]_vars

(* getargs gives a program its own argument, or none: not that of the      *)
(* program that had the slot before.                                       *)
ArgIsOwn == \A p \in Live : getargs(p) = given[p]
=============================================================================
