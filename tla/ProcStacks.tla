---------------------------- MODULE ProcStacks ----------------------------
(***************************************************************************)
(* The PCB lists of Procs read as stacks of programs, and its refinement   *)
(* of TaskStacks.                                                          *)
(***************************************************************************)
EXTENDS Procs, Sequences, FiniteSets

\* What a loop over child, started at head, finds in each of its passes.
Visited(head, child) ==
    LET visit[n \in 1..MAX_PROCESSES] ==
            IF n = 1 THEN head
            ELSE IF visit[n - 1] = NULL THEN NULL ELSE child[visit[n - 1]]
    IN  visit

\* The PCB list from head as a sequence, base shell first.
ListFrom(head, child) ==
    LET visit == Visited(head, child)
        passes == {n \in 1..MAX_PROCESSES : visit[n] # NULL}
    IN  [i \in 1..Cardinality(passes) |-> visit[i]]

Abstract == INSTANCE TaskStacks WITH
    Slots   <- Pids,
    stacks  <- [t \in Terms |-> ListFrom(pcb_head[t], child_pcb)],
    turn    <- active_task,
    running <- cpu

(* The slot table, the PCB lists and the saved stack pointers of execute,  *)
(* halt and task_switch implement one stack of programs per terminal and   *)
(* fair turns among the terminals.                                         *)
ImplementsTaskStacks == Abstract!Spec
=============================================================================
