---------------------------- MODULE TaskStacks ----------------------------
(***************************************************************************)
(* What process management promises, without slots tables, linked lists,   *)
(* saved stack pointers or page directories: every terminal has a stack of *)
(* programs, only its top one ever runs, and the terminals take turns.     *)
(* Procs implements this specification.                                    *)
(***************************************************************************)
EXTENDS Integers, Sequences

CONSTANTS Slots, NULL

Terms == 0..2

VARIABLES
    stacks,   \* terminal -> its programs, base shell first
    turn,     \* the terminal whose turn it is
    running   \* the program on the CPU; NULL before the first shell

vars == << stacks, turn, running >>

Top(s)   == s[Len(s)]
InUse    == UNION {{stacks[t][i] : i \in DOMAIN stacks[t]} : t \in Terms}
Free     == Slots \ InUse

Init ==
    /\ stacks = [t \in Terms |-> << >>]
    /\ turn = 0
    /\ running = NULL

\* A program starts another one, or the first shell starts.
Start == \E p \in Free :
    /\ stacks[turn] = << >> <=> running = NULL
    /\ stacks' = [stacks EXCEPT ![turn] = Append(@, p)]
    /\ running' = p
    /\ UNCHANGED turn

\* A program ends and the one that started it goes on.
End ==
    /\ Len(stacks[turn]) > 1
    /\ stacks' = [stacks EXCEPT ![turn] = SubSeq(@, 1, Len(@) - 1)]
    /\ running' = Top(stacks'[turn])
    /\ UNCHANGED turn

\* A base shell ends and is replaced.
Replace == \E p \in Free \cup {running} :
    /\ Len(stacks[turn]) = 1
    /\ stacks' = [stacks EXCEPT ![turn] = << p >>]
    /\ running' = p
    /\ UNCHANGED turn

\* The turn passes on; a terminal gets its base shell in its first turn.
Rotate ==
    /\ running # NULL
    /\ turn' = (turn + 1) % 3
    /\ \/ /\ stacks[turn'] # << >>
          /\ UNCHANGED stacks
       \/ /\ stacks[turn'] = << >>
          /\ \E p \in Free : stacks' = [stacks EXCEPT ![turn'] = << p >>]
    /\ running' = Top(stacks'[turn'])

Next == Start \/ End \/ Replace \/ Rotate

Spec == Init /\ [][Next]_vars /\ WF_vars(Start /\ running = NULL)
             /\ WF_vars(Rotate)
=============================================================================
