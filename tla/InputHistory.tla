---------------------------- MODULE InputHistory ----------------------------
(***************************************************************************)
(* Input with two history variables that remember what the user did: the   *)
(* line being typed on each terminal and the last line entered on it.  The *)
(* properties compare them with what the buffers and the programs get.     *)
(***************************************************************************)
EXTENDS Input

VARIABLES
    typed,    \* terminal -> what its user has typed since the last Enter
    entered   \* terminal -> the last line its user ended with Enter

allVars == << vars, typed, entered >>

HInit ==
    /\ Init
    /\ typed = [t \in Terms |-> << >>]
    /\ entered = [t \in Terms |-> << >>]

\* Record that the line on the screen has become "line".
Shows(line) == typed' = [typed EXCEPT ![active_terminal] = line]
Shown == typed[active_terminal]

HKeyChar(k) ==
    /\ KeyChar(k)
    /\ Shows(IF Len(Shown) = KB_SIZE - 1 THEN Shown
             ELSE Append(Shown, [by |-> active_terminal, key |-> k]))
    /\ UNCHANGED entered

HKeyBackspace ==
    /\ KeyBackspace
    /\ Shows(SubSeq(Shown, 1, Len(Shown) - 1))
    /\ UNCHANGED entered

HKeyEnter ==
    /\ KeyEnter
    /\ Shows(<< >>)
    /\ entered' = [entered EXCEPT ![active_terminal] = Shown]

HKeyCtrlL ==
    /\ KeyCtrlL
    /\ Shows(<< >>)
    /\ UNCHANGED entered

HOther ==
    /\ \/ \E new \in Terms : KeySwitch(new)
       \/ HandlerStep
       \/ \E t \in Terms : ReadStart(t) \/ ReadStep(t)
       \/ Tick
    /\ UNCHANGED << typed, entered >>

HNext ==
    \/ \E k \in Letters : HKeyChar(k)
    \/ HKeyBackspace
    \/ HKeyEnter
    \/ HKeyCtrlL
    \/ HOther

HSpec == HInit /\ [][HNext]_allVars

-----------------------------------------------------------------------------
(* Between keys, each terminal's line buffer (kb_buf for the one on the    *)
(* screen, the terminal table for the others) holds exactly what its user  *)
(* has typed there since the last Enter, through any number of switches.   *)
LineIsTyped ==
    (\A t \in Terms : handler[t] = << >>) =>
        \A t \in Terms : typed[t] =
            String(IF t = active_terminal THEN kb_buf ELSE table_kb_buf[t])

(* What terminal_read should return for a line, given room for n bytes. *)
ReadOf(line, n) ==
    IF Len(line) < n /\ Len(line) < KB_SIZE - 1 THEN line
    ELSE Append(SubSeq(line, 1, n - 1), NL)

(* A read returns the line entered on the reader's own terminal, whole up  *)
(* to the room the program gave, whatever is typed, switched or scheduled  *)
(* in the meantime.                                                        *)
ReadsOwnLine ==
    \A t \in Terms : reader[t].pc = "done" =>
        reader[t].dest = ReadOf(entered[t], reader[t].n)
=============================================================================
