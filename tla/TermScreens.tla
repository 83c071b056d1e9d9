---------------------------- MODULE TermScreens ----------------------------
(***************************************************************************)
(* What the screen code promises: every terminal has a screen of its own,  *)
(* which only its own programs and its own user change, whichever terminal *)
(* is shown.  Where the text of a screen is kept does not matter here.     *)
(***************************************************************************)
EXTENDS Integers

CONSTANTS Terms, NUM_ROWS, NUM_COLS, Blank

VARIABLES shown, cells, x, y, len

vars == << shown, cells, x, y, len >>

Window == 0..(NUM_ROWS * NUM_COLS - 1)

\* The screen s moved up by k rows.
Up(s, k) == [c \in Window |-> IF c + k * NUM_COLS \in Window
                              THEN s[c + k * NUM_COLS] ELSE Blank]

\* The screen s with cell c, if it is on the screen, set to v.
With(s, c, v) == [w \in Window |-> IF w = c THEN v ELSE s[w]]

Cursor(t) == NUM_COLS * y[t] + x[t]

Init ==
    /\ shown = 0
    /\ cells = [t \in Terms |-> [c \in Window |-> Blank]]
    /\ x = [t \in Terms |-> 0]
    /\ y = [t \in Terms |-> 0]
    /\ len = [t \in Terms |-> 0]

(* Output of a program goes to the cell after the last one, and the screen *)
(* moves up by one row when there is none.                                 *)
PutChar(t) ==
    LET next == Cursor(t) + 1
        rows == IF next \in Window THEN 0 ELSE 1
    IN  /\ cells' = [cells EXCEPT ![t] = Up(With(@, Cursor(t), t), rows)]
        /\ x' = [x EXCEPT ![t] = next % NUM_COLS]
        /\ y' = [y EXCEPT ![t] = next \div NUM_COLS - rows]
        /\ UNCHANGED << shown, len >>

NewLine(t) ==
    LET rows == IF y[t] = NUM_ROWS - 1 THEN 1 ELSE 0
    IN  /\ cells' = [cells EXCEPT ![t] = Up(@, rows)]
        /\ x' = [x EXCEPT ![t] = 0]
        /\ y' = [y EXCEPT ![t] = @ + 1 - rows]
        /\ UNCHANGED << shown, len >>

\* A program that owns its screen sets any cell of it.
Poke(t, c) ==
    /\ cells' = [cells EXCEPT ![t] = With(@, c, t)]
    /\ UNCHANGED << shown, x, y, len >>

\* The user of the terminal shown types: the line grows behind the cursor.
Type ==
    \E rows \in 0..1 :
        /\ cells' = [cells EXCEPT ![shown] =
                        Up(With(@, Cursor(shown) + len[shown], shown), rows)]
        /\ y' = [y EXCEPT ![shown] = @ - rows]
        /\ len' = [len EXCEPT ![shown] = @ + 1]
        /\ UNCHANGED << shown, x >>

Erase ==
    /\ len[shown] > 0
    /\ cells' = [cells EXCEPT ![shown] =
                    With(@, Cursor(shown) + len[shown] - 1, Blank)]
    /\ len' = [len EXCEPT ![shown] = @ - 1]
    /\ UNCHANGED << shown, x, y >>

\* Enter: the cursor goes to the start of a row, below the line if it can.
Enter ==
    \E rows \in 0..3, row \in 0..(NUM_ROWS - 1) :
        /\ cells' = [cells EXCEPT ![shown] = Up(@, rows)]
        /\ x' = [x EXCEPT ![shown] = 0]
        /\ y' = [y EXCEPT ![shown] = row]
        /\ len' = [len EXCEPT ![shown] = 0]
        /\ rows > 0 \/ row > y[shown]
        /\ UNCHANGED shown

Clear ==
    /\ cells' = [cells EXCEPT ![shown] = [c \in Window |-> Blank]]
    /\ x' = [x EXCEPT ![shown] = 0]
    /\ y' = [y EXCEPT ![shown] = 0]
    /\ len' = [len EXCEPT ![shown] = 0]
    /\ UNCHANGED shown

Show(t) == shown' = t /\ UNCHANGED << cells, x, y, len >>

Next ==
    \/ \E t \in Terms : PutChar(t) \/ NewLine(t) \/ Show(t)
    \/ \E t \in Terms, c \in Window : Poke(t, c)
    \/ Type \/ Erase \/ Enter \/ Clear

Spec == Init /\ [][Next]_vars
=============================================================================
