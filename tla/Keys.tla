-------------------------------- MODULE Keys --------------------------------
(***************************************************************************)
(* get_scan_code as far as it depends on the scan code and on key_status   *)
(* alone: the bookkeeping of Shift, Caps Lock, Ctrl and Alt, and the part  *)
(* of scanCodeTable a key is looked up in.  (keyboard.c, keyboard.h)       *)
(*                                                                         *)
(* key_status is an integer with one hexadecimal digit for each modifier:  *)
(* a press adds the modifier's flag, whatever the digit is, and a release  *)
(* masks it out.  A keyboard repeats the press code of a key held down.    *)
(***************************************************************************)
EXTENDS Integers

\* Scan codes: a press, or the press code plus the release bit.
SHIFT_PRESSED == 42
CAPS_PRESSED  == 58
CTRL_PRESSED  == 29
ALT_PRESSED   == 56
L_PRESSED     == 38
ENTER_PRESSED == 28
FN(n)         == 58 + n          \* F1, F2, F3
RELEASED_KEY_MASK == 128
Released(code) == code + RELEASED_KEY_MASK

SHIFT_FLAG == 1
CAPS_FLAG  == 16
CTRL_FLAG  == 256
ALT_FLAG   == 4096
FN_FLAG    == 65536

BASE_KB_SIZE == 90

FlagOf(code) == CASE code = SHIFT_PRESSED -> SHIFT_FLAG
                  [] code = CTRL_PRESSED  -> CTRL_FLAG
                  [] code = ALT_PRESSED   -> ALT_FLAG
Modifiers == {SHIFT_PRESSED, CTRL_PRESSED, ALT_PRESSED}

-----------------------------------------------------------------------------
\* status & flag, for a flag of one bit.
IsSet(status, flag) == (status \div flag) % 2 = 1

\* Mutant: the flag is subtracted.
Release_Subtract(status, flag) == status - flag

(* The masks CLEAR_SHIFT_FLAG, ... keep one bit of each other digit, the   *)
(* lowest.                                                                 *)
Release(status, flag) ==
    LET Kept(f) == IF f # flag /\ IsSet(status, f) THEN f ELSE 0
    IN  Kept(SHIFT_FLAG) + Kept(CAPS_FLAG) + Kept(CTRL_FLAG)
          + Kept(ALT_FLAG) + Kept(FN_FLAG)

\* The value of key_status after a scan code.
NewStatus(status, code) ==
    CASE code \in Modifiers -> status + FlagOf(code)
      [] code - RELEASED_KEY_MASK \in Modifiers ->
            Release(status, FlagOf(code - RELEASED_KEY_MASK))
      [] code = CAPS_PRESSED ->
            IF IsSet(status, CAPS_FLAG) THEN status - CAPS_FLAG
                                        ELSE status + CAPS_FLAG
      [] OTHER -> status

(* The part of scanCodeTable a plain key is looked up in.  The test for    *)
(* the last one, "key_status && CAPS_FLAG && SHIFT_FLAG", is true of every *)
(* status that is not 0.                                                   *)
Table(status) == CASE status = 0          -> "base"
                   [] status = SHIFT_FLAG -> "shift"
                   [] status = CAPS_FLAG  -> "caps"
                   [] OTHER               -> "both"

\* What the handler does for a scan code: a command, or a look-up.
Effect(status, code) ==
    LET clears   == code = L_PRESSED /\ IsSet(status, CTRL_FLAG)
        switches == code \in {FN(1), FN(2), FN(3)} /\ IsSet(status, ALT_FLAG)
        noted    == code \in Modifiers \cup {CAPS_PRESSED}
    IN  CASE clears                -> "clear"
          [] switches              -> "switch"
          [] code = ENTER_PRESSED  -> "enter"
          [] /\ code < BASE_KB_SIZE /\ code # ENTER_PRESSED
             /\ ~(clears \/ switches \/ noted) -> Table(status)
          [] OTHER                 -> "none"
=============================================================================
