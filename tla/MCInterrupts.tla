--------------------------- MODULE MCInterrupts ---------------------------
(* Instance of Interrupts for TLC. *)
EXTENDS Interrupts

MCCodes == {SHIFT_PRESSED, ALT_PRESSED, CAPS_PRESSED}
=============================================================================
