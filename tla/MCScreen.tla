------------------------------ MODULE MCScreen ------------------------------
(***************************************************************************)
(* Screen for TLC.  What the page table of vidmap holds depends neither on *)
(* the contents of the screens nor on lines and positions; the run about   *)
(* the table looks at the rest of the state only.                          *)
(***************************************************************************)
EXTENDS Screen

TableView == << active_terminal, vidmap_ptable, mapped, calls, settled,
                [t \in Terms |-> putting[t].pc] >>
=============================================================================
