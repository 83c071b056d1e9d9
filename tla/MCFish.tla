------------------------------- MODULE MCFish -------------------------------
(* Instance of Fish for TLC: every frame of up to three characters, and    *)
(* those of four without blanks, which reach locations that wrap: to 0 in  *)
(* the second column of the third row, to 2 in the fourth row.             *)
EXTENDS Fish, SequencesExt

MCFrames == BoundedSeq({"a", SPACE, NL}, 3) \cup BoundedSeq({"a", NL}, 4)
=============================================================================
