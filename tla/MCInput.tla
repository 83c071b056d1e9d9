------------------------------ MODULE MCInput ------------------------------
(* Instances of Input and InputHistory for TLC. *)
EXTENDS InputHistory

MCNBytes == {1, 2, KB_SIZE + 1}
=============================================================================
