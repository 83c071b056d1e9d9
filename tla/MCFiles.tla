------------------------------ MODULE MCFiles ------------------------------
(* Instances of Files for TLC: all alignments of a piece with blocks of    *)
(* four bytes, and sizes that overflow a six-bit word.                     *)
EXTENDS Files, TLC

MCNBytes  == {1, 3, 6, 31}

\* The directory itself, files of several lengths, one with a long name and
\* an inode number that does not fit in three bits, and one in an entry that
\* a look-up does not get to.
Dentry(name, type, inode) ==
    [fileName |-> name, fileType |-> type, inode |-> inode]
MCdentries ==
    0 :> Dentry(".", "dir", 0) @@ 1 :> Dentry("empty", "file", 1) @@
    2 :> Dentry("block", "file", 2) @@ 3 :> Dentry("six", "file", 3) @@
    4 :> Dentry("32 characters", "file", 12) @@ 5 :> Dentry("last", "file", 5)
MCinodes ==
    [n \in 0..12 |-> CASE n = 2 -> 4 [] n = 3 -> 6 [] n = 4 -> 9 [] n = 5 -> 7
                       [] n = 12 -> 5 [] OTHER -> 0]

MCNames == {MCdentries[i].fileName : i \in DOMAIN MCdentries}
             \cup {"", "33 characters", "none"}
MCCut == [name \in MCNames |->
            IF name = "33 characters" THEN "32 characters" ELSE name]
=============================================================================
