---------------------------- MODULE FilesProofs ----------------------------
(***************************************************************************)
(* Proofs about Files, for every directory, every block size and every     *)
(* size a program may ask for.                                             *)
(***************************************************************************)
EXTENDS Files, TLAPS, SequenceTheorems

-----------------------------------------------------------------------------
(* Lemmas about arithmetic. *)

(* The smaller of two numbers, as read_data takes it with "?:". *)
LEMMA MinOfTwo ==
    ASSUME NEW a \in Int, NEW b \in Int
    PROVE  Min({a, b}) = IF a <= b THEN a ELSE b
<1> DEFINE m == IF a <= b THEN a ELSE b
<1>1. m \in {a, b} /\ \A y \in {a, b} : m <= y
  OBVIOUS
<1>2. \A x \in {a, b} : (\A y \in {a, b} : x <= y) => x = m
  OBVIOUS
<1> QED
  BY <1>1, <1>2 DEF Min

(* The smallest of three, the two "?:" that give copy_len. *)
LEMMA MinOfThree ==
    ASSUME NEW a \in Int, NEW b \in Int, NEW c \in Int
    PROVE  LET m == Min({a, b, c})
           IN  m \in {a, b, c} /\ m <= a /\ m <= b /\ m <= c
<1>1. \E x \in {a, b, c} : \A y \in {a, b, c} : x <= y
  <2>1. CASE a <= b /\ a <= c BY <2>1
  <2>2. CASE b <= a /\ b <= c BY <2>2
  <2>3. CASE c <= a /\ c <= b BY <2>3
  <2> QED BY <2>1, <2>2, <2>3
<1> QED
  BY <1>1 DEF Min

(* Dividing by the block size. *)
LEMMA DivMod ==
    ASSUME NEW x \in Nat, NEW b \in Nat \ {0}
    PROVE  /\ x \div b \in Nat /\ x % b \in 0..(b - 1)
           /\ x = (x \div b) * b + (x % b)
  OBVIOUS

(* The further byte is in the same block or in a later one. *)
LEMMA DivLess ==
    ASSUME NEW x \in Nat, NEW y \in Nat, NEW b \in Nat \ {0}, x <= y
    PROVE  x \div b <= y \div b
  OBVIOUS

(* A later block starts further on. *)
LEMMA TimesMonotone ==
    ASSUME NEW x \in Nat, NEW y \in Nat, NEW b \in Nat, x <= y
    PROVE  x * b \in Nat /\ y * b \in Nat /\ x * b <= y * b
<1>1. (y - x) * b >= 0
  BY SMT
<1>2. (y - x) * b = y * b - x * b
  BY SMT
<1>3. x * b \in Nat /\ y * b \in Nat
  BY SMT
<1> QED
  BY <1>1, <1>2, <1>3, SMT

(* Taking a sum for a signed word never makes it larger. *)
LEMMA SignedAtMost ==
    ASSUME NEW x \in Nat
    PROVE  Signed(x) \in Int /\ Signed(x) <= x
<1> DEFINE q == x \div WORD
           r == x % WORD
<1>1. WORD \in Nat \ {0}
  BY FilesAssumption
<1>2. q \in Nat /\ r \in 0..(WORD - 1) /\ x = q * WORD + r
  BY <1>1, DivMod
<1>3. q * WORD \in Nat
  BY <1>1, <1>2, SMT
<1>4. Signed(x) = r \/ Signed(x) = r - WORD
  BY DEF Signed
<1> HIDE DEF q, r
<1> QED
  BY <1>1, <1>2, <1>3, <1>4

-----------------------------------------------------------------------------
(* The inductive invariant. *)

FdType == [kind : {"closed", "file", "dir"}, length : Nat, file_position : Nat]

CallType == [state : {"none", "busy", "returned"}, from : Nat, nbytes : Nat,
             data : Seq(Int), i : Nat, left : Int, ret : Int]

\* The descriptors and the calls have the shape of the C structures.
Types == fd \in [Procs -> FdType] /\ call \in [Procs -> CallType]

\* What read_data sets out to copy for the call of p.
Wanted(p) == bytes_to_copy(fd[p].length, call[p].from, call[p].nbytes)

\* The loop of read_data in front of block i: what is copied are the bytes of
\* the file from the position on, up to the start of block i unless the loop
\* has not started or has nothing left to do.
Reading(p) ==
    LET c == call[p]
        f == fd[p]
        n == Len(c.data)
    IN  /\ c.nbytes \in NBytes
        /\ c.from = f.file_position /\ c.from < f.length
        /\ c.left >= 0 /\ n + c.left = Wanted(p)
        /\ \A k \in 1..n : c.data[k] = c.from + k - 1
        /\ c.i <= blocks_used(f.length)
        /\ \/ n = 0 /\ c.i = c.from \div BLK_SZ
           \/ /\ n > 0 /\ c.i > c.from \div BLK_SZ
              /\ c.from + n <= c.i * BLK_SZ
              /\ c.left > 0 => c.from + n = c.i * BLK_SZ

\* A read has returned.
Returned(p) ==
    LET c == call[p]
        len == fd[p].length
    IN  /\ c.ret <= c.nbytes
        /\ c.from + c.ret <= blocks_used(len) * BLK_SZ
        /\ c.from >= len => c.ret = 0
        /\ c.from < len => /\ c.ret = Len(c.data)
                           /\ c.ret >= Min({c.nbytes, len - c.from})
                           /\ \A k \in 1..c.ret : c.data[k] = c.from + k - 1

\* The position is never behind the block that follows the last full one.
FileInv(p) ==
    fd[p].kind = "file" =>
        /\ fd[p].file_position <= blocks_used(fd[p].length) * BLK_SZ
        /\ call[p].state = "busy" => Reading(p)
        /\ call[p].state = "returned" => Returned(p)

FilesInv == Types /\ \A p \in Procs : FileInv(p)

-----------------------------------------------------------------------------
(* The block that holds the last byte is the last one that is read. *)
LEMMA BlocksUsed ==
    ASSUME NEW len \in Nat
    PROVE  /\ blocks_used(len) \in Nat /\ blocks_used(len) * BLK_SZ \in Nat
           /\ len < blocks_used(len) * BLK_SZ
<1> DEFINE q == len \div BLK_SZ
           r == len % BLK_SZ
<1>1. q \in Nat /\ r \in 0..(BLK_SZ - 1) /\ len = q * BLK_SZ + r /\ BLK_SZ \in Nat
  BY DivMod, FilesAssumption
<1>2. blocks_used(len) = q + 1
  BY DEF blocks_used
<1>3. (q + 1) * BLK_SZ = q * BLK_SZ + BLK_SZ /\ q * BLK_SZ \in Nat
  BY <1>1, SMT
<1> HIDE DEF q, r
<1> QED
  BY <1>1, <1>2, <1>3

(* read_data sets out to copy at least what is due and never more than it  *)
(* is asked for, also where offset + length overflows.                     *)
LEMMA WantedBounds ==
    ASSUME NEW len \in Nat, NEW from \in Nat, from < len, NEW n \in NBytes
    PROVE  LET w == bytes_to_copy(len, from, n)
           IN  /\ w \in Int /\ w > 0 /\ w <= n
               /\ w >= Min({n, len - from})
<1> DEFINE w == bytes_to_copy(len, from, n)
           e == blocks_used(len) * BLK_SZ
<1>1. n \in Nat /\ n > 0
  BY FilesAssumption
<1>2. e \in Nat /\ len < e
  BY BlocksUsed
<1>3. Signed(from + n) \in Int /\ Signed(from + n) <= from + n
  BY <1>1, SignedAtMost
<1>4. Min({n, len}) = (IF n <= len THEN n ELSE len)
  BY <1>1, MinOfTwo
<1>5. Min({n, len - from}) = (IF n <= len - from THEN n ELSE len - from)
  BY <1>1, MinOfTwo
<1>6. w = IF Signed(from + n) > e THEN len - from ELSE IF n <= len THEN n ELSE len
  BY <1>4 DEF bytes_to_copy
<1> HIDE DEF w, e
<1>7. w \in Int /\ w > 0 /\ w <= n /\ w >= Min({n, len - from})
  BY <1>1, <1>2, <1>3, <1>5, <1>6
<1> QED
  BY <1>7 DEF w

(* A closed descriptor and no call are of the types. *)
LEMMA InitialRecords == Closed \in FdType /\ NoCall \in CallType
  BY DEF Closed, NoCall, FdType, CallType

(* Nothing is open at first. *)
LEMMA InitFiles == Init => FilesInv
<1> SUFFICES ASSUME Init PROVE FilesInv
  OBVIOUS
<1>1. Types
  BY InitialRecords DEF Init, Types
<1>2. \A p \in Procs : FileInv(p)
  BY DEF Init, FileInv, Closed
<1> QED
  BY <1>1, <1>2 DEF FilesInv

(* An operation of one process changes its own descriptor and call only,   *)
(* so it is enough that it keeps the invariant of that process.            *)
LEMMA UpdateKeeps ==
    ASSUME FilesInv, NEW p \in Procs, NEW f \in FdType, NEW d \in CallType,
           fd' = [fd EXCEPT ![p] = f], call' = [call EXCEPT ![p] = d],
           FileInv(p)'
    PROVE  FilesInv'
<1>1. Types'
  BY DEF FilesInv, Types
<1>2. ASSUME NEW q \in Procs \ {p} PROVE FileInv(q)'
  <2>1. fd'[q] = fd[q] /\ call'[q] = call[q] /\ FileInv(q)
    BY DEF FilesInv, Types
  <2> QED
    BY <2>1 DEF FileInv, Reading, Returned, Wanted
<1> QED
  BY <1>1, <1>2 DEF FilesInv

(* What the invariant says of one process. *)
LEMMA OneProcess ==
    ASSUME FilesInv, NEW p \in Procs
    PROVE  /\ fd[p] \in FdType /\ fd[p].length \in Nat
           /\ fd[p].file_position \in Nat
           /\ call[p] \in CallType
           /\ call[p].from \in Nat /\ call[p].nbytes \in Nat
           /\ call[p].data \in Seq(Int) /\ Len(call[p].data) \in Nat
           /\ call[p].i \in Nat /\ call[p].left \in Int /\ call[p].ret \in Int
           /\ FileInv(p)
           /\ fd = [fd EXCEPT ![p] = fd[p]]
           /\ call = [call EXCEPT ![p] = call[p]]
<1>1. fd[p] \in FdType /\ call[p] \in CallType /\ FileInv(p)
  BY DEF FilesInv, Types
<1>2. fd = [fd EXCEPT ![p] = fd[p]] /\ call = [call EXCEPT ![p] = call[p]]
  BY DEF FilesInv, Types
<1> QED
  BY <1>1, <1>2 DEF FdType, CallType

(* fread up to the loop: either it returns at the end of the file, or the  *)
(* loop of read_data starts at the position.                               *)
LEMMA FreadKeeps ==
    ASSUME FilesInv, NEW p \in Procs, NEW n \in NBytes, fread(p, n)
    PROVE  FilesInv'
<1> DEFINE pos == fd[p].file_position
           len == fd[p].length
           e == blocks_used(len) * BLK_SZ
           b == pos \div BLK_SZ
           w == bytes_to_copy(len, pos, n)
           asked == [NoCall EXCEPT !.from = pos, !.nbytes = n]
           atEnd == [asked EXCEPT !.state = "returned"]
           start == [asked EXCEPT !.state = "busy", !.i = b, !.left = w]
<1>1. /\ pos \in Nat /\ len \in Nat /\ n \in Nat /\ n > 0
      /\ BLK_SZ \in Nat \ {0} /\ blocks_used(len) \in Nat /\ e \in Nat /\ len < e
  BY FilesAssumption, BlocksUsed, OneProcess
<1>2. fd[p].kind = "file" /\ pos <= e /\ fd' = fd
  BY OneProcess DEF FileInv, fread, Ready
<1>3. CASE pos >= len
  <2>1. call' = [call EXCEPT ![p] = atEnd]
    BY <1>1, <1>3 DEF fread, ReadFails
  <2>2. atEnd \in CallType
    BY <1>1, InitialRecords DEF CallType
  <2>3. call'[p] = atEnd
    BY <2>1 DEF FilesInv, Types
  <2>4. FileInv(p)'
    BY <1>1, <1>2, <1>3, <2>3 DEF FileInv, Returned, NoCall
  <2> QED
    BY <1>2, <2>1, <2>2, <2>4, OneProcess, UpdateKeeps
<1>4. CASE pos < len
  <2>1. call' = [call EXCEPT ![p] = start]
    BY <1>1, <1>4 DEF fread, ReadFails
  <2>2. w \in Int /\ w > 0
    BY <1>1, <1>4, WantedBounds
  <2>3. b \in Nat /\ b <= len \div BLK_SZ /\ len \div BLK_SZ \in Nat
    <3>1. pos <= len
      BY <1>1, <1>4
    <3>2. b <= len \div BLK_SZ
      BY <1>1, <3>1, DivLess
    <3> QED
      BY <1>1, <3>2, DivMod
  <2>4. b <= blocks_used(len)
    BY <2>3 DEF blocks_used
  <2>5. call'[p] = start
    BY <2>1 DEF FilesInv, Types
  <2>6. Wanted(p)' = w
    BY <1>2, <2>5 DEF Wanted, NoCall
  <2> HIDE DEF w, b
  <2>7. start \in CallType
    BY <1>1, <2>2, <2>3, InitialRecords DEF CallType
  <2>8. Reading(p)'
    BY <1>1, <1>2, <1>4, <2>2, <2>3, <2>4, <2>5, <2>6 DEF Reading, b, NoCall
  <2>9. FileInv(p)'
    BY <1>1, <1>2, <2>5, <2>8 DEF FileInv, NoCall
  <2> QED
    BY <1>2, <2>1, <2>7, <2>9, OneProcess, UpdateKeeps
<1> QED
  BY <1>1, <1>3, <1>4

(* Where the loop of read_data goes on: at the byte behind what is copied. *)
LEMMA NextByte ==
    ASSUME NEW from \in Nat, NEW i \in Nat, NEW n \in Nat, NEW left \in Int,
           left > 0,
           \/ n = 0 /\ i = from \div BLK_SZ
           \/ /\ n > 0 /\ i > from \div BLK_SZ
              /\ left > 0 => from + n = i * BLK_SZ
    PROVE  LET off == IF i = from \div BLK_SZ THEN from % BLK_SZ ELSE 0
               m == copy_len(left, off)
           IN  /\ off \in Nat /\ i * BLK_SZ + off = from + n
               /\ m \in Nat /\ m > 0 /\ m <= left
               /\ from + n + m <= (i + 1) * BLK_SZ
               /\ left - m > 0 => from + n + m = (i + 1) * BLK_SZ
               /\ i * BLK_SZ \in Nat
               /\ i >= from \div BLK_SZ /\ from \div BLK_SZ \in Nat
<1> DEFINE b == from \div BLK_SZ
           r == from % BLK_SZ
           off == IF i = b THEN r ELSE 0
           m == copy_len(left, off)
           s == i * BLK_SZ
           t == (i + 1) * BLK_SZ
<1>1. BLK_SZ \in Nat \ {0}
  BY FilesAssumption
<1>2. b \in Nat /\ r \in 0..(BLK_SZ - 1) /\ from = b * BLK_SZ + r
  BY <1>1, DivMod
<1>3. s \in Nat /\ t = s + BLK_SZ
  BY <1>1, SMT
<1>4. off \in 0..(BLK_SZ - 1) /\ s + off = from + n
  <2>1. \/ n = 0 /\ i = b
        \/ n > 0 /\ i > b /\ from + n = s
    OBVIOUS
  <2> HIDE DEF b, r
  <2> QED
    BY <1>1, <1>2, <2>1
<1>5. /\ m \in {left, BLK_SZ, BLK_SZ - off} /\ m <= left /\ m <= BLK_SZ
      /\ m <= BLK_SZ - off
  <2>1. BLK_SZ \in Int /\ BLK_SZ - off \in Int
    BY <1>1, <1>4
  <2> QED
    BY <2>1, MinOfThree DEF copy_len
<1>6. i >= b
  BY <1>2
<1> HIDE DEF b, r, off, m, s, t
<1>7. m \in Nat /\ m > 0
  BY <1>1, <1>4, <1>5
<1>8. from + n + m <= t /\ (left - m > 0 => from + n + m = t)
  BY <1>1, <1>3, <1>4, <1>5, <1>7
<1>9. off \in Nat /\ m <= left
  BY <1>1, <1>4, <1>5
<1> QED
  BY <1>2, <1>3, <1>4, <1>6, <1>7, <1>8, <1>9 DEF b, r, off, m, s, t

(* Bytes that continue a piece of the file make a longer piece of it. *)
LEMMA PieceGrows ==
    ASSUME NEW data \in Seq(Int), NEW from \in Nat, NEW m \in Nat, NEW s \in Int,
           \A k \in 1..Len(data) : data[k] = from + k - 1,
           s = from + Len(data)
    PROVE  LET longer == data \o [k \in 1..m |-> s + k - 1]
           IN  /\ longer \in Seq(Int) /\ Len(longer) = Len(data) + m
               /\ \A k \in 1..Len(longer) : longer[k] = from + k - 1
<1> DEFINE n == Len(data)
           piece == [k \in 1..m |-> s + k - 1]
           longer == data \o piece
<1>1. n \in Nat
  OBVIOUS
<1>2. piece \in Seq(Int) /\ Len(piece) = m /\ \A k \in 1..m : piece[k] = s + k - 1
  OBVIOUS
<1> HIDE DEF piece
<1>3. /\ longer \in Seq(Int) /\ Len(longer) = n + m
      /\ \A k \in 1..(n + m) : longer[k] = IF k <= n THEN data[k] ELSE piece[k - n]
  BY <1>2, ConcatProperties
<1> HIDE DEF longer
<1>4. ASSUME NEW k \in 1..(n + m) PROVE longer[k] = from + k - 1
  <2>1. CASE k <= n
    <3>1. k \in 1..n /\ longer[k] = data[k]
      BY <1>1, <1>3, <2>1
    <3> QED
      BY <3>1
  <2>2. CASE k > n
    <3>1. k - n \in 1..m /\ longer[k] = piece[k - n]
      BY <1>1, <1>3, <2>2
    <3>2. piece[k - n] = s + (k - n) - 1
      BY <1>2, <3>1
    <3> QED
      BY <1>1, <3>1, <3>2
  <2> QED
    BY <1>1, <2>1, <2>2
<1> QED
  BY <1>3, <1>4 DEF piece, longer

(* One pass of the loop of read_data: the block continues what is copied,  *)
(* and it is copied to its end unless nothing is left to copy.             *)
LEMMA ReadDataKeeps ==
    ASSUME FilesInv, NEW p \in Procs, read_data(p)
    PROVE  FilesInv'
<1> DEFINE c == call[p]
           f == fd[p]
           off == IF c.i = c.from \div BLK_SZ THEN c.from % BLK_SZ ELSE 0
           m == copy_len(c.left, off)
           n == Len(c.data)
           piece == [k \in 1..m |-> c.i * BLK_SZ + off + k - 1]
           longer == c.data \o piece
           d == [c EXCEPT !.data = longer, !.left = c.left - m, !.i = c.i + 1]
           u == blocks_used(f.length)
<1>1. /\ c \in CallType /\ f \in FdType /\ FileInv(p)
      /\ c.from \in Nat /\ c.i \in Nat /\ c.left \in Int /\ c.data \in Seq(Int)
      /\ n \in Nat /\ f.length \in Nat /\ c.ret \in Int
  BY OneProcess
<1>2. /\ f.kind = "file" /\ c.state = "busy" /\ fd' = fd /\ c.i # u
      /\ c.data # << >> => ~(c.left <= 0)
  BY DEF read_data, Copying, LoopEnds
<1>3. Reading(p) /\ f.file_position <= u * BLK_SZ
  BY <1>1, <1>2 DEF FileInv
<1>4. /\ c.nbytes \in NBytes /\ c.from = f.file_position /\ c.from < f.length
      /\ n + c.left = Wanted(p) /\ c.i <= u
  BY <1>3 DEF Reading
<1>a. \A k \in 1..n : c.data[k] = c.from + k - 1
  BY <1>3 DEF Reading
<1>b. \/ n = 0 /\ c.i = c.from \div BLK_SZ
      \/ /\ n > 0 /\ c.i > c.from \div BLK_SZ
         /\ c.left > 0 => c.from + n = c.i * BLK_SZ
  BY <1>3 DEF Reading
<1>5. c.left > 0
  <2>1. CASE n = 0
    <3>1. Wanted(p) \in Int /\ Wanted(p) > 0
      BY <1>1, <1>4, WantedBounds DEF Wanted
    <3> QED
      BY <1>1, <1>4, <2>1, <3>1
  <2>2. CASE n # 0
    BY <1>1, <1>2, <2>2
  <2> QED
    BY <2>1, <2>2
<1>6. /\ off \in Nat /\ c.i * BLK_SZ + off = c.from + n
      /\ m \in Nat /\ m > 0 /\ m <= c.left
      /\ c.from + n + m <= (c.i + 1) * BLK_SZ
      /\ c.left - m > 0 => c.from + n + m = (c.i + 1) * BLK_SZ
      /\ c.i * BLK_SZ \in Nat
      /\ c.i >= c.from \div BLK_SZ /\ c.from \div BLK_SZ \in Nat
  <2>1. c.from \in Nat /\ c.i \in Nat /\ n \in Nat /\ c.left \in Int
    BY <1>1
  <2> HIDE DEF c, n
  <2> QED
    BY <1>b, <1>5, <2>1, NextByte
<1>7. call' = [call EXCEPT ![p] = d]
  BY <1>1 DEF read_data, FilesInv, Types
<1> HIDE DEF m, off, u
<1>8. /\ longer \in Seq(Int) /\ Len(longer) = n + m
      /\ \A k \in 1..Len(longer) : longer[k] = c.from + k - 1
  <2> DEFINE s == c.i * BLK_SZ + off
  <2>1. s \in Int /\ s = c.from + n
    BY <1>1, <1>6
  <2> HIDE DEF s
  <2>2. LET l == c.data \o [k \in 1..m |-> s + k - 1]
        IN  /\ l \in Seq(Int) /\ Len(l) = n + m
            /\ \A k \in 1..Len(l) : l[k] = c.from + k - 1
    <3>1. m \in Nat /\ c.from \in Nat /\ c.data \in Seq(Int)
      BY <1>1, <1>6
    <3> HIDE DEF c
    <3> QED
      BY <1>a, <2>1, <3>1, PieceGrows
  <2> QED
    BY <2>2 DEF s
<1> HIDE DEF longer
<1>c. m \in Nat /\ m > 0 /\ m <= c.left /\ c.i \in Nat /\ n \in Nat /\ c.left \in Int
  BY <1>1, <1>6
<1>d. Len(longer) = n + m
  BY <1>8
<1>9. d \in CallType
  <2>1. c.left - m \in Int /\ c.i + 1 \in Nat
    BY <1>c
  <2>2. c \in CallType /\ longer \in Seq(Int)
    BY <1>1, <1>8
  <2> QED
    BY <2>1, <2>2 DEF CallType
<1>10. /\ call'[p] = d /\ d.nbytes = c.nbytes /\ d.from = c.from
       /\ d.state = "busy" /\ d.data = longer /\ d.left = c.left - m
       /\ d.i = c.i + 1
  BY <1>1, <1>2, <1>7 DEF FilesInv, Types, CallType
<1> HIDE DEF d, c, n, f
<1>11. Reading(p)'
  <2>1. Wanted(p)' = Wanted(p) /\ fd'[p] = f
    BY <1>2, <1>10 DEF Wanted, c, f
  <2>2. d.left >= 0 /\ Len(d.data) + d.left = Wanted(p)
    <3>1. n + c.left = Wanted(p)
      BY <1>4
    <3> QED
      BY <1>10, <1>c, <1>d, <3>1
  <2>3. d.i <= u /\ d.i > c.from \div BLK_SZ
    <3>1. u \in Nat
      BY <1>1, BlocksUsed DEF u
    <3>2. c.i # u /\ c.i <= u /\ c.i >= c.from \div BLK_SZ
          /\ c.from \div BLK_SZ \in Nat
      BY <1>2, <1>4, <1>6
    <3> QED
      BY <1>10, <1>c, <3>1, <3>2
  <2>4. /\ Len(d.data) > 0 /\ d.from + Len(d.data) <= d.i * BLK_SZ
        /\ d.left > 0 => d.from + Len(d.data) = d.i * BLK_SZ
    <3>1. /\ c.from + n + m <= (c.i + 1) * BLK_SZ
          /\ c.left - m > 0 => c.from + n + m = (c.i + 1) * BLK_SZ
          /\ c.from \in Nat
      BY <1>1, <1>6
    <3>2. d.from + Len(d.data) = c.from + n + m
      BY <1>10, <1>c, <1>d, <3>1
    <3> QED
      BY <1>10, <1>c, <1>d, <3>1, <3>2
  <2>5. \A k \in 1..Len(d.data) : d.data[k] = d.from + k - 1
    BY <1>8, <1>10
  <2> QED
    BY <1>4, <1>10, <2>1, <2>2, <2>3, <2>4, <2>5 DEF Reading, u, f
<1>12. FileInv(p)'
  BY <1>2, <1>3, <1>10, <1>11 DEF FileInv, u, f
<1> QED
  BY <1>1, <1>2, <1>7, <1>9, <1>12, OneProcess, UpdateKeeps DEF f

(* The loop is left with all that is due, and the position moves on by     *)
(* what was copied.                                                        *)
LEMMA FreadEndKeeps ==
    ASSUME FilesInv, NEW p \in Procs, freadEnd(p)
    PROVE  FilesInv'
<1> DEFINE c == call[p]
           f == fd[p]
           n == Len(c.data)
           u == blocks_used(f.length)
           e == u * BLK_SZ
           w == Wanted(p)
           due == Min({c.nbytes, f.length - c.from})
           d == [c EXCEPT !.state = "returned", !.ret = n]
           g == [f EXCEPT !.file_position = f.file_position + n]
<1>1. /\ c \in CallType /\ f \in FdType /\ FileInv(p)
      /\ c.from \in Nat /\ c.i \in Nat /\ c.left \in Int /\ c.data \in Seq(Int)
      /\ n \in Nat /\ f.length \in Nat /\ f.file_position \in Nat
      /\ c.nbytes \in Nat
  BY OneProcess
<1>2. /\ f.kind = "file" /\ c.state = "busy"
      /\ \/ c.i = u
         \/ c.data # << >> /\ c.left <= 0
  BY DEF freadEnd, Copying, LoopEnds
<1>3. /\ c.nbytes \in NBytes /\ c.from = f.file_position /\ c.from < f.length
      /\ c.left >= 0 /\ n + c.left = w /\ c.i <= u
      /\ \A k \in 1..n : c.data[k] = c.from + k - 1
      /\ \/ n = 0 /\ c.i = c.from \div BLK_SZ
         \/ /\ n > 0 /\ c.i > c.from \div BLK_SZ
            /\ c.from + n <= c.i * BLK_SZ
            /\ c.left > 0 => c.from + n = c.i * BLK_SZ
  BY <1>1, <1>2 DEF FileInv, Reading
<1>4. w \in Int /\ w > 0 /\ w <= c.nbytes /\ w >= due
  BY <1>1, <1>3, WantedBounds DEF Wanted
<1>5. due \in Int /\ due <= f.length - c.from
  <2>1. due = IF c.nbytes <= f.length - c.from THEN c.nbytes ELSE f.length - c.from
    <3>1. c.nbytes \in Int /\ f.length - c.from \in Int
      BY <1>1
    <3> QED
      BY <3>1, MinOfTwo, Zenon
  <2> QED
    BY <1>1, <2>1
<1>6. BLK_SZ \in Nat /\ u \in Nat /\ e \in Nat /\ f.length < e
  BY <1>1, BlocksUsed, FilesAssumption
<1>7. c.i = u => n > 0
  <2>1. BLK_SZ \in Nat \ {0} /\ c.from <= f.length
    BY <1>1, <1>3, FilesAssumption
  <2>2. c.from \div BLK_SZ <= f.length \div BLK_SZ
    BY <1>1, <2>1, DivLess
  <2>3. c.from \div BLK_SZ \in Nat /\ f.length \div BLK_SZ \in Nat
    BY <1>1, <2>1, DivMod
  <2>4. u = f.length \div BLK_SZ + 1
    BY DEF blocks_used
  <2> QED
    BY <1>1, <1>3, <2>2, <2>3, <2>4
<1>8. c.i * BLK_SZ <= e /\ c.i * BLK_SZ \in Nat
  BY <1>1, <1>3, <1>6, TimesMonotone
<1>9. n <= c.nbytes /\ n >= due /\ c.from + n <= e
  <2>1. /\ c.from \in Nat /\ c.left \in Int /\ n \in Nat /\ c.nbytes \in Nat
        /\ f.length \in Nat /\ c.left >= 0 /\ n + c.left = w
    BY <1>1, <1>3
  <2>2. CASE c.left = 0
    <3>1. n = w /\ n > 0
      BY <1>4, <2>1, <2>2
    <3>2. c.from + n <= c.i * BLK_SZ
      BY <1>3, <2>1, <3>1
    <3> DEFINE t == c.i * BLK_SZ
    <3> HIDE DEF c, n, f, due, w, e, t
    <3>3. c.from + n <= e
      BY <1>6, <1>8, <2>1, <3>2 DEF t
    <3> QED
      BY <1>4, <1>5, <2>1, <3>1, <3>3
  <2>3. CASE c.left > 0
    <3>1. c.i = u /\ n > 0 /\ c.from + n = e
      BY <1>2, <1>3, <1>7, <2>1, <2>3
    <3> HIDE DEF c, n, f, due, w, e
    <3> QED
      BY <1>4, <1>5, <1>6, <2>1, <2>3, <3>1
  <2> QED
    BY <2>1, <2>2, <2>3
<1>10. call' = [call EXCEPT ![p] = d] /\ fd' = [fd EXCEPT ![p] = g]
  BY <1>1 DEF freadEnd, FilesInv, Types
<1>11. d \in CallType /\ g \in FdType
  <2>1. n \in Int /\ f.file_position + n \in Nat
    BY <1>1
  <2> HIDE DEF n
  <2> QED
    BY <1>1, <2>1 DEF CallType, FdType
<1>12. /\ call'[p] = d /\ d.state = "returned" /\ d.ret = n /\ d.from = c.from
       /\ d.nbytes = c.nbytes /\ d.data = c.data
       /\ fd'[p] = g /\ g.kind = "file" /\ g.length = f.length
       /\ g.file_position = c.from + n
  BY <1>1, <1>2, <1>3, <1>10 DEF FilesInv, Types, CallType, FdType
<1>13. Returned(p)'
  <2>1. c.from < f.length /\ c.from \in Nat /\ f.length \in Nat
    BY <1>1, <1>3
  <2>2. \A k \in 1..n : c.data[k] = c.from + k - 1
    BY <1>3
  <2> HIDE DEF d, g, c, f, u
  <2> QED
    BY <1>9, <1>12, <2>1, <2>2 DEF Returned, u
<1> HIDE DEF d, g
<1>14. FileInv(p)'
  BY <1>9, <1>12, <1>13 DEF FileInv
<1> QED
  BY <1>10, <1>11, <1>14, UpdateKeeps

(* What read_dentry_by_name finds is an entry of the directory. *)
LEMMA FoundIsEntry ==
    ASSUME NEW fname, NEW dentry \in read_dentry_by_name(fname)
    PROVE  /\ \E i \in DOMAIN dentries : dentry = dentries[i]
           /\ inodes[dentry.inode % BYTE] \in Nat
  BY FilesAssumption DEF read_dentry_by_name

(* open starts at the first byte. *)
LEMMA OpenFileKeeps ==
    ASSUME FilesInv, NEW p \in Procs, OpenFile(p)
    PROVE  FilesInv'
<1>1. PICK len \in Nat : fd' = [fd EXCEPT ![p] = [kind |-> "file", length |-> len,
                                                  file_position |-> 0]]
  BY FoundIsEntry DEF OpenFile
<1> DEFINE g == [kind |-> "file", length |-> len, file_position |-> 0]
<1>2. g \in FdType /\ NoCall \in CallType
  BY <1>1, InitialRecords DEF FdType
<1>3. call' = [call EXCEPT ![p] = NoCall]
  BY DEF OpenFile, Reset
<1>4. fd'[p] = g /\ call'[p] = NoCall
  BY <1>1, <1>3 DEF FilesInv, Types
<1>5. FileInv(p)'
  <2>1. blocks_used(len) * BLK_SZ \in Nat
    BY <1>1, BlocksUsed
  <2> QED
    BY <1>4, <2>1 DEF FileInv, NoCall
<1> QED
  BY <1>1, <1>2, <1>3, <1>5, UpdateKeeps

(* close, and the operations on the directory, leave no file open. *)
LEMMA OtherStepsKeep ==
    ASSUME FilesInv, NEW p \in Procs,
           OpenDir(p) \/ Close(p) \/ dreadEnd(p) \/ dreadName(p) \/ dreadNext(p)
    PROVE  FilesInv'
<1>1. NoCall \in CallType /\ Closed \in FdType
  BY InitialRecords
<1>2. \E g \in FdType, d \in CallType :
         /\ g.kind # "file"
         /\ fd' = [fd EXCEPT ![p] = g] /\ call' = [call EXCEPT ![p] = d]
  <2>1. CASE OpenDir(p)
    <3>1. [Closed EXCEPT !.kind = "dir"] \in FdType
      BY <1>1 DEF FdType
    <3> QED
      BY <1>1, <2>1, <3>1 DEF OpenDir, Reset, Closed
  <2>2. CASE Close(p)
    BY <1>1, <2>2 DEF Close, Reset, Closed
  <2>3. CASE dreadEnd(p) \/ dreadName(p) \/ dreadNext(p)
    <3>1. /\ [NoCall EXCEPT !.state = "busy"] \in CallType
          /\ [NoCall EXCEPT !.state = "returned"] \in CallType
          /\ [NoCall EXCEPT !.state = "returned", !.ret = 1] \in CallType
      <4>1. [NoCall EXCEPT !.state = "busy"] \in CallType
        BY <1>1 DEF CallType
      <4>2. [NoCall EXCEPT !.state = "returned"] \in CallType
        BY <1>1 DEF CallType
      <4>3. \A v \in Int : [NoCall EXCEPT !.state = "returned", !.ret = v] \in CallType
        BY <1>1 DEF CallType
      <4>4. 1 \in Int
        BY SMT
      <4> QED
        BY <4>1, <4>2, <4>3, <4>4, Zenon
    <3>2. fd[p] \in FdType /\ fd[p].kind # "file" /\ fd' = [fd EXCEPT ![p] = fd[p]]
      BY <2>3, OneProcess DEF dreadEnd, dreadName, dreadNext, Ready
    <3>3. \E d \in CallType : call' = [call EXCEPT ![p] = d]
      BY <2>3, <3>1 DEF dreadEnd, dreadName, dreadNext
    <3> QED
      BY <3>2, <3>3
  <2> QED
    BY <2>1, <2>2, <2>3
<1>3. PICK g \in FdType, d \in CallType :
         /\ g.kind # "file"
         /\ fd' = [fd EXCEPT ![p] = g] /\ call' = [call EXCEPT ![p] = d]
  BY <1>2
<1>4. fd'[p] = g
  BY <1>3 DEF FilesInv, Types
<1>5. FileInv(p)'
  BY <1>3, <1>4 DEF FileInv
<1> QED
  BY <1>3, <1>5, UpdateKeeps

(* Every operation of every process keeps the invariant. *)
LEMMA NextFiles == FilesInv /\ [Next]_vars => FilesInv'
<1> SUFFICES ASSUME FilesInv, [Next]_vars PROVE FilesInv'
  OBVIOUS
<1>1. CASE UNCHANGED vars
  BY <1>1 DEF vars, FilesInv, Types, FileInv, Reading, Returned, Wanted
<1>2. ASSUME NEW p \in Procs, NEW n \in NBytes, fread(p, n) PROVE FilesInv'
  BY <1>2, FreadKeeps
<1>3. ASSUME NEW p \in Procs, read_data(p) PROVE FilesInv'
  BY <1>3, ReadDataKeeps
<1>4. ASSUME NEW p \in Procs, freadEnd(p) PROVE FilesInv'
  BY <1>4, FreadEndKeeps
<1>5. ASSUME NEW p \in Procs, OpenFile(p) PROVE FilesInv'
  BY <1>5, OpenFileKeeps
<1>6. ASSUME NEW p \in Procs,
             OpenDir(p) \/ Close(p) \/ dreadEnd(p) \/ dreadName(p) \/ dreadNext(p)
      PROVE  FilesInv'
  BY <1>6, OtherStepsKeep
<1> QED
  BY <1>1, <1>2, <1>3, <1>4, <1>5, <1>6 DEF Next

(* The invariant says what a read that has returned is worth. *)
LEMMA FilesInvSuffices == FilesInv => ReadsNextBytes /\ OverrunIsBounded
<1> SUFFICES ASSUME FilesInv PROVE ReadsNextBytes /\ OverrunIsBounded
  OBVIOUS
<1>1. ReadsNextBytes
  <2> SUFFICES ASSUME NEW p \in Procs, fd[p].kind = "file",
                      call[p].state = "returned",
                      Min({call[p].nbytes, fd[p].length - call[p].from}) > 0
               PROVE  LET c == call[p]
                          due == Min({c.nbytes, fd[p].length - c.from})
                      IN  /\ c.ret >= due
                          /\ \A k \in 1..due : c.data[k] = c.from + k - 1
    BY DEF ReadsNextBytes
  <2> DEFINE c == call[p]
             len == fd[p].length
             due == Min({c.nbytes, len - c.from})
  <2>1. /\ c.from \in Nat /\ c.nbytes \in Nat /\ len \in Nat /\ c.ret \in Int
        /\ Returned(p)
    BY OneProcess DEF FileInv
  <2>2. due = IF c.nbytes <= len - c.from THEN c.nbytes ELSE len - c.from
    BY <2>1, MinOfTwo
  <2>3. c.from < len
    BY <2>1, <2>2
  <2>4. c.ret >= due /\ \A k \in 1..c.ret : c.data[k] = c.from + k - 1
    BY <2>1, <2>3 DEF Returned
  <2>5. due \in Int
    BY <2>1, <2>2
  <2> HIDE DEF due
  <2>6. \A k \in 1..due : k \in 1..c.ret
    BY <2>1, <2>4, <2>5
  <2> QED
    BY <2>4, <2>6 DEF due
<1>2. OverrunIsBounded
  BY DEF FilesInv, FileInv, Returned, OverrunIsBounded, blocks_used
<1> QED
  BY <1>1, <1>2

(* For every directory, every block size and every size asked for, no      *)
(* matter how many processes read at once and how their reads are          *)
(* interleaved block by block: each piece fread returns is the next bytes  *)
(* of the file, where read_data crosses into a block and where             *)
(* offset + length overflows too.                                          *)
THEOREM FilesReads == Spec => []ReadsNextBytes
<1>1. FilesInv => ReadsNextBytes
  BY FilesInvSuffices
<1> QED
  BY <1>1, InitFiles, NextFiles, PTL DEF Spec

(* Under the same conditions, what read_data adds behind the end of a file *)
(* stays in the block behind the last full one and within the program's    *)
(* buffer, and the read after it is at the end.                            *)
THEOREM FilesOverrun == Spec => []OverrunIsBounded
<1>1. FilesInv => OverrunIsBounded
  BY FilesInvSuffices
<1> QED
  BY <1>1, InitFiles, NextFiles, PTL DEF Spec

-----------------------------------------------------------------------------
(* Listings, one after the other. *)

\* The first k names of the directory.
Listing(k) == [j \in 1..k |-> dentries[j - 1].fileName]

\* How far the process p, which has the directory open, has got.
Listed(p) ==
    /\ call[p].state = "none" => dread_loc = 0 /\ names[p] = << >>
    /\ call[p].state = "busy" => dread_loc < dirEntries
                                 /\ names[p] = Listing(dread_loc + 1)
    /\ call[p].state = "returned" =>
          IF call[p].ret = 0 THEN dread_loc = 0 /\ names[p] = Listing(dirEntries)
          ELSE names[p] = Listing(dread_loc)

\* The shared position belongs to the only process that lists, and is back
\* at the start when there is none.
ListInv ==
    /\ DOMAIN names = Procs
    /\ dread_loc \in 0..dirEntries
    /\ \A p, q \in Procs : fd[p].kind = "dir" /\ fd[q].kind = "dir" => p = q
    /\ (\A p \in Procs : fd[p].kind # "dir") => dread_loc = 0
    /\ \A p \in Procs : fd[p].kind = "dir" => Listed(p)

(* The next name makes a listing longer by one. *)
LEMMA ListingGrows ==
    ASSUME NEW k \in 0..(dirEntries - 1)
    PROVE  Append(Listing(k), dentries[k].fileName) = Listing(k + 1)
<1> DEFINE S == {dentries[j].fileName : j \in 0..(dirEntries - 1)}
           l == Listing(k)
           x == dentries[k].fileName
           m == Listing(k + 1)
<1>1. dirEntries \in Nat
  BY FilesAssumption
<1>2. l \in Seq(S) /\ Len(l) = k /\ \A j \in 1..k : l[j] = dentries[j - 1].fileName
  BY <1>1 DEF Listing
<1>3. m \in Seq(S) /\ Len(m) = k + 1
      /\ \A j \in 1..(k + 1) : m[j] = dentries[j - 1].fileName
  BY <1>1 DEF Listing
<1>4. x \in S
  OBVIOUS
<1> HIDE DEF l, m
<1>5. /\ Append(l, x) \in Seq(S) /\ Len(Append(l, x)) = k + 1
      /\ \A j \in 1..k : Append(l, x)[j] = l[j]
      /\ Append(l, x)[k + 1] = x
  BY <1>1, <1>2, <1>4, AppendProperties
<1>6. \A j \in 1..(k + 1) : Append(l, x)[j] = m[j]
  <2> SUFFICES ASSUME NEW j \in 1..(k + 1) PROVE Append(l, x)[j] = m[j]
    OBVIOUS
  <2>1. CASE j \in 1..k
    BY <1>2, <1>3, <1>5, <2>1
  <2>2. CASE j = k + 1
    BY <1>1, <1>3, <1>5, <2>2
  <2>3. j \in 1..k \/ j = k + 1
    BY <1>1
  <2> QED
    BY <2>1, <2>2, <2>3
<1> QED
  BY <1>3, <1>5, <1>6, SeqEqual DEF l, m

(* Nobody lists at first. *)
LEMMA InitList == Init => ListInv
  BY FilesAssumption DEF Init, ListInv, Closed

(* With one listing at a time, every operation keeps the invariant. *)
LEMMA NextList ==
    ASSUME OneLister, FilesInv, ListInv, [Next]_vars
    PROVE  ListInv'
<1> USE DEF FilesInv, Types
<1>0. dirEntries \in Nat /\ dirEntries <= MAX_D_ENTRIES + 1 /\ MAX_D_ENTRIES \in Nat
  BY FilesAssumption
<1>1. CASE UNCHANGED vars
  BY <1>1 DEF vars, ListInv, Listed
<1>2. ASSUME NEW p \in Procs, fd[p].kind # "dir", fd'[p].kind # "dir",
             \A q \in Procs \ {p} : /\ fd'[q] = fd[q] /\ call'[q] = call[q]
                                    /\ names'[q] = names[q],
             dread_loc' = dread_loc, DOMAIN names' = Procs
      PROVE  ListInv'
  <2>1. \A q \in Procs : fd'[q].kind = "dir" =>
            /\ q # p /\ fd[q].kind = "dir" /\ fd'[q] = fd[q]
            /\ call'[q] = call[q] /\ names'[q] = names[q]
    BY <1>2
  <2>2. \A q \in Procs : fd[q].kind = "dir" => fd'[q].kind = "dir"
    BY <1>2
  <2>3. \A q \in Procs : fd'[q].kind = "dir" => Listed(q)'
    BY <1>2, <2>1 DEF ListInv, Listed
  <2> QED
    BY <1>2, <2>1, <2>2, <2>3 DEF ListInv
<1>3. ASSUME NEW p \in Procs,
             \/ OpenFile(p) \/ read_data(p) \/ freadEnd(p)
             \/ \E n \in NBytes : fread(p, n)
      PROVE  ListInv'
  <2>1. /\ \A q \in Procs \ {p} : names'[q] = names[q]
        /\ dread_loc' = dread_loc /\ DOMAIN names' = Procs
    BY <1>3 DEF OpenFile, Reset, read_data, freadEnd, fread, ListInv
  <2>2. \A q \in Procs \ {p} : fd'[q] = fd[q]
    BY <1>3 DEF OpenFile, read_data, freadEnd, fread
  <2>3. fd[p].kind # "dir" /\ fd'[p].kind # "dir"
    <3>1. CASE OpenFile(p)
      BY <3>1 DEF OpenFile, Ready
    <3>2. CASE freadEnd(p)
      BY <3>2 DEF freadEnd, Copying, FdType
    <3>3. CASE read_data(p) \/ \E n \in NBytes : fread(p, n)
      BY <3>3 DEF read_data, Copying, fread, Ready
    <3> QED
      BY <1>3, <3>1, <3>2, <3>3
  <2>4. \A q \in Procs \ {p} : call'[q] = call[q]
    BY <1>3 DEF OpenFile, Reset, read_data, freadEnd, fread
  <2> QED
    BY <1>2, <2>1, <2>2, <2>3, <2>4
<1>4. ASSUME NEW p \in Procs, Close(p), fd[p].kind # "dir" PROVE ListInv'
  <2>1. /\ \A q \in Procs \ {p} : /\ fd'[q] = fd[q] /\ call'[q] = call[q]
                                  /\ names'[q] = names[q]
        /\ dread_loc' = dread_loc /\ DOMAIN names' = Procs
    BY <1>4 DEF Close, Reset, ListInv
  <2>2. fd'[p].kind # "dir"
    BY <1>4 DEF Close, Closed
  <2> QED
    BY <1>2, <1>4, <2>1, <2>2
<1>5. ASSUME NEW p \in Procs, Close(p), fd[p].kind = "dir" PROVE ListInv'
  <2>1. AtEnd(p) /\ Listed(p)
    BY <1>5 DEF Close, ListInv
  <2>2. dread_loc = 0 /\ dread_loc' = 0
    BY <1>5, <2>1 DEF AtEnd, Listed, Close, Reset
  <2>3. \A q \in Procs : fd'[q].kind # "dir"
    BY <1>5 DEF Close, Closed, ListInv
  <2> QED
    BY <1>0, <1>5, <2>2, <2>3 DEF Close, Reset, ListInv
<1>6. ASSUME NEW p \in Procs, OpenDir(p) PROVE ListInv'
  <2>1. \A q \in Procs : fd[q].kind # "dir"
    BY <1>6 DEF OpenDir
  <2>2. \A q \in Procs : fd'[q].kind = "dir" => q = p
    BY <1>6, <2>1 DEF OpenDir
  <2>3. dread_loc' = 0 /\ call'[p] = NoCall /\ names'[p] = << >> /\ DOMAIN names' = Procs
    BY <1>6, <2>1 DEF OpenDir, Reset, ListInv
  <2>4. fd'[p].kind = "dir"
    BY <1>6 DEF OpenDir, Closed
  <2>5. Listed(p)'
    BY <2>3 DEF Listed, NoCall
  <2> QED
    BY <1>0, <2>2, <2>3, <2>4, <2>5 DEF ListInv
<1>7. ASSUME NEW p \in Procs, fd[p].kind = "dir", fd' = fd, DOMAIN names' = Procs,
             dread_loc' \in 0..dirEntries, Listed(p)'
      PROVE  ListInv'
  BY <1>7 DEF ListInv
<1>8. ASSUME NEW p \in Procs, dreadEnd(p) PROVE ListInv'
  <2>1. /\ fd[p].kind = "dir" /\ fd' = fd /\ call[p].state # "busy"
        /\ dread_loc + 1 > dirEntries /\ dread_loc' = 0 /\ names' = names
        /\ call'[p].state = "returned" /\ call'[p].ret = 0
    BY <1>8 DEF dreadEnd, Ready, NoCall
  <2>2. Listed(p) /\ dread_loc = dirEntries
    BY <1>0, <2>1 DEF ListInv
  <2>3. names[p] = Listing(dirEntries)
    <3>1. call[p].state \in {"none", "returned"}
      BY <2>1 DEF CallType
    <3>2. dirEntries = 0 => << >> = Listing(dirEntries)
      BY DEF Listing
    <3> QED
      BY <2>2, <3>1, <3>2 DEF Listed
  <2>4. Listed(p)'
    BY <2>1, <2>3 DEF Listed
  <2> QED
    BY <1>0, <1>7, <2>1, <2>4 DEF ListInv
<1>9. ASSUME NEW p \in Procs, dreadName(p) PROVE ListInv'
  <2>1. /\ fd[p].kind = "dir" /\ fd' = fd /\ call[p].state # "busy"
        /\ dread_loc + 1 <= dirEntries /\ dread_loc' = dread_loc
        /\ call'[p].state = "busy"
    BY <1>9 DEF dreadName, Ready, NoCall
  <2>2. Listed(p) /\ dread_loc \in 0..(dirEntries - 1)
    BY <1>0, <2>1 DEF ListInv
  <2>3. read_dentry_by_index(dread_loc) = {dentries[dread_loc]}
    BY <1>0, <2>2 DEF read_dentry_by_index
  <2> DEFINE old == IF AtEnd(p) THEN << >> ELSE names[p]
  <2>4. /\ names'[p] = Append(old, dentries[dread_loc].fileName)
        /\ DOMAIN names' = Procs
    BY <1>9, <2>3 DEF dreadName, ListInv
  <2>5. old = Listing(dread_loc)
    <3>1. call[p].state \in {"none", "returned"}
      BY <2>1 DEF CallType
    <3>2. dread_loc = 0 => << >> = Listing(dread_loc)
      BY DEF Listing
    <3> QED
      BY <2>2, <3>1, <3>2 DEF Listed, AtEnd
  <2>6. names'[p] = Listing(dread_loc + 1)
    BY <2>2, <2>4, <2>5, ListingGrows
  <2>7. Listed(p)'
    BY <1>0, <2>1, <2>2, <2>6 DEF Listed
  <2> QED
    BY <1>0, <1>7, <2>1, <2>4, <2>7 DEF ListInv
<1>10. ASSUME NEW p \in Procs, dreadNext(p) PROVE ListInv'
  <2>1. /\ fd[p].kind = "dir" /\ fd' = fd /\ call[p].state = "busy"
        /\ dread_loc' = dread_loc + 1 /\ names' = names
        /\ call'[p].state = "returned" /\ call'[p].ret = 1
    BY <1>10 DEF dreadNext, NoCall
  <2>2. dread_loc < dirEntries /\ names[p] = Listing(dread_loc + 1)
    BY <2>1 DEF ListInv, Listed
  <2>3. Listed(p)'
    BY <2>1, <2>2 DEF Listed
  <2> QED
    BY <1>0, <1>7, <2>1, <2>2, <2>3 DEF ListInv
<1> QED
  BY <1>1, <1>3, <1>4, <1>5, <1>6, <1>8, <1>9, <1>10 DEF Next

(* For every directory: when it is listed by one process at a time, always *)
(* to the end, dread's shared position gives each of them every name, in   *)
(* order, before the 0.                                                    *)
THEOREM FilesListing == OneLister => (Spec => []ListingComplete)
<1> SUFFICES ASSUME OneLister PROVE Spec => []ListingComplete
  OBVIOUS
<1>1. ListInv /\ FilesInv => ListingComplete
  BY DEF ListInv, Listed, ListingComplete, AtEnd, Listing
<1>2. ListInv /\ FilesInv /\ [Next]_vars => ListInv' /\ FilesInv'
  BY NextList, NextFiles
<1> QED
  BY <1>1, <1>2, InitList, InitFiles, PTL DEF Spec
=============================================================================
