----------------------------- MODULE FishProofs -----------------------------
(***************************************************************************)
(* Proofs about Fish: closed files are not read, the list of blinkers and  *)
(* the pool agree, synced blinkers stay in step, the screen shows what the *)
(* statuses say, and both frames are drawn completely, for screens of any  *)
(* size and any lengths of the blinks, and for frames that do not reach    *)
(* locations that wrap (to 0, or at all).                                  *)
(***************************************************************************)
EXTENDS Fish, TLAPS, WellFoundedInduction, FiniteSetTheorems

(* Every non-empty set of naturals has a least element. *)
LEMMA LeastNat ==
    ASSUME NEW S \in SUBSET Nat, S # {}
    PROVE  \E n \in S : \A m \in S : n <= m
<1> DEFINE R == OpToRel(<, Nat)
<1>1. IsWellFoundedOn(R, Nat)
  BY NatLessThanWellFounded
<1>2. \A i, j \in Nat : i < j => << i, j >> \in R
  BY DEF OpToRel
<1> HIDE DEF R
<1>3. PICK n \in S : \A m \in S : ~ (<< m, n >> \in R)
  BY <1>1, WFMin
<1>4. ASSUME NEW m \in S PROVE n <= m
  <2>1. m \in Nat /\ n \in Nat
    OBVIOUS
  <2>2. ~(m < n)
    BY <1>2, <1>3, <2>1
  <2> QED
    BY <2>1, <2>2
<1> QED
  BY <1>3, <1>4

(* What the proofs need of the constants. *)
LEMMA Sizes ==
    /\ SIZE \in Nat /\ SIZE > 0 /\ NUM_COLS \in Nat /\ NUM_COLS > 0
    /\ OFFSET \in Nat /\ OFFSET > 0 /\ OFFSET < SIZE
    /\ EXTRA \in Nat /\ EXTRA > 0 /\ EXTRA < SIZE
    /\ WAIT \in Nat /\ WAIT > 0
    /\ LOCATIONS \in Nat /\ LOCATIONS >= SIZE /\ LOCATIONS > 0
  BY FishAssumption

LEMMA Lengths ==
    /\ FRAME_LENGTH \in Nat /\ FRAME_LENGTH > 0
    /\ ON_LENGTH \in Nat /\ ON_LENGTH > 0
    /\ OFF_LENGTH \in Nat /\ OFF_LENGTH > 0
  BY FishAssumption

-----------------------------------------------------------------------------
(* Files. *)

\* A file that was closed has been seen to end, and is not read again.
OpenInv ==
    /\ \A f \in Fds : f \in open \/ eof[f]
    /\ pc = "frames" => \A f \in Fds : eof[f] => c[f] = NL

(* A frame is not read after its end has been seen and it was closed,      *)
(* whatever the texts of the two frames.                                   *)
THEOREM FishOpen == Spec => []ReadsOpenFile
<1>1. Init => OpenInv
  BY DEF Init, OpenInv
<1>2. OpenInv /\ [Next]_vars => OpenInv'
  <2> SUFFICES ASSUME OpenInv, [Next]_vars PROVE OpenInv'
    OBVIOUS
  <2> USE DEF OpenInv
  <2>1. CASE AddPair
    <3>1. \A f \in Fds : eof'[f] <=> SeesEof(f)
      BY <2>1 DEF AddPair
    <3>2. ASSUME NEW f \in Fds, eof'[f] PROVE c'[f] = NL
      BY <2>1, <3>1, <3>2 DEF AddPair, SeesEof, Reads, NextC
    <3> QED
      BY <2>1, <3>1, <3>2 DEF AddPair, SeesEof
  <2>2. CASE EndRow
    BY <2>2 DEF EndRow, SeesEof, NextRow
  <2>3. CASE RtcRead
    BY <2>3 DEF RtcRead, fileVars
  <2>4. CASE mp1_rtc_tasklet
    BY <2>4 DEF mp1_rtc_tasklet, fileVars
  <2>5. CASE TaskletEnd
    BY <2>5 DEF TaskletEnd, fileVars
  <2>6. CASE NextPhase
    BY <2>6 DEF NextPhase, fileVars
  <2>7. CASE UNCHANGED vars
    BY <2>7 DEF vars, fileVars
  <2> QED
    BY <2>1, <2>2, <2>3, <2>4, <2>5, <2>6, <2>7 DEF Next, Done
<1>3. OpenInv => ReadsOpenFile
  BY DEF OpenInv, ReadsOpenFile, Reads
<1> QED
  BY <1>1, <1>2, <1>3, PTL DEF Spec

-----------------------------------------------------------------------------
(* Rows and columns of a text. *)

\* The ends of lines among the first n characters.
Ends(t, n) == {j \in 1..n : t[j] = NL}

LEMMA EndsFacts ==
    ASSUME NEW t, NEW n \in Nat
    PROVE  /\ IsFiniteSet(Ends(t, n)) /\ Cardinality(Ends(t, n)) \in Nat
           /\ Cardinality(Ends(t, n + 1)) =
                Cardinality(Ends(t, n)) + IF t[n + 1] = NL THEN 1 ELSE 0
           /\ Ends(t, n + 1) =
                IF t[n + 1] = NL THEN Ends(t, n) \cup {n + 1} ELSE Ends(t, n)
<1>1. IsFiniteSet(Ends(t, n))
  <2>1. IsFiniteSet(1..n)
    BY FS_Interval
  <2>2. Ends(t, n) \in SUBSET (1..n)
    BY DEF Ends
  <2> QED
    BY <2>1, <2>2, FS_Subset
<1>2. Cardinality(Ends(t, n)) \in Nat
  BY <1>1, FS_CardinalityType
<1>3. Ends(t, n + 1) =
        IF t[n + 1] = NL THEN Ends(t, n) \cup {n + 1} ELSE Ends(t, n)
  BY DEF Ends
<1>4. n + 1 \notin Ends(t, n)
  BY DEF Ends
<1>5. Cardinality(Ends(t, n) \cup {n + 1}) = Cardinality(Ends(t, n)) + 1
  BY <1>1, <1>4, FS_AddElement
<1> QED
  BY <1>1, <1>2, <1>3, <1>5

LEMMA EndsGrow ==
    ASSUME NEW t, NEW m \in Nat, NEW n \in Nat, m <= n
    PROVE  /\ Cardinality(Ends(t, m)) <= Cardinality(Ends(t, n))
           /\ Cardinality(Ends(t, m)) = Cardinality(Ends(t, n))
                => Ends(t, m) = Ends(t, n)
<1>1. Ends(t, m) \in SUBSET Ends(t, n)
  BY DEF Ends
<1>2. IsFiniteSet(Ends(t, n))
  BY EndsFacts
<1> QED
  BY <1>1, <1>2, FS_Subset

\* A bounded set has a greatest element.
LEMMA MaxFacts ==
    ASSUME NEW n \in Nat, NEW S \in SUBSET (0..n), S # {}
    PROVE  Max(S) \in S /\ \A y \in S : Max(S) >= y
<1> DEFINE T == {x \in 0..n : n - x \in S}
<1>1. T \in SUBSET Nat /\ T # {}
  <2>1. PICK y \in S : TRUE
    OBVIOUS
  <2>2. n - y \in T
    BY <2>1
  <2>3. T \in SUBSET Nat
    OBVIOUS
  <2> HIDE DEF T
  <2> QED
    BY <2>2, <2>3
<1> HIDE DEF T
<1>2. PICK x \in T : \A z \in T : x <= z
  BY <1>1, LeastNat
<1>3. n - x \in S /\ x \in 0..n
  BY DEF T
<1>4. ASSUME NEW y \in S PROVE n - x >= y
  <2>1. n - y \in T /\ y \in 0..n
    BY DEF T
  <2>2. x <= n - y
    BY <1>2, <2>1
  <2> QED
    BY <1>3, <2>1, <2>2
<1>5. \E m \in S : \A y \in S : m >= y
  BY <1>3, <1>4
<1> QED
  BY <1>5, Zenon DEF Max

LastEnd(t, n) == Max({0} \cup Ends(t, n))

LEMMA LastFacts ==
    ASSUME NEW t, NEW n \in Nat
    PROVE  /\ LastEnd(t, n) \in 0..n
           /\ LastEnd(t, n + 1) = IF t[n + 1] = NL THEN n + 1 ELSE LastEnd(t, n)
<1>1. {0} \cup Ends(t, n) \in SUBSET (0..n)
  BY DEF Ends
<1>2. LastEnd(t, n) \in 0..n
  BY <1>1, MaxFacts DEF LastEnd
<1>3. CASE t[n + 1] # NL
  BY <1>2, <1>3, EndsFacts DEF LastEnd
<1>4. CASE t[n + 1] = NL
  <2> DEFINE S == {0} \cup Ends(t, n + 1)
  <2>1. S \in SUBSET (0..(n + 1)) /\ n + 1 \in S /\ n + 1 \in Nat
    BY <1>4 DEF Ends
  <2> HIDE DEF S
  <2>2. Max(S) \in S /\ \A y \in S : Max(S) >= y
    BY <2>1, MaxFacts
  <2>3. Max(S) \in 0..(n + 1) /\ Max(S) >= n + 1
    BY <2>1, <2>2
  <2>4. Max(S) = n + 1
    BY <2>3
  <2> QED
    BY <1>2, <1>4, <2>4 DEF LastEnd, S
<1> QED
  BY <1>3, <1>4

(* The rows and columns of successive characters. *)
LEMMA PlaceOf ==
    ASSUME NEW t, NEW i \in Nat, i > 0
    PROVE  /\ RowOf(t, i) \in Nat /\ RowOf(t, i) < i
           /\ ColOf(t, i) \in Nat /\ ColOf(t, i) < i
           /\ RowOf(t, i) = Cardinality(Ends(t, i - 1))
           /\ ColOf(t, i) = i - 1 - LastEnd(t, i - 1)
<1>1. i - 1 \in Nat
  OBVIOUS
<1>2. RowOf(t, i) = Cardinality(Ends(t, i - 1))
  BY DEF RowOf, Ends
<1>3. ColOf(t, i) = i - 1 - LastEnd(t, i - 1)
  BY DEF ColOf, LastEnd, Ends
<1>4. LastEnd(t, i - 1) \in 0..(i - 1)
  BY <1>1, LastFacts
<1>5. RowOf(t, i) \in Nat
  BY <1>1, <1>2, EndsFacts
<1>6. ColOf(t, i) \in Nat /\ ColOf(t, i) < i
  BY <1>3, <1>4
<1>7. RowOf(t, i) < i
  <2>1. IsFiniteSet(1..(i - 1)) /\ Cardinality(1..(i - 1)) = i - 1
    BY FS_Interval
  <2>2. Ends(t, i - 1) \in SUBSET (1..(i - 1))
    BY DEF Ends
  <2>3. Cardinality(Ends(t, i - 1)) <= i - 1
    BY <2>1, <2>2, FS_Subset
  <2> QED
    BY <1>2, <1>5, <2>3
<1> QED
  BY <1>2, <1>3, <1>5, <1>6, <1>7

LEMMA FirstPlace ==
    ASSUME NEW t
    PROVE  RowOf(t, 1) = 0 /\ ColOf(t, 1) = 0
<1>1. Ends(t, 0) = {}
  BY DEF Ends
<1>2. LastEnd(t, 0) \in 0..0
  BY LastFacts
<1> QED
  BY <1>1, <1>2, PlaceOf, FS_EmptySet

LEMMA NextPlace ==
    ASSUME NEW t, NEW i \in Nat, i > 0
    PROVE  IF t[i] = NL
           THEN RowOf(t, i + 1) = RowOf(t, i) + 1 /\ ColOf(t, i + 1) = 0
           ELSE /\ RowOf(t, i + 1) = RowOf(t, i)
                /\ ColOf(t, i + 1) = ColOf(t, i) + 1
<1>1. PICK n \in Nat : n = i - 1
  OBVIOUS
<1>2. /\ RowOf(t, i) = Cardinality(Ends(t, n))
      /\ ColOf(t, i) = i - 1 - LastEnd(t, n)
      /\ RowOf(t, i + 1) = Cardinality(Ends(t, n + 1))
      /\ ColOf(t, i + 1) = i - LastEnd(t, n + 1)
  <2>1. i + 1 \in Nat /\ i + 1 > 0 /\ i + 1 - 1 = n + 1
    BY <1>1
  <2> QED
    BY <1>1, <2>1, PlaceOf
<1>3. n + 1 = i
  BY <1>1
<1>4. /\ LastEnd(t, n) \in 0..n
      /\ LastEnd(t, n + 1) = IF t[n + 1] = NL THEN n + 1 ELSE LastEnd(t, n)
      /\ Cardinality(Ends(t, n)) \in Nat
      /\ Cardinality(Ends(t, n + 1)) =
            Cardinality(Ends(t, n)) + IF t[n + 1] = NL THEN 1 ELSE 0
  BY LastFacts, EndsFacts
<1>5. CASE t[i] = NL
  BY <1>2, <1>3, <1>4, <1>5
<1>6. CASE t[i] # NL
  BY <1>2, <1>3, <1>4, <1>6
<1> QED
  BY <1>5, <1>6

\* One place comes before another.
Before(r, k, m, n) == r < m \/ (r = m /\ k < n)

LEMMA InOrder ==
    ASSUME NEW t, NEW i \in Nat, NEW j \in Nat, i > 0, i < j
    PROVE  Before(RowOf(t, i), ColOf(t, i), RowOf(t, j), ColOf(t, j))
<1>1. i - 1 \in Nat /\ j - 1 \in Nat /\ i - 1 <= j - 1 /\ j > 0
  OBVIOUS
<1>2. /\ RowOf(t, i) = Cardinality(Ends(t, i - 1)) /\ RowOf(t, i) \in Nat
      /\ ColOf(t, i) = i - 1 - LastEnd(t, i - 1) /\ ColOf(t, i) \in Nat
      /\ RowOf(t, j) = Cardinality(Ends(t, j - 1)) /\ RowOf(t, j) \in Nat
      /\ ColOf(t, j) = j - 1 - LastEnd(t, j - 1) /\ ColOf(t, j) \in Nat
  BY <1>1, PlaceOf
<1>3. /\ RowOf(t, i) <= RowOf(t, j)
      /\ RowOf(t, i) = RowOf(t, j) => Ends(t, i - 1) = Ends(t, j - 1)
  BY <1>1, <1>2, EndsGrow
<1>4. CASE RowOf(t, i) = RowOf(t, j)
  <2>1. LastEnd(t, i - 1) = LastEnd(t, j - 1)
    BY <1>3, <1>4 DEF LastEnd
  <2>2. LastEnd(t, i - 1) \in 0..(i - 1)
    BY <1>1, LastFacts
  <2>3. ColOf(t, i) < ColOf(t, j)
    BY <1>2, <2>1, <2>2
  <2> QED
    BY <1>4, <2>3 DEF Before
<1>5. CASE RowOf(t, i) # RowOf(t, j)
  BY <1>2, <1>3, <1>5 DEF Before
<1> QED
  BY <1>4, <1>5

\* The character of a place is the one character there.
LEMMA CharThere ==
    ASSUME NEW t, Len(t) \in Nat, DOMAIN t = 1..Len(t),
           NEW i \in 1..Len(t), t[i] # NL
    PROVE  CharAt(t, RowOf(t, i), ColOf(t, i)) = t[i]
<1> DEFINE H == {j \in DOMAIN t : /\ t[j] # NL
                                  /\ RowOf(t, j) = RowOf(t, i)
                                  /\ ColOf(t, j) = ColOf(t, i)}
<1>1. i \in H
  OBVIOUS
<1>2. ASSUME NEW j \in H PROVE j = i
  <2>1. /\ j \in Nat /\ j > 0 /\ i \in Nat /\ i > 0
        /\ RowOf(t, j) = RowOf(t, i) /\ ColOf(t, j) = ColOf(t, i)
    OBVIOUS
  <2>2. RowOf(t, i) \in Nat /\ ColOf(t, i) \in Nat
    BY <2>1, PlaceOf
  <2>3. ~(i < j) /\ ~(j < i)
    BY <2>1, <2>2, InOrder DEF Before
  <2> QED
    BY <2>1, <2>3
<1> HIDE DEF H
<1>3. H # {} /\ (CHOOSE j \in H : TRUE) = i
  BY <1>1, <1>2
<1>4. CharAt(t, RowOf(t, i), ColOf(t, i)) = t[CHOOSE j \in H : TRUE]
  BY <1>3 DEF CharAt, H
<1> QED
  BY <1>3, <1>4

LEMMA CharNone ==
    ASSUME NEW t, NEW r, NEW k,
           \A i \in DOMAIN t :
               t[i] # NL => ~(RowOf(t, i) = r /\ ColOf(t, i) = k)
    PROVE  CharAt(t, r, k) = SPACE
  BY DEF CharAt

LEMMA FramesAreTexts ==
    ASSUME NEW t \in Frames
    PROVE  Len(t) \in Nat /\ DOMAIN t = 1..Len(t)
<1>1. t \in Seq(Range(t))
  BY TextAssumption
<1> QED
  BY <1>1

-----------------------------------------------------------------------------
(* add_frames: where its reading of each file is. *)

Where(f) ==
    LET t == file[f]
        n == pos[f] + 1
    IN  /\ pos[f] \in 0..Len(t)
        /\ c[f] # NL => RowOf(t, n) = row /\ ColOf(t, n) = col
        /\ c[f] = NL /\ ~eof[f] => RowOf(t, n) = row + 1 /\ ColOf(t, n) = 0
        /\ eof[f] => pos[f] = Len(t) /\ c[f] = NL
        /\ \A i \in 1..pos[f] :
              t[i] # NL => Before(RowOf(t, i), ColOf(t, i), row, col)

Finished(f) ==
    \A i \in 1..Len(file[f]) : file[f][i] # NL =>
        Before(RowOf(file[f], i), ColOf(file[f], i), row, col)

TextInv ==
    /\ file \in [Fds -> Frames]
    /\ row \in Nat /\ col \in Nat
    /\ IF pc = "frames" THEN \A f \in Fds : Where(f)
                        ELSE \A f \in Fds : Finished(f)

LEMMA FileFacts ==
    ASSUME TextInv, NEW f \in Fds
    PROVE  Len(file[f]) \in Nat /\ DOMAIN file[f] = 1..Len(file[f])
  BY FramesAreTexts DEF TextInv

\* Behind the end of a line the next row begins.
LEMMA PastRow ==
    ASSUME TextInv, NEW f \in Fds, Where(f), NextC(f) = NL,
           NEW i \in 1..Len(file[f]), i > pos[f], file[f][i] # NL
    PROVE  RowOf(file[f], i) > row
<1> DEFINE t == file[f]
           p == pos[f]
<1>1. Len(t) \in Nat /\ p \in 0..Len(t) /\ p < i /\ i <= Len(t) /\ row \in Nat
  BY FileFacts DEF Where, TextInv
<1>2. ~AtEnd(f) /\ ~eof[f]
  BY <1>1 DEF AtEnd, Where
<1>3. ASSUME NEW j \in Nat, j > 0, j <= i PROVE RowOf(t, j) <= RowOf(t, i)
  <2>1. RowOf(t, j) \in Nat /\ RowOf(t, i) \in Nat
    BY <1>1, <1>3, PlaceOf
  <2>2. CASE j = i
    BY <2>1, <2>2
  <2>3. CASE j < i
    <3>1. Before(RowOf(t, j), ColOf(t, j), RowOf(t, i), ColOf(t, i))
      BY <1>1, <1>3, <2>3, InOrder
    <3> QED
      BY <2>1, <3>1 DEF Before
  <2> QED
    BY <1>1, <1>3, <2>2, <2>3
<1>4. CASE Reads(f)
  <2>1. t[p + 1] = NL
    BY <1>2, <1>4 DEF NextC
  <2>2. RowOf(t, p + 1) = row
    BY <1>4 DEF Where, Reads
  <2>3. p + 1 \in Nat /\ p + 1 > 0
    BY <1>1
  <2>4. RowOf(t, p + 2) = row + 1
    <3>1. RowOf(t, (p + 1) + 1) = RowOf(t, p + 1) + 1
      BY <2>1, <2>3, NextPlace
    <3>2. (p + 1) + 1 = p + 2
      BY <1>1
    <3> QED
      BY <2>2, <3>1, <3>2
  <2>5. p + 2 <= i
    BY <1>1, <2>1
  <2>6. RowOf(t, p + 2) <= RowOf(t, i)
    BY <1>1, <1>3, <2>5
  <2>7. RowOf(t, i) \in Nat
    BY <1>1, PlaceOf
  <2> QED
    BY <1>1, <2>4, <2>6, <2>7
<1>5. CASE ~Reads(f)
  <2>1. RowOf(t, p + 1) = row + 1
    BY <1>2, <1>5 DEF Where, Reads
  <2>2. RowOf(t, p + 1) <= RowOf(t, i)
    BY <1>1, <1>3
  <2>3. RowOf(t, i) \in Nat
    BY <1>1, PlaceOf
  <2> QED
    BY <1>1, <2>1, <2>2, <2>3
<1> QED
  BY <1>4, <1>5

\* Nothing is left of a row behind the end of its line.
LEMMA RestBlank ==
    ASSUME TextInv, NEW f \in Fds, Where(f), NextC(f) = NL,
           NEW k \in Nat, k >= col
    PROVE  CharAt(file[f], row, k) = SPACE
<1> DEFINE t == file[f]
           p == pos[f]
<1>1. Len(t) \in Nat /\ p \in 0..Len(t) /\ DOMAIN t = 1..Len(t)
  BY FileFacts DEF Where
<1>2. ASSUME NEW i \in DOMAIN t, t[i] # NL
      PROVE  ~(RowOf(t, i) = row /\ ColOf(t, i) = k)
  <2>1. /\ i \in 1..Len(t) /\ row \in Nat /\ col \in Nat
        /\ RowOf(t, i) \in Nat /\ ColOf(t, i) \in Nat
    BY <1>1, PlaceOf DEF TextInv
  <2>2. CASE i > p
    BY <1>2, <2>1, <2>2, PastRow
  <2>3. CASE ~(i > p)
    <3>1. i \in 1..p
      BY <1>1, <2>1, <2>3
    <3> QED
      BY <1>2, <2>1, <3>1 DEF Where, Before
  <2> QED
    BY <2>2, <2>3
<1> QED
  BY <1>2, CharNone

\* What AddPair draws is the picture at its place.
LEMMA ShownIsChar ==
    ASSUME TextInv, NEW f \in Fds, Where(f)
    PROVE  Shown(f) = CharAt(file[f], row, col)
<1> DEFINE t == file[f]
           p == pos[f]
<1>1. Len(t) \in Nat /\ p \in 0..Len(t) /\ DOMAIN t = 1..Len(t)
  BY FileFacts DEF Where
<1>2. CASE NextC(f) # NL
  <2>1. c[f] # NL /\ p # Len(t) /\ NextC(f) = t[p + 1]
    BY <1>2 DEF NextC, Reads, AtEnd
  <2>2. p + 1 \in 1..Len(t) /\ t[p + 1] # NL
    BY <1>1, <1>2, <2>1
  <2>3. RowOf(t, p + 1) = row /\ ColOf(t, p + 1) = col
    BY <2>1 DEF Where
  <2>4. CharAt(t, row, col) = t[p + 1]
    BY <1>1, <2>2, <2>3, CharThere
  <2> QED
    BY <1>2, <2>1, <2>4 DEF Shown
<1>3. CASE NextC(f) = NL
  <2>1. col \in Nat /\ col >= col
    BY DEF TextInv
  <2>2. CharAt(t, row, col) = SPACE
    BY <1>3, <2>1, RestBlank
  <2> QED
    BY <1>3, <2>2 DEF Shown
<1> QED
  BY <1>2, <1>3

\* Reading a file takes a pass of the inner loop to the next character.
LEMMA ReadOn ==
    ASSUME TextInv, NEW f \in Fds, Where(f), pc = "frames", AddPair \/ EndRow
    PROVE  /\ file' = file /\ row' \in Nat /\ col' \in Nat
           /\ pos'[f] = IF Reads(f) /\ ~AtEnd(f) THEN pos[f] + 1 ELSE pos[f]
           /\ eof'[f] = SeesEof(f)
           /\ pos'[f] \in 0..Len(file[f])
           /\ SeesEof(f) => pos'[f] = Len(file[f])
           /\ \A i \in 1..pos'[f] : file[f][i] # NL =>
                 Before(RowOf(file[f], i), ColOf(file[f], i), row', col')
<1> DEFINE t == file[f]
           p == pos[f]
<1>1. Len(t) \in Nat /\ p \in 0..Len(t) /\ row \in Nat /\ col \in Nat
  BY FileFacts DEF Where, TextInv
<1>2. /\ file' = file
      /\ pos'[f] = IF Reads(f) /\ ~AtEnd(f) THEN p + 1 ELSE p
      /\ eof'[f] = SeesEof(f)
  BY DEF AddPair, EndRow, Advance
<1>3. \/ row' = row /\ col' = col + 1
      \/ row' = row + 1 /\ col' = 0 /\ NextC(f) = NL
  BY DEF AddPair, EndRow
<1>4. pos'[f] \in 0..Len(t) /\ (SeesEof(f) => pos'[f] = Len(t))
  BY <1>1, <1>2 DEF SeesEof, AtEnd, Where
<1>5. ASSUME NEW i \in 1..pos'[f], t[i] # NL
      PROVE  Before(RowOf(t, i), ColOf(t, i), row', col')
  <2>1. i \in Nat /\ i > 0 /\ RowOf(t, i) \in Nat /\ ColOf(t, i) \in Nat
    BY <1>4, PlaceOf
  <2>2. CASE i <= p
    <3>1. Before(RowOf(t, i), ColOf(t, i), row, col)
      BY <1>1, <1>5, <2>1, <2>2 DEF Where
    <3> QED
      BY <1>1, <1>3, <2>1, <3>1 DEF Before
  <2>3. CASE ~(i <= p)
    <3>1. i = p + 1 /\ Reads(f) /\ ~AtEnd(f)
      BY <1>1, <1>2, <2>1, <2>3
    <3>2. NextC(f) # NL
      BY <1>5, <3>1 DEF NextC
    <3>3. RowOf(t, i) = row /\ ColOf(t, i) = col
      BY <3>1 DEF Where, Reads
    <3> QED
      BY <1>1, <1>3, <3>2, <3>3 DEF Before
  <2> QED
    BY <2>2, <2>3
<1> QED
  BY <1>1, <1>2, <1>3, <1>4, <1>5

\* The place of the next character, if the file was not at its end.
LEMMA NextChar ==
    ASSUME TextInv, NEW f \in Fds, Where(f), Reads(f), ~AtEnd(f)
    PROVE  IF NextC(f) = NL
           THEN /\ RowOf(file[f], pos[f] + 1 + 1) = row + 1
                /\ ColOf(file[f], pos[f] + 1 + 1) = 0
           ELSE /\ RowOf(file[f], pos[f] + 1 + 1) = row
                /\ ColOf(file[f], pos[f] + 1 + 1) = col + 1
<1> DEFINE t == file[f]
           p == pos[f]
<1>1. p + 1 \in Nat /\ p + 1 > 0
  BY FileFacts DEF Where
<1>2. NextC(f) = t[p + 1]
  BY DEF NextC
<1>3. RowOf(t, p + 1) = row /\ ColOf(t, p + 1) = col
  BY DEF Where, Reads
<1> QED
  BY <1>1, <1>2, <1>3, NextPlace

LEMMA WherePair ==
    ASSUME TextInv, NEW f \in Fds, Where(f), AddPair
    PROVE  Where(f)'
<1> DEFINE t == file[f]
           p == pos[f]
<1>1. /\ pc = "frames" /\ c'[f] = NextC(f) /\ row' = row /\ col' = col + 1
  BY DEF AddPair
<1>2. /\ file' = file
      /\ pos'[f] = IF Reads(f) /\ ~AtEnd(f) THEN pos[f] + 1 ELSE pos[f]
      /\ eof'[f] = SeesEof(f)
      /\ pos'[f] \in 0..Len(t)
      /\ SeesEof(f) => pos'[f] = Len(t)
      /\ \A i \in 1..pos'[f] : t[i] # NL =>
            Before(RowOf(t, i), ColOf(t, i), row', col')
  BY <1>1, ReadOn
<1>3. c'[f] # NL => RowOf(t, pos'[f] + 1) = row' /\ ColOf(t, pos'[f] + 1) = col'
  <2>1. NextC(f) # NL => Reads(f) /\ ~AtEnd(f)
    BY DEF NextC
  <2> QED
    BY <1>1, <1>2, <2>1, NextChar
<1>4. c'[f] = NL /\ ~eof'[f] =>
        RowOf(t, pos'[f] + 1) = row' + 1 /\ ColOf(t, pos'[f] + 1) = 0
  <2>1. CASE Reads(f)
    BY <1>1, <1>2, <2>1, NextChar DEF SeesEof
  <2>2. CASE ~Reads(f)
    BY <1>1, <1>2, <2>2 DEF SeesEof, Where, Reads
  <2> QED
    BY <2>1, <2>2
<1>5. eof'[f] => c'[f] = NL
  BY <1>1, <1>2 DEF SeesEof, NextC, Where, Reads
<1> QED
  BY <1>2, <1>3, <1>4, <1>5 DEF Where

LEMMA WhereRow ==
    ASSUME TextInv, NEW f \in Fds, Where(f), EndRow
    PROVE  Where(f)'
<1> DEFINE t == file[f]
           p == pos[f]
<1>1. /\ pc = "frames" /\ c'[f] = NextRow(f) /\ row' = row + 1 /\ col' = 0
      /\ NextC(f) = NL
  BY DEF EndRow
<1>2. /\ file' = file
      /\ pos'[f] = IF Reads(f) /\ ~AtEnd(f) THEN pos[f] + 1 ELSE pos[f]
      /\ eof'[f] = SeesEof(f)
      /\ pos'[f] \in 0..Len(t)
      /\ SeesEof(f) => pos'[f] = Len(t)
      /\ \A i \in 1..pos'[f] : t[i] # NL =>
            Before(RowOf(t, i), ColOf(t, i), row', col')
  BY <1>1, ReadOn
<1>3. c'[f] # NL <=> ~SeesEof(f)
  BY <1>1, TextAssumption DEF NextRow
<1>4. ~SeesEof(f) =>
        RowOf(t, pos'[f] + 1) = row' /\ ColOf(t, pos'[f] + 1) = col'
  <2>1. CASE Reads(f)
    BY <1>1, <1>2, <2>1, NextChar DEF SeesEof
  <2>2. CASE ~Reads(f)
    BY <1>1, <1>2, <2>2 DEF SeesEof, Where, Reads
  <2> QED
    BY <2>1, <2>2
<1> QED
  BY <1>2, <1>3, <1>4 DEF Where

LEMMA TextInit == Init => TextInv
<1> SUFFICES ASSUME Init PROVE TextInv
  OBVIOUS
<1>1. file \in [Fds -> Frames] /\ row = 0 /\ col = 0 /\ pc = "frames"
  BY DEF Init
<1>2. ASSUME NEW f \in Fds PROVE Where(f)
  <2>1. pos[f] = 0 /\ c[f] = "0" /\ ~eof[f]
    BY DEF Init
  <2>2. Len(file[f]) \in Nat
    BY <1>1, FramesAreTexts
  <2>3. c[f] # NL
    BY <2>1, TextAssumption
  <2>4. RowOf(file[f], 1) = 0 /\ ColOf(file[f], 1) = 0
    BY FirstPlace
  <2> QED
    BY <1>1, <2>1, <2>2, <2>3, <2>4 DEF Where
<1> QED
  BY <1>1, <1>2 DEF TextInv

LEMMA TextNext == TextInv /\ [Next]_vars => TextInv'
<1> SUFFICES ASSUME TextInv, [Next]_vars PROVE TextInv'
  OBVIOUS
<1>1. CASE AddPair
  <2>1. /\ pc = "frames" /\ pc' = "frames" /\ row' = row /\ col' = col + 1
        /\ file' = file
    BY <1>1 DEF AddPair
  <2>2. \A f \in Fds : Where(f)'
    BY <1>1, <2>1, WherePair DEF TextInv
  <2> QED
    BY <2>1, <2>2 DEF TextInv
<1>2. CASE EndRow
  <2>1. /\ pc = "frames" /\ row' = row + 1 /\ col' = 0 /\ file' = file
        /\ pc' # "frames" => \A f \in Fds : SeesEof(f)
    BY <1>2 DEF EndRow
  <2>2. \A f \in Fds : Where(f)'
    BY <1>2, <2>1, WhereRow DEF TextInv
  <2>3. ASSUME pc' # "frames", NEW f \in Fds PROVE Finished(f)'
    <3>1. Where(f) /\ SeesEof(f)
      BY <2>1, <2>3 DEF TextInv
    <3>2. pos'[f] = Len(file[f])
      BY <1>2, <2>1, <3>1, ReadOn
    <3> QED
      BY <2>1, <2>2, <3>2 DEF Where, Finished
  <2> QED
    BY <2>1, <2>2, <2>3 DEF TextInv
<1>3. CASE RtcRead \/ mp1_rtc_tasklet \/ TaskletEnd \/ NextPhase
  <2>1. UNCHANGED << file, row, col >> /\ pc # "frames" /\ pc' # "frames"
    BY <1>3 DEF RtcRead, mp1_rtc_tasklet, TaskletEnd, NextPhase, fileVars
  <2> QED
    BY <2>1 DEF TextInv, Finished
<1>4. CASE UNCHANGED vars
  BY <1>4 DEF vars, fileVars, TextInv, Finished, Where
<1> QED
  BY <1>1, <1>2, <1>3, <1>4 DEF Next, Done

(* Where what AddPair adds is stored. *)
LEMMA Wrapped ==
    ASSUME NEW l \in Nat, l > 0
    PROVE  /\ l % LOCATIONS \in Nat
           /\ l < LOCATIONS => l % LOCATIONS = l /\ l % LOCATIONS # 0
  BY Sizes

LEMMA PairMark ==
    ASSUME TextInv, AddPair, \E f \in Fds : Shown(f) # SPACE
    PROVE  \E f \in Fds : \E i \in Marks(f) : CellOf(f, i) = Cell(row, col)
<1>1. PICK f \in Fds : Shown(f) # SPACE
  OBVIOUS
<1>2. NextC(f) # NL /\ NextC(f) # SPACE
  BY <1>1 DEF Shown
<1>3. c[f] # NL /\ pos[f] # Len(file[f]) /\ NextC(f) = file[f][pos[f] + 1]
  BY <1>2 DEF NextC, Reads, AtEnd
<1>4. Where(f)
  BY DEF AddPair, TextInv
<1>5. pos[f] + 1 \in DOMAIN file[f]
  BY <1>3, <1>4, FileFacts DEF Where
<1>6. pos[f] + 1 \in Marks(f)
  BY <1>2, <1>3, <1>5 DEF Marks
<1>7. RowOf(file[f], pos[f] + 1) = row /\ ColOf(file[f], pos[f] + 1) = col
  BY <1>3, <1>4 DEF Where
<1> QED
  BY <1>6, <1>7 DEF CellOf

LEMMA CellNat ==
    ASSUME NEW r \in Nat, NEW k \in Nat
    PROVE  Cell(r, k) \in Nat /\ Cell(r, k) > 0
<1>1. r * NUM_COLS \in Nat
  BY Sizes
<1> QED
  BY <1>1, Sizes DEF Cell

LEMMA PairLocation ==
    ASSUME TextInv, AddPair, \E f \in Fds : Shown(f) # SPACE
    PROVE  /\ Location(row, col) \in Nat
           /\ NoneAtZero => Location(row, col) # 0
           /\ NoneWraps => Location(row, col) = Cell(row, col)
<1>1. PICK f \in Fds : \E i \in Marks(f) : CellOf(f, i) = Cell(row, col)
  BY PairMark
<1>2. Cell(row, col) \in Nat /\ Cell(row, col) > 0
  BY CellNat DEF TextInv
<1>3. NoneAtZero => Cell(row, col) % LOCATIONS # 0
  BY <1>1 DEF NoneAtZero
<1>4. NoneWraps => Cell(row, col) < LOCATIONS
  BY <1>1 DEF NoneWraps
<1> QED
  BY <1>2, <1>3, <1>4, Wrapped DEF Location

LEMMA FitsNotZero ==
    ASSUME TextInv, NoneWraps
    PROVE  NoneAtZero
<1> SUFFICES ASSUME NEW f \in Fds, NEW i \in Marks(f)
             PROVE  CellOf(f, i) % LOCATIONS # 0
  BY DEF NoneAtZero
<1>1. i \in Nat /\ i > 0
  BY FileFacts DEF Marks
<1>2. RowOf(file[f], i) \in Nat /\ ColOf(file[f], i) \in Nat
  BY <1>1, PlaceOf
<1>3. CellOf(f, i) \in Nat /\ CellOf(f, i) > 0
  BY <1>2, CellNat DEF CellOf
<1>4. CellOf(f, i) < LOCATIONS
  BY DEF NoneWraps
<1> QED
  BY <1>3, <1>4, Wrapped

\* The files do not change.
LEMMA FilesKept ==
    [Next]_vars => /\ NoneAtZero' <=> NoneAtZero
                   /\ NoneWraps' <=> NoneWraps
<1> SUFFICES ASSUME [Next]_vars PROVE file' = file
  BY DEF NoneAtZero, NoneWraps, Marks, CellOf
<1> QED
  BY DEF Next, AddPair, EndRow, RtcRead, mp1_rtc_tasklet, TaskletEnd,
         NextPhase, Done, vars

-----------------------------------------------------------------------------
(* The list and the pool.  Slots are handed out from 0 up, so the list     *)
(* runs down through the pool, and at most one slot was taken out of it.   *)

Used(s) == pool[s].location # 0

\* The slot in front of s, but for the hole h.
Down(s, h) ==
    LET d == IF s - 1 = h THEN s - 2 ELSE s - 1
    IN  IF d < 0 THEN NULL ELSE d

\* The slots below k are in use and linked, but for the hole h.
Chained(k, h) ==
    /\ list_head = Down(k, h)
    /\ \A s \in Slots : Used(s) <=> (s < k /\ s # h)
    /\ \A s \in Slots : Used(s) => pool[s].next = Down(s, h)

ListInv ==
    \E k, h \in 0..SIZE : /\ Chained(k, h)
                          /\ h < k \/ h = SIZE
                          /\ phase <= 3 => h = SIZE

\* The slot that is n-th in a list like that.
Place(k, h, n) ==
    LET i == k - 1 - n
        j == IF h < k /\ h >= i THEN i - 1 ELSE i
    IN  IF j < 0 THEN NULL ELSE j

\* Where a list leads after n steps, if it leads to g[n - 1] after n - 1.
Link(head, p, g, n) ==
    IF n = 0 THEN head
    ELSE IF g[n - 1] = NULL THEN NULL ELSE p[g[n - 1]].next

(* The recursion of Nth has one solution. *)
LEMMA Followed ==
    ASSUME NEW head, NEW p, NEW W,
           W = [n \in 0..SIZE |-> Link(head, p, W, n)]
    PROVE  (CHOOSE g : g = [n \in 0..SIZE |-> Link(head, p, g, n)]) = W
<1> DEFINE G == CHOOSE g : g = [n \in 0..SIZE |-> Link(head, p, g, n)]
<1>1. G = [n \in 0..SIZE |-> Link(head, p, G, n)]
  BY Zenon
<1> HIDE DEF G
<1>2. \A n \in 0..SIZE : /\ G[n] = Link(head, p, G, n)
                        /\ W[n] = Link(head, p, W, n)
  BY <1>1
<1> DEFINE B == {n \in 0..SIZE : G[n] # W[n]}
<1>3. ASSUME B # {} PROVE FALSE
  <2>1. B \in SUBSET Nat
    BY Sizes
  <2>2. PICK n \in B : \A m \in B : n <= m
    <3> HIDE DEF B
    <3> QED
      BY <1>3, <2>1, LeastNat
  <2>3. n \in 0..SIZE /\ G[n] # W[n]
    OBVIOUS
  <2>4. CASE n = 0
    BY <1>2, <2>3, <2>4 DEF Link
  <2>5. CASE n # 0
    <3>1. n - 1 \in 0..SIZE /\ ~(n <= n - 1)
      BY <2>3, <2>5, Sizes
    <3>2. G[n - 1] = W[n - 1]
      BY <2>2, <3>1
    <3> QED
      BY <1>2, <2>3, <2>5, <3>2 DEF Link
  <2> QED
    BY <2>4, <2>5
<1>4. G = W
  BY <1>1, <1>3
<1> QED
  BY <1>4 DEF G

(* The places computed satisfy that recursion. *)
LEMMA PlaceLinks ==
    ASSUME NEW k \in 0..SIZE, NEW h \in 0..SIZE, Chained(k, h),
           h < k \/ h = SIZE, NEW W, NEW n \in 0..SIZE,
           \A m \in 0..SIZE : W[m] = Place(k, h, m)
    PROVE  W[n] = Link(list_head, pool, W, n)
<1> USE Sizes
<1>1. CASE n = 0
  <2>1. W[n] = Place(k, h, 0)
    BY <1>1
  <2>2. Place(k, h, 0) = Down(k, h)
    BY DEF Place, Down, NULL
  <2> QED
    BY <1>1, <2>1, <2>2 DEF Chained, Link
<1>2. CASE n # 0
  <2> DEFINE s == Place(k, h, n - 1)
  <2>1. n - 1 \in 0..SIZE /\ W[n - 1] = s
    BY <1>2
  <2>2. CASE s = NULL
    BY <1>2, <2>1, <2>2 DEF Place, NULL, Link
  <2>3. CASE s # NULL
    <3>1. s \in Slots /\ s < k /\ s # h
      BY <1>2, <2>3 DEF Place, NULL, Slots
    <3>2. pool[s].next = Down(s, h)
      BY <3>1 DEF Chained
    <3>3. Down(s, h) = Place(k, h, n)
      BY <1>2, <2>3 DEF Place, NULL, Down
    <3> QED
      BY <1>2, <2>1, <2>3, <3>2, <3>3 DEF Link
  <2> QED
    BY <2>2, <2>3
<1> QED
  BY <1>1, <1>2

(* Nth is what its recursion says, and that is the place computed. *)
LEMMA NthIsPlace ==
    ASSUME NEW k \in 0..SIZE, NEW h \in 0..SIZE, Chained(k, h),
           h < k \/ h = SIZE
    PROVE  \A n \in 0..SIZE : Nth[n] = Place(k, h, n)
<1> DEFINE W == [n \in 0..SIZE |-> Place(k, h, n)]
<1>1. \A n \in 0..SIZE : W[n] = Place(k, h, n)
  OBVIOUS
<1>2. W = [n \in 0..SIZE |-> W[n]]
  OBVIOUS
<1> HIDE DEF W
<1>3. \A n \in 0..SIZE : W[n] = Link(list_head, pool, W, n)
  BY <1>1, PlaceLinks
<1>4. W = [n \in 0..SIZE |-> Link(list_head, pool, W, n)]
  BY <1>2, <1>3
<1>5. Nth = CHOOSE g : g = [n \in 0..SIZE |-> Link(list_head, pool, g, n)]
  BY Zenon DEF Nth, Link
<1>6. (CHOOSE g : g = [n \in 0..SIZE |-> Link(list_head, pool, g, n)]) = W
  BY <1>4, Followed, ZenonT(30)
<1> QED
  BY <1>1, <1>5, <1>6

(* The list holds the slots in use, each once. *)
LEMMA PlacesAreUsed ==
    ASSUME NEW k \in 0..SIZE, NEW h \in 0..SIZE, Chained(k, h),
           h < k \/ h = SIZE,
           NEW N, \A n \in 0..SIZE : N[n] = Place(k, h, n)
    PROVE  /\ {N[n] : n \in 0..SIZE} \ {NULL} = {s \in Slots : Used(s)}
           /\ \A m, n \in 0..SIZE : m # n /\ N[m] = N[n] => N[m] = NULL
<1> USE Sizes
<1> DEFINE L == {N[n] : n \in 0..SIZE} \ {NULL}
<1>1. ASSUME NEW s \in Slots, Used(s) PROVE s \in L
  <2>1. s < k /\ s # h
    BY <1>1 DEF Chained
  <2> DEFINE n == IF h < k /\ h > s THEN k - 2 - s ELSE k - 1 - s
  <2>2. n \in 0..SIZE /\ Place(k, h, n) = s /\ s # NULL
    BY <2>1 DEF Place, Slots, NULL
  <2> HIDE DEF n
  <2>3. N[n] = s
    BY <2>2
  <2> QED
    BY <2>2, <2>3
<1>2. ASSUME NEW n \in 0..SIZE, N[n] # NULL
      PROVE  N[n] \in Slots /\ Used(N[n])
  <2> DEFINE s == Place(k, h, n)
  <2>1. s # NULL
    BY <1>2
  <2>2. s \in Slots /\ s < k /\ s # h
    BY <2>1 DEF Place, Slots, NULL
  <2> QED
    BY <2>2 DEF Chained
<1>3. ASSUME NEW m \in 0..SIZE, NEW n \in 0..SIZE, m # n, N[m] = N[n]
      PROVE  N[m] = NULL
  <2>1. Place(k, h, m) = Place(k, h, n)
    BY <1>3
  <2>2. Place(k, h, m) = NULL
    BY <1>3, <2>1 DEF Place, NULL
  <2> QED
    BY <2>2
<1>4. L = {s \in Slots : Used(s)}
  BY <1>1, <1>2
<1> QED
  BY <1>3, <1>4

LEMMA ListedIsUsed ==
    ASSUME ListInv
    PROVE  /\ Listed = {s \in Slots : Used(s)}
           /\ \A m, n \in 0..SIZE : m # n /\ Nth[m] = Nth[n] => Nth[m] = NULL
<1> SUFFICES ASSUME NEW k \in 0..SIZE, NEW h \in 0..SIZE, Chained(k, h),
                    h < k \/ h = SIZE
             PROVE  /\ Listed = {s \in Slots : Used(s)}
                    /\ \A m, n \in 0..SIZE :
                          m # n /\ Nth[m] = Nth[n] => Nth[m] = NULL
  BY DEF ListInv
<1>1. \A n \in 0..SIZE : Nth[n] = Place(k, h, n)
  BY NthIsPlace
<1>2. /\ {Nth[n] : n \in 0..SIZE} \ {NULL} = {s \in Slots : Used(s)}
      /\ \A m, n \in 0..SIZE : m # n /\ Nth[m] = Nth[n] => Nth[m] = NULL
  BY <1>1, PlacesAreUsed
<1> QED
  BY <1>2 DEF Listed

LEMMA ListMatches ==
    ASSUME ListInv
    PROVE  ListMatchesPool
<1>1. Listed = {s \in Slots : pool[s].location # 0}
  BY ListedIsUsed DEF Used
<1> QED
  BY <1>1, ListedIsUsed DEF ListMatchesPool

(* The slot behind the others at a location. *)
TopAt(s, l) == /\ pool[s].location = l
               /\ \A r \in Slots : r > s => pool[r].location # l

LEMMA FirstIsTop ==
    ASSUME NEW k \in 0..SIZE, NEW h \in 0..SIZE, Chained(k, h),
           h < k \/ h = SIZE,
           NEW N, \A n \in 0..SIZE : N[n] = Place(k, h, n),
           NEW l \in Nat, l # 0,
           NEW H, H = {n \in 0..SIZE : N[n] # NULL /\ pool[N[n]].location = l}
    PROVE  /\ H = {} => \A s \in Slots : pool[s].location # l
           /\ \A i \in H : (\A m \in H : i <= m) =>
                           N[i] \in Slots /\ TopAt(N[i], l)
<1> USE Sizes
<1> DEFINE At(s) == IF h < k /\ h > s THEN k - 2 - s ELSE k - 1 - s
<1>1. ASSUME NEW s \in Slots, pool[s].location = l
      PROVE  At(s) \in H /\ Place(k, h, At(s)) = s /\ s < k /\ s # h
  <2>1. s < k /\ s # h
    BY <1>1 DEF Chained, Used
  <2>2. At(s) \in 0..SIZE /\ Place(k, h, At(s)) = s /\ s # NULL
    BY <2>1 DEF Place, Slots, NULL
  <2> QED
    BY <1>1, <2>1, <2>2
<1>2. ASSUME NEW i \in H, \A m \in H : i <= m
      PROVE  N[i] \in Slots /\ TopAt(N[i], l)
  <2>1. i \in 0..SIZE /\ N[i] = Place(k, h, i) /\ N[i] # NULL
        /\ pool[N[i]].location = l
    OBVIOUS
  <2>2. N[i] \in Slots
    BY <2>1 DEF Place, Slots, NULL
  <2>3. ASSUME NEW r \in Slots, r > N[i], pool[r].location = l PROVE FALSE
    <3>1. At(r) \in H /\ Place(k, h, At(r)) = r /\ r < k /\ r # h
      BY <1>1, <2>3
    <3>2. i <= At(r)
      BY <1>2, <3>1
    <3>3. Place(k, h, i) # NULL /\ Place(k, h, i) < r
      BY <2>1, <2>3
    <3> QED
      BY <2>1, <3>1, <3>2, <3>3 DEF Place, Slots, NULL
  <2> QED
    BY <2>1, <2>2, <2>3 DEF TopAt
<1> QED
  BY <1>1, <1>2

(* mp1_find_helper finds it. *)
LEMMA FindFacts ==
    ASSUME ListInv, NEW l \in Nat, l # 0
    PROVE  \/ /\ mp1_find_helper(l) = NULL
              /\ \A s \in Slots : pool[s].location # l
           \/ mp1_find_helper(l) \in Slots /\ TopAt(mp1_find_helper(l), l)
<1> SUFFICES ASSUME NEW k \in 0..SIZE, NEW h \in 0..SIZE, Chained(k, h),
                    h < k \/ h = SIZE
             PROVE  \/ /\ mp1_find_helper(l) = NULL
                       /\ \A s \in Slots : pool[s].location # l
                    \/ /\ mp1_find_helper(l) \in Slots
                       /\ TopAt(mp1_find_helper(l), l)
  BY DEF ListInv
<1> DEFINE H == {n \in 0..SIZE : Nth[n] # NULL /\ pool[Nth[n]].location = l}
           i == CHOOSE n \in H : \A m \in H : n <= m
<1>1. \A n \in 0..SIZE : Nth[n] = Place(k, h, n)
  BY NthIsPlace
<1>2. mp1_find_helper(l) = IF H = {} THEN NULL ELSE Nth[i]
  BY DEF mp1_find_helper
<1> HIDE DEF H
<1>3. /\ H = {} => \A s \in Slots : pool[s].location # l
      /\ \A n \in H : (\A m \in H : n <= m) =>
                      Nth[n] \in Slots /\ TopAt(Nth[n], l)
  BY <1>1, FirstIsTop DEF H
<1>4. H \in SUBSET Nat
  BY DEF H
<1>5. H # {} => i \in H /\ \A m \in H : i <= m
  BY <1>4, LeastNat
<1> HIDE DEF i
<1> QED
  BY <1>2, <1>3, <1>5

-----------------------------------------------------------------------------
(* The blinkers keep their fields, and the program its order. *)

IsBlink(b) ==
    b = [location |-> b.location, on_char |-> b.on_char,
         off_char |-> b.off_char, on_length |-> b.on_length,
         off_length |-> b.off_length, countdown |-> b.countdown,
         status |-> b.status, next |-> b.next]

BlinkOK(b) ==
    /\ IsBlink(b)
    /\ b.location \in Slots
    /\ b.on_length \in Nat /\ b.off_length \in Nat
    /\ b.countdown \in Nat /\ b.status \in {0, 1}

PoolOK ==
    /\ pool = [s \in Slots |-> pool[s]]
    /\ vmem = [l \in Slots |-> vmem[l]]
    /\ \A s \in Slots : BlinkOK(pool[s])

ControlOK ==
    /\ phase \in 1..5 /\ waited \in 0..WAIT
    /\ row \in Nat /\ col \in Nat
    /\ pc \in {"frames", "wait", "tasklet", "done"}
    /\ pc = "frames" => phase = 1 /\ waited = 0
    /\ pc = "tasklet" => /\ phase \in 1..4 /\ waited > 0
                         /\ at = NULL \/ (at \in Slots /\ Used(at))
    /\ pc = "done" <=> phase = 5

BaseInv == ControlOK /\ PoolOK /\ ListInv

LEMMA FreeBlinkOK == BlinkOK(FreeBlink)
  BY Sizes DEF BlinkOK, IsBlink, FreeBlink, Slots

LEMMA BlinkFields ==
    ASSUME NEW l, NEW on, NEW off, NEW m \in Nat, NEW n \in Nat, NEW b,
           b = Blink(l, on, off, m, n)
    PROVE  b = [location |-> l, on_char |-> on, off_char |-> off,
                on_length |-> m, off_length |-> n, countdown |-> 0,
                status |-> 0, next |-> NULL]
  BY DEF Blink, FreeBlink

(* What a new blinker looks like, and where it goes. *)
NewBlink(b, s) ==
    [location |-> b.location, on_char |-> b.on_char, off_char |-> b.off_char,
     on_length |-> b.on_length, off_length |-> b.off_length,
     countdown |-> b.on_length, status |-> 1, next |-> s]

Added(b) ==
    \E s \in Slots :
        /\ ~Used(s) /\ b.location < SIZE
        /\ \A r \in Slots : Used(r) <=> r < s
        /\ list_head = Down(s, SIZE)
        /\ list_head' = s
        /\ pool' = [pool EXCEPT ![s] = NewBlink(b, list_head)]
        /\ vmem' = [vmem EXCEPT ![b.location] = b.on_char]

LEMMA AddFacts ==
    ASSUME ListInv, phase <= 3, NEW l \in Nat, NEW on, NEW off,
           NEW m \in Nat, NEW n \in Nat, NEW b, b = Blink(l, on, off, m, n),
           mp1_ioctl_add(b)
    PROVE  /\ UNCHANGED listVars \/ Added(b)
           /\ l < SIZE /\ mp1_malloc # {} => Added(b)
<1> USE Sizes
<1>1. CASE b.location >= SIZE \/ mp1_malloc = {}
  <2>1. b.location = l
    BY BlinkFields
  <2>2. UNCHANGED listVars
    BY <1>1 DEF mp1_ioctl_add
  <2> QED
    BY <1>1, <2>1, <2>2
<1>2. CASE ~(b.location >= SIZE \/ mp1_malloc = {})
  <2>1. PICK s \in mp1_malloc :
            /\ pool' = [pool EXCEPT ![s] =
                          [b EXCEPT !.status = 1, !.countdown = b.on_length,
                                    !.next = list_head]]
            /\ list_head' = s
            /\ vmem' = [vmem EXCEPT ![b.location] = b.on_char]
    BY <1>2 DEF mp1_ioctl_add, Poke
  <2>2. s \in Slots /\ ~Used(s) /\ \A r \in 0..(s - 1) : Used(r)
    BY DEF mp1_malloc, Used
  <2>3. [b EXCEPT !.status = 1, !.countdown = b.on_length, !.next = list_head]
          = NewBlink(b, list_head)
    <3>1. b = [location |-> l, on_char |-> on, off_char |-> off,
               on_length |-> m, off_length |-> n, countdown |-> 0,
               status |-> 0, next |-> NULL]
      BY BlinkFields
    <3> DEFINE q == [b EXCEPT !.status = 1, !.countdown = b.on_length,
                              !.next = list_head]
    <3>2. IsBlink(b)
      BY <3>1 DEF IsBlink
    <3>0. q = [b EXCEPT !.status = 1, !.countdown = b.on_length,
                        !.next = list_head]
      OBVIOUS
    <3> HIDE DEF q
    <3>3. /\ IsBlink(q) /\ q.status = 1 /\ q.countdown = b.on_length
          /\ q.next = list_head
          /\ q.location = b.location /\ q.on_char = b.on_char
          /\ q.off_char = b.off_char /\ q.on_length = b.on_length
          /\ q.off_length = b.off_length
      BY <3>0, <3>2 DEF IsBlink
    <3>4. q = NewBlink(b, list_head)
      BY <3>3 DEF NewBlink, IsBlink
    <3> QED
      BY <3>4 DEF q
  <2>4. PICK k \in 0..SIZE : Chained(k, SIZE)
    BY DEF ListInv
  <2>5. k = s
    <3>1. ~(s < k)
      BY <2>2, <2>4 DEF Chained, Slots
    <3>2. ~(k < s)
      <4>1. k < s => k \in 0..(s - 1) /\ k \in Slots
        BY <2>2 DEF Slots
      <4> QED
        BY <2>2, <2>4, <4>1 DEF Chained
    <3> QED
      BY <2>2, <3>1, <3>2 DEF Slots
  <2>6. \A r \in Slots : Used(r) <=> r < s
    BY <2>4, <2>5 DEF Chained, Slots
  <2>7. list_head = Down(s, SIZE)
    BY <2>4, <2>5 DEF Chained
  <2>8. b.location < SIZE
    BY <1>2, BlinkFields
  <2> QED
    BY <2>1, <2>2, <2>3, <2>6, <2>7, <2>8 DEF Added
<1> QED
  BY <1>1, <1>2

(* A new blinker goes in front of the list. *)
LEMMA AddKeeps ==
    ASSUME ListInv, PoolOK, phase <= 3, phase' \in Int,
           NEW l \in Nat, l # 0, NEW on, NEW off,
           NEW m \in Nat, NEW n \in Nat, NEW b, b = Blink(l, on, off, m, n),
           Added(b)
    PROVE  ListInv' /\ PoolOK'
<1> USE Sizes
<1>1. PICK s \in Slots :
        /\ ~Used(s) /\ b.location < SIZE
        /\ \A r \in Slots : Used(r) <=> r < s
        /\ list_head = Down(s, SIZE)
        /\ list_head' = s
        /\ pool' = [pool EXCEPT ![s] = NewBlink(b, list_head)]
        /\ vmem' = [vmem EXCEPT ![b.location] = b.on_char]
  BY DEF Added
<1>2. b = [location |-> l, on_char |-> on, off_char |-> off,
           on_length |-> m, off_length |-> n, countdown |-> 0,
           status |-> 0, next |-> NULL]
  BY BlinkFields
<1>3. /\ pool'[s] = NewBlink(b, list_head)
      /\ \A r \in Slots : r # s => pool'[r] = pool[r]
      /\ pool' = [r \in Slots |-> pool'[r]]
  BY <1>1 DEF PoolOK
<1>4. BlinkOK(NewBlink(b, list_head))
  BY <1>1, <1>2 DEF BlinkOK, IsBlink, NewBlink, Slots
<1>5. vmem' = [r \in Slots |-> vmem'[r]]
  BY <1>1 DEF PoolOK
<1>6. PoolOK'
  BY <1>3, <1>4, <1>5 DEF PoolOK
<1>7. Chained(s + 1, SIZE)'
  <2>1. list_head' = Down(s + 1, SIZE)
    BY <1>1 DEF Down, Slots
  <2>2. \A r \in Slots : Used(r)' <=> (r < s + 1 /\ r # SIZE)
    <3>1. Used(s)'
      BY <1>2, <1>3 DEF Used, NewBlink
    <3>2. \A r \in Slots : r # s => (Used(r)' <=> Used(r))
      BY <1>3 DEF Used
    <3> QED
      BY <1>1, <3>1, <3>2 DEF Slots
  <2>3. \A r \in Slots : Used(r)' => pool'[r].next = Down(r, SIZE)
    <3>1. pool'[s].next = Down(s, SIZE)
      BY <1>1, <1>3 DEF NewBlink
    <3>2. ASSUME NEW r \in Slots, r # s, Used(r)'
          PROVE  pool'[r].next = Down(r, SIZE)
      <4>1. pool'[r] = pool[r] /\ Used(r)
        BY <1>3, <3>2 DEF Used
      <4>2. PICK k \in 0..SIZE : Chained(k, SIZE)
        BY DEF ListInv
      <4> QED
        BY <4>1, <4>2 DEF Chained
    <3> QED
      BY <3>1, <3>2
  <2> QED
    BY <2>1, <2>2, <2>3 DEF Chained
<1>8. s + 1 \in 0..SIZE
  BY DEF Slots
<1> QED
  BY <1>6, <1>7, <1>8 DEF ListInv

\* A step that leaves the list and what the blinkers look like.
Steady ==
    /\ list_head' = list_head
    /\ \A s \in Slots : /\ pool'[s].location = pool[s].location
                        /\ pool'[s].next = pool[s].next
                        /\ pool'[s].on_char = pool[s].on_char
                        /\ pool'[s].off_char = pool[s].off_char

LEMMA SteadyList ==
    ASSUME ListInv, Steady, phase' \in Int, phase \in Int, phase' >= phase
    PROVE  ListInv'
<1>1. PICK k \in 0..SIZE, h \in 0..SIZE :
        Chained(k, h) /\ (h < k \/ h = SIZE) /\ (phase <= 3 => h = SIZE)
  BY DEF ListInv
<1>2. Chained(k, h)'
  BY <1>1 DEF Chained, Steady, Used
<1> QED
  BY <1>1, <1>2 DEF ListInv

Pulse(b) == IF b.countdown - 1 > 0 THEN [b EXCEPT !.countdown = @ - 1]
                                   ELSE Toggled(b)

(* What a tick does to a blinker. *)
LEMMA PulseFacts ==
    ASSUME NEW b, BlinkOK(b)
    PROVE  /\ BlinkOK(Pulse(b))
           /\ Pulse(b).location = b.location /\ Pulse(b).next = b.next
           /\ Pulse(b).on_char = b.on_char /\ Pulse(b).off_char = b.off_char
           /\ Pulse(b).on_length = b.on_length
           /\ Pulse(b).off_length = b.off_length
           /\ IF b.countdown - 1 > 0
              THEN /\ Pulse(b).countdown = b.countdown - 1
                   /\ Pulse(b).status = b.status
              ELSE /\ Pulse(b).countdown = IF b.status = 1 THEN b.off_length
                                                           ELSE b.on_length
                   /\ Pulse(b).status = 1 - b.status
<1>1. CASE b.countdown - 1 > 0
  BY <1>1 DEF Pulse, BlinkOK, IsBlink
<1>2. CASE ~(b.countdown - 1 > 0)
  <2>1. Pulse(b) = Toggled(b)
    BY <1>2 DEF Pulse
  <2> DEFINE q == Toggled(b)
  <2>2. /\ IsBlink(q) /\ q.status = 1 - b.status
        /\ q.countdown = IF b.status = 1 THEN b.off_length ELSE b.on_length
        /\ q.location = b.location /\ q.on_char = b.on_char
        /\ q.off_char = b.off_char /\ q.on_length = b.on_length
        /\ q.off_length = b.off_length /\ q.next = b.next
    <3>1. q = [b EXCEPT !.status = 1 - b.status,
                        !.countdown = IF b.status = 1 THEN b.off_length
                                                      ELSE b.on_length]
      BY DEF Toggled
    <3> HIDE DEF q
    <3> QED
      BY <3>1 DEF BlinkOK, IsBlink
  <2> HIDE DEF q
  <2>3. BlinkOK(q)
    BY <2>2 DEF BlinkOK
  <2> QED
    BY <1>2, <2>1, <2>2, <2>3 DEF q
<1> QED
  BY <1>1, <1>2

(* The tasklet's step on one blinker. *)
LEMMA TaskletFacts ==
    ASSUME BaseInv, mp1_rtc_tasklet
    PROVE  /\ at \in Slots /\ Used(at)
           /\ pool'[at] = Pulse(pool[at])
           /\ \A s \in Slots : s # at => pool'[s] = pool[s]
           /\ Steady /\ PoolOK'
           /\ vmem' = IF pool[at].countdown - 1 > 0 THEN vmem
                      ELSE [vmem EXCEPT ![pool[at].location] =
                              IF pool[at].status = 1 THEN pool[at].off_char
                                                     ELSE pool[at].on_char]
<1>1. at \in Slots /\ Used(at)
  BY DEF BaseInv, ControlOK, mp1_rtc_tasklet
<1>2. BlinkOK(pool[at])
  BY <1>1 DEF BaseInv, PoolOK
<1>3. pool' = [pool EXCEPT ![at] = Pulse(pool[at])]
  <2>1. CASE pool[at].countdown - 1 > 0
    BY <2>1 DEF mp1_rtc_tasklet, Pulse
  <2>2. CASE ~(pool[at].countdown - 1 > 0)
    BY <2>2 DEF mp1_rtc_tasklet, Pulse
  <2> QED
    BY <2>1, <2>2
<1>4. /\ pool'[at] = Pulse(pool[at])
      /\ \A s \in Slots : s # at => pool'[s] = pool[s]
      /\ pool' = [s \in Slots |-> pool'[s]]
  BY <1>1, <1>3 DEF BaseInv, PoolOK
<1>5. Steady
  BY <1>2, <1>4, PulseFacts DEF Steady, mp1_rtc_tasklet
<1>6. vmem' = IF pool[at].countdown - 1 > 0 THEN vmem
              ELSE [vmem EXCEPT ![pool[at].location] =
                      IF pool[at].status = 1 THEN pool[at].off_char
                                             ELSE pool[at].on_char]
  BY DEF mp1_rtc_tasklet, Poke
<1>7. vmem' = [l \in Slots |-> vmem'[l]]
  BY <1>6 DEF BaseInv, PoolOK
<1>8. \A s \in Slots : BlinkOK(pool'[s])
  BY <1>2, <1>4, PulseFacts DEF BaseInv, PoolOK
<1>9. PoolOK'
  BY <1>4, <1>7, <1>8 DEF PoolOK
<1> QED
  BY <1>1, <1>4, <1>5, <1>6, <1>9

\* Blinker b gets the lengths and the state of blinker a.
Synced(a, b) ==
    /\ TopAt(a, OFFSET) /\ TopAt(b, EXTRA)
    /\ Steady /\ PoolOK'
    /\ \A s \in Slots : s # b => pool'[s] = pool[s]
    /\ pool'[b].on_length = pool[a].on_length
    /\ pool'[b].off_length = pool[a].off_length
    /\ pool'[b].countdown = pool[a].countdown
    /\ pool'[b].status = pool[a].status
    /\ vmem' = [vmem EXCEPT ![EXTRA] = pool[b].off_char]

LEMMA SyncFacts ==
    ASSUME ListInv, PoolOK, mp1_ioctl_sync(OFFSET, EXTRA)
    PROVE  \/ /\ UNCHANGED listVars
              /\ \/ \A s \in Slots : pool[s].location # OFFSET
                 \/ \A s \in Slots : pool[s].location # EXTRA
           \/ \E a, b \in Slots : Synced(a, b)
<1> DEFINE a == mp1_find_helper(OFFSET)
           b == mp1_find_helper(EXTRA)
<1>1. /\ \/ a = NULL /\ \A s \in Slots : pool[s].location # OFFSET
         \/ a \in Slots /\ TopAt(a, OFFSET)
      /\ \/ b = NULL /\ \A s \in Slots : pool[s].location # EXTRA
         \/ b \in Slots /\ TopAt(b, EXTRA)
  BY FindFacts, Sizes
<1>2. IF a = NULL \/ b = NULL THEN UNCHANGED listVars
      ELSE /\ pool' = [pool EXCEPT ![b].on_length = pool[a].on_length,
                                   ![b].off_length = pool[a].off_length,
                                   ![b].countdown = pool[a].countdown,
                                   ![b].status = pool[a].status]
           /\ vmem' = [vmem EXCEPT ![EXTRA] = pool[b].off_char]
           /\ UNCHANGED list_head
  BY DEF mp1_ioctl_sync, Poke
<1> HIDE DEF a, b
<1>3. CASE a = NULL \/ b = NULL
  BY <1>1, <1>2, <1>3, Sizes DEF NULL, Slots
<1>4. CASE ~(a = NULL \/ b = NULL)
  <2>1. a \in Slots /\ TopAt(a, OFFSET) /\ b \in Slots /\ TopAt(b, EXTRA)
    BY <1>1, <1>4
  <2>2. BlinkOK(pool[a]) /\ BlinkOK(pool[b])
    BY <2>1 DEF PoolOK
  <2>3. /\ pool' = [s \in Slots |-> pool'[s]]
        /\ \A s \in Slots : s # b => pool'[s] = pool[s]
    BY <1>2, <1>4, <2>1 DEF PoolOK
  <2>4. /\ IsBlink(pool'[b])
        /\ pool'[b].on_length = pool[a].on_length
        /\ pool'[b].off_length = pool[a].off_length
        /\ pool'[b].countdown = pool[a].countdown
        /\ pool'[b].status = pool[a].status
        /\ pool'[b].location = pool[b].location
        /\ pool'[b].next = pool[b].next
        /\ pool'[b].on_char = pool[b].on_char
        /\ pool'[b].off_char = pool[b].off_char
    <3> DEFINE p == pool[b]  q == pool'[b]
    <3>1. q = [p EXCEPT !.on_length = pool[a].on_length,
                        !.off_length = pool[a].off_length,
                        !.countdown = pool[a].countdown,
                        !.status = pool[a].status]
      BY <1>2, <1>4, <2>1 DEF PoolOK
    <3>2. IsBlink(p)
      BY <2>2 DEF BlinkOK
    <3> HIDE DEF p, q
    <3>3. /\ IsBlink(q)
          /\ q.on_length = pool[a].on_length
          /\ q.off_length = pool[a].off_length
          /\ q.countdown = pool[a].countdown
          /\ q.status = pool[a].status
          /\ q.location = p.location /\ q.next = p.next
          /\ q.on_char = p.on_char /\ q.off_char = p.off_char
      BY <3>1, <3>2 DEF IsBlink
    <3> QED
      BY <3>3 DEF p, q
  <2>5. BlinkOK(pool'[b])
    BY <2>2, <2>4 DEF BlinkOK
  <2>6. vmem' = [vmem EXCEPT ![EXTRA] = pool[b].off_char]
    BY <1>2, <1>4
  <2>7. vmem' = [l \in Slots |-> vmem'[l]]
    BY <2>6 DEF PoolOK
  <2>8. PoolOK'
    BY <2>3, <2>5, <2>7 DEF PoolOK
  <2>9. Steady
    BY <1>2, <1>4, <2>3, <2>4 DEF Steady
  <2> QED
    BY <2>1, <2>3, <2>4, <2>6, <2>8, <2>9 DEF Synced
<1> QED
  BY <1>3, <1>4

\* Blinker b leaves the list; the others only change their links.
Removed(b) ==
    /\ TopAt(b, EXTRA)
    /\ PoolOK' /\ UNCHANGED vmem
    /\ ~Used(b)'
    /\ \A s \in Slots : s # b =>
          /\ pool'[s].location = pool[s].location
          /\ pool'[s].on_char = pool[s].on_char
          /\ pool'[s].off_char = pool[s].off_char
          /\ pool'[s].on_length = pool[s].on_length
          /\ pool'[s].off_length = pool[s].off_length
          /\ pool'[s].countdown = pool[s].countdown
          /\ pool'[s].status = pool[s].status

LEMMA RemoveFacts ==
    ASSUME ListInv, PoolOK, phase = 3, phase' = 4, mp1_ioctl_remove(EXTRA)
    PROVE  \/ /\ UNCHANGED listVars
              /\ \A s \in Slots : pool[s].location # EXTRA
           \/ ListInv' /\ \E b \in Slots : Removed(b)
<1> USE Sizes
<1>0. PICK b : b = mp1_find_helper(EXTRA)
  OBVIOUS
<1> DEFINE U(s) == IF pool[s].next = b THEN [pool[s] EXCEPT !.next = pool[b].next]
                                       ELSE pool[s]
<1>1. \/ b = NULL /\ \A s \in Slots : pool[s].location # EXTRA
      \/ b \in Slots /\ TopAt(b, EXTRA)
  BY <1>0, FindFacts
<1>2. IF b = NULL THEN UNCHANGED listVars
      ELSE /\ pool' = [[s \in Slots |-> U(s)] EXCEPT ![b] = FreeBlink]
           /\ list_head' = IF list_head = b THEN pool[b].next ELSE list_head
           /\ UNCHANGED vmem
  BY <1>0 DEF mp1_ioctl_remove
<1>3. CASE b = NULL
  BY <1>1, <1>2, <1>3 DEF NULL, Slots
<1>4. CASE b # NULL
  <2>1. b \in Slots /\ TopAt(b, EXTRA)
    BY <1>1, <1>4
  <2>2. /\ pool' = [s \in Slots |-> pool'[s]]
        /\ pool'[b] = FreeBlink
        /\ \A s \in Slots : s # b => pool'[s] = U(s)
    BY <1>2, <1>4, <2>1
  <2>3. ASSUME NEW s \in Slots, s # b
        PROVE  /\ BlinkOK(pool'[s])
               /\ pool'[s].location = pool[s].location
               /\ pool'[s].on_char = pool[s].on_char
               /\ pool'[s].off_char = pool[s].off_char
               /\ pool'[s].on_length = pool[s].on_length
               /\ pool'[s].off_length = pool[s].off_length
               /\ pool'[s].countdown = pool[s].countdown
               /\ pool'[s].status = pool[s].status
               /\ pool'[s].next = IF pool[s].next = b THEN pool[b].next
                                                      ELSE pool[s].next
    <3> DEFINE p == pool[s]  q == pool'[s]
    <3>1. q = U(s)
      BY <2>2, <2>3
    <3>2. BlinkOK(p)
      BY DEF PoolOK
    <3>3. CASE p.next = b
      <4>1. q = [p EXCEPT !.next = pool[b].next]
        BY <3>1, <3>3
      <4> HIDE DEF p, q
      <4>2. /\ IsBlink(q) /\ q.location = p.location
            /\ q.on_char = p.on_char /\ q.off_char = p.off_char
            /\ q.on_length = p.on_length /\ q.off_length = p.off_length
            /\ q.countdown = p.countdown /\ q.status = p.status
            /\ q.next = pool[b].next
        BY <3>2, <4>1 DEF BlinkOK, IsBlink
      <4>3. BlinkOK(q)
        BY <3>2, <4>2 DEF BlinkOK
      <4> QED
        BY <3>3, <4>2, <4>3 DEF p, q
    <3>4. CASE p.next # b
      <4>1. q = p
        BY <3>1, <3>4
      <4> QED
        BY <3>2, <3>4, <4>1
    <3> QED
      BY <3>3, <3>4
  <2>4. ~Used(b)' /\ BlinkOK(pool'[b])
    BY <2>2, FreeBlinkOK DEF Used, FreeBlink
  <2>5. PoolOK'
    BY <1>2, <1>4, <2>2, <2>3, <2>4 DEF PoolOK
  <2>6. Removed(b)
    BY <1>2, <1>4, <2>1, <2>3, <2>4, <2>5 DEF Removed
  <2>7. PICK k \in 0..SIZE : Chained(k, SIZE)
    BY DEF ListInv
  <2>8. b < k /\ Used(b) /\ pool[b].next = Down(b, SIZE)
    BY <2>1, <2>7 DEF Chained, TopAt, Used
  <2>9. Chained(k, b)'
    <3>1. list_head' = Down(k, b)
      <4>1. list_head = Down(k, SIZE)
        BY <2>7 DEF Chained
      <4> QED
        BY <1>2, <1>4, <2>1, <2>8, <4>1 DEF Down, Slots, NULL
    <3>2. \A s \in Slots : Used(s)' <=> (s < k /\ s # b)
      <4>1. \A s \in Slots : s # b => (Used(s)' <=> Used(s))
        BY <2>3 DEF Used
      <4> QED
        BY <2>4, <2>7, <4>1 DEF Chained, Slots
    <3>3. ASSUME NEW s \in Slots, Used(s)'
          PROVE  pool'[s].next = Down(s, b)
      <4>1. s # b /\ Used(s) /\ s < k
        BY <2>3, <2>4, <3>2, <3>3 DEF Used
      <4>2. pool[s].next = Down(s, SIZE)
        BY <2>7, <4>1 DEF Chained
      <4>3. pool'[s].next = IF pool[s].next = b THEN pool[b].next
                                                ELSE pool[s].next
        BY <2>3, <4>1
      <4> QED
        BY <2>1, <2>8, <4>1, <4>2, <4>3 DEF Down, Slots, NULL
    <3> QED
      BY <3>1, <3>2, <3>3 DEF Chained
  <2>10. b \in 0..SIZE
    BY <2>1 DEF Slots
  <2>11. ListInv'
    BY <2>7, <2>8, <2>9, <2>10 DEF ListInv
  <2> QED
    BY <2>1, <2>6, <2>11
<1> QED
  BY <1>3, <1>4

LEMMA BaseInit == Init => BaseInv
<1> SUFFICES ASSUME Init PROVE BaseInv
  OBVIOUS
<1> USE Sizes
<1>1. PoolOK
  BY FreeBlinkOK DEF Init, PoolOK
<1>2. ControlOK
  BY DEF Init, ControlOK
<1>3. Chained(0, SIZE)
  <2>1. list_head = Down(0, SIZE)
    BY DEF Init, Down
  <2>2. \A s \in Slots : ~Used(s)
    BY DEF Init, Used, FreeBlink
  <2> QED
    BY <2>1, <2>2 DEF Chained, Slots
<1>4. ListInv
  BY <1>3 DEF ListInv
<1> QED
  BY <1>1, <1>2, <1>4 DEF BaseInv

LEMMA SameList ==
    ASSUME BaseInv, UNCHANGED listVars, phase' \in Int, phase' >= phase
    PROVE  ListInv' /\ PoolOK' /\ Steady
<1>1. Steady
  BY DEF listVars, Steady
<1>2. phase \in Int
  BY DEF BaseInv, ControlOK
<1> QED
  BY <1>1, <1>2, SteadyList DEF BaseInv, PoolOK, listVars

(* What AddPair adds. *)
FrameAdded ==
    \E l \in Nat : \E on, off, b :
        /\ l # 0 /\ b = Blink(l, on, off, FRAME_LENGTH, FRAME_LENGTH)
        /\ Added(b)

LEMMA AddPairFacts ==
    ASSUME NoneAtZero, TextInv, BaseInv, AddPair
    PROVE  UNCHANGED listVars \/ FrameAdded
<1>1. CASE ~ \E f \in Fds : Shown(f) # SPACE
  BY <1>1 DEF AddPair
<1>2. CASE \E f \in Fds : Shown(f) # SPACE
  <2> DEFINE l == Location(row, col)
  <2>1. l \in Nat /\ l # 0
    BY <1>2, PairLocation
  <2>2. PICK b : b = Blink(l, Shown(0), Shown(1), FRAME_LENGTH, FRAME_LENGTH)
    OBVIOUS
  <2>3. mp1_ioctl_add(b)
    BY <1>2, <2>2 DEF AddPair
  <2>4. phase <= 3
    BY DEF AddPair, BaseInv, ControlOK
  <2> HIDE DEF l
  <2>5. UNCHANGED listVars \/ Added(b)
    BY <2>1, <2>2, <2>3, <2>4, AddFacts, Lengths DEF BaseInv
  <2> QED
    BY <2>1, <2>2, <2>5 DEF FrameAdded
<1> QED
  BY <1>1, <1>2

LEMMA BaseNext ==
    NoneAtZero /\ TextInv /\ BaseInv /\ [Next]_vars => BaseInv'
<1> SUFFICES ASSUME NoneAtZero, TextInv, BaseInv, [Next]_vars PROVE BaseInv'
  OBVIOUS
<1> USE Sizes
<1>0. phase \in 1..5 /\ waited \in 0..WAIT
  BY DEF BaseInv, ControlOK
<1>1. CASE AddPair
  <2>1. phase' = phase /\ phase = 1
    BY <1>1 DEF AddPair, BaseInv, ControlOK
  <2>2. ListInv' /\ PoolOK'
    <3>1. CASE UNCHANGED listVars
      BY <2>1, <3>1, SameList
    <3>2. CASE FrameAdded
      BY <2>1, <3>2, AddKeeps, Lengths DEF BaseInv, FrameAdded
    <3> QED
      BY <1>1, <3>1, <3>2, AddPairFacts
  <2>3. ControlOK'
    BY <1>1 DEF AddPair, BaseInv, ControlOK
  <2> QED
    BY <2>2, <2>3 DEF BaseInv
<1>2. CASE EndRow
  <2>1. ListInv' /\ PoolOK'
    BY <1>0, <1>2, SameList DEF EndRow
  <2>2. ControlOK'
    BY <1>2 DEF EndRow, BaseInv, ControlOK
  <2> QED
    BY <2>1, <2>2 DEF BaseInv
<1>3. CASE RtcRead
  <2>1. ListInv' /\ PoolOK'
    BY <1>0, <1>3, SameList DEF RtcRead
  <2>2. list_head = NULL \/ (list_head \in Slots /\ Used(list_head))
    <3>1. PICK k \in 0..SIZE, h \in 0..SIZE :
            Chained(k, h) /\ (h < k \/ h = SIZE)
      BY DEF BaseInv, ListInv
    <3>2. Down(k, h) = NULL \/ (Down(k, h) \in Slots /\ Down(k, h) < k
                                 /\ Down(k, h) # h)
      BY <3>1 DEF Down, Slots, NULL
    <3> QED
      BY <3>1, <3>2 DEF Chained
  <2>3. ControlOK'
    BY <1>3, <2>2 DEF RtcRead, BaseInv, ControlOK, Used, fileVars, listVars
  <2> QED
    BY <2>1, <2>3 DEF BaseInv
<1>4. CASE mp1_rtc_tasklet
  <2>1. at \in Slots /\ Used(at) /\ Steady /\ PoolOK'
    BY <1>4, TaskletFacts
  <2>2. ListInv'
    BY <1>0, <1>4, <2>1, SteadyList DEF mp1_rtc_tasklet, BaseInv
  <2>3. pool[at].next = NULL
          \/ (pool[at].next \in Slots /\ Used(pool[at].next))
    <3>1. PICK k \in 0..SIZE, h \in 0..SIZE :
            Chained(k, h) /\ (h < k \/ h = SIZE)
      BY DEF BaseInv, ListInv
    <3>2. pool[at].next = Down(at, h) /\ at < k /\ at # h
      BY <2>1, <3>1 DEF Chained
    <3>3. Down(at, h) = NULL \/ (Down(at, h) \in Slots /\ Down(at, h) < k
                                   /\ Down(at, h) # h)
      BY <2>1, <3>2 DEF Down, Slots, NULL
    <3> QED
      BY <3>1, <3>2, <3>3 DEF Chained
  <2>4. at' = pool[at].next /\ UNCHANGED << row, col, pc, phase, waited >>
    BY <1>4 DEF mp1_rtc_tasklet, fileVars
  <2>5. at' = NULL \/ (at' \in Slots /\ Used(at)')
    BY <2>1, <2>3, <2>4 DEF Steady, Used
  <2>6. ControlOK'
    BY <2>4, <2>5 DEF BaseInv, ControlOK
  <2> QED
    BY <2>1, <2>2, <2>6 DEF BaseInv
<1>5. CASE TaskletEnd
  <2>1. ListInv' /\ PoolOK'
    BY <1>0, <1>5, SameList DEF TaskletEnd
  <2>2. ControlOK'
    BY <1>5 DEF TaskletEnd, BaseInv, ControlOK, fileVars
  <2> QED
    BY <2>1, <2>2 DEF BaseInv
<1>6. CASE NextPhase
  <2>1. phase' = phase + 1 /\ phase \in 1..4
    BY <1>6 DEF NextPhase
  <2>2. ControlOK'
    BY <1>6, <2>1 DEF NextPhase, BaseInv, ControlOK, fileVars
  <2>3. CASE phase = 1 /\ mp1_ioctl_add(Blink(EXTRA, "I", "M", ON_LENGTH,
                                             OFF_LENGTH))
    <3>1. PICK b : b = Blink(EXTRA, "I", "M", ON_LENGTH, OFF_LENGTH)
      OBVIOUS
    <3>2. UNCHANGED listVars \/ Added(b)
      BY <2>3, <3>1, AddFacts, Lengths DEF BaseInv
    <3>3. ListInv' /\ PoolOK'
      BY <2>1, <2>3, <3>1, <3>2, AddKeeps, SameList, Lengths DEF BaseInv
    <3> QED
      BY <2>2, <3>3 DEF BaseInv
  <2>4. CASE phase = 2 /\ mp1_ioctl_sync(OFFSET, EXTRA)
    <3>1. UNCHANGED listVars \/ (Steady /\ PoolOK')
      BY <2>4, SyncFacts DEF BaseInv, Synced
    <3>2. ListInv' /\ PoolOK'
      BY <2>1, <2>4, <3>1, SteadyList, SameList DEF BaseInv
    <3> QED
      BY <2>2, <3>2 DEF BaseInv
  <2>5. CASE phase = 3 /\ mp1_ioctl_remove(EXTRA)
    <3>1. UNCHANGED listVars \/ (ListInv' /\ PoolOK')
      BY <2>1, <2>5, RemoveFacts DEF BaseInv, Removed
    <3> QED
      BY <2>1, <2>2, <3>1, SameList DEF BaseInv
  <2>6. CASE phase = 4 /\ UNCHANGED listVars
    BY <2>1, <2>2, <2>6, SameList DEF BaseInv
  <2> QED
    BY <1>6, <2>3, <2>4, <2>5, <2>6 DEF NextPhase
<1>7. CASE UNCHANGED vars
  <2>1. ListInv' /\ PoolOK'
    BY <1>0, <1>7, SameList DEF vars
  <2>2. ControlOK'
    BY <1>7 DEF vars, fileVars, listVars, BaseInv, ControlOK, Used
  <2> QED
    BY <2>1, <2>2 DEF BaseInv
<1> QED
  BY <1>1, <1>2, <1>3, <1>4, <1>5, <1>6, <1>7 DEF Next, Done

(* The list of blinkers ends, holds the blinkers in use and no other, and  *)
(* none twice, for pools of any size and lines of any length, through the  *)
(* addition and the removal of a blinker at a place already taken, unless  *)
(* a character's location wraps to 0: locations of low rows may wrap to    *)
(* any other place.                                                        *)
THEOREM FishList == Spec => []ListMatchesPool
<1>1. (NoneAtZero => BaseInv) => ListMatchesPool
  BY ListMatches DEF BaseInv, ListMatchesPool
<1> QED
  BY <1>1, TextInit, TextNext, BaseInit, BaseNext, FilesKept, PTL DEF Spec

-----------------------------------------------------------------------------
(* Blinking.  In the middle of a tick the blinkers behind the tasklet's    *)
(* place have had theirs; what all of them will be after it moves only     *)
(* when the next tick comes.                                               *)

Ticked(s) == pc # "tasklet" \/ at = NULL \/ s > at
Due(s) == IF Ticked(s) THEN pool[s] ELSE Pulse(pool[s])

\* The tasklet goes down through the pool.
LEMMA TaskletTicks ==
    ASSUME BaseInv, mp1_rtc_tasklet, NEW s \in Slots, Used(s)
    PROVE  /\ ~Ticked(at)
           /\ Ticked(s)' <=> (Ticked(s) \/ s = at)
           /\ Due(s)' = Due(s)
<1> USE Sizes
<1>1. /\ pc = "tasklet" /\ pc' = "tasklet"
      /\ at \in Slots /\ Used(at) /\ at' = pool[at].next
  BY TaskletFacts DEF mp1_rtc_tasklet
<1>2. PICK k \in 0..SIZE, h \in 0..SIZE :
        Chained(k, h) /\ (h < k \/ h = SIZE)
  BY DEF BaseInv, ListInv
<1>3. at' = Down(at, h) /\ at # h /\ s # h
  BY <1>1, <1>2 DEF Chained
<1>4. ~Ticked(at)
  BY <1>1 DEF Ticked, Slots, NULL
<1>5. Ticked(s)' <=> (at' = NULL \/ s > at')
  BY <1>1 DEF Ticked
<1>6. Ticked(s)' <=> (Ticked(s) \/ s = at)
  BY <1>1, <1>3, <1>5 DEF Down, Ticked, Slots, NULL
<1>7. CASE s = at
  BY <1>4, <1>6, <1>7, TaskletFacts DEF Due
<1>8. CASE s # at
  <2>1. pool'[s] = pool[s]
    BY <1>8, TaskletFacts
  <2>2. CASE Ticked(s)
    BY <1>4, <1>6, <2>1, <2>2 DEF Due
  <2>3. CASE ~Ticked(s)
    BY <1>4, <1>6, <1>8, <2>1, <2>3 DEF Due
  <2> QED
    BY <2>2, <2>3
<1> QED
  BY <1>4, <1>6, <1>7, <1>8

LEMMA RtcReadTicks ==
    ASSUME BaseInv, RtcRead, NEW s \in Slots, Used(s)
    PROVE  /\ ~Ticked(s)'
           /\ pool' = pool /\ Due(s) = pool[s] /\ Due(s)' = Pulse(pool[s])
<1> USE Sizes
<1>1. pc = "wait" /\ pc' = "tasklet" /\ at' = list_head /\ pool' = pool
  BY DEF RtcRead, listVars
<1>2. PICK k \in 0..SIZE, h \in 0..SIZE :
        Chained(k, h) /\ (h < k \/ h = SIZE)
  BY DEF BaseInv, ListInv
<1>3. at' = Down(k, h) /\ s # h /\ s < k
  BY <1>1, <1>2 DEF Chained
<1>4. at' # NULL /\ ~(s > at')
  BY <1>3 DEF Down, Slots, NULL
<1>5. ~Ticked(s)' /\ Ticked(s)
  BY <1>1, <1>4 DEF Ticked
<1> QED
  BY <1>1, <1>5 DEF Due

LEMMA DueOK ==
    ASSUME BaseInv, NEW s \in Slots
    PROVE  /\ BlinkOK(pool[s]) /\ BlinkOK(Due(s))
           /\ Due(s).on_length = pool[s].on_length
           /\ Due(s).off_length = pool[s].off_length
  BY PulseFacts DEF Due, BaseInv, PoolOK

\* The lists of steps other than these two are as they were, and nothing
\* is under way before or after them.
LEMMA TaskletEndTicks ==
    ASSUME TaskletEnd, NEW s
    PROVE  /\ Ticked(s) /\ Ticked(s)'
           /\ pool' = pool /\ vmem' = vmem /\ Due(s)' = Due(s)
  BY DEF TaskletEnd, Ticked, Due, listVars

LEMMA SteadyTop ==
    ASSUME Steady, NEW s \in Slots, NEW l
    PROVE  /\ TopAt(s, l)' <=> TopAt(s, l)
           /\ Used(s)' <=> Used(s)
  BY DEF Steady, TopAt, Used

LEMMA OneTop ==
    ASSUME NEW s \in Slots, NEW r \in Slots, NEW l, TopAt(s, l), TopAt(r, l)
    PROVE  s = r
  BY Sizes DEF TopAt, Slots

-----------------------------------------------------------------------------
(* Synced blinkers. *)

SyncInv == phase = 3 => \A i, j \in Slots :
    TopAt(i, OFFSET) /\ TopAt(j, EXTRA) =>
        /\ pool[i].on_length = pool[j].on_length
        /\ pool[i].off_length = pool[j].off_length
        /\ Due(i).countdown = Due(j).countdown
        /\ Due(i).status = Due(j).status

LEMMA SyncNext == BaseInv /\ SyncInv /\ [Next]_vars => SyncInv'
<1> SUFFICES ASSUME BaseInv, SyncInv, [Next]_vars, phase' = 3,
                    NEW i \in Slots, NEW j \in Slots,
                    TopAt(i, OFFSET)', TopAt(j, EXTRA)'
             PROVE  /\ pool'[i].on_length = pool'[j].on_length
                    /\ pool'[i].off_length = pool'[j].off_length
                    /\ Due(i)'.countdown = Due(j)'.countdown
                    /\ Due(i)'.status = Due(j)'.status
  BY DEF SyncInv
<1> USE Sizes
<1>0. ASSUME Steady, phase = 3
      PROVE  /\ pool[i].on_length = pool[j].on_length
             /\ pool[i].off_length = pool[j].off_length
             /\ Due(i).countdown = Due(j).countdown
             /\ Due(i).status = Due(j).status
             /\ Used(i) /\ Used(j)
  <2>1. TopAt(i, OFFSET) /\ TopAt(j, EXTRA)
    BY <1>0, SteadyTop
  <2>2. Used(i) /\ Used(j)
    BY <2>1 DEF Used, TopAt
  <2> QED
    BY <1>0, <2>1, <2>2 DEF SyncInv
<1>1. CASE AddPair \/ EndRow
  BY <1>1 DEF AddPair, EndRow, BaseInv, ControlOK
<1>2. CASE RtcRead
  <2>1. Steady /\ phase = 3
    BY <1>2 DEF RtcRead, listVars, Steady
  <2>2. /\ Due(i) = pool[i] /\ Due(i)' = Pulse(pool[i]) /\ pool' = pool
        /\ Due(j) = pool[j] /\ Due(j)' = Pulse(pool[j])
    BY <1>0, <1>2, <2>1, RtcReadTicks
  <2>3. BlinkOK(pool[i]) /\ BlinkOK(pool[j])
    BY DueOK
  <2>4. /\ Pulse(pool[i]).countdown = Pulse(pool[j]).countdown
        /\ Pulse(pool[i]).status = Pulse(pool[j]).status
    BY <1>0, <2>1, <2>2, <2>3, PulseFacts
  <2> QED
    BY <1>0, <2>1, <2>2, <2>4
<1>3. CASE mp1_rtc_tasklet
  <2>1. Steady /\ phase = 3
    BY <1>3, TaskletFacts DEF mp1_rtc_tasklet
  <2>2. Due(i)' = Due(i) /\ Due(j)' = Due(j)
    BY <1>0, <1>3, <2>1, TaskletTicks
  <2>3. ASSUME NEW s \in Slots
        PROVE  /\ pool'[s].on_length = pool[s].on_length
               /\ pool'[s].off_length = pool[s].off_length
    BY <1>3, TaskletFacts, DueOK, PulseFacts
  <2> QED
    BY <1>0, <2>1, <2>2, <2>3
<1>4. CASE TaskletEnd
  <2>1. Steady /\ phase = 3
    BY <1>4 DEF TaskletEnd, listVars, Steady
  <2> QED
    BY <1>0, <1>4, <2>1, TaskletEndTicks
<1>5. CASE NextPhase
  <2>1. phase = 2 /\ mp1_ioctl_sync(OFFSET, EXTRA) /\ pc' = "wait"
    BY <1>5 DEF NextPhase, BaseInv, ControlOK
  <2>2. Due(i)' = pool'[i] /\ Due(j)' = pool'[j]
    BY <2>1 DEF Due, Ticked
  <2>3. CASE \/ \A s \in Slots : pool'[s].location # OFFSET
             \/ \A s \in Slots : pool'[s].location # EXTRA
    BY <2>3 DEF TopAt
  <2>4. CASE \E m, n \in Slots : Synced(m, n)
    <3>1. PICK m \in Slots, n \in Slots : Synced(m, n)
      BY <2>4
    <3>2. i = m /\ j = n
      BY <3>1, SteadyTop, OneTop DEF Synced
    <3> QED
      BY <2>2, <3>1, <3>2 DEF Synced
  <2> QED
    BY <2>1, <2>3, <2>4, SyncFacts DEF BaseInv, listVars
<1>6. CASE UNCHANGED vars
  <2>1. Steady /\ phase = 3
    BY <1>6 DEF vars, listVars, Steady
  <2>2. UNCHANGED << pool, pc, at >>
    BY <1>6 DEF vars, listVars
  <2> QED
    BY <1>0, <2>1, <2>2 DEF Due, Ticked
<1> QED
  BY <1>1, <1>2, <1>3, <1>4, <1>5, <1>6 DEF Next, Done

(* The blinker synced to the first character stays in step with it at      *)
(* every tick from then on, for all lengths, wherever the two are in the   *)
(* list and whatever shares their places, if no location wraps to 0.       *)
THEOREM FishLockstep == Spec => []Lockstep
<1>1. Init => SyncInv
  BY DEF Init, SyncInv
<1>2. (NoneAtZero => BaseInv /\ SyncInv) => Lockstep
  <2> SUFFICES ASSUME BaseInv, SyncInv, phase = 3, pc = "wait",
                      mp1_find_helper(OFFSET) # NULL,
                      mp1_find_helper(EXTRA) # NULL
               PROVE  LET a == mp1_find_helper(OFFSET)
                          b == mp1_find_helper(EXTRA)
                      IN  << pool[a].countdown, pool[a].status >>
                            = << pool[b].countdown, pool[b].status >>
    BY DEF Lockstep
  <2>1. PICK a, b : a = mp1_find_helper(OFFSET) /\ b = mp1_find_helper(EXTRA)
    OBVIOUS
  <2>2. /\ a \in Slots /\ TopAt(a, OFFSET)
        /\ b \in Slots /\ TopAt(b, EXTRA)
    BY <2>1, FindFacts, Sizes DEF BaseInv
  <2>3. Due(a) = pool[a] /\ Due(b) = pool[b]
    BY DEF Due, Ticked
  <2>4. /\ pool[a].countdown = pool[b].countdown
        /\ pool[a].status = pool[b].status
    BY <2>2, <2>3 DEF SyncInv
  <2> QED
    BY <2>1, <2>4
<1> QED
  BY <1>1, <1>2, TextInit, TextNext, BaseInit, BaseNext, SyncNext, FilesKept,
     PTL DEF Spec

-----------------------------------------------------------------------------
(* What the screen shows.  The blinkers of the frames all have the same    *)
(* length, and blink at the same ticks; the ticks so far tell when.        *)

Total == (phase - 1) * WAIT + waited

Whole(n) == \E q \in Nat : n = q * FRAME_LENGTH

LEMMA WholeMore ==
    ASSUME NEW n \in Nat, Whole(n)
    PROVE  Whole(n + FRAME_LENGTH)
<1>1. PICK q \in Nat : n = q * FRAME_LENGTH
  BY DEF Whole
<1>2. n + FRAME_LENGTH = (q + 1) * FRAME_LENGTH
  BY <1>1, Lengths
<1> QED
  BY <1>2 DEF Whole

LEMMA WholeRest ==
    ASSUME NEW n \in Nat, NEW d \in 1..FRAME_LENGTH, Whole(n), Whole(n + d)
    PROVE  d = FRAME_LENGTH
<1>1. PICK q \in Nat : n = q * FRAME_LENGTH
  BY DEF Whole
<1>2. PICK r \in Nat : n + d = r * FRAME_LENGTH
  BY DEF Whole
<1>3. d = (r - q) * FRAME_LENGTH
  BY <1>1, <1>2, Lengths
<1>4. CASE r - q <= 0
  <2>1. (r - q) * FRAME_LENGTH <= 0
    BY <1>4, Lengths
  <2> QED
    BY <1>3, <2>1, Lengths
<1>5. CASE r - q = 1
  BY <1>3, <1>5, Lengths
<1>6. CASE r - q >= 2
  <2>1. (r - q) * FRAME_LENGTH >= 2 * FRAME_LENGTH
    BY <1>6, Lengths
  <2> QED
    BY <1>3, <2>1, Lengths
<1> QED
  BY <1>4, <1>5, <1>6

LEMMA TotalNat ==
    ASSUME BaseInv
    PROVE  Total \in Nat
<1>1. phase - 1 \in Nat /\ waited \in Nat
  BY DEF BaseInv, ControlOK
<1>2. (phase - 1) * WAIT \in Nat
  BY <1>1, Sizes
<1> QED
  BY <1>1, <1>2 DEF Total

LEMMA TotalKept ==
    ASSUME BaseInv, NextPhase
    PROVE  Total' = Total
<1>1. phase \in 1..4 /\ phase' = phase + 1 /\ waited = WAIT /\ waited' = 0
  BY DEF NextPhase
<1> QED
  BY <1>1, Sizes DEF Total

Frame(s) ==
    /\ pool[s].on_length = FRAME_LENGTH /\ pool[s].off_length = FRAME_LENGTH
    /\ pool[s].countdown \in 1..FRAME_LENGTH
    /\ Due(s).countdown \in 1..FRAME_LENGTH
    /\ Whole(Total + Due(s).countdown)

\* All blinkers are frames' blinkers, but for the one that was added.
FrameInv == \A s \in Slots :
    Used(s) => Frame(s) \/ (phase \in {2, 3} /\ TopAt(s, EXTRA))

LEMMA FrameNext ==
    NoneAtZero /\ TextInv /\ BaseInv /\ FrameInv /\ [Next]_vars => FrameInv'
<1> SUFFICES ASSUME NoneAtZero, TextInv, BaseInv, FrameInv, [Next]_vars,
                    NEW s \in Slots, Used(s)',
                    ~(phase' \in {2, 3} /\ TopAt(s, EXTRA)')
             PROVE  Frame(s)'
  BY DEF FrameInv
<1> USE Sizes, Lengths
<1>1. Total \in Nat
  BY TotalNat
<1>2. ASSUME Steady, phase' = phase PROVE Used(s) /\ Frame(s)
  BY <1>2, SteadyTop DEF FrameInv
<1>3. ASSUME Frame(s), pool'[s].on_length = pool[s].on_length,
             pool'[s].off_length = pool[s].off_length,
             pool'[s].countdown = pool[s].countdown,
             Due(s)'.countdown = Due(s).countdown, Total' = Total
      PROVE  Frame(s)'
  BY <1>3 DEF Frame, Whole
<1>4. CASE AddPair
  <2>1. /\ pc = "frames" /\ pc' = "frames" /\ phase = 1 /\ waited = 0
        /\ phase' = 1 /\ waited' = 0
    BY <1>4 DEF AddPair, BaseInv, ControlOK
  <2>2. Total' = Total /\ Total = 0
    BY <2>1 DEF Total
  <2>3. \A r \in Slots : Due(r) = pool[r] /\ Due(r)' = pool'[r]
    BY <2>1 DEF Due, Ticked
  <2>4. CASE UNCHANGED listVars
    <3>1. Steady /\ pool' = pool
      BY <2>4 DEF listVars, Steady
    <3> QED
      BY <1>2, <1>3, <2>1, <2>2, <2>3, <3>1
  <2>5. CASE FrameAdded
    <3>0. PICK l \in Nat : \E on, off, b :
                 /\ b = Blink(l, on, off, FRAME_LENGTH, FRAME_LENGTH)
                 /\ Added(b)
      BY <2>5 DEF FrameAdded
    <3>1. PICK on, off, b :
                 /\ b = Blink(l, on, off, FRAME_LENGTH, FRAME_LENGTH)
                 /\ Added(b)
      BY <3>0
    <3>2. PICK r \in Slots :
            pool' = [pool EXCEPT ![r] = NewBlink(b, list_head)]
      BY <3>1 DEF Added
    <3>3. b.on_length = FRAME_LENGTH /\ b.off_length = FRAME_LENGTH
      BY <3>1, BlinkFields
    <3>4. CASE s = r
      <4>1. pool'[s] = NewBlink(b, list_head)
        BY <3>2, <3>4 DEF BaseInv, PoolOK
      <4>2. /\ pool'[s].on_length = FRAME_LENGTH
            /\ pool'[s].off_length = FRAME_LENGTH
            /\ pool'[s].countdown = FRAME_LENGTH
        BY <3>3, <4>1 DEF NewBlink
      <4>3. Whole(FRAME_LENGTH)
        <5>1. FRAME_LENGTH = 1 * FRAME_LENGTH
          OBVIOUS
        <5> QED
          BY <5>1 DEF Whole
      <4>4. Due(s)'.countdown = FRAME_LENGTH /\ Total' + FRAME_LENGTH = FRAME_LENGTH
        BY <2>2, <2>3, <4>2
      <4> QED
        BY <4>2, <4>3, <4>4 DEF Frame
    <3>5. CASE s # r
      <4>1. pool'[s] = pool[s]
        BY <3>2, <3>5 DEF BaseInv, PoolOK
      <4>2. Used(s)
        BY <4>1 DEF Used
      <4> QED
        BY <1>3, <2>1, <2>2, <2>3, <4>1, <4>2 DEF FrameInv
    <3> QED
      BY <3>4, <3>5
  <2> QED
    BY <1>4, <2>4, <2>5, AddPairFacts
<1>5. CASE EndRow
  <2>1. Steady /\ phase' = phase /\ pool' = pool /\ Total' = Total
    BY <1>5 DEF EndRow, listVars, Steady, Total
  <2>2. Due(s)' = Due(s)
    BY <1>5, <2>1 DEF EndRow, Due, Ticked
  <2> QED
    BY <1>2, <1>3, <2>1, <2>2
<1>6. CASE RtcRead
  <2>1. Steady /\ phase' = phase /\ waited' = waited + 1
    BY <1>6 DEF RtcRead, listVars, Steady
  <2>2. Used(s) /\ Frame(s)
    BY <1>2, <2>1
  <2>3. pool' = pool /\ Due(s) = pool[s] /\ Due(s)' = Pulse(pool[s])
    BY <1>6, <2>2, RtcReadTicks
  <2>4. Total' = Total + 1
    <3>1. phase - 1 \in Nat /\ waited \in Nat
      BY DEF BaseInv, ControlOK
    <3>2. (phase - 1) * WAIT \in Nat
      BY <3>1
    <3> QED
      BY <2>1, <3>1, <3>2 DEF Total
  <2>5. BlinkOK(pool[s])
    BY DueOK
  <2> DEFINE cd == pool[s].countdown
  <2>6. cd \in 1..FRAME_LENGTH /\ Whole(Total + cd)
    BY <2>2, <2>3 DEF Frame
  <2>7. CASE cd - 1 > 0
    <3>1. Due(s)'.countdown = cd - 1
      BY <2>3, <2>5, <2>7, PulseFacts
    <3>2. Total' + (cd - 1) = Total + cd
      BY <1>1, <2>4, <2>6
    <3> QED
      BY <2>2, <2>3, <2>6, <2>7, <3>1, <3>2 DEF Frame, Whole
  <2>8. CASE ~(cd - 1 > 0)
    <3>1. Due(s)'.countdown = FRAME_LENGTH
      BY <2>2, <2>3, <2>5, <2>8, PulseFacts DEF Frame
    <3>2. Total' + FRAME_LENGTH = (Total + cd) + FRAME_LENGTH
      BY <1>1, <2>4, <2>6, <2>8
    <3>3. Whole((Total + cd) + FRAME_LENGTH)
      BY <1>1, <2>6, WholeMore
    <3> QED
      BY <2>2, <2>3, <2>6, <3>1, <3>2, <3>3 DEF Frame, Whole
  <2> QED
    BY <2>7, <2>8
<1>7. CASE mp1_rtc_tasklet
  <2>1. Steady /\ phase' = phase /\ Total' = Total
    BY <1>7, TaskletFacts DEF mp1_rtc_tasklet, Total
  <2>2. Used(s) /\ Frame(s)
    BY <1>2, <2>1
  <2>3. Due(s)' = Due(s)
    BY <1>7, <2>2, TaskletTicks
  <2>4. CASE s = at
    <3>1. pool'[s] = Due(s) /\ BlinkOK(pool[s])
      BY <1>7, <2>2, <2>4, TaskletFacts, TaskletTicks, DueOK DEF Due
    <3>2. /\ pool'[s].on_length = FRAME_LENGTH
          /\ pool'[s].off_length = FRAME_LENGTH
      BY <2>2, <3>1, DueOK DEF Frame
    <3> QED
      BY <2>1, <2>2, <2>3, <3>1, <3>2 DEF Frame, Whole
  <2>5. CASE s # at
    <3>1. pool'[s] = pool[s]
      BY <1>7, <2>5, TaskletFacts
    <3> QED
      BY <1>3, <2>1, <2>2, <2>3, <3>1
  <2> QED
    BY <2>4, <2>5
<1>8. CASE TaskletEnd
  <2>1. Steady /\ phase' = phase /\ Total' = Total /\ pool' = pool
    BY <1>8 DEF TaskletEnd, listVars, Steady, Total
  <2> QED
    BY <1>2, <1>3, <1>8, <2>1, TaskletEndTicks
<1>9. CASE NextPhase
  <2>1. /\ Total' = Total /\ phase' = phase + 1 /\ phase \in 1..4
    BY <1>9, TotalKept DEF NextPhase
  <2>2. \A r \in Slots : Due(r) = pool[r] /\ Due(r)' = pool'[r]
    BY <1>9 DEF NextPhase, Due, Ticked
  <2>3. CASE phase = 1 /\ mp1_ioctl_add(Blink(EXTRA, "I", "M", ON_LENGTH,
                                             OFF_LENGTH))
    <3>1. PICK b : b = Blink(EXTRA, "I", "M", ON_LENGTH, OFF_LENGTH)
      OBVIOUS
    <3>2. UNCHANGED listVars \/ Added(b)
      <4>1. mp1_ioctl_add(b) /\ phase <= 3 /\ ListInv
        BY <2>3, <3>1 DEF BaseInv
      <4> QED
        BY <3>1, <4>1, AddFacts, Sizes, Lengths
    <3>3. pool'[s] = pool[s]
      <4>1. CASE UNCHANGED listVars
        BY <4>1 DEF listVars
      <4>2. CASE Added(b)
        <5>1. PICK r \in Slots :
                /\ \A x \in Slots : Used(x) <=> x < r
                /\ pool' = [pool EXCEPT ![r] = NewBlink(b, list_head)]
          BY <4>2 DEF Added
        <5>2. b.location = EXTRA
          BY <3>1, BlinkFields
        <5>3. /\ pool'[r] = NewBlink(b, list_head)
              /\ \A x \in Slots : x # r => pool'[x] = pool[x]
          BY <5>1 DEF BaseInv, PoolOK
        <5>4. pool'[r].location = EXTRA
          BY <5>2, <5>3 DEF NewBlink
        <5>5. ASSUME NEW x \in Slots, x > r PROVE pool'[x].location # EXTRA
          <6>1. ~Used(x) /\ pool'[x] = pool[x]
            BY <5>1, <5>3, <5>5 DEF Slots
          <6> QED
            BY <6>1 DEF Used
        <5>6. TopAt(r, EXTRA)'
          BY <5>4, <5>5 DEF TopAt
        <5>7. s # r
          BY <2>1, <2>3, <5>6
        <5> QED
          BY <5>3, <5>7
      <4> QED
        BY <3>2, <4>1, <4>2
    <3>4. Used(s) /\ Frame(s)
      BY <2>3, <3>3 DEF FrameInv, Used
    <3> QED
      BY <1>3, <2>1, <2>2, <3>3, <3>4
  <2>4. CASE phase = 2 /\ mp1_ioctl_sync(OFFSET, EXTRA)
    <3>1. Steady /\ pool'[s] = pool[s]
      <4>1. CASE UNCHANGED listVars
        BY <4>1 DEF listVars, Steady
      <4>2. CASE \E m, n \in Slots : Synced(m, n)
        <5>1. PICK m \in Slots, n \in Slots : Synced(m, n)
          BY <4>2
        <5>2. TopAt(n, EXTRA)'
          BY <5>1, SteadyTop DEF Synced
        <5>3. s # n
          BY <2>1, <2>4, <5>2
        <5> QED
          BY <5>1, <5>3 DEF Synced
      <4> QED
        BY <2>4, <4>1, <4>2, SyncFacts DEF BaseInv
    <3>2. Used(s) /\ Frame(s)
      BY <2>1, <2>4, <3>1, SteadyTop DEF FrameInv
    <3> QED
      BY <1>3, <2>1, <2>2, <3>1, <3>2
  <2>5. CASE phase = 3 /\ mp1_ioctl_remove(EXTRA)
    <3>1. CASE /\ UNCHANGED listVars
               /\ \A r \in Slots : pool[r].location # EXTRA
      <4>1. Used(s) /\ ~TopAt(s, EXTRA) /\ pool' = pool
        BY <3>1 DEF listVars, Used, TopAt
      <4> QED
        BY <1>3, <2>1, <2>2, <4>1 DEF FrameInv
    <3>2. CASE \E n \in Slots : Removed(n)
      <4>1. PICK n \in Slots : Removed(n)
        BY <3>2
      <4>2. s # n /\ Used(s)
        BY <4>1 DEF Removed, Used
      <4>3. ~TopAt(s, EXTRA)
        BY <4>1, <4>2, OneTop DEF Removed
      <4>4. /\ pool'[s].on_length = pool[s].on_length
            /\ pool'[s].off_length = pool[s].off_length
            /\ pool'[s].countdown = pool[s].countdown
        BY <4>1, <4>2 DEF Removed
      <4> QED
        BY <1>3, <2>1, <2>2, <4>2, <4>3, <4>4 DEF FrameInv
    <3> QED
      BY <2>1, <2>5, <3>1, <3>2, RemoveFacts DEF BaseInv
  <2>6. CASE phase = 4 /\ UNCHANGED listVars
    <3>1. Used(s) /\ Frame(s) /\ pool' = pool
      BY <2>6 DEF listVars, FrameInv, Used
    <3> QED
      BY <1>3, <2>1, <2>2, <3>1
  <2> QED
    BY <1>9, <2>3, <2>4, <2>5, <2>6 DEF NextPhase
<1>10. CASE UNCHANGED vars
  <2>1. Steady /\ phase' = phase /\ Total' = Total /\ pool' = pool
    BY <1>10 DEF vars, listVars, Steady, Total
  <2>2. Due(s)' = Due(s)
    BY <1>10, <2>1 DEF vars, Due, Ticked
  <2> QED
    BY <1>2, <1>3, <2>1, <2>2
<1> QED
  BY <1>4, <1>5, <1>6, <1>7, <1>8, <1>9, <1>10 DEF Next, Done

Shows(s) ==
    vmem[pool[s].location] = IF pool[s].status = 1 THEN pool[s].on_char
                                                   ELSE pool[s].off_char
Shares(s) == \E r \in Slots \ {s} : pool[r].location = pool[s].location

ShowInv == \A s \in Slots : Used(s) =>
    \/ Shares(s)
    \/ phase = 3 /\ pool[s].location = EXTRA
    \/ Shows(s)

(* Of the frames' blinkers at one place the tasklet comes last to the      *)
(* lowest, so after a tick at which they blink that one is shown, even in  *)
(* the place that it shares with the blinker added later.                  *)
FreshInv == phase <= 3 /\ waited > 0 => \A s \in Slots :
    (/\ Used(s) /\ Ticked(s) /\ ~TopAt(s, EXTRA)
     /\ \A r \in Slots : r < s => pool[r].location # pool[s].location
     /\ pool[s].countdown = FRAME_LENGTH)
        => Shows(s)

LEMMA SteadyShares ==
    ASSUME Steady, NEW s \in Slots
    PROVE  Shares(s)' <=> Shares(s)
  BY DEF Steady, Shares

LEMMA FreshNext ==
    BaseInv /\ FrameInv /\ FreshInv /\ [Next]_vars => FreshInv'
<1> SUFFICES ASSUME BaseInv, FrameInv, FreshInv, [Next]_vars,
                    phase' <= 3, waited' > 0, NEW s \in Slots,
                    Used(s)', Ticked(s)', ~TopAt(s, EXTRA)',
                    \A r \in Slots : r < s => pool'[r].location
                                                # pool'[s].location,
                    pool'[s].countdown = FRAME_LENGTH
             PROVE  Shows(s)'
  BY DEF FreshInv
<1> USE Sizes, Lengths
<1>1. ASSUME Steady PROVE /\ Used(s) /\ ~TopAt(s, EXTRA)
                          /\ \A r \in Slots : r < s => pool[r].location
                                                        # pool[s].location
  BY <1>1, SteadyTop DEF Steady
<1>2. CASE AddPair \/ EndRow \/ NextPhase
  BY <1>2 DEF AddPair, EndRow, NextPhase, BaseInv, ControlOK
<1>3. CASE RtcRead
  <2>1. Steady
    BY <1>3 DEF RtcRead, listVars, Steady
  <2> QED
    BY <1>1, <1>3, <2>1, RtcReadTicks
<1>4. CASE mp1_rtc_tasklet
  <2>1. /\ Steady /\ phase' = phase /\ waited' = waited /\ pc = "tasklet"
        /\ at \in Slots /\ at # NULL
    BY <1>4, TaskletFacts DEF mp1_rtc_tasklet
  <2>2. /\ Used(s) /\ ~TopAt(s, EXTRA)
        /\ \A r \in Slots : r < s => pool[r].location # pool[s].location
    BY <1>1, <2>1
  <2>3. Ticked(s) \/ s = at
    BY <1>4, <2>2, TaskletTicks
  <2>4. Frame(s) /\ BlinkOK(pool[s])
    BY <2>2, DueOK DEF FrameInv
  <2>5. pool'[s].location = pool[s].location /\ pool[s].location \in Slots
    BY <2>1, <2>4 DEF Steady, BlinkOK
  <2>6. CASE s = at
    <3>1. pool'[s] = Pulse(pool[s])
      BY <1>4, <2>6, TaskletFacts
    <3>2. ~(pool[s].countdown - 1 > 0)
      BY <2>4, <3>1, PulseFacts DEF Frame, BlinkOK
    <3>3. vmem'[pool[s].location] = IF pool[s].status = 1
                                    THEN pool[s].off_char ELSE pool[s].on_char
      BY <1>4, <2>5, <2>6, <3>2, TaskletFacts DEF BaseInv, PoolOK
    <3>4. /\ pool'[s].status = 1 - pool[s].status
          /\ pool'[s].on_char = pool[s].on_char
          /\ pool'[s].off_char = pool[s].off_char
      BY <2>4, <3>1, <3>2, PulseFacts
    <3>5. pool[s].status \in {0, 1}
      BY <2>4 DEF BlinkOK
    <3> QED
      BY <2>5, <3>3, <3>4, <3>5 DEF Shows
  <2>7. CASE s # at
    <3>1. pool'[s] = pool[s] /\ Ticked(s)
      BY <1>4, <2>3, <2>7, TaskletFacts
    <3>2. s > at
      BY <2>1, <3>1 DEF Ticked
    <3>3. pool[at].location # pool[s].location
      BY <2>1, <2>2, <3>2 DEF Slots
    <3>4. vmem'[pool[s].location] = vmem[pool[s].location]
      BY <1>4, <2>5, <3>3, TaskletFacts DEF BaseInv, PoolOK
    <3>5. Shows(s)
      BY <2>1, <2>2, <3>1 DEF FreshInv
    <3> QED
      BY <3>1, <3>4, <3>5 DEF Shows
  <2> QED
    BY <2>6, <2>7
<1>5. CASE TaskletEnd
  <2>1. /\ Steady /\ phase' = phase /\ waited' = waited
        /\ pool' = pool /\ vmem' = vmem
    BY <1>5 DEF TaskletEnd, listVars, Steady
  <2> QED
    BY <1>1, <1>5, <2>1, TaskletEndTicks DEF FreshInv, Shows
<1>6. CASE UNCHANGED vars
  <2>1. /\ Steady /\ phase' = phase /\ waited' = waited
        /\ pool' = pool /\ vmem' = vmem
    BY <1>6 DEF vars, listVars, Steady
  <2>2. Ticked(s)
    BY <1>6 DEF vars, Ticked
  <2> QED
    BY <1>1, <2>1, <2>2 DEF FreshInv, Shows
<1> QED
  BY <1>2, <1>3, <1>4, <1>5, <1>6 DEF Next, Done

\* When the place of the blinker added later becomes free, the blinker left
\* there has just blinked.
LEMMA LeftShows ==
    ASSUME BaseInv, FrameInv, FreshInv, phase = 3, pc = "wait",
           waited = WAIT, Whole(3 * WAIT),
           NEW b \in Slots, TopAt(b, EXTRA), NEW s \in Slots, s # b,
           pool[s].location = EXTRA,
           \A r \in Slots : r # s /\ r # b => pool[r].location # EXTRA
    PROVE  Shows(s)
<1> USE Sizes, Lengths
<1>1. Used(s) /\ ~TopAt(s, EXTRA) /\ Ticked(s)
  BY OneTop DEF Used, Ticked
<1>2. s < b
  BY DEF TopAt, Slots
<1>3. \A r \in Slots : r < s => pool[r].location # pool[s].location
  BY <1>2 DEF Slots
<1>4. Frame(s)
  BY <1>1 DEF FrameInv
<1>5. Total = 3 * WAIT
  BY DEF Total
<1>6. pool[s].countdown \in 1..FRAME_LENGTH
      /\ Whole(3 * WAIT + pool[s].countdown)
  BY <1>1, <1>4, <1>5 DEF Frame, Due
<1>7. pool[s].countdown = FRAME_LENGTH
  <2>1. 3 * WAIT \in Nat
    OBVIOUS
  <2> QED
    BY <1>6, <2>1, WholeRest
<1> QED
  BY <1>1, <1>3, <1>7 DEF FreshInv

(* A new blinker is shown on, and the ones in its place now share it. *)
LEMMA AddShows ==
    ASSUME BaseInv, ShowInv, phase # 3,
           NEW l \in Nat, l # 0, NEW on, NEW off,
           NEW m \in Nat, NEW n \in Nat, NEW b, b = Blink(l, on, off, m, n),
           Added(b), NEW s \in Slots, Used(s)'
    PROVE  Shares(s)' \/ Shows(s)'
<1> USE Sizes
<1>1. PICK r \in Slots :
        /\ ~Used(r) /\ b.location < SIZE
        /\ pool' = [pool EXCEPT ![r] = NewBlink(b, list_head)]
        /\ vmem' = [vmem EXCEPT ![b.location] = b.on_char]
  BY DEF Added
<1>2. /\ pool'[r] = NewBlink(b, list_head)
      /\ \A x \in Slots : x # r => pool'[x] = pool[x]
  BY <1>1 DEF BaseInv, PoolOK
<1>3. b.location = l /\ l \in Slots
  <2>1. b.location = l
    BY BlinkFields
  <2> QED
    BY <1>1, <2>1 DEF Slots
<1>4. /\ pool'[r].location = l /\ pool'[r].on_char = b.on_char
      /\ pool'[r].status = 1
  BY <1>2, <1>3 DEF NewBlink
<1>5. /\ vmem'[l] = b.on_char
      /\ \A x \in Slots : x # l => vmem'[x] = vmem[x]
  BY <1>1, <1>3 DEF BaseInv, PoolOK
<1>6. CASE s = r
  BY <1>4, <1>5, <1>6 DEF Shows
<1>7. CASE s # r /\ pool[s].location = l
  <2>1. pool'[s].location = l
    BY <1>2, <1>7
  <2> QED
    BY <1>4, <1>7, <2>1 DEF Shares
<1>8. CASE s # r /\ pool[s].location # l
  <2>1. pool'[s] = pool[s] /\ Used(s) /\ pool[s].location \in Slots
    BY <1>2, <1>8 DEF Used, BaseInv, PoolOK, BlinkOK
  <2>2. CASE Shares(s)
    <3>1. PICK x \in Slots \ {s} : pool[x].location = pool[s].location
      BY <2>2 DEF Shares
    <3>2. x # r
      BY <1>1, <2>1, <3>1 DEF Used
    <3>3. pool'[x].location = pool'[s].location
      BY <1>2, <2>1, <3>1, <3>2
    <3> QED
      BY <3>1, <3>3 DEF Shares
  <2>3. CASE Shows(s)
    BY <1>5, <1>8, <2>1, <2>3 DEF Shows
  <2> QED
    BY <2>1, <2>2, <2>3 DEF ShowInv
<1> QED
  BY <1>6, <1>7, <1>8

LEMMA ShowNext ==
    ASSUME Whole(3 * WAIT)
    PROVE  NoneAtZero /\ TextInv /\ BaseInv /\ FrameInv /\ FreshInv /\ ShowInv
             /\ [Next]_vars => ShowInv'
<1> SUFFICES ASSUME NoneAtZero, TextInv, BaseInv, FrameInv, FreshInv,
                    ShowInv, [Next]_vars,
                    NEW s \in Slots, Used(s)',
                    ~(phase' = 3 /\ pool'[s].location = EXTRA)
             PROVE  Shares(s)' \/ Shows(s)'
  BY DEF ShowInv
<1> USE Sizes, Lengths
<1>1. ASSUME Steady, phase' = phase
      PROVE  /\ Used(s) /\ (Shares(s) \/ Shows(s))
             /\ Shares(s) => Shares(s)'
             /\ pool'[s].location = pool[s].location
             /\ pool'[s].on_char = pool[s].on_char
             /\ pool'[s].off_char = pool[s].off_char
  <2>1. Used(s) /\ (Shares(s)' <=> Shares(s))
    BY <1>1, SteadyTop, SteadyShares
  <2>2. ~(phase = 3 /\ pool[s].location = EXTRA)
    BY <1>1 DEF Steady
  <2> QED
    BY <1>1, <2>1, <2>2 DEF ShowInv, Steady
<1>2. ASSUME UNCHANGED listVars, phase' = phase PROVE Shares(s)' \/ Shows(s)'
  <2>1. Steady /\ pool' = pool /\ vmem' = vmem
    BY <1>2 DEF listVars, Steady
  <2> QED
    BY <1>1, <1>2, <2>1 DEF Shows
<1>3. CASE AddPair
  <2>1. phase = 1 /\ phase' = phase
    BY <1>3 DEF AddPair, BaseInv, ControlOK
  <2> QED
    BY <1>2, <1>3, <2>1, AddPairFacts, AddShows DEF FrameAdded
<1>4. CASE EndRow \/ RtcRead \/ TaskletEnd \/ UNCHANGED vars
  BY <1>2, <1>4 DEF EndRow, RtcRead, TaskletEnd, vars
<1>5. CASE mp1_rtc_tasklet
  <2>1. Steady /\ phase' = phase /\ at \in Slots
    BY <1>5, TaskletFacts DEF mp1_rtc_tasklet
  <2>2. /\ Used(s) /\ (Shares(s) \/ Shows(s))
        /\ Shares(s) => Shares(s)'
        /\ pool'[s].location = pool[s].location
        /\ pool'[s].on_char = pool[s].on_char
        /\ pool'[s].off_char = pool[s].off_char
    BY <1>1, <2>1
  <2>3. BlinkOK(pool[s]) /\ BlinkOK(pool[at])
    BY <2>1, DueOK
  <2>4. CASE s # at /\ pool[at].location = pool[s].location
    <3>1. Shares(s)
      BY <2>1, <2>4 DEF Shares
    <3> QED
      BY <2>2, <3>1
  <2>5. CASE s # at /\ pool[at].location # pool[s].location
    <3>1. pool'[s] = pool[s]
      BY <1>5, <2>5, TaskletFacts
    <3>2. vmem'[pool[s].location] = vmem[pool[s].location]
      BY <1>5, <2>3, <2>5, TaskletFacts DEF BaseInv, PoolOK, BlinkOK
    <3> QED
      BY <2>2, <3>1, <3>2 DEF Shows
  <2>6. CASE s = at
    <3>1. pool'[s] = Pulse(pool[s])
      BY <1>5, <2>6, TaskletFacts
    <3>2. CASE pool[s].countdown - 1 > 0
      <4>1. vmem' = vmem /\ pool'[s].status = pool[s].status
        BY <1>5, <2>3, <2>6, <3>1, <3>2, TaskletFacts, PulseFacts
      <4> QED
        BY <2>2, <4>1 DEF Shows
    <3>3. CASE ~(pool[s].countdown - 1 > 0)
      <4>1. vmem'[pool[s].location] =
              IF pool[s].status = 1 THEN pool[s].off_char ELSE pool[s].on_char
        BY <1>5, <2>3, <2>6, <3>3, TaskletFacts DEF BaseInv, PoolOK, BlinkOK
      <4>2. pool'[s].status = 1 - pool[s].status
        BY <2>3, <3>1, <3>3, PulseFacts
      <4>3. pool[s].status \in {0, 1}
        BY <2>3 DEF BlinkOK
      <4> QED
        BY <2>2, <4>1, <4>2, <4>3 DEF Shows
    <3> QED
      BY <3>2, <3>3
  <2> QED
    BY <2>4, <2>5, <2>6
<1>6. CASE NextPhase
  <2>1. phase' = phase + 1 /\ phase \in 1..4 /\ pc = "wait" /\ waited = WAIT
    BY <1>6 DEF NextPhase
  <2>2. ASSUME UNCHANGED listVars,
               phase = 3 => \A r \in Slots : pool[r].location # EXTRA
        PROVE  Shares(s)' \/ Shows(s)'
    <3>1. Steady /\ pool' = pool /\ vmem' = vmem
      BY <2>2 DEF listVars, Steady
    <3>2. Used(s) /\ (Shares(s)' <=> Shares(s))
      BY <3>1, SteadyTop, SteadyShares
    <3> QED
      BY <2>2, <3>1, <3>2 DEF ShowInv, Shows
  <2>3. CASE phase = 1 /\ mp1_ioctl_add(Blink(EXTRA, "I", "M", ON_LENGTH,
                                             OFF_LENGTH))
    <3>1. PICK b : b = Blink(EXTRA, "I", "M", ON_LENGTH, OFF_LENGTH)
      OBVIOUS
    <3>2. UNCHANGED listVars \/ Added(b)
      <4>1. mp1_ioctl_add(b) /\ phase <= 3 /\ ListInv
        BY <2>3, <3>1 DEF BaseInv
      <4> QED
        BY <3>1, <4>1, AddFacts, Sizes, Lengths
    <3> QED
      BY <2>2, <2>3, <3>1, <3>2, AddShows
  <2>4. CASE phase = 2 /\ mp1_ioctl_sync(OFFSET, EXTRA)
    <3>1. CASE UNCHANGED listVars
      BY <2>2, <2>4, <3>1
    <3>2. CASE \E m, n \in Slots : Synced(m, n)
      <4>1. PICK m \in Slots, n \in Slots : Synced(m, n)
        BY <3>2
      <4>2. Used(s) /\ (Shares(s)' <=> Shares(s))
        BY <4>1, SteadyTop, SteadyShares DEF Synced
      <4>3. pool'[s].location # EXTRA /\ pool[s].location # EXTRA
        BY <2>1, <2>4, <4>1 DEF Synced, Steady
      <4>4. pool'[s] = pool[s]
        BY <4>1, <4>3 DEF Synced, TopAt
      <4>5. vmem'[pool[s].location] = vmem[pool[s].location]
        <5>1. pool[s].location \in Slots /\ EXTRA \in Slots
          BY DueOK DEF BlinkOK, Slots
        <5> QED
          BY <4>1, <4>3, <5>1 DEF Synced, BaseInv, PoolOK
      <4> QED
        BY <2>4, <4>2, <4>4, <4>5 DEF ShowInv, Shows
    <3> QED
      BY <2>4, <3>1, <3>2, SyncFacts DEF BaseInv
  <2>5. CASE phase = 3 /\ mp1_ioctl_remove(EXTRA)
    <3>1. CASE /\ UNCHANGED listVars
               /\ \A r \in Slots : pool[r].location # EXTRA
      BY <2>2, <3>1
    <3>2. CASE \E n \in Slots : Removed(n)
      <4>1. PICK n \in Slots : Removed(n)
        BY <3>2
      <4>2. s # n /\ Used(s) /\ TopAt(n, EXTRA)
        BY <4>1 DEF Removed, Used
      <4>3. \A r \in Slots : r # n => pool'[r].location = pool[r].location
        BY <4>1 DEF Removed
      <4>4. Shows(s) => Shows(s)'
        BY <4>1, <4>2 DEF Removed, Shows
      <4>5. CASE pool[s].location # EXTRA
        <5>1. CASE Shares(s)
          <6>1. PICK r \in Slots \ {s} : pool[r].location = pool[s].location
            BY <5>1 DEF Shares
          <6>2. r # n
            BY <4>2, <4>5, <6>1 DEF TopAt
          <6>3. pool'[r].location = pool'[s].location
            BY <4>2, <4>3, <6>1, <6>2
          <6> QED
            BY <6>1, <6>3 DEF Shares
        <5> QED
          BY <4>2, <4>4, <4>5, <5>1 DEF ShowInv
      <4>6. CASE pool[s].location = EXTRA
        <5>1. CASE \E r \in Slots : r # s /\ r # n /\ pool[r].location = EXTRA
          <6>1. PICK r \in Slots : r # s /\ r # n /\ pool[r].location = EXTRA
            BY <5>1
          <6>2. pool'[r].location = pool'[s].location /\ r \in Slots \ {s}
            BY <4>2, <4>3, <4>6, <6>1
          <6> QED
            BY <6>2 DEF Shares
        <5>2. CASE \A r \in Slots : r # s /\ r # n => pool[r].location # EXTRA
          BY <2>1, <2>5, <4>2, <4>4, <4>6, <5>2, LeftShows
        <5> QED
          BY <5>1, <5>2
      <4> QED
        BY <4>5, <4>6
    <3> QED
      BY <2>1, <2>5, <3>1, <3>2, RemoveFacts DEF BaseInv
  <2>6. CASE phase = 4 /\ UNCHANGED listVars
    BY <2>2, <2>6
  <2> QED
    BY <1>6, <2>3, <2>4, <2>5, <2>6 DEF NextPhase
<1> QED
  BY <1>3, <1>4, <1>5, <1>6 DEF Next, Done

(* If the three waits before the removal are a whole number of the frames' *)
(* blinks, as 3 * 100 ticks are with the 15 of the code, the screen shows  *)
(* between ticks what the status of every blinker alone in its place says; *)
(* without that the place given back by the removal may keep the character *)
(* of the blinker that left.  No character may wrap to location 0.         *)
THEOREM FishShows ==
    (\E n \in Nat : 3 * WAIT = n * FRAME_LENGTH) => (Spec => []ShowsStatus)
<1> SUFFICES ASSUME \E n \in Nat : 3 * WAIT = n * FRAME_LENGTH
             PROVE  Spec => []ShowsStatus
  OBVIOUS
<1>1. Whole(3 * WAIT)
  BY DEF Whole
<1>2. Init => FrameInv /\ FreshInv /\ ShowInv
  <2>1. Init => \A s \in Slots : ~Used(s)
    BY DEF Init, Used, FreeBlink
  <2> QED
    BY <2>1 DEF FrameInv, FreshInv, ShowInv
<1>3. NoneAtZero /\ TextInv /\ BaseInv /\ FrameInv /\ FreshInv /\ ShowInv
        /\ [Next]_vars => ShowInv'
  BY <1>1, ShowNext
<1>4. (NoneAtZero => BaseInv /\ ShowInv) => ShowsStatus
  <2> SUFFICES ASSUME BaseInv, ShowInv, NEW s \in Listed
               PROVE  \/ \E r \in Listed \ {s} :
                            pool[r].location = pool[s].location
                      \/ phase = 3 /\ pool[s].location = EXTRA
                      \/ vmem[pool[s].location] =
                            IF pool[s].status = 1 THEN pool[s].on_char
                                                  ELSE pool[s].off_char
    BY DEF ShowsStatus
  <2>1. Listed = {r \in Slots : Used(r)}
    BY ListedIsUsed DEF BaseInv
  <2>2. s \in Slots /\ Used(s)
    BY <2>1
  <2>3. CASE Shares(s)
    BY <2>1, <2>2, <2>3 DEF Shares, Used
  <2> QED
    BY <2>2, <2>3 DEF ShowInv, Shows
<1> QED
  BY <1>2, <1>3, <1>4, TextInit, TextNext, BaseInit, BaseNext, FrameNext,
     FreshNext, FilesKept, PTL DEF Spec

-----------------------------------------------------------------------------
(* What add_frames has drawn so far: a blinker for each place it has       *)
(* passed that is wanted.  Blinkers take their slots in the order of their *)
(* locations as long as no line is wider than the screen, and then there   *)
(* is always a free slot: the pool has as many as the screen has cells.    *)

Wanted(r, k) ==
    /\ Before(r, k, row, col) /\ Cell(r, k) < SIZE
    /\ CharAt(file[0], r, k) # SPACE \/ CharAt(file[1], r, k) # SPACE

Made(s, r, k) ==
    /\ pool[s].location = Cell(r, k)
    /\ pool[s].on_char = CharAt(file[0], r, k)
    /\ pool[s].off_char = CharAt(file[1], r, k)

Narrow == \A text \in Frames : \A i \in DOMAIN text :
              text[i] # NL => ColOf(text, i) < NUM_COLS

Room == /\ col <= NUM_COLS
        /\ \A s \in Slots : Used(s) => /\ s + OFFSET <= pool[s].location
                                       /\ pool[s].location < Cell(row, col)

Drawn == /\ \A s \in Slots : Used(s) =>
               \E r, k \in Nat : Wanted(r, k) /\ Made(s, r, k)
         /\ \A r, k \in Nat : Wanted(r, k) =>
               \E s \in Slots : Used(s) /\ Made(s, r, k)

DrawInv == phase = 1 => Room /\ Drawn

LEMMA CellFacts ==
    ASSUME NEW r \in Nat, NEW k \in Nat
    PROVE  /\ Cell(r, k) \in Nat /\ Cell(r, k) >= OFFSET
           /\ Cell(r, k + 1) = Cell(r, k) + 1
           /\ k <= NUM_COLS => Cell(r, k) <= Cell(r + 1, 0)
<1>1. r * NUM_COLS \in Nat
  BY Sizes
<1>2. (r + 1) * NUM_COLS = r * NUM_COLS + NUM_COLS
  BY Sizes
<1> DEFINE x == r * NUM_COLS
           y == (r + 1) * NUM_COLS
<1>3. x \in Nat /\ y = x + NUM_COLS
  BY <1>1, <1>2
<1>4. Cell(r, k) = x + k + OFFSET /\ Cell(r, k + 1) = x + (k + 1) + OFFSET
        /\ Cell(r + 1, 0) = y + 0 + OFFSET
  BY DEF Cell
<1> HIDE DEF x, y
<1> QED
  BY <1>3, <1>4, Sizes

\* The last slot is never reached, so one is free.
LEMMA SlotFree ==
    ASSUME BaseInv, Room, phase <= 3
    PROVE  mp1_malloc # {}
<1>1. PICK k \in 0..SIZE : Chained(k, SIZE)
  BY DEF BaseInv, ListInv
<1>2. k < SIZE
  <2> SUFFICES ASSUME k = SIZE PROVE FALSE
    BY <1>1, Sizes
  <2>1. SIZE - 1 \in Slots
    BY Sizes DEF Slots
  <2>2. Used(SIZE - 1)
    BY <1>1, <2>1, Sizes DEF Chained
  <2>3. SIZE - 1 + OFFSET <= pool[SIZE - 1].location
    BY <2>1, <2>2 DEF Room
  <2>4. pool[SIZE - 1].location \in Slots
    BY <2>1 DEF BaseInv, PoolOK, BlinkOK
  <2> QED
    BY <2>3, <2>4, Sizes DEF Slots
<1>3. k \in Slots /\ ~Used(k) /\ \A r \in 0..(k - 1) : Used(r)
  BY <1>1, <1>2, Sizes DEF Chained, Slots
<1> QED
  BY <1>3 DEF mp1_malloc, Used

(* One more place is passed. *)
LEMMA PairWanted ==
    ASSUME TextInv, AddPair, NEW r \in Nat, NEW k \in Nat
    PROVE  Wanted(r, k)' <=>
             \/ Wanted(r, k)
             \/ /\ r = row /\ k = col /\ Cell(row, col) < SIZE
                /\ \E f \in Fds : Shown(f) # SPACE
<1>1. row' = row /\ col' = col + 1 /\ file' = file /\ pc = "frames"
  BY DEF AddPair
<1>2. row \in Nat /\ col \in Nat
  BY DEF TextInv
<1>3. Shown(0) = CharAt(file[0], row, col) /\ Shown(1) = CharAt(file[1], row, col)
  BY <1>1, ShownIsChar DEF TextInv, Fds
<1>4. Before(r, k, row', col') <=> Before(r, k, row, col) \/ (r = row /\ k = col)
  BY <1>1, <1>2 DEF Before
<1> QED
  BY <1>1, <1>3, <1>4 DEF Wanted, Fds

LEMMA RowWanted ==
    ASSUME TextInv, EndRow, NEW r \in Nat, NEW k \in Nat
    PROVE  Wanted(r, k)' <=> Wanted(r, k)
<1>1. /\ row' = row + 1 /\ col' = 0 /\ file' = file /\ pc = "frames"
      /\ \A f \in Fds : NextC(f) = NL
  BY DEF EndRow
<1>2. row \in Nat /\ col \in Nat
  BY DEF TextInv
<1>3. CASE r = row /\ k >= col
  <2>1. CharAt(file[0], r, k) = SPACE /\ CharAt(file[1], r, k) = SPACE
    BY <1>1, <1>3, RestBlank DEF TextInv, Fds
  <2> QED
    BY <1>1, <2>1 DEF Wanted
<1>4. CASE ~(r = row /\ k >= col)
  <2>1. Before(r, k, row', col') <=> Before(r, k, row, col)
    BY <1>1, <1>2, <1>4 DEF Before
  <2> QED
    BY <1>1, <2>1 DEF Wanted
<1> QED
  BY <1>3, <1>4

LEMMA DrawPair ==
    ASSUME Narrow, NoneWraps, BaseInv, TextInv, Room, Drawn, AddPair
    PROVE  Room' /\ Drawn'
<1>1. /\ pc = "frames" /\ phase <= 3 /\ row' = row /\ col' = col + 1
      /\ file' = file /\ \E f \in Fds : NextC(f) # NL
  BY DEF AddPair, BaseInv, ControlOK
<1>2. row \in Nat /\ col \in Nat
  BY DEF TextInv
<1>3. Cell(row, col) \in Nat /\ Cell(row, col) >= OFFSET
        /\ Cell(row, col + 1) = Cell(row, col) + 1
  BY <1>2, CellFacts
<1>4. col' <= NUM_COLS
  <2>1. PICK f \in Fds : NextC(f) # NL
    BY <1>1
  <2>2. Where(f) /\ file[f] \in Frames
    BY <1>1 DEF TextInv
  <2>3. c[f] # NL /\ pos[f] # Len(file[f]) /\ NextC(f) = file[f][pos[f] + 1]
    BY <2>1 DEF NextC, Reads, AtEnd
  <2>4. pos[f] + 1 \in DOMAIN file[f]
    BY <2>2, <2>3, FileFacts DEF Where
  <2>5. ColOf(file[f], pos[f] + 1) < NUM_COLS
    BY <2>1, <2>2, <2>3, <2>4 DEF Narrow
  <2>6. ColOf(file[f], pos[f] + 1) = col
    BY <2>2, <2>3 DEF Where
  <2> QED
    BY <1>1, <1>2, <2>5, <2>6, Sizes
<1>5. \A s \in Slots : Used(s) => pool[s].location \in Nat
  BY Sizes DEF BaseInv, PoolOK, BlinkOK, Slots
<1>6. CASE ~(Cell(row, col) < SIZE /\ \E f \in Fds : Shown(f) # SPACE)
  <2>1. UNCHANGED listVars
    <3>1. CASE ~ \E f \in Fds : Shown(f) # SPACE
      BY <3>1 DEF AddPair
    <3>2. CASE \E f \in Fds : Shown(f) # SPACE
      <4>1. PICK b : b = Blink(Cell(row, col), Shown(0), Shown(1),
                               FRAME_LENGTH, FRAME_LENGTH)
        OBVIOUS
      <4>2. mp1_ioctl_add(b)
        BY <3>2, <4>1, PairLocation DEF AddPair
      <4>3. b.location = Cell(row, col)
        BY <4>1, BlinkFields, Lengths
      <4>4. b.location >= SIZE
        BY <1>3, <1>6, <3>2, <4>3, Sizes
      <4> QED
        BY <4>2, <4>4 DEF mp1_ioctl_add
    <3> QED
      BY <3>1, <3>2
  <2>2. \A r, k \in Nat : Wanted(r, k)' <=> Wanted(r, k)
    BY <1>6, PairWanted
  <2>3. \A s \in Slots : Used(s)' <=> Used(s)
    BY <2>1 DEF Used, listVars
  <2>4. \A s \in Slots : \A r, k \in Nat : Made(s, r, k)' <=> Made(s, r, k)
    BY <1>1, <2>1 DEF Made, listVars
  <2>5. Drawn'
    BY <2>2, <2>3, <2>4 DEF Drawn
  <2>6. ASSUME NEW s \in Slots, Used(s)
        PROVE  /\ s + OFFSET <= pool'[s].location
               /\ pool'[s].location < Cell(row', col')
    BY <1>1, <1>3, <1>5, <2>1, <2>6 DEF Room, listVars
  <2>7. Room'
    BY <1>4, <2>3, <2>6 DEF Room
  <2> QED
    BY <2>5, <2>7
<1>7. CASE Cell(row, col) < SIZE /\ \E f \in Fds : Shown(f) # SPACE
  <2>1. PICK b : b = Blink(Cell(row, col), Shown(0), Shown(1),
                           FRAME_LENGTH, FRAME_LENGTH)
    OBVIOUS
  <2>2. mp1_ioctl_add(b)
    BY <1>7, <2>1, PairLocation DEF AddPair
  <2>3. Added(b)
    BY <1>1, <1>3, <1>7, <2>1, <2>2, AddFacts, SlotFree, Lengths DEF BaseInv
  <2>4. PICK z \in Slots :
            /\ ~Used(z)
            /\ \A r \in Slots : Used(r) <=> r < z
            /\ pool' = [pool EXCEPT ![z] = NewBlink(b, list_head)]
    BY <2>3 DEF Added
  <2>5. /\ b.location = Cell(row, col) /\ b.on_char = Shown(0)
        /\ b.off_char = Shown(1)
    BY <2>1, BlinkFields, Lengths
  <2>6. /\ pool'[z] = NewBlink(b, list_head)
        /\ \A s \in Slots : s # z => pool'[s] = pool[s]
    BY <2>4 DEF BaseInv, PoolOK
  <2>7. /\ pool'[z].location = Cell(row, col)
        /\ pool'[z].on_char = CharAt(file[0], row, col)
        /\ pool'[z].off_char = CharAt(file[1], row, col)
    <3>1. /\ Shown(0) = CharAt(file[0], row, col)
          /\ Shown(1) = CharAt(file[1], row, col)
      BY <1>1, ShownIsChar DEF TextInv, Fds
    <3> QED
      BY <2>5, <2>6, <3>1 DEF NewBlink
  <2>0. PICK m \in Nat, n \in Nat : m = row /\ n = col
    BY <1>2
  <2>8. Made(z, m, n)' /\ Used(z)'
    BY <1>1, <1>3, <2>0, <2>7, Sizes DEF Made, Used
  <2>9. \A s \in Slots : s # z =>
          /\ Used(s)' <=> Used(s)
          /\ \A r, k \in Nat : Made(s, r, k)' <=> Made(s, r, k)
    BY <1>1, <2>6 DEF Used, Made
  <2>10. Wanted(m, n)' /\ \A r, k \in Nat : Wanted(r, k) => Wanted(r, k)'
    BY <1>7, <2>0, PairWanted
  <2>11. ASSUME NEW s \in Slots, Used(s)'
         PROVE  \E r, k \in Nat : Wanted(r, k)' /\ Made(s, r, k)'
    <3>1. CASE s = z
      BY <2>8, <2>10, <3>1
    <3>2. CASE s # z
      BY <2>9, <2>10, <2>11, <3>2 DEF Drawn
    <3> QED
      BY <3>1, <3>2
  <2>12. ASSUME NEW r \in Nat, NEW k \in Nat, Wanted(r, k)'
         PROVE  \E s \in Slots : Used(s)' /\ Made(s, r, k)'
    <3>1. CASE Wanted(r, k)
      <4>1. PICK s \in Slots : Used(s) /\ Made(s, r, k)
        BY <3>1 DEF Drawn
      <4>2. s # z
        BY <2>4, <4>1
      <4> QED
        BY <2>9, <4>1, <4>2
    <3>2. CASE r = row /\ k = col
      BY <2>0, <2>8, <3>2
    <3> QED
      BY <2>12, <3>1, <3>2, PairWanted
  <2>13. Drawn'
    BY <2>11, <2>12 DEF Drawn
  <2>14. ASSUME NEW s \in Slots, Used(s)'
         PROVE  /\ s + OFFSET <= pool'[s].location
                /\ pool'[s].location < Cell(row', col')
    <3>1. CASE s = z
      <4>1. z + OFFSET <= Cell(row, col)
        <5>1. CASE z = 0
          BY <1>3, <5>1, Sizes
        <5>2. CASE z # 0
          <6>1. z - 1 \in Slots /\ z - 1 < z /\ z \in Nat
            BY <5>2, Sizes DEF Slots
          <6>2. Used(z - 1)
            BY <2>4, <6>1
          <6>3. /\ z - 1 + OFFSET <= pool[z - 1].location
                /\ pool[z - 1].location < Cell(row, col)
                /\ pool[z - 1].location \in Nat
            BY <1>5, <6>1, <6>2 DEF Room
          <6> QED
            BY <1>3, <6>1, <6>3, Sizes
        <5> QED
          BY <5>1, <5>2
      <4> QED
        BY <1>1, <1>3, <2>7, <3>1, <4>1
    <3>2. CASE s # z
      <4>1. Used(s) /\ pool'[s] = pool[s]
        BY <2>6, <2>9, <2>14, <3>2
      <4> QED
        BY <1>1, <1>3, <1>5, <4>1 DEF Room
    <3> QED
      BY <3>1, <3>2
  <2>15. Room'
    BY <1>4, <2>14 DEF Room
  <2> QED
    BY <2>13, <2>15
<1> QED
  BY <1>6, <1>7

LEMMA DrawRow ==
    ASSUME BaseInv, TextInv, Room, Drawn, EndRow
    PROVE  Room' /\ Drawn'
<1>1. /\ row' = row + 1 /\ col' = 0 /\ file' = file /\ pool' = pool
  BY DEF EndRow, listVars
<1>2. row \in Nat /\ col \in Nat
  BY DEF TextInv
<1>3. Cell(row, col) <= Cell(row', col') /\ Cell(row, col) \in Nat
        /\ Cell(row', col') \in Nat
  <2>1. Cell(row, col) \in Nat /\ Cell(row, col) <= Cell(row + 1, 0)
    BY <1>2, CellFacts DEF Room
  <2>2. row + 1 \in Nat /\ 0 \in Nat
    BY <1>2
  <2>3. Cell(row + 1, 0) \in Nat
    BY <2>2, CellFacts
  <2> QED
    BY <1>1, <2>1, <2>3
<1>4. \A r, k \in Nat : Wanted(r, k)' <=> Wanted(r, k)
  BY RowWanted
<1>5. \A s \in Slots :
        /\ Used(s)' <=> Used(s)
        /\ \A r, k \in Nat : Made(s, r, k)' <=> Made(s, r, k)
  BY <1>1 DEF Used, Made
<1>6. Drawn'
  BY <1>4, <1>5 DEF Drawn
<1>7. ASSUME NEW s \in Slots, Used(s)
      PROVE  /\ s + OFFSET <= pool[s].location
             /\ pool[s].location < Cell(row', col')
  <2>1. pool[s].location \in Nat
    BY Sizes DEF BaseInv, PoolOK, BlinkOK, Slots
  <2> QED
    BY <1>3, <1>7, <2>1 DEF Room
<1>8. Room'
  BY <1>1, <1>5, <1>7, Sizes DEF Room
<1> QED
  BY <1>6, <1>8

LEMMA DrawKept ==
    ASSUME Room, Drawn, Steady, UNCHANGED << file, row, col >>
    PROVE  Room' /\ Drawn'
<1>1. \A s \in Slots :
        /\ Used(s)' <=> Used(s)
        /\ \A r, k \in Nat : Made(s, r, k)' <=> Made(s, r, k)
  BY DEF Steady, Used, Made
<1>2. \A r, k \in Nat : Wanted(r, k)' <=> Wanted(r, k)
  BY DEF Wanted
<1>3. Drawn'
  BY <1>1, <1>2 DEF Drawn
<1>4. Room'
  BY <1>1 DEF Room, Steady
<1> QED
  BY <1>3, <1>4

LEMMA DrawInit == Init => DrawInv
<1> SUFFICES ASSUME Init PROVE Room /\ Drawn
  BY DEF DrawInv
<1>1. row = 0 /\ col = 0 /\ \A s \in Slots : ~Used(s)
  BY DEF Init, Used, FreeBlink
<1>2. \A r, k \in Nat : ~Wanted(r, k)
  BY <1>1 DEF Wanted, Before
<1> QED
  BY <1>1, <1>2, Sizes DEF Room, Drawn

LEMMA DrawNext ==
    ASSUME Narrow
    PROVE  NoneWraps /\ BaseInv /\ TextInv /\ DrawInv /\ [Next]_vars
             => DrawInv'
<1> SUFFICES ASSUME NoneWraps, BaseInv, TextInv, DrawInv, [Next]_vars,
                    phase' = 1
             PROVE  Room' /\ Drawn'
  BY DEF DrawInv
<1>1. phase = 1 /\ Room /\ Drawn /\ ~NextPhase
  BY DEF NextPhase, AddPair, EndRow, RtcRead, mp1_rtc_tasklet, TaskletEnd,
         Next, Done, vars, DrawInv
<1>2. CASE AddPair
  BY <1>1, <1>2, DrawPair
<1>3. CASE EndRow
  BY <1>1, <1>3, DrawRow
<1>4. CASE RtcRead \/ TaskletEnd \/ UNCHANGED vars
  <2>1. UNCHANGED << file, row, col, pool, list_head >>
    BY <1>4 DEF RtcRead, TaskletEnd, vars, fileVars, listVars
  <2>2. Steady
    BY <2>1 DEF Steady
  <2> QED
    BY <1>1, <2>1, <2>2, DrawKept
<1>5. CASE mp1_rtc_tasklet
  <2>1. Steady
    BY <1>5, TaskletFacts
  <2>2. UNCHANGED << file, row, col >>
    BY <1>5 DEF mp1_rtc_tasklet, fileVars
  <2> QED
    BY <1>1, <2>1, <2>2, DrawKept
<1> QED
  BY <1>1, <1>2, <1>3, <1>4, <1>5 DEF Next, Done

\* Where a character is, and which places are looked at for one.
LEMMA NotBlank ==
    ASSUME TextInv, pc # "frames", NEW f \in Fds, NEW r \in Nat, NEW k \in Nat,
           CharAt(file[f], r, k) # SPACE
    PROVE  /\ Before(r, k, row, col)
           /\ r < Len(file[f]) /\ k < Len(file[f])
<1>1. PICK i \in DOMAIN file[f] :
        file[f][i] # NL /\ RowOf(file[f], i) = r /\ ColOf(file[f], i) = k
  BY CharNone
<1>2. Len(file[f]) \in Nat /\ i \in 1..Len(file[f])
  BY FileFacts
<1>3. r < i /\ k < i
  BY <1>1, <1>2, PlaceOf
<1>4. Finished(f)
  BY DEF TextInv
<1> QED
  BY <1>1, <1>2, <1>3, <1>4 DEF Finished

LEMMA Bounds ==
    ASSUME TextInv
    PROVE  /\ Max({Len(file[f]) : f \in Fds}) \in Nat
           /\ \A f \in Fds : Len(file[f]) <= Max({Len(file[g]) : g \in Fds})
<1> DEFINE S == {Len(file[f]) : f \in Fds}
           n == Len(file[0]) + Len(file[1])
<1>1. \A f \in Fds : Len(file[f]) \in Nat
  BY FileFacts
<1>0. Len(file[0]) \in Nat /\ Len(file[1]) \in Nat
  BY <1>1 DEF Fds
<1>2. n \in Nat /\ S \in SUBSET (0..n) /\ S # {}
  <2>1. n \in Nat /\ Len(file[0]) \in 0..n /\ Len(file[1]) \in 0..n
    <3>1. \A x, y \in Nat : x + y \in Nat /\ x \in 0..(x + y) /\ y \in 0..(x + y)
      OBVIOUS
    <3> QED
      BY <1>0, <3>1
  <2>2. S = {Len(file[0]), Len(file[1])}
    BY DEF Fds
  <2> HIDE DEF S, n
  <2> QED
    BY <2>1, <2>2
<1>3. /\ \A f \in Fds : Len(file[f]) \in S
      /\ \A y \in S : y \in Nat
  BY <1>1
<1> HIDE DEF S, n
<1>4. Max(S) \in S /\ \A y \in S : Max(S) >= y
  BY <1>2, MaxFacts
<1>5. Max(S) \in Nat /\ \A f \in Fds : Len(file[f]) <= Max(S)
  BY <1>3, <1>4
<1> QED
  BY <1>5 DEF S

(* add_frames makes a blinker of every place of the two frames that is not *)
(* blank in both and fits on the screen, with the right characters, and no *)
(* others, for screens of any size and any two texts whose lines are not   *)
(* wider than the screen (the pool does not run out then) and which end    *)
(* before locations wrap (row 818 of the code's screen).                   *)
THEOREM FishFrames == Narrow => (Spec => []FramesComplete)
<1> SUFFICES ASSUME Narrow PROVE Spec => []FramesComplete
  OBVIOUS
<1>1. TextInv /\ (NoneWraps => BaseInv /\ DrawInv) => FramesComplete
  <2> SUFFICES ASSUME BaseInv, TextInv, DrawInv, pc # "frames", phase = 1
               PROVE  {<< pool[s].location, pool[s].on_char,
                          pool[s].off_char >> : s \in Listed}
                        = {p \in Picture : /\ p[1] < SIZE
                                           /\ << p[2], p[3] >>
                                                # << SPACE, SPACE >>}
    BY DEF FramesComplete
  <2> DEFINE Spot(r, k) == << Cell(r, k), CharAt(file[0], r, k),
                              CharAt(file[1], r, k) >>
             top == Max({Len(file[f]) : f \in Fds})
  <2>1. Drawn /\ Listed = {s \in Slots : Used(s)}
    BY ListedIsUsed DEF DrawInv, BaseInv
  <2>2. top \in Nat /\ \A f \in Fds : Len(file[f]) <= top /\ Len(file[f]) \in Nat
    BY Bounds, FileFacts
  <2>3. Picture = {Spot(r, k) : r \in 0..top, k \in 0..top}
    BY DEF Picture
  <2> HIDE DEF top
  <2>4. ASSUME NEW s \in Listed
        PROVE  \E r, k \in 0..top :
                  /\ Cell(r, k) < SIZE
                  /\ CharAt(file[0], r, k) # SPACE \/ CharAt(file[1], r, k) # SPACE
                  /\ << pool[s].location, pool[s].on_char, pool[s].off_char >>
                        = Spot(r, k)
    <3>1. PICK r \in Nat, k \in Nat : Wanted(r, k) /\ Made(s, r, k)
      BY <2>1 DEF Drawn
    <3>2. PICK f \in Fds : CharAt(file[f], r, k) # SPACE
      BY <3>1 DEF Wanted, Fds
    <3>3. r \in 0..top /\ k \in 0..top
      BY <2>2, <3>2, NotBlank
    <3> QED
      BY <3>1, <3>3 DEF Wanted, Made
  <2>5. ASSUME NEW r \in 0..top, NEW k \in 0..top, Cell(r, k) < SIZE,
               CharAt(file[0], r, k) # SPACE \/ CharAt(file[1], r, k) # SPACE
        PROVE  \E s \in Listed :
                  << pool[s].location, pool[s].on_char, pool[s].off_char >>
                     = Spot(r, k)
    <3>1. r \in Nat /\ k \in Nat
      BY <2>2
    <3>2. Before(r, k, row, col)
      BY <2>5, <3>1, NotBlank DEF Fds
    <3>3. Wanted(r, k)
      BY <2>5, <3>2 DEF Wanted
    <3>4. PICK s \in Slots : Used(s) /\ Made(s, r, k)
      BY <2>1, <3>1, <3>3 DEF Drawn
    <3> QED
      BY <2>1, <3>4 DEF Made
  <2>6. \A r, k \in 0..top :
          /\ Spot(r, k)[1] = Cell(r, k)
          /\ << Spot(r, k)[2], Spot(r, k)[3] >> # << SPACE, SPACE >> <=>
               CharAt(file[0], r, k) # SPACE \/ CharAt(file[1], r, k) # SPACE
    OBVIOUS
  <2> HIDE DEF Spot
  <2> QED
    BY <2>3, <2>4, <2>5, <2>6
<1>2. TextInv /\ NoneWraps => NoneAtZero
  BY FitsNotZero
<1> QED
  BY <1>1, <1>2, TextInit, TextNext, BaseInit, BaseNext, DrawInit, DrawNext,
     FilesKept, PTL DEF Spec
=============================================================================
