--------------------------- MODULE FdTableProofs ---------------------------
(***************************************************************************)
(* Proofs about FdTable, for any set of slots, any number of descriptors,  *)
(* kinds of files and arguments.                                           *)
(***************************************************************************)
EXTENDS FdTable, TLAPS, WellFoundedInduction, SequenceTheorems

-----------------------------------------------------------------------------
(* The stacks of programs: a slot is on one stack, once, and the program   *)
(* that runs is on top of the stack whose turn it is.                      *)

StackInv ==
    /\ stacks \in [Tasks!Terms -> Seq(Slots)]
    /\ turn \in Tasks!Terms
    /\ stacks[turn] = << >> <=> running = NULL
    /\ stacks[turn] # << >> => running = stacks[turn][Len(stacks[turn])]
    /\ \A t, u \in Tasks!Terms :
          \A i \in 1..Len(stacks[t]), j \in 1..Len(stacks[u]) :
             stacks[t][i] = stacks[u][j] => t = u /\ i = j

(* A slot is live if it is on a stack. *)
LEMMA LiveIsOnStack ==
    ASSUME StackInv
    PROVE  /\ Live \subseteq Slots /\ Tasks!Free = Slots \ Live
           /\ \A p : p \in Live <=>
                 \E t \in Tasks!Terms : \E k \in 1..Len(stacks[t]) : p = stacks[t][k]
<1>1. \A t \in Tasks!Terms : /\ stacks[t] \in Seq(Slots)
                             /\ DOMAIN stacks[t] = 1..Len(stacks[t])
  BY DEF StackInv
<1>2. \A p : p \in Live <=>
         \E t \in Tasks!Terms : \E k \in 1..Len(stacks[t]) : p = stacks[t][k]
  BY <1>1 DEF Live
<1>3. Live \subseteq Slots
  BY <1>1, <1>2
<1>4. Tasks!Free = Slots \ Live
  BY DEF Tasks!Free, Tasks!InUse, Live
<1> QED
  BY <1>2, <1>3, <1>4

(* The program that runs is live. *)
LEMMA RunningIsLive ==
    ASSUME StackInv, running # NULL
    PROVE  running \in Live /\ running \in Slots
<1>1. stacks[turn] \in Seq(Slots) /\ stacks[turn] # << >>
      /\ running = stacks[turn][Len(stacks[turn])] /\ turn \in Tasks!Terms
  BY DEF StackInv
<1>2. Len(stacks[turn]) \in 1..Len(stacks[turn])
  BY <1>1
<1>3. running \in Live
  BY <1>1, <1>2, LiveIsOnStack
<1> QED
  BY <1>3, LiveIsOnStack

(* A free slot is pushed on a stack. *)
LEMMA PushKeeps ==
    ASSUME StackInv, NEW u \in Tasks!Terms, NEW p \in Slots \ Live,
           stacks' = [stacks EXCEPT ![u] = Append(@, p)],
           turn' = u, running' = p, NULL \notin Slots
    PROVE  StackInv' /\ Live' = Live \cup {p} /\ stacks' # stacks
<1> DEFINE old == stacks[u]
           new == stacks'[u]
<1>1. old \in Seq(Slots) /\ Len(old) \in Nat
  BY DEF StackInv
<1>2. /\ new = Append(old, p) /\ \A t \in Tasks!Terms \ {u} : stacks'[t] = stacks[t]
  BY DEF StackInv
<1>3. /\ new \in Seq(Slots) /\ new # << >> /\ Len(new) = Len(old) + 1
      /\ \A i \in 1..Len(old) : new[i] = old[i]
      /\ new[Len(old) + 1] = p
  BY <1>1, <1>2, AppendProperties
<1>4. stacks' \in [Tasks!Terms -> Seq(Slots)]
  BY <1>2, <1>3 DEF StackInv
<1>5. \A t \in Tasks!Terms : \A i \in 1..Len(stacks'[t]) :
         \/ t = u /\ i = Len(old) + 1 /\ stacks'[t][i] = p
         \/ i \in 1..Len(stacks[t]) /\ stacks'[t][i] = stacks[t][i]
  BY <1>1, <1>2, <1>3
<1>6. \A t \in Tasks!Terms : \A i \in 1..Len(stacks[t]) : stacks[t][i] # p
  BY LiveIsOnStack
<1>7. \A t, v \in Tasks!Terms :
         \A i \in 1..Len(stacks'[t]), j \in 1..Len(stacks'[v]) :
            stacks'[t][i] = stacks'[v][j] => t = v /\ i = j
  BY <1>5, <1>6 DEF StackInv
<1>8. StackInv'
  BY <1>2, <1>3, <1>4, <1>7 DEF StackInv
<1>9. Live' = Live \cup {p}
  <2>1. ASSUME NEW q PROVE q \in Live' <=> q \in Live \/ q = p
    <3>1. q \in Live' <=> \E t \in Tasks!Terms : \E k \in 1..Len(stacks'[t]) :
                             q = stacks'[t][k]
      <4>1. \A t \in Tasks!Terms : DOMAIN stacks'[t] = 1..Len(stacks'[t])
        BY <1>4
      <4> QED
        BY <4>1 DEF Live
    <3>2. q \in Live <=> \E t \in Tasks!Terms : \E k \in 1..Len(stacks[t]) :
                             q = stacks[t][k]
      BY LiveIsOnStack
    <3>3. \A t \in Tasks!Terms : \A k \in 1..Len(stacks[t]) :
             k \in 1..Len(stacks'[t]) /\ stacks'[t][k] = stacks[t][k]
      BY <1>1, <1>2, <1>3
    <3>4. Len(old) + 1 \in 1..Len(new)
      BY <1>1, <1>3
    <3> QED
      BY <1>3, <1>5, <3>1, <3>2, <3>3, <3>4
  <2> QED
    BY <2>1
<1>10. stacks' # stacks
  BY <1>1, <1>3
<1> QED
  BY <1>8, <1>9, <1>10

(* The program on top, which runs, is popped off its stack. *)
LEMMA PopKeeps ==
    ASSUME StackInv, Tasks!End
    PROVE  StackInv' /\ Live' = Live \ {running} /\ stacks' # stacks
<1> DEFINE u == turn
           old == stacks[u]
           n == Len(old)
           new == stacks'[u]
<1>1. /\ u \in Tasks!Terms /\ old \in Seq(Slots) /\ n \in Nat /\ n > 1
      /\ turn' = u /\ running = old[n] /\ n \in 1..n
      /\ \A i \in 1..n : old[i] \in Slots
  BY DEF StackInv, Tasks!End
<1>2. /\ new = SubSeq(old, 1, n - 1) /\ running' = new[Len(new)]
      /\ \A t \in Tasks!Terms \ {u} : stacks'[t] = stacks[t]
  BY DEF StackInv, Tasks!End, Tasks!Top
<1>3. /\ new \in Seq(Slots) /\ Len(new) = n - 1
      /\ \A i \in 1..(n - 1) : new[i] = old[i]
  <2>1. \A i \in 1..(n - 1) : old[i] \in Slots
    BY <1>1
  <2>2. 1 \in Int /\ n - 1 \in Int
    BY <1>1
  <2>3. /\ new \in Seq(Slots)
        /\ Len(new) = IF 1 <= n - 1 THEN (n - 1) - 1 + 1 ELSE 0
        /\ \A i \in 1..((n - 1) - 1 + 1) : new[i] = old[1 + i - 1]
    BY <1>2, <2>1, <2>2, SubSeqProperties
  <2> HIDE DEF new, old, n
  <2> QED
    BY <1>1, <2>3
<1>4. stacks' \in [Tasks!Terms -> Seq(Slots)]
  BY <1>1, <1>2, <1>3 DEF StackInv, Tasks!End
<1>5. \A t \in Tasks!Terms : \A i \in 1..Len(stacks'[t]) :
         /\ i \in 1..Len(stacks[t]) /\ stacks'[t][i] = stacks[t][i]
         /\ ~(t = u /\ i = n)
  <2> SUFFICES ASSUME NEW t \in Tasks!Terms, NEW i \in 1..Len(stacks'[t])
               PROVE  /\ i \in 1..Len(stacks[t]) /\ stacks'[t][i] = stacks[t][i]
                      /\ ~(t = u /\ i = n)
    OBVIOUS
  <2>1. CASE t = u
    <3>1. i \in 1..(n - 1)
      BY <1>3, <2>1
    <3>2. i \in 1..n /\ i # n
      BY <1>1, <3>1
    <3> QED
      BY <1>3, <2>1, <3>1, <3>2
  <2>2. CASE t # u
    BY <1>2, <2>2
  <2> QED
    BY <2>1, <2>2
<1>6. \A t \in Tasks!Terms : \A i \in 1..Len(stacks[t]) :
         \/ t = u /\ i = n /\ stacks[t][i] = running
         \/ i \in 1..Len(stacks'[t]) /\ stacks'[t][i] = stacks[t][i]
  <2> SUFFICES ASSUME NEW t \in Tasks!Terms, NEW i \in 1..Len(stacks[t])
               PROVE  \/ t = u /\ i = n /\ stacks[t][i] = running
                      \/ i \in 1..Len(stacks'[t]) /\ stacks'[t][i] = stacks[t][i]
    OBVIOUS
  <2>1. CASE t = u
    <3>1. i = n \/ i \in 1..(n - 1)
      BY <1>1, <2>1
    <3> QED
      BY <1>1, <1>3, <2>1, <3>1
  <2>2. CASE t # u
    BY <1>2, <2>2
  <2> QED
    BY <2>1, <2>2
<1>7. \A t, v \in Tasks!Terms :
         \A i \in 1..Len(stacks'[t]), j \in 1..Len(stacks'[v]) :
            stacks'[t][i] = stacks'[v][j] => t = v /\ i = j
  <2> SUFFICES ASSUME NEW t \in Tasks!Terms, NEW v \in Tasks!Terms,
                      NEW i \in 1..Len(stacks'[t]), NEW j \in 1..Len(stacks'[v]),
                      stacks'[t][i] = stacks'[v][j]
               PROVE  t = v /\ i = j
    OBVIOUS
  <2>1. /\ i \in 1..Len(stacks[t]) /\ j \in 1..Len(stacks[v])
        /\ stacks[t][i] = stacks[v][j]
    BY <1>5
  <2> QED
    BY <2>1 DEF StackInv
<1>8. StackInv'
  <2>1. new # << >> /\ Len(new) \in 1..Len(new)
    BY <1>1, <1>3
  <2>2. new[Len(new)] \in Slots
    BY <1>3, <2>1
  <2> QED
    BY <1>1, <1>2, <1>4, <1>7, <2>1, <2>2, FdAssumption DEF StackInv
<1>9. Live' = Live \ {running}
  <2>1. ASSUME NEW q PROVE q \in Live' <=> q \in Live /\ q # running
    <3>1. q \in Live' <=> \E t \in Tasks!Terms : \E k \in 1..Len(stacks'[t]) :
                             q = stacks'[t][k]
      <4>1. \A t \in Tasks!Terms : DOMAIN stacks'[t] = 1..Len(stacks'[t])
        BY <1>4
      <4> QED
        BY <4>1 DEF Live
    <3>2. q \in Live <=> \E t \in Tasks!Terms : \E k \in 1..Len(stacks[t]) :
                             q = stacks[t][k]
      BY LiveIsOnStack
    <3>3. \A t \in Tasks!Terms : \A k \in 1..Len(stacks'[t]) : stacks'[t][k] # running
      BY <1>1, <1>5 DEF StackInv
    <3> QED
      BY <1>5, <1>6, <3>1, <3>2, <3>3
  <2> QED
    BY <2>1
<1>10. stacks' # stacks
  BY <1>1, <1>3
<1> QED
  BY <1>8, <1>9, <1>10

(* A base shell, alone on its stack, makes way for its successor, which    *)
(* may get the same slot.                                                  *)
LEMMA ReplaceKeeps ==
    ASSUME StackInv, running # NULL, Tasks!Replace
    PROVE  /\ StackInv' /\ Live' = (Live \ {running}) \cup {running'}
           /\ running' \in (Slots \ Live) \cup {running}
<1> DEFINE u == turn
           p == running'
<1>1. /\ u \in Tasks!Terms /\ stacks[u] \in Seq(Slots) /\ Len(stacks[u]) = 1
      /\ turn' = u /\ running = stacks[u][1]
      /\ stacks' = [stacks EXCEPT ![u] = << p >>]
      /\ p \in (Slots \ Live) \cup {running}
  BY LiveIsOnStack DEF StackInv, Tasks!Replace
<1>2. p \in Slots
  BY <1>1, RunningIsLive
<1>3. /\ stacks'[u] = << p >> /\ Len(stacks'[u]) = 1 /\ stacks'[u][1] = p
      /\ \A t \in Tasks!Terms \ {u} : stacks'[t] = stacks[t]
      /\ stacks' \in [Tasks!Terms -> Seq(Slots)]
  BY <1>1, <1>2 DEF StackInv
<1>4. \A t \in Tasks!Terms : \A i \in 1..Len(stacks'[t]) :
         \/ t = u /\ i = 1 /\ stacks'[t][i] = p
         \/ /\ t # u /\ i \in 1..Len(stacks[t]) /\ stacks'[t][i] = stacks[t][i]
            /\ stacks'[t][i] \in Live
  <2> SUFFICES ASSUME NEW t \in Tasks!Terms, NEW i \in 1..Len(stacks'[t])
               PROVE  \/ t = u /\ i = 1 /\ stacks'[t][i] = p
                      \/ /\ t # u /\ i \in 1..Len(stacks[t])
                         /\ stacks'[t][i] = stacks[t][i]
                         /\ stacks'[t][i] \in Live
    OBVIOUS
  <2>1. CASE t = u
    BY <1>3, <2>1
  <2>2. CASE t # u
    <3>1. i \in 1..Len(stacks[t]) /\ stacks'[t][i] = stacks[t][i]
      BY <1>3, <2>2
    <3> QED
      BY <2>2, <3>1, LiveIsOnStack
  <2> QED
    BY <2>1, <2>2
<1>5. \A t \in Tasks!Terms \ {u} : \A i \in 1..Len(stacks[t]) :
         stacks[t][i] # p /\ stacks[t][i] # running
  <2>1. 1 \in 1..Len(stacks[u])
    BY <1>1
  <2>2. \A t \in Tasks!Terms \ {u} : \A i \in 1..Len(stacks[t]) : stacks[t][i] # running
    BY <1>1, <2>1 DEF StackInv
  <2> QED
    BY <1>1, <2>2, LiveIsOnStack
<1>6. \A t, v \in Tasks!Terms :
         \A i \in 1..Len(stacks'[t]), j \in 1..Len(stacks'[v]) :
            stacks'[t][i] = stacks'[v][j] => t = v /\ i = j
  <2> SUFFICES ASSUME NEW t \in Tasks!Terms, NEW v \in Tasks!Terms,
                      NEW i \in 1..Len(stacks'[t]), NEW j \in 1..Len(stacks'[v]),
                      stacks'[t][i] = stacks'[v][j]
               PROVE  t = v /\ i = j
    OBVIOUS
  <2>1. CASE t = u /\ v = u
    BY <1>3, <2>1
  <2>2. CASE t # u /\ v # u
    <3>1. /\ i \in 1..Len(stacks[t]) /\ j \in 1..Len(stacks[v])
          /\ stacks[t][i] = stacks[v][j]
      BY <1>4, <2>2
    <3> QED
      BY <3>1 DEF StackInv
  <2>3. CASE t = u /\ v # u
    BY <1>4, <1>5, <2>3
  <2>4. CASE t # u /\ v = u
    BY <1>4, <1>5, <2>4
  <2> QED
    BY <2>1, <2>2, <2>3, <2>4
<1>7. StackInv'
  BY <1>1, <1>2, <1>3, <1>6, FdAssumption DEF StackInv
<1>8. Live' = (Live \ {running}) \cup {p}
  <2>1. ASSUME NEW q PROVE q \in Live' <=> (q \in Live /\ q # running) \/ q = p
    <3>1. q \in Live' <=> \E t \in Tasks!Terms : \E k \in 1..Len(stacks'[t]) :
                             q = stacks'[t][k]
      <4>1. \A t \in Tasks!Terms : DOMAIN stacks'[t] = 1..Len(stacks'[t])
        BY <1>3
      <4> QED
        BY <4>1 DEF Live
    <3>2. q \in Live <=> \E t \in Tasks!Terms : \E k \in 1..Len(stacks[t]) :
                             q = stacks[t][k]
      BY LiveIsOnStack
    <3>3. \A k \in 1..Len(stacks[u]) : stacks[u][k] = running
      BY <1>1
    <3>4. 1 \in 1..Len(stacks'[u])
      BY <1>3
    <3> QED
      BY <1>1, <1>3, <1>4, <1>5, <3>1, <3>2, <3>3, <3>4
  <2> QED
    BY <2>1
<1> QED
  BY <1>1, <1>7, <1>8

(* A new program takes a free slot. *)
LEMMA StartKeeps ==
    ASSUME StackInv, Tasks!Start
    PROVE  /\ StackInv' /\ Live' = Live \cup {running'} /\ stacks' # stacks
           /\ running' \in Slots \ Live
<1>1. /\ running' \in Slots \ Live /\ turn' = turn /\ turn \in Tasks!Terms
      /\ stacks' = [stacks EXCEPT ![turn] = Append(@, running')]
  BY LiveIsOnStack DEF Tasks!Start, StackInv
<1>2. NULL \notin Slots
  BY FdAssumption
<1> QED
  BY <1>1, <1>2, PushKeeps

(* A tick changes the turn only, unless it launches a shell in a free slot. *)
LEMMA RotateKeeps ==
    ASSUME StackInv, Tasks!Rotate
    PROVE  /\ StackInv'
           /\ \/ stacks' = stacks /\ Live' = Live
              \/ /\ stacks' # stacks /\ Live' = Live \cup {running'}
                 /\ running' \in Slots \ Live
<1> DEFINE u == (turn + 1) % 3
<1>1. u \in Tasks!Terms /\ turn' = u
  BY DEF Tasks!Rotate, Tasks!Terms, StackInv
<1> HIDE DEF u
<1>2. CASE stacks[u] # << >> /\ stacks' = stacks
  <2>1. running' = stacks[u][Len(stacks[u])] /\ stacks[u] \in Seq(Slots)
    BY <1>1, <1>2 DEF Tasks!Rotate, Tasks!Top, StackInv
  <2>2. running' \in Slots
    BY <1>2, <2>1
  <2>3. StackInv'
    BY <1>1, <1>2, <2>1, <2>2, FdAssumption DEF StackInv
  <2>4. Live' = Live
    BY <1>2 DEF Live
  <2> QED
    BY <1>2, <2>3, <2>4
<1>3. CASE stacks[u] = << >> /\ \E p \in Tasks!Free : stacks' = [stacks EXCEPT ![u] = << p >>]
  <2>1. PICK p \in Tasks!Free : stacks' = [stacks EXCEPT ![u] = << p >>]
    BY <1>3
  <2>2. stacks'[u] = << p >>
    BY <1>1, <2>1 DEF StackInv
  <2>3. running' = p
    <3>1. running' = stacks'[u][Len(stacks'[u])]
      BY <1>1 DEF Tasks!Rotate, Tasks!Top
    <3> QED
      BY <2>2, <3>1
  <2>4. p \in Slots \ Live /\ NULL \notin Slots
    BY LiveIsOnStack, FdAssumption
  <2>5. stacks' = [stacks EXCEPT ![u] = Append(@, p)]
    <3>1. Append(<< >>, p) = << p >>
      OBVIOUS
    <3> QED
      BY <1>1, <1>3, <2>1, <3>1 DEF StackInv
  <2> QED
    BY <1>1, <2>3, <2>4, <2>5, PushKeeps
<1> QED
  BY <1>1, <1>2, <1>3 DEF Tasks!Rotate

-----------------------------------------------------------------------------
(* The descriptors. *)

(* Every non-empty set of naturals has a least element. *)
LEMMA LeastNat ==
    ASSUME NEW S \in SUBSET Nat, S # {}
    PROVE  \E n \in S : \A m \in S : n <= m
<1> DEFINE R == OpToRel(<, Nat)
<1>1. IsWellFoundedOn(R, Nat)
  BY NatLessThanWellFounded
<1>2. \A a, b \in Nat : a < b => << a, b >> \in R
  BY DEF OpToRel
<1> HIDE DEF R
<1>3. PICK n \in S : \A m \in S : ~ (<< m, n >> \in R)
  BY <1>1, WFMin
<1>4. ASSUME NEW m \in S PROVE n <= m
  <2>1. m \in Nat /\ n \in Nat
    OBVIOUS
  <2>2. ~(m < n)
    BY <1>2, <1>3, <2>1
  <2> QED
    BY <2>1, <2>2
<1> QED
  BY <1>3, <1>4

(* open finds a descriptor that is free. *)
LEMMA LowestIsFree ==
    ASSUME NEW p, FreeFds(p) # {}
    PROVE  LowestFree(p) \in FreeFds(p)
<1>1. FreeFds(p) \in SUBSET Nat
  BY FdAssumption DEF FreeFds, Fds
<1>2. \E n \in FreeFds(p) : \A m \in FreeFds(p) : n <= m
  BY <1>1, LeastNat
<1> QED
  BY <1>2 DEF LowestFree, Min

FdType == [fotp : Kinds \cup {"stdin", "stdout", NULL},
           file_position : 0..MaxPos,
           in_use_flag : {"IN_USE", "NOT_IN_USE"}]

\* stdin and stdout are in place while a process lives.
StdFds == \A p \in Live : /\ fd_arr[p][0] = InUse("stdin")
                          /\ fd_arr[p][1] = InUse("stdout")

\* A descriptor in use has its table.
HaveTables == \A p \in Slots, i \in Fds :
                 fd_arr[p][i].in_use_flag = "IN_USE" => fd_arr[p][i].fotp # NULL

\* What open has found is still free; a slot that is not live has no open.
OpenFree == \A p \in Slots : opening[p] # NULL =>
               /\ p \in Live
               /\ fd_arr[p][opening[p].fd].in_use_flag # "IN_USE"

\* The argument buffer holds what execute copied.
Args == arg \in [Slots -> Words \cup {NULL}] /\ given = arg

FdInv ==
    /\ StackInv
    /\ fd_arr \in [Slots -> [Fds -> FdType]]
    /\ opening \in [Slots -> [fd : Fds, kind : Kinds] \cup {NULL}]
    /\ StdFds /\ HaveTables /\ OpenFree /\ Args

(* The descriptors execute sets up. *)
LEMMA FreshFdsType ==
    /\ FreshFds \in [Fds -> FdType] /\ 0 \in Fds /\ 1 \in Fds
    /\ FreshFds[0] = InUse("stdin") /\ FreshFds[1] = InUse("stdout")
    /\ \A i \in Fds : i \notin {0, 1} => FreshFds[i] = Unused
    /\ \A i \in Fds : FreshFds[i].in_use_flag = "IN_USE" => FreshFds[i].fotp # NULL
    /\ Unused \in FdType
    /\ \A kind \in Kinds : InUse(kind) \in FdType
<1>1. 0 \in Fds /\ 1 \in Fds /\ Fds \subseteq Int /\ 0 \in 0..MaxPos
  BY FdAssumption DEF Fds
<1>2. Unused \in FdType /\ InUse("stdin") \in FdType /\ InUse("stdout") \in FdType
      /\ \A kind \in Kinds : InUse(kind) \in FdType
  BY <1>1 DEF Unused, InUse, FdType
<1>3. \A i \in Fds : FreshFds[i] = IF i = 0 THEN InUse("stdin")
                                   ELSE IF i = 1 THEN InUse("stdout") ELSE Unused
  BY <1>1 DEF FreshFds
<1>4. FreshFds \in [Fds -> FdType]
  <2>1. FreshFds = [i \in Fds |-> FreshFds[i]]
    BY DEF FreshFds
  <2> QED
    BY <1>2, <1>3, <2>1
<1>5. \A i \in Fds : FreshFds[i].in_use_flag = "IN_USE" => FreshFds[i].fotp # NULL
  BY <1>3, FdAssumption DEF InUse, Unused
<1> QED
  BY <1>1, <1>2, <1>3, <1>4, <1>5

(* No process lives before the first shell. *)
LEMMA InitFds == Init => FdInv
<1> SUFFICES ASSUME Init PROVE FdInv
  OBVIOUS
<1>1. StackInv
  BY DEF Init, Tasks!Init, StackInv, Tasks!Terms
<1>2. Live = {}
  BY <1>1, LiveIsOnStack DEF Init, Tasks!Init
<1>3. /\ fd_arr \in [Slots -> [Fds -> FdType]]
      /\ opening \in [Slots -> [fd : Fds, kind : Kinds] \cup {NULL}]
  BY FreshFdsType DEF Init
<1>4. HaveTables
  BY DEF Init, HaveTables, Unused
<1> QED
  BY <1>1, <1>2, <1>3, <1>4 DEF Init, FdInv, StdFds, OpenFree, Args

(* execute sets up the PCB of a process that was not live, or that ends.   *)
LEMMA SetUpKeeps ==
    ASSUME FdInv, StackInv', NEW p \in Slots, opening[p] = NULL, SetUp(p),
           Live' \subseteq Live \cup {p},
           \A q \in Live : q # p /\ opening[q] # NULL => q \in Live',
           opening' = opening
    PROVE  FdInv'
<1>1. PICK word \in Words \cup {NULL} : /\ arg' = [arg EXCEPT ![p] = word]
                                        /\ given' = [given EXCEPT ![p] = word]
  BY DEF SetUp, CopyArg
<1>2. fd_arr' = [fd_arr EXCEPT ![p] = FreshFds] /\ fd_arr'[p] = FreshFds
      /\ \A q \in Slots \ {p} : fd_arr'[q] = fd_arr[q]
  BY DEF SetUp, FdInv
<1>3. fd_arr' \in [Slots -> [Fds -> FdType]]
  BY <1>2, FreshFdsType DEF FdInv
<1>4. StdFds'
  BY <1>2, FreshFdsType, LiveIsOnStack DEF FdInv, StdFds
<1>5. HaveTables'
  BY <1>2, FreshFdsType DEF FdInv, HaveTables
<1>6. OpenFree'
  BY <1>2 DEF FdInv, OpenFree
<1>7. Args'
  BY <1>1 DEF FdInv, Args
<1> QED
  BY <1>3, <1>4, <1>5, <1>6, <1>7 DEF FdInv

(* A process that starts, on its own terminal's turn, for an old shell or  *)
(* by a tick.                                                              *)
LEMMA StartsKeep ==
    ASSUME FdInv, execute \/ haltBaseShell \/ task_switch
    PROVE  FdInv'
<1>1. StackInv /\ OpenFree
  BY DEF FdInv
<1>2. opening' = opening
  BY DEF execute, haltBaseShell, task_switch
<1>3. CASE execute
  <2>1. /\ StackInv' /\ Live' = Live \cup {running'}
        /\ running' \in Slots \ Live /\ SetUp(running')
    BY <1>1, <1>3, StartKeeps DEF execute
  <2>2. opening[running'] = NULL
    BY <1>1, <2>1 DEF OpenFree
  <2> QED
    BY <1>2, <2>1, <2>2, SetUpKeeps
<1>4. CASE haltBaseShell
  <2>1. running # NULL /\ opening[running] = NULL /\ SetUp(running')
    BY <1>4 DEF haltBaseShell, Calling
  <2>2. /\ StackInv' /\ Live' = (Live \ {running}) \cup {running'}
        /\ running' \in (Slots \ Live) \cup {running}
    BY <1>1, <1>4, <2>1, ReplaceKeeps DEF haltBaseShell
  <2>3. running' \in Slots /\ opening[running'] = NULL
    BY <1>1, <2>1, <2>2, RunningIsLive DEF OpenFree
  <2> QED
    BY <1>2, <2>1, <2>2, <2>3, SetUpKeeps
<1>5. CASE task_switch
  <2>1. /\ StackInv'
        /\ \/ stacks' = stacks /\ Live' = Live
           \/ /\ stacks' # stacks /\ Live' = Live \cup {running'}
              /\ running' \in Slots \ Live
    BY <1>1, <1>5, RotateKeeps DEF task_switch
  <2>2. CASE stacks' = stacks
    <3>1. UNCHANGED << fd_arr, arg, given, opening >>
      BY <1>5, <2>2 DEF task_switch
    <3> QED
      BY <2>1, <2>2, <3>1 DEF FdInv, StdFds, HaveTables, OpenFree, Args
  <2>3. CASE stacks' # stacks
    <3>1. SetUp(running') /\ opening[running'] = NULL
      BY <1>1, <1>5, <2>1, <2>3 DEF task_switch, OpenFree
    <3> QED
      BY <1>2, <2>1, <2>3, <3>1, SetUpKeeps
  <2> QED
    BY <2>2, <2>3
<1> QED
  BY <1>3, <1>4, <1>5

(* halt closes the descriptors of the process that leaves, of no other.    *)
LEMMA HaltKeeps ==
    ASSUME FdInv, halt
    PROVE  FdInv' /\ \A q \in Slots \ {running} : fd_arr'[q] = fd_arr[q]
<1> DEFINE p == running
           new == [i \in Fds |->
                     IF fd_arr[p][i].in_use_flag = "IN_USE" THEN Unused ELSE fd_arr[p][i]]
<1>1. running # NULL /\ opening[p] = NULL /\ StackInv
  BY DEF halt, Calling, FdInv
<1>2. p \in Slots /\ p \in Live
  BY <1>1, RunningIsLive
<1>3. StackInv' /\ Live' = Live \ {p}
  BY <1>1, PopKeeps DEF halt
<1>4. fd_arr' = [fd_arr EXCEPT ![p] = new]
  BY DEF halt, ClosedByHalt
<1>5. new \in [Fds -> FdType]
  BY <1>2, FreshFdsType DEF FdInv
<1> HIDE DEF new
<1>6. /\ fd_arr' \in [Slots -> [Fds -> FdType]] /\ fd_arr'[p] = new
      /\ \A q \in Slots \ {p} : fd_arr'[q] = fd_arr[q]
  BY <1>2, <1>4, <1>5 DEF FdInv
<1>7. UNCHANGED << arg, opening, given >>
  BY DEF halt
<1>8. StdFds' /\ OpenFree'
  BY <1>1, <1>3, <1>6, <1>7, LiveIsOnStack DEF FdInv, StdFds, OpenFree
<1>9. HaveTables'
  <2>1. \A i \in Fds : new[i].in_use_flag = "IN_USE" => FALSE
    BY DEF new, Unused
  <2> QED
    BY <1>6, <2>1 DEF FdInv, HaveTables
<1>10. Args'
  BY <1>7 DEF FdInv, Args
<1> QED
  BY <1>3, <1>6, <1>7, <1>8, <1>9, <1>10 DEF FdInv

(* open finds a descriptor, and nothing else changes. *)
LEMMA OpenFindKeeps == ASSUME FdInv, openFind PROVE FdInv'
<1>1. running # NULL /\ opening[running] = NULL /\ StackInv /\ FreeFds(running) # {}
  BY DEF openFind, Calling, FdInv
<1>2. running \in Slots /\ running \in Live
  BY <1>1, RunningIsLive
<1>3. PICK kind \in Kinds : opening' = [opening EXCEPT ![running] =
                                [fd |-> LowestFree(running), kind |-> kind]]
  BY DEF openFind
<1>4. /\ LowestFree(running) \in Fds
      /\ fd_arr[running][LowestFree(running)].in_use_flag # "IN_USE"
  BY <1>1, LowestIsFree DEF FreeFds
<1>5. opening' \in [Slots -> [fd : Fds, kind : Kinds] \cup {NULL}]
  BY <1>3, <1>4 DEF FdInv
<1>6. UNCHANGED << stacks, turn, running, fd_arr, arg, given >>
  BY DEF openFind, taskVars
<1>7. Live' = Live /\ StackInv'
  BY <1>1, <1>6 DEF Live, StackInv
<1>8. OpenFree'
  BY <1>2, <1>3, <1>4, <1>6, <1>7 DEF FdInv, OpenFree
<1> QED
  BY <1>5, <1>6, <1>7, <1>8 DEF FdInv, StdFds, HaveTables, Args

(* A step of the running process that changes one of its descriptors,      *)
(* neither stdin nor stdout.                                               *)
LEMMA OneFdKeeps ==
    ASSUME FdInv, running # NULL, NEW i \in Fds \ {0, 1}, NEW d \in FdType,
           fd_arr' = [fd_arr EXCEPT ![running] = [@ EXCEPT ![i] = d]],
           d.in_use_flag = "IN_USE" => d.fotp # NULL,
           opening' = [opening EXCEPT ![running] = NULL],
           UNCHANGED << stacks, turn, running, arg, given >>
    PROVE  FdInv'
<1>1. running \in Slots /\ StackInv
  BY RunningIsLive DEF FdInv
<1>2. Live' = Live /\ StackInv'
  BY <1>1 DEF Live, StackInv
<1>3. /\ fd_arr'[running] = [fd_arr[running] EXCEPT ![i] = d]
      /\ fd_arr'[running] \in [Fds -> FdType]
      /\ \A q \in Slots \ {running} : fd_arr'[q] = fd_arr[q]
  BY <1>1 DEF FdInv
<1>4. fd_arr' \in [Slots -> [Fds -> FdType]]
      /\ opening' \in [Slots -> [fd : Fds, kind : Kinds] \cup {NULL}]
  BY <1>1, <1>3 DEF FdInv
<1>5. fd_arr'[running][i] = d /\ \A j \in Fds \ {i} : fd_arr'[running][j] = fd_arr[running][j]
  BY <1>1, <1>3 DEF FdInv
<1>6. StdFds'
  BY <1>1, <1>2, <1>3, <1>5, FreshFdsType, LiveIsOnStack DEF FdInv, StdFds
<1>7. HaveTables'
  BY <1>1, <1>3, <1>5 DEF FdInv, HaveTables
<1>8. OpenFree'
  BY <1>1, <1>2, <1>3 DEF FdInv, OpenFree
<1> QED
  BY <1>2, <1>4, <1>6, <1>7, <1>8 DEF FdInv, Args

(* A descriptor that is free or that close accepts is neither stdin nor    *)
(* stdout of the running process.                                          *)
LEMMA NotStd ==
    ASSUME FdInv, running # NULL, NEW i \in Fds,
           \/ fd_arr[running][i].in_use_flag # "IN_USE"
           \/ fd_arr[running][i].fotp \notin {"stdin", "stdout"}
    PROVE  i \notin {0, 1}
<1>1. fd_arr[running][0] = InUse("stdin") /\ fd_arr[running][1] = InUse("stdout")
  BY RunningIsLive DEF FdInv, StdFds
<1> QED
  BY <1>1 DEF InUse

(* The second half of open fills in the descriptor it found, which is      *)
(* still free.                                                             *)
LEMMA OpenFillKeeps ==
    ASSUME FdInv, openFill
    PROVE  /\ FdInv'
           /\ \E i \in Fds, d \in FdType :
                 /\ fd_arr' = [fd_arr EXCEPT ![running] = [@ EXCEPT ![i] = d]]
                 /\ fd_arr[running][i].in_use_flag # "IN_USE"
<1> DEFINE o == opening[running]
<1>1. running # NULL /\ o # NULL /\ running \in Slots
  BY RunningIsLive DEF openFill, FdInv
<1>2. o.fd \in Fds /\ o.kind \in Kinds
      /\ fd_arr[running][o.fd].in_use_flag # "IN_USE"
  BY <1>1 DEF FdInv, OpenFree
<1>3. o.fd \in Fds \ {0, 1}
  BY <1>1, <1>2, NotStd
<1>4. /\ fd_arr' = [fd_arr EXCEPT ![running] = [@ EXCEPT ![o.fd] = InUse(o.kind)]]
      /\ opening' = [opening EXCEPT ![running] = NULL]
      /\ UNCHANGED << stacks, turn, running, arg, given >>
  BY DEF openFill, taskVars
<1>5. InUse(o.kind) \in FdType /\ InUse(o.kind).fotp # NULL
  BY <1>2, FreshFdsType, FdAssumption DEF InUse
<1>6. FdInv'
  BY <1>1, <1>3, <1>4, <1>5, OneFdKeeps
<1> QED
  BY <1>2, <1>4, <1>5, <1>6

(* close gives a descriptor back. *)
LEMMA CloseKeeps ==
    ASSUME FdInv, close
    PROVE  /\ FdInv'
           /\ \E i \in Fds, d \in FdType :
                 /\ fd_arr' = [fd_arr EXCEPT ![running] = [@ EXCEPT ![i] = d]]
                 /\ d.in_use_flag # "IN_USE"
<1>1. running # NULL /\ opening[running] = NULL /\ running \in Slots
  BY RunningIsLive DEF close, Calling, FdInv
<1>2. PICK i \in Fds :
         /\ MayClose(running, i)
         /\ fd_arr' = [fd_arr EXCEPT ![running][i].in_use_flag = "NOT_IN_USE"]
  BY DEF close
<1> DEFINE d == [fd_arr[running][i] EXCEPT !.in_use_flag = "NOT_IN_USE"]
<1>3. fd_arr[running][i] \in FdType
  BY <1>1 DEF FdInv
<1>4. d \in FdType /\ d.in_use_flag = "NOT_IN_USE"
  BY <1>3 DEF FdType
<1>5. fd_arr' = [fd_arr EXCEPT ![running] = [@ EXCEPT ![i] = d]]
  BY <1>1, <1>2 DEF FdInv
<1>6. /\ opening' = [opening EXCEPT ![running] = NULL]
      /\ UNCHANGED << stacks, turn, running, arg, given >>
  BY <1>1 DEF close, taskVars, FdInv
<1>7. i \in Fds \ {0, 1}
  BY <1>2 DEF MayClose
<1> HIDE DEF d
<1>8. FdInv'
  BY <1>1, <1>4, <1>5, <1>6, <1>7, OneFdKeeps
<1> QED
  BY <1>4, <1>5, <1>8

(* read moves the position of a file forwards. *)
LEMMA ReadKeeps ==
    ASSUME FdInv, read
    PROVE  /\ FdInv'
           /\ \E i \in Fds, d \in FdType :
                 /\ fd_arr' = [fd_arr EXCEPT ![running] = [@ EXCEPT ![i] = d]]
                 /\ d.fotp = fd_arr[running][i].fotp
                 /\ d.file_position >= fd_arr[running][i].file_position
<1>1. running # NULL /\ opening[running] = NULL /\ running \in Slots
  BY RunningIsLive DEF read, Calling, FdInv
<1>2. PICK i \in Fds :
         /\ fd_arr[running][i].in_use_flag = "IN_USE"
         /\ fd_arr[running][i].fotp = "file"
         /\ fd_arr[running][i].file_position < MaxPos
         /\ fd_arr' = [fd_arr EXCEPT ![running][i].file_position = @ + 1]
  BY DEF read
<1> DEFINE c == fd_arr[running][i]
           d == [c EXCEPT !.file_position = c.file_position + 1]
<1>3. c \in FdType
  BY <1>1 DEF FdInv
<1>4. c.file_position \in Nat /\ c.file_position + 1 \in 0..MaxPos
  BY <1>2, <1>3, FdAssumption DEF FdType
<1>5. d \in FdType /\ d.file_position = c.file_position + 1 /\ d.fotp = c.fotp
  BY <1>3, <1>4 DEF FdType
<1>6. fd_arr' = [fd_arr EXCEPT ![running] = [@ EXCEPT ![i] = d]]
  BY <1>1, <1>2 DEF FdInv
<1>7. /\ opening' = [opening EXCEPT ![running] = NULL]
      /\ UNCHANGED << stacks, turn, running, arg, given >>
  BY <1>1 DEF read, taskVars, FdInv
<1>8. i \in Fds \ {0, 1}
  BY <1>1, <1>2, NotStd
<1>9. d.fotp # NULL
  BY <1>1, <1>2, <1>5 DEF FdInv, HaveTables
<1>10. d.file_position >= fd_arr[running][i].file_position
  BY <1>4, <1>5
<1>11. d \in FdType /\ d.fotp = fd_arr[running][i].fotp
  BY <1>5
<1> HIDE DEF d
<1>12. FdInv'
  BY <1>1, <1>6, <1>7, <1>8, <1>9, <1>11, OneFdKeeps
<1> QED
  BY <1>6, <1>10, <1>11, <1>12

(* Every operation keeps the invariant. *)
LEMMA NextFds == FdInv /\ [Next]_vars => FdInv'
<1> SUFFICES ASSUME FdInv, [Next]_vars PROVE FdInv'
  OBVIOUS
<1>1. CASE UNCHANGED vars
  BY <1>1 DEF vars, FdInv, StackInv, Live, StdFds, HaveTables, OpenFree, Args
<1>2. CASE execute \/ haltBaseShell \/ task_switch
  BY <1>2, StartsKeep
<1>3. CASE halt
  BY <1>3, HaltKeeps
<1>4. CASE openFind
  BY <1>4, OpenFindKeeps
<1>5. CASE openFill
  BY <1>5, OpenFillKeeps
<1>6. CASE close
  BY <1>6, CloseKeeps
<1>7. CASE read
  BY <1>7, ReadKeeps
<1> QED
  BY <1>1, <1>2, <1>3, <1>4, <1>5, <1>6, <1>7 DEF Next

(* For any set of slots, any number of descriptors and opens: fd_arr, the  *)
(* argument buffer and the open that task_switch may have interrupted keep *)
(* their types; open never goes outside fd_arr.                            *)
THEOREM FdTypes == Spec => []TypeOK
<1>1. FdInv => TypeOK
  BY DEF FdInv, Args, TypeOK, FdType
<1> QED
  BY <1>1, InitFds, NextFds, PTL DEF Spec

(* A live process has stdin and stdout, and a table behind every           *)
(* descriptor in use, so read, write and close never call through NULL.    *)
THEOREM FdTables == Spec => []TablesInPlace
<1>1. FdInv => TablesInPlace
  <2> SUFFICES ASSUME FdInv PROVE TablesInPlace
    OBVIOUS
  <2>1. Live \subseteq Slots
    BY LiveIsOnStack DEF FdInv
  <2> QED
    BY <2>1 DEF FdInv, StdFds, HaveTables, TablesInPlace, InUse
<1> QED
  BY <1>1, InitFds, NextFds, PTL DEF Spec

(* getargs returns the argument its own program was started with, in       *)
(* whatever order slots are freed and used again.                          *)
THEOREM FdArgs == Spec => []ArgIsOwn
<1>1. FdInv => ArgIsOwn
  <2> SUFFICES ASSUME FdInv PROVE ArgIsOwn
    OBVIOUS
  <2>1. Live \subseteq Slots
    BY LiveIsOnStack DEF FdInv
  <2> QED
    BY <2>1 DEF FdInv, Args, ArgIsOwn, getargs
<1> QED
  BY <1>1, InitFds, NextFds, PTL DEF Spec

(* Starts touch the new process only. *)
LEMMA StartsTouchNew ==
    ASSUME FdInv, execute \/ haltBaseShell \/ task_switch, NEW p \in Live
    PROVE  /\ p # running => fd_arr'[p] = fd_arr[p]
           /\ \/ fd_arr'[p] = fd_arr[p]
              \/ haltBaseShell /\ p = running' /\ fd_arr'[p] = FreshFds
<1>1. StackInv /\ p \in Slots
  BY LiveIsOnStack DEF FdInv
<1>2. CASE execute
  <2>1. running' # p /\ fd_arr' = [fd_arr EXCEPT ![running'] = FreshFds]
    BY <1>1, <1>2, StartKeeps DEF execute, SetUp
  <2> QED
    BY <1>1, <2>1 DEF FdInv
<1>3. CASE haltBaseShell
  <2>1. /\ running' # p \/ running' = running
        /\ fd_arr' = [fd_arr EXCEPT ![running'] = FreshFds]
    BY <1>1, <1>3, ReplaceKeeps DEF haltBaseShell, Calling, SetUp
  <2> QED
    BY <1>1, <1>3, <2>1 DEF FdInv
<1>4. CASE task_switch
  <2>1. CASE stacks' = stacks
    BY <1>4, <2>1 DEF task_switch
  <2>2. CASE stacks' # stacks
    <3>1. running' # p /\ fd_arr' = [fd_arr EXCEPT ![running'] = FreshFds]
      BY <1>1, <1>4, <2>2, RotateKeeps DEF task_switch, SetUp
    <3> QED
      BY <1>1, <3>1 DEF FdInv
  <2> QED
    BY <2>1, <2>2
<1> QED
  BY <1>2, <1>3, <1>4

(* However many programs start, open, close, read and end elsewhere, a     *)
(* process that waits finds its descriptors as it left them: also in the   *)
(* middle of an open that a tick has interrupted.                          *)
THEOREM FdWaiting == Spec => WaitingKeepsDescriptors
<1>1. FdInv /\ [Next]_vars =>
         [\A p \in Live : p # running /\ p \in Live' => fd_arr'[p] = fd_arr[p]]_vars
  <2> SUFFICES ASSUME FdInv, Next, NEW p \in Live, p # running
               PROVE  fd_arr'[p] = fd_arr[p]
    OBVIOUS
  <2>1. p \in Slots
    BY LiveIsOnStack DEF FdInv
  <2>2. CASE execute \/ haltBaseShell \/ task_switch
    BY <2>2, StartsTouchNew
  <2>3. CASE halt
    BY <2>1, <2>3, HaltKeeps
  <2>4. CASE openFind
    BY <2>4 DEF openFind
  <2>5. CASE openFill \/ close \/ read
    <3>1. PICK d : fd_arr' = [fd_arr EXCEPT ![running] = d]
      BY <2>5, OpenFillKeeps, CloseKeeps, ReadKeeps
    <3> QED
      BY <2>1, <3>1 DEF FdInv
  <2> QED
    BY <2>2, <2>3, <2>4, <2>5 DEF Next
<1> QED
  BY <1>1, InitFds, NextFds, PTL DEF Spec, WaitingKeepsDescriptors

(* open never overwrites an open file, although other terminals run        *)
(* between its choice of a descriptor and its stores.                      *)
THEOREM FdOpenKept == Spec => OpenFilesKept
<1>1. ASSUME FdInv, Next, NEW p \in Live, NEW i \in Fds, p = running,
             stacks' = stacks,
             fd_arr[p][i].in_use_flag = "IN_USE", fd_arr'[p][i].in_use_flag = "IN_USE"
      PROVE  /\ fd_arr'[p][i].fotp = fd_arr[p][i].fotp
             /\ fd_arr'[p][i].file_position >= fd_arr[p][i].file_position
  <2>1. p \in Slots /\ fd_arr[p] \in [Fds -> FdType]
        /\ fd_arr[p][i].file_position \in Int
    BY <1>1, LiveIsOnStack DEF FdInv, FdType
  <2>2. CASE fd_arr'[p] = fd_arr[p]
    BY <2>1, <2>2
  <2>3. CASE fd_arr'[p] = FreshFds
    <3>1. fd_arr[p][0] = InUse("stdin") /\ fd_arr[p][1] = InUse("stdout")
      BY <1>1 DEF FdInv, StdFds
    <3>2. i = 0 \/ i = 1
      BY <1>1, <2>3, FreshFdsType DEF Unused
    <3>3. fd_arr'[p][i] = fd_arr[p][i]
      BY <2>3, <3>1, <3>2, FreshFdsType
    <3> QED
      BY <2>1, <3>3
  <2>4. CASE execute \/ haltBaseShell \/ task_switch
    BY <1>1, <2>2, <2>3, <2>4, StartsTouchNew
  <2>5. CASE halt
    BY <1>1, <2>5, PopKeeps DEF halt, FdInv
  <2>6. CASE openFind
    BY <2>2, <2>6 DEF openFind
  <2>7. CASE openFill \/ close \/ read
    <3>1. PICK j \in Fds, d \in FdType :
             /\ fd_arr' = [fd_arr EXCEPT ![p] = [@ EXCEPT ![j] = d]]
             /\ \/ fd_arr[p][j].in_use_flag # "IN_USE"
                \/ d.in_use_flag # "IN_USE"
                \/ /\ d.fotp = fd_arr[p][j].fotp
                   /\ d.file_position >= fd_arr[p][j].file_position
      BY <1>1, <2>7, OpenFillKeeps, CloseKeeps, ReadKeeps
    <3>2. fd_arr'[p] = [fd_arr[p] EXCEPT ![j] = d]
      BY <1>1, <2>1, <3>1 DEF FdInv
    <3>3. fd_arr'[p][i] = IF i = j THEN d ELSE fd_arr[p][i]
      BY <2>1, <3>2
    <3> QED
      BY <1>1, <2>1, <3>1, <3>3
  <2> QED
    BY <1>1, <2>4, <2>5, <2>6, <2>7 DEF Next
<1>2. FdInv /\ [Next]_vars =>
        [\A p \in Live, i \in Fds :
          LET old == fd_arr[p][i]
              new == fd_arr'[p][i]
          IN  /\ p \in Live' /\ p = running /\ stacks' = stacks
              /\ old.in_use_flag = "IN_USE" /\ new.in_use_flag = "IN_USE"
              => /\ new.fotp = old.fotp
                 /\ new.file_position >= old.file_position]_vars
  BY <1>1
<1> QED
  BY <1>2, InitFds, NextFds, PTL DEF Spec, OpenFilesKept
=============================================================================
