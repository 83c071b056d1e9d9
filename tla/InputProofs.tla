---------------------------- MODULE InputProofs ----------------------------
(***************************************************************************)
(* Proofs about Input and InputHistory, for every number of terminals and  *)
(* every buffer size.  First memory safety of the keyboard and terminal    *)
(* buffers, for every interleaving that Input allows; then that lines are  *)
(* what was typed, and reads what was entered.                             *)
(***************************************************************************)
EXTENDS InputHistory, TLAPS, WellFoundedInduction, SequenceTheorems

(* Every non-empty set of naturals has a least element. *)
LEMMA LeastNat ==
    ASSUME NEW S \in SUBSET Nat, S # {}
    PROVE  \E n \in S : \A m \in S : n <= m
<1> DEFINE R == OpToRel(<, Nat)
<1>1. IsWellFoundedOn(R, Nat)
  BY NatLessThanWellFounded
<1>2. \A a, b \in Nat : a < b => <<a, b>> \in R
  BY DEF OpToRel
<1> HIDE DEF R
<1>3. PICK n \in S : \A m \in S : ~ (<<m, n>> \in R)
  BY <1>1, WFMin
<1>4. ASSUME NEW m \in S PROVE n <= m
  <2>1. m \in Nat /\ n \in Nat
    OBVIOUS
  <2>2. ~(m < n)
    BY <1>2, <1>3, <2>1
  <2> QED
    BY <2>1, <2>2
<1> QED
  BY <1>3, <1>4

(* A buffer that ends in NUL holds a string, and strlen finds its end. *)
LEMMA StrlenFacts ==
    ASSUME NEW buf \in [Index -> Byte], buf[KB_SIZE - 1] = NUL
    PROVE  strlen(buf) \in Index
<1> DEFINE S == {n \in Index : buf[n] = NUL}
<1>1. KB_SIZE - 1 \in S /\ S \in SUBSET Nat
  BY InputAssumption DEF Index
<1>2. PICK n \in S : \A m \in S : n <= m
  BY <1>1, LeastNat
<1>3. ASSUME NEW m \in 0..(n - 1) PROVE buf[m] # NUL
  <2>1. m \in Index /\ ~(n <= m)
    BY <1>2, InputAssumption DEF Index
  <2> QED
    BY <1>2, <2>1
<1>4. \E k \in Index : buf[k] = NUL /\ \A m \in 0..(k - 1) : buf[m] # NUL
  BY <1>2, <1>3
<1> QED
  BY <1>4 DEF strlen

-----------------------------------------------------------------------------
(* The inductive invariant. *)

OpNames == {"add", "put", "del", "erase", "copy",
            "save", "clear", "load", "show"}

\* A length in flight: room for the character and the NUL, or one to erase.
Ops == {o \in [op : OpNames, arg : Byte \cup Terms, len : Index] :
          /\ o.op \in {"add", "put"} => o.arg \in Byte
          /\ o.op = "put" => o.len + 1 < KB_SIZE
          /\ o.op = "erase" => o.len > 0
          /\ o.op \in {"save", "clear", "load", "show"} => o.arg \in Terms}

HandlersOK == handler \in [Terms -> Seq(Ops)]

(* Calls of terminal_read stay inside int_buf and the program's buffer; the*)
(* shift loop gets behind int_buf only where it starts there, and then     *)
(* moves at most one byte.                                                 *)
Calls == {r \in [pc : {"idle", "spin", "copy", "reset", "shift", "done"},
                 n : 0..KB_SIZE, i : 0..(KB_SIZE + 1), c : Index,
                 dest : Seq(Byte)] :
            /\ r.pc \in {"spin", "copy"} => r.n > 0
            /\ r.pc \in {"spin", "copy", "reset"} => Len(r.dest) = r.i
            /\ r.pc \in {"spin", "copy"} => r.i <= r.n
            /\ r.i \in Index \/ (r.n >= KB_SIZE - 1
                                 /\ r.i \in {KB_SIZE, KB_SIZE + 1})
            /\ r.pc = "reset" => r.i < r.n /\ r.i < KB_SIZE - 1
            /\ r.pc \in {"spin", "copy", "reset"} => r.c = 0
            /\ r.pc = "shift" => r.c < r.i
            /\ r.pc = "shift" /\ r.i = KB_SIZE => r.c = 0}

ReadersOK == reader \in [Terms -> Calls]

BuffersOK ==
    /\ kb_buf \in [Index -> Byte]
    /\ table_kb_buf \in [Terms -> [Index -> Byte]]
    /\ int_buf \in [Index -> Byte]

FlagsOK == terminal_read_release \in
              [Terms -> {"ENTER_WAITING", "ENTER_RELEASED"}]

LInv ==
    /\ active_terminal \in Terms
    /\ active_task \in Terms
    /\ BuffersOK
    /\ FlagsOK
    /\ LinesTerminated
    /\ HandlersOK
    /\ ReadersOK

(* The constants' elementary consequences. *)
LEMMA Basics ==
    /\ 0 \in Terms
    /\ 0 \in Index /\ KB_SIZE - 1 \in Index /\ KB_SIZE - 1 # 0
    /\ NUL \in Byte /\ NL \in Byte /\ SOH \in Byte /\ NUL # NL
    /\ EmptyBuf \in [Index -> Byte] /\ EmptyBuf[KB_SIZE - 1] = NUL
BY InputAssumption DEF Terms, Index, Byte, EmptyBuf

(* No call, all lines empty: the invariant holds at boot. *)
LEMMA InitLInv == Init => LInv
<1> SUFFICES ASSUME Init PROVE LInv
  OBVIOUS
<1>1. BuffersOK /\ FlagsOK /\ LinesTerminated
  BY Basics DEF Init, BuffersOK, FlagsOK, LinesTerminated
<1>2. HandlersOK
  BY DEF Init, HandlersOK
<1>3. NoRead \in Calls
  BY Basics, InputAssumption DEF NoRead, Calls
<1>4. ReadersOK
  BY <1>3 DEF Init, ReadersOK
<1> QED
  BY <1>1, <1>2, <1>4, Basics DEF Init, LInv

-----------------------------------------------------------------------------
(* Keys: what the handler is left to do is well formed. *)

(* Letters, backspace, Enter, Ctrl-L and Alt with a function key. *)
LEMMA KeysKeepLInv ==
    ASSUME LInv,
           \/ \E k \in Letters : KeyChar(k)
           \/ KeyBackspace
           \/ KeyEnter
           \/ KeyCtrlL
           \/ \E new \in Terms : KeySwitch(new)
    PROVE  LInv'
<1>1. ASSUME HandlersOK',
             UNCHANGED << active_terminal, active_task, kb_buf, table_kb_buf,
                          int_buf, reader >>,
             FlagsOK'
      PROVE  LInv'
  BY <1>1 DEF LInv, BuffersOK, LinesTerminated, ReadersOK
<1>2. ASSUME NEW name \in OpNames, NEW arg \in Byte \cup Terms,
             name \in {"add"} => arg \in Byte,
             name \notin {"put", "erase"},
             name \in {"save", "clear", "load", "show"} => arg \in Terms
      PROVE  Op(name, arg) \in Ops
  BY <1>2, Basics DEF Op, Ops
<1>3. ASSUME NEW k \in Letters, KeyChar(k) PROVE LInv'
  <2>1. [by |-> active_terminal, key |-> k] \in Byte
    BY DEF LInv, Byte, Char
  <2>2. Op("add", [by |-> active_terminal, key |-> k]) \in Ops
    BY <1>2, <2>1 DEF OpNames
  <2>3. HandlersOK'
    BY <1>3, <2>2 DEF KeyChar, Irq, LInv, HandlersOK
  <2> QED
    BY <1>1, <1>3, <2>3 DEF KeyChar, LInv, FlagsOK
<1>4. CASE KeyBackspace
  <2>1. Op("del", NUL) \in Ops
    BY <1>2, Basics DEF OpNames
  <2>2. HandlersOK'
    BY <1>4, <2>1 DEF KeyBackspace, Irq, LInv, HandlersOK
  <2> QED
    BY <1>1, <1>4, <2>2 DEF KeyBackspace, LInv, FlagsOK
<1>5. CASE KeyEnter
  <2>1. Op("add", NL) \in Ops /\ Op("copy", NUL) \in Ops
    BY <1>2, Basics DEF OpNames
  <2>2. HandlersOK'
    BY <1>5, <2>1 DEF KeyEnter, Irq, LInv, HandlersOK
  <2>3. FlagsOK'
    BY <1>5 DEF KeyEnter, LInv, FlagsOK
  <2> QED
    BY <1>1, <1>5, <2>2, <2>3 DEF KeyEnter
<1>6. CASE KeyCtrlL
  <2>1. HandlersOK'
    BY <1>6 DEF KeyCtrlL, Irq, LInv, HandlersOK
  <2>2. kb_buf' \in [Index -> Byte] /\ kb_buf'[KB_SIZE - 1] = NUL
    BY <1>6, Basics DEF KeyCtrlL, LInv, BuffersOK, LinesTerminated
  <2> QED
    BY <1>6, <2>1, <2>2
       DEF KeyCtrlL, LInv, BuffersOK, LinesTerminated, FlagsOK, ReadersOK
<1>7. ASSUME NEW new \in Terms, KeySwitch(new) PROVE LInv'
  <2>1. /\ Op("save", new) \in Ops /\ Op("clear", new) \in Ops
        /\ Op("load", new) \in Ops /\ Op("show", new) \in Ops
    BY <1>2 DEF OpNames
  <2>2. HandlersOK'
    BY <1>7, <2>1 DEF KeySwitch, Irq, LInv, HandlersOK
  <2> QED
    BY <1>1, <1>7, <2>2 DEF KeySwitch, LInv, FlagsOK
<1> QED
  BY <1>3, <1>4, <1>5, <1>6, <1>7

-----------------------------------------------------------------------------
(* Steps of the handler. *)

(* The step at hand is well formed, and taking it off leaves such steps. *)
LEMMA HeadOp ==
    ASSUME LInv, NEW t \in Terms, handler[t] # << >>
    PROVE  /\ Head(handler[t]) \in Ops
           /\ StepDone(t) => HandlersOK'
<1>1. handler[t] \in Seq(Ops)
  BY DEF LInv, HandlersOK
<1>2. Head(handler[t]) \in Ops /\ Tail(handler[t]) \in Seq(Ops)
  BY <1>1, HeadTailProperties
<1> QED
  BY <1>2 DEF StepDone, LInv, HandlersOK

(* The handler turns "add" into "put", or "del" into "erase", with a length*)
(* it has read.                                                            *)
LEMMA RewriteHead ==
    ASSUME LInv, NEW t \in Terms, handler[t] # << >>,
           NEW name \in OpNames, NEW len \in Index,
           [Head(handler[t]) EXCEPT !.op = name, !.len = len] \in Ops,
           handler' = [handler EXCEPT ![t][1].op = name, ![t][1].len = len]
    PROVE  HandlersOK'
<1>1. handler[t] \in Seq(Ops) /\ Len(handler[t]) > 0
  BY EmptySeq DEF LInv, HandlersOK
<1>2. 1 \in 1..Len(handler[t]) /\ Head(handler[t]) = handler[t][1]
  BY <1>1
<1> DEFINE new == [handler[t][1] EXCEPT !.op = name, !.len = len]
<1>3. [handler[t] EXCEPT ![1] = new] \in Seq(Ops)
  BY <1>1, <1>2, ExceptSeq
<1>4. handler' = [handler EXCEPT ![t] = [handler[t] EXCEPT ![1] = new]]
  BY <1>1, <1>2 DEF LInv, HandlersOK
<1> QED
  BY <1>3, <1>4 DEF LInv, HandlersOK

(* add_char_to_buf and del_char_from_buf read a length that leaves room for*)
(* their store, whatever happens to kb_buf before it.                      *)
LEMMA LengthStepsKeepLInv ==
    ASSUME LInv, NEW t \in Terms, AddLen(t) \/ DelLen(t),
           UNCHANGED << active_task, terminal_read_release, reader >>
    PROVE  LInv'
<1>1. kb_buf \in [Index -> Byte] /\ kb_buf[KB_SIZE - 1] = NUL
  BY DEF LInv, BuffersOK, LinesTerminated
<1>2. PICK len \in Index : len = strlen(kb_buf)
  BY <1>1, StrlenFacts
<1>3. handler[t] # << >>
  BY DEF AddLen, DelLen, Doing
<1>4. Head(handler[t]) \in Ops /\ (StepDone(t) => HandlersOK')
  BY <1>3, HeadOp
<1>5. CASE AddLen(t)
  <2>1. ASSUME len < KB_SIZE - 1 PROVE HandlersOK'
    <3>1. [Head(handler[t]) EXCEPT !.op = "put", !.len = len] \in Ops
      <4>1. Head(handler[t]).arg \in Byte
        BY <1>4, <1>5 DEF AddLen, Doing, Ops
      <4>2. len \in Index /\ len + 1 < KB_SIZE
        BY <1>2, <2>1, InputAssumption DEF Index
      <4> QED
        BY <1>4, <4>1, <4>2 DEF Ops, OpNames
    <3>2. handler' = [handler EXCEPT ![t][1].op = "put", ![t][1].len = len]
      BY <1>2, <1>5, <2>1 DEF AddLen
    <3> QED
      BY <1>2, <1>3, <3>1, <3>2, RewriteHead DEF OpNames
  <2>2. ASSUME ~(len < KB_SIZE - 1) PROVE HandlersOK'
    BY <1>2, <1>4, <1>5, <2>2 DEF AddLen
  <2>3. HandlersOK'
    BY <2>1, <2>2
  <2> QED
    BY <1>5, <2>3 DEF AddLen, LInv, BuffersOK, LinesTerminated, FlagsOK,
                      ReadersOK
<1>6. CASE DelLen(t)
  <2>1. ASSUME len > 0 PROVE HandlersOK'
    <3>1. [Head(handler[t]) EXCEPT !.op = "erase", !.len = len] \in Ops
      BY <1>2, <1>4, <2>1 DEF Ops, OpNames
    <3>2. handler' = [handler EXCEPT ![t][1].op = "erase", ![t][1].len = len]
      BY <1>2, <1>6, <2>1 DEF DelLen
    <3> QED
      BY <1>2, <1>3, <3>1, <3>2, RewriteHead DEF OpNames
  <2>2. ASSUME ~(len > 0) PROVE HandlersOK'
    BY <1>2, <1>4, <1>6, <2>2 DEF DelLen
  <2>3. HandlersOK'
    BY <2>1, <2>2
  <2> QED
    BY <1>6, <2>3 DEF DelLen, LInv, BuffersOK, LinesTerminated, FlagsOK,
                      ReadersOK
<1> QED
  BY <1>5, <1>6

(* The stores into kb_buf, the hand-over of a line, the terminal switch.   *)
LEMMA StoreStepsKeepLInv ==
    ASSUME LInv, NEW t \in Terms,
           \/ AddPut(t) \/ DelErase(t)
           \/ copy_kb_buf(t) \/ switch_terminal(t),
           UNCHANGED << active_task, terminal_read_release, reader >>
    PROVE  LInv'
<1>1. handler[t] # << >> /\ StepDone(t)
  BY DEF AddPut, DelErase, copy_kb_buf, switch_terminal, Doing
<1>2. Head(handler[t]) \in Ops /\ HandlersOK'
  BY <1>1, HeadOp
<1>3. ASSUME active_terminal' \in Terms,
             kb_buf' \in [Index -> Byte], kb_buf'[KB_SIZE - 1] = NUL,
             table_kb_buf' \in [Terms -> [Index -> Byte]],
             \A u \in Terms : table_kb_buf'[u][KB_SIZE - 1] = NUL,
             int_buf' \in [Index -> Byte], int_buf'[KB_SIZE - 1] = NUL
      PROVE  LInv'
  BY <1>2, <1>3 DEF LInv, BuffersOK, LinesTerminated, FlagsOK, ReadersOK
<1>4. /\ active_terminal \in Terms
      /\ kb_buf \in [Index -> Byte] /\ kb_buf[KB_SIZE - 1] = NUL
      /\ table_kb_buf \in [Terms -> [Index -> Byte]]
      /\ \A u \in Terms : table_kb_buf[u][KB_SIZE - 1] = NUL
      /\ int_buf \in [Index -> Byte] /\ int_buf[KB_SIZE - 1] = NUL
  BY DEF LInv, BuffersOK, LinesTerminated
<1>5. CASE AddPut(t)
  <2>1. PICK n \in Index : n = Head(handler[t]).len /\ n + 1 < KB_SIZE
    BY <1>2, <1>5 DEF AddPut, Doing, Ops
  <2>2. Head(handler[t]).arg \in Byte
    BY <1>2, <1>5 DEF AddPut, Doing, Ops
  <2>3. kb_buf' = [kb_buf EXCEPT ![n + 1] = NUL, ![n] = Head(handler[t]).arg]
    BY <1>5, <2>1 DEF AddPut
  <2>4. n # KB_SIZE - 1 /\ n \in Nat
    BY <2>1, InputAssumption DEF Index
  <2>5. kb_buf' \in [Index -> Byte] /\ kb_buf'[KB_SIZE - 1] = NUL
    BY <1>4, <2>2, <2>3, <2>4, Basics
  <2> QED
    BY <1>3, <1>4, <1>5, <2>5 DEF AddPut
<1>6. CASE DelErase(t)
  <2>1. kb_buf' \in [Index -> Byte] /\ kb_buf'[KB_SIZE - 1] = NUL
    BY <1>4, <1>6, Basics DEF DelErase
  <2> QED
    BY <1>3, <1>4, <1>6, <2>1 DEF DelErase
<1>7. CASE copy_kb_buf(t)
  <2>1. kb_buf' \in [Index -> Byte] /\ int_buf' \in [Index -> Byte]
    BY <1>4, <1>7, Basics DEF copy_kb_buf
  <2>2. kb_buf'[KB_SIZE - 1] = NUL /\ int_buf'[KB_SIZE - 1] = NUL
    BY <1>4, <1>7, Basics DEF copy_kb_buf
  <2> QED
    BY <1>3, <1>4, <1>7, <2>1, <2>2 DEF copy_kb_buf
<1>8. CASE switch_terminal(t)
  <2>1. CASE Doing(t, "save")
    BY <1>3, <1>4, <1>8, <2>1 DEF switch_terminal, Doing
  <2>2. CASE Doing(t, "clear")
    BY <1>3, <1>4, <1>8, <2>2, Basics DEF switch_terminal, Doing
  <2>3. CASE Doing(t, "load")
    <3>1. Head(handler[t]).arg \in Terms
      BY <1>2, <2>3 DEF Doing, Ops
    <3> QED
      BY <1>3, <1>4, <1>8, <2>3, <3>1 DEF switch_terminal, Doing
  <2>4. CASE Doing(t, "show")
    <3>1. Head(handler[t]).arg \in Terms
      BY <1>2, <2>4 DEF Doing, Ops
    <3> QED
      BY <1>3, <1>4, <1>8, <2>4, <3>1 DEF switch_terminal, Doing
  <2> QED
    BY <1>8, <2>1, <2>2, <2>3, <2>4 DEF switch_terminal
<1> QED
  BY <1>5, <1>6, <1>7, <1>8

-----------------------------------------------------------------------------
(* terminal_read and the tick. *)

(* terminal_read touches neither the line buffers nor the handlers. *)
LEMMA CallKeepsLInv ==
    ASSUME LInv, UNCHANGED << kbVars, active_task >>, ReadersOK', FlagsOK',
           int_buf' \in [Index -> Byte], int_buf'[KB_SIZE - 1] = NUL
    PROVE  LInv'
BY DEF LInv, kbVars, BuffersOK, LinesTerminated, HandlersOK

(* The start of a call, its wait, and its return. *)
LEMMA OuterReadStepsKeepLInv ==
    ASSUME LInv, NEW t \in Terms,
           ReadStart(t) \/ ReadSpin(t) \/ ReadDone(t) \/ ReadReturn(t)
    PROVE  LInv'
<1>1. /\ UNCHANGED << kbVars, active_task, int_buf, terminal_read_release >>
      /\ reader \in [Terms -> Calls] /\ reader[t] \in Calls
  BY DEF ReadStart, ReadSpin, ReadDone, ReadReturn, LInv, ReadersOK
<1>2. ASSUME ReadersOK' PROVE LInv'
  BY <1>1, <1>2, CallKeepsLInv DEF LInv, FlagsOK, BuffersOK, LinesTerminated
<1>3. NoRead \in Calls
  BY Basics, InputAssumption DEF NoRead, Calls
<1>4. CASE ReadStart(t)
  <2>1. PICK n \in NBytes : reader' = [reader EXCEPT ![t] =
              [NoRead EXCEPT !.pc = "spin",
                             !.n = IF n < KB_SIZE THEN n ELSE KB_SIZE]]
    BY <1>4 DEF ReadStart
  <2>2. [NoRead EXCEPT !.pc = "spin",
                       !.n = IF n < KB_SIZE THEN n ELSE KB_SIZE] \in Calls
    <3> DEFINE m == IF n < KB_SIZE THEN n ELSE KB_SIZE
    <3>1. m \in 0..KB_SIZE /\ m > 0 /\ 0 \in 0..(KB_SIZE + 1)
      BY InputAssumption
    <3> HIDE DEF m
    <3>2. [NoRead EXCEPT !.pc = "spin", !.n = m] \in Calls
      BY <3>1, Basics DEF Calls, NoRead
    <3> QED
      BY <3>2 DEF m
  <2>3. ReadersOK'
    BY <1>1, <2>1, <2>2 DEF ReadersOK
  <2> QED
    BY <1>2, <2>3
<1>5. CASE ReadSpin(t)
  <2>1. [reader[t] EXCEPT !.pc = "copy"] \in Calls
    BY <1>1, <1>5 DEF ReadSpin, Reading, Calls
  <2>2. reader' = [reader EXCEPT ![t] = [reader[t] EXCEPT !.pc = "copy"]]
    BY <1>5 DEF ReadSpin
  <2>3. ReadersOK'
    BY <1>1, <2>1, <2>2 DEF ReadersOK
  <2> QED
    BY <1>2, <2>3
<1>6. CASE ReadDone(t)
  <2>1. [reader[t] EXCEPT !.pc = "done"] \in Calls
    BY <1>1, <1>6 DEF ReadDone, Reading, Calls
  <2>2. reader' = [reader EXCEPT ![t] = [reader[t] EXCEPT !.pc = "done"]]
    BY <1>6 DEF ReadDone
  <2>3. ReadersOK'
    BY <1>1, <2>1, <2>2 DEF ReadersOK
  <2> QED
    BY <1>2, <2>3
<1>7. CASE ReadReturn(t)
  <2>1. ReadersOK'
    BY <1>1, <1>3, <1>7 DEF ReadReturn, ReadersOK
  <2> QED
    BY <1>2, <2>1
<1> QED
  BY <1>4, <1>5, <1>6, <1>7

(* The copy loop: byte i is inside int_buf as long as i < n <= KB_SIZE.    *)
LEMMA ReadByteKeepsLInv ==
    ASSUME LInv, NEW t \in Terms, ReadByte(t) PROVE LInv'
<1> DEFINE r == reader[t]
<1>1. /\ reader \in [Terms -> Calls] /\ r \in Calls
      /\ r.pc = "copy" /\ r.i < r.n
      /\ UNCHANGED << kbVars, active_task, terminal_read_release >>
      /\ int_buf \in [Index -> Byte] /\ int_buf[KB_SIZE - 1] = NUL
  BY DEF ReadByte, Reading, LInv, ReadersOK, BuffersOK, LinesTerminated
<1>2. r.i \in Index /\ int_buf[r.i] \in Byte
  BY <1>1, InputAssumption DEF Calls, Index
<1>3. ASSUME ReadersOK', int_buf' \in [Index -> Byte],
             int_buf'[KB_SIZE - 1] = NUL
      PROVE  LInv'
  BY <1>1, <1>3, CallKeepsLInv DEF LInv, FlagsOK
<1>4. CASE int_buf[r.i] = NL
  <2>1. reader' = [reader EXCEPT ![t] = [r EXCEPT !.pc = "reset"]]
    BY <1>4 DEF ReadByte
  <2>2. [r EXCEPT !.pc = "reset"] \in Calls
    <3>1. r.i # KB_SIZE - 1
      BY <1>1, <1>4, Basics
    <3>2. r.i < KB_SIZE - 1
      BY <1>2, <3>1, InputAssumption DEF Index
    <3> QED
      BY <1>1, <3>2 DEF Calls
  <2>3. ReadersOK' /\ int_buf' = int_buf
    BY <1>1, <1>4, <2>1, <2>2 DEF ReadersOK, ReadByte
  <2> QED
    BY <1>1, <1>3, <2>3
<1>5. CASE int_buf[r.i] # NL
  <2> DEFINE more == Append(r.dest, int_buf[r.i])
  <2>1. r.dest \in Seq(Byte) /\ Len(r.dest) = r.i
    BY <1>1 DEF Calls
  <2>2. more \in Seq(Byte) /\ Len(more) = r.i + 1
    BY <1>2, <2>1, AppendProperties
  <2>3. reader' = [reader EXCEPT ![t] =
                      [r EXCEPT !.i = r.i + 1, !.dest = more]]
    BY <1>1, <1>5 DEF ReadByte
  <2> HIDE DEF more
  <2>4. [r EXCEPT !.i = r.i + 1, !.dest = more] \in Calls
    <3> DEFINE j == r.i + 1
    <3>1. /\ j \in 0..(KB_SIZE + 1) /\ j <= r.n /\ Len(more) = j
          /\ j \in Index \/ (r.n >= KB_SIZE - 1
                             /\ j \in {KB_SIZE, KB_SIZE + 1})
      BY <1>1, <1>2, <2>2, InputAssumption DEF Calls, Index
    <3> HIDE DEF j
    <3>2. [r EXCEPT !.i = j, !.dest = more] \in Calls
      BY <1>1, <2>2, <3>1 DEF Calls
    <3> QED
      BY <3>2 DEF j
  <2>5. ReadersOK'
    BY <1>1, <2>3, <2>4 DEF ReadersOK
  <2>6. int_buf' \in [Index -> Byte] /\ int_buf'[KB_SIZE - 1] = NUL
    BY <1>1, <1>5, Basics DEF ReadByte
  <2> QED
    BY <1>3, <2>5, <2>6
<1> QED
  BY <1>4, <1>5

(* The newline forced into the program's last byte, and the flag's reset.  *)
LEMMA ReadResetKeepsLInv ==
    ASSUME LInv, NEW t \in Terms, ReadReset(t) PROVE LInv'
<1> DEFINE r == reader[t]
           last == IF r.i = r.n THEN [r.dest EXCEPT ![r.n] = NL] ELSE r.dest
<1>1. /\ reader \in [Terms -> Calls] /\ r \in Calls
      /\ r.pc = "reset" \/ (r.pc = "copy" /\ r.i = r.n)
      /\ UNCHANGED << kbVars, active_task, int_buf >>
      /\ int_buf \in [Index -> Byte] /\ int_buf[KB_SIZE - 1] = NUL
  BY DEF ReadReset, Reading, LInv, ReadersOK, BuffersOK, LinesTerminated
<1>2. reader' = [reader EXCEPT ![t] =
          [r EXCEPT !.pc = "shift", !.i = r.i + 1, !.dest = last]]
  BY <1>1 DEF ReadReset
<1>3. /\ r.dest \in Seq(Byte) /\ Len(r.dest) = r.i /\ r.c = 0
      /\ r.i \in 0..KB_SIZE /\ (r.i = r.n => r.n \in 1..Len(r.dest))
  BY <1>1, InputAssumption DEF Calls
<1>4. last \in Seq(Byte)
  BY <1>3, ExceptSeq, Basics
<1> HIDE DEF last
<1>5. [r EXCEPT !.pc = "shift", !.i = r.i + 1, !.dest = last] \in Calls
  <2> DEFINE j == r.i + 1
  <2>1. /\ j \in 0..(KB_SIZE + 1) /\ 0 < j
        /\ j \in Index \/ (r.n >= KB_SIZE - 1
                           /\ j \in {KB_SIZE, KB_SIZE + 1})
    <3>1. r.i \in Nat /\ r.i <= KB_SIZE /\ KB_SIZE \in Nat
      BY <1>3, InputAssumption
    <3>2. r.n \in Nat /\ (r.i < KB_SIZE - 1 \/ r.i = r.n)
      BY <1>1, InputAssumption DEF Calls
    <3> QED
      BY <3>1, <3>2 DEF Index
  <2> HIDE DEF j
  <2>2. [r EXCEPT !.pc = "shift", !.i = j, !.dest = last] \in Calls
    BY <1>1, <1>3, <1>4, <2>1 DEF Calls
  <2> QED
    BY <2>2 DEF j
<1>6. ReadersOK'
  BY <1>1, <1>2, <1>5 DEF ReadersOK
<1>7. FlagsOK'
  BY DEF ReadReset, LInv, FlagsOK
<1> QED
  BY <1>1, <1>6, <1>7, CallKeepsLInv

(* The shift loop stores below the byte it reads; inside int_buf it stops  *)
(* at the last byte, behind it at the second.                              *)
LEMMA ReadShiftKeepsLInv ==
    ASSUME LInv, NEW t \in Terms, ReadShift(t) PROVE LInv'
<1> DEFINE r == reader[t]
           b == SourceByte(r.i)
<1>1. /\ reader \in [Terms -> Calls] /\ r \in Calls /\ r.pc = "shift"
      /\ UNCHANGED << kbVars, active_task >>
      /\ int_buf \in [Index -> Byte] /\ int_buf[KB_SIZE - 1] = NUL
      /\ b # NUL
  BY DEF ReadShift, Reading, LInv, ReadersOK, BuffersOK, LinesTerminated
<1>2. b \in Byte
  BY <1>1, Basics DEF SourceByte
<1>3. (r.i \in Index /\ r.i # KB_SIZE - 1) \/ r.i = KB_SIZE
  BY <1>1 DEF SourceByte
<1>4. /\ r.i \in 0..KB_SIZE /\ r.c \in Index /\ r.c < r.i
      /\ r.i = KB_SIZE => r.c = 0 /\ r.n >= KB_SIZE - 1
      /\ r.c # KB_SIZE - 1
  <2>1. r.c \in Index /\ r.c < r.i /\ (r.i = KB_SIZE => r.c = 0)
    BY <1>1 DEF Calls
  <2>2. r.i = KB_SIZE => r.i \notin Index
    BY InputAssumption DEF Index
  <2>3. r.i = KB_SIZE => r.n >= KB_SIZE - 1
    BY <1>1, <2>2 DEF Calls
  <2> QED
    BY <1>3, <2>1, <2>3, InputAssumption DEF Index
<1>5. reader' = [reader EXCEPT ![t] =
                    [r EXCEPT !.c = r.c + 1, !.i = r.i + 1]]
  BY <1>1 DEF ReadShift
<1>6. [r EXCEPT !.c = r.c + 1, !.i = r.i + 1] \in Calls
  <2> DEFINE j == r.i + 1
             d == r.c + 1
  <2>1. /\ j \in 0..(KB_SIZE + 1) /\ d \in Index /\ d < j
        /\ j \in Index \/ (r.n >= KB_SIZE - 1
                           /\ j \in {KB_SIZE, KB_SIZE + 1})
        /\ j # KB_SIZE
    BY <1>3, <1>4, InputAssumption DEF Index
  <2> HIDE DEF j, d
  <2>2. [r EXCEPT !.c = d, !.i = j] \in Calls
    BY <1>1, <2>1 DEF Calls
  <2> QED
    BY <2>2 DEF j, d
<1>7. ReadersOK'
  BY <1>1, <1>5, <1>6 DEF ReadersOK
<1> HIDE DEF b
<1>8. int_buf' \in [Index -> Byte] /\ int_buf'[KB_SIZE - 1] = NUL
  <2>1. int_buf' = [k \in Index |-> CASE k = r.i -> NUL
                                      [] k = r.c /\ k # r.i -> b
                                      [] OTHER -> int_buf[k]]
    BY DEF ReadShift, b
  <2> QED
    BY <1>1, <1>2, <1>4, <2>1, Basics
<1>9. FlagsOK'
  BY Basics DEF ReadShift, LInv, FlagsOK
<1> QED
  BY <1>1, <1>7, <1>8, <1>9, CallKeepsLInv

(* task_switch only moves active_task, to another terminal. *)
LEMMA TickKeepsLInv == ASSUME LInv, Tick PROVE LInv'
<1>1. active_task' \in Terms
  BY InputAssumption DEF Tick, LInv, Terms
<1> QED
  BY <1>1 DEF Tick, kbVars, LInv, BuffersOK, LinesTerminated, FlagsOK,
              HandlersOK, ReadersOK

-----------------------------------------------------------------------------
(* Every step keeps the invariant. *)
THEOREM NextKeepsLInv == LInv /\ [Next]_vars => LInv'
<1> SUFFICES ASSUME LInv, [Next]_vars PROVE LInv'
  OBVIOUS
<1>1. active_task \in Terms
  BY DEF LInv
<1>2. CASE HandlerStep
  BY <1>1, <1>2, LengthStepsKeepLInv, StoreStepsKeepLInv DEF HandlerStep
<1>3. ASSUME NEW t \in Terms, ReadStart(t) \/ ReadStep(t) PROVE LInv'
  BY <1>3, OuterReadStepsKeepLInv, ReadByteKeepsLInv, ReadResetKeepsLInv,
     ReadShiftKeepsLInv DEF ReadStep
<1>4. CASE UNCHANGED vars
  BY <1>4 DEF vars, LInv, BuffersOK, LinesTerminated, FlagsOK, HandlersOK,
              ReadersOK
<1> QED
  BY <1>2, <1>3, <1>4, KeysKeepLInv, TickKeepsLInv DEF Next

(* For every number of terminals and every buffer size, with handlers that *)
(* the PIT and other keys interrupt anywhere: the handler's lengths and    *)
(* the copy loop's index are inside their buffers, the shift loop leaves   *)
(* int_buf for two bytes at most, and every buffer stays terminated, hence *)
(* strlen in the keyboard handler is bounded.                              *)
THEOREM InputSafety == Spec => [](TypeOK /\ LinesTerminated)
<1>1. ASSUME LInv PROVE TypeOK
  <2>1. ASSUME NEW t \in Terms, NEW k \in DOMAIN handler[t]
        PROVE  handler[t][k].len \in Index
    <3>1. handler[t] \in Seq(Ops)
      BY <1>1 DEF LInv, HandlersOK
    <3>2. handler[t][k] \in Ops
      BY <3>1, <2>1, LenProperties
    <3> QED
      BY <3>2 DEF Ops
  <2>2. ASSUME NEW t \in Terms
        PROVE  /\ reader[t].n \in 0..KB_SIZE /\ reader[t].c \in Index
               /\ \/ reader[t].i \in Index
                  \/ /\ reader[t].n >= KB_SIZE - 1
                     /\ reader[t].i \in {KB_SIZE, KB_SIZE + 1}
               /\ reader[t].pc = "copy" => reader[t].i <= reader[t].n
               /\ reader[t].dest \in Seq(Byte)
    BY <1>1 DEF LInv, ReadersOK, Calls
  <2>3. ASSUME NEW t \in Terms, NEW k \in DOMAIN reader[t].dest
        PROVE  reader[t].dest[k] \in Byte
    BY <2>2, <2>3, LenProperties
  <2> QED
    BY <1>1, <2>1, <2>2, <2>3 DEF TypeOK, LInv, BuffersOK, FlagsOK
<1>2. LInv => TypeOK /\ LinesTerminated
  BY <1>1 DEF LInv
<1> QED
  BY <1>2, InitLInv, NextKeepsLInv, PTL DEF Spec

(* The handler and the copy loop of terminal_read stay inside their        *)
(* buffers.  The shift loop does too, unless it starts behind int_buf after*)
(* a call that took KB_SIZE - 1 bytes or more without a newline; it then   *)
(* reads one or two of the bytes behind it and writes at most the first.   *)
THEOREM InputTypes == Spec => []TypeOK
BY InputSafety, PTL

(* strlen, and the shift loop inside int_buf, find the end of the buffer.  *)
THEOREM InputLines == Spec => []LinesTerminated
BY InputSafety, PTL

-----------------------------------------------------------------------------
(* The invariant for what was typed and what is read. *)

(* What the running handler has left to do, and a step with its length. *)
Todo == handler[active_task]
OpAt(name, arg, len) == [op |-> name, arg |-> arg, len |-> len]

\* A line of characters, the last of the buffer left for the NUL.
Line(line) == line \in Seq(Char) /\ Len(line) < KB_SIZE

\* The buffer holds the line, ended by the byte "end".
Holds(buf, line, end) ==
    /\ Line(line)
    /\ \A k \in 1..Len(line) : buf[k - 1] = line[k]
    /\ buf[Len(line)] = end

\* The byte behind a line that was entered: a full one has no newline.
EndOf(line) == IF Len(line) < KB_SIZE - 1 THEN NL ELSE NUL

(* The phases of the handler, by the line that kb_buf holds and the line   *)
(* the user has typed: no key; a character; backspace; Enter; a switch.    *)
Resting(line) == Todo = << >> /\ typed[active_terminal] = line

Adding(line) == \E c \in Char :
    /\ Todo = << Op("add", c) >>
    /\ typed[active_terminal] = IF Len(line) = KB_SIZE - 1 THEN line
                                ELSE Append(line, c)

Putting(line) == \E c \in Char :
    /\ Todo = << OpAt("put", c, Len(line)) >> /\ Len(line) < KB_SIZE - 1
    /\ typed[active_terminal] = Append(line, c)

Deleting(line) ==
    /\ Todo = << Op("del", NUL) >>
    /\ typed[active_terminal] = SubSeq(line, 1, Len(line) - 1)

Erasing(line) ==
    /\ Todo = << OpAt("erase", NUL, Len(line)) >> /\ Len(line) > 0
    /\ typed[active_terminal] = SubSeq(line, 1, Len(line) - 1)

Ending(line) ==
    /\ \/ Todo = << Op("add", NL), Op("copy", NUL) >>
       \/ Todo = << OpAt("put", NL, Len(line)), Op("copy", NUL) >>
            /\ Len(line) < KB_SIZE - 1
    /\ typed[active_terminal] = << >> /\ entered[active_terminal] = line

Saving(line) == \E new \in Terms \ {active_terminal} :
    /\ Todo = << Op("save", new), Op("clear", new), Op("load", new),
                 Op("show", new) >>
    /\ typed[active_terminal] = line

(* kb_buf holds a line: there is no key, or its steps have not gone far. *)
Editing == \E line \in Seq(Char) :
    /\ Holds(kb_buf, line, NUL)
    /\ \/ Resting(line) \/ Adding(line) \/ Putting(line) \/ Deleting(line)
       \/ Erasing(line) \/ Ending(line) \/ Saving(line)

(* The newline is stored, if there was room, and the line to be handed     *)
(* over.                                                                   *)
Copying ==
    /\ Todo = << Op("copy", NUL) >>
    /\ typed[active_terminal] = << >>
    /\ Holds(kb_buf, entered[active_terminal], EndOf(entered[active_terminal]))

(* The line is saved, and the other one may be loaded. *)
Switching == \E new \in Terms \ {active_terminal} :
    /\ Holds(table_kb_buf[active_terminal], typed[active_terminal], NUL)
    /\ \/ Todo = << Op("clear", new), Op("load", new), Op("show", new) >>
       \/ Todo = << Op("load", new), Op("show", new) >>
       \/ Todo = << Op("show", new) >> /\ Holds(kb_buf, typed[new], NUL)

(* At most the running task is in a handler, the lines of hidden terminals *)
(* are in the terminal table, and the line on the screen is where the      *)
(* phase says.                                                             *)
LineInv ==
    /\ typed \in [Terms -> Seq(Char)] /\ entered \in [Terms -> Seq(Char)]
    /\ \A t \in Terms \ {active_task} : handler[t] = << >>
    /\ \A t \in Terms \ {active_terminal} :
          Holds(table_kb_buf[t], typed[t], NUL)
    /\ Editing \/ Copying \/ Switching

-----------------------------------------------------------------------------
(* An Enter is being handled. *)
Entering == Todo # << >> /\ Todo[Len(Todo)].op = "copy"

(* A line is on its way to the program on terminal t. *)
Busy(t) == \/ terminal_read_release[t] = "ENTER_RELEASED"
           \/ reader[t].pc \notin {"idle", "spin"}

(* The line entered on terminal t is in int_buf from byte i on, and the    *)
(* bytes before it are in the program's buffer.                            *)
Carries(t) ==
    LET line == entered[t]
        r    == reader[t]
    IN  /\ Line(line)
        /\ r.i <= Len(line) \/ Len(line) = KB_SIZE - 1
        /\ \A k \in Index : k >= r.i =>
              /\ k < Len(line) => int_buf[k] = line[k + 1]
              /\ k = Len(line) => int_buf[k] = EndOf(line)
        /\ \A k \in 1..r.i : k <= Len(line) => r.dest[k] = line[k]
        /\ r.pc = "reset" => r.i = Len(line) /\ Len(line) < KB_SIZE - 1

(* At most one line is on its way; what has been returned is that line. *)
ReadInv ==
    /\ \A t, u \in Terms : Busy(t) /\ Busy(u) => t = u
    /\ Entering => /\ terminal_read_release[active_terminal] = "ENTER_RELEASED"
                   /\ reader[active_terminal].pc \in {"idle", "spin"}
    /\ \A t \in Terms :
         /\ reader[t].pc \in {"idle", "spin"} =>
               reader[t].i = 0 /\ reader[t].dest = << >>
         /\ reader[t].pc \in {"copy", "reset"} =>
               terminal_read_release[t] = "ENTER_RELEASED"
         /\ reader[t].pc \in {"shift", "done"} =>
               /\ terminal_read_release[t] = "ENTER_WAITING"
               /\ reader[t].dest = ReadOf(entered[t], reader[t].n)
         /\ ~Entering /\ terminal_read_release[t] = "ENTER_RELEASED" => Carries(t)

-----------------------------------------------------------------------------
(* The length of a line is an index of the buffers. *)
LEMMA LineLength ==
    ASSUME NEW line, Line(line)
    PROVE  /\ Len(line) \in Index /\ Len(line) \in Nat
           /\ \A k \in 1..Len(line) : line[k] \in Char /\ k - 1 \in Index
<1>1. line \in Seq(Char) /\ Len(line) < KB_SIZE
  BY DEF Line
<1>2. Len(line) \in Nat /\ \A k \in 1..Len(line) : line[k] \in Char
  BY <1>1
<1> QED
  BY <1>1, <1>2, InputAssumption DEF Index

(* strlen and the string of a buffer that holds a line. *)
LEMMA HeldString ==
    ASSUME NEW buf, NEW line, Holds(buf, line, NUL)
    PROVE  strlen(buf) = Len(line) /\ String(buf) = line
<1>1. Line(line)
  BY DEF Holds
<1>2. /\ Len(line) \in Index /\ Len(line) \in Nat
      /\ \A k \in 1..Len(line) : line[k] \in Char /\ k - 1 \in Index
  BY <1>1, LineLength
<1>3. ASSUME NEW m \in 0..(Len(line) - 1) PROVE buf[m] # NUL
  <2>1. m + 1 \in 1..Len(line) /\ (m + 1) - 1 = m
    BY <1>2
  <2>2. buf[m] = line[m + 1]
    BY <2>1 DEF Holds
  <2> QED
    BY <1>2, <2>1, <2>2, InputAssumption
<1>4. buf[Len(line)] = NUL
  BY DEF Holds
<1>5. ASSUME NEW n \in Index, buf[n] = NUL, \A m \in 0..(n - 1) : buf[m] # NUL
      PROVE  n = Len(line)
  <2>1. n \in Nat
    BY InputAssumption DEF Index
  <2>2. ~(n < Len(line))
    BY <1>2, <1>3, <1>5, <2>1
  <2>3. ~(Len(line) < n)
    BY <1>2, <1>4, <1>5, <2>1
  <2> QED
    BY <1>2, <2>1, <2>2, <2>3
<1>6. strlen(buf) = Len(line)
  BY <1>2, <1>3, <1>4, <1>5 DEF strlen
<1>7. String(buf) = [k \in 1..Len(line) |-> buf[k - 1]]
  BY <1>6 DEF String
<1>8. line = [k \in 1..Len(line) |-> line[k]]
  BY <1>1 DEF Line
<1>9. \A k \in 1..Len(line) : buf[k - 1] = line[k]
  BY DEF Holds
<1> QED
  BY <1>6, <1>7, <1>8, <1>9

(* A buffer whose first byte is NUL holds the empty line. *)
LEMMA EmptyLine ==
    ASSUME NEW buf, buf[0] = NUL
    PROVE  Holds(buf, << >>, NUL)
BY InputAssumption DEF Holds, Line

(* add_char_to_buf stores a character behind the line. *)
LEMMA AppendLine ==
    ASSUME NEW buf \in [Index -> Byte], NEW line, Holds(buf, line, NUL),
           Len(line) < KB_SIZE - 1, NEW c \in Char
    PROVE  /\ Append(line, c) \in Seq(Char)
           /\ Holds([buf EXCEPT ![Len(line) + 1] = NUL, ![Len(line)] = c],
                    Append(line, c), NUL)
<1> DEFINE new == [buf EXCEPT ![Len(line) + 1] = NUL, ![Len(line)] = c]
<1>1. Line(line) /\ line \in Seq(Char)
  BY DEF Holds, Line
<1>2. /\ Len(line) \in Index /\ Len(line) \in Nat /\ Len(line) + 1 \in Index
      /\ \A k \in 1..Len(line) : line[k] \in Char /\ k - 1 \in Index
  BY <1>1, LineLength, InputAssumption DEF Index
<1>3. /\ Append(line, c) \in Seq(Char) /\ Len(Append(line, c)) = Len(line) + 1
      /\ Append(line, c)[Len(line) + 1] = c
      /\ \A k \in 1..Len(line) : Append(line, c)[k] = line[k]
  BY <1>1, AppendProperties
<1>4. new[Len(line) + 1] = NUL /\ new[Len(line)] = c
  BY <1>2
<1>5. ASSUME NEW k \in 1..Len(line) PROVE new[k - 1] = line[k]
  <2>1. k - 1 \in Index /\ k - 1 # Len(line) /\ k - 1 # Len(line) + 1
    BY <1>2
  <2>2. new[k - 1] = buf[k - 1]
    BY <2>1
  <2> QED
    BY <2>2 DEF Holds
<1>6. ASSUME NEW k \in 1..(Len(line) + 1) PROVE new[k - 1] = Append(line, c)[k]
  BY <1>2, <1>3, <1>4, <1>5
<1> HIDE DEF new
<1>7. Holds(new, Append(line, c), NUL)
  BY <1>2, <1>3, <1>4, <1>6, InputAssumption DEF Holds, Line
<1> QED
  BY <1>3, <1>7 DEF new

(* add_char_to_buf stores the newline of Enter. *)
LEMMA EndLine ==
    ASSUME NEW buf \in [Index -> Byte], NEW line, Holds(buf, line, NUL),
           Len(line) < KB_SIZE - 1
    PROVE  Holds([buf EXCEPT ![Len(line) + 1] = NUL, ![Len(line)] = NL],
                 line, EndOf(line))
<1> DEFINE new == [buf EXCEPT ![Len(line) + 1] = NUL, ![Len(line)] = NL]
<1>1. Line(line)
  BY DEF Holds
<1>2. /\ Len(line) \in Index /\ Len(line) \in Nat /\ Len(line) + 1 \in Index
      /\ \A k \in 1..Len(line) : k - 1 \in Index
  BY <1>1, LineLength, InputAssumption DEF Index
<1>3. new[Len(line)] = NL
  BY <1>2
<1>4. ASSUME NEW k \in 1..Len(line) PROVE new[k - 1] = line[k]
  <2>1. k - 1 \in Index /\ k - 1 # Len(line) /\ k - 1 # Len(line) + 1
    BY <1>2
  <2>2. new[k - 1] = buf[k - 1]
    BY <2>1
  <2> QED
    BY <2>2 DEF Holds
<1> HIDE DEF new
<1>5. Holds(new, line, EndOf(line))
  BY <1>1, <1>3, <1>4 DEF Holds, EndOf
<1> QED
  BY <1>5 DEF new

(* The first n characters of a line. *)
LEMMA CutLine ==
    ASSUME NEW line \in Seq(Char), NEW n \in Nat, n <= Len(line)
    PROVE  /\ SubSeq(line, 1, n) \in Seq(Char) /\ Len(SubSeq(line, 1, n)) = n
           /\ \A k \in 1..n : SubSeq(line, 1, n)[k] = line[k]
<1> DEFINE short == SubSeq(line, 1, n)
<1>1. Len(line) \in Nat /\ \A k \in 1..n : line[k] \in Char
  OBVIOUS
<1>2. /\ short \in Seq(Char) /\ Len(short) = IF 1 <= n THEN n - 1 + 1 ELSE 0
      /\ \A k \in 1..(n - 1 + 1) : short[k] = line[1 + k - 1]
  BY <1>1, SubSeqProperties
<1> HIDE DEF short
<1>3. Len(short) = n
  <2>1. Len(short) = IF 1 <= n THEN n - 1 + 1 ELSE 0
    BY <1>2
  <2> QED
    BY <2>1
<1>4. ASSUME NEW k \in 1..n PROVE short[k] = line[k]
  <2>1. k \in 1..(n - 1 + 1) /\ 1 + k - 1 = k
    OBVIOUS
  <2> QED
    BY <1>2, <2>1
<1> QED
  BY <1>2, <1>3, <1>4 DEF short

(* del_char_from_buf cuts the last character off. *)
LEMMA EraseLine ==
    ASSUME NEW buf \in [Index -> Byte], NEW line, Holds(buf, line, NUL)
    PROVE  /\ SubSeq(line, 1, Len(line) - 1) \in Seq(Char)
           /\ Len(line) > 0 =>
                Holds([buf EXCEPT ![Len(line) - 1] = NUL],
                      SubSeq(line, 1, Len(line) - 1), NUL)
           /\ Len(line) = 0 => SubSeq(line, 1, Len(line) - 1) = line
<1> DEFINE new == [buf EXCEPT ![Len(line) - 1] = NUL]
           short == SubSeq(line, 1, Len(line) - 1)
<1>1. Line(line) /\ line \in Seq(Char)
  BY DEF Holds, Line
<1>2. /\ Len(line) \in Index /\ Len(line) \in Nat
      /\ \A k \in 1..Len(line) : line[k] \in Char /\ k - 1 \in Index
  BY <1>1, LineLength
<1>3. CASE Len(line) = 0
  <2>1. line = << >> /\ short = << >>
    BY <1>1, <1>3, EmptySeq
  <2> QED
    BY <1>3, <2>1
<1>4. CASE Len(line) > 0
  <2>1. /\ short \in Seq(Char) /\ Len(short) = Len(line) - 1
        /\ \A k \in 1..(Len(line) - 1) : short[k] = line[k]
    <3>1. Len(line) - 1 \in Nat /\ Len(line) - 1 <= Len(line)
      BY <1>2, <1>4
    <3> QED
      BY <1>1, <3>1, CutLine
  <2>2. Len(line) - 1 \in Index
    BY <1>2, <1>4, InputAssumption DEF Index
  <2>3. new[Len(line) - 1] = NUL
    BY <2>2
  <2>4. ASSUME NEW k \in 1..(Len(line) - 1) PROVE new[k - 1] = short[k]
    <3>1. k - 1 \in Index /\ k - 1 # Len(line) - 1 /\ k \in 1..Len(line)
      BY <1>2
    <3>2. new[k - 1] = buf[k - 1]
      BY <2>2, <3>1
    <3> QED
      BY <2>1, <3>1, <3>2 DEF Holds
  <2> HIDE DEF new, short
  <2>5. Holds(new, short, NUL)
    BY <1>1, <1>2, <1>4, <2>1, <2>3, <2>4, InputAssumption DEF Holds, Line
  <2> QED
    BY <1>4, <2>1, <2>5 DEF new, short
<1> QED
  BY <1>2, <1>3, <1>4

(* First step and rest of what a handler has to do. *)
LEMMA Tuples ==
    ASSUME NEW a, NEW b, NEW c, NEW d
    PROVE  /\ << a >> # << >> /\ Head(<< a >>) = a /\ Tail(<< a >>) = << >>
           /\ << a, b >> # << >> /\ Head(<< a, b >>) = a
           /\ Tail(<< a, b >>) = << b >>
           /\ << a, b, c >> # << >> /\ Head(<< a, b, c >>) = a
           /\ Tail(<< a, b, c >>) = << b, c >>
           /\ << a, b, c, d >> # << >> /\ Head(<< a, b, c, d >>) = a
           /\ Tail(<< a, b, c, d >>) = << b, c, d >>
OBVIOUS

(* The length that add_char_to_buf or del_char_from_buf has read goes into *)
(* the step at hand.                                                       *)
LEMMA NewHead ==
    ASSUME LInv, Todo # << >>, NEW name, NEW len,
           handler' = [handler EXCEPT ![active_task][1].op = name,
                                      ![active_task][1].len = len],
           UNCHANGED active_task
    PROVE  /\ Todo' = [Todo EXCEPT ![1] = OpAt(name, Head(Todo).arg, len)]
           /\ \A t \in Terms \ {active_task} : handler'[t] = handler[t]
<1>1. Todo \in Seq(Ops) /\ Len(Todo) > 0
  BY EmptySeq DEF LInv, HandlersOK, Todo
<1>2. 1 \in 1..Len(Todo) /\ Head(Todo) = Todo[1] /\ Todo[1] \in Ops
  BY <1>1
<1> DEFINE new == [Todo[1] EXCEPT !.op = name, !.len = len]
<1>3. new = OpAt(name, Todo[1].arg, len)
  <2>1. new \in [op : {name}, arg : {Todo[1].arg}, len : {len}]
    BY <1>2 DEF Ops
  <2> HIDE DEF new
  <2> QED
    BY <2>1 DEF OpAt
<1>4. handler' = [handler EXCEPT ![active_task] =
                    [handler[active_task] EXCEPT ![1] = new]]
  BY <1>1, <1>2 DEF LInv, HandlersOK, Todo
<1> HIDE DEF new
<1> QED
  BY <1>2, <1>3, <1>4 DEF LInv, HandlersOK, Todo

(* The same for what a handler has to do written out. *)
LEMMA NewTuple ==
    ASSUME NEW a, NEW b, NEW c
    PROVE  [<< a >> EXCEPT ![1] = b] = << b >>
           /\ [<< a, c >> EXCEPT ![1] = b] = << b, c >>
OBVIOUS

-----------------------------------------------------------------------------
(* Which step of the handler is at hand in each phase. *)
LEMMA PhaseOps ==
    /\ \A line : Adding(line) => Todo # << >> /\ Head(Todo).op = "add"
    /\ \A line : Putting(line) => Todo # << >> /\ Head(Todo).op = "put"
    /\ \A line : Deleting(line) => Todo # << >> /\ Head(Todo).op = "del"
    /\ \A line : Erasing(line) => Todo # << >> /\ Head(Todo).op = "erase"
    /\ \A line : Ending(line) =>
          /\ Todo # << >>
          /\ \/ Head(Todo).op = "add" /\ Todo = << Op("add", NL), Op("copy", NUL) >>
             \/ /\ Head(Todo).op = "put" /\ Len(line) < KB_SIZE - 1
                /\ Todo = << OpAt("put", NL, Len(line)), Op("copy", NUL) >>
    /\ \A line : Saving(line) => Todo # << >> /\ Head(Todo).op = "save"
    /\ Copying => Todo # << >> /\ Head(Todo).op = "copy"
<1>1. \A line : Adding(line) => Todo # << >> /\ Head(Todo).op = "add"
  BY Tuples DEF Adding, Op
<1>2. \A line : Putting(line) => Todo # << >> /\ Head(Todo).op = "put"
  BY Tuples DEF Putting, OpAt
<1>3. \A line : Deleting(line) => Todo # << >> /\ Head(Todo).op = "del"
  BY Tuples DEF Deleting, Op
<1>4. \A line : Erasing(line) => Todo # << >> /\ Head(Todo).op = "erase"
  BY Tuples DEF Erasing, OpAt
<1>5. \A line : Ending(line) =>
          /\ Todo # << >>
          /\ \/ Head(Todo).op = "add" /\ Todo = << Op("add", NL), Op("copy", NUL) >>
             \/ /\ Head(Todo).op = "put" /\ Len(line) < KB_SIZE - 1
                /\ Todo = << OpAt("put", NL, Len(line)), Op("copy", NUL) >>
  <2>1. Op("add", NL).op = "add" /\ \A n : OpAt("put", NL, n).op = "put"
    BY DEF Op, OpAt
  <2> QED
    BY <2>1, Tuples DEF Ending
<1>6. \A line : Saving(line) => Todo # << >> /\ Head(Todo).op = "save"
  BY Tuples DEF Saving, Op
<1>7. Copying => Todo # << >> /\ Head(Todo).op = "copy"
  BY Tuples DEF Copying, Op
<1> QED
  BY <1>1, <1>2, <1>3, <1>4, <1>5, <1>6, <1>7

(* The same for switch_terminal. *)
LEMMA SwitchOps ==
    ASSUME Switching
    PROVE  \E new \in Terms \ {active_terminal} :
             /\ Holds(table_kb_buf[active_terminal], typed[active_terminal], NUL)
             /\ Todo # << >>
             /\ \/ /\ Head(Todo).op = "clear"
                   /\ Todo = << Op("clear", new), Op("load", new),
                                Op("show", new) >>
                \/ /\ Head(Todo).op = "load"
                   /\ Todo = << Op("load", new), Op("show", new) >>
                \/ /\ Head(Todo).op = "show" /\ Todo = << Op("show", new) >>
                   /\ Holds(kb_buf, typed[new], NUL)
BY Tuples DEF Switching, Op

(* The handler takes a step off; no other handler moves. *)
LEMMA NextOp ==
    ASSUME LInv, Todo # << >>, StepDone(active_task), UNCHANGED active_task
    PROVE  /\ Todo' = Tail(Todo)
           /\ \A t \in Terms \ {active_task} : handler'[t] = handler[t]
BY DEF StepDone, LInv, HandlersOK, Todo

(* add_char_to_buf reads the length of the line. *)
LEMMA AddLenLine ==
    ASSUME LInv, LineInv, AddLen(active_task),
           UNCHANGED << active_task, typed, entered >>
    PROVE  LineInv'
<1>1. Todo # << >> /\ Head(Todo).op = "add"
  BY DEF AddLen, Doing, Todo
<1>2. PICK line \in Seq(Char) :
         /\ Holds(kb_buf, line, NUL)
         /\ \/ Adding(line)
            \/ Ending(line) /\ Todo = << Op("add", NL), Op("copy", NUL) >>
  BY <1>1, PhaseOps, SwitchOps DEF LineInv, Editing, Resting
<1>3. strlen(kb_buf) = Len(line)
  BY <1>2, HeldString
<1>4. /\ UNCHANGED << active_terminal, kb_buf, table_kb_buf >>
      /\ \/ /\ Len(line) < KB_SIZE - 1
            /\ handler' = [handler EXCEPT ![active_task][1].op = "put",
                                          ![active_task][1].len = Len(line)]
         \/ Len(line) >= KB_SIZE - 1 /\ StepDone(active_task)
  <2>1. Line(line) /\ Len(line) \in Nat /\ KB_SIZE \in Nat
    BY <1>2, LineLength, InputAssumption DEF Holds
  <2> QED
    BY <1>3, <2>1 DEF AddLen
<1>5. ASSUME Editing', \A t \in Terms \ {active_task} : handler'[t] = handler[t]
      PROVE  LineInv'
  BY <1>4, <1>5 DEF LineInv
<1>6. CASE Len(line) < KB_SIZE - 1
  <2>1. handler' = [handler EXCEPT ![active_task][1].op = "put",
                                   ![active_task][1].len = Len(line)]
    <3>1. Len(line) \in Nat /\ KB_SIZE \in Nat
      BY InputAssumption
    <3>2. ~(Len(line) >= KB_SIZE - 1)
      BY <1>6, <3>1
    <3> QED
      BY <1>4, <3>2
  <2>2. /\ \A t \in Terms \ {active_task} : handler'[t] = handler[t]
        /\ Todo' = [Todo EXCEPT ![1] = OpAt("put", Head(Todo).arg, Len(line))]
    BY <1>1, <2>1, NewHead
  <2>3. CASE Adding(line)
    <3>1. PICK c \in Char :
             /\ Todo = << Op("add", c) >>
             /\ typed[active_terminal] = Append(line, c)
      BY <1>6, <2>3 DEF Adding
    <3>2. Todo' = << OpAt("put", c, Len(line)) >>
      BY <2>2, <3>1, Tuples, NewTuple DEF Op
    <3>3. Putting(line)'
      BY <1>4, <1>6, <3>1, <3>2 DEF Putting
    <3> QED
      BY <1>2, <1>4, <1>5, <2>2, <3>3 DEF Editing
  <2>4. CASE Ending(line) /\ Todo = << Op("add", NL), Op("copy", NUL) >>
    <3>1. Todo' = << OpAt("put", NL, Len(line)), Op("copy", NUL) >>
      BY <2>2, <2>4, Tuples, NewTuple DEF Op
    <3>2. Ending(line)'
      BY <1>4, <1>6, <2>4, <3>1 DEF Ending
    <3> QED
      BY <1>2, <1>4, <1>5, <2>2, <3>2 DEF Editing
  <2> QED
    BY <1>2, <2>3, <2>4
<1>7. CASE Len(line) >= KB_SIZE - 1
  <2>0. Line(line) /\ Len(line) \in Nat /\ KB_SIZE \in Nat
    BY <1>2, LineLength, InputAssumption DEF Holds
  <2>1. StepDone(active_task) /\ Len(line) = KB_SIZE - 1
    BY <1>4, <1>7, <2>0 DEF Line
  <2>2. /\ Todo' = Tail(Todo)
        /\ \A t \in Terms \ {active_task} : handler'[t] = handler[t]
    BY <1>1, <2>1, NextOp
  <2>3. CASE Adding(line)
    <3>1. Todo' = << >> /\ typed[active_terminal] = line
      BY <2>1, <2>2, <2>3, Tuples DEF Adding
    <3>2. Resting(line)'
      BY <1>4, <3>1 DEF Resting
    <3> QED
      BY <1>2, <1>4, <1>5, <2>2, <3>2 DEF Editing
  <2>4. CASE Ending(line) /\ Todo = << Op("add", NL), Op("copy", NUL) >>
    <3>1. Todo' = << Op("copy", NUL) >>
      BY <2>2, <2>4, Tuples
    <3>2. entered[active_terminal] = line /\ EndOf(line) = NUL
      BY <2>0, <2>1, <2>4 DEF Ending, EndOf
    <3>3. Copying'
      BY <1>2, <1>4, <2>4, <3>1, <3>2 DEF Copying, Ending, EndOf
    <3> QED
      BY <1>4, <2>2, <3>3 DEF LineInv
  <2> QED
    BY <1>2, <2>3, <2>4
<1> QED
  BY <1>4, <1>6, <1>7

(* add_char_to_buf stores a character, or the newline of Enter. *)
LEMMA AddPutLine ==
    ASSUME LInv, LineInv, AddPut(active_task),
           UNCHANGED << active_task, typed, entered >>
    PROVE  LineInv'
<1>1. Todo # << >> /\ Head(Todo).op = "put"
  BY DEF AddPut, Doing, Todo
<1>2. PICK line \in Seq(Char) :
         /\ Holds(kb_buf, line, NUL) /\ Len(line) < KB_SIZE - 1
         /\ \/ Putting(line)
            \/ /\ Ending(line)
               /\ Todo = << OpAt("put", NL, Len(line)), Op("copy", NUL) >>
  BY <1>1, PhaseOps, SwitchOps DEF LineInv, Editing, Resting, Putting
<1>3. /\ UNCHANGED << active_terminal, table_kb_buf >>
      /\ kb_buf' = [kb_buf EXCEPT ![Head(Todo).len + 1] = NUL,
                                  ![Head(Todo).len] = Head(Todo).arg]
      /\ Todo' = Tail(Todo)
      /\ \A t \in Terms \ {active_task} : handler'[t] = handler[t]
  BY <1>1, NextOp DEF AddPut, Todo
<1>4. kb_buf \in [Index -> Byte]
  BY DEF LInv, BuffersOK
<1>5. CASE Putting(line)
  <2>1. PICK c \in Char : /\ Todo = << OpAt("put", c, Len(line)) >>
                          /\ typed[active_terminal] = Append(line, c)
    BY <1>5 DEF Putting
  <2>2. Head(Todo).len = Len(line) /\ Head(Todo).arg = c /\ Tail(Todo) = << >>
    BY <2>1, Tuples DEF OpAt
  <2>3. Append(line, c) \in Seq(Char) /\ Holds(kb_buf', Append(line, c), NUL)
    BY <1>2, <1>3, <1>4, <2>2, AppendLine
  <2>4. Resting(Append(line, c))'
    BY <1>3, <2>1, <2>2 DEF Resting
  <2> QED
    BY <1>3, <2>3, <2>4 DEF LineInv, Editing
<1>6. CASE Ending(line) /\ Todo = << OpAt("put", NL, Len(line)), Op("copy", NUL) >>
  <2>1. /\ Head(Todo).len = Len(line) /\ Head(Todo).arg = NL
        /\ Tail(Todo) = << Op("copy", NUL) >>
    BY <1>6, Tuples DEF OpAt
  <2>2. Holds(kb_buf', line, EndOf(line))
    BY <1>2, <1>3, <1>4, <2>1, EndLine
  <2>3. typed[active_terminal] = << >> /\ entered[active_terminal] = line
    BY <1>6 DEF Ending
  <2>4. Copying'
    BY <1>3, <2>1, <2>2, <2>3 DEF Copying, EndOf
  <2> QED
    BY <1>3, <2>4 DEF LineInv
<1> QED
  BY <1>2, <1>5, <1>6

(* del_char_from_buf reads the length of the line. *)
LEMMA DelLenLine ==
    ASSUME LInv, LineInv, DelLen(active_task),
           UNCHANGED << active_task, typed, entered >>
    PROVE  LineInv'
<1>1. Todo # << >> /\ Head(Todo).op = "del"
  BY DEF DelLen, Doing, Todo
<1>2. PICK line \in Seq(Char) : Holds(kb_buf, line, NUL) /\ Deleting(line)
  BY <1>1, PhaseOps, SwitchOps DEF LineInv, Editing, Resting
<1>3. strlen(kb_buf) = Len(line) /\ Len(line) \in Nat
  BY <1>2, HeldString, LineLength DEF Holds
<1>4. UNCHANGED << active_terminal, kb_buf, table_kb_buf >>
  BY DEF DelLen
<1>5. ASSUME Editing', \A t \in Terms \ {active_task} : handler'[t] = handler[t]
      PROVE  LineInv'
  BY <1>4, <1>5 DEF LineInv
<1>6. /\ Todo = << Op("del", NUL) >>
      /\ typed[active_terminal] = SubSeq(line, 1, Len(line) - 1)
  BY <1>2 DEF Deleting
<1>7. CASE Len(line) > 0
  <2>1. handler' = [handler EXCEPT ![active_task][1].op = "erase",
                                   ![active_task][1].len = Len(line)]
    BY <1>3, <1>7 DEF DelLen
  <2>2. /\ \A t \in Terms \ {active_task} : handler'[t] = handler[t]
        /\ Todo' = [Todo EXCEPT ![1] = OpAt("erase", Head(Todo).arg, Len(line))]
    BY <1>1, <2>1, NewHead
  <2>3. Todo' = << OpAt("erase", NUL, Len(line)) >>
    BY <1>6, <2>2, Tuples, NewTuple DEF Op
  <2>4. Erasing(line)'
    BY <1>4, <1>6, <1>7, <2>3 DEF Erasing
  <2> QED
    BY <1>2, <1>4, <1>5, <2>2, <2>4 DEF Editing
<1>8. CASE Len(line) = 0
  <2>1. StepDone(active_task)
    BY <1>3, <1>8 DEF DelLen
  <2>2. /\ Todo' = Tail(Todo)
        /\ \A t \in Terms \ {active_task} : handler'[t] = handler[t]
    BY <1>1, <2>1, NextOp
  <2>3. SubSeq(line, 1, Len(line) - 1) = line
    BY <1>2, <1>8, EraseLine DEF LInv, BuffersOK
  <2>4. Resting(line)'
    BY <1>4, <1>6, <2>2, <2>3, Tuples DEF Resting
  <2> QED
    BY <1>2, <1>4, <1>5, <2>2, <2>4 DEF Editing
<1> QED
  BY <1>3, <1>7, <1>8

(* del_char_from_buf erases the last character. *)
LEMMA DelEraseLine ==
    ASSUME LInv, LineInv, DelErase(active_task),
           UNCHANGED << active_task, typed, entered >>
    PROVE  LineInv'
<1>1. Todo # << >> /\ Head(Todo).op = "erase"
  BY DEF DelErase, Doing, Todo
<1>2. PICK line \in Seq(Char) : Holds(kb_buf, line, NUL) /\ Erasing(line)
  BY <1>1, PhaseOps, SwitchOps DEF LineInv, Editing, Resting
<1>3. /\ UNCHANGED << active_terminal, table_kb_buf >>
      /\ kb_buf' = [kb_buf EXCEPT ![Head(Todo).len - 1] = NUL]
      /\ Todo' = Tail(Todo)
      /\ \A t \in Terms \ {active_task} : handler'[t] = handler[t]
  BY <1>1, NextOp DEF DelErase, Todo
<1>4. /\ Todo = << OpAt("erase", NUL, Len(line)) >> /\ Len(line) > 0
      /\ typed[active_terminal] = SubSeq(line, 1, Len(line) - 1)
  BY <1>2 DEF Erasing
<1>5. Head(Todo).len = Len(line) /\ Tail(Todo) = << >>
  BY <1>4, Tuples DEF OpAt
<1> DEFINE short == SubSeq(line, 1, Len(line) - 1)
<1>6. short \in Seq(Char) /\ Holds(kb_buf', short, NUL)
  BY <1>2, <1>3, <1>4, <1>5, EraseLine DEF LInv, BuffersOK
<1>7. Resting(short)'
  BY <1>3, <1>4, <1>5 DEF Resting
<1> HIDE DEF short
<1> QED
  BY <1>3, <1>6, <1>7 DEF LineInv, Editing

(* copy_kb_buf leaves an empty line. *)
LEMMA CopyLine ==
    ASSUME LInv, LineInv, copy_kb_buf(active_task),
           UNCHANGED << active_task, typed, entered >>
    PROVE  LineInv'
<1>1. Todo # << >> /\ Head(Todo).op = "copy"
  BY DEF copy_kb_buf, Doing, Todo
<1>2. Copying
  BY <1>1, PhaseOps, SwitchOps DEF LineInv, Editing, Resting
<1>3. /\ UNCHANGED << active_terminal, table_kb_buf >>
      /\ Todo' = Tail(Todo)
      /\ \A t \in Terms \ {active_task} : handler'[t] = handler[t]
  BY <1>1, NextOp DEF copy_kb_buf, Todo
<1>4. kb_buf'[0] = NUL
  BY Basics DEF copy_kb_buf, BeforeNewline
<1>5. Holds(kb_buf', << >>, NUL)
  BY <1>4, EmptyLine
<1>6. Resting(<< >>)'
  BY <1>2, <1>3, Tuples DEF Resting, Copying
<1>7. << >> \in Seq(Char)
  OBVIOUS
<1> QED
  BY <1>3, <1>5, <1>6, <1>7 DEF LineInv, Editing

(* switch_terminal, in its four steps. *)
LEMMA SwitchLine ==
    ASSUME LInv, LineInv, switch_terminal(active_task),
           UNCHANGED << active_task, typed, entered >>
    PROVE  LineInv'
<1>1. Todo # << >> /\ StepDone(active_task)
  BY DEF switch_terminal, Doing, Todo
<1>2. /\ Todo' = Tail(Todo)
      /\ \A t \in Terms \ {active_task} : handler'[t] = handler[t]
  BY <1>1, NextOp
<1>3. active_terminal \in Terms /\ table_kb_buf \in [Terms -> [Index -> Byte]]
  BY DEF LInv, BuffersOK
<1>4. CASE Head(Todo).op = "save"
  <2>1. PICK line \in Seq(Char) : Holds(kb_buf, line, NUL) /\ Saving(line)
    BY <1>1, <1>4, PhaseOps, SwitchOps DEF LineInv, Editing, Resting
  <2>2. PICK new \in Terms \ {active_terminal} :
           /\ Todo = << Op("save", new), Op("clear", new), Op("load", new),
                        Op("show", new) >>
           /\ typed[active_terminal] = line
    BY <2>1 DEF Saving
  <2>3. /\ table_kb_buf' = [table_kb_buf EXCEPT ![active_terminal] = kb_buf]
        /\ UNCHANGED << active_terminal, kb_buf >>
    BY <1>4 DEF switch_terminal, Doing, Todo
  <2>4. Todo' = << Op("clear", new), Op("load", new), Op("show", new) >>
    BY <1>2, <2>2, Tuples
  <2>5. Holds(table_kb_buf'[active_terminal], typed[active_terminal], NUL)
    BY <1>3, <2>1, <2>2, <2>3
  <2>6. \A t \in Terms \ {active_terminal} : table_kb_buf'[t] = table_kb_buf[t]
    BY <1>3, <2>3
  <2>7. Switching'
    BY <2>3, <2>4, <2>5 DEF Switching
  <2> QED
    BY <1>2, <2>3, <2>6, <2>7 DEF LineInv
<1>5. CASE Head(Todo).op \in {"clear", "load", "show"}
  <2>1. Switching
    BY <1>1, <1>5, PhaseOps DEF LineInv, Editing, Resting
  <2>2. PICK new \in Terms \ {active_terminal} :
             /\ Holds(table_kb_buf[active_terminal], typed[active_terminal], NUL)
             /\ \/ /\ Head(Todo).op = "clear"
                   /\ Todo = << Op("clear", new), Op("load", new),
                                Op("show", new) >>
                \/ /\ Head(Todo).op = "load"
                   /\ Todo = << Op("load", new), Op("show", new) >>
                \/ /\ Head(Todo).op = "show" /\ Todo = << Op("show", new) >>
                   /\ Holds(kb_buf, typed[new], NUL)
    BY <2>1, SwitchOps
  <2>3. UNCHANGED table_kb_buf
    BY <1>5 DEF switch_terminal, Doing, Todo
  <2>4. CASE Head(Todo).op = "clear"
    <3>1. Todo' = << Op("load", new), Op("show", new) >>
      <4>1. Todo = << Op("clear", new), Op("load", new), Op("show", new) >>
        BY <2>2, <2>4
      <4> QED
        BY <1>2, <4>1, Tuples
    <3>2. UNCHANGED active_terminal
      BY <2>4 DEF switch_terminal, Doing, Todo
    <3>3. Switching'
      BY <2>2, <2>3, <3>1, <3>2 DEF Switching
    <3> QED
      BY <1>2, <2>3, <3>2, <3>3 DEF LineInv
  <2>5. CASE Head(Todo).op = "load"
    <3>1. Todo' = << Op("show", new) >> /\ Head(Todo).arg = new
      <4>1. Todo = << Op("load", new), Op("show", new) >>
        BY <2>2, <2>5
      <4> QED
        BY <1>2, <4>1, Tuples DEF Op
    <3>2. UNCHANGED active_terminal /\ kb_buf' = table_kb_buf[new]
      BY <2>5, <3>1 DEF switch_terminal, Doing, Todo
    <3>3. Holds(kb_buf', typed[new], NUL)
      BY <3>2 DEF LineInv
    <3>4. Switching'
      BY <2>2, <2>3, <3>1, <3>2, <3>3 DEF Switching
    <3> QED
      BY <1>2, <2>3, <3>2, <3>4 DEF LineInv
  <2>6. CASE Head(Todo).op = "show"
    <3>1. Todo' = << >> /\ Head(Todo).arg = new /\ Holds(kb_buf, typed[new], NUL)
      <4>1. Todo = << Op("show", new) >> /\ Holds(kb_buf, typed[new], NUL)
        BY <2>2, <2>6
      <4> QED
        BY <1>2, <4>1, Tuples DEF Op
    <3>2. UNCHANGED kb_buf /\ active_terminal' = new
      BY <2>6, <3>1 DEF switch_terminal, Doing, Todo
    <3>3. typed[new] \in Seq(Char)
      BY DEF LineInv
    <3>4. Resting(typed[new])'
      BY <3>1, <3>2 DEF Resting
    <3>5. Editing'
      BY <3>1, <3>2, <3>3, <3>4 DEF Editing
    <3>6. \A t \in Terms \ {new} : Holds(table_kb_buf'[t], typed[t], NUL)
      BY <2>2, <2>3 DEF LineInv
    <3> QED
      BY <1>2, <3>2, <3>5, <3>6 DEF LineInv
  <2> QED
    BY <1>5, <2>4, <2>5, <2>6
<1> QED
  BY <1>4, <1>5 DEF switch_terminal, Doing, Todo

-----------------------------------------------------------------------------
(* Keys. *)

(* Between keys the line in kb_buf is the one typed. *)
LEMMA AtRest ==
    ASSUME LineInv, Todo = << >>
    PROVE  Holds(kb_buf, typed[active_terminal], NUL)
BY PhaseOps, SwitchOps DEF LineInv, Editing, Resting

(* The steps of one key. *)
LEMMA OnlyOps ==
    /\ << >> \o << >> = << >>
    /\ \A a : << a >> \o << >> = << a >>
    /\ \A a, b : << a, b >> \o << >> = << a, b >>
    /\ \A a, b, c, d : << a, b, c, d >> \o << >> = << a, b, c, d >>
OBVIOUS

(* If handlers are not cut, a key comes when none is at work on the running*)
(* task.                                                                   *)
LEMMA KeyOps ==
    ASSUME ~Preempted, LInv, NEW ops, Irq(ops), UNCHANGED active_task
    PROVE  /\ Todo = << >> /\ Todo' = ops \o << >>
           /\ \A t \in Terms \ {active_task} : handler'[t] = handler[t]
BY DEF LInv, HandlersOK, Irq, Todo

(* What the handler has to do for a key makes the buffer agree with the    *)
(* line typed.                                                             *)
LEMMA KeysLine ==
    ASSUME ~Preempted, LInv, LineInv,
           \/ \E k \in Letters : HKeyChar(k)
           \/ HKeyBackspace \/ HKeyEnter \/ HKeyCtrlL
           \/ (\E new \in Terms : KeySwitch(new)) /\ UNCHANGED << typed, entered >>
    PROVE  LineInv'
<1>0. PICK line \in Seq(Char) : line = typed[active_terminal]
  BY DEF LInv, LineInv
<1>1. /\ active_terminal \in Terms
      /\ typed \in [Terms -> Seq(Char)] /\ entered \in [Terms -> Seq(Char)]
      /\ kb_buf \in [Index -> Byte]
  BY DEF LInv, LineInv, BuffersOK
<1>2. /\ UNCHANGED << active_terminal, active_task, table_kb_buf >>
      /\ \E ops : Irq(ops)
  BY DEF HKeyChar, HKeyBackspace, HKeyEnter, HKeyCtrlL, KeyChar, KeyBackspace,
         KeyEnter, KeyCtrlL, KeySwitch
<1>3. Todo = << >> /\ \A t \in Terms \ {active_task} : handler'[t] = handler[t]
  BY <1>2, KeyOps
<1>4. Holds(kb_buf, line, NUL)
  BY <1>0, <1>3, AtRest
<1>5. ASSUME typed' \in [Terms -> Seq(Char)], entered' \in [Terms -> Seq(Char)],
             \A t \in Terms \ {active_terminal} : typed'[t] = typed[t],
             Editing'
      PROVE  LineInv'
  BY <1>2, <1>3, <1>5 DEF LineInv
<1>6. ASSUME NEW k \in Letters, HKeyChar(k) PROVE LineInv'
  <2> DEFINE c == [by |-> active_terminal, key |-> k]
             new == IF Len(line) = KB_SIZE - 1 THEN line ELSE Append(line, c)
  <2>1. c \in Char /\ new \in Seq(Char)
    BY <1>1, AppendProperties DEF Char
  <2>2. /\ UNCHANGED << kb_buf, entered >>
        /\ typed' = [typed EXCEPT ![active_terminal] = new]
        /\ Todo' = << Op("add", c) >>
    BY <1>0, <1>2, <1>6, KeyOps, OnlyOps DEF HKeyChar, KeyChar, Shows, Shown
  <2> HIDE DEF c
  <2>3. Adding(line)'
    BY <1>1, <1>2, <2>1, <2>2 DEF Adding
  <2> QED
    BY <1>1, <1>4, <1>5, <2>1, <2>2, <2>3 DEF Editing
<1>7. CASE HKeyBackspace
  <2>1. SubSeq(line, 1, Len(line) - 1) \in Seq(Char)
    BY <1>1, <1>4, EraseLine
  <2>2. /\ UNCHANGED << kb_buf, entered >>
        /\ typed' = [typed EXCEPT ![active_terminal] = SubSeq(line, 1, Len(line) - 1)]
        /\ Todo' = << Op("del", NUL) >>
    BY <1>0, <1>2, <1>7, KeyOps, OnlyOps DEF HKeyBackspace, KeyBackspace, Shows, Shown
  <2>3. Deleting(line)'
    BY <1>1, <1>2, <2>2 DEF Deleting
  <2> QED
    BY <1>1, <1>4, <1>5, <2>1, <2>2, <2>3 DEF Editing
<1>8. CASE HKeyEnter
  <2>1. /\ UNCHANGED kb_buf
        /\ typed' = [typed EXCEPT ![active_terminal] = << >>]
        /\ entered' = [entered EXCEPT ![active_terminal] = line]
        /\ Todo' = << Op("add", NL), Op("copy", NUL) >>
    BY <1>0, <1>2, <1>8, KeyOps, OnlyOps DEF HKeyEnter, KeyEnter, Shows, Shown
  <2>2. Ending(line)'
    BY <1>1, <1>2, <2>1 DEF Ending
  <2> QED
    BY <1>1, <1>4, <1>5, <2>1, <2>2 DEF Editing
<1>9. CASE HKeyCtrlL
  <2>1. /\ kb_buf' = [kb_buf EXCEPT ![0] = NUL] /\ UNCHANGED entered
        /\ typed' = [typed EXCEPT ![active_terminal] = << >>]
        /\ Todo' = << >>
    BY <1>2, <1>9, KeyOps, OnlyOps DEF HKeyCtrlL, KeyCtrlL, Shows
  <2>2. Holds(kb_buf', << >>, NUL)
    BY <1>1, <2>1, Basics, EmptyLine
  <2>3. Resting(<< >>)' /\ << >> \in Seq(Char)
    BY <1>1, <1>2, <2>1 DEF Resting
  <2> QED
    BY <1>1, <1>5, <2>1, <2>2, <2>3 DEF Editing
<1>10. ASSUME NEW new \in Terms, KeySwitch(new), UNCHANGED << typed, entered >>
       PROVE  LineInv'
  <2>1. /\ UNCHANGED kb_buf /\ new # active_terminal
        /\ Todo' = << Op("save", new), Op("clear", new), Op("load", new),
                      Op("show", new) >>
    BY <1>0, <1>2, <1>10, KeyOps, OnlyOps DEF KeySwitch
  <2>2. Saving(line)'
    BY <1>0, <1>2, <1>10, <2>1 DEF Saving
  <2> QED
    BY <1>1, <1>4, <1>5, <1>10, <2>1, <2>2 DEF Editing
<1> QED
  BY <1>6, <1>7, <1>8, <1>9, <1>10

(* terminal_read does not touch the lines. *)
LEMMA OthersLine ==
    ASSUME LInv, LineInv, UNCHANGED << kbVars, active_task, typed, entered >>
    PROVE  LineInv'
BY DEF LineInv, kbVars, Todo, Editing, Copying, Switching, Resting, Adding,
       Putting, Deleting, Erasing, Ending, Saving

(* If handlers are not cut, a tick finds none at work. *)
LEMMA TickLine ==
    ASSUME LInv, LineInv, ~Preempted, Tick, UNCHANGED << typed, entered >>
    PROVE  LineInv'
<1>1. Todo = << >> /\ UNCHANGED kbVars /\ active_task' \in Terms
  BY TickKeepsLInv DEF Tick, Todo, LInv
<1>2. active_terminal \in Terms /\ typed[active_terminal] \in Seq(Char)
  BY DEF LInv, LineInv
<1>3. \A t \in Terms : handler[t] = << >>
  BY <1>1 DEF LineInv, Todo
<1>4. Holds(kb_buf, typed[active_terminal], NUL)
  BY <1>1, AtRest
<1>5. Resting(typed[active_terminal])'
  BY <1>1, <1>3 DEF Resting, Todo, kbVars
<1>6. Editing'
  BY <1>1, <1>2, <1>4, <1>5 DEF Editing, kbVars
<1> QED
  BY <1>1, <1>3, <1>6 DEF LineInv, kbVars

(* The history variables do not restrict the code. *)
LEMMA HNextIsNext == [HNext]_allVars => [Next]_vars
BY DEF HNext, HKeyChar, HKeyBackspace, HKeyEnter, HKeyCtrlL, HOther, Next,
       allVars, vars

(* Every step keeps LineInv. *)
LEMMA NextLine ==
    ASSUME ~Preempted, LInv, LineInv, [HNext]_allVars
    PROVE  LineInv'
<1>1. CASE HandlerStep /\ UNCHANGED << typed, entered >>
  BY <1>1, AddLenLine, AddPutLine, DelLenLine, DelEraseLine, CopyLine, SwitchLine
  DEF HandlerStep
<1>2. CASE /\ \E t \in Terms : ReadStart(t) \/ ReadStep(t)
           /\ UNCHANGED << typed, entered >>
  <2>1. UNCHANGED << kbVars, active_task >>
    BY <1>2 DEF ReadStart, ReadStep, ReadSpin, ReadByte, ReadReset, ReadShift,
                ReadDone, ReadReturn
  <2> QED
    BY <1>2, <2>1, OthersLine
<1>3. CASE UNCHANGED allVars
  BY <1>3, OthersLine DEF allVars, vars, kbVars
<1> QED
  BY <1>1, <1>2, <1>3, KeysLine, TickLine DEF HNext, HOther

(* At boot all lines are empty. *)
LEMMA InitLine == HInit => LineInv
<1> SUFFICES ASSUME HInit PROVE LineInv
  OBVIOUS
<1>1. /\ active_terminal = 0 /\ Todo = << >> /\ kb_buf = EmptyBuf
      /\ typed[0] = << >> /\ << >> \in Seq(Char)
  BY Basics DEF HInit, Init, Todo
<1>2. Holds(EmptyBuf, << >>, NUL)
  BY Basics, EmptyLine DEF EmptyBuf
<1>3. Resting(<< >>)
  BY <1>1 DEF Resting
<1>4. Editing
  BY <1>1, <1>2, <1>3 DEF Editing
<1> QED
  BY <1>2, <1>4 DEF LineInv, HInit, Init

(* If the PIT does not cut keyboard handlers: between keys every           *)
(* terminal's line buffer holds exactly what was typed there since the     *)
(* last Enter, for any number of terminals, any buffer size and through    *)
(* any number of switches, full lines and erasures included.               *)
THEOREM InputTyped == ~Preempted => (HSpec => []LineIsTyped)
<1> SUFFICES ASSUME ~Preempted PROVE HSpec => []LineIsTyped
  OBVIOUS
<1>1. LInv /\ LineInv => LineIsTyped
  <2> SUFFICES ASSUME LInv, LineInv, \A t \in Terms : handler[t] = << >>,
                      NEW t \in Terms
               PROVE  typed[t] = String(IF t = active_terminal THEN kb_buf
                                                               ELSE table_kb_buf[t])
    BY DEF LineIsTyped
  <2>1. Holds(kb_buf, typed[active_terminal], NUL)
    BY AtRest DEF Todo, LInv
  <2> QED
    BY <2>1, HeldString DEF LineInv
<1>2. LInv /\ LineInv /\ [HNext]_allVars => LInv' /\ LineInv'
  BY NextLine, HNextIsNext, NextKeepsLInv
<1>3. HInit => LInv /\ LineInv
  BY InitLine, InitLInv DEF HInit
<1> QED
  BY <1>1, <1>2, <1>3, PTL DEF HSpec

-----------------------------------------------------------------------------

(* The last step stays the last while steps are taken off. *)
LEMMA TailLast ==
    ASSUME NEW S, NEW s \in Seq(S), s # << >>, Tail(s) # << >>
    PROVE  Tail(s)[Len(Tail(s))] = s[Len(s)]
<1>1. Len(s) \in Nat /\ Len(s) > 0 /\ Len(Tail(s)) = Len(s) - 1 /\ Tail(s) \in Seq(S)
  BY EmptySeq, HeadTailProperties
<1>2. Len(Tail(s)) > 0
  BY <1>1, EmptySeq
<1>3. \A k \in 1..Len(Tail(s)) : Tail(s)[k] = s[k + 1]
  BY HeadTailProperties
<1> QED
  BY <1>1, <1>2, <1>3

(* Only copy_kb_buf ends the handling of Enter. *)
LEMMA StepKeepsEntering ==
    ASSUME LInv, LineInv, HandlerStep, ~copy_kb_buf(active_task)
    PROVE  Entering' = Entering
<1>1. Todo # << >> /\ Head(Todo).op # "copy"
  BY DEF HandlerStep, AddLen, AddPut, DelLen, DelErase, switch_terminal, Doing, Todo
<1>2. Todo \in Seq(Ops) /\ Len(Todo) \in Nat /\ Len(Todo) > 0 /\ Head(Todo) = Todo[1]
  BY <1>1, EmptySeq DEF LInv, HandlersOK, Todo
<1>3. ASSUME StepDone(active_task) PROVE Entering' = Entering
  <2>1. Todo' = Tail(Todo)
    BY <1>1, <1>3, NextOp DEF HandlerStep
  <2>2. CASE Tail(Todo) = << >>
    <3>1. Len(Todo) = 1
      <4>1. Len(Tail(Todo)) = Len(Todo) - 1 /\ Len(Tail(Todo)) = 0
        BY <1>1, <1>2, <2>2, HeadTailProperties
      <4> QED
        BY <1>2, <4>1
    <3> QED
      BY <1>1, <1>2, <2>1, <2>2, <3>1 DEF Entering
  <2>3. CASE Tail(Todo) # << >>
    BY <1>1, <1>2, <2>1, <2>3, TailLast DEF Entering
  <2> QED
    BY <2>2, <2>3
<1>4. ASSUME NEW name \in {"put", "erase"}, NEW len,
             handler' = [handler EXCEPT ![active_task][1].op = name,
                                        ![active_task][1].len = len]
      PROVE  Entering' = Entering
  <2>1. Todo' = [Todo EXCEPT ![1] = OpAt(name, Head(Todo).arg, len)]
    BY <1>1, <1>4, NewHead DEF HandlerStep
  <2>2. /\ Len(Todo') = Len(Todo) /\ Todo' # << >>
        /\ Todo'[1].op = name
        /\ \A k \in 2..Len(Todo) : Todo'[k] = Todo[k]
    BY <1>2, <2>1 DEF OpAt
  <2> QED
    BY <1>1, <1>2, <2>2 DEF Entering
<1> QED
  BY <1>3, <1>4 DEF HandlerStep, AddLen, AddPut, DelLen, DelErase, switch_terminal

(* The handler touches the hand-over in copy_kb_buf only. *)
LEMMA StepRead ==
    ASSUME LInv, LineInv, ReadInv, HandlerStep, ~copy_kb_buf(active_task),
           UNCHANGED << typed, entered >>
    PROVE  ReadInv'
<1>1. Entering' = Entering
  BY StepKeepsEntering
<1>2. UNCHANGED << int_buf, terminal_read_release, reader >>
  BY DEF HandlerStep, AddLen, AddPut, DelLen, DelErase, switch_terminal
<1>3. ASSUME Entering PROVE UNCHANGED active_terminal
  <2>1. Head(Todo).op # "show"
    <3> SUFFICES ASSUME Todo # << >>, Head(Todo).op = "show" PROVE FALSE
      BY <1>3 DEF Entering
    <3>1. Switching
      BY PhaseOps DEF LineInv, Editing, Resting
    <3>2. PICK new : Todo = << Op("show", new) >>
      BY <3>1, SwitchOps
    <3>3. \A a : Len(<< a >>) = 1 /\ << a >>[1] = a
      OBVIOUS
    <3> QED
      BY <1>3, <3>2, <3>3 DEF Entering, Op
  <2> QED
    BY <2>1 DEF HandlerStep, AddLen, AddPut, DelLen, DelErase, copy_kb_buf,
                switch_terminal, Doing, Todo
<1>4. \A t \in Terms : (Busy(t)' <=> Busy(t)) /\ (Carries(t)' <=> Carries(t))
  BY <1>2 DEF Busy, Carries
<1> QED
  BY <1>1, <1>2, <1>3, <1>4 DEF ReadInv

(* copy_kb_buf hands over the line that was entered, with its newline, or  *)
(* without if it is full.                                                  *)
LEMMA CopyRead ==
    ASSUME LInv, LineInv, ReadInv, HandlerStep, copy_kb_buf(active_task),
           UNCHANGED << typed, entered >>
    PROVE  ReadInv'
<1>1. Todo # << >> /\ Head(Todo).op = "copy"
  BY DEF copy_kb_buf, Doing, Todo
<1>2. Copying
  BY <1>1, PhaseOps, SwitchOps DEF LineInv, Editing, Resting
<1>3. Entering /\ ~Entering'
  <2>1. Todo = << Op("copy", NUL) >>
    BY <1>2 DEF Copying
  <2>2. \A a : Len(<< a >>) = 1 /\ << a >>[1] = a
    OBVIOUS
  <2>3. Entering
    BY <1>1, <2>1, <2>2 DEF Entering, Op
  <2>4. Todo' = << >>
    BY <1>1, <2>1, NextOp, Tuples DEF copy_kb_buf, HandlerStep
  <2> QED
    BY <2>3, <2>4 DEF Entering
<1>4. UNCHANGED << active_terminal, terminal_read_release, reader >>
  BY DEF copy_kb_buf, HandlerStep
<1> DEFINE line == entered[active_terminal]
<1>5. /\ active_terminal \in Terms /\ Busy(active_terminal)
      /\ reader[active_terminal].i = 0
      /\ reader[active_terminal].pc \in {"idle", "spin"}
  BY <1>3 DEF ReadInv, LInv, Busy
<1>6. Line(line) /\ Holds(kb_buf, line, EndOf(line))
  BY <1>2 DEF Copying, Holds
<1>7. /\ Len(line) \in Index /\ Len(line) \in Nat
      /\ \A k \in 1..Len(line) : line[k] \in Char
  BY <1>6, LineLength
<1>8. ASSUME NEW k \in Index, k <= Len(line)
      PROVE  int_buf'[k] = kb_buf[k]
  <2>1. k \in Nat
    BY InputAssumption DEF Index
  <2>2. ASSUME NEW m \in 0..(k - 1) PROVE kb_buf[m] # NL
    <3>1. m + 1 \in 1..Len(line) /\ (m + 1) - 1 = m
      BY <1>7, <1>8, <2>1
    <3> QED
      BY <1>6, <1>7, <3>1, InputAssumption DEF Holds
  <2> QED
    BY <2>2 DEF copy_kb_buf, BeforeNewline
<1>9. /\ \A k \in Index : k < Len(line) => int_buf'[k] = line[k + 1]
      /\ int_buf'[Len(line)] = EndOf(line)
  <2>1. ASSUME NEW k \in Index, k < Len(line) PROVE int_buf'[k] = line[k + 1]
    <3>1. k \in Nat /\ k <= Len(line) /\ k + 1 \in 1..Len(line) /\ (k + 1) - 1 = k
      BY <1>7, <2>1, InputAssumption DEF Index
    <3> QED
      BY <1>6, <1>8, <3>1 DEF Holds
  <2> QED
    BY <1>6, <1>7, <1>8, <2>1 DEF Holds
<1>10. Carries(active_terminal)'
  BY <1>4, <1>5, <1>6, <1>7, <1>9 DEF Carries, EndOf, Line
<1>11. \A t \in Terms : Busy(t)' <=> Busy(t)
  BY <1>4 DEF Busy
<1>12. \A t \in Terms : terminal_read_release[t] = "ENTER_RELEASED" =>
                           t = active_terminal
  BY <1>5 DEF ReadInv, Busy
<1> QED
  BY <1>3, <1>4, <1>10, <1>11, <1>12 DEF ReadInv

(* Enter comes when nobody reads: the flag set is the only one. *)
LEMMA EnterRead ==
    ASSUME ~Preempted, OneLine, LInv, LineInv, ReadInv, HKeyEnter
    PROVE  ReadInv'
<1>1. /\ AllLinesRead /\ UNCHANGED << active_terminal, active_task, int_buf, reader >>
      /\ terminal_read_release' = [terminal_read_release EXCEPT
                                     ![active_terminal] = "ENTER_RELEASED"]
      /\ Todo' = << Op("add", NL), Op("copy", NUL) >>
  BY KeyOps, OnlyOps DEF HKeyEnter, KeyEnter
<1>2. Entering'
  <2>1. \A a, b : << a, b >> # << >> /\ Len(<< a, b >>) = 2 /\ << a, b >>[2] = b
    OBVIOUS
  <2> QED
    BY <1>1, <2>1 DEF Entering, Op
<1>3. /\ active_terminal \in Terms
      /\ terminal_read_release \in [Terms -> {"ENTER_WAITING", "ENTER_RELEASED"}]
  BY DEF LInv, FlagsOK
<1>4. \A t \in Terms : reader[t].pc \in {"idle", "spin"}
                          /\ terminal_read_release[t] = "ENTER_WAITING"
  BY <1>1 DEF AllLinesRead
<1>5. \A t \in Terms : Busy(t)' => t = active_terminal
  BY <1>1, <1>3, <1>4 DEF Busy
<1> QED
  BY <1>1, <1>2, <1>3, <1>4, <1>5 DEF ReadInv

(* The other keys do not touch the hand-over. *)
LEMMA KeysRead ==
    ASSUME ~Preempted, LInv, LineInv, ReadInv,
           \/ \E k \in Letters : HKeyChar(k)
           \/ HKeyBackspace \/ HKeyCtrlL
           \/ (\E new \in Terms : KeySwitch(new)) /\ UNCHANGED << typed, entered >>
    PROVE  ReadInv'
<1>1. /\ UNCHANGED << active_terminal, active_task, int_buf, terminal_read_release,
                      reader, entered >>
      /\ \E ops : Irq(ops)
  BY DEF HKeyChar, HKeyBackspace, HKeyCtrlL, KeyChar, KeyBackspace,
         KeyCtrlL, KeySwitch
<1>2. ~Entering
  BY <1>1, KeyOps, OnlyOps DEF Entering
<1>3. \A a, b, c, d : /\ Len(<< a >>) = 1 /\ << a >>[1] = a
                      /\ Len(<< a, b, c, d >>) = 4 /\ << a, b, c, d >>[4] = d
  OBVIOUS
<1>4. ~Entering'
  <2>1. ASSUME NEW k \in Letters, HKeyChar(k) PROVE ~Entering'
    BY <1>1, <1>3, <2>1, KeyOps, OnlyOps DEF HKeyChar, KeyChar, Entering, Op
  <2>2. CASE HKeyBackspace
    BY <1>1, <1>3, <2>2, KeyOps, OnlyOps DEF HKeyBackspace, KeyBackspace, Entering, Op
  <2>3. CASE HKeyCtrlL
    BY <1>1, <2>3, KeyOps, OnlyOps DEF HKeyCtrlL, KeyCtrlL, Entering
  <2>4. ASSUME NEW new \in Terms, KeySwitch(new) PROVE ~Entering'
    BY <1>1, <1>3, <2>4, KeyOps, OnlyOps DEF KeySwitch, Entering, Op
  <2> QED
    BY <2>1, <2>2, <2>3, <2>4
<1>5. \A t \in Terms : (Busy(t)' <=> Busy(t)) /\ (Carries(t)' <=> Carries(t))
  BY <1>1 DEF Busy, Carries
<1> QED
  BY <1>1, <1>2, <1>4, <1>5 DEF ReadInv

-----------------------------------------------------------------------------
(* terminal_read. *)

(* A step of terminal_read on one terminal: int_buf may change only if     *)
(* that terminal is the busy one, so that no other line is lost.           *)
LEMMA OneReader ==
    ASSUME LInv, ReadInv, NEW t \in Terms, NEW pc, Reading(t, pc),
           UNCHANGED << kbVars, active_task, typed, entered >>,
           \A u \in Terms \ {t} : /\ reader'[u] = reader[u]
                                  /\ terminal_read_release'[u] = terminal_read_release[u],
           Busy(t)' => Busy(t),
           int_buf' # int_buf => Busy(t),
           /\ reader'[t].pc \in {"idle", "spin"} =>
                 reader'[t].i = 0 /\ reader'[t].dest = << >>
           /\ reader'[t].pc \in {"copy", "reset"} =>
                 terminal_read_release'[t] = "ENTER_RELEASED"
           /\ reader'[t].pc \in {"shift", "done"} =>
                 /\ terminal_read_release'[t] = "ENTER_WAITING"
                 /\ reader'[t].dest = ReadOf(entered[t], reader'[t].n)
           /\ terminal_read_release'[t] = "ENTER_RELEASED" => Carries(t)'
    PROVE  ReadInv'
<1>1. ~Entering /\ ~Entering'
  BY DEF Reading, Entering, Todo, kbVars
<1>2. \A u \in Terms \ {t} : Busy(u)' <=> Busy(u)
  BY DEF Busy
<1>3. ASSUME NEW u \in Terms \ {t}, terminal_read_release[u] = "ENTER_RELEASED"
      PROVE  Carries(u)'
  <2>1. Carries(u) /\ Busy(u)
    BY <1>1, <1>3 DEF ReadInv, Busy
  <2>2. int_buf' = int_buf
    BY <2>1 DEF ReadInv
  <2> QED
    BY <2>1, <2>2 DEF Carries
<1>4. \A u, v \in Terms : Busy(u)' /\ Busy(v)' => u = v
  BY <1>2 DEF ReadInv
<1> QED
  BY <1>1, <1>3, <1>4 DEF ReadInv

(* A call of terminal_read begins. *)
LEMMA ReadStartRead ==
    ASSUME LInv, ReadInv, NEW t \in Terms, ReadStart(t),
           UNCHANGED << typed, entered >>
    PROVE  ReadInv'
<1>1. Reading(t, "idle") /\ reader[t].pc = "idle"
      /\ UNCHANGED << kbVars, active_task, int_buf, terminal_read_release >>
  BY DEF ReadStart, Reading
<1>2. PICK n : reader' = [reader EXCEPT ![t] = [NoRead EXCEPT !.pc = "spin", !.n = n]]
  BY DEF ReadStart
<1>3. /\ reader'[t] = [NoRead EXCEPT !.pc = "spin", !.n = n]
      /\ \A u \in Terms \ {t} : reader'[u] = reader[u]
  BY <1>2 DEF LInv, ReadersOK
<1>4. reader'[t].pc = "spin" /\ reader'[t].i = 0 /\ reader'[t].dest = << >>
  BY <1>3 DEF NoRead
<1>5. ~Entering
  BY <1>1 DEF Reading, Entering, Todo
<1>6. reader[t].i = 0 /\ reader[t].dest = << >>
  BY <1>1 DEF ReadInv
<1>7. ASSUME terminal_read_release[t] = "ENTER_RELEASED" PROVE Carries(t)'
  <2>1. Carries(t)
    BY <1>5, <1>7 DEF ReadInv
  <2> QED
    BY <1>1, <1>4, <1>6, <2>1 DEF Carries
<1>8. Busy(t)' => Busy(t)
  BY <1>1, <1>4 DEF Busy
<1> QED
  BY <1>1, <1>3, <1>4, <1>7, <1>8, OneReader

(* A call sees the Enter flag of its terminal. *)
LEMMA ReadSpinRead ==
    ASSUME LInv, ReadInv, NEW t \in Terms, ReadSpin(t),
           UNCHANGED << typed, entered >>
    PROVE  ReadInv'
<1>1. /\ Reading(t, "spin") /\ reader[t].pc = "spin"
      /\ terminal_read_release[t] = "ENTER_RELEASED"
      /\ UNCHANGED << kbVars, active_task, int_buf, terminal_read_release >>
  BY DEF ReadSpin, Reading
<1>2. /\ reader'[t] = [reader[t] EXCEPT !.pc = "copy"]
      /\ \A u \in Terms \ {t} : reader'[u] = reader[u]
      /\ reader[t] \in Calls
  BY DEF ReadSpin, LInv, ReadersOK
<1>3. /\ reader'[t].pc = "copy" /\ reader'[t].i = reader[t].i
      /\ reader'[t].dest = reader[t].dest
  BY <1>2 DEF Calls
<1>4. Carries(t)
  BY <1>1 DEF ReadInv, Reading, Entering, Todo
<1>5. Carries(t)'
  BY <1>1, <1>3, <1>4 DEF Carries
<1>6. Busy(t)
  BY <1>1 DEF Busy
<1> QED
  BY <1>1, <1>2, <1>3, <1>5, <1>6, OneReader

(* A byte is copied, or the newline found at the end of the line. *)
LEMMA ReadByteRead ==
    ASSUME LInv, ReadInv, NEW t \in Terms, ReadByte(t),
           UNCHANGED << typed, entered >>
    PROVE  ReadInv'
<1> DEFINE r == reader[t]
           line == entered[t]
<1>1. /\ Reading(t, "copy") /\ r.pc = "copy" /\ r.i < r.n
      /\ UNCHANGED << kbVars, active_task, terminal_read_release >>
  BY DEF ReadByte, Reading
<1>2. /\ r \in Calls /\ r.i \in Nat /\ r.n \in Nat /\ r.n <= KB_SIZE
      /\ r.dest \in Seq(Byte) /\ Len(r.dest) = r.i
      /\ r.i \in Index /\ int_buf \in [Index -> Byte] /\ reader \in [Terms -> Calls]
  <2>1. /\ r \in Calls /\ int_buf \in [Index -> Byte] /\ reader \in [Terms -> Calls]
    BY DEF LInv, ReadersOK, BuffersOK
  <2>2. /\ r.i \in Nat /\ r.n \in Nat /\ r.n <= KB_SIZE
        /\ r.dest \in Seq(Byte) /\ Len(r.dest) = r.i
    BY <1>1, <2>1, InputAssumption DEF Calls
  <2>3. r.i \in Index
    BY <1>1, <2>2, InputAssumption DEF Index
  <2> QED
    BY <2>1, <2>2, <2>3
<1>3. terminal_read_release[t] = "ENTER_RELEASED" /\ Busy(t)
  BY <1>1 DEF ReadInv, Busy
<1>4. Carries(t)
  BY <1>1, <1>3 DEF ReadInv, Reading, Entering, Todo
<1>5. Line(line) /\ Len(line) \in Nat /\ KB_SIZE \in Nat
      /\ \A k \in 1..Len(line) : line[k] \in Char
  BY <1>4, LineLength, InputAssumption DEF Carries
<1>6. CASE int_buf[r.i] = NL
  <2>1. UNCHANGED int_buf /\ reader' = [reader EXCEPT ![t].pc = "reset"]
    BY <1>6 DEF ReadByte
  <2>2. /\ reader'[t].pc = "reset" /\ reader'[t].i = r.i /\ reader'[t].dest = r.dest
        /\ \A u \in Terms \ {t} : reader'[u] = reader[u]
    BY <1>2, <2>1 DEF Calls
  <2>3. r.i = Len(line) /\ Len(line) < KB_SIZE - 1
    <3>1. r.i >= Len(line)
      <4> SUFFICES ASSUME r.i < Len(line) PROVE FALSE
        BY <1>2, <1>5
      <4>1. int_buf[r.i] = line[r.i + 1] /\ r.i + 1 \in 1..Len(line)
        BY <1>2, <1>4, <1>5 DEF Carries
      <4> QED
        BY <1>5, <1>6, <4>1, InputAssumption
    <3>2. r.i = Len(line)
      BY <1>1, <1>2, <1>4, <1>5, <3>1 DEF Carries
    <3>3. EndOf(line) = NL
      BY <1>2, <1>4, <1>6, <3>2 DEF Carries
    <3> QED
      BY <3>2, <3>3, InputAssumption DEF EndOf
  <2>4. Carries(t)'
    BY <1>4, <2>1, <2>2, <2>3 DEF Carries
  <2> QED
    BY <1>1, <1>3, <2>1, <2>2, <2>4, OneReader
<1>7. CASE int_buf[r.i] # NL
  <2>1. /\ int_buf' = [int_buf EXCEPT ![r.i] = NUL]
        /\ reader' = [reader EXCEPT ![t].i = @ + 1,
                                    ![t].dest = Append(@, int_buf[r.i])]
    BY <1>7 DEF ReadByte
  <2>2. /\ reader'[t].pc = "copy" /\ reader'[t].i = r.i + 1
        /\ reader'[t].dest = Append(r.dest, int_buf[r.i])
        /\ \A u \in Terms \ {t} : reader'[u] = reader[u]
    BY <1>1, <1>2, <2>1 DEF Calls
  <2>3. /\ \A k \in 1..r.i : Append(r.dest, int_buf[r.i])[k] = r.dest[k]
        /\ Append(r.dest, int_buf[r.i])[r.i + 1] = int_buf[r.i]
    BY <1>2, AppendProperties
  <2>4. \A k \in Index : k >= r.i + 1 => k >= r.i /\ int_buf'[k] = int_buf[k]
    BY <1>2, <2>1, InputAssumption DEF Index
  <2>5. r.i + 1 <= Len(line) \/ Len(line) = KB_SIZE - 1
    <3> SUFFICES ASSUME Len(line) < r.i + 1, Len(line) # KB_SIZE - 1 PROVE FALSE
      BY <1>2, <1>5
    <3>1. r.i = Len(line) /\ Len(line) < KB_SIZE - 1
      BY <1>2, <1>4, <1>5 DEF Carries, Line
    <3> QED
      BY <1>2, <1>4, <1>7, <3>1 DEF Carries, EndOf
  <2>6. ASSUME NEW k \in 1..(r.i + 1), k <= Len(line)
        PROVE  Append(r.dest, int_buf[r.i])[k] = line[k]
    <3>1. CASE k = r.i + 1
      <4>1. int_buf[r.i] = line[r.i + 1]
        BY <1>2, <1>4, <1>5, <2>6, <3>1 DEF Carries
      <4> QED
        BY <2>3, <3>1, <4>1
    <3>2. CASE k # r.i + 1
      BY <1>2, <1>4, <2>3, <2>6, <3>2 DEF Carries
    <3> QED
      BY <3>1, <3>2
  <2>7. Carries(t)'
    BY <1>4, <1>5, <2>2, <2>4, <2>5, <2>6 DEF Carries, EndOf, Line
  <2> QED
    BY <1>1, <1>3, <2>2, <2>7, OneReader
<1> QED
  BY <1>6, <1>7

(* At the end of the copy the program has the line, cut to its room and    *)
(* with a newline if it did not fit or was full.                           *)
LEMMA ReadResetRead ==
    ASSUME LInv, ReadInv, NEW t \in Terms, ReadReset(t),
           UNCHANGED << typed, entered >>
    PROVE  ReadInv'
<1> DEFINE r == reader[t]
           line == entered[t]
           new == IF r.i = r.n THEN [r.dest EXCEPT ![r.n] = NL] ELSE r.dest
<1>1. /\ \/ Reading(t, "reset") /\ r.pc = "reset"
         \/ Reading(t, "copy") /\ r.pc = "copy" /\ r.i = r.n
      /\ UNCHANGED << kbVars, active_task, int_buf >>
  BY DEF ReadReset, Reading
<1>2. /\ r \in Calls /\ r.i \in Nat /\ r.n \in Nat /\ r.n <= KB_SIZE /\ r.n > 0
      /\ r.dest \in Seq(Byte) /\ Len(r.dest) = r.i
      /\ r.pc = "reset" => r.i < r.n
      /\ reader \in [Terms -> Calls]
      /\ terminal_read_release \in [Terms -> {"ENTER_WAITING", "ENTER_RELEASED"}]
  <2>1. /\ r \in Calls /\ reader \in [Terms -> Calls]
        /\ terminal_read_release \in [Terms -> {"ENTER_WAITING", "ENTER_RELEASED"}]
    BY DEF LInv, ReadersOK, FlagsOK
  <2>2. /\ r.i \in Nat /\ r.n \in Nat /\ r.n <= KB_SIZE /\ r.dest \in Seq(Byte)
        /\ Len(r.dest) = r.i /\ (r.pc = "reset" => r.i < r.n)
    BY <1>1, <2>1, InputAssumption DEF Calls
  <2>3. r.n > 0
    BY <1>1, <2>1, <2>2 DEF Calls
  <2> QED
    BY <2>1, <2>2, <2>3
<1>3. terminal_read_release[t] = "ENTER_RELEASED" /\ Busy(t)
  BY <1>1 DEF ReadInv, Busy
<1>4. Carries(t)
  BY <1>1, <1>3 DEF ReadInv, Reading, Entering, Todo
<1>5. /\ line \in Seq(Char) /\ Len(line) \in Nat /\ KB_SIZE \in Nat
      /\ Len(line) < KB_SIZE /\ \A k \in 1..Len(line) : line[k] \in Char
  BY <1>4, LineLength, InputAssumption DEF Carries, Line
<1>6. /\ terminal_read_release' = [terminal_read_release EXCEPT ![t] = "ENTER_WAITING"]
      /\ reader' = [reader EXCEPT ![t].pc = "shift", ![t].i = @ + 1, ![t].dest = new]
  BY DEF ReadReset
<1>7. /\ reader'[t].pc = "shift" /\ reader'[t].dest = new /\ reader'[t].n = r.n
      /\ terminal_read_release'[t] = "ENTER_WAITING"
      /\ \A u \in Terms \ {t} :
            /\ reader'[u] = reader[u]
            /\ terminal_read_release'[u] = terminal_read_release[u]
  BY <1>2, <1>6 DEF Calls
<1>8. new = ReadOf(line, r.n)
  <2>1. CASE r.pc = "reset"
    <3>1. r.i = Len(line) /\ Len(line) < KB_SIZE - 1 /\ r.i < r.n
      BY <1>2, <1>4, <2>1 DEF Carries
    <3>2. new = r.dest /\ ReadOf(line, r.n) = line
      BY <1>2, <3>1 DEF ReadOf
    <3>3. \A k \in 1..Len(line) : r.dest[k] = line[k]
      BY <1>4, <3>1 DEF Carries
    <3>4. r.dest = line
      BY <1>2, <1>5, <3>1, <3>3, SeqEqual
    <3> QED
      BY <3>2, <3>4
  <2>2. CASE r.i = r.n
    <3>1. ~(Len(line) < r.n /\ Len(line) < KB_SIZE - 1) /\ r.n - 1 <= Len(line)
      BY <1>2, <1>4, <1>5, <2>2 DEF Carries
    <3> DEFINE cut == SubSeq(line, 1, r.n - 1)
    <3>2. /\ cut \in Seq(Char) /\ Len(cut) = r.n - 1
          /\ \A k \in 1..(r.n - 1) : cut[k] = line[k]
      BY <1>2, <1>5, <3>1, CutLine
    <3>3. ReadOf(line, r.n) = Append(cut, NL)
      BY <3>1 DEF ReadOf
    <3> HIDE DEF cut
    <3>4. /\ Append(cut, NL) \in Seq(Byte) /\ Len(Append(cut, NL)) = r.n
          /\ Append(cut, NL)[r.n] = NL
          /\ \A k \in 1..(r.n - 1) : Append(cut, NL)[k] = line[k]
      <4>1. cut \in Seq(Byte) /\ NL \in Byte
        BY <3>2 DEF Byte
      <4>2. /\ Append(cut, NL) \in Seq(Byte) /\ Len(Append(cut, NL)) = Len(cut) + 1
            /\ \A k \in 1..Len(cut) : Append(cut, NL)[k] = cut[k]
            /\ Append(cut, NL)[Len(cut) + 1] = NL
        BY <4>1, AppendProperties
      <4> QED
        BY <1>2, <3>2, <4>2
    <3>5. new = [r.dest EXCEPT ![r.n] = NL] /\ r.n \in 1..Len(r.dest)
      BY <1>2, <2>2
    <3>6. /\ new \in Seq(Byte) /\ Len(new) = r.n /\ new[r.n] = NL
          /\ \A k \in 1..(r.n - 1) : new[k] = r.dest[k]
      BY <1>2, <2>2, <3>5, ExceptSeq, Basics
    <3>7. ASSUME NEW k \in 1..(r.n - 1) PROVE r.dest[k] = line[k]
      <4>1. k \in 1..r.i /\ k <= Len(line)
        BY <1>2, <1>5, <2>2, <3>1
      <4> QED
        BY <1>4, <4>1 DEF Carries
    <3>8. new = Append(cut, NL)
      <4> HIDE DEF new
      <4>1. ASSUME NEW k \in 1..r.n PROVE new[k] = Append(cut, NL)[k]
        <5>1. CASE k = r.n
          BY <3>4, <3>6, <5>1
        <5>2. CASE k \in 1..(r.n - 1)
          BY <3>4, <3>6, <3>7, <5>2
        <5>3. r.n \in Nat
          BY <1>2
        <5>4. k = r.n \/ k \in 1..(r.n - 1)
          BY <5>3
        <5> QED
          BY <5>1, <5>2, <5>4
      <4> QED
        BY <3>4, <3>6, <4>1, SeqEqual
    <3> QED
      BY <3>3, <3>8
  <2> QED
    BY <1>1, <2>1, <2>2
<1>9. \E pc : Reading(t, pc)
  BY <1>1
<1> QED
  BY <1>1, <1>3, <1>7, <1>8, <1>9, OneReader

(* The shift loop, its end and the return leave the program its line. *)
LEMMA LateStepsRead ==
    ASSUME LInv, ReadInv, NEW t \in Terms,
           ReadShift(t) \/ ReadDone(t) \/ ReadReturn(t),
           UNCHANGED << typed, entered >>
    PROVE  ReadInv'
<1>1. /\ \E pc : Reading(t, pc) /\ reader[t].pc = pc /\ pc \in {"shift", "done"}
      /\ UNCHANGED << kbVars, active_task >>
      /\ ReadReturn(t) \/ ReadDone(t) =>
            UNCHANGED << int_buf, terminal_read_release >>
  BY DEF ReadShift, ReadDone, ReadReturn, Reading
<1>2. /\ Busy(t) /\ terminal_read_release[t] = "ENTER_WAITING"
      /\ reader[t].dest = ReadOf(entered[t], reader[t].n)
  BY <1>1 DEF ReadInv, Busy
<1>3. /\ reader \in [Terms -> Calls] /\ reader[t] \in Calls
      /\ FlagsOK
  BY DEF LInv, ReadersOK
<1>0. UNCHANGED terminal_read_release
  <2>1. \A u \in Terms : terminal_read_release[u] = "ENTER_WAITING"
    BY <1>2, <1>3 DEF ReadInv, Busy, FlagsOK
  <2> QED
    BY <1>1, <1>3, <2>1, Basics DEF ReadShift, FlagsOK
<1>4. CASE ReadShift(t) \/ ReadDone(t)
  <2>1. /\ reader'[t].pc \in {"shift", "done"} /\ reader'[t].dest = reader[t].dest
        /\ reader'[t].n = reader[t].n
        /\ \A u \in Terms \ {t} : reader'[u] = reader[u]
    BY <1>3, <1>4 DEF ReadShift, ReadDone, Reading, Calls
  <2> QED
    BY <1>0, <1>1, <1>2, <2>1, OneReader
<1>5. CASE ReadReturn(t)
  <2>1. reader'[t] = NoRead /\ \A u \in Terms \ {t} : reader'[u] = reader[u]
    BY <1>3, <1>5 DEF ReadReturn
  <2>2. reader'[t].pc = "idle" /\ reader'[t].i = 0 /\ reader'[t].dest = << >>
    BY <2>1 DEF NoRead
  <2> QED
    BY <1>0, <1>1, <1>2, <2>1, <2>2, OneReader
<1> QED
  BY <1>4, <1>5

(* A tick changes neither line nor call. *)
LEMMA TickRead ==
    ASSUME LInv, LineInv, ReadInv, ~Preempted, Tick, UNCHANGED << typed, entered >>
    PROVE  ReadInv'
<1>1. /\ Todo = << >> /\ active_task' \in Terms
      /\ UNCHANGED << kbVars, int_buf, terminal_read_release, reader >>
  BY TickKeepsLInv DEF Tick, Todo, LInv
<1>2. ~Entering /\ ~Entering'
  BY <1>1 DEF LineInv, Entering, Todo, kbVars
<1>3. \A t \in Terms : (Busy(t)' <=> Busy(t)) /\ (Carries(t)' <=> Carries(t))
  BY <1>1 DEF Busy, Carries
<1> QED
  BY <1>1, <1>2, <1>3 DEF ReadInv, kbVars

(* Every step keeps ReadInv. *)
LEMMA NextRead ==
    ASSUME ~Preempted, OneLine, LInv, LineInv, ReadInv, [HNext]_allVars
    PROVE  ReadInv'
<1>1. CASE HandlerStep /\ UNCHANGED << typed, entered >>
  BY <1>1, StepRead, CopyRead
<1>2. CASE /\ \E t \in Terms : ReadStart(t) \/ ReadStep(t)
           /\ UNCHANGED << typed, entered >>
  BY <1>2, ReadStartRead, ReadSpinRead, ReadByteRead, ReadResetRead, LateStepsRead
  DEF ReadStep
<1>3. CASE UNCHANGED allVars
  <2>1. UNCHANGED << active_terminal, active_task, int_buf, terminal_read_release,
                     handler, reader, entered >>
    BY <1>3 DEF allVars, vars
  <2>2. Entering' = Entering
    BY <2>1 DEF Entering, Todo
  <2>3. \A t \in Terms : (Busy(t)' <=> Busy(t)) /\ (Carries(t)' <=> Carries(t))
    BY <2>1 DEF Busy, Carries
  <2> QED
    BY <2>1, <2>2, <2>3 DEF ReadInv
<1> QED
  BY <1>1, <1>2, <1>3, EnterRead, KeysRead, TickRead DEF HNext, HOther

(* If moreover the user waits for a line to be read before pressing Enter  *)
(* again, terminal_read returns the line entered on its own terminal, cut  *)
(* to the room the program gave, whatever is typed, switched and scheduled *)
(* in the meantime.                                                        *)
THEOREM InputReads == ~Preempted /\ OneLine => (HSpec => []ReadsOwnLine)
<1> SUFFICES ASSUME ~Preempted, OneLine PROVE HSpec => []ReadsOwnLine
  OBVIOUS
<1>1. ReadInv => ReadsOwnLine
  BY DEF ReadInv, ReadsOwnLine
<1>2. LInv /\ LineInv /\ ReadInv /\ [HNext]_allVars => (LInv /\ LineInv /\ ReadInv)'
  BY NextRead, NextLine, HNextIsNext, NextKeepsLInv
<1>3. HInit => LInv /\ LineInv /\ ReadInv
  <2>1. HInit => ReadInv
    BY Basics DEF HInit, Init, ReadInv, Busy, Entering, Todo, NoRead
  <2> QED
    BY <2>1, InitLine, InitLInv DEF HInit
<1> QED
  BY <1>1, <1>2, <1>3, PTL DEF HSpec
=============================================================================
