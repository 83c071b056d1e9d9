---------------------------- MODULE ScreenProofs ----------------------------
(***************************************************************************)
(* Proofs about Screen, for every number of terminals and every size of    *)
(* screen, line buffer and page that ScreenAssumption allows.              *)
(***************************************************************************)
EXTENDS Screen, SequenceTheorems, TLAPS

-----------------------------------------------------------------------------
(* Sizes. *)

\* A product grows with its second factor.
LEMMA ProductMonotone ==
    ASSUME NEW c \in Nat, NEW m \in Int, NEW n \in Int, m <= n
    PROVE  c * m <= c * n
<1>1. c * (n - m) >= 0
  BY SMT
<1>2. c * (n - m) = c * n - c * m
  BY SMT
<1> QED
  BY <1>1, <1>2, SMT

\* The constants as numbers, and what the screen takes of a page.
LEMMA Sizes ==
    /\ MAX_TERM_N \in Nat /\ MAX_TERM_N >= 1
    /\ NUM_ROWS \in Nat /\ NUM_ROWS >= 2
    /\ NUM_COLS \in Nat /\ NUM_COLS >= 1
    /\ KB_SIZE \in Nat /\ KB_SIZE >= 2
    /\ PAGE \in Nat /\ NUM_ROWS * NUM_COLS <= PAGE
    /\ NUM_ROWS * NUM_COLS = NUM_COLS * LastRow + NUM_COLS
    /\ NUM_COLS * LastRow \in Nat
    /\ LastRow \in Nat /\ LastRow >= 1
<1>1. /\ MAX_TERM_N \in Nat /\ MAX_TERM_N >= 1
      /\ NUM_ROWS \in Nat /\ NUM_ROWS >= 2
      /\ NUM_COLS \in Nat /\ NUM_COLS >= 1
      /\ KB_SIZE \in Nat /\ KB_SIZE >= 2
      /\ PAGE \in Nat /\ NUM_ROWS * NUM_COLS <= PAGE
  BY ScreenAssumption
<1>2. LastRow \in Nat /\ LastRow >= 1 /\ NUM_ROWS = LastRow + 1
  BY <1>1 DEF LastRow
<1>3. (LastRow + 1) * NUM_COLS = NUM_COLS * LastRow + NUM_COLS
  BY <1>1, <1>2, SMT
<1>4. NUM_COLS * LastRow \in Nat
  BY <1>1, <1>2, SMT
<1> QED
  BY <1>1, <1>2, <1>3, <1>4

\* The pages: where a page may start.
Pages == {VIDEO} \cup {video(t) : t \in Terms}

\* Every page that Pages names lies within video memory.
LEMMA PageInMemory ==
    ASSUME NEW page \in Pages
    PROVE  /\ page \in Nat
           /\ \A c \in Window : page + c \in Memory
<1> DEFINE top == PAGE * (MAX_TERM_N + 1)
<1>1. top \in Nat /\ PAGE <= top
  <2>1. PAGE * 1 <= top
    BY Sizes, ProductMonotone
  <2> QED
    BY <2>1, Sizes
<1>2. page \in Nat /\ page + PAGE <= top
  <2>1. CASE page = VIDEO
    BY <1>1, <2>1, Sizes DEF VIDEO
  <2>2. ASSUME NEW t \in Terms, page = video(t)
        PROVE  page \in Nat /\ page + PAGE <= top
    <3>1. t \in Nat /\ t + 2 <= MAX_TERM_N + 1
      BY Sizes DEF Terms
    <3>2. PAGE * (t + 2) <= top
      BY <3>1, Sizes, ProductMonotone
    <3>3. PAGE * (t + 1) + PAGE = PAGE * (t + 2) /\ PAGE * (t + 1) \in Nat
      BY <3>1, Sizes, SMT
    <3> QED
      BY <2>2, <3>2, <3>3 DEF video
  <2> QED
    BY <2>1, <2>2 DEF Pages
<1>3. \A c \in Window : c \in Nat /\ c < PAGE
  BY Sizes DEF Window
<1> QED
  BY <1>1, <1>2, <1>3, Sizes DEF Memory

Cell == Terms \cup {Blank}

\* Scrolling a page keeps the type of video memory.
LEMMA ScrollKeepsType ==
    ASSUME NEW m \in [Memory -> Cell], NEW page \in Pages
    PROVE  video_scroll(m, page) \in [Memory -> Cell]
<1>1. ASSUME NEW a \in Memory, a - page \in 0..(NUM_COLS * LastRow - 1)
      PROVE  a + NUM_COLS \in Memory
  <2>1. a \in Nat /\ page \in Nat
    BY PageInMemory DEF Memory
  <2>2. a - page + NUM_COLS \in Window
    BY <1>1, <2>1, Sizes DEF Window
  <2>3. page + (a - page + NUM_COLS) \in Memory
    BY <2>2, PageInMemory
  <2> QED
    BY <2>1, <2>3, Sizes
<1>2. Blank \in Cell
  BY DEF Cell
<1> QED
  BY <1>1, <1>2 DEF video_scroll

-----------------------------------------------------------------------------
(* The calls of vidmap and switch_terminal under way, and the page table.  *)

CallType == VidmapCalls \cup SwitchCalls

\* Task t is in call c, and there is no other call.
Only(t, c) == [u \in Terms |-> IF u = t THEN << c >> ELSE << >>]

\* What is known of the calls when there is only one.
LEMMA OnlyCall ==
    ASSUME NEW cs, NEW t \in Terms, NEW c, cs = Only(t, c)
    PROVE  /\ cs[t] = << c >> /\ Head(cs[t]) = c /\ Tail(cs[t]) = << >>
           /\ cs[t] # << >>
           /\ \A u \in Terms : cs[u] # << >> => u = t
<1>1. cs = [u \in Terms |-> IF u = t THEN << c >> ELSE << >>]
  BY DEF Only
<1>2. Head(<< c >>) = c /\ Tail(<< c >>) = << >> /\ << c >> # << >>
  OBVIOUS
<1> QED
  BY <1>1, <1>2

\* How it goes on.
LEMMA OnlyNext ==
    ASSUME NEW t \in Terms, NEW c, calls = Only(t, c), NEW pc, NEW i, NEW d,
           d = [c EXCEPT !.pc = pc, !.i = i], GoTo(t, pc, i)
    PROVE  calls' = Only(t, d)
<1>1. calls = [u \in Terms |-> IF u = t THEN << c >> ELSE << >>]
  BY DEF Only
<1>2. calls[t] = << c >> /\ Head(calls[t]) = c /\ Tail(calls[t]) = << >>
  BY OnlyCall
<1>3. [calls EXCEPT ![t] = << d >>] = Only(t, d)
  BY <1>1 DEF Only
<1>4. Continued(t, pc, i) = << d >> \o << >>
  BY <1>2 DEF Continued
<1>5. << d >> \o << >> = << d >>
  OBVIOUS
<1> QED
  BY <1>3, <1>4, <1>5 DEF GoTo

\* How it ends.
LEMMA OnlyReturn ==
    ASSUME NEW t \in Terms, NEW c, calls = Only(t, c), Return(t)
    PROVE  calls' = [u \in Terms |-> << >>]
<1>1. calls = [u \in Terms |-> IF u = t THEN << c >> ELSE << >>]
  BY DEF Only
<1> QED
  BY <1>1, OnlyCall DEF Return

\* The first call.
LEMMA FirstCall ==
    ASSUME NEW cs, cs \in [Terms -> Seq(CallType)], NEW t \in Terms, NEW c,
           \A u \in Terms : cs[u] = << >>
    PROVE  [cs EXCEPT ![t] = << c >> \o @] = Only(t, c)
<1>1. << c >> \o << >> = << c >>
  OBVIOUS
<1> QED
  BY <1>1 DEF Only

\* The part of the types that the table depends on.
TableTypes ==
    /\ active_terminal \in Terms
    /\ vidmap_ptable \in [Terms -> Places]
    /\ mapped \subseteq Terms
    /\ calls \in [Terms -> Seq(CallType)]
    /\ settled \in BOOLEAN

\* Starting, continuing and ending a call keep the type of the calls.
LEMMA CallsTyped ==
    ASSUME calls \in [Terms -> Seq(CallType)], NEW t \in Terms
    PROVE  /\ \A c \in CallType :
                 [calls EXCEPT ![t] = << c >> \o @] \in [Terms -> Seq(CallType)]
           /\ calls[t] # << >> =>
                /\ Head(calls[t]) \in CallType
                /\ Return(t) => calls' \in [Terms -> Seq(CallType)]
<1>1. calls[t] \in Seq(CallType)
  OBVIOUS
<1>2. \A c \in CallType : << c >> \o calls[t] \in Seq(CallType)
  BY <1>1
<1>3. calls[t] # << >> => /\ Head(calls[t]) \in CallType
                          /\ Tail(calls[t]) \in Seq(CallType)
  BY <1>1, HeadTailProperties
<1> QED
  BY <1>2, <1>3 DEF Return

\* The next step of a call of the same kind.
LEMMA GoToTyped ==
    ASSUME calls \in [Terms -> Seq(CallType)], NEW t \in Terms,
           calls[t] # << >>, NEW pc, NEW i \in 0..MAX_TERM_N,
           \/ pc \in {"entries", "done"}
           \/ /\ pc \in {"clear", "load"}
              /\ Head(calls[t]).pc \in {"save", "clear", "load"}
    PROVE  Continued(t, pc, i) \in Seq(CallType)
<1> DEFINE c == Head(calls[t])
           d == [c EXCEPT !.pc = pc, !.i = i]
<1>1. c \in CallType /\ Tail(calls[t]) \in Seq(CallType)
  BY HeadTailProperties
<1>2. d \in CallType
  BY <1>1 DEF CallType, VidmapCalls, SwitchCalls
<1>3. << d >> \o Tail(calls[t]) \in Seq(CallType)
  <2> HIDE DEF d
  <2> QED
    BY <1>1, <1>2
<1> QED
  BY <1>3 DEF Continued

\* A step that touches neither the table nor the calls.
TableFrame == << active_terminal, vidmap_ptable, mapped, calls, settled >>

LEMMA NextTable == TableTypes /\ [Next]_vars => TableTypes'
<1> SUFFICES ASSUME TableTypes, [Next]_vars PROVE TableTypes'
  OBVIOUS
<1>1. /\ active_terminal \in Terms /\ vidmap_ptable \in [Terms -> Places]
      /\ mapped \subseteq Terms /\ calls \in [Terms -> Seq(CallType)]
      /\ settled \in BOOLEAN /\ MAX_TERM_N \in Nat
      /\ 0 \in 0..MAX_TERM_N
  BY Sizes DEF TableTypes
<1>2. ASSUME UNCHANGED TableFrame PROVE TableTypes'
  BY <1>1, <1>2 DEF TableFrame, TableTypes
<1>3. ASSUME NEW t \in Terms, NEW newline \in BOOLEAN, NEW c \in VidCells,
             \/ PutcStart(t, newline) \/ PutcStore(t) \/ PutcTest(t)
             \/ PutcMove(t) \/ VidWrite(t, c)
      PROVE  TableTypes'
  BY <1>2, <1>3 DEF PutcStart, PutcStore, PutcTest, PutcMove, VidWrite, TableFrame
<1>4. ASSUME NEW t \in Terms, NEW newline \in BOOLEAN,
             \/ PutcStart(t, newline) \/ PutcStore(t) \/ PutcTest(t)
             \/ PutcMove(t)
      PROVE  TableTypes'
  BY <1>2, <1>4 DEF PutcStart, PutcStore, PutcTest, PutcMove, TableFrame
<1>5. CASE KeyChar \/ KeyBackspace \/ KeyEnter \/ KeyCtrlL \/ UNCHANGED vars
  BY <1>2, <1>5 DEF KeyChar, KeyBackspace, KeyEnter, KeyCtrlL, KeyEchoed,
                    KeyHandled, TableFrame, vars
<1>6. ASSUME NEW t \in Terms, vidmap(t) PROVE TableTypes'
  <2> DEFINE c == [op |-> "vidmap", pc |-> "absent", term |-> t, i |-> 0]
  <2>1. c \in CallType
    BY <1>1 DEF CallType, VidmapCalls
  <2>2. calls' = [calls EXCEPT ![t] = << c >> \o @]
    BY <1>6 DEF vidmap, Begin
  <2> HIDE DEF c
  <2>3. calls' \in [Terms -> Seq(CallType)]
    BY <1>1, <2>1, <2>2, CallsTyped
  <2> QED
    BY <1>1, <1>6, <2>3 DEF vidmap, TableTypes
<1>7. ASSUME NEW t \in Terms, NEW new \in Terms, switch_terminal(t, new)
      PROVE  TableTypes'
  <2> DEFINE c == [op |-> "switch_terminal", pc |-> "save", term |-> new, i |-> 0]
  <2>1. c \in CallType
    BY <1>1 DEF CallType, SwitchCalls
  <2>2. calls' = [calls EXCEPT ![t] = << c >> \o @]
    BY <1>7 DEF switch_terminal, Begin
  <2> HIDE DEF c
  <2>3. calls' \in [Terms -> Seq(CallType)]
    BY <1>1, <2>1, <2>2, CallsTyped
  <2> QED
    BY <1>1, <1>7, <2>3 DEF switch_terminal, KeyHandled, TableTypes, Alone
<1>8. ASSUME NEW t \in Terms, VidmapAbsent(t) PROVE TableTypes'
  <2>1. calls[t] # << >> /\ calls' = [calls EXCEPT ![t] = Continued(t, "entries", 0)]
    BY <1>8 DEF VidmapAbsent, At, GoTo
  <2>2. Continued(t, "entries", 0) \in Seq(CallType)
    BY <1>1, <2>1, GoToTyped
  <2>3. calls' \in [Terms -> Seq(CallType)]
    BY <1>1, <2>1, <2>2
  <2> QED
    BY <1>1, <1>8, <2>3 DEF VidmapAbsent, TableTypes, Places
<1>9. ASSUME NEW t \in Terms, SetEntry(t) PROVE TableTypes'
  <2> DEFINE c == Head(calls[t])
  <2>1. calls[t] # << >> /\ c \in CallType
    BY <1>1, <1>9, CallsTyped DEF SetEntry, At
  <2>2. c.term \in Terms /\ c.i \in 0..MAX_TERM_N
    BY <2>1 DEF CallType, VidmapCalls, SwitchCalls
  <2>3. c.i # MAX_TERM_N => c.i + 1 \in 0..MAX_TERM_N /\ c.i \in Terms
    <3> HIDE DEF c
    <3> QED
      BY <1>1, <2>2 DEF Terms
  <2>4. calls' \in [Terms -> Seq(CallType)]
    <3>1. CASE c.i = MAX_TERM_N
      <4>1. calls' = [calls EXCEPT ![t] = Continued(t, "done", 0)]
        BY <1>9, <3>1 DEF SetEntry, GoTo
      <4>2. Continued(t, "done", 0) \in Seq(CallType)
        BY <1>1, <2>1, GoToTyped
      <4> QED
        BY <1>1, <4>1, <4>2
    <3>2. CASE c.i # MAX_TERM_N
      <4>1. calls' = [calls EXCEPT ![t] = Continued(t, "entries", c.i + 1)]
        BY <1>9, <3>2 DEF SetEntry, GoTo
      <4>2. Continued(t, "entries", c.i + 1) \in Seq(CallType)
        <5> DEFINE j == c.i + 1
        <5>1. j \in 0..MAX_TERM_N
          BY <2>3, <3>2
        <5> HIDE DEF j
        <5>2. Continued(t, "entries", j) \in Seq(CallType)
          BY <1>1, <2>1, <5>1, GoToTyped
        <5> QED
          BY <5>2 DEF j
      <4> QED
        BY <1>1, <4>1, <4>2
    <3> QED
      BY <3>1, <3>2
  <2>5. vidmap_ptable' \in [Terms -> Places]
    BY <1>1, <1>9, <2>2, <2>3 DEF SetEntry, Places
  <2> QED
    BY <1>1, <1>9, <2>4, <2>5 DEF SetEntry, TableTypes
<1>10. ASSUME NEW t \in Terms, VidmapReturn(t) PROVE TableTypes'
  <2>1. calls' \in [Terms -> Seq(CallType)]
    BY <1>1, <1>10, CallsTyped DEF VidmapReturn, At
  <2> QED
    BY <1>1, <1>10, <2>1 DEF VidmapReturn, TableTypes
<1>11. ASSUME NEW t \in Terms, VidFault(t) PROVE TableTypes'
  BY <1>1, <1>11 DEF VidFault, TableTypes
<1>12. ASSUME NEW t \in Terms, SwitchSave(t) \/ SwitchClear(t) \/ SwitchLoad(t)
       PROVE  TableTypes'
  <2>1. /\ calls[t] # << >> /\ Head(calls[t]).pc \in {"save", "clear", "load"}
        /\ \E pc \in {"clear", "load", "entries"} :
              calls' = [calls EXCEPT ![t] = Continued(t, pc, 0)]
    BY <1>12 DEF SwitchSave, SwitchClear, SwitchLoad, At, GoTo
  <2>2. PICK pc \in {"clear", "load", "entries"} :
           calls' = [calls EXCEPT ![t] = Continued(t, pc, 0)]
    BY <2>1
  <2>3. Continued(t, pc, 0) \in Seq(CallType)
    BY <1>1, <2>1, GoToTyped
  <2>4. calls' \in [Terms -> Seq(CallType)]
    BY <1>1, <2>2, <2>3
  <2> QED
    BY <1>1, <1>12, <2>4 DEF SwitchSave, SwitchClear, SwitchLoad, TableTypes
<1>13. ASSUME NEW t \in Terms, SwitchShow(t) PROVE TableTypes'
  <2>1. calls' \in [Terms -> Seq(CallType)] /\ Head(calls[t]) \in CallType
    BY <1>1, <1>13, CallsTyped DEF SwitchShow, At
  <2>2. Head(calls[t]).term \in Terms
    BY <2>1 DEF CallType, VidmapCalls, SwitchCalls
  <2> QED
    BY <1>1, <1>13, <2>1, <2>2 DEF SwitchShow, TableTypes
<1> QED
  BY <1>3, <1>4, <1>5, <1>6, <1>7, <1>8, <1>9, <1>10, <1>11, <1>12, <1>13,
     ScreenAssumption DEF Next, printf, terminal_write

LEMMA InitTable == Init => TableTypes
<1>1. 0 \in Terms
  BY Sizes DEF Terms
<1>2. << >> \in Seq(CallType)
  OBVIOUS
<1> QED
  BY <1>1, <1>2 DEF Init, TableTypes, Places

\* The table as it should be when terminal s is shown.
Ptable(s) == [t \in Terms |-> IF t = s THEN VIDEO ELSE video(t)]

\* What the one call c of task t has done to the table so far.
CallOnTable(t, c) ==
    /\ calls = Only(t, c)
    /\ c.op = "vidmap" => c.term = active_terminal
    /\ c.pc = "entries" => \A u \in Terms : u < c.i => vidmap_ptable[u] = video(u)
    /\ c.pc = "done" => vidmap_ptable = Ptable(c.term)

(* If the last call began alone, it is still alone or the table is right,  *)
(* provided that anybody has called vidmap at all.                         *)
MapInv ==
    settled => \/ Alone /\ (mapped # {} => vidmap_ptable = Ptable(active_terminal))
               \/ \E t \in Terms, c \in CallType : CallOnTable(t, c)

\* The calls a settled table can be in the middle of.
LEMMA OneCall ==
    ASSUME TableTypes, MapInv, settled, NEW t \in Terms, calls[t] # << >>
    PROVE  Head(calls[t]) \in CallType /\ CallOnTable(t, Head(calls[t]))
<1>1. ~Alone
  BY DEF Alone
<1>2. PICK u \in Terms, c \in CallType : CallOnTable(u, c)
  BY <1>1 DEF MapInv
<1>3. u = t /\ Head(calls[t]) = c
  BY <1>2, OnlyCall DEF CallOnTable
<1> QED
  BY <1>2, <1>3

\* A call that begins when no other is under way.
LEMMA BeginMap ==
    ASSUME TableTypes, NEW t \in Terms, NEW c \in CallType, Alone,
           calls' = [calls EXCEPT ![t] = << c >> \o @],
           c.pc \notin {"entries", "done"},
           c.op = "vidmap" => c.term = active_terminal,
           UNCHANGED active_terminal
    PROVE  MapInv'
<1>1. calls' = Only(t, c)
  BY FirstCall DEF TableTypes, Alone
<1>2. CallOnTable(t, c)'
  BY <1>1 DEF CallOnTable, Only
<1> QED
  BY <1>2 DEF MapInv

\* Every step keeps the table so.
LEMMA NextMap ==
    ASSUME TableTypes, TableTypes', MapInv, [Next]_vars PROVE MapInv'
<1>1. /\ active_terminal \in Terms /\ vidmap_ptable \in [Terms -> Places]
      /\ calls \in [Terms -> Seq(CallType)]
      /\ MAX_TERM_N \in Nat /\ 0 \in 0..MAX_TERM_N
  BY Sizes DEF TableTypes
<1>2. ASSUME UNCHANGED TableFrame PROVE MapInv'
  BY <1>2 DEF TableFrame, MapInv, CallOnTable, Alone, Ptable
<1>3. ASSUME NEW t \in Terms, NEW newline \in BOOLEAN, NEW c \in VidCells,
             \/ PutcStart(t, newline) \/ PutcStore(t) \/ PutcTest(t)
             \/ PutcMove(t) \/ VidWrite(t, c)
      PROVE  MapInv'
  BY <1>2, <1>3 DEF PutcStart, PutcStore, PutcTest, PutcMove, VidWrite, TableFrame
<1>4. ASSUME NEW t \in Terms, NEW newline \in BOOLEAN,
             \/ PutcStart(t, newline) \/ PutcStore(t) \/ PutcTest(t)
             \/ PutcMove(t)
      PROVE  MapInv'
  BY <1>2, <1>4 DEF PutcStart, PutcStore, PutcTest, PutcMove, TableFrame
<1>5. CASE KeyChar \/ KeyBackspace \/ KeyEnter \/ KeyCtrlL \/ UNCHANGED vars
  BY <1>2, <1>5 DEF KeyChar, KeyBackspace, KeyEnter, KeyCtrlL, KeyEchoed,
                    KeyHandled, TableFrame, vars
<1>6. ASSUME NEW t \in Terms, vidmap(t) PROVE MapInv'
  <2> DEFINE c == [op |-> "vidmap", pc |-> "absent", term |-> t, i |-> 0]
  <2>1. c \in CallType
    BY <1>1 DEF CallType, VidmapCalls
  <2>2. /\ calls' = [calls EXCEPT ![t] = << c >> \o @]
        /\ settled' => Alone /\ t = active_terminal
        /\ UNCHANGED active_terminal
    BY <1>6 DEF vidmap, Begin
  <2>3. c.pc = "absent" /\ c.term = t
    OBVIOUS
  <2> HIDE DEF c
  <2>4. CASE settled'
    BY <2>1, <2>2, <2>3, <2>4, BeginMap
  <2> QED
    BY <2>4 DEF MapInv
<1>7. ASSUME NEW t \in Terms, NEW new \in Terms, switch_terminal(t, new)
      PROVE  MapInv'
  <2> DEFINE c == [op |-> "switch_terminal", pc |-> "save", term |-> new, i |-> 0]
  <2>1. c \in CallType
    BY <1>1 DEF CallType, SwitchCalls
  <2>2. /\ calls' = [calls EXCEPT ![t] = << c >> \o @]
        /\ settled' => Alone
        /\ UNCHANGED active_terminal
    BY <1>7 DEF switch_terminal, Begin
  <2>3. c.pc = "save" /\ c.op = "switch_terminal"
    OBVIOUS
  <2> HIDE DEF c
  <2>4. CASE settled'
    BY <2>1, <2>2, <2>3, <2>4, BeginMap
  <2> QED
    BY <2>4 DEF MapInv
<1>8. ASSUME NEW t \in Terms, NEW pc, NEW i \in 0..MAX_TERM_N,
             calls[t] # << >>, GoTo(t, pc, i), UNCHANGED << active_terminal, settled >>,
             pc = "entries" /\ settled => \A u \in Terms : u < i => vidmap_ptable'[u] = video(u),
             pc = "done" /\ settled => vidmap_ptable' = Ptable(Head(calls[t]).term)
      PROVE  MapInv'
  <2> SUFFICES ASSUME settled PROVE \E u \in Terms, c \in CallType : CallOnTable(u, c)'
    BY <1>8 DEF MapInv
  <2> DEFINE c == Head(calls[t])
             d == [c EXCEPT !.pc = pc, !.i = i]
  <2>1. c \in CallType /\ CallOnTable(t, c)
    BY <1>8, OneCall
  <2>2. /\ d.op = c.op /\ d.pc = pc /\ d.term = c.term /\ d.i = i
    BY <2>1 DEF CallType, VidmapCalls, SwitchCalls
  <2>3. calls' = Only(t, d)
    <3>1. calls = Only(t, c)
      BY <2>1 DEF CallOnTable
    <3> HIDE DEF c
    <3>2. d = [c EXCEPT !.pc = pc, !.i = i]
      OBVIOUS
    <3> HIDE DEF d
    <3> QED
      BY <1>8, <3>1, <3>2, OnlyNext
  <2>4. d \in CallType
    <3> HIDE DEF d
    <3>1. calls'[t] = << d >> /\ calls'[t] \in Seq(CallType)
      BY <2>3, OnlyCall DEF TableTypes
    <3>2. Head(<< d >>) = d /\ << d >> # << >>
      OBVIOUS
    <3> QED
      BY <3>1, <3>2, HeadTailProperties
  <2> HIDE DEF d, c
  <2>5. PICK e \in CallType : e = d
    BY <2>4
  <2>6. CallOnTable(t, e)'
    <3>1. e.op = "vidmap" => e.term = active_terminal'
      BY <1>8, <2>1, <2>2, <2>5 DEF CallOnTable
    <3>2. e.pc = "entries" => \A u \in Terms : u < e.i => vidmap_ptable'[u] = video(u)
      BY <1>8, <2>2, <2>5
    <3>3. e.pc = "done" => vidmap_ptable' = Ptable(e.term)
      BY <1>8, <2>2, <2>5 DEF c
    <3> QED
      BY <2>3, <2>5, <3>1, <3>2, <3>3 DEF CallOnTable, Only, Ptable
  <2> QED
    BY <2>6
<1>9. ASSUME NEW t \in Terms, VidmapAbsent(t) PROVE MapInv'
  <2>1. \A u \in Terms : ~(u < 0)
    BY DEF Terms
  <2> QED
    BY <1>1, <1>8, <1>9, <2>1 DEF VidmapAbsent, At
<1>10. ASSUME NEW t \in Terms, SetEntry(t) PROVE MapInv'
  <2> DEFINE c == Head(calls[t])
  <2>1. /\ calls[t] # << >> /\ c.pc = "entries"
        /\ UNCHANGED << active_terminal, settled >>
    BY <1>10 DEF SetEntry, At
  <2>2. c \in CallType
    BY <1>1, <2>1, CallsTyped
  <2>3. c.term \in Terms /\ c.i \in 0..MAX_TERM_N
    BY <2>2 DEF CallType, VidmapCalls, SwitchCalls
  <2>4. settled => \A u \in Terms : u < c.i => vidmap_ptable[u] = video(u)
    BY <2>1, OneCall DEF CallOnTable
  <2>5. CASE c.i = MAX_TERM_N
    <3>1. GoTo(t, "done", 0) /\ vidmap_ptable' = [vidmap_ptable EXCEPT ![c.term] = VIDEO]
      BY <1>10, <2>5 DEF SetEntry
    <3>2. settled => vidmap_ptable' = Ptable(c.term)
      <4>1. settled => \A u \in Terms : vidmap_ptable[u] = video(u)
        BY <1>1, <2>4, <2>5 DEF Terms
      <4> QED
        BY <1>1, <2>3, <3>1, <4>1 DEF Ptable
    <3> QED
      BY <1>1, <1>8, <2>1, <3>1, <3>2
  <2>6. CASE c.i # MAX_TERM_N
    <3>1. /\ GoTo(t, "entries", c.i + 1)
          /\ vidmap_ptable' = [vidmap_ptable EXCEPT ![c.i] = video(c.i)]
      BY <1>10, <2>6 DEF SetEntry
    <3>2. c.i + 1 \in 0..MAX_TERM_N
      BY <1>1, <2>3, <2>6
    <3>3. settled => \A u \in Terms : u < c.i + 1 => vidmap_ptable'[u] = video(u)
      <4> SUFFICES ASSUME settled, NEW u \in Terms, u < c.i + 1
                   PROVE  vidmap_ptable'[u] = video(u)
        OBVIOUS
      <4>1. u = c.i \/ u < c.i
        BY <2>3 DEF Terms
      <4> QED
        BY <1>1, <2>4, <3>1, <4>1
    <3> QED
      BY <1>8, <2>1, <3>1, <3>2, <3>3
  <2> QED
    BY <2>5, <2>6
<1>11. ASSUME NEW t \in Terms, SwitchSave(t) \/ SwitchClear(t) PROVE MapInv'
  BY <1>1, <1>8, <1>11 DEF SwitchSave, SwitchClear, At
<1>12. ASSUME NEW t \in Terms, SwitchLoad(t) PROVE MapInv'
  <2>1. \A u \in Terms : ~(u < 0)
    BY DEF Terms
  <2> QED
    BY <1>1, <1>8, <1>12, <2>1 DEF SwitchLoad, At
<1>13. ASSUME NEW t \in Terms, VidmapReturn(t) \/ SwitchShow(t) PROVE MapInv'
  <2> SUFFICES ASSUME settled PROVE Alone' /\ vidmap_ptable' = Ptable(active_terminal')
    BY <1>13 DEF MapInv, VidmapReturn, SwitchShow, Ptable
  <2> DEFINE c == Head(calls[t])
  <2>1. calls[t] # << >> /\ c.pc = "done" /\ Return(t) /\ UNCHANGED vidmap_ptable
    BY <1>13 DEF VidmapReturn, SwitchShow, At
  <2>2. CallOnTable(t, c)
    BY <2>1, OneCall
  <2>3. calls' = [u \in Terms |-> << >>]
    BY <2>1, <2>2, OnlyReturn DEF CallOnTable
  <2>4. active_terminal' = c.term
    BY <1>13, <2>2 DEF VidmapReturn, SwitchShow, CallOnTable
  <2> QED
    BY <2>1, <2>2, <2>3, <2>4 DEF CallOnTable, Alone, Ptable
<1>14. ASSUME NEW t \in Terms, VidFault(t) PROVE MapInv'
  BY <1>14 DEF VidFault, MapInv, CallOnTable, Alone, Ptable
<1> QED
  BY <1>3, <1>4, <1>5, <1>6, <1>7, <1>9, <1>10, <1>11, <1>12, <1>13, <1>14,
     ScreenAssumption DEF Next, printf, terminal_write

\* What MapInv is for.
LEMMA MapInvSuffices == TableTypes /\ MapInv => MappingFollowsSwitch
<1> SUFFICES ASSUME TableTypes, MapInv, settled, Alone, NEW t \in mapped
             PROVE  vidmap_ptable[t] = Home(t)
  BY DEF MappingFollowsSwitch
<1>1. \A u \in Terms, c \in CallType : ~CallOnTable(u, c)
  BY OnlyCall DEF Alone, CallOnTable
<1>2. vidmap_ptable = Ptable(active_terminal)
  BY <1>1 DEF MapInv
<1>3. ~Saved
  BY DEF Alone, Saved
<1> QED
  BY <1>2, <1>3 DEF TableTypes, Ptable, Home

(* Whatever ticks and keys come in the middle of switch_terminal, vidmap   *)
(* and putc, and whoever calls vidmap: after a switch or a call on the     *)
(* terminal shown that no other one got mixed up with, every address       *)
(* vidmap gave out leads to its own terminal's screen, and does so until   *)
(* calls get mixed up again.                                               *)
THEOREM ScreenMapping == Spec => []MappingFollowsSwitch
<1>1. Init => MapInv
  BY DEF Init, MapInv, Alone
<1>2. (TableTypes /\ MapInv) /\ [Next]_vars => (TableTypes /\ MapInv)'
  BY NextMap, NextTable
<1> QED
  BY <1>1, <1>2, InitTable, MapInvSuffices, PTL DEF Spec

-----------------------------------------------------------------------------
(* Types. *)

DrawTypes ==
    /\ mem \in [Memory -> Cell]
    /\ x \in [Terms -> 0..(NUM_COLS - 1)]
    /\ y \in [Terms -> 0..(NUM_ROWS - 1)]
    /\ kb_len \in 0..(KB_SIZE - 1)
    /\ table_len \in [Terms -> 0..(KB_SIZE - 1)]
    /\ putting \in [Terms -> PutcCalls]

\* TypeOK in two parts.
LEMMA TypeOKParts == TypeOK <=> TableTypes /\ DrawTypes
BY DEF TypeOK, TableTypes, DrawTypes, Cell, CallType

\* What putc has found out about the position still holds when it moves on.
ScrollInv ==
    \A t \in Terms : putting[t].pc = "move" =>
        (putting[t].scroll <=> /\ y[t] = LastRow
                               /\ putting[t].newline \/ x[t] = NUM_COLS - 1)

\* The initial state.
LEMMA InitTypes == Init => TypeOK /\ ScrollInv
<1> SUFFICES ASSUME Init PROVE TypeOK /\ ScrollInv
  OBVIOUS
<1>1. 0 \in 0..(NUM_COLS - 1) /\ 0 \in 0..(NUM_ROWS - 1) /\ 0 \in 0..(KB_SIZE - 1)
  BY Sizes
<1>2. NoPutc \in PutcCalls /\ NoPutc.pc = "none"
  BY DEF NoPutc, PutcCalls, Places
<1>3. DrawTypes
  BY <1>1, <1>2 DEF Init, DrawTypes, Cell
<1> QED
  BY <1>2, <1>3, InitTable, TypeOKParts DEF Init, ScrollInv

\* The page a task writes to is one of the pages, and a place.
LEMMA VideoMemIsPage ==
    ASSUME NEW t \in Terms
    PROVE  get_video_mem(t) \in Pages /\ get_video_mem(t) \in Places
BY DEF get_video_mem, Pages, Places

\* A position and memory produced by the echo.
EchoType(e) == /\ e.mem \in [Memory -> Cell]
               /\ e.x \in 0..(NUM_COLS - 1)
               /\ e.y \in 0..(NUM_ROWS - 1)

\* The echo starts from a typed position and memory.
LEMMA EchoTyped == TypeOK => EchoType(Echo)
BY TypeOKParts DEF EchoType, Echo, TableTypes, DrawTypes

\* A newline of the echo keeps the position on the screen.
LEMMA NewlineTyped ==
    ASSUME NEW e, EchoType(e)
    PROVE  EchoType(put_newln_kb(e)) /\ put_newln_kb(e).x = 0
<1>1. 0 \in 0..(NUM_COLS - 1)
  BY Sizes
<1>2. video_scroll(e.mem, VIDEO) \in [Memory -> Cell]
  BY ScrollKeepsType DEF EchoType, Pages
<1>3. e.y # LastRow => e.y + 1 \in 0..(NUM_ROWS - 1)
  BY Sizes DEF EchoType, LastRow
<1> QED
  BY <1>1, <1>2, <1>3 DEF EchoType, put_newln_kb

\* So does the scroll in the corner.
LEMMA CornerTyped ==
    ASSUME NEW before, NEW n, NEW e, EchoType(e)
    PROVE  EchoType(EchoCorner(before, n, e))
<1>1. video_scroll(e.mem, VIDEO) \in [Memory -> Cell]
  BY ScrollKeepsType DEF EchoType, Pages
<1>2. before.y = LastRow => before.y - 1 \in 0..(NUM_ROWS - 1)
  BY Sizes DEF LastRow
<1> QED
  BY <1>1, <1>2 DEF EchoType, EchoCorner

\* Taking over a typed echo keeps memory and positions typed.
LEMMA SetEchoTyped ==
    ASSUME TypeOK, NEW e, EchoType(e), SetEcho(e)
    PROVE  /\ mem' \in [Memory -> Cell]
           /\ x' \in [Terms -> 0..(NUM_COLS - 1)]
           /\ y' \in [Terms -> 0..(NUM_ROWS - 1)]
BY TypeOKParts DEF SetEcho, EchoType, TableTypes, DrawTypes

\* Copying and clearing a screen keep the type of video memory.
LEMMA CopiesTyped ==
    ASSUME NEW m \in [Memory -> Cell]
    PROVE  /\ Cleared(m) \in [Memory -> Cell]
           /\ \A p \in Pages, q \in Pages : Copied(m, p, q) \in [Memory -> Cell]
<1>1. Cleared(m) \in [Memory -> Cell]
  BY DEF Cleared, Cell
<1>2. ASSUME NEW p \in Pages, NEW q \in Pages
      PROVE  Copied(m, p, q) \in [Memory -> Cell]
  <2>1. ASSUME NEW a \in Memory, a - q \in Window PROVE a - q + p \in Memory
    <3> DEFINE c == a - q
    <3>1. c \in Window /\ c \in Nat /\ p \in Nat
      BY <2>1, PageInMemory DEF Window
    <3> HIDE DEF c
    <3>2. p + c \in Memory /\ p + c = c + p
      BY <3>1, PageInMemory
    <3> QED
      BY <3>2 DEF c
  <2> QED
    BY <2>1 DEF Copied
<1> QED
  BY <1>1, <1>2

\* The remainder of the next number.
LEMMA NextMod ==
    ASSUME NEW n \in Nat \ {0}, NEW r \in 0..(n - 1)
    PROVE  r % n = r /\ (r + 1) % n = IF r = n - 1 THEN 0 ELSE r + 1
<1>1. ASSUME NEW q \in Nat, NEW s \in 0..(n - 1) PROVE (n * q + s) % n = s
  BY <1>1
<1>2. n * 0 + r = r /\ n * 1 + 0 = n
  OBVIOUS
<1>3. r % n = r /\ n % n = 0
  BY <1>1, <1>2
<1>4. r # n - 1 => r + 1 \in 0..(n - 1) /\ n * 0 + (r + 1) = r + 1
  OBVIOUS
<1>5. r # n - 1 => (r + 1) % n = r + 1
  BY <1>1, <1>4
<1>6. r = n - 1 => r + 1 = n
  OBVIOUS
<1> QED
  BY <1>3, <1>5, <1>6

\* Where putc goes when it does not scroll.
LEMMA NextPosition ==
    ASSUME DrawTypes, ScrollInv, NEW t \in Terms,
           putting[t].pc = "move", ~putting[t].scroll
    PROVE  /\ NextCol(t) = IF putting[t].newline \/ x[t] = NUM_COLS - 1 THEN 0
                           ELSE x[t] + 1
           /\ NextRow(t) = IF putting[t].newline \/ x[t] = NUM_COLS - 1
                           THEN y[t] + 1 ELSE y[t]
           /\ putting[t].newline \/ x[t] = NUM_COLS - 1 => y[t] # LastRow
<1>1. /\ NUM_COLS \in Nat \ {0} /\ NUM_ROWS \in Nat \ {0}
      /\ x[t] \in 0..(NUM_COLS - 1) /\ y[t] \in 0..(NUM_ROWS - 1)
  BY Sizes DEF DrawTypes
<1>2. /\ (x[t] + 1) % NUM_COLS = IF x[t] = NUM_COLS - 1 THEN 0 ELSE x[t] + 1
      /\ y[t] % NUM_ROWS = y[t]
      /\ (y[t] + 1) % NUM_ROWS = IF y[t] = NUM_ROWS - 1 THEN 0 ELSE y[t] + 1
  BY <1>1, NextMod
<1>3. putting[t].newline \/ x[t] = NUM_COLS - 1 => y[t] # LastRow
  BY DEF ScrollInv
<1>4. NextCol(t) = IF putting[t].newline \/ x[t] = NUM_COLS - 1 THEN 0 ELSE x[t] + 1
  BY <1>2 DEF NextCol
<1>5. ~putting[t].newline => (NextCol(t) = 0 <=> x[t] = NUM_COLS - 1)
  BY <1>1, <1>4
<1>6. LastRow = NUM_ROWS - 1
  BY DEF LastRow
<1>7. NextRow(t) = IF putting[t].newline \/ x[t] = NUM_COLS - 1
                   THEN y[t] + 1 ELSE y[t]
  BY <1>2, <1>3, <1>5, <1>6 DEF NextRow
<1> QED
  BY <1>3, <1>4, <1>7

\* Every step keeps the types, if no key comes in the middle of putc.
LEMMA NextDraw ==
    ASSUME ~PutcInterrupted, TypeOK, ScrollInv, [Next]_vars
    PROVE  DrawTypes' /\ ScrollInv'
<1> USE TypeOKParts
<1>1. /\ active_terminal \in Terms /\ mem \in [Memory -> Cell]
      /\ x \in [Terms -> 0..(NUM_COLS - 1)]
      /\ y \in [Terms -> 0..(NUM_ROWS - 1)]
      /\ kb_len \in 0..(KB_SIZE - 1)
      /\ table_len \in [Terms -> 0..(KB_SIZE - 1)]
      /\ putting \in [Terms -> PutcCalls]
  BY DEF TableTypes, DrawTypes
<1>2. NoPutc \in PutcCalls /\ NoPutc.pc = "none"
  BY DEF NoPutc, PutcCalls, Places
<1>3. ASSUME UNCHANGED << mem, x, y, kb_len, table_len, putting >>
      PROVE  DrawTypes' /\ ScrollInv'
  BY <1>1, <1>3 DEF DrawTypes, ScrollInv, LastRow
\* One call of putc goes on.
<1>4. ASSUME NEW t \in Terms, NEW call \in PutcCalls,
             putting' = [putting EXCEPT ![t] = call], UNCHANGED << x, y >>,
             call.pc = "move" =>
               (call.scroll <=> y[t] = LastRow /\ (call.newline \/ x[t] = NUM_COLS - 1))
      PROVE  putting' \in [Terms -> PutcCalls] /\ ScrollInv'
  <2>1. putting'[t] = call /\ \A u \in Terms \ {t} : putting'[u] = putting[u]
    BY <1>1, <1>4
  <2>2. ASSUME NEW u \in Terms, putting'[u].pc = "move"
        PROVE  putting'[u].scroll <=> /\ y'[u] = LastRow
                                      /\ putting'[u].newline \/ x'[u] = NUM_COLS - 1
    <3>1. CASE u = t
      BY <1>4, <2>1, <2>2, <3>1
    <3>2. CASE u # t
      BY <1>4, <2>1, <2>2, <3>2 DEF ScrollInv
    <3> QED
      BY <3>1, <3>2
  <2> QED
    BY <1>1, <1>4, <2>2 DEF ScrollInv, LastRow
<1>5. ASSUME NEW t \in Terms, NEW newline \in BOOLEAN, PutcStart(t, newline)
      PROVE  DrawTypes' /\ ScrollInv'
  <2> DEFINE call == [pc |-> IF newline THEN "test" ELSE "store",
                      video_mem |-> get_video_mem(t),
                      newline |-> newline, scroll |-> FALSE]
  <2>1. call \in PutcCalls /\ call.pc # "move"
    BY VideoMemIsPage DEF PutcCalls
  <2>2. /\ putting' = [putting EXCEPT ![t] = call]
        /\ UNCHANGED << mem, x, y, kb_len, table_len >>
    BY <1>5 DEF PutcStart
  <2> HIDE DEF call
  <2> QED
    BY <1>1, <1>4, <2>1, <2>2 DEF DrawTypes
<1>6. ASSUME NEW t \in Terms, PutcStore(t) PROVE DrawTypes' /\ ScrollInv'
  <2> DEFINE call == [putting[t] EXCEPT !.pc = "test"]
  <2>1. call \in PutcCalls /\ call.pc # "move"
    BY <1>1 DEF PutcCalls
  <2>2. /\ putting' = [putting EXCEPT ![t] = call]
        /\ UNCHANGED << x, y, kb_len, table_len >>
    BY <1>6 DEF PutcStore
  <2>3. mem' \in [Memory -> Cell]
    BY <1>1, <1>6 DEF PutcStore, Cell
  <2> HIDE DEF call
  <2> QED
    BY <1>1, <1>4, <2>1, <2>2, <2>3 DEF DrawTypes
<1>7. ASSUME NEW t \in Terms, PutcTest(t) PROVE DrawTypes' /\ ScrollInv'
  <2> DEFINE found == y[t] = LastRow /\ (putting[t].newline \/ x[t] = NUM_COLS - 1)
             call == [putting[t] EXCEPT !.pc = "move", !.scroll = found]
  <2>1. found \in BOOLEAN
    OBVIOUS
  <2>2. /\ putting' = [putting EXCEPT ![t] = call]
        /\ UNCHANGED << mem, x, y, kb_len, table_len >>
    BY <1>1, <1>7 DEF PutcTest
  <2> HIDE DEF found
  <2>3. call \in PutcCalls /\ call.scroll = found /\ call.newline = putting[t].newline
    BY <1>1, <2>1 DEF PutcCalls
  <2> HIDE DEF call
  <2>4. call.scroll <=> y[t] = LastRow /\ (call.newline \/ x[t] = NUM_COLS - 1)
    BY <2>3 DEF found
  <2> QED
    BY <1>1, <1>4, <2>2, <2>3, <2>4 DEF DrawTypes
<1>8. ASSUME NEW t \in Terms, PutcMove(t) PROVE DrawTypes' /\ ScrollInv'
  <2>1. video_scroll(mem, get_video_mem(t)) \in [Memory -> Cell]
    BY <1>1, VideoMemIsPage, ScrollKeepsType
  <2>2. putting[t].pc = "move" /\ putting' = [putting EXCEPT ![t] = NoPutc]
        /\ UNCHANGED << kb_len, table_len >>
    BY <1>8 DEF PutcMove
  <2>3. mem' \in [Memory -> Cell]
    BY <1>1, <1>8, <2>1 DEF PutcMove
  <2>4. /\ x[t] \in 0..(NUM_COLS - 1) /\ y[t] \in 0..(NUM_ROWS - 1)
        /\ 0 \in 0..(NUM_COLS - 1) /\ LastRow \in 0..(NUM_ROWS - 1)
    BY <1>1, Sizes DEF LastRow
  <2>5. ~putting[t].scroll => /\ NextCol(t) \in 0..(NUM_COLS - 1)
                              /\ NextRow(t) \in 0..(NUM_ROWS - 1)
    <3> SUFFICES ASSUME ~putting[t].scroll
                 PROVE  /\ NextCol(t) \in 0..(NUM_COLS - 1)
                        /\ NextRow(t) \in 0..(NUM_ROWS - 1)
      OBVIOUS
    <3> DEFINE wraps == putting[t].newline \/ x[t] = NUM_COLS - 1
    <3>1. DrawTypes
      OBVIOUS
    <3>2. /\ NextCol(t) = IF wraps THEN 0 ELSE x[t] + 1
          /\ NextRow(t) = IF wraps THEN y[t] + 1 ELSE y[t]
          /\ wraps => y[t] # LastRow
      BY <2>2, <3>1, NextPosition
    <3>3. ~wraps => x[t] # NUM_COLS - 1
      OBVIOUS
    <3> HIDE DEF wraps
    <3> QED
      BY <2>4, <3>2, <3>3, Sizes DEF LastRow
  <2>6. x' \in [Terms -> 0..(NUM_COLS - 1)] /\ y' \in [Terms -> 0..(NUM_ROWS - 1)]
    BY <1>1, <1>8, <2>4, <2>5 DEF PutcMove
  <2>7. \A u \in Terms \ {t} : /\ x'[u] = x[u] /\ y'[u] = y[u]
                               /\ putting'[u] = putting[u]
    BY <1>1, <1>8 DEF PutcMove
  <2>8. putting'[t] = NoPutc /\ putting' \in [Terms -> PutcCalls]
    BY <1>1, <1>2, <2>2
  <2>9. ASSUME NEW u \in Terms, putting'[u].pc = "move"
        PROVE  putting'[u].scroll <=> /\ y'[u] = LastRow
                                      /\ putting'[u].newline \/ x'[u] = NUM_COLS - 1
    BY <1>2, <2>7, <2>8, <2>9 DEF ScrollInv
  <2> QED
    BY <1>1, <2>2, <2>3, <2>6, <2>8, <2>9 DEF DrawTypes, ScrollInv, LastRow
<1>9. ASSUME NEW t \in Terms, \/ vidmap(t) \/ VidmapAbsent(t) \/ SetEntry(t)
                              \/ VidmapReturn(t) \/ VidFault(t) \/ SwitchShow(t)
      PROVE  DrawTypes' /\ ScrollInv'
  BY <1>3, <1>9 DEF vidmap, VidmapAbsent, SetEntry, VidmapReturn, VidFault, SwitchShow
<1>10. ASSUME NEW t \in Terms, NEW new \in Terms, switch_terminal(t, new)
       PROVE  DrawTypes' /\ ScrollInv'
  BY <1>3, <1>10 DEF switch_terminal, KeyHandled
<1>11. ASSUME NEW t \in Terms, NEW c \in VidCells, VidWrite(t, c)
       PROVE  DrawTypes' /\ ScrollInv'
  BY <1>1, <1>11 DEF VidWrite, Cell, DrawTypes, ScrollInv, LastRow
\* A key: nobody is in putc.
<1>12. ASSUME KeyHandled PROVE ScrollInv' /\ putting' \in [Terms -> PutcCalls]
  BY <1>1, <1>2, <1>12 DEF KeyHandled, ScrollInv
<1>13. ASSUME NEW e, EchoType(e), SetEcho(e), KeyEchoed, kb_len' \in 0..(KB_SIZE - 1)
       PROVE  DrawTypes' /\ ScrollInv'
  <2>1. KeyHandled /\ UNCHANGED table_len
    BY <1>13 DEF KeyEchoed
  <2> QED
    BY <1>1, <1>12, <1>13, <2>1, SetEchoTyped DEF DrawTypes
<1>14. CASE KeyChar
  <2> DEFINE t == active_terminal
             at == VIDEO + convert_to_vid_idx(Echo, kb_len)
             e == [Echo EXCEPT !.mem = [@ EXCEPT ![at] = t]]
  <2>1. EchoType(e)
    BY <1>1, EchoTyped DEF EchoType, Echo, Cell
  <2>2. SetEcho(EchoCorner(Echo, kb_len, e)) /\ KeyEchoed
    BY <1>14 DEF KeyChar
  <2>3. kb_len' \in 0..(KB_SIZE - 1)
    BY <1>1, <1>14, Sizes DEF KeyChar
  <2>4. EchoType(EchoCorner(Echo, kb_len, e))
    BY <2>1, CornerTyped
  <2> QED
    BY <1>13, <2>2, <2>3, <2>4
<1>15. CASE KeyBackspace
  <2> DEFINE at == VIDEO + convert_to_vid_idx(Echo, kb_len) - 1
             e == [Echo EXCEPT !.mem = [@ EXCEPT ![at] = Blank]]
  <2>1. EchoType(e)
    BY <1>1, EchoTyped DEF EchoType, Echo, Cell
  <2>2. SetEcho(e) /\ KeyEchoed
    BY <1>15 DEF KeyBackspace
  <2>3. kb_len' \in 0..(KB_SIZE - 1)
    BY <1>1, <1>15, Sizes DEF KeyBackspace
  <2> QED
    BY <1>13, <2>1, <2>2, <2>3
<1>16. CASE KeyEnter
  <2> DEFINE once == put_newln_kb(Echo)
             both == IF kb_len = KB_SIZE - 1 \/ kb_len + Echo.x >= NUM_COLS
                     THEN put_newln_kb(once) ELSE once
             e == IF kb_len = KB_SIZE - 1 THEN both
                  ELSE EchoCorner(Echo, kb_len, both)
  <2>1. EchoType(both)
    BY EchoTyped, NewlineTyped
  <2>2. SetEcho(e) /\ KeyEchoed /\ kb_len' \in 0..(KB_SIZE - 1)
    BY <1>16, Sizes DEF KeyEnter
  <2>3. EchoType(e)
    BY <2>1, CornerTyped
  <2> QED
    BY <1>13, <2>2, <2>3
<1>17. CASE KeyCtrlL
  <2> DEFINE e == [mem |-> Cleared(mem), x |-> 0, y |-> 0]
  <2>1. EchoType(e)
    BY <1>1, CopiesTyped, Sizes DEF EchoType
  <2>2. SetEcho(e) /\ KeyEchoed /\ kb_len' \in 0..(KB_SIZE - 1)
    BY <1>17, Sizes DEF KeyCtrlL, clear_screen
  <2> QED
    BY <1>13, <2>1, <2>2
<1>18. ASSUME NEW t \in Terms, SwitchSave(t) PROVE DrawTypes' /\ ScrollInv'
  <2>1. Copied(mem, VIDEO, video(active_terminal)) \in [Memory -> Cell]
    BY <1>1, CopiesTyped DEF Pages
  <2> QED
    BY <1>1, <1>18, <2>1 DEF SwitchSave, DrawTypes, ScrollInv, LastRow
<1>19. ASSUME NEW t \in Terms, SwitchClear(t) PROVE DrawTypes' /\ ScrollInv'
  <2>1. Cleared(mem) \in [Memory -> Cell]
    BY <1>1, CopiesTyped
  <2> QED
    BY <1>1, <1>19, <2>1, Sizes DEF SwitchClear, DrawTypes, ScrollInv, LastRow
<1>20. ASSUME NEW t \in Terms, SwitchLoad(t) PROVE DrawTypes' /\ ScrollInv'
  <2> DEFINE new == Head(calls[t]).term
  <2>1. new \in Terms
    <3>1. calls \in [Terms -> Seq(CallType)] /\ calls[t] # << >>
      BY <1>20 DEF SwitchLoad, At, TableTypes
    <3>2. Head(calls[t]) \in CallType
      BY <3>1, CallsTyped
    <3> QED
      BY <3>2 DEF CallType, VidmapCalls, SwitchCalls
  <2>2. Copied(mem, video(new), VIDEO) \in [Memory -> Cell]
    BY <1>1, <2>1, CopiesTyped DEF Pages
  <2> QED
    BY <1>1, <1>20, <2>1, <2>2 DEF SwitchLoad, DrawTypes, ScrollInv, LastRow
<1>21. CASE UNCHANGED vars
  BY <1>3, <1>21 DEF vars
<1> QED
  BY <1>5, <1>6, <1>7, <1>8, <1>9, <1>10, <1>11, <1>14, <1>15, <1>16, <1>17,
     <1>18, <1>19, <1>20, <1>21, ScreenAssumption DEF Next, printf, terminal_write

LEMMA NextTypes ==
    ASSUME ~PutcInterrupted, TypeOK, ScrollInv, [Next]_vars
    PROVE  TypeOK' /\ ScrollInv'
<1>1. DrawTypes' /\ ScrollInv'
  BY NextDraw
<1>2. TableTypes'
  BY NextTable, TypeOKParts
<1>3. TypeOK' <=> TableTypes' /\ DrawTypes'
  BY TypeOKParts, PTL
<1> QED
  BY <1>1, <1>2, <1>3

(* If no key is handled in the middle of putc, positions stay on the       *)
(* screen, lengths in the line buffer and table entries on pages, for all  *)
(* sizes, with terminal switches and calls of vidmap cut up by ticks and   *)
(* keys and programs printing at any time.                                 *)
THEOREM ScreenTypes ==
    ASSUME ~PutcInterrupted
    PROVE  Spec => []TypeOK
<1>1. (TypeOK /\ ScrollInv) /\ [Next]_vars => (TypeOK /\ ScrollInv)'
  BY NextTypes
<1> QED
  BY <1>1, InitTypes, PTL DEF Spec

-----------------------------------------------------------------------------
(* What is seen of the pages of video memory. *)

\* The mapped variables of TermScreens.
Cells == [t \in Terms |-> View(mem, Home(t))]
Lens == [t \in Terms |-> LineLen(t)]

LEMMA SameWindow == Abstract!Window = Window
BY DEF Abstract!Window, Window

\* Pages do not overlap.
LEMMA PagesApart ==
    ASSUME NEW p \in Pages, NEW q \in Pages, NEW c \in Nat, NEW d \in Nat,
           c < PAGE, d < PAGE, p + c = q + d
    PROVE  p = q /\ c = d
<1>1. PAGE \in Nat
  BY Sizes
<1>2. \A r \in Pages : \E i \in Nat : r = PAGE * i
  <2>1. VIDEO = PAGE * 0 /\ 0 \in Nat
    BY <1>1 DEF VIDEO
  <2>2. \A t \in Terms : t + 1 \in Nat /\ video(t) = PAGE * (t + 1)
    BY DEF Terms, video
  <2> QED
    BY <2>1, <2>2 DEF Pages
<1>3. PICK i \in Nat : p = PAGE * i
  BY <1>2
<1>4. PICK j \in Nat : q = PAGE * j
  BY <1>2
<1>5. p \in Nat /\ q \in Nat
  BY PageInMemory
<1>6. ASSUME NEW a \in Nat, NEW b \in Nat, a < b
      PROVE  PAGE * a + PAGE <= PAGE * b
  <2>1. PAGE * (a + 1) <= PAGE * b
    BY <1>1, <1>6, ProductMonotone
  <2>2. PAGE * (a + 1) = PAGE * a + PAGE
    BY <1>1
  <2> QED
    BY <2>1, <2>2
<1>7. CASE i < j
  <2>1. p + PAGE <= q
    BY <1>3, <1>4, <1>6, <1>7
  <2> QED
    BY <1>1, <1>5, <2>1
<1>8. CASE j < i
  <2>1. q + PAGE <= p
    BY <1>3, <1>4, <1>6, <1>8
  <2> QED
    BY <1>1, <1>5, <2>1
<1>9. CASE i = j
  BY <1>3, <1>4, <1>5, <1>9
<1> QED
  BY <1>7, <1>8, <1>9

\* The cells of a page that are seen, and their places in memory.
LEMMA WindowInPage ==
    /\ PAGE \in Nat /\ PAGE > 0 /\ 0 \in Window
    /\ \A c \in Window : c \in Nat /\ c < PAGE
    /\ \A p \in Pages : p \in Nat
    /\ \A p \in Pages, c \in Window : p + c \in Memory
BY Sizes, PageInMemory DEF Window

\* A cell seen in one page is not one of another.
LEMMA PageApart ==
    ASSUME NEW p \in Pages, NEW q \in Pages \ {p}, NEW c \in Window
    PROVE  (q + c) - p \notin Window
<1> SUFFICES ASSUME (q + c) - p \in Window PROVE FALSE
  OBVIOUS
<1> DEFINE d == (q + c) - p
<1>1. d \in Window /\ q + c = p + d
  BY WindowInPage
<1> HIDE DEF d
<1> QED
  BY <1>1, PagesApart, WindowInPage

\* The pages of the terminals and the one the VGA shows are different ones.
LEMMA VideosApart ==
    /\ \A t \in Terms : video(t) # VIDEO
    /\ \A t \in Terms, u \in Terms : video(t) = video(u) => t = u
<1>1. \A t \in Terms : video(t) # VIDEO
  <2> SUFFICES ASSUME NEW t \in Terms PROVE video(t) # VIDEO
    OBVIOUS
  <2>1. t \in Nat /\ t + 1 >= 1 /\ PAGE \in Nat /\ PAGE > 0
    BY WindowInPage DEF Terms
  <2>2. PAGE * 1 <= PAGE * (t + 1)
    BY <2>1, ProductMonotone
  <2> QED
    BY <2>1, <2>2 DEF video, VIDEO
<1>2. ASSUME NEW t \in Terms, NEW u \in Terms, t < u PROVE video(t) < video(u)
  <2>1. t \in Nat /\ u \in Nat /\ t + 2 <= u + 1 /\ PAGE \in Nat /\ PAGE > 0
    BY <1>2, WindowInPage DEF Terms
  <2>2. PAGE * (t + 2) <= PAGE * (u + 1)
    BY <2>1, ProductMonotone
  <2>3. PAGE * (t + 2) = PAGE * (t + 1) + PAGE /\ PAGE * (t + 1) \in Nat
        /\ PAGE * (u + 1) \in Nat
    BY <2>1
  <2> QED
    BY <2>1, <2>2, <2>3 DEF video
<1>3. \A t \in Terms, u \in Terms : video(t) = video(u) => t = u
  <2> SUFFICES ASSUME NEW t \in Terms, NEW u \in Terms, video(t) = video(u)
               PROVE  t = u
    OBVIOUS
  <2>1. video(t) \in Int /\ video(u) \in Int
    BY WindowInPage DEF Pages
  <2>2. ~(t < u) /\ ~(u < t)
    BY <1>2, <2>1
  <2> QED
    BY <2>2 DEF Terms
<1> QED
  BY <1>1, <1>3

\* Every terminal's screen is kept in a page of its own.
LEMMA HomesApart ==
    ASSUME active_terminal \in Terms
    PROVE  /\ \A t \in Terms : Home(t) \in Pages
           /\ \A t \in Terms, u \in Terms : Home(t) = Home(u) => t = u
<1>1. \A t \in Terms : Home(t) \in Pages
  BY DEF Home, Pages
<1> QED
  BY <1>1, VideosApart DEF Home

\* A store into a page is seen in that page only.
Stored(m, b, v) == [m EXCEPT ![b] = v]

LEMMA StoreView ==
    ASSUME NEW m, DOMAIN m = Memory, NEW p \in Pages, NEW a \in Nat, a < PAGE, NEW v
    PROVE  /\ View(Stored(m, p + a, v), p) = Abstract!With(View(m, p), a, v)
           /\ \A q \in Pages \ {p} : View(Stored(m, p + a, v), q) = View(m, q)
<1> DEFINE m2 == Stored(m, p + a, v)
<1>1. \A b \in Memory : m2[b] = IF b = p + a THEN v ELSE m[b]
  BY DEF Stored
<1>2. \A c \in Window : p + c = p + a <=> c = a
  BY WindowInPage
<1>3. \A c \in Window : m2[p + c] = IF c = a THEN v ELSE m[p + c]
  BY <1>1, <1>2, WindowInPage
<1>4. \A q \in Pages \ {p}, c \in Window : q + c # p + a
  BY WindowInPage, PagesApart
<1>5. \A q \in Pages \ {p}, c \in Window : m2[q + c] = m[q + c]
  BY <1>1, <1>4, WindowInPage
<1> HIDE DEF m2
<1>6. View(m2, p) = Abstract!With(View(m, p), a, v)
  BY <1>3, SameWindow DEF View, Abstract!With
<1>7. \A q \in Pages \ {p} : View(m2, q) = View(m, q)
  BY <1>5 DEF View
<1> QED
  BY <1>6, <1>7 DEF m2

\* Scrolling moves what is seen in a page up by a row.
LEMMA ScrollView ==
    ASSUME NEW m, NEW p \in Pages
    PROVE  /\ View(video_scroll(m, p), p) = Abstract!Up(View(m, p), 1)
           /\ \A q \in Pages \ {p} : View(video_scroll(m, p), q) = View(m, q)
<1> DEFINE m2 == video_scroll(m, p)
           S == 0..(NUM_COLS * LastRow - 1)
<1>1. \A b \in Memory : m2[b] = CASE b - p \in S -> m[b + NUM_COLS]
                                  [] b - p \in Window \ S -> Blank
                                  [] OTHER -> m[b]
  BY DEF video_scroll
<1>2. p \in Nat /\ NUM_COLS \in Nat /\ 1 * NUM_COLS = NUM_COLS
  BY WindowInPage, Sizes
<1>3. \A c \in Window : c \in S <=> c + NUM_COLS \in Window
  BY Sizes DEF Window
<1>4. ASSUME NEW c \in Window
      PROVE  m2[p + c] = IF c + NUM_COLS \in Window THEN m[p + (c + NUM_COLS)] ELSE Blank
  <2>1. c \in Nat /\ p + c \in Memory /\ (p + c) - p = c
        /\ (p + c) + NUM_COLS = p + (c + NUM_COLS)
    BY <1>2, WindowInPage
  <2> HIDE DEF S
  <2>2. CASE c \in S
    BY <1>1, <1>3, <2>1, <2>2
  <2>3. CASE c \notin S
    BY <1>1, <1>3, <2>1, <2>3
  <2> QED
    BY <2>2, <2>3
<1>5. ASSUME NEW q \in Pages \ {p}, NEW c \in Window PROVE m2[q + c] = m[q + c]
  <2>1. q + c \in Memory /\ q + c \in Nat
    BY WindowInPage
  <2>2. (q + c) - p \notin Window
    BY PageApart
  <2>3. S \subseteq Window
    BY Sizes DEF Window
  <2> HIDE DEF S
  <2> QED
    BY <1>1, <2>1, <2>2, <2>3
<1> HIDE DEF m2
<1>6. View(m2, p) = Abstract!Up(View(m, p), 1)
  BY <1>2, <1>4, SameWindow DEF View, Abstract!Up
<1>7. \A q \in Pages \ {p} : View(m2, q) = View(m, q)
  BY <1>5 DEF View
<1> QED
  BY <1>6, <1>7 DEF m2

\* Moving up by no row, and by one more.
LEMMA UpSteps ==
    ASSUME NEW m, NEW p, NEW k \in Nat
    PROVE  /\ Abstract!Up(View(m, p), 0) = View(m, p)
           /\ Abstract!Up(Abstract!Up(View(m, p), k), 1)
                = Abstract!Up(View(m, p), k + 1)
<1> DEFINE s == View(m, p)
           kc == k * NUM_COLS
<1>1. NUM_COLS \in Nat /\ 0 * NUM_COLS = 0 /\ 1 * NUM_COLS = NUM_COLS
      /\ kc \in Nat /\ (k + 1) * NUM_COLS = kc + NUM_COLS
  BY Sizes
<1>2. s = [c \in Window |-> s[c]]
  BY DEF View
<1>3. \A c \in Window : c \in Nat
  BY DEF Window
<1> HIDE DEF s, kc
<1>4. Abstract!Up(s, 0) = s
  BY <1>1, <1>2, <1>3, SameWindow DEF Abstract!Up
<1>5. Abstract!Up(s, k) = [c \in Window |-> IF c + kc \in Window THEN s[c + kc] ELSE Blank]
  BY SameWindow DEF Abstract!Up, kc
<1>6. Abstract!Up(Abstract!Up(s, k), 1) =
         [c \in Window |-> IF c + NUM_COLS \in Window THEN Abstract!Up(s, k)[c + NUM_COLS]
                           ELSE Blank]
  BY <1>1, SameWindow DEF Abstract!Up
<1>7. Abstract!Up(s, k + 1) =
         [c \in Window |-> IF c + (kc + NUM_COLS) \in Window
                           THEN s[c + (kc + NUM_COLS)] ELSE Blank]
  BY <1>1, SameWindow DEF Abstract!Up
<1>8. ASSUME NEW c \in Window
      PROVE  /\ (c + NUM_COLS) + kc = c + (kc + NUM_COLS)
             /\ c + (kc + NUM_COLS) \in Window => c + NUM_COLS \in Window
  <2> DEFINE top == NUM_ROWS * NUM_COLS
  <2>1. top \in Nat
    BY Sizes
  <2>2. Window = 0..(top - 1)
    BY DEF Window
  <2> HIDE DEF top
  <2> QED
    BY <1>1, <2>1, <2>2
<1> QED
  BY <1>4, <1>5, <1>6, <1>7, <1>8 DEF s

\* Copying a page shows it in the other one too and changes no third.
LEMMA CopyView ==
    ASSUME NEW m, NEW p \in Pages, NEW q \in Pages
    PROVE  /\ View(Copied(m, p, q), q) = View(m, p)
           /\ \A r \in Pages \ {q} : View(Copied(m, p, q), r) = View(m, r)
<1> DEFINE m2 == Copied(m, p, q)
<1>1. \A b \in Memory : m2[b] = IF b - q \in Window THEN m[b - q + p] ELSE m[b]
  BY DEF Copied
<1>2. ASSUME NEW c \in Window PROVE m2[q + c] = m[p + c]
  <2>1. q + c \in Memory /\ (q + c) - q = c /\ c + p = p + c
    BY WindowInPage
  <2> HIDE DEF m2
  <2> QED
    BY <1>1, <2>1
<1>3. ASSUME NEW r \in Pages \ {q}, NEW c \in Window PROVE m2[r + c] = m[r + c]
  BY <1>1, PageApart, WindowInPage
<1> HIDE DEF m2
<1> QED
  BY <1>2, <1>3 DEF View, m2

\* Clearing the screen shows in the page the VGA shows only.
LEMMA ClearView ==
    ASSUME NEW m
    PROVE  /\ View(Cleared(m), VIDEO) = [c \in Window |-> Blank]
           /\ \A r \in Pages \ {VIDEO} : View(Cleared(m), r) = View(m, r)
<1> DEFINE m2 == Cleared(m)
<1>1. \A b \in Memory : m2[b] = IF b - VIDEO \in Window THEN Blank ELSE m[b]
  BY DEF Cleared
<1>2. VIDEO \in Pages
  BY DEF Pages
<1>3. ASSUME NEW c \in Window PROVE m2[VIDEO + c] = Blank
  <2>1. VIDEO + c \in Memory /\ (VIDEO + c) - VIDEO = c
    BY <1>2, WindowInPage
  <2> HIDE DEF m2
  <2> QED
    BY <1>1, <2>1
<1>4. ASSUME NEW r \in Pages \ {VIDEO}, NEW c \in Window PROVE m2[r + c] = m[r + c]
  BY <1>1, <1>2, PageApart, WindowInPage
<1> HIDE DEF m2
<1> QED
  BY <1>3, <1>4 DEF View, m2

\* A step that changes what is seen in one terminal's page only.
LEMMA OneScreen ==
    ASSUME active_terminal \in Terms, UNCHANGED << active_terminal, calls >>,
           NEW t \in Terms, NEW v, View(mem', Home(t)) = v,
           \A q \in Pages \ {Home(t)} : View(mem', q) = View(mem, q)
    PROVE  Cells' = [Cells EXCEPT ![t] = v]
<1>1. \A u \in Terms : Home(u)' = Home(u)
  BY DEF Home, Saved
<1>2. \A u \in Terms \ {t} : View(mem', Home(u)) = View(mem, Home(u))
  BY HomesApart
<1>3. \A u \in Terms : View(mem, Home(u))' = View(mem', Home(u))
  BY <1>1 DEF View
<1>4. Cells' = [u \in Terms |-> View(mem', Home(u))]
  BY <1>3 DEF Cells
<1> QED
  BY <1>2, <1>4 DEF Cells

-----------------------------------------------------------------------------
(* A switch_terminal or vidmap that nothing comes in the middle of. *)

\* The calls cs include a switch that has copied the old screen away.
SavedIn(cs) == \E t \in Terms : /\ cs[t] # << >>
                                /\ Head(cs[t]).op = "switch_terminal"
                                /\ Head(cs[t]).pc # "save"

LEMMA SavedCases ==
    /\ Saved <=> SavedIn(calls)
    /\ Saved' <=> SavedIn(calls')
    /\ \A cs : (\A u \in Terms : cs[u] = << >>) => ~SavedIn(cs)
BY DEF Saved, SavedIn

LEMMA SavedOnly ==
    ASSUME NEW cs, NEW t \in Terms, NEW c, cs = Only(t, c)
    PROVE  SavedIn(cs) <=> c.op = "switch_terminal" /\ c.pc # "save"
<1>1. /\ Head(cs[t]) = c /\ cs[t] # << >>
      /\ \A u \in Terms : cs[u] # << >> => u = t
  BY OnlyCall
<1> QED
  BY <1>1 DEF SavedIn

\* How far the one call c of task t has come with the screens.
UnderWay(t, c) ==
    /\ calls = Only(t, c)
    /\ c.op = "switch_terminal" =>
         /\ \A u \in Terms : putting[u] = NoPutc
         /\ c.pc \in {"entries", "done"} =>
              /\ View(mem, VIDEO) = View(mem, video(c.term))
              /\ kb_len = table_len[c.term]

CallInv == Alone \/ \E t \in Terms, c \in CallType : UnderWay(t, c)

\* The steps of the two calls.
CallStep(t) ==
    \/ vidmap(t) \/ VidmapAbsent(t) \/ SetEntry(t) \/ VidmapReturn(t)
    \/ \E new \in Terms : switch_terminal(t, new)
    \/ SwitchSave(t) \/ SwitchClear(t) \/ SwitchLoad(t) \/ SwitchShow(t)

\* What such a step leaves alone: every screen, line and position.
ScreensKept ==
    /\ Cells' = Cells /\ Lens' = Lens
    /\ UNCHANGED << x, y, putting >>
    /\ \A u \in Terms : putting[u] # NoPutc => Home(u)' = Home(u)

\* Steps that do not touch the screens nor the point where they are saved.
LEMMA ScreensUntouched ==
    ASSUME UNCHANGED << active_terminal, mem, x, y, kb_len, table_len, putting >>,
           Saved' <=> Saved
    PROVE  ScreensKept
<1>1. \A u \in Terms : Home(u)' = Home(u) /\ LineLen(u)' = LineLen(u)
  BY DEF Home, LineLen
<1>2. \A u \in Terms : View(mem, Home(u))' = View(mem, Home(u))
  BY <1>1 DEF View
<1> QED
  BY <1>1, <1>2 DEF ScreensKept, Cells, Lens

LEMMA BeginKeeps ==
    ASSUME TypeOK, CallInv, ~Preempted, ~PutcInterrupted, NEW t \in Terms,
           vidmap(t) \/ \E new \in Terms : switch_terminal(t, new)
    PROVE  CallInv' /\ ScreensKept
<1>1. /\ Alone /\ calls \in [Terms -> Seq(CallType)]
      /\ UNCHANGED << active_terminal, mem, x, y, kb_len, table_len, putting >>
  BY TypeOKParts DEF vidmap, switch_terminal, KeyHandled, Begin, Calm, TableTypes
<1>2. PICK c \in CallType :
         /\ calls' = [calls EXCEPT ![t] = << c >> \o @]
         /\ c.pc \in {"absent", "save"}
         /\ c.op = "switch_terminal" => /\ c.pc = "save"
                                        /\ \A u \in Terms : putting[u] = NoPutc
  <2>1. 0 \in 0..MAX_TERM_N
    BY Sizes
  <2>2. CASE vidmap(t)
    <3> DEFINE c == [op |-> "vidmap", pc |-> "absent", term |-> t, i |-> 0]
    <3>1. c \in CallType
      BY <2>1 DEF CallType, VidmapCalls
    <3>2. calls' = [calls EXCEPT ![t] = << c >> \o @]
      BY <2>2 DEF vidmap, Begin
    <3> QED
      BY <3>1, <3>2
  <2>3. ASSUME NEW new \in Terms, switch_terminal(t, new)
        PROVE  \E c \in CallType :
                 /\ calls' = [calls EXCEPT ![t] = << c >> \o @]
                 /\ c.pc = "save"
                 /\ \A u \in Terms : putting[u] = NoPutc
    <3> DEFINE c == [op |-> "switch_terminal", pc |-> "save", term |-> new, i |-> 0]
    <3>1. c \in CallType
      BY <2>1 DEF CallType, SwitchCalls
    <3>2. calls' = [calls EXCEPT ![t] = << c >> \o @]
      BY <2>3 DEF switch_terminal, Begin
    <3>3. \A u \in Terms : putting[u] = NoPutc
      BY <2>3 DEF switch_terminal, KeyHandled
    <3> QED
      BY <3>1, <3>2, <3>3
  <2> QED
    BY <2>2, <2>3
<1>3. calls' = Only(t, c)
  BY <1>1, <1>2, FirstCall DEF Alone
<1>4. ~Saved /\ ~Saved'
  <2>1. ~Saved
    BY <1>1, SavedCases DEF Alone
  <2>2. ~SavedIn(calls')
    BY <1>2, <1>3, SavedOnly
  <2> QED
    BY <2>1, <2>2, SavedCases
<1>5. ScreensKept
  BY <1>1, <1>4, ScreensUntouched
<1>6. UnderWay(t, c)'
  BY <1>1, <1>2, <1>3 DEF UnderWay, Only, NoPutc
<1> QED
  BY <1>5, <1>6 DEF CallInv

\* The one call that is under way.
LEMMA TheCall ==
    ASSUME TypeOK, CallInv, NEW t \in Terms, calls[t] # << >>
    PROVE  Head(calls[t]) \in CallType /\ UnderWay(t, Head(calls[t]))
<1>1. ~Alone
  BY DEF Alone
<1>2. PICK u \in Terms, c \in CallType : UnderWay(u, c)
  BY <1>1 DEF CallInv
<1>3. calls = Only(u, c)
  BY <1>2 DEF UnderWay
<1>4. u = t /\ Head(calls[t]) = c
  BY <1>3, OnlyCall
<1> QED
  BY <1>2, <1>4

\* How the one call goes on.
Advanced(c, pc, i) == [c EXCEPT !.pc = pc, !.i = i]

LEMMA CallGoesOn ==
    ASSUME TypeOK, TypeOK', NEW t \in Terms, NEW c \in CallType, UnderWay(t, c),
           NEW pc, NEW i, NEW d, d = Advanced(c, pc, i), GoTo(t, pc, i)
    PROVE  /\ calls' = Only(t, d) /\ d \in CallType
           /\ d.op = c.op /\ d.term = c.term /\ d.pc = pc
<1>1. calls' = Only(t, d)
  BY OnlyNext DEF UnderWay, Advanced
<1>2. /\ d.op = c.op /\ d.term = c.term /\ d.pc = pc
  BY DEF Advanced, CallType, VidmapCalls, SwitchCalls
<1>3. calls' \in [Terms -> Seq(CallType)]
  BY DEF TypeOK, CallType
<1>4. calls'[t] = << d >>
  BY <1>1, OnlyCall
<1>5. << d >> \in Seq(CallType)
  BY <1>3, <1>4
<1>6. d \in CallType
  <2>1. << d >>[1] \in CallType
    BY <1>5
  <2> QED
    BY <2>1
<1> QED
  BY <1>1, <1>2, <1>6

\* The steps that work on the page table only.
LEMMA TableStepKeeps ==
    ASSUME TypeOK, TypeOK', CallInv, NEW t \in Terms,
           VidmapAbsent(t) \/ SetEntry(t)
    PROVE  CallInv' /\ ScreensKept
<1> DEFINE h == Head(calls[t])
<1>1. /\ calls[t] # << >>
      /\ UNCHANGED << active_terminal, mem, x, y, kb_len, table_len, putting >>
  BY DEF VidmapAbsent, SetEntry, At
<1>2. PICK c \in CallType : c = h /\ UnderWay(t, c)
  BY <1>1, TheCall
<1>3. PICK pc \in {"entries", "done"} : \E i : GoTo(t, pc, i)
  BY DEF VidmapAbsent, SetEntry
<1>4. PICK i : GoTo(t, pc, i)
  BY <1>3
<1>5. /\ c.pc \in {"absent", "entries"}
      /\ c.pc = "absent" => c.op = "vidmap"
  BY <1>2 DEF VidmapAbsent, SetEntry, At, CallType, VidmapCalls, SwitchCalls
<1>6. PICK d : d = Advanced(c, pc, i)
  OBVIOUS
<1>7. /\ calls' = Only(t, d) /\ d \in CallType
      /\ d.op = c.op /\ d.term = c.term /\ d.pc = pc
  BY <1>2, <1>3, <1>4, <1>6, CallGoesOn
<1>8. calls = Only(t, c)
  BY <1>2 DEF UnderWay
<1>9. Saved' <=> Saved
  BY <1>3, <1>4, <1>5, <1>7, <1>8, SavedCases, SavedOnly
<1>10. UnderWay(t, d)'
  BY <1>1, <1>2, <1>5, <1>7 DEF UnderWay, Only, View, NoPutc
<1> QED
  BY <1>1, <1>7, <1>9, <1>10, ScreensUntouched DEF CallInv

LEMMA SaveKeeps ==
    ASSUME TypeOK, TypeOK', CallInv, NEW t \in Terms, SwitchSave(t)
    PROVE  CallInv' /\ ScreensKept
<1> DEFINE s == active_terminal
<1>1. /\ calls[t] # << >> /\ Head(calls[t]).pc = "save" /\ s \in Terms
      /\ table_len \in [Terms -> 0..(KB_SIZE - 1)]
      /\ mem' = Copied(mem, VIDEO, video(s))
      /\ table_len' = [table_len EXCEPT ![s] = kb_len]
      /\ UNCHANGED << active_terminal, x, y, kb_len, putting >>
  BY DEF SwitchSave, At, TypeOK
<1>2. PICK c \in CallType : c = Head(calls[t]) /\ UnderWay(t, c)
  BY <1>1, TheCall
<1>3. PICK d : d = Advanced(c, "clear", 0)
  OBVIOUS
<1>4. /\ calls' = Only(t, d) /\ d \in CallType
      /\ d.op = c.op /\ d.term = c.term /\ d.pc = "clear"
  <2>1. GoTo(t, "clear", 0)
    BY DEF SwitchSave
  <2> QED
    BY <1>2, <1>3, <2>1, CallGoesOn
<1>5. c.pc = "save" /\ c.op = "switch_terminal"
  BY <1>1, <1>2 DEF CallType, VidmapCalls, SwitchCalls
<1>6. ~Saved /\ Saved'
  BY <1>2, <1>4, <1>5, SavedCases, SavedOnly DEF UnderWay
<1>7. \A u \in Terms : putting[u] = NoPutc
  BY <1>2, <1>5 DEF UnderWay
<1>8. VIDEO \in Pages /\ \A u \in Terms : video(u) \in Pages
  BY DEF Pages
<1>9. /\ View(mem', video(s)) = View(mem, VIDEO)
      /\ \A r \in Pages \ {video(s)} : View(mem', r) = View(mem, r)
  BY <1>1, <1>8, CopyView
<1>10. ASSUME NEW u \in Terms
       PROVE  View(mem, Home(u))' = View(mem, Home(u)) /\ LineLen(u)' = LineLen(u)
  <2>1. Home(u)' = video(u) /\ LineLen(u)' = table_len'[u]
    BY <1>1, <1>6 DEF Home, LineLen
  <2>2. View(mem, Home(u))' = View(mem', video(u))
    BY <2>1 DEF View
  <2>3. CASE u = s
    BY <1>1, <1>6, <1>9, <2>1, <2>2, <2>3 DEF Home, LineLen
  <2>4. CASE u # s
    BY <1>1, <1>6, <1>8, <1>9, <2>1, <2>2, <2>4, VideosApart DEF Home, LineLen
  <2> QED
    BY <2>3, <2>4
<1>11. UnderWay(t, d)'
  BY <1>1, <1>4, <1>7 DEF UnderWay, Only, NoPutc
<1> QED
  BY <1>1, <1>4, <1>7, <1>10, <1>11 DEF CallInv, ScreensKept, Cells, Lens

\* Once the screens are saved, what happens in the page shown is not seen.
LEMMA HiddenStep ==
    ASSUME Saved, Saved', UNCHANGED << active_terminal, x, y, table_len, putting >>,
           \A u \in Terms : putting[u] = NoPutc,
           \A r \in Pages \ {VIDEO} : View(mem', r) = View(mem, r)
    PROVE  ScreensKept
<1>1. ASSUME NEW u \in Terms
      PROVE  View(mem, Home(u))' = View(mem, Home(u)) /\ LineLen(u)' = LineLen(u)
  <2>1. /\ Home(u) = video(u) /\ Home(u)' = video(u)
        /\ LineLen(u) = table_len[u] /\ LineLen(u)' = table_len[u]
    BY DEF Home, LineLen
  <2>2. video(u) \in Pages \ {VIDEO}
    BY VideosApart DEF Pages
  <2>3. View(mem, Home(u))' = View(mem', video(u))
    BY <2>1 DEF View
  <2> QED
    BY <2>1, <2>2, <2>3
<1> QED
  BY <1>1 DEF ScreensKept, Cells, Lens

LEMMA ClearKeeps ==
    ASSUME TypeOK, TypeOK', CallInv, NEW t \in Terms, SwitchClear(t)
    PROVE  CallInv' /\ ScreensKept
<1>1. /\ calls[t] # << >> /\ Head(calls[t]).pc = "clear" /\ mem' = Cleared(mem)
      /\ UNCHANGED << active_terminal, x, y, table_len, putting >>
  BY DEF SwitchClear, At
<1>2. PICK c \in CallType : c = Head(calls[t]) /\ UnderWay(t, c)
  BY <1>1, TheCall
<1>3. PICK d : d = Advanced(c, "load", 0)
  OBVIOUS
<1>4. /\ calls' = Only(t, d) /\ d \in CallType
      /\ d.op = c.op /\ d.term = c.term /\ d.pc = "load"
  <2>1. GoTo(t, "load", 0)
    BY DEF SwitchClear
  <2> QED
    BY <1>2, <1>3, <2>1, CallGoesOn
<1>5. c.pc = "clear" /\ c.op = "switch_terminal"
  BY <1>1, <1>2 DEF CallType, VidmapCalls, SwitchCalls
<1>6. Saved /\ Saved'
  BY <1>2, <1>4, <1>5, SavedCases, SavedOnly DEF UnderWay
<1>7. \A u \in Terms : putting[u] = NoPutc
  BY <1>2, <1>5 DEF UnderWay
<1>8. \A r \in Pages \ {VIDEO} : View(mem', r) = View(mem, r)
  BY <1>1, ClearView
<1>9. UnderWay(t, d)'
  BY <1>1, <1>4, <1>7 DEF UnderWay, Only, NoPutc
<1> QED
  BY <1>1, <1>4, <1>6, <1>7, <1>8, <1>9, HiddenStep DEF CallInv

LEMMA LoadKeeps ==
    ASSUME TypeOK, TypeOK', CallInv, NEW t \in Terms, SwitchLoad(t)
    PROVE  CallInv' /\ ScreensKept
<1> DEFINE h == Head(calls[t])
<1>1. /\ calls[t] # << >> /\ h.pc = "load" /\ mem' = Copied(mem, video(h.term), VIDEO)
      /\ kb_len' = table_len[h.term]
      /\ UNCHANGED << active_terminal, x, y, table_len, putting >>
  BY DEF SwitchLoad, At
<1>2. PICK c \in CallType : c = h /\ UnderWay(t, c)
  BY <1>1, TheCall
<1>3. PICK d : d = Advanced(c, "entries", 0)
  OBVIOUS
<1>4. /\ calls' = Only(t, d) /\ d \in CallType
      /\ d.op = c.op /\ d.term = c.term /\ d.pc = "entries"
  <2>1. GoTo(t, "entries", 0)
    BY DEF SwitchLoad
  <2> QED
    BY <1>2, <1>3, <2>1, CallGoesOn
<1>5. c.pc = "load" /\ c.op = "switch_terminal" /\ c.term \in Terms
  BY <1>1, <1>2 DEF CallType, VidmapCalls, SwitchCalls
<1>6. Saved /\ Saved'
  BY <1>2, <1>4, <1>5, SavedCases, SavedOnly DEF UnderWay
<1>7. \A u \in Terms : putting[u] = NoPutc
  BY <1>2, <1>5 DEF UnderWay
<1>8. VIDEO \in Pages /\ video(c.term) \in Pages \ {VIDEO}
  BY <1>5, VideosApart DEF Pages
<1>9. /\ View(mem', VIDEO) = View(mem, video(c.term))
      /\ \A r \in Pages \ {VIDEO} : View(mem', r) = View(mem, r)
  BY <1>1, <1>2, <1>8, CopyView
<1>10. View(mem', VIDEO) = View(mem', video(d.term)) /\ kb_len' = table_len'[d.term]
  BY <1>1, <1>2, <1>4, <1>8, <1>9
<1>11. UnderWay(t, d)'
  BY <1>1, <1>4, <1>7, <1>10 DEF UnderWay, Only, View, NoPutc
<1> QED
  BY <1>1, <1>4, <1>6, <1>7, <1>9, <1>11, HiddenStep DEF CallInv

\* The end of a call.
LEMMA ReturnKeeps ==
    ASSUME TypeOK, TypeOK', CallInv, NEW t \in Terms, VidmapReturn(t) \/ SwitchShow(t)
    PROVE  CallInv' /\ ScreensKept
<1> DEFINE h == Head(calls[t])
<1>1. /\ calls[t] # << >> /\ h.pc = "done" /\ Return(t)
      /\ UNCHANGED << mem, x, y, kb_len, table_len, putting >>
  BY DEF VidmapReturn, SwitchShow, At
<1>2. PICK c \in CallType : c = h /\ UnderWay(t, c)
  BY <1>1, TheCall
<1>3. calls' = [u \in Terms |-> << >>] /\ calls = Only(t, c)
  BY <1>1, <1>2, OnlyReturn DEF UnderWay
<1>4. Alone' /\ ~Saved'
  BY <1>3, SavedCases DEF Alone
<1>5. CASE VidmapReturn(t)
  <2>1. c.op = "vidmap" /\ UNCHANGED active_terminal
    BY <1>2, <1>5 DEF VidmapReturn
  <2>2. ~Saved
    BY <1>3, <2>1, SavedCases, SavedOnly
  <2> QED
    BY <1>1, <1>4, <2>1, <2>2, ScreensUntouched DEF CallInv
<1>6. CASE SwitchShow(t)
  <2>1. /\ c.op = "switch_terminal" /\ active_terminal' = c.term /\ c.pc = "done"
        /\ c.term \in Terms
    BY <1>1, <1>2, <1>6 DEF SwitchShow, CallType, VidmapCalls, SwitchCalls
  <2>2. Saved
    BY <1>3, <2>1, SavedCases, SavedOnly
  <2>3. /\ \A u \in Terms : putting[u] = NoPutc
        /\ View(mem, VIDEO) = View(mem, video(c.term)) /\ kb_len = table_len[c.term]
    BY <1>2, <2>1 DEF UnderWay
  <2>4. ASSUME NEW u \in Terms
        PROVE  View(mem, Home(u))' = View(mem, Home(u)) /\ LineLen(u)' = LineLen(u)
    <3>1. Home(u) = video(u) /\ LineLen(u) = table_len[u]
      BY <2>2 DEF Home, LineLen
    <3>2. /\ Home(u)' = IF u = c.term THEN VIDEO ELSE video(u)
          /\ LineLen(u)' = IF u = c.term THEN kb_len ELSE table_len[u]
      BY <1>1, <1>4, <2>1 DEF Home, LineLen
    <3>3. View(mem, Home(u))' = View(mem, Home(u)')
      BY <1>1 DEF View
    <3> QED
      BY <2>3, <3>1, <3>2, <3>3
  <2> QED
    BY <1>1, <1>4, <2>3, <2>4 DEF CallInv, ScreensKept, Cells, Lens
<1> QED
  BY <1>5, <1>6

(* Every step of a call leaves every terminal's screen and line as they    *)
(* were, in one place or another.                                          *)
LEMMA CallKeepsScreens ==
    ASSUME TypeOK, TypeOK', CallInv, ~Preempted, ~PutcInterrupted,
           NEW t \in Terms, CallStep(t)
    PROVE  CallInv' /\ ScreensKept
BY BeginKeeps, TableStepKeeps, SaveKeeps, ClearKeeps, LoadKeeps, ReturnKeeps
DEF CallStep

\* All other steps are taken when no call is under way.
LEMMA OtherSteps ==
    ASSUME ~Preempted, [Next]_vars, \A t \in Terms : ~CallStep(t)
    PROVE  UNCHANGED calls /\ (UNCHANGED vars \/ (Alone /\ ~Saved))
<1>1. Alone => ~Saved
  BY SavedCases DEF Alone
<1>2. ASSUME NEW t \in Terms, NEW newline \in BOOLEAN,
             \/ PutcStart(t, newline) \/ PutcStore(t) \/ PutcTest(t)
             \/ PutcMove(t) \/ VidFault(t)
      PROVE  Alone /\ UNCHANGED calls
  BY <1>2 DEF PutcStart, PutcStore, PutcTest, PutcMove, VidFault, Calm
<1>3. ASSUME NEW t \in Terms, NEW c \in VidCells, VidWrite(t, c)
      PROVE  Alone /\ UNCHANGED calls
  BY <1>3 DEF VidWrite, Calm
<1>4. CASE KeyChar \/ KeyBackspace \/ KeyEnter \/ KeyCtrlL
  BY <1>1, <1>4 DEF KeyChar, KeyBackspace, KeyEnter, KeyCtrlL, KeyEchoed,
                    KeyHandled, Calm
<1>5. CASE UNCHANGED vars
  <2>1. UNCHANGED calls
    BY <1>5 DEF vars
  <2> QED
    BY <1>5, <2>1
<1>6. \A t \in VidTasks : t \in Terms
  BY ScreenAssumption
<1> QED
  BY <1>1, <1>2, <1>3, <1>4, <1>5, <1>6 DEF Next, printf, terminal_write, CallStep

LEMMA NextCalls ==
    ASSUME ~Preempted, ~PutcInterrupted, TypeOK, TypeOK', CallInv, [Next]_vars
    PROVE  CallInv'
<1>1. CASE \E t \in Terms : CallStep(t)
  BY <1>1, CallKeepsScreens
<1>2. CASE UNCHANGED vars
  BY <1>2 DEF vars, CallInv, UnderWay, Alone, Only, View, NoPutc
<1>3. CASE ~(UNCHANGED vars) /\ \A t \in Terms : ~CallStep(t)
  BY <1>3, OtherSteps DEF CallInv, Alone
<1> QED
  BY <1>1, <1>2, <1>3

-----------------------------------------------------------------------------
(* The echo. *)

\* Every line has a length in the buffer.
LEMMA LensTyped == TypeOK => Lens \in [Terms -> 0..(KB_SIZE - 1)]
BY DEF TypeOK, Lens, LineLen

LEMMA LensIsLineLen == \A t \in Terms : Lens[t] = LineLen(t)
BY DEF Lens

(* A line that starts in the last row has not reached the corner, and no   *)
(* program is in putc on a terminal on which a line is being typed.        *)
EchoInv == \A t \in Terms :
    /\ y[t] = LastRow => x[t] + Lens[t] < NUM_COLS
    /\ putting[t] # NoPutc => Lens[t] = 0

\* What EchoInv is for: a line stays in the page.
LEMMA EchoInvSuffices == TypeOK /\ EchoInv => EchoInPage
<1> SUFFICES ASSUME TypeOK, EchoInv, NEW t \in Terms, LineLen(t) < KB_SIZE - 1
             PROVE  NUM_COLS * y[t] + x[t] + LineLen(t) < PAGE
  BY DEF EchoInPage
<1>0. PICK len : len = LineLen(t)
  OBVIOUS
<1>1. /\ x[t] \in Nat /\ x[t] <= NUM_COLS - 1
      /\ y[t] \in Nat /\ y[t] <= LastRow
      /\ len \in Nat /\ len <= KB_SIZE - 2
  <2>1. LineLen(t) \in 0..(KB_SIZE - 1)
    BY LensTyped, LensIsLineLen
  <2> QED
    BY <1>0, <2>1, Sizes DEF TypeOK, LastRow
<1>2. y[t] = LastRow => x[t] + len < NUM_COLS
  BY <1>0, LensIsLineLen DEF EchoInv
<1>3. CASE y[t] = LastRow
  BY <1>0, <1>1, <1>2, <1>3, Sizes
<1>4. CASE y[t] # LastRow
  <2>1. NUM_COLS * y[t] <= NUM_COLS * (LastRow - 1)
    BY <1>1, <1>4, Sizes, ProductMonotone
  <2>2. NUM_COLS * (LastRow - 1) = NUM_COLS * LastRow - NUM_COLS
    BY Sizes, SMT
  <2>3. NUM_COLS * LastRow + KB_SIZE - 3 < PAGE
    BY ScreenAssumption DEF LastRow
  <2>4. NUM_COLS * y[t] \in Int
    BY <1>1, Sizes, SMT
  <2> QED
    BY <1>0, <1>1, <2>1, <2>2, <2>3, <2>4, Sizes
<1> QED
  BY <1>3, <1>4

\* When no call is under way, the line of the terminal shown is kb_buf.
LEMMA ShownLine ==
    ASSUME TypeOK, ~Saved, UNCHANGED << active_terminal, table_len, calls >>
    PROVE  /\ Lens[active_terminal] = kb_len
           /\ Lens' = [Lens EXCEPT ![active_terminal] = kb_len']
<1>1. active_terminal \in Terms /\ ~Saved'
  BY DEF TypeOK, Saved
<1>2. /\ \A u \in Terms : LineLen(u) = IF u = active_terminal THEN kb_len ELSE table_len[u]
      /\ \A u \in Terms : LineLen(u)' = IF u = active_terminal THEN kb_len' ELSE table_len[u]
  BY <1>1 DEF LineLen
<1> QED
  BY <1>1, <1>2 DEF Lens

\* A key moves the line of the terminal shown, while nobody is in putc.
LEMMA KeyKeepsEchoInv ==
    ASSUME TypeOK, EchoInv, KeyEchoed, ~PutcInterrupted, ~Saved,
           LET t == active_terminal
           IN  /\ \A u \in Terms \ {t} : x'[u] = x[u] /\ y'[u] = y[u]
               /\ y'[t] = LastRow => x'[t] + kb_len' < NUM_COLS
    PROVE  EchoInv'
<1>1. \A u \in Terms : putting'[u] = NoPutc
  BY DEF KeyEchoed, KeyHandled
<1>2. /\ Lens' = [Lens EXCEPT ![active_terminal] = kb_len']
      /\ Lens \in [Terms -> 0..(KB_SIZE - 1)] /\ active_terminal \in Terms
  BY ShownLine, LensTyped DEF KeyEchoed, TypeOK
<1>3. ASSUME NEW u \in Terms, y'[u] = LastRow PROVE x'[u] + Lens'[u] < NUM_COLS
  <2>1. CASE u = active_terminal
    BY <1>2, <1>3, <2>1
  <2>2. CASE u # active_terminal
    BY <1>2, <1>3, <2>2 DEF EchoInv
  <2> QED
    BY <2>1, <2>2
<1> QED
  BY <1>1, <1>3 DEF EchoInv, NoPutc, LastRow

\* After a newline the line is empty and starts in the first column.
LEMMA EnterPosition ==
    ASSUME TypeOK, KeyEnter
    PROVE  x'[active_terminal] = 0 /\ kb_len' = 0
<1> DEFINE t == active_terminal
           once == put_newln_kb(Echo)
           both == IF kb_len = KB_SIZE - 1 \/ kb_len + Echo.x >= NUM_COLS
                   THEN put_newln_kb(once) ELSE once
           e == IF kb_len = KB_SIZE - 1 THEN both
                ELSE EchoCorner(Echo, kb_len, both)
<1>1. both.x = 0
  BY EchoTyped, NewlineTyped
<1>2. e.x = 0
  BY <1>1 DEF EchoCorner
<1>3. x' = [x EXCEPT ![t] = e.x] /\ kb_len' = 0
  BY DEF KeyEnter, SetEcho
<1>4. t \in Terms /\ x \in [Terms -> 0..(NUM_COLS - 1)]
  BY DEF TypeOK
<1> QED
  BY <1>2, <1>3, <1>4

\* Steps that leave the lines alone.
LEMMA SameLens ==
    ASSUME UNCHANGED << active_terminal, kb_len, table_len, calls >>
    PROVE  Lens' = Lens
BY DEF Lens, LineLen, Saved

\* Every step keeps the lines so.
LEMMA NextEcho ==
    ASSUME ~TypeAhead, ~PutcInterrupted, ~Preempted, TypeOK, TypeOK',
           CallInv, EchoInv, [Next]_vars
    PROVE  EchoInv'
<1>1. /\ active_terminal \in Terms
      /\ x \in [Terms -> 0..(NUM_COLS - 1)]
      /\ y \in [Terms -> 0..(NUM_ROWS - 1)]
      /\ kb_len \in 0..(KB_SIZE - 1)
      /\ Lens \in [Terms -> 0..(KB_SIZE - 1)]
      /\ putting \in [Terms -> PutcCalls]
      /\ x' \in [Terms -> 0..(NUM_COLS - 1)]
  BY LensTyped DEF TypeOK
<1>2. ASSUME UNCHANGED << x, y, putting >>, Lens' = Lens PROVE EchoInv'
  BY <1>2 DEF EchoInv, NoPutc, LastRow
<1>3. ASSUME NEW t \in Terms, CallStep(t) PROVE EchoInv'
  BY <1>2, <1>3, CallKeepsScreens DEF ScreensKept
<1>4. ASSUME NEW t \in Terms, NEW newline \in BOOLEAN, PutcStart(t, newline)
      PROVE  EchoInv'
  <2>1. Lens[t] = 0 /\ UNCHANGED << x, y >> /\ Lens' = Lens
    BY <1>4, SameLens, LensIsLineLen DEF PutcStart
  <2>2. \A u \in Terms \ {t} : putting'[u] = putting[u]
    BY <1>1, <1>4 DEF PutcStart
  <2> QED
    BY <2>1, <2>2 DEF EchoInv, NoPutc, LastRow
<1>5. ASSUME NEW t \in Terms, PutcStore(t) \/ PutcTest(t) PROVE EchoInv'
  <2>1. putting[t] # NoPutc
    BY <1>5 DEF PutcStore, PutcTest, NoPutc
  <2>2. Lens[t] = 0 /\ UNCHANGED << x, y >> /\ Lens' = Lens
    BY <1>5, <2>1, SameLens DEF PutcStore, PutcTest, EchoInv
  <2>3. \A u \in Terms \ {t} : putting'[u] = putting[u]
    BY <1>1, <1>5 DEF PutcStore, PutcTest
  <2> QED
    BY <2>2, <2>3 DEF EchoInv, NoPutc, LastRow
<1>6. ASSUME NEW t \in Terms, PutcMove(t) PROVE EchoInv'
  <2>1. putting[t] # NoPutc
    BY <1>6 DEF PutcMove, NoPutc
  <2>2. Lens[t] = 0 /\ Lens' = Lens
    BY <1>6, <2>1, SameLens DEF PutcMove, EchoInv
  <2>3. \A u \in Terms \ {t} :
           x'[u] = x[u] /\ y'[u] = y[u] /\ putting'[u] = putting[u]
    BY <1>1, <1>6 DEF PutcMove
  <2>4. x'[t] + Lens'[t] < NUM_COLS
    BY <1>1, <2>2, Sizes
  <2> QED
    BY <2>2, <2>3, <2>4 DEF EchoInv, NoPutc, LastRow
<1>7. ASSUME NEW t \in Terms, NEW c \in VidCells, VidWrite(t, c)
      PROVE  EchoInv'
  BY <1>2, <1>7, SameLens DEF VidWrite
<1>8. ASSUME NEW t \in Terms, VidFault(t) PROVE EchoInv'
  BY <1>2, <1>8, SameLens DEF VidFault
\* A key: no call is under way.
<1>9. ASSUME KeyEchoed PROVE ~Saved /\ Lens[active_terminal] = kb_len
  <2>1. ~Saved
    BY <1>9, SavedCases DEF KeyEchoed, KeyHandled, Calm, Alone
  <2>2. UNCHANGED << active_terminal, table_len, calls >>
    BY <1>9 DEF KeyEchoed
  <2> QED
    BY <2>1, <2>2, ShownLine
<1>10. CASE KeyChar
  <2> DEFINE t == active_terminal
             corner == y[t] = LastRow /\ kb_len + x[t] = NUM_COLS - 1
  <2>1. x' = x /\ kb_len' = kb_len + 1 /\ KeyEchoed
    BY <1>1, <1>10 DEF KeyChar, SetEcho, EchoCorner, Echo
  <2>2. y' = [y EXCEPT ![t] = IF corner THEN y[t] - 1 ELSE y[t]]
    BY <1>1, <1>10 DEF KeyChar, SetEcho, EchoCorner, Echo
  <2>3. ~Saved /\ (y[t] = LastRow => x[t] + kb_len < NUM_COLS)
    BY <1>1, <1>9, <2>1 DEF EchoInv
  <2>4. y'[t] = LastRow => x'[t] + kb_len' < NUM_COLS
    BY <1>1, <2>1, <2>2, <2>3, Sizes
  <2>5. \A u \in Terms \ {t} : x'[u] = x[u] /\ y'[u] = y[u]
    BY <1>1, <2>1, <2>2
  <2> QED
    BY <2>1, <2>3, <2>4, <2>5, KeyKeepsEchoInv
<1>11. CASE KeyBackspace
  <2> DEFINE t == active_terminal
  <2>1. x' = x /\ y' = y /\ kb_len' = kb_len - 1 /\ KeyEchoed
    BY <1>1, <1>11 DEF KeyBackspace, SetEcho, Echo
  <2>2. ~Saved /\ (y[t] = LastRow => x[t] + kb_len < NUM_COLS)
    BY <1>1, <1>9, <2>1 DEF EchoInv
  <2>3. y'[t] = LastRow => x'[t] + kb_len' < NUM_COLS
    BY <1>1, <2>1, <2>2, Sizes
  <2> QED
    BY <2>1, <2>2, <2>3, KeyKeepsEchoInv
<1>12. CASE KeyEnter
  <2> DEFINE t == active_terminal
  <2>1. x'[t] + kb_len' < NUM_COLS /\ KeyEchoed
    BY <1>12, EnterPosition, Sizes DEF KeyEnter
  <2>2. \A u \in Terms \ {t} : x'[u] = x[u] /\ y'[u] = y[u]
    BY <1>1, <1>12 DEF KeyEnter, SetEcho
  <2> QED
    BY <1>9, <2>1, <2>2, KeyKeepsEchoInv
<1>13. CASE KeyCtrlL
  <2> DEFINE t == active_terminal
  <2>1. x'[t] + kb_len' < NUM_COLS /\ KeyEchoed
    BY <1>1, <1>13, Sizes DEF KeyCtrlL, clear_screen, SetEcho
  <2>2. \A u \in Terms \ {t} : x'[u] = x[u] /\ y'[u] = y[u]
    BY <1>1, <1>13 DEF KeyCtrlL, clear_screen, SetEcho
  <2> QED
    BY <1>9, <2>1, <2>2, KeyKeepsEchoInv
<1>14. CASE UNCHANGED vars
  BY <1>2, <1>14, SameLens DEF vars
<1>15. \A t \in VidTasks : t \in Terms
  BY ScreenAssumption
<1> QED
  BY <1>3, <1>4, <1>5, <1>6, <1>7, <1>8, <1>10, <1>11, <1>12, <1>13, <1>14, <1>15
  DEF Next, printf, terminal_write, CallStep

\* The lines at the start.
LEMMA InitEcho == Init => CallInv /\ EchoInv
<1> SUFFICES ASSUME Init PROVE CallInv /\ EchoInv
  OBVIOUS
<1>1. Alone /\ \A t \in Terms : LineLen(t) = 0
  BY DEF Init, Alone, LineLen
<1> QED
  BY <1>1, Sizes, LensIsLineLen DEF Init, CallInv, EchoInv

(* If programs do not print while their user types, no key is handled in   *)
(* the middle of putc and nothing comes in the middle of switch_terminal   *)
(* and vidmap, the echo of a line stays in the page the VGA shows:         *)
(* add_char_to_buf does not reach the saved screen of a terminal.          *)
THEOREM ScreenEcho ==
    ASSUME ~TypeAhead, ~PutcInterrupted, ~Preempted
    PROVE  Spec => []EchoInPage
<1> DEFINE Inv == TypeOK /\ ScrollInv /\ CallInv /\ EchoInv
<1>1. Init => Inv
  BY InitTypes, InitEcho
<1>2. Inv /\ [Next]_vars => Inv'
  <2> SUFFICES ASSUME Inv, [Next]_vars PROVE Inv'
    OBVIOUS
  <2>1. TypeOK' /\ ScrollInv'
    BY NextTypes
  <2>2. CallInv' /\ EchoInv'
    BY <2>1, NextCalls, NextEcho
  <2> QED
    BY <2>1, <2>2
<1>3. Inv => EchoInPage
  BY EchoInvSuffices
<1> QED
  BY <1>1, <1>2, <1>3, PTL DEF Spec

-----------------------------------------------------------------------------
(* One screen for each terminal: Screen implements TermScreens.            *)

(* putc runs to its end on the page it chose, and the character it has     *)
(* stored is still there when it moves on.                                 *)
PutGood(t) ==
    /\ putting[t].video_mem = Home(t)
    /\ putting[t].pc \in {"test", "move"} /\ ~putting[t].newline =>
         Cells[t][NUM_COLS * y[t] + x[t]] = t

PutInv == \A t \in Terms : putting[t] # NoPutc => PutGood(t)

RefInv == /\ TypeOK /\ ScrollInv /\ MapInv /\ settled
          /\ CallInv /\ EchoInv /\ PutInv

LEMMA RefTypes ==
    ASSUME RefInv
    PROVE  /\ active_terminal \in Terms
           /\ mem \in [Memory -> Cell] /\ DOMAIN mem = Memory
           /\ x \in [Terms -> 0..(NUM_COLS - 1)]
           /\ y \in [Terms -> 0..(NUM_ROWS - 1)]
           /\ kb_len \in Nat /\ kb_len <= KB_SIZE - 1
           /\ Lens \in [Terms -> 0..(KB_SIZE - 1)]
           /\ putting \in [Terms -> PutcCalls]
           /\ NUM_COLS \in Nat /\ NUM_COLS >= 1
           /\ \A t \in Terms : /\ x[t] \in Nat /\ x[t] < NUM_COLS
                               /\ y[t] \in Nat /\ y[t] <= LastRow
                               /\ NUM_COLS * y[t] \in Nat
<1>1. /\ active_terminal \in Terms
      /\ mem \in [Memory -> Cell]
      /\ x \in [Terms -> 0..(NUM_COLS - 1)]
      /\ y \in [Terms -> 0..(NUM_ROWS - 1)]
      /\ kb_len \in 0..(KB_SIZE - 1)
      /\ Lens \in [Terms -> 0..(KB_SIZE - 1)]
      /\ putting \in [Terms -> PutcCalls]
  BY LensTyped DEF RefInv, TypeOK, Cell
<1>2. NUM_COLS \in Nat /\ NUM_COLS >= 1 /\ NUM_ROWS \in Nat /\ KB_SIZE \in Nat
  BY Sizes
<1>3. ASSUME NEW t \in Terms
      PROVE  /\ x[t] \in Nat /\ x[t] < NUM_COLS
             /\ y[t] \in Nat /\ y[t] <= LastRow
             /\ NUM_COLS * y[t] \in Nat
  <2>1. x[t] \in 0..(NUM_COLS - 1) /\ y[t] \in 0..(NUM_ROWS - 1)
    BY <1>1
  <2> QED
    BY <1>2, <2>1 DEF LastRow
<1> QED
  BY <1>1, <1>2, <1>3

\* The mapped variables.
LEMMA Mapped ==
    /\ [t \in Terms |-> View(mem, Home(t))] = Cells
    /\ ([t \in Terms |-> View(mem, Home(t))])' = Cells'
    /\ [t \in Terms |-> LineLen(t)] = Lens
    /\ ([t \in Terms |-> LineLen(t)])' = Lens'
BY DEF Cells, Lens

AbsStep == [Abstract!Next]_(Abstract!vars)

LEMMA Stutter ==
    ASSUME UNCHANGED << active_terminal, x, y >>, Cells' = Cells, Lens' = Lens
    PROVE  AbsStep
BY Mapped DEF AbsStep, Abstract!vars

\* Steps that leave the screens alone.
LEMMA SameCells ==
    ASSUME UNCHANGED << active_terminal, mem, calls >>
    PROVE  Cells' = Cells /\ \A u \in Terms : Home(u)' = Home(u)
<1>1. \A u \in Terms : Home(u)' = Home(u)
  BY DEF Home, Saved
<1>2. \A u \in Terms : View(mem, Home(u))' = View(mem, Home(u))
  BY <1>1 DEF View
<1> QED
  BY <1>1, <1>2 DEF Cells

\* A step that changes the screen, the position and the putc of one task.
LEMMA OnePut ==
    ASSUME PutInv, NEW t \in Terms, NEW v, Cells' = [Cells EXCEPT ![t] = v],
           UNCHANGED << active_terminal, calls >>,
           \A u \in Terms \ {t} :
              x'[u] = x[u] /\ y'[u] = y[u] /\ putting'[u] = putting[u],
           putting'[t] # NoPutc => PutGood(t)'
    PROVE  PutInv'
<1>1. \A u \in Terms : Home(u)' = Home(u)
  BY DEF Home, Saved
<1>2. ASSUME NEW u \in Terms, u # t, putting'[u] # NoPutc PROVE PutGood(u)'
  <2>1. putting[u] # NoPutc /\ PutGood(u)
    BY <1>2 DEF PutInv
  <2>2. Cells'[u] = Cells[u]
    BY <1>2 DEF Cells
  <2> QED
    BY <1>1, <1>2, <2>1, <2>2 DEF PutGood
<1> QED
  BY <1>2 DEF PutInv, NoPutc

\* A step that changes no screen, no position and no putc but one.
LEMMA SamePut ==
    ASSUME RefInv, NEW t \in Terms,
           UNCHANGED << active_terminal, mem, x, y, kb_len, table_len, calls >>,
           \A u \in Terms \ {t} : putting'[u] = putting[u],
           putting'[t] # NoPutc => PutGood(t)'
    PROVE  AbsStep /\ PutInv'
<1>1. Cells' = Cells /\ Lens' = Lens
  BY SameCells, SameLens
<1>2. Cells' = [Cells EXCEPT ![t] = Cells[t]]
  BY <1>1 DEF Cells
<1>3. PutInv'
  BY <1>2, OnePut DEF RefInv
<1> QED
  BY <1>1, <1>3, Stutter

LEMMA PutcStartRefines ==
    ASSUME RefInv, ~Preempted, NEW t \in Terms, NEW newline \in BOOLEAN,
           PutcStart(t, newline)
    PROVE  AbsStep /\ PutInv'
<1>1. /\ UNCHANGED << active_terminal, mem, x, y, kb_len, table_len, calls >>
      /\ putting \in [Terms -> PutcCalls]
      /\ putting' = [putting EXCEPT ![t] =
                      [pc |-> IF newline THEN "test" ELSE "store",
                       video_mem |-> get_video_mem(t),
                       newline |-> newline, scroll |-> FALSE]]
  BY RefTypes DEF PutcStart
<1>2. /\ putting'[t].video_mem = get_video_mem(t)
      /\ putting'[t].pc = IF newline THEN "test" ELSE "store"
      /\ putting'[t].newline = newline
      /\ \A u \in Terms \ {t} : putting'[u] = putting[u]
  BY <1>1
<1>3. ~Saved
  BY SavedCases DEF PutcStart, Calm, Alone
<1>4. get_video_mem(t) = Home(t) /\ Home(t)' = Home(t)
  BY <1>1, <1>3, SameCells DEF get_video_mem, Home
<1>5. PutGood(t)'
  BY <1>2, <1>4 DEF PutGood
<1> QED
  BY <1>1, <1>2, <1>5, SamePut

LEMMA PutcTestRefines ==
    ASSUME RefInv, NEW t \in Terms, PutcTest(t)
    PROVE  AbsStep /\ PutInv'
<1>1. /\ UNCHANGED << active_terminal, mem, x, y, kb_len, table_len, calls >>
      /\ putting \in [Terms -> PutcCalls] /\ putting[t].pc = "test"
  BY RefTypes DEF PutcTest
<1>2. /\ putting'[t].video_mem = putting[t].video_mem
      /\ putting'[t].newline = putting[t].newline
      /\ \A u \in Terms \ {t} : putting'[u] = putting[u]
  BY <1>1 DEF PutcTest, PutcCalls
<1>3. PutGood(t)
  <2>1. putting[t] # NoPutc
    BY <1>1 DEF NoPutc
  <2> QED
    BY <2>1 DEF RefInv, PutInv
<1>4. Home(t)' = Home(t) /\ Cells' = Cells
  BY <1>1, SameCells
<1>5. PutGood(t)'
  BY <1>1, <1>2, <1>3, <1>4 DEF PutGood
<1> QED
  BY <1>1, <1>2, <1>5, SamePut

\* The cell at the cursor is on the screen, and where the next one is.
LEMMA CursorStep ==
    ASSUME NEW a \in 0..LastRow, NEW b \in 0..(NUM_COLS - 1)
    PROVE  LET at == NUM_COLS * a + b
           IN  /\ at \in Window /\ at \in Nat /\ at < PAGE
               /\ at + 1 \in Window <=> ~(a = LastRow /\ b = NUM_COLS - 1)
               /\ (at + 1) % NUM_COLS = IF b = NUM_COLS - 1 THEN 0 ELSE b + 1
               /\ (at + 1) \div NUM_COLS = IF b = NUM_COLS - 1 THEN a + 1 ELSE a
<1> DEFINE row == NUM_COLS * a
           last == NUM_COLS * LastRow
<1>1. /\ NUM_COLS \in Nat \ {0} /\ LastRow \in Nat /\ a \in Nat
      /\ row \in Nat /\ last \in Nat
      /\ NUM_ROWS * NUM_COLS = last + NUM_COLS
  BY Sizes
<1>2. row <= last
  BY <1>1, ProductMonotone
<1>3. a # LastRow => row + NUM_COLS <= last
  <2> SUFFICES ASSUME a # LastRow PROVE row + NUM_COLS <= last
    OBVIOUS
  <2>1. NUM_COLS * (a + 1) <= last
    BY <1>1, ProductMonotone
  <2>2. NUM_COLS * (a + 1) = row + NUM_COLS
    BY <1>1
  <2> QED
    BY <2>1, <2>2
<1>4. /\ b # NUM_COLS - 1 => /\ (row + (b + 1)) % NUM_COLS = b + 1
                             /\ (row + (b + 1)) \div NUM_COLS = a
      /\ (row + NUM_COLS) % NUM_COLS = 0
      /\ (row + NUM_COLS) \div NUM_COLS = a + 1
  <2>1. ASSUME NEW n \in Nat \ {0}, NEW q \in Nat, NEW r \in 0..(n - 1)
        PROVE  (n * q + r) % n = r /\ (n * q + r) \div n = q
    BY <2>1
  <2>2. row + NUM_COLS = NUM_COLS * (a + 1) + 0 /\ 0 \in 0..(NUM_COLS - 1)
        /\ a + 1 \in Nat
    BY <1>1
  <2>3. (row + NUM_COLS) % NUM_COLS = 0 /\ (row + NUM_COLS) \div NUM_COLS = a + 1
    BY <1>1, <2>1, <2>2
  <2>4. b # NUM_COLS - 1 => b + 1 \in 0..(NUM_COLS - 1)
    BY <1>1
  <2> QED
    BY <1>1, <2>1, <2>3, <2>4
<1>5. Window = 0..(last + NUM_COLS - 1)
  BY <1>1 DEF Window
<1>6. a = LastRow => row = last
  OBVIOUS
<1> HIDE DEF row, last
<1>7. row + b \in Window /\ row + b \in Nat
  BY <1>1, <1>2, <1>5
<1>8. row + b + 1 \in Window <=> ~(a = LastRow /\ b = NUM_COLS - 1)
  BY <1>1, <1>2, <1>3, <1>5, <1>6
<1>9. row + b + 1 = row + (b + 1) /\ (b = NUM_COLS - 1 => row + b + 1 = row + NUM_COLS)
  BY <1>1
<1> QED
  BY <1>4, <1>7, <1>8, <1>9, WindowInPage DEF row

\* Storing what is there already, and reading back what was stored.
LEMMA WithTwice ==
    ASSUME NEW m, NEW p, NEW c \in Window, NEW v
    PROVE  /\ Abstract!With(View(m, p), c, v)[c] = v
           /\ View(m, p)[c] = v => Abstract!With(View(m, p), c, v) = View(m, p)
<1> DEFINE s == View(m, p)
<1>1. s = [w \in Window |-> s[w]]
  BY DEF View
<1> HIDE DEF s
<1>2. Abstract!With(s, c, v) = [w \in Window |-> IF w = c THEN v ELSE s[w]]
  BY SameWindow DEF Abstract!With
<1> QED
  BY <1>1, <1>2 DEF s

LEMMA PutcStoreRefines ==
    ASSUME RefInv, NEW t \in Terms, PutcStore(t)
    PROVE  AbsStep /\ PutInv'
<1> DEFINE at == NUM_COLS * y[t] + x[t]
           p == Home(t)
<1>1. /\ active_terminal \in Terms /\ DOMAIN mem = Memory
      /\ x[t] \in 0..(NUM_COLS - 1) /\ y[t] \in 0..LastRow
      /\ p \in Pages /\ p \in Nat /\ NUM_COLS * y[t] \in Nat
      /\ putting \in [Terms -> PutcCalls]
  BY RefTypes, HomesApart, WindowInPage
<1>2. at \in Window /\ at \in Nat /\ at < PAGE
  BY <1>1, CursorStep
<1>3. putting[t].video_mem = p
  <2>1. putting[t] # NoPutc
    BY DEF PutcStore, NoPutc
  <2> QED
    BY <2>1 DEF RefInv, PutInv, PutGood
<1>4. putting[t].video_mem + NUM_COLS * y[t] + x[t] = p + at
  BY <1>1, <1>3
<1>5. /\ mem' = Stored(mem, p + at, t)
      /\ UNCHANGED << active_terminal, x, y, kb_len, table_len, calls >>
  BY <1>4 DEF PutcStore, Stored
<1> HIDE DEF at, p
<1>6. /\ View(mem', p) = Abstract!With(View(mem, p), at, t)
      /\ \A q \in Pages \ {p} : View(mem', q) = View(mem, q)
  BY <1>1, <1>2, <1>5, StoreView
<1>7. Cells' = [Cells EXCEPT ![t] = Abstract!With(View(mem, p), at, t)]
  BY <1>1, <1>5, <1>6, OneScreen DEF p
<1>8. Cells[t] = View(mem, p) /\ Lens' = Lens
  BY <1>5, SameLens DEF Cells, p
<1>9. Abstract!Poke(t, at)
  <2>1. Cells' = [Cells EXCEPT ![t] = Abstract!With(@, at, t)]
    BY <1>7, <1>8
  <2> QED
    BY <1>5, <1>8, <2>1, Mapped DEF Abstract!Poke
<1>10. PutGood(t)'
  <2>1. /\ putting'[t].video_mem = p /\ Home(t)' = p
    BY <1>1, <1>3, <1>5 DEF PutcStore, PutcCalls, Home, Saved, p
  <2>2. Cells'[t][at] = t
    BY <1>2, <1>7, WithTwice DEF Cells
  <2> QED
    BY <1>5, <2>1, <2>2 DEF PutGood, at
<1>11. \A u \in Terms \ {t} : /\ x'[u] = x[u] /\ y'[u] = y[u]
                              /\ putting'[u] = putting[u]
  BY <1>1, <1>5 DEF PutcStore
<1>12. PutInv'
  BY <1>5, <1>7, <1>10, <1>11, OnePut DEF RefInv
<1> QED
  BY <1>2, <1>9, <1>12, SameWindow DEF AbsStep, Abstract!Next

LEMMA PutcMoveRefines ==
    ASSUME RefInv, ~Preempted, NEW t \in Terms, PutcMove(t)
    PROVE  AbsStep /\ PutInv'
<1> DEFINE newline == putting[t].newline
           wraps == newline \/ x[t] = NUM_COLS - 1
           at == NUM_COLS * y[t] + x[t]
           p == Home(t)
           rows == IF wraps /\ y[t] = LastRow THEN 1 ELSE 0
           row == IF wraps /\ y[t] # LastRow THEN y[t] + 1 ELSE y[t]
<1>1. /\ active_terminal \in Terms /\ DOMAIN mem = Memory
      /\ x[t] \in 0..(NUM_COLS - 1) /\ y[t] \in 0..LastRow
      /\ p \in Pages /\ p \in Nat /\ NUM_COLS * y[t] \in Nat
      /\ x \in [Terms -> 0..(NUM_COLS - 1)] /\ y \in [Terms -> 0..(NUM_ROWS - 1)]
      /\ putting \in [Terms -> PutcCalls]
  BY RefTypes, HomesApart, WindowInPage
<1>2. /\ at \in Window /\ at \in Nat /\ at < PAGE
      /\ at + 1 \in Window <=> ~(y[t] = LastRow /\ x[t] = NUM_COLS - 1)
      /\ (at + 1) % NUM_COLS = IF x[t] = NUM_COLS - 1 THEN 0 ELSE x[t] + 1
      /\ (at + 1) \div NUM_COLS = IF x[t] = NUM_COLS - 1 THEN y[t] + 1 ELSE y[t]
  BY <1>1, CursorStep
<1>3. /\ putting[t].pc = "move" /\ ~Saved
      /\ UNCHANGED << active_terminal, kb_len, table_len, calls >>
      /\ putting' = [putting EXCEPT ![t] = NoPutc]
  BY SavedCases DEF PutcMove, Calm, Alone
<1>4. get_video_mem(t) = p /\ Lens' = Lens
  BY <1>3, SameLens DEF get_video_mem, Home
<1>5. PutGood(t)
  <2>1. putting[t] # NoPutc
    BY <1>3 DEF NoPutc
  <2> QED
    BY <2>1 DEF RefInv, PutInv
<1>6. putting[t].scroll <=> y[t] = LastRow /\ wraps
  BY <1>3 DEF RefInv, ScrollInv
<1>7. /\ mem' = IF wraps /\ y[t] = LastRow THEN video_scroll(mem, p) ELSE mem
      /\ x' = [x EXCEPT ![t] = IF wraps THEN 0 ELSE x[t] + 1]
      /\ y' = [y EXCEPT ![t] = row]
  <2>1. CASE putting[t].scroll
    <3>1. /\ mem' = video_scroll(mem, p) /\ x' = [x EXCEPT ![t] = 0]
          /\ y' = [y EXCEPT ![t] = LastRow]
      BY <1>1, <1>4, <1>6, <2>1 DEF PutcMove
    <3> QED
      BY <1>6, <2>1, <3>1
  <2>2. CASE ~putting[t].scroll
    <3>1. mem' = mem /\ x' = [x EXCEPT ![t] = NextCol(t)] /\ y' = [y EXCEPT ![t] = NextRow(t)]
      BY <2>2 DEF PutcMove
    <3>2. DrawTypes /\ ScrollInv
      BY TypeOKParts DEF RefInv
    <3>3. /\ NextCol(t) = IF wraps THEN 0 ELSE x[t] + 1
          /\ NextRow(t) = IF wraps THEN y[t] + 1 ELSE y[t]
      BY <1>3, <2>2, <3>2, NextPosition
    <3> QED
      BY <1>6, <2>2, <3>1, <3>3
  <2> QED
    BY <2>1, <2>2
<1>8. /\ View(mem', p) = Abstract!Up(View(mem, p), rows)
      /\ \A q \in Pages \ {p} : View(mem', q) = View(mem, q)
  <2> HIDE DEF p
  <2>1. CASE wraps /\ y[t] = LastRow
    <3>1. mem' = video_scroll(mem, p) /\ rows = 1
      BY <1>7, <2>1
    <3> QED
      BY <1>1, <3>1, ScrollView
  <2>2. CASE ~(wraps /\ y[t] = LastRow)
    <3>1. mem' = mem /\ rows = 0
      BY <1>7, <2>2
    <3> QED
      BY <3>1, UpSteps
  <2> QED
    BY <2>1, <2>2
<1>9. Cells' = [Cells EXCEPT ![t] = Abstract!Up(View(mem, p), rows)]
  <2> HIDE DEF rows
  <2> QED
    BY <1>1, <1>3, <1>8, OneScreen
<1>10. Cells[t] = View(mem, p)
  BY DEF Cells
<1>11. PutInv'
  <2>1. /\ putting'[t] = NoPutc
        /\ \A u \in Terms \ {t} : /\ x'[u] = x[u] /\ y'[u] = y[u]
                                  /\ putting'[u] = putting[u]
    BY <1>1, <1>3, <1>7
  <2> HIDE DEF rows, p
  <2> QED
    BY <1>3, <1>9, <2>1, OnePut DEF RefInv
<1> HIDE DEF p, at
<1>12. CASE newline
  <2>1. Cells' = [Cells EXCEPT ![t] = Abstract!Up(@, IF y[t] = NUM_ROWS - 1 THEN 1 ELSE 0)]
    BY <1>9, <1>10, <1>12 DEF LastRow
  <2>2. y' = [y EXCEPT ![t] = @ + 1 - (IF y[t] = NUM_ROWS - 1 THEN 1 ELSE 0)]
    <3>1. row = y[t] + 1 - (IF y[t] = NUM_ROWS - 1 THEN 1 ELSE 0)
      BY <1>1, <1>12 DEF LastRow
    <3> QED
      BY <1>7, <3>1
  <2>3. x' = [x EXCEPT ![t] = 0]
    BY <1>7, <1>12
  <2>4. Abstract!NewLine(t)
    BY <1>3, <1>4, <2>1, <2>2, <2>3, Mapped DEF Abstract!NewLine
  <2> QED
    BY <1>11, <2>4 DEF AbsStep, Abstract!Next
<1>13. CASE ~newline
  <2> DEFINE up == IF at + 1 \in Window THEN 0 ELSE 1
  <2>1. up = rows
    BY <1>2, <1>13
  <2>2. Abstract!With(Cells[t], at, t) = Cells[t]
    BY <1>2, <1>3, <1>5, <1>10, <1>13, WithTwice DEF PutGood, at
  <2>3. Cells' = [Cells EXCEPT ![t] = Abstract!Up(Abstract!With(@, at, t), up)]
    BY <1>9, <1>10, <2>1, <2>2
  <2>4. x' = [x EXCEPT ![t] = (at + 1) % NUM_COLS]
    BY <1>2, <1>7, <1>13
  <2>5. y' = [y EXCEPT ![t] = (at + 1) \div NUM_COLS - up]
    <3>1. row = (at + 1) \div NUM_COLS - up
      BY <1>1, <1>2, <1>13, <2>1
    <3> QED
      BY <1>7, <3>1
  <2>6. Abstract!Cursor(t) = at
    BY DEF Abstract!Cursor, at
  <2>7. Abstract!PutChar(t)
    BY <1>3, <1>4, <2>3, <2>4, <2>5, <2>6, Mapped, SameWindow DEF Abstract!PutChar
  <2> QED
    BY <1>11, <2>7 DEF AbsStep, Abstract!Next
<1> QED
  BY <1>12, <1>13

LEMMA VidWriteRefines ==
    ASSUME RefInv, ~Preempted, NEW t \in Terms, NEW c \in VidCells, VidWrite(t, c)
    PROVE  AbsStep /\ PutInv'
<1> DEFINE p == Home(t)
<1>1. /\ active_terminal \in Terms /\ DOMAIN mem = Memory /\ p \in Pages
      /\ c \in Window /\ c \in Nat /\ c < PAGE
  BY RefTypes, HomesApart, WindowInPage, ScreenAssumption
<1>2. vidmap_ptable[t] = p
  <2>1. TableTypes /\ MapInv /\ settled /\ Alone /\ t \in mapped
    BY TypeOKParts DEF RefInv, VidWrite, Calm
  <2> QED
    BY <2>1, MapInvSuffices DEF MappingFollowsSwitch
<1>3. /\ mem' = Stored(mem, p + c, t) /\ putting[t] = NoPutc
      /\ UNCHANGED << active_terminal, x, y, kb_len, table_len, calls, putting >>
  BY <1>2 DEF VidWrite, Stored
<1> HIDE DEF p
<1>4. /\ View(mem', p) = Abstract!With(View(mem, p), c, t)
      /\ \A q \in Pages \ {p} : View(mem', q) = View(mem, q)
  BY <1>1, <1>3, StoreView
<1>5. Cells' = [Cells EXCEPT ![t] = Abstract!With(View(mem, p), c, t)]
  BY <1>1, <1>3, <1>4, OneScreen DEF p
<1>6. Cells' = [Cells EXCEPT ![t] = Abstract!With(@, c, t)]
  BY <1>5 DEF Cells, p
<1>7. Lens' = Lens
  BY <1>3, SameLens
<1>8. Abstract!Poke(t, c)
  BY <1>3, <1>6, <1>7, Mapped DEF Abstract!Poke
<1>9. PutInv'
  BY <1>3, <1>5, OnePut DEF RefInv
<1> QED
  BY <1>1, <1>8, <1>9, SameWindow DEF AbsStep, Abstract!Next

\* The terminal shown lives in the page the VGA shows.
LEMMA ShownPage ==
    /\ VIDEO \in Pages
    /\ ~Saved => Home(active_terminal) = VIDEO
    /\ ~Saved /\ active_terminal \in Terms =>
         Cells[active_terminal] = View(mem, VIDEO)
BY DEF Home, Pages, Cells

(* What an echo record has in its memory, compared with video memory: the  *)
(* page shown moved up by k rows, the others as they were.                 *)
Moved(e, m, k) ==
    /\ k \in Nat
    /\ View(e.mem, VIDEO) = Abstract!Up(View(m, VIDEO), k)
    /\ \A q \in Pages \ {VIDEO} : View(e.mem, q) = View(mem, q)

LEMMA ScrollMoves ==
    ASSUME NEW e, NEW m, NEW k, Moved(e, m, k), NEW f,
           f.mem = video_scroll(e.mem, VIDEO)
    PROVE  Moved(f, m, k + 1)
<1>1. /\ View(f.mem, VIDEO) = Abstract!Up(View(e.mem, VIDEO), 1)
      /\ \A q \in Pages \ {VIDEO} : View(f.mem, q) = View(e.mem, q)
  BY ScrollView, ShownPage
<1>2. View(f.mem, VIDEO) = Abstract!Up(View(m, VIDEO), k + 1)
  BY <1>1, UpSteps DEF Moved
<1> QED
  BY <1>1, <1>2 DEF Moved

\* Taking over an echo record.
LEMMA SetEchoCells ==
    ASSUME RefInv, ~Saved, NEW e, SetEcho(e), NEW m, NEW k, Moved(e, m, k),
           UNCHANGED << active_terminal, calls >>
    PROVE  Cells' = [Cells EXCEPT ![active_terminal] = Abstract!Up(View(m, VIDEO), k)]
<1>1. active_terminal \in Terms /\ mem' = e.mem
  BY RefTypes DEF SetEcho
<1>2. /\ View(mem', VIDEO) = Abstract!Up(View(m, VIDEO), k)
      /\ \A q \in Pages \ {VIDEO} : View(mem', q) = View(mem, q)
  BY <1>1 DEF Moved
<1> QED
  BY <1>1, <1>2, ShownPage, OneScreen

\* A key: no call is under way and nobody is in putc.
LEMMA KeySettled ==
    ASSUME RefInv, ~Preempted, ~PutcInterrupted, KeyEchoed
    PROVE  /\ ~Saved /\ PutInv'
           /\ Lens[active_terminal] = kb_len
           /\ Lens' = [Lens EXCEPT ![active_terminal] = kb_len']
           /\ UNCHANGED << active_terminal, calls >>
<1>1. ~Saved /\ \A u \in Terms : putting'[u] = NoPutc
  BY SavedCases DEF KeyEchoed, KeyHandled, Calm, Alone
<1>2. UNCHANGED << active_terminal, table_len, calls >>
  BY DEF KeyEchoed
<1> QED
  BY <1>1, <1>2, ShownLine DEF RefInv, PutInv, NoPutc

LEMMA KeyCharRefines ==
    ASSUME RefInv, ~Saved, KeyChar, Lens[active_terminal] = kb_len,
           Lens' = [Lens EXCEPT ![active_terminal] = kb_len']
    PROVE  AbsStep
<1> DEFINE t == active_terminal
           a == NUM_COLS * y[t] + x[t] + kb_len
           m == Stored(mem, VIDEO + a, t)
           e == [Echo EXCEPT !.mem = m]
           f == EchoCorner(Echo, kb_len, e)
<1>1. /\ t \in Terms /\ DOMAIN mem = Memory /\ x \in [Terms -> 0..(NUM_COLS - 1)]
      /\ y \in [Terms -> 0..(NUM_ROWS - 1)]
      /\ x[t] \in Nat /\ y[t] \in Nat /\ kb_len \in Nat /\ NUM_COLS * y[t] \in Nat
  BY RefTypes
<1>2. a \in Nat /\ a < PAGE
  <2>1. EchoInPage
    BY EchoInvSuffices DEF RefInv
  <2>2. kb_len < KB_SIZE - 1
    BY DEF KeyChar
  <2>3. LineLen(t) = kb_len
    BY <1>1, LensIsLineLen
  <2> QED
    BY <1>1, <2>1, <2>2, <2>3 DEF EchoInPage
<1>3. /\ SetEcho(f) /\ Lens' = [Lens EXCEPT ![t] = @ + 1]
      /\ UNCHANGED << active_terminal, calls >>
  <2>1. convert_to_vid_idx(Echo, kb_len) = a
    BY DEF convert_to_vid_idx, Echo
  <2> QED
    BY <2>1 DEF KeyChar, KeyEchoed, Stored, Echo
<1>4. e.mem = m /\ e.x = x[t] /\ e.y = y[t] /\ Echo.y = y[t] /\ Echo.x = x[t]
  BY DEF Echo
<1>5. /\ View(m, VIDEO) = Abstract!With(View(mem, VIDEO), a, t)
      /\ \A q \in Pages \ {VIDEO} : View(m, q) = View(mem, q)
  <2> HIDE DEF a, t
  <2> QED
    BY <1>1, <1>2, ShownPage, StoreView
<1> HIDE DEF e, m, a
<1>6. Moved(e, m, 0)
  BY <1>4, <1>5, UpSteps DEF Moved
<1>7. PICK rows \in 0..1 : Moved(f, m, rows) /\ f.x = x[t] /\ f.y = y[t] - rows
  <2>1. CASE Echo.y = LastRow /\ kb_len + Echo.x = NUM_COLS - 1
    <3>1. f.mem = video_scroll(e.mem, VIDEO) /\ f.x = e.x /\ f.y = Echo.y - 1
      BY <2>1 DEF EchoCorner
    <3>2. Moved(f, m, 0 + 1)
      BY <1>6, <3>1, ScrollMoves
    <3> QED
      BY <1>4, <3>1, <3>2
  <2>2. CASE ~(Echo.y = LastRow /\ kb_len + Echo.x = NUM_COLS - 1)
    <3>1. f = e
      BY <2>2 DEF EchoCorner
    <3> QED
      BY <1>1, <1>4, <1>6, <3>1
  <2> QED
    BY <2>1, <2>2
<1> HIDE DEF f
<1>8. Cells' = [Cells EXCEPT ![t] = Abstract!Up(View(m, VIDEO), rows)]
  BY <1>3, <1>7, SetEchoCells
<1>9. Cells' = [Cells EXCEPT ![t] = Abstract!Up(Abstract!With(@, a, t), rows)]
  BY <1>1, <1>5, <1>8, ShownPage
<1>10. x' = x /\ y' = [y EXCEPT ![t] = @ - rows]
  BY <1>1, <1>3, <1>7 DEF SetEcho
<1>11. Abstract!Cursor(t) + kb_len = a
  BY DEF Abstract!Cursor, a
<1>12. Abstract!Type
  BY <1>3, <1>9, <1>10, <1>11, Mapped DEF Abstract!Type
<1> QED
  BY <1>12 DEF AbsStep, Abstract!Next

LEMMA KeyBackspaceRefines ==
    ASSUME RefInv, ~Saved, KeyBackspace, Lens[active_terminal] = kb_len,
           Lens' = [Lens EXCEPT ![active_terminal] = kb_len']
    PROVE  AbsStep
<1> DEFINE t == active_terminal
           a == NUM_COLS * y[t] + x[t] + kb_len - 1
<1>1. /\ t \in Terms /\ DOMAIN mem = Memory
      /\ x \in [Terms -> 0..(NUM_COLS - 1)] /\ y \in [Terms -> 0..(NUM_ROWS - 1)]
      /\ x[t] \in Nat /\ x[t] < NUM_COLS /\ y[t] \in Nat /\ y[t] <= LastRow
      /\ kb_len \in Nat /\ kb_len <= KB_SIZE - 1 /\ NUM_COLS * y[t] \in Nat
      /\ kb_len > 0
  BY RefTypes DEF KeyBackspace
<1>2. a \in Nat /\ a < PAGE
  <2>1. CASE y[t] = LastRow
    <3>1. x[t] + kb_len < NUM_COLS
      BY <1>1, <2>1 DEF RefInv, EchoInv
    <3> QED
      BY <1>1, <2>1, <3>1, Sizes
  <2>2. CASE y[t] # LastRow
    <3>1. NUM_COLS * y[t] <= NUM_COLS * (LastRow - 1)
      BY <1>1, <2>2, Sizes, ProductMonotone
    <3>2. NUM_COLS * (LastRow - 1) = NUM_COLS * LastRow - NUM_COLS
      BY Sizes, SMT
    <3>3. NUM_COLS * LastRow + KB_SIZE - 3 < PAGE
      BY ScreenAssumption DEF LastRow
    <3> QED
      BY <1>1, <3>1, <3>2, <3>3, Sizes
  <2> QED
    BY <2>1, <2>2
<1>3. /\ mem' = Stored(mem, VIDEO + a, Blank) /\ Lens' = [Lens EXCEPT ![t] = @ - 1]
      /\ UNCHANGED << active_terminal, calls, x, y >>
  <2>1. VIDEO + convert_to_vid_idx(Echo, kb_len) - 1 = VIDEO + a
    BY <1>1 DEF convert_to_vid_idx, Echo, VIDEO
  <2> QED
    BY <1>1, <2>1 DEF KeyBackspace, KeyEchoed, SetEcho, Echo, Stored
<1>4. Abstract!Cursor(t) + kb_len - 1 = a
  BY DEF Abstract!Cursor
<1> HIDE DEF a, t
<1>5. /\ View(mem', VIDEO) = Abstract!With(View(mem, VIDEO), a, Blank)
      /\ \A q \in Pages \ {VIDEO} : View(mem', q) = View(mem, q)
  BY <1>1, <1>2, <1>3, ShownPage, StoreView
<1>6. Cells' = [Cells EXCEPT ![t] = Abstract!With(View(mem, VIDEO), a, Blank)]
  BY <1>1, <1>3, <1>5, ShownPage, OneScreen DEF t
<1>7. Cells' = [Cells EXCEPT ![t] = Abstract!With(@, a, Blank)]
  BY <1>1, <1>6, ShownPage DEF t
<1>8. Abstract!Erase
  BY <1>1, <1>3, <1>4, <1>7, Mapped DEF Abstract!Erase, t
<1> QED
  BY <1>8 DEF AbsStep, Abstract!Next

\* A newline of the echo moves the page shown by a row or the cursor down.
LEMMA NewlineMoves ==
    ASSUME NEW e, EchoType(e), NEW k, Moved(e, mem, k)
    PROVE  LET f == put_newln_kb(e)
           IN  \/ Moved(f, mem, k + 1) /\ f.y = e.y
               \/ Moved(f, mem, k) /\ f.y = e.y + 1
<1> DEFINE f == put_newln_kb(e)
<1>1. CASE e.y = LastRow
  <2>1. f.mem = video_scroll(e.mem, VIDEO) /\ f.y = e.y
    BY <1>1 DEF put_newln_kb
  <2> HIDE DEF f
  <2>2. Moved(f, mem, k + 1)
    BY <2>1, ScrollMoves
  <2> QED
    BY <2>1, <2>2 DEF f
<1>2. CASE e.y # LastRow
  <2>1. f.mem = e.mem /\ f.y = e.y + 1
    BY <1>2 DEF put_newln_kb
  <2> HIDE DEF f
  <2>2. Moved(f, mem, k)
    BY <2>1 DEF Moved
  <2> QED
    BY <2>1, <2>2 DEF f
<1> QED
  BY <1>1, <1>2

LEMMA KeyEnterRefines ==
    ASSUME RefInv, ~Saved, KeyEnter, Lens[active_terminal] = kb_len,
           Lens' = [Lens EXCEPT ![active_terminal] = kb_len']
    PROVE  AbsStep
<1> DEFINE t == active_terminal
           full == kb_len = KB_SIZE - 1
           once == put_newln_kb(Echo)
           both == IF full \/ kb_len + x[t] >= NUM_COLS THEN put_newln_kb(once)
                                                        ELSE once
           f == IF full THEN both ELSE EchoCorner(Echo, kb_len, both)
           Goes(e, n) == /\ EchoType(e) /\ e.x = 0
                         /\ \E rows \in 0..n : /\ Moved(e, mem, rows)
                                               /\ rows > 0 \/ e.y > y[t]
<1>1. /\ t \in Terms /\ y[t] \in Nat /\ kb_len \in Nat /\ x[t] \in Nat
      /\ x \in [Terms -> 0..(NUM_COLS - 1)] /\ y \in [Terms -> 0..(NUM_ROWS - 1)]
  BY RefTypes
<1>2. SetEcho(f) /\ Lens' = [Lens EXCEPT ![t] = 0] /\ UNCHANGED << active_terminal, calls >>
  BY DEF KeyEnter, KeyEchoed, Echo
<1>3. /\ EchoType(Echo) /\ Echo.y = y[t] /\ Echo.mem = mem
      /\ Moved(Echo, mem, 0)
  <2>1. EchoType(Echo) /\ Echo.y = y[t] /\ Echo.mem = mem
    BY EchoTyped DEF RefInv, Echo
  <2> QED
    BY <2>1, UpSteps DEF Moved
<1>4. ASSUME NEW e, EchoType(e), NEW n \in Nat, NEW k \in 0..n, Moved(e, mem, k),
             e.y >= y[t]
      PROVE  Goes(put_newln_kb(e), n + 1)
  <2> DEFINE g == put_newln_kb(e)
  <2>1. EchoType(g) /\ g.x = 0
    BY <1>4, NewlineTyped
  <2>2. e.y \in Nat
    BY <1>4 DEF EchoType
  <2>3. \/ Moved(g, mem, k + 1) /\ g.y = e.y
        \/ Moved(g, mem, k) /\ g.y = e.y + 1
    BY <1>4, NewlineMoves
  <2> HIDE DEF g
  <2>4. CASE Moved(g, mem, k + 1)
    <3>1. k + 1 \in 0..(n + 1) /\ k + 1 > 0
      BY <1>4
    <3> QED
      BY <2>1, <2>4, <3>1 DEF g
  <2>5. CASE Moved(g, mem, k) /\ g.y = e.y + 1
    <3>1. k \in 0..(n + 1) /\ g.y > y[t]
      BY <1>1, <1>4, <2>2, <2>5
    <3> QED
      BY <2>1, <2>5, <3>1 DEF g
  <2> QED
    BY <2>3, <2>4, <2>5
<1>5. Goes(once, 1)
  <2>1. 0 \in Nat /\ 0 \in 0..0 /\ Echo.y >= y[t] /\ 0 + 1 = 1
    BY <1>1, <1>3
  <2> QED
    BY <1>3, <1>4, <2>1
<1>6. once.y >= y[t]
  BY <1>1, <1>3 DEF put_newln_kb
<1>7. Goes(both, 2)
  <2>1. PICK k \in 0..1 : Moved(once, mem, k) /\ (k > 0 \/ once.y > y[t])
    BY <1>5
  <2>2. Goes(put_newln_kb(once), 2)
    <3>1. 1 \in Nat /\ 1 + 1 = 2
      OBVIOUS
    <3> HIDE DEF once
    <3> QED
      BY <1>4, <1>5, <1>6, <2>1, <3>1
  <2>3. Goes(once, 2)
    BY <1>5, <2>1
  <2> QED
    BY <2>2, <2>3
<1> HIDE DEF both, once, full
<1>8. Goes(f, 3)
  <2>1. PICK k \in 0..2 : Moved(both, mem, k) /\ (k > 0 \/ both.y > y[t])
    BY <1>7
  <2>2. CASE f = both
    BY <1>7, <2>1, <2>2
  <2>3. CASE f # both
    <3>1. f = [mem |-> video_scroll(both.mem, VIDEO), x |-> both.x, y |-> Echo.y - 1]
      BY <2>3 DEF EchoCorner
    <3>2. f.mem = video_scroll(both.mem, VIDEO) /\ f.x = 0
      BY <1>7, <3>1
    <3>3. EchoType(f)
      BY <1>7, <2>3, CornerTyped
    <3> HIDE DEF f
    <3>4. Moved(f, mem, k + 1)
      BY <2>1, <3>2, ScrollMoves
    <3>5. k + 1 \in 0..3 /\ k + 1 > 0
      BY <2>1
    <3> QED
      BY <3>2, <3>3, <3>4, <3>5
  <2> QED
    BY <2>2, <2>3
<1> HIDE DEF f
<1>9. PICK rows \in 0..3 : Moved(f, mem, rows) /\ (rows > 0 \/ f.y > y[t])
  BY <1>8
<1>10. f.y \in 0..(NUM_ROWS - 1) /\ f.x = 0
  BY <1>8 DEF EchoType
<1>11. Cells' = [Cells EXCEPT ![t] = Abstract!Up(View(mem, VIDEO), rows)]
  BY <1>2, <1>9, SetEchoCells
<1>12. Cells' = [Cells EXCEPT ![t] = Abstract!Up(@, rows)]
  BY <1>1, <1>11, ShownPage
<1>13. x' = [x EXCEPT ![t] = 0] /\ y' = [y EXCEPT ![t] = f.y]
  BY <1>2, <1>10 DEF SetEcho
<1>14. Abstract!Enter
  BY <1>2, <1>9, <1>10, <1>12, <1>13, Mapped DEF Abstract!Enter
<1> QED
  BY <1>14 DEF AbsStep, Abstract!Next

LEMMA KeyCtrlLRefines ==
    ASSUME RefInv, ~Saved, KeyCtrlL, Lens[active_terminal] = kb_len,
           Lens' = [Lens EXCEPT ![active_terminal] = kb_len']
    PROVE  AbsStep
<1> DEFINE t == active_terminal
           blank == [c \in Window |-> Blank]
<1>1. t \in Terms
  BY RefTypes
<1>2. /\ mem' = Cleared(mem)
      /\ x' = [x EXCEPT ![t] = 0] /\ y' = [y EXCEPT ![t] = 0]
      /\ Lens' = [Lens EXCEPT ![t] = 0] /\ UNCHANGED << active_terminal, calls >>
  BY DEF KeyCtrlL, KeyEchoed, clear_screen, SetEcho
<1>3. /\ View(mem', VIDEO) = blank
      /\ \A q \in Pages \ {VIDEO} : View(mem', q) = View(mem, q)
  BY <1>2, ClearView
<1>4. Cells' = [Cells EXCEPT ![t] = blank]
  BY <1>1, <1>2, <1>3, ShownPage, OneScreen
<1>5. Abstract!Clear
  BY <1>2, <1>4, Mapped, SameWindow DEF Abstract!Clear
<1> QED
  BY <1>5 DEF AbsStep, Abstract!Next

(* Every step of the screen code is a step of TermScreens or none. *)
LEMMA NextRefines ==
    ASSUME ~PutcInterrupted, ~Preempted, ~VidmapHidden, RefInv, TypeOK', [Next]_vars
    PROVE  AbsStep /\ PutInv' /\ settled'
<1>1. ASSUME NEW t \in Terms, CallStep(t) PROVE AbsStep /\ PutInv'
  <2>1. ScreensKept
    BY <1>1, CallKeepsScreens DEF RefInv
  <2>2. active_terminal' \in Terms
    BY DEF TypeOK
  <2>3. Abstract!Show(active_terminal')
    BY <2>1, Mapped DEF ScreensKept, Abstract!Show
  <2>4. ASSUME NEW u \in Terms, putting'[u] # NoPutc PROVE PutGood(u)'
    BY <2>1, <2>4 DEF ScreensKept, RefInv, PutInv, PutGood
  <2> QED
    BY <2>2, <2>3, <2>4 DEF AbsStep, Abstract!Next, PutInv, NoPutc
<1>2. ASSUME NEW t \in Terms, CallStep(t) PROVE settled'
  <2>1. ASSUME vidmap(t) \/ \E new \in Terms : switch_terminal(t, new)
        PROVE  settled'
    <3>1. Alone
      BY <2>1 DEF vidmap, switch_terminal, Begin, Calm
    <3>2. CASE vidmap(t)
      <4>1. t = active_terminal
        BY <3>2 DEF vidmap
      <4>2. settled' = (Alone /\ t = active_terminal)
        BY <3>2 DEF vidmap
      <4> QED
        BY <3>1, <4>1, <4>2
    <3>3. CASE \E new \in Terms : switch_terminal(t, new)
      <4>1. settled' = Alone
        BY <3>3 DEF switch_terminal
      <4> QED
        BY <3>1, <4>1
    <3> QED
      BY <2>1, <3>2, <3>3
  <2> QED
    BY <1>2, <2>1 DEF CallStep, RefInv, VidmapAbsent, SetEntry, VidmapReturn,
                      SwitchSave, SwitchClear, SwitchLoad, SwitchShow
<1>3. ASSUME NEW t \in Terms, NEW newline \in BOOLEAN, PutcStart(t, newline)
      PROVE  AbsStep /\ PutInv' /\ settled'
  BY <1>3, PutcStartRefines DEF RefInv, PutcStart
<1>4. ASSUME NEW t \in Terms, PutcStore(t) PROVE AbsStep /\ PutInv' /\ settled'
  BY <1>4, PutcStoreRefines DEF RefInv, PutcStore
<1>5. ASSUME NEW t \in Terms, PutcTest(t) PROVE AbsStep /\ PutInv' /\ settled'
  BY <1>5, PutcTestRefines DEF RefInv, PutcTest
<1>6. ASSUME NEW t \in Terms, PutcMove(t) PROVE AbsStep /\ PutInv' /\ settled'
  BY <1>6, PutcMoveRefines DEF RefInv, PutcMove
<1>7. ASSUME NEW t \in Terms, NEW c \in VidCells, VidWrite(t, c)
      PROVE  AbsStep /\ PutInv' /\ settled'
  BY <1>7, VidWriteRefines DEF RefInv, VidWrite
<1>8. ASSUME NEW t \in Terms, VidFault(t) PROVE AbsStep /\ PutInv' /\ settled'
  <2>1. /\ UNCHANGED << active_terminal, mem, x, y, kb_len, table_len, calls,
                        putting, settled >>
        /\ putting[t] = NoPutc
    BY <1>8 DEF VidFault
  <2>2. AbsStep /\ PutInv'
    BY <2>1, SamePut
  <2> QED
    BY <2>1, <2>2 DEF RefInv
<1>9. CASE KeyChar \/ KeyBackspace \/ KeyEnter \/ KeyCtrlL
  <2>1. KeyEchoed
    BY <1>9 DEF KeyChar, KeyBackspace, KeyEnter, KeyCtrlL
  <2>2. /\ ~Saved /\ PutInv' /\ Lens[active_terminal] = kb_len
        /\ Lens' = [Lens EXCEPT ![active_terminal] = kb_len']
    BY <2>1, KeySettled
  <2>3. AbsStep
    BY <1>9, <2>2, KeyCharRefines, KeyBackspaceRefines, KeyEnterRefines, KeyCtrlLRefines
  <2>4. settled'
    BY <2>1 DEF KeyEchoed, RefInv
  <2> QED
    BY <2>2, <2>3, <2>4
<1>10. CASE UNCHANGED vars
  <2>1. UNCHANGED << active_terminal, mem, x, y, kb_len, table_len, calls, putting,
                     settled >>
    BY <1>10 DEF vars
  <2>2. /\ Cells' = Cells /\ Lens' = Lens /\ \A u \in Terms : Home(u)' = Home(u)
    BY <2>1, SameCells, SameLens
  <2>3. PutInv'
    BY <2>1, <2>2 DEF RefInv, PutInv, PutGood, NoPutc
  <2> QED
    BY <2>1, <2>2, <2>3, Stutter DEF RefInv
<1>11. \A t \in VidTasks : t \in Terms
  BY ScreenAssumption
<1> QED
  BY <1>1, <1>2, <1>3, <1>4, <1>5, <1>6, <1>7, <1>8, <1>9, <1>10, <1>11
  DEF Next, printf, terminal_write, CallStep

LEMMA InitRefines == Init => RefInv /\ Abstract!Init
<1> SUFFICES ASSUME Init PROVE RefInv /\ Abstract!Init
  OBVIOUS
<1>1. active_terminal = 0 /\ mem = [a \in Memory |-> Blank] /\ 0 \in Terms
  BY Sizes DEF Init, Terms
<1>2. \A t \in Terms : Home(t) \in Pages
  BY <1>1, HomesApart
<1>3. \A t \in Terms, c \in Window : mem[Home(t) + c] = Blank
  BY <1>1, <1>2, WindowInPage
<1>4. Cells = [t \in Terms |-> [c \in Window |-> Blank]]
  BY <1>3 DEF Cells, View
<1>5. Lens = [t \in Terms |-> 0]
  BY DEF Init, Lens, LineLen
<1>6. Abstract!Init
  BY <1>4, <1>5, Mapped, SameWindow DEF Init, Abstract!Init
<1>7. MapInv /\ settled /\ PutInv
  BY DEF Init, MapInv, Alone, PutInv
<1> QED
  BY <1>6, <1>7, InitTypes, InitEcho DEF RefInv

(* If no key is handled in the middle of putc, programs do not print while *)
(* their user types, vidmap is called on the terminal shown, and nothing   *)
(* comes in the middle of switch_terminal and vidmap, the pages, their     *)
(* copying, the scrolling, the echo and the page table together give every *)
(* terminal a screen that only its own programs and its own user change.   *)
THEOREM ScreenImplements ==
    ASSUME ~PutcInterrupted, ~TypeAhead, ~VidmapHidden, ~Preempted
    PROVE  Spec => ImplementsTermScreens
<1>1. RefInv /\ [Next]_vars => RefInv' /\ AbsStep
  <2> SUFFICES ASSUME RefInv, [Next]_vars PROVE RefInv' /\ AbsStep
    OBVIOUS
  <2>1. TypeOK' /\ ScrollInv'
    BY NextTypes DEF RefInv
  <2>2. MapInv'
    BY <2>1, NextMap, NextTable, TypeOKParts DEF RefInv
  <2>3. CallInv' /\ EchoInv'
    BY <2>1, NextCalls, NextEcho DEF RefInv
  <2>4. AbsStep /\ PutInv' /\ settled'
    BY <2>1, NextRefines
  <2> QED
    BY <2>1, <2>2, <2>3, <2>4 DEF RefInv
<1>2. RefInv /\ [Next]_vars => [Abstract!Next]_(Abstract!vars)
  BY <1>1 DEF AbsStep
<1> QED
  BY <1>1, <1>2, InitRefines, PTL DEF Spec, ImplementsTermScreens, Abstract!Spec
=============================================================================
