----------------------------- MODULE RtcProofs -----------------------------
(***************************************************************************)
(* Proofs about Rtc, for every number of terminals and all rates.          *)
(***************************************************************************)
EXTENDS Rtc, TLAPS

-----------------------------------------------------------------------------
(* Arithmetic. *)

(* The bounded count of interrupts. *)
LEMMA MinOfTwo ==
    ASSUME NEW a \in Int, NEW b \in Int
    PROVE  Min({a, b}) = IF a <= b THEN a ELSE b
<1> DEFINE m == IF a <= b THEN a ELSE b
<1>1. m \in {a, b} /\ \A y \in {a, b} : m <= y
  OBVIOUS
<1>2. \A x \in {a, b} : (\A y \in {a, b} : x <= y) => x = m
  OBVIOUS
<1> QED
  BY <1>1, <1>2 DEF Min

(* The number of the next task is that of a terminal. *)
LEMMA NextTask ==
    ASSUME NEW n \in Nat \ {0}, NEW t \in 0..(n - 1)
    PROVE  (t + 1) % n \in 0..(n - 1)
  OBVIOUS

(* The rates of the cases of rtc_write. *)
LEMMA Powers ==
    /\ 2^1 = 2 /\ 2^2 = 4 /\ 2^3 = 8 /\ 2^4 = 16 /\ 2^5 = 32 /\ 2^6 = 64
    /\ 2^7 = 128 /\ 2^8 = 256 /\ 2^9 = 512
  OBVIOUS

(* rtc_open's rate is one of them. *)
LEMMA InitRateIsRate == IsRate(INIT_RATE)
<1>1. DOMAIN OUT_RATE = 1..9
  BY DEF OUT_RATE
<1>2. 1 \in 1..9 /\ 2 \in 1..9 /\ 3 \in 1..9 /\ 4 \in 1..9 /\ 5 \in 1..9 /\ 6 \in 1..9
      /\ 7 \in 1..9 /\ 8 \in 1..9 /\ 9 \in 1..9
  OBVIOUS
<1>3. \E k \in 1..9 : INIT_RATE = 2^k
  <2>1. \/ INIT_RATE = 2^1 \/ INIT_RATE = 2^2 \/ INIT_RATE = 2^3
        \/ INIT_RATE = 2^4 \/ INIT_RATE = 2^5 \/ INIT_RATE = 2^6
        \/ INIT_RATE = 2^7 \/ INIT_RATE = 2^8 \/ INIT_RATE = 2^9
    BY Powers, RtcAssumption
  <2> QED
    BY <1>2, <2>1, Zenon
<1> QED
  BY <1>1, <1>3 DEF IsRate

(* The codes in the table of rtc_write are those the chip takes for the    *)
(* rates of its cases.                                                     *)
LEMMA TableIsRight ==
    ASSUME NEW rate, IsRate(rate)
    PROVE  OutRate(rate) \in 7..15 /\ Frequency(OutRate(rate)) = rate
<1>1. DOMAIN OUT_RATE = 1..9 /\ \A k \in 1..9 : OUT_RATE[k] = 16 - k
  BY DEF OUT_RATE
<1>2. PICK k \in 1..9 : rate = 2^k
  BY <1>1 DEF IsRate
<1>4. /\ Frequency(15) = 2 /\ Frequency(14) = 4 /\ Frequency(13) = 8
      /\ Frequency(12) = 16 /\ Frequency(11) = 32 /\ Frequency(10) = 64
      /\ Frequency(9) = 128 /\ Frequency(8) = 256 /\ Frequency(7) = 512
  BY DEF Frequency
<1>5. \A j \in 1..9 : rate = 2^j => j = k
  <2> DEFINE P == [j \in 1..9 |-> 2^j]
  <2>1. /\ P[1] = 2 /\ P[2] = 4 /\ P[3] = 8 /\ P[4] = 16 /\ P[5] = 32
        /\ P[6] = 64 /\ P[7] = 128 /\ P[8] = 256 /\ P[9] = 512
    BY Powers
  <2>2. rate = P[k] /\ \A j \in 1..9 : P[j] = 2^j
    BY <1>2
  <2> HIDE DEF P
  <2>3. \A j \in 1..9 : P[j] = P[k] => j = k
    BY <2>1
  <2> QED
    BY <2>2, <2>3, Zenon
<1>6. OutRate(rate) = 16 - k
  <2>1. (CHOOSE j \in 1..9 : rate = 2^j) = k
    BY <1>2, <1>5, Zenon
  <2> QED
    BY <1>1, <2>1 DEF OutRate
<1>7. Frequency(16 - k) = rate
  <2>1. CASE k = 1
    <3>1. 16 - k = 15 /\ rate = 2^1
      BY <1>2, <2>1
    <3> QED
      BY Powers, <1>4, <3>1, Zenon
  <2>2. CASE k = 2
    <3>1. 16 - k = 14 /\ rate = 2^2
      BY <1>2, <2>2
    <3> QED
      BY Powers, <1>4, <3>1, Zenon
  <2>3. CASE k = 3
    <3>1. 16 - k = 13 /\ rate = 2^3
      BY <1>2, <2>3
    <3> QED
      BY Powers, <1>4, <3>1, Zenon
  <2>4. CASE k = 4
    <3>1. 16 - k = 12 /\ rate = 2^4
      BY <1>2, <2>4
    <3> QED
      BY Powers, <1>4, <3>1, Zenon
  <2>5. CASE k = 5
    <3>1. 16 - k = 11 /\ rate = 2^5
      BY <1>2, <2>5
    <3> QED
      BY Powers, <1>4, <3>1, Zenon
  <2>6. CASE k = 6
    <3>1. 16 - k = 10 /\ rate = 2^6
      BY <1>2, <2>6
    <3> QED
      BY Powers, <1>4, <3>1, Zenon
  <2>7. CASE k = 7
    <3>1. 16 - k = 9 /\ rate = 2^7
      BY <1>2, <2>7
    <3> QED
      BY Powers, <1>4, <3>1, Zenon
  <2>8. CASE k = 8
    <3>1. 16 - k = 8 /\ rate = 2^8
      BY <1>2, <2>8
    <3> QED
      BY Powers, <1>4, <3>1, Zenon
  <2>9. CASE k = 9
    <3>1. 16 - k = 7 /\ rate = 2^9
      BY <1>2, <2>9
    <3> QED
      BY Powers, <1>4, <3>1, Zenon
  <2> QED
    BY <2>1, <2>2, <2>3, <2>4, <2>5, <2>6, <2>7, <2>8, <2>9
<1> QED
  BY <1>6, <1>7

-----------------------------------------------------------------------------
(* Types, and the interrupts a terminal may still take for one. *)

\* The record of a system call; rtc_write gets past its table with a rate in
\* the table only.
Pcs == {"none", "spin", "reset", "select", "get", "reselect", "put", "unmask",
        "returned"}
TableRates == {r \in Rates : IsRate(r)}
CallType == [pc : Pcs, rate : TableRates, previous : {"divider", "flags"}]

\* A handler's entry on a task's stack.
Entry(t, k) == k \in DOMAIN handler[t]

\* The PIC lets one handler at a time run up to its EOI.
OneBeforeEOI ==
    \A t, u \in Terms : \A k, m \in Nat :
        /\ Entry(t, k) /\ handler[t][k] < SelectC
        /\ Entry(u, m) /\ handler[u][m] < SelectC
        => t = u /\ k = m

\* The flag is set, or was when the read saw it.
Seen(t) == interrupt_flag[t] = 1 \/ call[t].pc = "reset"

\* A handler will set the flag of t.
Coming(t) == \E u \in Terms : \E k \in Nat : Entry(u, k) /\ handler[u][k] <= t

\* Each of the two is an interrupt of its own.
Covered(t) ==
    owed[t] >= (IF Seen(t) THEN 1 ELSE 0) + (IF Coming(t) THEN 1 ELSE 0)

RtcInv ==
    /\ TypeOK /\ call \in [Terms -> CallType]
    /\ OneBeforeEOI
    /\ \A t \in Terms : Covered(t)

(* The constants as numbers. *)
LEMMA Basics ==
    /\ MAX_TERM_N \in Nat \ {0} /\ 0 \in Terms
    /\ SelectC = MAX_TERM_N /\ ReadC = MAX_TERM_N + 1
    /\ Steps = 0..(MAX_TERM_N + 1)
    /\ \A t \in Terms : t \in Nat /\ t < MAX_TERM_N
    /\ MaxOwed \in Nat /\ MaxOwed >= 2
  BY RtcAssumption DEF Terms, Steps, ReadC, SelectC

(* NoCall at any place of the code is a call. *)
LEMMA EnterType ==
    ASSUME NEW pc \in Pcs
    PROVE  [NoCall EXCEPT !.pc = pc] \in CallType
  BY RtcAssumption, InitRateIsRate DEF NoCall, CallType, TableRates

(* rtc_init leaves no interrupt over. *)
LEMMA InitRtc == Init => RtcInv
<1> SUFFICES ASSUME Init PROVE RtcInv
  OBVIOUS
<1>1. NoCall \in CallType
  BY RtcAssumption, InitRateIsRate DEF NoCall, CallType, TableRates, Pcs
<1>2. TypeOK /\ call \in [Terms -> CallType]
  <2>2. regA \in [upper : {"divider", "flags"}, code : 0..15]
    BY DEF Init
  <2>3. handler \in [Terms -> Seq(Steps)]
    BY DEF Init
  <2>4. call \in [Terms -> CallType]
    BY <1>1 DEF Init
  <2>5. interrupt_flag \in [Terms -> {0, 1}] /\ owed \in [Terms -> Int]
    BY DEF Init
  <2>6. /\ active_task \in Terms /\ index \in {"A", "B", "C"}
        /\ raised \in BOOLEAN /\ crossed \in BOOLEAN
    BY Basics DEF Init
  <2> QED
    BY <2>2, <2>3, <2>4, <2>5, <2>6 DEF TypeOK, CallType, Pcs, TableRates
<1>3. \A t \in Terms : \A k \in Nat : ~Entry(t, k)
  BY DEF Init, Entry
<1>4. OneBeforeEOI /\ \A t \in Terms : Covered(t)
  BY <1>3, Basics DEF Init, Covered, Seen, Coming, NoCall, OneBeforeEOI
<1> QED
  BY <1>2, <1>4 DEF RtcInv

(* A system call's step that touches neither flag nor handler. *)
LEMMA CallStepKeeps ==
    ASSUME RtcInv, NEW t \in Terms, NEW c \in CallType,
           call' = [call EXCEPT ![t] = c], c.pc = "reset" => Seen(t),
           index' \in {"A", "B", "C"},
           regA' \in [upper : {"divider", "flags"}, code : 0..15],
           raised' \in BOOLEAN, crossed' \in BOOLEAN,
           UNCHANGED << active_task, interrupt_flag, handler, owed >>
    PROVE  RtcInv'
<1>1. TypeOK' /\ call' \in [Terms -> CallType]
  BY DEF RtcInv, TypeOK, CallType, Pcs, TableRates
<1>2. OneBeforeEOI'
  BY DEF RtcInv, OneBeforeEOI, Entry, SelectC
<1>3. ASSUME NEW s \in Terms PROVE Covered(s)'
  <2>1. Covered(s) /\ owed[s] \in Int
    BY DEF RtcInv, TypeOK
  <2>2. Seen(s)' => Seen(s)
    <3>1. CASE s = t
      BY <3>1 DEF Seen, RtcInv, TypeOK
    <3>2. CASE s # t
      BY <3>2 DEF Seen, RtcInv, TypeOK
    <3> QED
      BY <3>1, <3>2
  <2>3. Coming(s)' <=> Coming(s)
    BY DEF Coming, Entry
  <2> QED
    BY <2>1, <2>2, <2>3 DEF Covered
<1> QED
  BY <1>1, <1>2, <1>3 DEF RtcInv

(* Entries of a stack that a step or an interrupt has put on top of another*)
(* one.                                                                    *)
LEMMA OnTop ==
    ASSUME NEW h \in Seq(Steps), NEW a \in Steps
    PROVE  /\ << a >> \o h \in Seq(Steps) /\ DOMAIN (<< a >> \o h) = 1..(Len(h) + 1)
           /\ (<< a >> \o h)[1] = a
           /\ \A k \in 2..(Len(h) + 1) : (<< a >> \o h)[k] = h[k - 1]
  OBVIOUS

(* An interrupt comes only when no handler has flags left to set, so it    *)
(* adds one to what every terminal may take.                               *)
LEMMA IrqKeeps == ASSUME RtcInv, Irq PROVE RtcInv'
<1> DEFINE a == active_task
           h == handler[a]
           new == << 0 >> \o h
<1>1. /\ handler' = [handler EXCEPT ![a] = new] /\ raised' = TRUE
      /\ owed' = [t \in Terms |-> Min({owed[t] + 1, MaxOwed})]
      /\ UNCHANGED << active_task, interrupt_flag, call, index, regA, crossed >>
      /\ ~HandlerIn(0..(SelectC - 1))
  BY DEF Irq
<1>2. ASSUME NEW t \in Terms
      PROVE  /\ owed[t] \in Int
             /\ owed'[t] = IF owed[t] + 1 <= MaxOwed THEN owed[t] + 1 ELSE MaxOwed
  <2>1. owed[t] \in Int /\ owed[t] + 1 \in Int /\ MaxOwed \in Int
    BY Basics DEF RtcInv, TypeOK
  <2>2. owed'[t] = Min({owed[t] + 1, MaxOwed})
    BY <1>1
  <2> QED
    BY <2>1, <2>2, MinOfTwo
<1>3. /\ a \in Terms /\ handler \in [Terms -> Seq(Steps)] /\ h \in Seq(Steps)
  BY DEF RtcInv, TypeOK
<1>4. /\ new \in Seq(Steps) /\ DOMAIN new = 1..(Len(h) + 1) /\ new[1] = 0
      /\ \A k \in 2..(Len(h) + 1) : new[k] = h[k - 1]
  BY <1>3, OnTop, Basics
<1>5. ASSUME NEW t \in Terms, NEW k \in Nat, Entry(t, k)
      PROVE  handler[t][k] \in Nat /\ handler[t][k] >= SelectC
  <2>1. handler[t][k] \in Steps
    BY <1>3, <1>5 DEF Entry
  <2>2. handler[t][k] \notin 0..(SelectC - 1)
    BY <1>1, <1>5 DEF HandlerIn, Entry
  <2> QED
    BY <2>1, <2>2, Basics
<1>6. ASSUME NEW t \in Terms, NEW k \in Nat, Entry(t, k)', ~(t = a /\ k = 1)
      PROVE  handler'[t][k] \in Nat /\ handler'[t][k] >= SelectC
  <2>1. CASE t # a
    BY <1>1, <1>3, <1>5, <1>6, <2>1 DEF Entry
  <2>2. CASE t = a
    <3>1. Len(h) \in Nat /\ DOMAIN h = 1..Len(h) /\ k \in 1..(Len(h) + 1)
      BY <1>1, <1>3, <1>4, <1>6, <2>2 DEF Entry
    <3>2. k \in 2..(Len(h) + 1) /\ k - 1 \in 1..Len(h) /\ k - 1 \in Nat
      BY <1>6, <2>2, <3>1
    <3>3. Entry(a, k - 1) /\ handler'[t][k] = handler[a][k - 1]
      BY <1>1, <1>3, <1>4, <2>2, <3>1, <3>2 DEF Entry
    <3> QED
      BY <1>3, <1>5, <3>2, <3>3
  <2> QED
    BY <2>1, <2>2
<1>7. TypeOK' /\ call' \in [Terms -> CallType]
  <2>1. owed' \in [Terms -> Int]
    BY <1>1, <1>2, Basics
  <2>2. handler' \in [Terms -> Seq(Steps)]
    BY <1>1, <1>3, <1>4
  <2> HIDE DEF new
  <2> QED
    BY <1>1, <2>1, <2>2 DEF RtcInv, TypeOK, Steps, ReadC
<1>8. OneBeforeEOI'
  BY <1>6, Basics DEF OneBeforeEOI, SelectC
<1>9. ASSUME NEW t \in Terms PROVE Covered(t)'
  <2>1. ~Coming(t)
    BY <1>5, Basics DEF Coming
  <2>2. Seen(t)' <=> Seen(t)
    BY <1>1 DEF Seen
  <2>3. owed[t] >= IF Seen(t) THEN 1 ELSE 0
    BY <2>1 DEF RtcInv, Covered
  <2> QED
    BY <1>2, <2>2, <2>3, Basics DEF Covered
<1> QED
  BY <1>7, <1>8, <1>9 DEF RtcInv

(* A step of the handler turns a flag that is coming into one that is set. *)
LEMMA HandlerKeeps == ASSUME RtcInv, rtc_handler PROVE RtcInv'
<1> DEFINE a == active_task
           h == handler[a]
           s == Head(h)
           new == IF s = ReadC THEN Tail(h) ELSE << s + 1 >> \o Tail(h)
           d == IF s = ReadC THEN 1 ELSE 0
<1>1. /\ h # << >>
      /\ interrupt_flag' = [t \in Terms |->
            IF t = s THEN 1 ELSE interrupt_flag[t]]
      /\ handler' = [handler EXCEPT ![a] = new]
      /\ raised' = (raised /\ ~(s = ReadC /\ index = "C"))
      /\ crossed' = (crossed \/ (s = SelectC /\ CallSelected))
      /\ UNCHANGED << active_task, call, regA, owed >>
      /\ index' \in {"A", "B", "C"}
  BY DEF rtc_handler, StepDone, RtcInv, TypeOK
<1>2. /\ a \in Terms /\ handler \in [Terms -> Seq(Steps)] /\ h \in Seq(Steps)
  BY DEF RtcInv, TypeOK
<1>3. /\ Len(h) \in Nat \ {0} /\ DOMAIN h = 1..Len(h) /\ s = h[1] /\ s \in Steps
      /\ Tail(h) \in Seq(Steps) /\ Len(Tail(h)) = Len(h) - 1
      /\ \A k \in 1..(Len(h) - 1) : Tail(h)[k] = h[k + 1]
  BY <1>1, <1>2
<1>4. s \in Nat /\ s <= ReadC
  BY <1>3, Basics
<1>5. /\ new \in Seq(Steps) /\ DOMAIN new = 1..(Len(h) - d)
      /\ \A k \in 1..(Len(h) - d) :
            new[k] = IF s # ReadC /\ k = 1 THEN s + 1 ELSE h[k + d]
  <2>1. CASE s = ReadC
    BY <1>3, <2>1
  <2>2. CASE s # ReadC
    <3>1. s + 1 \in Steps
      BY <1>3, <1>4, <2>2, Basics
    <3>2. /\ << s + 1 >> \o Tail(h) \in Seq(Steps)
          /\ DOMAIN (<< s + 1 >> \o Tail(h)) = 1..(Len(h) - 1 + 1)
          /\ (<< s + 1 >> \o Tail(h))[1] = s + 1
          /\ \A k \in 2..(Len(h) - 1 + 1) :
                 (<< s + 1 >> \o Tail(h))[k] = Tail(h)[k - 1]
      BY <1>3, <3>1, OnTop
    <3>3. \A k \in 2..Len(h) : k - 1 \in 1..(Len(h) - 1) /\ (k - 1) + 1 = k
      BY <1>3
    <3>4. Len(h) - 1 + 1 = Len(h) /\ Len(h) - 0 = Len(h)
          /\ \A k \in 1..Len(h) : k = 1 \/ k \in 2..Len(h)
      BY <1>3
    <3>5. \A k \in 2..Len(h) : new[k] = h[k]
      BY <1>3, <2>2, <3>2, <3>3, <3>4
    <3>6. new[1] = s + 1 /\ new \in Seq(Steps) /\ DOMAIN new = 1..Len(h)
      BY <2>2, <3>2, <3>4
    <3> HIDE DEF new
    <3>7. \A k \in 1..Len(h) : k + 0 = k
      BY <1>3
    <3> QED
      BY <2>2, <3>4, <3>5, <3>6, <3>7
  <2> QED
    BY <2>1, <2>2
<1> HIDE DEF new, s
<1>6. ASSUME NEW t \in Terms, NEW k \in Nat, Entry(t, k)',
             ~(t = a /\ k = 1 /\ s # ReadC)
      PROVE  LET j == IF t = a THEN k + d ELSE k
             IN  j \in Nat /\ Entry(t, j) /\ handler'[t][k] = handler[t][j]
  <2>1. CASE t # a
    BY <1>1, <1>2, <1>6, <2>1 DEF Entry
  <2>2. CASE t = a
    <3>1. k \in 1..(Len(h) - d) /\ handler'[t][k] = new[k]
      BY <1>1, <1>2, <1>5, <1>6, <2>2 DEF Entry
    <3>2. k + d \in 1..Len(h) /\ k + d \in Nat
      BY <1>3, <3>1
    <3>3. new[k] = h[k + d]
      BY <1>5, <1>6, <2>2, <3>1
    <3> QED
      BY <1>3, <2>2, <3>1, <3>2, <3>3 DEF Entry
  <2> QED
    BY <2>1, <2>2
<1>7. /\ Entry(a, 1) /\ handler[a][1] = s
      /\ s # ReadC => handler'[a][1] = s + 1
  <2>1. s # ReadC => 1 \in 1..(Len(h) - d)
    BY <1>3
  <2> QED
    BY <1>1, <1>2, <1>3, <1>5, <2>1 DEF Entry
<1> HIDE DEF d
<1>8. \A t \in Terms : \A k \in Nat : Entry(t, k) => handler[t][k] \in Nat
  BY <1>2, Basics DEF Entry
<1>9. TypeOK' /\ call' \in [Terms -> CallType]
  <2>1. interrupt_flag' \in [Terms -> {0, 1}]
    BY <1>1 DEF RtcInv, TypeOK
  <2>2. raised' \in BOOLEAN /\ crossed' \in BOOLEAN
    BY <1>1
  <2>3. handler' \in [Terms -> Seq(Steps)]
    BY <1>1, <1>2, <1>5
  <2> QED
    BY <1>1, <2>1, <2>2, <2>3 DEF RtcInv, TypeOK, Steps, ReadC
<1>10. OneBeforeEOI'
  <2> DEFINE Old(t, k) == IF t = a THEN k + d ELSE k
  <2>1. ASSUME NEW t \in Terms, NEW k \in Nat, Entry(t, k)', handler'[t][k] < SelectC
        PROVE  Old(t, k) \in Nat /\ Entry(t, Old(t, k)) /\ handler[t][Old(t, k)] < SelectC
    <3>1. CASE t = a /\ k = 1 /\ s # ReadC
      <4>1. d = 0 /\ Old(t, k) = 1
        BY <3>1 DEF d
      <4> QED
        BY <1>4, <1>7, <2>1, <3>1, <4>1, Basics
    <3>2. CASE ~(t = a /\ k = 1 /\ s # ReadC)
      BY <1>6, <2>1, <3>2
    <3> QED
      BY <3>1, <3>2
  <2>2. d \in Nat
    BY DEF d
  <2>3. \A t, u \in Terms : \A k, m \in Nat : t = u /\ Old(t, k) = Old(u, m) => k = m
    BY <2>2
  <2> HIDE DEF Old
  <2>4. ASSUME NEW t \in Terms, NEW u \in Terms, NEW k \in Nat, NEW m \in Nat,
               Entry(t, k)', handler'[t][k] < SelectC,
               Entry(u, m)', handler'[u][m] < SelectC
        PROVE  t = u /\ k = m
    <3>1. t = u /\ Old(t, k) = Old(u, m)
      BY <2>1, <2>4 DEF RtcInv, OneBeforeEOI
    <3> QED
      BY <2>3, <3>1
  <2> QED
    BY <2>4 DEF OneBeforeEOI, SelectC
<1>11. ASSUME NEW t \in Terms PROVE Covered(t)'
  <2>1. owed[t] \in Int /\ Covered(t) /\ owed'[t] = owed[t]
    BY <1>1 DEF RtcInv, TypeOK
  <2>2. Coming(t)' => Coming(t)
    <3>1. ASSUME NEW u \in Terms, NEW k \in Nat, Entry(u, k)', handler'[u][k] <= t
          PROVE  Coming(t)
      <4>1. CASE u = a /\ k = 1 /\ s # ReadC
        <5>1. s + 1 <= t /\ t \in Nat
          BY <1>7, <3>1, <4>1, Basics
        <5>2. s <= t
          BY <1>4, <5>1
        <5>3. Entry(a, 1) /\ handler[a][1] <= t
          BY <1>7, <5>2
        <5> QED
          BY <1>2, <5>3 DEF Coming
      <4>2. CASE ~(u = a /\ k = 1 /\ s # ReadC)
        BY <1>6, <3>1, <4>2 DEF Coming
      <4> QED
        BY <4>1, <4>2
    <3> QED
      BY <3>1 DEF Coming
  <2>3. CASE t = s
    <3>1. Coming(t)
      BY <1>2, <1>4, <1>7, <2>3 DEF Coming
    <3>2. ASSUME NEW u \in Terms, NEW k \in Nat, Entry(u, k)', handler'[u][k] <= t
          PROVE  FALSE
      <4>1. s # ReadC /\ s < SelectC
        BY <2>3, Basics
      <4>2. ~(u = a /\ k = 1)
        BY <1>4, <1>7, <2>3, <3>2, <4>1
      <4>3. d = 0
        BY <4>1 DEF d
      <4>4. Entry(u, k) /\ handler'[u][k] = handler[u][k]
        BY <1>6, <3>2, <4>2, <4>3
      <4>5. handler[u][k] < SelectC
        BY <1>8, <2>3, <3>2, <4>1, <4>4, Basics
      <4> QED
        BY <1>2, <1>7, <4>1, <4>2, <4>4, <4>5 DEF RtcInv, OneBeforeEOI
    <3>3. ~Coming(t)'
      BY <3>2 DEF Coming
    <3> QED
      BY <2>1, <3>1, <3>3 DEF Covered
  <2>4. CASE t # s
    <3>1. Seen(t)' <=> Seen(t)
      BY <1>1, <2>4 DEF Seen
    <3> QED
      BY <2>1, <2>2, <3>1 DEF Covered
  <2> QED
    BY <2>3, <2>4
<1> QED
  BY <1>9, <1>10, <1>11 DEF RtcInv

(* A read that returns takes one, and with the flag cleared cannot take it *)
(* again.                                                                  *)
LEMMA ReadResetKeeps == ASSUME RtcInv, NEW t \in Terms, ReadReset(t) PROVE RtcInv'
<1> DEFINE c == [NoCall EXCEPT !.pc = "returned"]
<1>1. /\ call[t].pc = "reset" /\ call' = [call EXCEPT ![t] = c]
      /\ interrupt_flag' = [interrupt_flag EXCEPT ![t] = 0]
      /\ owed' = [owed EXCEPT ![t] = @ - 1]
      /\ UNCHANGED << active_task, handler, index, raised, regA, crossed >>
  BY DEF ReadReset, At, Enter
<1>2. c \in CallType /\ c.pc = "returned"
  BY EnterType DEF Pcs, NoCall
<1>3. TypeOK' /\ call' \in [Terms -> CallType]
  <2>1. call' \in [Terms -> CallType]
    BY <1>1, <1>2 DEF RtcInv, TypeOK, CallType, Pcs
  <2>2. interrupt_flag' \in [Terms -> {0, 1}] /\ owed' \in [Terms -> Int]
    BY <1>1 DEF RtcInv, TypeOK
  <2> QED
    BY <1>1, <2>1, <2>2 DEF RtcInv, TypeOK, CallType, Pcs, TableRates, Steps, ReadC
<1>4. OneBeforeEOI'
  BY <1>1 DEF RtcInv, OneBeforeEOI, Entry, SelectC
<1>5. ASSUME NEW s \in Terms PROVE Covered(s)'
  <2>1. owed[s] \in Int /\ Covered(s) /\ (Coming(s)' <=> Coming(s))
    BY <1>1 DEF RtcInv, TypeOK, Coming, Entry
  <2>2. CASE s = t
    <3>1. Seen(s)
      BY <1>1, <2>2 DEF Seen
    <3>2. ~Seen(s)' /\ owed'[s] = owed[s] - 1
      BY <1>1, <1>2, <2>2 DEF Seen, RtcInv, TypeOK
    <3> QED
      BY <2>1, <3>1, <3>2 DEF Covered
  <2>3. CASE s # t
    <3>1. (Seen(s)' <=> Seen(s)) /\ owed'[s] = owed[s]
      BY <1>1, <2>3 DEF Seen, RtcInv, TypeOK
    <3> QED
      BY <2>1, <3>1 DEF Covered
  <2> QED
    BY <2>2, <2>3
<1> QED
  BY <1>3, <1>4, <1>5 DEF RtcInv

(* The other steps of the system calls. *)
LEMMA OtherCallsKeep ==
    ASSUME RtcInv, NEW t \in Terms,
           \/ ReadStart(t) \/ ReadSpin(t) \/ WriteStart(t) \/ WriteSelect(t)
           \/ WriteGet(t) \/ WritePut(t) \/ Return(t)
    PROVE  RtcInv'
<1>1. call[t] \in CallType /\ call = [s \in Terms |-> call[s]]
  BY DEF RtcInv
<1>2. index \in {"A", "B", "C"}
      /\ regA \in [upper : {"divider", "flags"}, code : 0..15]
      /\ raised' \in BOOLEAN /\ crossed' \in BOOLEAN
  BY DEF RtcInv, TypeOK, ReadStart, ReadSpin, WriteStart, WriteSelect, WriteGet,
         WritePut, Return
<1>3. CASE ReadStart(t)
  <2>1. [NoCall EXCEPT !.pc = "spin"] \in CallType
    BY EnterType DEF Pcs
  <2> QED
    BY <1>2, <1>3, <2>1, CallStepKeeps DEF ReadStart, Enter, NoCall
<1>4. CASE ReadSpin(t)
  <2>1. Seen(t)
    BY <1>4 DEF ReadSpin, Seen, RtcInv, TypeOK
  <2>2. [call[t] EXCEPT !.pc = "reset"] \in CallType
    BY <1>1 DEF CallType, Pcs
  <2>3. call' = [call EXCEPT ![t] = [call[t] EXCEPT !.pc = "reset"]]
    BY <1>1, <1>4 DEF ReadSpin, Goto
  <2> QED
    BY <1>2, <1>4, <2>1, <2>2, <2>3, CallStepKeeps DEF ReadSpin
<1>5. CASE WriteStart(t)
  <2>1. PICK rate \in TableRates : call' = [call EXCEPT ![t] =
                                [NoCall EXCEPT !.pc = "select", !.rate = rate]]
    BY <1>5 DEF WriteStart, TableRates
  <2> DEFINE c == [NoCall EXCEPT !.pc = "select", !.rate = rate]
  <2>2. c \in CallType /\ c.pc = "select"
    BY DEF NoCall, CallType, Pcs
  <2> HIDE DEF c
  <2> QED
    BY <1>2, <1>5, <2>1, <2>2, CallStepKeeps DEF WriteStart, c
<1>6. CASE WriteSelect(t)
  <2>1. PICK pc \in {"get", "put", "returned"} :
            call' = [call EXCEPT ![t] = [call[t] EXCEPT !.pc = pc]]
    BY <1>1, <1>6 DEF WriteSelect, Goto
  <2> DEFINE c == [call[t] EXCEPT !.pc = pc]
  <2>2. c \in CallType /\ c.pc = pc
    BY <1>1 DEF CallType, Pcs
  <2> HIDE DEF c
  <2> QED
    BY <1>2, <1>6, <2>1, <2>2, CallStepKeeps DEF WriteSelect, c
<1>7. CASE WriteGet(t)
  <2>1. PICK prev \in {"divider", "flags"} :
            call' = [call EXCEPT ![t] = [call[t] EXCEPT !.pc = "reselect",
                                                        !.previous = prev]]
    BY <1>1, <1>2, <1>7 DEF WriteGet
  <2> DEFINE c == [call[t] EXCEPT !.pc = "reselect", !.previous = prev]
  <2>2. c \in CallType /\ c.pc = "reselect"
    BY <1>1 DEF CallType, Pcs
  <2> HIDE DEF c
  <2> QED
    BY <1>2, <1>7, <2>1, <2>2, CallStepKeeps DEF WriteGet, c
<1>8. CASE WritePut(t)
  <2> DEFINE c == [NoCall EXCEPT !.pc = "unmask"]
  <2>1. c \in CallType /\ c.pc = "unmask"
    BY EnterType DEF Pcs, NoCall
  <2> HIDE DEF c
  <2>2. regA' \in [upper : {"divider", "flags"}, code : 0..15]
    <3>1. OutRate(call[t].rate) \in 0..15 /\ call[t].previous \in {"divider", "flags"}
      BY <1>1, TableIsRight DEF CallType, TableRates
    <3> QED
      BY <1>2, <1>8, <3>1 DEF WritePut
  <2> QED
    BY <1>2, <1>8, <2>1, <2>2, CallStepKeeps DEF WritePut, Enter, c
<1>9. CASE Return(t)
  <2>1. [NoCall EXCEPT !.pc = "none"] \in CallType
    BY EnterType DEF Pcs
  <2> QED
    BY <1>2, <1>9, <2>1, CallStepKeeps DEF Return, Enter, NoCall
<1> QED
  BY <1>3, <1>4, <1>5, <1>6, <1>7, <1>8, <1>9

(* Every step keeps the invariant. *)
LEMMA NextRtc == RtcInv /\ [Next]_vars => RtcInv'
<1> SUFFICES ASSUME RtcInv, [Next]_vars PROVE RtcInv'
  OBVIOUS
<1>1. CASE UNCHANGED vars
  BY <1>1 DEF vars, RtcInv, TypeOK, OneBeforeEOI, Entry, Covered, Seen, Coming,
              Steps, SelectC, ReadC
<1>2. CASE Irq
  BY <1>2, IrqKeeps
<1>3. CASE rtc_handler
  BY <1>3, HandlerKeeps
<1>4. ASSUME NEW t \in Terms, ReadReset(t) PROVE RtcInv'
  BY <1>4, ReadResetKeeps
<1>5. ASSUME NEW t \in Terms,
             \/ ReadStart(t) \/ ReadSpin(t) \/ WriteStart(t) \/ WriteSelect(t)
             \/ WriteGet(t) \/ WritePut(t) \/ Return(t)
      PROVE  RtcInv'
  BY <1>5, OtherCallsKeep
<1>6. CASE Tick
  <2>1. active_task' \in Terms
    BY <1>6, RtcAssumption, NextTask DEF Tick, Terms, RtcInv, TypeOK
  <2> QED
    BY <1>6, <2>1 DEF Tick, RtcInv, TypeOK, OneBeforeEOI, Entry, Covered, Seen,
                      Coming, Steps, SelectC, ReadC
<1> QED
  BY <1>1, <1>2, <1>3, <1>4, <1>5, <1>6 DEF Next, CallStep

(* For any number of terminals, and with the PIT free to switch tasks and  *)
(* the clock to interrupt between any two accesses: flags, ports and the calls of rtc_read and    *)
(* rtc_write keep their types; rtc_write looks its table up inside it.     *)
THEOREM RtcTypes == Spec => []TypeOK
<1>1. RtcInv => TypeOK
  BY DEF RtcInv
<1> QED
  BY <1>1, InitRtc, NextRtc, PTL DEF Spec

(* Under the same conditions no terminal's rtc_read returns twice for one  *)
(* interrupt, wherever handler and read cut into each other.               *)
THEOREM RtcNotTwice == Spec => []NoInterruptCountedTwice
<1>1. ASSUME RtcInv, NEW t \in Terms PROVE owed[t] >= 0
  <2>1. owed[t] \in Int /\ Covered(t)
    BY <1>1 DEF RtcInv, TypeOK
  <2> QED
    BY <2>1 DEF Covered
<1>2. RtcInv => NoInterruptCountedTwice
  BY <1>1 DEF NoInterruptCountedTwice
<1> QED
  BY <1>2, InitRtc, NextRtc, PTL DEF Spec

-----------------------------------------------------------------------------
(* The rate. *)

(* While no selections have crossed, register A is selected for every call *)
(* that is about to access it, although other calls and ticks may have come*)
(* since; nothing but the divider is read from it and written back.        *)
RateInv ==
    ~crossed => /\ regA.upper = "divider"
                /\ \A t \in Terms :
                      /\ call[t].previous = "divider"
                      /\ call[t].pc \in {"get", "put"} => index = "A"

(* Only the handler selects another register, and then they have crossed.  *)
LEMMA NextRate ==
    ASSUME RtcInv, RateInv, [Next]_vars
    PROVE  RateInv'
<1> USE DEF RtcInv, TypeOK
<1>1. CASE UNCHANGED vars
  BY <1>1 DEF vars, RateInv
<1>2. CASE Irq \/ Tick
  BY <1>2 DEF Irq, Tick, RateInv
<1>3. CASE rtc_handler
  <2>1. UNCHANGED << call, regA >> /\ (crossed => crossed')
    BY <1>3 DEF rtc_handler
  <2>2. CASE Head(handler[active_task]) = SelectC
    <3>1. ~crossed' => ~CallSelected
      BY <1>3, <2>2 DEF rtc_handler
    <3> QED
      BY <2>1, <3>1 DEF CallSelected, RateInv
  <2>3. CASE Head(handler[active_task]) # SelectC
    <3>1. index' = index
      BY <1>3, <2>3 DEF rtc_handler
    <3> QED
      BY <2>1, <3>1 DEF RateInv
  <2> QED
    BY <2>2, <2>3
<1>4. ASSUME NEW t \in Terms,
             \/ ReadStart(t) \/ WriteStart(t) \/ CallStep(t)
      PROVE  RateInv'
  <2> SUFFICES ASSUME ~crossed' PROVE RateInv'
    BY DEF RateInv
  <2>1. ~crossed
    BY <1>4 DEF ReadStart, WriteStart, CallStep, ReadSpin, ReadReset, WriteSelect,
                WriteGet, WritePut, Return
  <2>2. \A s \in Terms \ {t} : call'[s] = call[s]
    BY <1>4 DEF ReadStart, WriteStart, CallStep, ReadSpin, ReadReset,
                WriteSelect, WriteGet, WritePut, Return, Goto, Enter
  <2>3. index' = index \/ index' = "A"
    BY <1>4 DEF ReadStart, WriteStart, CallStep, ReadSpin, ReadReset, WriteSelect,
                WriteGet, WritePut, Return
  <2>4. /\ regA'.upper = "divider" /\ call'[t].previous = "divider"
        /\ call'[t].pc \in {"get", "put"} => index' = "A"
    <3>1. CASE ReadStart(t) \/ Return(t) \/ ReadReset(t)
      BY <2>1, <3>1 DEF ReadStart, Return, ReadReset, Enter, NoCall, RateInv
    <3>2. CASE WriteStart(t)
      BY <2>1, <3>2 DEF WriteStart, NoCall, RateInv
    <3>3. CASE ReadSpin(t)
      BY <2>1, <3>3 DEF ReadSpin, Goto, RateInv
    <3>4. CASE WriteSelect(t)
      BY <2>1, <3>4 DEF WriteSelect, Goto, RateInv
    <3>5. CASE WriteGet(t)
      BY <2>1, <3>5 DEF WriteGet, At, RateInv
    <3>6. CASE WritePut(t)
      BY <2>1, <3>6 DEF WritePut, At, Enter, NoCall, RateInv
    <3> QED
      BY <1>4, <3>1, <3>2, <3>3, <3>4, <3>5, <3>6 DEF CallStep
  <2> QED
    BY <2>1, <2>2, <2>3, <2>4 DEF RateInv
<1> QED
  BY <1>1, <1>2, <1>3, <1>4 DEF Next

(* Only rtc_write's own store ends its way through "put". *)
LEMMA PutWrites ==
    ASSUME RtcInv, RateInv, [Next]_vars, NEW t \in Terms,
           ~crossed, call[t].pc = "put", call'[t].pc = "unmask"
    PROVE  /\ regA'.upper = "divider"
           /\ Frequency(regA'.code) = call[t].rate
<1> USE DEF RtcInv, TypeOK
<1>1. call'[t] # call[t]
  OBVIOUS
<1>2. PICK s \in Terms : ReadStart(s) \/ WriteStart(s) \/ CallStep(s)
  BY <1>1 DEF Next, vars, Irq, rtc_handler, Tick
<1>3. s = t
  BY <1>1, <1>2 DEF ReadStart, WriteStart, CallStep, ReadSpin, ReadReset, WriteSelect,
                    WriteGet, WritePut, Return, Goto, Enter
<1>4. WritePut(t)
  BY <1>2, <1>3 DEF ReadStart, WriteStart, CallStep, ReadSpin, ReadReset, WriteSelect,
                    WriteGet, Return, At
<1>5. index = "A" /\ call[t].previous = "divider"
  BY DEF RateInv
<1>6. regA' = [upper |-> call[t].previous, code |-> OutRate(call[t].rate)]
  BY <1>4, <1>5 DEF WritePut
<1>7. IsRate(call[t].rate)
  BY DEF CallType, TableRates
<1> QED
  BY <1>5, <1>6, <1>7, TableIsRight

(* For any number of terminals and all rates of the table, with ticks,     *)
(* interrupts and other tasks' calls between any two accesses: the chip    *)
(* ticks at the rate that rtc_write asked for, divider in place, as long as*)
(* no selections have crossed.  So the handler's selection of register C   *)
(* is the only thing that can spoil a write.                               *)
THEOREM RtcRate == Spec => RateIsWritten
<1>1. Init => RateInv
  BY DEF Init, RateInv, NoCall
<1>2. RtcInv /\ RateInv /\ [Next]_vars => RateInv'
  BY NextRate
<1>3. RtcInv /\ RateInv /\ [Next]_vars =>
         [\A t \in Terms :
            ~crossed /\ call[t].pc = "put" /\ call'[t].pc = "unmask" =>
               /\ regA'.upper = "divider"
               /\ Frequency(regA'.code) = call[t].rate]_vars
  BY PutWrites
<1> QED
  BY <1>1, <1>2, <1>3, InitRtc, NextRtc, PTL DEF Spec, RateIsWritten
=============================================================================
