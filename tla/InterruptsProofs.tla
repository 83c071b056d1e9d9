-------------------------- MODULE InterruptsProofs --------------------------
(***************************************************************************)
(* Proofs about Interrupts, for every number of tasks and every set of     *)
(* keys.                                                                   *)
(***************************************************************************)
EXTENDS Interrupts, TLAPS, SequenceTheorems

-----------------------------------------------------------------------------
(* Start-up. *)

(* Every gate whose set_IDT_wrapper has been called is present. *)
GatesSet ==
    /\ boot \in Nat
    /\ \A n \in 1..(boot - 1) :
          BootSteps[n].do = "set_IDT_wrapper" => BootSteps[n].line \in present

(* What entry() calls, by number. *)
LEMMA BootOrder ==
    /\ \A n \in 1..8 : BootSteps[n].do # "sti"
    /\ BootSteps[3] = Step("set_IDT_wrapper", KB_IRQ)
    /\ BootSteps[6] = Step("set_IDT_wrapper", RTC_IRQ_ADDR)
    /\ BootSteps[8] = Step("set_IDT_wrapper", PIT_IRQ_NUM)
<1>1. /\ BootSteps[1].do # "sti" /\ BootSteps[2].do # "sti"
      /\ BootSteps[3].do # "sti" /\ BootSteps[4].do # "sti"
      /\ BootSteps[5].do # "sti" /\ BootSteps[6].do # "sti"
      /\ BootSteps[7].do # "sti" /\ BootSteps[8].do # "sti"
  BY DEF BootSteps, Step
<1> QED
  BY <1>1 DEF BootSteps, Step

LEMMA GatesKept == GatesSet /\ [Next]_vars => GatesSet'
<1> SUFFICES ASSUME GatesSet, [Next]_vars PROVE GatesSet'
  OBVIOUS
<1>1. CASE Boot
  <2>1. boot' = boot + 1 /\ present \subseteq present'
        /\ (BootSteps[boot].do = "set_IDT_wrapper" => BootSteps[boot].line \in present')
    BY <1>1 DEF Boot
  <2> QED
    BY <2>1 DEF GatesSet
<1>2. CASE UNCHANGED << boot, present >>
  BY <1>2 DEF GatesSet
<1>3. ASSUME ~Boot PROVE UNCHANGED << boot, present >>
  BY <1>3 DEF Next, vars, picVars, Tick, RtcInterrupt, KeyPressed, KeyReleased,
              KeyEvent, Deliver, Handler, kb_int_handler, rtc_handler, task_switch
<1> QED
  BY <1>1, <1>2, <1>3

(* Once interrupts are enabled, every line that may interrupt has a gate   *)
(* that is present, although each is enabled before its gate is set.       *)
THEOREM InterruptsGates == Spec => []GateReady
<1>1. Init => GatesSet
  BY DEF Init, GatesSet
<1>2. GatesSet => GateReady
  <2> SUFFICES ASSUME GatesSet, IntFlag PROVE Lines \subseteq present
    BY DEF GateReady
  <2>1. boot \in Nat /\ boot > 9
    <3>1. PICK n \in 1..(boot - 1) : BootSteps[n].do = "sti"
      BY DEF IntFlag, Booted
    <3>2. n \notin 1..8
      BY <3>1, BootOrder
    <3> QED
      BY <3>2 DEF GatesSet
  <2>2. 3 \in 1..(boot - 1) /\ 6 \in 1..(boot - 1) /\ 8 \in 1..(boot - 1)
    BY <2>1
  <2> QED
    BY <2>2, BootOrder DEF GatesSet, Lines, Step
<1> QED
  BY <1>1, <1>2, GatesKept, PTL DEF Spec

-----------------------------------------------------------------------------
(* EOIs. *)

Frame == [line : Lines, acked : BOOLEAN]
Slave == ICW3_SLAVE

\* Handler n on the stack of task u, of the stacks s, owes line l an EOI.
Owes(s, u, n, l) ==
    n \in 1..Len(s[u]) /\ s[u][n] = [line |-> l, acked |-> FALSE]

\* EoiOwed for stacks s and lines i in service, without sets of frames.
EoiParts(s, i) ==
    /\ i \subseteq Lines \cup {Slave}
    /\ Slave \in i <=> RTC_IRQ_ADDR \in i
    /\ \A l \in Lines : l \in i <=> \E u \in Tasks, n \in Nat : Owes(s, u, n, l)
    /\ \A l \in Lines, u \in Tasks, v \in Tasks, m \in Nat, n \in Nat :
          Owes(s, u, m, l) /\ Owes(s, v, n, l) => u = v /\ m = n

LEMMA LineNumbers ==
    /\ PIT_IRQ_NUM \in Lines /\ KB_IRQ \in Lines /\ RTC_IRQ_ADDR \in Lines
    /\ Slave \notin Lines
    /\ \A l \in Lines : Master(l) = IF l = RTC_IRQ_ADDR THEN Slave ELSE l
BY DEF PIT_IRQ_NUM, KB_IRQ, RTC_IRQ_ADDR, ICW3_SLAVE, Slave, Lines, Master

(* A handler sends its EOI. *)
LEMMA OneLess ==
    ASSUME NEW s, NEW s2, NEW i, EoiParts(s, i),
           NEW l \in Lines, NEW t \in Tasks, NEW m \in Nat, Owes(s, t, m, l),
           \A u \in Tasks, n \in Nat, k \in Lines :
              Owes(s2, u, n, k) <=> /\ Owes(s, u, n, k)
                                    /\ ~(u = t /\ n = m)
    PROVE  EoiParts(s2, i \ {l, Master(l)})
<1> DEFINE j == i \ {l, Master(l)}
<1>1. j \subseteq Lines \cup {Slave} /\ (Slave \in j <=> RTC_IRQ_ADDR \in j)
  BY LineNumbers DEF EoiParts
<1>2. \A k \in Lines : k \in j <=> k \in i /\ k # l
  BY LineNumbers
<1>3. \A k \in Lines : k # l => ~Owes(s, t, m, k)
  BY DEF Owes
<1>4. \A k \in Lines : k \in j <=> \E u \in Tasks, n \in Nat : Owes(s2, u, n, k)
  BY <1>2, <1>3 DEF EoiParts
<1>5. \A k \in Lines, u \in Tasks, v \in Tasks, p \in Nat, n \in Nat :
          Owes(s2, u, p, k) /\ Owes(s2, v, n, k) => u = v /\ p = n
  BY DEF EoiParts
<1> QED
  BY <1>1, <1>4, <1>5 DEF EoiParts

(* Nobody's debt changes. *)
LEMMA SameDebts ==
    ASSUME NEW s, NEW s2, NEW i, EoiParts(s, i),
           \A u \in Tasks, n \in Nat, k \in Lines :
              Owes(s2, u, n, k) <=> Owes(s, u, n, k)
    PROVE  EoiParts(s2, i)
BY DEF EoiParts

-----------------------------------------------------------------------------
(* The stacks. *)

LastOf(q) == q[Len(q)]
Without(q) == SubSeq(q, 1, Len(q) - 1)
Marked(q) == [q EXCEPT ![Len(q)] = [@ EXCEPT !.acked = TRUE]]

(* What the operations on a stack do to its frames. *)
LEMMA PushFrame ==
    ASSUME NEW q \in Seq(Frame), NEW f \in Frame
    PROVE  /\ Append(q, f) \in Seq(Frame) /\ Len(Append(q, f)) = Len(q) + 1
           /\ \A n \in 1..Len(q) : Append(q, f)[n] = q[n]
           /\ Append(q, f)[Len(q) + 1] = f
  OBVIOUS

LEMMA PopFrame ==
    ASSUME NEW q \in Seq(Frame), q # << >>
    PROVE  /\ Without(q) \in Seq(Frame) /\ Len(Without(q)) = Len(q) - 1
           /\ Len(q) \in Nat \ {0}
           /\ \A n \in 1..(Len(q) - 1) : Without(q)[n] = q[n]
<1>1. Len(q) \in Nat /\ Len(q) >= 1
  BY EmptySeq
<1> DEFINE k == Len(q) - 1
<1>2. /\ 1 \in Int /\ k \in Int /\ k \in 0..Len(q)
      /\ \A n \in 1..k : q[n] \in Frame
  BY <1>1, ElementOfSeq
<1> HIDE DEF k
<1>3. /\ SubSeq(q, 1, k) \in Seq(Frame)
      /\ Len(SubSeq(q, 1, k)) = IF 1 <= k THEN k - 1 + 1 ELSE 0
      /\ \A n \in 1..(k - 1 + 1) : SubSeq(q, 1, k)[n] = q[1 + n - 1]
  BY <1>2, SubSeqProperties
<1>4. \A n \in 1..k : SubSeq(q, 1, k)[n] = q[n]
  BY <1>1, <1>2, <1>3
<1>5. Len(SubSeq(q, 1, k)) = k
  BY <1>1, <1>2, <1>3
<1> QED
  BY <1>1, <1>3, <1>4, <1>5 DEF Without, k

LEMMA MarkedFrame ==
    ASSUME NEW f \in Frame
    PROVE  /\ [f EXCEPT !.acked = TRUE] \in Frame
           /\ [f EXCEPT !.acked = TRUE] = [line |-> f.line, acked |-> TRUE]
<1> DEFINE g == [f EXCEPT !.acked = TRUE]
<1>1. g \in Frame
  BY DEF Frame
<1>2. g.acked = TRUE /\ g.line = f.line
  BY DEF Frame
<1> HIDE DEF g
<1>3. g = [line |-> f.line, acked |-> TRUE]
  BY <1>1, <1>2 DEF Frame
<1> QED
  BY <1>1, <1>3 DEF g

LEMMA MarkFrame ==
    ASSUME NEW q \in Seq(Frame), q # << >>
    PROVE  /\ Marked(q) \in Seq(Frame) /\ Len(Marked(q)) = Len(q)
           /\ Marked(q) # << >>
           /\ Len(q) \in Nat \ {0}
           /\ \A n \in 1..(Len(q) - 1) : Marked(q)[n] = q[n]
           /\ LastOf(Marked(q)) = [line |-> LastOf(q).line, acked |-> TRUE]
<1>1. Len(q) \in Nat /\ Len(q) >= 1 /\ Len(q) \in 1..Len(q)
  BY EmptySeq
<1>2. q[Len(q)] \in Frame
  BY <1>1, ElementOfSeq
<1> DEFINE f == [q[Len(q)] EXCEPT !.acked = TRUE]
<1>3. f = [line |-> q[Len(q)].line, acked |-> TRUE] /\ f \in Frame
  BY <1>2, MarkedFrame
<1>4. Marked(q) = [q EXCEPT ![Len(q)] = f]
  BY DEF Marked
<1> HIDE DEF f
<1>5. Marked(q) \in Seq(Frame) /\ Len(Marked(q)) = Len(q)
  BY <1>1, <1>3, <1>4, ExceptSeq
<1>6. \A n \in 1..Len(q) : Marked(q)[n] = IF n = Len(q) THEN f ELSE q[n]
  BY <1>1, <1>3, <1>4, ExceptSeq
<1>7. Marked(q) # << >>
  BY <1>1, <1>5, EmptySeq
<1>8. \A n \in 1..(Len(q) - 1) : Marked(q)[n] = q[n]
  BY <1>1, <1>6
<1>9. LastOf(Marked(q)) = [line |-> LastOf(q).line, acked |-> TRUE]
  BY <1>1, <1>3, <1>5, <1>6 DEF LastOf
<1> QED
  BY <1>1, <1>5, <1>7, <1>8, <1>9

Stacks == [Tasks -> Seq(Frame)]
PushedOn(s, t, f) == [s EXCEPT ![t] = Append(@, f)]
MarkedOn(s, t) == [s EXCEPT ![t] = Marked(@)]
PoppedOn(s, t) == [s EXCEPT ![t] = Without(@)]

(* The same for all stacks: who owes what afterwards. *)
LEMMA PushDebts ==
    ASSUME NEW s \in Stacks, NEW t \in Tasks, NEW l \in Lines
    PROVE  LET s2 == PushedOn(s, t, [line |-> l, acked |-> FALSE])
           IN  /\ s2 \in Stacks
               /\ Len(s[t]) + 1 \in Nat
               /\ \A u \in Tasks, n \in Nat, k \in Lines :
                     Owes(s2, u, n, k) <=> \/ Owes(s, u, n, k)
                                           \/ u = t /\ n = Len(s[t]) + 1 /\ k = l
<1> DEFINE f == [line |-> l, acked |-> FALSE]
           s2 == PushedOn(s, t, f)
<1>1. f \in Frame
  BY DEF Frame
<1>2. s[t] \in Seq(Frame) /\ Len(s[t]) \in Nat
  BY LenProperties DEF Stacks
<1>3. /\ s2[t] \in Seq(Frame) /\ Len(s2[t]) = Len(s[t]) + 1
      /\ \A n \in 1..Len(s[t]) : s2[t][n] = s[t][n]
      /\ s2[t][Len(s[t]) + 1] = f
  <2>1. s2[t] = Append(s[t], f)
    BY DEF PushedOn, Stacks
  <2> HIDE DEF f, s2
  <2> QED
    BY <1>1, <1>2, <2>1, PushFrame
<1>4. \A u \in Tasks \ {t} : s2[u] = s[u]
  BY DEF PushedOn, Stacks
<1>5. s2 \in Stacks
  BY <1>1, <1>2, <1>3, PushFrame DEF PushedOn, Stacks
<1>6. \A k \in Lines : f = [line |-> k, acked |-> FALSE] <=> k = l
  OBVIOUS
<1> HIDE DEF f, s2
<1>7. ASSUME NEW n \in Nat, NEW k \in Lines
      PROVE  Owes(s2, t, n, k) <=> Owes(s, t, n, k) \/ (n = Len(s[t]) + 1 /\ k = l)
  <2>1. n \in 1..Len(s2[t]) <=> n \in 1..Len(s[t]) \/ n = Len(s[t]) + 1
    BY <1>2, <1>3
  <2>2. n \in 1..Len(s[t]) => n # Len(s[t]) + 1
    BY <1>2
  <2> QED
    BY <1>3, <1>6, <2>1, <2>2 DEF Owes
<1>8. \A u \in Tasks \ {t}, n \in Nat, k \in Lines :
         Owes(s2, u, n, k) <=> Owes(s, u, n, k)
  BY <1>4 DEF Owes
<1>9. \A u \in Tasks, n \in Nat, k \in Lines :
         Owes(s2, u, n, k) <=> \/ Owes(s, u, n, k)
                               \/ u = t /\ n = Len(s[t]) + 1 /\ k = l
  BY <1>7, <1>8
<1>10. Len(s[t]) + 1 \in Nat
  BY <1>2
<1> QED
  BY <1>5, <1>9, <1>10 DEF f, s2

(* A handler starts. *)
LEMMA OneMore ==
    ASSUME NEW s \in Stacks, NEW i, EoiParts(s, i),
           NEW t \in Tasks, NEW l \in Lines, l \notin i
    PROVE  EoiParts(PushedOn(s, t, [line |-> l, acked |-> FALSE]),
                    i \cup {l, Master(l)})
<1> DEFINE s2 == PushedOn(s, t, [line |-> l, acked |-> FALSE])
           m == Len(s[t]) + 1
           j == i \cup {l, Master(l)}
<1>1. /\ m \in Nat
      /\ \A u \in Tasks, n \in Nat, k \in Lines :
            Owes(s2, u, n, k) <=> \/ Owes(s, u, n, k)
                                  \/ u = t /\ n = m /\ k = l
  BY PushDebts
<1> HIDE DEF s2, m
<1>2. j \subseteq Lines \cup {Slave} /\ (Slave \in j <=> RTC_IRQ_ADDR \in j)
  BY LineNumbers DEF EoiParts
<1>3. \A k \in Lines : k \in j <=> k \in i \/ k = l
  BY LineNumbers
<1>4. \A k \in Lines : k \in j <=> \E u \in Tasks, n \in Nat : Owes(s2, u, n, k)
  BY <1>1, <1>3 DEF EoiParts
<1>5. \A k \in Lines, u \in Tasks, v \in Tasks, p \in Nat, n \in Nat :
          Owes(s2, u, p, k) /\ Owes(s2, v, n, k) => u = v /\ p = n
  BY <1>1 DEF EoiParts
<1> QED
  BY <1>2, <1>4, <1>5 DEF EoiParts, s2

LEMMA MarkDebts ==
    ASSUME NEW s \in Stacks, NEW t \in Tasks, s[t] # << >>
    PROVE  LET s2 == MarkedOn(s, t)
           IN  /\ s2 \in Stacks
               /\ s2[t] # << >>
               /\ LastOf(s2[t]) = [line |-> LastOf(s[t]).line, acked |-> TRUE]
               /\ \A u \in Tasks \ {t} : s2[u] = s[u]
               /\ \A u \in Tasks, n \in Nat, k \in Lines :
                     Owes(s2, u, n, k) <=> /\ Owes(s, u, n, k)
                                           /\ ~(u = t /\ n = Len(s[t]))
<1> DEFINE s2 == MarkedOn(s, t)
<1>1. s[t] \in Seq(Frame) /\ s2[t] = Marked(s[t])
  BY DEF Stacks, MarkedOn
<1>2. /\ s2[t] \in Seq(Frame) /\ Len(s2[t]) = Len(s[t]) /\ Len(s[t]) \in Nat \ {0}
      /\ \A n \in 1..(Len(s[t]) - 1) : s2[t][n] = s[t][n]
      /\ LastOf(s2[t]) = [line |-> LastOf(s[t]).line, acked |-> TRUE]
      /\ s2[t] # << >>
  BY <1>1, MarkFrame
<1>3. \A u \in Tasks \ {t} : s2[u] = s[u]
  BY DEF MarkedOn, Stacks
<1>4. s2 \in Stacks
  BY <1>1, <1>2 DEF MarkedOn, Stacks
<1> HIDE DEF s2
<1>5. ASSUME NEW n \in Nat, NEW k \in Lines
      PROVE  Owes(s2, t, n, k) <=> Owes(s, t, n, k) /\ n # Len(s[t])
  <2>1. n \in 1..Len(s2[t]) /\ n # Len(s[t]) <=> n \in 1..(Len(s[t]) - 1)
    BY <1>2
  <2>2. n \in 1..Len(s2[t]) <=> n \in 1..Len(s[t])
    BY <1>2
  <2>3. LastOf(s2[t]) # [line |-> k, acked |-> FALSE]
    BY <1>2
  <2> QED
    BY <1>2, <2>1, <2>2, <2>3 DEF Owes, LastOf
<1>6. \A u \in Tasks \ {t}, n \in Nat, k \in Lines :
         Owes(s2, u, n, k) <=> Owes(s, u, n, k)
  BY <1>3 DEF Owes
<1> QED
  BY <1>2, <1>3, <1>4, <1>5, <1>6 DEF s2

LEMMA PopDebts ==
    ASSUME NEW s \in Stacks, NEW t \in Tasks, s[t] # << >>
    PROVE  LET s2 == PoppedOn(s, t)
           IN  /\ s2 \in Stacks
               /\ \A u \in Tasks \ {t} : s2[u] = s[u]
               /\ \A u \in Tasks, n \in Nat, k \in Lines :
                     Owes(s2, u, n, k) <=> /\ Owes(s, u, n, k)
                                           /\ ~(u = t /\ n = Len(s[t]))
<1> DEFINE s2 == PoppedOn(s, t)
<1>1. s[t] \in Seq(Frame) /\ s2[t] = Without(s[t])
  BY DEF Stacks, PoppedOn
<1>2. /\ s2[t] \in Seq(Frame) /\ Len(s2[t]) = Len(s[t]) - 1
      /\ Len(s[t]) \in Nat \ {0}
      /\ \A n \in 1..(Len(s[t]) - 1) : s2[t][n] = s[t][n]
  BY <1>1, PopFrame
<1>3. \A u \in Tasks \ {t} : s2[u] = s[u]
  BY DEF PoppedOn, Stacks
<1>4. s2 \in Stacks
  BY <1>1, <1>2 DEF PoppedOn, Stacks
<1> HIDE DEF s2
<1>5. ASSUME NEW n \in Nat, NEW k \in Lines
      PROVE  Owes(s2, t, n, k) <=> Owes(s, t, n, k) /\ n # Len(s[t])
  <2>1. n \in 1..Len(s2[t]) <=> n \in 1..Len(s[t]) /\ n # Len(s[t])
    BY <1>2
  <2> QED
    BY <1>2, <2>1 DEF Owes
<1>6. \A u \in Tasks \ {t}, n \in Nat, k \in Lines :
         Owes(s2, u, n, k) <=> Owes(s, u, n, k)
  BY <1>3 DEF Owes
<1> QED
  BY <1>3, <1>4, <1>5, <1>6 DEF s2

(* What the actions do to the stacks, in these terms. *)
LEMMA StackOps ==
    ASSUME stack \in Stacks, NEW t \in Tasks
    PROVE  /\ Acked(t) = MarkedOn(stack, t)
           /\ Popped(t) = PoppedOn(stack, t)
<1>1. Popped(t) = PoppedOn(stack, t)
  BY DEF Popped, PoppedOn, Without
<1>2. Acked(t) = [stack EXCEPT ![t] = [stack[t] EXCEPT ![Len(stack[t])] =
                     [stack[t][Len(stack[t])] EXCEPT !.acked = TRUE]]]
  BY DEF Acked
<1> QED
  BY <1>1, <1>2 DEF MarkedOn, Marked

-----------------------------------------------------------------------------
(* The invariant.  A task that waits for its turn is in task_switch, whose *)
(* EOI has been sent: taking that frame away forgets no debt.              *)

Parked ==
    \A t \in launched \ {active_task} :
        /\ stack[t] # << >>
        /\ LastOf(stack[t]) = [line |-> PIT_IRQ_NUM, acked |-> TRUE]

EoiInv ==
    /\ stack \in Stacks
    /\ active_task \in Tasks /\ launched \subseteq Tasks
    /\ EoiParts(stack, in_service)
    /\ Parked

LEMMA EoiInvSuffices == EoiInv => EoiOwed
<1> SUFFICES ASSUME EoiInv PROVE EoiOwed
  OBVIOUS
<1>1. \A t \in Tasks : Len(stack[t]) \in Nat
  BY LenProperties DEF EoiInv, Stacks
<1>2. \A l \in Lines : \A f : f \in Owing(l) <=>
         \E t \in Tasks, n \in Nat : f = << t, n >> /\ Owes(stack, t, n, l)
  <2> SUFFICES ASSUME NEW l \in Lines, NEW f
               PROVE  f \in Owing(l) <=> \E t \in Tasks, n \in Nat :
                                            f = << t, n >> /\ Owes(stack, t, n, l)
    OBVIOUS
  <2>1. f \in Frames <=> \E t \in Tasks, n \in Nat :
                            f = << t, n >> /\ n \in 1..Len(stack[t])
    BY <1>1 DEF Frames
  <2>2. \A t \in Tasks, n \in Nat : f = << t, n >> => f[1] = t /\ f[2] = n
    OBVIOUS
  <2> QED
    BY <2>1, <2>2 DEF Owing, Owes
<1>3. in_service \ {ICW3_SLAVE} = {l \in Lines : Owing(l) # {}}
  <2>1. \A l \in Lines : l \in in_service <=> Owing(l) # {}
    BY <1>2 DEF EoiInv, EoiParts
  <2> QED
    BY <2>1, LineNumbers DEF EoiInv, EoiParts, Slave
<1>4. (ICW3_SLAVE \in in_service) = (RTC_IRQ_ADDR \in in_service)
  BY DEF EoiInv, EoiParts, Slave
<1>5. \A l \in Lines : \A f, g \in Owing(l) : f = g
  BY <1>2 DEF EoiInv, EoiParts
<1> QED
  BY <1>3, <1>4, <1>5 DEF EoiOwed

(* A step that leaves the stacks of the other tasks alone keeps them       *)
(* parked.                                                                 *)
LEMMA OthersParked ==
    ASSUME EoiInv, UNCHANGED << active_task, launched >>,
           \A u \in Tasks \ {active_task} : stack'[u] = stack[u]
    PROVE  Parked'
<1>1. launched \subseteq Tasks /\ Parked
  BY DEF EoiInv
<1>2. \A u \in launched \ {active_task} : stack'[u] = stack[u]
  BY <1>1
<1> QED
  BY <1>1, <1>2 DEF Parked

(* The controllers raise an interrupt only for a line that is not in       *)
(* service.                                                                *)
LEMMA DeliverKeeps ==
    ASSUME EoiInv, NEW line \in Lines, Deliver(line) PROVE EoiInv'
<1> DEFINE t == active_task
           f == [line |-> line, acked |-> FALSE]
<1>1. line \notin in_service
  BY DEF Deliver, Requesting, Lines, Master, PIT_IRQ_NUM, KB_IRQ, RTC_IRQ_ADDR
<1>2. t \in Tasks /\ stack \in Stacks /\ EoiParts(stack, in_service)
      /\ launched \subseteq Tasks
  BY DEF EoiInv
<1>3. /\ stack' = PushedOn(stack, t, f)
      /\ in_service' = in_service \cup {line, Master(line)}
      /\ UNCHANGED << active_task, launched >>
  BY DEF Deliver, PushedOn
<1>4. /\ stack' \in Stacks /\ Len(stack[t]) + 1 \in Nat
      /\ \A u \in Tasks, n \in Nat, k \in Lines :
            Owes(stack', u, n, k) <=>
               \/ Owes(stack, u, n, k)
               \/ u = t /\ n = Len(stack[t]) + 1 /\ k = line
  BY <1>2, <1>3, PushDebts
<1> HIDE DEF t
<1>5. EoiParts(stack', in_service \cup {line, Master(line)})
  BY <1>1, <1>2, <1>3, OneMore
<1>6. \A u \in Tasks \ {t} : stack'[u] = stack[u]
  BY <1>2, <1>3 DEF PushedOn, Stacks
<1>7. Parked'
  BY <1>3, <1>6, OthersParked DEF t
<1> QED
  BY <1>2, <1>3, <1>4, <1>5, <1>7 DEF EoiInv, t

(* The frame a handler works in. *)
LEMMA TopFrame ==
    ASSUME EoiInv, NEW t \in Tasks, NEW line \in Lines, NEW acked \in BOOLEAN,
           Handling(t, line, acked)
    PROVE  /\ t = active_task /\ stack \in Stacks /\ stack[t] # << >>
           /\ EoiParts(stack, in_service) /\ launched \subseteq Tasks
           /\ Len(stack[t]) \in Nat /\ Len(stack[t]) \in 1..Len(stack[t])
           /\ LastOf(stack[t]) = [line |-> line, acked |-> acked]
           /\ acked = FALSE => Owes(stack, t, Len(stack[t]), line)
           /\ acked = TRUE => \A k \in Lines : ~Owes(stack, t, Len(stack[t]), k)
<1>1. /\ t = active_task /\ stack \in Stacks /\ stack[t] # << >>
      /\ EoiParts(stack, in_service) /\ launched \subseteq Tasks
      /\ LastOf(stack[t]) = [line |-> line, acked |-> acked]
  BY DEF Handling, EoiInv, Top, LastOf
<1>2. Len(stack[t]) \in Nat /\ Len(stack[t]) \in 1..Len(stack[t])
  <2>1. stack[t] \in Seq(Frame)
    BY <1>1 DEF Stacks
  <2> QED
    BY <1>1, <2>1, EmptySeq
<1>3. acked = FALSE => Owes(stack, t, Len(stack[t]), line)
  BY <1>1, <1>2 DEF Owes, LastOf
<1>4. acked = TRUE => \A k \in Lines : ~Owes(stack, t, Len(stack[t]), k)
  BY <1>1 DEF Owes, LastOf
<1> QED
  BY <1>1, <1>2, <1>3, <1>4

(* A handler acknowledges. *)
LEMMA AckKeeps ==
    ASSUME EoiInv, NEW t \in Tasks, NEW line \in Lines,
           Handling(t, line, FALSE), send_eoi(line), stack' = Acked(t)
    PROVE  /\ stack' \in Stacks /\ EoiParts(stack', in_service')
           /\ \A u \in Tasks \ {t} : stack'[u] = stack[u]
           /\ stack'[t] # << >>
           /\ LastOf(stack'[t]) = [line |-> line, acked |-> TRUE]
<1>1. /\ stack \in Stacks /\ stack[t] # << >> /\ EoiParts(stack, in_service)
      /\ Len(stack[t]) \in Nat /\ Owes(stack, t, Len(stack[t]), line)
      /\ LastOf(stack[t]) = [line |-> line, acked |-> FALSE]
  BY TopFrame
<1>2. stack' = MarkedOn(stack, t)
  BY <1>1, StackOps
<1>3. /\ stack' \in Stacks /\ stack'[t] # << >>
      /\ LastOf(stack'[t]) = [line |-> line, acked |-> TRUE]
      /\ \A u \in Tasks \ {t} : stack'[u] = stack[u]
      /\ \A u \in Tasks, n \in Nat, k \in Lines :
            Owes(stack', u, n, k) <=> /\ Owes(stack, u, n, k)
                                      /\ ~(u = t /\ n = Len(stack[t]))
  BY <1>1, <1>2, MarkDebts
<1>4. in_service' = in_service \ {line, Master(line)}
  BY DEF send_eoi
<1>5. EoiParts(stack', in_service')
  BY <1>1, <1>3, <1>4, OneLess
<1> QED
  BY <1>3, <1>5

(* A handler that has acknowledged returns. *)
LEMMA ReturnKeeps ==
    ASSUME EoiInv, NEW t \in Tasks, NEW line \in Lines,
           Handling(t, line, TRUE), stack' = Popped(t), UNCHANGED in_service
    PROVE  /\ stack' \in Stacks /\ EoiParts(stack', in_service')
           /\ \A u \in Tasks \ {t} : stack'[u] = stack[u]
<1>1. /\ stack \in Stacks /\ stack[t] # << >> /\ EoiParts(stack, in_service)
      /\ \A k \in Lines : ~Owes(stack, t, Len(stack[t]), k)
  BY TopFrame
<1>2. stack' = PoppedOn(stack, t)
  BY <1>1, StackOps
<1>3. /\ stack' \in Stacks
      /\ \A u \in Tasks \ {t} : stack'[u] = stack[u]
      /\ \A u \in Tasks, n \in Nat, k \in Lines :
            Owes(stack', u, n, k) <=> /\ Owes(stack, u, n, k)
                                      /\ ~(u = t /\ n = Len(stack[t]))
  BY <1>1, <1>2, PopDebts
<1>4. \A u \in Tasks, n \in Nat, k \in Lines :
         Owes(stack', u, n, k) <=> Owes(stack, u, n, k)
  BY <1>1, <1>3
<1>5. EoiParts(stack', in_service)
  BY <1>1, <1>4, SameDebts
<1> QED
  BY <1>3, <1>5

LEMMA DeviceHandlersKeep ==
    ASSUME EoiInv, NEW t \in Tasks, kb_int_handler(t) \/ rtc_handler(t)
    PROVE  EoiInv'
<1>1. UNCHANGED << active_task, launched >>
  BY DEF kb_int_handler, rtc_handler
<1>2. PICK line \in Lines :
         \/ Handling(t, line, FALSE) /\ send_eoi(line) /\ stack' = Acked(t)
         \/ Handling(t, line, TRUE) /\ stack' = Popped(t) /\ UNCHANGED in_service
  BY LineNumbers DEF kb_int_handler, rtc_handler
<1>3. t = active_task
  BY <1>2 DEF Handling
<1>4. /\ stack' \in Stacks /\ EoiParts(stack', in_service')
      /\ \A u \in Tasks \ {t} : stack'[u] = stack[u]
  BY <1>2, AckKeeps, ReturnKeeps
<1>5. Parked'
  BY <1>1, <1>3, <1>4, OthersParked
<1> QED
  BY <1>1, <1>4, <1>5 DEF EoiInv

(* The PIT's handler leaves for the stack of the next task, on which the   *)
(* frame of that task's own last tick is taken away.                       *)
LEMMA SwitchKeeps ==
    ASSUME EoiInv, NEW t \in Tasks, task_switch(t) PROVE EoiInv'
<1> DEFINE u == Incoming(t)
<1>1. /\ PIT_IRQ_NUM \in Lines /\ u \in Tasks
      /\ Handling(t, PIT_IRQ_NUM, FALSE) /\ send_eoi(PIT_IRQ_NUM)
  <2>1. MAX_TERM_N \in Nat \ {0}
    BY InterruptsAssumption
  <2>2. u \in Tasks
    BY <2>1 DEF Incoming, Tasks
  <2> QED
    BY <2>2, LineNumbers DEF task_switch
<1>2. /\ t = active_task /\ stack \in Stacks /\ stack[t] # << >>
      /\ EoiParts(stack, in_service) /\ launched \subseteq Tasks
      /\ Len(stack[t]) \in Nat /\ Owes(stack, t, Len(stack[t]), PIT_IRQ_NUM)
      /\ LastOf(stack[t]) = [line |-> PIT_IRQ_NUM, acked |-> FALSE]
  BY <1>1, TopFrame
<1>3. in_service' = in_service \ {PIT_IRQ_NUM, Master(PIT_IRQ_NUM)}
  BY <1>1 DEF send_eoi
<1> DEFINE s1 == MarkedOn(stack, t)
<1>4. /\ s1 = Acked(t) /\ s1 \in Stacks /\ s1[t] # << >>
      /\ LastOf(s1[t]) = [line |-> PIT_IRQ_NUM, acked |-> TRUE]
      /\ \A v \in Tasks \ {t} : s1[v] = stack[v]
      /\ \A v \in Tasks, n \in Nat, k \in Lines :
            Owes(s1, v, n, k) <=> /\ Owes(stack, v, n, k)
                                  /\ ~(v = t /\ n = Len(stack[t]))
  BY <1>2, StackOps, MarkDebts
<1> HIDE DEF s1, u
<1>5. EoiParts(s1, in_service')
  BY <1>1, <1>2, <1>3, <1>4, OneLess
<1>6. CASE t \notin launched
  <2>1. stack' = PoppedOn(stack, t) /\ UNCHANGED << active_task, launched >>
    BY <1>2, <1>6, StackOps DEF task_switch
  <2>2. /\ stack' \in Stacks
        /\ \A v \in Tasks \ {t} : stack'[v] = stack[v]
        /\ \A v \in Tasks, n \in Nat, k \in Lines :
              Owes(stack', v, n, k) <=> /\ Owes(stack, v, n, k)
                                        /\ ~(v = t /\ n = Len(stack[t]))
    BY <1>2, <2>1, PopDebts
  <2>3. EoiParts(stack', in_service')
    BY <1>1, <1>2, <1>3, <2>2, OneLess
  <2>4. Parked'
    BY <1>2, <2>1, <2>2, OthersParked
  <2> QED
    BY <1>2, <2>1, <2>2, <2>3, <2>4 DEF EoiInv
<1>7. ASSUME t \in launched, u \in launched PROVE EoiInv'
  <2>1. stack' = PoppedOn(s1, u) /\ active_task' = u /\ UNCHANGED launched
    BY <1>4, <1>7 DEF task_switch, PoppedOn, Without, u
  <2>2. s1[u] # << >> /\ LastOf(s1[u]) = [line |-> PIT_IRQ_NUM, acked |-> TRUE]
    BY <1>1, <1>2, <1>4, <1>7 DEF EoiInv, Parked
  <2>3. /\ stack' \in Stacks
        /\ \A v \in Tasks \ {u} : stack'[v] = s1[v]
        /\ \A v \in Tasks, n \in Nat, k \in Lines :
              Owes(stack', v, n, k) <=> /\ Owes(s1, v, n, k)
                                        /\ ~(v = u /\ n = Len(s1[u]))
    BY <1>1, <1>4, <2>1, <2>2, PopDebts
  <2>4. \A k \in Lines : ~Owes(s1, u, Len(s1[u]), k)
    BY <2>2 DEF Owes, LastOf
  <2>5. \A v \in Tasks, n \in Nat, k \in Lines :
           Owes(stack', v, n, k) <=> Owes(s1, v, n, k)
    BY <2>3, <2>4
  <2>6. EoiParts(stack', in_service')
    BY <1>5, <2>5, SameDebts
  <2>7. ASSUME NEW v \in launched \ {u}
        PROVE  /\ stack'[v] # << >>
               /\ LastOf(stack'[v]) = [line |-> PIT_IRQ_NUM, acked |-> TRUE]
    <3>1. stack'[v] = s1[v]
      BY <1>2, <2>3
    <3>2. CASE v = t
      BY <1>4, <3>1, <3>2
    <3>3. CASE v # t
      BY <1>2, <1>4, <3>1, <3>3 DEF EoiInv, Parked
    <3> QED
      BY <3>2, <3>3
  <2>8. Parked'
    BY <2>1, <2>7 DEF Parked
  <2> QED
    BY <1>1, <1>2, <2>1, <2>3, <2>6, <2>8 DEF EoiInv
<1>8. ASSUME t \in launched, u \notin launched PROVE EoiInv'
  <2>1. stack' = s1 /\ active_task' = u /\ launched' = launched \cup {u}
    BY <1>4, <1>8 DEF task_switch, u
  <2>2. ASSUME NEW v \in launched \ {u}
        PROVE  /\ s1[v] # << >>
               /\ LastOf(s1[v]) = [line |-> PIT_IRQ_NUM, acked |-> TRUE]
    <3>1. CASE v = t
      BY <1>4, <3>1
    <3>2. CASE v # t
      BY <1>2, <1>4, <3>2 DEF EoiInv, Parked
    <3> QED
      BY <3>1, <3>2
  <2>3. Parked'
    BY <2>1, <2>2 DEF Parked
  <2> QED
    BY <1>1, <1>2, <1>4, <1>5, <2>1, <2>3 DEF EoiInv
<1> QED
  BY <1>6, <1>7, <1>8

LEMMA EoiKept == EoiInv /\ [Next]_vars => EoiInv'
<1> SUFFICES ASSUME EoiInv, [Next]_vars PROVE EoiInv'
  OBVIOUS
<1>1. CASE UNCHANGED << in_service, stack, active_task, launched >>
  BY <1>1 DEF EoiInv, Parked
<1>2. CASE Boot
  <2>1. /\ active_task = 0 /\ UNCHANGED << in_service, stack, active_task >>
        /\ launched' = launched \/ launched' = {0}
    BY <1>2 DEF Boot
  <2>2. CASE launched' = launched
    BY <1>1, <2>1, <2>2
  <2>3. CASE launched' = {0}
    BY <2>1, <2>3 DEF EoiInv, Parked
  <2> QED
    BY <2>1, <2>2, <2>3
<1>3. CASE Tick \/ RtcInterrupt
  BY <1>1, <1>3 DEF Tick, RtcInterrupt
<1>4. ASSUME NEW code, KeyPressed(code) \/ KeyReleased(code) PROVE EoiInv'
  BY <1>1, <1>4 DEF KeyPressed, KeyReleased, KeyEvent
<1>5. CASE UNCHANGED vars
  BY <1>1, <1>5 DEF vars
<1> QED
  BY <1>2, <1>3, <1>4, <1>5, DeliverKeeps, DeviceHandlersKeep, SwitchKeeps
     DEF Next, Handler

(* A line is in service exactly while one handler of it has yet to send    *)
(* its EOI, on whichever stack: none is lost and none sent too often.      *)
THEOREM InterruptsEoi == Spec => []EoiOwed
<1>1. Init => EoiInv
  <2> SUFFICES ASSUME Init PROVE EoiInv
    OBVIOUS
  <2>1. 0 \in Tasks
    BY InterruptsAssumption DEF Tasks
  <2>2. stack = [t \in Tasks |-> << >>] /\ in_service = {} /\ launched = {}
        /\ active_task = 0
    BY DEF Init
  <2>3. stack \in Stacks
    BY <2>2, EmptySeq DEF Stacks
  <2>4. \A u \in Tasks, n \in Nat : \A l : ~Owes(stack, u, n, l)
    BY <2>2, EmptySeq DEF Owes
  <2>5. EoiParts(stack, in_service)
    BY <2>2, <2>4 DEF EoiParts
  <2> QED
    BY <2>1, <2>2, <2>3, <2>5 DEF EoiInv, Parked
<1> QED
  BY <1>1, EoiKept, EoiInvSuffices, PTL DEF Spec

-----------------------------------------------------------------------------
(* The modifier keys.  key_status is taken apart into its digits.  A digit *)
(* may be smaller than the number of presses, as the release of another    *)
(* modifier keeps only its lowest bit.                                     *)

Digits == 0..15
CapsBit(c) == IF c THEN 1 ELSE 0
Value(s, c, k, a) == s + 16 * c + 256 * k + 4096 * a

LEMMA BitsOfValue ==
    ASSUME NEW s \in Digits, NEW c \in 0..1, NEW k \in Digits, NEW a \in Digits
    PROVE  LET v == Value(s, c, k, a)
           IN  /\ v \in Nat
               /\ IsSet(v, SHIFT_FLAG) <=> s % 2 = 1
               /\ IsSet(v, CAPS_FLAG) <=> c = 1
               /\ IsSet(v, CTRL_FLAG) <=> k % 2 = 1
               /\ IsSet(v, ALT_FLAG) <=> a % 2 = 1
               /\ ~IsSet(v, FN_FLAG)
<1> DEFINE v == s + 16 * c + 256 * k + 4096 * a
<1>1. v \in Nat
  BY DEF Digits
<1>2. v \div 1 = v /\ v % 2 = s % 2
  BY DEF Digits
<1>3. v \div 16 = c + 16 * k + 256 * a /\ (c + 16 * k + 256 * a) % 2 = c
  BY DEF Digits
<1>4. v \div 256 = k + 16 * a /\ (k + 16 * a) % 2 = k % 2
  BY DEF Digits
<1>5. v \div 4096 = a
  BY DEF Digits
<1>6. v \div 65536 = 0
  BY DEF Digits
<1> HIDE DEF v
<1>7. /\ v \in Nat
      /\ IsSet(v, SHIFT_FLAG) <=> s % 2 = 1
      /\ IsSet(v, CAPS_FLAG) <=> c = 1
      /\ IsSet(v, CTRL_FLAG) <=> k % 2 = 1
      /\ IsSet(v, ALT_FLAG) <=> a % 2 = 1
      /\ ~IsSet(v, FN_FLAG)
  BY <1>1, <1>2, <1>3, <1>4, <1>5, <1>6
     DEF IsSet, SHIFT_FLAG, CAPS_FLAG, CTRL_FLAG, ALT_FLAG, FN_FLAG
<1> QED
  BY <1>7 DEF v, Value

(* The masks: a released digit is cleared, the others keep one bit. *)
LEMMA ReleaseValue ==
    ASSUME NEW s \in Digits, NEW c \in 0..1, NEW k \in Digits, NEW a \in Digits
    PROVE  LET v == Value(s, c, k, a)
           IN  /\ Release(v, SHIFT_FLAG) = Value(0, c, k % 2, a % 2)
               /\ Release(v, CTRL_FLAG) = Value(s % 2, c, 0, a % 2)
               /\ Release(v, ALT_FLAG) = Value(s % 2, c, k % 2, 0)
<1> DEFINE v == Value(s, c, k, a)
<1>1. /\ IsSet(v, SHIFT_FLAG) <=> s % 2 = 1
      /\ IsSet(v, CAPS_FLAG) <=> c = 1
      /\ IsSet(v, CTRL_FLAG) <=> k % 2 = 1
      /\ IsSet(v, ALT_FLAG) <=> a % 2 = 1
      /\ ~IsSet(v, FN_FLAG)
  BY BitsOfValue
<1>2. /\ s % 2 \in 0..1 /\ k % 2 \in 0..1 /\ a % 2 \in 0..1
  BY DEF Digits
<1> HIDE DEF v
<1> DEFINE s1 == s % 2
           k1 == k % 2
           a1 == a % 2
<1>3. s1 \in 0..1 /\ k1 \in 0..1 /\ a1 \in 0..1
  BY <1>2
<1>4. /\ IsSet(v, SHIFT_FLAG) <=> s1 = 1
      /\ IsSet(v, CTRL_FLAG) <=> k1 = 1
      /\ IsSet(v, ALT_FLAG) <=> a1 = 1
  BY <1>1
<1> HIDE DEF s1, k1, a1
<1>5. Release(v, SHIFT_FLAG) = Value(0, c, k1, a1)
  BY <1>1, <1>3, <1>4
     DEF Release, Value, SHIFT_FLAG, CAPS_FLAG, CTRL_FLAG, ALT_FLAG, FN_FLAG
<1>6. Release(v, CTRL_FLAG) = Value(s1, c, 0, a1)
  BY <1>1, <1>3, <1>4
     DEF Release, Value, SHIFT_FLAG, CAPS_FLAG, CTRL_FLAG, ALT_FLAG, FN_FLAG
<1>7. Release(v, ALT_FLAG) = Value(s1, c, k1, 0)
  BY <1>1, <1>3, <1>4
     DEF Release, Value, SHIFT_FLAG, CAPS_FLAG, CTRL_FLAG, ALT_FLAG, FN_FLAG
<1> QED
  BY <1>5, <1>6, <1>7 DEF v, s1, k1, a1

(* The cases of get_scan_code. *)
LEMMA StatusCases ==
    ASSUME NEW v
    PROVE  /\ NewStatus(v, NoCode) = v
           /\ NewStatus(v, SHIFT_PRESSED) = v + SHIFT_FLAG
           /\ NewStatus(v, CTRL_PRESSED) = v + CTRL_FLAG
           /\ NewStatus(v, ALT_PRESSED) = v + ALT_FLAG
           /\ NewStatus(v, CAPS_PRESSED) =
                 IF IsSet(v, CAPS_FLAG) THEN v - CAPS_FLAG ELSE v + CAPS_FLAG
           /\ NewStatus(v, Released(SHIFT_PRESSED)) = Release(v, SHIFT_FLAG)
           /\ NewStatus(v, Released(CTRL_PRESSED)) = Release(v, CTRL_FLAG)
           /\ NewStatus(v, Released(ALT_PRESSED)) = Release(v, ALT_FLAG)
           /\ \A code \in 1..(BASE_KB_SIZE - 1) :
                 code \notin Modifiers \cup {CAPS_PRESSED} => NewStatus(v, code) = v
<1> USE DEF NoCode, SHIFT_PRESSED, CTRL_PRESSED, ALT_PRESSED, CAPS_PRESSED,
            RELEASED_KEY_MASK, Modifiers
<1>1. NewStatus(v, NoCode) = v
  BY DEF NewStatus
<1>2. /\ FlagOf(SHIFT_PRESSED) = SHIFT_FLAG /\ FlagOf(CTRL_PRESSED) = CTRL_FLAG
      /\ FlagOf(ALT_PRESSED) = ALT_FLAG
  BY DEF FlagOf
<1>3. /\ NewStatus(v, SHIFT_PRESSED) = v + SHIFT_FLAG
      /\ NewStatus(v, CTRL_PRESSED) = v + CTRL_FLAG
      /\ NewStatus(v, ALT_PRESSED) = v + ALT_FLAG
  BY <1>2 DEF NewStatus
<1>4. NewStatus(v, CAPS_PRESSED) =
         IF IsSet(v, CAPS_FLAG) THEN v - CAPS_FLAG ELSE v + CAPS_FLAG
  BY DEF NewStatus
<1>5. /\ NewStatus(v, Released(SHIFT_PRESSED)) = Release(v, SHIFT_FLAG)
      /\ NewStatus(v, Released(CTRL_PRESSED)) = Release(v, CTRL_FLAG)
      /\ NewStatus(v, Released(ALT_PRESSED)) = Release(v, ALT_FLAG)
  BY <1>2 DEF NewStatus, Released
<1>6. \A code \in 1..(BASE_KB_SIZE - 1) :
         code \notin Modifiers \cup {CAPS_PRESSED} => NewStatus(v, code) = v
  BY DEF NewStatus, BASE_KB_SIZE
<1> QED
  BY <1>1, <1>3, <1>4, <1>5, <1>6

(* Digit d of modifier k, given how often its press code was sent. *)
DigitOf(k, d) ==
    /\ d \in Digits
    /\ k \in Held => d <= presses[k] /\ (presses[k] = 1 => d = 1)
    /\ k \notin Held => d = 0

\* The status when the code that waits in the controller has been read.
Reaches(s, k, a) ==
    /\ NewStatus(key_status, outbuf) = Value(s, CapsBit(caps), k, a)
    /\ DigitOf(SHIFT_PRESSED, s) /\ DigitOf(CTRL_PRESSED, k)
    /\ DigitOf(ALT_PRESSED, a)

KeyInv ==
    /\ caps \in BOOLEAN
    /\ presses \in [Held -> 0..MaxPresses]
    /\ \E s \in Digits, k \in Digits, a \in Digits : Reaches(s, k, a)

(* What a press or a release does to the digits. *)
LEMMA PressDigits ==
    ASSUME NEW code \in Held, presses \in [Held -> 0..MaxPresses],
           presses[code] < MaxPresses,
           presses' = [presses EXCEPT ![code] = @ + 1]
    PROVE  /\ presses' \in [Held -> 0..MaxPresses]
           /\ \A d : DigitOf(code, d) => DigitOf(code, d + 1)'
           /\ \A k, d : k # code /\ DigitOf(k, d) => DigitOf(k, d)'
<1>1. MaxPresses \in 1..15 /\ presses[code] \in 0..MaxPresses
  BY InterruptsAssumption
<1>2. presses'[code] = presses[code] + 1 /\ \A k \in Held \ {code} : presses'[k] = presses[k]
  OBVIOUS
<1>3. presses' \in [Held -> 0..MaxPresses]
  BY <1>1
<1>4. ASSUME NEW d, DigitOf(code, d)
      PROVE  DigitOf(code, d + 1)'
  <2>1. d \in 0..15 /\ d <= presses[code] /\ presses[code] < MaxPresses
    BY <1>4 DEF DigitOf, Digits
  <2>2. d + 1 \in 0..15 /\ d + 1 <= presses'[code]
        /\ (presses'[code] = 1 => d + 1 = 1)
    BY <1>1, <1>2, <2>1
  <2> QED
    BY <2>2 DEF DigitOf, Digits
<1>5. ASSUME NEW k, NEW d, k # code, DigitOf(k, d)
      PROVE  DigitOf(k, d)'
  BY <1>2, <1>5 DEF DigitOf
<1> QED
  BY <1>3, <1>4, <1>5

LEMMA ReleaseDigits ==
    ASSUME NEW code \in Held, presses \in [Held -> 0..MaxPresses],
           presses' = [presses EXCEPT ![code] = 0]
    PROVE  /\ presses' \in [Held -> 0..MaxPresses]
           /\ DigitOf(code, 0)'
           /\ \A k, d : k # code /\ DigitOf(k, d) => DigitOf(k, d % 2)'
<1>1. MaxPresses \in 1..15
  BY InterruptsAssumption
<1>2. presses'[code] = 0 /\ \A k \in Held \ {code} : presses'[k] = presses[k]
  OBVIOUS
<1>3. presses' \in [Held -> 0..MaxPresses] /\ DigitOf(code, 0)'
  BY <1>1, <1>2 DEF DigitOf, Digits
<1>4. ASSUME NEW k, NEW d, k # code, DigitOf(k, d)
      PROVE  DigitOf(k, d % 2)'
  <2>1. d \in 0..15 /\ d % 2 \in 0..15 /\ d % 2 <= d /\ (d = 1 => d % 2 = 1)
        /\ (d = 0 => d % 2 = 0)
    BY <1>4 DEF DigitOf, Digits
  <2>2. CASE k \in Held
    <3>1. presses'[k] = presses[k] /\ presses[k] \in 0..MaxPresses
      BY <1>2, <1>4, <2>2
    <3>2. d % 2 <= presses'[k] /\ (presses'[k] = 1 => d % 2 = 1)
      BY <1>1, <1>4, <2>1, <2>2, <3>1 DEF DigitOf
    <3> QED
      BY <2>1, <2>2, <3>2 DEF DigitOf, Digits
  <2>3. CASE k \notin Held
    BY <1>4, <2>1, <2>3 DEF DigitOf, Digits
  <2> QED
    BY <2>2, <2>3
<1> QED
  BY <1>3, <1>4

(* A key is pressed: the controller was empty, so that the status to be    *)
(* reached was key_status itself.                                          *)
LEMMA PressedKeeps ==
    ASSUME KeyInv, NEW code \in Codes, KeyPressed(code) PROVE KeyInv'
<1>1. PICK s \in Digits, k \in Digits, a \in Digits : Reaches(s, k, a)
  BY DEF KeyInv
<1> DEFINE c == CapsBit(caps)
<1>2. /\ outbuf' = code /\ key_status' = key_status
      /\ key_status = Value(s, c, k, a)
      /\ caps' = (caps # (code = CAPS_PRESSED)) /\ caps \in BOOLEAN
      /\ caps' \in BOOLEAN
  BY <1>1, StatusCases DEF KeyPressed, KeyEvent, Reaches, KeyInv
<1>3. /\ c \in 0..1
      /\ CapsBit(caps') = IF code = CAPS_PRESSED THEN 1 - c ELSE c
  <2>1. CASE caps = TRUE
    <3>1. c = 1
      BY <2>1 DEF CapsBit
    <3>2. CapsBit(caps') = IF code = CAPS_PRESSED THEN 0 ELSE 1
      BY <1>2, <2>1 DEF CapsBit
    <3> QED
      BY <3>1, <3>2
  <2>2. CASE caps = FALSE
    <3>1. c = 0
      BY <2>2 DEF CapsBit
    <3>2. CapsBit(caps') = IF code = CAPS_PRESSED THEN 1 ELSE 0
      BY <1>2, <2>2 DEF CapsBit
    <3> QED
      BY <3>1, <3>2
  <2> QED
    BY <1>2, <2>1, <2>2
<1>4. /\ DigitOf(SHIFT_PRESSED, s) /\ DigitOf(CTRL_PRESSED, k)
      /\ DigitOf(ALT_PRESSED, a)
  BY <1>1 DEF Reaches
<1>5. presses \in [Held -> 0..MaxPresses]
  BY DEF KeyInv
<1> HIDE DEF c
<1>6. CASE code \in Modifiers
  <2>1. code \in Held /\ presses[code] < MaxPresses
        /\ presses' = [presses EXCEPT ![code] = @ + 1]
    BY <1>6 DEF KeyPressed, Held
  <2>2. /\ presses' \in [Held -> 0..MaxPresses]
        /\ \A d : DigitOf(code, d) => DigitOf(code, d + 1)'
        /\ \A j, d : j # code /\ DigitOf(j, d) => DigitOf(j, d)'
    BY <1>5, <2>1, PressDigits
  <2>3. CapsBit(caps') = c
    BY <1>3, <1>6 DEF Modifiers, CAPS_PRESSED, SHIFT_PRESSED, CTRL_PRESSED, ALT_PRESSED
  <2>4. CASE code = SHIFT_PRESSED
    <3>1. Value(s, c, k, a) + SHIFT_FLAG = Value(s + 1, c, k, a)
      BY <1>3 DEF Value, SHIFT_FLAG, Digits
    <3>2. /\ DigitOf(SHIFT_PRESSED, s + 1)' /\ DigitOf(CTRL_PRESSED, k)'
          /\ DigitOf(ALT_PRESSED, a)'
      BY <1>4, <2>2, <2>4 DEF SHIFT_PRESSED, CTRL_PRESSED, ALT_PRESSED
    <3>3. NewStatus(key_status', outbuf') = Value(s + 1, c, k, a)
      BY <1>2, <2>4, <3>1, StatusCases
    <3>4. Reaches(s + 1, k, a)' /\ s + 1 \in Digits
      BY <2>3, <3>2, <3>3 DEF Reaches, DigitOf
    <3> QED
      BY <1>2, <2>2, <3>4 DEF KeyInv
  <2>5. CASE code = CTRL_PRESSED
    <3>1. Value(s, c, k, a) + CTRL_FLAG = Value(s, c, k + 1, a)
      BY <1>3 DEF Value, CTRL_FLAG, Digits
    <3>2. /\ DigitOf(SHIFT_PRESSED, s)' /\ DigitOf(CTRL_PRESSED, k + 1)'
          /\ DigitOf(ALT_PRESSED, a)'
      BY <1>4, <2>2, <2>5 DEF SHIFT_PRESSED, CTRL_PRESSED, ALT_PRESSED
    <3>3. NewStatus(key_status', outbuf') = Value(s, c, k + 1, a)
      BY <1>2, <2>5, <3>1, StatusCases
    <3>4. Reaches(s, k + 1, a)' /\ k + 1 \in Digits
      BY <2>3, <3>2, <3>3 DEF Reaches, DigitOf
    <3> QED
      BY <1>2, <2>2, <3>4 DEF KeyInv
  <2>6. CASE code = ALT_PRESSED
    <3>1. Value(s, c, k, a) + ALT_FLAG = Value(s, c, k, a + 1)
      BY <1>3 DEF Value, ALT_FLAG, Digits
    <3>2. /\ DigitOf(SHIFT_PRESSED, s)' /\ DigitOf(CTRL_PRESSED, k)'
          /\ DigitOf(ALT_PRESSED, a + 1)'
      BY <1>4, <2>2, <2>6 DEF SHIFT_PRESSED, CTRL_PRESSED, ALT_PRESSED
    <3>3. NewStatus(key_status', outbuf') = Value(s, c, k, a + 1)
      BY <1>2, <2>6, <3>1, StatusCases
    <3>4. Reaches(s, k, a + 1)' /\ a + 1 \in Digits
      BY <2>3, <3>2, <3>3 DEF Reaches, DigitOf
    <3> QED
      BY <1>2, <2>2, <3>4 DEF KeyInv
  <2> QED
    BY <1>6, <2>4, <2>5, <2>6 DEF Modifiers
<1>7. CASE code \notin Modifiers
  <2>1. UNCHANGED presses
    BY <1>7 DEF KeyPressed, Held
  <2>2. \A j, d : DigitOf(j, d) => DigitOf(j, d)'
    BY <2>1 DEF DigitOf
  <2>3. NewStatus(key_status, code) = Value(s, CapsBit(caps'), k, a)
    <3>1. CASE code = CAPS_PRESSED
      <4>1. IsSet(key_status, CAPS_FLAG) <=> c = 1
        BY <1>2, <1>3, BitsOfValue
      <4>2. NewStatus(key_status, code) =
               IF c = 1 THEN Value(s, c, k, a) - CAPS_FLAG
                        ELSE Value(s, c, k, a) + CAPS_FLAG
        BY <1>2, <3>1, <4>1, StatusCases
      <4>3. CapsBit(caps') = 1 - c
        BY <1>3, <3>1
      <4> QED
        BY <1>3, <4>2, <4>3 DEF Value, CAPS_FLAG, Digits
    <3>2. CASE code # CAPS_PRESSED
      <4>1. code \in 1..(BASE_KB_SIZE - 1)
        BY InterruptsAssumption
      <4>2. NewStatus(key_status, code) = key_status
        BY <1>7, <3>2, <4>1, StatusCases
      <4> QED
        BY <1>2, <1>3, <3>2, <4>2
    <3> QED
      BY <3>1, <3>2
  <2>4. Reaches(s, k, a)'
    BY <1>2, <1>4, <2>2, <2>3 DEF Reaches
  <2> QED
    BY <1>2, <1>5, <2>1, <2>4 DEF KeyInv
<1> QED
  BY <1>6, <1>7

LEMMA ReleasedKeeps ==
    ASSUME KeyInv, NEW code \in Held, KeyReleased(code) PROVE KeyInv'
<1>1. PICK s \in Digits, k \in Digits, a \in Digits : Reaches(s, k, a)
  BY DEF KeyInv
<1> DEFINE c == CapsBit(caps)
<1>2. /\ outbuf' = Released(code) /\ key_status' = key_status
      /\ key_status = Value(s, c, k, a)
      /\ caps' = caps /\ caps \in BOOLEAN
  BY <1>1, StatusCases DEF KeyReleased, KeyEvent, Reaches, KeyInv
<1>3. c \in 0..1
  BY <1>2 DEF CapsBit
<1>4. /\ DigitOf(SHIFT_PRESSED, s) /\ DigitOf(CTRL_PRESSED, k)
      /\ DigitOf(ALT_PRESSED, a)
  BY <1>1 DEF Reaches
<1>5. /\ presses' \in [Held -> 0..MaxPresses]
      /\ DigitOf(code, 0)'
      /\ \A j, d : j # code /\ DigitOf(j, d) => DigitOf(j, d % 2)'
  BY ReleaseDigits DEF KeyReleased, KeyInv
<1>6. /\ Release(key_status, SHIFT_FLAG) = Value(0, c, k % 2, a % 2)
      /\ Release(key_status, CTRL_FLAG) = Value(s % 2, c, 0, a % 2)
      /\ Release(key_status, ALT_FLAG) = Value(s % 2, c, k % 2, 0)
  BY <1>2, <1>3, ReleaseValue
<1>7. \A d \in Digits : d % 2 \in Digits
  BY DEF Digits
<1>8. 0 \in Digits
  BY DEF Digits
<1>9. CapsBit(caps') = c
  BY <1>2
<1> HIDE DEF c
<1>10. CASE code = SHIFT_PRESSED
  <2>1. NewStatus(key_status', outbuf') = Value(0, c, k % 2, a % 2)
    BY <1>2, <1>6, <1>10, StatusCases
  <2>2. /\ DigitOf(SHIFT_PRESSED, 0)' /\ DigitOf(CTRL_PRESSED, k % 2)'
        /\ DigitOf(ALT_PRESSED, a % 2)'
    BY <1>4, <1>5, <1>10 DEF SHIFT_PRESSED, CTRL_PRESSED, ALT_PRESSED
  <2>3. Reaches(0, k % 2, a % 2)'
    BY <1>9, <2>1, <2>2 DEF Reaches
  <2> QED
    BY <1>2, <1>5, <1>7, <1>8, <2>3 DEF KeyInv
<1>11. CASE code = CTRL_PRESSED
  <2>1. NewStatus(key_status', outbuf') = Value(s % 2, c, 0, a % 2)
    BY <1>2, <1>6, <1>11, StatusCases
  <2>2. /\ DigitOf(SHIFT_PRESSED, s % 2)' /\ DigitOf(CTRL_PRESSED, 0)'
        /\ DigitOf(ALT_PRESSED, a % 2)'
    BY <1>4, <1>5, <1>11 DEF SHIFT_PRESSED, CTRL_PRESSED, ALT_PRESSED
  <2>3. Reaches(s % 2, 0, a % 2)'
    BY <1>9, <2>1, <2>2 DEF Reaches
  <2> QED
    BY <1>2, <1>5, <1>7, <1>8, <2>3 DEF KeyInv
<1>12. CASE code = ALT_PRESSED
  <2>1. NewStatus(key_status', outbuf') = Value(s % 2, c, k % 2, 0)
    BY <1>2, <1>6, <1>12, StatusCases
  <2>2. /\ DigitOf(SHIFT_PRESSED, s % 2)' /\ DigitOf(CTRL_PRESSED, k % 2)'
        /\ DigitOf(ALT_PRESSED, 0)'
    BY <1>4, <1>5, <1>12 DEF SHIFT_PRESSED, CTRL_PRESSED, ALT_PRESSED
  <2>3. Reaches(s % 2, k % 2, 0)'
    BY <1>9, <2>1, <2>2 DEF Reaches
  <2> QED
    BY <1>2, <1>5, <1>7, <1>8, <2>3 DEF KeyInv
<1> QED
  BY <1>10, <1>11, <1>12 DEF Held, Modifiers

(* The handler reads the code, on whichever stack it runs: what the status *)
(* was to become, it is.                                                   *)
LEMMA KeysKept == KeyInv /\ [Next]_vars => KeyInv'
<1> SUFFICES ASSUME KeyInv, [Next]_vars PROVE KeyInv'
  OBVIOUS
<1>1. ASSUME UNCHANGED << presses, caps >>,
             NewStatus(key_status, outbuf)' = NewStatus(key_status, outbuf)
      PROVE  KeyInv'
  BY <1>1 DEF KeyInv, Reaches, DigitOf
<1>2. CASE UNCHANGED kbVars
  <2>1. NewStatus(key_status', outbuf') = NewStatus(key_status, outbuf)
    BY <1>2 DEF kbVars
  <2> QED
    BY <1>1, <1>2, <2>1 DEF kbVars
<1>3. ASSUME NEW t, kb_int_handler(t) PROVE KeyInv'
  <2>1. CASE UNCHANGED kbVars
    BY <1>2, <2>1
  <2>2. ASSUME key_status' = NewStatus(key_status, outbuf), outbuf' = NoCode,
               UNCHANGED << presses, caps >>
        PROVE  KeyInv'
    <3>1. NewStatus(key_status', outbuf') = NewStatus(key_status, outbuf)
      BY <2>2, StatusCases
    <3> QED
      BY <1>1, <2>2, <3>1
  <2> QED
    BY <1>3, <2>1, <2>2 DEF kb_int_handler
<1>4. ASSUME NEW t, rtc_handler(t) \/ task_switch(t) PROVE UNCHANGED kbVars
  BY <1>4 DEF rtc_handler, task_switch
<1>5. CASE Boot \/ Tick \/ RtcInterrupt \/ \E line \in Lines : Deliver(line)
  BY <1>2, <1>5 DEF Boot, Tick, RtcInterrupt, Deliver
<1>6. CASE UNCHANGED vars
  BY <1>2, <1>6 DEF vars
<1> QED
  BY <1>2, <1>3, <1>4, <1>5, <1>6, PressedKeeps, ReleasedKeeps DEF Next, Handler

(* When every scan code has been read, a key does what the modifiers that  *)
(* are down call for.                                                      *)
THEOREM InterruptsKeys == Spec => []KeysAgree
<1>1. Init => KeyInv
  <2> SUFFICES ASSUME Init PROVE KeyInv
    OBVIOUS
  <2>1. caps = FALSE /\ presses \in [Held -> 0..MaxPresses] /\ 0 \in Digits
    BY InterruptsAssumption DEF Init, Digits
  <2>2. NewStatus(key_status, outbuf) = 0
    BY StatusCases DEF Init
  <2>3. Value(0, CapsBit(caps), 0, 0) = 0
    BY <2>1 DEF Value, CapsBit
  <2>4. Reaches(0, 0, 0)
    BY <2>1, <2>2, <2>3 DEF Reaches, DigitOf, Init, Digits
  <2> QED
    BY <2>1, <2>4 DEF KeyInv
<1>2. KeyInv => KeysAgree
  <2> SUFFICES ASSUME KeyInv, outbuf = NoCode
               PROVE  /\ (\A j \in Held : presses[j] = 0) =>
                            \A code \in {A_PRESSED, L_PRESSED, FN(1)} :
                               Effect(key_status, code) =
                                  IF caps THEN "caps" ELSE "base"
                      /\ OnlyHeld(SHIFT_PRESSED, 1) =>
                            Effect(key_status, A_PRESSED) =
                               IF caps THEN "both" ELSE "shift"
                      /\ OnlyHeld(ALT_PRESSED, 1) =>
                            Effect(key_status, FN(1)) = "switch"
    BY DEF KeysAgree
  <2>1. PICK s \in Digits, k \in Digits, a \in Digits : Reaches(s, k, a)
    BY DEF KeyInv
  <2> DEFINE c == CapsBit(caps)
  <2>2. key_status = Value(s, c, k, a) /\ c \in 0..1 /\ caps \in BOOLEAN
        /\ (c = 1 <=> caps)
    <3>1. caps \in BOOLEAN
      BY DEF KeyInv
    <3>2. key_status = Value(s, c, k, a)
      BY <2>1, StatusCases DEF Reaches
    <3>3. c \in 0..1 /\ (c = 1 <=> caps)
      BY <3>1 DEF CapsBit
    <3> QED
      BY <3>1, <3>2, <3>3
  <2>3. /\ DigitOf(SHIFT_PRESSED, s) /\ DigitOf(CTRL_PRESSED, k)
        /\ DigitOf(ALT_PRESSED, a)
    BY <2>1 DEF Reaches
  <2>4. \A j \in Held : presses[j] \in Nat
    BY DEF KeyInv
  <2>5. \A j, d : DigitOf(j, d) /\ (j \in Held => presses[j] = 0) => d = 0
    BY <2>4 DEF DigitOf, Digits
  <2> HIDE DEF c
  <2>6. ASSUME \A j \in Held : presses[j] = 0
        PROVE  \A code \in {A_PRESSED, L_PRESSED, FN(1)} :
                  Effect(key_status, code) = IF caps THEN "caps" ELSE "base"
    <3>1. s = 0 /\ k = 0 /\ a = 0
      BY <2>3, <2>5, <2>6
    <3>2. ~IsSet(key_status, CTRL_FLAG) /\ ~IsSet(key_status, ALT_FLAG)
      BY <2>2, <3>1, BitsOfValue
    <3>3. key_status = 16 * c
      BY <2>2, <3>1 DEF Value
    <3>4. Table(key_status) = IF caps THEN "caps" ELSE "base"
      BY <2>2, <3>3 DEF Table, SHIFT_FLAG, CAPS_FLAG
    <3>5. \A code \in {A_PRESSED, L_PRESSED, FN(1)} :
             Effect(key_status, code) = Table(key_status)
      BY <3>2 DEF Effect, A_PRESSED, L_PRESSED, FN, Modifiers, SHIFT_PRESSED,
                  CTRL_PRESSED, ALT_PRESSED, CAPS_PRESSED, ENTER_PRESSED,
                  BASE_KB_SIZE
    <3> QED
      BY <3>4, <3>5
  <2>7. ASSUME OnlyHeld(SHIFT_PRESSED, 1)
        PROVE  Effect(key_status, A_PRESSED) = IF caps THEN "both" ELSE "shift"
    <3>1. /\ SHIFT_PRESSED \in Held /\ presses[SHIFT_PRESSED] = 1
          /\ \A j \in Held : j # SHIFT_PRESSED => presses[j] = 0
      BY <2>7 DEF OnlyHeld
    <3>2. s = 1 /\ k = 0 /\ a = 0
      BY <2>3, <2>5, <3>1
         DEF DigitOf, SHIFT_PRESSED, CTRL_PRESSED, ALT_PRESSED
    <3>3. key_status = 1 + 16 * c
      BY <2>2, <3>2 DEF Value
    <3>4. Table(key_status) = IF caps THEN "both" ELSE "shift"
      BY <2>2, <3>3 DEF Table, SHIFT_FLAG, CAPS_FLAG
    <3> QED
      BY <3>4 DEF Effect, A_PRESSED, L_PRESSED, FN, Modifiers, SHIFT_PRESSED,
                  CTRL_PRESSED, ALT_PRESSED, CAPS_PRESSED, ENTER_PRESSED,
                  BASE_KB_SIZE
  <2>8. ASSUME OnlyHeld(ALT_PRESSED, 1)
        PROVE  Effect(key_status, FN(1)) = "switch"
    <3>1. ALT_PRESSED \in Held /\ presses[ALT_PRESSED] = 1
      BY <2>8 DEF OnlyHeld
    <3>2. a = 1
      BY <2>3, <3>1 DEF DigitOf
    <3>3. IsSet(key_status, ALT_FLAG)
      BY <2>2, <3>2, BitsOfValue
    <3> QED
      BY <3>3 DEF Effect, L_PRESSED, FN, Modifiers, SHIFT_PRESSED,
                  CTRL_PRESSED, ALT_PRESSED, CAPS_PRESSED, ENTER_PRESSED
  <2> QED
    BY <2>6, <2>7, <2>8
<1> QED
  BY <1>1, <1>2, KeysKept, PTL DEF Spec
=============================================================================
