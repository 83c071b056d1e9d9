---------------------------- MODULE ProcsProofs ----------------------------
(* Proofs about Procs, for any number of slots. *)
EXTENDS ProcStacks, TLAPS, WellFoundedInduction, FiniteSetTheorems

-----------------------------------------------------------------------------
(* Facts about PCB lists.  A list is given by its head h and the link      *)
(* function c; ChainFrom(h, c) is the set of PCBs on it.                   *)

Links == [Pids -> Pids \cup {NULL}]

(* The null pointer is no slot. *)
LEMMA NullIsNoPid == NULL \notin Pids
BY ProcsAssumption DEF Pids

(* The PCBs visited from a head lie in every closed set that holds it. *)
LEMMA ChainLeast ==
    ASSUME NEW h, NEW c, NEW S \in SUBSET Pids,
           h \in S \cup {NULL}, Closed(c, S)
    PROVE  ChainFrom(h, c) \subseteq S
BY DEF ChainFrom

(* The head, if there is one, is on its list. *)
LEMMA ChainHead ==
    ASSUME NEW h \in Pids, NEW c
    PROVE  h \in ChainFrom(h, c)
BY NullIsNoPid DEF ChainFrom

(* A list is closed under child_pcb: the loops never leave it. *)
LEMMA ChainStep ==
    ASSUME NEW h, NEW c \in Links, NEW p \in ChainFrom(h, c), c[p] # NULL
    PROVE  c[p] \in ChainFrom(h, c)
<1>1. p \in Pids /\ c[p] \in Pids
  BY DEF ChainFrom, Links
<1>2. ASSUME NEW S \in SUBSET Pids, h \in S \cup {NULL}, Closed(c, S)
      PROVE  c[p] \in S
  <2>1. p \in S
    BY <1>2 DEF ChainFrom
  <2> QED
    BY <2>1, <1>2 DEF Closed
<1> QED
  BY <1>1, <1>2 DEF ChainFrom

(* Without a head the list is empty. *)
LEMMA ChainEmpty ==
    ASSUME NEW c
    PROVE  ChainFrom(NULL, c) = {}
<1>1. Closed(c, {})
  BY DEF Closed
<1> QED
  BY <1>1, ChainLeast

(* A head without a child is the whole list. *)
LEMMA ChainSingle ==
    ASSUME NEW h \in Pids, NEW c, c[h] = NULL
    PROVE  ChainFrom(h, c) = {h}
<1>1. Closed(c, {h})
  BY DEF Closed
<1>2. ChainFrom(h, c) \subseteq {h}
  BY <1>1, ChainLeast
<1> QED
  BY <1>2, ChainHead

(* A change of the link of a PCB that is not on a list leaves the list. *)
LEMMA ChainOther ==
    ASSUME NEW h \in Pids \cup {NULL}, NEW c \in Links,
           NEW q \in Pids, q \notin ChainFrom(h, c),
           NEW d \in Links, \A x \in Pids : x # q => d[x] = c[x]
    PROVE  ChainFrom(h, d) = ChainFrom(h, c)
<1> DEFINE C == ChainFrom(h, c)
           D == ChainFrom(h, d)
<1>0. C \in SUBSET Pids /\ D \in SUBSET Pids
  BY DEF ChainFrom
<1>1. d \in Links /\ \A p \in Pids : p # q => d[p] = c[p]
  BY DEF Links
<1>2. h \in C \cup {NULL}
  BY ChainHead
<1>3. D \subseteq C
  <2>1. Closed(d, C)
    BY <1>0, <1>1, ChainStep DEF Closed
  <2> QED
    BY <2>1, <1>0, <1>2, ChainLeast
<1>4. C \subseteq D
  <2>1. h \in D \cup {NULL}
    BY ChainHead
  <2>2. h \in (C \cap D) \cup {NULL}
    BY <2>1, <1>2
  <2>3. \A p \in C \cap D : c[p] \in (C \cap D) \cup {NULL}
    <3> SUFFICES ASSUME NEW p \in C \cap D, c[p] # NULL
                 PROVE  c[p] \in C \cap D
      OBVIOUS
    <3>1. c[p] = d[p]
      BY <1>0, <1>1
    <3>2. c[p] \in C
      BY ChainStep
    <3>3. d[p] \in D
      BY <3>1, <1>1, ChainStep
    <3> QED
      BY <3>1, <3>2, <3>3
  <2>4. Closed(c, C \cap D)
    BY <2>3 DEF Closed
  <2>5. C \subseteq C \cap D
    <3> HIDE DEF C, D
    <3>1. C \cap D \in SUBSET Pids
      BY <1>0
    <3> QED
      BY <3>1, <2>2, <2>4, ChainLeast DEF C
  <2> QED
    BY <2>5
<1> QED
  BY <1>3, <1>4

(* Linking a childless PCB p behind the last one puts p, and only p, on    *)
(* the list.                                                               *)
LEMMA ChainAppend ==
    ASSUME NEW h \in Pids, NEW c \in Links,
           NEW q \in ChainFrom(h, c), c[q] = NULL,
           NEW p \in Pids, p # q, c[p] = NULL,
           NEW d \in Links, d[q] = p, \A x \in Pids : x # q => d[x] = c[x]
    PROVE  ChainFrom(h, d) = ChainFrom(h, c) \cup {p}
<1> DEFINE C == ChainFrom(h, c)
           D == ChainFrom(h, d)
<1>0. C \in SUBSET Pids /\ D \in SUBSET Pids
  BY DEF ChainFrom
<1>1. d \in Links /\ d[q] = p /\ d[p] = NULL
                  /\ \A r \in Pids : r # q => d[r] = c[r]
  BY <1>0 DEF Links
<1>2. D \subseteq C \cup {p}
  <2>1. Closed(d, C \cup {p})
    BY <1>0, <1>1, ChainStep DEF Closed
  <2>2. h \in C
    BY ChainHead
  <2> HIDE DEF C
  <2> QED
    BY <2>1, <2>2, <1>0, ChainLeast DEF D
<1>3. C \subseteq D
  <2>1. Closed(c, D)
    <3> SUFFICES ASSUME NEW r \in D PROVE c[r] \in D \cup {NULL}
      BY DEF Closed
    <3>1. CASE r = q
      BY <3>1
    <3>2. CASE r # q
      BY <3>2, <1>0, <1>1, ChainStep
    <3> QED
      BY <3>1, <3>2
  <2>2. h \in D
    BY ChainHead
  <2> HIDE DEF D
  <2> QED
    BY <2>1, <2>2, <1>0, ChainLeast
<1>4. p \in D
  <2>1. q \in D /\ d[q] # NULL
    BY <1>1, <1>3, NullIsNoPid
  <2> QED
    BY <2>1, <1>1, ChainStep
<1> QED
  BY <1>2, <1>3, <1>4

(* Cutting the link to the last PCB s takes s, and only s, off the list.   *)
LEMMA ChainCut ==
    ASSUME NEW h \in Pids, NEW c \in Links,
           NEW r \in Pids, NEW s \in Pids, c[r] = s, c[s] = NULL, s # h,
           \A x \in Pids : c[x] = s => x = r,
           NEW d \in Links, d[r] = NULL, \A x \in Pids : x # r => d[x] = c[x]
    PROVE  ChainFrom(h, d) = ChainFrom(h, c) \ {s}
<1> DEFINE C == ChainFrom(h, c)
           D == ChainFrom(h, d)
<1>0. C \in SUBSET Pids /\ D \in SUBSET Pids
  BY DEF ChainFrom
<1>1. d \in Links /\ d[r] = NULL /\ \A x \in Pids : x # r => d[x] = c[x]
  BY DEF Links
<1>2. D \subseteq C \ {s}
  <2>1. Closed(d, C \ {s})
    <3> SUFFICES ASSUME NEW x \in C \ {s}, d[x] # NULL
                 PROVE  d[x] \in C \ {s}
      BY DEF Closed
    <3>1. x \in Pids /\ x # r /\ d[x] = c[x]
      BY <1>0, <1>1
    <3>2. c[x] # s
      BY <3>1
    <3> QED
      BY <3>1, <3>2, ChainStep
  <2>2. h \in C \ {s}
    BY ChainHead
  <2> HIDE DEF C
  <2> QED
    BY <2>1, <2>2, <1>0, ChainLeast DEF D
<1>3. C \subseteq D \cup {s}
  <2>1. Closed(c, D \cup {s})
    <3> SUFFICES ASSUME NEW x \in D \cup {s}, c[x] # NULL
                 PROVE  c[x] \in D \cup {s}
      BY DEF Closed
    <3>1. CASE x = r
      BY <3>1
    <3>2. CASE x # r
      <4>1. x \in D /\ d[x] = c[x]
        BY <3>2, <1>0, <1>1
      <4> QED
        BY <4>1, <1>1, ChainStep
    <3> QED
      BY <3>1, <3>2
  <2>2. h \in D
    BY ChainHead
  <2> HIDE DEF D
  <2> QED
    BY <2>1, <2>2, <1>0, ChainLeast
<1> QED
  BY <1>2, <1>3

-----------------------------------------------------------------------------
(* The invariant of the usage table u, the heads h and the links c: the    *)
(* properties FreeSlotHasNoChild, SlotsMatchLists and OneForeground, and   *)
(* that no PCB has two parents, without which cutting a link could drop    *)
(* more than one process.                                                  *)

Usages == [Pids -> {"NOT_USED", "IN_USE"}]
Heads  == [Terms -> Pids \cup {NULL}]

TailOf(h, c, t, p) == p \in ChainFrom(h[t], c) /\ c[p] = NULL

FreeOK(u, c)   == \A p \in Pids : u[p] = "NOT_USED" => c[p] = NULL
UsedOK(u, h, c) ==
    \A p \in Pids : u[p] = "IN_USE"
                      <=> \E t \in Terms : p \in ChainFrom(h[t], c)
ApartOK(h, c) ==
    \A t, s \in Terms :
        t # s => ChainFrom(h[t], c) \cap ChainFrom(h[s], c) = {}
SomeTailOK(h, c) ==
    \A t \in Terms : h[t] # NULL => \E p \in Pids : TailOf(h, c, t, p)
OneTailOK(h, c) ==
    \A t \in Terms : \A p, q \in Pids :
        TailOf(h, c, t, p) /\ TailOf(h, c, t, q) => p = q
OneParentOK(c) ==
    \A p, q \in Pids : c[p] = c[q] /\ c[p] # NULL => p = q

ListsOK(u, h, c) ==
    /\ FreeOK(u, c)
    /\ UsedOK(u, h, c)
    /\ ApartOK(h, c)
    /\ SomeTailOK(h, c)
    /\ OneTailOK(h, c)
    /\ OneParentOK(c)

(* No PCB links to a free slot. *)
LEMMA FreeHasNoParent ==
    ASSUME NEW u \in Usages, NEW h \in Heads, NEW c \in Links,
           ListsOK(u, h, c), NEW p \in Pids, u[p] = "NOT_USED",
           NEW x \in Pids
    PROVE  c[x] # p
<1> SUFFICES ASSUME c[x] = p PROVE FALSE
  OBVIOUS
<1>1. u[x] = "IN_USE"
  BY NullIsNoPid DEF ListsOK, FreeOK, Usages
<1>2. PICK s \in Terms : x \in ChainFrom(h[s], c)
  BY <1>1 DEF ListsOK, UsedOK
<1>3. p \in ChainFrom(h[s], c)
  BY <1>2, NullIsNoPid, ChainStep
<1> QED
  BY <1>3 DEF ListsOK, UsedOK

(* add_PCB on a terminal without processes: the new slot is its list. *)
LEMMA AddFirst ==
    ASSUME NEW u \in Usages, NEW h \in Heads, NEW c \in Links,
           ListsOK(u, h, c),
           NEW t \in Terms, NEW p \in Pids, u[p] = "NOT_USED", h[t] = NULL,
           NEW v \in Usages, v[p] = "IN_USE",
           \A x \in Pids : x # p => v[x] = u[x],
           NEW g \in Heads, g[t] = p, \A s \in Terms \ {t} : g[s] = h[s]
    PROVE  /\ ListsOK(v, g, c)
           /\ \A x \in Pids : TailOf(g, c, t, x) <=> x = p
<1>1. /\ c[p] = NULL
      /\ \A s \in Terms : p \notin ChainFrom(h[s], c)
  BY DEF ListsOK, FreeOK, UsedOK
<1>2. ChainFrom(g[t], c) = {p}
  BY <1>1, ChainSingle DEF Heads
<1>3. ChainFrom(h[t], c) = {}
  BY ChainEmpty
<1>5. \A x \in Pids : TailOf(g, c, t, x) <=> x = p
  BY <1>1, <1>2 DEF TailOf
<1>6. \A s \in Terms \ {t}, x \in Pids :
          TailOf(g, c, s, x) <=> TailOf(h, c, s, x)
  BY DEF TailOf
<1>7. FreeOK(v, c)
  BY DEF ListsOK, FreeOK, Usages
<1>8. UsedOK(v, g, c)
  BY <1>2, <1>3 DEF ListsOK, UsedOK, Usages
<1>9. ApartOK(g, c)
  BY <1>1, <1>2 DEF ListsOK, ApartOK
<1>10. SomeTailOK(g, c)
  BY <1>5, <1>6 DEF ListsOK, SomeTailOK
<1>11. OneTailOK(g, c)
  <2> SUFFICES ASSUME NEW s \in Terms, NEW x \in Pids, NEW y \in Pids,
                      TailOf(g, c, s, x), TailOf(g, c, s, y)
               PROVE  x = y
    BY DEF OneTailOK
  <2>1. CASE s = t
    BY <2>1, <1>5
  <2>2. CASE s # t
    BY <2>2, <1>6 DEF ListsOK, OneTailOK
  <2> QED
    BY <2>1, <2>2
<1> QED
  BY <1>5, <1>7, <1>8, <1>9, <1>10, <1>11 DEF ListsOK

(* add_PCB on a terminal with processes: the new slot follows the tail.    *)
LEMMA AddBehindTail ==
    ASSUME NEW u \in Usages, NEW h \in Heads, NEW c \in Links,
           ListsOK(u, h, c),
           NEW t \in Terms, NEW p \in Pids, u[p] = "NOT_USED",
           NEW q \in Pids, TailOf(h, c, t, q), h[t] # NULL,
           NEW v \in Usages, v[p] = "IN_USE",
           \A x \in Pids : x # p => v[x] = u[x],
           NEW d \in Links, d[q] = p, \A x \in Pids : x # q => d[x] = c[x]
    PROVE  /\ ListsOK(v, h, d)
           /\ \A x \in Pids : TailOf(h, d, t, x) <=> x = p
           /\ \A s \in Terms \ {t}, x \in Pids :
                 TailOf(h, d, s, x) <=> TailOf(h, c, s, x)
<1>1. /\ c[p] = NULL
      /\ \A s \in Terms : p \notin ChainFrom(h[s], c)
  BY DEF ListsOK, FreeOK, UsedOK
<1>2. /\ q \in ChainFrom(h[t], c) /\ c[q] = NULL /\ p # q
      /\ h[t] \in Pids
  BY <1>1 DEF TailOf, Heads
<1>5. d[p] = NULL
  BY <1>1, <1>2
<1>3. ChainFrom(h[t], d) = ChainFrom(h[t], c) \cup {p}
  <2> DEFINE k == h[t]
  <2>1. k \in Pids /\ q \in ChainFrom(k, c)
    BY <1>2
  <2> HIDE DEF k
  <2>2. ChainFrom(k, d) = ChainFrom(k, c) \cup {p}
    BY <1>1, <1>2, <1>5, <2>1, ChainAppend
  <2> QED
    BY <2>2 DEF k
<1>4. \A s \in Terms \ {t} : ChainFrom(h[s], d) = ChainFrom(h[s], c)
  <2> TAKE s \in Terms \ {t}
  <2>1. q \notin ChainFrom(h[s], c)
    BY <1>2 DEF ListsOK, ApartOK
  <2>2. h[s] \in Pids \cup {NULL}
    BY DEF Heads
  <2> QED
    BY <1>5, <2>1, <2>2, ChainOther
<1>6. \A x \in Pids : TailOf(h, d, t, x) <=> x = p
  <2> TAKE x \in Pids
  <2>1. CASE x = p
    BY <2>1, <1>3, <1>5 DEF TailOf
  <2>2. CASE x = q
    BY <2>2, <1>2, <1>5, NullIsNoPid DEF TailOf
  <2>3. CASE x # p /\ x # q
    BY <2>3, <1>2, <1>3, <1>5 DEF TailOf, ListsOK, OneTailOK
  <2> QED
    BY <2>1, <2>2, <2>3
<1>7. \A s \in Terms \ {t}, x \in Pids :
          TailOf(h, d, s, x) <=> TailOf(h, c, s, x)
  <2> TAKE s \in Terms \ {t}, x \in Pids
  <2>1. CASE x = q
    BY <2>1, <1>2, <1>4 DEF TailOf, ListsOK, ApartOK
  <2>2. CASE x # q
    BY <2>2, <1>4, <1>5 DEF TailOf
  <2> QED
    BY <2>1, <2>2
<1>8. FreeOK(v, d)
  <2> SUFFICES ASSUME NEW x \in Pids, v[x] = "NOT_USED" PROVE d[x] = NULL
    BY DEF FreeOK
  <2>1. u[q] = "IN_USE"
    BY <1>2 DEF ListsOK, UsedOK
  <2>2. x # p /\ u[x] = "NOT_USED"
    BY DEF Usages
  <2> QED
    BY <2>1, <2>2, <1>5 DEF ListsOK, FreeOK
<1>9. UsedOK(v, h, d)
  <2> SUFFICES ASSUME NEW x \in Pids
               PROVE  v[x] = "IN_USE"
                        <=> \E s \in Terms : x \in ChainFrom(h[s], d)
    BY DEF UsedOK
  <2>1. CASE x = p
    BY <2>1, <1>3 DEF Usages
  <2>2. CASE x # p
    <3>1. v[x] = u[x]
      BY <2>2 DEF Usages
    <3>2. \A s \in Terms : x \in ChainFrom(h[s], d)
                               <=> x \in ChainFrom(h[s], c)
      BY <2>2, <1>3, <1>4
    <3> QED
      BY <3>1, <3>2 DEF ListsOK, UsedOK
  <2> QED
    BY <2>1, <2>2
<1>10. ApartOK(h, d)
  <2> SUFFICES ASSUME NEW r \in Terms, NEW s \in Terms, r # s,
                      NEW x, x \in ChainFrom(h[r], d), x \in ChainFrom(h[s], d)
               PROVE  FALSE
    BY DEF ApartOK
  <2>1. ChainFrom(h[r], c) \cap ChainFrom(h[s], c) = {}
    BY DEF ListsOK, ApartOK
  <2>2. CASE r = t
    BY <2>1, <2>2, <1>1, <1>3, <1>4
  <2>3. CASE s = t
    BY <2>1, <2>3, <1>1, <1>3, <1>4
  <2>4. CASE r # t /\ s # t
    BY <2>1, <2>4, <1>4
  <2> QED
    BY <2>2, <2>3, <2>4
<1>11. SomeTailOK(h, d)
  BY <1>6, <1>7 DEF ListsOK, SomeTailOK
<1>12. OneTailOK(h, d)
  <2> SUFFICES ASSUME NEW s \in Terms, NEW x \in Pids, NEW y \in Pids,
                      TailOf(h, d, s, x), TailOf(h, d, s, y)
               PROVE  x = y
    BY DEF OneTailOK
  <2>1. CASE s = t
    BY <2>1, <1>6
  <2>2. CASE s # t
    BY <2>2, <1>7 DEF ListsOK, OneTailOK
  <2> QED
    BY <2>1, <2>2
<1>13. OneParentOK(d)
  <2>1. \A x \in Pids : c[x] # p
    BY FreeHasNoParent
  <2> QED
    BY <2>1, <1>5 DEF ListsOK, OneParentOK
<1> QED
  BY <1>6, <1>7, <1>8, <1>9, <1>10, <1>11, <1>12, <1>13 DEF ListsOK

(* A terminal whose only process goes away has an empty list. *)
LEMMA RemoveBase ==
    ASSUME NEW u \in Usages, NEW h \in Heads, NEW c \in Links,
           ListsOK(u, h, c),
           NEW t \in Terms, NEW p \in Pids, h[t] = p, c[p] = NULL,
           NEW v \in Usages, v[p] = "NOT_USED",
           \A x \in Pids : x # p => v[x] = u[x],
           NEW g \in Heads, g[t] = NULL, \A s \in Terms \ {t} : g[s] = h[s]
    PROVE  ListsOK(v, g, c)
<1>1. ChainFrom(h[t], c) = {p}
  BY ChainSingle
<1>2. ChainFrom(g[t], c) = {}
  BY ChainEmpty
<1>5. FreeOK(v, c)
  BY DEF ListsOK, FreeOK, Usages
<1>6. UsedOK(v, g, c)
  <2> SUFFICES ASSUME NEW x \in Pids
               PROVE  v[x] = "IN_USE"
                        <=> \E s \in Terms : x \in ChainFrom(g[s], c)
    BY DEF UsedOK
  <2>1. CASE x = p
    <3>1. \A s \in Terms : x \notin ChainFrom(g[s], c)
      BY <2>1, <1>1, <1>2 DEF ListsOK, ApartOK
    <3> QED
      BY <2>1, <3>1 DEF Usages
  <2>2. CASE x # p
    <3>1. v[x] = u[x]
      BY <2>2 DEF Usages
    <3>2. \A s \in Terms : x \in ChainFrom(g[s], c)
                               <=> x \in ChainFrom(h[s], c)
      BY <2>2, <1>1, <1>2
    <3> QED
      BY <3>1, <3>2 DEF ListsOK, UsedOK
  <2> QED
    BY <2>1, <2>2
<1>7. ApartOK(g, c)
  BY <1>2 DEF ListsOK, ApartOK
<1>8. SomeTailOK(g, c)
  BY <1>2 DEF ListsOK, SomeTailOK, TailOf
<1>9. OneTailOK(g, c)
  BY <1>2 DEF ListsOK, OneTailOK, TailOf
<1> QED
  BY <1>2, <1>5, <1>6, <1>7, <1>8, <1>9 DEF ListsOK

(* Cutting the last process p off its parent r makes r the tail. *)
LEMMA RemoveTail ==
    ASSUME NEW u \in Usages, NEW h \in Heads, NEW c \in Links,
           ListsOK(u, h, c),
           NEW t \in Terms, NEW p \in Pids, TailOf(h, c, t, p), h[t] # p,
           NEW r \in ChainFrom(h[t], c), c[r] = p,
           NEW v \in Usages, v[p] = "NOT_USED",
           \A x \in Pids : x # p => v[x] = u[x],
           NEW d \in Links, d[r] = NULL, \A x \in Pids : x # r => d[x] = c[x]
    PROVE  /\ ListsOK(v, h, d)
           /\ \A x \in Pids : TailOf(h, d, t, x) <=> x = r
           /\ \A s \in Terms \ {t}, x \in Pids :
                 TailOf(h, d, s, x) <=> TailOf(h, c, s, x)
<1>1. /\ p \in ChainFrom(h[t], c) /\ c[p] = NULL /\ r \in Pids /\ r # p
      /\ h[t] \in Pids
  BY ChainEmpty, NullIsNoPid DEF TailOf, Heads, ChainFrom
<1>2. \A x \in Pids : c[x] = p => x = r
  BY <1>1, NullIsNoPid DEF ListsOK, OneParentOK
<1>3. ChainFrom(h[t], d) = ChainFrom(h[t], c) \ {p}
  <2> DEFINE k == h[t]
  <2>1. k \in Pids /\ p # k
    BY <1>1
  <2> HIDE DEF k
  <2>2. ChainFrom(k, d) = ChainFrom(k, c) \ {p}
    BY <1>1, <1>2, <2>1, ChainCut
  <2> QED
    BY <2>2 DEF k
<1>4. \A s \in Terms \ {t} : ChainFrom(h[s], d) = ChainFrom(h[s], c)
  <2> TAKE s \in Terms \ {t}
  <2>1. r \notin ChainFrom(h[s], c)
    BY <1>1 DEF ListsOK, ApartOK
  <2>2. h[s] \in Pids \cup {NULL}
    BY DEF Heads
  <2> QED
    BY <1>1, <2>1, <2>2, ChainOther
<1>6. \A x \in Pids : TailOf(h, d, t, x) <=> x = r
  <2> TAKE x \in Pids
  <2>1. CASE x = r
    BY <2>1, <1>1, <1>3 DEF TailOf
  <2>2. CASE x # r
    BY <2>2, <1>1, <1>3 DEF TailOf, ListsOK, OneTailOK
  <2> QED
    BY <2>1, <2>2
<1>7. \A s \in Terms \ {t}, x \in Pids :
          TailOf(h, d, s, x) <=> TailOf(h, c, s, x)
  <2> TAKE s \in Terms \ {t}, x \in Pids
  <2>1. CASE x = r
    BY <2>1, <1>1, <1>4 DEF TailOf, ListsOK, ApartOK
  <2>2. CASE x # r
    BY <2>2, <1>4 DEF TailOf
  <2> QED
    BY <2>1, <2>2
<1>8. FreeOK(v, d)
  <2> SUFFICES ASSUME NEW x \in Pids, v[x] = "NOT_USED" PROVE d[x] = NULL
    BY DEF FreeOK
  <2>1. CASE x = p
    BY <2>1, <1>1
  <2>2. CASE x # p
    BY <2>2 DEF ListsOK, FreeOK, Usages
  <2> QED
    BY <2>1, <2>2
<1>9. UsedOK(v, h, d)
  <2> SUFFICES ASSUME NEW x \in Pids
               PROVE  v[x] = "IN_USE"
                        <=> \E s \in Terms : x \in ChainFrom(h[s], d)
    BY DEF UsedOK
  <2>1. CASE x = p
    <3>1. \A s \in Terms : x \notin ChainFrom(h[s], d)
      BY <2>1, <1>1, <1>3, <1>4 DEF ListsOK, ApartOK
    <3> QED
      BY <2>1, <3>1 DEF Usages
  <2>2. CASE x # p
    <3>1. v[x] = u[x]
      BY <2>2 DEF Usages
    <3>2. \A s \in Terms : x \in ChainFrom(h[s], d)
                               <=> x \in ChainFrom(h[s], c)
      BY <2>2, <1>3, <1>4
    <3> QED
      BY <3>1, <3>2 DEF ListsOK, UsedOK
  <2> QED
    BY <2>1, <2>2
<1>10. ApartOK(h, d)
  BY <1>3, <1>4 DEF ListsOK, ApartOK
<1>11. SomeTailOK(h, d)
  BY <1>1, <1>6, <1>7 DEF ListsOK, SomeTailOK
<1>12. OneTailOK(h, d)
  <2> SUFFICES ASSUME NEW s \in Terms, NEW x \in Pids, NEW y \in Pids,
                      TailOf(h, d, s, x), TailOf(h, d, s, y)
               PROVE  x = y
    BY DEF OneTailOK
  <2>1. CASE s = t
    BY <2>1, <1>6
  <2>2. CASE s # t
    BY <2>2, <1>7 DEF ListsOK, OneTailOK
  <2> QED
    BY <2>1, <2>2
<1>13. OneParentOK(d)
  BY DEF ListsOK, OneParentOK
<1> QED
  BY <1>6, <1>7, <1>8, <1>9, <1>10, <1>11, <1>12, <1>13 DEF ListsOK

-----------------------------------------------------------------------------
(* The inductive invariant. *)

TableInv == ListsOK(process_usage, pcb_head, child_pcb)

\* Before the first shell there is no process at all.
BootInv ==
    cpu = NULL => /\ \A p \in Pids : process_usage[p] = "NOT_USED"
                  /\ \A t \in Terms : pcb_head[t] = NULL

\* Nothing suspended lies on the running process's kernel stack.
CpuStackInv == cpu # NULL => kstack[cpu] = "run"

IInv ==
    /\ TypeOK
    /\ TableInv
    /\ BootInv
    /\ CpuStackInv
    /\ RunningUnlessLaunchFailed
    /\ WaitingFrameIsLive
    /\ CallerFrameIsLive

(* Terminals without a head have no tail, the others exactly one, and that *)
(* is what get_PCB_tail returns.                                           *)
LEMMA TailFacts ==
    ASSUME TypeOK, TableInv, NEW t \in Terms
    PROVE  /\ pcb_head[t] = NULL => /\ get_PCB_tail(t) = NULL
                                    /\ \A x \in Pids : ~IsTail(t, x)
           /\ pcb_head[t] # NULL => /\ get_PCB_tail(t) \in Pids
                                    /\ IsTail(t, get_PCB_tail(t))
           /\ \A x \in Pids : IsTail(t, x) => get_PCB_tail(t) = x
           /\ get_PCB_tail(t) = NULL => pcb_head[t] = NULL
<1>1. ASSUME pcb_head[t] = NULL
      PROVE  /\ get_PCB_tail(t) = NULL
             /\ \A x \in Pids : ~IsTail(t, x)
  BY <1>1, ChainEmpty DEF get_PCB_tail, IsTail, Chain
<1>2. ASSUME pcb_head[t] # NULL
      PROVE  /\ get_PCB_tail(t) \in Pids
             /\ IsTail(t, get_PCB_tail(t))
  <2>1. \E x \in Pids : IsTail(t, x)
    BY <1>2 DEF TableInv, ListsOK, SomeTailOK, TailOf, IsTail, Chain
  <2> QED
    BY <1>2, <2>1 DEF get_PCB_tail
<1>3. \A x, y \in Pids : IsTail(t, x) /\ IsTail(t, y) => x = y
  BY DEF TableInv, ListsOK, OneTailOK, TailOf, IsTail, Chain
<1> QED
  BY <1>1, <1>2, <1>3, NullIsNoPid

(* The PCB that execute, halt and task_switch look up is the running one.  *)
LEMMA CurrentIsCpu ==
    ASSUME IInv, cpu # NULL, get_PCB_tail(active_task) # NULL
    PROVE  /\ cpu \in Pids /\ active_task \in Terms
           /\ IsTail(active_task, cpu)
           /\ get_PCB_tail(active_task) = cpu
           /\ pcb_head[active_task] # NULL
           /\ child_pcb[cpu] = NULL
           /\ process_usage[cpu] = "IN_USE"
<1>1. cpu \in Pids /\ active_task \in Terms
  BY DEF IInv, TypeOK
<1>2. pcb_head[active_task] # NULL
  BY <1>1, TailFacts DEF IInv
<1>3. IsTail(active_task, cpu)
  BY <1>2 DEF IInv, RunningUnlessLaunchFailed
<1>4. get_PCB_tail(active_task) = cpu
  BY <1>1, <1>3, TailFacts DEF IInv
<1>5. process_usage[cpu] = "IN_USE"
  BY <1>1, <1>3 DEF IInv, TableInv, ListsOK, UsedOK, IsTail, Chain
<1> QED
  BY <1>1, <1>2, <1>3, <1>4, <1>5 DEF IsTail

(* Only in-use slots have children, and foreground processes of two        *)
(* terminals are different.                                                *)
LEMMA TailsApart ==
    ASSUME TypeOK, TableInv,
           NEW t \in Terms, NEW s \in Terms, t # s,
           NEW x \in Pids, NEW y \in Pids, y \in Chain(s), IsTail(t, x)
    PROVE  x # y
BY DEF TableInv, ListsOK, ApartOK, IsTail, Chain

(* The invariant holds at boot, before any process exists. *)
THEOREM InitIInv == Init => IInv
<1> SUFFICES ASSUME Init PROVE IInv
  OBVIOUS
<1>1. TypeOK
  <2>1. 0 \in Terms
    BY DEF Terms
  <2> QED
    BY <2>1 DEF Init, TypeOK
<1>2. \A t \in Terms : ChainFrom(pcb_head[t], child_pcb) = {}
  BY ChainEmpty DEF Init
<1>3. TableInv
  BY <1>2 DEF Init, TableInv, ListsOK, FreeOK, UsedOK, ApartOK, SomeTailOK,
              OneTailOK, OneParentOK, TailOf
<1>4. WaitingFrameIsLive
  BY <1>2 DEF WaitingFrameIsLive, IsTail, Chain
<1>5. CallerFrameIsLive
  BY NullIsNoPid DEF Init, CallerFrameIsLive
<1> QED
  BY <1>1, <1>3, <1>4, <1>5
     DEF Init, IInv, BootInv, CpuStackInv, RunningUnlessLaunchFailed

-----------------------------------------------------------------------------
(* One lemma per action: it keeps the invariant. *)

(* The kernel's execute("shell") at boot. *)
LEMMA BootKeepsIInv == ASSUME IInv, Boot PROVE IInv'
<1> USE DEF IInv
<1>1. PICK p \in Pids :
        /\ add_PCB(process_usage, pcb_head, active_task, p)
        /\ StartProcess(p, "exec")
        /\ esp_switch' = [esp_switch EXCEPT ![p] = Frame(CurStack, "exec")]
  BY DEF Boot
<1>2. /\ cpu = NULL /\ active_task' = active_task /\ active_task \in Terms
      /\ \A t \in Terms : pcb_head[t] = NULL
      /\ \A x \in Pids : process_usage[x] = "NOT_USED"
  BY DEF Boot, BootInv, TypeOK
<1>3. /\ process_usage \in Usages /\ pcb_head \in Heads /\ child_pcb \in Links
      /\ ListsOK(process_usage, pcb_head, child_pcb)
  BY DEF TypeOK, Usages, Heads, Links, TableInv
<1>4. /\ process_usage[p] = "NOT_USED"
      /\ process_usage' = [process_usage EXCEPT ![p] = "IN_USE"]
      /\ pcb_head' = [pcb_head EXCEPT ![active_task] = p]
      /\ child_pcb' = child_pcb
  BY <1>1, <1>2 DEF add_PCB, IsLowestFree
<1>5. /\ process_usage' \in Usages /\ process_usage'[p] = "IN_USE"
      /\ \A x \in Pids : x # p => process_usage'[x] = process_usage[x]
      /\ pcb_head' \in Heads /\ pcb_head'[active_task] = p
      /\ \A t \in Terms \ {active_task} : pcb_head'[t] = pcb_head[t]
  BY <1>2, <1>3, <1>4 DEF Usages, Heads
<1>5a. /\ ListsOK(process_usage', pcb_head', child_pcb)
       /\ \A x \in Pids : TailOf(pcb_head', child_pcb, active_task, x) <=> x = p
  <2>1. process_usage[p] = "NOT_USED"
    BY <1>4
  <2> QED
    BY <1>2, <1>3, <1>5, <2>1, AddFirst
<1>6. CurStack = 0 /\ 0 \in Pids /\ p # NULL
  BY <1>2, ProcsAssumption, NullIsNoPid DEF CurStack, Pids
<1>7. /\ page' = SelfPage(p) /\ esp0' = SelfKStack(p) /\ cpu' = p /\ ret' = NULL
      /\ self_esp' = [self_esp EXCEPT ![p] = Frame(0, "exec")]
      /\ esp_switch' = [esp_switch EXCEPT ![p] = Frame(0, "exec")]
      /\ kstack' = [kstack EXCEPT ![0] = "exec", ![p] = "run"]
  BY <1>1, <1>6 DEF StartProcess, SetPageAndStack
<1>8. Frame(0, "exec") \in Frames
  BY <1>6 DEF Frame, Frames, FrameKinds
<1>9. TypeOK'
  BY <1>2, <1>4, <1>6, <1>7, <1>8 DEF TypeOK, FrameKinds
<1>10. TableInv'
  BY <1>4, <1>5a DEF TableInv
<1>11. BootInv' /\ CpuStackInv'
  BY <1>6, <1>7 DEF BootInv, CpuStackInv, TypeOK
<1>12. \A t \in Terms, x \in Pids :
          IsTail(t, x)' <=> t = active_task /\ x = p
  <2> TAKE t \in Terms, x \in Pids
  <2>1. CASE t = active_task
    BY <2>1, <1>4, <1>5a DEF IsTail, Chain, TailOf
  <2>2. CASE t # active_task
    BY <2>2, <1>2, <1>4, <1>5, ChainEmpty DEF IsTail, Chain
  <2> QED
    BY <2>1, <2>2
<1>13. RunningUnlessLaunchFailed'
  BY <1>2, <1>7, <1>12 DEF RunningUnlessLaunchFailed
<1>14. WaitingFrameIsLive'
  BY <1>7, <1>12 DEF WaitingFrameIsLive
<1>15. CallerFrameIsLive'
  BY <1>2, <1>3, <1>4, NullIsNoPid DEF CallerFrameIsLive, ListsOK, FreeOK
<1> QED
  BY <1>9, <1>10, <1>11, <1>13, <1>14, <1>15

(* The execute system call that succeeds. *)
LEMMA ExecuteKeepsIInv == ASSUME IInv, Execute PROVE IInv'
<1> USE DEF IInv
<1>1. PICK p \in Pids :
        /\ add_PCB(process_usage, pcb_head, active_task, p)
        /\ StartProcess(p, "exec")
        /\ esp_switch' = [esp_switch EXCEPT ![p] = Frame(CurStack, "exec")]
  BY DEF Execute
<1>2. cpu # NULL /\ active_task' = active_task /\ CurStack = cpu
  BY DEF Execute, CurStack
<1>3. /\ process_usage \in Usages /\ pcb_head \in Heads /\ child_pcb \in Links
      /\ ListsOK(process_usage, pcb_head, child_pcb)
  BY DEF TypeOK, Usages, Heads, Links, TableInv
<1>4. /\ process_usage[p] = "NOT_USED" /\ p # NULL
      /\ process_usage' = [process_usage EXCEPT ![p] = "IN_USE"]
  BY <1>1, NullIsNoPid DEF add_PCB, IsLowestFree
<1>5. /\ cpu \in Pids /\ active_task \in Terms
      /\ IsTail(active_task, cpu) /\ get_PCB_tail(active_task) = cpu
      /\ pcb_head[active_task] # NULL
      /\ child_pcb[cpu] = NULL /\ process_usage[cpu] = "IN_USE" /\ cpu # p
  <2>1. active_task \in Terms /\ cpu \in Pids
    BY <1>2 DEF TypeOK
  <2>2. IsTail(active_task, cpu)
    BY <1>2, <1>4 DEF RunningUnlessLaunchFailed, IsFull
  <2>3. get_PCB_tail(active_task) # NULL
    BY <2>1, <2>2, TailFacts, NullIsNoPid
  <2> QED
    BY <1>2, <1>4, <2>3, CurrentIsCpu
<1>6. /\ pcb_head' = pcb_head
      /\ child_pcb' = [child_pcb EXCEPT ![cpu] = p]
  BY <1>1, <1>5 DEF add_PCB
<1>7. /\ child_pcb' \in Links /\ child_pcb'[cpu] = p
      /\ \A x \in Pids : x # cpu => child_pcb'[x] = child_pcb[x]
      /\ process_usage' \in Usages /\ process_usage'[p] = "IN_USE"
      /\ \A x \in Pids : x # p => process_usage'[x] = process_usage[x]
  BY <1>3, <1>4, <1>5, <1>6 DEF Links, Usages
<1>8. TailOf(pcb_head, child_pcb, active_task, cpu)
  BY <1>5 DEF IsTail, Chain, TailOf
<1>9. /\ ListsOK(process_usage', pcb_head, child_pcb')
      /\ \A x \in Pids :
            TailOf(pcb_head, child_pcb', active_task, x) <=> x = p
      /\ \A s \in Terms \ {active_task}, x \in Pids :
            TailOf(pcb_head, child_pcb', s, x)
              <=> TailOf(pcb_head, child_pcb, s, x)
  <2>1. process_usage[p] = "NOT_USED"
    BY <1>4
  <2> QED
    BY <1>3, <1>5, <1>7, <1>8, <2>1, AddBehindTail
<1>10. /\ page' = SelfPage(p) /\ esp0' = SelfKStack(p) /\ cpu' = p /\ ret' = NULL
       /\ self_esp' = [self_esp EXCEPT ![p] = Frame(cpu, "exec")]
       /\ esp_switch' = [esp_switch EXCEPT ![p] = Frame(cpu, "exec")]
       /\ kstack' = [kstack EXCEPT ![cpu] = "exec", ![p] = "run"]
  BY <1>1, <1>2 DEF StartProcess, SetPageAndStack
<1>11. Frame(cpu, "exec") \in Frames
  BY <1>5 DEF Frame, Frames, FrameKinds
<1>12. TypeOK'
  BY <1>2, <1>4, <1>5, <1>6, <1>10, <1>11 DEF TypeOK, FrameKinds
<1>13. TableInv'
  BY <1>6, <1>9 DEF TableInv
<1>14. BootInv' /\ CpuStackInv'
  BY <1>4, <1>10 DEF BootInv, CpuStackInv, TypeOK
<1>15. \A s \in Terms, x \in Pids :
          IsTail(s, x)' <=> IF s = active_task THEN x = p ELSE IsTail(s, x)
  BY <1>6, <1>9 DEF IsTail, Chain, TailOf
<1>16. RunningUnlessLaunchFailed'
  BY <1>2, <1>5, <1>10, <1>15 DEF RunningUnlessLaunchFailed
<1>17. WaitingFrameIsLive'
  <2> SUFFICES ASSUME NEW s \in Terms, NEW x \in Pids, IsTail(s, x)', x # cpu'
               PROVE  esp_switch'[x] = Frame(x, "tick") /\ kstack'[x] = "tick"
    BY DEF WaitingFrameIsLive, Live, Frame
  <2>1. s # active_task /\ IsTail(s, x) /\ x # p
    BY <1>10, <1>15
  <2>2. x # cpu
    BY <1>5, <2>1, TailsApart DEF IsTail
  <2>3. esp_switch[x] = Frame(x, "tick") /\ kstack[x] = "tick"
    BY <2>1, <2>2 DEF WaitingFrameIsLive, Live, Frame
  <2> QED
    BY <2>2, <2>3, <1>10 DEF TypeOK
<1>18. CallerFrameIsLive'
  <2> SUFFICES ASSUME NEW x \in Pids, NEW y \in Pids, child_pcb'[y] = x
               PROVE  self_esp'[x] = Frame(y, "exec") /\ kstack'[y] = "exec"
    BY DEF CallerFrameIsLive, Live, Frame
  <2>1. CASE y = cpu
    BY <2>1, <1>5, <1>7, <1>10 DEF TypeOK
  <2>2. CASE y # cpu
    <3>1. child_pcb[y] = x
      BY <2>2, <1>7
    <3>2. x # p /\ y # p
      BY <3>1, <1>3, <1>4, FreeHasNoParent, NullIsNoPid DEF ListsOK, FreeOK
    <3>3. self_esp[x] = Frame(y, "exec") /\ kstack[y] = "exec"
      BY <3>1 DEF CallerFrameIsLive, Live, Frame
    <3> QED
      BY <2>2, <3>2, <3>3, <1>10 DEF TypeOK
  <2> QED
    BY <2>1, <2>2
<1> QED
  BY <1>12, <1>13, <1>14, <1>16, <1>17, <1>18

(* The execute system call that fails. *)
LEMMA ExecuteFailsKeepsIInv == ASSUME IInv, ExecuteFails PROVE IInv'
<1>1. /\ UNCHANGED << process_usage, pcb_head, child_pcb, active_task, page,
                      esp0, self_esp, esp_switch, kstack, cpu >>
      /\ ret' \in -1..256
  BY DEF ExecuteFails
<1>2. TypeOK'
  BY <1>1 DEF IInv, TypeOK
<1>3. TableInv' /\ BootInv' /\ CpuStackInv'
  BY <1>1 DEF IInv, TableInv, BootInv, CpuStackInv
<1>4. \A t \in Terms, x \in Pids : IsTail(t, x)' <=> IsTail(t, x)
  BY <1>1 DEF IsTail, Chain
<1>5. RunningUnlessLaunchFailed'
  BY <1>1 DEF IInv, RunningUnlessLaunchFailed, IsTail, Chain
<1>6. WaitingFrameIsLive'
  BY <1>1, <1>4 DEF IInv, WaitingFrameIsLive, Live
<1>7. CallerFrameIsLive'
  BY <1>1 DEF IInv, CallerFrameIsLive, Live
<1> QED
  BY <1>2, <1>3, <1>5, <1>6, <1>7 DEF IInv

(* halt of a program that another program started. *)
LEMMA HaltProgramKeepsIInv ==
    ASSUME IInv, NEW status \in Status, HaltProgram(status)
    PROVE  IInv'
<1> USE DEF IInv
<1>1. /\ cpu # NULL /\ cpu \in Pids /\ active_task \in Terms
      /\ IsTail(active_task, cpu) /\ get_PCB_tail(active_task) = cpu
      /\ child_pcb[cpu] = NULL
  BY CurrentIsCpu DEF HaltProgram, unset_process_usage,
     SetPageAndStack
<1>2. PICK r \in Chain(active_task) :
        /\ child_pcb[r] = cpu
        /\ child_pcb' = [child_pcb EXCEPT ![r] = NULL]
        /\ page' = SelfPage(r)
        /\ esp0' = SelfKStack(r)
  BY <1>1 DEF HaltProgram, unset_process_usage,
     SetPageAndStack
<1>3. r \in Pids /\ r # NULL /\ r # cpu
  BY <1>1, <1>2, NullIsNoPid DEF Chain, ChainFrom
<1>4. /\ self_esp[cpu] = Frame(r, "exec") /\ self_esp[cpu].on = r
      /\ kstack[r] = "exec"
  BY <1>1, <1>2, <1>3 DEF CallerFrameIsLive, Live, Frame
<1>5. /\ pcb_head[active_task] # cpu
      /\ process_usage' = [process_usage EXCEPT ![cpu] = "NOT_USED"]
      /\ cpu' = r
      /\ kstack' = [kstack EXCEPT ![r] = "run"]
      /\ ret' = HaltStatus(status)
      /\ UNCHANGED << pcb_head, active_task, self_esp, esp_switch >>
  BY <1>1, <1>4 DEF HaltProgram, unset_process_usage,
     SetPageAndStack
<1>6. /\ process_usage \in Usages /\ pcb_head \in Heads /\ child_pcb \in Links
      /\ ListsOK(process_usage, pcb_head, child_pcb)
  BY DEF TypeOK, Usages, Heads, Links, TableInv
<1>7. /\ child_pcb' \in Links /\ child_pcb'[r] = NULL
      /\ \A x \in Pids : x # r => child_pcb'[x] = child_pcb[x]
      /\ process_usage' \in Usages /\ process_usage'[cpu] = "NOT_USED"
      /\ \A x \in Pids : x # cpu => process_usage'[x] = process_usage[x]
  BY <1>1, <1>2, <1>3, <1>5, <1>6 DEF Links, Usages
<1>8. /\ ListsOK(process_usage', pcb_head, child_pcb')
      /\ \A x \in Pids :
            TailOf(pcb_head, child_pcb', active_task, x) <=> x = r
      /\ \A s \in Terms \ {active_task}, x \in Pids :
            TailOf(pcb_head, child_pcb', s, x)
              <=> TailOf(pcb_head, child_pcb, s, x)
  <2>1. /\ TailOf(pcb_head, child_pcb, active_task, cpu)
        /\ r \in ChainFrom(pcb_head[active_task], child_pcb)
        /\ child_pcb[r] = cpu /\ pcb_head[active_task] # cpu
    BY <1>1, <1>2, <1>5 DEF IsTail, Chain, TailOf
  <2> QED
    BY <1>1, <1>6, <1>7, <2>1, RemoveTail
<1>9. TypeOK'
  <2>1. HaltStatus(status) \in -1..256
    BY ProcsAssumption DEF HaltStatus, PROG_DIED_BY_EXCEPTION
  <2>2. process_usage' \in [Pids -> {"NOT_USED", "IN_USE"}]
    BY <1>7 DEF Usages
  <2>3. child_pcb' \in [Pids -> Pids \cup {NULL}]
    BY <1>7 DEF Links
  <2> QED
    BY <1>2, <1>3, <1>5, <2>1, <2>2, <2>3 DEF TypeOK
<1>10. TableInv'
  BY <1>5, <1>8 DEF TableInv
<1>11. BootInv' /\ CpuStackInv'
  BY <1>3, <1>5 DEF BootInv, CpuStackInv, TypeOK
<1>12. \A s \in Terms, x \in Pids :
          IsTail(s, x)' <=> IF s = active_task THEN x = r ELSE IsTail(s, x)
  BY <1>5, <1>8 DEF IsTail, Chain, TailOf
<1>13. RunningUnlessLaunchFailed'
  BY <1>1, <1>2, <1>3, <1>5, <1>12 DEF RunningUnlessLaunchFailed
<1>14. WaitingFrameIsLive'
  <2> SUFFICES ASSUME NEW s \in Terms, NEW x \in Pids, IsTail(s, x)', x # cpu'
               PROVE  esp_switch'[x] = Frame(x, "tick") /\ kstack'[x] = "tick"
    BY DEF WaitingFrameIsLive, Live, Frame
  <2>1. s # active_task /\ IsTail(s, x) /\ x # r
    BY <1>5, <1>12
  <2>2. x # cpu
    BY <1>1, <2>1, TailsApart DEF IsTail
  <2>3. esp_switch[x] = Frame(x, "tick") /\ kstack[x] = "tick"
    BY <2>1, <2>2 DEF WaitingFrameIsLive, Live, Frame
  <2> QED
    BY <2>1, <2>3, <1>5 DEF TypeOK
<1>15. CallerFrameIsLive'
  <2> SUFFICES ASSUME NEW x \in Pids, NEW y \in Pids, child_pcb'[y] = x
               PROVE  self_esp'[x] = Frame(y, "exec") /\ kstack'[y] = "exec"
    BY DEF CallerFrameIsLive, Live, Frame
  <2>1. y # r /\ child_pcb[y] = x
    BY <1>7, NullIsNoPid
  <2>2. self_esp[x] = Frame(y, "exec") /\ kstack[y] = "exec"
    BY <2>1 DEF CallerFrameIsLive, Live, Frame
  <2> QED
    BY <2>1, <2>2, <1>5 DEF TypeOK
<1> QED
  BY <1>9, <1>10, <1>11, <1>13, <1>14, <1>15

(* halt of a base shell: it is removed and a new one added. *)
LEMMA HaltBaseShellKeepsIInv == ASSUME IInv, HaltBaseShell PROVE IInv'
<1> USE DEF IInv
<1> DEFINE u == [process_usage EXCEPT ![cpu] = "NOT_USED"]
           h == [pcb_head EXCEPT ![active_task] = NULL]
<1>1. /\ cpu # NULL /\ cpu \in Pids /\ active_task \in Terms
      /\ IsTail(active_task, cpu) /\ get_PCB_tail(active_task) = cpu
      /\ child_pcb[cpu] = NULL /\ CurStack = cpu
  BY CurrentIsCpu DEF HaltBaseShell, CurStack
<1>2. PICK p \in Pids :
        /\ add_PCB(u, h, active_task, p)
        /\ StartProcess(p, "exec")
        /\ esp_switch' = [esp_switch EXCEPT ![p] = Frame(CurStack, "exec")]
  BY <1>1 DEF HaltBaseShell, unset_process_usage
<1>3. pcb_head[active_task] = cpu /\ active_task' = active_task /\ p # NULL
  BY <1>1, NullIsNoPid DEF HaltBaseShell, unset_process_usage
<1>4. /\ process_usage \in Usages /\ pcb_head \in Heads /\ child_pcb \in Links
      /\ ListsOK(process_usage, pcb_head, child_pcb)
  BY DEF TypeOK, Usages, Heads, Links, TableInv
<1>5. /\ u \in Usages /\ u[cpu] = "NOT_USED"
      /\ \A x \in Pids : x # cpu => u[x] = process_usage[x]
      /\ h \in Heads /\ h[active_task] = NULL
      /\ \A s \in Terms \ {active_task} : h[s] = pcb_head[s]
  BY <1>1, <1>4 DEF Usages, Heads
<1>6. /\ u[p] = "NOT_USED"
      /\ process_usage' = [u EXCEPT ![p] = "IN_USE"]
      /\ pcb_head' = [h EXCEPT ![active_task] = p]
      /\ child_pcb' = child_pcb
  BY <1>2, <1>5 DEF add_PCB, IsLowestFree
<1>7. u[p] = "NOT_USED"
  BY <1>6
<1>8. /\ process_usage' \in Usages /\ process_usage'[p] = "IN_USE"
      /\ \A x \in Pids : x # p => process_usage'[x] = u[x]
      /\ pcb_head' \in Heads /\ pcb_head'[active_task] = p
      /\ \A s \in Terms \ {active_task} : pcb_head'[s] = h[s]
  <2> HIDE DEF u, h
  <2> QED
    BY <1>1, <1>5, <1>6 DEF Usages, Heads
<1>9. /\ page' = SelfPage(p) /\ esp0' = SelfKStack(p) /\ cpu' = p /\ ret' = NULL
      /\ self_esp' = [self_esp EXCEPT ![p] = Frame(cpu, "exec")]
      /\ esp_switch' = [esp_switch EXCEPT ![p] = Frame(cpu, "exec")]
      /\ kstack' = [kstack EXCEPT ![cpu] = "exec", ![p] = "run"]
  BY <1>1, <1>2 DEF StartProcess, SetPageAndStack
<1> HIDE DEF u, h
<1>10. ListsOK(u, h, child_pcb)
  BY <1>1, <1>3, <1>4, <1>5, RemoveBase
<1>11. /\ ListsOK(process_usage', pcb_head', child_pcb)
       /\ \A x \in Pids : TailOf(pcb_head', child_pcb, active_task, x) <=> x = p
  BY <1>1, <1>4, <1>5, <1>7, <1>8, <1>10, AddFirst
<1>12. Frame(cpu, "exec") \in Frames
  BY <1>1 DEF Frame, Frames, FrameKinds
<1>13. TypeOK'
  <2>1. process_usage' \in [Pids -> {"NOT_USED", "IN_USE"}]
    BY <1>8 DEF Usages
  <2>2. pcb_head' \in [Terms -> Pids \cup {NULL}]
    BY <1>8 DEF Heads
  <2>3. child_pcb' = child_pcb
    BY <1>6
  <2> QED
    BY <1>1, <1>3, <1>9, <1>12, <2>1, <2>2, <2>3 DEF TypeOK, FrameKinds
<1>14. TableInv'
  BY <1>6, <1>11 DEF TableInv
<1>15. BootInv' /\ CpuStackInv'
  BY <1>3, <1>9 DEF BootInv, CpuStackInv, TypeOK
<1>16. \A s \in Terms, x \in Pids :
          IsTail(s, x)' <=> IF s = active_task THEN x = p ELSE IsTail(s, x)
  <2>1. child_pcb' = child_pcb
    BY <1>6
  <2> QED
    BY <1>5, <1>8, <1>11, <2>1 DEF IsTail, Chain, TailOf
<1>17. RunningUnlessLaunchFailed'
  BY <1>1, <1>3, <1>9, <1>16 DEF RunningUnlessLaunchFailed
<1>18. WaitingFrameIsLive'
  <2> SUFFICES ASSUME NEW s \in Terms, NEW x \in Pids, IsTail(s, x)', x # cpu'
               PROVE  esp_switch'[x] = Frame(x, "tick") /\ kstack'[x] = "tick"
    BY DEF WaitingFrameIsLive, Live, Frame
  <2>1. s # active_task /\ IsTail(s, x) /\ x # p
    BY <1>9, <1>16
  <2>2. x # cpu
    BY <1>1, <2>1, TailsApart DEF IsTail
  <2>3. esp_switch[x] = Frame(x, "tick") /\ kstack[x] = "tick"
    BY <2>1, <2>2 DEF WaitingFrameIsLive, Live, Frame
  <2> QED
    BY <2>1, <2>2, <2>3, <1>9 DEF TypeOK
<1>19. CallerFrameIsLive'
  <2> SUFFICES ASSUME NEW x \in Pids, NEW y \in Pids, child_pcb'[y] = x
               PROVE  self_esp'[x] = Frame(y, "exec") /\ kstack'[y] = "exec"
    BY DEF CallerFrameIsLive, Live, Frame
  <2>1. child_pcb[y] = x /\ y # cpu
    BY <1>1, <1>6, NullIsNoPid
  <2>2. x # p /\ y # p
    BY <2>1, <1>4, <1>5, <1>7, <1>10, FreeHasNoParent, NullIsNoPid
       DEF ListsOK, FreeOK
  <2>3. self_esp[x] = Frame(y, "exec") /\ kstack[y] = "exec"
    BY <2>1 DEF CallerFrameIsLive, Live, Frame
  <2> QED
    BY <2>1, <2>2, <2>3, <1>9 DEF TypeOK
<1> QED
  BY <1>13, <1>14, <1>15, <1>17, <1>18, <1>19

(* task_switch between two terminals that both have processes. *)
LEMMA SwitchToKeepsIInv == ASSUME IInv, SwitchTo PROVE IInv'
<1> USE DEF IInv
<1> DEFINE i == get_PCB_tail(NextTask)
<1>1. /\ cpu # NULL /\ cpu \in Pids /\ active_task \in Terms
      /\ IsTail(active_task, cpu) /\ get_PCB_tail(active_task) = cpu
      /\ child_pcb[cpu] = NULL
  BY CurrentIsCpu DEF SwitchTo, SetPageAndStack, SavedAtTick
<1>2. NextTask \in Terms /\ NextTask # active_task
  BY <1>1 DEF NextTask, Terms
<1>3. i \in Pids /\ i # NULL /\ IsTail(NextTask, i) /\ child_pcb[i] = NULL
  <2>1. i # NULL
    BY DEF SwitchTo, SetPageAndStack, SavedAtTick
  <2> QED
    BY <1>2, <2>1, TailFacts DEF IsTail
<1>4. i # cpu
  BY <1>1, <1>2, <1>3, TailsApart DEF IsTail
<1>5. /\ esp_switch[i] = Frame(i, "tick") /\ esp_switch[i].on = i
      /\ kstack[i] = "tick"
  BY <1>2, <1>3, <1>4 DEF WaitingFrameIsLive, Live, Frame
<1>6. /\ active_task' = NextTask
      /\ page' = SelfPage(i) /\ esp0' = SelfKStack(i)
      /\ esp_switch' = [esp_switch EXCEPT ![cpu] = Frame(cpu, "tick")]
      /\ kstack' = [kstack EXCEPT ![cpu] = "tick", ![i] = "run"]
      /\ cpu' = i /\ ret' = NULL
      /\ UNCHANGED << process_usage, pcb_head, child_pcb, self_esp >>
  BY <1>1, <1>5 DEF SwitchTo, SetPageAndStack, SavedAtTick
<1> HIDE DEF i
<1>7. TypeOK'
  <2>1. Frame(cpu, "tick") \in Frames
    BY <1>1 DEF Frame, Frames, FrameKinds
  <2> QED
    BY <1>1, <1>2, <1>3, <1>6, <2>1 DEF TypeOK, FrameKinds
<1>8. TableInv'
  BY <1>6 DEF TableInv
<1>9. BootInv' /\ CpuStackInv'
  BY <1>3, <1>6 DEF BootInv, CpuStackInv, TypeOK
<1>10. \A s \in Terms, x \in Pids : IsTail(s, x)' <=> IsTail(s, x)
  BY <1>6 DEF IsTail, Chain
<1>11. RunningUnlessLaunchFailed'
  BY <1>2, <1>3, <1>6, <1>10 DEF RunningUnlessLaunchFailed
<1>12. WaitingFrameIsLive'
  <2> SUFFICES ASSUME NEW s \in Terms, NEW x \in Pids, IsTail(s, x)', x # cpu'
               PROVE  esp_switch'[x] = Frame(x, "tick") /\ kstack'[x] = "tick"
    BY DEF WaitingFrameIsLive, Live, Frame
  <2>1. IsTail(s, x) /\ x # i
    BY <1>6, <1>10
  <2>2. CASE x = cpu
    BY <2>1, <2>2, <1>1, <1>3, <1>6 DEF TypeOK
  <2>3. CASE x # cpu
    <3>1. esp_switch[x] = Frame(x, "tick") /\ kstack[x] = "tick"
      BY <2>1, <2>3 DEF WaitingFrameIsLive, Live, Frame
    <3> QED
      BY <2>1, <2>3, <3>1, <1>6 DEF TypeOK
  <2> QED
    BY <2>2, <2>3
<1>13. CallerFrameIsLive'
  <2> SUFFICES ASSUME NEW x \in Pids, NEW y \in Pids, child_pcb'[y] = x
               PROVE  self_esp'[x] = Frame(y, "exec") /\ kstack'[y] = "exec"
    BY DEF CallerFrameIsLive, Live, Frame
  <2>1. child_pcb[y] = x /\ y # cpu /\ y # i
    BY <1>1, <1>3, <1>6, NullIsNoPid
  <2>2. self_esp[x] = Frame(y, "exec") /\ kstack[y] = "exec"
    BY <2>1 DEF CallerFrameIsLive, Live, Frame
  <2> QED
    BY <2>1, <2>2, <1>6 DEF TypeOK
<1> QED
  BY <1>7, <1>8, <1>9, <1>11, <1>12, <1>13

(* task_switch that launches the base shell of the next terminal. *)
LEMMA LaunchKeepsIInv == ASSUME IInv, Launch PROVE IInv'
<1> USE DEF IInv
<1>1. /\ cpu # NULL /\ cpu \in Pids /\ active_task \in Terms
      /\ IsTail(active_task, cpu) /\ get_PCB_tail(active_task) = cpu
      /\ child_pcb[cpu] = NULL /\ process_usage[cpu] = "IN_USE"
      /\ CurStack = cpu
  BY CurrentIsCpu DEF Launch, CurStack
<1>2. NextTask \in Terms /\ NextTask # active_task
  BY <1>1 DEF NextTask, Terms
<1>3. active_task' = NextTask /\ pcb_head[NextTask] = NULL
  BY <1>2, TailFacts DEF Launch, SavedAtTick
<1>4. PICK p \in Pids :
        /\ add_PCB(process_usage, pcb_head, NextTask, p)
        /\ StartProcess(p, "tick")
        /\ esp_switch' = [esp_switch EXCEPT ![cpu] = Frame(cpu, "tick"),
                                            ![p] = Frame(cpu, "exec")]
  BY <1>1 DEF Launch, SavedAtTick
<1>5. /\ process_usage \in Usages /\ pcb_head \in Heads /\ child_pcb \in Links
      /\ ListsOK(process_usage, pcb_head, child_pcb)
  BY DEF TypeOK, Usages, Heads, Links, TableInv
<1>6. /\ process_usage[p] = "NOT_USED"
      /\ process_usage' = [process_usage EXCEPT ![p] = "IN_USE"]
      /\ pcb_head' = [pcb_head EXCEPT ![NextTask] = p]
      /\ child_pcb' = child_pcb
  BY <1>3, <1>4 DEF add_PCB, IsLowestFree
<1>7. process_usage[p] = "NOT_USED" /\ p # cpu /\ p # NULL
  BY <1>1, <1>6, NullIsNoPid
<1>8. /\ process_usage' \in Usages /\ process_usage'[p] = "IN_USE"
      /\ \A x \in Pids : x # p => process_usage'[x] = process_usage[x]
      /\ pcb_head' \in Heads /\ pcb_head'[NextTask] = p
      /\ \A s \in Terms \ {NextTask} : pcb_head'[s] = pcb_head[s]
  BY <1>2, <1>5, <1>6 DEF Usages, Heads
<1>9. /\ ListsOK(process_usage', pcb_head', child_pcb)
      /\ \A x \in Pids : TailOf(pcb_head', child_pcb, NextTask, x) <=> x = p
  BY <1>2, <1>3, <1>5, <1>7, <1>8, AddFirst
<1>10. /\ page' = SelfPage(p) /\ esp0' = SelfKStack(p) /\ cpu' = p /\ ret' = NULL
       /\ self_esp' = [self_esp EXCEPT ![p] = Frame(cpu, "exec")]
       /\ kstack' = [kstack EXCEPT ![cpu] = "tick", ![p] = "run"]
  BY <1>1, <1>4 DEF StartProcess, SetPageAndStack
<1>11. Frame(cpu, "exec") \in Frames /\ Frame(cpu, "tick") \in Frames
  BY <1>1 DEF Frame, Frames, FrameKinds
<1>12. TypeOK'
  <2>1. process_usage' \in [Pids -> {"NOT_USED", "IN_USE"}]
    BY <1>8 DEF Usages
  <2>2. pcb_head' \in [Terms -> Pids \cup {NULL}]
    BY <1>8 DEF Heads
  <2>3. child_pcb' = child_pcb
    BY <1>6
  <2> QED
    BY <1>2, <1>3, <1>4, <1>10, <1>11, <2>1, <2>2, <2>3 DEF TypeOK, FrameKinds
<1>13. TableInv'
  BY <1>6, <1>9 DEF TableInv
<1>14. BootInv' /\ CpuStackInv'
  BY <1>7, <1>10 DEF BootInv, CpuStackInv, TypeOK
<1>15. \A s \in Terms, x \in Pids :
          IsTail(s, x)' <=> IF s = NextTask THEN x = p ELSE IsTail(s, x)
  <2>1. child_pcb' = child_pcb
    BY <1>6
  <2> QED
    BY <1>8, <1>9, <2>1 DEF IsTail, Chain, TailOf
<1>16. RunningUnlessLaunchFailed'
  BY <1>2, <1>3, <1>10, <1>15 DEF RunningUnlessLaunchFailed
<1>17. WaitingFrameIsLive'
  <2> SUFFICES ASSUME NEW s \in Terms, NEW x \in Pids, IsTail(s, x)', x # cpu'
               PROVE  esp_switch'[x] = Frame(x, "tick") /\ kstack'[x] = "tick"
    BY DEF WaitingFrameIsLive, Live, Frame
  <2>1. IsTail(s, x) /\ x # p
    BY <1>10, <1>15
  <2>2. CASE x = cpu
    BY <2>1, <2>2, <1>1, <1>4, <1>10 DEF TypeOK
  <2>3. CASE x # cpu
    <3>1. esp_switch[x] = Frame(x, "tick") /\ kstack[x] = "tick"
      BY <2>1, <2>3 DEF WaitingFrameIsLive, Live, Frame
    <3> QED
      BY <2>1, <2>3, <3>1, <1>4, <1>10 DEF TypeOK
  <2> QED
    BY <2>2, <2>3
<1>18. CallerFrameIsLive'
  <2> SUFFICES ASSUME NEW x \in Pids, NEW y \in Pids, child_pcb'[y] = x
               PROVE  self_esp'[x] = Frame(y, "exec") /\ kstack'[y] = "exec"
    BY DEF CallerFrameIsLive, Live, Frame
  <2>1. child_pcb[y] = x /\ y # cpu
    BY <1>1, <1>6, NullIsNoPid
  <2>2. x # p /\ y # p
    BY <2>1, <1>5, <1>7, FreeHasNoParent, NullIsNoPid DEF ListsOK, FreeOK
  <2>3. self_esp[x] = Frame(y, "exec") /\ kstack[y] = "exec"
    BY <2>1 DEF CallerFrameIsLive, Live, Frame
  <2> QED
    BY <2>1, <2>2, <2>3, <1>10 DEF TypeOK
<1> QED
  BY <1>12, <1>13, <1>14, <1>16, <1>17, <1>18

(* task_switch that finds no slot for that shell. *)
LEMMA LaunchFailsKeepsIInv == ASSUME IInv, LaunchFails PROVE IInv'
<1> USE DEF IInv
<1>1. /\ cpu # NULL /\ cpu \in Pids /\ active_task \in Terms
      /\ get_PCB_tail(active_task) = cpu
  BY CurrentIsCpu DEF LaunchFails, SavedAtTick
<1>2. NextTask \in Terms
  BY <1>1 DEF NextTask, Terms
<1>3. /\ active_task' = NextTask /\ pcb_head[NextTask] = NULL
      /\ IsFull(process_usage)
      /\ esp_switch' = [esp_switch EXCEPT ![cpu] = Frame(cpu, "tick")]
      /\ ret' = NULL
      /\ UNCHANGED << process_usage, pcb_head, child_pcb, page, esp0, self_esp,
                      kstack, cpu >>
  BY <1>1, <1>2, TailFacts DEF LaunchFails, SavedAtTick
<1>4. TypeOK'
  <2>1. Frame(cpu, "tick") \in Frames
    BY <1>1 DEF Frame, Frames, FrameKinds
  <2> QED
    BY <1>2, <1>3, <2>1 DEF TypeOK
<1>5. TableInv' /\ BootInv' /\ CpuStackInv'
  BY <1>1, <1>3 DEF TableInv, BootInv, CpuStackInv
<1>6. RunningUnlessLaunchFailed'
  BY <1>3 DEF RunningUnlessLaunchFailed, IsFull
<1>7. WaitingFrameIsLive'
  <2> SUFFICES ASSUME NEW s \in Terms, NEW x \in Pids, IsTail(s, x)', x # cpu'
               PROVE  esp_switch'[x] = Frame(x, "tick") /\ kstack'[x] = "tick"
    BY DEF WaitingFrameIsLive, Live, Frame
  <2>1. IsTail(s, x) /\ x # cpu
    BY <1>3 DEF IsTail, Chain
  <2>2. esp_switch[x] = Frame(x, "tick") /\ kstack[x] = "tick"
    BY <2>1 DEF WaitingFrameIsLive, Live, Frame
  <2> QED
    BY <2>1, <2>2, <1>3 DEF TypeOK
<1>8. CallerFrameIsLive'
  BY <1>3 DEF CallerFrameIsLive, Live
<1> QED
  BY <1>4, <1>5, <1>6, <1>7, <1>8

(* An exception ends a process the way halt does: the steps of Next are    *)
(* those of the other actions.                                             *)
LEMMA StepCases ==
    ASSUME Next
    PROVE  \/ Boot \/ Execute \/ ExecuteFails \/ HaltBaseShell
           \/ \E status \in Status : HaltProgram(status)
           \/ SwitchTo \/ Launch \/ LaunchFails
BY ProcsAssumption DEF Next, handle_exception

(* Every step keeps the invariant. *)
THEOREM NextKeepsIInv == IInv /\ [Next]_vars => IInv'
<1> SUFFICES ASSUME IInv, [Next]_vars PROVE IInv'
  OBVIOUS
<1>1. CASE UNCHANGED vars
  <2>1. TypeOK' /\ TableInv' /\ BootInv' /\ CpuStackInv'
    BY <1>1 DEF IInv, vars, TypeOK, TableInv, BootInv, CpuStackInv
  <2>2. RunningUnlessLaunchFailed'
    BY <1>1 DEF IInv, vars, RunningUnlessLaunchFailed, IsTail, Chain
  <2>3. WaitingFrameIsLive' /\ CallerFrameIsLive'
    BY <1>1 DEF IInv, vars, WaitingFrameIsLive, CallerFrameIsLive, IsTail,
                Chain, Live
  <2> QED
    BY <2>1, <2>2, <2>3 DEF IInv
<1> QED
  BY <1>1, BootKeepsIInv, ExecuteKeepsIInv, ExecuteFailsKeepsIInv,
     HaltProgramKeepsIInv, HaltBaseShellKeepsIInv, SwitchToKeepsIInv,
     LaunchKeepsIInv, LaunchFailsKeepsIInv, StepCases

(* The types of all variables, the agreement of usage table and PCB lists, *)
(* the single foreground process, the liveness of every frame task_switch  *)
(* or halt will load: they hold in every reachable state, for every number *)
(* of slots and whether or not programs run before the base shells are up. *)
THEOREM ProcsSafety ==
    Spec => [](/\ TypeOK
               /\ FreeSlotHasNoChild
               /\ SlotsMatchLists
               /\ OneForeground
               /\ RunningUnlessLaunchFailed
               /\ WaitingFrameIsLive
               /\ CallerFrameIsLive)
<1>1. IInv => /\ TypeOK
              /\ FreeSlotHasNoChild
              /\ SlotsMatchLists
              /\ OneForeground
              /\ RunningUnlessLaunchFailed
              /\ WaitingFrameIsLive
              /\ CallerFrameIsLive
  <2> SUFFICES ASSUME IInv
               PROVE  FreeSlotHasNoChild /\ SlotsMatchLists /\ OneForeground
    BY DEF IInv
  <2>1. FreeSlotHasNoChild
    BY DEF IInv, TableInv, ListsOK, FreeOK, FreeSlotHasNoChild
  <2>2. SlotsMatchLists
    BY DEF IInv, TableInv, ListsOK, UsedOK, ApartOK, SlotsMatchLists, Chain
  <2>3. OneForeground
    BY DEF IInv, TableInv, ListsOK, SomeTailOK, OneTailOK, TailOf,
           OneForeground, IsTail, Chain
  <2> QED
    BY <2>1, <2>2, <2>3
<1> QED
  BY <1>1, InitIInv, NextKeepsIInv, PTL DEF Spec

\* Positions, pages and frames are where the memory layout allows them.
THEOREM ProcsTypes == Spec => []TypeOK
BY ProcsSafety, PTL

(* The usage table and the three PCB lists agree, through all reuse of the *)
(* slots by add_PCB, halt and the launches.                                *)
THEOREM ProcsTable == Spec => []SlotsMatchLists
BY ProcsSafety, PTL

(* Every stack pointer task_switch will load for a process that waits is   *)
(* one that task_switch left on that process's own stack.                  *)
THEOREM ProcsFrames == Spec => []WaitingFrameIsLive
BY ProcsSafety, PTL

(* Only a launch that finds all slots taken parts the CPU from the         *)
(* foreground process of active_task.                                      *)
THEOREM ProcsRunningUnless == Spec => []RunningUnlessLaunchFailed
BY ProcsSafety, PTL

(* A process that leaves its parent's list hands the CPU to that parent,   *)
(* with the parent's page and kernel stack: for every number of slots.     *)
THEOREM ProcsHaltReturns == Spec => HaltReturnsToParent
<1> DEFINE Returns ==
      \A q \in Pids : child_pcb[q] # NULL /\ child_pcb'[q] = NULL =>
          cpu' = q /\ page' = SelfPage(q) /\ esp0' = SelfKStack(q)
<1>1. ASSUME IInv, [Next]_vars PROVE [Returns]_vars
  <2> SUFFICES ASSUME Next, NEW q \in Pids,
                      child_pcb[q] # NULL, child_pcb'[q] = NULL
               PROVE  cpu' = q /\ page' = SelfPage(q) /\ esp0' = SelfKStack(q)
    BY <1>1
  <2>0. child_pcb \in Links /\ q # cpu
    <3>1. child_pcb \in Links
      BY <1>1 DEF IInv, TypeOK, Links
    <3>2. ASSUME q = cpu PROVE FALSE
      <4>1. cpu # NULL /\ kstack[q] = "run"
        BY <1>1, <3>2, NullIsNoPid DEF IInv, CpuStackInv
      <4>2. child_pcb[q] \in Pids
        BY <3>1 DEF Links
      <4>3. self_esp[child_pcb[q]] = Frame(q, "exec") /\ kstack[q] = "exec"
        BY <1>1, <4>2 DEF IInv, CallerFrameIsLive, Live, Frame
      <4> QED
        BY <4>1, <4>3
    <3> QED
      BY <3>1, <3>2
  <2>1. ASSUME child_pcb' = child_pcb PROVE FALSE
    BY <2>1
  <2>2. CASE Boot
    <3>1. \A t \in Terms : pcb_head[t] = NULL
      BY <1>1, <2>2 DEF Boot, IInv, BootInv
    <3>2. PICK p \in Pids :
            add_PCB(process_usage, pcb_head, active_task, p)
      BY <2>2 DEF Boot
    <3>3. pcb_head[active_task] = NULL
      BY <1>1, <3>1 DEF IInv, TypeOK
    <3> QED
      BY <2>1, <3>2, <3>3 DEF add_PCB
  <2>3. CASE Execute
    <3>1. PICK p \in Pids :
            add_PCB(process_usage, pcb_head, active_task, p)
      BY <2>3 DEF Execute
    <3>2. CASE pcb_head[active_task] = NULL
      BY <2>1, <3>1, <3>2 DEF add_PCB
    <3>3. CASE pcb_head[active_task] # NULL
      BY <2>0, <3>1, <3>3, NullIsNoPid DEF add_PCB, Links
    <3> QED
      BY <3>2, <3>3
  <2>4. ASSUME NEW status \in Status, HaltProgram(status)
        PROVE  cpu' = q /\ page' = SelfPage(q) /\ esp0' = SelfKStack(q)
    <3>1. get_PCB_tail(active_task) = cpu /\ cpu \in Pids
      BY <1>1, <2>4, CurrentIsCpu DEF HaltProgram, unset_process_usage,
     SetPageAndStack
    <3>2. PICK r \in Chain(active_task) :
            /\ child_pcb[r] = cpu
            /\ child_pcb' = [child_pcb EXCEPT ![r] = NULL]
            /\ page' = SelfPage(r) /\ esp0' = SelfKStack(r)
      BY <2>4, <3>1 DEF HaltProgram, unset_process_usage,
     SetPageAndStack
    <3>3. r \in Pids /\ r = q
      BY <2>0, <3>2 DEF Links, Chain, ChainFrom
    <3>4. self_esp[cpu] = Frame(r, "exec")
      BY <1>1, <3>1, <3>2, <3>3 DEF IInv, CallerFrameIsLive
    <3>5. self_esp[cpu].on = r
      BY <3>4 DEF Frame
    <3> QED
      BY <2>4, <3>1, <3>2, <3>3, <3>5 DEF HaltProgram, unset_process_usage,
     SetPageAndStack
  <2>5. CASE HaltBaseShell
    <3>1. active_task \in Terms /\ pcb_head \in [Terms -> Pids \cup {NULL}]
      BY <1>1 DEF IInv, TypeOK
    <3> QED
      BY <2>1, <2>5, <3>1 DEF HaltBaseShell, add_PCB
  <2>6. CASE Launch
    <3>1. NextTask \in Terms
      BY <1>1 DEF IInv, TypeOK, NextTask, Terms
    <3>2. pcb_head[NextTask] = NULL
      BY <1>1, <2>6, <3>1, TailFacts DEF IInv, Launch
    <3> QED
      BY <2>1, <2>6, <3>2 DEF Launch, add_PCB
  <2>7. CASE ExecuteFails \/ SwitchTo \/ LaunchFails
    BY <2>1, <2>7 DEF ExecuteFails, SwitchTo, LaunchFails
  <2> QED
    BY <2>2, <2>3, <2>4, <2>5, <2>6, <2>7, StepCases
<1> QED
  BY <1>1, InitIInv, NextKeepsIInv, PTL DEF Spec, HaltReturnsToParent

-----------------------------------------------------------------------------
(* If no program runs before the base shells are up, the launches cannot   *)
(* run out of slots, and RunningIsForeground holds without exception.      *)

\* Until then each terminal has at most its base shell.
EarlyInv == ~ShellsUp => \A p \in Pids : child_pcb[p] = NULL

(* Three slots cannot be filled by fewer than three base shells. *)
LEMMA FullMeansShellsUp ==
    ASSUME TypeOK, TableInv, IsFull(process_usage),
           \A p \in Pids : child_pcb[p] = NULL
    PROVE  ShellsUp
<1>1. ASSUME NEW p \in Pids PROVE \E t \in Terms : pcb_head[t] = p
  <2>1. PICK t \in Terms : p \in ChainFrom(pcb_head[t], child_pcb)
    BY DEF IsFull, TableInv, ListsOK, UsedOK
  <2>2. pcb_head[t] \in Pids
    BY <2>1, ChainEmpty DEF TypeOK
  <2>3. ChainFrom(pcb_head[t], child_pcb) = {pcb_head[t]}
    BY <2>2, ChainSingle
  <2> QED
    BY <2>1, <2>3
<1>2. 0 \in Pids /\ 1 \in Pids /\ 2 \in Pids
  BY ProcsAssumption DEF Pids
<1>3. PICK a \in Terms : pcb_head[a] = 0
  BY <1>1, <1>2
<1>4. PICK b \in Terms : pcb_head[b] = 1
  BY <1>1, <1>2
<1>5. PICK c \in Terms : pcb_head[c] = 2
  BY <1>1, <1>2
<1>6. a # b /\ a # c /\ b # c
  BY <1>3, <1>4, <1>5
<1>7. \A t \in Terms : t = a \/ t = b \/ t = c
  BY <1>6 DEF Terms
<1>8. \A t \in Terms : pcb_head[t] \in {0, 1, 2}
  BY <1>3, <1>4, <1>5, <1>7
<1> QED
  BY <1>8, <1>2, NullIsNoPid DEF ShellsUp

(* Before the shells are up no program is started. *)
LEMMA EarlyNext ==
    ASSUME ~ExecBeforeShells, IInv, EarlyInv, [Next]_vars
    PROVE  EarlyInv'
<1> SUFFICES ASSUME ~ShellsUp' PROVE \A p \in Pids : child_pcb'[p] = NULL
  BY DEF EarlyInv
<1>1. ASSUME ~ShellsUp, child_pcb' = child_pcb
      PROVE  \A p \in Pids : child_pcb'[p] = NULL
  BY <1>1 DEF EarlyInv
<1>2. /\ pcb_head \in [Terms -> Pids \cup {NULL}] /\ active_task \in Terms
      /\ NextTask \in Terms
  BY DEF IInv, TypeOK, NextTask, Terms
<1>3. CASE Boot
  <2>1. \A t \in Terms : pcb_head[t] = NULL
    BY <1>3 DEF Boot, IInv, BootInv
  <2> QED
    BY <1>1, <1>2, <1>3, <2>1 DEF Boot, add_PCB, ShellsUp
<1>4. CASE Execute
  <2>1. ShellsUp /\ pcb_head' = pcb_head
    BY <1>2, <1>4 DEF Execute, add_PCB, ShellsUp
  <2> QED
    BY <2>1 DEF ShellsUp
<1>5. ASSUME NEW status \in Status, HaltProgram(status)
      PROVE  \A p \in Pids : child_pcb'[p] = NULL
  <2>1. ~ShellsUp
    BY <1>5 DEF HaltProgram, ShellsUp
  <2>2. PICK r : child_pcb' = [child_pcb EXCEPT ![r] = NULL]
    BY <1>5 DEF HaltProgram, unset_process_usage,
   SetPageAndStack
  <2> QED
    BY <2>1, <2>2 DEF EarlyInv, IInv, TypeOK
<1>6. CASE HaltBaseShell
  <2>1. PICK p \in Pids :
          /\ pcb_head' = [[pcb_head EXCEPT ![active_task] = NULL]
                            EXCEPT ![active_task] = p]
          /\ child_pcb' = child_pcb
    BY <1>2, <1>6 DEF HaltBaseShell, add_PCB
  <2>2. ~ShellsUp
    BY <1>2, <2>1, NullIsNoPid DEF ShellsUp
  <2> QED
    BY <1>1, <2>1, <2>2
<1>7. CASE Launch
  <2>1. pcb_head[NextTask] = NULL
    BY <1>2, <1>7, TailFacts DEF IInv, Launch
  <2> QED
    BY <1>1, <1>2, <1>7, <2>1 DEF Launch, add_PCB, ShellsUp
<1>8. CASE ExecuteFails \/ SwitchTo \/ LaunchFails \/ UNCHANGED vars
  BY <1>1, <1>8 DEF ExecuteFails, SwitchTo, LaunchFails, ShellsUp, vars
<1> QED
  BY <1>3, <1>4, <1>5, <1>6, <1>7, <1>8, StepCases

(* No launch leaves active_task without a process. *)
LEMMA EarlyRunning == IInv /\ EarlyInv => RunningIsForeground
<1> SUFFICES ASSUME IInv, EarlyInv, cpu # NULL
             PROVE  RunningIsForeground
  BY DEF RunningIsForeground
<1>1. active_task \in Terms
  BY DEF IInv, TypeOK
<1>2. ~(pcb_head[active_task] = NULL /\ IsFull(process_usage))
  BY <1>1, FullMeansShellsUp DEF IInv, EarlyInv, ShellsUp
<1> QED
  BY <1>2 DEF IInv, RunningUnlessLaunchFailed, RunningIsForeground

(* Then the CPU always runs the foreground process of active_task, in its  *)
(* page and with its kernel stack, and no launch fails.                    *)
THEOREM ProcsRunning ==
    ASSUME ~ExecBeforeShells
    PROVE  Spec => []RunningIsForeground
<1>1. Init => EarlyInv
  BY DEF Init, EarlyInv
<1>2. (IInv /\ EarlyInv) /\ [Next]_vars => (IInv /\ EarlyInv)'
  BY EarlyNext, NextKeepsIInv
<1> QED
  BY <1>1, <1>2, EarlyRunning, InitIInv, PTL DEF Spec

-----------------------------------------------------------------------------
(* The PCB lists as sequences. *)

(* Every non-empty set of naturals has a least element. *)
LEMMA LeastNat ==
    ASSUME NEW S \in SUBSET Nat, S # {}
    PROVE  \E n \in S : \A m \in S : n <= m
<1> DEFINE R == OpToRel(<, Nat)
<1>1. IsWellFoundedOn(R, Nat)
  BY NatLessThanWellFounded
<1>2. \A i, j \in Nat : i < j => << i, j >> \in R
  BY DEF OpToRel
<1> HIDE DEF R
<1>3. PICK n \in S : \A m \in S : ~ (<< m, n >> \in R)
  BY <1>1, WFMin
<1>4. ASSUME NEW m \in S PROVE n <= m
  <2>1. m \in Nat /\ n \in Nat
    OBVIOUS
  <2>2. ~(m < n)
    BY <1>2, <1>3, <2>1
  <2> QED
    BY <2>1, <2>2
<1> QED
  BY <1>3, <1>4

\* s is the list that starts at h and is linked by c, and no PCB is twice on it.
IsList(s, h, c) ==
    /\ s \in Seq(Pids)
    /\ \A i, j \in 1..Len(s) : s[i] = s[j] => i = j
    /\ Len(s) = 0 <=> h = NULL
    /\ Len(s) > 0 => s[1] = h /\ c[s[Len(s)]] = NULL
    /\ \A i \in 1..(Len(s) - 1) : c[s[i]] = s[i + 1]

\* What a pass of the loop finds, if the one before found g[n - 1].
Link(h, c, g, n) ==
    IF n = 1 THEN h ELSE IF g[n - 1] = NULL THEN NULL ELSE c[g[n - 1]]

(* The loop over child_pcb has one run. *)
LEMMA OneVisit ==
    ASSUME NEW h, NEW c, NEW W,
           W = [n \in 1..MAX_PROCESSES |-> Link(h, c, W, n)]
    PROVE  Visited(h, c) = W
<1> DEFINE G == CHOOSE g : g = [n \in 1..MAX_PROCESSES |-> Link(h, c, g, n)]
<1>0. MAX_PROCESSES \in Nat
  BY ProcsAssumption
<1>1. G = [n \in 1..MAX_PROCESSES |-> Link(h, c, G, n)]
  BY Zenon
<1>2. Visited(h, c) = G
  BY Zenon DEF Visited, Link
<1> HIDE DEF G
<1>3. \A n \in 1..MAX_PROCESSES : /\ G[n] = Link(h, c, G, n)
                                  /\ W[n] = Link(h, c, W, n)
  BY <1>1
<1> DEFINE B == {n \in 1..MAX_PROCESSES : G[n] # W[n]}
<1>4. ASSUME B # {} PROVE FALSE
  <2>1. B \in SUBSET Nat
    BY <1>0
  <2>2. PICK n \in B : \A m \in B : n <= m
    <3> HIDE DEF B
    <3> QED
      BY <1>4, <2>1, LeastNat
  <2>3. n \in 1..MAX_PROCESSES /\ G[n] # W[n]
    OBVIOUS
  <2>4. CASE n = 1
    BY <1>3, <2>3, <2>4 DEF Link
  <2>5. CASE n # 1
    <3>1. n - 1 \in 1..MAX_PROCESSES /\ ~(n <= n - 1)
      BY <1>0, <2>3, <2>5
    <3>2. G[n - 1] = W[n - 1]
      BY <2>2, <3>1
    <3>3. Link(h, c, G, n) = Link(h, c, W, n)
      BY <2>5, <3>2, Zenon DEF Link
    <3> QED
      BY <1>3, <2>3, <3>3
  <2> QED
    BY <2>4, <2>5
<1>5. G = W
  BY <1>1, <1>4
<1> QED
  BY <1>2, <1>5

(* A list is no longer than the table of slots. *)
LEMMA ListFits ==
    ASSUME NEW s, NEW h, NEW c, IsList(s, h, c)
    PROVE  Len(s) \in 0..MAX_PROCESSES
<1>0. MAX_PROCESSES \in Nat
  BY ProcsAssumption
<1>1. /\ Len(s) \in Nat /\ s \in [1..Len(s) -> Pids]
      /\ \A i, j \in 1..Len(s) : s[i] = s[j] => i = j
  BY DEF IsList
<1>2. s \in Injection(1..Len(s), Pids)
  BY <1>1 DEF Injection, IsInjective
<1>3. IsFiniteSet(Pids) /\ Cardinality(Pids) = MAX_PROCESSES
  BY <1>0, FS_Interval, ProcsAssumption DEF Pids
<1>4. Cardinality(1..Len(s)) = Len(s)
  BY <1>1, FS_Interval
<1>5. Cardinality(1..Len(s)) <= Cardinality(Pids)
  BY <1>2, <1>3, FS_Injection
<1> QED
  BY <1>0, <1>1, <1>3, <1>4, <1>5

(* The loop visits the list, and ListFrom is that list. *)
LEMMA ListIs ==
    ASSUME NEW s, NEW h, NEW c, IsList(s, h, c)
    PROVE  ListFrom(h, c) = s
<1> DEFINE W == [n \in 1..MAX_PROCESSES |-> IF n <= Len(s) THEN s[n] ELSE NULL]
<1>1. /\ Len(s) \in Nat /\ MAX_PROCESSES \in Nat /\ Len(s) <= MAX_PROCESSES
      /\ \A i \in 1..Len(s) : s[i] \in Pids /\ s[i] # NULL
      /\ s = [i \in 1..Len(s) |-> s[i]]
  <2>1. s \in Seq(Pids) /\ Len(s) \in Nat
    BY DEF IsList
  <2>2. \A i \in 1..Len(s) : s[i] \in Pids /\ s[i] # NULL
    BY <2>1, NullIsNoPid
  <2>3. s = [i \in 1..Len(s) |-> s[i]]
    BY <2>1
  <2>4. MAX_PROCESSES \in Nat /\ Len(s) \in 0..MAX_PROCESSES
    BY ListFits, ProcsAssumption
  <2> QED
    BY <2>1, <2>2, <2>3, <2>4
<1>2. \A n \in 1..MAX_PROCESSES : W[n] = IF n <= Len(s) THEN s[n] ELSE NULL
  OBVIOUS
<1>3. W = [n \in 1..MAX_PROCESSES |-> W[n]]
  OBVIOUS
<1> HIDE DEF W
<1>4. ASSUME NEW n \in 1..MAX_PROCESSES PROVE W[n] = Link(h, c, W, n)
  <2>1. CASE n = 1
    <3>1. W[n] = h
      BY <1>1, <1>2, <2>1 DEF IsList
    <3> QED
      BY <2>1, <3>1 DEF Link
  <2>2. CASE n # 1
    <3>1. n - 1 \in 1..MAX_PROCESSES /\ n \in Nat
      BY <1>1, <2>2
    <3>2. W[n - 1] = IF n - 1 <= Len(s) THEN s[n - 1] ELSE NULL
      BY <1>2, <3>1
    <3>3. CASE n - 1 > Len(s)
      BY <1>1, <1>2, <2>2, <3>1, <3>2, <3>3 DEF Link
    <3>4. CASE n - 1 = Len(s)
      <4>1. W[n - 1] = s[Len(s)] /\ W[n - 1] # NULL /\ Len(s) > 0
        BY <1>1, <3>1, <3>2, <3>4
      <4>2. c[W[n - 1]] = NULL
        BY <4>1 DEF IsList
      <4>3. W[n] = NULL
        BY <1>1, <1>2, <3>1, <3>4
      <4> QED
        BY <2>2, <4>1, <4>2, <4>3 DEF Link
    <3>5. CASE n - 1 < Len(s)
      <4>1. n - 1 \in 1..(Len(s) - 1) /\ n - 1 \in 1..Len(s) /\ n <= Len(s)
        BY <1>1, <3>1, <3>5
      <4>2. c[s[n - 1]] = s[(n - 1) + 1]
        BY <4>1 DEF IsList
      <4>3. (n - 1) + 1 = n
        BY <3>1
      <4>4. W[n - 1] = s[n - 1] /\ W[n] = s[n] /\ W[n - 1] # NULL
        BY <1>1, <1>2, <3>2, <4>1
      <4> QED
        BY <2>2, <4>2, <4>3, <4>4 DEF Link
    <3> QED
      BY <1>1, <3>1, <3>3, <3>4, <3>5
  <2> QED
    BY <2>1, <2>2
<1>5. W = [n \in 1..MAX_PROCESSES |-> Link(h, c, W, n)]
  BY <1>3, <1>4
<1>6. Visited(h, c) = W
  BY <1>5, OneVisit
<1>7. {n \in 1..MAX_PROCESSES : W[n] # NULL} = 1..Len(s)
  BY <1>1, <1>2
<1>8. Cardinality(1..Len(s)) = Len(s)
  <2>1. PICK n \in Nat : n = Len(s)
    BY <1>1
  <2>2. Cardinality(1..n) = n
    BY FS_Interval
  <2> QED
    BY <2>1, <2>2
<1>9. ListFrom(h, c) = [i \in 1..Len(s) |-> W[i]]
  BY <1>6, <1>7, <1>8, Zenon DEF ListFrom
<1>10. [i \in 1..Len(s) |-> W[i]] = [i \in 1..Len(s) |-> s[i]]
  BY <1>1, <1>2
<1> QED
  BY <1>1, <1>9, <1>10

(* The PCBs of the sequence are those of the chain. *)
LEMMA ListChain ==
    ASSUME NEW s, NEW h, NEW c \in Links, IsList(s, h, c)
    PROVE  ChainFrom(h, c) = {s[i] : i \in 1..Len(s)}
<1> DEFINE S == {s[i] : i \in 1..Len(s)}
<1>1. Len(s) \in Nat /\ \A i \in 1..Len(s) : s[i] \in Pids /\ s[i] # NULL
  BY NullIsNoPid DEF IsList
<1>2. ChainFrom(h, c) \subseteq S
  <2>1. S \in SUBSET Pids /\ h \in S \cup {NULL}
    BY <1>1 DEF IsList
  <2>2. ASSUME NEW i \in 1..Len(s) PROVE c[s[i]] \in S \cup {NULL}
    <3>1. CASE i = Len(s)
      BY <1>1, <3>1 DEF IsList
    <3>2. CASE i # Len(s)
      <4>1. i \in 1..(Len(s) - 1) /\ i + 1 \in 1..Len(s)
        BY <1>1, <3>2
      <4> QED
        BY <4>1 DEF IsList
    <3> QED
      BY <3>1, <3>2
  <2>3. Closed(c, S)
    BY <2>2 DEF Closed
  <2> QED
    BY <2>1, <2>3, ChainLeast
<1>3. ASSUME NEW j \in 1..Len(s), s[j] \notin ChainFrom(h, c) PROVE FALSE
  <2> DEFINE B == {i \in 1..Len(s) : s[i] \notin ChainFrom(h, c)}
  <2>1. B \in SUBSET Nat /\ B # {}
    BY <1>1, <1>3
  <2>2. PICK n \in B : \A m \in B : n <= m
    <3> HIDE DEF B
    <3> QED
      BY <2>1, LeastNat
  <2>3. n \in 1..Len(s) /\ s[n] \notin ChainFrom(h, c)
    OBVIOUS
  <2>4. CASE n = 1
    BY <1>1, <2>3, <2>4, ChainHead DEF IsList
  <2>5. CASE n # 1
    <3>1. n - 1 \in 1..(Len(s) - 1) /\ n - 1 \in 1..Len(s) /\ ~(n <= n - 1)
            /\ (n - 1) + 1 = n
      BY <1>1, <2>3, <2>5
    <3>2. s[n - 1] \in ChainFrom(h, c)
      BY <2>2, <3>1
    <3>3. c[s[n - 1]] = s[n]
      BY <3>1 DEF IsList
    <3> QED
      BY <1>1, <2>3, <3>2, <3>3, ChainStep
  <2> QED
    BY <2>4, <2>5
<1> QED
  BY <1>2, <1>3

(* What the operations do to a list. *)
LEMMA ListEmpty == ASSUME NEW c PROVE IsList(<< >>, NULL, c)
  BY DEF IsList

LEMMA ListSingle ==
    ASSUME NEW p \in Pids, NEW c, c[p] = NULL
    PROVE  IsList(<< p >>, p, c)
<1>1. << p >> \in Seq(Pids) /\ Len(<< p >>) = 1 /\ << p >>[1] = p
  OBVIOUS
<1> QED
  BY <1>1, NullIsNoPid DEF IsList

LEMMA ListOther ==
    ASSUME NEW s, NEW h, NEW c, IsList(s, h, c), NEW d,
           \A i \in 1..Len(s) : d[s[i]] = c[s[i]]
    PROVE  IsList(s, h, d)
<1>1. Len(s) \in Nat
  BY DEF IsList
<1>2. Len(s) > 0 => Len(s) \in 1..Len(s)
  BY <1>1
<1>3. \A i \in 1..(Len(s) - 1) : i \in 1..Len(s)
  BY <1>1
<1> QED
  BY <1>2, <1>3 DEF IsList

LEMMA ListPush ==
    ASSUME NEW s, NEW h, NEW c, IsList(s, h, c), h # NULL,
           NEW p \in Pids, \A i \in 1..Len(s) : s[i] # p,
           NEW d, d[p] = NULL, d[s[Len(s)]] = p,
           \A i \in 1..(Len(s) - 1) : d[s[i]] = c[s[i]]
    PROVE  IsList(Append(s, p), h, d)
<1>1. s \in Seq(Pids) /\ Len(s) \in Nat /\ Len(s) > 0
  BY DEF IsList
<1> DEFINE z == Append(s, p)
<1>2. /\ z \in Seq(Pids) /\ Len(z) = Len(s) + 1 /\ z[Len(s) + 1] = p
      /\ \A i \in 1..Len(s) : z[i] = s[i]
  BY <1>1
<1> HIDE DEF z
<1>3. ASSUME NEW i \in 1..Len(z), NEW j \in 1..Len(z), z[i] = z[j]
      PROVE  i = j
  <2>1. (i \in 1..Len(s) \/ i = Len(s) + 1) /\ (j \in 1..Len(s) \/ j = Len(s) + 1)
    BY <1>1, <1>2
  <2> QED
    BY <1>2, <1>3, <2>1 DEF IsList
<1>4. Len(z) > 0 /\ z[1] = h /\ d[z[Len(z)]] = NULL
  BY <1>1, <1>2 DEF IsList
<1>5. ASSUME NEW i \in 1..(Len(z) - 1) PROVE d[z[i]] = z[i + 1]
  <2>1. CASE i = Len(s)
    <3>1. z[i] = s[Len(s)] /\ z[i + 1] = p
      BY <1>1, <1>2, <2>1
    <3> QED
      BY <3>1
  <2>2. CASE i # Len(s)
    <3>1. i \in 1..(Len(s) - 1) /\ i \in 1..Len(s) /\ i + 1 \in 1..Len(s)
      BY <1>1, <1>2, <2>2
    <3> QED
      BY <1>2, <3>1 DEF IsList
  <2> QED
    BY <2>1, <2>2
<1>6. IsList(z, h, d)
  BY <1>2, <1>3, <1>4, <1>5 DEF IsList
<1> QED
  BY <1>6 DEF z

LEMMA ListPop ==
    ASSUME NEW s, NEW h, NEW c, IsList(s, h, c), Len(s) > 1,
           NEW d, d[s[Len(s) - 1]] = NULL,
           \A i \in 1..(Len(s) - 2) : d[s[i]] = c[s[i]]
    PROVE  /\ IsList(SubSeq(s, 1, Len(s) - 1), h, d)
           /\ Len(SubSeq(s, 1, Len(s) - 1)) = Len(s) - 1
           /\ SubSeq(s, 1, Len(s) - 1)[Len(s) - 1] = s[Len(s) - 1]
<1>1. s \in Seq(Pids) /\ Len(s) \in Nat /\ Len(s) > 1
  BY DEF IsList
<1> DEFINE n == Len(s) - 1
           z == SubSeq(s, 1, n)
<1>2. /\ n \in Nat /\ n > 0 /\ Len(s) = n + 1
      /\ z \in Seq(Pids) /\ Len(z) = n
      /\ \A i \in 1..n : z[i] = s[i]
  BY <1>1
<1>3. d[s[n]] = NULL /\ \A i \in 1..(n - 1) : d[s[i]] = c[s[i]]
  BY <1>1
<1> HIDE DEF n, z
<1>4. \A i, j \in 1..Len(z) : z[i] = z[j] => i = j
  <2>1. \A i \in 1..n : i \in 1..Len(s)
    BY <1>2
  <2> QED
    BY <1>2, <2>1 DEF IsList
<1>5. Len(z) > 0 /\ z[1] = h /\ d[z[Len(z)]] = NULL /\ h # NULL
  BY <1>1, <1>2, <1>3 DEF IsList
<1>6. ASSUME NEW i \in 1..(Len(z) - 1) PROVE d[z[i]] = z[i + 1]
  <2>1. i \in 1..(n - 1) /\ i \in 1..n /\ i + 1 \in 1..n /\ i \in 1..(Len(s) - 1)
    BY <1>2
  <2> QED
    BY <1>2, <1>3, <2>1 DEF IsList
<1>7. IsList(z, h, d)
  BY <1>2, <1>4, <1>5, <1>6 DEF IsList
<1>8. z[n] = s[n]
  BY <1>2
<1> QED
  BY <1>2, <1>7, <1>8 DEF z, n

-----------------------------------------------------------------------------
(* Procs implements TaskStacks, but for the fairness of the turns. *)

Stacks == [t \in Terms |-> ListFrom(pcb_head[t], child_pcb)]

StackInv == \A t \in Terms : IsList(Stacks[t], pcb_head[t], child_pcb)

(* The stacks of the abstract specification. *)
LEMMA StacksAre ==
    ASSUME NEW z, \A t \in Terms : IsList(z[t], pcb_head[t], child_pcb)
    PROVE  StackInv /\ \A t \in Terms : Stacks[t] = z[t]
<1>1. \A t \in Terms : ListFrom(pcb_head[t], child_pcb) = z[t]
  BY ListIs
<1>2. \A t \in Terms : Stacks[t] = z[t]
  BY <1>1 DEF Stacks
<1> QED
  BY <1>2 DEF StackInv

LEMMA StacksBecome ==
    ASSUME NEW z, \A t \in Terms : IsList(z[t], pcb_head'[t], child_pcb')
    PROVE  StackInv' /\ \A t \in Terms : Stacks'[t] = z[t]
<1>1. \A t \in Terms : ListFrom(pcb_head'[t], child_pcb') = z[t]
  BY ListIs
<1>2. \A t \in Terms : Stacks'[t] = z[t]
  BY <1>1 DEF Stacks
<1> QED
  BY <1>2 DEF StackInv

(* A slot is free in both or in neither. *)
LEMMA FreeSlots ==
    ASSUME TypeOK, TableInv, StackInv
    PROVE  Abstract!Free = {p \in Pids : process_usage[p] = "NOT_USED"}
<1>1. \A t \in Terms : Chain(t) = {Stacks[t][i] : i \in DOMAIN Stacks[t]}
  <2> SUFFICES ASSUME NEW t \in Terms
               PROVE  Chain(t) = {Stacks[t][i] : i \in DOMAIN Stacks[t]}
    OBVIOUS
  <2>1. child_pcb \in Links /\ IsList(Stacks[t], pcb_head[t], child_pcb)
    BY DEF TypeOK, Links, StackInv
  <2>2. DOMAIN Stacks[t] = 1..Len(Stacks[t])
    BY <2>1 DEF IsList
  <2> QED
    BY <2>1, <2>2, ListChain DEF Chain
<1>2. Abstract!InUse = UNION {{Stacks[t][i] : i \in DOMAIN Stacks[t]} : t \in Terms}
  BY DEF Abstract!InUse, Stacks, Abstract!Terms, Terms
<1>3. Abstract!InUse = UNION {Chain(t) : t \in Terms}
  BY <1>1, <1>2
<1>4. \A p \in Pids : process_usage[p] = "IN_USE" <=> p \in Abstract!InUse
  BY <1>3 DEF TableInv, ListsOK, UsedOK, Chain
<1> QED
  BY <1>4 DEF Abstract!Free, TypeOK

(* The foreground process is the top of the stack. *)
LEMMA TailIsTop ==
    ASSUME TypeOK, StackInv, NEW t \in Terms, NEW p \in Pids, IsTail(t, p)
    PROVE  /\ Len(Stacks[t]) \in Nat /\ Len(Stacks[t]) > 0
           /\ Stacks[t][Len(Stacks[t])] = p
<1> DEFINE s == Stacks[t]
<1>1. child_pcb \in Links /\ IsList(s, pcb_head[t], child_pcb)
  BY DEF TypeOK, Links, StackInv
<1> HIDE DEF s
<1>2. PICK i \in 1..Len(s) : s[i] = p
  BY <1>1, ListChain DEF IsTail, Chain
<1>3. s \in Seq(Pids) /\ Len(s) \in Nat
  BY <1>1 DEF IsList
<1>4. i = Len(s)
  <2> SUFFICES ASSUME i # Len(s) PROVE FALSE
    OBVIOUS
  <2>1. i \in 1..(Len(s) - 1) /\ i + 1 \in 1..Len(s)
    BY <1>3
  <2>2. child_pcb[p] \in Pids
    BY <1>1, <1>2, <1>3, <2>1 DEF IsList
  <2> QED
    BY <2>2, NullIsNoPid DEF IsTail
<1> QED
  BY <1>2, <1>3, <1>4 DEF s

AbsStep == [Abstract!Next]_(Abstract!vars)

(* A program on an empty stack. *)
LEMMA FirstOnStack ==
    ASSUME TypeOK, StackInv, NEW t \in Terms, NEW p \in Pids,
           child_pcb[p] = NULL, child_pcb' = child_pcb,
           pcb_head' = [pcb_head EXCEPT ![t] = p]
    PROVE  StackInv' /\ Stacks' = [Stacks EXCEPT ![t] = << p >>]
<1> DEFINE z == [Stacks EXCEPT ![t] = << p >>]
<1>1. z[t] = << p >> /\ \A u \in Terms : u # t => z[u] = Stacks[u]
  BY DEF Stacks
<1>2. pcb_head'[t] = p /\ \A u \in Terms : u # t => pcb_head'[u] = pcb_head[u]
  BY DEF TypeOK
<1>3. z = [u \in Terms |-> z[u]]
  BY DEF Stacks
<1> HIDE DEF z
<1>4. ASSUME NEW u \in Terms PROVE IsList(z[u], pcb_head'[u], child_pcb')
  <2>1. CASE u = t
    BY <1>1, <1>2, <2>1, ListSingle
  <2>2. CASE u # t
    BY <1>1, <1>2, <2>2 DEF StackInv
  <2> QED
    BY <2>1, <2>2
<1>5. StackInv' /\ \A u \in Terms : Stacks'[u] = z[u]
  BY <1>4, StacksBecome
<1>6. Stacks' = [u \in Terms |-> Stacks'[u]]
  BY DEF Stacks
<1>7. Stacks' = z
  BY <1>3, <1>5, <1>6
<1> QED
  BY <1>5, <1>7 DEF z

(* The three kinds of abstract steps that take a slot. *)
LEMMA AbsStart ==
    ASSUME TypeOK, TableInv, StackInv, NEW p \in Pids,
           process_usage[p] = "NOT_USED",
           Stacks[active_task] = << >> <=> cpu = NULL,
           Stacks' = [Stacks EXCEPT ![active_task] = Append(@, p)],
           cpu' = p, active_task' = active_task
    PROVE  AbsStep
<1>1. p \in Abstract!Free
  BY FreeSlots
<1>2. Abstract!Start
  BY <1>1 DEF Abstract!Start, Stacks
<1> QED
  BY <1>2 DEF AbsStep, Abstract!Next

LEMMA BootRefines ==
    ASSUME IInv, StackInv, Boot
    PROVE  StackInv' /\ AbsStep
<1>1. PICK p \in Pids :
        /\ add_PCB(process_usage, pcb_head, active_task, p)
        /\ StartProcess(p, "exec")
  BY DEF Boot
<1>2. /\ cpu = NULL /\ active_task' = active_task /\ active_task \in Terms
      /\ pcb_head[active_task] = NULL /\ TypeOK /\ TableInv
  BY DEF Boot, IInv, TypeOK, BootInv
<1>3. /\ process_usage[p] = "NOT_USED" /\ cpu' = p
      /\ pcb_head' = [pcb_head EXCEPT ![active_task] = p]
      /\ child_pcb' = child_pcb
  BY <1>1, <1>2 DEF add_PCB, IsLowestFree, StartProcess
<1>4. child_pcb[p] = NULL
  BY <1>2, <1>3 DEF TableInv, ListsOK, FreeOK
<1>5. StackInv' /\ Stacks' = [Stacks EXCEPT ![active_task] = << p >>]
  BY <1>2, <1>3, <1>4, FirstOnStack
<1>6. Stacks[active_task] = << >>
  BY <1>2 DEF StackInv, IsList
<1>7. Stacks' = [Stacks EXCEPT ![active_task] = Append(@, p)]
  <2>1. Append(Stacks[active_task], p) = << p >>
    BY <1>6
  <2> QED
    BY <1>5, <2>1
<1> QED
  BY <1>2, <1>3, <1>5, <1>6, <1>7, AbsStart

LEMMA ExecuteRefines ==
    ASSUME IInv, EarlyInv, StackInv, Execute
    PROVE  StackInv' /\ AbsStep
<1> DEFINE a == active_task
           s == Stacks[a]
<1>1. PICK p \in Pids :
        /\ add_PCB(process_usage, pcb_head, a, p)
        /\ StartProcess(p, "exec")
  BY DEF Execute
<1>2. /\ cpu # NULL /\ active_task' = a /\ a \in Terms /\ cpu \in Pids
      /\ IsTail(a, cpu) /\ TypeOK /\ TableInv
  BY EarlyRunning DEF Execute, IInv, TypeOK, RunningIsForeground
<1>3. get_PCB_tail(a) = cpu /\ pcb_head[a] # NULL /\ child_pcb[cpu] = NULL
  BY <1>2, TailFacts DEF IsTail
<1>4. /\ process_usage[p] = "NOT_USED" /\ cpu' = p
      /\ pcb_head' = pcb_head
      /\ child_pcb' = [child_pcb EXCEPT ![cpu] = p]
  BY <1>1, <1>3 DEF add_PCB, IsLowestFree, StartProcess
<1>5. child_pcb[p] = NULL
  BY <1>2, <1>4 DEF TableInv, ListsOK, FreeOK
<1>6. \A t \in Terms : \A i \in 1..Len(Stacks[t]) :
        Stacks[t][i] \in Chain(t) /\ Stacks[t][i] \in Pids /\ Stacks[t][i] # p
  <2> SUFFICES ASSUME NEW t \in Terms, NEW i \in 1..Len(Stacks[t])
               PROVE  /\ Stacks[t][i] \in Chain(t) /\ Stacks[t][i] \in Pids
                      /\ Stacks[t][i] # p
    OBVIOUS
  <2>1. child_pcb \in Links /\ IsList(Stacks[t], pcb_head[t], child_pcb)
    BY <1>2 DEF TypeOK, Links, StackInv
  <2>2. Stacks[t][i] \in Chain(t)
    BY <2>1, ListChain DEF Chain
  <2>3. p \notin Chain(t)
    BY <1>2, <1>4 DEF TableInv, ListsOK, UsedOK, Chain
  <2>4. Stacks[t][i] \in Pids
    BY <2>1 DEF IsList
  <2> QED
    BY <2>2, <2>3, <2>4
<1>7. /\ child_pcb'[cpu] = p /\ child_pcb'[p] = NULL
      /\ \A x \in Pids : x # cpu => child_pcb'[x] = child_pcb[x]
  <2>1. cpu # p
    BY <1>2, <1>4 DEF TableInv, ListsOK, UsedOK, IsTail, Chain
  <2> QED
    BY <1>2, <1>4, <1>5, <2>1 DEF TypeOK
<1>8. Len(s) \in Nat /\ Len(s) > 0 /\ s[Len(s)] = cpu
  BY <1>2, TailIsTop
<1>9. IsList(Append(s, p), pcb_head'[a], child_pcb')
  <2>1. IsList(s, pcb_head[a], child_pcb)
    BY <1>2 DEF StackInv
  <2>2. \A i \in 1..(Len(s) - 1) : s[i] # cpu /\ s[i] \in Pids
    <3>1. \A i \in 1..(Len(s) - 1) : i \in 1..Len(s) /\ Len(s) \in 1..Len(s)
                                       /\ i # Len(s)
      BY <1>8
    <3> QED
      BY <1>8, <2>1, <3>1, <1>6, <1>2 DEF IsList
  <2>3. \A i \in 1..(Len(s) - 1) : child_pcb'[s[i]] = child_pcb[s[i]]
    BY <1>7, <2>2
  <2>4. \A i \in 1..Len(s) : s[i] # p
    BY <1>2, <1>6
  <2>5. child_pcb'[s[Len(s)]] = p /\ child_pcb'[p] = NULL
    BY <1>7, <1>8
  <2>6. pcb_head'[a] = pcb_head[a] /\ pcb_head[a] # NULL
    BY <1>3, <1>4
  <2> HIDE DEF s
  <2> QED
    BY <2>1, <2>3, <2>4, <2>5, <2>6, ListPush, Zenon
<1> DEFINE z == [Stacks EXCEPT ![a] = Append(s, p)]
<1>10. /\ z[a] = Append(s, p) /\ \A u \in Terms : u # a => z[u] = Stacks[u]
       /\ z = [u \in Terms |-> z[u]]
  BY <1>2 DEF Stacks
<1> HIDE DEF z
<1>11. ASSUME NEW u \in Terms PROVE IsList(z[u], pcb_head'[u], child_pcb')
  <2>1. CASE u = a
    BY <1>9, <1>10, <2>1
  <2>2. CASE u # a
    <3>1. IsList(Stacks[u], pcb_head[u], child_pcb)
      BY DEF StackInv
    <3>2. \A i \in 1..Len(Stacks[u]) : Stacks[u][i] # cpu
      BY <1>2, <1>6, <2>2, TailsApart
    <3>3. \A i \in 1..Len(Stacks[u]) :
             child_pcb'[Stacks[u][i]] = child_pcb[Stacks[u][i]]
      BY <1>6, <1>7, <3>2
    <3>4. IsList(Stacks[u], pcb_head[u], child_pcb')
      BY <3>1, <3>3, ListOther
    <3> QED
      BY <1>4, <1>10, <2>2, <3>4
  <2> QED
    BY <2>1, <2>2
<1>12. StackInv' /\ \A u \in Terms : Stacks'[u] = z[u]
  BY <1>11, StacksBecome
<1>13. Stacks' = z
  <2>1. Stacks' = [u \in Terms |-> Stacks'[u]]
    BY DEF Stacks
  <2> QED
    BY <1>10, <1>12, <2>1
<1>14. Stacks[active_task] # << >>
  BY <1>8
<1>15. Stacks' = [Stacks EXCEPT ![active_task] = Append(@, p)]
  BY <1>13 DEF z
<1> QED
  BY <1>2, <1>4, <1>12, <1>14, <1>15, AbsStart

LEMMA HaltProgramRefines ==
    ASSUME IInv, StackInv, NEW status \in Status, HaltProgram(status)
    PROVE  StackInv' /\ AbsStep
<1> DEFINE a == active_task
           s == Stacks[a]
           n == Len(s) - 1
<1>1. /\ cpu # NULL /\ cpu \in Pids /\ a \in Terms /\ active_task' = a
      /\ IsTail(a, cpu) /\ get_PCB_tail(a) = cpu /\ child_pcb[cpu] = NULL
      /\ pcb_head' = pcb_head /\ TypeOK /\ TableInv
  BY CurrentIsCpu DEF HaltProgram, IInv
<1>2. PICK r \in Chain(a) : /\ child_pcb[r] = cpu
                            /\ child_pcb' = [child_pcb EXCEPT ![r] = NULL]
  BY <1>1 DEF HaltProgram
<1>3. r \in Pids /\ pcb_head[a] # cpu /\ cpu' = r
  <2>1. r \in Pids /\ pcb_head[a] # cpu /\ cpu' = self_esp[cpu].on
    BY <1>1, <1>2 DEF HaltProgram, Chain, ChainFrom
  <2>2. self_esp[cpu] = Frame(r, "exec")
    BY <1>1, <1>2, <2>1 DEF IInv, CallerFrameIsLive
  <2> QED
    BY <2>1, <2>2 DEF Frame
<1>4. /\ child_pcb \in Links /\ IsList(s, pcb_head[a], child_pcb)
      /\ Len(s) \in Nat /\ Len(s) > 0 /\ s[Len(s)] = cpu
  BY <1>1, TailIsTop DEF TypeOK, Links, StackInv
<1>5. Len(s) > 1 /\ s[n] = r /\ n \in 1..Len(s)
  <2>1. PICK j \in 1..Len(s) : s[j] = r
    BY <1>2, <1>4, ListChain DEF Chain
  <2>2. j # Len(s)
    BY <1>1, <1>2, <1>4, <2>1
  <2>3. j \in 1..(Len(s) - 1) /\ j + 1 \in 1..Len(s) /\ Len(s) \in 1..Len(s)
    BY <1>4, <2>2
  <2>4. s[j + 1] = s[Len(s)]
    BY <1>2, <1>4, <2>1, <2>3 DEF IsList
  <2>5. j + 1 = Len(s)
    BY <1>4, <2>3, <2>4 DEF IsList
  <2>6. j = n
    BY <1>4, <2>5
  <2> QED
    BY <1>4, <2>1, <2>3, <2>6
<1>6. \A x \in Pids : child_pcb'[x] = IF x = r THEN NULL ELSE child_pcb[x]
  BY <1>2, <1>3, <1>4 DEF Links
<1>7. /\ IsList(SubSeq(s, 1, n), pcb_head'[a], child_pcb')
      /\ Len(SubSeq(s, 1, n)) = n /\ SubSeq(s, 1, n)[n] = r
  <2>1. child_pcb'[s[n]] = NULL
    BY <1>3, <1>5, <1>6
  <2>2. ASSUME NEW i \in 1..(Len(s) - 2)
        PROVE  child_pcb'[s[i]] = child_pcb[s[i]]
    <3>1. i \in 1..Len(s) /\ i # n
      BY <1>4
    <3>2. s[i] \in Pids /\ s[i] # r
      BY <1>4, <1>5, <3>1 DEF IsList
    <3> QED
      BY <1>6, <3>2
  <2> HIDE DEF s
  <2> QED
    BY <1>1, <1>4, <1>5, <2>1, <2>2, ListPop
<1> DEFINE z == [Stacks EXCEPT ![a] = SubSeq(s, 1, n)]
<1>8. /\ z[a] = SubSeq(s, 1, n) /\ \A u \in Terms : u # a => z[u] = Stacks[u]
      /\ z = [u \in Terms |-> z[u]]
  BY <1>1 DEF Stacks
<1> HIDE DEF z
<1>9. ASSUME NEW u \in Terms PROVE IsList(z[u], pcb_head'[u], child_pcb')
  <2>1. CASE u = a
    BY <1>7, <1>8, <2>1
  <2>2. CASE u # a
    <3>1. IsList(Stacks[u], pcb_head[u], child_pcb)
      BY DEF StackInv
    <3>2. ASSUME NEW i \in 1..Len(Stacks[u])
          PROVE  child_pcb'[Stacks[u][i]] = child_pcb[Stacks[u][i]]
      <4>1. Stacks[u][i] \in Chain(u) /\ Stacks[u][i] \in Pids
        <5>1. Chain(u) = {Stacks[u][j] : j \in 1..Len(Stacks[u])}
          BY <1>4, <3>1, ListChain DEF Chain
        <5>2. Stacks[u] \in Seq(Pids)
          BY <3>1 DEF IsList
        <5> QED
          BY <5>1, <5>2
      <4>2. Stacks[u][i] # r
        BY <1>1, <1>2, <2>2, <4>1 DEF TableInv, ListsOK, ApartOK, Chain
      <4> QED
        BY <1>6, <4>1, <4>2
    <3>3. IsList(Stacks[u], pcb_head[u], child_pcb')
      BY <3>1, <3>2, ListOther
    <3> QED
      BY <1>1, <1>8, <2>2, <3>3
  <2> QED
    BY <2>1, <2>2
<1>10. StackInv' /\ \A u \in Terms : Stacks'[u] = z[u]
  BY <1>9, StacksBecome
<1>11. Stacks' = z
  <2>1. Stacks' = [u \in Terms |-> Stacks'[u]]
    BY DEF Stacks
  <2> QED
    BY <1>8, <1>10, <2>1
<1>12. Abstract!End
  <2>1. Len(Stacks[active_task]) > 1
    BY <1>5
  <2>2. Stacks' = [Stacks EXCEPT ![active_task] = SubSeq(@, 1, Len(@) - 1)]
    BY <1>11 DEF z
  <2>3. cpu' = Stacks'[active_task][Len(Stacks'[active_task])]
    BY <1>3, <1>7, <1>8, <1>11
  <2> QED
    BY <1>1, <2>1, <2>2, <2>3 DEF Abstract!End, Abstract!Top, Stacks
<1> QED
  BY <1>10, <1>12 DEF AbsStep, Abstract!Next

LEMMA HaltBaseShellRefines ==
    ASSUME IInv, StackInv, HaltBaseShell
    PROVE  StackInv' /\ AbsStep
<1> DEFINE a == active_task
<1>1. /\ cpu # NULL /\ cpu \in Pids /\ a \in Terms /\ active_task' = a
      /\ IsTail(a, cpu) /\ get_PCB_tail(a) = cpu /\ child_pcb[cpu] = NULL
      /\ pcb_head[a] = cpu /\ TypeOK /\ TableInv
  BY CurrentIsCpu DEF HaltBaseShell, IInv
<1>2. PICK p \in Pids :
        /\ add_PCB(unset_process_usage(cpu), [pcb_head EXCEPT ![a] = NULL], a, p)
        /\ StartProcess(p, "exec")
  BY <1>1 DEF HaltBaseShell
<1>3. /\ cpu' = p /\ child_pcb' = child_pcb
      /\ pcb_head' = [pcb_head EXCEPT ![a] = p]
      /\ unset_process_usage(cpu)[p] = "NOT_USED"
  BY <1>1, <1>2 DEF add_PCB, IsLowestFree, StartProcess, TypeOK
<1>4. p = cpu \/ process_usage[p] = "NOT_USED"
  BY <1>1, <1>3 DEF unset_process_usage, TypeOK
<1>5. child_pcb[p] = NULL
  BY <1>1, <1>4 DEF TableInv, ListsOK, FreeOK
<1>6. StackInv' /\ Stacks' = [Stacks EXCEPT ![a] = << p >>]
  BY <1>1, <1>3, <1>5, FirstOnStack
<1>7. Len(Stacks[a]) = 1
  <2>1. /\ IsList(Stacks[a], pcb_head[a], child_pcb)
        /\ Len(Stacks[a]) \in Nat /\ Len(Stacks[a]) > 0
        /\ Stacks[a][Len(Stacks[a])] = cpu
    BY <1>1, TailIsTop DEF StackInv
  <2>2. Stacks[a][1] = cpu /\ 1 \in 1..Len(Stacks[a])
          /\ Len(Stacks[a]) \in 1..Len(Stacks[a])
    BY <1>1, <2>1 DEF IsList
  <2> QED
    BY <2>1, <2>2 DEF IsList
<1>8. p \in Abstract!Free \cup {cpu}
  BY <1>1, <1>4, FreeSlots
<1>9. Abstract!Replace
  BY <1>1, <1>3, <1>6, <1>7, <1>8 DEF Abstract!Replace, Stacks
<1> QED
  BY <1>6, <1>9 DEF AbsStep, Abstract!Next

LEMMA SwitchToRefines ==
    ASSUME IInv, StackInv, SwitchTo
    PROVE  StackInv' /\ AbsStep
<1> DEFINE x == NextTask
<1>1. /\ cpu # NULL /\ cpu \in Pids /\ active_task \in Terms
      /\ IsTail(active_task, cpu) /\ TypeOK /\ TableInv
      /\ active_task' = x /\ x \in Terms /\ x # active_task
  <2>1. NextTask \in Terms /\ NextTask # active_task
    BY DEF IInv, TypeOK, NextTask, Terms
  <2> QED
    BY <2>1, CurrentIsCpu DEF SwitchTo, IInv
<1>2. /\ pcb_head' = pcb_head /\ child_pcb' = child_pcb
      /\ get_PCB_tail(x) # NULL /\ cpu' = esp_switch[get_PCB_tail(x)].on
  BY DEF SwitchTo
<1>3. PICK q \in Pids : q = get_PCB_tail(x) /\ IsTail(x, q)
  BY <1>1, <1>2, TailFacts
<1>4. q # cpu
  BY <1>1, <1>3, TailsApart DEF IsTail
<1>5. cpu' = q
  <2>1. esp_switch[q] = Frame(q, "tick")
    BY <1>1, <1>3, <1>4 DEF IInv, WaitingFrameIsLive
  <2> QED
    BY <1>2, <1>3, <2>1 DEF Frame
<1>6. Stacks' = Stacks /\ StackInv'
  BY <1>2 DEF Stacks, StackInv
<1>7. /\ Len(Stacks[x]) \in Nat /\ Len(Stacks[x]) > 0
      /\ Stacks[x][Len(Stacks[x])] = q
  BY <1>1, <1>3, TailIsTop
<1>8. Stacks[x] # << >>
  BY <1>7
<1>9. Abstract!Rotate
  <2>1. active_task' = (active_task + 1) % 3
    BY <1>1 DEF NextTask
  <2>2. cpu' = Stacks'[active_task'][Len(Stacks'[active_task'])]
    BY <1>1, <1>5, <1>6, <1>7
  <2>3. Stacks[active_task'] # << >>
    BY <1>1, <1>8
  <2> QED
    BY <1>1, <1>6, <2>1, <2>2, <2>3 DEF Abstract!Rotate, Abstract!Top, Stacks
<1> QED
  BY <1>6, <1>9 DEF AbsStep, Abstract!Next

LEMMA LaunchRefines ==
    ASSUME IInv, StackInv, Launch
    PROVE  StackInv' /\ AbsStep
<1> DEFINE x == NextTask
<1>1. /\ cpu # NULL /\ active_task \in Terms /\ active_task' = x /\ x \in Terms
      /\ TypeOK /\ TableInv /\ pcb_head[x] = NULL
  <2>1. NextTask \in Terms /\ active_task \in Terms
    BY DEF IInv, TypeOK, NextTask, Terms
  <2> QED
    BY <2>1, TailFacts DEF Launch, IInv
<1>2. PICK p \in Pids :
        /\ add_PCB(process_usage, pcb_head, x, p)
        /\ StartProcess(p, "tick")
  BY DEF Launch
<1>3. /\ process_usage[p] = "NOT_USED" /\ cpu' = p
      /\ pcb_head' = [pcb_head EXCEPT ![x] = p]
      /\ child_pcb' = child_pcb
  BY <1>1, <1>2 DEF add_PCB, IsLowestFree, StartProcess
<1>4. child_pcb[p] = NULL
  BY <1>1, <1>3 DEF TableInv, ListsOK, FreeOK
<1>5. StackInv' /\ Stacks' = [Stacks EXCEPT ![x] = << p >>]
  BY <1>1, <1>3, <1>4, FirstOnStack
<1>6. Stacks[x] = << >>
  BY <1>1 DEF StackInv, IsList
<1>7. p \in Abstract!Free
  BY <1>1, <1>3, FreeSlots
<1>8. Abstract!Rotate
  <2>1. active_task' = (active_task + 1) % 3
    BY <1>1 DEF NextTask
  <2>2. Stacks' = [Stacks EXCEPT ![active_task'] = << p >>]
    BY <1>1, <1>5
  <2>3. Stacks[active_task'] = << >>
    BY <1>1, <1>6
  <2>4. Stacks'[active_task'] = << p >>
    BY <1>1, <2>2 DEF Stacks
  <2>5. cpu' = Stacks'[active_task'][Len(Stacks'[active_task'])]
    BY <1>3, <2>4
  <2> QED
    BY <1>1, <1>7, <2>1, <2>2, <2>3, <2>5
       DEF Abstract!Rotate, Abstract!Top, Stacks
<1> QED
  BY <1>5, <1>8 DEF AbsStep, Abstract!Next

LEMMA NextRefines ==
    ASSUME ~ExecBeforeShells, IInv, EarlyInv, StackInv, [Next]_vars
    PROVE  StackInv' /\ AbsStep
<1>1. CASE ExecuteFails \/ UNCHANGED vars
  <2>1. UNCHANGED << pcb_head, child_pcb, active_task, cpu >>
    BY <1>1 DEF ExecuteFails, vars
  <2> QED
    BY <2>1 DEF StackInv, Stacks, AbsStep, Abstract!vars
<1>2. ~LaunchFails
  <2> SUFFICES ASSUME LaunchFails PROVE FALSE
    OBVIOUS
  <2>1. NextTask \in Terms /\ TypeOK /\ TableInv
    BY DEF IInv, TypeOK, NextTask, Terms
  <2>2. pcb_head[NextTask] = NULL /\ IsFull(process_usage)
    BY <2>1, TailFacts DEF LaunchFails
  <2> QED
    BY <2>1, <2>2, FullMeansShellsUp DEF EarlyInv, ShellsUp
<1> QED
  BY <1>1, <1>2, BootRefines, ExecuteRefines, HaltProgramRefines,
     HaltBaseShellRefines, SwitchToRefines, LaunchRefines, StepCases

(* If programs start only once the shells are up, every step of boot,      *)
(* execute, halt and task_switch is a step of the stacks of programs or    *)
(* changes none of them, for any number of slots: slots, links and saved   *)
(* stack pointers implement one stack per terminal whose top runs.         *)
THEOREM ProcsImplements ==
    ASSUME ~ExecBeforeShells
    PROVE  Spec => Abstract!Init /\ [][Abstract!Next]_(Abstract!vars)
<1>1. Init => EarlyInv
  BY DEF Init, EarlyInv
<1>2. Init => StackInv /\ Abstract!Init
  <2> SUFFICES ASSUME Init PROVE StackInv /\ Abstract!Init
    OBVIOUS
  <2> DEFINE z == [t \in Terms |-> << >>]
  <2>1. \A t \in Terms : IsList(z[t], pcb_head[t], child_pcb)
    BY ListEmpty DEF Init
  <2>2. StackInv /\ \A t \in Terms : Stacks[t] = z[t]
    BY <2>1, StacksAre
  <2>3. Stacks = z
    BY <2>2 DEF Stacks
  <2> QED
    BY <2>2, <2>3 DEF Init, Abstract!Init, Abstract!Terms, Terms, Stacks
<1>3. (IInv /\ EarlyInv /\ StackInv) /\ [Next]_vars
        => (IInv /\ EarlyInv /\ StackInv)' /\ [Abstract!Next]_(Abstract!vars)
  BY NextRefines, EarlyNext, NextKeepsIInv DEF AbsStep
<1> QED
  BY <1>1, <1>2, <1>3, InitIInv, PTL DEF Spec
=============================================================================
