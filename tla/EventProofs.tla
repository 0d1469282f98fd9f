----------------------------- MODULE EventProofs -----------------------------
(***************************************************************************)
(* Proofs about the event list and about the CoA requests whose timers are *)
(* events of it.                                                           *)
(*                                                                         *)
(* The heap of heap.cpp stays a heap, the loop of event-lib.cpp waits for  *)
(* the right time and calls the right handlers, and together they          *)
(* implement Timers, for any number of owners, sockets and times.  The     *)
(* loops of fr_heap_bubble() and fr_heap_extract() are recursive functions *)
(* on 0..n, the state after so many turns; what they leave is proved by    *)
(* induction over the turns.                                               *)
(*                                                                         *)
(* CoA requests keep their Ids, end once and end in time, for every number *)
(* of requests and Ids and all timers that home_server_add() lets through. *)
(***************************************************************************)
EXTENDS EventList, Coa, SequenceTheorems, WellFoundedInduction, TLAPS

----------------------------------------------------------------------------
(* Induction over the turns of a loop.                                      *)

\* A property of the numbers up to n that holds for 0 and is handed on.
LEMMA UpTo ==
  ASSUME NEW n \in Nat, NEW S \in SUBSET (0..n), 0 \in S,
         \A k \in 1..n : k - 1 \in S => k \in S
  PROVE  S = 0..n
  <1> SUFFICES ASSUME (0..n) \ S # {} PROVE FALSE
    OBVIOUS
  <1> DEFINE T == (0..n) \ S
  <1>1. T \subseteq Nat /\ T # {}
    OBVIOUS
  <1> HIDE DEF T
  <1>2. PICK x \in T : \A y \in T : ~(<<y, x>> \in OpToRel(<, Nat))
    BY <1>1, NatLessThanWellFounded, WFMin
  <1>3. \A y \in T : ~(y < x)
    BY <1>1, <1>2 DEF OpToRel
  <1>4. x \in 1..n /\ x \notin S
    BY DEF T
  <1>5. x - 1 \in 0..n /\ x - 1 < x
    BY <1>4
  <1>6. x - 1 \in S
    BY <1>3, <1>5 DEF T
  <1> QED
    BY <1>4, <1>6

Recursive(g, n, base, F) == g = [k \in 0..n |-> IF k = 0 THEN base ELSE F[k][g[k - 1]]]

\* A function that is defined by recursion from below exists.
LEMMA RecursionExists ==
  ASSUME NEW n \in Nat, NEW base, NEW F
  PROVE  \E g : Recursive(g, n, base, F)
  <1> DEFINE Upto(g, m) == /\ g = [k \in 0..m |-> g[k]]
                           /\ g[0] = base
                           /\ \A k \in 1..m : g[k] = F[k][g[k - 1]]
             S == {m \in 0..n : \E g : Upto(g, m)}
  <1>1. 0 \in S
    <2>1. Upto([k \in 0..0 |-> base], 0)
      OBVIOUS
    <2> HIDE DEF Upto
    <2> QED
      BY <2>1
  <1>2. ASSUME NEW m \in 1..n, m - 1 \in S PROVE m \in S
    <2>1. PICK g : Upto(g, m - 1)
      BY <1>2
    <2> DEFINE h == [k \in 0..m |-> IF k = m THEN F[m][g[m - 1]] ELSE g[k]]
    <2>2. h[0] = base
      BY <2>1
    <2>3. ASSUME NEW k \in 1..m PROVE h[k] = F[k][h[k - 1]]
      <3>1. k - 1 \in 0..m /\ k - 1 # m /\ h[k - 1] = g[k - 1]
        OBVIOUS
      <3>2. CASE k = m
        BY <3>1, <3>2
      <3>3. CASE k # m
        <4>1. k \in 1..(m - 1)
          BY <3>3
        <4>2. g[k] = F[k][g[k - 1]]
          BY <2>1, <4>1
        <4> QED
          BY <3>1, <3>3, <4>2
      <3> QED
        BY <3>2, <3>3
    <2>4. h = [k \in 0..m |-> h[k]]
      OBVIOUS
    <2>5. Upto(h, m)
      BY <2>2, <2>3, <2>4
    <2> HIDE DEF Upto, h
    <2> QED
      BY <2>5
  <1>3. S = 0..n
    <2> HIDE DEF S
    <2>1. S \in SUBSET (0..n)
      BY DEF S
    <2> QED
      BY <1>1, <1>2, <2>1, UpTo
  <1>4. PICK g : Upto(g, n)
    BY <1>3
  <1>5. g = [k \in 0..n |-> IF k = 0 THEN base ELSE F[k][g[k - 1]]]
    <2>3. g[0] = base /\ \A k \in 1..n : g[k] = F[k][g[k - 1]]
      BY <1>4
    <2>1. ASSUME NEW k \in 0..n PROVE g[k] = IF k = 0 THEN base ELSE F[k][g[k - 1]]
      <3>1. k = 0 \/ k \in 1..n
        OBVIOUS
      <3> QED
        BY ONLY <2>3, <3>1
    <2>2. [k \in 0..n |-> g[k]] = [k \in 0..n |-> IF k = 0 THEN base ELSE F[k][g[k - 1]]]
      BY <2>1
    <2> QED
      BY <1>4, <2>2
  <1> QED
    BY <1>5 DEF Recursive

Iterates(g, n, base, F, S) ==
    /\ g = [k \in 0..n |-> IF k = 0 THEN base ELSE F[g[k - 1]]]
    /\ \A k \in 0..n : g[k] \in S

\* The states after so many turns, from a set that the turns do not leave.
LEMMA IterationExists ==
  ASSUME NEW n \in Nat, NEW S, NEW base \in S, NEW F \in [S -> S]
  PROVE  \E g : Iterates(g, n, base, F, S)
  <1> DEFINE G == [k \in 1..n |-> F]
  <1>1. PICK g : Recursive(g, n, base, G)
    <2> HIDE DEF G
    <2> QED
      BY RecursionExists
  <1>2. g = [k \in 0..n |-> IF k = 0 THEN base ELSE G[k][g[k - 1]]]
    BY <1>1 DEF Recursive
  <1>3. ASSUME NEW k \in 0..n
        PROVE  (IF k = 0 THEN base ELSE G[k][g[k - 1]]) = (IF k = 0 THEN base ELSE F[g[k - 1]])
    <2>1. k = 0 \/ k \in 1..n
      OBVIOUS
    <2> QED
      BY <2>1
  <1>4. g = [k \in 0..n |-> IF k = 0 THEN base ELSE F[g[k - 1]]]
    BY <1>2, <1>3
  <1>5. \A k \in 0..n : g[k] \in S
    <2> DEFINE T == {k \in 0..n : g[k] \in S}
    <2>1. 0 \in T
      BY <1>4
    <2>2. ASSUME NEW k \in 1..n, k - 1 \in T PROVE k \in T
      BY <1>4, <2>2
    <2>3. T \in SUBSET (0..n)
      OBVIOUS
    <2>4. T = 0..n
      <3> HIDE DEF T
      <3> QED
        BY <2>1, <2>2, <2>3, UpTo
    <2> QED
      BY <2>4
  <1> QED
    BY <1>4, <1>5 DEF Iterates

----------------------------------------------------------------------------
(* The heap.                                                                *)

Shape(h, L) == h.p \in Seq(Owners) /\ Len(h.p) = L /\ h.at \in [Owners -> Nat]

\* The events of a heap with L places are E, each in one of them.
Array(h, L, E) ==
    /\ Shape(h, L)
    /\ \A j, k \in 1..L : h.p[j] = h.p[k] => j = k
    /\ \A j \in 1..L : h.p[j] \in E
    /\ \A o \in E : \E j \in 1..L : h.p[j] = o

\* In the middle of fr_heap_bubble(): only the event at place i may have a
\* smaller time than its parent, and a wrong place.
Bubbling(h, i, L, E, w) ==
    /\ Array(h, L, E) /\ i \in 1..L
    /\ \A j \in 1..L : j # i => h.at[h.p[j]] = j
    /\ \A j \in 2..L : j # i => w[h.p[HeapParent(j)]] <= w[h.p[j]]
    /\ \A j \in 2..L : HeapParent(j) = i /\ i # 1 => w[h.p[HeapParent(i)]] <= w[h.p[j]]

\* The loop ends here.
Stops(h, i, w) == i = 1 \/ w[h.p[HeapParent(i)]] < w[h.p[i]]

\* A heap.
Whole(h, L, E, w) ==
    /\ Array(h, L, E)
    /\ \A j \in 1..L : h.at[h.p[j]] = j
    /\ \A j \in 2..L : w[h.p[HeapParent(j)]] <= w[h.p[j]]

Times(w) == w \in [Owners -> 0 .. MaxTime]

LEMMA ParentLemma ==
  ASSUME NEW i \in Nat, i >= 2
  PROVE  HeapParent(i) \in Nat /\ HeapParent(i) >= 1 /\ HeapParent(i) < i
  BY DEF HeapParent

\* An event and its place are written.
Written(g, h, L, i, o) ==
    /\ Shape(g, L)
    /\ \A j \in 1..L : g.p[j] = IF j = i THEN o ELSE h.p[j]
    /\ \A q \in Owners : g.at[q] = IF q = o THEN i ELSE h.at[q]

LEMMA PutLemma ==
  ASSUME NEW h, NEW L \in Nat, Shape(h, L), NEW i \in 1..L, NEW o \in Owners
  PROVE  Written(Put(h, i, o), h, L, i, o)
  <1>1. PICK g : g = Put(h, i, o)
    OBVIOUS
  <1>2. g.p = [h.p EXCEPT ![i] = o] /\ g.at = [h.at EXCEPT ![o] = i]
    BY <1>1 DEF Put
  <1>3. h.p \in Seq(Owners) /\ Len(h.p) = L /\ h.at \in [Owners -> Nat]
    BY DEF Shape
  <1>4. g.p \in Seq(Owners) /\ Len(g.p) = L /\ \A j \in 1..L : g.p[j] = IF j = i THEN o ELSE h.p[j]
    BY <1>2, <1>3, ExceptSeq
  <1>5. g.at \in [Owners -> Nat] /\ \A q \in Owners : g.at[q] = IF q = o THEN i ELSE h.at[q]
    BY <1>2, <1>3
  <1> QED
    BY <1>1, <1>4, <1>5 DEF Written, Shape

LEMMA ArrayFacts ==
  ASSUME NEW h, NEW L \in Nat, NEW E, Array(h, L, E)
  PROVE  Shape(h, L) /\ \A j \in 1..L : h.p[j] \in Owners
  BY ElementOfSeq DEF Array, Shape

LEMMA BubbleStops ==
  ASSUME NEW h, NEW i, NEW L \in Nat, NEW E, NEW w, Times(w), Bubbling(h, i, L, E, w), Stops(h, i, w),
         NEW g, g = Put(h, i, h.p[i])
  PROVE  Bubbling(g, i, L, E, w) /\ Stops(g, i, w) /\ g.at[g.p[i]] = i
  <1>0. Array(h, L, E) /\ i \in 1..L
    BY DEF Bubbling
  <1>1. Shape(h, L) /\ h.p[i] \in Owners /\ \A j \in 1..L : h.p[j] \in Owners
    BY <1>0, ArrayFacts
  <1>2. Written(g, h, L, i, h.p[i])
    BY <1>0, <1>1, PutLemma
  <1>3. \A j \in 1..L : g.p[j] = h.p[j]
    BY <1>2 DEF Written
  <1>p. \A j \in 2..L : HeapParent(j) \in 1..L
    BY ParentLemma
  <1>4. Array(g, L, E)
    BY <1>0, <1>2, <1>3 DEF Written, Array
  <1>5. ASSUME NEW j \in 1..L PROVE g.at[g.p[j]] = j
    <2>1. g.p[j] = h.p[j] /\ h.p[j] \in Owners
      BY <1>1, <1>3
    <2>2. g.at[h.p[j]] = IF h.p[j] = h.p[i] THEN i ELSE h.at[h.p[j]]
      BY <1>2, <2>1 DEF Written
    <2>3. (h.p[j] = h.p[i] => j = i) /\ (j # i => h.at[h.p[j]] = j)
      BY <1>0 DEF Array, Bubbling
    <2> QED
      BY <2>1, <2>2, <2>3
  <1>6. Stops(g, i, w)
    <2>1. i # 1 => i \in 2..L
      BY <1>0
    <2> QED
      BY <1>0, <1>3, <1>p, <2>1 DEF Stops
  <1>7. \A j \in 2..L : j # i => w[g.p[HeapParent(j)]] <= w[g.p[j]]
    BY <1>3, <1>p DEF Bubbling
  <1>8. \A j \in 2..L : HeapParent(j) = i /\ i # 1 => w[g.p[HeapParent(i)]] <= w[g.p[j]]
    <2>1. i # 1 => i \in 2..L
      BY <1>0
    <2> QED
      BY <1>3, <1>p, <2>1 DEF Bubbling
  <1> QED
    BY <1>0, <1>4, <1>5, <1>6, <1>7, <1>8 DEF Bubbling

LEMMA BubbleSwaps ==
  ASSUME NEW h, NEW i, NEW L \in Nat, NEW E, NEW w, Times(w), Bubbling(h, i, L, E, w), ~Stops(h, i, w),
         NEW u, u = HeapParent(i), NEW g, g = Put(Put(h, i, h.p[u]), u, h.p[i])
  PROVE  Bubbling(g, u, L, E, w) /\ u < i
  <1>0. i \in 2..L /\ u \in 1..L /\ u < i
    BY ParentLemma DEF Bubbling, Stops
  <1>a. Array(h, L, E)
    BY DEF Bubbling
  <1>1. Shape(h, L) /\ \A j \in 1..L : h.p[j] \in Owners
    BY <1>a, ArrayFacts
  <1>2. PICK f : f = Put(h, i, h.p[u])
    OBVIOUS
  <1>3. Written(f, h, L, i, h.p[u])
    BY <1>0, <1>1, <1>2, PutLemma
  <1>4. Written(g, f, L, u, h.p[i])
    <2>1. Shape(f, L)
      BY <1>3 DEF Written
    <2> QED
      BY <1>0, <1>1, <1>2, <2>1, PutLemma
  <1> DEFINE s == [j \in 1..L |-> IF j = u THEN i ELSE IF j = i THEN u ELSE j]
  <1>b. \A j \in 1..L : s[j] \in 1..L /\ s[s[j]] = j /\ (s[j] = i <=> j = u) /\ (s[j] = u <=> j = i)
    BY <1>0
  <1>5. \A j \in 1..L : g.p[j] = IF j = u THEN h.p[i] ELSE IF j = i THEN h.p[u] ELSE h.p[j]
    BY <1>3, <1>4 DEF Written
  <1>c. \A j \in 1..L : g.p[j] = h.p[s[j]]
    BY <1>5
  <1>6. \A q \in Owners : g.at[q] = IF q = h.p[i] THEN u ELSE IF q = h.p[u] THEN i ELSE h.at[q]
    BY <1>3, <1>4 DEF Written
  <1> HIDE DEF s
  <1>7. Array(g, L, E)
    <2>1. ASSUME NEW j \in 1..L, NEW k \in 1..L, g.p[j] = g.p[k] PROVE j = k
      <3>1. h.p[s[j]] = h.p[s[k]] /\ s[j] \in 1..L /\ s[k] \in 1..L
        BY <1>b, <1>c, <2>1
      <3>2. s[j] = s[k]
        BY <1>a, <3>1 DEF Array
      <3> QED
        BY <1>b, <3>2
    <2>2. \A j \in 1..L : g.p[j] \in E
      BY <1>b, <1>c, <1>a DEF Array
    <2>3. ASSUME NEW o \in E PROVE \E j \in 1..L : g.p[j] = o
      <3>1. PICK j \in 1..L : h.p[j] = o
        BY <1>a DEF Array
      <3>2. s[j] \in 1..L /\ g.p[s[j]] = o
        BY <1>b, <1>c, <3>1
      <3> QED
        BY <3>2
    <2> QED
      BY <1>4, <2>1, <2>2, <2>3 DEF Array, Written
  <1>8. ASSUME NEW j \in 1..L, j # u PROVE g.at[g.p[j]] = j
    <2>1. h.p[s[j]] \in Owners /\ s[j] \in 1..L /\ s[j] # i
      BY <1>1, <1>b, <1>8
    <2>2. h.p[s[j]] # h.p[i]
      BY <1>0, <1>a, <2>1 DEF Array
    <2>3. CASE j = i
      BY <1>5, <1>6, <1>c, <2>1, <2>2, <2>3, <1>0
    <2>4. CASE j # i
      <3>1. s[j] = j /\ h.p[j] # h.p[u]
        BY <1>0, <1>8, <1>a, <2>4 DEF Array, s
      <3>2. h.at[h.p[j]] = j
        BY <2>4 DEF Bubbling
      <3> QED
        BY <1>6, <1>c, <2>1, <2>2, <3>1, <3>2
    <2> QED
      BY <2>3, <2>4
  <1>9. \A j \in 1..L : w[h.p[j]] \in Int
    BY <1>1 DEF Times
  <1>10. w[h.p[i]] <= w[h.p[u]]
    BY <1>0, <1>9 DEF Stops
  <1>p. \A j \in 2..L : HeapParent(j) \in 1..L /\ HeapParent(j) # j
    BY ParentLemma
  <1>11. ASSUME NEW j \in 2..L, j # u PROVE w[g.p[HeapParent(j)]] <= w[g.p[j]]
    <2>1. CASE j = i
      BY <1>0, <1>5, <1>10, <2>1
    <2>2. CASE j # i /\ HeapParent(j) = i
      <3>1. w[h.p[u]] <= w[h.p[j]]
        BY <1>0, <2>2 DEF Bubbling
      <3> QED
        BY <1>0, <1>5, <1>11, <2>2, <3>1
    <2>3. CASE j # i /\ HeapParent(j) = u
      <3>1. w[h.p[u]] <= w[h.p[j]]
        BY <2>3 DEF Bubbling
      <3>2. w[h.p[i]] <= w[h.p[j]]
        BY <1>0, <1>9, <1>10, <3>1
      <3> QED
        BY <1>0, <1>5, <1>11, <2>3, <3>2
    <2>4. CASE j # i /\ HeapParent(j) \notin {i, u}
      <3>1. w[h.p[HeapParent(j)]] <= w[h.p[j]]
        BY <2>4 DEF Bubbling
      <3> QED
        BY <1>0, <1>5, <1>11, <1>p, <2>4, <3>1
    <2> QED
      BY <2>1, <2>2, <2>3, <2>4
  <1>12. ASSUME NEW j \in 2..L, HeapParent(j) = u, u # 1 PROVE w[g.p[HeapParent(u)]] <= w[g.p[j]]
    <2>0. u \in 2..L /\ HeapParent(u) \in 1..L /\ HeapParent(u) # u /\ HeapParent(u) # i
      BY <1>0, <1>12, ParentLemma
    <2>1. w[h.p[HeapParent(u)]] <= w[h.p[u]]
      BY <1>0, <2>0 DEF Bubbling
    <2>2. g.p[HeapParent(u)] = h.p[HeapParent(u)]
      BY <1>5, <2>0
    <2>3. CASE j = i
      BY <1>0, <1>5, <2>1, <2>2, <2>3
    <2>4. CASE j # i
      <3>1. w[h.p[u]] <= w[h.p[j]] /\ j # u
        BY <1>12, <1>p, <2>4 DEF Bubbling
      <3>2. w[h.p[HeapParent(u)]] <= w[h.p[j]]
        BY <1>0, <1>9, <2>0, <2>1, <3>1
      <3> QED
        BY <1>5, <2>2, <2>4, <3>1, <3>2
    <2> QED
      BY <2>3, <2>4
  <1> QED
    BY <1>0, <1>7, <1>8, <1>11, <1>12 DEF Bubbling

Arrays == [p : Seq(Owners), at : [Owners -> Nat]]

LEMMA PutType ==
  ASSUME NEW h \in Arrays, NEW L \in Nat, Shape(h, L), NEW i \in 1..L, NEW o \in Owners
  PROVE  Put(h, i, o) \in Arrays
  <1>1. [h.p EXCEPT ![i] = o] \in Seq(Owners)
    BY ExceptSeq DEF Shape
  <1>2. [h.at EXCEPT ![o] = i] \in [Owners -> Nat]
    BY DEF Shape
  <1> QED
    BY <1>1, <1>2 DEF Put, Arrays

\* The states of the loop.
Bubbles(L, E, w) == {x \in [h : Arrays, i : Nat] : Bubbling(x.h, x.i, L, E, w)}

\* The event is where it belongs, and knows its place.
Settled(x, w) == Stops(x.h, x.i, w) /\ x.h.at[x.h.p[x.i]] = x.i

Closer(y, x, w) == Settled(y, w) \/ (~Settled(x, w) /\ y.i < x.i)

LEMMA BubbleTurnLemma ==
  ASSUME NEW L \in Nat, NEW E, NEW w, Times(w), NEW x \in Bubbles(L, E, w)
  PROVE  BubbleTurn(x, w) \in Bubbles(L, E, w) /\ Closer(BubbleTurn(x, w), x, w)
  <1>1. PICK h, i : h = x.h /\ i = x.i
    OBVIOUS
  <1>2. h \in Arrays /\ Bubbling(h, i, L, E, w)
    BY <1>1 DEF Bubbles
  <1>3. Array(h, L, E) /\ i \in 1..L
    BY <1>2 DEF Bubbling
  <1>4. Shape(h, L) /\ \A j \in 1..L : h.p[j] \in Owners
    BY <1>3, ArrayFacts
  <1>5. CASE Stops(h, i, w)
    <2>1. PICK g : g = Put(h, i, h.p[i])
      OBVIOUS
    <2>2. Bubbling(g, i, L, E, w) /\ Stops(g, i, w) /\ g.at[g.p[i]] = i
      BY <1>2, <1>5, <2>1, BubbleStops
    <2>3. g \in Arrays
      BY <1>2, <1>3, <1>4, <2>1, PutType
    <2>4. BubbleTurn(x, w) = [h |-> g, i |-> i]
      BY <1>1, <1>5, <2>1 DEF BubbleTurn, Stops
    <2> QED
      BY <1>3, <2>2, <2>3, <2>4 DEF Bubbles, Closer, Settled
  <1>6. CASE ~Stops(h, i, w)
    <2>0. PICK u : u = HeapParent(i)
      OBVIOUS
    <2>1. PICK f : f = Put(h, i, h.p[u])
      OBVIOUS
    <2>5. PICK g : g = Put(f, u, h.p[i])
      OBVIOUS
    <2>2. Bubbling(g, u, L, E, w) /\ u < i
      BY <1>2, <1>6, <2>0, <2>1, <2>5, BubbleSwaps
    <2>6. u \in 1..L
      BY <2>2 DEF Bubbling
    <2>7. Written(f, h, L, i, h.p[u])
      BY <1>3, <1>4, <2>1, <2>6, PutLemma
    <2>8. f \in Arrays /\ Shape(f, L)
      BY <1>2, <1>3, <1>4, <2>1, <2>6, <2>7, PutType DEF Written
    <2>3. g \in Arrays
      BY <1>3, <1>4, <2>5, <2>6, <2>8, PutType
    <2>4. BubbleTurn(x, w) = [h |-> g, i |-> u]
      BY <1>1, <1>6, <2>0, <2>1, <2>5 DEF BubbleTurn, Stops
    <2> QED
      BY <1>1, <1>3, <1>6, <2>2, <2>3, <2>4, <2>6 DEF Bubbles, Closer, Settled
  <1> QED
    BY <1>5, <1>6

IsBubbleTurns(T, x, L, w) == T[0] = x /\ \A k \in 1..L : T[k] = BubbleTurn(T[k - 1], w)

LEMMA BubbleTurnsLemma ==
  ASSUME NEW L \in Nat, NEW E, NEW w, Times(w), NEW h \in Arrays, NEW i, Bubbling(h, i, L, E, w)
  PROVE  IsBubbleTurns(BubbleTurns(h, i, w), [h |-> h, i |-> i], L, w)
  <1> DEFINE S == Bubbles(L, E, w)
             base == [h |-> h, i |-> i]
             F == [x \in S |-> BubbleTurn(x, w)]
             Def(g) == [n \in 0..L |-> IF n = 0 THEN base ELSE BubbleTurn(g[n - 1], w)]
             T == BubbleTurns(h, i, w)
  <1>0. Len(h.p) = L
    BY DEF Bubbling, Array, Shape
  <1>1. base \in S
    BY DEF Bubbles, Bubbling
  <1>2. ASSUME NEW x \in S PROVE BubbleTurn(x, w) \in S
    BY BubbleTurnLemma
  <1>3. F \in [S -> S]
    BY <1>2
  <1>4. T = CHOOSE g : g = Def(g)
    BY <1>0 DEF BubbleTurns
  <1>5. PICK g : Iterates(g, L, base, F, S)
    <2> HIDE DEF S, base, F
    <2> QED
      BY <1>1, <1>3, IterationExists
  <1>6. g = Def(g)
    <2>1. g = [k \in 0..L |-> IF k = 0 THEN base ELSE F[g[k - 1]]] /\ \A k \in 0..L : g[k] \in S
      BY <1>5 DEF Iterates
    <2>2. ASSUME NEW k \in 0..L
          PROVE  (IF k = 0 THEN base ELSE F[g[k - 1]]) = (IF k = 0 THEN base ELSE BubbleTurn(g[k - 1], w))
      <3>1. CASE k # 0
        <4>1. k - 1 \in 0..L
          BY <3>1
        <4>2. g[k - 1] \in S
          BY <2>1, <4>1
        <4> QED
          BY <3>1, <4>2
      <3> QED
        BY <3>1
    <2> HIDE DEF F, S, base
    <2> QED
      BY <2>1, <2>2
  <1> HIDE DEF T
  <1>7. T = Def(T)
    <2> HIDE DEF Def
    <2> QED
      BY <1>4, <1>6
  <1>8. T[0] = base
    BY <1>7
  <1>9. ASSUME NEW k \in 1..L PROVE T[k] = BubbleTurn(T[k - 1], w)
    <2>1. k \in 0..L /\ k # 0
      OBVIOUS
    <2> HIDE DEF base
    <2> QED
      BY <1>7, <2>1
  <1> QED
    BY <1>8, <1>9 DEF T, IsBubbleTurns

\* After so many turns the event is settled, or has gone up as often.
BubbledUp(x, k, i, w) == Settled(x, w) \/ x.i + k <= i

\* fr_heap_bubble() ends with a heap.
LEMMA BubbleLemma ==
  ASSUME NEW L \in Nat, NEW E, NEW w, Times(w), NEW h \in Arrays, NEW i, Bubbling(h, i, L, E, w)
  PROVE  fr_heap_bubble(h, i, w) \in Arrays /\ Whole(fr_heap_bubble(h, i, w), L, E, w)
  <1>1. PICK T : T = BubbleTurns(h, i, w)
    OBVIOUS
  <1>2. T[0] = [h |-> h, i |-> i] /\ \A k \in 1..L : T[k] = BubbleTurn(T[k - 1], w)
    BY <1>1, BubbleTurnsLemma DEF IsBubbleTurns
  <1>0. i \in 1..L /\ Len(h.p) = L
    BY DEF Bubbling, Array, Shape
  <1> DEFINE S == {k \in 0..L : T[k] \in Bubbles(L, E, w) /\ BubbledUp(T[k], k, i, w)}
  <1>3. 0 \in S
    BY <1>0, <1>2 DEF Bubbles, BubbledUp
  <1>4. ASSUME NEW k \in 1..L, k - 1 \in S PROVE k \in S
    <2>1. PICK x : x = T[k - 1]
      OBVIOUS
    <2>2. x \in Bubbles(L, E, w) /\ BubbledUp(x, k - 1, i, w)
      BY <1>4, <2>1
    <2>3. T[k] \in Bubbles(L, E, w) /\ Closer(T[k], x, w)
      BY <1>2, <2>1, <2>2, BubbleTurnLemma
    <2>4. x.i \in Nat /\ T[k].i \in Nat
      BY <2>2, <2>3 DEF Bubbles
    <2>5. BubbledUp(T[k], k, i, w)
      BY <1>0, <2>2, <2>3, <2>4 DEF BubbledUp, Closer
    <2> QED
      BY <2>3, <2>5
  <1>5. S = 0..L
    <2>1. S \in SUBSET (0..L)
      OBVIOUS
    <2> HIDE DEF S
    <2> QED
      BY <1>3, <1>4, <2>1, UpTo
  <1>6. L \in S
    BY <1>5
  <1>7. PICK x : x = T[L]
    OBVIOUS
  <1>8. x \in Bubbles(L, E, w) /\ BubbledUp(x, L, i, w)
    BY <1>6, <1>7
  <1>9. x.h \in Arrays /\ x.i \in 1..L /\ Bubbling(x.h, x.i, L, E, w)
    BY <1>8 DEF Bubbles, Bubbling
  <1>10. Settled(x, w)
    BY <1>0, <1>8, <1>9 DEF BubbledUp
  <1>11. PICK f, u : f = x.h /\ u = x.i
    OBVIOUS
  <1>12. f \in Arrays /\ u \in 1..L /\ Bubbling(f, u, L, E, w) /\ Stops(f, u, w) /\ f.at[f.p[u]] = u
    BY <1>9, <1>10, <1>11 DEF Settled
  <1>13. Array(f, L, E)
    BY <1>12 DEF Bubbling
  <1>17. \A j \in 1..L : f.p[j] \in Owners
    BY <1>13, ArrayFacts
  <1>14. \A j \in 1..L : w[f.p[j]] \in Int
    BY <1>17 DEF Times
  <1>15. ASSUME NEW j \in 2..L PROVE w[f.p[HeapParent(j)]] <= w[f.p[j]]
    <2>1. HeapParent(j) \in 1..L
      BY ParentLemma
    <2> QED
      BY <1>12, <1>14, <2>1 DEF Bubbling, Stops
  <1>16. Whole(f, L, E, w)
    BY <1>12, <1>13, <1>15 DEF Whole, Bubbling
  <1> QED
    BY <1>0, <1>1, <1>7, <1>11, <1>12, <1>16 DEF fr_heap_bubble

\* In the middle of fr_heap_extract(): a heap with a hole at place c.
Holed(h, c, L, E, w) ==
    /\ Shape(h, L) /\ c \in 1..L
    /\ \A j, k \in 1..L : j # c /\ k # c /\ h.p[j] = h.p[k] => j = k
    /\ \A j \in 1..L : j # c => h.p[j] \in E /\ h.at[h.p[j]] = j
    /\ \A o \in E : \E j \in 1..L : j # c /\ h.p[j] = o
    /\ \A j \in 2..L : j # c /\ HeapParent(j) # c => w[h.p[HeapParent(j)]] <= w[h.p[j]]
    /\ \A j \in 2..L : HeapParent(j) = c /\ c # 1 => w[h.p[HeapParent(c)]] <= w[h.p[j]]

LEMMA ChildLemma ==
  ASSUME NEW j \in Nat, j >= 2, NEW c \in Nat
  PROVE  HeapParent(j) = c <=> (j = 2 * c \/ j = 2 * c + 1)
  BY DEF HeapParent

\* The smaller child of c.
Child(h, c, d, L, w) ==
    /\ d \in 2..L /\ HeapParent(d) = c
    /\ \A j \in 2..L : HeapParent(j) = c => w[h.p[d]] <= w[h.p[j]]

LEMMA SiftStep ==
  ASSUME NEW L \in Nat, NEW E, NEW w, Times(w), NEW h, NEW c, Holed(h, c, L, E, w),
         NEW d, Child(h, c, d, L, w), NEW g, g = Put(h, c, h.p[d])
  PROVE  Holed(g, d, L, E, w)
  <1>0. Shape(h, L) /\ c \in 1..L /\ d \in 2..L /\ HeapParent(d) = c /\ c < d
    BY ParentLemma DEF Holed, Child
  <1>1. \A j \in 1..L : h.p[j] \in Owners
    BY <1>0, ElementOfSeq DEF Shape
  <1>2. Written(g, h, L, c, h.p[d])
    BY <1>0, <1>1, PutLemma
  <1>3. \A j \in 1..L : g.p[j] = IF j = c THEN h.p[d] ELSE h.p[j]
    BY <1>2 DEF Written
  <1>4. \A q \in Owners : g.at[q] = IF q = h.p[d] THEN c ELSE h.at[q]
    BY <1>2 DEF Written
  <1> DEFINE s == [j \in 1..L |-> IF j = c THEN d ELSE j]
  <1>5. /\ \A j \in 1..L : g.p[j] = h.p[s[j]] /\ s[j] \in 1..L
        /\ \A j \in 1..L : j # d => s[j] # c
        /\ \A j, k \in 1..L : j # d /\ k # d /\ s[j] = s[k] => j = k
        /\ \A j \in 1..L : j # d /\ s[j] = d => j = c
    BY <1>0, <1>3
  <1> HIDE DEF s
  <1>6. ASSUME NEW j \in 1..L, NEW k \in 1..L, j # d, k # d, g.p[j] = g.p[k] PROVE j = k
    <2>1. s[j] \in 1..L /\ s[k] \in 1..L /\ s[j] # c /\ s[k] # c /\ h.p[s[j]] = h.p[s[k]]
      BY <1>5, <1>6
    <2>2. s[j] = s[k]
      BY <2>1 DEF Holed
    <2> QED
      BY <1>5, <1>6, <2>2
  <1>7. ASSUME NEW j \in 1..L, j # d PROVE g.p[j] \in E /\ g.at[g.p[j]] = j
    <2>1. s[j] \in 1..L /\ s[j] # c /\ g.p[j] = h.p[s[j]]
      BY <1>5, <1>7
    <2>2. h.p[s[j]] \in E /\ h.at[h.p[s[j]]] = s[j] /\ h.p[s[j]] \in Owners
      BY <1>1, <2>1 DEF Holed
    <2>3. CASE j = c
      BY <1>0, <1>1, <1>3, <1>4, <2>1, <2>2, <2>3
    <2>4. CASE j # c
      <3>1. s[j] = j
        BY <2>4 DEF s
      <3>2. h.p[j] # h.p[d]
        BY <1>0, <1>7, <2>4 DEF Holed
      <3> QED
        BY <1>4, <2>1, <2>2, <3>1, <3>2
    <2> QED
      BY <2>3, <2>4
  <1>8. ASSUME NEW o \in E PROVE \E j \in 1..L : j # d /\ g.p[j] = o
    <2>1. PICK j \in 1..L : j # c /\ h.p[j] = o
      BY DEF Holed
    <2>2. CASE j = d
      BY <1>0, <1>3, <2>1, <2>2
    <2>3. CASE j # d
      BY <1>3, <2>1, <2>3
    <2> QED
      BY <2>2, <2>3
  <1>p. \A j \in 2..L : HeapParent(j) \in 1..L /\ HeapParent(j) < j
    BY ParentLemma
  <1>9. ASSUME NEW j \in 2..L, j # d, HeapParent(j) # d PROVE w[g.p[HeapParent(j)]] <= w[g.p[j]]
    <2>1. CASE j = c
      <3>1. w[h.p[HeapParent(c)]] <= w[h.p[d]]
        BY <1>0, <2>1 DEF Holed
      <3>2. HeapParent(c) # c /\ HeapParent(c) \in 1..L
        BY <1>p, <2>1
      <3> QED
        BY <1>0, <1>3, <2>1, <3>1, <3>2
    <2>2. CASE HeapParent(j) = c
      <3>1. w[h.p[d]] <= w[h.p[j]] /\ j # c
        BY <1>p, <2>2 DEF Child
      <3> QED
        BY <1>0, <1>3, <2>2, <3>1
    <2>3. CASE j # c /\ HeapParent(j) # c
      <3>1. w[h.p[HeapParent(j)]] <= w[h.p[j]]
        BY <2>3 DEF Holed
      <3> QED
        BY <1>3, <1>p, <2>3, <3>1
    <2> QED
      BY <2>1, <2>2, <2>3
  <1>10. ASSUME NEW j \in 2..L, HeapParent(j) = d PROVE w[g.p[HeapParent(d)]] <= w[g.p[j]]
    <2>1. j # c /\ j # d
      BY <1>0, <1>p, <1>10
    <2>2. w[h.p[d]] <= w[h.p[j]]
      BY <1>0, <1>10, <2>1 DEF Holed
    <2> QED
      BY <1>0, <1>3, <2>1, <2>2
  <1>11. Shape(g, L) /\ d \in 1..L
    BY <1>0, <1>2 DEF Written
  <1> QED
    BY <1>6, <1>7, <1>8, <1>9, <1>10, <1>11 DEF Holed

\* The states of the loop.
Holes(L, E) == {x \in [h : Arrays, hole : Nat] : Holed(x.h, x.hole, L, E, when)}

Lower(y, x, L) == 2 * y.hole > L \/ (2 * x.hole <= L /\ y.hole > x.hole)

LEMMA SiftTurnLemma ==
  ASSUME NEW L \in Nat, NEW E, Times(when), NEW x \in Holes(L, E)
  PROVE  SiftTurn(x) \in Holes(L, E) /\ Lower(SiftTurn(x), x, L)
  <1>1. PICK h, c : h = x.h /\ c = x.hole
    OBVIOUS
  <1>2. h \in Arrays /\ Holed(h, c, L, E, when)
    BY <1>1 DEF Holes
  <1>3. Shape(h, L) /\ c \in 1..L /\ Len(h.p) = L
    BY <1>2 DEF Holed, Shape
  <1>4. \A j \in 1..L : h.p[j] \in Owners
    BY <1>3, ElementOfSeq DEF Shape
  <1>5. \A j \in 1..L : when[h.p[j]] \in Int
    BY <1>4 DEF Times
  <1>6. CASE 2 * c > L
    <2>1. SiftTurn(x) = x
      BY <1>1, <1>3, <1>6 DEF SiftTurn, HeapLeft
    <2> QED
      BY <1>1, <1>6, <2>1 DEF Lower
  <1>7. CASE 2 * c <= L
    <2>1. PICK l : l = 2 * c
      OBVIOUS
    <2>2. PICK d : d = IF l # L /\ when[h.p[l + 1]] < when[h.p[l]] THEN l + 1 ELSE l
      OBVIOUS
    <2>3. l \in 2..L /\ (l # L => l + 1 \in 2..L) /\ d \in 2..L /\ d \in {l, l + 1}
      BY <1>3, <1>7, <2>1, <2>2
    <2>4. HeapParent(d) = c /\ c < d
      BY <1>3, <2>1, <2>3, ChildLemma
    <2>5. ASSUME NEW j \in 2..L, HeapParent(j) = c PROVE when[h.p[d]] <= when[h.p[j]]
      <3>1. j = l \/ j = l + 1
        BY <1>3, <2>1, <2>5, ChildLemma
      <3>2. when[h.p[l]] \in Int /\ (l # L => when[h.p[l + 1]] \in Int)
        BY <1>5, <2>3
      <3> QED
        BY <2>2, <2>3, <3>1, <3>2
    <2>6. Child(h, c, d, L, when)
      BY <2>3, <2>4, <2>5 DEF Child
    <2>7. PICK g : g = Put(h, c, h.p[d])
      OBVIOUS
    <2>8. Holed(g, d, L, E, when)
      BY <1>2, <2>6, <2>7, SiftStep
    <2>9. g \in Arrays
      BY <1>2, <1>3, <1>4, <2>3, <2>7, PutType
    <2>10. SiftTurn(x) = [h |-> g, hole |-> d]
      <3>1. HeapLeft(x.hole) = l /\ Len(x.h.p) = L /\ ~(l > L)
        BY <1>1, <1>3, <1>7, <2>1 DEF HeapLeft
      <3>2. SiftTurn(x) = [h |-> Put(h, c, h.p[d]), hole |-> d]
        BY ONLY <1>1, <2>2, <3>1 DEF SiftTurn
      <3> QED
        BY <2>7, <3>2
    <2> QED
      BY <1>1, <1>7, <2>3, <2>4, <2>8, <2>9, <2>10 DEF Holes, Lower
  <1> QED
    BY <1>3, <1>6, <1>7

IsSiftTurns(T, x, L) == T[0] = x /\ \A k \in 1..L : T[k] = SiftTurn(T[k - 1])

LEMMA SiftTurnsLemma ==
  ASSUME NEW L \in Nat, NEW E, Times(when), NEW h \in Arrays, NEW i, Holed(h, i, L, E, when)
  PROVE  IsSiftTurns(SiftTurns(h, i), [h |-> h, hole |-> i], L)
  <1> DEFINE S == Holes(L, E)
             base == [h |-> h, hole |-> i]
             F == [x \in S |-> SiftTurn(x)]
             Def(g) == [n \in 0..L |-> IF n = 0 THEN base ELSE SiftTurn(g[n - 1])]
             T == SiftTurns(h, i)
  <1>0. Len(h.p) = L
    BY DEF Holed, Shape
  <1>1. base \in S
    BY DEF Holes, Holed
  <1>2. ASSUME NEW x \in S PROVE SiftTurn(x) \in S
    BY SiftTurnLemma
  <1>3. F \in [S -> S]
    BY <1>2
  <1>4. T = CHOOSE g : g = Def(g)
    BY <1>0 DEF SiftTurns
  <1>5. PICK g : Iterates(g, L, base, F, S)
    <2> HIDE DEF S, base, F
    <2> QED
      BY <1>1, <1>3, IterationExists
  <1>6. g = Def(g)
    <2>1. g = [k \in 0..L |-> IF k = 0 THEN base ELSE F[g[k - 1]]] /\ \A k \in 0..L : g[k] \in S
      BY <1>5 DEF Iterates
    <2>2. ASSUME NEW k \in 0..L
          PROVE  (IF k = 0 THEN base ELSE F[g[k - 1]]) = (IF k = 0 THEN base ELSE SiftTurn(g[k - 1]))
      <3>1. CASE k # 0
        <4>1. k - 1 \in 0..L
          BY <3>1
        <4>2. g[k - 1] \in S
          BY <2>1, <4>1
        <4> QED
          BY <3>1, <4>2
      <3> QED
        BY <3>1
    <2> HIDE DEF F, S, base
    <2> QED
      BY <2>1, <2>2
  <1> HIDE DEF T
  <1>7. T = Def(T)
    <2> HIDE DEF Def
    <2> QED
      BY <1>4, <1>6
  <1>8. T[0] = base
    BY <1>7
  <1>9. ASSUME NEW k \in 1..L PROVE T[k] = SiftTurn(T[k - 1])
    <2>1. k \in 0..L /\ k # 0
      OBVIOUS
    <2> HIDE DEF base
    <2> QED
      BY <1>7, <2>1
  <1> QED
    BY <1>8, <1>9 DEF T, IsSiftTurns

\* After so many turns the hole is a leaf, or has gone down as often.
SunkDown(x, k, i, L) == 2 * x.hole > L \/ x.hole >= i + k

\* The loop of fr_heap_extract() ends with the hole at a leaf.
LEMMA SiftLemma ==
  ASSUME NEW L \in Nat, NEW E, Times(when), NEW h \in Arrays, NEW i, Holed(h, i, L, E, when)
  PROVE  Sift(h, i) \in Holes(L, E) /\ 2 * Sift(h, i).hole > L
  <1>1. PICK T : T = SiftTurns(h, i)
    OBVIOUS
  <1>2. T[0] = [h |-> h, hole |-> i] /\ \A k \in 1..L : T[k] = SiftTurn(T[k - 1])
    BY <1>1, SiftTurnsLemma DEF IsSiftTurns
  <1>0. i \in 1..L /\ Len(h.p) = L
    BY DEF Holed, Shape
  <1> DEFINE S == {k \in 0..L : T[k] \in Holes(L, E) /\ SunkDown(T[k], k, i, L)}
  <1>3. 0 \in S
    BY <1>0, <1>2 DEF Holes, SunkDown
  <1>4. ASSUME NEW k \in 1..L, k - 1 \in S PROVE k \in S
    <2>1. PICK x : x = T[k - 1]
      OBVIOUS
    <2>2. x \in Holes(L, E) /\ SunkDown(x, k - 1, i, L)
      BY <1>4, <2>1
    <2>3. T[k] \in Holes(L, E) /\ Lower(T[k], x, L)
      BY <1>2, <2>1, <2>2, SiftTurnLemma
    <2>4. x.hole \in Nat /\ T[k].hole \in Nat
      BY <2>2, <2>3 DEF Holes
    <2>5. SunkDown(T[k], k, i, L)
      BY <1>0, <2>2, <2>3, <2>4 DEF SunkDown, Lower
    <2> QED
      BY <2>3, <2>5
  <1>5. S = 0..L
    <2>1. S \in SUBSET (0..L)
      OBVIOUS
    <2> HIDE DEF S
    <2> QED
      BY <1>3, <1>4, <2>1, UpTo
  <1>6. L \in S
    BY <1>5
  <1>7. PICK x : x = T[L]
    OBVIOUS
  <1>8. x \in Holes(L, E) /\ SunkDown(x, L, i, L)
    BY <1>6, <1>7
  <1>9. x.hole \in 1..L
    BY <1>8 DEF Holes, Holed
  <1>10. 2 * x.hole > L
    BY <1>0, <1>8, <1>9 DEF SunkDown
  <1> QED
    BY <1>0, <1>1, <1>7, <1>8, <1>10 DEF Sift

\* The event leaves a hole.
LEMMA HoleLemma ==
  ASSUME NEW L \in Nat, NEW E, NEW h \in Arrays, NEW w, Times(w), Whole(h, L, E, w), NEW o \in E,
         NEW f, f = [h EXCEPT !.at[o] = 0]
  PROVE  f \in Arrays /\ h.at[o] \in 1..L /\ Holed(f, h.at[o], L, E \ {o}, w)
  <1>1. Array(h, L, E) /\ Shape(h, L)
    BY DEF Whole, Array
  <1>2. PICK i \in 1..L : h.p[i] = o
    BY <1>1 DEF Array
  <1>3. h.at[o] = i /\ o \in Owners
    BY <1>1, <1>2, ElementOfSeq DEF Whole, Shape
  <1>4. h.p \in Seq(Owners) /\ h.at \in [Owners -> Nat]
    BY <1>1 DEF Shape
  <1>5. f = [p |-> h.p, at |-> [h.at EXCEPT ![o] = 0]]
    BY DEF Arrays
  <1>6. f.p = h.p /\ f.at \in [Owners -> Nat] /\ \A q \in Owners : q # o => f.at[q] = h.at[q]
    <2>1. f.p = h.p /\ f.at = [h.at EXCEPT ![o] = 0]
      BY <1>5
    <2>2. PICK a : a = h.at
      OBVIOUS
    <2>3. a \in [Owners -> Nat] /\ f.at = [a EXCEPT ![o] = 0] /\ o \in Owners
      BY <1>3, <1>4, <2>1, <2>2
    <2>4. f.at \in [Owners -> Nat] /\ \A q \in Owners : q # o => f.at[q] = a[q]
      BY ONLY <2>3
    <2> QED
      BY <2>1, <2>2, <2>4
  <1>7. f \in Arrays
    BY <1>4, <1>5, <1>6 DEF Arrays
  <1>8. \A j \in 1..L : h.p[j] \in Owners
    BY <1>1, ArrayFacts
  <1>9. \A j \in 1..L : j # i => h.p[j] # o
    BY <1>1, <1>2 DEF Array
  <1>10. Shape(f, L)
    BY <1>1, <1>6 DEF Shape
  <1>11. \A j \in 1..L : j # i => f.p[j] \in E \ {o} /\ f.at[f.p[j]] = j
    BY <1>1, <1>6, <1>8, <1>9 DEF Array, Whole
  <1>12. ASSUME NEW q \in E \ {o} PROVE \E j \in 1..L : j # i /\ f.p[j] = q
    <2>1. PICK j \in 1..L : h.p[j] = q
      BY <1>1 DEF Array
    <2> QED
      BY <1>2, <1>6, <2>1
  <1>13. \A j, k \in 1..L : f.p[j] = f.p[k] => j = k
    BY <1>1, <1>6 DEF Array
  <1>14. \A j \in 2..L : w[f.p[HeapParent(j)]] <= w[f.p[j]]
    BY <1>6 DEF Whole
  <1>15. ASSUME NEW j \in 2..L, HeapParent(j) = i, i # 1 PROVE w[f.p[HeapParent(i)]] <= w[f.p[j]]
    <2>1. i \in 2..L /\ HeapParent(i) \in 1..L
      BY <1>15, ParentLemma
    <2>2. w[f.p[HeapParent(i)]] <= w[f.p[i]] /\ w[f.p[i]] <= w[f.p[j]]
      BY <1>14, <1>15, <2>1
    <2>3. w[f.p[HeapParent(i)]] \in Int /\ w[f.p[i]] \in Int /\ w[f.p[j]] \in Int
      BY <1>6, <1>8, <2>1 DEF Times
    <2> QED
      BY <2>2, <2>3
  <1> QED
    BY <1>3, <1>7, <1>10, <1>11, <1>12, <1>13, <1>14, <1>15 DEF Holed

\* The last place is cut off.
Cut(g, f, L) ==
    /\ g \in Arrays /\ Len(g.p) = L /\ g.at = f.at
    /\ \A j \in 1..L : g.p[j] = f.p[j]

LEMMA CutLemma ==
  ASSUME NEW L \in Nat, NEW f \in Arrays, Shape(f, L), L >= 1,
         NEW g, g = [f EXCEPT !.p = SubSeq(@, 1, L - 1)]
  PROVE  Cut(g, f, L - 1)
  <1>1. f.p \in Seq(Owners) /\ Len(f.p) = L
    BY DEF Shape
  <1>2. \A j \in 1..(L - 1) : f.p[j] \in Owners
    BY <1>1, ElementOfSeq
  <1>3. /\ SubSeq(f.p, 1, L - 1) \in Seq(Owners)
        /\ Len(SubSeq(f.p, 1, L - 1)) = L - 1
        /\ \A j \in 1..(L - 1) : SubSeq(f.p, 1, L - 1)[j] = f.p[j]
    BY <1>1, <1>2, SubSeqProperties
  <1>4. g = [p |-> SubSeq(f.p, 1, L - 1), at |-> f.at] /\ f.at \in [Owners -> Nat]
    BY DEF Arrays
  <1>5. g.p = SubSeq(f.p, 1, L - 1) /\ g.at = f.at
    BY <1>4
  <1>6. g \in Arrays
    BY <1>3, <1>4 DEF Arrays
  <1> QED
    BY <1>3, <1>5, <1>6 DEF Cut

\* The last event is where the hole was.
Moved(b, f, c, L) ==
    /\ b \in Arrays /\ Len(b.p) = L - 1 /\ b.at = f.at
    /\ \A j \in 1..(L - 1) : b.p[j] = IF j = c THEN f.p[L] ELSE f.p[j]

LEMMA MovedLemma ==
  ASSUME NEW L \in Nat, NEW E, NEW w, NEW f, NEW c, Holed(f, c, L, E, w), 2 * c > L, c # L,
         NEW b, Moved(b, f, c, L)
  PROVE  Bubbling(b, c, L - 1, E, w)
  <1>0. c \in 1..L /\ c \in 1..(L - 1) /\ L \in 1..L /\ L - 1 \in Nat
    BY DEF Holed
  <1>1. Shape(b, L - 1)
    BY DEF Moved, Shape, Arrays
  <1>2. \A j \in 1..(L - 1) : b.p[j] = IF j = c THEN f.p[L] ELSE f.p[j]
    BY DEF Moved
  <1> DEFINE s == [j \in 1..(L - 1) |-> IF j = c THEN L ELSE j]
  <1>3. /\ \A j \in 1..(L - 1) : b.p[j] = f.p[s[j]] /\ s[j] \in 1..L /\ s[j] # c
        /\ \A j, k \in 1..(L - 1) : s[j] = s[k] => j = k
    BY <1>0, <1>2
  <1> HIDE DEF s
  <1>4. ASSUME NEW j \in 1..(L - 1), NEW k \in 1..(L - 1), b.p[j] = b.p[k] PROVE j = k
    <2>1. s[j] = s[k]
      BY <1>3, <1>4 DEF Holed
    <2> QED
      BY <1>3, <2>1
  <1>5. \A j \in 1..(L - 1) : b.p[j] \in E
    BY <1>3 DEF Holed
  <1>6. ASSUME NEW o \in E PROVE \E j \in 1..(L - 1) : b.p[j] = o
    <2>1. PICK j \in 1..L : j # c /\ f.p[j] = o
      BY DEF Holed
    <2>2. CASE j = L
      BY <1>0, <1>2, <2>1, <2>2
    <2>3. CASE j # L
      BY <1>2, <2>1, <2>3
    <2> QED
      BY <2>2, <2>3
  <1>7. Array(b, L - 1, E)
    BY <1>1, <1>4, <1>5, <1>6 DEF Array
  <1>8. \A j \in 1..(L - 1) : j # c => b.at[b.p[j]] = j
    BY <1>2 DEF Holed, Moved
  <1>9. \A j \in 2..L : HeapParent(j) \in 1..L /\ HeapParent(j) < j /\ HeapParent(j) # c
    BY <1>0, ParentLemma, ChildLemma
  <1>10. ASSUME NEW j \in 2..(L - 1), j # c PROVE w[b.p[HeapParent(j)]] <= w[b.p[j]]
    <2>1. j \in 2..L /\ HeapParent(j) \in 1..(L - 1) /\ HeapParent(j) # c
      BY <1>9
    <2>2. w[f.p[HeapParent(j)]] <= w[f.p[j]]
      BY <1>10, <2>1 DEF Holed
    <2> QED
      BY <1>2, <1>10, <2>1, <2>2
  <1> QED
    BY <1>0, <1>7, <1>8, <1>9, <1>10 DEF Bubbling

\* What is left of a heap whose last place is the hole.
LEMMA LastLemma ==
  ASSUME NEW L \in Nat, NEW E, NEW w, NEW f, Holed(f, L, L, E, w), NEW g, Cut(g, f, L - 1)
  PROVE  Whole(g, L - 1, E, w)
  <1>1. L \in 1..L /\ L - 1 \in Nat
    BY DEF Holed
  <1>2. Shape(g, L - 1)
    BY DEF Cut, Shape, Arrays
  <1>3. \A j \in 1..(L - 1) : g.p[j] = f.p[j] /\ j \in 1..L /\ j # L
    BY DEF Cut
  <1>4. \A j, k \in 1..(L - 1) : g.p[j] = g.p[k] => j = k
    BY <1>3 DEF Holed
  <1>5. \A j \in 1..(L - 1) : g.p[j] \in E /\ g.at[g.p[j]] = j
    BY <1>3 DEF Holed, Cut
  <1>6. ASSUME NEW o \in E PROVE \E j \in 1..(L - 1) : g.p[j] = o
    <2>1. PICK j \in 1..L : j # L /\ f.p[j] = o
      BY DEF Holed
    <2>2. j \in 1..(L - 1)
      BY <2>1
    <2> QED
      BY <1>3, <2>1, <2>2
  <1>7. ASSUME NEW j \in 2..(L - 1) PROVE w[g.p[HeapParent(j)]] <= w[g.p[j]]
    <2>1. j \in 2..L /\ j # L /\ HeapParent(j) \in 1..(L - 1) /\ HeapParent(j) # L
      BY ParentLemma
    <2>2. w[f.p[HeapParent(j)]] <= w[f.p[j]]
      BY <2>1 DEF Holed
    <2> QED
      BY <1>3, <2>1, <2>2
  <1> QED
    BY <1>2, <1>4, <1>5, <1>6, <1>7 DEF Whole, Array

\* fr_heap_extract() takes an event out of the heap, and leaves a heap.
LEMMA ExtractLemma ==
  ASSUME NEW L \in Nat, NEW E, Times(when), NEW h \in Arrays, Whole(h, L, E, when), NEW o \in E
  PROVE  /\ L >= 1
         /\ fr_heap_extract(h, o) \in Arrays
         /\ Whole(fr_heap_extract(h, o), L - 1, E \ {o}, when)
  <1>0. PICK i, f : i = h.at[o] /\ f = [h EXCEPT !.at[o] = 0]
    OBVIOUS
  <1>1. f \in Arrays /\ i \in 1..L /\ Holed(f, i, L, E \ {o}, when)
    BY <1>0, HoleLemma
  <1>2. PICK x : x = Sift(f, i)
    OBVIOUS
  <1>3. x \in Holes(L, E \ {o}) /\ 2 * x.hole > L
    BY <1>1, <1>2, SiftLemma
  <1>4. PICK y, c : y = x.h /\ c = x.hole
    OBVIOUS
  <1>5. y \in Arrays /\ Holed(y, c, L, E \ {o}, when) /\ 2 * c > L
    BY <1>3, <1>4 DEF Holes
  <1>6. Shape(y, L) /\ c \in 1..L /\ L >= 1 /\ L \in 1..L
    BY <1>5 DEF Holed
  <1>7. PICK g : g = [y EXCEPT !.p = SubSeq(@, 1, L - 1)]
    OBVIOUS
  <1>8. Cut(g, y, L - 1)
    BY <1>5, <1>6, <1>7, CutLemma
  <1>9. PICK b : b = [g EXCEPT !.p[c] = y.p[L]]
    OBVIOUS
  <1>10. Len(h.p) = L
    BY DEF Whole, Array, Shape
  <1>11. fr_heap_extract(h, o) = IF c = L THEN g ELSE fr_heap_bubble(b, c, when)
    BY ONLY <1>0, <1>1, <1>2, <1>4, <1>7, <1>9, <1>10 DEF fr_heap_extract
  <1>12. CASE c = L
    <2>1. Whole(g, L - 1, E \ {o}, when)
      BY <1>5, <1>8, <1>12, LastLemma
    <2> QED
      BY <1>6, <1>8, <1>11, <1>12, <2>1 DEF Cut
  <1>13. CASE c # L
    <2>1. c \in 1..(L - 1) /\ y.p[L] \in Owners
      BY <1>6, <1>13, ElementOfSeq DEF Shape
    <2>2. g \in Arrays /\ Len(g.p) = L - 1 /\ g.p \in Seq(Owners) /\ g.at = y.at
      BY <1>8 DEF Cut, Arrays
    <2>3. b = [p |-> [g.p EXCEPT ![c] = y.p[L]], at |-> g.at]
      BY <1>9, <2>2 DEF Arrays
    <2>4. /\ [g.p EXCEPT ![c] = y.p[L]] \in Seq(Owners)
          /\ Len([g.p EXCEPT ![c] = y.p[L]]) = L - 1
          /\ \A j \in 1..(L - 1) : [g.p EXCEPT ![c] = y.p[L]][j] = IF j = c THEN y.p[L] ELSE g.p[j]
      BY <2>1, <2>2, ExceptSeq
    <2>5. b.p = [g.p EXCEPT ![c] = y.p[L]] /\ b.at = g.at
      BY <2>3
    <2>6. b \in Arrays
      BY <2>2, <2>3, <2>4 DEF Arrays
    <2>7. Moved(b, y, c, L)
      <3>1. \A j \in 1..(L - 1) : g.p[j] = y.p[j]
        BY <1>8 DEF Cut
      <3> QED
        BY <2>2, <2>4, <2>5, <2>6, <3>1 DEF Moved
    <2>8. Bubbling(b, c, L - 1, E \ {o}, when)
      BY <1>5, <1>13, <2>7, MovedLemma
    <2>9. L - 1 \in Nat
      BY <1>6
    <2>10. fr_heap_bubble(b, c, when) \in Arrays /\ Whole(fr_heap_bubble(b, c, when), L - 1, E \ {o}, when)
      BY <2>6, <2>8, <2>9, BubbleLemma
    <2> QED
      BY <1>6, <1>11, <1>13, <2>10
  <1> QED
    BY <1>12, <1>13

\* fr_heap_insert() puts an event into the heap, and leaves a heap.
LEMMA InsertLemma ==
  ASSUME NEW L \in Nat, NEW E, NEW w, Times(w), NEW h \in Arrays, Whole(h, L, E, w),
         NEW o \in Owners, o \notin E
  PROVE  /\ fr_heap_insert(h, o, w) \in Arrays
         /\ Whole(fr_heap_insert(h, o, w), L + 1, E \cup {o}, w)
  <1>0. Array(h, L, E) /\ Shape(h, L) /\ h.p \in Seq(Owners) /\ Len(h.p) = L
    BY DEF Whole, Array, Shape
  <1>1. PICK b : b = [h EXCEPT !.p = Append(@, o)]
    OBVIOUS
  <1>2. b = [p |-> Append(h.p, o), at |-> h.at] /\ h.at \in [Owners -> Nat]
    BY <1>1 DEF Arrays
  <1>3. b.p = Append(h.p, o) /\ b.at = h.at
    BY <1>2
  <1>4. /\ b.p \in Seq(Owners) /\ Len(b.p) = L + 1
        /\ \A j \in 1..L : b.p[j] = h.p[j]
        /\ b.p[L + 1] = o
    BY <1>0, <1>3, AppendProperties
  <1>5. b \in Arrays
    BY <1>2, <1>3, <1>4 DEF Arrays
  <1>6. Shape(b, L + 1)
    BY <1>2, <1>3, <1>4 DEF Shape
  <1>7. \A j \in 1..(L + 1) : j # L + 1 => j \in 1..L
    OBVIOUS
  <1>8. ASSUME NEW j \in 1..(L + 1), NEW k \in 1..(L + 1), b.p[j] = b.p[k] PROVE j = k
    <2>1. \A m \in 1..L : h.p[m] \in E /\ h.p[m] # o
      BY <1>0 DEF Array
    <2>2. CASE j = L + 1 \/ k = L + 1
      BY <1>4, <1>7, <1>8, <2>1, <2>2
    <2>3. CASE j # L + 1 /\ k # L + 1
      BY <1>0, <1>4, <1>7, <1>8, <2>3 DEF Array
    <2> QED
      BY <2>2, <2>3
  <1>9. \A j \in 1..(L + 1) : b.p[j] \in E \cup {o}
    BY <1>0, <1>4, <1>7 DEF Array
  <1>10. ASSUME NEW q \in E \cup {o} PROVE \E j \in 1..(L + 1) : b.p[j] = q
    <2>1. CASE q = o
      BY <1>4, <2>1
    <2>2. CASE q \in E
      <3>1. PICK j \in 1..L : h.p[j] = q
        BY <1>0, <2>2 DEF Array
      <3> QED
        BY <1>4, <3>1
    <2> QED
      BY <2>1, <2>2
  <1>11. Array(b, L + 1, E \cup {o})
    BY <1>6, <1>8, <1>9, <1>10 DEF Array
  <1>12. \A j \in 1..(L + 1) : j # L + 1 => b.at[b.p[j]] = j
    BY <1>3, <1>4, <1>7 DEF Whole
  <1>13. \A j \in 2..(L + 1) : HeapParent(j) \in 1..L
    BY ParentLemma
  <1>14. ASSUME NEW j \in 2..(L + 1), j # L + 1 PROVE w[b.p[HeapParent(j)]] <= w[b.p[j]]
    <2>1. j \in 2..L
      BY <1>14
    <2>2. w[h.p[HeapParent(j)]] <= w[h.p[j]]
      BY <2>1 DEF Whole
    <2> QED
      BY <1>4, <1>13, <2>1, <2>2
  <1>15. \A j \in 2..(L + 1) : HeapParent(j) # L + 1
    BY <1>13
  <1>16. Bubbling(b, L + 1, L + 1, E \cup {o}, w)
    BY <1>11, <1>12, <1>14, <1>15 DEF Bubbling
  <1>17. /\ fr_heap_bubble(b, L + 1, w) \in Arrays
         /\ Whole(fr_heap_bubble(b, L + 1, w), L + 1, E \cup {o}, w)
    BY <1>5, <1>16, BubbleLemma
  <1>18. fr_heap_insert(h, o, w) = fr_heap_bubble(b, L + 1, w)
    BY <1>0, <1>1 DEF fr_heap_insert
  <1> QED
    BY <1>17, <1>18

\* The order depends on the times of the events in the heap only.
LEMMA OtherTimes ==
  ASSUME NEW L \in Nat, NEW E, NEW v, NEW w, NEW h, Whole(h, L, E, v), \A o \in E : w[o] = v[o]
  PROVE  Whole(h, L, E, w)
  <1>1. Array(h, L, E) /\ \A j \in 1..L : h.p[j] \in E
    BY DEF Whole, Array
  <1>2. ASSUME NEW j \in 2..L PROVE w[h.p[HeapParent(j)]] <= w[h.p[j]]
    <2>1. h.p[HeapParent(j)] \in E /\ h.p[j] \in E
      BY <1>1, ParentLemma
    <2>2. v[h.p[HeapParent(j)]] <= v[h.p[j]]
      BY DEF Whole
    <2> QED
      BY <2>1, <2>2
  <1> QED
    BY <1>1, <1>2 DEF Whole

\* The first event of a heap is due before all others.
LEMMA FirstIsLeast ==
  ASSUME NEW L \in Nat, NEW E, NEW w, Times(w), NEW h, Whole(h, L, E, w), NEW o \in E
  PROVE  L >= 1 /\ w[h.p[1]] <= w[o]
  <1>0. Array(h, L, E)
    BY DEF Whole
  <1>1. PICK i \in 1..L : h.p[i] = o
    BY <1>0 DEF Array
  <1>a. \A j \in 1..L : h.p[j] \in Owners
    BY <1>0, ArrayFacts
  <1>2. \A j \in 1..L : w[h.p[j]] \in Int
    BY <1>a DEF Times
  <1> DEFINE S == {n \in 0..L : \A j \in 1..n : w[h.p[1]] <= w[h.p[j]]}
  <1>3. 0 \in S
    OBVIOUS
  <1>4. ASSUME NEW n \in 1..L, n - 1 \in S PROVE n \in S
    <2>1. \A j \in 1..(n - 1) : w[h.p[1]] <= w[h.p[j]]
      BY <1>4
    <2>2. w[h.p[1]] <= w[h.p[n]]
      <3>1. CASE n = 1
        BY <1>2, <3>1
      <3>2. CASE n # 1
        <4>1. n \in 2..L /\ HeapParent(n) \in 1..(n - 1) /\ HeapParent(n) \in 1..L
          BY <3>2, ParentLemma
        <4>2. w[h.p[1]] <= w[h.p[HeapParent(n)]] /\ w[h.p[HeapParent(n)]] <= w[h.p[n]]
          BY <2>1, <4>1 DEF Whole
        <4>3. w[h.p[1]] \in Int /\ w[h.p[n]] \in Int /\ w[h.p[HeapParent(n)]] \in Int
          BY <1>2, <4>1
        <4> QED
          BY <4>2, <4>3
      <3> QED
        BY <3>1, <3>2
    <2>3. \A j \in 1..n : j = n \/ j \in 1..(n - 1)
      OBVIOUS
    <2> QED
      BY <2>1, <2>2, <2>3
  <1>5. S = 0..L
    <2>1. S \in SUBSET (0..L)
      OBVIOUS
    <2> HIDE DEF S
    <2> QED
      BY <1>3, <1>4, <2>1, UpTo
  <1>6. L \in S
    BY <1>5
  <1>7. w[h.p[1]] <= w[h.p[i]]
    BY <1>6
  <1> QED
    BY <1>1, <1>7

----------------------------------------------------------------------------
(* The invariant of the event list.                                         *)

\* What fr_event_loop() knows of the sockets: its set is that of the readers
\* unless they changed, and until a handler changed them the sockets that are
\* ready are watched since select() was called.
LoopOK ==
    /\ ~loop.changed => loop.master = Watched
    /\ loop.pc \in {"run", "dispatch"} => loop.ready \subseteq loop.kept
    /\ loop.pc = "handler" => loop.i < MaxReaders /\ (~loop.changed => loop.ready \subseteq loop.kept)

HeapOK == Whole(Heap, Len(heap), ev, when)

EvInv == EvTypeOK /\ HeapOK /\ ReadersAreWatched /\ LoopOK

TimersTypeOK ==
    /\ heap \in Seq(Owners)
    /\ place \in [Owners -> Nat]
    /\ when \in [Owners -> 0 .. MaxTime]
    /\ ev \subseteq Owners
    /\ ev_now \in 0 .. MaxTime
    /\ fired \in Owners \cup {Nobody}

ReadersTypeOK ==
    /\ readers \in [ReaderSlots -> EvFds \cup {NoReader}]
    /\ max_readers \in 0 .. MaxReaders
    /\ loop \in Loop

LEMMA TypeParts ==
  EvTypeOK <=> TimersTypeOK /\ ReadersTypeOK
  BY DEF EvTypeOK, TimersTypeOK, ReadersTypeOK

LEMMA HeapType ==
  ASSUME TimersTypeOK
  PROVE  Heap \in Arrays /\ Times(when) /\ Len(heap) \in Nat
  BY DEF TimersTypeOK, Arrays, Heap, Times

\* The heap that is written is a heap.
LEMMA HeapWritten ==
  ASSUME NEW h \in Arrays, NEW L \in Nat, NEW E, NEW w, Whole(h, L, E, w), SetHeap(h),
         ev' = E, when' = w
  PROVE  heap' \in Seq(Owners) /\ place' \in [Owners -> Nat] /\ HeapOK'
  <1>1. heap' = h.p /\ place' = h.at /\ h = [p |-> h.p, at |-> h.at]
    BY DEF SetHeap, Arrays
  <1>2. Heap' = h
    BY <1>1 DEF Heap
  <1>3. Len(heap') = L
    BY <1>1 DEF Whole, Array, Shape
  <1>4. heap' \in Seq(Owners) /\ place' \in [Owners -> Nat]
    BY <1>1 DEF Arrays
  <1> QED
    BY <1>2, <1>3, <1>4 DEF HeapOK

LEMMA DeleteLemma ==
  ASSUME TimersTypeOK, HeapOK, EventListAssumption, NEW o \in ev, Delete(o), fired' \in Owners \cup {Nobody}
  PROVE  TimersTypeOK' /\ HeapOK'
  <1>1. Heap \in Arrays /\ Times(when) /\ Len(heap) \in Nat
    BY HeapType
  <1>2. PICK g : g = fr_heap_extract(Heap, o)
    OBVIOUS
  <1>3. Len(heap) >= 1 /\ g \in Arrays /\ Whole(g, Len(heap) - 1, ev \ {o}, when)
    BY <1>1, <1>2, ExtractLemma DEF HeapOK
  <1>4. SetHeap(g) /\ ev' = ev \ {o} /\ when' = [when EXCEPT ![o] = 0] /\ ev_now' = ev_now
    BY <1>2 DEF Delete
  <1>5. when' \in [Owners -> 0 .. MaxTime] /\ \A q \in ev \ {o} : when'[q] = when[q]
    BY <1>4 DEF TimersTypeOK, EventListAssumption
  <1>6. Len(heap) - 1 \in Nat
    BY <1>1, <1>3
  <1>7. PICK w : w = when'
    OBVIOUS
  <1>8. Whole(g, Len(heap) - 1, ev \ {o}, w)
    BY <1>3, <1>5, <1>6, <1>7, OtherTimes
  <1>9. heap' \in Seq(Owners) /\ place' \in [Owners -> Nat] /\ HeapOK'
    BY <1>3, <1>4, <1>6, <1>7, <1>8, HeapWritten
  <1> QED
    BY <1>4, <1>5, <1>9 DEF TimersTypeOK

LEMMA SetLemma ==
  ASSUME TimersTypeOK, HeapOK, NEW o \in Owners, NEW t \in 0 .. MaxTime, fr_event_insert(o, t)
  PROVE  TimersTypeOK' /\ HeapOK'
  <1>1. Heap \in Arrays /\ Times(when) /\ Len(heap) \in Nat
    BY HeapType
  <1>2. PICK g : g = IF o \in ev THEN fr_heap_extract(Heap, o) ELSE Heap
    OBVIOUS
  <1>3. PICK L \in Nat : g \in Arrays /\ Whole(g, L, ev \ {o}, when)
    <2>1. CASE o \in ev
      <3>1. Len(heap) >= 1 /\ g \in Arrays /\ Whole(g, Len(heap) - 1, ev \ {o}, when)
        BY <1>1, <1>2, <2>1, ExtractLemma DEF HeapOK
      <3>2. Len(heap) - 1 \in Nat
        BY <1>1, <3>1
      <3> QED
        BY <3>1, <3>2
    <2>2. CASE o \notin ev
      <3>1. ev \ {o} = ev
        BY <2>2
      <3> QED
        BY <1>1, <1>2, <2>2, <3>1 DEF HeapOK
    <2> QED
      BY <2>1, <2>2
  <1>4. PICK w : w = when'
    OBVIOUS
  <1>5. w = [when EXCEPT ![o] = t] /\ SetHeap(fr_heap_insert(g, o, w))
    BY <1>2, <1>4 DEF fr_event_insert
  <1>6. w \in [Owners -> 0 .. MaxTime] /\ \A q \in ev \ {o} : w[q] = when[q]
    BY <1>5 DEF TimersTypeOK
  <1>7. Whole(g, L, ev \ {o}, w)
    BY <1>3, <1>6, OtherTimes
  <1>8. PICK f : f = fr_heap_insert(g, o, w)
    OBVIOUS
  <1>9. f \in Arrays /\ Whole(f, L + 1, (ev \ {o}) \cup {o}, w)
    <2>1. Times(w) /\ o \notin ev \ {o}
      BY <1>6 DEF Times
    <2> QED
      BY <1>3, <1>7, <1>8, <2>1, InsertLemma
  <1>10. ev' = (ev \ {o}) \cup {o} /\ L + 1 \in Nat
    BY DEF fr_event_insert
  <1>11. heap' \in Seq(Owners) /\ place' \in [Owners -> Nat] /\ HeapOK'
    BY <1>4, <1>5, <1>8, <1>9, <1>10, HeapWritten
  <1>12. fired' = Nobody /\ ev_now' = ev_now
    BY DEF fr_event_insert
  <1> QED
    BY <1>4, <1>6, <1>10, <1>11, <1>12 DEF TimersTypeOK

LEMMA FirstInHeap ==
  ASSUME TimersTypeOK, HeapOK, heap # <<>>
  PROVE  heap[1] \in ev /\ \A q \in ev : when[heap[1]] <= when[q]
  <1>1. Heap \in Arrays /\ Times(when) /\ Len(heap) \in Nat
    BY HeapType
  <1>2. PICK h, L : h = Heap /\ L = Len(heap)
    OBVIOUS
  <1>3. h.p = heap /\ L \in Nat /\ Whole(h, L, ev, when)
    BY <1>1, <1>2 DEF HeapOK, Heap
  <1>4. 1 \in 1..L
    BY <1>2, EmptySeq DEF TimersTypeOK
  <1>5. heap[1] \in ev
    BY <1>3, <1>4 DEF Whole, Array
  <1>6. ASSUME NEW q \in ev PROVE when[heap[1]] <= when[q]
    BY <1>1, <1>3, FirstIsLeast
  <1> QED
    BY <1>5, <1>6

LEMMA TimerStep ==
  ASSUME TimersTypeOK, HeapOK, EventListAssumption, TimerNext
  PROVE  TimersTypeOK' /\ HeapOK' /\ UNCHANGED readerVars
  <1>1. ASSUME NEW o \in Owners, fr_event_delete(o) PROVE TimersTypeOK' /\ HeapOK' /\ UNCHANGED readerVars
    BY <1>1, DeleteLemma DEF fr_event_delete, Delete
  <1>2. ASSUME NEW o \in Owners, NEW t \in 0 .. MaxTime, fr_event_insert(o, t)
        PROVE  TimersTypeOK' /\ HeapOK' /\ UNCHANGED readerVars
    BY <1>2, SetLemma DEF fr_event_insert
  <1>3. CASE fr_event_run
    <2>1. heap[1] \in ev /\ Delete(heap[1]) /\ fired' = heap[1]
      BY <1>3, FirstInHeap DEF fr_event_run
    <2>2. fired' \in Owners \cup {Nobody}
      BY <2>1 DEF TimersTypeOK
    <2> QED
      BY <2>1, <2>2, DeleteLemma DEF Delete
  <1>4. CASE EvTick
    BY <1>4 DEF EvTick, TimersTypeOK, HeapOK, Heap, readerVars, EventListAssumption
  <1> QED
    BY <1>1, <1>2, <1>3, <1>4 DEF TimerNext

----------------------------------------------------------------------------
(* The readers and the loop.                                                *)

LEMMA WatchedType ==
  ASSUME ReadersTypeOK, EventListAssumption
  PROVE  Watched \subseteq EvFds /\ NoReader \notin EvFds /\ ReaderSlots \subseteq Nat
         /\ \A s \in ReaderSlots : readers[s] # NoReader => readers[s] \in Watched
  BY DEF ReadersTypeOK, EventListAssumption, Watched, NoReader, ReaderSlots

LEMMA FdInsertLemma ==
  ASSUME ReadersTypeOK, ReadersAreWatched, LoopOK, EventListAssumption,
         NEW fd \in EvFds, fd \notin Watched, fr_event_fd_insert(fd)
  PROVE  ReadersTypeOK' /\ ReadersAreWatched' /\ LoopOK'
  <1>0. max_readers \in 0 .. MaxReaders /\ max_readers < MaxReaders /\ MaxReaders \in Nat /\ loop \in Loop
    BY DEF ReadersTypeOK, fr_event_fd_insert, EventListAssumption
  <1>1. PICK s \in 0 .. max_readers :
           /\ readers' = [readers EXCEPT ![s] = fd]
           /\ max_readers' = IF s = max_readers THEN s + 1 ELSE max_readers
    BY DEF fr_event_fd_insert
  <1>2. loop' = [loop EXCEPT !.changed = TRUE]
    BY DEF fr_event_fd_insert
  <1>3. s \in ReaderSlots
    BY <1>0, <1>1 DEF ReaderSlots
  <1>4. readers' \in [ReaderSlots -> EvFds \cup {NoReader}] /\ max_readers' \in 0 .. MaxReaders
    BY <1>0, <1>1, <1>3 DEF ReadersTypeOK
  <1>5. loop' \in Loop
    BY <1>0, <1>2 DEF Loop
  <1>6. LoopOK'
    BY <1>0, <1>2 DEF LoopOK, Loop
  <1>7. \A t \in ReaderSlots : readers'[t] = IF t = s THEN fd ELSE readers[t]
    BY <1>1, <1>3 DEF ReadersTypeOK
  <1>8. \A t \in ReaderSlots : readers[t] # fd
    <2>1. fd # NoReader
      BY WatchedType
    <2> QED
      BY <2>1, WatchedType
  <1>9. ASSUME NEW t \in ReaderSlots, readers'[t] # NoReader PROVE t < max_readers'
    <2>0. t \in Nat
      BY DEF ReaderSlots, EventListAssumption
    <2>1. CASE t = s
      BY <1>0, <1>1, <2>1
    <2>2. CASE t # s
      <3>1. t < max_readers
        BY <1>7, <1>9, <2>2 DEF ReadersAreWatched
      <3> QED
        BY <1>0, <1>1, <2>0, <3>1
    <2> QED
      BY <2>1, <2>2
  <1>10. ASSUME NEW t \in ReaderSlots, NEW u \in ReaderSlots, readers'[t] = readers'[u], readers'[t] # NoReader
         PROVE  t = u
    BY <1>7, <1>8, <1>10 DEF ReadersAreWatched
  <1> QED
    BY <1>4, <1>5, <1>6, <1>9, <1>10 DEF ReadersTypeOK, ReadersAreWatched

LEMMA FdDeleteLemma ==
  ASSUME ReadersTypeOK, ReadersAreWatched, LoopOK, EventListAssumption,
         NEW fd \in EvFds, loop.pc = "handler", fr_event_fd_delete(fd)
  PROVE  ReadersTypeOK' /\ ReadersAreWatched' /\ LoopOK'
  <1>0. max_readers \in 0 .. MaxReaders /\ MaxReaders \in Nat /\ loop \in Loop
    BY DEF ReadersTypeOK, EventListAssumption
  <1>1. PICK s \in 0 .. max_readers - 1 :
           /\ readers' = [readers EXCEPT ![s] = NoReader]
           /\ max_readers' = IF s + 1 = max_readers THEN s ELSE max_readers
    BY DEF fr_event_fd_delete
  <1>2. loop' = [loop EXCEPT !.changed = TRUE, !.kept = @ \ {fd}]
    BY DEF fr_event_fd_delete
  <1>3. s \in ReaderSlots
    BY <1>0, <1>1 DEF ReaderSlots
  <1>4. readers' \in [ReaderSlots -> EvFds \cup {NoReader}] /\ max_readers' \in 0 .. MaxReaders
    BY <1>0, <1>1, <1>3 DEF ReadersTypeOK
  <1>5. loop' \in Loop
    BY <1>0, <1>2 DEF Loop
  <1>6. LoopOK'
    <2>1. loop'.changed /\ loop'.pc = "handler" /\ loop'.i = loop.i
      BY <1>0, <1>2 DEF Loop
    <2> QED
      BY <2>1 DEF LoopOK
  <1>7. \A t \in ReaderSlots : readers'[t] = IF t = s THEN NoReader ELSE readers[t]
    BY <1>1, <1>3 DEF ReadersTypeOK
  <1>9. ASSUME NEW t \in ReaderSlots, readers'[t] # NoReader PROVE t < max_readers'
    <2>0. t \in Nat
      BY DEF ReaderSlots, EventListAssumption
    <2>1. t # s /\ t < max_readers
      BY <1>7, <1>9 DEF ReadersAreWatched
    <2> QED
      BY <1>0, <1>1, <2>0, <2>1
  <1>10. ASSUME NEW t \in ReaderSlots, NEW u \in ReaderSlots, readers'[t] = readers'[u], readers'[t] # NoReader
         PROVE  t = u
    BY <1>7, <1>10 DEF ReadersAreWatched
  <1> QED
    BY <1>4, <1>5, <1>6, <1>9, <1>10 DEF ReadersTypeOK, ReadersAreWatched

\* The loop goes on at another place, with all else as it was.
Moves(pc, i) ==
    /\ loop' \in Loop /\ loop'.pc = pc /\ loop'.i = i
    /\ loop'.changed = loop.changed /\ loop'.master = loop.master
    /\ loop'.ready = loop.ready /\ loop'.kept = loop.kept

LEMMA MovesLemma ==
  ASSUME loop \in Loop, NEW pc \in {"select", "run", "dispatch", "handler"}, NEW i \in 0 .. MaxReaders,
         loop' = [loop EXCEPT !.pc = pc, !.i = i]
  PROVE  Moves(pc, i)
  BY DEF Loop, Moves

\* The steps of fr_event_loop() itself.
LEMMA LoopStep ==
  ASSUME ReadersTypeOK, ReadersAreWatched, LoopOK, EventListAssumption,
         Select \/ EventsHaveRun \/ Dispatch \/ HandlerReturns
  PROVE  ReadersTypeOK' /\ ReadersAreWatched' /\ LoopOK'
  <1>0. loop \in Loop /\ max_readers \in 0 .. MaxReaders /\ MaxReaders \in Nat
    BY DEF ReadersTypeOK, EventListAssumption
  <1>1. readers' = readers /\ max_readers' = max_readers
    BY DEF Select, EventsHaveRun, Dispatch, HandlerReturns
  <1>2. ReadersAreWatched' /\ Watched' = Watched
    BY <1>1 DEF ReadersAreWatched, Watched
  <1>3. CASE Select
    <2>1. PICK master, ready : /\ master = Watched /\ ready \subseteq Watched
                               /\ loop' = [loop EXCEPT !.pc = "run", !.changed = FALSE, !.master = master,
                                                       !.ready = ready, !.kept = Watched]
      BY <1>3 DEF Select, LoopOK
    <2>2. loop' \in Loop
      BY <1>0, <2>1, WatchedType DEF Loop
    <2>3. LoopOK'
      <3>1. loop'.pc = "run" /\ loop'.master = Watched /\ loop'.ready \subseteq Watched /\ loop'.kept = Watched
        BY <1>0, <2>1 DEF Loop
      <3> QED
        BY <1>2, <3>1 DEF LoopOK
    <2> QED
      BY <1>1, <1>2, <2>2, <2>3 DEF ReadersTypeOK
  <1>7. ASSUME NEW pc, NEW i, Moves(pc, i), pc \in {"run", "dispatch"} => loop.ready \subseteq loop.kept,
               pc = "handler" => i < MaxReaders /\ (~loop.changed => loop.ready \subseteq loop.kept)
        PROVE  ReadersTypeOK' /\ ReadersAreWatched' /\ LoopOK'
    <2>1. LoopOK'
      BY <1>2, <1>7 DEF LoopOK, Moves
    <2> QED
      BY <1>1, <1>2, <1>7, <2>1 DEF ReadersTypeOK, Moves
  <1>8. 0 \in 0 .. MaxReaders /\ loop.i \in 0 .. MaxReaders
    BY <1>0 DEF Loop
  <1>4. CASE EventsHaveRun
    <2>1. PICK pc \in {"select", "dispatch"} : loop' = [loop EXCEPT !.pc = pc, !.i = 0]
      BY <1>4 DEF EventsHaveRun
    <2>2. Moves(pc, 0)
      BY <1>0, <1>8, <2>1, MovesLemma
    <2>3. loop.ready \subseteq loop.kept
      BY <1>4 DEF EventsHaveRun, LoopOK
    <2> QED
      BY <1>7, <2>1, <2>2, <2>3
  <1>5. CASE Dispatch
    <2>1. loop.pc = "dispatch" /\ loop.ready \subseteq loop.kept
      BY <1>5 DEF Dispatch, LoopOK
    <2>2. CASE loop.i >= max_readers /\ loop' = [loop EXCEPT !.pc = "select", !.i = 0]
      BY <1>0, <1>7, <1>8, <2>2, MovesLemma
    <2>3. CASE ~(loop.i >= max_readers) /\ loop' = [loop EXCEPT !.pc = "handler"]
      <3>1. loop' = [loop EXCEPT !.pc = "handler", !.i = loop.i]
        BY <1>0, <2>3 DEF Loop
      <3>2. Moves("handler", loop.i)
        BY <1>0, <1>8, <3>1, MovesLemma
      <3>3. loop.i < MaxReaders
        BY <1>0, <1>8, <2>3
      <3> QED
        BY <1>7, <2>1, <3>2, <3>3
    <2>4. CASE ~(loop.i >= max_readers) /\ loop' = [loop EXCEPT !.i = @ + 1]
      <3>1. loop' = [loop EXCEPT !.pc = "dispatch", !.i = loop.i + 1]
        BY <1>0, <2>1, <2>4 DEF Loop
      <3>2. loop.i + 1 \in 0 .. MaxReaders
        BY <1>0, <1>8, <2>4
      <3>3. Moves("dispatch", loop.i + 1)
        BY <1>0, <3>1, <3>2, MovesLemma
      <3> QED
        BY <1>7, <2>1, <3>3
    <2> QED
      BY <1>5, <2>2, <2>3, <2>4 DEF Dispatch
  <1>6. CASE HandlerReturns
    <2>1. loop.pc = "handler" /\ loop.i < MaxReaders
      BY <1>6 DEF HandlerReturns, LoopOK
    <2>2. CASE loop.changed /\ loop' = [loop EXCEPT !.pc = "select", !.i = 0]
      BY <1>0, <1>7, <1>8, <2>2, MovesLemma
    <2>3. CASE ~loop.changed /\ loop' = [loop EXCEPT !.pc = "dispatch", !.i = @ + 1]
      <3>1. loop' = [loop EXCEPT !.pc = "dispatch", !.i = loop.i + 1]
        BY <2>3
      <3>2. loop.i + 1 \in 0 .. MaxReaders
        BY <1>0, <1>8, <2>1
      <3>3. Moves("dispatch", loop.i + 1)
        BY <1>0, <3>1, <3>2, MovesLemma
      <3>4. loop.ready \subseteq loop.kept
        BY <2>1, <2>3 DEF LoopOK
      <3> QED
        BY <1>7, <3>3, <3>4
    <2> QED
      BY <1>6, <2>2, <2>3 DEF HandlerReturns
  <1> QED
    BY <1>3, <1>4, <1>5, <1>6

LEMMA ReaderStep ==
  ASSUME ReadersTypeOK, ReadersAreWatched, LoopOK, EventListAssumption, ReaderNext
  PROVE  ReadersTypeOK' /\ ReadersAreWatched' /\ LoopOK' /\ UNCHANGED timerVars
  <1>1. UNCHANGED timerVars
    BY DEF ReaderNext, fr_event_fd_insert, fr_event_fd_delete, Select, EventsHaveRun, Dispatch, HandlerReturns
  <1>2. ASSUME NEW fd \in EvFds, fd \notin Watched, fr_event_fd_insert(fd)
        PROVE  ReadersTypeOK' /\ ReadersAreWatched' /\ LoopOK'
    BY <1>2, FdInsertLemma
  <1>3. ASSUME NEW fd \in EvFds, loop.pc = "handler", fr_event_fd_delete(fd)
        PROVE  ReadersTypeOK' /\ ReadersAreWatched' /\ LoopOK'
    BY <1>3, FdDeleteLemma
  <1> QED
    BY <1>1, <1>2, <1>3, LoopStep DEF ReaderNext

LEMMA EvInvInit ==
  ASSUME EventListAssumption, EvInit PROVE EvInv
  <1>0. 0 \in 0 .. MaxTime /\ 0 \in 0 .. MaxReaders /\ MaxReaders \in Nat
    BY DEF EventListAssumption
  <1>1. TimersTypeOK
    BY <1>0, EmptySeq DEF EvInit, TimersTypeOK
  <1>2. ReadersTypeOK
    BY <1>0 DEF EvInit, ReadersTypeOK, Loop
  <1>3. HeapOK
    <2>1. Heap.p = <<>> /\ Len(heap) = 0 /\ ev = {} /\ Heap.at = place
      BY EmptySeq DEF EvInit, Heap
    <2>2. Shape(Heap, 0)
      BY <1>1, <2>1, EmptySeq DEF Shape, TimersTypeOK
    <2> QED
      BY <2>1, <2>2 DEF HeapOK, Whole, Array
  <1>4. ReadersAreWatched /\ LoopOK
    BY DEF EvInit, ReadersAreWatched, LoopOK
  <1> QED
    BY <1>1, <1>2, <1>3, <1>4, TypeParts DEF EvInv

LEMMA EvInvNext ==
  ASSUME EventListAssumption, EvInv, [EvNext]_evVars PROVE EvInv'
  <1>0. TimersTypeOK /\ ReadersTypeOK /\ HeapOK /\ ReadersAreWatched /\ LoopOK
    BY TypeParts DEF EvInv
  <1>a. (TimersTypeOK' /\ ReadersTypeOK') => EvTypeOK'
    BY DEF EvTypeOK, TimersTypeOK, ReadersTypeOK
  <1>1. UNCHANGED readerVars => ReadersTypeOK' /\ ReadersAreWatched' /\ LoopOK'
    BY <1>0 DEF readerVars, ReadersTypeOK, ReadersAreWatched, LoopOK, Watched
  <1>2. UNCHANGED timerVars => TimersTypeOK' /\ HeapOK'
    BY <1>0 DEF timerVars, TimersTypeOK, HeapOK, Heap
  <1>3. CASE TimerNext
    BY <1>0, <1>1, <1>3, <1>a, TimerStep DEF EvInv
  <1>4. CASE ReaderNext
    BY <1>0, <1>2, <1>4, <1>a, ReaderStep DEF EvInv
  <1>5. CASE UNCHANGED evVars
    BY <1>1, <1>2, <1>5, <1>a DEF EvInv, evVars
  <1> QED
    BY <1>3, <1>4, <1>5 DEF EvNext

----------------------------------------------------------------------------
(* How long select() waits.                                                 *)

LEMMA DivMod ==
  ASSUME NEW n \in Nat, NEW e \in Nat \ {0}
  PROVE  n \div e \in Nat /\ n % e \in 0 .. e - 1 /\ n = e * (n \div e) + (n % e)
  OBVIOUS

LEMMA Multiples ==
  ASSUME NEW a \in Nat, NEW b \in Nat, NEW e \in Nat \ {0}
  PROVE  /\ (b - a) * e = e * b - e * a
         /\ (b - a - 1) * e = e * b - e * a - e
         /\ b < a => e * b + e <= e * a
  <1>1. (b - a) * e = e * b - e * a /\ (b - a - 1) * e = e * b - e * a - e
    OBVIOUS
  <1>2. ASSUME b < a PROVE e * b + e <= e * a
    <2>1. PICK k \in Nat : a = b + 1 + k
      <3>1. a - b - 1 \in Nat /\ a = b + 1 + (a - b - 1)
        BY <1>2
      <3> QED
        BY <3>1
    <2>2. e * a = e * b + e + e * k
      BY <2>1
    <2>3. e * k \in Nat /\ e * b \in Nat
      OBVIOUS
    <2> QED
      BY <2>2, <2>3
  <1> QED
    BY <1>1, <1>2

WakeOK(now, t) ==
    /\ Wake(now, t)[2] \in 0 .. EvUsec - 1
    /\ now < t => now + Wake(now, t)[1] * EvUsec + Wake(now, t)[2] = t

LEMMA WakeLemma ==
  ASSUME EventListAssumption, NEW now \in Nat, NEW t \in Nat
  PROVE  WakeOK(now, t)
  <1>0. PICK e \in Nat \ {0} : e = EvUsec
    BY DEF EventListAssumption
  <1>1. PICK a \in Nat, r \in 0 .. e - 1 : a = now \div e /\ r = now % e /\ now = e * a + r
    BY DivMod
  <1>2. PICK b \in Nat, s \in 0 .. e - 1 : b = t \div e /\ s = t % e /\ t = e * b + s
    BY DivMod
  <1>3. PICK x \in Nat, y \in Nat : x = e * a /\ y = e * b
    <2>1. e * a \in Nat /\ e * b \in Nat
      OBVIOUS
    <2> QED
      BY <2>1
  <1>4. (b - a) * e = y - x /\ (b - a - 1) * e = y - x - e /\ (b < a => y + e <= x)
    BY <1>3, Multiples
  <1>5. now = x + r /\ t = y + s
    BY <1>1, <1>2, <1>3
  <1>6. CASE now >= t
    <2>1. Wake(now, t) = <<0, 0>>
      BY <1>6 DEF Wake
    <2> QED
      BY <1>0, <1>6, <2>1 DEF WakeOK
  <1>7. CASE now < t
    <2>1. b >= a
      BY <1>4, <1>5, <1>7
    <2>2. CASE b = a
      <3>1. x = y /\ s - r \in 0 .. e - 1
        BY <1>3, <1>5, <1>7, <2>2
      <3>2. Wake(now, t) = <<0, s - r>>
        BY ONLY <1>0, <1>1, <1>2, <1>7, <2>2, <3>1 DEF Wake
      <3> QED
        BY <1>0, <1>5, <3>1, <3>2 DEF WakeOK
    <2>3. CASE b > a
      <3>1. CASE s + e - r >= e
        <4>2. s - r \in 0 .. e - 1 /\ (s + e) - r - e = s - r /\ b - a - 1 + 1 = b - a
          BY <3>1
        <4>1. Wake(now, t) = <<b - a, s - r>>
          BY ONLY <1>0, <1>1, <1>2, <1>7, <2>3, <3>1, <4>2 DEF Wake
        <4>3. now + (b - a) * e + (s - r) = t
          BY <1>4, <1>5
        <4> QED
          BY <1>0, <4>1, <4>2, <4>3 DEF WakeOK
      <3>2. CASE s + e - r < e
        <4>2. s + e - r \in 0 .. e - 1
          BY <3>2
        <4>1. Wake(now, t) = <<b - a - 1, s + e - r>>
          BY ONLY <1>0, <1>1, <1>2, <1>7, <2>3, <3>2 DEF Wake
        <4>3. now + (b - a - 1) * e + (s + e - r) = t
          BY <1>4, <1>5
        <4> QED
          BY <1>0, <4>1, <4>2, <4>3 DEF WakeOK
      <3> QED
        BY <3>1, <3>2
    <2> QED
      BY <2>1, <2>2, <2>3
  <1> QED
    BY <1>6, <1>7

LEMMA EvInvIsEnough ==
  ASSUME EventListAssumption, EvInv PROVE LoopIsRight
  <1>0. TimersTypeOK /\ ReadersTypeOK /\ HeapOK /\ ReadersAreWatched /\ LoopOK /\ EvTypeOK
    BY TypeParts DEF EvInv
  <1>1. HeapIsExact
    <2>1. PICK h, L : h = Heap /\ L = Len(heap)
      OBVIOUS
    <2>2. h.p = heap /\ h.at = place /\ Whole(h, L, ev, when)
      BY <1>0, <2>1 DEF Heap, HeapOK
    <2>3. /\ \A j \in 1..L : heap[j] \in ev
          /\ \A o \in ev : \E j \in 1..L : heap[j] = o
      BY <2>2 DEF Whole, Array
    <2>4. ev = {heap[i] : i \in 1..L}
      BY <2>3
    <2>5. /\ \A i \in 2..L : when[heap[HeapParent(i)]] <= when[heap[i]]
          /\ \A i \in 1..L : place[heap[i]] = i
      BY <2>2 DEF Whole
    <2> QED
      BY <2>1, <2>4, <2>5 DEF HeapIsExact
  <1>2. WakesInTime
    <2>1. ASSUME heap # <<>>, NEW began \in 0 .. EvUsec - 1
          PROVE  WakeOK(began + ev_now, began + when[heap[1]])
      <3>1. when[heap[1]] \in 0 .. MaxTime
        BY <1>0, <2>1, FirstInHeap DEF TimersTypeOK
      <3>2. began + ev_now \in Nat /\ began + when[heap[1]] \in Nat
        BY <1>0, <3>1 DEF TimersTypeOK, EventListAssumption
      <3> QED
        BY <3>2, WakeLemma
    <2> QED
      BY <2>1 DEF WakesInTime, WakeOK
  <1>3. ReadyIsHandled
    BY <1>0 DEF ReadyIsHandled, LoopOK
  <1> QED
    BY <1>0, <1>1, <1>2, <1>3 DEF LoopIsRight

LEMMA EvInvariant == EvSpec => []EvInv
  <1> USE EventListAssumption
  <1>1. EvInit => EvInv
    BY EvInvInit
  <1>2. EvInv /\ [EvNext]_evVars => EvInv'
    BY EvInvNext
  <1> QED
    BY <1>1, <1>2, PTL DEF EvSpec

\* fr_heap_insert() and fr_heap_extract() keep the heap of event-lib.cpp in order,
\* with every event where it says it is; fr_event_loop() waits for the first event
\* and no longer, and calls the handlers of the sockets that are watched and ready.
THEOREM EventListTheorem == EvSpec => []LoopIsRight
  <1>1. EvInv => LoopIsRight
    BY EventListAssumption, EvInvIsEnough
  <1> QED
    BY <1>1, EvInvariant, PTL

----------------------------------------------------------------------------
(* The event list implements the timers.                                    *)

\* The refinement mapping.
Mapped == [o \in Owners |-> IF o \in ev THEN when[o] ELSE -1]

LEMMA TimersInit ==
  ASSUME EventListAssumption, EvInit PROVE Abstract!Init
  BY DEF EvInit, Abstract!Init, EventListAssumption

LEMMA TimersNext ==
  ASSUME EventListAssumption, EvInv, [EvNext]_evVars
  PROVE  Abstract!Next \/ UNCHANGED <<Mapped, ev_now, fired>>
  <1>0. TimersTypeOK /\ ReadersTypeOK /\ HeapOK /\ ReadersAreWatched /\ LoopOK
    BY TypeParts DEF EvInv
  <1>t. /\ when \in [Owners -> 0 .. MaxTime] /\ ev \subseteq Owners /\ ev_now \in 0 .. MaxTime
        /\ \A o \in Owners : when[o] \in 0 .. MaxTime /\ when[o] # -1
    BY <1>0 DEF TimersTypeOK, EventListAssumption
  <1>1. ASSUME NEW o \in Owners, NEW t \in 0 .. MaxTime, fr_event_insert(o, t) PROVE Abstract!Next
    <2>1. /\ when' = [when EXCEPT ![o] = t] /\ ev' = ev \cup {o} /\ fired' = Nobody /\ ev_now' = ev_now
      BY <1>1 DEF fr_event_insert
    <2>2. Mapped' = [Mapped EXCEPT ![o] = t]
      BY <1>t, <2>1 DEF Mapped
    <2>3. Abstract!Set(o, t)
      BY <2>1, <2>2 DEF Abstract!Set, Mapped
    <2> QED
      BY <2>3 DEF Abstract!Next
  <1>2. ASSUME NEW o \in ev, Delete(o) PROVE Mapped' = [Mapped EXCEPT ![o] = -1] /\ ev_now' = ev_now
    BY <1>t, <1>2 DEF Mapped, Delete
  <1>3. ASSUME NEW o \in Owners, fr_event_delete(o) PROVE Abstract!Next
    <2>1. o \in ev /\ Delete(o) /\ fired' = Nobody
      BY <1>3 DEF fr_event_delete
    <2>2. Mapped[o] # -1 /\ Mapped' = [Mapped EXCEPT ![o] = -1] /\ ev_now' = ev_now
      BY <1>2, <1>t, <2>1 DEF Mapped
    <2>3. Abstract!Cancel(o)
      BY <2>1, <2>2 DEF Abstract!Cancel, Mapped
    <2> QED
      BY <2>3 DEF Abstract!Next
  <1>4. CASE fr_event_run
    <2>0. PICK o : o = heap[1]
      OBVIOUS
    <2>1. o \in ev /\ Delete(o) /\ fired' = o /\ when[o] <= ev_now /\ \A q \in ev : when[o] <= when[q]
      BY <1>0, <1>4, <2>0, FirstInHeap DEF fr_event_run
    <2>2. o \in Owners /\ Mapped[o] = when[o] /\ Mapped' = [Mapped EXCEPT ![o] = -1] /\ ev_now' = ev_now
      BY <1>2, <1>t, <2>1 DEF Mapped
    <2>3. Mapped[o] # -1 /\ Mapped[o] <= ev_now
      BY <1>t, <2>1, <2>2
    <2>4. ASSUME NEW q \in Owners, Mapped[q] # -1 PROVE Mapped[o] <= Mapped[q]
      BY <2>1, <2>2, <2>4 DEF Mapped
    <2>5. Abstract!Fire(o)
      BY <2>1, <2>2, <2>3, <2>4 DEF Abstract!Fire, Mapped
    <2> QED
      BY <2>2, <2>5 DEF Abstract!Next
  <1>5. CASE EvTick
    <2>1. ev_now' > ev_now /\ fired' = Nobody /\ Mapped' = Mapped
      BY <1>t, <1>5 DEF EvTick, Mapped
    <2>2. Abstract!Advance
      BY <2>1 DEF Abstract!Advance, Mapped
    <2> QED
      BY <2>2 DEF Abstract!Next
  <1>6. UNCHANGED timerVars => UNCHANGED <<Mapped, ev_now, fired>>
    BY DEF timerVars, Mapped
  <1>7. CASE TimerNext
    BY <1>1, <1>3, <1>4, <1>5, <1>7 DEF TimerNext
  <1>8. CASE ReaderNext
    BY <1>0, <1>6, <1>8, ReaderStep
  <1>9. CASE UNCHANGED evVars
    BY <1>6, <1>9 DEF evVars
  <1> QED
    BY <1>7, <1>8, <1>9 DEF EvNext

\* The event list implements the timers that its users rely on: an event fires
\* once, when it is due and no event that is due earlier is set, and an event that
\* was deleted or set again does not fire at its old time.
THEOREM TimersTheorem == EvSpec => ImplementsTimers
  <1> USE EventListAssumption
  <1>1. EvInit => Abstract!Init
    BY TimersInit
  <1>2. EvInv /\ [EvNext]_evVars => [Abstract!Next]_<<Mapped, ev_now, fired>>
    BY TimersNext
  <1>3. EvInv /\ [EvNext]_evVars => [Abstract!Next]_<<[o \in Owners |-> IF o \in ev THEN when[o] ELSE -1], ev_now, fired>>
    BY <1>2 DEF Mapped
  <1> QED
    BY <1>1, <1>3, EvInvariant, PTL DEF EvSpec, ImplementsTimers, Abstract!Spec

----------------------------------------------------------------------------
(* CoA requests.                                                            *)

\* While the parent has it, the first retransmission is at least a second
\* away when the request is new.
AtParent(r) ==
    /\ r.parent /\ r.next /\ r.ev = "none"
    /\ r.age + r.nextWhen >= 1 /\ r.age + r.nextWhen <= LongestFirst

\* Its own event comes before the end.
OnItsOwn(r) ==
    /\ ~r.parent
    /\ r.ev \in {"retransmit_coa_request", "no_response_to_coa_request"}
    /\ r.age + r.when <= CoaEnd

\* What holds of a request whatever is answered.
Right(r) ==
    /\ r \in CoaRecord
    /\ r.answered + r.failed <= 1
    /\ CoaMrc # 0 => r.count <= CoaMrc
    /\ r.sentAt <= CoaEnd
    /\ ~Live(r) => ~r.hash /\ r.ev = "none" /\ ~r.parent
    /\ Live(r) => r.id \in CoaIds
    /\ r.st = "PROXIED" => r.answered = 0 /\ r.failed = 0 /\ ~r.reply /\ (AtParent(r) \/ OnItsOwn(r))
    /\ r.st = "DONE" => /\ ~r.parent /\ r.answered + r.failed = 1
                        /\ r.ev = "wait_a_bit" \/ (Abandoned /\ r.failed = 1 /\ r.ev = "none")

\* The Ids and the requests point at each other.
Owned ==
    /\ \A c \in CoaReqs : coa[c].hash => coa_ids[coa[c].id] = c
    /\ \A c \in CoaReqs : coa[c].st = "PROXIED" => coa[c].hash
    /\ \A i \in CoaIds : coa_ids[i] # NoId => coa[coa_ids[i]].id = i /\ coa[coa_ids[i]].hash

\* The inductive invariant.
CoaInv ==
    /\ coa_conf \in CoaConf
    /\ coa_ids \in [CoaIds -> CoaReqs \cup {NoId}]
    /\ coa_outstanding \in Nat
    /\ coa_stale \subseteq CoaIds
    /\ coa \in [CoaReqs -> CoaRecord]
    /\ \A c \in CoaReqs : Right(coa[c])
    /\ ~coa_conf.late => coa_stale = {} /\ Owned

-----------------------------------------------------------------------------
\* The numbers.
LEMMA Delays ==
    /\ LongestFirst \in Nat /\ CoaEnd \in Nat /\ CoaMrd \in Nat /\ CoaMrc \in Nat
    /\ CoaEnd >= CoaMrd /\ CoaEnd >= LongestFirst
    /\ \A d \in FirstDelays : d \in Nat /\ d >= 1 /\ d <= LongestFirst
  BY CoaAssumption DEF LongestFirst, CoaEnd, FirstDelays

LEMMA NextDelaysAreNat ==
    ASSUME NEW last \in Nat, NEW d \in NextDelays(last)
    PROVE  d \in Nat
  <1>1. PICK e \in (19 * last + 9) \div 10 .. (21 * last + 9) \div 10 :
           d \in IF CoaMrt # 0 /\ e > CoaMrt
                 THEN (9 * CoaMrt + 9) \div 10 .. (29 * CoaMrt + 9) \div 10 ELSE {e}
    BY DEF NextDelays
  <1>2. (19 * last + 9) \div 10 \in Nat /\ (21 * last + 9) \div 10 \in Nat
    OBVIOUS
  <1>3. (9 * CoaMrt + 9) \div 10 \in Nat /\ (29 * CoaMrt + 9) \div 10 \in Nat
    BY CoaAssumption
  <1> QED
    BY <1>1, <1>2, <1>3

\* The fields of a REQUEST.
LEMMA CoaFields ==
    ASSUME NEW r \in CoaRecord
    PROVE  /\ r.when \in Nat /\ r.nextWhen \in Nat /\ r.delay \in Nat /\ r.count \in Nat
           /\ r.sends \in Nat /\ r.answers \in Nat /\ r.age \in Nat /\ r.sentAt \in Nat
           /\ r.answered \in Nat /\ r.failed \in Nat /\ r.ev \in CoaEvents
           /\ r.id \in CoaIds \cup {NoId} /\ r.hash \in BOOLEAN /\ r.reply \in BOOLEAN
           /\ r.parent \in BOOLEAN /\ r.st \in {"unborn", "PROXIED", "DONE", "freed"}
  BY DEF CoaRecord

LEMMA UnbornLemma ==
    /\ Unborn \in CoaRecord /\ Unborn.st = "unborn" /\ Unborn.hash = FALSE /\ Unborn.ev = "none"
    /\ Unborn.parent = FALSE /\ Unborn.count = 0 /\ Unborn.sentAt = 0 /\ Unborn.age = 0
    /\ Unborn.answered = 0 /\ Unborn.failed = 0 /\ Unborn.reply = FALSE
  BY DEF Unborn, CoaRecord, CoaEvents

\* request_free().
LEMMA GoneLemma ==
    ASSUME NEW r \in CoaRecord, r.answered + r.failed <= 1
    PROVE  Right(Gone(r)) /\ Gone(r).hash = FALSE /\ Gone(r).st = "freed"
  <1> DEFINE a == [Unborn EXCEPT !.st = "freed"]
             b == [a EXCEPT !.answered = r.answered]
             s == [b EXCEPT !.failed = r.failed]
  <1>0. r.answered \in Nat /\ r.failed \in Nat
    BY CoaFields
  <1>1. Gone(r) = s
    BY DEF Gone
  <1>2. /\ a \in CoaRecord /\ a.st = "freed" /\ a.hash = FALSE /\ a.ev = "none" /\ a.parent = FALSE
        /\ a.count = 0 /\ a.sentAt = 0
    BY UnbornLemma DEF CoaRecord
  <1> HIDE DEF a
  <1>3. /\ b \in CoaRecord /\ b.st = "freed" /\ b.hash = FALSE /\ b.ev = "none" /\ b.parent = FALSE
        /\ b.count = 0 /\ b.sentAt = 0 /\ b.answered = r.answered
    BY <1>0, <1>2 DEF CoaRecord
  <1> HIDE DEF b
  <1>4. /\ s \in CoaRecord /\ s.st = "freed" /\ s.hash = FALSE /\ s.ev = "none" /\ s.parent = FALSE
        /\ s.count = 0 /\ s.sentAt = 0 /\ s.answered = r.answered /\ s.failed = r.failed
    BY <1>0, <1>3 DEF CoaRecord
  <1> HIDE DEF s
  <1>5. Right(s)
    BY <1>4, Delays DEF Right, Live
  <1> QED
    BY <1>1, <1>4, <1>5

-----------------------------------------------------------------------------
\* A step that changes one request.
LEMMA OneChanges ==
    ASSUME CoaInv, NEW c \in CoaReqs, NEW s, Right(s), coa' = [coa EXCEPT ![c] = s],
           coa_conf' = coa_conf, coa_ids' \in [CoaIds -> CoaReqs \cup {NoId}],
           coa_outstanding' \in Nat, coa_stale' \subseteq CoaIds,
           ~coa_conf.late => coa_stale' = {} /\ Owned'
    PROVE  CoaInv'
  <1>1. s \in CoaRecord
    BY DEF Right
  <1>2. coa' \in [CoaReqs -> CoaRecord] /\ \A o \in CoaReqs : coa'[o] = IF o = c THEN s ELSE coa[o]
    BY <1>1 DEF CoaInv
  <1>3. \A r : Right(r)' <=> Right(r)
    BY DEF Right, Live, AtParent, OnItsOwn, Abandoned
  <1>4. \A o \in CoaReqs : Right(coa'[o])
    BY <1>2 DEF CoaInv
  <1> QED
    BY <1>2, <1>3, <1>4 DEF CoaInv

\* The Ids stay where they are.
LEMMA OwnedKeep ==
    ASSUME CoaInv, Owned, NEW c \in CoaReqs, NEW s, coa' = [coa EXCEPT ![c] = s], coa_ids' = coa_ids,
           s.id = coa[c].id, s.hash = coa[c].hash, s.st = "PROXIED" => coa[c].hash
    PROVE  Owned'
  <1>1. \A o \in CoaReqs : coa'[o] = IF o = c THEN s ELSE coa[o]
    BY DEF CoaInv
  <1>2. \A i \in CoaIds : coa_ids[i] # NoId => coa_ids[i] \in CoaReqs
    BY DEF CoaInv
  <1> QED
    BY <1>1, <1>2 DEF Owned

\* An Id is given back.
LEMMA OwnedFree ==
    ASSUME CoaInv, Owned, NEW c \in CoaReqs, NEW s, coa' = [coa EXCEPT ![c] = s],
           coa_ids' = IF coa[c].hash THEN [coa_ids EXCEPT ![coa[c].id] = NoId] ELSE coa_ids,
           s.hash = FALSE, s.st # "PROXIED"
    PROVE  Owned'
  <1>1. \A o \in CoaReqs : coa'[o] = IF o = c THEN s ELSE coa[o]
    BY DEF CoaInv
  <1>2. \A i \in CoaIds : coa_ids[i] # NoId => coa_ids[i] \in CoaReqs
    BY DEF CoaInv
  <1>3. coa_ids \in [CoaIds -> CoaReqs \cup {NoId}]
    BY DEF CoaInv
  <1>4. \A i \in CoaIds : coa_ids'[i] = IF coa[c].hash /\ i = coa[c].id THEN NoId ELSE coa_ids[i]
    BY <1>3
  <1>5. \A o \in CoaReqs : coa[o].hash => coa[o].id \in CoaIds
    BY DEF CoaInv, Right
  <1> QED
    BY <1>1, <1>2, <1>4, <1>5, CoaAssumption DEF Owned

\* An Id is taken, and the old one, if any, given back.
LEMMA OwnedNew ==
    ASSUME CoaInv, Owned, NEW c \in CoaReqs, NEW s, coa' = [coa EXCEPT ![c] = s], NEW id \in FreeIds,
           \/ coa[c].hash /\ coa_ids' = NewId(c, coa[c], id)
           \/ ~coa[c].hash /\ coa_ids' = [coa_ids EXCEPT ![id] = c],
           s.hash = TRUE, s.id = id
    PROVE  Owned'
  <1>1. \A o \in CoaReqs : coa'[o] = IF o = c THEN s ELSE coa[o]
    BY DEF CoaInv
  <1>2. \A i \in CoaIds : coa_ids[i] # NoId => coa_ids[i] \in CoaReqs
    BY DEF CoaInv
  <1>3. coa_ids \in [CoaIds -> CoaReqs \cup {NoId}] /\ id \in CoaIds /\ coa_ids[id] = NoId
    BY DEF CoaInv, FreeIds
  <1>4. \A i \in CoaIds : coa_ids'[i] = IF i = id THEN c
                                        ELSE IF coa[c].hash /\ i = coa[c].id THEN NoId ELSE coa_ids[i]
    BY <1>3 DEF NewId, Released
  <1>5. \A o \in CoaReqs : coa[o].hash => coa[o].id \in CoaIds
    BY DEF CoaInv, Right
  <1>6. \A o \in CoaReqs : coa[o].hash => coa_ids[coa[o].id] = o
    BY DEF Owned
  <1>7. \A i \in CoaIds : coa_ids[i] # NoId => coa[coa_ids[i]].id = i /\ coa[coa_ids[i]].hash
    BY DEF Owned
  <1>8. \A o \in CoaReqs : coa'[o].hash => coa_ids'[coa'[o].id] = o
    BY <1>1, <1>3, <1>4, <1>5, <1>6, CoaAssumption
  <1>9. \A o \in CoaReqs : coa'[o].st = "PROXIED" => coa'[o].hash
    BY <1>1 DEF Owned
  <1>10. \A i \in CoaIds : coa_ids'[i] # NoId => coa'[coa_ids'[i]].id = i /\ coa'[coa_ids'[i]].hash
    BY <1>1, <1>2, <1>4, <1>7
  <1> QED
    BY <1>8, <1>9, <1>10 DEF Owned

LEMMA CountLemma ==
    ASSUME coa_outstanding \in Nat, NEW r
    PROVE  CountDown(r) \in Nat
  BY DEF CountDown

\* ev_request_free().
LEMMA FreeLemma ==
    ASSUME CoaInv, NEW c \in CoaReqs, Live(coa[c]), coa_conf' = coa_conf,
           NEW r \in CoaRecord, r.hash = coa[c].hash, r.id = coa[c].id, r.answered + r.failed <= 1,
           Free(c, r)
    PROVE  CoaInv'
  <1> DEFINE s == Gone(r)
  <1>1. Right(s) /\ s.hash = FALSE /\ s.st = "freed"
    BY GoneLemma
  <1>2. /\ coa' = [coa EXCEPT ![c] = s]
        /\ coa_ids' = IF coa[c].hash THEN [coa_ids EXCEPT ![coa[c].id] = NoId] ELSE coa_ids
        /\ coa_stale' = IF coa_conf.late THEN coa_stale \cup {coa[c].id} ELSE coa_stale
        /\ coa_outstanding' = IF r.hash THEN CountDown(r) ELSE coa_outstanding
    BY DEF Free, Set, Released, Stale
  <1> HIDE DEF s
  <1>3. coa[c].id \in CoaIds
    BY DEF CoaInv, Right
  <1>4. coa_outstanding' \in Nat
    BY <1>2, CountLemma DEF CoaInv
  <1>5. coa_ids' \in [CoaIds -> CoaReqs \cup {NoId}] /\ coa_stale' \subseteq CoaIds
    BY <1>2, <1>3 DEF CoaInv
  <1>6. ~coa_conf.late => coa_stale' = {} /\ Owned'
    BY <1>1, <1>2, OwnedFree DEF CoaInv
  <1> QED
    BY <1>1, <1>2, <1>4, <1>5, <1>6, OneChanges

-----------------------------------------------------------------------------
\* originated_coa_request().
LEMMA OriginateLemma ==
    ASSUME CoaInv, NEW c \in CoaReqs, NEW stamped \in BOOLEAN, NEW delay \in FirstDelays, NEW id \in CoaIds,
           Originate(c, stamped, delay, id)
    PROVE  CoaInv'
  <1> DEFINE a == [Unborn EXCEPT !.st = "PROXIED", !.stamped = stamped, !.id = id]
             b == [a EXCEPT !.hash = TRUE, !.delay = delay, !.sends = 1]
             x == [b EXCEPT !.parent = TRUE, !.next = TRUE, !.nextWhen = delay]
             y == [b EXCEPT !.ev = "retransmit_coa_request", !.when = delay]
             s == IF coa_conf.haveChildren THEN x ELSE y
  <1>0. delay \in Nat /\ delay >= 1 /\ delay <= LongestFirst /\ delay <= CoaEnd
    BY Delays
  <1>1. coa' = [coa EXCEPT ![c] = s]
    BY DEF Originate, Set
  <1>2. /\ id \in FreeIds /\ coa_outstanding' = coa_outstanding + 1 /\ coa_ids' = [coa_ids EXCEPT ![id] = c]
        /\ coa_conf' = coa_conf /\ coa_stale' = coa_stale /\ coa[c].st = "unborn"
    BY DEF Originate
  <1>3. /\ a \in CoaRecord /\ a.st = "PROXIED" /\ a.id = id /\ a.ev = "none" /\ a.parent = FALSE
        /\ a.count = 0 /\ a.sentAt = 0 /\ a.age = 0 /\ a.answered = 0 /\ a.failed = 0 /\ a.reply = FALSE
    BY UnbornLemma DEF CoaRecord
  <1> HIDE DEF a
  <1>4. /\ b \in CoaRecord /\ b.st = "PROXIED" /\ b.id = id /\ b.ev = "none" /\ b.parent = FALSE /\ b.hash = TRUE
        /\ b.count = 0 /\ b.sentAt = 0 /\ b.age = 0 /\ b.answered = 0 /\ b.failed = 0 /\ b.reply = FALSE
    BY <1>0, <1>3 DEF CoaRecord
  <1> HIDE DEF b
  <1>5. /\ x \in CoaRecord /\ x.st = "PROXIED" /\ x.id = id /\ x.ev = "none" /\ x.parent = TRUE /\ x.hash = TRUE
        /\ x.count = 0 /\ x.sentAt = 0 /\ x.age = 0 /\ x.answered = 0 /\ x.failed = 0 /\ x.reply = FALSE
        /\ x.next = TRUE /\ x.nextWhen = delay
    BY <1>0, <1>4 DEF CoaRecord
  <1>6. /\ y \in CoaRecord /\ y.st = "PROXIED" /\ y.id = id /\ y.ev = "retransmit_coa_request"
        /\ y.parent = FALSE /\ y.hash = TRUE /\ y.when = delay
        /\ y.count = 0 /\ y.sentAt = 0 /\ y.age = 0 /\ y.answered = 0 /\ y.failed = 0 /\ y.reply = FALSE
    BY <1>0, <1>4 DEF CoaRecord, CoaEvents
  <1> HIDE DEF x, y
  <1>7. Right(x)
    BY <1>0, <1>5, Delays DEF Right, Live, AtParent
  <1>8. Right(y)
    BY <1>0, <1>6, Delays DEF Right, Live, OnItsOwn
  <1>9. Right(s) /\ s.hash = TRUE /\ s.id = id
    BY <1>5, <1>6, <1>7, <1>8
  <1> HIDE DEF s
  <1>10. ~coa[c].hash
    BY <1>2 DEF CoaInv, Right, Live
  <1>11. ~coa_conf.late => coa_stale' = {} /\ Owned'
    BY <1>1, <1>2, <1>9, <1>10, OwnedNew DEF CoaInv
  <1>12. coa_ids' \in [CoaIds -> CoaReqs \cup {NoId}] /\ coa_outstanding' \in Nat /\ coa_stale' \subseteq CoaIds
    BY <1>2 DEF CoaInv
  <1> QED
    BY <1>1, <1>2, <1>9, <1>11, <1>12, OneChanges

LEMMA OriginateFailsLemma ==
    ASSUME CoaInv, NEW c \in CoaReqs, OriginateFails(c)
    PROVE  CoaInv'
  <1> DEFINE s == Gone(Unborn)
  <1>0. Unborn \in CoaRecord /\ Unborn.answered + Unborn.failed <= 1
    BY UnbornLemma
  <1>1. Right(s) /\ s.hash = FALSE /\ s.st = "freed"
    BY <1>0, GoneLemma
  <1>2. coa' = [coa EXCEPT ![c] = s] /\ coa_ids' = coa_ids /\ coa_stale' = coa_stale /\ coa_conf' = coa_conf
    BY DEF OriginateFails, Set
  <1> HIDE DEF s
  <1>3. coa_outstanding' \in Nat
    BY DEF OriginateFails, CoaInv
  <1>4. ~coa[c].hash
    BY DEF OriginateFails, CoaInv, Right, Live
  <1>5. ~coa_conf.late => coa_stale' = {} /\ Owned'
    BY <1>1, <1>2, <1>4, OwnedFree DEF CoaInv
  <1> QED
    BY <1>1, <1>2, <1>3, <1>5, OneChanges DEF CoaInv

\* wait_a_bit() of the parent.
LEMMA ParentWaitsLemma ==
    ASSUME CoaInv, NEW c \in CoaReqs, ParentWaits(c)
    PROVE  CoaInv'
  <1> DEFINE r == coa[c]
             a == [r EXCEPT !.ev = "retransmit_coa_request", !.when = r.nextWhen]
             s == [a EXCEPT !.next = FALSE, !.nextWhen = 0, !.parent = FALSE]
  <1>1. /\ coa' = [coa EXCEPT ![c] = s] /\ coa_ids' = coa_ids /\ coa_stale' = coa_stale
        /\ coa_conf' = coa_conf /\ coa_outstanding' = coa_outstanding /\ r.parent
    BY DEF ParentWaits, Set
  <1>2. Right(r) /\ r \in CoaRecord /\ r.nextWhen \in Nat
    BY CoaFields DEF CoaInv, Right
  <1> HIDE DEF r
  <1>3. r.st = "PROXIED" /\ AtParent(r)
    BY <1>1, <1>2, CoaFields DEF Right, Live, OnItsOwn
  <1>4. /\ a \in CoaRecord /\ a.st = r.st /\ a.id = r.id /\ a.ev = "retransmit_coa_request" /\ a.when = r.nextWhen
        /\ a.hash = r.hash /\ a.count = r.count /\ a.sentAt = r.sentAt /\ a.age = r.age
        /\ a.answered = r.answered /\ a.failed = r.failed /\ a.reply = r.reply
    BY <1>2 DEF CoaRecord, CoaEvents
  <1> HIDE DEF a
  <1>5. /\ s \in CoaRecord /\ s.st = r.st /\ s.id = r.id /\ s.ev = "retransmit_coa_request" /\ s.when = r.nextWhen
        /\ s.hash = r.hash /\ s.count = r.count /\ s.sentAt = r.sentAt /\ s.age = r.age /\ s.parent = FALSE
        /\ s.answered = r.answered /\ s.failed = r.failed /\ s.reply = r.reply
    BY <1>4 DEF CoaRecord
  <1> HIDE DEF s
  <1>6. s.age + s.when <= CoaEnd
    BY <1>2, <1>3, <1>5, Delays, CoaFields DEF AtParent
  <1>7. Right(s)
    BY <1>2, <1>3, <1>5, <1>6 DEF Right, Live, OnItsOwn
  <1>8. Owned => Owned'
    <2> SUFFICES ASSUME Owned PROVE Owned'
      OBVIOUS
    <2>1. s.id = coa[c].id /\ s.hash = coa[c].hash /\ (s.st = "PROXIED" => coa[c].hash)
      BY <1>5 DEF Owned, r
    <2> QED
      BY <1>1, <2>1, OwnedKeep
  <1> QED
    BY <1>1, <1>7, <1>8, OneChanges DEF CoaInv

LEMMA ParentFreedLemma ==
    ASSUME CoaInv, NEW c \in CoaReqs, ParentFreed(c)
    PROVE  CoaInv'
  <1>1. coa[c] \in CoaRecord /\ Live(coa[c]) /\ coa[c].answered + coa[c].failed <= 1
    BY DEF ParentFreed, CoaInv, Right
  <1>2. Free(c, coa[c]) /\ coa_conf' = coa_conf
    BY DEF ParentFreed
  <1> QED
    BY <1>1, <1>2, FreeLemma

-----------------------------------------------------------------------------
\* lookup_in_proxy_hash().
LEMMA LookedLemma ==
    ASSUME NEW o, Right(o)
    PROVE  LET r == LookedUp(o) IN
           /\ Right(r) /\ r.st = o.st /\ r.id = o.id /\ r.reply = o.reply
           /\ r.hash \in BOOLEAN /\ (r.hash => o.hash)
  <1> DEFINE n == o.answers + 1
             h == o.hash /\ o.sends # n
             a == [o EXCEPT !.answers = n]
             r == [a EXCEPT !.hash = h]
  <1>0. o \in CoaRecord /\ n \in Nat
    BY CoaFields DEF Right
  <1>1. LookedUp(o) = r
    BY <1>0 DEF LookedUp, CoaRecord
  <1>2. h \in BOOLEAN /\ (h => o.hash)
    BY <1>0, CoaFields
  <1> HIDE DEF n, h
  <1>3. /\ a \in CoaRecord /\ a.st = o.st /\ a.id = o.id /\ a.ev = o.ev /\ a.when = o.when /\ a.hash = o.hash
        /\ a.count = o.count /\ a.sentAt = o.sentAt /\ a.age = o.age /\ a.parent = o.parent /\ a.next = o.next
        /\ a.nextWhen = o.nextWhen /\ a.answered = o.answered /\ a.failed = o.failed /\ a.reply = o.reply
    BY <1>0 DEF CoaRecord
  <1> HIDE DEF a
  <1>4. /\ r \in CoaRecord /\ r.st = o.st /\ r.id = o.id /\ r.ev = o.ev /\ r.when = o.when /\ r.hash = h
        /\ r.count = o.count /\ r.sentAt = o.sentAt /\ r.age = o.age /\ r.parent = o.parent /\ r.next = o.next
        /\ r.nextWhen = o.nextWhen /\ r.answered = o.answered /\ r.failed = o.failed /\ r.reply = o.reply
    BY <1>2, <1>3 DEF CoaRecord
  <1> HIDE DEF r
  <1>5. Right(r)
    BY <1>2, <1>4 DEF Right, Live, AtParent, OnItsOwn
  <1> QED
    BY <1>1, <1>2, <1>4, <1>5

\* The first answer is handled.
LEMMA AnsweredLemma ==
    ASSUME NEW r, Right(r), r.st = "PROXIED"
    PROVE  LET s == CoaAnswered(r) IN
           Right(s) /\ s.st = "DONE" /\ s.id = r.id /\ s.hash = r.hash /\ s.answered + s.failed <= 1
  <1> DEFINE n == r.answered + 1
             a == [r EXCEPT !.reply = TRUE, !.parent = FALSE, !.st = "DONE"]
             b == [a EXCEPT !.ev = "wait_a_bit", !.when = 1]
             s == [b EXCEPT !.answered = n]
  <1>0. r \in CoaRecord /\ n = 1 /\ r.failed = 0
    BY CoaFields DEF Right
  <1>1. CoaAnswered(r) = s
    BY <1>0 DEF CoaAnswered, CoaRecord
  <1> HIDE DEF n
  <1>2. /\ a \in CoaRecord /\ a.st = "DONE" /\ a.id = r.id /\ a.hash = r.hash /\ a.count = r.count
        /\ a.sentAt = r.sentAt /\ a.parent = FALSE /\ a.failed = r.failed
    BY <1>0 DEF CoaRecord
  <1> HIDE DEF a
  <1>3. /\ b \in CoaRecord /\ b.st = "DONE" /\ b.id = r.id /\ b.hash = r.hash /\ b.count = r.count
        /\ b.sentAt = r.sentAt /\ b.parent = FALSE /\ b.failed = r.failed /\ b.ev = "wait_a_bit"
    BY <1>2 DEF CoaRecord, CoaEvents
  <1> HIDE DEF b
  <1>4. /\ s \in CoaRecord /\ s.st = "DONE" /\ s.id = r.id /\ s.hash = r.hash /\ s.count = r.count
        /\ s.sentAt = r.sentAt /\ s.parent = FALSE /\ s.failed = 0 /\ s.ev = "wait_a_bit" /\ s.answered = 1
    BY <1>0, <1>3 DEF CoaRecord
  <1> HIDE DEF s
  <1>5. Right(s)
    BY <1>4 DEF Right, Live
  <1> QED
    BY <1>1, <1>4, <1>5

LEMMA CoaReplyLemma ==
    ASSUME CoaInv, NEW c \in CoaReqs, Reply(c)
    PROVE  CoaInv'
  <1> DEFINE o == coa[c]
             r == LookedUp(o)
             ids == IF r.hash THEN coa_ids ELSE Released(coa_ids, r)
  <1>1. /\ o.hash /\ coa_conf' = coa_conf /\ coa_outstanding' = CountDown(o) /\ coa_stale' = Stale(o)
    BY DEF Reply
  <1>2. \/ ~HandleReply(o) /\ Set(c, r) /\ coa_ids' = ids
        \/ HandleReply(o) /\ Set(c, CoaAnswered(r)) /\ coa_ids' = ids
        \/ HandleReply(o) /\ Set(c, Gone(CoaAnswered(r))) /\ coa_ids' = Released(coa_ids, r)
    BY DEF Reply
  <1>3. Right(o)
    BY DEF CoaInv
  <1>4. o.id \in CoaIds /\ o.st \in {"PROXIED", "DONE"}
    BY <1>1, <1>3 DEF Right, Live
  <1>5. Right(r) /\ r.st = o.st /\ r.id = o.id /\ r.reply = o.reply /\ r.hash \in BOOLEAN
    BY <1>3, LookedLemma
  <1>6. coa_outstanding' \in Nat /\ coa_stale' \subseteq CoaIds /\ (~coa_conf.late => coa_stale' = coa_stale)
    BY <1>1, <1>4, CountLemma DEF CoaInv, Stale
  <1> HIDE DEF r
  <1>7. coa_ids' = coa_ids \/ coa_ids' = [coa_ids EXCEPT ![o.id] = NoId]
    BY <1>2, <1>5 DEF Released
  <1>8. coa_ids' \in [CoaIds -> CoaReqs \cup {NoId}]
    BY <1>7 DEF CoaInv
  \* Whatever the answer is used for, an Id that is left belongs to the request.
  <1>9. ASSUME NEW s, Right(s), coa' = [coa EXCEPT ![c] = s], s.st # "PROXIED",
               \/ s.hash = r.hash /\ s.id = o.id /\ coa_ids' = ids
               \/ s.hash = FALSE /\ coa_ids' = Released(coa_ids, r)
        PROVE  CoaInv'
    <2>1. ASSUME ~coa_conf.late PROVE coa_stale' = {} /\ Owned'
      <3>1. coa_stale' = {} /\ Owned
        BY <1>6, <2>1 DEF CoaInv
      <3>2. CASE s.hash
        BY <1>1, <1>5, <1>9, <3>1, <3>2, OwnedKeep
      <3>3. CASE ~s.hash
        <4>1. s.hash = FALSE /\ coa_ids' = [coa_ids EXCEPT ![coa[c].id] = NoId]
          BY <1>5, <1>9, <3>3 DEF Released
        <4> QED
          BY <1>1, <1>9, <3>1, <4>1, OwnedFree
      <3> QED
        BY <3>1, <3>2, <3>3
    <2> QED
      BY <1>1, <1>6, <1>8, <1>9, <2>1, OneChanges
  <1>10. CASE ~HandleReply(o) /\ Set(c, r) /\ coa_ids' = ids
    <2>1. o.st # "PROXIED"
      BY <1>3, <1>10 DEF HandleReply, Right
    <2> QED
      BY <1>5, <1>9, <1>10, <2>1 DEF Set
  <1>11. CASE HandleReply(o) /\ Set(c, CoaAnswered(r)) /\ coa_ids' = ids
    <2> DEFINE s == CoaAnswered(r)
    <2>1. Right(s) /\ s.st = "DONE" /\ s.id = r.id /\ s.hash = r.hash
      BY <1>5, <1>11, AnsweredLemma DEF HandleReply
    <2>2. coa' = [coa EXCEPT ![c] = s]
      BY <1>11 DEF Set
    <2> HIDE DEF s
    <2> QED
      BY <1>5, <1>9, <1>11, <2>1, <2>2
  <1>12. CASE HandleReply(o) /\ Set(c, Gone(CoaAnswered(r))) /\ coa_ids' = Released(coa_ids, r)
    <2> DEFINE a == CoaAnswered(r)
               s == Gone(a)
    <2>1. Right(a) /\ a.answered + a.failed <= 1
      BY <1>5, <1>12, AnsweredLemma DEF HandleReply
    <2>2. coa' = [coa EXCEPT ![c] = s]
      BY <1>12 DEF Set
    <2> HIDE DEF a
    <2>3. Right(s) /\ s.hash = FALSE /\ s.st = "freed"
      BY <2>1, GoneLemma DEF Right
    <2> HIDE DEF s
    <2> QED
      BY <1>9, <1>12, <2>2, <2>3
  <1> QED
    BY <1>2, <1>10, <1>11, <1>12

LEMMA LateReplyLemma ==
    ASSUME CoaInv, NEW i \in CoaIds, LateReply(i)
    PROVE  CoaInv'
  <1> DEFINE c == coa_ids[i]
             r == LookedUp(coa[c])
  <1>1. c \in CoaReqs /\ coa_conf.late
    BY DEF LateReply, CoaInv
  <1>2. /\ coa' = [coa EXCEPT ![c] = r] /\ coa_conf' = coa_conf /\ coa_stale' = coa_stale
        /\ coa_ids' = IF r.hash THEN coa_ids ELSE Released(coa_ids, r)
        /\ coa_outstanding' = CountDown(coa[c])
    BY DEF LateReply, Set
  <1>3. Right(r)
    BY <1>1, LookedLemma DEF CoaInv
  <1> HIDE DEF r
  <1>4. coa_outstanding' \in Nat
    BY <1>2, CountLemma DEF CoaInv
  <1>5. coa_ids' \in [CoaIds -> CoaReqs \cup {NoId}]
    BY <1>2 DEF Released, CoaInv
  <1> HIDE DEF c
  <1> QED
    BY <1>1, <1>2, <1>3, <1>4, <1>5, OneChanges DEF CoaInv

-----------------------------------------------------------------------------
\* no_response_to_coa_request() and post_proxy_fail_handler().
LEMMA CoaNoResponseLemma ==
    ASSUME CoaInv, NEW c \in CoaReqs, coa[c].st = "PROXIED", coa[c].ev # "none", CoaNoResponse(c), coa_conf' = coa_conf
    PROVE  CoaInv'
  <1> DEFINE o == coa[c]
             n == o.failed + 1
             a == [o EXCEPT !.failed = n]
             r == [a EXCEPT !.st = "DONE", !.ev = "none"]
  <1>0. Right(o) /\ o \in CoaRecord /\ n = 1 /\ o.answered = 0 /\ ~o.parent /\ o.id \in CoaIds /\ Live(o)
    BY CoaFields DEF CoaInv, Right, AtParent, OnItsOwn, Live
  <1>1. \/ ~Abandoned /\ Free(c, r)
        \/ Abandoned /\ Set(c, r) /\ UNCHANGED <<coa_ids, coa_stale, coa_outstanding>>
    BY <1>0 DEF CoaNoResponse, CoaRecord
  <1> HIDE DEF n
  <1>2. /\ a \in CoaRecord /\ a.id = o.id /\ a.hash = o.hash /\ a.count = o.count
        /\ a.sentAt = o.sentAt /\ a.parent = o.parent /\ a.failed = 1 /\ a.answered = o.answered
    BY <1>0 DEF CoaRecord
  <1> HIDE DEF a
  <1>3. /\ r \in CoaRecord /\ r.st = "DONE" /\ r.id = o.id /\ r.hash = o.hash /\ r.count = o.count
        /\ r.sentAt = o.sentAt /\ r.parent = o.parent /\ r.failed = 1 /\ r.answered = o.answered /\ r.ev = "none"
    BY <1>2 DEF CoaRecord, CoaEvents
  <1> HIDE DEF r
  <1>4. CASE ~Abandoned /\ Free(c, r)
    BY <1>0, <1>3, <1>4, FreeLemma
  <1>5. CASE Abandoned /\ Set(c, r) /\ UNCHANGED <<coa_ids, coa_stale, coa_outstanding>>
    <2>1. Right(r)
      BY <1>0, <1>3, <1>5 DEF Right, Live
    <2>2. coa' = [coa EXCEPT ![c] = r] /\ coa_ids' = coa_ids /\ coa_stale' = coa_stale
          /\ coa_outstanding' = coa_outstanding
      BY <1>5 DEF Set
    <2>3. Owned => Owned'
      BY <1>3, <2>2, OwnedKeep
    <2> QED
      BY <2>1, <2>2, <2>3, OneChanges DEF CoaInv
  <1> QED
    BY <1>1, <1>4, <1>5

\* The event after a retransmission.
LEMMA NextEventLemma ==
    ASSUME NEW o, Right(o), o.st = "PROXIED", ~o.parent, o.ev = "retransmit_coa_request", o.when = 0,
           NEW delay \in Nat
    PROVE  LET r == NextEvent(o, delay) IN
           /\ Right(r) /\ r.st = "PROXIED" /\ r.id = o.id /\ r.hash = o.hash /\ r.count = o.count
           /\ ~r.parent /\ r.age = o.age /\ OnItsOwn(r) /\ r.stamped = o.stamped
  <1> DEFINE w == IF o.age < CoaMrd THEN CoaMrd - o.age ELSE 0
             a == [o EXCEPT !.delay = delay]
             x == [a EXCEPT !.ev = "no_response_to_coa_request", !.when = w]
             y == [a EXCEPT !.ev = "retransmit_coa_request", !.when = delay]
             r == IF o.age + delay > CoaMrd THEN x ELSE y
  <1>0. o \in CoaRecord /\ o.age \in Nat /\ o.age <= CoaEnd
    BY CoaFields DEF Right, AtParent, OnItsOwn
  <1>1. NextEvent(o, delay) = r
    BY <1>0 DEF NextEvent, CoaRecord
  <1>2. w \in Nat /\ o.age + w <= CoaEnd
    BY <1>0, Delays
  <1> HIDE DEF w
  <1>3. /\ a \in CoaRecord /\ a.st = o.st /\ a.id = o.id /\ a.hash = o.hash /\ a.stamped = o.stamped
        /\ a.count = o.count /\ a.sentAt = o.sentAt /\ a.age = o.age /\ a.parent = o.parent
        /\ a.answered = o.answered /\ a.failed = o.failed /\ a.reply = o.reply
    BY <1>0 DEF CoaRecord
  <1> HIDE DEF a
  <1>4. /\ x \in CoaRecord /\ x.st = o.st /\ x.id = o.id /\ x.hash = o.hash /\ x.stamped = o.stamped
        /\ x.count = o.count /\ x.sentAt = o.sentAt /\ x.age = o.age /\ x.parent = o.parent
        /\ x.answered = o.answered /\ x.failed = o.failed /\ x.reply = o.reply
        /\ x.ev = "no_response_to_coa_request" /\ x.when = w
    BY <1>2, <1>3 DEF CoaRecord, CoaEvents
  <1>5. /\ y \in CoaRecord /\ y.st = o.st /\ y.id = o.id /\ y.hash = o.hash /\ y.stamped = o.stamped
        /\ y.count = o.count /\ y.sentAt = o.sentAt /\ y.age = o.age /\ y.parent = o.parent
        /\ y.answered = o.answered /\ y.failed = o.failed /\ y.reply = o.reply
        /\ y.ev = "retransmit_coa_request" /\ y.when = delay
    BY <1>3 DEF CoaRecord, CoaEvents
  <1> HIDE DEF x, y
  <1>6. OnItsOwn(x)
    BY <1>2, <1>4 DEF OnItsOwn
  <1>7. Right(x)
    BY <1>4, <1>6 DEF Right, Live
  <1>8. o.age + delay <= CoaMrd => OnItsOwn(y)
    BY <1>0, <1>5, Delays DEF OnItsOwn
  <1>9. o.age + delay <= CoaMrd => Right(y)
    BY <1>5, <1>8 DEF Right, Live
  <1>10. o.age + delay > CoaMrd \/ o.age + delay <= CoaMrd
    BY <1>0, Delays
  <1> QED
    BY <1>1, <1>4, <1>5, <1>6, <1>7, <1>8, <1>9, <1>10

\* One transmission more.
LEMMA SentLemma ==
    ASSUME NEW r, Right(r), r.st = "PROXIED", OnItsOwn(r), CoaMrc # 0 => r.count < CoaMrc
    PROVE  LET s == Sent(r) IN Right(s) /\ s.st = "PROXIED" /\ s.id = r.id /\ s.hash = r.hash
  <1> DEFINE n == r.sends + 1
             m == r.count + 1
             a == [r EXCEPT !.sends = n]
             b == [a EXCEPT !.count = m]
             s == [b EXCEPT !.sentAt = r.age]
  <1>0. r \in CoaRecord /\ n \in Nat /\ m \in Nat /\ r.age \in Nat
    BY CoaFields DEF Right
  <1>1. (CoaMrc # 0 => m <= CoaMrc) /\ r.age <= CoaEnd
    BY <1>0, Delays, CoaFields DEF OnItsOwn
  <1>2. Sent(r) = s
    BY <1>0 DEF Sent, CoaRecord
  <1> HIDE DEF n, m
  <1>3. /\ a \in CoaRecord /\ a.st = r.st /\ a.id = r.id /\ a.hash = r.hash /\ a.ev = r.ev /\ a.when = r.when
        /\ a.sentAt = r.sentAt /\ a.age = r.age /\ a.parent = r.parent
        /\ a.answered = r.answered /\ a.failed = r.failed /\ a.reply = r.reply
    BY <1>0 DEF CoaRecord
  <1> HIDE DEF a
  <1>4. /\ b \in CoaRecord /\ b.st = r.st /\ b.id = r.id /\ b.hash = r.hash /\ b.ev = r.ev /\ b.when = r.when
        /\ b.count = m /\ b.age = r.age /\ b.parent = r.parent
        /\ b.answered = r.answered /\ b.failed = r.failed /\ b.reply = r.reply
    BY <1>0, <1>3 DEF CoaRecord
  <1> HIDE DEF b
  <1>5. /\ s \in CoaRecord /\ s.st = r.st /\ s.id = r.id /\ s.hash = r.hash /\ s.ev = r.ev /\ s.when = r.when
        /\ s.count = m /\ s.age = r.age /\ s.parent = r.parent /\ s.sentAt = r.age
        /\ s.answered = r.answered /\ s.failed = r.failed /\ s.reply = r.reply
    BY <1>0, <1>4 DEF CoaRecord
  <1> HIDE DEF s
  <1>6. Right(s)
    BY <1>1, <1>5 DEF Right, Live, OnItsOwn
  <1> QED
    BY <1>2, <1>5, <1>6

\* retransmit_coa_request(), before MRC is reached.
LEMMA CoaRetransmitLemma ==
    ASSUME CoaInv, NEW c \in CoaReqs, coa[c].ev = "retransmit_coa_request", coa[c].when = 0,
           CoaMrc = 0 \/ coa[c].count < CoaMrc, NEW delay \in Nat, Retransmit(c, delay), coa_conf' = coa_conf
    PROVE  CoaInv'
  <1> DEFINE o == coa[c]
             r == NextEvent(o, delay)
  <1>a. Right(o) /\ o \in CoaRecord
    BY DEF CoaInv, Right
  <1>b. o.st = "PROXIED" /\ o.id \in CoaIds
    BY <1>a, CoaFields DEF Right, Live
  <1>c. ~o.parent
    BY <1>a, <1>b DEF Right, AtParent, OnItsOwn
  <1>0. Right(o) /\ o.st = "PROXIED" /\ ~o.parent /\ o.id \in CoaIds
    BY <1>a, <1>b, <1>c
  <1>1. /\ Right(r) /\ r.st = "PROXIED" /\ r.id = o.id /\ r.hash = o.hash /\ r.count = o.count
        /\ ~r.parent /\ r.age = o.age /\ OnItsOwn(r)
    BY <1>0, NextEventLemma
  <1>2. \/ Set(c, Sent(r)) /\ UNCHANGED <<coa_ids, coa_stale, coa_outstanding>>
        \/ Set(c, r) /\ UNCHANGED <<coa_ids, coa_stale>> /\ coa_outstanding' = coa_outstanding + 1
        \/ /\ coa_outstanding' = coa_outstanding + 1
           /\ \E id \in FreeIds :
               /\ coa_ids' = NewId(c, r, id)
               /\ coa_stale' = Stale(r)
               /\ Set(c, Sent([r EXCEPT !.id = id, !.hash = TRUE, !.sends = 0, !.answers = 0]))
    BY DEF Retransmit
  <1> HIDE DEF r
  <1>3. CoaMrc # 0 => r.count < CoaMrc
    BY <1>1
  <1>4. ASSUME NEW s, Right(s), s.id = o.id, s.hash = o.hash, coa' = [coa EXCEPT ![c] = s],
               coa_ids' = coa_ids, coa_stale' = coa_stale, coa_outstanding' \in Nat
        PROVE  CoaInv'
    <2>1. Owned => Owned'
      <3> SUFFICES ASSUME Owned PROVE Owned'
        OBVIOUS
      <3>1. coa[c].hash
        BY <1>0 DEF Owned
      <3> QED
        BY <1>4, <3>1, OwnedKeep
    <2> QED
      BY <1>4, <2>1, OneChanges DEF CoaInv
  <1>5. CASE Set(c, Sent(r)) /\ UNCHANGED <<coa_ids, coa_stale, coa_outstanding>>
    <2> DEFINE s == Sent(r)
    <2>1. Right(s) /\ s.id = r.id /\ s.hash = r.hash
      BY <1>1, <1>3, SentLemma
    <2>2. coa' = [coa EXCEPT ![c] = s] /\ coa_outstanding' \in Nat
      BY <1>5 DEF Set, CoaInv
    <2> HIDE DEF s
    <2> QED
      BY <1>1, <1>4, <1>5, <2>1, <2>2
  <1>6. CASE Set(c, r) /\ UNCHANGED <<coa_ids, coa_stale>> /\ coa_outstanding' = coa_outstanding + 1
    <2>1. coa' = [coa EXCEPT ![c] = r] /\ coa_outstanding' \in Nat
      BY <1>6 DEF Set, CoaInv
    <2> QED
      BY <1>1, <1>4, <1>6, <2>1
  <1>7. ASSUME NEW id \in FreeIds, coa_outstanding' = coa_outstanding + 1,
               coa_ids' = NewId(c, r, id), coa_stale' = Stale(r),
               Set(c, Sent([r EXCEPT !.id = id, !.hash = TRUE, !.sends = 0, !.answers = 0]))
        PROVE  CoaInv'
    <2> DEFINE a == [r EXCEPT !.id = id, !.hash = TRUE]
               t == [a EXCEPT !.sends = 0, !.answers = 0]
               s == Sent(t)
    <2>0. id \in CoaIds /\ r \in CoaRecord
      BY <1>1 DEF FreeIds, Right
    <2>1. coa' = [coa EXCEPT ![c] = s]
      BY <1>7 DEF Set
    <2>2. /\ a \in CoaRecord /\ a.st = r.st /\ a.id = id /\ a.hash = TRUE /\ a.ev = r.ev /\ a.when = r.when
          /\ a.count = r.count /\ a.sentAt = r.sentAt /\ a.age = r.age /\ a.parent = r.parent
          /\ a.answered = r.answered /\ a.failed = r.failed /\ a.reply = r.reply
      BY <2>0 DEF CoaRecord
    <2> HIDE DEF a
    <2>3. /\ t \in CoaRecord /\ t.st = r.st /\ t.id = id /\ t.hash = TRUE /\ t.ev = r.ev /\ t.when = r.when
          /\ t.count = r.count /\ t.sentAt = r.sentAt /\ t.age = r.age /\ t.parent = r.parent
          /\ t.answered = r.answered /\ t.failed = r.failed /\ t.reply = r.reply
      BY <2>2 DEF CoaRecord
    <2> HIDE DEF t
    <2>4. OnItsOwn(t)
      BY <1>1, <2>3 DEF OnItsOwn
    <2>5. Right(t)
      BY <1>1, <2>0, <2>3, <2>4 DEF Right, Live
    <2>6. Right(s) /\ s.id = id /\ s.hash = TRUE
      BY <1>1, <1>3, <2>3, <2>4, <2>5, SentLemma
    <2> HIDE DEF s
    <2>7. coa_ids' = NewId(c, coa[c], id)
      BY <1>1, <1>7 DEF NewId, Released
    <2>8. coa_ids' \in [CoaIds -> CoaReqs \cup {NoId}]
      BY <1>7, <2>0 DEF NewId, Released, CoaInv
    <2>9. coa_stale' \subseteq CoaIds /\ (~coa_conf.late => coa_stale' = coa_stale) /\ coa_outstanding' \in Nat
      BY <1>0, <1>1, <1>7 DEF Stale, CoaInv
    <2>10. Owned => Owned'
      <3> SUFFICES ASSUME Owned PROVE Owned'
        OBVIOUS
      <3>1. coa[c].hash
        BY <1>0 DEF Owned
      <3> QED
        BY <1>7, <2>1, <2>6, <2>7, <3>1, OwnedNew
    <2> QED
      BY <2>1, <2>6, <2>8, <2>9, <2>10, OneChanges DEF CoaInv
  <1> QED
    BY <1>2, <1>5, <1>6, <1>7

\* fr_event_run().
LEMMA CoaFireLemma ==
    ASSUME CoaInv, NEW c \in CoaReqs, CoaFire(c)
    PROVE  CoaInv'
  <1>0. Right(coa[c]) /\ coa[c] \in CoaRecord /\ coa_conf' = coa_conf /\ coa[c].ev # "none" /\ coa[c].when = 0
    BY DEF CoaInv, CoaFire, Right
  <1>1. Live(coa[c])
    BY <1>0 DEF Right
  <1>2. CASE coa[c].ev = "wait_a_bit" /\ Free(c, coa[c])
    BY <1>0, <1>1, <1>2, FreeLemma DEF Right
  <1>3. CASE /\ coa[c].ev \in {"no_response_to_coa_request", "retransmit_coa_request"}
             /\ CoaNoResponse(c)
    <2>1. coa[c].st = "PROXIED"
      BY <1>0, <1>1, <1>3 DEF Right, Live
    <2> QED
      BY <1>0, <1>3, <2>1, CoaNoResponseLemma
  <1>4. CASE /\ coa[c].ev = "retransmit_coa_request"
             /\ CoaMrc = 0 \/ coa[c].count < CoaMrc
             /\ \E delay \in NextDelays(coa[c].delay) : Retransmit(c, delay)
    <2>1. PICK delay \in NextDelays(coa[c].delay) : Retransmit(c, delay)
      BY <1>4
    <2>2. delay \in Nat
      BY <1>0, CoaFields, NextDelaysAreNat
    <2> QED
      BY <1>0, <1>4, <2>1, <2>2, CoaRetransmitLemma
  <1> QED
    BY <1>2, <1>3, <1>4 DEF CoaFire

\* A second passes for a request.
LEMMA CoaTickLemma ==
    ASSUME NEW o, Right(o), o.ev # "none" => o.when > 0, o.parent => o.age = 0,
           NEW s, s = [o EXCEPT !.age = IF o.st = "PROXIED" THEN @ + 1 ELSE @,
                                !.when = IF o.ev # "none" THEN @ - 1 ELSE @,
                                !.nextWhen = IF o.parent THEN @ - 1 ELSE @]
    PROVE  Right(s) /\ s.st = o.st /\ s.id = o.id /\ s.hash = o.hash
  <1> DEFINE g == IF o.st = "PROXIED" THEN o.age + 1 ELSE o.age
             w == IF o.ev # "none" THEN o.when - 1 ELSE o.when
             n == IF o.parent THEN o.nextWhen - 1 ELSE o.nextWhen
             a == [o EXCEPT !.age = g]
             b == [a EXCEPT !.when = w]
             t == [b EXCEPT !.nextWhen = n]
  <1>0. o \in CoaRecord
    BY DEF Right
  <1>1. s = t
    BY <1>0 DEF CoaRecord
  <1>2. o.parent => AtParent(o) /\ o.st = "PROXIED"
    BY <1>0, CoaFields DEF Right, Live, OnItsOwn
  <1>3. g \in Nat /\ w \in Nat
    BY <1>0, CoaFields
  <1>4. n \in Nat
    BY <1>0, <1>2, CoaFields DEF AtParent
  <1>5. AtParent(o) /\ o.st = "PROXIED" => g + n >= 1 /\ g + n <= LongestFirst
    BY <1>0, CoaFields, Delays DEF AtParent
  <1>6. OnItsOwn(o) /\ o.st = "PROXIED" => g + w <= CoaEnd
    BY <1>0, CoaFields, Delays DEF OnItsOwn
  <1> HIDE DEF g, w, n
  <1>7. /\ a \in CoaRecord /\ a.st = o.st /\ a.id = o.id /\ a.ev = o.ev /\ a.hash = o.hash
        /\ a.count = o.count /\ a.sentAt = o.sentAt /\ a.age = g /\ a.parent = o.parent /\ a.next = o.next
        /\ a.answered = o.answered /\ a.failed = o.failed /\ a.reply = o.reply
    BY ONLY <1>0, <1>3 DEF CoaRecord, a
  <1> HIDE DEF a
  <1>8. /\ b \in CoaRecord /\ b.st = o.st /\ b.id = o.id /\ b.ev = o.ev /\ b.hash = o.hash
        /\ b.count = o.count /\ b.sentAt = o.sentAt /\ b.age = g /\ b.parent = o.parent /\ b.next = o.next
        /\ b.answered = o.answered /\ b.failed = o.failed /\ b.reply = o.reply /\ b.when = w
    BY ONLY <1>7, <1>3 DEF CoaRecord, b
  <1> HIDE DEF b
  <1>9. /\ t \in CoaRecord /\ t.st = o.st /\ t.id = o.id /\ t.ev = o.ev /\ t.hash = o.hash
        /\ t.count = o.count /\ t.sentAt = o.sentAt /\ t.age = g /\ t.parent = o.parent /\ t.next = o.next
        /\ t.answered = o.answered /\ t.failed = o.failed /\ t.reply = o.reply /\ t.when = w /\ t.nextWhen = n
    BY ONLY <1>8, <1>4 DEF CoaRecord, t
  <1> HIDE DEF t
  <1>10. o.st = "PROXIED" => AtParent(t) \/ OnItsOwn(t)
    BY <1>5, <1>6, <1>9 DEF Right, AtParent, OnItsOwn
  <1>11. Right(t)
    BY <1>9, <1>10 DEF Right, Live
  <1> QED
    BY <1>1, <1>9, <1>11

LEMMA CoaStepLemma == CoaInv /\ [CoaNext]_coaVars => CoaInv'
  <1> SUFFICES ASSUME CoaInv, [CoaNext]_coaVars PROVE CoaInv'
    OBVIOUS
  <1>1. ASSUME NEW c \in CoaReqs,
               \/ \E stamped \in BOOLEAN, delay \in FirstDelays, id \in CoaIds : Originate(c, stamped, delay, id)
               \/ OriginateFails(c) \/ ParentFreed(c) \/ Reply(c) \/ CoaStep(c)
        PROVE  CoaInv'
    BY <1>1, OriginateLemma, OriginateFailsLemma, ParentFreedLemma, ParentWaitsLemma, CoaReplyLemma, CoaFireLemma
       DEF CoaStep
  <1>2. ASSUME NEW i \in CoaIds, LateReply(i) PROVE CoaInv'
    BY <1>2, LateReplyLemma
  <1>3. ASSUME coa_conf' = coa_conf PROVE \A r : Right(r)' <=> Right(r)
    BY <1>3 DEF Right, Live, AtParent, OnItsOwn, Abandoned
  <1>4. CASE CoaTick
    <2>1. /\ coa_conf' = coa_conf /\ coa_ids' = coa_ids /\ coa_stale' = coa_stale
          /\ coa_outstanding' = coa_outstanding
      BY <1>4 DEF CoaTick
    <2>2. ASSUME NEW c \in CoaReqs
          PROVE  /\ Right(coa'[c]) /\ coa'[c] \in CoaRecord
                 /\ coa'[c].st = coa[c].st /\ coa'[c].id = coa[c].id /\ coa'[c].hash = coa[c].hash
      <3>1. coa'[c] = [coa[c] EXCEPT !.age = IF coa[c].st = "PROXIED" THEN @ + 1 ELSE @,
                                !.when = IF coa[c].ev # "none" THEN @ - 1 ELSE @,
                                !.nextWhen = IF coa[c].parent THEN @ - 1 ELSE @]
        BY <1>4 DEF CoaTick
      <3>2. (coa[c].ev # "none" => coa[c].when > 0) /\ (coa[c].parent => coa[c].age = 0) /\ Right(coa[c])
        BY <1>4 DEF CoaTick, CoaInv
      <3>3. Right(coa'[c]) /\ coa'[c].st = coa[c].st /\ coa'[c].id = coa[c].id /\ coa'[c].hash = coa[c].hash
        BY <3>1, <3>2, CoaTickLemma
      <3> QED
        BY <3>3 DEF Right
    <2>3. coa' \in [CoaReqs -> CoaRecord]
      <3>1. coa' = [c \in CoaReqs |-> coa'[c]]
        BY <1>4 DEF CoaTick
      <3> QED
        BY <2>2, <3>1
    <2>4. \A i \in CoaIds : coa_ids[i] # NoId => coa_ids[i] \in CoaReqs
      BY DEF CoaInv
    <2>5. Owned => Owned'
      BY <2>1, <2>2, <2>4 DEF Owned
    <2> QED
      BY <1>3, <2>1, <2>2, <2>3, <2>5 DEF CoaInv
  <1>5. CASE UNCHANGED coaVars
    BY <1>3, <1>5 DEF CoaInv, Owned, coaVars
  <1> QED
    BY <1>1, <1>2, <1>4, <1>5 DEF CoaNext

\* A CoA request that the server originates keeps its Id, or gets another one
\* and gives the old one back; it always has an event or a parent that will
\* give it one; its answer is handled or it fails, once; and it is neither sent
\* nor kept longer than coa_mrd, nor sent more than coa_mrc times again.
THEOREM CoaTheorem == CoaSpec => []CoaIsRight
  <1>1. CoaInit => CoaInv
    <2> SUFFICES ASSUME CoaInit PROVE CoaInv
      OBVIOUS
    <2>1. Right(Unborn)
      BY UnbornLemma, Delays DEF Right, Live
    <2>2. \A c \in CoaReqs : coa[c] = Unborn
      BY DEF CoaInit
    <2>3. \A i \in CoaIds : coa_ids[i] = NoId
      BY DEF CoaInit
    <2>4. Owned
      BY <2>2, <2>3, UnbornLemma DEF Owned
    <2> QED
      BY <2>1, <2>2, <2>4, UnbornLemma, CoaAssumption DEF CoaInit, CoaInv
  <1>2. CoaInv => CoaIsRight
    <2> SUFFICES ASSUME CoaInv PROVE CoaIsRight
      OBVIOUS
    <2>1. CoaTypeOK
      BY DEF CoaInv, CoaTypeOK
    <2>2. CoaIdIsItsOwn
      <3>1. \A i \in CoaIds : coa_ids[i] # NoId => coa_ids[i] \in CoaReqs
        BY DEF CoaInv
      <3>2. \A c \in CoaReqs : coa[c].hash => Live(coa[c])
        BY DEF CoaInv, Right
      <3> QED
        BY <3>1, <3>2 DEF CoaInv, Owned, CoaIdIsItsOwn
    <2>3. CoaHasTimer
      BY DEF CoaInv, Right, Live, AtParent, OnItsOwn, CoaHasTimer
    <2>4. CoaEndsOnce
      BY DEF CoaInv, Right, CoaEndsOnce
    <2>5. ASSUME NEW c \in CoaReqs, coa[c].st = "PROXIED" PROVE coa[c].age <= CoaEnd
      <3>1. coa[c] \in CoaRecord /\ (AtParent(coa[c]) \/ OnItsOwn(coa[c]))
        BY <2>5 DEF CoaInv, Right
      <3> QED
        BY <3>1, CoaFields, Delays DEF AtParent, OnItsOwn
    <2>6. CoaStopsInTime
      BY <2>5 DEF CoaInv, Right, CoaStopsInTime
    <2> QED
      BY <2>1, <2>2, <2>3, <2>4, <2>6 DEF CoaIsRight
  <1> QED
    BY <1>1, <1>2, CoaStepLemma, PTL DEF CoaSpec
=============================================================================
